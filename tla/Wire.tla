--------------------------------- MODULE Wire ---------------------------------
(***************************************************************************)
(* A run without a login, request by request: probe.Discover, Register,    *)
(* the Run functions of the checks that send something and the cleanup,    *)
(* against the servers of FakeAS, with MCPRequest as in Mcp.               *)
(*                                                                         *)
(* Run says which outcomes a row may have; here each row is what the code  *)
(* makes of the answers it got.  A run loses at most as many requests or   *)
(* answers as its world allows.                                            *)
(***************************************************************************)
EXTENDS Run, Mcp, AuthMethod

CONSTANTS
  Worlds,         \* servers, command line and losses, see WorldType
  NewerVersion    \* a protocol version later than the one the probe speaks

ASSUME NewerAssumption == NewerVersion \in Versions /\ NewerVersion > ModernVersion

INSTANCE FakeAS

WorldType ==
  [as : SUBSET (ASViolations \cup ASVariants \cup ExternalAS),
   rs : SUBSET (RSViolations \cup RSVariants \cup ExternalRS),
   opts : Invocations,
   act : Nat,              \* length of the actor chain of the pasted subject token
   mayAct : {"anyone", "actor", "another"},   \* and whom it lets act for its subject
   secret : BOOLEAN,       \* --client-secret
   method : STRING,        \* --token-auth-method, "" when not given
   losses : Nat]

ASSUME WorldsAssumption ==
  /\ Worlds \subseteq WorldType
  /\ \A w \in Worlds : ~w.opts.authCode /\ ~w.opts.badFlags /\ ~w.opts.unknownModel
  /\ \A w \in Worlds : "NewerOnly" \in w.rs =>
       w.rs \cap {"ListsLegacyOnly", "ListsItsRefusal", "LegacyFirst", "LegacyAfterAuth"} = {}

VARIABLES
  world,    \* never changes
  server,   \* what the servers remember
  said,     \* the answers the walk or the check at hand has had
  client,   \* AuthPlan.TokenAuthMethod and whether there is a secret
  budget    \* losses still to come

wireVars == <<world, server, said, client, budget>>
allVars  == <<vars, callVars, wireVars>>

Nothing == [to |-> "nobody"]

----------------------------------------------------------------------------
\* What an unauthenticated call that loses nothing shows of the challenge.
Unasked == [token |-> NoToken, proof |-> NoProof]

ChallengeOf(w) ==
  LET at(v) == handleMCP(w.rs, Server(Blank), Unasked, v)
      first == at(ModernVersion)
  IN IF ~Ambiguous(first.status) THEN first.headers
     ELSE IF ~ModernError(first) THEN at(LegacyVersion).headers
     ELSE IF Retry(first.supported) = NoVersion THEN first.headers
     ELSE at(Retry(first.supported)).headers

\* The deployment a world is, in the terms of Run.
ReliableAS == ASVariants \ {"SkipDPoPNonce"}
ReliableRS == {"HeaderMethod", "Scopes", "ChecksRevocation", "LegacyFirst", "NewerOnly"}

SiteOf(w) ==
  LET resource == ChallengeOf(w) \cup handlePRM(w.rs) \cup {"noOfflineAccess"}
      dark == w.opts.target /\ "UnresolvableAuthServer" \in w.rs
  IN [facts |-> resource \cup (IF dark THEN {} ELSE handleDiscovery(w.as)),
      sound |-> /\ w.as \subseteq ReliableAS /\ w.rs \subseteq ReliableRS
                /\ ~({"NoClientCredentials", "NoGrantTypesAdvertised"} \subseteq w.as)
                /\ {"HeaderMethod", "ChecksRevocation"} \subseteq w.rs
                /\ w.losses = 0 /\ ~w.opts.actorToken,
      openDCR |-> ~RegistrationRefused(w.as),
      clientURI |-> "NoClientConfigEndpoint" \notin w.as]

\* ApplyClientAuth, by how the server sees the client authenticate.
ClientAuth == IF client.secret THEN Shown(client.method) ELSE Blank

InitWire ==
  /\ world \in Worlds
  /\ opts = world.opts /\ site = SiteOf(world)
  /\ Init /\ InitCall
  /\ server = Server(AssignedMethod(world.as))
  /\ said = <<>> /\ budget = world.losses
  /\ client = [method |-> Blank, secret |-> FALSE]

----------------------------------------------------------------------------
(***************************************************************************)
(* Requests, with the server's answer to each.                             *)
(***************************************************************************)
Form(grant) ==
  [to |-> "token", grant |-> grant, auth |-> ClientAuth, proof |-> NoProof,
   resources |-> {}, subject |-> NoToken, actor |-> NoToken, scope |-> Blank]
Get(document)    == [to |-> document]
About(to, token) == [to |-> to, token |-> token, auth |-> ClientAuth]
Present(token, proof) == [to |-> "mcp", token |-> token, proof |-> proof]

\* Mutant: signed once for each check.
SignedOnce(talk, htu, nonce) == Proof(next, <<next>>, nonce, htu)

\* A fresh proof: a key for each check, an id for each time one is signed.
Signed(talk, htu, nonce) == Proof(next, <<next, Len(talk)>>, nonce, htu)

\* What a server that remembers s answers.
Answered(s, r) ==
  CASE r.to = "prm"        -> [Status(200) EXCEPT !.facts = handlePRM(world.rs)]
    [] r.to = "suffix"     -> IF "NoSuffixPRM" \in world.rs THEN Status(404)
                              ELSE [Status(200) EXCEPT !.facts = handlePRM(world.rs)]
    [] r.to = "metadata"   -> [Status(200) EXCEPT !.facts = handleDiscovery(world.as)]
    [] r.to = "openid"     -> Status(404)
    [] r.to = "jwks"       -> Status(200)
    [] r.to = "authorize"  -> handleAuthorize(world.as)
    [] r.to = "token"      -> handleToken(world.as, s, r)
    [] r.to = "introspect" -> handleIntrospect(world.as, s, r)
    [] r.to = "revoke"     -> handleRevoke(world.as)

Saw(s, proof) ==
  IF proof = NoProof THEN s
  ELSE [s EXCEPT !.seen = @ \cup {proof.jti},
                 !.seenAgain = @ \cup (s.seen \cap {proof.jti})]

\* What the server remembers once it has answered.
After(r, answer) ==
  CASE r.to = "token" ->
         Saw([server EXCEPT !.auth = r.auth,
                            !.minted = IF Verified(answer.token) THEN answer.token.n ELSE @], r.proof)
    [] r.to = "revoke" ->
         IF world.as \cap {"DeadRevocation", "IgnoreRevoke"} # {} THEN server
         ELSE [server EXCEPT !.revoked = IF Verified(r.token) THEN @ \cup {r.token.n} ELSE @]
    [] r.to = "mcp" ->
         IF Speaks(world.rs, asked[Len(asked)]) THEN Saw(server, r.proof) ELSE server
    [] OTHER -> server

----------------------------------------------------------------------------
(***************************************************************************)
(* probe.Discover as a dialogue: the MCP call, the document, the metadata. *)
(***************************************************************************)
Lacks(answer) == answer = Lost \/ "tokenEndpoint" \notin answer.facts

\* The next request after the answers in talk.
WalkRequest(talk) ==
  LET before == IF opts.target THEN 2 ELSE 0
      done   == Len(talk)
  IN IF done < before /\ done > 0 /\ talk[done] = Lost THEN Nothing
     ELSE IF done = 0 /\ opts.target THEN Present(NoToken, NoProof)
     ELSE IF done = 1 /\ opts.target THEN Get("prm")
     ELSE IF opts.target /\ (talk[2] = Lost \/ "prmServers" \notin talk[2].facts) THEN Nothing
     ELSE IF done = before THEN Get("metadata")
     ELSE IF done = before + 1 /\ Lacks(talk[done]) THEN Get("openid")
     ELSE Nothing

\* Mutant: a document that was not fetched leaves an empty one.
WalkedFromNothing ==
  LET last == said[Len(said)]
      resource == IF opts.target /\ said[1] # Lost
                  THEN said[1].headers \cup {"noOfflineAccess"}
                         \cup (IF Len(said) > 1 /\ said[2] # Lost THEN said[2].facts ELSE {})
                  ELSE {}
  IN IF last # Lost /\ "tokenEndpoint" \in last.facts
     THEN Walk(TRUE, resource \cup {"issuer"} \cup last.facts)
     ELSE Walk(FALSE, resource \cup {"issuer"})

\* What the walk amounts to once there is nothing left to ask.
Walked ==
  LET last == said[Len(said)]
      resource == IF opts.target
                  THEN said[1].headers \cup {"noOfflineAccess"} \cup said[2].facts ELSE {}
  IN IF opts.target /\ (said[1] = Lost \/ said[2] = Lost) THEN Unreachable
     ELSE IF opts.target /\ "prmServers" \notin said[2].facts THEN Walk(FALSE, resource)
     ELSE IF Lacks(last) THEN Walk(FALSE, resource \cup {"issuer"})
     ELSE Walk(TRUE, resource \cup {"issuer"} \cup last.facts)

----------------------------------------------------------------------------
(***************************************************************************)
(* The checks that send something.  Asks is the next request of a check    *)
(* after the answers in talk, Rules the outcome once there is none.        *)
(***************************************************************************)
Pasted == SubjectToken(world.act, world.mayAct)

Exchange(subjectToken, actorToken) ==
  [Form("token-exchange") EXCEPT !.subject = subjectToken, !.actor = actorToken]
Resource(audiences) == [Form("client_credentials") EXCEPT !.resources = audiences]

\* Mutant: the tampered proof goes without the nonce.
TamperedWithoutNonce(talk, htu, nonce) ==
  [Form("client_credentials") EXCEPT !.proof = Signed(talk, htu, nonce /\ htu = "token")]

Proving(talk, htu, nonce) == [Form("client_credentials") EXCEPT !.proof = Signed(talk, htu, nonce)]
Unauthenticated(grant) == [Form(grant) EXCEPT !.auth = Blank]

Delegations ==
  {"rfc8693.delegation.issues_token", "rfc8693.delegation.act_present",
   "rfc8693.delegation.act_nesting", "rfc8693.delegation.may_act_enforced"}

\* One request, whatever comes of it.
OneShot(id) ==
  CASE id \in {"rfc8707.token.accepts_resource", "rfc8707.token.reflects_audience"} -> Resource({"tool"})
    [] id = "rfc8707.token.multiple_resources" -> Resource({"tool", "other"})
    [] id = "oauth21.token.reachable" -> Unauthenticated("client_credentials")
    [] id \in {"oauth21.token.rejects_unknown_grant", "oauth21.token.error_shape_rfc6749"} ->
         Unauthenticated("bogus")
    [] id \in {"rfc8693.impersonation.issues_token",
               "rfc8693.error.invalid_target_on_unknown_audience"} -> Exchange(Pasted, NoToken)
    [] id \in Delegations -> Exchange(Pasted, ActorToken)
    [] id = "rfc8693.downscope.scope_honored" -> [Exchange(Pasted, NoToken) EXCEPT !.scope = "read"]
    [] id = "rfc8693.error.invalid_grant_on_bad_subject" -> Exchange(Forged, NoToken)
    [] id = "dpop.token.nonce_challenge" -> Proving(<<>>, "token", FALSE)
    [] id = "rfc7009.advertise.revocation_endpoint" -> About("revoke", Forged)
    [] id = "sep2351.discovery.suffix_path" -> Get("suffix")
    [] id = "rfc8414.metadata.signed_metadata_valid" -> Get("jwks")
    [] id = "cimd.register.url_client_id" -> Get("authorize")
    [] id \in {"mcp.token.invalid_rejected", "mcp.token.foreign_audience_rejected"} ->
         Present(Forged, NoProof)
    [] OTHER -> Nothing

\* obtainToken: the pasted token, or one asked for first.
Obtaining(talk) == ~opts.subjectToken /\ talk = <<>>
Obtained(talk) ==
  IF opts.subjectToken THEN Pasted
  ELSE IF talk[1].status = 200 THEN talk[1].token ELSE NoToken
Since(talk) == IF opts.subjectToken THEN talk ELSE Tail(talk)

\* presentWithRetry: DPoP-bound when the plan says so, once more with the nonce of
\* a challenge.
PresentWithRetry(talk) ==
  LET got  == Since(talk)
      dpop == "dpopRequired" \in disc
      proof(nonce) == IF dpop THEN Signed(talk, "resource", nonce) ELSE NoProof
  IN IF got = <<>> THEN Present(Obtained(talk), proof(FALSE))
     ELSE IF Len(got) = 1 /\ dpop /\ got[1].status = 401 /\ "dpopNonce" \in got[1].headers
          THEN Present(Obtained(talk), proof(TRUE))
     ELSE Nothing

\* What the checks that hold a token do with it.
Uses(id, talk) ==
  LET got == Len(Since(talk))
  IN CASE id = "rfc7662.introspect.active" ->
            IF got = 0 THEN About("introspect", Obtained(talk)) ELSE Nothing
       [] id = Revocation ->
            IF got = 0 THEN About("revoke", Obtained(talk))
            ELSE IF got = 1 THEN About("introspect", Obtained(talk)) ELSE Nothing
       [] OTHER -> PresentWithRetry(talk)

Holders   == {"rfc7662.introspect.active", Revocation, "smoke.present.token_accepted"}
Exchanges == {"dpop.token.accepts_proof", "dpop.token.binds_cnf_jkt"}
WrongHTU  == "dpop.token.rejects_wrong_htu"

\* A request without an answer ends a check, except the one that only fetches a
\* nonce: dpopNonceFor makes an empty nonce of the error.
Asks(id, talk) ==
  IF id # WrongHTU /\ Lost \in ToSet(talk) THEN Nothing
  ELSE CASE id = WrongHTU ->
              IF talk = <<>> THEN Proving(talk, "token", FALSE)
              ELSE IF Len(talk) = 1 THEN Proving(talk, "elsewhere", talk[1] # Lost /\ talk[1].nonce)
              ELSE Nothing
         [] id \in Exchanges ->
              IF talk = <<>> THEN Proving(talk, "token", FALSE)
              ELSE IF Len(talk) = 1 /\ talk[1].error = "use_dpop_nonce"
                   THEN Proving(talk, "token", talk[1].nonce)
              ELSE Nothing
         [] id \in Holders ->
              IF Obtaining(talk) THEN Form("client_credentials")
              ELSE IF Obtained(talk) = NoToken THEN Nothing
              ELSE Uses(id, talk)
         [] OTHER -> IF talk = <<>> THEN OneShot(id) ELSE Nothing

\* Mutant: no answer, no support.
UnansweredFails(id) == "fail"

\* The outcome of a request nobody answered.
Unanswered(id) ==
  IF id \in {"oauth21.token.reachable", "rfc8414.metadata.signed_metadata_valid"} THEN "fail" ELSE "error"

\* grantRejected: the grant is what was declined, not what the check is about.
SelfMinted ==
  {"rfc8707.token.accepts_resource", "rfc8707.token.reflects_audience",
   "rfc8707.token.multiple_resources", "dpop.token.nonce_challenge", WrongHTU} \cup Exchanges

\* Outcomes that are not a matter of pass or fail.
Undecided(id, talk, last) ==
  IF id \in SelfMinted /\ last.error = "unsupported_grant_type" THEN "untested"
  ELSE IF id \in Holders /\ Obtained(talk) = NoToken THEN "untested"
  ELSE IF id = "rfc7009.advertise.revocation_endpoint" /\ last.status = 404 THEN "unsupported"
  ELSE IF id = "dpop.token.nonce_challenge" /\ last.status = 200 THEN "unsupported"
  ELSE Blank

Issues(answer) == answer.status = 200 /\ answer.token # NoToken

\* Mutant: any refusal of the actor will do.
MayActEnforcedLoosely(a) == a.error # "invalid_request"

\* may_act is enforced when the actor is refused for it, and issues_token passes
\* when it is not: both send the same request.
MayActEnforced(a) == a.status # 200 /\ a.error = "invalid_grant"

Passes(id, a) ==
  CASE id \in {"rfc8707.token.accepts_resource", "rfc8693.delegation.issues_token"} -> a.status = 200
    [] id = "rfc8707.token.reflects_audience"  -> a.status = 200 /\ "tool" \in a.token.aud
    [] id = "rfc8707.token.multiple_resources" -> a.status < 500
    [] id = "oauth21.token.rejects_unknown_grant" -> a.status # 200 /\ a.error # Blank
    [] id = "oauth21.token.error_shape_rfc6749" -> a.error # Blank
    [] id \in {"rfc8693.impersonation.issues_token", "dpop.token.accepts_proof"} -> Issues(a)
    [] id = "rfc8693.delegation.act_present"   -> a.token.act > 0
    [] id = "rfc8693.delegation.act_nesting"   -> a.token.act > 1
    [] id = "rfc8693.delegation.may_act_enforced" -> MayActEnforced(a)
    [] id = "rfc8693.downscope.scope_honored"  -> a.status = 200 /\ a.scope \in {Blank, "read"}
    [] id \in {"rfc8693.error.invalid_grant_on_bad_subject", WrongHTU} -> a.status # 200
    [] id = "dpop.token.nonce_challenge"       -> a.error = "use_dpop_nonce" /\ a.nonce
    [] id = "dpop.token.binds_cnf_jkt"         -> a.status = 200 /\ a.token.jkt = next
    [] id = "rfc7662.introspect.active"        -> a.active
    [] id = Revocation                         -> ~a.active
    [] id = "sep2351.discovery.suffix_path"    -> a.status = 200 /\ "prmJSON" \in a.facts
    [] id = "rfc8414.metadata.signed_metadata_valid" -> "BadSignedMetadata" \notin world.as
    [] id = "cimd.register.url_client_id"      -> a.error # "invalid_client"
    [] id \in {"mcp.token.invalid_rejected", "mcp.token.foreign_audience_rejected"} -> a.status = 401
    [] id = "smoke.present.token_accepted"     -> a.status < 400
    [] OTHER                                   -> TRUE

Rules(id, talk) ==
  LET last == talk[Len(talk)]
  IN IF talk = <<>> THEN "pass"
     ELSE IF last = Lost THEN Unanswered(id)
     ELSE IF Undecided(id, talk, last) # Blank THEN Undecided(id, talk, last)
     ELSE IF Passes(id, last) THEN "pass" ELSE "fail"

----------------------------------------------------------------------------
(***************************************************************************)
(* Steps.  A dialogue moves said, the call and the servers, and nothing of *)
(* the run until it is over.                                               *)
(***************************************************************************)
Current == Registry[next]
Applies == FirstUnmet(Current.gates, View) = 0 /\ Current.may # {}

Request(talk) ==
  IF pc = "discover" THEN WalkRequest(talk)
  ELSE IF pc = "checks" /\ next <= Len(Registry) /\ Applies THEN Asks(Current.id, talk)
  ELSE Nothing

Pending == Request(said)

OnCall == phase \in Awaiting

\* A request on its own: answered, or lost on the way there or back.
AskAS ==
  /\ Pending.to \notin {"nobody", "mcp"}
  /\ LET answer == Answered(server, Pending)
         dark   == pc = "discover" /\ opts.target /\ "UnresolvableAuthServer" \in world.rs
                     /\ Pending.to \in {"metadata", "openid"}
     IN \/ /\ ~dark
           /\ said' = Append(said, answer) /\ server' = After(Pending, answer)
           /\ UNCHANGED budget
        \/ /\ dark
           /\ said' = Append(said, Lost) /\ UNCHANGED <<server, budget>>
        \/ /\ budget > 0 /\ budget' = budget - 1
           /\ said' = Append(said, Lost) /\ server' \in {server, After(Pending, answer)}
  /\ UNCHANGED <<vars, callVars, world, client>>

Call ==
  /\ Pending.to = "mcp" /\ ~OnCall
  /\ Begin
  /\ UNCHANGED <<vars, wireVars>>

\* The call returns into the dialogue when its last request is over.
HangUp ==
  said' = IF phase' \in Awaiting THEN said
          ELSE Append(said, IF phase' = "failed" THEN Lost ELSE heard'[kept'])

AnswerCall ==
  /\ OnCall
  /\ Answer(handleMCP(world.rs, server, Pending, asked[Len(asked)]))
  /\ server' = After(Pending, Nothing)
  /\ HangUp
  /\ UNCHANGED <<vars, world, client, budget>>

LoseCall ==
  /\ OnCall /\ budget > 0
  /\ Unheard
  /\ budget' = budget - 1 /\ server' \in {server, After(Pending, Nothing)}
  /\ HangUp
  /\ UNCHANGED <<vars, world, client>>

Over == Pending = Nothing /\ ~OnCall

\* Mutant: walks until a walk succeeds.
EndWalkWhenFound ==
  /\ pc = "discover" /\ Over
  /\ Learn(Walked)
  /\ pc' = IF Walked.ok THEN "resolve" ELSE pc
  /\ said' = <<>>
  /\ UNCHANGED <<inputs, plan, creds, live, tokens, entries, next, outcome, callVars, world, server, client, budget>>

EndWalk ==
  /\ pc = "discover" /\ Over
  /\ Learn(Walked)
  /\ entries' = IF Walked.ok THEN entries ELSE Append(entries, DiscoveryFailed)
  /\ pc' = "resolve" /\ said' = <<>>
  /\ UNCHANGED <<inputs, plan, creds, live, tokens, next, outcome, callVars, world, server, client, budget>>

\* The token the run holds is dead once a server has taken it as revoked.
EndCheck ==
  /\ pc = "checks" /\ next <= Len(Registry) /\ Over
  /\ \E o \in IF Applies THEN {Rules(Current.id, said)} ELSE Evaluate(Current, View) :
       entries' = Append(entries, Entry(Current, o))
  /\ subject' = IF subject = "active" /\ Pasted.n \in server.revoked THEN "dead" ELSE subject
  /\ next' = next + 1 /\ said' = <<>>
  /\ UNCHANGED <<inputs, pc, disc, plan, creds, live, refresh, outcome, callVars, world, server, client, budget>>

----------------------------------------------------------------------------
Advertised == IF "asMetadata" \in disc THEN AdvertisedMethods(world.as) ELSE {}

ResolveWithout ==
  /\ NoRegistration
  /\ client' = [method |-> TokenAuthMethod(world.method, Advertised, world.secret), secret |-> world.secret]
  /\ UNCHANGED <<callVars, world, server, said, budget>>

\* Mutant: what was asked for at registration stands, whatever the server assigned.
RegisteredAsAsked(v) == TokenAuthMethod(world.method, Advertised, "PublicClientsOnly" \notin v)

\* registeredAuthMethod: the flag, then what the server says it assigned if that is
\* implemented, else the rules again, now that whether a secret came back is known.
RegisteredAuthMethod(v) ==
  IF world.method # Blank THEN world.method
  ELSE IF StatedMethod(v) \in Methods THEN StatedMethod(v)
  ELSE TokenAuthMethod(Blank, Advertised, "PublicClientsOnly" \notin v)

RegisterAnswered ==
  /\ MayRegister /\ ~RegistrationRefused(world.as)
  /\ plan' = [client |-> TRUE, registered |-> TRUE, uri |-> site.clientURI,
              regError |-> FALSE, facts |-> RegisteredFacts(world.as)]
  /\ client' = [method |-> RegisteredAuthMethod(world.as), secret |-> "PublicClientsOnly" \notin world.as]
  /\ server' = [server EXCEPT !.registeredAs = AssignedMethod(world.as)]
  /\ live' = live + 1
  /\ pc' = AfterResolve
  /\ UNCHANGED <<inputs, disc, creds, tokens, entries, next, outcome, callVars, world, said, budget>>

\* Refused, or the answer lost, after the server registered the client or before.
RegisterUnanswered ==
  /\ MayRegister
  /\ IF RegistrationRefused(world.as) THEN UNCHANGED <<live, budget>>
     ELSE budget > 0 /\ budget' = budget - 1 /\ live' \in {live, live + 1}
  /\ plan' = [NoPlan EXCEPT !.regError = TRUE]
  /\ pc' = AfterResolve
  /\ client' = [method |-> TokenAuthMethod(world.method, Advertised, world.secret), secret |-> world.secret]
  /\ UNCHANGED <<inputs, disc, creds, tokens, entries, next, outcome, callVars, world, server, said>>

\* Mutant: the URI is not looked at, so nothing is deleted.
NotDeleted ==
  /\ pc = "cleanup"
  /\ pc' = "done"
  /\ UNCHANGED <<inputs, disc, plan, creds, live, tokens, entries, next, outcome, callVars, wireVars>>

\* cleanupRegistration: one DELETE, to wherever registration_client_uri leads.
Deregister ==
  /\ pc = "cleanup"
  /\ \/ /\ live' = IF plan.registered /\ plan.uri /\ Deletes(world.as) THEN live - 1 ELSE live
        /\ UNCHANGED budget
     \/ /\ plan.registered /\ plan.uri /\ budget > 0 /\ budget' = budget - 1
        /\ live' \in {live} \cup (IF Deletes(world.as) THEN {live - 1} ELSE {})
  /\ pc' = "done"
  /\ UNCHANGED <<inputs, disc, plan, creds, tokens, entries, next, outcome, callVars, world, server, said, client>>

\* The steps of Run that send nothing.
Silent ==
  /\ AcceptFlags \/ ReportRefusal \/ EndChecks \/ AttachVerdicts \/ Finish
  /\ UNCHANGED <<callVars, wireVars>>

NextWire ==
  \/ EndCheck \/ EndWalk
  \/ AskAS \/ Call \/ AnswerCall \/ LoseCall
  \/ ResolveWithout \/ RegisterAnswered \/ RegisterUnanswered
  \/ Silent \/ Deregister

SpecWire == InitWire /\ [][NextWire]_allVars /\ WF_allVars(NextWire)
=============================================================================
