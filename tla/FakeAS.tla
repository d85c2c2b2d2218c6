------------------------------- MODULE FakeAS --------------------------------
(***************************************************************************)
(* The servers a run talks to: the in-process authorization server and     *)
(* resource server of internal/fakeas, each a function from a request and  *)
(* a set of switched-on violations to an answer.  A few behaviours of real *)
(* servers that the in-process pair does not have are switches too; they   *)
(* are external to the repository and named so.                            *)
(*                                                                         *)
(* A token is what its holder can be told apart by: who signed it, its     *)
(* serial number, audience, bound key and actor chain.  A document is the  *)
(* set of facts the probes read off it.                                    *)
(***************************************************************************)
EXTENDS Integers, Sequences, FiniteSets

CONSTANTS ModernVersion, LegacyVersion, NewerVersion

\* Violations: departures from the specifications, and what a correct server
\* may just as well leave out or ask for.
ASViolations ==
  {"IgnoreMayAct", "ForgeActChain", "AcceptPlainPKCE", "AcceptWrongHTU",
   "MalformedDiscovery", "BadErrorShape", "IgnoreResourceParam", "NoCnfBinding",
   "AcceptUnknownGrant", "RejectResource", "ErrorOnMultipleResources",
   "FailImpersonation", "RejectDelegation", "OmitAct", "WidenScope",
   "AcceptBadSubject", "RejectValidDPoP", "IntrospectInactive", "DeadRevocation",
   "IgnoreRevoke", "RejectRegistration", "MangleApplicationType",
   "ForeignRegistrationURI", "NoPAREndpoint", "IncoherentMTLS",
   "BadSignedMetadata", "RejectCIMDClient"}
ASVariants ==
  {"SkipDPoPNonce", "NoTokenExchange", "NoDPoP", "NoIntrospection", "NoRevocation",
   "NoRegistration", "RegistrationRequiresIAT", "NoClientConfigEndpoint",
   "RequirePAR", "AdvertiseMTLS", "EmitSignedMetadata", "PublicClientsOnly",
   "NoClientCredentials", "NoGrantTypesAdvertised", "IssParamSupported",
   "AdvertiseCIMD"}
RSViolations ==
  {"OmitChallenge", "OmitAuthorizationServers", "AcceptAnyToken", "MalformedPRM",
   "UnresolvableAuthServer", "NoSuffixPRM", "NonCanonicalResource",
   "InsufficientScope", "QueryMethod"}
RSVariants == {"HeaderMethod", "RequireDPoP", "Scopes"}

\* Of real servers: clients are held to the method they registered with; the server
\* assigns it, one the tool does not implement included, and may leave it out of the
\* registration answer; introspection is closed to clients without a secret.
ExternalAS ==
  {"StrictAuth", "AssignsBasic", "AssignsForeignMethod", "OmitsMethod", "SecretToIntrospect"}
\* Only a newer revision is spoken, or only the older one, which the refusal lists
\* alone, lists beside the refused one, or does not mention, before or after
\* authentication; revoked tokens are refused; proofs are remembered, must match
\* the bound key of the token or carry a nonce, or no nonce is ever good enough.
ExternalRS ==
  {"NewerOnly", "ListsLegacyOnly", "ListsItsRefusal", "LegacyFirst", "LegacyAfterAuth",
   "ChecksRevocation", "RemembersProofs", "ChecksBinding", "ProofNonce",
   "ProofNonceNeverSettles"}

----------------------------------------------------------------------------
Blank == ""    \* of a field nobody filled in
NoKey == 0
NoToken == [by |-> Blank, n |-> 0, aud |-> {}, jkt |-> NoKey, act |-> 0, mayAct |-> "anyone"]
Forged  == [NoToken EXCEPT !.by = "forger"]
SubjectToken(act, mayAct) == [NoToken EXCEPT !.by = "as", !.n = 1, !.act = act, !.mayAct = mayAct]
ActorToken == [NoToken EXCEPT !.by = "as"]
NoProof == [key |-> NoKey, jti |-> <<>>, nonce |-> FALSE, htu |-> Blank]
Proof(key, jti, nonce, htu) == [key |-> key, jti |-> jti, nonce |-> nonce, htu |-> htu]

Verified(token) == token.by = "as"

\* An HTTP answer, by what the probes read of it; a body that is not JSON has no error.
Status(code) ==
  [status |-> code, error |-> Blank, nonce |-> FALSE, token |-> NoToken, scope |-> Blank,
   active |-> FALSE, facts |-> {}]

tokenError(v, code, error) ==
  [Status(code) EXCEPT !.error = IF "BadErrorShape" \in v THEN Blank ELSE error]

\* A server remembers the tokens it signed and revoked, how the last token
\* request authenticated, the method of the client it knows, and the proofs it saw.
\* The subject token the operator pasted is the first one signed.
Server(registeredAs) ==
  [minted |-> 1, revoked |-> {}, auth |-> Blank, registeredAs |-> registeredAs,
   seen |-> {}, seenAgain |-> {}]

----------------------------------------------------------------------------
\* handleDiscovery, as the facts probe.Discover takes from the document.
handleDiscovery(v) ==
  LET given(fact, condition) == IF condition THEN {fact} ELSE {}
      grants == "NoGrantTypesAdvertised" \notin v
  IN {"asMetadata", "tokenEndpoint", "tokenHTTPS", "authorizationEndpoint", "jwksURI", "s256"}
     \cup given("issuerMatch", "MalformedDiscovery" \notin v)
     \cup given("grantTypes", grants)
     \cup given("clientCredentials", grants /\ "NoClientCredentials" \notin v)
     \cup given("tokenExchange", grants /\ "NoTokenExchange" \notin v)
     \cup given("dpop", "NoDPoP" \notin v)
     \cup given("registrationEndpoint", "NoRegistration" \notin v)
     \cup given("mtlsBound", v \cap {"AdvertiseMTLS", "IncoherentMTLS"} # {})
     \cup given("mtlsAliases", "AdvertiseMTLS" \in v /\ "IncoherentMTLS" \notin v)
     \cup given("signedMetadata", v \cap {"EmitSignedMetadata", "BadSignedMetadata"} # {})
     \cup given("introspectionEndpoint", "NoIntrospection" \notin v)
     \cup given("revocationEndpoint", "NoRevocation" \notin v)
     \cup given("issAdvertised", "IssParamSupported" \in v)
     \cup given("cimd", "AdvertiseCIMD" \in v)

AdvertisedMethods(v) ==
  IF "PublicClientsOnly" \in v THEN {"none"} ELSE {"client_secret_basic", "client_secret_post"}

\* handleRegister: the answer, and the client it describes.
RegistrationRefused(v) == v \cap {"RegistrationRequiresIAT", "RejectRegistration"} # {}
AssignedMethod(v) ==
  IF "PublicClientsOnly" \in v THEN "none"
  ELSE IF "AssignsBasic" \in v THEN "client_secret_basic"
  ELSE IF "AssignsForeignMethod" \in v THEN "private_key_jwt" ELSE "client_secret_post"
StatedMethod(v) == IF "OmitsMethod" \in v THEN Blank ELSE AssignedMethod(v)
RegisteredFacts(v) ==
  (IF "MangleApplicationType" \in v THEN {} ELSE {"applicationTypeKept"})
    \cup (IF "ForeignRegistrationURI" \in v /\ "NoClientConfigEndpoint" \notin v
          THEN {} ELSE {"issuerBound"})

\* handleClientConfig deletes only where the URI it handed out leads back to it.
Deletes(v) == v \cap {"NoClientConfigEndpoint", "ForeignRegistrationURI"} = {}

\* handleAuthorize: a URL client_id is fetched, then accepted or not.
handleAuthorize(v) ==
  [Status(302) EXCEPT !.error = IF "AdvertiseCIMD" \notin v \/ "RejectCIMDClient" \in v
                                THEN "invalid_client" ELSE Blank]

----------------------------------------------------------------------------
\* handleDPoP: what is wrong with a proof, in the order it is looked at.
ProofProblem(v, proof) ==
  IF "SkipDPoPNonce" \notin v /\ ~proof.nonce THEN "use_dpop_nonce"
  ELSE IF "AcceptWrongHTU" \notin v /\ proof.htu # "token" THEN "invalid_dpop_proof"
  ELSE IF "RejectValidDPoP" \in v THEN "invalid_dpop_proof"
  ELSE Blank

\* A refused proof; whoever left out the nonce is given one.
ProofRefused(v, problem) ==
  [tokenError(v, 400, problem) EXCEPT !.nonce = problem = "use_dpop_nonce"]

\* MintToken and bindCnf.
Issued(v, s, q, claims) ==
  [Status(200) EXCEPT
     !.token = [claims EXCEPT
                  !.by = "as", !.n = s.minted + 1,
                  !.jkt = IF q.proof # NoProof /\ "NoCnfBinding" \notin v THEN q.proof.key ELSE NoKey]]

Reflected(v, q) == IF "IgnoreResourceParam" \in v THEN {} ELSE q.resources

handleClientCredentials(v, s, q) ==
  IF q.resources # {} /\ "RejectResource" \in v THEN tokenError(v, 400, "invalid_target")
  ELSE IF Cardinality(q.resources) > 1 /\ "ErrorOnMultipleResources" \in v
       THEN tokenError(v, 500, "server_error")
  ELSE Issued(v, s, q, [NoToken EXCEPT !.aud = Reflected(v, q)])

Widened(v, scope) == IF "WidenScope" \in v /\ scope # Blank THEN "wider" ELSE scope

handleRefresh(v, s, q) ==
  [Issued(v, s, q, NoToken) EXCEPT !.scope = Widened(v, q.scope)]

\* may_act names who may act for the subject; without it anyone may.
ActorRefused(v, q) ==
  "IgnoreMayAct" \notin v /\ q.subject.mayAct \notin {"anyone", "actor"}

ActChain(v, q) ==
  IF q.actor = NoToken \/ "OmitAct" \in v THEN 0
  ELSE IF "ForgeActChain" \in v THEN 1
  ELSE q.subject.act + 1

handleExchange(v, s, q) ==
  LET delegation == q.actor # NoToken
  IN IF "NoTokenExchange" \in v THEN tokenError(v, 400, "unsupported_grant_type")
     ELSE IF ~delegation /\ "FailImpersonation" \in v THEN tokenError(v, 400, "invalid_request")
     ELSE IF delegation /\ "RejectDelegation" \in v THEN tokenError(v, 400, "invalid_request")
     ELSE IF ~Verified(q.subject) /\ "AcceptBadSubject" \notin v THEN tokenError(v, 400, "invalid_grant")
     ELSE IF delegation /\ ~Verified(q.actor) THEN tokenError(v, 400, "invalid_grant")
     ELSE IF delegation /\ ActorRefused(v, q) THEN tokenError(v, 400, "invalid_grant")
     ELSE [Issued(v, s, q, [NoToken EXCEPT !.act = ActChain(v, q), !.aud = Reflected(v, q)])
             EXCEPT !.scope = Widened(v, q.scope)]

\* How a client of that method is seen to authenticate.
Shown(method) == IF method = "none" THEN Blank ELSE method

handleToken(v, s, q) ==
  LET problem == IF q.proof = NoProof THEN Blank ELSE ProofProblem(v, q.proof)
  IN IF "StrictAuth" \in v /\ q.auth # Shown(s.registeredAs) THEN tokenError(v, 401, "invalid_client")
     ELSE IF problem # Blank THEN ProofRefused(v, problem)
     ELSE CASE q.grant = "token-exchange"     -> handleExchange(v, s, q)
            [] q.grant = "client_credentials" ->
                 IF "NoClientCredentials" \in v THEN tokenError(v, 400, "unsupported_grant_type")
                 ELSE handleClientCredentials(v, s, q)
            [] q.grant = "refresh_token"      -> handleRefresh(v, s, q)
            [] OTHER ->
                 IF "AcceptUnknownGrant" \in v THEN Issued(v, s, [q EXCEPT !.proof = NoProof], NoToken)
                 ELSE tokenError(v, 400, "unsupported_grant_type")

handleIntrospect(v, s, q) ==
  IF "SecretToIntrospect" \in v /\ q.auth = Blank THEN tokenError(v, 401, "invalid_client")
  ELSE [Status(200) EXCEPT
          !.active = Verified(q.token) /\ q.token.n \notin s.revoked /\ "IntrospectInactive" \notin v]

handleRevoke(v) == IF "DeadRevocation" \in v THEN Status(404) ELSE Status(200)

----------------------------------------------------------------------------
\* The RFC 9728 document: handlePRM, as the facts Discover takes from it.
handlePRM(v) ==
  LET wellFormed == "MalformedPRM" \notin v
      given(fact, condition) == IF condition THEN {fact} ELSE {}
  IN {"prm"}
     \cup given("prmJSON", wellFormed)
     \cup given("prmServers", wellFormed /\ "OmitAuthorizationServers" \notin v)
     \cup given("prmCanonical", wellFormed /\ "NonCanonicalResource" \notin v)
     \cup given("twoPRMScopes", wellFormed /\ "Scopes" \in v)
     \cup given("noQueryMethod", ~wellFormed \/ "QueryMethod" \notin v)
     \cup given("headerMethod", ~wellFormed \/ "QueryMethod" \notin v \/ "HeaderMethod" \in v)
     \cup given("dpopRequired", wellFormed /\ "RequireDPoP" \in v)

\* The 401 of challenge().
Challenge(v) ==
  IF "OmitChallenge" \in v THEN {}
  ELSE {"challenge", "challengeMetadata"} \cup (IF "Scopes" \in v THEN {"challengeScope"} ELSE {})

Reply(code, headers) == [status |-> code, rpc |-> "none", supported |-> {}, headers |-> headers]

Serves(v) == v \cap {"HeaderMethod", "QueryMethod", "RequireDPoP", "InsufficientScope"} # {}

\* RequireDPoP asks for a proof to be there; what it proves is only looked at by
\* the external servers.
ProofAccepted(v, s, q) ==
  /\ q.proof # NoProof
  /\ "RemembersProofs" \in v => q.proof.jti \notin s.seen
  /\ "ChecksBinding" \in v => q.token.jkt = q.proof.key

\* handleMCP of a server that speaks the revision it is asked in.
Authenticated(v, s, q) ==
  IF q.token = NoToken THEN Reply(401, Challenge(v))
  ELSE IF "AcceptAnyToken" \notin v /\ ~(Serves(v) /\ Verified(q.token)) THEN Reply(401, Challenge(v))
  ELSE IF "ChecksRevocation" \in v /\ q.token.n \in s.revoked THEN Reply(401, Challenge(v))
  ELSE IF "RequireDPoP" \in v /\ ~ProofAccepted(v, s, q) THEN Reply(401, Challenge(v))
  ELSE IF "RequireDPoP" \in v /\ ("ProofNonceNeverSettles" \in v \/ ("ProofNonce" \in v /\ ~q.proof.nonce))
       THEN Reply(401, Challenge(v) \cup {"dpopNonce"})
  ELSE IF "InsufficientScope" \in v THEN Reply(403, {"challenge"})
  ELSE Reply(200, {})

Refused(supported) ==
  [status |-> 400, rpc |-> "unsupportedVersion", supported |-> supported, headers |-> {}]

\* A request at a version; initialize is the one at the older revision.
Speaks(v, at) ==
  /\ "NewerOnly" \in v => at = NewerVersion
  /\ v \cap {"ListsLegacyOnly", "ListsItsRefusal", "LegacyFirst"} # {} => at = LegacyVersion

\* A request in a revision the server does not speak is turned away unread.
TurnedAway(v) ==
  IF "NewerOnly" \in v THEN Refused({NewerVersion})
  ELSE IF "ListsLegacyOnly" \in v THEN Refused({LegacyVersion})
  ELSE IF "ListsItsRefusal" \in v THEN Refused({LegacyVersion, ModernVersion})
  ELSE Reply(400, {})

handleMCP(v, s, q, at) ==
  IF ~Speaks(v, at) THEN TurnedAway(v)
  ELSE IF "LegacyAfterAuth" \in v /\ at # LegacyVersion /\ Authenticated(v, s, q).status = 200
       THEN Reply(400, {})
  ELSE Authenticated(v, s, q)
=============================================================================
