---------------------------- MODULE Dialogue_proofs ----------------------------
(***************************************************************************)
(* What the rows of a run request by request are worth, on any servers,    *)
(* through any registry.  Every answer a check or the walk has had is the  *)
(* server's to the request asked at that point, or was lost; a row follows *)
(* from the answers of its own dialogue, so what it can say is settled by  *)
(* what each server answers to each request.                               *)
(***************************************************************************)
EXTENDS Wire_proofs, Run_proofs, FiniteSetTheorems

(***************************************************************************)
(* What the servers remember that answers depend on.                       *)
(***************************************************************************)
Fit(s) ==
  /\ s.registeredAs = AssignedMethod(world.as)
  /\ s.minted \in Nat \ {0}
  /\ s.revoked \subseteq Nat \ {0}
  /\ "IgnoreRevoke" \in world.as => s.revoked = {}

\* The token of a request is not revoked, or is because the check at hand revoked it, or
\* an earlier one the token the operator pasted.
Honoured(s, r) ==
  /\ r.to = "introspect" /\ Current.id = "rfc7662.introspect.active" => r.token.n \notin s.revoked
  /\ r.to = "introspect" /\ Current.id = Revocation
       /\ world.as \cap {"DeadRevocation", "IgnoreRevoke"} = {} => r.token.n \in s.revoked
  /\ r.to = "mcp" => (r.token.n \in s.revoked <=> subject = "dead" /\ r.token.n = 1)

Suits(s, r) == Fit(s) /\ Honoured(s, r)

\* Nobody has had the proof yet; the second request of a call carries that of the
\* first, which a server that does not speak its revision has not read.
Unseen(s, r)     == r.proof = NoProof \/ r.proof.jti \notin s.seen
StillUnseen(s, r) == Speaks(world.rs, ModernVersion) \/ Unseen(s, r)

\* The version an MCP call asks for next, given the answer to the first request.
Second(first) ==
  IF ~Ambiguous(first.status) THEN NoVersion
  ELSE IF ~ModernError(first) THEN LegacyVersion
  ELSE IF first.rpc = "unsupportedVersion" THEN Retry(first.supported)
  ELSE NoVersion

\* An MCP call returns the answer to its last request, or to its first if the last
\* was lost.
CallAnswer(r, a) ==
  \E s, t : Suits(s, r) /\ Unseen(s, r) /\ Suits(t, r) /\ StillUnseen(t, r) /\
    LET first == handleMCP(world.rs, s, r, ModernVersion)
    IN \/ a = first /\ (Second(first) = NoVersion \/ ~Lossless)
       \/ Second(first) # NoVersion /\ a = handleMCP(world.rs, t, r, Second(first))

AnswerTo(r, a) ==
  IF r.to = "mcp" THEN CallAnswer(r, a) ELSE \E s : Suits(s, r) /\ a = Answered(s, r)

\* The server the document names does not resolve.
Dark(r) ==
  /\ pc = "discover" /\ opts.target /\ "UnresolvableAuthServer" \in world.rs
  /\ r.to \in {"metadata", "openid"}

\* After the answers in talk, a is the next one.
Told(talk, a) ==
  \E r : /\ r = Request(talk) /\ r.to # "nobody"
         /\ a = Lost /\ Lossless => Dark(r)
         /\ a # Lost => ~Dark(r) /\ AnswerTo(r, a)

Dialogue ==
  \A k \in DOMAIN said : \A talk, a : talk = SubSeq(said, 1, k - 1) /\ a = said[k] => Told(talk, a)

\* A call at hand asks what the dialogue asks, and knows why it asks once more.
Calling ==
  OnCall =>
    /\ Pending.to = "mcp"
    /\ phase # "modern" =>
         \A r : r = Pending =>
           \E s, first : /\ Suits(s, r) /\ Unseen(s, r)
                         /\ first = handleMCP(world.rs, s, r, ModernVersion)
                         /\ StillUnseen(server, r)
                         /\ heard = <<first>> /\ Second(first) # NoVersion
                         /\ asked = <<ModernVersion, Second(first)>>

LEMMA FormStays ==
  ASSUME UNCHANGED <<vars, world, client>>
  PROVE  /\ \A grant : Form(grant)' = Form(grant)
         /\ \A to, token : About(to, token)' = About(to, token)
         /\ \A talk, htu, nonce : Signed(talk, htu, nonce)' = Signed(talk, htu, nonce)
         /\ Pasted' = Pasted
BY DEF vars, Form, About, ClientAuth, Signed, Pasted

LEMMA AsksStays ==
  ASSUME UNCHANGED <<vars, world, client>>
  PROVE  \A id, talk : Asks(id, talk)' = Asks(id, talk)
<1>1. \A s, a : Exchange(s, a)' = Exchange(s, a)
  BY FormStays DEF Exchange
<1>2. \A audiences : Resource(audiences)' = Resource(audiences)
  BY FormStays DEF Resource
<1>3. \A talk, htu, nonce : Proving(talk, htu, nonce)' = Proving(talk, htu, nonce)
  BY FormStays DEF Proving
<1>4. \A grant : Unauthenticated(grant)' = Unauthenticated(grant)
  BY FormStays DEF Unauthenticated
<1>5. \A id : OneShot(id)' = OneShot(id)
  BY <1>1, <1>2, <1>3, <1>4, FormStays DEF OneShot
<1>6. \A talk : /\ Obtaining(talk)' <=> Obtaining(talk)
                /\ Obtained(talk)' = Obtained(talk) /\ Since(talk)' = Since(talk)
  BY FormStays DEF Obtaining, Obtained, Since, vars
<1>7. \A talk : PresentWithRetry(talk)' = PresentWithRetry(talk)
  BY <1>6, FormStays DEF PresentWithRetry, vars
<1>8. \A id, talk : Uses(id, talk)' = Uses(id, talk)
  BY <1>6, <1>7, FormStays DEF Uses
<1> SUFFICES ASSUME NEW id, NEW talk PROVE Asks(id, talk)' = Asks(id, talk)
  OBVIOUS
<1>9. Form("client_credentials")' = Form("client_credentials")
  BY FormStays
<1>10. CASE id = WrongHTU
  <2>1. id \notin Exchanges /\ id \notin Holders
    BY <1>10 DEF WrongHTU, Exchanges, Holders, Revocation
  <2> QED
    BY <1>3, <1>10, <2>1 DEF Asks
<1>11. CASE id \in Exchanges
  <2>1. id # WrongHTU /\ id \notin Holders
    BY <1>11 DEF WrongHTU, Exchanges, Holders, Revocation
  <2> QED
    BY <1>3, <1>11, <2>1 DEF Asks
<1>12. CASE id # WrongHTU /\ id \notin Exchanges
  BY <1>5, <1>6, <1>8, <1>9, <1>12 DEF Asks
<1> QED
  BY <1>10, <1>11, <1>12

LEMMA RequestStays ==
  ASSUME UNCHANGED <<vars, world, client>>
  PROVE  \A talk : Request(talk)' = Request(talk)
<1>1. View' = View /\ Current' = Current
  BY DEF vars, View, Current
<1>2. Applies' = Applies
  BY <1>1 DEF Applies
<1>3. \A talk : WalkRequest(talk)' = WalkRequest(talk)
  BY DEF WalkRequest, vars
<1> QED
  BY <1>1, <1>2, <1>3, AsksStays DEF Request, vars

\* Losses only add up.
LEMMA LossesStay ==
  ASSUME WireCustody, world' = world, budget' \in {budget, budget - 1}
  PROVE  (Lossless' => Lossless) /\ (budget' # budget => ~Lossless')
BY DEF WireCustody, Lossless

LEMMA SuitsStays ==
  ASSUME UNCHANGED <<vars, world>>
  PROVE  \A s, r : /\ Fit(s)' <=> Fit(s)
                   /\ Suits(s, r)' <=> Suits(s, r)
                   /\ Unseen(s, r)' <=> Unseen(s, r)
                   /\ StillUnseen(s, r)' <=> StillUnseen(s, r)
<1>1. Current' = Current /\ subject' = subject
  BY DEF vars, Current
<1> QED
  BY <1>1 DEF Suits, Fit, Honoured, Unseen, StillUnseen

LEMMA AnswerStays ==
  ASSUME UNCHANGED <<vars, world>>, Lossless' => Lossless
  PROVE  \A r, a : AnswerTo(r, a) => AnswerTo(r, a)'
<1>1. \A s, r : /\ Suits(s, r)' <=> Suits(s, r)
                /\ Unseen(s, r)' <=> Unseen(s, r)
                /\ StillUnseen(s, r)' <=> StillUnseen(s, r)
  BY SuitsStays
<1>2. \A s, r : Answered(s, r)' = Answered(s, r)
  BY DEF Answered
<1>3. \A r, a : CallAnswer(r, a) => CallAnswer(r, a)'
  BY <1>1 DEF CallAnswer
<1> QED
  BY <1>1, <1>2, <1>3 DEF AnswerTo

LEMMA ToldStays ==
  ASSUME UNCHANGED <<vars, world, client>>, Lossless' => Lossless
  PROVE  \A talk, a : Told(talk, a) => Told(talk, a)'
<1>1. \A r : Dark(r)' <=> Dark(r)
  BY DEF Dark, vars
<1> QED
  BY <1>1, RequestStays, AnswerStays DEF Told

LEMMA PrefixesStay ==
  ASSUME NEW S, NEW s \in Seq(S), NEW x, NEW t, t = Append(s, x)
  PROVE  /\ Len(s) \in Nat /\ DOMAIN t = 1..(Len(s) + 1) /\ DOMAIN s = 1..Len(s)
         /\ \A k \in DOMAIN s : t[k] = s[k] /\ SubSeq(t, 1, k - 1) = SubSeq(s, 1, k - 1)
         /\ t[Len(s) + 1] = x /\ SubSeq(t, 1, Len(s)) = s
<1>1. s \in Seq(S \cup {x}) /\ x \in S \cup {x}
  OBVIOUS
<1>2. /\ t \in Seq(S \cup {x}) /\ Len(t) = Len(s) + 1 /\ Len(s) \in Nat
      /\ \A i \in 1..Len(s) : t[i] = s[i]
      /\ t[Len(s) + 1] = x
  BY <1>1, AppendProperties
<1>3. \A k \in 1..Len(s) : SubSeq(t, 1, k - 1) = SubSeq(s, 1, k - 1)
  <2> SUFFICES ASSUME NEW k \in 1..Len(s) PROVE SubSeq(t, 1, k - 1) = SubSeq(s, 1, k - 1)
    OBVIOUS
  <2>1. k - 1 \in 0..Len(s) /\ k - 1 \in 0..Len(t) /\ k \in Nat
    BY <1>2
  <2>2. SubSeq(t, 1, k - 1) = [i \in 1..(k - 1) |-> t[i]] /\ SubSeq(s, 1, k - 1) = [i \in 1..(k - 1) |-> s[i]]
    BY <1>1, <1>2, <2>1
  <2>3. \A i \in 1..(k - 1) : t[i] = s[i]
    BY <1>2, <2>1
  <2> QED
    BY <2>2, <2>3
<1>4. SubSeq(t, 1, Len(s)) = s
  <2>1. SubSeq(t, 1, Len(s)) = [i \in 1..Len(s) |-> t[i]]
    BY <1>2
  <2>2. s = [i \in 1..Len(s) |-> s[i]]
    OBVIOUS
  <2> QED
    BY <1>2, <2>1, <2>2
<1> QED
  BY <1>2, <1>3, <1>4

\* One more answer.
LEMMA DialogueGrows ==
  ASSUME Dialogue, Seen, NEW x, said' = Append(said, x),
         UNCHANGED <<vars, world, client>>, Lossless' => Lossless,
         \A talk : talk = said => Told(talk, x)'
  PROVE  Dialogue'
<1>1. PICK S : said \in Seq(S)
  BY DEF Seen
<1>2. /\ Len(said) \in Nat /\ DOMAIN said' = 1..(Len(said) + 1) /\ DOMAIN said = 1..Len(said)
      /\ \A k \in DOMAIN said : said'[k] = said[k] /\ SubSeq(said', 1, k - 1) = SubSeq(said, 1, k - 1)
      /\ said'[Len(said) + 1] = x /\ SubSeq(said', 1, Len(said)) = said
  BY <1>1, PrefixesStay
<1> SUFFICES ASSUME NEW k \in DOMAIN said', NEW talk, NEW a,
                    talk = SubSeq(said', 1, k - 1), a = said'[k]
             PROVE  Told(talk, a)'
  BY DEF Dialogue
<1>3. CASE k \in DOMAIN said
  <2>1. talk = SubSeq(said, 1, k - 1) /\ a = said[k]
    BY <1>2, <1>3
  <2>2. Told(talk, a)
    BY <1>3, <2>1 DEF Dialogue
  <2> QED
    BY <2>2, ToldStays
<1>4. CASE k = Len(said) + 1
  <2>1. talk = said /\ a = x
    BY <1>2, <1>4
  <2> QED
    BY <2>1
<1> QED
  BY <1>2, <1>3, <1>4

\* Between the dialogues nothing has been said.
LEMMA Quiet ==
  ASSUME Dialogue, Seen, pc \notin {"discover", "checks"} \/ (pc = "checks" /\ ~(next <= Len(Registry)))
  PROVE  said = <<>>
<1>1. \A talk : Request(talk) = Nothing
  BY DEF Request
<1>2. \A talk, a : ~Told(talk, a)
  BY <1>1 DEF Told, Nothing
<1>3. DOMAIN said = {}
  BY <1>2 DEF Dialogue
<1>4. PICK S : said \in Seq(S)
  BY DEF Seen
<1>5. Len(said) = 0
  BY <1>3, <1>4
<1> QED
  BY <1>4, <1>5, EmptySeq

LEMMA NothingSaid == said = <<>> => Dialogue
BY DEF Dialogue

LEMMA NothingSaidNext == said' = <<>> => Dialogue'
BY DEF Dialogue

----------------------------------------------------------------------------
(***************************************************************************)
(* What the servers answer, as far as they go on to remember it.           *)
(***************************************************************************)
\* The token endpoint refuses, or issues a token nobody has had yet.
Refusal(v, a, code, error) ==
  /\ a.status = code /\ a.error = IF "BadErrorShape" \in v THEN Blank ELSE error
  /\ a.token = NoToken /\ ~a.active /\ a # Lost

New(s, a) ==
  /\ a.status = 200 /\ a.error = Blank
  /\ Verified(a.token) /\ a.token.n = s.minted + 1 /\ a.token # NoToken
  /\ ~a.active /\ a # Lost

LEMMA Statuses == \A code : LET a == Status(code) IN
  /\ a.status = code /\ a.error = Blank /\ a.nonce = FALSE /\ a.token = NoToken /\ a.scope = Blank /\ ~a.active
  /\ a.facts = {}
  /\ DOMAIN a = {"status", "error", "nonce", "token", "scope", "active", "facts"}
BY DEF Status

LEMMA NotLost == \A a : "status" \in DOMAIN a => a # Lost
BY DEF Lost

LEMMA RefusalOf ==
  ASSUME NEW v, NEW code, NEW error
  PROVE  Refusal(v, tokenError(v, code, error), code, error)
<1> DEFINE a == tokenError(v, code, error)
<1>1. /\ a.status = code /\ a.error = (IF "BadErrorShape" \in v THEN Blank ELSE error)
      /\ a.token = NoToken /\ "status" \in DOMAIN a
  BY DEF tokenError, Status
<1>2. ~a.active
  BY DEF tokenError, Status
<1> HIDE DEF a
<1>3. a # Lost
  BY <1>1, NotLost
<1> QED
  BY <1>1, <1>2, <1>3 DEF Refusal, a

LEMMA ProofRefusedOf ==
  ASSUME NEW v, NEW problem
  PROVE  /\ Refusal(v, ProofRefused(v, problem), 400, problem)
         /\ ProofRefused(v, problem).nonce <=> problem = "use_dpop_nonce"
<1> DEFINE a == tokenError(v, 400, problem)
           again == problem = "use_dpop_nonce"
           b == [a EXCEPT !.nonce = again]
<1>1. Refusal(v, a, 400, problem)
  BY RefusalOf
<1>2. {"status", "error", "token", "active", "nonce"} \subseteq DOMAIN a
  BY DEF tokenError, Status
<1>3. ProofRefused(v, problem) = b
  BY DEF ProofRefused
<1> HIDE DEF a, again
<1>4. DOMAIN b = DOMAIN a /\ \A field \in DOMAIN a : field # "nonce" => b[field] = a[field]
  OBVIOUS
<1>5. b.nonce = again
  BY <1>2
<1> HIDE DEF b
<1>6. b.status = a.status /\ b.error = a.error /\ b.token = a.token /\ b.active = a.active /\ "status" \in DOMAIN b
  BY <1>2, <1>4
<1>7. b # Lost
  BY <1>6, NotLost
<1>8. Refusal(v, b, 400, problem)
  BY <1>1, <1>6, <1>7 DEF Refusal
<1> QED
  BY <1>3, <1>5, <1>8 DEF again

\* A token carries what it was asked to.
LEMMA IssuedOf ==
  ASSUME NEW v, NEW s, NEW q, NEW claims, DOMAIN claims = DOMAIN NoToken,
         NEW a, a = Issued(v, s, q, claims)
  PROVE  /\ New(s, a) /\ a.token.aud = claims.aud /\ a.token.act = claims.act /\ a.scope = Blank
         /\ a.token.jkt = IF q.proof # NoProof /\ "NoCnfBinding" \notin v THEN q.proof.key ELSE NoKey
         /\ DOMAIN a = {"status", "error", "nonce", "token", "scope", "active", "facts"}
<1>0. DOMAIN NoToken = {"by", "n", "aud", "jkt", "act", "mayAct"} /\ NoToken.by # "as"
  BY DEF NoToken, Blank
<1> DEFINE jkt == IF q.proof # NoProof /\ "NoCnfBinding" \notin v THEN q.proof.key ELSE NoKey
           token == [claims EXCEPT !.by = "as", !.n = s.minted + 1, !.jkt = jkt]
<1>1. a = [Status(200) EXCEPT !.token = token]
  BY DEF Issued
<1> HIDE DEF jkt
<1>2. token.by = "as" /\ token.n = s.minted + 1 /\ token.jkt = jkt /\ token.aud = claims.aud /\ token.act = claims.act
  BY <1>0
<1> HIDE DEF token
<1>3. token # NoToken /\ Verified(token)
  BY <1>0, <1>2 DEF Verified
<1> DEFINE b == Status(200)
<1>4. /\ b.status = 200 /\ b.error = Blank /\ b.scope = Blank
      /\ DOMAIN b = {"status", "error", "nonce", "token", "scope", "active", "facts"}
  BY Statuses
<1>i. ~b.active
  BY Statuses
<1> HIDE DEF b
<1>5. a = [b EXCEPT !.token = token]
  BY <1>1 DEF b
<1>6. a.token = token /\ DOMAIN a = DOMAIN b /\ \A field \in DOMAIN b : field # "token" => a[field] = b[field]
  BY <1>4, <1>5
<1>7. a.status = 200 /\ a.error = Blank /\ a.scope = Blank /\ a.active = b.active /\ "status" \in DOMAIN a
  BY <1>4, <1>6
<1>8. a # Lost
  BY <1>7, NotLost
<1>9. New(s, a)
  BY <1>2, <1>3, <1>i, <1>6, <1>7, <1>8 DEF New
<1> QED
  BY <1>2, <1>4, <1>6, <1>7, <1>9 DEF jkt

\* The same, with a scope beside it.
Scoped(a, scope) == [a EXCEPT !.scope = scope]

LEMMA ScopedOf ==
  ASSUME NEW v, NEW s, NEW q, NEW claims, DOMAIN claims = DOMAIN NoToken, NEW scope,
         NEW a, a = Scoped(Issued(v, s, q, claims), scope)
  PROVE  New(s, a) /\ a.token.aud = claims.aud /\ a.token.act = claims.act /\ a.scope = scope
<1> DEFINE b == Issued(v, s, q, claims)
<1>1. /\ New(s, b) /\ b.token.aud = claims.aud /\ b.token.act = claims.act
      /\ DOMAIN b = {"status", "error", "nonce", "token", "scope", "active", "facts"}
  <2> HIDE DEF b
  <2>1. \A c : c = Issued(v, s, q, claims) =>
          /\ New(s, c) /\ c.token.aud = claims.aud /\ c.token.act = claims.act
          /\ DOMAIN c = {"status", "error", "nonce", "token", "scope", "active", "facts"}
    BY IssuedOf
  <2> QED
    BY <2>1 DEF b
<1> HIDE DEF b
<1>2. a = [b EXCEPT !.scope = scope]
  BY DEF b, Scoped
<1>3. a.scope = scope /\ DOMAIN a = DOMAIN b /\ \A field \in DOMAIN b : field # "scope" => a[field] = b[field]
  BY <1>1, <1>2
<1>4. a.status = b.status /\ a.error = b.error /\ a.token = b.token /\ a.active = b.active /\ "status" \in DOMAIN a
  BY <1>1, <1>3
<1>5. a # Lost
  BY <1>4, NotLost
<1>6. New(s, a)
  BY <1>1, <1>4, <1>5 DEF New
<1> QED
  BY <1>1, <1>3, <1>4, <1>6

\* Who the server takes the client for, and what it makes of the proof.
Mismatched(v, s, q) == "StrictAuth" \in v /\ q.auth # Shown(s.registeredAs)
Problem(v, q)       == IF q.proof = NoProof THEN Blank ELSE ProofProblem(v, q.proof)
Denied(v, s, q)     == Mismatched(v, s, q) \/ Problem(v, q) # Blank

LEMMA DeniedOf ==
  ASSUME NEW v, NEW s, NEW q, Denied(v, s, q), NEW a, a = handleToken(v, s, q)
  PROVE  \/ Mismatched(v, s, q) /\ Refusal(v, a, 401, "invalid_client")
         \/ ~Mismatched(v, s, q) /\ Refusal(v, a, 400, Problem(v, q))
              /\ (a.nonce <=> Problem(v, q) = "use_dpop_nonce")
<1>1. CASE Mismatched(v, s, q)
  <2>1. a = tokenError(v, 401, "invalid_client")
    BY <1>1 DEF handleToken, Mismatched
  <2> QED
    BY <1>1, <2>1, RefusalOf
<1>2. CASE ~Mismatched(v, s, q) /\ Problem(v, q) # Blank
  <2>1. a = ProofRefused(v, Problem(v, q))
    BY <1>2 DEF handleToken, Mismatched, Problem
  <2> QED
    BY <1>2, <2>1, ProofRefusedOf
<1> QED
  BY <1>1, <1>2 DEF Denied

\* What is asked for is then up to the grant.
LEMMA GrantedOf ==
  ASSUME NEW v, NEW s, NEW q, ~Denied(v, s, q), NEW a, a = handleToken(v, s, q)
  PROVE  /\ q.grant = "token-exchange" => a = handleExchange(v, s, q)
         /\ q.grant = "refresh_token" => a = handleRefresh(v, s, q)
         /\ q.grant = "client_credentials" /\ "NoClientCredentials" \in v =>
              a = tokenError(v, 400, "unsupported_grant_type")
         /\ q.grant = "client_credentials" /\ "NoClientCredentials" \notin v =>
              a = handleClientCredentials(v, s, q)
         /\ q.grant \notin {"token-exchange", "refresh_token", "client_credentials"} =>
              a = IF "AcceptUnknownGrant" \in v THEN Issued(v, s, [q EXCEPT !.proof = NoProof], NoToken)
                  ELSE tokenError(v, 400, "unsupported_grant_type")
BY DEF handleToken, Denied, Mismatched, Problem

LEMMA GrantedClient ==
  ASSUME NEW v, NEW s, NEW q, ~Denied(v, s, q), q.grant = "client_credentials",
         NEW a, a = handleToken(v, s, q)
  PROVE  a = IF "NoClientCredentials" \in v THEN tokenError(v, 400, "unsupported_grant_type")
             ELSE handleClientCredentials(v, s, q)
BY DEF handleToken, Denied, Mismatched, Problem

LEMMA GrantedExchange ==
  ASSUME NEW v, NEW s, NEW q, ~Denied(v, s, q), q.grant = "token-exchange",
         NEW a, a = handleToken(v, s, q)
  PROVE  a = handleExchange(v, s, q)
BY DEF handleToken, Denied, Mismatched, Problem

LEMMA ClaimsDomain ==
  \A act, aud : /\ DOMAIN [NoToken EXCEPT !.aud = aud] = DOMAIN NoToken
                /\ DOMAIN [NoToken EXCEPT !.act = act, !.aud = aud] = DOMAIN NoToken
                /\ [NoToken EXCEPT !.aud = aud].aud = aud /\ [NoToken EXCEPT !.aud = aud].act = 0
                /\ [NoToken EXCEPT !.act = act, !.aud = aud].aud = aud
                /\ [NoToken EXCEPT !.act = act, !.aud = aud].act = act
BY DEF NoToken

LEMMA MintedOf ==
  ASSUME NEW v, NEW s, NEW q, NEW a, a = handleClientCredentials(v, s, q)
  PROVE  \/ q.resources # {} /\ "RejectResource" \in v /\ Refusal(v, a, 400, "invalid_target")
         \/ /\ Cardinality(q.resources) > 1 /\ "ErrorOnMultipleResources" \in v
            /\ Refusal(v, a, 500, "server_error")
         \/ /\ ~(q.resources # {} /\ "RejectResource" \in v)
            /\ ~(Cardinality(q.resources) > 1 /\ "ErrorOnMultipleResources" \in v)
            /\ New(s, a) /\ a.token.aud = Reflected(v, q)
            /\ a.token.jkt = IF q.proof # NoProof /\ "NoCnfBinding" \notin v THEN q.proof.key ELSE NoKey
<1> DEFINE dear == q.resources # {} /\ "RejectResource" \in v
           many == Cardinality(q.resources) > 1 /\ "ErrorOnMultipleResources" \in v
           claims == [NoToken EXCEPT !.aud = Reflected(v, q)]
<1>1. DOMAIN claims = DOMAIN NoToken /\ claims.aud = Reflected(v, q)
  BY ClaimsDomain
<1> HIDE DEF dear, many, claims
<1>2. CASE dear
  BY <1>2, RefusalOf DEF handleClientCredentials, dear
<1>3. CASE ~dear /\ many
  BY <1>3, RefusalOf DEF handleClientCredentials, dear, many
<1>4. CASE ~dear /\ ~many
  <2>1. a = Issued(v, s, q, claims)
    BY <1>4 DEF handleClientCredentials, dear, many, claims
  <2> QED
    BY <1>1, <1>4, <2>1, IssuedOf DEF dear, many
<1> QED
  BY <1>2, <1>3, <1>4

LEMMA ExchangedOf ==
  ASSUME NEW v, NEW s, NEW q, NEW a, a = handleExchange(v, s, q)
  PROVE  \/ "NoTokenExchange" \in v /\ Refusal(v, a, 400, "unsupported_grant_type")
         \/ /\ (q.actor = NoToken /\ "FailImpersonation" \in v) \/ (q.actor # NoToken /\ "RejectDelegation" \in v)
            /\ Refusal(v, a, 400, "invalid_request")
         \/ /\ \/ ~Verified(q.subject) /\ "AcceptBadSubject" \notin v
               \/ q.actor # NoToken /\ (~Verified(q.actor) \/ ActorRefused(v, q))
            /\ Refusal(v, a, 400, "invalid_grant")
         \/ /\ "NoTokenExchange" \notin v
            /\ ~(q.actor = NoToken /\ "FailImpersonation" \in v)
            /\ ~(q.actor # NoToken /\ "RejectDelegation" \in v)
            /\ Verified(q.subject) \/ "AcceptBadSubject" \in v
            /\ q.actor # NoToken => Verified(q.actor) /\ ~ActorRefused(v, q)
            /\ New(s, a) /\ a.token.act = ActChain(v, q) /\ a.scope = Widened(v, q.scope)
<1> DEFINE claims == [NoToken EXCEPT !.act = ActChain(v, q), !.aud = Reflected(v, q)]
           issued == [Issued(v, s, q, claims) EXCEPT !.scope = Widened(v, q.scope)]
<1>1. New(s, issued) /\ issued.token.act = ActChain(v, q) /\ issued.scope = Widened(v, q.scope)
  <2>1. DOMAIN claims = DOMAIN NoToken /\ claims.act = ActChain(v, q)
    BY ClaimsDomain
  <2> DEFINE scope == Widened(v, q.scope)
  <2> HIDE DEF claims, scope
  <2>2. issued = Scoped(Issued(v, s, q, claims), scope)
    BY DEF scope, Scoped
  <2> HIDE DEF issued
  <2>3. New(s, issued) /\ issued.token.act = claims.act /\ issued.scope = scope
    BY <2>1, <2>2, ScopedOf
  <2> QED
    BY <2>1, <2>3 DEF scope
<1> HIDE DEF issued
<1>2. \A error : Refusal(v, tokenError(v, 400, error), 400, error)
  BY RefusalOf
<1> DEFINE alone == q.actor = NoToken
           bad == ~Verified(q.subject) /\ "AcceptBadSubject" \notin v
<1> HIDE DEF alone, bad
<1>3. a = IF "NoTokenExchange" \in v THEN tokenError(v, 400, "unsupported_grant_type")
          ELSE IF alone /\ "FailImpersonation" \in v THEN tokenError(v, 400, "invalid_request")
          ELSE IF ~alone /\ "RejectDelegation" \in v THEN tokenError(v, 400, "invalid_request")
          ELSE IF bad THEN tokenError(v, 400, "invalid_grant")
          ELSE IF ~alone /\ ~Verified(q.actor) THEN tokenError(v, 400, "invalid_grant")
          ELSE IF ~alone /\ ActorRefused(v, q) THEN tokenError(v, 400, "invalid_grant")
          ELSE issued
  BY DEF handleExchange, issued, alone, bad
<1> HIDE DEF claims
<1> QED
  BY <1>1, <1>2, <1>3 DEF alone, bad

LEMMA RefreshedOf == \A v, s, q : New(s, handleRefresh(v, s, q))
BY ScopedOf DEF handleRefresh, Scoped

\* Either way.
LEMMA TokenOf ==
  ASSUME NEW v, NEW s, NEW q, NEW a, a = handleToken(v, s, q)
  PROVE  \/ New(s, a)
         \/ \E code, error : code \in {400, 401, 500} /\ Refusal(v, a, code, error)
<1>1. CASE Denied(v, s, q)
  BY <1>1, DeniedOf
<1>2. CASE ~Denied(v, s, q)
  <2>1. Refusal(v, tokenError(v, 400, "unsupported_grant_type"), 400, "unsupported_grant_type")
    BY RefusalOf
  <2>2. CASE a = handleExchange(v, s, q)
    BY <2>2, ExchangedOf
  <2>4. CASE a = handleClientCredentials(v, s, q)
    BY <2>4, MintedOf
  <2>3. New(s, Issued(v, s, [q EXCEPT !.proof = NoProof], NoToken))
    BY IssuedOf
  <2> QED
    BY <1>2, <2>1, <2>2, <2>3, <2>4, RefreshedOf, GrantedOf
<1> QED
  BY <1>1, <1>2

----------------------------------------------------------------------------
(***************************************************************************)
(* What the servers remember stays fit.                                    *)
(***************************************************************************)
LEMMA FirstTold ==
  ASSUME Dialogue, Seen, said # <<>>
  PROVE  1 \in DOMAIN said /\ Told(<<>>, said[1])
<1>1. PICK S : said \in Seq(S)
  BY DEF Seen
<1>2. 1 \in DOMAIN said /\ SubSeq(said, 1, 0) = <<>> /\ 1 - 1 = 0
  BY <1>1
<1>3. \A talk, a : talk = SubSeq(said, 1, 0) /\ a = said[1] => Told(talk, a)
  BY <1>2 DEF Dialogue
<1> QED
  BY <1>2, <1>3

LEMMA ToSetNone == ToSet(<<>>) = {}
BY DEF ToSet

LEMMA PastedShown == Verified(Pasted) /\ Pasted.n = 1 /\ Pasted # NoToken
BY DEF Pasted, SubjectToken, NoToken, Blank, Verified

LEMMA AnswerOf ==
  ASSUME NEW r, NEW a, r.to # "mcp", AnswerTo(r, a)
  PROVE  \E s : Suits(s, r) /\ a = Answered(s, r)
BY DEF AnswerTo

LEMMA AnswerOfToken ==
  ASSUME NEW r, NEW a, r.to = "token", AnswerTo(r, a)
  PROVE  \E s : Fit(s) /\ a = handleToken(world.as, s, r)
<1>1. PICK s : Fit(s) /\ a = Answered(s, r)
  BY AnswerOf DEF Suits
<1>2. Answered(s, r) = handleToken(world.as, s, r)
  BY DEF Answered
<1> QED
  BY <1>1, <1>2

\* The classes of checks that send something.
LEMMA Classes ==
  /\ WrongHTU \notin Exchanges \cup Holders
  /\ Exchanges \cap Holders = {}
BY DEF WrongHTU, Exchanges, Holders, Revocation

LEMMA AsksLost ==
  ASSUME NEW id, NEW talk, id # WrongHTU, Lost \in ToSet(talk)
  PROVE  Asks(id, talk) = Nothing
BY DEF Asks

LEMMA AsksOnce ==
  ASSUME NEW id, NEW talk, id \notin {WrongHTU} \cup Exchanges \cup Holders, Lost \notin ToSet(talk)
  PROVE  Asks(id, talk) = IF talk = <<>> THEN OneShot(id) ELSE Nothing
BY DEF Asks

LEMMA AsksHolding ==
  ASSUME NEW id, NEW talk, id \in Holders, Lost \notin ToSet(talk)
  PROVE  Asks(id, talk) =
           IF Obtaining(talk) THEN Form("client_credentials")
           ELSE IF Obtained(talk) = NoToken THEN Nothing
           ELSE Uses(id, talk)
BY Classes DEF Asks

LEMMA AsksProving ==
  ASSUME NEW id, NEW talk, id \in {WrongHTU} \cup Exchanges
  PROVE  Asks(id, talk) = Nothing \/ \E htu, nonce : Asks(id, talk) = Proving(talk, htu, nonce)
<1> DEFINE first == Proving(talk, "token", FALSE)
           elsewhere == Proving(talk, "elsewhere", talk[1] # Lost /\ talk[1].nonce)
           again == Proving(talk, "token", talk[1].nonce)
<1>1. \A r \in {first, elsewhere, again} : \E htu, nonce : r = Proving(talk, htu, nonce)
  OBVIOUS
<1>2. Asks(id, talk) \in {Nothing, first, elsewhere, again}
  <2> HIDE DEF first, elsewhere, again
  <2>1. CASE id = WrongHTU
    BY <2>1, Classes DEF Asks, first, elsewhere
  <2>2. CASE id \in Exchanges
    BY <2>2, Classes DEF Asks, first, again
  <2> QED
    BY <2>1, <2>2
<1> HIDE DEF first, elsewhere, again
<1> QED
  BY <1>1, <1>2

\* A check that is to hold a token asks for one first.
LEMMA Asked1 ==
  ASSUME pc = "checks", next <= Len(Registry), Applies, Current.id \in Holders, ~opts.subjectToken
  PROVE  Request(<<>>) = Form("client_credentials")
<1>1. Lost \notin ToSet(<<>>) /\ Obtaining(<<>>)
  BY ToSetNone DEF Obtaining
<1> QED
  BY <1>1, AsksHolding DEF Request

\* A check holds the token it is about.
Holding ==
  /\ pc = "checks" /\ next <= Len(Registry) /\ Applies /\ Current.id \in Holders
  /\ ~Obtaining(said) /\ Lost \notin ToSet(said) /\ Obtained(said) # NoToken

\* What obtainToken gets for a check is the pasted token, or one the server has issued.
LEMMA ObtainedFit ==
  ASSUME Dialogue, Seen, Holding
  PROVE  Verified(Obtained(said)) /\ Obtained(said).n \in Nat \ {0}
<1>1. CASE opts.subjectToken
  <2>1. Obtained(said) = Pasted
    BY <1>1 DEF Obtained
  <2> QED
    BY <2>1, PastedShown
<1>2. CASE ~opts.subjectToken
  <2>1. said # <<>>
    BY <1>2 DEF Obtaining, Holding
  <2>2. 1 \in DOMAIN said /\ Told(<<>>, said[1])
    BY <2>1, FirstTold
  <2>3. said[1] # Lost
    BY <2>2 DEF ToSet, Holding
  <2> DEFINE r == Form("client_credentials")
  <2>4. r.to = "token"
    BY DEF Form
  <2> HIDE DEF r
  <2>5. AnswerTo(r, said[1])
    BY <1>2, <2>2, <2>3, Asked1 DEF Told, r, Holding
  <2>6. PICK s : Fit(s) /\ said[1] = handleToken(world.as, s, r)
    BY <2>4, <2>5, AnswerOfToken
  <2>7. Obtained(said) = said[1].token /\ Obtained(said) # NoToken
    BY <1>2 DEF Obtained, Holding
  <2>8. New(s, said[1])
    BY <2>6, <2>7, TokenOf DEF Refusal
  <2>9. s.minted + 1 \in Nat \ {0}
    BY <2>6 DEF Fit
  <2> QED
    BY <2>7, <2>8, <2>9 DEF New
<1> QED
  BY <1>1, <1>2

\* Whose token a request is about: nobody's, a forged one, or the one the check holds.
LEMMA PendingToken ==
  /\ Pending.to = "mcp" =>
       \/ Pending.token \in {NoToken, Forged}
       \/ /\ Holding /\ Pending.token = Obtained(said)
          /\ Current.id \notin {"rfc7662.introspect.active", Revocation}
  /\ Pending.to = "introspect" =>
       /\ Holding /\ Pending.token = Obtained(said)
       /\ Current.id \in {"rfc7662.introspect.active", Revocation}
       /\ Current.id = Revocation => Len(Since(said)) = 1
  /\ Pending.to = "revoke" =>
       \/ Pending.token = Forged
       \/ /\ Holding /\ Pending = About("revoke", Obtained(said))
          /\ Current.id = Revocation /\ Len(Since(said)) = 0
<1> DEFINE Kept(r) ==
             r.to \in {"mcp", "introspect", "revoke"} =>
                  r.to # "introspect" /\ (r.token = Forged \/ (r.token = NoToken /\ r.to = "mcp"))
<1> SUFFICES ASSUME ~Kept(Pending)
             PROVE  /\ Holding
                    /\ \/ /\ Pending.to = "mcp" /\ Pending.token = Obtained(said)
                          /\ Current.id \notin {"rfc7662.introspect.active", Revocation}
                       \/ /\ Pending.to = "introspect" /\ Pending.token = Obtained(said)
                          /\ Current.id \in {"rfc7662.introspect.active", Revocation}
                          /\ Current.id = Revocation => Len(Since(said)) = 1
                       \/ /\ Pending.to = "revoke" /\ Pending = About("revoke", Obtained(said))
                          /\ Current.id = Revocation /\ Len(Since(said)) = 0
  OBVIOUS
<1>0. /\ Kept(Nothing) /\ Kept(About("revoke", Forged))
      /\ \A proof : \A token \in {NoToken, Forged} : Kept(Present(token, proof))
      /\ \A token, proof : Present(token, proof).to = "mcp" /\ Present(token, proof).token = token
      /\ \A document \in {"prm", "suffix", "metadata", "openid", "jwks", "authorize"} : Kept(Get(document))
      /\ \A to, token : About(to, token).to = to /\ About(to, token).token = token
  BY DEF Nothing, Present, Get, About
<1>1. /\ \A grant : Kept(Form(grant)) /\ Kept(Unauthenticated(grant))
      /\ \A s, a : Kept(Exchange(s, a))
      /\ \A s, a, scope : Kept([Exchange(s, a) EXCEPT !.scope = scope])
      /\ \A audiences : Kept(Resource(audiences))
      /\ \A talk, htu, nonce : Kept(Proving(talk, htu, nonce))
  BY DEF Form, Unauthenticated, Exchange, Resource, Proving
<1> HIDE DEF Kept
<1>2. Kept(WalkRequest(said))
  BY <1>0 DEF WalkRequest
<1>3. pc = "checks" /\ next <= Len(Registry) /\ Applies /\ Pending = Asks(Current.id, said)
  BY <1>0, <1>2 DEF Pending, Request
<1> DEFINE id == Current.id
<1> HIDE DEF id
<1>4. CASE id \notin {WrongHTU} \cup Exchanges \cup Holders
  <2>1. Kept(OneShot(id))
    BY <1>0, <1>1 DEF OneShot
  <2> QED
    BY <1>0, <1>3, <1>4, <2>1, AsksOnce, AsksLost DEF id
<1>5. CASE id \in {WrongHTU} \cup Exchanges
  BY <1>0, <1>1, <1>3, <1>5, AsksProving DEF id
<1>6. CASE id \in Holders
  <2>1. /\ ~Obtaining(said) /\ Lost \notin ToSet(said) /\ Obtained(said) # NoToken
        /\ Pending = Uses(id, said)
    BY <1>0, <1>1, <1>3, <1>6, Classes, AsksHolding, AsksLost DEF id
  <2>2. Holding
    BY <1>3, <1>6, <2>1 DEF Holding, id
  <2>3. \/ Kept(PresentWithRetry(said))
        \/ PresentWithRetry(said).to = "mcp" /\ PresentWithRetry(said).token = Obtained(said)
    <3> DEFINE dpop == "dpopRequired" \in disc
               once == IF dpop THEN Signed(said, "resource", FALSE) ELSE NoProof
               again == IF dpop THEN Signed(said, "resource", TRUE) ELSE NoProof
               held == Obtained(said)
    <3>1. PresentWithRetry(said) \in {Nothing, Present(held, once), Present(held, again)}
      BY DEF PresentWithRetry
    <3> HIDE DEF once, again
    <3> QED
      BY <1>0, <3>1
  <2>4. Pending # Nothing
    BY <1>0
  <2>5. CASE id = "rfc7662.introspect.active"
    <3>1. Pending = About("introspect", Obtained(said)) /\ id # Revocation
      BY <2>1, <2>4, <2>5 DEF Uses, Revocation
    <3> QED
      BY <1>0, <2>2, <2>5, <3>1 DEF id
  <2>6. CASE id = Revocation
    <3>1. \/ Len(Since(said)) = 0 /\ Pending = About("revoke", Obtained(said))
          \/ Len(Since(said)) = 1 /\ Pending = About("introspect", Obtained(said))
      BY <2>1, <2>4, <2>6 DEF Uses, Revocation
    <3> QED
      BY <1>0, <2>2, <2>6, <3>1 DEF id
  <2>7. CASE id \notin {"rfc7662.introspect.active", Revocation}
    BY <1>0, <2>1, <2>2, <2>3, <2>7 DEF Uses, id
  <2> QED
    BY <2>5, <2>6, <2>7
<1> QED
  BY <1>4, <1>5, <1>6

LEMMA ForgedShown ==
  ~Verified(Forged) /\ ~Verified(NoToken) /\ Forged.n = 0 /\ NoToken.n = 0 /\ Forged # NoToken
BY DEF Forged, NoToken, Verified, Blank

\* A token put to the revocation endpoint is one a check holds, or nobody's.
LEMMA RevokeFit ==
  ASSUME Dialogue, Seen, Pending.to = "revoke"
  PROVE  ~Verified(Pending.token) \/ Pending.token.n \in Nat \ {0}
<1>1. About("revoke", Obtained(said)).token = Obtained(said)
  BY DEF About
<1> QED
  BY <1>1, PendingToken, ObtainedFit, ForgedShown

LEMMA SawFit ==
  ASSUME NEW s, Knows(s), Fit(s), NEW proof
  PROVE  Fit(Saw(s, proof))
BY DEF Saw, Knows, Fit

LEMMA AfterFit ==
  ASSUME Fit(server), Knows(server), NEW r, NEW answer,
         r.to = "token" => answer = handleToken(world.as, server, r),
         r.to = "revoke" => ~Verified(r.token) \/ r.token.n \in Nat \ {0}
  PROVE  Fit(After(r, answer))
<1>1. CASE r.to = "token"
  <2> DEFINE n == IF Verified(answer.token) THEN answer.token.n ELSE server.minted
             s == [server EXCEPT !.auth = r.auth, !.minted = n]
  <2>0. ~Verified(NoToken)
    BY DEF Verified, NoToken, Blank
  <2>1. n \in Nat \ {0}
    <3>1. CASE New(server, answer)
      BY <3>1 DEF New, Fit
    <3>2. CASE answer.token = NoToken
      BY <2>0, <3>2 DEF Fit
    <3> QED
      BY <1>1, <3>1, <3>2, TokenOf DEF Refusal
  <2> HIDE DEF n
  <2>2. Knows(s) /\ Fit(s)
    BY <2>1 DEF Knows, Fit
  <2>3. After(r, answer) = Saw(s, r.proof)
    BY <1>1 DEF After, n
  <2> QED
    BY <2>2, <2>3, SawFit
<1>2. CASE r.to = "revoke"
  <2>1. CASE world.as \cap {"DeadRevocation", "IgnoreRevoke"} # {}
    BY <1>2, <2>1 DEF After
  <2>2. CASE world.as \cap {"DeadRevocation", "IgnoreRevoke"} = {}
    <3> DEFINE revoked == IF Verified(r.token) THEN server.revoked \cup {r.token.n} ELSE server.revoked
    <3>1. After(r, answer) = [server EXCEPT !.revoked = revoked]
      BY <1>2, <2>2 DEF After
    <3>2. revoked \subseteq Nat \ {0} /\ "IgnoreRevoke" \notin world.as
      BY <1>2, <2>2 DEF Fit
    <3> HIDE DEF revoked
    <3> QED
      BY <3>1, <3>2 DEF Fit, Knows
  <2> QED
    BY <2>1, <2>2
<1>3. CASE r.to = "mcp"
  BY <1>3, SawFit DEF After
<1>4. CASE r.to \notin {"token", "revoke", "mcp"}
  BY <1>4 DEF After
<1> QED
  BY <1>1, <1>2, <1>3, <1>4

\* Fit is a matter of the servers and of the world.
LEMMA FitStays ==
  ASSUME Fit(server'), world' = world
  PROVE  Fit(server)'
BY DEF Fit

----------------------------------------------------------------------------
(***************************************************************************)
(* The dialogue goes on as it is told.                                     *)
(***************************************************************************)
Chat == Fit(server) /\ Dialogue /\ Calling

\* The answer to come is one of those.
Timely ==
  /\ Honoured(server, Pending)
  /\ Pending.to = "mcp" /\ (~OnCall \/ phase = "modern") => Unseen(server, Pending)

\* Every request is for one of the servers' endpoints.
Addressed(r) ==
  r.to \in {"nobody", "mcp", "prm", "suffix", "metadata", "openid", "jwks", "authorize",
            "token", "introspect", "revoke"}

LEMMA PendingAddressed == Addressed(Pending)
<1>1. /\ Addressed(Nothing) /\ (\A token, proof : Addressed(Present(token, proof)))
      /\ \A document \in {"prm", "suffix", "metadata", "openid", "jwks", "authorize"} : Addressed(Get(document))
      /\ \A token : Addressed(About("introspect", token)) /\ Addressed(About("revoke", token))
  BY DEF Nothing, Present, Get, About, Addressed
<1>2. /\ \A grant : Addressed(Form(grant)) /\ Addressed(Unauthenticated(grant))
      /\ \A s, a : Addressed(Exchange(s, a))
      /\ \A s, a, scope : Addressed([Exchange(s, a) EXCEPT !.scope = scope])
      /\ \A audiences : Addressed(Resource(audiences))
      /\ \A talk, htu, nonce : Addressed(Proving(talk, htu, nonce))
  BY DEF Form, Unauthenticated, Exchange, Resource, Proving, Addressed
<1> HIDE DEF Addressed
<1>3. Addressed(WalkRequest(said))
  BY <1>1 DEF WalkRequest
<1>4. \A id : Addressed(OneShot(id))
  BY <1>1, <1>2 DEF OneShot
<1>5. Addressed(PresentWithRetry(said))
  BY <1>1 DEF PresentWithRetry
<1>6. \A id : Addressed(Uses(id, said))
  BY <1>1, <1>5 DEF Uses
<1>7. \A id : Addressed(Asks(id, said))
  BY <1>1, <1>2, <1>4, <1>6 DEF Asks
<1> QED
  BY <1>1, <1>3, <1>7 DEF Pending, Request

\* An answer is told from a loss.
LEMMA AnsweredArrives ==
  ASSUME NEW s, NEW r, Addressed(r), r.to \notin {"nobody", "mcp"}
  PROVE  Answered(s, r) # Lost
<1>1. \A code, facts : [Status(code) EXCEPT !.facts = facts] # Lost /\ Status(code) # Lost
  BY DEF Status, Lost
<1>2. handleAuthorize(world.as) # Lost
  BY DEF handleAuthorize, Status, Lost
<1>3. handleRevoke(world.as) # Lost
  BY <1>1 DEF handleRevoke
<1>4. handleIntrospect(world.as, s, r) # Lost
  BY DEF handleIntrospect, tokenError, Status, Lost
<1>5. handleToken(world.as, s, r) # Lost
  BY TokenOf DEF New, Refusal
<1> QED
  BY <1>1, <1>2, <1>3, <1>4, <1>5 DEF Answered, Addressed

LEMMA DialogueStays ==
  ASSUME Dialogue, UNCHANGED <<vars, world, client, said>>, Lossless' => Lossless
  PROVE  Dialogue'
BY ToldStays DEF Dialogue

LEMMA ToldNext ==
  ASSUME UNCHANGED <<vars, world, client>>, Lossless' => Lossless,
         NEW talk, NEW r, NEW x, r = Request(talk), r.to # "nobody",
         \/ x = Lost /\ (Dark(r) \/ ~Lossless')
         \/ x # Lost /\ ~Dark(r) /\ AnswerTo(r, x)'
  PROVE  Told(talk, x)'
<1>1. Request(talk)' = r
  BY RequestStays
<1>2. Dark(r)' <=> Dark(r)
  BY DEF Dark, vars
<1> QED
  BY <1>1, <1>2 DEF Told

LEMMA AskKeepsChat ==
  ASSUME Chat, Timely, Seen, WireAuth, WireCustody, AskAS
  PROVE  Chat'
<1>1. UNCHANGED <<vars, world, client, phase>> /\ Pending.to # "nobody" /\ Pending.to # "mcp"
        /\ budget' \in {budget, budget - 1}
  BY DEF AskAS, callVars
<1>2. (Lossless' => Lossless) /\ (budget' # budget => ~Lossless')
  BY <1>1, LossesStay
<1>3. PICK r : r = Pending
  OBVIOUS
<1>4. PICK a : a = Answered(server, r)
  OBVIOUS
<1>5. r.to = "token" => a = handleToken(world.as, server, r)
  BY <1>4 DEF Answered
<1>6. a # Lost
  BY <1>1, <1>3, <1>4, PendingAddressed, AnsweredArrives
<1>7. AnswerTo(r, a)'
  <2>1. AnswerTo(r, a)
    BY <1>1, <1>3, <1>4 DEF Chat, Timely, AnswerTo, Suits
  <2> QED
    BY <1>1, <1>2, <2>1, AnswerStays
<1>8. Fit(After(r, a))
  <2>1. r.to = "revoke" => ~Verified(r.token) \/ r.token.n \in Nat \ {0}
    BY <1>3, RevokeFit DEF Chat
  <2>2. Knows(server)
    BY DEF WireAuth, Knows
  <2> QED
    BY <1>5, <2>1, <2>2, AfterFit DEF Chat
<1>9. /\ server' \in {server, After(r, a)}
      /\ \/ ~Dark(r) /\ said' = Append(said, a)
         \/ said' = Append(said, Lost) /\ (Dark(r) \/ budget' # budget)
  <2>1. budget > 0 => budget - 1 # budget
    BY DEF WireCustody
  <2> QED
    BY <1>3, <1>4, <2>1 DEF AskAS, Dark
<1>10. Fit(server)'
  BY <1>1, <1>8, <1>9, FitStays DEF Chat
<1>11. PICK x : said' = Append(said, x) /\ (\/ ~Dark(r) /\ x = a
                                            \/ x = Lost /\ (Dark(r) \/ ~Lossless'))
  BY <1>2, <1>9
<1>12. \A talk : talk = said => Told(talk, x)'
  <2> SUFFICES ASSUME NEW talk, talk = said PROVE Told(talk, x)'
    OBVIOUS
  <2>1. r = Request(talk)
    BY <1>3 DEF Pending
  <2>2. r.to # "nobody"
    BY <1>1, <1>3
  <2> QED
    BY <1>1, <1>2, <1>6, <1>7, <1>11, <2>1, <2>2, ToldNext
<1>13. Dialogue'
  BY <1>1, <1>2, <1>11, <1>12, DialogueGrows DEF Chat
<1>14. Calling'
  BY <1>1 DEF Chat, Calling, OnCall
<1> QED
  BY <1>10, <1>13, <1>14 DEF Chat

LEMMA CallKeepsChat ==
  ASSUME Chat, WireCustody, Call
  PROVE  Chat'
<1>1. UNCHANGED <<vars, world, client, said, server, budget>> /\ Pending.to = "mcp" /\ phase' = "modern"
  BY DEF Call, Begin, wireVars
<1>2. Lossless' = Lossless
  BY <1>1 DEF Lossless
<1>3. Dialogue'
  BY <1>1, <1>2, DialogueStays DEF Chat
<1>4. Pending' = Pending
  BY <1>1, RequestStays DEF Pending
<1>5. Calling'
  BY <1>1, <1>4 DEF Calling
<1>6. Fit(server)'
  BY <1>1, FitStays DEF Chat
<1> QED
  BY <1>3, <1>5, <1>6 DEF Chat

\* What a call asks for second.
LEMMA SecondAsked ==
  /\ LegacyVersion # NoVersion
  /\ \A a : /\ ~Ambiguous(a.status) => Second(a) = NoVersion
            /\ Ambiguous(a.status) /\ ~ModernError(a) => Second(a) = LegacyVersion
            /\ Ambiguous(a.status) /\ ModernError(a) =>
                 Second(a) = IF a.rpc = "unsupportedVersion" THEN Retry(a.supported) ELSE NoVersion
<1>1. LegacyVersion # NoVersion
  BY VersionsAssumption DEF VersionsAssumption
<1> QED
  BY <1>1 DEF Second

\* The answer a call hears is the last it waits for, or makes it ask once more.
LEMMA HearsOrAsks ==
  ASSUME Chat, Timely, CallInv, AnswerCall, NEW r, r = Pending, NEW a,
         a = handleMCP(world.rs, server, r, asked[Len(asked)])
  PROVE  \/ said' = Append(said, a) /\ CallAnswer(r, a) /\ phase' \notin Awaiting
         \/ /\ said' = said /\ phase' \in Awaiting \ {"modern"}
            /\ heard' = <<a>> /\ Second(a) # NoVersion /\ asked' = <<ModernVersion, Second(a)>>
            /\ a = handleMCP(world.rs, server, r, ModernVersion)
            /\ asked = <<ModernVersion>> /\ Unseen(server, r)
<1>1. Answer(a) /\ HangUp /\ OnCall /\ Suits(server, r)
  BY DEF AnswerCall, Chat, Timely, Suits
<1>0. phase = "modern" => Unseen(server, r) /\ StillUnseen(server, r)
  BY <1>1 DEF Timely, Chat, Calling, StillUnseen
<1>2. CASE phase = "modern"
  <2>1. asked = <<ModernVersion>> /\ heard = <<>>
    BY <1>2 DEF CallInv, Progress
  <2>2. Len(asked) = 1 /\ asked[1] = ModernVersion /\ a = handleMCP(world.rs, server, r, ModernVersion)
    BY <2>1
  <2>3. \A v : Append(asked, v) = <<ModernVersion, v>>
    BY <2>1, AppendSecond
  <2>4. Append(heard, a) = <<a>> /\ <<a>>[1] = a
    BY <2>1
  <2>5. CASE Settled(a) \/ (ModernRefusal(a) /\ phase' = "returned")
    <3>1. heard' = <<a>> /\ kept' = 1 /\ phase' = "returned"
      BY <2>2, <2>4, <2>5 DEF Settled, ModernRefusal, Keep, Hear, Stop
    <3>2. said' = Append(said, a)
      BY <1>1, <2>4, <3>1 DEF HangUp, Awaiting
    <3>3. Second(a) = NoVersion
      BY <2>5, SecondAsked DEF Settled, ModernRefusal, Stop, Ask
    <3>4. CallAnswer(r, a)
      BY <1>0, <1>1, <1>2, <2>2, <3>3 DEF CallAnswer
    <3> QED
      BY <3>1, <3>2, <3>4 DEF Awaiting
  <2>6. CASE FallBack(a) \/ (ModernRefusal(a) /\ phase' # "returned")
    <3>1. phase' \in {"initialize", "again"} /\ heard' = <<a>>
      BY <2>4, <2>6 DEF FallBack, ModernRefusal, Keep, Hear, Stop, Ask
    <3>2. Second(a) # NoVersion /\ asked' = Append(asked, Second(a))
      BY <2>6, SecondAsked DEF FallBack, ModernRefusal, Stop, Ask
    <3>3. said' = said
      BY <1>1, <3>1 DEF HangUp, Awaiting
    <3> QED
      BY <1>0, <1>2, <2>1, <2>2, <2>3, <3>1, <3>2, <3>3 DEF Awaiting
  <2> QED
    BY <1>1, <1>2, <2>5, <2>6 DEF Answer, Initialized, Again
<1>3. CASE phase # "modern"
  <2>1. PICK s, first : /\ Suits(s, r) /\ Unseen(s, r) /\ StillUnseen(server, r)
                        /\ first = handleMCP(world.rs, s, r, ModernVersion)
                        /\ heard = <<first>> /\ Second(first) # NoVersion
                        /\ asked = <<ModernVersion, Second(first)>>
    BY <1>1, <1>3 DEF Chat, Calling
  <2>2. Len(asked) = 2 /\ asked[2] = Second(first)
    BY <2>1
  <2>3. heard' = <<first, a>> /\ kept' = 2 /\ phase' = "returned"
    BY <1>1, <1>3, <2>1, <2>2, AppendSecond
       DEF Answer, Settled, FallBack, ModernRefusal, Initialized, Again, Keep, Hear, Stop
  <2>4. heard'[kept'] = a
    BY <2>3
  <2>5. said' = Append(said, a)
    BY <1>1, <2>3, <2>4 DEF HangUp, Awaiting
  <2>6. CallAnswer(r, a)
    BY <1>1, <2>1, <2>2 DEF CallAnswer
  <2> QED
    BY <2>3, <2>5, <2>6 DEF Awaiting
<1> QED
  BY <1>2, <1>3

LEMMA AnswerKeepsChat ==
  ASSUME Chat, Timely, Seen, CallInv, WireAuth, AnswerCall
  PROVE  Chat'
<1>1. /\ UNCHANGED <<vars, world, client, budget>> /\ OnCall /\ Pending.to = "mcp"
      /\ server' = After(Pending, Nothing)
  BY DEF AnswerCall, Chat, Calling
<1>2. Lossless' = Lossless
  BY <1>1 DEF Lossless
<1>3. PICK r : r = Pending
  OBVIOUS
<1>4. PICK a : a = handleMCP(world.rs, server, r, asked[Len(asked)])
  OBVIOUS
<1>5. a # Lost
  BY <1>4, ServerReplies, RepliesArrive
<1>6. Fit(server)'
  <2>1. Knows(server)
    BY DEF WireAuth, Knows
  <2>2. Fit(After(r, Nothing))
    BY <1>1, <1>3, <2>1, AfterFit DEF Chat
  <2> QED
    BY <1>1, <1>3, <2>2, FitStays
<1>7. r = Request(said) /\ r.to = "mcp" /\ ~Dark(r)
  BY <1>1, <1>3 DEF Pending, Dark
<1>8. CASE said' = Append(said, a) /\ CallAnswer(r, a) /\ phase' \notin Awaiting
  <2>1. AnswerTo(r, a)'
    <3>1. AnswerTo(r, a)
      BY <1>7, <1>8 DEF AnswerTo
    <3> QED
      BY <1>1, <1>2, <3>1, AnswerStays
  <2>2. \A talk : talk = said => Told(talk, a)'
    BY <1>1, <1>2, <1>5, <1>7, <2>1, ToldNext
  <2>3. Dialogue'
    BY <1>1, <1>2, <1>8, <2>2, DialogueGrows DEF Chat
  <2> QED
    BY <1>6, <1>8, <2>3 DEF Chat, Calling, OnCall
<1>9. CASE /\ said' = said /\ phase' \in Awaiting \ {"modern"}
           /\ heard' = <<a>> /\ Second(a) # NoVersion /\ asked' = <<ModernVersion, Second(a)>>
           /\ a = handleMCP(world.rs, server, r, ModernVersion)
           /\ asked = <<ModernVersion>> /\ Unseen(server, r)
  <2>1. Dialogue'
    BY <1>1, <1>2, <1>9, DialogueStays DEF Chat
  <2>2. PICK s : s = server
    OBVIOUS
  <2>3. Suits(s, r)' /\ Unseen(s, r)' /\ a = handleMCP(world.rs, s, r, ModernVersion)'
    <3>1. Suits(s, r) /\ Unseen(s, r)
      BY <1>3, <1>9, <2>2 DEF Chat, Timely, Suits
    <3> QED
      BY <1>1, <1>9, <2>2, <3>1, SuitsStays
  <2>4. r = Pending'
    BY <1>1, <1>7, <1>9, RequestStays DEF Pending
  <2>5. StillUnseen(server, r)'
    <3>1. Len(asked) = 1 /\ asked[1] = ModernVersion
      BY <1>9
    <3>2. ~Speaks(world.rs, ModernVersion) => server' = server
      BY <1>1, <1>3, <1>7, <3>1 DEF After
    <3> QED
      BY <1>1, <1>9, <3>2 DEF StillUnseen, Unseen
  <2>6. Calling'
    BY <1>7, <1>9, <2>3, <2>4, <2>5 DEF Calling
  <2> QED
    BY <1>6, <2>1, <2>6 DEF Chat
<1> QED
  BY <1>3, <1>4, <1>8, <1>9, HearsOrAsks

LEMMA LossKeepsChat ==
  ASSUME Chat, Seen, CallInv, WireAuth, WireCustody, LoseCall
  PROVE  Chat'
<1>1. /\ UNCHANGED <<vars, world, client>> /\ OnCall /\ Pending.to = "mcp" /\ budget' # budget
      /\ budget' = budget - 1 /\ server' \in {server, After(Pending, Nothing)} /\ HangUp /\ Unheard
  BY DEF LoseCall, Chat, Calling, WireCustody
<1>2. (Lossless' => Lossless) /\ ~Lossless'
  BY <1>1, LossesStay
<1>3. PICK r : r = Pending
  OBVIOUS
<1>4. Fit(server)'
  <2>1. Knows(server)
    BY DEF WireAuth, Knows
  <2>2. Fit(After(r, Nothing)) /\ Fit(server)
    BY <1>1, <1>3, <2>1, AfterFit DEF Chat
  <2> QED
    BY <1>1, <1>3, <2>2, FitStays
<1>5. r = Request(said) /\ r.to = "mcp" /\ ~Dark(r)
  BY <1>1, <1>3 DEF Pending, Dark
<1>6. CASE FirstLost
  <2>1. said' = Append(said, Lost) /\ phase' = "failed"
    BY <1>1, <1>6 DEF FirstLost, Stop, HangUp, Awaiting
  <2>2. \A talk : talk = said => Told(talk, Lost)'
    BY <1>1, <1>2, <1>5, ToldNext
  <2>3. Dialogue'
    BY <1>1, <1>2, <2>1, <2>2, DialogueGrows DEF Chat
  <2> QED
    BY <1>4, <2>1, <2>3 DEF Chat, Calling, OnCall, Awaiting
<1>7. CASE SecondLost
  <2>1. PICK s, first : /\ Suits(s, r) /\ Unseen(s, r)
                        /\ first = handleMCP(world.rs, s, r, ModernVersion)
                        /\ heard = <<first>> /\ Second(first) # NoVersion
    BY <1>1, <1>3, <1>7 DEF Chat, Calling, SecondLost
  <2>2. kept = 1
    BY <1>7 DEF SecondLost, CallInv, Progress, FirstKept
  <2>3. heard' = <<first, Lost>> /\ kept' = 1 /\ phase' = "returned"
    BY <1>7, <2>1, <2>2, AppendSecond DEF SecondLost, Hear, Stop
  <2>4. heard'[kept'] = first
    BY <2>3
  <2>5. said' = Append(said, first)
    BY <1>1, <2>3, <2>4 DEF HangUp, Awaiting
  <2>6. AnswerTo(r, first)'
    <3>1. Suits(s, r)' /\ Unseen(s, r)' /\ StillUnseen(s, r)' /\ world' = world
      BY <1>1, <2>1, SuitsStays DEF StillUnseen
    <3>2. CallAnswer(r, first)'
      BY <1>2, <2>1, <3>1 DEF CallAnswer
    <3> QED
      BY <1>5, <3>2 DEF AnswerTo
  <2>7. first # Lost
    BY <2>1, ServerReplies, RepliesArrive
  <2>8. \A talk : talk = said => Told(talk, first)'
    BY <1>1, <1>2, <1>5, <2>6, <2>7, ToldNext
  <2>9. Dialogue'
    BY <1>1, <1>2, <2>5, <2>8, DialogueGrows DEF Chat
  <2> QED
    BY <1>4, <2>3, <2>9 DEF Chat, Calling, OnCall, Awaiting
<1> QED
  BY <1>1, <1>6, <1>7 DEF Unheard

\* Between dialogues nobody waits for a call.
LEMMA QuietCalls ==
  ASSUME Chat, Seen, pc \notin {"discover", "checks"} \/ (pc = "checks" /\ ~(next <= Len(Registry)))
  PROVE  said = <<>> /\ ~OnCall
<1>1. Pending = Nothing
  BY DEF Pending, Request
<1> QED
  BY <1>1, Quiet DEF Chat, Calling, Nothing

LEMMA CallingStays ==
  ASSUME Calling, UNCHANGED <<vars, world, server, phase, heard, asked>>, Pending' = Pending
  PROVE  Calling'
<1>1. \A s, r : /\ Suits(s, r)' <=> Suits(s, r)
                /\ Unseen(s, r)' <=> Unseen(s, r)
                /\ StillUnseen(s, r)' <=> StillUnseen(s, r)
  BY SuitsStays
<1>2. OnCall' <=> OnCall
  BY DEF OnCall
<1>3. StillUnseen(server, Pending)' <=> StillUnseen(server, Pending)
  BY DEF StillUnseen, Unseen
<1> SUFFICES ASSUME OnCall, phase # "modern", NEW r, r = Pending
             PROVE  \E s, first : /\ Suits(s, r)' /\ Unseen(s, r)'
                                  /\ first = handleMCP(world.rs, s, r, ModernVersion)
                                  /\ StillUnseen(server, r)'
                                  /\ heard = <<first>> /\ Second(first) # NoVersion
                                  /\ asked = <<ModernVersion, Second(first)>>
  BY <1>2 DEF Calling
<1>4. PICK s, first : /\ Suits(s, r) /\ Unseen(s, r)
                      /\ first = handleMCP(world.rs, s, r, ModernVersion)
                      /\ StillUnseen(server, r)
                      /\ heard = <<first>> /\ Second(first) # NoVersion
                      /\ asked = <<ModernVersion, Second(first)>>
  BY DEF Calling
<1> QED
  BY <1>1, <1>3, <1>4

LEMMA ChatInit == InitWire => Chat
<1> SUFFICES ASSUME InitWire PROVE Chat
  OBVIOUS
<1>1. said = <<>> /\ phase = "idle" /\ server = Server(AssignedMethod(world.as))
  BY DEF InitWire, InitCall
<1>2. Fit(server)
  BY <1>1 DEF Fit, Server
<1> QED
  BY <1>1, <1>2, NothingSaid DEF Chat, Calling, OnCall, Awaiting

LEMMA ChatStep ==
  Chat /\ Timely /\ Seen /\ WireAuth /\ WireCustody /\ CallInv /\ [NextWire]_allVars => Chat'
<1> SUFFICES ASSUME Chat, Timely, Seen, WireAuth, WireCustody, CallInv, [NextWire]_allVars PROVE Chat'
  OBVIOUS
<1>1. CASE AskAS
  BY <1>1, AskKeepsChat
<1>2. CASE Call
  BY <1>2, CallKeepsChat
<1>3. CASE AnswerCall
  BY <1>3, AnswerKeepsChat
<1>4. CASE LoseCall
  BY <1>4, LossKeepsChat
<1>5. CASE EndWalk \/ EndCheck
  <2>1. said' = <<>> /\ ~OnCall' /\ UNCHANGED <<server, world>>
    BY <1>5 DEF EndWalk, EndCheck, Over, OnCall, callVars
  <2>2. Fit(server)'
    BY <2>1, FitStays DEF Chat
  <2> QED
    BY <2>1, <2>2, NothingSaidNext DEF Chat, Calling
<1>6. CASE ResolveWithout \/ RegisterAnswered \/ RegisterUnanswered \/ Silent \/ Deregister
  <2>1. pc \notin {"discover", "checks"} \/ (pc = "checks" /\ ~(next <= Len(Registry)))
    <3>1. next = Len(Registry) + 1 => ~(next <= Len(Registry))
      BY RegistryAssumption DEF RegistryAssumption
    <3> QED
      BY <1>6, <3>1 DEF ResolveWithout, RegisterAnswered, RegisterUnanswered, Silent, Deregister, NoRegistration,
                MayRegister, AcceptFlags, ReportRefusal, EndChecks, AttachVerdicts, Finish
  <2>2. said = <<>> /\ ~OnCall
    BY <2>1, QuietCalls
  <2>3. UNCHANGED <<said, phase, world>>
    BY <1>6 DEF ResolveWithout, RegisterAnswered, RegisterUnanswered, Silent, Deregister, callVars, wireVars
  <2>4. server' = server \/ server' = [server EXCEPT !.registeredAs = AssignedMethod(world.as)]
    BY <1>6 DEF ResolveWithout, RegisterAnswered, RegisterUnanswered, Silent, Deregister, wireVars
  <2>5. Fit(server')
    BY <2>4 DEF Chat, Fit, WireAuth
  <2>6. Fit(server)'
    BY <2>3, <2>5, FitStays
  <2> QED
    BY <2>2, <2>3, <2>6, NothingSaidNext DEF Chat, Calling, OnCall
<1>7. CASE UNCHANGED allVars
  <2>1. UNCHANGED <<vars, world, client, said, server, phase, heard, asked, budget>>
    BY <1>7 DEF allVars, wireVars, callVars
  <2>2. Lossless' = Lossless /\ Pending' = Pending
    BY <2>1, RequestStays DEF Lossless, Pending
  <2>3. Dialogue'
    BY <2>1, <2>2, DialogueStays DEF Chat
  <2>5. Fit(server)'
    BY <2>1, FitStays DEF Chat
  <2>7. Calling'
    BY <2>1, <2>2, CallingStays DEF Chat
  <2> QED
    BY <2>3, <2>5, <2>7 DEF Chat
<1> QED
  BY <1>1, <1>2, <1>3, <1>4, <1>5, <1>6, <1>7 DEF NextWire

----------------------------------------------------------------------------
(***************************************************************************)
(* What has been revoked, and what a check holds.  The server revokes the  *)
(* token the check Revocation holds: the pasted one, which the run then    *)
(* knows for dead, or one nobody else has.                                 *)
(***************************************************************************)
Ledger ==
  /\ next \in Nat \ {0}
  /\ server.revoked \subseteq 1..server.minted
  /\ server.revoked # {} =>
       /\ pc \notin Beforehand
       /\ pc = "checks" => \E j \in DOMAIN Registry : j <= next /\ Registry[j].id = Revocation
  /\ opts.subjectToken => subject \in {"active", "dead"}
  /\ ~opts.subjectToken => subject = "none" /\ 1 \notin server.revoked
  /\ subject = "dead" => 1 \in server.revoked
  /\ 1 \in server.revoked =>
       \/ subject = "dead"
       \/ pc = "checks" /\ next <= Len(Registry) /\ Applies /\ Current.id = Revocation

Revokes == world.as \cap {"DeadRevocation", "IgnoreRevoke"} = {}

Carried ==
  Holding =>
    LET n == Obtained(said).n
    IN /\ n <= server.minted
       /\ ~opts.subjectToken => n > 1
       /\ ~opts.subjectToken /\ Current.id # Revocation => n \notin server.revoked
       /\ Current.id = Revocation /\ Len(Since(said)) > 0 /\ Revokes => n \in server.revoked

Memory == Ledger /\ Carried

LEMMA AfterRemembers ==
  ASSUME Knows(server), NEW r, NEW answer, NEW s, s = After(r, answer)
  PROVE  /\ s.minted = IF r.to = "token" /\ Verified(answer.token) THEN answer.token.n ELSE server.minted
         /\ s.revoked = IF r.to = "revoke" /\ Verified(r.token) /\ Revokes
                        THEN server.revoked \cup {r.token.n} ELSE server.revoked
<1>1. \A t, proof : Knows(t) => Saw(t, proof).minted = t.minted /\ Saw(t, proof).revoked = t.revoked
  BY DEF Saw, Knows
<1>2. CASE r.to = "token"
  <2> DEFINE n == IF Verified(answer.token) THEN answer.token.n ELSE server.minted
             t == [server EXCEPT !.auth = r.auth, !.minted = n]
  <2>1. Knows(t) /\ t.minted = n /\ t.revoked = server.revoked
    BY DEF Knows
  <2>2. s = Saw(t, r.proof)
    BY <1>2 DEF After
  <2> HIDE DEF t
  <2> QED
    BY <1>1, <1>2, <2>1, <2>2
<1>3. CASE r.to = "revoke"
  <2>1. CASE ~Revokes
    BY <1>3, <2>1 DEF After, Revokes
  <2>2. CASE Revokes
    <3> DEFINE revoked == IF Verified(r.token) THEN server.revoked \cup {r.token.n} ELSE server.revoked
    <3>1. s = [server EXCEPT !.revoked = revoked]
      BY <1>3, <2>2 DEF After, Revokes
    <3> HIDE DEF revoked
    <3>2. s.revoked = revoked /\ s.minted = server.minted
      BY <3>1 DEF Knows
    <3> QED
      BY <1>3, <2>2, <3>2 DEF revoked
  <2> QED
    BY <2>1, <2>2
<1>4. CASE r.to \notin {"token", "revoke"}
  BY <1>1, <1>4 DEF After
<1> QED
  BY <1>2, <1>3, <1>4

\* A check that goes on holds what it held.
LEMMA HoldingGoesOn ==
  ASSUME Seen, UNCHANGED <<vars, world, client>>, NEW x, said' = Append(said, x), Holding', ~Obtaining(said)
  PROVE  /\ Holding /\ x # Lost /\ Current' = Current
         /\ Obtained(said)' = Obtained(said) /\ Len(Since(said))' = Len(Since(said)) + 1
         /\ Len(Since(said)) \in Nat
<1>1. PICK S : said \in Seq(S) /\ said' \in Seq(S) /\ x \in S
  <2>1. PICK S : said \in Seq(S)
    BY DEF Seen
  <2>2. said \in Seq(S \cup {x}) /\ x \in S \cup {x}
    BY <2>1
  <2>3. said' \in Seq(S \cup {x})
    BY <2>2, AppendProperties
  <2> QED
    BY <2>2, <2>3
<1>2. /\ Len(said') = Len(said) + 1 /\ Len(said) \in Nat /\ DOMAIN said = 1..Len(said)
      /\ \A i \in 1..Len(said) : said'[i] = said[i]
      /\ said'[Len(said) + 1] = x /\ said' # <<>>
  BY <1>1, AppendProperties
<1>3. ToSet(said') = ToSet(said) \cup {x}
  BY <1>1, <1>2 DEF ToSet
<1>4. Current' = Current /\ Applies' = Applies /\ opts' = opts /\ Pasted' = Pasted
  BY FormStays DEF Current, Applies, View, vars
<1>5. ~opts.subjectToken => said # <<>> /\ said'[1] = said[1] /\ Len(said) > 0
  BY <1>1, <1>2 DEF Obtaining
<1>6. Obtained(said)' = Obtained(said)
  BY <1>4, <1>5 DEF Obtained
<1>7. Len(Since(said))' = Len(Since(said)) + 1 /\ Len(Since(said)) \in Nat
  <2>1. CASE opts.subjectToken
    BY <1>2, <1>4, <2>1 DEF Since
  <2>2. CASE ~opts.subjectToken
    <3>1. Len(Tail(said)) = Len(said) - 1 /\ Len(Tail(said')) = Len(said') - 1
      BY <1>1, <1>2, <1>5, <2>2
    <3> QED
      BY <1>2, <1>4, <1>5, <2>2, <3>1 DEF Since
  <2> QED
    BY <2>1, <2>2
<1>8. pc' = pc /\ next' = next
  BY DEF vars
<1> QED
  BY <1>3, <1>4, <1>6, <1>7, <1>8 DEF Holding

\* Nothing is held before the first answer but the pasted token.
LEMMA CarriedAfresh ==
  ASSUME Fit(server'), said' = <<>>
  PROVE  Carried'
<1>1. SUFFICES ASSUME Holding' PROVE opts.subjectToken' /\ Obtained(said)' = Pasted' /\ Pasted.n' = 1 /\ Len(Since(said))' = 0
  BY DEF Carried, Fit
<1>2. opts.subjectToken'
  BY <1>1 DEF Holding, Obtaining
<1> QED
  BY <1>2 DEF Obtained, Since, Pasted, SubjectToken, NoToken

\* A token issued is new; the token a check holds is revoked when the check asks for it.
LEMMA AskRemembers ==
  ASSUME Memory, Chat, Seen, WireAuth, AskAS
  PROVE  Memory'
<1>1. /\ UNCHANGED <<vars, world, client>> /\ Pending.to # "nobody" /\ Pending.to # "mcp"
      /\ Knows(server)
  BY DEF AskAS, WireAuth, Knows
<1>2. PICK r : r = Pending
  OBVIOUS
<1>3. PICK a : a = Answered(server, r)
  OBVIOUS
<1>4. /\ r.to = "token" => a = handleToken(world.as, server, r)
      /\ a # Lost
  BY <1>1, <1>2, <1>3, PendingAddressed, AnsweredArrives DEF Answered
<1>5. PICK t : t = After(r, a)
  OBVIOUS
<1>6. PICK x : /\ said' = Append(said, x) /\ server' \in {server, t}
               /\ x # Lost => x = a /\ server' = t
  BY <1>2, <1>3, <1>5 DEF AskAS
<1>7. server.minted \in Nat \ {0} /\ server.revoked \subseteq Nat \ {0}
  BY DEF Chat, Fit
<1>8. /\ t.minted = IF r.to = "token" /\ Verified(a.token) THEN a.token.n ELSE server.minted
      /\ t.revoked = IF r.to = "revoke" /\ Verified(r.token) /\ Revokes
                     THEN server.revoked \cup {r.token.n} ELSE server.revoked
  BY <1>1, <1>5, AfterRemembers
<1>9. t.minted \in {server.minted, server.minted + 1}
  BY <1>4, <1>8, TokenOf, ForgedShown DEF New, Refusal
<1>10. server'.minted \in {server.minted, server.minted + 1}
  BY <1>6, <1>9
<1>11. r.to = "revoke" /\ Verified(r.token) =>
         /\ Holding /\ r.token = Obtained(said) /\ Current.id = Revocation /\ Len(Since(said)) = 0
         /\ r.token.n \in 1..server.minted
         /\ ~opts.subjectToken => r.token.n # 1
  <2> SUFFICES ASSUME r.to = "revoke", Verified(r.token)
               PROVE  /\ Holding /\ r.token = Obtained(said) /\ Current.id = Revocation /\ Len(Since(said)) = 0
                      /\ r.token.n \in 1..server.minted
                      /\ ~opts.subjectToken => r.token.n # 1
    OBVIOUS
  <2>1. About("revoke", Obtained(said)).token = Obtained(said)
    BY DEF About
  <2>2. Holding /\ r.token = Obtained(said) /\ Current.id = Revocation /\ Len(Since(said)) = 0
    BY <1>2, <2>1, PendingToken, ForgedShown
  <2>3. Obtained(said).n \in Nat \ {0}
    BY <2>2, ObtainedFit DEF Chat
  <2> QED
    BY <1>7, <2>2, <2>3 DEF Memory, Carried
<1>12. /\ server.revoked \subseteq server'.revoked
       /\ \A n \in server'.revoked \ server.revoked :
            /\ Holding /\ n = Obtained(said).n /\ Current.id = Revocation
            /\ n \in 1..server.minted /\ (~opts.subjectToken => n # 1)
  BY <1>6, <1>8, <1>11
<1>13. Current' = Current /\ Applies' = Applies
  BY <1>1 DEF Current, Applies, View, vars
<1>14. Ledger'
  <2>1. server'.revoked \subseteq 1..server'.minted
    BY <1>7, <1>10, <1>12 DEF Memory, Ledger
  <2>2. /\ pc' = pc /\ next' = next /\ opts' = opts /\ subject' = subject
    BY <1>1 DEF vars
  <2>3. server'.revoked # {} => /\ pc \notin Beforehand
                                /\ pc = "checks" => \E j \in DOMAIN Registry : j <= next /\ Registry[j].id = Revocation
    <3>1. CASE server.revoked # {}
      BY <3>1 DEF Memory, Ledger
    <3>2. CASE Holding /\ Current.id = Revocation
      <4>1. next \in DOMAIN Registry /\ next <= next
        <5>1. next \in Nat \ {0} /\ next <= Len(Registry)
          BY <3>2 DEF Holding, Memory, Ledger
        <5> QED
          BY <5>1, RegistryAssumption DEF RegistryAssumption
      <4> QED
        BY <3>2, <4>1 DEF Holding, Beforehand, Current
    <3> QED
      BY <1>12, <3>1, <3>2
  <2>4. 1 \in server'.revoked => \/ subject = "dead"
                                 \/ pc = "checks" /\ next <= Len(Registry) /\ Applies /\ Current.id = Revocation
    BY <1>12 DEF Memory, Ledger, Holding
  <2>5. ~opts.subjectToken => 1 \notin server'.revoked
    BY <1>12 DEF Memory, Ledger
  <2> QED
    BY <1>12, <1>13, <2>1, <2>2, <2>3, <2>4, <2>5 DEF Memory, Ledger
<1>15. Carried'
  <2> SUFFICES ASSUME Holding' PROVE Carried'
    BY DEF Carried
  <2>0. opts' = opts /\ Revokes' = Revokes /\ world' = world
    BY <1>1 DEF vars, Revokes
  <2>1. CASE Obtaining(said)
    <3>1. said' = <<x>> /\ said = <<>> /\ ~opts.subjectToken
      BY <1>6, <2>1 DEF Obtaining
    <3>2. x # Lost /\ Obtained(said)' # NoToken
      BY <3>1 DEF Holding, ToSet
    <3>3. Obtained(said)' = IF x.status = 200 THEN x.token ELSE NoToken
      BY <2>0, <3>1 DEF Obtained
    <3>4. Len(Since(said))' = 0
      BY <2>0, <3>1 DEF Since
    <3>5. r = Form("client_credentials")
      <4>1. pc = "checks" /\ next <= Len(Registry) /\ Applies /\ Current.id \in Holders
        BY <1>1, <1>13 DEF Holding, vars
      <4> QED
        BY <1>2, <3>1, <4>1, Asked1 DEF Pending
    <3>6. r.to = "token"
      BY <3>5 DEF Form
    <3>7. New(server, a)
      BY <1>4, <1>6, <3>2, <3>3, <3>6, TokenOf DEF Refusal
    <3>8. Obtained(said)'.n = server.minted + 1 /\ server'.minted = server.minted + 1
            /\ server'.revoked = server.revoked
      BY <1>6, <1>8, <3>2, <3>3, <3>6, <3>7 DEF New
    <3>9. server.minted + 1 \notin server.revoked
      BY <1>7 DEF Memory, Ledger
    <3> QED
      BY <1>7, <3>4, <3>8, <3>9 DEF Carried
  <2>2. CASE ~Obtaining(said)
    <3>1. /\ Holding /\ x # Lost /\ Current' = Current
          /\ Obtained(said)' = Obtained(said) /\ Len(Since(said))' = Len(Since(said)) + 1
          /\ Len(Since(said)) \in Nat
      BY <1>1, <1>6, <2>2, HoldingGoesOn
    <3>2. PICK n : n = Obtained(said).n /\ n \in Nat \ {0} /\ Verified(Obtained(said))
      BY <3>1, ObtainedFit DEF Chat
    <3>3. /\ n <= server.minted
          /\ ~opts.subjectToken => n > 1
          /\ ~opts.subjectToken /\ Current.id # Revocation => n \notin server.revoked
          /\ Current.id = Revocation /\ Len(Since(said)) > 0 /\ Revokes => n \in server.revoked
      BY <3>1, <3>2 DEF Memory, Carried
    <3>4. Current.id # Revocation => server'.revoked = server.revoked
      BY <1>12
    <3>5. Current.id = Revocation /\ Len(Since(said)) = 0 /\ Revokes => n \in server'.revoked
      <4> SUFFICES ASSUME Current.id = Revocation, Len(Since(said)) = 0, Revokes PROVE n \in server'.revoked
        OBVIOUS
      <4>1. Pending = About("revoke", Obtained(said))
        <5>1. Lost \notin ToSet(said) /\ Obtained(said) # NoToken /\ ~Obtaining(said) /\ Current.id \in Holders
          BY <3>1 DEF Holding
        <5>2. Pending = Uses(Current.id, said)
          BY <3>1, <5>1, AsksHolding DEF Pending, Request, Holding
        <5> QED
          BY <5>2 DEF Uses, Revocation
      <4>2. r.to = "revoke" /\ r.token = Obtained(said)
        BY <1>2, <4>1 DEF About
      <4> QED
        BY <1>6, <1>8, <3>1, <3>2, <4>2
    <3>6. n <= server'.minted
      BY <1>7, <1>10, <3>2, <3>3
    <3> QED
      BY <1>12, <2>0, <3>1, <3>2, <3>3, <3>4, <3>5, <3>6 DEF Carried
  <2> QED
    BY <2>1, <2>2
<1> QED
  BY <1>14, <1>15 DEF Memory

LEMMA NotRevoking == Holding /\ Current.id = Revocation => Pending.to # "mcp"
<1> SUFFICES ASSUME Holding, Current.id = Revocation PROVE Pending.to # "mcp"
  OBVIOUS
<1>1. Pending = Uses(Revocation, said)
  BY AsksHolding DEF Pending, Request, Holding
<1>2. Nothing.to # "mcp" /\ \A to, token : About(to, token).to = to
  BY DEF Nothing, About
<1> QED
  BY <1>1, <1>2 DEF Uses, Revocation

LEMMA CallsRemember ==
  ASSUME Memory, Chat, Seen, WireAuth, AnswerCall \/ LoseCall
  PROVE  Memory'
<1>1. /\ UNCHANGED <<vars, world, client>> /\ Pending.to = "mcp" /\ Knows(server)
      /\ server' \in {server, After(Pending, Nothing)} /\ HangUp
  BY DEF AnswerCall, LoseCall, WireAuth, Knows, Chat, Calling
<1>2. server'.minted = server.minted /\ server'.revoked = server.revoked
  BY <1>1, AfterRemembers
<1>3. said' = said \/ \E x : said' = Append(said, x)
  BY <1>1 DEF HangUp
<1>4. Current' = Current /\ Applies' = Applies /\ Pasted' = Pasted /\ Revokes' = Revokes
  BY <1>1, FormStays DEF Current, Applies, View, vars, Revokes
<1>5. Ledger'
  BY <1>1, <1>2, <1>4 DEF Memory, Ledger, vars
<1>6. ASSUME Holding', said' = said PROVE Carried'
  <2>1. opts' = opts /\ pc' = pc /\ next' = next
    BY <1>1 DEF vars
  <2>2. Obtained(said)' = Obtained(said) /\ Since(said)' = Since(said) /\ Holding
    BY <1>4, <1>6, <2>1 DEF Obtained, Since, Holding, Obtaining
  <2> QED
    BY <1>2, <1>4, <2>1, <2>2 DEF Memory, Carried
<1>7. ASSUME Holding', NEW x, said' = Append(said, x) PROVE Carried'
  <2>0. opts' = opts /\ pc' = pc /\ next' = next
    BY <1>1 DEF vars
  <2>1. ~Obtaining(said)
    <3> SUFFICES ASSUME Obtaining(said) PROVE FALSE
      OBVIOUS
    <3>1. pc = "checks" /\ next <= Len(Registry) /\ Applies /\ Current.id \in Holders
      BY <1>4, <1>7, <2>0 DEF Holding
    <3>2. Pending = Form("client_credentials")
      BY <3>1, Asked1 DEF Obtaining, Pending
    <3> QED
      BY <1>1, <3>2 DEF Form
  <2>2. /\ Holding /\ Obtained(said)' = Obtained(said) /\ Len(Since(said))' = Len(Since(said)) + 1
        /\ Len(Since(said)) \in Nat
    BY <1>1, <1>7, <2>1, HoldingGoesOn
  <2>3. Current.id = Revocation => FALSE
    BY <1>1, <2>2, NotRevoking DEF Holding
  <2> QED
    BY <1>2, <1>4, <2>0, <2>2, <2>3 DEF Memory, Carried
<1>8. Carried'
  BY <1>3, <1>6, <1>7 DEF Carried
<1> QED
  BY <1>5, <1>8 DEF Memory

LEMMA MemoryInit == InitWire => Memory
<1> SUFFICES ASSUME InitWire PROVE Memory
  OBVIOUS
<1>1. /\ server.revoked = {} /\ server.minted = 1 /\ next = 1 /\ pc = "start"
      /\ subject = IF opts.subjectToken THEN "active" ELSE "none"
  BY DEF InitWire, Init, Server
<1>2. opts.subjectToken \in BOOLEAN
  BY InvocationsAssumption DEF InvocationsAssumption, InvocationType, InitWire, Init
<1> QED
  BY <1>1, <1>2 DEF Memory, Ledger, Carried, Holding

LEMMA EndCheckRemembers ==
  ASSUME Memory, Chat, EndCheck
  PROVE  Memory'
<1>1. /\ pc = "checks" /\ next' = next + 1 /\ said' = <<>> /\ UNCHANGED <<opts, pc, server, world>>
      /\ subject' = IF subject = "active" /\ Pasted.n \in server.revoked THEN "dead" ELSE subject
  BY DEF EndCheck, inputs
<1>2. Fit(server') /\ Pasted.n = 1
  BY <1>1, PastedShown DEF Chat
<1>3. next' \in Nat \ {0} /\ \A j \in DOMAIN Registry : j <= next => j <= next'
  BY <1>1, RegistryAssumption DEF Memory, Ledger, RegistryAssumption
<1>4. Ledger'
  BY <1>1, <1>2, <1>3 DEF Memory, Ledger, Beforehand
<1> QED
  BY <1>1, <1>2, <1>4, CarriedAfresh DEF Memory

LEMMA MemoryStep ==
  Memory /\ Chat /\ Seen /\ WireAuth /\ WireCustody /\ [NextWire]_allVars => Memory'
<1> SUFFICES ASSUME Memory, Chat, Seen, WireAuth, WireCustody, [NextWire]_allVars PROVE Memory'
  OBVIOUS
<1>1. CASE AskAS
  BY <1>1, AskRemembers
<1>2. CASE AnswerCall \/ LoseCall
  BY <1>2, CallsRemember
<1>3. CASE EndCheck
  BY <1>3, EndCheckRemembers
<1>4. CASE Call \/ UNCHANGED allVars
  <2>1. UNCHANGED <<vars, world, client, said, server>>
    BY <1>4 DEF Call, allVars, wireVars
  <2>2. Current' = Current /\ Applies' = Applies /\ Pasted' = Pasted /\ Revokes' = Revokes
    BY <2>1, FormStays DEF Current, Applies, View, vars, Revokes
  <2>3. opts' = opts /\ pc' = pc /\ next' = next /\ subject' = subject
    BY <2>1 DEF vars
  <2>4. Ledger'
    BY <2>1, <2>2, <2>3 DEF Memory, Ledger
  <2>5. Obtained(said)' = Obtained(said) /\ Since(said)' = Since(said) /\ (Holding' <=> Holding)
    BY <2>1, <2>2, <2>3 DEF Obtained, Since, Holding, Obtaining
  <2>6. Carried'
    BY <2>1, <2>2, <2>3, <2>5 DEF Memory, Carried
  <2> QED
    BY <2>4, <2>6 DEF Memory
<1>5. CASE EndWalk \/ ResolveWithout \/ RegisterAnswered \/ RegisterUnanswered \/ Silent \/ Deregister
  <2>1. /\ UNCHANGED <<opts, world, next, subject>> /\ pc' # pc /\ said' = <<>>
        /\ server'.minted = server.minted /\ server'.revoked = server.revoked
        /\ pc' = "checks" => pc = "prelude"
        /\ pc' \in Beforehand => pc \in Beforehand
        /\ pc = "checks" => ~(next <= Len(Registry))
    <3>1. CASE EndWalk
      BY <3>1 DEF EndWalk, inputs, tokens, Beforehand
    <3>2. CASE ~EndWalk
      <4>1. next = Len(Registry) + 1 => ~(next <= Len(Registry))
        BY RegistryAssumption DEF RegistryAssumption
      <4>2. /\ pc \notin {"discover", "checks"} \/ (pc = "checks" /\ ~(next <= Len(Registry)))
            /\ UNCHANGED <<opts, world, next, subject, said>> /\ pc' # pc
            /\ pc' = "checks" => pc = "prelude"
            /\ pc' \in Beforehand => pc \in Beforehand
        BY <1>5, <3>2, <4>1 DEF ResolveWithout, RegisterAnswered, RegisterUnanswered, Silent, Deregister,
                NoRegistration, MayRegister, AcceptFlags, ReportRefusal, EndChecks, AttachVerdicts, Finish, Return,
                AfterResolve, WireCustody, inputs, tokens, wireVars, Beforehand
      <4>3. server' = server \/ server' = [server EXCEPT !.registeredAs = AssignedMethod(world.as)]
        BY <1>5, <3>2 DEF ResolveWithout, RegisterAnswered, RegisterUnanswered, Silent, Deregister, wireVars
      <4>4. server'.minted = server.minted /\ server'.revoked = server.revoked
        BY <4>3 DEF WireAuth
      <4> QED
        BY <4>2, <4>4, QuietCalls
    <3> QED
      BY <3>1, <3>2
  <2>2. Ledger'
    BY <2>1 DEF Memory, Ledger, Beforehand
  <2>3. Carried'
    <3> SUFFICES ASSUME Holding' PROVE Carried'
      BY DEF Carried
    <3>1. opts.subjectToken /\ Obtained(said)' = Pasted' /\ Pasted.n' = 1 /\ Len(Since(said))' = 0
      <4>1. opts'.subjectToken
        BY <2>1 DEF Holding, Obtaining
      <4> QED
        BY <2>1, <4>1 DEF Obtained, Since, Pasted, SubjectToken, NoToken
    <3>2. server.minted \in Nat \ {0}
      BY DEF Chat, Fit
    <3> QED
      BY <2>1, <3>1, <3>2 DEF Carried
  <2> QED
    BY <2>2, <2>3 DEF Memory
<1> QED
  BY <1>1, <1>2, <1>3, <1>4, <1>5 DEF NextWire

\* So the next request is about a token the server has not forgotten, with a proof it
\* has not had.
LEMMA TimelyNow == Memory /\ Chat /\ Seen /\ CallInv => Timely
<1> SUFFICES ASSUME Memory, Chat, Seen, CallInv PROVE Timely
  OBVIOUS
<1>1. server.revoked \subseteq Nat \ {0}
  BY DEF Chat, Fit
<1>2. ASSUME Holding
      PROVE  /\ opts.subjectToken => Obtained(said).n = 1
             /\ ~opts.subjectToken => Obtained(said).n \in Nat /\ Obtained(said).n > 1
             /\ ~opts.subjectToken /\ Current.id # Revocation => Obtained(said).n \notin server.revoked
             /\ Current.id = Revocation /\ Len(Since(said)) > 0 /\ Revokes => Obtained(said).n \in server.revoked
  <2>1. opts.subjectToken => Obtained(said) = Pasted
    BY DEF Obtained
  <2> QED
    BY <1>2, <2>1, PastedShown, ObtainedFit DEF Memory, Carried, Chat
<1>3. Honoured(server, Pending)
  <2>1. ASSUME Pending.to = "introspect", Current.id = "rfc7662.introspect.active"
        PROVE  Pending.token.n \notin server.revoked
    <3>1. Holding /\ Pending.token = Obtained(said) /\ Current.id # Revocation
      BY <2>1, PendingToken DEF Revocation
    <3>2. server.revoked = {}
      <4> SUFFICES ASSUME server.revoked # {} PROVE FALSE
        OBVIOUS
      <4>1. PICK j \in DOMAIN Registry : j <= next /\ Registry[j].id = Revocation
        BY <3>1 DEF Memory, Ledger, Holding
      <4>2. next \in DOMAIN Registry
        <5>1. next \in Nat \ {0} /\ next <= Len(Registry)
          BY <3>1 DEF Memory, Ledger, Holding
        <5> QED
          BY <5>1, RegistryAssumption DEF RegistryAssumption
      <4>3. next < j /\ next \in Nat /\ j \in Nat
        <5>1. Registry[next].id \in SubjectTokenRows \ {"smoke.present.token_accepted"}
          BY <2>1 DEF Current, SubjectTokenRows
        <5>2. next < j
          BY <4>1, <4>2, <5>1, RevokedLateAssumption
        <5> QED
          BY <4>1, <4>2, <5>2, RegistryAssumption DEF RegistryAssumption
      <4> QED
        BY <4>1, <4>3
    <3> QED
      BY <3>2
  <2>2. ASSUME Pending.to = "introspect", Current.id = Revocation, Revokes
        PROVE  Pending.token.n \in server.revoked
    <3>1. Holding /\ Pending.token = Obtained(said) /\ Len(Since(said)) = 1
      BY <2>2, PendingToken
    <3>2. Len(Since(said)) > 0
      BY <3>1
    <3> QED
      BY <1>2, <2>2, <3>1, <3>2
  <2>3. ASSUME Pending.to = "mcp"
        PROVE  Pending.token.n \in server.revoked <=> subject = "dead" /\ Pending.token.n = 1
    <3>1. CASE Pending.token \in {NoToken, Forged}
      BY <1>1, <3>1, ForgedShown
    <3>2. CASE Holding /\ Pending.token = Obtained(said) /\ Current.id # Revocation
      <4>1. opts.subjectToken => (1 \in server.revoked <=> subject = "dead")
        BY <3>2 DEF Memory, Ledger
      <4>2. ~opts.subjectToken => subject # "dead"
        BY DEF Memory, Ledger
      <4> QED
        BY <1>2, <3>2, <4>1, <4>2
    <3> QED
      BY <2>3, <3>1, <3>2, PendingToken
  <2> QED
    BY <2>1, <2>2, <2>3 DEF Honoured, Revokes
<1>4. ASSUME Pending.to = "mcp", ~OnCall \/ phase = "modern"
      PROVE  Unseen(server, Pending)
  <2>1. Pending.proof = NoProof \/ Pending.proof.jti = Turn
    BY <1>4, PendingProves DEF Proves
  <2>2. ~Repeating
    <3>1. phase = "modern" => asked = <<ModernVersion>>
      BY DEF CallInv, Progress
    <3>2. Len(<<ModernVersion>>) = 1
      OBVIOUS
    <3> QED
      BY <1>4, <3>1, <3>2 DEF Repeating
  <2> QED
    BY <2>1, <2>2, TurnIsNew DEF Unseen
<1> QED
  BY <1>3, <1>4 DEF Timely

LEMMA ChatAlways == SpecWire => [](Chat /\ Memory /\ Seen /\ WireAuth /\ CallInv /\ WireCustody)
<1> QED
  BY ChatInit, ChatStep, MemoryInit, MemoryStep, TimelyNow, SeenAlways, WireCustodyAlways, PTL DEF SpecWire

----------------------------------------------------------------------------
(***************************************************************************)
(* What a run knows of its servers.                                        *)
(***************************************************************************)
\* All a walk can find; a server the document names in vain has nothing to find.
Findable ==
  Challenge(world.rs) \cup handlePRM(world.rs) \cup {"noOfflineAccess", "issuer"}
    \cup (IF opts.target /\ "UnresolvableAuthServer" \in world.rs THEN {} ELSE handleDiscovery(world.as))

\* It finds the whole of a document or nothing of it.
Found ==
  /\ disc \subseteq Findable
  /\ disc \cap {"tokenEndpoint", "dpop"} # {} => handleDiscovery(world.as) \subseteq disc

Challenged ==
  opts.target /\ Lossless /\ ~Walking =>
    ("challenge" \in disc <=>
       Switches \cap {"OmitChallenge", "ListsLegacyOnly", "ListsItsRefusal"} = {})

Ground ==
  /\ world \in Worlds /\ opts = world.opts
  /\ creds \subseteq {"subjectToken", "actorToken"}
  /\ plan.facts \subseteq RegisteredFacts(world.as)
  /\ plan.registered => (client.secret <=> "PublicClientsOnly" \notin world.as)
  /\ Found /\ Challenged

LEMMA GroundInit == InitWire => Ground
<1> SUFFICES ASSUME InitWire PROVE Ground
  OBVIOUS
<1>1. world \in Worlds /\ opts = world.opts /\ disc = {} /\ plan = NoPlan /\ Walking
        /\ creds \subseteq {"subjectToken", "actorToken"}
  BY DEF InitWire, Init, Walking
<1>2. plan.facts = {} /\ ~plan.registered
  BY <1>1 DEF NoPlan
<1> QED
  BY <1>1, <1>2 DEF Ground, Found, Challenged

\* A violation is one server's.
LEMMA NotOfTheResource == ASViolations \cap (RSViolations \cup RSVariants \cup ExternalRS) = {}
BY DEF ASViolations, RSViolations, RSVariants, ExternalRS

LEMMA NotOfTheIssuer ==
  (RSViolations \cup ExternalRS) \cap (ASViolations \cup ASVariants \cup ExternalAS) = {}
BY DEF ASViolations, ASVariants, ExternalAS, RSViolations, ExternalRS

LEMMA SwitchedOn ==
  ASSUME world \in Worlds, NEW x \in Switches
  PROVE  /\ x \in ASViolations => x \in world.as
         /\ x \in RSViolations \cup ExternalRS => x \in world.rs
<1>1. /\ world.as \subseteq ASViolations \cup ASVariants \cup ExternalAS
      /\ world.rs \subseteq RSViolations \cup RSVariants \cup ExternalRS
  <2>1. world \in WorldType
    BY WorldsAssumption DEF WorldsAssumption
  <2> QED
    BY <2>1 DEF WorldType
<1> QED
  BY <1>1, NotOfTheResource, NotOfTheIssuer DEF Switches

\* What an MCP request without a token is answered.
Bare == Present(NoToken, NoProof)

LEMMA BareShown == Bare.to = "mcp" /\ Bare.token = NoToken /\ Bare # Nothing
BY DEF Bare, Present, Nothing

LEMMA Unauthorized ==
  ASSUME NEW s
  PROVE  Authenticated(world.rs, s, Bare) = Reply(401, Challenge(world.rs))
BY BareShown DEF Authenticated

LEMMA ReplyShown ==
  \A code, headers : LET a == Reply(code, headers) IN
    a.status = code /\ a.headers = headers /\ ~ModernError(a)
BY DEF Reply, ModernError

LEMMA RefusedShown ==
  \A listed : LET a == Refused(listed) IN
    /\ a.status = 400 /\ a.headers = {} /\ ModernError(a)
    /\ a.rpc = "unsupportedVersion" /\ a.supported = listed
BY DEF Refused, ModernError

LEMMA BareAnswered ==
  ASSUME NEW s, NEW at
  PROVE  /\ Speaks(world.rs, at) => handleMCP(world.rs, s, Bare, at) = Reply(401, Challenge(world.rs))
         /\ ~Speaks(world.rs, at) => /\ handleMCP(world.rs, s, Bare, at) = TurnedAway(world.rs)
                                     /\ TurnedAway(world.rs).headers = {}
<1>1. Authenticated(world.rs, s, Bare).status # 200
  BY Unauthorized, ReplyShown
<1>2. TurnedAway(world.rs).headers = {}
  BY ReplyShown, RefusedShown DEF TurnedAway
<1> QED
  BY <1>1, <1>2, Unauthorized DEF handleMCP

LEMMA Headed ==
  ASSUME NEW a, CallAnswer(Bare, a)
  PROVE  a.headers \subseteq Challenge(world.rs)
<1>1. \A s, at : handleMCP(world.rs, s, Bare, at).headers \subseteq Challenge(world.rs)
  BY BareAnswered, ReplyShown
<1> QED
  BY <1>1 DEF CallAnswer

LEMMA RetryNewest ==
  /\ Retry({NewerVersion}) = NewerVersion /\ NewerVersion # NoVersion
  /\ Retry({LegacyVersion}) = NoVersion
  /\ Retry({LegacyVersion, ModernVersion}) = NoVersion
<1>1. /\ ModernVersion \in Nat \ {NoVersion} /\ LegacyVersion \in Nat \ {NoVersion}
      /\ NewerVersion \in Nat \ {NoVersion} /\ NewerVersion > ModernVersion /\ LegacyVersion < ModernVersion
      /\ {NewerVersion, LegacyVersion, ModernVersion} \subseteq Versions
  BY VersionsAssumption, NewerAssumption DEF VersionsAssumption, NewerAssumption
<1>2. HighestModern({NewerVersion}) = NewerVersion
  <2>1. {NewerVersion} \in SUBSET Versions
    BY <1>1
  <2>2. ~(NewerVersion < ModernVersion)
    BY <1>1
  <2> QED
    BY <2>1, <2>2, HighestModernIsNewest
<1>3. HighestModern({LegacyVersion}) = NoVersion
  <2>1. {LegacyVersion} \in SUBSET Versions
    BY <1>1
  <2>2. ~(LegacyVersion >= ModernVersion)
    BY <1>1
  <2> QED
    BY <2>2 DEF HighestModern
<1>4. HighestModern({LegacyVersion, ModernVersion}) = ModernVersion
  <2>1. {LegacyVersion, ModernVersion} \in SUBSET Versions
    BY <1>1
  <2>2. ~(ModernVersion < ModernVersion) /\ ~(LegacyVersion >= ModernVersion)
    BY <1>1
  <2>3. {v \in {LegacyVersion, ModernVersion} : v >= ModernVersion} = {ModernVersion}
    BY <1>1, <2>2
  <2> QED
    BY <2>1, <2>2, <2>3, HighestModernIsNewest
<1> QED
  BY <1>1, <1>2, <1>3, <1>4 DEF Retry, NoVersion

\* A server that challenges a revision it speaks is heard to, whatever it is asked in
\* first.
LEMMA ChallengeHeard ==
  ASSUME world \in Worlds, Lossless, NEW a, CallAnswer(Bare, a)
  PROVE  "challenge" \in a.headers <=>
           world.rs \cap {"OmitChallenge", "ListsLegacyOnly", "ListsItsRefusal"} = {}
<1>1. PICK s, t, first :
        /\ first = handleMCP(world.rs, s, Bare, ModernVersion)
        /\ \/ a = first /\ Second(first) = NoVersion
           \/ Second(first) # NoVersion /\ a = handleMCP(world.rs, t, Bare, Second(first))
  BY DEF CallAnswer
<1> DEFINE lists == world.rs \cap {"ListsLegacyOnly", "ListsItsRefusal"}
<1>2. "challenge" \in Challenge(world.rs) <=> "OmitChallenge" \notin world.rs
  BY DEF Challenge
<1>3. \/ a = Reply(401, Challenge(world.rs)) /\ lists = {}
      \/ a.headers = {} /\ lists # {}
  <2>1. CASE Speaks(world.rs, ModernVersion)
    <3>1. first = Reply(401, Challenge(world.rs))
      BY <1>1, <2>1, BareAnswered
    <3>2. Second(first) = NoVersion
      BY <3>1, ReplyShown DEF Second, Ambiguous
    <3>3. lists = {}
      BY <2>1, VersionsAssumption DEF Speaks, VersionsAssumption
    <3> QED
      BY <1>1, <3>1, <3>2, <3>3
  <2>2. CASE ~Speaks(world.rs, ModernVersion)
    <3>1. first = TurnedAway(world.rs) /\ first.headers = {}
      BY <1>1, <2>2, BareAnswered
    <3>2. CASE "NewerOnly" \in world.rs
      <4>1. first = Refused({NewerVersion})
        BY <3>1, <3>2 DEF TurnedAway
      <4>2. Second(first) = NewerVersion /\ NewerVersion # NoVersion
        BY <4>1, RefusedShown, RetryNewest DEF Second, Ambiguous
      <4>3. world.rs \cap {"ListsLegacyOnly", "ListsItsRefusal", "LegacyFirst"} = {}
        BY <3>2, WorldsAssumption DEF WorldsAssumption
      <4>4. Speaks(world.rs, NewerVersion)
        BY <4>3 DEF Speaks
      <4> QED
        BY <1>1, <4>2, <4>3, <4>4, BareAnswered
    <3>3. CASE "NewerOnly" \notin world.rs /\ "ListsLegacyOnly" \in world.rs
      <4>1. first = Refused({LegacyVersion})
        BY <3>1, <3>3 DEF TurnedAway
      <4>2. Second(first) = NoVersion
        BY <4>1, RefusedShown, RetryNewest DEF Second, Ambiguous
      <4> QED
        BY <1>1, <3>1, <3>3, <4>2
    <3>4. CASE "NewerOnly" \notin world.rs /\ "ListsLegacyOnly" \notin world.rs /\ "ListsItsRefusal" \in world.rs
      <4>1. first = Refused({LegacyVersion, ModernVersion})
        BY <3>1, <3>4 DEF TurnedAway
      <4>2. Second(first) = NoVersion
        BY <4>1, RefusedShown, RetryNewest DEF Second, Ambiguous
      <4> QED
        BY <1>1, <3>1, <3>4, <4>2
    <3>5. CASE "NewerOnly" \notin world.rs /\ lists = {}
      <4>1. first = Reply(400, {})
        BY <3>1, <3>5 DEF TurnedAway
      <4>2. Second(first) = LegacyVersion /\ LegacyVersion # NoVersion
        BY <4>1, ReplyShown, SecondAsked DEF Ambiguous
      <4>3. Speaks(world.rs, LegacyVersion)
        BY <3>5 DEF Speaks
      <4> QED
        BY <1>1, <3>5, <4>2, <4>3, BareAnswered
    <3> QED
      BY <3>2, <3>3, <3>4, <3>5
  <2> QED
    BY <2>1, <2>2
<1>4. world.rs \cap {"OmitChallenge", "ListsLegacyOnly", "ListsItsRefusal"} = {} <=>
        lists = {} /\ "OmitChallenge" \notin world.rs
  OBVIOUS
<1> HIDE DEF lists
<1> QED
  BY <1>2, <1>3, <1>4, ReplyShown

----------------------------------------------------------------------------
(***************************************************************************)
(* What a walk finds.                                                      *)
(***************************************************************************)
LEMMA Before ==
  ASSUME Seen, NEW k \in DOMAIN said, NEW talk, talk = SubSeq(said, 1, k - 1)
  PROVE  /\ k \in 1..Len(said) /\ Len(said) \in Nat /\ Len(talk) = k - 1
         /\ \A j \in 1..(k - 1) : talk[j] = said[j]
         /\ k = 1 => talk = <<>>
<1>1. PICK S : said \in Seq(S)
  BY DEF Seen
<1>2. k \in 1..Len(said) /\ Len(said) \in Nat /\ k - 1 \in 0..Len(said)
  BY <1>1
<1>3. talk = [j \in 1..(k - 1) |-> said[j]] /\ Len(talk) = k - 1
  BY <1>1, <1>2
<1>4. k = 1 => talk = <<>>
  <2>1. k = 1 => k - 1 = 0
    OBVIOUS
  <2> QED
    BY <1>1, <2>1
<1> QED
  BY <1>2, <1>3, <1>4

\* At each point the answer is to what is asked there.
LEMMA SaidSo ==
  ASSUME Dialogue, Seen, NEW k \in DOMAIN said
  PROVE  \E talk, r :
           /\ talk = SubSeq(said, 1, k - 1) /\ r = Request(talk) /\ r.to # "nobody"
           /\ said[k] = Lost /\ Lossless => Dark(r)
           /\ said[k] # Lost => ~Dark(r) /\ AnswerTo(r, said[k])
<1>1. PICK talk, a : talk = SubSeq(said, 1, k - 1) /\ a = said[k]
  OBVIOUS
<1>2. Told(talk, a)
  BY <1>1 DEF Dialogue
<1>3. PICK r : /\ r = Request(talk) /\ r.to # "nobody"
               /\ a = Lost /\ Lossless => Dark(r)
               /\ a # Lost => ~Dark(r) /\ AnswerTo(r, a)
  BY <1>2, Zenon DEF Told
<1>4. /\ said[k] = Lost /\ Lossless => Dark(r)
      /\ said[k] # Lost => ~Dark(r) /\ AnswerTo(r, said[k])
  BY <1>1, <1>3
<1> QED
  BY <1>1, <1>3, <1>4, Zenon

LEMMA Documents ==
  /\ \A s : Answered(s, Get("prm")).facts = handlePRM(world.rs)
  /\ \A s : Answered(s, Get("metadata")).facts = handleDiscovery(world.as)
  /\ \A s : Answered(s, Get("openid")).facts = {}
  /\ \A document \in {"prm", "metadata", "openid"} : Get(document).to = document /\ Get(document) # Nothing
BY DEF Answered, Get, Status, Nothing

\* What a walk asks for at each point.
LEMMA WalkAsks ==
  ASSUME NEW talk, NEW r, r = WalkRequest(talk), r.to # "nobody", Len(talk) \in Nat
  PROVE  /\ opts.target /\ Len(talk) = 0 => r = Bare
         /\ opts.target /\ Len(talk) = 1 => r = Get("prm")
         /\ ~opts.target \/ Len(talk) > 1 => r \in {Get("metadata"), Get("openid")}
<1>1. Nothing.to = "nobody"
  BY DEF Nothing
<1> DEFINE n == Len(talk)
<1>2. CASE opts.target /\ n = 0
  <2>1. r = Bare
    BY <1>1, <1>2 DEF WalkRequest, Bare
  <2> QED
    BY <1>2, <2>1
<1>3. CASE opts.target /\ n = 1
  <2>1. r = Get("prm")
    BY <1>1, <1>3 DEF WalkRequest
  <2> QED
    BY <1>3, <2>1
<1>4. CASE opts.target /\ n > 1
  <2>1. n # 0 /\ n # 1 /\ ~(n < 2)
    <3>1. n \in Nat /\ n > 1
      BY <1>4
    <3> HIDE DEF n
    <3> QED
      BY <3>1
  <2>2. r \in {Nothing, Get("metadata"), Get("openid")}
    BY <1>4, <2>1, Zenon DEF WalkRequest
  <2> QED
    BY <1>1, <1>4, <2>1, <2>2
<1>5. CASE ~opts.target
  <2>1. ~(n < 0)
    <3>1. n \in Nat
      OBVIOUS
    <3> HIDE DEF n
    <3> QED
      BY <3>1
  <2>2. r \in {Nothing, Get("metadata"), Get("openid")}
    BY <1>5, <2>1, Zenon DEF WalkRequest
  <2> QED
    BY <1>1, <1>5, <2>2
<1> QED
  BY <1>2, <1>3, <1>4, <1>5

LEMMA WalkAnswers ==
  ASSUME Dialogue, Seen, pc = "discover", NEW k \in DOMAIN said
  PROVE  /\ opts.target /\ k = 1 => IF said[k] = Lost THEN ~Lossless ELSE CallAnswer(Bare, said[k])
         /\ opts.target /\ k = 2 => IF said[k] = Lost THEN ~Lossless ELSE said[k].facts = handlePRM(world.rs)
         /\ (~opts.target \/ k > 2) /\ said[k] # Lost =>
              /\ said[k].facts \in {{}, handleDiscovery(world.as)}
              /\ ~(opts.target /\ "UnresolvableAuthServer" \in world.rs)
<1>1. PICK talk, r :
        /\ talk = SubSeq(said, 1, k - 1) /\ r = Request(talk) /\ r.to # "nobody"
        /\ said[k] = Lost /\ Lossless => Dark(r)
        /\ said[k] # Lost => ~Dark(r) /\ AnswerTo(r, said[k])
  BY SaidSo
<1>0. r = WalkRequest(talk)
  BY <1>1 DEF Request
<1>c. k \in 1..Len(said) /\ Len(said) \in Nat /\ Len(talk) = k - 1
  BY <1>1, Before
<1>2. r = WalkRequest(talk) /\ Len(talk) = k - 1 /\ k \in Nat \ {0} /\ Len(talk) \in Nat
  BY <1>0, <1>c
<1>a. /\ k = 1 => Len(talk) = 0
      /\ k = 2 => Len(talk) = 1
      /\ k > 2 => Len(talk) > 1
  BY <1>2
<1>b. /\ opts.target /\ k = 1 => r = Bare
      /\ opts.target /\ k = 2 => r = Get("prm")
      /\ ~opts.target \/ k > 2 => r \in {Get("metadata"), Get("openid")}
  BY <1>1, <1>2, <1>a, WalkAsks
<1>3. CASE opts.target /\ k = 1
  <2>1. r = Bare
    BY <1>3, <1>b
  <2>2. r.to = "mcp" /\ ~Dark(r)
    BY <2>1, BareShown DEF Dark
  <2> QED
    BY <1>1, <1>3, <2>1, <2>2 DEF AnswerTo
<1>4. CASE opts.target /\ k = 2
  <2>1. r = Get("prm")
    BY <1>4, <1>b
  <2>2. r.to = "prm" /\ ~Dark(r)
    BY <2>1, Documents DEF Dark
  <2> QED
    BY <1>1, <1>4, <2>1, <2>2, Documents DEF AnswerTo
<1>5. CASE (~opts.target \/ k > 2) /\ said[k] # Lost
  <2>1. r \in {Get("metadata"), Get("openid")}
    BY <1>5, <1>b
  <2>2. r.to \in {"metadata", "openid"}
    BY <2>1, Documents
  <2>3. ~(opts.target /\ "UnresolvableAuthServer" \in world.rs)
    BY <1>1, <1>5, <2>2 DEF Dark
  <2>4. PICK s : said[k] = Answered(s, r)
    BY <1>1, <1>5, <2>2 DEF AnswerTo
  <2> QED
    BY <1>5, <2>1, <2>3, <2>4, Documents
<1> QED
  BY <1>3, <1>4, <1>5, Before

\* A walk is over when it has what it needs, or cannot have it.
LEMMA WalkDone ==
  ASSUME Seen, WalkRequest(said) = Nothing
  PROVE  /\ Len(said) \in Nat \ {0} /\ DOMAIN said = 1..Len(said)
         /\ opts.target /\ said[1] # Lost => Len(said) > 1
         /\ opts.target /\ said[1] # Lost /\ said[2] # Lost /\ "prmServers" \in said[2].facts => Len(said) > 2
<1>1. PICK S : said \in Seq(S)
  BY DEF Seen
<1>2. Len(said) \in Nat /\ DOMAIN said = 1..Len(said)
  BY <1>1
<1>3. Bare # Nothing /\ Get("prm") # Nothing /\ Get("metadata") # Nothing
  BY BareShown, Documents
<1>4. Len(said) # 0
  BY <1>3 DEF WalkRequest, Bare
<1>5. opts.target /\ said[1] # Lost => Len(said) # 1
  BY <1>3 DEF WalkRequest
<1>6. opts.target /\ said[1] # Lost /\ said[2] # Lost /\ "prmServers" \in said[2].facts => Len(said) # 2
  BY <1>3 DEF WalkRequest
<1> QED
  BY <1>2, <1>4, <1>5, <1>6

\* What is found is kept apart: the challenge, the resource's document, the issuer's.
LEMMA FactsApart ==
  /\ {"tokenEndpoint", "dpop"} \cap (Challenge(world.rs) \cup handlePRM(world.rs) \cup {"noOfflineAccess", "issuer"}) = {}
  /\ "challenge" \notin handlePRM(world.rs) \cup handleDiscovery(world.as) \cup {"noOfflineAccess", "issuer"}
<1>1. {"tokenEndpoint", "dpop"} \cap Challenge(world.rs) = {}
  BY DEF Challenge
<1>2. "tokenEndpoint" \notin handlePRM(world.rs) /\ "dpop" \notin handlePRM(world.rs)
        /\ "challenge" \notin handlePRM(world.rs)
  BY DEF handlePRM
<1>3. "challenge" \notin handleDiscovery(world.as)
  BY DEF handleDiscovery
<1> QED
  BY <1>1, <1>2, <1>3

LEMMA WalkFinds ==
  ASSUME Dialogue, Seen, world \in Worlds, pc = "discover", Pending = Nothing, ~Walked.nil
  PROVE  /\ Walked.facts \subseteq Findable
         /\ Walked.facts \cap {"tokenEndpoint", "dpop"} # {} => handleDiscovery(world.as) \subseteq Walked.facts
         /\ opts.target => /\ CallAnswer(Bare, said[1])
                           /\ "challenge" \in Walked.facts <=> "challenge" \in said[1].headers
<1> DEFINE last == said[Len(said)]
           audible == Challenge(world.rs) \cup handlePRM(world.rs) \cup {"noOfflineAccess", "issuer"}
<1>1. WalkRequest(said) = Nothing
  BY DEF Pending, Request
<1>2. /\ Len(said) \in Nat \ {0} /\ DOMAIN said = 1..Len(said)
      /\ opts.target /\ said[1] # Lost => Len(said) > 1
      /\ opts.target /\ said[1] # Lost /\ said[2] # Lost /\ "prmServers" \in said[2].facts => Len(said) > 2
  BY <1>1, WalkDone
<1>3. 1 \in DOMAIN said /\ Len(said) \in DOMAIN said /\ (Len(said) > 1 => 2 \in DOMAIN said)
  BY <1>2
<1> DEFINE resource == said[1].headers \cup {"noOfflineAccess"} \cup said[2].facts
<1>4. ASSUME opts.target
      PROVE  /\ CallAnswer(Bare, said[1]) /\ said[1] # Lost /\ said[2] # Lost
             /\ resource \subseteq audible
             /\ "challenge" \in resource <=> "challenge" \in said[1].headers
  <2>1. said[1] # Lost /\ said[2] # Lost
    BY <1>4 DEF Walked, Unreachable
  <2>2. 2 \in DOMAIN said
    BY <1>2, <1>3, <1>4, <2>1
  <2>3. CallAnswer(Bare, said[1])
    BY <1>3, <1>4, <2>1, WalkAnswers
  <2>4. said[2].facts = handlePRM(world.rs)
    BY <1>4, <2>1, <2>2, WalkAnswers
  <2>5. said[1].headers \subseteq Challenge(world.rs)
    BY <2>3, Headed
  <2> QED
    BY <2>1, <2>3, <2>4, <2>5, FactsApart
<1>5. ASSUME opts.target => "prmServers" \in said[2].facts, ~Lacks(last)
      PROVE  last.facts = handleDiscovery(world.as) /\ ~(opts.target /\ "UnresolvableAuthServer" \in world.rs)
  <2>1. ~opts.target \/ Len(said) > 2
    BY <1>2, <1>4, <1>5
  <2>2. last # Lost /\ "tokenEndpoint" \in last.facts
    BY <1>5 DEF Lacks
  <2> QED
    BY <1>3, <2>1, <2>2, WalkAnswers
<1> DEFINE found == IF opts.target THEN resource ELSE {}
<1>7. /\ found \subseteq audible
      /\ opts.target => ("challenge" \in found <=> "challenge" \in said[1].headers)
      /\ opts.target => CallAnswer(Bare, said[1])
  BY <1>4
<1>8. audible \subseteq Findable
  BY DEF Findable
<1>9. CASE opts.target /\ "prmServers" \notin said[2].facts
  <2>1. Walked = Walk(FALSE, found)
    BY <1>4, <1>9 DEF Walked
  <2> HIDE DEF audible, found
  <2> QED
    BY <1>7, <1>8, <2>1, FactsApart DEF Walk, audible
<1>10. CASE ~(opts.target /\ "prmServers" \notin said[2].facts) /\ Lacks(last)
  <2>1. Walked = Walk(FALSE, found \cup {"issuer"})
    BY <1>4, <1>10 DEF Walked
  <2> HIDE DEF audible, found
  <2> QED
    BY <1>7, <1>8, <2>1, FactsApart DEF Walk, audible
<1>11. CASE ~(opts.target /\ "prmServers" \notin said[2].facts) /\ ~Lacks(last)
  <2>1. Walked = Walk(TRUE, found \cup {"issuer"} \cup last.facts)
    BY <1>4, <1>11 DEF Walked
  <2>2. last.facts = handleDiscovery(world.as) /\ handleDiscovery(world.as) \subseteq Findable
    BY <1>5, <1>11 DEF Findable
  <2> HIDE DEF audible, found, last
  <2> QED
    BY <1>7, <1>8, <2>1, <2>2, FactsApart DEF Walk, audible
<1> QED
  BY <1>9, <1>10, <1>11

LEMMA WalkReaches ==
  ASSUME Dialogue, Seen, pc = "discover", Pending = Nothing, opts.target, Lossless
  PROVE  ~Walked.nil
<1>1. WalkRequest(said) = Nothing
  BY DEF Pending, Request
<1>2. /\ Len(said) \in Nat \ {0} /\ DOMAIN said = 1..Len(said)
      /\ said[1] # Lost => Len(said) > 1
  BY <1>1, WalkDone
<1>3. said[1] # Lost
  <2>1. 1 \in DOMAIN said
    BY <1>2
  <2> QED
    BY <2>1, WalkAnswers
<1>4. said[2] # Lost
  <2>1. 2 \in DOMAIN said
    BY <1>2, <1>3
  <2> QED
    BY <2>1, WalkAnswers
<1>5. \A ok, facts : ~Walk(ok, facts).nil
  BY DEF Walk
<1> QED
  BY <1>3, <1>4, <1>5 DEF Walked

LEMMA EndWalkGrounds ==
  ASSUME Ground, Dialogue, Seen, EndWalk
  PROVE  Ground'
<1>1. /\ pc = "discover" /\ Pending = Nothing /\ pc' = "resolve"
      /\ UNCHANGED <<world, opts, creds, plan, client, budget>>
      /\ disc' = IF Walked.nil THEN disc ELSE Walked.facts
  BY DEF EndWalk, Over, Learn, inputs
<1>2. Findable' = Findable /\ Lossless' = Lossless /\ Switches' = Switches
  BY <1>1 DEF Findable, Lossless, Switches
<1>3. world \in Worlds
  BY DEF Ground
<1>4. Found'
  BY <1>1, <1>2, <1>3, WalkFinds DEF Ground, Found
<1>5. Challenged'
  <2> SUFFICES ASSUME opts.target, Lossless
               PROVE  "challenge" \in disc' <=>
                        Switches \cap {"OmitChallenge", "ListsLegacyOnly", "ListsItsRefusal"} = {}
    BY <1>1, <1>2 DEF Challenged
  <2>1. ~Walked.nil
    BY <1>1, WalkReaches
  <2>2. CallAnswer(Bare, said[1]) /\ ("challenge" \in disc' <=> "challenge" \in said[1].headers)
    BY <1>1, <1>3, <2>1, WalkFinds
  <2>3. "challenge" \in disc' <=>
          world.rs \cap {"OmitChallenge", "ListsLegacyOnly", "ListsItsRefusal"} = {}
    BY <1>3, <2>2, ChallengeHeard
  <2>4. {"OmitChallenge", "ListsLegacyOnly", "ListsItsRefusal"} \subseteq RSViolations \cup ExternalRS
    BY DEF RSViolations, ExternalRS
  <2>5. \A x \in {"OmitChallenge", "ListsLegacyOnly", "ListsItsRefusal"} : x \in Switches <=> x \in world.rs
    BY <1>3, <2>4, SwitchedOn DEF Switches
  <2> QED
    BY <2>3, <2>5
<1> QED
  BY <1>1, <1>4, <1>5 DEF Ground

LEMMA GroundStays ==
  ASSUME Ground, UNCHANGED <<world, opts, creds, disc>>, Lossless' => Lossless, Walking => Walking',
         plan'.facts \subseteq RegisteredFacts(world.as),
         plan'.registered => (client'.secret <=> "PublicClientsOnly" \notin world.as)
  PROVE  Ground'
<1>1. Findable' = Findable /\ Switches' = Switches
  BY DEF Findable, Switches
<1> QED
  BY <1>1 DEF Ground, Found, Challenged

LEMMA GroundStep ==
  Ground /\ Chat /\ Seen /\ WireCustody /\ [NextWire]_allVars => Ground'
<1> SUFFICES ASSUME Ground, Chat, Seen, WireCustody, [NextWire]_allVars PROVE Ground'
  OBVIOUS
<1>0. \A p : p \in {NoPlan, [NoPlan EXCEPT !.client = opts.clientID], [NoPlan EXCEPT !.regError = TRUE]} =>
        p.facts = {} /\ ~p.registered
  BY DEF NoPlan
<1>1. CASE EndWalk
  BY <1>1, EndWalkGrounds DEF Chat
<1>2. CASE EndCheck \/ AskAS \/ Call \/ AnswerCall \/ LoseCall \/ Deregister \/ Silent \/ UNCHANGED allVars
  <2>1. UNCHANGED <<world, opts, creds, disc, plan, client>> /\ budget' \in {budget, budget - 1}
    BY <1>2 DEF EndCheck, AskAS, Call, AnswerCall, LoseCall, Deregister, Silent, AcceptFlags, ReportRefusal,
                EndChecks, AttachVerdicts, Finish, allVars, vars, wireVars, inputs
  <2>2. Walking => Walking'
    BY <1>2 DEF EndCheck, AskAS, Call, AnswerCall, LoseCall, Deregister, Silent, AcceptFlags, ReportRefusal,
                EndChecks, AttachVerdicts, Finish, Return, allVars, vars, Walking, WireCustody
  <2>3. Lossless' => Lossless
    BY <2>1, LossesStay
  <2> QED
    BY <2>1, <2>2, <2>3, GroundStays DEF Ground
<1>3. CASE ResolveWithout \/ RegisterAnswered \/ RegisterUnanswered
  <2>1. UNCHANGED <<world, opts, creds, disc>> /\ budget' \in {budget, budget - 1} /\ ~Walking
    BY <1>3 DEF ResolveWithout, RegisterAnswered, RegisterUnanswered, NoRegistration, MayRegister, inputs, Walking
  <2>2. /\ plan'.facts \subseteq RegisteredFacts(world.as)
        /\ plan'.registered => (client'.secret <=> "PublicClientsOnly" \notin world.as)
    <3>1. CASE ResolveWithout \/ RegisterUnanswered
      <4>1. plan' \in {[NoPlan EXCEPT !.client = opts.clientID], [NoPlan EXCEPT !.regError = TRUE]}
        BY <3>1 DEF ResolveWithout, RegisterUnanswered, NoRegistration
      <4> QED
        BY <1>0, <4>1
    <3>2. CASE RegisterAnswered
      BY <3>2 DEF RegisterAnswered
    <3> QED
      BY <1>3, <3>1, <3>2
  <2>3. Lossless' => Lossless
    BY <2>1, LossesStay
  <2> QED
    BY <2>1, <2>2, <2>3, GroundStays
<1> QED
  BY <1>1, <1>2, <1>3 DEF NextWire

LEMMA GroundAlways == SpecWire => []Ground
<1> QED
  BY GroundInit, GroundStep, ChatAlways, PTL DEF SpecWire

\* Whichever of the two requests of a call carries the challenge, the report has it, on
\* any resource server; and it has none where there is none.
THEOREM ChallengesAreFound == SpecWire => []ChallengeFound
<1>1. Ground => ChallengeFound
  BY DEF Ground, Challenged, ChallengeFound
<1> QED
  BY <1>1, GroundAlways, PTL

----------------------------------------------------------------------------
(***************************************************************************)
(* What each server answers to what the checks send.                       *)
(***************************************************************************)
LEMMA RequestsShown ==
  /\ LET q == Unauthenticated("bogus")
     IN q.to = "token" /\ q.grant = "bogus" /\ q.auth = Blank /\ q.proof = NoProof
  /\ \A audiences : LET q == Resource(audiences)
     IN /\ q.to = "token" /\ q.grant = "client_credentials" /\ q.auth = ClientAuth
        /\ q.proof = NoProof /\ q.resources = audiences
  /\ \A talk, htu, nonce : LET q == Proving(talk, htu, nonce)
     IN /\ q.to = "token" /\ q.grant = "client_credentials" /\ q.auth = ClientAuth
        /\ q.proof = Signed(talk, htu, nonce) /\ q.resources = {}
BY DEF Unauthenticated, Resource, Proving, Form

LEMMA ExchangesShown ==
  \A subjectToken, actorToken : LET q == Exchange(subjectToken, actorToken)
     IN /\ q.to = "token" /\ q.grant = "token-exchange" /\ q.auth = ClientAuth /\ q.proof = NoProof
        /\ q.subject = subjectToken /\ q.actor = actorToken
        /\ DOMAIN q = {"to", "grant", "auth", "proof", "resources", "subject", "actor", "scope"}
BY DEF Exchange, Form

LEMMA SignedShown ==
  ASSUME next \in Nat \ {0}, NEW talk, NEW htu, NEW nonce, NEW proof, proof = Signed(talk, htu, nonce)
  PROVE  proof # NoProof /\ proof.key = next /\ proof.htu = htu /\ proof.nonce = nonce
<1>1. proof.key = next /\ proof.htu = htu /\ proof.nonce = nonce
  BY DEF Signed, Proof
<1>2. NoProof.key = 0
  BY DEF NoProof, NoKey
<1> QED
  BY <1>1, <1>2

\* A request that proves nothing is refused only for the client.
LEMMA Unproven ==
  ASSUME NEW v, NEW s, NEW q, q.proof = NoProof, NEW a, a = handleToken(v, s, q)
  PROVE  \/ Mismatched(v, s, q) /\ Refusal(v, a, 401, "invalid_client")
         \/ ~Mismatched(v, s, q) /\ ~Denied(v, s, q)
<1>1. Problem(v, q) = Blank
  BY DEF Problem
<1> QED
  BY <1>1, DeniedOf DEF Denied

\* The client is refused only where the methods do not match.
LEMMA Matched ==
  ASSUME Ground, WireAuth, ~MethodMismatch, NEW s, Fit(s), NEW q, q.auth = ClientAuth
  PROVE  ~Mismatched(world.as, s, q)
<1>1. server.registeredAs = AssignedMethod(world.as) /\ s.registeredAs = AssignedMethod(world.as)
  BY DEF WireAuth, Fit
<1>2. CASE plan.registered /\ world.method = Blank /\ StatedMethod(world.as) \in Methods
  <2>1. client.method = AssignedMethod(world.as) /\ (client.secret <=> "PublicClientsOnly" \notin world.as)
    BY <1>2 DEF WireAuth, Ground
  <2>2. "PublicClientsOnly" \in world.as => Shown(AssignedMethod(world.as)) = Blank
    BY DEF AssignedMethod, Shown
  <2>3. ClientAuth = Shown(AssignedMethod(world.as))
    BY <2>1, <2>2 DEF ClientAuth
  <2> QED
    BY <1>1, <2>3 DEF Mismatched
<1>3. CASE ~(plan.registered /\ world.method = Blank /\ StatedMethod(world.as) \in Methods)
  BY <1>1, <1>3 DEF MethodMismatch, Mismatched
<1> QED
  BY <1>2, <1>3

LEMMA BogusAnswered ==
  ASSUME NEW s, Fit(s), NEW a, a = handleToken(world.as, s, Unauthenticated("bogus"))
  PROVE  /\ /\ "AcceptUnknownGrant" \in world.as
            /\ ~("StrictAuth" \in world.as /\ Shown(AssignedMethod(world.as)) # Blank)
            => a.status = 200
         /\ "BadErrorShape" \in world.as => a.error = Blank
<1> DEFINE q == Unauthenticated("bogus")
<1>0. q.grant = "bogus" /\ q.auth = Blank /\ q.proof = NoProof
  BY RequestsShown
<1> HIDE DEF q
<1>a. a = handleToken(world.as, s, q)
  BY DEF q
<1>1. ASSUME "BadErrorShape" \in world.as PROVE a.error = Blank
  BY <1>1, <1>a, TokenOf DEF New, Refusal
<1>2. ASSUME "AcceptUnknownGrant" \in world.as,
             ~("StrictAuth" \in world.as /\ Shown(AssignedMethod(world.as)) # Blank)
      PROVE  a.status = 200
  <2>1. ~Mismatched(world.as, s, q)
    BY <1>0, <1>2 DEF Mismatched, Fit
  <2>2. ~Denied(world.as, s, q)
    BY <1>0, <1>a, <2>1, Unproven
  <2>3. a = Issued(world.as, s, [q EXCEPT !.proof = NoProof], NoToken)
    BY <1>0, <1>2, <1>a, <2>2, GrantedOf
  <2>4. New(s, a)
    BY <2>3, IssuedOf
  <2> QED
    BY <2>4 DEF New
<1> QED
  BY <1>1, <1>2

LEMMA MintAnswered ==
  ASSUME NEW s, Fit(s), NEW q, q.grant = "client_credentials", NEW a, a = handleToken(world.as, s, q)
  PROVE  /\ a.status = 200 => /\ ~Denied(world.as, s, q)
                              /\ ~(q.resources # {} /\ "RejectResource" \in world.as)
                              /\ a.token.aud = Reflected(world.as, q)
                              /\ a.token.jkt = IF q.proof # NoProof /\ "NoCnfBinding" \notin world.as
                                               THEN q.proof.key ELSE NoKey
         /\ ~Denied(world.as, s, q) /\ "NoClientCredentials" \in world.as =>
              Refusal(world.as, a, 400, "unsupported_grant_type")
         /\ /\ ~Denied(world.as, s, q) /\ "NoClientCredentials" \notin world.as
            /\ ~(q.resources # {} /\ "RejectResource" \in world.as)
            => IF Cardinality(q.resources) > 1 /\ "ErrorOnMultipleResources" \in world.as
               THEN a.status = 500 ELSE a.status = 200
<1>1. Refusal(world.as, tokenError(world.as, 400, "unsupported_grant_type"), 400, "unsupported_grant_type")
  BY RefusalOf
<1>2. CASE Denied(world.as, s, q)
  <2>1. a.status \in {400, 401}
    BY <1>2, DeniedOf DEF Refusal
  <2> QED
    BY <1>2, <2>1
<1>3. CASE ~Denied(world.as, s, q) /\ "NoClientCredentials" \in world.as
  <2>1. a = tokenError(world.as, 400, "unsupported_grant_type")
    BY <1>3, GrantedClient
  <2>2. Refusal(world.as, a, 400, "unsupported_grant_type")
    BY <1>1, <2>1
  <2>3. a.status = 400
    BY <2>2 DEF Refusal
  <2> QED
    BY <1>3, <2>2, <2>3
<1>4. CASE ~Denied(world.as, s, q) /\ "NoClientCredentials" \notin world.as
  <2> DEFINE dear == q.resources # {} /\ "RejectResource" \in world.as
             many == Cardinality(q.resources) > 1 /\ "ErrorOnMultipleResources" \in world.as
             given == /\ New(s, a) /\ a.token.aud = Reflected(world.as, q)
                      /\ a.token.jkt = IF q.proof # NoProof /\ "NoCnfBinding" \notin world.as
                                       THEN q.proof.key ELSE NoKey
  <2>1. a = handleClientCredentials(world.as, s, q)
    BY <1>4, GrantedClient
  <2>2. \/ dear /\ Refusal(world.as, a, 400, "invalid_target")
        \/ many /\ Refusal(world.as, a, 500, "server_error")
        \/ ~dear /\ ~many /\ given
    BY <2>1, MintedOf
  <2>3. CASE dear /\ Refusal(world.as, a, 400, "invalid_target")
    <3>1. a.status = 400
      BY <2>3 DEF Refusal
    <3> QED
      BY <1>4, <2>3, <3>1
  <2>4. CASE many /\ Refusal(world.as, a, 500, "server_error")
    <3>1. a.status = 500
      BY <2>4 DEF Refusal
    <3> QED
      BY <1>4, <2>4, <3>1
  <2>5. CASE ~dear /\ ~many /\ given
    <3>1. a.status = 200
      BY <2>5 DEF New
    <3> QED
      BY <1>4, <2>5, <3>1
  <2> QED
    BY <2>2, <2>3, <2>4, <2>5
<1> QED
  BY <1>2, <1>3, <1>4

\* A request for no audience in particular.
LEMMA MintAnsweredPlain ==
  ASSUME NEW s, Fit(s), NEW q, q.grant = "client_credentials", q.resources = {},
         NEW a, a = handleToken(world.as, s, q), ~Denied(world.as, s, q), "NoClientCredentials" \notin world.as
  PROVE  a.status = 200
<1>1. a = handleClientCredentials(world.as, s, q)
  BY GrantedClient
<1>2. ~(Cardinality(q.resources) > 1)
  BY FS_EmptySet
<1> DEFINE dear == q.resources # {} /\ "RejectResource" \in world.as
           many == Cardinality(q.resources) > 1 /\ "ErrorOnMultipleResources" \in world.as
<1>3. ~dear /\ ~many
  BY <1>2
<1>4. dear \/ many \/ New(s, a)
  BY <1>1, MintedOf
<1> HIDE DEF dear, many
<1> QED
  BY <1>3, <1>4 DEF New

----------------------------------------------------------------------------
(***************************************************************************)
(* A row that passes.                                                      *)
(***************************************************************************)
\* The check at hand has had its answers, and passes on them.
Passing(id) ==
  /\ pc = "checks" /\ next <= Len(Registry) /\ Applies
  /\ Current.id = id /\ Pending = Nothing /\ Rules(id, said) = "pass"

LEMMA RulesPass ==
  ASSUME NEW id, NEW talk, talk # <<>>, Rules(id, talk) = "pass", NEW last, last = talk[Len(talk)]
  PROVE  last # Lost /\ Undecided(id, talk, last) = Blank /\ Passes(id, last)
<1>1. Unanswered(id) # "pass"
  BY DEF Unanswered
<1>2. Undecided(id, talk, last) # Blank => Undecided(id, talk, last) # "pass"
  BY DEF Undecided
<1> QED
  BY <1>1, <1>2 DEF Rules

\* What leaves a row undecided.
LEMMA Decided ==
  ASSUME NEW id, NEW talk, NEW last, Undecided(id, talk, last) = Blank
  PROVE  /\ id \in SelfMinted => last.error # "unsupported_grant_type"
         /\ id \in Holders => Obtained(talk) # NoToken
         /\ id = "rfc7009.advertise.revocation_endpoint" => last.status # 404
<1>1. Blank # "untested" /\ Blank # "unsupported"
  BY Zenon DEF Blank
<1>2. "rfc7009.advertise.revocation_endpoint" \notin SelfMinted \cup Holders
        /\ Holders \cap SelfMinted = {}
  BY DEF SelfMinted, Holders, Revocation, WrongHTU, Exchanges
<1> QED
  BY <1>1, <1>2 DEF Undecided

\* A check of one request passes on the answer to it.
LEMMA OneShotPasses ==
  ASSUME Dialogue, Seen, NEW id, Passing(id), id \notin {WrongHTU} \cup Exchanges \cup Holders,
         OneShot(id).to # "nobody"
  PROVE  \E a : AnswerTo(OneShot(id), a) /\ Undecided(id, said, a) = Blank /\ Passes(id, a)
<1>1. \A talk : Request(talk) = Asks(id, talk)
  BY DEF Passing, Request
<1>2. \A talk : talk # <<>> => Request(talk) = Nothing
  BY <1>1, AsksLost, AsksOnce
<1>3. Request(<<>>) = OneShot(id)
  BY <1>1, AsksOnce, ToSetNone
<1>4. Nothing.to = "nobody"
  BY DEF Nothing
<1>5. said # <<>>
  BY <1>3, <1>4 DEF Passing, Pending
<1>6. PICK S : said \in Seq(S)
  BY DEF Seen
<1>7. Len(said) = 1
  <2> SUFFICES ASSUME Len(said) # 1 PROVE FALSE
    OBVIOUS
  <2>1. 2 \in DOMAIN said /\ Len(SubSeq(said, 1, 1)) = 1
    <3>1. Len(said) \in Nat /\ Len(said) # 0 /\ DOMAIN said = 1..Len(said)
      BY <1>5, <1>6
    <3>2. 2 \in 1..Len(said) /\ 1 \in 1..Len(said)
      BY <3>1
    <3>3. SubSeq(said, 1, 1) = [i \in 1..1 |-> said[i]]
      BY <1>6, <3>1, <3>2
    <3> QED
      BY <3>1, <3>2, <3>3
  <2>2. PICK k : k = 2
    OBVIOUS
  <2>3. PICK talk, a : talk = SubSeq(said, 1, k - 1) /\ a = said[k]
    OBVIOUS
  <2>4. Told(talk, a)
    BY <2>1, <2>2, <2>3 DEF Dialogue
  <2>5. talk # <<>>
    BY <2>1, <2>2, <2>3
  <2> QED
    BY <1>2, <1>4, <2>4, <2>5 DEF Told
<1>8. PICK a : a = said[Len(said)]
  OBVIOUS
<1>9. a # Lost /\ Undecided(id, said, a) = Blank /\ Passes(id, a)
  BY <1>5, <1>8, RulesPass DEF Passing
<1>10. Told(<<>>, a)
  BY <1>5, <1>7, <1>8, FirstTold
<1> QED
  BY <1>3, <1>9, <1>10 DEF Told

\* The requests of the checks, and what each passes on.
LEMMA Tokens ==
  /\ \A id \in {"rfc8707.token.accepts_resource", "rfc8707.token.reflects_audience"} :
       OneShot(id) = Resource({"tool"})
  /\ OneShot("rfc8707.token.multiple_resources") = Resource({"tool", "other"})
  /\ \A id \in {"oauth21.token.rejects_unknown_grant", "oauth21.token.error_shape_rfc6749"} :
       OneShot(id) = Unauthenticated("bogus")
BY DEF OneShot, Delegations

LEMMA Swaps ==
  /\ OneShot("rfc8693.impersonation.issues_token") = Exchange(Pasted, NoToken)
  /\ \A id \in Delegations : OneShot(id) = Exchange(Pasted, ActorToken)
  /\ OneShot("rfc8693.downscope.scope_honored") = [Exchange(Pasted, NoToken) EXCEPT !.scope = "read"]
  /\ OneShot("rfc8693.error.invalid_grant_on_bad_subject") = Exchange(Forged, NoToken)
BY DEF OneShot, Delegations

LEMMA Others ==
  /\ OneShot("rfc7009.advertise.revocation_endpoint") = About("revoke", Forged)
  /\ OneShot("sep2351.discovery.suffix_path") = Get("suffix")
  /\ OneShot("cimd.register.url_client_id") = Get("authorize")
  /\ OneShot("mcp.token.invalid_rejected") = Present(Forged, NoProof)
BY DEF OneShot, Delegations

LEMMA TokensPass ==
  \A a :
    /\ Passes("rfc8707.token.accepts_resource", a) => a.status = 200
    /\ Passes("rfc8707.token.reflects_audience", a) => a.status = 200 /\ "tool" \in a.token.aud
    /\ Passes("rfc8707.token.multiple_resources", a) => a.status < 500
    /\ Passes("oauth21.token.rejects_unknown_grant", a) => a.status # 200
    /\ Passes("oauth21.token.error_shape_rfc6749", a) => a.error # Blank
BY DEF Passes, WrongHTU, Revocation

LEMMA SwapsPass ==
  \A a :
    /\ Passes("rfc8693.impersonation.issues_token", a) => a.status = 200
    /\ Passes("rfc8693.delegation.issues_token", a) => a.status = 200
    /\ Passes("rfc8693.delegation.act_present", a) => a.token.act > 0
    /\ Passes("rfc8693.delegation.act_nesting", a) => a.token.act > 1
    /\ Passes("rfc8693.delegation.may_act_enforced", a) => a.status # 200 /\ a.error = "invalid_grant"
    /\ Passes("rfc8693.downscope.scope_honored", a) => a.status = 200 /\ a.scope \in {Blank, "read"}
    /\ Passes("rfc8693.error.invalid_grant_on_bad_subject", a) => a.status # 200
BY DEF Passes, WrongHTU, Revocation, Issues, MayActEnforced

LEMMA OthersPass ==
  \A a :
    /\ Passes("dpop.token.accepts_proof", a) => a.status = 200
    /\ Passes("dpop.token.binds_cnf_jkt", a) => a.status = 200 /\ a.token.jkt = next
    /\ Passes(WrongHTU, a) => a.status # 200
    /\ Passes("rfc7662.introspect.active", a) => a.active
    /\ Passes(Revocation, a) => ~a.active
    /\ Passes("sep2351.discovery.suffix_path", a) => a.status = 200
    /\ Passes("rfc8414.metadata.signed_metadata_valid", a) => "BadSignedMetadata" \notin world.as
    /\ Passes("cimd.register.url_client_id", a) => a.error # "invalid_client"
    /\ Passes("mcp.token.invalid_rejected", a) => a.status = 401
    /\ Passes("smoke.present.token_accepted", a) => a.status < 400
BY DEF Passes, WrongHTU, Revocation, Issues

(***************************************************************************)
(* The rows of one token request.                                          *)
(***************************************************************************)
LEMMA TokenShot ==
  ASSUME Dialogue, Seen, NEW id, Passing(id), id \notin {WrongHTU} \cup Exchanges \cup Holders,
         OneShot(id).to = "token"
  PROVE  \E s, a : /\ Fit(s) /\ a = handleToken(world.as, s, OneShot(id))
                   /\ Undecided(id, said, a) = Blank /\ Passes(id, a)
<1>1. PICK a : AnswerTo(OneShot(id), a) /\ Undecided(id, said, a) = Blank /\ Passes(id, a)
  BY OneShotPasses
<1>2. \E s : Fit(s) /\ a = handleToken(world.as, s, OneShot(id))
  BY <1>1, AnswerOfToken
<1> QED
  BY <1>1, <1>2

LEMMA BogusSeen ==
  ASSUME Dialogue, Seen, WireAuth,
         NEW id \in {"oauth21.token.rejects_unknown_grant", "oauth21.token.error_shape_rfc6749"},
         Passing(id)
  PROVE  /\ id = "oauth21.token.rejects_unknown_grant" /\ "AcceptUnknownGrant" \in world.as =>
              Hidden("AcceptUnknownGrant")
         /\ id = "oauth21.token.error_shape_rfc6749" => "BadErrorShape" \notin world.as
<1>1. OneShot(id) = Unauthenticated("bogus") /\ OneShot(id).to = "token"
  BY Tokens, RequestsShown
<1>2. id \notin {WrongHTU} \cup Exchanges \cup Holders
  BY DEF WrongHTU, Exchanges, Holders, Revocation
<1>3. PICK s, a : /\ Fit(s) /\ a = handleToken(world.as, s, OneShot(id)) /\ Passes(id, a)
  BY <1>1, <1>2, TokenShot
<1>4. /\ /\ "AcceptUnknownGrant" \in world.as
         /\ ~("StrictAuth" \in world.as /\ Shown(AssignedMethod(world.as)) # Blank)
         => a.status = 200
      /\ "BadErrorShape" \in world.as => a.error = Blank
  BY <1>1, <1>3, BogusAnswered
<1>5. server.registeredAs = AssignedMethod(world.as)
  BY DEF WireAuth
<1> QED
  BY <1>3, <1>4, <1>5, TokensPass DEF Hidden

\* client_credentials is offered, or not known to be declined.
LEMMA GrantOffered ==
  ASSUME Ground, next \in Nat \ {0}, next <= Len(Registry), Applies, Current.id \in SelfMinted
  PROVE  "NoClientCredentials" \in world.as => "NoGrantTypesAdvertised" \in world.as
<1>1. next \in DOMAIN Registry /\ Current = Registry[next] /\ Current \in CheckType
  BY RegistryAssumption DEF Current
<1>2. Current.gates \in Seq(STRING)
  BY <1>1 DEF CheckType
<1>3. \A g \in ToSet(Current.gates) : GateHolds(g, View)
  BY <1>2, LeastUnmet DEF Applies, ToSet
<1>4. /\ "clientCredentialsGrant" \in ToSet(Current.gates)
      /\ {"tokenEndpoint", "dpop"} \cap ToSet(Current.gates) # {}
  BY <1>1, RowsAssumption
<1>5. GateHolds("clientCredentialsGrant", View) <=> ("grantTypes" \in View => "clientCredentials" \in View)
  BY DEF GateHolds
<1>6. \A g \in {"tokenEndpoint", "dpop"} : GateHolds(g, View) => g \in View
  BY DEF GateHolds
<1>7. {"tokenEndpoint", "dpop"} \cap View # {}
  BY <1>3, <1>4, <1>6
<1>8. View \subseteq disc \cup RegisteredFacts(world.as)
        \cup {"subjectToken", "actorToken", "mcpTarget", "presentEnabled", "client", "registered"}
  BY DEF View, Ground
<1>9. {"tokenEndpoint", "dpop", "clientCredentials"} \cap RegisteredFacts(world.as) = {}
  BY DEF RegisteredFacts
<1>10. {"tokenEndpoint", "dpop"} \cap disc # {}
  BY <1>7, <1>8, <1>9
<1>11. handleDiscovery(world.as) \subseteq disc /\ disc \subseteq View
  BY <1>10 DEF Ground, Found, View
<1>12. "NoGrantTypesAdvertised" \notin world.as => "grantTypes" \in handleDiscovery(world.as)
  BY DEF handleDiscovery
<1>13. "NoClientCredentials" \in world.as => "clientCredentials" \notin Findable
  <2>1. "clientCredentials" \notin Challenge(world.rs)
    BY DEF Challenge
  <2>2. "clientCredentials" \notin handlePRM(world.rs)
    BY DEF handlePRM
  <2>3. "NoClientCredentials" \in world.as => "clientCredentials" \notin handleDiscovery(world.as)
    BY DEF handleDiscovery
  <2> QED
    BY <2>1, <2>2, <2>3 DEF Findable
<1>14. "clientCredentials" \in View => "clientCredentials" \in Findable
  BY <1>8, <1>9 DEF Ground, Found
<1> QED
  BY <1>3, <1>4, <1>5, <1>11, <1>12, <1>13, <1>14

LEMMA TwoAudiences == Cardinality({"tool", "other"}) = 2
<1>1. IsFiniteSet({"tool"}) /\ Cardinality({"tool"}) = 1
  BY FS_Singleton
<1>2. "other" \notin {"tool"} /\ {"tool"} \cup {"other"} = {"tool", "other"}
  OBVIOUS
<1>3. Cardinality({"tool"} \cup {"other"}) = Cardinality({"tool"}) + 1
  BY <1>1, <1>2, FS_AddElement
<1> QED
  BY <1>1, <1>2, <1>3

Minting == {"rfc8707.token.accepts_resource", "rfc8707.token.reflects_audience",
            "rfc8707.token.multiple_resources"}

LEMMA MintSeen ==
  ASSUME Dialogue, Seen, WireAuth, Ground, next \in Nat \ {0}, NEW id \in Minting, Passing(id)
  PROVE  /\ id = "rfc8707.token.accepts_resource" => "RejectResource" \notin world.as
         /\ id = "rfc8707.token.reflects_audience" => "IgnoreResourceParam" \notin world.as
         /\ id = "rfc8707.token.multiple_resources" /\ "ErrorOnMultipleResources" \in world.as =>
              Hidden("ErrorOnMultipleResources")
<1>1. PICK audiences : /\ OneShot(id) = Resource(audiences)
                       /\ id # "rfc8707.token.multiple_resources" => audiences = {"tool"}
                       /\ id = "rfc8707.token.multiple_resources" => audiences = {"tool", "other"}
  BY Tokens DEF Minting
<1>2. PICK q : q = Resource(audiences)
  OBVIOUS
<1>3. q.to = "token" /\ q.grant = "client_credentials" /\ q.auth = ClientAuth
        /\ q.proof = NoProof /\ q.resources = audiences
  BY <1>2, RequestsShown
<1>4. id \notin {WrongHTU} \cup Exchanges \cup Holders /\ id \in SelfMinted
  BY DEF WrongHTU, Exchanges, Holders, Revocation, SelfMinted, Minting
<1>5. PICK s, a : /\ Fit(s) /\ a = handleToken(world.as, s, q)
                  /\ Undecided(id, said, a) = Blank /\ Passes(id, a)
  BY <1>1, <1>2, <1>3, <1>4, TokenShot
<1>6. a.error # "unsupported_grant_type"
  BY <1>4, <1>5, Decided
<1>7. a.status = 200 => ~(q.resources # {} /\ "RejectResource" \in world.as)
                          /\ a.token.aud = Reflected(world.as, q)
  BY <1>3, <1>5, MintAnswered
<1>8. ASSUME id = "rfc8707.token.accepts_resource" PROVE "RejectResource" \notin world.as
  BY <1>1, <1>3, <1>5, <1>7, <1>8, TokensPass
<1>9. ASSUME id = "rfc8707.token.reflects_audience" PROVE "IgnoreResourceParam" \notin world.as
  <2>1. a.status = 200 /\ "tool" \in a.token.aud
    BY <1>5, <1>9, TokensPass
  <2> QED
    BY <1>7, <2>1 DEF Reflected
<1>10. ASSUME id = "rfc8707.token.multiple_resources", "ErrorOnMultipleResources" \in world.as,
              ~Hidden("ErrorOnMultipleResources")
       PROVE  FALSE
  <2>1. a.status < 500
    BY <1>5, <1>10, TokensPass
  <2>2. "RejectResource" \notin world.as /\ ~MethodMismatch /\ ~DeclinesInSilence
    BY <1>10 DEF Hidden
  <2>3. ~Denied(world.as, s, q)
    <3>1. ~Mismatched(world.as, s, q)
      BY <1>3, <1>5, <2>2, Matched
    <3> QED
      BY <1>3, <1>5, <3>1, Unproven
  <2>4. CASE "NoClientCredentials" \in world.as
    <3>1. "NoGrantTypesAdvertised" \in world.as
      BY <1>4, <2>4, GrantOffered DEF Passing
    <3>2. "BadErrorShape" \notin world.as
      BY <2>2, <2>4, <3>1 DEF DeclinesInSilence
    <3>3. Refusal(world.as, a, 400, "unsupported_grant_type")
      BY <1>3, <1>5, <2>3, <2>4, MintAnswered
    <3> QED
      BY <1>6, <3>2, <3>3 DEF Refusal
  <2>5. CASE "NoClientCredentials" \notin world.as
    <3>1. Cardinality(q.resources) > 1
      BY <1>1, <1>3, <1>10, TwoAudiences
    <3>2. a.status = 500
      BY <1>3, <1>5, <1>10, <2>2, <2>3, <2>5, <3>1, MintAnswered
    <3> QED
      BY <2>1, <3>2
  <2> QED
    BY <2>4, <2>5
<1> QED
  BY <1>8, <1>9, <1>10

(***************************************************************************)
(* The rows of one exchange.                                               *)
(***************************************************************************)
\* What an exchange is refused for when the client is not.
Turned(q) ==
  \/ "NoTokenExchange" \in world.as
  \/ q.actor = NoToken /\ "FailImpersonation" \in world.as
  \/ q.actor # NoToken /\ "RejectDelegation" \in world.as
Unfounded(q) ==
  \/ ~Verified(q.subject) /\ "AcceptBadSubject" \notin world.as
  \/ q.actor # NoToken /\ (~Verified(q.actor) \/ ActorRefused(world.as, q))

LEMMA ErrorsApart ==
  /\ Blank \notin {"invalid_grant", "wider", "read"}
  /\ "invalid_client" # "invalid_grant" /\ "unsupported_grant_type" # "invalid_grant"
  /\ "invalid_request" # "invalid_grant" /\ "wider" # "read"
BY Zenon DEF Blank

LEMMA RefusalShown ==
  ASSUME NEW a, NEW code \in {400, 401, 500}, NEW error, Refusal(world.as, a, code, error)
  PROVE  /\ a.status # 200 /\ a.token = NoToken
         /\ a.error = "invalid_grant" => error = "invalid_grant"
BY ErrorsApart DEF Refusal

LEMMA SwapAnswered ==
  ASSUME NEW s, NEW q, q.grant = "token-exchange", q.proof = NoProof,
         NEW a, a = handleToken(world.as, s, q)
  PROVE  /\ a.status = 200 <=> ~Mismatched(world.as, s, q) /\ ~Turned(q) /\ ~Unfounded(q)
         /\ a.status = 200 => a.token.act = ActChain(world.as, q) /\ a.scope = Widened(world.as, q.scope)
         /\ a.status # 200 => a.token = NoToken
         /\ a.error = "invalid_grant" => Unfounded(q)
<1> DEFINE granted == /\ New(s, a) /\ a.token.act = ActChain(world.as, q)
                      /\ a.scope = Widened(world.as, q.scope)
<1>1. granted => /\ a.status = 200 /\ a.error # "invalid_grant"
                 /\ a.token.act = ActChain(world.as, q) /\ a.scope = Widened(world.as, q.scope)
  BY ErrorsApart DEF New
<1> HIDE DEF granted
<1>2. \/ Mismatched(world.as, s, q) /\ Refusal(world.as, a, 401, "invalid_client")
      \/ ~Mismatched(world.as, s, q) /\ ~Denied(world.as, s, q)
  BY Unproven
<1>3. CASE Mismatched(world.as, s, q)
  <2>1. Refusal(world.as, a, 401, "invalid_client")
    BY <1>2, <1>3
  <2> QED
    BY <1>3, <2>1, RefusalShown, ErrorsApart
<1>4. CASE ~Mismatched(world.as, s, q)
  <2>1. a = handleExchange(world.as, s, q)
    BY <1>2, <1>4, GrantedExchange
  <2>2. \/ Turned(q) /\ Refusal(world.as, a, 400, "unsupported_grant_type")
        \/ Turned(q) /\ Refusal(world.as, a, 400, "invalid_request")
        \/ Unfounded(q) /\ Refusal(world.as, a, 400, "invalid_grant")
        \/ ~Turned(q) /\ ~Unfounded(q) /\ granted
    BY <2>1, ExchangedOf DEF Turned, Unfounded, granted
  <2>3. CASE Turned(q) /\ Refusal(world.as, a, 400, "unsupported_grant_type")
    BY <2>3, RefusalShown, ErrorsApart
  <2>4. CASE Turned(q) /\ Refusal(world.as, a, 400, "invalid_request")
    BY <2>4, RefusalShown, ErrorsApart
  <2>5. CASE Unfounded(q) /\ Refusal(world.as, a, 400, "invalid_grant")
    BY <2>5, RefusalShown
  <2>6. CASE ~Turned(q) /\ ~Unfounded(q) /\ granted
    BY <1>1, <1>4, <2>6
  <2> QED
    BY <2>2, <2>3, <2>4, <2>5, <2>6
<1> QED
  BY <1>3, <1>4

LEMMA TokensShown ==
  /\ Verified(Pasted) /\ Verified(ActorToken) /\ ActorToken # NoToken
  /\ ~Verified(Forged) /\ Pasted.mayAct = world.mayAct
  /\ NoToken.act = 0 /\ Forged # NoToken /\ Forged.n = 0
BY DEF Pasted, SubjectToken, ActorToken, NoToken, Verified, Forged, Blank

LEMMA DelegationSeen ==
  ASSUME Dialogue, Seen, NEW id \in Delegations, Passing(id)
  PROVE  /\ id = "rfc8693.delegation.issues_token" => "RejectDelegation" \notin world.as
         /\ id = "rfc8693.delegation.may_act_enforced" => "IgnoreMayAct" \notin world.as
         /\ id = "rfc8693.delegation.act_present" => "OmitAct" \notin world.as
         /\ id = "rfc8693.delegation.act_nesting" => "ForgeActChain" \notin world.as
<1>1. PICK q : q = Exchange(Pasted, ActorToken)
  OBVIOUS
<1>2. /\ OneShot(id) = q /\ q.to = "token" /\ q.grant = "token-exchange" /\ q.proof = NoProof
      /\ q.subject = Pasted /\ q.actor = ActorToken
  BY <1>1, Swaps, ExchangesShown
<1>3. id \notin {WrongHTU} \cup Exchanges \cup Holders
  BY DEF Delegations, WrongHTU, Exchanges, Holders, Revocation
<1>4. PICK s, a : Fit(s) /\ a = handleToken(world.as, s, q) /\ Passes(id, a)
  BY <1>2, <1>3, TokenShot
<1>5. /\ a.status = 200 <=> ~Mismatched(world.as, s, q) /\ ~Turned(q) /\ ~Unfounded(q)
      /\ a.status = 200 => a.token.act = ActChain(world.as, q)
      /\ a.status # 200 => a.token = NoToken
      /\ a.error = "invalid_grant" => Unfounded(q)
  BY <1>2, <1>4, SwapAnswered
<1>7. ASSUME id = "rfc8693.delegation.issues_token" PROVE "RejectDelegation" \notin world.as
  BY <1>2, <1>4, <1>5, <1>7, SwapsPass, TokensShown DEF Turned
<1>8. ASSUME id = "rfc8693.delegation.may_act_enforced" PROVE "IgnoreMayAct" \notin world.as
  <2>1. a.error = "invalid_grant"
    BY <1>4, <1>8, SwapsPass
  <2>2. ActorRefused(world.as, q)
    BY <1>2, <1>5, <2>1, TokensShown DEF Unfounded
  <2> QED
    BY <2>2 DEF ActorRefused
<1>9. ASSUME id = "rfc8693.delegation.act_present" PROVE "OmitAct" \notin world.as
  <2>1. a.token.act > 0
    BY <1>4, <1>9, SwapsPass
  <2>2. "OmitAct" \in world.as => ActChain(world.as, q) = 0
    BY DEF ActChain
  <2>3. "OmitAct" \in world.as => a.token.act = 0
    BY <1>5, <2>2, TokensShown
  <2> QED
    BY <2>1, <2>3
<1>10. ASSUME id = "rfc8693.delegation.act_nesting" PROVE "ForgeActChain" \notin world.as
  <2>1. a.token.act > 1
    BY <1>4, <1>10, SwapsPass
  <2>2. "ForgeActChain" \in world.as => ActChain(world.as, q) \in {0, 1}
    BY DEF ActChain
  <2>3. "ForgeActChain" \in world.as => a.token.act \in {0, 1}
    BY <1>5, <2>2, TokensShown
  <2> QED
    BY <2>1, <2>3
<1> QED
  BY <1>7, <1>8, <1>9, <1>10

Impersonating ==
  {"rfc8693.impersonation.issues_token", "rfc8693.downscope.scope_honored",
   "rfc8693.error.invalid_grant_on_bad_subject"}

LEMMA ScopeShown ==
  LET q == [Exchange(Pasted, NoToken) EXCEPT !.scope = "read"]
  IN q.to = "token" /\ q.grant = "token-exchange" /\ q.proof = NoProof /\ q.scope = "read"
BY DEF Exchange, Form

\* The grant is offered.
LEMMA ExchangeOffered ==
  ASSUME Ground, next \in Nat \ {0}, next <= Len(Registry), Applies,
         Current.id = "rfc8693.error.invalid_grant_on_bad_subject"
  PROVE  "NoTokenExchange" \notin world.as
<1>1. next \in DOMAIN Registry /\ Current = Registry[next] /\ Current \in CheckType
  BY RegistryAssumption DEF Current
<1>2. Current.gates \in Seq(STRING)
  BY <1>1 DEF CheckType
<1>3. GateHolds("tokenExchange", View)
  BY <1>1, <1>2, LeastUnmet, RowsAssumption DEF Applies, ToSet
<1>4. "tokenExchange" \in View
  BY <1>3 DEF GateHolds
<1>5. "tokenExchange" \notin RegisteredFacts(world.as)
  BY DEF RegisteredFacts
<1>6. "tokenExchange" \in disc
  BY <1>4, <1>5 DEF View, Ground
<1>7. "tokenExchange" \notin Challenge(world.rs)
  BY DEF Challenge
<1>8. "tokenExchange" \notin handlePRM(world.rs)
  BY DEF handlePRM
<1>9. "tokenExchange" \in handleDiscovery(world.as)
  BY <1>6, <1>7, <1>8 DEF Ground, Found, Findable
<1> QED
  BY <1>9 DEF handleDiscovery

LEMMA ImpersonationSeen ==
  ASSUME Dialogue, Seen, WireAuth, Ground, next \in Nat \ {0}, NEW id \in Impersonating, Passing(id)
  PROVE  /\ id = "rfc8693.impersonation.issues_token" => "FailImpersonation" \notin world.as
         /\ id = "rfc8693.downscope.scope_honored" => "WidenScope" \notin world.as
         /\ id = "rfc8693.error.invalid_grant_on_bad_subject" /\ "AcceptBadSubject" \in world.as =>
              Hidden("AcceptBadSubject")
<1>1. PICK q : q = OneShot(id)
  OBVIOUS
<1>2. /\ q.to = "token" /\ q.grant = "token-exchange" /\ q.proof = NoProof
      /\ id = "rfc8693.downscope.scope_honored" => q.scope = "read"
      /\ id # "rfc8693.downscope.scope_honored" => q.actor = NoToken /\ q.auth = ClientAuth
  BY <1>1, Swaps, ExchangesShown, ScopeShown DEF Impersonating
<1>3. id \notin {WrongHTU} \cup Exchanges \cup Holders
  BY DEF Impersonating, WrongHTU, Exchanges, Holders, Revocation
<1>4. PICK s, a : Fit(s) /\ a = handleToken(world.as, s, q) /\ Passes(id, a)
  BY <1>1, <1>2, <1>3, TokenShot
<1>5. /\ a.status = 200 <=> ~Mismatched(world.as, s, q) /\ ~Turned(q) /\ ~Unfounded(q)
      /\ a.status = 200 => a.scope = Widened(world.as, q.scope)
  BY <1>2, <1>4, SwapAnswered
<1>6. ASSUME id = "rfc8693.impersonation.issues_token" PROVE "FailImpersonation" \notin world.as
  BY <1>2, <1>4, <1>5, <1>6, SwapsPass DEF Turned
<1>7. ASSUME id = "rfc8693.downscope.scope_honored" PROVE "WidenScope" \notin world.as
  <2>1. a.status = 200 /\ a.scope \in {Blank, "read"}
    BY <1>4, <1>7, SwapsPass
  <2>2. "WidenScope" \in world.as => a.scope = "wider"
    BY <1>2, <1>5, <1>7, <2>1, ErrorsApart DEF Widened
  <2> QED
    BY <2>1, <2>2, ErrorsApart
<1>8. ASSUME id = "rfc8693.error.invalid_grant_on_bad_subject", "AcceptBadSubject" \in world.as,
             ~Hidden("AcceptBadSubject")
      PROVE  FALSE
  <2>1. a.status # 200
    BY <1>4, <1>8, SwapsPass
  <2>2. "FailImpersonation" \notin world.as /\ ~MethodMismatch
    BY <1>8 DEF Hidden
  <2>3. "NoTokenExchange" \notin world.as
    BY <1>8, ExchangeOffered DEF Passing
  <2>4. ~Mismatched(world.as, s, q)
    BY <1>2, <1>4, <1>8, <2>2, Matched
  <2>5. ~Turned(q) /\ ~Unfounded(q)
    BY <1>2, <1>8, <2>2, <2>3 DEF Turned, Unfounded
  <2> QED
    BY <1>5, <2>1, <2>4, <2>5
<1> QED
  BY <1>6, <1>7, <1>8

(***************************************************************************)
(* The rows of one request to another endpoint.                            *)
(***************************************************************************)
Endpoints ==
  {"rfc7009.advertise.revocation_endpoint", "sep2351.discovery.suffix_path",
   "rfc8414.metadata.signed_metadata_valid", "cimd.register.url_client_id",
   "mcp.token.invalid_rejected"}

LEMMA NotHeld == Endpoints \cap ({WrongHTU} \cup Exchanges \cup Holders) = {}
BY DEF Endpoints, WrongHTU, Exchanges, Holders, Revocation

LEMMA EndpointsShown ==
  /\ About("revoke", Forged).to = "revoke" /\ Get("suffix").to = "suffix"
  /\ Get("jwks").to = "jwks" /\ Get("authorize").to = "authorize"
  /\ Present(Forged, NoProof).to = "mcp" /\ Present(Forged, NoProof).token = Forged
  /\ OneShot("rfc8414.metadata.signed_metadata_valid") = Get("jwks")
BY DEF About, Get, Present, OneShot, Delegations

LEMMA DocumentRows ==
  ASSUME Dialogue, Seen,
         NEW id \in {"rfc7009.advertise.revocation_endpoint", "sep2351.discovery.suffix_path",
                     "rfc8414.metadata.signed_metadata_valid", "cimd.register.url_client_id"},
         Passing(id)
  PROVE  /\ id = "rfc7009.advertise.revocation_endpoint" => "DeadRevocation" \notin world.as
         /\ id = "sep2351.discovery.suffix_path" => "NoSuffixPRM" \notin world.rs
         /\ id = "rfc8414.metadata.signed_metadata_valid" => "BadSignedMetadata" \notin world.as
         /\ id = "cimd.register.url_client_id" => "RejectCIMDClient" \notin world.as
<1>1. PICK q : q = OneShot(id)
  OBVIOUS
<1>2. /\ q.to \notin {"nobody", "mcp"}
      /\ id = "rfc7009.advertise.revocation_endpoint" => q.to = "revoke"
      /\ id = "sep2351.discovery.suffix_path" => q.to = "suffix"
      /\ id = "cimd.register.url_client_id" => q.to = "authorize"
  BY <1>1, Others, EndpointsShown
<1>3. id \notin {WrongHTU} \cup Exchanges \cup Holders
  BY NotHeld DEF Endpoints
<1>4. PICK a : AnswerTo(q, a) /\ Undecided(id, said, a) = Blank /\ Passes(id, a)
  BY <1>1, <1>2, <1>3, OneShotPasses
<1>5. PICK s : a = Answered(s, q)
  BY <1>2, <1>4, AnswerOf
<1>6. ASSUME id = "rfc7009.advertise.revocation_endpoint" PROVE "DeadRevocation" \notin world.as
  <2>1. a.status # 404
    BY <1>4, <1>6, Decided
  <2>2. a = handleRevoke(world.as)
    BY <1>2, <1>5, <1>6 DEF Answered
  <2> QED
    BY <2>1, <2>2, Statuses DEF handleRevoke
<1>7. ASSUME id = "sep2351.discovery.suffix_path" PROVE "NoSuffixPRM" \notin world.rs
  <2>1. a.status = 200
    BY <1>4, <1>7, OthersPass
  <2>2. "NoSuffixPRM" \in world.rs => a = Status(404)
    BY <1>2, <1>5, <1>7 DEF Answered
  <2> QED
    BY <2>1, <2>2, Statuses
<1>8. ASSUME id = "cimd.register.url_client_id" PROVE "RejectCIMDClient" \notin world.as
  <2>1. a.error # "invalid_client"
    BY <1>4, <1>8, OthersPass
  <2>2. a = handleAuthorize(world.as)
    BY <1>2, <1>5, <1>8 DEF Answered
  <2>3. "RejectCIMDClient" \in world.as => handleAuthorize(world.as).error = "invalid_client"
    BY DEF handleAuthorize, Status
  <2> QED
    BY <2>1, <2>2, <2>3
<1>9. id = "rfc8414.metadata.signed_metadata_valid" => "BadSignedMetadata" \notin world.as
  BY <1>4, OthersPass
<1> QED
  BY <1>6, <1>7, <1>8, <1>9

\* A resource server that takes any token does not refuse a forged one for it.
LEMMA AnyTokenAnswered ==
  ASSUME NEW s, Fit(s), NEW q, q.token = Forged, NEW at,
         "AcceptAnyToken" \in world.rs, "RequireDPoP" \notin world.rs
  PROVE  handleMCP(world.rs, s, q, at).status # 401
<1>1. Forged # NoToken /\ Forged.n \notin s.revoked
  BY TokensShown DEF Fit
<1>2. Authenticated(world.rs, s, q) \in {Reply(403, {"challenge"}), Reply(200, {})}
  BY <1>1 DEF Authenticated
<1>3. TurnedAway(world.rs).status = 400
  BY ReplyShown, RefusedShown DEF TurnedAway
<1> QED
  BY <1>2, <1>3, ReplyShown DEF handleMCP

LEMMA AnyTokenSeen ==
  ASSUME Dialogue, Seen, Passing("mcp.token.invalid_rejected"), "AcceptAnyToken" \in world.rs
  PROVE  Hidden("AcceptAnyToken")
<1> DEFINE id == "mcp.token.invalid_rejected"
<1>1. PICK q : q = OneShot(id)
  OBVIOUS
<1>2. q.to = "mcp" /\ q.token = Forged
  BY <1>1, Others, EndpointsShown
<1>3. id \notin {WrongHTU} \cup Exchanges \cup Holders
  BY NotHeld DEF Endpoints
<1>4. PICK a : AnswerTo(q, a) /\ Passes(id, a)
  BY <1>1, <1>2, <1>3, OneShotPasses
<1>5. a.status = 401
  BY <1>4, OthersPass
<1>6. PICK s, at : Fit(s) /\ a = handleMCP(world.rs, s, q, at)
  BY <1>2, <1>4 DEF AnswerTo, CallAnswer, Suits
<1>7. "RequireDPoP" \in world.rs
  BY <1>2, <1>5, <1>6, AnyTokenAnswered
<1> QED
  BY <1>7 DEF Hidden

(***************************************************************************)
(* The rows that prove possession of a key, and may have to ask twice.     *)
(***************************************************************************)
LEMMA LastTold ==
  ASSUME Dialogue, Seen, said # <<>>
  PROVE  \E talk : /\ Told(talk, said[Len(said)])
                   /\ Len(talk) \in Nat /\ Len(said) = Len(talk) + 1
                   /\ talk = <<>> <=> Len(talk) = 0
                   /\ talk # <<>> => talk[1] = said[1]
                   /\ \E S : talk \in Seq(S)
<1>1. PICK S : said \in Seq(S)
  BY DEF Seen
<1>2. PICK k : k = Len(said)
  OBVIOUS
<1>3. k \in Nat \ {0} /\ DOMAIN said = 1..k
  BY <1>1, <1>2
<1>4. PICK talk, a : talk = SubSeq(said, 1, k - 1) /\ a = said[k]
  OBVIOUS
<1>a. k \in DOMAIN said
  BY <1>3
<1>5. Told(talk, a)
  BY <1>4, <1>a DEF Dialogue
<1>6. /\ talk \in Seq(S) /\ Len(talk) = k - 1
      /\ \A i \in 1..(k - 1) : talk[i] = said[i]
  <2>1. \A i \in 1..(k - 1) : said[i] \in S
    BY <1>1, <1>2, <1>3
  <2>2. talk = [i \in 1..(k - 1) |-> said[i]]
    BY <1>1, <1>2, <1>3, <1>4
  <2> QED
    BY <1>3, <2>1, <2>2
<1>7. Len(talk) \in Nat /\ Len(said) = Len(talk) + 1 /\ (talk = <<>> <=> Len(talk) = 0)
  BY <1>2, <1>3, <1>6
<1>8. talk # <<>> => talk[1] = said[1]
  BY <1>2, <1>3, <1>6, <1>7
<1>9. Told(talk, said[Len(said)])
  BY <1>2, <1>4, <1>5
<1>10. \E T : talk \in Seq(T)
  BY <1>6
<1> QED
  BY <1>7, <1>8, <1>9, <1>10

LEMMA ProvingShown ==
  \A talk, htu, nonce : Proving(talk, htu, nonce).to = "token" /\ Proving(talk, htu, nonce) # Nothing
<1>1. Nothing.to = "nobody"
  BY DEF Nothing
<1> QED
  BY <1>1, RequestsShown

\* What is wrong with the proof of such a request.
LEMMA ProofJudged ==
  ASSUME next \in Nat \ {0}, NEW talk, NEW htu, NEW nonce, NEW q, q = Proving(talk, htu, nonce)
  PROVE  /\ q.proof # NoProof /\ q.proof.key = next
         /\ "RejectValidDPoP" \in world.as => Problem(world.as, q) # Blank
         /\ "SkipDPoPNonce" \notin world.as /\ ~nonce => Problem(world.as, q) = "use_dpop_nonce"
         /\ /\ "SkipDPoPNonce" \in world.as \/ nonce
            /\ "AcceptWrongHTU" \in world.as /\ "RejectValidDPoP" \notin world.as
            => Problem(world.as, q) = Blank
<1>1. PICK proof : proof = Signed(talk, htu, nonce)
  OBVIOUS
<1>2. q.proof = proof
  BY <1>1, RequestsShown
<1>3. proof # NoProof /\ proof.key = next /\ proof.htu = htu /\ proof.nonce = nonce
  BY <1>1, SignedShown
<1>4. Problem(world.as, q) = ProofProblem(world.as, proof)
  BY <1>2, <1>3 DEF Problem
<1>5. Blank \notin {"use_dpop_nonce", "invalid_dpop_proof"}
  BY Zenon DEF Blank
<1>6. "RejectValidDPoP" \in world.as => ProofProblem(world.as, proof) # Blank
  BY <1>5 DEF ProofProblem
<1>7. "SkipDPoPNonce" \notin world.as /\ ~nonce => ProofProblem(world.as, proof) = "use_dpop_nonce"
  BY <1>3 DEF ProofProblem
<1>8. /\ "SkipDPoPNonce" \in world.as \/ nonce
      /\ "AcceptWrongHTU" \in world.as /\ "RejectValidDPoP" \notin world.as
      => ProofProblem(world.as, proof) = Blank
  BY <1>3 DEF ProofProblem
<1> QED
  BY <1>2, <1>3, <1>4, <1>6, <1>7, <1>8

\* The check whose proof is tampered with.
LEMMA AsksTampering ==
  ASSUME NEW talk
  PROVE  /\ talk = <<>> => Asks(WrongHTU, talk) = Proving(talk, "token", FALSE)
         /\ talk # <<>> /\ Len(talk) = 1 =>
              Asks(WrongHTU, talk) = Proving(talk, "elsewhere", talk[1] # Lost /\ talk[1].nonce)
         /\ talk # <<>> /\ Len(talk) # 1 => Asks(WrongHTU, talk) = Nothing
<1> DEFINE first == Proving(talk, "token", FALSE)
           second == Proving(talk, "elsewhere", talk[1] # Lost /\ talk[1].nonce)
<1> HIDE DEF first, second
<1> SUFFICES Asks(WrongHTU, talk) = IF talk = <<>> THEN first ELSE IF Len(talk) = 1 THEN second ELSE Nothing
  BY DEF first, second
<1> QED
  BY Classes DEF Asks, first, second

LEMMA ExchangesSeen ==
  ASSUME Dialogue, Seen, next \in Nat \ {0}, NEW id \in Exchanges, Passing(id)
  PROVE  /\ id = "dpop.token.accepts_proof" => "RejectValidDPoP" \notin world.as
         /\ id = "dpop.token.binds_cnf_jkt" => "NoCnfBinding" \notin world.as
<1>1. \A talk : Request(talk) = Asks(id, talk)
  BY DEF Passing, Request
<1>2. said # <<>>
  <2>1. Asks(id, <<>>) = Proving(<<>>, "token", FALSE)
    BY Classes, ToSetNone DEF Asks
  <2> QED
    BY <1>1, <2>1, ProvingShown DEF Passing, Pending
<1>3. PICK talk : Told(talk, said[Len(said)])
  BY <1>2, LastTold
<1>4. PICK a : a = said[Len(said)]
  OBVIOUS
<1>5. a # Lost /\ Passes(id, a)
  BY <1>2, <1>4, RulesPass DEF Passing
<1>6. PICK r : r = Request(talk) /\ r.to # "nobody" /\ AnswerTo(r, a)
  BY <1>3, <1>4, <1>5 DEF Told
<1>7. Nothing.to = "nobody"
  BY DEF Nothing
<1>8. PICK htu, nonce : r = Proving(talk, htu, nonce)
  BY <1>1, <1>6, <1>7, AsksProving
<1>9. PICK s : Fit(s) /\ a = handleToken(world.as, s, r)
  BY <1>6, <1>8, ProvingShown, AnswerOfToken
<1>10. /\ a.status = 200 => /\ ~Denied(world.as, s, r)
                            /\ a.token.jkt = IF r.proof # NoProof /\ "NoCnfBinding" \notin world.as
                                             THEN r.proof.key ELSE NoKey
  BY <1>8, <1>9, RequestsShown, MintAnswered
<1>11. ASSUME id = "dpop.token.accepts_proof" PROVE "RejectValidDPoP" \notin world.as
  <2>1. a.status = 200
    BY <1>5, <1>11, OthersPass
  <2> QED
    BY <1>8, <1>10, <2>1, ProofJudged DEF Denied
<1>12. ASSUME id = "dpop.token.binds_cnf_jkt" PROVE "NoCnfBinding" \notin world.as
  <2>1. a.status = 200 /\ a.token.jkt = next
    BY <1>5, <1>12, OthersPass
  <2> QED
    BY <1>10, <2>1 DEF NoKey
<1> QED
  BY <1>11, <1>12

LEMMA NonceIsGiven ==
  ASSUME WireAuth, Ground, next \in Nat \ {0}, ~MethodMismatch, "SkipDPoPNonce" \notin world.as,
         NEW q, q = Proving(<<>>, "token", FALSE), NEW a, AnswerTo(q, a)
  PROVE  a.nonce
<1>1. q.to = "token" /\ q.auth = ClientAuth
  <2>1. \A nonce : LET r == Proving(<<>>, "token", nonce) IN r.to = "token" /\ r.auth = ClientAuth
    BY RequestsShown
  <2> QED
    BY <2>1, Zenon
<1>2. PICK s : Fit(s) /\ a = handleToken(world.as, s, q)
  BY <1>1, AnswerOfToken
<1>3. ~Mismatched(world.as, s, q)
  BY <1>1, <1>2, Matched
<1>4. Problem(world.as, q) = "use_dpop_nonce"
  BY ProofJudged
<1>5. Denied(world.as, s, q)
  <2>1. "use_dpop_nonce" # Blank
    BY Zenon DEF Blank
  <2> QED
    BY <1>4, <2>1 DEF Denied
<1> QED
  BY <1>2, <1>3, <1>4, <1>5, DeniedOf

\* A tampered proof is only looked at once it carries the nonce the server gave.
LEMMA WrongHTUSeen ==
  ASSUME Dialogue, Seen, WireAuth, Ground, next \in Nat \ {0}, Passing(WrongHTU),
         "AcceptWrongHTU" \in world.as, said[1] # Lost
  PROVE  Hidden("AcceptWrongHTU")
<1> SUFFICES ASSUME ~Hidden("AcceptWrongHTU") PROVE FALSE
  OBVIOUS
<1>1. \A talk : Request(talk) = Asks(WrongHTU, talk)
  BY DEF Passing, Request
<1>2. "RejectValidDPoP" \notin world.as /\ ~MethodMismatch /\ ~DeclinesInSilence
  BY DEF Hidden
<1>3. PICK q : q = Proving(<<>>, "token", FALSE)
  OBVIOUS
<1>a. Asks(WrongHTU, <<>>) = q /\ q # Nothing
  BY <1>3, AsksTampering, ProvingShown
<1>4. said # <<>>
  BY <1>1, <1>a DEF Passing, Pending
<1>5. PICK talk : /\ Told(talk, said[Len(said)])
                  /\ Len(talk) \in Nat /\ Len(said) = Len(talk) + 1
                  /\ talk = <<>> <=> Len(talk) = 0
                  /\ talk # <<>> => talk[1] = said[1]
  BY <1>4, LastTold
<1>6. PICK a : a = said[Len(said)]
  OBVIOUS
<1>7. a # Lost /\ Undecided(WrongHTU, said, a) = Blank /\ Passes(WrongHTU, a)
  BY <1>4, <1>6, RulesPass DEF Passing
<1>8. PICK r : r = Asks(WrongHTU, talk) /\ r.to # "nobody" /\ AnswerTo(r, a)
  BY <1>1, <1>5, <1>6, <1>7 DEF Told
<1>9. Nothing.to = "nobody"
  BY DEF Nothing
<1>10. Len(talk) # 0
  <2>1. Len(said) = 1 => Asks(WrongHTU, said) # Nothing
    BY <1>4, AsksTampering, ProvingShown
  <2> QED
    BY <1>1, <1>5, <2>1 DEF Passing, Pending
<1> DEFINE fresh == talk[1] # Lost /\ talk[1].nonce
<1>11. r = Proving(talk, "elsewhere", fresh)
  BY <1>5, <1>8, <1>9, <1>10, AsksTampering
<1>12. "SkipDPoPNonce" \in world.as \/ fresh
  <2>1. Told(<<>>, said[1])
    BY <1>4, FirstTold
  <2>2. AnswerTo(q, said[1])
    BY <1>1, <1>a, <2>1 DEF Told
  <2> QED
    BY <1>2, <1>3, <1>5, <1>10, <2>2, NonceIsGiven
<1> HIDE DEF fresh
<1>13. r = Proving(talk, "elsewhere", fresh)
  BY <1>11 DEF fresh
<1>14. PICK s : Fit(s) /\ a = handleToken(world.as, s, r)
  BY <1>8, <1>13, ProvingShown, AnswerOfToken
<1>15. r.grant = "client_credentials" /\ r.auth = ClientAuth /\ r.resources = {}
  BY <1>13, RequestsShown
<1>16. ~Denied(world.as, s, r)
  <2>1. ~Mismatched(world.as, s, r)
    BY <1>2, <1>14, <1>15, Matched
  <2>2. Problem(world.as, r) = Blank
    BY <1>2, <1>12, <1>13, ProofJudged
  <2> QED
    BY <2>1, <2>2 DEF Denied
<1>17. WrongHTU \in SelfMinted
  BY DEF SelfMinted
<1>18. CASE "NoClientCredentials" \in world.as
  <2>1. "NoGrantTypesAdvertised" \in world.as
    BY <1>17, <1>18, GrantOffered DEF Passing
  <2>2. "BadErrorShape" \notin world.as
    BY <1>2, <1>18, <2>1 DEF DeclinesInSilence
  <2>3. Refusal(world.as, a, 400, "unsupported_grant_type")
    BY <1>14, <1>15, <1>16, <1>18, MintAnswered
  <2>4. a.error # "unsupported_grant_type"
    BY <1>7, <1>17, Decided
  <2> QED
    BY <2>2, <2>3, <2>4 DEF Refusal
<1>19. CASE "NoClientCredentials" \notin world.as
  <2>2. a.status = 200
    BY <1>14, <1>15, <1>16, <1>19, MintAnsweredPlain
  <2> QED
    BY <1>7, <2>2, OthersPass
<1> QED
  BY <1>18, <1>19

(***************************************************************************)
(* The rows that hold a token.                                             *)
(***************************************************************************)
LEMMA NothingLost ==
  ASSUME Dialogue, Seen, Lossless, pc = "checks"
  PROVE  Lost \notin ToSet(said)
<1> SUFFICES ASSUME NEW k \in DOMAIN said, said[k] = Lost PROVE FALSE
  BY DEF ToSet
<1>1. PICK talk, a : talk = SubSeq(said, 1, k - 1) /\ a = said[k]
  OBVIOUS
<1>2. Told(talk, a)
  BY <1>1 DEF Dialogue
<1> QED
  BY <1>1, <1>2 DEF Told, Dark

LEMMA LengthSince ==
  ASSUME NEW S, NEW talk \in Seq(S), ~Obtaining(talk)
  PROVE  /\ Len(Since(talk)) = IF opts.subjectToken THEN Len(talk) ELSE Len(talk) - 1
         /\ Len(Since(talk)) \in Nat /\ (Since(talk) = <<>> <=> Len(Since(talk)) = 0)
<1>1. CASE opts.subjectToken
  <2>1. Since(talk) = talk
    BY <1>1 DEF Since
  <2> QED
    BY <1>1, <2>1
<1>2. CASE ~opts.subjectToken
  <2>1. Since(talk) = Tail(talk) /\ talk # <<>>
    BY <1>2 DEF Since, Obtaining
  <2>2. Tail(talk) \in Seq(S) /\ Len(Tail(talk)) = Len(talk) - 1 /\ Len(talk) \in Nat
    BY <2>1
  <2>3. Tail(talk) = <<>> <=> Len(Tail(talk)) = 0
    BY <2>2
  <2> QED
    BY <1>2, <2>1, <2>2, <2>3
<1> QED
  BY <1>1, <1>2

\* A check that holds a token puts it somewhere.
LEMMA UsedOnce ==
  ASSUME NEW id \in Holders, NEW talk, Since(talk) = <<>>
  PROVE  Uses(id, talk) # Nothing
<1>1. Len(Since(talk)) = 0
  OBVIOUS
<1>2. \A token, proof : Present(token, proof) # Nothing /\ About("introspect", token) # Nothing
                          /\ About("revoke", token) # Nothing
  <2>1. \A token, proof : Present(token, proof).to = "mcp" /\ About("introspect", token).to = "introspect"
                            /\ About("revoke", token).to = "revoke"
    BY DEF Present, About
  <2> QED
    BY <2>1 DEF Nothing
<1>3. PresentWithRetry(talk) # Nothing
  BY <1>2 DEF PresentWithRetry
<1>4. id \in {"rfc7662.introspect.active", Revocation, "smoke.present.token_accepted"}
  BY DEF Holders
<1> QED
  BY <1>1, <1>2, <1>3, <1>4 DEF Uses, Revocation

\* It passes on the answer to where it put it last.
LEMMA HeldTold ==
  ASSUME Dialogue, Seen, Lossless, NEW id \in Holders, Passing(id)
  PROVE  \E talk, a : /\ AnswerTo(Uses(id, talk), a) /\ Uses(id, talk).to # "nobody" /\ Passes(id, a)
                      /\ Len(Since(talk)) \in Nat /\ Len(Since(said)) = Len(Since(talk)) + 1
                      /\ Uses(id, said) = Nothing
                      /\ Obtained(talk) = Obtained(said) /\ Verified(Obtained(said))
<1>1. \A talk : Request(talk) = Asks(id, talk)
  BY DEF Passing, Request
<1>2. Lost \notin ToSet(said)
  BY NothingLost DEF Passing
<1>3. Form("client_credentials") # Nothing /\ Nothing.to = "nobody"
  BY DEF Form, Nothing
<1>4. Asks(id, said) = Nothing
  BY <1>1 DEF Passing, Pending
<1>5. ~Obtaining(said)
  BY <1>2, <1>3, <1>4, AsksHolding
<1>6. Obtained(said) # NoToken
  <2>1. CASE said = <<>>
    <3>1. Obtained(said) = Pasted
      BY <1>5, <2>1 DEF Obtaining, Obtained
    <3> QED
      BY <3>1, PastedShown
  <2>2. CASE said # <<>>
    BY <2>2, RulesPass, Decided DEF Passing
  <2> QED
    BY <2>1, <2>2
<1>7. Uses(id, said) = Nothing
  BY <1>2, <1>4, <1>5, <1>6, AsksHolding
<1>8. PICK S : said \in Seq(S)
  BY DEF Seen
<1>9. /\ Len(Since(said)) = IF opts.subjectToken THEN Len(said) ELSE Len(said) - 1
      /\ Len(Since(said)) \in Nat \ {0} /\ Len(said) \in Nat \ {0}
  <2>1. Since(said) # <<>>
    BY <1>7, UsedOnce
  <2> QED
    BY <1>5, <1>8, <2>1, LengthSince
<1>10. said # <<>>
  BY <1>9
<1>11. PICK talk : /\ Told(talk, said[Len(said)])
                   /\ Len(talk) \in Nat /\ Len(said) = Len(talk) + 1
                   /\ talk = <<>> <=> Len(talk) = 0
                   /\ talk # <<>> => talk[1] = said[1]
                   /\ \E T : talk \in Seq(T)
  BY <1>10, LastTold
<1>12. PICK a : a = said[Len(said)]
  OBVIOUS
<1>13. a # Lost /\ Passes(id, a)
  BY <1>10, <1>12, RulesPass DEF Passing
<1>14. PICK r : r = Asks(id, talk) /\ r.to # "nobody" /\ AnswerTo(r, a)
  BY <1>1, <1>11, <1>12, <1>13 DEF Told
<1>15. ~Obtaining(talk) /\ Obtained(talk) = Obtained(said)
  <2>1. ~opts.subjectToken => talk # <<>>
    BY <1>9, <1>11
  <2> QED
    BY <1>11, <2>1 DEF Obtaining, Obtained
<1>16. r = Uses(id, talk)
  <2>1. Lost \notin ToSet(talk)
    BY <1>3, <1>14, Classes, AsksLost
  <2> QED
    BY <1>6, <1>14, <1>15, <2>1, AsksHolding
<1>17. Len(Since(talk)) \in Nat /\ Len(Since(said)) = Len(Since(talk)) + 1
  BY <1>9, <1>11, <1>15, LengthSince
<1>18. Verified(Obtained(said))
  BY <1>2, <1>5, <1>6, ObtainedFit DEF Passing, Holding
<1> QED
  BY <1>7, <1>13, <1>14, <1>15, <1>16, <1>17, <1>18

LEMMA UsesShown ==
  \A talk :
    /\ Uses("rfc7662.introspect.active", talk) =
         IF Len(Since(talk)) = 0 THEN About("introspect", Obtained(talk)) ELSE Nothing
    /\ Uses(Revocation, talk) =
         IF Len(Since(talk)) = 0 THEN About("revoke", Obtained(talk))
         ELSE IF Len(Since(talk)) = 1 THEN About("introspect", Obtained(talk)) ELSE Nothing
    /\ Uses("smoke.present.token_accepted", talk) = PresentWithRetry(talk)
BY DEF Uses, Revocation

LEMMA AboutShown ==
  \A to, token : LET q == About(to, token) IN
    q.to = to /\ q.token = token /\ q.auth = ClientAuth /\ (to # "nobody" => q # Nothing)
BY DEF About, Nothing

\* What introspection answers about a token the server knows.
LEMMA IntrospectionAnswered ==
  ASSUME NEW s, Fit(s), NEW q, q.to = "introspect", q.auth = ClientAuth, Verified(q.token)
  PROVE  /\ "IntrospectInactive" \in world.as => ~Answered(s, q).active
         /\ /\ "IgnoreRevoke" \in world.as /\ "IntrospectInactive" \notin world.as
            /\ ~IntrospectionClosed
            => Answered(s, q).active
<1>1. Answered(s, q) = handleIntrospect(world.as, s, q)
  BY DEF Answered
<1>2. CASE "SecretToIntrospect" \in world.as /\ q.auth = Blank
  <2>1. Answered(s, q) = tokenError(world.as, 401, "invalid_client")
    BY <1>1, <1>2 DEF handleIntrospect
  <2>2. ~Answered(s, q).active
    BY <2>1, RefusalOf DEF Refusal
  <2> QED
    BY <1>2, <2>2 DEF IntrospectionClosed
<1>3. CASE ~("SecretToIntrospect" \in world.as /\ q.auth = Blank)
  <2> DEFINE taken == Verified(q.token) /\ q.token.n \notin s.revoked /\ "IntrospectInactive" \notin world.as
  <2>1. Answered(s, q) = [Status(200) EXCEPT !.active = taken]
    BY <1>1, <1>3 DEF handleIntrospect
  <2>2. "IgnoreRevoke" \in world.as /\ "IntrospectInactive" \notin world.as => taken
    BY DEF Fit
  <2>3. "IntrospectInactive" \in world.as => ~taken
    OBVIOUS
  <2> HIDE DEF taken
  <2>4. Answered(s, q).active = taken
    BY <2>1 DEF Status
  <2> QED
    BY <2>2, <2>3, <2>4
<1> QED
  BY <1>2, <1>3

LEMMA IntrospectSeen ==
  ASSUME Dialogue, Seen, Lossless, Passing("rfc7662.introspect.active")
  PROVE  "IntrospectInactive" \notin world.as
<1> DEFINE id == "rfc7662.introspect.active"
<1>1. id \in Holders
  BY DEF Holders
<1>2. PICK talk, a : /\ AnswerTo(Uses(id, talk), a) /\ Uses(id, talk).to # "nobody" /\ Passes(id, a)
                     /\ Obtained(talk) = Obtained(said) /\ Verified(Obtained(said))
  BY <1>1, HeldTold
<1>3. PICK q : q = Uses(id, talk)
  OBVIOUS
<1>4. Nothing.to = "nobody"
  BY DEF Nothing
<1>5. q = About("introspect", Obtained(talk))
  BY <1>2, <1>3, <1>4, UsesShown
<1>6. q.to = "introspect" /\ q.auth = ClientAuth /\ Verified(q.token)
  BY <1>2, <1>5, AboutShown
<1>7. PICK s : Fit(s) /\ a = Answered(s, q)
  BY <1>2, <1>3, <1>6, AnswerOf DEF Suits
<1>8. a.active
  BY <1>2, OthersPass
<1> QED
  BY <1>6, <1>7, <1>8, IntrospectionAnswered

LEMMA RevocationSeen ==
  ASSUME Dialogue, Seen, Lossless, Passing(Revocation), "IgnoreRevoke" \in world.as
  PROVE  Hidden("IgnoreRevoke")
<1>1. Revocation \in Holders
  BY DEF Holders
<1>2. PICK talk, a : /\ AnswerTo(Uses(Revocation, talk), a) /\ Uses(Revocation, talk).to # "nobody"
                     /\ Passes(Revocation, a)
                     /\ Len(Since(talk)) \in Nat /\ Len(Since(said)) = Len(Since(talk)) + 1
                     /\ Uses(Revocation, said) = Nothing
                     /\ Obtained(talk) = Obtained(said) /\ Verified(Obtained(said))
  BY <1>1, HeldTold
<1>3. PICK q : q = Uses(Revocation, talk)
  OBVIOUS
<1>4. Nothing.to = "nobody"
  BY DEF Nothing
<1>5. Len(Since(said)) # 1
  BY <1>2, UsesShown, AboutShown
<1>6. q = About("introspect", Obtained(talk))
  BY <1>2, <1>3, <1>4, <1>5, UsesShown
<1>7. q.to = "introspect" /\ q.auth = ClientAuth /\ Verified(q.token)
  BY <1>2, <1>6, AboutShown
<1>8. PICK s : Fit(s) /\ a = Answered(s, q)
  BY <1>2, <1>3, <1>7, AnswerOf DEF Suits
<1>9. ~a.active
  BY <1>2, OthersPass
<1>10. "IntrospectInactive" \in world.as \/ IntrospectionClosed
  BY <1>7, <1>8, <1>9, IntrospectionAnswered
<1> QED
  BY <1>10 DEF Hidden

\* A resource server that asks for more scope lets nobody in.
LEMMA ScopeAnswered ==
  ASSUME NEW s, NEW q, NEW at, "InsufficientScope" \in world.rs
  PROVE  handleMCP(world.rs, s, q, at).status \in {400, 401, 403}
<1>1. Authenticated(world.rs, s, q) \in
        {Reply(401, Challenge(world.rs)), Reply(401, Challenge(world.rs) \cup {"dpopNonce"}),
         Reply(403, {"challenge"})}
  BY DEF Authenticated
<1>2. Authenticated(world.rs, s, q).status \in {401, 403}
  BY <1>1, ReplyShown
<1>3. TurnedAway(world.rs).status = 400
  BY ReplyShown, RefusedShown DEF TurnedAway
<1> QED
  BY <1>2, <1>3, ReplyShown DEF handleMCP

LEMMA PresentationSeen ==
  ASSUME Dialogue, Seen, Lossless, Passing("smoke.present.token_accepted")
  PROVE  "InsufficientScope" \notin world.rs
<1> DEFINE id == "smoke.present.token_accepted"
<1>1. id \in Holders
  BY DEF Holders
<1>2. PICK talk, a : AnswerTo(Uses(id, talk), a) /\ Uses(id, talk).to # "nobody" /\ Passes(id, a)
  BY <1>1, HeldTold
<1>3. PICK q : q = Uses(id, talk)
  OBVIOUS
<1>4. q = PresentWithRetry(talk)
  BY <1>3, UsesShown
<1>5. q.to = "mcp"
  <2>1. \A token, proof : Present(token, proof).to = "mcp"
    BY DEF Present
  <2>2. Nothing.to = "nobody"
    BY DEF Nothing
  <2>3. PresentWithRetry(talk) = Nothing \/ \E token, proof : PresentWithRetry(talk) = Present(token, proof)
    <3> DEFINE dpop == "dpopRequired" \in disc
               proof1 == IF dpop THEN Signed(talk, "resource", FALSE) ELSE NoProof
               proof2 == IF dpop THEN Signed(talk, "resource", TRUE) ELSE NoProof
               held == Obtained(talk)
    <3>1. PresentWithRetry(talk) \in {Nothing, Present(held, proof1), Present(held, proof2)}
      BY DEF PresentWithRetry
    <3> HIDE DEF proof1, proof2, held
    <3> QED
      BY <3>1
  <2> QED
    BY <1>2, <1>3, <1>4, <2>1, <2>2, <2>3
<1>6. PICK s, at : a = handleMCP(world.rs, s, q, at)
  BY <1>2, <1>3, <1>5 DEF AnswerTo, CallAnswer
<1>7. a.status < 400
  BY <1>2, OthersPass
<1> QED
  BY <1>6, <1>7, ScopeAnswered

(***************************************************************************)
(* The rows judged without a request: what a server lacks is in no view of *)
(* it.                                                                     *)
(***************************************************************************)
Known ==
  Findable \cup RegisteredFacts(world.as)
    \cup {"subjectToken", "actorToken", "mcpTarget", "presentEnabled", "client", "registered"}

LEMMA ViewKnown == Ground => View \subseteq Known
BY DEF Ground, Found, View, Known

LEMMA SourcesApart ==
  /\ {"issuerMatch", "mtlsAliases", "tokenEndpoint"} \cap Known \subseteq handleDiscovery(world.as)
  /\ {"challengeMetadata"} \cap Known \subseteq Challenge(world.rs)
  /\ {"prmJSON", "prmServers", "prmCanonical", "noQueryMethod"} \cap Known \subseteq handlePRM(world.rs)
  /\ {"applicationTypeKept", "issuerBound"} \cap Known \subseteq RegisteredFacts(world.as)
  /\ "tokenEndpoint" \in Known => ~(opts.target /\ "UnresolvableAuthServer" \in world.rs)
<1>1. Challenge(world.rs) \subseteq {"challenge", "challengeMetadata", "challengeScope"}
  BY DEF Challenge
<1>2. handlePRM(world.rs) \subseteq {"prm", "prmJSON", "prmServers", "prmCanonical", "twoPRMScopes", "noQueryMethod",
                                      "headerMethod", "dpopRequired"}
  BY DEF handlePRM
<1>3. handleDiscovery(world.as) \cap
        {"challengeMetadata", "prmJSON", "prmServers", "prmCanonical", "noQueryMethod",
         "applicationTypeKept", "issuerBound"} = {}
  BY DEF handleDiscovery
<1>4. RegisteredFacts(world.as) \subseteq {"applicationTypeKept", "issuerBound"}
  BY DEF RegisteredFacts
<1> QED
  BY <1>1, <1>2, <1>3, <1>4 DEF Known, Findable

LEMMA IssuerLacks ==
  /\ "MalformedDiscovery" \in world.as => "issuerMatch" \notin handleDiscovery(world.as)
  /\ "IncoherentMTLS" \in world.as => "mtlsAliases" \notin handleDiscovery(world.as)
  /\ "MangleApplicationType" \in world.as => "applicationTypeKept" \notin RegisteredFacts(world.as)
  /\ "ForeignRegistrationURI" \in world.as /\ "NoClientConfigEndpoint" \notin world.as =>
       "issuerBound" \notin RegisteredFacts(world.as)
<1>1. "MalformedDiscovery" \in world.as => "issuerMatch" \notin handleDiscovery(world.as)
  BY DEF handleDiscovery
<1>2. "IncoherentMTLS" \in world.as => "mtlsAliases" \notin handleDiscovery(world.as)
  BY DEF handleDiscovery
<1> QED
  BY <1>1, <1>2 DEF RegisteredFacts

LEMMA ResourceLacks ==
  /\ "OmitChallenge" \in world.rs => "challengeMetadata" \notin Challenge(world.rs)
  /\ "MalformedPRM" \in world.rs => "prmJSON" \notin handlePRM(world.rs)
  /\ "OmitAuthorizationServers" \in world.rs => "prmServers" \notin handlePRM(world.rs)
  /\ "NonCanonicalResource" \in world.rs => "prmCanonical" \notin handlePRM(world.rs)
  /\ "QueryMethod" \in world.rs /\ "MalformedPRM" \notin world.rs =>
       "noQueryMethod" \notin handlePRM(world.rs)
<1>1. "OmitChallenge" \in world.rs => "challengeMetadata" \notin Challenge(world.rs)
  BY DEF Challenge
<1>2. "MalformedPRM" \in world.rs => "prmJSON" \notin handlePRM(world.rs)
  BY DEF handlePRM
<1>3. "OmitAuthorizationServers" \in world.rs => "prmServers" \notin handlePRM(world.rs)
  BY DEF handlePRM
<1>4. "NonCanonicalResource" \in world.rs => "prmCanonical" \notin handlePRM(world.rs)
  BY DEF handlePRM
<1>5. "QueryMethod" \in world.rs /\ "MalformedPRM" \notin world.rs =>
        "noQueryMethod" \notin handlePRM(world.rs)
  BY DEF handlePRM
<1> QED
  BY <1>1, <1>2, <1>3, <1>4, <1>5

\* Which server a violation is one of.
LEMMA OfTheIssuer ==
  {"MalformedDiscovery", "IncoherentMTLS", "MangleApplicationType", "ForeignRegistrationURI",
   "BadSignedMetadata", "AcceptUnknownGrant", "BadErrorShape", "RejectResource", "IgnoreResourceParam",
   "ErrorOnMultipleResources", "FailImpersonation", "RejectDelegation", "OmitAct", "ForgeActChain",
   "IgnoreMayAct", "WidenScope", "AcceptBadSubject", "RejectValidDPoP", "NoCnfBinding",
   "AcceptWrongHTU", "IntrospectInactive", "DeadRevocation", "IgnoreRevoke", "RejectCIMDClient"}
  \subseteq ASViolations
BY DEF ASViolations

LEMMA OfTheResource ==
  {"OmitChallenge", "MalformedPRM", "OmitAuthorizationServers", "UnresolvableAuthServer",
   "NonCanonicalResource", "QueryMethod", "NoSuffixPRM", "AcceptAnyToken", "InsufficientScope"}
  \subseteq RSViolations
BY DEF RSViolations

\* A fact a violation keeps out of the view, or hides.
Kept(violation, fact) ==
  violation \in Switches /\ fact \in Known /\ (violation = "UnresolvableAuthServer" => opts.target)
    => Hidden(violation)

LEMMA JudgedKept ==
  ASSUME world \in Worlds, NEW j \in Judging
  PROVE  Kept(j[1], j[3])
<1>1. \A x \in Switches : (x \in ASViolations => x \in world.as) /\ (x \in RSViolations => x \in world.rs)
  BY SwitchedOn
<1>2. /\ Kept("MalformedDiscovery", "issuerMatch") /\ Kept("IncoherentMTLS", "mtlsAliases")
      /\ Kept("MangleApplicationType", "applicationTypeKept")
  BY <1>1, OfTheIssuer, SourcesApart, IssuerLacks DEF Kept
<1>3. Kept("ForeignRegistrationURI", "issuerBound")
  <2>1. "NoClientConfigEndpoint" \in world.as => Hidden("ForeignRegistrationURI")
    BY DEF Hidden
  <2> QED
    BY <1>1, <2>1, OfTheIssuer, SourcesApart, IssuerLacks DEF Kept
<1>4. /\ Kept("OmitChallenge", "challengeMetadata") /\ Kept("MalformedPRM", "prmJSON")
      /\ Kept("OmitAuthorizationServers", "prmServers") /\ Kept("NonCanonicalResource", "prmCanonical")
      /\ Kept("UnresolvableAuthServer", "tokenEndpoint")
  BY <1>1, OfTheResource, SourcesApart, ResourceLacks DEF Kept
<1>5. Kept("QueryMethod", "noQueryMethod")
  <2>1. "MalformedPRM" \in world.rs => Hidden("QueryMethod")
    BY DEF Hidden
  <2> QED
    BY <1>1, <2>1, OfTheResource, SourcesApart, ResourceLacks DEF Kept
<1> QED
  BY <1>2, <1>3, <1>4, <1>5 DEF Judging

----------------------------------------------------------------------------
(***************************************************************************)
(* A row that passes speaks for the server: the violation it is for is not *)
(* there, or is one of those something else hides.                         *)
(***************************************************************************)
SeenBy(violation, id) == Passing(id) /\ violation \in Switches => Hidden(violation)

Working == Dialogue /\ Seen /\ WireAuth /\ Ground /\ next \in Nat \ {0}

LEMMA SwitchesApart ==
  ASSUME Ground
  PROVE  \A x \in Switches : (x \in ASViolations => x \in world.as) /\ (x \in RSViolations => x \in world.rs)
BY SwitchedOn DEF Ground

LEMMA BogusRows ==
  ASSUME Working
  PROVE  /\ SeenBy("AcceptUnknownGrant", "oauth21.token.rejects_unknown_grant")
         /\ SeenBy("BadErrorShape", "oauth21.token.error_shape_rfc6749")
BY BogusSeen, SwitchesApart, OfTheIssuer DEF SeenBy, Working

LEMMA MintRows ==
  ASSUME Working
  PROVE  /\ SeenBy("RejectResource", "rfc8707.token.accepts_resource")
         /\ SeenBy("IgnoreResourceParam", "rfc8707.token.reflects_audience")
         /\ SeenBy("ErrorOnMultipleResources", "rfc8707.token.multiple_resources")
BY MintSeen, SwitchesApart, OfTheIssuer DEF SeenBy, Working, Minting

LEMMA DelegationRows ==
  ASSUME Working
  PROVE  /\ SeenBy("RejectDelegation", "rfc8693.delegation.issues_token")
         /\ SeenBy("OmitAct", "rfc8693.delegation.act_present")
         /\ SeenBy("ForgeActChain", "rfc8693.delegation.act_nesting")
         /\ SeenBy("IgnoreMayAct", "rfc8693.delegation.may_act_enforced")
BY DelegationSeen, SwitchesApart, OfTheIssuer DEF SeenBy, Working, Delegations

LEMMA ImpersonationRows ==
  ASSUME Working
  PROVE  /\ SeenBy("FailImpersonation", "rfc8693.impersonation.issues_token")
         /\ SeenBy("WidenScope", "rfc8693.downscope.scope_honored")
         /\ SeenBy("AcceptBadSubject", "rfc8693.error.invalid_grant_on_bad_subject")
BY ImpersonationSeen, SwitchesApart, OfTheIssuer DEF SeenBy, Working, Impersonating

LEMMA EndpointRows ==
  ASSUME Working
  PROVE  /\ SeenBy("DeadRevocation", "rfc7009.advertise.revocation_endpoint")
         /\ SeenBy("NoSuffixPRM", "sep2351.discovery.suffix_path")
         /\ SeenBy("BadSignedMetadata", "rfc8414.metadata.signed_metadata_valid")
         /\ SeenBy("RejectCIMDClient", "cimd.register.url_client_id")
         /\ SeenBy("AcceptAnyToken", "mcp.token.invalid_rejected")
BY DocumentRows, AnyTokenSeen, SwitchesApart, OfTheIssuer, OfTheResource DEF SeenBy, Working

LEMMA ProofRows ==
  ASSUME Working, Lossless
  PROVE  /\ SeenBy("RejectValidDPoP", "dpop.token.accepts_proof")
         /\ SeenBy("NoCnfBinding", "dpop.token.binds_cnf_jkt")
         /\ SeenBy("AcceptWrongHTU", WrongHTU)
<1>1. /\ SeenBy("RejectValidDPoP", "dpop.token.accepts_proof")
      /\ SeenBy("NoCnfBinding", "dpop.token.binds_cnf_jkt")
  BY ExchangesSeen, SwitchesApart, OfTheIssuer DEF SeenBy, Working, Exchanges
<1>2. ASSUME Passing(WrongHTU) PROVE said[1] # Lost
  <2>1. Request(<<>>) = Proving(<<>>, "token", FALSE)
    BY <1>2, AsksTampering DEF Passing, Request
  <2>2. said # <<>>
    BY <1>2, <2>1, ProvingShown DEF Passing, Pending
  <2>3. PICK S : said \in Seq(S)
    BY DEF Working, Seen
  <2>4. 1 \in DOMAIN said
    BY <2>2, <2>3
  <2> QED
    BY <1>2, <2>4, NothingLost DEF Working, Passing, ToSet
<1> QED
  BY <1>1, <1>2, WrongHTUSeen, SwitchesApart, OfTheIssuer DEF SeenBy, Working

LEMMA HeldRows ==
  ASSUME Working, Lossless
  PROVE  /\ SeenBy("IntrospectInactive", "rfc7662.introspect.active")
         /\ SeenBy("IgnoreRevoke", Revocation)
         /\ SeenBy("InsufficientScope", "smoke.present.token_accepted")
BY IntrospectSeen, RevocationSeen, PresentationSeen, SwitchesApart, OfTheIssuer, OfTheResource
   DEF SeenBy, Working

LEMMA ProbeSeen ==
  ASSUME Working, Lossless, NEW p \in Probing
  PROVE  SeenBy(p[1], p[2])
BY BogusRows, MintRows, DelegationRows, ImpersonationRows, EndpointRows, ProofRows, HeldRows DEF Probing

\* A row that needs no request passes on a view with the fact its violation keeps out.
JudgedBy(violation, id) ==
  Current.id = id /\ violation \in Switches /\ "pass" \in Evaluate(Current, View) => Hidden(violation)

LEMMA JudgeSeen ==
  ASSUME Working, next <= Len(Registry), NEW j \in Judging
  PROVE  JudgedBy(j[1], j[2])
<1> SUFFICES ASSUME Current.id = j[2], j[1] \in Switches, "pass" \in Evaluate(Current, View)
             PROVE  Hidden(j[1])
  BY DEF JudgedBy
<1>1. next \in DOMAIN Registry /\ Current = Registry[next] /\ Current \in CheckType
  BY RegistryAssumption DEF Current, Working
<1>2. Current.may = {} /\ j[3] \in Current.judges
  BY <1>1, RowsAssumption
<1>3. FirstUnmet(Current.gates, View) = 0
  BY DEF Evaluate, SkipKind
<1>4. Current.judges \subseteq View
  BY <1>2, <1>3 DEF Evaluate, RunOutcomes
<1>5. j[3] \in Known
  BY <1>2, <1>4, ViewKnown DEF Working
<1>6. ASSUME j[1] = "UnresolvableAuthServer" PROVE opts.target
  <2>1. j[2] = "rfc9728.prm.as_resolvable"
    BY <1>6 DEF Judging
  <2>2. "mcpTarget" \in ToSet(Current.gates)
    BY <1>1, <2>1, RowsAssumption
  <2>3. \A g \in ToSet(Current.gates) : GateHolds(g, View)
    BY <1>1, <1>3, LeastUnmet DEF CheckType, ToSet
  <2>4. "mcpTarget" \in View
    BY <2>2, <2>3 DEF GateHolds
  <2>5. /\ "mcpTarget" \notin Challenge(world.rs) /\ "mcpTarget" \notin handlePRM(world.rs)
        /\ "mcpTarget" \notin handleDiscovery(world.as) /\ "mcpTarget" \notin RegisteredFacts(world.as)
    BY DEF Challenge, handlePRM, handleDiscovery, RegisteredFacts
  <2>6. "mcpTarget" \notin disc \cup plan.facts \cup creds
    BY <2>5 DEF Working, Ground, Found, Findable
  <2> QED
    BY <2>4, <2>6 DEF View
<1>7. Kept(j[1], j[3])
  BY JudgedKept DEF Working, Ground
<1> QED
  BY <1>5, <1>6, <1>7 DEF Kept

----------------------------------------------------------------------------
(***************************************************************************)
(* The rows written so far.  What they speak for stays as it was: the      *)
(* servers, the client and what it was registered with.                    *)
(***************************************************************************)
Deserved(id) ==
  Lossless => \A row \in Rows : row[2] = id /\ row[1] \in Switches => Hidden(row[1])

Silence == \A i \in DOMAIN entries : entries[i].outcome # "pass"

Earned == \A id \in PassedRows : Deserved(id)

Worth ==
  /\ entries \in Seq(RowType) /\ next \in Nat \ {0}
  /\ pc \in Beforehand => Silence
  /\ Earned

LEMMA RulesTyped == \A id, talk : Rules(id, talk) \in Outcomes
BY DEF Rules, Unanswered, Undecided, Outcomes

\* A gate that is not met is no pass.
LEMMA SkippedIsNoPass ==
  ASSUME NEW c, c.may # {}, ~(FirstUnmet(c.gates, View) = 0 /\ c.may # {})
  PROVE  "pass" \notin Evaluate(c, View)
BY DEF Evaluate, SkipKind

LEMMA RowDeserved ==
  ASSUME Working, pc = "checks", next <= Len(Registry), Over,
         NEW o \in IF Applies THEN {Rules(Current.id, said)} ELSE Evaluate(Current, View), o = "pass"
  PROVE  Deserved(Current.id)
<1>1. next \in DOMAIN Registry /\ Current = Registry[next]
  BY RegistryAssumption DEF Current, Working
<1>2. ASSUME Current.may # {} PROVE Passing(Current.id)
  <2>1. Applies
    BY <1>2, SkippedIsNoPass DEF Applies
  <2>2. Rules(Current.id, said) = "pass"
    BY <2>1
  <2> QED
    BY <2>1, <2>2 DEF Passing, Over
<1>4. ASSUME Lossless, NEW row \in Rows, row[2] = Current.id, row[1] \in Switches
      PROVE  Hidden(row[1])
  <2>1. CASE row \in Probing
    <3>1. Current.may # {}
      BY <1>1, <1>4, <2>1, RowsAssumption
    <3>2. SeenBy(row[1], row[2])
      BY <1>4, <2>1, ProbeSeen
    <3> QED
      BY <1>2, <1>4, <3>1, <3>2 DEF SeenBy
  <2>2. CASE row \notin Probing
    <3>1. PICK j \in Judging : row = <<j[1], j[2]>>
      BY <2>2 DEF Rows
    <3>2. row[1] = j[1] /\ row[2] = j[2]
      BY <3>1
    <3>3. Current.may = {}
      BY <1>1, <1>4, <3>2, RowsAssumption
    <3>4. "pass" \in Evaluate(Current, View)
      BY <3>3 DEF Applies
    <3>5. JudgedBy(j[1], j[2])
      BY JudgeSeen
    <3> QED
      BY <1>4, <3>2, <3>4, <3>5 DEF JudgedBy
  <2> QED
    BY <2>1, <2>2
<1> QED
  BY <1>4 DEF Deserved

LEMMA DeservedStays ==
  ASSUME UNCHANGED <<world, client, plan>>, server'.registeredAs = server.registeredAs,
         Lossless' => Lossless
  PROVE  \A id : Deserved(id) => Deserved(id)'
<1>1. ClientAuth' = ClientAuth /\ Switches' = Switches
  BY DEF ClientAuth, Switches
<1>2. (MethodMismatch' <=> MethodMismatch) /\ (IntrospectionClosed' <=> IntrospectionClosed)
        /\ (DeclinesInSilence' <=> DeclinesInSilence)
  BY <1>1 DEF MethodMismatch, IntrospectionClosed, DeclinesInSilence
<1>3. \A violation : Hidden(violation)' <=> Hidden(violation)
  BY <1>2 DEF Hidden
<1> QED
  BY <1>1, <1>3 DEF Deserved

LEMMA PassedIs ==
  \A id : id \in PassedRows <=> \E i \in DOMAIN entries : entries[i].id = id /\ entries[i].outcome = "pass"
<1> SUFFICES ASSUME NEW id
             PROVE  id \in PassedRows <=> \E i \in DOMAIN entries : entries[i].id = id /\ entries[i].outcome = "pass"
  OBVIOUS
<1>1. id \in PassedRows <=> \E row \in Reported : row[2] = "pass" /\ row[1] = id
  BY DEF PassedRows
<1>2. \A row : row \in Reported <=> \E i \in DOMAIN entries : row = <<entries[i].id, entries[i].outcome>>
  BY DEF Reported
<1>3. \A i : <<entries[i].id, entries[i].outcome>>[1] = entries[i].id
              /\ <<entries[i].id, entries[i].outcome>>[2] = entries[i].outcome
  OBVIOUS
<1>4. ASSUME NEW i \in DOMAIN entries, entries[i].id = id, entries[i].outcome = "pass"
      PROVE  id \in PassedRows
  <2>1. <<entries[i].id, entries[i].outcome>> \in Reported
    BY <1>2, <1>4
  <2> QED
    BY <1>1, <1>3, <1>4, <2>1
<1>5. ASSUME id \in PassedRows
      PROVE  \E i \in DOMAIN entries : entries[i].id = id /\ entries[i].outcome = "pass"
  <2>1. PICK row \in Reported : row[2] = "pass" /\ row[1] = id
    BY <1>1, <1>5
  <2>2. PICK i \in DOMAIN entries : row = <<entries[i].id, entries[i].outcome>>
    BY <1>2, <2>1
  <2> QED
    BY <1>3, <2>1, <2>2
<1> QED
  BY <1>4, <1>5

LEMMA SilenceEarns == Silence => Earned
BY PassedIs DEF Silence, Earned

LEMMA SilenceEarnsNext == Silence' => Earned'
<1>1. Silence' => PassedRows' = {}
  BY DEF Silence, PassedRows, Reported
<1> QED
  BY <1>1 DEF Earned

LEMMA EarnedStays ==
  ASSUME Earned, UNCHANGED <<entries, world, client, plan>>,
         server'.registeredAs = server.registeredAs, Lossless' => Lossless
  PROVE  Earned'
<1>1. PassedRows' = PassedRows
  BY DEF PassedRows, Reported
<1> QED
  BY <1>1, DeservedStays DEF Earned

LEMMA WorthInit == InitWire => Worth
<1> SUFFICES ASSUME InitWire PROVE Worth
  OBVIOUS
<1>1. entries = <<>> /\ next = 1
  BY DEF InitWire, Init
<1>2. entries \in Seq(RowType) /\ Silence
  BY <1>1 DEF Silence
<1> QED
  BY <1>1, <1>2, SilenceEarns DEF Worth

\* A row of a prelude is no pass.
LEMMA PreludeRows ==
  ASSUME Worth, Silence, NEW row \in {DiscoveryFailed, RegistrationFailed},
         entries' \in {entries, Append(entries, row)}
  PROVE  entries' \in Seq(RowType) /\ Silence'
<1>1. row \in RowType /\ row.outcome # "pass"
  <2>1. DiscoveryFailed \in RowType /\ RegistrationFailed \in RowType
    BY DEF DiscoveryFailed, RegistrationFailed, RowType, Severities, Outcomes
  <2>2. DiscoveryFailed.outcome = "error" /\ RegistrationFailed.outcome = "error"
    BY DEF DiscoveryFailed, RegistrationFailed
  <2> QED
    BY <2>1, <2>2
<1>2. CASE entries' = entries
  BY <1>2 DEF Worth, Silence
<1>3. CASE entries' = Append(entries, row)
  <2>1. /\ entries' \in Seq(RowType) /\ Len(entries') = Len(entries) + 1
        /\ \A i \in 1..Len(entries) : entries'[i] = entries[i]
        /\ entries'[Len(entries) + 1] = row
    BY <1>1, <1>3, AppendProperties DEF Worth
  <2>2. DOMAIN entries' = 1..(Len(entries) + 1) /\ DOMAIN entries = 1..Len(entries) /\ Len(entries) \in Nat
    BY <2>1 DEF Worth
  <2> QED
    BY <1>1, <2>1, <2>2 DEF Silence
<1> QED
  BY <1>2, <1>3

LEMMA EndCheckIsWorth ==
  ASSUME Working, Worth, EndCheck, server' = server
  PROVE  Worth'
<1>1. pc = "checks" /\ next <= Len(Registry) /\ Over
        /\ UNCHANGED <<pc, world, client, plan, budget>> /\ next' = next + 1
  BY DEF EndCheck
<1>2. PICK o \in IF Applies THEN {Rules(Current.id, said)} ELSE Evaluate(Current, View) :
        entries' = Append(entries, Entry(Current, o))
  BY DEF EndCheck
<1>3. o = "pass" => Deserved(Current.id)
  BY <1>1, RowDeserved
<1>4. next \in DOMAIN Registry /\ Current \in CheckType
  BY <1>1, RegistryAssumption DEF RegistryAssumption, Worth, Current
<1>5. o \in Outcomes
  BY <1>4, RulesTyped, EvaluateTyped
<1>6. Entry(Current, o) \in RowType
  BY <1>4, <1>5 DEF Entry, RowType, CheckType, Current
<1>7. /\ entries' \in Seq(RowType) /\ Len(entries') = Len(entries) + 1
      /\ \A i \in 1..Len(entries) : entries'[i] = entries[i]
      /\ entries'[Len(entries) + 1] = Entry(Current, o)
  BY <1>2, <1>6, AppendProperties DEF Worth
<1>8. DOMAIN entries' = 1..(Len(entries) + 1) /\ DOMAIN entries = 1..Len(entries) /\ Len(entries) \in Nat
  BY <1>7 DEF Worth
<1>9. Entry(Current, o).id = Current.id /\ Entry(Current, o).outcome = o
  BY DEF Entry
<1>10. \A id : Deserved(id) => Deserved(id)'
  <2>1. Lossless' => Lossless
    BY <1>1 DEF Lossless
  <2> QED
    BY <1>1, <2>1, DeservedStays
<1>11. Earned'
  <2>p. \A id : id \in PassedRows' => \E i \in DOMAIN entries' : entries'[i].id = id /\ entries'[i].outcome = "pass"
    BY DEF PassedRows, Reported
  <2> SUFFICES ASSUME NEW id, NEW i \in DOMAIN entries', entries'[i].id = id, entries'[i].outcome = "pass"
               PROVE  Deserved(id)
    BY <1>10, <2>p DEF Earned
  <2>1. CASE i = Len(entries) + 1
    <3>1. entries'[i] = Entry(Current, o)
      BY <1>7, <2>1
    <3>2. o = "pass" /\ id = Current.id
      BY <1>9, <3>1
    <3> QED
      BY <1>3, <3>2
  <2>2. CASE i # Len(entries) + 1
    <3>1. i \in DOMAIN entries /\ entries'[i] = entries[i]
      BY <1>7, <1>8, <2>2
    <3> QED
      BY <3>1, PassedIs DEF Worth, Earned
  <2> QED
    BY <2>1, <2>2
<1> QED
  BY <1>1, <1>7, <1>11 DEF Worth, Beforehand

LEMMA WorthStep ==
  Worth /\ Chat /\ Seen /\ Ground /\ WireAuth /\ WireAuth' /\ WireCustody /\ [NextWire]_allVars => Worth'
<1> SUFFICES ASSUME Worth, Chat, Seen, Ground, WireAuth, WireAuth', WireCustody, [NextWire]_allVars
             PROVE  Worth'
  OBVIOUS
<1>1. world' = world => server'.registeredAs = server.registeredAs
  BY DEF WireAuth
<1>2. Working
  BY DEF Working, Worth, Chat
<1>4. CASE EndCheck
  <2>1. server' = server /\ world' = world
    BY <1>4 DEF EndCheck
  <2> QED
    BY <1>2, <1>4, <2>1, EndCheckIsWorth
<1>5. CASE AskAS \/ Call \/ AnswerCall \/ LoseCall
  <2>1. UNCHANGED <<vars, world, client>> /\ budget' \in {budget, budget - 1}
    BY <1>5 DEF AskAS, Call, AnswerCall, LoseCall, wireVars
  <2>2. Lossless' => Lossless
    BY <2>1, LossesStay
  <2>3. Earned'
    BY <1>1, <2>1, <2>2, EarnedStays DEF Worth, vars
  <2> QED
    BY <2>1, <2>3 DEF Worth, Silence, vars
<1>6. CASE EndWalk
  <2>1. pc = "discover" /\ pc' = "resolve" /\ next' = next
          /\ entries' \in {entries, Append(entries, DiscoveryFailed)}
    BY <1>6 DEF EndWalk
  <2>2. entries' \in Seq(RowType) /\ Silence'
    BY <2>1, PreludeRows DEF Worth, Beforehand
  <2>3. Earned'
    BY <2>2, SilenceEarnsNext
  <2> QED
    BY <2>1, <2>2, <2>3 DEF Worth
<1>7. CASE ResolveWithout \/ RegisterAnswered \/ RegisterUnanswered
  <2>1. pc = "resolve" /\ pc' = "prelude" /\ UNCHANGED <<entries, next>>
    BY <1>7 DEF ResolveWithout, RegisterAnswered, RegisterUnanswered, NoRegistration, MayRegister,
                AfterResolve, WireCustody
  <2>2. Silence'
    BY <2>1 DEF Worth, Silence, Beforehand
  <2>3. Earned'
    BY <2>2, SilenceEarnsNext
  <2> QED
    BY <2>1, <2>2, <2>3 DEF Worth
<1>8. CASE Silent
  <2>1. UNCHANGED <<world, client, server, budget>>
    BY <1>8 DEF Silent, wireVars
  <2>2. CASE AcceptFlags
    <3>1. pc = "start" /\ UNCHANGED <<entries, next>>
      BY <2>2 DEF AcceptFlags
    <3>2. Silence'
      BY <3>1 DEF Worth, Silence, Beforehand
    <3> QED
      BY <3>1, <3>2, SilenceEarnsNext DEF Worth
  <2>3. CASE ReportRefusal
    <3>1. pc = "prelude" /\ next' = next /\ entries' \in {entries, Append(entries, RegistrationFailed)}
      BY <2>3 DEF ReportRefusal
    <3>2. entries' \in Seq(RowType) /\ Silence'
      BY <3>1, PreludeRows DEF Worth, Beforehand
    <3> QED
      BY <3>1, <3>2, SilenceEarnsNext DEF Worth
  <2>4. CASE EndChecks \/ AttachVerdicts \/ Finish
    <3>1. UNCHANGED <<entries, next, plan>> /\ pc' \notin Beforehand
      BY <2>4 DEF EndChecks, AttachVerdicts, Finish, Return, Beforehand
    <3>2. Lossless' => Lossless
      BY <2>1 DEF Lossless
    <3>3. Earned'
      BY <1>1, <2>1, <3>1, <3>2, EarnedStays DEF Worth
    <3> QED
      BY <3>1, <3>3 DEF Worth
  <2> QED
    BY <1>8, <2>2, <2>3, <2>4 DEF Silent
<1>9. CASE Deregister
  <2>1. pc' = "done" /\ UNCHANGED <<entries, next, plan, world, client>> /\ budget' \in {budget, budget - 1}
    BY <1>9 DEF Deregister
  <2>2. Lossless' => Lossless
    BY <2>1, LossesStay
  <2>3. Earned'
    BY <1>1, <2>1, <2>2, EarnedStays DEF Worth
  <2> QED
    BY <2>1, <2>3 DEF Worth, Beforehand
<1>10. CASE UNCHANGED allVars
  <2>1. UNCHANGED <<entries, next, pc, plan, world, client, server, budget>>
    BY <1>10 DEF allVars, vars, wireVars
  <2>2. Lossless' => Lossless
    BY <2>1 DEF Lossless
  <2>3. Earned'
    BY <2>1, <2>2, EarnedStays DEF Worth
  <2> QED
    BY <2>1, <2>3 DEF Worth, Silence
<1> QED
  BY <1>4, <1>5, <1>6, <1>7, <1>8, <1>9, <1>10 DEF NextWire

LEMMA WorthAlways == SpecWire => []Worth
<1> QED
  BY WorthInit, WorthStep, ChatAlways, GroundAlways, WireCustodyAlways, PTL DEF SpecWire

----------------------------------------------------------------------------
\* The row a violation of the servers is for does not pass while nothing is lost, but in
\* the cases named: for any combination of violations, variants, flags and clients
\* (the Run functions of conformance/checks_*.go).
THEOREM ViolationsAreSeen == SpecWire => []ViolationSeen
<1>1. Worth => ViolationSeen
  <2> SUFFICES ASSUME Worth, Lossless, NEW row \in Rows, row[1] \in Switches, row[2] \in PassedRows
               PROVE  Hidden(row[1])
    BY DEF ViolationSeen
  <2>1. Deserved(row[2])
    BY DEF Worth, Earned
  <2> QED
    BY <2>1 DEF Deserved
<1> QED
  BY <1>1, WorthAlways, PTL

\* A proof tampered with is let through by a server that does not look at htu: the row
\* passes only for one of the reasons named, or because the request for a nonce was
\* lost (checks_dpop.go:140-185).
THEOREM TamperingIsSeen == SpecWire => []HtuPassIsEarned
<1>1. Worth /\ Chat /\ Seen /\ WireAuth /\ Ground => HtuPassIsEarned
  <2> SUFFICES ASSUME Worth, Chat, Seen, WireAuth, Ground,
                      pc = "checks", next <= Len(Registry), Applies, Pending = Nothing,
                      Current.id = WrongHTU, "AcceptWrongHTU" \in world.as,
                      Rules(WrongHTU, said) = "pass", said[1] # Lost
               PROVE  Hidden("AcceptWrongHTU")
    BY DEF HtuPassIsEarned
  <2>1. Passing(WrongHTU)
    BY DEF Passing
  <2> QED
    BY <2>1, WrongHTUSeen DEF Worth, Chat
<1> QED
  BY <1>1, WorthAlways, ChatAlways, GroundAlways, PTL
=============================================================================
