----------------------------- MODULE Finding_proofs -----------------------------
(***************************************************************************)
(* A failed row is a finding.  On servers without a fault, in any          *)
(* combination of what such servers may leave out or ask for, a run fails  *)
(* no row but the ones accounted for: what discovery finds there is all    *)
(* the rows that send nothing judge, and what the others send is accepted, *)
(* because the token they hold is honoured and the proof they send is new. *)
(* From it follows that a run request by request is one of the runs of     *)
(* Run, the demands Run makes on a sound deployment included, and keeps    *)
(* what they keep.                                                         *)
(***************************************************************************)
EXTENDS Dialogue_proofs

----------------------------------------------------------------------------
(***************************************************************************)
(* Servers without a fault.                                                *)
(***************************************************************************)
\* Nothing but the server is to blame, and the server is not.
Innocent == Conforming /\ ~MethodMismatch /\ ~opts.actorToken

\* A call is heard to its end, or ends with its first request.
Audible == Lossless \/ world.rs \cap Fallbacks = {}

LEMMA IssuerConforms ==
  ASSUME Conforming
  PROVE  world.as \cap ASViolations = {}
<1>1. ASViolations \cap (ASVariants \cup ExternalAS) = {}
  BY DEF ASViolations, ASVariants, ExternalAS
<1> QED
  BY <1>1 DEF Conforming

LEMMA ResourceConforms ==
  ASSUME Conforming
  PROVE  /\ world.rs \cap (RSViolations \cup {"ListsLegacyOnly", "ListsItsRefusal", "ProofNonceNeverSettles"}) = {}
         /\ Serves(world.rs)
<1>1. (RSViolations \cup {"ListsLegacyOnly", "ListsItsRefusal", "ProofNonceNeverSettles"})
        \cap (RSVariants \cup {"NewerOnly", "LegacyFirst", "LegacyAfterAuth", "ChecksRevocation",
                               "RemembersProofs", "ChecksBinding", "ProofNonce"}) = {}
  BY DEF RSViolations, RSVariants
<1>2. Serves(world.rs)
  BY DEF Conforming, Serves
<1> QED
  BY <1>1, <1>2 DEF Conforming

\* What such a server shows of itself.
LEMMA IssuerShows ==
  ASSUME Conforming
  PROVE  /\ {"asMetadata", "issuerMatch", "tokenEndpoint", "tokenHTTPS", "jwksURI", "s256"}
              \subseteq handleDiscovery(world.as)
         /\ "NoGrantTypesAdvertised" \notin world.as => "grantTypes" \in handleDiscovery(world.as)
         /\ "IssParamSupported" \in world.as => "issAdvertised" \in handleDiscovery(world.as)
         /\ "mtlsBound" \in handleDiscovery(world.as) => "mtlsAliases" \in handleDiscovery(world.as)
         /\ {"applicationTypeKept", "issuerBound"} \subseteq RegisteredFacts(world.as)
<1>1. {"MalformedDiscovery", "IncoherentMTLS", "MangleApplicationType", "ForeignRegistrationURI"}
        \cap world.as = {}
  BY IssuerConforms DEF ASViolations
<1>2. {"asMetadata", "issuerMatch", "tokenEndpoint", "tokenHTTPS", "jwksURI", "s256"}
        \subseteq handleDiscovery(world.as)
  BY <1>1 DEF handleDiscovery
<1>3. "NoGrantTypesAdvertised" \notin world.as => "grantTypes" \in handleDiscovery(world.as)
  BY DEF handleDiscovery
<1>4. "IssParamSupported" \in world.as => "issAdvertised" \in handleDiscovery(world.as)
  BY DEF handleDiscovery
<1>5. "mtlsBound" \in handleDiscovery(world.as) => "AdvertiseMTLS" \in world.as
  BY <1>1 DEF handleDiscovery
<1>6. "AdvertiseMTLS" \in world.as => "mtlsAliases" \in handleDiscovery(world.as)
  BY <1>1 DEF handleDiscovery
<1>7. {"applicationTypeKept", "issuerBound"} \subseteq RegisteredFacts(world.as)
  BY <1>1 DEF RegisteredFacts
<1> QED
  BY <1>2, <1>3, <1>4, <1>5, <1>6, <1>7

LEMMA ResourceShows ==
  ASSUME Conforming
  PROVE  /\ {"prm", "prmJSON", "prmServers", "prmCanonical", "noQueryMethod", "headerMethod"}
              \subseteq handlePRM(world.rs)
         /\ "dpopRequired" \in handlePRM(world.rs) <=> "RequireDPoP" \in world.rs
         /\ {"challenge", "challengeMetadata"} \subseteq Challenge(world.rs)
         /\ "Scopes" \in world.rs => "challengeScope" \in Challenge(world.rs)
<1>1. {"MalformedPRM", "OmitAuthorizationServers", "NonCanonicalResource", "QueryMethod", "OmitChallenge"}
        \cap world.rs = {}
  BY ResourceConforms DEF RSViolations
<1>2. {"prm", "prmJSON", "prmServers", "prmCanonical", "noQueryMethod", "headerMethod"}
        \subseteq handlePRM(world.rs)
  BY <1>1 DEF handlePRM
<1>3. "dpopRequired" \in handlePRM(world.rs) <=> "RequireDPoP" \in world.rs
  BY <1>1 DEF handlePRM
<1>4. {"challenge", "challengeMetadata"} \subseteq Challenge(world.rs)
  BY <1>1 DEF Challenge
<1>5. "Scopes" \in world.rs => "challengeScope" \in Challenge(world.rs)
  BY <1>1 DEF Challenge
<1> QED
  BY <1>2, <1>3, <1>4, <1>5

\* Where both requests of a call are heard, or the first is all there is to hear, what
\* the call returns is what the server makes of the token and the proof.
LEMMA Served ==
  ASSUME Conforming, world \in Worlds, Audible, NEW r, NEW a, CallAnswer(r, a)
  PROVE  \E u : /\ Suits(u, r) /\ a = Authenticated(world.rs, u, r)
                /\ Unseen(u, r) \/ "LegacyAfterAuth" \in world.rs
<1>1. PICK s, t, first :
        /\ Suits(s, r) /\ Unseen(s, r) /\ Suits(t, r) /\ StillUnseen(t, r)
        /\ first = handleMCP(world.rs, s, r, ModernVersion)
        /\ \/ a = first /\ (Second(first) = NoVersion \/ ~Lossless)
           \/ Second(first) # NoVersion /\ a = handleMCP(world.rs, t, r, Second(first))
  BY DEF CallAnswer
<1>2. {"ListsLegacyOnly", "ListsItsRefusal", "InsufficientScope"} \cap world.rs = {}
  BY ResourceConforms DEF RSViolations
<1>3. \A s0 : Authenticated(world.rs, s0, r).status \in {200, 401}
  <2> SUFFICES ASSUME NEW s0 PROVE Authenticated(world.rs, s0, r).status \in {200, 401}
    OBVIOUS
  <2>1. Authenticated(world.rs, s0, r) \in
          {Reply(401, Challenge(world.rs)), Reply(401, Challenge(world.rs) \cup {"dpopNonce"}), Reply(200, {})}
    BY <1>2 DEF Authenticated
  <2> QED
    BY <2>1, ReplyShown
<1>v. LegacyVersion # ModernVersion
  <2>1. LegacyVersion \in Nat /\ ModernVersion \in Nat /\ LegacyVersion < ModernVersion
    BY VersionsAssumption
  <2> QED
    BY <2>1
<1>4. CASE "NewerOnly" \in world.rs
  <2>1. {"LegacyFirst", "LegacyAfterAuth"} \cap world.rs = {}
    BY <1>4, WorldsAssumption
  <2>2. ~Speaks(world.rs, ModernVersion) /\ Speaks(world.rs, NewerVersion)
    BY <1>2, <1>4, <2>1, NewerAssumption, VersionsAssumption DEF Speaks
  <2>3. first = Refused({NewerVersion})
    BY <1>1, <1>4, <2>2 DEF handleMCP, TurnedAway
  <2>4. Second(first) = NewerVersion /\ NewerVersion # NoVersion
    BY <2>3, RefusedShown, RetryNewest DEF Second, Ambiguous
  <2>5. Lossless
    BY <1>4 DEF Audible, Fallbacks
  <2>6. a = handleMCP(world.rs, t, r, NewerVersion)
    BY <1>1, <2>4, <2>5
  <2>7. a = Authenticated(world.rs, t, r)
    BY <2>1, <2>2, <2>6 DEF handleMCP
  <2> QED
    BY <1>1, <2>2, <2>7 DEF StillUnseen
<1>5. CASE "NewerOnly" \notin world.rs /\ "LegacyFirst" \in world.rs
  <2>1. ~Speaks(world.rs, ModernVersion) /\ Speaks(world.rs, LegacyVersion)
    BY <1>2, <1>5, <1>v DEF Speaks
  <2>2. first = Reply(400, {})
    BY <1>1, <1>2, <1>5, <2>1 DEF handleMCP, TurnedAway
  <2>3. Second(first) = LegacyVersion /\ LegacyVersion # NoVersion
    BY <2>2, ReplyShown, SecondAsked DEF Ambiguous
  <2>4. Lossless
    BY <1>5 DEF Audible, Fallbacks
  <2>5. a = handleMCP(world.rs, t, r, LegacyVersion)
    BY <1>1, <2>3, <2>4
  <2>6. a = Authenticated(world.rs, t, r)
    BY <2>1, <2>5 DEF handleMCP
  <2> QED
    BY <1>1, <2>1, <2>6 DEF StillUnseen
<1>6. CASE {"NewerOnly", "LegacyFirst"} \cap world.rs = {}
  <2>1. \A at : Speaks(world.rs, at)
    BY <1>2, <1>6 DEF Speaks
  <2>2. CASE "LegacyAfterAuth" \in world.rs /\ Authenticated(world.rs, s, r).status = 200
    <3>1. first = Reply(400, {})
      BY <1>1, <2>1, <2>2, VersionsAssumption DEF handleMCP
    <3>2. Second(first) = LegacyVersion /\ LegacyVersion # NoVersion
      BY <3>1, ReplyShown, SecondAsked DEF Ambiguous
    <3>3. Lossless
      BY <2>2 DEF Audible, Fallbacks
    <3>4. a = handleMCP(world.rs, t, r, LegacyVersion)
      BY <1>1, <3>2, <3>3
    <3>5. a = Authenticated(world.rs, t, r)
      BY <2>1, <3>4 DEF handleMCP
    <3> QED
      BY <1>1, <2>2, <3>5
  <2>3. CASE ~("LegacyAfterAuth" \in world.rs /\ Authenticated(world.rs, s, r).status = 200)
    <3>1. first = Authenticated(world.rs, s, r)
      BY <1>1, <2>1, <2>3 DEF handleMCP
    <3>2. Second(first) = NoVersion
      BY <1>3, <3>1 DEF Second, Ambiguous
    <3> QED
      BY <1>1, <3>1, <3>2
  <2> QED
    BY <2>2, <2>3
<1> QED
  BY <1>4, <1>5, <1>6

\* A token nobody signed, or none, is answered with the challenge.
LEMMA ForgedServed ==
  ASSUME Conforming, world \in Worlds, Audible, NEW r, r.token \in {NoToken, Forged}, NEW a, CallAnswer(r, a)
  PROVE  a.status = 401 /\ a.headers = Challenge(world.rs)
<1>1. PICK u : a = Authenticated(world.rs, u, r)
  BY Served
<1>2. "AcceptAnyToken" \notin world.rs
  BY ResourceConforms DEF RSViolations
<1>3. ~Verified(r.token)
  BY ForgedShown
<1>4. a = Reply(401, Challenge(world.rs))
  BY <1>1, <1>2, <1>3 DEF Authenticated
<1> QED
  BY <1>4, ReplyShown

\* A token of its own that it has not revoked is let in, with a proof where it asks for
\* one: the first time, or once more with the nonce it gives.
LEMMA HeldServed ==
  ASSUME Conforming, world \in Worlds, Audible, NEW r, r.to = "mcp", NEW a, CallAnswer(r, a),
         Verified(r.token), r.token # NoToken, subject # "dead",
         "RequireDPoP" \in world.rs => r.proof # NoProof,
         ~({"RequireDPoP", "ChecksBinding"} \subseteq world.rs),
         ~({"RequireDPoP", "RemembersProofs", "LegacyAfterAuth"} \subseteq world.rs)
  PROVE  \/ a.status = 200
         \/ /\ a.status = 401 /\ "dpopNonce" \in a.headers
            /\ "RequireDPoP" \in world.rs /\ ~r.proof.nonce
<1>1. PICK u : /\ Suits(u, r) /\ a = Authenticated(world.rs, u, r)
               /\ Unseen(u, r) \/ "LegacyAfterAuth" \in world.rs
  BY Served
<1>2. {"AcceptAnyToken", "InsufficientScope", "ProofNonceNeverSettles"} \cap world.rs = {} /\ Serves(world.rs)
  BY ResourceConforms DEF RSViolations
<1>3. r.token.n \notin u.revoked
  BY <1>1 DEF Suits, Honoured
<1>4. "RequireDPoP" \in world.rs => ProofAccepted(world.rs, u, r)
  <2> SUFFICES ASSUME "RequireDPoP" \in world.rs PROVE ProofAccepted(world.rs, u, r)
    OBVIOUS
  <2>1. r.proof # NoProof /\ "ChecksBinding" \notin world.rs
    OBVIOUS
  <2>2. "RemembersProofs" \in world.rs => r.proof.jti \notin u.seen
    BY <1>1, <2>1 DEF Unseen
  <2> QED
    BY <2>1, <2>2 DEF ProofAccepted
<1>5. \/ a = Reply(200, {})
      \/ /\ a = Reply(401, Challenge(world.rs) \cup {"dpopNonce"})
         /\ "RequireDPoP" \in world.rs /\ ~r.proof.nonce
  BY <1>1, <1>2, <1>3, <1>4 DEF Authenticated
<1> QED
  BY <1>5, ReplyShown

----------------------------------------------------------------------------
(***************************************************************************)
(* What a run finds of such servers.                                       *)
(***************************************************************************)
\* The walk asks for the metadata once it knows where, and no more once it has them.
LEMMA WalkOn ==
  ASSUME NEW talk, NEW before, before = IF opts.target THEN 2 ELSE 0,
         opts.target => talk[2] # Lost /\ "prmServers" \in talk[2].facts
  PROVE  /\ Len(talk) = before => WalkRequest(talk) = Get("metadata")
         /\ Len(talk) = before + 1 /\ ~Lacks(talk[before + 1]) => WalkRequest(talk) = Nothing
<1>1. CASE opts.target
  BY <1>1 DEF WalkRequest
<1>2. CASE ~opts.target
  BY <1>2 DEF WalkRequest
<1> QED
  BY <1>1, <1>2

\* Nothing lost, the walk ends with the metadata.
LEMMA WalkSucceeds ==
  ASSUME Dialogue, Seen, world \in Worlds, pc = "discover", Pending = Nothing, Conforming, Lossless
  PROVE  Walked.ok
<1>1. WalkRequest(said) = Nothing
  BY DEF Pending, Request
<1>2. /\ Len(said) \in Nat \ {0} /\ DOMAIN said = 1..Len(said)
      /\ opts.target /\ said[1] # Lost => Len(said) > 1
      /\ opts.target /\ said[1] # Lost /\ said[2] # Lost /\ "prmServers" \in said[2].facts => Len(said) > 2
  BY <1>1, WalkDone
<1>3. ASSUME opts.target
      PROVE  said[1] # Lost /\ said[2] # Lost /\ "prmServers" \in said[2].facts /\ Len(said) > 2
  <2>1. 1 \in DOMAIN said
    BY <1>2
  <2>2. said[1] # Lost
    BY <1>3, <2>1, WalkAnswers
  <2>3. 2 \in DOMAIN said
    BY <1>2, <1>3, <2>2
  <2>4. said[2] # Lost /\ said[2].facts = handlePRM(world.rs)
    BY <1>3, <2>3, WalkAnswers
  <2>5. "prmServers" \in said[2].facts
    BY <2>4, ResourceShows
  <2> QED
    BY <1>2, <1>3, <2>2, <2>4, <2>5
<1>4. PICK before : before = IF opts.target THEN 2 ELSE 0
  OBVIOUS
<1>5. PICK k : k = before + 1
  OBVIOUS
<1>6. /\ before \in {0, 2} /\ k \in {1, 3} /\ k \in DOMAIN said /\ k - 1 = before
      /\ opts.target => k = 3
  <2>1. CASE opts.target
    BY <1>2, <1>3, <1>4, <1>5, <2>1
  <2>2. CASE ~opts.target
    BY <1>2, <1>4, <1>5, <2>2
  <2> QED
    BY <2>1, <2>2
<1>7. \A talk, n : n \in DOMAIN said /\ n >= k /\ talk = SubSeq(said, 1, n - 1) =>
        /\ Len(talk) = n - 1
        /\ \A j \in 1..(n - 1) : talk[j] = said[j]
        /\ opts.target => talk[2] # Lost /\ "prmServers" \in talk[2].facts
  <2> SUFFICES ASSUME NEW talk, NEW n \in DOMAIN said, n >= k, talk = SubSeq(said, 1, n - 1)
               PROVE  /\ Len(talk) = n - 1
                      /\ \A j \in 1..(n - 1) : talk[j] = said[j]
                      /\ opts.target => talk[2] # Lost /\ "prmServers" \in talk[2].facts
    OBVIOUS
  <2>1. n \in 1..Len(said) /\ Len(talk) = n - 1 /\ \A j \in 1..(n - 1) : talk[j] = said[j]
    BY Before
  <2>2. opts.target => 2 \in 1..(n - 1)
    BY <1>2, <1>6, <2>1
  <2> QED
    BY <1>3, <2>1, <2>2
<1>8. said[k] # Lost /\ said[k].facts = handleDiscovery(world.as)
  <2>1. PICK talk, r :
          /\ talk = SubSeq(said, 1, k - 1) /\ r = Request(talk) /\ r.to # "nobody"
          /\ said[k] = Lost /\ Lossless => Dark(r)
          /\ said[k] # Lost => ~Dark(r) /\ AnswerTo(r, said[k])
    BY <1>6, SaidSo
  <2>2. /\ Len(talk) = before
        /\ opts.target => talk[2] # Lost /\ "prmServers" \in talk[2].facts
    BY <1>6, <1>7, <2>1
  <2>3. r = Get("metadata")
    <3>1. r = WalkRequest(talk)
      BY <2>1 DEF Request
    <3> QED
      BY <1>4, <2>2, <3>1, WalkOn
  <2>4. "UnresolvableAuthServer" \notin world.rs
    BY ResourceConforms DEF RSViolations
  <2>5. said[k] # Lost /\ AnswerTo(r, said[k])
    BY <2>1, <2>4 DEF Dark
  <2>6. r.to # "mcp"
    BY <2>3, Documents
  <2>7. PICK s : said[k] = Answered(s, r)
    BY <2>5, <2>6, AnswerOf
  <2> QED
    BY <2>3, <2>5, <2>7, Documents
<1>9. ~Lacks(said[k])
  BY <1>8, IssuerShows DEF Lacks
<1>10. Len(said) = k
  <2> SUFFICES ASSUME Len(said) # k PROVE FALSE
    OBVIOUS
  <2>1. PICK n : n = k + 1
    OBVIOUS
  <2>2. n \in DOMAIN said /\ n >= k /\ n - 1 = k /\ k \in 1..(n - 1)
    <3> DEFINE m == Len(said)
    <3>1. m \in Nat /\ DOMAIN said = 1..m /\ m # k
      BY <1>2
    <3>2. k \in Nat \ {0}
      BY <1>6
    <3>3. k \in 1..m
      BY <1>6, <3>1
    <3> HIDE DEF m
    <3>4. n \in 1..m
      BY <2>1, <3>1, <3>2, <3>3
    <3> QED
      BY <2>1, <3>1, <3>2, <3>4
  <2>3. PICK talk, r : talk = SubSeq(said, 1, n - 1) /\ r = Request(talk) /\ r.to # "nobody"
    BY <2>2, SaidSo
  <2>4. /\ Len(talk) = k /\ talk[k] = said[k]
        /\ opts.target => talk[2] # Lost /\ "prmServers" \in talk[2].facts
    BY <1>7, <2>2, <2>3
  <2>5. WalkRequest(talk) = Nothing
    BY <1>4, <1>5, <1>9, <2>4, WalkOn
  <2> QED
    BY <2>3, <2>5 DEF Request, Nothing
<1>11. PICK found : Walked = Walk(TRUE, found)
  BY <1>3, <1>9, <1>10 DEF Walked
<1> QED
  BY <1>11 DEF Walk

LEMMA WalkFindsAll ==
  ASSUME Dialogue, Seen, world \in Worlds, pc = "discover", Pending = Nothing, Conforming, Walked.ok
  PROVE  /\ ~Walked.nil /\ {"issuer"} \cup handleDiscovery(world.as) \subseteq Walked.facts
         /\ opts.target => handlePRM(world.rs) \cup {"noOfflineAccess"} \subseteq Walked.facts
         /\ opts.target /\ Audible => Challenge(world.rs) \subseteq Walked.facts
<1> DEFINE last == said[Len(said)]
           resource == IF opts.target
                       THEN said[1].headers \cup {"noOfflineAccess"} \cup said[2].facts ELSE {}
<1>1. \A facts : ~Walk(FALSE, facts).ok /\ ~Unreachable.ok
  BY DEF Walk, Unreachable
<1>2. /\ opts.target => said[1] # Lost /\ said[2] # Lost
      /\ ~Lacks(last) /\ Walked = Walk(TRUE, resource \cup {"issuer"} \cup last.facts)
  BY <1>1 DEF Walked
<1>3. ~Walked.nil /\ Walked.facts = resource \cup {"issuer"} \cup last.facts
  BY <1>2 DEF Walk
<1>4. "tokenEndpoint" \in Walked.facts
  BY <1>2, <1>3 DEF Lacks
<1>5. /\ handleDiscovery(world.as) \subseteq Walked.facts
      /\ opts.target => CallAnswer(Bare, said[1])
  BY <1>3, <1>4, WalkFinds
<1>6. ASSUME opts.target PROVE said[2].facts = handlePRM(world.rs)
  <2>1. WalkRequest(said) = Nothing
    BY DEF Pending, Request
  <2>2. 2 \in DOMAIN said
    BY <1>2, <1>6, <2>1, WalkDone
  <2> QED
    BY <1>2, <1>6, <2>2, WalkAnswers
<1>7. ASSUME opts.target, Audible PROVE said[1].headers = Challenge(world.rs)
  BY <1>5, <1>7, BareShown, ForgedServed
<1> HIDE DEF last
<1> QED
  BY <1>3, <1>5, <1>6, <1>7

----------------------------------------------------------------------------
(***************************************************************************)
(* The rows written so far, and what the walk left behind.                 *)
(***************************************************************************)
LEMMA ReportedGrows ==
  ASSUME entries \in Seq(RowType), NEW row \in RowType, entries' = Append(entries, row)
  PROVE  Reported' = Reported \cup {<<row.id, row.outcome>>}
<1>1. /\ entries' \in Seq(RowType) /\ Len(entries') = Len(entries) + 1
      /\ \A i \in 1..Len(entries) : entries'[i] = entries[i]
      /\ entries'[Len(entries) + 1] = row
  BY AppendProperties
<1>2. DOMAIN entries' = 1..(Len(entries) + 1) /\ DOMAIN entries = 1..Len(entries) /\ Len(entries) \in Nat
  BY <1>1
<1>3. \A x : x \in Reported' <=> \E i \in DOMAIN entries' : x = <<entries'[i].id, entries'[i].outcome>>
  BY DEF Reported
<1>4. \A x : x \in Reported <=> \E i \in DOMAIN entries : x = <<entries[i].id, entries[i].outcome>>
  BY DEF Reported
<1>5. \A i : i \in DOMAIN entries' <=> i \in DOMAIN entries \/ i = Len(entries) + 1
  BY <1>2
<1>6. \A i \in DOMAIN entries : entries'[i] = entries[i]
  BY <1>1, <1>2
<1> QED
  BY <1>1, <1>3, <1>4, <1>5, <1>6

LEMMA FailuresGrow ==
  ASSUME entries \in Seq(RowType), NEW row \in RowType, entries' = Append(entries, row)
  PROVE  /\ DiscoveryErred' <=> DiscoveryErred \/ (row.id = "discovery" /\ row.outcome = "error")
         /\ FailedRows' = FailedRows \cup (IF row.outcome = "fail" THEN {row.id} ELSE {})
<1>1. PICK x : x = <<row.id, row.outcome>>
  OBVIOUS
<1>2. x[1] = row.id /\ x[2] = row.outcome
  BY <1>1
<1>3. Reported' = Reported \cup {x}
  BY <1>1, ReportedGrows
<1>4. DiscoveryErred' <=> DiscoveryErred \/ (row.id = "discovery" /\ row.outcome = "error")
  BY <1>1, <1>3 DEF DiscoveryErred
<1>5. \A id : id \in FailedRows' <=> \E r \in Reported' : r[2] = "fail" /\ r[1] = id
  BY DEF FailedRows
<1>6. \A id : id \in FailedRows <=> \E r \in Reported : r[2] = "fail" /\ r[1] = id
  BY DEF FailedRows
<1>7. \A id : id \in FailedRows' <=> id \in FailedRows \/ (row.outcome = "fail" /\ row.id = id)
  BY <1>2, <1>3, <1>5, <1>6
<1> QED
  BY <1>4, <1>7

\* An empty report has none.
LEMMA NothingReported ==
  ASSUME entries = <<>>
  PROVE  ~DiscoveryErred /\ FailedRows = {}
<1>1. DOMAIN entries = {}
  OBVIOUS
<1>2. Reported = {}
  BY <1>1 DEF Reported
<1> QED
  BY <1>2 DEF DiscoveryErred, FailedRows

LEMMA SameReport ==
  ASSUME entries' = entries
  PROVE  (DiscoveryErred' <=> DiscoveryErred) /\ FailedRows' = FailedRows /\ Reported' = Reported
BY DEF DiscoveryErred, FailedRows, Reported

\* All that servers without a fault have to show.
AllThere ==
  /\ {"issuer"} \cup handleDiscovery(world.as) \subseteq disc
  /\ opts.target => /\ handlePRM(world.rs) \cup {"noOfflineAccess"} \subseteq disc
                    /\ Audible => Challenge(world.rs) \subseteq disc

\* A walk that ends well has found all of it, and on such servers only a loss ends it
\* badly.
Surveyed ==
  /\ "actorToken" \in creds => opts.actorToken
  /\ plan.registered => plan.facts = RegisteredFacts(world.as)
  /\ Walking => entries = <<>>
  /\ ~Walking /\ Conforming => /\ Lossless => ~DiscoveryErred
                               /\ ~DiscoveryErred => AllThere

LEMMA SurveyedInit == InitWire => Surveyed
<1> SUFFICES ASSUME InitWire PROVE Surveyed
  OBVIOUS
<1>1. /\ entries = <<>> /\ pc = "start" /\ plan = NoPlan
      /\ creds = (IF opts.subjectToken THEN {"subjectToken"} ELSE {})
                   \cup (IF opts.actorToken THEN {"actorToken"} ELSE {})
  BY DEF InitWire, Init
<1>2. ~plan.registered
  BY <1>1 DEF NoPlan
<1>3. "actorToken" \in creds => opts.actorToken
  BY <1>1
<1> QED
  BY <1>1, <1>2, <1>3 DEF Surveyed, Walking

\* The rows of a prelude.
LEMMA PreludeShown ==
  /\ DiscoveryFailed \in RowType /\ RegistrationFailed \in RowType
  /\ DiscoveryFailed.id = "discovery" /\ DiscoveryFailed.outcome = "error"
  /\ RegistrationFailed.id # "discovery" /\ RegistrationFailed.outcome = "error"
BY DEF DiscoveryFailed, RegistrationFailed, RowType, Severities, Outcomes

LEMMA EndWalkSurveys ==
  ASSUME Surveyed, Ground, Dialogue, Seen, Worth, EndWalk
  PROVE  Surveyed'
<1>1. /\ pc = "discover" /\ Pending = Nothing /\ pc' = "resolve"
      /\ UNCHANGED <<world, opts, creds, plan, client, budget>>
      /\ disc' = IF Walked.nil THEN disc ELSE Walked.facts
      /\ entries' = IF Walked.ok THEN entries ELSE Append(entries, DiscoveryFailed)
  BY DEF EndWalk, Over, Learn, inputs
<1>2. /\ Conforming' = Conforming /\ Lossless' = Lossless /\ Audible' = Audible
      /\ ~Walking' /\ Walking
  BY <1>1 DEF Conforming, Lossless, Audible, Walking
<1>3. entries = <<>> /\ entries \in Seq(RowType) /\ ~DiscoveryErred
  BY <1>2, NothingReported DEF Surveyed, Worth
<1>4. world \in Worlds
  BY DEF Ground
<1>5. ASSUME Conforming, Lossless PROVE ~DiscoveryErred'
  <2>1. Walked.ok
    BY <1>1, <1>4, <1>5, WalkSucceeds
  <2> QED
    BY <1>1, <1>3, <2>1, SameReport
<1>6. ASSUME Conforming, ~DiscoveryErred' PROVE AllThere'
  <2>1. Walked.ok
    <3> SUFFICES ASSUME ~Walked.ok PROVE FALSE
      OBVIOUS
    <3>1. entries' = Append(entries, DiscoveryFailed)
      BY <1>1
    <3> QED
      BY <1>3, <1>6, <3>1, FailuresGrow, PreludeShown
  <2>2. /\ ~Walked.nil /\ {"issuer"} \cup handleDiscovery(world.as) \subseteq Walked.facts
        /\ opts.target => handlePRM(world.rs) \cup {"noOfflineAccess"} \subseteq Walked.facts
        /\ opts.target /\ Audible => Challenge(world.rs) \subseteq Walked.facts
    BY <1>1, <1>4, <1>6, <2>1, WalkFindsAll
  <2>3. disc' = Walked.facts
    BY <1>1, <2>2
  <2> QED
    BY <1>1, <1>2, <2>2, <2>3 DEF AllThere
<1> QED
  BY <1>1, <1>2, <1>5, <1>6 DEF Surveyed

\* What it has found stays found.
LEMMA SurveyedStays ==
  ASSUME Surveyed, UNCHANGED <<world, opts, creds, disc>>, Lossless' => Lossless, ~Walking, ~Walking',
         plan'.registered => plan'.facts = RegisteredFacts(world.as),
         DiscoveryErred' <=> DiscoveryErred
  PROVE  Surveyed'
<1>1. (Conforming' <=> Conforming) /\ (Audible' => Audible)
  BY DEF Conforming, Audible
<1>2. AllThere => AllThere'
  BY <1>1 DEF AllThere
<1> QED
  BY <1>1, <1>2 DEF Surveyed

LEMMA SurveyedStep ==
  Surveyed /\ Ground /\ Chat /\ Seen /\ Worth /\ WireCustody /\ [NextWire]_allVars => Surveyed'
<1> SUFFICES ASSUME Surveyed, Ground, Chat, Seen, Worth, WireCustody, [NextWire]_allVars PROVE Surveyed'
  OBVIOUS
<1>r. entries \in Seq(RowType)
  BY DEF Worth
<1>1. CASE EndWalk
  BY <1>1, EndWalkSurveys DEF Chat
<1>2. CASE EndCheck
  <2>1. /\ pc = "checks" /\ pc' = pc /\ UNCHANGED <<world, opts, creds, disc, plan, budget>>
        /\ next <= Len(Registry)
    BY <1>2 DEF EndCheck, inputs
  <2>2. PICK o \in IF Applies THEN {Rules(Current.id, said)} ELSE Evaluate(Current, View) :
          entries' = Append(entries, Entry(Current, o))
    BY <1>2 DEF EndCheck
  <2>3. next \in DOMAIN Registry /\ Current \in CheckType
    BY <2>1, RegistryAssumption DEF Worth, Current
  <2>4. o \in Outcomes
    BY <2>3, RulesTyped, EvaluateTyped
  <2>5. Entry(Current, o) \in RowType /\ Entry(Current, o).id = Current.id
    BY <2>3, <2>4 DEF Entry, RowType, CheckType, Current
  <2>6. Current.id # "discovery"
    <3>1. Current.id \in Ids(Registry)
      BY <2>3 DEF Ids, ToSet, Current
    <3> QED
      BY <3>1, SyntheticAssumption, PreludeShown
  <2>7. DiscoveryErred' <=> DiscoveryErred
    BY <1>r, <2>2, <2>5, <2>6, FailuresGrow
  <2>8. ~Walking /\ ~Walking' /\ (Lossless' => Lossless)
    BY <2>1 DEF Walking, Lossless
  <2> QED
    BY <2>1, <2>7, <2>8, SurveyedStays DEF Surveyed
<1>3. CASE AskAS \/ Call \/ AnswerCall \/ LoseCall \/ Deregister \/ UNCHANGED allVars
  <2>1. UNCHANGED <<world, opts, creds, disc, plan, entries>> /\ budget' \in {budget, budget - 1}
    BY <1>3 DEF AskAS, Call, AnswerCall, LoseCall, Deregister, allVars, vars, wireVars, inputs
  <2>2. Walking' <=> Walking
    BY <1>3 DEF AskAS, Call, AnswerCall, LoseCall, Deregister, allVars, vars, Walking
  <2>3. Lossless' => Lossless
    BY <2>1, LossesStay
  <2>4. DiscoveryErred' <=> DiscoveryErred
    BY <2>1, SameReport
  <2>5. CASE Walking
    BY <2>1, <2>2, <2>5 DEF Surveyed
  <2>6. CASE ~Walking
    BY <2>1, <2>2, <2>3, <2>4, <2>6, SurveyedStays DEF Surveyed
  <2> QED
    BY <2>5, <2>6
<1>4. CASE ResolveWithout \/ RegisterAnswered \/ RegisterUnanswered
  <2>1. /\ UNCHANGED <<world, opts, creds, disc, entries>> /\ budget' \in {budget, budget - 1}
        /\ pc = "resolve" /\ pc' = "prelude"
    BY <1>4 DEF ResolveWithout, RegisterAnswered, RegisterUnanswered, NoRegistration, MayRegister, inputs,
                AfterResolve, WireCustody
  <2>2. \A p : p \in {[NoPlan EXCEPT !.client = opts.clientID], [NoPlan EXCEPT !.regError = TRUE]} => ~p.registered
    BY DEF NoPlan
  <2>3. plan'.registered => plan'.facts = RegisteredFacts(world.as)
    <3>1. CASE ResolveWithout \/ RegisterUnanswered
      <4>1. plan' \in {[NoPlan EXCEPT !.client = opts.clientID], [NoPlan EXCEPT !.regError = TRUE]}
        BY <3>1 DEF ResolveWithout, RegisterUnanswered, NoRegistration
      <4> QED
        BY <2>2, <4>1
    <3>2. CASE RegisterAnswered
      BY <3>2 DEF RegisterAnswered
    <3> QED
      BY <1>4, <3>1, <3>2
  <2>4. ~Walking /\ ~Walking' /\ (Lossless' => Lossless)
    BY <2>1, LossesStay DEF Walking
  <2>5. DiscoveryErred' <=> DiscoveryErred
    BY <2>1, SameReport
  <2> QED
    BY <2>1, <2>3, <2>4, <2>5, SurveyedStays
<1>5. CASE Silent
  <2>1. UNCHANGED <<world, opts, creds, disc, plan, budget>>
    BY <1>5 DEF Silent, AcceptFlags, ReportRefusal, EndChecks, AttachVerdicts, Finish, wireVars, inputs
  <2>2. CASE AcceptFlags
    <3>1. Walking /\ Walking' /\ entries' = entries
      BY <2>2 DEF AcceptFlags, Walking, WireCustody
    <3> QED
      BY <2>1, <3>1 DEF Surveyed
  <2>3. CASE ~AcceptFlags
    <3>1. /\ entries' \in {entries, Append(entries, RegistrationFailed)}
          /\ ~Walking /\ ~Walking'
      BY <1>5, <2>3 DEF Silent, ReportRefusal, EndChecks, AttachVerdicts, Finish, Return, Walking
    <3>2. DiscoveryErred' <=> DiscoveryErred
      BY <1>r, <3>1, SameReport, FailuresGrow, PreludeShown
    <3>3. Lossless' => Lossless
      BY <2>1 DEF Lossless
    <3> QED
      BY <2>1, <3>1, <3>2, <3>3, SurveyedStays DEF Surveyed
  <2> QED
    BY <2>2, <2>3
<1> QED
  BY <1>1, <1>2, <1>3, <1>4, <1>5 DEF NextWire

LEMMA SurveyedAlways == SpecWire => []Surveyed
<1> QED
  BY SurveyedInit, SurveyedStep, ChatAlways, GroundAlways, WorthAlways, PTL DEF SpecWire

----------------------------------------------------------------------------
(***************************************************************************)
(* The rows that send nothing.                                             *)
(***************************************************************************)
\* What each document has room for.
LEMMA Sources ==
  /\ Challenge(world.rs) \subseteq {"challenge", "challengeMetadata", "challengeScope"}
  /\ handlePRM(world.rs) \subseteq {"prm", "prmJSON", "prmServers", "prmCanonical", "twoPRMScopes",
                                    "noQueryMethod", "headerMethod", "dpopRequired"}
  /\ handleDiscovery(world.as) \subseteq
       {"asMetadata", "tokenEndpoint", "tokenHTTPS", "authorizationEndpoint", "jwksURI", "s256",
        "issuerMatch", "grantTypes", "clientCredentials", "tokenExchange", "dpop",
        "registrationEndpoint", "mtlsBound", "mtlsAliases", "signedMetadata",
        "introspectionEndpoint", "revocationEndpoint", "issAdvertised", "cimd"}
  /\ RegisteredFacts(world.as) \subseteq {"applicationTypeKept", "issuerBound"}
<1>1. Challenge(world.rs) \subseteq {"challenge", "challengeMetadata", "challengeScope"}
  BY DEF Challenge
<1>2. handlePRM(world.rs) \subseteq {"prm", "prmJSON", "prmServers", "prmCanonical", "twoPRMScopes",
                                     "noQueryMethod", "headerMethod", "dpopRequired"}
  BY DEF handlePRM
<1>3. handleDiscovery(world.as) \subseteq
       {"asMetadata", "tokenEndpoint", "tokenHTTPS", "authorizationEndpoint", "jwksURI", "s256",
        "issuerMatch", "grantTypes", "clientCredentials", "tokenExchange", "dpop",
        "registrationEndpoint", "mtlsBound", "mtlsAliases", "signedMetadata",
        "introspectionEndpoint", "revocationEndpoint", "issAdvertised", "cimd"}
  BY DEF handleDiscovery
<1>4. RegisteredFacts(world.as) \subseteq {"applicationTypeKept", "issuerBound"}
  BY DEF RegisteredFacts
<1> QED
  BY <1>1, <1>2, <1>3, <1>4

\* So what a check sees of one is there.
LEMMA ViewShows ==
  ASSUME Ground
  PROVE  /\ "mcpTarget" \in View => opts.target
         /\ "registered" \in View => plan.registered
         /\ "actorToken" \in View => "actorToken" \in creds
         /\ {"mtlsBound", "tokenExchange", "cimd"} \cap View \subseteq handleDiscovery(world.as)
         /\ {"responseTypes", "authCodeFlow", "stepUp"} \cap View = {}
         /\ "dpopRequired" \in disc => "dpopRequired" \in handlePRM(world.rs)
<1> DEFINE documents == Challenge(world.rs) \cup handlePRM(world.rs) \cup handleDiscovery(world.as)
<1>1. disc \subseteq documents \cup {"noOfflineAccess", "issuer"}
  BY DEF Ground, Found, Findable
<1>2. plan.facts \subseteq RegisteredFacts(world.as) /\ creds \subseteq {"subjectToken", "actorToken"}
  BY DEF Ground
<1>3. {"mcpTarget", "registered", "actorToken", "responseTypes", "authCodeFlow", "stepUp"}
        \cap (disc \cup RegisteredFacts(world.as)) = {}
  BY <1>1, Sources
<1>4. {"mtlsBound", "tokenExchange", "cimd"} \cap disc \subseteq handleDiscovery(world.as)
  BY <1>1, Sources
<1>5. {"mtlsBound", "tokenExchange", "cimd"} \cap RegisteredFacts(world.as) = {}
  BY Sources
<1>6. "dpopRequired" \in disc => "dpopRequired" \in handlePRM(world.rs)
  BY <1>1, Sources
<1>7. \A x \in View : \/ x \in disc \cup RegisteredFacts(world.as) \cup creds
                      \/ x = "mcpTarget" /\ opts.target
                      \/ x = "registered" /\ plan.registered
                      \/ x \in {"presentEnabled", "client"}
  BY <1>2 DEF View
<1> HIDE DEF documents
<1> QED
  BY <1>2, <1>3, <1>4, <1>5, <1>6, <1>7

\* The gates of a check that runs are met.
LEMMA GatesMet ==
  ASSUME next \in Nat \ {0}, next <= Len(Registry), FirstUnmet(Current.gates, View) = 0
  PROVE  /\ next \in DOMAIN Registry /\ Current = Registry[next]
         /\ \A g \in ToSet(Current.gates) : GateHolds(g, View)
<1>1. next \in DOMAIN Registry /\ Current = Registry[next] /\ Current \in CheckType
  BY RegistryAssumption DEF Current
<1>2. Current.gates \in Seq(STRING)
  BY <1>1 DEF CheckType
<1> QED
  BY <1>1, <1>2, LeastUnmet DEF ToSet

\* Most gates are for one fact.
LEMMA PlainGates ==
  \A g \in {"mcpTarget", "registered", "actorToken", "mtlsBound", "tokenExchange", "cimd",
            "responseTypes", "authCodeFlow", "stepUp", "presentEnabled"} :
    GateHolds(g, View) <=> g \in View
BY DEF GateHolds

\* What a run may report of servers without a fault.
UnansweredRows == {"oauth21.token.reachable", "rfc8414.metadata.signed_metadata_valid"}

Excused ==
  Omitted \cup SelfInflicted
    \cup (IF Lossless THEN {}
          ELSE UnansweredRows \cup (IF world.rs \cap Fallbacks # {} THEN OfTheKeptAnswer ELSE {}))

LEMMA NotAudible == ~Audible => OfTheKeptAnswer \subseteq Excused
BY DEF Audible, Excused

\* A row that is judged and fails lacks what is missing there.
LEMMA JudgeExcused ==
  ASSUME Ground, Surveyed, Conforming, AllThere, next \in Nat \ {0}, next <= Len(Registry),
         Current.may = {}, "fail" \in Evaluate(Current, View)
  PROVE  Current.id \in Excused
<1> DEFINE gated == ToSet(Current.gates)
<1>1. FirstUnmet(Current.gates, View) = 0 /\ ~(Current.judges \subseteq View)
  BY DEF Evaluate, RunOutcomes, SkipKind
<1>2. PICK fact \in Current.judges : fact \notin View
  BY <1>1
<1>3. /\ next \in DOMAIN Registry /\ Current = Registry[next]
      /\ \A g \in gated : GateHolds(g, View)
  BY <1>1, GatesMet
<1>4. Forthcoming(Current, fact)
  BY <1>2, <1>3, JudgesAssumption
<1>5. /\ gated \cap {"responseTypes", "authCodeFlow", "stepUp"} = {}
      /\ "mcpTarget" \in gated => opts.target
      /\ "registered" \in gated => plan.registered
      /\ "mtlsBound" \in gated => "mtlsBound" \in handleDiscovery(world.as)
  BY <1>3, PlainGates, ViewShows
<1>6. disc \subseteq View /\ plan.facts \subseteq View
  BY DEF View
<1>7. handleDiscovery(world.as) \subseteq View
  BY <1>6 DEF AllThere
<1>8. opts.target => /\ handlePRM(world.rs) \cup {"noOfflineAccess"} \subseteq View
                     /\ Audible => Challenge(world.rs) \subseteq View
  BY <1>6 DEF AllThere
<1>9. plan.registered => RegisteredFacts(world.as) \subseteq View
  BY <1>6 DEF Surveyed
<1> HIDE DEF gated
<1>10. CASE fact \in {"asMetadata", "issuerMatch", "tokenEndpoint", "tokenHTTPS", "jwksURI", "s256"}
  BY <1>2, <1>7, <1>10, IssuerShows
<1>11. CASE /\ "mcpTarget" \in gated
            /\ fact \in {"prm", "prmJSON", "prmServers", "prmCanonical", "noQueryMethod",
                         "headerMethod", "noOfflineAccess"}
  BY <1>2, <1>5, <1>8, <1>11, ResourceShows
<1>12. CASE /\ "mcpTarget" \in gated
            /\ fact \in {"challenge", "challengeMetadata"} /\ Current.id \in OfTheKeptAnswer
  <2>1. Audible => FALSE
    BY <1>2, <1>5, <1>8, <1>12, ResourceShows
  <2> QED
    BY <1>12, <2>1, NotAudible
<1>13. CASE "mcpTarget" \in gated /\ fact = "challengeScope" /\ Current.id = "mcp.challenge.scope_present"
  <2>1. "mcp.challenge.scope_present" \in OfTheKeptAnswer
    BY DEF OfTheKeptAnswer
  <2>2. CASE "Scopes" \in world.rs
    <3>1. Audible => FALSE
      BY <1>2, <1>5, <1>8, <1>13, <2>2, ResourceShows
    <3> QED
      BY <1>13, <2>1, <3>1, NotAudible
  <2>3. CASE "Scopes" \notin world.rs
    BY <1>13, <2>3 DEF Excused, Omitted
  <2> QED
    BY <2>2, <2>3
<1>14. CASE fact = "issAdvertised" /\ Current.id = "sep2468.advertise.iss_parameter"
  <2>1. "IssParamSupported" \notin world.as
    BY <1>2, <1>7, <1>14, IssuerShows
  <2> QED
    BY <1>14, <2>1 DEF Excused, Omitted
<1>15. CASE fact = "grantTypes" /\ Current.id = "rfc8414.metadata.grant_types_advertised"
  <2>1. "NoGrantTypesAdvertised" \in world.as
    BY <1>2, <1>7, <1>15, IssuerShows
  <2> QED
    BY <1>15, <2>1 DEF Excused, Omitted
<1>16. CASE fact = "mtlsAliases" /\ "mtlsBound" \in gated
  BY <1>2, <1>5, <1>7, <1>16, IssuerShows
<1>17. CASE fact \in {"applicationTypeKept", "issuerBound"} /\ "registered" \in gated
  BY <1>2, <1>5, <1>9, <1>17, IssuerShows
<1> QED
  BY <1>4, <1>5, <1>10, <1>11, <1>12, <1>13, <1>14, <1>15, <1>16, <1>17 DEF Forthcoming, gated

----------------------------------------------------------------------------
(***************************************************************************)
(* The rows that send something.  One that fails is judged on an answer to *)
(* the last request it made, unless it is one of two that fail for want of *)
(* an answer.                                                              *)
(***************************************************************************)
Failing(id) ==
  /\ pc = "checks" /\ next <= Len(Registry) /\ Applies
  /\ Current.id = id /\ Pending = Nothing /\ Rules(id, said) = "fail"

LEMMA RulesFail ==
  ASSUME NEW id, NEW talk, Rules(id, talk) = "fail", NEW last, last = talk[Len(talk)]
  PROVE  /\ talk # <<>>
         /\ last = Lost => id \in UnansweredRows
         /\ last # Lost => Undecided(id, talk, last) = Blank /\ ~Passes(id, last)
<1>1. Unanswered(id) = "fail" => id \in UnansweredRows
  BY DEF Unanswered, UnansweredRows
<1>2. Undecided(id, talk, last) # Blank => Undecided(id, talk, last) # "fail"
  BY DEF Undecided
<1> QED
  BY <1>1, <1>2 DEF Rules

LEMMA FailedOn ==
  ASSUME Dialogue, Seen, NEW id, Failing(id), Lossless \/ id \notin UnansweredRows
  PROVE  \E talk, r, a :
           /\ r = Asks(id, talk) /\ r.to # "nobody" /\ AnswerTo(r, a)
           /\ a # Lost /\ Undecided(id, said, a) = Blank /\ ~Passes(id, a)
           /\ said # <<>> /\ a = said[Len(said)]
           /\ Len(talk) \in Nat /\ Len(said) = Len(talk) + 1
           /\ talk = <<>> <=> Len(talk) = 0
           /\ talk # <<>> => talk[1] = said[1]
           /\ \E S : talk \in Seq(S)
<1>1. PICK a : a = said[Len(said)]
  OBVIOUS
<1>2. /\ said # <<>>
      /\ a = Lost => id \in UnansweredRows
      /\ a # Lost => Undecided(id, said, a) = Blank /\ ~Passes(id, a)
  BY <1>1, RulesFail DEF Failing
<1>3. PICK talk : /\ Told(talk, said[Len(said)])
                  /\ Len(talk) \in Nat /\ Len(said) = Len(talk) + 1
                  /\ talk = <<>> <=> Len(talk) = 0
                  /\ talk # <<>> => talk[1] = said[1]
                  /\ \E S : talk \in Seq(S)
  BY <1>2, LastTold
<1>4. PICK r : /\ r = Request(talk) /\ r.to # "nobody"
               /\ a = Lost /\ Lossless => Dark(r)
               /\ a # Lost => AnswerTo(r, a)
  BY <1>1, <1>3 DEF Told
<1>5. r = Asks(id, talk)
  BY <1>4 DEF Failing, Request
<1>6. a # Lost
  BY <1>2, <1>4 DEF Dark, Failing
<1> QED
  BY <1>1, <1>2, <1>3, <1>4, <1>5, <1>6

\* A check of one request fails on the answer to it.
LEMMA OneShotFails ==
  ASSUME Dialogue, Seen, NEW id, Failing(id), Lossless \/ id \notin UnansweredRows,
         id \notin {WrongHTU} \cup Exchanges \cup Holders
  PROVE  \E a : /\ OneShot(id).to # "nobody" /\ AnswerTo(OneShot(id), a)
                /\ Undecided(id, said, a) = Blank /\ ~Passes(id, a)
<1>1. PICK talk, r, a : /\ r = Asks(id, talk) /\ r.to # "nobody" /\ AnswerTo(r, a)
                        /\ Undecided(id, said, a) = Blank /\ ~Passes(id, a)
  BY FailedOn
<1>2. Nothing.to = "nobody"
  BY DEF Nothing
<1>3. Lost \notin ToSet(talk)
  BY <1>1, <1>2, AsksLost
<1>4. r = OneShot(id)
  BY <1>1, <1>2, <1>3, AsksOnce
<1> QED
  BY <1>1, <1>4

LEMMA TokenShotFails ==
  ASSUME Dialogue, Seen, NEW id, Failing(id), Lossless \/ id \notin UnansweredRows,
         id \notin {WrongHTU} \cup Exchanges \cup Holders, NEW q, q = OneShot(id), q.to = "token"
  PROVE  \E s, a : /\ Fit(s) /\ a = handleToken(world.as, s, q)
                   /\ Undecided(id, said, a) = Blank /\ ~Passes(id, a)
<1>1. PICK a : /\ AnswerTo(q, a) /\ Undecided(id, said, a) = Blank /\ ~Passes(id, a)
  BY OneShotFails
<1>2. \E s : Fit(s) /\ a = handleToken(world.as, s, q)
  BY <1>1, AnswerOfToken
<1> QED
  BY <1>1, <1>2

\* What is enough for each row.
Probed ==
  Minting \cup Delegations \cup Impersonating \cup Exchanges \cup Holders
    \cup {"oauth21.token.rejects_unknown_grant", "oauth21.token.error_shape_rfc6749",
          "dpop.token.nonce_challenge", WrongHTU, "sep2351.discovery.suffix_path",
          "rfc8414.metadata.signed_metadata_valid", "cimd.register.url_client_id",
          "mcp.token.invalid_rejected", "mcp.token.foreign_audience_rejected"}

LEMMA OtherRowsPass == \A id, a : id \notin Probed => Passes(id, a)
BY DEF Passes, Probed, Minting, Delegations, Impersonating, Exchanges, Holders

LEMMA TokensSuffice ==
  \A a :
    /\ a.status = 200 => Passes("rfc8707.token.accepts_resource", a)
    /\ a.status = 200 /\ "tool" \in a.token.aud => Passes("rfc8707.token.reflects_audience", a)
    /\ a.status < 500 => Passes("rfc8707.token.multiple_resources", a)
    /\ a.status # 200 /\ a.error # Blank => Passes("oauth21.token.rejects_unknown_grant", a)
    /\ a.error # Blank => Passes("oauth21.token.error_shape_rfc6749", a)
BY DEF Passes, WrongHTU, Revocation

LEMMA SwapsSuffice ==
  \A a :
    /\ Issues(a) => Passes("rfc8693.impersonation.issues_token", a)
    /\ a.status = 200 /\ a.scope \in {Blank, "read"} => Passes("rfc8693.downscope.scope_honored", a)
    /\ a.status # 200 => Passes("rfc8693.error.invalid_grant_on_bad_subject", a)
BY DEF Passes, WrongHTU, Revocation

LEMMA ProofsSuffice ==
  \A a :
    /\ Issues(a) => Passes("dpop.token.accepts_proof", a)
    /\ a.status = 200 /\ a.token.jkt = next => Passes("dpop.token.binds_cnf_jkt", a)
    /\ a.error = "use_dpop_nonce" /\ a.nonce => Passes("dpop.token.nonce_challenge", a)
    /\ a.status # 200 => Passes(WrongHTU, a)
BY DEF Passes, WrongHTU, Revocation

LEMMA OthersSuffice ==
  \A a :
    /\ a.active => Passes("rfc7662.introspect.active", a)
    /\ ~a.active => Passes(Revocation, a)
    /\ a.status = 200 /\ "prmJSON" \in a.facts => Passes("sep2351.discovery.suffix_path", a)
    /\ "BadSignedMetadata" \notin world.as => Passes("rfc8414.metadata.signed_metadata_valid", a)
    /\ a.error # "invalid_client" => Passes("cimd.register.url_client_id", a)
    /\ a.status = 401 => Passes("mcp.token.invalid_rejected", a)
    /\ a.status = 401 => Passes("mcp.token.foreign_audience_rejected", a)
    /\ a.status < 400 => Passes("smoke.present.token_accepted", a)
BY DEF Passes, WrongHTU, Revocation

(***************************************************************************)
(* The rows of one token request.                                          *)
(***************************************************************************)
LEMMA KeptToItsOffer ==
  ASSUME Ground, next \in Nat \ {0}, next <= Len(Registry), Applies
  PROVE  /\ Current.id \in {"rfc8693.impersonation.issues_token", "rfc8693.downscope.scope_honored"} =>
              "NoTokenExchange" \notin world.as
         /\ Current.id \in Delegations => "actorToken" \in creds
         /\ Current.id = "cimd.register.url_client_id" => "AdvertiseCIMD" \in world.as
         /\ Current.id = "smoke.present.token_accepted" => opts.target
<1> DEFINE gated == ToSet(Current.gates)
<1>1. /\ next \in DOMAIN Registry /\ Current = Registry[next]
      /\ \A g \in gated : GateHolds(g, View)
  BY GatesMet DEF Applies
<1>2. /\ "tokenExchange" \in gated => "tokenExchange" \in handleDiscovery(world.as)
      /\ "actorToken" \in gated => "actorToken" \in creds
      /\ "cimd" \in gated => "cimd" \in handleDiscovery(world.as)
      /\ "mcpTarget" \in gated => opts.target
  BY <1>1, PlainGates, ViewShows
<1>3. "tokenExchange" \in handleDiscovery(world.as) => "NoTokenExchange" \notin world.as
  BY DEF handleDiscovery
<1>4. "cimd" \in handleDiscovery(world.as) => "AdvertiseCIMD" \in world.as
  BY DEF handleDiscovery
<1>5. /\ Current.id \in {"rfc8693.impersonation.issues_token", "rfc8693.downscope.scope_honored"} =>
           "tokenExchange" \in gated
      /\ Current.id \in Delegations => "actorToken" \in gated
      /\ Current.id = "cimd.register.url_client_id" => "cimd" \in gated
      /\ Current.id = "smoke.present.token_accepted" => "mcpTarget" \in gated
  BY <1>1, OffersAssumption
<1> QED
  BY <1>2, <1>3, <1>4, <1>5

\* Servers without a fault give the client what it asks for, the grant apart.
LEMMA MintedRight ==
  ASSUME Working, Innocent, NEW s, Fit(s), NEW q, q.grant = "client_credentials", q.auth = ClientAuth,
         Problem(world.as, q) = Blank,
         NEW a, a = handleToken(world.as, s, q), a.error # "unsupported_grant_type"
  PROVE  /\ a.status = 200 /\ a.token.aud = q.resources /\ a.token # NoToken
         /\ q.proof # NoProof => a.token.jkt = q.proof.key
<1>1. {"RejectResource", "ErrorOnMultipleResources", "IgnoreResourceParam", "NoCnfBinding", "BadErrorShape"}
        \cap world.as = {}
  BY IssuerConforms, OfTheIssuer DEF Innocent
<1>2. ~Denied(world.as, s, q)
  <2>1. ~Mismatched(world.as, s, q)
    BY Matched DEF Working, Innocent
  <2> QED
    BY <2>1 DEF Denied
<1>3. "NoClientCredentials" \notin world.as
  <2> SUFFICES ASSUME "NoClientCredentials" \in world.as PROVE FALSE
    OBVIOUS
  <2>1. Refusal(world.as, a, 400, "unsupported_grant_type")
    BY <1>2, MintAnswered
  <2> QED
    BY <1>1, <2>1 DEF Refusal
<1>4. a.status = 200
  BY <1>1, <1>2, <1>3, MintAnswered
<1>5. /\ a.token.aud = Reflected(world.as, q)
      /\ a.token.jkt = IF q.proof # NoProof /\ "NoCnfBinding" \notin world.as THEN q.proof.key ELSE NoKey
  BY <1>4, MintAnswered
<1>6. Reflected(world.as, q) = q.resources
  BY <1>1 DEF Reflected
<1>7. New(s, a)
  BY <1>4, TokenOf, RefusalShown
<1> QED
  BY <1>1, <1>4, <1>5, <1>6, <1>7 DEF New

LEMMA MintingHolds ==
  ASSUME Working, Innocent, NEW id \in Minting
  PROVE  ~Failing(id)
<1> SUFFICES ASSUME Failing(id) PROVE FALSE
  OBVIOUS
<1>1. PICK audiences : OneShot(id) = Resource(audiences) /\ "tool" \in audiences
  BY Tokens DEF Minting
<1>2. PICK q : q = Resource(audiences)
  OBVIOUS
<1>3. q.to = "token" /\ q.grant = "client_credentials" /\ q.auth = ClientAuth
        /\ q.proof = NoProof /\ q.resources = audiences
  BY <1>2, RequestsShown
<1>4. id \notin {WrongHTU} \cup Exchanges \cup Holders /\ id \in SelfMinted /\ id \notin UnansweredRows
  BY DEF WrongHTU, Exchanges, Holders, Revocation, SelfMinted, Minting, UnansweredRows
<1>5. PICK s, a : /\ Fit(s) /\ a = handleToken(world.as, s, q)
                  /\ Undecided(id, said, a) = Blank /\ ~Passes(id, a)
  BY <1>1, <1>2, <1>3, <1>4, TokenShotFails DEF Working
<1>6. a.error # "unsupported_grant_type"
  BY <1>4, <1>5, Decided
<1>7. a.status = 200 /\ "tool" \in a.token.aud
  BY <1>1, <1>3, <1>5, <1>6, MintedRight DEF Problem
<1> QED
  BY <1>5, <1>7, TokensSuffice DEF Minting

LEMMA BogusDeclined ==
  ASSUME NEW v, "AcceptUnknownGrant" \notin v, NEW s, NEW q, ~Denied(v, s, q), q.grant = "bogus",
         NEW a, a = handleToken(v, s, q)
  PROVE  a = tokenError(v, 400, "unsupported_grant_type")
BY DEF handleToken, Denied, Mismatched, Problem

LEMMA BogusHolds ==
  ASSUME Working, Innocent,
         NEW id \in {"oauth21.token.rejects_unknown_grant", "oauth21.token.error_shape_rfc6749"}
  PROVE  ~Failing(id)
<1> SUFFICES ASSUME Failing(id) PROVE FALSE
  OBVIOUS
<1>1. PICK q : q = Unauthenticated("bogus")
  OBVIOUS
<1>2. q = OneShot(id) /\ q.to = "token" /\ q.grant = "bogus" /\ q.proof = NoProof
  BY <1>1, Tokens, RequestsShown
<1>3. id \notin {WrongHTU} \cup Exchanges \cup Holders /\ id \notin UnansweredRows
  BY DEF WrongHTU, Exchanges, Holders, Revocation, UnansweredRows
<1>4. PICK s, a : Fit(s) /\ a = handleToken(world.as, s, q) /\ ~Passes(id, a)
  BY <1>2, <1>3, TokenShotFails DEF Working
<1>5. {"AcceptUnknownGrant", "BadErrorShape"} \cap world.as = {}
  BY IssuerConforms, OfTheIssuer DEF Innocent
<1>6. \E code \in {400, 401}, error \in {"invalid_client", "unsupported_grant_type"} :
        Refusal(world.as, a, code, error)
  <2>1. CASE Mismatched(world.as, s, q)
    BY <1>2, <1>4, <2>1, Unproven
  <2>2. CASE ~Mismatched(world.as, s, q)
    <3>1. ~Denied(world.as, s, q)
      BY <1>2, <1>4, <2>2, Unproven
    <3>2. a = tokenError(world.as, 400, "unsupported_grant_type")
      BY <1>2, <1>4, <1>5, <3>1, BogusDeclined
    <3> QED
      BY <3>2, RefusalOf
  <2> QED
    BY <2>1, <2>2
<1>7. Blank \notin {"invalid_client", "unsupported_grant_type"}
  BY Zenon DEF Blank
<1>8. a.status # 200 /\ a.error # Blank
  BY <1>5, <1>6, <1>7 DEF Refusal
<1> QED
  BY <1>4, <1>8, TokensSuffice

LEMMA ImpersonationHolds ==
  ASSUME Working, Innocent, NEW id \in Impersonating
  PROVE  ~Failing(id)
<1> SUFFICES ASSUME Failing(id) PROVE FALSE
  OBVIOUS
<1>1. PICK q : q = OneShot(id)
  OBVIOUS
<1>2. /\ q.to = "token" /\ q.grant = "token-exchange" /\ q.proof = NoProof
      /\ q.actor = NoToken /\ q.auth = ClientAuth
      /\ q.subject = IF id = "rfc8693.error.invalid_grant_on_bad_subject" THEN Forged ELSE Pasted
      /\ id = "rfc8693.downscope.scope_honored" => q.scope = "read"
  <2>1. CASE id = "rfc8693.downscope.scope_honored"
    <3>1. PICK e : e = Exchange(Pasted, NoToken)
      OBVIOUS
    <3>2. /\ e.to = "token" /\ e.grant = "token-exchange" /\ e.auth = ClientAuth /\ e.proof = NoProof
          /\ e.subject = Pasted /\ e.actor = NoToken
          /\ DOMAIN e = {"to", "grant", "auth", "proof", "resources", "subject", "actor", "scope"}
      BY <3>1, ExchangesShown
    <3>3. q = [e EXCEPT !.scope = "read"]
      BY <1>1, <2>1, <3>1, Swaps
    <3>4. /\ q.actor = e.actor /\ q.auth = e.auth /\ q.subject = e.subject /\ q.to = e.to
          /\ q.grant = e.grant /\ q.proof = e.proof /\ q.scope = "read"
      BY <3>2, <3>3
    <3> QED
      BY <2>1, <3>2, <3>4
  <2>2. CASE id # "rfc8693.downscope.scope_honored"
    BY <1>1, <2>2, Swaps, ExchangesShown DEF Impersonating
  <2> QED
    BY <2>1, <2>2
<1>3. id \notin {WrongHTU} \cup Exchanges \cup Holders /\ id \notin UnansweredRows
  BY DEF Impersonating, WrongHTU, Exchanges, Holders, Revocation, UnansweredRows
<1>4. PICK s, a : Fit(s) /\ a = handleToken(world.as, s, q) /\ ~Passes(id, a)
  BY <1>1, <1>2, <1>3, TokenShotFails DEF Working
<1>5. /\ a.status = 200 <=> ~Mismatched(world.as, s, q) /\ ~Turned(q) /\ ~Unfounded(q)
      /\ a.status = 200 => a.scope = Widened(world.as, q.scope)
  BY <1>2, <1>4, SwapAnswered
<1>6. {"FailImpersonation", "AcceptBadSubject", "WidenScope"} \cap world.as = {}
  BY IssuerConforms, OfTheIssuer DEF Innocent
<1>7. CASE id = "rfc8693.error.invalid_grant_on_bad_subject"
  <2>1. Unfounded(q)
    BY <1>2, <1>6, <1>7, TokensShown DEF Unfounded
  <2> QED
    BY <1>4, <1>5, <1>7, <2>1, SwapsSuffice
<1>8. CASE id \in {"rfc8693.impersonation.issues_token", "rfc8693.downscope.scope_honored"}
  <2>1. "NoTokenExchange" \notin world.as
    BY <1>8, KeptToItsOffer DEF Failing, Working
  <2>2. ~Mismatched(world.as, s, q)
    BY <1>2, <1>4, Matched DEF Working, Innocent
  <2>3. ~Turned(q) /\ ~Unfounded(q)
    BY <1>2, <1>6, <1>8, <2>1, TokensShown DEF Turned, Unfounded
  <2>4. a.status = 200
    BY <1>5, <2>2, <2>3
  <2>5. a.token # NoToken
    <3>1. New(s, a)
      BY <1>4, <2>4, TokenOf, RefusalShown
    <3> QED
      BY <3>1 DEF New
  <2>6. Widened(world.as, q.scope) = q.scope
    BY <1>6 DEF Widened
  <2> QED
    BY <1>2, <1>4, <1>5, <1>8, <2>4, <2>5, <2>6, SwapsSuffice DEF Issues
<1> QED
  BY <1>7, <1>8 DEF Impersonating

\* The actor's token is what Innocent leaves out.
LEMMA DelegationHolds ==
  ASSUME Working, Innocent, Surveyed, NEW id \in Delegations
  PROVE  ~Failing(id)
BY KeptToItsOffer DEF Failing, Working, Innocent, Surveyed

(***************************************************************************)
(* The rows that prove possession of a key.                                *)
(***************************************************************************)
LEMMA AsksExchange ==
  ASSUME NEW id \in Exchanges, NEW talk, Lost \notin ToSet(talk)
  PROVE  /\ talk = <<>> => Asks(id, talk) = Proving(talk, "token", FALSE)
         /\ talk # <<>> /\ Len(talk) = 1 /\ talk[1].error = "use_dpop_nonce" =>
              Asks(id, talk) = Proving(talk, "token", talk[1].nonce)
         /\ talk # <<>> /\ ~(Len(talk) = 1 /\ talk[1].error = "use_dpop_nonce") => Asks(id, talk) = Nothing
<1> DEFINE first == Proving(talk, "token", FALSE)
           second == Proving(talk, "token", talk[1].nonce)
<1> HIDE DEF first, second
<1> SUFFICES Asks(id, talk) = IF talk = <<>> THEN first
                              ELSE IF Len(talk) = 1 /\ talk[1].error = "use_dpop_nonce" THEN second
                              ELSE Nothing
  BY DEF first, second
<1> QED
  BY Classes DEF Asks, first, second

\* A proof for the endpoint it is sent to is good once it has the nonce; one for
\* another endpoint is not.
LEMMA ProofWeighed ==
  ASSUME Innocent, next \in Nat \ {0}, NEW talk, NEW htu, NEW nonce, NEW q, q = Proving(talk, htu, nonce)
  PROVE  /\ htu = "token" /\ ("SkipDPoPNonce" \in world.as \/ nonce) => Problem(world.as, q) = Blank
         /\ htu = "elsewhere" => Problem(world.as, q) # Blank
<1>1. PICK proof : proof = Signed(talk, htu, nonce)
  OBVIOUS
<1>2. q.proof = proof
  BY <1>1, RequestsShown
<1>3. proof # NoProof /\ proof.htu = htu /\ proof.nonce = nonce
  BY <1>1, SignedShown
<1>4. Problem(world.as, q) = ProofProblem(world.as, proof)
  BY <1>2, <1>3 DEF Problem
<1>5. {"AcceptWrongHTU", "RejectValidDPoP"} \cap world.as = {}
  BY IssuerConforms, OfTheIssuer DEF Innocent
<1>6. Blank \notin {"use_dpop_nonce", "invalid_dpop_proof"}
  BY Zenon DEF Blank
<1> QED
  BY <1>3, <1>4, <1>5, <1>6 DEF ProofProblem

LEMMA ProvingSent ==
  ASSUME NEW talk, NEW htu, NEW nonce, NEW q, q = Proving(talk, htu, nonce)
  PROVE  q.to = "token" /\ q.grant = "client_credentials" /\ q.auth = ClientAuth
<1>1. PICK proof : proof = Signed(talk, htu, nonce)
  OBVIOUS
<1>2. q = [Form("client_credentials") EXCEPT !.proof = proof]
  BY <1>1 DEF Proving
<1> QED
  BY <1>2 DEF Form

LEMMA ExchangesHold ==
  ASSUME Working, Innocent, NEW id \in Exchanges
  PROVE  ~Failing(id)
<1> SUFFICES ASSUME Failing(id) PROVE FALSE
  OBVIOUS
<1>1. id \notin UnansweredRows /\ id # WrongHTU /\ id \in SelfMinted
  BY Classes DEF UnansweredRows, Exchanges, SelfMinted
<1>2. Dialogue /\ Seen /\ WireAuth /\ Ground /\ next \in Nat \ {0} /\ ~MethodMismatch
  BY DEF Working, Innocent
<1>3. PICK talk, r, a :
        /\ r = Asks(id, talk) /\ r.to # "nobody" /\ AnswerTo(r, a)
        /\ a # Lost /\ Undecided(id, said, a) = Blank /\ ~Passes(id, a)
        /\ said # <<>> /\ a = said[Len(said)]
        /\ Len(talk) \in Nat /\ Len(said) = Len(talk) + 1
        /\ talk = <<>> <=> Len(talk) = 0
        /\ talk # <<>> => talk[1] = said[1]
        /\ \E S : talk \in Seq(S)
  BY <1>1, <1>2, FailedOn
<1>4. \A t : Request(t) = Asks(id, t)
  BY DEF Failing, Request
<1>5. Nothing.to = "nobody"
  BY DEF Nothing
<1>6. Lost \notin ToSet(talk)
  BY <1>1, <1>3, <1>5, AsksLost
<1>7. "BadErrorShape" \notin world.as
  BY IssuerConforms, OfTheIssuer DEF Innocent
<1>8. PICK nonce : r = Proving(talk, "token", nonce) /\ ("SkipDPoPNonce" \in world.as \/ nonce)
  <2>1. CASE talk = <<>>
    <3>1. r = Proving(talk, "token", FALSE)
      BY <1>3, <1>6, <2>1, AsksExchange
    <3>2. "SkipDPoPNonce" \in world.as
      <4> SUFFICES ASSUME "SkipDPoPNonce" \notin world.as PROVE FALSE
        OBVIOUS
      <4>1. Problem(world.as, r) = "use_dpop_nonce" /\ "use_dpop_nonce" # Blank
        <5>1. "use_dpop_nonce" # Blank
          BY Zenon DEF Blank
        <5> QED
          BY <1>2, <3>1, <5>1, ProofJudged
      <4>2. r.to = "token" /\ r.auth = ClientAuth
        BY <3>1, ProvingSent
      <4>3. PICK s : Fit(s) /\ a = handleToken(world.as, s, r)
        BY <1>3, <4>2, AnswerOfToken
      <4>4. ~Mismatched(world.as, s, r)
        BY <1>2, <4>2, <4>3, Matched
      <4>5. Refusal(world.as, a, 400, "use_dpop_nonce")
        BY <4>1, <4>3, <4>4, DeniedOf DEF Denied
      <4>6. a.error = "use_dpop_nonce"
        BY <1>7, <4>5 DEF Refusal
      <4>7. Len(said) = 1 /\ said[1] = a
        BY <1>3, <2>1
      <4>8. Lost \notin ToSet(said)
        <5>1. PICK S : said \in Seq(S)
          BY <1>2 DEF Seen
        <5>2. DOMAIN said = {1}
          BY <4>7, <5>1
        <5> QED
          BY <1>3, <4>7, <5>2 DEF ToSet
      <4>9. Asks(id, said) = Proving(said, "token", said[1].nonce)
        BY <1>3, <4>6, <4>7, <4>8, AsksExchange
      <4> QED
        BY <1>4, <4>9, ProvingShown DEF Failing, Pending
    <3> QED
      BY <3>1, <3>2
  <2>2. CASE talk # <<>>
    <3>1. r = Proving(talk, "token", talk[1].nonce)
      BY <1>3, <1>5, <1>6, <2>2, AsksExchange
    <3>2. said[1] # Lost
      <4>1. 1 \in DOMAIN talk
        BY <1>3, <2>2
      <4> QED
        BY <1>3, <1>6, <2>2, <4>1 DEF ToSet
    <3>3. PICK q : q = Proving(<<>>, "token", FALSE)
      OBVIOUS
    <3>4. AnswerTo(q, said[1])
      <4>1. Request(<<>>) = q
        BY <1>4, <3>3, AsksExchange, ToSetNone
      <4> QED
        BY <1>2, <1>3, <3>2, <4>1, FirstTold DEF Told
    <3>5. "SkipDPoPNonce" \in world.as \/ talk[1].nonce
      BY <1>2, <1>3, <2>2, <3>3, <3>4, NonceIsGiven
    <3> QED
      BY <3>1, <3>5
  <2> QED
    BY <2>1, <2>2
<1>9. r.to = "token" /\ r.grant = "client_credentials" /\ r.auth = ClientAuth
  BY <1>8, ProvingSent
<1>10. PICK s : Fit(s) /\ a = handleToken(world.as, s, r)
  BY <1>3, <1>9, AnswerOfToken
<1>11. Problem(world.as, r) = Blank
  BY <1>2, <1>8, ProofWeighed
<1>12. a.error # "unsupported_grant_type"
  BY <1>1, <1>3, Decided
<1>13. r.proof # NoProof /\ r.proof.key = next
  BY <1>2, <1>8, ProofJudged
<1>14. a.status = 200 /\ a.token # NoToken /\ a.token.jkt = next
  BY <1>9, <1>10, <1>11, <1>12, <1>13, MintedRight
<1> QED
  BY <1>3, <1>14, ProofsSuffice DEF Exchanges, Issues

LEMMA NonceChallengeHolds ==
  ASSUME Working, Innocent
  PROVE  ~Failing("dpop.token.nonce_challenge")
<1> SUFFICES ASSUME NEW id, id = "dpop.token.nonce_challenge", Failing(id) PROVE FALSE
  OBVIOUS
<1>1. /\ id \notin {WrongHTU} \cup Exchanges \cup Holders /\ id \notin UnansweredRows
      /\ id \in SelfMinted
  BY DEF WrongHTU, Exchanges, Holders, Revocation, UnansweredRows, SelfMinted
<1>2. PICK q : q = Proving(<<>>, "token", FALSE)
  OBVIOUS
<1>3. q = OneShot(id) /\ q.to = "token" /\ q.grant = "client_credentials" /\ q.auth = ClientAuth
  <2>1. q = OneShot(id)
    BY <1>2 DEF OneShot, Delegations
  <2> QED
    BY <1>2, <2>1, ProvingSent
<1>4. PICK s, a : /\ Fit(s) /\ a = handleToken(world.as, s, q)
                  /\ Undecided(id, said, a) = Blank /\ ~Passes(id, a)
  BY <1>1, <1>3, TokenShotFails DEF Working
<1>5. a.error # "unsupported_grant_type" /\ a.status # 200
  <2>1. a.error # "unsupported_grant_type"
    BY <1>1, <1>4, Decided
  <2>2. Blank # "unsupported"
    BY Zenon DEF Blank
  <2> QED
    BY <1>1, <1>4, <2>1, <2>2 DEF Undecided
<1>6. "SkipDPoPNonce" \notin world.as
  <2> SUFFICES ASSUME "SkipDPoPNonce" \in world.as PROVE FALSE
    OBVIOUS
  <2>1. Problem(world.as, q) = Blank
    BY <1>2, ProofWeighed DEF Working
  <2> QED
    BY <1>3, <1>4, <1>5, <2>1, MintedRight
<1>7. Problem(world.as, q) = "use_dpop_nonce" /\ "use_dpop_nonce" # Blank
  <2>1. "use_dpop_nonce" # Blank
    BY Zenon DEF Blank
  <2> QED
    BY <1>2, <1>6, <2>1, ProofJudged DEF Working
<1>8. ~Mismatched(world.as, s, q)
  BY <1>3, <1>4, Matched DEF Working, Innocent
<1>9. Refusal(world.as, a, 400, "use_dpop_nonce") /\ a.nonce
  BY <1>4, <1>7, <1>8, DeniedOf DEF Denied
<1>10. a.error = "use_dpop_nonce"
  <2>1. "BadErrorShape" \notin world.as
    BY IssuerConforms, OfTheIssuer DEF Innocent
  <2> QED
    BY <1>9, <2>1 DEF Refusal
<1> QED
  BY <1>4, <1>9, <1>10, ProofsSuffice

LEMMA TamperingHolds ==
  ASSUME Working, Innocent
  PROVE  ~Failing(WrongHTU)
<1> SUFFICES ASSUME Failing(WrongHTU) PROVE FALSE
  OBVIOUS
<1>1. WrongHTU \notin UnansweredRows
  BY DEF UnansweredRows, WrongHTU
<1>2. PICK talk, r, a :
        /\ r = Asks(WrongHTU, talk) /\ r.to # "nobody" /\ AnswerTo(r, a)
        /\ ~Passes(WrongHTU, a) /\ said # <<>>
        /\ Len(talk) \in Nat /\ Len(said) = Len(talk) + 1
        /\ talk = <<>> <=> Len(talk) = 0
  BY <1>1, FailedOn DEF Working
<1>3. Nothing.to = "nobody"
  BY DEF Nothing
<1>4. talk # <<>>
  <2>1. said # <<>>
    BY <1>2
  <2>2. Len(said) = 1 => Asks(WrongHTU, said) # Nothing
    BY <2>1, AsksTampering, ProvingShown
  <2> QED
    BY <1>2, <2>2 DEF Failing, Pending, Request
<1>5. PICK nonce : r = Proving(talk, "elsewhere", nonce)
  BY <1>2, <1>3, <1>4, AsksTampering
<1>6. Problem(world.as, r) # Blank
  BY <1>5, ProofWeighed DEF Working
<1>7. PICK s : Fit(s) /\ a = handleToken(world.as, s, r)
  BY <1>2, <1>5, ProvingShown, AnswerOfToken
<1>8. a.status # 200
  BY <1>6, <1>7, DeniedOf DEF Denied, Refusal
<1> QED
  BY <1>2, <1>8, ProofsSuffice

(***************************************************************************)
(* The rows of one request to another endpoint.                            *)
(***************************************************************************)
\* A row that passes on any answer, and one that is judged on the metadata alone.
LEMMA OtherRowsHold ==
  ASSUME Working, Innocent, NEW id, id \notin Probed \/ id = "rfc8414.metadata.signed_metadata_valid",
         Failing(id)
  PROVE  id \in Excused
<1> SUFFICES ASSUME Lossless \/ id \notin UnansweredRows PROVE FALSE
  BY DEF Excused
<1>1. PICK a : ~Passes(id, a)
  BY FailedOn DEF Working
<1>2. "BadSignedMetadata" \notin world.as
  BY IssuerConforms, OfTheIssuer DEF Innocent
<1> QED
  BY <1>1, <1>2, OtherRowsPass, OthersSuffice

LEMMA SuffixPathHolds ==
  ASSUME Working, Innocent
  PROVE  ~Failing("sep2351.discovery.suffix_path")
<1> SUFFICES ASSUME NEW id, id = "sep2351.discovery.suffix_path", Failing(id) PROVE FALSE
  OBVIOUS
<1>1. id \notin {WrongHTU} \cup Exchanges \cup Holders /\ id \notin UnansweredRows
  BY NotHeld DEF Endpoints, UnansweredRows
<1>2. PICK a : AnswerTo(OneShot(id), a) /\ ~Passes(id, a)
  BY <1>1, OneShotFails DEF Working
<1>3. PICK q : q = Get("suffix")
  OBVIOUS
<1>4. q.to = "suffix" /\ AnswerTo(q, a)
  BY <1>2, <1>3, Others, EndpointsShown
<1>5. PICK s : a = Answered(s, q)
  BY <1>4, AnswerOf
<1>6. "NoSuffixPRM" \notin world.rs
  BY ResourceConforms, OfTheResource DEF Innocent
<1>7. a = [Status(200) EXCEPT !.facts = handlePRM(world.rs)]
  BY <1>4, <1>5, <1>6 DEF Answered
<1>8. a.status = 200 /\ a.facts = handlePRM(world.rs)
  BY <1>7 DEF Status
<1>9. "prmJSON" \in handlePRM(world.rs)
  BY ResourceShows DEF Innocent
<1> QED
  BY <1>2, <1>8, <1>9, OthersSuffice

LEMMA ClientDocumentHolds ==
  ASSUME Working, Innocent
  PROVE  ~Failing("cimd.register.url_client_id")
<1> SUFFICES ASSUME NEW id, id = "cimd.register.url_client_id", Failing(id) PROVE FALSE
  OBVIOUS
<1>1. id \notin {WrongHTU} \cup Exchanges \cup Holders /\ id \notin UnansweredRows
  BY NotHeld DEF Endpoints, UnansweredRows
<1>2. PICK a : AnswerTo(OneShot(id), a) /\ ~Passes(id, a)
  BY <1>1, OneShotFails DEF Working
<1>3. PICK q : q = Get("authorize")
  OBVIOUS
<1>4. q.to = "authorize" /\ AnswerTo(q, a)
  BY <1>2, <1>3, Others, EndpointsShown
<1>5. PICK s : a = Answered(s, q)
  BY <1>4, AnswerOf
<1>6. "RejectCIMDClient" \notin world.as /\ "AdvertiseCIMD" \in world.as
  <2>1. "RejectCIMDClient" \notin world.as
    BY IssuerConforms, OfTheIssuer DEF Innocent
  <2> QED
    BY <2>1, KeptToItsOffer DEF Failing, Working
<1>7. a = handleAuthorize(world.as)
  BY <1>4, <1>5 DEF Answered
<1>8. a.error = Blank
  BY <1>6, <1>7 DEF handleAuthorize, Status
<1>9. Blank # "invalid_client"
  BY Zenon DEF Blank
<1> QED
  BY <1>2, <1>8, <1>9, OthersSuffice

LEMMA RejectionHolds ==
  ASSUME Working, Innocent,
         NEW id \in {"mcp.token.invalid_rejected", "mcp.token.foreign_audience_rejected"}, Failing(id)
  PROVE  id \in Excused
<1>1. id \in OfTheKeptAnswer
  BY DEF OfTheKeptAnswer
<1>2. ASSUME Audible PROVE FALSE
  <2>1. id \notin {WrongHTU} \cup Exchanges \cup Holders /\ id \notin UnansweredRows
    BY DEF UnansweredRows, WrongHTU, Exchanges, Holders, Revocation
  <2>2. PICK a : AnswerTo(OneShot(id), a) /\ ~Passes(id, a)
    BY <2>1, OneShotFails DEF Working
  <2>3. PICK q : q = Present(Forged, NoProof)
    OBVIOUS
  <2>4. q.to = "mcp" /\ q.token = Forged /\ q = OneShot(id)
    BY <2>3, EndpointsShown DEF OneShot, Delegations
  <2>5. CallAnswer(q, a)
    BY <2>2, <2>4 DEF AnswerTo
  <2>6. a.status = 401
    BY <1>2, <2>4, <2>5, ForgedServed DEF Working, Ground, Innocent
  <2> QED
    BY <2>2, <2>6, OthersSuffice
<1> QED
  BY <1>1, <1>2, NotAudible

(***************************************************************************)
(* The rows that hold a token.                                             *)
(***************************************************************************)
LEMMA HeardAll ==
  ASSUME Dialogue, Seen, NEW id, id # WrongHTU, id \notin UnansweredRows, Failing(id)
  PROVE  Lost \notin ToSet(said)
<1> SUFFICES ASSUME NEW k \in DOMAIN said, said[k] = Lost PROVE FALSE
  BY DEF ToSet
<1>1. said # <<>> /\ said[Len(said)] # Lost
  BY RulesFail DEF Failing
<1>2. PICK S : said \in Seq(S)
  BY DEF Seen
<1>3. PICK n : n = Len(said)
  OBVIOUS
<1>4. n \in Nat \ {0} /\ n \in DOMAIN said /\ DOMAIN said = 1..n /\ k \in 1..(n - 1)
  BY <1>1, <1>2, <1>3
<1>5. PICK talk, r : talk = SubSeq(said, 1, n - 1) /\ r = Request(talk) /\ r.to # "nobody"
  BY <1>4, SaidSo
<1>6. talk = [i \in 1..(n - 1) |-> said[i]]
  BY <1>2, <1>3, <1>4, <1>5
<1>7. Lost \in ToSet(talk)
  BY <1>4, <1>6 DEF ToSet
<1>8. r = Asks(id, talk)
  BY <1>5 DEF Failing, Request
<1> QED
  BY <1>5, <1>7, <1>8, AsksLost DEF Nothing

LEMMA HeldFailed ==
  ASSUME Dialogue, Seen, NEW id \in Holders, Failing(id)
  PROVE  \E talk, a : /\ AnswerTo(Uses(id, talk), a) /\ Uses(id, talk).to # "nobody" /\ ~Passes(id, a)
                      /\ Len(Since(talk)) \in Nat /\ Len(Since(said)) = Len(Since(talk)) + 1
                      /\ Since(talk) = <<>> <=> Len(Since(talk)) = 0
                      /\ Len(Since(said)) = 1 => Since(said)[1] = a
                      /\ Uses(id, said) = Nothing
                      /\ Obtained(talk) = Obtained(said) /\ Obtained(said) # NoToken
                      /\ Verified(Obtained(said))
<1>0. id \notin UnansweredRows /\ id # WrongHTU
  BY Classes DEF Holders, UnansweredRows, Revocation
<1>1. \A talk : Request(talk) = Asks(id, talk)
  BY DEF Failing, Request
<1>2. Lost \notin ToSet(said)
  BY <1>0, HeardAll
<1>3. Form("client_credentials") # Nothing /\ Nothing.to = "nobody"
  BY DEF Form, Nothing
<1>4. Asks(id, said) = Nothing
  BY <1>1 DEF Failing, Pending
<1>5. ~Obtaining(said)
  BY <1>2, <1>3, <1>4, AsksHolding
<1>6. PICK talk, r, a :
        /\ r = Asks(id, talk) /\ r.to # "nobody" /\ AnswerTo(r, a)
        /\ a # Lost /\ Undecided(id, said, a) = Blank /\ ~Passes(id, a)
        /\ said # <<>> /\ a = said[Len(said)]
        /\ Len(talk) \in Nat /\ Len(said) = Len(talk) + 1
        /\ talk = <<>> <=> Len(talk) = 0
        /\ talk # <<>> => talk[1] = said[1]
        /\ \E T : talk \in Seq(T)
  BY <1>0, FailedOn
<1>7. Obtained(said) # NoToken
  BY <1>6, Decided
<1>8. Uses(id, said) = Nothing
  BY <1>2, <1>4, <1>5, <1>7, AsksHolding
<1>9. PICK S : said \in Seq(S)
  BY DEF Seen
<1>10. /\ Len(Since(said)) = IF opts.subjectToken THEN Len(said) ELSE Len(said) - 1
       /\ Len(Since(said)) \in Nat \ {0} /\ Len(said) \in Nat \ {0}
  <2>1. Since(said) # <<>>
    BY <1>8, UsedOnce
  <2> QED
    BY <1>5, <1>9, <2>1, LengthSince
<1>11. ~Obtaining(talk) /\ Obtained(talk) = Obtained(said)
  <2>1. ~opts.subjectToken => talk # <<>>
    BY <1>6, <1>10
  <2>2. talk # <<>> => talk[1] = said[1]
    BY <1>6
  <2> QED
    BY <2>1, <2>2 DEF Obtaining, Obtained
<1>12. r = Uses(id, talk)
  <2>1. Lost \notin ToSet(talk)
    BY <1>0, <1>3, <1>6, AsksLost
  <2> QED
    BY <1>6, <1>7, <1>11, <2>1, AsksHolding
<1>13. /\ Len(Since(talk)) \in Nat /\ Len(Since(said)) = Len(Since(talk)) + 1
       /\ Since(talk) = <<>> <=> Len(Since(talk)) = 0
  BY <1>6, <1>10, <1>11, LengthSince
<1>14. Len(Since(said)) = 1 => Since(said)[1] = a
  <2>1. CASE opts.subjectToken
    BY <1>6, <1>10, <2>1 DEF Since
  <2>2. CASE ~opts.subjectToken
    <3>1. Since(said) = Tail(said) /\ (Len(Since(said)) = 1 => Len(said) = 2)
      BY <1>10, <2>2 DEF Since
    <3> QED
      BY <1>6, <1>9, <3>1
  <2> QED
    BY <2>1, <2>2
<1>15. Verified(Obtained(said))
  BY <1>2, <1>5, <1>7, ObtainedFit DEF Failing, Holding
<1> QED
  BY <1>6, <1>7, <1>8, <1>11, <1>12, <1>13, <1>14, <1>15

LEMMA IntrospectionSays ==
  ASSUME NEW s, NEW q, q.to = "introspect", q.auth = ClientAuth, Verified(q.token), NEW a, a = Answered(s, q)
  PROVE  /\ q.token.n \in s.revoked => ~a.active
         /\ /\ q.token.n \notin s.revoked /\ "IntrospectInactive" \notin world.as
            /\ ~IntrospectionClosed
            => a.active
<1>1. a = handleIntrospect(world.as, s, q)
  BY DEF Answered
<1>2. CASE "SecretToIntrospect" \in world.as /\ q.auth = Blank
  <2>1. a = tokenError(world.as, 401, "invalid_client")
    BY <1>1, <1>2 DEF handleIntrospect
  <2>2. ~a.active
    BY <2>1, RefusalOf DEF Refusal
  <2> QED
    BY <1>2, <2>2 DEF IntrospectionClosed
<1>3. CASE ~("SecretToIntrospect" \in world.as /\ q.auth = Blank)
  <2> DEFINE taken == Verified(q.token) /\ q.token.n \notin s.revoked /\ "IntrospectInactive" \notin world.as
  <2>1. a = [Status(200) EXCEPT !.active = taken]
    BY <1>1, <1>3 DEF handleIntrospect
  <2>2. /\ q.token.n \notin s.revoked /\ "IntrospectInactive" \notin world.as => taken
        /\ q.token.n \in s.revoked => ~taken
    OBVIOUS
  <2> HIDE DEF taken
  <2>3. a.active = taken
    BY <2>1 DEF Status
  <2> QED
    BY <2>2, <2>3
<1> QED
  BY <1>2, <1>3

LEMMA IntrospectionHolds ==
  ASSUME Working, Innocent, NEW id, id = "rfc7662.introspect.active", Failing(id)
  PROVE  id \in Excused
<1>1. IntrospectionClosed => id \in Excused
  BY DEF Excused, SelfInflicted
<1>2. ASSUME ~IntrospectionClosed PROVE FALSE
  <2>1. id \in Holders
    BY DEF Holders
  <2>2. PICK talk, a : /\ AnswerTo(Uses(id, talk), a) /\ Uses(id, talk).to # "nobody" /\ ~Passes(id, a)
                       /\ Obtained(talk) = Obtained(said) /\ Verified(Obtained(said))
    BY <2>1, HeldFailed DEF Working
  <2>3. PICK q : q = Uses(id, talk)
    OBVIOUS
  <2>4. q = About("introspect", Obtained(talk))
    BY <2>2, <2>3, UsesShown DEF Nothing
  <2>5. q.to = "introspect" /\ q.auth = ClientAuth /\ Verified(q.token)
    BY <2>2, <2>4, AboutShown
  <2>6. PICK s : Suits(s, q) /\ a = Answered(s, q)
    BY <2>2, <2>3, <2>5, AnswerOf
  <2>7. q.token.n \notin s.revoked
    BY <2>5, <2>6 DEF Suits, Honoured, Failing
  <2>8. "IntrospectInactive" \notin world.as
    BY IssuerConforms, OfTheIssuer DEF Innocent
  <2>9. a.active
    BY <1>2, <2>5, <2>6, <2>7, <2>8, IntrospectionSays
  <2> QED
    BY <2>2, <2>9, OthersSuffice
<1> QED
  BY <1>1, <1>2

LEMMA RevocationHolds ==
  ASSUME Working, Innocent
  PROVE  ~Failing(Revocation)
<1> SUFFICES ASSUME Failing(Revocation) PROVE FALSE
  OBVIOUS
<1>1. Revocation \in Holders
  BY DEF Holders
<1>2. PICK talk, a : /\ AnswerTo(Uses(Revocation, talk), a) /\ Uses(Revocation, talk).to # "nobody"
                     /\ ~Passes(Revocation, a)
                     /\ Len(Since(talk)) \in Nat /\ Len(Since(said)) = Len(Since(talk)) + 1
                     /\ Uses(Revocation, said) = Nothing
                     /\ Obtained(talk) = Obtained(said) /\ Verified(Obtained(said))
  BY <1>1, HeldFailed DEF Working
<1>3. PICK q : q = Uses(Revocation, talk)
  OBVIOUS
<1>4. Nothing.to = "nobody"
  BY DEF Nothing
<1>5. Len(Since(said)) # 1
  <2>1. Uses(Revocation, said) = Nothing
    BY <1>2
  <2> QED
    BY <2>1, UsesShown, AboutShown
<1>6. q = About("introspect", Obtained(talk))
  BY <1>2, <1>3, <1>4, <1>5, UsesShown
<1>7. q.to = "introspect" /\ q.auth = ClientAuth /\ Verified(q.token)
  BY <1>2, <1>6, AboutShown
<1>8. PICK s : Suits(s, q) /\ a = Answered(s, q)
  BY <1>2, <1>3, <1>7, AnswerOf
<1>9. world.as \cap {"DeadRevocation", "IgnoreRevoke"} = {}
  BY IssuerConforms, OfTheIssuer DEF Innocent
<1>10. q.token.n \in s.revoked
  BY <1>7, <1>8, <1>9 DEF Suits, Honoured, Failing
<1>11. ~a.active
  BY <1>7, <1>8, <1>10, IntrospectionSays
<1> QED
  BY <1>2, <1>11, OthersSuffice

\* What is presented, and with which proof: without a nonce the first time only.
LEMMA Presenting ==
  ASSUME next \in Nat \ {0}, NEW talk, NEW q, q = PresentWithRetry(talk), q.to # "nobody"
  PROVE  /\ q.to = "mcp" /\ q.token = Obtained(talk)
         /\ "dpopRequired" \in disc => q.proof # NoProof /\ (~q.proof.nonce => Since(talk) = <<>>)
<1> DEFINE dpop == "dpopRequired" \in disc
<1>1. PICK first : first = IF dpop THEN Signed(talk, "resource", FALSE) ELSE NoProof
  OBVIOUS
<1>2. PICK again : again = IF dpop THEN Signed(talk, "resource", TRUE) ELSE NoProof
  OBVIOUS
<1>3. PICK held : held = Obtained(talk)
  OBVIOUS
<1>4. dpop => first # NoProof /\ again # NoProof /\ again.nonce
  <2> SUFFICES ASSUME dpop PROVE first # NoProof /\ again # NoProof /\ again.nonce
    OBVIOUS
  <2>1. \A nonce, proof : proof = Signed(talk, "resource", nonce) => proof # NoProof /\ proof.nonce = nonce
    <3> SUFFICES ASSUME NEW nonce, NEW proof, proof = Signed(talk, "resource", nonce)
                 PROVE  proof # NoProof /\ proof.nonce = nonce
      OBVIOUS
    <3> QED
      BY SignedShown
  <2>2. first = Signed(talk, "resource", FALSE) /\ again = Signed(talk, "resource", TRUE)
    BY <1>1, <1>2
  <2>3. first # NoProof
    BY <2>1, <2>2, Zenon
  <2>4. again # NoProof /\ again.nonce = TRUE
    BY <2>1, <2>2, Zenon
  <2> QED
    BY <2>3, <2>4
<1>5. Nothing.to = "nobody"
  BY DEF Nothing
<1>6. \/ q = Present(held, first) /\ Since(talk) = <<>>
      \/ q = Present(held, again)
  BY <1>1, <1>2, <1>3, <1>5 DEF PresentWithRetry
<1>7. \A token, proof : LET r == Present(token, proof) IN r.to = "mcp" /\ r.token = token /\ r.proof = proof
  BY DEF Present
<1> HIDE DEF dpop
<1>8. /\ q.to = "mcp" /\ q.token = held
      /\ dpop => q.proof # NoProof /\ (~q.proof.nonce => Since(talk) = <<>>)
  <2>1. CASE q = Present(held, first) /\ Since(talk) = <<>>
    <3>1. q.to = "mcp" /\ q.token = held /\ q.proof = first
      BY <1>7, <2>1
    <3> QED
      BY <1>4, <2>1, <3>1
  <2>2. CASE q = Present(held, again)
    <3>1. q.to = "mcp" /\ q.token = held /\ q.proof = again
      BY <1>7, <2>2
    <3> QED
      BY <1>4, <3>1
  <2> QED
    BY <1>6, <2>1, <2>2
<1> QED
  BY <1>3, <1>8 DEF dpop

\* A challenge with a nonce is answered.
LEMMA PresentsAgain ==
  ASSUME NEW talk, Len(Since(talk)) = 1, Since(talk)[1].status = 401,
         "dpopNonce" \in Since(talk)[1].headers, "dpopRequired" \in disc
  PROVE  PresentWithRetry(talk) # Nothing
<1>1. Since(talk) # <<>>
  <2>1. PICK turns : turns = Since(talk)
    OBVIOUS
  <2>2. Len(turns) = 1
    BY <2>1
  <2>3. ASSUME turns = <<>> PROVE FALSE
    <3>1. Len(<<>>) = 0
      OBVIOUS
    <3> QED
      BY <2>2, <2>3, <3>1
  <2> QED
    BY <2>1, <2>3
<1>2. PICK again : again = Signed(talk, "resource", TRUE)
  OBVIOUS
<1>3. PresentWithRetry(talk) = Present(Obtained(talk), again)
  BY <1>1, <1>2 DEF PresentWithRetry
<1>4. Present(Obtained(talk), again).to = "mcp"
  BY DEF Present
<1> QED
  BY <1>3, <1>4 DEF Nothing

LEMMA PresentationHolds ==
  ASSUME Working, Innocent, AllThere, NEW id, id = "smoke.present.token_accepted", Failing(id)
  PROVE  id \in Excused
<1> SUFFICES ASSUME Audible, id \notin SelfInflicted PROVE FALSE
  <2>1. id \in OfTheKeptAnswer
    BY DEF OfTheKeptAnswer
  <2> QED
    BY <2>1, NotAudible DEF Excused
<1>1. id \in Holders
  BY DEF Holders
<1>2. PICK talk, a : /\ AnswerTo(Uses(id, talk), a) /\ Uses(id, talk).to # "nobody" /\ ~Passes(id, a)
                     /\ Len(Since(talk)) \in Nat /\ Len(Since(said)) = Len(Since(talk)) + 1
                     /\ Since(talk) = <<>> <=> Len(Since(talk)) = 0
                     /\ Len(Since(said)) = 1 => Since(said)[1] = a
                     /\ Uses(id, said) = Nothing
                     /\ Obtained(talk) = Obtained(said) /\ Obtained(said) # NoToken
                     /\ Verified(Obtained(said))
  BY <1>1, HeldFailed DEF Working
<1>3. PICK q : q = Uses(id, talk)
  OBVIOUS
<1>4. q = PresentWithRetry(talk) /\ q.to # "nobody" /\ AnswerTo(q, a)
  BY <1>2, <1>3, UsesShown
<1>5. /\ q.to = "mcp" /\ q.token = Obtained(talk)
      /\ "dpopRequired" \in disc => q.proof # NoProof /\ (~q.proof.nonce => Since(talk) = <<>>)
  BY <1>4, Presenting DEF Working
<1>6. CallAnswer(q, a)
  BY <1>4, <1>5 DEF AnswerTo
<1>7. "RequireDPoP" \in world.rs => "dpopRequired" \in disc
  <2>1. opts.target
    BY KeptToItsOffer DEF Failing, Working
  <2>2. handlePRM(world.rs) \subseteq disc
    BY <2>1 DEF AllThere
  <2> QED
    BY <2>2, ResourceShows DEF Innocent
<1>8. /\ subject # "dead"
      /\ ~({"RequireDPoP", "ChecksBinding"} \subseteq world.rs)
      /\ ~({"RequireDPoP", "RemembersProofs", "LegacyAfterAuth"} \subseteq world.rs)
  BY DEF SelfInflicted
<1>9. Verified(q.token) /\ q.token # NoToken
  BY <1>2, <1>5
<1>10. "RequireDPoP" \in world.rs => q.proof # NoProof
  BY <1>5, <1>7
<1>11. \/ a.status = 200
       \/ /\ a.status = 401 /\ "dpopNonce" \in a.headers
          /\ "RequireDPoP" \in world.rs /\ ~q.proof.nonce
  BY <1>5, <1>6, <1>8, <1>9, <1>10, HeldServed DEF Working, Ground, Innocent
<1>12. CASE a.status = 200
  BY <1>2, <1>12, OthersSuffice
<1>13. CASE /\ a.status = 401 /\ "dpopNonce" \in a.headers
            /\ "RequireDPoP" \in world.rs /\ ~q.proof.nonce
  <2>1. Len(Since(said)) = 1
    BY <1>2, <1>5, <1>7, <1>13
  <2>2. Since(said)[1] = a
    BY <1>2, <2>1
  <2>3. PresentWithRetry(said) # Nothing
    BY <1>7, <1>13, <2>1, <2>2, PresentsAgain
  <2> QED
    BY <1>2, <2>3, UsesShown
<1> QED
  BY <1>11, <1>12, <1>13

----------------------------------------------------------------------------
(***************************************************************************)
(* Every row that fails on servers without a fault is accounted for.       *)
(***************************************************************************)
LEMMA FailingExcused ==
  ASSUME Working, Innocent, Surveyed, AllThere, NEW id, Failing(id)
  PROVE  id \in Excused
<1>1. CASE id \in Minting \cup Delegations \cup Impersonating \cup Exchanges
  BY <1>1, MintingHolds, DelegationHolds, ImpersonationHolds, ExchangesHold
<1>2. CASE id \in {"oauth21.token.rejects_unknown_grant", "oauth21.token.error_shape_rfc6749",
                   "dpop.token.nonce_challenge", WrongHTU, "sep2351.discovery.suffix_path",
                   "cimd.register.url_client_id"}
  BY <1>2, BogusHolds, NonceChallengeHolds, TamperingHolds, SuffixPathHolds, ClientDocumentHolds
<1>3. CASE id \in {"mcp.token.invalid_rejected", "mcp.token.foreign_audience_rejected"}
  BY <1>3, RejectionHolds
<1>4. CASE id \in Holders
  BY <1>4, IntrospectionHolds, RevocationHolds, PresentationHolds DEF Holders
<1>5. CASE id \notin Probed \/ id = "rfc8414.metadata.signed_metadata_valid"
  BY <1>5, OtherRowsHold
<1> QED
  BY <1>1, <1>2, <1>3, <1>4, <1>5 DEF Probed

LEMMA RowExcused ==
  ASSUME Working, Innocent, Surveyed, AllThere, pc = "checks", next <= Len(Registry), Over,
         NEW o \in IF Applies THEN {Rules(Current.id, said)} ELSE Evaluate(Current, View), o = "fail"
  PROVE  Current.id \in Excused
<1>1. CASE Applies
  <2>1. Rules(Current.id, said) = "fail"
    BY <1>1
  <2>2. Failing(Current.id)
    BY <1>1, <2>1 DEF Failing, Over
  <2> QED
    BY <2>2, FailingExcused
<1>2. CASE ~Applies
  <2>1. "fail" \in Evaluate(Current, View)
    BY <1>2
  <2>2. Current.may = {}
    <3> SUFFICES ASSUME Current.may # {} PROVE FALSE
      OBVIOUS
    <3>1. FirstUnmet(Current.gates, View) # 0
      BY <1>2 DEF Applies
    <3> QED
      BY <2>1, <3>1 DEF Evaluate, SkipKind
  <2> QED
    BY <2>1, <2>2, JudgeExcused DEF Working, Innocent
<1> QED
  BY <1>1, <1>2

----------------------------------------------------------------------------
(***************************************************************************)
(* The failed rows of a whole run.                                         *)
(***************************************************************************)
Faultless ==
  /\ pc \in Beforehand => FailedRows = {}
  /\ Innocent /\ ~DiscoveryErred => FailedRows \subseteq Excused

\* What accounts for a failed row goes on doing so.
LEMMA ExcusedStays ==
  ASSUME UNCHANGED <<world, opts, plan, client>>, server'.registeredAs = server.registeredAs,
         subject' \in {subject, "dead"}, Lossless' => Lossless
  PROVE  (Innocent' <=> Innocent) /\ Excused \subseteq Excused'
<1>1. ClientAuth' = ClientAuth
  BY DEF ClientAuth
<1>2. (MethodMismatch' <=> MethodMismatch) /\ (IntrospectionClosed' <=> IntrospectionClosed)
  BY <1>1 DEF MethodMismatch, IntrospectionClosed
<1>3. (Conforming' <=> Conforming) /\ Omitted' = Omitted
  BY DEF Conforming, Omitted
<1>4. SelfInflicted \subseteq SelfInflicted'
  <2>1. subject = "dead" => subject' = "dead"
    OBVIOUS
  <2> QED
    BY <1>2, <2>1 DEF SelfInflicted
<1>5. (Innocent' <=> Innocent)
  BY <1>2, <1>3 DEF Innocent
<1>6. OfTheKeptAnswer' = OfTheKeptAnswer /\ UnansweredRows' = UnansweredRows /\ Fallbacks' = Fallbacks
  BY DEF OfTheKeptAnswer, UnansweredRows, Fallbacks
<1> QED
  BY <1>3, <1>4, <1>5, <1>6 DEF Excused

\* A step that writes no row that fails leaves the report accounted for.
LEMMA FaultlessStays ==
  ASSUME Faultless, FailedRows' = FailedRows, DiscoveryErred => DiscoveryErred', pc' \in Beforehand => pc \in Beforehand,
         \/ FailedRows = {}
         \/ (Innocent' <=> Innocent) /\ Excused \subseteq Excused'
  PROVE  Faultless'
BY DEF Faultless, Beforehand

LEMMA FaultlessInit == InitWire => Faultless
<1> SUFFICES ASSUME InitWire PROVE Faultless
  OBVIOUS
<1>1. entries = <<>>
  BY DEF InitWire, Init
<1>2. FailedRows = {}
  BY <1>1, NothingReported
<1> QED
  BY <1>2 DEF Faultless

LEMMA EndCheckFaultless ==
  ASSUME Faultless, Surveyed, Working, Worth, WireAuth', EndCheck
  PROVE  Faultless'
<1>1. /\ pc = "checks" /\ next <= Len(Registry) /\ Over /\ pc' = pc
      /\ UNCHANGED <<world, opts, plan, client, server, budget>>
      /\ subject' \in {subject, "dead"}
  BY DEF EndCheck, inputs
<1>2. PICK o \in IF Applies THEN {Rules(Current.id, said)} ELSE Evaluate(Current, View) :
        entries' = Append(entries, Entry(Current, o))
  BY DEF EndCheck
<1>3. next \in DOMAIN Registry /\ Current \in CheckType
  BY <1>1, RegistryAssumption DEF Worth, Current
<1>4. o \in Outcomes
  BY <1>3, RulesTyped, EvaluateTyped
<1>5. Entry(Current, o) \in RowType /\ Entry(Current, o).id = Current.id /\ Entry(Current, o).outcome = o
  BY <1>3, <1>4 DEF Entry, RowType, CheckType, Current
<1>6. /\ DiscoveryErred => DiscoveryErred'
      /\ FailedRows' = FailedRows \cup (IF o = "fail" THEN {Current.id} ELSE {})
  <2>1. entries \in Seq(RowType)
    BY DEF Worth
  <2>2. PICK row : row = Entry(Current, o)
    OBVIOUS
  <2>3. row \in RowType /\ row.id = Current.id /\ row.outcome = o /\ entries' = Append(entries, row)
    BY <1>2, <1>5, <2>2
  <2> QED
    BY <2>1, <2>3, FailuresGrow
<1>7. Lossless' => Lossless
  BY <1>1 DEF Lossless
<1>8. (Innocent' <=> Innocent) /\ Excused \subseteq Excused'
  BY <1>1, <1>7, ExcusedStays
<1>9. pc' \notin Beforehand
  BY <1>1 DEF Beforehand
<1>10. ASSUME Innocent, ~DiscoveryErred, o = "fail"
       PROVE  Current.id \in Excused
  <2>1. Conforming /\ ~Walking
    BY <1>1, <1>10 DEF Innocent, Walking
  <2>2. AllThere
    BY <1>10, <2>1 DEF Surveyed
  <2> QED
    BY <1>1, <1>2, <1>10, <2>2, RowExcused
<1> QED
  BY <1>6, <1>8, <1>9, <1>10 DEF Faultless

LEMMA FaultlessStep ==
  Faultless /\ Surveyed /\ Ground /\ Chat /\ Seen /\ Worth /\ WireAuth /\ WireAuth' /\ WireCustody
    /\ [NextWire]_allVars => Faultless'
<1> SUFFICES ASSUME Faultless, Surveyed, Ground, Chat, Seen, Worth, WireAuth, WireAuth', WireCustody, [NextWire]_allVars
             PROVE  Faultless'
  OBVIOUS
<1>r. entries \in Seq(RowType)
  BY DEF Worth
<1>w. world' = world => server'.registeredAs = server.registeredAs
  BY DEF WireAuth
<1>1. CASE EndCheck
  <2>1. Working
    BY DEF Working, Worth, Chat
  <2> QED
    BY <1>1, <2>1, EndCheckFaultless
<1>2. CASE AskAS \/ Call \/ AnswerCall \/ LoseCall \/ Deregister \/ UNCHANGED allVars
  <2>1. UNCHANGED <<world, opts, plan, client, subject, entries>> /\ budget' \in {budget, budget - 1}
    BY <1>2 DEF AskAS, Call, AnswerCall, LoseCall, Deregister, allVars, vars, wireVars, inputs, tokens
  <2>2. pc' \in Beforehand => pc \in Beforehand
    BY <1>2 DEF AskAS, Call, AnswerCall, LoseCall, Deregister, allVars, vars, Beforehand
  <2>3. Lossless' => Lossless
    BY <2>1, LossesStay
  <2>4. (Innocent' <=> Innocent) /\ Excused \subseteq Excused'
    BY <1>w, <2>1, <2>3, ExcusedStays
  <2> QED
    BY <2>1, <2>2, <2>4, SameReport, FaultlessStays
<1>3. CASE EndWalk
  <2>1. pc = "discover" /\ entries' \in {entries, Append(entries, DiscoveryFailed)}
    BY <1>3 DEF EndWalk
  <2>2. FailedRows = {}
    BY <2>1 DEF Faultless, Beforehand
  <2>3. FailedRows' = FailedRows /\ (DiscoveryErred => DiscoveryErred')
    BY <1>r, <2>1, SameReport, FailuresGrow, PreludeShown
  <2> QED
    BY <2>1, <2>2, <2>3, FaultlessStays DEF Beforehand
<1>4. CASE ResolveWithout \/ RegisterAnswered \/ RegisterUnanswered
  <2>1. entries' = entries /\ pc = "resolve"
    BY <1>4 DEF ResolveWithout, RegisterAnswered, RegisterUnanswered, NoRegistration, MayRegister,
                AfterResolve, WireCustody
  <2>2. FailedRows = {} /\ pc \in Beforehand
    BY <2>1 DEF Faultless, Beforehand
  <2> QED
    BY <2>1, <2>2, SameReport, FaultlessStays
<1>5. CASE Silent
  <2>1. UNCHANGED <<world, opts, plan, client, server, budget>>
    BY <1>5 DEF Silent, AcceptFlags, ReportRefusal, EndChecks, AttachVerdicts, Finish, wireVars, inputs
  <2>2. CASE AcceptFlags \/ ReportRefusal
    <3>1. pc \in {"start", "prelude"} /\ entries' \in {entries, Append(entries, RegistrationFailed)}
      BY <2>2 DEF AcceptFlags, ReportRefusal
    <3>2. FailedRows = {} /\ pc \in Beforehand
      BY <3>1 DEF Faultless, Beforehand
    <3>3. FailedRows' = FailedRows /\ (DiscoveryErred => DiscoveryErred')
      BY <1>r, <3>1, SameReport, FailuresGrow, PreludeShown
    <3> QED
      BY <3>2, <3>3, FaultlessStays
  <2>3. CASE EndChecks \/ AttachVerdicts \/ Finish
    <3>1. UNCHANGED <<entries, subject>> /\ pc' \notin Beforehand
      BY <2>3 DEF EndChecks, AttachVerdicts, Finish, Return, Beforehand, tokens
    <3>2. Lossless' => Lossless
      BY <2>1 DEF Lossless
    <3>3. (Innocent' <=> Innocent) /\ Excused \subseteq Excused'
      BY <2>1, <3>1, <3>2, ExcusedStays
    <3> QED
      BY <3>1, <3>3, SameReport, FaultlessStays
  <2> QED
    BY <1>5, <2>2, <2>3 DEF Silent
<1> QED
  BY <1>1, <1>2, <1>3, <1>4, <1>5 DEF NextWire

LEMMA FaultlessAlways == SpecWire => []Faultless
<1> QED
  BY FaultlessInit, FaultlessStep, ChatAlways, GroundAlways, WorthAlways, SurveyedAlways, WireCustodyAlways, PTL
  DEF SpecWire

----------------------------------------------------------------------------
\* A server without a fault fails no row but those for what it does without and those
\* the run spoils itself, whatever the registry, the flags and the order of the
\* answers (README.md:288-289).
THEOREM NoFindingIsFalse == SpecWire => []NoFalseFinding
<1>1. Faultless /\ Surveyed => NoFalseFinding
  <2> SUFFICES ASSUME Faultless, Surveyed, Innocent, Lossless PROVE FailedRows \subseteq Omitted \cup SelfInflicted
    BY DEF NoFalseFinding, Innocent
  <2>1. CASE Walking
    <3>1. FailedRows = {}
      BY <2>1, NothingReported DEF Surveyed
    <3> QED
      BY <3>1
  <2>2. CASE ~Walking
    <3>1. ~DiscoveryErred
      BY <2>2 DEF Surveyed, Innocent
    <3>2. FailedRows \subseteq Excused
      BY <3>1 DEF Faultless
    <3> QED
      BY <3>2 DEF Excused
  <2> QED
    BY <2>1, <2>2
<1> QED
  BY <1>1, FaultlessAlways, SurveyedAlways, PTL

\* A lost request or answer is no finding either, once discovery has not failed: the
\* rows it adds are the two that fail an unreachable server (checks_oauth21.go,
\* checks_rfc8414.go), and those that read an answer the losing call has kept
\* (probe/mcp.go:106).
THEOREM LossesAreNoFindings == SpecWire => []LossIsNoFinding
<1>1. Faultless => LossIsNoFinding
  <2> SUFFICES ASSUME Faultless, Innocent, ~DiscoveryErred
               PROVE  FailedRows \subseteq Omitted \cup SelfInflicted
                        \cup {"oauth21.token.reachable", "rfc8414.metadata.signed_metadata_valid"}
                        \cup (IF world.rs \cap Fallbacks # {} THEN OfTheKeptAnswer ELSE {})
    BY DEF LossIsNoFinding, Innocent
  <2>1. FailedRows \subseteq Excused
    BY DEF Faultless
  <2> QED
    BY <2>1 DEF Excused, UnansweredRows
<1> QED
  BY <1>1, FaultlessAlways, PTL

----------------------------------------------------------------------------
(***************************************************************************)
(* The deployment a world amounts to.                                      *)
(***************************************************************************)
Placed ==
  /\ site = SiteOf(world)
  /\ "subjectToken" \in creds => opts.subjectToken

LEMMA PlacedInit == InitWire => Placed
BY DEF InitWire, Init, Placed

LEMMA PlacedStep == Placed /\ [NextWire]_allVars => Placed'
<1> SUFFICES ASSUME Placed, [NextWire]_allVars PROVE Placed'
  OBVIOUS
<1>1. UNCHANGED <<world, site, opts, creds>>
  BY DEF NextWire, EndCheck, EndWalk, AskAS, Call, AnswerCall, LoseCall, ResolveWithout, NoRegistration,
         RegisterAnswered, RegisterUnanswered, Silent, AcceptFlags, ReportRefusal, EndChecks,
         AttachVerdicts, Finish, Deregister, allVars, vars, wireVars, inputs
<1> QED
  BY <1>1 DEF Placed

LEMMA PlacedAlways == SpecWire => []Placed
BY PlacedInit, PlacedStep, PTL DEF SpecWire

LEMMA SiteShown ==
  ASSUME Placed
  PROVE  /\ site.facts = ChallengeOf(world) \cup handlePRM(world.rs) \cup {"noOfflineAccess"}
                           \cup (IF world.opts.target /\ "UnresolvableAuthServer" \in world.rs
                                 THEN {} ELSE handleDiscovery(world.as))
         /\ site.sound <=> /\ world.as \subseteq ReliableAS /\ world.rs \subseteq ReliableRS
                           /\ ~({"NoClientCredentials", "NoGrantTypesAdvertised"} \subseteq world.as)
                           /\ {"HeaderMethod", "ChecksRevocation"} \subseteq world.rs
                           /\ world.losses = 0 /\ ~world.opts.actorToken
         /\ site.openDCR <=> ~RegistrationRefused(world.as)
         /\ site.clientURI <=> "NoClientConfigEndpoint" \notin world.as
BY DEF Placed, SiteOf

\* A sound deployment is without a fault, and loses nothing.
LEMMA SoundIsInnocent ==
  ASSUME Placed, Ground, WireCustody, site.sound
  PROVE  /\ Innocent /\ Lossless /\ budget = 0
         /\ world.as \cap (ASViolations \cup ExternalAS \cup {"SkipDPoPNonce"}) = {}
         /\ world.rs \cap {"RequireDPoP", "LegacyAfterAuth"} = {}
         /\ {"HeaderMethod", "ChecksRevocation"} \subseteq world.rs
         /\ ~({"NoClientCredentials", "NoGrantTypesAdvertised"} \subseteq world.as)
<1>1. /\ world.as \subseteq ReliableAS /\ world.rs \subseteq ReliableRS
      /\ ~({"NoClientCredentials", "NoGrantTypesAdvertised"} \subseteq world.as)
      /\ {"HeaderMethod", "ChecksRevocation"} \subseteq world.rs
      /\ world.losses = 0 /\ ~opts.actorToken
  BY SiteShown DEF Ground
<1>2. world.as \cap (ASViolations \cup ExternalAS \cup {"SkipDPoPNonce"}) = {}
  <2>1. ASVariants \cap (ASViolations \cup ExternalAS) = {}
    BY DEF ASVariants, ASViolations, ExternalAS
  <2> QED
    BY <1>1, <2>1 DEF ReliableAS
<1>3. world.rs \cap {"RequireDPoP", "LegacyAfterAuth"} = {}
  BY <1>1 DEF ReliableRS
<1>4. budget = 0 /\ Lossless
  BY <1>1 DEF WireCustody, Lossless
<1>5. Conforming
  BY <1>1 DEF Conforming, ReliableAS, ReliableRS, RSVariants
<1>6. "StrictAuth" \notin world.as
  BY <1>2 DEF ExternalAS
<1> QED
  BY <1>1, <1>2, <1>3, <1>4, <1>5, <1>6 DEF Innocent, MethodMismatch

----------------------------------------------------------------------------
(***************************************************************************)
(* The walk is one of the walks the deployment allows.                     *)
(***************************************************************************)
\* Without a token, what a server has seen before makes no difference.
LEMMA UnaskedAnswered ==
  ASSUME NEW s, NEW t, NEW at
  PROVE  /\ handleMCP(world.rs, s, Bare, at) = handleMCP(world.rs, t, Unasked, at)
         /\ ModernError(handleMCP(world.rs, s, Bare, at)) =>
              handleMCP(world.rs, s, Bare, at).rpc = "unsupportedVersion"
         /\ Ambiguous(handleMCP(world.rs, s, Bare, at).status) => handleMCP(world.rs, s, Bare, at).headers = {}
<1>1. Unasked.token = NoToken
  BY DEF Unasked
<1>2. Authenticated(world.rs, t, Unasked) = Reply(401, Challenge(world.rs))
  BY <1>1 DEF Authenticated
<1>3. CASE Speaks(world.rs, at)
  <2>1. handleMCP(world.rs, s, Bare, at) = Reply(401, Challenge(world.rs))
    BY <1>3, BareAnswered
  <2>2. handleMCP(world.rs, t, Unasked, at) = Reply(401, Challenge(world.rs))
    <3>1. Authenticated(world.rs, t, Unasked).status # 200
      BY <1>2, ReplyShown
    <3> QED
      BY <1>2, <1>3, <3>1 DEF handleMCP
  <2> QED
    BY <2>1, <2>2, ReplyShown DEF Ambiguous
<1>4. CASE ~Speaks(world.rs, at)
  <2>1. handleMCP(world.rs, s, Bare, at) = TurnedAway(world.rs) /\ TurnedAway(world.rs).headers = {}
    BY <1>4, BareAnswered
  <2>2. handleMCP(world.rs, t, Unasked, at) = TurnedAway(world.rs)
    BY <1>4 DEF handleMCP
  <2>3. ModernError(TurnedAway(world.rs)) => TurnedAway(world.rs).rpc = "unsupportedVersion"
    BY ReplyShown, RefusedShown DEF TurnedAway
  <2> QED
    BY <2>1, <2>2, <2>3
<1> QED
  BY <1>3, <1>4

\* A lossless call finds the challenge the deployment has, any other finds it or nothing.
LEMMA ChallengeIsTheSites ==
  ASSUME NEW a, CallAnswer(Bare, a)
  PROVE  /\ a.headers \in {ChallengeOf(world), {}}
         /\ Lossless => a.headers = ChallengeOf(world)
<1>1. PICK s, t, first :
        /\ first = handleMCP(world.rs, s, Bare, ModernVersion)
        /\ \/ a = first /\ (Second(first) = NoVersion \/ ~Lossless)
           \/ Second(first) # NoVersion /\ a = handleMCP(world.rs, t, Bare, Second(first))
  BY DEF CallAnswer
<1> DEFINE at(v) == handleMCP(world.rs, Server(Blank), Unasked, v)
<1>2. first = at(ModernVersion) /\ \A v : handleMCP(world.rs, t, Bare, v) = at(v)
  BY <1>1, UnaskedAnswered
<1>3. /\ ModernError(first) => first.rpc = "unsupportedVersion"
      /\ Ambiguous(first.status) => first.headers = {}
  BY <1>1, UnaskedAnswered
<1>4. ChallengeOf(world) =
        IF ~Ambiguous(first.status) THEN first.headers
        ELSE IF ~ModernError(first) THEN at(LegacyVersion).headers
        ELSE IF Retry(first.supported) = NoVersion THEN first.headers
        ELSE at(Retry(first.supported)).headers
  BY <1>2 DEF ChallengeOf
<1> HIDE DEF at
<1>5. /\ ~Ambiguous(first.status) => Second(first) = NoVersion
      /\ Ambiguous(first.status) /\ ~ModernError(first) => Second(first) = LegacyVersion
      /\ Ambiguous(first.status) /\ ModernError(first) => Second(first) = Retry(first.supported)
  BY <1>3, SecondAsked
<1>6. LegacyVersion # NoVersion
  BY SecondAsked
<1>7. CASE Second(first) = NoVersion
  BY <1>1, <1>4, <1>5, <1>6, <1>7
<1>8. CASE Second(first) # NoVersion
  <2>1. Ambiguous(first.status) /\ first.headers = {} /\ ChallengeOf(world) = at(Second(first)).headers
    BY <1>3, <1>4, <1>5, <1>8
  <2> QED
    BY <1>1, <1>2, <1>8, <2>1
<1> QED
  BY <1>7, <1>8

LEMMA ChallengeIsShort == ChallengeOf(world) \subseteq ChallengeFacts
<1>1. \A v : handleMCP(world.rs, Server(Blank), Unasked, v).headers \subseteq Challenge(world.rs)
  BY UnaskedAnswered, BareAnswered, ReplyShown
<1>2. ChallengeOf(world) \subseteq Challenge(world.rs)
  BY <1>1 DEF ChallengeOf
<1> QED
  BY <1>2, Sources DEF ChallengeFacts

Darkened == opts.target /\ "UnresolvableAuthServer" \in world.rs

LEMMA SiteParts ==
  ASSUME Placed, Ground
  PROVE  /\ site.facts \cap ResourceFacts =
              ChallengeOf(world) \cup handlePRM(world.rs) \cup {"noOfflineAccess"}
         /\ site.facts \cap IssuerFacts = IF Darkened THEN {} ELSE handleDiscovery(world.as)
         /\ "asMetadata" \in site.facts <=> ~Darkened
         /\ site.facts \cap ChallengeFacts = ChallengeOf(world)
         /\ "noOfflineAccess" \in site.facts
         /\ handlePRM(world.rs) \cap (ChallengeFacts \cup {"noOfflineAccess"}) = {}
<1>1. /\ ChallengeOf(world) \subseteq ChallengeFacts
      /\ handlePRM(world.rs) \subseteq {"prm", "prmJSON", "prmServers", "prmCanonical", "twoPRMScopes",
                                     "noQueryMethod", "headerMethod", "dpopRequired"}
      /\ handleDiscovery(world.as) \subseteq IssuerFacts
      /\ "asMetadata" \in handleDiscovery(world.as)
  <2>1. handleDiscovery(world.as) \subseteq IssuerFacts
    BY Sources DEF IssuerFacts
  <2>2. "asMetadata" \in handleDiscovery(world.as)
    BY DEF handleDiscovery
  <2> QED
    BY <2>1, <2>2, ChallengeIsShort, Sources
<1>2. ChallengeFacts \cup {"noOfflineAccess"} \subseteq ResourceFacts /\ ResourceFacts \cap IssuerFacts = {}
  BY DEF ChallengeFacts, ResourceFacts, IssuerFacts
<1>3. handlePRM(world.rs) \subseteq ResourceFacts /\ handlePRM(world.rs) \cap (ChallengeFacts \cup {"noOfflineAccess"}) = {}
  BY <1>1 DEF ResourceFacts, ChallengeFacts
<1>4. "noOfflineAccess" \notin ChallengeFacts /\ "asMetadata" \in IssuerFacts
  BY DEF ChallengeFacts, IssuerFacts
<1>5. site.facts = ChallengeOf(world) \cup handlePRM(world.rs) \cup {"noOfflineAccess"}
                     \cup (IF Darkened THEN {} ELSE handleDiscovery(world.as))
  BY SiteShown DEF Ground, Darkened
<1> QED
  BY <1>1, <1>2, <1>3, <1>4, <1>5

LEMMA WalkMembers ==
  ASSUME NEW resource
  PROVE  /\ "asMetadata" \in site.facts =>
              Walk(TRUE, resource \cup {"issuer"} \cup (site.facts \cap IssuerFacts)) \in MetadataWalks(resource)
         /\ "asMetadata" \notin site.facts \/ ~site.sound =>
              Walk(FALSE, resource \cup {"issuer"}) \in MetadataWalks(resource)
BY DEF MetadataWalks

LEMMA WalkIsAllowed ==
  ASSUME Placed, Ground, WireCustody, Dialogue, Seen, pc = "discover", Pending = Nothing
  PROVE  Walked \in Walks
<1> DEFINE last == said[Len(said)]
           shown == said[1].headers
           document == handlePRM(world.rs)
           resource == IF opts.target THEN shown \cup {"noOfflineAccess"} \cup said[2].facts ELSE {}
<1>1. WalkRequest(said) = Nothing
  BY DEF Pending, Request
<1>2. /\ Len(said) \in Nat \ {0} /\ DOMAIN said = 1..Len(said)
      /\ opts.target /\ said[1] # Lost => Len(said) > 1
      /\ opts.target /\ said[1] # Lost /\ said[2] # Lost /\ "prmServers" \in said[2].facts => Len(said) > 2
  BY <1>1, WalkDone
<1>w. world \in Worlds
  BY DEF Ground
<1>3. site.sound => Walked.ok
  <2> SUFFICES ASSUME site.sound PROVE Walked.ok
    OBVIOUS
  <2>1. Conforming /\ Lossless
    BY SoundIsInnocent DEF Innocent
  <2> QED
    BY <1>w, <2>1, WalkSucceeds
<1>4. \A facts : ~Walk(FALSE, facts).ok /\ ~Unreachable.ok
  BY DEF Walk, Unreachable
<1>5. CASE opts.target /\ (said[1] = Lost \/ said[2] = Lost)
  <2>1. Walked = Unreachable
    BY <1>5 DEF Walked
  <2>2. ~site.sound
    BY <1>3, <1>4, <2>1
  <2> QED
    BY <1>5, <2>1, <2>2 DEF Walks
<1>6. ASSUME opts.target, said[1] # Lost, said[2] # Lost
      PROVE  /\ CallAnswer(Bare, said[1]) /\ said[2].facts = document
             /\ shown \in {ChallengeOf(world), {}} /\ (site.sound => shown = ChallengeOf(world))
  <2>1. 1 \in DOMAIN said /\ 2 \in DOMAIN said
    BY <1>2, <1>6
  <2>2. CallAnswer(Bare, said[1]) /\ said[2].facts = document
    BY <1>6, <2>1, WalkAnswers
  <2> QED
    BY <2>2, ChallengeIsTheSites, SoundIsInnocent
<1>7. ASSUME ~opts.target \/ "prmServers" \in document, opts.target => said[1] # Lost /\ said[2] # Lost
      PROVE  \/ Walked = Walk(FALSE, resource \cup {"issuer"}) /\ ~site.sound
             \/ /\ Walked = Walk(TRUE, resource \cup {"issuer"} \cup (site.facts \cap IssuerFacts))
                /\ "asMetadata" \in site.facts
  <2>0. opts.target => "prmServers" \in said[2].facts
    BY <1>6, <1>7
  <2>1. CASE Lacks(last)
    <3>1. Walked = Walk(FALSE, resource \cup {"issuer"})
      BY <1>7, <2>0, <2>1 DEF Walked
    <3> QED
      BY <1>3, <1>4, <3>1
  <2>2. CASE ~Lacks(last)
    <3>1. Walked = Walk(TRUE, resource \cup {"issuer"} \cup last.facts)
      BY <1>7, <2>0, <2>2 DEF Walked
    <3>2. Len(said) \in DOMAIN said /\ (~opts.target \/ Len(said) > 2)
      BY <1>2, <1>7, <2>0
    <3>3. last.facts \in {{}, handleDiscovery(world.as)} /\ ~Darkened
      BY <2>2, <3>2, WalkAnswers DEF Lacks, Darkened
    <3>4. last.facts = handleDiscovery(world.as)
      BY <2>2, <3>3 DEF Lacks
    <3> QED
      BY <3>1, <3>3, <3>4, SiteParts
  <2> QED
    BY <2>1, <2>2
<1>8. CASE ~opts.target
  <2>1. Walked \in MetadataWalks({})
    BY <1>7, <1>8, WalkMembers
  <2> QED
    BY <1>8, <2>1 DEF Walks
<1>9. CASE opts.target /\ said[1] # Lost /\ said[2] # Lost
  <2>1. resource = shown \cup {"noOfflineAccess"} \cup document
    BY <1>6, <1>9
  <2>2. "prmServers" \in resource <=> "prmServers" \in document
    <3>1. "prmServers" \notin ChallengeFacts \cup {"noOfflineAccess"}
      BY DEF ChallengeFacts
    <3> QED
      BY <1>6, <1>9, <2>1, <3>1, ChallengeIsShort
  <2>3. Walked \in ResourceWalks(resource)
    <3>1. CASE "prmServers" \in document
      <4>1. Walked \in MetadataWalks(resource)
        BY <1>7, <1>9, <3>1, WalkMembers
      <4> QED
        BY <2>2, <3>1, <4>1 DEF ResourceWalks
    <3>2. CASE "prmServers" \notin document
      <4>1. Walked = Walk(FALSE, resource)
        BY <1>6, <1>9, <3>2 DEF Walked
      <4> QED
        BY <2>2, <3>2, <4>1 DEF ResourceWalks
    <3> QED
      BY <3>1, <3>2
  <2>4. CASE site.sound
    <3>1. resource = site.facts \cap ResourceFacts
      BY <1>6, <1>9, <2>1, <2>4, SiteParts
    <3> QED
      BY <1>9, <2>3, <2>4, <3>1 DEF Walks
  <2>5. CASE ~site.sound
    <3>1. (site.facts \cap ResourceFacts) \ (ChallengeFacts \cup {"noOfflineAccess"}) = document
      BY SiteParts, ChallengeIsShort
    <3>2. shown \cup {"noOfflineAccess"} \in Heard
      BY <1>6, <1>9, SiteParts DEF Heard
    <3>3. resource = document \cup (shown \cup {"noOfflineAccess"})
      BY <2>1
    <3>4. Walked \in UNION {ResourceWalks(document \cup h) : h \in Heard}
      BY <2>3, <3>2, <3>3
    <3> QED
      BY <1>9, <2>5, <3>1, <3>4 DEF Walks
  <2> QED
    BY <2>4, <2>5
<1> QED
  BY <1>5, <1>8, <1>9

LEMMA EndWalkIsDiscover ==
  ASSUME Placed, Ground, WireCustody, Dialogue, Seen, EndWalk
  PROVE  Discover
<1>1. pc = "discover" /\ Pending = Nothing
  BY DEF EndWalk, Over
<1>2. Walked \in Walks
  BY <1>1, WalkIsAllowed
<1>3. ~opts.authCode
  BY DEF WireCustody
<1> QED
  BY <1>2, <1>3 DEF EndWalk, Discover

----------------------------------------------------------------------------
(***************************************************************************)
(* The client is registered, and deleted, as the deployment allows.        *)
(***************************************************************************)
LEMMA RegisterAnsweredIsRegister ==
  ASSUME Placed, Ground, WireCustody, RegisterAnswered
  PROVE  Register
<1>1. site.openDCR
  BY SiteShown DEF RegisterAnswered
<1>2. /\ RegisteredFacts(world.as) \in SUBSET {"applicationTypeKept", "issuerBound"}
      /\ site.sound => RegisteredFacts(world.as) = {"applicationTypeKept", "issuerBound"}
  BY Sources, SoundIsInnocent, IssuerShows DEF Innocent
<1> QED
  BY <1>1, <1>2 DEF RegisterAnswered, Register

LEMMA RegisterUnansweredIsFailure ==
  ASSUME Placed, Ground, WireCustody, RegisterUnanswered
  PROVE  RegistrationFails
<1>1. ~(site.sound /\ site.openDCR)
  <2> SUFFICES ASSUME site.sound, site.openDCR PROVE FALSE
    OBVIOUS
  <2>1. budget > 0
    BY SiteShown DEF RegisterUnanswered
  <2> QED
    BY <2>1, SoundIsInnocent
<1>2. live' \in {live} \cup (IF site.openDCR THEN {live + 1} ELSE {})
  BY SiteShown DEF RegisterUnanswered
<1> QED
  BY <1>1, <1>2 DEF RegisterUnanswered, RegistrationFails

LEMMA DeregisterIsCleanUp ==
  ASSUME Placed, Ground, WireCustody, Deregister
  PROVE  CleanUp
<1>1. site.sound => budget = 0 /\ (plan.registered /\ plan.uri => Deletes(world.as))
  <2> SUFFICES ASSUME site.sound PROVE budget = 0 /\ (plan.registered /\ plan.uri => Deletes(world.as))
    OBVIOUS
  <2>1. "ForeignRegistrationURI" \in ASViolations
    BY DEF ASViolations
  <2> QED
    BY <2>1, SoundIsInnocent DEF Deletes, WireCustody
<1>2. live' = live \/ (plan.registered /\ plan.uri /\ live' = live - 1)
  BY DEF Deregister
<1>3. site.sound /\ plan.registered /\ plan.uri => live' = live - 1
  BY <1>1 DEF Deregister, WireCustody
<1> QED
  BY <1>2, <1>3 DEF Deregister, CleanUp

----------------------------------------------------------------------------
(***************************************************************************)
(* What Rules makes of the answers is what the row may say.                *)
(***************************************************************************)
LEMMA ProbedIsRefutable == Probed \cup UnansweredRows \subseteq Refutable
BY DEF Probed, UnansweredRows, Refutable, Minting, SelfMinted, Impersonating

LEMMA NeedsNoLogin ==
  ASSUME Ground, next \in Nat \ {0}, next <= Len(Registry), Applies
  PROVE  ToSet(Current.gates) \cap {"authCodeFlow", "refreshToken"} = {}
<1>1. \A g \in ToSet(Current.gates) : GateHolds(g, View)
  BY GatesMet DEF Applies
<1>2. \A g \in {"authCodeFlow", "refreshToken"} : GateHolds(g, View) => g \in View
  BY DEF GateHolds
<1>3. View \subseteq Known
  BY ViewKnown
<1>4. {"authCodeFlow", "refreshToken"} \cap Known = {}
  BY Sources DEF Known, Findable
<1> QED
  BY <1>1, <1>2, <1>3, <1>4

LEMMA RulesShown ==
  ASSUME NEW id, NEW talk, NEW o, o = Rules(id, talk)
  PROVE  \/ o \in {"pass", "error"}
         \/ o = "fail" /\ id \in Refutable
         \/ o = "untested" /\ id \in SelfMinted \cup Holders
         \/ o = "unsupported"
              /\ id \in {"rfc7009.advertise.revocation_endpoint", "dpop.token.nonce_challenge"}
<1> DEFINE last == talk[Len(talk)]
<1>1. \/ Unanswered(id) = "error"
      \/ Unanswered(id) = "fail" /\ id \in UnansweredRows
  BY DEF Unanswered, UnansweredRows
<1>2. \/ Undecided(id, talk, last) = Blank
      \/ Undecided(id, talk, last) = "untested" /\ id \in SelfMinted \cup Holders
      \/ Undecided(id, talk, last) = "unsupported"
           /\ id \in {"rfc7009.advertise.revocation_endpoint", "dpop.token.nonce_challenge"}
  BY DEF Undecided
<1>3. Passes(id, last) \/ id \in Probed
  BY OtherRowsPass
<1>4. \/ o = "pass"
      \/ o = Unanswered(id)
      \/ o = Undecided(id, talk, last) /\ Undecided(id, talk, last) # Blank
      \/ o = "fail" /\ ~Passes(id, last)
  BY DEF Rules
<1> HIDE DEF last
<1> QED
  BY <1>1, <1>2, <1>3, <1>4, ProbedIsRefutable

LEMMA RuledWithin ==
  ASSUME Ground, next \in Nat \ {0}, next <= Len(Registry), Applies, NEW o, o = Rules(Current.id, said)
  PROVE  o \in Current.may \cup {"error"} /\ "pass" \in Current.may
<1>1. next \in DOMAIN Registry /\ Current = Registry[next]
  BY GatesMet DEF Applies
<1>2. ToSet(Current.gates) \cap {"authCodeFlow", "refreshToken"} = {} /\ Current.may # {}
  BY NeedsNoLogin DEF Applies
<1>3. /\ "pass" \in Current.may
      /\ Current.id \in Refutable => "fail" \in Current.may
      /\ Current.id \in SelfMinted \cup Holders => "untested" \in Current.may
      /\ Current.id \in {"rfc7009.advertise.revocation_endpoint", "dpop.token.nonce_challenge"} =>
           "unsupported" \in Current.may
  BY <1>1, <1>2, OutcomesOfRulesAssumption
<1> QED
  BY <1>3, RulesShown

----------------------------------------------------------------------------
(***************************************************************************)
(* A sound deployment passes what it is asked, but for a revoked token.    *)
(***************************************************************************)
Deployed ==
  /\ Placed /\ Working /\ Surveyed /\ WireCustody /\ site.sound
  /\ pc = "checks" /\ next <= Len(Registry) /\ Applies

LEMMA DeployedWell ==
  ASSUME Deployed
  PROVE  /\ Ground /\ Innocent /\ Lossless /\ AllThere
         /\ world.as \cap (ASViolations \cup ExternalAS \cup {"SkipDPoPNonce"}) = {}
<1>1. /\ Innocent /\ Lossless
      /\ world.as \cap (ASViolations \cup ExternalAS \cup {"SkipDPoPNonce"}) = {}
  BY SoundIsInnocent DEF Deployed, Working
<1>2. ~Walking
  BY DEF Deployed, Walking
<1> QED
  BY <1>1, <1>2 DEF Deployed, Working, Surveyed, Innocent

\* A token the run asks for is one it is offered.
LEMMA ClientIsGranted ==
  ASSUME Deployed, Current.id \in SelfMinted \/ (Current.id \in Holders /\ ~opts.subjectToken)
  PROVE  "NoClientCredentials" \notin world.as
<1>1. SUFFICES ASSUME "NoClientCredentials" \in world.as, "NoGrantTypesAdvertised" \notin world.as PROVE FALSE
  BY SoundIsInnocent DEF Deployed, Working
<1>2. Current.id \notin SelfMinted
  BY <1>1, GrantOffered DEF Deployed, Working
<1>3. /\ next \in DOMAIN Registry /\ Current = Registry[next]
      /\ \A g \in ToSet(Current.gates) : GateHolds(g, View)
  BY GatesMet DEF Deployed, Working, Applies
<1>4. GateHolds("tokenSource", View)
  BY <1>2, <1>3, OutcomesOfRulesAssumption
<1>5. \/ "subjectToken" \in View
      \/ "grantTypes" \in View => "clientCredentials" \in View
  BY <1>4 DEF GateHolds
<1>6. "grantTypes" \in View
  <2>1. "grantTypes" \in handleDiscovery(world.as)
    BY <1>1, DeployedWell, IssuerShows DEF Innocent
  <2> QED
    BY <2>1, DeployedWell DEF AllThere, View
<1>7. View \subseteq disc \cup RegisteredFacts(world.as) \cup creds
                        \cup {"mcpTarget", "presentEnabled", "client", "registered"}
  BY DEF View, Deployed, Working, Ground
<1>8. {"subjectToken", "clientCredentials"} \cap (disc \cup RegisteredFacts(world.as)) = {}
  <2>1. "clientCredentials" \notin handleDiscovery(world.as)
    BY <1>1 DEF handleDiscovery
  <2> QED
    BY <2>1, Sources DEF Deployed, Working, Ground, Found, Findable
<1>9. "subjectToken" \notin creds /\ "clientCredentials" \notin creds
  BY <1>2 DEF Deployed, Placed, Working, Ground
<1> QED
  BY <1>5, <1>6, <1>7, <1>8, <1>9

LEMMA NotTheGrant ==
  "unsupported_grant_type" \notin {Blank, "use_dpop_nonce", "invalid_dpop_proof"}
BY Zenon DEF Blank

LEMMA Problems == \A v, q : Problem(v, q) \in {Blank, "use_dpop_nonce", "invalid_dpop_proof"}
BY DEF Problem, ProofProblem

LEMMA GrantNotDeclined ==
  ASSUME Deployed, "NoClientCredentials" \notin world.as, NEW s, Fit(s),
         NEW q, q.grant = "client_credentials", q.auth = ClientAuth, NEW a, a = handleToken(world.as, s, q)
  PROVE  a.error # "unsupported_grant_type"
<1>1. ~Mismatched(world.as, s, q)
  BY DeployedWell, Matched DEF Deployed, Working, Innocent
<1>2. "BadErrorShape" \notin world.as /\ {"RejectResource", "ErrorOnMultipleResources"} \cap world.as = {}
  BY DeployedWell, OfTheIssuer
<1>3. CASE Denied(world.as, s, q)
  <2>1. Refusal(world.as, a, 400, Problem(world.as, q))
    BY <1>1, <1>3, DeniedOf
  <2>2. a.error = Problem(world.as, q)
    BY <1>2, <2>1 DEF Refusal
  <2> QED
    BY <2>2, Problems, NotTheGrant
<1>4. CASE ~Denied(world.as, s, q)
  <2>1. a = handleClientCredentials(world.as, s, q)
    BY <1>4, GrantedClient
  <2>2. New(s, a)
    BY <1>2, <2>1, MintedOf
  <2> QED
    BY <2>2, NotTheGrant DEF New
<1> QED
  BY <1>3, <1>4

\* The last answer of a check comes from a server.
LEMMA LastAnswered ==
  ASSUME Deployed, said # <<>>
  PROVE  \E talk, r, a :
           /\ r = Asks(Current.id, talk) /\ r.to # "nobody" /\ AnswerTo(r, a)
           /\ a # Lost /\ a = said[Len(said)]
           /\ Len(talk) \in Nat /\ Len(said) = Len(talk) + 1
           /\ talk = <<>> <=> Len(talk) = 0
           /\ talk # <<>> => talk[1] = said[1]
           /\ \E S : talk \in Seq(S)
<1>1. PICK talk : /\ Told(talk, said[Len(said)])
                  /\ Len(talk) \in Nat /\ Len(said) = Len(talk) + 1
                  /\ talk = <<>> <=> Len(talk) = 0
                  /\ talk # <<>> => talk[1] = said[1]
                  /\ \E S : talk \in Seq(S)
  BY LastTold DEF Deployed, Working
<1>2. PICK a : a = said[Len(said)]
  OBVIOUS
<1>3. PICK r : r = Request(talk) /\ r.to # "nobody" /\ (a # Lost => AnswerTo(r, a))
                 /\ (a = Lost /\ Lossless => Dark(r))
  BY <1>1, <1>2 DEF Told
<1>4. r = Asks(Current.id, talk)
  BY <1>3 DEF Request, Deployed
<1>5. a # Lost
  <2>1. ~Dark(r)
    BY DEF Dark, Deployed
  <2> QED
    BY <1>3, <2>1, DeployedWell
<1> QED
  BY <1>1, <1>2, <1>3, <1>4, <1>5

LEMMA FormSent ==
  \A grant : LET q == Form(grant)
             IN q.to = "token" /\ q.grant = grant /\ q.auth = ClientAuth /\ q.proof = NoProof /\ q # Nothing
BY DEF Form, Nothing

LEMMA MintingAsks ==
  ASSUME NEW id \in SelfMinted, NEW talk, NEW r, r = Asks(id, talk), r.to # "nobody"
  PROVE  r.to = "token" /\ r.grant = "client_credentials" /\ r.auth = ClientAuth
<1>0. Nothing.to = "nobody"
  BY DEF Nothing
<1>1. CASE id \in {WrongHTU} \cup Exchanges
  BY <1>0, <1>1, AsksProving, ProvingSent
<1>2. CASE id \in Minting \cup {"dpop.token.nonce_challenge"}
  <2>1. id \notin {WrongHTU} \cup Exchanges \cup Holders
    BY <1>2 DEF Minting, WrongHTU, Exchanges, Holders, Revocation
  <2>2. r = OneShot(id)
    BY <1>0, <2>1, AsksLost, AsksOnce
  <2>3. CASE id \in Minting
    <3>1. PICK audiences : r = Resource(audiences)
      BY <2>2, <2>3, Tokens DEF Minting
    <3> QED
      BY <3>1, RequestsShown
  <2>4. CASE id = "dpop.token.nonce_challenge"
    <3>1. r = Proving(<<>>, "token", FALSE)
      BY <2>2, <2>4 DEF OneShot, Delegations
    <3> QED
      BY <3>1, ProvingSent
  <2> QED
    BY <1>2, <2>3, <2>4
<1> QED
  BY <1>1, <1>2 DEF SelfMinted, Minting

\* The run gets the token it asks for.
LEMMA ObtainsAToken ==
  ASSUME Deployed, Current.id \in Holders, ~Obtaining(said)
  PROVE  Obtained(said) # NoToken
<1>1. CASE opts.subjectToken
  BY <1>1, PastedShown DEF Obtained
<1>2. CASE ~opts.subjectToken
  <2>1. said # <<>>
    BY <1>2 DEF Obtaining
  <2>2. PICK q : q = Form("client_credentials")
    OBVIOUS
  <2>3. 1 \in DOMAIN said /\ Told(<<>>, said[1])
    BY <2>1, FirstTold DEF Deployed, Working
  <2>4. Request(<<>>) = q
    BY <1>2, <2>2, Asked1 DEF Deployed
  <2>5. said[1] # Lost
    <3>1. Lost \notin ToSet(said)
      BY DeployedWell, NothingLost DEF Deployed, Working
    <3> QED
      BY <2>3, <3>1 DEF ToSet
  <2>6. PICK a : a = said[1] /\ AnswerTo(q, a)
    BY <2>3, <2>4, <2>5 DEF Told
  <2>7. q.to = "token" /\ q.grant = "client_credentials" /\ q.auth = ClientAuth /\ q.proof = NoProof
    BY <2>2, FormSent
  <2>8. PICK s : Fit(s) /\ a = handleToken(world.as, s, q)
    BY <2>6, <2>7, AnswerOfToken
  <2>9. a.error # "unsupported_grant_type"
    BY <1>2, <2>7, <2>8, ClientIsGranted, GrantNotDeclined
  <2>10. a.status = 200 /\ a.token # NoToken
    <3>1. Problem(world.as, q) = Blank
      BY <2>7 DEF Problem
    <3> QED
      BY <2>7, <2>8, <2>9, <3>1, DeployedWell, MintedRight DEF Deployed
  <2> QED
    BY <1>2, <2>6, <2>10 DEF Obtained
<1> QED
  BY <1>1, <1>2

\* What the check asked first is refused for the nonce, if it is about that.
LEMMA NonceAsked ==
  ASSUME Deployed, NEW q, q = OneShot("dpop.token.nonce_challenge"), NEW a, AnswerTo(q, a)
  PROVE  a.status # 200
<1>0. q = Proving(<<>>, "token", FALSE)
  BY DEF OneShot, Delegations
<1>1. q.to = "token" /\ q.auth = ClientAuth
  BY <1>0, ProvingSent
<1>2. PICK s : Fit(s) /\ a = handleToken(world.as, s, q)
  BY <1>1, AnswerOfToken
<1>3. "SkipDPoPNonce" \notin world.as
  BY DeployedWell
<1>4. Problem(world.as, q) = "use_dpop_nonce" /\ "use_dpop_nonce" # Blank
  <2>1. "use_dpop_nonce" # Blank
    BY Zenon DEF Blank
  <2> QED
    BY <1>0, <1>3, <2>1, ProofJudged DEF Deployed, Working
<1>5. ~Mismatched(world.as, s, q)
  BY <1>1, <1>2, DeployedWell, Matched DEF Deployed, Working, Innocent
<1>6. Refusal(world.as, a, 400, "use_dpop_nonce")
  BY <1>2, <1>4, <1>5, DeniedOf DEF Denied
<1> QED
  BY <1>6 DEF Refusal

LEMMA AnswersDecide ==
  ASSUME Deployed, said # <<>>
  PROVE  Undecided(Current.id, said, said[Len(said)]) = Blank
<1>1. PICK id, a : id = Current.id /\ a = said[Len(said)]
  OBVIOUS
<1>2. PICK talk, r :
        /\ r = Asks(id, talk) /\ r.to # "nobody" /\ AnswerTo(r, a)
        /\ a # Lost
  BY <1>1, LastAnswered
<1>3. ~(id \in SelfMinted /\ a.error = "unsupported_grant_type")
  <2> SUFFICES ASSUME id \in SelfMinted PROVE a.error # "unsupported_grant_type"
    OBVIOUS
  <2>1. r.to = "token" /\ r.grant = "client_credentials" /\ r.auth = ClientAuth
    BY <1>2, MintingAsks
  <2>2. PICK s : Fit(s) /\ a = handleToken(world.as, s, r)
    BY <1>2, <2>1, AnswerOfToken
  <2> QED
    BY <1>1, <2>1, <2>2, ClientIsGranted, GrantNotDeclined
<1>4. ~(id \in Holders /\ Obtained(said) = NoToken)
  BY <1>1, ObtainsAToken DEF Obtaining
<1>0. Nothing.to = "nobody"
  BY DEF Nothing
<1>5. ~(id = "rfc7009.advertise.revocation_endpoint" /\ a.status = 404)
  <2> SUFFICES ASSUME id = "rfc7009.advertise.revocation_endpoint" PROVE a.status # 404
    OBVIOUS
  <2>1. id \notin {WrongHTU} \cup Exchanges \cup Holders
    BY NotHeld DEF Endpoints
  <2>2. r = About("revoke", Forged)
    BY <1>0, <1>2, <2>1, AsksLost, AsksOnce, Others
  <2>3. r.to = "revoke"
    BY <2>2, EndpointsShown
  <2>4. PICK s : a = Answered(s, r)
    BY <1>2, <2>3, AnswerOf
  <2>5. a = handleRevoke(world.as)
    BY <2>3, <2>4 DEF Answered
  <2>6. "DeadRevocation" \notin world.as
    BY DeployedWell, OfTheIssuer
  <2> QED
    BY <2>5, <2>6, Statuses DEF handleRevoke
<1>6. ~(id = "dpop.token.nonce_challenge" /\ a.status = 200)
  <2> SUFFICES ASSUME id = "dpop.token.nonce_challenge" PROVE a.status # 200
    OBVIOUS
  <2>1. id \notin {WrongHTU} \cup Exchanges \cup Holders
    BY DEF WrongHTU, Exchanges, Holders, Revocation
  <2>2. r = OneShot(id)
    BY <1>0, <1>2, <2>1, AsksLost, AsksOnce
  <2> QED
    BY <1>2, <2>2, NonceAsked
<1>7. Undecided(id, said, a) = Blank
  BY <1>3, <1>4, <1>5, <1>6 DEF Undecided
<1> QED
  BY <1>1, <1>7

LEMMA RulesOf ==
  ASSUME NEW id, NEW talk, talk # <<>>, NEW a, a = talk[Len(talk)], a # Lost, Undecided(id, talk, a) = Blank
  PROVE  Rules(id, talk) = IF Passes(id, a) THEN "pass" ELSE "fail"
BY DEF Rules

\* Whatever is asked of it, a sound deployment passes, except the presentation of a
\* revoked token.
LEMMA DeployedPasses ==
  ASSUME Deployed, Pending = Nothing, Rules(Current.id, said) # "pass"
  PROVE  Current.id = "smoke.present.token_accepted" /\ subject = "dead"
<1>1. PICK id, a : id = Current.id /\ a = said[Len(said)]
  OBVIOUS
<1>2. said # <<>>
  BY DEF Rules
<1>3. a # Lost /\ Undecided(id, said, a) = Blank
  BY <1>1, <1>2, LastAnswered, AnswersDecide
<1>4. Rules(id, said) = "fail" /\ ~Passes(id, a)
  BY <1>1, <1>2, <1>3, RulesOf
<1>5. Failing(id)
  BY <1>1, <1>4 DEF Failing, Deployed
<1>6. id \in Excused
  BY <1>5, DeployedWell, FailingExcused DEF Deployed
<1>7. id \in Probed
  BY <1>4, OtherRowsPass
<1>8. Probed \cap {"sep2468.advertise.iss_parameter", "mcp.challenge.scope_present",
                   "rfc8414.metadata.grant_types_advertised"} = {}
  BY DEF Probed, Minting, Delegations, Impersonating, Exchanges, Holders, Revocation, WrongHTU
<1>9. id \in SelfInflicted
  BY <1>6, <1>7, <1>8, DeployedWell DEF Excused, Omitted
<1>10. ~IntrospectionClosed
  <2>1. "SecretToIntrospect" \in ExternalAS
    BY DEF ExternalAS
  <2> QED
    BY <2>1, DeployedWell DEF IntrospectionClosed
<1>11. "RequireDPoP" \notin world.rs
  BY SoundIsInnocent DEF Deployed, Working
<1> QED
  BY <1>1, <1>9, <1>10, <1>11 DEF SelfInflicted

\* A token it has revoked is put to it by one row alone, which it fails.
LEMMA RevokedTwice ==
  ASSUME Deployed, Memory, subject = "dead", Current.id \in SubjectTokenRows
  PROVE  Current.id = "smoke.present.token_accepted" /\ opts.subjectToken
<1>1. 1 \in server.revoked /\ opts.subjectToken
  BY DEF Memory, Ledger
<1>2. PICK j \in DOMAIN Registry : j <= next /\ Registry[j].id = Revocation
  BY <1>1 DEF Memory, Ledger, Deployed
<1>3. next \in DOMAIN Registry /\ Current = Registry[next]
  BY GatesMet DEF Deployed, Working, Applies
<1>4. next \in Nat /\ j \in Nat
  <2>1. Len(Registry) \in Nat /\ DOMAIN Registry = 1..Len(Registry)
    BY RegistryAssumption
  <2> QED
    BY <1>3, <2>1
<1>5. ~(next < j)
  BY <1>2, <1>4
<1> QED
  BY <1>1, <1>2, <1>3, <1>5, RevokedLateAssumption

LEMMA RevokedIsRefused ==
  ASSUME Deployed, Memory, Pending = Nothing, subject = "dead", Current.id \in SubjectTokenRows
  PROVE  Rules(Current.id, said) = "fail"
<1>1. PICK id : id = Current.id /\ id = "smoke.present.token_accepted"
  BY RevokedTwice
<1>2. id \in Holders /\ id # WrongHTU
  BY <1>1 DEF Holders, WrongHTU
<1>3. \A talk : ~Obtaining(talk) /\ Obtained(talk) = Pasted /\ Since(talk) = talk
  BY RevokedTwice DEF Obtaining, Obtained, Since
<1>0. Nothing.to = "nobody"
  BY DEF Nothing
<1>4. \A talk : Lost \notin ToSet(talk) => Asks(id, talk) = Uses(id, talk)
  BY <1>2, <1>3, AsksHolding, PastedShown
<1>5. said # <<>>
  <2> SUFFICES ASSUME said = <<>> PROVE FALSE
    OBVIOUS
  <2>1. Asks(id, <<>>) = Nothing
    BY <1>1 DEF Pending, Request, Deployed
  <2>2. Uses(id, <<>>) # Nothing
    BY <1>2, <1>3, UsedOnce
  <2> QED
    BY <1>4, <2>1, <2>2, ToSetNone
<1>6. PICK talk, r, a :
        /\ r = Asks(id, talk) /\ r.to # "nobody" /\ AnswerTo(r, a)
        /\ a # Lost /\ a = said[Len(said)]
  BY <1>1, <1>5, LastAnswered
<1>7. r = PresentWithRetry(talk)
  BY <1>0, <1>1, <1>2, <1>4, <1>6, AsksLost, UsesShown
<1>8. r.to = "mcp" /\ r.token = Pasted
  BY <1>3, <1>6, <1>7, Presenting DEF Deployed, Working
<1>9. CallAnswer(r, a)
  BY <1>6, <1>8 DEF AnswerTo
<1>10. PICK u : Suits(u, r) /\ a = Authenticated(world.rs, u, r)
  BY <1>9, DeployedWell, Served DEF Innocent, Audible, Ground
<1>11. r.token.n \in u.revoked
  BY <1>8, <1>10, PastedShown DEF Suits, Honoured
<1>12. "ChecksRevocation" \in world.rs
  BY SoundIsInnocent DEF Deployed, Working
<1>13. a = Reply(401, Challenge(world.rs))
  BY <1>10, <1>11, <1>12 DEF Authenticated
<1>14. ~Passes(id, a)
  BY <1>1, <1>13, ReplyShown, OthersPass
<1> QED
  BY <1>1, <1>5, <1>6, <1>14, AnswersDecide, RulesOf

----------------------------------------------------------------------------
(***************************************************************************)
(* Each step of a run request by request is a step of a run, or none.      *)
(***************************************************************************)
LEMMA RowIsAllowed ==
  ASSUME Placed, Working, Surveyed, WireCustody, Memory, pc = "checks", next <= Len(Registry), Over,
         NEW o \in IF Applies THEN {Rules(Current.id, said)} ELSE Evaluate(Current, View)
  PROVE  o \in IF site.sound THEN SoundAnswers(Current) ELSE WildAnswers(Current)
<1>1. next \in DOMAIN Registry /\ Current = Registry[next]
  <2>1. Len(Registry) \in Nat /\ DOMAIN Registry = 1..Len(Registry)
    BY RegistryAssumption
  <2> QED
    BY <2>1 DEF Working, Current
<1>2. CASE Applies
  <2>1. o = Rules(Current.id, said) /\ o \in Current.may \cup {"error"} /\ "pass" \in Current.may
    BY <1>2, RuledWithin DEF Working
  <2>2. FirstUnmet(Current.gates, View) = 0 /\ Current.may # {} /\ Evaluate(Current, View) = Current.may
    BY <1>2 DEF Applies, Evaluate, RunOutcomes
  <2>3. CASE ~site.sound
    BY <2>1, <2>2, <2>3 DEF WildAnswers
  <2>4. CASE site.sound
    <3>1. Deployed /\ Pending = Nothing
      BY <1>2, <2>4 DEF Deployed, Over
    <3>2. Current.id # RefreshScope
      <4>1. "refreshToken" \notin ToSet(Current.gates)
        BY <1>2, NeedsNoLogin DEF Working
      <4> QED
        BY <1>1, <4>1, OutcomesOfRulesAssumption
    <3>3. SoundAnswers(Current) =
            IF Current.id \in SubjectTokenRows /\ subject = "dead" THEN {"fail"} ELSE {"pass"}
      BY <2>1, <2>2, <3>2 DEF SoundAnswers
    <3>4. Current.id \in SubjectTokenRows /\ subject = "dead" => o = "fail"
      BY <2>1, <3>1, RevokedIsRefused
    <3>5. ~(Current.id \in SubjectTokenRows /\ subject = "dead") => o = "pass"
      BY <2>1, <3>1, DeployedPasses DEF SubjectTokenRows
    <3> QED
      BY <2>4, <3>3, <3>4, <3>5
  <2> QED
    BY <2>3, <2>4
<1>3. CASE ~Applies
  <2>1. o \in Evaluate(Current, View)
    BY <1>3
  <2>2. CASE ~site.sound
    BY <2>1, <2>2 DEF WildAnswers
  <2>3. CASE "pass" \notin Evaluate(Current, View)
    BY <2>1, <2>2, <2>3 DEF SoundAnswers
  <2>4. CASE "pass" \in Evaluate(Current, View) /\ site.sound
    <3>1. Current.may = {}
      BY <1>3, <2>4, SkippedIsNoPass DEF Applies
    <3>2. Current.id \notin SubjectTokenRows /\ Current.id # RefreshScope
      BY <1>1, <3>1, LifecycleAssumption
    <3>3. SoundAnswers(Current) = {"pass"}
      BY <2>4, <3>2 DEF SoundAnswers
    <3>4. \E x : Evaluate(Current, View) = {x}
      BY <3>1 DEF Evaluate, RunOutcomes
    <3> QED
      BY <2>1, <2>4, <3>3, <3>4
  <2> QED
    BY <2>2, <2>3, <2>4
<1> QED
  BY <1>2, <1>3

\* The revocation check revokes the pasted token where it is served.
LEMMA RevokesThePasted ==
  ASSUME Deployed, Memory, Current.id = Revocation, Pending = Nothing, opts.subjectToken
  PROVE  1 \in server.revoked
<1>1. PICK id : id = Current.id /\ id \in Holders /\ id # WrongHTU
  BY DEF Holders, WrongHTU, Revocation
<1>2. ~Obtaining(said) /\ Obtained(said) = Pasted /\ Since(said) = said
  BY DEF Obtaining, Obtained, Since
<1>3. Lost \notin ToSet(said)
  BY DeployedWell, NothingLost DEF Deployed, Working
<1>4. Asks(id, said) = Uses(id, said)
  BY <1>1, <1>2, <1>3, AsksHolding, PastedShown
<1>5. said # <<>>
  BY <1>1, <1>2, <1>4, UsedOnce DEF Pending, Request, Deployed
<1>6. Len(said) > 0
  BY <1>5 DEF Deployed, Working, Seen
<1>7. Holding
  BY <1>1, <1>2, <1>3, PastedShown DEF Holding, Deployed
<1>8. Revokes
  BY DeployedWell, OfTheIssuer DEF Revokes
<1> QED
  BY <1>2, <1>6, <1>7, <1>8, PastedShown DEF Memory, Carried

LEMMA EndCheckIsACheck ==
  ASSUME Placed, Working, Surveyed, WireCustody, Memory, EndCheck
  PROVE  RunCheck \/ RunRevocation
<1>1. pc = "checks" /\ next <= Len(Registry) /\ Over /\ next' = next + 1
  BY DEF EndCheck
<1>2. RecordRow(Registry[next])
  <2>1. PICK o \in IF Applies THEN {Rules(Current.id, said)} ELSE Evaluate(Current, View) :
             entries' = Append(entries, Entry(Current, o))
    BY DEF EndCheck
  <2>2. o \in IF site.sound THEN SoundAnswers(Current) ELSE WildAnswers(Current)
    BY <1>1, <2>1, RowIsAllowed
  <2>3. Current = Registry[next]
    BY DEF Current
  <2> QED
    BY <2>1, <2>2, <2>3 DEF RecordRow
<1>3. UNCHANGED <<inputs, pc, disc, plan, creds, live, refresh, outcome>>
  BY DEF EndCheck
<1>4. subject' = IF subject = "active" /\ 1 \in server.revoked THEN "dead" ELSE subject
  BY PastedShown DEF EndCheck
<1>5. /\ subject = "active" /\ 1 \in server.revoked => Applies /\ Current.id = Revocation
      /\ subject \in {"none", "active", "dead"} /\ (subject # "none" => opts.subjectToken)
  BY DEF Memory, Ledger
<1>6. CASE Registry[next].id # Revocation
  <2>1. UNCHANGED tokens
    BY <1>3, <1>4, <1>5, <1>6 DEF tokens, Current
  <2> QED
    BY <1>1, <1>2, <1>3, <1>6, <2>1 DEF RunCheck
<1>7. CASE Registry[next].id = Revocation
  <2>1. CASE subject' = "dead" /\ subject # "none" /\ FirstUnmet(Registry[next].gates, View) = 0
    BY <1>1, <1>2, <1>3, <1>7, <2>1 DEF RunRevocation
  <2>2. CASE ~(subject' = "dead" /\ subject # "none" /\ FirstUnmet(Registry[next].gates, View) = 0)
    <3>1. ~(subject = "active" /\ 1 \in server.revoked)
      BY <1>4, <1>5, <2>2 DEF Applies, Current
    <3>2. UNCHANGED tokens
      BY <1>3, <1>4, <3>1 DEF tokens
    <3>3. FirstUnmet(Registry[next].gates, View) # 0 \/ subject = "none" \/ ~site.sound
      <4> SUFFICES ASSUME FirstUnmet(Registry[next].gates, View) = 0, subject # "none", site.sound
                   PROVE  FALSE
        OBVIOUS
      <4>1. subject = "active" /\ opts.subjectToken
        BY <1>4, <1>5, <2>2
      <4>2. Applies /\ Current.id = Revocation
        <5>1. Len(Registry) \in Nat /\ DOMAIN Registry = 1..Len(Registry)
          BY RegistryAssumption
        <5>2. next \in DOMAIN Registry
          BY <1>1, <5>1 DEF Working
        <5> QED
          BY <1>7, <5>2, LifecycleAssumption DEF Applies, Current
      <4>3. Deployed
        BY <1>1, <4>2 DEF Deployed
      <4>4. 1 \in server.revoked
        BY <1>1, <4>1, <4>2, <4>3, RevokesThePasted DEF Over
      <4> QED
        BY <3>1, <4>1, <4>4
    <3> QED
      BY <1>1, <1>2, <1>3, <1>7, <3>2, <3>3 DEF RunRevocation
  <2> QED
    BY <2>1, <2>2
<1> QED
  BY <1>6, <1>7

LEMMA WireStepIsARunStep ==
  Placed /\ Ground /\ WireCustody /\ Chat /\ Memory /\ Seen /\ WireAuth /\ Surveyed /\ Worth
    /\ [NextWire]_allVars => [Next]_vars
<1> SUFFICES ASSUME Placed, Ground, WireCustody, Chat, Memory, Seen, WireAuth, Surveyed, Worth,
                    [NextWire]_allVars
             PROVE  [Next]_vars
  OBVIOUS
<1>1. Dialogue /\ Working
  BY DEF Chat, Working, Worth
<1>2. CASE EndCheck
  BY <1>1, <1>2, EndCheckIsACheck DEF Next, Program
<1>3. CASE EndWalk
  BY <1>1, <1>3, EndWalkIsDiscover DEF Next, Program
<1>4. CASE AskAS \/ Call \/ AnswerCall \/ LoseCall \/ UNCHANGED allVars
  BY <1>4 DEF AskAS, Call, AnswerCall, LoseCall, allVars
<1>5. CASE ResolveWithout
  BY <1>5 DEF ResolveWithout, Next, Program
<1>6. CASE RegisterAnswered \/ RegisterUnanswered
  BY <1>6, RegisterAnsweredIsRegister, RegisterUnansweredIsFailure DEF Next, Program
<1>7. CASE Silent
  BY <1>7 DEF Silent, Next, Program
<1>8. CASE Deregister
  BY <1>8, DeregisterIsCleanUp DEF Next, Program
<1> QED
  BY <1>2, <1>3, <1>4, <1>5, <1>6, <1>7, <1>8 DEF NextWire

\* Whatever the servers answer, whatever is lost and whatever the run asks in between,
\* the plan, the facts, the rows and the exit code of a run request by request are those
\* of one of the runs of Run, for the deployment the servers amount to; and where that
\* deployment is sound, every check comes out as Run demands (main.run, Runner.Run,
\* the Run functions of conformance/checks_*.go).
THEOREM WireIsARun == SpecWire => ImplementsRun
<1>1. InitWire => Init
  BY DEF InitWire
<1> QED
  BY <1>1, WireStepIsARunStep, ChatAlways, GroundAlways, SurveyedAlways, WorthAlways, PlacedAlways,
     WireCustodyAlways, PTL DEF SpecWire, ImplementsRun

----------------------------------------------------------------------------
(***************************************************************************)
(* What a run keeps to, a run request by request keeps to.                 *)
(***************************************************************************)
RunKeeps ==
  /\ Custody /\ TypeOK /\ Bookkeeping
  /\ Accounted /\ Revoked /\ Knowledge /\ RowsFair /\ Blameless

LEMMA RunKeepsInit == Init => RunKeeps
<1>1. Init => RowsFair
  BY DEF Init, RowsFair
<1> QED
  BY <1>1, CustodyInit, TypeInit, BookkeepingInit, AccountedInit, RevokedInit, KnowledgeInit, BlamelessInit
  DEF RunKeeps

LEMMA RunKeepsStep == RunKeeps /\ [Next]_vars => RunKeeps'
<1> SUFFICES ASSUME RunKeeps, [Next]_vars PROVE RunKeeps'
  OBVIOUS
<1>1. Custody' /\ Bookkeeping'
  BY CustodyStep, BookkeepingStep DEF RunKeeps
<1>2. TypeOK'
  BY <1>1, TypeStep DEF RunKeeps
<1>3. Accounted' /\ Revoked' /\ Knowledge'
  BY <1>2, AccountedStep, RevokedStep, KnowledgeStep DEF RunKeeps
<1>4. RowsFair' /\ Blameless'
  BY <1>2, RowsFairStep, BlamelessStep DEF RunKeeps
<1> QED
  BY <1>1, <1>2, <1>3, <1>4 DEF RunKeeps

LEMMA RunKeepsAlways == SpecWire => []RunKeeps
BY WireIsARun, RunKeepsInit, RunKeepsStep, PTL DEF ImplementsRun

\* Whatever the servers answer and in whatever order requests are lost, a run request
\* by request deletes the client it registered, exits 0 only with a complete report,
\* and raises no alarm about servers that are in order (main.run, main.finish,
\* Runner.Run, gates.go).
THEOREM WireKeepsThePromises ==
  SpecWire => [](NoOrphanClient /\ OneIdentity /\ CleanExitIsComplete /\ NoFalseAlarm)
<1>1. RunKeeps => NoOrphanClient /\ OneIdentity
  BY DEF RunKeeps, Custody, NoOrphanClient, OneIdentity
<1>2. RunKeeps => CleanExitIsComplete
  BY AccountedIsComplete DEF RunKeeps
<1>3. RunKeeps => NoFalseAlarm
  BY BlamelessIsNoAlarm DEF RunKeeps
<1> QED
  BY <1>1, <1>2, <1>3, RunKeepsAlways, PTL

\* And the rows such a run records mean what Run says they mean: a token row fails on
\* servers in order only after the run revoked the token, and "unsupported" is said of
\* what the server lacks, always and only (check.go:44-98, checks_rfc7009.go, checks_rfc7662.go).
THEOREM WireRowsMeanWhatTheySay ==
  SpecWire => [](FailsOnlyWhatItRevoked /\ UnsupportedIsAboutTheServer /\ AbsentCapabilityIsSaid)
<1>1. RunKeeps => FailsOnlyWhatItRevoked
  BY DEF RunKeeps, Revoked, FailsOnlyWhatItRevoked, FailedToken, RevocationRow
<1>2. RunKeeps => UnsupportedIsAboutTheServer
  BY JudgedFairly DEF RunKeeps, UnsupportedIsAboutTheServer, Fair
<1>3. RunKeeps => AbsentCapabilityIsSaid
  BY JudgedFairly DEF RunKeeps, AbsentCapabilityIsSaid, Fair
<1> QED
  BY <1>1, <1>2, <1>3, RunKeepsAlways, PTL
=============================================================================
