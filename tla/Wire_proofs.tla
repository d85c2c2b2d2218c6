------------------------------ MODULE Wire_proofs ------------------------------
(***************************************************************************)
(* What a run owes its servers and its report whatever they are, and what  *)
(* each of its MCP calls returns: the worlds, the registry and the         *)
(* versions are any the assumptions allow, where TLC checks a few hundred  *)
(* worlds against one registry.                                            *)
(***************************************************************************)
EXTENDS WireProps, TLAPS, WellFoundedInduction, SequenceTheorems

----------------------------------------------------------------------------
(***************************************************************************)
(* What a call of MCPRequest returns, alone or inside a run, for every set *)
(* of versions and every server.  The four properties of Mcp are not       *)
(* inductive: what the second answer makes of the call depends on what was *)
(* asked for and why, so the invariant says for each phase how the         *)
(* dialogue got there.                                                     *)
(***************************************************************************)

(***************************************************************************)
(* The version to ask for again.  Of a set of versions, those the probe    *)
(* can speak have a newest, because no version is later than the last.     *)
(***************************************************************************)
LEMMA LeastNat ==
  ASSUME NEW I \in SUBSET Nat, I # {}
  PROVE  \E i \in I : \A j \in I : i <= j
<1>1. PICK i \in I : \A j \in I : ~(<<j, i>> \in OpToRel(<, Nat))
  BY NatLessThanWellFounded, WFMin
<1>2. OpToRel(<, Nat) = {ss \in Nat \X Nat : ss[1] < ss[2]}
  BY Zenon DEF OpToRel
<1>3. ASSUME NEW j \in I, j < i PROVE FALSE
  <2>1. <<j, i>> \in {ss \in Nat \X Nat : ss[1] < ss[2]}
    BY <1>3
  <2> QED
    BY <1>1, <1>2, <2>1
<1> QED
  BY <1>3

LEMMA NewestExists ==
  ASSUME NEW S \in SUBSET Versions, S # {}
  PROVE  \E v \in S : \A w \in S : w <= v
<1>1. PICK last \in Versions : \A v \in Versions : v <= last
  BY VersionsAssumption DEF VersionsAssumption
<1> DEFINE ages == {last - v : v \in S}
<1>2. S \subseteq Nat /\ last \in Nat /\ \A v \in S : v <= last
  BY <1>1, VersionsAssumption DEF VersionsAssumption
<1>3. ages \in SUBSET Nat /\ ages # {}
  <2>1. \A v \in S : v \in Nat /\ last - v \in Nat
    BY <1>2
  <2> QED
    BY <2>1
<1> HIDE DEF ages
<1>4. PICK age \in ages : \A a \in ages : age <= a
  BY <1>3, LeastNat
<1>5. PICK v \in S : age = last - v
  BY <1>4 DEF ages
<1>6. \A w \in S : last - w \in ages
  BY DEF ages
<1>7. \A w \in S : last - v <= last - w
  BY <1>4, <1>5, <1>6
<1> QED
  BY <1>2, <1>5, <1>7

\* The newest modern version of a list, and no other.
LEMMA HighestModernIsNewest ==
  ASSUME NEW S \in SUBSET Versions
  PROVE  \/ HighestModern(S) = NoVersion /\ \A v \in S : v < ModernVersion
         \/ /\ HighestModern(S) \in S /\ HighestModern(S) >= ModernVersion
            /\ \A v \in S : v <= HighestModern(S)
<1> DEFINE modern == {v \in S : v >= ModernVersion}
<1>1. S \subseteq Nat /\ ModernVersion \in Nat /\ modern \in SUBSET Versions
  BY VersionsAssumption DEF VersionsAssumption
<1>2. CASE modern = {}
  BY <1>1, <1>2 DEF HighestModern
<1>3. CASE modern # {}
  <2> DEFINE newest == CHOOSE v \in modern : \A w \in modern : w <= v
  <2>1. \E v \in modern : \A w \in modern : w <= v
    <3> HIDE DEF modern
    <3> QED
      BY <1>1, <1>3, NewestExists
  <2>2. newest \in modern /\ \A w \in modern : w <= newest
    BY <2>1
  <2>3. HighestModern(S) = newest
    BY <1>3 DEF HighestModern
  <2> HIDE DEF newest
  <2>4. newest \in S /\ newest >= ModernVersion
    BY <2>2
  <2>5. \A v \in S : v <= newest
    BY <1>1, <2>2, <2>4
  <2> QED
    BY <2>3, <2>4, <2>5
<1> QED
  BY <1>2, <1>3

\* A version to ask for again is a version the server listed, a modern one, and
\* not the one it has just refused.
LEMMA RetryIsAnother ==
  ASSUME NEW S \in SUBSET Versions, Retry(S) # NoVersion
  PROVE  Retry(S) \in S /\ Retry(S) > ModernVersion
<1>1. Retry(S) = HighestModern(S) /\ HighestModern(S) # ModernVersion
  BY DEF Retry
<1>2. HighestModern(S) \in S /\ HighestModern(S) >= ModernVersion
  BY <1>1, HighestModernIsNewest
<1> DEFINE newest == HighestModern(S)
<1>3. newest \in Nat /\ ModernVersion \in Nat /\ newest # ModernVersion /\ newest >= ModernVersion
  BY <1>1, <1>2, VersionsAssumption DEF VersionsAssumption
<1> HIDE DEF newest
<1>4. newest > ModernVersion
  BY <1>3
<1> QED
  BY <1>1, <1>2, <1>4 DEF newest

----------------------------------------------------------------------------
LEMMA RepliesArrive == \A r \in Replies : r # Lost
BY DEF Replies, Lost

(***************************************************************************)
(* How a call got where it is.                                             *)
(***************************************************************************)
FirstKept ==
  /\ asked = <<ModernVersion, asked[2]>> /\ asked[2] \in Versions
  /\ heard = <<heard[1]>> /\ heard[1] \in Replies
  /\ kept = 1 /\ version = ModernVersion

Untouched == kept = 0 /\ version = NoVersion /\ era = "unknown" /\ supported = {}

Progress ==
  /\ phase \in Awaiting \cup {"idle", "returned", "failed"}
  /\ phase = "idle" => asked = <<>> /\ heard = <<>> /\ Untouched
  /\ phase = "modern" => asked = <<ModernVersion>> /\ heard = <<>> /\ Untouched
  /\ phase = "initialize" =>
       /\ FirstKept /\ asked[2] = LegacyVersion
       /\ era = "unknown" /\ ~ModernError(heard[1])
       /\ supported \subseteq Versions
  /\ phase = "again" =>
       /\ FirstKept /\ asked[2] > ModernVersion
       /\ era = "modern" /\ ModernError(heard[1])
       /\ supported \subseteq Versions

CallOK == CallTypeOK /\ NeverAskedTwice /\ VersionOfTheAnswer /\ EraIsShown

CallInv == Progress /\ CallOK

LEMMA AppendSecond ==
  ASSUME NEW a, NEW b
  PROVE  Append(<<a>>, b) = <<a, b>>
<1> DEFINE s == Append(<<a>>, b)  t == <<a, b>>
<1>1. <<a>> \in Seq({a, b}) /\ b \in {a, b}
  OBVIOUS
<1>2. s \in Seq({a, b}) /\ Len(s) = 2 /\ s[1] = a /\ s[2] = b
  BY <1>1, AppendProperties
<1>3. t \in Seq({a, b}) /\ Len(t) = 2 /\ t[1] = a /\ t[2] = b
  OBVIOUS
<1> HIDE DEF s, t
<1>4. Len(s) = Len(t) /\ \A i \in 1..Len(s) : s[i] = t[i]
  BY <1>2, <1>3
<1>5. s = t
  BY <1>2, <1>3, <1>4, SeqEqual
<1> QED
  BY <1>5 DEF s, t

LEMMA AppendFirst == \A a : Append(<<>>, a) = <<a>>
OBVIOUS

LEMMA CallInvInit == InitCall => CallInv
BY VersionsAssumption
  DEF VersionsAssumption, InitCall, CallInv, Progress, Untouched, FirstKept, Awaiting,
      CallOK, CallTypeOK, NeverAskedTwice, VersionOfTheAnswer, EraIsShown

LEMMA BeginKeeps == CallInv /\ Begin => CallInv'
<1> SUFFICES ASSUME CallInv, Begin PROVE CallInv'
  OBVIOUS
<1> USE VersionsAssumption DEF VersionsAssumption, Begin
<1>1. Progress'
  BY DEF Progress, Untouched, FirstKept, Awaiting
<1>2. CallTypeOK'
  BY DEF CallTypeOK, Awaiting
<1>3. (NeverAskedTwice /\ VersionOfTheAnswer /\ EraIsShown)'
  BY DEF NeverAskedTwice, VersionOfTheAnswer, EraIsShown
<1> QED
  BY <1>1, <1>2, <1>3 DEF CallInv, CallOK

LEMMA FirstLostKeeps == CallInv /\ FirstLost => CallInv'
<1> SUFFICES ASSUME CallInv, FirstLost PROVE CallInv'
  OBVIOUS
<1> USE VersionsAssumption DEF VersionsAssumption, FirstLost, Stop, Hear
<1>1. asked = <<ModernVersion>> /\ heard = <<>> /\ Untouched
  BY DEF CallInv, Progress
<1>2. heard' = <<Lost>> /\ asked' = asked
  BY <1>1, AppendFirst
<1>3. Progress'
  BY DEF Progress, Untouched, FirstKept, Awaiting
<1>4. CallTypeOK'
  BY <1>1, <1>2 DEF CallTypeOK, Awaiting, Untouched
<1>5. (NeverAskedTwice /\ VersionOfTheAnswer /\ EraIsShown)'
  BY <1>1, <1>2 DEF NeverAskedTwice, VersionOfTheAnswer, EraIsShown, Untouched
<1> QED
  BY <1>3, <1>4, <1>5 DEF CallInv, CallOK

LEMMA SecondLostKeeps == CallInv /\ SecondLost => CallInv'
<1> SUFFICES ASSUME CallInv, SecondLost PROVE CallInv'
  OBVIOUS
<1> USE VersionsAssumption DEF VersionsAssumption, SecondLost, Stop, Hear
<1>1. FirstKept /\ asked[2] # ModernVersion /\ (phase = "again" => ModernError(heard[1]))
        /\ era = (IF phase = "again" THEN "modern" ELSE "unknown")
        /\ supported \subseteq Versions
  BY DEF CallInv, Progress
<1>2. heard' = <<heard[1], Lost>> /\ asked' = <<ModernVersion, asked[2]>>
  BY <1>1, AppendSecond DEF FirstKept
<1>3. Progress'
  BY DEF Progress, Untouched, FirstKept, Awaiting
<1>4. CallTypeOK'
  BY <1>1, <1>2 DEF CallTypeOK, Awaiting, FirstKept
<1>5. NeverAskedTwice'
  BY <1>1, <1>2 DEF NeverAskedTwice, FirstKept
<1>6. VersionOfTheAnswer'
  BY <1>1, <1>2, RepliesArrive DEF VersionOfTheAnswer, FirstKept
<1>7. EraIsShown'
  BY <1>1, <1>2, RepliesArrive DEF EraIsShown, FirstKept
<1> QED
  BY <1>3, <1>4, <1>5, <1>6, <1>7 DEF CallInv, CallOK

LEMMA SettledKeeps ==
  ASSUME NEW r \in Replies, CallInv, Settled(r)
  PROVE  CallInv'
<1> USE VersionsAssumption DEF VersionsAssumption, Settled, Stop, Keep, Hear
<1>1. asked = <<ModernVersion>> /\ heard = <<>> /\ Untouched
  BY DEF CallInv, Progress
<1>2. heard' = <<r>> /\ asked' = asked /\ kept' = 1 /\ version' = ModernVersion
  BY <1>1, AppendFirst
<1>3. Progress'
  BY DEF Progress, Untouched, FirstKept, Awaiting
<1>4. CallTypeOK'
  BY <1>1, <1>2 DEF CallTypeOK, Awaiting, Untouched
<1>5. (NeverAskedTwice /\ VersionOfTheAnswer /\ EraIsShown)'
  BY <1>1, <1>2, RepliesArrive DEF NeverAskedTwice, VersionOfTheAnswer, EraIsShown, Untouched
<1> QED
  BY <1>3, <1>4, <1>5 DEF CallInv, CallOK

LEMMA FallBackKeeps ==
  ASSUME NEW r \in Replies, CallInv, FallBack(r)
  PROVE  CallInv'
<1> USE VersionsAssumption DEF VersionsAssumption, FallBack, Ask, Keep, Hear
<1>1. asked = <<ModernVersion>> /\ heard = <<>> /\ Untouched
  BY DEF CallInv, Progress
<1>2. asked' = <<ModernVersion, LegacyVersion>>
  BY <1>1, AppendSecond
<1>3. heard' = <<r>> /\ kept' = 1 /\ version' = ModernVersion
  BY <1>1, AppendFirst
<1>4. FirstKept' /\ asked'[2] = LegacyVersion /\ heard'[1] = r
  BY <1>2, <1>3 DEF FirstKept
<1>5. Progress'
  BY <1>1, <1>4 DEF Progress, Untouched, Awaiting
<1>6. CallTypeOK'
  BY <1>1, <1>2, <1>3 DEF CallTypeOK, Awaiting, Untouched
<1>7. (NeverAskedTwice /\ VersionOfTheAnswer /\ EraIsShown)'
  BY <1>1, <1>2, <1>3, RepliesArrive DEF NeverAskedTwice, VersionOfTheAnswer, EraIsShown, Untouched
<1> QED
  BY <1>5, <1>6, <1>7 DEF CallInv, CallOK

\* A refusal ends the call, or names a version that is another one (RetryIsAnother).
LEMMA ModernRefusalKeeps ==
  ASSUME NEW r \in Replies, CallInv, ModernRefusal(r)
  PROVE  CallInv'
<1> USE VersionsAssumption DEF VersionsAssumption, ModernRefusal, Ask, Stop, Keep, Hear
<1>1. asked = <<ModernVersion>> /\ heard = <<>> /\ Untouched
  BY DEF CallInv, Progress
<1>2. heard' = <<r>> /\ kept' = 1 /\ version' = ModernVersion /\ era' = "modern"
  BY <1>1, AppendFirst
<1>3. r.supported \in SUBSET Versions
  BY DEF Replies
<1>4. CASE phase' = "returned" /\ asked' = asked
  <2>1. supported' \subseteq Versions
    BY <1>1, <1>3 DEF Untouched
  <2>2. Progress'
    BY <1>4 DEF Progress, Awaiting
  <2>3. CallTypeOK'
    BY <1>1, <1>2, <1>4, <2>1 DEF CallTypeOK
  <2>4. (NeverAskedTwice /\ VersionOfTheAnswer /\ EraIsShown)'
    BY <1>1, <1>2, <1>4, RepliesArrive DEF NeverAskedTwice, VersionOfTheAnswer, EraIsShown
  <2> QED
    BY <2>2, <2>3, <2>4 DEF CallInv, CallOK
<1>5. CASE Retry(r.supported) # NoVersion /\ phase' = "again"
             /\ asked' = Append(asked, Retry(r.supported)) /\ supported' = r.supported
  <2> DEFINE retry == Retry(r.supported)
  <2>1. retry \in r.supported /\ retry > ModernVersion
    BY <1>3, <1>5, RetryIsAnother
  <2> HIDE DEF retry
  <2>2. asked' = <<ModernVersion, retry>> /\ retry \in Versions
    BY <1>1, <1>3, <1>5, <2>1, AppendSecond DEF retry
  <2>3. FirstKept' /\ asked'[2] = retry /\ heard'[1] = r
    BY <1>2, <2>2 DEF FirstKept
  <2>4. Progress'
    BY <1>2, <1>3, <1>5, <2>1, <2>3 DEF Progress, Awaiting
  <2>5. CallTypeOK'
    BY <1>2, <1>3, <1>5, <2>2 DEF CallTypeOK, Awaiting
  <2>6. NeverAskedTwice'
    BY <2>1, <2>2 DEF NeverAskedTwice
  <2>7. (VersionOfTheAnswer /\ EraIsShown)'
    BY <1>2, <2>2, RepliesArrive DEF VersionOfTheAnswer, EraIsShown
  <2> QED
    BY <2>4, <2>5, <2>6, <2>7 DEF CallInv, CallOK
<1> QED
  BY <1>4, <1>5

LEMMA InitializedKeeps ==
  ASSUME NEW r \in Replies, CallInv, Initialized(r)
  PROVE  CallInv'
<1> USE VersionsAssumption DEF VersionsAssumption, Initialized, Stop, Keep, Hear
<1>1. FirstKept /\ asked[2] = LegacyVersion /\ era = "unknown" /\ ~ModernError(heard[1])
        /\ supported \subseteq Versions
  BY DEF CallInv, Progress
<1>2. heard' = <<heard[1], r>>
  BY <1>1, AppendSecond DEF FirstKept
<1>3. asked' = <<ModernVersion, LegacyVersion>> /\ kept' = 2 /\ version' = LegacyVersion
  BY <1>1 DEF FirstKept
<1>4. Progress'
  BY DEF Progress, Awaiting
<1>5. CallTypeOK'
  BY <1>1, <1>2, <1>3 DEF CallTypeOK, FirstKept
<1>6. (NeverAskedTwice /\ VersionOfTheAnswer /\ EraIsShown)'
  BY <1>1, <1>2, <1>3, RepliesArrive DEF NeverAskedTwice, VersionOfTheAnswer, EraIsShown
<1> QED
  BY <1>4, <1>5, <1>6 DEF CallInv, CallOK

LEMMA AgainKeeps ==
  ASSUME NEW r \in Replies, CallInv, Again(r)
  PROVE  CallInv'
<1> USE VersionsAssumption DEF VersionsAssumption, Again, Stop, Keep, Hear
<1>1. FirstKept /\ asked[2] > ModernVersion /\ era = "modern" /\ ModernError(heard[1])
        /\ supported \subseteq Versions
  BY DEF CallInv, Progress
<1>2. heard' = <<heard[1], r>>
  BY <1>1, AppendSecond DEF FirstKept
<1>3. asked' = <<ModernVersion, asked[2]>> /\ kept' = 2 /\ version' = asked[2]
  BY <1>1 DEF FirstKept
<1>4. Progress'
  BY DEF Progress, Awaiting
<1>5. CallTypeOK'
  BY <1>1, <1>2, <1>3 DEF CallTypeOK, FirstKept
<1>6. NeverAskedTwice'
  BY <1>1, <1>3 DEF NeverAskedTwice, FirstKept
<1>7. (VersionOfTheAnswer /\ EraIsShown)'
  BY <1>1, <1>2, <1>3, RepliesArrive DEF VersionOfTheAnswer, EraIsShown, FirstKept
<1> QED
  BY <1>4, <1>5, <1>6, <1>7 DEF CallInv, CallOK

LEMMA CallInvStutter == CallInv /\ UNCHANGED callVars => CallInv'
BY DEF CallInv, callVars, Progress, Untouched, FirstKept, Awaiting, CallOK, CallTypeOK,
       NeverAskedTwice, VersionOfTheAnswer, EraIsShown

LEMMA CallInvStep == CallInv /\ [NextCall]_callVars => CallInv'
BY BeginKeeps, FirstLostKeeps, SecondLostKeeps, SettledKeeps, FallBackKeeps, ModernRefusalKeeps,
   InitializedKeeps, AgainKeeps, CallInvStutter DEF NextCall, Unheard, Answer

----------------------------------------------------------------------------
(***************************************************************************)
(* Whatever servers answer, for any versions they may name.                *)
(***************************************************************************)
LEMMA CallsKeepInv == SpecCall => []CallInv
<1>1. InitCall => CallInv
  BY CallInvInit
<1>2. CallInv /\ [NextCall]_callVars => CallInv'
  BY CallInvStep
<1> QED
  BY <1>1, <1>2, PTL DEF SpecCall

\* A call of MCPRequest is well typed, asks for each version once, returns the
\* version its answer was obtained with, and an era the server showed.
THEOREM CallsAreSound == SpecCall => [](CallTypeOK /\ NeverAskedTwice /\ VersionOfTheAnswer /\ EraIsShown)
<1>1. CallInv => CallTypeOK /\ NeverAskedTwice /\ VersionOfTheAnswer /\ EraIsShown
  BY DEF CallInv, CallOK
<1> QED
  BY <1>1, CallsKeepInv, PTL

----------------------------------------------------------------------------
(***************************************************************************)
(* The servers answer an MCP request with a reply, so a call inside a run  *)
(* is a call of Mcp.                                                       *)
(***************************************************************************)
LEMMA ChallengeHeaders ==
  ASSUME NEW v
  PROVE  Challenge(v) \subseteq Headers /\ (Challenge(v) \cup {"dpopNonce"}) \subseteq Headers
BY DEF Challenge, Headers

LEMMA ReplyIsReply ==
  ASSUME NEW code \in Nat, NEW headers \in SUBSET Headers
  PROVE  Reply(code, headers) \in Replies
BY DEF Reply, Replies, RpcErrors

LEMMA RefusalIsReply ==
  ASSUME NEW listed \in SUBSET Versions
  PROVE  Refused(listed) \in Replies
BY DEF Refused, Replies, RpcErrors

LEMMA ServerReplies ==
  ASSUME NEW v, NEW s, NEW q, NEW at
  PROVE  handleMCP(v, s, q, at) \in Replies
<1>1. {NewerVersion} \in SUBSET Versions /\ {LegacyVersion} \in SUBSET Versions
        /\ {LegacyVersion, ModernVersion} \in SUBSET Versions
  BY VersionsAssumption, NewerAssumption DEF VersionsAssumption, NewerAssumption
<1>2. Reply(400, {}) \in Replies /\ Reply(200, {}) \in Replies /\ Reply(403, {"challenge"}) \in Replies
  BY ReplyIsReply DEF Headers
<1>3. Reply(401, Challenge(v)) \in Replies /\ Reply(401, Challenge(v) \cup {"dpopNonce"}) \in Replies
  BY ReplyIsReply, ChallengeHeaders
<1>4. Authenticated(v, s, q) \in Replies
  BY <1>2, <1>3 DEF Authenticated
<1>5. TurnedAway(v) \in Replies
  BY <1>1, <1>2, RefusalIsReply DEF TurnedAway
<1> QED
  BY <1>2, <1>4, <1>5 DEF handleMCP

LEMMA WireCalls == [NextWire]_allVars => [NextCall]_callVars
<1> SUFFICES ASSUME [NextWire]_allVars PROVE [NextCall]_callVars
  OBVIOUS
<1> USE DEF wireVars
<1>1. CASE Call
  BY <1>1 DEF Call, NextCall
<1>2. CASE AnswerCall
  BY <1>2, ServerReplies DEF AnswerCall, NextCall
<1>3. CASE LoseCall
  BY <1>3 DEF LoseCall, NextCall
<1>4. CASE EndCheck \/ EndWalk \/ AskAS
  BY <1>4 DEF EndCheck, EndWalk, AskAS
<1>5. CASE ResolveWithout \/ RegisterAnswered \/ RegisterUnanswered
  BY <1>5 DEF ResolveWithout, RegisterAnswered, RegisterUnanswered
<1>6. CASE Silent \/ Deregister
  BY <1>6 DEF Silent, Deregister
<1>7. CASE UNCHANGED allVars
  BY <1>7 DEF allVars
<1> QED
  BY <1>1, <1>2, <1>3, <1>4, <1>5, <1>6, <1>7 DEF NextWire

\* Every call of MCPRequest in a run is one of Mcp, whatever its world: it asks
\* for each version once, returns the version its answer was obtained with, and
\* an era the server showed.
THEOREM RunCallsAreSound ==
  SpecWire => [](CallTypeOK /\ NeverAskedTwice /\ VersionOfTheAnswer /\ EraIsShown)
<1>1. SpecWire => SpecCall
  <2>1. InitWire => InitCall
    BY DEF InitWire
  <2> QED
    BY <2>1, WireCalls, PTL DEF SpecWire, SpecCall
<1> QED
  BY <1>1, CallsAreSound, PTL
----------------------------------------------------------------------------
(***************************************************************************)
(* Who holds the ephemeral client.  RegisteredIsDeleted is not inductive:  *)
(* whether a client is left behind depends on whether an answer was lost   *)
(* when it was registered, and on the way to delete it that came with it.  *)
(***************************************************************************)
Afterwards == {"prelude", "checks", "verdicts", "finish", "cleanup", "done"}

WireCustody ==
  /\ ~opts.authCode /\ pc \in {"start", "discover", "resolve"} \cup Afterwards
  /\ budget \in Nat /\ world.losses \in Nat /\ budget <= world.losses
  /\ site.clientURI <=> "NoClientConfigEndpoint" \notin world.as
  /\ pc \notin Afterwards => live = 0 /\ plan = NoPlan
  /\ live \in {0, 1}
  /\ live = 1 /\ Lossless => plan.registered
  /\ plan.registered => (plan.uri <=> site.clientURI)
  /\ plan.registered /\ pc # "done" => live = 1
  /\ pc = "done" /\ Lossless /\ Deletes(world.as) => live = 0

LEMMA WireCustodyInit == InitWire => WireCustody
<1> SUFFICES ASSUME InitWire PROVE WireCustody
  OBVIOUS
<1>1. world \in WorldType /\ ~world.opts.authCode
  BY WorldsAssumption DEF WorldsAssumption, InitWire
<1>2. world.losses \in Nat
  BY <1>1 DEF WorldType
<1>3. site.clientURI <=> "NoClientConfigEndpoint" \notin world.as
  BY DEF InitWire, SiteOf
<1>4. pc = "start" /\ live = 0 /\ plan = NoPlan /\ opts = world.opts /\ budget = world.losses
  BY DEF InitWire, Init
<1>5. ~NoPlan.registered
  BY DEF NoPlan
<1> QED
  BY <1>1, <1>2, <1>3, <1>4, <1>5 DEF WireCustody, Afterwards

LEMMA WireCustodyStep == WireCustody /\ [NextWire]_allVars => WireCustody'
<1> SUFFICES ASSUME WireCustody, [NextWire]_allVars PROVE WireCustody'
  OBVIOUS
<1> USE DEF WireCustody, Afterwards, Lossless, vars, inputs, tokens, outcome, wireVars
<1>1. CASE EndCheck
  BY <1>1 DEF EndCheck
<1>2. CASE EndWalk
  BY <1>2 DEF EndWalk
<1>3. CASE AskAS
  BY <1>3 DEF AskAS
<1>4. CASE Call \/ AnswerCall
  BY <1>4 DEF Call, AnswerCall
<1>5. CASE LoseCall
  BY <1>5 DEF LoseCall
<1>6. CASE ResolveWithout
  BY <1>6 DEF ResolveWithout, NoRegistration, AfterResolve, NoPlan
<1>7. CASE RegisterAnswered
  BY <1>7 DEF RegisterAnswered, MayRegister, AfterResolve
<1>8. CASE RegisterUnanswered
  BY <1>8 DEF RegisterUnanswered, MayRegister, AfterResolve, NoPlan
<1>9. CASE Silent
  <2>1. CASE AcceptFlags
    BY <1>9, <2>1 DEF Silent, AcceptFlags
  <2>2. CASE ReportRefusal \/ EndChecks \/ AttachVerdicts \/ Finish
    BY <1>9, <2>2 DEF Silent, ReportRefusal, EndChecks, AttachVerdicts, Finish, Return
  <2> QED
    BY <1>9, <2>1, <2>2 DEF Silent
<1>10. CASE Deregister
  <2>1. Deletes(world.as) /\ plan.registered => plan.uri
    BY DEF Deletes
  <2>2. pc' = "done" /\ live' \in {live, live - 1} /\ (live' = live - 1 => plan.registered)
    BY <1>10 DEF Deregister
  <2>3. live' \in {0, 1} /\ (live' = 1 => live = 1)
    BY <1>10, <2>2 DEF Deregister
  <2>4. Lossless' => Lossless
    BY <1>10 DEF Deregister
  <2>5. Lossless' /\ Deletes(world'.as) => live' = 0
    BY <1>10, <2>1, <2>3, <2>4 DEF Deregister
  <2> QED
    BY <1>10, <2>2, <2>3, <2>4, <2>5 DEF Deregister
<1>11. CASE UNCHANGED allVars
  BY <1>11 DEF allVars
<1> QED
  BY <1>1, <1>2, <1>3, <1>4, <1>5, <1>6, <1>7, <1>8, <1>9, <1>10, <1>11 DEF NextWire

LEMMA WireCustodyAlways == SpecWire => []WireCustody
<1> QED
  BY WireCustodyInit, WireCustodyStep, PTL DEF SpecWire

\* A client the run registered is deleted unless there is no way to or a message
\* was lost, on any server and through any registry.
THEOREM RegisteredClientIsDeleted == SpecWire => []RegisteredIsDeleted
<1>1. WireCustody => RegisteredIsDeleted
  BY DEF WireCustody, RegisteredIsDeleted
<1> QED
  BY <1>1, WireCustodyAlways, PTL
----------------------------------------------------------------------------
(***************************************************************************)
(* How the client authenticates.  What a token request shows is what       *)
(* ApplyClientAuth makes of the plan, or nothing where a check leaves the  *)
(* client out; the plan is settled before the first one is sent.           *)
(***************************************************************************)
Credentials == {Blank, ClientAuth}

Authed(r) == r.to = "token" => r.auth \in Credentials

LEMMA FormAuth ==
  /\ \A grant : Authed(Form(grant)) /\ Authed(Unauthenticated(grant))
  /\ \A s, a : Authed(Exchange(s, a))
  /\ \A s, a, scope : Authed([Exchange(s, a) EXCEPT !.scope = scope])
  /\ \A audiences : Authed(Resource(audiences))
  /\ \A talk, htu, nonce : Authed(Proving(talk, htu, nonce))
BY DEF Form, Unauthenticated, Exchange, Resource, Proving, Authed, Credentials

LEMMA ElsewhereAuth ==
  /\ Authed(Nothing)
  /\ \A document \in {"suffix", "jwks", "authorize", "prm", "metadata", "openid"} : Authed(Get(document))
  /\ \A token : Authed(About("introspect", token)) /\ Authed(About("revoke", token))
  /\ \A token, proof : Authed(Present(token, proof))
BY DEF Nothing, Get, About, Present, Authed

LEMMA OneShotAuth == \A id : Authed(OneShot(id))
BY FormAuth, ElsewhereAuth DEF OneShot

LEMMA AsksAuth == \A id, talk : Authed(Asks(id, talk))
<1> SUFFICES ASSUME NEW id, NEW talk PROVE Authed(Asks(id, talk))
  OBVIOUS
<1>1. Authed(PresentWithRetry(talk))
  BY ElsewhereAuth DEF PresentWithRetry
<1>2. Authed(Uses(id, talk))
  BY <1>1, ElsewhereAuth DEF Uses
<1> QED
  BY <1>2, FormAuth, OneShotAuth, ElsewhereAuth DEF Asks

Elsewhere(r) == r.to # "token"

LEMMA WalkElsewhere == \A talk : Elsewhere(WalkRequest(talk))
<1>1. /\ Elsewhere(Nothing) /\ Elsewhere(Present(NoToken, NoProof))
      /\ \A document \in {"prm", "metadata", "openid"} : Elsewhere(Get(document))
  BY DEF Nothing, Get, Present, Elsewhere
<1> QED
  BY <1>1 DEF WalkRequest

\* Token requests belong to the checks, and show what the plan says.
LEMMA PendingAuth ==
  ASSUME Pending.to = "token"
  PROVE  pc = "checks" /\ Pending.auth \in Credentials
<1>1. Elsewhere(Nothing)
  BY DEF Nothing, Elsewhere
<1>2. pc # "checks" => Elsewhere(Pending)
  BY <1>1, WalkElsewhere DEF Pending, Request
<1>3. pc = "checks" => Authed(Pending)
  BY AsksAuth, ElsewhereAuth DEF Pending, Request
<1> QED
  BY <1>2, <1>3 DEF Elsewhere, Authed

----------------------------------------------------------------------------
\* What the server says of the method is what it assigned, or nothing of use.
LEMMA StatedIsAssigned ==
  ASSUME NEW v, StatedMethod(v) \in Methods
  PROVE  StatedMethod(v) = AssignedMethod(v)
<1>1. Blank \notin Methods
  BY Zenon DEF Blank, Methods
<1> QED
  BY <1>1 DEF StatedMethod

\* resolveTokenAuthMethod, for a client with a secret at a server that takes one.
LEMMA RulesWithASecret ==
  ASSUME "PublicClientsOnly" \notin world.as
  PROVE  TokenAuthMethod(Blank, Advertised, "PublicClientsOnly" \notin world.as) = "client_secret_post"
<1>1. Advertised = {} \/ Advertised = {"client_secret_basic", "client_secret_post"}
  BY DEF Advertised, AdvertisedMethods
<1> QED
  BY <1>1, Zenon DEF TokenAuthMethod, Blank

\* Where it says nothing of use, a client with a secret sends it in the form, which
\* every server that hands out secrets advertises.
FollowsTheRules ==
  client.secret => client.method = "client_secret_post" /\ "PublicClientsOnly" \notin world.as

WireAuth ==
  /\ {"auth", "registeredAs", "revoked", "minted", "seen", "seenAgain"} \subseteq DOMAIN server
  /\ pc \in {"start", "discover", "resolve"} \cup Afterwards
  /\ pc \notin Afterwards => server.auth = Blank
  /\ server.auth \in Credentials
  /\ server.registeredAs = AssignedMethod(world.as)
  /\ plan.registered /\ world.method = Blank =>
       IF StatedMethod(world.as) \in Methods THEN client.method = AssignedMethod(world.as)
       ELSE FollowsTheRules
  /\ pc \notin Afterwards => ~plan.registered

LEMMA WireAuthInit == InitWire => WireAuth
<1> SUFFICES ASSUME InitWire PROVE WireAuth
  OBVIOUS
<1>1. server = Server(AssignedMethod(world.as)) /\ pc = "start" /\ plan = NoPlan
  BY DEF InitWire, Init
<1>2. server.auth = Blank /\ server.registeredAs = AssignedMethod(world.as)
        /\ DOMAIN server = {"auth", "registeredAs", "revoked", "minted", "seen", "seenAgain"}
  BY <1>1 DEF Server
<1>3. ~NoPlan.registered
  BY DEF NoPlan
<1> QED
  BY <1>1, <1>2, <1>3 DEF WireAuth, Afterwards, Credentials

\* A server that has answered knows the same client, and has seen it authenticate
\* as it did before or as the request says.
LEMMA AfterKnows ==
  ASSUME NEW r, NEW answer,
         {"auth", "registeredAs", "revoked", "minted", "seen", "seenAgain"} \subseteq DOMAIN server
  PROVE  /\ DOMAIN After(r, answer) = DOMAIN server
         /\ After(r, answer).registeredAs = server.registeredAs
         /\ After(r, answer).auth = IF r.to = "token" THEN r.auth ELSE server.auth
BY DEF After, Saw

LEMMA ServedKeeps ==
  ASSUME WireAuth, NEW r, NEW answer, r = Pending,
         server' \in {server, After(r, answer)},
         UNCHANGED <<pc, plan, world, client>>
  PROVE  WireAuth'
<1> USE DEF FollowsTheRules
<1>1. Credentials' = Credentials
  BY DEF Credentials, ClientAuth
<1>2. CASE server' = server
  BY <1>1, <1>2 DEF WireAuth
<1>3. CASE server' = After(r, answer)
  <2>1. DOMAIN server' = DOMAIN server /\ server'.registeredAs = server.registeredAs
          /\ server'.auth = IF r.to = "token" THEN r.auth ELSE server.auth
    BY <1>3, AfterKnows DEF WireAuth
  <2>2. server'.auth \in Credentials /\ (pc \notin Afterwards => server'.auth = Blank)
    BY <2>1, PendingAuth DEF WireAuth, Afterwards
  <2> QED
    BY <1>1, <2>1, <2>2 DEF WireAuth
<1> QED
  BY <1>2, <1>3

LEMMA WireAuthStep == WireAuth /\ WireCustody /\ [NextWire]_allVars => WireAuth'
<1> SUFFICES ASSUME WireAuth, WireCustody, [NextWire]_allVars PROVE WireAuth'
  OBVIOUS
<1> USE DEF vars, inputs, tokens, outcome, wireVars, FollowsTheRules
<1>1. CASE EndCheck \/ EndWalk
  <2>1. UNCHANGED <<server, client, world, plan>> /\ pc' \in {pc, "resolve"}
          /\ (pc' = "resolve" => pc = "discover" \/ pc = "resolve")
    BY <1>1 DEF EndCheck, EndWalk
  <2>2. Credentials' = Credentials
    BY <2>1 DEF Credentials, ClientAuth
  <2> QED
    BY <2>1, <2>2 DEF WireAuth, Afterwards
<1>2. CASE AskAS
  <2>1. server' \in {server, After(Pending, Answered(server, Pending))}
    BY <1>2 DEF AskAS
  <2> QED
    BY <1>2, <2>1, ServedKeeps DEF AskAS
<1>3. CASE Call
  BY <1>3 DEF Call, WireAuth, Afterwards, Credentials, ClientAuth
<1>4. CASE AnswerCall \/ LoseCall
  <2>1. server' \in {server, After(Pending, Nothing)}
    BY <1>4 DEF AnswerCall, LoseCall
  <2> QED
    BY <1>4, <2>1, ServedKeeps DEF AnswerCall, LoseCall
<1>5. CASE ResolveWithout
  <2>1. pc = "resolve" /\ pc' = AfterResolve /\ ~plan'.registered /\ UNCHANGED <<server, world>>
    BY <1>5 DEF ResolveWithout, NoRegistration, NoPlan
  <2>2. pc' = "prelude" /\ server.auth = Blank
    BY <2>1 DEF WireAuth, WireCustody, Afterwards, AfterResolve
  <2> QED
    BY <2>1, <2>2 DEF WireAuth, Afterwards, Credentials
<1>6. CASE RegisterAnswered
  <2>1. pc = "resolve" /\ pc' = AfterResolve /\ UNCHANGED world
          /\ server' = [server EXCEPT !.registeredAs = AssignedMethod(world.as)]
          /\ client'.method = RegisteredAuthMethod(world.as)
          /\ client'.secret = ("PublicClientsOnly" \notin world.as)
    BY <1>6 DEF RegisterAnswered, MayRegister
  <2>2. pc' = "prelude" /\ server.auth = Blank
    BY <2>1 DEF WireAuth, WireCustody, Afterwards, AfterResolve
  <2>3. DOMAIN server' = DOMAIN server /\ server'.auth = Blank
          /\ server'.registeredAs = AssignedMethod(world'.as)
    BY <2>1, <2>2 DEF WireAuth
  <2>4. ASSUME world.method = Blank, StatedMethod(world.as) \in Methods
        PROVE  client'.method = AssignedMethod(world.as)
    BY <2>1, <2>4, StatedIsAssigned DEF RegisteredAuthMethod
  <2>5. ASSUME world.method = Blank, StatedMethod(world.as) \notin Methods
        PROVE  FollowsTheRules'
    <3>1. client'.method = TokenAuthMethod(Blank, Advertised, "PublicClientsOnly" \notin world.as)
      BY <2>1, <2>5 DEF RegisteredAuthMethod
    <3>2. "PublicClientsOnly" \notin world.as =>
            TokenAuthMethod(Blank, Advertised, "PublicClientsOnly" \notin world.as) = "client_secret_post"
      BY RulesWithASecret
    <3> QED
      BY <2>1, <3>1, <3>2 DEF FollowsTheRules
  <2> QED
    BY <2>1, <2>2, <2>3, <2>4, <2>5 DEF WireAuth, Afterwards, Credentials
<1>7. CASE RegisterUnanswered
  <2>1. pc = "resolve" /\ pc' = AfterResolve /\ ~plan'.registered /\ UNCHANGED <<server, world>>
    BY <1>7 DEF RegisterUnanswered, MayRegister, NoPlan
  <2>2. pc' = "prelude" /\ server.auth = Blank
    BY <2>1 DEF WireAuth, WireCustody, Afterwards, AfterResolve
  <2> QED
    BY <2>1, <2>2 DEF WireAuth, Afterwards, Credentials
<1>8. CASE Silent
  <2>1. UNCHANGED <<server, client, world, plan>>
    BY <1>8 DEF Silent, AcceptFlags, ReportRefusal, EndChecks, AttachVerdicts, Finish
  <2>2. pc' \in {"discover"} \cup Afterwards /\ (pc' \notin Afterwards => pc = "start")
    BY <1>8 DEF Silent, AcceptFlags, ReportRefusal, EndChecks, AttachVerdicts, Finish, Return,
                WireCustody, Afterwards
  <2>3. Credentials' = Credentials
    BY <2>1 DEF Credentials, ClientAuth
  <2> QED
    BY <2>1, <2>2, <2>3 DEF WireAuth, Afterwards
<1>9. CASE Deregister
  BY <1>9 DEF Deregister, WireAuth, Afterwards, Credentials, ClientAuth
<1>10. CASE UNCHANGED allVars
  BY <1>10 DEF allVars, WireAuth, Afterwards, Credentials, ClientAuth
<1> QED
  BY <1>1, <1>2, <1>3, <1>4, <1>5, <1>6, <1>7, <1>8, <1>9, <1>10 DEF NextWire

LEMMA WireAuthAlways == SpecWire => []WireAuth
<1> QED
  BY WireAuthInit, WireAuthStep, WireCustodyAlways, PTL DEF SpecWire

\* A client the run registered authenticates the way the server registered it, and by
\* a method the server advertises where the registration answer names none the tool
\* implements, through any registry, unless a flag names another method
\* (resolve.go:159-170).
THEOREM RegisteredAuthenticatesAsRegistered == SpecWire => []AuthAsRegistered
<1>1. ASSUME WireAuth, plan.registered, world.method = Blank PROVE AuthAsRegistered
  <2>1. server.auth \in {Blank, ClientAuth} /\ server.registeredAs = AssignedMethod(world.as)
    BY <1>1 DEF WireAuth, Credentials
  <2>2. CASE StatedMethod(world.as) \in Methods
    <3>1. ClientAuth \in {Blank, Shown(server.registeredAs)}
      BY <1>1, <2>1, <2>2 DEF WireAuth, ClientAuth
    <3> QED
      BY <2>1, <2>2, <3>1 DEF AuthAsRegistered
  <2>3. CASE StatedMethod(world.as) \notin Methods
    <3>1. "client_secret_post" \in AdvertisedMethods(world.as) \/ ~client.secret
      BY <1>1, <2>3 DEF WireAuth, FollowsTheRules, AdvertisedMethods
    <3>2. ClientAuth \in {Blank} \cup {Shown(m) : m \in AdvertisedMethods(world.as)}
      BY <1>1, <2>3, <3>1 DEF WireAuth, FollowsTheRules, ClientAuth
    <3> QED
      BY <2>1, <2>3, <3>2 DEF AuthAsRegistered
  <2> QED
    BY <2>2, <2>3
<1>2. WireAuth => AuthAsRegistered
  BY <1>1 DEF AuthAsRegistered
<1> QED
  BY <1>2, WireAuthAlways, PTL

----------------------------------------------------------------------------
(***************************************************************************)
(* A proof reaches a server twice only inside one call of MCPRequest.  A   *)
(* proof is named by the check and by the request of its dialogue it was   *)
(* signed for, so what a server has seen is older than what is asked next, *)
(* except while a call waits for the answer to its second request.         *)
(***************************************************************************)
(***************************************************************************)
(* What a request proves.                                                  *)
(***************************************************************************)
Turn == <<next, Len(said)>>

Proves(r) == r.to \in {"token", "mcp"} => r.proof = NoProof \/ r.proof.jti = Turn

LEMMA FormProves ==
  /\ \A grant : Proves(Form(grant)) /\ Proves(Unauthenticated(grant))
  /\ \A s, a : Proves(Exchange(s, a))
  /\ \A s, a, scope : Proves([Exchange(s, a) EXCEPT !.scope = scope])
  /\ \A audiences : Proves(Resource(audiences))
BY DEF Form, Unauthenticated, Exchange, Resource, Proves

LEMMA SignedTurn == \A htu, nonce : Signed(said, htu, nonce).jti = Turn
BY DEF Signed, Proof, Turn

LEMMA ProvingProves == \A htu, nonce : Proves(Proving(said, htu, nonce))
BY SignedTurn DEF Proving, Form, Proves

LEMMA ElsewhereProves ==
  /\ Proves(Nothing)
  /\ \A document \in {"suffix", "jwks", "authorize", "prm", "metadata", "openid"} : Proves(Get(document))
  /\ \A token : Proves(About("introspect", token)) /\ Proves(About("revoke", token))
  /\ \A token : Proves(Present(token, NoProof))
  /\ \A token, htu, nonce : Proves(Present(token, Signed(said, htu, nonce)))
BY SignedTurn DEF Nothing, Get, About, Present, Proves

LEMMA PendingProves == Proves(Pending)
<1>1. Proves(WalkRequest(said))
  BY ElsewhereProves DEF WalkRequest
<1>2. said = <<>> => \A id : Proves(OneShot(id))
  BY FormProves, ProvingProves, ElsewhereProves DEF OneShot
<1>3. Proves(PresentWithRetry(said))
  BY ElsewhereProves DEF PresentWithRetry
<1>4. \A id : Proves(Uses(id, said))
  BY <1>3, ElsewhereProves DEF Uses
<1>5. \A id : Proves(Asks(id, said))
  BY <1>2, <1>4, FormProves, ProvingProves, ElsewhereProves DEF Asks
<1> QED
  BY <1>1, <1>5, ElsewhereProves DEF Pending, Request

----------------------------------------------------------------------------
(***************************************************************************)
(* What a server has seen once it has answered.                            *)
(***************************************************************************)
Knows(s) == {"auth", "registeredAs", "revoked", "minted", "seen", "seenAgain"} \subseteq DOMAIN s

LEMMA SawOne ==
  ASSUME NEW s, Knows(s), NEW proof
  PROVE  /\ Saw(s, proof).seen \subseteq s.seen \cup {proof.jti}
         /\ Saw(s, proof).seen = s.seen \/ proof # NoProof
         /\ Saw(s, proof).seenAgain # s.seenAgain => proof # NoProof /\ proof.jti \in s.seen
BY DEF Saw, Knows

LEMMA AfterSaw ==
  ASSUME NEW answer, Knows(server)
  PROVE  /\ After(Pending, answer).seen \subseteq server.seen \cup {Turn}
         /\ After(Pending, answer).seenAgain # server.seenAgain => Turn \in server.seen
<1>1. CASE Pending.to = "token"
  <2> DEFINE s == [server EXCEPT !.auth = Pending.auth,
                     !.minted = IF Verified(answer.token) THEN answer.token.n ELSE @]
  <2>1. Knows(s) /\ s.seen = server.seen /\ s.seenAgain = server.seenAgain
    BY DEF Knows
  <2>2. After(Pending, answer) = Saw(s, Pending.proof)
    BY <1>1 DEF After
  <2> HIDE DEF s
  <2> QED
    BY <1>1, <2>1, <2>2, SawOne, PendingProves DEF Proves
<1>2. CASE Pending.to = "mcp"
  BY <1>2, SawOne, PendingProves DEF After, Proves
<1>3. CASE Pending.to = "revoke"
  BY <1>3 DEF After, Knows
<1>4. CASE Pending.to \notin {"token", "mcp", "revoke"}
  BY <1>4 DEF After
<1> QED
  BY <1>1, <1>2, <1>3, <1>4

\* Nothing is proved before the checks.
LEMMA WalkProvesNothing ==
  ASSUME pc # "checks", NEW answer, Knows(server)
  PROVE  After(Pending, answer).seen = server.seen
<1> DEFINE Bare(r) == r.to # "token" /\ (r.to = "mcp" => r.proof = NoProof)
<1>1. /\ Bare(Nothing) /\ Bare(Present(NoToken, NoProof))
      /\ \A document \in {"prm", "metadata", "openid"} : Bare(Get(document))
  BY DEF Nothing, Present, Get
<1> HIDE DEF Bare
<1>2. Bare(WalkRequest(said))
  BY <1>1 DEF WalkRequest
<1>3. Bare(Pending)
  BY <1>1, <1>2 DEF Pending, Request
<1>4. CASE Pending.to = "mcp"
  BY <1>3, <1>4 DEF After, Saw, Bare
<1>5. CASE Pending.to = "revoke"
  BY <1>5 DEF After, Knows
<1>6. CASE Pending.to \notin {"token", "mcp", "revoke"}
  BY <1>6 DEF After
<1> QED
  BY <1>3, <1>4, <1>5, <1>6 DEF Bare

----------------------------------------------------------------------------
(***************************************************************************)
(* What a server has seen is past, or is what the call at hand sends once  *)
(* more.                                                                   *)
(***************************************************************************)
Past(t) == \E n, k \in Nat : t = <<n, k>> /\ (n < next \/ (n = next /\ k < Len(said)))

Repeating == OnCall /\ Len(asked) = 2

Beforehand == {"start", "discover", "resolve", "prelude"}

Seen ==
  /\ next \in Nat /\ \E S : said \in Seq(S)
  /\ pc \in Beforehand => server.seen = {}
  /\ \A t \in server.seen : Past(t) \/ (t = Turn /\ Repeating)

LEMMA SeenInit == InitWire => Seen
<1> SUFFICES ASSUME InitWire PROVE Seen
  OBVIOUS
<1>1. next = 1 /\ said = <<>> /\ server.seen = {}
  BY DEF InitWire, Init, Server
<1>2. said \in Seq({})
  BY <1>1
<1> QED
  BY <1>1, <1>2 DEF Seen

LEMMA SaidGrows ==
  ASSUME Seen, NEW x, said' = Append(said, x)
  PROVE  Len(said') = Len(said) + 1 /\ Len(said) \in Nat /\ \E S : said' \in Seq(S)
<1>1. PICK S : said \in Seq(S)
  BY DEF Seen
<1>2. said \in Seq(S \cup {x}) /\ x \in S \cup {x}
  BY <1>1
<1>3. said' \in Seq(S \cup {x}) /\ Len(said') = Len(said) + 1
  BY <1>2, AppendProperties
<1> QED
  BY <1>1, <1>3

\* Once the answer has come, or is lost, the turn is past.
LEMMA TurnPasses ==
  ASSUME Seen, NEW x, said' = Append(said, x), next' = next, pc' = pc,
         server'.seen \subseteq server.seen \cup {Turn},
         pc \in Beforehand => server'.seen = server.seen
  PROVE  Seen'
<1>1. Len(said') = Len(said) + 1 /\ Len(said) \in Nat /\ (\E S : said' \in Seq(S)) /\ next \in Nat
  BY SaidGrows DEF Seen
<1>2. \A t \in server'.seen : t = Turn \/ Past(t)
  BY DEF Seen
<1>3. \A t \in server'.seen : \E n, k \in Nat : t = <<n, k>> /\ (n < next \/ (n = next /\ k <= Len(said)))
  BY <1>1, <1>2 DEF Past, Turn
<1>4. \A t \in server'.seen : Past(t)'
  BY <1>1, <1>3 DEF Past
<1> QED
  BY <1>1, <1>4 DEF Seen

\* The turn is past already when no call waits for a second answer.
LEMMA TurnIsNew == Seen /\ Turn \in server.seen => Repeating
<1> SUFFICES ASSUME Seen, Turn \in server.seen, ~Repeating PROVE FALSE
  OBVIOUS
<1>1. PICK n, k \in Nat : Turn = <<n, k>> /\ (n < next \/ (n = next /\ k < Len(said)))
  BY DEF Seen, Past
<1>2. n = next /\ k = Len(said)
  BY <1>1 DEF Turn
<1> QED
  BY <1>1, <1>2

LEMMA AskIsSeen ==
  ASSUME Seen, Knows(server), AskAS
  PROVE  Seen'
<1>1. /\ server' \in {server, After(Pending, Answered(server, Pending))}
      /\ UNCHANGED <<next, pc>>
      /\ said' = Append(said, Answered(server, Pending)) \/ said' = Append(said, Lost)
  BY DEF AskAS, vars
<1>2. server'.seen \subseteq server.seen \cup {Turn}
  BY <1>1, AfterSaw
<1>3. pc \in Beforehand => server'.seen = server.seen
  BY <1>1, WalkProvesNothing DEF Beforehand
<1> QED
  BY <1>1, <1>2, <1>3, TurnPasses

LEMMA CallIsSeen ==
  ASSUME Seen, Call
  PROVE  Seen'
<1>1. ~Repeating /\ UNCHANGED <<next, pc, said, server>>
  BY DEF Call, Repeating, vars, wireVars
<1>2. \A t \in server.seen : Past(t)
  BY <1>1 DEF Seen
<1> QED
  BY <1>1, <1>2 DEF Seen, Past

LEMMA AnswerIsSeen ==
  ASSUME Seen, Knows(server), CallInv', AnswerCall \/ LoseCall
  PROVE  Seen'
<1>1. /\ server' \in {server, After(Pending, Nothing)}
      /\ UNCHANGED <<next, pc>>
      /\ HangUp
  BY DEF AnswerCall, LoseCall, vars
<1>2. server'.seen \subseteq server.seen \cup {Turn}
  BY <1>1, AfterSaw
<1>3. pc \in Beforehand => server'.seen = server.seen
  BY <1>1, WalkProvesNothing DEF Beforehand
<1>4. CASE phase' \notin Awaiting
  <2>1. said' = Append(said, IF phase' = "failed" THEN Lost ELSE heard'[kept'])
    BY <1>1, <1>4 DEF HangUp
  <2> QED
    BY <1>1, <1>2, <1>3, <2>1, TurnPasses
<1>5. CASE phase' \in Awaiting
  <2>1. said' = said /\ phase' \in {"initialize", "again"}
    BY <1>1, <1>5 DEF HangUp, AnswerCall, LoseCall, Answer, Unheard, Settled, FallBack, ModernRefusal,
                     Initialized, Again, FirstLost, SecondLost, Ask, Stop, Awaiting
  <2>2. Repeating'
    BY <1>5, <2>1 DEF CallInv, Progress, FirstKept, Repeating, OnCall
  <2>3. Turn' = Turn /\ \A t : Past(t) => Past(t)'
    BY <1>1, <2>1 DEF Turn, Past
  <2>4. \A t \in server'.seen : t = Turn \/ Past(t)
    BY <1>2 DEF Seen
  <2> QED
    BY <1>1, <1>3, <2>1, <2>2, <2>3, <2>4 DEF Seen
<1> QED
  BY <1>4, <1>5
LEMMA SeenStep ==
  Seen /\ WireAuth /\ WireCustody /\ CallInv /\ [NextWire]_allVars => Seen'
<1> SUFFICES ASSUME Seen, WireAuth, WireCustody, CallInv, [NextWire]_allVars PROVE Seen'
  OBVIOUS
<1>a. Knows(server)
  BY DEF WireAuth, Knows
<1>b. CallInv'
  BY CallInvStep, WireCalls
<1>1. CASE AskAS
  BY <1>a, <1>1, AskIsSeen
<1>2. CASE Call
  BY <1>2, CallIsSeen
<1>3. CASE AnswerCall \/ LoseCall
  BY <1>a, <1>b, <1>3, AnswerIsSeen
<1>4. CASE EndWalk
  <2>1. pc = "discover" /\ pc' = "resolve" /\ said' = <<>> /\ UNCHANGED <<next, server>>
    BY <1>4 DEF EndWalk
  <2>2. said' \in Seq({})
    BY <2>1
  <2> QED
    BY <2>1, <2>2 DEF Seen, Beforehand
<1>5. CASE EndCheck
  <2>1. ~Repeating /\ next' = next + 1 /\ said' = <<>> /\ UNCHANGED <<pc, server>>
    BY <1>5 DEF EndCheck, Over, Repeating
  <2>2. said' \in Seq({})
    BY <2>1
  <2>3. \A t \in server.seen : Past(t)'
    BY <2>1 DEF Seen, Past
  <2> QED
    BY <2>1, <2>2, <2>3 DEF Seen
<1>6. CASE ResolveWithout \/ RegisterAnswered \/ RegisterUnanswered
  <2>1. pc = "resolve" /\ pc' = "prelude" /\ UNCHANGED <<next, said>> /\ server'.seen = server.seen
    BY <1>a, <1>6 DEF ResolveWithout, RegisterAnswered, RegisterUnanswered, NoRegistration, MayRegister,
                AfterResolve, WireCustody, Knows
  <2> QED
    BY <2>1 DEF Seen, Beforehand
<1>7. CASE Silent \/ Deregister \/ UNCHANGED allVars
  <2>1. UNCHANGED <<next, said, server, phase, asked>>
    BY <1>7 DEF Silent, AcceptFlags, ReportRefusal, EndChecks, AttachVerdicts, Finish, Deregister,
                allVars, vars, callVars, wireVars
  <2>2. pc' \in Beforehand => pc \in Beforehand
    BY <1>7 DEF Silent, AcceptFlags, ReportRefusal, EndChecks, AttachVerdicts, Finish, Return, Deregister,
                allVars, vars, Beforehand
  <2> QED
    BY <2>1, <2>2 DEF Seen, Past, Turn, Repeating, OnCall
<1> QED
  BY <1>1, <1>2, <1>3, <1>4, <1>5, <1>6, <1>7 DEF NextWire

LEMMA SeenAlways == SpecWire => [](Seen /\ WireAuth /\ CallInv)
<1>1. InitWire => CallInv
  BY CallInvInit DEF InitWire
<1>2. CallInv /\ [NextWire]_allVars => CallInv'
  BY CallInvStep, WireCalls
<1>3. SpecWire => []CallInv
  BY <1>1, <1>2, PTL DEF SpecWire
<1> QED
  BY <1>3, SeenInit, SeenStep, WireAuthAlways, WireCustodyAlways, PTL DEF SpecWire

\* No server, through any registry, is sent a proof it has had, except the second
\* request of one MCPRequest.
THEOREM ProofsAreFresh == SpecWire => FreshProofs
<1>1. Seen /\ WireAuth /\ [NextWire]_allVars =>
        [server'.seenAgain # server.seenAgain => OnCall /\ Len(asked) = 2]_allVars
  <2> SUFFICES ASSUME Seen, WireAuth, NextWire, server'.seenAgain # server.seenAgain
               PROVE  Repeating
    BY DEF Repeating
  <2>a. Knows(server)
    BY DEF WireAuth, Knows
  <2>1. CASE AskAS
    <3>1. server' \in {server, After(Pending, Answered(server, Pending))}
      BY <2>1 DEF AskAS
    <3> QED
      BY <2>a, <3>1, AfterSaw, TurnIsNew
  <2>2. CASE AnswerCall \/ LoseCall
    <3>1. server' \in {server, After(Pending, Nothing)}
      BY <2>2 DEF AnswerCall, LoseCall
    <3> QED
      BY <2>a, <3>1, AfterSaw, TurnIsNew
  <2>3. CASE RegisterAnswered
    BY <2>a, <2>3 DEF RegisterAnswered, Knows
  <2>4. CASE Call \/ EndWalk \/ EndCheck \/ ResolveWithout \/ RegisterUnanswered \/ Silent \/ Deregister
    BY <2>4 DEF Call, EndWalk, EndCheck, ResolveWithout, RegisterUnanswered, Silent, Deregister, wireVars
  <2> QED
    BY <2>1, <2>2, <2>3, <2>4 DEF NextWire
<1> QED
  BY <1>1, SeenAlways, PTL DEF SpecWire, FreshProofs
===============================================================================
