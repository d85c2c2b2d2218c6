----------------------------- MODULE Run_proofs ------------------------------
(***************************************************************************)
(* Theorems about a run, for every registry, every command line and every  *)
(* deployment: who holds the ephemeral client, the types, that a run       *)
(* implements the report it promises, that exit code 0 is never silent,    *)
(* and what the rows of a sound deployment say about whom.                 *)
(***************************************************************************)
EXTENDS RunProps, Verdict_proofs, SequenceTheorems

(***************************************************************************)
(* Who holds the ephemeral client.  NoOrphanClient and OneIdentity are not *)
(* inductive: whether a client is left behind at the end depends on where  *)
(* on the two paths through run() it was registered.                       *)
(***************************************************************************)
\* run() has not been through Resolve: Discover comes before it on one path and
\* after it on the other.
Unresolved == pc \in {"start", "prediscover", "resolve"} \/ (pc = "discover" /\ ~opts.authCode)

Custody ==
  /\ Unresolved => live = 0 /\ plan = NoPlan
  /\ pc \in {"login", "stepup"} => opts.authCode
  /\ live \in {0, 1}
  /\ live = 1 => ~opts.clientID /\ (plan.registered \/ ~site.sound)
  /\ plan.registered => plan.client /\ ~opts.clientID /\ (plan.uri <=> site.clientURI)
  /\ plan.registered /\ pc \notin {"done", "killed"} => live = 1
  /\ plan.regError => ~plan.client /\ ~plan.registered
  /\ pc = "done" /\ site.sound /\ site.clientURI => live = 0

LEMMA CustodyInit == Init => Custody
BY DEF Init, Custody, Unresolved, NoPlan

LEMMA CustodyStep == Custody /\ [Next]_vars => Custody'
<1> SUFFICES ASSUME Custody, [Next]_vars PROVE Custody'
  OBVIOUS
<1> USE DEF Custody, Unresolved
<1>1. CASE RejectFlags
  BY <1>1 DEF RejectFlags, Quit, inputs, tokens
<1>2. CASE AcceptFlags
  BY <1>2 DEF AcceptFlags, inputs, tokens, outcome
<1>3. CASE PreDiscover
  BY <1>3 DEF PreDiscover, Quit, inputs, tokens
<1>4. CASE ListenFails
  BY <1>4 DEF ListenFails, Quit, inputs, tokens
<1>5. CASE NoRegistration
  BY <1>5 DEF NoRegistration, AfterResolve, NoPlan, inputs, tokens, outcome
<1>6. CASE Register
  BY <1>6 DEF Register, MayRegister, AfterResolve, inputs, tokens, outcome
<1>7. CASE RegistrationFails
  BY <1>7 DEF RegistrationFails, MayRegister, AfterResolve, NoPlan, inputs, tokens, outcome
<1>8. CASE Discover
  BY <1>8 DEF Discover, inputs, tokens, outcome
<1>9. CASE ReportRefusal
  BY <1>9 DEF ReportRefusal, inputs, tokens, outcome
<1>10. CASE RunCheck
  BY <1>10 DEF RunCheck, inputs, tokens, outcome
<1>11. CASE RunRevocation
  BY <1>11 DEF RunRevocation, inputs, tokens, outcome
<1>12. CASE EndChecks
  BY <1>12 DEF EndChecks, inputs, tokens, outcome
<1>13. CASE RejectModel
  BY <1>13 DEF RejectModel, Return, inputs, tokens
<1>14. CASE AttachVerdicts
  BY <1>14 DEF AttachVerdicts, inputs, tokens, outcome
<1>15. CASE Finish
  BY <1>15 DEF Finish, Return, inputs, tokens
<1>16. CASE WriteFails
  BY <1>16 DEF WriteFails, Return, inputs, tokens
<1>17. CASE CleanUp
  BY <1>17 DEF CleanUp, inputs, tokens, outcome
<1>18. CASE LoginSucceeds
  BY <1>18 DEF LoginSucceeds, inputs, outcome
<1>19. CASE LoginFails
  BY <1>19 DEF LoginFails, Return, inputs, tokens
<1>20. CASE StepUp
  BY <1>20 DEF StepUp, inputs, tokens, outcome
<1>21. CASE Interrupt
  BY <1>21 DEF Interrupt, inputs, tokens, outcome
<1>22. CASE UNCHANGED vars
  BY <1>22 DEF vars
<1> QED
  BY <1>1, <1>2, <1>3, <1>4, <1>5, <1>6, <1>7, <1>8, <1>9, <1>10, <1>11, <1>12, <1>13,
     <1>14, <1>15, <1>16, <1>17, <1>18, <1>19, <1>20, <1>21, <1>22
  DEF Next, Program, Person

LEMMA CustodyAlways == Spec => []Custody
<1> QED
  BY CustodyInit, CustodyStep, PTL DEF Spec

\* The ephemeral client a deployment can delete is gone when run() has returned,
\* whichever return it took.
THEOREM NoOrphan == Spec => []NoOrphanClient
<1>1. Custody => NoOrphanClient
  BY DEF Custody, NoOrphanClient
<1> QED
  BY <1>1, CustodyAlways, PTL

\* One identity per run: the operator's client or one ephemeral client, never both.
THEOREM Identity == Spec => []OneIdentity
<1>1. Custody => OneIdentity
  BY DEF Custody, OneIdentity
<1> QED
  BY <1>1, CustodyAlways, PTL

----------------------------------------------------------------------------
(***************************************************************************)
(* Type correctness.  The substance is in the checks: every outcome a      *)
(* check can reach is one of the five the report knows.                    *)
(***************************************************************************)
LEMMA SkipKindTyped == \A gate : SkipKind(gate) \in Outcomes
BY DEF SkipKind, Outcomes

LEMMA EvaluateTyped ==
  ASSUME NEW c \in CheckType, NEW t
  PROVE  Evaluate(c, t) \subseteq Outcomes
<1>1. RunOutcomes(c, t) \subseteq Outcomes
  BY DEF RunOutcomes, Outcomes, CheckType
<1> QED
  BY <1>1, SkipKindTyped DEF Evaluate

LEMMA AnswersTyped ==
  ASSUME NEW c \in CheckType
  PROVE  SoundAnswers(c) \subseteq Outcomes /\ WildAnswers(c) \subseteq Outcomes
<1>1. Evaluate(c, View) \subseteq Outcomes
  BY EvaluateTyped
<1> QED
  BY <1>1 DEF SoundAnswers, WildAnswers, Outcomes

LEMMA PlanTyped ==
  ASSUME NEW client \in BOOLEAN, NEW registered \in BOOLEAN, NEW uri \in BOOLEAN,
         NEW regError \in BOOLEAN, NEW facts \in SUBSET Facts
  PROVE  [client |-> client, registered |-> registered, uri |-> uri, regError |-> regError,
          facts |-> facts] \in PlanType
BY Zenon DEF PlanType

LEMMA RecordRowTyped ==
  ASSUME NEW i \in DOMAIN Registry, entries \in Seq(RowType), RecordRow(Registry[i])
  PROVE  entries' \in Seq(RowType)
<1>0. Registry[i] \in CheckType
  BY RegistryAssumption
<1>1. PICK o \in Outcomes : entries' = Append(entries, Entry(Registry[i], o))
  BY <1>0, AnswersTyped DEF RecordRow
<1>2. Entry(Registry[i], o) \in RowType
  BY <1>0 DEF Entry, RowType, CheckType
<1> QED
  BY <1>1, <1>2

LEMMA WalksTyped ==
  ASSUME site \in DeploymentType, disc \subseteq Facts, NEW walk \in Walks, Learn(walk)
  PROVE  disc' \subseteq Facts
<1>1. site.facts \cap IssuerFacts \subseteq Facts /\ site.facts \cap ResourceFacts \subseteq Facts
      /\ "issuer" \in Facts
  BY DEF Facts
<1>2. \A r : r \subseteq Facts => \A w \in MetadataWalks(r) : w.facts \subseteq Facts
  BY <1>1 DEF MetadataWalks, Walk
<1>3. \A r : r \subseteq Facts => \A w \in ResourceWalks(r) : w.facts \subseteq Facts
  BY <1>2 DEF ResourceWalks, Walk
<1>4. \A heard \in Heard : heard \subseteq Facts
  BY <1>1 DEF Heard, Facts, ResourceFacts, ChallengeFacts
<1>5. \A heard \in Heard : ErrorPage(heard) \subseteq Facts
  BY <1>4 DEF ErrorPage, Facts, ResourceFacts
<1>6. \A heard \in Heard :
         ((site.facts \cap ResourceFacts) \ (ChallengeFacts \cup {"noOfflineAccess"})) \cup heard \subseteq Facts
  BY <1>1, <1>4
<1>7. walk.facts \subseteq Facts
  <2>1. CASE walk \in MetadataWalks({})
    BY <1>2, <2>1
  <2>2. CASE walk \in ResourceWalks(site.facts \cap ResourceFacts)
    BY <1>1, <1>3, <2>2
  <2>3. CASE walk = Unreachable
    BY <2>3 DEF Unreachable
  <2>4. CASE \E heard \in Heard :
               walk \in ResourceWalks(((site.facts \cap ResourceFacts) \ (ChallengeFacts \cup {"noOfflineAccess"}))
                                        \cup heard)
    BY <1>3, <1>6, <2>4
  <2>5. CASE \E heard \in Heard : walk = Walk(FALSE, ErrorPage(heard))
    BY <1>5, <2>5 DEF Walk
  <2> QED
    BY <2>1, <2>2, <2>3, <2>4, <2>5 DEF Walks
<1> QED
  BY <1>7 DEF Learn

LEMMA TypeInit == Init => TypeOK
<1> SUFFICES ASSUME Init PROVE TypeOK
  OBVIOUS
<1>1. plan \in PlanType
  BY PlanTyped DEF Init, NoPlan
<1>2. creds \subseteq Facts
  BY DEF Init, Facts, RunFacts
<1>3. next \in 1..(Len(Registry) + 1)
  BY RegistryAssumption DEF Init
<1>4. entries \in Seq(RowType)
  BY DEF Init
<1>5. opts \in Invocations /\ site \in Deployments /\ pc = "start" /\ disc = {} /\ live \in 0..1
      /\ subject \in {"none", "active", "dead"} /\ refresh = "none" /\ exit = NoExit
  BY DEF Init
<1>6. written \in BOOLEAN
  BY DEF Init
<1> QED
  BY <1>1, <1>2, <1>3, <1>4, <1>5, <1>6 DEF TypeOK

LEMMA TypeStep == TypeOK /\ Custody' /\ [Next]_vars => TypeOK'
<1> SUFFICES ASSUME TypeOK, Custody', [Next]_vars PROVE TypeOK'
  OBVIOUS
<1> USE DEF TypeOK
<1>0. live' \in 0..1
  BY DEF Custody
<1>a. site \in DeploymentType /\ Len(Registry) \in Nat
  BY DeploymentsAssumption, RegistryAssumption
<1>c. DiscoveryFailed \in RowType /\ RegistrationFailed \in RowType
  BY DEF DiscoveryFailed, RegistrationFailed, RowType, Severities, Outcomes
<1>1. CASE RejectFlags
  BY <1>1 DEF RejectFlags, Quit, inputs, tokens
<1>2. CASE AcceptFlags
  BY <1>2 DEF AcceptFlags, inputs, tokens, outcome
<1>3. CASE PreDiscover
  <2>1. disc' \subseteq Facts
    BY <1>3, <1>a, WalksTyped DEF PreDiscover
  <2> QED
    BY <1>3, <2>1 DEF PreDiscover, Quit, inputs, tokens
<1>4. CASE ListenFails
  BY <1>4 DEF ListenFails, Quit, inputs, tokens
<1>5. CASE NoRegistration
  <2>1. opts.clientID \in BOOLEAN
    BY InvocationsAssumption DEF InvocationType
  <2>2. plan' = [client |-> opts.clientID, registered |-> FALSE, uri |-> FALSE,
                 regError |-> FALSE, facts |-> {}]
    BY <1>5 DEF NoRegistration, NoPlan
  <2>3. plan' \in PlanType
    BY <2>1, <2>2, PlanTyped
  <2> QED
    BY <1>5, <2>3 DEF NoRegistration, AfterResolve, inputs, tokens, outcome
<1>6. CASE Register
  <2>1. site.clientURI \in BOOLEAN
    BY <1>a DEF DeploymentType
  <2>2. {"applicationTypeKept", "issuerBound"} \subseteq Facts
    BY DEF Facts, RunFacts
  <2>3. PICK kept \in SUBSET {"applicationTypeKept", "issuerBound"} :
          plan' = [client |-> TRUE, registered |-> TRUE, uri |-> site.clientURI,
                   regError |-> FALSE, facts |-> kept]
    BY <1>6 DEF Register
  <2>4. plan' \in PlanType
    BY <2>1, <2>2, <2>3, PlanTyped
  <2> QED
    BY <1>0, <1>6, <2>4 DEF Register, AfterResolve, inputs, tokens, outcome
<1>7. CASE RegistrationFails
  <2>1. plan' = [client |-> FALSE, registered |-> FALSE, uri |-> FALSE,
                 regError |-> TRUE, facts |-> {}]
    BY <1>7 DEF RegistrationFails, NoPlan
  <2>2. plan' \in PlanType
    BY <2>1, PlanTyped
  <2> QED
    BY <1>0, <1>7, <2>2 DEF RegistrationFails, AfterResolve, inputs, tokens, outcome
<1>8. CASE Discover
  <2>1. disc' \subseteq Facts
    BY <1>8, <1>a, WalksTyped DEF Discover
  <2>2. entries' \in Seq(RowType)
    BY <1>8, <1>c DEF Discover
  <2> QED
    BY <1>8, <2>1, <2>2 DEF Discover, inputs, tokens, outcome
<1>9. CASE ReportRefusal
  <2>1. entries' \in Seq(RowType)
    <3>1. CASE plan.regError
      BY <1>9, <1>c, <3>1 DEF ReportRefusal
    <3>2. CASE ~plan.regError
      BY <1>9, <3>2 DEF ReportRefusal
    <3> QED
      BY <3>1, <3>2
  <2> QED
    BY <1>9, <2>1 DEF ReportRefusal, inputs, tokens, outcome
<1>10. CASE RunCheck
  <2>1. next \in DOMAIN Registry
    BY <1>10, RegistryAssumption DEF RunCheck
  <2>2. entries' \in Seq(RowType)
    BY <1>10, <2>1, RecordRowTyped DEF RunCheck
  <2>3. next' \in 1..(Len(Registry) + 1)
    BY <1>10, <1>a DEF RunCheck
  <2> QED
    BY <1>10, <2>2, <2>3 DEF RunCheck, inputs, tokens, outcome
<1>11. CASE RunRevocation
  <2>1. next \in DOMAIN Registry
    BY <1>11, RegistryAssumption DEF RunRevocation
  <2>2. entries' \in Seq(RowType)
    BY <1>11, <2>1, RecordRowTyped DEF RunRevocation
  <2>3. next' \in 1..(Len(Registry) + 1)
    BY <1>11, <1>a DEF RunRevocation
  <2>4. subject' \in {"none", "active", "dead"} /\ refresh' \in {"none", "active", "dead"}
    BY <1>11 DEF RunRevocation, tokens
  <2> QED
    BY <1>11, <2>2, <2>3, <2>4 DEF RunRevocation, inputs, outcome
<1>12. CASE EndChecks
  BY <1>12 DEF EndChecks, inputs, tokens, outcome
<1>13. CASE RejectModel
  BY <1>13 DEF RejectModel, Return, inputs, tokens
<1>14. CASE AttachVerdicts
  BY <1>14 DEF AttachVerdicts, inputs, tokens, outcome
<1>15. CASE Finish
  <2>1. exit' \in {NoExit, 0, 1, 2}
    BY <1>15 DEF Finish, Return, ExitCode
  <2> QED
    BY <1>15, <2>1 DEF Finish, Return, inputs, tokens
<1>16. CASE WriteFails
  BY <1>16 DEF WriteFails, Return, inputs, tokens
<1>17. CASE CleanUp
  BY <1>0, <1>17 DEF CleanUp, inputs, tokens, outcome
<1>18. CASE LoginSucceeds
  <2>1. {"subjectToken", "authCodeFlow", "refreshToken", "twoScopes", "issReturned"} \subseteq Facts
    BY DEF Facts, RunFacts
  <2>2. creds' \subseteq Facts /\ refresh' \in {"none", "active", "dead"}
    BY <1>18, <2>1 DEF LoginSucceeds
  <2> QED
    BY <1>18, <2>2 DEF LoginSucceeds, inputs, outcome
<1>19. CASE LoginFails
  BY <1>19 DEF LoginFails, Return, inputs, tokens
<1>20. CASE StepUp
  <2>1. {"stepUp", "scopeAccumulated"} \subseteq Facts
    BY DEF Facts, RunFacts
  <2>2. creds' \subseteq Facts
    BY <1>20, <2>1 DEF StepUp
  <2> QED
    BY <1>20, <2>2 DEF StepUp, inputs, tokens, outcome
<1>21. CASE Interrupt
  BY <1>21 DEF Interrupt, inputs, tokens, outcome
<1>22. CASE UNCHANGED vars
  BY <1>22 DEF vars
<1> QED
  BY <1>1, <1>2, <1>3, <1>4, <1>5, <1>6, <1>7, <1>8, <1>9, <1>10, <1>11, <1>12, <1>13,
     <1>14, <1>15, <1>16, <1>17, <1>18, <1>19, <1>20, <1>21, <1>22
  DEF Next, Program, Person

\* Every variable keeps its type, the rows of the report included.
THEOREM Typing == Spec => []TypeOK
<1> QED
  BY TypeInit, TypeStep, CustodyAlways, PTL DEF Spec

----------------------------------------------------------------------------
(***************************************************************************)
(* The first unmet gate: unmet itself, with every gate before it met.      *)
(***************************************************************************)
LEMMA LeastUnmet ==
  ASSUME NEW gates \in Seq(STRING), NEW t
  PROVE  LET u == FirstUnmet(gates, t)
         IN /\ u = 0 => \A j \in DOMAIN gates : GateHolds(gates[j], t)
            /\ u # 0 => /\ u \in DOMAIN gates /\ ~GateHolds(gates[u], t)
                        /\ \A j \in 1..(u - 1) : GateHolds(gates[j], t)
<1> DEFINE unmet == {i \in 1..Len(gates) : ~GateHolds(gates[i], t)}
<1>1. FirstUnmet(gates, t) = IF unmet # {} THEN Min(unmet) ELSE 0
  BY DEF FirstUnmet, SelectInSeq
<1>2. /\ unmet \in SUBSET Nat /\ unmet \subseteq DOMAIN gates
      /\ \A i \in unmet : ~GateHolds(gates[i], t)
      /\ \A i \in DOMAIN gates : i \in unmet \/ GateHolds(gates[i], t)
      /\ 0 \notin unmet
  OBVIOUS
<1>3. \A i \in unmet : \A j \in 1..(i - 1) : j \in DOMAIN gates
  OBVIOUS
<1> HIDE DEF unmet
<1>4. CASE unmet = {}
  BY <1>1, <1>2, <1>4
<1>5. CASE unmet # {}
  <2>1. FirstUnmet(gates, t) \in unmet /\ \A j \in unmet : FirstUnmet(gates, t) <= j
    BY <1>1, <1>2, <1>5, MinOfNats
  <2>2. PICK u \in unmet : u = FirstUnmet(gates, t) /\ \A j \in unmet : u <= j
    BY <2>1
  <2>3. \A j \in 1..(u - 1) : j \in DOMAIN gates /\ j \notin unmet
    BY <1>2, <1>3, <2>2
  <2>4. \A j \in 1..(u - 1) : GateHolds(gates[j], t)
    BY <1>2, <2>3
  <2>5. u # 0 /\ u \in DOMAIN gates /\ ~GateHolds(gates[u], t)
    BY <1>2
  <2> QED
    BY <2>2, <2>4, <2>5
<1> QED
  BY <1>4, <1>5

LEMMA EvaluateAnswers ==
  ASSUME NEW c \in CheckType, NEW t
  PROVE  Evaluate(c, t) \subseteq Answers(c)
<1>1. c.gates \in Seq(STRING)
  BY DEF CheckType
<1>2. CASE FirstUnmet(c.gates, t) # 0
  <2>1. FirstUnmet(c.gates, t) \in DOMAIN c.gates
    BY <1>1, <1>2, LeastUnmet
  <2> QED
    BY <1>2, <2>1 DEF Evaluate, Answers
<1>3. CASE FirstUnmet(c.gates, t) = 0
  BY <1>3 DEF Evaluate, RunOutcomes, Answers
<1> QED
  BY <1>2, <1>3

LEMMA RowsAnswered ==
  ASSUME NEW i \in DOMAIN Registry
  PROVE  /\ SoundAnswers(Registry[i]) \subseteq Answers(Registry[i])
         /\ WildAnswers(Registry[i]) \subseteq Answers(Registry[i])
<1>1. Registry[i] \in CheckType
  BY RegistryAssumption
<1>2. Evaluate(Registry[i], View) \subseteq Answers(Registry[i])
  BY <1>1, EvaluateAnswers
<1>3. Registry[i].may \subseteq Answers(Registry[i]) /\ "error" \in Answers(Registry[i])
  BY DEF Answers
<1> QED
  BY <1>2, <1>3, LifecycleAssumption DEF SoundAnswers, WildAnswers

----------------------------------------------------------------------------
(***************************************************************************)
(* How far the report is.  Discover comes first on one path and after the  *)
(* login on the other, so what the prelude finds in the report depends on  *)
(* the path.                                                               *)
(***************************************************************************)
Bookkeeping ==
  /\ pc \in {"start", "prediscover", "login", "stepup", "discover"} => entries = <<>>
  /\ pc \in {"resolve", "prelude"} => entries \in {<<>>, <<DiscoveryFailed>>}
  /\ pc = "resolve" /\ opts.authCode => entries = <<>>
  /\ pc \in {"start", "prediscover", "resolve", "login", "stepup", "discover", "prelude"} => next = 1
  /\ pc \in {"verdicts", "finish"} => next = Len(Registry) + 1
  /\ pc \notin {"cleanup", "done", "killed"} => exit = NoExit /\ ~written

LEMMA BookkeepingInit == Init => Bookkeeping
BY DEF Init, Bookkeeping

LEMMA BookkeepingStep == Bookkeeping /\ [Next]_vars => Bookkeeping'
<1> SUFFICES ASSUME Bookkeeping, [Next]_vars PROVE Bookkeeping'
  OBVIOUS
<1> USE DEF Bookkeeping, inputs, outcome
<1>1. CASE RejectFlags \/ AcceptFlags
  BY <1>1 DEF RejectFlags, AcceptFlags, Quit
<1>2. CASE PreDiscover \/ ListenFails
  BY <1>2 DEF PreDiscover, ListenFails, Quit
<1>3. CASE NoRegistration \/ Register \/ RegistrationFails
  BY <1>3 DEF NoRegistration, Register, RegistrationFails, MayRegister, AfterResolve
<1>4. CASE LoginSucceeds \/ LoginFails \/ StepUp
  BY <1>4 DEF LoginSucceeds, LoginFails, StepUp, Return
<1>5. CASE Discover
  <2>1. entries = <<>> /\ entries' \in {entries, Append(entries, DiscoveryFailed)}
    BY <1>5 DEF Discover
  <2>2. entries' \in {<<>>, <<DiscoveryFailed>>}
    BY <2>1
  <2> QED
    BY <1>5, <2>2 DEF Discover
<1>6. CASE ReportRefusal
  BY <1>6 DEF ReportRefusal
<1>7. CASE RunCheck \/ RunRevocation \/ EndChecks
  BY <1>7 DEF RunCheck, RunRevocation, EndChecks
<1>8. CASE RejectModel \/ AttachVerdicts
  BY <1>8 DEF RejectModel, AttachVerdicts, Return
<1>9. CASE Finish \/ WriteFails
  BY <1>9 DEF Finish, WriteFails, Return
<1>10. CASE CleanUp \/ Interrupt
  BY <1>10 DEF CleanUp, Interrupt
<1>11. CASE UNCHANGED vars
  BY <1>11 DEF vars
<1> QED
  BY <1>1, <1>2, <1>3, <1>4, <1>5, <1>6, <1>7, <1>8, <1>9, <1>10, <1>11 DEF Next, Program, Person

----------------------------------------------------------------------------
\* The report as Report sees it.
Phase == IF written THEN "published" ELSE IF exit # NoExit THEN "aborted" ELSE "collecting"

LEMMA RowsCounted ==
  /\ Len(RegistryRows) = Len(Registry) /\ Len(Registry) \in Nat
  /\ \A i \in DOMAIN Registry : RegistryRows[i] = RowOf(Registry[i])
BY RegistryAssumption DEF RegistryRows

\* Report brings its own copy of what both take from Verdict.
LEMMA SharedVerdict ==
  /\ Promise!DiscoveryFailed = DiscoveryFailed /\ Promise!RegistrationFailed = RegistrationFailed
  /\ \A es, s : Promise!ExitCode(es, s) = ExitCode(es, s)
BY DEF Promise!DiscoveryFailed, DiscoveryFailed, Promise!RegistrationFailed, RegistrationFailed,
       Promise!ExitCode, ExitCode, Promise!HasFailure, HasFailure

LEMMA ReportIdles ==
  ASSUME UNCHANGED <<opts, entries, next, written, exit>>
  PROVE  UNCHANGED Promise!vars
BY DEF Promise!vars

\* An early return, before the first row or after the last.
LEMMA ReportAborts ==
  ASSUME exit = NoExit, ~written, exit' \in {1, 2}, UNCHANGED <<opts, entries, next, written>>,
         entries = <<>> \/ next = Len(Registry) + 1
  PROVE  Promise!Abort
BY RowsCounted DEF Promise!Abort, NoExit, RegistryRows

LEMMA AppendToOne ==
  ASSUME NEW row, NEW other
  PROVE  Append(<<other>>, row) = <<other, row>>
<1>1. <<other>> \in Seq({other, row})
  OBVIOUS
<1>2. /\ Append(<<other>>, row) \in Seq({other, row})
      /\ Len(Append(<<other>>, row)) = 2
      /\ Append(<<other>>, row)[1] = other /\ Append(<<other>>, row)[2] = row
  BY <1>1
<1>3. <<other, row>> \in Seq({other, row}) /\ Len(<<other, row>>) = 2
  OBVIOUS
<1> DEFINE s == Append(<<other>>, row)
           t == <<other, row>>
<1>4. \A i \in 1..Len(s) : s[i] = t[i]
  BY <1>2
<1> HIDE DEF s, t
<1>5. s \in Seq({other, row}) /\ t \in Seq({other, row}) /\ Len(s) = Len(t)
  BY <1>2, <1>3 DEF s, t
<1>6. s = t
  BY <1>4, <1>5, SeqEqual
<1> QED
  BY <1>6 DEF s, t

\* A row written before the first check.
LEMMA ReportOpens ==
  ASSUME exit = NoExit, ~written, next = 1, UNCHANGED <<opts, next, written, exit>>,
         NEW row \in {DiscoveryFailed, RegistrationFailed},
         entries' = Append(entries, row), Append(entries, row) \in Promise!Preludes
  PROVE  Promise!Next
BY SharedVerdict DEF Promise!Next, Promise!OpenWithTrouble

LEMMA ReportRecords ==
  ASSUME exit = NoExit, ~written, next \in DOMAIN Registry, next' = next + 1,
         RecordRow(Registry[next]), UNCHANGED <<opts, written, exit>>
  PROVE  Promise!RecordRow
<1>1. PICK o \in Answers(Registry[next]) : entries' = Append(entries, Entry(Registry[next], o))
  BY RowsAnswered DEF RecordRow
<1>2. Promise!Row(next, o) = Entry(Registry[next], o)
  BY DEF Promise!Row, RegistryRows, Entry, RowOf
<1>3. o \in RegistryRows[next].answers
  BY DEF RegistryRows, RowOf
<1>4. next <= Len(RegistryRows)
  BY RegistryAssumption, RowsCounted
<1> QED
  BY <1>1, <1>2, <1>3, <1>4 DEF Promise!RecordRow, RegistryRows

LEMMA ReportStep == Bookkeeping /\ TypeOK /\ [Next]_vars => [Promise!Next]_(Promise!vars)
<1> SUFFICES ASSUME Bookkeeping, TypeOK, [Next]_vars PROVE Promise!Next \/ UNCHANGED Promise!vars
  OBVIOUS
<1> USE DEF inputs, outcome
<1>1. CASE RejectFlags
  BY <1>1, ReportAborts DEF RejectFlags, Quit, Bookkeeping, Promise!Next
<1>2. CASE PreDiscover
  <2>1. exit' = exit \/ exit' = 1
    BY <1>2 DEF PreDiscover, Quit
  <2> QED
    BY <1>2, <2>1, ReportAborts, ReportIdles DEF PreDiscover, Bookkeeping, Promise!Next
<1>3. CASE ListenFails
  BY <1>3, ReportAborts DEF ListenFails, Quit, Bookkeeping, Promise!Next
<1>4. CASE AcceptFlags \/ NoRegistration \/ Register \/ RegistrationFails \/ LoginSucceeds \/ StepUp
  BY <1>4, ReportIdles
  DEF AcceptFlags, NoRegistration, Register, RegistrationFails, MayRegister, LoginSucceeds, StepUp
<1>5. CASE LoginFails
  BY <1>5, ReportAborts DEF LoginFails, Return, Bookkeeping, Promise!Next
<1>6. CASE Discover
  <2>1. entries = <<>> /\ next = 1 /\ exit = NoExit /\ ~written /\ UNCHANGED <<opts, next, written, exit>>
    BY <1>6 DEF Discover, Bookkeeping
  <2>2. entries' = entries \/ entries' = Append(entries, DiscoveryFailed)
    BY <1>6 DEF Discover
  <2>3. Append(entries, DiscoveryFailed) \in Promise!Preludes
    BY <2>1, SharedVerdict DEF Promise!Preludes
  <2> QED
    BY <2>1, <2>2, <2>3, ReportOpens, ReportIdles
<1>7. CASE ReportRefusal
  <2>1. entries \in {<<>>, <<DiscoveryFailed>>} /\ next = 1 /\ exit = NoExit /\ ~written
        /\ UNCHANGED <<opts, next, written, exit>>
    BY <1>7 DEF ReportRefusal, Bookkeeping
  <2>2. entries' = entries \/ entries' = Append(entries, RegistrationFailed)
    BY <1>7 DEF ReportRefusal
  <2>3. Append(entries, RegistrationFailed) \in {<<RegistrationFailed>>, <<DiscoveryFailed, RegistrationFailed>>}
    <3>1. CASE entries = <<>>
      BY <3>1
    <3>2. CASE entries = <<DiscoveryFailed>>
      BY <3>2, AppendToOne
    <3> QED
      BY <2>1, <3>1, <3>2
  <2>4. Append(entries, RegistrationFailed) \in Promise!Preludes
    BY <2>3, SharedVerdict DEF Promise!Preludes
  <2> QED
    BY <2>1, <2>2, <2>4, ReportOpens, ReportIdles
<1>8. CASE RunCheck \/ RunRevocation
  <2>1. next \in DOMAIN Registry
    BY <1>8, RegistryAssumption DEF RunCheck, RunRevocation, TypeOK
  <2>2. RecordRow(Registry[next]) /\ next' = next + 1 /\ exit = NoExit /\ ~written
        /\ UNCHANGED <<opts, written, exit>>
    BY <1>8 DEF RunCheck, RunRevocation, Bookkeeping
  <2> QED
    BY <2>1, <2>2, ReportRecords DEF Promise!Next
<1>9. CASE EndChecks \/ AttachVerdicts \/ CleanUp \/ Interrupt
  BY <1>9, ReportIdles DEF EndChecks, AttachVerdicts, CleanUp, Interrupt
<1>10. CASE RejectModel \/ WriteFails
  BY <1>10, ReportAborts DEF RejectModel, WriteFails, Return, Bookkeeping, Promise!Next
<1>11. CASE Finish
  BY <1>11, RowsCounted, SharedVerdict
  DEF Finish, Return, Bookkeeping, Promise!Next, Promise!Publish, RegistryRows
<1>12. CASE UNCHANGED vars
  BY <1>12, ReportIdles DEF vars
<1> QED
  BY <1>1, <1>2, <1>3, <1>4, <1>5, <1>6, <1>7, <1>8, <1>9, <1>10, <1>11, <1>12
  DEF Next, Program, Person

\* Whatever path a run takes, its report holds the rows Report promises in the
\* order it promises, and the exit code is the one they call for.
THEOREM RunImplementsReport == Spec => ImplementsReport
<1>1. Init => Promise!Init
  <2> SUFFICES ASSUME Init PROVE Promise!Init
    OBVIOUS
  <2>1. opts.strict \in BOOLEAN
    BY InvocationsAssumption DEF Init, InvocationType
  <2> QED
    BY <2>1 DEF Init, Promise!Init, NoExit, Promise!NoExit
<1> QED
  BY <1>1, BookkeepingInit, BookkeepingStep, ReportStep, Typing, PTL
  DEF Spec, ImplementsReport, Promise!Spec

----------------------------------------------------------------------------
(***************************************************************************)
(* Exit code 0 is never silent.  What has to be carried along is that the  *)
(* checks already passed have their rows, and that a run which has not     *)
(* learnt a token endpoint by the time it goes on has said so in a row     *)
(* that fails it.                                                          *)
(***************************************************************************)
\* The last Discover of the path is over.
Discovered == pc \in {"prelude", "checks", "verdicts", "finish"} \/ (pc = "resolve" /\ ~opts.authCode)

Accounted ==
  /\ pc = "prediscover" => opts.authCode
  /\ entries \in Seq(RowType)
  /\ \A k \in 1..(next - 1) : \E i \in DOMAIN entries : entries[i].id = Registry[k].id
  /\ \A i \in DOMAIN entries : entries[i].id = "discovery" => entries[i] = DiscoveryFailed
  /\ Discovered => "tokenEndpoint" \in disc \/ \E i \in DOMAIN entries : entries[i] = DiscoveryFailed
  /\ exit = 0 =>
       /\ written /\ next = Len(Registry) + 1 /\ ~HasFailure(entries, "MUST")
       /\ "tokenEndpoint" \in disc \/ \E i \in DOMAIN entries : entries[i] = DiscoveryFailed

\* A walk that ends well has found a document with a token endpoint.
LEMMA GoodWalksFind ==
  ASSUME site \in Deployments, NEW walk \in Walks, walk.ok, Learn(walk)
  PROVE  "tokenEndpoint" \in disc'
<1>1. \A r : \A w \in MetadataWalks(r) : w.ok => ~w.nil /\ "tokenEndpoint" \in w.facts
  BY DeploymentsAssumption DEF MetadataWalks, Walk, IssuerFacts
<1>2. \A r : \A w \in ResourceWalks(r) : w.ok => ~w.nil /\ "tokenEndpoint" \in w.facts
  BY <1>1 DEF ResourceWalks, Walk
<1>3. ~walk.nil /\ "tokenEndpoint" \in walk.facts
  <2>1. CASE walk \in MetadataWalks({})
    BY <1>1, <2>1
  <2>2. CASE \E r : walk \in ResourceWalks(r)
    BY <1>2, <2>2
  <2>3. CASE walk = Unreachable \/ \E facts : walk = Walk(FALSE, facts)
    BY <2>3 DEF Unreachable, Walk
  <2> QED
    BY <2>1, <2>2, <2>3 DEF Walks
<1> QED
  BY <1>3 DEF Learn

\* A row more leaves the rows before it where they are.
LEMMA RowsStay ==
  ASSUME entries \in Seq(RowType), NEW row, entries' = Append(entries, row), entries' \in Seq(RowType)
  PROVE  /\ DOMAIN entries' = DOMAIN entries \cup {Len(entries) + 1}
         /\ \A i \in DOMAIN entries : entries'[i] = entries[i]
         /\ entries'[Len(entries) + 1] = row
OBVIOUS

LEMMA AccountedInit == Init => Accounted
<1> SUFFICES ASSUME Init PROVE Accounted
  OBVIOUS
<1>1. pc = "start" /\ entries = <<>> /\ next = 1 /\ exit = NoExit
  BY DEF Init
<1>2. entries \in Seq(RowType) /\ 1..(next - 1) = {} /\ DOMAIN entries = {}
  BY <1>1
<1>3. exit # 0 /\ ~Discovered
  BY <1>1 DEF NoExit, Discovered
<1> QED
  BY <1>1, <1>2, <1>3 DEF Accounted

LEMMA AccountedStep ==
  Accounted /\ Bookkeeping /\ TypeOK /\ TypeOK' /\ [Next]_vars => Accounted'
<1> SUFFICES ASSUME Accounted, Bookkeeping, TypeOK, TypeOK', [Next]_vars PROVE Accounted'
  OBVIOUS
<1>0. entries' \in Seq(RowType) /\ entries \in Seq(RowType) /\ next \in Nat /\ site \in Deployments
  BY RegistryAssumption DEF TypeOK
<1>1. ASSUME UNCHANGED <<disc, opts, entries, next, written, exit>>, Discovered' => Discovered,
             pc' # "prediscover" \/ pc' = pc
      PROVE  Accounted'
  BY <1>0, <1>1 DEF Accounted
<1>2. ASSUME UNCHANGED <<entries, next>>, ~Discovered', exit' # 0,
             pc' = "prediscover" => opts'.authCode
      PROVE  Accounted'
  BY <1>0, <1>2 DEF Accounted
<1>3. CASE RejectFlags \/ AcceptFlags \/ ListenFails \/ LoginFails \/ LoginSucceeds \/ StepUp
  BY <1>2, <1>3 DEF RejectFlags, AcceptFlags, ListenFails, LoginFails, LoginSucceeds, StepUp,
       Quit, Return, Bookkeeping, Discovered, NoExit, inputs, outcome
<1>4. CASE PreDiscover
  <2>1. opts.authCode
    BY <1>4 DEF PreDiscover, Accounted
  <2> QED
    BY <1>2, <1>4, <2>1 DEF PreDiscover, Quit, Bookkeeping, Discovered, NoExit, inputs
<1>5. CASE NoRegistration \/ Register \/ RegistrationFails
  BY <1>1, <1>5 DEF NoRegistration, Register, RegistrationFails, MayRegister, AfterResolve,
       Discovered, inputs, outcome
<1>6. CASE Discover
  <2>1. PICK walk \in Walks :
          Learn(walk) /\ entries' = IF walk.ok THEN entries ELSE Append(entries, DiscoveryFailed)
    BY <1>6 DEF Discover
  <2>2. next' = 1 /\ exit' = NoExit /\ entries = <<>> /\ pc' # "prediscover"
    BY <1>6 DEF Discover, Bookkeeping, outcome
  <2>3. CASE walk.ok
    BY <1>0, <2>1, <2>2, <2>3, GoodWalksFind DEF Accounted, NoExit
  <2>4. CASE ~walk.ok
    BY <1>0, <2>1, <2>2, <2>4, RowsStay DEF Accounted, NoExit
  <2> QED
    BY <2>3, <2>4
<1>7. CASE ReportRefusal
  <2>1. UNCHANGED <<disc, next, written, exit>> /\ exit' = NoExit /\ Discovered
        /\ pc' # "prediscover"
    BY <1>7 DEF ReportRefusal, Bookkeeping, Discovered, outcome
  <2>2. CASE entries' = entries
    BY <1>0, <2>1, <2>2 DEF Accounted, NoExit
  <2>3. CASE entries' = Append(entries, RegistrationFailed)
    <3>1. RegistrationFailed.id # "discovery"
      BY DEF RegistrationFailed
    <3>2. \A i \in DOMAIN entries' : entries'[i].id = "discovery" => entries'[i] = DiscoveryFailed
      BY <1>0, <2>3, <3>1, RowsStay DEF Accounted
    <3>3. \A k \in 1..(next - 1) : \E i \in DOMAIN entries' : entries'[i].id = Registry[k].id
      BY <1>0, <2>3, RowsStay DEF Accounted
    <3>4. "tokenEndpoint" \in disc \/ \E i \in DOMAIN entries' : entries'[i] = DiscoveryFailed
      BY <1>0, <2>1, <2>3, RowsStay DEF Accounted
    <3> QED
      BY <1>0, <2>1, <3>2, <3>3, <3>4 DEF Accounted, NoExit
  <2> QED
    BY <1>7, <2>2, <2>3 DEF ReportRefusal
<1>8. CASE RunCheck \/ RunRevocation
  <2>1. /\ pc = "checks" /\ next \in DOMAIN Registry /\ RecordRow(Registry[next])
        /\ next' = next + 1 /\ UNCHANGED <<pc, disc, written, exit>> /\ exit' = NoExit
    BY <1>8, RegistryAssumption DEF RunCheck, RunRevocation, TypeOK, Bookkeeping, outcome
  <2>2. PICK o : entries' = Append(entries, Entry(Registry[next], o))
    BY <2>1 DEF RecordRow
  <2>3. Entry(Registry[next], o).id = Registry[next].id /\ Registry[next].id # "discovery"
    BY <2>1, SyntheticAssumption, RegistryAssumption DEF Entry, Ids, ToSet, DiscoveryFailed
  <2>4. \A k \in 1..(next' - 1) : k \in 1..(next - 1) \/ k = next
    BY <1>0, <2>1
  <2>5. \A k \in 1..(next' - 1) : \E i \in DOMAIN entries' : entries'[i].id = Registry[k].id
    BY <1>0, <2>2, <2>3, <2>4, RowsStay DEF Accounted
  <2>6. \A i \in DOMAIN entries' : entries'[i].id = "discovery" => entries'[i] = DiscoveryFailed
    BY <1>0, <2>2, <2>3, RowsStay DEF Accounted
  <2>7. "tokenEndpoint" \in disc' \/ \E i \in DOMAIN entries' : entries'[i] = DiscoveryFailed
    BY <1>0, <2>1, <2>2, RowsStay DEF Accounted, Discovered
  <2> QED
    BY <1>0, <2>1, <2>5, <2>6, <2>7 DEF Accounted, NoExit
<1>9. CASE EndChecks \/ AttachVerdicts \/ CleanUp \/ Interrupt
  BY <1>1, <1>9 DEF EndChecks, AttachVerdicts, CleanUp, Interrupt, Discovered, inputs, outcome
<1>10. CASE RejectModel \/ WriteFails
  BY <1>2, <1>10 DEF RejectModel, WriteFails, Return, Discovered
<1>11. CASE Finish
  <2>1. /\ UNCHANGED <<disc, entries, next>> /\ written' /\ next' = Len(Registry) + 1
        /\ exit' = ExitCode(entries, opts.strict) /\ ~Discovered' /\ Discovered
        /\ pc' # "prediscover"
    BY <1>11 DEF Finish, Return, Bookkeeping, Discovered
  <2>2. exit' = 0 => ~HasFailure(entries', "MUST")
    BY <2>1 DEF ExitCode
  <2> QED
    BY <1>0, <2>1, <2>2 DEF Accounted
<1>12. CASE UNCHANGED vars
  BY <1>1, <1>12 DEF vars, Discovered
<1> QED
  BY <1>3, <1>4, <1>5, <1>6, <1>7, <1>8, <1>9, <1>10, <1>11, <1>12 DEF Next, Program, Person

LEMMA AccountedIsComplete == Accounted => CleanExitIsComplete
<1> SUFFICES ASSUME Accounted, exit = 0 PROVE CleanExitIsComplete
  BY DEF CleanExitIsComplete
<1>1. ~\E i \in DOMAIN entries : entries[i] = DiscoveryFailed
  <2>1. \A i \in DOMAIN entries : entries[i] = DiscoveryFailed => HasFailure(entries, "MUST")
    <3>1. DiscoveryFailed.sev = "MUST" /\ DiscoveryFailed.outcome = "error"
      BY DEF DiscoveryFailed
    <3> QED
      BY <3>1 DEF HasFailure
  <2> QED
    BY <2>1 DEF Accounted
<1>2. "discovery" \notin Recorded
  BY <1>1 DEF Accounted, Recorded
<1>3. \A k \in DOMAIN Registry : Registry[k].id \in Recorded
  <2>1. DOMAIN Registry = 1..(next - 1)
    BY RegistryAssumption DEF Accounted
  <2> QED
    BY <2>1 DEF Accounted, Recorded
<1>4. Ids(Registry) \subseteq Recorded
  BY <1>3 DEF Ids, ToSet
<1> QED
  BY <1>1, <1>2, <1>4 DEF Accounted, CleanExitIsComplete

\* Exit code 0 comes with a written report that has a row for every selected check
\* and no discovery error, from a last discovery that found a token endpoint: on
\* every path through run(), for every registry, command line and deployment.
THEOREM CleanExit == Spec => []CleanExitIsComplete
<1> QED
  BY AccountedIsComplete, AccountedInit, AccountedStep, BookkeepingInit, BookkeepingStep, Typing, PTL DEF Spec

----------------------------------------------------------------------------
(***************************************************************************)
(* What a sound deployment is failed for.  The one thing it no longer      *)
(* honours is a token the run has revoked there, and the revocation that   *)
(* took it away passed, in an earlier row.                                 *)
(***************************************************************************)
RevocationRow(row) == row.id = Revocation /\ row.outcome = "pass"
FailedToken(row)   == row.id \in SubjectTokenRows /\ row.outcome = "fail"

Revoked ==
  /\ entries \in Seq(RowType)
  /\ site.sound /\ subject = "dead" => \E j \in DOMAIN entries : RevocationRow(entries[j])
  /\ site.sound => \A i \in DOMAIN entries : FailedToken(entries[i]) =>
       subject = "dead" /\ \E j \in 1..(i - 1) : RevocationRow(entries[j])

LEMMA RevokedInit == Init => Revoked
<1> SUFFICES ASSUME Init PROVE Revoked
  OBVIOUS
<1>1. entries = <<>> /\ subject # "dead"
  BY DEF Init
<1>2. entries \in Seq(RowType) /\ DOMAIN entries = {}
  BY <1>1
<1> QED
  BY <1>1, <1>2 DEF Revoked

\* On a sound deployment a check that puts the subject token before a server fails
\* only once that token is dead.
LEMMA SoundTokenAnswers ==
  ASSUME NEW i \in DOMAIN Registry, Registry[i].id \in SubjectTokenRows,
         "fail" \in SoundAnswers(Registry[i])
  PROVE  subject = "dead"
<1>1. "pass" \in Registry[i].may
  BY LifecycleAssumption
<1>2. "fail" \in Evaluate(Registry[i], View) => "pass" \in Evaluate(Registry[i], View)
  BY <1>1 DEF Evaluate, RunOutcomes, SkipKind
<1> QED
  BY <1>2 DEF SoundAnswers

\* The revocation of a subject token at a sound deployment passes.
LEMMA SoundRevocation ==
  ASSUME NEW i \in DOMAIN Registry, Registry[i].id = Revocation,
         FirstUnmet(Registry[i].gates, View) = 0
  PROVE  SoundAnswers(Registry[i]) = {"pass"}
<1>1. "pass" \in Registry[i].may
  BY LifecycleAssumption
<1>2. "pass" \in Evaluate(Registry[i], View)
  BY <1>1 DEF Evaluate, RunOutcomes
<1>3. Registry[i].id \notin SubjectTokenRows /\ Registry[i].id # RefreshScope
  BY DEF Revocation, SubjectTokenRows, RefreshScope
<1> QED
  BY <1>2, <1>3 DEF SoundAnswers

\* A row more, by which no token comes back to life.
LEMMA RevokedGrows ==
  ASSUME Revoked, NEW row, entries' = Append(entries, row), entries' \in Seq(RowType),
         UNCHANGED site, subject = "dead" => subject' = "dead",
         site.sound /\ subject' = "dead" => subject = "dead" \/ RevocationRow(row),
         site.sound /\ FailedToken(row) => subject = "dead"
  PROVE  Revoked'
<1>1. entries \in Seq(RowType) /\ Len(entries) \in Nat /\ DOMAIN entries = 1..Len(entries)
  BY DEF Revoked
<1>2. /\ DOMAIN entries' = DOMAIN entries \cup {Len(entries) + 1}
      /\ \A i \in DOMAIN entries : entries'[i] = entries[i]
      /\ entries'[Len(entries) + 1] = row
  BY <1>1, RowsStay
<1>3. \A i, j \in DOMAIN entries' : j \in 1..(i - 1) => j \in DOMAIN entries
  BY <1>1, <1>2
<1>4. site.sound /\ subject' = "dead" => \E j \in DOMAIN entries' : RevocationRow(entries'[j])
  BY <1>2 DEF Revoked
<1>5. ASSUME site.sound, NEW i \in DOMAIN entries', FailedToken(entries'[i])
      PROVE  subject' = "dead" /\ \E j \in 1..(i - 1) : RevocationRow(entries'[j])
  <2>1. CASE i \in DOMAIN entries
    <3>1. PICK j \in 1..(i - 1) : RevocationRow(entries[j])
      BY <1>2, <1>5, <2>1 DEF Revoked
    <3>2. j \in DOMAIN entries
      BY <1>1, <2>1, <3>1
    <3> QED
      BY <1>2, <1>5, <2>1, <3>1, <3>2 DEF Revoked
  <2>2. CASE i = Len(entries) + 1
    <3>1. subject = "dead"
      BY <1>2, <1>5, <2>2
    <3>2. PICK j \in DOMAIN entries : RevocationRow(entries[j])
      BY <1>5, <3>1 DEF Revoked
    <3>3. j \in 1..(i - 1)
      BY <1>1, <2>2, <3>2
    <3> QED
      BY <1>2, <3>1, <3>2, <3>3
  <2> QED
    BY <1>2, <1>5, <2>1, <2>2
<1> QED
  BY <1>4, <1>5 DEF Revoked

LEMMA RevokedStep == Revoked /\ Bookkeeping /\ TypeOK /\ TypeOK' /\ [Next]_vars => Revoked'
<1> SUFFICES ASSUME Revoked, Bookkeeping, TypeOK, TypeOK', [Next]_vars PROVE Revoked'
  OBVIOUS
<1>0. entries' \in Seq(RowType)
  BY DEF TypeOK
<1>1. ASSUME UNCHANGED <<site, subject, entries>> PROVE Revoked'
  BY <1>1 DEF Revoked
<1>2. CASE RejectFlags \/ AcceptFlags \/ PreDiscover \/ ListenFails \/ LoginFails \/ StepUp
  BY <1>1, <1>2 DEF RejectFlags, AcceptFlags, PreDiscover, ListenFails, LoginFails, StepUp, inputs, tokens
<1>3. CASE NoRegistration \/ Register \/ RegistrationFails
  BY <1>1, <1>3 DEF NoRegistration, Register, RegistrationFails, inputs, tokens
<1>4. CASE LoginSucceeds
  <2>1. entries' = <<>> /\ subject' = "active"
    BY <1>4 DEF LoginSucceeds, Bookkeeping
  <2>2. DOMAIN entries' = {}
    BY <2>1
  <2> QED
    BY <1>0, <2>1, <2>2 DEF Revoked
<1>5. CASE Discover
  <2>1. UNCHANGED <<site, subject>>
    BY <1>5 DEF Discover, inputs, tokens
  <2>2. entries' = entries \/ entries' = Append(entries, DiscoveryFailed)
    BY <1>5 DEF Discover
  <2>3. ~FailedToken(DiscoveryFailed)
    BY DEF FailedToken, DiscoveryFailed
  <2> QED
    BY <1>0, <1>1, <2>1, <2>2, <2>3, RevokedGrows
<1>6. CASE ReportRefusal
  <2>1. UNCHANGED <<site, subject>>
    BY <1>6 DEF ReportRefusal, inputs, tokens
  <2>2. entries' = entries \/ entries' = Append(entries, RegistrationFailed)
    BY <1>6 DEF ReportRefusal
  <2>3. ~FailedToken(RegistrationFailed)
    BY DEF FailedToken, RegistrationFailed
  <2> QED
    BY <1>0, <1>1, <2>1, <2>2, <2>3, RevokedGrows
<1>7. CASE RunCheck \/ RunRevocation
  <2>1. next \in DOMAIN Registry /\ RecordRow(Registry[next]) /\ UNCHANGED site
    BY <1>7, RegistryAssumption DEF RunCheck, RunRevocation, TypeOK, inputs
  <2>2. PICK o \in IF site.sound THEN SoundAnswers(Registry[next]) ELSE WildAnswers(Registry[next]) :
          entries' = Append(entries, Entry(Registry[next], o))
    BY <2>1 DEF RecordRow
  <2> DEFINE row == Entry(Registry[next], o)
  <2>3. row.id = Registry[next].id /\ row.outcome = o
    BY DEF Entry
  <2>4. site.sound /\ FailedToken(row) => subject = "dead"
    BY <2>1, <2>2, <2>3, SoundTokenAnswers DEF FailedToken
  <2>5. /\ subject = "dead" => subject' = "dead"
        /\ site.sound /\ subject' = "dead" => subject = "dead" \/ RevocationRow(row)
    <3>1. CASE RunCheck
      BY <3>1 DEF RunCheck, tokens
    <3>2. CASE RunRevocation
      <4>1. Registry[next].id = Revocation
        BY <3>2 DEF RunRevocation
      <4>2. UNCHANGED subject \/ (subject' = "dead" /\ FirstUnmet(Registry[next].gates, View) = 0)
        BY <3>2 DEF RunRevocation, tokens
      <4>3. site.sound /\ FirstUnmet(Registry[next].gates, View) = 0 => RevocationRow(row)
        BY <2>1, <2>2, <2>3, <4>1, SoundRevocation DEF RevocationRow
      <4> QED
        BY <4>2, <4>3
    <3> QED
      BY <1>7, <3>1, <3>2
  <2> HIDE DEF row
  <2> QED
    BY <1>0, <2>1, <2>2, <2>4, <2>5, RevokedGrows DEF row
<1>8. CASE EndChecks \/ RejectModel \/ AttachVerdicts \/ Finish \/ WriteFails \/ CleanUp \/ Interrupt
  BY <1>1, <1>8 DEF EndChecks, RejectModel, AttachVerdicts, Finish, WriteFails, CleanUp, Interrupt,
       inputs, tokens
<1>9. CASE UNCHANGED vars
  BY <1>1, <1>9 DEF vars
<1> QED
  BY <1>2, <1>3, <1>4, <1>5, <1>6, <1>7, <1>8, <1>9 DEF Next, Program, Person

\* A token row fails on a sound deployment only because the run revoked the token
\* before, and an earlier row says that it did: for every registry whose lifecycle
\* checks can say what LifecycleAssumption makes them say.
THEOREM OnlyRevokedFails == Spec => []FailsOnlyWhatItRevoked
<1>1. Revoked => FailsOnlyWhatItRevoked
  BY DEF Revoked, FailsOnlyWhatItRevoked, FailedToken, RevocationRow
<1> QED
  BY <1>1, RevokedInit, RevokedStep, BookkeepingInit, BookkeepingStep, Typing, PTL DEF Spec

----------------------------------------------------------------------------
(***************************************************************************)
(* What a run knows.  At a sound deployment the last walk brings exactly   *)
(* what the deployment offers, and the client and the tokens the run has   *)
(* come with the facts the checks expect of them.                          *)
(***************************************************************************)
Holdings ==
  {"subjectToken", "actorToken", "authCodeFlow", "refreshToken", "twoScopes", "issReturned",
   "stepUp", "scopeAccumulated"}

Registered == {"applicationTypeKept", "issuerBound"}

\* What there is to learn: a resource server that names no authorization server
\* leads to none.
Learnt ==
  LET resource == IF opts.target THEN site.facts \cap ResourceFacts ELSE {}
  IN IF opts.target /\ "prmServers" \notin site.facts THEN resource
     ELSE resource \cup {"issuer"} \cup (site.facts \cap IssuerFacts)

Knowledge ==
  /\ creds \subseteq Holdings
  /\ plan.facts \subseteq Registered
  /\ site.sound /\ plan.registered => plan.facts = Registered
  /\ site.sound /\ "authCodeFlow" \in creds /\ "issAdvertised" \in site.facts => "issReturned" \in creds
  /\ site.sound /\ Discovered => disc = Learnt

\* One walk of a sound deployment.
LEMMA SoundWalks ==
  ASSUME site \in Deployments, site.sound, NEW walk \in Walks
  PROVE  /\ ~walk.nil /\ walk.facts = Learnt
         /\ Baseline \subseteq site.facts => walk.ok
<1>1. "asMetadata" \in site.facts \/ site.facts \cap IssuerFacts = {}
  BY DeploymentsAssumption
<1>2. \A r : \A w \in MetadataWalks(r) :
        /\ ~w.nil /\ w.facts = r \cup {"issuer"} \cup (site.facts \cap IssuerFacts)
        /\ "asMetadata" \in site.facts => w.ok
  BY <1>1 DEF MetadataWalks, Walk
<1>3. "prmServers" \in ResourceFacts /\ {"prmServers", "asMetadata"} \subseteq Baseline
  BY DEF ResourceFacts, Baseline
<1>4. CASE ~opts.target
  <2>1. walk \in MetadataWalks({})
    BY <1>4 DEF Walks
  <2>2. Learnt = {} \cup {"issuer"} \cup (site.facts \cap IssuerFacts)
    BY <1>4 DEF Learnt
  <2> QED
    BY <1>2, <1>3, <2>1, <2>2
<1>5. CASE opts.target
  <2>1. walk \in ResourceWalks(site.facts \cap ResourceFacts)
    BY <1>5 DEF Walks
  <2>2. CASE "prmServers" \in site.facts
    <3>1. walk \in MetadataWalks(site.facts \cap ResourceFacts)
      BY <1>3, <2>1, <2>2 DEF ResourceWalks
    <3>2. Learnt = (site.facts \cap ResourceFacts) \cup {"issuer"} \cup (site.facts \cap IssuerFacts)
      BY <1>5, <2>2 DEF Learnt
    <3> QED
      BY <1>2, <1>3, <3>1, <3>2
  <2>3. CASE "prmServers" \notin site.facts
    <3>1. walk = Walk(FALSE, site.facts \cap ResourceFacts)
      BY <2>1, <2>3 DEF ResourceWalks
    <3>2. Learnt = site.facts \cap ResourceFacts
      BY <1>5, <2>3 DEF Learnt
    <3> QED
      BY <1>3, <2>3, <3>1, <3>2 DEF Walk
  <2> QED
    BY <2>2, <2>3
<1> QED
  BY <1>4, <1>5, InvocationsAssumption DEF InvocationType

LEMMA KnowledgeInit == Init => Knowledge
<1> SUFFICES ASSUME Init PROVE Knowledge
  OBVIOUS
<1>1. creds \subseteq {"subjectToken", "actorToken"} /\ plan = NoPlan /\ ~Discovered
  BY DEF Init, Discovered
<1>2. "authCodeFlow" \notin creds /\ creds \subseteq Holdings
  BY <1>1 DEF Holdings
<1> QED
  BY <1>1, <1>2 DEF Knowledge, NoPlan

LEMMA InputsKept == [Next]_vars => UNCHANGED inputs
BY DEF Next, Program, Person, vars, inputs, RejectFlags, AcceptFlags, PreDiscover, ListenFails,
     NoRegistration, Register, RegistrationFails, Discover, ReportRefusal, RunCheck, RunRevocation,
     EndChecks, RejectModel, AttachVerdicts, Finish, WriteFails, CleanUp, LoginSucceeds, LoginFails,
     StepUp, Interrupt

LEMMA KnowledgeStep == Knowledge /\ TypeOK /\ [Next]_vars => Knowledge'
<1> SUFFICES ASSUME Knowledge, TypeOK, [Next]_vars PROVE Knowledge'
  OBVIOUS
<1>0. UNCHANGED <<opts, site>> /\ Learnt' = Learnt
  BY InputsKept DEF Learnt, inputs
<1>1. ASSUME UNCHANGED <<disc, plan, creds>>, Discovered' => Discovered PROVE Knowledge'
  BY <1>0, <1>1 DEF Knowledge
<1>2. CASE RejectFlags \/ AcceptFlags \/ ListenFails \/ ReportRefusal \/ LoginFails
  BY <1>1, <1>2 DEF RejectFlags, AcceptFlags, ListenFails, ReportRefusal, LoginFails, Quit, Return,
       Discovered, inputs
<1>3. CASE PreDiscover \/ Discover
  <2>1. UNCHANGED <<plan, creds>> /\ \E walk \in Walks : Learn(walk)
    BY <1>3 DEF PreDiscover, Discover
  <2>2. site.sound => disc' = Learnt
    BY <2>1, SoundWalks DEF Learn, TypeOK
  <2> QED
    BY <1>0, <2>1, <2>2 DEF Knowledge
<1>4. CASE NoRegistration \/ RegistrationFails
  <2>1. UNCHANGED <<disc, creds>> /\ plan'.facts = {} /\ ~plan'.registered
    BY <1>4 DEF NoRegistration, RegistrationFails, NoPlan
  <2>2. Discovered' => Discovered
    BY <1>0, <1>4 DEF NoRegistration, RegistrationFails, MayRegister, AfterResolve, Discovered
  <2> QED
    BY <1>0, <2>1, <2>2 DEF Knowledge
<1>5. CASE Register
  <2>1. UNCHANGED <<disc, creds>>
    BY <1>5 DEF Register
  <2>2. plan'.facts \subseteq Registered /\ (site.sound => plan'.facts = Registered)
    BY <1>5 DEF Register, Registered
  <2>3. Discovered' => Discovered
    BY <1>0, <1>5 DEF Register, MayRegister, AfterResolve, Discovered
  <2> QED
    BY <1>0, <2>1, <2>2, <2>3 DEF Knowledge
<1>6. CASE LoginSucceeds
  <2>1. PICK got \in SUBSET {"refreshToken", "twoScopes", "issReturned"} :
          /\ site.sound => ("issReturned" \in got <=> "issAdvertised" \in site.facts)
          /\ creds' = creds \cup {"subjectToken", "authCodeFlow"} \cup got
    BY <1>6 DEF LoginSucceeds
  <2>2. creds' \subseteq Holdings
    BY <2>1 DEF Knowledge, Holdings
  <2>3. UNCHANGED <<disc, plan>> /\ ~Discovered'
    BY <1>6 DEF LoginSucceeds, Discovered, Knowledge
  <2> QED
    BY <1>0, <2>1, <2>2, <2>3 DEF Knowledge
<1>7. CASE StepUp
  <2>1. creds \subseteq creds' /\ creds' \subseteq creds \cup {"stepUp", "scopeAccumulated"}
    BY <1>7 DEF StepUp
  <2>2. creds' \subseteq Holdings /\ ("authCodeFlow" \in creds' => "authCodeFlow" \in creds)
    BY <2>1 DEF Knowledge, Holdings
  <2>3. UNCHANGED <<disc, plan>> /\ ~Discovered'
    BY <1>7 DEF StepUp, Discovered
  <2> QED
    BY <1>0, <2>1, <2>2, <2>3 DEF Knowledge
<1>8. CASE RunCheck \/ RunRevocation \/ EndChecks \/ RejectModel \/ AttachVerdicts \/ Finish
             \/ WriteFails \/ CleanUp \/ Interrupt
  BY <1>1, <1>8 DEF RunCheck, RunRevocation, EndChecks, RejectModel, AttachVerdicts, Finish, WriteFails,
       CleanUp, Interrupt, Return, Discovered
<1>9. CASE UNCHANGED vars
  BY <1>1, <1>9 DEF vars, Discovered
<1> QED
  BY <1>2, <1>3, <1>4, <1>5, <1>6, <1>7, <1>8, <1>9 DEF Next, Program, Person

LEMMA KnowledgeAlways == Spec => []Knowledge
<1> QED
  BY KnowledgeInit, KnowledgeStep, Typing, PTL DEF Spec

----------------------------------------------------------------------------
(***************************************************************************)
(* Gates about the server.  Whether one holds depends on nothing the       *)
(* operator brings, and what precedes it asks at most for a resource       *)
(* server to test.                                                         *)
(***************************************************************************)
ServerFacts == ResourceFacts \cup IssuerFacts \cup {"issuer"}
ServerGates == ResourceGates \cup IssuerGates

\* A gate about the server looks at nothing else.
LEMMA ServerGate ==
  ASSUME NEW g \in ServerGates, NEW s, NEW t, s \cap ServerFacts = t \cap ServerFacts
  PROVE  GateHolds(g, s) <=> GateHolds(g, t)
<1>1. CASE g = "anyScopeSource"
  <2>1. {"challenge", "prm"} \subseteq ServerFacts
    BY DEF ServerFacts, ResourceFacts
  <2> QED
    BY <1>1, <2>1 DEF GateHolds
<1>2. CASE g # "anyScopeSource"
  <2>1. g \in ServerFacts
    BY <1>2 DEF ServerGates, ServerFacts, ResourceGates, IssuerGates
  <2>2. g \notin {"clientCredentialsGrant", "introspectionForRevocation", "tokenSource", "anyScopeSource"}
    BY <2>1 DEF ServerFacts, ResourceFacts, IssuerFacts
  <2>3. \A r : GateHolds(g, r) <=> g \in r
    BY <2>2 DEF GateHolds
  <2> QED
    BY <2>1, <2>3
<1> QED
  BY <1>1, <1>2


\* Server facts reach a run through its walk, and no other way.
LEMMA OnlyRunFactsAdded ==
  ASSUME Knowledge
  PROVE  View \cap ServerFacts = disc \cap ServerFacts
<1>1. \A f \in RunFacts : f \notin ServerFacts
  BY DEF RunFacts, ServerFacts, ResourceFacts, IssuerFacts
<1>2. creds \subseteq RunFacts /\ plan.facts \subseteq RunFacts
      /\ {"mcpTarget", "presentEnabled", "client", "registered"} \subseteq RunFacts
  BY DEF Knowledge, Holdings, Registered, RunFacts
<1>3. View \subseteq disc \cup RunFacts /\ disc \subseteq View
  BY <1>2 DEF View
<1> QED
  BY <1>1, <1>3

\* Where there is a resource server under test, a sound run sees of the servers what
\* an operator with every credential would see.
LEMMA SeesWhatIsOffered ==
  ASSUME Knowledge, Discovered, site \in Deployments, site.sound
  PROVE  /\ opts.target => View \cap ServerFacts = Offered \cap ServerFacts
         /\ View \cap (IssuerFacts \cup {"issuer"}) = Offered \cap (IssuerFacts \cup {"issuer"})
<1>1. site.facts \subseteq ResourceFacts \cup IssuerFacts
  BY DeploymentsAssumption DEF DeploymentType
<1>2. /\ RunFacts \cap ServerFacts = {}
      /\ ResourceFacts \cap (IssuerFacts \cup {"issuer"}) = {}
  BY DEF RunFacts, ServerFacts, ResourceFacts, IssuerFacts
<1>3. disc = Learnt
  BY DEF Knowledge
<1>4. View \cap ServerFacts = disc \cap ServerFacts
  BY OnlyRunFactsAdded
<1>5. CASE opts.target /\ "prmServers" \notin site.facts
  <2>1. disc = site.facts \cap ResourceFacts /\ Offered = RunFacts \cup (site.facts \cap ResourceFacts)
    BY <1>3, <1>5 DEF Learnt, Offered
  <2>2. disc \cap ServerFacts = Offered \cap ServerFacts
    BY <1>2, <2>1
  <2> QED
    BY <1>4, <2>2 DEF ServerFacts
<1>6. CASE opts.target /\ "prmServers" \in site.facts
  <2>1. disc = (site.facts \cap ResourceFacts) \cup {"issuer"} \cup (site.facts \cap IssuerFacts)
        /\ Offered = RunFacts \cup site.facts \cup {"issuer"}
    BY <1>3, <1>6 DEF Learnt, Offered
  <2>2. disc \cap ServerFacts = Offered \cap ServerFacts
    BY <1>1, <1>2, <2>1
  <2> QED
    BY <1>4, <2>2 DEF ServerFacts
<1>7. CASE ~opts.target
  <2>1. disc = {"issuer"} \cup (site.facts \cap IssuerFacts) /\ Offered = RunFacts \cup site.facts \cup {"issuer"}
    BY <1>3, <1>7 DEF Learnt, Offered
  <2>2. disc \cap (IssuerFacts \cup {"issuer"}) = Offered \cap (IssuerFacts \cup {"issuer"})
    BY <1>1, <1>2, <2>1 DEF ServerFacts
  <2> QED
    BY <1>4, <1>7, <2>2 DEF ServerFacts
<1> QED
  BY <1>5, <1>6, <1>7

\* What a row may say of a server: "unsupported" only if it is, and "unsupported" if
\* it is.
Fair(c, said, target, offered) ==
  /\ said = "unsupported" => FirstUnmet(c.gates, offered) # 0
  /\ target /\ (\E g \in ToSet(c.gates) \ OperatorGates : ~GateHolds(g, offered)) => said = "unsupported"

\* The gate for a resource server under test.
LEMMA TargetGate ==
  ASSUME Knowledge, Discovered, site.sound
  PROVE  GateHolds("mcpTarget", View) <=> opts.target
<1>1. GateHolds("mcpTarget", View) <=> "mcpTarget" \in View
  BY DEF GateHolds
<1>2. "mcpTarget" \notin Holdings /\ "mcpTarget" \notin Registered
  BY DEF Holdings, Registered
<1>3. "mcpTarget" \notin ServerFacts
  BY DEF ServerFacts, ResourceFacts, IssuerFacts
<1>4. disc \subseteq ServerFacts
  BY DEF Knowledge, Learnt, ServerFacts
<1> QED
  BY <1>1, <1>2, <1>3, <1>4 DEF View, Knowledge

LEMMA FairAnswers ==
  ASSUME Knowledge, TypeOK, Discovered, site.sound, NEW i \in DOMAIN Registry, NEW o \in SoundAnswers(Registry[i])
  PROVE  Fair(Registry[i], o, opts.target, Offered)
<1> DEFINE c == Registry[i]
           unmet == FirstUnmet(c.gates, View)
<1>0. c \in CheckType
  BY RegistryAssumption
<1>1. c.gates \in Seq(STRING)
  BY <1>0 DEF CheckType
<1>2. site \in Deployments
  BY DEF TypeOK
<1>4. /\ unmet = 0 => \A j \in DOMAIN c.gates : GateHolds(c.gates[j], View)
      /\ unmet # 0 => /\ unmet \in DOMAIN c.gates /\ ~GateHolds(c.gates[unmet], View)
                      /\ \A j \in 1..(unmet - 1) : GateHolds(c.gates[j], View)
  BY <1>1, LeastUnmet
<1>5. \A k \in DOMAIN c.gates : c.gates[k] \notin OperatorGates =>
        /\ c.gates[k] \in ServerGates
        /\ \A j \in 1..(k - 1) : c.gates[j] \in OperatorGates => c.gates[j] = "mcpTarget"
        /\ c.gates[k] \in ResourceGates => \E j \in 1..(k - 1) : c.gates[j] = "mcpTarget"
  BY GatesAssumption DEF ServerGates
<1>6. unmet # 0 => Evaluate(c, View) = {SkipKind(c.gates[unmet])}
  BY DEF Evaluate
<1>7. ASSUME o = "unsupported" PROVE FirstUnmet(c.gates, Offered) # 0
  <2>1. o \in Evaluate(c, View) /\ "pass" \notin Evaluate(c, View)
    BY <1>7 DEF SoundAnswers
  <2>2. unmet # 0
    <3>1. unmet = 0 => Evaluate(c, View) = RunOutcomes(c, View)
      BY DEF Evaluate
    <3>2. "unsupported" \in RunOutcomes(c, View) => "pass" \in RunOutcomes(c, View)
      BY OutcomesAssumption DEF RunOutcomes
    <3> QED
      BY <1>7, <2>1, <3>1, <3>2
  <2>3. c.gates[unmet] \notin OperatorGates
    BY <1>6, <1>7, <2>1, <2>2 DEF SkipKind
  <2>4. c.gates[unmet] \in ServerGates
    BY <1>4, <1>5, <2>2, <2>3
  <2>5. ~GateHolds(c.gates[unmet], Offered)
    <3>1. CASE c.gates[unmet] \in ResourceGates
      <4>1. \E j \in 1..(unmet - 1) : c.gates[j] = "mcpTarget"
        BY <1>4, <1>5, <2>2, <2>3, <3>1
      <4>2. opts.target
        BY <1>4, <2>2, <4>1, TargetGate
      <4> QED
        BY <1>2, <1>4, <2>2, <2>4, <4>2, SeesWhatIsOffered, ServerGate
    <3>2. CASE c.gates[unmet] \in IssuerGates
      <4>1. \A s : GateHolds(c.gates[unmet], s) <=> c.gates[unmet] \in s
        <5>1. c.gates[unmet] \notin {"clientCredentialsGrant", "introspectionForRevocation",
                                     "tokenSource", "anyScopeSource"}
          BY <3>2 DEF IssuerGates, IssuerFacts
        <5> QED
          BY <5>1 DEF GateHolds
      <4> QED
        BY <1>2, <1>4, <2>2, <3>2, <4>1, SeesWhatIsOffered DEF IssuerGates
    <3> QED
      BY <2>4, <3>1, <3>2 DEF ServerGates
  <2> QED
    BY <1>1, <1>4, <2>2, <2>5, LeastUnmet
<1>8. ASSUME opts.target, NEW g \in ToSet(c.gates) \ OperatorGates, ~GateHolds(g, Offered)
      PROVE  o = "unsupported"
  <2>1. PICK k \in DOMAIN c.gates : g = c.gates[k]
    BY DEF ToSet
  <2>2. ~GateHolds(c.gates[k], View)
    BY <1>2, <1>5, <1>8, <2>1, SeesWhatIsOffered, ServerGate
  <2>3. unmet # 0 /\ unmet \in DOMAIN c.gates /\ ~GateHolds(c.gates[unmet], View)
    BY <1>4, <2>2
  <2>4. unmet = k \/ unmet \in 1..(k - 1)
    BY <1>1, <1>4, <2>2, <2>3
  <2>5. c.gates[unmet] \notin OperatorGates
    <3>1. GateHolds("mcpTarget", View)
      BY <1>8, TargetGate
    <3> QED
      BY <1>5, <1>8, <2>1, <2>3, <2>4, <3>1
  <2>6. Evaluate(c, View) = {"unsupported"}
    BY <1>6, <2>3, <2>5 DEF SkipKind
  <2> QED
    BY <2>6 DEF SoundAnswers
<1> QED
  BY <1>7, <1>8 DEF Fair


\* The rows of the checks so far, after the ones the prelude wrote.
RowsFair ==
  site.sound /\ pc \in {"checks", "verdicts"} =>
    LET before == Len(entries) - (next - 1)
    IN /\ before \in Nat
       /\ \A i \in 1..(next - 1) : Fair(Registry[i], entries[before + i].outcome, opts.target, Offered)

LEMMA RowsFairStep ==
  RowsFair /\ Knowledge /\ Bookkeeping /\ TypeOK /\ TypeOK' /\ [Next]_vars => RowsFair'
<1> SUFFICES ASSUME RowsFair, Knowledge, Bookkeeping, TypeOK, TypeOK', [Next]_vars,
                    site.sound, pc' \in {"checks", "verdicts"}
             PROVE  RowsFair'
  BY InputsKept DEF RowsFair, inputs
<1>0. /\ UNCHANGED <<opts, site>> /\ Offered' = Offered
      /\ next \in Nat /\ entries \in Seq(RowType) /\ entries' \in Seq(RowType)
      /\ Len(entries) \in Nat /\ Len(entries') \in Nat
  BY InputsKept, RegistryAssumption DEF inputs, Offered, TypeOK
<1>1. CASE UNCHANGED <<entries, next>> /\ pc \in {"checks", "verdicts"}
  BY <1>0, <1>1 DEF RowsFair
<1>2. CASE ReportRefusal
  BY <1>0, <1>2 DEF ReportRefusal, Bookkeeping, RowsFair
<1>3. CASE RunCheck \/ RunRevocation
  <2>1. /\ pc = "checks" /\ next \in DOMAIN Registry /\ RecordRow(Registry[next])
        /\ next' = next + 1
    BY <1>3, RegistryAssumption DEF RunCheck, RunRevocation, TypeOK
  <2>2. PICK o \in SoundAnswers(Registry[next]) : entries' = Append(entries, Entry(Registry[next], o))
    BY <1>0, <2>1 DEF RecordRow
  <2>3. Fair(Registry[next], o, opts.target, Offered)
    BY <1>0, <2>1, FairAnswers DEF Discovered
  <2>4. Entry(Registry[next], o).outcome = o
    BY DEF Entry
  <2> DEFINE before == Len(entries) - (next - 1)
             before_ == Len(entries') - (next' - 1)
  <2>5. before_ = before /\ before \in Nat /\ Len(entries') = Len(entries) + 1
    BY <1>0, <2>1, <2>2 DEF RowsFair
  <2>6. ASSUME NEW i \in 1..(next' - 1) PROVE Fair(Registry[i], entries'[before + i].outcome, opts.target, Offered)
    <3>1. CASE i = next
      <4>1. before + i = Len(entries) + 1
        BY <1>0, <3>1
      <4> QED
        BY <1>0, <2>2, <2>3, <2>4, <3>1, <4>1, RowsStay
    <3>2. CASE i \in 1..(next - 1)
      <4>1. before + i \in DOMAIN entries
        BY <1>0, <2>5, <3>2
      <4>2. entries'[before + i] = entries[before + i]
        BY <1>0, <2>2, <4>1, RowsStay
      <4> QED
        BY <1>0, <2>1, <3>2, <4>2 DEF RowsFair
    <3> QED
      BY <1>0, <2>1, <3>1, <3>2
  <2> HIDE DEF before, before_
  <2>7. \A i \in 1..(next' - 1) :
          Fair(Registry[i], entries'[before_ + i].outcome, opts'.target, Offered')
    BY <1>0, <2>5, <2>6
  <2> QED
    BY <2>5, <2>7 DEF before_, RowsFair
<1>4. CASE EndChecks
  BY <1>1, <1>4 DEF EndChecks
<1>5. CASE RejectFlags \/ AcceptFlags \/ PreDiscover \/ ListenFails \/ NoRegistration \/ Register
             \/ RegistrationFails \/ LoginSucceeds \/ LoginFails \/ StepUp \/ Discover
  BY <1>5 DEF RejectFlags, AcceptFlags, PreDiscover, ListenFails, NoRegistration, Register,
       RegistrationFails, LoginSucceeds, LoginFails, StepUp, Discover, AfterResolve, Quit, Return
<1>6. CASE RejectModel \/ AttachVerdicts \/ Finish \/ WriteFails \/ CleanUp \/ Interrupt
  BY <1>6 DEF RejectModel, AttachVerdicts, Finish, WriteFails, CleanUp, Interrupt, Return
<1>7. CASE UNCHANGED vars
  BY <1>1, <1>7 DEF vars
<1> QED
  BY <1>2, <1>3, <1>4, <1>5, <1>6, <1>7 DEF Next, Program, Person

LEMMA RowsFairAlways == Spec => []RowsFair
<1>1. Init => RowsFair
  BY DEF Init, RowsFair
<1> QED
  BY <1>1, RowsFairStep, KnowledgeAlways, BookkeepingInit, BookkeepingStep, Typing, PTL DEF Spec

\* When the last check is done, the rows pair with the checks.
LEMMA JudgedFairly ==
  ASSUME RowsFair, Bookkeeping, TypeOK, site.sound, NEW row \in Judged
  PROVE  Fair(row[1], row[2], opts.target, Offered)
<1>1. pc = "verdicts" /\ next = Len(Registry) + 1 /\ Len(Registry) \in Nat /\ DOMAIN Registry = 1..Len(Registry)
  BY RegistryAssumption DEF Judged, Bookkeeping
<1>2. next - 1 = Len(Registry)
  BY <1>1
<1>3. PICK i \in DOMAIN Registry :
        row = <<Registry[i], entries[(Len(entries) - Len(Registry)) + i].outcome>>
  BY <1>1 DEF Judged
<1> QED
  BY <1>1, <1>2, <1>3 DEF RowsFair

\* "Not supported" is an answer about the server: on a sound deployment the row of a
\* check says so only where the server lacks what one of its gates asks for, never
\* for want of a flag or a credential (check.go:44-82, gates.go).
THEOREM UnsupportedIsEarned == Spec => []UnsupportedIsAboutTheServer
<1>1. RowsFair /\ Bookkeeping /\ TypeOK => UnsupportedIsAboutTheServer
  BY JudgedFairly DEF UnsupportedIsAboutTheServer, Fair
<1> QED
  BY <1>1, RowsFairAlways, BookkeepingInit, BookkeepingStep, Typing, PTL DEF Spec

\* And it does say so whenever the server under test lacks it, whatever the operator
\* withholds besides: the gates about the server come first (check.go:79-82).
THEOREM AbsenceIsReported == Spec => []AbsentCapabilityIsSaid
<1>1. RowsFair /\ Bookkeeping /\ TypeOK => AbsentCapabilityIsSaid
  BY JudgedFairly DEF AbsentCapabilityIsSaid, Fair
<1> QED
  BY <1>1, RowsFairAlways, BookkeepingInit, BookkeepingStep, Typing, PTL DEF Spec


----------------------------------------------------------------------------
(***************************************************************************)
(* No false alarm.  A sound deployment with the baseline is failed by no   *)
(* MUST row: what a MUST judges from a document is there or its gates keep *)
(* it off, and no MUST is tried with a token that is already revoked.      *)
(***************************************************************************)
FailsMust(row) == row.sev = "MUST" /\ row.outcome \in {"fail", "error"}

Blameless ==
  /\ subject = "dead" => \E j \in 1..(next - 1) : Registry[j].id = Revocation
  /\ site.sound /\ Baseline \subseteq site.facts => \A i \in DOMAIN entries : ~FailsMust(entries[i])
  /\ written => exit = ExitCode(entries, opts.strict)

\* What a MUST judges without a request is there whenever its gates let it through.
LEMMA RequirementsMet ==
  ASSUME Knowledge, TypeOK, Discovered, site.sound, Baseline \subseteq site.facts,
         NEW i \in DOMAIN Registry, Registry[i].sev = "MUST", Registry[i].may = {},
         \A j \in DOMAIN Registry[i].gates : GateHolds(Registry[i].gates[j], View)
  PROVE  Registry[i].judges \subseteq View
<1> DEFINE judges == Registry[i].judges
           asked  == ToSet(Registry[i].gates)
<1>1. \A g \in asked : GateHolds(g, View)
  BY DEF ToSet
<1>2. \/ judges \subseteq Baseline \cap IssuerFacts
      \/ judges \subseteq Baseline /\ "mcpTarget" \in asked
      \/ judges \subseteq {"applicationTypeKept", "issuerBound"} /\ "registered" \in asked
      \/ judges \subseteq {"issReturned"} /\ {"issAdvertised", "authCodeFlow"} \subseteq asked
  BY RequirementsAssumption
<1>3. disc = Learnt /\ disc \subseteq View /\ creds \subseteq View /\ plan.facts \subseteq View
  BY DEF Knowledge, View
<1>4. "prmServers" \in site.facts /\ Baseline \subseteq ResourceFacts \cup IssuerFacts
  BY DEF Baseline, ResourceFacts, IssuerFacts
<1>5. site.facts \cap IssuerFacts \subseteq View
  BY <1>3, <1>4 DEF Learnt
<1>6. CASE judges \subseteq Baseline \cap IssuerFacts
  BY <1>5, <1>6
<1>7. CASE judges \subseteq Baseline /\ "mcpTarget" \in asked
  <2>1. opts.target
    BY <1>1, <1>7, TargetGate
  <2>2. site.facts \cap ResourceFacts \subseteq View
    BY <1>3, <1>4, <2>1 DEF Learnt
  <2> QED
    BY <1>4, <1>5, <1>7, <2>2
<1>8. CASE judges \subseteq {"applicationTypeKept", "issuerBound"} /\ "registered" \in asked
  <2>1. "registered" \in View
    BY <1>1, <1>8 DEF GateHolds
  <2>2. "registered" \notin Holdings /\ "registered" \notin Registered /\ "registered" \notin Learnt
    BY DEF Holdings, Registered, Learnt, ResourceFacts, IssuerFacts
  <2>3. plan.registered
    BY <1>3, <2>1, <2>2 DEF View, Knowledge
  <2> QED
    BY <1>3, <1>8, <2>3 DEF Knowledge, Registered
<1>9. CASE judges \subseteq {"issReturned"} /\ {"issAdvertised", "authCodeFlow"} \subseteq asked
  <2>1. "issAdvertised" \in View /\ "authCodeFlow" \in View
    BY <1>1, <1>9 DEF GateHolds
  <2>2. "issAdvertised" \in ServerFacts /\ "issAdvertised" \notin ResourceFacts
        /\ "authCodeFlow" \notin Learnt /\ "authCodeFlow" \notin Registered
    BY DEF ServerFacts, IssuerFacts, ResourceFacts, Learnt, Registered
  <2>3. "issAdvertised" \in disc
    BY <2>1, <2>2, OnlyRunFactsAdded
  <2>4. "issAdvertised" \in site.facts
    BY <1>3, <2>2, <2>3 DEF Learnt
  <2>5. "authCodeFlow" \in creds
    BY <1>3, <2>1, <2>2 DEF View, Knowledge
  <2> QED
    BY <1>3, <1>9, <2>4, <2>5 DEF Knowledge
<1> QED
  BY <1>2, <1>6, <1>7, <1>8, <1>9

LEMMA BlamelessAnswers ==
  ASSUME Knowledge, Blameless, TypeOK, Discovered, site.sound, Baseline \subseteq site.facts,
         next \in DOMAIN Registry, Registry[next].sev = "MUST", NEW o \in SoundAnswers(Registry[next])
  PROVE  o \notin {"fail", "error"}
<1> DEFINE c == Registry[next]
           may == Evaluate(c, View)
<1>0. c \in CheckType
  BY RegistryAssumption
<1>1. c.gates \in Seq(STRING)
  BY <1>0 DEF CheckType
<1>2. CASE "pass" \in may
  <2>1. ~(c.id \in SubjectTokenRows /\ subject = "dead")
    <3> SUFFICES ASSUME c.id \in SubjectTokenRows, subject = "dead" PROVE FALSE
      OBVIOUS
    <3>1. PICK j \in 1..(next - 1) : Registry[j].id = Revocation
      BY DEF Blameless
    <3>2. j \in DOMAIN Registry /\ j < next
      BY <3>1, RegistryAssumption
    <3> QED
      BY <3>1, <3>2, OrderAssumption
  <2> QED
    BY <1>2, <2>1 DEF SoundAnswers
<1>3. CASE "pass" \notin may
  <2>1. o \in may
    BY <1>3 DEF SoundAnswers
  <2>2. CASE FirstUnmet(c.gates, View) # 0
    BY <2>1, <2>2 DEF Evaluate, SkipKind
  <2>3. CASE FirstUnmet(c.gates, View) = 0
    <3>1. o \in RunOutcomes(c, View) /\ "pass" \notin RunOutcomes(c, View)
      BY <1>3, <2>1, <2>3 DEF Evaluate
    <3>2. CASE c.may # {}
      BY <3>1, <3>2, OutcomesAssumption DEF RunOutcomes
    <3>3. CASE c.may = {}
      <4>1. c.judges \subseteq View
        BY <1>1, <2>3, <3>3, LeastUnmet, RequirementsMet
      <4> QED
        BY <3>1, <3>3, <4>1 DEF RunOutcomes
    <3> QED
      BY <3>2, <3>3
  <2> QED
    BY <2>2, <2>3
<1> QED
  BY <1>2, <1>3

\* A row more that fails no MUST.
LEMMA BlamelessGrows ==
  ASSUME Blameless, NEW row, entries \in Seq(RowType), entries' = Append(entries, row), entries' \in Seq(RowType),
         UNCHANGED <<opts, site>>, ~written', next \in Nat \ {0}, next' \in {next, next + 1},
         subject' = "dead" => subject = "dead" \/ (next' = next + 1 /\ Registry[next].id = Revocation),
         site.sound /\ Baseline \subseteq site.facts => ~FailsMust(row)
  PROVE  Blameless'
<1>1. \A i \in DOMAIN entries' : entries'[i] = row \/ (i \in DOMAIN entries /\ entries'[i] = entries[i])
  BY RowsStay
<1>2. site.sound /\ Baseline \subseteq site.facts => \A i \in DOMAIN entries' : ~FailsMust(entries'[i])
  BY <1>1 DEF Blameless
<1>3. ASSUME subject' = "dead" PROVE \E j \in 1..(next' - 1) : Registry[j].id = Revocation
  <2>1. 1..(next - 1) \subseteq 1..(next' - 1)
    <3>1. CASE next' = next
      BY <3>1
    <3>2. CASE next' = next + 1
      BY <3>2
    <3> QED
      BY <3>1, <3>2
  <2>2. next' = next + 1 => next \in 1..(next' - 1)
    OBVIOUS
  <2> QED
    BY <1>3, <2>1, <2>2 DEF Blameless
<1> QED
  BY <1>2, <1>3 DEF Blameless

LEMMA BlamelessInit == Init => Blameless
<1> SUFFICES ASSUME Init PROVE Blameless
  OBVIOUS
<1>1. subject # "dead" /\ ~written /\ entries = <<>>
  BY DEF Init
<1>2. DOMAIN entries = {}
  BY <1>1
<1> QED
  BY <1>1, <1>2 DEF Blameless

LEMMA BlamelessStep ==
  Blameless /\ Knowledge /\ Bookkeeping /\ TypeOK /\ TypeOK' /\ [Next]_vars => Blameless'
<1> SUFFICES ASSUME Blameless, Knowledge, Bookkeeping, TypeOK, TypeOK', [Next]_vars PROVE Blameless'
  OBVIOUS
<1>0. /\ UNCHANGED <<opts, site>> /\ site \in Deployments
      /\ next \in Nat \ {0} /\ entries \in Seq(RowType) /\ entries' \in Seq(RowType)
  BY InputsKept, RegistryAssumption DEF inputs, TypeOK
<1>1. ASSUME UNCHANGED <<entries, next>>, subject' = "dead" => subject = "dead",
             written' => UNCHANGED <<written, exit>>
      PROVE  Blameless'
  BY <1>0, <1>1 DEF Blameless
<1>2. CASE RejectFlags \/ AcceptFlags \/ PreDiscover \/ ListenFails \/ NoRegistration \/ Register
             \/ RegistrationFails \/ LoginSucceeds \/ LoginFails \/ StepUp
  <2>1. ~written'
    BY <1>2 DEF Bookkeeping, RejectFlags, AcceptFlags, PreDiscover, ListenFails, NoRegistration, Register,
       RegistrationFails, MayRegister, LoginSucceeds, LoginFails, StepUp, Quit, Return, outcome
  <2> QED
    BY <1>1, <1>2, <2>1 DEF RejectFlags, AcceptFlags, PreDiscover, ListenFails, NoRegistration, Register,
       RegistrationFails, LoginSucceeds, LoginFails, StepUp, tokens
<1>3. CASE Discover
  <2>1. PICK walk \in Walks :
          Learn(walk) /\ entries' = IF walk.ok THEN entries ELSE Append(entries, DiscoveryFailed)
    BY <1>3 DEF Discover
  <2>2. UNCHANGED <<next, subject>> /\ ~written'
    BY <1>3 DEF Discover, Bookkeeping, tokens, outcome
  <2>3. CASE walk.ok
    BY <1>1, <2>1, <2>2, <2>3
  <2>4. CASE ~walk.ok
    BY <1>0, <2>1, <2>2, <2>4, SoundWalks, BlamelessGrows
  <2> QED
    BY <2>3, <2>4
<1>4. CASE ReportRefusal
  <2>1. UNCHANGED <<next, subject>> /\ ~written'
    BY <1>4 DEF ReportRefusal, Bookkeeping, tokens, outcome
  <2>2. ~FailsMust(RegistrationFailed)
    BY DEF FailsMust, RegistrationFailed
  <2>3. entries' = entries \/ entries' = Append(entries, RegistrationFailed)
    BY <1>4 DEF ReportRefusal
  <2> QED
    BY <1>0, <1>1, <2>1, <2>2, <2>3, BlamelessGrows
<1>5. CASE RunCheck \/ RunRevocation
  <2>1. /\ pc = "checks" /\ next \in DOMAIN Registry /\ RecordRow(Registry[next])
        /\ next' = next + 1 /\ ~written'
    BY <1>5, RegistryAssumption DEF RunCheck, RunRevocation, TypeOK, Bookkeeping, outcome
  <2>2. subject' = "dead" => subject = "dead" \/ Registry[next].id = Revocation
    BY <1>5 DEF RunCheck, RunRevocation, tokens
  <2>3. PICK o \in IF site.sound THEN SoundAnswers(Registry[next]) ELSE WildAnswers(Registry[next]) :
          entries' = Append(entries, Entry(Registry[next], o))
    BY <2>1 DEF RecordRow
  <2> DEFINE row == Entry(Registry[next], o)
  <2>4. row.sev = Registry[next].sev /\ row.outcome = o
    BY DEF Entry
  <2>5. site.sound /\ Baseline \subseteq site.facts => ~FailsMust(row)
    BY <2>1, <2>3, <2>4, BlamelessAnswers DEF FailsMust, Discovered
  <2> HIDE DEF row
  <2> QED
    BY <1>0, <2>1, <2>2, <2>3, <2>5, BlamelessGrows DEF row
<1>6. CASE EndChecks \/ RejectModel \/ AttachVerdicts \/ WriteFails
  <2>1. ~written'
    BY <1>6 DEF Bookkeeping, EndChecks, RejectModel, AttachVerdicts, WriteFails, Return, outcome
  <2> QED
    BY <1>1, <1>6, <2>1 DEF EndChecks, RejectModel, AttachVerdicts, WriteFails, tokens
<1>7. CASE Finish
  <2>1. /\ UNCHANGED <<subject, entries, next>> /\ exit' = ExitCode(entries, opts.strict)
    BY <1>7 DEF Finish, Return, tokens
  <2>2. ExitCode(entries, opts.strict)' = ExitCode(entries, opts.strict)
    BY <1>0, <2>1 DEF ExitCode, HasFailure
  <2> QED
    BY <1>0, <2>1, <2>2 DEF Blameless
<1>8. CASE CleanUp \/ Interrupt
  BY <1>1, <1>8 DEF CleanUp, Interrupt, tokens, outcome
<1>9. CASE UNCHANGED vars
  BY <1>1, <1>9 DEF vars
<1> QED
  BY <1>2, <1>3, <1>4, <1>5, <1>6, <1>7, <1>8, <1>9 DEF Next, Program, Person

LEMMA BlamelessIsNoAlarm == Blameless => NoFalseAlarm
<1> SUFFICES ASSUME Blameless, site.sound, Baseline \subseteq site.facts, written, ~opts.strict
             PROVE  exit = 0
  BY DEF NoFalseAlarm
<1>1. ~HasFailure(entries, "MUST")
  BY DEF Blameless, FailsMust, HasFailure
<1> QED
  BY <1>1 DEF Blameless, ExitCode

\* A sound deployment that offers what every MCP server must is never failed at MUST
\* level, whatever optional capability it lacks and whatever credential the operator
\* withholds (gates.go, check.go:92-98, main.finish).
THEOREM NoFalseAlarms == Spec => []NoFalseAlarm
<1> QED
  BY BlamelessIsNoAlarm, BlamelessInit, BlamelessStep, KnowledgeAlways, BookkeepingInit, BookkeepingStep, Typing, PTL
  DEF Spec

=============================================================================
