------------------------------ MODULE RunProps -------------------------------
(***************************************************************************)
(* What a run owes its operator, the deployment it probes and the reader   *)
(* of its report.                                                          *)
(***************************************************************************)
EXTENDS Run

Recorded == {entries[i].id : i \in DOMAIN entries}

\* A row of the report: one of a selected check, or a synthetic one of Runner.Run.
RowType ==
  [id      : {Registry[i].id : i \in DOMAIN Registry} \cup {"discovery", "registration"},
   rfc     : {Registry[i].rfc : i \in DOMAIN Registry} \cup {"RFC 8414", "RFC 7591"},
   sev     : Severities,
   outcome : Outcomes]

PlanType ==
  [client : BOOLEAN, registered : BOOLEAN, uri : BOOLEAN, regError : BOOLEAN, facts : SUBSET Facts]

\* What run() keeps has its type: known facts only, one client at most, and rows
\* of nothing but the selected checks (Report, Target, main.run).
TypeOK ==
  /\ opts \in Invocations /\ site \in Deployments
  /\ pc \in {"start", "prediscover", "resolve", "login", "stepup", "discover", "prelude",
             "checks", "verdicts", "finish", "cleanup", "done", "killed"}
  /\ disc \subseteq Facts /\ creds \subseteq Facts
  /\ plan \in PlanType
  /\ live \in 0..1
  /\ subject \in {"none", "active", "dead"} /\ refresh \in {"none", "active", "dead"}
  /\ entries \in Seq(RowType)
  /\ next \in 1..(Len(Registry) + 1)
  /\ written \in BOOLEAN /\ exit \in {NoExit, 0, 1, 2}

RegistryRows == [i \in DOMAIN Registry |-> RowOf(Registry[i])]

(***************************************************************************)
(* The run implements the abstract report: the rows, their order and the   *)
(* exit code are the ones Report promises, on every path through run().    *)
(***************************************************************************)
Promise == INSTANCE Report WITH
  Rows   <- RegistryRows,
  strict <- opts.strict,
  phase  <- IF written THEN "published" ELSE IF exit # NoExit THEN "aborted" ELSE "collecting"

ImplementsReport == Promise!Spec

----------------------------------------------------------------------------
\* The ephemeral client does not outlive the run: whichever way run() returns,
\* the client registered at a deployment that can delete it is deleted
\* (main.go:123-125, 188, cleanupRegistration).
NoOrphanClient ==
  (pc = "done" /\ site.sound /\ site.clientURI) => live = 0

\* One identity per run (AuthPlan): the run never registers a client beside the
\* operator's own, never more than one, and never acts as a client whose
\* registration it reports as failed.
OneIdentity ==
  /\ live = 1 => ~opts.clientID
  /\ plan.regError => ~plan.client /\ ~plan.registered
  /\ plan.registered => plan.client /\ ~opts.clientID

\* Exit code 0 is never silent: the caller that gates on it has a report with a
\* row for every selected check, from a run whose last discovery succeeded.
CleanExitIsComplete ==
  (exit = 0) =>
    /\ written
    /\ Ids(Registry) \subseteq Recorded
    /\ "discovery" \notin Recorded
    /\ "tokenEndpoint" \in disc

\* A sound deployment that meets what every MCP server must is never failed at
\* MUST level, whatever optional capabilities it lacks and whatever credentials
\* the operator withholds: the gates keep each check off what is not there.
NoFalseAlarm ==
  (site.sound /\ Baseline \subseteq site.facts /\ written /\ ~opts.strict) => exit = 0

\* A token lifecycle row fails on a sound deployment only because the run itself
\* revoked the token before that row, and said so.
FailsOnlyWhatItRevoked ==
  site.sound =>
    \A i \in DOMAIN entries :
      (entries[i].id \in SubjectTokenRows /\ entries[i].outcome = "fail") =>
        /\ subject = "dead"
        /\ \E j \in 1..(i - 1) : entries[j].id = Revocation /\ entries[j].outcome = "pass"

\* What a fully equipped operator would find: a resource server that names no
\* authorization server leads to none.
Offered ==
  RunFacts \cup (IF opts.target /\ "prmServers" \notin site.facts
                 THEN site.facts \cap ResourceFacts
                 ELSE site.facts \cup {"issuer"})

\* The finished rows, as pairs of a check and its outcome.
Judged ==
  IF pc # "verdicts" THEN {}
  ELSE LET before == Len(entries) - Len(Registry)
       IN {<<Registry[i], entries[before + i].outcome>> : i \in DOMAIN Registry}

\* "Not supported" is an answer about the server (README.md:131-133): on a sound
\* deployment the row misses something the server lacks, not something the
\* operator withheld.
UnsupportedIsAboutTheServer ==
  site.sound =>
    \A row \in Judged : row[2] = "unsupported" => FirstUnmet(row[1].gates, Offered) # 0

\* Gates are ordered capability-first (check.go:79-82): when a server under test
\* lacks what a check is about, the row says so even if the operator also
\* withheld a credential.
AbsentCapabilityIsSaid ==
  (site.sound /\ opts.target) =>
    \A row \in Judged :
      (\E g \in ToSet(row[1].gates) \ OperatorGates : ~GateHolds(g, Offered)) =>
        row[2] = "unsupported"

----------------------------------------------------------------------------
(***************************************************************************)
(* A statement of the README the program does not keep.                    *)
(***************************************************************************)
\* "pass: the behavior is present and correct" (README.md:287): a refresh passed
\* where the server had a refresh token to honour.
RefreshPassIsEarned ==
  site.sound =>
    \A i \in DOMAIN entries :
      (entries[i].id = RefreshScope /\ entries[i].outcome = "pass") => refresh = "active"
=============================================================================
