------------------------------- MODULE Report --------------------------------
(***************************************************************************)
(* What a run promises whoever reads its report: the abstract              *)
(* specification of conformance.Runner.Run and of the end of main.run.     *)
(*                                                                         *)
(* The report opens with the trouble that came before any check, carries   *)
(* one row per selected check in the order of the registry, and is either  *)
(* published whole with the exit code its rows call for, or not published  *)
(* at all and then the process fails.  How a check arrives at its outcome  *)
(* is left open: a row may publish any of its answers.                     *)
(***************************************************************************)
EXTENDS Verdict

CONSTANT Rows   \* the selected checks: a sequence of [id, rfc, sev, answers]

ASSUME RowsAssumption ==
  Rows \in Seq([id : STRING, rfc : STRING, sev : Severities, answers : SUBSET Outcomes])

VARIABLES
  strict,    \* --strict
  entries,   \* Report.Entries
  next,      \* the registry position of the next check
  phase,     \* "collecting", "published" or "aborted"
  exit       \* the process exit code, NoExit while it runs

vars == <<strict, entries, next, phase, exit>>

NoExit == -1

Row(i, outcome) == [id |-> Rows[i].id, rfc |-> Rows[i].rfc, sev |-> Rows[i].sev, outcome |-> outcome]

Init ==
  /\ strict \in BOOLEAN
  /\ entries = <<>>
  /\ next = 1
  /\ phase = "collecting"
  /\ exit = NoExit

\* The rows before the first check, in this order, each at most once.
Preludes == {<<>>, <<DiscoveryFailed>>, <<RegistrationFailed>>, <<DiscoveryFailed, RegistrationFailed>>}

OpenWithTrouble(row) ==
  /\ phase = "collecting" /\ next = 1
  /\ Append(entries, row) \in Preludes
  /\ entries' = Append(entries, row)
  /\ UNCHANGED <<strict, next, phase, exit>>

RecordRow ==
  /\ phase = "collecting" /\ next <= Len(Rows)
  /\ \E outcome \in Rows[next].answers : entries' = Append(entries, Row(next, outcome))
  /\ next' = next + 1
  /\ UNCHANGED <<strict, phase, exit>>

Publish ==
  /\ phase = "collecting" /\ next = Len(Rows) + 1
  /\ phase' = "published"
  /\ exit' = ExitCode(entries, strict)
  /\ UNCHANGED <<strict, entries, next>>

\* Usage errors, a failed login, an unwritable report: never between two checks.
Abort ==
  /\ phase = "collecting" /\ (entries = <<>> \/ next = Len(Rows) + 1)
  /\ phase' = "aborted"
  /\ exit' \in {1, 2}
  /\ UNCHANGED <<strict, entries, next>>

Next ==
  \/ OpenWithTrouble(DiscoveryFailed)
  \/ OpenWithTrouble(RegistrationFailed)
  \/ RecordRow
  \/ Publish
  \/ Abort

Spec == Init /\ [][Next]_vars
=============================================================================
