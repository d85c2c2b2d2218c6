----------------------------- MODULE ReportProps -----------------------------
(***************************************************************************)
(* What the verdicts, the capability matrix and the exit code of one       *)
(* report have to say to each other, and how they may move while rows come *)
(* in.                                                                     *)
(***************************************************************************)
EXTENDS Report

CONSTANTS
  Surfaces,       \* the client surfaces scored (conformance/model_profiles.yaml)
  Capabilities    \* the rows of the capability matrix, each a set of check ids

Mandatory(s) == {r \in ToSet(s.requires) : ~r.optional}
Labels       == UNION {UNION {r.anyOf : r \in ToSet(s.requires)} : s \in Surfaces}

\* Everything a reader is told beyond the rows themselves.
Conclusions(es) ==
  <<[label \in Labels |-> LabelOutcome(es, label).status],
    [s \in Surfaces |-> ModelVerdict(es, s)],
    [ids \in Capabilities |-> CapabilityState(es, ids)]>>

\* A row of the report: one of a selected check, or one of the two of Runner.Run.
RowType ==
  [id      : {Rows[i].id : i \in DOMAIN Rows} \cup {"discovery", "registration"},
   rfc     : {Rows[i].rfc : i \in DOMAIN Rows} \cup {"RFC 8414", "RFC 7591"},
   sev     : Severities,
   outcome : Outcomes]

\* The report holds rows of the selected checks and nothing else, the position is
\* one of the registry, the exit code one the process knows (Report, finish).
TypeOK ==
  /\ strict \in BOOLEAN
  /\ entries \in Seq(RowType)
  /\ next \in 1..(Len(Rows) + 1)
  /\ phase \in {"collecting", "published", "aborted"}
  /\ exit \in {NoExit, 0, 1, 2}

\* "No run is called not-aligned for want of a flag" (model_verdict.go:122-124):
\* a row that was not tested moves no label, no verdict and no matrix row.
UntestedSettlesNothing ==
  [][entries' # entries /\ Untested(Last(entries')) => Conclusions(entries') = Conclusions(entries)]_vars

\* A MUST-level shortfall disqualifies for good: whatever the later checks of the
\* same label find, a surface that requires that label is never aligned again.
DisqualifiedForGood ==
  [][\A s \in Surfaces : \A r \in Mandatory(s) :
       (\A label \in r.anyOf :
          \E i \in Labelled(entries, label) : Must(entries[i]) /\ Broken(entries[i]))
         => ModelVerdict(entries', s).verdict \in {"not-aligned", "n/a"}]_vars

\* An aligned surface has earned every mandatory requirement: one of its labels
\* passed some check and no MUST-level check of that label came out short.
AlignedIsEarned ==
  \A s \in Surfaces :
    ModelVerdict(entries, s).verdict = "aligned" =>
      \A r \in Mandatory(s) : \E label \in r.anyOf :
        /\ \E i \in Labelled(entries, label) : Passed(entries[i])
        /\ \A i \in Labelled(entries, label) : Must(entries[i]) => ~Broken(entries[i])

\* The conclusions weigh severities, not positions: reading the same rows in the
\* opposite order concludes the same.
OrderIrrelevant == Conclusions(Reverse(entries)) = Conclusions(entries)

\* The pipeline that gates on the exit code, the reader of the verdicts and the reader
\* of the matrix are told the same story of a MUST-level check that failed or erred: a
\* published report exits 1, calls no surface aligned that requires the label of the
\* row, and shows the capability the row is part of as not supported (main.go:247-262,
\* model_verdict.go:137-186, capabilities.go).
FatalRowsAreTold ==
  phase = "published" =>
    \A i \in DOMAIN entries : Must(entries[i]) /\ entries[i].outcome \in {"fail", "error"} =>
      /\ exit = 1
      /\ \A s \in Surfaces :
           (\E r \in Mandatory(s) : r.anyOf = {entries[i].rfc}) =>
             ModelVerdict(entries, s).verdict \in {"not-aligned", "n/a"}
      /\ \A ids \in Capabilities :
           entries[i].id \in ids => CapabilityState(entries, ids) = "not supported"

----------------------------------------------------------------------------
(***************************************************************************)
(* A statement of the README the verdicts do not keep.                     *)
(***************************************************************************)
\* "not-aligned: a mandatory requirement failed at MUST severity, or the server
\* genuinely does not offer a capability the surface requires" (README.md:249-250):
\* "only MUST-level evidence [...] can make a requirement unmet" (model_verdict.go:116-118).
OnlyMustDisqualifies ==
  phase = "published" =>
    \A s \in Surfaces : ModelVerdict(entries, s).verdict = "not-aligned" =>
      \E r \in Mandatory(s) : \A label \in r.anyOf : \E i \in Labelled(entries, label) :
        entries[i].outcome = "unsupported" \/ (Must(entries[i]) /\ Broken(entries[i]))
=============================================================================
