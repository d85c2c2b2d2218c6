------------------------------- MODULE Verdict -------------------------------
(***************************************************************************)
(* What a list of report entries adds up to: the evidence rule shared by   *)
(* the capability matrix and the agent-compatibility verdicts              *)
(* (conformance/model_verdict.go, conformance/capabilities.go), the        *)
(* per-status counts (conformance/report.go) and the exit code             *)
(* (cmd/aoa-conform/main.go).  Everything here is a function of the        *)
(* entries; nothing is stateful.                                           *)
(*                                                                         *)
(* An entry is a record [id, rfc, sev, outcome].  Status and SkipKind of   *)
(* the code are folded into one outcome: every code path that skips sets   *)
(* one of the two kinds.                                                   *)
(***************************************************************************)
EXTENDS SequencesExt

Severities == {"MUST", "SHOULD", "MAY"}
Outcomes   == {"pass", "fail", "error", "unsupported", "untested"}
Profiles   == {"core", "extended", "2026-07"}

Must(e)     == e.sev = "MUST"
Passed(e)   == e.outcome = "pass"
Untested(e) == e.outcome = "untested"

\* Mutant: forgets that an untested row is no answer.
AnyShortfall(e) == e.outcome # "pass"

\* A failed or errored entry, and also an absent capability: that too is an answer.
Broken(e) == e.outcome \in {"fail", "error", "unsupported"}

\* The two entries no check writes: Runner.Run adds them before the first check.
DiscoveryFailed    == [id |-> "discovery", rfc |-> "RFC 8414", sev |-> "MUST", outcome |-> "error"]
RegistrationFailed == [id |-> "registration", rfc |-> "RFC 7591", sev |-> "SHOULD", outcome |-> "error"]

----------------------------------------------------------------------------
(***************************************************************************)
(* weighEntries, over the rows of a report that some label or some group   *)
(* of check ids picks: rows is the set of their positions.  decidedBy is   *)
(* the position of the deciding entry, 0 when no entry matched (the nil    *)
(* pointer of the code).                                                   *)
(***************************************************************************)
Evidence(status, advisory, decidedBy) ==
  [status |-> status, advisory |-> advisory, decidedBy |-> decidedBy]

First(positions) == IF positions = {} THEN 0 ELSE Min(positions)

\* Mutants: the first row that answers settles it; a pass outweighs a shortfall.
FirstAnswerDecides(es, rows) ==
  LET answer == First({i \in rows : ~Untested(es[i])})
  IN IF answer = 0 THEN Evidence("indeterminate", FALSE, 0)
     ELSE Evidence(IF Passed(es[answer]) THEN "met" ELSE "unmet", FALSE, answer)

PassDecides(es, rows) ==
  LET pass   == First({i \in rows : Passed(es[i])})
      broken == First({i \in rows : Broken(es[i])})
  IN IF pass # 0 THEN Evidence("met", broken # 0, pass)
     ELSE Evidence(IF broken # 0 THEN "unmet" ELSE "indeterminate", FALSE, broken)

WeighEntries(es, rows) ==
  LET mustBroken     == First({i \in rows : Broken(es[i]) /\ Must(es[i])})
      advisoryBroken == First({i \in rows : Broken(es[i]) /\ ~Must(es[i])})
      firstPass      == First({i \in rows : Passed(es[i])})
      firstUntested  == First({i \in rows : Untested(es[i])})
  IN CASE mustBroken # 0     -> Evidence("unmet", FALSE, mustBroken)
       [] mustBroken = 0 /\ firstPass # 0
                             -> Evidence("met", advisoryBroken # 0, firstPass)
       [] mustBroken = 0 /\ firstPass = 0 /\ advisoryBroken # 0
                             -> Evidence("unmet", FALSE, advisoryBroken)
       [] OTHER              -> Evidence("indeterminate", FALSE, firstUntested)

----------------------------------------------------------------------------
(***************************************************************************)
(* The agent-compatibility verdict.  A surface is a record                 *)
(* [unscorable, requires], requires a sequence of [anyOf, optional].  A    *)
(* requirement with a single id is the any-of group of that one label: the *)
(* two branches of requirementOutcome agree there.                         *)
(***************************************************************************)
Labelled(es, label) == {i \in DOMAIN es : es[i].rfc = label}

LabelOutcome(es, label) == WeighEntries(es, Labelled(es, label))

RequirementOutcome(es, req) ==
  LET evidence == {LabelOutcome(es, label) : label \in req.anyOf}
      met      == {v \in evidence : v.status = "met"}
      status   == CASE met # {} -> "met"
                    [] met = {} /\ \A v \in evidence : v.status = "unmet" -> "unmet"
                    [] OTHER -> "indeterminate"
  IN [optional |-> req.optional,
      advisory |-> \E v \in met : v.advisory,
      status   |-> IF req.optional /\ status = "indeterminate" THEN "met" ELSE status]

\* EvaluateModels for one surface: the verdict, and how many requirements it
\* lists as caveats.
ModelVerdict(es, surface) ==
  LET outcomes  == {<<i, RequirementOutcome(es, surface.requires[i])>> :
                      i \in DOMAIN surface.requires}
      Mandatory(status) == \E o \in outcomes : ~o[2].optional /\ o[2].status = status
      caveats   == {o \in outcomes : \/ o[2].status = "met" /\ o[2].advisory
                                     \/ o[2].status = "unmet" /\ o[2].optional}
  IN CASE surface.unscorable             -> [verdict |-> "n/a", caveats |-> 0]
       [] ~surface.unscorable /\ surface.requires = <<>>
                                         -> [verdict |-> "aligned", caveats |-> 0]
       [] OTHER ->
            [verdict |-> IF Mandatory("unmet") THEN "not-aligned"
                         ELSE IF Mandatory("indeterminate") THEN "inconclusive"
                         ELSE "aligned",
             caveats |-> Cardinality(caveats)]

----------------------------------------------------------------------------
(***************************************************************************)
(* One row of the capability matrix.  capabilitySpecs binds a row to       *)
(* check-ID prefixes; here to the set of check ids with those prefixes.    *)
(***************************************************************************)
CapabilityState(es, ids) ==
  LET evidence == WeighEntries(es, {i \in DOMAIN es : es[i].id \in ids})
  IN CASE evidence.status = "met"   -> "supported"
       [] evidence.status = "unmet" -> "not supported"
       [] OTHER                     -> "not tested"

----------------------------------------------------------------------------
\* Summarize: how many entries came out this way.  Summary.Skip is the sum of
\* the two skip outcomes.
Count(es, outcome) == Len(SelectSeq(es, LAMBDA e : e.outcome = outcome))

\* Mutant: an errored probe is not fatal.
HasFailedCheck(es, sev) ==
  \E i \in DOMAIN es : es[i].sev = sev /\ es[i].outcome = "fail"

\* hasFailure: some check of this severity failed or errored.
HasFailure(es, sev) ==
  \E i \in DOMAIN es : es[i].sev = sev /\ es[i].outcome \in {"fail", "error"}

\* Mutant: the exit code counts the failures.
ExitCountsFailures(es, strict) ==
  IF strict THEN Count(es, "fail") + Count(es, "error") ELSE Count(es, "fail")

\* finish: the process exit code once the report has been written.
ExitCode(es, strict) ==
  IF HasFailure(es, "MUST") \/ (strict /\ HasFailure(es, "SHOULD")) THEN 1 ELSE 0
=============================================================================
