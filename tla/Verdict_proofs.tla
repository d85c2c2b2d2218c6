---------------------------- MODULE Verdict_proofs ----------------------------
(***************************************************************************)
(* Theorems about the evidence rule, for every list of rows: what a status *)
(* says about the rows behind it, which row decides, and what the rule and *)
(* the exit code have to say to each other.                                *)
(***************************************************************************)
EXTENDS Verdict, TLAPS, NaturalsInduction, WellFoundedInduction

\* Rows of checks with these ids, under these labels.
EntryType(ids, labels) == [id : ids, rfc : labels, sev : Severities, outcome : Outcomes]

\* Min, a CHOOSE, finds the least of any set of naturals.
LEMMA MinOfNats ==
  ASSUME NEW I \in SUBSET Nat, I # {}
  PROVE  Min(I) \in I /\ \A j \in I : Min(I) <= j
<1>1. PICK i \in I : \A j \in I : ~(<<j, i>> \in OpToRel(<, Nat))
  BY NatLessThanWellFounded, WFMin
<1>2. OpToRel(<, Nat) = {ss \in Nat \X Nat : ss[1] < ss[2]}
  BY Zenon DEF OpToRel
<1>3. \A j \in I : i <= j
  <2> SUFFICES ASSUME NEW j \in I, j < i PROVE FALSE
    OBVIOUS
  <2>1. <<j, i>> \in {ss \in Nat \X Nat : ss[1] < ss[2]}
    OBVIOUS
  <2> QED
    BY <1>1, <1>2, <2>1
<1> QED
  BY <1>3 DEF Min

\* First is a position of the set, and the least one, or 0 where there is none.
LEMMA FirstIsFirst ==
  ASSUME NEW n \in Nat, NEW I \in SUBSET (1..n)
  PROVE  /\ First(I) # 0 <=> I # {}
         /\ I # {} => First(I) \in I /\ \A j \in I : First(I) <= j
<1>1. I \in SUBSET Nat /\ 0 \notin I
  OBVIOUS
<1> QED
  BY <1>1, MinOfNats DEF First

----------------------------------------------------------------------------
(***************************************************************************)
(* The evidence rule.                                                      *)
(***************************************************************************)
SomeBroken(es, rows)     == \E i \in rows : Broken(es[i])
SomeMustBroken(es, rows) == \E i \in rows : Broken(es[i]) /\ Must(es[i])
SomePassed(es, rows)     == \E i \in rows : Passed(es[i])

\* The status is a matter of which rows there are, never of how many or in which
\* order: a MUST-level shortfall is final, a pass outweighs every other shortfall,
\* and the row named as deciding is one that says so (weighEntries).
THEOREM EvidenceRule ==
  ASSUME NEW ids, NEW labels, NEW es \in Seq(EntryType(ids, labels)), NEW rows \in SUBSET DOMAIN es
  PROVE  LET v == WeighEntries(es, rows)
         IN /\ v.status \in {"unmet", "met", "indeterminate"}
            /\ v.status = "unmet" <=>
                 SomeMustBroken(es, rows) \/ (~SomePassed(es, rows) /\ SomeBroken(es, rows))
            /\ v.status = "met" <=> ~SomeMustBroken(es, rows) /\ SomePassed(es, rows)
            /\ v.advisory \in BOOLEAN
            /\ v.advisory <=> v.status = "met" /\ SomeBroken(es, rows)
            /\ v.status = "unmet" => /\ v.decidedBy \in rows
                                     /\ Broken(es[v.decidedBy])
                                     /\ SomeMustBroken(es, rows) => Must(es[v.decidedBy])
            /\ v.status = "met" => v.decidedBy \in rows /\ Passed(es[v.decidedBy])
<1> DEFINE mustBroken     == {i \in rows : Broken(es[i]) /\ Must(es[i])}
           advisoryBroken == {i \in rows : Broken(es[i]) /\ ~Must(es[i])}
           passed         == {i \in rows : Passed(es[i])}
           untested       == {i \in rows : Untested(es[i])}
<1>1. WeighEntries(es, rows) =
        CASE First(mustBroken) # 0     -> Evidence("unmet", FALSE, First(mustBroken))
          [] First(mustBroken) = 0 /\ First(passed) # 0
                                -> Evidence("met", First(advisoryBroken) # 0, First(passed))
          [] First(mustBroken) = 0 /\ First(passed) = 0 /\ First(advisoryBroken) # 0
                                -> Evidence("unmet", FALSE, First(advisoryBroken))
          [] OTHER              -> Evidence("indeterminate", FALSE, First(untested))
  BY DEF WeighEntries
<1>2. Len(es) \in Nat /\ rows \subseteq 1..Len(es)
  OBVIOUS
<1>3. /\ First(mustBroken) # 0 <=> SomeMustBroken(es, rows)
      /\ SomeMustBroken(es, rows) => First(mustBroken) \in mustBroken
  BY <1>2, FirstIsFirst DEF SomeMustBroken
<1>4. /\ First(passed) # 0 <=> SomePassed(es, rows)
      /\ SomePassed(es, rows) => First(passed) \in passed
  BY <1>2, FirstIsFirst DEF SomePassed
<1>5. /\ First(advisoryBroken) # 0 <=> advisoryBroken # {}
      /\ advisoryBroken # {} => First(advisoryBroken) \in advisoryBroken
  BY <1>2, FirstIsFirst
<1>6. SomeBroken(es, rows) <=> SomeMustBroken(es, rows) \/ advisoryBroken # {}
  BY DEF SomeBroken, SomeMustBroken
<1>7. /\ First(mustBroken) \in mustBroken =>
           First(mustBroken) \in rows /\ Broken(es[First(mustBroken)]) /\ Must(es[First(mustBroken)])
      /\ First(passed) \in passed => First(passed) \in rows /\ Passed(es[First(passed)])
      /\ First(advisoryBroken) \in advisoryBroken =>
           First(advisoryBroken) \in rows /\ Broken(es[First(advisoryBroken)])
  OBVIOUS
<1> DEFINE v == WeighEntries(es, rows)
<1> HIDE DEF mustBroken, advisoryBroken, passed, untested
<1>8. CASE SomeMustBroken(es, rows)
  <2>1. v = Evidence("unmet", FALSE, First(mustBroken))
    BY <1>1, <1>3, <1>8
  <2>2. v.status = "unmet" /\ v.advisory = FALSE /\ v.decidedBy = First(mustBroken)
    BY <2>1 DEF Evidence
  <2> QED
    BY <1>3, <1>7, <1>8, <2>2
<1>9. CASE ~SomeMustBroken(es, rows) /\ SomePassed(es, rows)
  <2>1. v = Evidence("met", First(advisoryBroken) # 0, First(passed))
    BY <1>1, <1>3, <1>4, <1>9
  <2>2. v.status = "met" /\ v.decidedBy = First(passed)
    BY <2>1 DEF Evidence
  <2>3. v.advisory \in BOOLEAN /\ (v.advisory <=> SomeBroken(es, rows))
    <3>1. CASE SomeBroken(es, rows)
      <4>1. v = Evidence("met", TRUE, First(passed))
        BY <1>1, <1>3, <1>4, <1>5, <1>6, <1>9, <3>1
      <4> QED
        BY <3>1, <4>1 DEF Evidence
    <3>2. CASE ~SomeBroken(es, rows)
      <4>1. v = Evidence("met", FALSE, First(passed))
        BY <1>1, <1>3, <1>4, <1>5, <1>6, <1>9, <3>2
      <4> QED
        BY <3>2, <4>1 DEF Evidence
    <3> QED
      BY <3>1, <3>2
  <2>4. v.decidedBy \in rows /\ Passed(es[v.decidedBy])
    BY <1>4, <1>7, <1>9, <2>2
  <2> QED
    BY <1>9, <2>2, <2>3, <2>4
<1>10. CASE ~SomeMustBroken(es, rows) /\ ~SomePassed(es, rows) /\ SomeBroken(es, rows)
  <2>1. v = Evidence("unmet", FALSE, First(advisoryBroken))
    BY <1>1, <1>3, <1>4, <1>5, <1>6, <1>10
  <2>2. v.status = "unmet" /\ v.advisory = FALSE /\ v.decidedBy = First(advisoryBroken)
    BY <2>1 DEF Evidence
  <2> QED
    BY <1>5, <1>6, <1>7, <1>10, <2>2
<1>11. CASE ~SomeMustBroken(es, rows) /\ ~SomePassed(es, rows) /\ ~SomeBroken(es, rows)
  <2>1. v = Evidence("indeterminate", FALSE, First(untested))
    BY <1>1, <1>3, <1>4, <1>5, <1>6, <1>11
  <2>2. v.status = "indeterminate" /\ v.advisory = FALSE
    BY <2>1 DEF Evidence
  <2> QED
    BY <1>11, <2>2
<1> QED
  BY <1>8, <1>9, <1>10, <1>11

\* Rows that have a pass, a shortfall and a MUST-level shortfall among them alike
\* come to the same status and the same caveat.
LEMMA SameEvidence ==
  ASSUME NEW ids, NEW labels, NEW es \in Seq(EntryType(ids, labels)), NEW rows \in SUBSET DOMAIN es,
         NEW fs \in Seq(EntryType(ids, labels)), NEW others \in SUBSET DOMAIN fs,
         SomeMustBroken(fs, others) <=> SomeMustBroken(es, rows),
         SomePassed(fs, others) <=> SomePassed(es, rows),
         SomeBroken(fs, others) <=> SomeBroken(es, rows)
  PROVE  /\ WeighEntries(fs, others).status = WeighEntries(es, rows).status
         /\ WeighEntries(fs, others).advisory = WeighEntries(es, rows).advisory
<1> DEFINE v == WeighEntries(es, rows)
           w == WeighEntries(fs, others)
<1>1. /\ v.status \in {"unmet", "met", "indeterminate"}
      /\ v.status = "unmet" <=>
           SomeMustBroken(es, rows) \/ (~SomePassed(es, rows) /\ SomeBroken(es, rows))
      /\ v.status = "met" <=> ~SomeMustBroken(es, rows) /\ SomePassed(es, rows)
      /\ v.advisory \in BOOLEAN
      /\ v.advisory <=> v.status = "met" /\ SomeBroken(es, rows)
  BY EvidenceRule
<1>2. /\ w.status \in {"unmet", "met", "indeterminate"}
      /\ w.status = "unmet" <=>
           SomeMustBroken(es, rows) \/ (~SomePassed(es, rows) /\ SomeBroken(es, rows))
      /\ w.status = "met" <=> ~SomeMustBroken(es, rows) /\ SomePassed(es, rows)
      /\ w.advisory \in BOOLEAN
      /\ w.advisory <=> w.status = "met" /\ SomeBroken(es, rows)
  BY EvidenceRule
<1> HIDE DEF v, w
<1>3. v.status = w.status
  BY <1>1, <1>2
<1>4. v.advisory = w.advisory
  BY <1>1, <1>2, <1>3
<1> QED
  BY <1>3, <1>4 DEF v, w

\* A pipeline is never told of a failure that the verdicts leave unsettled: a
\* MUST-level failure fails the process, strict or not, and settles every group of
\* rows it is in, whatever the other rows say (finish, weighEntries).
THEOREM FatalRowSettles ==
  ASSUME NEW ids, NEW labels, NEW es \in Seq(EntryType(ids, labels)), NEW rows \in SUBSET DOMAIN es,
         \E i \in rows : es[i].sev = "MUST" /\ es[i].outcome \in {"fail", "error"}
  PROVE  WeighEntries(es, rows).status = "unmet" /\ \A strict : ExitCode(es, strict) = 1
<1>1. SomeMustBroken(es, rows)
  BY DEF SomeMustBroken, Broken, Must
<1>2. WeighEntries(es, rows).status = "unmet"
  BY <1>1, EvidenceRule
<1> QED
  BY <1>2 DEF ExitCode, HasFailure

\* Where exit code 0 meets an unmet requirement, the deciding row names an absent
\* capability or a shortfall the run was not asked to be strict about, for any
\* selection of the rows of a report (finish, weighEntries).
THEOREM CleanExitSettlesLittle ==
  ASSUME NEW ids, NEW labels, NEW es \in Seq(EntryType(ids, labels)), NEW strict \in BOOLEAN, ExitCode(es, strict) = 0,
         NEW rows \in SUBSET DOMAIN es, WeighEntries(es, rows).status = "unmet"
  PROVE  LET decider == es[WeighEntries(es, rows).decidedBy]
         IN \/ decider.outcome = "unsupported"
            \/ decider.sev = "MAY"
            \/ decider.sev = "SHOULD" /\ ~strict
<1> DEFINE decider == es[WeighEntries(es, rows).decidedBy]
<1>1. WeighEntries(es, rows).decidedBy \in DOMAIN es /\ Broken(decider)
  BY EvidenceRule
<1>2. decider \in EntryType(ids, labels) /\ \E j \in DOMAIN es : es[j] = decider
  BY <1>1
<1> HIDE DEF decider
<1>3. decider.sev \in Severities /\ decider.outcome \in {"fail", "error", "unsupported"}
  BY <1>1, <1>2 DEF EntryType, Broken
<1>4. ~HasFailure(es, "MUST") /\ (strict => ~HasFailure(es, "SHOULD"))
  BY DEF ExitCode
<1>5. decider.outcome # "unsupported" => decider.sev # "MUST" /\ (strict => decider.sev # "SHOULD")
  BY <1>2, <1>3, <1>4 DEF HasFailure
<1> QED
  BY <1>3, <1>5 DEF Severities, decider

----------------------------------------------------------------------------
(***************************************************************************)
(* One row more.                                                           *)
(***************************************************************************)
LEMMA RowsGrow ==
  ASSUME NEW ids, NEW labels, NEW es \in Seq(EntryType(ids, labels)), NEW row \in EntryType(ids, labels)
  PROVE  /\ Append(es, row) \in Seq(EntryType(ids, labels))
         /\ DOMAIN Append(es, row) = DOMAIN es \cup {Len(es) + 1}
         /\ \A i \in DOMAIN es : Append(es, row)[i] = es[i]
         /\ Append(es, row)[Len(es) + 1] = row
OBVIOUS

\* A MUST-level shortfall is final: no row that comes later in the same group
\* mends it (weighEntries).
THEOREM ShortfallIsFinal ==
  ASSUME NEW ids, NEW labels, NEW es \in Seq(EntryType(ids, labels)), NEW row \in EntryType(ids, labels),
         NEW rows \in SUBSET DOMAIN es, SomeMustBroken(es, rows),
         NEW more \in SUBSET DOMAIN Append(es, row), rows \subseteq more
  PROVE  WeighEntries(Append(es, row), more).status = "unmet"
<1>1. SomeMustBroken(Append(es, row), more)
  BY RowsGrow DEF SomeMustBroken
<1> QED
  BY <1>1, RowsGrow, EvidenceRule

\* An untested row is no answer: it moves no status, and takes back no caveat
\* (weighEntries).
THEOREM UntestedIsNoAnswer ==
  ASSUME NEW ids, NEW labels, NEW es \in Seq(EntryType(ids, labels)), NEW row \in EntryType(ids, labels), Untested(row),
         NEW more \in SUBSET DOMAIN Append(es, row)
  PROVE  LET rows == more \cap DOMAIN es
         IN /\ WeighEntries(Append(es, row), more).status = WeighEntries(es, rows).status
            /\ WeighEntries(Append(es, row), more).advisory = WeighEntries(es, rows).advisory
<1> DEFINE fs   == Append(es, row)
           rows == more \cap DOMAIN es
<1>1. ~Broken(row) /\ ~Passed(row)
  BY DEF Untested, Broken, Passed
<1>2. \A i \in more : (i \in rows /\ fs[i] = es[i]) \/ fs[i] = row
  BY RowsGrow
<1>3. \A i \in rows : i \in more /\ fs[i] = es[i]
  BY RowsGrow
<1>4. fs \in Seq(EntryType(ids, labels)) /\ more \in SUBSET DOMAIN fs /\ rows \in SUBSET DOMAIN es
  BY RowsGrow
<1> HIDE DEF fs, rows
<1>5. /\ SomeMustBroken(fs, more) <=> SomeMustBroken(es, rows)
      /\ SomePassed(fs, more) <=> SomePassed(es, rows)
      /\ SomeBroken(fs, more) <=> SomeBroken(es, rows)
  BY <1>1, <1>2, <1>3 DEF SomeMustBroken, SomePassed, SomeBroken
<1>6. /\ WeighEntries(fs, more).status = WeighEntries(es, rows).status
      /\ WeighEntries(fs, more).advisory = WeighEntries(es, rows).advisory
  BY <1>4, <1>5, SameEvidence
<1> QED
  BY <1>6 DEF fs, rows

----------------------------------------------------------------------------
(***************************************************************************)
(* The verdict on a client surface, whatever its labels weigh.             *)
(***************************************************************************)
\* A surface is aligned only if each of its mandatory requirements is met by some
\* label, and not aligned as soon as all the labels of one are unmet: no other
\* requirement, and no row under another label, makes up for it (EvaluateModels,
\* requirementOutcome).
THEOREM VerdictIsEarned ==
  ASSUME NEW es, NEW surface, NEW k \in DOMAIN surface.requires, ~surface.requires[k].optional,
         ~surface.unscorable, surface.requires # <<>>
  PROVE  /\ ModelVerdict(es, surface).verdict = "aligned" =>
              \E label \in surface.requires[k].anyOf : LabelOutcome(es, label).status = "met"
         /\ (\A label \in surface.requires[k].anyOf : LabelOutcome(es, label).status = "unmet") =>
              ModelVerdict(es, surface).verdict = "not-aligned"
<1> DEFINE req      == surface.requires[k]
           outcome  == RequirementOutcome(es, req)
           met      == {v \in {LabelOutcome(es, label) : label \in req.anyOf} : v.status = "met"}
           outcomes == {<<i, RequirementOutcome(es, surface.requires[i])>> : i \in DOMAIN surface.requires}
           Mandatory(status) == \E o \in outcomes : ~o[2].optional /\ o[2].status = status
<1>1. ModelVerdict(es, surface).verdict =
        IF Mandatory("unmet") THEN "not-aligned"
        ELSE IF Mandatory("indeterminate") THEN "inconclusive" ELSE "aligned"
  BY DEF ModelVerdict
<1>2. outcome.optional = req.optional
      /\ outcome.status = CASE met # {} -> "met"
                            [] met = {} /\ \A label \in req.anyOf : LabelOutcome(es, label).status = "unmet" -> "unmet"
                            [] OTHER -> "indeterminate"
  BY DEF RequirementOutcome
<1>3. \A status : outcome.status = status => Mandatory(status)
  <2>1. <<k, outcome>> \in outcomes
    OBVIOUS
  <2> QED
    BY <1>2, <2>1
<1>4. met # {} <=> \E label \in req.anyOf : LabelOutcome(es, label).status = "met"
  OBVIOUS
<1> HIDE DEF outcome, met, outcomes, Mandatory
<1>5. ModelVerdict(es, surface).verdict = "aligned" => met # {}
  BY <1>1, <1>2, <1>3
<1>6. ASSUME \A label \in req.anyOf : LabelOutcome(es, label).status = "unmet"
      PROVE  ModelVerdict(es, surface).verdict = "not-aligned"
  <2>1. met = {}
    BY <1>4, <1>6
  <2>2. outcome.status = "unmet"
    BY <1>2, <1>6, <2>1
  <2> QED
    BY <1>1, <1>3, <2>2
<1> QED
  BY <1>4, <1>5, <1>6

\* What a surface is told depends on the status and the caveat of each label, and
\* on nothing else of the rows.
LEMMA SameRequirement ==
  ASSUME NEW es, NEW fs, NEW req,
         \A label : /\ LabelOutcome(fs, label).status = LabelOutcome(es, label).status
                    /\ LabelOutcome(fs, label).advisory = LabelOutcome(es, label).advisory
  PROVE  RequirementOutcome(fs, req) = RequirementOutcome(es, req)
<1> DEFINE Evid(xs) == {LabelOutcome(xs, label) : label \in req.anyOf}
           Met(xs)  == {v \in Evid(xs) : v.status = "met"}
           Status(xs) == CASE Met(xs) # {} -> "met"
                           [] Met(xs) = {} /\ \A v \in Evid(xs) : v.status = "unmet" -> "unmet"
                           [] OTHER -> "indeterminate"
           Record(xs, advisory) ==
             [optional |-> req.optional,
              advisory |-> advisory,
              status   |-> IF req.optional /\ Status(xs) = "indeterminate" THEN "met" ELSE Status(xs)]
<1>1. \A xs : RequirementOutcome(xs, req) = Record(xs, \E v \in Met(xs) : v.advisory)
  BY DEF RequirementOutcome
<1>2. Met(fs) # {} <=> Met(es) # {}
  OBVIOUS
<1>3. (\A v \in Evid(fs) : v.status = "unmet") <=> (\A v \in Evid(es) : v.status = "unmet")
  OBVIOUS
<1>4. (\E v \in Met(fs) : v.advisory) <=> (\E v \in Met(es) : v.advisory)
  OBVIOUS
<1>5. Status(fs) = Status(es)
  BY <1>2, <1>3
<1> HIDE DEF Status, Met
<1>6. CASE \E v \in Met(es) : v.advisory
  <2>1. (\E v \in Met(es) : v.advisory) = TRUE /\ (\E v \in Met(fs) : v.advisory) = TRUE
    BY <1>4, <1>6
  <2> QED
    BY <1>1, <1>5, <2>1
<1>7. CASE ~\E v \in Met(es) : v.advisory
  <2>1. (\E v \in Met(es) : v.advisory) = FALSE /\ (\E v \in Met(fs) : v.advisory) = FALSE
    BY <1>4, <1>7
  <2> QED
    BY <1>1, <1>5, <2>1
<1> QED
  BY <1>6, <1>7

LEMMA SameVerdict ==
  ASSUME NEW es, NEW fs, NEW surface,
         \A label : /\ LabelOutcome(fs, label).status = LabelOutcome(es, label).status
                    /\ LabelOutcome(fs, label).advisory = LabelOutcome(es, label).advisory
  PROVE  ModelVerdict(fs, surface) = ModelVerdict(es, surface)
<1>1. \A req : RequirementOutcome(fs, req) = RequirementOutcome(es, req)
  BY SameRequirement
<1>2. {<<i, RequirementOutcome(fs, surface.requires[i])>> : i \in DOMAIN surface.requires}
        = {<<i, RequirementOutcome(es, surface.requires[i])>> : i \in DOMAIN surface.requires}
  BY <1>1
<1> QED
  BY <1>2, Zenon DEF ModelVerdict
=============================================================================
