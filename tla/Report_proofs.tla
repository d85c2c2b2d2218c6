---------------------------- MODULE Report_proofs -----------------------------
(***************************************************************************)
(* Theorems about one report, for every registry, every corpus of surfaces *)
(* and every capability matrix: what the verdicts and the exit code have   *)
(* to say to each other, and how they may move while rows come in.  The    *)
(* evidence rule of Verdict_proofs, applied to the rows of a label.        *)
(***************************************************************************)
EXTENDS ReportProps, Verdict_proofs

(***************************************************************************)
(* Type correctness, and what a step does to the rows.                     *)
(***************************************************************************)
LEMMA PreludeTyped == DiscoveryFailed \in RowType /\ RegistrationFailed \in RowType
BY DEF DiscoveryFailed, RegistrationFailed, RowType, Severities, Outcomes

LEMMA RowTyped ==
  ASSUME NEW i \in DOMAIN Rows, NEW o \in Rows[i].answers
  PROVE  Row(i, o) \in RowType
<1> DEFINE CheckRow == [id : STRING, rfc : STRING, sev : Severities, answers : SUBSET Outcomes]
<1>1. Rows[i] \in CheckRow
  <2>1. Rows \in Seq(CheckRow)
    BY RowsAssumption
  <2> HIDE DEF CheckRow
  <2> QED
    BY <2>1
<1>2. Rows[i].sev \in Severities /\ o \in Outcomes
  BY <1>1
<1> QED
  BY <1>2 DEF Row, RowType

\* The types of the rows as the evidence rule has them.
AllIds    == {Rows[i].id : i \in DOMAIN Rows} \cup {"discovery", "registration"}
AllLabels == {Rows[i].rfc : i \in DOMAIN Rows} \cup {"RFC 8414", "RFC 7591"}
ReportRow == EntryType(AllIds, AllLabels)

LEMMA RowsAreRows == RowType = ReportRow
BY DEF RowType, ReportRow, EntryType, AllIds, AllLabels

LEMMA EntriesType == TypeOK => entries \in Seq(ReportRow)
BY RowsAreRows DEF TypeOK

\* A step leaves the rows alone or adds one.
LEMMA RowsComeOneByOne ==
  ASSUME TypeOK, [Next]_vars
  PROVE  entries' = entries \/ \E row \in ReportRow : entries' = Append(entries, row)
<1>1. CASE OpenWithTrouble(DiscoveryFailed) \/ OpenWithTrouble(RegistrationFailed)
  BY <1>1, PreludeTyped, RowsAreRows DEF OpenWithTrouble
<1>2. CASE RecordRow
  <2>1. next \in DOMAIN Rows
    BY <1>2, RowsAssumption DEF RecordRow, TypeOK
  <2>2. PICK o \in Rows[next].answers : entries' = Append(entries, Row(next, o))
    BY <1>2 DEF RecordRow
  <2> QED
    BY <2>1, <2>2, RowTyped, RowsAreRows
<1>3. CASE Publish \/ Abort \/ UNCHANGED vars
  BY <1>3 DEF Publish, Abort, vars
<1> QED
  BY <1>1, <1>2, <1>3 DEF Next

LEMMA TypeInit == Init => TypeOK
<1> SUFFICES ASSUME Init PROVE TypeOK
  OBVIOUS
<1>1. Len(Rows) \in Nat
  BY RowsAssumption
<1>2. <<>> \in Seq(RowType)
  OBVIOUS
<1> QED
  BY <1>1, <1>2 DEF Init, TypeOK

LEMMA TypeStep == TypeOK /\ [Next]_vars => TypeOK'
<1> SUFFICES ASSUME TypeOK, [Next]_vars PROVE TypeOK'
  OBVIOUS
<1>2. entries' \in Seq(RowType)
  BY RowsComeOneByOne, RowsAreRows DEF TypeOK
<1>3. Len(Rows) \in Nat
  BY RowsAssumption
<1>4. CASE OpenWithTrouble(DiscoveryFailed) \/ OpenWithTrouble(RegistrationFailed)
  BY <1>2, <1>4 DEF OpenWithTrouble, TypeOK
<1>5. CASE RecordRow
  BY <1>2, <1>3, <1>5 DEF RecordRow, TypeOK
<1>6. CASE Publish
  BY <1>2, <1>6 DEF Publish, TypeOK, ExitCode
<1>7. CASE Abort
  BY <1>2, <1>7 DEF Abort, TypeOK
<1>8. CASE UNCHANGED vars
  BY <1>2, <1>8 DEF vars, TypeOK
<1> QED
  BY <1>4, <1>5, <1>6, <1>7, <1>8 DEF Next

\* The rows of a report are entries, its position one of the registry's, its exit
\* code 0, 1 or 2 (Runner.Run, finish).
THEOREM ReportTyping == Spec => []TypeOK
<1> QED
  BY TypeInit, TypeStep, PTL DEF Spec

----------------------------------------------------------------------------
(***************************************************************************)
(* What is so of any report, however it came about.                        *)
(***************************************************************************)
LEMMA LabelledRows == \A es, label : Labelled(es, label) \in SUBSET DOMAIN es
BY DEF Labelled

\* A mandatory requirement of a surface is one at some position of its list.
LEMMA MandatoryListed ==
  ASSUME NEW s, NEW r \in Mandatory(s)
  PROVE  \E k \in DOMAIN s.requires : s.requires[k] = r /\ ~s.requires[k].optional /\ s.requires # <<>>
BY DEF Mandatory, ToSet

\* An aligned surface has earned every mandatory requirement: some label of it
\* passed a check, and no MUST-level check of that label came out short, whatever
\* the checks, the surfaces and the order of the rows (EvaluateModels, weighEntries).
THEOREM AlignedEarned == Spec => []AlignedIsEarned
<1>1. TypeOK => AlignedIsEarned
  <2> SUFFICES ASSUME TypeOK, NEW s \in Surfaces, ModelVerdict(entries, s).verdict = "aligned",
                      NEW r \in Mandatory(s)
               PROVE  \E label \in r.anyOf :
                        /\ \E i \in Labelled(entries, label) : Passed(entries[i])
                        /\ \A i \in Labelled(entries, label) : Must(entries[i]) => ~Broken(entries[i])
    BY DEF AlignedIsEarned
  <2>1. PICK k \in DOMAIN s.requires :
          s.requires[k] = r /\ ~s.requires[k].optional /\ s.requires # <<>>
    BY MandatoryListed
  <2>2. ~s.unscorable
    BY DEF ModelVerdict
  <2>3. PICK label \in r.anyOf : LabelOutcome(entries, label).status = "met"
    BY <2>1, <2>2, VerdictIsEarned
  <2>4. /\ ~SomeMustBroken(entries, Labelled(entries, label))
        /\ SomePassed(entries, Labelled(entries, label))
    BY <2>3, EntriesType, LabelledRows, EvidenceRule DEF LabelOutcome, ReportRow
  <2> QED
    BY <2>4 DEF SomeMustBroken, SomePassed
<1> QED
  BY <1>1, ReportTyping, PTL

\* Read in the opposite order, the rows of a group are the same rows.
LEMMA Reversed ==
  ASSUME NEW es \in Seq(ReportRow),
         NEW rows \in SUBSET DOMAIN es, NEW others \in SUBSET DOMAIN Reverse(es),
         \A i \in DOMAIN es : i \in rows <=> Len(es) - i + 1 \in others
  PROVE  /\ WeighEntries(Reverse(es), others).status = WeighEntries(es, rows).status
         /\ WeighEntries(Reverse(es), others).advisory = WeighEntries(es, rows).advisory
<1> DEFINE fs == Reverse(es)
           mirror(i) == Len(es) - i + 1
<1>1. fs \in Seq(ReportRow) /\ DOMAIN fs = DOMAIN es /\ DOMAIN es = 1..Len(es) /\ Len(es) \in Nat
  BY DEF Reverse
<1>2. \A i \in DOMAIN es : mirror(i) \in DOMAIN es /\ mirror(mirror(i)) = i /\ fs[mirror(i)] = es[i]
  BY <1>1 DEF Reverse
<1>3. \A i \in rows : mirror(i) \in others /\ fs[mirror(i)] = es[i]
  BY <1>2
<1>4. \A i \in others : mirror(i) \in rows /\ es[mirror(i)] = fs[i]
  <2> SUFFICES ASSUME NEW i \in others PROVE mirror(i) \in rows /\ es[mirror(i)] = fs[i]
    OBVIOUS
  <2>1. mirror(i) \in DOMAIN es /\ mirror(mirror(i)) = i /\ fs[mirror(mirror(i))] = es[mirror(i)]
    BY <1>1, <1>2
  <2> QED
    BY <2>1
<1> HIDE DEF fs, mirror
<1>5. /\ SomeMustBroken(fs, others) <=> SomeMustBroken(es, rows)
      /\ SomePassed(fs, others) <=> SomePassed(es, rows)
      /\ SomeBroken(fs, others) <=> SomeBroken(es, rows)
  BY <1>3, <1>4 DEF SomeMustBroken, SomePassed, SomeBroken
<1>6. others \in SUBSET DOMAIN fs
  BY DEF fs
<1>7. /\ WeighEntries(fs, others).status = WeighEntries(es, rows).status
      /\ WeighEntries(fs, others).advisory = WeighEntries(es, rows).advisory
  BY <1>1, <1>5, <1>6, SameEvidence DEF ReportRow
<1> QED
  BY <1>7 DEF fs

\* Conclusions rest on the status and the caveat of each label and the status of
\* each matrix row.
LEMMA SameConclusions ==
  ASSUME NEW es, NEW fs,
         \A label : /\ LabelOutcome(fs, label).status = LabelOutcome(es, label).status
                    /\ LabelOutcome(fs, label).advisory = LabelOutcome(es, label).advisory,
         \A ids : CapabilityState(fs, ids) = CapabilityState(es, ids)
  PROVE  Conclusions(fs) = Conclusions(es)
<1>1. \A s : ModelVerdict(fs, s) = ModelVerdict(es, s)
  BY SameVerdict
<1>2. [label \in Labels |-> LabelOutcome(fs, label).status] = [label \in Labels |-> LabelOutcome(es, label).status]
  OBVIOUS
<1>3. [s \in Surfaces |-> ModelVerdict(fs, s)] = [s \in Surfaces |-> ModelVerdict(es, s)]
  BY <1>1
<1>4. [ids \in Capabilities |-> CapabilityState(fs, ids)] = [ids \in Capabilities |-> CapabilityState(es, ids)]
  OBVIOUS
<1> QED
  BY <1>2, <1>3, <1>4, Zenon DEF Conclusions

\* The verdicts and the matrix weigh severities, not positions: the rows in the
\* opposite order conclude the same, for every surface and every row of the matrix
\* (weighEntries, EvaluateModels, Capabilities).
THEOREM PositionsDoNotCount == Spec => []OrderIrrelevant
<1>1. TypeOK => OrderIrrelevant
  <2> SUFFICES ASSUME TypeOK PROVE OrderIrrelevant
    OBVIOUS
  <2> DEFINE fs == Reverse(entries)
  <2>1. /\ entries \in Seq(ReportRow) /\ DOMAIN fs = DOMAIN entries
        /\ \A i \in DOMAIN entries : /\ Len(entries) - i + 1 \in DOMAIN entries
                                     /\ fs[Len(entries) - i + 1] = entries[i]
    BY EntriesType DEF Reverse
  <2> HIDE DEF fs
  <2>2. ASSUME NEW label
        PROVE  /\ LabelOutcome(fs, label).status = LabelOutcome(entries, label).status
               /\ LabelOutcome(fs, label).advisory = LabelOutcome(entries, label).advisory
    <3>1. \A i \in DOMAIN entries :
            i \in Labelled(entries, label) <=> Len(entries) - i + 1 \in Labelled(fs, label)
      BY <2>1 DEF Labelled
    <3> QED
      BY <2>1, <3>1, LabelledRows, Reversed DEF LabelOutcome, fs
  <2>3. ASSUME NEW ids
        PROVE  CapabilityState(fs, ids) = CapabilityState(entries, ids)
    <3> DEFINE Of(es) == {i \in DOMAIN es : es[i].id \in ids}
    <3>1. \A i \in DOMAIN entries : i \in Of(entries) <=> Len(entries) - i + 1 \in Of(fs)
      BY <2>1
    <3>2. Of(entries) \in SUBSET DOMAIN entries /\ Of(fs) \in SUBSET DOMAIN fs
      OBVIOUS
    <3>3. WeighEntries(fs, Of(fs)).status = WeighEntries(entries, Of(entries)).status
      <4> HIDE DEF Of
      <4> QED
        BY <2>1, <3>1, <3>2, Reversed DEF fs
    <3> QED
      BY <3>3 DEF CapabilityState
  <2>4. Conclusions(fs) = Conclusions(entries)
    BY <2>2, <2>3, SameConclusions
  <2> QED
    BY <2>4 DEF OrderIrrelevant, fs
<1> QED
  BY <1>1, ReportTyping, PTL

----------------------------------------------------------------------------
(***************************************************************************)
(* The exit code of a published report.                                    *)
(***************************************************************************)
\* FatalRowsAreTold is not inductive: while rows still come in nothing says what
\* the exit code will be.
Published == phase = "published" => exit = ExitCode(entries, strict)

LEMMA PublishedAlways == Spec => []Published
<1>1. Init => Published
  BY DEF Init, Published
<1>2. Published /\ [Next]_vars => Published'
  BY DEF Published, Next, OpenWithTrouble, RecordRow, Publish, Abort, vars
<1> QED
  BY <1>1, <1>2, PTL DEF Spec

\* A MUST-level check that failed or erred fails the process and settles its label and
\* its capability, whatever the other rows are (finish, hasFailure, weighEntries).
THEOREM FatalRowsTold == Spec => []FatalRowsAreTold
<1>1. TypeOK /\ Published => FatalRowsAreTold
  <2> SUFFICES ASSUME TypeOK, Published, phase = "published", NEW i \in DOMAIN entries,
                      entries[i].sev = "MUST", entries[i].outcome \in {"fail", "error"}
               PROVE  /\ exit = 1
                      /\ \A s \in Surfaces :
                           (\E r \in Mandatory(s) : r.anyOf = {entries[i].rfc}) =>
                             ModelVerdict(entries, s).verdict \in {"not-aligned", "n/a"}
                      /\ \A ids \in Capabilities :
                           entries[i].id \in ids => CapabilityState(entries, ids) = "not supported"
    BY DEF FatalRowsAreTold, Must
  <2>1. ASSUME NEW rows \in SUBSET DOMAIN entries, i \in rows
        PROVE  WeighEntries(entries, rows).status = "unmet" /\ ExitCode(entries, strict) = 1
    BY <2>1, EntriesType, FatalRowSettles DEF ReportRow
  <2>2. exit = 1
    BY <2>1 DEF Published
  <2>3. ASSUME NEW s \in Surfaces, NEW r \in Mandatory(s), r.anyOf = {entries[i].rfc}
        PROVE  ModelVerdict(entries, s).verdict \in {"not-aligned", "n/a"}
    <3>1. PICK k \in DOMAIN s.requires :
            s.requires[k] = r /\ ~s.requires[k].optional /\ s.requires # <<>>
      BY MandatoryListed
    <3>2. LabelOutcome(entries, entries[i].rfc).status = "unmet"
      BY <2>1, LabelledRows DEF LabelOutcome, Labelled
    <3>3. CASE s.unscorable
      BY <3>3 DEF ModelVerdict
    <3>4. CASE ~s.unscorable
      BY <2>3, <3>1, <3>2, <3>4, VerdictIsEarned
    <3> QED
      BY <3>3, <3>4
  <2>4. ASSUME NEW ids \in Capabilities, entries[i].id \in ids
        PROVE  CapabilityState(entries, ids) = "not supported"
    <3> DEFINE rows == {j \in DOMAIN entries : entries[j].id \in ids}
    <3>1. WeighEntries(entries, rows).status = "unmet"
      BY <2>1, <2>4
    <3> QED
      BY <3>1 DEF CapabilityState
  <2> QED
    BY <2>2, <2>3, <2>4
<1> QED
  BY <1>1, ReportTyping, PublishedAlways, PTL

----------------------------------------------------------------------------
(***************************************************************************)
(* How conclusions move.                                                   *)
(***************************************************************************)
\* No label, verdict or matrix row moves for a row that was not tested: no run is
\* called not-aligned for want of a flag (labelOutcome, weighEntries).
THEOREM UntestedSettles == Spec => UntestedSettlesNothing
<1>1. TypeOK /\ [Next]_vars =>
        [entries' # entries /\ Untested(Last(entries')) => Conclusions(entries') = Conclusions(entries)]_vars
  <2> SUFFICES ASSUME TypeOK, [Next]_vars, entries' # entries, Untested(Last(entries'))
               PROVE  Conclusions(entries') = Conclusions(entries)
    OBVIOUS
  <2>1. PICK row \in ReportRow : entries' = Append(entries, row)
    BY RowsComeOneByOne
  <2>2. Untested(row)
    BY <2>1, EntriesType, RowsGrow DEF Last, ReportRow
  <2> DEFINE fs == Append(entries, row)
  <2>3. /\ entries \in Seq(ReportRow) /\ DOMAIN entries \subseteq DOMAIN fs
        /\ \A i \in DOMAIN entries : fs[i] = entries[i]
    BY EntriesType, RowsGrow DEF ReportRow
  <2> HIDE DEF fs
  <2>4. ASSUME NEW label
        PROVE  /\ LabelOutcome(fs, label).status = LabelOutcome(entries, label).status
               /\ LabelOutcome(fs, label).advisory = LabelOutcome(entries, label).advisory
    <3>1. /\ Labelled(fs, label) \cap DOMAIN entries = Labelled(entries, label)
          /\ Labelled(fs, label) \in SUBSET DOMAIN fs
      BY <2>3, LabelledRows DEF Labelled
    <3>2. /\ WeighEntries(fs, Labelled(fs, label)).status
               = WeighEntries(entries, Labelled(entries, label)).status
          /\ WeighEntries(fs, Labelled(fs, label)).advisory
               = WeighEntries(entries, Labelled(entries, label)).advisory
      BY <2>2, <2>3, <3>1, UntestedIsNoAnswer DEF fs, ReportRow
    <3> QED
      BY <3>2 DEF LabelOutcome
  <2>5. ASSUME NEW ids
        PROVE  CapabilityState(fs, ids) = CapabilityState(entries, ids)
    <3> DEFINE Of(es) == {i \in DOMAIN es : es[i].id \in ids}
    <3>1. Of(fs) \cap DOMAIN entries = Of(entries) /\ Of(fs) \in SUBSET DOMAIN fs
      BY <2>3
    <3>2. WeighEntries(fs, Of(fs)).status = WeighEntries(entries, Of(entries)).status
      <4> HIDE DEF Of
      <4> QED
        BY <2>2, <2>3, <3>1, UntestedIsNoAnswer DEF fs, ReportRow
    <3> QED
      BY <3>2 DEF CapabilityState
  <2>6. Conclusions(fs) = Conclusions(entries)
    BY <2>4, <2>5, SameConclusions
  <2> QED
    BY <2>1, <2>6 DEF fs
<1> QED
  BY <1>1, ReportTyping, PTL DEF Spec, UntestedSettlesNothing

\* Once every label of a mandatory requirement has a MUST-level shortfall, no later
\* step makes the surface anything but not aligned (EvaluateModels, weighEntries).
THEOREM DisqualificationIsFinal == Spec => DisqualifiedForGood
<1>1. TypeOK /\ [Next]_vars =>
        \A s \in Surfaces : \A r \in Mandatory(s) :
          (\A label \in r.anyOf :
             \E i \in Labelled(entries, label) : Must(entries[i]) /\ Broken(entries[i]))
            => ModelVerdict(entries', s).verdict \in {"not-aligned", "n/a"}
  <2> SUFFICES ASSUME TypeOK, [Next]_vars, NEW s \in Surfaces, NEW r \in Mandatory(s),
                      \A label \in r.anyOf :
                        \E i \in Labelled(entries, label) : Must(entries[i]) /\ Broken(entries[i])
               PROVE  ModelVerdict(entries', s).verdict \in {"not-aligned", "n/a"}
    OBVIOUS
  <2>1. ASSUME NEW label \in r.anyOf
        PROVE  LabelOutcome(entries', label).status = "unmet"
    <3>1. SomeMustBroken(entries, Labelled(entries, label))
      BY DEF SomeMustBroken
    <3>2. CASE entries' = entries
      BY <3>1, <3>2, EntriesType, LabelledRows, EvidenceRule DEF LabelOutcome, ReportRow
    <3>3. CASE \E row \in ReportRow : entries' = Append(entries, row)
      <4>1. PICK row \in ReportRow : entries' = Append(entries, row)
        BY <3>3
      <4>2. Labelled(entries, label) \subseteq Labelled(Append(entries, row), label)
        BY EntriesType, RowsGrow DEF Labelled, ReportRow
      <4> QED
        BY <3>1, <4>1, <4>2, EntriesType, LabelledRows, ShortfallIsFinal DEF LabelOutcome, ReportRow
    <3> QED
      BY <3>2, <3>3, RowsComeOneByOne
  <2>2. PICK k \in DOMAIN s.requires :
          s.requires[k] = r /\ ~s.requires[k].optional /\ s.requires # <<>>
    BY MandatoryListed
  <2>3. CASE s.unscorable
    BY <2>3 DEF ModelVerdict
  <2>4. CASE ~s.unscorable
    BY <2>1, <2>2, <2>4, VerdictIsEarned
  <2> QED
    BY <2>3, <2>4
<1> QED
  BY <1>1, ReportTyping, PTL DEF Spec, DisqualifiedForGood
=============================================================================
