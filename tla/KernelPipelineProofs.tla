------------------------- MODULE KernelPipelineProofs -------------------------
(***************************************************************************)
(* What a run of the kernel pipeline leaves behind, for every suite, every *)
(* compiler and every verifier, whatever step of a kernel fails.           *)
(*                                                                         *)
(* The argument: every way out of an iteration goes through Record, so the *)
(* records keep pace with next; and inside an iteration InHand says what   *)
(* the steps before have appended for the kernel at work, which is what    *)
(* the next list needs.  Consolidation ends the loop: the rules that       *)
(* remain are as many as were not subsumed, each from a place of its own.  *)
(*                                                                         *)
(* And what the validation of a kernel lets through, for kernels of any    *)
(* length: every operation reads names written before it, so the closure   *)
(* over the dependencies is the program read backwards; and every access   *)
(* addresses whole elements, so two of them coincide or are apart.         *)
(***************************************************************************)
EXTENDS KernelPipeline, KernelSchema, DataInduction

Ids == {Kernels[i].id : i \in DOMAIN Kernels}
AnyStatus == Statuses \cup {"verifier_fail", "unsupported", "error", "rule_emitted", "rule_skipped"}
RecordSet == [kernel : Ids, status : AnyStatus, rule : Nat]
Objects == Compilations \cup {NoObjects}
Candidate == {BuildCandidate(k, o) : k \in Range(Kernels), o \in Objects}

Paced == RecordPerKernel /\ records \in Seq(RecordSet) /\ objects \in Objects

Typed ==
    /\ candidates \in Seq(Candidate)
    /\ reports \in Seq([kernel : Ids, status : Statuses])
    /\ rules \in Seq([id : Nat, kernel : Ids])

\* What the list before has for the kernel at work.
InHand ==
    /\ step = "verify" =>
        Len(reports) < Len(candidates) /\ candidates[Len(candidates)].kernel = Kernel.id
    /\ step = "generalize" =>
        /\ Len(rules) < Len(reports)
        /\ reports[Len(reports)].kernel = Kernel.id /\ reports[Len(reports)].status = "pass"

Loop == Typed /\ InHand /\ ListsInStep /\ RecordsNameRules
Inv == Paced /\ (step # "done" => Loop)

LEMMA KernelAtWork ==
    ASSUME Paced, next <= Len(Kernels)
    PROVE  next \in DOMAIN Kernels /\ Kernel \in Range(Kernels) /\ Kernel.id \in Ids
BY PipelineConstants DEF Paced, RecordPerKernel, Kernel, Ids, Range

\* An iteration that ends writes one record, and the next one starts clean.
LEMMA RecordPaced ==
    ASSUME Paced, next <= Len(Kernels), NEW status \in AnyStatus, NEW rule \in Nat,
           Record(status, rule)
    PROVE  Paced'
<1>1. next \in DOMAIN Kernels /\ Kernel.id \in Ids
  BY KernelAtWork
<1>2. [kernel |-> Kernel.id, status |-> status, rule |-> rule] \in RecordSet
  BY <1>1 DEF RecordSet
<1> QED BY <1>1, <1>2, PipelineConstants DEF Paced, RecordPerKernel, Record, Objects, Kernel

LEMMA CatchPaced ==
    ASSUME Paced, next <= Len(Kernels), Catch
    PROVE  Paced'
BY RecordPaced DEF Catch, AnyStatus

LEMMA ContinuePaced ==
    ASSUME Paced, NEW label, Continue(label)
    PROVE  Paced'
BY DEF Paced, RecordPerKernel, Continue

LEMMA StepPaced ==
    ASSUME Paced, [Next]_vars
    PROVE  Paced'
<1>1. CASE Compile
  <2> SUFFICES ASSUME AtKernel("compile"), NEW made \in Compilations,
                      IF \E side \in Side : ~made[side].compiles THEN Catch
                      ELSE objects' = made /\ step' = "extract" /\ UNCHANGED <<next, records>>
               PROVE  Paced'
    BY <1>1 DEF Compile
  <2>1. CASE Catch
    BY <2>1, CatchPaced DEF AtKernel
  <2>2. CASE objects' = made /\ UNCHANGED <<next, records>>
    BY <2>2 DEF Paced, RecordPerKernel, Objects
  <2> QED BY <2>1, <2>2
<1>2. CASE Extract
  BY <1>2, CatchPaced, ContinuePaced DEF Extract, AtKernel
<1>3. CASE Bind
  BY <1>3, CatchPaced, ContinuePaced DEF Bind, AtKernel
<1>4. CASE Verify
  <2>1. next <= Len(Kernels)
    BY <1>4 DEF Verify, AtKernel
  <2>2. CASE Catch
    BY <2>1, <2>2, CatchPaced
  <2>3. ASSUME NEW status \in Statuses,
               IF status = "pass" THEN Continue("generalize")
               ELSE Record(IF status = "fail" THEN "verifier_fail" ELSE status, 0)
        PROVE  Paced'
    <3>1. (IF status = "fail" THEN "verifier_fail" ELSE status) \in AnyStatus
      BY DEF AnyStatus
    <3> QED BY <2>1, <2>3, <3>1, ContinuePaced, RecordPaced
  <2> QED BY <1>4, <2>2, <2>3 DEF Verify
<1>5. CASE Generalize
  <2>1. next <= Len(Kernels) /\ Len(rules) + 1 \in Nat
    BY <1>5 DEF Generalize, AtKernel
  <2> QED BY <1>5, <2>1, CatchPaced, RecordPaced DEF Generalize, AnyStatus
<1>6. CASE Consolidate \/ Done \/ UNCHANGED vars
  BY <1>6 DEF Consolidate, Done, vars, Paced, RecordPerKernel
<1> QED BY <1>1, <1>2, <1>3, <1>4, <1>5, <1>6 DEF Next

\* Whatever step of a kernel fails, with whatever exception, every kernel the
\* loop has left behind has its one record (pipeline.py:111).
THEOREM RecordsKeepPace == Spec => []RecordPerKernel
<1>1. Init => Paced
  BY PipelineConstants DEF Init, Paced, RecordPerKernel, Objects
<1>2. Paced /\ [Next]_vars => Paced'
  BY StepPaced
<1>3. Paced => RecordPerKernel
  BY DEF Paced
<1> QED BY <1>1, <1>2, <1>3, PTL DEF Spec

(***************************************************************************)
(* The lists.                                                              *)
(***************************************************************************)
\* A record that is not of an emitted rule leaves the lists described.
LEMMA OtherRecordLoop ==
    ASSUME Paced, RecordsNameRules, step # "done",
           NEW status \in AnyStatus \ {"rule_emitted"}, Record(status, 0),
           UNCHANGED rules
    PROVE  RecordsNameRules'
<1>1. PICK n \in Nat : n = Len(records)
  BY DEF Paced
<1>2. /\ Len(records') = n + 1
      /\ \A i \in 1..n : records'[i] = records[i]
      /\ records'[n + 1] = [kernel |-> Kernel.id, status |-> status, rule |-> 0]
  BY <1>1 DEF Record, Paced
<1>3. records'[n + 1].status # "rule_emitted"
  BY <1>2
<1>4. \A i \in 1..(n + 1) : records'[i].status = "rule_emitted" =>
        i \in 1..n /\ records'[i] = records[i] /\ records[i].status = "rule_emitted"
  <2>1. \A i \in 1..(n + 1) : i \in 1..n \/ i = n + 1
    OBVIOUS
  <2> QED BY <1>2, <1>3, <2>1
<1>5. 1..n \subseteq 1..(n + 1)
  OBVIOUS
<1> QED BY <1>1, <1>2, <1>4, <1>5 DEF RecordsNameRules, Emitted

\* The record of an emitted rule names the rule just appended.
LEMMA EmittedRecordLoop ==
    ASSUME Paced, Typed, RecordsNameRules, step # "done",
           Record("rule_emitted", Len(rules) + 1),
           rules' = Append(rules, [id |-> Len(rules) + 1, kernel |-> Kernel.id])
    PROVE  RecordsNameRules'
<1>1. PICK n \in Nat, m \in Nat : n = Len(records) /\ m = Len(rules)
  BY DEF Paced, Typed
<1>2. /\ Len(records') = n + 1
      /\ \A i \in 1..n : records'[i] = records[i]
      /\ records'[n + 1] = [kernel |-> Kernel.id, status |-> "rule_emitted", rule |-> m + 1]
  BY <1>1 DEF Record, Paced
<1>3. /\ Len(rules') = m + 1
      /\ \A i \in 1..m : rules'[i] = rules[i]
      /\ rules'[m + 1] = [id |-> m + 1, kernel |-> Kernel.id]
  BY <1>1 DEF Typed
<1>4. /\ \A i \in 1..m : rules[i].id = i
      /\ \A i \in 1..n : records[i].status = "rule_emitted" =>
            records[i].rule \in 1..m /\ rules[records[i].rule].kernel = records[i].kernel
      /\ \A k \in 1..m : \E i \in 1..n : records[i].status = "rule_emitted" /\ records[i].rule = k
  BY <1>1 DEF RecordsNameRules, Emitted
<1>5. /\ \A i \in 1..(n + 1) : i \in 1..n \/ i = n + 1
      /\ \A i \in 1..(m + 1) : i \in 1..m \/ i = m + 1
      /\ 1..n \subseteq 1..(n + 1) /\ 1..m \subseteq 1..(m + 1)
      /\ n + 1 \in 1..(n + 1) /\ m + 1 \in 1..(m + 1)
  OBVIOUS
<1>6. \A i \in 1..(m + 1) : rules'[i].id = i
  BY <1>3, <1>4, <1>5
<1>7. ASSUME NEW i \in 1..(n + 1), records'[i].status = "rule_emitted"
      PROVE  records'[i].rule \in 1..(m + 1) /\ rules'[records'[i].rule].kernel = records'[i].kernel
  <2>1. CASE i = n + 1
    BY <1>2, <1>3, <1>5, <2>1
  <2>2. CASE i \in 1..n
    BY <1>2, <1>3, <1>4, <1>5, <1>7, <2>2
  <2> QED BY <1>5, <2>1, <2>2
<1>8. ASSUME NEW k \in 1..(m + 1)
      PROVE  \E i \in 1..(n + 1) : records'[i].status = "rule_emitted" /\ records'[i].rule = k
  <2>1. CASE k = m + 1
    BY <1>2, <1>5, <2>1
  <2>2. CASE k \in 1..m
    <3>1. PICK i \in 1..n : records[i].status = "rule_emitted" /\ records[i].rule = k
      BY <1>4, <2>2
    <3> QED BY <1>2, <1>5, <3>1
  <2> QED BY <1>5, <2>1, <2>2
<1> QED BY <1>2, <1>3, <1>6, <1>7, <1>8 DEF RecordsNameRules, Emitted

LEMMA KeepLists ==
    ASSUME Typed, ListsInStep, UNCHANGED lists
    PROVE  Typed' /\ ListsInStep'
BY DEF Typed, ListsInStep, lists

LEMMA KeepNames ==
    ASSUME RecordsNameRules, step # "done", UNCHANGED <<rules, records>>
    PROVE  RecordsNameRules'
BY DEF RecordsNameRules, Emitted

LEMMA CatchNames ==
    ASSUME Paced, RecordsNameRules, step # "done", UNCHANGED rules, Catch
    PROVE  RecordsNameRules' /\ step' = "compile"
<1>1. step' = "compile"
  BY DEF Catch, Record
<1>2. (IF Kernel.expected = "unsupported" THEN "unsupported" ELSE "error") \in AnyStatus \ {"rule_emitted"}
  BY DEF AnyStatus
<1> QED BY <1>1, <1>2, OtherRecordLoop DEF Catch

\* The candidate appended is the kernel's.
LEMMA BindLoop ==
    ASSUME Paced, Loop, step # "done", Bind
    PROVE  Loop'
<1>1. CASE Catch /\ UNCHANGED lists
  BY <1>1, KeepLists, CatchNames DEF Loop, InHand, lists
<1>2. CASE candidates' = Append(candidates, BuildCandidate(Kernel, objects)) /\ Continue("verify")
  <2> DEFINE c == BuildCandidate(Kernel, objects)
  <2>1. c \in Candidate /\ c.kernel = Kernel.id
    <3>1. Kernel \in Range(Kernels) /\ objects \in Objects
      BY KernelAtWork DEF Paced, Bind, AtKernel
    <3>2. c \in Candidate
      BY <3>1 DEF Candidate
    <3>3. c.kernel = Kernel.id
      BY DEF BuildCandidate
    <3> QED BY <3>2, <3>3
  <2> HIDE DEF c
  <2>2. candidates' = Append(candidates, c) /\ UNCHANGED <<next, records, reports, rules>> /\ step' = "verify"
    BY <1>2 DEF c, Bind, Continue
  <2>3. /\ candidates \in Seq(Candidate) /\ candidates' \in Seq(Candidate)
        /\ Len(candidates') = Len(candidates) + 1 /\ candidates'[Len(candidates')] = c
        /\ \A i \in 1..Len(candidates) : candidates'[i] = candidates[i]
    BY <2>1, <2>2 DEF Loop, Typed
  <2>4. Typed'
    BY <2>2, <2>3 DEF Loop, Typed
  <2>5. ListsInStep'
    <3>1. /\ Len(rules) <= Len(reports) /\ Len(reports) <= Len(candidates')
          /\ 1..Len(candidates) \subseteq 1..Len(candidates')
      BY <2>3 DEF Loop, Typed, ListsInStep
    <3>2. \A i \in 1..Len(reports) : \E j \in 1..Len(candidates') : candidates'[j].kernel = reports[i].kernel
      <4> TAKE i \in 1..Len(reports)
      <4>1. PICK j \in 1..Len(candidates) : candidates[j].kernel = reports[i].kernel
        BY DEF Loop, ListsInStep
      <4> QED BY <2>3, <3>1, <4>1
    <3> QED BY <2>2, <3>1, <3>2 DEF Loop, ListsInStep
  <2>6. InHand'
    BY <2>1, <2>2, <2>3 DEF Loop, Typed, ListsInStep, InHand, Kernel
  <2>7. RecordsNameRules'
    BY <2>2, KeepNames DEF Loop
  <2> QED BY <2>4, <2>5, <2>6, <2>7 DEF Loop
<1> QED BY <1>1, <1>2 DEF Bind, lists

\* A report has its candidate, and goes on only if it is a pass.
LEMMA VerifyLoop ==
    ASSUME Paced, Loop, step # "done", Verify
    PROVE  Loop'
<1>1. CASE Catch /\ UNCHANGED lists
  BY <1>1, KeepLists, CatchNames DEF Loop, InHand, lists
<1>2. ASSUME NEW status \in Statuses,
             reports' = Append(reports, [kernel |-> Kernel.id, status |-> status]),
             IF status = "pass" THEN Continue("generalize")
             ELSE Record(IF status = "fail" THEN "verifier_fail" ELSE status, 0)
      PROVE  Loop'
  <2>1. UNCHANGED <<candidates, rules>> /\ step = "verify" /\ Kernel.id \in Ids
    BY KernelAtWork DEF Verify, AtKernel
  <2>2. /\ reports \in Seq([kernel : Ids, status : Statuses]) /\ reports' \in Seq([kernel : Ids, status : Statuses])
        /\ Len(reports') = Len(reports) + 1
        /\ reports'[Len(reports')] = [kernel |-> Kernel.id, status |-> status]
        /\ \A i \in 1..Len(reports) : reports'[i] = reports[i]
    BY <1>2, <2>1 DEF Loop, Typed
  <2>3. Typed'
    BY <2>1, <2>2 DEF Loop, Typed
  <2>4. ListsInStep'
    <3>1. /\ Len(reports) < Len(candidates) /\ candidates[Len(candidates)].kernel = Kernel.id
          /\ Len(candidates) \in 1..Len(candidates)
      BY <2>1, <2>2 DEF Loop, InHand, Typed
    <3>2. \A i \in 1..Len(reports') : i \in 1..Len(reports) \/ i = Len(reports')
      BY <2>2
    <3>3. \A i \in 1..Len(reports') : \E j \in 1..Len(candidates) : candidates[j].kernel = reports'[i].kernel
      BY <2>2, <3>1, <3>2 DEF Loop, ListsInStep
    <3>4. /\ Len(rules) <= Len(reports') /\ Len(reports') <= Len(candidates)
          /\ 1..Len(reports) \subseteq 1..Len(reports')
      BY <2>2, <3>1 DEF Loop, Typed, ListsInStep
    <3>5. \A i \in 1..Len(rules) :
            \E j \in 1..Len(reports') : reports'[j].kernel = rules[i].kernel /\ reports'[j].status = "pass"
      <4> TAKE i \in 1..Len(rules)
      <4>1. PICK j \in 1..Len(reports) : reports[j].kernel = rules[i].kernel /\ reports[j].status = "pass"
        BY DEF Loop, ListsInStep
      <4> QED BY <2>2, <3>4, <4>1
    <3> QED BY <2>1, <3>3, <3>4, <3>5 DEF ListsInStep
  <2>5. CASE status = "pass"
    <3>1. UNCHANGED <<next, records>> /\ step' = "generalize"
      BY <1>2, <2>5 DEF Continue
    <3>2. InHand'
      BY <2>1, <2>2, <2>5, <3>1 DEF Loop, Typed, ListsInStep, InHand, Kernel
    <3> QED BY <2>1, <2>3, <2>4, <3>1, <3>2, KeepNames DEF Loop
  <2>6. CASE status # "pass"
    <3>1. (IF status = "fail" THEN "verifier_fail" ELSE status) \in AnyStatus \ {"rule_emitted"}
      BY <2>6, PipelineConstants DEF AnyStatus
    <3>2. Record(IF status = "fail" THEN "verifier_fail" ELSE status, 0)
      BY <1>2, <2>6
    <3>3. RecordsNameRules'
      BY <2>1, <3>1, <3>2, OtherRecordLoop DEF Loop
    <3>4. InHand'
      BY <3>2 DEF Record, InHand
    <3> QED BY <2>3, <2>4, <3>3, <3>4 DEF Loop
  <2> QED BY <2>5, <2>6
<1> QED BY <1>1, <1>2 DEF Verify, lists

\* A rule has its passing report.
LEMMA GeneralizeLoop ==
    ASSUME Paced, Loop, step # "done", Generalize
    PROVE  Loop'
<1> DEFINE rule == [id |-> Len(rules) + 1, kernel |-> Kernel.id]
<1>1. CASE Catch /\ UNCHANGED lists
  BY <1>1, KeepLists, CatchNames DEF Loop, InHand, lists
<1>2. CASE Record("rule_skipped", 0) /\ UNCHANGED lists
  <2>1. InHand'
    BY <1>2 DEF Record, InHand
  <2> QED BY <1>2, <2>1, KeepLists, OtherRecordLoop DEF Loop, lists, AnyStatus
<1>3. CASE Record("rule_emitted", Len(rules) + 1) /\ rules' = Append(rules, rule)
  <2>1. UNCHANGED <<candidates, reports>> /\ step = "generalize" /\ Kernel.id \in Ids
    BY KernelAtWork DEF Generalize, AtKernel
  <2>2. RecordsNameRules'
    BY <1>3, EmittedRecordLoop DEF Loop
  <2>3. InHand'
    BY <1>3 DEF Record, InHand
  <2>4. Len(rules) \in Nat /\ rule \in [id : Nat, kernel : Ids] /\ rule.kernel = Kernel.id
    BY <2>1 DEF Loop, Typed
  <2> HIDE DEF rule
  <2>5. /\ rules \in Seq([id : Nat, kernel : Ids]) /\ rules' \in Seq([id : Nat, kernel : Ids])
        /\ Len(rules') = Len(rules) + 1 /\ rules'[Len(rules')] = rule
        /\ \A i \in 1..Len(rules) : rules'[i] = rules[i]
    BY <1>3, <2>4 DEF Loop, Typed
  <2>6. Typed'
    BY <2>1, <2>5 DEF Loop, Typed
  <2>7. ListsInStep'
    <3>1. /\ Len(rules) < Len(reports) /\ reports[Len(reports)].kernel = Kernel.id
          /\ reports[Len(reports)].status = "pass" /\ Len(reports) \in 1..Len(reports)
      BY <2>1, <2>5 DEF Loop, InHand, Typed
    <3>2. \A i \in 1..Len(rules') : i \in 1..Len(rules) \/ i = Len(rules')
      BY <2>5
    <3>3. \A i \in 1..Len(rules') :
            \E j \in 1..Len(reports) : reports[j].kernel = rules'[i].kernel /\ reports[j].status = "pass"
      <4> TAKE i \in 1..Len(rules')
      <4>1. CASE i = Len(rules')
        BY <2>4, <2>5, <3>1, <4>1
      <4>2. CASE i \in 1..Len(rules)
        <5>1. PICK j \in 1..Len(reports) : reports[j].kernel = rules[i].kernel /\ reports[j].status = "pass"
          BY <4>2 DEF Loop, ListsInStep
        <5> QED BY <2>5, <4>2, <5>1
      <4> QED BY <3>2, <4>1, <4>2
    <3>4. Len(rules') <= Len(reports)
      BY <2>5, <3>1 DEF Loop, Typed
    <3> QED BY <2>1, <3>3, <3>4 DEF Loop, ListsInStep
  <2> QED BY <2>2, <2>3, <2>6, <2>7 DEF Loop
<1> QED BY <1>1, <1>2, <1>3 DEF Generalize, lists

LEMMA StepLoop ==
    ASSUME Inv, [Next]_vars, step' # "done"
    PROVE  Loop'
<1>1. CASE Compile
  <2>1. Loop /\ Paced /\ step # "done" /\ UNCHANGED lists
    BY <1>1 DEF Inv, Compile, AtKernel
  <2>2. RecordsNameRules' /\ InHand'
    BY <1>1, <2>1, CatchNames, KeepNames DEF Compile, InHand, lists, Loop
  <2> QED BY <2>1, <2>2, KeepLists DEF Loop
<1>2. CASE Extract
  <2>1. Loop /\ Paced /\ step # "done" /\ UNCHANGED lists
    BY <1>2 DEF Inv, Extract, AtKernel
  <2>2. RecordsNameRules' /\ InHand'
    BY <1>2, <2>1, CatchNames, KeepNames DEF Extract, Continue, InHand, lists, Loop
  <2> QED BY <2>1, <2>2, KeepLists DEF Loop
<1>3. CASE Bind
  BY <1>3, BindLoop DEF Inv, Bind, AtKernel
<1>4. CASE Verify
  BY <1>4, VerifyLoop DEF Inv, Verify, AtKernel
<1>5. CASE Generalize
  BY <1>5, GeneralizeLoop DEF Inv, Generalize, AtKernel
<1>6. CASE Consolidate \/ Done
  BY <1>6 DEF Consolidate, Done, vars
<1>7. CASE UNCHANGED vars
  BY <1>7, KeepLists, KeepNames DEF Inv, Loop, InHand, vars, lists, Kernel
<1> QED BY <1>1, <1>2, <1>3, <1>4, <1>5, <1>6, <1>7 DEF Next

LEMMA Invariant == Spec => []Inv
<1>1. Init => Inv
  BY PipelineConstants DEF Init, Inv, Paced, RecordPerKernel, Objects, Loop, Typed, InHand, ListsInStep,
                           RecordsNameRules
<1>2. Inv /\ [Next]_vars => Inv'
  BY StepPaced, StepLoop DEF Inv
<1> QED BY <1>1, <1>2, PTL DEF Spec

\* The rule number of a record is the number of the rule of its kernel.
THEOREM RecordsNameTheirRules == Spec => []RecordsNameRules
<1>1. Inv => RecordsNameRules
  BY DEF Inv, Loop, RecordsNameRules
<1> QED BY <1>1, Invariant, PTL

(***************************************************************************)
(* The counters.                                                           *)
(***************************************************************************)
Counted ==
    /\ emitted \in Nat /\ skipped \in Nat /\ subsumed \in Nat /\ considered \in Nat
    /\ IsFiniteSet(EmittedRecords)
    /\ CountersDescribeRules
    /\ step # "done" => subsumed = 0

\* A record that is not of an emitted rule does not count.
LEMMA OtherRecordCount ==
    ASSUME Paced, NEW status \in AnyStatus \ {"rule_emitted"}, Record(status, 0)
    PROVE  EmittedRecords' = EmittedRecords
<1>1. PICK n \in Nat : n = Len(records) /\ DOMAIN records = 1..n
  BY DEF Paced
<1>2. /\ DOMAIN records' = 1..(n + 1)
      /\ \A i \in 1..n : records'[i] = records[i]
      /\ records'[n + 1].status # "rule_emitted"
  BY <1>1 DEF Record, Paced
<1>3. \A i \in 1..(n + 1) : i \in 1..n \/ i = n + 1
  OBVIOUS
<1>4. 1..n \subseteq 1..(n + 1)
  OBVIOUS
<1> QED BY <1>1, <1>2, <1>3, <1>4 DEF EmittedRecords, Emitted

LEMMA CatchCount ==
    ASSUME Paced, Catch
    PROVE  EmittedRecords' = EmittedRecords
<1>1. (IF Kernel.expected = "unsupported" THEN "unsupported" ELSE "error") \in AnyStatus \ {"rule_emitted"}
  BY DEF AnyStatus
<1> QED BY <1>1, OtherRecordCount DEF Catch

\* The record of an emitted rule counts once.
LEMMA EmittedRecordCount ==
    ASSUME Paced, IsFiniteSet(EmittedRecords), NEW rule, Record("rule_emitted", rule)
    PROVE  /\ IsFiniteSet(EmittedRecords')
           /\ Cardinality(EmittedRecords') = Cardinality(EmittedRecords) + 1
<1>1. PICK n \in Nat : n = Len(records) /\ DOMAIN records = 1..n
  BY DEF Paced
<1>2. /\ DOMAIN records' = 1..(n + 1)
      /\ \A i \in 1..n : records'[i] = records[i]
      /\ records'[n + 1].status = "rule_emitted"
  BY <1>1 DEF Record, Paced
<1>3. /\ \A i \in 1..(n + 1) : i \in 1..n \/ i = n + 1
      /\ 1..n \subseteq 1..(n + 1) /\ n + 1 \in 1..(n + 1) /\ n + 1 \notin 1..n
  OBVIOUS
<1>4. EmittedRecords' = EmittedRecords \cup {n + 1} /\ n + 1 \notin EmittedRecords
  BY <1>1, <1>2, <1>3 DEF EmittedRecords, Emitted
<1> QED BY <1>4, FS_AddElement

\* Consolidation takes away as many rules as it removes ids: no two rules share one.
LEMMA RemainingCount ==
    ASSUME Typed, RecordsNameRules, step # "done",
           NEW removed \in SUBSET {rules[i].id : i \in DOMAIN rules}
    PROVE  /\ Cardinality(removed) \in 0..Len(rules)
           /\ Len(Remaining(rules, removed)) = Len(rules) - Cardinality(removed)
<1>1. PICK n \in Nat : n = Len(rules) /\ DOMAIN rules = 1..n
  BY DEF Typed
<1>2. \A i \in 1..n : rules[i].id = i
  BY <1>1 DEF RecordsNameRules
<1>3. removed \in SUBSET (1..n)
  BY <1>1, <1>2
<1> DEFINE S == [id : Nat, kernel : Ids]
<1>4. rules \in Seq(S)
  BY DEF Typed
<1> HIDE DEF S
<1> QED BY <1>1, <1>2, <1>3, <1>4, NumberedRemainingCount

LEMMA InitCounted == Init => Counted
<1> SUFFICES ASSUME Init PROVE Counted
  OBVIOUS
<1>1. EmittedRecords = {} /\ Len(rules) = 0
  BY DEF Init, EmittedRecords
<1> QED BY <1>1, FS_EmptySet DEF Init, Counted, CountersDescribeRules, EmittedRecords

LEMMA KeepCounted ==
    ASSUME Counted, EmittedRecords' = EmittedRecords, UNCHANGED <<rules, counters>>,
           step # "done" \/ step' = "done"
    PROVE  Counted'
BY DEF Counted, CountersDescribeRules, counters

LEMMA StepCounted ==
    ASSUME Inv, Counted, [Next]_vars
    PROVE  Counted'
<1>0. Paced
  BY DEF Inv
<1>1. CASE Compile
  <2>1. UNCHANGED <<rules, counters>> /\ step # "done"
    BY <1>1 DEF Compile, AtKernel, lists, counters
  <2>2. CASE Catch
    BY <1>0, <2>1, <2>2, CatchCount, KeepCounted
  <2>3. CASE UNCHANGED records
    BY <2>1, <2>3, KeepCounted DEF EmittedRecords, Emitted
  <2> QED BY <1>1, <2>2, <2>3 DEF Compile
<1>2. CASE Extract \/ Bind
  <2>1. UNCHANGED <<rules, counters>> /\ step # "done"
    BY <1>2 DEF Extract, Bind, AtKernel, lists, counters
  <2>2. CASE Catch
    BY <1>0, <2>1, <2>2, CatchCount, KeepCounted
  <2>3. CASE UNCHANGED records
    BY <2>1, <2>3, KeepCounted DEF EmittedRecords, Emitted
  <2> QED BY <1>2, <2>2, <2>3 DEF Extract, Bind, Continue
<1>3. CASE Verify
  <2>1. UNCHANGED <<rules, counters>> /\ step # "done"
    BY <1>3 DEF Verify, AtKernel, counters
  <2>2. CASE Catch
    BY <1>0, <2>1, <2>2, CatchCount, KeepCounted
  <2>3. ASSUME NEW status \in Statuses,
               IF status = "pass" THEN Continue("generalize")
               ELSE Record(IF status = "fail" THEN "verifier_fail" ELSE status, 0)
        PROVE  Counted'
    <3>1. CASE status = "pass"
      BY <2>1, <2>3, <3>1, KeepCounted DEF EmittedRecords, Emitted, Continue
    <3>2. CASE status # "pass"
      <4>1. (IF status = "fail" THEN "verifier_fail" ELSE status) \in AnyStatus \ {"rule_emitted"}
        BY PipelineConstants DEF AnyStatus
      <4> QED BY <1>0, <2>1, <2>3, <3>2, <4>1, OtherRecordCount, KeepCounted
    <3> QED BY <3>1, <3>2
  <2> QED BY <1>3, <2>2, <2>3 DEF Verify
<1>4. CASE Generalize
  <2>1. considered' = considered + 1 /\ UNCHANGED subsumed /\ step' # "done" /\ step # "done"
    BY <1>4 DEF Generalize, AtKernel, Catch, Record
  <2>2. /\ emitted \in Nat /\ skipped \in Nat /\ considered \in Nat /\ subsumed = 0
        /\ emitted = Len(rules) /\ emitted + skipped <= considered
        /\ Cardinality(EmittedRecords) = emitted /\ IsFiniteSet(EmittedRecords)
    BY <2>1 DEF Counted, CountersDescribeRules
  <2>3. CASE Record("rule_emitted", Len(rules) + 1) /\ emitted' = emitted + 1 /\ UNCHANGED skipped
             /\ rules' = Append(rules, [id |-> Len(rules) + 1, kernel |-> Kernel.id])
    <3>1. IsFiniteSet(EmittedRecords') /\ Cardinality(EmittedRecords') = emitted + 1
      BY <1>0, <2>2, <2>3, EmittedRecordCount
    <3>2. Len(rules') = Len(rules) + 1
      BY <2>1, <2>3 DEF Inv, Loop, Typed
    <3> QED BY <2>1, <2>2, <2>3, <3>1, <3>2 DEF Counted, CountersDescribeRules
  <2>4. CASE UNCHANGED <<rules, emitted, EmittedRecords>> /\ (UNCHANGED skipped \/ skipped' = skipped + 1)
    BY <2>1, <2>2, <2>4 DEF Counted, CountersDescribeRules
  <2>5. CASE Record("rule_skipped", 0) /\ skipped' = skipped + 1 /\ UNCHANGED <<rules, emitted>>
    BY <1>0, <2>4, <2>5, OtherRecordCount DEF AnyStatus
  <2>6. CASE Catch /\ UNCHANGED <<rules, emitted, skipped>>
    BY <1>0, <2>4, <2>6, CatchCount
  <2> QED BY <1>4, <2>3, <2>5, <2>6 DEF Generalize
<1>5. CASE Consolidate
  <2>1. PICK removed \in SUBSET {rules[i].id : i \in DOMAIN rules} :
            /\ rules' = Remaining(rules, removed)
            /\ subsumed' = subsumed + Cardinality(removed)
            /\ emitted' = emitted - Cardinality(removed)
    BY <1>5 DEF Consolidate
  <2>2. step # "done" /\ step' = "done" /\ UNCHANGED <<considered, skipped, records>>
    BY <1>5 DEF Consolidate
  <2>3. /\ Cardinality(removed) \in 0..Len(rules)
        /\ Len(rules') = Len(rules) - Cardinality(removed)
    BY <2>1, <2>2, RemainingCount DEF Inv, Loop
  <2>4. /\ emitted \in Nat /\ skipped \in Nat /\ considered \in Nat /\ subsumed = 0
        /\ emitted = Len(rules) /\ emitted + skipped <= considered
        /\ Cardinality(EmittedRecords) = emitted /\ IsFiniteSet(EmittedRecords)
    BY <2>2 DEF Counted, CountersDescribeRules
  <2>5. EmittedRecords' = EmittedRecords
    BY <2>2 DEF EmittedRecords, Emitted
  <2>6. /\ emitted' \in Nat /\ subsumed' \in Nat /\ emitted' = Len(rules')
        /\ emitted' + skipped + subsumed' <= considered /\ emitted' + subsumed' = emitted
    BY <2>1, <2>3, <2>4
  <2> QED BY <2>2, <2>4, <2>5, <2>6 DEF Counted, CountersDescribeRules
<1>6. CASE Done \/ UNCHANGED vars
  <2>1. UNCHANGED <<rules, counters, records, step>>
    BY <1>6 DEF Done, vars, counters
  <2>2. EmittedRecords' = EmittedRecords
    BY <2>1 DEF EmittedRecords, Emitted
  <2> QED BY <2>1, <2>2, KeepCounted
<1> QED BY <1>1, <1>2, <1>3, <1>4, <1>5, <1>6 DEF Next

\* To the end, consolidation included, the counters describe the rules there are.
THEOREM CountersDescribe == Spec => []CountersDescribeRules
<1>1. Counted => CountersDescribeRules
  BY DEF Counted
<1> QED BY <1>1, InitCounted, StepCounted, Invariant, PTL DEF Spec

\* Consolidation leaves no rule without its passing report.
LEMMA RemainingInStep ==
    ASSUME Typed, ListsInStep, NEW removed, rules' = Remaining(rules, removed), UNCHANGED <<candidates, reports>>
    PROVE  ListsInStep'
<1> DEFINE S == [id : Nat, kernel : Ids]
<1>1. rules \in Seq(S)
  BY DEF Typed
<1> HIDE DEF S
<1>2. rules' \in Seq(S) /\ LeftOf(rules, removed, Len(rules), rules')
  BY <1>1, RemainingPlaces
<1>3. PICK place \in [1..Len(rules') -> 1..Len(rules)] :
          /\ \A k, m \in 1..Len(rules') : k < m => place[k] < place[m]
          /\ \A k \in 1..Len(rules') : rules'[k] = rules[place[k]]
  BY <1>2 DEF LeftOf
<1>4. Len(rules') <= Len(rules)
  <2>1. /\ IsFiniteSet(1..Len(rules)) /\ Cardinality(1..Len(rules)) = Len(rules)
    <3>1. PICK n \in Nat : n = Len(rules)
      BY <1>1
    <3>2. 1 \in Int /\ n \in Int
      BY <3>1
    <3>3. IsFiniteSet(1..n) /\ Cardinality(1..n) = IF 1 > n THEN 0 ELSE n - 1 + 1
      BY <3>2, FS_Interval
    <3> QED BY <3>1, <3>3
  <2>2. {j \in 1..Len(rules) : rules[j].id \notin removed} \in SUBSET (1..Len(rules))
    OBVIOUS
  <2> QED BY <1>2, <2>1, <2>2, FS_Subset DEF LeftOf
<1>5. Len(rules) \in Nat /\ Len(rules') \in Nat /\ Len(rules) <= Len(reports) /\ Len(reports) \in Nat
  BY <1>1, <1>2 DEF Typed, ListsInStep
<1>6. Len(rules') <= Len(reports)
  BY <1>4, <1>5
<1>7. \A i \in 1..Len(rules') :
          \E j \in 1..Len(reports) : reports[j].kernel = rules'[i].kernel /\ reports[j].status = "pass"
  <2> TAKE i \in 1..Len(rules')
  <2>1. place[i] \in 1..Len(rules) /\ rules'[i] = rules[place[i]]
    BY <1>3
  <2>2. \E j \in 1..Len(reports) : reports[j].kernel = rules[place[i]].kernel /\ reports[j].status = "pass"
    BY <2>1 DEF ListsInStep
  <2> QED BY <2>1, <2>2
<1>8. \A i \in 1..Len(reports) : \E j \in 1..Len(candidates) : candidates[j].kernel = reports[i].kernel
  BY DEF ListsInStep
<1>9. Len(reports) <= Len(candidates)
  BY DEF ListsInStep
<1> QED BY <1>6, <1>7, <1>8, <1>9 DEF ListsInStep

LEMMA StepInStep ==
    ASSUME Inv, ListsInStep, [Next]_vars
    PROVE  ListsInStep'
<1>1. CASE step' # "done"
  BY <1>1, StepLoop DEF Loop
<1>2. CASE Consolidate
  <2>1. PICK removed \in SUBSET {rules[i].id : i \in DOMAIN rules} : rules' = Remaining(rules, removed)
    BY <1>2 DEF Consolidate
  <2>2. Typed /\ UNCHANGED <<candidates, reports>>
    BY <1>2 DEF Consolidate, Inv, Loop
  <2> QED BY <2>1, <2>2, RemainingInStep
<1>3. CASE UNCHANGED lists
  BY <1>3 DEF ListsInStep, lists
<1>4. step' = "done" => Consolidate \/ Done \/ UNCHANGED vars
  BY DEF Next, Compile, Extract, Bind, Verify, Generalize, Catch, Record, Continue, AtKernel, vars
<1> QED BY <1>1, <1>2, <1>3, <1>4 DEF Done, vars, lists

\* No report is without its candidate and no rule without a passing report of
\* its kernel, whatever failed on the way and whatever consolidation removed.
THEOREM ListsStayInStep == Spec => []ListsInStep
<1>1. Init => ListsInStep
  BY DEF Init, ListsInStep
<1>2. Inv /\ ListsInStep /\ [Next]_vars => ListsInStep'
  BY StepInStep
<1> QED BY <1>1, <1>2, Invariant, PTL DEF Spec

(***************************************************************************)
(* Candidates.                                                             *)
(***************************************************************************)
\* What build_candidate returns for a kernel it does not refuse.
Accepted == {p \in Range(Kernels) \X Objects : BuildError(p[1], p[2]) = "none"}
Built == {BuildCandidate(p[1], p[2]) : p \in Accepted}
AllBuilt == candidates \in Seq(Built)

LEMMA FirstErrorNone ==
    ASSUME NEW n \in Nat, NEW checks, DOMAIN checks = 1..n, FirstError(checks) = "none"
    PROVE  \A i \in 1..n : checks[i] = "none"
<1> DEFINE failed == {i \in DOMAIN checks : checks[i] # "none"}
<1>1. SUFFICES ASSUME failed # {} PROVE FALSE
  OBVIOUS
<1>2. failed \in SUBSET Nat
  OBVIOUS
<1>3. Min(failed) \in failed
  <2> HIDE DEF failed
  <2> QED BY <1>1, <1>2, MinIsLeast
<1>4. FirstError(checks) = checks[Min(failed)]
  BY <1>1 DEF FirstError
<1> QED BY <1>3, <1>4

\* What the declaration of a kernel with memory has when it is accepted.
LEMMA DeclarationFacts ==
    ASSUME NEW kernel \in Range(Kernels), DeclarationError(kernel) = "none"
    PROVE  /\ kernel.accesses \in Seq(Range(kernel.accesses)) /\ Len(kernel.accesses) = 1
           /\ LET access == kernel.accesses[1]
                  base == Named(kernel.inputs, access.base)
                  index == Named(kernel.inputs, access.index)
              IN  /\ base # {} /\ \A v \in base : v.type = "ptr"
                  /\ access.index = "none" \/ index # {}
<1>1. kernel.accesses \in Seq(Range(kernel.accesses)) /\ Len(kernel.accesses) = 1
  BY KernelLists DEF DeclarationError
<1>2. Len(kernel.objects) = 1
  BY DEF DeclarationError
<1> DEFINE object == kernel.objects[1]
           access == kernel.accesses[1]
           base == Named(kernel.inputs, object.base)
           index == Named(kernel.inputs, access.index)
           checks == <<
            Check(base # {}, "base not found"),
            Check(\A v \in base : v.type = "ptr", "base is not a pointer"),
            Check(access.object = object.name, "object does not match"),
            Check(access.base = object.base, "address base does not match"),
            Check(access.index = "none" \/ index # {}, "index not found"),
            Check(access.index = "none" \/ \A v \in index : v.type = "int" /\ v.bits = 64, "index is not an i64"),
            Check(access.kind = "load" => Named(kernel.outputs, access.value) # {}, "load result not found"),
            Check(access.kind = "store" => Named(kernel.inputs, access.value) # {}, "store value not found"),
            Check(access.bits % 8 = 0, "width not divisible by 8")>>
<1>3. FirstError(checks) = "none"
  BY <1>1, <1>2 DEF DeclarationError
<1>4. DOMAIN checks = 1..9
  OBVIOUS
<1>5. \A i \in 1..9 : checks[i] = "none"
  <2> HIDE DEF checks
  <2> QED BY <1>3, <1>4, FirstErrorNone
<1>6. checks[1] = "none" /\ checks[2] = "none" /\ checks[4] = "none" /\ checks[5] = "none"
  <2> HIDE DEF checks
  <2> QED BY <1>5
<1>7. /\ Check(base # {}, "base not found") = "none"
      /\ Check(\A v \in base : v.type = "ptr", "base is not a pointer") = "none"
      /\ Check(access.base = object.base, "address base does not match") = "none"
      /\ Check(access.index = "none" \/ index # {}, "index not found") = "none"
  BY <1>6
<1>8. /\ base # {} /\ \A v \in base : v.type = "ptr"
      /\ access.base = object.base
      /\ access.index = "none" \/ index # {}
  <2> HIDE DEF base, index, access, object
  <2> QED BY <1>7 DEF Check
<1> QED BY <1>1, <1>8

\* A name that stands among the inputs has its pair among the candidate's inputs.
LEMMA PairOfInput ==
    ASSUME NEW kernel \in Range(Kernels), NEW name, Named(kernel.inputs, name) # {}
    PROVE  \E i \in DOMAIN kernel.inputs :
               kernel.inputs[i].name = name /\ PairOf(kernel, name) = Inputs(kernel)[i]
<1>1. \E i \in DOMAIN kernel.inputs : kernel.inputs[i].name = name
  BY DEF Named, Range
<1> QED BY <1>1 DEF PairOf

LEMMA BuiltKeepsTheABI ==
    ASSUME NEW c \in Built
    PROVE  /\ \A i, j \in DOMAIN c.inputs : \A side \in Side :
                 i # j => c.inputs[i][side].place # c.inputs[j][side].place
           /\ \A b \in Range(c.memory) :
                 LET base == [side \in Side |-> b.address[side].base]
                     inputs == Range(c.inputs)
                 IN  /\ base \in inputs
                     /\ \E r \in Range(c.roles) : r.pair = base /\ r.type = "ptr"
                     /\ Len(b.address["guest"].index) = Len(b.address["host"].index)
                     /\ b.address["guest"].index # <<>> =>
                          [side \in Side |-> b.address[side].index[1]] \in inputs
<1>1. PICK kernel \in Range(Kernels), made \in Objects :
          BuildError(kernel, made) = "none" /\ c = BuildCandidate(kernel, made)
  BY DEF Built, Accepted
<1>2. /\ c.inputs = Inputs(kernel) /\ c.roles = Roles(kernel)
      /\ c.memory = IF HasMemory(kernel) THEN MemoryBindings(kernel) ELSE <<>>
  BY <1>1 DEF BuildCandidate
<1>3. \A i, j \in DOMAIN c.inputs : \A side \in Side :
          i # j => c.inputs[i][side].place # c.inputs[j][side].place
  BY <1>2 DEF Inputs, Pair
<1>4. ASSUME NEW b \in Range(c.memory)
      PROVE  LET base == [side \in Side |-> b.address[side].base]
                 inputs == Range(c.inputs)
             IN  /\ base \in inputs
                 /\ \E r \in Range(c.roles) : r.pair = base /\ r.type = "ptr"
                 /\ Len(b.address["guest"].index) = Len(b.address["host"].index)
                 /\ b.address["guest"].index # <<>> =>
                      [side \in Side |-> b.address[side].index[1]] \in inputs
  <2>1. HasMemory(kernel)
    BY <1>2, <1>4 DEF Range
  <2>2. DeclarationError(kernel) = "none"
    BY <1>1, <2>1 DEF BuildError
  <2> DEFINE a == kernel.accesses[1]
             base == [side \in Side |-> b.address[side].base]
             index == [side \in Side |-> b.address[side].index[1]]
  <2>3. /\ DOMAIN kernel.accesses = {1}
        /\ Named(kernel.inputs, a.base) # {} /\ \A v \in Named(kernel.inputs, a.base) : v.type = "ptr"
        /\ a.index = "none" \/ Named(kernel.inputs, a.index) # {}
    <3>1. kernel.accesses \in Seq(Range(kernel.accesses)) /\ Len(kernel.accesses) = 1
      BY <2>2, DeclarationFacts
    <3>2. DOMAIN kernel.accesses = 1..1
      BY <3>1
    <3> QED BY <2>2, <3>2, DeclarationFacts
  <2>4. ASSUME NEW side \in Side
        PROVE  /\ b.address[side].base = PairOf(kernel, a.base)[side]
               /\ a.index = "none" => b.address[side].index = <<>>
               /\ a.index # "none" => b.address[side].index = <<PairOf(kernel, a.index)[side]>>
    <3>1. b = MemoryBindings(kernel)[1]
      BY <1>2, <2>1, <2>3 DEF MemoryBindings, Range
    <3>2. b.address[side] = [base |-> PairOf(kernel, a.base)[side],
                             index |-> IF a.index = "none" THEN <<>> ELSE <<PairOf(kernel, a.index)[side]>>,
                             scale |-> a.scale, disp |-> a.disp]
      BY <2>3, <3>1 DEF MemoryBindings
    <3> HIDE DEF a
    <3> QED BY <3>2
  <2> HIDE DEF a
  <2>5. PICK i \in DOMAIN kernel.inputs :
            kernel.inputs[i].name = a.base /\ PairOf(kernel, a.base) = Inputs(kernel)[i]
    BY <2>3, PairOfInput
  <2>6. base = Inputs(kernel)[i]
    <3>1. ASSUME NEW side \in Side PROVE base[side] = Inputs(kernel)[i][side]
      <4>1. base[side] = b.address[side].base
        OBVIOUS
      <4>2. b.address[side].base = PairOf(kernel, a.base)[side]
        <5> HIDE DEF base, index
        <5> QED BY <2>4
      <4> QED BY <2>5, <4>1, <4>2
    <3>2. DOMAIN Inputs(kernel)[i] = Side /\ Inputs(kernel)[i] = [side \in Side |-> Inputs(kernel)[i][side]]
      BY DEF Inputs, Pair
    <3> QED BY <3>1, <3>2
  <2>7. base \in Range(c.inputs)
    BY <1>2, <2>6 DEF Range, Inputs
  <2>8. \E r \in Range(c.roles) : r.pair = base /\ r.type = "ptr"
    <3>1. kernel.inputs[i].type = "ptr"
      BY <2>3, <2>5 DEF Named, Range
    <3> DEFINE first == [k \in DOMAIN kernel.inputs |-> [pair |-> Inputs(kernel)[k], type |-> kernel.inputs[k].type]]
               second == [k \in DOMAIN kernel.outputs |-> [pair |-> Outputs(kernel)[k], type |-> kernel.outputs[k].type]]
    <3>2. /\ first \in Seq(Range(first)) /\ second \in Seq(Range(second))
          /\ DOMAIN first = DOMAIN kernel.inputs
      <4>1. PICK n \in Nat : DOMAIN kernel.inputs = 1..n
        BY KernelLists
      <4>2. PICK m \in Nat : DOMAIN kernel.outputs = 1..m
        BY KernelLists
      <4>3. first \in [1..n -> Range(first)] /\ second \in [1..m -> Range(second)]
        BY <4>1, <4>2 DEF Range
      <4> HIDE DEF first, second
      <4> QED BY <4>1, <4>3
    <3>3. first[i].pair = base /\ first[i].type = "ptr"
      BY <2>6, <3>1
    <3>4. c.roles = first \o second
      BY <1>2 DEF Roles
    <3> HIDE DEF first, second
    <3>5. i \in 1..Len(first)
      BY <2>5, <3>2
    <3>6. (first \o second)[i] = first[i] /\ i \in DOMAIN (first \o second)
      BY <3>2, <3>5
    <3> QED BY <3>3, <3>4, <3>6 DEF Range
  <2>9. /\ Len(b.address["guest"].index) = Len(b.address["host"].index)
        /\ b.address["guest"].index # <<>> => index \in Range(c.inputs)
    <3>1. CASE a.index = "none"
      BY <2>4, <3>1 DEF Side
    <3>2. CASE a.index # "none"
      <4>1. PICK k \in DOMAIN kernel.inputs : PairOf(kernel, a.index) = Inputs(kernel)[k]
        BY <2>3, <3>2, PairOfInput
      <4>2. ASSUME NEW side \in Side
            PROVE  /\ b.address[side].index = <<PairOf(kernel, a.index)[side]>>
                   /\ Len(b.address[side].index) = 1
                   /\ b.address[side].index[1] = PairOf(kernel, a.index)[side]
        <5> HIDE DEF base, index
        <5>1. b.address[side].index = <<PairOf(kernel, a.index)[side]>>
          BY <2>4, <3>2
        <5> QED BY <5>1
      <4>3. \A side \in Side : index[side] = Inputs(kernel)[k][side]
        BY <4>1, <4>2
      <4>4. Inputs(kernel)[k] = [side \in Side |-> Inputs(kernel)[k][side]]
        BY DEF Inputs, Pair
      <4>5. index = Inputs(kernel)[k]
        BY <4>3, <4>4
      <4>6. index \in Range(c.inputs)
        BY <1>2, <4>5 DEF Range, Inputs
      <4>7. \A side \in Side : Len(b.address[side].index) = 1
        BY <4>2
      <4> QED BY <4>6, <4>7 DEF Side
    <3> QED BY <3>1, <3>2
  <2> QED BY <2>7, <2>8, <2>9
<1> QED BY <1>3, <1>4

LEMMA StepBuilt ==
    ASSUME Paced, AllBuilt, [Next]_vars
    PROVE  AllBuilt'
<1>1. CASE UNCHANGED candidates
  BY <1>1 DEF AllBuilt
<1>2. CASE candidates' = Append(candidates, BuildCandidate(Kernel, objects)) /\ BuildError(Kernel, objects) = "none"
           /\ AtKernel("bind")
  <2>1. Kernel \in Range(Kernels) /\ objects \in Objects
    BY <1>2, KernelAtWork DEF Paced, AtKernel
  <2> DEFINE p == <<Kernel, objects>>
  <2>2. p \in Accepted /\ p[1] = Kernel /\ p[2] = objects
    BY <1>2, <2>1 DEF Accepted
  <2>3. BuildCandidate(Kernel, objects) \in Built
    BY <2>2 DEF Built
  <2> QED BY <1>2, <2>3 DEF AllBuilt
<1> QED BY <1>1, <1>2
    DEF Next, Compile, Extract, Bind, Verify, Generalize, Consolidate, Done, vars, lists

\* Of every candidate: two inputs never share a register on either side, and its
\* address is made of the registers of its inputs, the base from a pointer.
THEOREM CandidatesFollowTheABI == Spec => []CandidatesKeepTheABI
<1>1. Init => AllBuilt
  BY DEF Init, AllBuilt
<1>2. AllBuilt => CandidatesKeepTheABI
  <2> SUFFICES ASSUME AllBuilt PROVE InputsAreApart /\ AddressesUseInputs
    BY DEF CandidatesKeepTheABI
  <2>1. \A c \in Range(candidates) : c \in Built
    BY DEF Range, AllBuilt
  <2>2. InputsAreApart
    BY <2>1, BuiltKeepsTheABI DEF InputsAreApart
  <2>3. AddressesUseInputs
    BY <2>1, BuiltKeepsTheABI DEF AddressesUseInputs
  <2> QED BY <2>2, <2>3
<1>3. Inv => Paced
  BY DEF Inv
<1>4. Paced /\ AllBuilt /\ [Next]_vars => AllBuilt'
  BY StepBuilt
<1> QED BY <1>1, <1>2, <1>3, <1>4, Invariant, PTL DEF Spec

-----------------------------------------------------------------------------
(* Liveness of a kernel: what the closure over the dependencies reaches is *)
(* what is found by reading the program backwards, since an operation      *)
(* refers to earlier ones only (WrittenInOrder).                           *)
-----------------------------------------------------------------------------
ResultsBefore(n) == {program[m].result : m \in {m \in 1..(n - 1) : HasResult(program[m])}}

WrittenInOrder ==
    /\ program \in Seq(Range(program))
    /\ \A n \in DOMAIN program :
        /\ Refs(program[n]) \subseteq DOMAIN signature.inputs \cup ResultsBefore(n)
        /\ HasResult(program[n]) =>
            /\ program[n].result \notin DOMAIN signature.inputs \cup ResultsBefore(n)
            /\ dependencies[program[n].result] = Refs(program[n])
    /\ DOMAIN dependencies = ResultsBefore(Len(program) + 1)
    /\ DOMAIN values = DOMAIN signature.inputs \cup DOMAIN dependencies
    /\ effectRoots = UNION {Refs(program[n]) : n \in {n \in DOMAIN program : ~HasResult(program[n])}}

\* The program as read so far is in order; its judgement rests on Live.
SchemaInv ==
    /\ WrittenInOrder
    /\ outcome \in {"accepted", "materialized"} =>
        DOMAIN dependencies \cup DOMAIN signature.inputs \subseteq Live(LiveRoots(returned))
    /\ outcome \in {"dead result", "unused input"} =>
        ~(DOMAIN dependencies \cup DOMAIN signature.inputs \subseteq Live(LiveRoots(returned)))

\* The closure, step by step.
LEMMA LiveStepByStep ==
    ASSUME NEW roots, Len(program) \in Nat
    PROVE  \E f : /\ f[0] = roots /\ f[Len(program)] = Live(roots)
                  /\ \A n \in 1..Len(program) : f[n] = OneStep(f[n - 1])
<1> DEFINE N == Len(program)
           X == SUBSET (roots \cup UNION {dependencies[n] : n \in DOMAIN dependencies})
           advance == [p \in X \X (1..N) |-> OneStep(p[1])]
           def(f) == f = [n \in 0..N |-> IF n = 0 THEN roots ELSE OneStep(f[n - 1])]
<1>1. advance \in [X \X (1..N) -> X]
  <2>1. \A live \in X : OneStep(live) \in X
    BY DEF OneStep
  <2> HIDE DEF X
  <2> QED BY <2>1
<1>2. PICK f : f \in Chain(X, roots, advance, N)
  <2>1. roots \in X
    OBVIOUS
  <2> HIDE DEF X, advance
  <2> QED BY <1>1, <2>1, RecursionUp
<1>3. f \in [0..N -> X] /\ f[0] = roots /\ \A n \in 1..N : f[n] = advance[<<f[n - 1], n>>]
  BY <1>2 DEF Chain
<1> HIDE DEF X
<1>4. \A n \in 1..N : f[n] = OneStep(f[n - 1])
  <2> TAKE n \in 1..N
  <2>1. n - 1 \in 0..N
    OBVIOUS
  <2>2. f[n - 1] \in X
    BY <1>3, <2>1
  <2> QED BY <1>3, <2>2
<1>5. def(f)
  <2>1. \A n \in 0..N : f[n] = IF n = 0 THEN roots ELSE OneStep(f[n - 1])
    BY <1>3, <1>4
  <2> QED BY <1>3, <2>1
<1>6. \E g : def(g)
  <2> HIDE DEF def
  <2> QED BY <1>5
<1> DEFINE g == CHOOSE g : def(g)
<1>7. def(g) /\ Live(roots) = g[N]
  <2>1. Live(roots) = g[N]
    BY Zenon DEF Live
  <2> HIDE DEF def
  <2> QED BY <1>6, <2>1
<1>8. g[0] = roots /\ \A n \in 1..N : g[n] = OneStep(g[n - 1])
  <2> HIDE DEF g
  <2> QED BY <1>7
<1> HIDE DEF g
<1> QED BY <1>7, <1>8

\* The reading backwards, step by step.
LEMMA NeededStepByStep ==
    ASSUME NEW return, Len(program) \in Nat
    PROVE  \E f : /\ f[Len(program) + 1] = return /\ f[1] = Needed(return)
                  /\ \A n \in 1..Len(program) :
                        f[n] = f[n + 1] \cup (IF program[n].op = "store" \/ program[n].result \in f[n + 1]
                                              THEN Refs(program[n]) ELSE {})
<1> DEFINE N == Len(program)
           X == SUBSET (return \cup UNION {Refs(program[n]) : n \in 1..N})
           more(need, n) == need \cup (IF program[n].op = "store" \/ program[n].result \in need
                                       THEN Refs(program[n]) ELSE {})
           advance == [p \in X \X (1..N) |-> more(p[1], N + 1 - p[2])]
           def(f) == f = [n \in 1..(N + 1) |->
                            IF n > N THEN return
                            ELSE f[n + 1] \cup (IF program[n].op = "store" \/ program[n].result \in f[n + 1]
                                                THEN Refs(program[n]) ELSE {})]
<1>1. advance \in [X \X (1..N) -> X]
  <2>1. \A need \in X, n \in 1..N : more(need, n) \in X
    OBVIOUS
  <2>2. \A k \in 1..N : N + 1 - k \in 1..N
    OBVIOUS
  <2> HIDE DEF X, more
  <2> QED BY <2>1, <2>2
<1>2. PICK f : f \in Chain(X, return, advance, N)
  <2>1. return \in X
    OBVIOUS
  <2> HIDE DEF X, advance
  <2> QED BY <1>1, <2>1, RecursionUp
<1>3. f \in [0..N -> X] /\ f[0] = return /\ \A n \in 1..N : f[n] = advance[<<f[n - 1], n>>]
  BY <1>2 DEF Chain
<1> HIDE DEF X, more
<1>4. \A n \in 1..N : f[n] = more(f[n - 1], N + 1 - n)
  <2> TAKE n \in 1..N
  <2>1. n - 1 \in 0..N
    OBVIOUS
  <2>2. f[n - 1] \in X
    BY <1>3, <2>1
  <2> QED BY <1>3, <2>2
<1> DEFINE back == [n \in 1..(N + 1) |-> f[N + 1 - n]]
<1>5. \A n \in 1..N : back[n] = more(back[n + 1], n)
  <2> TAKE n \in 1..N
  <2>1. /\ N + 1 - n \in 1..N /\ N + 1 - (N + 1 - n) = n /\ (N + 1 - n) - 1 = N + 1 - (n + 1)
        /\ n \in 1..(N + 1) /\ n + 1 \in 1..(N + 1)
    OBVIOUS
  <2>2. back[n] = f[N + 1 - n] /\ back[n + 1] = f[N + 1 - (n + 1)]
    BY <2>1
  <2> HIDE DEF back
  <2> QED BY <1>4, <2>1, <2>2
<1>6. back[N + 1] = return
  <2>1. N + 1 \in 1..(N + 1) /\ N + 1 - (N + 1) = 0
    OBVIOUS
  <2> QED BY <1>3, <2>1
<1>7. def(back)
  <2>1. \A n \in 1..(N + 1) : ~(n > N) => n \in 1..N
    OBVIOUS
  <2>2. \A n \in 1..(N + 1) : n > N => n = N + 1
    OBVIOUS
  <2>3. back = [n \in 1..(N + 1) |-> back[n]]
    OBVIOUS
  <2> HIDE DEF back
  <2>4. \A n \in 1..(N + 1) : back[n] = IF n > N THEN return
                                        ELSE back[n + 1] \cup
                                             (IF program[n].op = "store" \/ program[n].result \in back[n + 1]
                                              THEN Refs(program[n]) ELSE {})
    BY <1>5, <1>6, <2>1, <2>2 DEF more
  <2> QED BY <2>3, <2>4
<1>8. \E g : def(g)
  <2> HIDE DEF def, back
  <2> QED BY <1>7
<1> DEFINE g == CHOOSE g : def(g)
<1>9. def(g) /\ Needed(return) = g[1]
  <2>1. Needed(return) = g[1]
    BY Zenon DEF Needed, NeededFrom
  <2> HIDE DEF def
  <2> QED BY <1>8, <2>1
<1>10. /\ g[N + 1] = return
       /\ \A n \in 1..N : g[n] = g[n + 1] \cup (IF program[n].op = "store" \/ program[n].result \in g[n + 1]
                                               THEN Refs(program[n]) ELSE {})
  <2>1. N + 1 \in 1..(N + 1) /\ N + 1 > N /\ \A n \in 1..N : n \in 1..(N + 1) /\ ~(n > N)
    OBVIOUS
  <2> HIDE DEF g
  <2> QED BY <1>9, <2>1
<1> HIDE DEF g
<1> QED BY <1>9, <1>10

\* Both ways find the same names.
LEMMA LiveIsNeeded ==
    ASSUME WrittenInOrder, NEW return
    PROVE  Live(LiveRoots(return)) = Needed(return)
<1> DEFINE N == Len(program)
<1>1. N \in Nat /\ DOMAIN program = 1..N
  BY DEF WrittenInOrder
<1>2. PICK live : /\ live[0] = LiveRoots(return) /\ live[N] = Live(LiveRoots(return))
                  /\ \A n \in 1..N : live[n] = OneStep(live[n - 1])
  BY <1>1, LiveStepByStep
<1>3. PICK need : /\ need[N + 1] = return /\ need[1] = Needed(return)
                  /\ \A n \in 1..N :
                        need[n] = need[n + 1] \cup (IF program[n].op = "store" \/ program[n].result \in need[n + 1]
                                                    THEN Refs(program[n]) ELSE {})
  BY <1>1, NeededStepByStep
<1>4. \A n \in 1..N : HasResult(program[n]) =>
        program[n].result \in DOMAIN dependencies /\ dependencies[program[n].result] = Refs(program[n])
  BY <1>1 DEF WrittenInOrder, ResultsBefore
<1>5. \A n \in 1..N : ~HasResult(program[n]) => Refs(program[n]) \subseteq effectRoots
  BY <1>1 DEF WrittenInOrder
<1>6. need[1] \subseteq live[N]
  <2> DEFINE P == {n \in 1..(N + 1) : need[n] \subseteq live[N + 1 - n] /\ effectRoots \subseteq live[N + 1 - n]}
  <2>1. N + 1 \in P
    <3>1. N + 1 - (N + 1) = 0 /\ N + 1 \in 1..(N + 1)
      BY <1>1
    <3> QED BY <1>2, <1>3, <3>1 DEF LiveRoots
  <2>2. ASSUME NEW n \in (1 + 1)..(N + 1), n \in P PROVE n - 1 \in P
    <3> DEFINE k == N + 1 - n
               o == program[n - 1]
    <3>1. n - 1 \in 1..N /\ (n - 1) + 1 = n /\ n - 1 \in 1..(N + 1) /\ N + 1 - (n - 1) = k + 1
          /\ k + 1 \in 1..N /\ (k + 1) - 1 = k
      BY <1>1
    <3> HIDE DEF k
    <3>2. need[n] \subseteq live[k] /\ effectRoots \subseteq live[k]
      BY <2>2 DEF k
    <3>3. live[k + 1] = OneStep(live[k])
      BY <1>2, <3>1
    <3>4. live[k] \subseteq live[k + 1]
      BY <3>3 DEF OneStep
    <3>5. need[n - 1] = need[n] \cup (IF o.op = "store" \/ o.result \in need[n] THEN Refs(o) ELSE {})
      BY <1>3, <3>1
    <3>6. o.op = "store" => Refs(o) \subseteq live[k]
      BY <1>5, <3>1, <3>2 DEF HasResult
    <3>7. o.op # "store" /\ o.result \in need[n] => Refs(o) \subseteq live[k + 1]
      <4> HAVE o.op # "store" /\ o.result \in need[n]
      <4>1. o.result \in live[k] \cap DOMAIN dependencies /\ dependencies[o.result] = Refs(o)
        BY <1>4, <3>1, <3>2 DEF HasResult
      <4> HIDE DEF o
      <4> QED BY <3>3, <4>1 DEF OneStep
    <3>8. need[n - 1] \subseteq live[k + 1] /\ effectRoots \subseteq live[k + 1]
      BY <3>2, <3>4, <3>5, <3>6, <3>7
    <3> QED BY <3>1, <3>8
  <2> HIDE DEF P
  <2>3. 1 \in Int /\ N + 1 \in Int /\ 1 \in 1..(N + 1) /\ N + 1 - 1 = N
    BY <1>1
  <2>4. 1 \in P
    BY <2>1, <2>2, <2>3, InductionDown
  <2> QED BY <2>3, <2>4 DEF P
<1>7. \A n \in 1..(N + 1) :
        /\ need[n] \subseteq need[1]
        /\ need[1] \subseteq need[n] \cup DOMAIN signature.inputs \cup ResultsBefore(n - 1)
  <2> DEFINE P == {n \in 1..(N + 1) : need[n] \subseteq need[1]
                        /\ need[1] \subseteq need[n] \cup DOMAIN signature.inputs \cup ResultsBefore(n - 1)}
  <2>1. 1 \in P
    BY <1>1
  <2>2. ASSUME NEW n \in 1..((N + 1) - 1), n \in P PROVE n + 1 \in P
    <3>1. n \in 1..N /\ n + 1 \in 1..(N + 1) /\ (n + 1) - 1 = n
      BY <1>1
    <3>2. Refs(program[n]) \subseteq DOMAIN signature.inputs \cup ResultsBefore(n)
      BY <1>1, <3>1 DEF WrittenInOrder
    <3>3. ResultsBefore(n - 1) \subseteq ResultsBefore(n)
      BY <3>1 DEF ResultsBefore
    <3>4. need[n + 1] \subseteq need[n] /\ need[n] \subseteq need[n + 1] \cup Refs(program[n])
      BY <1>3, <3>1
    <3> QED BY <2>2, <3>1, <3>2, <3>3, <3>4
  <2> HIDE DEF P
  <2>3. 1 \in Int /\ N + 1 \in Int
    BY <1>1
  <2>4. \A n \in 1..(N + 1) : n \in P
    BY <2>1, <2>2, <2>3, InductionBetween
  <2> QED BY <2>4 DEF P
<1>8. ASSUME NEW n \in 1..N, HasResult(program[n]), program[n].result \in need[1]
      PROVE  Refs(program[n]) \subseteq need[1]
  <2>1. n + 1 \in 1..(N + 1) /\ (n + 1) - 1 = n /\ n \in 1..(N + 1)
    BY <1>1
  <2>2. need[1] \subseteq need[n + 1] \cup DOMAIN signature.inputs \cup ResultsBefore(n)
    BY <1>7, <2>1
  <2>3. program[n].result \in need[n + 1]
    BY <1>1, <1>8, <2>2 DEF WrittenInOrder
  <2>4. Refs(program[n]) \subseteq need[n]
    BY <1>3, <2>3
  <2> QED BY <1>7, <2>1, <2>4
<1>9. ASSUME NEW n \in 1..N, ~HasResult(program[n]) PROVE Refs(program[n]) \subseteq need[1]
  <2>1. Refs(program[n]) \subseteq need[n] /\ n \in 1..(N + 1)
    BY <1>1, <1>3, <1>9 DEF HasResult
  <2> QED BY <1>7, <2>1
<1>10. live[N] \subseteq need[1]
  <2> DEFINE P == {n \in 0..N : live[n] \subseteq need[1]}
  <2>1. 0 \in P
    <3>1. return \subseteq need[1]
      BY <1>1, <1>3, <1>7
    <3>2. effectRoots \subseteq need[1]
      BY <1>1, <1>9 DEF WrittenInOrder
    <3> QED BY <1>1, <1>2, <3>1, <3>2 DEF LiveRoots
  <2>2. ASSUME NEW n \in 0..(N - 1), n \in P PROVE n + 1 \in P
    <3>1. n + 1 \in 1..N /\ (n + 1) - 1 = n /\ n + 1 \in 0..N
      BY <1>1
    <3>2. live[n + 1] = OneStep(live[n]) /\ live[n] \subseteq need[1]
      BY <1>2, <2>2, <3>1
    <3>3. ASSUME NEW x \in live[n] \cap DOMAIN dependencies PROVE dependencies[x] \subseteq need[1]
      <4>1. PICK m \in 1..N : HasResult(program[m]) /\ program[m].result = x
        BY <1>1 DEF WrittenInOrder, ResultsBefore
      <4>2. x \in need[1]
        BY <3>2
      <4> QED BY <1>4, <1>8, <4>1, <4>2
    <3>4. live[n + 1] \subseteq need[1]
      BY <3>2, <3>3 DEF OneStep
    <3> QED BY <3>1, <3>4
  <2> HIDE DEF P
  <2>3. 0 \in Int /\ N \in Int /\ N \in 0..N
    BY <1>1
  <2>4. N \in P
    BY <2>1, <2>2, <2>3, InductionBetween
  <2> QED BY <2>4 DEF P
<1>11. live[N] = need[1]
  BY <1>6, <1>10
<1> QED BY <1>2, <1>3, <1>11, Zenon

\* An operation is read, or the kernel is rejected.
LEMMA ReadOrReject ==
    ASSUME ReadOperation
    PROVE  \/ /\ outcome' \in {"unknown or forward reference", "invalid operation", "duplicate value"}
              /\ UNCHANGED <<signature, memoryObjects, program, values, dependencies, effectRoots, returned>>
           \/ \E o \in Operations(signature) :
              /\ Refs(o) \subseteq DOMAIN values /\ ValidOperation(o)
              /\ HasResult(o) => o.result \notin DOMAIN values
              /\ program' = Append(program, o)
              /\ IF HasResult(o)
                 THEN /\ dependencies' = [n \in DOMAIN dependencies \cup {o.result} |->
                                            IF n = o.result THEN Refs(o) ELSE dependencies[n]]
                      /\ values' = [n \in DOMAIN values \cup {o.result} |->
                                        IF n = o.result THEN o.type ELSE values[n]]
                      /\ effectRoots' = effectRoots
                 ELSE /\ effectRoots' = effectRoots \cup Refs(o)
                      /\ values' = values /\ dependencies' = dependencies
              /\ signature' = signature /\ memoryObjects' = memoryObjects
              /\ outcome = "open" /\ outcome' = outcome /\ returned' = returned
BY DEF ReadOperation, Reject, checking

LEMMA ReadKeepsOrder ==
    ASSUME WrittenInOrder, NEW o, program' = Append(program, o),
           Refs(o) \subseteq DOMAIN values, HasResult(o) => o.result \notin DOMAIN values,
           signature' = signature,
           IF HasResult(o)
           THEN /\ dependencies' = [n \in DOMAIN dependencies \cup {o.result} |->
                                      IF n = o.result THEN Refs(o) ELSE dependencies[n]]
                /\ values' = [n \in DOMAIN values \cup {o.result} |-> IF n = o.result THEN o.type ELSE values[n]]
                /\ effectRoots' = effectRoots
           ELSE /\ effectRoots' = effectRoots \cup Refs(o)
                /\ values' = values /\ dependencies' = dependencies
    PROVE  WrittenInOrder'
<1> PICK N : N = Len(program)
  OBVIOUS
<1> DEFINE I == DOMAIN signature.inputs
<1>1. N \in Nat /\ DOMAIN program = 1..N /\ program \in Seq(Range(program) \cup {o})
  <2>1. Range(program) \subseteq Range(program) \cup {o}
    OBVIOUS
  <2> QED BY <2>1 DEF WrittenInOrder
<1>2. /\ program' \in Seq(Range(program) \cup {o}) /\ Len(program') = N + 1
      /\ DOMAIN program' = 1..(N + 1) /\ program'[N + 1] = o
      /\ \A n \in 1..N : program'[n] = program[n]
  BY <1>1, AppendProperties
<1>3. program' \in Seq(Range(program'))
  <2>1. \A n \in 1..Len(program') : program'[n] \in Range(program')
    BY <1>2 DEF Range
  <2> QED BY <1>2, <2>1
<1>4. \A n \in 1..(N + 1) : ResultsBefore(n)' = ResultsBefore(n)
  <2> TAKE n \in 1..(N + 1)
  <2>1. \A m \in 1..(n - 1) : m \in 1..N /\ program'[m] = program[m]
    BY <1>1, <1>2
  <2> QED BY <2>1 DEF ResultsBefore, HasResult
<1>5. ResultsBefore(N + 2)' = ResultsBefore(N + 1) \cup (IF HasResult(o) THEN {o.result} ELSE {})
  <2>1. (N + 2) - 1 = N + 1 /\ (N + 1) - 1 = N /\ \A m : m \in 1..(N + 1) <=> m \in 1..N \/ m = N + 1
    BY <1>1
  <2> QED BY <1>2, <2>1 DEF ResultsBefore, HasResult
<1>6. /\ DOMAIN dependencies = ResultsBefore(N + 1) /\ DOMAIN values = I \cup DOMAIN dependencies
      /\ effectRoots = UNION {Refs(program[n]) : n \in {n \in DOMAIN program : ~HasResult(program[n])}}
  BY DEF WrittenInOrder
<1>7. /\ DOMAIN dependencies' = ResultsBefore(N + 2)'
      /\ DOMAIN values' = I \cup DOMAIN dependencies'
  BY <1>5, <1>6
<1>8. ASSUME NEW n \in 1..(N + 1)
      PROVE  /\ Refs(program'[n]) \subseteq I \cup ResultsBefore(n)'
             /\ HasResult(program'[n]) =>
                /\ program'[n].result \notin I \cup ResultsBefore(n)'
                /\ dependencies'[program'[n].result] = Refs(program'[n])
  <2>1. CASE n = N + 1
    BY <1>2, <1>4, <1>6, <2>1
  <2>2. CASE n \in 1..N
    <3>1. program'[n] = program[n] /\ ResultsBefore(n)' = ResultsBefore(n)
      BY <1>2, <1>4, <2>2
    <3>2. /\ Refs(program[n]) \subseteq I \cup ResultsBefore(n)
          /\ HasResult(program[n]) =>
             /\ program[n].result \notin I \cup ResultsBefore(n)
             /\ dependencies[program[n].result] = Refs(program[n])
      BY <1>1, <2>2 DEF WrittenInOrder
    <3>3. HasResult(program[n]) => program[n].result \in DOMAIN dependencies
      BY <1>1, <1>6, <2>2 DEF ResultsBefore
    <3>4. HasResult(program[n]) => dependencies'[program[n].result] = dependencies[program[n].result]
      BY <1>6, <3>3
    <3> QED BY <3>1, <3>2, <3>4
  <2> QED BY <1>1, <2>1, <2>2
<1>9. effectRoots' = UNION {Refs(program'[n]) : n \in {n \in DOMAIN program' : ~HasResult(program'[n])}}
  <2> DEFINE stores == {n \in DOMAIN program : ~HasResult(program[n])}
             stores1 == {n \in DOMAIN program' : ~HasResult(program'[n])}
  <2>1. stores1 = stores \cup (IF HasResult(o) THEN {} ELSE {N + 1})
    BY <1>1, <1>2
  <2>2. \A n \in stores : program'[n] = program[n]
    BY <1>1, <1>2
  <2> HIDE DEF stores, stores1
  <2>3. UNION {Refs(program'[n]) : n \in stores} = UNION {Refs(program[n]) : n \in stores}
    BY <2>2
  <2>4. CASE HasResult(o)
    BY <1>6, <2>1, <2>3, <2>4 DEF stores, stores1
  <2>5. CASE ~HasResult(o)
    <3> DEFINE R(n) == Refs(program'[n])
    <3>2. stores1 = stores \cup {N + 1} /\ R(N + 1) = Refs(o)
      BY <1>2, <2>1, <2>5
    <3> HIDE DEF R
    <3>3. UNION {R(n) : n \in stores1} = (UNION {R(n) : n \in stores}) \cup Refs(o)
      BY <3>2
    <3>1. UNION {Refs(program'[n]) : n \in stores1} = (UNION {Refs(program'[n]) : n \in stores}) \cup Refs(o)
      BY <3>3 DEF R
    <3> QED BY <1>6, <2>3, <2>5, <3>1 DEF stores, stores1
  <2> QED BY <2>4, <2>5
<1>10. \A x : Refs(x)' = Refs(x) /\ HasResult(x)' = HasResult(x)
  BY DEF Refs, Names, AddressNames, HasResult
<1>11. Len(program') + 1 = N + 2
  BY <1>1, <1>2
<1> QED BY <1>2, <1>3, <1>7, <1>8, <1>9, <1>10, <1>11 DEF WrittenInOrder

LEMMA SchemaInvHolds == SchemaSpec => []SchemaInv
<1>1. SchemaInit => SchemaInv
  <2> SUFFICES ASSUME SchemaInit PROVE SchemaInv
    OBVIOUS
  <2>1. /\ program = <<>> /\ values = signature.inputs /\ DOMAIN dependencies = {} /\ effectRoots = {}
        /\ outcome = "open"
    BY DEF SchemaInit
  <2>2. Len(program) = 0 /\ DOMAIN program = {} /\ program \in Seq(Range(program)) /\ 0 + 1 - 1 = 0 /\ 1..0 = {}
    BY <2>1
  <2>3. ResultsBefore(Len(program) + 1) = {}
    BY <2>2 DEF ResultsBefore
  <2> QED BY <2>1, <2>2, <2>3 DEF SchemaInv, WrittenInOrder
<1>2. SchemaInv /\ [SchemaNext]_schemaVars => SchemaInv'
  <2> SUFFICES ASSUME SchemaInv, [SchemaNext]_schemaVars PROVE SchemaInv'
    OBVIOUS
  <2>0. ASSUME UNCHANGED <<signature, program, values, dependencies, effectRoots>>
        PROVE  WrittenInOrder' /\ \A r : Live(LiveRoots(r))' = Live(LiveRoots(r))
    <3>1. WrittenInOrder'
      <4>1. /\ signature' = signature /\ program' = program /\ values' = values
            /\ dependencies' = dependencies /\ effectRoots' = effectRoots
        BY <2>0
      <4>2. \A n : ResultsBefore(n)' = ResultsBefore(n)
        BY <4>1 DEF ResultsBefore
      <4>3. WrittenInOrder
        BY DEF SchemaInv
      <4> QED BY <4>1, <4>2, <4>3 DEF WrittenInOrder
    <3>2. \A r : Live(LiveRoots(r))' = Live(LiveRoots(r))
      BY <2>0 DEF Live, LiveRoots, OneStep
    <3> QED BY <3>1, <3>2
  <2>1. CASE ReadOperation
    <3>1. CASE /\ outcome' \in {"unknown or forward reference", "invalid operation", "duplicate value"}
               /\ UNCHANGED <<signature, memoryObjects, program, values, dependencies, effectRoots, returned>>
      BY <2>0, <3>1 DEF SchemaInv
    <3>2. ASSUME NEW o \in Operations(signature),
                 /\ Refs(o) \subseteq DOMAIN values /\ ValidOperation(o)
                 /\ HasResult(o) => o.result \notin DOMAIN values
                 /\ program' = Append(program, o)
                 /\ IF HasResult(o)
                    THEN /\ dependencies' = [n \in DOMAIN dependencies \cup {o.result} |->
                                               IF n = o.result THEN Refs(o) ELSE dependencies[n]]
                         /\ values' = [n \in DOMAIN values \cup {o.result} |->
                                           IF n = o.result THEN o.type ELSE values[n]]
                         /\ effectRoots' = effectRoots
                    ELSE /\ effectRoots' = effectRoots \cup Refs(o)
                         /\ values' = values /\ dependencies' = dependencies
                 /\ signature' = signature /\ memoryObjects' = memoryObjects
                 /\ outcome = "open" /\ outcome' = outcome /\ returned' = returned
          PROVE  SchemaInv'
      <4>1. WrittenInOrder'
        BY <3>2, ReadKeepsOrder DEF SchemaInv
      <4> QED BY <3>2, <4>1 DEF SchemaInv
    <3> QED BY <2>1, <3>1, <3>2, ReadOrReject
  <2>2. CASE CheckWhole
    <3>1. PICK return : outcome' = Whole(return) /\ returned' = return
      BY <2>2 DEF CheckWhole
    <3>2. WrittenInOrder' /\ Live(LiveRoots(return))' = Live(LiveRoots(return))
          /\ dependencies' = dependencies /\ signature' = signature
      BY <2>0, <2>2 DEF CheckWhole, checking
    <3>3. /\ Whole(return) \in {"accepted", "materialized"} =>
                DOMAIN dependencies \cup DOMAIN signature.inputs \subseteq Live(LiveRoots(return))
          /\ Whole(return) \in {"dead result", "unused input"} =>
                ~(DOMAIN dependencies \cup DOMAIN signature.inputs \subseteq Live(LiveRoots(return)))
      BY DEF Whole
    <3>4. Live(LiveRoots(returned))' = Live(LiveRoots(return))
      BY <3>1, <3>2
    <3> QED BY <3>1, <3>2, <3>3, <3>4 DEF SchemaInv
  <2>3. CASE Materialize
    <3>1. outcome = "accepted" /\ outcome' = "materialized"
          /\ UNCHANGED <<signature, program, values, dependencies, effectRoots, returned>>
      BY <2>3 DEF Materialize, checking
    <3> QED BY <2>0, <3>1 DEF SchemaInv
  <2>4. CASE UNCHANGED schemaVars
    <3>1. UNCHANGED <<signature, program, values, dependencies, effectRoots, returned, outcome>>
      BY <2>4 DEF schemaVars
    <3> QED BY <2>0, <3>1 DEF SchemaInv
  <2> QED BY <2>1, <2>2, <2>3, <2>4 DEF SchemaNext, SchemaDone
<1> QED BY <1>1, <1>2, PTL DEF SchemaSpec

\* KernelSchema.__post_init__ rejects a kernel for a dead result or an unused
\* input exactly when one of its names is not needed for what it returns or
\* stores, however the dependencies chain.
THEOREM ClosureFindsTheDead == SchemaSpec => []LivenessIsExact
<1>1. SchemaInv => LivenessIsExact
  <2> SUFFICES ASSUME SchemaInv PROVE LivenessIsExact
    OBVIOUS
  <2>1. Live(LiveRoots(returned)) = Needed(returned) /\ DOMAIN values = DOMAIN signature.inputs \cup DOMAIN dependencies
    BY LiveIsNeeded DEF SchemaInv, WrittenInOrder
  <2> QED BY <2>1 DEF SchemaInv, LivenessIsExact
<1> QED BY <1>1, SchemaInvHolds, PTL

\* What the validation of an access leaves on record: it addresses whole
\* elements of its object.
InElements(o, held) ==
    LET bits == held[o.object].bits
        bytes == bits \div 8
    IN  /\ bits \in Nat \ {0} /\ bits % 8 = 0
        /\ o.address.scale \in Int /\ o.address.disp \in Int
        /\ o.address.disp % bytes = 0
        /\ o.address.index # "none" => o.address.scale = bytes

AccessesInElements ==
    /\ signature \in Signatures /\ memoryObjects \in ObjectSets(signature)
    /\ program \in Seq(Operations(signature))
    /\ \A n \in DOMAIN program : program[n].op \in Memory => InElements(program[n], memoryObjects)

\* Multiples of an element are equal or an element apart.
LEMMA Multiples ==
    ASSUME NEW bytes \in Nat \ {0}, NEW m \in Int
    PROVE  bytes * m = 0 \/ bytes * m >= bytes \/ -(bytes * m) >= bytes
<1>1. CASE m = 0
  BY <1>1
<1>2. CASE m >= 1
  <2>1. bytes * m = bytes + bytes * (m - 1) /\ bytes * (m - 1) >= 0
    BY <1>2
  <2> QED BY <2>1
<1>3. CASE m <= -1
  <2>1. -(bytes * m) = bytes + bytes * (-m - 1) /\ bytes * (-m - 1) >= 0
    BY <1>3
  <2> QED BY <2>1
<1> QED BY <1>1, <1>2, <1>3

\* Division.
LEMMA DivisionWithRest ==
    ASSUME NEW x \in Int, NEW b \in Nat \ {0}
    PROVE  x \div b \in Int /\ x = b * (x \div b) + (x % b)
OBVIOUS

\* A validated access starts at a multiple of its element.
LEMMA StartsAtElement ==
    ASSUME NEW o, NEW held, InElements(o, held), NEW i \in Int
    PROVE  LET bytes == ElementBytes(held[o.object])
               a == o.address
           IN  /\ bytes \in Nat \ {0}
               /\ \E m \in Int : (IF a.index = "none" THEN 0 ELSE i * a.scale) + a.disp = bytes * m
<1> DEFINE bits == held[o.object].bits
           bytes == bits \div 8
           a == o.address
<1>1. /\ bits \in Nat \ {0} /\ bits % 8 = 0 /\ a.scale \in Int /\ a.disp \in Int
      /\ a.disp % bytes = 0
      /\ a.index # "none" => a.scale = bytes
  BY DEF InElements
<1>2. bytes \in Nat \ {0}
  <2> HIDE DEF bits
  <2> QED BY <1>1
<1> DEFINE k == a.disp \div bytes
<1>3. k \in Int /\ a.disp = bytes * k
  <2> HIDE DEF bytes
  <2>1. a.disp \div bytes \in Int /\ a.disp = bytes * (a.disp \div bytes) + (a.disp % bytes)
    BY <1>1, <1>2, DivisionWithRest
  <2>2. a.disp % bytes = 0 /\ bytes * (a.disp \div bytes) \in Int
    BY <1>1, <1>2, <2>1
  <2> QED BY <2>1, <2>2
<1> HIDE DEF k, bytes
<1>4. CASE a.index = "none"
  BY <1>2, <1>3, <1>4 DEF ElementBytes, bytes
<1>5. CASE a.index # "none"
  <2>1. i * a.scale + a.disp = bytes * (i + k)
    <3>1. a.scale = bytes
      BY <1>1, <1>5
    <3>2. i * bytes + bytes * k = bytes * (i + k)
      BY <1>2, <1>3
    <3> QED BY <1>3, <3>1, <3>2
  <2>2. i + k \in Int
    BY <1>3
  <2> QED BY <1>2, <1>5, <2>1, <2>2 DEF ElementBytes, bytes
<1> QED BY <1>4, <1>5

LEMMA AccessesInElementsHolds == SchemaSpec => []AccessesInElements
<1>1. SchemaInit => AccessesInElements
  BY DEF SchemaInit, AccessesInElements
<1>2. AccessesInElements /\ [SchemaNext]_schemaVars => AccessesInElements'
  <2> SUFFICES ASSUME AccessesInElements, [SchemaNext]_schemaVars PROVE AccessesInElements'
    OBVIOUS
  <2>0. ASSUME signature' = signature, memoryObjects' = memoryObjects, program' = program
        PROVE  AccessesInElements'
    BY <2>0 DEF AccessesInElements
  <2>1. CASE ReadOperation
    <3>1. ASSUME NEW o \in Operations(signature), ValidOperation(o), program' = Append(program, o),
                 signature' = signature, memoryObjects' = memoryObjects
          PROVE  AccessesInElements'
      <4>1. /\ program' \in Seq(Operations(signature))
            /\ \A n \in DOMAIN program' :
                 (n \in DOMAIN program /\ program'[n] = program[n]) \/ program'[n] = o
        <5>1. program \in Seq(Operations(signature))
          BY DEF AccessesInElements
        <5> QED BY <3>1, <5>1, AppendProperties
      <4>2. o.op \in Memory => InElements(o, memoryObjects)
        <5> HAVE o.op \in Memory
        <5> DEFINE bits == memoryObjects[o.object].bits
        <5>1. o.op \notin Binary /\ o.op \notin {"icmp", "trunc", "zext", "sext", "select"}
          BY DEF Binary, Memory
        <5>2. /\ o.object \in DOMAIN memoryObjects
              /\ ValidAddress(o.address, memoryObjects[o.object])
              /\ bits # 0
          BY <3>1, <5>1 DEF ValidOperation, Ptr
        <5>3. o.address.scale \in Int /\ o.address.disp \in Int /\ bits \in Nat
          BY <5>2, SchemasAreTyped DEF AccessesInElements
        <5> QED BY <5>2, <5>3 DEF InElements, ValidAddress, ElementBytes
      <4>3. \A n \in DOMAIN program' : program'[n].op \in Memory => InElements(program'[n], memoryObjects)
        BY <4>1, <4>2 DEF AccessesInElements
      <4> QED BY <3>1, <4>1, <4>3 DEF AccessesInElements
    <3> QED BY <2>0, <2>1, <3>1, ReadOrReject
  <2>2. CASE CheckWhole \/ Materialize \/ UNCHANGED schemaVars
    <3>1. signature' = signature /\ memoryObjects' = memoryObjects /\ program' = program
      BY <2>2 DEF CheckWhole, Materialize, checking, schemaVars
    <3> QED BY <2>0, <3>1
  <2> QED BY <2>1, <2>2 DEF SchemaNext, SchemaDone
<1> QED BY <1>1, <1>2, PTL DEF SchemaSpec

\* Whatever _validate_address lets through, two accesses of one object touch
\* the same bytes or none in common, at every value of their indices.
THEOREM NoStraddling == SchemaSpec => [](ApartAt(Int) /\ AccessesDoNotStraddle)
<1>1. AccessesInElements => ApartAt(Int)
  <2> SUFFICES ASSUME AccessesInElements, NEW m \in DOMAIN program, NEW n \in DOMAIN program,
                      program[m].op \in Memory, program[n].op \in Memory, program[m].object = program[n].object,
                      NEW i \in Int, NEW j \in Int
               PROVE  LET a == program[m].address
                          b == program[n].address
                          bytes == ElementBytes(memoryObjects[program[m].object])
                          start(x, k) == (IF x.index = "none" THEN 0 ELSE k * x.scale) + x.disp
                          gap == start(a, i) - start(b, j)
                      IN  gap = 0 \/ gap >= bytes \/ -gap >= bytes
    BY DEF ApartAt
  <2> DEFINE a == program[m].address
             b == program[n].address
             bytes == ElementBytes(memoryObjects[program[m].object])
             start(x, k) == (IF x.index = "none" THEN 0 ELSE k * x.scale) + x.disp
  <2>1. InElements(program[m], memoryObjects) /\ InElements(program[n], memoryObjects)
    BY DEF AccessesInElements
  <2>2. bytes \in Nat \ {0} /\ \E p \in Int : start(a, i) = bytes * p
    BY <2>1, StartsAtElement
  <2>3. \E q \in Int : start(b, j) = bytes * q
    <3>1. ElementBytes(memoryObjects[program[n].object]) = bytes
      OBVIOUS
    <3>2. \E q \in Int : start(b, j) = ElementBytes(memoryObjects[program[n].object]) * q
      BY <2>1, StartsAtElement
    <3> QED BY <3>1, <3>2
  <2> HIDE DEF start, bytes
  <2>4. PICK p \in Int, q \in Int : start(a, i) = bytes * p /\ start(b, j) = bytes * q
    BY <2>2, <2>3
  <2>5. start(a, i) - start(b, j) = bytes * (p - q) /\ p - q \in Int
    BY <2>2, <2>4
  <2>6. bytes * (p - q) = 0 \/ bytes * (p - q) >= bytes \/ -(bytes * (p - q)) >= bytes
    BY <2>2, <2>5, Multiples
  <2> QED BY <2>5, <2>6 DEF start, bytes
<1>2. ApartAt(Int) => AccessesDoNotStraddle
  <2>1. 0..2 \subseteq Int
    OBVIOUS
  <2> QED BY <2>1 DEF AccessesDoNotStraddle, ApartAt
<1> QED BY <1>1, <1>2, AccessesInElementsHolds, PTL

=============================================================================
