---------------------------- MODULE KernelPipeline ----------------------------
(***************************************************************************)
(* KernelLearningPipeline.run: every kernel is compiled, extracted, bound, *)
(* verified and generalized; any step may fail, and the loop goes on with  *)
(* the next kernel.  At the end the rules are consolidated.                *)
(***************************************************************************)
EXTENDS KernelBinding, RuleLists

CONSTANTS
    Kernels,         \* the kernels of the suite, in order
    Compilations,    \* what clang may make of a pair: [guest, host]
    Statuses         \* the statuses of a verification report

ASSUME PipelineConstants ==
    Kernels \in Seq(Range(Kernels)) /\ "pass" \in Statuses /\ "rule_emitted" \notin Statuses

\* The values of a kernel and its accesses come in lists.
ASSUME KernelLists ==
    \A k \in Range(Kernels) :
        /\ k.inputs \in Seq(Range(k.inputs)) /\ k.outputs \in Seq(Range(k.outputs))
        /\ k.objects \in Seq(Range(k.objects)) /\ k.accesses \in Seq(Range(k.accesses))

VARIABLES
    next,         \* the kernel at work
    step,         \* what is done next with it
    objects,      \* what the compiler and the extractor made of it
    candidates, reports, rules, records,
    considered, emitted, skipped, subsumed    \* RuleDiagnostics

vars == <<next, step, objects, candidates, reports, rules, records, considered, emitted, skipped, subsumed>>
lists == <<candidates, reports, rules>>
counters == <<considered, emitted, skipped, subsumed>>

NoObjects == [side \in Side |-> [compiles |-> FALSE, defines |-> FALSE, instructions |-> <<>>]]

Kernel == Kernels[next]

Init ==
    /\ next = 1
    /\ step = "compile"
    /\ objects = NoObjects
    /\ candidates = <<>> /\ reports = <<>> /\ rules = <<>> /\ records = <<>>
    /\ considered = 0 /\ emitted = 0 /\ skipped = 0 /\ subsumed = 0

(***************************************************************************)
(* The end of an iteration: a record, and on to the next kernel.           *)
(***************************************************************************)
Record(status, rule) ==
    /\ records' = Append(records, [kernel |-> Kernel.id, status |-> status, rule |-> rule])
    /\ next' = next + 1
    /\ step' = "compile"
    /\ objects' = NoObjects

Catch_Silent ==   \* mutant: the exception is swallowed
    next' = next + 1 /\ step' = "compile" /\ objects' = NoObjects /\ UNCHANGED records

\* The except clause: _status_for_exception.
Catch ==
    Record(IF Kernel.expected = "unsupported" THEN "unsupported" ELSE "error", 0)

Continue(label) == step' = label /\ UNCHANGED <<next, objects, records>>

AtKernel(label) == next <= Len(Kernels) /\ step = label

(***************************************************************************)
(* _candidate_for_kernel.                                                  *)
(***************************************************************************)
\* compile_pair: clang may fail on either side.
Compile ==
    /\ AtKernel("compile")
    /\ \E made \in Compilations :
        IF \E side \in Side : ~made[side].compiles THEN Catch
        ELSE objects' = made /\ step' = "extract" /\ UNCHANGED <<next, records>>
    /\ UNCHANGED <<lists, counters>>

Extract_Retry ==   \* mutant: an object that cannot be read is compiled again
    /\ AtKernel("extract")
    /\ IF ExtractError(objects) # "none" THEN step' = "compile" /\ UNCHANGED <<next, records>>
       ELSE step' = "bind" /\ UNCHANGED <<next, records>>
    /\ UNCHANGED <<objects, lists, counters>>

Extract ==
    /\ AtKernel("extract")
    /\ IF ExtractError(objects) # "none" THEN Catch ELSE Continue("bind")
    /\ UNCHANGED <<lists, counters>>

Bind ==
    /\ AtKernel("bind")
    /\ IF BuildError(Kernel, objects) # "none"
       THEN Catch /\ UNCHANGED candidates
       ELSE candidates' = Append(candidates, BuildCandidate(Kernel, objects)) /\ Continue("verify")
    /\ UNCHANGED <<reports, rules, counters>>

(***************************************************************************)
(* Verification and generalization.                                        *)
(***************************************************************************)
Verify_NoContinue ==   \* mutant: a report that is not a pass is not the end
    /\ AtKernel("verify")
    /\ \E status \in Statuses : reports' = Append(reports, [kernel |-> Kernel.id, status |-> status])
    /\ Continue("generalize")
    /\ UNCHANGED <<candidates, rules, counters>>

Verify ==
    /\ AtKernel("verify")
    /\ \/ Catch /\ UNCHANGED reports
       \/ \E status \in Statuses :
            /\ reports' = Append(reports, [kernel |-> Kernel.id, status |-> status])
            /\ IF status = "pass" THEN Continue("generalize")
               ELSE Record(IF status = "fail" THEN "verifier_fail" ELSE status, 0)
    /\ UNCHANGED <<candidates, rules, counters>>

Generalize_Early ==   \* mutant: the record is written with the number before the append
    /\ AtKernel("generalize")
    /\ considered' = considered + 1 /\ emitted' = emitted + 1
    /\ rules' = Append(rules, [id |-> Len(rules) + 1, kernel |-> Kernel.id])
    /\ Record("rule_emitted", Len(rules))
    /\ UNCHANGED <<candidates, reports, skipped, subsumed>>

\* generate: a rule, a recorded skip, or an exception after it was considered.
Generalize ==
    /\ AtKernel("generalize")
    /\ considered' = considered + 1
    /\ \/ /\ rules' = Append(rules, [id |-> Len(rules) + 1, kernel |-> Kernel.id])
          /\ emitted' = emitted + 1
          /\ Record("rule_emitted", Len(rules) + 1)
          /\ UNCHANGED skipped
       \/ /\ skipped' = skipped + 1
          /\ Record("rule_skipped", 0)
          /\ UNCHANGED <<rules, emitted>>
       \/ Catch /\ UNCHANGED <<rules, emitted, skipped>>
    /\ UNCHANGED <<candidates, reports, subsumed>>

Consolidate_Emitted ==   \* mutant: a removed rule stays among the emitted
    /\ next = Len(Kernels) + 1
    /\ step = "compile"
    /\ \E removed \in SUBSET {rules[i].id : i \in DOMAIN rules} :
        /\ rules' = Remaining(rules, removed)
        /\ subsumed' = subsumed + Cardinality(removed)
    /\ step' = "done"
    /\ UNCHANGED <<next, objects, candidates, reports, records, considered, emitted, skipped>>

\* consolidate_rules, after the loop: some of the rules are subsumed.
Consolidate ==
    /\ next = Len(Kernels) + 1
    /\ step = "compile"
    /\ \E removed \in SUBSET {rules[i].id : i \in DOMAIN rules} :
        /\ Len(rules) < 2 => removed = {}
        /\ rules' = Remaining(rules, removed)
        /\ subsumed' = subsumed + Cardinality(removed)
        /\ emitted' = emitted - Cardinality(removed)
    /\ step' = "done"
    /\ UNCHANGED <<next, objects, candidates, reports, records, considered, skipped>>

Done == step = "done" /\ UNCHANGED vars

Next == Compile \/ Extract \/ Bind \/ Verify \/ Generalize \/ Consolidate \/ Done

Spec == Init /\ [][Next]_vars

\* The loop is one thread that always goes on, if clang and the solver return.
FairSpec == Spec /\ WF_vars(Next)

(***************************************************************************)
(* Properties.                                                             *)
(***************************************************************************)
\* Whatever fails, each kernel processed has one record, in the order of the
\* suite.
RecordPerKernel ==
    /\ next \in 1..(Len(Kernels) + 1)
    /\ Len(records) = next - 1
    /\ \A i \in 1..Len(records) : records[i].kernel = Kernels[i].id

Emitted(i) == records[i].status = "rule_emitted"
EmittedRecords == {i \in DOMAIN records : Emitted(i)}

\* The lists stay in step when a step fails between two of them: no report
\* without its candidate, no rule without a passing report of its kernel.
ListsInStep ==
    /\ Len(rules) <= Len(reports) /\ Len(reports) <= Len(candidates)
    /\ \A i \in 1..Len(reports) : \E j \in 1..Len(candidates) : candidates[j].kernel = reports[i].kernel
    /\ \A i \in 1..Len(rules) :
        \E j \in 1..Len(reports) : reports[j].kernel = rules[i].kernel /\ reports[j].status = "pass"

\* Until consolidation, the records that say a rule was emitted name the
\* rules of the list, by number and by kernel.
RecordsNameRules ==
    step # "done" =>
        /\ \A i \in 1..Len(rules) : rules[i].id = i
        /\ \A i \in 1..Len(records) : Emitted(i) =>
            records[i].rule \in 1..Len(rules) /\ rules[records[i].rule].kernel = records[i].kernel
        /\ \A k \in 1..Len(rules) : \E i \in 1..Len(records) : Emitted(i) /\ records[i].rule = k

\* The counters describe the rules that are left; an exception in the
\* generalizer leaves a rule considered and neither emitted nor skipped.
CountersDescribeRules ==
    /\ emitted = Len(rules)
    /\ emitted + skipped + subsumed <= considered
    /\ Cardinality(EmittedRecords) = emitted + subsumed

\* The addresses of a candidate are made of registers that are bound as its
\* inputs, the base from a pointer, and both sides address the same values.
AddressesUseInputs ==
    \A c \in Range(candidates) : \A b \in Range(c.memory) :
        LET base == [side \in Side |-> b.address[side].base]
            inputs == Range(c.inputs)
        IN  /\ base \in inputs
            /\ \E r \in Range(c.roles) : r.pair = base /\ r.type = "ptr"
            /\ Len(b.address["guest"].index) = Len(b.address["host"].index)
            /\ b.address["guest"].index # <<>> =>
                 [side \in Side |-> b.address[side].index[1]] \in inputs

\* Two inputs of a candidate never share a register on either side.
InputsAreApart ==
    \A c \in Range(candidates) : \A i, j \in DOMAIN c.inputs : \A side \in Side :
        i # j => c.inputs[i][side].place # c.inputs[j][side].place

\* The registers of a candidate follow the calling convention: its inputs do not clobber
\* each other, and its addresses are made of them.
CandidatesKeepTheABI == InputsAreApart /\ AddressesUseInputs

=============================================================================
