-------------------------- MODULE SemanticVerifier --------------------------
(***************************************************************************)
(* SemanticVerifier.verify: one candidate, from the rejections that come   *)
(* before execution to the checks of memory, flags, branch and registers.  *)
(*                                                                         *)
(* Registers have two halves (bit 0 is the low one); a register name is    *)
(* [family, width], of width 1 (a sub-register) or 2 (the family).  A      *)
(* state gives a bit to every <<side, family, half>>.  Symbolic execution  *)
(* is kept as provenance: where each half of each register comes from; the *)
(* states explored are those that give equal halves to equal provenances.  *)
(***************************************************************************)
EXTENDS Naturals, Sequences, FiniteSets, Functions

CONSTANTS
    Candidates,        \* the verification candidates
    Family,            \* register families, of both sides
    Observe(_, _, _)   \* a fragment's value of an observable, from its inputs

VARIABLES
    candidate,   \* the candidate being verified
    failFast,    \* VerificationConfig.fail_fast
    pc,          \* where verify() stands
    done,        \* checks made of the list pc is at
    checks,      \* the CheckResults so far: [kind, status]
    report       \* the VerificationReport: [status, checks]

vars == <<candidate, failFast, pc, done, checks, report>>

Side == {"guest", "host"}

Location == Side \X Family \X {0, 1}

State == [Location -> {0, 1}]

Register == [family : Family, width : 1..2]

IsSequence(s) == s \in Seq(Range(s))

ASSUME CandidateTypes ==
    \A c \in Candidates :
        /\ c.inputs \in Seq([guest : Register, host : Register])
        /\ IsSequence(c.memory) /\ IsSequence(c.flags) /\ IsSequence(c.outputs)
        /\ c.layout \in {"valid", "unsupported", "error"}

\* What a side's fragment can see of a state.
View(s, side) == [x \in Family \X {0, 1} |-> s[<<side, x[1], x[2]>>]]

(***************************************************************************)
(* Shared inputs.                                                          *)
(***************************************************************************)
Wider(a, b) == IF a > b THEN a ELSE b

\* The symbol of an input pair is as wide as the wider of its registers.
SymbolWidth(pair) == Wider(pair.guest.width, pair.host.width)

\* widen_input_register_view and write_reg: the family of the register gets
\* the symbol of pair k and, above it, a fresh half.
HalfFrom_SharedHigh(pair, k, l) ==   \* mutant: one fresh half for both sides
    IF l[3] < SymbolWidth(pair) THEN <<"symbol", k, l[3]>> ELSE <<"fresh", k>>

HalfFrom_OwnSymbol(pair, k, l) ==   \* mutant: a symbol for each side
    IF l[3] < SymbolWidth(pair) THEN <<"symbol", k, l>> ELSE <<"fresh", k, l>>

HalfFrom(pair, k, l) ==
    IF l[3] < SymbolWidth(pair) THEN <<"symbol", k, l[3]>> ELSE <<"fresh", k, l>>

\* The pairs that write the register a location belongs to.
Writers(inputs, l) == {k \in DOMAIN inputs : inputs[k][l[1]].family = l[2]}

LastOf(ks) == CHOOSE k \in ks : \A j \in ks : j <= k

\* Registers that no pair names are unconstrained; a later pair overwrites.
Provenance(inputs) ==
    [l \in Location |->
        IF Writers(inputs, l) = {} THEN <<"free", l>>
        ELSE LET k == LastOf(Writers(inputs, l)) IN HalfFrom(inputs[k], k, l)]

InputLists == {c.inputs : c \in Candidates}

Explored == [inputs \in InputLists |->
    LET from == Provenance(inputs)
    IN  {s \in State : \A l, m \in Location : from[l] = from[m] => s[l] = s[m]}]

\* The states a caller means: the paired registers have the same value.
Related == [inputs \in InputLists |->
    {s \in State : \A k \in DOMAIN inputs : \A half \in {0, 1} :
        LET pair == inputs[k]
        IN  half < pair.guest.width /\ half < pair.host.width =>
                s[<<"guest", pair.guest.family, half>>] = s[<<"host", pair.host.family, half>>]}]

(***************************************************************************)
(* Relation checks.                                                        *)
(***************************************************************************)
Guard == [guest |-> <<"guard">>, host |-> <<"guard">>]

Same(c, pair, s) ==
    Observe(c.guest, pair.guest, View(s, "guest")) = Observe(c.host, pair.host, View(s, "host"))

EqualOn(c, pair, S) == \A s \in S : Same(c, pair, s)

\* The states that satisfy the constraints of successors[0] of both sides:
\* with two successors, the guard of the one that comes first.
Taken(c, side, s) ==
    Observe(c[side], <<"guard">>, View(s, side)) = 1

OnFirstPath(c, s) ==
    \A side \in Side : c[side].successors = 2 =>
        (Taken(c, side, s) <=> c[side].first = "taken")

FirstPath(c) == {s \in Explored[c.inputs] : OnFirstPath(c, s)}

IsBranch(c) == \E side \in Side : c[side].successors = 2

CheckResult ==
    [kind : {"execution", "memory", "flag", "branch", "register"},
     status : {"pass", "fail", "unsupported", "error"}]

Result(kind, status) == [kind |-> kind, status |-> status]

\* prove_relation: no explored state on the path tells the two apart.
Compare(kind, c, pair) ==
    Result(kind, IF EqualOn(c, pair, FirstPath(c)) THEN "pass" ELSE "fail")

\* check_memory_events: one failure, or one check of each pair of events.
MemoryChecks(c) ==
    IF c.events # "matched" THEN <<Result("memory", "fail")>>
    ELSE [i \in DOMAIN c.memory |-> Compare("memory", c, c.memory[i])]

FlagCheck(c, i) ==
    IF c.flags[i].supported THEN Compare("flag", c, c.flags[i])
    ELSE Result("flag", "unsupported")

RegisterCheck(c, i) == Compare("register", c, c.outputs[i])

\* terminal_taken_guard needs a conditional branch and two successors of
\* which one falls through; the guards are compared before the branch.
BranchCheck_First(c) ==   \* mutant: under the path of the first successor
    IF \A side \in Side : c[side].successors = 2 /\ c[side].terminal = "conditional"
    THEN Compare("branch", c, Guard)
    ELSE Result("branch", "unsupported")

BranchCheck(c) ==
    IF \A side \in Side : c[side].successors = 2 /\ c[side].terminal = "conditional"
    THEN Result("branch", IF EqualOn(c, Guard, Explored[c.inputs]) THEN "pass" ELSE "fail")
    ELSE Result("branch", "unsupported")

AllPass(cs) == \A i \in DOMAIN cs : cs[i].status = "pass"

\* _overall_status.
OverallStatus_FailFirst(cs) ==   \* mutant: pass unless something failed
    IF \E i \in DOMAIN cs : cs[i].status = "fail" THEN "fail" ELSE "pass"

OverallStatus(cs) ==
    IF \E i \in DOMAIN cs : cs[i].status = "unsupported" THEN "unsupported"
    ELSE IF \E i \in DOMAIN cs : cs[i].status = "fail" THEN "fail"
    ELSE "pass"

(***************************************************************************)
(* verify().                                                               *)
(***************************************************************************)
Pending == [status |-> "pending", checks |-> <<>>]

Init ==
    /\ candidate \in Candidates
    /\ failFast \in BOOLEAN
    /\ pc = "start"
    /\ done = 0
    /\ checks = <<>>
    /\ report = Pending

Return(status, cs) ==
    /\ pc' = "returned"
    /\ report' = [status |-> status, checks |-> cs]
    /\ checks' = cs
    /\ UNCHANGED <<candidate, failFast, done>>

\* Everything verify() rejects before the first check, in its order.
Obstacle(c) ==
    IF c.preconditions THEN "unsupported"
    ELSE IF c.mayAlias THEN "unsupported"
    ELSE IF c.layout # "valid" THEN c.layout      \* unsupported or error
    ELSE IF \E side \in Side : c[side].nonTerminalBranch THEN "unsupported"
    ELSE IF \E side \in Side : ~c[side].executes THEN "unsupported"
    ELSE IF \E side \in Side : c[side].successors > 2 THEN "unsupported"
    ELSE IF \E side \in Side : c[side].terminal = "unconditional" THEN "unsupported"
    ELSE IF \E side \in Side : c[side].successors = 0 THEN "unsupported"
    ELSE "none"

Reject ==
    /\ pc = "start"
    /\ LET status == Obstacle(candidate)
       IN  /\ status # "none"
           /\ Return(status, <<Result("execution", status)>>)

\* Whatever raises inside _verify is caught; the checks made are dropped.
InternalError ==
    /\ pc # "returned"
    /\ Return("error", <<Result("execution", "error")>>)

\* Fail-fast returns on the spot.
Continue(new, at, n) ==
    LET cs == checks \o new
    IN  IF failFast /\ ~AllPass(new)
        THEN Return(OverallStatus(cs), cs)
        ELSE /\ checks' = cs
             /\ pc' = at
             /\ done' = n
             /\ UNCHANGED <<candidate, failFast, report>>

CheckMemory ==
    /\ pc = "start"
    /\ Obstacle(candidate) = "none"
    /\ Continue(MemoryChecks(candidate), "flags", 0)

CheckFlag ==
    /\ pc = "flags"
    /\ done < Len(candidate.flags)
    /\ Continue(<<FlagCheck(candidate, done + 1)>>, "flags", done + 1)

CheckBranch ==
    /\ pc = "flags"
    /\ done = Len(candidate.flags)
    /\ IsBranch(candidate)
    /\ Continue(<<BranchCheck(candidate)>>, "branchRegisters", 0)

\* Register outputs of a branch are never compared.
BranchRegisters ==
    /\ pc = "branchRegisters"
    /\ LET cs == IF candidate.outputs = <<>> THEN checks
                 ELSE Append(checks, Result("register", "unsupported"))
       IN  Return(OverallStatus(cs), cs)

CheckRegister ==
    /\ \/ pc = "flags" /\ done = Len(candidate.flags) /\ ~IsBranch(candidate)
       \/ pc = "registers"
    /\ LET n == IF pc = "flags" THEN 0 ELSE done
       IN  /\ n < Len(candidate.outputs)
           /\ Continue(<<RegisterCheck(candidate, n + 1)>>, "registers", n + 1)

Finish ==
    /\ \/ /\ pc = "flags" /\ done = Len(candidate.flags) /\ ~IsBranch(candidate)
          /\ candidate.outputs = <<>>
       \/ pc = "registers" /\ done = Len(candidate.outputs)
    /\ Return(OverallStatus(checks), checks)

Returned == pc = "returned" /\ UNCHANGED vars

Step ==
    \/ Reject \/ InternalError \/ CheckMemory \/ CheckFlag \/ CheckBranch
    \/ BranchRegisters \/ CheckRegister \/ Finish

Next == Step \/ Returned

Spec == Init /\ [][Next]_vars

(***************************************************************************)
(* Properties.                                                             *)
(***************************************************************************)
Demands(c) == Range(c.memory) \cup Range(c.flags) \cup (IF IsBranch(c) THEN {} ELSE Range(c.outputs))

\* Both sides do the same to everything the candidate demands, for all inputs
\* in which the paired registers are equal.
Equivalent == [c \in Candidates |->
    /\ \A pair \in Demands(c) : EqualOn(c, pair, Related[c.inputs])
    /\ IsBranch(c) => EqualOn(c, Guard, Related[c.inputs]) /\ c.outputs = <<>>]

\* A branch that is taken on both sides or on neither.
SameBranch == [c \in Candidates |->
    c.outputs = <<>> /\ EqualOn(c, Guard, Related[c.inputs])]

SameWidths(c) == \A k \in DOMAIN c.inputs : c.inputs[k].guest.width = c.inputs[k].host.width

PairedOnce(c) ==
    \A j, k \in DOMAIN c.inputs : \A side \in Side :
        c.inputs[j][side].family = c.inputs[k][side].family => j = k

TypeOK ==
    /\ candidate \in Candidates
    /\ failFast \in BOOLEAN
    /\ pc \in {"start", "flags", "branchRegisters", "registers", "returned"}
    /\ done \in 0..Wider(Len(candidate.flags), Len(candidate.outputs))
    /\ checks \in Seq(CheckResult)
    /\ report.status \in {"pending", "pass", "fail", "unsupported", "error"}

\* A straight-line candidate that passes is equivalent for all inputs that
\* agree on the paired registers, however often a register is paired and
\* whatever the other registers hold.
PassIsSound ==
    report.status = "pass" /\ SameWidths(candidate) /\ ~IsBranch(candidate) =>
        Equivalent[candidate]

\* A branch that passes is taken on both sides or on neither.
BranchPassIsSound ==
    report.status = "pass" /\ SameWidths(candidate) /\ IsBranch(candidate) =>
        SameBranch[candidate]

\* A failure of a straight-line candidate is a difference some inputs show
\* that agree on the paired registers, unless a register is paired twice.
FailIsReal ==
    report.status = "fail" /\ SameWidths(candidate) /\ PairedOnce(candidate)
        /\ ~IsBranch(candidate) /\ candidate.events = "matched" => ~Equivalent[candidate]

\* A pass never rests on a check that was not made: there is one for each
\* thing the candidate demands, with fail-fast or without.
PassChecksEverything ==
    report.status = "pass" =>
        Len(report.checks) =
            Len(candidate.memory) + Len(candidate.flags) + Len(candidate.outputs)
            + (IF IsBranch(candidate) THEN 1 ELSE 0)

\* docs/verifier.md: memory events and flags before a terminal branch are
\* checked; a branch that passes agrees on them for all related inputs.
BranchEffectsAreChecked ==
    report.status = "pass" /\ SameWidths(candidate) /\ IsBranch(candidate) =>
        Equivalent[candidate]

(***************************************************************************)
(* The verdict implements the promise.                                     *)
(***************************************************************************)
LooksDifferent == [c \in Candidates |->
    \/ c.events # "matched"
    \/ \E pair \in Demands(c) : ~EqualOn(c, pair, Explored[c.inputs])
    \/ IsBranch(c) /\ ~EqualOn(c, Guard, Explored[c.inputs])]

Promise == INSTANCE Verdict WITH
    agree   <- \/ ~SameWidths(candidate)
               \/ Equivalent[candidate]
               \/ IsBranch(candidate) /\ SameBranch[candidate],
    differ  <- LooksDifferent[candidate],
    verdict <- report.status

\* verify() passes only what agrees and fails only what it saw differ.
ImplementsPromise == Promise!Spec
=============================================================================
