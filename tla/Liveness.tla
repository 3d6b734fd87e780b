------------------------------- MODULE Liveness -------------------------------
(***************************************************************************)
(* LivenessAnalyzer: which register families are live before and after     *)
(* each instruction of a function.  The fixpoint loop of _analyze_function *)
(* is the state machine: passes over the instructions, last to first,      *)
(* updating in place, until a pass changes nothing.                        *)
(*                                                                         *)
(* An instruction is a record: kind is what the mnemonic tests tell apart, *)
(* numbers are the numerals of its operand text in order, target is the    *)
(* address it really branches to (history, unknown to the code), reads and *)
(* writes are sets of register families, zero registers already dropped,   *)
(* and unresolved says whether its liveness is flagged unsupported.        *)
(***************************************************************************)
EXTENDS Naturals, Sequences, FiniteSets

CONSTANTS
    Code,        \* the functions analysed: index -> sequence of instructions
    Families,    \* register alias families
    AbiLiveOut,  \* abi_exit_live_out
    CallArgs,    \* _call_argument_families
    CallRets     \* _call_return_families

VARIABLES
    function,  \* the index of the function under analysis
    liveIn,    \* instruction -> live_in so far
    liveOut,   \* instruction -> live_out so far
    cursor,    \* the instruction visited next; 0 at the end of a pass
    changed,   \* did this pass change anything so far?
    done

vars == <<function, liveIn, liveOut, cursor, changed, done>>

Kinds == {"plain", "cond", "jump", "ret", "call", "indirect"}

IsInstruction(inst) ==
    /\ inst.addr \in Nat
    /\ inst.kind \in Kinds
    /\ inst.numbers \in Seq(Nat)
    /\ inst.reads \subseteq Families
    /\ inst.writes \subseteq Families
    /\ inst.unresolved \in BOOLEAN

ASSUME CodeAssumption ==
    \A f \in DOMAIN Code :
        /\ Len(Code[f]) \in Nat \ {0}
        /\ DOMAIN Code[f] = 1..Len(Code[f])
        /\ \A i \in DOMAIN Code[f] : IsInstruction(Code[f][i])

ASSUME AbiAssumption ==
    AbiLiveOut \subseteq Families /\ CallArgs \subseteq Families /\ CallRets \subseteq Families

(***************************************************************************)
(* Successors, reads and writes.                                           *)
(***************************************************************************)
Instructions(f) == DOMAIN Code[f]

At(f, addr) == {i \in Instructions(f) : Code[f][i].addr = addr}

\* _parse_direct_target: the first number of the operands, if it is the
\* address of an instruction of the function.
ParsedTarget(f, i) ==
    LET numbers == Code[f][i].numbers
    IN  IF numbers = <<>> THEN {} ELSE At(f, numbers[1])

Fallthrough(f, i) == {i + 1} \cap Instructions(f)

\* _successor_map.  Calls and indirect branches fall through.
Successors(f, i) ==
    LET kind == Code[f][i].kind
    IN  IF kind = "ret" THEN {}
        ELSE IF kind = "cond" THEN ParsedTarget(f, i) \cup Fallthrough(f, i)
        ELSE IF kind = "jump" THEN ParsedTarget(f, i)
        ELSE Fallthrough(f, i)

ExitSeed(f, i) ==
    IF Successors(f, i) = {} /\ Code[f][i].kind = "ret" THEN AbiLiveOut ELSE {}

\* Reads and writes, augmented at calls by the ABI.
Reads(f, i) ==
    Code[f][i].reads \cup (IF Code[f][i].kind = "call" THEN CallArgs ELSE {})

Writes(f, i) ==
    Code[f][i].writes \cup (IF Code[f][i].kind = "call" THEN CallRets ELSE {})

(***************************************************************************)
(* The fixpoint loop.                                                      *)
(***************************************************************************)
\* What a visit of i computes from the live_in sets `in`.
NextOut(f, in, i) == ExitSeed(f, i) \cup UNION {in[s] : s \in Successors(f, i)}

NextIn(f, in, i) == Reads(f, i) \cup (NextOut(f, in, i) \ Writes(f, i))

Init ==
    /\ function \in DOMAIN Code
    /\ liveIn = [i \in Instructions(function) |-> {}]
    /\ liveOut = [i \in Instructions(function) |-> ExitSeed(function, i)]
    /\ cursor = Len(Code[function])
    /\ changed = FALSE
    /\ done = FALSE

Visit_LastChange ==   \* mutant: changed is set by the last instruction only
    /\ ~done
    /\ cursor > 0
    /\ liveOut' = [liveOut EXCEPT ![cursor] = NextOut(function, liveIn, cursor)]
    /\ liveIn' = [liveIn EXCEPT ![cursor] = NextIn(function, liveIn, cursor)]
    /\ changed' = (liveIn' # liveIn \/ liveOut' # liveOut)
    /\ cursor' = cursor - 1
    /\ UNCHANGED <<function, done>>

Visit_NoKill ==   \* mutant: writes do not end a live range
    /\ ~done
    /\ cursor > 0
    /\ liveOut' = [liveOut EXCEPT ![cursor] = NextOut(function, liveIn, cursor)]
    /\ liveIn' = [liveIn EXCEPT ![cursor] = Reads(function, cursor) \cup liveOut'[cursor]]
    /\ changed' = (changed \/ liveIn' # liveIn \/ liveOut' # liveOut)
    /\ cursor' = cursor - 1
    /\ UNCHANGED <<function, done>>

Visit ==
    /\ ~done
    /\ cursor > 0
    /\ liveOut' = [liveOut EXCEPT ![cursor] = NextOut(function, liveIn, cursor)]
    /\ liveIn' = [liveIn EXCEPT ![cursor] = NextIn(function, liveIn, cursor)]
    /\ changed' = (changed \/ liveIn' # liveIn \/ liveOut' # liveOut)
    /\ cursor' = cursor - 1
    /\ UNCHANGED <<function, done>>

NextPass_Resets ==   \* mutant: each pass starts from empty sets
    /\ ~done
    /\ cursor = 0
    /\ changed
    /\ cursor' = Len(Code[function])
    /\ changed' = FALSE
    /\ liveIn' = [i \in Instructions(function) |-> {}]
    /\ UNCHANGED <<function, liveOut, done>>

NextPass ==
    /\ ~done
    /\ cursor = 0
    /\ changed
    /\ cursor' = Len(Code[function])
    /\ changed' = FALSE
    /\ UNCHANGED <<function, liveIn, liveOut, done>>

Stop ==
    /\ ~done
    /\ cursor = 0
    /\ ~changed
    /\ done' = TRUE
    /\ UNCHANGED <<function, liveIn, liveOut, cursor, changed>>

Returned == done /\ UNCHANGED vars

Step == Visit \/ NextPass \/ Stop

Next == Step \/ Returned

Spec == Init /\ [][Next]_vars

FairSpec == Spec /\ WF_vars(Step)

(***************************************************************************)
(* Properties.                                                             *)
(***************************************************************************)
TypeOK ==
    /\ function \in DOMAIN Code
    /\ liveIn \in [Instructions(function) -> SUBSET Families]
    /\ liveOut \in [Instructions(function) -> SUBSET Families]
    /\ cursor \in 0..Len(Code[function])
    /\ changed \in BOOLEAN
    /\ done \in BOOLEAN

\* The loop updates live_in in place while it reads it, and stops on a flag;
\* the sets it stops with nevertheless satisfy the dataflow equations at every
\* instruction at once, loops of the control flow included.
DoneIsFixpoint ==
    done => \A i \in Instructions(function) :
        /\ liveOut[i] = NextOut(function, liveIn, i)
        /\ liveIn[i] = NextIn(function, liveIn, i)

\* A set S of instructions of f is closed for family r when it holds every
\* instruction that reads r, and every one that does not write r and either
\* leaves the function with r live or has a successor in S.
ClosedFor(f, r, S) ==
    \A i \in Instructions(f) :
        (\/ r \in Reads(f, i)
         \/ /\ r \notin Writes(f, i)
            /\ r \in ExitSeed(f, i) \/ Successors(f, i) \cap S # {})
        => i \in S

LiveRanges == [f \in DOMAIN Code |-> [r \in Families |->
    {S \in SUBSET Instructions(f) : ClosedFor(f, r, S)}]]

\* No family is ever called live without a reason: at every moment the
\* instructions it is live before are within every closed set, so the loop
\* ends with the least solution, not merely with one.
LeastSolution ==
    \A r \in Families : \A S \in LiveRanges[function][r] :
        {i \in Instructions(function) : r \in liveIn[i]} \subseteq S

\* Nothing that was found live stops being live later in the analysis: the
\* reason why the loop cannot run forever.
Monotone ==
    [][function' = function /\ \A i \in Instructions(function) :
          liveIn[i] \subseteq liveIn'[i] /\ liveOut[i] \subseteq liveOut'[i]]_vars

Termination == <>done

(***************************************************************************)
(* What the liveness design says of the control flow.                      *)
(***************************************************************************)
\* "add both branch target and fallthrough successors for conditional
\* branches": what is live where a conditional branch goes is live after it.
BranchTargetsAreLive ==
    done => \A i \in Instructions(function) :
        Code[function][i].kind = "cond" =>
            \A t \in At(function, Code[function][i].target) : liveIn[t] \subseteq liveOut[i]

=============================================================================
