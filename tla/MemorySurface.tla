---------------------------- MODULE MemorySurface ----------------------------
(***************************************************************************)
(* infer_memory_surface: the loads and stores of the two windows of a pair *)
(* become slots, one for each pair of accesses, and registers that the     *)
(* verifier must make equal: those of addresses, and those that the values *)
(* stored come from.                                                       *)
(*                                                                         *)
(* An instruction is [operands, touches, reads, writes, delta]: its parsed *)
(* memory operands, whether it touches memory at all, the registers it     *)
(* reads and writes (by family), and what it adds to the stack pointer.    *)
(***************************************************************************)
EXTENDS Integers, Sequences, FiniteSets, SequencesExt

CONSTANTS
    MemoryPairs,     \* [guest, host]: sequences of instructions
    StackPointer,    \* [guest, host]: the stack pointer of each side
    FramePairs,      \* <<guest, host>> compatible frame bases
    MaxDepth         \* max_depth of _collect_external_sources

OperandFields == {"kind", "width", "base", "index", "disp", "value", "at"}

\* What MemoryOperand and ExtractedInstruction are made of.
IsAccessWindow(window) ==
    /\ window \in Seq(Range(window))
    /\ \A insn \in Range(window) :
        /\ insn.delta \in Int
        /\ insn.reads \in Seq(Range(insn.reads))
        /\ insn.operands \in Seq(Range(insn.operands))
        /\ \A op \in Range(insn.operands) :
            /\ op = [field \in OperandFields |-> op[field]]
            /\ op.width \in Nat /\ op.disp \in Int

ASSUME AccessesAreTyped ==
    /\ MaxDepth \in Nat
    /\ \A p \in MemoryPairs : IsAccessWindow(p["guest"]) /\ IsAccessWindow(p["host"])

VARIABLES
    accessPair,
    accessStage,
    operands,       \* the collected operands of each side, each with its position
    bound,          \* how many were bound to slots
    accessInputs,   \* input_registers
    skipDetail      \* skip_detail, or "none"

memorySurfaceVars == <<accessPair, accessStage, operands, bound, accessInputs, skipDetail>>

Sides == {"guest", "host"}

(***************************************************************************)
(* Collecting.                                                             *)
(***************************************************************************)
\* How far the stack pointer has moved before instruction n.
MovedBy(delta, insn) == delta + insn.delta
Delta(window, n) == FoldLeft(MovedBy, 0, SubSeq(window, 1, n - 1))

\* _adjust_for_sp_delta; the operand remembers its instruction.
Adjusted(side, window, n, op) ==
    IF op.base = StackPointer[side] THEN [op EXCEPT !.at = n, !.disp = @ + Delta(window, n)]
    ELSE [op EXCEPT !.at = n]

Collect(side, window) ==
    FlattenSeq([n \in DOMAIN window |->
        [k \in DOMAIN window[n].operands |-> Adjusted(side, window, n, window[n].operands[k])]])

\* Fewer operands than instructions that touch memory.
HasUnparsed(window, ops) == Cardinality({n \in DOMAIN window : window[n].touches}) > Len(ops)

(***************************************************************************)
(* Order.                                                                  *)
(***************************************************************************)
\* The places that come before i when sorted by displacement, equal ones as they were.
Lower(ops, i) ==
    {j \in DOMAIN ops : ops[j].disp < ops[i].disp \/ (ops[j].disp = ops[i].disp /\ j < i)}

ByDisplacement(ops) ==
    [k \in DOMAIN ops |-> ops[CHOOSE i \in DOMAIN ops : Cardinality(Lower(ops, i)) = k - 1]]

AllStackBased(side, ops) == \A i \in DOMAIN ops : ops[i].base = StackPointer[side]

Apart(a, b) == a.disp + a.width <= b.disp

CanReorder(ops) ==
    LET sorted == ByDisplacement(ops)
    IN  /\ \A i \in DOMAIN ops : ops[i].kind = ops[1].kind
        /\ \A i \in 1..(Len(ops) - 1) : Apart(sorted[i], sorted[i + 1])

(***************************************************************************)
(* The values of stores.                                                   *)
(***************************************************************************)
\* _find_most_recent_writer: 0 if nothing before n writes r.
Writer_First(window, r, n) ==   \* mutant: the least recent one
    LET ws == {m \in 1..(n - 1) : r \in window[m].writes} IN IF ws = {} THEN 0 ELSE Min(ws)

Writer(window, r, n) ==
    LET ws == {m \in 1..(n - 1) : r \in window[m].writes} IN IF ws = {} THEN 0 ELSE Max(ws)

\* _collect_external_sources, producers nearest to the start first.
SourcesOf(window) ==
    LET of[depth \in 0..(MaxDepth + 1)] ==
            [n \in DOMAIN window |->
                IF depth > MaxDepth THEN <<>>
                ELSE FlattenSeq([k \in DOMAIN window[n].reads |->
                        LET r == window[n].reads[k]
                            w == Writer(window, r, n)
                        IN  IF w = 0 THEN <<r>> ELSE of[depth + 1][w]])]
    IN  of

ExternalSources(window, op) == SourcesOf(window)[0][Writer(window, op.value, op.at)]

IsInternal(window, op) == Writer(window, op.value, op.at) # 0

(***************************************************************************)
(* infer_memory_surface.                                                   *)
(***************************************************************************)
MemorySurfaceInit ==
    /\ accessPair \in MemoryPairs
    /\ accessStage = "collect"
    /\ operands = [side \in Sides |-> <<>>]
    /\ bound = 0
    /\ accessInputs = <<>>
    /\ skipDetail = "none"

SkipAccesses(detail) ==
    accessStage' = "done" /\ skipDetail' = detail /\ accessInputs' = <<>> /\ UNCHANGED <<accessPair, bound>>

GoOn(stage) == accessStage' = stage /\ UNCHANGED <<accessPair, bound, accessInputs, skipDetail>>

CollectAndScreen ==
    /\ accessStage = "collect"
    /\ LET ops == [side \in Sides |-> Collect(side, accessPair[side])]
       IN  /\ operands' = ops
           /\ IF \E side \in Sides : HasUnparsed(accessPair[side], ops[side])
              THEN SkipAccesses("unparsed_memory_access")
              ELSE IF \A side \in Sides : ops[side] = <<>> THEN GoOn("done")
              ELSE IF \E side \in Sides : ops[side] = <<>> THEN SkipAccesses("one_sided_memory_access")
              ELSE IF Len(ops["guest"]) # Len(ops["host"]) THEN SkipAccesses("memory_access_count_mismatch")
              ELSE GoOn("reorder")

Reorder ==
    /\ accessStage = "reorder"
    /\ IF Len(operands["guest"]) = 1 \/ (\E side \in Sides : ~AllStackBased(side, operands[side]))
       THEN GoOn("bind") /\ UNCHANGED operands
       ELSE IF \E side \in Sides : ~CanReorder(operands[side])
       THEN SkipAccesses("memory_address_order_conflict") /\ UNCHANGED operands
       ELSE GoOn("bind") /\ operands' = [side \in Sides |-> ByDisplacement(operands[side])]

AddressRegisters(op) == IF op.index = "none" THEN <<op.base>> ELSE <<op.base, op.index>>

AddressPairs(g, h) ==
    LET pairs == Zip(AddressRegisters(g), AddressRegisters(h))
    IN  FlattenSeq([k \in DOMAIN pairs |-> IF pairs[k] \in FramePairs THEN <<>> ELSE <<pairs[k]>>])

\* Why a pair of accesses cannot be a slot.
Mismatch(g, h) ==
    LET gi == IsInternal(accessPair["guest"], g)
        hi == IsInternal(accessPair["host"], h)
    IN  IF g.kind # h.kind THEN "memory_kind_mismatch"
        ELSE IF g.width # h.width THEN "memory_width_mismatch"
        ELSE IF Len(AddressRegisters(g)) # Len(AddressRegisters(h)) THEN "memory_address_register_count_mismatch"
        ELSE IF g.kind = "read" THEN "none"
        ELSE IF "none" \in {g.value, h.value} THEN "store_value_immediate_unsupported"
        ELSE IF gi # hi THEN "store_value_internality_mismatch"
        ELSE IF gi /\ Len(ExternalSources(accessPair["guest"], g)) # Len(ExternalSources(accessPair["host"], h))
        THEN "store_producer_source_count_mismatch"
        ELSE "none"

ValuePairs(g, h) ==
    IF g.kind = "read" THEN <<>>
    ELSE IF IsInternal(accessPair["guest"], g)
    THEN Zip(ExternalSources(accessPair["guest"], g), ExternalSources(accessPair["host"], h))
    ELSE <<<<g.value, h.value>>>>

BindNext ==
    /\ accessStage = "bind"
    /\ bound < Len(operands["guest"])
    /\ LET g == operands["guest"][bound + 1]
           h == operands["host"][bound + 1]
       IN  IF Mismatch(g, h) # "none" THEN SkipAccesses(Mismatch(g, h))
           ELSE /\ accessInputs' = accessInputs \o AddressPairs(g, h) \o ValuePairs(g, h)
                /\ bound' = bound + 1
                /\ UNCHANGED <<accessPair, accessStage, skipDetail>>
    /\ UNCHANGED operands

Finish ==
    /\ accessStage = "bind"
    /\ bound = Len(operands["guest"])
    /\ GoOn("done")
    /\ UNCHANGED operands

MemorySurfaceDone == accessStage = "done" /\ UNCHANGED memorySurfaceVars

MemorySurfaceNext == CollectAndScreen \/ Reorder \/ BindNext \/ Finish \/ MemorySurfaceDone

MemorySurfaceSpec == MemorySurfaceInit /\ [][MemorySurfaceNext]_memorySurfaceVars

(***************************************************************************)
(* Properties.                                                             *)
(***************************************************************************)
MemorySurfaceTypeOK ==
    /\ accessStage \in {"collect", "reorder", "bind", "done"}
    /\ bound \in 0..Len(operands["guest"])
    /\ accessStage \in {"reorder", "bind"} => Len(operands["guest"]) = Len(operands["host"])
    /\ skipDetail # "none" => accessStage = "done" /\ accessInputs = <<>>

FamiliesOf(window) ==
    UNION {Range(window[n].reads) \cup window[n].writes
           \cup {op.value : op \in Range(window[n].operands)} : n \in DOMAIN window}

\* The data flow of a window, forwards: the inputs each register depends on
\* before instruction n.
Inflow(window) ==
    LET dep[n \in 1..(Len(window) + 1)] ==
            IF n = 1 THEN [r \in FamiliesOf(window) |-> {r}]
            ELSE [r \in FamiliesOf(window) |->
                    IF r \in window[n - 1].writes
                    THEN UNION {dep[n - 1][s] : s \in Range(window[n - 1].reads)}
                    ELSE dep[n - 1][r]]
    IN  dep

\* The registers paired for a store are exactly the inputs of the window that
\* its value depends on, however long the chain of producers, up to MaxDepth;
\* and a surface that is not skipped has these pairs.
SourcesAreTheInputs ==
    \A i \in 1..bound :
        LET pairs == ValuePairs(operands["guest"][i], operands["host"][i])
        IN  /\ skipDetail = "none" => Range(pairs) \subseteq Range(accessInputs)
            /\ \A side \in Sides :
                LET op == operands[side][i]
                    n == IF side = "guest" THEN 1 ELSE 2
                IN  op.kind = "write" /\ Len(accessPair[side]) <= MaxDepth + 1 =>
                      {pairs[k][n] : k \in DOMAIN pairs} = Inflow(accessPair[side])[op.at][op.value]

\* Where the stack pointer is before instruction n, from where it was at the start.
StackPointerAt(window) ==
    LET moved[n \in 1..(Len(window) + 1)] == IF n = 1 THEN 0 ELSE moved[n - 1] + window[n - 1].delta
    IN  moved

StackOffset(side, op) ==
    StackPointerAt(accessPair[side])[op.at] + accessPair[side][op.at].operands[1].disp

\* Stack accesses are bound by address: the k-th lowest place of one side to
\* the k-th lowest of the other, in whatever order the windows make them and
\* however the stack pointer moves between them.
StackSlotsInOrder ==
    \A side \in Sides : \A i, j \in 1..bound :
        LET a == operands[side][i]
            b == operands[side][j]
        IN  (\A s \in Sides : AllStackBased(s, operands[s])) /\ i < j
            /\ Len(accessPair[side][a.at].operands) = 1 /\ Len(accessPair[side][b.at].operands) = 1
            => StackOffset(side, a) + a.width <= StackOffset(side, b)

\* The registers paired for a store are the inputs that its value depends on,
\* and stack accesses are paired by place, not by order.
SlotsPairRightly == MemorySurfaceTypeOK /\ SourcesAreTheInputs /\ StackSlotsInOrder
=============================================================================
