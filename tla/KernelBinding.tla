----------------------------- MODULE KernelBinding -----------------------------
(***************************************************************************)
(* SnippetExtractor and KernelBindingBuilder: from a kernel and what clang *)
(* made of it to a verification candidate, or to the reason of the error   *)
(* raised.  Values are bound by the calling conventions of the two sides.  *)
(*                                                                         *)
(* A kernel is [id, inputs, outputs, objects, accesses, expected]; *)
(* a value [name, type, bits]; an object [name, base]; an access [kind,    *)
(* object, value, bits, base, index, scale, disp].  What clang made of one *)
(* side is [compiles, defines, instructions], an instruction [dropped,     *)
(* operands], a memory operand [kind, width].                              *)
(***************************************************************************)
EXTENDS Integers, Sequences, FiniteSets, SequencesExt

Side == {"guest", "host"}
ABIWidths == {32, 64}
ABIRegisters == 4

\* The first error of a sequence of checks, "none" if all pass.
FirstError(checks) ==
    LET failed == {i \in DOMAIN checks : checks[i] # "none"} IN IF failed = {} THEN "none" ELSE checks[Min(failed)]

Check(holds, reason) == IF holds THEN "none" ELSE reason

(***************************************************************************)
(* extract: ret, nop and endbr64 are dropped, and something must be left.  *)
(***************************************************************************)
Snippet(side) == SelectSeq(side.instructions, LAMBDA i : ~i.dropped)

ExtractError(objects) ==
    FirstError(FlattenSeq([k \in 1..2 |->
        LET o == objects[IF k = 1 THEN "guest" ELSE "host"]
        IN  <<Check(o.defines, "function not found"),
              Check(Snippet(o) # <<>>, "snippet must contain at least one instruction")>>]))

(***************************************************************************)
(* build_spec.                                                             *)
(***************************************************************************)
\* A register of the calling convention: an argument by its position, or the
\* return register 0, at the width of the value.
Pair_Shifted(place, value) ==   \* mutant: narrow values at another position
    [side \in Side |-> [side |-> side, place |-> IF side = "host" /\ value.bits = 32 THEN 1 ELSE place,
                        bits |-> value.bits, name |-> value.name]]

Pair(place, value) ==
    [side \in Side |-> [side |-> side, place |-> place, bits |-> value.bits, name |-> value.name]]

SpecError(kernel) ==
    FirstError(FlattenSeq([i \in DOMAIN kernel.inputs |->
            <<Check(kernel.inputs[i].bits \in ABIWidths, "unsupported ABI argument width"),
              Check(i <= ABIRegisters, "too many register arguments")>>])
        \o [i \in DOMAIN kernel.outputs |->
            Check(kernel.outputs[i].bits \in ABIWidths, "unsupported ABI return width")])

Inputs(kernel) == [i \in DOMAIN kernel.inputs |-> Pair(i, kernel.inputs[i])]
Outputs(kernel) == [i \in DOMAIN kernel.outputs |-> Pair(0, kernel.outputs[i])]

(***************************************************************************)
(* Memory: one object and one access, declared in terms of the inputs.     *)
(***************************************************************************)
HasMemory(kernel) == kernel.objects # <<>> \/ kernel.accesses # <<>>

Named(values, name) == {v \in Range(values) : v.name = name}

\* _validate_kernel_declaration
DeclarationError(kernel) ==
    IF Len(kernel.objects) # 1 THEN "exactly one memory object"
    ELSE IF Len(kernel.accesses) # 1 THEN "exactly one memory access"
    ELSE
    LET object == kernel.objects[1]
        access == kernel.accesses[1]
        base == Named(kernel.inputs, object.base)
        index == Named(kernel.inputs, access.index)
    IN  FirstError(<<
            Check(base # {}, "base not found"),
            Check(\A v \in base : v.type = "ptr", "base is not a pointer"),
            Check(access.object = object.name, "object does not match"),
            Check(access.base = object.base, "address base does not match"),
            Check(access.index = "none" \/ index # {}, "index not found"),
            Check(access.index = "none" \/ \A v \in index : v.type = "int" /\ v.bits = 64, "index is not an i64"),
            Check(access.kind = "load" => Named(kernel.outputs, access.value) # {}, "load result not found"),
            Check(access.kind = "store" => Named(kernel.inputs, access.value) # {}, "store value not found"),
            Check(access.bits % 8 = 0, "width not divisible by 8")>>)

PairOf(kernel, name) == Inputs(kernel)[CHOOSE i \in DOMAIN kernel.inputs : kernel.inputs[i].name = name]

\* _build_memory_spec, with the addresses of _build_addr_str.
MemoryBindings(kernel) ==
    [k \in DOMAIN kernel.accesses |->
        LET a == kernel.accesses[k]
        IN  [access |-> IF a.kind = "load" THEN "read" ELSE "write",
             width |-> a.bits \div 8,
             address |-> [side \in Side |->
                [base |-> PairOf(kernel, a.base)[side],
                 index |-> IF a.index = "none" THEN <<>> ELSE <<PairOf(kernel, a.index)[side]>>,
                 scale |-> a.scale, disp |-> a.disp]]]]

Operands(side) == FlattenSeq([n \in DOMAIN Snippet(side) |-> Snippet(side)[n].operands])

\* _check_compiled_memory: first how many, then kind and width of each.
CompiledError(kernel, side) ==
    LET ops == Operands(side)
    IN  IF Len(ops) # Len(kernel.accesses) THEN "operand count"
        ELSE FirstError(FlattenSeq([k \in DOMAIN ops |->
                <<Check(ops[k].kind = MemoryBindings(kernel)[k].access, "operand kind"),
                  Check(ops[k].width = MemoryBindings(kernel)[k].width, "operand width")>>]))

(***************************************************************************)
(* build_candidate.                                                        *)
(***************************************************************************)
BuildError(kernel, objects) ==
    IF SpecError(kernel) # "none" THEN SpecError(kernel)
    ELSE IF ~HasMemory(kernel) THEN "none"
    ELSE IF DeclarationError(kernel) # "none" THEN DeclarationError(kernel)
    ELSE FirstError(<<CompiledError(kernel, objects["guest"]), CompiledError(kernel, objects["host"])>>)

Roles(kernel) ==
    [i \in DOMAIN kernel.inputs |-> [pair |-> Inputs(kernel)[i], type |-> kernel.inputs[i].type]]
    \o [i \in DOMAIN kernel.outputs |-> [pair |-> Outputs(kernel)[i], type |-> kernel.outputs[i].type]]

BuildCandidate(kernel, objects) ==
    [kernel |-> kernel.id,
     code |-> [side \in Side |-> Snippet(objects[side])],
     inputs |-> Inputs(kernel),
     outputs |-> Outputs(kernel),
     roles |-> Roles(kernel),
     memory |-> IF HasMemory(kernel) THEN MemoryBindings(kernel) ELSE <<>>]
=============================================================================
