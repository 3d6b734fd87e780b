----------------------------- MODULE KernelSchema -----------------------------
(***************************************************************************)
(* KernelSchema.__post_init__ and materialize_kernel: a straight-line      *)
(* kernel is validated one operation at a time, then checked for dead      *)
(* results, then turned into the lines of an LLVM body and the memory      *)
(* accesses the verifier is told of.                                       *)
(*                                                                         *)
(* An operation is [op, result, type, operands, object, address]; a type   *)
(* is a width in bits, or Ptr; an operand is a name, or Literal.           *)
(***************************************************************************)
EXTENDS Integers, Sequences, FiniteSets, SequencesExt, Functions, TLC

CONSTANTS
    Signatures,     \* [inputs, output, memory]: names to types, at most one
                    \* [name, type], and metadata.has_memory
    ObjectSets(_),  \* the memory objects that go with a signature: names to
                    \* [base, bits]
    Operations(_),  \* the operations a kernel of a signature may be made of
    MaxLength       \* operations in a kernel

ASSUME SchemasAreTyped ==
    \A s \in Signatures :
        /\ \A objects \in ObjectSets(s) : \A n \in DOMAIN objects : objects[n].bits \in Nat
        /\ \A o \in Operations(s) : o.address.scale \in Int /\ o.address.disp \in Int

Ptr == 0
Literal == "literal"

VARIABLES
    signature, memoryObjects,
    program,        \* the operations read so far
    values,         \* values: the type of each name
    dependencies,   \* for each result, the names it is computed from
    effectRoots, usedObjects,
    outcome,        \* "open", "accepted", "materialized", or why it was rejected
    returned,       \* return_value: a set of at most one name
    body, memoryAccesses  \* of the IRKernel

schemaVars == <<signature, memoryObjects, program, values, dependencies, effectRoots, usedObjects,
                outcome, returned, body, memoryAccesses>>

checking == <<signature, memoryObjects, program, values, dependencies, effectRoots, usedObjects>>
output == <<body, memoryAccesses>>

Binary == {"add", "sub", "shl"}     \* _SCALAR_BINARY_OPCODES
Memory == {"load", "store"}

(***************************************************************************)
(* One operation.                                                          *)
(***************************************************************************)
Names(operands) == {n \in Range(operands) : n # Literal}

AddressNames(address) == {address.base} \cup (IF address.index = "none" THEN {} ELSE {address.index})

\* _operation_refs
Refs(o) == Names(o.operands) \cup (IF o.op \in Memory THEN AddressNames(o.address) ELSE {})

HasResult(o) == o.op # "store"

SameType(names, type) == \A n \in names : values[n] = type    \* _validate_operands

ElementBytes(object) == object.bits \div 8

\* _validate_address
ValidAddress(a, object) ==
    /\ a.base = object.base
    /\ values[a.base] = Ptr
    /\ object.bits % 8 = 0
    /\ a.index # "none" => values[a.index] = 64 /\ a.scale = ElementBytes(object)
    /\ a.disp % ElementBytes(object) = 0

\* _validate_operation, with the checks the operation made of itself.
ValidOperation(o) ==
    LET type(k) == values[o.operands[k]]
    IN  CASE o.op \in Binary -> o.type # Ptr /\ SameType(Names(o.operands), o.type)
          [] o.op = "icmp" ->
               /\ Names(o.operands) # {}
               /\ o.type = 1
               /\ \E t \in Range(values) \ {Ptr} : SameType(Names(o.operands), t)
          [] o.op = "trunc" -> Ptr \notin {type(1), o.type} /\ o.type < type(1)
          [] o.op \in {"zext", "sext"} -> Ptr \notin {type(1), o.type} /\ o.type > type(1)
          [] o.op = "select" -> type(1) = 1 /\ o.type # Ptr /\ SameType(Names(Tail(o.operands)), o.type)
          [] o.op \in Memory ->
               /\ o.object \in DOMAIN memoryObjects
               /\ ValidAddress(o.address, memoryObjects[o.object])
               /\ LET width == IF o.op = "load" THEN o.type ELSE type(1)
                  IN  width # Ptr /\ width = memoryObjects[o.object].bits

(***************************************************************************)
(* The loop of __post_init__.                                              *)
(***************************************************************************)
SchemaInit ==
    /\ signature \in Signatures
    /\ memoryObjects \in ObjectSets(signature)
    /\ program = <<>>
    /\ values = signature.inputs
    /\ dependencies = [n \in {} |-> {}]
    /\ effectRoots = {}
    /\ usedObjects = {}
    /\ outcome = "open"
    /\ returned = {}
    /\ body = <<>>
    /\ memoryAccesses = <<>>

Reject(reason) == outcome' = reason /\ UNCHANGED <<checking, returned, output>>

ReadOperation ==
    /\ outcome = "open"
    /\ Len(program) < MaxLength
    /\ \E o \in Operations(signature) :
        IF ~(Refs(o) \subseteq DOMAIN values) THEN Reject("unknown or forward reference")
        ELSE IF ~ValidOperation(o) THEN Reject("invalid operation")
        ELSE IF HasResult(o) /\ o.result \in DOMAIN values THEN Reject("duplicate value")
        ELSE /\ program' = Append(program, o)
             /\ IF HasResult(o)
                THEN /\ dependencies' = [n \in DOMAIN dependencies \cup {o.result} |->
                                            IF n = o.result THEN Refs(o) ELSE dependencies[n]]
                     /\ values' = [n \in DOMAIN values \cup {o.result} |->
                                    IF n = o.result THEN o.type ELSE values[n]]
                     /\ UNCHANGED effectRoots
                ELSE effectRoots' = effectRoots \cup Refs(o) /\ UNCHANGED <<values, dependencies>>
             /\ usedObjects' = IF o.op \in Memory THEN usedObjects \cup {o.object} ELSE usedObjects
             /\ UNCHANGED <<signature, memoryObjects, outcome, returned, output>>

\* _transitive_dependencies, step by step until nothing is added.
OneStep(live) == live \cup UNION {dependencies[n] : n \in live \cap DOMAIN dependencies}

Live_OneStep(roots) == OneStep(roots)   \* mutant

Live(roots) ==
    LET live[n \in 0..Len(program)] == IF n = 0 THEN roots ELSE OneStep(live[n - 1])
    IN  live[Len(program)]

LiveRoots(return) == effectRoots \cup return

Whole(return) ==
    LET live == Live(LiveRoots(return))
    IN  CASE signature.memory # (\E n \in DOMAIN program : program[n].op \in Memory) -> "metadata mismatch"
          [] usedObjects # DOMAIN memoryObjects -> "unused memory object"
          [] \E o \in signature.output : return # {o.name} \/ values[o.name] # o.type -> "return mismatch"
          [] ~(DOMAIN dependencies \subseteq live) -> "dead result"
          [] ~(DOMAIN signature.inputs \subseteq live) -> "unused input"
          [] OTHER -> "accepted"

CheckWhole ==
    /\ outcome = "open"
    /\ program # <<>>
    /\ \E return \in {r \in SUBSET DOMAIN values : Cardinality(r) = Cardinality(signature.output)} :
        /\ outcome' = Whole(return)
        /\ returned' = return
    /\ UNCHANGED <<checking, output>>

(***************************************************************************)
(* materialize_kernel.                                                     *)
(***************************************************************************)
Line(def, op, uses, offset) == [def |-> def, op |-> op, uses |-> uses, offset |-> offset]

\* The k-th memory operation of a kernel names its address q, q2, q3, ...
Numbered(stem, k) == IF k = 1 THEN stem ELSE stem \o ToString(k)

\* _materialize_address: the lines, and the name that holds the address.
MaterializedAddress_Bytes(a, object, k) ==   \* mutant: a byte offset as index
    IF a.index = "none" /\ a.disp = 0 THEN <<<<>>, a.base>>
    ELSE <<<<Line(Numbered("q", k), "gep", <<a.base, a.index>>, a.disp)>>, Numbered("q", k)>>

MaterializedAddress(a, object, k) ==
    LET offset == a.disp \div ElementBytes(object)
        q == Numbered("q", k)
        plus == Numbered("idx_plus", k)
    IN  IF a.index = "none" /\ a.disp = 0 THEN <<<<>>, a.base>>
        ELSE IF a.index = "none" THEN <<<<Line(q, "gep", <<a.base, "none">>, offset)>>, q>>
        ELSE IF a.disp = 0 THEN <<<<Line(q, "gep", <<a.base, a.index>>, 0)>>, q>>
        ELSE <<<<Line(plus, "index_add", <<a.index>>, offset), Line(q, "gep", <<a.base, plus>>, 0)>>, q>>

\* The lines of one operation.
Lines(n) ==
    LET o == program[n]
        k == Cardinality({m \in 1..n : program[m].op \in Memory})
        address == MaterializedAddress(o.address, memoryObjects[o.object], k)
    IN  IF o.op \in Memory
        THEN address[1] \o <<Line(o.result, o.op, o.operands \o <<address[2]>>, 0)>>
        ELSE <<Line(o.result, o.op, o.operands, 0)>>

\* _materialize_memory_operation
AccessOf(o) ==
    [kind |-> o.op, object |-> o.object, address |-> o.address,
     width |-> IF o.op = "load" THEN o.type ELSE values[o.operands[1]],
     value |-> IF o.op = "load" THEN o.result ELSE o.operands[1]]

Materialize ==
    /\ outcome = "accepted"
    /\ outcome' = "materialized"
    /\ body' = FlattenSeq([n \in DOMAIN program |-> Lines(n)])
    /\ memoryAccesses' = LET memory == SelectSeq(program, LAMBDA o : o.op \in Memory)
                         IN  [k \in DOMAIN memory |-> AccessOf(memory[k])]
    /\ UNCHANGED <<checking, returned>>

SchemaDone == outcome \notin {"open", "accepted"} /\ UNCHANGED schemaVars

SchemaNext == ReadOperation \/ CheckWhole \/ Materialize \/ SchemaDone

SchemaSpec == SchemaInit /\ [][SchemaNext]_schemaVars

(***************************************************************************)
(* Properties.                                                             *)
(***************************************************************************)
\* The names a value needs, found by reading the program backwards from what
\* is returned: the reference for the closure over `dependencies`.
NeededFrom(return) ==
    LET need[n \in 1..(Len(program) + 1)] ==
            IF n > Len(program) THEN return
            ELSE need[n + 1] \cup (IF program[n].op = "store" \/ program[n].result \in need[n + 1]
                                  THEN Refs(program[n]) ELSE {})
    IN  need

Needed(return) == NeededFrom(return)[1]

\* Validation keeps exactly the kernels in which every result and every input
\* reaches the returned value or a store.
LivenessIsExact ==
    /\ outcome \in {"accepted", "materialized"} =>
         DOMAIN values \subseteq Needed(returned)
    /\ outcome \in {"dead result", "unused input"} =>
         ~(DOMAIN values \subseteq Needed(returned))

\* Two accesses to one object, wherever their indices point, touch the same
\* bytes or none in common: the verifier may give each access its own slot.
ApartAt(Indices) ==
    \A m, n \in DOMAIN program :
        LET a == program[m].address
            b == program[n].address
            bytes == ElementBytes(memoryObjects[program[m].object])
        IN  /\ program[m].op \in Memory
            /\ program[n].op \in Memory
            /\ program[m].object = program[n].object
            => LET start(x, i) == (IF x.index = "none" THEN 0 ELSE i * x.scale) + x.disp
               IN  \A i, j \in Indices :
                     LET gap == start(a, i) - start(b, j)
                     IN  gap = 0 \/ gap >= bytes \/ -gap >= bytes

AccessesDoNotStraddle == ApartAt(0..2)

\* The address a line of the body computes: base + coef * index + disp.
Definition(lines, name, op) ==
    LET ds == {n \in DOMAIN lines : lines[n].def = name /\ lines[n].op = op}
    IN  IF ds = {} THEN <<>> ELSE <<lines[CHOOSE n \in ds : TRUE]>>

Computed(name, bytes) ==
    LET gep == Definition(body, name, "gep")
        add == Definition(body, gep[1].uses[2], "index_add")
    IN  IF gep = <<>> THEN [base |-> name, index |-> "none", coef |-> 0, disp |-> 0]
        ELSE [base |-> gep[1].uses[1],
              index |-> IF add = <<>> THEN gep[1].uses[2] ELSE add[1].uses[1],
              coef |-> IF gep[1].uses[2] = "none" THEN 0 ELSE bytes,
              disp |-> bytes * (gep[1].offset + (IF add = <<>> THEN 0 ELSE add[1].offset))]

Declared(a) ==
    [base |-> a.base, index |-> a.index, coef |-> IF a.index = "none" THEN 0 ELSE a.scale, disp |-> a.disp]

\* The body and the declaration of a kernel agree, access by access, in
\* order: kind, value, width and, whatever the index, address.
BodyMatchesDeclaration ==
    outcome = "materialized" =>
        LET memory == SelectSeq(body, LAMBDA l : l.op \in Memory)
        IN  /\ Len(memory) = Len(memoryAccesses)
            /\ \A k \in DOMAIN memory :
                LET bytes == ElementBytes(memoryObjects[memoryAccesses[k].object])
                IN  /\ memoryAccesses[k].kind = memory[k].op
                    /\ memoryAccesses[k].width = 8 * bytes
                    /\ memoryAccesses[k].value = IF memory[k].op = "load" THEN memory[k].def ELSE memory[k].uses[1]
                    /\ Declared(memoryAccesses[k].address) = Computed(Last(memory[k].uses), bytes)

\* Every name of the body of a kernel has one definition.
BodyIsSSA ==
    outcome = "materialized" =>
        \A m, n \in DOMAIN body :
            /\ body[m].def \notin DOMAIN signature.inputs
            /\ m # n /\ body[m].op # "store" => body[m].def # body[n].def
=============================================================================
