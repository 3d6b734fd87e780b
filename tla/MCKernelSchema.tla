----------------------------- MODULE MCKernelSchema -----------------------------
(***************************************************************************)
(* Small instances of KernelSchema: all kernels of a few operations over   *)
(* one or two memory objects, and scalar kernels of every operation.       *)
(***************************************************************************)
EXTENDS KernelSchema

CONSTANTS MemoryOperations, ScalarOperations

MCObjectSets(s) == IF Ptr \in Range(s.inputs) THEN {[slot |-> [base |-> "p", bits |-> 32]]} ELSE {[n \in {} |-> 0]}

MCOperations(s) == IF Ptr \in Range(s.inputs) THEN MemoryOperations ELSE ScalarOperations

NoAddress == [base |-> "none", index |-> "none", scale |-> 1, disp |-> 0]
Scalar(op, result, type, operands) ==
    [op |-> op, result |-> result, type |-> type, operands |-> operands, object |-> "none", address |-> NoAddress]
LoadOp(result, type, address) ==
    [op |-> "load", result |-> result, type |-> type, operands |-> <<>>, object |-> "slot", address |-> address]
StoreOp(value, address) ==
    [op |-> "store", result |-> "none", type |-> 0, operands |-> <<value>>, object |-> "slot", address |-> address]

At(index, scale, disp) == [base |-> "p", index |-> index, scale |-> scale, disp |-> disp]
Addresses == {At("none", 1, 0), At("none", 1, 4), At("none", 1, -4), At("none", 1, 2), At("i", 4, 0), At("i", 4, 4),
              At("i", 1, 0), At("v", 4, 0), [At("none", 1, 0) EXCEPT !.base = "i"]}

Out(name, type) == {[name |-> name, type |-> type]}

MCMemorySignatures ==
    {[inputs |-> [p |-> Ptr, i |-> 64, v |-> 32], output |-> o, memory |-> m] : o \in {{}, Out("x", 32)}, m \in BOOLEAN}
    \cup {[inputs |-> [p |-> Ptr], output |-> Out("x", 32), memory |-> TRUE],
          [inputs |-> [p |-> Ptr, v |-> 32], output |-> {}, memory |-> TRUE]}
MCMemoryOperations ==
    {LoadOp(r, 32, a) : r \in {"x", "y"}, a \in Addresses}
    \cup {StoreOp(v, a) : v \in {"v", "x"}, a \in Addresses}
    \cup {Scalar("add", "x", 32, <<"y", "v">>), Scalar("add", "j", 64, <<"i", Literal>>), LoadOp("x", 64, At("none", 1, 0)),
          StoreOp("v", At("j", 4, 0))}

MCScalarSignatures ==
    {[inputs |-> [a |-> 32, b |-> 32], output |-> o, memory |-> FALSE] : o \in {Out("x", 32), Out("x", 64), Out("c", 1)}}
MCScalarOperations ==
    {Scalar("add", "x", 32, <<"a", "b">>), Scalar("sub", "y", 32, <<Literal, "a">>), Scalar("shl", "x", 32, <<"y", "c">>),
     Scalar("icmp", "c", 1, <<"a", "y">>), Scalar("icmp", "c", 1, <<Literal, Literal>>),
     Scalar("zext", "x", 64, <<"y">>), Scalar("zext", "x", 32, <<"c">>), Scalar("trunc", "c", 1, <<"b">>),
     Scalar("sext", "y", 32, <<"b">>), Scalar("select", "x", 32, <<"c", "a", "b">>),
     Scalar("select", "x", 32, <<"c", "y", Literal>>)}

MCSignatures == MCMemorySignatures \cup MCScalarSignatures

\* A scalar result named like the address of an access.
ClashOperations ==
    {Scalar("add", "q", 32, <<"v", Literal>>), StoreOp("q", At("none", 1, 4)), StoreOp("q", At("none", 1, 0))}
=============================================================================
