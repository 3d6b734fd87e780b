--------------------------- MODULE MCMemorySurface ---------------------------
(***************************************************************************)
(* Small instances of MemorySurface: windows of up to four instructions    *)
(* that compute, load, store, push and store pairs.                        *)
(***************************************************************************)
EXTENDS MemorySurface

MCStackPointer == [guest |-> "sp", host |-> "SP"]
MCFramePairs == {<<"sp", "SP">>}

Op(kind, base, disp, value) ==
    [kind |-> kind, width |-> 1, base |-> base, index |-> "none", disp |-> disp, value |-> value, at |-> 0]
Access(ops, reads, writes, delta) ==
    [operands |-> ops, touches |-> ops # <<>>, reads |-> reads, writes |-> writes, delta |-> delta]

Copy(r, s) == Access(<<>>, <<s>>, {r}, 0)
Combine(r, s) == Access(<<>>, <<r, s>>, {r}, 0)
Load(r, b) == Access(<<Op("read", b, 0, "none")>>, <<b>>, {r}, 0)
Store(r, b) == Access(<<Op("write", b, 0, r)>>, <<r, b>>, {}, 0)
StoreConst(b) == Access(<<Op("write", b, 0, "none")>>, <<b>>, {}, 0)
Indexed(r, b, i) == Access(<<[Op("write", b, 0, r) EXCEPT !.index = i]>>, <<r, b, i>>, {}, 0)
Opaque == Access(<<>>, <<>>, {}, 0)
Push(r, sp) == Access(<<Op("write", sp, -1, r)>>, <<r, sp>>, {sp}, -1)
StorePair(r, s, sp) == Access(<<Op("write", sp, 0, r), Op("write", sp, 1, s)>>, <<r, s, sp>>, {}, 0)
OnStack(kind, r, sp, d) == Access(<<Op(kind, sp, d, r)>>, <<r, sp>>, {}, 0)

Seqs(S, n) == UNION {[1..k -> S] : k \in 0..n}

\* Chains of producers before one store.
Compute(a, b) == {Copy(a, b), Combine(a, b), Copy(b, a), Load(a, b)}
Chains ==
    {[guest |-> g \o <<Store("x", "y")>>, host |-> h \o <<Store("X", "Y")>>] :
        g \in Seqs(Compute("x", "z"), 3), h \in Seqs({Copy("X", "Z"), Combine("X", "Z"), Copy("Z", "X")}, 2)}

\* Stack accesses: pushes and stores in all orders, overlaps, mixed kinds.
Stack(sp, a, b) ==
    {Push(a, sp), Push(b, sp), OnStack("write", a, sp, 0), OnStack("write", b, sp, 1), OnStack("read", a, sp, 0)}
Stacks ==
    {[guest |-> g, host |-> h] : g \in Seqs(Stack("sp", "x", "y"), 2) \cup {<<StorePair("x", "y", "sp")>>},
                                 h \in Seqs(Stack("SP", "X", "Y"), 2)}

\* One reason each to skip.
Odd ==
    {[guest |-> g, host |-> h] :
        g \in {<<Store("x", "y")>>, <<Indexed("x", "y", "z")>>, <<StoreConst("y")>>,
               <<[Opaque EXCEPT !.touches = TRUE]>>},
        h \in {<<Store("X", "Y")>>, <<Indexed("X", "Y", "Z")>>, <<[Store("X", "Y") EXCEPT !.operands[1].width = 2]>>}}

\* A first access that binds and a second one that does not.
Second ==
    {[guest |-> <<Store("x", "y"), g>>, host |-> <<Store("X", "Y"), h>>] :
        g \in {Store("x", "y"), Load("x", "y"), StoreConst("y"), Indexed("x", "y", "z")},
        h \in {Store("X", "Y"), [Store("X", "Y") EXCEPT !.operands[1].width = 2]}}

\* A surface of a pair that nothing is collected of.
MemorySurfacesOff == MemorySurfaceInit /\ accessPair = CHOOSE p \in Odd : TRUE

MCMemoryPairs == Chains \cup Stacks \cup Odd \cup Second
=============================================================================
