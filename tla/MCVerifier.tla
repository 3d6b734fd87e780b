------------------------------- MODULE MCVerifier -------------------------------
(***************************************************************************)
(* Small instances of the verifier: the verdict on a candidate, and the    *)
(* memory it is given with the check of its accesses.  A behaviour runs    *)
(* one of the two.                                                         *)
(***************************************************************************)
EXTENDS MCSemanticVerifier, VerifierMemory

-----------------------------------------------------------------------------
(* Small instances of VerifierMemory. Guest registers x, y, z, i and sp;   *)
(* host registers X, Y, Z, I, SP and BP. Slots of one or two bytes.        *)
MCFramePairs == {<<"sp", "SP">>, <<"sp", "BP">>}

Addr(base, disp) == [base |-> base, index |-> "none", scale |-> 1, disp |-> disp]
Indexed(base, index, scale, disp) == [base |-> base, index |-> index, scale |-> scale, disp |-> disp]

Paired == {<<"x", "X">>, <<"y", "Y">>, <<"z", "Z">>, <<"i", "I">>}

Slot(n, size) == [name |-> n, size |-> size]
Bind(s, g, h) == [slot |-> s, guest |-> g, host |-> h]
Expect(s, k, w) == [slot |-> s, kind |-> k, width |-> w]
Symbol(n) == <<"symbol", n>>
Do(k, addr, w, value) == [kind |-> k, addr |-> addr, width |-> w, value |-> value]
Alias(r, ss) == [relation |-> r, slots |-> ss]

Swap(q) == <<q[2], q[1]>>

\* Two accesses through two pairs of addresses: in order or swapped on the
\* host, of equal kinds or not, of other values or widths.
Two(gs, hs, sizes) ==
    {[slots |-> <<Slot("a", sizes[1]), Slot("b", sizes[2])>>, alias |-> al, inputs |-> Paired,
      bindings |-> <<Bind("a", gs[1], hs[1]), Bind("b", gs[2], hs[2])>>,
      accesses |-> <<Expect("a", k1, sizes[1]), Expect("b", k2, sizes[2])>>,
      guest |-> <<Do(k1, gs[1], sizes[1], Symbol("v")), Do(k2, gs[2], sizes[2], v2)>>,
      host |-> LET ops == <<Do(k1, hs[1], w, Symbol("v")), Do(k2, hs[2], sizes[2], v3)>>
               IN  IF swapped THEN Swap(ops) ELSE ops] :
        al \in {<<>>, <<Alias("disjoint", <<"a", "b">>)>>}, k1 \in {"read", "write"},
        k2 \in {"read", "write"}, v2 \in {Symbol("w")}, w \in {sizes[1], 1},
        v3 \in {Symbol("v"), Symbol("w")}, swapped \in BOOLEAN}

Apart == <<Addr("x", 0), Addr("y", 1)>>
ApartHost == <<Addr("X", 0), Addr("Y", 1)>>
SameBase == <<Addr("x", 0), Addr("x", 1)>>
SameBaseHost == <<Addr("X", 0), Addr("X", 1)>>
Frame(d) == <<Addr("sp", 0), Addr("sp", d)>>
FrameHost(d) == <<Addr("SP", 4), Addr("SP", 4 + d)>>
OtherFrame == <<Addr("SP", 0), Addr("BP", 2)>>

Pairs ==
    Two(Apart, ApartHost, <<2, 2>>) \cup Two(SameBase, SameBaseHost, <<1, 1>>)
    \cup Two(Frame(2), FrameHost(2), <<2, 2>>) \cup Two(Frame(1), FrameHost(1), <<2, 2>>)
    \cup Two(Frame(2), FrameHost(1), <<1, 1>>) \cup Two(Frame(2), OtherFrame, <<1, 1>>)

\* What is loaded is stored elsewhere; the host may store something else.
Copies ==
    {[slots |-> <<Slot("a", 1), Slot("b", 1)>>, alias |-> al, inputs |-> Paired,
      bindings |-> <<Bind("a", Apart[1], ApartHost[1]), Bind("b", Apart[2], ApartHost[2])>>,
      accesses |-> <<Expect("a", "read", 1), Expect("b", "write", 1)>>,
      guest |-> <<Do("read", Apart[1], 1, Symbol("v")), Do("write", Apart[2], 1, <<"load", 1>>)>>,
      host |-> <<Do("read", hs[1], 1, Symbol("v")), Do("write", hs[2], 1, v)>>] :
        al \in {<<>>, <<Alias("must_alias", <<"a", "b">>)>>}, v \in {<<"load", 1>>, Symbol("v")},
        hs \in {ApartHost, <<ApartHost[1], ApartHost[1]>>}}

\* Three slots and every list of at most two declarations.
Declarations ==
    {Alias(r, ss) : r \in {"must_alias", "disjoint"},
                    ss \in {<<"a", "b">>, <<"c", "b">>, <<"a", "c">>, <<"b", "c", "a">>}}
Aliased(lists) ==
    {[slots |-> <<Slot("a", 1), Slot("b", 2), Slot("c", 1)>>, alias |-> al, inputs |-> Paired,
      bindings |-> <<Bind("a", Addr("x", 0), Addr("X", 0)), Bind("b", Addr("y", 0), Addr("Y", 0)),
                     Bind("c", Addr("z", 0), Addr("Z", 0))>>,
      accesses |-> <<Expect("b", "read", 2)>>,
      guest |-> <<Do("read", Addr("y", 0), 2, Symbol("v"))>>,
      host |-> <<Do("read", Addr("Y", 0), 2, Symbol("v"))>>] : al \in lists}
DeclarationLists == {<<>>} \cup {<<a>> : a \in Declarations} \cup {<<a, b>> : a, b \in Declarations}

\* One indexed access.
IndexedOnes(ds) ==
    {[slots |-> <<Slot("a", 1)>>, alias |-> <<>>, inputs |-> ins,
      bindings |-> <<Bind("a", g, h)>>, accesses |-> <<Expect("a", "read", 1)>>,
      guest |-> <<Do("read", g, 1, Symbol("v"))>>, host |-> <<Do("read", h, 1, Symbol("v"))>>] :
        ins \in {Paired, {<<"i", "I">>}}, g \in {Indexed("x", "i", 1, 0), Indexed("sp", "i", 1, 0)},
        h \in {Indexed("X", "I", s, d) : s \in 1..2, d \in ds} \cup {Indexed("SP", "I", 1, 4), Indexed("X", "X", 1, 0)}}

MCMemoryCandidates == Pairs \cup Copies \cup Aliased(DeclarationLists) \cup IndexedOnes({0, 1})

-----------------------------------------------------------------------------

VARIABLE part

Idle == CHOOSE c \in Candidates : TRUE

IdleMemory == CHOOSE c \in MemoryCandidates : TRUE

VerifierInit ==
    \/ part = "verdict" /\ Init /\ memoryCandidate = IdleMemory /\ MemoryInit
    \/ part = "memory" /\ candidate = Idle /\ failFast = FALSE /\ Init /\ MemoryInit

VerifierNext ==
    \/ part = "verdict" /\ Next /\ UNCHANGED <<part, memoryVars>>
    \/ part = "memory" /\ MemoryNext /\ UNCHANGED <<part, vars>>

VerifierSpec == VerifierInit /\ [][VerifierNext]_<<part, vars, memoryVars>>

=============================================================================
