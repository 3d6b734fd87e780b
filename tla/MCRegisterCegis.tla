--------------------------- MODULE MCRegisterCegis ---------------------------
(***************************************************************************)
(* Small instances of RegisterCegis.  Registers are one or two bits wide   *)
(* (8-bit halves and full registers, in spirit), surfaces have at most     *)
(* MaxSurface = 3 registers, and the synthesis loop fewer rounds than the  *)
(* six orders of three registers, so that the round limit is met.          *)
(***************************************************************************)
EXTENDS RegisterCegis

MCValues == [w \in 1..2 |-> 0..(2^w - 1)]

R(side, n, width) == [name |-> <<side, n>>, width |-> width, fixedRole |-> FALSE]
StackPointer(side, n) == [R(side, n, 1) EXCEPT !.fixedRole = TRUE]
Surface(in, out) == [kind |-> "register", inputs |-> in, outputs |-> out]

\* A register-only window pair with the given surfaces and transfers.
RegisterProblem(guest, host, g, h) ==
    [guest |-> guest, host |-> host, fixedPairs |-> {},
     hasMemory |-> FALSE, hasFlags |-> FALSE, hasControlFlow |-> FALSE,
     extraction |-> "none", guestTransfer |-> g, hostTransfer |-> h,
     proves |-> {}]

\* The surface of n one-bit inputs and a one-bit output.
Bits(side, n) == Surface([i \in 1..n |-> R(side, i, 1)], <<R(side, 9, 1)>>)

\* The k-th one-output function of n bits: bit number x of k is its value at x.
Vectors(n) == [1..n -> {0, 1}]
Bit(k, i) == (k \div 2^i) % 2
Transfer2(k) == [x \in Vectors(2) |-> <<Bit(k, 2 * x[1] + x[2])>>]
Transfer3(k) == [x \in Vectors(3) |-> <<Bit(k, 4 * x[1] + 2 * x[2] + x[3])>>]

\* Every pair of functions of two bits.
TwoBit == [k \in 1..256 |->
    RegisterProblem(Bits("g", 2), Bits("h", 2),
                    Transfer2((k - 1) \div 16), Transfer2((k - 1) % 16))]

\* A selection "c ? a : b" on the guest against every function of three bits.
Select3 == [x \in Vectors(3) |-> <<IF x[1] = 1 THEN x[2] ELSE x[3]>>]
ThreeBit == [k \in 1..256 |->
    RegisterProblem(Bits("g", 3), Bits("h", 3), Select3, Transfer3(k - 1))]

\* Mixed widths and two outputs: the guest computes <<b - a + c, a>> for wide
\* a and b and a narrow c; the host has them in other places.
Mixed(side, c) == Surface(
    [i \in 1..3 |-> R(side, i, IF i = c THEN 1 ELSE 2)],
    <<R(side, 8, 2), R(side, 9, 2)>>)
MixedVectors(c) == {x \in [1..3 -> 0..3] : x[c] \in {0, 1}}
Difference(x, a, b, c) == (x[b] + 4 - x[a] + x[c]) % 4
Subtract(a, b, c) == [x \in MixedVectors(c) |-> <<Difference(x, a, b, c), x[a]>>]
Swapped(a, b, c)  == [x \in MixedVectors(c) |-> <<x[a], Difference(x, a, b, c)>>]
MixedWidth ==
    LET P(h) == RegisterProblem(Mixed("g", 3), Mixed("h", 2), Subtract(1, 2, 3), h)
    IN  <<P(Subtract(1, 3, 2)), P(Subtract(3, 1, 2)), P(Swapped(3, 1, 2))>>

\* Windows with memory or a branch, for which any set of mappings may pass;
\* the memory surface fixes nothing, a pair, a contradiction, or a pair of
\* registers outside the surface of one side or of both.
Orders == <<<<1, 2, 3>>, <<1, 3, 2>>, <<2, 1, 3>>, <<2, 3, 1>>, <<3, 1, 2>>, <<3, 2, 1>>>>
Passing(k) == {[in |-> Orders[i], out |-> <<1>>] : i \in {j \in 1..6 : Bit(k, j - 1) = 1}}
Searches(fixed) == [k \in 1..64 |->
    [RegisterProblem(Bits("g", 3), Bits("h", 3), Select3, Select3) EXCEPT
        !.fixedPairs = fixed, !.hasMemory = fixed # {},
        !.hasControlFlow = fixed = {}, !.proves = Passing(k - 1)]]
Free        == Searches({})
OnePair     == Searches({<<<<"g", 1>>, <<"h", 2>>>>, <<<<"g", 7>>, <<"h", 7>>>>})
Conflicting == Searches({<<<<"g", 1>>, <<"h", 1>>>>, <<<<"g", 1>>, <<"h", 2>>>>})
OutsidePair == Searches({<<<<"g", 2>>, <<"h", 7>>>>})

\* A problem of each kind the search does not take, and extraction errors.
Plain == RegisterProblem(Bits("g", 2), Bits("h", 2), Transfer2(3), Transfer2(3))
HostInputs(in) == [Plain EXCEPT !.host.inputs = in]
Rejected ==
    <<[Plain EXCEPT !.host.kind = "branch"],
      [HostInputs(Bits("h", 4).inputs) EXCEPT !.guest.inputs = Bits("g", 4).inputs],
      HostInputs(Bits("h", 1).inputs),
      HostInputs(<<R("h", 1, 1), StackPointer("h", 2)>>),
      HostInputs(<<R("h", 1, 1), R("h", 2, 0)>>),
      HostInputs(<<R("h", 1, 1), R("h", 2, 2)>>),
      [HostInputs(<<R("h", 1, 1), R("h", 2, 2)>>) EXCEPT !.hasMemory = TRUE],
      [HostInputs(<<R("h", 1, 1), R("h", 2, 2), R("h", 3, 2)>>) EXCEPT
          !.guest.inputs = <<R("g", 1, 1), R("g", 2, 1), R("g", 3, 2)>>,
          !.hasMemory = TRUE],
      [Plain EXCEPT !.extraction = "execution_shape"],
      [Plain EXCEPT !.extraction = "unmodeled_input"]>>

\* Constant-producing windows: no inputs at all.
Constant(b) ==
    RegisterProblem(Bits("g", 0), Bits("h", 0),
                    [x \in Vectors(0) |-> <<0>>], [x \in Vectors(0) |-> <<b>>])

MCProblems == TwoBit \o ThreeBit \o MixedWidth \o Free \o [k \in 1..16 |-> OnePair[4 * k]]
              \o <<Conflicting[64], OutsidePair[64], Constant(0), Constant(1)>>
              \o Rejected

\* A selection of them for the other runs.
MCFewProblems == [k \in 1..12 |-> ThreeBit[192 + k]]
                 \o [k \in 1..8 |-> Free[8 * k]] \o [k \in 1..16 |-> OnePair[4 * k]]
                 \o <<Conflicting[64], Constant(0), Constant(1)>>
                 \o Rejected
=============================================================================
