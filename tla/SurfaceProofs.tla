----------------------------- MODULE SurfaceProofs -----------------------------
(***************************************************************************)
(* Safety of the liveness loop for every function and every register set:  *)
(* it stops only with a solution of the dataflow equations, the solution   *)
(* is the least one, and the live sets only grow on the way.  With such a  *)
(* solution the backward slice of a window is what its effects depend on.  *)
(* The slots of memory surfaces: where a stack access is, and where the    *)
(* value of a store comes from.  And what the inference makes of surfaces, *)
(* whatever they are.                                                      *)
(***************************************************************************)
EXTENDS WindowSurface, MemorySurface, SurfaceInference, DataInduction

Equation(i) ==
    /\ liveOut[i] = NextOut(function, liveIn, i)
    /\ liveIn[i] = NextIn(function, liveIn, i)

\* A pass that has changed nothing so far leaves its instructions solved.
Solved ==
    /\ done => cursor = 0 /\ ~changed
    /\ ~changed => \A i \in Instructions(function) : i > cursor => Equation(i)

\* Every live set is at most what a visit would now compute.
Growing ==
    \A i \in Instructions(function) :
        /\ liveOut[i] \subseteq NextOut(function, liveIn, i)
        /\ liveIn[i] \subseteq NextIn(function, liveIn, i)

\* The instructions of a function are numbered from 1.
LEMMA InstructionNumbers ==
    ASSUME NEW f \in DOMAIN Code
    PROVE  /\ Len(Code[f]) \in Nat \ {0}
           /\ Instructions(f) = 1..Len(Code[f])
BY CodeAssumption DEF Instructions

LEMMA SuccessorsAreInstructions ==
    ASSUME NEW f \in DOMAIN Code, NEW i \in Instructions(f)
    PROVE  Successors(f, i) \subseteq Instructions(f)
BY DEF Successors, ParsedTarget, At, Fallthrough

\* What a visit computes stays within the families.
LEMMA VisitStaysTyped ==
    ASSUME NEW f \in DOMAIN Code, NEW i \in Instructions(f),
           NEW in \in [Instructions(f) -> SUBSET Families]
    PROVE  NextOut(f, in, i) \in SUBSET Families /\ NextIn(f, in, i) \in SUBSET Families
<1>1. Reads(f, i) \subseteq Families
  BY CodeAssumption, AbiAssumption DEF Reads, Instructions, IsInstruction
<1>2. ExitSeed(f, i) \subseteq Families
  BY AbiAssumption DEF ExitSeed
<1>3. \A s \in Successors(f, i) : in[s] \subseteq Families
  BY SuccessorsAreInstructions
<1>4. NextOut(f, in, i) \in SUBSET Families
  BY <1>2, <1>3 DEF NextOut
<1> QED BY <1>1, <1>4 DEF NextIn

\* Larger sets at the successors give larger sets at the instruction.
LEMMA VisitIsMonotone ==
    ASSUME NEW f \in DOMAIN Code, NEW i \in Instructions(f), NEW in, NEW larger,
           \A s \in Instructions(f) : in[s] \subseteq larger[s]
    PROVE  /\ NextOut(f, in, i) \subseteq NextOut(f, larger, i)
           /\ NextIn(f, in, i) \subseteq NextIn(f, larger, i)
<1>1. NextOut(f, in, i) \subseteq NextOut(f, larger, i)
  BY SuccessorsAreInstructions DEF NextOut
<1> QED BY <1>1 DEF NextIn

\* The instruction a visit is about.
LEMMA VisitInFunction ==
    ASSUME TypeOK, Visit
    PROVE  /\ function \in DOMAIN Code /\ function' = function /\ ~done
           /\ cursor \in Nat /\ cursor \in Instructions(function)
           /\ cursor - 1 \in 0..Len(Code[function])
<1>1. function \in DOMAIN Code /\ function' = function /\ cursor > 0 /\ ~done
  BY DEF TypeOK, Visit
<1>2. cursor \in 0..Len(Code[function])
  BY DEF TypeOK
<1>3. /\ Len(Code[function]) \in Nat \ {0}
      /\ Instructions(function) = 1..Len(Code[function])
  BY <1>1, InstructionNumbers
<1>4. /\ cursor \in Nat /\ cursor \in 1..Len(Code[function])
      /\ cursor - 1 \in 0..Len(Code[function])
  BY <1>1, <1>2, <1>3
<1> QED BY <1>1, <1>3, <1>4

LEMMA TypeInit == Init => TypeOK
<1> SUFFICES ASSUME Init PROVE TypeOK
  OBVIOUS
<1>1. function \in DOMAIN Code /\ cursor = Len(Code[function])
  BY DEF Init
<1>2. cursor \in 0..Len(Code[function])
  BY <1>1, InstructionNumbers
<1>3. \A i \in Instructions(function) : ExitSeed(function, i) \in SUBSET Families
  BY AbiAssumption DEF ExitSeed
<1>4. /\ liveIn \in [Instructions(function) -> SUBSET Families]
      /\ liveOut \in [Instructions(function) -> SUBSET Families]
  BY <1>3 DEF Init
<1> QED BY <1>1, <1>2, <1>4 DEF Init, TypeOK

LEMMA TypeStep == TypeOK /\ [Next]_vars => TypeOK'
<1> SUFFICES ASSUME TypeOK, [Next]_vars PROVE TypeOK'
  OBVIOUS
<1>1. CASE Visit
  <2>1. /\ NextOut(function, liveIn, cursor) \in SUBSET Families
        /\ NextIn(function, liveIn, cursor) \in SUBSET Families
    BY <1>1, VisitInFunction, VisitStaysTyped DEF TypeOK
  <2>2. /\ liveIn' \in [Instructions(function) -> SUBSET Families]
        /\ liveOut' \in [Instructions(function) -> SUBSET Families]
    BY <1>1, <2>1 DEF Visit, TypeOK
  <2>3. changed' \in BOOLEAN
    BY <1>1 DEF Visit, TypeOK
  <2>4. /\ function' = function /\ done' = done
        /\ cursor' \in 0..Len(Code[function])
    BY <1>1, VisitInFunction DEF Visit
  <2> QED BY <2>2, <2>3, <2>4 DEF TypeOK
<1>2. CASE NextPass
  <2>1. /\ UNCHANGED <<function, liveIn, liveOut, done>>
        /\ changed' = FALSE /\ cursor' = Len(Code[function])
    BY <1>2 DEF NextPass
  <2>2. cursor' \in 0..Len(Code[function])
    BY <2>1, InstructionNumbers DEF TypeOK
  <2> QED BY <2>1, <2>2 DEF TypeOK
<1>3. CASE Stop
  BY <1>3 DEF Stop, TypeOK
<1>4. CASE UNCHANGED vars
  BY <1>4 DEF vars, TypeOK
<1> QED BY <1>1, <1>2, <1>3, <1>4 DEF Next, Step, Returned

(***************************************************************************)
(* TypeOK, for every set of functions: the cursor stays in the function    *)
(* and every live set within the register families.                        *)
(***************************************************************************)
THEOREM TypeCorrect == Spec => []TypeOK
BY TypeInit, TypeStep, PTL DEF Spec

LEMMA SolvedStep == TypeOK /\ Solved /\ [Next]_vars => Solved'
<1> SUFFICES ASSUME TypeOK, Solved, [Next]_vars PROVE Solved'
  OBVIOUS
<1>1. CASE Visit
  <2>1. cursor \in Instructions(function) /\ cursor \in Nat /\ ~done
    BY <1>1, VisitInFunction
  <2> SUFFICES ASSUME ~changed', NEW i \in Instructions(function), i > cursor - 1
               PROVE  Equation(i)'
    BY <1>1, <2>1 DEF Visit, Solved
  <2>2. liveIn' = liveIn /\ liveOut' = liveOut /\ function' = function /\ ~changed
    BY <1>1 DEF Visit
  <2>3. Equation(i)
    <3>1. i \in Nat
      BY InstructionNumbers DEF TypeOK
    <3>2. CASE i = cursor
      <4>1. /\ liveOut'[cursor] = NextOut(function, liveIn, cursor)
            /\ liveIn'[cursor] = NextIn(function, liveIn, cursor)
        BY <1>1, <2>1 DEF Visit, TypeOK
      <4> QED BY <2>2, <3>2, <4>1 DEF Equation
    <3>3. CASE i # cursor
      <4>1. i > cursor
        BY <2>1, <3>1, <3>3
      <4> QED BY <2>2, <4>1 DEF Solved
    <3> QED BY <3>2, <3>3
  <2> QED BY <2>2, <2>3 DEF Equation
<1>2. CASE NextPass
  <2>1. \A i \in Instructions(function) : ~(i > Len(Code[function]))
    BY InstructionNumbers DEF TypeOK
  <2> QED BY <1>2, <2>1 DEF NextPass, Solved
<1>3. CASE Stop
  BY <1>3 DEF Stop, Solved, Equation
<1>4. CASE UNCHANGED vars
  BY <1>4 DEF vars, Solved, Equation
<1> QED BY <1>1, <1>2, <1>3, <1>4 DEF Next, Step, Returned

(***************************************************************************)
(* DoneIsFixpoint: the changed flag of the loop is a sound reason to stop. *)
(* The strengthening says what a false flag means in the middle of a pass: *)
(* the instructions visited so far in it satisfy their equations.          *)
(***************************************************************************)
THEOREM StopsAtFixpoint == Spec => []DoneIsFixpoint
<1>1. Init => Solved
  <2> SUFFICES ASSUME Init PROVE Solved
    OBVIOUS
  <2>1. \A i \in Instructions(function) : ~(i > cursor)
    BY InstructionNumbers DEF Init
  <2> QED BY <2>1 DEF Init, Solved
<1>2. TypeOK /\ Solved => DoneIsFixpoint
  <2> SUFFICES ASSUME TypeOK, Solved, done, NEW i \in Instructions(function)
               PROVE  Equation(i)
    BY DEF DoneIsFixpoint, Equation
  <2>1. i > cursor
    BY InstructionNumbers DEF TypeOK, Solved
  <2> QED BY <2>1 DEF Solved
<1> QED BY <1>1, <1>2, SolvedStep, TypeCorrect, PTL DEF Spec

LEMMA LeastStep == TypeOK /\ LeastSolution /\ [Next]_vars => LeastSolution'
<1> SUFFICES ASSUME TypeOK, LeastSolution, [Next]_vars PROVE LeastSolution'
  OBVIOUS
<1>1. CASE Visit
  <2>1. cursor \in Instructions(function) /\ function' = function /\ function \in DOMAIN Code
    BY <1>1, VisitInFunction
  <2> SUFFICES ASSUME NEW r \in Families, NEW S \in LiveRanges[function][r],
                      NEW i \in Instructions(function), r \in liveIn'[i]
               PROVE  i \in S
    BY <2>1 DEF LeastSolution
  <2>2. ClosedFor(function, r, S)
    BY <2>1 DEF LiveRanges
  <2>3. \A j \in Instructions(function) : r \in liveIn[j] => j \in S
    BY DEF LeastSolution
  <2>4. CASE i = cursor
    <3>1. r \in NextIn(function, liveIn, cursor)
      BY <1>1, <2>1, <2>4 DEF Visit, TypeOK
    <3>2. CASE r \in Reads(function, cursor)
      BY <2>1, <2>2, <2>4, <3>2 DEF ClosedFor
    <3>3. CASE r \notin Reads(function, cursor)
      <4>1. r \notin Writes(function, cursor) /\ r \in NextOut(function, liveIn, cursor)
        BY <3>1, <3>3 DEF NextIn
      <4>2. r \in ExitSeed(function, cursor)
              \/ \E s \in Successors(function, cursor) : r \in liveIn[s]
        BY <4>1 DEF NextOut
      <4>3. r \in ExitSeed(function, cursor) \/ Successors(function, cursor) \cap S # {}
        BY <2>1, <2>3, <4>2, SuccessorsAreInstructions
      <4> QED BY <2>1, <2>2, <2>4, <4>1, <4>3 DEF ClosedFor
    <3> QED BY <3>2, <3>3
  <2>5. CASE i # cursor
    <3>1. liveIn'[i] = liveIn[i]
      BY <1>1, <2>5 DEF Visit, TypeOK
    <3> QED BY <2>3, <3>1
  <2> QED BY <2>4, <2>5
<1>2. CASE NextPass \/ Stop \/ UNCHANGED vars
  BY <1>2 DEF NextPass, Stop, vars, LeastSolution
<1> QED BY <1>1, <1>2 DEF Next, Step, Returned

(***************************************************************************)
(* LeastSolution: whatever is live is live for a reason, a path to a read  *)
(* or to a return, whatever order the in-place updates come in.            *)
(***************************************************************************)
THEOREM LiveForAReason == Spec => []LeastSolution
<1>1. Init => LeastSolution
  BY DEF Init, LeastSolution
<1> QED BY <1>1, LeastStep, TypeCorrect, PTL DEF Spec

LEMMA VisitGrows ==
    ASSUME TypeOK, Growing, Visit
    PROVE  /\ function' = function
           /\ \A i \in Instructions(function) :
                  liveIn[i] \subseteq liveIn'[i] /\ liveOut[i] \subseteq liveOut'[i]
           /\ Growing'
<1>1. cursor \in Instructions(function) /\ function' = function /\ function \in DOMAIN Code
  BY VisitInFunction
<1>2. \A i \in Instructions(function) :
          /\ liveIn'[i] = IF i = cursor THEN NextIn(function, liveIn, i) ELSE liveIn[i]
          /\ liveOut'[i] = IF i = cursor THEN NextOut(function, liveIn, i) ELSE liveOut[i]
  BY <1>1 DEF Visit, TypeOK
<1>3. \A i \in Instructions(function) :
          liveIn[i] \subseteq liveIn'[i] /\ liveOut[i] \subseteq liveOut'[i]
  BY <1>2 DEF Growing
<1>4. \A i \in Instructions(function) :
          /\ NextOut(function, liveIn, i) \subseteq NextOut(function, liveIn', i)
          /\ NextIn(function, liveIn, i) \subseteq NextIn(function, liveIn', i)
  BY <1>1, <1>3, VisitIsMonotone
<1>5. Growing'
  <2>1. \A i \in Instructions(function) :
            /\ liveOut'[i] \subseteq NextOut(function, liveIn', i)
            /\ liveIn'[i] \subseteq NextIn(function, liveIn', i)
    BY <1>2, <1>4 DEF Growing
  <2> QED BY <1>1, <2>1 DEF Growing
<1> QED BY <1>1, <1>3, <1>5

LEMMA GrowingStep ==
    TypeOK /\ Growing /\ [Next]_vars =>
        /\ Growing'
        /\ [function' = function /\ \A i \in Instructions(function) :
               liveIn[i] \subseteq liveIn'[i] /\ liveOut[i] \subseteq liveOut'[i]]_vars
<1> SUFFICES ASSUME TypeOK, Growing, [Next]_vars
             PROVE  /\ Growing'
                    /\ function' = function
                    /\ \A i \in Instructions(function) :
                           liveIn[i] \subseteq liveIn'[i] /\ liveOut[i] \subseteq liveOut'[i]
  OBVIOUS
<1>1. CASE Visit
  BY <1>1, VisitGrows
<1>2. CASE NextPass \/ Stop \/ UNCHANGED vars
  BY <1>2 DEF NextPass, Stop, vars, Growing
<1> QED BY <1>1, <1>2 DEF Next, Step, Returned

(***************************************************************************)
(* Monotone: no step takes a family out of a live set, for every function. *)
(* With finitely many families this is why the loop stops.                 *)
(***************************************************************************)
THEOREM LiveSetsGrow == Spec => Monotone
<1>1. Init => Growing
  <2> SUFFICES ASSUME Init, NEW i \in Instructions(function)
               PROVE  /\ liveOut[i] \subseteq NextOut(function, liveIn, i)
                      /\ liveIn[i] \subseteq NextIn(function, liveIn, i)
    BY DEF Growing
  <2>1. liveIn[i] = {} /\ liveOut[i] = ExitSeed(function, i)
    BY DEF Init
  <2> QED BY <2>1 DEF NextOut
<1> QED BY <1>1, GrowingStep, TypeCorrect, PTL DEF Spec, Monotone

(***************************************************************************)
(* The slice of a window: its backward walk, and the forward reference, as *)
(* functions that solve the equations the model writes them with.          *)
(***************************************************************************)
Walk(f, w, out) ==
    {after \in [(w[1] - 1)..w[2] -> SUBSET Families] : \A i \in (w[1] - 1)..w[2] :
        after[i] = IF i = w[2] THEN StartOfSlice(f, w, out) ELSE SliceStep(f, w, i + 1, after[i + 1])}

DependsAfter(f, i, deps) ==
    [r \in Families |->
        IF r \in Writes(f, i) THEN UNION {deps[x] : x \in Reads(f, i)} ELSE deps[r]]

Reference(f, w) ==
    {deps \in [(w[1] - 1)..w[2] -> [Families -> SUBSET Families]] : \A i \in (w[1] - 1)..w[2] :
        deps[i] = IF i < w[1] THEN [r \in Families |-> {r}] ELSE DependsAfter(f, i, deps[i - 1])}

LEMMA WindowPlaces ==
    ASSUME NEW f \in DOMAIN Code, NEW w \in Windows(f)
    PROVE  /\ w[1] \in Nat \ {0} /\ w[2] \in Nat /\ w[1] <= w[2]
           /\ w[1]..w[2] \subseteq Instructions(f)
           /\ \A i \in w[1]..(w[2] - 1) : Code[f][i].kind = "plain"
<1>1. /\ w[1] \in Instructions(f) /\ w[2] \in Instructions(f) /\ w[1] <= w[2]
      /\ \A i \in w[1]..(w[2] - 1) : Code[f][i].kind = "plain"
  BY DEF Windows
<1>2. Len(Code[f]) \in Nat /\ Instructions(f) = 1..Len(Code[f])
  BY InstructionNumbers
<1> QED BY <1>1, <1>2

LEMMA FamiliesOfInstruction ==
    ASSUME NEW f \in DOMAIN Code, NEW i \in Instructions(f)
    PROVE  /\ Reads(f, i) \subseteq Families /\ Writes(f, i) \subseteq Families
           /\ Code[f][i].reads \subseteq Reads(f, i)
BY CodeAssumption, AbiAssumption DEF Reads, Writes, Instructions, IsInstruction

LEMMA StepStaysTyped ==
    ASSUME NEW f \in DOMAIN Code, NEW w, NEW i \in Instructions(f), NEW needed \in SUBSET Families
    PROVE  SliceStep(f, w, i, needed) \in SUBSET Families
BY FamiliesOfInstruction DEF SliceStep

LEMMA StartIsTyped ==
    ASSUME NEW f \in DOMAIN Code, NEW w \in Windows(f), NEW out
    PROVE  StartOfSlice(f, w, out) \in SUBSET Families
<1>1. \A i \in w[1]..w[2] : Code[f][i].writes \subseteq Families /\ Code[f][i].reads \subseteq Families
  BY WindowPlaces, CodeAssumption DEF Instructions, IsInstruction
<1>2. Outputs(f, w, out) \subseteq Families
  BY <1>1 DEF Outputs, Body
<1>3. w[2] \in w[1]..w[2]
  BY WindowPlaces
<1> QED BY <1>1, <1>2, <1>3 DEF StartOfSlice

LEMMA WalkExists ==
    ASSUME NEW f \in DOMAIN Code, NEW w \in Windows(f), NEW out
    PROVE  \E after : after \in Walk(f, w, out)
<1> DEFINE n == w[2] - (w[1] - 1)
           X == SUBSET Families
           base == StartOfSlice(f, w, out)
           step == [p \in X \X (1..n) |-> SliceStep(f, w, (w[2] + 1) - p[2], p[1])]
<1>1. /\ w[1] \in Nat \ {0} /\ w[2] \in Nat /\ w[1] <= w[2] /\ n \in Nat
      /\ w[1]..w[2] \subseteq Instructions(f)
  BY WindowPlaces
<1>2. base \in X
  BY StartIsTyped
<1>3. step \in [X \X (1..n) -> X]
  <2>1. ASSUME NEW p \in X \X (1..n) PROVE SliceStep(f, w, (w[2] + 1) - p[2], p[1]) \in X
    <3>1. p[1] \in X /\ p[2] \in 1..n /\ (w[2] + 1) - p[2] \in w[1]..w[2]
      BY <1>1
    <3> QED BY <1>1, <3>1, StepStaysTyped
  <2> QED BY <2>1
<1>4. PICK h : h \in Chain(X, base, step, n)
  <2> HIDE DEF X, base, step, n
  <2> QED BY <1>1, <1>2, <1>3, RecursionUp
<1>5. h \in [0..n -> X] /\ h[0] = base /\ \A k \in 1..n : h[k] = step[<<h[k - 1], k>>]
  <2> HIDE DEF X, base, step, n
  <2> QED BY <1>4 DEF Chain
<1> DEFINE after == [i \in (w[1] - 1)..w[2] |-> h[w[2] - i]]
<1>6. after \in [(w[1] - 1)..w[2] -> X]
  <2>1. \A i \in (w[1] - 1)..w[2] : w[2] - i \in 0..n
    BY <1>1
  <2> HIDE DEF n, X
  <2> QED BY <1>5, <2>1
<1>7. ASSUME NEW i \in (w[1] - 1)..w[2]
      PROVE  after[i] = IF i = w[2] THEN base ELSE SliceStep(f, w, i + 1, after[i + 1])
  <2>1. CASE i = w[2]
    <3>1. w[2] - i = 0
      BY <1>1, <2>1
    <3> QED BY <1>5, <2>1, <3>1
  <2>2. CASE i # w[2]
    <3>1. /\ w[2] - i \in 1..n /\ i + 1 \in (w[1] - 1)..w[2] /\ (w[2] - i) - 1 = w[2] - (i + 1)
          /\ (w[2] + 1) - (w[2] - i) = i + 1 /\ (w[2] - i) - 1 \in 0..n
      BY <1>1, <2>2
    <3>2. h[w[2] - i] = step[<<h[(w[2] - i) - 1], w[2] - i>>]
      BY <1>5, <3>1
    <3>3. h[(w[2] - i) - 1] \in X
      BY <1>5, <3>1
    <3>4. step[<<h[(w[2] - i) - 1], w[2] - i>>] = SliceStep(f, w, (w[2] + 1) - (w[2] - i), h[(w[2] - i) - 1])
      <4> HIDE DEF n, X
      <4> QED BY <3>1, <3>3
    <3>5. after[i] = h[w[2] - i] /\ after[i + 1] = h[w[2] - (i + 1)]
      BY <3>1
    <3> HIDE DEF after, step
    <3>6. after[i] = SliceStep(f, w, i + 1, after[i + 1])
      BY <3>1, <3>2, <3>4, <3>5, Zenon
    <3> QED BY <2>2, <3>6
  <2> QED BY <2>1, <2>2
<1> HIDE DEF after
<1>8. after \in Walk(f, w, out)
  BY <1>6, <1>7 DEF Walk
<1> QED BY <1>8

\* The operator of the model is the end of such a walk.
LEMMA NeededIsWalk ==
    ASSUME NEW f \in DOMAIN Code, NEW w \in Windows(f), NEW out
    PROVE  \E after \in Walk(f, w, out) : Needed(f, w, out) = after[w[1] - 1]
<1> DEFINE equation(g) == [i \in (w[1] - 1)..w[2] |->
               IF i = w[2] THEN StartOfSlice(f, w, out) ELSE SliceStep(f, w, i + 1, g[i + 1])]
           chosen == CHOOSE g : g = equation(g)
<1>1. Needed(f, w, out) = chosen[w[1] - 1]
  BY DEF Needed
<1>2. PICK after : after \in Walk(f, w, out)
  BY WalkExists
<1>3. after = equation(after)
  <2>1. /\ after \in [(w[1] - 1)..w[2] -> SUBSET Families]
        /\ \A i \in (w[1] - 1)..w[2] : after[i] = equation(after)[i]
    BY <1>2 DEF Walk
  <2> QED BY <2>1
<1>4. chosen = equation(chosen)
  <2> HIDE DEF equation
  <2> QED BY <1>3
<1> HIDE DEF chosen
<1>5. /\ w[1] \in Nat \ {0} /\ w[2] \in Nat /\ w[1] <= w[2]
      /\ w[1]..w[2] \subseteq Instructions(f)
  BY WindowPlaces
<1>6. \A i \in (w[1] - 1)..w[2] :
          chosen[i] = IF i = w[2] THEN StartOfSlice(f, w, out) ELSE SliceStep(f, w, i + 1, chosen[i + 1])
  <2> DEFINE g == equation(chosen)
  <2>1. \A i \in (w[1] - 1)..w[2] :
          g[i] = IF i = w[2] THEN StartOfSlice(f, w, out) ELSE SliceStep(f, w, i + 1, chosen[i + 1])
    OBVIOUS
  <2> HIDE DEF g
  <2> QED BY <1>4, <2>1 DEF g
<1>7. \A i \in (w[1] - 1)..w[2] : chosen[i] \in SUBSET Families
  <2> DEFINE S == {i \in Int : chosen[i] \in SUBSET Families}
  <2>1. w[2] \in S
    BY <1>5, <1>6, StartIsTyped
  <2>2. ASSUME NEW i \in ((w[1] - 1) + 1)..w[2], i \in S PROVE i - 1 \in S
    <3>1. i - 1 \in (w[1] - 1)..w[2] /\ i - 1 # w[2] /\ (i - 1) + 1 = i /\ i \in Instructions(f)
      BY <1>5
    <3>2. chosen[i - 1] = SliceStep(f, w, i, chosen[i])
      BY <1>6, <3>1
    <3>3. chosen[i] \in SUBSET Families
      BY <2>2
    <3> QED BY <3>1, <3>2, <3>3, StepStaysTyped
  <2>3. w[1] - 1 \in Int /\ w[2] \in Int
    BY <1>5
  <2>4. \A i \in (w[1] - 1)..w[2] : i \in S
    <3> HIDE DEF S
    <3> QED BY <2>1, <2>2, <2>3, InductionDown
  <2> QED BY <2>4
<1>8. chosen \in [(w[1] - 1)..w[2] -> SUBSET Families]
  <2>1. chosen = [i \in (w[1] - 1)..w[2] |-> chosen[i]]
    <3> DEFINE F(i) == IF i = w[2] THEN StartOfSlice(f, w, out) ELSE SliceStep(f, w, i + 1, chosen[i + 1])
    <3>1. chosen = [i \in (w[1] - 1)..w[2] |-> F(i)]
      BY <1>4
    <3> HIDE DEF F
    <3> QED BY <3>1
  <2> QED BY <1>7, <2>1
<1>9. chosen \in Walk(f, w, out)
  BY <1>6, <1>8 DEF Walk
<1> QED BY <1>1, <1>9

LEMMA DependsStaysTyped ==
    ASSUME NEW f \in DOMAIN Code, NEW i \in Instructions(f), NEW deps \in [Families -> SUBSET Families]
    PROVE  DependsAfter(f, i, deps) \in [Families -> SUBSET Families]
<1>1. \A x \in Reads(f, i) : deps[x] \subseteq Families
  BY FamiliesOfInstruction
<1>2. UNION {deps[x] : x \in Reads(f, i)} \in SUBSET Families
  BY <1>1
<1> QED BY <1>2 DEF DependsAfter

LEMMA ReferenceExists ==
    ASSUME NEW f \in DOMAIN Code, NEW w \in Windows(f)
    PROVE  \E deps : deps \in Reference(f, w)
<1> DEFINE n == w[2] - (w[1] - 1)
           X == [Families -> SUBSET Families]
           base == [r \in Families |-> {r}]
           step == [p \in X \X (1..n) |-> DependsAfter(f, (w[1] - 1) + p[2], p[1])]
<1>1. /\ w[1] \in Nat \ {0} /\ w[2] \in Nat /\ w[1] <= w[2] /\ n \in Nat
      /\ w[1]..w[2] \subseteq Instructions(f)
  BY WindowPlaces
<1>2. base \in X
  OBVIOUS
<1>3. step \in [X \X (1..n) -> X]
  <2>1. ASSUME NEW p \in X \X (1..n) PROVE DependsAfter(f, (w[1] - 1) + p[2], p[1]) \in X
    <3>1. p[1] \in X /\ p[2] \in 1..n /\ (w[1] - 1) + p[2] \in w[1]..w[2]
      BY <1>1
    <3> QED BY <1>1, <3>1, DependsStaysTyped
  <2> QED BY <2>1
<1>4. PICK h : h \in Chain(X, base, step, n)
  <2> HIDE DEF X, base, step, n
  <2> QED BY <1>1, <1>2, <1>3, RecursionUp
<1>5. h \in [0..n -> X] /\ h[0] = base /\ \A k \in 1..n : h[k] = step[<<h[k - 1], k>>]
  <2> HIDE DEF X, base, step, n
  <2> QED BY <1>4 DEF Chain
<1> DEFINE deps == [i \in (w[1] - 1)..w[2] |-> h[i - (w[1] - 1)]]
<1>6. deps \in [(w[1] - 1)..w[2] -> X]
  <2>1. \A i \in (w[1] - 1)..w[2] : i - (w[1] - 1) \in 0..n
    BY <1>1
  <2> HIDE DEF n, X
  <2> QED BY <1>5, <2>1
<1>7. ASSUME NEW i \in (w[1] - 1)..w[2]
      PROVE  deps[i] = IF i < w[1] THEN base ELSE DependsAfter(f, i, deps[i - 1])
  <2>1. CASE i < w[1]
    <3>1. i - (w[1] - 1) = 0
      BY <1>1, <2>1
    <3> QED BY <1>5, <2>1, <3>1
  <2>2. CASE ~(i < w[1])
    <3> DEFINE k == i - (w[1] - 1)
    <3>1. /\ k \in 1..n /\ i - 1 \in (w[1] - 1)..w[2] /\ k - 1 = (i - 1) - (w[1] - 1)
          /\ (w[1] - 1) + k = i /\ k - 1 \in 0..n
      BY <1>1, <2>2
    <3>2. deps[i] = h[k] /\ deps[i - 1] = h[(i - 1) - (w[1] - 1)]
      BY <3>1
    <3> HIDE DEF k
    <3>3. h[k] = step[<<h[k - 1], k>>]
      BY <1>5, <3>1
    <3>4. h[k - 1] \in X
      BY <1>5, <3>1
    <3>5. step[<<h[k - 1], k>>] = DependsAfter(f, (w[1] - 1) + k, h[k - 1])
      <4> HIDE DEF n, X
      <4> QED BY <3>1, <3>4
    <3> HIDE DEF deps, step
    <3>6. deps[i] = DependsAfter(f, i, deps[i - 1])
      BY <3>1, <3>2, <3>3, <3>5, Zenon
    <3> QED BY <2>2, <3>6
  <2> QED BY <2>1, <2>2
<1> HIDE DEF deps
<1>8. deps \in Reference(f, w)
  BY <1>6, <1>7 DEF Reference
<1> QED BY <1>8

LEMMA DependsOnIsReference ==
    ASSUME NEW f \in DOMAIN Code, NEW w \in Windows(f)
    PROVE  DependsOn(f, w) \in Reference(f, w)
<1> DEFINE equation(g) == [i \in (w[1] - 1)..w[2] |->
               IF i < w[1] THEN [r \in Families |-> {r}] ELSE DependsAfter(f, i, g[i - 1])]
           chosen == CHOOSE g : g = equation(g)
<1>1. DependsOn(f, w) = chosen
  BY DEF DependsOn, DependsAfter
<1>2. PICK deps : deps \in Reference(f, w)
  BY ReferenceExists
<1>3. deps = equation(deps)
  <2>1. /\ deps \in [(w[1] - 1)..w[2] -> [Families -> SUBSET Families]]
        /\ \A i \in (w[1] - 1)..w[2] : deps[i] = equation(deps)[i]
    BY <1>2 DEF Reference
  <2> QED BY <2>1
<1>4. chosen = equation(chosen)
  <2> HIDE DEF equation
  <2> QED BY <1>3
<1> HIDE DEF chosen
<1>5. /\ w[1] \in Nat \ {0} /\ w[2] \in Nat /\ w[1] <= w[2]
      /\ w[1]..w[2] \subseteq Instructions(f)
  BY WindowPlaces
<1>6. \A i \in (w[1] - 1)..w[2] :
          chosen[i] = IF i < w[1] THEN [r \in Families |-> {r}] ELSE DependsAfter(f, i, chosen[i - 1])
  <2> DEFINE g == equation(chosen)
  <2>1. \A i \in (w[1] - 1)..w[2] :
          g[i] = IF i < w[1] THEN [r \in Families |-> {r}] ELSE DependsAfter(f, i, chosen[i - 1])
    OBVIOUS
  <2> HIDE DEF g
  <2> QED BY <1>4, <2>1 DEF g
<1>7. \A i \in (w[1] - 1)..w[2] : chosen[i] \in [Families -> SUBSET Families]
  <2> DEFINE S == {i \in Int : chosen[i] \in [Families -> SUBSET Families]}
  <2>1. w[1] - 1 \in S
    <3>1. w[1] - 1 \in (w[1] - 1)..w[2] /\ w[1] - 1 < w[1] /\ w[1] - 1 \in Int
      BY <1>5
    <3>2. chosen[w[1] - 1] = [r \in Families |-> {r}]
      BY <1>6, <3>1
    <3>3. [r \in Families |-> {r}] \in [Families -> SUBSET Families]
      OBVIOUS
    <3> QED BY <3>1, <3>2, <3>3
  <2>2. ASSUME NEW i \in (w[1] - 1)..(w[2] - 1), i \in S PROVE i + 1 \in S
    <3>1. i + 1 \in (w[1] - 1)..w[2] /\ ~(i + 1 < w[1]) /\ (i + 1) - 1 = i /\ i + 1 \in Instructions(f)
      BY <1>5
    <3>2. chosen[i + 1] = DependsAfter(f, i + 1, chosen[i])
      BY <1>6, <3>1
    <3>3. chosen[i] \in [Families -> SUBSET Families]
      BY <2>2
    <3>4. chosen[i + 1] \in [Families -> SUBSET Families]
      BY <3>1, <3>2, <3>3, DependsStaysTyped
    <3> QED BY <3>1, <3>4
  <2>3. w[1] - 1 \in Int /\ w[2] \in Int
    BY <1>5
  <2>4. \A i \in (w[1] - 1)..w[2] : i \in S
    <3> HIDE DEF S
    <3> QED BY <2>1, <2>2, <2>3, InductionBetween
  <2> QED BY <2>4
<1>8. chosen \in [(w[1] - 1)..w[2] -> [Families -> SUBSET Families]]
  <2>1. chosen = [i \in (w[1] - 1)..w[2] |-> chosen[i]]
    <3> DEFINE F(i) == IF i < w[1] THEN [r \in Families |-> {r}] ELSE DependsAfter(f, i, chosen[i - 1])
    <3>1. chosen = [i \in (w[1] - 1)..w[2] |-> F(i)]
      BY <1>4
    <3> HIDE DEF F
    <3> QED BY <3>1
  <2> QED BY <1>7, <2>1
<1>9. chosen \in Reference(f, w)
  BY <1>6, <1>8 DEF Reference
<1> QED BY <1>1, <1>9

(***************************************************************************)
(* One step of the walk needs what the families needed after it depend on. *)
(***************************************************************************)
Behind(deps, needed) == UNION {deps[r] : r \in needed}

\* The step that meets a write of a needed family, and the one that does not.
LEMMA WriteIsExact ==
    ASSUME NEW f \in DOMAIN Code, NEW i \in Instructions(f), NEW needed \in SUBSET Families,
           NEW deps \in [Families -> SUBSET Families], Writes(f, i) \cap needed # {}
    PROVE  Behind(DependsAfter(f, i, deps), needed)
               = Behind(deps, (needed \ Writes(f, i)) \cup Reads(f, i))
<1> DEFINE next == DependsAfter(f, i, deps)
<1>0. \A r \in needed : next[r] = IF r \in Writes(f, i) THEN UNION {deps[x] : x \in Reads(f, i)} ELSE deps[r]
  BY DEF DependsAfter
<1> HIDE DEF next
<1>1. PICK r \in needed : r \in Writes(f, i)
  OBVIOUS
<1>2. ASSUME NEW x \in Behind(next, needed)
      PROVE  x \in Behind(deps, (needed \ Writes(f, i)) \cup Reads(f, i))
  <2>1. PICK y \in needed : x \in next[y]
    BY <1>2 DEF Behind
  <2>2. CASE y \in Writes(f, i)
    <3>1. x \in UNION {deps[z] : z \in Reads(f, i)}
      BY <1>0, <2>1, <2>2
    <3> QED BY <3>1 DEF Behind
  <2>3. CASE y \notin Writes(f, i)
    <3>1. x \in deps[y]
      BY <1>0, <2>1, <2>3
    <3> QED BY <2>1, <2>3, <3>1 DEF Behind
  <2> QED BY <2>2, <2>3
<1>3. ASSUME NEW x \in Behind(deps, (needed \ Writes(f, i)) \cup Reads(f, i))
      PROVE  x \in Behind(next, needed)
  <2>1. PICK y \in (needed \ Writes(f, i)) \cup Reads(f, i) : x \in deps[y]
    BY <1>3 DEF Behind
  <2>2. CASE y \in Reads(f, i)
    <3>1. x \in next[r]
      BY <1>0, <1>1, <2>1, <2>2
    <3> QED BY <3>1 DEF Behind
  <2>3. CASE y \notin Reads(f, i)
    <3>1. y \in needed /\ x \in next[y]
      BY <1>0, <2>1, <2>3
    <3> QED BY <3>1 DEF Behind
  <2> QED BY <2>2, <2>3
<1> QED BY <1>2, <1>3 DEF next

LEMMA NoWriteIsExact ==
    ASSUME NEW f \in DOMAIN Code, NEW i \in Instructions(f), NEW needed \in SUBSET Families,
           NEW deps \in [Families -> SUBSET Families], Writes(f, i) \cap needed = {}
    PROVE  Behind(DependsAfter(f, i, deps), needed) = Behind(deps, needed)
<1> DEFINE next == DependsAfter(f, i, deps)
<1>0. \A r \in needed : next[r] = IF r \in Writes(f, i) THEN UNION {deps[x] : x \in Reads(f, i)} ELSE deps[r]
  BY DEF DependsAfter
<1> HIDE DEF next
<1>1. \A r \in needed : next[r] = deps[r]
  BY <1>0
<1>2. Behind(next, needed) = Behind(deps, needed)
  BY <1>1 DEF Behind
<1> QED BY <1>2 DEF next

LEMMA BehindUnion ==
    ASSUME NEW deps, NEW A, NEW B
    PROVE  Behind(deps, A \cup B) = Behind(deps, A) \cup Behind(deps, B)
BY DEF Behind

\* The last instruction of a window: what its live outputs depend on and, for a branch,
\* what it reads.
LEMMA LastStepIsExact ==
    ASSUME NEW f \in DOMAIN Code, NEW w \in Windows(f), NEW out,
           Code[f][w[2]].kind # "call", NEW deps \in [Families -> SUBSET Families]
    PROVE  Behind(deps, SliceStep(f, w, w[2], StartOfSlice(f, w, out))) =
               Behind(DependsAfter(f, w[2], deps), Outputs(f, w, out)) \cup
               (IF TerminalBranch(f, w) THEN Behind(deps, Reads(f, w[2])) ELSE {})
<1> DEFINE O == Outputs(f, w, out)
           R == Reads(f, w[2])
           W == Writes(f, w[2])
           C == Code[f][w[2]].reads \cap ConditionFamilies
<1>1. w[2] \in Instructions(f)
  BY WindowPlaces
<1>2. O \in SUBSET Families /\ C \subseteq R
  <2>1. O \subseteq StartOfSlice(f, w, out)
    BY DEF StartOfSlice
  <2> QED BY <1>1, <2>1, StartIsTyped, FamiliesOfInstruction
<1>3. Behind(DependsAfter(f, w[2], deps), O) =
          IF W \cap O # {} THEN Behind(deps, (O \ W) \cup R) ELSE Behind(deps, O)
  <2> HIDE DEF O
  <2>1. O \in SUBSET Families
    BY <1>2
  <2>2. CASE W \cap O # {}
    BY <1>1, <2>1, <2>2, WriteIsExact
  <2>3. CASE W \cap O = {}
    BY <1>1, <2>1, <2>3, NoWriteIsExact
  <2> QED BY <2>2, <2>3
<1>4. StartOfSlice(f, w, out) = IF TerminalBranch(f, w) THEN O \cup C ELSE O
  BY DEF StartOfSlice
<1>5. CASE ~TerminalBranch(f, w)
  <2>1. SliceStep(f, w, w[2], O) = IF W \cap O # {} THEN (O \ W) \cup R ELSE O
    BY <1>5 DEF SliceStep
  <2>2. StartOfSlice(f, w, out) = O
    BY <1>4, <1>5
  <2> HIDE DEF O, R, W, C
  <2>3. Behind(deps, SliceStep(f, w, w[2], O)) =
            IF W \cap O # {} THEN Behind(deps, (O \ W) \cup R) ELSE Behind(deps, O)
    BY <2>1
  <2>4. Behind(deps, SliceStep(f, w, w[2], O)) = Behind(DependsAfter(f, w[2], deps), O)
    BY <1>3, <2>3
  <2>5. Behind(DependsAfter(f, w[2], deps), O) \cup {} = Behind(DependsAfter(f, w[2], deps), O)
    OBVIOUS
  <2> QED BY <1>5, <2>2, <2>4, <2>5 DEF O
<1>6. CASE TerminalBranch(f, w)
  <2>1. SliceStep(f, w, w[2], O \cup C) =
            IF W \cap (O \cup C) # {} THEN ((O \cup C) \ W) \cup R ELSE (O \cup C) \cup R
    BY <1>6 DEF SliceStep
  <2> HIDE DEF O, R, W, C
  <2>2. SliceStep(f, w, w[2], O \cup C) = (O \ W) \cup R
    BY <1>2, <2>1
  <2>3. (IF W \cap O # {} THEN Behind(deps, (O \ W) \cup R) ELSE Behind(deps, O)) \cup Behind(deps, R)
            = Behind(deps, (O \ W) \cup R)
    <3>1. CASE W \cap O # {}
      BY <3>1, BehindUnion
    <3>2. CASE W \cap O = {}
      <4>1. O \ W = O
        BY <3>2
      <4> QED BY <3>2, <4>1, BehindUnion
    <3> QED BY <3>1, <3>2
  <2>4. Behind(deps, SliceStep(f, w, w[2], StartOfSlice(f, w, out))) = Behind(deps, (O \ W) \cup R)
    BY <1>4, <1>6, <2>2
  <2> QED BY <1>3, <1>6, <2>3, <2>4 DEF R, O
<1> QED BY <1>5, <1>6

NoCallInside(f, w) == \A i \in w[1]..w[2] : Code[f][i].kind # "call"

\* A walk goes from its start to its end one instruction at a time.
LEMMA WalkSteps ==
    ASSUME NEW f \in DOMAIN Code, NEW w \in Windows(f), NEW out, NEW after \in Walk(f, w, out)
    PROVE  /\ after[w[2]] = StartOfSlice(f, w, out)
           /\ \A i \in w[1]..w[2] :
                 after[i] \in SUBSET Families /\ after[i - 1] = SliceStep(f, w, i, after[i])
<1>1. w[1] \in Nat \ {0} /\ w[2] \in Nat /\ w[1] <= w[2]
  BY WindowPlaces
<1>2. /\ \A i \in (w[1] - 1)..w[2] : after[i] \in SUBSET Families
      /\ \A i \in (w[1] - 1)..w[2] :
            after[i] = IF i = w[2] THEN StartOfSlice(f, w, out) ELSE SliceStep(f, w, i + 1, after[i + 1])
  BY DEF Walk
<1>3. w[2] \in (w[1] - 1)..w[2]
  BY <1>1
<1>4. ASSUME NEW i \in w[1]..w[2]
      PROVE  after[i] \in SUBSET Families /\ after[i - 1] = SliceStep(f, w, i, after[i])
  <2>1. i \in (w[1] - 1)..w[2] /\ i - 1 \in (w[1] - 1)..w[2] /\ i - 1 # w[2] /\ (i - 1) + 1 = i
    BY <1>1
  <2> QED BY <1>2, <2>1
<1> QED BY <1>2, <1>3, <1>4

\* What is needed before a window is what its effects depend on.
LEMMA NeededIsObserved ==
    ASSUME NEW f \in DOMAIN Code, NEW w \in Windows(f), NEW out, NoCallInside(f, w)
    PROVE  Needed(f, w, out) = ObservedInputs(f, w, out)
<1>1. PICK after \in Walk(f, w, out) : Needed(f, w, out) = after[w[1] - 1]
  BY NeededIsWalk
<1>2. PICK deps \in Reference(f, w) : deps = DependsOn(f, w)
  BY DependsOnIsReference
<1>3. /\ w[1] \in Nat \ {0} /\ w[2] \in Nat /\ w[1] <= w[2]
      /\ w[1]..w[2] \subseteq Instructions(f)
  BY WindowPlaces
<1>4. /\ after[w[2]] = StartOfSlice(f, w, out)
      /\ \A i \in w[1]..w[2] :
            after[i] \in SUBSET Families /\ after[i - 1] = SliceStep(f, w, i, after[i])
  BY WalkSteps
<1>5. /\ deps[w[1] - 1] = [r \in Families |-> {r}]
      /\ \A i \in w[1]..w[2] :
            deps[i - 1] \in [Families -> SUBSET Families] /\ deps[i] = DependsAfter(f, i, deps[i - 1])
  <2>1. /\ \A i \in (w[1] - 1)..w[2] : deps[i] \in [Families -> SUBSET Families]
        /\ \A i \in (w[1] - 1)..w[2] :
              deps[i] = IF i < w[1] THEN [r \in Families |-> {r}] ELSE DependsAfter(f, i, deps[i - 1])
    BY DEF Reference
  <2>2. w[1] - 1 \in (w[1] - 1)..w[2] /\ w[1] - 1 < w[1]
    BY <1>3
  <2>3. ASSUME NEW i \in w[1]..w[2]
        PROVE  deps[i - 1] \in [Families -> SUBSET Families] /\ deps[i] = DependsAfter(f, i, deps[i - 1])
    <3>1. i \in (w[1] - 1)..w[2] /\ i - 1 \in (w[1] - 1)..w[2] /\ ~(i < w[1])
      BY <1>3
    <3> QED BY <2>1, <3>1
  <2> QED BY <2>1, <2>2, <2>3
<1> DEFINE shown == Behind(deps[w[2]], Outputs(f, w, out)) \cup
                        (IF TerminalBranch(f, w) THEN Behind(deps[w[2] - 1], Reads(f, w[2])) ELSE {})
           S == {i \in Int : Behind(deps[i], after[i]) = shown}
<1>6. w[2] - 1 \in S
  <2>1. w[2] \in w[1]..w[2]
    BY <1>3
  <2>2. /\ after[w[2] - 1] = SliceStep(f, w, w[2], StartOfSlice(f, w, out))
        /\ deps[w[2]] = DependsAfter(f, w[2], deps[w[2] - 1])
        /\ deps[w[2] - 1] \in [Families -> SUBSET Families]
    BY <1>4, <1>5, <2>1
  <2>3. Code[f][w[2]].kind # "call"
    BY <2>1 DEF NoCallInside
  <2>4. Behind(deps[w[2] - 1], SliceStep(f, w, w[2], StartOfSlice(f, w, out))) =
            Behind(DependsAfter(f, w[2], deps[w[2] - 1]), Outputs(f, w, out)) \cup
            (IF TerminalBranch(f, w) THEN Behind(deps[w[2] - 1], Reads(f, w[2])) ELSE {})
    BY <2>2, <2>3, LastStepIsExact
  <2>5. Behind(deps[w[2] - 1], after[w[2] - 1]) = shown
    BY <2>2, <2>4
  <2> HIDE DEF shown
  <2> QED BY <1>3, <2>5
<1>7. ASSUME NEW i \in ((w[1] - 1) + 1)..(w[2] - 1), i \in S PROVE i - 1 \in S
  <2>1. i \in w[1]..w[2] /\ i # w[2] /\ i - 1 \in Int
    BY <1>3
  <2> DEFINE N == after[i]
             D == deps[i - 1]
  <2>2. /\ i \in Instructions(f) /\ N \in SUBSET Families /\ D \in [Families -> SUBSET Families]
        /\ after[i - 1] = SliceStep(f, w, i, N) /\ deps[i] = DependsAfter(f, i, D)
    BY <1>3, <1>4, <1>5, <2>1
  <2>3. SliceStep(f, w, i, N) = IF Writes(f, i) \cap N # {} THEN (N \ Writes(f, i)) \cup Reads(f, i) ELSE N
    BY <2>1 DEF SliceStep
  <2> HIDE DEF N, D
  <2>4. Behind(DependsAfter(f, i, D), N) = Behind(D, SliceStep(f, w, i, N))
    <3>1. CASE Writes(f, i) \cap N # {}
      BY <2>2, <2>3, <3>1, WriteIsExact
    <3>2. CASE Writes(f, i) \cap N = {}
      BY <2>2, <2>3, <3>2, NoWriteIsExact
    <3> QED BY <3>1, <3>2
  <2>5. Behind(deps[i], after[i]) = shown
    BY <1>7
  <2>6. Behind(deps[i - 1], after[i - 1]) = shown
    <3> HIDE DEF shown
    <3> QED BY <2>2, <2>4, <2>5 DEF N, D
  <2> HIDE DEF shown
  <2> QED BY <2>1, <2>6
<1>8. w[1] - 1 \in S
  <2> HIDE DEF S
  <2>1. w[1] - 1 \in Int /\ w[2] - 1 \in Int /\ w[1] - 1 \in (w[1] - 1)..(w[2] - 1)
    BY <1>3
  <2>2. \A i \in (w[1] - 1)..(w[2] - 1) : i \in S
    BY <1>6, <1>7, <2>1, InductionDown
  <2> QED BY <2>1, <2>2
<1>9. Behind(deps[w[1] - 1], after[w[1] - 1]) = after[w[1] - 1]
  <2>1. w[1] \in w[1]..w[2] /\ w[1] \in Instructions(f)
    BY <1>3
  <2>2. after[w[1] - 1] \in SUBSET Families
    BY <1>4, <2>1, StepStaysTyped
  <2> DEFINE N == after[w[1] - 1]
  <2> HIDE DEF N
  <2>3. Behind([r \in Families |-> {r}], N) = N
    BY <2>2 DEF Behind, N
  <2> QED BY <1>5, <2>3 DEF N
<1>10. shown = ObservedInputs(f, w, out)
  BY <1>2 DEF ObservedInputs, Behind
<1>11. Behind(deps[w[1] - 1], after[w[1] - 1]) = shown
  <2> HIDE DEF shown
  <2> QED BY <1>8
<1> HIDE DEF shown
<1> QED BY <1>1, <1>9, <1>10, <1>11

\* What is needed before a window its instructions read: an output is written inside.
LEMMA NeededIsRead ==
    ASSUME NEW f \in DOMAIN Code, NEW w \in Windows(f), NEW out, NoCallInside(f, w)
    PROVE  Needed(f, w, out) \subseteq UNION {Code[f][i].reads : i \in Body(w)}
<1> DEFINE read == UNION {Code[f][i].reads : i \in Body(w)}
<1>1. PICK after \in Walk(f, w, out) : Needed(f, w, out) = after[w[1] - 1]
  BY NeededIsWalk
<1>2. w[1] \in Nat \ {0} /\ w[2] \in Nat /\ w[1] <= w[2]
  BY WindowPlaces
<1>3. /\ after[w[2]] = StartOfSlice(f, w, out)
      /\ \A i \in w[1]..w[2] : after[i - 1] = SliceStep(f, w, i, after[i])
  BY WalkSteps
<1>4. \A i \in w[1]..w[2] : /\ Reads(f, i) \subseteq read
                            /\ Writes(f, i) = Code[f][i].writes
  <2>1. ASSUME NEW i \in w[1]..w[2]
        PROVE  Reads(f, i) = Code[f][i].reads /\ Writes(f, i) = Code[f][i].writes
    BY DEF NoCallInside, Reads, Writes
  <2> QED BY <2>1 DEF Body
<1> DEFINE T == {i \in Int : \A r \in after[i] : r \in read \/ \E j \in w[1]..i : r \in Writes(f, j)}
<1>5. w[2] \in T
  <2>1. ASSUME NEW r \in after[w[2]] PROVE r \in read \/ \E j \in w[1]..w[2] : r \in Writes(f, j)
    <3>1. CASE r \in Outputs(f, w, out)
      <4>1. PICK j \in w[1]..w[2] : r \in Code[f][j].writes
        BY <3>1 DEF Outputs, Body
      <4> QED BY <1>4, <4>1
    <3>2. CASE r \notin Outputs(f, w, out)
      <4>1. w[2] \in w[1]..w[2] /\ r \in Code[f][w[2]].reads
        BY <1>2, <1>3, <3>2 DEF StartOfSlice
      <4> QED BY <4>1 DEF Body
    <3> QED BY <3>1, <3>2
  <2> HIDE DEF read
  <2> QED BY <1>2, <2>1
<1>6. ASSUME NEW i \in ((w[1] - 1) + 1)..w[2], i \in T PROVE i - 1 \in T
  <2>1. i \in w[1]..w[2] /\ i - 1 \in Int
    BY <1>2
  <2>2. ASSUME NEW r \in after[i - 1] PROVE r \in read \/ \E j \in w[1]..(i - 1) : r \in Writes(f, j)
    <3> HIDE DEF read
    <3>1. r \in Reads(f, i) \/ (r \in after[i] /\ r \notin Writes(f, i))
      BY <1>3, <2>1, <2>2 DEF SliceStep
    <3>2. CASE r \in Reads(f, i)
      BY <1>4, <2>1, <3>2
    <3>3. CASE r \in after[i] /\ r \notin Writes(f, i)
      <4>1. r \in read \/ \E j \in w[1]..i : r \in Writes(f, j)
        BY <1>6, <3>3
      <4>2. ASSUME NEW j \in w[1]..i, r \in Writes(f, j) PROVE j \in w[1]..(i - 1)
        <5>1. j # i
          BY <3>3, <4>2
        <5> QED BY <1>2, <5>1
      <4> QED BY <4>1, <4>2
    <3> QED BY <3>1, <3>2, <3>3
  <2> HIDE DEF read
  <2> QED BY <2>1, <2>2
<1>7. w[1] - 1 \in T
  <2> HIDE DEF T
  <2>1. w[1] - 1 \in Int /\ w[2] \in Int /\ w[1] - 1 \in (w[1] - 1)..w[2]
    BY <1>2
  <2>2. \A i \in (w[1] - 1)..w[2] : i \in T
    BY <1>5, <1>6, <2>1, InductionDown
  <2> QED BY <2>1, <2>2
<1>8. ASSUME NEW r \in after[w[1] - 1] PROVE r \in read
  <2>1. w[1]..(w[1] - 1) = {}
    BY <1>2
  <2> HIDE DEF read
  <2> QED BY <1>7, <1>8, <2>1
<1> QED BY <1>1, <1>8

\* What is needed before a window is live there, whatever solution the loop ended with.
LEMMA NeededIsLive ==
    ASSUME NEW f \in DOMAIN Code, NEW w \in Windows(f), NoCallInside(f, w),
           NEW in, NEW out,
           \A i \in Instructions(f) : out[i] = NextOut(f, in, i) /\ in[i] = NextIn(f, in, i)
    PROVE  Needed(f, w, out) \subseteq in[w[1]]
<1>1. PICK after \in Walk(f, w, out) : Needed(f, w, out) = after[w[1] - 1]
  BY NeededIsWalk
<1>2. /\ w[1] \in Nat \ {0} /\ w[2] \in Nat /\ w[1] <= w[2]
      /\ w[1]..w[2] \subseteq Instructions(f)
      /\ \A i \in w[1]..(w[2] - 1) : Code[f][i].kind = "plain"
  BY WindowPlaces
<1>3. /\ after[w[2]] = StartOfSlice(f, w, out)
      /\ \A i \in w[1]..w[2] : after[i - 1] = SliceStep(f, w, i, after[i])
  BY WalkSteps
<1>4. \A i \in w[1]..w[2] : in[i] = Reads(f, i) \cup (out[i] \ Writes(f, i))
  BY <1>2 DEF NextIn
<1> DEFINE S == {i \in Int : after[i - 1] \subseteq in[i]}
<1>5. w[2] \in S
  <2>1. w[2] \in w[1]..w[2] /\ w[2] \in Instructions(f)
    BY <1>2
  <2>2. Outputs(f, w, out) \subseteq out[w[2]]
    BY DEF Outputs
  <2>3. StartOfSlice(f, w, out) \subseteq out[w[2]] \cup Reads(f, w[2])
    BY <2>1, <2>2, FamiliesOfInstruction DEF StartOfSlice
  <2>4. after[w[2] - 1] = SliceStep(f, w, w[2], StartOfSlice(f, w, out))
    BY <1>3, <2>1
  <2>5. SliceStep(f, w, w[2], StartOfSlice(f, w, out)) \subseteq in[w[2]]
    <3>1. in[w[2]] = Reads(f, w[2]) \cup (out[w[2]] \ Writes(f, w[2]))
      BY <1>4, <2>1
    <3> QED BY <2>3, <3>1 DEF SliceStep
  <2> QED BY <1>2, <2>4, <2>5
<1>6. ASSUME NEW i \in (w[1] + 1)..w[2], i \in S PROVE i - 1 \in S
  <2> DEFINE j == i - 1
  <2>1. j \in w[1]..(w[2] - 1) /\ j \in w[1]..w[2] /\ j + 1 = i /\ j \in Instructions(f)
        /\ i \in Instructions(f)
    BY <1>2
  <2> HIDE DEF j
  <2>2. Successors(f, j) = {i}
    <3>1. Code[f][j].kind = "plain"
      BY <1>2, <2>1
    <3> QED BY <2>1, <3>1 DEF Successors, Fallthrough
  <2>3. in[i] \subseteq out[j]
    BY <2>1, <2>2 DEF NextOut
  <2>4. after[i - 1] \subseteq in[i]
    BY <1>6
  <2>5. after[j] \subseteq out[j]
    BY <2>3, <2>4 DEF j
  <2>6. j # w[2]
    BY <1>2, <2>1
  <2>7. after[j - 1] \subseteq in[j]
    <3>1. after[j - 1] = SliceStep(f, w, j, after[j]) /\ in[j] = Reads(f, j) \cup (out[j] \ Writes(f, j))
      BY <1>3, <1>4, <2>1
    <3> QED BY <2>5, <3>1 DEF SliceStep
  <2>8. j \in Int
    BY <1>2, <2>1
  <2>9. j \in S
    BY <2>7, <2>8
  <2> QED BY <2>9 DEF j
<1>7. w[1] \in S
  <2> HIDE DEF S
  <2>1. w[1] \in Int /\ w[2] \in Int /\ w[1] \in w[1]..w[2]
    BY <1>2
  <2>2. \A i \in w[1]..w[2] : i \in S
    BY <1>5, <1>6, <2>1, InductionDown
  <2> QED BY <2>1, <2>2
<1> QED BY <1>1, <1>7

LEMMA EmittedHasNoCall ==
    ASSUME NEW f, NEW w, NEW out, SkipReason(f, w, out) = "none"
    PROVE  NoCallInside(f, w)
BY DEF SkipReason, NoCallInside, Body

\* For every function and window: the inputs of an emitted window are the families its
\* live outputs and its branch depend on, no others, and the analysis has them live
\* where the window starts (liveness.py, WindowSurfaceInferer.infer).
THEOREM ExactSlices == Spec => []SlicesAreExact
<1>1. TypeOK /\ DoneIsFixpoint => SlicesAreExact
  <2> SUFFICES ASSUME TypeOK, DoneIsFixpoint, done, NEW w \in Emitted
               PROVE  /\ InputFamilies(function, w, liveOut) = ObservedInputs(function, w, liveOut)
                      /\ Needed(function, w, liveOut) \subseteq liveIn[w[1]]
    BY DEF SlicesAreExact, SliceIsExact, SliceIsLive
  <2>1. function \in DOMAIN Code /\ w \in Windows(function) /\ NoCallInside(function, w)
    BY EmittedHasNoCall DEF TypeOK, Emitted
  <2>2. Needed(function, w, liveOut) = ObservedInputs(function, w, liveOut)
    BY <2>1, NeededIsObserved
  <2>3. Needed(function, w, liveOut) \subseteq UNION {Code[function][i].reads : i \in Body(w)}
    BY <2>1, NeededIsRead
  <2>4. Needed(function, w, liveOut) \subseteq liveIn[w[1]]
    BY <2>1, NeededIsLive DEF DoneIsFixpoint
  <2> QED BY <2>2, <2>3, <2>4 DEF InputFamilies
<1> QED BY <1>1, TypeCorrect, StopsAtFixpoint, PTL

-----------------------------------------------------------------------------
(***************************************************************************)
(* Memory surfaces.  Where the stack pointer is before an instruction: the *)
(* deltas that the collection adds up, and the reference.                  *)
(***************************************************************************)
\* Instructions that each move the stack pointer by some amount.
Moves(s) == s \in Seq(Range(s)) /\ \A i \in DOMAIN s : s[i].delta \in Int

MoveStep(s) == [p \in Int \X (1..Len(s)) |-> MovedBy(p[1], s[p[2]])]

\* The sum of the moves is the last of its partial sums.
LEMMA MovesAreChain ==
    ASSUME NEW s, Moves(s)
    PROVE  \E f \in [0..Len(s) -> Int] :
             /\ f[0] = 0
             /\ \A i \in 1..Len(s) : f[i] = f[i - 1] + s[i].delta
             /\ FoldLeft(MovedBy, 0, s) = f[Len(s)]
<1> DEFINE n == Len(s)
           step == MoveStep(s)
           equation(h) == [t \in SUBSET (1..n) |->
                IF t = {} THEN 0 ELSE MovedBy(h[t \ {Max(t)}], s[Max(t)])]
           fold == CHOOSE h : h = equation(h)
<1>1. n \in Nat /\ DOMAIN s = 1..n /\ \A i \in 1..n : s[i].delta \in Int
  BY DEF Moves
<1>2. FoldLeft(MovedBy, 0, s) = fold[1..n]
  BY <1>1 DEF FoldLeft, MapThenFoldSet
<1>3. step \in [Int \X (1..n) -> Int]
        /\ \A x \in Int, i \in 1..n : step[<<x, i>>] = MovedBy(x, s[i])
  <2>1. \A x \in Int, i \in 1..n : MovedBy(x, s[i]) \in Int
    BY <1>1 DEF MovedBy
  <2> HIDE DEF n
  <2> QED BY <1>1, <2>1 DEF MoveStep, n
<1> HIDE DEF step, n
<1>4. \E h : h = equation(h)
  <2>0. 0 \in Int /\ n \in Nat /\ step \in [Int \X (1..n) -> Int]
    BY <1>1, <1>3
  <2>1. PICK g : g \in FoldOf(Int, 0, step, n)
    BY <2>0, FoldExists
  <2>2. g \in [SUBSET (1..n) -> Int]
        /\ \A t \in SUBSET (1..n) : g[t] = IF t = {} THEN 0 ELSE step[<<g[t \ {Max(t)}], Max(t)>>]
    BY <2>1 DEF FoldOf
  <2>3. ASSUME NEW t \in SUBSET (1..n) PROVE g[t] = equation(g)[t]
    <3>1. CASE t = {}
      BY <2>2, <3>1
    <3>2. CASE t # {}
      <4>1. t \in SUBSET (0..n)
        OBVIOUS
      <4>2. Max(t) \in 1..n
        BY <1>1, <3>2, <4>1, MaxIsGreatest
      <4>3. g[t \ {Max(t)}] \in Int
        BY <2>2
      <4>4. g[t] = step[<<g[t \ {Max(t)}], Max(t)>>]
        BY <2>2, <3>2
      <4>5. g[t] = MovedBy(g[t \ {Max(t)}], s[Max(t)])
        BY <1>3, <4>2, <4>3, <4>4
      <4> QED BY <3>2, <4>5
    <3> QED BY <3>1, <3>2
  <2>4. g = equation(g)
    <3> DEFINE e == equation(g)
    <3>1. e = [t \in SUBSET (1..n) |-> e[t]]
      OBVIOUS
    <3> HIDE DEF e
    <3> QED BY <2>2, <2>3, <3>1 DEF e
  <2> QED BY <2>4
<1>5. fold = equation(fold)
  <2> HIDE DEF equation
  <2> QED BY <1>4
<1> HIDE DEF fold
<1>6. PICK f : f \in Chain(Int, 0, step, n)
  <2>1. 0 \in Int /\ n \in Nat /\ step \in [Int \X (1..n) -> Int]
    BY <1>1, <1>3
  <2> QED BY <2>1, RecursionUp
<1>7. \A i \in 1..n : f[i - 1] \in Int /\ f[i] = MovedBy(f[i - 1], s[i])
  <2>1. \A i \in 1..n : f[i - 1] \in Int /\ f[i] = step[<<f[i - 1], i>>]
    BY <1>1, <1>6 DEF Chain
  <2> QED BY <1>3, <2>1
<1>8. fold[{}] = 0
  BY <1>5
<1>9. ASSUME NEW i \in 1..n, fold[1..(i - 1)] = f[i - 1] PROVE fold[1..i] = f[i]
  <2>1. /\ 1..i \in SUBSET (1..n) /\ 1..i # {} /\ Max(1..i) = i /\ (1..i) \ {i} = 1..(i - 1)
    BY <1>1, LastOfPrefix
  <2>2. fold[1..i] = MovedBy(fold[(1..i) \ {Max(1..i)}], s[Max(1..i)])
    BY <1>5, <2>1
  <2>3. fold[1..i] = MovedBy(f[i - 1], s[i])
    BY <1>9, <2>1, <2>2
  <2> QED BY <1>7, <2>3
<1>10. fold[1..n] = f[n]
  <2>1. 0 \in Int /\ n \in Nat /\ f \in Chain(Int, 0, step, n) /\ fold[{}] = 0
    BY <1>1, <1>6, <1>8
  <2>2. \A i \in 1..n : fold[1..(i - 1)] = f[i - 1] => fold[1..i] = f[i]
    BY <1>9
  <2> QED BY ONLY <2>1, <2>2, FoldEndsAsChain
<1>11. f \in [0..n -> Int] /\ f[0] = 0
  BY <1>6 DEF Chain
<1> QED BY <1>2, <1>7, <1>10, <1>11 DEF n, MovedBy

\* What a window is made of, and its first instructions.
LEMMA WindowMoves ==
    ASSUME NEW window, IsAccessWindow(window)
    PROVE  /\ Len(window) \in Nat /\ DOMAIN window = 1..Len(window)
           /\ Moves(window)
           /\ \A n \in 1..(Len(window) + 1) :
                LET p == SubSeq(window, 1, n - 1)
                IN  Moves(p) /\ Len(p) = n - 1 /\ \A i \in 1..(n - 1) : p[i] = window[i]
<1>1. /\ window \in Seq(Range(window)) /\ Len(window) \in Nat /\ DOMAIN window = 1..Len(window)
      /\ \A i \in DOMAIN window : window[i] \in Range(window) /\ window[i].delta \in Int
  <2>1. window \in Seq(Range(window)) /\ \A insn \in Range(window) : insn.delta \in Int
    BY DEF IsAccessWindow
  <2>2. \A i \in DOMAIN window : window[i] \in Range(window)
    BY DEF Range
  <2>3. Len(window) \in Nat /\ DOMAIN window = 1..Len(window)
    BY <2>1
  <2> QED BY <2>1, <2>2, <2>3
<1>2. ASSUME NEW n \in 1..(Len(window) + 1)
      PROVE  LET p == SubSeq(window, 1, n - 1)
             IN  Moves(p) /\ Len(p) = n - 1 /\ \A i \in 1..(n - 1) : p[i] = window[i]
  <2> DEFINE p == SubSeq(window, 1, n - 1)
  <2>1. /\ p \in Seq(Range(window)) /\ Len(p) = n - 1 /\ \A i \in 1..(n - 1) : p[i] = window[i]
    <3>1. 1 \in Int /\ n - 1 \in Int /\ \A i \in 1..(n - 1) : window[i] \in Range(window)
      BY <1>1
    <3>2. /\ p \in Seq(Range(window)) /\ Len(p) = (IF 1 <= n - 1 THEN (n - 1) - 1 + 1 ELSE 0)
          /\ \A i \in 1..((n - 1) - 1 + 1) : p[i] = window[1 + i - 1]
      BY <3>1, SubSeqProperties
    <3>3. Len(p) = n - 1 /\ ((n - 1) - 1 + 1) = n - 1 /\ \A i \in 1..(n - 1) : 1 + i - 1 = i
      BY <1>1, <3>2
    <3> QED BY <3>2, <3>3
  <2> HIDE DEF p
  <2>2. DOMAIN p = 1..(n - 1) /\ p \in Seq(Range(p))
    <3>1. Len(p) = n - 1 /\ DOMAIN p = 1..(n - 1) /\ n - 1 \in Nat
      BY <1>1, <2>1
    <3>2. p = [i \in 1..(n - 1) |-> p[i]]
      BY <2>1, <3>1
    <3>3. \A i \in 1..(n - 1) : p[i] \in Range(p)
      BY <3>1 DEF Range
    <3> QED BY <3>1, <3>2, <3>3
  <2>3. \A i \in DOMAIN p : p[i].delta \in Int
    BY <1>1, <2>1, <2>2
  <2> QED BY <2>1, <2>2, <2>3 DEF Moves, p
<1>3. Moves(window)
  BY <1>1 DEF Moves
<1> QED BY <1>1, <1>2, <1>3

\* The reference adds up the moves one by one.
LEMMA StackPointerMoves ==
    ASSUME NEW window, IsAccessWindow(window)
    PROVE  /\ StackPointerAt(window)[1] = 0
           /\ \A n \in 1..Len(window) :
                StackPointerAt(window)[n + 1] = StackPointerAt(window)[n] + window[n].delta
<1> DEFINE N == Len(window)
           def(m) == m = [n \in 1..(N + 1) |-> IF n = 1 THEN 0 ELSE m[n - 1] + window[n - 1].delta]
<1>1. N \in Nat /\ Moves(window)
  BY WindowMoves
<1>2. PICK f \in [0..N -> Int] : f[0] = 0 /\ \A i \in 1..N : f[i] = f[i - 1] + window[i].delta
  BY <1>1, MovesAreChain
<1> DEFINE g == [n \in 1..(N + 1) |-> f[n - 1]]
<1>3. def(g)
  <2>1. ASSUME NEW n \in 1..(N + 1) PROVE g[n] = IF n = 1 THEN 0 ELSE g[n - 1] + window[n - 1].delta
    <3>1. CASE n = 1
      BY <1>1, <1>2, <3>1
    <3>2. CASE n # 1
      <4>1. n - 1 \in 1..N /\ n - 1 \in 1..(N + 1)
        BY <1>1, <3>2
      <4> QED BY <1>2, <3>2, <4>1
    <3> QED BY <3>1, <3>2
  <2> QED BY <2>1
<1>4. \E m : def(m)
  <2> HIDE DEF def, g
  <2> QED BY <1>3
<1> DEFINE moved == CHOOSE m : def(m)
<1>5. def(moved) /\ StackPointerAt(window) = moved
  <2>1. StackPointerAt(window) = moved
    BY Zenon DEF StackPointerAt
  <2> HIDE DEF def
  <2> QED BY <1>4, <2>1
<1>6. moved[1] = 0 /\ \A n \in 1..N : moved[n + 1] = moved[n] + window[n].delta
  <2> HIDE DEF moved
  <2>1. \A n \in 1..N : n + 1 \in 1..(N + 1) /\ n + 1 # 1 /\ (n + 1) - 1 = n
    BY <1>1
  <2> QED BY <1>1, <1>5, <2>1
<1> HIDE DEF moved
<1> QED BY <1>5, <1>6

\* What the collection adds to a displacement is where the stack pointer is.
LEMMA DeltaIsStackPointer ==
    ASSUME NEW window, IsAccessWindow(window), NEW n \in 1..(Len(window) + 1)
    PROVE  Delta(window, n) \in Int /\ Delta(window, n) = StackPointerAt(window)[n]
<1> DEFINE p == SubSeq(window, 1, n - 1)
           sp == StackPointerAt(window)
<1>1. /\ Len(window) \in Nat /\ Moves(p) /\ Len(p) = n - 1 /\ \A i \in 1..(n - 1) : p[i] = window[i]
  BY WindowMoves
<1>2. PICK f \in [0..Len(p) -> Int] :
        /\ f[0] = 0
        /\ \A i \in 1..Len(p) : f[i] = f[i - 1] + p[i].delta
        /\ FoldLeft(MovedBy, 0, p) = f[Len(p)]
  BY <1>1, MovesAreChain
<1>3. Delta(window, n) = f[n - 1]
  BY <1>1, <1>2 DEF Delta
<1>4. sp[1] = 0 /\ \A i \in 1..Len(window) : sp[i + 1] = sp[i] + window[i].delta
  BY StackPointerMoves
<1> HIDE DEF p, sp
<1> DEFINE P == {i \in 0..(n - 1) : f[i] = sp[i + 1]}
<1>5. 0 \in P
  <2>1. 0 \in 0..(n - 1) /\ 0 + 1 = 1
    BY <1>1
  <2> QED BY <1>2, <1>4, <2>1
<1>6. ASSUME NEW i \in 0..((n - 1) - 1), i \in P PROVE i + 1 \in P
  <2>1. i + 1 \in 1..(n - 1) /\ i + 1 \in 1..Len(window) /\ (i + 1) - 1 = i
    BY <1>1
  <2>2. f[i + 1] = f[i] + window[i + 1].delta
    BY <1>1, <1>2, <2>1
  <2>3. sp[(i + 1) + 1] = sp[i + 1] + window[i + 1].delta
    BY <1>4, <2>1
  <2> QED BY <1>6, <2>1, <2>2, <2>3
<1>7. n - 1 \in P
  <2> HIDE DEF P
  <2>1. 0 \in Int /\ n - 1 \in Int /\ n - 1 \in 0..(n - 1)
    BY <1>1
  <2> QED BY <1>5, <1>6, <2>1, InductionBetween
<1>8. (n - 1) + 1 = n /\ f[n - 1] \in Int
  BY <1>1, <1>2
<1> QED BY <1>3, <1>7, <1>8 DEF sp

(***************************************************************************)
(* Sorting by displacement: a rank is a place, and every place has one.    *)
(***************************************************************************)
\* How many come before each place.
Ranks(ops) == [i \in DOMAIN ops |-> Cardinality(Lower(ops, i))]

\* What is sorted is what there was.
LEMMA SortedAreEntries ==
    ASSUME NEW ops, NEW n \in Nat, DOMAIN ops = 1..n, \A i \in 1..n : ops[i].disp \in Int
    PROVE  \A k \in 1..n : \E i \in 1..n : ByDisplacement(ops)[k] = ops[i]
<1> DEFINE rank == Ranks(ops)
<1>1. IsFiniteSet(1..n) /\ Cardinality(1..n) = n
  <2>1. 1 \in Int /\ n \in Int
    OBVIOUS
  <2>2. IsFiniteSet(1..n) /\ Cardinality(1..n) = IF 1 > n THEN 0 ELSE n - 1 + 1
    BY <2>1, FS_Interval
  <2> QED BY <2>2
<1>2. IsFiniteSet(0..(n - 1)) /\ Cardinality(0..(n - 1)) = n
  <2>1. 0 \in Int /\ n - 1 \in Int
    OBVIOUS
  <2>2. IsFiniteSet(0..(n - 1)) /\ Cardinality(0..(n - 1)) = IF 0 > n - 1 THEN 0 ELSE (n - 1) - 0 + 1
    BY <2>1, FS_Interval
  <2> QED BY <2>2
<1>3. ASSUME NEW i \in 1..n
      PROVE  /\ Lower(ops, i) \in SUBSET (1..n) /\ i \notin Lower(ops, i)
             /\ IsFiniteSet(Lower(ops, i)) /\ Cardinality(Lower(ops, i)) \in Nat
             /\ Cardinality(Lower(ops, i) \cup {i}) = Cardinality(Lower(ops, i)) + 1
  <2>1. Lower(ops, i) \in SUBSET (1..n) /\ i \notin Lower(ops, i)
    BY DEF Lower
  <2>2. IsFiniteSet(Lower(ops, i))
    BY <1>1, <2>1, FS_Subset
  <2>3. Cardinality(Lower(ops, i)) \in Nat
    BY <2>2, FS_CardinalityType
  <2>4. Cardinality(Lower(ops, i) \cup {i}) = Cardinality(Lower(ops, i)) + 1
    BY <2>1, <2>2, FS_AddElement
  <2> QED BY <2>1, <2>2, <2>3, <2>4
<1>4. ASSUME NEW i \in 1..n, NEW T \in SUBSET (1..n), Lower(ops, i) \cup {i} \subseteq T
      PROVE  Cardinality(Lower(ops, i)) + 1 <= Cardinality(T)
  <2>1. IsFiniteSet(T)
    BY <1>1, FS_Subset
  <2>2. Cardinality(Lower(ops, i) \cup {i}) <= Cardinality(T)
    BY <1>4, <2>1, FS_Subset
  <2> QED BY <1>3, <2>2
<1>5. ASSUME NEW i \in 1..n PROVE Cardinality(Lower(ops, i)) \in 0..(n - 1)
  <2>1. Cardinality(Lower(ops, i)) + 1 <= n
    BY <1>1, <1>3, <1>4
  <2>2. Cardinality(Lower(ops, i)) \in Nat
    BY <1>3
  <2> QED BY <2>1, <2>2
<1>6. rank \in [1..n -> 0..(n - 1)]
  BY <1>5 DEF Ranks
<1>7. ASSUME NEW i \in 1..n, NEW j \in 1..n, i \in Lower(ops, j) PROVE rank[i] # rank[j]
  <2>1. Lower(ops, i) \cup {i} \subseteq Lower(ops, j)
    <3>1. \A k \in 1..n : k \in Lower(ops, i) => k \in Lower(ops, j)
      BY <1>7 DEF Lower
    <3> QED BY <1>3, <1>7, <3>1
  <2>2. Cardinality(Lower(ops, i)) + 1 <= Cardinality(Lower(ops, j))
    BY <1>3, <1>4, <2>1
  <2>3. Cardinality(Lower(ops, i)) \in Nat /\ Cardinality(Lower(ops, j)) \in Nat
    BY <1>3
  <2> QED BY <2>2, <2>3 DEF Ranks
<1>8. ASSUME NEW i \in 1..n, NEW j \in 1..n, rank[i] = rank[j] PROVE i = j
  <2>1. i = j \/ i \in Lower(ops, j) \/ j \in Lower(ops, i)
    BY DEF Lower
  <2> QED BY <1>7, <1>8, <2>1
<1> HIDE DEF rank
<1>9. rank \in Injection(1..n, 0..(n - 1))
  BY <1>6, <1>8 DEF Injection, IsInjective
<1>10. rank \in Surjection(1..n, 0..(n - 1))
  BY <1>1, <1>2, <1>9, FS_Injection
<1>11. ASSUME NEW k \in 1..n PROVE \E i \in 1..n : Cardinality(Lower(ops, i)) = k - 1
  <2>1. k - 1 \in 0..(n - 1)
    OBVIOUS
  <2>2. PICK i \in 1..n : rank[i] = k - 1
    BY <1>10, <2>1 DEF Surjection
  <2> QED BY <2>2 DEF rank, Ranks
<1>12. ASSUME NEW k \in 1..n PROVE \E i \in 1..n : ByDisplacement(ops)[k] = ops[i]
  <2> DEFINE at == CHOOSE i \in 1..n : Cardinality(Lower(ops, i)) = k - 1
  <2>1. at \in 1..n
    BY <1>11
  <2>2. ByDisplacement(ops)[k] = ops[at]
    BY DEF ByDisplacement
  <2> HIDE DEF at
  <2> QED BY <2>1, <2>2
<1> QED BY <1>12

(***************************************************************************)
(* Where a stored value comes from: the backward search of the producers   *)
(* finds what the forward reference says flows into the value.             *)
(***************************************************************************)
LEMMA WindowShape ==
    ASSUME NEW window, IsAccessWindow(window)
    PROVE  /\ Len(window) \in Nat /\ DOMAIN window = 1..Len(window)
           /\ \A n \in 1..Len(window) :
                /\ window[n] \in Range(window)
                /\ window[n].reads \in Seq(Range(window[n].reads))
                /\ window[n].operands \in Seq(Range(window[n].operands))
                /\ Range(window[n].reads) \in SUBSET FamiliesOf(window)
                /\ \A op \in Range(window[n].operands) : op.value \in FamiliesOf(window)
<1>1. window \in Seq(Range(window)) /\ \A insn \in Range(window) :
          insn.reads \in Seq(Range(insn.reads)) /\ insn.operands \in Seq(Range(insn.operands))
  BY DEF IsAccessWindow
<1>2. \A n \in DOMAIN window : window[n] \in Range(window)
  BY DEF Range
<1>3. Len(window) \in Nat /\ DOMAIN window = 1..Len(window)
  BY <1>1
<1>4. ASSUME NEW n \in DOMAIN window
      PROVE  /\ Range(window[n].reads) \in SUBSET FamiliesOf(window)
             /\ \A op \in Range(window[n].operands) : op.value \in FamiliesOf(window)
  BY DEF FamiliesOf
<1> QED BY <1>1, <1>2, <1>3, <1>4

\* The flow after instruction n, from the flow before it.
NextFlow(window, d, n) ==
    [r \in FamiliesOf(window) |->
        IF r \in window[n].writes THEN UNION {d[s] : s \in Range(window[n].reads)} ELSE d[r]]

NextFlows(window) ==
    [p \in [FamiliesOf(window) -> SUBSET FamiliesOf(window)] \X (1..Len(window)) |-> NextFlow(window, p[1], p[2])]

\* The reference goes one instruction at a time.
LEMMA InflowStepByStep ==
    ASSUME NEW window, IsAccessWindow(window)
    PROVE  /\ \A r \in FamiliesOf(window) : Inflow(window)[1][r] = {r}
           /\ \A n \in 1..Len(window) : Inflow(window)[n + 1] = NextFlow(window, Inflow(window)[n], n)
<1> DEFINE N == Len(window)
           Fam == FamiliesOf(window)
           X == [Fam -> SUBSET Fam]
           own == [r \in Fam |-> {r}]
           flows == NextFlows(window)
           def(m) == m = [n \in 1..(N + 1) |->
                IF n = 1 THEN [r \in Fam |-> {r}]
                ELSE [r \in Fam |->
                        IF r \in window[n - 1].writes
                        THEN UNION {m[n - 1][s] : s \in Range(window[n - 1].reads)}
                        ELSE m[n - 1][r]]]
           dep == CHOOSE m : def(m)
<1>1. N \in Nat /\ \A n \in 1..N : Range(window[n].reads) \in SUBSET Fam
  BY WindowShape
<1>2. own \in X
  OBVIOUS
<1>3. flows \in [X \X (1..N) -> X] /\ \A d \in X, n \in 1..N : flows[<<d, n>>] = NextFlow(window, d, n)
  <2>1. ASSUME NEW d \in X, NEW n \in 1..N PROVE NextFlow(window, d, n) \in X
    <3>1. \A s \in Range(window[n].reads) : d[s] \in SUBSET Fam
      BY <1>1
    <3>2. UNION {d[s] : s \in Range(window[n].reads)} \in SUBSET Fam
      BY <3>1
    <3> QED BY <3>2 DEF NextFlow
  <2> HIDE DEF N
  <2> QED BY <2>1 DEF NextFlows, N
<1> HIDE DEF flows, own, X
<1>4. PICK f : f \in Chain(X, own, flows, N)
  BY <1>1, <1>2, <1>3, RecursionUp
<1>5. f[0] = own /\ \A n \in 1..N : f[n - 1] \in X /\ f[n] = NextFlow(window, f[n - 1], n)
  <2>1. f[0] = own /\ \A n \in 1..N : f[n - 1] \in X /\ f[n] = flows[<<f[n - 1], n>>]
    BY <1>1, <1>4 DEF Chain
  <2> QED BY <1>3, <2>1
<1> DEFINE g == [n \in 1..(N + 1) |-> f[n - 1]]
<1>6. def(g)
  <2> DEFINE rhs(n) ==
                IF n = 1 THEN [r \in Fam |-> {r}]
                ELSE [r \in Fam |->
                        IF r \in window[n - 1].writes
                        THEN UNION {g[n - 1][s] : s \in Range(window[n - 1].reads)}
                        ELSE g[n - 1][r]]
  <2>1. ASSUME NEW n \in 1..(N + 1) PROVE g[n] = rhs(n)
    <3>1. CASE n = 1
      <4>1. g[n] = f[0]
        BY <1>1, <3>1
      <4> QED BY <1>5, <3>1, <4>1 DEF own
    <3>2. CASE n # 1
      <4>1. n - 1 \in 1..N /\ n - 1 \in 1..(N + 1) /\ g[n] = f[n - 1] /\ g[n - 1] = f[(n - 1) - 1]
        BY <1>1, <3>2
      <4>2. f[n - 1] = NextFlow(window, g[n - 1], n - 1)
        BY <1>5, <4>1
      <4>3. rhs(n) = NextFlow(window, g[n - 1], n - 1)
        <5> HIDE DEF g
        <5> QED BY <3>2, Zenon DEF NextFlow
      <4> HIDE DEF g, rhs
      <4> QED BY <4>1, <4>2, <4>3
    <3> QED BY <3>1, <3>2
  <2>2. g = [n \in 1..(N + 1) |-> rhs(n)]
    <3> HIDE DEF rhs
    <3> QED BY <2>1
  <2> QED BY <2>2, Zenon
<1>7. \E m : def(m)
  <2> HIDE DEF def, g
  <2> QED BY <1>6
<1>8. def(dep) /\ Inflow(window) = dep
  <2>1. Inflow(window) = dep
    BY Zenon DEF Inflow
  <2> HIDE DEF def
  <2> QED BY <1>7, <2>1
<1> HIDE DEF dep, Fam
<1>9. 1 \in 1..(N + 1) /\ dep[1] = [r \in Fam |-> {r}]
  BY <1>1, <1>8
<1>10. ASSUME NEW n \in 1..N PROVE dep[n + 1] = NextFlow(window, dep[n], n)
  <2>1. n + 1 \in 1..(N + 1) /\ n + 1 # 1 /\ (n + 1) - 1 = n
    BY <1>1
  <2> DEFINE rhs(i) == IF i = 1 THEN [r \in FamiliesOf(window) |-> {r}] ELSE NextFlow(window, dep[i - 1], i - 1)
  <2>2. dep = [i \in 1..(N + 1) |-> rhs(i)]
    BY <1>8, Zenon DEF NextFlow, Fam
  <2>3. dep[n + 1] = rhs(n + 1)
    <3> HIDE DEF rhs
    <3> QED BY <2>1, <2>2
  <2> QED BY <2>1, <2>3
<1> QED BY <1>8, <1>9, <1>10 DEF Fam

\* The most recent writer, as the window goes on.
LEMMA WriterIsLast ==
    ASSUME NEW window, NEW r, NEW n \in Nat, n >= 1
    PROVE  /\ Writer(window, r, n) \in 0..(n - 1)
           /\ Writer(window, r, n) = 0 => \A m \in 1..(n - 1) : r \notin window[m].writes
           /\ Writer(window, r, n) # 0 => r \in window[Writer(window, r, n)].writes
           /\ r \in window[n].writes => Writer(window, r, n + 1) = n
           /\ r \notin window[n].writes => Writer(window, r, n + 1) = Writer(window, r, n)
<1> DEFINE ws == {m \in 1..(n - 1) : r \in window[m].writes}
           next == {m \in 1..((n + 1) - 1) : r \in window[m].writes}
<1>1. Writer(window, r, n) = (IF ws = {} THEN 0 ELSE Max(ws))
  BY DEF Writer
<1>2. Writer(window, r, n + 1) = (IF next = {} THEN 0 ELSE Max(next))
  BY DEF Writer
<1>3. ws # {} => Max(ws) \in ws
  <2>1. ws \in SUBSET (0..n)
    OBVIOUS
  <2> HIDE DEF ws
  <2> QED BY <2>1, MaxIsGreatest
<1>4. CASE r \in window[n].writes
  <2>1. next \in SUBSET (0..n) /\ n \in next
    BY <1>4
  <2>2. Max(next) \in next /\ n <= Max(next)
    <3> HIDE DEF next
    <3> QED BY <2>1, MaxIsGreatest
  <2>3. Max(next) = n
    BY <2>2
  <2> HIDE DEF next
  <2> QED BY <1>1, <1>2, <1>3, <1>4, <2>1, <2>3
<1>5. CASE r \notin window[n].writes
  <2>1. next = ws
    <3>1. (n + 1) - 1 = n /\ \A m : m \in 1..n <=> m \in 1..(n - 1) \/ m = n
      OBVIOUS
    <3> QED BY <1>5, <3>1
  <2>2. Writer(window, r, n + 1) = Writer(window, r, n)
    <3> HIDE DEF ws, next
    <3> QED BY <1>1, <1>2, <2>1
  <2>3. ws = {} => \A m \in 1..(n - 1) : r \notin window[m].writes
    OBVIOUS
  <2>4. \A m \in ws : m \in 1..(n - 1) /\ m # 0 /\ m \in 0..(n - 1) /\ r \in window[m].writes
    OBVIOUS
  <2>5. 0 \in 0..(n - 1)
    OBVIOUS
  <2> HIDE DEF ws, next
  <2> QED BY <1>1, <1>3, <1>5, <2>2, <2>3, <2>4, <2>5
<1> QED BY <1>4, <1>5

\* A register holds what the reads of its last writer held then.
LEMMA InflowOf ==
    ASSUME NEW window, IsAccessWindow(window),
           NEW n \in 1..(Len(window) + 1), NEW r \in FamiliesOf(window)
    PROVE  LET w == Writer(window, r, n)
           IN  /\ w \in 0..(n - 1)
               /\ w = 0 => Inflow(window)[n][r] = {r}
               /\ w # 0 => Inflow(window)[n][r] = UNION {Inflow(window)[w][s] : s \in Range(window[w].reads)}
<1> DEFINE N == Len(window)
           Fam == FamiliesOf(window)
           flow == Inflow(window)
           Right(i, x) == LET w == Writer(window, x, i)
                          IN  /\ w = 0 => flow[i][x] = {x}
                              /\ w # 0 => flow[i][x] = UNION {flow[w][s] : s \in Range(window[w].reads)}
           P == {i \in 1..(N + 1) : \A x \in Fam : Right(i, x)}
<1>1. N \in Nat
  BY WindowShape
<1>2. /\ \A x \in Fam : flow[1][x] = {x}
      /\ \A i \in 1..N : flow[i + 1] = NextFlow(window, flow[i], i)
  BY InflowStepByStep
<1> HIDE DEF flow
<1>3. 1 \in P
  <2>1. ASSUME NEW x \in Fam PROVE Writer(window, x, 1) = 0
    <3>1. Writer(window, x, 1) \in 0..(1 - 1)
      BY WriterIsLast
    <3> QED BY <3>1
  <2> QED BY <1>1, <1>2, <2>1
<1>4. ASSUME NEW i \in 1..((N + 1) - 1), i \in P PROVE i + 1 \in P
  <2>1. i \in 1..N /\ i + 1 \in 1..(N + 1) /\ i \in Nat /\ i >= 1
    BY <1>1
  <2>2. ASSUME NEW x \in Fam PROVE Right(i + 1, x)
    <3>1. /\ x \in window[i].writes => Writer(window, x, i + 1) = i
          /\ x \notin window[i].writes => Writer(window, x, i + 1) = Writer(window, x, i)
      BY <2>1, WriterIsLast
    <3>2. flow[i + 1][x] = IF x \in window[i].writes
                            THEN UNION {flow[i][s] : s \in Range(window[i].reads)} ELSE flow[i][x]
      BY <1>2, <2>1 DEF NextFlow
    <3>3. Right(i, x)
      BY <1>4
    <3>4. CASE x \in window[i].writes
      <4>1. Writer(window, x, i + 1) = i /\ i # 0
        BY <2>1, <3>1, <3>4
      <4> QED BY <3>2, <3>4, <4>1
    <3>5. CASE x \notin window[i].writes
      <4>1. Writer(window, x, i + 1) = Writer(window, x, i) /\ flow[i + 1][x] = flow[i][x]
        BY <3>1, <3>2, <3>5
      <4> QED BY <3>3, <4>1
    <3> QED BY <3>4, <3>5
  <2> QED BY <2>1, <2>2
<1>5. n \in P
  <2> HIDE DEF P
  <2>1. 1 \in Int /\ N + 1 \in Int
    BY <1>1
  <2> QED BY <1>3, <1>4, <2>1, InductionBetween
<1>6. Right(n, r)
  BY <1>5
<1>7. Writer(window, r, n) \in 0..(n - 1)
  <2>1. n \in Nat /\ n >= 1
    BY <1>1
  <2> QED BY <2>1, WriterIsLast
<1> QED BY <1>6, <1>7 DEF flow

\* The sources at one depth, from those one deeper.
SourcesFrom(window, deeper, n) ==
    FlattenSeq([k \in DOMAIN window[n].reads |->
        LET r == window[n].reads[k]
            w == Writer(window, r, n)
        IN  IF w = 0 THEN <<r>> ELSE deeper[w]])

SourceStep(window) ==
    [p \in [1..Len(window) -> Seq(FamiliesOf(window))] \X (1..(MaxDepth + 1)) |->
        [n \in 1..Len(window) |-> SourcesFrom(window, p[1], n)]]

\* A read that nothing writes before is a source; any other has its writer's.
LEMMA SourcesFromEntries ==
    ASSUME NEW window, IsAccessWindow(window),
           NEW deeper \in [1..Len(window) -> Seq(FamiliesOf(window))], NEW n \in 1..Len(window)
    PROVE  /\ SourcesFrom(window, deeper, n) \in Seq(FamiliesOf(window))
           /\ Range(SourcesFrom(window, deeper, n)) =
                UNION {IF Writer(window, r, n) = 0 THEN {r} ELSE Range(deeper[Writer(window, r, n)])
                        : r \in Range(window[n].reads)}
<1> DEFINE Fam == FamiliesOf(window)
           N == Len(window)
           reads == window[n].reads
           entry(r) == IF Writer(window, r, n) = 0 THEN <<r>> ELSE deeper[Writer(window, r, n)]
           found(r) == IF Writer(window, r, n) = 0 THEN {r} ELSE Range(deeper[Writer(window, r, n)])
           ss == [k \in DOMAIN reads |-> entry(reads[k])]
<1>1. /\ N \in Nat /\ Len(reads) \in Nat /\ DOMAIN reads = 1..Len(reads)
      /\ \A k \in 1..Len(reads) : reads[k] \in Range(reads)
      /\ Range(reads) \in SUBSET Fam
  <2>1. N \in Nat /\ reads \in Seq(Range(reads)) /\ Range(reads) \in SUBSET Fam
    BY WindowShape
  <2> HIDE DEF reads
  <2>2. Len(reads) \in Nat /\ DOMAIN reads = 1..Len(reads)
    BY <2>1
  <2> QED BY <2>1, <2>2 DEF Range
<1>2. ASSUME NEW r \in Fam PROVE entry(r) \in Seq(Fam) /\ Range(entry(r)) = found(r)
  <2>1. Writer(window, r, n) \in 0..(n - 1)
    <3>1. n \in Nat /\ n >= 1
      BY <1>1
    <3> QED BY <3>1, WriterIsLast
  <2>2. CASE Writer(window, r, n) = 0
    <3>1. <<r>> \in Seq(Fam) /\ Range(<<r>>) = {r}
      BY DEF Range
    <3> QED BY <2>2, <3>1
  <2>3. CASE Writer(window, r, n) # 0
    <3>1. Writer(window, r, n) \in 1..N
      BY <1>1, <2>1, <2>3
    <3> QED BY <2>3, <3>1
  <2> QED BY <2>2, <2>3
<1>3. SourcesFrom(window, deeper, n) = FlattenSeq(ss)
  BY Zenon DEF SourcesFrom
<1> HIDE DEF entry, found, reads
<1>4. ss \in [1..Len(reads) -> Seq(Fam)]
  BY <1>1, <1>2
<1>5. FlattenSeq(ss) \in Seq(Fam) /\ Range(FlattenSeq(ss)) = UNION {Range(ss[i]) : i \in 1..Len(reads)}
  <2> HIDE DEF ss
  <2> QED BY <1>1, <1>4, FlattenOf
<1>6. UNION {Range(ss[i]) : i \in 1..Len(reads)} = UNION {found(r) : r \in Range(reads)}
  <2>1. \A i \in 1..Len(reads) : Range(ss[i]) = found(reads[i]) /\ reads[i] \in Range(reads)
    BY <1>1, <1>2
  <2>2. \A r \in Range(reads) : \E i \in 1..Len(reads) : r = reads[i]
    BY <1>1 DEF Range
  <2> HIDE DEF ss
  <2> QED BY <2>1, <2>2
<1> QED BY <1>3, <1>5, <1>6 DEF found, reads

\* The search, as a function that solves the equation the model writes it with.
LEMMA SourcesStepByStep ==
    ASSUME NEW window, IsAccessWindow(window)
    PROVE  /\ \A depth \in 0..(MaxDepth + 1) : SourcesOf(window)[depth] \in [1..Len(window) -> Seq(FamiliesOf(window))]
           /\ \A depth \in 0..MaxDepth, n \in 1..Len(window) :
                SourcesOf(window)[depth][n] = SourcesFrom(window, SourcesOf(window)[depth + 1], n)
<1> DEFINE N == Len(window)
           Fam == FamiliesOf(window)
           D == MaxDepth + 1
           X == [1..N -> Seq(Fam)]
           none == [n \in 1..N |-> <<>>]
           step == SourceStep(window)
           rhs(o, depth) == [n \in DOMAIN window |->
                IF depth > MaxDepth THEN <<>>
                ELSE FlattenSeq([k \in DOMAIN window[n].reads |->
                        LET r == window[n].reads[k]
                            w == Writer(window, r, n)
                        IN  IF w = 0 THEN <<r>> ELSE o[depth + 1][w]])]
           def(o) == o = [depth \in 0..(MaxDepth + 1) |-> rhs(o, depth)]
           of == CHOOSE o : def(o)
<1>1. N \in Nat /\ DOMAIN window = 1..N /\ MaxDepth \in Nat /\ D \in Nat /\ none \in X
  BY WindowShape, AccessesAreTyped
<1>2. step \in [X \X (1..D) -> X]
      /\ \A x \in X, e \in 1..D : step[<<x, e>>] = [n \in 1..N |-> SourcesFrom(window, x, n)]
  <2>1. ASSUME NEW x \in X PROVE [n \in 1..N |-> SourcesFrom(window, x, n)] \in X
    BY SourcesFromEntries
  <2> HIDE DEF N, Fam, D
  <2> QED BY <2>1 DEF SourceStep, N, Fam, D
<1> HIDE DEF step, none, X
<1>3. PICK f : f \in Chain(X, none, step, D)
  BY <1>1, <1>2, RecursionUp
<1>4. /\ f[0] = none
      /\ \A e \in 0..D : f[e] \in X
      /\ \A e \in 1..D : f[e] = [n \in 1..N |-> SourcesFrom(window, f[e - 1], n)]
  <2>1. /\ f[0] = none /\ (\A e \in 0..D : f[e] \in X) /\ \A e \in 1..D : f[e] = step[<<f[e - 1], e>>]
    BY <1>1, <1>3 DEF Chain
  <2>2. \A e \in 1..D : e - 1 \in 0..D
    BY <1>1
  <2> QED BY <1>2, <2>1, <2>2
<1> DEFINE g == [depth \in 0..(MaxDepth + 1) |-> f[D - depth]]
<1>5. ASSUME NEW o, NEW depth \in 0..MaxDepth
      PROVE  rhs(o, depth) = [n \in 1..N |-> SourcesFrom(window, o[depth + 1], n)]
  <2>1. ~(depth > MaxDepth)
    BY <1>1
  <2>2. rhs(o, depth) = [n \in DOMAIN window |-> SourcesFrom(window, o[depth + 1], n)]
    BY <2>1, Zenon DEF SourcesFrom
  <2> HIDE DEF rhs
  <2> QED BY <1>1, <2>2
<1>6. ASSUME NEW o PROVE rhs(o, MaxDepth + 1) = none
  BY <1>1 DEF none
<1>7. def(g)
  <2> DEFINE here(depth) == rhs(g, depth)
  <2>1. ASSUME NEW depth \in 0..(MaxDepth + 1) PROVE f[D - depth] = here(depth)
    <3>1. CASE depth = MaxDepth + 1
      <4>1. D - depth = 0
        BY <1>1, <3>1
      <4>2. here(depth) = none
        <5> HIDE DEF rhs
        <5> QED BY <1>6, <3>1
      <4> HIDE DEF here
      <4> QED BY <1>4, <4>1, <4>2
    <3>2. CASE depth # MaxDepth + 1
      <4>1. depth \in 0..MaxDepth /\ depth + 1 \in 0..(MaxDepth + 1) /\ D - depth \in 1..D
            /\ (D - depth) - 1 = D - (depth + 1)
        BY <1>1, <3>2
      <4>2. g[depth + 1] = f[(D - depth) - 1]
        BY <4>1
      <4>3. here(depth) = [n \in 1..N |-> SourcesFrom(window, g[depth + 1], n)]
        <5> HIDE DEF rhs, g
        <5> QED BY <1>5, <4>1
      <4> HIDE DEF g, here
      <4> QED BY <1>4, <4>1, <4>2, <4>3
    <3> QED BY <3>1, <3>2
  <2>2. g = [depth \in 0..(MaxDepth + 1) |-> here(depth)]
    <3> HIDE DEF here
    <3> QED BY <2>1
  <2> QED BY <2>2, Zenon
<1>8. \E o : def(o)
  <2> HIDE DEF def, g
  <2> QED BY <1>7
<1>9. def(of) /\ SourcesOf(window) = of
  <2>1. SourcesOf(window) = of
    BY Zenon DEF SourcesOf
  <2> HIDE DEF def
  <2> QED BY <1>8, <2>1
<1> HIDE DEF of
<1>10. \A depth \in 0..(MaxDepth + 1) : of[depth] = rhs(of, depth)
  <2> HIDE DEF rhs
  <2> QED BY <1>9
<1>11. of[MaxDepth + 1] = none
       /\ \A depth \in 0..MaxDepth : of[depth] = [n \in 1..N |-> SourcesFrom(window, of[depth + 1], n)]
  <2> HIDE DEF rhs
  <2>1. MaxDepth + 1 \in 0..(MaxDepth + 1) /\ \A depth \in 0..MaxDepth : depth \in 0..(MaxDepth + 1)
    BY <1>1
  <2> QED BY <1>5, <1>6, <1>10, <2>1
<1> HIDE DEF rhs, def, g
<1> DEFINE P == {depth \in 0..(MaxDepth + 1) : of[depth] \in X}
<1>12. MaxDepth + 1 \in P
  BY <1>1, <1>11
<1>13. ASSUME NEW depth \in (0 + 1)..(MaxDepth + 1), depth \in P PROVE depth - 1 \in P
  <2>1. depth - 1 \in 0..MaxDepth /\ (depth - 1) + 1 = depth /\ depth - 1 \in 0..(MaxDepth + 1)
    BY <1>1
  <2>2. of[depth - 1] = [n \in 1..N |-> SourcesFrom(window, of[depth], n)]
    BY <1>11, <2>1
  <2>3. [n \in 1..N |-> SourcesFrom(window, of[depth], n)] \in X
    BY <1>13, SourcesFromEntries DEF X
  <2> QED BY <2>1, <2>2, <2>3
<1>14. \A depth \in 0..(MaxDepth + 1) : depth \in P
  <2> HIDE DEF P
  <2>1. 0 \in Int /\ MaxDepth + 1 \in Int
    BY <1>1
  <2> QED BY <1>12, <1>13, <2>1, InductionDown
<1> QED BY <1>9, <1>11, <1>14 DEF X

\* The sources of an instruction are what flows into its reads, as long as no
\* chain of producers is deeper than the search.
LEMMA SourcesAreInflow ==
    ASSUME NEW window, IsAccessWindow(window)
    PROVE  \A n \in 1..Len(window) : \A depth \in 0..MaxDepth : n + depth <= MaxDepth + 1 =>
             Range(SourcesOf(window)[depth][n]) = UNION {Inflow(window)[n][s] : s \in Range(window[n].reads)}
<1> DEFINE N == Len(window)
           of == SourcesOf(window)
           flow == Inflow(window)
           Right(n) == \A depth \in 0..MaxDepth : n + depth <= MaxDepth + 1 =>
                Range(of[depth][n]) = UNION {flow[n][s] : s \in Range(window[n].reads)}
           P == {m \in 0..N : \A n \in 1..m : Right(n)}
<1>1. N \in Nat /\ MaxDepth \in Nat
  BY WindowShape, AccessesAreTyped
<1>2. 0 \in P
  BY <1>1
<1>3. ASSUME NEW m \in 0..(N - 1), m \in P PROVE m + 1 \in P
  <2> DEFINE n == m + 1
  <2>1. n \in 1..N /\ n \in 1..(N + 1) /\ n \in 0..N /\ n \in Nat /\ \A i \in 1..n : i \in 1..m \/ i = n
    BY <1>1
  <2>2. \A i \in 1..m : Right(i)
    BY <1>3
  <2> HIDE DEF n
  <2>3. ASSUME NEW depth \in 0..MaxDepth, n + depth <= MaxDepth + 1
        PROVE  Range(of[depth][n]) = UNION {flow[n][s] : s \in Range(window[n].reads)}
    <3> DEFINE deeper == of[depth + 1]
               found(r) == IF Writer(window, r, n) = 0 THEN {r} ELSE Range(deeper[Writer(window, r, n)])
    <3>1. deeper \in [1..N -> Seq(FamiliesOf(window))] /\ of[depth][n] = SourcesFrom(window, deeper, n)
      <4>1. depth + 1 \in 0..(MaxDepth + 1)
        BY <1>1
      <4> QED BY <2>1, <4>1, SourcesStepByStep
    <3>2. Range(of[depth][n]) = UNION {found(r) : r \in Range(window[n].reads)}
      <4> HIDE DEF deeper
      <4>1. Range(SourcesFrom(window, deeper, n)) = UNION {found(r) : r \in Range(window[n].reads)}
        BY <2>1, <3>1, SourcesFromEntries
      <4> QED BY <3>1, <4>1
    <3>3. ASSUME NEW r \in Range(window[n].reads) PROVE found(r) = flow[n][r]
      <4> DEFINE w == Writer(window, r, n)
      <4>1. r \in FamiliesOf(window)
        BY <2>1, WindowShape
      <4>2. /\ w \in 0..(n - 1)
            /\ w = 0 => flow[n][r] = {r}
            /\ w # 0 => flow[n][r] = UNION {flow[w][s] : s \in Range(window[w].reads)}
        BY <2>1, <4>1, InflowOf
      <4> HIDE DEF w
      <4>3. CASE w = 0
        BY <4>2, <4>3 DEF w
      <4>4. CASE w # 0
        <5>1. w \in 1..m /\ depth + 1 \in 0..MaxDepth /\ w + (depth + 1) <= MaxDepth + 1
          BY <1>1, <2>1, <2>3, <4>2, <4>4 DEF n
        <5>2. Range(of[depth + 1][w]) = UNION {flow[w][s] : s \in Range(window[w].reads)}
          BY <2>2, <5>1
        <5> QED BY <4>2, <4>4, <5>2 DEF w
      <4> QED BY <4>3, <4>4
    <3> HIDE DEF found
    <3> QED BY <3>2, <3>3
  <2>4. Right(n)
    BY <2>3
  <2> HIDE DEF Right
  <2> QED BY <2>1, <2>2, <2>4 DEF n
<1>4. \A m \in 0..N : m \in P
  <2> HIDE DEF P
  <2>1. 0 \in Int /\ N \in Int
    BY <1>1
  <2> QED BY <1>2, <1>3, <2>1, InductionBetween
<1> QED BY <1>1, <1>4

(***************************************************************************)
(* Collecting.                                                             *)
(***************************************************************************)
AccessesOf(side, window) ==
    UNION {{Adjusted(side, window, n, window[n].operands[k]) : k \in DOMAIN window[n].operands} : n \in DOMAIN window}

LEMMA CollectedOf ==
    ASSUME NEW side, NEW window, IsAccessWindow(window)
    PROVE  Collect(side, window) \in Seq(AccessesOf(side, window))
<1> DEFINE S == AccessesOf(side, window)
           N == Len(window)
           row(n) == [k \in DOMAIN window[n].operands |-> Adjusted(side, window, n, window[n].operands[k])]
           ss == [n \in DOMAIN window |-> row(n)]
<1>1. N \in Nat /\ DOMAIN window = 1..N
  BY WindowShape
<1>2. ASSUME NEW n \in 1..N PROVE row(n) \in Seq(S)
  <2> DEFINE ops == window[n].operands
  <2>1. ops \in Seq(Range(ops))
    BY WindowShape
  <2>2. Len(ops) \in Nat /\ DOMAIN ops = 1..Len(ops)
    <3> HIDE DEF ops
    <3> QED BY <2>1
  <2>3. \A k \in DOMAIN ops : Adjusted(side, window, n, ops[k]) \in S
    BY <1>1 DEF AccessesOf
  <2>4. row(n) = [k \in 1..Len(ops) |-> Adjusted(side, window, n, ops[k])]
    BY <2>2
  <2> HIDE DEF ops, row, S
  <2> QED BY <2>2, <2>3, <2>4
<1>3. ss \in [1..N -> Seq(S)]
  <2> HIDE DEF row, S
  <2> QED BY <1>1, <1>2
<1>4. Collect(side, window) = FlattenSeq(ss)
  BY Zenon DEF Collect
<1> HIDE DEF ss, S
<1> QED BY <1>1, <1>3, <1>4, FlattenOf DEF S

\* An operand keeps its place of origin, and a stack operand counts from where
\* the stack pointer was at the start.
LEMMA AccessFacts ==
    ASSUME NEW side, NEW window, IsAccessWindow(window), NEW a \in AccessesOf(side, window)
    PROVE  /\ a.at \in 1..Len(window)
           /\ a.width \in Nat /\ a.disp \in Int /\ a.value \in FamiliesOf(window)
           /\ a.base = StackPointer[side] /\ Len(window[a.at].operands) = 1
              => a.disp = StackPointerAt(window)[a.at] + window[a.at].operands[1].disp
<1> DEFINE N == Len(window)
<1>1. N \in Nat /\ DOMAIN window = 1..N
  BY WindowShape
<1>2. PICK n \in 1..N : \E k \in DOMAIN window[n].operands : a = Adjusted(side, window, n, window[n].operands[k])
  BY <1>1 DEF AccessesOf
<1>3. PICK k \in DOMAIN window[n].operands : a = Adjusted(side, window, n, window[n].operands[k])
  BY <1>2
<1> DEFINE ops == window[n].operands
           op == ops[k]
<1>4. /\ ops \in Seq(Range(ops))
      /\ op \in Range(ops) /\ op.value \in FamiliesOf(window)
      /\ op = [field \in OperandFields |-> op[field]] /\ op.width \in Nat /\ op.disp \in Int
  <2>1. window[n] \in Range(window) /\ ops \in Seq(Range(ops))
    BY WindowShape
  <2>2. op \in Range(ops)
    BY <1>3 DEF Range
  <2>3. op.value \in FamiliesOf(window)
    BY <2>2, WindowShape
  <2>4. op = [field \in OperandFields |-> op[field]] /\ op.width \in Nat /\ op.disp \in Int
    BY <2>1, <2>2 DEF IsAccessWindow
  <2> QED BY <2>1, <2>2, <2>3, <2>4
<1>5. k \in 1..Len(ops)
  <2>1. k \in DOMAIN ops
    BY <1>3
  <2> HIDE DEF ops
  <2> QED BY <1>4, <2>1
<1>6. Delta(window, n) \in Int /\ Delta(window, n) = StackPointerAt(window)[n]
  <2>1. n \in 1..(N + 1)
    BY <1>1
  <2> QED BY <2>1, DeltaIsStackPointer
<1>7. a = Adjusted(side, window, n, op)
  BY <1>3
<1> HIDE DEF op
<1>8. /\ a.at = n /\ a.base = op.base /\ a.width = op.width /\ a.value = op.value
      /\ a.base = StackPointer[side] => a.disp = op.disp + Delta(window, n)
      /\ a.base # StackPointer[side] => a.disp = op.disp
  <2> DEFINE moved == [op EXCEPT !.at = n, !.disp = @ + Delta(window, n)]
             kept == [op EXCEPT !.at = n]
  <2>1. DOMAIN op = OperandFields
    BY <1>4
  <2>2. /\ kept.at = n /\ kept.base = op.base /\ kept.width = op.width /\ kept.value = op.value
        /\ kept.disp = op.disp
    BY <2>1 DEF OperandFields
  <2>3. /\ moved.at = n /\ moved.base = op.base /\ moved.width = op.width /\ moved.value = op.value
        /\ moved.disp = op.disp + Delta(window, n)
    BY <2>1 DEF OperandFields
  <2>4. a = IF op.base = StackPointer[side] THEN moved ELSE kept
    BY <1>7, Zenon DEF Adjusted
  <2> HIDE DEF moved, kept
  <2> QED BY <2>2, <2>3, <2>4
<1>9. ASSUME a.base = StackPointer[side], Len(window[a.at].operands) = 1
      PROVE  a.disp = StackPointerAt(window)[a.at] + window[a.at].operands[1].disp
  <2>1. Len(ops) = 1
    BY <1>8, <1>9
  <2>2. k = 1
    <3> HIDE DEF ops
    <3> QED BY <1>5, <2>1
  <2>3. a.disp = op.disp + Delta(window, n) /\ op = ops[1]
    BY <1>8, <1>9, <2>2 DEF op
  <2> QED BY <1>4, <1>6, <1>8, <2>3
<1>10. a.at \in 1..N /\ a.width \in Nat /\ a.disp \in Int /\ a.value \in FamiliesOf(window)
  BY <1>4, <1>6, <1>8
<1> QED BY <1>9, <1>10

(***************************************************************************)
(* The registers paired for a slot.                                        *)
(***************************************************************************)
\* What an access stores, traced to the inputs of its window.
LEMMA StoredInputs ==
    ASSUME NEW side, NEW window, IsAccessWindow(window), NEW a \in AccessesOf(side, window)
    PROVE  /\ IsInternal(window, a)
              => /\ ExternalSources(window, a) \in Seq(FamiliesOf(window))
                 /\ Len(window) <= MaxDepth + 1
                    => Range(ExternalSources(window, a)) = Inflow(window)[a.at][a.value]
           /\ ~IsInternal(window, a) => Inflow(window)[a.at][a.value] = {a.value}
<1> DEFINE w == Writer(window, a.value, a.at)
           N == Len(window)
<1>1. N \in Nat /\ MaxDepth \in Nat /\ a.at \in 1..N /\ a.at \in 1..(N + 1) /\ a.value \in FamiliesOf(window)
  BY WindowShape, AccessFacts, AccessesAreTyped
<1>2. /\ w \in 0..(a.at - 1)
      /\ w = 0 => Inflow(window)[a.at][a.value] = {a.value}
      /\ w # 0 => Inflow(window)[a.at][a.value] = UNION {Inflow(window)[w][s] : s \in Range(window[w].reads)}
  <2>1. PICK n \in 1..(N + 1), r \in FamiliesOf(window) : n = a.at /\ r = a.value
    BY <1>1
  <2> DEFINE x == Writer(window, r, n)
  <2>2. /\ x \in 0..(n - 1)
        /\ x = 0 => Inflow(window)[n][r] = {r}
        /\ x # 0 => Inflow(window)[n][r] = UNION {Inflow(window)[x][s] : s \in Range(window[x].reads)}
    BY InflowOf
  <2> QED BY <2>1, <2>2
<1>3. IsInternal(window, a) <=> w # 0
  BY DEF IsInternal
<1>4. ExternalSources(window, a) = SourcesOf(window)[0][w]
  BY DEF ExternalSources
<1> HIDE DEF w
<1>5. ASSUME w # 0
      PROVE  /\ SourcesOf(window)[0][w] \in Seq(FamiliesOf(window))
             /\ N <= MaxDepth + 1 => Range(SourcesOf(window)[0][w]) = Inflow(window)[a.at][a.value]
  <2>1. w \in 1..N /\ w + 0 <= N /\ 0 \in 0..MaxDepth /\ 0 \in 0..(MaxDepth + 1)
    BY <1>1, <1>2, <1>5
  <2>2. SourcesOf(window)[0] \in [1..N -> Seq(FamiliesOf(window))]
    BY <2>1, SourcesStepByStep
  <2>3. N <= MaxDepth + 1 =>
          Range(SourcesOf(window)[0][w]) = UNION {Inflow(window)[w][s] : s \in Range(window[w].reads)}
    <3>1. N <= MaxDepth + 1 => w + 0 <= MaxDepth + 1
      BY <1>1, <2>1
    <3> QED BY <2>1, <3>1, SourcesAreInflow
  <2> QED BY <1>2, <1>5, <2>1, <2>2, <2>3
<1> QED BY <1>2, <1>3, <1>4, <1>5

\* A pair of accesses that nothing stands against, and the registers it pairs.
Matched(p, g, h) ==
    /\ g.kind = h.kind
    /\ g.kind # "read" =>
         /\ IsInternal(p["guest"], g) <=> IsInternal(p["host"], h)
         /\ IsInternal(p["guest"], g) =>
              Len(ExternalSources(p["guest"], g)) = Len(ExternalSources(p["host"], h))

PairsFor(p, g, h) ==
    IF g.kind = "read" THEN <<>>
    ELSE IF IsInternal(p["guest"], g)
    THEN Zip(ExternalSources(p["guest"], g), ExternalSources(p["host"], h))
    ELSE <<<<g.value, h.value>>>>

LEMMA MatchedIfNoMismatch ==
    ASSUME NEW g, NEW h, Mismatch(g, h) = "none"
    PROVE  Matched(accessPair, g, h) /\ ValuePairs(g, h) = PairsFor(accessPair, g, h)
<1>1. g.kind = h.kind
  BY DEF Mismatch
<1>2. ASSUME g.kind # "read" PROVE IsInternal(accessPair["guest"], g) <=> IsInternal(accessPair["host"], h)
  BY <1>2 DEF Mismatch, IsInternal
<1>3. ASSUME g.kind # "read", IsInternal(accessPair["guest"], g)
      PROVE  Len(ExternalSources(accessPair["guest"], g)) = Len(ExternalSources(accessPair["host"], h))
  BY <1>3 DEF Mismatch
<1>4. ValuePairs(g, h) = PairsFor(accessPair, g, h)
  BY Zenon DEF ValuePairs, PairsFor
<1> QED BY <1>1, <1>2, <1>3, <1>4 DEF Matched

LEMMA PairsAreInputs ==
    ASSUME NEW p, IsAccessWindow(p["guest"]), IsAccessWindow(p["host"]),
           NEW g \in AccessesOf("guest", p["guest"]), NEW h \in AccessesOf("host", p["host"]),
           Matched(p, g, h)
    PROVE  /\ IsList(PairsFor(p, g, h))
           /\ g.kind = "write" /\ Len(p["guest"]) <= MaxDepth + 1 =>
                Firsts(PairsFor(p, g, h)) = Inflow(p["guest"])[g.at][g.value]
           /\ h.kind = "write" /\ Len(p["host"]) <= MaxDepth + 1 =>
                Seconds(PairsFor(p, g, h)) = Inflow(p["host"])[h.at][h.value]
<1> DEFINE pairs == PairsFor(p, g, h)
           eg == ExternalSources(p["guest"], g)
           eh == ExternalSources(p["host"], h)
<1>1. g.kind = h.kind
  BY DEF Matched
<1>2. CASE g.kind = "read"
  <2>1. pairs = <<>> /\ <<>> \in Seq({})
    BY <1>2 DEF PairsFor
  <2>2. IsList(pairs)
    BY <2>1, ListOf
  <2> QED BY <1>1, <1>2, <2>2
<1>3. CASE g.kind # "read" /\ IsInternal(p["guest"], g)
  <2>1. IsInternal(p["host"], h) /\ Len(eg) = Len(eh)
    BY <1>3 DEF Matched
  <2>2. pairs = Zip(eg, eh)
    BY <1>3, Zenon DEF PairsFor
  <2>3. /\ eg \in Seq(FamiliesOf(p["guest"]))
        /\ Len(p["guest"]) <= MaxDepth + 1 => Range(eg) = Inflow(p["guest"])[g.at][g.value]
    BY <1>3, StoredInputs
  <2>4. /\ eh \in Seq(FamiliesOf(p["host"]))
        /\ Len(p["host"]) <= MaxDepth + 1 => Range(eh) = Inflow(p["host"])[h.at][h.value]
    BY <2>1, StoredInputs
  <2> HIDE DEF eg, eh, pairs
  <2>5. /\ pairs \in Seq(FamiliesOf(p["guest"]) \X FamiliesOf(p["host"]))
        /\ Firsts(pairs) = Range(eg) /\ Seconds(pairs) = Range(eh)
    <3>1. Zip(eg, eh) \in Seq(FamiliesOf(p["guest"]) \X FamiliesOf(p["host"]))
      BY <2>3, <2>4, ZipEntries
    <3>2. Firsts(Zip(eg, eh)) = Range(eg) /\ Seconds(Zip(eg, eh)) = Range(eh)
      BY <2>1, <2>3, <2>4, ZipSides
    <3> QED BY <2>2, <3>1, <3>2, Zenon
  <2>6. IsList(pairs)
    BY <2>5, ListOf
  <2> QED BY <2>3, <2>4, <2>5, <2>6 DEF pairs
<1>4. CASE g.kind # "read" /\ ~IsInternal(p["guest"], g)
  <2>1. ~IsInternal(p["host"], h)
    BY <1>4 DEF Matched
  <2>2. Inflow(p["guest"])[g.at][g.value] = {g.value} /\ Inflow(p["host"])[h.at][h.value] = {h.value}
    BY <1>4, <2>1, StoredInputs
  <2>3. pairs = <<<<g.value, h.value>>>>
    BY <1>4, Zenon DEF PairsFor
  <2> HIDE DEF pairs
  <2>4. pairs \in Seq({<<g.value, h.value>>}) /\ DOMAIN pairs = {1} /\ pairs[1] = <<g.value, h.value>>
    BY <2>3
  <2>5. Firsts(pairs) = {g.value} /\ Seconds(pairs) = {h.value}
    BY <2>4 DEF Firsts, Seconds
  <2>6. IsList(pairs)
    BY <2>4, ListOf
  <2> QED BY <2>2, <2>5, <2>6 DEF pairs
<1> QED BY <1>2, <1>3, <1>4

LEMMA AddressPairsAreList ==
    ASSUME NEW g, NEW h
    PROVE  IsList(AddressPairs(g, h))
<1> DEFINE S == {g.base, g.index} 
           T == {h.base, h.index}
           pairs == Zip(AddressRegisters(g), AddressRegisters(h))
           ss == [k \in DOMAIN pairs |-> IF pairs[k] \in FramePairs THEN <<>> ELSE <<pairs[k]>>]
<1>1. AddressRegisters(g) \in Seq(S) /\ AddressRegisters(h) \in Seq(T)
  <2>1. <<g.base>> \in Seq(S) /\ <<g.base, g.index>> \in Seq(S)
    OBVIOUS
  <2>2. <<h.base>> \in Seq(T) /\ <<h.base, h.index>> \in Seq(T)
    OBVIOUS
  <2> HIDE DEF S, T
  <2> QED BY <2>1, <2>2, Zenon DEF AddressRegisters
<1> HIDE DEF S, T
<1>2. pairs \in Seq(S \X T)
  BY <1>1, ZipEntries
<1>3. AddressPairs(g, h) = FlattenSeq(ss)
  BY Zenon DEF AddressPairs
<1> DEFINE U == S \X T
<1> HIDE DEF pairs, U
<1>4. Len(pairs) \in Nat /\ ss \in [1..Len(pairs) -> Seq(U)]
  <2>1. pairs \in Seq(U) /\ Len(pairs) \in Nat /\ DOMAIN pairs = 1..Len(pairs)
    BY <1>2 DEF U
  <2>2. ASSUME NEW k \in 1..Len(pairs)
        PROVE  (IF pairs[k] \in FramePairs THEN <<>> ELSE <<pairs[k]>>) \in Seq(U)
    <3>1. pairs[k] \in U
      BY <2>1
    <3> QED BY <3>1
  <2> QED BY <2>1, <2>2
<1> HIDE DEF ss
<1>5. FlattenSeq(ss) \in Seq(U)
  BY <1>4, FlattenOf
<1> QED BY <1>3, <1>5, ListOf

(***************************************************************************)
(* The inductive invariant of a memory surface: what is bound matches, what *)
(* is recorded covers it, and stack accesses that are bound rise.          *)
(***************************************************************************)
\* Neighbours are apart, the lower one first.
Rising(ops) == \A i \in 1..(Len(ops) - 1) : Apart(ops[i], ops[i + 1])

OperandsAreCollected == \A side \in Sides : operands[side] \in Seq(AccessesOf(side, accessPair[side]))

\* Slots are counted from the start, and two sides with as many accesses.
SlotsAreCounted ==
    /\ bound \in 0..Len(operands["guest"])
    /\ accessStage \in {"collect", "reorder"} => bound = 0
    /\ accessStage \in {"reorder", "bind"} \/ bound > 0 => Len(operands["guest"]) = Len(operands["host"])

\* Accesses that are bound are in order of place, unless that does not matter.
PlacesRise ==
    accessStage = "bind" \/ bound > 0 =>
        \/ Len(operands["guest"]) = 1
        \/ \E side \in Sides : ~AllStackBased(side, operands[side])
        \/ \A side \in Sides : Rising(operands[side])

SlotsMatch ==
    \A i \in 1..bound :
        /\ Matched(accessPair, operands["guest"][i], operands["host"][i])
        /\ skipDetail = "none" =>
             Range(PairsFor(accessPair, operands["guest"][i], operands["host"][i])) \subseteq Range(accessInputs)

\* The inductive invariant.
SlotInv ==
    /\ accessPair \in MemoryPairs
    /\ accessStage \in {"collect", "reorder", "bind", "done"}
    /\ skipDetail # "none" => accessStage = "done" /\ accessInputs = <<>>
    /\ IsList(accessInputs)
    /\ OperandsAreCollected
    /\ SlotsAreCounted
    /\ PlacesRise
    /\ SlotsMatch

LEMMA PairWindows ==
    ASSUME NEW p \in MemoryPairs, NEW side \in Sides
    PROVE  IsAccessWindow(p[side])
BY AccessesAreTyped DEF Sides

LEMMA OperandsOf ==
    ASSUME SlotInv, NEW side \in Sides
    PROVE  /\ Len(operands[side]) \in Nat /\ DOMAIN operands[side] = 1..Len(operands[side])
           /\ \A i \in 1..Len(operands[side]) : operands[side][i] \in AccessesOf(side, accessPair[side])
<1>1. operands[side] \in Seq(AccessesOf(side, accessPair[side]))
  BY DEF SlotInv, OperandsAreCollected
<1> QED BY <1>1

\* The same accesses in another order.
LEMMA SortedOf ==
    ASSUME NEW side, NEW window, IsAccessWindow(window), NEW ops \in Seq(AccessesOf(side, window))
    PROVE  ByDisplacement(ops) \in Seq(AccessesOf(side, window)) /\ Len(ByDisplacement(ops)) = Len(ops)
<1> DEFINE S == AccessesOf(side, window)
           n == Len(ops)
           sorted == ByDisplacement(ops)
<1>1. n \in Nat /\ DOMAIN ops = 1..n /\ \A i \in 1..n : ops[i] \in S
  OBVIOUS
<1>2. \A i \in 1..n : ops[i].disp \in Int
  BY <1>1, AccessFacts
<1> HIDE DEF n, S
<1>3. \A k \in 1..n : \E i \in 1..n : sorted[k] = ops[i]
  BY <1>1, <1>2, SortedAreEntries
<1>4. sorted = [k \in 1..n |-> sorted[k]]
  <2>1. sorted = [k \in DOMAIN ops |-> sorted[k]]
    BY DEF ByDisplacement
  <2> HIDE DEF sorted
  <2> QED BY <1>1, <2>1
<1> HIDE DEF sorted
<1>5. \A k \in 1..n : sorted[k] \in S
  BY <1>1, <1>3
<1>6. sorted \in Seq(S) /\ Len(sorted) = n
  <2>1. sorted \in [1..n -> S]
    BY <1>4, <1>5
  <2> QED BY <1>1, <2>1
<1> QED BY <1>6 DEF sorted, S, n

LEMMA SlotInvInit == MemorySurfaceInit => SlotInv
<1> SUFFICES ASSUME MemorySurfaceInit PROVE SlotInv
  OBVIOUS
<1>1. /\ accessPair \in MemoryPairs /\ accessStage = "collect" /\ operands = [side \in Sides |-> <<>>]
      /\ bound = 0 /\ accessInputs = <<>> /\ skipDetail = "none"
  BY DEF MemorySurfaceInit
<1>2. \A side \in Sides : operands[side] = <<>>
  BY <1>1
<1>3. OperandsAreCollected
  <2>1. \A S : <<>> \in Seq(S)
    OBVIOUS
  <2>2. \A side \in Sides : operands[side] \in Seq(AccessesOf(side, accessPair[side]))
    BY <1>2, <2>1
  <2> QED BY <2>2, Zenon DEF OperandsAreCollected
<1>4. IsList(accessInputs)
  <2>1. accessInputs \in Seq({})
    BY <1>1
  <2> QED BY <2>1, ListOf
<1>5. SlotsAreCounted
  BY <1>1, <1>2 DEF SlotsAreCounted, Sides
<1>6. PlacesRise /\ SlotsMatch
  BY <1>1 DEF PlacesRise, SlotsMatch
<1> QED BY <1>1, <1>3, <1>4, <1>5, <1>6 DEF SlotInv

\* Nothing is bound yet: what is left to show is that the accesses are there.
LEMMA NothingBound ==
    ASSUME SlotInv, accessStage \in {"collect", "reorder"}, bound' = bound, accessPair' = accessPair,
           OperandsAreCollected',
           \/ \E detail : detail # "none" /\ SkipAccesses(detail)
           \/ GoOn("done")
           \/ GoOn("reorder") /\ Len(operands'["guest"]) = Len(operands'["host"])
           \/ GoOn("bind") /\ Len(operands'["guest"]) = Len(operands'["host"]) /\ PlacesRise'
    PROVE  SlotInv'
<1>0. bound = 0 /\ bound' = 0 /\ skipDetail = "none"
  BY DEF SlotInv, SlotsAreCounted
<1>1. operands'["guest"] \in Seq(AccessesOf("guest", accessPair'["guest"]))
  BY DEF OperandsAreCollected, Sides
<1>2. Len(operands'["guest"]) \in Nat
  BY <1>1
<1>3. accessPair' \in MemoryPairs
  BY DEF SlotInv
<1>4. SlotsMatch'
  BY <1>0 DEF SlotsMatch
<1>5. /\ accessStage' \in {"done", "reorder", "bind"}
      /\ skipDetail' # "none" => accessStage' = "done" /\ accessInputs' = <<>>
      /\ IsList(accessInputs')
      /\ accessStage' \in {"reorder", "bind"} => Len(operands'["guest"]) = Len(operands'["host"])
      /\ accessStage' = "bind" => PlacesRise'
  <2>1. ASSUME NEW detail, detail # "none", SkipAccesses(detail)
        PROVE  accessStage' = "done" /\ skipDetail' # "none" /\ accessInputs' = <<>>
    BY <2>1 DEF SkipAccesses
  <2>2. ASSUME NEW stage, GoOn(stage)
        PROVE  accessStage' = stage /\ skipDetail' = skipDetail /\ accessInputs' = accessInputs
    BY <2>2 DEF GoOn
  <2>3. CASE \E detail : detail # "none" /\ SkipAccesses(detail)
    BY <2>1, <2>3, EmptyIsList
  <2>4. CASE GoOn("done")
    BY <2>2, <2>4 DEF SlotInv
  <2>6. CASE GoOn("reorder") /\ Len(operands'["guest"]) = Len(operands'["host"])
    BY <1>0, <2>2, <2>6 DEF SlotInv
  <2>7. CASE GoOn("bind") /\ Len(operands'["guest"]) = Len(operands'["host"]) /\ PlacesRise'
    BY <1>0, <2>2, <2>7 DEF SlotInv
  <2> QED BY <2>3, <2>4, <2>6, <2>7
<1>6. SlotsAreCounted'
  BY <1>0, <1>2, <1>5 DEF SlotsAreCounted
<1>7. PlacesRise'
  BY <1>0, <1>5 DEF PlacesRise
<1> QED BY <1>3, <1>4, <1>5, <1>6, <1>7 DEF SlotInv

LEMMA SlotInvCollect == SlotInv /\ CollectAndScreen => SlotInv'
<1> SUFFICES ASSUME SlotInv, CollectAndScreen PROVE SlotInv'
  OBVIOUS
<1> DEFINE ops == [side \in Sides |-> Collect(side, accessPair[side])]
<1>1. /\ accessStage = "collect" /\ operands' = ops
      /\ IF \E side \in Sides : HasUnparsed(accessPair[side], ops[side])
         THEN SkipAccesses("unparsed_memory_access")
         ELSE IF \A side \in Sides : ops[side] = <<>> THEN GoOn("done")
         ELSE IF \E side \in Sides : ops[side] = <<>> THEN SkipAccesses("one_sided_memory_access")
         ELSE IF Len(ops["guest"]) # Len(ops["host"]) THEN SkipAccesses("memory_access_count_mismatch")
         ELSE GoOn("reorder")
  BY Zenon DEF CollectAndScreen
<1>2. accessPair \in MemoryPairs
  BY DEF SlotInv
<1>3. \A side \in Sides : ops[side] \in Seq(AccessesOf(side, accessPair[side]))
  BY <1>2, PairWindows, CollectedOf
<1> HIDE DEF ops
<1>4. \/ \E detail : detail # "none" /\ SkipAccesses(detail)
      \/ GoOn("done")
      \/ GoOn("reorder") /\ Len(operands'["guest"]) = Len(operands'["host"])
  BY <1>1
<1>5. accessPair' = accessPair /\ bound' = bound
  BY <1>4 DEF SkipAccesses, GoOn
<1>6. OperandsAreCollected'
  BY <1>1, <1>3, <1>5 DEF OperandsAreCollected
<1> QED BY <1>1, <1>4, <1>5, <1>6, NothingBound

LEMMA SlotInvReorder == SlotInv /\ Reorder => SlotInv'
<1> SUFFICES ASSUME SlotInv, Reorder PROVE SlotInv'
  OBVIOUS
<1> DEFINE sorted == [side \in Sides |-> ByDisplacement(operands[side])]
<1>1. accessStage = "reorder" /\ Len(operands["guest"]) = Len(operands["host"])
  BY DEF Reorder, SlotInv, SlotsAreCounted
<1>2. \A side \in Sides : operands[side] \in Seq(AccessesOf(side, accessPair[side]))
  BY DEF SlotInv, OperandsAreCollected
<1>3. \A side \in Sides : /\ sorted[side] \in Seq(AccessesOf(side, accessPair[side]))
                          /\ Len(sorted[side]) = Len(operands[side])
  <2>1. accessPair \in MemoryPairs
    BY DEF SlotInv
  <2> QED BY <1>2, <2>1, PairWindows, SortedOf
<1>4. CASE /\ Len(operands["guest"]) = 1 \/ (\E side \in Sides : ~AllStackBased(side, operands[side]))
           /\ GoOn("bind") /\ operands' = operands
  <2>1. accessPair' = accessPair /\ bound' = bound
    BY <1>4 DEF GoOn
  <2>2. OperandsAreCollected'
    BY <1>2, <1>4, <2>1 DEF OperandsAreCollected
  <2>3. PlacesRise'
    BY <1>4 DEF PlacesRise
  <2> QED BY <1>1, <1>4, <2>1, <2>2, <2>3, NothingBound
<1>5. CASE SkipAccesses("memory_address_order_conflict") /\ operands' = operands
  <2>1. accessPair' = accessPair /\ bound' = bound
    BY <1>5 DEF SkipAccesses
  <2>2. OperandsAreCollected'
    BY <1>2, <1>5, <2>1 DEF OperandsAreCollected
  <2>3. \E detail : detail # "none" /\ SkipAccesses(detail)
    BY <1>5
  <2> QED BY <1>1, <2>1, <2>2, <2>3, NothingBound
<1>6. CASE /\ \A side \in Sides : CanReorder(operands[side])
           /\ GoOn("bind") /\ operands' = sorted
  <2>1. accessPair' = accessPair /\ bound' = bound
    BY <1>6 DEF GoOn
  <2>2. ASSUME NEW side \in Sides PROVE Rising(sorted[side])
    <3>1. \A i \in 1..(Len(operands[side]) - 1) : Apart(sorted[side][i], sorted[side][i + 1])
      BY <1>6 DEF CanReorder
    <3> HIDE DEF sorted
    <3> QED BY <1>3, <3>1 DEF Rising
  <2> HIDE DEF sorted
  <2>3. OperandsAreCollected'
    BY <1>3, <1>6, <2>1 DEF OperandsAreCollected
  <2>4. PlacesRise'
    BY <1>6, <2>2 DEF PlacesRise
  <2>5. Len(operands'["guest"]) = Len(operands'["host"])
    BY <1>1, <1>3, <1>6 DEF Sides
  <2> QED BY <1>1, <1>6, <2>1, <2>3, <2>4, <2>5, NothingBound
<1> QED BY <1>4, <1>5, <1>6, Zenon DEF Reorder

LEMMA SlotInvBind == SlotInv /\ BindNext => SlotInv'
<1> SUFFICES ASSUME SlotInv, BindNext PROVE SlotInv'
  OBVIOUS
<1> DEFINE g == operands["guest"][bound + 1]
           h == operands["host"][bound + 1]
<1>1. /\ accessStage = "bind" /\ bound < Len(operands["guest"]) /\ operands' = operands
      /\ \/ Mismatch(g, h) # "none" /\ SkipAccesses(Mismatch(g, h))
         \/ /\ Mismatch(g, h) = "none"
            /\ accessInputs' = accessInputs \o AddressPairs(g, h) \o ValuePairs(g, h)
            /\ bound' = bound + 1
            /\ accessPair' = accessPair /\ accessStage' = accessStage /\ skipDetail' = skipDetail
  BY Zenon DEF BindNext
<1>2. /\ bound \in 0..Len(operands["guest"]) /\ Len(operands["guest"]) = Len(operands["host"])
      /\ Len(operands["guest"]) \in Nat /\ skipDetail = "none"
  BY <1>1, OperandsOf DEF SlotInv, SlotsAreCounted, Sides
<1>3. accessPair \in MemoryPairs /\ IsList(accessInputs)
  BY DEF SlotInv
<1>4. PlacesRise /\ SlotsMatch /\ OperandsAreCollected
  BY DEF SlotInv
<1> HIDE DEF g, h
<1>5. CASE Mismatch(g, h) # "none" /\ SkipAccesses(Mismatch(g, h))
  <2>1. /\ accessStage' = "done" /\ skipDetail' # "none" /\ accessInputs' = <<>>
        /\ accessPair' = accessPair /\ bound' = bound
    BY <1>5 DEF SkipAccesses
  <2>2. OperandsAreCollected'
    BY <1>1, <1>4, <2>1 DEF OperandsAreCollected
  <2>3. SlotsAreCounted'
    BY <1>1, <1>2, <2>1 DEF SlotsAreCounted
  <2>4. PlacesRise'
    BY <1>1, <1>4, <2>1 DEF PlacesRise
  <2>5. SlotsMatch'
    BY <1>1, <1>4, <2>1 DEF SlotsMatch
  <2> QED BY <1>3, <2>1, <2>2, <2>3, <2>4, <2>5, EmptyIsList DEF SlotInv
<1>6. CASE /\ Mismatch(g, h) = "none"
           /\ accessInputs' = accessInputs \o AddressPairs(g, h) \o ValuePairs(g, h)
           /\ bound' = bound + 1
           /\ accessPair' = accessPair /\ accessStage' = accessStage /\ skipDetail' = skipDetail
  <2> DEFINE pairs == PairsFor(accessPair, g, h)
  <2>1. Matched(accessPair, g, h) /\ ValuePairs(g, h) = pairs
    BY <1>6, MatchedIfNoMismatch
  <2>2. g \in AccessesOf("guest", accessPair["guest"]) /\ h \in AccessesOf("host", accessPair["host"])
    <3>1. bound + 1 \in 1..Len(operands["guest"]) /\ bound + 1 \in 1..Len(operands["host"])
      BY <1>1, <1>2
    <3> QED BY <3>1, OperandsOf DEF g, h, Sides
  <2>3. IsList(pairs)
    <3>1. IsAccessWindow(accessPair["guest"]) /\ IsAccessWindow(accessPair["host"])
      BY <1>3, PairWindows DEF Sides
    <3> QED BY <2>1, <2>2, <3>1, PairsAreInputs
  <2> HIDE DEF pairs
  <2>4. /\ IsList(accessInputs') /\ Range(pairs) \subseteq Range(accessInputs')
        /\ Range(accessInputs) \subseteq Range(accessInputs')
    <3> DEFINE front == accessInputs \o AddressPairs(g, h)
    <3>1. IsList(front) /\ Range(front) = Range(accessInputs) \cup Range(AddressPairs(g, h))
      BY <1>3, AddressPairsAreList, ListsJoin
    <3>2. accessInputs' = front \o pairs
      BY <1>6, <2>1
    <3> HIDE DEF front
    <3>3. IsList(front \o pairs) /\ Range(front \o pairs) = Range(front) \cup Range(pairs)
      BY <2>3, <3>1, ListsJoin
    <3> QED BY <3>1, <3>2, <3>3
  <2>5. OperandsAreCollected'
    BY <1>1, <1>4, <1>6 DEF OperandsAreCollected
  <2>6. SlotsAreCounted'
    BY <1>1, <1>2, <1>6 DEF SlotsAreCounted
  <2>7. PlacesRise'
    BY <1>1, <1>4, <1>6 DEF PlacesRise
  <2>8. ASSUME NEW i \in 1..bound'
        PROVE  /\ Matched(accessPair, operands["guest"][i], operands["host"][i])
               /\ Range(PairsFor(accessPair, operands["guest"][i], operands["host"][i])) \subseteq Range(accessInputs')
    <3>1. i \in 1..bound \/ i = bound + 1
      BY <1>2, <1>6
    <3>2. CASE i \in 1..bound
      BY <1>2, <1>4, <2>4, <3>2 DEF SlotsMatch
    <3>3. CASE i = bound + 1
      BY <2>1, <2>4, <3>3 DEF g, h, pairs
    <3> QED BY <3>1, <3>2, <3>3
  <2>9. SlotsMatch'
    BY <1>1, <1>6, <2>8 DEF SlotsMatch
  <2> QED BY <1>1, <1>2, <1>3, <1>6, <2>4, <2>5, <2>6, <2>7, <2>9 DEF SlotInv
<1> QED BY <1>1, <1>5, <1>6

\* A step that only goes on leaves the slots as they were.
LEMMA SlotInvStays ==
    ASSUME SlotInv, accessPair' = accessPair, operands' = operands, bound' = bound,
           accessInputs' = accessInputs, skipDetail' = skipDetail,
           accessStage' = accessStage \/ (accessStage = "bind" /\ accessStage' = "done")
    PROVE  SlotInv'
<1>1. SlotsAreCounted' /\ PlacesRise' /\ SlotsMatch' /\ OperandsAreCollected'
  BY DEF SlotInv, SlotsAreCounted, PlacesRise, SlotsMatch, OperandsAreCollected
<1> QED BY <1>1 DEF SlotInv

LEMMA SlotInvStep == SlotInv /\ [MemorySurfaceNext]_memorySurfaceVars => SlotInv'
<1> SUFFICES ASSUME SlotInv, [MemorySurfaceNext]_memorySurfaceVars PROVE SlotInv'
  OBVIOUS
<1>1. CASE CollectAndScreen
  BY <1>1, SlotInvCollect
<1>2. CASE Reorder
  BY <1>2, SlotInvReorder
<1>3. CASE BindNext
  BY <1>3, SlotInvBind
<1>4. CASE Finish
  BY <1>4, SlotInvStays DEF Finish, GoOn
<1>5. CASE MemorySurfaceDone \/ UNCHANGED memorySurfaceVars
  <2>1. /\ accessPair' = accessPair /\ operands' = operands /\ bound' = bound
        /\ accessInputs' = accessInputs /\ skipDetail' = skipDetail /\ accessStage' = accessStage
    BY <1>5 DEF MemorySurfaceDone, memorySurfaceVars
  <2> QED BY <2>1, SlotInvStays
<1> QED BY <1>1, <1>2, <1>3, <1>4, <1>5 DEF MemorySurfaceNext

\* A recorded pair of registers is what flows into the two values stored.
LEMMA SourcesFollow == SlotInv => SourcesAreTheInputs
<1> SUFFICES ASSUME SlotInv, NEW i \in 1..bound
             PROVE  LET pairs == ValuePairs(operands["guest"][i], operands["host"][i])
                    IN  /\ skipDetail = "none" => Range(pairs) \subseteq Range(accessInputs)
                        /\ \A side \in Sides :
                            LET op == operands[side][i]
                                n == IF side = "guest" THEN 1 ELSE 2
                            IN  op.kind = "write" /\ Len(accessPair[side]) <= MaxDepth + 1 =>
                                  {pairs[k][n] : k \in DOMAIN pairs} = Inflow(accessPair[side])[op.at][op.value]
  BY DEF SourcesAreTheInputs
<1> DEFINE g == operands["guest"][i]
           h == operands["host"][i]
           pairs == ValuePairs(g, h)
<1>1. /\ Matched(accessPair, g, h)
      /\ skipDetail = "none" => Range(PairsFor(accessPair, g, h)) \subseteq Range(accessInputs)
  BY DEF SlotInv, SlotsMatch
<1>2. pairs = PairsFor(accessPair, g, h)
  BY Zenon DEF ValuePairs, PairsFor
<1>3. g \in AccessesOf("guest", accessPair["guest"]) /\ h \in AccessesOf("host", accessPair["host"])
  <2>1. i \in 1..Len(operands["guest"]) /\ i \in 1..Len(operands["host"])
    <3>1. bound \in 0..Len(operands["guest"]) /\ Len(operands["guest"]) = Len(operands["host"])
      BY DEF SlotInv, SlotsAreCounted
    <3> QED BY <3>1
  <2> QED BY <2>1, OperandsOf DEF Sides
<1>4. IsAccessWindow(accessPair["guest"]) /\ IsAccessWindow(accessPair["host"])
  BY PairWindows DEF SlotInv, Sides
<1> HIDE DEF g, h, pairs
<1>5. /\ g.kind = "write" /\ Len(accessPair["guest"]) <= MaxDepth + 1 =>
            Firsts(pairs) = Inflow(accessPair["guest"])[g.at][g.value]
      /\ h.kind = "write" /\ Len(accessPair["host"]) <= MaxDepth + 1 =>
            Seconds(pairs) = Inflow(accessPair["host"])[h.at][h.value]
  BY <1>1, <1>2, <1>3, <1>4, PairsAreInputs
<1>6. ASSUME NEW side \in Sides
      PROVE  LET op == operands[side][i]
                 n == IF side = "guest" THEN 1 ELSE 2
             IN  op.kind = "write" /\ Len(accessPair[side]) <= MaxDepth + 1 =>
                   {pairs[k][n] : k \in DOMAIN pairs} = Inflow(accessPair[side])[op.at][op.value]
  <2>1. CASE side = "guest"
    BY <1>5, <2>1 DEF Firsts, g
  <2>2. CASE side = "host"
    BY <1>5, <2>2 DEF Seconds, h
  <2> QED BY <2>1, <2>2 DEF Sides
<1>7. skipDetail = "none" => Range(pairs) \subseteq Range(accessInputs)
  BY <1>1, <1>2
<1> QED BY <1>6, <1>7 DEF pairs, g, h

\* Neighbours that are apart put everything apart.
LEMMA RisingFar ==
    ASSUME NEW n \in Nat, NEW ops, Len(ops) = n, Rising(ops),
           \A i \in 1..n : ops[i].disp \in Int /\ ops[i].width \in Nat,
           NEW i \in 1..n, NEW j \in 1..n, i < j
    PROVE  Apart(ops[i], ops[j])
<1> DEFINE P == {k \in (i + 1)..n : ops[i].disp + ops[i].width <= ops[k].disp}
<1>1. \A k \in 1..(n - 1) : ops[k].disp + ops[k].width <= ops[k + 1].disp
  BY DEF Rising, Apart
<1>2. i + 1 \in P
  <2>1. i \in 1..(n - 1) /\ i + 1 \in (i + 1)..n
    OBVIOUS
  <2> QED BY <1>1, <2>1
<1>3. ASSUME NEW k \in (i + 1)..(n - 1), k \in P PROVE k + 1 \in P
  <2>1. k \in 1..(n - 1) /\ k + 1 \in (i + 1)..n /\ k \in 1..n /\ k + 1 \in 1..n
    OBVIOUS
  <2>2. ops[k].disp + ops[k].width <= ops[k + 1].disp
    BY <1>1, <2>1
  <2>3. /\ ops[i].disp \in Int /\ ops[i].width \in Nat /\ ops[k].disp \in Int /\ ops[k].width \in Nat
        /\ ops[k + 1].disp \in Int /\ ops[i].disp + ops[i].width <= ops[k].disp
    BY <1>3, <2>1
  <2>4. ops[i].disp + ops[i].width <= ops[k + 1].disp
    <3>1. PICK a \in Int, b \in Nat, c \in Int, d \in Nat, e \in Int :
            a = ops[i].disp /\ b = ops[i].width /\ c = ops[k].disp /\ d = ops[k].width /\ e = ops[k + 1].disp
      BY <2>3
    <3>2. a + b <= c /\ c + d <= e
      BY <2>2, <2>3, <3>1
    <3>3. a + b <= e
      BY <3>2
    <3> QED BY <3>1, <3>3
  <2> QED BY <2>1, <2>4
<1>4. j \in P
  <2> HIDE DEF P
  <2>1. i + 1 \in Int /\ n \in Int /\ j \in (i + 1)..n
    OBVIOUS
  <2>2. \A k \in (i + 1)..n : k \in P
    BY <1>2, <1>3, <2>1, InductionBetween
  <2> QED BY <2>1, <2>2
<1> QED BY <1>4 DEF Apart

LEMMA SlotsInOrder == SlotInv => StackSlotsInOrder
<1> SUFFICES ASSUME SlotInv, NEW side \in Sides, NEW i \in 1..bound, NEW j \in 1..bound,
                    \A s \in Sides : AllStackBased(s, operands[s]), i < j,
                    Len(accessPair[side][operands[side][i].at].operands) = 1,
                    Len(accessPair[side][operands[side][j].at].operands) = 1
             PROVE  StackOffset(side, operands[side][i]) + operands[side][i].width
                      <= StackOffset(side, operands[side][j])
  BY DEF StackSlotsInOrder
<1> DEFINE ops == operands[side]
           window == accessPair[side]
           n == Len(ops)
<1>1. /\ n \in Nat /\ DOMAIN ops = 1..n
      /\ \A k \in 1..n : ops[k] \in AccessesOf(side, window)
  BY OperandsOf
<1>2. bound \in 0..n /\ n = Len(operands["guest"])
  <2>1. bound > 0 /\ bound \in 0..Len(operands["guest"])
    BY DEF SlotInv, SlotsAreCounted
  <2>2. Len(operands["guest"]) = Len(operands["host"])
    BY <2>1 DEF SlotInv, SlotsAreCounted
  <2> QED BY <2>1, <2>2 DEF Sides
<1>3. i \in 1..n /\ j \in 1..n /\ n # 1 /\ bound > 0
  BY <1>1, <1>2
<1>4. Rising(ops)
  BY <1>2, <1>3 DEF SlotInv, PlacesRise
<1>5. IsAccessWindow(window)
  BY PairWindows DEF SlotInv
<1>6. ops[i].base = StackPointer[side] /\ ops[j].base = StackPointer[side]
  BY <1>1, <1>3 DEF AllStackBased
<1> HIDE DEF n, window
<1>7. \A k \in 1..n : ops[k].disp \in Int /\ ops[k].width \in Nat
  BY <1>1, <1>5, AccessFacts
<1>8. Apart(ops[i], ops[j])
  <2> HIDE DEF ops
  <2>1. Len(ops) = n
    BY DEF n
  <2> QED BY <1>1, <1>3, <1>4, <1>7, <2>1, RisingFar
<1>9. ASSUME NEW a \in AccessesOf(side, window), a.base = StackPointer[side], Len(window[a.at].operands) = 1
      PROVE  a.disp = StackOffset(side, a)
  <2>1. a.disp = StackPointerAt(window)[a.at] + window[a.at].operands[1].disp
    BY <1>5, <1>9, AccessFacts
  <2> QED BY <2>1 DEF StackOffset, window
<1>10. ops[i].disp = StackOffset(side, ops[i]) /\ ops[j].disp = StackOffset(side, ops[j])
  BY <1>1, <1>3, <1>6, <1>9 DEF window
<1> QED BY <1>8, <1>10 DEF Apart

LEMMA SlotsRightly == SlotInv => SlotsPairRightly
<1> SUFFICES ASSUME SlotInv PROVE SlotsPairRightly
  OBVIOUS
<1>1. MemorySurfaceTypeOK
  BY DEF SlotInv, SlotsAreCounted, MemorySurfaceTypeOK
<1> QED BY <1>1, SourcesFollow, SlotsInOrder DEF SlotsPairRightly

(***************************************************************************)
(* For every pair of windows whose accesses are typed and every depth of   *)
(* the search: stack accesses are paired by place, and the registers       *)
(* paired for a store are the inputs that its value depends on.            *)
(***************************************************************************)
THEOREM SlotsRight == MemorySurfaceSpec => []SlotsPairRightly
<1>1. MemorySurfaceSpec => []SlotInv
  BY SlotInvInit, SlotInvStep, PTL DEF MemorySurfaceSpec
<1> QED BY <1>1, SlotsRightly, PTL

(***************************************************************************)
(* Inference.  Merging pairs is a fold, whose steps form a chain.          *)
(***************************************************************************)
MergeStep(S, all) ==
    [p \in Seq(S) \X DOMAIN all |-> IF Contains(p[1], all[p[2]]) THEN p[1] ELSE Append(p[1], all[p[2]])]

LEMMA MergeIsChain ==
    ASSUME NEW S, NEW left \in Seq(S), NEW right \in Seq(S)
    PROVE  \E f \in Chain(Seq(S), <<>>, MergeStep(S, left \o right), Len(left \o right)) :
               Merge(left, right) = f[Len(left \o right)]
<1> DEFINE all == left \o right
           n == Len(all)
           X == Seq(S)
           step == MergeStep(S, all)
           op(acc, e) == IF Contains(acc, e) THEN acc ELSE Append(acc, e)
           equation(h) == [s \in SUBSET (1..n) |->
                IF s = {} THEN <<>> ELSE op(h[s \ {Max(s)}], all[Max(s)])]
           fold == CHOOSE h : h = equation(h)
<1>1. all \in Seq(S) /\ n \in Nat /\ DOMAIN all = 1..n /\ <<>> \in X /\ \A i \in 1..n : all[i] \in S
  <2>1. all \in Seq(S)
    OBVIOUS
  <2> HIDE DEF all
  <2> QED BY <2>1
<1>2. Merge(left, right) = fold[1..n]
  <2>1. Merge(left, right) = FoldLeft(LAMBDA acc, p : IF Contains(acc, p) THEN acc ELSE Append(acc, p), <<>>, all)
    BY DEF Merge
  <2> HIDE DEF all
  <2> QED BY <1>1, <2>1 DEF FoldLeft, MapThenFoldSet
<1> HIDE DEF all
<1>3. step \in [X \X (1..n) -> X]
        /\ \A x \in X, i \in 1..n : step[<<x, i>>] = op(x, all[i])
  BY <1>1 DEF MergeStep
<1> HIDE DEF step, X, n, op
<1>4. \E h : h = equation(h)
  <2>1. PICK g : g \in FoldOf(X, <<>>, step, n)
    BY <1>1, <1>3, FoldExists
  <2>2. g \in [SUBSET (1..n) -> X]
        /\ \A s \in SUBSET (1..n) : g[s] = IF s = {} THEN <<>> ELSE step[<<g[s \ {Max(s)}], Max(s)>>]
    BY <2>1 DEF FoldOf
  <2>3. ASSUME NEW s \in SUBSET (1..n) PROVE g[s] = equation(g)[s]
    <3>1. CASE s = {}
      BY <2>2, <3>1
    <3>2. CASE s # {}
      <4>1. s \in SUBSET (0..n)
        OBVIOUS
      <4>2. Max(s) \in 1..n
        BY <1>1, <3>2, <4>1, MaxIsGreatest
      <4>3. g[s \ {Max(s)}] \in X
        BY <2>2
      <4>4. g[s] = step[<<g[s \ {Max(s)}], Max(s)>>]
        BY <2>2, <3>2
      <4>5. g[s] = op(g[s \ {Max(s)}], all[Max(s)])
        BY <1>3, <4>2, <4>3, <4>4
      <4> QED BY <3>2, <4>5
    <3> QED BY <3>1, <3>2
  <2>4. g = equation(g)
    <3> DEFINE e == equation(g)
    <3>1. e = [s \in SUBSET (1..n) |-> e[s]]
      OBVIOUS
    <3> HIDE DEF e
    <3> QED BY <2>2, <2>3, <3>1 DEF e
  <2> QED BY <2>4
<1>5. fold = equation(fold)
  <2> HIDE DEF equation
  <2> QED BY <1>4
<1> HIDE DEF fold
<1>6. PICK f : f \in Chain(X, <<>>, step, n)
  BY <1>1, <1>3, RecursionUp
<1>7. \A i \in 1..n : f[i - 1] \in X /\ f[i] = step[<<f[i - 1], i>>]
  BY <1>1, <1>6 DEF Chain
<1>8. fold[{}] = <<>>
  BY <1>5
<1>9. ASSUME NEW i \in 1..n, fold[1..(i - 1)] = f[i - 1] PROVE fold[1..i] = f[i]
  <2>1. /\ 1..i \in SUBSET (1..n) /\ 1..i # {} /\ Max(1..i) = i /\ (1..i) \ {i} = 1..(i - 1)
    BY <1>1, LastOfPrefix
  <2>2. fold[1..i] = op(fold[(1..i) \ {Max(1..i)}], all[Max(1..i)])
    BY <1>5, <2>1
  <2>3. fold[1..i] = op(f[i - 1], all[i])
    BY <1>9, <2>1, <2>2
  <2> QED BY <1>3, <1>7, <2>3
<1>10. fold[1..n] = f[n]
  BY <1>1, <1>6, <1>8, <1>9, FoldEndsAsChain
<1> QED BY <1>2, <1>6, <1>10 DEF X, step, n, all

\* So a merge has the pairs of both sides, each once.
LEMMA MergeIsUnion ==
    ASSUME NEW S, NEW left \in Seq(S), NEW right \in Seq(S)
    PROVE  /\ Range(Merge(left, right)) = Range(left) \cup Range(right)
           /\ IsInjective(Merge(left, right))
<1> DEFINE all == left \o right
           n == Len(all)
           step == MergeStep(S, all)
<1>1. PICK f \in Chain(Seq(S), <<>>, step, n) : Merge(left, right) = f[n]
  BY MergeIsChain
<1>2. /\ Range(all) = Range(left) \cup Range(right) /\ all \in Seq(S)
  <2>1. all \in Seq(S) /\ Len(all) = Len(left) + Len(right) /\ Len(left) \in Nat /\ Len(right) \in Nat
        /\ \A i \in 1..Len(all) : all[i] = IF i <= Len(left) THEN left[i] ELSE right[i - Len(left)]
    OBVIOUS
  <2>2. /\ \A i \in 1..Len(left) : i \in 1..Len(all) /\ all[i] = left[i]
        /\ \A i \in 1..Len(right) : i + Len(left) \in 1..Len(all) /\ all[i + Len(left)] = right[i]
    <3> HIDE DEF all
    <3>1. ASSUME NEW i \in 1..Len(right) PROVE i + Len(left) \in 1..Len(all) /\ ~(i + Len(left) <= Len(left))
                                               /\ (i + Len(left)) - Len(left) = i
      BY <2>1
    <3> QED BY <2>1, <3>1
  <2>3. \A i \in 1..Len(all) : \/ i \in 1..Len(left) /\ all[i] = left[i]
                               \/ i - Len(left) \in 1..Len(right) /\ all[i] = right[i - Len(left)]
    <3> HIDE DEF all
    <3> QED BY <2>1
  <2>4. DOMAIN all = 1..Len(all) /\ DOMAIN left = 1..Len(left) /\ DOMAIN right = 1..Len(right)
    BY <2>1
  <2> HIDE DEF all
  <2>5. \A x \in Range(all) : x \in Range(left) \cup Range(right)
    BY <2>3, <2>4 DEF Range
  <2>6. \A x \in Range(left) : x \in Range(all)
    BY <2>2, <2>4 DEF Range
  <2>7. \A x \in Range(right) : x \in Range(all)
    BY <2>2, <2>4 DEF Range
  <2> QED BY <2>1, <2>5, <2>6, <2>7
<1> HIDE DEF all
<1>3. /\ n \in Nat /\ DOMAIN all = 1..n /\ f \in [0..n -> Seq(S)] /\ f[0] = <<>>
      /\ \A i \in 1..n : all[i] \in S /\ i - 1 \in 0..n
      /\ \A i \in 1..n : f[i] = IF Contains(f[i - 1], all[i]) THEN f[i - 1] ELSE Append(f[i - 1], all[i])
  <2>1. /\ n \in Nat /\ DOMAIN all = 1..n /\ \A i \in 1..n : all[i] \in S /\ i - 1 \in 0..n
    BY <1>2
  <2>2. f \in [0..n -> Seq(S)] /\ f[0] = <<>> /\ \A i \in 1..n : f[i] = step[<<f[i - 1], i>>]
    BY DEF Chain
  <2> HIDE DEF n
  <2>3. \A i \in 1..n : f[i - 1] \in Seq(S)
    BY <2>1, <2>2
  <2>4. \A i \in 1..n : step[<<f[i - 1], i>>] = IF Contains(f[i - 1], all[i]) THEN f[i - 1] ELSE Append(f[i - 1], all[i])
    BY <2>1, <2>3 DEF MergeStep
  <2> HIDE DEF step
  <2> QED BY <2>1, <2>2, <2>4
<1> HIDE DEF n, step
<1> DEFINE P == {i \in 0..n : Range(f[i]) = {all[j] : j \in 1..i} /\ IsInjective(f[i])}
<1>4. 0 \in P
  <2>1. 1..0 = {} /\ DOMAIN <<>> = {}
    OBVIOUS
  <2> QED BY <1>3, <2>1 DEF Range, IsInjective
<1>5. ASSUME NEW i \in 0..(n - 1), i \in P PROVE i + 1 \in P
  <2> DEFINE e == all[i + 1]
             acc == f[i]
  <2>1. i + 1 \in 1..n /\ (i + 1) - 1 = i /\ i \in 0..n /\ i + 1 \in 0..n /\ 1..(i + 1) = (1..i) \cup {i + 1}
    <3>1. n \in Nat /\ i \in 0..(n - 1)
      BY <1>3
    <3>2. i + 1 \in 1..n /\ (i + 1) - 1 = i /\ i \in 0..n /\ i + 1 \in 0..n
      BY <3>1
    <3>3. 1..(i + 1) = (1..i) \cup {i + 1}
      BY <3>1
    <3> QED BY <3>2, <3>3
  <2>2. acc \in Seq(S) /\ Range(acc) = {all[j] : j \in 1..i} /\ IsInjective(acc)
    <3>1. f[i] \in Seq(S)
      BY <1>3, <2>1
    <3>2. Range(f[i]) = {all[j] : j \in 1..i} /\ IsInjective(f[i])
      BY <1>5
    <3> QED BY <3>1, <3>2
  <2>3. f[i + 1] = IF Contains(acc, e) THEN acc ELSE Append(acc, e)
    BY <1>3, <2>1
  <2>4. {all[j] : j \in 1..(i + 1)} = Range(acc) \cup {e}
    BY <2>1, <2>2
  <2> HIDE DEF e, acc
  <2>5. Contains(acc, e) <=> e \in Range(acc)
    BY <2>2 DEF Contains, Range
  <2>6. CASE Contains(acc, e)
    <3>1. Range(acc) \cup {e} = Range(acc)
      BY <2>5, <2>6
    <3> QED BY <2>1, <2>2, <2>3, <2>4, <2>6, <3>1
  <2>7. CASE ~Contains(acc, e)
    <3> DEFINE more == Append(acc, e)
    <3>1. /\ DOMAIN acc = 1..Len(acc) /\ Len(acc) \in Nat /\ DOMAIN more = 1..(Len(acc) + 1)
          /\ more[Len(acc) + 1] = e /\ \A j \in 1..Len(acc) : more[j] = acc[j]
      BY <2>2
    <3> HIDE DEF more
    <3>2. \A j \in DOMAIN more : j \in DOMAIN acc \/ j = Len(acc) + 1
      BY <3>1
    <3>3. \A j \in DOMAIN acc : j \in DOMAIN more /\ more[j] = acc[j]
      BY <3>1
    <3>4. Len(acc) + 1 \in DOMAIN more
      BY <3>1
    <3>5. Range(more) = Range(acc) \cup {e}
      BY <3>1, <3>2, <3>3, <3>4 DEF Range
    <3>6. IsInjective(more)
      <4> SUFFICES ASSUME NEW a \in DOMAIN more, NEW b \in DOMAIN more, more[a] = more[b] PROVE a = b
        BY DEF IsInjective
      <4>1. \A j \in DOMAIN acc : acc[j] # e
        BY <2>5, <2>7 DEF Range
      <4> QED BY <2>2, <3>1, <3>2, <3>3, <4>1 DEF IsInjective
    <3> QED BY <2>1, <2>3, <2>4, <2>7, <3>5, <3>6 DEF more
  <2> QED BY <2>6, <2>7
<1>6. n \in P
  <2> HIDE DEF P
  <2>1. 0 \in Int /\ n \in Int /\ n \in 0..n
    BY <1>3
  <2>2. \A i \in 0..n : i \in P
    BY <1>4, <1>5, <2>1, InductionBetween
  <2> QED BY <2>1, <2>2
<1>7. {all[j] : j \in 1..n} = Range(all)
  BY <1>3 DEF Range
<1> QED BY <1>1, <1>2, <1>6, <1>7

(***************************************************************************)
(* The inductive invariant: what was recorded when, what a candidate is    *)
(* made of, and that nothing goes past the check of the fixed roles with   *)
(* a read that is not covered.                                             *)
(***************************************************************************)
Labels == {"control_flow", "fixed_roles", "memory", "surfaces", "solve", "build", "done"}

Screened == \A side \in Side : \A n \in DOMAIN pair[side] : ~UnboundAt(pair[side], n)

BindingTypes ==
    /\ memory.slots \in Nat /\ memory.inputs \in Seq(Range(memory.inputs))
    /\ bindings.inputs \in Seq(Range(bindings.inputs)) /\ bindings.outputs \in Seq(Range(bindings.outputs))

\* The surfaces that go to the solver, and the kind that comes back.
SurfacesVerifiable ==
    pc = "solve" =>
        \A side \in Side :
            /\ surfaces[side].kind \in {"register", "branch"}
            /\ surfaces[side].outputs \in Seq(Range(surfaces[side].outputs))
            /\ surfaces[side].outputs = <<>> => surfaces[side].kind = "branch"

KindComparable ==
    /\ surfaceKind \in {"none", "memory", "register", "branch"}
    /\ pc \in {"control_flow", "fixed_roles", "memory", "surfaces", "solve"} =>
          surfaceKind = "none" /\ bindings = NoBindings
    /\ pc = "build" => surfaceKind # "none"
    /\ surfaceKind = "memory" => memory.slots > 0 /\ bindings = NoBindings
    /\ surfaceKind = "register" => bindings.outputs # <<>>

Built ==
    [inputs |-> Merge(bindings.inputs, memory.inputs), outputs |-> bindings.outputs, slots |-> memory.slots]

CandidateEmitted ==
    /\ candidate = {Built} /\ surfaceKind # "none" /\ Screened
    /\ recorded \in {<<EmittedKind>>, <<"fallback", EmittedKind>>}

Skipped == candidate = {} /\ \E reason : reason \notin Emissions \cup {"fallback"} /\ recorded = <<reason>>

Verdicts ==
    /\ pc \in {"control_flow", "fixed_roles", "memory", "surfaces", "solve"} => recorded = <<>> /\ candidate = {}
    /\ pc = "build" => recorded \in {<<>>, <<"fallback">>} /\ candidate = {}
    /\ pc \in {"memory", "surfaces", "solve", "build"} => Screened
    /\ pc = "done" => CandidateEmitted \/ Skipped

InferenceInv ==
    pc \in Labels /\ BindingTypes /\ SurfacesVerifiable /\ KindComparable /\ Verdicts

LEMMA InferenceInvStarts == InferenceInit => InferenceInv
<1> SUFFICES ASSUME InferenceInit PROVE InferenceInv
  OBVIOUS
<1>1. <<>> \in Seq(Range(<<>>))
  OBVIOUS
<1> QED BY <1>1 DEF InferenceInit, InferenceInv, Labels, BindingTypes, SurfacesVerifiable, KindComparable, Verdicts,
               NoMemory, NoBindings

LEMMA SkipKeeps ==
    ASSUME InferenceInv, pc # "done", pc # "build", NEW reason, Skip(reason), reason \notin Emissions \cup {"fallback"}
    PROVE  InferenceInv'
<1>1. recorded' = <<reason>> /\ candidate' = {} /\ pc' = "done"
  <2>1. recorded = <<>> /\ candidate = {}
    BY DEF InferenceInv, Labels, Verdicts
  <2>2. Append(<<>>, reason) = <<reason>>
    OBVIOUS
  <2> QED BY <2>1, <2>2 DEF Skip
<1>2. /\ pair' = pair /\ memory' = memory /\ surfaces' = surfaces /\ bindings' = bindings /\ surfaceKind' = surfaceKind
  BY DEF Skip
<1>3. Skipped'
  BY <1>1 DEF Skipped
<1>4. Verdicts'
  BY <1>1, <1>3 DEF Verdicts
<1>5. pc' \in Labels /\ SurfacesVerifiable'
  BY <1>1 DEF Labels, SurfacesVerifiable
<1>6. BindingTypes'
  BY <1>2 DEF InferenceInv, BindingTypes
<1>7. KindComparable'
  BY <1>1, <1>2 DEF InferenceInv, KindComparable
<1> QED BY <1>4, <1>5, <1>6, <1>7 DEF InferenceInv

LEMMA GoKeeps ==
    ASSUME InferenceInv, pc \in {"control_flow", "fixed_roles"}, NEW label \in {"fixed_roles", "memory"}, Go(label),
           label = "memory" => Screened
    PROVE  InferenceInv'
<1>1. /\ pc' = label /\ pair' = pair /\ memory' = memory /\ surfaces' = surfaces /\ bindings' = bindings
      /\ surfaceKind' = surfaceKind /\ recorded' = recorded /\ candidate' = candidate
  BY DEF Go
<1>2. Screened' <=> Screened
  BY <1>1 DEF Screened, UnboundAt
<1>3. Verdicts'
  BY <1>1, <1>2 DEF InferenceInv, Verdicts
<1>4. pc' \in Labels /\ SurfacesVerifiable'
  BY <1>1 DEF Labels, SurfacesVerifiable
<1>5. BindingTypes'
  BY <1>1 DEF InferenceInv, BindingTypes
<1>6. KindComparable'
  BY <1>1 DEF InferenceInv, KindComparable
<1> QED BY <1>3, <1>4, <1>5, <1>6 DEF InferenceInv

LEMMA InferMemoryKeeps == InferenceInv /\ InferMemory => InferenceInv'
<1> SUFFICES ASSUME InferenceInv, InferMemory PROVE InferenceInv'
  OBVIOUS
<1>1. PICK m \in MemoryAnswers :
        IF m.skip # "none" THEN Skip(m.skip)
        ELSE memory' = m /\ pc' = "surfaces" /\ UNCHANGED <<pair, surfaces, bindings, surfaceKind, recorded, candidate>>
  BY DEF InferMemory
<1>2. CASE m.skip # "none"
  BY <1>1, <1>2, SkipKeeps, AnswersAreTyped DEF InferMemory
<1>3. CASE m.skip = "none"
  <2>1. /\ pc = "memory" /\ pc' = "surfaces" /\ memory' = m /\ pair' = pair /\ surfaces' = surfaces /\ bindings' = bindings
        /\ surfaceKind' = surfaceKind /\ recorded' = recorded /\ candidate' = candidate
    BY <1>1, <1>3 DEF InferMemory
  <2>2. Screened' <=> Screened
    BY <2>1 DEF Screened, UnboundAt
  <2>3. Verdicts'
    BY <2>1, <2>2 DEF InferenceInv, Verdicts
  <2>4. pc' \in Labels /\ SurfacesVerifiable'
    BY <2>1 DEF Labels, SurfacesVerifiable
  <2>5. BindingTypes'
    BY <2>1, AnswersAreTyped DEF InferenceInv, BindingTypes
  <2>6. KindComparable'
    BY <2>1 DEF InferenceInv, KindComparable
  <2> QED BY <2>3, <2>4, <2>5, <2>6 DEF InferenceInv
<1> QED BY <1>2, <1>3

LEMMA InferSurfacesKeeps == InferenceInv /\ InferSurfaces => InferenceInv'
<1> SUFFICES ASSUME InferenceInv, InferSurfaces PROVE InferenceInv'
  OBVIOUS
<1>1. PICK s \in [Side -> SurfaceAnswers] :
        IF memory.slots > 0 /\ \A side \in Side : s[side].skip = "no_verifiable_surface"
        THEN /\ surfaceKind' = "memory"
             /\ pc' = "build"
             /\ UNCHANGED <<pair, memory, surfaces, bindings, recorded, candidate>>
        ELSE IF s["guest"].skip # "none" THEN Skip(s["guest"].skip)
        ELSE IF s["host"].skip # "none" THEN Skip(s["host"].skip)
        ELSE /\ surfaces' = s
             /\ pc' = "solve"
             /\ UNCHANGED <<pair, memory, bindings, surfaceKind, recorded, candidate>>
  BY DEF InferSurfaces
<1>2. pc = "surfaces" /\ \A side \in Side : s[side] \in SurfaceAnswers
  BY DEF InferSurfaces
<1>3. CASE memory.slots > 0 /\ \A side \in Side : s[side].skip = "no_verifiable_surface"
  <2>1. /\ pc' = "build" /\ surfaceKind' = "memory" /\ memory.slots > 0
        /\ pair' = pair /\ memory' = memory /\ surfaces' = surfaces /\ bindings' = bindings
        /\ recorded' = recorded /\ candidate' = candidate
    BY <1>1, <1>3
  <2>2. Screened' <=> Screened
    BY <2>1 DEF Screened, UnboundAt
  <2>3. Verdicts'
    BY <1>2, <2>1, <2>2 DEF InferenceInv, Verdicts
  <2>4. pc' \in Labels /\ SurfacesVerifiable'
    BY <2>1 DEF Labels, SurfacesVerifiable
  <2>5. BindingTypes'
    BY <2>1 DEF InferenceInv, BindingTypes
  <2>6. KindComparable'
    BY <1>2, <2>1 DEF InferenceInv, KindComparable
  <2> QED BY <2>3, <2>4, <2>5, <2>6 DEF InferenceInv
<1>4. CASE ~(memory.slots > 0 /\ \A side \in Side : s[side].skip = "no_verifiable_surface")
  <2>1. CASE s["guest"].skip # "none"
    BY <1>1, <1>2, <1>4, <2>1, SkipKeeps, AnswersAreTyped DEF Side
  <2>2. CASE s["guest"].skip = "none" /\ s["host"].skip # "none"
    BY <1>1, <1>2, <1>4, <2>2, SkipKeeps, AnswersAreTyped DEF Side
  <2>3. CASE s["guest"].skip = "none" /\ s["host"].skip = "none"
    <3>1. /\ pc' = "solve" /\ surfaces' = s
          /\ pair' = pair /\ memory' = memory /\ bindings' = bindings /\ surfaceKind' = surfaceKind
          /\ recorded' = recorded /\ candidate' = candidate
      BY <1>1, <1>4, <2>3
    <3>2. Screened' <=> Screened
      BY <3>1 DEF Screened, UnboundAt
    <3>3. Verdicts'
      BY <1>2, <3>1, <3>2 DEF InferenceInv, Verdicts
    <3>4. \A side \in Side : s[side].skip = "none"
      BY <2>3 DEF Side
    <3>5. pc' \in Labels /\ SurfacesVerifiable'
      BY <1>2, <3>1, <3>4, AnswersAreTyped DEF Labels, SurfacesVerifiable
    <3>6. BindingTypes'
      BY <3>1 DEF InferenceInv, BindingTypes
    <3>7. KindComparable'
      BY <1>2, <3>1 DEF InferenceInv, KindComparable
    <3> QED BY <3>3, <3>5, <3>6, <3>7 DEF InferenceInv
  <2> QED BY <2>1, <2>2, <2>3
<1> QED BY <1>3, <1>4

LEMMA SolveKeeps == InferenceInv /\ Solve => InferenceInv'
<1> SUFFICES ASSUME InferenceInv, Solve PROVE InferenceInv'
  OBVIOUS
<1>1. PICK b \in SolverAnswers :
        IF b.skip # "none" THEN Skip(b.skip)
        ELSE /\ BindsOutputs(b)
             /\ surfaces["guest"].kind = surfaces["host"].kind
             /\ bindings' = b
             /\ surfaceKind' = surfaces["guest"].kind
             /\ recorded' = IF b.fallback THEN Append(recorded, "fallback") ELSE recorded
             /\ pc' = "build"
             /\ UNCHANGED <<pair, memory, surfaces, candidate>>
  BY DEF Solve
<1>2. pc = "solve" /\ recorded = <<>>
  BY DEF Solve, InferenceInv, Verdicts
<1>3. CASE b.skip # "none"
  BY <1>1, <1>2, <1>3, SkipKeeps, AnswersAreTyped
<1>4. CASE b.skip = "none"
  <2>1. /\ pc' = "build" /\ bindings' = b /\ surfaceKind' = surfaces["guest"].kind
        /\ recorded' \in {<<>>, <<"fallback">>} /\ BindsOutputs(b)
        /\ pair' = pair /\ memory' = memory /\ surfaces' = surfaces /\ candidate' = candidate
    BY <1>1, <1>2, <1>4
  <2>2. Screened' <=> Screened
    BY <2>1 DEF Screened, UnboundAt
  <2>3. Verdicts'
    BY <1>2, <2>1, <2>2 DEF InferenceInv, Verdicts
  <2>4. pc' \in Labels /\ SurfacesVerifiable'
    BY <2>1 DEF Labels, SurfacesVerifiable
  <2>5. BindingTypes'
    BY <2>1, AnswersAreTyped DEF InferenceInv, BindingTypes
  <2>6. KindComparable'
    <3> DEFINE o == surfaces["guest"].outputs
    <3>1. /\ surfaces["guest"].kind \in {"register", "branch"} /\ o \in Seq(Range(o))
          /\ o = <<>> => surfaces["guest"].kind = "branch"
      BY <1>2 DEF InferenceInv, SurfacesVerifiable, Side
    <3>2. b.outputs \in Seq(Range(b.outputs)) /\ Len(b.outputs) = Len(o)
      BY <2>1, AnswersAreTyped DEF BindsOutputs, Side
    <3>3. o # <<>> => b.outputs # <<>>
      BY <3>1, <3>2
    <3> QED BY <2>1, <3>1, <3>3 DEF KindComparable
  <2> QED BY <2>3, <2>4, <2>5, <2>6 DEF InferenceInv
<1> QED BY <1>3, <1>4

LEMMA BuildKeeps == InferenceInv /\ Build => InferenceInv'
<1> SUFFICES ASSUME InferenceInv, Build PROVE InferenceInv'
  OBVIOUS
<1>1. /\ pc = "build" /\ pc' = "done" /\ candidate' = {Built} /\ recorded' = Append(recorded, EmittedKind)
      /\ pair' = pair /\ memory' = memory /\ surfaces' = surfaces /\ bindings' = bindings /\ surfaceKind' = surfaceKind
  BY DEF Build, Built
<1>2. Screened' <=> Screened
  BY <1>1 DEF Screened, UnboundAt
<1>3. Built' = Built /\ EmittedKind' = EmittedKind
  BY <1>1 DEF Built, EmittedKind
<1>4. recorded' \in {<<EmittedKind>>, <<"fallback", EmittedKind>>}
  <2> DEFINE k == EmittedKind
  <2>1. recorded \in {<<>>, <<"fallback">>}
    BY <1>1 DEF InferenceInv, Verdicts
  <2> HIDE DEF k
  <2>2. Append(<<>>, k) = <<k>> /\ Append(<<"fallback">>, k) = <<"fallback", k>>
    <3> DEFINE S == {"fallback", k}
    <3>1. <<"fallback">> \in Seq(S) /\ k \in S /\ Append(<<"fallback">>, k) \in Seq(S) /\ <<"fallback", k>> \in Seq(S)
      OBVIOUS
    <3>2. Len(Append(<<"fallback">>, k)) = 2 /\ Append(<<"fallback">>, k)[1] = "fallback" /\ Append(<<"fallback">>, k)[2] = k
      BY <3>1
    <3>3. Len(<<"fallback", k>>) = 2 /\ <<"fallback", k>>[1] = "fallback" /\ <<"fallback", k>>[2] = k
      OBVIOUS
    <3> HIDE DEF S
    <3>4. \A i \in 1..2 : i = 1 \/ i = 2
      OBVIOUS
    <3>5. Append(<<"fallback">>, k) = <<"fallback", k>>
      BY <3>1, <3>2, <3>3, <3>4, SeqEqual
    <3> QED BY <3>5
  <2> QED BY <1>1, <2>1, <2>2 DEF k
<1>5. CandidateEmitted'
  BY <1>1, <1>2, <1>3, <1>4 DEF CandidateEmitted, InferenceInv, Verdicts, KindComparable
<1>6. Verdicts'
  BY <1>1, <1>5 DEF Verdicts
<1>7. pc' \in Labels /\ SurfacesVerifiable'
  BY <1>1 DEF Labels, SurfacesVerifiable
<1>8. BindingTypes'
  BY <1>1 DEF InferenceInv, BindingTypes
<1>9. KindComparable'
  BY <1>1 DEF InferenceInv, KindComparable
<1> QED BY <1>6, <1>7, <1>8, <1>9 DEF InferenceInv

LEMMA InferenceInvHolds == InferenceSpec => []InferenceInv
<1>1. InferenceInit => InferenceInv
  BY InferenceInvStarts
<1>2. InferenceInv /\ [InferenceNext]_inferenceVars => InferenceInv'
  <2> SUFFICES ASSUME InferenceInv, [InferenceNext]_inferenceVars PROVE InferenceInv'
    OBVIOUS
  <2>1. CASE CheckControlFlow
    BY <2>1, SkipKeeps, GoKeeps DEF CheckControlFlow, Emissions
  <2>2. CASE CheckFixedRoles
    <3>1. CASE Skip("unbound_fixed_role_register")
      BY <2>2, <3>1, SkipKeeps DEF CheckFixedRoles, Emissions
    <3>2. CASE Screened /\ Go("memory")
      BY <2>2, <3>2, GoKeeps DEF CheckFixedRoles
    <3> QED BY <2>2, <3>1, <3>2 DEF CheckFixedRoles, Screened
  <2>3. CASE UNCHANGED inferenceVars
    <3>1. /\ pair' = pair /\ memory' = memory /\ surfaces' = surfaces /\ bindings' = bindings
          /\ surfaceKind' = surfaceKind /\ recorded' = recorded /\ candidate' = candidate /\ pc' = pc
      BY <2>3 DEF inferenceVars
    <3>2. (Screened' <=> Screened) /\ Built' = Built /\ EmittedKind' = EmittedKind
      BY <3>1 DEF Screened, UnboundAt, Built, EmittedKind
    <3>3. BindingTypes' /\ SurfacesVerifiable'
      BY <3>1 DEF InferenceInv, BindingTypes, SurfacesVerifiable
    <3>4. KindComparable'
      BY <3>1 DEF InferenceInv, KindComparable
    <3>5. (CandidateEmitted => CandidateEmitted') /\ (Skipped => Skipped')
      BY <3>1, <3>2 DEF CandidateEmitted, Skipped
    <3>6. Verdicts'
      BY <3>1, <3>2, <3>5 DEF InferenceInv, Verdicts
    <3> QED BY <3>1, <3>3, <3>4, <3>6 DEF InferenceInv
  <2> QED BY <2>1, <2>2, <2>3, InferMemoryKeeps, InferSurfacesKeeps, SolveKeeps, BuildKeeps
          DEF InferenceNext, InferenceDone
<1> QED BY <1>1, <1>2, PTL DEF InferenceSpec

LEMMA ScreenedReads == InferenceInv => FixedRolesAreWritten
<1> SUFFICES ASSUME InferenceInv, candidate # {},
                    NEW side \in Side, NEW n \in DOMAIN pair[side],
                    NEW r \in Range(pair[side][n].reads) \cap FixedRole
             PROVE  r.bits \subseteq UNION {w.bits : w \in {v \in UNION {Range(pair[side][m].writes) : m \in 1..(n - 1)} :
                                                            v.family = r.family}}
  BY DEF FixedRolesAreWritten
<1>1. ~UnboundAt(pair[side], n)
  BY DEF InferenceInv, Verdicts, CandidateEmitted, Skipped, Screened, Labels
<1>2. PICK m \in 1..(n - 1) : \E w \in Range(pair[side][m].writes) : Covers(w, r)
  BY <1>1 DEF UnboundAt
<1>3. PICK w \in Range(pair[side][m].writes) : Covers(w, r)
  BY <1>2
<1>4. w \in UNION {Range(pair[side][k].writes) : k \in 1..(n - 1)}
  OBVIOUS
<1> QED BY <1>3, <1>4 DEF Covers

\* How a sequence of one or two verdicts ends, and what it has beside a fallback.
LEMMA OneOrTwoVerdicts ==
    ASSUME NEW r, r # "fallback", NEW s \in {<<r>>, <<"fallback", r>>}
    PROVE  /\ Len(s) > 0 /\ Last(s) = r
           /\ Cardinality({i \in DOMAIN s : s[i] # "fallback"}) = 1
<1>1. CASE s = <<r>>
  <2>1. Len(s) = 1 /\ s[1] = r /\ DOMAIN s = {1}
    BY <1>1
  <2>2. {i \in DOMAIN s : s[i] # "fallback"} = {1}
    BY <2>1
  <2> QED BY <2>1, <2>2, FS_Singleton DEF Last
<1>2. CASE s = <<"fallback", r>>
  <2>1. Len(s) = 2 /\ s[1] = "fallback" /\ s[2] = r /\ DOMAIN s = {1, 2}
    BY <1>2
  <2>2. {i \in DOMAIN s : s[i] # "fallback"} = {2}
    BY <2>1
  <2> QED BY <2>1, <2>2, FS_Singleton DEF Last
<1> QED BY <1>1, <1>2

LEMMA EmittedKindIsOne ==
    EmittedKind \in Emissions /\ EmittedKind # "fallback"
BY DEF EmittedKind, Emissions

LEMMA InferenceIsWhole == InferenceInv => CandidatesAreWhole
<1> SUFFICES ASSUME InferenceInv PROVE CandidatesAreWhole
  OBVIOUS
<1>1. OneVerdict
  <2>1. CASE pc = "done" /\ CandidateEmitted
    <3>1. /\ Len(recorded) > 0 /\ Last(recorded) = EmittedKind
          /\ Cardinality({i \in DOMAIN recorded : recorded[i] # "fallback"}) = 1
      BY <2>1, EmittedKindIsOne, OneOrTwoVerdicts DEF CandidateEmitted
    <3> QED BY <2>1, <3>1, EmittedKindIsOne DEF OneVerdict, CandidateEmitted
  <2>2. CASE pc = "done" /\ Skipped
    <3>1. PICK reason : reason \notin Emissions \cup {"fallback"} /\ recorded = <<reason>>
      BY <2>2 DEF Skipped
    <3>2. Last(recorded) = reason /\ Cardinality({i \in DOMAIN recorded : recorded[i] # "fallback"}) = 1
      BY <3>1, OneOrTwoVerdicts
    <3>3. ~Contains(recorded, "fallback")
      BY <3>1 DEF Contains
    <3> QED BY <2>2, <3>1, <3>2, <3>3 DEF OneVerdict, Skipped
  <2>3. CASE pc # "done"
    <3>1. candidate = {} /\ recorded \in {<<>>, <<"fallback">>}
      BY <2>3 DEF InferenceInv, Labels, Verdicts
    <3>2. Len(recorded) > 0 => Last(recorded) \notin Emissions
      BY <3>1 DEF Last, Emissions
    <3> QED BY <2>3, <3>1, <3>2 DEF OneVerdict
  <2> QED BY <2>1, <2>2, <2>3 DEF InferenceInv, Verdicts
<1>2. ASSUME candidate # {} PROVE CandidateEmitted
  BY <1>2 DEF InferenceInv, Labels, Verdicts, Skipped
<1>3. SomethingToCompare
  <2> SUFFICES ASSUME NEW c \in candidate
               PROVE  /\ c.outputs # <<>> \/ c.slots > 0 \/ Last(recorded) = "branch"
                      /\ Last(recorded) = "register" => c.outputs # <<>>
                      /\ Last(recorded) = "memory" => c.outputs = <<>> /\ c.slots > 0
    BY DEF SomethingToCompare
  <2>1. c.outputs = bindings.outputs /\ c.slots = memory.slots /\ CandidateEmitted
    BY <1>2 DEF CandidateEmitted, Built
  <2>2. Last(recorded) = EmittedKind
    BY <2>1, EmittedKindIsOne, OneOrTwoVerdicts DEF CandidateEmitted
  <2> QED BY <2>1, <2>2 DEF EmittedKind, CandidateEmitted, InferenceInv, KindComparable, NoBindings
<1>4. AllPairsOnce
  <2> SUFFICES ASSUME NEW c \in candidate
               PROVE  /\ Range(c.inputs) = Range(bindings.inputs) \cup Range(memory.inputs)
                      /\ IsInjective(c.inputs)
    BY DEF AllPairsOnce
  <2>1. c.inputs = Merge(bindings.inputs, memory.inputs)
    BY <1>2 DEF CandidateEmitted, Built
  <2> DEFINE S == Range(bindings.inputs) \cup Range(memory.inputs)
  <2>2. bindings.inputs \in Seq(Range(bindings.inputs)) /\ memory.inputs \in Seq(Range(memory.inputs))
    BY DEF InferenceInv, BindingTypes
  <2>3. bindings.inputs \in Seq(S) /\ memory.inputs \in Seq(S)
    <3>1. \A A, B : A \subseteq B => Seq(A) \subseteq Seq(B)
      OBVIOUS
    <3> QED BY <2>2, <3>1
  <2> HIDE DEF S
  <2> QED BY <2>1, <2>3, MergeIsUnion
<1> QED BY <1>1, <1>3, <1>4 DEF CandidatesAreWhole

(***************************************************************************)
(* For every pair of windows and every answer of what inference calls: a   *)
(* candidate never depends on the value a fixed-role register has when the *)
(* window is entered.                                                      *)
(***************************************************************************)
THEOREM FixedRolesWritten == InferenceSpec => []FixedRolesAreWritten
BY InferenceInvHolds, ScreenedReads, PTL

(***************************************************************************)
(* A pair of windows gets one verdict; a candidate has something to        *)
(* compare and every pair of inputs once.                                  *)
(***************************************************************************)
THEOREM CandidatesWhole == InferenceSpec => []CandidatesAreWhole
BY InferenceInvHolds, InferenceIsWhole, PTL
================================================================================
