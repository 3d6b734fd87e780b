----------------------------- MODULE DataInduction -----------------------------
(***************************************************************************)
(* Induction over data for the proofs about the components: numbers,       *)
(* finite sets, recursive functions and folds.  A statement is a set of    *)
(* numbers here, never an operator, so that a proof can cite these lemmas  *)
(* with a set comprehension for what it wants to show.                     *)
(***************************************************************************)
EXTENDS Integers, FiniteSets, FiniteSetsExt, RuleLists, TLAPS, WellFoundedInduction, FiniteSetTheorems,
        SequenceTheorems

LessThan == {pair \in Nat \X Nat : pair[1] < pair[2]}

LEMMA NaturalsAreWellFounded == IsWellFoundedOn(LessThan, Nat)
BY NatLessThanWellFounded DEF OpToRel, LessThan

\* A non-empty set of natural numbers has a least element.
LEMMA LeastElement ==
    ASSUME NEW T \in SUBSET Nat, T # {}
    PROVE  \E x \in T : \A y \in T : x <= y
<1>1. PICK x \in T : \A y \in T : <<y, x>> \notin LessThan
  BY NaturalsAreWellFounded, WFMin, Zenon
<1>2. \A y \in T : ~(y < x)
  BY <1>1 DEF LessThan
<1> QED BY <1>2

\* Induction, upward from 0 and between two bounds in either direction.
LEMMA InductionUp ==
    ASSUME NEW S, 0 \in S, \A n \in Nat : n \in S => n + 1 \in S
    PROVE  \A n \in Nat : n \in S
<1> SUFFICES ASSUME Nat \ S # {} PROVE FALSE
  OBVIOUS
<1>1. PICK x \in Nat \ S : \A y \in Nat \ S : x <= y
  BY LeastElement
<1>2. x # 0 /\ x - 1 \in Nat /\ x - 1 \notin Nat \ S
  BY <1>1
<1> QED BY <1>1, <1>2

LEMMA InductionBetween ==
    ASSUME NEW a \in Int, NEW b \in Int, NEW S,
           a \in S, \A n \in a..(b - 1) : n \in S => n + 1 \in S
    PROVE  \A n \in a..b : n \in S
<1> DEFINE P == {k \in Nat : a + k <= b => a + k \in S}
<1>1. 0 \in P
  OBVIOUS
<1>2. ASSUME NEW k \in Nat, k \in P PROVE k + 1 \in P
  <2>1. CASE a + (k + 1) <= b
    <3>1. a + k \in a..(b - 1) /\ a + k \in S /\ (a + k) + 1 = a + (k + 1)
      BY <1>2, <2>1
    <3> QED BY <3>1
  <2> QED BY <2>1
<1>3. \A k \in Nat : k \in P
  <2> HIDE DEF P
  <2> QED BY <1>1, <1>2, InductionUp
<1>4. \A n \in a..b : n - a \in Nat /\ a + (n - a) = n
  OBVIOUS
<1> QED BY <1>3, <1>4

LEMMA InductionDown ==
    ASSUME NEW a \in Int, NEW b \in Int, NEW S,
           b \in S, \A n \in (a + 1)..b : n \in S => n - 1 \in S
    PROVE  \A n \in a..b : n \in S
<1> DEFINE P == {k \in Nat : a <= b - k => b - k \in S}
<1>1. 0 \in P
  OBVIOUS
<1>2. ASSUME NEW k \in Nat, k \in P PROVE k + 1 \in P
  <2>1. CASE a <= b - (k + 1)
    <3>1. b - k \in (a + 1)..b /\ b - k \in S /\ (b - k) - 1 = b - (k + 1)
      BY <1>2, <2>1
    <3> QED BY <3>1
  <2> QED BY <2>1
<1>3. \A k \in Nat : k \in P
  <2> HIDE DEF P
  <2> QED BY <1>1, <1>2, InductionUp
<1>4. \A n \in a..b : b - n \in Nat /\ b - (b - n) = n
  OBVIOUS
<1> QED BY <1>3, <1>4

\* Min and Max are what they are called.
LEMMA MinIsLeast ==
    ASSUME NEW T \in SUBSET Nat, T # {}
    PROVE  Min(T) \in T /\ \A y \in T : Min(T) <= y
BY LeastElement DEF Min

LEMMA MaxIsGreatest ==
    ASSUME NEW n \in Nat, NEW T \in SUBSET (0..n), T # {}
    PROVE  Max(T) \in T /\ \A y \in T : y <= Max(T)
<1> DEFINE U == {n - y : y \in T}
<1>1. U \in SUBSET Nat /\ U # {}
  <2>1. \A y \in T : n - y \in Nat
    OBVIOUS
  <2> QED BY <2>1
<1>2. PICK u \in U : \A v \in U : u <= v
  <2> HIDE DEF U
  <2> QED BY <1>1, LeastElement
<1>3. PICK x \in T : u = n - x
  OBVIOUS
<1>4. \A y \in T : x >= y
  <2> TAKE y \in T
  <2>1. n - y \in U /\ x \in 0..n /\ y \in 0..n
    OBVIOUS
  <2>2. u <= n - y
    BY <1>2, <2>1
  <2> QED BY <1>3, <2>1, <2>2
<1>5. Max(T) \in T /\ \A y \in T : Max(T) >= y
  BY <1>3, <1>4 DEF Max
<1> QED BY <1>5

(***************************************************************************)
(* Functions defined by recursion exist: step[<<value, i>>] is the value   *)
(* after position i from the value before it.                              *)
(***************************************************************************)
Chain(X, base, step, n) ==
    {f \in [0..n -> X] : f[0] = base /\ \A i \in 1..n : f[i] = step[<<f[i - 1], i>>]}

LEMMA RecursionUp ==
    ASSUME NEW X, NEW base \in X, NEW n \in Nat, NEW step \in [X \X (1..n) -> X]
    PROVE  \E f : f \in Chain(X, base, step, n)
<1> DEFINE P == {k \in 0..n : \E f : f \in Chain(X, base, step, k)}
<1>1. 0 \in P
  <2>1. [i \in 0..0 |-> base] \in Chain(X, base, step, 0)
    BY DEF Chain
  <2> QED BY <2>1
<1>2. ASSUME NEW k \in 0..(n - 1), k \in P PROVE k + 1 \in P
  <2>1. PICK f : f \in Chain(X, base, step, k)
    BY <1>2
  <2> DEFINE g == [i \in 0..(k + 1) |-> IF i = k + 1 THEN step[<<f[k], k + 1>>] ELSE f[i]]
  <2>2. /\ k \in Nat /\ k + 1 \in 1..n /\ f \in [0..k -> X] /\ f[0] = base
        /\ \A i \in 1..k : f[i] = step[<<f[i - 1], i>>]
    BY <2>1 DEF Chain
  <2>3. g \in [0..(k + 1) -> X] /\ g[0] = base
    BY <2>2
  <2>4. ASSUME NEW i \in 1..(k + 1) PROVE g[i] = step[<<g[i - 1], i>>]
    <3>1. i - 1 \in 0..k /\ g[i - 1] = f[i - 1]
      BY <2>2
    <3>2. CASE i = k + 1
      <4>1. k \in 0..(k + 1) /\ k # k + 1 /\ k + 1 \in 0..(k + 1)
        BY <2>2
      <4>2. g[k] = f[k] /\ g[k + 1] = step[<<f[k], k + 1>>]
        BY <4>1
      <4> HIDE DEF g
      <4>3. g[k + 1] = step[<<g[k], k + 1>>]
        BY <4>2, Zenon
      <4>4. (k + 1) - 1 = k
        BY <2>2
      <4>5. i - 1 = k
        BY <3>2, <4>4, Zenon
      <4> QED BY <3>2, <4>3, <4>5, Zenon
    <3>3. CASE i # k + 1
      <4>1. i \in 1..k /\ g[i] = f[i]
        BY <2>2, <3>3
      <4> QED BY <2>2, <3>1, <4>1
    <3> QED BY <3>2, <3>3
  <2> HIDE DEF g
  <2>5. g \in Chain(X, base, step, k + 1)
    BY <2>3, <2>4 DEF Chain
  <2> QED BY <2>2, <2>5
<1>3. \A k \in 0..n : k \in P
  <2> HIDE DEF P
  <2> QED BY <1>1, <1>2, InductionBetween
<1> QED BY <1>3

(***************************************************************************)
(* A function of 1..n where the value at a position is computed from any   *)
(* of the values before it: value[<<table, i>>] reads table below i only.  *)
(***************************************************************************)
FromBefore(X, n) ==
    {value \in [[1..n -> X] \X (1..n) -> X] :
        \A t, u \in [1..n -> X] : \A i \in 1..n :
            (\A j \in 1..(i - 1) : t[j] = u[j]) => value[<<t, i>>] = value[<<u, i>>]}

Tables(X, n, value) == {t \in [1..n -> X] : \A i \in 1..n : t[i] = value[<<t, i>>]}

LEMMA CourseOfValues ==
    ASSUME NEW X, NEW some \in X, NEW n \in Nat, NEW value \in FromBefore(X, n)
    PROVE  \E t : t \in Tables(X, n, value)
<1> DEFINE Y == [1..n -> X]
           base == [i \in 1..n |-> some]
           step == [p \in Y \X (1..n) |-> [p[1] EXCEPT ![p[2]] = value[<<p[1], p[2]>>]]]
<1>0. value \in [Y \X (1..n) -> X]
      /\ \A t, u \in Y : \A i \in 1..n :
            (\A j \in 1..(i - 1) : t[j] = u[j]) => value[<<t, i>>] = value[<<u, i>>]
  BY DEF FromBefore
<1>1. base \in Y
  OBVIOUS
<1>2. step \in [Y \X (1..n) -> Y]
  <2>1. ASSUME NEW p \in Y \X (1..n) PROVE [p[1] EXCEPT ![p[2]] = value[<<p[1], p[2]>>]] \in Y
    <3>1. p[1] \in Y /\ p[2] \in 1..n
      OBVIOUS
    <3>2. value[<<p[1], p[2]>>] \in X
      BY <1>0, <3>1
    <3> QED BY <3>1, <3>2
  <2> QED BY <2>1
<1>3. PICK h : h \in Chain(Y, base, step, n)
  <2> HIDE DEF Y, base, step
  <2> QED BY <1>1, <1>2, RecursionUp
<1>4. h \in [0..n -> Y] /\ \A i \in 1..n : h[i] = step[<<h[i - 1], i>>]
  <2> HIDE DEF Y, base, step
  <2> QED BY <1>3 DEF Chain
<1>5. ASSUME NEW i \in 1..n
      PROVE  h[i - 1] \in Y /\ h[i] = [h[i - 1] EXCEPT ![i] = value[<<h[i - 1], i>>]]
  <2>1. i - 1 \in 0..n
    OBVIOUS
  <2>2. h[i - 1] \in Y
    BY <1>4, <2>1
  <2>3. step[<<h[i - 1], i>>] = [h[i - 1] EXCEPT ![i] = value[<<h[i - 1], i>>]]
    <3> HIDE DEF Y
    <3> QED BY <2>2
  <2> HIDE DEF Y, step
  <2> QED BY <1>4, <2>2, <2>3
<1> HIDE DEF step, base
<1>6. ASSUME NEW i \in 1..n PROVE h[i] \in Y /\ h[i][i] = value[<<h[i - 1], i>>]
  <2>1. h[i] \in Y
    BY <1>4
  <2> QED BY <1>5, <2>1
<1>7. ASSUME NEW i \in 1..n, NEW k \in 1..n, k # i PROVE h[k][i] = h[k - 1][i]
  BY <1>5, <1>7
<1>8. ASSUME NEW i \in 1..n PROVE \A k \in i..n : h[k][i] = h[i][i]
  <2> DEFINE P == {k \in i..n : h[k][i] = h[i][i]}
  <2>1. i \in P
    OBVIOUS
  <2>2. ASSUME NEW k \in i..(n - 1), k \in P PROVE k + 1 \in P
    <3>1. k + 1 \in 1..n /\ k + 1 # i /\ (k + 1) - 1 = k /\ k + 1 \in i..n
      OBVIOUS
    <3>2. h[k + 1][i] = h[(k + 1) - 1][i]
      BY <1>7, <3>1
    <3>3. (k + 1) - 1 = k
      OBVIOUS
    <3>4. h[k][i] = h[i][i]
      BY <2>2
    <3>5. h[k + 1][i] = h[i][i]
      BY <3>2, <3>3, <3>4, Zenon
    <3> QED BY <3>1, <3>5
  <2>3. \A k \in i..n : k \in P
    <3> HIDE DEF P
    <3>1. i \in Int /\ n \in Int
      OBVIOUS
    <3> QED BY <2>1, <2>2, <3>1, InductionBetween
  <2> QED BY <2>3
<1> DEFINE t == h[n]
<1>9. t \in Y
  <2>1. n \in 0..n
    OBVIOUS
  <2> QED BY <1>4, <2>1
<1>10. ASSUME NEW i \in 1..n PROVE t[i] = value[<<t, i>>]
  <2>1. t[i] = value[<<h[i - 1], i>>]
    <3>1. n \in i..n
      OBVIOUS
    <3>2. h[n][i] = h[i][i]
      BY <1>8, <3>1
    <3> QED BY <1>6, <3>2
  <2>2. \A j \in 1..(i - 1) : h[i - 1][j] = t[j]
    <3> TAKE j \in 1..(i - 1)
    <3>1. j \in 1..n /\ n \in j..n /\ i - 1 \in j..n
      OBVIOUS
    <3>2. h[n][j] = h[j][j] /\ h[i - 1][j] = h[j][j]
      BY <1>8, <3>1
    <3> QED BY <3>2
  <2>3. value[<<h[i - 1], i>>] = value[<<t, i>>]
    <3>1. h[i - 1] \in Y
      BY <1>5
    <3>2. \A a, b \in Y : (\A j \in 1..(i - 1) : a[j] = b[j]) => value[<<a, i>>] = value[<<b, i>>]
      BY <1>0
    <3> HIDE DEF t, Y
    <3> QED BY <1>9, <2>2, <3>1, <3>2, Zenon
  <2> QED BY <2>1, <2>3
<1> HIDE DEF t
<1> QED BY <1>9, <1>10 DEF Tables

\* The recursion over sets of positions that a fold over a sequence unfolds to:
\* it always takes the last position of the set.
FoldOf(X, base, step, n) ==
    {g \in [SUBSET (1..n) -> X] : \A s \in SUBSET (1..n) :
        g[s] = IF s = {} THEN base ELSE step[<<g[s \ {Max(s)}], Max(s)>>]}

LEMMA FoldExists ==
    ASSUME NEW X, NEW base \in X, NEW n \in Nat, NEW step \in [X \X (1..n) -> X]
    PROVE  \E g : g \in FoldOf(X, base, step, n)
<1> DEFINE P == {k \in 0..n : \E g : g \in FoldOf(X, base, step, k)}
<1>1. 0 \in P
  <2> DEFINE g == [s \in SUBSET (1..0) |-> base]
  <2>1. \A s \in SUBSET (1..0) : s = {}
    OBVIOUS
  <2>2. g \in [SUBSET (1..0) -> X] /\ \A s \in SUBSET (1..0) : g[s] = base
    OBVIOUS
  <2> HIDE DEF g
  <2>3. g \in FoldOf(X, base, step, 0)
    BY <2>1, <2>2 DEF FoldOf
  <2> QED BY <2>3
<1>2. ASSUME NEW k \in 0..(n - 1), k \in P PROVE k + 1 \in P
  <2>1. PICK f : f \in FoldOf(X, base, step, k)
    BY <1>2
  <2> DEFINE g == [s \in SUBSET (1..(k + 1)) |->
                     IF k + 1 \in s THEN step[<<f[s \ {k + 1}], k + 1>>] ELSE f[s]]
  <2>2. /\ k \in Nat /\ k + 1 \in 1..n /\ f \in [SUBSET (1..k) -> X]
        /\ \A s \in SUBSET (1..k) :
              f[s] = IF s = {} THEN base ELSE step[<<f[s \ {Max(s)}], Max(s)>>]
    BY <2>1 DEF FoldOf
  <2>3. ASSUME NEW s \in SUBSET (1..(k + 1)), k + 1 \in s
        PROVE  s \ {k + 1} \in SUBSET (1..k) /\ Max(s) = k + 1
    <3>1. s \in SUBSET (0..(k + 1)) /\ s # {} /\ k + 1 \in Nat
      BY <2>2, <2>3
    <3>2. Max(s) \in s /\ k + 1 <= Max(s)
      BY <2>3, <3>1, MaxIsGreatest
    <3>3. Max(s) \in 1..(k + 1)
      BY <3>2
    <3>4. Max(s) = k + 1
      BY <2>2, <3>2, <3>3
    <3> QED BY <3>4
  <2>4. ASSUME NEW s \in SUBSET (1..(k + 1)), k + 1 \notin s
        PROVE  s \in SUBSET (1..k)
    BY <2>4
  <2>5. g \in [SUBSET (1..(k + 1)) -> X]
    BY <2>2, <2>3, <2>4
  <2>6. ASSUME NEW s \in SUBSET (1..(k + 1))
        PROVE  g[s] = IF s = {} THEN base ELSE step[<<g[s \ {Max(s)}], Max(s)>>]
    <3>1. CASE k + 1 \in s
      <4>1. s \ {k + 1} \in SUBSET (1..(k + 1)) /\ k + 1 \notin s \ {k + 1}
        OBVIOUS
      <4>2. g[s \ {k + 1}] = f[s \ {k + 1}]
        BY <4>1
      <4>3. g[s] = step[<<f[s \ {k + 1}], k + 1>>] /\ s # {}
        BY <3>1
      <4> HIDE DEF g
      <4> QED BY <2>3, <3>1, <4>2, <4>3
    <3>2. CASE k + 1 \notin s
      <4>1. s \in SUBSET (1..k)
        BY <2>4, <3>2
      <4>2. s \ {Max(s)} \in SUBSET (1..(k + 1)) /\ k + 1 \notin s \ {Max(s)}
        BY <3>2
      <4>3. g[s] = f[s] /\ g[s \ {Max(s)}] = f[s \ {Max(s)}]
        BY <3>2, <4>2
      <4> HIDE DEF g
      <4> QED BY <2>2, <4>1, <4>3
    <3> QED BY <3>1, <3>2
  <2> HIDE DEF g
  <2>7. g \in FoldOf(X, base, step, k + 1)
    BY <2>5, <2>6 DEF FoldOf
  <2> QED BY <2>2, <2>7
<1>3. \A k \in 0..n : k \in P
  <2> HIDE DEF P
  <2> QED BY <1>1, <1>2, InductionBetween
<1> QED BY <1>3

\* The prefixes of the positions are taken apart at their last one.
LEMMA LastOfPrefix ==
    ASSUME NEW n \in Nat, NEW i \in 1..n
    PROVE  /\ 1..i \in SUBSET (1..n) /\ 1..i # {} /\ Max(1..i) = i
           /\ (1..i) \ {i} = 1..(i - 1) /\ i - 1 \in 0..n
<1>1. 1..i \in SUBSET (0..i) /\ i \in 1..i /\ i \in Nat
  OBVIOUS
<1>2. Max(1..i) \in 1..i /\ i <= Max(1..i)
  BY <1>1, MaxIsGreatest
<1>3. Max(1..i) = i
  BY <1>2
<1> QED BY <1>1, <1>3

\* A fold over a sequence, where h is what it unfolds to, ends as the chain of its steps.
LEMMA FoldEndsAsChain ==
    ASSUME NEW X, NEW base \in X, NEW n \in Nat, NEW step, NEW f \in Chain(X, base, step, n),
           NEW h, h[{}] = base,
           \A i \in 1..n : h[1..(i - 1)] = f[i - 1] => h[1..i] = f[i]
    PROVE  h[1..n] = f[n]
<1> DEFINE P == {i \in 0..n : h[1..i] = f[i]}
<1>1. 0 \in P
  <2>1. 1..0 = {} /\ f[0] = base
    BY DEF Chain
  <2> QED BY <2>1
<1>2. ASSUME NEW i \in 0..(n - 1), i \in P PROVE i + 1 \in P
  <2>1. i + 1 \in 1..n /\ (i + 1) - 1 = i /\ i + 1 \in 0..n
    OBVIOUS
  <2>2. h[1..(i + 1)] = f[i + 1]
    BY <1>2, <2>1
  <2> QED BY <2>1, <2>2
<1>3. n \in P
  <2> HIDE DEF P
  <2>1. 0 \in Int /\ n \in Int /\ n \in 0..n
    OBVIOUS
  <2>2. \A i \in 0..n : i \in P
    BY <1>1, <1>2, <2>1, InductionBetween
  <2> QED BY <2>1, <2>2
<1> QED BY <1>3

(***************************************************************************)
(* The rules that remain after consolidation: as many as were not          *)
(* subsumed, each once, in their order.                                    *)
(***************************************************************************)
RemainStep(S, rules, ids) ==
    [p \in Seq(S) \X DOMAIN rules |->
        IF rules[p[2]].id \in ids THEN p[1] ELSE Append(p[1], rules[p[2]])]

LEMMA RemainingIsChain ==
    ASSUME NEW S, NEW rules \in Seq(S), NEW ids
    PROVE  \E f \in Chain(Seq(S), <<>>, RemainStep(S, rules, ids), Len(rules)) :
               Remaining(rules, ids) = f[Len(rules)]
<1> DEFINE n == Len(rules)
           X == Seq(S)
           step == RemainStep(S, rules, ids)
           op(left, r) == IF r.id \in ids THEN left ELSE Append(left, r)
           equation(h) == [s \in SUBSET (1..n) |->
                IF s = {} THEN <<>> ELSE op(h[s \ {Max(s)}], rules[Max(s)])]
           fold == CHOOSE h : h = equation(h)
<1>1. n \in Nat /\ DOMAIN rules = 1..n /\ <<>> \in X /\ \A i \in 1..n : rules[i] \in S
  OBVIOUS
<1>2. Remaining(rules, ids) = fold[1..n]
  BY <1>1 DEF Remaining, FoldLeft, MapThenFoldSet
<1>3. step \in [X \X (1..n) -> X]
        /\ \A x \in X, i \in 1..n : step[<<x, i>>] = op(x, rules[i])
  BY <1>1 DEF RemainStep
<1> HIDE DEF step, X, n, op
<1>4. \E h : h = equation(h)
  <2>1. PICK g : g \in FoldOf(X, <<>>, step, n)
    BY <1>1, <1>3, FoldExists
  <2>2. g \in [SUBSET (1..n) -> X]
        /\ \A s \in SUBSET (1..n) : g[s] = IF s = {} THEN <<>> ELSE step[<<g[s \ {Max(s)}], Max(s)>>]
    BY <2>1 DEF FoldOf
  <2>3. ASSUME NEW s \in SUBSET (1..n) PROVE g[s] = equation(g)[s]
    <3>1. CASE s = {}
      BY <2>2, <3>1
    <3>2. CASE s # {}
      <4>1. s \in SUBSET (0..n)
        OBVIOUS
      <4>2. Max(s) \in 1..n
        BY <1>1, <3>2, <4>1, MaxIsGreatest
      <4>3. g[s \ {Max(s)}] \in X
        BY <2>2
      <4>4. g[s] = step[<<g[s \ {Max(s)}], Max(s)>>]
        BY <2>2, <3>2
      <4>5. g[s] = op(g[s \ {Max(s)}], rules[Max(s)])
        BY <1>3, <4>2, <4>3, <4>4
      <4> QED BY <3>2, <4>5
    <3> QED BY <3>1, <3>2
  <2>4. g = equation(g)
    <3> DEFINE e == equation(g)
    <3>1. e = [s \in SUBSET (1..n) |-> e[s]]
      OBVIOUS
    <3> HIDE DEF e
    <3> QED BY <2>2, <2>3, <3>1 DEF e
  <2> QED BY <2>4
<1>5. fold = equation(fold)
  <2> HIDE DEF equation
  <2> QED BY <1>4
<1> HIDE DEF fold
<1>6. PICK f : f \in Chain(X, <<>>, step, n)
  BY <1>1, <1>3, RecursionUp
<1>7. \A i \in 1..n : f[i - 1] \in X /\ f[i] = step[<<f[i - 1], i>>]
  BY <1>1, <1>6 DEF Chain
<1>8. fold[{}] = <<>>
  BY <1>5
<1>9. ASSUME NEW i \in 1..n, fold[1..(i - 1)] = f[i - 1] PROVE fold[1..i] = f[i]
  <2>1. /\ 1..i \in SUBSET (1..n) /\ 1..i # {} /\ Max(1..i) = i /\ (1..i) \ {i} = 1..(i - 1)
    BY <1>1, LastOfPrefix
  <2>2. fold[1..i] = op(fold[(1..i) \ {Max(1..i)}], rules[Max(1..i)])
    BY <1>5, <2>1
  <2>3. fold[1..i] = op(f[i - 1], rules[i])
    BY <1>9, <2>1, <2>2
  <2> QED BY <1>3, <1>7, <2>3
<1>10. fold[1..n] = f[n]
  BY <1>1, <1>6, <1>8, <1>9, FoldEndsAsChain
<1> QED BY <1>2, <1>6, <1>10 DEF X, step, n
\* What is left after the first i rules: the places the rules come from, in order.
LeftOf(rules, ids, i, left) ==
    /\ Len(left) = Cardinality({j \in 1..i : rules[j].id \notin ids})
    /\ \E place \in [1..Len(left) -> 1..i] :
        /\ \A k, m \in 1..Len(left) : k < m => place[k] < place[m]
        /\ \A k \in 1..Len(left) : left[k] = rules[place[k]] /\ rules[place[k]].id \notin ids
        /\ \A j \in 1..i : rules[j].id \notin ids => \E k \in 1..Len(left) : place[k] = j

LEMMA RemainingPlaces ==
    ASSUME NEW S, NEW rules \in Seq(S), NEW ids
    PROVE  /\ Remaining(rules, ids) \in Seq(S)
           /\ LeftOf(rules, ids, Len(rules), Remaining(rules, ids))
<1> DEFINE n == Len(rules)
           step == RemainStep(S, rules, ids)
<1>1. PICK f \in Chain(Seq(S), <<>>, step, n) : Remaining(rules, ids) = f[n]
  BY RemainingIsChain
<1>2. /\ n \in Nat /\ f \in [0..n -> Seq(S)] /\ f[0] = <<>>
      /\ \A i \in 1..n : rules[i] \in S /\ f[i - 1] \in Seq(S) /\ f[i] \in Seq(S)
      /\ \A i \in 1..n : f[i] = IF rules[i].id \in ids THEN f[i - 1] ELSE Append(f[i - 1], rules[i])
  <2>1. /\ n \in Nat /\ DOMAIN rules = 1..n /\ f \in [0..n -> Seq(S)] /\ f[0] = <<>>
        /\ \A i \in 1..n : f[i] = step[<<f[i - 1], i>>]
    BY DEF Chain
  <2> HIDE DEF n
  <2>2. \A i \in 1..n : rules[i] \in S /\ i \in 0..n /\ i - 1 \in 0..n
    BY <2>1
  <2>3. \A i \in 1..n : f[i - 1] \in Seq(S) /\ f[i] \in Seq(S)
    BY <2>1, <2>2
  <2>4. \A i \in 1..n : step[<<f[i - 1], i>>] = IF rules[i].id \in ids THEN f[i - 1] ELSE Append(f[i - 1], rules[i])
    BY <2>1, <2>3 DEF RemainStep
  <2> HIDE DEF step
  <2> QED BY <2>1, <2>2, <2>3, <2>4
<1> HIDE DEF n, step
<1> DEFINE P == {i \in 0..n : LeftOf(rules, ids, i, f[i])}
<1>3. 0 \in P
  <2>1. {j \in 1..0 : rules[j].id \notin ids} = {} /\ Cardinality({}) = 0 /\ Len(<<>>) = 0 /\ 1..0 = {}
    BY FS_EmptySet
  <2>2. [k \in {} |-> 0] \in [1..0 -> 1..0]
    OBVIOUS
  <2>3. LeftOf(rules, ids, 0, <<>>)
    BY <2>1, <2>2 DEF LeftOf
  <2> QED BY <1>2, <2>3
<1>4. ASSUME NEW i \in 0..(n - 1), i \in P PROVE i + 1 \in P
  <2> DEFINE left == f[i]
             m == Len(left)
             kept(k) == {j \in 1..k : rules[j].id \notin ids}
  <2>1. /\ i \in Nat /\ i + 1 \in 1..n /\ (i + 1) - 1 = i /\ i + 1 \in 0..n
        /\ 1..(i + 1) = (1..i) \cup {i + 1} /\ i + 1 \notin 1..i
    <3>1. i \in Nat /\ i + 1 \in 1..n /\ (i + 1) - 1 = i /\ i + 1 \in 0..n
      BY <1>2
    <3> QED BY <3>1
  <2>2. /\ left \in Seq(S) /\ m \in Nat /\ rules[i + 1] \in S
        /\ f[i + 1] = IF rules[i + 1].id \in ids THEN left ELSE Append(left, rules[i + 1])
    BY <1>2, <2>1
  <2>3. m = Cardinality(kept(i))
    BY <1>4 DEF LeftOf
  <2>4. PICK place \in [1..m -> 1..i] :
            /\ \A k, l \in 1..m : k < l => place[k] < place[l]
            /\ \A k \in 1..m : left[k] = rules[place[k]] /\ rules[place[k]].id \notin ids
            /\ \A j \in 1..i : rules[j].id \notin ids => \E k \in 1..m : place[k] = j
    BY <1>4 DEF LeftOf
  <2> HIDE DEF left, m
  <2>5. CASE rules[i + 1].id \in ids
    <3>1. kept(i + 1) = kept(i) /\ f[i + 1] = left
      BY <2>1, <2>2, <2>5
    <3>2. place \in [1..m -> 1..(i + 1)]
      BY <2>1
    <3>3. \A j \in 1..(i + 1) : rules[j].id \notin ids => \E k \in 1..m : place[k] = j
      BY <2>1, <2>4, <2>5
    <3>4. LeftOf(rules, ids, i + 1, left)
      BY <2>3, <2>4, <3>1, <3>2, <3>3 DEF LeftOf, m
    <3> QED BY <2>1, <3>1, <3>4
  <2>6. CASE rules[i + 1].id \notin ids
    <3> DEFINE more == Append(left, rules[i + 1])
               place2 == [k \in 1..(m + 1) |-> IF k = m + 1 THEN i + 1 ELSE place[k]]
    <3>1. /\ more \in Seq(S) /\ Len(more) = m + 1 /\ more[m + 1] = rules[i + 1]
          /\ \A k \in 1..m : more[k] = left[k]
      BY <2>2 DEF m
    <3>2. /\ \A k \in 1..(m + 1) : k \in 1..m \/ k = m + 1
          /\ \A k \in 1..m : k \in 1..(m + 1) /\ k # m + 1
          /\ m + 1 \in 1..(m + 1)
      BY <2>2
    <3>3. place2[m + 1] = i + 1 /\ \A k \in 1..m : place2[k] = place[k]
      BY <3>2
    <3>4. place2 \in [1..(m + 1) -> 1..(i + 1)]
      BY <2>1, <3>2
    <3> HIDE DEF place2, more
    <3>5. Len(more) = Cardinality(kept(i + 1))
      <4>1. kept(i + 1) = kept(i) \cup {i + 1} /\ i + 1 \notin kept(i)
        BY <2>1, <2>6
      <4>2. IsFiniteSet(kept(i))
        <5>1. kept(i) \in SUBSET (1..i) /\ IsFiniteSet(1..i)
          <6>1. 1 \in Int /\ i \in Int
            BY <2>1
          <6> QED BY <6>1, FS_Interval
        <5> QED BY <5>1, FS_Subset
      <4> HIDE DEF kept
      <4>3. Cardinality(kept(i) \cup {i + 1}) = Cardinality(kept(i)) + 1
        BY <4>1, <4>2, FS_AddElement
      <4> QED BY <2>3, <3>1, <4>1, <4>3
    <3>6. ASSUME NEW k \in 1..(m + 1), NEW l \in 1..(m + 1), k < l PROVE place2[k] < place2[l]
      <4>1. k \in 1..m
        BY <2>2, <3>6
      <4>2. CASE l \in 1..m
        BY <2>4, <3>3, <3>6, <4>1, <4>2
      <4>3. CASE l = m + 1
        <5>1. place[k] \in 1..i
          BY <4>1
        <5> QED BY <2>1, <3>3, <4>1, <4>3, <5>1
      <4> QED BY <3>2, <4>2, <4>3
    <3>7. ASSUME NEW k \in 1..(m + 1)
          PROVE  more[k] = rules[place2[k]] /\ rules[place2[k]].id \notin ids
      BY <2>4, <2>6, <3>1, <3>2, <3>3
    <3>8. ASSUME NEW j \in 1..(i + 1), rules[j].id \notin ids
          PROVE  \E k \in 1..(m + 1) : place2[k] = j
      <4>1. CASE j = i + 1
        BY <3>2, <3>3, <4>1
      <4>2. CASE j \in 1..i
        <5>1. PICK k \in 1..m : place[k] = j
          BY <2>4, <3>8, <4>2
        <5> QED BY <3>2, <3>3, <5>1
      <4> QED BY <2>1, <4>1, <4>2
    <3>9. LeftOf(rules, ids, i + 1, more)
      <4>1. 1..(m + 1) = 1..Len(more)
        BY <3>1
      <4>2. /\ place2 \in [1..Len(more) -> 1..(i + 1)]
            /\ \A k, l \in 1..Len(more) : k < l => place2[k] < place2[l]
            /\ \A k \in 1..Len(more) : more[k] = rules[place2[k]] /\ rules[place2[k]].id \notin ids
            /\ \A j \in 1..(i + 1) : rules[j].id \notin ids => \E k \in 1..Len(more) : place2[k] = j
        BY <3>4, <3>6, <3>7, <3>8, <4>1
      <4> QED BY <3>5, <4>2 DEF LeftOf
    <3>10. f[i + 1] = more
      BY <2>2, <2>6 DEF more
    <3> QED BY <2>1, <3>9, <3>10
  <2> QED BY <2>5, <2>6
<1>5. n \in P
  <2> HIDE DEF P
  <2>1. 0 \in Int /\ n \in Int /\ n \in 0..n
    BY <1>2
  <2>2. \A i \in 0..n : i \in P
    BY <1>3, <1>4, <2>1, InductionBetween
  <2> QED BY <2>1, <2>2
<1>6. f[n] \in Seq(S)
  BY <1>2
<1> QED BY <1>1, <1>5, <1>6 DEF n

\* Where a rule's id is its place, as many go as there are ids.
LEMMA NumberedRemainingCount ==
    ASSUME NEW S, NEW rules \in Seq(S), NEW removed \in SUBSET (1..Len(rules)),
           \A i \in 1..Len(rules) : rules[i].id = i
    PROVE  /\ Cardinality(removed) \in 0..Len(rules)
           /\ Len(Remaining(rules, removed)) = Len(rules) - Cardinality(removed)
<1>1. PICK n \in Nat : n = Len(rules) /\ DOMAIN rules = 1..n
  OBVIOUS
<1>2. \A i \in 1..n : rules[i].id = i
  BY <1>1
<1>3. removed \in SUBSET (1..n)
  BY <1>1
<1>4. IsFiniteSet(1..n) /\ Cardinality(1..n) = n
  <2>1. 1 \in Int /\ n \in Int
    BY <1>1
  <2>2. IsFiniteSet(1..n) /\ Cardinality(1..n) = IF 1 > n THEN 0 ELSE n - 1 + 1
    BY <2>1, FS_Interval
  <2> QED BY <1>1, <2>2
<1>5. {j \in 1..n : rules[j].id \notin removed} = (1..n) \ removed
  BY <1>2
<1>6. /\ IsFiniteSet(removed) /\ Cardinality(removed) \in Nat
      /\ Cardinality((1..n) \ removed) = n - Cardinality((1..n) \cap removed)
      /\ Cardinality(removed) <= n
  <2> DEFINE all == 1..n
  <2>1. removed \in SUBSET all /\ IsFiniteSet(all) /\ Cardinality(all) = n
    BY <1>3, <1>4
  <2> HIDE DEF all
  <2>2. IsFiniteSet(removed) /\ Cardinality(removed) <= Cardinality(all)
    BY <2>1, FS_Subset
  <2>3. Cardinality(all \ removed) = Cardinality(all) - Cardinality(all \cap removed)
    BY <2>1, FS_Difference
  <2> QED BY <2>1, <2>2, <2>3, FS_CardinalityType DEF all
<1>7. (1..n) \cap removed = removed
  BY <1>3
<1>8. Len(Remaining(rules, removed)) = Cardinality({j \in 1..n : rules[j].id \notin removed})
  BY <1>1, RemainingPlaces DEF LeftOf
<1>9. Len(Remaining(rules, removed)) = n - Cardinality(removed)
  BY <1>5, <1>6, <1>7, <1>8
<1>10. Cardinality(removed) \in 0..n
  BY <1>6
<1> QED BY <1>1, <1>9, <1>10

(***************************************************************************)
(* Sequences laid end to end.                                              *)
(***************************************************************************)
FlattenStep(S, ss) == [p \in Seq(S) \X DOMAIN ss |-> p[1] \o ss[p[2]]]

LEMMA FlattenIsChain ==
    ASSUME NEW S, NEW ss \in Seq(Seq(S))
    PROVE  \E f \in [0..Len(ss) -> Seq(S)] :
             /\ f[0] = <<>>
             /\ \A i \in 1..Len(ss) : f[i] = f[i - 1] \o ss[i]
             /\ FlattenSeq(ss) = f[Len(ss)]
<1> DEFINE n == Len(ss)
           X == Seq(S)
           step == FlattenStep(S, ss)
           equation(h) == [i \in 1..n |-> IF i = 1 THEN ss[i] ELSE h[i - 1] \o ss[i]]
           flat == CHOOSE h : h = equation(h)
<1>1. n \in Nat /\ DOMAIN ss = 1..n /\ <<>> \in X /\ \A i \in 1..n : ss[i] \in X
  OBVIOUS
<1>2. FlattenSeq(ss) = IF n = 0 THEN ss ELSE flat[n]
  BY DEF FlattenSeq
<1>3. step \in [X \X (1..n) -> X] /\ \A x \in X, i \in 1..n : step[<<x, i>>] = x \o ss[i]
  <2>1. \A x \in X, i \in 1..n : x \o ss[i] \in X
    BY <1>1, ConcatProperties
  <2> HIDE DEF X, n
  <2> QED BY <1>1, <2>1 DEF FlattenStep, X
<1> HIDE DEF step, X, n
<1>4. PICK f : f \in Chain(X, <<>>, step, n)
  BY <1>1, <1>3, RecursionUp
<1>5. /\ f \in [0..n -> X] /\ f[0] = <<>>
      /\ \A i \in 1..n : f[i - 1] \in X /\ f[i] = f[i - 1] \o ss[i]
  <2>1. f \in [0..n -> X] /\ f[0] = <<>> /\ \A i \in 1..n : f[i] = step[<<f[i - 1], i>>]
    BY <1>4 DEF Chain
  <2>2. \A i \in 1..n : f[i - 1] \in X
    BY <1>1, <2>1
  <2> QED BY <1>3, <2>1, <2>2
<1>6. CASE n = 0
  <2>1. ss = <<>>
    BY <1>1, <1>6 DEF n
  <2> QED BY <1>1, <1>2, <1>5, <1>6, <2>1 DEF n, X
<1>7. CASE n # 0
  <2>1. \E h : h = equation(h)
    <3> DEFINE g == [i \in 1..n |-> f[i]]
    <3>1. ASSUME NEW i \in 1..n PROVE g[i] = equation(g)[i]
      <4>1. CASE i = 1
        <5>1. 1 \in 1..n /\ f[1] = f[1 - 1] \o ss[1] /\ 1 - 1 = 0
          BY <1>1, <1>5, <4>1
        <5>2. f[1] = <<>> \o ss[1] /\ ss[1] \in Seq(S)
          BY <1>1, <1>5, <5>1 DEF X
        <5>3. f[1] = ss[1]
          BY <5>2, ConcatEmptySeq
        <5> QED BY <4>1, <5>1, <5>3
      <4>2. CASE i # 1
        <5>1. i - 1 \in 1..n
          BY <1>1, <4>2
        <5>2. g[i - 1] = f[i - 1] /\ g[i] = f[i]
          BY <5>1
        <5>3. equation(g)[i] = g[i - 1] \o ss[i]
          BY <4>2
        <5> HIDE DEF g, equation
        <5>4. f[i] = f[i - 1] \o ss[i]
          BY <1>5
        <5> QED BY <5>2, <5>3, <5>4
      <4> QED BY <4>1, <4>2
    <3>2. g = equation(g)
      <4> DEFINE e == equation(g)
      <4>1. e = [i \in 1..n |-> e[i]]
        OBVIOUS
      <4>2. \A i \in 1..n : f[i] = e[i]
        BY <3>1
      <4> HIDE DEF e
      <4>3. g = e
        BY <4>1, <4>2
      <4> QED BY <4>3 DEF e
    <3> QED BY <3>2
  <2>2. flat = equation(flat)
    <3> HIDE DEF equation
    <3> QED BY <2>1
  <2> HIDE DEF flat
  <2>3. \A i \in 1..n : flat[i] = IF i = 1 THEN ss[i] ELSE flat[i - 1] \o ss[i]
    BY <2>2
  <2> DEFINE P == {i \in 1..n : flat[i] = f[i]}
  <2>4. 1 \in P
    <3>1. 1 \in 1..n /\ f[1] = f[1 - 1] \o ss[1] /\ 1 - 1 = 0
      BY <1>1, <1>5, <1>7
    <3>2. f[1] = <<>> \o ss[1] /\ ss[1] \in Seq(S)
      BY <1>1, <1>5, <3>1 DEF X
    <3>3. f[1] = ss[1]
      BY <3>2, ConcatEmptySeq
    <3> QED BY <2>3, <3>1, <3>3
  <2>5. ASSUME NEW i \in 1..(n - 1), i \in P PROVE i + 1 \in P
    <3>1. i + 1 \in 1..n /\ i + 1 # 1 /\ (i + 1) - 1 = i
      BY <1>1
    <3>2. flat[i + 1] = flat[i] \o ss[i + 1] /\ f[i + 1] = f[i] \o ss[i + 1]
      BY <1>5, <2>3, <3>1
    <3> QED BY <2>5, <3>1, <3>2
  <2>6. n \in P
    <3> HIDE DEF P
    <3>1. 1 \in Int /\ n \in Int /\ n \in 1..n
      BY <1>1, <1>7
    <3>2. \A i \in 1..n : i \in P
      BY <2>4, <2>5, <3>1, InductionBetween
    <3> QED BY <3>1, <3>2
  <2>7. FlattenSeq(ss) = f[n]
    BY <1>2, <1>7, <2>6
  <2> QED BY <1>5, <2>7 DEF n, X
<1> QED BY <1>6, <1>7

LEMMA FlattenAppend ==
    ASSUME NEW S, NEW ss \in Seq(Seq(S)), NEW s \in Seq(S)
    PROVE  /\ FlattenSeq(ss) \in Seq(S)
           /\ FlattenSeq(Append(ss, s)) = FlattenSeq(ss) \o s
<1> DEFINE n == Len(ss)
           more == Append(ss, s)
<1>1. /\ n \in Nat /\ more \in Seq(Seq(S)) /\ Len(more) = n + 1
      /\ more[n + 1] = s /\ \A i \in 1..n : more[i] = ss[i]
  OBVIOUS
<1>2. PICK f \in [0..n -> Seq(S)] :
         f[0] = <<>> /\ (\A i \in 1..n : f[i] = f[i - 1] \o ss[i]) /\ FlattenSeq(ss) = f[n]
  BY FlattenIsChain
<1>3. PICK g \in [0..(n + 1) -> Seq(S)] :
         g[0] = <<>> /\ (\A i \in 1..(n + 1) : g[i] = g[i - 1] \o more[i]) /\ FlattenSeq(more) = g[n + 1]
  <2> HIDE DEF more, n
  <2>1. \E g \in [0..Len(more) -> Seq(S)] :
         g[0] = <<>> /\ (\A i \in 1..Len(more) : g[i] = g[i - 1] \o more[i]) /\ FlattenSeq(more) = g[Len(more)]
    BY <1>1, FlattenIsChain
  <2> QED BY <1>1, <2>1
<1> HIDE DEF n, more
<1> DEFINE P == {i \in 0..n : f[i] = g[i]}
<1>4. 0 \in P
  BY <1>1, <1>2, <1>3
<1>5. ASSUME NEW i \in 0..(n - 1), i \in P PROVE i + 1 \in P
  <2>1. i + 1 \in 1..n /\ i + 1 \in 1..(n + 1) /\ i + 1 \in 0..n /\ (i + 1) - 1 = i
    BY <1>1
  <2>2. f[i + 1] = f[i] \o ss[i + 1] /\ g[i + 1] = g[i] \o more[i + 1]
    BY <1>2, <1>3, <2>1
  <2>3. f[i + 1] = g[i + 1]
    BY <1>1, <1>5, <2>1, <2>2
  <2> QED BY <2>1, <2>3
<1>6. n \in P
  <2> HIDE DEF P
  <2>1. 0 \in Int /\ n \in Int /\ n \in 0..n
    BY <1>1
  <2>2. \A i \in 0..n : i \in P
    BY <1>4, <1>5, <2>1, InductionBetween
  <2> QED BY <2>1, <2>2
<1>7. n + 1 \in 1..(n + 1) /\ (n + 1) - 1 = n /\ n \in 0..n
  BY <1>1
<1>8. g[n + 1] = g[n] \o more[n + 1]
  BY <1>3, <1>7
<1>9. FlattenSeq(more) = FlattenSeq(ss) \o s
  BY <1>1, <1>2, <1>3, <1>6, <1>8
<1> QED BY <1>2, <1>7, <1>9 DEF more

LEMMA FlattenEmpty == FlattenSeq(<<>>) = <<>>
BY DEF FlattenSeq

LEMMA ConcatThree ==
    ASSUME NEW S, NEW a, NEW b, NEW c, a \in Seq(S), b \in Seq(S), c \in Seq(S)
    PROVE  (a \o b) \o c = a \o (b \o c)
BY ConcatAssociative

\* Laying out two lists of sequences together is laying out one after the other.
Splits(S) == {pair \in Seq(Seq(S)) \X Seq(Seq(S)) :
                FlattenSeq(pair[1] \o pair[2]) = FlattenSeq(pair[1]) \o FlattenSeq(pair[2])}

LEMMA SplitsGrow ==
    ASSUME NEW S, NEW a, NEW p, NEW x, <<a, p>> \in Splits(S), x \in Seq(S)
    PROVE  <<a, Append(p, x)>> \in Splits(S)
<1>1. a \in Seq(Seq(S)) /\ p \in Seq(Seq(S)) /\ FlattenSeq(a \o p) = FlattenSeq(a) \o FlattenSeq(p)
  BY DEF Splits
<1>2. /\ a \o Append(p, x) = Append(a \o p, x)
      /\ a \o p \in Seq(Seq(S)) /\ Append(p, x) \in Seq(Seq(S))
  <2> DEFINE T == Seq(S)
  <2>1. a \in Seq(T) /\ p \in Seq(T) /\ x \in T
    BY <1>1
  <2> HIDE DEF T
  <2>2. a \o Append(p, x) = Append(a \o p, x) /\ a \o p \in Seq(T) /\ Append(p, x) \in Seq(T)
    BY <2>1
  <2> QED BY <2>2 DEF T
<1>3. /\ FlattenSeq(Append(a \o p, x)) = FlattenSeq(a \o p) \o x
      /\ FlattenSeq(Append(p, x)) = FlattenSeq(p) \o x
      /\ FlattenSeq(a) \in Seq(S) /\ FlattenSeq(p) \in Seq(S)
  BY <1>1, <1>2, FlattenAppend
<1>4. (FlattenSeq(a) \o FlattenSeq(p)) \o x = FlattenSeq(a) \o (FlattenSeq(p) \o x)
  <2>1. FlattenSeq(a) \in Seq(S) /\ FlattenSeq(p) \in Seq(S) /\ x \in Seq(S)
    BY <1>3
  <2> QED BY ONLY <2>1, ConcatThree
<1>5. FlattenSeq(a \o Append(p, x)) = FlattenSeq(a) \o FlattenSeq(Append(p, x))
  BY <1>1, <1>2, <1>3, <1>4, Zenon
<1> QED BY <1>1, <1>2, <1>5, Zenon DEF Splits

LEMMA SubSeqGrows ==
    ASSUME NEW S, NEW s \in Seq(S), NEW i \in 0..(Len(s) - 1)
    PROVE  /\ SubSeq(s, 1, i) \in Seq(S) /\ s[i + 1] \in S
           /\ SubSeq(s, 1, i + 1) = Append(SubSeq(s, 1, i), s[i + 1])
<1> DEFINE p == SubSeq(s, 1, i)
           q == SubSeq(s, 1, i + 1)
           r == Append(p, s[i + 1])
<1>1. Len(s) \in Nat /\ i + 1 \in 1..Len(s)
  OBVIOUS
<1>2. p \in Seq(S) /\ Len(p) = i /\ \A j \in 1..i : p[j] = s[j]
  <2>1. \A j \in 1..i : s[j] \in S
    BY <1>1
  <2>2. 1 \in Int /\ i \in Int /\ i - 1 + 1 = i /\ (\A j \in 1..i : 1 + j - 1 = j)
        /\ (IF 1 <= i THEN i - 1 + 1 ELSE 0) = i
    BY <1>1
  <2> QED BY <2>1, <2>2, SubSeqProperties
<1>3. q \in Seq(S) /\ Len(q) = i + 1 /\ \A j \in 1..(i + 1) : q[j] = s[j]
  <2>1. \A j \in 1..(i + 1) : s[j] \in S
    BY <1>1
  <2>2. 1 \in Int /\ i + 1 \in Int /\ (i + 1) - 1 + 1 = i + 1 /\ (\A j \in 1..(i + 1) : 1 + j - 1 = j)
        /\ (IF 1 <= i + 1 THEN (i + 1) - 1 + 1 ELSE 0) = i + 1
    BY <1>1
  <2> QED BY <2>1, <2>2, SubSeqProperties
<1>4. s[i + 1] \in S
  BY <1>1
<1> HIDE DEF p, q
<1>5. r \in Seq(S) /\ Len(r) = i + 1 /\ \A j \in 1..(i + 1) : r[j] = s[j]
  <2>1. /\ r \in Seq(S) /\ Len(r) = Len(p) + 1 /\ r[Len(p) + 1] = s[i + 1]
        /\ \A j \in 1..Len(p) : r[j] = p[j]
    BY <1>2, <1>4, AppendProperties
  <2> HIDE DEF r
  <2>2. \A j \in 1..(i + 1) : j \in 1..i \/ j = i + 1
    OBVIOUS
  <2> QED BY <1>2, <2>1, <2>2
<1> HIDE DEF r
<1>6. q = r
  BY <1>3, <1>5, SeqEqual
<1> QED BY <1>2, <1>4, <1>6 DEF p, q, r

LEMMA FlattenConcat ==
    ASSUME NEW S, NEW a \in Seq(Seq(S)), NEW b \in Seq(Seq(S))
    PROVE  FlattenSeq(a \o b) = FlattenSeq(a) \o FlattenSeq(b)
<1> DEFINE n == Len(b)
           T == Seq(S)
           P == {i \in 0..n : <<a, SubSeq(b, 1, i)>> \in Splits(S)}
<1>1. n \in Nat /\ a \in Seq(T) /\ b \in Seq(T) /\ FlattenSeq(a) \in Seq(S)
  <2>1. <<>> \in Seq(S)
    OBVIOUS
  <2>2. FlattenSeq(a) \in Seq(S)
    BY <2>1, FlattenAppend
  <2> QED BY <2>2
<1>2. 0 \in P
  <2>1. SubSeq(b, 1, 0) = <<>>
    BY SubSeqEmpty
  <2>2. a \o <<>> = a /\ FlattenSeq(a) \o <<>> = FlattenSeq(a)
    BY <1>1, ConcatEmptySeq
  <2>3. FlattenSeq(a \o SubSeq(b, 1, 0)) = FlattenSeq(a) \o FlattenSeq(SubSeq(b, 1, 0))
    BY <2>1, <2>2, FlattenEmpty, Zenon
  <2>4. SubSeq(b, 1, 0) \in Seq(Seq(S))
    BY <2>1
  <2>5. <<a, SubSeq(b, 1, 0)>> \in Splits(S)
    BY <1>1, <2>3, <2>4, Zenon DEF Splits
  <2>6. 0 \in 0..n
    BY <1>1
  <2> QED BY <2>5, <2>6
<1>3. ASSUME NEW i \in 0..(n - 1), i \in P PROVE i + 1 \in P
  <2> DEFINE p == SubSeq(b, 1, i)
             q == SubSeq(b, 1, i + 1)
  <2>1. i + 1 \in 0..n
    BY <1>1
  <2>2. p \in Seq(T) /\ b[i + 1] \in T /\ q = Append(p, b[i + 1])
    <3> HIDE DEF T
    <3> QED BY <1>1, SubSeqGrows
  <2> HIDE DEF p, q
  <2>7. <<a, q>> \in Splits(S)
    <3>1. <<a, p>> \in Splits(S)
      BY <1>3 DEF p
    <3> QED BY <2>2, <3>1, SplitsGrow
  <2> QED BY <2>1, <2>7 DEF q
<1>4. n \in P
  <2> HIDE DEF P
  <2>1. 0 \in Int /\ n \in Int /\ n \in 0..n
    BY <1>1
  <2>2. \A i \in 0..n : i \in P
    BY <1>2, <1>3, <2>1, InductionBetween
  <2> QED BY <2>1, <2>2
<1>5. SubSeq(b, 1, n) = b
  BY SubSeqFull
<1> QED BY <1>4, <1>5 DEF Splits

\* Whatever is in either part is in the whole.
LEMMA ConcatEntries ==
    ASSUME NEW S, NEW s \in Seq(S), NEW t \in Seq(S)
    PROVE  s \o t \in Seq(S) /\ Range(s \o t) = Range(s) \cup Range(t)
<1>1. /\ s \o t \in Seq(S) /\ Len(s \o t) = Len(s) + Len(t) /\ Len(s) \in Nat /\ Len(t) \in Nat
      /\ DOMAIN s = 1..Len(s) /\ DOMAIN t = 1..Len(t) /\ DOMAIN (s \o t) = 1..(Len(s) + Len(t))
      /\ \A i \in 1..(Len(s) + Len(t)) : (s \o t)[i] = IF i <= Len(s) THEN s[i] ELSE t[i - Len(s)]
  BY ConcatProperties
<1> DEFINE u == s \o t
<1> HIDE DEF u
<1>2. ASSUME NEW x \in Range(s) \cup Range(t) PROVE x \in Range(u)
  <2>1. CASE x \in Range(s)
    <3>1. PICK i \in 1..Len(s) : x = s[i]
      BY <1>1, <2>1 DEF Range
    <3>2. i \in 1..(Len(s) + Len(t)) /\ u[i] = x
      BY <1>1, <3>1 DEF u
    <3> QED BY <1>1, <3>2 DEF Range, u
  <2>2. CASE x \in Range(t)
    <3>1. PICK i \in 1..Len(t) : x = t[i]
      BY <1>1, <2>2 DEF Range
    <3>2. Len(s) + i \in 1..(Len(s) + Len(t)) /\ u[Len(s) + i] = x
      <4>1. Len(s) + i \in 1..(Len(s) + Len(t)) /\ ~(Len(s) + i <= Len(s)) /\ (Len(s) + i) - Len(s) = i
        BY <1>1, <3>1
      <4> QED BY <1>1, <3>1, <4>1 DEF u
    <3> QED BY <1>1, <3>2 DEF Range, u
  <2> QED BY <2>1, <2>2
<1>3. ASSUME NEW x \in Range(u) PROVE x \in Range(s) \cup Range(t)
  <2>1. PICK i \in 1..(Len(s) + Len(t)) : x = u[i]
    BY <1>1 DEF Range, u
  <2>2. CASE i <= Len(s)
    BY <1>1, <2>1, <2>2 DEF Range, u
  <2>3. CASE ~(i <= Len(s))
    <3>1. i - Len(s) \in 1..Len(t)
      BY <1>1, <2>1, <2>3
    <3>2. x = t[i - Len(s)]
      BY <1>1, <2>1, <2>3 DEF u
    <3> QED BY <1>1, <3>1, <3>2 DEF Range
  <2> QED BY <2>2, <2>3
<1> QED BY <1>1, <1>2, <1>3 DEF u

\* What is laid out is what was in the sequences.
LEMMA FlattenEntries ==
    ASSUME NEW S, NEW ss \in Seq(Seq(S))
    PROVE  FlattenSeq(ss) \in Seq(S) /\ Range(FlattenSeq(ss)) = UNION {Range(ss[i]) : i \in DOMAIN ss}
<1> DEFINE n == Len(ss)
<1>1. n \in Nat /\ DOMAIN ss = 1..n /\ \A i \in 1..n : ss[i] \in Seq(S)
  OBVIOUS
<1>2. PICK f \in [0..n -> Seq(S)] :
             /\ f[0] = <<>>
             /\ \A i \in 1..n : f[i] = f[i - 1] \o ss[i]
             /\ FlattenSeq(ss) = f[n]
  BY FlattenIsChain
<1> HIDE DEF n
<1> DEFINE P == {i \in 0..n : Range(f[i]) = UNION {Range(ss[j]) : j \in 1..i}}
<1>3. 0 \in P
  <2>1. Range(f[0]) = {} /\ \A j \in 1..0 : FALSE
    BY <1>2 DEF Range
  <2> QED BY <1>1, <2>1
<1>4. ASSUME NEW i \in 0..(n - 1), i \in P PROVE i + 1 \in P
  <2>1. i + 1 \in 1..n /\ (i + 1) - 1 = i /\ i \in 0..n
    BY <1>1
  <2>4. f[i] \in Seq(S) /\ ss[i + 1] \in Seq(S)
    BY <1>1, <1>2, <2>1
  <2>2. Range(f[i + 1]) = Range(f[i]) \cup Range(ss[i + 1])
    <3>1. f[i + 1] = f[i] \o ss[i + 1]
      BY <1>2, <2>1
    <3> QED BY <2>4, <3>1, ConcatEntries
  <2>3. \A j : j \in 1..(i + 1) <=> j \in 1..i \/ j = i + 1
    BY <2>1
  <2>5. UNION {Range(ss[j]) : j \in 1..(i + 1)} = (UNION {Range(ss[j]) : j \in 1..i}) \cup Range(ss[i + 1])
    BY <2>3
  <2>6. i + 1 \in 0..n
    BY <2>1
  <2> QED BY <1>4, <2>2, <2>5, <2>6
<1>5. \A i \in 0..n : i \in P
  <2> HIDE DEF P
  <2>1. 0 \in Int /\ n \in Int
    BY <1>1
  <2> QED BY <1>3, <1>4, <2>1, InductionBetween
<1> QED BY <1>1, <1>2, <1>5

LEMMA FlattenOf ==
    ASSUME NEW S, NEW n \in Nat, NEW ss \in [1..n -> Seq(S)]
    PROVE  FlattenSeq(ss) \in Seq(S) /\ Range(FlattenSeq(ss)) = UNION {Range(ss[i]) : i \in 1..n}
<1>1. ss \in Seq(Seq(S)) /\ DOMAIN ss = 1..n
  OBVIOUS
<1> QED BY <1>1, FlattenEntries

\* A sequence, of whatever there is in it.
IsList(s) == s \in Seq(Range(s))

LEMMA ListOf ==
    ASSUME NEW S, NEW s \in Seq(S)
    PROVE  IsList(s)
<1>1. Len(s) \in Nat /\ DOMAIN s = 1..Len(s) /\ s = [i \in 1..Len(s) |-> s[i]]
  OBVIOUS
<1>2. \A i \in 1..Len(s) : s[i] \in Range(s)
  BY <1>1 DEF Range
<1> QED BY <1>1, <1>2 DEF IsList

LEMMA ListsJoin ==
    ASSUME NEW s, NEW t, IsList(s), IsList(t)
    PROVE  IsList(s \o t) /\ Range(s \o t) = Range(s) \cup Range(t)
<1> DEFINE S == Range(s) \cup Range(t)
<1>1. s \in Seq(S) /\ t \in Seq(S)
  BY DEF IsList
<1> HIDE DEF S
<1>2. s \o t \in Seq(S) /\ Range(s \o t) = Range(s) \cup Range(t)
  BY <1>1, ConcatEntries
<1> QED BY <1>2, ListOf

\* The two sides of a list of pairs.
Firsts(pairs) == {pairs[k][1] : k \in DOMAIN pairs}
Seconds(pairs) == {pairs[k][2] : k \in DOMAIN pairs}

LEMMA ZipEntries ==
    ASSUME NEW S, NEW T, NEW s \in Seq(S), NEW t \in Seq(T)
    PROVE  Zip(s, t) \in Seq(S \X T)
<1> DEFINE l == IF Len(s) <= Len(t) THEN Len(s) ELSE Len(t)
           z == [i \in 1..l |-> <<s[i], t[i]>>]
<1>1. l \in Nat /\ \A i \in 1..l : s[i] \in S /\ t[i] \in T
  OBVIOUS
<1>2. Zip(s, t) = z
  BY Zenon DEF Zip
<1> HIDE DEF l
<1> QED BY <1>1, <1>2

LEMMA ZipSides ==
    ASSUME NEW S, NEW T, NEW s \in Seq(S), NEW t \in Seq(T), Len(s) = Len(t)
    PROVE  Firsts(Zip(s, t)) = Range(s) /\ Seconds(Zip(s, t)) = Range(t)
<1> DEFINE l == IF Len(s) <= Len(t) THEN Len(s) ELSE Len(t)
           z == [i \in 1..l |-> <<s[i], t[i]>>]
<1>1. l = Len(s) /\ l = Len(t) /\ DOMAIN s = 1..Len(s) /\ DOMAIN t = 1..Len(t)
  OBVIOUS
<1>2. Zip(s, t) = z
  BY Zenon DEF Zip
<1> HIDE DEF l
<1>3. DOMAIN z = 1..l /\ \A k \in 1..l : z[k][1] = s[k] /\ z[k][2] = t[k]
  OBVIOUS
<1> HIDE DEF z
<1>4. DOMAIN s = DOMAIN z /\ DOMAIN t = DOMAIN z /\ \A k \in DOMAIN z : z[k][1] = s[k] /\ z[k][2] = t[k]
  BY <1>1, <1>3
<1> QED BY <1>2, <1>4 DEF Range, Firsts, Seconds

LEMMA EmptyIsList == IsList(<<>>)
<1>1. <<>> \in Seq({})
  OBVIOUS
<1> QED BY <1>1, ListOf
================================================================================
