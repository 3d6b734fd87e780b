------------------------ MODULE RuleConsolidationProofs ------------------------
(***************************************************************************)
(* Proofs about RuleConsolidation, for every set of rules and any number   *)
(* of candidates.  First what a fingerprint is: two rules have the same    *)
(* one exactly when one is a renaming of the other.  Then the inductive    *)
(* invariant, which says so of the rules that are kept and of the          *)
(* candidates that were refused, and the covering of what consolidation    *)
(* removes.                                                                *)
(***************************************************************************)
EXTENDS RuleConsolidation, DataInduction

(***************************************************************************)
(* One visit of a leaf.                                                    *)
(***************************************************************************)
Numberings == UNION {[D -> Nat] : D \in {E \in SUBSET Int : IsFiniteSet(E)}}

Visits == [ids : [NameSpaces -> Numberings], print : Seq(Leaf)]

Fresh == [ids |-> [ns \in NameSpaces |-> <<>>], print |-> <<>>]

\* A leaf as the fingerprint shows it.
Shown(visit, leaf) ==
    IF leaf.ns = "num" THEN leaf ELSE [leaf EXCEPT !.key = visit.ids[leaf.ns][leaf.key]]

LEMMA NumberingDomain ==
    ASSUME NEW known \in Numberings
    PROVE  /\ DOMAIN known \in SUBSET Int /\ IsFiniteSet(DOMAIN known)
           /\ Cardinality(DOMAIN known) \in Nat
           /\ \A key \in DOMAIN known : known[key] \in Nat
<1>1. PICK D \in {E \in SUBSET Int : IsFiniteSet(E)} : known \in [D -> Nat]
  BY DEF Numberings
<1>2. DOMAIN known = D /\ D \in SUBSET Int /\ IsFiniteSet(D) /\ \A key \in D : known[key] \in Nat
  BY <1>1
<1>3. Cardinality(D) \in Nat
  BY <1>2, FS_CardinalityType
<1> QED BY <1>2, <1>3

\* A name that was not seen before gets the next number.
NextNumbering(known, k) ==
    [key \in DOMAIN known \cup {k} |->
        IF key \in DOMAIN known THEN known[key] ELSE Cardinality(DOMAIN known) + 1]

LEMMA NextNumberingRight ==
    ASSUME NEW known \in Numberings, NEW k \in Int
    PROVE  LET ids == NextNumbering(known, k)
               c == Cardinality(DOMAIN known)
           IN  /\ ids \in Numberings
               /\ DOMAIN ids = DOMAIN known \cup {k}
               /\ \A key \in DOMAIN known : ids[key] = known[key]
               /\ k \in DOMAIN known => Cardinality(DOMAIN ids) = c
               /\ k \notin DOMAIN known => ids[k] = c + 1 /\ Cardinality(DOMAIN ids) = c + 1
<1> DEFINE ids == NextNumbering(known, k)
           D == DOMAIN known
           c == Cardinality(D)
<1>1. D \in SUBSET Int /\ IsFiniteSet(D) /\ c \in Nat /\ \A key \in D : known[key] \in Nat
  BY NumberingDomain
<1>2. DOMAIN ids = D \cup {k} /\ \A key \in D : ids[key] = known[key]
  BY DEF NextNumbering
<1>3. k \notin D => ids[k] = c + 1
  BY DEF NextNumbering
<1>4. ids = [key \in D \cup {k} |-> ids[key]]
  BY DEF NextNumbering
<1> HIDE DEF ids, D, c
<1>5. IsFiniteSet(D \cup {k}) /\ Cardinality(D \cup {k}) = IF k \in D THEN c ELSE c + 1
  BY <1>1, FS_AddElement DEF c
<1>6. D \cup {k} \in SUBSET Int
  BY <1>1
<1>7. \A key \in D \cup {k} : ids[key] \in Nat
  BY <1>1, <1>2, <1>3
<1>8. ids \in [D \cup {k} -> Nat]
  BY <1>4, <1>7
<1>9. ids \in Numberings
  BY <1>5, <1>6, <1>8 DEF Numberings
<1> QED BY <1>2, <1>3, <1>5, <1>9 DEF ids, D, c

LEMMA SeeRight ==
    ASSUME NEW v \in Visits, NEW leaf \in Leaf
    PROVE  LET w == See(v, leaf)
           IN  /\ w \in Visits
               /\ w.print = Append(v.print, Shown(w, leaf))
               /\ \A ns \in NameSpaces : w.ids[ns] =
                     IF ns = leaf.ns THEN NextNumbering(v.ids[ns], leaf.key) ELSE v.ids[ns]
<1> DEFINE w == See(v, leaf)
<1>1. /\ v.ids \in [NameSpaces -> Numberings] /\ v.print \in Seq(Leaf)
      /\ leaf.ns \in NameSpaces \cup {"num"} /\ leaf.key \in Int /\ "num" \notin NameSpaces
  BY DEF Visits, Leaf, NameSpaces
<1>2. CASE leaf.ns = "num"
  <2>1. w = [v EXCEPT !.print = Append(@, leaf)]
    BY <1>2 DEF See
  <2>2. w.ids = v.ids /\ w.print = Append(v.print, leaf) /\ w = [ids |-> w.ids, print |-> w.print]
    BY <2>1 DEF Visits
  <2>3. Append(v.print, leaf) \in Seq(Leaf)
    BY <1>1
  <2>4. Shown(w, leaf) = leaf
    BY <1>2 DEF Shown
  <2> HIDE DEF w
  <2>5. w \in Visits
    BY <1>1, <2>2, <2>3 DEF Visits
  <2> QED BY <1>1, <1>2, <2>2, <2>4, <2>5 DEF w
<1>3. CASE leaf.ns # "num"
  <2>1. leaf.ns \in NameSpaces /\ v.ids[leaf.ns] \in Numberings
    BY <1>1, <1>3
  <2>a. PICK known \in Numberings : known = v.ids[leaf.ns]
    BY <2>1
  <2>b. PICK k \in Int : k = leaf.key
    BY <1>1
  <2> DEFINE ids == NextNumbering(known, k)
  <2>2. w = [ids |-> [v.ids EXCEPT ![leaf.ns] = ids],
             print |-> Append(v.print, [leaf EXCEPT !.key = ids[leaf.key]])]
    BY <1>3, <2>a, <2>b DEF See, NextNumbering
  <2>3. /\ ids \in Numberings /\ leaf.key \in DOMAIN ids
    BY <2>b, NextNumberingRight, Zenon
  <2>4. ids[leaf.key] \in Int
    BY <2>3, NumberingDomain
  <2> HIDE DEF ids
  <2>5. w.ids \in [NameSpaces -> Numberings] /\ w.ids[leaf.ns] = ids
        /\ \A ns \in NameSpaces : ns # leaf.ns => w.ids[ns] = v.ids[ns]
    BY <1>1, <2>1, <2>2, <2>3
  <2>6. [leaf EXCEPT !.key = ids[leaf.key]] \in Leaf
    BY <2>4 DEF Leaf
  <2>7. w.print = Append(v.print, [leaf EXCEPT !.key = ids[leaf.key]])
    BY <2>2
  <2>8. Shown(w, leaf) = [leaf EXCEPT !.key = ids[leaf.key]]
    BY <1>3, <2>5 DEF Shown
  <2>9. w.print \in Seq(Leaf)
    BY <1>1, <2>6, <2>7
  <2>10. w = [ids |-> w.ids, print |-> w.print]
    BY <2>2
  <2> HIDE DEF w
  <2>11. w \in Visits
    BY <2>5, <2>9, <2>10 DEF Visits
  <2> QED BY <1>1, <2>1, <2>a, <2>b, <2>5, <2>7, <2>8, <2>11 DEF ids, w
<1> QED BY <1>2, <1>3

(***************************************************************************)
(* The visits of a sequence of leaves.                                     *)
(***************************************************************************)
SeeStep(x) == [p \in Visits \X DOMAIN x |-> See(p[1], x[p[2]])]

LEMMA FreshIsVisit ==
    /\ Fresh \in Visits /\ Fresh.print = <<>>
    /\ \A ns \in NameSpaces : DOMAIN Fresh.ids[ns] = {}
<1>1. {} \in {E \in SUBSET Int : IsFiniteSet(E)}
  BY FS_EmptySet
<1>2. <<>> \in [{} -> Nat]
  OBVIOUS
<1>3. <<>> \in Numberings
  BY <1>1, <1>2 DEF Numberings
<1>4. <<>> \in Seq(Leaf)
  OBVIOUS
<1>5. DOMAIN <<>> = {}
  OBVIOUS
<1> QED BY <1>3, <1>4, <1>5 DEF Fresh, Visits

LEMMA SeeIsChain ==
    ASSUME NEW x \in Seq(Leaf)
    PROVE  \E f \in [0..Len(x) -> Visits] :
             /\ f[0] = Fresh
             /\ \A i \in 1..Len(x) : f[i] = See(f[i - 1], x[i])
             /\ FoldLeft(See, Fresh, x) = f[Len(x)]
<1> DEFINE n == Len(x)
           X == Visits
           step == SeeStep(x)
           equation(h) == [s \in SUBSET (1..n) |->
                IF s = {} THEN Fresh ELSE See(h[s \ {Max(s)}], x[Max(s)])]
           fold == CHOOSE h : h = equation(h)
<1>1. n \in Nat /\ DOMAIN x = 1..n /\ \A i \in 1..n : x[i] \in Leaf
  OBVIOUS
<1>2. FoldLeft(See, Fresh, x) = fold[1..n]
  BY <1>1 DEF FoldLeft, MapThenFoldSet
<1>3. Fresh \in X
  BY FreshIsVisit
<1>4. step \in [X \X (1..n) -> X]
        /\ \A v \in X, i \in 1..n : step[<<v, i>>] = See(v, x[i])
  <2>1. \A v \in X, i \in 1..n : See(v, x[i]) \in X
    BY <1>1, SeeRight
  <2> HIDE DEF X, n
  <2> QED BY <1>1, <2>1 DEF SeeStep, X
<1> HIDE DEF step, X, n
<1>5. \E h : h = equation(h)
  <2>1. PICK g : g \in FoldOf(X, Fresh, step, n)
    BY <1>1, <1>3, <1>4, FoldExists
  <2>2. g \in [SUBSET (1..n) -> X]
        /\ \A s \in SUBSET (1..n) : g[s] = IF s = {} THEN Fresh ELSE step[<<g[s \ {Max(s)}], Max(s)>>]
    BY <2>1 DEF FoldOf
  <2>3. ASSUME NEW s \in SUBSET (1..n) PROVE g[s] = equation(g)[s]
    <3>1. CASE s = {}
      BY <2>2, <3>1
    <3>2. CASE s # {}
      <4>1. s \in SUBSET (0..n)
        OBVIOUS
      <4>2. Max(s) \in 1..n
        BY <1>1, <3>2, <4>1, MaxIsGreatest
      <4>3. g[s \ {Max(s)}] \in X
        BY <2>2
      <4>4. g[s] = step[<<g[s \ {Max(s)}], Max(s)>>]
        BY <2>2, <3>2
      <4>5. g[s] = See(g[s \ {Max(s)}], x[Max(s)])
        BY <1>4, <4>2, <4>3, <4>4
      <4> QED BY <3>2, <4>5
    <3> QED BY <3>1, <3>2
  <2>4. g = equation(g)
    <3> DEFINE e == equation(g)
    <3>1. e = [s \in SUBSET (1..n) |-> e[s]]
      OBVIOUS
    <3> HIDE DEF e
    <3> QED BY <2>2, <2>3, <3>1 DEF e
  <2> QED BY <2>4
<1>6. fold = equation(fold)
  <2> HIDE DEF equation
  <2> QED BY <1>5
<1> HIDE DEF fold
<1>7. PICK f : f \in Chain(X, Fresh, step, n)
  BY <1>1, <1>3, <1>4, RecursionUp
<1>8. \A i \in 1..n : f[i - 1] \in X /\ f[i] = See(f[i - 1], x[i])
  <2>1. \A i \in 1..n : f[i - 1] \in X /\ f[i] = step[<<f[i - 1], i>>]
    BY <1>1, <1>7 DEF Chain
  <2> QED BY <1>4, <2>1
<1>9. fold[{}] = Fresh
  BY <1>6
<1>10. ASSUME NEW i \in 1..n, fold[1..(i - 1)] = f[i - 1] PROVE fold[1..i] = f[i]
  <2>1. /\ 1..i \in SUBSET (1..n) /\ 1..i # {} /\ Max(1..i) = i /\ (1..i) \ {i} = 1..(i - 1)
    BY <1>1, LastOfPrefix
  <2>2. fold[1..i] = See(fold[(1..i) \ {Max(1..i)}], x[Max(1..i)])
    BY <1>6, <2>1
  <2>3. fold[1..i] = See(f[i - 1], x[i])
    BY <1>10, <2>1, <2>2
  <2> QED BY <1>8, <2>3
<1>11. fold[1..n] = f[n]
  BY <1>1, <1>3, <1>7, <1>9, <1>10, FoldEndsAsChain
<1>12. f \in [0..n -> X] /\ f[0] = Fresh
  BY <1>7 DEF Chain
<1> QED BY <1>2, <1>8, <1>11, <1>12 DEF X, n

\* What a visit knows after the first i leaves of x: the names so far have numbers of
\* their own from 1 on, and the print shows them.
Seen(x, i, v) ==
    /\ \A ns \in NameSpaces, k \in Int :
          k \in DOMAIN v.ids[ns] <=> \E m \in 1..i : x[m].ns = ns /\ x[m].key = k
    /\ \A ns \in NameSpaces : \A k, l \in DOMAIN v.ids[ns] :
          /\ v.ids[ns][k] = v.ids[ns][l] => k = l
          /\ v.ids[ns][k] <= Cardinality(DOMAIN v.ids[ns])
    /\ Len(v.print) = i
    /\ \A m \in 1..i : v.print[m] = Shown(v, x[m])

LEMMA SeeSeen ==
    ASSUME NEW x \in Seq(Leaf), NEW i \in 0..(Len(x) - 1), NEW v \in Visits, Seen(x, i, v)
    PROVE  Seen(x, i + 1, See(v, x[i + 1]))
<1>1. PICK leaf \in Leaf : leaf = x[i + 1]
  OBVIOUS
<1>2. PICK w \in Visits : w = See(v, leaf)
  BY SeeRight
<1>3. /\ w.print = Append(v.print, Shown(w, leaf))
      /\ \A ns \in NameSpaces : w.ids[ns] =
            IF ns = leaf.ns THEN NextNumbering(v.ids[ns], leaf.key) ELSE v.ids[ns]
  BY <1>2, SeeRight, Zenon
<1>4. /\ leaf.key \in Int /\ i + 1 \in Nat
      /\ \A ns \in NameSpaces : v.ids[ns] \in Numberings /\ w.ids[ns] \in Numberings
  BY DEF Leaf, Visits
<1>5. ASSUME NEW ns \in NameSpaces
      PROVE  /\ DOMAIN w.ids[ns] =
                   IF ns = leaf.ns THEN DOMAIN v.ids[ns] \cup {leaf.key} ELSE DOMAIN v.ids[ns]
             /\ \A k \in DOMAIN v.ids[ns] : w.ids[ns][k] = v.ids[ns][k]
             /\ \A k, l \in DOMAIN w.ids[ns] :
                   /\ w.ids[ns][k] = w.ids[ns][l] => k = l
                   /\ w.ids[ns][k] <= Cardinality(DOMAIN w.ids[ns])
  <2>1. PICK known \in Numberings : known = v.ids[ns]
    BY <1>4
  <2>2. PICK k0 \in Int : k0 = leaf.key
    BY <1>4
  <2>3. PICK ids \in Numberings : ids = w.ids[ns]
    BY <1>4
  <2>4. \A k, l \in DOMAIN known : (known[k] = known[l] => k = l) /\ known[k] <= Cardinality(DOMAIN known)
    BY <2>1 DEF Seen
  <2>5. CASE ns # leaf.ns
    BY <1>3, <2>1, <2>4, <2>5
  <2>6. CASE ns = leaf.ns
    <3>1. ids = NextNumbering(known, k0)
      BY <1>3, <2>1, <2>2, <2>3, <2>6
    <3>2. /\ DOMAIN ids = DOMAIN known \cup {k0}
          /\ \A key \in DOMAIN known : ids[key] = known[key]
          /\ k0 \in DOMAIN known => Cardinality(DOMAIN ids) = Cardinality(DOMAIN known)
          /\ k0 \notin DOMAIN known => /\ ids[k0] = Cardinality(DOMAIN known) + 1
                                       /\ Cardinality(DOMAIN ids) = Cardinality(DOMAIN known) + 1
      BY <3>1, NextNumberingRight, Zenon
    <3>3. Cardinality(DOMAIN known) \in Nat /\ \A k \in DOMAIN known : known[k] \in Nat
      BY NumberingDomain
    <3>4. \A k, l \in DOMAIN ids : (ids[k] = ids[l] => k = l) /\ ids[k] <= Cardinality(DOMAIN ids)
      BY <2>4, <3>2, <3>3
    <3> QED BY <2>1, <2>2, <2>3, <2>6, <3>2, <3>4
  <2> QED BY <2>5, <2>6
<1>6. ASSUME NEW ns \in NameSpaces, NEW k \in Int
      PROVE  k \in DOMAIN w.ids[ns] <=> \E m \in 1..(i + 1) : x[m].ns = ns /\ x[m].key = k
  <2>1. k \in DOMAIN v.ids[ns] <=> \E m \in 1..i : x[m].ns = ns /\ x[m].key = k
    BY DEF Seen
  <2>2. (\E m \in 1..(i + 1) : x[m].ns = ns /\ x[m].key = k)
          <=> ((\E m \in 1..i : x[m].ns = ns /\ x[m].key = k) \/ (leaf.ns = ns /\ leaf.key = k))
    <3>1. \A m : m \in 1..(i + 1) <=> (m \in 1..i \/ m = i + 1)
      OBVIOUS
    <3> QED BY <1>1, <3>1, Zenon
  <2>3. k \in DOMAIN w.ids[ns] <=> (k \in DOMAIN v.ids[ns] \/ (leaf.ns = ns /\ leaf.key = k))
    <3>1. CASE ns = leaf.ns
      <4>1. DOMAIN w.ids[ns] = DOMAIN v.ids[ns] \cup {leaf.key}
        BY <1>5, <3>1
      <4> QED BY <3>1, <4>1
    <3>2. CASE ns # leaf.ns
      <4>1. DOMAIN w.ids[ns] = DOMAIN v.ids[ns]
        BY <1>5, <3>2
      <4> QED BY <3>2, <4>1
    <3> QED BY <3>1, <3>2
  <2> QED BY <2>1, <2>2, <2>3, Zenon
<1>7. Len(w.print) = i + 1 /\ \A m \in 1..(i + 1) : w.print[m] = Shown(w, x[m])
  <2>1. PICK p \in Seq(Leaf) : p = v.print
    BY DEF Visits
  <2>2. PICK s \in Leaf : s = Shown(w, leaf)
    <3>1. w.print \in Seq(Leaf) /\ Len(p) \in Nat
      BY DEF Visits
    <3>2. CASE leaf.ns = "num"
      BY <3>2 DEF Shown
    <3>3. CASE leaf.ns # "num"
      <4>1. leaf.ns \in NameSpaces
        BY <3>3 DEF Leaf
      <4>2. PICK ids \in Numberings : ids = w.ids[leaf.ns]
        BY <1>4, <4>1
      <4>3. leaf.key \in DOMAIN ids
        BY <1>5, <4>1, <4>2
      <4>4. ids[leaf.key] \in Int
        BY <4>2, <4>3, NumberingDomain
      <4> QED BY <3>3, <4>2, <4>4 DEF Shown, Leaf
    <3> QED BY <3>2, <3>3
  <2>3. Len(p) = i /\ w.print = Append(p, s)
    BY <1>3, <2>1, <2>2 DEF Seen
  <2>4. Len(w.print) = i + 1 /\ w.print[i + 1] = s /\ \A m \in 1..i : w.print[m] = p[m]
    BY <2>3
  <2>5. ASSUME NEW m \in 1..i PROVE Shown(v, x[m]) = Shown(w, x[m])
    <3>1. PICK l \in Leaf : l = x[m]
      OBVIOUS
    <3>2. CASE l.ns = "num"
      BY <3>1, <3>2 DEF Shown
    <3>3. CASE l.ns # "num"
      <4>1. l.ns \in NameSpaces /\ l.key \in Int
        BY <3>3 DEF Leaf
      <4>2. l.key \in DOMAIN v.ids[l.ns]
        BY <3>1, <4>1 DEF Seen
      <4>3. w.ids[l.ns][l.key] = v.ids[l.ns][l.key]
        BY <1>5, <4>1, <4>2
      <4> QED BY <3>1, <3>3, <4>3 DEF Shown
    <3> QED BY <3>2, <3>3
  <2>6. \A m \in 1..i : p[m] = Shown(v, x[m])
    BY <2>1 DEF Seen
  <2> QED BY <1>1, <2>2, <2>4, <2>5, <2>6
<1>8. Seen(x, i + 1, w)
  BY <1>5, <1>6, <1>7 DEF Seen
<1> QED BY <1>1, <1>2, <1>8

(***************************************************************************)
(* Two sequences of leaves have one print exactly when one is a renaming   *)
(* of the other.                                                           *)
(***************************************************************************)
Renamed(x, y) ==
    /\ Len(x) = Len(y)
    /\ \A n \in DOMAIN x : x[n].form = y[n].form /\ x[n].ns = y[n].ns /\ (x[n].ns = "num" => x[n].key = y[n].key)
    /\ \A m, n \in DOMAIN x :
          (x[m].ns = x[n].ns /\ x[m].ns # "num") => ((x[m].key = x[n].key) <=> (y[m].key = y[n].key))

LEMMA VisitsEndSeen ==
    ASSUME NEW x \in Seq(Leaf), NEW f \in [0..Len(x) -> Visits], f[0] = Fresh,
           \A i \in 1..Len(x) : f[i] = See(f[i - 1], x[i])
    PROVE  \A i \in 0..Len(x) : Seen(x, i, f[i])
<1> DEFINE n == Len(x)
           P == {i \in 0..n : Seen(x, i, f[i])}
<1>1. n \in Nat
  OBVIOUS
<1>2. 0 \in P
  <2>1. Seen(x, 0, Fresh)
    <3>1. Len(Fresh.print) = 0
      BY FreshIsVisit
    <3> QED BY <3>1, FreshIsVisit DEF Seen
  <2> QED BY <1>1, <2>1
<1>3. ASSUME NEW i \in 0..(n - 1), i \in P PROVE i + 1 \in P
  <2>1. i + 1 \in 1..n /\ i + 1 \in 0..n /\ (i + 1) - 1 = i /\ i \in 0..n
    BY <1>1
  <2>2. f[i + 1] = See(f[i], x[i + 1]) /\ f[i] \in Visits
    BY <2>1
  <2>3. Seen(x, i + 1, f[i + 1])
    BY <1>3, <2>2, SeeSeen
  <2> QED BY <2>1, <2>3
<1>4. \A i \in 0..n : i \in P
  <2> HIDE DEF P, n
  <2>1. 0 \in Int /\ n \in Int
    BY <1>1
  <2> QED BY <1>2, <1>3, <2>1, InductionBetween
<1> QED BY <1>4

\* Two visits side by side.
InStep(v, w) ==
    /\ v.print = w.print
    /\ \A ns \in NameSpaces : Cardinality(DOMAIN v.ids[ns]) = Cardinality(DOMAIN w.ids[ns])

LEMMA RenamingsStayInStep ==
    ASSUME NEW x \in Seq(Leaf), NEW y \in Seq(Leaf), Renamed(x, y),
           NEW i \in 0..(Len(x) - 1), NEW v \in Visits, NEW w \in Visits,
           Seen(x, i, v), Seen(y, i, w), InStep(v, w)
    PROVE  InStep(See(v, x[i + 1]), See(w, y[i + 1]))
<1>1. PICK k \in Leaf : k = x[i + 1]
  OBVIOUS
<1>2. PICK l \in Leaf : l = y[i + 1]
  BY DEF Renamed
<1>3. PICK v1 \in Visits : v1 = See(v, k)
  BY SeeRight
<1>4. PICK w1 \in Visits : w1 = See(w, l)
  BY SeeRight
<1>5. /\ v1.print = Append(v.print, Shown(v1, k))
      /\ \A ns \in NameSpaces : v1.ids[ns] =
            IF ns = k.ns THEN NextNumbering(v.ids[ns], k.key) ELSE v.ids[ns]
  BY <1>3, SeeRight, Zenon
<1>6. /\ w1.print = Append(w.print, Shown(w1, l))
      /\ \A ns \in NameSpaces : w1.ids[ns] =
            IF ns = l.ns THEN NextNumbering(w.ids[ns], l.key) ELSE w.ids[ns]
  BY <1>4, SeeRight, Zenon
<1>7. k.ns = l.ns /\ k.form = l.form /\ (k.ns = "num" => k.key = l.key) /\ i + 1 \in DOMAIN x
  BY <1>1, <1>2 DEF Renamed
<1>8. k = [form |-> k.form, ns |-> k.ns, key |-> k.key] /\ l = [form |-> l.form, ns |-> l.ns, key |-> l.key]
      /\ k.key \in Int /\ l.key \in Int
  BY DEF Leaf
<1>9. CASE k.ns = "num"
  <2>1. Shown(v1, k) = Shown(w1, l)
    BY <1>7, <1>8, <1>9 DEF Shown
  <2>2. \A ns \in NameSpaces : v1.ids[ns] = v.ids[ns] /\ w1.ids[ns] = w.ids[ns]
    BY <1>5, <1>6, <1>7, <1>9 DEF NameSpaces
  <2>3. InStep(v1, w1)
    BY <1>5, <1>6, <2>1, <2>2 DEF InStep
  <2> QED BY <1>1, <1>2, <1>3, <1>4, <2>3
<1>10. CASE k.ns # "num"
  <2>1. k.ns \in NameSpaces
    BY <1>10 DEF Leaf
  <2>2. PICK ns \in NameSpaces : ns = k.ns
    BY <2>1
  <2>3. PICK known \in Numberings : known = v.ids[ns]
    BY DEF Visits
  <2>4. PICK other \in Numberings : other = w.ids[ns]
    BY DEF Visits
  <2>5. PICK a \in Int : a = k.key
    BY <1>8
  <2>6. PICK b \in Int : b = l.key
    BY <1>8
  <2>7. v1.ids[ns] = NextNumbering(known, a) /\ w1.ids[ns] = NextNumbering(other, b)
    BY <1>5, <1>6, <1>7, <2>2, <2>3, <2>4, <2>5, <2>6
  <2>8. Cardinality(DOMAIN known) = Cardinality(DOMAIN other) /\ v.print = w.print
    BY <2>3, <2>4 DEF InStep
  <2>9. ASSUME NEW m \in 1..i, x[m].ns = ns
        PROVE  (x[m].key = a <=> y[m].key = b) /\ y[m].ns = ns
               /\ known[x[m].key] = other[y[m].key]
    <3>1. m \in DOMAIN x /\ m \in DOMAIN y /\ ns # "num"
      BY <1>10, <2>2 DEF Renamed
    <3>2. y[m].ns = ns /\ (x[m].key = a <=> y[m].key = b)
      BY <1>1, <1>2, <1>7, <2>2, <2>5, <2>6, <2>9, <3>1 DEF Renamed
    <3>3. Shown(v, x[m]) = Shown(w, y[m])
      BY <2>8 DEF Seen
    <3>4. PICK p \in Leaf : p = x[m]
      BY <3>1
    <3>5. PICK q \in Leaf : q = y[m]
      BY <3>1
    <3>6. Shown(v, p).key = known[p.key] /\ Shown(w, q).key = other[q.key]
      BY <2>3, <2>4, <2>9, <3>1, <3>2, <3>4, <3>5 DEF Shown, Leaf
    <3> QED BY <3>2, <3>3, <3>4, <3>5, <3>6
  <2>10. a \in DOMAIN known <=> b \in DOMAIN other
    <3>1. a \in DOMAIN known <=> \E m \in 1..i : x[m].ns = ns /\ x[m].key = a
      BY <2>3 DEF Seen
    <3>2. b \in DOMAIN other <=> \E m \in 1..i : y[m].ns = ns /\ y[m].key = b
      BY <2>4 DEF Seen
    <3>3. \A m \in 1..i : x[m].ns = ns <=> y[m].ns = ns
      BY DEF Renamed
    <3> QED BY <2>9, <3>1, <3>2, <3>3
  <2>11. /\ NextNumbering(known, a)[a] = NextNumbering(other, b)[b]
         /\ Cardinality(DOMAIN NextNumbering(known, a)) = Cardinality(DOMAIN NextNumbering(other, b))
    <3>1. PICK ids \in Numberings : ids = NextNumbering(known, a)
      BY NextNumberingRight, Zenon
    <3>2. PICK jds \in Numberings : jds = NextNumbering(other, b)
      BY NextNumberingRight, Zenon
    <3>3. /\ \A key \in DOMAIN known : ids[key] = known[key]
          /\ a \in DOMAIN known => Cardinality(DOMAIN ids) = Cardinality(DOMAIN known)
          /\ a \notin DOMAIN known => /\ ids[a] = Cardinality(DOMAIN known) + 1
                                      /\ Cardinality(DOMAIN ids) = Cardinality(DOMAIN known) + 1
      BY <3>1, NextNumberingRight, Zenon
    <3>4. /\ \A key \in DOMAIN other : jds[key] = other[key]
          /\ b \in DOMAIN other => Cardinality(DOMAIN jds) = Cardinality(DOMAIN other)
          /\ b \notin DOMAIN other => /\ jds[b] = Cardinality(DOMAIN other) + 1
                                      /\ Cardinality(DOMAIN jds) = Cardinality(DOMAIN other) + 1
      BY <3>2, NextNumberingRight, Zenon
    <3>5. CASE a \in DOMAIN known
      <4>1. PICK m \in 1..i : x[m].ns = ns /\ x[m].key = a
        BY <2>3, <3>5 DEF Seen
      <4>2. y[m].key = b /\ known[a] = other[b]
        BY <2>9, <4>1
      <4> QED BY <2>8, <2>10, <3>1, <3>2, <3>3, <3>4, <3>5, <4>2
    <3>6. CASE a \notin DOMAIN known
      BY <2>8, <2>10, <3>1, <3>2, <3>3, <3>4, <3>6
    <3> QED BY <3>5, <3>6
  <2>12. Shown(v1, k) = Shown(w1, l)
    <3>1. PICK c : c = v1.ids[ns][a] /\ c = w1.ids[ns][b]
      BY <2>7, <2>11
    <3>2. Shown(v1, k) = [k EXCEPT !.key = c] /\ Shown(w1, l) = [l EXCEPT !.key = c]
      BY <1>7, <1>10, <2>2, <2>5, <2>6, <3>1 DEF Shown
    <3>3. [k EXCEPT !.key = c] = [form |-> k.form, ns |-> k.ns, key |-> c]
          /\ [l EXCEPT !.key = c] = [form |-> l.form, ns |-> l.ns, key |-> c]
      BY <1>8
    <3> QED BY <1>7, <3>2, <3>3
  <2>13. ASSUME NEW n \in NameSpaces
         PROVE  Cardinality(DOMAIN v1.ids[n]) = Cardinality(DOMAIN w1.ids[n])
    <3>1. CASE n = ns
      BY <2>7, <2>11, <3>1
    <3>2. CASE n # ns
      <4>1. v1.ids[n] = v.ids[n] /\ w1.ids[n] = w.ids[n]
        BY <1>5, <1>6, <1>7, <2>2, <3>2
      <4> QED BY <4>1 DEF InStep
    <3> QED BY <3>1, <3>2
  <2>14. InStep(v1, w1)
    BY <1>5, <1>6, <2>8, <2>12, <2>13 DEF InStep
  <2> QED BY <1>1, <1>2, <1>3, <1>4, <2>14
<1> QED BY <1>9, <1>10

\* Prints are equal only for renamings: the numbers of different names differ.
LEMMA EqualPrintsRename ==
    ASSUME NEW x \in Seq(Leaf), NEW y \in Seq(Leaf), NEW v \in Visits, NEW w \in Visits,
           Seen(x, Len(x), v), Seen(y, Len(y), w), v.print = w.print
    PROVE  Renamed(x, y)
<1>1. Len(x) = Len(y) /\ DOMAIN x = 1..Len(x) /\ DOMAIN y = 1..Len(x)
  BY DEF Seen
<1>2. ASSUME NEW n \in DOMAIN x
      PROVE  /\ x[n].form = y[n].form /\ x[n].ns = y[n].ns
             /\ x[n].ns = "num" => x[n].key = y[n].key
             /\ x[n].ns # "num" =>
                  /\ x[n].ns \in NameSpaces /\ x[n].key \in Int /\ y[n].key \in Int
                  /\ x[n].key \in DOMAIN v.ids[x[n].ns] /\ y[n].key \in DOMAIN w.ids[x[n].ns]
                  /\ v.ids[x[n].ns][x[n].key] = w.ids[x[n].ns][y[n].key]
  <2>1. PICK k \in Leaf : k = x[n]
    OBVIOUS
  <2>2. PICK l \in Leaf : l = y[n]
    BY <1>1
  <2>3. Shown(v, k) = Shown(w, l)
    BY <1>1, <2>1, <2>2 DEF Seen
  <2>4. k = [form |-> k.form, ns |-> k.ns, key |-> k.key] /\ l = [form |-> l.form, ns |-> l.ns, key |-> l.key]
    BY DEF Leaf
  <2>5. Shown(v, k).form = k.form /\ Shown(v, k).ns = k.ns /\ Shown(w, l).form = l.form /\ Shown(w, l).ns = l.ns
    BY <2>4 DEF Shown
  <2>6. k.form = l.form /\ k.ns = l.ns
    BY <2>3, <2>5
  <2>7. CASE k.ns = "num"
    <3>1. k = l
      BY <2>3, <2>6, <2>7 DEF Shown
    <3> QED BY <2>1, <2>2, <2>7, <3>1
  <2>8. CASE k.ns # "num"
    <3>1. k.ns \in NameSpaces /\ k.key \in Int /\ l.key \in Int
      BY <2>8 DEF Leaf
    <3>2. Shown(v, k).key = v.ids[k.ns][k.key] /\ Shown(w, l).key = w.ids[k.ns][l.key]
      BY <2>4, <2>6, <2>8 DEF Shown
    <3>3. k.key \in DOMAIN v.ids[k.ns]
      BY <1>1, <2>1, <3>1 DEF Seen
    <3>4. l.key \in DOMAIN w.ids[k.ns]
      BY <1>1, <2>2, <2>6, <3>1 DEF Seen
    <3> QED BY <2>1, <2>2, <2>3, <2>6, <2>8, <3>1, <3>2, <3>3, <3>4
  <2> QED BY <2>7, <2>8
<1>3. ASSUME NEW m \in DOMAIN x, NEW n \in DOMAIN x, x[m].ns = x[n].ns, x[m].ns # "num"
      PROVE  (x[m].key = x[n].key) <=> (y[m].key = y[n].key)
  <2>1. PICK ns \in NameSpaces : ns = x[m].ns /\ ns = x[n].ns
    BY <1>2, <1>3
  <2>2. PICK a, b, c, d : a = x[m].key /\ b = x[n].key /\ c = y[m].key /\ d = y[n].key
    OBVIOUS
  <2>3. /\ a \in DOMAIN v.ids[ns] /\ b \in DOMAIN v.ids[ns]
        /\ c \in DOMAIN w.ids[ns] /\ d \in DOMAIN w.ids[ns]
        /\ v.ids[ns][a] = w.ids[ns][c] /\ v.ids[ns][b] = w.ids[ns][d]
    BY <1>2, <1>3, <2>1, <2>2
  <2>4. (v.ids[ns][a] = v.ids[ns][b] => a = b) /\ (w.ids[ns][c] = w.ids[ns][d] => c = d)
    BY <2>3 DEF Seen
  <2> QED BY <2>2, <2>3, <2>4
<1> QED BY <1>1, <1>2, <1>3 DEF Renamed

LEMMA PrintsTellRenamings ==
    ASSUME NEW x \in Seq(Leaf), NEW y \in Seq(Leaf)
    PROVE  FoldLeft(See, Fresh, x).print = FoldLeft(See, Fresh, y).print <=> Renamed(x, y)
<1>1. PICK f \in [0..Len(x) -> Visits] :
        /\ f[0] = Fresh
        /\ \A i \in 1..Len(x) : f[i] = See(f[i - 1], x[i])
        /\ FoldLeft(See, Fresh, x) = f[Len(x)]
  BY SeeIsChain
<1>2. PICK g \in [0..Len(y) -> Visits] :
        /\ g[0] = Fresh
        /\ \A i \in 1..Len(y) : g[i] = See(g[i - 1], y[i])
        /\ FoldLeft(See, Fresh, y) = g[Len(y)]
  BY SeeIsChain
<1>3. \A i \in 0..Len(x) : Seen(x, i, f[i])
  BY <1>1, VisitsEndSeen
<1>4. \A i \in 0..Len(y) : Seen(y, i, g[i])
  BY <1>2, VisitsEndSeen
<1>5. Len(x) \in Nat /\ Len(y) \in Nat
  OBVIOUS
<1>6. ASSUME f[Len(x)].print = g[Len(y)].print PROVE Renamed(x, y)
  <2>1. /\ f[Len(x)] \in Visits /\ g[Len(y)] \in Visits
        /\ Seen(x, Len(x), f[Len(x)]) /\ Seen(y, Len(y), g[Len(y)])
    BY <1>3, <1>4, <1>5
  <2> QED BY <1>6, <2>1, EqualPrintsRename
<1>7. ASSUME Renamed(x, y) PROVE f[Len(x)].print = g[Len(y)].print
  <2>1. PICK n \in Nat : n = Len(x) /\ n = Len(y)
    BY <1>5, <1>7 DEF Renamed
  <2> DEFINE P == {i \in 0..n : InStep(f[i], g[i])}
  <2>2. 0 \in P
    <3>1. InStep(Fresh, Fresh)
      BY DEF InStep
    <3> QED BY <1>1, <1>2, <3>1
  <2>3. ASSUME NEW i \in 0..(n - 1), i \in P PROVE i + 1 \in P
    <3>1. i + 1 \in 1..n /\ i + 1 \in 0..n /\ (i + 1) - 1 = i /\ i \in 0..n
      OBVIOUS
    <3>2. /\ f[i + 1] = See(f[i], x[i + 1]) /\ g[i + 1] = See(g[i], y[i + 1])
          /\ f[i] \in Visits /\ g[i] \in Visits /\ Seen(x, i, f[i]) /\ Seen(y, i, g[i])
      BY <1>1, <1>2, <1>3, <1>4, <2>1, <3>1
    <3>3. InStep(f[i], g[i])
      BY <2>3
    <3>4. InStep(f[i + 1], g[i + 1])
      BY <1>7, <2>1, <3>2, <3>3, RenamingsStayInStep
    <3> QED BY <3>1, <3>4
  <2>4. n \in P
    <3> HIDE DEF P
    <3>1. 0 \in Int /\ n \in Int /\ n \in 0..n
      OBVIOUS
    <3>2. \A i \in 0..n : i \in P
      BY <2>2, <2>3, <3>1, InductionBetween
    <3> QED BY <3>1, <3>2
  <2> QED BY <2>1, <2>4 DEF InStep
<1> QED BY <1>1, <1>2, <1>6, <1>7

LEMMA AlphaIsRenamed ==
    ASSUME NEW a, NEW b
    PROVE  AlphaEqual(a, b) <=> Len(a.guest) = Len(b.guest) /\ Renamed(Leaves(a), Leaves(b))
BY DEF AlphaEqual, Renamed

LEMMA LeavesType ==
    ASSUME NEW a, a.guest \in Seq(Leaf), a.host \in Seq(Leaf)
    PROVE  Leaves(a) \in Seq(Leaf)
<1> DEFINE g == a.guest
           h == a.host
<1>1. g \in Seq(Leaf) /\ h \in Seq(Leaf) /\ Leaves(a) = g \o h
  BY DEF Leaves
<1> HIDE DEF g, h
<1> QED BY <1>1

\* docs/architecture.md: the fingerprints of two rules are equal exactly for consistent
\* renumberings.
THEOREM FingerprintsTellRules ==
    ASSUME NEW a, a.guest \in Seq(Leaf), a.host \in Seq(Leaf),
           NEW b, b.guest \in Seq(Leaf), b.host \in Seq(Leaf)
    PROVE  Fingerprint(a) = Fingerprint(b) <=> AlphaEqual(a, b)
<1> DEFINE pa == FoldLeft(See, Fresh, Leaves(a)).print
           pb == FoldLeft(See, Fresh, Leaves(b)).print
<1>1. Fingerprint(a) = [guest |-> Len(a.guest), leaves |-> pa]
      /\ Fingerprint(b) = [guest |-> Len(b.guest), leaves |-> pb]
  BY Zenon DEF Fingerprint, Fresh
<1>2. pa = pb <=> Renamed(Leaves(a), Leaves(b))
  BY LeavesType, PrintsTellRenamings
<1> HIDE DEF pa, pb
<1>3. Fingerprint(a) = Fingerprint(b) <=> Len(a.guest) = Len(b.guest) /\ pa = pb
  BY <1>1
<1> QED BY <1>2, <1>3, AlphaIsRenamed

(***************************************************************************)
(* The inductive invariant.                                                *)
(***************************************************************************)
\* The list of rules and the counters.
Listed ==
    /\ stage \in {"generate", "consolidate", "done"}
    /\ rules \in Seq([id : Nat, rule : Rules])
    /\ emitted \in Nat /\ skipped \in Nat /\ subsumed \in Nat /\ considered \in 0..MaxCandidates
    /\ CountersBalance
    /\ stage # "done" => \A n \in 1..Len(rules) : rules[n].id = n

\* No two rules of the list have one fingerprint; while it grows the set has theirs, and
\* that of every candidate that was refused as a repeat.
Fingerprinted ==
    /\ \A m, n \in 1..Len(rules) :
          m # n => Fingerprint(rules[m].rule) # Fingerprint(rules[n].rule)
    /\ repeats \in SUBSET Rules
    /\ stage = "generate" =>
          /\ \A n \in 1..Len(rules) : Fingerprint(rules[n].rule) \in fingerprints
          /\ \A print \in fingerprints : \E n \in 1..Len(rules) : print = Fingerprint(rules[n].rule)
          /\ \A rule \in repeats : Fingerprint(rule) \in fingerprints

\* An id is subsumed because its rule is an instance of another of the list.
Subsumes ==
    /\ at \in Nat \ {0} /\ subsumedIds \in SUBSET (1..at)
    /\ stage = "generate" => subsumedIds = {} /\ at = 1
    /\ stage = "consolidate" =>
          /\ at <= Len(rules) + 1 /\ subsumedIds \in SUBSET (1..(at - 1))
          /\ \A n \in subsumedIds : \E m \in 1..Len(rules) : IsInstance(rules[n].rule, rules[m].rule)

IInv == Listed /\ Fingerprinted /\ Subsumes

LEMMA RuleAtWork ==
    ASSUME Listed, NEW n \in 1..Len(rules)
    PROVE  rules[n].rule \in Rules /\ rules[n].rule.guest \in Seq(Leaf) /\ rules[n].rule.host \in Seq(Leaf)
<1>1. rules[n] \in [id : Nat, rule : Rules]
  <2> DEFINE S == [id : Nat, rule : Rules]
  <2>1. rules \in Seq(S)
    BY DEF Listed
  <2> HIDE DEF S
  <2>2. rules[n] \in S
    BY <2>1
  <2> QED BY <2>2 DEF S
<1>2. rules[n].rule \in Rules
  BY <1>1
<1> QED BY <1>2, RulesHaveLeaves

\* What the invariant says of fingerprints is what the property says of renamings.
LEMMA InvariantGives == IInv => RepeatsAreExact
<1> SUFFICES ASSUME IInv PROVE RepeatsAreExact
  OBVIOUS
<1>1. PICK n \in Nat : n = Len(rules) /\ DOMAIN rules = 1..n
  BY DEF IInv, Listed
<1>2. TypeOK
  BY <1>1, RuleAtWork DEF IInv, TypeOK, Listed, Subsumes
<1>3. NoTwoAlike
  <2> SUFFICES ASSUME NEW m \in 1..n, NEW k \in 1..n, m # k
               PROVE  ~AlphaEqual(rules[m].rule, rules[k].rule)
    BY <1>1 DEF NoTwoAlike
  <2>1. Fingerprint(rules[m].rule) # Fingerprint(rules[k].rule)
    BY <1>1 DEF IInv, Fingerprinted
  <2> QED BY <1>1, <2>1, RuleAtWork, FingerprintsTellRules DEF IInv
<1>4. RepeatsRepeat
  <2> SUFFICES ASSUME stage = "generate", NEW rule \in repeats
               PROVE  \E r \in Range(rules) : AlphaEqual(rule, r.rule)
    BY DEF RepeatsRepeat
  <2>1. rule \in Rules /\ Fingerprint(rule) \in fingerprints
    BY DEF IInv, Fingerprinted
  <2>2. PICK k \in 1..n : Fingerprint(rule) = Fingerprint(rules[k].rule)
    BY <1>1, <2>1 DEF IInv, Fingerprinted
  <2>3. rule.guest \in Seq(Leaf) /\ rule.host \in Seq(Leaf)
    BY <2>1, RulesHaveLeaves
  <2>4. rules[k].rule.guest \in Seq(Leaf) /\ rules[k].rule.host \in Seq(Leaf)
    BY <1>1, RuleAtWork DEF IInv
  <2>5. AlphaEqual(rule, rules[k].rule)
    BY <2>2, <2>3, <2>4, FingerprintsTellRules
  <2> QED BY <1>1, <2>5 DEF Range
<1> QED BY <1>2, <1>3, <1>4 DEF IInv, Listed, RepeatsAreExact

LEMMA InitInvariant == Init => IInv
BY MaxCandidatesIsNat DEF Init, IInv, Listed, Fingerprinted, Subsumes, CountersBalance

LEMMA EmitKeeps ==
    ASSUME IInv, NEW rule \in Rules, Emit(rule)
    PROVE  IInv'
<1>1. PICK n \in Nat : n = Len(rules) /\ rules \in Seq([id : Nat, rule : Rules])
  BY DEF IInv, Listed
<1>2. /\ rules' = Append(rules, [id |-> n + 1, rule |-> rule])
      /\ stage = "generate" /\ stage' = "generate"
      /\ UNCHANGED <<subsumedIds, at, subsumed, skipped, repeats>>
      /\ considered < MaxCandidates /\ considered' = considered + 1 /\ emitted' = emitted + 1
      /\ Fingerprint(rule) \notin fingerprints /\ fingerprints' = fingerprints \cup {Fingerprint(rule)}
  BY <1>1 DEF Emit, Record
<1>3. [id |-> n + 1, rule |-> rule] \in [id : Nat, rule : Rules]
  OBVIOUS
<1>4. /\ rules' \in Seq([id : Nat, rule : Rules]) /\ Len(rules') = n + 1
      /\ rules'[n + 1] = [id |-> n + 1, rule |-> rule] /\ \A k \in 1..n : rules'[k] = rules[k]
  BY <1>1, <1>2, <1>3
<1>5. rules'[n + 1].rule = rule /\ rules'[n + 1].id = n + 1
  BY <1>4
<1>6. Listed'
  <2>1. \A k \in 1..(n + 1) : rules'[k].id = k
    <3>1. \A k \in 1..n : rules[k].id = k
      BY <1>1, <1>2 DEF IInv, Listed
    <3>2. \A k \in 1..(n + 1) : k \in 1..n \/ k = n + 1
      OBVIOUS
    <3> QED BY <1>4, <1>5, <3>1, <3>2
  <2>2. /\ emitted \in Nat /\ skipped \in Nat /\ subsumed \in Nat /\ considered \in 0..MaxCandidates
        /\ considered = emitted + skipped + subsumed /\ emitted = n /\ skipped' = skipped
    BY <1>1 DEF IInv, Listed, CountersBalance, Emit
  <2>3. CountersBalance' /\ emitted' \in Nat /\ considered' \in 0..MaxCandidates
    BY <1>2, <1>4, <2>2, MaxCandidatesIsNat DEF CountersBalance
  <2> QED BY <1>2, <1>4, <2>1, <2>2, <2>3 DEF Listed
<1>7. \A k \in 1..n : Fingerprint(rules[k].rule) \in fingerprints /\ rules'[k].rule = rules[k].rule
  BY <1>1, <1>2, <1>4 DEF IInv, Fingerprinted
<1>8. Fingerprinted'
  <2>1. ASSUME NEW m \in 1..(n + 1), NEW k \in 1..(n + 1), m # k
        PROVE  Fingerprint(rules'[m].rule) # Fingerprint(rules'[k].rule)
    <3>1. CASE m = n + 1
      BY <1>2, <1>5, <1>7, <2>1, <3>1
    <3>2. CASE k = n + 1
      BY <1>2, <1>5, <1>7, <2>1, <3>2
    <3>3. CASE m # n + 1 /\ k # n + 1
      <4>1. m \in 1..n /\ k \in 1..n
        BY <3>3
      <4>2. Fingerprint(rules[m].rule) # Fingerprint(rules[k].rule)
        BY <1>1, <2>1, <4>1 DEF IInv, Fingerprinted
      <4> QED BY <1>7, <4>1, <4>2
    <3> QED BY <3>1, <3>2, <3>3
  <2>2. \A k \in 1..(n + 1) : Fingerprint(rules'[k].rule) \in fingerprints'
    BY <1>2, <1>5, <1>7
  <2>3. ASSUME NEW print \in fingerprints'
        PROVE  \E k \in 1..(n + 1) : print = Fingerprint(rules'[k].rule)
    <3>1. CASE print = Fingerprint(rule)
      BY <1>5, <3>1
    <3>2. CASE print \in fingerprints
      <4>1. PICK k \in 1..n : print = Fingerprint(rules[k].rule)
        BY <1>1, <1>2, <3>2 DEF IInv, Fingerprinted
      <4> QED BY <1>7, <4>1
    <3> QED BY <1>2, <3>1, <3>2
  <2>4. repeats' \in SUBSET Rules /\ \A r \in repeats' : Fingerprint(r) \in fingerprints'
    BY <1>2 DEF IInv, Fingerprinted
  <2> QED BY <1>4, <2>1, <2>2, <2>3, <2>4 DEF Fingerprinted
<1>9. Subsumes'
  BY <1>2 DEF IInv, Subsumes
<1> QED BY <1>6, <1>8, <1>9 DEF IInv

LEMMA ConsolidateKeeps ==
    ASSUME IInv, Consolidate
    PROVE  IInv'
<1>1. PICK n \in Nat : n = Len(rules) /\ DOMAIN rules = 1..n
  BY DEF IInv, Listed
<1>2. /\ stage = "consolidate" /\ stage' = "consolidate" /\ at <= n /\ at' = at + 1
      /\ UNCHANGED <<rules, fingerprints, repeats, considered, emitted, subsumed, skipped>>
      /\ subsumedIds' = IF \E j \in DOMAIN rules \ {at} : IsInstance(rules[at].rule, rules[j].rule)
                        THEN subsumedIds \cup {rules[at].id} ELSE subsumedIds
  BY <1>1 DEF Consolidate, counters
<1>3. at \in 1..n /\ rules[at].id = at /\ subsumedIds \in SUBSET (1..(at - 1))
  BY <1>1, <1>2 DEF IInv, Listed, Subsumes
<1>4. Listed' /\ Fingerprinted'
  BY <1>2 DEF IInv, Listed, Fingerprinted, CountersBalance
<1>5. at' \in Nat \ {0} /\ at' <= n + 1 /\ subsumedIds' \in SUBSET (1..(at' - 1)) /\ subsumedIds' \in SUBSET (1..at')
  BY <1>2, <1>3
<1>6. \A k \in subsumedIds' : \E m \in 1..n : IsInstance(rules[k].rule, rules[m].rule)
  <2>1. \A k \in subsumedIds : \E m \in 1..n : IsInstance(rules[k].rule, rules[m].rule)
    BY <1>1, <1>2 DEF IInv, Subsumes
  <2>2. CASE \E j \in DOMAIN rules \ {at} : IsInstance(rules[at].rule, rules[j].rule)
    BY <1>1, <1>2, <1>3, <2>1, <2>2
  <2>3. CASE ~\E j \in DOMAIN rules \ {at} : IsInstance(rules[at].rule, rules[j].rule)
    BY <1>2, <2>1, <2>3
  <2> QED BY <2>2, <2>3
<1>7. Subsumes'
  BY <1>1, <1>2, <1>5, <1>6 DEF Subsumes
<1> QED BY <1>4, <1>7 DEF IInv

\* The ids to be removed, and the list that is left.
LEMMA RecordSubsumedRight ==
    ASSUME IInv, RecordSubsumed
    PROVE  /\ subsumedIds \in SUBSET (1..Len(rules))
           /\ rules' \in Seq([id : Nat, rule : Rules])
           /\ Cardinality(subsumedIds) \in 0..Len(rules)
           /\ Len(rules') = Len(rules) - Cardinality(subsumedIds)
           /\ LeftOf(rules, subsumedIds, Len(rules), rules')
           /\ stage = "consolidate" /\ stage' = "done"
<1> DEFINE S == [id : Nat, rule : Rules]
<1>1. rules \in Seq(S) /\ \A k \in 1..Len(rules) : rules[k].id = k
  BY DEF IInv, Listed, RecordSubsumed
<1>2. subsumedIds \in SUBSET (1..Len(rules))
  BY DEF IInv, Subsumes, RecordSubsumed, Listed
<1>3. rules' = Remaining(rules, subsumedIds) /\ stage = "consolidate" /\ stage' = "done"
  BY DEF RecordSubsumed
<1> HIDE DEF S
<1>4. Remaining(rules, subsumedIds) \in Seq(S) /\ LeftOf(rules, subsumedIds, Len(rules), Remaining(rules, subsumedIds))
  BY <1>1, RemainingPlaces
<1>5. /\ Cardinality(subsumedIds) \in 0..Len(rules)
      /\ Len(Remaining(rules, subsumedIds)) = Len(rules) - Cardinality(subsumedIds)
  BY <1>1, <1>2, NumberedRemainingCount
<1> QED BY <1>2, <1>3, <1>4, <1>5 DEF S

LEMMA RecordSubsumedKeeps ==
    ASSUME IInv, RecordSubsumed
    PROVE  IInv'
<1>1. PICK n \in Nat : n = Len(rules)
  BY DEF IInv, Listed
<1>2. PICK c \in 0..n : c = Cardinality(subsumedIds)
  BY <1>1, RecordSubsumedRight
<1>3. /\ rules' \in Seq([id : Nat, rule : Rules]) /\ Len(rules') = n - c
      /\ LeftOf(rules, subsumedIds, n, rules') /\ stage' = "done"
  BY <1>1, <1>2, RecordSubsumedRight
<1>4. /\ UNCHANGED <<fingerprints, subsumedIds, at, considered, skipped, repeats>>
      /\ subsumed' = subsumed + c /\ emitted' = emitted - c
  BY <1>2 DEF RecordSubsumed
<1>5. Listed'
  <2>1. /\ emitted \in Nat /\ skipped \in Nat /\ subsumed \in Nat /\ considered \in 0..MaxCandidates
        /\ considered = emitted + skipped + subsumed /\ emitted = n
    BY <1>1 DEF IInv, Listed, CountersBalance
  <2>2. emitted' \in Nat /\ skipped' \in Nat /\ subsumed' \in Nat /\ considered' \in 0..MaxCandidates
    BY <1>1, <1>2, <1>4, <2>1
  <2>3. CountersBalance'
    <3>1. considered' = emitted' + skipped' + subsumed' /\ emitted' = n - c
      BY <1>1, <1>2, <1>4, <2>1
    <3> QED BY <1>3, <3>1 DEF CountersBalance
  <2> QED BY <1>3, <2>2, <2>3 DEF Listed
<1>6. PICK place \in [1..Len(rules') -> 1..n] :
        /\ \A k, m \in 1..Len(rules') : k < m => place[k] < place[m]
        /\ \A k \in 1..Len(rules') : rules'[k] = rules[place[k]]
  BY <1>3 DEF LeftOf
<1>7. Fingerprinted'
  <2>1. ASSUME NEW m \in 1..Len(rules'), NEW k \in 1..Len(rules'), m # k
        PROVE  Fingerprint(rules'[m].rule) # Fingerprint(rules'[k].rule)
    <3>1. place[m] # place[k] /\ place[m] \in 1..n /\ place[k] \in 1..n
      <4>1. m < k \/ k < m
        BY <1>3, <2>1
      <4> QED BY <1>6, <4>1
    <3>2. Fingerprint(rules[place[m]].rule) # Fingerprint(rules[place[k]].rule)
      BY <1>1, <3>1 DEF IInv, Fingerprinted
    <3> QED BY <1>6, <3>2
  <2> QED BY <1>3, <1>4, <2>1 DEF IInv, Fingerprinted
<1>8. Subsumes'
  BY <1>3, <1>4 DEF IInv, Subsumes
<1> QED BY <1>5, <1>7, <1>8 DEF IInv

LEMMA StepInvariant == IInv /\ [Next]_vars => IInv'
<1> SUFFICES ASSUME IInv, [Next]_vars PROVE IInv'
  OBVIOUS
<1>1. ASSUME NEW rule \in Rules, Emit(rule) PROVE IInv'
  BY <1>1, EmitKeeps
<1>2. ASSUME NEW rule \in Rules, Repeat(rule) PROVE IInv'
  <2>1. /\ UNCHANGED <<stage, rules, fingerprints, subsumedIds, at, emitted, subsumed>>
        /\ considered < MaxCandidates /\ considered' = considered + 1 /\ skipped' = skipped + 1
        /\ repeats' = repeats \cup {rule} /\ Fingerprint(rule) \in fingerprints
    BY <1>2 DEF Repeat, Record
  <2>2. Listed'
    BY <2>1, MaxCandidatesIsNat DEF IInv, Listed, CountersBalance
  <2>3. Fingerprinted' /\ Subsumes'
    BY <2>1 DEF IInv, Fingerprinted, Subsumes
  <2> QED BY <2>2, <2>3 DEF IInv
<1>3. CASE Skip
  <2>1. /\ UNCHANGED <<stage, rules, fingerprints, subsumedIds, at, emitted, subsumed, repeats>>
        /\ considered < MaxCandidates /\ considered' = considered + 1 /\ skipped' = skipped + 1
    BY <1>3 DEF Skip, Record
  <2>2. Listed'
    BY <2>1, MaxCandidatesIsNat DEF IInv, Listed, CountersBalance
  <2>3. Fingerprinted' /\ Subsumes'
    BY <2>1 DEF IInv, Fingerprinted, Subsumes
  <2> QED BY <2>2, <2>3 DEF IInv
<1>4. CASE EndOfRegions
  <2>1. /\ UNCHANGED <<rules, fingerprints, subsumedIds, at, repeats, considered, emitted, subsumed, skipped>>
        /\ stage = "generate" /\ stage' \in {"done", "consolidate"}
    BY <1>4 DEF EndOfRegions, counters
  <2>2. Listed' /\ Fingerprinted'
    BY <2>1 DEF IInv, Listed, Fingerprinted, CountersBalance
  <2>3. subsumedIds = {} /\ at = 1 /\ Len(rules) \in Nat
    BY <2>1 DEF IInv, Subsumes, Listed
  <2>4. Subsumes'
    BY <2>1, <2>3 DEF Subsumes
  <2> QED BY <2>2, <2>4 DEF IInv
<1>5. CASE Consolidate
  BY <1>5, ConsolidateKeeps
<1>6. CASE RecordSubsumed
  BY <1>6, RecordSubsumedKeeps
<1>7. CASE UNCHANGED vars
  BY <1>7 DEF vars, counters, IInv, Listed, Fingerprinted, Subsumes, CountersBalance
<1> QED BY <1>1, <1>2, <1>3, <1>4, <1>5, <1>6, <1>7 DEF Next

LEMMA Invariant == Spec => []IInv
BY InitInvariant, StepInvariant, PTL DEF Spec

\* A candidate is refused exactly when it is a renaming of a rule that was kept, and the
\* counters account for every candidate, consolidation included.
THEOREM RepeatsExact == Spec => []RepeatsAreExact
BY Invariant, InvariantGives, PTL

(***************************************************************************)
(* What an instance is: zero in place of some immediates, up to renaming.  *)
(***************************************************************************)
ZeroLeaf(leaf) == [form |-> IF leaf.form = "neg" THEN "plain" ELSE leaf.form, ns |-> "num", key |-> 0]

Zeroed(x, ids) ==
    [n \in DOMAIN x |-> IF x[n].ns = "imm" /\ x[n].key \in ids THEN ZeroLeaf(x[n]) ELSE x[n]]

LEMMA ZeroedType ==
    ASSUME NEW x \in Seq(Leaf), NEW ids
    PROVE  /\ Zeroed(x, ids) \in Seq(Leaf) /\ Len(Zeroed(x, ids)) = Len(x)
           /\ \A n \in 1..Len(x) : Zeroed(x, ids)[n] =
                 IF x[n].ns = "imm" /\ x[n].key \in ids THEN ZeroLeaf(x[n]) ELSE x[n]
<1>1. \A n \in 1..Len(x) : x[n] \in Leaf
  OBVIOUS
<1>2. \A leaf \in Leaf : ZeroLeaf(leaf) \in Leaf
  BY RulesHaveLeaves DEF ZeroLeaf, Leaf
<1>3. Len(x) \in Nat /\ DOMAIN x = 1..Len(x)
  OBVIOUS
<1>4. \A n \in 1..Len(x) : (IF x[n].ns = "imm" /\ x[n].key \in ids THEN ZeroLeaf(x[n]) ELSE x[n]) \in Leaf
  BY <1>1, <1>2
<1> QED BY <1>3, <1>4 DEF Zeroed

LEMMA ConcatPlaces ==
    ASSUME NEW S, NEW g \in Seq(S), NEW h \in Seq(S)
    PROVE  /\ g \o h \in Seq(S) /\ Len(g \o h) = Len(g) + Len(h)
           /\ \A n \in 1..Len(g \o h) : (g \o h)[n] = IF n <= Len(g) THEN g[n] ELSE h[n - Len(g)]
OBVIOUS

LEMMA ZeroInLeaves ==
    ASSUME NEW a, a.guest \in Seq(Leaf), a.host \in Seq(Leaf), NEW ids
    PROVE  /\ ZeroIn(a, ids).guest \in Seq(Leaf) /\ ZeroIn(a, ids).host \in Seq(Leaf)
           /\ Len(ZeroIn(a, ids).guest) = Len(a.guest)
           /\ Leaves(ZeroIn(a, ids)) = Zeroed(Leaves(a), ids)
<1>1. PICK g \in Seq(Leaf) : g = a.guest
  OBVIOUS
<1>2. PICK h \in Seq(Leaf) : h = a.host
  OBVIOUS
<1>3. ZeroIn(a, ids) = [guest |-> Zeroed(g, ids), host |-> Zeroed(h, ids)]
  BY <1>1, <1>2, Zenon DEF ZeroIn, Zeroed, ZeroLeaf
<1>4. ZeroIn(a, ids).guest = Zeroed(g, ids) /\ ZeroIn(a, ids).host = Zeroed(h, ids)
  BY <1>3
<1>5. Leaves(a) = g \o h /\ Leaves(ZeroIn(a, ids)) = Zeroed(g, ids) \o Zeroed(h, ids)
  BY <1>1, <1>2, <1>4 DEF Leaves
<1>6. PICK y \in Seq(Leaf) : /\ y = Zeroed(g, ids) /\ Len(y) = Len(g)
        /\ \A n \in 1..Len(g) : y[n] = IF g[n].ns = "imm" /\ g[n].key \in ids THEN ZeroLeaf(g[n]) ELSE g[n]
  BY ZeroedType, Zenon
<1>7. PICK z \in Seq(Leaf) : /\ z = Zeroed(h, ids) /\ Len(z) = Len(h)
        /\ \A n \in 1..Len(h) : z[n] = IF h[n].ns = "imm" /\ h[n].key \in ids THEN ZeroLeaf(h[n]) ELSE h[n]
  BY ZeroedType, Zenon
<1>8. PICK x \in Seq(Leaf) : x = g \o h
  BY ConcatPlaces
<1>9. PICK w \in Seq(Leaf) : /\ w = Zeroed(x, ids) /\ Len(w) = Len(x)
        /\ \A n \in 1..Len(x) : w[n] = IF x[n].ns = "imm" /\ x[n].key \in ids THEN ZeroLeaf(x[n]) ELSE x[n]
  BY ZeroedType, Zenon
<1>10. /\ Len(x) = Len(g) + Len(h) /\ Len(y \o z) = Len(g) + Len(h) /\ y \o z \in Seq(Leaf)
       /\ \A n \in 1..Len(x) : x[n] = IF n <= Len(g) THEN g[n] ELSE h[n - Len(g)]
       /\ \A n \in 1..Len(x) : (y \o z)[n] = IF n <= Len(g) THEN y[n] ELSE z[n - Len(g)]
  <2>1. /\ g \o h \in Seq(Leaf) /\ Len(g \o h) = Len(g) + Len(h)
        /\ \A n \in 1..Len(g \o h) : (g \o h)[n] = IF n <= Len(g) THEN g[n] ELSE h[n - Len(g)]
    BY ConcatPlaces
  <2>2. /\ y \o z \in Seq(Leaf) /\ Len(y \o z) = Len(y) + Len(z)
        /\ \A n \in 1..Len(y \o z) : (y \o z)[n] = IF n <= Len(y) THEN y[n] ELSE z[n - Len(y)]
    BY ConcatPlaces
  <2> QED BY ONLY <1>6, <1>7, <1>8, <2>1, <2>2
<1>11. ASSUME NEW n \in 1..Len(x) PROVE (y \o z)[n] = w[n]
  <2>1. CASE n <= Len(g)
    <3>1. n \in 1..Len(g)
      BY <2>1
    <3> QED BY <1>6, <1>9, <1>10, <2>1, <3>1
  <2>2. CASE ~(n <= Len(g))
    <3>1. n - Len(g) \in 1..Len(h)
      BY <1>10, <2>2
    <3> QED BY <1>7, <1>9, <1>10, <2>2, <3>1
  <2> QED BY <2>1, <2>2
<1>12. y \o z = w
  BY <1>9, <1>10, <1>11, SeqEqual
<1> QED BY <1>4, <1>5, <1>6, <1>7, <1>8, <1>9, <1>12, <1>1

LEMMA RenamedReflexive == ASSUME NEW x PROVE Renamed(x, x)
BY DEF Renamed

LEMMA RenamedTransitive ==
    ASSUME NEW x \in Seq(Leaf), NEW y \in Seq(Leaf), NEW z \in Seq(Leaf), Renamed(x, y), Renamed(y, z)
    PROVE  Renamed(x, z)
<1>1. DOMAIN x = DOMAIN y /\ Len(x) = Len(z)
  BY DEF Renamed
<1> QED BY <1>1 DEF Renamed

\* An instance of an instance is an instance.
LEMMA InstancesCompose ==
    ASSUME NEW x \in Seq(Leaf), NEW y \in Seq(Leaf), NEW z \in Seq(Leaf), NEW J, NEW K,
           Renamed(Zeroed(x, J), y), Renamed(Zeroed(y, K), z)
    PROVE  LET all == J \cup {x[n].key : n \in {m \in 1..Len(x) : y[m].ns = "imm" /\ y[m].key \in K}}
           IN  Renamed(Zeroed(x, all), z)
<1> DEFINE all == J \cup {x[n].key : n \in {m \in 1..Len(x) : y[m].ns = "imm" /\ y[m].key \in K}}
<1>1. PICK u \in Seq(Leaf) : /\ u = Zeroed(x, J) /\ Len(u) = Len(x)
        /\ \A n \in 1..Len(x) : u[n] = IF x[n].ns = "imm" /\ x[n].key \in J THEN ZeroLeaf(x[n]) ELSE x[n]
  BY ZeroedType, Zenon
<1>2. PICK v \in Seq(Leaf) : /\ v = Zeroed(y, K) /\ Len(v) = Len(y)
        /\ \A n \in 1..Len(y) : v[n] = IF y[n].ns = "imm" /\ y[n].key \in K THEN ZeroLeaf(y[n]) ELSE y[n]
  BY ZeroedType, Zenon
<1>4. /\ \A n \in 1..Len(x) : x[n].key \in J => x[n].key \in all
      /\ \A n \in 1..Len(x) : (x[n].key \in all /\ x[n].key \notin J)
            => \E m \in 1..Len(x) : y[m].ns = "imm" /\ y[m].key \in K /\ x[m].key = x[n].key
      /\ \A n \in 1..Len(x) : (y[n].ns = "imm" /\ y[n].key \in K) => x[n].key \in all
  OBVIOUS
<1> HIDE DEF all
<1>3. PICK w \in Seq(Leaf) : /\ w = Zeroed(x, all) /\ Len(w) = Len(x)
        /\ \A n \in 1..Len(x) : w[n] = IF x[n].ns = "imm" /\ x[n].key \in all THEN ZeroLeaf(x[n]) ELSE x[n]
  BY ZeroedType, Zenon
<1>5. /\ Renamed(u, y)
      /\ DOMAIN u = 1..Len(u) /\ DOMAIN v = 1..Len(v) /\ DOMAIN w = 1..Len(w)
  BY <1>1
<1>13. PICK len \in Nat : len = Len(x) /\ len = Len(y) /\ Len(u) = len /\ Len(v) = len /\ Len(w) = len
  <2>1. Len(u) = Len(y)
    BY <1>5, Zenon DEF Renamed
  <2>2. Len(u) = Len(x) /\ Len(v) = Len(y) /\ Len(w) = Len(x) /\ Len(x) \in Nat
    BY <1>1, <1>2, <1>3
  <2> QED BY <2>1, <2>2
<1>6. /\ DOMAIN u = 1..len /\ DOMAIN v = 1..len /\ DOMAIN w = 1..len
      /\ \A n \in 1..len : u[n].form = y[n].form /\ u[n].ns = y[n].ns /\ (u[n].ns = "num" => u[n].key = y[n].key)
      /\ \A m, n \in 1..len : (u[m].ns = u[n].ns /\ u[m].ns # "num") => ((u[m].key = u[n].key) <=> (y[m].key = y[n].key))
  <2>1. DOMAIN u = 1..len /\ DOMAIN v = 1..len /\ DOMAIN w = 1..len
    BY <1>5, <1>13
  <2>2. /\ \A n \in DOMAIN u : u[n].form = y[n].form /\ u[n].ns = y[n].ns /\ (u[n].ns = "num" => u[n].key = y[n].key)
        /\ \A m, n \in DOMAIN u : (u[m].ns = u[n].ns /\ u[m].ns # "num") => ((u[m].key = u[n].key) <=> (y[m].key = y[n].key))
    BY <1>5, Zenon DEF Renamed
  <2> QED BY <2>1, <2>2, Zenon
<1>7. \A leaf : /\ ZeroLeaf(leaf).ns = "num" /\ ZeroLeaf(leaf).key = 0
                /\ ZeroLeaf(leaf).form = IF leaf.form = "neg" THEN "plain" ELSE leaf.form
  BY DEF ZeroLeaf
<1>8. ASSUME NEW n \in 1..len
      PROVE  /\ w[n].form = v[n].form /\ w[n].ns = v[n].ns /\ (w[n].ns = "num" => w[n].key = v[n].key)
             /\ w[n].ns # "num" => w[n] = u[n] /\ v[n] = y[n]
  <2>1. CASE x[n].ns # "imm"
    <3>1. w[n] = x[n] /\ u[n] = x[n]
      BY <1>1, <1>3, <1>13, <2>1
    <3>2. v[n] = y[n]
      BY <1>2, <1>13, <1>6, <2>1, <3>1
    <3> QED BY <1>6, <3>1, <3>2
  <2>2. CASE x[n].ns = "imm" /\ x[n].key \in J
    <3>1. w[n] = ZeroLeaf(x[n]) /\ u[n] = ZeroLeaf(x[n])
      BY <1>1, <1>3, <1>4, <1>13, <2>2
    <3>2. y[n].ns = "num"
      BY <1>6, <1>7, <3>1
    <3>3. v[n] = y[n]
      BY <1>2, <1>13, <3>2
    <3> QED BY <1>6, <1>7, <3>1, <3>3
  <2>3. CASE x[n].ns = "imm" /\ x[n].key \notin J
    <3>1. u[n] = x[n] /\ y[n].ns = "imm" /\ y[n].form = x[n].form
      BY <1>1, <1>13, <1>6, <2>3
    <3>2. y[n].key \in K <=> x[n].key \in all
      <4>1. ASSUME x[n].key \in all PROVE y[n].key \in K
        <5>1. PICK m \in 1..len : y[m].ns = "imm" /\ y[m].key \in K /\ x[m].key = x[n].key
          BY <1>4, <1>13, <2>3, <4>1
        <5>2. u[m].ns = "imm"
          BY <1>6, <5>1
        <5>3. u[m] = x[m]
          BY <1>1, <1>13, <1>7, <5>2
        <5>4. u[m].key = u[n].key /\ u[m].ns = u[n].ns /\ u[m].ns # "num"
          BY <2>3, <3>1, <5>1, <5>2, <5>3
        <5>5. y[m].key = y[n].key
          BY <1>6, <5>4
        <5> QED BY <5>1, <5>5
      <4> QED BY <1>4, <1>13, <3>1, <4>1
    <3>3. CASE y[n].key \in K
      <4>1. w[n] = ZeroLeaf(x[n]) /\ v[n] = ZeroLeaf(y[n])
        BY <1>2, <1>3, <1>13, <2>3, <3>1, <3>2, <3>3
      <4> QED BY <1>7, <3>1, <4>1
    <3>4. CASE y[n].key \notin K
      <4>1. w[n] = x[n] /\ v[n] = y[n]
        BY <1>2, <1>3, <1>13, <2>3, <3>1, <3>2, <3>4
      <4> QED BY <2>3, <3>1, <4>1
    <3> QED BY <3>3, <3>4
  <2> QED BY <2>1, <2>2, <2>3
<1>9. ASSUME NEW m \in 1..len, NEW n \in 1..len, w[m].ns = w[n].ns, w[m].ns # "num"
      PROVE  (w[m].key = w[n].key) <=> (v[m].key = v[n].key)
  BY <1>6, <1>8, <1>9
<1>10. Renamed(w, v)
  BY <1>13, <1>6, <1>8, <1>9 DEF Renamed
<1>11. Renamed(v, z)
  BY <1>2
<1>12. Renamed(w, z)
  BY <1>10, <1>11, RenamedTransitive
<1> QED BY <1>3, <1>12 DEF all

\* The places of the immediates: an instance has fewer.
Imms(x) == {n \in 1..Len(x) : x[n].ns = "imm"}

LEMMA InstancesShrink ==
    ASSUME NEW x \in Seq(Leaf), NEW y \in Seq(Leaf), NEW k \in 1..Len(x), x[k].ns = "imm",
           Renamed(Zeroed(x, {x[k].key}), y)
    PROVE  /\ IsFiniteSet(Imms(x)) /\ IsFiniteSet(Imms(y))
           /\ Cardinality(Imms(x)) \in 0..Len(x) /\ Cardinality(Imms(y)) \in 0..Len(x)
           /\ Cardinality(Imms(y)) < Cardinality(Imms(x))
           /\ Len(x) = Len(y)
<1>1. PICK u \in Seq(Leaf) : /\ u = Zeroed(x, {x[k].key}) /\ Len(u) = Len(x)
        /\ \A n \in 1..Len(x) : u[n] = IF x[n].ns = "imm" /\ x[n].key \in {x[k].key} THEN ZeroLeaf(x[n]) ELSE x[n]
  BY ZeroedType, Zenon
<1>13. Renamed(u, y) /\ DOMAIN u = 1..Len(u)
  BY <1>1
<1>2. PICK len \in Nat : len = Len(x) /\ len = Len(y) /\ len = Len(u)
  <2>1. Len(u) = Len(y)
    BY <1>13, Zenon DEF Renamed
  <2>2. Len(u) = Len(x) /\ Len(x) \in Nat
    BY <1>1
  <2> QED BY <2>1, <2>2
<1>3. DOMAIN u = 1..len /\ \A n \in 1..len : u[n].ns = y[n].ns
  <2>1. \A n \in DOMAIN u : u[n].ns = y[n].ns
    BY <1>13, Zenon DEF Renamed
  <2>2. DOMAIN u = 1..len
    BY <1>13, <1>2
  <2> QED BY <2>1, <2>2
<1>4. \A leaf : ZeroLeaf(leaf).ns = "num"
  BY DEF ZeroLeaf
<1>5. Imms(y) \in SUBSET Imms(x) /\ k \in Imms(x) /\ k \notin Imms(y)
  <2>1. ASSUME NEW n \in Imms(y) PROVE n \in Imms(x)
    <3>1. n \in 1..len /\ u[n].ns = "imm"
      BY <1>2, <1>3, <2>1 DEF Imms
    <3>2. u[n] = x[n]
      BY <1>1, <1>2, <1>4, <3>1
    <3> QED BY <1>2, <3>1, <3>2 DEF Imms
  <2>2. u[k] = ZeroLeaf(x[k])
    BY <1>1
  <2>3. k \notin Imms(y)
    BY <1>2, <1>3, <1>4, <2>2 DEF Imms
  <2> QED BY <2>1, <2>3 DEF Imms
<1> DEFINE I == Imms(x)
           L == Imms(y)
           N == 1..len
<1>6. IsFiniteSet(N) /\ Cardinality(N) = len
  <2>1. 1 \in Int /\ len \in Int
    OBVIOUS
  <2>2. IsFiniteSet(1..len) /\ Cardinality(1..len) = IF 1 > len THEN 0 ELSE len - 1 + 1
    BY <2>1, FS_Interval
  <2> QED BY <2>2
<1>7. I \in SUBSET N /\ L \in SUBSET N
  BY <1>2 DEF Imms
<1>8. L \in SUBSET I /\ k \in I /\ k \notin L
  BY <1>5
<1> HIDE DEF I, L, N
<1>9. /\ IsFiniteSet(I) /\ Cardinality(I) <= Cardinality(N)
      /\ IsFiniteSet(L) /\ Cardinality(L) <= Cardinality(N)
  BY <1>6, <1>7, FS_Subset
<1>10. Cardinality(I) \in Nat /\ Cardinality(L) \in Nat
  BY <1>9, FS_CardinalityType
<1>11. /\ Cardinality(L) <= Cardinality(I)
       /\ Cardinality(L) = Cardinality(I) => L = I
  BY <1>8, <1>9, FS_Subset
<1> QED BY <1>2, <1>6, <1>8, <1>9, <1>10, <1>11 DEF I, L

(***************************************************************************)
(* A rule covers those that it is with zero for some of its immediates.    *)
(***************************************************************************)
Covers(a, b) == \E ids : AlphaEqual(ZeroIn(a, ids), b)

HasLeaves(a) == a.guest \in Seq(Leaf) /\ a.host \in Seq(Leaf)

LEMMA CoversLeaves ==
    ASSUME NEW a, HasLeaves(a), NEW b, HasLeaves(b), NEW ids
    PROVE  AlphaEqual(ZeroIn(a, ids), b)
             <=> Len(a.guest) = Len(b.guest) /\ Renamed(Zeroed(Leaves(a), ids), Leaves(b))
<1>1. /\ Len(ZeroIn(a, ids).guest) = Len(a.guest)
      /\ Leaves(ZeroIn(a, ids)) = Zeroed(Leaves(a), ids)
  BY ZeroInLeaves DEF HasLeaves
<1>2. AlphaEqual(ZeroIn(a, ids), b)
        <=> Len(ZeroIn(a, ids).guest) = Len(b.guest) /\ Renamed(Leaves(ZeroIn(a, ids)), Leaves(b))
  BY AlphaIsRenamed
<1> QED BY <1>1, <1>2

LEMMA CoversItself ==
    ASSUME NEW a, HasLeaves(a)
    PROVE  Covers(a, a)
<1>1. PICK x \in Seq(Leaf) : x = Leaves(a)
  BY LeavesType DEF HasLeaves
<1>2. Zeroed(x, {}) = x
  <2>1. /\ Zeroed(x, {}) \in Seq(Leaf) /\ Len(Zeroed(x, {})) = Len(x)
        /\ \A n \in 1..Len(x) : Zeroed(x, {})[n] = x[n]
    BY ZeroedType
  <2> QED BY <2>1, SeqEqual
<1>3. Renamed(x, x)
  BY RenamedReflexive
<1>4. AlphaEqual(ZeroIn(a, {}), a)
  BY <1>1, <1>2, <1>3, CoversLeaves
<1> QED BY <1>4 DEF Covers

\* The immediates that are really there are enough.
LEMMA CoversByImmediates ==
    ASSUME NEW a, HasLeaves(a), NEW b, HasLeaves(b), Covers(a, b)
    PROVE  \E ids \in SUBSET ImmIds(a) : AlphaEqual(ZeroIn(a, ids), b)
<1>1. PICK ids : AlphaEqual(ZeroIn(a, ids), b)
  BY DEF Covers
<1>2. PICK x \in Seq(Leaf) : x = Leaves(a)
  BY LeavesType DEF HasLeaves
<1>3. \A n \in 1..Len(x) : x[n].ns = "imm" => x[n].key \in ImmIds(a)
  BY <1>2 DEF ImmIds, Range
<1> DEFINE few == ids \cap ImmIds(a)
<1>4. Zeroed(x, few) = Zeroed(x, ids)
  BY <1>3 DEF Zeroed
<1>5. few \in SUBSET ImmIds(a)
  OBVIOUS
<1> HIDE DEF few
<1>6. AlphaEqual(ZeroIn(a, few), b)
  BY <1>1, <1>2, <1>4, CoversLeaves
<1> QED BY <1>5, <1>6

\* What consolidate_rules looks for: zero for one immediate.
LEMMA InstanceByZero ==
    ASSUME NEW a, HasLeaves(a), NEW b, HasLeaves(b), IsInstance(a, b)
    PROVE  \E k \in 1..Len(Leaves(b)) :
              /\ Leaves(b)[k].ns = "imm"
              /\ Len(b.guest) = Len(a.guest)
              /\ Renamed(Zeroed(Leaves(b), {Leaves(b)[k].key}), Leaves(a))
<1>1. PICK id \in ImmIds(b) : Fingerprint(SubstituteImm(b, id)) = Fingerprint(a)
  BY DEF IsInstance
<1>2. PICK y \in Seq(Leaf) : y = Leaves(b)
  BY LeavesType DEF HasLeaves
<1>3. PICK k \in 1..Len(y) : y[k].ns = "imm" /\ y[k].key = id
  BY <1>1, <1>2 DEF ImmIds, Range
<1>4. SubstituteImm(b, id) = ZeroIn(b, {id})
  <2>1. PICK g \in Seq(Leaf) : g = b.guest
    BY DEF HasLeaves
  <2>2. PICK h \in Seq(Leaf) : h = b.host
    BY DEF HasLeaves
  <2>3. ZeroIn(b, {id}) = [guest |-> Zeroed(g, {id}), host |-> Zeroed(h, {id})]
    BY <2>1, <2>2, Zenon DEF ZeroIn, Zeroed, ZeroLeaf
  <2> DEFINE on(s) == [n \in DOMAIN s |->
            IF s[n].ns # "imm" \/ s[n].key # id THEN s[n]
            ELSE [form |-> IF s[n].form = "neg" THEN "plain" ELSE s[n].form, ns |-> "num", key |-> 0]]
  <2>4. SubstituteImm(b, id) = [guest |-> on(g), host |-> on(h)]
    BY <2>1, <2>2, Zenon DEF SubstituteImm
  <2>5. on(g) = Zeroed(g, {id}) /\ on(h) = Zeroed(h, {id})
    BY DEF Zeroed, ZeroLeaf
  <2> HIDE DEF on
  <2> QED BY <2>3, <2>4, <2>5
<1>5. ZeroIn(b, {id}).guest \in Seq(Leaf) /\ ZeroIn(b, {id}).host \in Seq(Leaf)
  BY ZeroInLeaves DEF HasLeaves
<1>6. AlphaEqual(ZeroIn(b, {id}), a)
  BY <1>1, <1>4, <1>5, FingerprintsTellRules DEF HasLeaves
<1>7. Len(b.guest) = Len(a.guest) /\ Renamed(Zeroed(y, {id}), Leaves(a))
  BY <1>2, <1>6, CoversLeaves
<1> QED BY <1>2, <1>3, <1>7

ImmCount(a) == Cardinality(Imms(Leaves(a)))

\* What an instance covers its parent covers, which has more immediates.
LEMMA ParentCovers ==
    ASSUME NEW a, HasLeaves(a), NEW b, HasLeaves(b), NEW r, HasLeaves(r),
           IsInstance(a, b), Covers(a, r)
    PROVE  Covers(b, r) /\ ImmCount(a) < ImmCount(b)
<1>1. PICK x \in Seq(Leaf) : x = Leaves(a)
  BY LeavesType DEF HasLeaves
<1>2. PICK y \in Seq(Leaf) : y = Leaves(b)
  BY LeavesType DEF HasLeaves
<1>3. PICK z \in Seq(Leaf) : z = Leaves(r)
  BY LeavesType DEF HasLeaves
<1>4. PICK k \in 1..Len(y) : /\ y[k].ns = "imm" /\ Len(b.guest) = Len(a.guest)
                             /\ Renamed(Zeroed(y, {y[k].key}), x)
  BY <1>1, <1>2, InstanceByZero
<1>5. PICK ids : AlphaEqual(ZeroIn(a, ids), r)
  BY DEF Covers
<1>6. Len(a.guest) = Len(r.guest) /\ Renamed(Zeroed(x, ids), z)
  BY <1>1, <1>3, <1>5, CoversLeaves
<1>7. PICK all : Renamed(Zeroed(y, all), z)
  BY <1>4, <1>6, InstancesCompose
<1>8. AlphaEqual(ZeroIn(b, all), r)
  BY <1>2, <1>3, <1>4, <1>6, <1>7, CoversLeaves
<1>9. ImmCount(a) < ImmCount(b)
  BY <1>1, <1>2, <1>4, InstancesShrink DEF ImmCount
<1> QED BY <1>8, <1>9 DEF Covers

LEMMA ImmCountBounded ==
    ASSUME NEW a, HasLeaves(a), NEW r, HasLeaves(r), Covers(a, r)
    PROVE  Len(Leaves(r)) \in Nat /\ ImmCount(a) \in 0..Len(Leaves(r))
<1>1. PICK x \in Seq(Leaf) : x = Leaves(a)
  BY LeavesType DEF HasLeaves
<1>2. PICK z \in Seq(Leaf) : z = Leaves(r)
  BY LeavesType DEF HasLeaves
<1>3. PICK ids : Renamed(Zeroed(x, ids), z)
  BY <1>1, <1>2, CoversLeaves DEF Covers
<1>4. PICK len \in Nat : len = Len(z) /\ len = Len(x)
  <2>1. PICK u \in Seq(Leaf) : u = Zeroed(x, ids) /\ Len(u) = Len(x)
    BY ZeroedType
  <2>2. Len(u) = Len(z)
    BY <1>3, <2>1, Zenon DEF Renamed
  <2> QED BY <2>1, <2>2
<1> DEFINE I == Imms(x)
           N == 1..len
<1>5. IsFiniteSet(N) /\ Cardinality(N) = len
  <2>1. 1 \in Int /\ len \in Int
    OBVIOUS
  <2>2. IsFiniteSet(1..len) /\ Cardinality(1..len) = IF 1 > len THEN 0 ELSE len - 1 + 1
    BY <2>1, FS_Interval
  <2> QED BY <2>2
<1>6. I \in SUBSET N
  BY <1>4 DEF Imms
<1> HIDE DEF I, N
<1>7. IsFiniteSet(I) /\ Cardinality(I) <= Cardinality(N)
  BY <1>5, <1>6, FS_Subset
<1>8. Cardinality(I) \in Nat
  BY <1>7, FS_CardinalityType
<1> QED BY <1>1, <1>2, <1>4, <1>5, <1>7, <1>8 DEF I, ImmCount

\* Of the rules that cover one, one with the most immediates stays.
LEMMA KeptCovers ==
    ASSUME IInv, stage = "consolidate", NEW j \in 1..Len(rules)
    PROVE  \E k \in 1..Len(rules) : k \notin subsumedIds /\ Covers(rules[k].rule, rules[j].rule)
<1>1. PICK n \in Nat : n = Len(rules)
  BY DEF IInv, Listed
<1>2. \A k \in 1..n : HasLeaves(rules[k].rule)
  BY <1>1, RuleAtWork DEF IInv, HasLeaves
<1>3. PICK r : r = rules[j].rule /\ HasLeaves(r)
  BY <1>1, <1>2
<1> DEFINE C == {k \in 1..n : Covers(rules[k].rule, r)}
           T == {ImmCount(rules[k].rule) : k \in C}
<1>4. j \in C
  BY <1>1, <1>2, <1>3, CoversItself
<1>5. PICK len \in Nat : len = Len(Leaves(r))
  BY <1>1, <1>2, <1>3, <1>4, ImmCountBounded
<1>6. \A k \in C : ImmCount(rules[k].rule) \in 0..len
  BY <1>2, <1>3, <1>5, ImmCountBounded
<1>7. T \in SUBSET (0..len) /\ T # {}
  BY <1>4, <1>6
<1>8. PICK k \in C : \A m \in C : ImmCount(rules[m].rule) <= ImmCount(rules[k].rule)
  <2>1. Max(T) \in T /\ \A c \in T : c <= Max(T)
    <3> HIDE DEF T
    <3> QED BY <1>7, MaxIsGreatest
  <2> QED BY <2>1
<1>9. k \in 1..n /\ Covers(rules[k].rule, r) /\ HasLeaves(rules[k].rule)
  BY <1>2
<1>10. ASSUME k \in subsumedIds PROVE FALSE
  <2>1. PICK m \in 1..n : IsInstance(rules[k].rule, rules[m].rule)
    BY <1>1, <1>10 DEF IInv, Subsumes
  <2>2. Covers(rules[m].rule, r) /\ ImmCount(rules[k].rule) < ImmCount(rules[m].rule)
    BY <1>2, <1>3, <1>9, <2>1, ParentCovers
  <2>3. m \in C
    BY <2>2
  <2>4. ImmCount(rules[m].rule) <= ImmCount(rules[k].rule)
    BY <1>8, <2>3
  <2>5. ImmCount(rules[m].rule) \in Nat /\ ImmCount(rules[k].rule) \in Nat
    BY <1>6, <2>3
  <2> QED BY <2>2, <2>4, <2>5
<1> QED BY <1>1, <1>3, <1>9, <1>10

LEMMA StepCovers == IInv /\ [Next]_vars => [RemovesCovered]_vars
<1> SUFFICES ASSUME IInv, Next PROVE RemovesCovered
  OBVIOUS
<1> SUFFICES ASSUME stage' = "done", NEW r \in Range(rules) \ Range(rules')
             PROVE  \E kept \in Range(rules') :
                       \E ids \in SUBSET ImmIds(kept.rule) : AlphaEqual(ZeroIn(kept.rule, ids), r.rule)
  BY DEF RemovesCovered
<1>1. RecordSubsumed
  <2>1. CASE EndOfRegions
    BY <2>1 DEF EndOfRegions
  <2>2. ASSUME NEW rule \in Rules, Emit(rule) \/ Repeat(rule) PROVE FALSE
    BY <2>2 DEF Emit, Repeat
  <2>3. CASE Skip \/ Consolidate
    BY <2>3 DEF Skip, Consolidate
  <2> QED BY <2>1, <2>2, <2>3 DEF Next
<1>2. PICK n \in Nat : n = Len(rules) /\ DOMAIN rules = 1..n /\ \A k \in 1..n : rules[k].id = k
  BY <1>1, RecordSubsumedRight DEF IInv, Listed
<1>3. /\ LeftOf(rules, subsumedIds, n, rules') /\ stage = "consolidate"
      /\ DOMAIN rules' = 1..Len(rules')
  BY <1>1, <1>2, RecordSubsumedRight
<1>4. PICK j \in 1..n : r = rules[j]
  BY <1>2 DEF Range
<1>5. PICK k \in 1..n : k \notin subsumedIds /\ Covers(rules[k].rule, rules[j].rule)
  BY <1>2, <1>3, KeptCovers
<1>6. HasLeaves(rules[k].rule) /\ HasLeaves(rules[j].rule)
  BY <1>2, RuleAtWork DEF IInv, HasLeaves
<1>7. rules[k] \in Range(rules')
  <2>1. PICK m \in 1..Len(rules') : rules'[m] = rules[k]
    <3>1. rules[k].id \notin subsumedIds
      BY <1>2, <1>5
    <3>2. PICK place \in [1..Len(rules') -> 1..n] :
            /\ \A m \in 1..Len(rules') : rules'[m] = rules[place[m]]
            /\ \A i \in 1..n : rules[i].id \notin subsumedIds => \E m \in 1..Len(rules') : place[m] = i
      BY <1>3, Zenon DEF LeftOf
    <3>3. PICK m \in 1..Len(rules') : place[m] = k
      BY <3>1, <3>2
    <3> QED BY <3>2, <3>3
  <2> QED BY <1>3, <2>1 DEF Range
<1>8. \E ids \in SUBSET ImmIds(rules[k].rule) : AlphaEqual(ZeroIn(rules[k].rule, ids), rules[j].rule)
  BY <1>5, <1>6, CoversByImmediates
<1> QED BY <1>4, <1>7, <1>8

\* Consolidation loses nothing: what it removes is a rule that stays, with zero for some
\* of its immediates, however long the chain of removed rules between the two.
THEOREM RemovedCovered == Spec => RemovedAreCovered
BY Invariant, StepCovers, PTL DEF Spec, RemovedAreCovered
=============================================================================
