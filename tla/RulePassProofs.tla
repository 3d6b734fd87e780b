----------------------------- MODULE RulePassProofs -----------------------------
(***************************************************************************)
(* Proofs about two passes of rule generation, for all fragments: branch   *)
(* labels, and the registers an opcode names implicitly.                   *)
(***************************************************************************)
EXTENDS RuleLabels, FixedRoles, DataInduction

(***************************************************************************)
(* RuleLabels.  The tables give one label to one place: a label of the     *)
(* first table is that of its line, the p-th of the second that of the     *)
(* p-th target without a line, and no label is in both or twice in one.    *)
(***************************************************************************)
LEMMA TargetsAreSequences ==
    ASSUME NEW t \in Targets
    PROVE  /\ t \in Seq(Lines \cup {Unresolved}) /\ Len(t) \in Nat /\ DOMAIN t = 1 .. Len(t)
           /\ \A n \in 1 .. Len(t) : t[n] # Unresolved => t[n] \in Lines
BY MaxBranchesIsNat DEF Targets

\* Positions go up by one at each target without a line.
LEMMA PositionStep ==
    ASSUME NEW t \in Targets, NEW n \in 0 .. Len(t) - 1
    PROVE  /\ Position(t, n) \in 0 .. n
           /\ Position(t, n + 1) = IF t[n + 1] = Unresolved THEN Position(t, n) + 1 ELSE Position(t, n)
<1> DEFINE P(k) == {m \in 1 .. k : t[m] = Unresolved}
<1>1. Len(t) \in Nat /\ n \in Nat /\ n + 1 \in 1 .. Len(t)
  BY TargetsAreSequences
<1>2. Position(t, n) = Cardinality(P(n)) /\ Position(t, n + 1) = Cardinality(P(n + 1))
  BY DEF Position
<1>3. P(n) \in SUBSET (1 .. n)
  OBVIOUS
<1>4. t[n + 1] = Unresolved => P(n + 1) = P(n) \cup {n + 1} /\ n + 1 \notin P(n)
  BY <1>1
<1>5. t[n + 1] # Unresolved => P(n + 1) = P(n)
  BY <1>1
<1> HIDE DEF P
<1>6. IsFiniteSet(1 .. n) /\ Cardinality(1 .. n) = n
  <2>1. 1 \in Int /\ n \in Int
    BY <1>1
  <2>2. IsFiniteSet(1 .. n) /\ Cardinality(1 .. n) = IF 1 > n THEN 0 ELSE n - 1 + 1
    BY <2>1, FS_Interval
  <2> QED BY <1>1, <2>2
<1>7. IsFiniteSet(P(n)) /\ Cardinality(P(n)) <= n
  BY <1>3, <1>6, FS_Subset
<1>8. Cardinality(P(n)) \in Nat
  BY <1>7, FS_CardinalityType
<1>9. Cardinality(P(n) \cup {n + 1}) = IF n + 1 \in P(n) THEN Cardinality(P(n)) ELSE Cardinality(P(n)) + 1
  BY <1>7, FS_AddElement
<1>10. CASE t[n + 1] = Unresolved
  <2>1. Cardinality(P(n + 1)) = Cardinality(P(n)) + 1
    BY <1>4, <1>9, <1>10
  <2> QED BY <1>1, <1>2, <1>7, <1>8, <1>10, <2>1
<1>11. CASE t[n + 1] # Unresolved
  BY <1>1, <1>2, <1>5, <1>7, <1>8, <1>11
<1> QED BY <1>10, <1>11

LEMMA PositionZero == ASSUME NEW t PROVE Position(t, 0) = 0
<1>1. {m \in 1 .. 0 : t[m] = Unresolved} = {}
  OBVIOUS
<1> QED BY <1>1, FS_EmptySet DEF Position

LabelIds == 1 .. nextId - 1

\* A target of a side that is labelled from the tables.
FromTables(targets, n, id) ==
    IF targets[n] = Unresolved
    THEN Position(targets, n) \in 1 .. Len(posLabel) /\ id = posLabel[Position(targets, n)]
    ELSE targets[n] \in DOMAIN labelBySrc /\ id = labelBySrc[targets[n]]

LabelTypes ==
    /\ guestTargets \in Targets /\ hostTargets \in Targets
    /\ labelStage \in {"guest", "host", "done"}
    /\ nextId \in Nat \ {0}
    /\ guestIds \in Seq(LabelIds) /\ hostIds \in Seq(LabelIds)
    /\ Len(guestIds) <= Len(guestTargets) /\ Len(hostIds) <= Len(hostTargets)
    /\ LabelIds \subseteq Range(guestIds) \cup Range(hostIds)
    /\ posLabel \in Seq(LabelIds)
    /\ labelBySrc \in [DOMAIN labelBySrc -> LabelIds] /\ DOMAIN labelBySrc \subseteq Lines

LabelControl ==
    /\ labelStage = "guest" => hostIds = <<>> /\ Len(posLabel) = Position(guestTargets, Len(guestIds))
    /\ labelStage # "guest" => Len(guestIds) = Len(guestTargets)
    /\ Position(hostTargets, Len(hostIds)) <= Len(posLabel)
    /\ labelStage = "done" => Len(hostIds) = Len(hostTargets)
    /\ labelResult = IF labelStage # "done" THEN "none"
                     ELSE IF Consistent THEN "labelled" ELSE "mismatched_branch_targets"

\* No label is in both tables, or twice in one.
TablesTellPlaces ==
    /\ \A k, l \in DOMAIN labelBySrc : labelBySrc[k] = labelBySrc[l] => k = l
    /\ \A p, q \in DOMAIN posLabel : posLabel[p] = posLabel[q] => p = q
    /\ \A k \in DOMAIN labelBySrc, p \in DOMAIN posLabel : labelBySrc[k] # posLabel[p]

\* The labels of the guest are in the tables; one of the host that is not is its own.
GuestInTables == \A n \in DOMAIN guestIds : FromTables(guestTargets, n, guestIds[n])
HostInTables ==
    \A n \in DOMAIN hostIds :
        \/ FromTables(hostTargets, n, hostIds[n])
        \/ /\ hostTargets[n] # Unresolved /\ hostTargets[n] \notin DOMAIN labelBySrc
           /\ hostIds[n] \notin Range(guestIds)

LabelInv == LabelTypes /\ LabelControl /\ TablesTellPlaces /\ GuestInTables /\ HostInTables

LEMMA LabelsInitially == LabelsInit => LabelInv
<1> SUFFICES ASSUME LabelsInit PROVE LabelInv
  OBVIOUS
<1> USE DEF LabelsInit
<1>1. /\ Len(guestTargets) \in Nat /\ Len(hostTargets) \in Nat
      /\ Position(guestTargets, 0) = 0 /\ Position(hostTargets, 0) = 0
  BY TargetsAreSequences, PositionZero
<1>2. LabelTypes
  BY <1>1 DEF LabelTypes, LabelIds
<1>3. LabelControl
  BY <1>1 DEF LabelControl
<1>4. TablesTellPlaces /\ GuestInTables /\ HostInTables
  BY DEF TablesTellPlaces, GuestInTables, HostInTables
<1> QED BY <1>2, <1>3, <1>4 DEF LabelInv

\* One more entry at the end of a sequence.
LEMMA AppendEntry ==
    ASSUME NEW S, NEW s \in Seq(S), NEW x \in S
    PROVE  /\ Append(s, x) \in Seq(S) /\ Len(Append(s, x)) = Len(s) + 1
           /\ DOMAIN Append(s, x) = 1 .. Len(s) + 1 /\ DOMAIN s = 1 .. Len(s)
           /\ \A i \in 1 .. Len(s) : Append(s, x)[i] = s[i]
           /\ Append(s, x)[Len(s) + 1] = x
           /\ Range(Append(s, x)) = Range(s) \cup {x}
<1>1. /\ Append(s, x) \in Seq(S) /\ Len(Append(s, x)) = Len(s) + 1
      /\ DOMAIN Append(s, x) = 1 .. Len(s) + 1 /\ DOMAIN s = 1 .. Len(s) /\ Len(s) \in Nat
      /\ \A i \in 1 .. Len(s) : Append(s, x)[i] = s[i]
      /\ Append(s, x)[Len(s) + 1] = x
  OBVIOUS
<1>2. 1 .. Len(s) + 1 = 1 .. Len(s) \cup {Len(s) + 1}
  BY <1>1
<1>3. Range(Append(s, x)) = Range(s) \cup {x}
  <2> DEFINE a == Append(s, x)
             n == Len(s)
  <2>1. Range(a) = {a[i] : i \in 1 .. n + 1} /\ Range(s) = {s[i] : i \in 1 .. n}
    BY <1>1, Zenon DEF Range
  <2>2. \A y : y \in {a[i] : i \in 1 .. n + 1} <=> y \in {s[i] : i \in 1 .. n} \cup {x}
    BY <1>1
  <2> QED BY <2>1, <2>2
<1> QED BY <1>1, <1>3

LEMMA GuestIsLabelled == LabelInv /\ LabelGuest => LabelInv'
<1> SUFFICES ASSUME LabelInv, LabelGuest PROVE LabelInv'
  OBVIOUS
<1> USE DEF LabelInv
<1> DEFINE n == Len(guestIds) + 1
<1>1. /\ labelStage = "guest" /\ n <= Len(guestTargets) /\ hostIds = <<>>
      /\ UNCHANGED <<guestTargets, hostTargets, labelStage, hostIds, labelResult>>
  BY DEF LabelGuest, LabelControl
<1>2. /\ Len(guestTargets) \in Nat /\ DOMAIN guestTargets = 1 .. Len(guestTargets)
      /\ guestTargets[n] # Unresolved => guestTargets[n] \in Lines
      /\ n \in 1 .. Len(guestTargets) /\ Len(guestIds) \in 0 .. Len(guestTargets) - 1
      /\ nextId \in Nat \ {0}
  BY <1>1, TargetsAreSequences DEF LabelTypes
<1>3. /\ Len(posLabel) = Position(guestTargets, n - 1) /\ Position(guestTargets, n - 1) \in 0 .. n - 1
      /\ Position(guestTargets, n) = IF guestTargets[n] = Unresolved THEN Position(guestTargets, n - 1) + 1
                                     ELSE Position(guestTargets, n - 1)
  BY <1>1, <1>2, PositionStep DEF LabelControl, LabelTypes
<1>4. /\ posLabel \in Seq(LabelIds) /\ DOMAIN posLabel = 1 .. Len(posLabel) /\ Len(posLabel) \in Nat
      /\ labelBySrc \in [DOMAIN labelBySrc -> LabelIds]
      /\ guestIds \in Seq(LabelIds) /\ DOMAIN guestIds = 1 .. Len(guestIds)
  BY DEF LabelTypes
<1>5. /\ Position(hostTargets, Len(hostIds)) = 0 /\ Len(hostIds) = 0 /\ DOMAIN hostIds = {} /\ Range(hostIds) = {}
  BY <1>1, PositionZero DEF Range
<1>6. \A m \in DOMAIN guestIds : FromTables(guestTargets, m, guestIds[m])
  BY DEF GuestInTables
<1>7. ASSUME NEW id \in Known(guestTargets, n), guestIds' = Append(guestIds, id), UNCHANGED labelMaps
      PROVE  LabelInv'
  <2>1. guestTargets[n] # Unresolved /\ guestTargets[n] \in DOMAIN labelBySrc /\ id = labelBySrc[guestTargets[n]]
    BY <1>3, <1>4, <1>7 DEF Known
  <2>2. id \in LabelIds /\ UNCHANGED <<labelBySrc, posLabel, nextId>>
    BY <1>4, <1>7, <2>1 DEF labelMaps
  <2>3. /\ guestIds' \in Seq(LabelIds) /\ Len(guestIds') = n /\ DOMAIN guestIds' = 1 .. n
        /\ \A i \in 1 .. Len(guestIds) : guestIds'[i] = guestIds[i]
        /\ guestIds'[n] = id /\ Range(guestIds') = Range(guestIds) \cup {id}
    BY <1>4, <1>7, <2>2, AppendEntry
  <2>4. LabelTypes'
    BY <1>1, <1>2, <2>2, <2>3 DEF LabelTypes, LabelIds
  <2>5. LabelControl'
    BY <1>1, <1>2, <1>3, <1>5, <2>1, <2>2, <2>3 DEF LabelControl, Consistent, Position
  <2>6. TablesTellPlaces'
    BY <2>2 DEF TablesTellPlaces
  <2>7. GuestInTables'
    <3>1. ASSUME NEW m \in 1 .. n PROVE FromTables(guestTargets, m, guestIds[m])'
      <4>1. CASE m = n
        BY <1>1, <2>1, <2>2, <2>3, <4>1 DEF FromTables
      <4>2. CASE m # n
        <5>1. m \in DOMAIN guestIds /\ guestIds'[m] = guestIds[m]
          BY <1>2, <1>4, <2>3, <4>2
        <5>2. FromTables(guestTargets, m, guestIds[m])
          BY <1>6, <5>1
        <5> QED BY <1>1, <2>2, <5>1, <5>2 DEF FromTables, Position
      <4> QED BY <4>1, <4>2
    <3> QED BY <2>3, <3>1 DEF GuestInTables
  <2> QED BY <1>1, <1>5, <2>4, <2>5, <2>6, <2>7 DEF GuestInTables, HostInTables
<1>8. ASSUME Known(guestTargets, n) = {}, guestIds' = Append(guestIds, nextId), nextId' = nextId + 1,
             guestTargets[n] = Unresolved, posLabel' = Append(posLabel, nextId), UNCHANGED labelBySrc
      PROVE  LabelInv'
  <2>1. LabelIds' = LabelIds \cup {nextId} /\ nextId \notin LabelIds
    BY <1>2, <1>8 DEF LabelIds
  <2>2. guestIds \in Seq(LabelIds') /\ posLabel \in Seq(LabelIds') /\ nextId \in LabelIds'
    BY <1>4, <2>1
  <2>3. /\ guestIds' \in Seq(LabelIds') /\ Len(guestIds') = n /\ DOMAIN guestIds' = 1 .. n
        /\ \A i \in 1 .. Len(guestIds) : guestIds'[i] = guestIds[i]
        /\ guestIds'[n] = nextId /\ Range(guestIds') = Range(guestIds) \cup {nextId}
    BY <1>8, <2>2, AppendEntry
  <2>4. /\ posLabel' \in Seq(LabelIds') /\ Len(posLabel') = Len(posLabel) + 1
        /\ DOMAIN posLabel' = 1 .. Len(posLabel) + 1
        /\ \A i \in 1 .. Len(posLabel) : posLabel'[i] = posLabel[i]
        /\ posLabel'[Len(posLabel) + 1] = nextId
    BY <1>8, <2>2, AppendEntry
  <2>5. LabelTypes'
    BY <1>1, <1>2, <1>5, <1>8, <2>1, <2>3, <2>4 DEF LabelTypes
  <2>6. LabelControl'
    BY <1>1, <1>2, <1>3, <1>5, <1>8, <2>3, <2>4 DEF LabelControl, Consistent, Position
  <2>7. TablesTellPlaces'
    BY <1>4, <1>8, <2>1, <2>4 DEF TablesTellPlaces
  <2>8. GuestInTables'
    <3>1. ASSUME NEW m \in 1 .. n PROVE FromTables(guestTargets, m, guestIds[m])'
      <4>1. CASE m = n
        BY <1>1, <1>3, <1>8, <2>3, <2>4, <4>1 DEF FromTables, Position
      <4>2. CASE m # n
        <5>1. m \in DOMAIN guestIds /\ guestIds'[m] = guestIds[m]
          BY <1>2, <1>4, <2>3, <4>2
        <5>2. FromTables(guestTargets, m, guestIds[m])
          BY <1>6, <5>1
        <5> QED BY <1>1, <1>4, <1>8, <2>4, <5>1, <5>2 DEF FromTables, Position
      <4> QED BY <4>1, <4>2
    <3> QED BY <2>3, <3>1 DEF GuestInTables
  <2> QED BY <1>1, <1>5, <2>5, <2>6, <2>7, <2>8 DEF GuestInTables, HostInTables
<1>9. ASSUME Known(guestTargets, n) = {}, guestIds' = Append(guestIds, nextId), nextId' = nextId + 1,
             guestTargets[n] # Unresolved, UNCHANGED posLabel,
             labelBySrc' = [line \in DOMAIN labelBySrc \cup {guestTargets[n]} |->
                               IF line = guestTargets[n] THEN nextId ELSE labelBySrc[line]]
      PROVE  LabelInv'
  <2>1. LabelIds' = LabelIds \cup {nextId} /\ nextId \notin LabelIds
    BY <1>2, <1>9 DEF LabelIds
  <2>2. guestIds \in Seq(LabelIds') /\ posLabel' \in Seq(LabelIds') /\ nextId \in LabelIds'
    BY <1>4, <1>9, <2>1
  <2>3. /\ guestIds' \in Seq(LabelIds') /\ Len(guestIds') = n /\ DOMAIN guestIds' = 1 .. n
        /\ \A i \in 1 .. Len(guestIds) : guestIds'[i] = guestIds[i]
        /\ guestIds'[n] = nextId /\ Range(guestIds') = Range(guestIds) \cup {nextId}
    BY <1>9, <2>2, AppendEntry
  <2>4. guestTargets[n] \notin DOMAIN labelBySrc
    BY <1>9 DEF Known
  <2>5. /\ DOMAIN labelBySrc' = DOMAIN labelBySrc \cup {guestTargets[n]}
        /\ \A l \in DOMAIN labelBySrc : labelBySrc'[l] = labelBySrc[l]
        /\ labelBySrc'[guestTargets[n]] = nextId
        /\ labelBySrc' \in [DOMAIN labelBySrc' -> LabelIds']
    BY <1>4, <1>9, <2>1, <2>4
  <2>6. LabelTypes'
    BY <1>1, <1>2, <1>5, <1>9, <2>1, <2>2, <2>3, <2>5 DEF LabelTypes
  <2>7. LabelControl'
    BY <1>1, <1>2, <1>3, <1>5, <1>9, <2>3 DEF LabelControl, Consistent, Position
  <2>8. TablesTellPlaces'
    BY <1>4, <1>9, <2>1, <2>4, <2>5 DEF TablesTellPlaces
  <2>9. GuestInTables'
    <3>1. ASSUME NEW m \in 1 .. n PROVE FromTables(guestTargets, m, guestIds[m])'
      <4>1. CASE m = n
        BY <1>1, <1>3, <1>9, <2>3, <2>5, <4>1 DEF FromTables, Position
      <4>2. CASE m # n
        <5>1. m \in DOMAIN guestIds /\ guestIds'[m] = guestIds[m]
          BY <1>2, <1>4, <2>3, <4>2
        <5>2. FromTables(guestTargets, m, guestIds[m])
          BY <1>6, <5>1
        <5> QED BY <1>1, <1>4, <1>9, <2>5, <5>1, <5>2 DEF FromTables, Position
      <4> QED BY <4>1, <4>2
    <3> QED BY <2>3, <3>1 DEF GuestInTables
  <2> QED BY <1>1, <1>5, <2>6, <2>7, <2>8, <2>9 DEF GuestInTables, HostInTables
<1> QED BY <1>7, <1>8, <1>9 DEF LabelGuest

LEMMA HostIsLabelled == LabelInv /\ LabelHost => LabelInv'
<1> SUFFICES ASSUME LabelInv, LabelHost PROVE LabelInv'
  OBVIOUS
<1> USE DEF LabelInv
<1> DEFINE n == Len(hostIds) + 1
<1>1. /\ labelStage = "host" /\ n <= Len(hostTargets) /\ Len(guestIds) = Len(guestTargets)
      /\ UNCHANGED <<guestTargets, hostTargets, labelStage, guestIds, labelBySrc, labelResult>>
  BY DEF LabelHost, LabelControl, labelMaps
<1>2. /\ Len(hostTargets) \in Nat /\ DOMAIN hostTargets = 1 .. Len(hostTargets)
      /\ hostTargets[n] # Unresolved => hostTargets[n] \in Lines
      /\ n \in 1 .. Len(hostTargets) /\ Len(hostIds) \in 0 .. Len(hostTargets) - 1
      /\ nextId \in Nat \ {0}
  BY <1>1, TargetsAreSequences DEF LabelTypes
<1>3. /\ Position(hostTargets, n - 1) <= Len(posLabel) /\ Position(hostTargets, n - 1) \in 0 .. n - 1
      /\ Position(hostTargets, n) = IF hostTargets[n] = Unresolved THEN Position(hostTargets, n - 1) + 1
                                    ELSE Position(hostTargets, n - 1)
  BY <1>1, <1>2, PositionStep DEF LabelControl, LabelTypes
<1>4. /\ posLabel \in Seq(LabelIds) /\ DOMAIN posLabel = 1 .. Len(posLabel) /\ Len(posLabel) \in Nat
      /\ labelBySrc \in [DOMAIN labelBySrc -> LabelIds]
      /\ hostIds \in Seq(LabelIds) /\ DOMAIN hostIds = 1 .. Len(hostIds)
      /\ guestIds \in Seq(LabelIds) /\ DOMAIN guestIds = 1 .. Len(guestIds)
  BY DEF LabelTypes
<1>5. labelResult = "none"
  BY <1>1 DEF LabelControl
<1> DEFINE Own(m, id) == /\ hostTargets[m] # Unresolved /\ hostTargets[m] \notin DOMAIN labelBySrc
                         /\ id \notin Range(guestIds)
<1>6. \A m \in DOMAIN hostIds : FromTables(hostTargets, m, hostIds[m]) \/ Own(m, hostIds[m])
  BY DEF HostInTables
<1>7. \A m \in DOMAIN guestIds : FromTables(guestTargets, m, guestIds[m])
  BY DEF GuestInTables
<1>8. ASSUME NEW id \in Known(hostTargets, n), hostIds' = Append(hostIds, id), UNCHANGED labelMaps
      PROVE  LabelInv'
  <2>1. UNCHANGED <<posLabel, nextId>>
    BY <1>8 DEF labelMaps
  <2>2. FromTables(hostTargets, n, id) /\ id \in LabelIds
    BY <1>4, <1>8 DEF Known, FromTables
  <2>3. /\ hostIds' \in Seq(LabelIds) /\ Len(hostIds') = n /\ DOMAIN hostIds' = 1 .. n
        /\ \A i \in 1 .. Len(hostIds) : hostIds'[i] = hostIds[i]
        /\ hostIds'[n] = id /\ Range(hostIds') = Range(hostIds) \cup {id}
    BY <1>4, <1>8, <2>2, AppendEntry
  <2>4. LabelTypes'
    BY <1>1, <1>2, <2>1, <2>3 DEF LabelTypes, LabelIds
  <2>5. Position(hostTargets, n) <= Len(posLabel)
    BY <1>3, <1>4, <2>2 DEF FromTables
  <2>6. LabelControl'
    BY <1>1, <1>2, <1>5, <2>1, <2>3, <2>5 DEF LabelControl, Consistent, Position
  <2>7. TablesTellPlaces'
    BY <1>1, <2>1 DEF TablesTellPlaces
  <2>8. GuestInTables'
    BY <1>1, <1>7, <2>1 DEF GuestInTables, FromTables, Position
  <2>9. HostInTables'
    <3>1. ASSUME NEW m \in 1 .. n PROVE (FromTables(hostTargets, m, hostIds[m]) \/ Own(m, hostIds[m]))'
      <4>1. CASE m = n
        BY <1>1, <2>1, <2>2, <2>3, <4>1 DEF FromTables, Position
      <4>2. CASE m # n
        <5>1. m \in DOMAIN hostIds /\ hostIds'[m] = hostIds[m]
          BY <1>2, <1>4, <2>3, <4>2
        <5>2. FromTables(hostTargets, m, hostIds[m]) \/ Own(m, hostIds[m])
          BY <1>6, <5>1
        <5> QED BY <1>1, <2>1, <5>1, <5>2 DEF FromTables, Position
      <4> QED BY <4>1, <4>2
    <3> QED BY <2>3, <3>1 DEF HostInTables
  <2> QED BY <2>4, <2>6, <2>7, <2>8, <2>9
<1>9. ASSUME Known(hostTargets, n) = {}, hostIds' = Append(hostIds, nextId), nextId' = nextId + 1,
             hostTargets[n] = Unresolved, posLabel' = Append(posLabel, nextId)
      PROVE  LabelInv'
  <2>1. LabelIds' = LabelIds \cup {nextId} /\ nextId \notin LabelIds
    BY <1>2, <1>9 DEF LabelIds
  <2>2. /\ hostIds \in Seq(LabelIds') /\ posLabel \in Seq(LabelIds') /\ nextId \in LabelIds'
        /\ guestIds \in Seq(LabelIds')
    BY <1>4, <2>1
  <2>3. /\ hostIds' \in Seq(LabelIds') /\ Len(hostIds') = n /\ DOMAIN hostIds' = 1 .. n
        /\ \A i \in 1 .. Len(hostIds) : hostIds'[i] = hostIds[i]
        /\ hostIds'[n] = nextId /\ Range(hostIds') = Range(hostIds) \cup {nextId}
    BY <1>9, <2>2, AppendEntry
  <2>4. /\ posLabel' \in Seq(LabelIds') /\ Len(posLabel') = Len(posLabel) + 1
        /\ DOMAIN posLabel' = 1 .. Len(posLabel) + 1
        /\ \A i \in 1 .. Len(posLabel) : posLabel'[i] = posLabel[i]
        /\ posLabel'[Len(posLabel) + 1] = nextId
    BY <1>9, <2>2, AppendEntry
  <2>5. Position(hostTargets, n) = Len(posLabel) + 1
    <3>1. Position(hostTargets, n) \notin 1 .. Len(posLabel)
      BY <1>4, <1>9 DEF Known
    <3> QED BY <1>3, <1>4, <1>9, <3>1
  <2>6. LabelTypes'
    <3>1. labelBySrc \in [DOMAIN labelBySrc -> LabelIds']
      BY <1>4, <2>1
    <3>2. (LabelIds \subseteq Range(guestIds) \cup Range(hostIds))'
      BY <1>1, <2>1, <2>3 DEF LabelTypes
    <3>3. (guestTargets \in Targets /\ hostTargets \in Targets /\ labelStage \in {"guest", "host", "done"})'
      BY <1>1 DEF LabelTypes
    <3>4. (nextId \in Nat \ {0} /\ Len(guestIds) <= Len(guestTargets) /\ Len(hostIds) <= Len(hostTargets))'
      BY <1>1, <1>2, <1>9, <2>3 DEF LabelTypes
    <3>5. (guestIds \in Seq(LabelIds) /\ hostIds \in Seq(LabelIds) /\ posLabel \in Seq(LabelIds))'
      <4>1. guestIds' = guestIds
        BY <1>1
      <4>2. guestIds' \in Seq(LabelIds')
        BY <2>2, <4>1
      <4> QED BY <2>3, <2>4, <4>2, Zenon
    <3>6. (labelBySrc \in [DOMAIN labelBySrc -> LabelIds] /\ DOMAIN labelBySrc \subseteq Lines)'
      <4>1. labelBySrc' = labelBySrc
        BY <1>1
      <4>2. DOMAIN labelBySrc \subseteq Lines
        BY DEF LabelTypes
      <4> QED BY <3>1, <4>1, <4>2, Zenon
    <3> QED BY <3>2, <3>3, <3>4, <3>5, <3>6 DEF LabelTypes
  <2>7. LabelControl'
    BY <1>1, <1>2, <1>4, <1>5, <2>3, <2>4, <2>5 DEF LabelControl, Consistent, Position
  <2>8. TablesTellPlaces'
    <3>1. labelBySrc' = labelBySrc
      BY <1>1
    <3>2. \A p \in DOMAIN posLabel : posLabel[p] \in LabelIds
      BY <1>4
    <3>3. \A k \in DOMAIN labelBySrc : labelBySrc[k] \in LabelIds
      BY <1>4
    <3>4. \A p \in DOMAIN posLabel' : \/ p \in DOMAIN posLabel /\ posLabel'[p] = posLabel[p] /\ posLabel'[p] # nextId
                                      \/ p = Len(posLabel) + 1 /\ posLabel'[p] = nextId
      BY <1>4, <2>1, <2>4, <3>2
    <3>5. TablesTellPlaces
      OBVIOUS
    <3>6. \A p, q \in DOMAIN posLabel' : posLabel'[p] = posLabel'[q] => p = q
      BY <3>4, <3>5 DEF TablesTellPlaces
    <3>7. \A k \in DOMAIN labelBySrc, p \in DOMAIN posLabel' : labelBySrc[k] # posLabel'[p]
      BY <2>1, <3>3, <3>4, <3>5 DEF TablesTellPlaces
    <3> QED BY <3>1, <3>5, <3>6, <3>7 DEF TablesTellPlaces
  <2>9. GuestInTables'
    BY <1>1, <1>4, <1>7, <2>4 DEF GuestInTables, FromTables, Position
  <2>10. HostInTables'
    <3>1. ASSUME NEW m \in 1 .. n PROVE (FromTables(hostTargets, m, hostIds[m]) \/ Own(m, hostIds[m]))'
      <4>1. CASE m = n
        BY <1>1, <1>4, <1>9, <2>3, <2>4, <2>5, <4>1 DEF FromTables, Position
      <4>2. CASE m # n
        <5>1. m \in DOMAIN hostIds /\ hostIds'[m] = hostIds[m]
          BY <1>2, <1>4, <2>3, <4>2
        <5>2. FromTables(hostTargets, m, hostIds[m]) \/ Own(m, hostIds[m])
          BY <1>6, <5>1
        <5> QED BY <1>1, <1>4, <2>4, <5>1, <5>2 DEF FromTables, Position
      <4> QED BY <4>1, <4>2
    <3> QED BY <2>3, <3>1 DEF HostInTables
  <2> QED BY <2>6, <2>7, <2>8, <2>9, <2>10
<1>10. ASSUME Known(hostTargets, n) = {}, hostIds' = Append(hostIds, nextId), nextId' = nextId + 1,
              hostTargets[n] # Unresolved, posLabel' = posLabel
       PROVE  LabelInv'
  <2>1. LabelIds' = LabelIds \cup {nextId} /\ nextId \notin LabelIds
    BY <1>2, <1>10 DEF LabelIds
  <2>2. /\ hostIds \in Seq(LabelIds') /\ posLabel' \in Seq(LabelIds') /\ nextId \in LabelIds'
        /\ guestIds \in Seq(LabelIds')
    BY <1>4, <1>10, <2>1
  <2>3. /\ hostIds' \in Seq(LabelIds') /\ Len(hostIds') = n /\ DOMAIN hostIds' = 1 .. n
        /\ \A i \in 1 .. Len(hostIds) : hostIds'[i] = hostIds[i]
        /\ hostIds'[n] = nextId /\ Range(hostIds') = Range(hostIds) \cup {nextId}
    BY <1>10, <2>2, AppendEntry
  <2>4. Own(n, nextId)
    BY <1>4, <1>10, <2>1 DEF Known, Range
  <2>5. LabelTypes'
    BY <1>1, <1>2, <1>4, <2>1, <2>2, <2>3, <1>10 DEF LabelTypes
  <2>6. LabelControl'
    BY <1>1, <1>2, <1>3, <1>5, <1>10, <2>3 DEF LabelControl, Consistent, Position
  <2>7. TablesTellPlaces'
    BY <1>1, <1>10 DEF TablesTellPlaces
  <2>8. GuestInTables'
    BY <1>1, <1>7, <1>10 DEF GuestInTables, FromTables, Position
  <2>9. HostInTables'
    <3>1. ASSUME NEW m \in 1 .. n PROVE (FromTables(hostTargets, m, hostIds[m]) \/ Own(m, hostIds[m]))'
      <4>1. CASE m = n
        BY <1>1, <2>3, <2>4, <4>1
      <4>2. CASE m # n
        <5>1. m \in DOMAIN hostIds /\ hostIds'[m] = hostIds[m]
          BY <1>2, <1>4, <2>3, <4>2
        <5>2. FromTables(hostTargets, m, hostIds[m]) \/ Own(m, hostIds[m])
          BY <1>6, <5>1
        <5> QED BY <1>1, <1>10, <5>1, <5>2 DEF FromTables, Position
      <4> QED BY <4>1, <4>2
    <3> QED BY <2>3, <3>1 DEF HostInTables
  <2> QED BY <2>5, <2>6, <2>7, <2>8, <2>9
<1> QED BY <1>8, <1>9, <1>10 DEF LabelHost

LEMMA LabelInvHolds == LabelsSpec => []LabelInv
<1>1. LabelInv /\ [LabelsNext]_labelsVars => LabelInv'
  <2> SUFFICES ASSUME LabelInv, [LabelsNext]_labelsVars PROVE LabelInv'
    OBVIOUS
  <2> USE DEF LabelInv
  <2>1. CASE LabelGuest
    BY <2>1, GuestIsLabelled
  <2>2. CASE LabelHost
    BY <2>2, HostIsLabelled
  <2>3. CASE GuestDone
    <3> USE <2>3 DEF GuestDone, labelMaps
    <3>1. LabelTypes'
      BY DEF LabelTypes, LabelIds
    <3>2. LabelControl'
      BY DEF LabelTypes, LabelControl, Consistent, Position
    <3>3. TablesTellPlaces'
      BY DEF TablesTellPlaces
    <3>4. GuestInTables' /\ HostInTables'
      BY DEF GuestInTables, HostInTables, FromTables, Position
    <3> QED BY <3>1, <3>2, <3>3, <3>4
  <2>4. CASE Check
    <3> USE <2>4 DEF Check, labelMaps
    <3>1. LabelTypes'
      BY DEF LabelTypes, LabelIds
    <3>2. LabelControl'
      BY DEF LabelTypes, LabelControl, Consistent, Position
    <3>3. TablesTellPlaces'
      BY DEF TablesTellPlaces
    <3>4. GuestInTables' /\ HostInTables'
      BY DEF GuestInTables, HostInTables, FromTables, Position
    <3> QED BY <3>1, <3>2, <3>3, <3>4
  <2>5. CASE UNCHANGED labelsVars
    <3> USE <2>5 DEF labelsVars, labelMaps
    <3>1. LabelTypes'
      BY DEF LabelTypes, LabelIds
    <3>2. LabelControl'
      BY DEF LabelTypes, LabelControl, Consistent, Position
    <3>3. TablesTellPlaces'
      BY DEF TablesTellPlaces
    <3>4. GuestInTables' /\ HostInTables'
      BY DEF GuestInTables, HostInTables, FromTables, Position
    <3> QED BY <3>1, <3>2, <3>3, <3>4
  <2> QED BY <2>1, <2>2, <2>3, <2>4, <2>5 DEF LabelsNext
<1> QED BY LabelsInitially, <1>1, PTL DEF LabelsSpec

\* What the tables say of a place: its label.
Labelled(place, id) ==
    \/ \E p \in DOMAIN posLabel : place = <<Unresolved, p>> /\ id = posLabel[p]
    \/ \E line \in DOMAIN labelBySrc : place = <<line, 0>> /\ id = labelBySrc[line]

\* One place has one label, and one label one place.
LEMMA TablesAreOneToOne ==
    ASSUME LabelInv, NEW p, NEW q, NEW i, NEW j, Labelled(p, i), Labelled(q, j)
    PROVE  p = q <=> i = j
<1>1. \A line \in DOMAIN labelBySrc : line # Unresolved
  BY LinesAreResolved DEF LabelInv, LabelTypes
<1> QED BY <1>1 DEF Labelled, LabelInv, TablesTellPlaces

LEMMA TableLabels ==
    ASSUME NEW targets, NEW n, NEW id, FromTables(targets, n, id), posLabel \in Seq(LabelIds)
    PROVE  Labelled(Place(targets, n), id)
<1>1. DOMAIN posLabel = 1 .. Len(posLabel)
  OBVIOUS
<1>2. CASE targets[n] = Unresolved
  <2>1. Place(targets, n) = <<Unresolved, Position(targets, n)>>
    BY <1>2 DEF Place, Position
  <2> QED BY <1>1, <1>2, <2>1 DEF FromTables, Labelled
<1>3. CASE targets[n] # Unresolved
  BY <1>3 DEF FromTables, Labelled, Place
<1> QED BY <1>2, <1>3

LEMMA GuestPlacesLabelled ==
    ASSUME LabelInv, NEW n \in DOMAIN guestIds
    PROVE  Labelled(Place(guestTargets, n), guestIds[n])
BY TableLabels DEF LabelInv, LabelTypes, GuestInTables

\* A label that host and guest have is that of its place.
LEMMA HostPlacesLabelled ==
    ASSUME LabelInv, NEW n \in DOMAIN hostIds, hostIds[n] \in Range(guestIds)
    PROVE  Labelled(Place(hostTargets, n), hostIds[n])
BY TableLabels DEF LabelInv, LabelTypes, HostInTables

\* A place of the host that the guest goes to has the guest's label.
LEMMA SharedPlacesShareLabels ==
    ASSUME LabelInv, NEW m \in DOMAIN guestIds, NEW n \in DOMAIN hostIds,
           Place(guestTargets, m) = Place(hostTargets, n)
    PROVE  guestIds[m] = hostIds[n]
<1>1. Labelled(Place(guestTargets, m), guestIds[m])
  BY GuestPlacesLabelled
<1>2. CASE FromTables(hostTargets, n, hostIds[n])
  <2>1. Labelled(Place(hostTargets, n), hostIds[n])
    BY <1>2, TableLabels DEF LabelInv, LabelTypes
  <2> QED BY <1>1, <2>1, TablesAreOneToOne
<1>3. CASE hostTargets[n] # Unresolved /\ hostTargets[n] \notin DOMAIN labelBySrc
  <2>1. Place(hostTargets, n) = <<hostTargets[n], 0>>
    BY <1>3 DEF Place
  <2> QED BY <1>1, <1>3, <2>1 DEF Labelled
<1> QED BY <1>2, <1>3 DEF LabelInv, HostInTables

LEMMA LabelInvImplies == LabelInv => LabelsAreSound
<1> SUFFICES ASSUME LabelInv PROVE LabelsAreSound
  OBVIOUS
<1>1. /\ guestIds \in Seq(LabelIds) /\ hostIds \in Seq(LabelIds) /\ posLabel \in Seq(LabelIds)
      /\ DOMAIN guestIds = 1 .. Len(guestIds) /\ DOMAIN hostIds = 1 .. Len(hostIds)
      /\ DOMAIN guestTargets = 1 .. Len(guestTargets) /\ DOMAIN hostTargets = 1 .. Len(hostTargets)
  BY TargetsAreSequences DEF LabelInv, LabelTypes
<1>2. LabelsTypeOK
  <2>1. Range(guestIds) \subseteq LabelIds /\ Range(hostIds) \subseteq LabelIds /\ Range(posLabel) \subseteq LabelIds
    BY <1>1 DEF Range
  <2>2. Range(labelBySrc) \subseteq LabelIds
    BY DEF Range, LabelInv, LabelTypes
  <2> QED BY <2>1, <2>2 DEF LabelsTypeOK, LabelInv, LabelTypes, LabelIds
<1>3. LabelsFollowPlaces
  <2> SUFFICES ASSUME labelResult = "labelled" PROVE \A t, u \in Placed : (t[1] = u[1]) <=> (t[2] = u[2])
    BY DEF LabelsFollowPlaces
  <2>1. Range(guestIds) = Range(hostIds)
    BY DEF LabelInv, LabelControl, Consistent
  <2>2. \A t \in Placed : Labelled(t[1], t[2])
    <3>1. \A n \in DOMAIN hostIds : hostIds[n] \in Range(guestIds)
      BY <2>1 DEF Range
    <3> QED BY <3>1, GuestPlacesLabelled, HostPlacesLabelled DEF Placed
  <2> QED BY <2>2, TablesAreOneToOne
<1>4. AcceptsSamePlaces
  <2> SUFFICES ASSUME labelStage = "done"
               PROVE  Range(guestIds) = Range(hostIds) <=> Places(guestTargets) = Places(hostTargets)
    BY DEF AcceptsSamePlaces, LabelInv, LabelControl, Consistent
  <2>1. DOMAIN guestIds = DOMAIN guestTargets /\ DOMAIN hostIds = DOMAIN hostTargets
    BY <1>1 DEF LabelInv, LabelControl
  <2>2. ASSUME Range(guestIds) = Range(hostIds) PROVE Places(guestTargets) = Places(hostTargets)
    <3>1. ASSUME NEW m \in DOMAIN guestIds, NEW n \in DOMAIN hostIds, guestIds[m] = hostIds[n]
          PROVE  Place(guestTargets, m) = Place(hostTargets, n)
      <4>1. hostIds[n] \in Range(guestIds)
        BY <3>1 DEF Range
      <4> QED BY <3>1, <4>1, GuestPlacesLabelled, HostPlacesLabelled, TablesAreOneToOne
    <3>2. \A m \in DOMAIN guestIds : \E n \in DOMAIN hostIds : guestIds[m] = hostIds[n]
      BY <2>2 DEF Range
    <3>3. \A n \in DOMAIN hostIds : \E m \in DOMAIN guestIds : guestIds[m] = hostIds[n]
      BY <2>2 DEF Range
    <3> QED BY <2>1, <3>1, <3>2, <3>3 DEF Places
  <2>3. ASSUME Places(guestTargets) = Places(hostTargets) PROVE Range(guestIds) = Range(hostIds)
    <3>1. \A m \in DOMAIN guestIds : \E n \in DOMAIN hostIds : Place(guestTargets, m) = Place(hostTargets, n)
      BY <2>1, <2>3 DEF Places
    <3>2. \A n \in DOMAIN hostIds : \E m \in DOMAIN guestIds : Place(guestTargets, m) = Place(hostTargets, n)
      BY <2>1, <2>3 DEF Places
    <3> QED BY <3>1, <3>2, SharedPlacesShareLabels DEF Range
  <2> QED BY <2>2, <2>3
<1> QED BY <1>2, <1>3, <1>4 DEF LabelsAreSound

(***************************************************************************)
(* For any two fragments with any number of branches: in a rule that       *)
(* passes labels_are_consistent two branches have one label exactly when   *)
(* they go to one place, and the check passes exactly the windows whose    *)
(* sides go to the same places.                                            *)
(***************************************************************************)
THEOREM LabelsSound == LabelsSpec => []LabelsAreSound
BY LabelInvHolds, LabelInvImplies, PTL

-----------------------------------------------------------------------------
(***************************************************************************)
(* Fixed roles.  What a trace and a slice are, position by position: both  *)
(* are recursive functions, and they exist.                                *)
(***************************************************************************)
TraceAt(f, ins, t, n) ==
    [reg \in Registers(f) |->
        IF Writers(f, reg, n) = {}
        THEN IF reg \in ins /\ ~IsFixedFamily(reg) THEN {reg} ELSE {}
        ELSE LET w == Max(Writers(f, reg, n))
                 found == {t[w][src] : src \in f[w].reads}
             IN  IF {} \in found THEN {} ELSE UNION found]

FreeInputs(f, ins) == {reg \in Registers(f) : reg \in ins /\ ~IsFixedFamily(reg)}

LEMMA FragmentIsSequence ==
    ASSUME NEW f \in Fragments
    PROVE  /\ Len(f) \in Nat /\ DOMAIN f = 1 .. Len(f)
           /\ \A m \in 1 .. Len(f) : \A reg \in f[m].reads \cup f[m].writes : reg \in Registers(f) /\ reg.bytes # {}
<1>1. f \in Seq(Range(f))
  BY FragmentsAreCode
<1>2. Len(f) \in Nat /\ DOMAIN f = 1 .. Len(f)
  BY <1>1
<1> QED BY <1>2, FragmentsAreCode DEF Registers

LEMMA LastWriter ==
    ASSUME NEW f \in Fragments, NEW reg, NEW n \in 1 .. Len(f) + 1, Writers(f, reg, n) # {}
    PROVE  /\ Max(Writers(f, reg, n)) \in Writers(f, reg, n) /\ Max(Writers(f, reg, n)) \in 1 .. n - 1
           /\ \A m \in Writers(f, reg, n) : m <= Max(Writers(f, reg, n))
<1>1. Writers(f, reg, n) \in SUBSET (0 .. n) /\ n \in Nat
  BY FragmentIsSequence DEF Writers
<1>2. Max(Writers(f, reg, n)) \in Writers(f, reg, n) /\ \A m \in Writers(f, reg, n) : m <= Max(Writers(f, reg, n))
  BY <1>1, MaxIsGreatest
<1> QED BY <1>2 DEF Writers

LEMMA TraceAtIsTyped ==
    ASSUME NEW f \in Fragments, NEW ins, NEW n \in 1 .. Len(f) + 1,
           NEW t \in [1 .. Len(f) + 1 -> [Registers(f) -> SUBSET FreeInputs(f, ins)]]
    PROVE  TraceAt(f, ins, t, n) \in [Registers(f) -> SUBSET FreeInputs(f, ins)]
<1> DEFINE value(reg) ==
        IF Writers(f, reg, n) = {}
        THEN IF reg \in ins /\ ~IsFixedFamily(reg) THEN {reg} ELSE {}
        ELSE LET w == Max(Writers(f, reg, n))
                 found == {t[w][src] : src \in f[w].reads}
             IN  IF {} \in found THEN {} ELSE UNION found
<1>1. ASSUME NEW reg \in Registers(f) PROVE value(reg) \in SUBSET FreeInputs(f, ins)
  <2>1. CASE Writers(f, reg, n) = {}
    BY <2>1 DEF FreeInputs
  <2>2. CASE Writers(f, reg, n) # {}
    <3> DEFINE w == Max(Writers(f, reg, n))
    <3>1. w \in 1 .. Len(f) /\ w \in 1 .. Len(f) + 1
      BY <2>2, LastWriter, FragmentIsSequence
    <3> HIDE DEF w
    <3>2. \A src \in f[w].reads : t[w][src] \in SUBSET FreeInputs(f, ins)
      BY <3>1, FragmentIsSequence
    <3>3. value(reg) = LET found == {t[w][src] : src \in f[w].reads} IN IF {} \in found THEN {} ELSE UNION found
      BY <2>2 DEF w
    <3> HIDE DEF value
    <3> QED BY <3>2, <3>3
  <2> QED BY <2>1, <2>2
<1>2. TraceAt(f, ins, t, n) = [reg \in Registers(f) |-> value(reg)]
  BY DEF TraceAt
<1> HIDE DEF value
<1> QED BY <1>1, <1>2

LEMMA TraceExists ==
    ASSUME NEW f \in Fragments, NEW ins
    PROVE  \E t \in [1 .. Len(f) + 1 -> [Registers(f) -> SUBSET FreeInputs(f, ins)]] :
               \A n \in 1 .. Len(f) + 1 : t[n] = TraceAt(f, ins, t, n)
<1> DEFINE X == [Registers(f) -> SUBSET FreeInputs(f, ins)]
           N == Len(f) + 1
           none == [reg \in Registers(f) |-> {}]
           value == [p \in [1 .. N -> X] \X (1 .. N) |-> TraceAt(f, ins, p[1], p[2])]
<1>1. N \in Nat /\ none \in X
  BY FragmentIsSequence
<1>2. value \in [[1 .. N -> X] \X (1 .. N) -> X]
  <2>1. ASSUME NEW p \in [1 .. N -> X] \X (1 .. N) PROVE TraceAt(f, ins, p[1], p[2]) \in X
    <3>1. p[1] \in [1 .. N -> X] /\ p[2] \in 1 .. N
      OBVIOUS
    <3> QED BY <3>1, TraceAtIsTyped
  <2> HIDE DEF X, N
  <2> QED BY <2>1
<1>3. \A t \in [1 .. N -> X], n \in 1 .. N : value[<<t, n>>] = TraceAt(f, ins, t, n)
  <2> HIDE DEF X, N
  <2> QED OBVIOUS
<1>4. ASSUME NEW t \in [1 .. N -> X], NEW u \in [1 .. N -> X], NEW n \in 1 .. N,
             \A j \in 1 .. n - 1 : t[j] = u[j]
      PROVE  TraceAt(f, ins, t, n) = TraceAt(f, ins, u, n)
  <2>1. ASSUME NEW reg, Writers(f, reg, n) # {}
        PROVE  t[Max(Writers(f, reg, n))] = u[Max(Writers(f, reg, n))]
    BY <1>4, <2>1, LastWriter
  <2> QED BY <2>1 DEF TraceAt
<1> HIDE DEF X, N, none, value
<1>5. value \in FromBefore(X, N)
  <2> SUFFICES ASSUME NEW t \in [1 .. N -> X], NEW u \in [1 .. N -> X], NEW n \in 1 .. N,
                      \A j \in 1 .. n - 1 : t[j] = u[j]
               PROVE  value[<<t, n>>] = value[<<u, n>>]
    BY <1>2 DEF FromBefore
  <2>1. TraceAt(f, ins, t, n) = TraceAt(f, ins, u, n)
    BY <1>4
  <2> QED BY <1>3, <2>1
<1>6. PICK t \in [1 .. N -> X] : \A n \in 1 .. N : t[n] = value[<<t, n>>]
  <2>1. \E t : t \in Tables(X, N, value)
    BY <1>1, <1>5, CourseOfValues
  <2> QED BY <2>1 DEF Tables
<1>7. \A n \in 1 .. N : t[n] = TraceAt(f, ins, t, n)
  BY <1>3, <1>6
<1> QED BY <1>6, <1>7 DEF X, N

LEMMA SourcesAreTraced ==
    ASSUME NEW f \in Fragments, NEW ins
    PROVE  /\ SourcesOf(f, ins) \in [1 .. Len(f) + 1 -> [Registers(f) -> SUBSET FreeInputs(f, ins)]]
           /\ \A n \in 1 .. Len(f) + 1 : SourcesOf(f, ins)[n] = TraceAt(f, ins, SourcesOf(f, ins), n)
<1> DEFINE N == Len(f) + 1
           X == [Registers(f) -> SUBSET FreeInputs(f, ins)]
           equation(t) == [n \in 1 .. N |-> TraceAt(f, ins, t, n)]
           chosen == CHOOSE t : t = equation(t)
<1>1. SourcesOf(f, ins) = chosen
  BY DEF SourcesOf, TraceAt
<1>2. PICK t \in [1 .. N -> X] : \A n \in 1 .. N : t[n] = TraceAt(f, ins, t, n)
  BY TraceExists
<1>3. t = equation(t)
  <2> HIDE DEF X, N
  <2> QED BY <1>2
<1>4. chosen = equation(chosen)
  <2> HIDE DEF equation
  <2> QED BY <1>3
<1> HIDE DEF chosen, X, N
<1>5. \A n \in 1 .. N : chosen[n] = TraceAt(f, ins, chosen, n)
  <2> DEFINE e == equation(chosen)
  <2>1. \A n \in 1 .. N : e[n] = TraceAt(f, ins, chosen, n)
    OBVIOUS
  <2> HIDE DEF e
  <2> QED BY <1>4, <2>1 DEF e
<1>6. chosen = [n \in 1 .. N |-> chosen[n]]
  BY <1>4
<1> DEFINE P == {n \in 1 .. N : chosen[n] = t[n]}
<1>7. ASSUME NEW n \in 1 .. N, \A m \in 1 .. N : m < n => chosen[m] = t[m] PROVE chosen[n] = t[n]
  <2>1. ASSUME NEW reg, Writers(f, reg, n) # {}
        PROVE  chosen[Max(Writers(f, reg, n))] = t[Max(Writers(f, reg, n))]
    <3>1. Max(Writers(f, reg, n)) \in 1 .. n - 1
      BY <2>1, LastWriter DEF N
    <3>2. Max(Writers(f, reg, n)) \in 1 .. N /\ Max(Writers(f, reg, n)) < n
      BY <3>1, FragmentIsSequence DEF N
    <3> QED BY <1>7, <3>2
  <2>2. TraceAt(f, ins, chosen, n) = TraceAt(f, ins, t, n)
    BY <2>1 DEF TraceAt
  <2> QED BY <1>2, <1>5, <2>2
<1>8. \A n \in 1 .. N : chosen[n] = t[n]
  <2> SUFFICES ASSUME {n \in 1 .. N : chosen[n] # t[n]} # {} PROVE FALSE
    OBVIOUS
  <2>1. PICK n \in {n \in 1 .. N : chosen[n] # t[n]} : \A m \in {m \in 1 .. N : chosen[m] # t[m]} : n <= m
    <3>1. {n \in 1 .. N : chosen[n] # t[n]} \in SUBSET Nat
      BY FragmentIsSequence DEF N
    <3> QED BY <3>1, LeastElement
  <2>2. \A m \in 1 .. N : m < n => chosen[m] = t[m]
    BY <2>1, FragmentIsSequence DEF N
  <2> QED BY <1>7, <2>1, <2>2
<1>9. chosen = t
  BY <1>2, <1>6, <1>8
<1> QED BY <1>1, <1>2, <1>9 DEF N, X

SliceAt(t, n) ==
    [byte \in AllBytes |->
        IF n = 1 THEN {byte}
        ELSE IF byte \in BytesOfAll(frag[n - 1].writes)
             THEN UNION {t[n - 1][b] : b \in BytesOfAll(frag[n - 1].reads)}
             ELSE t[n - 1][byte]]

LEMMA BytesAreKnown ==
    ASSUME frag \in Fragments, NEW m \in 1 .. Len(frag), NEW reg \in frag[m].reads \cup frag[m].writes
    PROVE  BytesOf(reg) \subseteq AllBytes /\ BytesOf(reg) # {}
<1>1. reg \in Registers(frag) /\ reg.bytes # {}
  BY FragmentIsSequence
<1> QED BY <1>1 DEF AllBytes, BytesOfAll, BytesOf

LEMMA SliceAtIsTyped ==
    ASSUME frag \in Fragments, NEW n \in 1 .. Len(frag) + 1,
           NEW t \in [1 .. Len(frag) + 1 -> [AllBytes -> SUBSET AllBytes]]
    PROVE  SliceAt(t, n) \in [AllBytes -> SUBSET AllBytes]
<1> DEFINE value(byte) ==
        IF n = 1 THEN {byte}
        ELSE IF byte \in BytesOfAll(frag[n - 1].writes)
             THEN UNION {t[n - 1][b] : b \in BytesOfAll(frag[n - 1].reads)}
             ELSE t[n - 1][byte]
<1>1. ASSUME NEW byte \in AllBytes PROVE value(byte) \in SUBSET AllBytes
  <2>1. CASE n = 1
    BY <2>1
  <2>2. CASE n # 1
    <3>1. n - 1 \in 1 .. Len(frag) /\ n - 1 \in 1 .. Len(frag) + 1
      BY <2>2, FragmentIsSequence
    <3>2. BytesOfAll(frag[n - 1].reads) \subseteq AllBytes
      BY <3>1, BytesAreKnown DEF BytesOfAll
    <3>3. t[n - 1] \in [AllBytes -> SUBSET AllBytes]
      BY <3>1
    <3>4. \A b \in AllBytes : t[n - 1][b] \in SUBSET AllBytes
      BY <3>3
    <3>5. UNION {t[n - 1][b] : b \in BytesOfAll(frag[n - 1].reads)} \in SUBSET AllBytes
      BY <3>2, <3>4
    <3>6. t[n - 1][byte] \in SUBSET AllBytes
      BY <3>4
    <3> QED BY <2>2, <3>5, <3>6
  <2> QED BY <2>1, <2>2
<1>2. SliceAt(t, n) = [byte \in AllBytes |-> value(byte)]
  BY DEF SliceAt
<1> HIDE DEF value
<1> QED BY <1>1, <1>2

LEMMA SliceIsStepwise ==
    ASSUME frag \in Fragments, NEW n \in 1 .. Len(frag) + 1
    PROVE  Slice[n] = SliceAt(Slice, n)
<1> DEFINE N == Len(frag) + 1
           X == [AllBytes -> SUBSET AllBytes]
           none == [byte \in AllBytes |-> {}]
           value == [p \in [1 .. N -> X] \X (1 .. N) |-> SliceAt(p[1], p[2])]
           equation(t) == [i \in 1 .. N |-> SliceAt(t, i)]
           chosen == CHOOSE t : t = equation(t)
<1>1. N \in Nat /\ none \in X
  BY FragmentIsSequence
<1>2. value \in [[1 .. N -> X] \X (1 .. N) -> X]
  <2>1. ASSUME NEW p \in [1 .. N -> X] \X (1 .. N) PROVE SliceAt(p[1], p[2]) \in X
    <3>1. p[1] \in [1 .. N -> X] /\ p[2] \in 1 .. N
      OBVIOUS
    <3> QED BY <3>1, SliceAtIsTyped
  <2> HIDE DEF X, N
  <2> QED BY <2>1
<1>3. \A t \in [1 .. N -> X], i \in 1 .. N : value[<<t, i>>] = SliceAt(t, i)
  <2> HIDE DEF X, N
  <2> QED OBVIOUS
<1>4. ASSUME NEW t \in [1 .. N -> X], NEW u \in [1 .. N -> X], NEW i \in 1 .. N,
             \A j \in 1 .. i - 1 : t[j] = u[j]
      PROVE  SliceAt(t, i) = SliceAt(u, i)
  <2>1. CASE i = 1
    BY <2>1 DEF SliceAt
  <2>2. CASE i # 1
    <3>1. i - 1 \in 1 .. i - 1
      BY <2>2, <1>1
    <3>2. t[i - 1] = u[i - 1]
      BY <1>4, <3>1
    <3> QED BY <3>2 DEF SliceAt
  <2> QED BY <2>1, <2>2
<1>5. Slice = chosen
  BY DEF Slice, SliceAt
<1> HIDE DEF X, N, none, value
<1>6. value \in FromBefore(X, N)
  <2> SUFFICES ASSUME NEW t \in [1 .. N -> X], NEW u \in [1 .. N -> X], NEW i \in 1 .. N,
                      \A j \in 1 .. i - 1 : t[j] = u[j]
               PROVE  value[<<t, i>>] = value[<<u, i>>]
    BY <1>2 DEF FromBefore
  <2>1. SliceAt(t, i) = SliceAt(u, i)
    BY <1>4
  <2> QED BY <1>3, <2>1
<1>7. PICK t \in [1 .. N -> X] : \A i \in 1 .. N : t[i] = value[<<t, i>>]
  <2>1. \E t : t \in Tables(X, N, value)
    BY <1>1, <1>6, CourseOfValues
  <2> QED BY <2>1 DEF Tables
<1>8. t = equation(t)
  BY <1>3, <1>7
<1>9. chosen = equation(chosen)
  <2> HIDE DEF equation
  <2> QED BY <1>8
<1> HIDE DEF chosen
<1>10. \A i \in 1 .. N : chosen[i] = SliceAt(chosen, i)
  <2> DEFINE e == equation(chosen)
  <2>1. \A i \in 1 .. N : e[i] = SliceAt(chosen, i)
    OBVIOUS
  <2> HIDE DEF e
  <2> QED BY <1>9, <2>1 DEF e
<1> QED BY <1>5, <1>10 DEF N

\* A byte that nothing writes keeps its slice.
LEMMA SliceOfUnwritten ==
    ASSUME frag \in Fragments, NEW m \in 1 .. Len(frag) + 1, NEW n \in m .. Len(frag) + 1, NEW byte \in AllBytes,
           \A k \in m .. n - 1 : byte \notin BytesOfAll(frag[k].writes)
    PROVE  Slice[n][byte] = Slice[m][byte]
<1> DEFINE P == {k \in m .. n : Slice[k][byte] = Slice[m][byte]}
<1>1. Len(frag) \in Nat
  BY FragmentIsSequence
<1>2. m \in P
  BY <1>1
<1>3. ASSUME NEW k \in m .. n - 1, k \in P PROVE k + 1 \in P
  <2>1. k + 1 \in 1 .. Len(frag) + 1 /\ k + 1 # 1 /\ (k + 1) - 1 = k /\ k + 1 \in m .. n
    BY <1>1
  <2>2. Slice[k + 1] = SliceAt(Slice, k + 1)
    BY <2>1, SliceIsStepwise
  <2>3. SliceAt(Slice, k + 1)[byte] = Slice[k][byte]
    BY <1>3, <2>1 DEF SliceAt
  <2> QED BY <1>3, <2>1, <2>2, <2>3
<1>4. \A k \in m .. n : k \in P
  <2> HIDE DEF P
  <2>1. m \in Int /\ n \in Int
    BY <1>1
  <2> QED BY <1>2, <1>3, <2>1, InductionBetween
<1>5. n \in m .. n
  BY <1>1
<1> QED BY <1>4, <1>5

\* What the bytes of a register depend on: themselves when nothing wrote to them, what its
\* writer reads when the last that wrote to them wrote them all.
SliceOfRegister(reg, n) == UNION {Slice[n][b] : b \in BytesOf(reg)}

LEMMA SliceOfInput ==
    ASSUME frag \in Fragments, NEW n \in 1 .. Len(frag) + 1, NEW reg, BytesOf(reg) \subseteq AllBytes,
           \A k \in 1 .. n - 1 : BytesOfAll(frag[k].writes) \cap BytesOf(reg) = {}
    PROVE  SliceOfRegister(reg, n) = BytesOf(reg)
<1>1. 1 \in 1 .. Len(frag) + 1 /\ n \in 1 .. Len(frag) + 1
  BY FragmentIsSequence
<1>2. ASSUME NEW b \in BytesOf(reg) PROVE Slice[n][b] = {b}
  <2>1. b \in AllBytes /\ \A k \in 1 .. n - 1 : b \notin BytesOfAll(frag[k].writes)
    OBVIOUS
  <2>2. Slice[n][b] = Slice[1][b]
    BY <1>1, <2>1, SliceOfUnwritten
  <2>3. Slice[1][b] = SliceAt(Slice, 1)[b]
    BY <1>1, SliceIsStepwise
  <2> QED BY <2>1, <2>2, <2>3 DEF SliceAt
<1> QED BY <1>2 DEF SliceOfRegister

LEMMA SliceOfWritten ==
    ASSUME frag \in Fragments, NEW n \in 1 .. Len(frag) + 1, NEW reg, NEW w \in 1 .. n - 1, NEW writer \in frag[w].writes,
           Covers(writer, reg), BytesOf(reg) # {},
           \A k \in w + 1 .. n - 1 : BytesOfAll(frag[k].writes) \cap BytesOf(reg) = {}
    PROVE  SliceOfRegister(reg, n) = UNION {SliceOfRegister(src, w) : src \in frag[w].reads}
<1>1. w \in 1 .. Len(frag) /\ w + 1 \in 1 .. Len(frag) + 1 /\ n \in w + 1 .. Len(frag) + 1 /\ (w + 1) - 1 = w /\ w + 1 # 1
  BY FragmentIsSequence
<1>2. BytesOf(reg) \subseteq BytesOf(writer) /\ BytesOf(writer) \subseteq AllBytes
      /\ BytesOf(writer) \subseteq BytesOfAll(frag[w].writes)
  <2>1. BytesOf(writer) \subseteq AllBytes
    BY <1>1, BytesAreKnown
  <2> QED BY <2>1 DEF Covers, BytesOf, BytesOfAll
<1>3. ASSUME NEW b \in BytesOf(reg) PROVE Slice[n][b] = UNION {Slice[w][c] : c \in BytesOfAll(frag[w].reads)}
  <2>1. b \in AllBytes /\ \A k \in w + 1 .. n - 1 : b \notin BytesOfAll(frag[k].writes)
    BY <1>2
  <2>2. Slice[n][b] = Slice[w + 1][b]
    BY <1>1, <2>1, SliceOfUnwritten
  <2>3. Slice[w + 1][b] = SliceAt(Slice, w + 1)[b]
    BY <1>1, SliceIsStepwise
  <2>4. SliceAt(Slice, w + 1)[b] = UNION {Slice[w][c] : c \in BytesOfAll(frag[w].reads)}
    BY <1>1, <1>2, <2>1 DEF SliceAt
  <2> QED BY <2>2, <2>3, <2>4
<1>4. SliceOfRegister(reg, n) = UNION {Slice[w][c] : c \in BytesOfAll(frag[w].reads)}
  BY <1>3 DEF SliceOfRegister
<1>5. UNION {Slice[w][c] : c \in BytesOfAll(frag[w].reads)} = UNION {SliceOfRegister(src, w) : src \in frag[w].reads}
  BY DEF SliceOfRegister, BytesOfAll
<1> QED BY <1>4, <1>5

Trace == SourcesOf(frag, inputs)

LEMMA TraceOfRegister ==
    ASSUME frag \in Fragments, NEW n \in 1 .. Len(frag) + 1, NEW reg \in Registers(frag)
    PROVE  /\ Trace[n][reg] \in SUBSET FreeInputs(frag, inputs)
           /\ Writers(frag, reg, n) = {} => Trace[n][reg] = IF reg \in inputs /\ ~IsFixedFamily(reg) THEN {reg} ELSE {}
           /\ Writers(frag, reg, n) # {} =>
                 LET found == {Trace[Max(Writers(frag, reg, n))][src] : src \in frag[Max(Writers(frag, reg, n))].reads}
                 IN  Trace[n][reg] = IF {} \in found THEN {} ELSE UNION found
<1>1. Trace[n] \in [Registers(frag) -> SUBSET FreeInputs(frag, inputs)] /\ Trace[n] = TraceAt(frag, inputs, Trace, n)
  BY SourcesAreTraced DEF Trace
<1>2. Trace[n][reg] = TraceAt(frag, inputs, Trace, n)[reg]
  BY <1>1
<1> QED BY <1>1, <1>2 DEF TraceAt

\* Where the last write to a register was to all of it, that writer is the one the
\* trace goes to.
LEMMA WholeReads ==
    ASSUME frag \in Fragments, NEW n \in 1 .. Len(frag), NEW reg \in frag[n].reads, LastWroteAll(reg, n)
    PROVE  /\ Writers(frag, reg, n) = {} =>
                 \A k \in 1 .. n - 1 : BytesOfAll(frag[k].writes) \cap BytesOf(reg) = {}
           /\ Writers(frag, reg, n) # {} =>
                 \A k \in Max(Writers(frag, reg, n)) + 1 .. n - 1 :
                     BytesOfAll(frag[k].writes) \cap BytesOf(reg) = {}
<1> DEFINE some == {m \in 1 .. n - 1 : BytesOfAll(frag[m].writes) \cap BytesOf(reg) # {}}
<1>1. Len(frag) \in Nat /\ DOMAIN frag = 1 .. Len(frag) /\ n \in Nat /\ n \in 1 .. Len(frag) + 1
  BY FragmentIsSequence
<1>2. some # {} => \E w \in frag[Max(some)].writes : Covers(w, reg)
  BY DEF LastWroteAll
<1>3. some # {} => Max(some) \in some /\ \A m \in some : m <= Max(some)
  <2>1. some \in SUBSET (0 .. n)
    OBVIOUS
  <2> HIDE DEF some
  <2> QED BY <1>1, <2>1, MaxIsGreatest
<1>4. some # {} => Max(some) \in Writers(frag, reg, n)
  BY <1>2, <1>3 DEF Writers
<1>5. CASE some = {}
  <2>1. \A k \in 1 .. n - 1 : BytesOfAll(frag[k].writes) \cap BytesOf(reg) = {}
    BY <1>5
  <2>2. Writers(frag, reg, n) # {} => Max(Writers(frag, reg, n)) \in 1 .. n - 1
    BY <1>1, LastWriter
  <2>3. Writers(frag, reg, n) # {} => Max(Writers(frag, reg, n)) + 1 .. n - 1 \subseteq 1 .. n - 1
    BY <2>2
  <2> QED BY <2>1, <2>3
<1>6. CASE some # {}
  <2>1. Writers(frag, reg, n) # {} /\ Max(some) <= Max(Writers(frag, reg, n)) /\ Max(Writers(frag, reg, n)) \in 1 .. n - 1
    BY <1>1, <1>4, <1>6, LastWriter
  <2>2. ASSUME NEW k \in Max(Writers(frag, reg, n)) + 1 .. n - 1
        PROVE  BytesOfAll(frag[k].writes) \cap BytesOf(reg) = {}
    <3>1. k \in 1 .. n - 1 /\ ~(k <= Max(some)) 
      BY <1>3, <1>6, <2>1
    <3>2. k \notin some
      BY <1>3, <1>6, <3>1
    <3> QED BY <3>1, <3>2
  <2> QED BY <2>1, <2>2
<1> QED BY <1>5, <1>6

\* So the bytes of a trace that succeeds along whole registers are the slice.
LEMMA TraceIsSlice ==
    ASSUME frag \in Fragments, NEW S \in SUBSET DOMAIN frag, Closed(S)
    PROVE  \A n \in 1 .. Len(frag) : \A reg \in frag[n].reads :
               ProducedIn(S, reg, n) /\ Trace[n][reg] # {} =>
                   BytesOfAll(Trace[n][reg]) = SliceOfRegister(reg, n)
<1> DEFINE Good(n) == \A reg \in frag[n].reads :
               ProducedIn(S, reg, n) /\ Trace[n][reg] # {} =>
                   BytesOfAll(Trace[n][reg]) = SliceOfRegister(reg, n)
<1>1. Len(frag) \in Nat
  BY FragmentIsSequence
<1>2. ASSUME NEW n \in 1 .. Len(frag), \A m \in 1 .. Len(frag) : m < n => Good(m) PROVE Good(n)
  <2> SUFFICES ASSUME NEW reg \in frag[n].reads, ProducedIn(S, reg, n), Trace[n][reg] # {}
               PROVE  BytesOfAll(Trace[n][reg]) = SliceOfRegister(reg, n)
    OBVIOUS
  <2>0. LastWroteAll(reg, n)
    BY DEF ProducedIn
  <2>1. n \in 1 .. Len(frag) + 1 /\ reg \in Registers(frag) /\ BytesOf(reg) \subseteq AllBytes /\ BytesOf(reg) # {}
    BY <1>1, FragmentIsSequence, BytesAreKnown
  <2>2. CASE Writers(frag, reg, n) = {}
    <3>1. Trace[n][reg] = {reg}
      BY <2>1, <2>2, TraceOfRegister
    <3>2. SliceOfRegister(reg, n) = BytesOf(reg)
      BY <2>0, <2>1, <2>2, WholeReads, SliceOfInput
    <3> QED BY <3>1, <3>2 DEF BytesOfAll
  <2>3. CASE Writers(frag, reg, n) # {}
    <3> DEFINE w == Max(Writers(frag, reg, n))
               found == {Trace[w][src] : src \in frag[w].reads}
    <3>1. w \in Writers(frag, reg, n) /\ w \in 1 .. n - 1
      BY <2>1, <2>3, LastWriter
    <3>2. w \in 1 .. Len(frag) /\ w < n
      BY <1>1, <3>1
    <3>3. PICK writer \in frag[w].writes : Covers(writer, reg)
      BY <3>1 DEF Writers
    <3>4. \A k \in w + 1 .. n - 1 : BytesOfAll(frag[k].writes) \cap BytesOf(reg) = {}
      BY <2>0, <2>3, WholeReads
    <3>5. Trace[n][reg] = IF {} \in found THEN {} ELSE UNION found
      BY <2>1, <2>3, TraceOfRegister
    <3>10. w \in S /\ \A src \in frag[w].reads : ProducedIn(S, src, w)
      BY <2>3 DEF ProducedIn, Closed
    <3> HIDE DEF w
    <3>6. SliceOfRegister(reg, n) = UNION {SliceOfRegister(src, w) : src \in frag[w].reads}
      BY <2>1, <3>1, <3>3, <3>4, SliceOfWritten
    <3>7. ASSUME NEW src \in frag[w].reads PROVE BytesOfAll(Trace[w][src]) = SliceOfRegister(src, w)
      BY <1>2, <3>2, <3>5, <3>10
    <3>8. Trace[n][reg] = UNION found
      BY <3>5
    <3>9. BytesOfAll(UNION found) = UNION {BytesOfAll(Trace[w][src]) : src \in frag[w].reads}
      BY DEF BytesOfAll
    <3> QED BY <3>6, <3>7, <3>8, <3>9
  <2> QED BY <2>2, <2>3
<1> HIDE DEF Good
<1>3. \A n \in 1 .. Len(frag) : Good(n)
  <2> DEFINE bad == {n \in 1 .. Len(frag) : ~Good(n)}
  <2> SUFFICES ASSUME bad # {} PROVE FALSE
    OBVIOUS
  <2>1. bad \in SUBSET Nat
    BY <1>1
  <2>2. PICK n \in bad : \A m \in bad : n <= m
    <3> HIDE DEF bad
    <3> QED BY <2>1, LeastElement
  <2>3. \A m \in 1 .. Len(frag) : m < n => Good(m)
    BY <1>1, <2>2
  <2> QED BY <1>2, <2>2, <2>3
<1> QED BY <1>3 DEF Good

(***************************************************************************)
(* The inductive invariant of the plan: the sources are what the traces of *)
(* the consumers with a producer found, no trace failed, and a consumer    *)
(* without one is a view of an input of the guest.                         *)
(***************************************************************************)
PlanControl ==
    /\ frag \in Fragments /\ side \in {"guest", "host"} /\ reading \in 1 .. Len(frag) + 1
    /\ planResult \in {"planning", "planned", "unbound_fixed_role_register"}
    /\ \A p \in producers : Covers(p, FixedRole)

PlanSources ==
    /\ sources = UNION {Trace[n][FixedRole] : n \in InsideConsumers}
    /\ \A n \in InsideConsumers : Trace[n][FixedRole] # {}

PlanOutside ==
    /\ side = "host" => Consumers = InsideConsumers
    /\ views # {} => side = "guest" /\ CoveringInputs # {}

PlanInv == PlanControl /\ PlanSources /\ PlanOutside

LEMMA PlanInvStarts == PlansInit => PlanInv
<1> SUFFICES ASSUME PlansInit PROVE PlanInv
  OBVIOUS
<1>1. Len(frag) \in Nat /\ 1 .. 1 - 1 = {}
  BY FragmentIsSequence DEF PlansInit
<1>2. Consumers = {} /\ InsideConsumers = {}
  BY <1>1 DEF PlansInit, Consumers, InsideConsumers
<1> QED BY <1>1, <1>2 DEF PlansInit, PlanInv, PlanControl, PlanSources, PlanOutside

\* The register a producer keeps has the sources of the count that is read.
LEMMA ProducedSources ==
    ASSUME frag \in Fragments, NEW n \in 1 .. Len(frag), FixedRole \in frag[n].reads,
           Writers(frag, FixedRole, n) # {},
           NEW reg \in frag[Max(Writers(frag, FixedRole, n))].writes, Covers(reg, FixedRole)
    PROVE  Trace[Max(Writers(frag, FixedRole, n)) + 1][reg] = Trace[n][FixedRole]
<1> DEFINE w == Max(Writers(frag, FixedRole, n))
           found == {Trace[w][src] : src \in frag[w].reads}
<1>1. Len(frag) \in Nat /\ n \in 1 .. Len(frag) + 1 /\ FixedRole \in Registers(frag)
  BY FragmentIsSequence
<1>2. w \in 1 .. n - 1
  BY <1>1, LastWriter
<1>3. w \in 1 .. Len(frag) /\ w + 1 \in 1 .. Len(frag) + 1
  BY <1>1, <1>2
<1>4. reg \in frag[w].writes
  OBVIOUS
<1>6. Trace[n][FixedRole] = IF {} \in found THEN {} ELSE UNION found
  BY <1>1, TraceOfRegister
<1> HIDE DEF w
<1>5. reg \in Registers(frag)
  BY <1>3, <1>4, FragmentIsSequence
<1>7. w \in Writers(frag, reg, w + 1)
  <2>1. w \in 1 .. (w + 1) - 1 /\ Covers(reg, reg)
    BY <1>3 DEF Covers
  <2> QED BY <1>4, <2>1 DEF Writers
<1>8. Max(Writers(frag, reg, w + 1)) = w
  <2>1. w <= Max(Writers(frag, reg, w + 1)) /\ Max(Writers(frag, reg, w + 1)) \in 1 .. (w + 1) - 1
    BY <1>3, <1>7, LastWriter
  <2> QED BY <1>3, <2>1
<1>9. Trace[w + 1][reg] = IF {} \in found THEN {} ELSE UNION found
  <2> DEFINE last == Max(Writers(frag, reg, w + 1))
             fed == {Trace[last][src] : src \in frag[last].reads}
  <2>1. Writers(frag, reg, w + 1) # {}
    BY <1>7
  <2>2. Trace[w + 1][reg] = IF {} \in fed THEN {} ELSE UNION fed
    BY <1>3, <1>5, <2>1, TraceOfRegister
  <2> QED BY <1>8, <2>2, Zenon
<1> QED BY <1>6, <1>9 DEF w

LEMMA ConsumersGrow ==
    ASSUME PlanControl, reading <= Len(frag), reading' = reading + 1, frag' = frag
    PROVE  /\ Consumers' = IF FixedRole \in frag[reading].reads THEN Consumers \cup {reading} ELSE Consumers
           /\ InsideConsumers' = IF FixedRole \in frag[reading].reads /\ Writers(frag, FixedRole, reading) # {}
                                 THEN InsideConsumers \cup {reading} ELSE InsideConsumers
<1>1. reading \in Nat /\ 1 .. (reading + 1) - 1 = (1 .. reading - 1) \cup {reading}
  BY FragmentIsSequence DEF PlanControl
<1>2. Consumers' = {n \in (1 .. reading - 1) \cup {reading} : FixedRole \in frag[n].reads}
  BY <1>1 DEF Consumers
<1>3. Consumers' = IF FixedRole \in frag[reading].reads THEN Consumers \cup {reading} ELSE Consumers
  BY <1>2 DEF Consumers
<1>4. InsideConsumers' = {n \in Consumers' : Writers(frag, FixedRole, n) # {}}
  BY DEF InsideConsumers
<1> QED BY <1>3, <1>4 DEF InsideConsumers

LEMMA PlanInvStep == PlanInv /\ [PlansNext]_plansVars => PlanInv'
<1> SUFFICES ASSUME PlanInv, [PlansNext]_plansVars PROVE PlanInv'
  OBVIOUS
<1>1. /\ Len(frag) \in Nat /\ reading \in Nat
      /\ reading <= Len(frag) => reading \in 1 .. Len(frag) /\ reading + 1 \in 1 .. Len(frag) + 1
  BY FragmentIsSequence DEF PlanInv, PlanControl
<1>2. ASSUME UNCHANGED <<frag, side, inputs, reading, producers, sources, views>>,
             planResult' \in {"planning", "planned", "unbound_fixed_role_register"}
      PROVE  PlanInv'
  <2>1. Consumers' = Consumers /\ InsideConsumers' = InsideConsumers /\ Trace' = Trace
        /\ CoveringInputs' = CoveringInputs
    BY <1>2 DEF Consumers, InsideConsumers, Trace, CoveringInputs
  <2>2. PlanControl'
    BY <1>2 DEF PlanInv, PlanControl
  <2>3. PlanSources'
    BY <1>2, <2>1 DEF PlanInv, PlanSources
  <2>4. PlanOutside'
    BY <1>2, <2>1 DEF PlanInv, PlanOutside
  <2> QED BY <2>2, <2>3, <2>4 DEF PlanInv
<1>3. Refuse => PlanInv'
  BY <1>2 DEF Refuse
<1>4. ASSUME Continue PROVE Trace' = Trace /\ CoveringInputs' = CoveringInputs
  BY <1>4 DEF Continue, Trace, CoveringInputs
<1>5. ASSUME NotRead PROVE PlanInv'
  <2>1. Continue /\ reading <= Len(frag) /\ FixedRole \notin frag[reading].reads
        /\ producers' = producers /\ sources' = sources /\ views' = views
    BY <1>5 DEF NotRead, Reads
  <2>2. Consumers' = Consumers /\ InsideConsumers' = InsideConsumers
    BY <2>1, ConsumersGrow DEF PlanInv, Continue
  <2>3. PlanControl'
    BY <1>1, <2>1 DEF PlanInv, PlanControl, Continue
  <2>4. PlanSources'
    BY <1>4, <2>1, <2>2 DEF PlanInv, PlanSources
  <2>5. PlanOutside'
    BY <1>4, <2>1, <2>2 DEF PlanInv, PlanOutside, Continue
  <2> QED BY <2>3, <2>4, <2>5 DEF PlanInv
<1>6. ASSUME Produced PROVE PlanInv'
  <2> DEFINE w == Max(Writers(frag, FixedRole, reading))
  <2>1. reading <= Len(frag) /\ FixedRole \in frag[reading].reads /\ Writers(frag, FixedRole, reading) # {}
    BY <1>6 DEF Produced, Reads
  <2>2. PICK reg \in {r \in frag[w].writes : Covers(r, FixedRole)} :
          LET found == Trace[w + 1][reg] IN
          \/ found = {} /\ Refuse
          \/ /\ found # {}
             /\ producers' = producers \cup {reg} /\ sources' = sources \cup found
             /\ Continue /\ UNCHANGED views
    BY <1>6 DEF Produced, Trace
  <2>3. Trace[w + 1][reg] = Trace[reading][FixedRole]
    BY <1>1, <2>1, ProducedSources DEF PlanInv, PlanControl
  <2>4. CASE Trace[w + 1][reg] = {} /\ Refuse
    BY <1>3, <2>4
  <2>5. CASE /\ Trace[w + 1][reg] # {}
             /\ producers' = producers \cup {reg} /\ sources' = sources \cup Trace[w + 1][reg]
             /\ Continue /\ UNCHANGED views
    <3>1. Consumers' = Consumers \cup {reading} /\ InsideConsumers' = InsideConsumers \cup {reading}
      BY <2>1, <2>5, ConsumersGrow DEF PlanInv, Continue
    <3>2. PlanControl'
      BY <1>1, <2>1, <2>5 DEF PlanInv, PlanControl, Continue
    <3>3. PlanSources'
      <4>1. sources' = sources \cup Trace[reading][FixedRole] /\ Trace[reading][FixedRole] # {}
        BY <2>3, <2>5
      <4>2. UNION {Trace[n][FixedRole] : n \in InsideConsumers \cup {reading}} =
                (UNION {Trace[n][FixedRole] : n \in InsideConsumers}) \cup Trace[reading][FixedRole]
        OBVIOUS
      <4>3. sources = UNION {Trace[n][FixedRole] : n \in InsideConsumers}
            /\ \A n \in InsideConsumers : Trace[n][FixedRole] # {}
        BY DEF PlanInv, PlanSources
      <4>4. /\ sources' = UNION {Trace[n][FixedRole] : n \in InsideConsumers \cup {reading}}
            /\ \A n \in InsideConsumers \cup {reading} : Trace[n][FixedRole] # {}
        BY <4>1, <4>2, <4>3
      <4>5. Trace' = Trace /\ InsideConsumers' = InsideConsumers \cup {reading}
        BY <1>4, <2>5, <3>1
      <4> QED BY <4>4, <4>5 DEF PlanSources
    <3>4. PlanOutside'
      BY <1>4, <2>5, <3>1 DEF PlanInv, PlanOutside, Continue
    <3> QED BY <3>2, <3>3, <3>4 DEF PlanInv
  <2> QED BY <2>2, <2>4, <2>5
<1>7. ASSUME External PROVE PlanInv'
  <2>1. reading <= Len(frag) /\ FixedRole \in frag[reading].reads /\ Writers(frag, FixedRole, reading) = {}
    BY <1>7 DEF External, Reads
  <2>2. CASE /\ side = "guest" /\ CoveringInputs # {}
             /\ views' = views \cup {FixedRole} /\ Continue /\ UNCHANGED <<producers, sources>>
    <3>1. InsideConsumers' = InsideConsumers
      BY <2>1, <2>2, ConsumersGrow DEF PlanInv, Continue
    <3>2. PlanControl'
      BY <1>1, <2>1, <2>2 DEF PlanInv, PlanControl, Continue
    <3>3. PlanSources'
      BY <1>4, <2>2, <3>1 DEF PlanInv, PlanSources
    <3>4. PlanOutside'
      BY <1>4, <2>2 DEF PlanOutside, Continue
    <3> QED BY <3>2, <3>3, <3>4 DEF PlanInv
  <2> QED BY <1>3, <1>7, <2>2 DEF External
<1>8. ASSUME Planned PROVE PlanInv'
  BY <1>2, <1>3, <1>8 DEF Planned
<1>9. ASSUME UNCHANGED plansVars PROVE PlanInv'
  BY <1>2, <1>9 DEF plansVars, PlanInv, PlanControl
<1> QED BY <1>5, <1>6, <1>7, <1>8, <1>9 DEF PlansNext

LEMMA PlanInvHolds == PlansSpec => []PlanInv
<1>1. PlansInit => PlanInv
  BY PlanInvStarts
<1>2. PlanInv /\ [PlansNext]_plansVars => PlanInv'
  BY PlanInvStep
<1> QED BY <1>1, <1>2, PTL DEF PlansSpec

LEMMA PlanInvImplies == PlanInv => PlansAreSound
<1> SUFFICES ASSUME PlanInv PROVE PlansAreSound
  OBVIOUS
<1>1. frag \in Fragments /\ Len(frag) \in Nat /\ DOMAIN frag = 1 .. Len(frag)
  BY FragmentIsSequence DEF PlanInv, PlanControl
<1>2. ASSUME NEW n \in Consumers
      PROVE  n \in 1 .. Len(frag) /\ n \in 1 .. Len(frag) + 1 /\ FixedRole \in frag[n].reads
             /\ FixedRole \in Registers(frag)
  BY <1>1 DEF Consumers, PlanInv, PlanControl, Registers
<1>3. \A n \in Consumers : Trace[n][FixedRole] \in SUBSET FreeInputs(frag, inputs)
  BY <1>1, <1>2, TraceOfRegister
<1>4. PlansTypeOK
  <2>1. sources \subseteq FreeInputs(frag, inputs)
    BY <1>3 DEF PlanInv, PlanSources, InsideConsumers
  <2> QED BY <2>1 DEF PlansTypeOK, PlanInv, PlanControl, FreeInputs
<1>5. \A n \in Consumers : DependsOn(n) = SliceOfRegister(FixedRole, n)
  BY DEF DependsOn, SliceOfRegister
<1>6. ASSUME NEW n \in InsideConsumers, WholeChains(n)
      PROVE  BytesOfAll(Trace[n][FixedRole]) = DependsOn(n)
  <2>1. PICK S \in SUBSET DOMAIN frag : Closed(S) /\ ProducedIn(S, FixedRole, n)
    BY <1>6 DEF WholeChains
  <2>2. n \in Consumers /\ Trace[n][FixedRole] # {}
    BY DEF PlanInv, PlanSources, InsideConsumers
  <2> QED BY <1>1, <1>2, <1>5, <2>1, <2>2, TraceIsSlice
<1>7. SourcesAreTheSlice
  <2>1. BytesOfAll(sources) = UNION {BytesOfAll(Trace[n][FixedRole]) : n \in InsideConsumers}
    BY DEF BytesOfAll, PlanInv, PlanSources
  <2> QED BY <1>6, <2>1 DEF SourcesAreTheSlice
<1>8. OutsideOnlyByView
  <2>0. ASSUME side = "host" PROVE Consumers = InsideConsumers
    BY <2>0 DEF PlanInv, PlanOutside, InsideConsumers
  <2>1. ASSUME side = "host", NEW n \in Consumers, WholeChains(n)
        PROVE  ~(BytesOf(FixedRole) \subseteq DependsOn(n))
    <3>1. n \in InsideConsumers
      BY <2>0, <2>1
    <3>2. BytesOf(FixedRole) # {}
      BY <1>1, <1>2, BytesAreKnown
    <3>3. DependsOn(n) = BytesOfAll(Trace[n][FixedRole])
      BY <1>6, <2>1, <3>1
    <3>4. \A r \in Trace[n][FixedRole] : r.fam # FixedRole.fam
      BY <1>3 DEF FreeInputs, IsFixedFamily
    <3>5. \A c \in DependsOn(n) : c[1] # FixedRole.fam
      BY <3>3, <3>4 DEF BytesOfAll, BytesOf
    <3>6. \A c \in BytesOf(FixedRole) : c[1] = FixedRole.fam
      BY DEF BytesOf
    <3> QED BY <3>2, <3>5, <3>6
  <2>2. views # {} => side = "guest" /\ \E reg \in inputs : Covers(reg, FixedRole)
    BY DEF PlanInv, PlanOutside, CoveringInputs
  <2> QED BY <2>0, <2>1, <2>2 DEF OutsideOnlyByView
<1> QED BY <1>4, <1>7, <1>8 DEF PlansAreSound

(***************************************************************************)
(* For every fragment: a planned host rule has a writer of the whole       *)
(* register before every shift count it reads, and a view is of an input   *)
(* of the guest that covers it.  For every shift whose chains are of whole *)
(* registers (WholeChains): the sources planned are its byte-by-byte       *)
(* backward slice, and nothing of the old register is in it.  A chain      *)
(* through a register last written in part is not spoken of: the code      *)
(* steps over that writer.                                                 *)
(***************************************************************************)
THEOREM PlansSound == PlansSpec => []PlansAreSound
BY PlanInvHolds, PlanInvImplies, PTL
=================================================================================
