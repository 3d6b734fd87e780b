---------------------------- MODULE ExtractionProofs ----------------------------
(***************************************************************************)
(* Proofs about the two parts of extraction, for every pair of objects,    *)
(* every region and every size limits.                                     *)
(*                                                                         *)
(* WindowMining: pruning decisions are final, every window is decided      *)
(* once, and the diagnostics add up.  Stages run in order of size, so      *)
(* whatever is verified after a window was decided is at least as large as *)
(* it, and covers() looks at strictly smaller windows of the same region   *)
(* only.  The scan of covers() itself is shown sound: what it accepts is   *)
(* tiled by the spans it was given.                                        *)
(*                                                                         *)
(* Alignment: first the blocks of a function as the chain of the builder's *)
(* steps, then the order of the group keys, then the inductive invariant:  *)
(* what is listed, what was visited and what was counted.                  *)
(***************************************************************************)
EXTENDS WindowMining, Alignment, DataInduction

Decided == pruned \cup kept

\* The windows of a stage belong to the region and have the stage's size.
LEMMA WindowsOfStage ==
    ASSUME NEW r, NEW s \in Stages, NEW w \in Windows(r, s)
    PROVE  w.region = r /\ Area(w) = s[1] + s[2]
<1>1. s[1] \in Nat /\ s[2] \in Nat
  BY SizesAssumption DEF Stages
<1>2. PICK g \in Intervals(GuestLen[r], s[1]), h \in Intervals(HostLen[r], s[2]) :
          w = [region |-> r, g |-> g, h |-> h]
  BY DEF Windows
<1>3. PICK i \in Nat : g = <<i, i + s[1]>>
  BY DEF Intervals
<1>4. PICK j \in Nat : h = <<j, j + s[2]>>
  BY DEF Intervals
<1>5. QED
  BY <1>1, <1>2, <1>3, <1>4 DEF Area

LEMMA StageSize == ASSUME NEW s \in Stages PROVE s[1] + s[2] \in Nat
<1>1. s[1] \in Nat /\ s[2] \in Nat
  BY SizesAssumption DEF Stages
<1>2. QED
  BY <1>1

\* The stage that runs first is one of the smallest that remain.
LEMMA FirstIsSmallest ==
    ASSUME NEW S \in SUBSET Stages, NEW s \in First(S), NEW t \in S
    PROVE  s \in Stages /\ s[1] + s[2] <= t[1] + t[2]
<1>1. s[1] \in Nat /\ s[2] \in Nat /\ t[1] \in Nat /\ t[2] \in Nat /\ s \in Stages
  BY SizesAssumption DEF Stages, First
<1>2. QED
  BY <1>1 DEF First, Before

\* Windows that are no smaller than w, or of other regions, do not matter to
\* whether w is covered.
LEMMA LargerAreIrrelevant ==
    ASSUME NEW V, NEW V2, NEW w,
           \A v \in V2 : v.region = w.region => ~(Area(v) < Area(w))
    PROVE  Covers(V \cup V2, w) = Covers(V, w)
<1>1. Smaller(V \cup V2, w) = Smaller(V, w)
  BY DEF Smaller
<1>2. QED
  BY <1>1 DEF Covers

(***************************************************************************)
(* The inductive invariant.                                                *)
(***************************************************************************)
\* Decided windows are of this region or an earlier one; those of this region
\* are no larger than a stage still to run, and during a stage no larger than
\* the windows it may verify.
Order ==
    /\ region \in Nat
    /\ remaining \subseteq Stages
    /\ \A w \in Decided : w.region \in Nat /\ w.region <= region /\ Area(w) \in Nat
    /\ phase = "enumerate" => \A w \in Decided : w.region < region
    /\ phase # "enumerate" => \A w \in Decided : w.region = region =>
          \A s \in remaining : Area(w) <= s[1] + s[2]
    /\ phase = "infer" => \A v \in staged : v.region = region /\ Area(v) \in Nat /\
          \A w \in Decided : w.region = region => Area(w) <= Area(v)
    /\ phase = "verify" => \A v \in emitted : v.region = region /\ Area(v) \in Nat /\
          \A w \in Decided : w.region = region => Area(w) <= Area(v)

Inv == Order /\ DecisionsAreFinal

LEMMA InitInv == Init => Inv
BY DEF Init, Inv, Order, Decided, DecisionsAreFinal

LEMMA StepInv == Inv /\ [Next]_vars => Inv'
<1> SUFFICES ASSUME Inv, [Next]_vars PROVE Inv'
  OBVIOUS
<1> USE DEF Inv
<1>1. CASE Enumerate
  <2>1. /\ phase = "enumerate" /\ phase' = "prune" /\ remaining' = Stages
        /\ UNCHANGED <<region, verified, pruned, kept>>
    BY <1>1 DEF Enumerate
  <2>2. Order'
    BY <2>1 DEF Order, Decided
  <2>3. DecisionsAreFinal'
    BY <2>1 DEF DecisionsAreFinal
  <2>4. QED
    BY <2>2, <2>3
<1>2. CASE Prune
  <2>1. PICK s \in First(remaining) :
            LET windows  == Windows(region, s)
                subsumed == {w \in windows : Covers(verified, w)}
            IN  /\ remaining' = remaining \ {s}
                /\ staged' = windows \ subsumed
                /\ pruned' = pruned \cup subsumed
                /\ kept' = kept \cup (windows \ subsumed)
    BY <1>2 DEF Prune
  <2>2. phase = "prune" /\ phase' = "infer" /\ UNCHANGED <<region, emitted, verified>>
    BY <1>2 DEF Prune
  <2>3. s \in Stages /\ s \in remaining /\ \A t \in remaining : s[1] + s[2] <= t[1] + t[2]
    BY FirstIsSmallest DEF Order, First
  <2>4. s[1] + s[2] \in Nat
    BY <2>3, StageSize
  <2>5. \A w \in Windows(region, s) : w.region = region /\ Area(w) = s[1] + s[2]
    BY <2>3, WindowsOfStage
  <2>6. \A w \in Decided : w.region = region => Area(w) <= s[1] + s[2]
    BY <2>2, <2>3 DEF Order
  <2>7. Decided' = Decided \cup Windows(region, s)
    BY <2>1 DEF Decided
  <2>8. \A w \in Decided' :
            w.region \in Nat /\ w.region <= region /\ Area(w) \in Nat
            /\ (w.region = region => Area(w) <= s[1] + s[2])
    BY <2>4, <2>5, <2>6, <2>7 DEF Order
  <2>9. \A v \in staged' : v.region = region /\ Area(v) = s[1] + s[2]
    BY <2>1, <2>5
  <2>10. \A t \in remaining' : t[1] + t[2] \in Nat /\ s[1] + s[2] <= t[1] + t[2]
    BY <2>1, <2>3, StageSize DEF Order
  <2>11. \A w \in Decided' : w.region = region =>
            \A t \in remaining' : Area(w) <= t[1] + t[2]
    BY <2>4, <2>8, <2>10
  <2>12. Order'
    BY <2>1, <2>2, <2>4, <2>8, <2>9, <2>11 DEF Order
  <2>13. DecisionsAreFinal'
    BY <2>1, <2>2 DEF DecisionsAreFinal
  <2>14. QED
    BY <2>12, <2>13
<1>3. CASE Infer
  <2>1. /\ phase = "infer" /\ phase' \in {"verify", "next"} /\ emitted' \subseteq staged
        /\ UNCHANGED <<region, remaining, staged, verified, pruned, kept>>
    BY <1>3 DEF Infer
  <2>2. Order'
    BY <2>1 DEF Order, Decided
  <2>3. DecisionsAreFinal'
    BY <2>1 DEF DecisionsAreFinal
  <2>4. QED
    BY <2>2, <2>3
<1>4. CASE VerifyStage
  <2>1. PICK passed \in SUBSET emitted : verified' = verified \cup passed
    BY <1>4 DEF VerifyStage
  <2>2. /\ phase = "verify" /\ phase' = "next"
        /\ UNCHANGED <<region, remaining, staged, emitted, pruned, kept>>
    BY <1>4 DEF VerifyStage
  <2>3. ASSUME NEW w \in Decided
        PROVE  Covers(verified', w) = Covers(verified, w)
    <3>1. \A v \in passed : v.region = w.region => ~(Area(v) < Area(w))
      BY <2>1, <2>2 DEF Order
    <3>2. QED
      BY <2>1, <3>1, LargerAreIrrelevant
  <2>4. DecisionsAreFinal'
    BY <2>2, <2>3 DEF DecisionsAreFinal, Decided
  <2>5. Order'
    BY <2>2 DEF Order, Decided
  <2>6. QED
    BY <2>4, <2>5
<1>5. CASE NextStage
  <2>1. /\ phase = "next" /\ phase' = "prune"
        /\ UNCHANGED <<region, remaining, verified, pruned, kept>>
    BY <1>5 DEF NextStage
  <2>2. QED
    BY <2>1 DEF Order, Decided, DecisionsAreFinal
<1>6. CASE NextRegion
  <2>1. /\ phase' = "enumerate" /\ region' = region + 1
        /\ UNCHANGED <<remaining, verified, pruned, kept>>
    BY <1>6 DEF NextRegion
  <2>2. QED
    BY <2>1 DEF Order, Decided, DecisionsAreFinal
<1>7. CASE UNCHANGED vars
  BY <1>7 DEF vars, Order, Decided, DecisionsAreFinal
<1>8. QED
  BY <1>1, <1>2, <1>3, <1>4, <1>5, <1>6, <1>7 DEF Next, Step, Finished

\* Later verdicts change no decision: what covers() accepted when it was pruned it accepts
\* on every later verified set, and what it did not it never does.
THEOREM PruningIsFinal == Spec => []DecisionsAreFinal
<1>1. Inv => DecisionsAreFinal
  BY DEF Inv
<1>2. QED
  BY <1>1, InitInv, StepInv, PTL DEF Spec

(***************************************************************************)
(* Every window is decided, once, and counted.  The argument: what is      *)
(* decided in a region are the windows of the stages that have run, and a  *)
(* window is of one stage only; so the windows of a stage are new when it  *)
(* is pruned, and the counters of enumerated windows are ahead of the      *)
(* others by exactly those that are still to be decided.                   *)
(***************************************************************************)
WindowsOf(r, S) == UNION {Windows(r, s) : s \in S}

Earlier == UNION {RegionWindows(r) : r \in 1..(region - 1)}

Progress ==
    /\ region \in Nat \ {0}
    /\ phase \in {"enumerate", "prune", "infer", "verify", "next"}
    /\ remaining \subseteq Stages
    /\ phase = "enumerate" => region <= Regions + 1 /\ Decided = Earlier
    /\ phase # "enumerate" =>
        region <= Regions /\ Decided = Earlier \cup WindowsOf(region, Stages \ remaining)

\* The region and the size of the intervals of a window tell its stage.
LEMMA StageOfWindow ==
    ASSUME NEW r, NEW s \in Stages, NEW w \in Windows(r, s)
    PROVE  w.region = r /\ s = <<w.g[2] - w.g[1], w.h[2] - w.h[1]>>
<1>0. PICK a \in GuestSizes, b \in HostSizes : s = <<a, b>>
  BY DEF Stages
<1>1. s[1] \in Nat /\ s[2] \in Nat /\ s = <<s[1], s[2]>>
  BY <1>0, SizesAssumption
<1>2. PICK g \in Intervals(GuestLen[r], s[1]), h \in Intervals(HostLen[r], s[2]) :
          w = [region |-> r, g |-> g, h |-> h]
  BY DEF Windows
<1>3. PICK i \in Nat : g = <<i, i + s[1]>>
  BY DEF Intervals
<1>4. PICK j \in Nat : h = <<j, j + s[2]>>
  BY DEF Intervals
<1>5. w.g[2] - w.g[1] = s[1] /\ w.h[2] - w.h[1] = s[2]
  BY <1>1, <1>2, <1>3, <1>4
<1> QED BY <1>1, <1>2, <1>5

LEMMA StagesAreApart ==
    ASSUME NEW r, NEW S \in SUBSET Stages, NEW s \in Stages, s \notin S
    PROVE  Windows(r, s) \cap WindowsOf(r, S) = {}
BY StageOfWindow DEF WindowsOf

LEMMA InitProgress == Init => Progress
BY RegionsAssumption DEF Init, Progress, Decided, Earlier

LEMMA StepProgress == Progress /\ [Next]_vars => Progress'
<1> SUFFICES ASSUME Progress, [Next]_vars PROVE Progress'
  OBVIOUS
<1>1. CASE Enumerate
  <2>1. WindowsOf(region, Stages \ Stages) = {}
    BY DEF WindowsOf
  <2> QED BY <1>1, <2>1 DEF Enumerate, Progress, Decided, Earlier
<1>2. CASE Prune
  <2>1. PICK s \in First(remaining) :
            /\ remaining' = remaining \ {s}
            /\ Decided' = Decided \cup Windows(region, s)
    BY <1>2 DEF Prune, Decided
  <2>2. s \in remaining /\ remaining \in SUBSET Stages
    BY <2>1 DEF First, Progress
  <2>3. phase = "prune" /\ phase' = "infer" /\ region' = region
    BY <1>2 DEF Prune
  <2>4. Decided' = Earlier \cup WindowsOf(region, Stages \ remaining')
    <3>1. Decided = Earlier \cup WindowsOf(region, Stages \ remaining)
      BY <2>3 DEF Progress
    <3>2. WindowsOf(region, Stages \ (remaining \ {s}))
              = WindowsOf(region, Stages \ remaining) \cup Windows(region, s)
      <4>1. Stages \ (remaining \ {s}) = (Stages \ remaining) \cup {s}
        BY <2>2
      <4> QED BY <4>1 DEF WindowsOf
    <3> QED BY <2>1, <3>1, <3>2
  <2> QED BY <2>1, <2>2, <2>3, <2>4 DEF Progress, Earlier
<1>3. CASE Infer
  BY <1>3 DEF Infer, Progress, Decided, Earlier
<1>4. CASE VerifyStage
  BY <1>4 DEF VerifyStage, Progress, Decided, Earlier
<1>5. CASE NextStage
  BY <1>5 DEF NextStage, Progress, Decided, Earlier
<1>6. CASE NextRegion
  <2>1. /\ phase = "next" /\ remaining = {} /\ region' = region + 1
        /\ phase' = "enumerate" /\ remaining' = remaining /\ Decided' = Decided
    BY <1>6 DEF NextRegion, Decided
  <2>2. WindowsOf(region, Stages \ remaining) = RegionWindows(region)
    BY <2>1 DEF WindowsOf, RegionWindows
  <2>3. region \in Nat \ {0} /\ 1..(region' - 1) = 1..(region - 1) \cup {region}
    BY <2>1 DEF Progress
  <2>4. Earlier' = Earlier \cup RegionWindows(region)
    BY <2>3 DEF Earlier
  <2>5. region <= Regions /\ Decided = Earlier \cup WindowsOf(region, Stages \ remaining)
    BY <2>1 DEF Progress
  <2>6. region' <= Regions + 1 /\ region' \in Nat \ {0}
    BY <2>1, <2>3, <2>5, RegionsAssumption
  <2>7. Decided' = Earlier' /\ remaining' \subseteq Stages
    BY <2>1, <2>2, <2>4, <2>5 DEF Progress
  <2> QED BY <2>1, <2>6, <2>7 DEF Progress
<1>7. CASE UNCHANGED vars
  BY <1>7 DEF vars, Progress, Decided, Earlier
<1> QED
  BY <1>1, <1>2, <1>3, <1>4, <1>5, <1>6, <1>7 DEF Next, Step, Finished

\* Every window of a finished region was either pruned or handed to surface
\* inference, and no window was both.
THEOREM AllDecided == Spec => []EveryWindowDecided
<1>1. DecisionsAreFinal /\ Progress => EveryWindowDecided
  <2>1. DecisionsAreFinal => pruned \cap kept = {}
    BY DEF DecisionsAreFinal
  <2> QED BY <2>1 DEF Progress, EveryWindowDecided, Decided, Earlier
<1> QED BY <1>1, InitProgress, StepProgress, PruningIsFinal, PTL DEF Spec

(***************************************************************************)
(* The counters.                                                           *)
(***************************************************************************)
\* The windows of a region are finitely many, whatever the size bounds.
LEMMA FiniteRegion ==
    ASSUME NEW r \in 1..Regions
    PROVE  IsFiniteSet(RegionWindows(r))
<1> DEFINE Positions == 0..GuestLen[r]
           HostPositions == 0..HostLen[r]
           Corners == (Positions \X Positions) \X (HostPositions \X HostPositions)
           sides == [w \in RegionWindows(r) |-> <<w.g, w.h>>]
<1>1. GuestLen[r] \in Nat /\ HostLen[r] \in Nat
  BY RegionsAssumption
<1>2. IsFiniteSet(Corners)
  <2>1. IsFiniteSet(Positions) /\ IsFiniteSet(HostPositions)
    <3>1. 0 \in Int /\ GuestLen[r] \in Int /\ HostLen[r] \in Int
      BY <1>1
    <3> QED BY <3>1, FS_Interval
  <2>2. IsFiniteSet(Positions \X Positions) /\ IsFiniteSet(HostPositions \X HostPositions)
    BY <2>1, FS_Product
  <2> QED BY <2>2, FS_Product
<1>3. ASSUME NEW w \in RegionWindows(r)
      PROVE  <<w.g, w.h>> \in Corners /\ w = [region |-> r, g |-> w.g, h |-> w.h]
  <2>1. PICK s \in Stages : w \in Windows(r, s)
    BY DEF RegionWindows
  <2>2. s[1] \in Nat /\ s[2] \in Nat
    BY SizesAssumption DEF Stages
  <2>3. PICK g \in Intervals(GuestLen[r], s[1]), h \in Intervals(HostLen[r], s[2]) :
            w = [region |-> r, g |-> g, h |-> h]
    BY <2>1 DEF Windows
  <2>4. g \in Positions \X Positions
    BY <1>1, <2>2 DEF Intervals
  <2>5. h \in HostPositions \X HostPositions
    BY <1>1, <2>2 DEF Intervals
  <2> QED BY <2>3, <2>4, <2>5
<1>4. sides \in Injection(RegionWindows(r), Corners)
  <2>1. sides \in [RegionWindows(r) -> Corners]
    BY <1>3
  <2>2. ASSUME NEW a \in RegionWindows(r), NEW b \in RegionWindows(r), sides[a] = sides[b]
        PROVE  a = b
    <3>1. a.g = b.g /\ a.h = b.h
      BY <2>2
    <3> QED BY <1>3, <3>1
  <2> QED BY <2>1, <2>2 DEF Injection, IsInjective
<1> QED BY <1>2, <1>4, FS_Injection

\* What is left of a stage's set is counted apart from what is taken out.
LEMMA Split ==
    ASSUME NEW S, IsFiniteSet(S), NEW T \in SUBSET S
    PROVE  /\ IsFiniteSet(T) /\ IsFiniteSet(S \ T)
           /\ Cardinality(T) \in Nat /\ Cardinality(S \ T) \in Nat
           /\ Cardinality(S) = Cardinality(T) + Cardinality(S \ T)
<1>1. IsFiniteSet(T) /\ IsFiniteSet(S \ T)
  BY FS_Subset
<1>2. T \cup (S \ T) = S /\ T \cap (S \ T) = {}
  OBVIOUS
<1>3. Cardinality(T) \in Nat /\ Cardinality(S \ T) \in Nat /\ Cardinality({}) = 0
  BY <1>1, FS_CardinalityType, FS_EmptySet
<1>4. Cardinality(S) = Cardinality(T) + Cardinality(S \ T) - 0
  BY <1>1, <1>2, <1>3, FS_Union
<1> QED BY <1>1, <1>3, <1>4

Undecided == IF phase = "enumerate" THEN {} ELSE WindowsOf(region, remaining)

Waiting == IF phase = "infer" THEN staged ELSE {}

Unverified == IF phase = "verify" THEN emitted ELSE {}

\* The counters at every point of a stage: windows still to be decided, staged
\* or emitted are those by which one counter is ahead of the next.
Balance ==
    /\ diag \in [{"enumerated", "emitted", "skipped", "verified", "pass"} -> Nat]
    /\ diag.enumerated =
          diag.emitted + diag.skipped + Cardinality(Undecided) + Cardinality(Waiting)
    /\ Verify => diag.emitted = diag.verified + Cardinality(Unverified)
    /\ ~Verify => diag.verified = 0 /\ phase # "verify"
    /\ IsFiniteSet(verified) /\ diag.pass = Cardinality(verified)
    /\ verified \subseteq kept
    /\ Waiting \cup Unverified \subseteq kept \ verified
    /\ IsFiniteSet(Waiting) /\ IsFiniteSet(Unverified)

LEMMA InitBalance == Init => Balance
BY FS_EmptySet DEF Init, Balance, Undecided, Waiting, Unverified, NoCounts

\* The windows of a stage that runs are new, and leave the others to come.
LEMMA StageIsNew ==
    ASSUME Progress, phase # "enumerate", NEW s \in remaining
    PROVE  /\ Windows(region, s) \cap Decided = {}
           /\ Windows(region, s) \subseteq WindowsOf(region, remaining)
           /\ WindowsOf(region, remaining \ {s})
                = WindowsOf(region, remaining) \ Windows(region, s)
           /\ IsFiniteSet(WindowsOf(region, remaining))
<1>1. /\ region \in 1..Regions /\ s \in Stages /\ remaining \subseteq Stages
      /\ Decided = Earlier \cup WindowsOf(region, Stages \ remaining)
  <2>1. /\ region \in Nat \ {0} /\ region <= Regions /\ remaining \subseteq Stages
        /\ Decided = Earlier \cup WindowsOf(region, Stages \ remaining)
    BY DEF Progress
  <2>2. region \in 1..Regions
    BY <2>1, RegionsAssumption
  <2> QED BY <2>1, <2>2
<1>2. Windows(region, s) \cap WindowsOf(region, Stages \ remaining) = {}
  BY <1>1, StageOfWindow DEF WindowsOf
<1>3. Windows(region, s) \cap WindowsOf(region, remaining \ {s}) = {}
  BY <1>1, StageOfWindow DEF WindowsOf
<1>4. ASSUME NEW w \in Windows(region, s) PROVE w \notin Earlier
  <2>1. ASSUME NEW r \in 1..(region - 1), w \in RegionWindows(r) PROVE FALSE
    <3>1. PICK t \in Stages : w \in Windows(r, t)
      BY <2>1 DEF RegionWindows
    <3>2. w.region = r /\ w.region = region
      BY <1>1, <3>1, StageOfWindow
    <3> QED BY <1>1, <3>2
  <2> QED BY <2>1 DEF Earlier
<1>5. WindowsOf(region, remaining) = WindowsOf(region, remaining \ {s}) \cup Windows(region, s)
  <2>1. remaining = (remaining \ {s}) \cup {s}
    OBVIOUS
  <2> QED BY <2>1 DEF WindowsOf
<1>6. IsFiniteSet(WindowsOf(region, remaining))
  <2>1. WindowsOf(region, remaining) \in SUBSET RegionWindows(region)
    BY <1>1 DEF WindowsOf, RegionWindows
  <2> QED BY <1>1, <2>1, FiniteRegion, FS_Subset
<1> QED BY <1>1, <1>2, <1>3, <1>4, <1>5, <1>6

LEMMA StepBalance == Progress /\ Balance /\ [Next]_vars => Balance'
<1> SUFFICES ASSUME Progress, Balance, [Next]_vars PROVE Balance'
  OBVIOUS
<1>0. /\ diag \in [{"enumerated", "emitted", "skipped", "verified", "pass"} -> Nat]
      /\ Cardinality({}) = 0 /\ IsFiniteSet({})
  BY FS_EmptySet DEF Balance
<1>1. CASE Enumerate
  <2>1. /\ phase = "enumerate" /\ phase' = "prune" /\ region <= Regions
        /\ remaining' = Stages /\ UNCHANGED <<region, staged, emitted, verified, pruned, kept>>
        /\ diag' = [diag EXCEPT !.enumerated = @ + Cardinality(RegionWindows(region))]
    BY <1>1 DEF Enumerate
  <2>2. region \in 1..Regions
    BY <2>1, RegionsAssumption DEF Progress
  <2>3. Cardinality(RegionWindows(region)) \in Nat
    BY <2>2, FiniteRegion, FS_CardinalityType
  <2>4. Undecided' = RegionWindows(region)
    BY <2>1 DEF Undecided, WindowsOf, RegionWindows
  <2>5. /\ Undecided = {} /\ Waiting = {} /\ Unverified = {}
        /\ Waiting' = {} /\ Unverified' = {}
    BY <2>1 DEF Undecided, Waiting, Unverified
  <2>6. /\ diag' \in [{"enumerated", "emitted", "skipped", "verified", "pass"} -> Nat]
        /\ diag'.enumerated = diag.enumerated + Cardinality(RegionWindows(region))
        /\ diag'.emitted = diag.emitted /\ diag'.skipped = diag.skipped
        /\ diag'.verified = diag.verified /\ diag'.pass = diag.pass
    BY <1>0, <2>1, <2>3
  <2> QED BY <1>0, <2>1, <2>3, <2>4, <2>5, <2>6 DEF Balance
<1>2. CASE Prune
  <2>1. PICK s \in First(remaining) :
            LET windows  == Windows(region, s)
                subsumed == {w \in windows : Covers(verified, w)}
            IN  /\ remaining' = remaining \ {s}
                /\ staged' = windows \ subsumed
                /\ pruned' = pruned \cup subsumed
                /\ kept' = kept \cup (windows \ subsumed)
                /\ diag' = [diag EXCEPT !.skipped = @ + Cardinality(subsumed)]
    BY <1>2 DEF Prune
  <2> DEFINE windows == Windows(region, s)
             subsumed == {w \in windows : Covers(verified, w)}
  <2>2. phase = "prune" /\ phase' = "infer" /\ UNCHANGED <<region, emitted, verified>>
    BY <1>2 DEF Prune
  <2>3. s \in remaining
    BY DEF First
  <2>4. /\ windows \cap Decided = {}
        /\ windows \subseteq Undecided
        /\ Undecided' = Undecided \ windows
        /\ IsFiniteSet(Undecided)
    BY <2>1, <2>2, <2>3, StageIsNew DEF Undecided
  <2>5. /\ Cardinality(windows) \in Nat /\ Cardinality(Undecided') \in Nat
        /\ IsFiniteSet(windows)
        /\ Cardinality(Undecided) = Cardinality(windows) + Cardinality(Undecided')
    BY <2>4, Split
  <2>6. /\ Cardinality(subsumed) \in Nat /\ Cardinality(staged') \in Nat
        /\ IsFiniteSet(staged')
        /\ Cardinality(windows) = Cardinality(subsumed) + Cardinality(staged')
    <3>1. subsumed \in SUBSET windows /\ staged' = windows \ subsumed
      BY <2>1
    <3> HIDE DEF windows, subsumed
    <3> QED BY <2>5, <3>1, Split
  <2>7. /\ Waiting = {} /\ Unverified = {}
        /\ Waiting' = staged' /\ Unverified' = {}
    BY <2>2 DEF Waiting, Unverified
  <2>8. /\ diag' \in [{"enumerated", "emitted", "skipped", "verified", "pass"} -> Nat]
        /\ diag'.skipped = diag.skipped + Cardinality(subsumed)
        /\ diag'.emitted = diag.emitted /\ diag'.enumerated = diag.enumerated
        /\ diag'.verified = diag.verified /\ diag'.pass = diag.pass
    <3>1. diag' = [diag EXCEPT !.skipped = @ + Cardinality(subsumed)]
      BY <2>1
    <3> HIDE DEF subsumed
    <3> QED BY <1>0, <2>6, <3>1
  <2>9. kept \subseteq kept' /\ staged' \subseteq kept' \ verified'
    BY <2>1, <2>2, <2>4 DEF Balance, Decided
  <2>10. verified \subseteq kept'
    BY <2>9 DEF Balance
  <2> HIDE DEF windows, subsumed
  <2> QED BY <1>0, <2>2, <2>5, <2>6, <2>7, <2>8, <2>9, <2>10 DEF Balance
<1>3. CASE Infer
  <2>1. PICK accepted \in SUBSET (staged \cap MayBind) :
            /\ emitted' = accepted
            /\ diag' = [diag EXCEPT !.emitted = @ + Cardinality(accepted),
                                    !.skipped = @ + Cardinality(staged \ accepted)]
    BY <1>3 DEF Infer
  <2>2. /\ phase = "infer" /\ phase' = IF Verify THEN "verify" ELSE "next"
        /\ UNCHANGED <<region, remaining, staged, verified, pruned, kept>>
    BY <1>3 DEF Infer
  <2>3. /\ Waiting = staged /\ Unverified = {} /\ Waiting' = {}
        /\ Unverified' = IF Verify THEN accepted ELSE {}
        /\ Undecided' = Undecided
    BY <2>1, <2>2 DEF Waiting, Unverified, Undecided
  <2>4. /\ IsFiniteSet(accepted)
        /\ Cardinality(accepted) \in Nat /\ Cardinality(staged \ accepted) \in Nat
        /\ Cardinality(staged) = Cardinality(accepted) + Cardinality(staged \ accepted)
    <3>1. accepted \in SUBSET staged /\ IsFiniteSet(staged)
      BY <2>3 DEF Balance
    <3> QED BY <3>1, Split
  <2>5. /\ diag' \in [{"enumerated", "emitted", "skipped", "verified", "pass"} -> Nat]
        /\ diag'.emitted = diag.emitted + Cardinality(accepted)
        /\ diag'.skipped = diag.skipped + Cardinality(staged \ accepted)
        /\ diag'.enumerated = diag.enumerated
        /\ diag'.verified = diag.verified /\ diag'.pass = diag.pass
    <3> DEFINE first == [diag EXCEPT !.emitted = @ + Cardinality(accepted)]
    <3>1. diag' = [first EXCEPT !.skipped = @ + Cardinality(staged \ accepted)]
      BY <2>1
    <3>2. /\ first \in [{"enumerated", "emitted", "skipped", "verified", "pass"} -> Nat]
          /\ first.emitted = diag.emitted + Cardinality(accepted)
          /\ first.enumerated = diag.enumerated /\ first.skipped = diag.skipped
          /\ first.verified = diag.verified /\ first.pass = diag.pass
      BY <1>0, <2>4
    <3> HIDE DEF first
    <3> QED BY <2>4, <3>1, <3>2
  <2>6. Cardinality(Undecided) \in Nat
    <3>1. region \in 1..Regions /\ Undecided \in SUBSET RegionWindows(region)
      BY <2>2, RegionsAssumption DEF Progress, Undecided, WindowsOf, RegionWindows
    <3> QED BY <3>1, FiniteRegion, FS_Subset, FS_CardinalityType
  <2>7. accepted \subseteq kept \ verified
    BY <2>1, <2>3 DEF Balance
  <2> QED BY <1>0, <2>2, <2>3, <2>4, <2>5, <2>6, <2>7 DEF Balance
<1>4. CASE VerifyStage
  <2>1. PICK passed \in SUBSET emitted :
            /\ verified' = verified \cup passed
            /\ diag' = [diag EXCEPT !.verified = @ + Cardinality(emitted),
                                    !.pass = @ + Cardinality(passed)]
    BY <1>4 DEF VerifyStage
  <2>2. /\ phase = "verify" /\ phase' = "next"
        /\ UNCHANGED <<region, remaining, staged, emitted, pruned, kept>>
    BY <1>4 DEF VerifyStage
  <2>3. /\ Waiting = {} /\ Unverified = emitted /\ Waiting' = {} /\ Unverified' = {}
        /\ Undecided' = Undecided
    BY <2>2 DEF Waiting, Unverified, Undecided
  <2>4. IsFiniteSet(emitted) /\ IsFiniteSet(verified) /\ emitted \subseteq kept \ verified
    BY <2>3 DEF Balance
  <2>5. IsFiniteSet(passed) /\ passed \cap verified = {}
    BY <2>4, FS_Subset
  <2>6. /\ Cardinality(emitted) \in Nat /\ Cardinality(passed) \in Nat
        /\ Cardinality(verified) \in Nat
    BY <2>4, <2>5, FS_CardinalityType
  <2>7. /\ IsFiniteSet(verified')
        /\ Cardinality(verified') = Cardinality(verified) + Cardinality(passed)
    <3>1. /\ IsFiniteSet(verified \cup passed)
          /\ Cardinality(verified \cup passed)
                = Cardinality(verified) + Cardinality(passed) - Cardinality(verified \cap passed)
      BY <2>4, <2>5, FS_Union
    <3>2. verified \cap passed = {}
      BY <2>5
    <3>3. Cardinality(verified \cap passed) = 0
      BY <1>0, <3>2
    <3> QED BY <2>1, <2>6, <3>1, <3>3
  <2>8. /\ diag' \in [{"enumerated", "emitted", "skipped", "verified", "pass"} -> Nat]
        /\ diag'.verified = diag.verified + Cardinality(emitted)
        /\ diag'.pass = diag.pass + Cardinality(passed)
        /\ diag'.enumerated = diag.enumerated
        /\ diag'.emitted = diag.emitted /\ diag'.skipped = diag.skipped
    <3> DEFINE first == [diag EXCEPT !.verified = @ + Cardinality(emitted)]
    <3>1. diag' = [first EXCEPT !.pass = @ + Cardinality(passed)]
      BY <2>1
    <3>2. /\ first \in [{"enumerated", "emitted", "skipped", "verified", "pass"} -> Nat]
          /\ first.verified = diag.verified + Cardinality(emitted)
          /\ first.enumerated = diag.enumerated /\ first.emitted = diag.emitted
          /\ first.skipped = diag.skipped /\ first.pass = diag.pass
      BY <1>0, <2>6
    <3> HIDE DEF first
    <3> QED BY <2>6, <3>1, <3>2
  <2>9. verified' \subseteq kept'
    BY <2>1, <2>2, <2>4 DEF Balance
  <2> QED BY <1>0, <2>2, <2>3, <2>6, <2>7, <2>8, <2>9 DEF Balance
<1>5. CASE NextStage
  <2>1. /\ phase = "next" /\ phase' = "prune"
        /\ UNCHANGED <<region, remaining, staged, emitted, verified, diag, pruned, kept>>
    BY <1>5 DEF NextStage
  <2>2. Undecided' = Undecided /\ Waiting' = Waiting /\ Unverified' = Unverified
    BY <2>1 DEF Waiting, Unverified, Undecided
  <2> QED BY <2>1, <2>2 DEF Balance
<1>6. CASE NextRegion
  <2>1. /\ phase = "next" /\ phase' = "enumerate" /\ remaining = {}
        /\ UNCHANGED <<remaining, staged, emitted, verified, diag, pruned, kept>>
    BY <1>6 DEF NextRegion
  <2>2. Undecided' = Undecided /\ Waiting' = Waiting /\ Unverified' = Unverified
    BY <2>1 DEF Waiting, Unverified, Undecided, WindowsOf
  <2> QED BY <2>1, <2>2 DEF Balance
<1>7. CASE UNCHANGED vars
  <2>1. UNCHANGED <<Undecided, Waiting, Unverified, diag, verified, kept, phase>>
    BY <1>7 DEF vars, Undecided, Waiting, Unverified
  <2> QED BY <2>1 DEF Balance
<1> QED
  BY <1>1, <1>2, <1>3, <1>4, <1>5, <1>6, <1>7 DEF Next, Step, Finished

\* Between regions the diagnostics add up: every enumerated window was emitted
\* or skipped, and what passed is what pruning relies on.
THEOREM CountersBalance == Spec => []DiagnosticsBalance
<1>1. Balance => DiagnosticsBalance
  <2> SUFFICES ASSUME Balance, phase = "enumerate"
               PROVE  /\ diag.enumerated = diag.emitted + diag.skipped
                      /\ diag.verified = IF Verify THEN diag.emitted ELSE 0
                      /\ diag.pass = Cardinality(verified)
    BY DEF DiagnosticsBalance
  <2>1. Undecided = {} /\ Waiting = {} /\ Unverified = {} /\ Cardinality({}) = 0
    BY FS_EmptySet DEF Undecided, Waiting, Unverified
  <2> QED BY <2>1, VerifyAssumption DEF Balance
<1> QED
  BY <1>1, InitProgress, StepProgress, InitBalance, StepBalance, PTL DEF Spec

\* What is decided, staged, emitted or verified are windows of the regions.
LEMMA WindowsAreInRegions ==
    ASSUME NEW r \in 1..Regions, NEW w \in RegionWindows(r)
    PROVE  IsWindow(w)
<1>1. PICK s \in Stages : w \in Windows(r, s)
  BY DEF RegionWindows
<1>2. s[1] \in Nat \ {0} /\ s[2] \in Nat \ {0} /\ GuestLen[r] \in Nat /\ HostLen[r] \in Nat
  BY SizesAssumption, RegionsAssumption DEF Stages
<1>3. PICK g \in Intervals(GuestLen[r], s[1]), h \in Intervals(HostLen[r], s[2]) :
          w = [region |-> r, g |-> g, h |-> h]
  BY <1>1 DEF Windows
<1>4. g[1] < g[2] /\ g[2] <= GuestLen[r]
  BY <1>2 DEF Intervals
<1>5. h[1] < h[2] /\ h[2] <= HostLen[r]
  BY <1>2 DEF Intervals
<1> QED BY <1>3, <1>4, <1>5 DEF IsWindow

\* What is staged or emitted was kept, also after its stage.
Held == staged \cup emitted \subseteq kept

LEMMA StepHeld == Held /\ [Next]_vars => Held'
<1> SUFFICES ASSUME Held, [Next]_vars PROVE Held'
  OBVIOUS
<1>1. CASE Prune
  BY <1>1 DEF Prune, Held
<1>2. CASE Infer
  BY <1>2 DEF Infer, Held
<1>3. CASE UNCHANGED <<staged, emitted, kept>>
  BY <1>3 DEF Held
<1> QED
  BY <1>1, <1>2, <1>3
  DEF Next, Step, Finished, Enumerate, VerifyStage, NextStage, NextRegion, vars

\* The sets of windows hold windows of the regions, never empty on a side, only
\* windows that survived pruning are verified, and no counter goes below zero.
THEOREM TypeCorrect == Spec => []TypeOK
<1>1. Progress /\ Balance /\ Held => TypeOK
  <2> SUFFICES ASSUME Progress, Balance, Held PROVE TypeOK
    OBVIOUS
  <2>1. region \in 1..(Regions + 1)
    BY RegionsAssumption DEF Progress
  <2>2. ASSUME NEW w \in Decided PROVE IsWindow(w)
    <3>1. CASE w \in Earlier
      <4>1. PICK r \in 1..(region - 1) : w \in RegionWindows(r)
        BY <3>1 DEF Earlier
      <4>2. r \in 1..Regions
        BY <2>1, RegionsAssumption
      <4> QED BY <4>1, <4>2, WindowsAreInRegions
    <3>2. CASE w \notin Earlier
      <4>1. region \in 1..Regions /\ w \in WindowsOf(region, Stages \ remaining)
        <5>1. phase # "enumerate" /\ region <= Regions
              /\ w \in WindowsOf(region, Stages \ remaining)
          BY <2>2, <3>2 DEF Progress
        <5> QED BY <2>1, <5>1, RegionsAssumption
      <4>2. w \in RegionWindows(region)
        BY <4>1 DEF WindowsOf, RegionWindows
      <4> QED BY <4>1, <4>2, WindowsAreInRegions
    <3> QED BY <3>1, <3>2
  <2>3. staged \cup emitted \cup verified \cup pruned \cup kept \subseteq Decided
    BY DEF Balance, Decided, Held
  <2>4. \A c \in DOMAIN NoCounts : diag[c] \in Nat
    BY DEF Balance, NoCounts
  <2> QED BY <2>1, <2>2, <2>3, <2>4 DEF TypeOK, Progress, Balance
<1>2. Init => Held
  BY DEF Init, Held
<1> QED
  BY <1>1, <1>2, InitProgress, StepProgress, InitBalance, StepBalance, StepHeld, PTL DEF Spec

(***************************************************************************)
(* The scan of _covers_span.                                               *)
(***************************************************************************)
\* The non-empty spans between positions of n instructions.
Spans(n) == {s \in (0..n) \X (0..n) : s[1] < s[2]}

\* Where the spans that start at a position end, and the cursor's last position.
EndsAt(spans, c) == {s[2] : s \in {t \in spans : t[1] = c}}
LastPosition(target, spans) == Max({target[2]} \cup {s[2] : s \in spans})

\* What the scan says of the positions, as a function that solves its equation.
Scan(target, spans) ==
    {reached \in [0..LastPosition(target, spans) -> BOOLEAN] :
        \A c \in 0..LastPosition(target, spans) :
            reached[c] <=> \/ c = target[2]
                           \/ /\ EndsAt(spans, c) # {}
                              /\ reached[Min(EndsAt(spans, c))]}

\* The shortest span at the cursor leads forward, to a position that is scanned.
LEMMA CursorAdvances ==
    ASSUME NEW n \in Nat, NEW target \in Spans(n), NEW spans \in SUBSET Spans(n)
    PROVE  LET last == LastPosition(target, spans)
           IN  /\ last \in 0..n /\ target[1] \in 0..last /\ target[2] \in 0..last
               /\ \A c \in 0..last : EndsAt(spans, c) # {} =>
                     /\ Min(EndsAt(spans, c)) \in (c + 1)..last
                     /\ <<c, Min(EndsAt(spans, c))>> \in spans
<1> DEFINE all == {target[2]} \cup {s[2] : s \in spans}
           last == LastPosition(target, spans)
<1>1. all \in SUBSET (0..n) /\ all # {}
  <2>1. target[2] \in 0..n /\ \A s \in spans : s[2] \in 0..n
    BY DEF Spans
  <2> QED BY <2>1
<1>2. last \in all /\ \A y \in all : y <= last
  <2> HIDE DEF all
  <2>1. Max(all) \in all /\ \A y \in all : y <= Max(all)
    BY <1>1, MaxIsGreatest
  <2>2. last = Max(all)
    BY DEF LastPosition, all
  <2> QED BY <2>1, <2>2
<1>3. last \in 0..n /\ target[1] \in 0..last /\ target[2] \in 0..last
  <2>1. last \in 0..n /\ target[2] <= last
    BY <1>1, <1>2
  <2> HIDE DEF last, all
  <2> QED BY <2>1 DEF Spans
<1>4. ASSUME NEW c \in 0..last, EndsAt(spans, c) # {}
      PROVE  /\ Min(EndsAt(spans, c)) \in (c + 1)..last
             /\ <<c, Min(EndsAt(spans, c))>> \in spans
  <2>1. ASSUME NEW e \in EndsAt(spans, c)
        PROVE  e \in Nat /\ <<c, e>> \in spans /\ e > c /\ e \in all
    <3>1. PICK s \in spans : s[1] = c /\ e = s[2]
      BY DEF EndsAt
    <3>2. s = <<c, e>> /\ e \in 0..n /\ c < e
      BY <3>1 DEF Spans
    <3> QED BY <3>1, <3>2, <1>3
  <2> HIDE DEF last, all
  <2>2. EndsAt(spans, c) \in SUBSET Nat
    BY <2>1, Zenon
  <2>3. Min(EndsAt(spans, c)) \in EndsAt(spans, c)
    BY <1>4, <2>2, MinIsLeast
  <2>4. Min(EndsAt(spans, c)) <= last
    BY <1>2, <2>1, <2>3
  <2> QED BY <1>3, <2>1, <2>3, <2>4
<1> QED BY <1>3, <1>4

LEMMA ScanExists ==
    ASSUME NEW n \in Nat, NEW target \in Spans(n), NEW spans \in SUBSET Spans(n)
    PROVE  \E reached : reached \in Scan(target, spans)
<1> DEFINE last == LastPosition(target, spans)
           Solves(k, R) == \A c \in k..last :
               c \in R <=> \/ c = target[2]
                           \/ EndsAt(spans, c) # {} /\ Min(EndsAt(spans, c)) \in R
           P == {k \in 0..(last + 1) : \E R \in SUBSET (k..last) : Solves(k, R)}
<1>1. /\ last \in Nat
      /\ \A c \in 0..last : EndsAt(spans, c) # {} => Min(EndsAt(spans, c)) \in (c + 1)..last
  <2>1. last \in 0..n
    BY CursorAdvances
  <2>2. \A c \in 0..last : EndsAt(spans, c) # {} => Min(EndsAt(spans, c)) \in (c + 1)..last
    BY CursorAdvances
  <2> QED BY <2>1, <2>2
<1> HIDE DEF last
<1>2. last + 1 \in P
  <2>1. Solves(last + 1, {})
    BY <1>1
  <2> QED BY <1>1, <2>1
<1>3. ASSUME NEW k \in 1..(last + 1), k \in P PROVE k - 1 \in P
  <2>1. PICK R \in SUBSET (k..last) : Solves(k, R)
    BY <1>3
  <2> DEFINE e == Min(EndsAt(spans, k - 1))
             hit == k - 1 = target[2] \/ (EndsAt(spans, k - 1) # {} /\ e \in R)
             R2 == R \cup {c \in {k - 1} : hit}
  <2>2. k - 1 \in 0..last /\ k - 1 \notin R /\ k \in Int /\ k - 1 \in Int
    BY <1>1
  <2>3. R2 \in SUBSET ((k - 1)..last)
    <3>1. k - 1 \in (k - 1)..last /\ \A c \in k..last : c \in (k - 1)..last
      BY <1>1, <2>2
    <3> HIDE DEF hit
    <3> QED BY <3>1
  <2>4. ASSUME NEW c \in (k - 1)..last
        PROVE  c \in R2 <=> \/ c = target[2]
                            \/ EndsAt(spans, c) # {} /\ Min(EndsAt(spans, c)) \in R2
    <3>1. EndsAt(spans, c) # {} => Min(EndsAt(spans, c)) # k - 1
      BY <1>1, <2>2
    <3>2. CASE c = k - 1
      <4>1. c \in R2 <=> hit
        BY <2>2, <3>2
      <4>2. EndsAt(spans, c) # {} => (Min(EndsAt(spans, c)) \in R2 <=> e \in R)
        BY <3>1, <3>2
      <4> QED BY <3>2, <4>1, <4>2
    <3>3. CASE c # k - 1
      <4>1. c \in k..last
        BY <2>2, <3>3
      <4>2. c \in R2 <=> c \in R
        BY <3>3
      <4>3. EndsAt(spans, c) # {} => (Min(EndsAt(spans, c)) \in R2 <=> Min(EndsAt(spans, c)) \in R)
        BY <3>1
      <4> QED BY <2>1, <4>1, <4>2, <4>3
    <3> QED BY <3>2, <3>3
  <2> HIDE DEF R2
  <2>5. Solves(k - 1, R2)
    BY <2>4
  <2>6. k - 1 \in 0..(last + 1)
    BY <1>1, <2>2
  <2> QED BY <2>3, <2>5, <2>6
<1>4. 0 \in P
  <2> HIDE DEF P
  <2>1. 0 + 1 = 1 /\ last + 1 \in Int /\ 0 \in Int
    BY <1>1
  <2>2. \A k \in (0 + 1)..(last + 1) : k \in P => k - 1 \in P
    BY <1>3, <2>1
  <2>3. \A k \in 0..(last + 1) : k \in P
    BY <1>2, <2>1, <2>2, InductionDown
  <2> QED BY <1>1, <2>3
<1>5. PICK R \in SUBSET (0..last) : Solves(0, R)
  BY <1>4
<1> DEFINE reached == [c \in 0..last |-> c \in R]
<1>6. reached \in [0..last -> BOOLEAN]
  OBVIOUS
<1>7. ASSUME NEW c \in 0..last
      PROVE  reached[c] <=> \/ c = target[2]
                            \/ EndsAt(spans, c) # {} /\ reached[Min(EndsAt(spans, c))]
  <2>1. reached[c] <=> c \in R
    OBVIOUS
  <2>2. EndsAt(spans, c) # {} => (reached[Min(EndsAt(spans, c))] <=> Min(EndsAt(spans, c)) \in R)
    <3>1. EndsAt(spans, c) # {} => Min(EndsAt(spans, c)) \in 0..last
      BY <1>1
    <3> QED BY <3>1
  <2> HIDE DEF reached
  <2> QED BY <1>5, <2>1, <2>2
<1> HIDE DEF reached
<1>8. reached \in Scan(target, spans)
  BY <1>6, <1>7 DEF Scan, last
<1> QED BY <1>8

\* The operator of the model, which chooses a function that solves the scan's
\* equation, has the answer of one.
LEMMA CoversSpanIsScan ==
    ASSUME NEW n \in Nat, NEW target \in Spans(n), NEW spans \in SUBSET Spans(n)
    PROVE  \E reached \in Scan(target, spans) : CoversSpan(target, spans) <=> reached[target[1]]
<1> DEFINE last == LastPosition(target, spans)
           equation(f) == [c \in 0..last |->
               \/ c = target[2]
               \/ EndsAt(spans, c) # {} /\ f[Min(EndsAt(spans, c))]]
           chosen == CHOOSE f : f = equation(f)
<1>1. CoversSpan(target, spans) <=> chosen[target[1]]
  BY DEF CoversSpan, EndsAt, LastPosition
<1>2. \E f : f = equation(f)
  <2>1. PICK f : f \in Scan(target, spans)
    BY ScanExists
  <2>2. f \in [0..last -> BOOLEAN] /\ equation(f) \in [0..last -> BOOLEAN]
    BY <2>1 DEF Scan
  <2>3. \A c \in 0..last : f[c] <=> equation(f)[c]
    BY <2>1 DEF Scan
  <2>4. \A c \in 0..last : f[c] = equation(f)[c]
    <3> HIDE DEF equation, last
    <3> QED BY <2>2, <2>3
  <2>5. f = equation(f)
    <3> DEFINE g == equation(f)
    <3> HIDE DEF g, last
    <3> QED BY <2>2, <2>4 DEF g
  <2> QED BY <2>5
<1>3. chosen = equation(chosen)
  <2> HIDE DEF equation
  <2> QED BY <1>2
<1> HIDE DEF chosen
<1>4. chosen \in [0..last -> BOOLEAN]
  <2>1. equation(chosen) \in [0..last -> BOOLEAN]
    OBVIOUS
  <2> HIDE DEF equation
  <2> QED BY <1>3, <2>1
<1>5. \A c \in 0..last : chosen[c] <=> equation(chosen)[c]
  <2> HIDE DEF equation
  <2> QED BY <1>3
<1>6. chosen \in Scan(target, spans)
  BY <1>4, <1>5 DEF Scan
<1> QED BY <1>1, <1>6
\* A span in front of a tiled target makes a longer tiled target.
LEMMA SpanInFront ==
    ASSUME NEW c \in Nat, NEW e \in Nat, NEW last \in Nat, NEW spans,
           c < e, e <= last, <<c, e>> \in spans, Tiled(<<e, last>>, spans)
    PROVE  Tiled(<<c, last>>, spans)
<1>1. PICK cuts \in SUBSET (e..last) :
          /\ {e, last} \subseteq cuts
          /\ \A x \in cuts \ {last} : <<x, Min({d \in cuts : d > x})>> \in spans
  BY DEF Tiled
<1> DEFINE more == cuts \cup {c}
<1>2. more \in SUBSET (c..last) /\ {c, last} \subseteq more
  BY <1>1
<1>3. ASSUME NEW x \in more \ {last} PROVE <<x, Min({d \in more : d > x})>> \in spans
  <2>1. CASE x = c
    <3>1. {d \in more : d > x} = cuts
      <4>1. \A d \in cuts : d > c
        BY <1>1
      <4>2. ~(c > c)
        OBVIOUS
      <4> QED BY <2>1, <4>1, <4>2, Zenon
    <3>2. cuts \in SUBSET Nat /\ e \in cuts /\ \A d \in cuts : e <= d
      BY <1>1
    <3>3. Min(cuts) = e
      <4>1. Min(cuts) \in cuts /\ \A d \in cuts : Min(cuts) <= d
        BY <3>2, MinIsLeast
      <4>2. Min(cuts) <= e /\ e <= Min(cuts) /\ Min(cuts) \in Nat
        BY <3>2, <4>1
      <4> QED BY <4>2
    <3> QED BY <2>1, <3>1, <3>3
  <2>2. CASE x # c
    <3>1. x \in cuts \ {last} /\ ~(c > x)
      BY <1>1, <2>2
    <3>2. {d \in more : d > x} = {d \in cuts : d > x}
      BY <3>1
    <3> QED BY <1>1, <3>1, <3>2
  <2> QED BY <2>1, <2>2
<1> HIDE DEF more
<1>4. \E mine \in SUBSET (c..last) :
          /\ {c, last} \subseteq mine
          /\ \A x \in mine \ {last} : <<x, Min({d \in mine : d > x})>> \in spans
  BY <1>2, <1>3
<1> QED BY <1>4 DEF Tiled

\* _covers_span is sound: a target it accepts is tiled by the spans.
LEMMA ScanFindsTiling ==
    ASSUME NEW n \in Nat, NEW target \in Spans(n), NEW spans \in SUBSET Spans(n),
           CoversSpan(target, spans)
    PROVE  Tiled(target, spans)
<1> DEFINE last == LastPosition(target, spans)
           end  == target[2]
<1>1. PICK reached \in Scan(target, spans) : reached[target[1]]
  BY CoversSpanIsScan
<1> DEFINE P == {k \in 0..(last + 1) : \A c \in k..last :
                    reached[c] => c <= end /\ Tiled(<<c, end>>, spans)}
<1>2. /\ last \in 0..n /\ target[1] \in 0..last /\ end \in 0..last
      /\ \A c \in 0..last : EndsAt(spans, c) # {} =>
            /\ Min(EndsAt(spans, c)) \in (c + 1)..last
            /\ <<c, Min(EndsAt(spans, c))>> \in spans
  BY CursorAdvances
<1>3. \A c \in 0..last : reached[c] =>
          c = end \/ (EndsAt(spans, c) # {} /\ reached[Min(EndsAt(spans, c))])
  BY DEF Scan
<1> HIDE DEF last, end
<1>4. last + 1 \in P
  <2>1. last + 1 \in 0..(last + 1) /\ (last + 1)..last = {}
    BY <1>2
  <2> QED BY <2>1
<1>5. ASSUME NEW k \in 1..(last + 1), k \in P PROVE k - 1 \in P
  <2>1. k - 1 \in 0..last /\ k - 1 \in 0..(last + 1)
    BY <1>2
  <2>2. ASSUME NEW c \in (k - 1)..last, reached[c]
        PROVE  c <= end /\ Tiled(<<c, end>>, spans)
    <3>1. CASE c \in k..last
      BY <1>5, <2>2, <3>1
    <3>2. CASE c \notin k..last /\ c = end
      <4>1. {end} \in SUBSET (end..end) /\ end <= end
        BY <1>2
      <4>2. <<end, end>>[1] = end /\ <<end, end>>[2] = end
        OBVIOUS
      <4>3. Tiled(<<end, end>>, spans)
        BY <4>1, <4>2 DEF Tiled
      <4> QED BY <3>2, <4>1, <4>3
    <3>3. CASE c \notin k..last /\ c # end
      <4> DEFINE e == Min(EndsAt(spans, c))
      <4>1. c \in 0..last /\ c = k - 1
        BY <1>2, <2>1, <3>3
      <4>2. EndsAt(spans, c) # {} /\ reached[e]
        BY <1>3, <2>2, <3>3, <4>1
      <4>3. e \in (c + 1)..last /\ <<c, e>> \in spans
        BY <1>2, <4>1, <4>2
      <4>4. e \in k..last
        BY <1>2, <4>1, <4>3
      <4>5. e <= end /\ Tiled(<<e, end>>, spans)
        BY <1>5, <4>2, <4>4
      <4>6. c \in Nat /\ e \in Nat /\ end \in Nat /\ c < e
        BY <1>2, <4>1, <4>3
      <4> HIDE DEF e
      <4>7. c <= end
        BY <4>5, <4>6
      <4> QED BY <4>3, <4>5, <4>6, <4>7, SpanInFront
    <3> QED BY <3>1, <3>2, <3>3
  <2> QED BY <2>1, <2>2
<1>6. 0 \in P
  <2> HIDE DEF P
  <2>1. 0 + 1 = 1 /\ last + 1 \in Int /\ 0 \in Int /\ 0 \in 0..(last + 1)
    BY <1>2
  <2>2. \A k \in (0 + 1)..(last + 1) : k \in P => k - 1 \in P
    BY <1>5, <2>1
  <2>3. \A k \in 0..(last + 1) : k \in P
    BY <1>4, <2>1, <2>2, InductionDown
  <2> QED BY <2>1, <2>3
<1>7. Tiled(<<target[1], end>>, spans)
  BY <1>1, <1>2, <1>6
<1>8. target = <<target[1], end>>
  BY DEF Spans, end
<1> QED BY <1>7, <1>8

\* The sides of a decided window are spans of its region's code.
LEMMA SidesAreSpans ==
    ASSUME Progress, NEW w \in Decided
    PROVE  /\ w.region \in 1..Regions
           /\ w.g \in Spans(GuestLen[w.region]) /\ w.h \in Spans(HostLen[w.region])
<1>1. PICK r \in 1..Regions : w \in RegionWindows(r)
  <2>1. region \in 1..(Regions + 1)
    BY RegionsAssumption DEF Progress
  <2>2. CASE w \in Earlier
    <3>1. PICK r \in 1..(region - 1) : w \in RegionWindows(r)
      BY <2>2 DEF Earlier
    <3>2. r \in 1..Regions
      BY <2>1, RegionsAssumption
    <3> QED BY <3>1, <3>2
  <2>3. CASE w \notin Earlier
    <3>1. phase # "enumerate" /\ region <= Regions
          /\ w \in WindowsOf(region, Stages \ remaining)
      BY <2>3 DEF Progress
    <3>2. region \in 1..Regions /\ w \in RegionWindows(region)
      BY <2>1, <3>1, RegionsAssumption DEF WindowsOf, RegionWindows
    <3> QED BY <3>2
  <2> QED BY <2>2, <2>3
<1>2. PICK s \in Stages : w \in Windows(r, s)
  BY <1>1 DEF RegionWindows
<1>3. s[1] \in Nat \ {0} /\ s[2] \in Nat \ {0} /\ GuestLen[r] \in Nat /\ HostLen[r] \in Nat
  BY SizesAssumption, RegionsAssumption DEF Stages
<1>4. PICK g \in Intervals(GuestLen[r], s[1]), h \in Intervals(HostLen[r], s[2]) :
          w = [region |-> r, g |-> g, h |-> h]
  BY <1>2 DEF Windows
<1>5. g \in Spans(GuestLen[r])
  BY <1>3 DEF Intervals, Spans
<1>6. h \in Spans(HostLen[r])
  BY <1>3 DEF Intervals, Spans
<1> QED BY <1>4, <1>5, <1>6

\* Each side of a pruned window is tiled, without gap or overlap, by the sides
\* of smaller verified windows of the region: the scan of _covers_span never
\* accepts anything else.
THEOREM PrunedTiled == Spec => []PrunedSidesAreTiled
<1>1. Inv /\ Progress /\ Balance => PrunedSidesAreTiled
  <2> SUFFICES ASSUME Inv, Progress, Balance, NEW w \in pruned
               PROVE  /\ Tiled(w.g, {v.g : v \in Smaller(verified, w)})
                      /\ Tiled(w.h, {v.h : v \in Smaller(verified, w)})
    BY DEF PrunedSidesAreTiled, Smaller
  <2> DEFINE gs == {v.g : v \in Smaller(verified, w)}
             hs == {v.h : v \in Smaller(verified, w)}
  <2>1. CoversSpan(w.g, gs) /\ CoversSpan(w.h, hs)
    BY DEF Inv, DecisionsAreFinal, Covers
  <2>2. /\ w.region \in 1..Regions
        /\ w.g \in Spans(GuestLen[w.region]) /\ w.h \in Spans(HostLen[w.region])
    BY SidesAreSpans DEF Decided
  <2>3. GuestLen[w.region] \in Nat /\ HostLen[w.region] \in Nat
    BY <2>2, RegionsAssumption
  <2>4. ASSUME NEW v \in Smaller(verified, w)
        PROVE  v.g \in Spans(GuestLen[w.region]) /\ v.h \in Spans(HostLen[w.region])
    <3>1. v \in Decided /\ v.region = w.region
      BY DEF Smaller, Balance, Decided
    <3> QED BY <3>1, SidesAreSpans
  <2>5. gs \in SUBSET Spans(GuestLen[w.region]) /\ hs \in SUBSET Spans(HostLen[w.region])
    BY <2>4
  <2> HIDE DEF gs, hs
  <2>6. Tiled(w.g, gs) /\ Tiled(w.h, hs)
    BY <2>1, <2>2, <2>3, <2>5, ScanFindsTiling
  <2> QED BY <2>6 DEF gs, hs
<1> QED
  BY <1>1, InitInv, StepInv, InitProgress, StepProgress, InitBalance, StepBalance, PTL DEF Spec

-----------------------------------------------------------------------------

(***************************************************************************)
(* The blocks of a function are its code, cut at control flow.             *)
(***************************************************************************)
Cuts(S) == [done : Seq(Seq(S)), current : Seq(S)]

NoCut == [done |-> <<>>, current |-> <<>>]

CutStep(S, code) == [p \in Cuts(S) \X DOMAIN code |-> Cut(p[1], code[p[2]])]

LEMMA CutKeepsType ==
    ASSUME NEW S, NEW acc \in Cuts(S), NEW inst \in S
    PROVE  Cut(acc, inst) \in Cuts(S)
<1> DEFINE current == Append(acc.current, inst)
           T == Seq(S)
<1>1. acc.done \in Seq(T) /\ current \in T /\ <<>> \in T
  BY DEF Cuts
<1> HIDE DEF T, current
<1>2. Append(acc.done, current) \in Seq(T)
  BY <1>1
<1> QED BY <1>1, <1>2 DEF Cut, Cuts, current, T

LEMMA CutIsChain ==
    ASSUME NEW S, NEW code \in Seq(S)
    PROVE  \E f \in [0..Len(code) -> Cuts(S)] :
             /\ f[0] = NoCut
             /\ \A i \in 1..Len(code) : f[i] = Cut(f[i - 1], code[i])
             /\ FoldLeft(Cut, NoCut, code) = f[Len(code)]
<1> DEFINE n == Len(code)
           X == Cuts(S)
           step == CutStep(S, code)
           equation(h) == [s \in SUBSET (1..n) |->
                IF s = {} THEN NoCut ELSE Cut(h[s \ {Max(s)}], code[Max(s)])]
           fold == CHOOSE h : h = equation(h)
<1>1. n \in Nat /\ DOMAIN code = 1..n /\ \A i \in 1..n : code[i] \in S
  OBVIOUS
<1>2. FoldLeft(Cut, NoCut, code) = fold[1..n]
  BY <1>1 DEF FoldLeft, MapThenFoldSet
<1>3. NoCut \in X
  BY DEF NoCut, Cuts
<1>4. step \in [X \X (1..n) -> X]
        /\ \A x \in X, i \in 1..n : step[<<x, i>>] = Cut(x, code[i])
  <2>1. \A x \in X, i \in 1..n : Cut(x, code[i]) \in X
    BY <1>1, CutKeepsType
  <2> HIDE DEF X, n
  <2> QED BY <1>1, <2>1 DEF CutStep, X
<1> HIDE DEF step, X, n
<1>5. \E h : h = equation(h)
  <2>1. PICK g : g \in FoldOf(X, NoCut, step, n)
    BY <1>1, <1>3, <1>4, FoldExists
  <2>2. g \in [SUBSET (1..n) -> X]
        /\ \A s \in SUBSET (1..n) : g[s] = IF s = {} THEN NoCut ELSE step[<<g[s \ {Max(s)}], Max(s)>>]
    BY <2>1 DEF FoldOf
  <2>3. ASSUME NEW s \in SUBSET (1..n) PROVE g[s] = equation(g)[s]
    <3>1. CASE s = {}
      BY <2>2, <3>1
    <3>2. CASE s # {}
      <4>1. s \in SUBSET (0..n)
        OBVIOUS
      <4>2. Max(s) \in 1..n
        BY <1>1, <3>2, <4>1, MaxIsGreatest
      <4>3. g[s \ {Max(s)}] \in X
        BY <2>2
      <4>4. g[s] = step[<<g[s \ {Max(s)}], Max(s)>>]
        BY <2>2, <3>2
      <4>5. g[s] = Cut(g[s \ {Max(s)}], code[Max(s)])
        BY <1>4, <4>2, <4>3, <4>4
      <4> QED BY <3>2, <4>5
    <3> QED BY <3>1, <3>2
  <2>4. g = equation(g)
    <3> DEFINE e == equation(g)
    <3>1. e = [s \in SUBSET (1..n) |-> e[s]]
      OBVIOUS
    <3> HIDE DEF e
    <3> QED BY <2>2, <2>3, <3>1 DEF e
  <2> QED BY <2>4
<1>6. fold = equation(fold)
  <2> HIDE DEF equation
  <2> QED BY <1>5
<1> HIDE DEF fold
<1>7. PICK f : f \in Chain(X, NoCut, step, n)
  BY <1>1, <1>3, <1>4, RecursionUp
<1>8. \A i \in 1..n : f[i - 1] \in X /\ f[i] = Cut(f[i - 1], code[i])
  <2>1. \A i \in 1..n : f[i - 1] \in X /\ f[i] = step[<<f[i - 1], i>>]
    BY <1>1, <1>7 DEF Chain
  <2> QED BY <1>4, <2>1
<1>9. fold[{}] = NoCut
  BY <1>6
<1>10. ASSUME NEW i \in 1..n, fold[1..(i - 1)] = f[i - 1] PROVE fold[1..i] = f[i]
  <2>1. /\ 1..i \in SUBSET (1..n) /\ 1..i # {} /\ Max(1..i) = i /\ (1..i) \ {i} = 1..(i - 1)
    BY <1>1, LastOfPrefix
  <2>2. fold[1..i] = Cut(fold[(1..i) \ {Max(1..i)}], code[Max(1..i)])
    BY <1>6, <2>1
  <2>3. fold[1..i] = Cut(f[i - 1], code[i])
    BY <1>10, <2>1, <2>2
  <2> QED BY <1>8, <2>3
<1>11. fold[1..n] = f[n]
  BY <1>1, <1>3, <1>7, <1>9, <1>10, FoldEndsAsChain
<1>12. f \in [0..n -> X] /\ f[0] = NoCut
  BY <1>7 DEF Chain
<1> QED BY <1>2, <1>8, <1>11, <1>12 DEF X, n

LEMMA ConcatAppend ==
    ASSUME NEW S, NEW u \in Seq(S), NEW v \in Seq(S), NEW x \in S
    PROVE  u \o Append(v, x) = Append(u \o v, x)
OBVIOUS

\* The blocks that are done and the current one are the code so far; a block that is
\* done ends at its only control flow.
KeepsCode(code, i, acc) == FlattenSeq(acc.done) \o acc.current = SubSeq(code, 1, i)

EndsAtFlow(insts) ==
    insts # <<>> /\ insts[Len(insts)].flow /\ \A j \in 1..(Len(insts) - 1) : ~insts[j].flow

CutRight(acc) ==
    /\ \A d \in 1..Len(acc.done) : EndsAtFlow(acc.done[d])
    /\ \A j \in 1..Len(acc.current) : ~acc.current[j].flow

LEMMA CutKeepsCode ==
    ASSUME NEW S, NEW code \in Seq(S), NEW i \in 0..(Len(code) - 1),
           NEW acc \in Cuts(S), KeepsCode(code, i, acc)
    PROVE  KeepsCode(code, i + 1, Cut(acc, code[i + 1]))
<1> DEFINE inst == code[i + 1]
           current == Append(acc.current, inst)
           flat == FlattenSeq(acc.done)
<1>1. /\ acc.done \in Seq(Seq(S)) /\ acc.current \in Seq(S) /\ inst \in S
      /\ SubSeq(code, 1, i + 1) = Append(SubSeq(code, 1, i), inst)
  BY SubSeqGrows DEF Cuts
<1> HIDE DEF inst
<1>2. current \in Seq(S) /\ <<>> \in Seq(S)
  BY <1>1
<1> HIDE DEF current
<1>3. flat \in Seq(S) /\ FlattenSeq(Append(acc.done, current)) = flat \o current
  BY <1>1, <1>2, FlattenAppend
<1> HIDE DEF flat
<1>4. flat \o acc.current = SubSeq(code, 1, i)
  BY DEF KeepsCode, flat
<1>5. flat \o current = SubSeq(code, 1, i + 1)
  <2>1. flat \o Append(acc.current, inst) = Append(flat \o acc.current, inst)
    BY <1>1, <1>3, ConcatAppend
  <2> QED BY <1>1, <1>4, <2>1, Zenon DEF current
<1>6. CASE inst.flow
  <2>1. Cut(acc, inst).done = Append(acc.done, current) /\ Cut(acc, inst).current = <<>>
    BY <1>6 DEF Cut, current
  <2>2. (flat \o current) \o <<>> = flat \o current
    <3>1. flat \o current \in Seq(S)
      BY <1>2, <1>3
    <3> QED BY <3>1, ConcatEmptySeq
  <2>3. FlattenSeq(Cut(acc, inst).done) \o Cut(acc, inst).current = SubSeq(code, 1, i + 1)
    BY <1>3, <1>5, <2>1, <2>2, Zenon
  <2> QED BY <2>3 DEF KeepsCode, inst
<1>7. CASE ~inst.flow
  <2>1. Cut(acc, inst).done = acc.done /\ Cut(acc, inst).current = current
    <3>1. Cut(acc, inst) = [acc EXCEPT !.current = current]
      BY <1>7 DEF Cut, current
    <3>2. acc = [done |-> acc.done, current |-> acc.current]
      BY DEF Cuts
    <3> QED BY <3>1, <3>2
  <2>2. FlattenSeq(Cut(acc, inst).done) \o Cut(acc, inst).current = SubSeq(code, 1, i + 1)
    BY <1>5, <2>1, Zenon DEF flat
  <2> QED BY <2>2 DEF KeepsCode, inst
<1> QED BY <1>6, <1>7

LEMMA CutEndsAtFlow ==
    ASSUME NEW S, NEW acc \in Cuts(S), NEW inst \in S, CutRight(acc)
    PROVE  CutRight(Cut(acc, inst))
<1> DEFINE current == Append(acc.current, inst)
           T == Seq(S)
<1>1. acc.done \in Seq(T) /\ current \in T /\ acc.current \in Seq(S)
  BY DEF Cuts
<1>2. /\ Len(current) = Len(acc.current) + 1 /\ Len(acc.current) \in Nat
      /\ current[Len(current)] = inst /\ \A j \in 1..Len(acc.current) : current[j] = acc.current[j]
  BY <1>1
<1>3. \A j \in 1..(Len(current) - 1) : ~current[j].flow
  BY <1>2 DEF CutRight
<1>4. CASE inst.flow
  <2>1. Cut(acc, inst) = [done |-> Append(acc.done, current), current |-> <<>>]
    BY <1>4 DEF Cut
  <2>2. EndsAtFlow(current)
    <3>1. current # <<>>
      BY <1>2
    <3> HIDE DEF current
    <3> QED BY <1>2, <1>3, <1>4, <3>1 DEF EndsAtFlow
  <2> HIDE DEF T, current
  <2> DEFINE more == Append(acc.done, current)
  <2>3. /\ Len(more) = Len(acc.done) + 1 /\ Len(acc.done) \in Nat
        /\ more[Len(more)] = current /\ \A d \in 1..Len(acc.done) : more[d] = acc.done[d]
    BY <1>1
  <2>4. Cut(acc, inst).done = more /\ Cut(acc, inst).current = <<>>
    BY <2>1
  <2> HIDE DEF more
  <2>5. \A d \in 1..Len(more) : EndsAtFlow(more[d])
    <3> TAKE d \in 1..Len(more)
    <3>1. CASE d = Len(more)
      BY <2>2, <2>3, <3>1
    <3>2. CASE d # Len(more)
      <4>1. d \in 1..Len(acc.done)
        BY <2>3, <3>2
      <4>2. EndsAtFlow(acc.done[d])
        BY <4>1 DEF CutRight
      <4>3. more[d] = acc.done[d]
        BY <2>3, <4>1
      <4> QED BY <4>2, <4>3
    <3> QED BY <3>1, <3>2
  <2>6. \A j \in 1..Len(<<>>) : FALSE
    OBVIOUS
  <2> QED BY <2>4, <2>5, <2>6 DEF CutRight
<1>5. CASE ~inst.flow
  <2>1. Cut(acc, inst).done = acc.done /\ Cut(acc, inst).current = current
    BY <1>5 DEF Cut, Cuts
  <2> HIDE DEF current
  <2>2. \A j \in 1..Len(current) : ~current[j].flow
    <3> TAKE j \in 1..Len(current)
    <3>1. j \in 1..(Len(current) - 1) \/ j = Len(current)
      BY <1>2
    <3> QED BY <1>2, <1>3, <1>5, <3>1
  <2> QED BY <2>1, <2>2 DEF CutRight
<1> QED BY <1>4, <1>5

LEMMA CutsPartition ==
    ASSUME NEW S, NEW code \in Seq(S)
    PROVE  /\ CutCode(code) \in Seq(Seq(S))
           /\ FlattenSeq(CutCode(code)) = code
           /\ \A d \in 1..Len(CutCode(code)) :
                LET insts == CutCode(code)[d]
                IN  /\ insts # <<>>
                    /\ \A j \in 1..(Len(insts) - 1) : ~insts[j].flow
                    /\ insts[Len(insts)].flow \/ d = Len(CutCode(code))
<1> DEFINE n == Len(code)
<1>1. PICK f \in [0..n -> Cuts(S)] :
        /\ f[0] = NoCut /\ \A i \in 1..n : f[i] = Cut(f[i - 1], code[i])
        /\ FoldLeft(Cut, NoCut, code) = f[n]
  BY CutIsChain
<1> DEFINE P == {i \in 0..n : KeepsCode(code, i, f[i]) /\ CutRight(f[i])}
           last == f[n]
<1>2. n \in Nat /\ last \in Cuts(S)
  BY <1>1
<1>3. 0 \in P
  <2>1. NoCut.done = <<>> /\ NoCut.current = <<>> /\ SubSeq(code, 1, 0) = <<>> /\ <<>> \o <<>> = <<>>
    BY ConcatEmptySeq, SubSeqEmpty DEF NoCut
  <2>2. KeepsCode(code, 0, NoCut)
    BY <2>1, FlattenEmpty, Zenon DEF KeepsCode
  <2>3. CutRight(NoCut)
    BY <2>1 DEF CutRight
  <2> QED BY <1>1, <1>2, <2>2, <2>3
<1>4. ASSUME NEW i \in 0..(n - 1), i \in P PROVE i + 1 \in P
  <2>1. i + 1 \in 1..n /\ i + 1 \in 0..n /\ (i + 1) - 1 = i /\ i \in 0..n
    BY <1>2
  <2>2. f[i + 1] = Cut(f[i], code[i + 1]) /\ f[i] \in Cuts(S) /\ code[i + 1] \in S
    BY <1>1, <2>1
  <2>3. KeepsCode(code, i, f[i]) /\ CutRight(f[i])
    BY <1>4
  <2>4. KeepsCode(code, i + 1, f[i + 1])
    BY <2>2, <2>3, CutKeepsCode
  <2>5. CutRight(f[i + 1])
    BY <2>2, <2>3, CutEndsAtFlow
  <2> QED BY <2>1, <2>4, <2>5
<1>5. KeepsCode(code, n, last) /\ CutRight(last)
  <2>1. n \in P
    <3> HIDE DEF P, n
    <3>1. 0 \in Int /\ n \in Int /\ n \in 0..n
      BY <1>2
    <3>2. \A i \in 0..n : i \in P
      BY <1>3, <1>4, <3>1, InductionBetween
    <3> QED BY <3>1, <3>2
  <2> QED BY <2>1
<1>6. CutCode(code) = IF last.current = <<>> THEN last.done ELSE Append(last.done, last.current)
  BY <1>1, Zenon DEF CutCode, NoCut
<1>7. SubSeq(code, 1, n) = code
  BY SubSeqFull
<1> DEFINE T == Seq(S)
<1>8. last.done \in Seq(T) /\ last.current \in T
  BY <1>2 DEF Cuts
<1>9. FlattenSeq(last.done) \o last.current = code /\ CutRight(last)
  BY <1>5, <1>7, Zenon DEF KeepsCode
<1>10. FlattenSeq(last.done) \in Seq(S) /\ FlattenSeq(Append(last.done, last.current)) = FlattenSeq(last.done) \o last.current
  BY <1>8, FlattenAppend
<1> DEFINE current == last.current
           done == last.done
<1> HIDE DEF T, last, n
<1>11. CASE current = <<>>
  <2>1. CutCode(code) = done
    BY <1>6, <1>11
  <2>2. FlattenSeq(done) = code
    <3>1. FlattenSeq(done) \o <<>> = FlattenSeq(done)
      BY <1>10, ConcatEmptySeq
    <3> QED BY <1>9, <1>11, <3>1, Zenon
  <2>3. ASSUME NEW d \in 1..Len(done)
        PROVE  LET insts == done[d]
               IN  /\ insts # <<>>
                   /\ \A j \in 1..(Len(insts) - 1) : ~insts[j].flow
                   /\ insts[Len(insts)].flow \/ d = Len(done)
    BY <1>9 DEF CutRight, EndsAtFlow
  <2> HIDE DEF done
  <2> QED BY <1>8, <2>1, <2>2, <2>3 DEF T, done
<1>12. CASE current # <<>>
  <2> DEFINE more == Append(done, current)
  <2>1. CutCode(code) = more
    BY <1>6, <1>12
  <2>2. FlattenSeq(more) = code
    BY <1>9, <1>10, Zenon
  <2>3. /\ more \in Seq(T) /\ Len(more) = Len(done) + 1 /\ Len(done) \in Nat
        /\ more[Len(more)] = current /\ \A d \in 1..Len(done) : more[d] = done[d]
    BY <1>8
  <2>4. Len(current) \in Nat
    BY <1>8 DEF T
  <2> HIDE DEF more
  <2>5. ASSUME NEW d \in 1..Len(more)
        PROVE  LET insts == more[d]
               IN  /\ insts # <<>>
                   /\ \A j \in 1..(Len(insts) - 1) : ~insts[j].flow
                   /\ insts[Len(insts)].flow \/ d = Len(more)
    <3>1. CASE d = Len(more)
      <4>1. \A j \in 1..(Len(current) - 1) : j \in 1..Len(current)
        BY <2>4
      <4>2. \A j \in 1..(Len(current) - 1) : ~current[j].flow
        BY <1>9, <4>1 DEF CutRight
      <4> HIDE DEF current
      <4> QED BY <1>12, <2>3, <3>1, <4>2
    <3>2. CASE d # Len(more)
      <4>1. d \in 1..Len(done)
        BY <2>3, <3>2
      <4>2. EndsAtFlow(done[d])
        BY <1>9, <4>1 DEF CutRight
      <4>3. more[d] = done[d]
        BY <2>3, <4>1
      <4> QED BY <4>2, <4>3 DEF EndsAtFlow
    <3> QED BY <3>1, <3>2
  <2> QED BY <2>1, <2>2, <2>3, <2>5 DEF T
<1> QED BY <1>11, <1>12

(***************************************************************************)
(* The blocks of an object: those of one function after the other.         *)
(***************************************************************************)
BlockSet == [function : Nat, instructions : Seq(Instructions)]

OfFunction(f) == {inst \in Instructions : inst.function = f}

Insts(bs) == [k \in DOMAIN bs |-> bs[k].instructions]

LEMMA InstsOfConcat ==
    ASSUME NEW a \in Seq(BlockSet), NEW b \in Seq(BlockSet)
    PROVE  /\ Insts(a) \in Seq(Seq(Instructions)) /\ Insts(b) \in Seq(Seq(Instructions))
           /\ Insts(a \o b) = Insts(a) \o Insts(b)
<1> DEFINE T == Seq(Instructions)
           B == BlockSet
           c == a \o b
           I == Insts(a)
           J == Insts(b)
           K == Insts(c)
<1>1. \A block \in B : block.instructions \in T
  BY DEF BlockSet
<1>2. c \in Seq(B) /\ a \in Seq(B) /\ b \in Seq(B)
  <2> HIDE DEF B
  <2>1. a \in Seq(B) /\ b \in Seq(B)
    BY DEF B
  <2> QED BY <2>1
<1> HIDE DEF T, B
<1>3. /\ Len(c) = Len(a) + Len(b) /\ Len(a) \in Nat /\ Len(b) \in Nat
      /\ \A k \in 1..(Len(a) + Len(b)) : c[k] = IF k <= Len(a) THEN a[k] ELSE b[k - Len(a)]
      /\ DOMAIN a = 1..Len(a) /\ DOMAIN b = 1..Len(b) /\ DOMAIN c = 1..Len(c)
  BY <1>2, ConcatProperties
<1>4. ASSUME NEW s \in Seq(B) PROVE Insts(s) \in Seq(T) /\ Len(Insts(s)) = Len(s)
                                  /\ \A k \in 1..Len(s) : Insts(s)[k] = s[k].instructions
  <2>1. Len(s) \in Nat /\ DOMAIN s = 1..Len(s) /\ \A k \in 1..Len(s) : s[k].instructions \in T
    BY <1>1
  <2>2. Insts(s) = [k \in 1..Len(s) |-> s[k].instructions]
    BY <2>1 DEF Insts
  <2> QED BY <2>1, <2>2
<1> HIDE DEF c
<1>5. I \in Seq(T) /\ J \in Seq(T) /\ K \in Seq(T) /\ Len(I) = Len(a) /\ Len(J) = Len(b) /\ Len(K) = Len(c)
  BY <1>2, <1>4
<1>6. /\ \A k \in 1..Len(a) : I[k] = a[k].instructions
      /\ \A k \in 1..Len(b) : J[k] = b[k].instructions
      /\ \A k \in 1..Len(c) : K[k] = c[k].instructions
  BY <1>2, <1>4
<1> HIDE DEF I, J, K
<1> DEFINE L == I \o J
<1>7. /\ L \in Seq(T) /\ Len(L) = Len(a) + Len(b)
      /\ \A k \in 1..(Len(a) + Len(b)) : L[k] = IF k <= Len(a) THEN I[k] ELSE J[k - Len(a)]
  <2>1. /\ L \in Seq(T) /\ Len(L) = Len(I) + Len(J)
        /\ \A k \in 1..(Len(I) + Len(J)) : L[k] = IF k <= Len(I) THEN I[k] ELSE J[k - Len(I)]
    <3>1. I \in Seq(T) /\ J \in Seq(T)
      BY <1>5
    <3> QED BY ONLY <3>1, ConcatProperties DEF L
  <2>2. Len(I) = Len(a) /\ Len(J) = Len(b)
    BY <1>5
  <2> HIDE DEF L
  <2> QED BY <2>1, <2>2
<1> HIDE DEF L
<1>8. ASSUME NEW k \in 1..(Len(a) + Len(b)) PROVE K[k] = L[k]
  <2>1. CASE k <= Len(a)
    <3>1. k \in 1..Len(a) /\ k \in 1..Len(c)
      BY <1>3, <2>1
    <3> QED BY <1>3, <1>6, <1>7, <2>1, <3>1
  <2>2. CASE ~(k <= Len(a))
    <3>1. k - Len(a) \in 1..Len(b) /\ k \in 1..Len(c)
      BY <1>3, <2>2
    <3> QED BY <1>3, <1>6, <1>7, <2>2, <3>1
  <2> QED BY <2>1, <2>2
<1>9. K = L
  <2>1. Len(K) = Len(L) /\ Len(K) = Len(a) + Len(b)
    BY <1>3, <1>5, <1>7
  <2> QED BY <1>5, <1>7, <1>8, <2>1, SeqEqual
<1> QED BY <1>5, <1>9 DEF c, I, J, K, L, T

\* The blocks of the first i functions.
BlocksRight(bs, i) ==
    /\ bs \in Seq(BlockSet)
    /\ \A k \in 1..Len(bs) :
         /\ bs[k].function \in 1..i
         /\ bs[k].instructions # <<>>
         /\ bs[k].instructions \in Seq(OfFunction(bs[k].function))
         /\ \A j \in 1..(Len(bs[k].instructions) - 1) : ~bs[k].instructions[j].flow
         /\ \/ bs[k].instructions[Len(bs[k].instructions)].flow
            \/ k = Len(bs)
            \/ bs[k + 1].function # bs[k].function

LEMMA BuildBlocksRight ==
    ASSUME NEW f \in Nat \ {0}, NEW code \in Seq(OfFunction(f))
    PROVE  /\ BlocksRight(BuildBlocks(f, code), f)
           /\ \A k \in 1..Len(BuildBlocks(f, code)) : BuildBlocks(f, code)[k].function = f
           /\ FlattenSeq(Insts(BuildBlocks(f, code))) = code
<1> DEFINE S == OfFunction(f)
           cuts == CutCode(code)
           bs == BuildBlocks(f, code)
           T == Seq(S)
<1>1. /\ cuts \in Seq(T) /\ FlattenSeq(cuts) = code
      /\ \A d \in 1..Len(cuts) :
            /\ cuts[d] # <<>>
            /\ \A j \in 1..(Len(cuts[d]) - 1) : ~cuts[d][j].flow
            /\ cuts[d][Len(cuts[d])].flow \/ d = Len(cuts)
  <2> HIDE DEF S
  <2>1. code \in Seq(S)
    BY DEF S
  <2> QED BY <2>1, CutsPartition
<1>2. \A insts \in T : insts \in Seq(Instructions)
  BY DEF OfFunction
<1> HIDE DEF T
<1>3. Len(cuts) \in Nat /\ DOMAIN cuts = 1..Len(cuts) /\ \A d \in 1..Len(cuts) : cuts[d] \in T
  BY <1>1
<1> HIDE DEF cuts
<1>4. bs = [d \in 1..Len(cuts) |-> [function |-> f, instructions |-> cuts[d]]]
  BY <1>3 DEF BuildBlocks, cuts
<1>5. \A d \in 1..Len(cuts) : [function |-> f, instructions |-> cuts[d]] \in BlockSet
  BY <1>2, <1>3, f \in Nat DEF BlockSet
<1> HIDE DEF bs
<1>6. bs \in Seq(BlockSet) /\ Len(bs) = Len(cuts)
  BY <1>3, <1>4, <1>5
<1>7. \A d \in 1..Len(cuts) : bs[d].function = f /\ bs[d].instructions = cuts[d]
  BY <1>4
<1>8. Insts(bs) = cuts
  <2>1. Insts(bs) = [d \in 1..Len(cuts) |-> cuts[d]]
    BY <1>3, <1>4, <1>7 DEF Insts
  <2> QED BY <1>1, <1>3, <2>1
<1>9. BlocksRight(bs, f)
  <2>1. ASSUME NEW d \in 1..Len(bs)
        PROVE  /\ bs[d].function \in 1..f
               /\ bs[d].instructions # <<>>
               /\ bs[d].instructions \in Seq(OfFunction(bs[d].function))
               /\ \A j \in 1..(Len(bs[d].instructions) - 1) : ~bs[d].instructions[j].flow
               /\ \/ bs[d].instructions[Len(bs[d].instructions)].flow
                  \/ d = Len(bs)
    <3>1. d \in 1..Len(cuts) /\ bs[d].function = f /\ bs[d].instructions = cuts[d] /\ f \in 1..f
      BY <1>6, <1>7
    <3>2. cuts[d] \in Seq(OfFunction(f))
      BY <1>3, <3>1 DEF T
    <3> QED BY <1>1, <1>6, <3>1, <3>2
  <2> QED BY <1>6, <2>1 DEF BlocksRight
<1>10. FlattenSeq(Insts(bs)) = code
  BY <1>1, <1>8, Zenon
<1>11. \A d \in 1..Len(bs) : bs[d].function = f
  BY <1>6, <1>7
<1> QED BY <1>9, <1>10, <1>11 DEF bs

LEMMA BlocksRightConcat ==
    ASSUME NEW i \in Nat, NEW a, NEW b, BlocksRight(a, i), BlocksRight(b, i + 1),
           \A k \in 1..Len(b) : b[k].function = i + 1
    PROVE  BlocksRight(a \o b, i + 1)
<1> DEFINE c == a \o b
<1>1. a \in Seq(BlockSet) /\ b \in Seq(BlockSet)
  BY DEF BlocksRight
<1>2. /\ c \in Seq(BlockSet) /\ Len(c) = Len(a) + Len(b)
      /\ \A k \in 1..(Len(a) + Len(b)) : c[k] = IF k <= Len(a) THEN a[k] ELSE b[k - Len(a)]
  BY <1>1, ConcatProperties
<1>3. Len(a) \in Nat /\ Len(b) \in Nat
  BY <1>1
<1> HIDE DEF c
<1>4. ASSUME NEW k \in 1..Len(c)
      PROVE  /\ c[k].function \in 1..(i + 1)
             /\ c[k].instructions # <<>>
             /\ c[k].instructions \in Seq(OfFunction(c[k].function))
             /\ \A j \in 1..(Len(c[k].instructions) - 1) : ~c[k].instructions[j].flow
             /\ \/ c[k].instructions[Len(c[k].instructions)].flow
                \/ k = Len(c)
                \/ c[k + 1].function # c[k].function
  <2>1. CASE k <= Len(a)
    <3>1. k \in 1..Len(a) /\ c[k] = a[k]
      BY <1>2, <1>3, <2>1
    <3>2. /\ a[k].function \in 1..i
          /\ a[k].instructions # <<>>
          /\ a[k].instructions \in Seq(OfFunction(a[k].function))
          /\ \A j \in 1..(Len(a[k].instructions) - 1) : ~a[k].instructions[j].flow
          /\ \/ a[k].instructions[Len(a[k].instructions)].flow
             \/ k = Len(a)
             \/ a[k + 1].function # a[k].function
      BY <3>1 DEF BlocksRight
    <3>3. a[k].function \in 1..(i + 1) /\ a[k].function # i + 1
      BY <3>2
    <3>4. \/ a[k].instructions[Len(a[k].instructions)].flow
          \/ k = Len(c)
          \/ c[k + 1].function # a[k].function
      <4>1. CASE k = Len(a)
        <5>1. CASE Len(b) = 0
          BY <1>2, <1>3, <4>1, <5>1
        <5>2. CASE Len(b) # 0
          <6>1. k + 1 \in 1..(Len(a) + Len(b)) /\ ~(k + 1 <= Len(a)) /\ (k + 1) - Len(a) = 1 /\ 1 \in 1..Len(b)
            BY <1>3, <4>1, <5>2
          <6>2. c[k + 1] = b[1] /\ b[1].function = i + 1
            BY <1>2, <6>1
          <6> QED BY <3>3, <6>2
        <5> QED BY <5>1, <5>2
      <4>2. CASE k # Len(a)
        <5>1. k + 1 \in 1..(Len(a) + Len(b)) /\ k + 1 <= Len(a)
          BY <1>3, <3>1, <4>2
        <5>2. c[k + 1] = a[k + 1]
          BY <1>2, <5>1
        <5> QED BY <3>2, <4>2, <5>2
      <4> QED BY <4>1, <4>2
    <3> QED BY <3>1, <3>2, <3>3, <3>4
  <2>2. CASE ~(k <= Len(a))
    <3> DEFINE m == k - Len(a)
    <3>1. m \in 1..Len(b) /\ c[k] = b[m]
      BY <1>2, <1>3, <2>2
    <3>2. /\ b[m].function \in 1..(i + 1)
          /\ b[m].instructions # <<>>
          /\ b[m].instructions \in Seq(OfFunction(b[m].function))
          /\ \A j \in 1..(Len(b[m].instructions) - 1) : ~b[m].instructions[j].flow
          /\ \/ b[m].instructions[Len(b[m].instructions)].flow
             \/ m = Len(b)
             \/ b[m + 1].function # b[m].function
      BY <3>1 DEF BlocksRight
    <3>3. \/ b[m].instructions[Len(b[m].instructions)].flow
          \/ k = Len(c)
          \/ c[k + 1].function # b[m].function
      <4>1. CASE m = Len(b)
        BY <1>2, <1>3, <4>1
      <4>2. CASE m # Len(b)
        <5>1. k + 1 \in 1..(Len(a) + Len(b)) /\ ~(k + 1 <= Len(a)) /\ (k + 1) - Len(a) = m + 1
          BY <1>2, <1>3, <2>2, <4>2
        <5>2. c[k + 1] = b[m + 1]
          BY <1>2, <5>1
        <5> QED BY <3>2, <4>2, <5>2
      <4> QED BY <4>1, <4>2
    <3> QED BY <3>1, <3>2, <3>3
  <2> QED BY <2>1, <2>2
<1>5. BlocksRight(c, i + 1)
  BY <1>2, <1>4 DEF BlocksRight
<1> QED BY <1>5 DEF c

LEMMA CodeOfFunction ==
    ASSUME NEW f, NEW code \in Seq(Instructions), \A i \in DOMAIN code : code[i].function = f
    PROVE  code \in Seq(OfFunction(f))
<1> DEFINE S == OfFunction(f)
<1>1. Len(code) \in Nat /\ DOMAIN code = 1..Len(code) /\ code = [i \in 1..Len(code) |-> code[i]]
  OBVIOUS
<1>2. \A i \in 1..Len(code) : code[i] \in S
  BY <1>1 DEF OfFunction
<1> HIDE DEF S
<1>3. [i \in 1..Len(code) |-> code[i]] \in Seq(S)
  BY <1>1, <1>2
<1>4. code \in Seq(S)
  BY <1>1, <1>3
<1> QED BY <1>4 DEF S

LEMMA AllBlocksRight ==
    ASSUME NEW functions \in Seq(Seq(Instructions)),
           \A f \in DOMAIN functions : \A i \in DOMAIN functions[f] : functions[f][i].function = f
    PROVE  /\ BlocksRight(AllBlocks(functions), Len(functions))
           /\ FlattenSeq(Insts(AllBlocks(functions))) = FlattenSeq(functions)
<1> DEFINE n == Len(functions)
           I == Seq(Instructions)
           B == Seq(BlockSet)
           bss == [f \in 1..n |-> BuildBlocks(f, functions[f])]
<1>1. n \in Nat /\ DOMAIN functions = 1..n /\ functions \in Seq(I)
  OBVIOUS
<1>2. ASSUME NEW f \in 1..n
      PROVE  /\ functions[f] \in Seq(OfFunction(f)) /\ functions[f] \in I /\ f \in Nat \ {0}
  <2>1. functions[f] \in I /\ f \in Nat \ {0}
    BY <1>1
  <2>2. \A i \in DOMAIN functions[f] : functions[f][i].function = f
    BY <1>1, Zenon
  <2> DEFINE code == functions[f]
  <2>3. code \in Seq(Instructions) /\ \A i \in DOMAIN code : code[i].function = f
    BY <2>1, <2>2
  <2> HIDE DEF code
  <2>4. code \in Seq(OfFunction(f))
    BY <2>3, CodeOfFunction
  <2> QED BY <2>1, <2>4 DEF code
<1>3. ASSUME NEW f \in 1..n
      PROVE  /\ bss[f] \in B
             /\ BlocksRight(bss[f], f) /\ FlattenSeq(Insts(bss[f])) = functions[f]
             /\ \A k \in 1..Len(bss[f]) : bss[f][k].function = f
  <2> DEFINE bs == BuildBlocks(f, functions[f])
  <2>1. /\ BlocksRight(bs, f) /\ FlattenSeq(Insts(bs)) = functions[f]
        /\ \A k \in 1..Len(bs) : bs[k].function = f
    BY <1>2, BuildBlocksRight
  <2>2. bss[f] = bs
    OBVIOUS
  <2> HIDE DEF bs, bss
  <2> QED BY <2>1, <2>2 DEF BlocksRight
<1>4. AllBlocks(functions) = FlattenSeq(bss)
  BY <1>1 DEF AllBlocks
<1>5. bss \in Seq(B) /\ Len(bss) = n
  <2> DEFINE e(f) == BuildBlocks(f, functions[f])
  <2>1. \A f \in 1..n : e(f) \in B
    BY <1>3
  <2> HIDE DEF e, B
  <2>2. bss = [f \in 1..n |-> e(f)]
    BY DEF e
  <2> QED BY <1>1, <2>1, <2>2
<1> HIDE DEF bss, n
<1>6. PICK g \in [0..n -> B] :
         g[0] = <<>> /\ (\A i \in 1..n : g[i] = g[i - 1] \o bss[i]) /\ FlattenSeq(bss) = g[n]
  BY <1>5, FlattenIsChain
<1> DEFINE P == {i \in 0..n : /\ BlocksRight(g[i], i)
                              /\ FlattenSeq(Insts(g[i])) = FlattenSeq(SubSeq(functions, 1, i))}
<1>7. 0 \in P
  <2>1. Insts(<<>>) = <<>> /\ SubSeq(functions, 1, 0) = <<>>
    BY SubSeqEmpty DEF Insts
  <2>2. FlattenSeq(Insts(<<>>)) = FlattenSeq(SubSeq(functions, 1, 0))
    BY <2>1, Zenon
  <2>3. BlocksRight(<<>>, 0)
    BY DEF BlocksRight
  <2> QED BY <1>1, <1>6, <2>2, <2>3
<1>8. ASSUME NEW i \in 0..(n - 1), i \in P PROVE i + 1 \in P
  <2>1. /\ i + 1 \in 1..n /\ i + 1 \in 0..n /\ (i + 1) - 1 = i /\ i \in 0..n /\ i \in Nat
        /\ i \in 0..(Len(functions) - 1)
    BY <1>1 DEF n
  <2> DEFINE a == g[i]
             b == bss[i + 1]
             before == SubSeq(functions, 1, i)
             code == functions[i + 1]
  <2>2. g[i + 1] = a \o b
    BY <1>6, <2>1
  <2>3. /\ BlocksRight(b, i + 1) /\ FlattenSeq(Insts(b)) = code /\ code \in I
        /\ \A k \in 1..Len(b) : b[k].function = i + 1
    BY <1>2, <1>3, <2>1
  <2>4. BlocksRight(a, i) /\ FlattenSeq(Insts(a)) = FlattenSeq(before)
    BY <1>8
  <2>5. before \in Seq(I) /\ SubSeq(functions, 1, i + 1) = Append(before, code)
    <3> HIDE DEF I
    <3> QED BY <1>1, <2>1, SubSeqGrows
  <2> HIDE DEF a, b, before, code
  <2>6. BlocksRight(a \o b, i + 1)
    BY <2>1, <2>3, <2>4, BlocksRightConcat
  <2>7. FlattenSeq(Insts(a \o b)) = FlattenSeq(Append(before, code))
    <3>1. a \in Seq(BlockSet) /\ b \in Seq(BlockSet)
      BY <2>3, <2>4 DEF BlocksRight
    <3>2. /\ Insts(a) \in Seq(Seq(Instructions)) /\ Insts(b) \in Seq(Seq(Instructions))
          /\ Insts(a \o b) = Insts(a) \o Insts(b)
      BY <3>1, InstsOfConcat
    <3> DEFINE p == Insts(a)
               q == Insts(b)
    <3>3. p \in Seq(Seq(Instructions)) /\ q \in Seq(Seq(Instructions))
      BY <3>2
    <3>4. FlattenSeq(p \o q) = FlattenSeq(p) \o FlattenSeq(q)
      <4> HIDE DEF p, q
      <4> QED BY ONLY <3>3, FlattenConcat
    <3>5. FlattenSeq(Append(before, code)) = FlattenSeq(before) \o code
      BY <2>3, <2>5, FlattenAppend
    <3> QED BY <2>3, <2>4, <3>2, <3>4, <3>5, Zenon
  <2> QED BY <2>1, <2>2, <2>5, <2>6, <2>7
<1>9. n \in P
  <2> HIDE DEF P
  <2>1. 0 \in Int /\ n \in Int /\ n \in 0..n
    BY <1>1
  <2>2. \A i \in 0..n : i \in P
    BY <1>7, <1>8, <2>1, InductionBetween
  <2> QED BY <2>1, <2>2
<1>10. SubSeq(functions, 1, n) = functions
  BY <1>1, SubSeqFull DEF n
<1>11. BlocksRight(g[n], n) /\ FlattenSeq(Insts(g[n])) = FlattenSeq(functions)
  BY <1>9, <1>10
<1> QED BY <1>4, <1>6, <1>11, Zenon DEF n

(***************************************************************************)
(* The order in which the groups are visited.                              *)
(***************************************************************************)
KeySet == [function : Nat, file : Nat, lines : SUBSET Nat]

\* Where two sets of lines differ first.
Parts(a, b, x) ==
    /\ x \in Nat /\ (x \in a <=> x \notin b)
    /\ \A y \in Nat : y < x => (y \in a <=> y \in b)

LEMMA LinesPart ==
    ASSUME NEW a \in SUBSET Nat, NEW b \in SUBSET Nat, a # b
    PROVE  /\ Parts(a, b, Min((a \ b) \cup (b \ a)))
           /\ \A x : Parts(a, b, x) => x = Min((a \ b) \cup (b \ a))
<1> DEFINE d == (a \ b) \cup (b \ a)
           x == Min(d)
<1>1. d \in SUBSET Nat /\ d # {}
  OBVIOUS
<1> HIDE DEF d
<1>2. x \in d /\ \A y \in d : x <= y
  BY <1>1, MinIsLeast
<1>3. Parts(a, b, x)
  <2>1. x \in Nat /\ (x \in a <=> x \notin b)
    BY <1>1, <1>2 DEF d
  <2>2. ASSUME NEW y \in Nat, y < x PROVE y \in a <=> y \in b
    <3>1. y \notin d
      BY <1>1, <1>2, <2>1, <2>2
    <3> QED BY <3>1 DEF d
  <2> QED BY <2>1, <2>2 DEF Parts
<1>4. ASSUME NEW z, Parts(a, b, z) PROVE z = x
  <2>1. z \in Nat /\ x \in Nat /\ ~(z < x) /\ ~(x < z)
    BY <1>3, <1>4 DEF Parts
  <2> QED BY <2>1
<1> QED BY <1>3, <1>4 DEF d

LEMMA LinesBeforeAt ==
    ASSUME NEW a \in SUBSET Nat, NEW b \in SUBSET Nat, NEW x, Parts(a, b, x)
    PROVE  LinesBefore(a, b) <=> IF x \in a THEN \E l \in b : l > x ELSE \A l \in a : l < x
<1>1. a # b
  BY DEF Parts
<1>2. x = Min((a \ b) \cup (b \ a))
  BY <1>1, LinesPart
<1> QED BY <1>1, <1>2, Zenon DEF LinesBefore

LEMMA LinesBeforeTotal ==
    ASSUME NEW a \in SUBSET Nat, NEW b \in SUBSET Nat, a # b
    PROVE  LinesBefore(a, b) \/ LinesBefore(b, a)
<1>1. PICK x : Parts(a, b, x)
  BY LinesPart
<1>2. x \in Nat /\ (x \in a <=> x \notin b)
  BY <1>1 DEF Parts
<1>3. Parts(b, a, x)
  BY <1>1 DEF Parts
<1>4. LinesBefore(a, b) <=> IF x \in a THEN \E l \in b : l > x ELSE \A l \in a : l < x
  BY <1>1, LinesBeforeAt
<1>5. LinesBefore(b, a) <=> IF x \in b THEN \E l \in a : l > x ELSE \A l \in b : l < x
  BY <1>3, LinesBeforeAt
<1>6. CASE x \in a
  <2>1. CASE \E l \in b : l > x
    BY <1>4, <1>6, <2>1
  <2>2. CASE ~ \E l \in b : l > x
    <3>1. \A l \in b : l < x
      <4> TAKE l \in b
      <4>1. l \in Nat /\ ~(l > x) /\ l # x
        BY <1>2, <1>6, <2>2
      <4> QED BY <1>2, <4>1
    <3> QED BY <1>2, <1>5, <1>6, <3>1
  <2> QED BY <2>1, <2>2
<1>7. CASE x \notin a
  <2>1. CASE \E l \in a : l > x
    BY <1>2, <1>5, <1>7, <2>1
  <2>2. CASE ~ \E l \in a : l > x
    <3>1. \A l \in a : l < x
      <4> TAKE l \in a
      <4>1. l \in Nat /\ ~(l > x) /\ l # x
        BY <1>2, <1>7, <2>2
      <4> QED BY <1>2, <4>1
    <3> QED BY <1>4, <1>7, <3>1
  <2> QED BY <2>1, <2>2
<1> QED BY <1>6, <1>7

LEMMA LinesBeforeTransitive ==
    ASSUME NEW a \in SUBSET Nat, NEW b \in SUBSET Nat, NEW c \in SUBSET Nat,
           LinesBefore(a, b), LinesBefore(b, c)
    PROVE  LinesBefore(a, c)
<1>1. a # b /\ b # c
  BY DEF LinesBefore
<1>2. PICK x : Parts(a, b, x)
  BY <1>1, LinesPart
<1>3. PICK y : Parts(b, c, y)
  BY <1>1, LinesPart
<1>4. IF x \in a THEN \E l \in b : l > x ELSE \A l \in a : l < x
  BY <1>2, LinesBeforeAt
<1>5. IF y \in b THEN \E l \in c : l > y ELSE \A l \in b : l < y
  BY <1>3, LinesBeforeAt
<1>6. /\ x \in Nat /\ (x \in a <=> x \notin b) /\ \A z \in Nat : z < x => (z \in a <=> z \in b)
      /\ y \in Nat /\ (y \in b <=> y \notin c) /\ \A z \in Nat : z < y => (z \in b <=> z \in c)
  BY <1>2, <1>3 DEF Parts
<1>7. CASE x < y
  <2>1. Parts(a, c, x)
    BY <1>6, <1>7 DEF Parts
  <2>2. CASE x \in a
    <3>1. PICK l \in b : l > x
      BY <1>4, <2>2
    <3>2. \E m \in c : m > x
      <4>1. CASE y \in c
        BY <1>7, <4>1
      <4>2. CASE y \notin c
        <5>1. PICK m \in c : m > y
          BY <1>5, <1>6, <4>2
        <5>2. m \in Nat /\ m > x
          BY <1>6, <1>7, <5>1
        <5> QED BY <5>2
      <4> QED BY <4>1, <4>2
    <3> QED BY <2>1, <2>2, <3>2, LinesBeforeAt
  <2>3. CASE x \notin a
    <3>1. \A l \in a : l < x
      BY <1>4, <2>3
    <3> QED BY <2>1, <2>3, <3>1, LinesBeforeAt
  <2> QED BY <2>2, <2>3
<1>8. CASE y < x
  <2>1. Parts(a, c, y)
    BY <1>6, <1>8 DEF Parts
  <2>2. CASE y \in a
    <3>1. y \in b
      BY <1>6, <1>8, <2>2
    <3>2. \E l \in c : l > y
      BY <1>5, <3>1
    <3> QED BY <2>1, <2>2, <3>2, LinesBeforeAt
  <2>3. CASE y \notin a
    <3>1. y \notin b
      BY <1>6, <1>8, <2>3
    <3>2. \A l \in b : l < y
      BY <1>5, <3>1
    <3>3. x \notin b
      <4>1. x \in b => x < y
        BY <3>2
      <4> QED BY <1>6, <1>8, <4>1
    <3>4. x \in a
      BY <1>6, <3>3
    <3>5. PICK l \in b : l > x
      BY <1>4, <3>4
    <3>6. l \in Nat /\ l < y
      BY <3>2
    <3> QED BY <1>6, <1>8, <3>5, <3>6
  <2> QED BY <2>2, <2>3
<1>9. CASE x = y
  <2>1. CASE x \in a
    <3>1. x \notin b
      BY <1>6, <2>1
    <3>2. PICK l \in b : l > x
      BY <1>4, <2>1
    <3>3. l \in Nat /\ l < x
      BY <1>5, <1>9, <3>1
    <3> QED BY <1>6, <3>2, <3>3
  <2>2. CASE x \notin a
    <3>1. x \in b /\ x \notin c
      BY <1>6, <1>9, <2>2
    <3>2. \A l \in a : l < x
      BY <1>4, <2>2
    <3>3. PICK m \in c : m > x
      BY <1>5, <1>9, <3>1
    <3>4. m \in Nat /\ m \notin a
      BY <1>6, <3>2, <3>3
    <3>5. a # c
      BY <3>3, <3>4
    <3>6. PICK z : Parts(a, c, z)
      BY <3>5, LinesPart
    <3>7. z \in Nat /\ (z \in a <=> z \notin c)
      BY <3>6 DEF Parts
    <3>8. ~(z < x) /\ z # x
      BY <1>6, <1>9, <2>2, <3>1, <3>7
    <3>9. x < z
      BY <1>6, <3>7, <3>8
    <3>10. z \notin a
      <4>1. z \in a => z < x
        BY <3>2
      <4> QED BY <3>8, <4>1
    <3>11. \A l \in a : l < z
      <4> TAKE l \in a
      <4>1. l \in Nat /\ l < x
        BY <3>2
      <4> QED BY <1>6, <3>7, <3>9, <4>1
    <3> QED BY <3>6, <3>10, <3>11, LinesBeforeAt
  <2> QED BY <2>1, <2>2
<1> QED BY <1>6, <1>7, <1>8, <1>9

LEMMA BeforeTotal ==
    ASSUME NEW k \in KeySet, NEW l \in KeySet, k # l
    PROVE  KeyBefore(k, l) \/ KeyBefore(l, k)
<1>1. /\ k.function \in Nat /\ l.function \in Nat /\ k.file \in Nat /\ l.file \in Nat
      /\ k.lines \in SUBSET Nat /\ l.lines \in SUBSET Nat
      /\ (k.function = l.function /\ k.file = l.file => k.lines # l.lines)
  BY DEF KeySet
<1>2. CASE k.function = l.function /\ k.file = l.file
  <2>1. LinesBefore(k.lines, l.lines) \/ LinesBefore(l.lines, k.lines)
    BY <1>1, <1>2, LinesBeforeTotal
  <2> QED BY <1>2, <2>1 DEF KeyBefore
<1>3. CASE ~(k.function = l.function /\ k.file = l.file)
  BY <1>1, <1>3 DEF KeyBefore
<1> QED BY <1>2, <1>3

LEMMA BeforeTransitive ==
    ASSUME NEW k \in KeySet, NEW l \in KeySet, NEW m \in KeySet, KeyBefore(k, l), KeyBefore(l, m)
    PROVE  KeyBefore(k, m)
<1>1. /\ k.function \in Nat /\ l.function \in Nat /\ k.file \in Nat /\ l.file \in Nat
      /\ m.function \in Nat /\ m.file \in Nat
      /\ k.lines \in SUBSET Nat /\ l.lines \in SUBSET Nat /\ m.lines \in SUBSET Nat
  BY DEF KeySet
<1>2. LinesBefore(k.lines, l.lines) /\ LinesBefore(l.lines, m.lines) => LinesBefore(k.lines, m.lines)
  BY <1>1, LinesBeforeTransitive
<1> QED BY <1>1, <1>2 DEF KeyBefore

\* Some keys, not none, have a first one.
LEMMA FirstExists ==
    ASSUME NEW T \in SUBSET KeySet, IsFiniteSet(T), T # {}
    PROVE  \E k \in T : \A other \in T \ {k} : KeyBefore(k, other)
<1> DEFINE Some(U) == \E k \in U : \A other \in U \ {k} : KeyBefore(k, other)
           P == {n \in Nat : \A U \in SUBSET KeySet :
                    IsFiniteSet(U) /\ Cardinality(U) = n /\ U # {} => Some(U)}
<1>1. 0 \in P
  BY FS_EmptySet
<1>2. ASSUME NEW n \in Nat, n \in P PROVE n + 1 \in P
  <2>1. ASSUME NEW U \in SUBSET KeySet, IsFiniteSet(U), Cardinality(U) = n + 1, U # {}
        PROVE  Some(U)
    <3>1. PICK x \in U : TRUE
      BY <2>1
    <3> DEFINE V == U \ {x}
    <3>2. V \in SUBSET KeySet /\ IsFiniteSet(V) /\ Cardinality(V) = n
      <4>1. Cardinality(V) = Cardinality(U) - 1 /\ IsFiniteSet(V)
        BY <2>1, <3>1, FS_RemoveElement
      <4>2. V \in SUBSET KeySet
        OBVIOUS
      <4>3. (n + 1) - 1 = n
        OBVIOUS
      <4> QED BY <2>1, <4>1, <4>2, <4>3
    <3>3. CASE V = {}
      BY <3>3
    <3>4. CASE V # {}
      <4>1. Some(V)
        BY <1>2, <3>2, <3>4
      <4>2. PICK y \in V : \A other \in V \ {y} : KeyBefore(y, other)
        BY <4>1
      <4>3. x # y /\ x \in KeySet /\ y \in KeySet /\ y \in U
        OBVIOUS
      <4>4. CASE KeyBefore(x, y)
        <5>1. \A other \in U \ {x} : KeyBefore(x, other)
          <6> TAKE other \in U \ {x}
          <6>1. CASE other = y
            BY <4>4, <6>1
          <6>2. CASE other # y
            <7>1. other \in V \ {y} /\ other \in KeySet
              BY <6>2
            <7> QED BY <4>2, <4>3, <4>4, <7>1, BeforeTransitive
          <6> QED BY <6>1, <6>2
        <5> QED BY <5>1
      <4>5. CASE KeyBefore(y, x)
        <5>1. \A other \in U \ {y} : KeyBefore(y, other)
          <6> TAKE other \in U \ {y}
          <6>1. CASE other = x
            BY <4>5, <6>1
          <6>2. CASE other # x
            BY <4>2, <6>2
          <6> QED BY <6>1, <6>2
        <5> QED BY <4>3, <5>1
      <4> QED BY <4>3, <4>4, <4>5, BeforeTotal
    <3> QED BY <3>3, <3>4
  <2> QED BY <2>1
<1>3. \A n \in Nat : n \in P
  <2> HIDE DEF P
  <2> QED BY <1>1, <1>2, InductionUp
<1>4. Cardinality(T) \in Nat
  BY FS_CardinalityType
<1> QED BY <1>3, <1>4

(***************************************************************************)
(* The inductive invariant: the blocks are those of the objects, the       *)
(* groups are visited in their order, and a region is one of the groups    *)
(* that were visited and pair.                                             *)
(***************************************************************************)
PairedKeys == {regions[i].key : i \in 1..Len(regions)}

Built == object \in Objects /\ blocks = [side \in Sides |-> AllBlocks(object[side])]

Listed == Len(regions) \in Nat /\ \E S : regions \in Seq(S)

Visited ==
    /\ keys \subseteq Keys
    /\ \A i \in 1..Len(regions) : regions[i].key \in Keys \ keys
    /\ \A i \in 1..Len(regions) : \A key \in keys : KeyBefore(regions[i].key, key)

Counted ==
    counts = [functions |-> Len(object.guest), regions |-> Cardinality(PairedKeys),
            skipped |-> Cardinality((Keys \ keys) \ PairedKeys)]

RegionRight(i) ==
    /\ Paired(regions[i].key)
    /\ regions[i].guest = GroupCode("guest", regions[i].key)
    /\ regions[i].host = GroupCode("host", regions[i].key)
    /\ regions[i].id =
         <<regions[i].key.function, regions[i].key.file, LineLabel(regions[i].key.lines),
           Cardinality({j \in 1..(i - 1) : regions[j].key.function = regions[i].key.function})>>

IInv ==
    /\ Built
    /\ Listed
    /\ Visited
    /\ Counted
    /\ \A i \in 1..Len(regions) : RegionRight(i)

LEMMA BuiltBlocks ==
    ASSUME Built, NEW side \in Sides
    PROVE  /\ blocks[side] \in Seq(BlockSet)
           /\ BlocksRight(blocks[side], Len(object[side]))
           /\ FlattenSeq(Insts(blocks[side])) = FlattenSeq(object[side])
<1> DEFINE functions == object[side]
<1>1. /\ functions \in Seq(Seq(Instructions))
      /\ \A f \in DOMAIN functions : \A i \in DOMAIN functions[f] : functions[f][i].function = f
  BY ObjectsAreExtracted DEF Built
<1>2. blocks[side] = AllBlocks(functions)
  BY DEF Built
<1> HIDE DEF functions
<1>3. /\ BlocksRight(AllBlocks(functions), Len(functions))
      /\ FlattenSeq(Insts(AllBlocks(functions))) = FlattenSeq(functions)
  BY <1>1, AllBlocksRight
<1> QED BY <1>2, <1>3 DEF BlocksRight, functions

LEMMA SourceKeyType ==
    ASSUME NEW block \in BlockSet, SourceKey(block) # NoSource
    PROVE  SourceKey(block) \in KeySet /\ SourceKey(block).function = block.function
<1> DEFINE files == {loc.file : loc \in Locations(block)}
           lines == {loc.line : loc \in Locations(block)}
           file == CHOOSE file \in files : TRUE
<1>1. Locations(block) \in SUBSET [file : Nat, line : Nat]
  <2>1. block.instructions \in Seq(Instructions)
    BY DEF BlockSet
  <2>2. \A i \in DOMAIN block.instructions : block.instructions[i].source \in [file : Nat, line : Nat] \cup {NoSource}
    <3>1. \A i \in DOMAIN block.instructions : block.instructions[i] \in Instructions
      BY <2>1
    <3> QED BY <3>1 DEF Instructions
  <2> QED BY <2>2 DEF Locations
<1>2. files \in SUBSET Nat /\ lines \in SUBSET Nat
  <2>1. \A loc \in Locations(block) : loc.file \in Nat /\ loc.line \in Nat
    BY <1>1
  <2> QED BY <2>1
<1>3. Cardinality(files) = 1
  BY DEF SourceKey
<1>4. SourceKey(block) = [function |-> block.function, file |-> file, lines |-> lines]
  BY <1>3 DEF SourceKey
<1>5. files # {}
  BY <1>3, FS_EmptySet
<1>6. file \in files
  <2> HIDE DEF files
  <2> QED BY <1>5
<1>7. file \in Nat /\ block.function \in Nat
  <2>1. file \in Nat
    BY <1>2, <1>6
  <2> QED BY <2>1 DEF BlockSet
<1> HIDE DEF file, lines, files
<1> QED BY <1>2, <1>4, <1>7 DEF KeySet

\* The image of a finite sequence is finite.
LEMMA SeqImageFinite ==
    ASSUME NEW n \in Nat, NEW f, DOMAIN f = 1..n, NEW T, T \subseteq {f[i] : i \in DOMAIN f}
    PROVE  IsFiniteSet(T)
<1> DEFINE U == {f[i] : i \in 1..n}
           g == [i \in 1..n |-> f[i]]
<1>1. g \in Surjection(1..n, U)
  BY DEF Surjection
<1>2. IsFiniteSet(1..n)
  <2>1. 1 \in Int /\ n \in Int
    OBVIOUS
  <2> QED BY <2>1, FS_Interval
<1> HIDE DEF g, U
<1>3. IsFiniteSet(U)
  BY <1>1, <1>2, FS_Surjection
<1>4. T \in SUBSET U
  BY DEF U
<1> QED BY <1>3, <1>4, FS_Subset

LEMMA KeysFinite ==
    ASSUME Built
    PROVE  IsFiniteSet(Keys) /\ Keys \in SUBSET KeySet
<1>1. ASSUME NEW side \in Sides
      PROVE  IsFiniteSet(KeysOf(side)) /\ KeysOf(side) \in SUBSET KeySet
  <2> DEFINE bs == blocks[side]
             f == [i \in DOMAIN bs |-> SourceKey(bs[i])]
  <2>1. bs \in Seq(BlockSet)
    BY BuiltBlocks
  <2>2. Len(bs) \in Nat /\ DOMAIN bs = 1..Len(bs) /\ \A i \in DOMAIN bs : bs[i] \in BlockSet
    BY <2>1
  <2>3. KeysOf(side) = {SourceKey(bs[i]) : i \in DOMAIN bs} \ {NoSource}
    BY DEF KeysOf
  <2> HIDE DEF bs
  <2>4. KeysOf(side) \subseteq {f[i] : i \in DOMAIN f} /\ DOMAIN f = 1..Len(bs)
    BY <2>2, <2>3
  <2>5. KeysOf(side) \in SUBSET KeySet
    BY <2>2, <2>3, SourceKeyType
  <2> HIDE DEF f
  <2>6. IsFiniteSet(KeysOf(side))
    BY <2>2, <2>4, SeqImageFinite
  <2> QED BY <2>5, <2>6
<1>2. "guest" \in Sides /\ "host" \in Sides
  BY DEF Sides
<1>3. IsFiniteSet(KeysOf("guest") \cup KeysOf("host"))
  BY <1>1, <1>2, FS_Union
<1> QED BY <1>1, <1>2, <1>3 DEF Keys

LEMMA IInit == AlignmentInit => IInv
<1> SUFFICES ASSUME AlignmentInit PROVE IInv
  OBVIOUS
<1>1. regions = <<>> /\ keys = Keys /\ Len(regions) = 0 /\ 1..0 = {}
  BY DEF AlignmentInit
<1>2. Built
  BY DEF AlignmentInit, Built
<1>3. Listed
  BY <1>1 DEF Listed
<1>4. Visited
  BY <1>1 DEF Visited
<1>5. PairedKeys = {}
  BY <1>1 DEF PairedKeys
<1>6. (Keys \ keys) \ PairedKeys = {}
  BY <1>1
<1>7. Counted
  BY <1>5, <1>6, FS_EmptySet DEF Counted, AlignmentInit
<1>8. \A i \in 1..Len(regions) : RegionRight(i)
  BY <1>1
<1> QED BY <1>2, <1>3, <1>4, <1>7, <1>8 DEF IInv

LEMMA KeysUnchanged == blocks' = blocks => Keys' = Keys
BY DEF Keys, KeysOf

LEMMA AmbiguousKeepsIInv ==
    ASSUME IInv, NEW key, Ambiguous(key)
    PROVE  IInv'
<1>1. /\ key \in keys /\ keys' = keys \ {key}
      /\ counts' = [counts EXCEPT !.skipped = @ + 1]
      /\ object' = object /\ blocks' = blocks /\ regions' = regions
  BY DEF Ambiguous, IsFirst
<1>2. Keys' = Keys /\ PairedKeys' = PairedKeys
  BY <1>1, KeysUnchanged DEF PairedKeys
<1>3. Built'
  BY <1>1 DEF IInv, Built
<1>4. Listed'
  BY <1>1 DEF IInv, Listed
<1>5. Visited'
  BY <1>1, <1>2 DEF IInv, Visited
<1>6. Counted'
  <2> DEFINE skipped == (Keys \ keys) \ PairedKeys
  <2>1. key \in Keys /\ key \notin PairedKeys /\ key \notin skipped
    BY <1>1 DEF IInv, Visited, PairedKeys
  <2>2. (Keys \ (keys \ {key})) \ PairedKeys = skipped \cup {key}
    BY <2>1
  <2>3. IsFiniteSet(skipped)
    <3>1. IsFiniteSet(Keys) /\ skipped \in SUBSET Keys
      BY KeysFinite DEF IInv
    <3> QED BY <3>1, FS_Subset
  <2> HIDE DEF skipped
  <2>4. Cardinality(skipped \cup {key}) = Cardinality(skipped) + 1
    BY <2>1, <2>3, FS_AddElement
  <2>5. counts = [functions |-> Len(object.guest), regions |-> Cardinality(PairedKeys),
                skipped |-> Cardinality(skipped)]
    BY DEF IInv, Counted, skipped
  <2>6. counts' = [functions |-> Len(object.guest), regions |-> Cardinality(PairedKeys),
                 skipped |-> Cardinality(skipped) + 1]
    BY <1>1, <2>5
  <2>7. (Keys' \ keys') \ PairedKeys' = skipped \cup {key}
    BY <1>1, <1>2, <2>2
  <2> QED BY <1>1, <1>2, <2>4, <2>6, <2>7 DEF Counted
<1>7. (\A i \in 1..Len(regions) : RegionRight(i))'
  BY <1>1 DEF IInv, RegionRight, Paired, Group, GroupCode
<1> QED BY <1>3, <1>4, <1>5, <1>6, <1>7 DEF IInv

LEMMA AlignKeepsIInv ==
    ASSUME IInv, NEW key, Align(key)
    PROVE  IInv'
<1> DEFINE r == [id |-> RegionId(key, regions), key |-> key,
                 guest |-> GroupCode("guest", key), host |-> GroupCode("host", key)]
<1>1. /\ key \in keys /\ Paired(key) /\ keys' = keys \ {key}
      /\ \A other \in keys \ {key} : KeyBefore(key, other)
      /\ counts' = [counts EXCEPT !.regions = @ + 1]
      /\ object' = object /\ blocks' = blocks /\ regions' = Append(regions, r)
  BY DEF Align, IsFirst
<1>2. PICK S : regions \in Seq(S)
  BY DEF IInv, Listed
<1>n. PICK n \in Nat : n = Len(regions)
  BY <1>2
<1>3. /\ n \in Nat /\ Len(regions') = n + 1 /\ regions'[n + 1] = r
      /\ \A i \in 1..n : regions'[i] = regions[i]
      /\ regions' \in Seq(S \cup {r})
  <2> HIDE DEF r
  <2>1. regions \in Seq(S \cup {r})
    BY <1>2
  <2> QED BY <1>1, <1>n, <2>1
<1>4. r.key = key
  OBVIOUS
<1>5. \A i \in 1..(n + 1) : i \in 1..n \/ i = n + 1
  BY <1>3
<1>6. n + 1 \in 1..(n + 1) /\ \A i \in 1..n : i \in 1..(n + 1)
  BY <1>3
<1>7. Keys' = Keys
  BY <1>1, KeysUnchanged
<1>8. PairedKeys' = PairedKeys \cup {key}
  <2>1. PairedKeys' = {regions'[i].key : i \in 1..(n + 1)}
    BY <1>3 DEF PairedKeys
  <2> HIDE DEF r
  <2>2. PairedKeys = {regions[i].key : i \in 1..n}
    BY <1>n DEF PairedKeys
  <2> QED BY <1>3, <1>4, <1>5, <1>6, <2>1, <2>2
<1>9. Built'
  BY <1>1 DEF IInv, Built
<1>10. Listed'
  <2> HIDE DEF r
  <2> QED BY <1>3 DEF Listed
<1>11. Visited'
  <2> HIDE DEF r
  <2>1. \A i \in 1..n : regions[i].key \in Keys \ keys /\ \A k \in keys : KeyBefore(regions[i].key, k)
    BY <1>n DEF IInv, Visited
  <2>2. key \in Keys /\ keys' \subseteq Keys
    BY <1>1 DEF IInv, Visited
  <2>3. \A i \in 1..(n + 1) : /\ regions'[i].key \in Keys \ (keys \ {key})
                               /\ \A k \in keys \ {key} : KeyBefore(regions'[i].key, k)
    BY <1>1, <1>3, <1>4, <1>5, <2>1, <2>2
  <2>4. Len(regions') = n + 1
    BY <1>3
  <2> QED BY <1>1, <1>7, <2>2, <2>3, <2>4 DEF Visited, KeyBefore, LinesBefore
<1>12. Counted'
  <2> DEFINE skipped == (Keys \ keys) \ PairedKeys
  <2>1. key \in Keys /\ key \notin PairedKeys
    BY <1>1 DEF IInv, Visited, PairedKeys
  <2>2. (Keys' \ keys') \ PairedKeys' = skipped
    BY <1>1, <1>7, <1>8
  <2>3. IsFiniteSet(PairedKeys)
    <3>1. IsFiniteSet(Keys) /\ PairedKeys \in SUBSET Keys
      BY KeysFinite DEF IInv, Visited, PairedKeys
    <3> QED BY <3>1, FS_Subset
  <2>4. Cardinality(PairedKeys \cup {key}) = Cardinality(PairedKeys) + 1
    BY <2>1, <2>3, FS_AddElement
  <2>5. counts = [functions |-> Len(object.guest), regions |-> Cardinality(PairedKeys),
                skipped |-> Cardinality(skipped)]
    BY DEF IInv, Counted
  <2> HIDE DEF skipped
  <2>6. counts' = [functions |-> Len(object.guest), regions |-> Cardinality(PairedKeys) + 1,
                 skipped |-> Cardinality(skipped)]
    BY <1>1, <2>5
  <2> QED BY <1>1, <1>8, <2>2, <2>4, <2>6 DEF Counted
<1>13. (\A i \in 1..Len(regions) : RegionRight(i))'
  <2>1. ASSUME NEW i \in 1..n PROVE RegionRight(i)'
    <3>1. RegionRight(i)
      BY <1>n DEF IInv
    <3>2. regions'[i] = regions[i] /\ \A j \in 1..(i - 1) : regions'[j] = regions[j]
      <4>1. \A j \in 1..(i - 1) : j \in 1..n
        BY <1>3
      <4> QED BY <1>3, <4>1
    <3> HIDE DEF r
    <3>3. {j \in 1..(i - 1) : regions'[j].key.function = regions'[i].key.function}
            = {j \in 1..(i - 1) : regions[j].key.function = regions[i].key.function}
      BY <3>2
    <3> QED BY <1>1, <3>1, <3>2, <3>3 DEF RegionRight, Paired, Group, GroupCode
  <2>2. RegionRight(n + 1)'
    <3>1. r.id = <<key.function, key.file, LineLabel(key.lines),
                   Cardinality({j \in 1..n : regions[j].key.function = key.function})>>
      <4>1. DOMAIN regions = 1..n
        BY <1>2, <1>n
      <4>2. {j \in DOMAIN regions : regions[j].key.function = key.function}
              = {j \in 1..n : regions[j].key.function = key.function}
        BY <4>1
      <4>3. r.id = RegionId(key, regions)
        OBVIOUS
      <4> HIDE DEF r
      <4> QED BY <4>2, <4>3, Zenon DEF RegionId
    <3>2. (n + 1) - 1 = n
      BY <1>3
    <3>3. r.guest = GroupCode("guest", key) /\ r.host = GroupCode("host", key)
      OBVIOUS
    <3> HIDE DEF r
    <3>4. {j \in 1..((n + 1) - 1) : regions'[j].key.function = regions'[n + 1].key.function}
            = {j \in 1..n : regions[j].key.function = key.function}
      BY <1>3, <1>4, <3>2
    <3>5. regions'[n + 1] = r
      BY <1>3
    <3>6. r.id = <<key.function, key.file, LineLabel(key.lines),
                   Cardinality({j \in 1..((n + 1) - 1) : regions'[j].key.function = regions'[n + 1].key.function})>>
      BY <3>1, <3>4
    <3>7. Paired(regions[n + 1].key)'
      BY <1>1, <1>4, <3>5 DEF Paired, Group
    <3>8. (regions[n + 1].guest = GroupCode("guest", regions[n + 1].key))'
      BY <1>1, <1>4, <3>3, <3>5 DEF GroupCode, Group
    <3>9. (regions[n + 1].host = GroupCode("host", regions[n + 1].key))'
      BY <1>1, <1>4, <3>3, <3>5 DEF GroupCode, Group
    <3>10. regions'[n + 1].key = key /\ regions'[n + 1].id = r.id
      BY <1>4, <3>5
    <3>11. regions'[n + 1].id
             = <<regions'[n + 1].key.function, regions'[n + 1].key.file,
                 LineLabel(regions'[n + 1].key.lines),
                 Cardinality({j \in 1..((n + 1) - 1) : regions'[j].key.function = regions'[n + 1].key.function})>>
      BY <3>6, <3>10, Zenon
    <3> QED BY <3>7, <3>8, <3>9, <3>11 DEF RegionRight
  <2>3. Len(regions') = n + 1
    BY <1>3
  <2>4. \A i \in 1..(n + 1) : RegionRight(i)'
    BY <1>5, <2>1, <2>2
  <2> QED BY <2>3, <2>4
<1> QED BY <1>9, <1>10, <1>11, <1>12, <1>13 DEF IInv

LEMMA INext ==
    ASSUME IInv, [AlignmentNext]_alignmentVars
    PROVE  IInv'
<1>1. CASE \E key \in keys : Ambiguous(key)
  BY <1>1, AmbiguousKeepsIInv
<1>2. CASE \E key \in keys : Align(key)
  BY <1>2, AlignKeepsIInv
<1>3. CASE UNCHANGED alignmentVars
  <2>1. object' = object /\ blocks' = blocks /\ keys' = keys /\ regions' = regions /\ counts' = counts
    BY <1>3 DEF alignmentVars
  <2>2. Keys' = Keys /\ PairedKeys' = PairedKeys
    BY <2>1, KeysUnchanged DEF PairedKeys
  <2>3. Built' /\ Listed'
    BY <2>1 DEF IInv, Built, Listed
  <2>4. Visited' /\ Counted'
    BY <2>1, <2>2 DEF IInv, Visited, Counted
  <2>5. (\A i \in 1..Len(regions) : RegionRight(i))'
    BY <2>1 DEF IInv, RegionRight, Paired, Group, GroupCode
  <2> QED BY <2>3, <2>4, <2>5 DEF IInv
<1> QED BY <1>1, <1>2, <1>3 DEF AlignmentNext

LEMMA AlwaysIInv == AlignmentSpec => []IInv
<1>1. IInv /\ [AlignmentNext]_alignmentVars => IInv'
  BY INext
<1> QED BY IInit, <1>1, PTL DEF AlignmentSpec

LEMMA LaterOrdinal ==
    ASSUME IInv, NEW i \in 1..Len(regions), NEW j \in 1..Len(regions), i < j
    PROVE  regions[i].id # regions[j].id
<1> SUFFICES ASSUME regions[i].id = regions[j].id PROVE FALSE
  OBVIOUS
<1>1. PICK S : regions \in Seq(S)
  BY DEF IInv, Listed
<1> DEFINE earlier(m) == {k \in 1..(m - 1) : regions[k].key.function = regions[m].key.function}
<1>2. /\ regions[i].id = <<regions[i].key.function, regions[i].key.file,
                           LineLabel(regions[i].key.lines), Cardinality(earlier(i))>>
      /\ regions[j].id = <<regions[j].key.function, regions[j].key.file,
                           LineLabel(regions[j].key.lines), Cardinality(earlier(j))>>
  BY DEF IInv, RegionRight
<1>3. regions[i].key.function = regions[j].key.function /\ Cardinality(earlier(i)) = Cardinality(earlier(j))
  <2> DEFINE a == Cardinality(earlier(i))
             b == Cardinality(earlier(j))
             fi == regions[i].key
             fj == regions[j].key
  <2>1. <<fi.function, fi.file, LineLabel(fi.lines), a>> = <<fj.function, fj.file, LineLabel(fj.lines), b>>
    BY <1>2
  <2> HIDE DEF a, b, fi, fj
  <2>2. a = b /\ fi.function = fj.function
    BY <2>1
  <2> QED BY <2>2 DEF a, b, fi, fj
<1>4. i \in Nat /\ j \in Nat /\ i \in 1..(j - 1) /\ i \notin 1..(i - 1) /\ \A k \in 1..(i - 1) : k \in 1..(j - 1)
  <2>1. PICK n \in Nat : n = Len(regions)
    BY <1>1
  <2>2. i \in 1..n /\ j \in 1..n
    BY <2>1
  <2>3. i \in Nat /\ j \in Nat /\ 1 <= i /\ i <= j - 1
    BY <2>2
  <2>4. i \in 1..(j - 1) /\ i \notin 1..(i - 1)
    BY <2>3
  <2>5. \A k \in 1..(i - 1) : k \in 1..(j - 1)
    BY <2>3
  <2> QED BY <2>3, <2>4, <2>5
<1>5. i \in earlier(j) /\ i \notin earlier(i) /\ earlier(i) \in SUBSET earlier(j)
  BY <1>3, <1>4
<1>6. IsFiniteSet(earlier(j))
  <2>1. 1 \in Int /\ j - 1 \in Int
    BY <1>4
  <2>2. IsFiniteSet(1..(j - 1)) /\ earlier(j) \in SUBSET (1..(j - 1))
    BY <2>1, FS_Interval
  <2> QED BY <2>2, FS_Subset
<1> HIDE DEF earlier
<1> QED BY <1>3, <1>5, <1>6, FS_Subset

\* The ordinal of a region is the number of regions of its function before it, so two
\* regions never share an id, whatever the labels of their lines: VerifiedWindowSet may
\* index by region id (align.py:28, windows.py:19).
THEOREM UniqueIds == AlignmentSpec => []RegionIdsAreUnique
<1>1. ASSUME IInv PROVE RegionIdsAreUnique
  <2>1. ASSUME NEW i \in DOMAIN regions, NEW j \in DOMAIN regions, i # j
        PROVE  regions[i].id # regions[j].id
    <3>1. PICK S : regions \in Seq(S)
      BY <1>1 DEF IInv, Listed
    <3>2. i \in 1..Len(regions) /\ j \in 1..Len(regions) /\ i \in Nat /\ j \in Nat
      BY <3>1
    <3>3. i < j \/ j < i
      BY <2>1, <3>2
    <3> QED BY <1>1, <3>2, <3>3, LaterOrdinal
  <2> QED BY <2>1 DEF RegionIdsAreUnique
<1>2. IInv => RegionIdsAreUnique
  BY <1>1
<1> QED BY <1>2, AlwaysIInv, PTL

LEMMA IInvTypeOK == IInv => AlignmentTypeOK
<1> SUFFICES ASSUME IInv PROVE AlignmentTypeOK
  OBVIOUS
<1>1. IsFiniteSet(Keys) /\ Keys \in SUBSET KeySet
  BY KeysFinite DEF IInv
<1>2. object \in Objects /\ keys \subseteq Keys
  BY DEF IInv, Built, Visited
<1>3. keys # {} => \E key \in keys : IsFirst(key)
  <2>1. keys \in SUBSET KeySet /\ IsFiniteSet(keys)
    BY <1>1, <1>2, FS_Subset
  <2> QED BY <2>1, FirstExists DEF IsFirst
<1>4. \A i \in DOMAIN regions : \A key \in keys : KeyBefore(regions[i].key, key)
  <2>1. DOMAIN regions = 1..Len(regions)
    BY DEF IInv, Listed
  <2> QED BY <2>1 DEF IInv, Visited
<1>5. counts \in [functions : {Len(object.guest)}, regions : Nat, skipped : Nat]
  <2>1. PairedKeys \in SUBSET Keys /\ (Keys \ keys) \ PairedKeys \in SUBSET Keys
    BY DEF IInv, Visited, PairedKeys
  <2>2. Cardinality(PairedKeys) \in Nat /\ Cardinality((Keys \ keys) \ PairedKeys) \in Nat
    BY <1>1, <2>1, FS_Subset, FS_CardinalityType
  <2> QED BY <2>2 DEF IInv, Counted
<1> QED BY <1>2, <1>3, <1>4, <1>5 DEF AlignmentTypeOK

LEMMA IInvBlocks == IInv => BlocksPartitionTheCode
<1> SUFFICES ASSUME IInv, NEW side \in Sides
             PROVE  /\ FlattenSeq([i \in DOMAIN blocks[side] |-> blocks[side][i].instructions])
                         = FlattenSeq(object[side])
                    /\ \A i \in DOMAIN blocks[side] :
                          LET insts == blocks[side][i].instructions
                          IN  /\ \A j \in 1..Len(insts) - 1 : ~insts[j].flow
                              /\ \/ Last(insts).flow
                                 \/ i = Len(blocks[side])
                                 \/ blocks[side][i + 1].function # blocks[side][i].function
  BY DEF BlocksPartitionTheCode
<1> DEFINE bs == blocks[side]
<1>1. /\ bs \in Seq(BlockSet)
      /\ BlocksRight(bs, Len(object[side]))
      /\ FlattenSeq(Insts(bs)) = FlattenSeq(object[side])
  BY BuiltBlocks DEF IInv
<1>2. FlattenSeq([i \in DOMAIN bs |-> bs[i].instructions]) = FlattenSeq(object[side])
  BY <1>1 DEF Insts
<1> HIDE DEF bs
<1>3. DOMAIN bs = 1..Len(bs)
  BY <1>1
<1>4. ASSUME NEW i \in DOMAIN bs
      PROVE  /\ \A j \in 1..Len(bs[i].instructions) - 1 : ~bs[i].instructions[j].flow
             /\ \/ Last(bs[i].instructions).flow
                \/ i = Len(bs)
                \/ bs[i + 1].function # bs[i].function
  BY <1>1, <1>3 DEF BlocksRight, Last
<1> QED BY <1>2, <1>4 DEF bs

LEMMA GroupOfOne ==
    ASSUME IInv, NEW side \in Sides, NEW key, Cardinality(Group(side, key)) = 1
    PROVE  /\ Min(Group(side, key)) \in DOMAIN blocks[side]
           /\ Group(side, key) = {Min(Group(side, key))}
<1> DEFINE G == Group(side, key)
<1>1. blocks[side] \in Seq(BlockSet)
  BY BuiltBlocks DEF IInv
<1>2. PICK n \in Nat : DOMAIN blocks[side] = 1..n
  BY <1>1
<1>3. G \in SUBSET (1..n) /\ G \in SUBSET Nat
  <2>1. G \in SUBSET (1..n)
    BY <1>2 DEF Group
  <2> HIDE DEF G
  <2> QED BY <2>1
<1>4. IsFiniteSet(G)
  <2>1. 1 \in Int /\ n \in Int
    OBVIOUS
  <2> HIDE DEF G
  <2> QED BY <1>3, <2>1, FS_Interval, FS_Subset
<1> HIDE DEF G
<1>5. PICK m : G = {m}
  BY <1>4, FS_Singleton DEF G
<1>6. Min(G) \in G
  BY <1>3, <1>5, MinIsLeast
<1> QED BY <1>2, <1>3, <1>5, <1>6 DEF G

LEMMA IInvUnambiguous == IInv => RegionsAreUnambiguous
<1> SUFFICES ASSUME IInv, NEW i \in DOMAIN regions, NEW side \in Sides, NEW n \in DOMAIN blocks[side]
             PROVE  (SourceKey(blocks[side][n]) = regions[i].key)
                      <=> blocks[side][n].instructions = regions[i][side]
  BY DEF RegionsAreUnambiguous
<1> DEFINE bs == blocks[side]
           key == regions[i].key
           m == Min(Group(side, key))
<1>1. i \in 1..Len(regions)
  BY DEF IInv, Listed
<1>2. Paired(key) /\ regions[i][side] = GroupCode(side, key) /\ key \in Keys
  BY <1>1 DEF IInv, RegionRight, Sides, Visited
<1>3. Cardinality(Group(side, key)) = 1
  BY <1>2 DEF Paired, Sides
<1>4. m \in DOMAIN bs /\ Group(side, key) = {m}
  <2> HIDE DEF m, bs, key
  <2> QED BY <1>3, GroupOfOne DEF m, bs
<1>5. SourceKey(bs[m]) = key /\ regions[i][side] = bs[m].instructions
  BY <1>2, <1>4 DEF Group, GroupCode
<1>6. bs \in Seq(BlockSet) /\ BlocksRight(bs, Len(object[side]))
  BY BuiltBlocks DEF IInv
<1> HIDE DEF m, bs
<1>7. DOMAIN bs = 1..Len(bs) /\ n \in DOMAIN bs
  BY <1>6 DEF bs
<1>8. CASE SourceKey(bs[n]) = key
  <2>1. n \in Group(side, key)
    BY <1>7, <1>8 DEF Group, bs
  <2>2. n = m
    BY <1>4, <2>1
  <2> QED BY <1>5, <1>8, <2>2 DEF bs
<1>9. ASSUME bs[n].instructions = regions[i][side] PROVE SourceKey(bs[n]) = key
  <2> DEFINE insts == bs[n].instructions
  <2>1. /\ insts # <<>> /\ insts \in Seq(OfFunction(bs[n].function))
        /\ bs[m].instructions \in Seq(OfFunction(bs[m].function))
    BY <1>4, <1>6, <1>7 DEF BlocksRight
  <2>2. bs[m].instructions = insts
    BY <1>5, <1>9
  <2> HIDE DEF insts
  <2>3. 1 \in 1..Len(insts)
    BY <2>1
  <2>4. insts[1] \in OfFunction(bs[n].function) /\ insts[1] \in OfFunction(bs[m].function)
    BY <2>1, <2>2, <2>3
  <2>5. bs[n].function = bs[m].function
    BY <2>4 DEF OfFunction
  <2>6. Locations(bs[n]) = Locations(bs[m])
    BY <2>2 DEF Locations, insts
  <2>7. SourceKey(bs[n]) = SourceKey(bs[m])
    BY <2>5, <2>6, Zenon DEF SourceKey
  <2> QED BY <1>5, <2>7
<1> QED BY <1>8, <1>9 DEF bs

\* Every block of either object is in its function's code, cut at control flow; a
\* region pairs the one block of either side that has its source lines, by its code
\* as well as by its lines; the groups are visited in the order of their keys, and
\* at the end every group was paired or counted as skipped (blocks.py:26, align.py:22).
THEOREM AlignedBlocks == AlignmentSpec => []BlocksAreAligned
<1>1. IInv => LinedBlocksAreAccounted
  <2> SUFFICES ASSUME IInv, keys = {}
               PROVE  LET paired == {regions[i].key : i \in DOMAIN regions}
                      IN  /\ paired \subseteq Keys
                          /\ counts.skipped = Cardinality(Keys \ paired)
                          /\ counts.regions = Cardinality(paired)
    BY DEF LinedBlocksAreAccounted
  <2>1. {regions[i].key : i \in DOMAIN regions} = PairedKeys
    BY DEF IInv, Listed, PairedKeys
  <2>2. PairedKeys \subseteq Keys /\ Keys \ keys = Keys
    BY DEF IInv, Visited, PairedKeys
  <2>3. counts.skipped = Cardinality(Keys \ PairedKeys) /\ counts.regions = Cardinality(PairedKeys)
    BY <2>2 DEF IInv, Counted
  <2> QED BY <2>1, <2>2, <2>3
<1>2. IInv => BlocksAreAligned
  BY <1>1, IInvTypeOK, IInvBlocks, IInvUnambiguous DEF BlocksAreAligned
<1> QED BY <1>2, AlwaysIInv, PTL
=============================================================================
