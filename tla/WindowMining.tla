----------------------------- MODULE WindowMining -----------------------------
(***************************************************************************)
(* ExtractionPipeline.run: the staged search for rule windows.  A region   *)
(* is a pair of instruction sequences; a window pairs an interval of each. *)
(* Stages go from small windows to large ones; a window whose two sides    *)
(* are covered by smaller verified windows is pruned, the others are       *)
(* turned into candidates where a surface can be inferred, and verified.   *)
(*                                                                         *)
(* Inference and verification are the environment: any window of MayBind   *)
(* may become a candidate, any candidate may pass.                         *)
(***************************************************************************)
EXTENDS Naturals, FiniteSets, FiniteSetsExt

CONSTANTS
    Regions,    \* number of alignment regions, processed in order
    GuestLen,   \* region -> number of guest instructions
    HostLen,    \* region -> number of host instructions
    GuestSizes, \* guest_min..guest_max
    HostSizes,  \* host_min..host_max
    Verify,     \* the verify flag of run()
    MayBind     \* the windows surface inference may accept

VARIABLES
    region,     \* the region being mined
    remaining,  \* stages of the region that are still to run
    phase,      \* what comes next
    staged,     \* windows of the stage that survived pruning
    emitted,    \* the (window, candidate) pairs of the stage
    verified,   \* VerifiedWindowSet: windows whose report passed
    diag,       \* MiningDiagnostics
    pruned,     \* history: windows skipped as subsumed
    kept        \* history: windows handed to surface inference

vars == <<region, remaining, phase, staged, emitted, verified, diag, pruned, kept>>

ASSUME SizesAssumption ==
    /\ GuestSizes \subseteq Nat \ {0}
    /\ HostSizes \subseteq Nat \ {0}

ASSUME RegionsAssumption ==
    /\ Regions \in Nat
    /\ GuestLen \in [1..Regions -> Nat]
    /\ HostLen \in [1..Regions -> Nat]

ASSUME VerifyAssumption == Verify \in BOOLEAN

(***************************************************************************)
(* Windows and stages.                                                     *)
(***************************************************************************)
Stages == GuestSizes \X HostSizes

\* stage_order(): by total size, then guest size, then host size.
Before_GuestFirst(s, t) ==   \* mutant: sorts by guest size first
    s[1] < t[1] \/ (s[1] = t[1] /\ s[2] < t[2])

Before(s, t) ==
    \/ s[1] + s[2] < t[1] + t[2]
    \/ s[1] + s[2] = t[1] + t[2] /\ s[1] < t[1]

First(S) == {s \in S : \A t \in S \ {s} : Before(s, t)}

\* The intervals of n consecutive positions among len instructions, as
\* <<first, end>> with end exclusive: the window's address span.
Intervals(len, n) == {<<i, i + n>> : i \in {j \in 0..len : j + n <= len}}

\* enumerate_region(), the windows of one stage.
Windows(r, s) ==
    {[region |-> r, g |-> g, h |-> h] :
        g \in Intervals(GuestLen[r], s[1]), h \in Intervals(HostLen[r], s[2])}

RegionWindows(r) == UNION {Windows(r, s) : s \in Stages}

Area(w) == (w.g[2] - w.g[1]) + (w.h[2] - w.h[1])

(***************************************************************************)
(* VerifiedWindowSet.covers.                                               *)
(***************************************************************************)
Smaller(V, w) == {v \in V : v.region = w.region /\ Area(v) < Area(w)}

\* _covers_span: from the target's start, follow the shortest span that starts
\* at the cursor; covered when the cursor meets the target's end.
CoversSpan_Overshoot(target, spans) ==   \* mutant: cursor >= end
    LET reached[c \in 0..Max({target[2]} \cup {s[2] : s \in spans})] ==
            \/ c >= target[2]
            \/ LET ends == {s[2] : s \in {t \in spans : t[1] = c}}
               IN  ends # {} /\ reached[Min(ends)]
    IN  reached[target[1]]

CoversSpan(target, spans) ==
    LET reached[c \in 0..Max({target[2]} \cup {s[2] : s \in spans})] ==
            \/ c = target[2]
            \/ LET ends == {s[2] : s \in {t \in spans : t[1] = c}}
               IN  ends # {} /\ reached[Min(ends)]
    IN  reached[target[1]]

Covers(V, w) ==
    /\ CoversSpan(w.g, {v.g : v \in Smaller(V, w)})
    /\ CoversSpan(w.h, {v.h : v \in Smaller(V, w)})

(***************************************************************************)
(* run().                                                                  *)
(***************************************************************************)
NoCounts == [enumerated |-> 0, emitted |-> 0, skipped |-> 0, verified |-> 0, pass |-> 0]

Init ==
    /\ region = 1
    /\ remaining = {}
    /\ phase = "enumerate"
    /\ staged = {}
    /\ emitted = {}
    /\ verified = {}
    /\ diag = NoCounts
    /\ pruned = {}
    /\ kept = {}

\* enumerate_region() records every window of every stage.
Enumerate ==
    /\ phase = "enumerate"
    /\ region <= Regions
    /\ remaining' = Stages
    /\ diag' = [diag EXCEPT !.enumerated = @ + Cardinality(RegionWindows(region))]
    /\ phase' = "prune"
    /\ UNCHANGED <<region, staged, emitted, verified, pruned, kept>>

\* prune_composites() on the windows of the next stage.
Prune ==
    /\ phase = "prune"
    /\ \E s \in First(remaining) :
        LET windows  == Windows(region, s)
            subsumed == {w \in windows : Covers(verified, w)}
        IN  /\ remaining' = remaining \ {s}
            /\ staged' = windows \ subsumed
            /\ pruned' = pruned \cup subsumed
            /\ kept' = kept \cup (windows \ subsumed)
            /\ diag' = [diag EXCEPT !.skipped = @ + Cardinality(subsumed)]
    /\ phase' = "infer"
    /\ UNCHANGED <<region, emitted, verified>>

\* SurfaceInferer.infer for each staged window: a candidate or a skip reason.
Infer ==
    /\ phase = "infer"
    /\ \E accepted \in SUBSET (staged \cap MayBind) :
        /\ emitted' = accepted
        /\ diag' = [diag EXCEPT !.emitted = @ + Cardinality(accepted),
                                !.skipped = @ + Cardinality(staged \ accepted)]
    /\ phase' = IF Verify THEN "verify" ELSE "next"
    /\ UNCHANGED <<region, remaining, staged, verified, pruned, kept>>

\* verify_many() and the loop over its reports.
VerifyStage_All ==   \* mutant: every report is added, whatever its status
    /\ phase = "verify"
    /\ \E passed \in SUBSET emitted :
        /\ verified' = verified \cup emitted
        /\ diag' = [diag EXCEPT !.verified = @ + Cardinality(emitted),
                                !.pass = @ + Cardinality(passed)]
    /\ phase' = "next"
    /\ UNCHANGED <<region, remaining, staged, emitted, pruned, kept>>

VerifyStage ==
    /\ phase = "verify"
    /\ \E passed \in SUBSET emitted :
        /\ verified' = verified \cup passed
        /\ diag' = [diag EXCEPT !.verified = @ + Cardinality(emitted),
                                !.pass = @ + Cardinality(passed)]
    /\ phase' = "next"
    /\ UNCHANGED <<region, remaining, staged, emitted, pruned, kept>>

\* The loop heads: the next stage, the next region, or the end.
NextStage ==
    /\ phase = "next"
    /\ remaining # {}
    /\ phase' = "prune"
    /\ UNCHANGED <<region, remaining, staged, emitted, verified, diag, pruned, kept>>

NextRegion_Early ==   \* mutant: leaves the region after any stage
    /\ phase = "next"
    /\ region' = region + 1
    /\ phase' = "enumerate"
    /\ UNCHANGED <<remaining, staged, emitted, verified, diag, pruned, kept>>

NextRegion ==
    /\ phase = "next"
    /\ remaining = {}
    /\ region' = region + 1
    /\ phase' = "enumerate"
    /\ UNCHANGED <<remaining, staged, emitted, verified, diag, pruned, kept>>

Finished ==
    /\ phase = "enumerate"
    /\ region > Regions
    /\ UNCHANGED vars

Step ==
    Enumerate \/ Prune \/ Infer \/ VerifyStage \/ NextStage \/ NextRegion

Next == Step \/ Finished

Spec == Init /\ [][Next]_vars

(***************************************************************************)
(* Properties.                                                             *)
(***************************************************************************)
\* A window lies within its region and is not empty.
IsWindow(w) ==
    /\ w.region \in 1..Regions
    /\ w.g[1] < w.g[2] /\ w.g[2] <= GuestLen[w.region]
    /\ w.h[1] < w.h[2] /\ w.h[2] <= HostLen[w.region]

TypeOK ==
    /\ region \in 1..(Regions + 1)
    /\ remaining \subseteq Stages
    /\ phase \in {"enumerate", "prune", "infer", "verify", "next"}
    /\ \A w \in staged \cup emitted \cup verified \cup pruned \cup kept : IsWindow(w)
    /\ verified \subseteq kept
    /\ \A c \in DOMAIN NoCounts : diag[c] \in Nat

\* Pruning is decided once per window, before most windows are verified, and
\* later verdicts do not change a decision: at any later time the pruned windows
\* are exactly the decided ones that covers() accepts on the verified set of that
\* time.  It is the greedy scan that is meant: a kept window may still be made of
\* smaller verified ones the scan does not find.
DecisionsAreFinal ==
    /\ \A w \in pruned : Covers(verified, w)
    /\ \A w \in kept : ~Covers(verified, w)

\* A target is tiled by spans when cut points split it into pieces that are all
\* among the spans: no gap, no overlap.
Tiled(target, spans) ==
    \E cuts \in SUBSET (target[1]..target[2]) :
        /\ {target[1], target[2]} \subseteq cuts
        /\ \A c \in cuts \ {target[2]} :
              <<c, Min({d \in cuts : d > c})>> \in spans

\* The greedy scan of _covers_span is sound: each side of a pruned window is
\* tiled, in order, by the sides of smaller windows of the same region that
\* the verifier passed.
PrunedSidesAreTiled ==
    \A w \in pruned :
        LET parts == {v \in verified : v.region = w.region /\ Area(v) < Area(w)}
        IN  Tiled(w.g, {v.g : v \in parts}) /\ Tiled(w.h, {v.h : v \in parts})

\* The counters agree with each other and with the windows themselves when a
\* region is finished: a window is skipped or emitted, an emitted one is
\* verified when verification is on, and passes are what pruning relies on.
DiagnosticsBalance ==
    phase = "enumerate" =>
        /\ diag.enumerated = diag.emitted + diag.skipped
        /\ diag.verified = IF Verify THEN diag.emitted ELSE 0
        /\ diag.pass = Cardinality(verified)

\* Every window of a finished region was decided, once.
EveryWindowDecided ==
    /\ pruned \cap kept = {}
    /\ phase = "enumerate" =>
        pruned \cup kept = UNION {RegionWindows(r) : r \in 1..(region - 1)}

=============================================================================
