------------------------------ MODULE RuleLabels ------------------------------
(***************************************************************************)
(* Branch targets of a rule become labels (_replace_labels_ast and         *)
(* labels_are_consistent).  A target inside the region is known by its     *)
(* source line, one outside of it only by its position among those of its  *)
(* side.                                                                   *)
(***************************************************************************)
EXTENDS Integers, Sequences, FiniteSets, SequencesExt

CONSTANTS
    Lines,       \* the source lines of a region
    MaxBranches  \* branches with a target in one fragment

Unresolved == "no line"

ASSUME LinesAreResolved == Unresolved \notin Lines
ASSUME MaxBranchesIsNat == MaxBranches \in Nat

Targets == UNION {[1 .. n -> Lines \cup {Unresolved}] : n \in 0 .. MaxBranches}

VARIABLES guestTargets, hostTargets, labelStage, labelBySrc, posLabel, nextId, guestIds, hostIds, labelResult
labelMaps == <<labelBySrc, posLabel, nextId>>
labelsVars == <<guestTargets, hostTargets, labelStage, labelMaps, guestIds, hostIds, labelResult>>

LabelsInit ==
    /\ guestTargets \in Targets /\ hostTargets \in Targets
    /\ labelStage = "guest" /\ labelBySrc = <<>> /\ posLabel = <<>> /\ nextId = 1
    /\ guestIds = <<>> /\ hostIds = <<>> /\ labelResult = "none"

\* Mutant: the counter of the side is not advanced.
Position_Stuck(targets, n) == 1

\* How many targets without a line there are up to the n-th.
Position(targets, n) == Cardinality({m \in 1 .. n : targets[m] = Unresolved})

\* The label that the tables have for the n-th target of a side, if any.
\* posLabel grows by one entry at a time, so it is a sequence.
Known(targets, n) ==
    IF targets[n] = Unresolved THEN {posLabel[p] : p \in {Position(targets, n)} \cap DOMAIN posLabel}
    ELSE {labelBySrc[line] : line \in {targets[n]} \cap DOMAIN labelBySrc}

LabelGuest ==
    LET n == Len(guestIds) + 1 IN
    /\ labelStage = "guest" /\ n <= Len(guestTargets)
    /\ \/ \E id \in Known(guestTargets, n) : guestIds' = Append(guestIds, id) /\ UNCHANGED labelMaps
       \/ /\ Known(guestTargets, n) = {}
          /\ guestIds' = Append(guestIds, nextId) /\ nextId' = nextId + 1
          /\ IF guestTargets[n] = Unresolved THEN posLabel' = Append(posLabel, nextId) /\ UNCHANGED labelBySrc
             ELSE /\ labelBySrc' = [line \in DOMAIN labelBySrc \cup {guestTargets[n]} |->
                                      IF line = guestTargets[n] THEN nextId ELSE labelBySrc[line]]
                  /\ UNCHANGED posLabel
    /\ UNCHANGED <<guestTargets, hostTargets, labelStage, hostIds, labelResult>>

GuestDone ==
    /\ labelStage = "guest" /\ Len(guestIds) = Len(guestTargets)
    /\ labelStage' = "host" /\ UNCHANGED <<guestTargets, hostTargets, labelMaps, guestIds, hostIds, labelResult>>

\* A line only the host has gets a label of its own each time: it is not remembered.
LabelHost ==
    LET n == Len(hostIds) + 1 IN
    /\ labelStage = "host" /\ n <= Len(hostTargets)
    /\ \/ \E id \in Known(hostTargets, n) : hostIds' = Append(hostIds, id) /\ UNCHANGED labelMaps
       \/ /\ Known(hostTargets, n) = {}
          /\ hostIds' = Append(hostIds, nextId) /\ nextId' = nextId + 1 /\ UNCHANGED labelBySrc
          /\ posLabel' = IF hostTargets[n] = Unresolved THEN Append(posLabel, nextId) ELSE posLabel
    /\ UNCHANGED <<guestTargets, hostTargets, labelStage, guestIds, labelResult>>

Consistent == Range(guestIds) = Range(hostIds)

Check ==
    /\ labelStage = "host" /\ Len(hostIds) = Len(hostTargets)
    /\ labelStage' = "done"
    /\ labelResult' = IF Consistent THEN "labelled" ELSE "mismatched_branch_targets"
    /\ UNCHANGED <<guestTargets, hostTargets, labelMaps, guestIds, hostIds>>

LabelsNext == LabelGuest \/ GuestDone \/ LabelHost \/ Check
LabelsSpec == LabelsInit /\ [][LabelsNext]_labelsVars
-----------------------------------------------------------------------------
(***************************************************************************)
(* Properties.                                                             *)
(***************************************************************************)
\* Labels are numbered without gaps.
LabelsTypeOK ==
    /\ Range(guestIds) \cup Range(hostIds) = 1 .. nextId - 1
    /\ Range(labelBySrc) \cup Range(posLabel) \subseteq 1 .. nextId - 1
    /\ Len(guestIds) <= Len(guestTargets) /\ Len(hostIds) <= Len(hostTargets)

\* All targets with their labels: what a target is, is its line or its position.
Place(targets, n) == IF targets[n] = Unresolved THEN <<Unresolved, Cardinality({m \in 1 .. n : targets[m] = Unresolved})>>
                     ELSE <<targets[n], 0>>
Placed == {<<Place(guestTargets, n), guestIds[n]>> : n \in DOMAIN guestIds}
          \cup {<<Place(hostTargets, n), hostIds[n]>> : n \in DOMAIN hostIds}

\* In a rule that passes the check two branches have one label exactly when they go to
\* one line, or are at one position of those that leave the region.
LabelsFollowPlaces ==
    labelResult = "labelled" => \A t, u \in Placed : (t[1] = u[1]) <=> (t[2] = u[2])

\* The check accepts exactly the windows whose sides go to the same places.
Places(targets) == {Place(targets, n) : n \in DOMAIN targets}
AcceptsSamePlaces ==
    labelStage = "done" => ((labelResult = "labelled") <=> (Places(guestTargets) = Places(hostTargets)))

\* Branches share a label exactly when they go to one place, and exactly the windows
\* whose sides go to the same places are accepted.
LabelsAreSound == LabelsTypeOK /\ LabelsFollowPlaces /\ AcceptsSamePlaces

=============================================================================
