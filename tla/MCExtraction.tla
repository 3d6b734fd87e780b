----------------------------- MODULE MCExtraction -----------------------------
(***************************************************************************)
(* From two objects to candidates, on small instances: the regions of a    *)
(* pair of objects, and the windows of two regions.  A behaviour runs one  *)
(* of the two: the miner takes a region by its id and its instructions,    *)
(* and does not look at what it was made of.                               *)
(***************************************************************************)
EXTENDS MCWindowMining, MCAlignment

VARIABLE part

ExtractionInit ==
    /\ Init /\ AlignmentInit
    /\ part \in {"alignment", "mining"}
    /\ part = "mining" => object = SmallObject

ExtractionNext ==
    \/ part = "alignment" /\ AlignmentNext /\ UNCHANGED <<part, vars>>
    \/ part = "mining" /\ Next /\ UNCHANGED <<part, alignmentVars>>

ExtractionSpec == ExtractionInit /\ [][ExtractionNext]_<<part, vars, alignmentVars>>

=============================================================================
