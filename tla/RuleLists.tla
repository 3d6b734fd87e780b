-------------------------------- MODULE RuleLists --------------------------------
(***************************************************************************)
(* The list of rules after consolidation, in the kernel pipeline and in    *)
(* the extraction pipeline.  A rule of a list carries its id.              *)
(***************************************************************************)
EXTENDS Sequences, SequencesExt

\* The rules that are not subsumed, in their order.
Remaining(rules, subsumedIds) ==
    FoldLeft(LAMBDA left, r : IF r.id \in subsumedIds THEN left ELSE Append(left, r), <<>>, rules)
=============================================================================
