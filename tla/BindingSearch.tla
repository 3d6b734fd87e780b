---------------------------- MODULE BindingSearch ----------------------------
(***************************************************************************)
(* What a register-binding search promises its caller, whatever strategy   *)
(* it uses.  `truth` is the set of mappings that are really equivalent;    *)
(* `alive` the mappings the search has not refuted.  A search may refute,  *)
(* accept a true mapping, report that none exists once nothing is alive,   *)
(* or give up (the positional fallback).  It never refutes a true mapping. *)
(***************************************************************************)
CONSTANT Mapping

VARIABLES truth, alive, status, bound

vars == <<truth, alive, status, bound>>

Init ==
    /\ alive \in SUBSET Mapping
    /\ truth \in SUBSET alive
    /\ status = "searching"
    /\ bound = {}

\* Some alive mappings turn out not to be equivalent.
Refute ==
    /\ status = "searching"
    /\ alive' \in SUBSET alive
    /\ alive' # alive
    /\ truth \subseteq alive'
    /\ UNCHANGED <<truth, status, bound>>

\* A mapping is proved: it becomes the answer.
Accept ==
    /\ status = "searching"
    /\ \E m \in truth : bound' = {m}
    /\ status' = "bound"
    /\ UNCHANGED <<truth, alive>>

\* Nothing is left: the answer is that no mapping works.
Exhaust ==
    /\ status = "searching"
    /\ alive = {}
    /\ status' = "unsat"
    /\ UNCHANGED <<truth, alive, bound>>

\* The search is abandoned and says so.
GiveUp ==
    /\ status = "searching"
    /\ status' = "fallback"
    /\ UNCHANGED <<truth, alive, bound>>

Next == Refute \/ Accept \/ Exhaust \/ GiveUp

Spec == Init /\ [][Next]_vars

(***************************************************************************)
(* The promise: an answer is right.                                        *)
(***************************************************************************)
\* "unsat" is said only when no mapping at all is equivalent, and a bound
\* mapping is an equivalent one: what callers of solve() rely on.
AnswerIsRight ==
    /\ status = "unsat" => truth = {}
    /\ status = "bound" => bound # {} /\ bound \subseteq truth

\* An honest search never refutes a true mapping, hence its answer is right.
Honest == truth \subseteq alive /\ AnswerIsRight
=============================================================================
