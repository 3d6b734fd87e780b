------------------------------- MODULE Verdict -------------------------------
(***************************************************************************)
(* What a caller may rely on when it verifies one candidate: "pass" is     *)
(* said only of candidates whose sides agree, "fail" only of candidates    *)
(* that were seen to differ, and the verifier may always give up.          *)
(***************************************************************************)
VARIABLES
    agree,    \* do the two sides agree on everything the candidate demands?
    differ,   \* do they differ for some inputs the verifier looks at?
    verdict   \* "pending" or the status of the report

vars == <<agree, differ, verdict>>

Init ==
    /\ agree \in BOOLEAN
    /\ differ \in BOOLEAN
    /\ verdict = "pending"

Decide(status) ==
    /\ verdict = "pending"
    /\ verdict' = status
    /\ UNCHANGED <<agree, differ>>

Pass == agree /\ Decide("pass")

Fail == differ /\ Decide("fail")

GiveUp == \E status \in {"unsupported", "error"} : Decide(status)

Next == Pass \/ Fail \/ GiveUp

Spec == Init /\ [][Next]_vars
=============================================================================
