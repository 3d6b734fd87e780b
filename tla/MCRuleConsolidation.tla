------------------------- MODULE MCRuleConsolidation -------------------------
(***************************************************************************)
(* Rules with two leaves in the guest and one in the host: immediates that *)
(* are one or two, negated or shifted in the host, or zero already, and    *)
(* registers in both numberings.                                           *)
(***************************************************************************)
EXTENDS RuleConsolidation

MCForms == {"plain", "neg", "shl"}

Imm(form, id) == [form |-> form, ns |-> "imm", key |-> id]
Num(form) == [form |-> form, ns |-> "num", key |-> 0]
Reg(id) == [form |-> "plain", ns |-> "reg", key |-> id]

Firsts == {Imm("plain", 1), Imm("plain", 2), Num("plain")}
Seconds == {Imm("plain", 2), Num("plain"), Reg(1), Reg(2)}
Hosts == {Imm("neg", 1), Imm("shl", 2), Num("plain"), Num("shl"), Reg(1)}

\* The host has no placeholder the guest has not.
Bound(rule) ==
    \A l \in Range(rule.host) : l.ns # "num" => \E g \in Range(rule.guest) : g.ns = l.ns /\ g.key = l.key

MCRuleSet ==
    {rule \in {[guest |-> <<a, b>>, host |-> <<c>>] : a \in Firsts, b \in Seconds, c \in Hosts} : Bound(rule)}
=============================================================================
