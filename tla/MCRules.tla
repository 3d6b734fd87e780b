-------------------------------- MODULE MCRules --------------------------------
(***************************************************************************)
(* The passes a candidate goes through in RuleGeneralizer.generate, on     *)
(* small instances, and the consolidation of the rules they build.  A      *)
(* behaviour runs one pass of Passes from its beginning to its end; the    *)
(* variables of the other passes are off.                                  *)
(***************************************************************************)
EXTENDS MCRuleRewriting, MCRuleImmediates, MCRuleConsolidation, RuleLabels, FixedRoles

CONSTANT Passes

-----------------------------------------------------------------------------
(* Every pair of fragments with up to three branches over two lines of the *)
(* region and the outside.                                                 *)
LabelsOff == LabelsInit /\ guestTargets = <<>> /\ hostTargets = <<>>

-----------------------------------------------------------------------------
(* Fragments of up to three instructions before a shift: moves between     *)
(* whole registers and their low or high parts, additions, a constant, and *)
(* one that reads a register its text does not name.                       *)
PlansOff ==
    /\ frag = <<>> /\ side = "host" /\ inputs = {} /\ reading = 1 /\ producers = {}
    /\ sources = {} /\ views = {} /\ planResult = "planning"

Wide == {0, 1}
Count == [fam |-> "c", bytes |-> {0}]
Whole(f) == [fam |-> f, bytes |-> Wide]
Low(f) == [fam |-> f, bytes |-> {0}]
High(f) == [fam |-> f, bytes |-> {1}]

Op(w, rs) == [reads |-> rs, writes |-> {w}, implicit |-> {}]
Shift == Op(Whole("a"), {Whole("a"), Count})

Moves ==
    {Op(w, {r}) : w \in {Whole("c"), Whole("s")}, r \in {Whole("s"), Whole("d")}}
    \cup {Op(w, {r}) : w \in {Low("c"), High("c"), Low("s")}, r \in {Low("s"), Low("d"), High("c")}}
    \cup {Op(Whole("c"), {}), Op(Whole("d"), {Whole("s")}), Op(Whole("c"), {Whole("c"), Whole("s")}), Shift,
          [Op(Whole("c"), {Whole("d")}) EXCEPT !.implicit = {Whole("d")}]}
Few == {Op(Whole("s"), {Whole("d")}), Op(Low("s"), {Low("d")}), Op(Whole("c"), {Whole("s")}),
        Op(Low("c"), {Low("s")}), Op(High("c"), {Low("d")}), Shift}

Before == (UNION {[1 .. n -> Moves] : n \in 0 .. 2}) \cup [1 .. 3 -> Few]
MCPlanFragments == {Append(b, Shift) : b \in Before}
MCPlanInputs == {{}, {Whole("s"), Whole("a")}, {Whole("s"), Whole("d")}, {Whole("c"), Whole("s"), Low("d")}}

-----------------------------------------------------------------------------

VARIABLE pass

AllPasses == {"rewriting", "immediates", "labels", "fixed roles", "consolidation"}

OffExcept(p) ==
    /\ IF p = "rewriting" THEN TRUE ELSE RewritingOff
    /\ IF p = "immediates" THEN TRUE ELSE ImmediatesOff
    /\ IF p = "labels" THEN TRUE ELSE LabelsOff
    /\ IF p = "fixed roles" THEN TRUE ELSE PlansOff
    /\ Init

StillExcept(p) ==
    /\ UNCHANGED pass
    /\ IF p = "rewriting" THEN TRUE ELSE UNCHANGED rewritingVars
    /\ IF p = "immediates" THEN TRUE ELSE UNCHANGED immediatesVars
    /\ IF p = "labels" THEN TRUE ELSE UNCHANGED labelsVars
    /\ IF p = "fixed roles" THEN TRUE ELSE UNCHANGED plansVars
    /\ IF p = "consolidation" THEN TRUE ELSE UNCHANGED vars

RulesInit ==
    /\ pass \in Passes
    /\ \/ pass = "rewriting" /\ Rewriting!Init /\ OffExcept("rewriting")
       \/ pass = "immediates" /\ Immediates!Init /\ OffExcept("immediates")
       \/ pass = "labels" /\ LabelsInit /\ OffExcept("labels")
       \/ pass = "fixed roles" /\ PlansInit /\ OffExcept("fixed roles")
       \/ pass = "consolidation" /\ OffExcept("consolidation")

RulesNext ==
    \/ pass = "rewriting" /\ Rewriting!Next /\ StillExcept("rewriting")
    \/ pass = "immediates" /\ Immediates!Next /\ StillExcept("immediates")
    \/ pass = "labels" /\ LabelsNext /\ StillExcept("labels")
    \/ pass = "fixed roles" /\ PlansNext /\ StillExcept("fixed roles")
    \/ pass = "consolidation" /\ Next /\ StillExcept("consolidation")

rulesVars ==
    <<pass, rewritingVars, immediatesVars, labelsVars, plansVars, vars>>

RulesSpec == RulesInit /\ [][RulesNext]_rulesVars

-----------------------------------------------------------------------------

(* Guest and host of an emitted rule do the same to every output from the  *)
(* same placeholders, a pair goes by one placeholder on both sides, and a  *)
(* parameter that is no output has its old value when the host is done.    *)
RuleContract ==
    pass = "rewriting" =>
        /\ Rewriting!TypeOK
        /\ Rewriting!Contract /\ Rewriting!BoundPairsAgree /\ Rewriting!DeadWritesUndone

(* The first of these alone: "if the guest and host share the same         *)
(* concrete values for all placeholders [...], then executing the guest    *)
(* fragment produces the same observable state as executing the host       *)
(* fragment" (docs/rule-format.md:320).                                    *)
GuestAndHostAgree == pass = "rewriting" => Rewriting!Contract

(* A rule put back on the numbers it was learned from is the window again, *)
(* and guest and host do the same for every value, except of a rule the    *)
(* parameterized verifier cannot evaluate in three cases: immediates equal *)
(* by accident, a number in the opcodes of the host without a movzx, and a *)
(* mov with bits in the field of its movk.                                 *)
ImmediatesAreSound ==
    pass = "immediates" =>
        Immediates!TypeOK /\ Immediates!InstantiatesBack /\ Immediates!SoundButForKnown

(* The same without the proviso, as docs/rule-generalization.md has it.    *)
ImmediatesAlwaysSound == pass = "immediates" => Immediates!Sound

=============================================================================
