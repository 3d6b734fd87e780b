-------------------------- MODULE RuleConsolidation --------------------------
(***************************************************************************)
(* From candidate rules to the rules of a run: repeats are refused by      *)
(* fingerprint (rules/_fingerprint.py, generalization/deduplicate.py),     *)
(* rules that are instances of others are removed at the end               *)
(* (consolidate_rules, rules/ast_transform.py), and the counters of        *)
(* RuleDiagnostics follow.                                                 *)
(*                                                                         *)
(* A rule is what the fingerprint visits: on each side a sequence of       *)
(* leaves [form, ns, key].  The form is everything around the leaf that is *)
(* compared as it is (mnemonic, operand, syntax); "neg" is a negated and   *)
(* "shl" a derived immediate.  A leaf of the name space "num" is a literal *)
(* and its key the number; in the others the key is the placeholder's.     *)
(* The three spellings of the reserved literal are the number 0.           *)
(***************************************************************************)
EXTENDS Integers, FiniteSets, RuleLists

CONSTANTS
    Rules,         \* what the passes before may build
    Forms,         \* what a leaf may have around it
    MaxCandidates  \* how many candidates reach the generalizer

NameSpaces == {"reg", "imm"}

Leaf == [form : Forms, ns : NameSpaces \cup {"num"}, key : Int]

ASSUME RulesHaveLeaves ==
    /\ "plain" \in Forms
    /\ \A rule \in Rules : rule.guest \in Seq(Leaf) /\ rule.host \in Seq(Leaf)

ASSUME MaxCandidatesIsNat == MaxCandidates \in Nat

(***************************************************************************)
(* Fingerprints: in each name space a placeholder is the number of its     *)
(* first visit, guest before host.                                         *)
(***************************************************************************)
Leaves(rule) == rule.guest \o rule.host

\* Mutant: placeholders keep their numbers.
See_Raw(visit, leaf) == [visit EXCEPT !.print = Append(@, leaf)]

See(visit, leaf) ==
    IF leaf.ns = "num" THEN [visit EXCEPT !.print = Append(@, leaf)]
    ELSE LET known == visit.ids[leaf.ns]
             ids == [key \in DOMAIN known \cup {leaf.key} |->
                        IF key \in DOMAIN known THEN known[key] ELSE Cardinality(DOMAIN known) + 1]
         IN  [ids |-> [visit.ids EXCEPT ![leaf.ns] = ids],
              print |-> Append(visit.print, [leaf EXCEPT !.key = ids[leaf.key]])]

Fingerprint(rule) ==
    [guest |-> Len(rule.guest),
     leaves |-> FoldLeft(See, [ids |-> [ns \in NameSpaces |-> <<>>], print |-> <<>>], Leaves(rule)).print]

(***************************************************************************)
(* Substitution of one immediate by the reserved literal.  A derived       *)
(* expression keeps its form around the literal, a negated one is -0.      *)
(***************************************************************************)
ImmIds(rule) == {l.key : l \in {x \in Range(Leaves(rule)) : x.ns = "imm"}}

SubstituteImm(rule, id) ==
    LET on(side) == [n \in DOMAIN side |->
            IF side[n].ns # "imm" \/ side[n].key # id THEN side[n]
            ELSE [form |-> IF side[n].form = "neg" THEN "plain" ELSE side[n].form, ns |-> "num", key |-> 0]]
    IN  [guest |-> on(rule.guest), host |-> on(rule.host)]

\* Mutant: the more general rule is the one to go.
IsInstance_Swapped(a, b) == \E id \in ImmIds(a) : Fingerprint(SubstituteImm(a, id)) = Fingerprint(b)

IsInstance(a, b) == \E id \in ImmIds(b) : Fingerprint(SubstituteImm(b, id)) = Fingerprint(a)

\* repeats are the details of the candidates skipped as "duplicate_rule".
VARIABLES stage, rules, fingerprints, subsumedIds, at,
          considered, emitted, subsumed, skipped, repeats
counters == <<considered, emitted, subsumed, skipped>>
vars == <<stage, rules, fingerprints, subsumedIds, at, repeats, counters>>

Init ==
    /\ stage = "generate" /\ rules = <<>> /\ fingerprints = {} /\ subsumedIds = {} /\ at = 1
    /\ considered = 0 /\ emitted = 0 /\ subsumed = 0 /\ skipped = 0 /\ repeats = {}

Record == considered < MaxCandidates /\ considered' = considered + 1

Emit(rule) ==
    /\ stage = "generate" /\ Record
    /\ Fingerprint(rule) \notin fingerprints
    /\ fingerprints' = fingerprints \cup {Fingerprint(rule)}
    /\ rules' = Append(rules, [id |-> Len(rules) + 1, rule |-> rule])
    /\ emitted' = emitted + 1
    /\ UNCHANGED <<stage, subsumedIds, at, subsumed, skipped, repeats>>

Repeat(rule) ==
    /\ stage = "generate" /\ Record
    /\ Fingerprint(rule) \in fingerprints
    /\ skipped' = skipped + 1 /\ repeats' = repeats \cup {rule}
    /\ UNCHANGED <<stage, rules, fingerprints, subsumedIds, at, emitted, subsumed>>

\* A pass before the fingerprint refuses the candidate.
Skip ==
    /\ stage = "generate" /\ Record
    /\ skipped' = skipped + 1
    /\ UNCHANGED <<stage, rules, fingerprints, subsumedIds, at, emitted, subsumed, repeats>>

\* One rule is enough to skip consolidation.
EndOfRegions ==
    /\ stage = "generate"
    /\ stage' = IF Len(rules) < 2 THEN "done" ELSE "consolidate"
    /\ UNCHANGED <<rules, fingerprints, subsumedIds, at, repeats, counters>>

(***************************************************************************)
(* The outer loop of consolidate_rules: every rule against every other,    *)
(* the removed ones too.                                                   *)
(***************************************************************************)
Consolidate ==
    /\ stage = "consolidate" /\ at <= Len(rules)
    /\ subsumedIds' = IF \E j \in DOMAIN rules \ {at} : IsInstance(rules[at].rule, rules[j].rule)
                      THEN subsumedIds \cup {rules[at].id} ELSE subsumedIds
    /\ at' = at + 1 /\ UNCHANGED <<stage, rules, fingerprints, repeats, counters>>

RecordSubsumed ==
    /\ stage = "consolidate" /\ at = Len(rules) + 1
    /\ stage' = "done"
    /\ subsumed' = subsumed + Cardinality(subsumedIds) /\ emitted' = emitted - Cardinality(subsumedIds)
    /\ rules' = Remaining(rules, subsumedIds)
    /\ UNCHANGED <<fingerprints, subsumedIds, at, considered, skipped, repeats>>

Next ==
    \/ \E rule \in Rules : Emit(rule) \/ Repeat(rule)
    \/ Skip \/ EndOfRegions \/ Consolidate \/ RecordSubsumed

Spec == Init /\ [][Next]_vars
-----------------------------------------------------------------------------
(***************************************************************************)
(* Properties.  Renaming is stated without numbers: two leaves of a rule   *)
(* are one placeholder exactly when their counterparts are.                *)
(***************************************************************************)
TypeOK ==
    /\ stage \in {"generate", "consolidate", "done"}
    /\ \A n \in DOMAIN rules : rules[n].rule \in Rules
    /\ considered \in 0 .. MaxCandidates /\ emitted \in Nat /\ subsumed \in Nat
    /\ subsumedIds \subseteq 1 .. at

AlphaEqual(a, b) ==
    LET x == Leaves(a)  y == Leaves(b) IN
    /\ Len(a.guest) = Len(b.guest) /\ Len(x) = Len(y)
    /\ \A n \in DOMAIN x : x[n].form = y[n].form /\ x[n].ns = y[n].ns /\ (x[n].ns = "num" => x[n].key = y[n].key)
    /\ \A m, n \in DOMAIN x :
          (x[m].ns = x[n].ns /\ x[m].ns # "num") => ((x[m].key = x[n].key) <=> (y[m].key = y[n].key))

\* docs/architecture.md: fingerprints are equal exactly for consistent renumberings.  No
\* two rules of the output are renumberings of each other ...
NoTwoAlike == \A m, n \in DOMAIN rules : m # n => ~AlphaEqual(rules[m].rule, rules[n].rule)

\* ... and what is refused as a repeat repeats a rule that was there, while the rules are
\* collected.
RepeatsRepeat ==
    stage = "generate" =>
        \A rule \in repeats : \E r \in Range(rules) : AlphaEqual(rule, r.rule)

\* tests/test_extraction_pipeline.py: considered == emitted + skipped + subsumed, and
\* emitted is the number of rules there are.
CountersBalance ==
    /\ considered = emitted + skipped + subsumed
    /\ emitted = Len(rules)

\* No two kept rules are renamings of each other, a refused one repeats a kept one, and
\* the counters of the diagnostics are those of the rules.
RepeatsAreExact == TypeOK /\ NoTwoAlike /\ RepeatsRepeat /\ CountersBalance

\* Zero in place of a set of immediates.
ZeroIn(rule, ids) ==
    LET on(side) == [n \in DOMAIN side |->
            IF side[n].ns = "imm" /\ side[n].key \in ids
            THEN [form |-> IF side[n].form = "neg" THEN "plain" ELSE side[n].form, ns |-> "num", key |-> 0]
            ELSE side[n]]
    IN  [guest |-> on(rule.guest), host |-> on(rule.host)]

\* A rule goes only if one that stays has it as an instance, possibly through others
\* that go as well: removing rules never loses what they translate.
RemovesCovered ==
    stage' = "done" =>
        \A r \in Range(rules) \ Range(rules') : \E kept \in Range(rules') :
            \E ids \in SUBSET ImmIds(kept.rule) : AlphaEqual(ZeroIn(kept.rule, ids), r.rule)

RemovedAreCovered == [][RemovesCovered]_vars
=============================================================================
