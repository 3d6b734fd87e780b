---------------------------- MODULE RuleImmediates ----------------------------
(***************************************************************************)
(* The immediates of a rule: numbered by value, host-only ones derived     *)
(* from the guest's, checked, and emitted (rules/generalize.py,            *)
(* rules/derivation.py).                                                   *)
(*                                                                         *)
(* A candidate is [from, guest, host, fixed, low, evaluable].  A slot is   *)
(* an immediate in the order of the text: [role, dest, value], its role    *)
(* being the operand or the mnemonic the strategies ask for.  A host slot  *)
(* has a need instead of a dest: which function of which guest slots the   *)
(* number is in the program.  No host number stands for the guest slots in *)
(* "fixed": the host does what their values ask for by its opcodes alone,  *)
(* with a movzx of a low part when "low" holds.  "evaluable" says that     *)
(* the parameterized verifier knows every operation of the rule; it knows  *)
(* no movk.  Values are not negative; the field of a movk is HalfWord bits *)
(* wide and a register two of them.                                        *)
(***************************************************************************)
EXTENDS Integers, Sequences, FiniteSets, SequencesExt, Bitwise, TLC

CONSTANTS
    Candidates, \* windows with a passing report
    Domain,     \* the values the parameterized verifier and a user try
    HalfWord    \* bits of the field a movk writes

Reserved(v) == v = 0

(***************************************************************************)
(* What a host number stands for, from the numbers of the guest.           *)
(***************************************************************************)
Ored(low, high, shift) == (high * 2^shift) | low

\* The field of HalfWord bits at a shift, and a movk, which replaces it.
Field(v, shift) == (v \div 2^shift) % 2^HalfWord
Movk(old, new, shift) == old + (new - Field(old, shift)) * 2^shift

Log2(v) == CHOOSE n \in 0 .. v : 2^n <= v /\ v < 2^(n + 1)

\* The number that an expression, or a need, is under the values of its arguments.
NumberOf(how, x) ==
    CASE how \in {"literal", "same"} -> x[1]
      [] how = "shl" -> 2^x[1]
      [] how = "log2" -> Log2(x[1])
      [] how = "sum" -> x[1] + x[2]
      [] how = "or" -> Ored(x[1], x[2], x[3])
      [] how = "movk" -> Movk(x[1], x[2], x[3])

Needed(need, slots) == NumberOf(need.how, [n \in DOMAIN need.of |-> slots[need.of[n]]])

\* What an instruction of the guest can encode.  A mov takes shifted half words and
\* repeated patterns too, so any value of a register.
Legal(role, v) ==
    CASE role = "mov" -> v < 2^(2 * HalfWord)
      [] role = "movk" -> v < 2^HalfWord
      [] role = "half" -> v = HalfWord
      [] role = "shift" -> v \in 1 .. 3
      [] role = "scale" -> v \in {2, 4, 8}
      [] OTHER -> TRUE
Encodable(c, slots) == \A n \in DOMAIN c.guest : Legal(c.guest[n].role, slots[n])

Concrete(c) == [n \in DOMAIN c.guest |-> c.guest[n].value]
Verified(c) ==
    /\ Encodable(c, Concrete(c))
    /\ \A s \in Range(c.host) : Needed(s.need, Concrete(c)) = s.value

VARIABLES cand, stage, at, number, host, result
vars == <<cand, stage, at, number, host, result>>

Values(slots) == {s.value : s \in {x \in Range(slots) : ~Reserved(x.value)}}

Init ==
    /\ cand \in {c \in Candidates : Verified(c)}
    /\ stage = "number" /\ at = 1 /\ number = <<>> /\ host = <<>> /\ result = "none"

Done(r) == stage' = "done" /\ result' = r /\ UNCHANGED <<cand, at, number, host>>

(***************************************************************************)
(* Equal values get one number, guest first.  With no value on a side both *)
(* keep their literals.                                                    *)
(***************************************************************************)
Slots == cand.guest \o cand.host

Number ==
    /\ stage = "number" /\ at <= Len(Slots)
    /\ LET v == Slots[at].value IN
       number' = IF Reserved(v) \/ v \in DOMAIN number THEN number
                 ELSE v :> Cardinality(DOMAIN number) + 1 @@ number
    /\ at' = at + 1 /\ UNCHANGED <<cand, stage, host, result>>

Literals == [n \in DOMAIN cand.host |-> [how |-> "literal", of |-> <<cand.host[n].value>>]]

Numbered ==
    /\ stage = "number" /\ at = Len(Slots) + 1
    /\ IF Values(cand.guest) = {} \/ Values(cand.host) = {}
       THEN number' = <<>> /\ host' = Literals /\ stage' = "check" /\ UNCHANGED at
       ELSE stage' = "derive" /\ at' = 1 /\ UNCHANGED <<number, host>>
    /\ UNCHANGED <<cand, result>>

(***************************************************************************)
(* The strategies: the first guest slot that gives the value wins.         *)
(***************************************************************************)
GuestIds == {number[v] : v \in Values(cand.guest) \cap DOMAIN number}
HostOnly(s) == number[s.value] \notin GuestIds
Named(n) == ~Reserved(cand.guest[n].value)
InRole(role) == {n \in DOMAIN cand.guest : cand.guest[n].role = role}
First(S) == CHOOSE n \in S : \A m \in S : n <= m

TbzMask(s) ==
    LET bits == {n \in InRole("bit") : 2^cand.guest[n].value = s.value}
    IN  IF s.role # "mask" \/ bits = {} THEN {}
        ELSE {[how |-> "shl", of |-> <<cand.guest[First(bits)].value>>]}

\* Mutant: a movk into any register.
SameDest_Any(m, k) == TRUE
SameDest(m, k) == cand.guest[m].dest = cand.guest[k].dest

MovkConstant(s) ==
    LET value(n) == cand.guest[n].value
        fits == {t \in InRole("mov") \X InRole("movk") :
                    /\ Named(t[1]) /\ Named(t[2]) /\ Named(t[2] + 1) /\ SameDest(t[1], t[2])
                    /\ Ored(value(t[1]), value(t[2]), value(t[2] + 1)) = s.value}
        t == CHOOSE x \in fits : \A y \in fits : x[1] < y[1] \/ (x[1] = y[1] /\ x[2] <= y[2])
    IN  IF s.role # "constant" \/ fits = {} THEN {}
        ELSE {[how |-> "or", of |-> <<value(t[1]), value(t[2]), value(t[2] + 1)>>]}

IndexScale(s) ==
    LET shifts == {n \in InRole("shift") : Named(n) /\ 2^cand.guest[n].value = s.value}
    IN  IF s.role # "scale" \/ shifts = {} THEN {}
        ELSE {[how |-> "shl", of |-> <<cand.guest[First(shifts)].value>>]}

ReverseIndexScale(s) ==
    LET scales == {n \in InRole("scale") : Named(n) /\ cand.guest[n].value = 2^s.value}
    IN  IF s.role # "shift" \/ scales = {} THEN {}
        ELSE {[how |-> "log2", of |-> <<cand.guest[First(scales)].value>>]}

Strategies(s) ==
    IF cand.from = "aarch64" THEN <<TbzMask(s), MovkConstant(s), IndexScale(s)>> ELSE <<ReverseIndexScale(s)>>

Derived(s) ==
    LET found == {n \in DOMAIN Strategies(s) : Strategies(s)[n] # {}}
    IN  IF found = {} THEN {} ELSE Strategies(s)[First(found)]

\* The text of a host slot: a literal, a placeholder, or an expression on values of guest slots.
Derive ==
    /\ stage = "derive" /\ at <= Len(cand.host)
    /\ LET s == cand.host[at]
           as(how) == [how |-> how, of |-> <<s.value>>]
       IN  \/ Reserved(s.value) /\ host' = Append(host, as("literal"))
           \/ ~Reserved(s.value) /\ (~HostOnly(s) \/ Derived(s) = {}) /\ host' = Append(host, as("same"))
           \/ ~Reserved(s.value) /\ HostOnly(s) /\ \E e \in Derived(s) : host' = Append(host, e)
    /\ at' = at + 1 /\ UNCHANGED <<cand, stage, number, result>>

DeriveDone ==
    /\ stage = "derive" /\ at = Len(cand.host) + 1
    /\ stage' = "check" /\ UNCHANGED <<cand, at, number, host, result>>

(***************************************************************************)
(* The checks.  Placeholders are known by the values they were numbered    *)
(* for; a valuation gives each placeholder of the guest a value.           *)
(***************************************************************************)
GuestPlaceholders == {v \in DOMAIN number : number[v] \in GuestIds}
HostPlaceholders ==
    {v \in UNION {Range(e.of) : e \in {x \in Range(host) : x.how # "literal"}} : ~Reserved(v)}

Under(v, val) == IF v \in DOMAIN val THEN val[v] ELSE v
GuestUnder(val) == [n \in DOMAIN cand.guest |-> Under(cand.guest[n].value, val)]
HostUnder(e, val) == NumberOf(e.how, [n \in DOMAIN e.of |-> Under(e.of[n], val)])

\* From the same values of the placeholders the host computes what the program asks for.
AgreeUnder(val) ==
    /\ \A n \in DOMAIN host : HostUnder(host[n], val) = Needed(cand.host[n].need, GuestUnder(val))
    /\ \A n \in cand.fixed : GuestUnder(val)[n] = cand.guest[n].value
Valuations == {val \in [GuestPlaceholders -> Domain] : Encodable(cand, GuestUnder(val))}
Agree == \A val \in Valuations : AgreeUnder(val)

Check ==
    /\ stage = "check"
    /\ IF ~ HostPlaceholders \subseteq GuestPlaceholders THEN Done("unpaired_host_immediate")
       ELSE IF cand.low /\ ~ GuestPlaceholders \subseteq HostPlaceholders THEN Done("unpaired_guest_immediate")
       ELSE IF cand.evaluable /\ ~Agree THEN Done("parameterized_rule_mismatch")
       ELSE Done("emitted")

Next == Number \/ Numbered \/ Derive \/ DeriveDone \/ Check
Spec == Init /\ [][Next]_vars

(***************************************************************************)
(* Properties.                                                             *)
(***************************************************************************)
\* The variables range over what the code can hold.
TypeOK ==
    /\ stage \in {"number", "derive", "check", "done"}
    /\ at \in 1 .. Len(cand.guest) + Len(cand.host) + 1
    /\ Range(number) = 1 .. Cardinality(DOMAIN number)
    /\ Len(host) <= Len(cand.host)
    /\ (result = "none") <=> (stage # "done")

\* A rule put back on the numbers it was learned from gives the host its numbers:
\* every placeholder and derived expression has the value of the slot it replaces.
InstantiatesBack ==
    LET own == [v \in GuestPlaceholders |-> v] IN
    result = "emitted" => \A n \in DOMAIN host : HostUnder(host[n], own) = cand.host[n].value

(***************************************************************************)
(* The ways a rule the verifier could not evaluate may be wrong.           *)
(***************************************************************************)
\* No immediates of the window are equal by accident: guest numbers, or a host number
\* and another one than it needs to be, the literal 0 included.
Apart(c) ==
    /\ \A m, n \in DOMAIN c.guest : (c.guest[m].value = c.guest[n].value) => (m = n \/ Reserved(c.guest[m].value))
    /\ \A s \in Range(c.host), n \in DOMAIN c.guest :
          (~Reserved(s.value) /\ s.value = c.guest[n].value) => (s.need.how = "same" /\ s.need.of = <<n>>)
    /\ \A s, u \in Range(c.host) : (s.value = u.value /\ ~Reserved(s.value)) => s.need = u.need
    /\ \A s \in Range(c.host) : Reserved(s.value) => \A n \in Range(s.need.of) : Reserved(c.guest[n].value)

\* The opcodes of the host hold a number of the guest, which is looked for under a movzx only.
Hidden(c) == c.fixed # {} /\ ~c.low

\* A mov has bits in the field of the movk after it, where or-ing is not replacing.
Overlaid(val) ==
    \E m \in InRole("mov"), k \in InRole("movk") :
        cand.guest[m].dest = cand.guest[k].dest /\ Field(GuestUnder(val)[m], GuestUnder(val)[k + 1]) # 0

\* docs/rule-format.md: with the same values of the placeholders guest and host do the
\* same.  Of an emitted rule that holds, but for those three ways, for every value; and
\* always when the parameterized verifier could evaluate it.
SoundButForKnown ==
    result = "emitted" =>
        \A val \in Valuations :
            \/ AgreeUnder(val)
            \/ ~cand.evaluable /\ (~Apart(cand) \/ Hidden(cand) \/ Overlaid(val))

\* The same without exceptions.
Sound == result = "emitted" => Agree
=============================================================================
