----------------------------- MODULE RuleRewriting -----------------------------
(***************************************************************************)
(* RuleGeneralizer.generate, from a verified window to the text of a rule: *)
(* the placeholders of its registers, the split of a register with two     *)
(* roles, the temporaries, the rewriting of both fragments, save and       *)
(* restore around dead writes, and the checks before a rule is emitted.    *)
(*                                                                         *)
(* A register is [side, family, bits], 8 bits being the low part of a      *)
(* register on the host; a candidate is [guest, host, outputs, inputs,     *)
(* memory]: two windows, pairs of registers and the registers of the       *)
(* addresses of its memory bindings.  An instruction is [form, op,         *)
(* operands].  Labels, immediates and fixed roles are left to other        *)
(* modules; a rule is what it does to its placeholders.                    *)
(***************************************************************************)
EXTENDS Integers, Sequences, FiniteSets, SequencesExt, TLC

CONSTANTS
    Candidates, \* candidates whose report is a pass
    KnownOps    \* the operations the parameterized verifier evaluates

Side == {"guest", "host"}
Narrow(r) == r.bits = 8

(***************************************************************************)
(* Instructions.  The first operand is the destination but for "test",     *)
(* which the guest's disassembler reports as a write of it all the same.   *)
(***************************************************************************)
SourcePositions(i) ==
    CASE i.form = "three" -> <<2, 3>> [] i.form \in {"two", "test"} -> <<1, 2>>
      [] i.form \in {"mov", "movzx"} -> <<2>> [] i.form = "set" -> <<>>

HasTarget(i) == i.form # "test"
Reads(i) == {i.operands[p] : p \in Range(SourcePositions(i))}
Writes(side, i) == {i.operands[1] : x \in IF HasTarget(i) \/ side = "guest" THEN {1} ELSE {}}

\* What the instruction computes from its sources and the flags.
Value(i, args, flags) ==
    CASE i.op = "mov" -> args[1] [] i.form = "movzx" -> <<"zext", args[1]>>
      [] i.form = "set" -> IF Narrow(i.operands[1]) THEN flags ELSE <<"zext", flags>>
      [] OTHER -> <<i.op>> \o args

\* An operand names the cells it reads and writes, and whether it is their low part only.
Operand(read, write, bits, partial) == [read |-> read, write |-> write, bits |-> bits, partial |-> partial]

\* The low part of a value, and a value with its low part replaced.
Low(t) == CASE t[1] = "insert" -> t[3] [] t[1] = "zext" -> t[2] [] OTHER -> <<"low", t>>
Insert(t, low) == <<"insert", t, low>>

(***************************************************************************)
(* Execution on cells: the families of a side, or the placeholders of a    *)
(* rule.  And the meaning of a window.                                     *)
(***************************************************************************)
Get(env, o) == IF o.partial THEN Low(env.cells[o.read]) ELSE env.cells[o.read]
Put(env, o, t) == [env EXCEPT !.cells[o.write] = IF o.partial THEN Insert(@, t) ELSE t]
From(cells) == [cells |-> cells, flags |-> <<"flags">>]

Execute(env, i) ==
    LET args == [n \in DOMAIN SourcePositions(i) |-> Get(env, i.operands[SourcePositions(i)[n]])]
    IN  IF HasTarget(i) THEN Put(env, i.operands[1], Value(i, args, env.flags))
                        ELSE [env EXCEPT !.flags = <<i.op>> \o args]

OfRegister(r) == Operand(r.family, r.family, r.bits, Narrow(r))
Families(window) == {r.family : r \in UNION {Range(window[n].operands) : n \in DOMAIN window}}

\* Every family starts with the value of the last input pair it is in.
Meaning(c, side) ==
    LET pairs(f) == {n \in DOMAIN c.inputs : c.inputs[n][side].family = f}
        start(f) == IF pairs(f) = {} THEN <<"own", side, f>>
                    ELSE <<"input", CHOOSE n \in pairs(f) : \A m \in pairs(f) : m <= n>>
        families == Families(c[side]) \cup {p[side].family : p \in Range(c.inputs \o c.outputs)}
        window == [n \in DOMAIN c[side] |->
                      [c[side][n] EXCEPT !.operands = [p \in DOMAIN @ |-> OfRegister(@[p])]]]
    IN  FoldLeft(Execute, From([f \in families |-> start(f)]), window)

\* The report is a pass: the outputs agree if the inputs do.
Verified(c) ==
    \A p \in Range(c.outputs) :
        Get(Meaning(c, "guest"), OfRegister(p.guest)) = Get(Meaning(c, "host"), OfRegister(p.host))

(***************************************************************************)
(* Placeholders.                                                           *)
(***************************************************************************)
Placeholder(kind, bits, id) == [kind |-> kind, bits |-> bits, id |-> id]
IsStack(r) == r.family = "sp"
IsFrame(r) == r.family = "fp"
IsLiteral(r) == IsStack(r) \/ IsFrame(r)
Special(r) == Placeholder(r.family, r.bits, 0)

Pairs(c) ==
    c.outputs \o c.inputs
    \o [n \in DOMAIN c.memory.guest \cap DOMAIN c.memory.host |-> [guest |-> c.memory.guest[n], host |-> c.memory.host[n]]]

\* output_guest, input_host and the like: the last pair of the register counts.
Partner(pairs, side, r) ==
    LET at == {n \in DOMAIN pairs : pairs[n][side] = r}
    IN  pairs[CHOOSE n \in at : \A m \in at : m <= n]
Members(pairs, side) == {pairs[n][side] : n \in DOMAIN pairs}

(***************************************************************************)
(* The state: the candidate, the stage, the pair the map is at, the map    *)
(* from registers to placeholders, the registers with two roles, the host  *)
(* registers whose roles are still to be split, the next number, the rule, *)
(* and the reason of a skip.                                               *)
(***************************************************************************)
VARIABLES cand, stage, at, map, split, pending, nextId, rule, result
vars == <<cand, stage, at, map, split, pending, nextId, rule, result>>
tables == <<map, split, pending, nextId>>

NoRule == [guest |-> <<>>, host |-> <<>>, saves |-> {}]

Init ==
    /\ cand \in {c \in Candidates : Verified(c)}
    /\ stage = "map" /\ at = 1
    /\ map = <<>> /\ split = <<>> /\ pending = {} /\ nextId = 1
    /\ rule = NoRule /\ result = "none"

Skip(reason) == stage' = "done" /\ result' = reason /\ UNCHANGED <<cand, at, tables, rule>>

Go(s) == stage' = s /\ UNCHANGED <<cand, rule, result>>

(***************************************************************************)
(* _build_placeholder_map: outputs first, then inputs, then addresses.     *)
(***************************************************************************)
Mapped(r) == r \in DOMAIN map
Pair == Pairs(cand)[at]
Even == Len(cand.memory.guest) = Len(cand.memory.host)
InMap == stage = "map" /\ Even /\ at <= Len(Pairs(cand))
IsInput == at \in Len(cand.outputs) + 1 .. Len(cand.outputs \o cand.inputs)
IsSpecial(p) == IsLiteral(p.guest) \/ IsLiteral(p.host)

UnevenAddresses ==
    /\ stage = "map" /\ ~Even
    /\ Skip("unsupported_rule_shape")

\* Stack pointers pair with stack pointers or frame pointers, frame pointers with their like.
SpecialOf(p) ==
    CASE IsStack(p.guest) /\ ~IsStack(p.host) -> {Special(p.host) : x \in {r \in {p.host} : IsFrame(r)}}
      [] IsStack(p.host) /\ ~IsStack(p.guest) -> {Special(p.guest) : x \in {r \in {p.guest} : IsFrame(r)}}
      [] OTHER -> {Special(p.guest)} \cap {Special(p.host)}

MapSpecial ==
    /\ InMap /\ IsSpecial(Pair)
    /\ LET known == {map[r] : r \in {Pair.guest, Pair.host} \cap DOMAIN map}
       IN  IF SpecialOf(Pair) = {} THEN Skip("register_class_mismatch")
           ELSE IF Cardinality(known) = 2 THEN Skip("unsupported_rule_shape")
           ELSE /\ \E ph \in IF known = {} THEN SpecialOf(Pair) ELSE known :
                        map' = [r \in {Pair.guest, Pair.host} |-> ph] @@ map
                /\ at' = at + 1
                /\ UNCHANGED <<split, pending, nextId>> /\ Go("map")

\* The host register carries the output of another guest register.
OtherRole(p) ==
    IsInput /\ p.host \in Members(cand.outputs, "host") /\ Partner(cand.outputs, "host", p.host).guest # p.guest

MapRegister ==
    /\ InMap /\ ~IsSpecial(Pair)
    /\ LET p == Pair
           new == Placeholder("reg", p.guest.bits, nextId)
           fresh == /\ nextId' = nextId + 1 /\ at' = at + 1 /\ UNCHANGED pending /\ Go("map")
           same == /\ at' = at + 1 /\ UNCHANGED <<split, pending, nextId>> /\ Go("map")
       IN  IF p.guest.bits # p.host.bits THEN Skip("register_class_mismatch")
           ELSE \/ /\ Mapped(p.guest) /\ Mapped(p.host)
                   /\ same /\ UNCHANGED map
                \/ /\ ~Mapped(p.guest) /\ ~Mapped(p.host)
                   /\ map' = p.guest :> new @@ p.host :> new @@ map
                   /\ fresh /\ UNCHANGED split
                \/ \E known \in Side, free \in Side :
                      /\ Mapped(p[known]) /\ ~Mapped(p[free]) /\ (free = "guest" => ~OtherRole(p))
                      /\ map' = p[free] :> map[p[known]] @@ map
                      /\ same
                \/ /\ ~Mapped(p.guest) /\ Mapped(p.host) /\ OtherRole(p)
                   /\ map' = p.guest :> new @@ map
                   /\ split' = (<<"host", p.host>> :> [out |-> map[p.host], in |-> new]) @@ split
                   /\ fresh

MapsDone ==
    /\ stage = "map" /\ Even /\ at > Len(Pairs(cand))
    /\ IF map = <<>> THEN Skip("unsupported_rule_shape")
       ELSE at' = 1 /\ UNCHANGED tables /\ Go("guest")

\* A guest register whose output and input are bound to different host registers.
SplitGuest ==
    /\ stage = "guest" /\ at <= Len(cand.outputs)
    /\ LET g == cand.outputs[at].guest
           new == Placeholder("reg", g.bits, nextId)
           host(pairs) == Partner(pairs, "guest", g).host
           twoRoles == /\ \A n \in 1 .. at - 1 : cand.outputs[n].guest # g
                       /\ g \in Members(cand.inputs, "guest") /\ host(cand.outputs) # host(cand.inputs)
           onward == at' = at + 1 /\ UNCHANGED pending /\ Go("guest")
       IN  IF twoRoles /\ IsLiteral(g) THEN Skip("unknown_register_class")
           ELSE \/ /\ twoRoles
                   /\ split' = (<<"guest", g>> :> [out |-> map[g], in |-> new]) @@ split
                   /\ map' = host(cand.inputs) :> new @@ map
                   /\ nextId' = nextId + 1 /\ onward
                \/ ~twoRoles /\ UNCHANGED <<map, split, nextId>> /\ onward

GuestDone ==
    /\ stage = "guest" /\ at > Len(cand.outputs)
    /\ pending' = {h \in Members(cand.outputs, "host") \cap Members(cand.inputs, "host") :
                      /\ <<"host", h>> \notin DOMAIN split
                      /\ Partner(cand.outputs, "host", h).guest # Partner(cand.inputs, "host", h).guest}
    /\ UNCHANGED <<at, map, split, nextId>> /\ Go("host")

\* The remaining ones of the host come out of a set, in any order.
SplitHost ==
    /\ stage = "host"
    /\ \E h \in pending :
          LET g == Partner(cand.inputs, "host", h).guest
              new == Placeholder("reg", g.bits, nextId)
          IN  /\ split' = (<<"host", h>> :> [out |-> map[Partner(cand.outputs, "host", h).guest], in |-> new]) @@ split
              /\ map' = g :> new @@ map
              /\ pending' = pending \ {h}
    /\ nextId' = nextId + 1 /\ UNCHANGED at /\ Go("host")

(***************************************************************************)
(* _identify_internal_temps: written registers without a pair, unless      *)
(* their family holds an output.                                           *)
(***************************************************************************)
OutputFamilies(side) == {r.family : r \in Members(cand.outputs, side)}

IsTemp(side, r) ==
    /\ r \notin Members(cand.outputs, side) \cup Members(cand.inputs, side)
    /\ r.family \notin OutputFamilies(side)
    /\ ~IsLiteral(r)

Written ==
    [n \in 1 .. Len(cand.guest) + Len(cand.host) |->
        IF n <= Len(cand.guest) THEN {r \in Writes("guest", cand.guest[n]) : IsTemp("guest", r)}
        ELSE {r \in Writes("host", cand.host[n - Len(cand.guest)]) : IsTemp("host", r)}]

Temps ==
    LET temps == UNION Range(Written)
        first(r) == CHOOSE n \in DOMAIN Written : r \in Written[n] /\ \A m \in 1 .. n - 1 : r \notin Written[m]
    IN  [r \in temps |-> Placeholder("tmp", r.bits, Cardinality({q \in temps : first(q) <= first(r)}))]

FindTemps ==
    /\ stage = "host" /\ pending = {}
    /\ map' = Temps @@ map
    /\ UNCHANGED <<at, split, pending, nextId>> /\ Go("rewrite")

(***************************************************************************)
(* _generalize_instructions_with_roles.  A register with two roles that an *)
(* instruction reads and writes is its output where it is named first and  *)
(* its input elsewhere, or both where it is named once.                    *)
(***************************************************************************)
Wider(r) == {w \in DOMAIN map : w.side = r.side /\ w.family = r.family /\ w.bits > r.bits}
SliceOfMapped(side, i, r) == side = "host" /\ i.form \in {"movzx", "set"} /\ Narrow(r) /\ Wider(r) # {}

Leftover(side, i, r) ==
    <<side, r>> \notin DOMAIN split /\ ~Mapped(r) /\ ~SliceOfMapped(side, i, r) /\ ~IsLiteral(r)

\* A mutant: what is read and written is the output throughout.
RoleOperand_Output(side, i, p) ==
    LET r == i.operands[p]
        roles == split[<<side, r>>]
        as(ph) == Operand(ph, ph, r.bits, FALSE)
    IN  IF HasTarget(i) /\ r \in Writes(side, i) THEN as(roles.out) ELSE as(roles.in)

RoleOperand(side, i, p) ==
    LET r == i.operands[p]
        uses == {q \in DOMAIN i.operands : i.operands[q] = r}
        written == HasTarget(i) /\ r \in Writes(side, i)
        roles == split[<<side, r>>]
        as(read, write) == Operand(read, write, r.bits, FALSE)
    IN  IF ~written THEN as(roles.in, roles.in)
        ELSE IF r \notin Reads(i) THEN as(roles.out, roles.out)
        ELSE IF Cardinality(uses) = 1 THEN as(roles.in, roles.out)
        ELSE IF \A q \in uses : p <= q THEN as(roles.out, roles.out) ELSE as(roles.in, roles.in)

RuleOperand(side, i, p) ==
    LET r == i.operands[p]
        as(ph) == Operand(ph, ph, r.bits, r.bits < ph.bits)
    IN  IF <<side, r>> \in DOMAIN split THEN RoleOperand(side, i, p)
        ELSE IF Mapped(r) THEN as(map[r])
        ELSE IF SliceOfMapped(side, i, r) THEN as(map[CHOOSE w \in Wider(r) : TRUE])
        ELSE as(Special(r))

Rewritten(side) ==
    [n \in DOMAIN cand[side] |->
        [cand[side][n] EXCEPT !.operands = [p \in DOMAIN @ |-> RuleOperand(side, cand[side][n], p)]]]

HasLeftover(side) == \E n \in DOMAIN cand[side] : \E r \in Range(cand[side][n].operands) : Leftover(side, cand[side][n], r)

\* "set" of a low part needs an earlier write of the whole register.
UnsafeSet ==
    \E n \in DOMAIN cand.host :
        LET i == cand.host[n] IN
        /\ i.form = "set" /\ SliceOfMapped("host", i, i.operands[1])
        /\ \A m \in 1 .. n - 1 : \A r \in Writes("host", cand.host[m]) : Narrow(r) \/ r.family # i.operands[1].family

Rewrite ==
    /\ stage = "rewrite"
    /\ IF HasLeftover("guest") THEN Skip("unmapped_register_surface")
       ELSE IF UnsafeSet THEN Skip("unsafe_partial_register_write")
       ELSE IF HasLeftover("host") THEN Skip("unmapped_register_surface")
       ELSE /\ rule' = [guest |-> Rewritten("guest"), host |-> Rewritten("host"), saves |-> {}]
            /\ stage' = "annotate" /\ UNCHANGED <<cand, at, tables, result>>

(***************************************************************************)
(* _annotate_dead_writes: a family of the host that holds no output is     *)
(* saved at its first write and restored after its last access.            *)
(***************************************************************************)
DeadWriteAt(f, n) ==
    \E r \in Writes("host", cand.host[n]) :
        /\ r.family = f /\ ~IsLiteral(r)
        /\ f \notin {q.family : q \in UNION {Members(cand.outputs, s) : s \in Side}}
        /\ Mapped(r) => map[r].kind # "tmp"
Accesses(f, n) == f \in {r.family : r \in Range(cand.host[n].operands)}

SaveOf(f) ==
    LET first == CHOOSE n \in DOMAIN cand.host : DeadWriteAt(f, n) /\ \A m \in 1 .. n - 1 : ~DeadWriteAt(f, m)
        last == CHOOSE n \in first .. Len(cand.host) :
                    Accesses(f, n) /\ \A m \in n + 1 .. Len(cand.host) : ~Accesses(f, m)
    IN  [ph |-> map[CHOOSE r \in Writes("host", cand.host[first]) : TRUE], first |-> first, last |-> last]

Annotate ==
    /\ stage = "annotate"
    /\ rule' = [rule EXCEPT !.saves =
                  {SaveOf(f) : f \in {g \in Families(cand.host) : \E n \in DOMAIN cand.host : DeadWriteAt(g, n)}}]
    /\ stage' = "check" /\ UNCHANGED <<cand, at, tables, result>>

(***************************************************************************)
(* What a fragment of a rule does to its placeholders.                     *)
(***************************************************************************)
Assigned(fragment) == {fragment[n].operands[1].write : n \in {m \in DOMAIN fragment : HasTarget(fragment[m])}}
Named(fragment) == UNION {{o.read, o.write} : o \in UNION {Range(fragment[n].operands) : n \in DOMAIN fragment}}
Placeholders ==
    Named(rule.guest) \cup Named(rule.host) \cup Range(map) \cup UNION {{x.in, x.out} : x \in Range(split)}
Parameters(cells) == {ph \in cells : ph.kind = "reg"}

Run(fragment, saves) ==
    LET env[n \in 0 .. Len(fragment)] ==
          IF n = 0 THEN From([ph \in Placeholders |-> <<"ph", ph>>])
          ELSE LET after == Execute(env[n - 1], fragment[n])
                   back(ph) == {k \in saves : k.last = n /\ k.ph = ph}
               IN  [after EXCEPT !.cells = [ph \in Placeholders |->
                      IF back(ph) = {} THEN @[ph] ELSE env[(CHOOSE k \in back(ph) : TRUE).first - 1].cells[ph]]]
    IN  env[Len(fragment)].cells

Unbound ==
    ~ Parameters(Named(rule.host) \cup {k.ph : k \in rule.saves}) \subseteq Parameters(Named(rule.guest))

\* ParameterizedRuleVerifier.verify; what it cannot evaluate is not a failure.
Evaluable(i) == i.op \in KnownOps
Mismatch ==
    /\ rule.saves = {} /\ \A i \in Range(rule.guest \o rule.host) : Evaluable(i)
    /\ \E ph \in Assigned(rule.guest) \cap Assigned(rule.host) : Run(rule.guest, {})[ph] # Run(rule.host, {})[ph]

CheckRule ==
    /\ stage = "check"
    /\ IF Unbound THEN Skip("unbound_host_register")
       ELSE IF Mismatch THEN Skip("parameterized_rule_mismatch")
       ELSE Skip("emitted")

Next ==
    \/ UnevenAddresses \/ MapSpecial \/ MapRegister \/ MapsDone
    \/ SplitGuest \/ GuestDone \/ SplitHost \/ FindTemps
    \/ Rewrite \/ Annotate \/ CheckRule

Spec == Init /\ [][Next]_vars

-----------------------------------------------------------------------------
Emitted == result = "emitted"
WrittenAs(side, r) == IF <<side, r>> \in DOMAIN split THEN split[<<side, r>>].out ELSE map[r]
ReadAs(side, r) == IF <<side, r>> \in DOMAIN split THEN split[<<side, r>>].in ELSE map[r]

(***************************************************************************)
(* Type invariant.                                                         *)
(***************************************************************************)
TypeOK ==
    /\ stage \in {"map", "guest", "host", "rewrite", "annotate", "check", "done"}
    /\ at \in 1 .. Len(Pairs(cand)) + 1 /\ nextId \in 1 .. 2 * at + 2
    /\ \A ph \in Placeholders : ph.kind \in {"reg", "tmp", "sp", "fp"} /\ ph.bits \in {8, 32, 64}
    /\ \A x \in DOMAIN split : x[1] \in Side /\ Mapped(x[2])
    /\ result = "none" <=> stage # "done"

(***************************************************************************)
(* An emitted rule keeps its promise: from the same values of the          *)
(* placeholders both fragments leave the same value in every output        *)
(* (docs/rule-format.md, "Semantic Contract").                             *)
(***************************************************************************)
Contract ==
    Emitted => \A p \in Range(cand.outputs) :
        Run(rule.guest, {})[WrittenAs("guest", p.guest)] = Run(rule.host, rule.saves)[WrittenAs("host", p.host)]

(***************************************************************************)
(* In an emitted rule the two registers of a pair go by one placeholder,   *)
(* the one it reads for an input and the one it writes for an output,      *)
(* whatever other pairs and splits did to the map later.                   *)
(***************************************************************************)
BoundPairsAgree ==
    Emitted => /\ \A p \in Range(cand.inputs) : ReadAs("guest", p.guest) = ReadAs("host", p.host)
               /\ \A p \in Range(cand.outputs) : WrittenAs("guest", p.guest) = WrittenAs("host", p.host)

(***************************************************************************)
(* An emitted rule leaves every parameter that is no output as it was: a   *)
(* dead write of the host is undone when the rule ends.                    *)
(***************************************************************************)
DeadWritesUndone ==
    Emitted => \A ph \in Parameters(Named(rule.host)) \ {WrittenAs("host", p.host) : p \in Range(cand.outputs)} :
                  Run(rule.host, rule.saves)[ph] = <<"ph", ph>>

=============================================================================
