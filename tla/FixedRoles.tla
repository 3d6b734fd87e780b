------------------------------ MODULE FixedRoles ------------------------------
(***************************************************************************)
(* Fixed-role registers of one fragment of a rule (_plan_fixed_roles_for_  *)
(* fragment and what it calls in rules/generalize.py).  The count of an    *)
(* x86 shift is read from cl and nowhere else: the plan finds its          *)
(* producers, traces what they are computed from back to inputs of the     *)
(* rule, and refuses the fragment when it cannot.                          *)
(*                                                                         *)
(* A register is a family and the set of bytes it names.  An instruction   *)
(* has what capstone says it reads and writes; its implicit registers are  *)
(* not in its text.                                                        *)
(***************************************************************************)
EXTENDS Integers, Sequences, FiniteSets, FiniteSetsExt, SequencesExt, TLC

CONSTANTS
    Fragments,  \* sequences of [reads, writes, implicit]
    Inputs,     \* sets of registers a candidate may bind as inputs on one side
    FixedRole   \* cl

\* A register names at least one byte.
ASSUME FragmentsAreCode ==
    \A f \in Fragments :
        /\ f \in Seq(Range(f))
        /\ \A m \in DOMAIN f : \A reg \in f[m].reads \cup f[m].writes : reg.bytes # {}

IsFixedFamily(reg) == reg.fam = FixedRole.fam

Covers(writer, reg) == writer.fam = reg.fam /\ reg.bytes \subseteq writer.bytes

(***************************************************************************)
(* The inputs that feed a register just before instruction n, by way of    *)
(* the nearest writer that covers it.  The empty set stands for a failure: *)
(* a chain that ends elsewhere, or a producer that reads nothing.          *)
(***************************************************************************)
Writers(frag, reg, n) == {m \in 1 .. n - 1 : \E w \in frag[m].writes : Covers(w, reg)}

Registers(frag) == UNION {frag[m].reads \cup frag[m].writes : m \in DOMAIN frag}

\* Mutant: an input ends the chain before its writers are looked for.
SourcesOf_InputFirst(frag, inputs) ==
    LET trace[n \in 1 .. Len(frag) + 1] ==
          [reg \in Registers(frag) |->
             IF reg \in inputs /\ ~IsFixedFamily(reg) THEN {reg}
             ELSE IF Writers(frag, reg, n) = {} THEN {}
             ELSE LET w == Max(Writers(frag, reg, n))
                      found == {trace[w][src] : src \in frag[w].reads}
                  IN  IF {} \in found THEN {} ELSE UNION found]
    IN  trace

SourcesOf(frag, inputs) ==
    LET trace[n \in 1 .. Len(frag) + 1] ==
          [reg \in Registers(frag) |->
             IF Writers(frag, reg, n) = {}
             THEN IF reg \in inputs /\ ~IsFixedFamily(reg) THEN {reg} ELSE {}
             ELSE LET w == Max(Writers(frag, reg, n))
                      found == {trace[w][src] : src \in frag[w].reads}
                  IN  IF {} \in found THEN {} ELSE UNION found]
    IN  trace

VARIABLES frag, side, inputs, reading, producers, sources, views, planResult
plansVars == <<frag, side, inputs, reading, producers, sources, views, planResult>>

PlansInit ==
    /\ frag \in Fragments /\ side \in {"guest", "host"} /\ inputs \in Inputs
    /\ reading = 1 /\ producers = {} /\ sources = {} /\ views = {} /\ planResult = "planning"

Reads == reading <= Len(frag) /\ FixedRole \in frag[reading].reads
Refuse ==
    /\ planResult' = "unbound_fixed_role_register"
    /\ UNCHANGED <<frag, side, inputs, reading, producers, sources, views>>
Continue == reading' = reading + 1 /\ UNCHANGED <<frag, side, inputs, planResult>>

NotRead ==
    /\ planResult = "planning" /\ reading <= Len(frag) /\ ~Reads
    /\ Continue /\ UNCHANGED <<producers, sources, views>>

\* The nearest writer that covers the register keeps its name; what it reads is traced.
Produced ==
    /\ planResult = "planning" /\ Reads /\ Writers(frag, FixedRole, reading) # {}
    /\ LET w == Max(Writers(frag, FixedRole, reading)) IN
       \E reg \in {r \in frag[w].writes : Covers(r, FixedRole)} :
          LET found == SourcesOf(frag, inputs)[w + 1][reg] IN
          \/ found = {} /\ Refuse
          \/ /\ found # {}
             /\ producers' = producers \cup {reg} /\ sources' = sources \cup found
             /\ Continue /\ UNCHANGED views

\* The guest may leave the value in the register when a pair binds it; the host may not.
CoveringInputs == {reg \in inputs : Covers(reg, FixedRole)}

External ==
    /\ planResult = "planning" /\ Reads /\ Writers(frag, FixedRole, reading) = {}
    /\ \/ /\ side = "guest" /\ CoveringInputs # {}
          /\ views' = views \cup {FixedRole} /\ Continue /\ UNCHANGED <<producers, sources>>
       \/ (side = "host" \/ CoveringInputs = {}) /\ Refuse

\* Every source must occur in the text of the rule, read or written.
InText == UNION {(frag[m].reads \cup frag[m].writes) \ frag[m].implicit : m \in DOMAIN frag}
Planned ==
    /\ planResult = "planning" /\ reading = Len(frag) + 1
    /\ \/ /\ sources \subseteq InText
          /\ planResult' = "planned" /\ UNCHANGED <<frag, side, inputs, reading, producers, sources, views>>
       \/ ~ sources \subseteq InText /\ Refuse

PlansNext == NotRead \/ Produced \/ External \/ Planned
PlansSpec == PlansInit /\ [][PlansNext]_plansVars
-----------------------------------------------------------------------------
(***************************************************************************)
(* Properties.  Reference: the backward slice byte by byte.  The bytes     *)
(* from outside that the bytes of a register depend on before instruction  *)
(* n, where an instruction computes what it writes from all it reads.      *)
(***************************************************************************)
BytesOf(reg) == {<<reg.fam, b>> : b \in reg.bytes}
BytesOfAll(regs) == UNION {BytesOf(r) : r \in regs}
AllBytes == BytesOfAll(Registers(frag))

Slice ==
    LET slice[n \in 1 .. Len(frag) + 1] ==
          [byte \in AllBytes |->
             IF n = 1 THEN {byte}
             ELSE IF byte \in BytesOfAll(frag[n - 1].writes)
                  THEN UNION {slice[n - 1][b] : b \in BytesOfAll(frag[n - 1].reads)}
                  ELSE slice[n - 1][byte]]
    IN  slice
DependsOn(n) == UNION {Slice[n][b] : b \in BytesOf(FixedRole)}

Consumers == {n \in 1 .. reading - 1 : FixedRole \in frag[n].reads}
InsideConsumers == {n \in Consumers : Writers(frag, FixedRole, n) # {}}

\* The last instruction before n that wrote some byte of a register wrote all of it.
LastWroteAll(reg, n) ==
    LET some == {m \in 1 .. n - 1 : BytesOfAll(frag[m].writes) \cap BytesOf(reg) # {}}
    IN  some # {} => \E w \in frag[Max(some)].writes : Covers(w, reg)

\* A register before instruction n with no writer, or the nearest one among S.
ProducedIn(S, reg, n) ==
    LastWroteAll(reg, n) /\ (Writers(frag, reg, n) # {} => Max(Writers(frag, reg, n)) \in S)

\* A set of instructions that holds the producers of all its members read.
Closed(S) == \A n \in S : \A reg \in frag[n].reads : ProducedIn(S, reg, n)

\* The chains from the shift at n back to the inputs meet no register that was last
\* written in part: the proviso of what is said of sources.
WholeChains(n) == \E S \in SUBSET DOMAIN frag : Closed(S) /\ ProducedIn(S, FixedRole, n)

PlansTypeOK ==
    /\ reading \in 1 .. Len(frag) + 1 /\ sources \subseteq inputs
    /\ \A p \in producers : Covers(p, FixedRole)
    /\ planResult \in {"planning", "planned", "unbound_fixed_role_register"}

\* The sources of a plan are the slice of its consumers, no more and no less, if their
\* chains are of whole registers; the code steps over the writer of a part.
SourcesAreTheSlice ==
    planResult = "planned" /\ (\A n \in InsideConsumers : WholeChains(n)) =>
        BytesOfAll(sources) = UNION {DependsOn(n) : n \in InsideConsumers}

\* docs/architecture.md: a fixed-role value of the host is produced inside the host rule,
\* and one of the guest may be a view of the register of the guest, when a pair binds it.
\* That the producer gets nothing of the old value is said of whole chains.
OutsideOnlyByView ==
    planResult = "planned" =>
        /\ side = "host" => Consumers = InsideConsumers
        /\ side = "host" => \A n \in Consumers : WholeChains(n) => ~(BytesOf(FixedRole) \subseteq DependsOn(n))
        /\ views # {} => side = "guest" /\ \E reg \in inputs : Covers(reg, FixedRole)

\* A shift count comes from outside the fragment only as a view of a guest input; where
\* its chains are of whole registers, its planned sources are its backward slice.
PlansAreSound == PlansTypeOK /\ SourcesAreTheSlice /\ OutsideOnlyByView

=============================================================================
