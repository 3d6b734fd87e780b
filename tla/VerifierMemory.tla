--------------------------- MODULE VerifierMemory ---------------------------
(***************************************************************************)
(* The memory of a verification: MemoryInitializer places the slots of a   *)
(* candidate and gives its address registers concrete witnesses, both      *)
(* fragments run and their accesses are recorded, and the events of the    *)
(* two sides are compared, in order or slot by slot.                       *)
(*                                                                         *)
(* Addresses are integers; a byte is a term: the k-th of a slot's initial  *)
(* contents, of an input symbol, or something neither side knows.          *)
(***************************************************************************)
EXTENDS Integers, Sequences, FiniteSets, FiniteSetsExt, Functions

CONSTANTS
    MemoryCandidates,  \* [slots, alias, bindings, accesses, inputs, guest, host]
    FramePairs,        \* <<guest register, host register>>: compatible frame bases
    MemoryBase,        \* VerificationConfig.memory_base
    Stride,            \* VerificationConfig.memory_stride
    FrameStride,       \* 0x1000 of _allocate_frame_group
    IndexWitness       \* _INDEX_WITNESS

VARIABLES
    memoryCandidate,
    phase,      \* the step that comes next
    at,         \* how far the loop of that step has got
    bases,      \* MemoryLayout.bases
    frameNext,  \* frame_next_base
    assigned,   \* registers and their witnesses
    memory,     \* what each side's memory holds, by address
    events,     \* MemoryEventRecorder.events of each side
    verdict     \* of the memory checks, or the rejection

memoryVars == <<memoryCandidate, phase, at, bases, frameNext, assigned, memory, events, verdict>>

Sides == {"guest", "host"}

Listed(s) == s \in Seq(Range(s))

Names(c) == {c.slots[i].name : i \in DOMAIN c.slots}

\* What MemorySpec and AddressExpr make sure of; a slot is as wide as the
\* accesses to it, which a stride has room for.
ASSUME MemoryIsSpecified ==
    /\ MemoryBase \in Int /\ Stride \in Int /\ FrameStride \in Int /\ IndexWitness \in Int
    /\ \A c \in MemoryCandidates :
        /\ Listed(c.slots) /\ Listed(c.alias) /\ Listed(c.bindings)
        /\ Listed(c.accesses) /\ Listed(c.guest) /\ Listed(c.host)
        /\ \A i \in DOMAIN c.slots : c.slots[i].size \in 1..Stride
        /\ \A i, j \in DOMAIN c.slots : c.slots[i].name = c.slots[j].name => i = j
        /\ \A a \in Range(c.alias) : Listed(a.slots) /\ a.slots # <<>> /\ Range(a.slots) \subseteq Names(c)
        /\ \A b \in Range(c.bindings) :
            b.slot \in Names(c) /\ {b.guest.scale, b.guest.disp, b.host.scale, b.host.disp} \subseteq Int
        /\ \A a \in Range(c.accesses) : a.slot \in Names(c) /\ a.width \in Nat \ {0}

(***************************************************************************)
(* Slots, aliases, addresses.                                              *)
(***************************************************************************)
Size(c, name) == c.slots[CHOOSE i \in DOMAIN c.slots : c.slots[i].name = name].size

Declared(c, relation) == {a \in Range(c.alias) : a.relation = relation}

PairsOf(a) == {{a.slots[i], a.slots[j]} : i, j \in DOMAIN a.slots} \ {{s} : s \in Range(a.slots)}

\* validate_alias_declarations looks at the declared pairs only.
Contradictory(c) ==
    \E m \in Declared(c, "must_alias"), d \in Declared(c, "disjoint") : PairsOf(m) \cap PairsOf(d) # {}

\* union(root, slot) of the union-find, for all the slots of a declaration.
Join(roots, slots) ==
    [s \in DOMAIN roots |->
        IF \E t \in Range(slots) : roots[s] = roots[t] THEN roots[slots[1]] ELSE roots[s]]

\* _must_alias_roots, after each of the declarations.
RootsAfter(c) ==
    LET roots[n \in 0..Len(c.alias)] ==
            IF n = 0 THEN [s \in Names(c) |-> s]
            ELSE IF c.alias[n].relation = "must_alias" THEN Join(roots[n - 1], c.alias[n].slots)
            ELSE roots[n - 1]
    IN  roots

Roots(c) == RootsAfter(c)[Len(c.alias)]

IsFrame(b) == <<b.guest.base, b.host.base>> \in FramePairs

\* The bindings of the frame group that binding i is of, by position.
Group(c, i) ==
    {j \in DOMAIN c.bindings :
        /\ IsFrame(c.bindings[j])
        /\ c.bindings[j].guest.base = c.bindings[i].guest.base
        /\ c.bindings[j].host.base = c.bindings[i].host.base}

\* The groups come in the order of their first bindings.
Leads(c, i) == IsFrame(c.bindings[i]) /\ \A j \in Group(c, i) : i <= j

SlotsOf(c, G) == {c.bindings[j].slot : j \in G}

FrameSlots(c) == SlotsOf(c, {j \in DOMAIN c.bindings : IsFrame(c.bindings[j])})

\* What an address expression adds to its base at the index witness.
Offset(e) == (IF e.index = "none" THEN 0 ELSE IndexWitness * e.scale) + e.disp

Bytes(base, size) == base..(base + size - 1)

\* A mapping written over another one.
Overlay(upper, lower) ==
    [x \in DOMAIN upper \cup DOMAIN lower |-> IF x \in DOMAIN upper THEN upper[x] ELSE lower[x]]

(***************************************************************************)
(* MemoryInitializer.initialize.                                           *)
(***************************************************************************)
MemoryInit ==
    /\ memoryCandidate \in MemoryCandidates
    /\ phase = "alias"
    /\ at = 1
    /\ bases = <<>>
    /\ frameNext = MemoryBase
    /\ assigned = <<>>
    /\ memory = [side \in Sides |-> <<>>]
    /\ events = [side \in Sides |-> <<>>]
    /\ verdict = "pending"

Decide(v) ==
    /\ verdict' = v
    /\ phase' = "done"
    /\ UNCHANGED <<memoryCandidate, at, bases, frameNext, assigned, memory, events>>

Goto(step) == phase' = step /\ at' = 1

ValidateAlias ==
    /\ phase = "alias"
    /\ IF Contradictory(memoryCandidate) THEN Decide("error")
       ELSE /\ Goto("slots")
            /\ UNCHANGED <<memoryCandidate, bases, frameNext, assigned, memory, events, verdict>>

\* One slot: that of its root if the root is placed, or the next stride.
PlaceSlot ==
    /\ phase = "slots" /\ at <= Len(memoryCandidate.slots)
    /\ LET name == memoryCandidate.slots[at].name
           root == Roots(memoryCandidate)
           placed == {s \in DOMAIN bases : root[s] = root[name]}
           put(base) == bases' = Overlay([s \in {name} |-> base], bases)
       IN  IF name \in FrameSlots(memoryCandidate) THEN UNCHANGED <<bases, frameNext>>
           ELSE IF placed # {} THEN put(bases[CHOOSE s \in placed : TRUE]) /\ UNCHANGED frameNext
           ELSE put(frameNext) /\ frameNext' = frameNext + Stride
    /\ at' = at + 1
    /\ UNCHANGED <<memoryCandidate, phase, assigned, memory, events, verdict>>

\* The contents of a root are as long as its largest slot, on both sides.
Contents(c) ==
    LET root == Roots(c)
        size(s) == Max({Size(c, t) : t \in {t \in DOMAIN bases : root[t] = root[s]}})
        holder(x) == CHOOSE s \in DOMAIN bases : x \in Bytes(bases[s], size(s))
    IN  [x \in UNION {Bytes(bases[s], size(s)) : s \in DOMAIN bases} |->
            <<"init", root[holder(x)], x - bases[holder(x)]>>]

InitializeSlots ==
    /\ phase = "slots" /\ at > Len(memoryCandidate.slots)
    /\ memory' = [side \in Sides |-> Contents(memoryCandidate)]
    /\ Goto("frames")
    /\ UNCHANGED <<memoryCandidate, bases, frameNext, assigned, events, verdict>>

\* Each slot of a frame group is put where the guest finds it, which the last
\* of its bindings says; the host frame must then be at one place.
InFrame(c, G) ==
    [s \in SlotsOf(c, G) |->
        frameNext + Offset(c.bindings[Max({j \in G : c.bindings[j].slot = s})].guest)]

HostFrame(b) == frameNext + Offset(b.guest) - Offset(b.host)

\* Slots may overlap: the one that came last into the group is written last.
FrameContents(c, G, place) ==
    LET first(s) == Min({j \in G : c.bindings[j].slot = s})
        over(x) == {s \in DOMAIN place : x \in Bytes(place[s], Size(c, s))}
        top(x) == CHOOSE s \in over(x) : \A t \in over(x) : first(t) <= first(s)
    IN  [x \in UNION {Bytes(place[s], Size(c, s)) : s \in DOMAIN place} |->
            <<"init", top(x), x - place[top(x)]>>]

PlaceFrame ==
    /\ phase = "frames" /\ at <= Len(memoryCandidate.bindings)
    /\ LET c == memoryCandidate
           G == Group(c, at)
           place == InFrame(c, G)
       IN  IF ~Leads(c, at)
           THEN /\ at' = at + 1
                /\ UNCHANGED <<memoryCandidate, phase, bases, frameNext, assigned, memory, events, verdict>>
           ELSE IF \E i, j \in G : HostFrame(c.bindings[i]) # HostFrame(c.bindings[j]) THEN Decide("unsupported")
           ELSE /\ bases' = Overlay(place, bases)
                /\ memory' = [side \in Sides |-> Overlay(FrameContents(c, G, place), memory[side])]
                /\ frameNext' = Max({frameNext + FrameStride}
                                    \cup {place[s] + Size(c, s) + 16 : s \in DOMAIN place})
                /\ at' = at + 1
                /\ UNCHANGED <<memoryCandidate, phase, assigned, events, verdict>>

FramesPlaced ==
    /\ phase = "frames" /\ at > Len(memoryCandidate.bindings)
    /\ Goto("registers")
    /\ UNCHANGED <<memoryCandidate, bases, frameNext, assigned, memory, events, verdict>>

(***************************************************************************)
(* Witnesses: _initialize_memory_registers.                                *)
(***************************************************************************)
HostOf(c, r) == {p[2] : p \in {p \in c.inputs : p[1] = r}}

GuestOf(c, r) == {p[1] : p \in {p \in c.inputs : p[2] = r}}

IndexRegisters(c, b) ==
    LET g == {b.guest.index} \ {"none"}
        h == {b.host.index} \ {"none"}
    IN  g \cup h \cup (UNION {HostOf(c, r) : r \in g}) \cup (UNION {GuestOf(c, r) : r \in h})

\* The registers a binding sets, and to what.
Wanted(c, b) ==
    LET guest == bases[b.slot] - Offset(b.guest)
        host == bases[b.slot] - Offset(b.host)
        index == {<<r, IndexWitness>> : r \in IndexRegisters(c, b)}
        frame == IF b.guest.base \in DOMAIN assigned \cup IndexRegisters(c, b) THEN {}
                 ELSE {<<b.guest.base, guest>>, <<b.host.base, host>>}
        plain == {<<b.guest.base, guest>>}
                 \cup {<<r, guest>> : r \in HostOf(c, b.guest.base)}
                 \cup (IF GuestOf(c, b.host.base) = {} THEN {<<b.host.base, host>>} ELSE {})
    IN  index \cup (IF IsFrame(b) THEN frame ELSE plain)

Known == {<<r, assigned[r]>> : r \in DOMAIN assigned}

\* _assign_witness raises on a second value.
AssignBinding_Overwrites ==   \* mutant: the value of the last binding stays
    /\ phase = "registers" /\ at <= Len(memoryCandidate.bindings)
    /\ LET want == Wanted(memoryCandidate, memoryCandidate.bindings[at])
       IN  assigned' = Overlay([r \in {w[1] : w \in want} |-> (CHOOSE w \in want : w[1] = r)[2]], assigned)
    /\ at' = at + 1
    /\ UNCHANGED <<memoryCandidate, phase, bases, frameNext, memory, events, verdict>>

AssignBinding ==
    /\ phase = "registers" /\ at <= Len(memoryCandidate.bindings)
    /\ LET want == Wanted(memoryCandidate, memoryCandidate.bindings[at]) \cup Known
       IN  IF \E v, w \in want : v[1] = w[1] /\ v[2] # w[2] THEN Decide("unsupported")
           ELSE /\ assigned' = [r \in {w[1] : w \in want} |-> (CHOOSE w \in want : w[1] = r)[2]]
                /\ at' = at + 1
                /\ UNCHANGED <<memoryCandidate, phase, bases, frameNext, memory, events, verdict>>

RegistersAssigned ==
    /\ phase = "registers" /\ at > Len(memoryCandidate.bindings)
    /\ Goto("guest")
    /\ UNCHANGED <<memoryCandidate, bases, frameNext, assigned, memory, events, verdict>>

\* A host register without a witness of its own gets that of its partner.
HasValue(c, r) == r \in DOMAIN assigned \/ \E g \in GuestOf(c, r) : g \in DOMAIN assigned

ValueOf(c, r) == IF r \in DOMAIN assigned THEN assigned[r] ELSE assigned[CHOOSE g \in GuestOf(c, r) : TRUE]

IsConcrete(c, e) == HasValue(c, e.base) /\ (e.index = "none" \/ HasValue(c, e.index))

Address(c, e) ==
    ValueOf(c, e.base) + (IF e.index = "none" THEN 0 ELSE ValueOf(c, e.index) * e.scale) + e.disp

(***************************************************************************)
(* Execution: one access of one side.                                      *)
(***************************************************************************)
Unknown == <<"unknown">>

Load(side, address, width) ==
    [k \in 1..width |-> LET x == address + k - 1
                        IN  IF x \in DOMAIN memory[side] THEN memory[side][x] ELSE <<"fill", side, x>>]

\* What a store writes: bytes of a shared input, or what was loaded before.
Stored(side, value, width) ==
    IF value[1] = "load" THEN events[side][value[2]].value
    ELSE [k \in 1..width |-> <<"symbol", value[2], k>>]

Run(side) ==
    /\ phase = side
    /\ at <= Len(memoryCandidate[side])
    /\ LET access == memoryCandidate[side][at]
           concrete == IsConcrete(memoryCandidate, access.addr)
           address == Address(memoryCandidate, access.addr)
           value == IF access.kind = "write" THEN Stored(side, access.value, access.width)
                    ELSE IF concrete THEN Load(side, address, access.width) ELSE Unknown
           event == [kind |-> access.kind, concrete |-> concrete, width |-> access.width, value |-> value,
                     address |-> IF concrete THEN address ELSE 0]
       IN  /\ events' = [events EXCEPT ![side] = Append(@, event)]
           /\ memory' = IF access.kind = "write" /\ concrete
                        THEN [memory EXCEPT ![side] =
                                Overlay([x \in Bytes(address, access.width) |-> value[x - address + 1]], @)]
                        ELSE memory
    /\ at' = at + 1
    /\ UNCHANGED <<memoryCandidate, phase, bases, frameNext, assigned, verdict>>

RunEnds(side, then) ==
    /\ phase = side /\ at > Len(memoryCandidate[side])
    /\ Goto(then)
    /\ UNCHANGED <<memoryCandidate, bases, frameNext, assigned, memory, events, verdict>>

(***************************************************************************)
(* check_memory_events.                                                    *)
(***************************************************************************)
Accesses == memoryCandidate.accesses

Shape(i, e) == e.kind = Accesses[i].kind /\ e.width = Accesses[i].width

Hits(i, e) == e.concrete /\ e.address = bases[Accesses[i].slot]

CheckCount ==
    /\ phase = "count"
    /\ IF \E side \in Sides : Len(events[side]) # Len(Accesses) THEN Decide("fail")
       ELSE Goto("ordered") /\ UNCHANGED <<memoryCandidate, bases, frameNext, assigned, memory, events, verdict>>

\* An address out of place sends two accesses or more to the match by slot.
CheckOrdered ==
    /\ phase = "ordered"
    /\ LET shaped == {i \in DOMAIN Accesses : \A side \in Sides : Shape(i, events[side][i])}
           missed == {i \in shaped : \E side \in Sides : ~Hits(i, events[side][i])}
       IN  IF missed # {} /\ Len(Accesses) >= 2
           THEN Goto("by_slot") /\ UNCHANGED <<memoryCandidate, bases, frameNext, assigned, memory, events, verdict>>
           ELSE Decide(IF /\ shaped = DOMAIN Accesses /\ missed = {}
                          /\ \A i \in shaped : events["guest"][i].value = events["host"][i].value
                       THEN "pass" ELSE "fail")

Ranges(i) == Bytes(bases[Accesses[i].slot], Accesses[i].width)

\* Accesses of one kind to places apart may come in any order.
Reorderable_Overlap ==   \* mutant: the ranges may overlap
    /\ Cardinality({a.kind : a \in Range(Accesses)}) = 1
    /\ memoryCandidate.alias = <<>>
    /\ \A i, j \in DOMAIN Accesses : i # j => bases[Accesses[i].slot] # bases[Accesses[j].slot]

Reorderable ==
    /\ Cardinality({a.kind : a \in Range(Accesses)}) = 1
    /\ memoryCandidate.alias = <<>>
    /\ \A i, j \in DOMAIN Accesses : i # j => Ranges(i) \cap Ranges(j) = {}

\* The events of a side, one for each access.
Matches(side) ==
    {m \in [DOMAIN Accesses -> DOMAIN Accesses] :
        /\ IsInjective(m)
        /\ \A i \in DOMAIN Accesses : events[side][m[i]].concrete
                /\ events[side][m[i]].address = bases[Accesses[i].slot]}

CheckBySlot ==
    /\ phase = "by_slot"
    /\ IF ~Reorderable \/ (\E side \in Sides : Matches(side) = {}) THEN Decide("fail")
       ELSE LET event(side, i) == events[side][(CHOOSE m \in Matches(side) : TRUE)[i]]
            IN  Decide(IF \A i \in DOMAIN Accesses :
                             /\ \A side \in Sides : Shape(i, event(side, i))
                             /\ event("guest", i).value = event("host", i).value
                       THEN "pass" ELSE "fail")

MemoryDone == phase = "done" /\ UNCHANGED memoryVars

MemoryNext ==
    \/ ValidateAlias \/ PlaceSlot \/ InitializeSlots \/ PlaceFrame \/ FramesPlaced
    \/ AssignBinding \/ RegistersAssigned
    \/ Run("guest") \/ RunEnds("guest", "host") \/ Run("host") \/ RunEnds("host", "count")
    \/ CheckCount \/ CheckOrdered \/ CheckBySlot \/ MemoryDone

MemorySpec == MemoryInit /\ [][MemoryNext]_memoryVars

(***************************************************************************)
(* Properties.                                                             *)
(***************************************************************************)
MemoryTypeOK ==
    /\ phase \in {"alias", "slots", "frames", "registers", "guest", "host", "count", "ordered", "by_slot", "done"}
    /\ DOMAIN bases \subseteq Names(memoryCandidate)
    /\ \A side \in Sides : phase = side => at = Len(events[side]) + 1 /\ at <= Len(memoryCandidate[side]) + 1
    /\ verdict \in {"pending", "pass", "fail", "unsupported", "error"}

Reads(es, x) == {k \in DOMAIN es : es[k].kind = "read" /\ es[k].address = x}

\* What was read at an address, in order.
ReadsAt(es, x) ==
    LET nth(n) == CHOOSE k \in Reads(es, x) : Cardinality({j \in Reads(es, x) : j <= k}) = n
    IN  [n \in 1..Cardinality(Reads(es, x)) |-> es[nth(n)].value]

SameEffects ==
    /\ memory["guest"] = memory["host"]
    /\ \A e \in Range(events["guest"]) : ReadsAt(events["guest"], e.address) = ReadsAt(events["host"], e.address)

\* A pass of the memory checks means the same effects, whatever the order in
\* which the two sides make their accesses: the memories end up equal, and
\* every address was read with the same results.
PassMeansSameEffects ==
    verdict = "pass" => SameEffects

Overlap(s, t) == Bytes(bases[s], Size(memoryCandidate, s)) \cap Bytes(bases[t], Size(memoryCandidate, t)) # {}

\* Declarations as they are meant: t is in every set of slots that has s and
\* with one slot of a must_alias declaration all of them.
Closed(c, S) == \A a \in Declared(c, "must_alias") : Range(a.slots) \cap S = {} \/ Range(a.slots) \subseteq S

Linked(c, s, t) == \A S \in SUBSET Names(c) : s \in S /\ Closed(c, S) => t \in S

\* Outside of frames, slots that a chain of must_alias declarations links
\* have one base, whatever the order of the declarations; others share no byte.
AliasesDecideSharing ==
    \A s, t \in DOMAIN bases \ FrameSlots(memoryCandidate) : s # t =>
        IF Linked(memoryCandidate, s, t) THEN bases[s] = bases[t] ELSE ~Overlap(s, t)

\* A guest frame base is given its witness by bindings of one frame alone,
\* and each slot of a frame is bound once.
FramesApart(c) ==
    \A i, j \in DOMAIN c.bindings :
        LET b == c.bindings[i]
            d == c.bindings[j]
        IN  IsFrame(b) =>
            /\ b.guest.base \notin IndexRegisters(c, d) \cup {d.host.base}
            /\ IF IsFrame(d)
               THEN /\ b.guest.base = d.guest.base => b.host.base = d.host.base
                    /\ i # j => b.slot # d.slot
               ELSE b.guest.base \notin {d.guest.base} \cup HostOf(c, d.guest.base)

\* The registers a binding may give a witness to.
RegistersOf(c, b) == IndexRegisters(c, b) \cup {b.guest.base, b.host.base} \cup HostOf(c, b.guest.base)

\* Binding i has a say in the value of its base: a plain one always, since another value
\* is refused; one of a frame only where no register of an earlier binding, and no
\* index of its own, is its guest base, since otherwise it takes the value it finds.
GivesBase(c, i) ==
    LET b == c.bindings[i]
    IN  IsFrame(b) => b.guest.base \notin IndexRegisters(c, b) \cup UNION {RegistersOf(c, c.bindings[j]) : j \in 1..i - 1}

\* With the witnesses of all bindings the guest address of a binding, and the host
\* address if its base is not tied to the guest's, is that of its slot: for every binding
\* that gives its base a value, and for all of them where frames are apart.
WitnessesHit ==
    phase = "guest" =>
        \A i \in DOMAIN memoryCandidate.bindings :
            LET b == memoryCandidate.bindings[i]
            IN  GivesBase(memoryCandidate, i) \/ FramesApart(memoryCandidate) =>
                    /\ Address(memoryCandidate, b.guest) = bases[b.slot]
                    /\ GuestOf(memoryCandidate, b.host.base) = {} =>
                            Address(memoryCandidate, b.host) = bases[b.slot]

\* Outside of frames, slots share bytes exactly when declarations link them (in a frame
\* they lie where the guest's offsets put them, declared or not).  The address of a
\* binding is that of its slot under the witnesses of all, whatever plain bindings share
\* its registers; of a frame, the first binding of a base is sure to have it, and the
\* later ones where a frame base is that of one frame alone (FramesApart).
SlotsArePlaced == MemoryTypeOK /\ AliasesDecideSharing /\ WitnessesHit

=============================================================================
