--------------------------- MODULE SurfaceInference ---------------------------
(***************************************************************************)
(* SurfaceInferer.infer and build_verification_candidate: from a pair of   *)
(* windows to a verification candidate, or to one recorded reason why not. *)
(* What the memory surface, the window surfaces and the binding solver     *)
(* answer is chosen from the answers their own modules allow.              *)
(*                                                                         *)
(* An instruction is [flow, reads, writes]; a register is [family, bits],  *)
(* the positions of its family that it names.                              *)
(***************************************************************************)
EXTENDS Integers, Sequences, FiniteSets, SequencesExt

CONSTANTS
    WindowPairs,        \* [guest, host]: sequences of instructions
    FixedRole,          \* registers the ISA reads implicitly (x86-64 cl)
    MemoryAnswers,      \* [skip, slots, inputs] of infer_memory_surface
    SurfaceAnswers,     \* [skip, kind, inputs, outputs] of a WindowSurface
    SolverAnswers       \* [skip, fallback, inputs, outputs] of solve()

\* A reason to skip is not the name of a kind, and a surface without outputs
\* ends in a branch, or is skipped.
Emissions == {"memory", "branch", "register"}
ASSUME AnswersAreTyped ==
    /\ \A a \in MemoryAnswers \cup SurfaceAnswers \cup SolverAnswers : a.skip \notin Emissions \cup {"fallback"}
    /\ \A a \in MemoryAnswers : a.slots \in Nat /\ a.inputs \in Seq(Range(a.inputs))
    /\ \A a \in SurfaceAnswers :
          /\ a.kind \in {"register", "branch"} /\ a.outputs \in Seq(Range(a.outputs))
          /\ a.skip = "none" /\ a.outputs = <<>> => a.kind = "branch"
    /\ \A a \in SolverAnswers : a.inputs \in Seq(Range(a.inputs)) /\ a.outputs \in Seq(Range(a.outputs))

VARIABLES
    pair,
    pc,
    memory,
    surfaces,
    bindings,
    surfaceKind, \* surface_kind
    recorded,    \* what the diagnostics were told, in order
    candidate    \* the set of candidates built: none or one

inferenceVars == <<pair, pc, memory, surfaces, bindings, surfaceKind, recorded, candidate>>

Side == {"guest", "host"}
NoMemory == [skip |-> "none", slots |-> 0, inputs |-> <<>>]
NoSurface == [skip |-> "none", kind |-> "register", inputs |-> <<>>, outputs |-> <<>>]
NoBindings == [skip |-> "none", fallback |-> FALSE, inputs |-> <<>>, outputs |-> <<>>]

(***************************************************************************)
(* Screening the instructions.                                             *)
(***************************************************************************)
\* _unsupported_control_flow_detail: anything but a conditional branch.
LeavesTheWindow(insn) == insn.flow \in {"jump", "call", "return"}

Covers(w, r) == w.family = r.family /\ r.bits \subseteq w.bits   \* _write_covers_read

UnboundAt_SameInstruction(window, n) ==   \* mutant: its own writes count
    \E r \in Range(window[n].reads) \cap FixedRole :
        ~\E m \in 1..n : \E w \in Range(window[m].writes) : Covers(w, r)

\* _unbound_fixed_role_detail
UnboundAt(window, n) ==
    \E r \in Range(window[n].reads) \cap FixedRole :
        ~\E m \in 1..(n - 1) : \E w \in Range(window[m].writes) : Covers(w, r)

(***************************************************************************)
(* infer.                                                                  *)
(***************************************************************************)
InferenceInit ==
    /\ pair \in WindowPairs
    /\ pc = "control_flow"
    /\ memory = NoMemory
    /\ surfaces = [side \in Side |-> NoSurface]
    /\ bindings = NoBindings
    /\ surfaceKind = "none"
    /\ recorded = <<>>
    /\ candidate = {}

Skip_Continues(reason) ==   \* mutant: no early return
    /\ pc' = "build"
    /\ recorded' = Append(recorded, reason)
    /\ UNCHANGED <<pair, memory, surfaces, bindings, surfaceKind, candidate>>

\* record_window_skipped, return None
Skip(reason) ==
    /\ pc' = "done"
    /\ recorded' = Append(recorded, reason)
    /\ UNCHANGED <<pair, memory, surfaces, bindings, surfaceKind, candidate>>

Go(label) == pc' = label /\ UNCHANGED <<pair, memory, surfaces, bindings, surfaceKind, recorded, candidate>>

CheckControlFlow ==
    /\ pc = "control_flow"
    /\ IF \E side \in Side : \E n \in DOMAIN pair[side] : LeavesTheWindow(pair[side][n])
       THEN Skip("unsupported_control_flow_surface")
       ELSE Go("fixed_roles")

CheckFixedRoles ==
    /\ pc = "fixed_roles"
    /\ IF \E side \in Side : \E n \in DOMAIN pair[side] : UnboundAt(pair[side], n)
       THEN Skip("unbound_fixed_role_register")
       ELSE Go("memory")

InferMemory ==
    /\ pc = "memory"
    /\ \E m \in MemoryAnswers :
        IF m.skip # "none" THEN Skip(m.skip)
        ELSE memory' = m /\ pc' = "surfaces" /\ UNCHANGED <<pair, surfaces, bindings, surfaceKind, recorded, candidate>>

InferSurfaces ==
    /\ pc = "surfaces"
    /\ \E s \in [Side -> SurfaceAnswers] :
        IF memory.slots > 0 /\ \A side \in Side : s[side].skip = "no_verifiable_surface"
        THEN /\ surfaceKind' = "memory"
             /\ pc' = "build"
             /\ UNCHANGED <<pair, memory, surfaces, bindings, recorded, candidate>>
        ELSE IF s["guest"].skip # "none" THEN Skip(s["guest"].skip)
        ELSE IF s["host"].skip # "none" THEN Skip(s["host"].skip)
        ELSE /\ surfaces' = s
             /\ pc' = "solve"
             /\ UNCHANGED <<pair, memory, bindings, surfaceKind, recorded, candidate>>

\* The solver binds every output of the two surfaces, or it skips.
BindsOutputs(b) ==
    \A side \in Side : Len(b.outputs) = Len(surfaces[side].outputs)

Solve ==
    /\ pc = "solve"
    /\ \E b \in SolverAnswers :
        IF b.skip # "none" THEN Skip(b.skip)
        ELSE /\ BindsOutputs(b)
             /\ surfaces["guest"].kind = surfaces["host"].kind
             /\ bindings' = b
             /\ surfaceKind' = surfaces["guest"].kind
             /\ recorded' = IF b.fallback THEN Append(recorded, "fallback") ELSE recorded
             /\ pc' = "build"
             /\ UNCHANGED <<pair, memory, surfaces, candidate>>

\* _merge_register_pairs: each pair once, where it comes first.
Merge(left, right) ==
    LET all == left \o right
    IN  FoldLeft(LAMBDA acc, p : IF Contains(acc, p) THEN acc ELSE Append(acc, p), <<>>, all)

EmittedKind ==
    IF surfaceKind = "memory" THEN "memory"
    ELSE IF surfaceKind = "branch" /\ bindings.outputs = <<>> THEN "branch"
    ELSE "register"

Build ==
    /\ pc = "build"
    /\ candidate' = {[inputs |-> Merge(bindings.inputs, memory.inputs),
                      outputs |-> bindings.outputs,
                      slots |-> memory.slots]}
    /\ recorded' = Append(recorded, EmittedKind)
    /\ pc' = "done"
    /\ UNCHANGED <<pair, memory, surfaces, bindings, surfaceKind>>

InferenceDone == pc = "done" /\ UNCHANGED inferenceVars

InferenceNext == CheckControlFlow \/ CheckFixedRoles \/ InferMemory \/ InferSurfaces \/ Solve \/ Build \/ InferenceDone

InferenceSpec == InferenceInit /\ [][InferenceNext]_inferenceVars

(***************************************************************************)
(* Properties.                                                             *)
(***************************************************************************)
\* One pair, one verdict: a fallback is recorded only in front of an
\* emission, a reason to skip excludes a candidate, and there is always one
\* of the two.
OneVerdict ==
    /\ pc = "done" => Cardinality({i \in DOMAIN recorded : recorded[i] # "fallback"}) = 1
    /\ candidate # {} <=> Len(recorded) > 0 /\ Last(recorded) \in Emissions
    /\ pc = "done" /\ Contains(recorded, "fallback") => candidate # {}

\* A candidate never depends on the value that a fixed-role register has when
\* the window is entered: whichever bits are read were written in the window,
\* before the instruction that reads them.
FixedRolesAreWritten ==
    candidate # {} =>
        \A side \in Side : \A n \in DOMAIN pair[side] :
            \A r \in Range(pair[side][n].reads) \cap FixedRole :
                r.bits \subseteq UNION {w.bits : w \in {v \in UNION {Range(pair[side][m].writes) : m \in 1..(n - 1)} :
                                                            v.family = r.family}}

\* A candidate gives the verifier something to compare, and what was emitted
\* says what: memory, the branch alone, or registers.
SomethingToCompare ==
    \A c \in candidate :
        /\ c.outputs # <<>> \/ c.slots > 0 \/ Last(recorded) = "branch"
        /\ Last(recorded) = "register" => c.outputs # <<>>
        /\ Last(recorded) = "memory" => c.outputs = <<>> /\ c.slots > 0

\* Whatever the bindings and the memory surface pair is paired in the
\* candidate, once.
AllPairsOnce ==
    \A c \in candidate :
        /\ Range(c.inputs) = Range(bindings.inputs) \cup Range(memory.inputs)
        /\ IsInjective(c.inputs)

\* A pair of windows gets one verdict; a candidate has something to compare
\* and every pair of inputs once.
CandidatesAreWhole == OneVerdict /\ SomethingToCompare /\ AllPairsOnce
=============================================================================
