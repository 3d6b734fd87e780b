----------------------------- MODULE WindowSurface -----------------------------
(***************************************************************************)
(* WindowSurfaceInferer.infer, as SurfaceInferer calls it: from the        *)
(* liveness of a function, the input and output families of a window,      *)
(* found by slicing the window backward from the families live after it.   *)
(***************************************************************************)
EXTENDS Liveness

CONSTANT ConditionFamilies   \* nzcv, rflags

\* The windows of f: intervals of a basic block, which only its last
\* instruction can leave.
Windows(f) ==
    {w \in Instructions(f) \X Instructions(f) :
        /\ w[1] <= w[2]
        /\ \A i \in w[1]..(w[2] - 1) : Code[f][i].kind = "plain"}

Body(w) == w[1]..w[2]

TerminalBranch(f, w) == Code[f][w[2]].kind = "cond"

\* semantic_output_families: written in the window and live after it.
Outputs(f, w, out) ==
    (UNION {Code[f][i].writes : i \in Body(w)}) \cap out[w[2]]

StartOfSlice(f, w, out) ==
    Outputs(f, w, out) \cup
    (IF TerminalBranch(f, w) THEN Code[f][w[2]].reads \cap ConditionFamilies ELSE {})

\* One step of the backward walk.
SliceStep_FlagsOnly(f, w, i, needed) ==   \* mutant: the branch's own reads forgotten
    IF Writes(f, i) \cap needed # {} THEN (needed \ Writes(f, i)) \cup Reads(f, i)
    ELSE needed

SliceStep(f, w, i, needed) ==
    IF Writes(f, i) \cap needed # {} THEN (needed \ Writes(f, i)) \cup Reads(f, i)
    ELSE IF TerminalBranch(f, w) /\ i = w[2] THEN needed \cup Reads(f, i)
    ELSE needed

\* The families needed before the window, walking from its end.
Needed(f, w, out) ==
    LET after[i \in (w[1] - 1)..w[2]] ==
            IF i = w[2] THEN StartOfSlice(f, w, out)
            ELSE SliceStep(f, w, i + 1, after[i + 1])
    IN  after[w[1] - 1]

SkipReason(f, w, out) ==
    IF \E i \in Body(w) : Code[f][i].kind \in {"jump", "call", "ret"}
         THEN "unsupported_control_flow_surface"
    ELSE IF \E i \in Body(w) : Code[f][i].unresolved THEN "missing_liveness_surface"
    ELSE IF Needed(f, w, out) \cap ConditionFamilies # {}
         THEN "external_live_condition_code_dependency"
    ELSE IF Outputs(f, w, out) = {} /\ ~TerminalBranch(f, w) THEN "no_verifiable_surface"
    ELSE "none"

\* The families that get a name in the surface: _ordered_input_registers
\* takes them from the registers the window reads.
InputFamilies(f, w, out) ==
    Needed(f, w, out) \cap UNION {Code[f][i].reads : i \in Body(w)}

Emitted == {w \in Windows(function) : SkipReason(function, w, liveOut) = "none"}

(***************************************************************************)
(* Properties, of the surfaces inferred once the analysis is done.         *)
(***************************************************************************)
\* Forward reference: the entry families on which the value of each family
\* depends after instruction i of the window.
DependsOn(f, w) ==
    LET deps[i \in (w[1] - 1)..w[2]] ==
            IF i < w[1] THEN [r \in Families |-> {r}]
            ELSE [r \in Families |->
                    IF r \in Writes(f, i)
                    THEN UNION {deps[i - 1][x] : x \in Reads(f, i)}
                    ELSE deps[i - 1][r]]
    IN  deps

\* What an execution of the window shows: its live outputs and, when it ends in
\* a branch, the direction of that branch.
ObservedInputs(f, w, out) ==
    LET deps == DependsOn(f, w)
    IN  (UNION {deps[w[2]][r] : r \in Outputs(f, w, out)}) \cup
        (IF TerminalBranch(f, w)
         THEN UNION {deps[w[2] - 1][r] : r \in Reads(f, w[2])} ELSE {})

\* The inputs of an emitted window are the families its observable effects
\* depend on, all of them and no others: what the verifier leaves symbolic on
\* both sides and unrelated is irrelevant to the proof.
SliceIsExact ==
    done => \A w \in Emitted :
        InputFamilies(function, w, liveOut) = ObservedInputs(function, w, liveOut)

\* "At the start of the window, remaining needed families are live-in inputs":
\* the slice agrees with the function-level analysis.
SliceIsLive ==
    done => \A w \in Emitted : Needed(function, w, liveOut) \subseteq liveIn[w[1]]

\* The inputs of a window are the families its observable effects depend on, no others,
\* and they are live where the window starts.
SlicesAreExact == SliceIsExact /\ SliceIsLive
=============================================================================
