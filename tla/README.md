# Verification of angr-rule-learning

TLA+ models of angr-rule-learning (`src/`), model-checked with TLC on small
instances and, for the core, proved with TLAPS for every instance.

The program learns binary translation rules. It pairs guest and host machine
code, finds which registers and memory of one side correspond to which of the
other, asks a symbolic verifier whether the two are equivalent, and turns what
passes into text rules. It is one Python process without threads: what is hard
in it is not concurrency but search loops whose negative answers are trusted,
decisions taken from partial results, analyses whose errors make a proof
vacuous, and counters and lists that must stay in step whatever fails.

## Inventory

| Component | State | Operations | Hard behaviour | Correct when |
|---|---|---|---|---|
| Register binding search (`extraction/register_cegis.py`, `register_bindings.py`) | samples, the round, the untried orders | `solve`, `synthesize`, `_solve_with_verifier`, `_fallback` | an "unsat" is taken for a proof; counterexamples need not be models; bounded rounds; fallbacks in the middle | answers are right, the loop neither repeats itself nor gives up early |
| Window mining (`extraction/windows.py`, `pipeline.py`, `config.py`, `diagnostics.py`) | `VerifiedWindowSet`, stages, counters | `enumerate_region`, `prune_composites`, `covers`, the staged `run` loop | pruning from a growing set; greedy tiling; one set for all regions | later verdicts change no decision, each window is decided once, counters balance |
| Function liveness (`extraction/liveness.py`) | `live_in`, `live_out`, the changed flag | `analyze` | in-place fixpoint over loops; control flow parsed from text | the least solution over the real control flow |
| Window surfaces (`extraction/liveness.py`, `surfaces.py`) | none | `WindowSurfaceInferer.infer`, `SurfaceInferer.infer` | a backward slice that must agree with the liveness of the function | inputs are what the visible effects depend on |
| Memory surfaces (`extraction/memory_surfaces.py`) | slots and bindings | `infer_memory_surface` | pairing of accesses by order and kind | every access has one slot, paired registers are consistent |
| Alignment, blocks (`extraction/align.py`, `blocks.py`) | groups by source line | `build` | ambiguous groups, region identity | a region id names one region |
| Candidates (`extraction/candidates.py`) | none | `_merge_register_pairs` | fallback pairs against memory pairs | a register is paired once |
| Semantic verifier (`verification/verifier.py`, `relations.py`, ...) | two symbolic states, symbols, checks | `verify` | order of checks and early returns; symbols written twice | the status is the worst check; passing means equal on every input |
| Verifier memory (`verification/memory.py`, `memory_checks.py`) | slot addresses, witnesses, events | `initialize`, `check_memory_events` | concrete witnesses for symbolic addresses; overlapping slots | equal events mean equal effects |
| Kernel pipeline (`kernel/pipeline.py`, `bind.py`, ...) | candidates, reports, rules, records | `run` | any step of any kernel may raise | one record per kernel, lists in step |
| Kernel schemas (`kernel/schema.py`, `models.py`, ...) | definitions, effects | validation, `materialize_kernel` | SSA order, dead operations, effect order | an accepted schema materializes to a closed kernel |
| Rule generalizer (`rules/generalize.py`, `rules/generalization/`) | placeholder map, seen fingerprints, `RuleDiagnostics` | `generate`, `consolidate_rules` | many early skips; subsumption chains; counters corrected later | kept rules cover the removed ones, counters balance |
| Rule fingerprints (`rules/_fingerprint.py`) | canonical numbers | `fingerprint_rule` | numbering across guest and host | equal exactly for alpha-equal rules |
| Host derivation (`rules/derivation.py`) | none | strategies in order | widths, shifts, wrap-around | the derived expression has the literal's value |
| Rule registers (`rules/registers.py`, `register_views.py`, `partial_registers.py`) | views per family | `resolve_*` | partial writes and stale high bits | a widened view agrees on the bits read |
| Parameterized verification (`param_verify/`) | placeholders, immediates | `verify` | widths of immediates, domains | a passing rule holds for every immediate of its domain |
| Architecture tables (`arch/`), AST (`rules/ast*.py`, `writer.py`), JSON (`io/`), analysis, CLI | none or counters | parsing, printing, lookup | recognisers | not modelled, except the substitution of immediates and the labels of a rule |

How they interact: `ExtractionPipeline.run` builds functions and blocks,
analyses liveness once, aligns blocks into regions, and then, for each region
and stage, calls the miner (prune), the surface inferer (which calls the
liveness slice, the memory surface, and the binding solver, which itself calls
the verifier), the batch verifier and the rule generalizer, in that order, and
feeds passing windows back to the miner. `KernelPipeline.run` replaces mining by
generated kernels and shares the verifier and the generalizer.

`PROJECT.json` lists the hazards of each part at their lines, with the
properties that would catch them going wrong.

## What is modelled

| Module | Code | State and actions |
|---|---|---|
| `BindingSearch` | what a caller of `solve()` relies on | `truth`, `alive`, `status`, `bound`; Refute, Accept, Exhaust, GiveUp |
| `RegisterCegis` | `CegisRegisterBindingSolver`, `RegisterBindingSolver` | one action per branch of `solve` and `_solve_with_verifier`; `pc` is the place in the code; `refuted` is a history variable |
| `Alignment` | `BasicBlockBuilder`, `AlignmentRegionBuilder` | the blocks of both objects are cut at once, then the groups of source lines are visited in the order of their keys |
| `WindowMining` | `ExtractionPipeline.run`'s loop with `WindowMiner` and `VerifiedWindowSet` | one action per step of the loop body; `pruned` and `kept` are histories |
| `Liveness` | `LivenessAnalyzer` | a visit of an instruction, the next pass, the stop |
| `WindowSurface` | `WindowSurfaceInferer.infer` | operators on the analysed function |
| `MemorySurface` | `infer_memory_surface` | collecting, screening, ordering of stack accesses, then one pair of accesses at a time |
| `SurfaceInference` | `SurfaceInferer.infer`, `build_verification_candidate` | one action per stage, each with its skip reasons; what its callees answer is chosen from what their modules allow |
| `Verdict` | what a caller of `verify()` relies on | `agree`, `differ`, `verdict`; Pass, Fail, GiveUp |
| `SemanticVerifier` | `SemanticVerifier.verify` | one action per check, with early returns, fail-fast and the catch-all |
| `VerifierMemory` | `MemoryInitializer`, `MemoryEventRecorder`, the memory checks | slots, aliases, frame groups, witnesses, one access of a side at a time, the comparison in order or by slot |
| `KernelBinding` | `SnippetExtractor`, `KernelBindingBuilder` | operators: the candidate of a kernel, or the error raised |
| `KernelPipeline` | `KernelLearningPipeline.run` | one action per step of an iteration, the catch-all, consolidation |
| `KernelSchema` | `KernelSchema.__post_init__`, `materialize_kernel` | one operation validated at a time, dead results by the closure over `dependencies`, the body line by line |
| `RuleRewriting` | `RuleGeneralizer.generate`: placeholders, split registers, temporaries, rewriting, dead writes; `param_verify` for scalar operations | one action per pass, a loop iteration each where it has state |
| `RuleImmediates` | the numbering, derivation, instantiation check and emission of immediates | one action per slot and per check |
| `RuleLabels` | `_replace_labels_ast`, `labels_are_consistent` | one branch target at a time |
| `FixedRoles` | `_plan_fixed_roles_for_fragment` | one consumer at a time, the backward trace as a recursive function |
| `RuleConsolidation` | fingerprints, duplicate check, `consolidate_rules`, `RuleDiagnostics` | one candidate rule at a time, then one rule against all others at a time |
| `RuleLists` | the comprehension that filters removed rules | an operator shared by both pipelines |

Of the rest, `MC*` modules are instances for TLC, `*Proofs` modules hold the
theorems, and `DataInduction` the lemmas about numbers, finite sets, folds and lists
that the proofs share.

### RegisterCegis and BindingSearch

A problem is the data `solve()` reads: the two surfaces, registers with widths,
the pairs the memory surface fixed, and the transfers, which are functions from
input values to output values. A mapping is an assignment of guest registers to
host registers. `Consistent(p, S)` is what the selector query of `synthesize` is
satisfiable with; `Solutions` is what the verifier proves: for a register-only
window the mappings under which the transfers agree on *every* input, otherwise
an arbitrary set, since memory, flags and branches decide too. The proposal of
a round and the order of the search are nondeterministic: the code takes
whatever model the solver has, and orders of permutations; no property may
depend on which.

The verifier is assumed sound and complete when it answers pass or fail, and it
may give up on any proposal. (That it is sound is what `SemanticVerifier` is
checked and proved for.) What it says in a counterexample is a constant of the
model: with `Exact = TRUE` it refutes the proposal, as the symbolic difference it
comes from does; with `Exact = FALSE` it is any input vector at all, since
`EquivalenceChecker._counterexample` evaluates the symbols one by one and no
joint model is required of it. A window without guest inputs has an empty
counterexample, which `_guest_counterexample` takes for a missing one even under
`Exact`. The correctness of answers is proved without exactness; only
`RoundsRefute` and `LimitNeedsManyMappings` need it.

`BindingSearch` is the promise: a search drops mappings that are not equivalent,
and answers with an equivalent mapping, or with "unsat" when none is left, or
gives up and says so. `ImplementsPromise` is that `RegisterCegis` implements it,
`alive` being the untried mappings of the verifier search, or the mappings
consistent with the samples.

### WindowMining and Alignment

A window is a pair of intervals of positions in a region; addresses are
positions, since instructions are adjacent. `Infer` lets any subset of the
staged windows in `MayBind` become candidates, `VerifyStage` lets any subset of
them pass. A counter is skipped or emitted as `SurfaceInferer.infer` records
it. Rule generation, which the loop also calls, reads but never changes this
state. The mode without verification is in the model; the run has `Verify = TRUE`.

`Alignment` has the code of both objects with the line table's answer for each
instruction. A function goes by the number of its name in the order of names, so the
code of an object is a sequence, and an instruction carries its function; that an
extracted object is of this form is the assumption `ObjectsAreExtracted`. `sorted(keys)`
is modelled by a set of keys of which the first is visited next (`IsFirst`): by
function, file, and then the lines as sorted tuples (`LinesBefore`). The miner knows
a region by its id only, which is why it matters that ids are unique although
labels of lines are not. The names of its state carry the module's name
(`AlignmentInit`, `counts`), so that one instance can extend it and `WindowMining`.

### Liveness and WindowSurface

An instruction is its kind, the numerals of its operand text, and the register
families it reads and writes. The successor map is computed from the numerals as
the code does; the address really branched to is carried along for the
properties only. `DependsOn` in `WindowSurface` is the reference for the slice: the
families whose value on entry an effect of the window depends on, computed
forward where the code slices backward.

### MemorySurface and SurfaceInference

An instruction of `MemorySurface` has its parsed operands, whether it touches
memory at all, what it reads and writes, and what it adds to the stack pointer.
Stores bind the registers their values come from; the reference (`Inflow`) computes,
forward, the inputs the stored value depends on. `sorted` with a key is stable: an access
goes to the place that has as many accesses before it as come before it by displacement
or, if these are equal, in the window (`Lower`). `SurfaceInference` is the order of
screening, memory, window surfaces, solving and emission; a window must end in
one recorded reason or one candidate, and the host's shift count must have been
written whole in the window before it is read.

### SemanticVerifier, Verdict and VerifierMemory

A register family has two halves and a register name one or two of them.
Symbolic execution is kept as provenance: each half of each register comes from
a symbol of an input pair or from a symbol of its own, and the states explored
are those that give equal halves to equal provenances. What a fragment computes is
the constant operator `Observe`, so theorems hold for all fragments. `Equivalent`
and `SameBranch` are the reference: agreement on all *related* states, those in
which the paired registers agree, whatever the verifier explored.

`VerifierMemory` has integer addresses and bytes that are terms, so two accesses
that overlap in part are told from two that do not. Its reference executes the two
fragments from equal memories and compares what they leave and what they read.

### KernelSchema, KernelBinding and KernelPipeline

A kernel is written one operation at a time and validated as the constructor
does; the body and the declared accesses it is materialized to must agree access
by access. In the pipeline clang makes of a kernel whatever it likes
(`Compilations`), the verifier and the generalizer answer whatever they like,
and every step may raise.

### The rule modules

The passes of `RuleGeneralizer.generate` work on different parts of a rule, which
is what lets each have a module: registers (`RuleRewriting`), immediates
(`RuleImmediates`), branch labels (`RuleLabels`), and registers that an opcode
names implicitly (`FixedRoles`). `RuleConsolidation` starts from their rules: sequences of
leaves of any form and any number of candidates (`RulesHaveLeaves`, `MaxCandidatesIsNat`). Each is
held against an evaluation of its own: `RuleRewriting` runs both sides of the
emitted rule on its placeholders, with operations as free terms; `RuleImmediates`
puts every value of a domain for the placeholders; `FixedRoles` computes what the
count depends on byte by byte and forward; `RuleConsolidation` defines renaming and
instance by substitutions.

In `RuleRewriting` an operation outside `KnownOps` is one the parameterized verifier
does not evaluate; a rule with it is emitted all the same. The windows of the
passing run contain such operations; left out of it are those in which a register
with two roles is read again after it was written, or is named twice by one
instruction, together with such an operation. These are the subject of
`rule_chained`.

In `RuleImmediates` a `mov` may have any value of a register of two half words, bits in the
field of a following `movk` included; the program's `movk` replaces the field, the derived
expression is the or. `ImmediatesAreSound` says that an emitted rule is the window again on
its own numbers, and right for every value in all cases but three, which are
named, each only of rules the parameterized verifier cannot evaluate: immediates equal by
accident (not `Apart`, the subject of `rule_shared_value`), a guest number in the opcodes
of the host without a `movzx` (`Hidden`), and a `mov` with bits in the field of its `movk`
(`Overlaid`). The run has windows of each kind, and none of the three can be left out.

## The checks

TLC runs several components in one suite where they are parts of one stage: the
initial states choose a part, and a behaviour is a behaviour of that part alone,
with the variables of the others at rest. The suites share no state between parts;
they only save the start of a checker per component. `MCExtraction`, `MCSurfaces`,
`MCVerifier`, `MCKernels` and `MCRules` are these suites. A component that is proved
about is *extended*, so that TLC evaluates its assumptions and checks the very
definition its theorem names; it rests in an initial state of its own, in which its
invariants hold for what the model says and not because they are switched off. A property of
an *instanced* component (registers and immediates of a rule)
is guarded with the part and takes in the type invariant.

| Run | Question | Bounds, and why they are enough |
|---|---|---|
| `cegis_exact` | are the answers of `solve()` right, does the loop make progress? | all 256 pairs of functions of two bits, a selection against all functions of three bits, mixed widths with two outputs, all 64 passing sets of a verifier search, contradictory and outside pairs, constant windows, one problem per ineligibility. Three rounds for six mappings, so that unsat, the limit, and success at each round occur |
| `cegis_any` | with any counterexample, does it implement `BindingSearch`, does it return? | fewer problems of the same kinds, two rounds: repeated and missing counterexamples occur |
| `extraction` | do pruning decisions hold, is every window decided once, do counters balance? are regions unambiguous, their ids unique? | two regions of 2x3 and 1x2 instructions, the default limits (guest 1..2, host 1..3), so that a window may be covered by two, three or overlapping windows; twelve windows may bind, all subsets of candidates and verdicts. Objects of up to two functions put together from seven runs of instructions: gaps in the lines, no lines, two files, a run that no control flow ends |
| `surfaces` | does the liveness loop end with the least solution, do slices, slots and candidates rest on the right registers? | 360 functions of four instructions over three families: loops, joins, kills, calls, indirect jumps, returns. Chains of up to three producers before a store, all orders of two stack accesses with pushes, pairs and overlaps. Up to three host instructions around a shift by cl, after full, partial and split writes; all answers of the callees |
| `verifier` | does a pass mean equal effects, a fail a real difference? | two families of two halves, all lists of at most two input pairs, four effects of the host, memory, flags and guards on either half, either successor first. Two accesses through equal, different, indexed and frame addresses, in order and swapped, with overlaps and aliases; bindings that share registers |
| `kernels` | do lists, records and counters stay in step whatever fails, is validation exact? | a suite of sixteen kernels, eleven of them declared wrongly in one way each, seven things clang may make of a kernel, three verdicts; all kernels of up to three operations over one memory object, and scalar ones of every operation |
| `rules` | does every pass of rule generation keep the meaning? | one and two operations after, before and between copies in all registers, swaps and frames; windows with immediates for each strategy of derivation, equal by accident or not, in the opcodes of the host, and in overlapping fields; three candidates out of 37 rules with three leaves; all pairs of fragments with up to three branches to two lines; fragments of up to three instructions before a shift. The run may stop: a pass ends |
| `liveness_cbz`, `verifier_branch`, `kernel_names`, `rule_chained`, `rule_shared_value` | does the code do what its documents say? | violated, see below |

Fairness is stated for three loops, each a single loop of a process that keeps
running, whose calls return: weak fairness of the whole step relation of the
register search (`FairSpec`), of the fixpoint loop of liveness and of the kernel
loop. It gives no fairness to any choice of the environment: a verifier may give
up for ever, every kernel may fail.

Every checked property fails when a plausible mistake is put into the code it is
about; these variants stand before the definition they vary (named
`Definition_Mistake`).

### Mistakes found

- `BranchTargetsAreLive` (`extraction/liveness.py:230`): `_parse_direct_target` takes
  the first number of the operands, which for `cbz x0, #0x68` is the 0 of `x0`, so
  the branch target is not a successor and what is live there may be called dead.
- `BranchEffectsAreChecked` (`verification/verifier.py:197`): memory events and flags
  of a branch window are compared under the path constraints of the first
  successor of *both* sides. When one side lifts with the taken exit first and the
  other with the fallthrough first, the constraints contradict each other and
  every comparison passes.
- `BodyIsSSA` (`kernel/schema.py:530`): names invented for addresses (`q`, `qN`,
  `idx_plus`, `idx_plusN`) may be names of the kernel's own values, which are then
  defined twice.
- `GuestAndHostAgree` (`rules/generalize.py:1686`): in a fragment that reads a
  register after writing it, the later reads are rewritten to the input's
  placeholder. With an operation the parameterized verifier does not evaluate,
  the wrong rule is emitted.
- `ImmediatesAlwaysSound` (`rules/generalize.py:1169`): immediates are one
  placeholder when their values are equal, on both sides together. In
  `add x1, x1, #8; ldr x0, [x1, x2, lsl #3]` against `mov rax, [rdi + rsi*8 + 8]` the
  scale becomes the displacement's placeholder.

### Other disagreements with the documents

Met while modelling; the models follow the code, and no listed run is about
them.

- Pruning covers guest and host separately (`extraction/windows.py:31`): if G1
  matches H2 and G2 matches H1, the window G1 G2 / H1 H2 is pruned, though no
  sequence of the smaller windows explains it. The extractor design
  (`2026-06-11-extractor-first-pipeline-design.md:171`) wants both sides "fully explained by
  smaller windows".
- The scan of spans is greedy (`extraction/windows.py:98`): with G1/H1, G1/H1 H2 and
  G2/H3 verified it takes H1, is stuck at H2, and learns the pure composite
  G1 G2 / H1 H2 H3 again; the same design, line 194, says it "should not be learned".
- Only `ret` is seeded with the ABI live-outs (`extraction/liveness.py:244`); a tail
  call has neither successors nor a seed. "Function exits need explicit live-out
  seeds" (`2026-06-11-liveness-surface-design.md:131`).
- For a pair of a sub-register and a full register the high half of the
  sub-register's family is the symbol's (`verification/verifier.py:349`);
  `register_views.py:3` has it fresh, "high bits unspecified".
- Alias declarations are intersected pair by pair (`verification/memory.py:52`):
  must(a, c), must(c, b) and disjoint(a, b) are accepted and a and b share a base;
  `2026-06-10-verifier-semantic-completeness-design.md:190` says "enforce `disjoint`".
- Addresses are compared at one index witness (`verification/memory.py:56`): `[x + i]`
  and `[X + I*2 - 3]` agree at the witness 3;
  `2026-06-15-indexed-memory-addressing-design.md:231` says scale and displacement mismatches
  are caught.
- A saved register is used between its save and its restore
  (`rules/generalize.py:1505`), as it must be; `docs/rule-format.md:335` says it never is.
- A fresh label of the host is not entered into the table of source lines
  (`rules/generalize.py:1025`), so two host branches to one line get two labels; no rule
  comes of it. The docstring (line 950) says targets with one location share a label.
- The trace of a shift count steps over writers of a part of a register
  (`rules/generalize.py:356`), so in `mov sil, dl; mov ecx, esi; shl eax, cl` dl is never
  traced; `docs/architecture.md:508` says the "full backward slice". `PlansAreSound`
  says that sources are the slice only of shifts whose chains meet no register last
  written in part (`WholeChains`).
- A number of the guest that the host has in its opcodes is looked for under a `movzx`
  only (`rules/generalize.py:1393`): `lsl w0, w0, #1` as `add eax, eax` leaves the guest a free
  immediate, and the rule is emitted when the parameterized verifier cannot evaluate it;
  `docs/rule-format.md:323` promises equality for all values of the placeholders.
- The constant of a `mov` and a `movk` is derived by or-ing (`rules/derivation.py:299`),
  where a `movk` replaces its field. A rule learned from `mov x0, #1; movk x0, #2, lsl #16` is
  wrong for `mov x0, #0x5555555555555555`, an immediate of `mov` too; no `movk` is evaluated
  by the parameterized verifier, so such a rule is emitted unchecked. Same document, line 323.
- A second binding of a frame base keeps the witness of the first without a check
  (`verification/memory.py:118`), so with one guest frame base and two of the host the
  second slot is missed; its accesses are then out of place and fail.
- A block with lines of two files has no source key and disappears without a
  record (`extraction/align.py:49`); the extractor design, line 125, says "record a reason".

## The proofs

The proofs use the assumptions declared with the constants, and nothing else. TLC
evaluates each on the instance of a run. What they say is what the callers of the
code give it: candidates, transfers and objects are of their types; a fragment is
a list of instructions that read and write registers and whose parts are parts of
their families (`FragmentsAreCode`); the callees of the inferer answer with the
inputs, outputs and registers their types allow (`AnswersAreTyped`); the operands of an
access have the fields of `MemoryOperand`, displacements are integers and widths are not
negative (`AccessesAreTyped`); a line of the
table is not the mark of a target without one (`LinesAreResolved`, `MaxBranchesIsNat`);
kernels have widths and displacements that are numbers (`SchemasAreTyped`). One
of them is no check of the code: `MemoryIsSpecified` has every slot at most a stride long,
which `verification/memory.py` leaves unchecked; a slot is an access of an instruction, some
bytes, and the stride is 0x1000.

**RegisterCegisProofs.** The inductive invariant `Inv` is the conjunction of
`TypeOK`; of the control facts (`Control`: what each `pc` says of the problem,
the proposal and the result); of `Partition`: in a verifier search the untried
and the refused mappings are disjoint and together all mappings, which is why an
empty `untried` is a proof; and of the answers themselves. For a synthesis
query the argument is that the samples are inputs, so every equivalent mapping is
consistent with them. `RoundsRefute` needs more: that a round's proposal is
consistent with the samples, hence not among the refuted ones, and that an exact
counterexample removes it; for a window without inputs, that its only input
vector is a sample from the start (`NoRepeatedSample`). With finitely many
mappings the cardinality of `refuted` counts rounds, from which
`LimitNeedsManyMappings` follows. `Implements` maps each step to a step of
`BindingSearch` or a stutter, and `AnswersAreRight` carries its promise back to the
search: an "unsat" and a bound mapping are right.

**ExtractionProofs.** On mining: `PruningIsFinal` is `DecisionsAreFinal` for any number of
regions, window limits and verdicts: later verdicts change no answer of `covers()`. It
does not say that no kept window is made of smaller verified ones, which the greedy
scan does not ensure (see the disagreements). The strengthening `Order` says that what is
verified later is of a stage not before the current one; as stages go by size, it
is never smaller than a decided window, and `Covers` looks at smaller windows
only.
`Progress` says that what is decided are the windows of earlier regions and of the
stages that have run; a window's sides tell its stage, so the windows of a stage
are new when it is pruned. From it follow `AllDecided` and, with `Balance`, which
counts the windows a counter is ahead of the next at every point of a stage,
`CountersBalance`: a region's windows are finitely many whatever the size limits
(`FiniteRegion`), and what passes was not verified before. `PrunedTiled` is about the
greedy scan of `covers()`, a recursive function over the spans of a side: whatever it
accepts, the spans it took lie one after the other and fill the side. The scan from
a position is shown right by induction downward from the end of the side, and since
verified windows are never forgotten, the tiling of a pruned window stays there.

On alignment: the builder of blocks is a fold over the instructions of a function,
and the proof takes it as the chain of its steps: after each, the finished blocks and
the current one laid end to end are the code so far, and only the last instruction of
a finished block is control flow. Concatenation over the functions gives
`BlocksPartitionTheCode` for any two objects. `LinesBefore` is shown to be a strict
total order (two sets of lines differ first at one place), so a set of keys has one
first key. `IInv` then says that the visited keys come before those left, that the
regions are the visited keys that pair, each once and in order, and that the counters
count them. `UniqueIds` needs only that the ordinal of a region is the number of regions
of its function before it; `AlignedBlocks` also that a group of one block is told from
all other blocks by its code, since instructions know their addresses' lines and
function.

**SurfaceProofs.** `StopsAtFixpoint` strengthens with `Solved`: while the flag of a
pass is false, the instructions already visited satisfy their equations.
`LiveForAReason` is inductive: a closed set of instructions stays closed under
a visit. `LiveSetsGrow` needs `Growing`, every live set is at most what a visit
would compute, and the monotonicity of a visit. `ExactSlices` is about the operators of
`WindowSurface`. The backward walk and the forward reference are recursive functions; that
both exist is shown first. Then, going down from the last instruction, what the
needed families depend on at a point stays what the window shows at its end: a step that
meets a write of a needed family trades it for what the instruction reads, whose
dependencies are by definition those of the written one. An output is written in the
window, so what is still needed before it was read in it (`NeededIsRead`); and it is live
there because each step of the walk stays within the equation of the liveness analysis
(`NeededIsLive`).

About `MemorySurface`: the sum that the collection keeps is where the stack pointer is
(`DeltaIsStackPointer`), so the displacement of a collected stack access counts from the
start of the window. Sorting moves accesses and loses none, since no two have one rank
(`SortedAreEntries`). The backward search is a recursive function over depths; as the most
recent writer of a register is an earlier instruction, an instruction within the bound of
the depth is answered with what flows into its reads (`SourcesAreInflow`, by induction along
the window). `SlotInv` says that the slots bound so far match, that their registers are recorded
unless the surface was skipped, and that stack accesses rise from neighbour to
neighbour, from which all places follow (`RisingFar`). `SlotsRight` holds for windows of any length;
the promise about sources is limited to windows that `MaxDepth` cannot cut short, as the
property says.

About `SurfaceInference`: every way to a candidate leads past the screening of fixed
roles, which has found a writer in the window for every such register read
(`FixedRolesWritten`). For `CandidatesWhole`, `InferenceInv` says at each stage what the diagnostics were told
and what there is to compare: memory alone has a slot, registers have outputs, and a
surface without outputs has a branch. The merge of pairs, a filter over two lists, is
shown to give their union without repetition (`MergeIsUnion`).

**SemanticVerifierProofs.** The heart is `RelatedIsExplored`: halves that share a
provenance are equal in every state in which the paired registers agree, however
the pairs overlap, so the explored states include the related ones and a check
that passes on the explored ones holds on the related ones. `Inv` says that while
all checks passed, everything `verify` has got past (`Past`) holds on the explored
states, that a failed check comes with a difference, and that the status is the
worst of the checks. `PassSound`, `BranchPassSound`, `FailReal` and `PromiseKept` follow for
every set of candidates and every meaning of the fragments.

On the verifier's memory, for all candidates, declarations and fragments:
`BasesInv` says that every slot has its place before a fragment runs, plain slots one
by one and those of a frame with the binding that leads it. `EffectsInv` says that
both memories start as one and are at every point what the recorded events make of
it, so that equal events mean equal memories and equal values read; from it follows
`SameEffectsOnPass`, also for the comparison by slot, where events of one slot keep their order
and those of different slots are apart. For `SlotsAndWitnesses`, `RootsAreLinks` shows
the union of alias declarations right (two slots have one root exactly when a chain of
must_alias declarations links them), `SharingInv` that slots of different roots are a
stride apart, and `GivenInv` that under the witnesses of all bindings the addresses of every plain binding,
and of the first one of every frame base, are those of its slot, for all candidates. A later
binding of a frame takes the witness it finds without a check (`memory.py:118`); that it
hits its slot too is shown by `WitnessInv`, provided a guest frame base is that of one
frame alone and each slot of a frame is bound once (`FramesApart`). Without it the
theorem says nothing of later bindings, and indeed they may miss. Alias declarations are
said to decide the sharing of slots outside of frames only: in a frame, offsets decide.

**KernelPipelineProofs.** Every way out of an iteration goes through `Record`, so the
records keep pace with the loop (`RecordsKeepPace`). `InHand` says what the steps
before have appended for the kernel at work, which is what the next list needs;
with it `ListsStayInStep` and `RecordsNameTheirRules` are inductive. `CountersDescribe`
counts the records of each status, and, after consolidation, what the comprehension
over the list of rules leaves: a rule's id is its place in the list, so as many go as
there are ids. `CandidatesFollowTheABI` says of every candidate of the suite that its
inputs never share a register on either side and that its addresses are made of the
registers of its inputs, the base from a pointer.

On the schemas of kernels: what validation has let through reads only names written
before (`WrittenInOrder`), so each step of the closure over `dependencies` reaches what
the program read backwards needs and no more, and as many steps as there are operations
are enough (`LiveIsNeeded`). So a kernel of any length is rejected for a dead result or an unused input
exactly when it has one (`ClosureFindsTheDead`). `NoStraddling`: a validated access begins at a
multiple of its element whatever its index is, so two of one object coincide or are apart.

**RulePassProofs.** Labels: the two tables, of source lines and of positions, never share a
label nor have one twice (`TablesTellPlaces`), the labels of the guest are in them, and one of
the host that is not is its own; so equal labels are equal places (`LabelsSound`). Fixed
roles: the trace of a register by its nearest covering writer finds the bytes that the
forward data flow finds, along chains on which no register was last written in part
(`WholeChains`; other instructions of the fragment may write parts as they like); `PlanInv` says
that the plan so far is the traces of the consumers so far, none of which failed.
`PlansSound` puts together what holds for every fragment (a host count always has a writer of
the whole register inside, a view is of an input of the guest) and what holds of
whole chains (the sources are the slice, and nothing of the old register is in it). Chains
through partial writes are left to the disagreements above.

**RuleConsolidationProofs.** A fingerprint is a fold that numbers placeholders at their
first visit. `FingerprintsTellRules`, for rules of any length: after every leaf the
numbers given are 1 to n, each once, and the print shows them (`SeeSeen`); so two
equal prints number alike, and the two visits of a rule and of its renaming stay in
step (`RenamingsStayInStep`). With it `RepeatsExact` follows from an invariant that speaks
of fingerprints only. `RemovedCovered` is the theorem about chains: a removed rule may
be an instance of another removed rule, and two rules could in principle remove each
other. The order that rules this out is the number of places with an immediate, which
zero for an immediate lowers and renaming keeps (`InstancesShrink`). Among the rules of the
list that cover the removed one (there is one, itself), take one with the most
immediates: what it is an instance of covers it too and has more (`ParentCovers`), so it is
an instance of nothing and stays (`KeptCovers`).

**DataInduction.** The induction theorems of the library take a statement as an operator,
which the provers cannot instantiate. Here a statement is a *set* of numbers, and that
such a set has a least element follows from the well-foundedness of the natural numbers
(`LeastElement`); `InductionUp`, `InductionDown` and `InductionBetween` are its forms. A
recursive function is `CHOOSE f : f = [...]` to the prover, so what is said of one rests
on the existence of such a function (`RecursionUp`). `FoldLeft` unfolds to a recursion over
sets of positions; `FoldExists` and `FoldEndsAsChain` reduce it to a chain of steps from the
first element to the last, which is how the blocks, the fingerprints, the filtered
rules and flattened lists are reasoned about.

Only model-checked:

- termination (`Termination`, `AnalysisEnds`, `SuiteEnds`), since liveness under fairness is
  out of the prover's reach;
- `BodyIsFaithful` beyond `NoStraddling`: it is about names made of strings and numbers, of
  which the prover knows nothing, and it does not hold for all kernels (`BodyIsSSA`, a part of
  it, is one of the mistakes found);
- `RuleContract` and `ImmediatesAreSound`: their references evaluate both sides of a
  rule as terms, or on every value of a domain, by recursion over data.

`SelectSeq` and the sorting of `SequencesExt` cannot be expanded by the prover; the
modules that are proved about use `Remaining`, first elements and ranks instead.

## Not modelled

- Symbolic execution, SMT solving, disassembly, compilation and ELF reading are
  other programs' work; their results are inputs of the models. Text, JSON and
  the command line are left out, and so is the skip pattern analysis, a report.
- The catalogue of built-in kernels (`kernel/catalog.py`, `synthesize.py`) is data.
- Partial-register effects on liveness: the code has whole families there, and so
  has the model. A write of a part ends the live range of the family, on which the
  documents are silent.
- In `RuleRewriting`: the 64-bit views of `lea`, replacing a write that
  zero-extends, the `ptr64` prefix, and the physical view in the text
  (`lo8(guest.rcx)`); in `RuleImmediates` negative immediates; of the parameterized
  verifier memory, flags and the queries themselves.
- In `MemorySurface` and `VerifierMemory`: parsing of operand text. That an address
  register is redefined before its access is not looked at by the surface, and
  left to the verifier.
- The architecture tables: the models take what they recognise as given.

## Where the plan stands

Done in order of the plan: the register search with its abstract search, mining,
liveness and window surfaces; the verifier with its abstract verdict and its
memory; memory surfaces and candidates; the kernel pipeline and schemas; the
passes of rule generation, fingerprints and consolidation; alignment. Proved: the
search, mining, alignment, liveness, window and memory surfaces and candidates, the verifier and its
memory, the pipeline of kernels and their schemas, labels, fixed roles and consolidation.
Open: proofs about the rewriting of registers and immediates; one model that composes mining,
solving and verification with shared state in place of suites; partial registers in
liveness.
