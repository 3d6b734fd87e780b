---------------------------- MODULE RegisterCegis ----------------------------
(***************************************************************************)
(* CegisRegisterBindingSolver.solve: which guest register feeds which host *)
(* register of a window pair.  A register-only window is solved by         *)
(* synthesis from counterexamples, any other one by asking the verifier    *)
(* about every mapping; whatever cannot be modelled falls back to the      *)
(* positional solver.                                                      *)
(*                                                                         *)
(* A mapping is [in |-> f, out |-> g]: host input j is fed with guest      *)
(* input f[j], host output k is compared with guest output g[k].           *)
(***************************************************************************)
EXTENDS Naturals, Sequences, FiniteSets, Functions

CONSTANTS
    Problems,      \* the binding problems the solver may be given, by index
    Values,        \* register width -> the values of that width
    MaxSurface,    \* _MAX_SURFACE_REGISTERS
    MaxIterations, \* max_iterations
    Exact          \* does a counterexample violate what it was found for?

VARIABLES
    problem,   \* the index of the BindingProblem being solved
    pc,        \* where solve() stands
    round,     \* rounds of the synthesis loop begun
    samples,   \* guest input vectors collected from counterexamples
    untried,   \* mappings the verifier search has not been refused yet
    proposal,  \* {} or {the mapping now proposed}
    result,    \* the RegisterBindingResult
    refuted    \* history: the mappings the verifier refused

vars == <<problem, pc, round, samples, untried, proposal, result, refuted>>

Stage == {"start", "synthesize", "verify", "search", "searchVerify", "done"}

Detail == {"none", "surface_kind_mismatch", "register_limit_exceeded",
           "register_count_mismatch", "unmodeled_input", "non_integer_register",
           "width_domain_empty", "selector_domain_empty", "execution_shape",
           "verification_unsupported", "verification_error",
           "counterexample_missing", "counterexample_repeated", "iteration_limit"}

Skip == {"none", "register_binding_unsat", "ambiguous_register_surface"}

(***************************************************************************)
(* The data of a problem.  A register is [name, width, fixedRole]; width 0 *)
(* stands for a register without an integer bit range.                     *)
(***************************************************************************)
Problem == DOMAIN Problems

GuestVectors(p) ==   \* the values the guest inputs may take
    {x \in [DOMAIN p.guest.inputs -> UNION Range(Values)] :
        \A i \in DOMAIN x : x[i] \in Values[p.guest.inputs[i].width]}

ZeroSample(p) == [i \in DOMAIN p.guest.inputs |-> 0]

\* The width-preserving, all-different assignments of guest registers gs to
\* host registers hs.
Assignments(gs, hs) ==
    {f \in [DOMAIN hs -> DOMAIN gs] :
        /\ IsInjective(f)
        /\ \A i \in DOMAIN gs : \E j \in DOMAIN hs : f[j] = i
        /\ \A j \in DOMAIN hs : gs[f[j]].width = hs[j].width}

RespectsFixedPairs(p, f) ==
    \A pair \in p.fixedPairs : \A j \in DOMAIN f :
        p.guest.inputs[f[j]].name = pair[1] <=> p.host.inputs[j].name = pair[2]

MappingsOf(p) ==
    [in  : {f \in Assignments(p.guest.inputs, p.host.inputs) :
                RespectsFixedPairs(p, f)},
     out : Assignments(p.guest.outputs, p.host.outputs)]

\* Host and guest outputs agree under m when the guest inputs are x.
Agrees(p, m, x) ==
    LET hostOutputs  == p.hostTransfer[[j \in DOMAIN m.in |-> x[m.in[j]]]]
        guestOutputs == p.guestTransfer[x]
    IN  \A k \in DOMAIN m.out : hostOutputs[k] = guestOutputs[m.out[k]]

RequiresVerifierSearch(p) ==
    p.hasMemory \/ p.guest.kind # "register" \/ p.hasFlags \/ p.hasControlFlow

(***************************************************************************)
(* Eligibility and the positional fallback.                                *)
(***************************************************************************)
RegisterLists(p) ==
    {p.guest.inputs, p.host.inputs, p.guest.outputs, p.host.outputs}

WidthDomainsExist(gs, hs) ==   \* sorted(guest widths) = sorted(host widths)
    LET OfWidth(rs, w) == Cardinality({i \in DOMAIN rs : rs[i].width = w})
    IN  \A r \in Range(gs) \cup Range(hs) :
            OfWidth(gs, r.width) = OfWidth(hs, r.width)

CountsMatch(p) ==
    /\ Len(p.guest.inputs) = Len(p.host.inputs)
    /\ Len(p.guest.outputs) = Len(p.host.outputs)

EligibilityDetail(p) ==
    IF p.guest.kind # p.host.kind THEN "surface_kind_mismatch"
    ELSE IF \E rs \in RegisterLists(p) : Len(rs) > MaxSurface
         THEN "register_limit_exceeded"
    ELSE IF ~CountsMatch(p) THEN "register_count_mismatch"
    ELSE IF \E r \in Range(p.guest.inputs) \cup Range(p.host.inputs) : r.fixedRole
         THEN "unmodeled_input"
    ELSE IF \E rs \in RegisterLists(p) : \E r \in Range(rs) : r.width = 0
         THEN "non_integer_register"
    ELSE IF ~WidthDomainsExist(p.guest.inputs, p.host.inputs)
            \/ ~WidthDomainsExist(p.guest.outputs, p.host.outputs)
         THEN "width_domain_empty"
    ELSE "none"

Eligible(p) == EligibilityDetail(p) = "none"

Positional(p) ==
    [in  |-> [j \in DOMAIN p.host.inputs |-> j],
     out |-> [k \in DOMAIN p.host.outputs |-> k]]

NoResult == [skip |-> "none", fallback |-> "none", binding |-> {}]

Fallback(p, detail) ==
    IF CountsMatch(p) /\ p.guest.kind = p.host.kind
    THEN [skip |-> "none", fallback |-> detail, binding |-> {Positional(p)}]
    ELSE [skip |-> "ambiguous_register_surface", fallback |-> detail, binding |-> {}]

Unsat == [skip |-> "register_binding_unsat", fallback |-> "none", binding |-> {}]

Proved(m) == [skip |-> "none", fallback |-> "none", binding |-> {m}]

(***************************************************************************)
(* The search space of each problem, as functions of its index.            *)
(***************************************************************************)
Inputs == [i \in Problem |->
    IF Eligible(Problems[i]) THEN GuestVectors(Problems[i]) ELSE {}]

Mappings == [i \in Problem |-> MappingsOf(Problems[i])]

Consistent(i, S) == {m \in Mappings[i] : \A x \in S : Agrees(Problems[i], m, x)}

\* The mappings the verifier proves.  A register-only window is judged by its
\* transfers; a window with memory, flags or a branch by more than those, so
\* the problem lists the mappings that pass.
Solutions == [i \in Problem |->
    IF RequiresVerifierSearch(Problems[i])
    THEN Mappings[i] \cap Problems[i].proves
    ELSE Consistent(i, Inputs[i])]

(***************************************************************************)
(* What the code guarantees of a problem.                                  *)
(***************************************************************************)
WellFormed(p) ==
    /\ \A rs \in RegisterLists(p) : rs \in Seq(Range(rs))
    /\ \A rs \in RegisterLists(p) : \A r \in Range(rs) : r.width \in {0} \cup DOMAIN Values
    /\ p.extraction \in {"none", "execution_shape", "unmodeled_input"}
    /\ ~p.hasMemory => p.fixedPairs = {}   \* infer_memory_surface, no operands

ASSUME ProblemsAssumption == \A i \in Problem : WellFormed(Problems[i])

\* Every register can hold zero, the first sample.
ASSUME ValuesAssumption == \A w \in DOMAIN Values : 0 \in Values[w]

ASSUME LimitsAssumption == MaxIterations \in Nat \ {0} /\ MaxSurface \in Nat

ASSUME ExactAssumption == Exact \in BOOLEAN

ASSUME FiniteMappings == \A i \in Problem : IsFiniteSet(Mappings[i])

(***************************************************************************)
(* solve().                                                                *)
(***************************************************************************)
Init ==
    /\ problem \in Problem
    /\ pc = "start"
    /\ round = 0
    /\ samples = {}
    /\ untried = {}
    /\ proposal = {}
    /\ result = NoResult
    /\ refuted = {}

Finish(r) == pc' = "done" /\ result' = r

\* A problem outside the search goes straight to the fallback.
Ineligible ==
    /\ pc = "start"
    /\ ~Eligible(Problems[problem])
    /\ Finish(Fallback(Problems[problem], EligibilityDetail(Problems[problem])))
    /\ UNCHANGED <<problem, round, samples, untried, proposal, refuted>>

NoAssignment(p) ==
    \/ Assignments(p.guest.inputs, p.host.inputs) = {}
    \/ Assignments(p.guest.outputs, p.host.outputs) = {}

\* Before it searches, _solve_with_verifier falls back if some side has no
\* width-preserving order at all.
BeginSearch ==
    /\ pc = "start"
    /\ Eligible(Problems[problem])
    /\ RequiresVerifierSearch(Problems[problem])
    /\ IF NoAssignment(Problems[problem])
       THEN /\ Finish(Fallback(Problems[problem], "selector_domain_empty"))
            /\ UNCHANGED untried
       ELSE /\ pc' = "search"
            /\ untried' = Mappings[problem]
            /\ UNCHANGED result
    /\ UNCHANGED <<problem, round, samples, proposal, refuted>>

\* Either transfer raises RegisterTransferError.
ExtractionFails ==
    /\ pc = "start"
    /\ Eligible(Problems[problem])
    /\ ~RequiresVerifierSearch(Problems[problem])
    /\ Problems[problem].extraction # "none"
    /\ Finish(Fallback(Problems[problem], Problems[problem].extraction))
    /\ UNCHANGED <<problem, round, samples, untried, proposal, refuted>>

BeginSynthesis ==
    /\ pc = "start"
    /\ Eligible(Problems[problem])
    /\ ~RequiresVerifierSearch(Problems[problem])
    /\ Problems[problem].extraction = "none"
    /\ pc' = "synthesize"
    /\ samples' = {ZeroSample(Problems[problem])}
    /\ UNCHANGED <<problem, round, untried, proposal, result, refuted>>

\* synthesize() finds selectors that satisfy every sample.
Propose ==
    /\ pc = "synthesize"
    /\ round < MaxIterations
    /\ \E m \in Consistent(problem, samples) : proposal' = {m}
    /\ round' = round + 1
    /\ pc' = "verify"
    /\ UNCHANGED <<problem, samples, untried, result, refuted>>

\* synthesize() returns None: an answer, not a fallback.
Unsatisfiable ==
    /\ pc = "synthesize"
    /\ round < MaxIterations
    /\ Consistent(problem, samples) = {}
    /\ Finish(Unsat)
    /\ UNCHANGED <<problem, round, samples, untried, proposal, refuted>>

IterationLimit_Unsat ==   \* mutant: an exhausted loop is reported as a proof
    /\ pc = "synthesize"
    /\ round = MaxIterations
    /\ Finish(Unsat)
    /\ UNCHANGED <<problem, round, samples, untried, proposal, refuted>>

IterationLimit ==
    /\ pc = "synthesize"
    /\ round = MaxIterations
    /\ Finish(Fallback(Problems[problem], "iteration_limit"))
    /\ UNCHANGED <<problem, round, samples, untried, proposal, refuted>>

Accept_Unproved ==   \* mutant: takes any proposal that did not error out
    /\ pc \in {"verify", "searchVerify"}
    /\ \E m \in proposal : Finish(Proved(m))
    /\ UNCHANGED <<problem, round, samples, untried, proposal, refuted>>

\* report.equivalent, in either loop.
Accept ==
    /\ pc \in {"verify", "searchVerify"}
    /\ \E m \in proposal :
        /\ m \in Solutions[problem]
        /\ Finish(Proved(m))
    /\ UNCHANGED <<problem, round, samples, untried, proposal, refuted>>

\* report.status is unsupported or error, in either loop.
Inconclusive ==
    /\ pc \in {"verify", "searchVerify"}
    /\ \E detail \in {"verification_unsupported", "verification_error"} :
        Finish(Fallback(Problems[problem], detail))
    /\ UNCHANGED <<problem, round, samples, untried, proposal, refuted>>

Refused == \E m \in proposal : m \notin Solutions[problem] /\ refuted' = refuted \cup {m}

\* The input vectors the verifier may report for a refused proposal.
Counterexamples ==
    {x \in Inputs[problem] :
        Exact => \E m \in proposal : ~Agrees(Problems[problem], m, x)}

\* No failing check has a counterexample (that of a window without inputs is
\* empty, and counts as none), or it names no value for some guest input.
CounterexampleMissing ==
    /\ pc = "verify"
    /\ Exact => Problems[problem].guest.inputs = <<>>
    /\ Refused
    /\ Finish(Fallback(Problems[problem], "counterexample_missing"))
    /\ UNCHANGED <<problem, round, samples, untried, proposal>>

CounterexampleRepeated ==
    /\ pc = "verify"
    /\ Refused
    /\ \E x \in Counterexamples : x \in samples
    /\ Finish(Fallback(Problems[problem], "counterexample_repeated"))
    /\ UNCHANGED <<problem, round, samples, untried, proposal>>

Learn_Forgets ==   \* mutant: the new sample replaces the others
    /\ pc = "verify"
    /\ Refused
    /\ \E x \in Counterexamples \ samples : samples' = {x}
    /\ pc' = "synthesize"
    /\ UNCHANGED <<problem, round, untried, proposal, result>>

Learn ==
    /\ pc = "verify"
    /\ Refused
    /\ \E x \in Counterexamples \ samples : samples' = samples \cup {x}
    /\ pc' = "synthesize"
    /\ UNCHANGED <<problem, round, untried, proposal, result>>

\* _solve_with_verifier takes the next order that respects the fixed pairs.
SearchNext ==
    /\ pc = "search"
    /\ \E m \in untried : proposal' = {m}
    /\ pc' = "searchVerify"
    /\ UNCHANGED <<problem, round, samples, untried, result, refuted>>

SearchRefused_Stops ==   \* mutant: the first refusal ends the search
    /\ pc = "searchVerify"
    /\ Refused
    /\ untried' = {}
    /\ pc' = "search"
    /\ UNCHANGED <<problem, round, samples, proposal, result>>

SearchRefused_Again ==   \* mutant: a refused mapping stays among the options
    /\ pc = "searchVerify"
    /\ Refused
    /\ pc' = "search"
    /\ UNCHANGED <<problem, round, samples, untried, proposal, result>>

SearchRefused ==
    /\ pc = "searchVerify"
    /\ Refused
    /\ untried' = untried \ proposal
    /\ pc' = "search"
    /\ UNCHANGED <<problem, round, samples, proposal, result>>

SearchExhausted ==
    /\ pc = "search"
    /\ untried = {}
    /\ Finish(Unsat)
    /\ UNCHANGED <<problem, round, samples, untried, proposal, refuted>>

Returned == pc = "done" /\ UNCHANGED vars

Step ==
    \/ Ineligible \/ BeginSearch \/ ExtractionFails
    \/ BeginSynthesis \/ Propose \/ Unsatisfiable \/ IterationLimit
    \/ Accept \/ Inconclusive \/ CounterexampleMissing
    \/ CounterexampleRepeated \/ Learn
    \/ SearchNext \/ SearchRefused \/ SearchExhausted

Next == Step \/ Returned

Spec == Init /\ [][Next]_vars

FairSpec == Spec /\ WF_vars(Step)

(***************************************************************************)
(* Properties.                                                             *)
(***************************************************************************)
TypeOK ==
    /\ problem \in Problem
    /\ pc \in Stage
    /\ round \in 0..MaxIterations
    /\ samples \subseteq Inputs[problem]
    /\ untried \subseteq Mappings[problem]
    /\ proposal \subseteq Mappings[problem]
    /\ refuted \subseteq Mappings[problem]
    /\ result.skip \in Skip
    /\ result.fallback \in Detail
    /\ result.binding \subseteq Mappings[problem] \cup {Positional(Problems[problem])}

\* register_binding_unsat is a proof: it is returned only when no mapping of
\* the window's registers is equivalent, in both loops, however many rounds
\* and whichever counterexamples led there.
UnsatMeansNoBinding ==
    result.skip = "register_binding_unsat" => Solutions[problem] = {}

\* A binding returned without a fallback detail is one the verifier proved,
\* and it contradicts no pair the memory surface had already fixed; a problem
\* with a skip reason carries no binding.
ProvedBindingOnly ==
    /\ pc = "done" /\ result.skip = "none" /\ result.fallback = "none" =>
        result.binding # {} /\ result.binding \subseteq Solutions[problem]
    /\ result.skip # "none" => result.binding = {}

\* With exact counterexamples every sample kills the proposal it came from and
\* the synthesizer never proposes a killed mapping: the loop cannot meet an
\* old sample again.
ExactNeverRepeats ==
    Exact => result.fallback \notin {"counterexample_repeated", "counterexample_missing"}

\* Every round of the loop refutes a mapping of its own, so the round limit
\* can only cut a search whose mapping space is at least that large.
LimitNeedsManyMappings ==
    Exact /\ result.fallback = "iteration_limit" =>
        Cardinality(Mappings[problem]) >= MaxIterations

\* The inductive core of the two above: each completed round has added one
\* mapping to those refuted, and none of these satisfies the samples.
RoundsRefute ==
    Exact /\ pc \in {"synthesize", "verify"} =>
        /\ Cardinality(refuted) = IF pc = "verify" THEN round - 1 ELSE round
        /\ refuted \cap Consistent(problem, samples) = {}

\* A verifier search that ends without a binding has been refused every
\* mapping there is, and no mapping is ever offered twice.
SearchIsExhaustive ==
    RequiresVerifierSearch(Problems[problem]) =>
        /\ result.skip = "register_binding_unsat" => refuted = Mappings[problem]
        /\ pc = "searchVerify" => proposal \cap refuted = {}

\* solve() returns: synthesis is bounded and the search consumes its options.
Termination == <>(pc = "done")

(***************************************************************************)
(* The search implements the promise of BindingSearch.                     *)
(***************************************************************************)
Alive ==
    IF RequiresVerifierSearch(Problems[problem]) /\ pc # "start" /\ Eligible(Problems[problem])
    THEN untried
    ELSE Consistent(problem, samples)

Answer ==
    IF pc # "done" THEN "searching"
    ELSE IF result.fallback # "none" THEN "fallback"
    ELSE IF result.skip # "none" THEN "unsat" ELSE "bound"

Promise == INSTANCE BindingSearch WITH
    Mapping <- UNION {Mappings[i] : i \in Problem},
    truth   <- Solutions[problem],
    alive   <- Alive,
    status  <- Answer,
    bound   <- IF Answer = "bound" THEN result.binding ELSE {}

\* solve() behaves as an honest search: what it drops is not equivalent, what
\* it returns is, and it says "unsat" only when nothing is left.
ImplementsPromise == Promise!Spec
=============================================================================
