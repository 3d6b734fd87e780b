-------------------------- MODULE RegisterCegisProofs --------------------------
(***************************************************************************)
(* Proofs about RegisterCegis, for every set of binding problems and every *)
(* limit.  Lemmas about the data come first, then the inductive invariant  *)
(* (Inv), then the theorems it gives.                                      *)
(***************************************************************************)
EXTENDS RegisterCegis, FiniteSetTheorems, TLAPS

(***************************************************************************)
(* Data.                                                                   *)
(***************************************************************************)
\* The reason for a fallback is always one of the documented details.
LEMMA DetailType == ASSUME NEW p PROVE EligibilityDetail(p) \in Detail
BY DEF EligibilityDetail, Detail

\* An eligible problem has only integer registers, so the all-zero sample the
\* synthesis loop starts from is an input vector of the window.
LEMMA ZeroIsInput ==
    ASSUME NEW i \in Problem, Eligible(Problems[i])
    PROVE  ZeroSample(Problems[i]) \in Inputs[i]
<1> DEFINE p == Problems[i]
           rs == p.guest.inputs
<1>1. rs \in RegisterLists(p)
  BY DEF RegisterLists
<1>2. rs \in Seq(Range(rs)) /\ \A r \in Range(rs) : r.width \in {0} \cup DOMAIN Values
  BY <1>1, ProblemsAssumption DEF WellFormed
<1>3. \A r \in Range(rs) : r.width # 0
  BY <1>1 DEF Eligible, EligibilityDetail
<1>4. \A k \in DOMAIN rs : rs[k].width \in DOMAIN Values
  BY <1>2, <1>3 DEF Range
<1>5. \A k \in DOMAIN rs : 0 \in Values[rs[k].width] /\ 0 \in UNION Range(Values)
  BY <1>4, ValuesAssumption DEF Range
<1>6. ZeroSample(p) \in GuestVectors(p)
  BY <1>5 DEF ZeroSample, GuestVectors
<1>7. QED
  BY <1>6 DEF Inputs

\* A window without guest inputs has one input vector.
LEMMA NoInputsOneVector ==
    ASSUME NEW i \in Problem, Problems[i].guest.inputs = <<>>,
           NEW x \in Inputs[i], NEW y \in Inputs[i]
    PROVE  x = y
<1>1. DOMAIN Problems[i].guest.inputs = {}
  OBVIOUS
<1>2. x \in [{} -> UNION Range(Values)] /\ y \in [{} -> UNION Range(Values)]
  BY <1>1 DEF Inputs, GuestVectors
<1>3. QED
  BY <1>2

\* A solution of a register-only problem satisfies every sample there can be,
\* and every solution is one of the problem's mappings.
LEMMA SolutionsAreConsistent ==
    ASSUME NEW i \in Problem, NEW S \in SUBSET Inputs[i],
           ~RequiresVerifierSearch(Problems[i])
    PROVE  Solutions[i] \subseteq Consistent(i, S)
BY DEF Solutions, Consistent

LEMMA SolutionsAreMappings ==
    ASSUME NEW i \in Problem
    PROVE  Solutions[i] \subseteq Mappings[i]
BY DEF Solutions, Consistent

LEMMA ConsistentAreMappings ==
    ASSUME NEW i, NEW S
    PROVE  Consistent(i, S) \subseteq Mappings[i]
BY DEF Consistent

\* What a fallback returns.
LEMMA FallbackShape ==
    ASSUME NEW i \in Problem, NEW detail \in Detail
    PROVE  LET r == Fallback(Problems[i], detail)
           IN  /\ r.skip \in Skip /\ r.skip # "register_binding_unsat"
               /\ r.fallback = detail
               /\ r.binding \subseteq {Positional(Problems[i])}
               /\ r.skip # "none" => r.binding = {}
BY DEF Fallback, Skip

(***************************************************************************)
(* The inductive invariant.                                                *)
(***************************************************************************)
P == Problems[problem]

\* Where solve() is says which loop it is in and what it has in hand.
Control ==
    /\ pc = "start" => samples = {} /\ untried = {} /\ refuted = {} /\ round = 0
    /\ pc \in {"synthesize", "verify"} => Eligible(P) /\ ~RequiresVerifierSearch(P)
    /\ pc \in {"search", "searchVerify"} => Eligible(P) /\ RequiresVerifierSearch(P)
    /\ pc \in {"synthesize", "verify"} => samples # {}
    /\ pc # "done" => result = NoResult
    /\ pc = "verify" => \E m \in Consistent(problem, samples) : proposal = {m}
    /\ pc = "searchVerify" => \E m \in untried : proposal = {m}

\* In the verifier search the mappings split into those refused and those
\* still to try, and the solutions are among the latter.
Partition ==
    pc \in {"search", "searchVerify"} =>
        /\ refuted = Mappings[problem] \ untried
        /\ Solutions[problem] \subseteq untried

\* What is true of the answer.
Answers == UnsatMeansNoBinding /\ ProvedBindingOnly /\ SearchIsExhaustive

Inv == TypeOK /\ Control /\ Partition /\ Answers

LEMMA InitInv == Init => Inv
<1> SUFFICES ASSUME Init PROVE Inv
  OBVIOUS
<1>1. TypeOK
  BY LimitsAssumption DEF Init, TypeOK, Stage, Skip, Detail, NoResult
<1>2. Control
  BY DEF Init, Control
<1>3. Partition /\ Answers
  BY DEF Init, Partition, Answers, NoResult, UnsatMeansNoBinding, ProvedBindingOnly,
         SearchIsExhaustive
<1>4. QED
  BY <1>1, <1>2, <1>3 DEF Inv

\* Every answer that is a fallback keeps the invariant.
LEMMA FallbackInv ==
    ASSUME Inv, NEW detail \in Detail \ {"none"}, pc # "done",
           Finish(Fallback(P, detail)),
           UNCHANGED <<problem, round, samples, untried, proposal>>,
           refuted' \in SUBSET Mappings[problem]
    PROVE  Inv'
<1> DEFINE r == Fallback(P, detail)
<1>1. problem \in Problem /\ pc' = "done" /\ result' = r /\ P' = P
  BY DEF Inv, TypeOK, Finish, P
<1>2. /\ r.skip \in Skip /\ r.skip # "register_binding_unsat"
      /\ r.fallback = detail
      /\ r.binding \subseteq {Positional(P)}
      /\ r.skip # "none" => r.binding = {}
  BY <1>1, FallbackShape DEF P
<1>3. TypeOK'
  BY <1>1, <1>2 DEF Inv, TypeOK, Stage, P
<1>4. Control' /\ Partition'
  BY <1>1 DEF Control, Partition
<1>5. Answers'
  BY <1>1, <1>2 DEF Answers, UnsatMeansNoBinding, ProvedBindingOnly, SearchIsExhaustive
<1>6. QED
  BY <1>3, <1>4, <1>5 DEF Inv

LEMMA StepInv == Inv /\ [Next]_vars => Inv'
<1> SUFFICES ASSUME Inv, [Next]_vars PROVE Inv'
  OBVIOUS
<1> USE DEF Inv
<1>0. problem \in Problem /\ P = Problems[problem]
  BY DEF TypeOK, P
<1>1. CASE Ineligible
  <2>1. EligibilityDetail(P) \in Detail \ {"none"}
    BY <1>1, DetailType DEF Ineligible, Eligible, P
  <2>2. QED
    BY <1>1, <2>1, FallbackInv DEF Ineligible, P, TypeOK
<1>2. CASE BeginSearch
  <2>1. CASE NoAssignment(P)
    <3>1. "selector_domain_empty" \in Detail \ {"none"}
      BY DEF Detail
    <3>2. QED
      BY <1>2, <2>1, <3>1, FallbackInv DEF BeginSearch, P, TypeOK
  <2>2. CASE ~NoAssignment(P)
    <3>1. /\ pc = "start" /\ pc' = "search" /\ untried' = Mappings[problem]
          /\ Eligible(P) /\ RequiresVerifierSearch(P)
          /\ UNCHANGED <<problem, round, samples, proposal, result, refuted>>
      BY <1>2, <2>2 DEF BeginSearch, P
    <3>2. TypeOK'
      BY <3>1 DEF TypeOK, Stage
    <3>3. Control'
      BY <3>1 DEF Control, P
    <3>4. Partition'
      BY <3>1, <1>0, SolutionsAreMappings DEF Partition, Control
    <3>5. Answers'
      BY <3>1 DEF Answers, Control, NoResult, UnsatMeansNoBinding, ProvedBindingOnly,
                  SearchIsExhaustive
    <3>6. QED
      BY <3>2, <3>3, <3>4, <3>5
  <2>3. QED
    BY <2>1, <2>2
<1>3. CASE ExtractionFails
  <2>1. Problems[problem].extraction \in Detail \ {"none"}
    BY <1>0, <1>3, ProblemsAssumption DEF ExtractionFails, WellFormed, Detail
  <2>2. QED
    BY <1>3, <2>1, FallbackInv DEF ExtractionFails, P, TypeOK
<1>4. CASE BeginSynthesis
  <2>1. /\ pc = "start" /\ pc' = "synthesize" /\ samples' = {ZeroSample(P)}
        /\ Eligible(P) /\ ~RequiresVerifierSearch(P)
        /\ UNCHANGED <<problem, round, untried, proposal, result, refuted>>
    BY <1>4 DEF BeginSynthesis, P
  <2>2. ZeroSample(P) \in Inputs[problem]
    BY <1>0, <2>1, ZeroIsInput
  <2>3. TypeOK'
    BY <2>1, <2>2 DEF TypeOK, Stage
  <2>4. Control' /\ Partition'
    BY <2>1 DEF Control, Partition, P
  <2>5. Answers'
    BY <2>1 DEF Answers, Control, NoResult, UnsatMeansNoBinding, ProvedBindingOnly,
                SearchIsExhaustive
  <2>6. QED
    BY <2>3, <2>4, <2>5
<1>5. CASE Propose
  <2>1. PICK m \in Consistent(problem, samples) : proposal' = {m}
    BY <1>5 DEF Propose
  <2>2. m \in Mappings[problem]
    BY <2>1, ConsistentAreMappings
  <2>3. /\ pc = "synthesize" /\ pc' = "verify" /\ round < MaxIterations
        /\ round' = round + 1
        /\ UNCHANGED <<problem, samples, untried, result, refuted>>
    BY <1>5 DEF Propose
  <2>4. TypeOK'
    BY <2>1, <2>2, <2>3, LimitsAssumption DEF TypeOK, Stage
  <2>5. Consistent(problem, samples)' = Consistent(problem, samples)
    BY <2>3
  <2>6. Control' /\ Partition'
    BY <2>1, <2>3, <2>5 DEF Control, Partition, P
  <2>7. Answers'
    BY <2>3 DEF Answers, Control, NoResult, UnsatMeansNoBinding, ProvedBindingOnly,
                SearchIsExhaustive
  <2>8. QED
    BY <2>4, <2>6, <2>7
<1>6. CASE Unsatisfiable
  <2>1. /\ pc = "synthesize" /\ pc' = "done" /\ result' = Unsat
        /\ Consistent(problem, samples) = {}
        /\ UNCHANGED <<problem, round, samples, untried, proposal, refuted>>
    BY <1>6 DEF Unsatisfiable, Finish
  <2>2. ~RequiresVerifierSearch(P)
    BY <2>1 DEF Control
  <2>3. Solutions[problem] = {}
    BY <1>0, <2>1, <2>2, SolutionsAreConsistent DEF TypeOK
  <2>4. TypeOK'
    BY <2>1 DEF TypeOK, Stage, Unsat, Skip, Detail
  <2>5. Control' /\ Partition'
    BY <2>1 DEF Control, Partition
  <2>6. Answers'
    BY <1>0, <2>1, <2>2, <2>3 DEF Answers, Unsat, UnsatMeansNoBinding, ProvedBindingOnly,
                                  SearchIsExhaustive
  <2>7. QED
    BY <2>4, <2>5, <2>6
<1>7. CASE IterationLimit
  <2>1. "iteration_limit" \in Detail \ {"none"}
    BY DEF Detail
  <2>2. QED
    BY <1>7, <2>1, FallbackInv DEF IterationLimit, P, TypeOK
<1>8. CASE Accept
  <2>1. PICK m \in proposal : m \in Solutions[problem] /\ Finish(Proved(m))
    BY <1>8 DEF Accept
  <2>2. /\ pc' = "done" /\ result' = Proved(m)
        /\ UNCHANGED <<problem, round, samples, untried, proposal, refuted>>
    BY <1>8, <2>1 DEF Accept, Finish
  <2>3. TypeOK'
    BY <1>0, <2>1, <2>2, SolutionsAreMappings DEF TypeOK, Stage, Proved, Skip, Detail
  <2>4. Control' /\ Partition'
    BY <2>2 DEF Control, Partition
  <2>5. Answers'
    BY <2>1, <2>2 DEF Answers, Proved, UnsatMeansNoBinding, ProvedBindingOnly,
                      SearchIsExhaustive
  <2>6. QED
    BY <2>3, <2>4, <2>5
<1>9. CASE Inconclusive
  <2>1. {"verification_unsupported", "verification_error"} \subseteq Detail \ {"none"}
    BY DEF Detail
  <2>2. QED
    BY <1>9, <2>1, FallbackInv DEF Inconclusive, P, TypeOK
<1>10. Refused => refuted' \in SUBSET Mappings[problem]
  BY DEF Refused, TypeOK
<1>11. CASE CounterexampleMissing
  <2>1. "counterexample_missing" \in Detail \ {"none"}
    BY DEF Detail
  <2>2. QED
    BY <1>10, <1>11, <2>1, FallbackInv DEF CounterexampleMissing, P
<1>12. CASE CounterexampleRepeated
  <2>1. "counterexample_repeated" \in Detail \ {"none"}
    BY DEF Detail
  <2>2. QED
    BY <1>10, <1>12, <2>1, FallbackInv DEF CounterexampleRepeated, P
<1>13. CASE Learn
  <2>1. PICK x \in Counterexamples \ samples : samples' = samples \cup {x}
    BY <1>13 DEF Learn
  <2>2. x \in Inputs[problem]
    BY <2>1 DEF Counterexamples
  <2>3. /\ pc = "verify" /\ pc' = "synthesize" /\ refuted' \in SUBSET Mappings[problem]
        /\ UNCHANGED <<problem, round, untried, proposal, result>>
    BY <1>10, <1>13 DEF Learn
  <2>4. TypeOK'
    BY <2>1, <2>2, <2>3 DEF TypeOK, Stage
  <2>5. Control' /\ Partition'
    BY <2>1, <2>3 DEF Control, Partition, P
  <2>6. Answers'
    BY <2>3 DEF Answers, Control, NoResult, UnsatMeansNoBinding, ProvedBindingOnly,
                SearchIsExhaustive
  <2>7. QED
    BY <2>4, <2>5, <2>6
<1>14. CASE SearchNext
  <2>1. PICK m \in untried : proposal' = {m}
    BY <1>14 DEF SearchNext
  <2>2. /\ pc = "search" /\ pc' = "searchVerify"
        /\ UNCHANGED <<problem, round, samples, untried, result, refuted>>
    BY <1>14 DEF SearchNext
  <2>3. TypeOK'
    BY <2>1, <2>2 DEF TypeOK, Stage
  <2>4. Control' /\ Partition'
    BY <2>1, <2>2 DEF Control, Partition, P
  <2>5. proposal' \cap refuted' = {}
    BY <2>1, <2>2 DEF Partition
  <2>6. Answers'
    BY <2>2, <2>5 DEF Answers, Control, NoResult, UnsatMeansNoBinding, ProvedBindingOnly,
                SearchIsExhaustive
  <2>7. QED
    BY <2>3, <2>4, <2>6
<1>15. CASE SearchRefused
  <2>1. PICK m \in proposal : m \notin Solutions[problem] /\ refuted' = refuted \cup {m}
    BY <1>15 DEF SearchRefused, Refused
  <2>2. /\ pc = "searchVerify" /\ pc' = "search" /\ untried' = untried \ proposal
        /\ UNCHANGED <<problem, round, samples, proposal, result>>
    BY <1>15 DEF SearchRefused
  <2>3. proposal = {m} /\ m \in untried
    BY <2>1, <2>2 DEF Control
  <2>4. TypeOK'
    BY <2>1, <2>2, <2>3 DEF TypeOK, Stage
  <2>5. Control'
    BY <2>2 DEF Control, P
  <2>6. Partition'
    BY <2>1, <2>2, <2>3 DEF Partition, TypeOK
  <2>7. Answers'
    BY <2>2 DEF Answers, Control, NoResult, UnsatMeansNoBinding, ProvedBindingOnly,
                SearchIsExhaustive
  <2>8. QED
    BY <2>4, <2>5, <2>6, <2>7
<1>16. CASE SearchExhausted
  <2>1. /\ pc = "search" /\ pc' = "done" /\ result' = Unsat /\ untried = {}
        /\ UNCHANGED <<problem, round, samples, untried, proposal, refuted>>
    BY <1>16 DEF SearchExhausted, Finish
  <2>2. refuted = Mappings[problem] /\ Solutions[problem] = {}
    BY <2>1 DEF Partition
  <2>3. TypeOK'
    BY <2>1 DEF TypeOK, Stage, Unsat, Skip, Detail
  <2>4. Control' /\ Partition'
    BY <2>1 DEF Control, Partition
  <2>5. Answers'
    BY <2>1, <2>2 DEF Answers, Unsat, UnsatMeansNoBinding, ProvedBindingOnly,
                      SearchIsExhaustive
  <2>6. QED
    BY <2>3, <2>4, <2>5
<1>17. CASE UNCHANGED vars
  BY <1>17 DEF vars, TypeOK, Control, Partition, Answers, P, UnsatMeansNoBinding,
               ProvedBindingOnly, SearchIsExhaustive
<1>18. QED
  BY <1>1, <1>2, <1>3, <1>4, <1>5, <1>6, <1>7, <1>8, <1>9, <1>11, <1>12, <1>13, <1>14,
     <1>15, <1>16, <1>17 DEF Next, Step, Returned

THEOREM Invariance == Spec => []Inv
BY InitInv, StepInv, PTL DEF Spec

\* solve() keeps its state well typed: what it proposes and refuses are
\* width-preserving mappings, and its samples are input vectors of the window.
THEOREM TypeCorrect == Spec => []TypeOK
<1>1. Inv => TypeOK
  BY DEF Inv
<1>2. QED
  BY <1>1, Invariance, PTL

\* register_binding_unsat is a proof that no mapping works.
THEOREM UnsatIsAProof == Spec => []UnsatMeansNoBinding
<1>1. Inv => UnsatMeansNoBinding
  BY DEF Inv, Answers
<1>2. QED
  BY <1>1, Invariance, PTL

\* A binding returned without a fallback detail has been proved.
THEOREM BindingIsProved == Spec => []ProvedBindingOnly
<1>1. Inv => ProvedBindingOnly
  BY DEF Inv, Answers
<1>2. QED
  BY <1>1, Invariance, PTL

\* The verifier search tries every mapping, none twice.
THEOREM SearchCoversMappings == Spec => []SearchIsExhaustive
<1>1. Inv => SearchIsExhaustive
  BY DEF Inv, Answers
<1>2. QED
  BY <1>1, Invariance, PTL

(***************************************************************************)
(* Rounds.                                                                 *)
(***************************************************************************)
\* Under exact counterexamples the rounds begun count the mappings refuted,
\* and the samples exclude all of these.
Rounds ==
    Exact =>
        /\ pc \in {"start", "synthesize", "verify"} =>
            /\ IsFiniteSet(refuted)
            /\ Cardinality(refuted) = IF pc = "verify" THEN round - 1 ELSE round
            /\ refuted \cap Consistent(problem, samples) = {}
        /\ result.fallback = "iteration_limit" =>
            Cardinality(refuted) = MaxIterations
        /\ result.fallback \notin {"counterexample_repeated", "counterexample_missing"}

LEMMA InitRounds == Init => Rounds
BY FS_EmptySet DEF Init, Rounds, NoResult

\* An answer that has nothing to do with counterexamples keeps Rounds.
LEMMA OtherAnswer ==
    ASSUME pc' = "done",
           result'.fallback \notin {"iteration_limit", "counterexample_repeated",
                                   "counterexample_missing"}
    PROVE  Rounds'
BY DEF Rounds

LEMMA EligibilityIsOther ==
    ASSUME NEW p
    PROVE  EligibilityDetail(p) \notin {"iteration_limit", "counterexample_repeated",
                                       "counterexample_missing"}
BY DEF EligibilityDetail

LEMMA StepRounds == Inv /\ Rounds /\ [Next]_vars => Rounds'
<1> SUFFICES ASSUME Inv, Rounds, [Next]_vars PROVE Rounds'
  OBVIOUS
<1>0. problem \in Problem
  BY DEF Inv, TypeOK
<1>1. CASE Ineligible
  <2>1. result'.fallback = EligibilityDetail(P) /\ pc' = "done"
    BY <1>1 DEF Ineligible, Finish, Fallback, P
  <2>2. QED
    BY <2>1, EligibilityIsOther, OtherAnswer
<1>2. CASE BeginSearch
  <2>1. CASE NoAssignment(P)
    BY <1>2, <2>1, OtherAnswer DEF BeginSearch, Finish, Fallback, P
  <2>2. CASE ~NoAssignment(P)
    <3>1. pc' = "search" /\ result' = NoResult
      BY <1>2, <2>2 DEF BeginSearch, P, Inv, Control
    <3>2. QED
      BY <3>1 DEF Rounds, NoResult
  <2>3. QED
    BY <2>1, <2>2
<1>3. CASE ExtractionFails
  <2>1. result'.fallback = Problems[problem].extraction /\ pc' = "done"
    BY <1>3 DEF ExtractionFails, Finish, Fallback
  <2>2. QED
    BY <1>0, <2>1, ProblemsAssumption, OtherAnswer DEF WellFormed
<1>4. CASE BeginSynthesis
  <2>1. /\ pc' = "synthesize" /\ result' = NoResult
        /\ refuted' = {} /\ round' = 0
    BY <1>4 DEF BeginSynthesis, Inv, Control
  <2>2. QED
    BY <2>1, FS_EmptySet DEF Rounds, NoResult
<1>5. CASE Propose
  <2>1. /\ pc = "synthesize" /\ pc' = "verify" /\ round' = round + 1
        /\ UNCHANGED <<problem, samples, result, refuted>>
    BY <1>5 DEF Propose
  <2>2. Consistent(problem, samples)' = Consistent(problem, samples)
    BY <2>1
  <2>3. round \in Int
    BY LimitsAssumption DEF Inv, TypeOK
  <2>4. QED
    BY <2>1, <2>2, <2>3 DEF Rounds
<1>6. CASE Unsatisfiable
  BY <1>6, OtherAnswer DEF Unsatisfiable, Finish, Unsat
<1>7. CASE IterationLimit
  <2>1. /\ pc = "synthesize" /\ pc' = "done" /\ round = MaxIterations
        /\ result'.fallback = "iteration_limit" /\ refuted' = refuted
    BY <1>7 DEF IterationLimit, Finish, Fallback
  <2>2. QED
    BY <2>1 DEF Rounds
<1>8. CASE Accept
  BY <1>8, OtherAnswer DEF Accept, Finish, Proved
<1>9. CASE Inconclusive
  BY <1>9, OtherAnswer DEF Inconclusive, Finish, Fallback
<1>10. CASE CounterexampleMissing
  <2>1. pc = "verify" /\ samples # {} /\ Eligible(P) /\ ~RequiresVerifierSearch(P)
    BY <1>10 DEF CounterexampleMissing, Inv, Control
  <2>2. PICK m \in Consistent(problem, samples) : proposal = {m}
    BY <2>1 DEF Inv, Control
  <2>3. m \notin Solutions[problem]
    BY <1>10, <2>2 DEF CounterexampleMissing, Refused
  <2>4. CASE Problems[problem].guest.inputs = <<>>
    \* without inputs there is one input vector, and it is a sample already
    <3>1. Inputs[problem] \subseteq samples
      BY <1>0, <2>1, <2>4, NoInputsOneVector DEF Inv, TypeOK, P
    <3>2. m \in Consistent(problem, Inputs[problem])
      BY <2>2, <3>1 DEF Consistent
    <3>3. QED
      BY <1>0, <2>1, <2>3, <3>2 DEF Solutions, P
  <2>5. CASE ~Exact
    BY <2>5 DEF Rounds
  <2>6. QED
    BY <1>10, <2>4, <2>5 DEF CounterexampleMissing
<1>11. CASE CounterexampleRepeated
  <2>1. pc = "verify" /\ \E x \in Counterexamples : x \in samples
    BY <1>11 DEF CounterexampleRepeated
  <2>2. PICK m \in Consistent(problem, samples) : proposal = {m}
    BY <2>1 DEF Inv, Control
  <2>3. \A x \in samples : Agrees(Problems[problem], m, x)
    BY <2>2 DEF Consistent
  <2>4. ~Exact   \* an old sample cannot violate a mapping consistent with it
    BY <2>1, <2>2, <2>3 DEF Counterexamples
  <2>5. QED
    BY <2>4 DEF Rounds
<1>12. CASE Learn
  <2>1. PICK x \in Counterexamples : samples' = samples \cup {x}
    BY <1>12 DEF Learn
  <2>2. PICK m \in Consistent(problem, samples) : proposal = {m}
    BY <1>12 DEF Learn, Inv, Control
  <2>3. /\ pc = "verify" /\ pc' = "synthesize" /\ refuted' = refuted \cup {m}
        /\ UNCHANGED <<problem, round>> /\ result' = NoResult
    BY <1>12, <2>2 DEF Learn, Refused, Inv, Control
  <2>4. SUFFICES ASSUME Exact PROVE Rounds'
    BY DEF Rounds
  <2>5. ~Agrees(Problems[problem], m, x)
    BY <2>1, <2>2, <2>4 DEF Counterexamples
  <2>6. m \notin refuted /\ IsFiniteSet(refuted) /\ Cardinality(refuted) = round - 1
    BY <2>2, <2>3, <2>4 DEF Rounds
  <2>7. IsFiniteSet(refuted') /\ Cardinality(refuted') = Cardinality(refuted) + 1
    BY <2>3, <2>6, FS_AddElement
  <2>8. round \in Int
    BY LimitsAssumption DEF Inv, TypeOK
  <2>9. Consistent(problem, samples)' = Consistent(problem, samples) \ {c \in Mappings[problem] :
                                           ~Agrees(Problems[problem], c, x)}
    BY <2>1, <2>3 DEF Consistent
  <2>10. refuted' \cap Consistent(problem, samples)' = {}
    BY <2>2, <2>3, <2>4, <2>5, <2>9, ConsistentAreMappings DEF Rounds
  <2>11. QED
    BY <2>3, <2>4, <2>6, <2>7, <2>8, <2>10 DEF Rounds, NoResult
<1>13. CASE SearchNext
  BY <1>13 DEF SearchNext, Rounds, Inv, Control, NoResult
<1>14. CASE SearchRefused
  BY <1>14 DEF SearchRefused, Rounds, Inv, Control, NoResult
<1>15. CASE SearchExhausted
  BY <1>15, OtherAnswer DEF SearchExhausted, Finish, Unsat
<1>16. CASE UNCHANGED vars
  BY <1>16 DEF vars, Rounds
<1>17. QED
  BY <1>1, <1>2, <1>3, <1>4, <1>5, <1>6, <1>7, <1>8, <1>9, <1>10, <1>11, <1>12, <1>13,
     <1>14, <1>15, <1>16 DEF Next, Step, Returned

LEMMA RoundsInvariance == Spec => [](Inv /\ Rounds)
<1>1. Init => Inv /\ Rounds
  BY InitInv, InitRounds
<1>2. Inv /\ Rounds /\ [Next]_vars => (Inv /\ Rounds)'
  BY StepInv, StepRounds
<1>3. QED
  BY <1>1, <1>2, PTL DEF Spec

\* Each round of the loop has refuted a mapping of its own.
THEOREM RoundsCountMappings == Spec => []RoundsRefute
<1>1. Rounds => RoundsRefute
  BY DEF Rounds, RoundsRefute
<1>2. QED
  BY <1>1, RoundsInvariance, PTL

\* The loop never meets a sample it already has.
THEOREM NoRepeatedSample == Spec => []ExactNeverRepeats
<1>1. Rounds => ExactNeverRepeats
  BY DEF Rounds, ExactNeverRepeats
<1>2. QED
  BY <1>1, RoundsInvariance, PTL

\* Only a space of at least max_iterations mappings is cut by the limit.
THEOREM LimitIsGenerous == Spec => []LimitNeedsManyMappings
<1>1. Inv /\ Rounds => LimitNeedsManyMappings
  <2> SUFFICES ASSUME Inv, Rounds, Exact, result.fallback = "iteration_limit"
               PROVE  Cardinality(Mappings[problem]) >= MaxIterations
    BY DEF LimitNeedsManyMappings
  <2>1. refuted \subseteq Mappings[problem] /\ IsFiniteSet(Mappings[problem])
    BY FiniteMappings DEF Inv, TypeOK
  <2>2. Cardinality(refuted) <= Cardinality(Mappings[problem])
    BY <2>1, FS_Subset
  <2>3. Cardinality(refuted) = MaxIterations
    BY DEF Rounds
  <2>4. Cardinality(Mappings[problem]) \in Nat
    BY <2>1, FS_CardinalityType
  <2>5. QED
    BY <2>2, <2>3, <2>4, LimitsAssumption
<1>2. QED
  BY <1>1, RoundsInvariance, PTL

(***************************************************************************)
(* Refinement.                                                             *)
(***************************************************************************)
LEMMA InitPromise == Init => Promise!Init
<1> SUFFICES ASSUME Init PROVE Promise!Init
  OBVIOUS
<1>1. problem \in Problem /\ pc = "start" /\ samples = {}
  BY DEF Init
<1>2. Alive = Mappings[problem]
  BY <1>1 DEF Alive, Consistent
<1>3. Solutions[problem] \subseteq Alive
  BY <1>1, <1>2, SolutionsAreMappings
<1>4. Answer = "searching"
  BY <1>1 DEF Answer
<1>5. QED
  BY <1>1, <1>2, <1>3, <1>4 DEF Promise!Init

\* An abandoned search is one that promised nothing.
LEMMA FallbackGivesUp ==
    ASSUME pc # "done", pc' = "done", problem' = problem, Alive' = Alive,
           NEW detail \in Detail \ {"none"}, result' = Fallback(P, detail)
    PROVE  Promise!Next
<1>1. Answer = "searching" /\ Answer' = "fallback"
  BY DEF Answer, Fallback
<1>2. QED
  BY <1>1 DEF Promise!Next, Promise!GiveUp

\* A step that neither answers nor changes what is alive is invisible.
LEMMA Invisible ==
    ASSUME pc # "done", pc' # "done", problem' = problem, Alive' = Alive
    PROVE  UNCHANGED Promise!vars
BY DEF Promise!vars, Answer

\* A step that only removes mappings that are no solutions is a refutation.
LEMMA Refutes ==
    ASSUME pc # "done", pc' # "done", problem' = problem,
           Alive' \subseteq Alive, Solutions[problem] \subseteq Alive'
    PROVE  [Promise!Next]_(Promise!vars)
<1>1. CASE Alive' = Alive
  BY <1>1, Invisible
<1>2. CASE Alive' # Alive
  <2>1. Answer = "searching" /\ Answer' = "searching"
    BY DEF Answer
  <2>2. Promise!Refute
    BY <1>2, <2>1 DEF Promise!Refute
  <2>3. QED
    BY <2>2 DEF Promise!Next
<1>3. QED
  BY <1>1, <1>2

LEMMA StepPromise == Inv /\ [Next]_vars => [Promise!Next]_(Promise!vars)
<1> SUFFICES ASSUME Inv, [Next]_vars PROVE [Promise!Next]_(Promise!vars)
  OBVIOUS
<1>0. problem \in Problem /\ P = Problems[problem]
  BY DEF Inv, TypeOK, P
<1>1. CASE Ineligible
  <2>1. EligibilityDetail(P) \in Detail \ {"none"} /\ ~Eligible(P)
    BY <1>1, DetailType DEF Ineligible, Eligible, P
  <2>2. Alive' = Alive
    BY <1>1, <2>1 DEF Ineligible, Alive, Consistent, P
  <2>3. QED
    BY <1>1, <2>1, <2>2, FallbackGivesUp DEF Ineligible, Finish, P
<1>2. CASE BeginSearch
  <2>1. pc = "start" /\ samples = {} /\ untried = {} /\ Alive = Mappings[problem]
    BY <1>2 DEF BeginSearch, Inv, Control, Alive, Consistent
  <2>2. CASE NoAssignment(P)
    <3>1. Mappings[problem] = {}
      BY <1>0, <2>2 DEF NoAssignment, Mappings, MappingsOf
    <3>2. Alive' = {}
      BY <1>2, <2>1, <2>2 DEF BeginSearch, Alive, P, Finish
    <3>3. "selector_domain_empty" \in Detail \ {"none"}
      BY DEF Detail
    <3>4. QED
      BY <1>2, <2>1, <2>2, <3>1, <3>2, <3>3, FallbackGivesUp DEF BeginSearch, Finish, P
  <2>3. CASE ~NoAssignment(P)
    <3>1. pc' = "search" /\ problem' = problem /\ Alive' = Mappings[problem]
      BY <1>2, <2>3 DEF BeginSearch, Alive, P
    <3>2. QED
      BY <2>1, <3>1, Invisible
  <2>4. QED
    BY <2>2, <2>3
<1>3. CASE ExtractionFails
  <2>1. Problems[problem].extraction \in Detail \ {"none"}
    BY <1>0, <1>3, ProblemsAssumption DEF ExtractionFails, WellFormed, Detail
  <2>2. Alive' = Alive
    BY <1>3 DEF ExtractionFails, Alive, Consistent
  <2>3. QED
    BY <1>3, <2>1, <2>2, FallbackGivesUp DEF ExtractionFails, Finish, P
<1>4. CASE BeginSynthesis
  <2>1. /\ pc = "start" /\ pc' = "synthesize" /\ samples' = {ZeroSample(P)}
        /\ samples = {} /\ problem' = problem
        /\ Eligible(P) /\ ~RequiresVerifierSearch(P)
    BY <1>4 DEF BeginSynthesis, Inv, Control, P
  <2>2. Alive = Mappings[problem] /\ Alive' = Consistent(problem, {ZeroSample(P)})
    BY <2>1 DEF Alive, Consistent, P
  <2>3. {ZeroSample(P)} \subseteq Inputs[problem]
    BY <1>0, <2>1, ZeroIsInput
  <2>4. Solutions[problem] \subseteq Alive' /\ Alive' \subseteq Alive
    BY <1>0, <2>1, <2>2, <2>3, SolutionsAreConsistent, ConsistentAreMappings
  <2>5. QED
    BY <2>1, <2>4, Refutes
<1>5. CASE Propose
  <2>1. /\ pc = "synthesize" /\ pc' = "verify"
        /\ UNCHANGED <<problem, samples, untried>>
    BY <1>5 DEF Propose
  <2>2. Alive' = Alive
    BY <2>1 DEF Alive, Consistent
  <2>3. QED
    BY <2>1, <2>2, Invisible
<1>6. CASE Unsatisfiable
  <2>1. /\ pc = "synthesize" /\ pc' = "done" /\ result' = Unsat
        /\ Consistent(problem, samples) = {} /\ ~RequiresVerifierSearch(P)
        /\ UNCHANGED <<problem, samples>>
    BY <1>6 DEF Unsatisfiable, Finish, Inv, Control
  <2>2. Alive = {} /\ Alive' = {}
    BY <2>1 DEF Alive, Consistent, P
  <2>3. Answer = "searching" /\ Answer' = "unsat"
    BY <2>1 DEF Answer, Unsat
  <2>4. Promise!Exhaust
    BY <2>1, <2>2, <2>3 DEF Promise!Exhaust
  <2>5. QED
    BY <2>4 DEF Promise!Next
<1>7. CASE IterationLimit
  <2>1. "iteration_limit" \in Detail \ {"none"} /\ Alive' = Alive
    BY <1>7 DEF Detail, IterationLimit, Finish, Alive, Consistent
  <2>2. QED
    BY <1>7, <2>1, FallbackGivesUp DEF IterationLimit, Finish, P
<1>8. CASE Accept
  <2>1. PICK m \in proposal : m \in Solutions[problem] /\ result' = Proved(m)
    BY <1>8 DEF Accept, Finish
  <2>2. pc \in {"verify", "searchVerify"} /\ pc' = "done" /\ problem' = problem
    BY <1>8 DEF Accept, Finish
  <2>3. Alive' = Alive
    BY <1>8, <2>2 DEF Accept, Alive, Consistent
  <2>4. Answer = "searching" /\ Answer' = "bound" /\ result'.binding = {m}
    BY <2>1, <2>2 DEF Answer, Proved
  <2>5. Promise!Accept
    BY <2>1, <2>2, <2>3, <2>4 DEF Promise!Accept
  <2>6. QED
    BY <2>5 DEF Promise!Next
<1>9. CASE Inconclusive
  <2>1. {"verification_unsupported", "verification_error"} \subseteq Detail \ {"none"}
    BY DEF Detail
  <2>2. PICK detail \in {"verification_unsupported", "verification_error"} :
            result' = Fallback(P, detail)
    BY <1>9 DEF Inconclusive, Finish, P
  <2>3. /\ pc # "done" /\ pc' = "done" /\ problem' = problem
        /\ Alive' = Alive
    BY <1>9 DEF Inconclusive, Finish, Alive, Consistent
  <2>4. QED
    BY <2>1, <2>2, <2>3, FallbackGivesUp
<1>10. CASE CounterexampleMissing
  <2>1. "counterexample_missing" \in Detail \ {"none"} /\ Alive' = Alive
    BY <1>10 DEF Detail, CounterexampleMissing, Finish, Alive, Consistent
  <2>2. QED
    BY <1>10, <2>1, FallbackGivesUp DEF CounterexampleMissing, Finish, P
<1>11. CASE CounterexampleRepeated
  <2>1. "counterexample_repeated" \in Detail \ {"none"} /\ Alive' = Alive
    BY <1>11 DEF Detail, CounterexampleRepeated, Finish, Alive, Consistent
  <2>2. QED
    BY <1>11, <2>1, FallbackGivesUp DEF CounterexampleRepeated, Finish, P
<1>12. CASE Learn
  <2>1. PICK x \in Counterexamples : samples' = samples \cup {x}
    BY <1>12 DEF Learn
  <2>2. /\ pc = "verify" /\ pc' = "synthesize" /\ problem' = problem
        /\ ~RequiresVerifierSearch(P)
    BY <1>12 DEF Learn, Inv, Control
  <2>3. samples' \subseteq Inputs[problem]
    BY <2>1 DEF Counterexamples, Inv, TypeOK
  <2>4. Alive = Consistent(problem, samples) /\ Alive' = Consistent(problem, samples')
    BY <2>2 DEF Alive, Consistent, P
  <2>5. Alive' \subseteq Alive
    BY <2>1, <2>4 DEF Consistent
  <2>6. Solutions[problem] \subseteq Alive'
    BY <1>0, <2>2, <2>3, <2>4, SolutionsAreConsistent
  <2>7. QED
    BY <2>2, <2>5, <2>6, Refutes
<1>13. CASE SearchNext
  <2>1. pc = "search" /\ pc' = "searchVerify" /\ UNCHANGED <<problem, samples, untried>>
    BY <1>13 DEF SearchNext
  <2>2. Alive' = Alive
    BY <2>1 DEF Alive, Consistent
  <2>3. QED
    BY <2>1, <2>2, Invisible
<1>14. CASE SearchRefused
  <2>1. PICK m \in proposal : m \notin Solutions[problem]
    BY <1>14 DEF SearchRefused, Refused
  <2>2. /\ pc = "searchVerify" /\ pc' = "search" /\ problem' = problem
        /\ untried' = untried \ proposal
        /\ Eligible(P) /\ RequiresVerifierSearch(P)
        /\ Solutions[problem] \subseteq untried
    BY <1>14 DEF SearchRefused, Inv, Control, Partition
  <2>3. proposal = {m}
    BY <2>1, <2>2 DEF Inv, Control
  <2>4. Alive = untried /\ Alive' = untried \ {m}
    BY <2>2, <2>3 DEF Alive, P
  <2>5. QED
    BY <2>1, <2>2, <2>4, Refutes
<1>15. CASE SearchExhausted
  <2>1. /\ pc = "search" /\ pc' = "done" /\ result' = Unsat /\ untried = {} /\ untried' = {}
        /\ problem' = problem /\ Eligible(P) /\ RequiresVerifierSearch(P)
    BY <1>15 DEF SearchExhausted, Finish, Inv, Control
  <2>2. Alive = {} /\ Alive' = {}
    BY <2>1 DEF Alive, P
  <2>3. Answer = "searching" /\ Answer' = "unsat"
    BY <2>1 DEF Answer, Unsat
  <2>4. Promise!Exhaust
    BY <2>1, <2>2, <2>3 DEF Promise!Exhaust
  <2>5. QED
    BY <2>4 DEF Promise!Next
<1>16. CASE UNCHANGED vars
  BY <1>16 DEF vars, Promise!vars, Answer, Alive, Consistent
<1>17. QED
  BY <1>1, <1>2, <1>3, <1>4, <1>5, <1>6, <1>7, <1>8, <1>9, <1>10, <1>11, <1>12, <1>13,
     <1>14, <1>15, <1>16 DEF Next, Step, Returned

\* solve() implements the promise of BindingSearch.
THEOREM Implements == Spec => ImplementsPromise
<1>1. Init => Promise!Init
  BY InitPromise
<1>2. Inv /\ [Next]_vars => [Promise!Next]_(Promise!vars)
  BY StepPromise
<1>3. QED
  BY <1>1, <1>2, Invariance, PTL DEF Spec, ImplementsPromise, Promise!Spec

\* A search that never refutes a true mapping keeps its promise.
LEMMA PromiseIsRight == Promise!Spec => []Promise!AnswerIsRight
<1>1. Promise!Init => Promise!Honest
  BY DEF Promise!Init, Promise!Honest, Promise!AnswerIsRight
<1>2. Promise!Honest /\ [Promise!Next]_(Promise!vars) => Promise!Honest'
  <2> SUFFICES ASSUME Promise!Honest, [Promise!Next]_(Promise!vars) PROVE Promise!Honest'
    OBVIOUS
  <2>1. CASE Promise!Refute
    BY <2>1 DEF Promise!Refute, Promise!Honest, Promise!AnswerIsRight
  <2>2. CASE Promise!Accept
    BY <2>2 DEF Promise!Accept, Promise!Honest, Promise!AnswerIsRight
  <2>3. CASE Promise!Exhaust
    BY <2>3 DEF Promise!Exhaust, Promise!Honest, Promise!AnswerIsRight
  <2>4. CASE Promise!GiveUp
    BY <2>4 DEF Promise!GiveUp, Promise!Honest, Promise!AnswerIsRight
  <2>5. CASE UNCHANGED Promise!vars
    BY <2>5 DEF Promise!vars, Promise!Honest, Promise!AnswerIsRight
  <2>6. QED
    BY <2>1, <2>2, <2>3, <2>4, <2>5 DEF Promise!Next
<1>3. Promise!Honest => Promise!AnswerIsRight
  BY DEF Promise!Honest
<1>4. QED
  BY <1>1, <1>2, <1>3, PTL DEF Promise!Spec

\* Whoever calls solve() may rely on its answer: "unsat" only when no mapping of the
\* window is equivalent, and a binding that is returned is one of those that are.
THEOREM AnswersAreRight == Spec => []Promise!AnswerIsRight
BY Implements, PromiseIsRight, PTL DEF ImplementsPromise
=============================================================================
