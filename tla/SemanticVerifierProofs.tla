----------------------- MODULE SemanticVerifierProofs -----------------------
(***************************************************************************)
(* What SemanticVerifier reports is sound, for every set of candidates.    *)
(*                                                                         *)
(* The argument: the states verify() explores include all the states in    *)
(* which the paired registers agree (RelatedIsExplored), so a check that   *)
(* passes on the explored states holds on the related ones; and while all  *)
(* checks passed, everything verify() has got past holds on the explored   *)
(* states (Inv).                                                           *)
(*                                                                         *)
(* And the memory it is given: every slot has its place before a fragment  *)
(* runs (BasesInv), slots share a place when aliases link them and are     *)
(* apart otherwise (SharingInv), and both memories are what the events     *)
(* recorded made of one, so equal events are equal effects (EffectsInv).   *)
(***************************************************************************)
EXTENDS SemanticVerifier, VerifierMemory, DataInduction, NaturalsInduction

(***************************************************************************)
(* Shared inputs.                                                          *)
(***************************************************************************)
\* LastOf really is the last of a non-empty set of positions.
LEMMA LastOfIsLast ==
    ASSUME NEW n \in Nat, NEW ks \in SUBSET (1..n), ks # {}
    PROVE  LastOf(ks) \in ks
<1> DEFINE T == {n - k : k \in ks}
<1>1. PICK R : IsWellFoundedOn(R, Nat) /\ \A a, b \in Nat : a < b => <<a, b>> \in R
  <2>1. \A a, b \in Nat : a < b => <<a, b>> \in OpToRel(<, Nat)
    BY Zenon DEF OpToRel
  <2> QED BY <2>1, NatLessThanWellFounded, Zenon
<1>2. T \subseteq Nat /\ T # {}
  <2>1. \A k \in ks : n - k \in Nat
    OBVIOUS
  <2> QED BY <2>1
<1>3. PICK x \in T : \A y \in T : ~(<<y, x>> \in R)
  <2> HIDE DEF T
  <2>1. IsWellFoundedOn(R, Nat)
    BY <1>1
  <2> QED BY <1>2, <2>1, WFMin
<1>4. PICK k \in ks : x = n - k
  BY <1>3
<1>5. ASSUME NEW j \in ks
      PROVE  j <= k
  <2>1. n - j \in T
    OBVIOUS
  <2>2. n - j \in Nat /\ x \in Nat /\ j \in Nat /\ k \in Nat
    BY <1>2, <1>3, <2>1
  <2>3. ~(n - j < x)
    BY <1>1, <1>3, <2>1, <2>2
  <2> QED BY <1>4, <2>2, <2>3
<1> QED BY <1>4, <1>5 DEF LastOf

\* A sequence over a set has its entries in the set.
LEMMA EntryOfSeq ==
    ASSUME NEW S, NEW q \in Seq(S), NEW k \in DOMAIN q
    PROVE  q[k] \in S
OBVIOUS

\* Halves of registers that share an input have the same value in every
\* state in which the paired registers agree: no related state is missed.
LEMMA RelatedIsExplored ==
    ASSUME NEW c \in Candidates, SameWidths(c)
    PROVE  Related[c.inputs] \subseteq Explored[c.inputs]
<1> DEFINE inputs == c.inputs
           from == Provenance(inputs)
<1>1. /\ inputs \in Seq([guest : Register, host : Register])
      /\ inputs \in InputLists
  BY CandidateTypes DEF InputLists
<1>2. ASSUME NEW s \in Related[inputs], NEW l \in Location, NEW m \in Location,
             from[l] = from[m]
      PROVE  s[l] = s[m]
  <2>1. /\ s \in State
        /\ \A k \in DOMAIN inputs : \A half \in {0, 1} :
              half < inputs[k].guest.width /\ half < inputs[k].host.width =>
                s[<<"guest", inputs[k].guest.family, half>>] =
                s[<<"host", inputs[k].host.family, half>>]
    BY <1>1, <1>2 DEF Related
  <2>2. ASSUME NEW x \in Location
        PROVE  \/ from[x] = <<"free", x>>
               \/ \E k \in DOMAIN inputs :
                    /\ inputs[k][x[1]].family = x[2]
                    /\ \/ from[x] = <<"fresh", k, x>>
                       \/ /\ from[x] = <<"symbol", k, x[3]>>
                          /\ x[3] < SymbolWidth(inputs[k])
    <3>1. CASE Writers(inputs, x) = {}
      BY <3>1 DEF Provenance
    <3>2. CASE Writers(inputs, x) # {}
      <4> DEFINE k == LastOf(Writers(inputs, x))
      <4>1. /\ Len(inputs) \in Nat
            /\ DOMAIN inputs = 1..Len(inputs)
        BY <1>1
      <4>2. Writers(inputs, x) \in SUBSET (1..Len(inputs))
        BY <4>1 DEF Writers
      <4>3. k \in Writers(inputs, x)
        BY <3>2, <4>1, <4>2, LastOfIsLast
      <4>4. k \in DOMAIN inputs /\ inputs[k][x[1]].family = x[2]
        BY <4>3 DEF Writers
      <4>5. from[x] = HalfFrom(inputs[k], k, x)
        BY <3>2 DEF Provenance
      <4> QED BY <4>4, <4>5 DEF HalfFrom
    <3> QED BY <3>1, <3>2
  <2>3. CASE l = m
    BY <2>3
  <2>4. CASE l # m
    <3>1. PICK k \in DOMAIN inputs :
            /\ inputs[k][l[1]].family = l[2]
            /\ inputs[k][m[1]].family = m[2]
            /\ l[3] = m[3] /\ l[3] < SymbolWidth(inputs[k])
      <4>1. from[l] # <<"free", l>>
        BY <1>2, <2>2, <2>4
      <4>2. PICK j \in DOMAIN inputs :
              /\ inputs[j][l[1]].family = l[2]
              /\ from[l] = <<"symbol", j, l[3]>>
              /\ l[3] < SymbolWidth(inputs[j])
        BY <1>2, <2>2, <2>4, <4>1
      <4>3. /\ from[m] = <<"symbol", j, m[3]>>
            /\ l[3] = m[3]
            /\ inputs[j][m[1]].family = m[2]
        <5>1. from[m] = <<"symbol", j, l[3]>>
          BY <1>2, <4>2
        <5>2. from[m] # <<"free", m>> /\ \A k \in DOMAIN inputs : from[m] # <<"fresh", k, m>>
          BY <5>1
        <5>3. PICK k \in DOMAIN inputs :
                inputs[k][m[1]].family = m[2] /\ from[m] = <<"symbol", k, m[3]>>
          BY <2>2, <5>2
        <5>4. k = j /\ m[3] = l[3]
          BY <5>1, <5>3
        <5> QED BY <5>1, <5>3, <5>4
      <4> QED BY <4>2, <4>3
    <3>2. /\ inputs[k].guest.width = inputs[k].host.width
          /\ inputs[k].guest.width \in 1..2
          /\ l[3] \in {0, 1}
      <4>1. inputs[k] \in [guest : Register, host : Register]
        <5> HIDE DEF inputs
        <5> QED BY <1>1, <3>1, EntryOfSeq
      <4>2. inputs[k].guest.width = inputs[k].host.width
        BY <3>1 DEF SameWidths
      <4> QED BY <4>1, <4>2 DEF Location, Register
    <3>3. l[3] < inputs[k].guest.width /\ l[3] < inputs[k].host.width
      BY <3>1, <3>2 DEF SymbolWidth, Wider
    <3>4. s[<<"guest", inputs[k].guest.family, l[3]>>] =
          s[<<"host", inputs[k].host.family, l[3]>>]
      BY <2>1, <3>2, <3>3
    <3>5. l = <<l[1], l[2], l[3]>> /\ m = <<m[1], m[2], m[3]>>
          /\ l[1] \in Side /\ m[1] \in Side
      BY DEF Location
    <3>6. l[1] # m[1]
      BY <2>4, <3>1, <3>5
    <3>7. CASE l[1] = "guest" /\ m[1] = "host"
      BY <3>1, <3>4, <3>5, <3>7
    <3>8. CASE l[1] = "host" /\ m[1] = "guest"
      BY <3>1, <3>4, <3>5, <3>8
    <3> QED BY <3>5, <3>6, <3>7, <3>8 DEF Side
  <2> QED BY <2>3, <2>4
<1>3. Related[inputs] \subseteq State
  BY <1>1 DEF Related
<1> QED BY <1>1, <1>2, <1>3 DEF Explored

\* When no register is paired twice, nothing else is explored: both halves of
\* a pair get the one symbol, so a difference that is found is a real one.
LEMMA ExploredIsRelated ==
    ASSUME NEW c \in Candidates, SameWidths(c), PairedOnce(c)
    PROVE  Explored[c.inputs] \subseteq Related[c.inputs]
<1> DEFINE inputs == c.inputs
           from == Provenance(inputs)
<1>1. /\ inputs \in Seq([guest : Register, host : Register])
      /\ inputs \in InputLists
  BY CandidateTypes DEF InputLists
<1>2. ASSUME NEW k \in DOMAIN inputs, NEW half \in {0, 1}, NEW side \in Side,
             half < inputs[k].guest.width, half < inputs[k].host.width
      PROVE  /\ <<side, inputs[k][side].family, half>> \in Location
             /\ from[<<side, inputs[k][side].family, half>>] = <<"symbol", k, half>>
  <2> DEFINE l == <<side, inputs[k][side].family, half>>
  <2>1. inputs[k] \in [guest : Register, host : Register]
    <3> HIDE DEF inputs
    <3> QED BY <1>1, EntryOfSeq
  <2>2. inputs[k][side] \in Register
    BY <2>1 DEF Side
  <2>3. l \in Location
    BY <2>2 DEF Location, Register
  <2>4. Writers(inputs, l) = {k}
    BY DEF Writers, PairedOnce
  <2>5. Len(inputs) \in Nat /\ DOMAIN inputs = 1..Len(inputs)
    BY <1>1
  <2>6. LastOf({k}) = k
    BY <2>5 DEF LastOf
  <2>7. half < SymbolWidth(inputs[k])
    BY <1>2, <2>1 DEF SymbolWidth, Wider, Register
  <2>8. from[l] = HalfFrom(inputs[k], k, l)
    BY <2>3, <2>4, <2>6 DEF Provenance
  <2> QED BY <2>3, <2>7, <2>8 DEF HalfFrom
<1>3. ASSUME NEW s \in Explored[inputs], NEW k \in DOMAIN inputs, NEW half \in {0, 1},
             half < inputs[k].guest.width, half < inputs[k].host.width
      PROVE  s[<<"guest", inputs[k].guest.family, half>>] =
             s[<<"host", inputs[k].host.family, half>>]
  <2> DEFINE l == <<"guest", inputs[k].guest.family, half>>
             m == <<"host", inputs[k].host.family, half>>
  <2>1. l \in Location /\ m \in Location /\ from[l] = from[m]
    BY <1>2, <1>3 DEF Side
  <2>2. \A x, y \in Location : from[x] = from[y] => s[x] = s[y]
    BY <1>1, <1>3 DEF Explored
  <2> QED BY <2>1, <2>2
<1>4. Explored[inputs] \subseteq State
  BY <1>1 DEF Explored
<1> QED BY <1>1, <1>3, <1>4 DEF Related

(***************************************************************************)
(* The checks.                                                             *)
(***************************************************************************)
Statuses == {"pass", "fail", "unsupported"}

Good(cs) == \A i \in DOMAIN cs : cs[i].status \in Statuses

\* Where verify() has got to: everything before it was checked.
Past(p, n) ==
    /\ \A i \in DOMAIN candidate.memory : EqualOn(candidate, candidate.memory[i], FirstPath(candidate))
    /\ \A i \in DOMAIN candidate.flags :
          p # "flags" \/ i <= n => EqualOn(candidate, candidate.flags[i], FirstPath(candidate))
    /\ p = "branchRegisters" => EqualOn(candidate, Guard, Explored[candidate.inputs])
    /\ p = "registers" => \A i \in 1..n :
          EqualOn(candidate, candidate.outputs[i], FirstPath(candidate))

\* What a pass stands for, and what a failure does.
Checked ==
    /\ \A pair \in Demands(candidate) : EqualOn(candidate, pair, FirstPath(candidate))
    /\ IsBranch(candidate) =>
          EqualOn(candidate, Guard, Explored[candidate.inputs]) /\ candidate.outputs = <<>>

Longest == Wider(Len(candidate.flags), Len(candidate.outputs))

Inv ==
    /\ candidate \in Candidates
    /\ pc \in {"start", "flags", "branchRegisters", "registers", "returned"}
    /\ failFast \in BOOLEAN
    /\ done \in 0..Longest
    /\ checks \in Seq(CheckResult)
    /\ pc = "start" => checks = <<>>
    /\ pc # "returned" => Good(checks) /\ report = Pending
    /\ pc = "branchRegisters" => IsBranch(candidate)
    /\ pc = "registers" => ~IsBranch(candidate) /\ done <= Len(candidate.outputs)
    /\ pc \notin {"start", "returned"} /\ AllPass(checks) => Past(pc, done)
    /\ \A i \in DOMAIN checks : checks[i].status = "fail" => LooksDifferent[candidate]
    /\ pc = "returned" => report.status \in Statuses \cup {"error"}
    /\ report.status = "pass" => Checked
    /\ report.status = "fail" => LooksDifferent[candidate]

\* All of a longer list passed when both parts did.
LEMMA AllPassConcat ==
    ASSUME NEW S, NEW a \in Seq(S), NEW b \in Seq(S)
    PROVE  /\ AllPass(a \o b) <=> AllPass(a) /\ AllPass(b)
           /\ Good(a) /\ Good(b) => Good(a \o b)
           /\ a \o b \in Seq(S)
           /\ \A i \in DOMAIN (a \o b) : (\E j \in DOMAIN a : (a \o b)[i] = a[j])
                                        \/ (\E j \in DOMAIN b : (a \o b)[i] = b[j])
<1>1. /\ Len(a) \in Nat /\ Len(b) \in Nat
      /\ DOMAIN a = 1..Len(a) /\ DOMAIN b = 1..Len(b)
      /\ a \o b \in Seq(S)
      /\ DOMAIN (a \o b) = 1..(Len(a) + Len(b))
  OBVIOUS
<1>2. /\ \A i \in 1..Len(a) : (a \o b)[i] = a[i] /\ i \in 1..(Len(a) + Len(b))
      /\ \A i \in 1..Len(b) : (a \o b)[Len(a) + i] = b[i] /\ Len(a) + i \in 1..(Len(a) + Len(b))
  BY <1>1
<1>3. \A i \in 1..(Len(a) + Len(b)) :
        (i \in 1..Len(a)) \/ (\E j \in 1..Len(b) : i = Len(a) + j)
  <2> TAKE i \in 1..(Len(a) + Len(b))
  <2>1. i <= Len(a) \/ i - Len(a) \in 1..Len(b)
    BY <1>1
  <2>2. i = Len(a) + (i - Len(a))
    BY <1>1
  <2> QED BY <1>1, <2>1, <2>2
<1>4. \A i \in DOMAIN (a \o b) : (\E j \in DOMAIN a : (a \o b)[i] = a[j])
                               \/ (\E j \in DOMAIN b : (a \o b)[i] = b[j])
  <2> TAKE i \in DOMAIN (a \o b)
  <2>1. CASE i \in 1..Len(a)
    BY <1>1, <1>2, <2>1
  <2>2. CASE \E j \in 1..Len(b) : i = Len(a) + j
    <3>1. PICK j \in 1..Len(b) : i = Len(a) + j
      BY <2>2
    <3> QED BY <1>1, <1>2, <3>1
  <2> QED BY <1>1, <1>3, <2>1, <2>2
<1>5. Good(a) /\ Good(b) => Good(a \o b)
  BY <1>4 DEF Good
<1>6. AllPass(a \o b) => AllPass(a) /\ AllPass(b)
  BY <1>1, <1>2 DEF AllPass
<1>7. AllPass(a) /\ AllPass(b) => AllPass(a \o b)
  BY <1>4 DEF AllPass
<1> QED BY <1>1, <1>4, <1>5, <1>6, <1>7

\* The status of a report that has no error is the worst of its checks.
LEMMA OverallStatusIsWorst ==
    ASSUME NEW cs, Good(cs)
    PROVE  /\ OverallStatus(cs) \in Statuses
           /\ OverallStatus(cs) = "pass" => AllPass(cs)
           /\ OverallStatus(cs) = "fail" => \E i \in DOMAIN cs : cs[i].status = "fail"
BY DEF OverallStatus, AllPass, Good, Statuses

(***************************************************************************)
(* Preservation: the two ways a step goes on.                              *)
(***************************************************************************)
FailsShowDifference(cs) ==
    \A i \in DOMAIN cs : cs[i].status = "fail" => LooksDifferent[candidate]

\* A return keeps the invariant if its status means what it says.
LEMMA ReturnPreserves ==
    ASSUME Inv, NEW status, NEW cs \in Seq(CheckResult), Return(status, cs),
           status \in Statuses \cup {"error"},
           FailsShowDifference(cs),
           status = "pass" => Checked,
           status = "fail" => LooksDifferent[candidate]
    PROVE  Inv'
<1>1. /\ candidate' = candidate /\ done' = done
      /\ pc' = "returned" /\ checks' = cs
      /\ report' = [status |-> status, checks |-> cs]
  BY DEF Return
<1>2. Checked' <=> Checked
  BY <1>1 DEF Checked
<1>3. failFast' = failFast /\ Longest' = Longest
  BY <1>1 DEF Return, Longest
<1>4. report'.status = status
  BY <1>1
<1> QED BY <1>1, <1>2, <1>3, <1>4 DEF Inv, FailsShowDifference

\* Going on keeps the invariant if the new checks cover what is now past.
LEMMA ContinuePreserves ==
    ASSUME Inv, NEW new \in Seq(CheckResult), NEW place, NEW n \in 0..Longest,
           Continue(new, place, n), pc # "returned",
           Good(new), FailsShowDifference(new),
           place \in {"flags", "branchRegisters", "registers"},
           place = "branchRegisters" => IsBranch(candidate),
           place = "registers" => ~IsBranch(candidate) /\ n <= Len(candidate.outputs),
           AllPass(checks) /\ AllPass(new) => Past(place, n)
    PROVE  Inv'
<1> DEFINE cs == checks \o new
<1>1. /\ checks \in Seq(CheckResult)
      /\ Good(checks) /\ FailsShowDifference(checks)
  BY DEF Inv, FailsShowDifference
<1>2. /\ cs \in Seq(CheckResult) /\ Good(cs)
      /\ AllPass(cs) <=> AllPass(checks) /\ AllPass(new)
  BY <1>1, AllPassConcat
<1>3. FailsShowDifference(cs)
  <2>1. \A i \in DOMAIN cs : (\E j \in DOMAIN checks : cs[i] = checks[j])
                          \/ (\E j \in DOMAIN new : cs[i] = new[j])
    BY <1>1, AllPassConcat
  <2> QED BY <1>1, <2>1 DEF FailsShowDifference
<1>4. CASE failFast /\ ~AllPass(new)
  <2>1. Return(OverallStatus(cs), cs)
    BY <1>4 DEF Continue
  <2>2. /\ OverallStatus(cs) \in Statuses
        /\ OverallStatus(cs) # "pass"
        /\ OverallStatus(cs) = "fail" => LooksDifferent[candidate]
    BY <1>2, <1>3, <1>4, OverallStatusIsWorst DEF FailsShowDifference
  <2> HIDE DEF cs
  <2> QED BY <1>2, <1>3, <2>1, <2>2, ReturnPreserves
<1>5. CASE ~(failFast /\ ~AllPass(new))
  <2>1. /\ checks' = cs /\ pc' = place /\ done' = n
        /\ candidate' = candidate /\ report' = report
        /\ failFast' = failFast /\ Longest' = Longest
    BY <1>5 DEF Continue, Longest
  <2>2. (AllPass(checks) => Past(pc, done))' <=> (AllPass(cs) => Past(place, n))
    BY <2>1 DEF Past, AllPass
  <2>3. Good(checks)' <=> Good(cs)
    BY <2>1 DEF Good
  <2>4. IsBranch(candidate)' <=> IsBranch(candidate)
    BY <2>1
  <2>5. report = Pending /\ report' = Pending
    BY <2>1 DEF Inv
  <2> HIDE DEF cs
  <2> QED BY <1>2, <1>3, <2>1, <2>2, <2>3, <2>4, <2>5
          DEF Inv, Pending, FailsShowDifference
<1> QED BY <1>4, <1>5

\* The checks are made on explored states; of a straight line, on all.
LEMMA FirstPathIsExplored ==
    ASSUME NEW c
    PROVE  /\ FirstPath(c) \subseteq Explored[c.inputs]
           /\ ~IsBranch(c) => FirstPath(c) = Explored[c.inputs]
BY DEF FirstPath, OnFirstPath, IsBranch

\* A demand that is not met on the path taken is a difference.
LEMMA UnmetDemand ==
    ASSUME candidate \in Candidates, NEW pair \in Demands(candidate),
           ~EqualOn(candidate, pair, FirstPath(candidate))
    PROVE  LooksDifferent[candidate]
<1>1. ~EqualOn(candidate, pair, Explored[candidate.inputs])
  BY FirstPathIsExplored DEF EqualOn
<1> QED BY <1>1 DEF LooksDifferent

\* What a candidate demands is listed by sequences.
LEMMA DemandLists ==
    ASSUME NEW c \in Candidates
    PROVE  /\ Len(c.memory) \in Nat /\ DOMAIN c.memory = 1..Len(c.memory)
           /\ Len(c.flags) \in Nat /\ DOMAIN c.flags = 1..Len(c.flags)
           /\ Len(c.outputs) \in Nat /\ DOMAIN c.outputs = 1..Len(c.outputs)
           /\ \A i \in DOMAIN c.memory : c.memory[i] \in Demands(c)
           /\ \A i \in DOMAIN c.flags : c.flags[i] \in Demands(c)
           /\ ~IsBranch(c) => \A i \in DOMAIN c.outputs : c.outputs[i] \in Demands(c)
<1>1. /\ c.memory \in Seq(Range(c.memory))
      /\ c.flags \in Seq(Range(c.flags))
      /\ c.outputs \in Seq(Range(c.outputs))
  BY CandidateTypes DEF IsSequence
<1> QED BY <1>1 DEF Demands, Range

\* What the result of a comparison says.
LEMMA CompareSays ==
    ASSUME NEW kind \in {"memory", "flag", "register"}, NEW c, NEW pair
    PROVE  /\ Compare(kind, c, pair) \in CheckResult
           /\ Compare(kind, c, pair).status \in Statuses
           /\ Compare(kind, c, pair).status = "pass" => EqualOn(c, pair, FirstPath(c))
           /\ Compare(kind, c, pair).status = "fail" => ~EqualOn(c, pair, FirstPath(c))
BY DEF Compare, Result, CheckResult, Statuses

\* A list of one check.
LEMMA SingleCheck ==
    ASSUME NEW r \in CheckResult, r.status \in Statuses
    PROVE  /\ <<r>> \in Seq(CheckResult)
           /\ Good(<<r>>)
           /\ AllPass(<<r>>) => r.status = "pass"
           /\ (r.status = "fail" => LooksDifferent[candidate]) => FailsShowDifference(<<r>>)
BY DEF Good, AllPass, FailsShowDifference

\* The first checks: of the memory events.
LEMMA CheckMemoryPreserves == Inv /\ CheckMemory => Inv'
<1> SUFFICES ASSUME Inv, CheckMemory PROVE Inv'
  OBVIOUS
<1> DEFINE c == candidate
           new == MemoryChecks(c)
<1>1. c \in Candidates /\ pc # "returned" /\ Continue(new, "flags", 0)
  BY DEF Inv, CheckMemory
<1>2. CASE c.events # "matched"
  <2>1. new = <<Result("memory", "fail")>>
    BY <1>2 DEF MemoryChecks
  <2>2. new \in Seq(CheckResult) /\ Good(new) /\ ~AllPass(new)
    <3>1. /\ Result("memory", "fail") \in CheckResult
          /\ Result("memory", "fail").status \in Statuses \ {"pass"}
      BY DEF Result, CheckResult, Statuses
    <3> QED BY <2>1, <3>1, SingleCheck
  <2>3. FailsShowDifference(new)
    BY <1>1, <1>2 DEF FailsShowDifference, LooksDifferent
  <2>4. 0 \in 0..Longest
    BY <1>1, DemandLists DEF Longest, Wider
  <2> HIDE DEF new
  <2> QED BY <1>1, <2>2, <2>3, <2>4, ContinuePreserves
<1>3. CASE c.events = "matched"
  <2>1. new = [i \in DOMAIN c.memory |-> Compare("memory", c, c.memory[i])]
    BY <1>3 DEF MemoryChecks
  <2>2. /\ Len(c.memory) \in Nat /\ DOMAIN c.memory = 1..Len(c.memory)
        /\ \A i \in DOMAIN c.memory : c.memory[i] \in Demands(c)
        /\ 0 \in 0..Longest
    BY <1>1, DemandLists DEF Longest, Wider
  <2>3. /\ new \in Seq(CheckResult) /\ Good(new) /\ DOMAIN new = DOMAIN c.memory
        /\ \A i \in DOMAIN c.memory :
              /\ new[i].status = "pass" => EqualOn(c, c.memory[i], FirstPath(c))
              /\ new[i].status = "fail" => ~EqualOn(c, c.memory[i], FirstPath(c))
    <3>1. \A i \in DOMAIN c.memory : new[i] \in CheckResult /\ new[i].status \in Statuses
      BY <2>1, CompareSays
    <3>2. DOMAIN new = DOMAIN c.memory /\ new = [i \in 1..Len(c.memory) |-> new[i]]
      BY <2>1, <2>2
    <3>3. \A i \in DOMAIN c.memory :
              /\ new[i].status = "pass" => EqualOn(c, c.memory[i], FirstPath(c))
              /\ new[i].status = "fail" => ~EqualOn(c, c.memory[i], FirstPath(c))
      BY <2>1, CompareSays
    <3>4. new \in Seq(CheckResult)
      <4> HIDE DEF new
      <4> QED BY <2>2, <3>1, <3>2
    <3>5. Good(new)
      <4> HIDE DEF new
      <4> QED BY <3>1, <3>2 DEF Good
    <3> HIDE DEF new
    <3> QED BY <3>2, <3>3, <3>4, <3>5
  <2>4. FailsShowDifference(new)
    BY <1>1, <2>2, <2>3, UnmetDemand DEF FailsShowDifference
  <2>5. AllPass(new) => Past("flags", 0)
    BY <1>1, <2>2, <2>3, DemandLists DEF AllPass, Past
  <2> HIDE DEF new
  <2> QED BY <1>1, <2>2, <2>3, <2>4, <2>5, ContinuePreserves
<1> QED BY <1>2, <1>3

\* One flag is one check, supported or not.
LEMMA CheckFlagPreserves == Inv /\ CheckFlag => Inv'
<1> SUFFICES ASSUME Inv, CheckFlag PROVE Inv'
  OBVIOUS
<1> DEFINE c == candidate
           i == done + 1
           r == FlagCheck(c, i)
<1>1. /\ c \in Candidates /\ pc = "flags" /\ done \in Nat /\ i \in Nat
      /\ done < Len(c.flags)
      /\ Continue(<<r>>, "flags", i)
  BY DEF Inv, CheckFlag
<1>2. i \in DOMAIN c.flags /\ c.flags[i] \in Demands(c) /\ i \in 0..Longest
  BY <1>1, DemandLists DEF Longest, Wider
<1>3. /\ r \in CheckResult /\ r.status \in Statuses
      /\ r.status = "pass" => EqualOn(c, c.flags[i], FirstPath(c))
      /\ r.status = "fail" => LooksDifferent[c]
  <2>1. CASE c.flags[i].supported
    <3>1. r = Compare("flag", c, c.flags[i])
      BY <2>1 DEF FlagCheck
    <3> HIDE DEF r
    <3> QED BY <1>1, <1>2, <3>1, CompareSays, UnmetDemand
  <2>2. CASE ~c.flags[i].supported
    <3>1. r = Result("flag", "unsupported")
      BY <2>2 DEF FlagCheck
    <3> HIDE DEF r
    <3> QED BY <3>1 DEF Result, CheckResult, Statuses
  <2> QED BY <2>1, <2>2
<1>4. /\ <<r>> \in Seq(CheckResult) /\ Good(<<r>>)
      /\ AllPass(<<r>>) => r.status = "pass"
      /\ FailsShowDifference(<<r>>)
  <2> HIDE DEF r
  <2> QED BY <1>3, SingleCheck
<1>5. AllPass(checks) /\ AllPass(<<r>>) => Past("flags", i)
  <2> SUFFICES ASSUME AllPass(checks), AllPass(<<r>>) PROVE Past("flags", i)
    OBVIOUS
  <2>1. Past("flags", done) /\ EqualOn(c, c.flags[i], FirstPath(c))
    BY <1>1, <1>3, <1>4 DEF Inv
  <2>2. \A j \in DOMAIN c.flags : j <= i => j <= done \/ j = i
    BY <1>1, DemandLists
  <2> QED BY <2>1, <2>2 DEF Past
<1> HIDE DEF r, i
<1> QED BY <1>1, <1>2, <1>4, <1>5, ContinuePreserves

\* Past the last flag, memory and flags are done with.
LEMMA FlagsDone ==
    ASSUME Inv, pc = "flags", done = Len(candidate.flags), AllPass(checks)
    PROVE  /\ \A j \in DOMAIN candidate.memory :
                EqualOn(candidate, candidate.memory[j], FirstPath(candidate))
           /\ \A j \in DOMAIN candidate.flags :
                EqualOn(candidate, candidate.flags[j], FirstPath(candidate))
<1>1. Past("flags", done) /\ candidate \in Candidates
  BY DEF Inv
<1>2. \A j \in DOMAIN candidate.flags : j <= done
  BY <1>1, DemandLists
<1> QED BY <1>1, <1>2 DEF Past

\* The guards of both branches are compared on every explored state.
LEMMA CheckBranchPreserves == Inv /\ CheckBranch => Inv'
<1> SUFFICES ASSUME Inv, CheckBranch PROVE Inv'
  OBVIOUS
<1> DEFINE c == candidate
           r == BranchCheck(c)
<1>1. /\ c \in Candidates /\ pc = "flags" /\ done = Len(c.flags) /\ IsBranch(c)
      /\ Continue(<<r>>, "branchRegisters", 0)
  BY DEF Inv, CheckBranch
<1>2. /\ r \in CheckResult /\ r.status \in Statuses
      /\ r.status = "pass" => EqualOn(c, Guard, Explored[c.inputs])
      /\ r.status = "fail" => ~EqualOn(c, Guard, Explored[c.inputs])
  BY DEF BranchCheck, Result, CheckResult, Statuses
<1>3. r.status = "fail" => LooksDifferent[c]
  BY <1>1, <1>2 DEF LooksDifferent
<1>4. /\ <<r>> \in Seq(CheckResult) /\ Good(<<r>>)
      /\ AllPass(<<r>>) => r.status = "pass"
      /\ FailsShowDifference(<<r>>)
  <2> HIDE DEF r
  <2> QED BY <1>2, <1>3, SingleCheck
<1>5. AllPass(checks) /\ AllPass(<<r>>) => Past("branchRegisters", 0)
  BY <1>1, <1>2, <1>4, FlagsDone DEF Past
<1>6. 0 \in 0..Longest
  BY <1>1, DemandLists DEF Longest, Wider
<1> HIDE DEF r
<1> QED BY <1>1, <1>4, <1>5, <1>6, ContinuePreserves

\* One register output is one check.
LEMMA CheckRegisterPreserves == Inv /\ CheckRegister => Inv'
<1> SUFFICES ASSUME Inv, CheckRegister PROVE Inv'
  OBVIOUS
<1> DEFINE c == candidate
           n == IF pc = "flags" THEN 0 ELSE done
           r == RegisterCheck(c, n + 1)
<1>1. /\ c \in Candidates /\ pc # "returned" /\ ~IsBranch(c)
      /\ n \in Nat /\ n + 1 \in Nat /\ n < Len(c.outputs)
      /\ Continue(<<r>>, "registers", n + 1)
      /\ \/ pc = "flags" /\ done = Len(c.flags) /\ n = 0
         \/ pc = "registers" /\ n = done
  BY DEF Inv, CheckRegister
<1> HIDE DEF n
<1>2. n + 1 \in DOMAIN c.outputs /\ c.outputs[n + 1] \in Demands(c) /\ n + 1 <= Len(c.outputs)
      /\ n + 1 \in 0..Longest
  BY <1>1, DemandLists DEF Longest, Wider
<1>3. /\ r \in CheckResult /\ r.status \in Statuses
      /\ r.status = "pass" => EqualOn(c, c.outputs[n + 1], FirstPath(c))
      /\ r.status = "fail" => LooksDifferent[c]
  BY <1>1, <1>2, CompareSays, UnmetDemand DEF RegisterCheck
<1>4. /\ <<r>> \in Seq(CheckResult) /\ Good(<<r>>)
      /\ AllPass(<<r>>) => r.status = "pass"
      /\ FailsShowDifference(<<r>>)
  <2> HIDE DEF r
  <2> QED BY <1>3, SingleCheck
<1>5. ASSUME AllPass(checks), AllPass(<<r>>)
      PROVE  Past("registers", n + 1)
  <2>1. /\ \A j \in DOMAIN c.memory : EqualOn(c, c.memory[j], FirstPath(c))
        /\ \A j \in DOMAIN c.flags : EqualOn(c, c.flags[j], FirstPath(c))
        /\ \A j \in 1..n : EqualOn(c, c.outputs[j], FirstPath(c))
    <3>1. CASE pc = "flags"
      BY <1>1, <1>5, <3>1, FlagsDone
    <3>2. CASE pc = "registers"
      BY <1>1, <1>5, <3>2 DEF Inv, Past
    <3> QED BY <1>1, <3>1, <3>2
  <2>2. EqualOn(c, c.outputs[n + 1], FirstPath(c))
    BY <1>3, <1>4, <1>5
  <2>3. \A j \in 1..(n + 1) : j \in 1..n \/ j = n + 1
    BY <1>1
  <2> QED BY <2>1, <2>2, <2>3 DEF Past
<1> HIDE DEF r
<1> QED BY <1>1, <1>2, <1>4, <1>5, ContinuePreserves

\* The returns at the end: every check was made.
LEMMA EndPreserves == Inv /\ (BranchRegisters \/ Finish) => Inv'
<1>1. ASSUME Inv, BranchRegisters PROVE Inv'
  <2> DEFINE r == Result("register", "unsupported")
             cs == IF candidate.outputs = <<>> THEN checks ELSE Append(checks, r)
  <2>1. /\ candidate \in Candidates /\ pc = "branchRegisters" /\ IsBranch(candidate)
        /\ checks \in Seq(CheckResult) /\ Good(checks) /\ FailsShowDifference(checks)
        /\ Return(OverallStatus(cs), cs)
    BY <1>1 DEF Inv, BranchRegisters, FailsShowDifference
  <2>2. CASE candidate.outputs = <<>>
    <3>1. cs = checks
      BY <2>2
    <3>2. OverallStatus(checks) = "pass" => Checked
      <4> SUFFICES ASSUME OverallStatus(checks) = "pass" PROVE Checked
        OBVIOUS
      <4>1. Past(pc, done)
        BY <1>1, <2>1, OverallStatusIsWorst DEF Inv
      <4> QED BY <2>1, <2>2, <4>1 DEF Past, Checked, Demands, Range
    <3> HIDE DEF cs
    <3> QED BY <1>1, <2>1, <3>1, <3>2, OverallStatusIsWorst, ReturnPreserves DEF FailsShowDifference
  <2>3. CASE candidate.outputs # <<>>
    <3>1. r \in CheckResult /\ r.status \in Statuses /\ r.status = "unsupported"
      BY DEF Result, CheckResult, Statuses
    <3> HIDE DEF r
    <3>2. cs = Append(checks, r) /\ cs \in Seq(CheckResult)
      BY <2>1, <2>3, <3>1
    <3>3. \A j \in DOMAIN cs : (j \in DOMAIN checks /\ cs[j] = checks[j]) \/ cs[j] = r
      BY <2>1, <3>1, <3>2
    <3>4. \E j \in DOMAIN cs : cs[j] = r
      <4>1. Len(checks) + 1 \in DOMAIN cs /\ cs[Len(checks) + 1] = r
        BY <2>1, <3>1, <3>2
      <4> QED BY <4>1
    <3> HIDE DEF cs
    <3>5. /\ Good(cs) /\ FailsShowDifference(cs)
          /\ OverallStatus(cs) = "unsupported"
      BY <2>1, <3>1, <3>3, <3>4 DEF Good, FailsShowDifference, OverallStatus
    <3> QED BY <1>1, <2>1, <3>2, <3>5, ReturnPreserves DEF Statuses
  <2> QED BY <2>2, <2>3
<1>2. ASSUME Inv, Finish PROVE Inv'
  <2>1. /\ candidate \in Candidates /\ ~IsBranch(candidate)
        /\ checks \in Seq(CheckResult) /\ Good(checks) /\ FailsShowDifference(checks)
        /\ Return(OverallStatus(checks), checks)
        /\ \/ pc = "flags" /\ done = Len(candidate.flags) /\ candidate.outputs = <<>>
           \/ pc = "registers" /\ done = Len(candidate.outputs)
    BY <1>2 DEF Inv, Finish, FailsShowDifference
  <2>2. OverallStatus(checks) = "pass" => Checked
    <3> SUFFICES ASSUME OverallStatus(checks) = "pass" PROVE Checked
      OBVIOUS
    <3>1. AllPass(checks)
      BY <2>1, OverallStatusIsWorst
    <3>2. /\ \A j \in DOMAIN candidate.memory :
                EqualOn(candidate, candidate.memory[j], FirstPath(candidate))
          /\ \A j \in DOMAIN candidate.flags :
                EqualOn(candidate, candidate.flags[j], FirstPath(candidate))
          /\ \A j \in DOMAIN candidate.outputs :
                EqualOn(candidate, candidate.outputs[j], FirstPath(candidate))
      <4>1. CASE pc = "flags"
        BY <1>2, <2>1, <3>1, <4>1, FlagsDone, DemandLists
      <4>2. CASE pc = "registers"
        <5>1. Past(pc, done)
          BY <1>2, <3>1, <4>2 DEF Inv
        <5> QED BY <2>1, <4>2, <5>1, DemandLists DEF Past
      <4> QED BY <2>1, <4>1, <4>2
    <3> QED BY <2>1, <3>2 DEF Checked, Demands, Range
  <2> QED BY <1>2, <2>1, <2>2, OverallStatusIsWorst, ReturnPreserves DEF FailsShowDifference
<1> QED BY <1>1, <1>2

\* Whatever is rejected, or raises, neither passes nor fails.
LEMMA RejectPreserves == Inv /\ (Reject \/ InternalError) => Inv'
<1>1. ASSUME Inv, NEW status \in {"unsupported", "error"},
             Return(status, <<Result("execution", status)>>)
      PROVE  Inv'
  <2>1. <<Result("execution", status)>> \in Seq(CheckResult)
    BY DEF Result, CheckResult
  <2>2. FailsShowDifference(<<Result("execution", status)>>)
    BY DEF Result, FailsShowDifference
  <2> QED BY <1>1, <2>1, <2>2, ReturnPreserves DEF Statuses
<1>2. \A c \in Candidates : Obstacle(c) \in {"unsupported", "error", "none"}
  BY CandidateTypes DEF Obstacle
<1> QED BY <1>1, <1>2 DEF Inv, Reject, InternalError

\* The invariant is inductive.
LEMMA InvHolds == Spec => []Inv
<1>1. Init => Inv
  <2> SUFFICES ASSUME Init PROVE Inv
    OBVIOUS
  <2>1. 0 \in 0..Longest
    BY DemandLists DEF Init, Longest, Wider
  <2> QED BY <2>1 DEF Init, Inv, Good, Pending, AllPass
<1>2. Inv /\ [Next]_vars => Inv'
  <2> SUFFICES ASSUME Inv, [Next]_vars PROVE Inv'
    OBVIOUS
  <2>1. CASE Reject \/ InternalError
    BY <2>1, RejectPreserves
  <2>2. CASE CheckMemory
    BY <2>2, CheckMemoryPreserves
  <2>3. CASE CheckFlag
    BY <2>3, CheckFlagPreserves
  <2>4. CASE CheckBranch
    BY <2>4, CheckBranchPreserves
  <2>5. CASE BranchRegisters \/ Finish
    BY <2>5, EndPreserves
  <2>6. CASE CheckRegister
    BY <2>6, CheckRegisterPreserves
  <2>7. CASE UNCHANGED vars
    BY <2>7 DEF Inv, vars, Good, AllPass, Past, Checked, Longest
  <2> QED BY <2>1, <2>2, <2>3, <2>4, <2>5, <2>6, <2>7 DEF Next, Step, Returned
<1> QED BY <1>1, <1>2, PTL DEF Spec

(***************************************************************************)
(* Results.                                                                *)
(***************************************************************************)
\* The variables keep their types.
THEOREM TypeCorrect == Spec => []TypeOK
<1>1. Inv => TypeOK
  BY DEF Inv, TypeOK, Longest, Statuses, Pending
<1> QED BY <1>1, InvHolds, PTL

\* What was checked on the explored states holds on the related ones.
LEMMA CheckedIsEquivalent ==
    ASSUME candidate \in Candidates, Checked, SameWidths(candidate)
    PROVE  /\ ~IsBranch(candidate) => Equivalent[candidate]
           /\ IsBranch(candidate) => SameBranch[candidate]
<1>1. Related[candidate.inputs] \subseteq Explored[candidate.inputs]
  BY RelatedIsExplored
<1>2. ASSUME ~IsBranch(candidate) PROVE Equivalent[candidate]
  BY <1>1, <1>2, FirstPathIsExplored DEF Checked, Equivalent, EqualOn
<1>3. ASSUME IsBranch(candidate) PROVE SameBranch[candidate]
  BY <1>1, <1>3 DEF Checked, SameBranch, EqualOn
<1> QED BY <1>2, <1>3

\* verify(): a pass of a straight line means equal memory, flags and
\* registers for all inputs related as the candidate says.
THEOREM PassSound == Spec => []PassIsSound
<1>1. Inv => PassIsSound
  BY CheckedIsEquivalent DEF Inv, PassIsSound
<1> QED BY <1>1, InvHolds, PTL

\* verify(): a pass of a branch means that both sides take it, or neither.
THEOREM BranchPassSound == Spec => []BranchPassIsSound
<1>1. Inv => BranchPassIsSound
  BY CheckedIsEquivalent DEF Inv, BranchPassIsSound
<1> QED BY <1>1, InvHolds, PTL

\* A straight line that fails differs for inputs a caller means, unless a
\* register is paired twice or the memory events do not match.
THEOREM FailReal == Spec => []FailIsReal
<1>1. Inv => FailIsReal
  <2> SUFFICES ASSUME Inv, report.status = "fail", SameWidths(candidate), PairedOnce(candidate),
                      ~IsBranch(candidate), candidate.events = "matched"
               PROVE  ~Equivalent[candidate]
    BY DEF FailIsReal
  <2>1. candidate \in Candidates /\ LooksDifferent[candidate]
    BY DEF Inv
  <2>2. PICK pair \in Demands(candidate) : ~EqualOn(candidate, pair, Explored[candidate.inputs])
    BY <2>1 DEF LooksDifferent
  <2>3. Explored[candidate.inputs] \subseteq Related[candidate.inputs]
    BY <2>1, ExploredIsRelated
  <2>4. ~EqualOn(candidate, pair, Related[candidate.inputs])
    BY <2>2, <2>3 DEF EqualOn
  <2> QED BY <2>1, <2>4 DEF Equivalent
<1> QED BY <1>1, InvHolds, PTL

\* verify() implements the promise made to its callers.
THEOREM PromiseKept == Spec => ImplementsPromise
<1> DEFINE A(c) == \/ ~SameWidths(c)
                   \/ Equivalent[c]
                   \/ IsBranch(c) /\ SameBranch[c]
<1>1. Init => Promise!Init
  <2>1. \A c \in Candidates : A(c) \in BOOLEAN /\ LooksDifferent[c] \in BOOLEAN
    BY DEF Equivalent, LooksDifferent, SameBranch, SameWidths
  <2> QED BY <2>1 DEF Init, Pending, Promise!Init
<1>2. Inv /\ Inv' /\ [Next]_vars => [Promise!Next]_(Promise!vars)
  <2> SUFFICES ASSUME Inv, Inv', [Next]_vars
               PROVE  [Promise!Next]_(Promise!vars)
    OBVIOUS
  <2>1. candidate' = candidate
    BY DEF Next, Step, Reject, InternalError, CheckMemory, CheckFlag, CheckBranch, BranchRegisters,
           CheckRegister, Finish, Returned, Return, Continue, vars
  <2>2. CASE report' = report
    BY <2>1, <2>2 DEF Promise!vars
  <2>3. CASE report' # report
    <3>1. /\ pc # "returned" /\ pc' = "returned"
      BY <2>3 DEF Next, Step, Reject, InternalError, CheckMemory, CheckFlag, CheckBranch,
                  BranchRegisters, CheckRegister, Finish, Returned, Return, Continue, vars
    <3>2. report.status = "pending" /\ report'.status \in Statuses \cup {"error"}
      BY <3>1 DEF Inv, Pending
    <3>3. CASE report'.status = "pass"
      <4>1. Checked
        BY <2>1, <3>3 DEF Inv, Checked
      <4>2. A(candidate)
        BY <4>1, CheckedIsEquivalent DEF Inv
      <4> QED BY <2>1, <3>2, <3>3, <4>2 DEF Promise!Next, Promise!Pass, Promise!Decide
    <3>4. CASE report'.status = "fail"
      BY <2>1, <3>2, <3>4 DEF Inv, Promise!Next, Promise!Fail, Promise!Decide
    <3>5. CASE report'.status \in {"unsupported", "error"}
      BY <2>1, <3>2, <3>5 DEF Promise!Next, Promise!GiveUp, Promise!Decide
    <3> QED BY <3>2, <3>3, <3>4, <3>5 DEF Statuses
  <2> QED BY <2>2, <2>3
<1> QED BY <1>1, <1>2, InvHolds, PTL DEF Spec, ImplementsPromise, Promise!Spec

(***************************************************************************)
(* Where the slots of a verification are put.                              *)
(***************************************************************************)
Placed == {"registers", "guest", "host", "count", "ordered", "by_slot"}

\* The slots that come before position n.
NamesBefore(c, n) == {c.slots[i].name : i \in {i \in DOMAIN c.slots : i < n}}

\* Every slot has its place, an integer, before the fragments run: plain slots
\* one by one, the slots of a frame group with the binding that leads it.
BasesInv ==
    /\ memoryCandidate \in MemoryCandidates
    /\ at \in Nat \ {0}
    /\ frameNext \in Int
    /\ bases \in [DOMAIN bases -> Int]
    /\ DOMAIN bases \subseteq Names(memoryCandidate)
    /\ phase = "alias" => DOMAIN bases = {}
    /\ phase = "slots" =>
        /\ at <= Len(memoryCandidate.slots) + 1
        /\ DOMAIN bases = NamesBefore(memoryCandidate, at) \ FrameSlots(memoryCandidate)
    /\ phase = "frames" =>
        /\ Names(memoryCandidate) \ FrameSlots(memoryCandidate) \subseteq DOMAIN bases
        /\ at <= Len(memoryCandidate.bindings) + 1
        /\ \A i \in DOMAIN memoryCandidate.bindings :
            i < at /\ IsFrame(memoryCandidate.bindings[i]) =>
                SlotsOf(memoryCandidate, Group(memoryCandidate, i)) \subseteq DOMAIN bases
    /\ phase \in Placed => DOMAIN bases = Names(memoryCandidate)

\* What a candidate is made of.
LEMMA CandidateParts ==
    ASSUME NEW c \in MemoryCandidates
    PROVE  /\ Len(c.slots) \in Nat /\ DOMAIN c.slots = 1..Len(c.slots)
           /\ Len(c.alias) \in Nat /\ DOMAIN c.alias = 1..Len(c.alias)
           /\ Len(c.bindings) \in Nat /\ DOMAIN c.bindings = 1..Len(c.bindings)
           /\ Len(c.accesses) \in Nat /\ DOMAIN c.accesses = 1..Len(c.accesses)
           /\ Len(c.guest) \in Nat /\ Len(c.host) \in Nat
           /\ \A i, j \in DOMAIN c.slots : c.slots[i].name = c.slots[j].name => i = j
           /\ \A i \in DOMAIN c.bindings :
                /\ c.bindings[i].slot \in Names(c)
                /\ Offset(c.bindings[i].guest) \in Int /\ Offset(c.bindings[i].host) \in Int
           /\ \A i \in DOMAIN c.accesses :
                c.accesses[i].slot \in Names(c) /\ c.accesses[i].width \in Nat \ {0}
<1>1. /\ Len(c.slots) \in Nat /\ DOMAIN c.slots = 1..Len(c.slots)
      /\ Len(c.alias) \in Nat /\ DOMAIN c.alias = 1..Len(c.alias)
  BY MemoryIsSpecified DEF Listed
<1>2. /\ Len(c.bindings) \in Nat /\ DOMAIN c.bindings = 1..Len(c.bindings)
      /\ Len(c.accesses) \in Nat /\ DOMAIN c.accesses = 1..Len(c.accesses)
  BY MemoryIsSpecified DEF Listed
<1>3. Len(c.guest) \in Nat /\ Len(c.host) \in Nat
  BY MemoryIsSpecified DEF Listed
<1>4. \A i, j \in DOMAIN c.slots : c.slots[i].name = c.slots[j].name => i = j
  BY MemoryIsSpecified
<1>5. ASSUME NEW i \in DOMAIN c.bindings
      PROVE  /\ c.bindings[i].slot \in Names(c)
             /\ Offset(c.bindings[i].guest) \in Int /\ Offset(c.bindings[i].host) \in Int
  <2>1. c.bindings[i] \in Range(c.bindings)
    BY DEF Range
  <2>2. c.bindings[i].slot \in Names(c)
    BY <2>1, MemoryIsSpecified
  <2>3. /\ c.bindings[i].guest.scale \in Int /\ c.bindings[i].guest.disp \in Int
        /\ c.bindings[i].host.scale \in Int /\ c.bindings[i].host.disp \in Int /\ IndexWitness \in Int
    BY <2>1, MemoryIsSpecified
  <2> QED BY <2>2, <2>3 DEF Offset
<1>6. ASSUME NEW i \in DOMAIN c.accesses
      PROVE  c.accesses[i].slot \in Names(c) /\ c.accesses[i].width \in Nat \ {0}
  BY MemoryIsSpecified DEF Range
<1> QED BY <1>1, <1>2, <1>3, <1>4, <1>5, <1>6

LEMMA SizeFits ==
    ASSUME NEW c \in MemoryCandidates, NEW s \in Names(c)
    PROVE  Size(c, s) \in 1..Stride /\ Stride \in Int
<1>1. PICK i \in DOMAIN c.slots : c.slots[i].name = s
  BY DEF Names
<1> DEFINE k == CHOOSE k \in DOMAIN c.slots : c.slots[k].name = s
<1>2. k \in DOMAIN c.slots
  BY <1>1
<1> QED BY <1>2, MemoryIsSpecified DEF Size

\* A group goes with each of its bindings.
LEMMA GroupIsShared ==
    ASSUME NEW c \in MemoryCandidates, NEW i \in DOMAIN c.bindings, IsFrame(c.bindings[i]),
           NEW j \in Group(c, i)
    PROVE  i \in Group(c, i) /\ IsFrame(c.bindings[j]) /\ Group(c, j) = Group(c, i)
BY DEF Group

\* The binding that leads a group comes no later than any of its bindings.
LEMMA GroupHasLeader ==
    ASSUME NEW c \in MemoryCandidates, NEW i \in DOMAIN c.bindings, IsFrame(c.bindings[i])
    PROVE  \E j \in Group(c, i) : j <= i /\ Leads(c, j)
<1>1. DOMAIN c.bindings \subseteq Nat
  BY CandidateParts
<1>2. Group(c, i) \subseteq Nat /\ i \in Group(c, i)
  BY <1>1 DEF Group
<1>3. Min(Group(c, i)) \in Group(c, i) /\ \A y \in Group(c, i) : Min(Group(c, i)) <= y
  BY <1>2, MinIsLeast
<1>4. IsFrame(c.bindings[Min(Group(c, i))]) /\ Group(c, Min(Group(c, i))) = Group(c, i)
  BY <1>3, GroupIsShared
<1> QED BY <1>2, <1>3, <1>4 DEF Leads

\* The last binding of a slot in a group is one of them.
LEMMA LastBinding ==
    ASSUME NEW c \in MemoryCandidates, NEW i \in DOMAIN c.bindings, NEW s \in SlotsOf(c, Group(c, i))
    PROVE  LET j == Max({j \in Group(c, i) : c.bindings[j].slot = s})
           IN  j \in Group(c, i) /\ c.bindings[j].slot = s
<1> DEFINE T == {j \in Group(c, i) : c.bindings[j].slot = s}
<1>1. T \in SUBSET (0..Len(c.bindings)) /\ T # {} /\ Len(c.bindings) \in Nat
  <2>1. DOMAIN c.bindings = 1..Len(c.bindings) /\ Len(c.bindings) \in Nat
    BY CandidateParts
  <2>2. Group(c, i) \subseteq DOMAIN c.bindings
    BY DEF Group
  <2>3. T \subseteq 1..Len(c.bindings)
    BY <2>1, <2>2
  <2>4. T # {}
    BY DEF SlotsOf
  <2> QED BY <2>1, <2>3, <2>4
<1>2. Max(T) \in T
  <2> HIDE DEF T
  <2> QED BY <1>1, MaxIsGreatest
<1> QED BY <1>2

\* A frame group is put at integers.
LEMMA FramePlaces ==
    ASSUME NEW c \in MemoryCandidates, NEW i \in DOMAIN c.bindings, frameNext \in Int
    PROVE  /\ InFrame(c, Group(c, i)) \in [SlotsOf(c, Group(c, i)) -> Int]
           /\ SlotsOf(c, Group(c, i)) \subseteq Names(c) \cap FrameSlots(c)
<1>1. ASSUME NEW s \in SlotsOf(c, Group(c, i))
      PROVE  frameNext + Offset(c.bindings[Max({j \in Group(c, i) : c.bindings[j].slot = s})].guest) \in Int
  <2> DEFINE k == Max({j \in Group(c, i) : c.bindings[j].slot = s})
  <2>1. k \in DOMAIN c.bindings
    BY LastBinding DEF Group
  <2> HIDE DEF k
  <2>2. Offset(c.bindings[k].guest) \in Int
    BY <2>1, CandidateParts
  <2>3. frameNext + Offset(c.bindings[k].guest) \in Int
    BY <2>2
  <2> QED BY <2>3 DEF k
<1>2. SlotsOf(c, Group(c, i)) \subseteq Names(c) \cap FrameSlots(c)
  BY CandidateParts DEF SlotsOf, Group, FrameSlots
<1> QED BY <1>1, <1>2 DEF InFrame

\* The highest of finitely many integers.
LEMMA HighestInt ==
    ASSUME NEW n \in Nat, NEW v \in [0..n -> Int]
    PROVE  Max({v[i] : i \in 0..n}) \in Int /\ \A k \in 0..n : v[k] <= Max({v[i] : i \in 0..n})
<1> DEFINE T(k) == {v[i] : i \in 0..k}
           P == {k \in 0..n : \E m \in T(k) : \A y \in T(k) : m >= y}
<1>1. 0 \in P
  <2>1. T(0) = {v[0]} /\ v[0] \in Int
    OBVIOUS
  <2> QED BY <2>1
<1>2. ASSUME NEW k \in 0..(n - 1), k \in P PROVE k + 1 \in P
  <2>1. PICK m \in T(k) : \A y \in T(k) : m >= y
    BY <1>2
  <2>2. v[k + 1] \in Int /\ k + 1 \in 0..n /\ m \in Int /\ T(k) \subseteq Int
    OBVIOUS
  <2>3. T(k + 1) = T(k) \cup {v[k + 1]}
    OBVIOUS
  <2> HIDE DEF T
  <2>4. CASE m >= v[k + 1]
    BY <2>1, <2>2, <2>3, <2>4
  <2>5. CASE v[k + 1] >= m
    <3>1. \A y \in T(k + 1) : v[k + 1] >= y
      BY <2>1, <2>2, <2>3, <2>5
    <3> QED BY <2>2, <2>3, <3>1
  <2> QED BY <2>2, <2>4, <2>5
<1>3. n \in P
  <2> HIDE DEF P
  <2>1. 0 \in Int /\ n \in Int /\ n \in 0..n
    OBVIOUS
  <2>2. \A k \in 0..n : k \in P
    BY <1>1, <1>2, <2>1, InductionBetween
  <2> QED BY <2>1, <2>2
<1>4. PICK m \in T(n) : \A y \in T(n) : m >= y
  BY <1>3
<1>5. Max(T(n)) \in T(n) /\ \A y \in T(n) : Max(T(n)) >= y
  BY <1>4 DEF Max
<1> QED BY <1>5

\* The next frame is put at an integer.
LEMMA NextFramePlace ==
    ASSUME NEW c \in MemoryCandidates, NEW i \in DOMAIN c.bindings, NEW x \in Int,
           NEW place \in [SlotsOf(c, Group(c, i)) -> Int]
    PROVE  Max({x} \cup {place[s] + Size(c, s) + 16 : s \in DOMAIN place}) \in Int
<1> DEFINE G == Group(c, i)
           end(s) == place[s] + Size(c, s) + 16
           v == [j \in 0..Len(c.bindings) |-> IF j \in G THEN end(c.bindings[j].slot) ELSE x]
<1>1. G \subseteq 1..Len(c.bindings) /\ Len(c.bindings) \in Nat
  BY CandidateParts DEF Group
<1>2. DOMAIN place = {c.bindings[j].slot : j \in G}
  BY DEF SlotsOf
<1>3. \A s \in DOMAIN place : end(s) \in Int
  <2>1. DOMAIN place \subseteq Names(c)
    BY <1>1, <1>2, CandidateParts
  <2> QED BY <2>1, SizeFits
<1>4. v \in [0..Len(c.bindings) -> Int]
  <2> HIDE DEF end, G
  <2>1. \A j \in G : c.bindings[j].slot \in DOMAIN place
    BY <1>2
  <2> QED BY <1>3, <2>1
<1>5. {x} \cup {end(s) : s \in DOMAIN place} = {v[j] : j \in 0..Len(c.bindings)}
  <2> HIDE DEF end, G
  <2>1. 0 \notin G /\ 0 \in 0..Len(c.bindings)
    BY <1>1
  <2>2. \A s \in DOMAIN place : \E j \in G : s = c.bindings[j].slot
    BY <1>2
  <2>3. \A s \in DOMAIN place : \E j \in 0..Len(c.bindings) : v[j] = end(s)
    <3> TAKE s \in DOMAIN place
    <3>1. PICK j \in G : s = c.bindings[j].slot
      BY <2>2
    <3>2. j \in 0..Len(c.bindings)
      BY <1>1
    <3> QED BY <3>1, <3>2
  <2>4. v[0] = x
    BY <2>1
  <2>5. \A j \in 0..Len(c.bindings) : v[j] \in {x} \cup {end(s) : s \in DOMAIN place}
    <3> TAKE j \in 0..Len(c.bindings)
    <3>1. CASE j \in G
      <4>1. c.bindings[j].slot \in DOMAIN place
        BY <1>2, <3>1
      <4> QED BY <3>1, <4>1
    <3>2. CASE j \notin G
      BY <3>2
    <3> QED BY <3>1, <3>2
  <2> QED BY <2>1, <2>3, <2>4, <2>5
<1>6. Max({v[j] : j \in 0..Len(c.bindings)}) \in Int
  <2> HIDE DEF v
  <2> QED BY <1>1, <1>4, HighestInt
<1> QED BY <1>5, <1>6

-----------------------------------------------------------------------------
(* The steps that place nothing.                                           *)
Elsewhere ==
    /\ {phase, phase'} \subseteq Placed
    /\ at' \in {1, at, at + 1}
    /\ UNCHANGED <<memoryCandidate, bases, frameNext, assigned>>

LEMMA OtherSteps ==
    ASSUME MemoryNext
    PROVE  \/ PlaceSlot \/ InitializeSlots \/ PlaceFrame \/ FramesPlaced
           \/ ValidateAlias \/ (\E v : Decide(v)) \/ AssignBinding \/ Elsewhere \/ UNCHANGED memoryVars
<1>1. CASE RegistersAssigned
  BY <1>1 DEF RegistersAssigned, Goto, Elsewhere, Placed
<1>2. ASSUME NEW side \in Sides, Run(side) PROVE Elsewhere
  BY <1>2 DEF Run, Elsewhere, Placed, Sides
<1>3. CASE RunEnds("guest", "host") \/ RunEnds("host", "count")
  BY <1>3 DEF RunEnds, Goto, Elsewhere, Placed
<1>4. CASE CheckCount
  BY <1>4 DEF CheckCount, Goto, Elsewhere, Placed
<1>5. CASE CheckOrdered
  BY <1>5 DEF CheckOrdered, Goto, Elsewhere, Placed
<1>6. CASE CheckBySlot
  BY <1>6 DEF CheckBySlot
<1>7. CASE MemoryDone
  BY <1>7 DEF MemoryDone
<1> QED BY <1>1, <1>2, <1>3, <1>4, <1>5, <1>6, <1>7 DEF MemoryNext, Sides

LEMMA PlaceSlotKeepsBases == BasesInv /\ PlaceSlot => BasesInv'
<1> SUFFICES ASSUME BasesInv, PlaceSlot PROVE BasesInv'
  OBVIOUS
<1> DEFINE c == memoryCandidate
           name == c.slots[at].name
           root == Roots(c)
           placed == {s \in DOMAIN bases : root[s] = root[name]}
<1>0. /\ phase = "slots" /\ at <= Len(c.slots) /\ at' = at + 1 /\ phase' = phase
      /\ memoryCandidate' = memoryCandidate
  BY DEF PlaceSlot
<1>1. c \in MemoryCandidates /\ at \in Nat \ {0} /\ frameNext \in Int /\ Stride \in Int
      /\ bases \in [DOMAIN bases -> Int] /\ DOMAIN bases \subseteq Names(c)
      /\ DOMAIN bases = NamesBefore(c, at) \ FrameSlots(c)
  BY <1>0, MemoryIsSpecified DEF BasesInv
<1>2. at \in DOMAIN c.slots /\ at \in Nat /\ Len(c.slots) \in Nat /\ DOMAIN c.slots = 1..Len(c.slots)
  BY <1>0, <1>1, CandidateParts
<1>3. name \in Names(c) /\ NamesBefore(c, at + 1) = NamesBefore(c, at) \cup {name}
  BY <1>2 DEF Names, NamesBefore
<1>4. /\ DOMAIN bases' = (DOMAIN bases \cup {name}) \ FrameSlots(c)
      /\ bases' \in [DOMAIN bases' -> Int] /\ frameNext' \in Int
  <2>1. CASE name \in FrameSlots(c)
    <3>1. bases' = bases /\ frameNext' = frameNext
      BY <2>1 DEF PlaceSlot
    <3> QED BY <1>1, <2>1, <3>1
  <2>2. CASE name \notin FrameSlots(c)
    <3>1. PICK base \in Int : bases' = Overlay([s \in {name} |-> base], bases) /\ frameNext' \in Int
      <4>1. CASE placed # {}
        <5> DEFINE base == bases[CHOOSE s \in placed : TRUE]
        <5>1. (CHOOSE s \in placed : TRUE) \in DOMAIN bases
          BY <4>1
        <5>2. bases' = Overlay([s \in {name} |-> base], bases) /\ frameNext' = frameNext
          BY <2>2, <4>1 DEF PlaceSlot
        <5>3. base \in Int
          BY <1>1, <5>1
        <5> HIDE DEF base, name
        <5> QED BY <1>1, <5>2, <5>3
      <4>2. CASE placed = {}
        <5>1. bases' = Overlay([s \in {name} |-> frameNext], bases) /\ frameNext' = frameNext + Stride
          BY <2>2, <4>2 DEF PlaceSlot
        <5>2. frameNext \in Int /\ frameNext' \in Int
          BY <1>1, <5>1
        <5> HIDE DEF name
        <5> QED BY <5>1, <5>2
      <4> QED BY <4>1, <4>2
    <3> HIDE DEF name
    <3>2. DOMAIN bases' = {name} \cup DOMAIN bases
      BY <3>1 DEF Overlay
    <3>3. bases' \in [DOMAIN bases' -> Int]
      BY <1>1, <3>1 DEF Overlay
    <3> QED BY <1>1, <2>2, <3>1, <3>2, <3>3
  <2> QED BY <2>1, <2>2
<1>5. DOMAIN bases' \subseteq Names(c)
  BY <1>1, <1>3, <1>4
<1>6. DOMAIN bases' = NamesBefore(c, at + 1) \ FrameSlots(c)
  BY <1>1, <1>3, <1>4
<1>7. at + 1 \in Nat \ {0} /\ at + 1 <= Len(c.slots) + 1
  BY <1>0, <1>2
<1>8. phase' # "alias" /\ phase' # "frames" /\ phase' \notin Placed
  BY <1>0 DEF Placed
<1> QED BY <1>0, <1>1, <1>4, <1>5, <1>6, <1>7, <1>8 DEF BasesInv

LEMMA InitializeSlotsKeepsBases == BasesInv /\ InitializeSlots => BasesInv'
<1> SUFFICES ASSUME BasesInv, InitializeSlots PROVE BasesInv'
  OBVIOUS
<1> DEFINE c == memoryCandidate
<1>0. /\ phase = "slots" /\ at > Len(c.slots) /\ at' = 1 /\ phase' = "frames"
      /\ memoryCandidate' = memoryCandidate /\ bases' = bases /\ frameNext' = frameNext
  BY DEF InitializeSlots, Goto
<1>1. c \in MemoryCandidates /\ at \in Nat \ {0} /\ frameNext \in Int
      /\ bases \in [DOMAIN bases -> Int] /\ DOMAIN bases \subseteq Names(c)
      /\ DOMAIN bases = NamesBefore(c, at) \ FrameSlots(c)
  BY <1>0 DEF BasesInv
<1>2. Len(c.slots) \in Nat /\ DOMAIN c.slots = 1..Len(c.slots)
      /\ Len(c.bindings) \in Nat /\ DOMAIN c.bindings = 1..Len(c.bindings)
  BY <1>1, CandidateParts
<1>3. NamesBefore(c, at) = Names(c)
  <2>1. \A i \in DOMAIN c.slots : i < at
    BY <1>0, <1>1, <1>2
  <2> QED BY <2>1 DEF Names, NamesBefore
<1>4. Names(c) \ FrameSlots(c) \subseteq DOMAIN bases
  BY <1>1, <1>3
<1>5. 1 <= Len(c.bindings) + 1 /\ \A i \in DOMAIN c.bindings : ~(i < 1)
  BY <1>2
<1>6. phase' # "alias" /\ phase' # "slots" /\ phase' \notin Placed
  BY <1>0 DEF Placed
<1> QED BY <1>0, <1>1, <1>4, <1>5, <1>6 DEF BasesInv

LEMMA PlaceFrameKeepsBases == BasesInv /\ PlaceFrame => BasesInv'
<1> SUFFICES ASSUME BasesInv, PlaceFrame PROVE BasesInv'
  OBVIOUS
<1> DEFINE c == memoryCandidate
           G == Group(c, at)
           place == InFrame(c, G)
           Ready(d) == Names(c) \ FrameSlots(c) \subseteq d
           Before(n, d) == \A i \in DOMAIN c.bindings :
                            i < n /\ IsFrame(c.bindings[i]) => SlotsOf(c, Group(c, i)) \subseteq d
<1>0. phase = "frames" /\ at <= Len(c.bindings) /\ memoryCandidate' = memoryCandidate
  BY DEF PlaceFrame, Decide
<1>1. c \in MemoryCandidates /\ at \in Nat \ {0} /\ frameNext \in Int /\ FrameStride \in Int
      /\ bases \in [DOMAIN bases -> Int] /\ DOMAIN bases \subseteq Names(c)
      /\ Ready(DOMAIN bases) /\ Before(at, DOMAIN bases)
  BY <1>0, MemoryIsSpecified DEF BasesInv
<1>2. at \in DOMAIN c.bindings /\ at \in Nat /\ Len(c.bindings) \in Nat /\ DOMAIN c.bindings = 1..Len(c.bindings)
  BY <1>0, <1>1, CandidateParts
<1>3. CASE ~Leads(c, at)
  <2>1. /\ at' = at + 1 /\ phase' = phase /\ bases' = bases /\ frameNext' = frameNext
    BY <1>3 DEF PlaceFrame
  <2>2. IsFrame(c.bindings[at]) => SlotsOf(c, G) \subseteq DOMAIN bases
    <3> HAVE IsFrame(c.bindings[at])
    <3>1. PICK j \in G : j <= at /\ Leads(c, j)
      BY <1>1, <1>2, GroupHasLeader
    <3>2. j # at /\ j \in DOMAIN c.bindings
      BY <1>3, <3>1 DEF Group
    <3>3. IsFrame(c.bindings[j]) /\ Group(c, j) = G
      BY <1>1, <1>2, GroupIsShared
    <3>4. j < at
      BY <1>2, <3>1, <3>2
    <3> QED BY <1>1, <3>2, <3>3, <3>4
  <2>3. Before(at + 1, DOMAIN bases)
    <3> TAKE i \in DOMAIN c.bindings
    <3> HAVE i < at + 1 /\ IsFrame(c.bindings[i])
    <3>1. i < at \/ i = at
      BY <1>2
    <3> QED BY <1>1, <2>2, <3>1
  <2> HIDE DEF Before, Ready
  <2>4. at + 1 \in Nat \ {0} /\ at + 1 <= Len(c.bindings) + 1
    BY <1>0, <1>2
  <2>5. phase' # "alias" /\ phase' # "slots" /\ phase' \notin Placed
    BY <1>0, <2>1 DEF Placed
  <2> QED BY <1>0, <1>1, <2>1, <2>3, <2>4, <2>5 DEF BasesInv, Before, Ready
<1>4. CASE Leads(c, at) /\ \E i, j \in G : HostFrame(c.bindings[i]) # HostFrame(c.bindings[j])
  <2>1. Decide("unsupported")
    BY <1>4 DEF PlaceFrame
  <2>2. phase' = "done" /\ at' = at /\ bases' = bases /\ frameNext' = frameNext
    BY <2>1 DEF Decide
  <2> QED BY <1>0, <1>1, <2>2 DEF BasesInv, Placed
<1>5. CASE Leads(c, at) /\ ~(\E i, j \in G : HostFrame(c.bindings[i]) # HostFrame(c.bindings[j]))
  <2>1. /\ at' = at + 1 /\ phase' = phase /\ bases' = Overlay(place, bases)
        /\ frameNext' = Max({frameNext + FrameStride} \cup {place[s] + Size(c, s) + 16 : s \in DOMAIN place})
    BY <1>5 DEF PlaceFrame
  <2>2. place \in [SlotsOf(c, G) -> Int] /\ SlotsOf(c, G) \subseteq Names(c)
    BY <1>1, <1>2, FramePlaces
  <2>3. frameNext' \in Int
    <3>1. frameNext + FrameStride \in Int
      BY <1>1
    <3> HIDE DEF place
    <3> QED BY <1>1, <1>2, <2>1, <2>2, <3>1, NextFramePlace
  <2> HIDE DEF place
  <2>4. DOMAIN bases' = SlotsOf(c, G) \cup DOMAIN bases
    BY <2>1, <2>2 DEF Overlay
  <2>5. bases' \in [DOMAIN bases' -> Int]
    BY <1>1, <2>1, <2>2 DEF Overlay
  <2>6. Before(at + 1, DOMAIN bases')
    <3> TAKE i \in DOMAIN c.bindings
    <3> HAVE i < at + 1 /\ IsFrame(c.bindings[i])
    <3>1. i < at \/ i = at
      BY <1>2
    <3> QED BY <1>1, <2>4, <3>1
  <2>7. Ready(DOMAIN bases') /\ DOMAIN bases' \subseteq Names(c)
    BY <1>1, <2>2, <2>4
  <2> HIDE DEF Before, Ready
  <2>8. at + 1 \in Nat \ {0} /\ at + 1 <= Len(c.bindings) + 1
    BY <1>0, <1>2
  <2>9. phase' # "alias" /\ phase' # "slots" /\ phase' \notin Placed
    BY <1>0, <2>1 DEF Placed
  <2> QED BY <1>0, <1>1, <2>1, <2>3, <2>5, <2>6, <2>7, <2>8, <2>9 DEF BasesInv, Before, Ready
<1> QED BY <1>3, <1>4, <1>5

LEMMA FramesPlacedKeepsBases == BasesInv /\ FramesPlaced => BasesInv'
<1> SUFFICES ASSUME BasesInv, FramesPlaced PROVE BasesInv'
  OBVIOUS
<1> DEFINE c == memoryCandidate
<1>0. /\ phase = "frames" /\ at > Len(c.bindings) /\ at' = 1 /\ phase' = "registers"
      /\ memoryCandidate' = memoryCandidate /\ bases' = bases /\ frameNext' = frameNext
  BY DEF FramesPlaced, Goto
<1>1. c \in MemoryCandidates /\ at \in Nat \ {0} /\ frameNext \in Int
      /\ bases \in [DOMAIN bases -> Int] /\ DOMAIN bases \subseteq Names(c)
      /\ Names(c) \ FrameSlots(c) \subseteq DOMAIN bases
      /\ \A i \in DOMAIN c.bindings :
            i < at /\ IsFrame(c.bindings[i]) => SlotsOf(c, Group(c, i)) \subseteq DOMAIN bases
  BY <1>0 DEF BasesInv
<1>2. \A i \in DOMAIN c.bindings : i < at
  BY <1>0, <1>1, CandidateParts
<1>3. FrameSlots(c) \subseteq DOMAIN bases
  <2>1. ASSUME NEW i \in DOMAIN c.bindings, IsFrame(c.bindings[i])
        PROVE  c.bindings[i].slot \in DOMAIN bases
    <3>1. c.bindings[i].slot \in SlotsOf(c, Group(c, i))
      BY <2>1 DEF SlotsOf, Group
    <3> QED BY <1>1, <1>2, <2>1, <3>1
  <2> QED BY <2>1 DEF FrameSlots, SlotsOf
<1>4. DOMAIN bases = Names(c)
  BY <1>1, <1>3
<1>5. phase' # "alias" /\ phase' # "slots" /\ phase' # "frames"
  BY <1>0
<1> QED BY <1>0, <1>1, <1>4, <1>5 DEF BasesInv

LEMMA BasesInvHolds == MemorySpec => []BasesInv
<1>1. MemoryInit => BasesInv
  <2> SUFFICES ASSUME MemoryInit PROVE BasesInv
    OBVIOUS
  <2>1. /\ memoryCandidate \in MemoryCandidates /\ phase = "alias" /\ at = 1 /\ bases = <<>>
        /\ frameNext = MemoryBase
    BY DEF MemoryInit
  <2>2. DOMAIN bases = {} /\ bases \in [DOMAIN bases -> Int]
    BY <2>1
  <2> QED BY <2>1, <2>2, MemoryIsSpecified DEF BasesInv, Placed
<1>2. BasesInv /\ [MemoryNext]_memoryVars => BasesInv'
  <2> SUFFICES ASSUME BasesInv, [MemoryNext]_memoryVars PROVE BasesInv'
    OBVIOUS
  <2>1. CASE ValidateAlias
    <3>1. CASE Contradictory(memoryCandidate)
      BY <2>1, <3>1 DEF ValidateAlias, Decide, BasesInv, Placed
    <3>2. CASE ~Contradictory(memoryCandidate)
      <4>1. /\ phase' = "slots" /\ at' = 1 /\ bases' = bases /\ frameNext' = frameNext
            /\ memoryCandidate' = memoryCandidate /\ DOMAIN bases = {}
        BY <2>1, <3>2 DEF ValidateAlias, Goto, BasesInv
      <4>2. Len(memoryCandidate.slots) \in Nat /\ DOMAIN memoryCandidate.slots = 1..Len(memoryCandidate.slots)
        BY CandidateParts DEF BasesInv
      <4>3. 1 <= Len(memoryCandidate.slots) + 1 /\ NamesBefore(memoryCandidate, 1) = {}
        BY <4>2 DEF NamesBefore
      <4> QED BY <4>1, <4>3 DEF BasesInv, Placed
    <3> QED BY <3>1, <3>2
  <2>2. ASSUME NEW v, Decide(v) PROVE BasesInv'
    BY <2>2 DEF Decide, BasesInv, Placed
  <2>3. CASE AssignBinding
    <3>1. CASE phase' = "done"
      BY <2>3, <3>1 DEF AssignBinding, Decide, BasesInv, Placed
    <3>2. CASE phase' # "done"
      <4>1. /\ phase = "registers" /\ phase' = phase /\ at' = at + 1 /\ bases' = bases
            /\ frameNext' = frameNext /\ memoryCandidate' = memoryCandidate
        BY <2>3, <3>2 DEF AssignBinding, Decide
      <4> QED BY <4>1 DEF BasesInv, Placed
    <3> QED BY <3>1, <3>2
  <2>4. CASE Elsewhere
    <3>1. /\ phase \in Placed /\ phase' \in Placed /\ at' \in {1, at, at + 1}
          /\ memoryCandidate' = memoryCandidate /\ bases' = bases /\ frameNext' = frameNext
      BY <2>4 DEF Elsewhere
    <3>2. DOMAIN bases = Names(memoryCandidate) /\ at' \in Nat \ {0}
      BY <3>1 DEF BasesInv
    <3> QED BY <3>1, <3>2 DEF BasesInv, Placed
  <2>5. CASE UNCHANGED memoryVars
    BY <2>5 DEF memoryVars, BasesInv
  <2> QED BY <2>1, <2>2, <2>3, <2>4, <2>5, OtherSteps, PlaceSlotKeepsBases, InitializeSlotsKeepsBases,
             PlaceFrameKeepsBases, FramesPlacedKeepsBases
<1> QED BY <1>1, <1>2, PTL DEF MemorySpec

(***************************************************************************)
(* What a run does to the memory.                                          *)
(***************************************************************************)
Writes(es) == {k \in DOMAIN es : es[k].kind = "write" /\ es[k].concrete}

Covering(es, x) == {k \in Writes(es) : x \in Bytes(es[k].address, es[k].width)}

\* Each byte is that of the last write that covers it, or as it was at first.
Replayed(start, es) ==
    [x \in DOMAIN start \cup UNION {Bytes(es[k].address, es[k].width) : k \in Writes(es)} |->
        IF Covering(es, x) = {} THEN start[x]
        ELSE es[Max(Covering(es, x))].value[x - es[Max(Covering(es, x))].address + 1]]

LEMMA AppendedEvents ==
    ASSUME NEW S, NEW es \in Seq(S), NEW e
    PROVE  /\ Append(es, e) \in Seq(S \cup {e})
           /\ Len(es) \in Nat /\ Len(Append(es, e)) = Len(es) + 1
           /\ DOMAIN es = 1..Len(es) /\ DOMAIN Append(es, e) = 1..(Len(es) + 1)
           /\ \A k \in 1..Len(es) : Append(es, e)[k] = es[k]
           /\ Append(es, e)[Len(es) + 1] = e
           /\ Len(es) + 1 \notin DOMAIN es
<1>1. es \in Seq(S \cup {e})
  OBVIOUS
<1> QED BY <1>1

LEMMA ReplayedIdle ==
    ASSUME NEW S, NEW es \in Seq(S), NEW e, NEW start, ~(e.kind = "write" /\ e.concrete)
    PROVE  Replayed(start, Append(es, e)) = Replayed(start, es)
<1> DEFINE fs == Append(es, e)
<1>0. /\ DOMAIN es = 1..Len(es) /\ DOMAIN fs = 1..(Len(es) + 1) /\ Len(es) \in Nat
      /\ \A k \in 1..Len(es) : fs[k] = es[k]
      /\ fs[Len(es) + 1] = e
  BY AppendedEvents
<1> HIDE DEF fs
<1>1. Writes(fs) = Writes(es)
  <2>1. \A k \in DOMAIN fs : k \in DOMAIN es \/ k = Len(es) + 1
    BY <1>0
  <2>2. DOMAIN es \subseteq DOMAIN fs
    BY <1>0
  <2> QED BY <1>0, <2>1, <2>2 DEF Writes
<1>2. \A k \in Writes(es) : fs[k] = es[k] /\ k \in Nat
  BY <1>0 DEF Writes
<1>3. \A x : Covering(fs, x) = Covering(es, x)
  BY <1>1, <1>2 DEF Covering
<1>4. UNION {Bytes(fs[k].address, fs[k].width) : k \in Writes(fs)}
        = UNION {Bytes(es[k].address, es[k].width) : k \in Writes(es)}
  BY <1>1, <1>2
<1>5. ASSUME NEW x, Covering(es, x) # {}
      PROVE  fs[Max(Covering(es, x))] = es[Max(Covering(es, x))]
  <2>1. Covering(es, x) \in SUBSET (0..Len(es))
    BY <1>0 DEF Covering, Writes
  <2>2. Max(Covering(es, x)) \in Covering(es, x)
    BY <1>0, <1>5, <2>1, MaxIsGreatest
  <2> QED BY <1>2, <2>2 DEF Covering
<1>6. Replayed(start, fs) = Replayed(start, es)
  <2> DEFINE byte(gs, x) ==
               IF Covering(gs, x) = {} THEN start[x]
               ELSE gs[Max(Covering(gs, x))].value[x - gs[Max(Covering(gs, x))].address + 1]
             D(gs) == DOMAIN start \cup UNION {Bytes(gs[k].address, gs[k].width) : k \in Writes(gs)}
  <2>1. \A x : byte(fs, x) = byte(es, x)
    BY <1>3, <1>5
  <2>2. D(fs) = D(es)
    BY <1>4
  <2>3. Replayed(start, fs) = [x \in D(fs) |-> byte(fs, x)] /\ Replayed(start, es) = [x \in D(es) |-> byte(es, x)]
    BY DEF Replayed
  <2> HIDE DEF byte, D
  <2> QED BY <2>1, <2>2, <2>3
<1> QED BY <1>6 DEF fs

\* The bytes of one write.
Written(e) == [x \in Bytes(e.address, e.width) |-> e.value[x - e.address + 1]]

LEMMA ReplayedWrite ==
    ASSUME NEW S, NEW es \in Seq(S), NEW e, NEW start, e.kind = "write" /\ e.concrete
    PROVE  Replayed(start, Append(es, e))
            = Overlay(Written(e), Replayed(start, es))
<1> DEFINE fs == Append(es, e)
           n == Len(es) + 1
<1>0. /\ DOMAIN es = 1..Len(es) /\ DOMAIN fs = 1..n /\ Len(es) \in Nat /\ n \in Nat
      /\ \A k \in 1..Len(es) : fs[k] = es[k]
      /\ fs[n] = e
  BY AppendedEvents
<1>1. Writes(fs) = Writes(es) \cup {n} /\ n \notin Writes(es)
  <2>1. \A k \in DOMAIN fs : k \in DOMAIN es \/ k = n
    BY <1>0
  <2>2. DOMAIN es \subseteq DOMAIN fs /\ n \in DOMAIN fs /\ n \notin DOMAIN es
    BY <1>0
  <2> HIDE DEF fs, n
  <2> QED BY <1>0, <2>1, <2>2 DEF Writes
<1>2. \A k \in Writes(es) : fs[k] = es[k] /\ k \in 1..Len(es)
  BY <1>0 DEF Writes
<1> HIDE DEF fs, n
<1>3. \A x : Covering(fs, x) = IF x \in Bytes(e.address, e.width) THEN Covering(es, x) \cup {n} ELSE Covering(es, x)
  BY <1>0, <1>1, <1>2 DEF Covering
<1>4. UNION {Bytes(fs[k].address, fs[k].width) : k \in Writes(fs)}
        = Bytes(e.address, e.width) \cup UNION {Bytes(es[k].address, es[k].width) : k \in Writes(es)}
  BY <1>0, <1>1, <1>2
<1>5. ASSUME NEW x, Covering(es, x) # {}
      PROVE  fs[Max(Covering(es, x))] = es[Max(Covering(es, x))]
  <2>1. Covering(es, x) \in SUBSET (0..Len(es))
    BY <1>0 DEF Covering, Writes
  <2>2. Max(Covering(es, x)) \in Covering(es, x)
    BY <1>0, <1>5, <2>1, MaxIsGreatest
  <2> QED BY <1>2, <2>2 DEF Covering
<1>6. ASSUME NEW x, x \in Bytes(e.address, e.width)
      PROVE  Covering(fs, x) # {} /\ Max(Covering(fs, x)) = n
  <2>1. Covering(fs, x) = Covering(es, x) \cup {n}
    BY <1>3, <1>6
  <2>2. Covering(fs, x) \in SUBSET (0..n)
    BY <1>0, <2>1 DEF Covering, Writes, n
  <2>3. Max(Covering(fs, x)) \in 0..n /\ n <= Max(Covering(fs, x))
    BY <1>0, <2>1, <2>2, MaxIsGreatest
  <2> QED BY <1>0, <2>1, <2>3
<1>7. Replayed(start, fs)
        = Overlay([x \in Bytes(e.address, e.width) |-> e.value[x - e.address + 1]], Replayed(start, es))
  <2> DEFINE upper == [x \in Bytes(e.address, e.width) |-> e.value[x - e.address + 1]]
             D == DOMAIN start \cup UNION {Bytes(es[k].address, es[k].width) : k \in Writes(es)}
  <2>1. DOMAIN Replayed(start, es) = D
    BY DEF Replayed
  <2>2. DOMAIN Replayed(start, fs) = Bytes(e.address, e.width) \cup D
    BY <1>4 DEF Replayed
  <2>3. ASSUME NEW x \in Bytes(e.address, e.width)
        PROVE  Replayed(start, fs)[x] = upper[x]
    <3>1. Replayed(start, fs)[x]
            = IF Covering(fs, x) = {} THEN start[x]
              ELSE fs[Max(Covering(fs, x))].value[x - fs[Max(Covering(fs, x))].address + 1]
      BY <2>2 DEF Replayed
    <3> QED BY <1>0, <1>6, <3>1
  <2>4. ASSUME NEW x \in D, x \notin Bytes(e.address, e.width)
        PROVE  Replayed(start, fs)[x] = Replayed(start, es)[x]
    <3>1. Covering(fs, x) = Covering(es, x)
      BY <1>3, <2>4
    <3>2. Replayed(start, fs)[x]
            = IF Covering(es, x) = {} THEN start[x]
              ELSE fs[Max(Covering(es, x))].value[x - fs[Max(Covering(es, x))].address + 1]
      BY <2>2, <3>1 DEF Replayed
    <3>3. Replayed(start, es)[x]
            = IF Covering(es, x) = {} THEN start[x]
              ELSE es[Max(Covering(es, x))].value[x - es[Max(Covering(es, x))].address + 1]
      BY <2>1 DEF Replayed
    <3> QED BY <1>5, <3>2, <3>3
  <2>5. Replayed(start, fs) = [x \in Bytes(e.address, e.width) \cup D |-> Replayed(start, fs)[x]]
    BY <2>2 DEF Replayed
  <2>6. Overlay(upper, Replayed(start, es))
          = [x \in Bytes(e.address, e.width) \cup D |->
                IF x \in Bytes(e.address, e.width) THEN upper[x] ELSE Replayed(start, es)[x]]
    BY <2>1 DEF Overlay
  <2> HIDE DEF D, upper
  <2>7. Replayed(start, fs) = Overlay(upper, Replayed(start, es))
    BY <2>3, <2>4, <2>5, <2>6
  <2> QED BY <2>7 DEF upper
<1> QED BY <1>7 DEF fs, Written

LEMMA ReplayedNothing ==
    ASSUME NEW start, start = [x \in DOMAIN start |-> start[x]]
    PROVE  Replayed(start, <<>>) = start
<1>1. Writes(<<>>) = {} /\ \A x : Covering(<<>>, x) = {}
  BY DEF Writes, Covering
<1> QED BY <1>1 DEF Replayed

(***************************************************************************)
(* A pass is a pass whatever the order of the accesses.                    *)
(***************************************************************************)
IsEvent(e) ==
    /\ e = [kind |-> e.kind, concrete |-> e.concrete, width |-> e.width, value |-> e.value, address |-> e.address]
    /\ e.concrete \in BOOLEAN

Recorded(es) == Listed(es) /\ \A k \in DOMAIN es : IsEvent(es[k])

\* A list of events that are, one by one, the accesses of the candidate: the
\* match and the values are functions of the access.
Matched(es, m, values) ==
    /\ Recorded(es) /\ Len(es) = Len(Accesses)
    /\ m \in Injection(DOMAIN Accesses, DOMAIN Accesses)
    /\ \A i \in DOMAIN Accesses :
        /\ es[m[i]].concrete /\ es[m[i]].address = bases[Accesses[i].slot]
        /\ Shape(i, es[m[i]]) /\ es[m[i]].value = values[i]

Ready ==
    /\ memoryCandidate \in MemoryCandidates
    /\ DOMAIN bases = Names(memoryCandidate) /\ bases \in [DOMAIN bases -> Int]

LEMMA AccessPlaces ==
    ASSUME Ready
    PROVE  /\ DOMAIN Accesses = 1..Len(Accesses) /\ Len(Accesses) \in Nat
           /\ \A i \in DOMAIN Accesses : bases[Accesses[i].slot] \in Int /\ bases[Accesses[i].slot] \in Ranges(i)
<1>1. /\ DOMAIN Accesses = 1..Len(Accesses) /\ Len(Accesses) \in Nat
      /\ \A i \in DOMAIN Accesses : Accesses[i].slot \in Names(memoryCandidate) /\ Accesses[i].width \in Nat \ {0}
  BY CandidateParts DEF Ready, Accesses
<1>2. ASSUME NEW i \in DOMAIN Accesses
      PROVE  bases[Accesses[i].slot] \in Int /\ bases[Accesses[i].slot] \in Ranges(i)
  <2>1. bases[Accesses[i].slot] \in Int /\ Accesses[i].width \in Nat \ {0}
    BY <1>1 DEF Ready
  <2> QED BY <2>1 DEF Ranges, Bytes
<1> QED BY <1>1, <1>2

\* Every event is matched.
LEMMA MatchIsOnto ==
    ASSUME Ready, NEW es, NEW m, NEW values, Matched(es, m, values)
    PROVE  /\ DOMAIN es = DOMAIN Accesses
           /\ \A i \in DOMAIN Accesses : m[i] \in DOMAIN es
           /\ \A i, j \in DOMAIN Accesses : m[i] = m[j] => i = j
           /\ \A k \in DOMAIN es : \E i \in DOMAIN Accesses : k = m[i]
<1>1. DOMAIN Accesses = 1..Len(Accesses) /\ Len(Accesses) \in Nat
  BY AccessPlaces
<1>2. IsFiniteSet(DOMAIN Accesses)
  <2>1. 1 \in Int /\ Len(Accesses) \in Int
    BY <1>1
  <2> QED BY <1>1, <2>1, FS_Interval
<1>3. m \in Surjection(DOMAIN Accesses, DOMAIN Accesses)
  BY <1>2, FS_Injection DEF Matched
<1>4. DOMAIN es = DOMAIN Accesses
  BY <1>1 DEF Matched, Recorded, Listed
<1> QED BY <1>3, <1>4 DEF Matched, Injection, IsInjective, Surjection

Kinds == {a.kind : a \in Range(Accesses)}

LEMMA OneKind ==
    ASSUME Ready, Reorderable
    PROVE  \E K : \A i \in DOMAIN Accesses : Accesses[i].kind = K
<1>1. IsFiniteSet(Kinds)
  <2>1. DOMAIN Accesses = 1..Len(Accesses) /\ Len(Accesses) \in Int /\ 1 \in Int
    BY AccessPlaces
  <2>2. IsFiniteSet(DOMAIN Accesses)
    BY <2>1, FS_Interval
  <2>3. [i \in DOMAIN Accesses |-> Accesses[i].kind] \in Surjection(DOMAIN Accesses, Kinds)
    BY DEF Kinds, Range, Surjection
  <2> QED BY <2>2, <2>3, FS_Surjection
<1>2. Cardinality(Kinds) = 1
  BY DEF Reorderable, Kinds
<1>3. PICK K : Kinds = {K}
  BY <1>1, <1>2, FS_Singleton
<1>4. \A i \in DOMAIN Accesses : Accesses[i].kind \in Kinds
  BY DEF Kinds, Range
<1> QED BY <1>3, <1>4

\* The memory after the accesses, all of kind K, each with its value.
FinalMemory(start, K, values) ==
    [x \in DOMAIN start \cup UNION {Ranges(i) : i \in {i \in DOMAIN Accesses : K = "write"}} |->
        IF \A i \in DOMAIN Accesses : ~(K = "write" /\ x \in Ranges(i)) THEN start[x]
        ELSE LET i == CHOOSE i \in DOMAIN Accesses : x \in Ranges(i)
             IN  values[i][x - bases[Accesses[i].slot] + 1]]

\* What the memory ends up as, whatever the order of the events.
LEMMA MatchedReplay ==
    ASSUME Ready, Reorderable, NEW es, NEW m, NEW values, Matched(es, m, values), NEW start,
           NEW K, \A i \in DOMAIN Accesses : Accesses[i].kind = K
    PROVE  Replayed(start, es) = FinalMemory(start, K, values)
<1> DEFINE W == {i \in DOMAIN Accesses : K = "write"}
<1>1. /\ DOMAIN es = DOMAIN Accesses
      /\ \A i \in DOMAIN Accesses : m[i] \in DOMAIN es
      /\ \A i, j \in DOMAIN Accesses : m[i] = m[j] => i = j
      /\ \A k \in DOMAIN es : \E i \in DOMAIN Accesses : k = m[i]
  BY MatchIsOnto
<1>2. \A i \in DOMAIN Accesses :
        /\ es[m[i]].concrete /\ es[m[i]].address = bases[Accesses[i].slot]
        /\ es[m[i]].kind = K /\ es[m[i]].width = Accesses[i].width /\ es[m[i]].value = values[i]
  BY DEF Matched, Shape
<1>3. Writes(es) = {m[i] : i \in W}
  <2>1. ASSUME NEW k \in Writes(es) PROVE \E i \in W : k = m[i]
    <3>1. PICK i \in DOMAIN Accesses : k = m[i]
      BY <1>1, <2>1 DEF Writes
    <3> QED BY <1>2, <2>1, <3>1 DEF Writes
  <2>2. ASSUME NEW i \in W PROVE m[i] \in Writes(es)
    BY <1>1, <1>2 DEF Writes
  <2> HIDE DEF W
  <2> QED BY <2>1, <2>2
<1>4. \A i \in DOMAIN Accesses : Bytes(es[m[i]].address, es[m[i]].width) = Ranges(i)
  BY <1>2 DEF Ranges
<1>5. UNION {Bytes(es[k].address, es[k].width) : k \in Writes(es)} = UNION {Ranges(i) : i \in W}
  <2>1. {Bytes(es[k].address, es[k].width) : k \in Writes(es)} = {Ranges(i) : i \in W}
    <3>1. \A k \in Writes(es) : \E i \in W : k = m[i] /\ i \in DOMAIN Accesses
      BY <1>3
    <3>2. \A i \in W : m[i] \in Writes(es) /\ i \in DOMAIN Accesses
      BY <1>3
    <3> HIDE DEF W
    <3> QED BY <1>4, <3>1, <3>2
  <2> QED BY <2>1
<1>6. \A x : Covering(es, x) = {m[i] : i \in {i \in W : x \in Ranges(i)}}
  BY <1>3, <1>4 DEF Covering
<1> DEFINE byte(x) == IF Covering(es, x) = {} THEN start[x]
                      ELSE es[Max(Covering(es, x))].value[x - es[Max(Covering(es, x))].address + 1]
           said(x) == IF \A i \in DOMAIN Accesses : ~(K = "write" /\ x \in Ranges(i)) THEN start[x]
                      ELSE LET i == CHOOSE i \in DOMAIN Accesses : x \in Ranges(i)
                           IN  values[i][x - bases[Accesses[i].slot] + 1]
<1>7. ASSUME NEW x PROVE byte(x) = said(x)
  <2>1. CASE \A i \in DOMAIN Accesses : ~(K = "write" /\ x \in Ranges(i))
    <3>1. Covering(es, x) = {}
      BY <1>6, <2>1
    <3> QED BY <2>1, <3>1
  <2>2. CASE ~(\A i \in DOMAIN Accesses : ~(K = "write" /\ x \in Ranges(i)))
    <3>1. PICK i \in DOMAIN Accesses : K = "write" /\ x \in Ranges(i)
      BY <2>2
    <3>2. \A j \in DOMAIN Accesses : x \in Ranges(j) => j = i
      BY <3>1 DEF Reorderable
    <3>3. (CHOOSE j \in DOMAIN Accesses : x \in Ranges(j)) = i
      BY <3>1, <3>2
    <3>4. Covering(es, x) = {m[i]}
      BY <1>6, <3>1, <3>2
    <3>5. m[i] \in Nat
      BY <1>1, AccessPlaces
    <3>6. Max({m[i]}) = m[i]
      BY <3>5 DEF Max
    <3>7. byte(x) = es[m[i]].value[x - es[m[i]].address + 1]
      BY <3>4, <3>6
    <3>8. said(x) = values[i][x - bases[Accesses[i].slot] + 1]
      BY <2>2, <3>3
    <3> QED BY <1>2, <3>7, <3>8
  <2> QED BY <2>1, <2>2
<1>8. Replayed(start, es) = [x \in DOMAIN start \cup UNION {Ranges(i) : i \in W} |-> byte(x)]
  BY <1>5 DEF Replayed
<1>9. Replayed(start, es) = [x \in DOMAIN start \cup UNION {Ranges(i) : i \in W} |-> said(x)]
  <2> HIDE DEF byte, said, W
  <2> QED BY <1>7, <1>8
<1> QED BY <1>9 DEF FinalMemory

Once(value) == [n \in 1..1 |-> value]

LEMMA ReadOnce ==
    ASSUME NEW es, NEW x, NEW k \in Nat, Reads(es, x) = {k}
    PROVE  ReadsAt(es, x) = Once(es[k].value)
<1> DEFINE nth(n) == CHOOSE i \in Reads(es, x) : Cardinality({j \in Reads(es, x) : j <= i}) = n
<1>1. Cardinality({k}) = 1
  BY FS_Singleton
<1>2. {j \in {k} : j <= k} = {k}
  OBVIOUS
<1>3. nth(1) = k
  BY <1>1, <1>2
<1>4. ReadsAt(es, x) = [n \in 1..1 |-> es[nth(n)].value]
  BY <1>1 DEF ReadsAt
<1> HIDE DEF nth
<1>5. \A n \in 1..1 : n = 1
  OBVIOUS
<1> QED BY <1>3, <1>4, <1>5 DEF Once

LEMMA ReadNever ==
    ASSUME NEW es, NEW x, Reads(es, x) = {}
    PROVE  ReadsAt(es, x) = [n \in {} |-> n]
<1>1. 1..Cardinality(Reads(es, x)) = {}
  BY FS_EmptySet
<1> QED BY <1>1 DEF ReadsAt

\* A match by slot, on both sides, with equal values.
LEMMA MatchedEffects ==
    ASSUME Ready, Reorderable, NEW start, NEW values, NEW g, NEW h,
           Matched(events["guest"], g, values), Matched(events["host"], h, values),
           memory["guest"] = Replayed(start, events["guest"]), memory["host"] = Replayed(start, events["host"])
    PROVE  SameEffects
<1>1. PICK K : \A i \in DOMAIN Accesses : Accesses[i].kind = K
  BY OneKind
<1>2. memory["guest"] = memory["host"]
  <2>1. Replayed(start, events["guest"]) = FinalMemory(start, K, values)
    BY <1>1, MatchedReplay
  <2>2. Replayed(start, events["host"]) = FinalMemory(start, K, values)
    BY <1>1, MatchedReplay
  <2> QED BY <2>1, <2>2
<1>3. ASSUME NEW side, NEW m, Matched(events[side], m, values), NEW i \in DOMAIN Accesses,
             NEW x, x = bases[Accesses[i].slot]
      PROVE  ReadsAt(events[side], x) = IF K = "read" THEN Once(values[i]) ELSE [n \in {} |-> n]
  <2> DEFINE es == events[side]
  <2>1. /\ DOMAIN es = DOMAIN Accesses
        /\ \A j \in DOMAIN Accesses : m[j] \in DOMAIN es
        /\ \A k \in DOMAIN es : \E j \in DOMAIN Accesses : k = m[j]
    BY <1>3, MatchIsOnto
  <2>2. \A j \in DOMAIN Accesses :
          es[m[j]].address = bases[Accesses[j].slot] /\ es[m[j]].kind = K /\ es[m[j]].value = values[j]
    BY <1>1, <1>3 DEF Matched, Shape
  <2>3. CASE K # "read"
    <3>1. ASSUME NEW k \in Reads(es, x) PROVE FALSE
      <4>1. PICK j \in DOMAIN Accesses : k = m[j]
        BY <2>1, <3>1 DEF Reads
      <4>2. es[k].kind = K /\ es[k].kind = "read"
        BY <2>2, <3>1, <4>1 DEF Reads
      <4> QED BY <2>3, <4>2
    <3>2. Reads(es, x) = {}
      BY <3>1
    <3> QED BY <2>3, <3>2, ReadNever
  <2>4. CASE K = "read"
    <3>1. \A j \in DOMAIN Accesses : bases[Accesses[j].slot] = x => j = i
      BY <1>3, AccessPlaces DEF Reorderable
    <3>2. Reads(es, x) = {m[i]}
      <4>1. m[i] \in Reads(es, x)
        BY <1>3, <2>1, <2>2, <2>4 DEF Reads
      <4>2. ASSUME NEW k \in Reads(es, x) PROVE k = m[i]
        <5>1. PICK j \in DOMAIN Accesses : k = m[j]
          BY <2>1, <4>2 DEF Reads
        <5>2. es[k].address = x /\ es[k].address = bases[Accesses[j].slot]
          BY <2>2, <4>2, <5>1 DEF Reads
        <5> QED BY <3>1, <5>1, <5>2
      <4> QED BY <4>1, <4>2
    <3>3. m[i] \in Nat
      BY <2>1, AccessPlaces
    <3>4. ReadsAt(events[side], x) = Once(events[side][m[i]].value)
      BY <3>2, <3>3, ReadOnce
    <3>5. events[side][m[i]].value = values[i]
      BY <2>2
    <3> QED BY <2>4, <3>4, <3>5
  <2> QED BY <2>3, <2>4
<1>4. ASSUME NEW e \in Range(events["guest"])
      PROVE  ReadsAt(events["guest"], e.address) = ReadsAt(events["host"], e.address)
  <2>1. PICK k \in DOMAIN events["guest"] : e = events["guest"][k]
    BY DEF Range
  <2>2. PICK i \in DOMAIN Accesses : k = g[i]
    BY MatchIsOnto
  <2>3. e.address = bases[Accesses[i].slot]
    BY <2>1, <2>2 DEF Matched
  <2> DEFINE read == IF K = "read" THEN Once(values[i]) ELSE [n \in {} |-> n]
  <2>4. ReadsAt(events["guest"], e.address) = read
    BY <1>3, <2>3
  <2>5. ReadsAt(events["host"], e.address) = read
    BY <1>3, <2>3
  <2> QED BY <2>4, <2>5
<1> QED BY <1>2, <1>4 DEF SameEffects

Early == {"alias", "slots", "frames", "registers"}

Running == {"guest", "host", "count", "ordered", "by_slot"}

\* Both memories start as one, and are what the events recorded make of it.
EffectsInv ==
    /\ phase \in Early \cup Running \cup {"done"}
    /\ verdict \in {"pending", "pass", "fail", "unsupported", "error"}
    /\ phase # "done" => verdict = "pending"
    /\ events = [side \in Sides |-> events[side]]
    /\ \A side \in Sides : Recorded(events[side])
    /\ phase \in Early => \A side \in Sides : events[side] = <<>>
    /\ phase = "guest" => events["host"] = <<>>
    /\ \A side \in Sides :
        phase = side => at = Len(events[side]) + 1 /\ at <= Len(memoryCandidate[side]) + 1
    /\ phase \in {"frames", "registers"} =>
        \E m : m = [x \in DOMAIN m |-> m[x]] /\ memory = [side \in Sides |-> m]
    /\ phase \in Running => \E start : memory = [side \in Sides |-> Replayed(start, events[side])]
    /\ phase \in {"ordered", "by_slot"} => \A side \in Sides : Len(events[side]) = Len(Accesses)
    /\ PassMeansSameEffects

LEMMA DecisionKeepsEffects ==
    ASSUME EffectsInv, NEW v \in {"pass", "fail", "unsupported", "error"}, Decide(v), v = "pass" => SameEffects
    PROVE  EffectsInv'
<1>0. /\ phase' = "done" /\ verdict' = v /\ memory' = memory /\ events' = events
  BY DEF Decide
<1>1. SameEffects' <=> SameEffects
  BY <1>0 DEF SameEffects, ReadsAt, Reads
<1>2. PassMeansSameEffects'
  BY <1>0, <1>1 DEF PassMeansSameEffects
<1> HIDE DEF PassMeansSameEffects
<1> QED BY <1>0, <1>2 DEF EffectsInv, Early, Running, Sides

\* Until the fragments run, no event is recorded.
LEMMA EarlyKeepsEffects ==
    ASSUME EffectsInv, phase \in Early, phase' \in Early, verdict' = verdict, events' = events,
           phase' \in {"frames", "registers"} =>
                \E m : m = [x \in DOMAIN m |-> m[x]] /\ memory' = [side \in Sides |-> m]
    PROVE  EffectsInv'
<1>1. verdict' = "pending" /\ phase' # "done" /\ phase' \notin Running /\ phase' \notin Sides
  BY DEF EffectsInv, Early, Running, Sides
<1>2. PassMeansSameEffects'
  BY <1>1 DEF PassMeansSameEffects
<1>3. phase' \notin {"ordered", "by_slot"} /\ phase' # "guest"
  BY DEF Early
<1> QED BY <1>1, <1>2, <1>3 DEF EffectsInv

\* One more event.
LEMMA RunKeepsEffects ==
    ASSUME BasesInv, EffectsInv, NEW side \in Sides, Run(side)
    PROVE  EffectsInv'
<1> DEFINE c == memoryCandidate
           access == c[side][at]
           concrete == IsConcrete(c, access.addr)
           address == Address(c, access.addr)
           value == IF access.kind = "write" THEN Stored(side, access.value, access.width)
                    ELSE IF concrete THEN Load(side, address, access.width) ELSE Unknown
           e == [kind |-> access.kind, concrete |-> concrete, width |-> access.width, value |-> value,
                 address |-> IF concrete THEN address ELSE 0]
           es == events[side]
           put == [x \in Bytes(address, access.width) |-> value[x - address + 1]]
<1>0. /\ phase = side /\ phase' = phase /\ at <= Len(c[side]) /\ at' = at + 1 /\ c' = c
      /\ verdict' = verdict /\ bases' = bases
      /\ events' = [events EXCEPT ![side] = Append(es, e)]
      /\ memory' = IF access.kind = "write" /\ concrete THEN [memory EXCEPT ![side] = Overlay(put, memory[side])]
                   ELSE memory
  BY DEF Run
<1>1. phase \in Running /\ phase # "done" /\ phase \notin {"ordered", "by_slot", "frames", "registers"}
      /\ phase \notin Early
  BY <1>0 DEF Running, Sides, Early
<1>2. verdict = "pending" /\ Recorded(es) /\ es \in Seq(Range(es))
      /\ at = Len(es) + 1
  BY <1>0, <1>1 DEF EffectsInv, Recorded, Listed
<1>3. concrete \in BOOLEAN
  BY DEF IsConcrete, HasValue
<1>4. IsEvent(e) /\ e.kind = access.kind /\ e.concrete = concrete /\ e.width = access.width
      /\ e.value = value /\ (concrete => e.address = address)
  <2> HIDE DEF concrete, value, address, access
  <2> QED BY <1>3 DEF IsEvent
<1> HIDE DEF e
<1>5. Recorded(Append(es, e)) /\ Len(Append(es, e)) = Len(es) + 1
  <2>1. /\ Append(es, e) \in Seq(Range(es) \cup {e})
        /\ Len(es) \in Nat /\ Len(Append(es, e)) = Len(es) + 1
        /\ DOMAIN es = 1..Len(es) /\ DOMAIN Append(es, e) = 1..(Len(es) + 1)
        /\ \A k \in 1..Len(es) : Append(es, e)[k] = es[k]
        /\ Append(es, e)[Len(es) + 1] = e
    BY <1>2, AppendedEvents
  <2> DEFINE fs == Append(es, e)
  <2> HIDE DEF fs
  <2>2. \A k \in DOMAIN fs : k \in DOMAIN es \/ k = Len(es) + 1
    BY <2>1 DEF fs
  <2>3. Range(fs) = Range(es) \cup {e}
    <3>1. \A k \in DOMAIN es : k \in DOMAIN fs /\ fs[k] = es[k]
      BY <2>1 DEF fs
    <3>2. Len(es) + 1 \in DOMAIN fs /\ fs[Len(es) + 1] = e
      BY <2>1 DEF fs
    <3> QED BY <2>2, <3>1, <3>2 DEF Range
  <2>4. Listed(fs)
    BY <2>1, <2>3 DEF Listed, fs
  <2>5. \A k \in DOMAIN fs : IsEvent(fs[k])
    BY <1>2, <1>4, <2>1, <2>2 DEF Recorded, fs
  <2> QED BY <2>1, <2>4, <2>5 DEF Recorded, fs
<1>6. /\ events' = [s \in Sides |-> events'[s]] /\ events'[side] = Append(es, e)
      /\ \A s \in Sides \ {side} : events'[s] = events[s]
  <2>1. events = [s \in Sides |-> events[s]]
    BY DEF EffectsInv
  <2> HIDE DEF es
  <2> QED BY <1>0, <2>1
<1>7. \A s \in Sides : Recorded(events'[s])
  BY <1>5, <1>6 DEF EffectsInv
<1>8. PICK start : memory = [s \in Sides |-> Replayed(start, events[s])]
  BY <1>1 DEF EffectsInv
<1>9. memory' = [s \in Sides |-> Replayed(start, events'[s])]
  <2>1. CASE access.kind = "write" /\ concrete
    <3>1. Replayed(start, Append(es, e)) = Overlay(put, Replayed(start, es))
      <4>1. Replayed(start, Append(es, e)) = Overlay(Written(e), Replayed(start, es))
        <5> HIDE DEF value, address, access, concrete
        <5>1. e.kind = "write" /\ e.concrete
          BY <1>4, <2>1
        <5> QED BY <1>2, <5>1, ReplayedWrite
      <4> HIDE DEF value, address, access, concrete
      <4>2. e.address = address /\ e.width = access.width /\ e.value = value
        BY <1>4, <2>1
      <4>3. Written(e) = put
        BY <4>2 DEF Written
      <4> QED BY <4>1, <4>3, Zenon
    <3>2. memory' = [memory EXCEPT ![side] = Overlay(put, memory[side])]
      BY <1>0, <2>1
    <3> HIDE DEF put, es
    <3>3. memory[side] = Replayed(start, es)
      BY <1>8 DEF es
    <3>4. memory'[side] = Replayed(start, events'[side])
      BY <1>6, <1>8, <3>1, <3>2, <3>3
    <3>5. \A s \in Sides \ {side} : memory'[s] = Replayed(start, events'[s])
      BY <1>6, <1>8, <3>2
    <3>6. memory' = [s \in Sides |-> memory'[s]]
      BY <1>8, <3>2
    <3> QED BY <3>4, <3>5, <3>6
  <2>2. CASE ~(access.kind = "write" /\ concrete)
    <3>1. Replayed(start, Append(es, e)) = Replayed(start, es)
      BY <1>2, <1>4, <2>2, ReplayedIdle
    <3>2. memory' = memory
      BY <1>0, <2>2
    <3> HIDE DEF es
    <3>3. memory[side] = Replayed(start, es)
      BY <1>8 DEF es
    <3>4. memory'[side] = Replayed(start, events'[side])
      BY <1>6, <3>1, <3>2, <3>3
    <3>5. \A s \in Sides \ {side} : memory'[s] = Replayed(start, events'[s])
      BY <1>6, <1>8, <3>2
    <3>6. memory' = [s \in Sides |-> memory'[s]]
      BY <1>8, <3>2
    <3> QED BY <3>4, <3>5, <3>6
  <2> QED BY <2>1, <2>2
<1>10. at' = Len(events'[side]) + 1 /\ at' <= Len(c[side]) + 1
  <2>1. Len(es) \in Nat /\ Len(c[side]) \in Nat
    BY <1>2, CandidateParts DEF BasesInv, Sides
  <2> QED BY <1>0, <1>2, <1>5, <1>6, <2>1
<1>11. phase' = "guest" => events'["host"] = <<>>
  <2>1. phase' = "guest" => side # "host"
    BY <1>0
  <2> QED BY <1>0, <1>6, <2>1 DEF EffectsInv, Sides
<1>12. PassMeansSameEffects'
  BY <1>0, <1>2 DEF PassMeansSameEffects
<1>13. verdict' = "pending" /\ phase' = side /\ phase' \in Running /\ phase' # "done"
       /\ phase' \notin {"ordered", "by_slot", "frames", "registers"} /\ phase' \notin Early
  BY <1>0, <1>1, <1>2
<1>14. \A s \in Sides : phase' = s => at' = Len(events'[s]) + 1 /\ at' <= Len(memoryCandidate'[s]) + 1
  BY <1>0, <1>10, <1>13
<1> HIDE DEF PassMeansSameEffects
<1> QED BY <1>6, <1>7, <1>9, <1>11, <1>12, <1>13, <1>14 DEF EffectsInv

\* In order: two lists of events that agree, one by one, are the same list.
LEMMA OrderedPass ==
    ASSUME EffectsInv, phase = "ordered", memoryCandidate \in MemoryCandidates,
           \A i \in DOMAIN Accesses :
                /\ \A side \in Sides : Shape(i, events[side][i]) /\ Hits(i, events[side][i])
                /\ events["guest"][i].value = events["host"][i].value
    PROVE  SameEffects
<1> DEFINE g == events["guest"]
           h == events["host"]
<1>0. phase \in Running /\ "guest" \in Sides /\ "host" \in Sides
  BY DEF Running, Sides
<1>1. /\ Recorded(g) /\ Recorded(h) /\ Len(g) = Len(Accesses) /\ Len(h) = Len(Accesses)
  BY <1>0 DEF EffectsInv
<1>2. /\ g \in Seq(Range(g)) /\ h \in Seq(Range(h)) /\ DOMAIN g = DOMAIN Accesses /\ DOMAIN h = DOMAIN Accesses
  <2>1. Len(Accesses) \in Nat /\ DOMAIN Accesses = 1..Len(Accesses)
    BY CandidateParts DEF Accesses
  <2> QED BY <1>1, <2>1 DEF Recorded, Listed
<1> HIDE DEF g, h
<1>3. ASSUME NEW i \in DOMAIN g PROVE g[i] = h[i]
  <2>1. i \in DOMAIN Accesses /\ IsEvent(g[i]) /\ IsEvent(h[i])
    BY <1>1, <1>2 DEF Recorded
  <2>2. /\ g[i].kind = h[i].kind /\ g[i].width = h[i].width /\ g[i].value = h[i].value
        /\ g[i].address = h[i].address
    BY <1>0, <2>1 DEF Shape, Hits, g, h
  <2>3. g[i].concrete = TRUE /\ h[i].concrete = TRUE
    BY <1>0, <2>1 DEF Hits, IsEvent, g, h
  <2> QED BY <2>1, <2>2, <2>3 DEF IsEvent
<1>4. g = h
  <2>1. \A i \in 1..Len(g) : g[i] = h[i]
    BY <1>2, <1>3
  <2>2. g \in Seq(Range(g) \cup Range(h)) /\ h \in Seq(Range(g) \cup Range(h))
    BY <1>2
  <2> QED BY <1>1, <2>1, <2>2, SeqEqual
<1>5. PICK start : memory = [side \in Sides |-> Replayed(start, events[side])]
  BY <1>0 DEF EffectsInv
<1>6. memory["guest"] = memory["host"]
  BY <1>0, <1>4, <1>5 DEF g, h
<1>7. events["guest"] = events["host"]
  BY <1>4 DEF g, h
<1> QED BY <1>6, <1>7 DEF SameEffects

LEMMA CheckOrderedKeepsEffects ==
    ASSUME BasesInv, EffectsInv, CheckOrdered
    PROVE  EffectsInv'
<1> DEFINE shaped == {i \in DOMAIN Accesses : \A side \in Sides : Shape(i, events[side][i])}
           missed == {i \in shaped : \E side \in Sides : ~Hits(i, events[side][i])}
           good == /\ shaped = DOMAIN Accesses /\ missed = {}
                   /\ \A i \in shaped : events["guest"][i].value = events["host"][i].value
<1>0. phase = "ordered" /\ phase \in Running
  BY DEF CheckOrdered, Running
<1>1. CASE missed # {} /\ Len(Accesses) >= 2
  <2>1. /\ phase' = "by_slot" /\ memoryCandidate' = memoryCandidate /\ memory' = memory /\ events' = events
        /\ verdict' = verdict
    BY <1>1 DEF CheckOrdered, Goto
  <2>2. phase' \in Running /\ phase' \notin Early /\ phase' \notin Sides
    BY <2>1 DEF Running, Early, Sides
  <2>3. PassMeansSameEffects'
    BY <1>0, <2>1 DEF EffectsInv, PassMeansSameEffects
  <2>4. verdict' = "pending"
    BY <1>0, <2>1 DEF EffectsInv
  <2>5. \A side \in Sides : Len(events'[side]) = Len(Accesses')
    BY <1>0, <2>1 DEF EffectsInv, Accesses
  <2> HIDE DEF PassMeansSameEffects
  <2>6. \E start : memory' = [side \in Sides |-> Replayed(start, events'[side])]
    BY <1>0, <2>1 DEF EffectsInv
  <2>7. events' = [side \in Sides |-> events'[side]] /\ \A side \in Sides : Recorded(events'[side])
    BY <2>1 DEF EffectsInv
  <2>8. phase' # "done" /\ phase' # "guest" /\ phase' \notin {"frames", "registers"}
    BY <2>1
  <2> QED BY <2>2, <2>3, <2>4, <2>5, <2>6, <2>7, <2>8 DEF EffectsInv
<1>2. CASE ~(missed # {} /\ Len(Accesses) >= 2)
  <2>1. CASE good
    <3>1. \A i \in DOMAIN Accesses :
            /\ \A side \in Sides : Shape(i, events[side][i]) /\ Hits(i, events[side][i])
            /\ events["guest"][i].value = events["host"][i].value
      BY <2>1
    <3>2. SameEffects
      BY <1>0, <3>1, OrderedPass DEF BasesInv
    <3>3. Decide("pass")
      BY <1>2, <2>1 DEF CheckOrdered
    <3> QED BY <3>2, <3>3, DecisionKeepsEffects
  <2>2. CASE ~good
    <3>1. Decide("fail")
      BY <1>2, <2>2 DEF CheckOrdered
    <3> QED BY <3>1, DecisionKeepsEffects
  <2> QED BY <2>1, <2>2
<1> QED BY <1>1, <1>2

LEMMA CheckBySlotKeepsEffects ==
    ASSUME BasesInv, EffectsInv, CheckBySlot
    PROVE  EffectsInv'
<1> DEFINE match(side) == CHOOSE m \in Matches(side) : TRUE
           event(side, i) == events[side][match(side)[i]]
           good == \A i \in DOMAIN Accesses :
                        /\ \A side \in Sides : Shape(i, event(side, i))
                        /\ event("guest", i).value = event("host", i).value
<1>0. phase = "by_slot" /\ phase \in Running
  BY DEF CheckBySlot, Running
<1>1. CASE ~Reorderable \/ \E side \in Sides : Matches(side) = {}
  <2>1. Decide("fail")
    BY <1>1 DEF CheckBySlot
  <2> QED BY <2>1, DecisionKeepsEffects
<1>2. CASE ~(~Reorderable \/ \E side \in Sides : Matches(side) = {})
  <2>1. CASE good
    <3>1. Ready
      BY <1>0 DEF Ready, BasesInv, Placed
    <3> DEFINE values == [i \in DOMAIN Accesses |-> event("guest", i).value]
    <3>2. ASSUME NEW side \in Sides
          PROVE  Matched(events[side], match(side), values)
      <4>1. match(side) \in Matches(side)
        BY <1>2
      <4>2. /\ match(side) \in Injection(DOMAIN Accesses, DOMAIN Accesses)
            /\ \A i \in DOMAIN Accesses :
                events[side][match(side)[i]].concrete
                /\ events[side][match(side)[i]].address = bases[Accesses[i].slot]
        <5> HIDE DEF match
        <5> QED BY <4>1 DEF Matches, Injection
      <4>3. Recorded(events[side]) /\ Len(events[side]) = Len(Accesses)
        BY <1>0 DEF EffectsInv
      <4>4. ASSUME NEW i \in DOMAIN Accesses
            PROVE  Shape(i, event(side, i)) /\ event(side, i).value = values[i]
        <5>1. Shape(i, event(side, i)) /\ event("guest", i).value = event("host", i).value
          BY <2>1
        <5>2. side = "guest" \/ side = "host"
          BY DEF Sides
        <5> HIDE DEF match
        <5> QED BY <5>1, <5>2
      <4> HIDE DEF match, values
      <4> QED BY <4>2, <4>3, <4>4 DEF Matched
    <3>3. PICK start : memory = [side \in Sides |-> Replayed(start, events[side])]
      BY <1>0 DEF EffectsInv
    <3>4. memory["guest"] = Replayed(start, events["guest"]) /\ memory["host"] = Replayed(start, events["host"])
      BY <3>3 DEF Sides
    <3>5. Reorderable
      BY <1>2
    <3>6. /\ Matched(events["guest"], match("guest"), values)
          /\ Matched(events["host"], match("host"), values)
      <4>1. "guest" \in Sides /\ "host" \in Sides
        BY DEF Sides
      <4> HIDE DEF match, values
      <4> QED BY <3>2, <4>1
    <3>7. SameEffects
      <4> HIDE DEF match, values
      <4> QED BY <3>1, <3>4, <3>5, <3>6, MatchedEffects
    <3>8. Decide("pass")
      BY <1>2, <2>1 DEF CheckBySlot
    <3> QED BY <3>7, <3>8, DecisionKeepsEffects
  <2>2. CASE ~good
    <3>1. Decide("fail")
      BY <1>2, <2>2 DEF CheckBySlot
    <3> QED BY <3>1, DecisionKeepsEffects
  <2> QED BY <2>1, <2>2
<1> QED BY <1>1, <1>2

LEMMA OverlayIsMapping ==
    ASSUME NEW f, NEW g
    PROVE  Overlay(f, g) = [x \in DOMAIN Overlay(f, g) |-> Overlay(f, g)[x]]
BY DEF Overlay

\* Placing slots and setting registers.
LEMMA PlacingKeepsEffects ==
    ASSUME EffectsInv,
           ValidateAlias \/ PlaceSlot \/ InitializeSlots \/ PlaceFrame \/ FramesPlaced \/ AssignBinding
    PROVE  EffectsInv'
<1>1. CASE ValidateAlias
  <2>1. CASE Contradictory(memoryCandidate)
    BY <1>1, <2>1, DecisionKeepsEffects DEF ValidateAlias
  <2>2. CASE ~Contradictory(memoryCandidate)
    <3>1. phase \in Early /\ phase' = "slots" /\ verdict' = verdict /\ events' = events
      BY <1>1, <2>2 DEF ValidateAlias, Goto, Early
    <3> QED BY <3>1, EarlyKeepsEffects DEF Early
  <2> QED BY <2>1, <2>2
<1>2. CASE PlaceSlot
  <2>1. phase \in Early /\ phase' = "slots" /\ verdict' = verdict /\ events' = events
    BY <1>2 DEF PlaceSlot, Early
  <2> QED BY <2>1, EarlyKeepsEffects DEF Early
<1>3. CASE InitializeSlots
  <2>1. phase \in Early /\ phase' = "frames" /\ verdict' = verdict /\ events' = events
        /\ memory' = [side \in Sides |-> Contents(memoryCandidate)]
    BY <1>3 DEF InitializeSlots, Early, Goto
  <2>2. Contents(memoryCandidate) = [x \in DOMAIN Contents(memoryCandidate) |-> Contents(memoryCandidate)[x]]
    <3> DEFINE root == Roots(memoryCandidate)
    <3> DEFINE size(s) == Max({Size(memoryCandidate, t) : t \in {t \in DOMAIN bases : root[t] = root[s]}})
    <3> DEFINE holder(x) == CHOOSE s \in DOMAIN bases : x \in Bytes(bases[s], size(s))
    <3> DEFINE byte(x) == <<"init", root[holder(x)], x - bases[holder(x)]>>
    <3> DEFINE placed == UNION {Bytes(bases[s], size(s)) : s \in DOMAIN bases}
    <3>1. Contents(memoryCandidate) = [x \in placed |-> byte(x)]
      BY Zenon DEF Contents
    <3> HIDE DEF byte, placed
    <3> QED BY <3>1
  <2>3. phase' \in Early
    BY <2>1 DEF Early
  <2> QED BY <2>1, <2>2, <2>3, EarlyKeepsEffects
<1>4. CASE PlaceFrame
  <2>0. phase = "frames" /\ phase \in Early
    BY <1>4 DEF PlaceFrame, Early
  <2>1. PICK m : m = [x \in DOMAIN m |-> m[x]] /\ memory = [side \in Sides |-> m]
    BY <2>0 DEF EffectsInv
  <2> DEFINE c == memoryCandidate
             G == Group(c, at)
             content == FrameContents(c, G, InFrame(c, G))
  <2>2. CASE ~Leads(c, at)
    <3>1. phase' = phase /\ verdict' = verdict /\ events' = events /\ memory' = memory
      BY <1>4, <2>2 DEF PlaceFrame
    <3> QED BY <2>0, <2>1, <3>1, EarlyKeepsEffects
  <2>3. CASE Leads(c, at) /\ \E i, j \in G : HostFrame(c.bindings[i]) # HostFrame(c.bindings[j])
    <3>1. Decide("unsupported")
      BY <1>4, <2>3 DEF PlaceFrame
    <3> QED BY <3>1, DecisionKeepsEffects
  <2>4. CASE Leads(c, at) /\ ~(\E i, j \in G : HostFrame(c.bindings[i]) # HostFrame(c.bindings[j]))
    <3>1. phase' = phase /\ verdict' = verdict /\ events' = events
          /\ memory' = [side \in Sides |-> Overlay(content, memory[side])]
      BY <1>4, <2>4 DEF PlaceFrame
    <3> HIDE DEF content
    <3>2. memory' = [side \in Sides |-> Overlay(content, m)]
      BY <2>1, <3>1
    <3> QED BY <2>0, <3>1, <3>2, OverlayIsMapping, EarlyKeepsEffects
  <2> QED BY <2>2, <2>3, <2>4
<1>5. CASE FramesPlaced
  <2>1. phase = "frames" /\ phase \in Early /\ phase' = "registers" /\ phase' \in Early /\ verdict' = verdict
        /\ events' = events /\ memory' = memory
    BY <1>5 DEF FramesPlaced, Early, Goto
  <2>2. \E m : m = [x \in DOMAIN m |-> m[x]] /\ memory = [side \in Sides |-> m]
    BY <2>1 DEF EffectsInv
  <2> QED BY <2>1, <2>2, EarlyKeepsEffects
<1>6. CASE AssignBinding
  <2>0. phase = "registers" /\ phase \in Early
    BY <1>6 DEF AssignBinding, Early
  <2>1. CASE Decide("unsupported")
    BY <2>1, DecisionKeepsEffects
  <2>2. CASE ~Decide("unsupported")
    <3>1. phase' = phase /\ verdict' = verdict /\ events' = events /\ memory' = memory
      BY <1>6, <2>2 DEF AssignBinding
    <3>2. \E m : m = [x \in DOMAIN m |-> m[x]] /\ memory = [side \in Sides |-> m]
      BY <2>0 DEF EffectsInv
    <3> QED BY <2>0, <3>1, <3>2, EarlyKeepsEffects
  <2> QED BY <2>1, <2>2
<1> QED BY <1>1, <1>2, <1>3, <1>4, <1>5, <1>6

\* From one list to the other, and to the checks.
LEMMA TurnKeepsEffects ==
    ASSUME BasesInv, EffectsInv,
           RegistersAssigned \/ RunEnds("guest", "host") \/ RunEnds("host", "count") \/ CheckCount
    PROVE  EffectsInv'
<1>1. CASE CheckCount /\ \E side \in Sides : Len(events[side]) # Len(Accesses)
  BY <1>1, DecisionKeepsEffects DEF CheckCount
<1>2. CASE ~(CheckCount /\ \E side \in Sides : Len(events[side]) # Len(Accesses))
  <2> DEFINE later == phase' \in {"guest", "host", "count", "ordered"}
  <2>0. /\ verdict' = verdict /\ events' = events /\ memory' = memory /\ memoryCandidate' = memoryCandidate
        /\ at' = 1
        /\ \/ phase = "registers" /\ phase' = "guest"
           \/ phase = "guest" /\ phase' = "host"
           \/ phase = "host" /\ phase' = "count"
           \/ phase = "count" /\ phase' = "ordered" /\ \A side \in Sides : Len(events[side]) = Len(Accesses)
    BY <1>2 DEF RegistersAssigned, RunEnds, CheckCount, Goto
  <2>1. phase' \in Running /\ phase' \notin Early /\ phase' # "done"
        /\ phase' \notin {"frames", "registers", "by_slot"}
    BY <2>0 DEF Running, Early
  <2>2. verdict' = "pending" /\ PassMeansSameEffects'
    BY <2>0 DEF EffectsInv, PassMeansSameEffects
  <2>3. \E start : memory' = [side \in Sides |-> Replayed(start, events'[side])]
    <3>1. CASE phase = "registers"
      <4>1. PICK m : m = [x \in DOMAIN m |-> m[x]] /\ memory = [side \in Sides |-> m]
        BY <3>1 DEF EffectsInv
      <4>2. \A side \in Sides : events[side] = <<>>
        BY <3>1 DEF EffectsInv, Early
      <4>3. Replayed(m, <<>>) = m
        BY <4>1, ReplayedNothing
      <4>4. memory = [side \in Sides |-> Replayed(m, events[side])]
        BY <4>1, <4>2, <4>3
      <4> QED BY <2>0, <4>4
    <3>2. CASE phase # "registers"
      BY <2>0, <3>2 DEF EffectsInv, Running
    <3> QED BY <3>1, <3>2
  <2>4. \A side \in Sides : phase' = side => at' = Len(events'[side]) + 1 /\ at' <= Len(memoryCandidate'[side]) + 1
    <3>1. ASSUME NEW side \in Sides, events[side] = <<>>
          PROVE  at' = Len(events'[side]) + 1 /\ at' <= Len(memoryCandidate'[side]) + 1
      <4>1. Len(memoryCandidate[side]) \in Nat
        BY CandidateParts DEF BasesInv, Sides
      <4> QED BY <2>0, <3>1, <4>1
    <3>2. phase' = "guest" => events["guest"] = <<>>
      BY <2>0 DEF EffectsInv, Early, Sides
    <3>3. phase' = "host" => events["host"] = <<>>
      BY <2>0 DEF EffectsInv, Early, Sides
    <3> QED BY <3>1, <3>2, <3>3 DEF Sides
  <2>5. phase' = "guest" => events'["host"] = <<>>
    BY <2>0 DEF EffectsInv, Early, Sides
  <2>6. phase' = "ordered" => \A side \in Sides : Len(events'[side]) = Len(Accesses')
    BY <2>0 DEF Accesses
  <2>7. events' = [side \in Sides |-> events'[side]] /\ \A side \in Sides : Recorded(events'[side])
    BY <2>0 DEF EffectsInv
  <2> HIDE DEF PassMeansSameEffects
  <2> QED BY <2>1, <2>2, <2>3, <2>4, <2>5, <2>6, <2>7 DEF EffectsInv
<1> QED BY <1>1, <1>2

LEMMA EffectsInvHolds == MemorySpec => []EffectsInv
<1>1. MemoryInit => EffectsInv
  <2> SUFFICES ASSUME MemoryInit PROVE EffectsInv
    OBVIOUS
  <2>1. phase = "alias" /\ verdict = "pending" /\ events = [side \in Sides |-> <<>>]
    BY DEF MemoryInit
  <2>2. Recorded(<<>>)
    BY DEF Recorded, Listed, Range
  <2>3. PassMeansSameEffects
    BY <2>1 DEF PassMeansSameEffects
  <2> HIDE DEF PassMeansSameEffects
  <2> QED BY <2>1, <2>2, <2>3 DEF EffectsInv, Early, Running, Sides
<1>2. BasesInv /\ EffectsInv /\ [MemoryNext]_memoryVars => EffectsInv'
  <2> SUFFICES ASSUME BasesInv, EffectsInv, [MemoryNext]_memoryVars PROVE EffectsInv'
    OBVIOUS
  <2>1. CASE UNCHANGED memoryVars
    <3>1. /\ memoryCandidate' = memoryCandidate /\ phase' = phase /\ at' = at /\ memory' = memory
          /\ events' = events /\ verdict' = verdict
      BY <2>1 DEF memoryVars
    <3>2. PassMeansSameEffects'
      BY <3>1 DEF EffectsInv, PassMeansSameEffects, SameEffects
    <3>3. Accesses' = Accesses
      BY <3>1 DEF Accesses
    <3> HIDE DEF PassMeansSameEffects
    <3> QED BY <3>1, <3>2, <3>3 DEF EffectsInv
  <2>2. ASSUME NEW side \in Sides, Run(side) PROVE EffectsInv'
    BY <2>2, RunKeepsEffects
  <2> QED BY <2>1, <2>2, PlacingKeepsEffects, TurnKeepsEffects, CheckOrderedKeepsEffects, CheckBySlotKeepsEffects
          DEF MemoryNext, MemoryDone, Sides
<1> QED BY <1>1, <1>2, BasesInvHolds, PTL DEF MemorySpec

(***************************************************************************)
(* A pass of the memory checks means the same effects, whatever the order  *)
(* in which the two sides make their accesses.                             *)
(***************************************************************************)
THEOREM SameEffectsOnPass == MemorySpec => []PassMeansSameEffects
<1>1. EffectsInv => PassMeansSameEffects
  BY DEF EffectsInv
<1> QED BY <1>1, EffectsInvHolds, PTL

-----------------------------------------------------------------------------
(* Declared aliases and the places of plain slots.                         *)
JoinedAt(c, roots, n) ==
    IF c.alias[n].relation = "must_alias" THEN Join(roots, c.alias[n].slots) ELSE roots

\* The recursion over the declarations, with a slot as the root of each slot.
LEMMA RootsStepByStep ==
    ASSUME NEW c \in MemoryCandidates
    PROVE  /\ RootsAfter(c)[0] = [s \in Names(c) |-> s]
           /\ \A n \in 1..Len(c.alias) : RootsAfter(c)[n] = JoinedAt(c, RootsAfter(c)[n - 1], n)
           /\ \A n \in 0..Len(c.alias) : RootsAfter(c)[n] \in [Names(c) -> Names(c)]
           /\ Len(c.alias) \in Nat
<1> DEFINE N == Len(c.alias)
           X == [Names(c) -> Names(c)]
           base == [s \in Names(c) |-> s]
           step == [p \in X \X (1..N) |-> JoinedAt(c, p[1], p[2])]
           def(f) == f = [n \in 0..N |-> IF n = 0 THEN [s \in Names(c) |-> s]
                                        ELSE IF c.alias[n].relation = "must_alias" THEN Join(f[n - 1], c.alias[n].slots)
                                        ELSE f[n - 1]]
<1>1. N \in Nat /\ DOMAIN c.alias = 1..N
  BY CandidateParts
<1>2. ASSUME NEW roots \in X, NEW n \in 1..N PROVE JoinedAt(c, roots, n) \in X
  <2>1. c.alias[n] \in Range(c.alias)
    BY <1>1 DEF Range
  <2>2. Listed(c.alias[n].slots) /\ c.alias[n].slots # <<>> /\ Range(c.alias[n].slots) \subseteq Names(c)
    BY <2>1, MemoryIsSpecified
  <2>3. c.alias[n].slots[1] \in Names(c)
    BY <2>2 DEF Listed, Range
  <2> QED BY <2>3 DEF JoinedAt, Join
<1>3. step \in [X \X (1..N) -> X]
  BY <1>2
<1>4. base \in X
  OBVIOUS
<1>5. PICK f : f \in Chain(X, base, step, N)
  <2> HIDE DEF X, base, step
  <2> QED BY <1>1, <1>3, <1>4, RecursionUp
<1>6. /\ f \in [0..N -> X] /\ f[0] = base
      /\ \A n \in 1..N : f[n] = step[<<f[n - 1], n>>]
  BY <1>5 DEF Chain
<1>7. ASSUME NEW n \in 1..N PROVE f[n] = JoinedAt(c, f[n - 1], n)
  <2>1. n - 1 \in 0..N
    BY <1>1
  <2>2. f[n - 1] \in X
    BY <1>6, <2>1
  <2> QED BY <1>6, <2>2
<1>8. \E g : def(g)
  <2>1. \A n \in 0..N : n # 0 => n \in 1..N
    BY <1>1
  <2>2. \A n \in 0..N : f[n] = IF n = 0 THEN [s \in Names(c) |-> s]
                               ELSE IF c.alias[n].relation = "must_alias" THEN Join(f[n - 1], c.alias[n].slots)
                               ELSE f[n - 1]
    BY <1>6, <1>7, <2>1, Zenon DEF JoinedAt
  <2>3. def(f)
    BY <1>6, <2>2
  <2> HIDE DEF def
  <2> QED BY <2>3
<1>9. def(RootsAfter(c))
  <2>1. RootsAfter(c) = CHOOSE g : def(g)
    BY Zenon DEF RootsAfter
  <2> HIDE DEF def
  <2> QED BY <1>8, <2>1
<1>10. RootsAfter(c)[0] = [s \in Names(c) |-> s] /\ RootsAfter(c)[0] \in X
  BY <1>1, <1>9
<1>11. ASSUME NEW n \in 1..N PROVE RootsAfter(c)[n] = JoinedAt(c, RootsAfter(c)[n - 1], n)
  <2>1. n \in 0..N /\ n # 0
    BY <1>1
  <2> QED BY <1>9, <2>1 DEF JoinedAt
<1>12. \A n \in 0..N : RootsAfter(c)[n] \in X
  <2> DEFINE P == {n \in 0..N : RootsAfter(c)[n] \in X}
  <2>1. 0 \in P
    BY <1>1, <1>10
  <2>2. ASSUME NEW n \in 0..(N - 1), n \in P PROVE n + 1 \in P
    <3>1. n + 1 \in 1..N /\ n + 1 \in 0..N /\ (n + 1) - 1 = n
      BY <1>1
    <3> HIDE DEF X
    <3>2. RootsAfter(c)[n + 1] \in X
      BY <1>2, <1>11, <2>2, <3>1
    <3> QED BY <3>1, <3>2
  <2> HIDE DEF P
  <2>3. 0 \in Int /\ N \in Int
    BY <1>1
  <2>4. \A n \in 0..N : n \in P
    BY <2>1, <2>2, <2>3, InductionBetween
  <2> QED BY <2>4 DEF P
<1> QED BY <1>1, <1>10, <1>11, <1>12

\* Joining brings the slots of one declaration together and nothing else.
LEMMA JoinJoins ==
    ASSUME NEW D, NEW roots \in [D -> D], NEW slots, slots # <<>>, Listed(slots), Range(slots) \subseteq D
    PROVE  \A s, t \in D :
            Join(roots, slots)[s] = Join(roots, slots)[t] <=>
                \/ roots[s] = roots[t]
                \/ /\ \E u \in Range(slots) : roots[s] = roots[u]
                   /\ \E v \in Range(slots) : roots[t] = roots[v]
<1>1. slots[1] \in Range(slots) /\ slots[1] \in D
  BY DEF Listed, Range
<1> QED BY <1>1 DEF Join

\* Two slots have one root when a chain of must_alias declarations links them.
LEMMA RootsAreLinks ==
    ASSUME NEW c \in MemoryCandidates, NEW s \in Names(c), NEW t \in Names(c)
    PROVE  Linked(c, s, t) <=> Roots(c)[s] = Roots(c)[t]
<1> DEFINE N == Len(c.alias)
           R(n) == RootsAfter(c)[n]
           D == Names(c)
           slots(n) == c.alias[n].slots
           joins(n) == c.alias[n].relation = "must_alias"
<1>1. N \in Nat /\ DOMAIN c.alias = 1..N /\ Roots(c) = R(N)
  BY CandidateParts DEF Roots
<1>2. /\ \A n \in 0..N : R(n) \in [D -> D]
      /\ \A n \in 1..N : R(n) = IF joins(n) THEN Join(R(n - 1), slots(n)) ELSE R(n - 1)
      /\ \A u, v \in D : R(0)[u] = R(0)[v] => u = v
  <2>1. \A n \in 0..N : R(n) \in [D -> D]
    BY RootsStepByStep
  <2>2. \A n \in 1..N : R(n) = IF joins(n) THEN Join(R(n - 1), slots(n)) ELSE R(n - 1)
    BY RootsStepByStep DEF JoinedAt
  <2>3. \A u, v \in D : R(0)[u] = R(0)[v] => u = v
    <3>1. R(0) = [x \in D |-> x]
      BY RootsStepByStep
    <3> HIDE DEF R
    <3> QED BY <3>1
  <2> QED BY <2>1, <2>2, <2>3
<1>3. \A n \in 1..N : Listed(slots(n)) /\ slots(n) # <<>> /\ Range(slots(n)) \subseteq D
                     /\ c.alias[n] \in Range(c.alias)
  <2> TAKE n \in 1..N
  <2>1. c.alias[n] \in Range(c.alias)
    BY <1>1 DEF Range
  <2> QED BY <2>1, MemoryIsSpecified
<1> HIDE DEF R
<1>4. ASSUME NEW n \in 1..N, joins(n), NEW u \in D, NEW v \in D
      PROVE  R(n)[u] = R(n)[v] <=>
                \/ R(n - 1)[u] = R(n - 1)[v]
                \/ /\ \E x \in Range(slots(n)) : R(n - 1)[u] = R(n - 1)[x]
                   /\ \E y \in Range(slots(n)) : R(n - 1)[v] = R(n - 1)[y]
  <2>1. n - 1 \in 0..N
    BY <1>1
  <2>2. R(n - 1) \in [D -> D]
    BY <1>2, <2>1
  <2>3. R(n) = Join(R(n - 1), slots(n))
    BY <1>2, <1>4
  <2> HIDE DEF D, slots, joins
  <2> QED BY <1>3, <2>2, <2>3, JoinJoins
<1>5. ASSUME NEW n \in 1..N, ~joins(n) PROVE R(n) = R(n - 1)
  BY <1>2, <1>5
<1> HIDE DEF D
<1>6. ASSUME NEW S \in SUBSET D, Closed(c, S)
      PROVE  \A n \in 0..N : \A u, v \in D : R(n)[u] = R(n)[v] => (u \in S <=> v \in S)
  <2> DEFINE P == {n \in 0..N : \A u, v \in D : R(n)[u] = R(n)[v] => (u \in S <=> v \in S)}
  <2>1. 0 \in P
    BY <1>1, <1>2
  <2>2. ASSUME NEW n \in 0..(N - 1), n \in P PROVE n + 1 \in P
    <3>1. n + 1 \in 1..N /\ n + 1 \in 0..N /\ (n + 1) - 1 = n
      BY <1>1
    <3> SUFFICES ASSUME NEW u \in D, NEW v \in D, R(n + 1)[u] = R(n + 1)[v] PROVE u \in S <=> v \in S
      BY <3>1
    <3>2. \A x, y \in D : R(n)[x] = R(n)[y] => (x \in S <=> y \in S)
      BY <2>2
    <3>3. CASE ~joins(n + 1)
      BY <1>5, <3>1, <3>2, <3>3
    <3>4. CASE joins(n + 1)
      <4>1. \/ R(n)[u] = R(n)[v]
            \/ /\ \E x \in Range(slots(n + 1)) : R(n)[u] = R(n)[x]
               /\ \E y \in Range(slots(n + 1)) : R(n)[v] = R(n)[y]
        BY <1>4, <3>1, <3>4
      <4>2. CASE R(n)[u] = R(n)[v]
        BY <3>2, <4>2
      <4>3. ASSUME NEW x \in Range(slots(n + 1)), NEW y \in Range(slots(n + 1)),
                   R(n)[u] = R(n)[x], R(n)[v] = R(n)[y]
            PROVE  u \in S <=> v \in S
        <5>1. x \in D /\ y \in D
          BY <1>3, <3>1
        <5>2. c.alias[n + 1] \in Declared(c, "must_alias")
          BY <1>3, <3>1, <3>4 DEF Declared
        <5>3. Range(slots(n + 1)) \cap S = {} \/ Range(slots(n + 1)) \subseteq S
          BY <1>6, <5>2 DEF Closed
        <5>4. x \in S <=> y \in S
          BY <5>3
        <5> QED BY <3>2, <4>3, <5>1, <5>4
      <4> QED BY <4>1, <4>2, <4>3
    <3> QED BY <3>3, <3>4
  <2> HIDE DEF P
  <2>3. 0 \in Int /\ N \in Int
    BY <1>1
  <2>4. \A n \in 0..N : n \in P
    BY <2>1, <2>2, <2>3, InductionBetween
  <2> QED BY <2>4 DEF P
<1>7. \A n \in 0..N : \A i \in 1..N : i <= n /\ joins(i) =>
        \A u, v \in Range(slots(i)) : R(n)[u] = R(n)[v]
  <2> DEFINE P == {n \in 0..N : \A i \in 1..N : i <= n /\ joins(i) =>
                        \A u, v \in Range(slots(i)) : R(n)[u] = R(n)[v]}
  <2>1. 0 \in P
    BY <1>1
  <2>2. ASSUME NEW n \in 0..(N - 1), n \in P PROVE n + 1 \in P
    <3>1. n + 1 \in 1..N /\ n + 1 \in 0..N /\ (n + 1) - 1 = n
      BY <1>1
    <3> SUFFICES ASSUME NEW i \in 1..N, i <= n + 1, joins(i), NEW u \in Range(slots(i)), NEW v \in Range(slots(i))
                 PROVE  R(n + 1)[u] = R(n + 1)[v]
      BY <3>1
    <3>2. u \in D /\ v \in D
      BY <1>3
    <3>3. CASE i <= n
      <4>1. R(n)[u] = R(n)[v]
        BY <2>2, <3>3
      <4> QED BY <1>4, <1>5, <3>1, <3>2, <4>1
    <3>4. CASE i = n + 1
      BY <1>4, <3>1, <3>2, <3>4
    <3>5. i <= n \/ i = n + 1
      BY <3>1
    <3> QED BY <3>3, <3>4, <3>5
  <2> HIDE DEF P
  <2>3. 0 \in Int /\ N \in Int
    BY <1>1
  <2>4. \A n \in 0..N : n \in P
    BY <2>1, <2>2, <2>3, InductionBetween
  <2> QED BY <2>4 DEF P
<1>8. ASSUME R(N)[s] = R(N)[t] PROVE Linked(c, s, t)
  <2>1. N \in 0..N
    BY <1>1
  <2> QED BY <1>6, <1>8, <2>1 DEF Linked, D
<1>9. ASSUME Linked(c, s, t) PROVE R(N)[s] = R(N)[t]
  <2> DEFINE S == {x \in D : R(N)[s] = R(N)[x]}
  <2>1. Closed(c, S)
    <3> SUFFICES ASSUME NEW a \in Declared(c, "must_alias"), Range(a.slots) \cap S # {} PROVE Range(a.slots) \subseteq S
      BY DEF Closed
    <3>1. PICK i \in 1..N : a = c.alias[i] /\ joins(i)
      BY <1>1 DEF Declared, Range
    <3>2. N \in 0..N /\ i <= N
      BY <1>1
    <3>3. \A u, v \in Range(slots(i)) : R(N)[u] = R(N)[v]
      BY <1>7, <3>1, <3>2
    <3>4. Range(slots(i)) \subseteq D
      BY <1>3
    <3> QED BY <3>1, <3>3, <3>4
  <2>2. s \in S /\ S \in SUBSET Names(c)
    BY DEF D
  <2>3. t \in S
    BY <1>9, <2>1, <2>2 DEF Linked
  <2> QED BY <2>3
<1> QED BY <1>1, <1>8, <1>9

\* Plain slots have one base with one root and are a stride apart otherwise.
Spread(c, b) ==
    \A s, t \in DOMAIN b \ FrameSlots(c) :
        IF Roots(c)[s] = Roots(c)[t] THEN b[s] = b[t]
        ELSE b[s] + Stride <= b[t] \/ b[t] + Stride <= b[s]

\* The next slot is put behind all of them.
SharingInv ==
    /\ Spread(memoryCandidate, bases)
    /\ phase = "slots" => \A s \in DOMAIN bases : bases[s] + Stride <= frameNext

LEMMA PlaceSlotKeepsSharing == BasesInv /\ SharingInv /\ PlaceSlot => SharingInv'
<1> SUFFICES ASSUME BasesInv, SharingInv, PlaceSlot PROVE SharingInv'
  OBVIOUS
<1> DEFINE c == memoryCandidate
           name == c.slots[at].name
           root == Roots(c)
           placed == {s \in DOMAIN bases : root[s] = root[name]}
<1>0. /\ phase = "slots" /\ memoryCandidate' = memoryCandidate /\ phase' = phase
  BY DEF PlaceSlot
<1>1. /\ bases \in [DOMAIN bases -> Int] /\ frameNext \in Int /\ Stride \in Int
      /\ DOMAIN bases = NamesBefore(c, at) \ FrameSlots(c)
  BY <1>0, MemoryIsSpecified DEF BasesInv
<1>2. DOMAIN bases \ FrameSlots(c) = DOMAIN bases
  BY <1>1
<1>3. \A s, t \in DOMAIN bases :
        IF root[s] = root[t] THEN bases[s] = bases[t]
        ELSE bases[s] + Stride <= bases[t] \/ bases[t] + Stride <= bases[s]
  BY <1>2 DEF SharingInv, Spread
<1>4. \A s \in DOMAIN bases : bases[s] + Stride <= frameNext
  BY <1>0 DEF SharingInv
<1>5. Stride >= 1
  <2>1. at \in DOMAIN c.slots
    BY <1>0, CandidateParts DEF PlaceSlot, BasesInv
  <2>2. c.slots[at].size \in 1..Stride
    BY <2>1, MemoryIsSpecified DEF BasesInv
  <2> QED BY <1>1, <2>2
<1>6. CASE name \in FrameSlots(c)
  <2>1. bases' = bases /\ frameNext' = frameNext
    BY <1>6 DEF PlaceSlot
  <2> QED BY <1>0, <2>1 DEF SharingInv, Spread
<1>7. ASSUME name \notin FrameSlots(c), NEW base \in Int,
             bases' = Overlay([s \in {name} |-> base], bases), frameNext' \in Int,
             frameNext' >= frameNext, base + Stride <= frameNext',
             \A s \in DOMAIN bases :
                IF root[s] = root[name] THEN bases[s] = base
                ELSE bases[s] + Stride <= base \/ base + Stride <= bases[s]
      PROVE  SharingInv'
  <2> HIDE DEF name, root, placed
  <2>1. DOMAIN bases' = {name} \cup DOMAIN bases
    BY <1>7 DEF Overlay
  <2>2. bases'[name] = base /\ \A s \in DOMAIN bases : s # name => bases'[s] = bases[s]
    BY <1>7 DEF Overlay
  <2>3. \A s \in DOMAIN bases' : bases'[s] + Stride <= frameNext'
    BY <1>1, <1>4, <1>7, <2>1, <2>2
  <2>4. ASSUME NEW s \in DOMAIN bases', NEW t \in DOMAIN bases'
        PROVE  IF root[s] = root[t] THEN bases'[s] = bases'[t]
               ELSE bases'[s] + Stride <= bases'[t] \/ bases'[t] + Stride <= bases'[s]
    <3>1. CASE s = name /\ t = name
      BY <3>1
    <3>2. CASE s = name /\ t # name
      BY <1>7, <2>1, <2>2, <3>2
    <3>3. CASE s # name /\ t = name
      BY <1>7, <2>1, <2>2, <3>3
    <3>4. CASE s # name /\ t # name
      BY <1>3, <2>1, <2>2, <3>4
    <3> QED BY <3>1, <3>2, <3>3, <3>4
  <2> QED BY <1>0, <2>3, <2>4 DEF SharingInv, Spread, root
<1>8. CASE name \notin FrameSlots(c) /\ placed # {}
  <2> DEFINE base == bases[CHOOSE s \in placed : TRUE]
  <2>1. (CHOOSE s \in placed : TRUE) \in placed
    BY <1>8
  <2>2. bases' = Overlay([s \in {name} |-> base], bases) /\ frameNext' = frameNext
    BY <1>8 DEF PlaceSlot
  <2>3. PICK p \in DOMAIN bases : root[p] = root[name] /\ base = bases[p]
    BY <2>1
  <2>4. base \in Int /\ base + Stride <= frameNext'
    BY <1>1, <1>4, <2>2, <2>3
  <2>5. \A s \in DOMAIN bases :
            IF root[s] = root[name] THEN bases[s] = base
            ELSE bases[s] + Stride <= base \/ base + Stride <= bases[s]
    <3> HIDE DEF base, name, root
    <3> QED BY <1>3, <2>3
  <2>6. frameNext' \in Int /\ frameNext' >= frameNext
    BY <1>1, <2>2
  <2> HIDE DEF base, name, root, placed
  <2> QED BY <1>7, <1>8, <2>2, <2>4, <2>5, <2>6
<1>9. CASE name \notin FrameSlots(c) /\ placed = {}
  <2>1. bases' = Overlay([s \in {name} |-> frameNext], bases) /\ frameNext' = frameNext + Stride
    BY <1>9 DEF PlaceSlot
  <2>2. \A s \in DOMAIN bases : root[s] # root[name]
    BY <1>9
  <2>3. frameNext' \in Int /\ frameNext' >= frameNext /\ frameNext + Stride <= frameNext'
    BY <1>1, <1>5, <2>1
  <2> HIDE DEF name, root, placed
  <2> QED BY <1>1, <1>4, <1>7, <1>9, <2>1, <2>2, <2>3
<1> QED BY <1>6, <1>8, <1>9

\* A frame group is put where it is by its registers: plain slots stay.
LEMMA PlaceFrameKeepsSharing == BasesInv /\ SharingInv /\ PlaceFrame => SharingInv'
<1> SUFFICES ASSUME BasesInv, SharingInv, PlaceFrame PROVE SharingInv'
  OBVIOUS
<1> DEFINE c == memoryCandidate
           place == InFrame(c, Group(c, at))
<1>0. phase = "frames" /\ at <= Len(c.bindings) /\ phase' # "slots" /\ c' = c
  BY DEF PlaceFrame, Decide
<1>1. CASE bases' = bases
  BY <1>0, <1>1 DEF SharingInv, Spread
<1>2. CASE bases' # bases
  <2>1. bases' = Overlay(place, bases)
    BY <1>2 DEF PlaceFrame, Decide
  <2>2. at \in DOMAIN c.bindings /\ frameNext \in Int /\ c \in MemoryCandidates
    BY <1>0, CandidateParts DEF BasesInv
  <2>3. DOMAIN place \subseteq FrameSlots(c)
    BY <2>2, FramePlaces
  <2> HIDE DEF place
  <2>4. /\ DOMAIN bases' \ FrameSlots(c) = DOMAIN bases \ FrameSlots(c)
        /\ \A s \in DOMAIN bases \ FrameSlots(c) : bases'[s] = bases[s]
    BY <2>1, <2>3 DEF Overlay
  <2> QED BY <1>0, <2>4 DEF SharingInv, Spread
<1> QED BY <1>1, <1>2

LEMMA SharingInvHolds == MemorySpec => []SharingInv
<1>1. MemoryInit => SharingInv
  <2> SUFFICES ASSUME MemoryInit PROVE SharingInv
    OBVIOUS
  <2>1. phase = "alias" /\ DOMAIN bases = {}
    BY DEF MemoryInit
  <2> QED BY <2>1 DEF SharingInv, Spread
<1>2. BasesInv /\ SharingInv /\ [MemoryNext]_memoryVars => SharingInv'
  <2> SUFFICES ASSUME BasesInv, SharingInv, [MemoryNext]_memoryVars PROVE SharingInv'
    OBVIOUS
  <2>0. ASSUME memoryCandidate' = memoryCandidate, bases' = bases, phase' # "slots"
        PROVE  SharingInv'
    BY <2>0 DEF SharingInv, Spread
  <2>1. CASE ValidateAlias
    <3>1. memoryCandidate' = memoryCandidate /\ bases' = bases /\ DOMAIN bases = {}
      BY <2>1 DEF ValidateAlias, Decide, BasesInv
    <3> QED BY <3>1 DEF SharingInv, Spread
  <2>2. ASSUME NEW v, Decide(v) PROVE SharingInv'
    BY <2>0, <2>2 DEF Decide
  <2>3. CASE AssignBinding
    <3>1. memoryCandidate' = memoryCandidate /\ bases' = bases /\ phase' # "slots"
      BY <2>3 DEF AssignBinding, Decide
    <3> QED BY <2>0, <3>1
  <2>4. CASE Elsewhere
    <3>1. memoryCandidate' = memoryCandidate /\ bases' = bases /\ phase' # "slots"
      BY <2>4 DEF Elsewhere, Placed
    <3> QED BY <2>0, <3>1
  <2>5. CASE UNCHANGED memoryVars
    BY <2>5 DEF memoryVars, SharingInv, Spread
  <2>6. CASE InitializeSlots \/ FramesPlaced
    <3>1. memoryCandidate' = memoryCandidate /\ bases' = bases /\ phase' # "slots"
      BY <2>6 DEF InitializeSlots, FramesPlaced, Goto
    <3> QED BY <2>0, <3>1
  <2> QED BY <2>1, <2>2, <2>3, <2>4, <2>5, <2>6, OtherSteps, PlaceSlotKeepsSharing, PlaceFrameKeepsSharing
<1> QED BY <1>1, <1>2, BasesInvHolds, PTL DEF MemorySpec

\* Outside of frames, slots share bytes exactly when declarations link them.
LEMMA SharingIsDeclared == BasesInv /\ SharingInv => AliasesDecideSharing
<1> SUFFICES ASSUME BasesInv, SharingInv,
                    NEW s \in DOMAIN bases \ FrameSlots(memoryCandidate),
                    NEW t \in DOMAIN bases \ FrameSlots(memoryCandidate), s # t
             PROVE  IF Linked(memoryCandidate, s, t) THEN bases[s] = bases[t] ELSE ~Overlap(s, t)
  BY DEF AliasesDecideSharing
<1> DEFINE c == memoryCandidate
<1>1. s \in Names(c) /\ t \in Names(c) /\ c \in MemoryCandidates /\ bases[s] \in Int /\ bases[t] \in Int
  BY DEF BasesInv
<1>2. Linked(c, s, t) <=> Roots(c)[s] = Roots(c)[t]
  BY <1>1, RootsAreLinks
<1>3. Size(c, s) \in 1..Stride /\ Size(c, t) \in 1..Stride /\ Stride \in Int
  BY <1>1, SizeFits
<1>4. IF Roots(c)[s] = Roots(c)[t] THEN bases[s] = bases[t]
      ELSE bases[s] + Stride <= bases[t] \/ bases[t] + Stride <= bases[s]
  BY DEF SharingInv, Spread
<1>5. bases[s] + Stride <= bases[t] \/ bases[t] + Stride <= bases[s] => ~Overlap(s, t)
  BY <1>1, <1>3 DEF Overlap, Bytes
<1> QED BY <1>2, <1>4, <1>5

-----------------------------------------------------------------------------
(* Witnesses.                                                              *)
Base(b, e) == bases[b.slot] - Offset(e)

\* Two bindings for which the frame bases are the same.
SameFrame(b, d) == Base(b, b.guest) = Base(d, d.guest) /\ Base(b, b.host) = Base(d, d.host)

FramesShared(n) ==
    \A i \in DOMAIN memoryCandidate.bindings : i < n /\ IsFrame(memoryCandidate.bindings[i]) =>
        \A j \in Group(memoryCandidate, i) : SameFrame(memoryCandidate.bindings[i], memoryCandidate.bindings[j])

\* A register has a value that no later binding changes.
Holds(r, v) == r \in DOMAIN assigned /\ assigned[r] = v

Settled(b) ==
    /\ \A r \in IndexRegisters(memoryCandidate, b) : Holds(r, IndexWitness)
    /\ Holds(b.guest.base, Base(b, b.guest))
    /\ IsFrame(b) \/ GuestOf(memoryCandidate, b.host.base) = {} => Holds(b.host.base, Base(b, b.host))

\* Only a binding of the frame gives its guest base a value.
FrameBasesSettled(n) ==
    \A i \in DOMAIN memoryCandidate.bindings :
        LET b == memoryCandidate.bindings[i]
        IN  IsFrame(b) /\ b.guest.base \in DOMAIN assigned =>
                \E j \in DOMAIN memoryCandidate.bindings :
                    LET d == memoryCandidate.bindings[j]
                    IN  j < n /\ IsFrame(d) /\ d.guest.base = b.guest.base

\* The witnesses as far as the loop has got.
WitnessInv ==
    /\ phase \in {"alias", "slots", "frames"} => DOMAIN assigned = {}
    /\ FramesApart(memoryCandidate) =>
        /\ phase = "frames" => FramesShared(at)
        /\ phase \in {"registers", "guest"} => FramesShared(Len(memoryCandidate.bindings) + 1)
        /\ phase = "registers" =>
            /\ at <= Len(memoryCandidate.bindings) + 1
            /\ \A i \in DOMAIN memoryCandidate.bindings : i < at => Settled(memoryCandidate.bindings[i])
            /\ FrameBasesSettled(at)
        /\ phase = "guest" =>
            \A i \in DOMAIN memoryCandidate.bindings : Settled(memoryCandidate.bindings[i])

\* Without any proviso: registers have witnesses from the bindings before, and a binding
\* that gives its base a value is settled.
GivenInv ==
    /\ phase \in {"alias", "slots", "frames"} => DOMAIN assigned = {}
    /\ phase = "registers" =>
        /\ \A r \in DOMAIN assigned : \E j \in DOMAIN memoryCandidate.bindings :
                j < at /\ r \in RegistersOf(memoryCandidate, memoryCandidate.bindings[j])
        /\ \A i \in DOMAIN memoryCandidate.bindings :
                i < at /\ GivesBase(memoryCandidate, i) => Settled(memoryCandidate.bindings[i])
    /\ phase = "guest" =>
        \A i \in DOMAIN memoryCandidate.bindings :
            GivesBase(memoryCandidate, i) => Settled(memoryCandidate.bindings[i])

\* Bindings of one frame: their slots are apart, their registers the same.
LEMMA FrameBindings ==
    ASSUME NEW c \in MemoryCandidates, FramesApart(c),
           NEW i \in DOMAIN c.bindings, NEW j \in DOMAIN c.bindings,
           IsFrame(c.bindings[i]), IsFrame(c.bindings[j])
    PROVE  /\ c.bindings[i].slot = c.bindings[j].slot => i = j
           /\ c.bindings[i].guest.base = c.bindings[j].guest.base =>
                c.bindings[i].host.base = c.bindings[j].host.base /\ j \in Group(c, i)
BY DEF FramesApart, Group

\* A frame group is put where both sides find it.
LEMMA GroupSharesFrame ==
    ASSUME NEW c \in MemoryCandidates, FramesApart(c), frameNext \in Int,
           NEW i \in DOMAIN c.bindings, IsFrame(c.bindings[i]),
           NEW j \in Group(c, i)
    PROVE  InFrame(c, Group(c, i))[c.bindings[j].slot] = frameNext + Offset(c.bindings[j].guest)
<1> DEFINE s == c.bindings[j].slot
           T == {k \in Group(c, i) : c.bindings[k].slot = s}
<1>1. j \in DOMAIN c.bindings /\ IsFrame(c.bindings[j]) /\ s \in SlotsOf(c, Group(c, i))
  BY DEF Group, SlotsOf
<1>2. Max(T) \in Group(c, i) /\ c.bindings[Max(T)].slot = s
  <2> HIDE DEF s
  <2> QED BY <1>1, LastBinding
<1>3. Max(T) \in DOMAIN c.bindings /\ IsFrame(c.bindings[Max(T)])
  BY <1>2 DEF Group
<1>4. Max(T) = j
  <2> HIDE DEF T
  <2> QED BY <1>1, <1>2, <1>3, FrameBindings
<1>5. InFrame(c, Group(c, i))[s] = frameNext + Offset(c.bindings[Max(T)].guest)
  BY <1>1 DEF InFrame
<1> QED BY <1>4, <1>5

LEMMA PlaceFrameKeepsWitnesses == BasesInv /\ WitnessInv /\ PlaceFrame => WitnessInv'
<1> SUFFICES ASSUME BasesInv, WitnessInv, PlaceFrame PROVE WitnessInv'
  OBVIOUS
<1> DEFINE c == memoryCandidate
           b(i) == c.bindings[i]
           G == Group(c, at)
           place == InFrame(c, G)
<1>0. /\ phase = "frames" /\ at <= Len(c.bindings) /\ c' = c /\ assigned' = assigned /\ DOMAIN assigned = {}
  BY DEF PlaceFrame, Decide, WitnessInv
<1>1. c \in MemoryCandidates /\ at \in DOMAIN c.bindings /\ frameNext \in Int
      /\ bases \in [DOMAIN bases -> Int] /\ at \in Nat
      /\ DOMAIN c.bindings = 1..Len(c.bindings) /\ Len(c.bindings) \in Nat
  BY <1>0, CandidateParts DEF BasesInv
<1>2. CASE phase' = "done"
  BY <1>0, <1>2 DEF WitnessInv
<1>3. CASE phase' # "done"
  <2>0. phase' = "frames" /\ at' = at + 1
    BY <1>0, <1>3 DEF PlaceFrame, Decide
  <2> SUFFICES ASSUME FramesApart(c) PROVE FramesShared(at)'
    BY <1>0, <1>1, <2>0 DEF WitnessInv, FramesShared
  <2>1. ASSUME NEW i \in DOMAIN c.bindings, i < at, IsFrame(b(i)), NEW j \in Group(c, i)
        PROVE  SameFrame(b(i), b(j))
    BY <1>0, <2>1 DEF WitnessInv, FramesShared
  <2>2. CASE ~Leads(c, at)
    <3>1. bases' = bases
      BY <2>2 DEF PlaceFrame
    <3> SUFFICES ASSUME NEW i \in DOMAIN c.bindings, i < at + 1, IsFrame(b(i)), NEW j \in Group(c, i)
                 PROVE  SameFrame(b(i), b(j))
      BY <1>0, <2>0, <3>1 DEF FramesShared, SameFrame, Base
    <3>2. CASE i < at
      BY <2>1, <3>2
    <3>3. CASE i = at
      <4>1. PICK k \in G : k <= at /\ Leads(c, k)
        BY <1>1, <3>3, GroupHasLeader
      <4>2. k \in DOMAIN c.bindings /\ k < at /\ IsFrame(b(k)) /\ Group(c, k) = G /\ at \in G
        <5>1. k \in DOMAIN c.bindings /\ k # at
          BY <2>2, <4>1 DEF Group
        <5> QED BY <1>1, <3>3, <4>1, <5>1, GroupIsShared
      <4>3. SameFrame(b(k), b(at)) /\ SameFrame(b(k), b(j))
        BY <2>1, <3>3, <4>2
      <4> QED BY <3>3, <4>3 DEF SameFrame
    <3> QED BY <1>1, <3>2, <3>3
  <2>3. CASE Leads(c, at)
    <3>1. /\ bases' = Overlay(place, bases) /\ IsFrame(b(at))
          /\ \A i, j \in G : HostFrame(b(i)) = HostFrame(b(j))
      BY <1>3, <2>3 DEF PlaceFrame, Decide, Leads
    <3>2. place \in [SlotsOf(c, G) -> Int]
      BY <1>1, FramePlaces
    <3>3. \A j \in G : place[b(j).slot] = frameNext + Offset(b(j).guest)
      BY <1>1, <3>1, GroupSharesFrame
    <3>4. \A j \in G : Offset(b(j).guest) \in Int /\ Offset(b(j).host) \in Int
      BY <1>1, CandidateParts DEF Group
    <3> HIDE DEF place
    <3>5. \A j \in G : bases'[b(j).slot] = frameNext + Offset(b(j).guest)
      <4> TAKE j \in G
      <4>1. b(j).slot \in DOMAIN place
        BY <3>2 DEF SlotsOf
      <4> QED BY <3>1, <3>3, <4>1 DEF Overlay
    <3>6. \A j, k \in G : SameFrame(b(j), b(k))'
      <4> TAKE j, k \in G
      <4>1. bases'[b(j).slot] - Offset(b(j).guest) = bases'[b(k).slot] - Offset(b(k).guest)
        BY <1>1, <3>4, <3>5
      <4>2. frameNext + Offset(b(j).guest) - Offset(b(j).host) = frameNext + Offset(b(k).guest) - Offset(b(k).host)
        BY <3>1 DEF HostFrame
      <4>3. bases'[b(j).slot] - Offset(b(j).host) = bases'[b(k).slot] - Offset(b(k).host)
        BY <1>1, <3>4, <3>5, <4>2
      <4> QED BY <1>0, <4>1, <4>3 DEF SameFrame, Base
    <3> SUFFICES ASSUME NEW i \in DOMAIN c.bindings, i < at + 1, IsFrame(b(i)), NEW j \in Group(c, i)
                 PROVE  SameFrame(b(i), b(j))'
      BY <1>0, <2>0 DEF FramesShared
    <3>7. CASE i \in G
      <4>1. j \in G
        BY <1>1, <3>1, <3>7, GroupIsShared
      <4> QED BY <3>6, <3>7, <4>1
    <3>8. CASE i \notin G
      <4>1. i < at
        BY <1>1, <3>1, <3>8 DEF Group
      <4>2. SameFrame(b(i), b(j)) /\ j \in DOMAIN c.bindings /\ IsFrame(b(j)) /\ j \notin G
        <5>1. Group(c, j) = Group(c, i) /\ i \in Group(c, i) /\ IsFrame(b(j)) /\ j \in DOMAIN c.bindings
          BY <1>1, GroupIsShared DEF Group
        <5>2. j \notin G
          BY <1>1, <3>1, <3>8, <5>1, GroupIsShared
        <5> QED BY <2>1, <4>1, <5>1, <5>2
      <4>3. ASSUME NEW k \in {i, j} PROVE bases'[b(k).slot] = bases[b(k).slot] \/ b(k).slot \notin DOMAIN bases
        <5>1. k \in DOMAIN c.bindings /\ IsFrame(b(k)) /\ k \notin G
          BY <3>8, <4>2
        <5>2. b(k).slot \notin DOMAIN place
          <6> SUFFICES ASSUME NEW m \in G, b(m).slot = b(k).slot PROVE FALSE
            BY <3>2 DEF SlotsOf
          <6>1. m \in DOMAIN c.bindings /\ IsFrame(b(m))
            BY DEF Group
          <6> QED BY <1>1, <5>1, <6>1, FrameBindings
        <5> QED BY <3>1, <5>2 DEF Overlay
      <4>4. ASSUME NEW k \in {i, j} PROVE b(k).slot \in DOMAIN bases
        <5>1. SlotsOf(c, Group(c, i)) \subseteq DOMAIN bases
          BY <1>0, <4>1 DEF BasesInv
        <5>2. k \in Group(c, i)
          BY <1>1, GroupIsShared
        <5> QED BY <5>1, <5>2 DEF SlotsOf
      <4> QED BY <1>0, <4>2, <4>3, <4>4 DEF SameFrame, Base
    <3> QED BY <3>7, <3>8
  <2> QED BY <2>2, <2>3
<1> QED BY <1>2, <1>3

\* A binding that is accepted sets what it wants and changes nothing.
LEMMA AcceptedBinding ==
    ASSUME AssignBinding, phase' # "done"
    PROVE  LET want == Wanted(memoryCandidate, memoryCandidate.bindings[at])
           IN  /\ \A w \in want : w[1] \in DOMAIN assigned' /\ assigned'[w[1]] = w[2]
               /\ \A r \in DOMAIN assigned : r \in DOMAIN assigned' /\ assigned'[r] = assigned[r]
               /\ \A r \in DOMAIN assigned' : r \in DOMAIN assigned \/ \E w \in want : w[1] = r
<1> DEFINE c == memoryCandidate
           new == Wanted(c, c.bindings[at])
           want == new \cup Known
           pick(r) == CHOOSE w \in want : w[1] = r
<1>1. /\ ~\E v, w \in want : v[1] = w[1] /\ v[2] # w[2]
      /\ assigned' = [r \in {w[1] : w \in want} |-> pick(r)[2]]
  BY DEF AssignBinding, Decide
<1>2. \A r \in DOMAIN assigned : <<r, assigned[r]>> \in Known
  BY DEF Known
<1>3. \A w \in Known : \E r \in DOMAIN assigned : w = <<r, assigned[r]>>
  BY DEF Known
<1> HIDE DEF new
<1>4. ASSUME NEW w \in want PROVE w[1] \in DOMAIN assigned' /\ assigned'[w[1]] = w[2]
  <2>1. pick(w[1]) \in want /\ pick(w[1])[1] = w[1]
    OBVIOUS
  <2> HIDE DEF pick, want
  <2>2. pick(w[1])[2] = w[2]
    BY <1>1, <2>1
  <2> QED BY <1>1, <2>2
<1>5. \A r \in DOMAIN assigned : r \in DOMAIN assigned' /\ assigned'[r] = assigned[r]
  <2> TAKE r \in DOMAIN assigned
  <2>1. <<r, assigned[r]>> \in want
    BY <1>2
  <2> HIDE DEF want
  <2> QED BY <1>4, <2>1
<1>6. \A r \in DOMAIN assigned' : r \in DOMAIN assigned \/ \E w \in new : w[1] = r
  <2> TAKE r \in DOMAIN assigned'
  <2>1. PICK w \in want : w[1] = r
    <3> HIDE DEF want, pick
    <3> QED BY <1>1
  <2>2. CASE w \in Known
    BY <1>3, <2>1, <2>2
  <2> QED BY <2>1, <2>2
<1> QED BY <1>4, <1>5, <1>6 DEF new

\* No binding takes a witness away, and one that gives its base a value has what it wants.
LEMMA AcceptedKeeps ==
    ASSUME AssignBinding, phase' # "done"
    PROVE  /\ memoryCandidate' = memoryCandidate /\ bases' = bases
           /\ \A b : Settled(b) => Settled(b)'
<1>1. memoryCandidate' = memoryCandidate /\ bases' = bases
  BY DEF AssignBinding, Decide
<1>2. \A r, v : Holds(r, v) => Holds(r, v)'
  BY AcceptedBinding DEF Holds
<1> QED BY <1>1, <1>2 DEF Settled, Base

LEMMA BindingIsSettled ==
    ASSUME AssignBinding, phase' # "done", NEW b, b = memoryCandidate.bindings[at],
           IsFrame(b) => b.guest.base \notin DOMAIN assigned \cup IndexRegisters(memoryCandidate, b)
    PROVE  Settled(b)'
<1> DEFINE c == memoryCandidate
           want == Wanted(c, b)
           guest == <<b.guest.base, Base(b, b.guest)>>
           host == <<b.host.base, Base(b, b.host)>>
<1>1. c' = c /\ bases' = bases
  BY AcceptedKeeps
<1>2. \A w \in want : w[1] \in DOMAIN assigned' /\ assigned'[w[1]] = w[2]
  BY AcceptedBinding
<1>3. \A r \in IndexRegisters(c, b) : <<r, IndexWitness>> \in want
  BY DEF Wanted
<1>4. guest \in want /\ (IsFrame(b) \/ GuestOf(c, b.host.base) = {} => host \in want)
  BY DEF Wanted, Base
<1> HIDE DEF want
<1>5. \A r \in IndexRegisters(c, b) : Holds(r, IndexWitness)'
  <2> TAKE r \in IndexRegisters(c, b)
  <2>1. <<r, IndexWitness>> \in want
    BY <1>3
  <2> QED BY <1>2, <2>1 DEF Holds
<1>6. guest[1] \in DOMAIN assigned' /\ assigned'[guest[1]] = guest[2]
  BY <1>2, <1>4
<1>7. IsFrame(b) \/ GuestOf(c, b.host.base) = {} => host[1] \in DOMAIN assigned' /\ assigned'[host[1]] = host[2]
  BY <1>2, <1>4
<1>8. Holds(b.guest.base, Base(b, b.guest))'
  BY <1>1, <1>6 DEF Holds, Base
<1>9. IsFrame(b) \/ GuestOf(c, b.host.base) = {} => Holds(b.host.base, Base(b, b.host))'
  BY <1>1, <1>7 DEF Holds, Base
<1> QED BY <1>1, <1>5, <1>8, <1>9 DEF Settled

LEMMA AssignBindingKeepsWitnesses == BasesInv /\ WitnessInv /\ AssignBinding => WitnessInv'
<1> SUFFICES ASSUME BasesInv, WitnessInv, AssignBinding PROVE WitnessInv'
  OBVIOUS
<1> DEFINE c == memoryCandidate
           B == c.bindings
<1> PICK b : b = B[at]
  OBVIOUS
<1> DEFINE want == Wanted(c, b)
<1>0. phase = "registers" /\ at <= Len(B) /\ c' = c /\ bases' = bases
  BY DEF AssignBinding, Decide
<1>1. c \in MemoryCandidates /\ at \in DOMAIN B /\ at \in Nat /\ DOMAIN B = 1..Len(B) /\ Len(B) \in Nat
  BY <1>0, CandidateParts DEF BasesInv
<1>2. CASE phase' = "done"
  BY <1>2 DEF WitnessInv
<1>3. CASE phase' # "done"
  <2>0. phase' = "registers" /\ at' = at + 1
    BY <1>0, <1>3 DEF AssignBinding, Decide
  <2>1. /\ \A w \in want : w[1] \in DOMAIN assigned' /\ assigned'[w[1]] = w[2]
        /\ \A r \in DOMAIN assigned : r \in DOMAIN assigned' /\ assigned'[r] = assigned[r]
        /\ \A r \in DOMAIN assigned' : r \in DOMAIN assigned \/ \E w \in want : w[1] = r
    BY <1>3, AcceptedBinding
  <2> SUFFICES ASSUME FramesApart(c)
               PROVE  /\ FramesShared(Len(B) + 1)' /\ at' <= Len(B) + 1
                      /\ \A i \in DOMAIN B : i < at' => Settled(B[i])'
                      /\ FrameBasesSettled(at)'
    BY <1>0, <2>0 DEF WitnessInv
  <2>2. /\ FramesShared(Len(B) + 1)
        /\ \A i \in DOMAIN B : i < at => Settled(B[i])
        /\ FrameBasesSettled(at)
    BY <1>0 DEF WitnessInv
  <2>3. FramesShared(Len(B) + 1)' /\ at' <= Len(B) + 1
    BY <1>0, <1>1, <2>0, <2>2 DEF FramesShared, SameFrame, Base
  <2>5. ASSUME NEW i \in DOMAIN B, i < at PROVE Settled(B[i])'
    BY <1>3, <2>2, <2>5, AcceptedKeeps
  <2>7. \A i \in DOMAIN B : IsFrame(b) =>
            /\ b.guest.base \notin IndexRegisters(c, B[i]) \cup {B[i].host.base}
            /\ IF IsFrame(B[i]) THEN b.guest.base = B[i].guest.base => b.host.base = B[i].host.base
               ELSE b.guest.base \notin {B[i].guest.base} \cup HostOf(c, B[i].guest.base)
    BY <1>1 DEF FramesApart
  <2>10. Settled(b)'
    <3>1. CASE IsFrame(b) /\ b.guest.base \in DOMAIN assigned
      <4>1. PICK j \in DOMAIN B : j < at /\ IsFrame(B[j]) /\ B[j].guest.base = b.guest.base
        BY <1>1, <2>2, <3>1 DEF FrameBasesSettled
      <4>2. b.host.base = B[j].host.base /\ at \in Group(c, j)
        BY <1>1, <3>1, <4>1, FrameBindings
      <4>3. SameFrame(B[j], b)
        BY <1>1, <2>2, <4>1, <4>2 DEF FramesShared
      <4>4. Holds(b.guest.base, Base(b, b.guest)) /\ Holds(b.host.base, Base(b, b.host))
        BY <2>2, <4>1, <4>2, <4>3 DEF Settled, SameFrame
      <4>5. \A r \in IndexRegisters(c, b) : Holds(r, IndexWitness)'
        <5> TAKE r \in IndexRegisters(c, b)
        <5>1. <<r, IndexWitness>> \in want
          BY DEF Wanted
        <5> HIDE DEF want
        <5> QED BY <2>1, <5>1 DEF Holds
      <4>6. Holds(b.guest.base, Base(b, b.guest))' /\ Holds(b.host.base, Base(b, b.host))'
        BY <1>0, <2>1, <4>4 DEF Holds, Base
      <4> QED BY <1>0, <4>5, <4>6 DEF Settled
    <3>2. CASE ~(IsFrame(b) /\ b.guest.base \in DOMAIN assigned)
      <4>1. IsFrame(b) => b.guest.base \notin IndexRegisters(c, b)
        BY <1>1, <2>7
      <4> QED BY <1>3, <3>2, <4>1, BindingIsSettled
    <3> QED BY <3>1, <3>2
  <2>11. \A i \in DOMAIN B : i < at' => Settled(B[i])'
    <3> TAKE i \in DOMAIN B
    <3> HAVE i < at'
    <3>1. i < at \/ i = at
      BY <1>1, <2>0
    <3> QED BY <1>0, <2>5, <2>10, <3>1
  <2>12. FrameBasesSettled(at)'
    <3> SUFFICES ASSUME NEW i \in DOMAIN B, IsFrame(B[i]), B[i].guest.base \in DOMAIN assigned'
                 PROVE  \E j \in DOMAIN B : j < at + 1 /\ IsFrame(B[j]) /\ B[j].guest.base = B[i].guest.base
      BY <1>0, <2>0 DEF FrameBasesSettled
    <3>1. CASE B[i].guest.base \in DOMAIN assigned
      <4>1. PICK j \in DOMAIN B : j < at /\ IsFrame(B[j]) /\ B[j].guest.base = B[i].guest.base
        BY <2>2, <3>1 DEF FrameBasesSettled
      <4>2. j < at + 1
        BY <1>1, <4>1
      <4> QED BY <4>1, <4>2
    <3>2. CASE B[i].guest.base \notin DOMAIN assigned
      <4>1. PICK w \in want : w[1] = B[i].guest.base
        BY <2>1, <3>2
      <4>2. /\ B[i].guest.base \notin IndexRegisters(c, b) \cup {b.host.base}
            /\ ~IsFrame(b) => B[i].guest.base \notin {b.guest.base} \cup HostOf(c, b.guest.base)
        BY <1>1 DEF FramesApart
      <4>3. IsFrame(b) /\ w[1] = b.guest.base
        BY <4>1, <4>2 DEF Wanted
      <4>4. at < at + 1
        BY <1>1
      <4> QED BY <1>1, <4>1, <4>3, <4>4
    <3> QED BY <3>1, <3>2
  <2> QED BY <2>3, <2>11, <2>12
<1> QED BY <1>2, <1>3

LEMMA WitnessInvHolds == MemorySpec => []WitnessInv
<1>1. MemoryInit => WitnessInv
  <2> SUFFICES ASSUME MemoryInit PROVE WitnessInv
    OBVIOUS
  <2>1. phase = "alias" /\ DOMAIN assigned = {}
    BY DEF MemoryInit
  <2> QED BY <2>1 DEF WitnessInv
<1>2. BasesInv /\ WitnessInv /\ [MemoryNext]_memoryVars => WitnessInv'
  <2> SUFFICES ASSUME BasesInv, WitnessInv, [MemoryNext]_memoryVars PROVE WitnessInv'
    OBVIOUS
  <2> DEFINE c == memoryCandidate
             B == c.bindings
  <2>0. c \in MemoryCandidates /\ DOMAIN B = 1..Len(B) /\ Len(B) \in Nat /\ at \in Nat \ {0}
    BY CandidateParts DEF BasesInv
  <2>1. CASE ValidateAlias \/ PlaceSlot
    <3>1. phase' \in {"slots", "done"} /\ DOMAIN assigned' = {}
      BY <2>1 DEF ValidateAlias, PlaceSlot, Decide, Goto, WitnessInv
    <3> QED BY <3>1 DEF WitnessInv
  <2>2. ASSUME NEW v, Decide(v) PROVE WitnessInv'
    BY <2>2 DEF Decide, WitnessInv
  <2>3. CASE InitializeSlots
    <3>1. phase' = "frames" /\ at' = 1 /\ DOMAIN assigned' = {} /\ c' = c
      BY <2>3 DEF InitializeSlots, Goto, WitnessInv
    <3>2. \A i \in DOMAIN B : ~(i < 1)
      BY <2>0
    <3>3. FramesShared(at)'
      BY <3>1, <3>2 DEF FramesShared
    <3> QED BY <3>1, <3>3 DEF WitnessInv
  <2>4. CASE FramesPlaced
    <3>1. phase = "frames" /\ at > Len(B) /\ phase' = "registers" /\ at' = 1 /\ c' = c /\ bases' = bases
          /\ DOMAIN assigned = {} /\ assigned' = assigned
      BY <2>4 DEF FramesPlaced, Goto, WitnessInv
    <3>2. (\A i \in DOMAIN B : ~(i < 1)) /\ (\A i \in DOMAIN B : i < at) /\ 1 <= Len(B) + 1
      BY <2>0, <3>1
    <3>3. FramesApart(c) => FramesShared(Len(B) + 1)'
      BY <3>1, <3>2 DEF WitnessInv, FramesShared, SameFrame, Base
    <3>4. FrameBasesSettled(at)'
      BY <3>1 DEF FrameBasesSettled
    <3> QED BY <3>1, <3>2, <3>3, <3>4 DEF WitnessInv
  <2>5. CASE RegistersAssigned
    <3>1. phase = "registers" /\ at > Len(B) /\ phase' = "guest" /\ c' = c /\ bases' = bases /\ assigned' = assigned
      BY <2>5 DEF RegistersAssigned, Goto
    <3>2. \A i \in DOMAIN B : i < at
      BY <2>0, <3>1
    <3>3. FramesApart(c) => FramesShared(Len(B) + 1)' /\ \A i \in DOMAIN B : Settled(B[i])'
      BY <3>1, <3>2 DEF WitnessInv, FramesShared, SameFrame, Settled, Holds, Base
    <3> QED BY <3>1, <3>3 DEF WitnessInv
  <2>6. CASE Run("guest")
    <3>1. phase = "guest" /\ phase' = "guest" /\ c' = c /\ bases' = bases /\ assigned' = assigned
      BY <2>6 DEF Run
    <3>2. FramesApart(c) => FramesShared(Len(B) + 1)' /\ \A i \in DOMAIN B : Settled(B[i])'
      BY <3>1 DEF WitnessInv, FramesShared, SameFrame, Settled, Holds, Base
    <3> QED BY <3>1, <3>2 DEF WitnessInv
  <2>7. CASE \/ Run("host") \/ RunEnds("guest", "host") \/ RunEnds("host", "count")
             \/ CheckCount \/ CheckOrdered \/ CheckBySlot
    <3>1. phase' \in {"host", "count", "ordered", "by_slot", "done"}
      BY <2>7 DEF Run, RunEnds, CheckCount, CheckOrdered, CheckBySlot, Decide, Goto
    <3> QED BY <3>1 DEF WitnessInv
  <2>8. CASE UNCHANGED memoryVars
    BY <2>8 DEF memoryVars, WitnessInv, FramesShared, SameFrame, Settled, Holds, Base, FrameBasesSettled
  <2> QED BY <2>1, <2>3, <2>4, <2>5, <2>6, <2>7, <2>8, PlaceFrameKeepsWitnesses, AssignBindingKeepsWitnesses
          DEF MemoryNext, MemoryDone
<1> QED BY <1>1, <1>2, BasesInvHolds, PTL DEF MemorySpec

LEMMA AssignBindingKeepsGiven == BasesInv /\ GivenInv /\ AssignBinding => GivenInv'
<1> SUFFICES ASSUME BasesInv, GivenInv, AssignBinding PROVE GivenInv'
  OBVIOUS
<1> DEFINE c == memoryCandidate
           B == c.bindings
<1> PICK b : b = B[at]
  OBVIOUS
<1> DEFINE want == Wanted(c, b)
<1>0. phase = "registers" /\ at <= Len(B) /\ c' = c
  BY DEF AssignBinding, Decide
<1>1. c \in MemoryCandidates /\ at \in DOMAIN B /\ at \in Nat /\ DOMAIN B = 1..Len(B) /\ Len(B) \in Nat
  BY <1>0, CandidateParts DEF BasesInv
<1>2. CASE phase' = "done"
  BY <1>2 DEF GivenInv
<1>3. CASE phase' # "done"
  <2>0. phase' = "registers" /\ at' = at + 1
    BY <1>0, <1>3 DEF AssignBinding, Decide
  <2>1. \A r \in DOMAIN assigned' : r \in DOMAIN assigned \/ \E w \in want : w[1] = r
    BY <1>3, AcceptedBinding
  <2>2. ASSUME NEW i \in DOMAIN B, i < at + 1, GivesBase(c, i) PROVE Settled(B[i])'
    <3>1. CASE i < at
      BY <1>0, <1>3, <2>2, <3>1, AcceptedKeeps DEF GivenInv
    <3>2. CASE i = at
      <4>1. ASSUME IsFrame(b), b.guest.base \in DOMAIN assigned PROVE FALSE
        <5>1. PICK j \in DOMAIN B : j < at /\ b.guest.base \in RegistersOf(c, B[j])
          BY <1>0, <4>1 DEF GivenInv
        <5>2. j \in 1..at - 1
          BY <1>1, <5>1
        <5> QED BY <2>2, <3>2, <4>1, <5>1, <5>2 DEF GivesBase
      <4>2. IsFrame(b) => b.guest.base \notin IndexRegisters(c, b)
        BY <2>2, <3>2 DEF GivesBase
      <4>3. Settled(b)'
        BY <1>3, <4>1, <4>2, BindingIsSettled
      <4> QED BY <1>0, <3>2, <4>3
    <3> QED BY <1>1, <2>2, <3>1, <3>2
  <2>3. ASSUME NEW r \in DOMAIN assigned'
        PROVE  \E j \in DOMAIN B : j < at + 1 /\ r \in RegistersOf(c, B[j])
    <3>1. CASE r \in DOMAIN assigned
      <4>1. PICK j \in DOMAIN B : j < at /\ r \in RegistersOf(c, B[j])
        BY <1>0, <3>1 DEF GivenInv
      <4>2. j < at + 1
        BY <1>1, <4>1
      <4> QED BY <4>1, <4>2
    <3>2. CASE r \notin DOMAIN assigned
      <4>1. PICK w \in want : w[1] = r
        BY <2>1, <2>3, <3>2
      <4>2. r \in RegistersOf(c, b)
        BY <4>1 DEF Wanted, RegistersOf
      <4>3. at < at + 1
        BY <1>1
      <4> QED BY <1>1, <4>2, <4>3
    <3> QED BY <3>1, <3>2
  <2> QED BY <1>0, <2>0, <2>2, <2>3 DEF GivenInv
<1> QED BY <1>2, <1>3

LEMMA GivenInvHolds == MemorySpec => []GivenInv
<1>1. MemoryInit => GivenInv
  <2> SUFFICES ASSUME MemoryInit PROVE GivenInv
    OBVIOUS
  <2>1. phase = "alias" /\ DOMAIN assigned = {}
    BY DEF MemoryInit
  <2> QED BY <2>1 DEF GivenInv
<1>2. BasesInv /\ GivenInv /\ [MemoryNext]_memoryVars => GivenInv'
  <2> SUFFICES ASSUME BasesInv, GivenInv, [MemoryNext]_memoryVars PROVE GivenInv'
    OBVIOUS
  <2> DEFINE c == memoryCandidate
             B == c.bindings
  <2>0. c \in MemoryCandidates /\ DOMAIN B = 1..Len(B) /\ Len(B) \in Nat /\ at \in Nat \ {0}
    BY CandidateParts DEF BasesInv
  <2>1. CASE ValidateAlias \/ PlaceSlot \/ InitializeSlots \/ PlaceFrame
    <3>1. DOMAIN assigned = {}
      BY <2>1 DEF ValidateAlias, PlaceSlot, InitializeSlots, PlaceFrame, GivenInv
    <3>2. phase' \in {"slots", "frames", "done"} /\ assigned' = assigned
      BY <2>1 DEF ValidateAlias, PlaceSlot, InitializeSlots, PlaceFrame, Decide, Goto
    <3> QED BY <3>1, <3>2 DEF GivenInv
  <2>2. CASE FramesPlaced
    <3>1. phase = "frames" /\ phase' = "registers" /\ at' = 1 /\ c' = c
          /\ DOMAIN assigned = {} /\ assigned' = assigned
      BY <2>2 DEF FramesPlaced, Goto, GivenInv
    <3>2. \A i \in DOMAIN B : ~(i < 1)
      BY <2>0
    <3> QED BY <3>1, <3>2 DEF GivenInv
  <2>3. CASE RegistersAssigned
    <3>1. phase = "registers" /\ at > Len(B) /\ phase' = "guest" /\ c' = c /\ bases' = bases /\ assigned' = assigned
      BY <2>3 DEF RegistersAssigned, Goto
    <3>2. \A i \in DOMAIN B : i < at
      BY <2>0, <3>1
    <3>3. \A i \in DOMAIN B : GivesBase(c, i) => Settled(B[i])'
      BY <3>1, <3>2 DEF GivenInv, Settled, Holds, Base
    <3> QED BY <3>1, <3>3 DEF GivenInv
  <2>4. CASE Run("guest")
    <3>1. phase = "guest" /\ phase' = "guest" /\ c' = c /\ bases' = bases /\ assigned' = assigned
      BY <2>4 DEF Run
    <3>2. \A i \in DOMAIN B : GivesBase(c, i) => Settled(B[i])'
      BY <3>1 DEF GivenInv, Settled, Holds, Base
    <3> QED BY <3>1, <3>2 DEF GivenInv
  <2>5. CASE \/ Run("host") \/ RunEnds("guest", "host") \/ RunEnds("host", "count")
             \/ CheckCount \/ CheckOrdered \/ CheckBySlot
    <3>1. phase' \in {"host", "count", "ordered", "by_slot", "done"}
      BY <2>5 DEF Run, RunEnds, CheckCount, CheckOrdered, CheckBySlot, Decide, Goto
    <3> QED BY <3>1 DEF GivenInv
  <2>6. CASE UNCHANGED memoryVars
    BY <2>6 DEF memoryVars, GivenInv, Settled, Holds, Base
  <2> QED BY <2>1, <2>2, <2>3, <2>4, <2>5, <2>6, AssignBindingKeepsGiven DEF MemoryNext, MemoryDone
<1> QED BY <1>1, <1>2, BasesInvHolds, PTL DEF MemorySpec

\* What an address adds to its base under the witnesses is its offset.
LEMMA AddressIsBase ==
    ASSUME NEW c \in MemoryCandidates, NEW b \in Range(c.bindings), NEW e \in {b.guest, b.host},
           e.base \in DOMAIN assigned, bases[b.slot] \in Int, assigned[e.base] = Base(b, e),
           e.index # "none" => Holds(e.index, IndexWitness)
    PROVE  Address(c, e) = bases[b.slot]
<1>1. IndexWitness \in Int /\ e.scale \in Int /\ e.disp \in Int
  BY MemoryIsSpecified
<1>2. ValueOf(c, e.base) = bases[b.slot] - Offset(e)
  BY DEF ValueOf, Base
<1>3. CASE e.index = "none"
  BY <1>1, <1>2, <1>3 DEF Address, Offset
<1>4. CASE e.index # "none"
  <2> DEFINE p == IndexWitness * e.scale
  <2>1. p \in Int /\ Offset(e) = p + e.disp
    BY <1>1, <1>4 DEF Offset
  <2>2. ValueOf(c, e.index) = IndexWitness
    BY <1>4 DEF Holds, ValueOf
  <2>3. Address(c, e) = ValueOf(c, e.base) + p + e.disp
    BY <1>4, <2>2 DEF Address
  <2> HIDE DEF p
  <2> QED BY <1>1, <1>2, <2>1, <2>3
<1> QED BY <1>3, <1>4

LEMMA WitnessesAreRight == BasesInv /\ GivenInv /\ WitnessInv => WitnessesHit
<1> SUFFICES ASSUME BasesInv, GivenInv, WitnessInv, phase = "guest", NEW i \in DOMAIN memoryCandidate.bindings,
                    GivesBase(memoryCandidate, i) \/ FramesApart(memoryCandidate),
                    NEW b, b = memoryCandidate.bindings[i]
             PROVE  /\ Address(memoryCandidate, b.guest) = bases[b.slot]
                    /\ GuestOf(memoryCandidate, b.host.base) = {} =>
                            Address(memoryCandidate, b.host) = bases[b.slot]
  BY DEF WitnessesHit
<1> DEFINE c == memoryCandidate
<1>1. Settled(b) /\ b \in Range(c.bindings)
  BY DEF GivenInv, WitnessInv, Range
<1>2. c \in MemoryCandidates /\ bases[b.slot] \in Int
  <2>1. c \in MemoryCandidates /\ DOMAIN bases = Names(c) /\ bases \in [DOMAIN bases -> Int]
    BY DEF BasesInv, Placed
  <2>2. b.slot \in Names(c)
    BY <1>1, <2>1, MemoryIsSpecified
  <2> QED BY <2>1, <2>2
<1>3. ASSUME NEW e \in {b.guest, b.host}, e.index # "none" PROVE Holds(e.index, IndexWitness)
  <2>1. e.index \in IndexRegisters(c, b)
    BY <1>3 DEF IndexRegisters
  <2> QED BY <1>1, <2>1 DEF Settled
<1>4. Address(c, b.guest) = bases[b.slot]
  <2>1. b.guest.base \in DOMAIN assigned /\ assigned[b.guest.base] = Base(b, b.guest)
    BY <1>1 DEF Settled, Holds
  <2> QED BY <1>1, <1>2, <1>3, <2>1, AddressIsBase
<1>5. ASSUME GuestOf(c, b.host.base) = {} PROVE Address(c, b.host) = bases[b.slot]
  <2>1. b.host.base \in DOMAIN assigned /\ assigned[b.host.base] = Base(b, b.host)
    BY <1>1, <1>5 DEF Settled, Holds
  <2> QED BY <1>1, <1>2, <1>3, <2>1, AddressIsBase
<1> QED BY <1>4, <1>5

\* For every candidate MemoryInitializer puts slots outside of frames on one place exactly
\* when declarations link them, and gives registers values under which the address of every
\* plain binding, and of the first binding of every frame base, is that of its slot; the later
\* bindings of a frame base have theirs under the proviso FramesApart.
THEOREM SlotsAndWitnesses == MemorySpec => []SlotsArePlaced
<1>1. BasesInv /\ EffectsInv => MemoryTypeOK
  BY DEF BasesInv, EffectsInv, MemoryTypeOK, Early, Running
<1>2. BasesInv /\ EffectsInv /\ SharingInv /\ GivenInv /\ WitnessInv => SlotsArePlaced
  BY <1>1, SharingIsDeclared, WitnessesAreRight DEF SlotsArePlaced
<1> QED BY <1>2, BasesInvHolds, EffectsInvHolds, SharingInvHolds, GivenInvHolds, WitnessInvHolds, PTL

=============================================================================
