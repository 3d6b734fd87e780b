------------------------- MODULE MCSemanticVerifier -------------------------
(***************************************************************************)
(* Small instances of SemanticVerifier: two families a and b on each side, *)
(* fragments that set a from b in four ways, store or test a half of b,    *)
(* and all lists of at most two input pairs.                               *)
(***************************************************************************)
EXTENDS SemanticVerifier

MCFamily == {"a", "b"}

R(f, w) == [family |-> f, width |-> w]
In(g, h) == [guest |-> g, host |-> h]

\* The value of the low bits, or of the whole family.
Value(v, f, w) == v[<<f, 0>>] + (IF w = 2 THEN 2 * v[<<f, 1>>] ELSE 0)

\* Register a after the fragment: copied, zero-extended, masked, or kept.
After(f, v) ==
    CASE f.effect = "copy"   -> [v EXCEPT ![<<"a", 0>>] = v[<<"b", 0>>], ![<<"a", 1>>] = v[<<"b", 1>>]]
      [] f.effect = "extend" -> [v EXCEPT ![<<"a", 0>>] = v[<<"b", 0>>], ![<<"a", 1>>] = 0]
      [] f.effect = "and"    -> [v EXCEPT ![<<"a", 0>>] = @ * v[<<"b", 0>>], ![<<"a", 1>>] = 0]
      [] f.effect = "keep"   -> v

MCObserve(f, obs, v) ==
    CASE obs[1] = "register" -> Value(After(f, v), obs[2], obs[3])
      [] obs[1] = "memory"   -> Value(v, "b", f.store)
      [] obs[1] = "flag"     -> v[<<"b", f.flag>>]
      [] obs[1] = "guard"    -> v[<<"b", f.test>>]

Fragment(effect, successors) ==
    [effect |-> effect, store |-> 2, flag |-> 0, test |-> 0,
     nonTerminalBranch |-> FALSE, executes |-> TRUE, successors |-> successors,
     terminal |-> IF successors = 2 THEN "conditional" ELSE "none", first |-> "taken"]

Both(obs) == [guest |-> obs, host |-> obs, supported |-> TRUE]
Flag == Both(<<"flag">>)
NoFlag == [Flag EXCEPT !.supported = FALSE]
Memory == Both(<<"memory">>)
Out(f, w) == Both(<<"register", f, w>>)

Candidate(inputs, g, h) ==
    [inputs |-> inputs, guest |-> g, host |-> h, memory |-> <<>>, events |-> "matched",
     flags |-> <<>>, outputs |-> <<>>, preconditions |-> FALSE, mayAlias |-> FALSE,
     layout |-> "valid"]

Lists(S) == {<<>>} \cup {<<p>> : p \in S} \cup {<<p, q>> : p \in S, q \in S}

SomePairs == {In(R("a", 2), R("a", 2)), In(R("b", 1), R("b", 1)), In(R("b", 2), R("b", 2)),
              In(R("b", 2), R("a", 2))}

Effects == {"copy", "extend", "and", "keep"}

\* Registers: all the input lists, two outputs of two widths.
RegisterWindows ==
    {[Candidate(ins, Fragment("copy", 1), Fragment(h, 1)) EXCEPT
        !.outputs = <<Out("a", w), Out("b", 1)>>] :
        ins \in Lists(SomePairs), h \in Effects, w \in 1..2}

\* Memory and flags, some of them unsupported or in another place.
EffectWindows ==
    {[Candidate(ins, Fragment("and", 1), [Fragment("and", 1) EXCEPT !.store = w, !.flag = b])
        EXCEPT !.memory = <<Memory>>, !.flags = fl, !.outputs = <<Out("a", 1)>>] :
        ins \in {<<p, q>> : p, q \in SomePairs}, w \in 1..2, b \in 0..1,
        fl \in {<<Flag>>, <<NoFlag, Flag>>}}

\* Branches: either successor first, guards on either half.
BranchWindows(firsts) ==
    {[Candidate(<<pair>>, [Fragment("keep", 2) EXCEPT !.first = firsts[1]],
                [Fragment("keep", n) EXCEPT !.store = w, !.test = t, !.first = firsts[2]])
        EXCEPT !.memory = <<Memory>>, !.flags = fl, !.outputs = outs] :
        pair \in SomePairs, n \in 1..2, w \in 1..2, t \in 0..1,
        fl \in {<<>>, <<Flag>>}, outs \in {<<>>, <<Out("a", 1)>>}}

\* One candidate for each reason to reject before execution or after.
Plain == [Candidate(<<In(R("a", 2), R("a", 2))>>, Fragment("keep", 1), Fragment("keep", 1))
            EXCEPT !.outputs = <<Out("a", 2)>>]
Rejected ==
    {[Plain EXCEPT !.events = "mismatched"], [Plain EXCEPT !.outputs = <<>>],
     [Plain EXCEPT !.preconditions = TRUE], [Plain EXCEPT !.mayAlias = TRUE],
     [Plain EXCEPT !.layout = "unsupported"], [Plain EXCEPT !.layout = "error"],
     [Plain EXCEPT !.host.nonTerminalBranch = TRUE], [Plain EXCEPT !.guest.executes = FALSE],
     [Plain EXCEPT !.host.successors = 3], [Plain EXCEPT !.host.successors = 0],
     [Plain EXCEPT !.guest.terminal = "unconditional"],
     [Plain EXCEPT !.guest.successors = 2, !.host.successors = 2]}

AnyOrder == {"taken"} \X {"taken", "fallthrough"}

MCCandidates ==
    RegisterWindows \cup EffectWindows \cup UNION {BranchWindows(f) : f \in AnyOrder}
    \cup Rejected

\* b.ne lifts with the taken exit first, jne with the other one.
MCBranchCandidates == BranchWindows(<<"taken", "fallthrough">>)
=============================================================================
