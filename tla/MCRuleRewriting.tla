---------------------------- MODULE MCRuleRewriting ----------------------------
(***************************************************************************)
(* Windows for RuleRewriting: one operation of two kinds after or before a *)
(* copy, two in a row, swaps, frames, and comparisons kept in a register.  *)
(***************************************************************************)
EXTENDS Integers, Sequences, FiniteSets, SequencesExt, TLC

CONSTANT RewritingCandidates

VARIABLES rwCand, rwStage, rwAt, rwMap, rwSplit, rwPending, rwNextId, rwRule, rwResult
rewritingVars == <<rwCand, rwStage, rwAt, rwMap, rwSplit, rwPending, rwNextId, rwRule, rwResult>>

Rewriting == INSTANCE RuleRewriting WITH
    Candidates <- RewritingCandidates, KnownOps <- {"mov", "movzx", "add"},
    cand <- rwCand, stage <- rwStage, at <- rwAt, map <- rwMap, split <- rwSplit, pending <- rwPending,
    nextId <- rwNextId, rule <- rwRule, result <- rwResult

RewritingOff ==
    /\ rwCand = "off" /\ rwStage = "off" /\ rwAt = 0 /\ rwMap = <<>> /\ rwSplit = <<>> /\ rwPending = {}
    /\ rwNextId = 0 /\ rwRule = "off" /\ rwResult = "off"

W(n) == [side |-> "guest", family |-> <<"x0", "x1", "x2">>[n], bits |-> 32]
H(n) == [side |-> "host", family |-> <<"rax", "rdi", "rsi", "rdx">>[n], bits |-> 32]
L(n) == [H(n) EXCEPT !.bits = 8]

Ins(form, op, operands) == [form |-> form, op |-> op, operands |-> operands]
Three(op, d, a, b) == Ins("three", op, <<d, a, b>>)
Two(op, d, s) == Ins("two", op, <<d, s>>)
Mov(d, s) == Ins("mov", "mov", <<d, s>>)
NoMemory == [guest |-> <<>>, host |-> <<>>]

\* The registers an instruction reads, and what it is reported to write.
Sources(i) ==
    {i.operands[p] : p \in CASE i.form = "three" -> {2, 3} [] i.form \in {"two", "test"} -> {1, 2}
                             [] i.form \in {"mov", "movzx"} -> {2} [] OTHER -> {}}
Target(side, i) == IF i.form = "test" /\ side = "host" THEN {} ELSE {i.operands[1]}

\* The registers a window reads before it writes them, and those it writes.
Live(side, window) ==
    {r \in UNION {Sources(window[n]) : n \in DOMAIN window} :
        \E n \in DOMAIN window :
            /\ r \in Sources(window[n])
            /\ \A m \in 1 .. n - 1 : \A w \in Target(side, window[m]) : w.family # r.family}
Defined(side, window) == UNION {Target(side, window[n]) : n \in DOMAIN window}

Matchings(G, K) ==
    IF Cardinality(G) # Cardinality(K) THEN {}
    ELSE {[n \in DOMAIN s |-> [guest |-> SetToSeq(G)[n], host |-> s[n]]] : s \in SetToSeqs(K)}

Candidate(g, h, o, i, m) == [guest |-> g, host |-> h, outputs |-> o, inputs |-> i, memory |-> m]
Of(guests, hosts) ==
    UNION {{Candidate(g, h, <<[guest |-> d, host |-> e]>>, i, NoMemory) :
               d \in Defined("guest", g), e \in Defined("host", h), i \in Matchings(Live("guest", g), Live("host", h))} :
           g \in guests, h \in hosts}

\* One operation, after a copy on the host.
OneGuest(op) == {<<Three(op, W(d), W(a), W(b))>> : d \in 1 .. 2, a \in 1 .. 2, b \in 1 .. 2}
CopyHost(op) == {<<Mov(H(a), H(b)), Two(op, H(c), H(d))>> : a \in 1 .. 3, b \in 1 .. 3, c \in 1 .. 3, d \in 1 .. 3}
LastHost(op) == {<<Two(op, H(c), H(d)), Mov(H(a), H(c))>> : a \in 1 .. 3, c \in 1 .. 3, d \in 1 .. 3}
OneHost(op) == {<<Two(op, H(c), H(d))>> : c \in 1 .. 3, d \in 1 .. 3}
Doubles(h) == \E n \in DOMAIN h : h[n].operands[1] = h[n].operands[2]

\* Two of them in a row, into the same register.
TwoGuest(op) == {<<Three(op, W(1), W(a), W(b)), Three(op, W(1), W(1), W(c))>> : a \in 1 .. 3, b \in 1 .. 3, c \in 1 .. 3}
TwoHost(op) == {<<Mov(H(1), H(a)), Two(op, H(1), H(b)), Two(op, H(1), H(c))>> : a \in 2 .. 4, b \in 1 .. 4, c \in 1 .. 4}

\* Two outputs and two inputs, paired straight or crosswise.
To(op, d, s) == Ins("mov", op, <<d, s>>)
Swapping(r, op) == <<Mov(r[3], r[1]), To(op, r[1], r[2]), To(op, r[2], r[3])>>
Keeping(r, op) == <<To(op, r[1], r[1]), To(op, r[2], r[2])>>
GuestFile == [n \in 1 .. 3 |-> W(n)]
HostFile == [n \in 1 .. 3 |-> H(n)]
Both == {<<[guest |-> W(1), host |-> h[1]], [guest |-> W(2), host |-> h[2]]>> : h \in {<<H(1), H(2)>>, <<H(2), H(1)>>}}
Swaps == {Candidate(g, h, o, i, NoMemory) :
            g \in UNION {{Swapping(GuestFile, x), Keeping(GuestFile, x)} : x \in {"mov", "neg"}},
            h \in UNION {{Swapping(HostFile, x), Keeping(HostFile, x)} : x \in {"mov", "neg"}}, o \in Both, i \in Both}

\* The stack and frame pointers, of addresses and of windows.
Sp(side, bits) == [side |-> side, family |-> "sp", bits |-> bits]
Fp(side) == [side |-> side, family |-> "fp", bits |-> 64]
Frames ==
  {c \in
    {Candidate(<<Three("op", W(1), W(1), g)>>, <<Two("op", H(1), h)>>,
               <<[guest |-> W(1), host |-> H(1)]>>, <<[guest |-> W(1), host |-> H(1)], [guest |-> g, host |-> h]>>, m) :
        g \in {Sp("guest", 64), Fp("guest"), W(2)}, h \in {Sp("host", 64), Sp("host", 32), Fp("host"), L(2)},
        m \in {NoMemory, [guest |-> <<Sp("guest", 64)>>, host |-> <<>>],
               [guest |-> <<Fp("guest"), Sp("guest", 64)>>, host |-> <<Fp("host"), Fp("host")>>]}
              \cup {[guest |-> <<Sp("guest", 64), W(1)>>, host |-> <<a, b>>] : a \in {Sp("host", 64), Fp("host")}, b \in {H(1), H(2)}}} :
   c.inputs[2].host = Sp("host", 32) => c.inputs[2].guest = Sp("guest", 64)}

\* A comparison kept in a register.
Test(a, b) == Ins("test", "cmp", <<a, b>>)
Set(r) == Ins("set", "set", <<r>>)
Compare ==
    Of({<<Test(W(1), W(2)), Set(W(d))>> : d \in 1 .. 2},
       {copy \o <<Test(H(2), H(3)), Set(L(s)), Ins("movzx", "movzx", <<H(1), L(s)>>)>> :
           s \in 1 .. 3, copy \in {<<>>} \cup {<<Mov(H(r), H(2))>> : r \in 1 .. 2}})

MCRewritingCandidates ==
    Of(OneGuest("op"), {h \in CopyHost("op") \cup OneHost("op") \cup LastHost("op") : ~Doubles(h)})
    \cup Of(OneGuest("add"), CopyHost("add") \cup OneHost("add") \cup LastHost("add"))
    \cup Of(TwoGuest("add"), TwoHost("add"))
    \cup Swaps \cup Frames \cup Compare

ChainedUnknown == Of(TwoGuest("op"), TwoHost("op"))
=============================================================================
