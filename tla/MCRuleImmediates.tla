--------------------------- MODULE MCRuleImmediates ---------------------------
(***************************************************************************)
(* Windows of the shapes the strategies are written for, with every value  *)
(* of a small range in every slot; those the semantic verifier would not   *)
(* pass drop out at Init.                                                  *)
(***************************************************************************)
EXTENDS Integers, Sequences, FiniteSets, SequencesExt, TLC

CONSTANT ImmediatesCandidates

FieldBits == 2   \* of the immediate of a movk

VARIABLES imCand, imStage, imAt, imNumber, imHost, imResult
immediatesVars == <<imCand, imStage, imAt, imNumber, imHost, imResult>>

Immediates == INSTANCE RuleImmediates WITH
    Candidates <- ImmediatesCandidates, Domain <- {0, 1, 2, 3, 5, 8}, HalfWord <- FieldBits,
    cand <- imCand, stage <- imStage, at <- imAt, number <- imNumber, host <- imHost, result <- imResult

ImmediatesOff ==
    /\ imCand = "off" /\ imStage = "off" /\ imAt = 0 /\ imNumber = <<>> /\ imHost = <<>> /\ imResult = "off"

Small == 0 .. 4
Scales == {2, 4, 8}

Slot(role, v) == [role |-> role, dest |-> "x0", value |-> v]
Into(dest, role, v) == [role |-> role, dest |-> dest, value |-> v]
Host(role, how, of, v) == [role |-> role, need |-> [how |-> how, of |-> of], value |-> v]
Window(from, guest, numbers, fixed, low, known) ==
    [from |-> from, guest |-> guest, host |-> numbers, fixed |-> fixed, low |-> low, evaluable |-> known]

\* add x1, x1, #d; ldr x0, [x1, x2, lsl #s]  with  mov rax, [rdi + rsi*m + d]
Scaled ==
    {Window("aarch64", <<Slot("other", d), Slot("shift", s)>>,
        <<Host("scale", "shl", <<2>>, m), Host("other", "same", <<1>>, d)>>, {}, FALSE, known) :
        d \in Small \cup {8}, s \in 1 .. 3, m \in Scales, known \in BOOLEAN}

\* tbz w0, #b with a mask, then a store at a displacement
BitTest ==
    {Window("aarch64", <<Slot("bit", b), Slot("other", d)>>,
        <<Host("mask", "shl", <<1>>, m), Host("other", "same", <<2>>, d)>>, {}, FALSE, known) :
        b \in 0 .. 3, d \in Small, m \in {1, 2, 4, 8}, known \in BOOLEAN}

\* mov, mov, movk of one of the two, and the constants in the host; the first mov may
\* have bits in the field of the movk
Constants ==
    {Window("aarch64", <<Into("x0", "mov", a), Into("x1", "mov", b), Into(dest, "movk", h), Into(dest, "half", FieldBits)>>,
        <<Host("constant", "movk", <<IF dest = "x0" THEN 1 ELSE 2, 3, 4>>, k),
          Host("constant", "same", <<IF dest = "x0" THEN 2 ELSE 1>>, IF dest = "x0" THEN b ELSE a)>>, {}, FALSE, FALSE) :
        a \in 0 .. 15, b \in 0 .. 3, h \in 0 .. 3, dest \in {"x0", "x1"}, k \in 0 .. 15}

\* and w0, w0, #m (movzx of a low part in the host, or another opcode) or lsl w0, w0, #1
\* (add eax, eax), and a displacement
Masked ==
    {Window("aarch64", <<first, Slot("other", d)>>, <<Host("other", "same", <<2>>, d)>>, {1}, low, known) :
        first \in {Slot("other", 3), Slot("other", 15), Slot("shift", 1)},
        d \in Small, low \in BOOLEAN, known \in BOOLEAN}

\* mov rax, [rdi + rsi*m + d]  with  an add and a shifted load
Backwards ==
    {Window("x86-64", <<Slot("scale", m), Slot("other", d)>>,
        <<Host("other", "same", <<2>>, d), Host("shift", "log2", <<1>>, s)>>, {}, FALSE, known) :
        m \in Scales, d \in Small, s \in 1 .. 3, known \in BOOLEAN}

\* a host number no strategy derives: a sum of the guest's, written twice
Folded ==
    {Window("aarch64", <<Slot("other", a), Slot("other", b)>>,
        <<Host("other", "sum", <<1, 2>>, k), Host("other", "same", <<1>>, a)>>, {}, FALSE, known) :
        a \in Small, b \in 0 .. 2, k \in 0 .. 12, known \in BOOLEAN}

MCImmediatesCandidates == Scaled \cup BitTest \cup Constants \cup Masked \cup Backwards \cup Folded
=============================================================================
