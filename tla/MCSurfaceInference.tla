-------------------------- MODULE MCSurfaceInference --------------------------
(***************************************************************************)
(* Small instances of SurfaceInference: x86-64 shifts by cl after full,    *)
(* partial and split writes of rcx, and every answer of its callees.       *)
(***************************************************************************)
EXTENDS SurfaceInference

Reg(family, lo, hi) == [family |-> family, bits |-> lo..hi]
Cl == Reg("rcx", 0, 1)
ClLow == Reg("rcx", 0, 0)
Ch == Reg("rcx", 2, 3)
Ecx == Reg("rcx", 0, 3)
Eax == Reg("rax", 0, 3)

Inst(flow, reads, writes) == [flow |-> flow, reads |-> reads, writes |-> writes]

HostInsns ==
    {Inst("none", <<Eax>>, <<Ecx>>), Inst("none", <<Eax>>, <<ClLow>>), Inst("none", <<Eax>>, <<Ch>>),
     Inst("none", <<Eax, Cl>>, <<Eax>>), Inst("none", <<Cl>>, <<Ecx, Eax>>)}

MCInferencePairs ==
    {[guest |-> <<Inst("none", <<>>, <<>>)>>, host |-> h] : h \in UNION {[1..k -> HostInsns] : k \in 1..3}}
    \cup {[guest |-> g, host |-> <<Inst(f, <<Eax>>, <<>>)>>] :
            g \in {<<Inst("call", <<>>, <<>>)>>, <<Inst("conditional", <<>>, <<>>)>>},
            f \in {"none", "conditional", "jump", "return"}}

MCFixedRole == {Cl}

\* The inference at its start, on one of the pairs.
InferenceOff ==
    InferenceInit /\ pair = [guest |-> <<Inst("none", <<>>, <<>>)>>, host |-> <<Inst("none", <<Eax>>, <<Ecx>>)>>]

MCMemoryAnswers ==
    {[skip |-> "none", slots |-> 0, inputs |-> <<>>],
     [skip |-> "none", slots |-> 1, inputs |-> <<<<"a", "A">>, <<"a", "A">>, <<"b", "A">>>>],
     [skip |-> "unsupported_memory_surface", slots |-> 0, inputs |-> <<>>]}

\* A surface without outputs is a branch, or is skipped.
MCSurfaceAnswers ==
    {[skip |-> "none", kind |-> "register", inputs |-> <<"a">>, outputs |-> <<"x">>],
     [skip |-> "none", kind |-> "branch", inputs |-> <<"a">>, outputs |-> <<>>],
     [skip |-> "no_verifiable_surface", kind |-> "register", inputs |-> <<>>, outputs |-> <<>>],
     [skip |-> "external_live_condition_code_dependency", kind |-> "register", inputs |-> <<>>, outputs |-> <<>>]}

MCSolverAnswers ==
    {[skip |-> "ambiguous_register_surface", fallback |-> FALSE, inputs |-> <<>>, outputs |-> <<>>]}
    \cup {[skip |-> "none", fallback |-> f, inputs |-> i, outputs |-> o] :
            f \in BOOLEAN, i \in {<<<<"a", "A">>>>, <<<<"a", "B">>, <<"b", "A">>>>}, o \in {<<>>, <<<<"x", "X">>>>}}
=============================================================================
