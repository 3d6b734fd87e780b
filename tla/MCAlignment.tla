------------------------------ MODULE MCAlignment ------------------------------
(* Objects of one or two functions that are put together from short runs of *)
(* instructions: blocks with a gap in their lines and without, of one line, *)
(* without a line, of two files, and a run that no control flow ends.       *)
EXTENDS Alignment

CONSTANT MaxRuns

Inst(flow, file, line) == [flow |-> flow, source |-> [file |-> file, line |-> line]]
Bare(flow) == [flow |-> flow, source |-> NoSource]

Gap      == <<Inst(FALSE, 1, 1), Inst(TRUE, 1, 3)>>
Whole    == <<Inst(FALSE, 1, 2), Inst(FALSE, 1, 1), Inst(TRUE, 1, 3)>>
OneLine  == <<Bare(FALSE), Inst(TRUE, 1, 1)>>
Unlined  == <<Bare(TRUE)>>
Inlined  == <<Inst(FALSE, 2, 1), Inst(TRUE, 1, 1)>>
Header   == <<Inst(TRUE, 2, 1)>>
Open     == <<Inst(FALSE, 1, 1)>>

Runs == {Gap, Whole, OneLine, Unlined, Inlined, Header, Open}

(* The runs end to end, as the code of function f. *)
Code(f, runs) ==
    LET flat == FlattenSeq(runs)
    IN  [i \in DOMAIN flat |->
            [function |-> f, address |-> 20 * (f - 1) + i,
             flow |-> flat[i].flow, source |-> flat[i].source]]

Programs == {Code(1, runs) : runs \in SeqOf(Runs, MaxRuns) \ {<<>>}}

SecondPrograms == {<<Code(2, <<Gap>>)>>, <<Code(2, <<Whole, Open>>)>>, <<>>}

GuestSources == {<<first>> \o rest : first \in Programs, rest \in SecondPrograms}

(* The host has the second function in one shape; where the guest lacks it *)
(* the function is a group of one side.                                    *)
HostSources == {<<first, Code(2, <<Gap>>)>> : first \in Programs}

SmallObject == [guest |-> <<Code(1, <<Gap>>), Code(2, <<Gap>>)>>,
                host |-> <<Code(1, <<Gap>>), Code(2, <<Gap>>)>>]

MCObjects == [guest : GuestSources, host : HostSources]

=============================================================================
