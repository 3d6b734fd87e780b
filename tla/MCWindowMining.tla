---------------------------- MODULE MCWindowMining ----------------------------
(***************************************************************************)
(* Instances of WindowMining: a region of two guest and three host         *)
(* instructions under the default limits (guest 1..2, host 1..3), and a    *)
(* second, smaller region with the same positions.                         *)
(***************************************************************************)
EXTENDS WindowMining

MCGuestLen == <<2, 1>>
MCHostLen  == <<3, 2>>

W(r, g, h) == [region |-> r, g |-> g, h |-> h]

\* Windows that may become candidates: enough for every stage to verify
\* something and for chains to cross.
MCMayBind ==
    {W(1, <<0, 1>>, <<0, 1>>), W(1, <<0, 1>>, <<1, 2>>), W(1, <<1, 2>>, <<0, 1>>),
     W(1, <<1, 2>>, <<2, 3>>),
     W(1, <<0, 1>>, <<0, 2>>), W(1, <<1, 2>>, <<1, 3>>),
     W(1, <<0, 2>>, <<1, 2>>),
     W(1, <<0, 1>>, <<0, 3>>), W(1, <<0, 2>>, <<1, 3>>), W(1, <<0, 2>>, <<0, 3>>),
     W(2, <<0, 1>>, <<0, 1>>), W(2, <<0, 1>>, <<0, 2>>)}

=============================================================================
