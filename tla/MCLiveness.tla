------------------------------ MODULE MCLiveness ------------------------------
(***************************************************************************)
(* Functions of four instructions over two general families and the flags, *)
(* the address of instruction i being 100 + i.                             *)
(***************************************************************************)
EXTENDS WindowSurface

Fam == {"a", "b", "flags"}

I(kind, numbers, target, reads, writes) ==
    [addr |-> 0, kind |-> kind, numbers |-> numbers, target |-> target,
     reads |-> reads, writes |-> writes, unresolved |-> kind \in {"indirect", "jump"}]

Move     == I("plain", <<>>, 0, {"a"}, {"b"})
MoveBack == I("plain", <<>>, 0, {"b"}, {"a"})
Define   == I("plain", <<1>>, 0, {}, {"a"})
Compare  == I("plain", <<>>, 0, {"a", "b"}, {"flags"})
Add      == I("plain", <<>>, 0, {"a", "b"}, {"b", "flags"})
BCond(t) == I("cond", <<t>>, t, {"flags"}, {})
Jump(t)  == I("jump", <<t>>, t, {}, {})
Ret      == I("ret", <<>>, 0, {}, {})
Call     == I("call", <<104>>, 0, {}, {})
Indirect == I("indirect", <<8>>, 0, {"b"}, {})

\* cbz w0, target: the numerals of "w0, #0x68" are 0 and the target.
Cbz(t)   == I("cond", <<0, t>>, t, {"a"}, {})

First4  == <<Move, Define, Add>>
Second4 == <<Move, Compare, BCond(104), Call, Add>>
Third4  == <<MoveBack, Define, BCond(101), Jump(101), Indirect, Add>>
Fourth4 == <<Ret, BCond(102), Jump(103), Cbz(102)>>

Place(inst, i) == [inst EXCEPT !.addr = 100 + i]
Program(i, j, k, l) ==
    <<Place(First4[i], 1), Place(Second4[j], 2), Place(Third4[k], 3), Place(Fourth4[l], 4)>>

MCCode == [n \in 1..360 |->
    Program(((n - 1) \div 120) + 1, (((n - 1) \div 24) % 5) + 1,
            (((n - 1) \div 4) % 6) + 1, ((n - 1) % 4) + 1)]

\* cbz: branch over a redefinition of a, or not.
CbzCode == <<<<Place(Cbz(103), 1), Place(Ret, 2), Place(MoveBack, 3), Place(Ret, 4)>>,
             <<Place(Add, 1), Place(Cbz(101), 2), Place(Define, 3), Place(Ret, 4)>>>>

=============================================================================
