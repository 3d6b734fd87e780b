---------------------------- MODULE MCKernelPipeline ----------------------------
(***************************************************************************)
(* Suites of kernels for KernelPipeline: scalar kernels, loads and stores  *)
(* that fit the calling convention and declarations that do not.           *)
(***************************************************************************)
EXTENDS KernelPipeline

Word(name, bits) == [name |-> name, type |-> "int", bits |-> bits]
Pointer == [name |-> "p", type |-> "ptr", bits |-> 64]
Kern(id, inputs, outputs, accesses, expected) ==
    [id |-> id, inputs |-> inputs, outputs |-> outputs,
     objects |-> IF accesses = <<>> THEN <<>> ELSE <<[name |-> "slot", base |-> "p"]>>,
     accesses |-> accesses, expected |-> expected]
Acc(kind, value, bits, index, scale) ==
    [kind |-> kind, object |-> "slot", value |-> value, bits |-> bits, base |-> "p", index |-> index,
     scale |-> scale, disp |-> 0]

Add == Kern("add", <<Word("a", 32), Word("b", 32)>>, <<Word("r", 32)>>, <<>>, "rule_emitted")
Narrow == Kern("narrow", <<Word("a", 16)>>, <<Word("r", 32)>>, <<>>, "unsupported")
Load == Kern("load", <<Pointer, Word("i", 64)>>, <<Word("v", 32)>>, <<Acc("load", "v", 32, "i", 4)>>, "rule_emitted")
Store == Kern("store", <<Pointer, Word("v", 32)>>, <<>>, <<Acc("store", "v", 32, "none", 1)>>, "rule_emitted")
Two == [Store EXCEPT !.id = "two", !.accesses = @ \o @, !.expected = "unsupported"]

\* Declarations that are refused, one reason each.
Refused ==
    <<[Store EXCEPT !.id = "object", !.accesses[1].object = "other"],
      [Store EXCEPT !.id = "base", !.accesses[1].base = "v"],
      [Store EXCEPT !.id = "pointer", !.inputs = <<Word("p", 64), Word("v", 32)>>],
      [Store EXCEPT !.id = "value", !.accesses[1].value = "w"],
      [Load EXCEPT !.id = "index", !.inputs = <<Pointer, Word("i", 32)>>],
      [Load EXCEPT !.id = "index2", !.inputs = <<Pointer>>],
      [Load EXCEPT !.id = "result", !.outputs = <<>>],
      Kern("many", [i \in 1..5 |-> Word("a", 32)], <<>>, <<>>, "error"),
      Kern("wide", <<>>, <<Word("r", 8)>>, <<>>, "unsupported"),
      [Store EXCEPT !.id = "none", !.objects = <<>>], [Store EXCEPT !.id = "baseless", !.objects[1].base = "x"]>>

Insn(dropped, operands) == [dropped |-> dropped, operands |-> operands]
Made(instructions) == [compiles |-> TRUE, defines |-> TRUE, instructions |-> instructions]
Ret == Insn(TRUE, <<>>)
Plain == Made(<<Insn(FALSE, <<>>), Ret>>)
Access(kind, width) == Made(<<Insn(FALSE, <<[kind |-> kind, width |-> width]>>), Ret>>)
Both(made) == [side \in Side |-> made]

MCCompilations ==
    {Both(Plain), Both(Access("write", 4)), Both(Access("read", 4)), Both(Made(<<Ret>>)),
     [guest |-> Plain, host |-> [Plain EXCEPT !.defines = FALSE]],
     [guest |-> Plain, host |-> [Plain EXCEPT !.compiles = FALSE]],
     [guest |-> Access("write", 4), host |-> Access("write", 8)]}

MCKernels == <<Add, Load>> \o Refused \o <<Narrow, Two, Store>>
MCStatuses == {"pass", "fail", "unsupported"}
=============================================================================
