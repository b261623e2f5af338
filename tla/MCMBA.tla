------------------------------- MODULE MCMBA -------------------------------
(***************************************************************************)
(* Pipelines of mba-add and mba-sub on functions of two blocks:            *)
(*                                                                         *)
(*   b1: s = ..; m = ..; hand out m; goto b2    b2: r = s +/- m; return r  *)
(*                                                                         *)
(* where s adds or subtracts the parameters or constants, m combines s     *)
(* with a parameter, a constant or itself, or adds vectors, and the type   *)
(* is the one mba-add looks for or a wider one.                            *)
(***************************************************************************)
EXTENDS MBA, Execution

CONSTANTS b1, b2, p, q, s, m, call, jump, r, ret

Instr(kind, bits, left, right, nsw) ==
  [kind |-> kind, bits |-> bits, integer |-> TRUE, ops |-> <<left, right>>, nsw |-> nsw]
Other(kind, ops) == [kind |-> kind, bits |-> 1, integer |-> TRUE, ops |-> ops, nsw |-> FALSE]

Entire(first, second, third) ==
  [layout |-> <<b1, b2>>, params |-> {p, q},
   code |-> b1 :> <<s, m, call, jump>> @@ b2 :> <<r, ret>>,
   inst |-> s :> first @@ m :> second @@ r :> third
            @@ call :> Other("call", <<m>>) @@ jump :> Other("br", <<b2>>)
            @@ ret :> Other("ret", <<r>>)]

\* The operands of s: two parameters, one and -1, or constants.
Operands(bits) ==
  {<<p, q>>, <<p, Const(2^bits - 1)>>, <<Const(3), q>>, <<Const(3), Const(255)>>}

First(bits) ==
  {Instr(kind, bits, ops[1], ops[2], kind = "add") : kind \in {"add", "sub"}, ops \in Operands(bits)}

Second(bits) ==
  {Instr("add", bits, s, q, FALSE), Instr("sub", bits, q, s, TRUE), Instr("sub", bits, s, s, FALSE),
   [Instr("add", bits, s, Const(1), FALSE) EXCEPT !.integer = FALSE]}

Third(bits) == {Instr("add", bits, s, m, FALSE), Instr("sub", bits, m, s, FALSE)}

MCPrograms ==
  UNION {{Entire(f, g, h) : f \in First(bits), g \in Second(bits), h \in Third(bits)} :
           bits \in {8, 16}}

MCOpcodes == ArithKinds \cup {"call", "br", "ret"}

MCPipelines == {<<"sub", "add">>, <<"add", "sub">>, <<"add", "add">>}
-----------------------------------------------------------------------------
\* Pairs of arguments: carries over all bits, over some and none, the sign.
Arguments == {<<0, 0>>, <<1, 255>>, <<127, 1>>, <<128, 128>>, <<170, 85>>, <<100, 27>>}

Runs(c, i) ==
  [a \in Arguments |->
     Execute([consts |-> Consts, code |-> c, inst |-> i], b1, 1, p :> a[1] @@ q :> a[2], <<>>, 1)]

\* What is defined stays what it is; what is undefined may become anything.
Refines(new, old) ==
  /\ DOMAIN new.out = DOMAIN old.out
  /\ \A k \in DOMAIN old.out : old.out[k] \in {Poison, new.out[k]}
  /\ old.ret[1] \in {Poison, new.ret[1]}

\* After every block of every pass, the function hands out and returns what it
\* did at first, unless that overflowed where it must not.
SameValues ==
  pc = "blocks" => \A a \in Arguments : Refines(Runs(code, inst)[a], Runs(prog.code, prog.inst)[a])
=============================================================================
