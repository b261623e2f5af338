---------------------------- MODULE MCCallPasses ----------------------------
(***************************************************************************)
(* A module with main, one more function and printf.  Programs: main calls *)
(* f twice, once by an invoke, and f nobody; f calls itself and main calls *)
(* it through a pointer; nobody calls f.  The program has one or two       *)
(* threads.                                                                *)
(***************************************************************************)
EXTENDS CallPasses

CONSTANTS f, t1, t2

OneOrTwoThreads == {{t1}, {t1, t2}}
MCOrder == <<f, Printf, Main>>

Own(op, callee) == Inst(op, callee, "source")
Ret == Own("ret", NoCallee)

MCPrograms ==
  { [F \in Defined |-> IF F = f THEN <<Own("add", NoCallee), Ret>>
                       ELSE <<Own("call", Printf), Own("call", f), Own("invoke", f), Ret>>],
    [F \in Defined |-> IF F = f THEN <<Own("call", f), Ret>>
                       ELSE <<Own("load", NoCallee), Own("call", Pointer), Ret>>],
    [F \in Defined |-> <<Own("call", Printf), Ret>>],
    [F \in Defined |-> IF F = f THEN <<Ret>> ELSE <<Own("invoke", f), Ret>>] }

MCPipelines ==
  { <<"dynamic-cc">>,
    <<"inject-func-call", "dynamic-cc">>,
    <<"static-cc", "opcode-counter", "dynamic-cc">>,
    <<"dynamic-cc", "inject-func-call", "opcode-counter", "static-cc">>,
    <<"inject-func-call", "static-cc", "dynamic-cc", "inject-func-call", "dynamic-cc">>,
    <<"dynamic-cc", "dynamic-cc", "static-cc", "opcode-counter", "inject-func-call">> }
=============================================================================
