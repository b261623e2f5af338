----------------------------- MODULE MCInline ------------------------------
(***************************************************************************)
(* SsInline on modules with four functions besides main: f works on its    *)
(* parameters; g calls f, with the arguments swapped; v has an effect and  *)
(* returns nothing.  main calls two of them, or a pointer, before and      *)
(* after a branch, and uses the results or ignores them: all combinations. *)
(***************************************************************************)
EXTENDS Inline, Behaviour

CONSTANTS main, f, g, v, one,           \* functions
          ptr,                          \* main's parameter, a function pointer
          x, y, fx, fy, gx, gy, vx,     \* parameters
          c1, c2,                       \* constants
          bm, bt, be, bf, bg, bv, b1,   \* blocks
          f1, f2, f3, g1, g2, g3, v1, v2, o1,
          m1, k1, u1, mb, k2, u2, mt, e1, me

MCFunctions == {main, f, g, v, one}

Instr(op, kind, ops) == [op |-> op, kind |-> kind, ops |-> ops]
Pure(op, ops) == Instr(op, "op", ops)
Effect(op, ops) == Instr(op, "effect", ops)
Call(callee, args) == Instr("call", "call", args \o <<callee>>)
Ret(ops) == Instr("ret", "ret", ops)

Layout == main :> <<bm, bt, be>> @@ f :> <<bf>> @@ g :> <<bg>> @@ v :> <<bv>> @@ one :> <<b1>>
Parameters ==
  main :> <<x, ptr>> @@ f :> <<fx, fy>> @@ g :> <<gx, gy>> @@ v :> <<vx>> @@ one :> <<>>
Code ==
  bm :> <<m1, k1, u1, mb>> @@ bt :> <<k2, u2, mt>> @@ be :> <<e1, me>>
    @@ bf :> <<f1, f2, f3>> @@ bg :> <<g1, g2, g3>> @@ bv :> <<v1, v2>> @@ b1 :> <<o1>>

Callees ==
  f1 :> Effect("store", <<fy, fx>>) @@ f2 :> Pure("mul", <<fx, c2>>) @@ f3 :> Ret(<<f2>>)
    @@ g1 :> Call(f, <<gy, gx>>) @@ g2 :> Pure("sub", <<gy, g1>>) @@ g3 :> Ret(<<g2>>)
    @@ v1 :> Effect("print", <<vx, c1>>) @@ v2 :> Ret(<<>>)
    @@ o1 :> Ret(<<c1>>)

\* How main uses the result of a call, and another value.
UseOf(kind, result, other) ==
  CASE kind = "none"   -> Effect("store", <<other, c1>>)
    [] kind = "first"  -> Effect("store", <<result, other>>)
    [] kind = "last"   -> Pure("add", <<other, result>>)

CallOf(callee, a1, a2) ==
  Call(callee, CASE callee = v -> <<a2>> [] callee = one -> <<>> [] OTHER -> <<a1, a2>>)

Program(callee1, use1, callee2, use2) ==
  [layout |-> Layout, params |-> Parameters, code |-> Code, consts |-> {c1, c2},
   inst |-> Callees
     @@ m1 :> Pure("add", <<x, c2>>)
     @@ k1 :> CallOf(callee1, m1, x)
     @@ u1 :> UseOf(use1, k1, m1)
     @@ mb :> Instr("br", "br", <<m1, be, bt>>)
     @@ k2 :> CallOf(callee2, c1, m1)
     @@ u2 :> UseOf(use2, k2, x)
     @@ mt :> Ret(<<u2>>)
     @@ e1 :> Effect("print", <<x>>)
     @@ me :> Ret(<<u1>>)]

\* A call of v has no result to use.
Uses1(callee) == IF callee = v THEN {"none"} ELSE {"none", "first", "last"}

MCPrograms ==
  UNION {UNION {{Program(a, u, b, w) : u \in Uses1(a), w \in Uses1(b)} :
                 a \in {f, g, v, ptr}} : b \in {f, g, v, ptr}}

\* A callee that returns a constant.
ConstantPrograms == {Program(one, "first", f, "none")}

ASSUME \A p \in MCPrograms : Inlinable(p)
ASSUME \A p \in ConstantPrograms : ~Inlinable(p)

\* main, as it is now, does what it did: whenever no call is half inlined,
\* the effects of main, their order, their arguments and its result are
\* those of the module the pass was given.
SameBehaviour ==
  pc \in {"search", "done"} =>
    Behaviours([prog EXCEPT !.code = code, !.inst = inst], main) = Behaviours(prog, main)
=============================================================================
