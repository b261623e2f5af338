----------------------------- MODULE Behaviour -----------------------------
(***************************************************************************)
(* What a module does when one of its functions is called, as LLVM's       *)
(* language defines it: the effects in their order, and the value          *)
(* returned.  A value is a term: an argument, a constant, or an operation  *)
(* applied to terms.  Both sides of a branch are taken, and recorded as an *)
(* effect.  A program is a record of the form of Inline's Programs.        *)
(*                                                                         *)
(* For TLC only: a recursive definition, defined when no function reaches  *)
(* a call of itself and no branch leads back.                              *)
(***************************************************************************)
EXTENDS Naturals, Sequences, SequencesExt, TLC

Term(op, args) == [op |-> op, args |-> args]

\* What o does after the effect e.
After(e, o) == [effects |-> <<e>> \o o.effects, value |-> o.value]

\* What is known of the operand v: env maps the parameters and the
\* instructions already executed to their terms.
Value(env, v) == IF v \in DOMAIN env THEN env[v] ELSE v

\* Outcomes of executing function f of program p from instruction i of
\* block b on.  The effects of a call of f's own module are the callee's; a
\* declaration's are unknown and its result is a term.
RECURSIVE Outcomes(_, _, _, _)
Outcomes(p, b, i, env) ==
  LET n == p.code[b][i]
      ops == p.inst[n].ops
      args == [k \in DOMAIN ops |-> Value(env, ops[k])]
      kind == p.inst[n].kind
      then(value) == Outcomes(p, b, i + 1, (n :> value) @@ env)
  IN  CASE kind = "ret" ->
             {[effects |-> <<>>, value |-> IF args = <<>> THEN "void" ELSE args[1]]}
        [] kind = "br" ->
             UNION {{After(Term("br", <<args[1], ops[k]>>), o) : o \in Outcomes(p, ops[k], 1, env)} :
                     k \in 2..Len(ops)}
        [] kind = "call" /\ Last(ops) \in DOMAIN p.layout ->
             LET called == Last(ops)
                 callee == [v \in Range(p.params[called]) |->
                              args[CHOOSE k \in DOMAIN p.params[called] : p.params[called][k] = v]]
             IN  UNION {{[o EXCEPT !.effects = c.effects \o @] : o \in then(c.value)} :
                          c \in Outcomes(p, p.layout[called][1], 1, callee)}
        [] kind \in {"call", "effect"} ->
             {After(Term(p.inst[n].op, args), o) : o \in then(Term(p.inst[n].op, args))}
        [] OTHER -> then(Term(p.inst[n].op, args))

\* All that a call of f can do.
Behaviours(p, f) == Outcomes(p, p.layout[f][1], 1, [v \in Range(p.params[f]) |-> v])
=============================================================================
