----------------------------- MODULE Execution -----------------------------
(***************************************************************************)
(* What a function computes, as LLVM's language defines it: the values it  *)
(* hands out and the one it returns.  The form of a function is that of    *)
(* SCCP's Programs; nsw marks operations that may not overflow.            *)
(*                                                                         *)
(* For TLC only: recursive, with a bound on the branches taken.            *)
(***************************************************************************)
EXTENDS MachineInts, Sequences, TLC

\* What is read where nothing was written, the result of an operation that
\* overflows although it is marked nsw, and what is computed from either.
Poison == -1

ValueOf(v, env) == IF v \in DOMAIN env THEN env[v] ELSE Poison

\* The operands as numbers: constants are what they hold.
Numbers(consts, ops, env) ==
  [k \in DOMAIN ops |-> IF ops[k] \in consts THEN ops[k][2] ELSE ValueOf(ops[k], env)]

Compare(pred, bits, m, n) ==
  IF pred = "sgt" THEN Signed(bits, m) > Signed(bits, n) ELSE m = n

Computed(i, num) ==
  LET second == num[Len(num)]
  IN  IF \/ \E k \in DOMAIN num : num[k] = Poison
         \/ i.nsw /\ SignedOverflow(i.kind, i.bits, num[1], second)
      THEN Poison ELSE Arith(i.kind, i.bits, num[1], second)

\* Execution of p from instruction i of block b on: env holds the values of
\* instructions and the parameter, and of the variables what they contain;
\* out is what was handed out so far.
RECURSIVE Execute(_, _, _, _, _, _)
Execute(p, b, i, env, out, branches) ==
  LET n == p.code[b][i]
      ops == p.inst[n].ops
      bits == p.inst[n].bits
      num == Numbers(p.consts, ops, env)
      then(e, o) == Execute(p, b, i + 1, e, o, branches)
      goto(t) == IF branches = 0 THEN [out |-> out, ret |-> "running"]
                 ELSE Execute(p, t, 1, env, out, branches - 1)
      kind == p.inst[n].kind
  IN  CASE kind = "alloca" -> then(env, out)
        [] kind = "store"  -> then((ops[2] :> num[1]) @@ env, out)
        [] kind = "load"   -> then((n :> num[1]) @@ env, out)
        [] kind \in ArithKinds -> then((n :> Computed(p.inst[n], num)) @@ env, out)
        [] kind = "icmp"   ->
             then((n :> IF Compare(p.inst[n].pred, bits, num[1], num[2]) THEN 1 ELSE 0) @@ env, out)
        [] kind = "call"   -> then(env, Append(out, num[1]))
        [] kind = "br"     -> goto(IF Len(ops) = 1 THEN ops[1] ELSE IF num[1] = 1 THEN ops[3] ELSE ops[2])
        [] kind = "ret"    -> [out |-> out, ret |-> num]
=============================================================================
