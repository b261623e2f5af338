-------------------------- MODULE VectorExecution --------------------------
(***************************************************************************)
(* What a function returns that reads an array and computes with vectors.  *)
(* A value is the sequence of its lanes, an address the number of an       *)
(* element of the array.  The form of a function is that of LoopVec's      *)
(* Programs.                                                               *)
(*                                                                         *)
(* For TLC only: recursive, with a bound on the branches taken.            *)
(***************************************************************************)
EXTENDS MachineInts, Sequences, TLC

Related(pred, m, n) ==
  CASE pred = "slt" -> m < n
    [] pred = "sle" -> m <= n
    [] pred = "ne"  -> m # n

Undefined == <<>>
Running == << -1 >>

\* Execution of p from instruction i of block b on.  env holds the values of
\* instructions and the contents of variables.  It ends with the value that
\* is returned, with Undefined when something is read that was not written or
\* is not in the array, and with Running when the bound is reached.
RECURSIVE Run(_, _, _, _, _, _)
Run(p, b, i, array, env, branches) ==
  LET n == p.code[b][i]
      ops == p.inst[n].ops
      kind == p.inst[n].kind
      lanes == 1..p.inst[n].lanes
      isElement == kind = "load" /\ p.inst[ops[1]].kind # "alloca"
      missing(v) == v \notin p.consts /\ v \notin p.places /\ v \notin DOMAIN env
      reads == IF kind = "store" THEN {1} ELSE DOMAIN ops
      value(v) == IF v \in p.consts THEN [k \in lanes |-> v[2]] ELSE env[v]
      int(v) == value(v)[1]
      then(v, x) == Run(p, b, i + 1, array, (v :> x) @@ env, branches)
      goto(t) == IF branches = 0 THEN Running ELSE Run(p, t, 1, array, env, branches - 1)
  IN  IF (\E k \in reads : missing(ops[k])) \/ (isElement /\ int(ops[1]) + p.inst[n].lanes > Len(array))
      THEN Undefined
      ELSE CASE kind = "alloca"  -> Run(p, b, i + 1, array, env, branches)
             [] kind = "store"   -> then(ops[2], value(ops[1]))
             [] kind = "load"    -> then(n, IF isElement THEN [k \in lanes |-> array[int(ops[1]) + k]]
                                            ELSE value(ops[1]))
             [] kind = "gep"     -> then(n, value(ops[2]))
             [] kind = "bitcast" -> then(n, value(ops[1]))
             [] kind = "add"     ->
                  then(n, [k \in lanes |-> Arith("add", p.bits, value(ops[1])[k], value(ops[2])[k])])
             [] kind = "extract" -> then(n, << value(ops[1])[int(ops[2]) + 1] >>)
             [] kind = "icmp"    ->
                  then(n, IF Related(p.inst[n].pred, Signed(p.bits, int(ops[1])), Signed(p.bits, int(ops[2])))
                          THEN <<1>> ELSE <<0>>)
             [] kind = "br"      -> goto(IF Len(ops) = 1 THEN ops[1] ELSE IF int(ops[1]) = 1 THEN ops[3] ELSE ops[2])
             [] kind = "ret"     -> value(ops[1])
=============================================================================
