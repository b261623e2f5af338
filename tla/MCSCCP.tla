------------------------------- MODULE MCSCCP -------------------------------
(***************************************************************************)
(* SsSCCP on functions of this form, in all combinations of what the       *)
(* blocks t, x, y, k and j do:                                             *)
(*                                                                         *)
(*   va = 2; vb = ..; vc = 3;                                              *)
(*   if (p > 0) { t } else { s: if (va > vb) .. } j                        *)
(*                                                                         *)
(* where the inner statement is an if with or without else, on either side *)
(* of the branch, or a loop.  The variables are two ints, and one of a     *)
(* wider type.                                                             *)
(***************************************************************************)
EXTENDS SCCP, Execution

CONSTANTS e, t, s, x, y, k, j,        \* blocks
          param,                      \* the parameter of the function
          va, vb, vc,                 \* its variables
          ea, eb, ec, ecmp, ebr, l1, l2, scmp, sbr, jret,
          m1, m2, m3, m4              \* the instructions of a body, by block

MCBlocks == {e, t, s, x, y, k, j}
LongBits == IntBits + 1

Instr(kind, bits, ops) == [kind |-> kind, bits |-> bits, ops |-> ops, nsw |-> FALSE]
Icmp(pred, v, w) == [kind |-> "icmp", bits |-> IntBits, ops |-> <<v, w>>, pred |-> pred]
Br(target) == Instr("br", 1, <<target>>)
CondBr(v, true, false) == Instr("br", 1, <<v, false, true>>)

\* What a block may do: nothing; hand out va; set va and hand it out; add one
\* to vc and hand it out.
Bodies == {"none", "read", "set", "inc"}

BodyCode(d, body) ==
  CASE body = "none" -> <<>>
    [] body = "read" -> << <<m1, d>>, <<m2, d>> >>
    [] body = "set"  -> << <<m1, d>>, <<m2, d>>, <<m3, d>> >>
    [] body = "inc"  -> << <<m1, d>>, <<m2, d>>, <<m3, d>>, <<m4, d>> >>

BodyInst(d, body) ==
  CASE body = "none" -> NoMap
    [] body = "read" -> <<m1, d>> :> Instr("load", IntBits, <<va>>)
                        @@ <<m2, d>> :> Instr("call", IntBits, << <<m1, d>> >>)
    [] body = "set"  -> <<m1, d>> :> Instr("store", IntBits, <<Const(1), va>>)
                        @@ <<m2, d>> :> Instr("load", IntBits, <<va>>)
                        @@ <<m3, d>> :> Instr("call", IntBits, << <<m2, d>> >>)
    [] body = "inc"  -> <<m1, d>> :> Instr("load", LongBits, <<vc>>)
                        @@ <<m2, d>> :> Instr("add", LongBits, << <<m1, d>>, Const(1) >>)
                        @@ <<m3, d>> :> Instr("store", LongBits, << <<m2, d>>, vc >>)
                        @@ <<m4, d>> :> Instr("call", LongBits, << <<m2, d>> >>)

\* The targets of s for true and false, and those of x.
Shapes ==
  [both |-> <<x, y, k>>, then |-> <<x, k, k>>, unless |-> <<k, x, k>>, while |-> <<x, k, s>>]

Bounds == {Const(1), Const(3), Const(2^IntBits - 2), param}

Entire(do, initB, shape, pred) ==
  [layout |-> <<e, t, s, x>> \o (IF shape[2] = y THEN <<y>> ELSE <<>>) \o <<k, j>>,
   params |-> {param}, consts |-> Consts,
   code |->
     e :> <<va, vb, vc, ea, eb, ec, ecmp, ebr>>
     @@ t :> BodyCode(t, do[t]) \o << <<t, ebr>> >>
     @@ s :> <<l1, l2, scmp, sbr>>
     @@ x :> BodyCode(x, do[x]) \o << <<x, ebr>> >>
     @@ y :> (IF shape[2] = y THEN BodyCode(y, do[y]) \o << <<y, ebr>> >> ELSE <<>>)
     @@ k :> BodyCode(k, do[k]) \o << <<k, ebr>> >>
     @@ j :> BodyCode(j, do[j]) \o <<jret>>,
   inst |->
     va :> Instr("alloca", IntBits, <<>>) @@ vb :> Instr("alloca", IntBits, <<>>)
     @@ vc :> Instr("alloca", LongBits, <<>>)
     @@ ea :> Instr("store", IntBits, <<Const(2), va>>)
     @@ eb :> Instr("store", IntBits, <<initB, vb>>)
     @@ ec :> Instr("store", LongBits, <<Const(3), vc>>)
     @@ ecmp :> Icmp("sgt", param, Const(0)) @@ ebr :> CondBr(ecmp, t, s)
     @@ l1 :> Instr("load", IntBits, <<va>>) @@ l2 :> Instr("load", IntBits, <<vb>>)
     @@ scmp :> Icmp(pred, l1, l2) @@ sbr :> CondBr(scmp, shape[1], shape[2])
     @@ jret :> Instr("ret", 1, <<Const(0)>>)
     @@ <<t, ebr>> :> Br(j) @@ <<x, ebr>> :> Br(shape[3]) @@ <<k, ebr>> :> Br(j)
     @@ (IF shape[2] = y THEN <<y, ebr>> :> Br(k) @@ BodyInst(y, do[y]) ELSE NoMap)
     @@ BodyInst(t, do[t]) @@ BodyInst(x, do[x]) @@ BodyInst(k, do[k]) @@ BodyInst(j, do[j])]

\* A variable that is read in a child of the root and not set there is set
\* nowhere but in the entry block.
SetIn(do, d, v) == do[d] = IF v = va THEN "set" ELSE "inc"
Apart(do) == do[j] # "read" \/ \A d \in {t, x, y, k} : ~SetIn(do, d, va)

\* What s compares stays what it was in the entry block.
Constant(do, initB) == initB # param /\ \A d \in {x, y, k} : ~SetIn(do, d, va)

\* A branch of constants compares with sgt, and the successor that is not
\* taken has no other predecessor.
Foldings(do, initB, shape, pred) ==
  Constant(do, initB) =>
    /\ pred = "sgt"
    /\ (IF 2 > Signed(IntBits, initB[2]) THEN shape[2] ELSE shape[1]) # k

Does(shape) ==
  {do \in [{t, x, y, k, j} -> Bodies] :
     /\ do[t] \in {"read", "set"} /\ do[x] # "none" /\ do[k] \in {"none", "read"} /\ do[j] \in {"read", "inc"}
     /\ do[y] \in IF shape = "both" THEN {"read", "inc"} ELSE {"none"}}

MCPrograms ==
  UNION {{Entire(do, initB, Shapes[shape], pred) :
            <<do, initB, pred>> \in
              {w \in Does(shape) \X Bounds \X {"sgt", "eq"} :
                 Apart(w[1]) /\ Foldings(w[1], w[2], Shapes[shape], w[3])}} :
          shape \in DOMAIN Shapes}

\* A store on one side of a branch, and a load behind the branch.
JoinPrograms ==
  {Entire((t :> "set" @@ x :> "read" @@ y :> "read" @@ k :> "none" @@ j :> "read"),
          Const(1), Shapes.both, "sgt")}
-----------------------------------------------------------------------------
Runs(p) == [n \in {0, 1, 2} |-> Execute(p, Entry, 1, param :> n, <<>>, 12)]

\* The function does what it did, whenever no step is half done: it hands out
\* the same values and returns the same, for every argument.
SameBehaviour ==
  pc \in {"child", "fold", "emplace", "done"} /\ next = 1 =>
    Runs([prog EXCEPT !.code = code, !.inst = inst]) = Runs(prog)
=============================================================================
