----------------------------- MODULE MCMergeBB -----------------------------
(***************************************************************************)
(* Functions of an entry block, three blocks that may be duplicates of     *)
(* each other, and a join.  The shapes are the CFGs the pass is made for   *)
(* and those it has to leave alone; the bodies of the three blocks and the *)
(* PHI of the join are all combinations.                                   *)
(***************************************************************************)
EXTENDS MergeBB, TLC

CONSTANTS e, x1, x2, x3, s

MCBlocks == {e, x1, x2, x3, s}
MCLayout == <<e, x1, x2, x3, s>>

\* The argument that conditions branch on, and two more values.
Arg == <<Outside, 1>>
Ten == <<Outside, 2>>
Twenty == <<Outside, 3>>

Br(t) == [kind |-> "br", cond |-> Arg, tgts |-> <<t>>]
CondBr(t1, t2) == [kind |-> "br", cond |-> Arg, tgts |-> <<t1, t2>>]
Switch(ts) == [kind |-> "switch", cond |-> Arg, tgts |-> ts]
IndirectBr(ts) == [kind |-> "indirectbr", cond |-> Arg, tgts |-> ts]
Ret == [kind |-> "ret", cond |-> Arg, tgts |-> <<>>]
Term(te, t1, t2, t3, ts) == e :> te @@ x1 :> t1 @@ x2 :> t2 @@ x3 :> t3 @@ s :> ts

Inst(op, opnds) == [op |-> op, flags |-> {}, opnds |-> opnds, from |-> <<>>, dbg |-> FALSE]
Fast(op, opnds) == [Inst(op, opnds) EXCEPT !.flags = {"nnan"}]
Dbg == [Inst("dbg", <<>>) EXCEPT !.dbg = TRUE]
Phi(opnds, from) == [Inst("phi", opnds) EXCEPT !.from = from]

\* The bodies of block b: empty; one or two calls, behind or before a debug
\* intrinsic; a call with a flag; a call whose result is stored by b itself.
Bodies(b) ==
  { <<>>,
    <<Inst("call", <<Ten>>)>>,
    <<Fast("call", <<Ten>>)>>,
    <<Inst("call", <<Twenty>>), Dbg>>,
    <<Dbg, Inst("call", <<Ten>>), Inst("call", <<Ten>>)>>,
    <<Inst("call", <<Ten>>), Inst("store", << <<b, 1>>, Arg>>)>> }

\* Three ways into the join; a switch with two cases for one block; sides of
\* different length; blocks that branch to each other; a loop; an indirect
\* branch; an entry block that is a predecessor of the join; a block that
\* dominates the join and one that loops back to it.
Shapes ==
  { Term(Switch(<<x1, x2, x3>>), Br(s), Br(s), Br(s), Ret),
    Term(Switch(<<x1, x1, x2>>), Br(s), Br(s), Br(x2), Ret),
    Term(CondBr(x1, x2), Br(s), Br(x3), Br(s), Ret),
    Term(CondBr(x1, x2), Br(x1), Br(x1), Br(s), Ret),
    Term(Br(x1), CondBr(x2, x3), Br(s), Br(s), CondBr(x1, s)),
    Term(IndirectBr(<<x1, x2>>), Br(s), Br(s), Br(s), Ret),
    Term(Br(s), Br(s), Br(s), CondBr(s, x1), Ret),
    Term(CondBr(x1, x2), Br(x2), Br(x2), Br(s), Ret),
    Term(Br(x1), Br(s), Br(s), Ret, CondBr(x2, x3)) }

\* The value the join's PHI takes from b, whose body is c.
Incoming(b, c) ==
  {Ten} \cup {<<b, n>> : n \in {m \in DOMAIN c : c[m].op = "call"}}

\* The instructions of the join: none; a PHI and its use; a use of what x1
\* computes where x1 dominates the join.
PredSeq(t) ==
  SelectSeq(MCLayout, LAMBDA b : s \in {t[b].tgts[i] : i \in DOMAIN t[b].tgts})

JoinBodies(t, bodies) ==
  LET ps == PredSeq(t)
      values(i) == Incoming(ps[i], bodies[ps[i]])
      tuples == CASE Len(ps) = 1 -> {<<v>> : v \in values(1)}
                  [] Len(ps) = 2 -> values(1) \X values(2)
                  [] Len(ps) = 3 -> values(1) \X values(2) \X values(3)
                  [] Len(ps) = 4 ->
                       values(1) \X values(2) \X values(3) \X values(4)
  IN  {<<>>}
      \cup {<<Phi(v, ps), Inst("store", << <<s, 1>>, Arg>>)>> :
              v \in tuples}
      \cup {<<Inst("store", << <<x1, 1>>, Arg>>)>> :
              k \in {1} \cap {n \in DOMAIN bodies[x1] :
                                /\ t[s].tgts = <<x2, x3>>
                                /\ bodies[x1][n].op = "call"}}

MCPrograms ==
  UNION {
    {[term |-> t, code |-> [bodies EXCEPT ![s] = join]] :
       join \in JoinBodies(t, bodies)} :
    <<t, bodies>> \in Shapes \X
      {e :> <<>> @@ x1 :> c[1] @@ x2 :> c[2] @@ x3 :> c[3] @@ s :> <<>> :
         c \in Bodies(x1) \X Bodies(x2) \X Bodies(x3)} }

\* What the theorems on PHIs assume of functions.
ASSUME PhisAssumption == TwinsWithoutPhis

\* Blocks that differ in flags only are in some of the functions.
ASSUME FlagsAssumption == (\E p \in Programs : TwinsAgree(p)) /\ (\E p \in Programs : ~TwinsAgree(p))
=============================================================================
