------------------------------ MODULE LoopVec ------------------------------
(***************************************************************************)
(* SsLoopVec (SsLoopVec/SsLoopVec.cpp): in each loop of foo, from the last *)
(* to the first, the step is multiplied by four, and what the body adds up *)
(* is added up in four lanes of a vector; the lanes are added and stored   *)
(* in the variable behind the loop.                                        *)
(*                                                                         *)
(* An instruction is named by its value; inst[n] holds its kind, its lanes *)
(* (1, or 4 for a vector) and its operands as in SCCP; those of a gep are  *)
(* the array and the index.  What the pass makes for n is <<n, role>>.     *)
(* Integers have the width of int, for which getLimitedValue changes       *)
(* nothing.  NumOfIter and tmpVecStoreSize are left out: nobody uses them. *)
(***************************************************************************)
EXTENDS CFG, Integers, FiniteSets, Sequences, SequencesExt, TLC

CONSTANTS Number,        \* marks the constants among the operands
          Bits,          \* the width of the integers
          Programs       \* the functions to run the pass on

ASSUME BitsAssumption == Bits \in Nat \ {0}

VARIABLES prog,          \* the function as the pass found it
          DT, LI,        \* its dominator tree, and the blocks of its loops
          code,          \* the instructions of each block
          inst,          \* the instructions that exist
          pc,            \* "crash": a null or uninitialised pointer is used
          PreorderLoops, \* the headers of the loops still to do
          L,             \* the header of the current loop
          LoadCast, InstToRemoveVec,
          Changed        \* what the pass returns

function == <<code, inst>>
made == <<LoadCast, InstToRemoveVec>>
analyses == <<DT, LI>>
vars == <<prog, analyses, function, pc, PreorderLoops, L, made, Changed>>
-----------------------------------------------------------------------------
InterleaveFactor == 4
Null == <<Number, -1>>
Const(n) == <<Number, n>>
Consts == {Number} \X (0..(2^Bits - 1))

Kind(n) == inst[n].kind
Ops(n) == inst[n].ops
Instr(kind, lanes, ops) == [kind |-> kind, lanes |-> lanes, ops |-> ops]
Scalar(kind, ops) == Instr(kind, 1, ops)
Vector(kind, ops) == Instr(kind, InterleaveFactor, ops)

Term(b) == Last(code[b])

\* The pass leaves the graph as it is, and with it what LLVM knows of it.
GraphOf(p) ==
  [b \in Blocks |-> IF b \in Range(p.layout) THEN Range(p.inst[Last(p.code[b])].ops) \cap Blocks ELSE {}]
Graph == GraphOf(prog)

AnalysesOf ==
  [graph \in {GraphOf(p) : p \in Programs} |->
     LET dt == DominatorTree(graph)
     IN  [dt |-> dt, li |-> [h \in Blocks |-> LoopBlocks(graph, dt, h)]]]

\* L.getExitBlock(): there is none when more than one edge leaves the loop,
\* to one block or to several.
LEnd(h) ==
  LET exits == UNION {{b} \X (Graph[b] \ LI[h]) : b \in LI[h]}
  IN  IF Cardinality(exits) = 1 THEN (CHOOSE x \in exits : TRUE)[2] ELSE Null

\* The last operand of the header's branch that is another block.
LBody(h) == Last(SelectSeq(Ops(Term(h)), LAMBDA v : v \in Blocks \ {LEnd(h)}))

\* dyn_cast<BasicBlock> of the first operand of the block's branch.
Following(b) == LET v == Ops(Term(b))[1] IN IF v \in Blocks THEN v ELSE Null

LInc(h) == Following(LBody(h))
LCond(h) == Following(LInc(h))
-----------------------------------------------------------------------------
Place(s, n) == CHOOSE i \in DOMAIN s : s[i] = n
InsertAfter(s, n, new) == SubSeq(s, 1, Place(s, n)) \o new \o SubSeq(s, Place(s, n) + 1, Len(s))

\* The first instruction of that kind in block b.
FirstOf(b, kind) ==
  LET found == SelectSeq(code[b], LAMBDA n : Kind(n) = kind)
  IN  IF found = <<>> THEN Null ELSE found[1]

\* The users of n as its use-list has them: the last one of the text first.
UsersOf(n) ==
  LET text == FlattenSeq([i \in DOMAIN prog.layout |-> code[prog.layout[i]]])
  IN  Reverse(SelectSeq(text, LAMBDA u : n \in Range(Ops(u))))

\* Mutant: n is not erased.
ReplaceKeep(n, new, i) ==
  new :> i @@ [m \in DOMAIN inst |->
                 [inst[m] EXCEPT !.ops = [k \in DOMAIN @ |-> IF @[k] = n THEN new ELSE @[k]]]]

\* ReplaceInstWithInst: the users of n use new, and n is erased.
ReplaceInst(n, new, i) ==
  new :> i @@ [m \in DOMAIN inst \ {n} |->
                 [inst[m] EXCEPT !.ops = [k \in DOMAIN @ |-> IF @[k] = n THEN new ELSE @[k]]]]
-----------------------------------------------------------------------------
Init ==
  /\ prog \in Programs
  /\ code = prog.code /\ inst = prog.inst
  /\ DT = AnalysesOf[Graph].dt /\ LI = AnalysesOf[Graph].li
  /\ pc = "start" /\ PreorderLoops = <<>> /\ L = Null
  /\ LoadCast = Null /\ InstToRemoveVec = <<>>
  /\ Changed = FALSE

\* The pass is for functions named foo only.
SkipFunction ==
  /\ pc = "start" /\ prog.name # "foo"
  /\ pc' = "done"
  /\ UNCHANGED <<prog, analyses, function, PreorderLoops, L, made, Changed>>

\* LI.getLoopsInPreorder().
FindLoops ==
  /\ pc = "start" /\ prog.name = "foo"
  /\ PreorderLoops' = SelectSeq(prog.layout, LAMBDA b : LI[b] # {})
  /\ pc' = IF PreorderLoops' = <<>> THEN "crash" ELSE "loop"
  /\ UNCHANGED <<prog, analyses, function, L, made, Changed>>

\* The last loop of the list, if it has the form the pass looks for.
PopLoop ==
  LET h == Last(PreorderLoops)
  IN  /\ pc = "loop" /\ (LInc(h) = Null \/ LCond(h) # Null)
      /\ L' = h
      /\ PreorderLoops' = Front(PreorderLoops)
      /\ pc' = IF LInc(h) = Null THEN "crash" ELSE "inc"
      /\ UNCHANGED <<prog, analyses, function, made, Changed>>

\* It has not: false is returned, whatever was changed in other loops.
GiveUp ==
  LET h == Last(PreorderLoops)
  IN  /\ pc = "loop" /\ LInc(h) # Null /\ LCond(h) = Null
      /\ L' = h
      /\ PreorderLoops' = Front(PreorderLoops)
      /\ pc' = "done"
      /\ UNCHANGED <<prog, analyses, function, made, Changed>>

\* Mutant: the step stays what it is.
ScaledAlike(num) == num

Scaled(num) == (num * InterleaveFactor) % 2^Bits

\* The first add of LInc with a constant gets another step.  The operand that
\* is kept is chosen by i, which counts the operands of all adds so far.
ScaleStep ==
  LET adds == SelectSeq(code[LInc(L)], LAMBDA n : Kind(n) = "add")
      const(n) == {k \in 1..2 : Ops(n)[k] \in Consts}
      with == SelectSeq(adds, LAMBDA n : const(n) # {})
      Inst == with[1]
      at == IF 2 \in const(Inst) THEN 2 ELSE 1
      i == 2 * (Place(adds, Inst) - 1) + at - 1
      opVal == Ops(Inst)[IF i = 1 THEN 1 ELSE 2]
      NewIter == <<Inst, "iter">>
  IN  /\ pc = "inc"
      /\ IF with = <<>> THEN UNCHANGED function
         ELSE /\ inst' = ReplaceInst(Inst, NewIter,
                           Scalar("add", <<opVal, Const(Scaled(Ops(Inst)[at][2]))>>))
              /\ code' = [code EXCEPT ![LInc(L)] =
                            [k \in DOMAIN @ |-> IF @[k] = Inst THEN NewIter ELSE @[k]]]
      /\ pc' = "body"
      /\ UNCHANGED <<prog, analyses, PreorderLoops, L, made, Changed>>

\* What a user of Gep brings in: a bitcast for each operand that is Gep, and
\* in place of a load also a load of a vector.
Casts(gep, user) ==
  IF Kind(user) = "load" THEN << <<user, "bitcast">>, <<user, "LoadCast">> >>
  ELSE [k \in 1..Cardinality({m \in DOMAIN Ops(user) : Ops(user)[m] = gep}) |->
          <<user, k, "bitcast">>]

\* The first gep of the body.  All is inserted right behind it, so that the
\* last user's bitcast comes first.
Widen ==
  LET Gep == FirstOf(LBody(L), "gep")
      users == UsersOf(Gep)
      loads == SelectSeq(users, LAMBDA u : Kind(u) = "load")
      new == FlattenSeq([k \in DOMAIN users |-> Casts(Gep, Reverse(users)[k])])
  IN  /\ pc = "body"
      /\ IF Gep = Null \/ loads = <<>> THEN pc' = "crash" /\ UNCHANGED <<function, LoadCast>>
         ELSE /\ code' = [code EXCEPT ![LBody(L)] = InsertAfter(@, Gep, new)]
              /\ inst' = [n \in Range(new) |->
                            IF Last(n) = "LoadCast" THEN Vector("load", << <<n[1], "bitcast">> >>)
                            ELSE Scalar("bitcast", <<Gep>>)] @@ inst
              /\ LoadCast' = <<Last(loads), "LoadCast">>
              /\ pc' = "sum"
      /\ UNCHANGED <<prog, analyses, PreorderLoops, L, InstToRemoveVec, Changed>>

Tmp == <<L, "AllocaTmp">>

\* The variable for the sums, set to zero at the start of the function, and
\* in the body what adds to it.  What follows in the body is to be erased.
AddTmp ==
  LET sum == << <<L, "LoadAllocaTmp">>, <<L, "VecTmpSum">>, <<L, "StoreTmpBack">> >>
      body == InsertAfter(code[LBody(L)], LoadCast, sum)
  IN  /\ pc = "sum"
      /\ code' = [code EXCEPT ![LBody(L)] = body, ![Entry] = <<Tmp, <<L, "StoreTmp">> >> \o @]
      /\ inst' = (Tmp :> Vector("alloca", <<>>)
                  @@ <<L, "StoreTmp">> :> Vector("store", <<Const(0), Tmp>>)
                  @@ sum[1] :> Vector("load", <<Tmp>>)
                  @@ sum[2] :> Vector("add", <<sum[1], LoadCast>>)
                  @@ sum[3] :> Vector("store", <<sum[2], Tmp>>)) @@ inst
      /\ InstToRemoveVec' = SubSeq(body, Place(body, sum[3]) + 1, Len(body) - 1)
      /\ pc' = "erase"
      /\ UNCHANGED <<prog, analyses, PreorderLoops, L, LoadCast, Changed>>

Erase(n) ==
  /\ code' = [code EXCEPT ![LBody(L)] = Remove(@, n)]
  /\ inst' = [m \in DOMAIN inst \ {n} |-> inst[m]]
  /\ InstToRemoveVec' = Remove(InstToRemoveVec, n)
  /\ UNCHANGED <<prog, analyses, pc, PreorderLoops, L, LoadCast, Changed>>

\* Mutant: the list is worked off from the front.
EraseFirst ==
  /\ pc = "erase" /\ InstToRemoveVec # <<>>
  /\ Erase(Head(InstToRemoveVec))

\* eraseFromParent, from the back of the list.
EraseLast ==
  /\ pc = "erase" /\ InstToRemoveVec # <<>>
  /\ Erase(Last(InstToRemoveVec))

\* The lanes are added and stored where the first load of LEnd loads from.
SumUp ==
  LET LoadFinal == FirstOf(LEnd(L), "load")
      name(role) == <<L, role>>
      new == << <<name("LoadVecTmp"), Vector("load", <<Tmp>>)>>,
                <<name("Extract0"), Scalar("extract", <<name("LoadVecTmp"), Const(0)>>)>>,
                <<name("Extract1"), Scalar("extract", <<name("LoadVecTmp"), Const(1)>>)>>,
                <<name("Sum0"), Scalar("add", <<name("Extract0"), name("Extract1")>>)>>,
                <<name("Extract2"), Scalar("extract", <<name("LoadVecTmp"), Const(2)>>)>>,
                <<name("Extract3"), Scalar("extract", <<name("LoadVecTmp"), Const(3)>>)>>,
                <<name("Sum1"), Scalar("add", <<name("Extract2"), name("Extract3")>>)>>,
                <<name("FinalSum"), Scalar("add", <<name("Sum0"), name("Sum1")>>)>>,
                <<name("StoreFinalBack"), Scalar("store", <<name("FinalSum"), Ops(LoadFinal)[1]>>)>> >>
  IN  /\ pc = "erase" /\ InstToRemoveVec = <<>>
      /\ IF LEnd(L) = Null \/ LoadFinal = Null
         THEN pc' = "crash" /\ UNCHANGED <<function, Changed>>
         ELSE /\ code' = [code EXCEPT ![LEnd(L)] = [k \in DOMAIN new |-> new[k][1]] \o @]
              /\ inst' = [n \in {new[k][1] : k \in DOMAIN new} |->
                            LET k == CHOOSE k \in DOMAIN new : new[k][1] = n IN new[k][2]] @@ inst
              /\ pc' = IF PreorderLoops = <<>> THEN "done" ELSE "loop"
              /\ Changed' = (PreorderLoops = <<>>)
      /\ UNCHANGED <<prog, analyses, PreorderLoops, L, made>>

Next ==
  \/ SkipFunction \/ FindLoops \/ PopLoop \/ GiveUp \/ ScaleStep \/ Widen
  \/ AddTmp \/ EraseLast \/ SumUp

Spec == Init /\ [][Next]_vars
-----------------------------------------------------------------------------
Existing == UNION {Range(code[b]) : b \in DOMAIN code}

TypeOK ==
  /\ pc \in {"start", "loop", "inc", "body", "sum", "erase", "done", "crash"}
  /\ DOMAIN inst = Existing
  /\ \A n \in DOMAIN inst : inst[n].lanes \in {1, InterleaveFactor}
  /\ Range(PreorderLoops) \subseteq Blocks \ {Entry} /\ L \notin Range(PreorderLoops)
  /\ pc \in {"sum", "erase"} => LoadCast \in Range(code[LBody(L)])
  /\ pc = "erase" => IsSuffix(InstToRemoveVec, Front(code[LBody(L)]))
  /\ Changed \in BOOLEAN

\* After every step, an operand is a constant, a parameter, a block or an
\* instruction that exists and dominates its use: no instruction is erased
\* while it is used, the variable of the sums is known wherever it is read.
OperandsDominate ==
  \A b \in Range(prog.layout) : \A i \in DOMAIN code[b] : \A v \in Range(Ops(code[b][i])) :
    \/ v \in Consts \/ v \in prog.params \/ v \in Blocks
    \/ \E j \in 1..(i - 1) : code[b][j] = v
    \/ \E d \in Range(prog.layout) : b \in DT[d] \ {d} /\ v \in Range(code[d])
=============================================================================
