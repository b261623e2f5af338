------------------------------ MODULE MergeBB ------------------------------
(***************************************************************************)
(* MergeBB (lib/MergeBB.cpp): a block whose instructions, successor and    *)
(* PHI value are those of another block is deleted, and its incoming edges *)
(* are sent to the other one.  One action per call of                      *)
(* mergeDuplicatedBlock, one per block deleted at the end of the pass.     *)
(*                                                                         *)
(* An instruction is a record: op is its opcode, its types and what else   *)
(* makes it another operation (a predicate, an attribute of a call); flags *)
(* are those under which its result may be poison (nsw, nuw, exact,        *)
(* inbounds, fast-math); opnds its operands; from the incoming blocks of a *)
(* PHI; dbg marks a debug intrinsic.  A value is <<b, n>>, the n-th         *)
(* instruction of block b, or <<Outside, n>>: a constant, argument or      *)
(* global, <<Outside, 0>> being what a use of an erased value becomes.  A  *)
(* terminator holds its kind, its condition and its targets in the order   *)
(* of its operands.                                                        *)
(***************************************************************************)
EXTENDS Sequences, Naturals, FiniteSets, Selection

CONSTANTS Blocks, Entry, Outside,
          Layout,       \* the blocks of the function, in the order of the loop
          Programs      \* the functions to run the pass on

ASSUME BlocksAssumption ==
  /\ IsFiniteSet(Blocks) /\ Entry \in Blocks /\ Outside \notin Blocks
  /\ Layout \in Seq(Blocks)

Values == (Blocks \cup {Outside}) \X Nat

\* Nothing branches to the entry block.
Terminators ==
  [kind : {"br", "switch", "indirectbr", "invoke", "ret"}, cond : Values,
   tgts : Seq(Blocks \ {Entry})]

IsPhi(inst) == inst.op = "phi"

\* A PHI has an incoming block for each of its operands.
Instructions ==
  {inst \in [op : STRING, flags : SUBSET STRING, opnds : Seq(Values),
             from : Seq(Blocks), dbg : BOOLEAN] :
     IsPhi(inst) => ~inst.dbg /\ Len(inst.from) = Len(inst.opnds)}

\* v comes from outside the function or from an instruction of c.
Defined(v, c) ==
  v[1] \in Blocks => v[2] \in DOMAIN c[v[1]] /\ ~c[v[1]][v[2]].dbg

\* Block b of p ends in a branch without a condition.
Joins(p, b) == p.term[b].kind = "br" /\ Len(p.term[b].tgts) = 1

\* The PHI inst of block b has an entry for each edge to b.
EntryPerEdge(p, b, inst) ==
  \A x \in Blocks :
    Cardinality({i \in DOMAIN inst.from : inst.from[i] = x})
      = Cardinality({i \in DOMAIN p.term[x].tgts : p.term[x].tgts[i] = b})

\* A function is its terminators and the instructions before them.  What is
\* used is defined; debug intrinsics use metadata only, a branch to one block
\* no value.  PHIs come first.
ASSUME ProgramAssumption ==
  \A p \in Programs :
    /\ p.term \in [Blocks -> Terminators]
    /\ p.code \in [Blocks -> Seq(Instructions)]
    /\ \A b \in Blocks :
         /\ Defined(p.term[b].cond, p.code)
         /\ Joins(p, b) => p.term[b].cond[1] = Outside
         /\ \A n \in DOMAIN p.code[b] :
              LET inst == p.code[b][n]
              IN  /\ \A i \in DOMAIN inst.opnds :
                       /\ inst.opnds[i] # <<Outside, 0>>
                       /\ Defined(inst.opnds[i], p.code)
                  /\ inst.dbg => inst.opnds = <<>>
                  /\ IsPhi(inst) => /\ EntryPerEdge(p, b, inst)
                                    /\ \A m \in 1..n : IsPhi(p.code[b][m])

VARIABLES prog,         \* the function as the pass found it
          term,         \* terminators
          code,         \* instructions
          next,         \* position in Layout of the next block to visit
          DeleteList,
          erased,       \* the blocks DeleteDeadBlock has removed
          assertFailed, \* an assert(Updated) of replaceBB did not hold
          into          \* history: the block that now stands for each block

vars == <<prog, term, code, next, DeleteList, erased, assertFailed, into>>
-----------------------------------------------------------------------------
Undef == <<Outside, 0>>
Live == Blocks \ erased
Edges(p, b) == {i \in DOMAIN term[p].tgts : term[p].tgts[i] = b}
Preds(b) == {p \in Live : Edges(p, b) # {}}
Unconditional(b) == term[b].kind = "br" /\ Len(term[b].tgts) = 1
Succ(b) == term[b].tgts[1]

HeadIsPhi(c) == c # <<>> /\ IsPhi(c[1])
HasPhi(b) == HeadIsPhi(code[b])
ManyPhis(b) == HasPhi(b) /\ Len(code[b]) > 1 /\ IsPhi(code[b][2])

\* PHINode::getIncomingValueForBlock: the first entry for b.
IsFirst(from, b, i) ==
  from[i] = b /\ \A j \in DOMAIN from : from[j] = b => i <= j
First(from, b) == CHOOSE i \in DOMAIN from : IsFirst(from, b, i)
IncomingValue(phi, b) == phi.opnds[First(phi.from, b)]

\* The uses of v: operand slots of instructions, and conditions (slot 0).
Uses(v) ==
  (UNION {UNION {{<<b, n, i>> : i \in {j \in DOMAIN code[b][n].opnds :
                                         code[b][n].opnds[j] = v}} :
                 n \in DOMAIN code[b]} : b \in Live})
  \cup {<<b, 0, 0>> : b \in {x \in Live : term[x].cond = v}}

\* v has one use, and disappears or is replaced by the twin of v with it.
CanRemoveInst(v) ==
  \E u \in Uses(v) :
    \/ u[1] = v[1]
    \/ /\ u[1] = Succ(v[1]) /\ u[2] > 0
       /\ IsPhi(code[u[1]][u[2]])
       /\ IncomingValue(code[u[1]][u[2]], v[1]) = v

\* isSameOperationAs does not ask whether the flags are the same.
SameOperation(i1, i2) == i1.op = i2.op /\ Len(i1.opnds) = Len(i2.opnds)

\* Mutant: the operands are not compared.
CanMergeAnyOperands(v1, v2) ==
  /\ SameOperation(code[v1[1]][v1[2]], code[v2[1]][v2[2]])
  /\ \/ Uses(v1) = {} /\ Uses(v2) = {}
     \/ /\ Cardinality(Uses(v1)) = 1 /\ Cardinality(Uses(v2)) = 1
        /\ CanRemoveInst(v1) /\ CanRemoveInst(v2)

\* Mutant: nobody asks where the values are used.
CanMergeAnyUse(v1, v2) ==
  /\ SameOperation(code[v1[1]][v1[2]], code[v2[1]][v2[2]])
  /\ code[v1[1]][v1[2]].opnds = code[v2[1]][v2[2]].opnds

\* Two instructions, given as the values they define.  A PHI is compared like
\* any other instruction: its incoming blocks are not operands.
CanMergeInstructions(v1, v2) ==
  LET i1 == code[v1[1]][v1[2]]
      i2 == code[v2[1]][v2[2]]
  IN  /\ SameOperation(i1, i2)
      /\ \/ Uses(v1) = {} /\ Uses(v2) = {}
         \/ /\ Cardinality(Uses(v1)) = 1 /\ Cardinality(Uses(v2)) = 1
            /\ CanRemoveInst(v1) /\ CanRemoveInst(v2)
      /\ i1.opnds = i2.opnds

\* The positions of the instructions of c that are not debug intrinsics.
NonDbg(c) == Ascending({n \in DOMAIN c : ~c[n].dbg})

\* LockstepReverseIterator pairs the instructions of two blocks, debug
\* intrinsics left out; the walk backwards ends at the first mismatch.
Identical(b, c) ==
  LET nb == NonDbg(code[b])
      nc == NonDbg(code[c])
  IN  /\ Len(nb) = Len(nc)
      /\ \A k \in 1..Len(nb) : CanMergeInstructions(<<b, nb[k]>>, <<c, nc[k]>>)

\* "incoming values to the PHI node at the successor are same values or both
\* defined in the BBs to merge"
SimilarIncoming(b1, b2) ==
  HasPhi(Succ(b1)) =>
    LET v1 == IncomingValue(code[Succ(b1)][1], b1)
        v2 == IncomingValue(code[Succ(b1)][1], b2)
    IN  v1 = v2 \/ (v1[1] = b1 /\ v2[1] = b2)

\* Mutant: the entry block may be merged into another.
MayEraseEntry(b) ==
  /\ Unconditional(b)
  /\ \A p \in Preds(b) : term[p].kind \in {"br", "switch"}
  /\ ~ManyPhis(Succ(b))

\* Mutant: more than one PHI in the successor does not matter.
MayErasePhis(b) ==
  /\ b # Entry
  /\ Unconditional(b)
  /\ \A p \in Preds(b) : term[p].kind \in {"br", "switch"}

\* What is asked of the block to delete alone.
MayErase(b) ==
  /\ b # Entry
  /\ Unconditional(b)
  /\ \A p \in Preds(b) : term[p].kind \in {"br", "switch"}
  /\ ~ManyPhis(Succ(b))

\* Mutant: a block marked for deletion is not skipped.
CandidatesMarked(b) ==
  {c \in IF MayErase(b) THEN Preds(Succ(b)) ELSE {} :
     /\ c # Entry /\ Unconditional(c) /\ c # b
     /\ SimilarIncoming(b, c)
     /\ Identical(b, c)}

\* The blocks b can be merged into.  The loop takes the first of them in the
\* order of the use-list of the successor, which is not a property of the
\* program: any of them.
Candidates(b) ==
  {c \in IF MayErase(b) THEN Preds(Succ(b)) ELSE {} :
     /\ c # Entry /\ Unconditional(c)
     /\ c \notin DeleteList
     /\ c # b
     /\ SimilarIncoming(b, c)
     /\ Identical(b, c)}

\* Mutant: only the first target of each predecessor is replaced.
ReplaceFirst(b, c) ==
  /\ term' = [p \in Blocks |->
                [term[p] EXCEPT !.tgts =
                   [i \in DOMAIN @ |->
                      IF @[i] = b /\ \A j \in 1..(i - 1) : @[j] # b
                      THEN c ELSE @[i]]]]
  /\ UNCHANGED assertFailed

\* replaceBB: every target b of a predecessor becomes c.  predecessors(b)
\* names a block once per edge; the second time none of its targets is b, and
\* assert(Updated) fails.  The walk goes on in a build without assertions.
ReplaceBB(b, c) ==
  /\ term' = [p \in Blocks |->
                [term[p] EXCEPT !.tgts =
                   [i \in DOMAIN @ |-> IF @[i] = b THEN c ELSE @[i]]]]
  /\ assertFailed' =
       (assertFailed \/ \E p \in Preds(b) : Cardinality(Edges(p, b)) > 1)

\* Mutant: the block is erased without telling its successor.
KeepIncoming(inst, b) == inst

\* removePredecessor(b): the PHI drops its entry for b.  (LLVM then replaces
\* a PHI that is left with one entry by its value; here the PHI stays.)
DropIncoming(inst, b) ==
  IF ~IsPhi(inst) \/ b \notin {inst.from[i] : i \in DOMAIN inst.from} THEN inst
  ELSE LET at == First(inst.from, b)
           Drop(s) == [i \in 1..(Len(s) - 1) |-> IF i < at THEN s[i] ELSE s[i + 1]]
       IN  [inst EXCEPT !.opnds = Drop(@), !.from = Drop(@)]

\* What is left of the uses of an erased instruction.
Undefine(inst, b) ==
  [inst EXCEPT !.opnds = [i \in DOMAIN @ |-> IF @[i][1] = b THEN Undef ELSE @[i]]]
-----------------------------------------------------------------------------
Init ==
  /\ prog \in Programs
  /\ term = prog.term
  /\ code = prog.code
  /\ next = 1
  /\ DeleteList = {}
  /\ erased = {}
  /\ assertFailed = FALSE
  /\ into = [b \in Blocks |-> b]

\* mergeDuplicatedBlock returns true.
MergeNext ==
  /\ next <= Len(Layout)
  /\ LET b == Layout[next]
     IN  /\ \E c \in Candidates(b) :
              /\ ReplaceBB(b, c)
              /\ into' = [x \in Blocks |-> IF into[x] = b THEN c ELSE into[x]]
         /\ DeleteList' = DeleteList \cup {b}
  /\ next' = next + 1
  /\ UNCHANGED <<prog, code, erased>>

\* mergeDuplicatedBlock returns false.
KeepNext ==
  /\ next <= Len(Layout)
  /\ Candidates(Layout[next]) = {}
  /\ next' = next + 1
  /\ UNCHANGED <<prog, term, code, DeleteList, erased, assertFailed, into>>

\* The loop over DeleteList, a set of pointers: any order.
DeleteDeadBlock(b) ==
  /\ next > Len(Layout)
  /\ b \in DeleteList \ erased
  /\ erased' = erased \cup {b}
  /\ code' = [x \in Blocks |->
                [n \in DOMAIN code[x] |->
                   Undefine(IF x = Succ(b) THEN DropIncoming(code[x][n], b)
                            ELSE code[x][n], b)]]
  /\ UNCHANGED <<prog, term, next, DeleteList, assertFailed, into>>

Next == MergeNext \/ KeepNext \/ \E b \in Blocks : DeleteDeadBlock(b)

Spec == Init /\ [][Next]_vars

Finished == next > Len(Layout) /\ erased = DeleteList
-----------------------------------------------------------------------------
\* Positions stay in the function, the entry block is never merged away, and
\* no deleted block stands for anything.
TypeOK ==
  /\ term \in [Blocks -> Terminators]
  /\ code \in [Blocks -> Seq(Instructions)]
  /\ next \in 1..(Len(Layout) + 1)
  /\ DeleteList \subseteq Blocks \ {Entry}
  /\ erased \subseteq DeleteList
  /\ assertFailed \in BOOLEAN
  /\ into \in [Blocks -> Blocks \ DeleteList]

\* DeleteDeadBlock asserts that all predecessors of the block are dead; more
\* is true from the moment the block is marked: no terminator, dead or alive,
\* names it, although blocks are merged into blocks that are merged later.
DeadUnreferenced ==
  \A b \in Blocks : \A i \in DOMAIN term[b].tgts : term[b].tgts[i] \notin DeleteList

\* Every edge of the original function is still there, between the blocks
\* that stand for its ends.
SameControl ==
  \A b \in Blocks :
    /\ term[into[b]].kind = prog.term[b].kind
    /\ DOMAIN term[into[b]].tgts = DOMAIN prog.term[b].tgts
    /\ \A i \in DOMAIN prog.term[b].tgts :
         term[into[b]].tgts[i] = into[prog.term[b].tgts[i]]

\* What a block does, debug intrinsics left out.
Work(c) == LET n == NonDbg(c)
           IN  [k \in 1..Len(n) |-> <<c[n[k]].op, c[n[k]].flags, c[n[k]].opnds>>]

\* The same, whatever the flags.
Operations(c) == LET n == NonDbg(c)
                 IN  [k \in 1..Len(n) |-> <<c[n[k]].op, c[n[k]].opnds>>]

\* The block that stands for another executes the same instructions, with the
\* same flags, on the same operands, in the same order: "BB1 is identical to
\* BB2 iff all instructions in BB1 are identical to the instructions in BB2."
\* It fails on functions of the run, and is not among the invariants.
SameWork == \A b \in Blocks : Work(prog.code[into[b]]) = Work(prog.code[b])

\* Of the blocks of p that might be merged, those that execute the same
\* operations do so with the same flags.
TwinsAgree(p) ==
  \A b, c \in Blocks \ {Entry} :
    Joins(p, b) /\ Joins(p, c) /\ Operations(p.code[b]) = Operations(p.code[c]) =>
      Work(p.code[b]) = Work(p.code[c])

\* What is true: the operations and their operands are always the same, through
\* merges into blocks that are merged later, and the flags too where no two
\* blocks that might be merged differ in flags only.
WorkKept ==
  /\ \A b \in Blocks : Operations(prog.code[into[b]]) = Operations(prog.code[b])
  /\ TwinsAgree(prog) => SameWork

\* Of two blocks that might be merged, neither has PHIs of its own: the edges
\* that a retained block gains would need entries there, which nobody makes.
TwinsWithoutPhis ==
  \A p \in Programs : \A b, c \in Blocks \ {Entry} :
    b # c /\ Joins(p, b) /\ Joins(p, c) /\ Operations(p.code[b]) = Operations(p.code[c]) =>
      \A n \in DOMAIN p.code[b] : ~IsPhi(p.code[b][n])

\* v1 in b1 and v2 in b2 are the same value, or the twin instructions.
SameValue(v1, b1, v2, b2) ==
  LET n1 == NonDbg(prog.code[b1])
      n2 == NonDbg(prog.code[b2])
  IN  \/ v1 = v2
      \/ \E k \in 1..Len(n1) : v1 = <<b1, n1[k]>> /\ v2 = <<b2, n2[k]>>

\* On every edge, the PHI at its end takes the value it took before.
SamePhiValue ==
  \A b \in Blocks \ {Entry} : Unconditional(b) =>
    LET t == prog.term[b].tgts[1]
    IN  HeadIsPhi(prog.code[t]) =>
          SameValue(IncomingValue(prog.code[t][1], b), b,
                    IncomingValue(code[into[t]][1], into[b]), into[b])

\* Deleting the blocks leaves no use of a value that they defined.
NoUndef ==
  \A b \in Live : /\ term[b].cond[1] \notin erased
                  /\ \A n \in DOMAIN code[b] : Undef \notin {code[b][n].opnds[i] :
                                                 i \in DOMAIN code[b][n].opnds}

\* The verifier's rule for PHI nodes, at the end of the pass: as many entries
\* for a block as there are edges from it, and none for a deleted block.
PhisMatchPreds ==
  Finished =>
    \A b \in Live : \A n \in DOMAIN code[b] :
      IsPhi(code[b][n]) =>
        \A p \in Blocks : Cardinality(IF p \in Live THEN Edges(p, b) ELSE {}) =
                            Cardinality({i \in DOMAIN code[b][n].from :
                                           code[b][n].from[i] = p})

\* assert(Updated && "Inconsistent CFG and branch instruction").  It fails on
\* functions of the run, and is not among the invariants.
AssertUpdated == ~assertFailed
=============================================================================
