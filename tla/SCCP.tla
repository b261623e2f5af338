-------------------------------- MODULE SCCP --------------------------------
(***************************************************************************)
(* SsSCCP (SsSCCP/SsSCCP.cpp): loads of variables that the entry block     *)
(* sets to a constant are replaced by the constant, child by child of the  *)
(* root of the dominator tree; then branches on comparisons of constants   *)
(* are folded, and the block that is left is copied into its predecessor.  *)
(*                                                                         *)
(* An instruction is named by its value; inst[n] holds its kind, the width *)
(* of its type, and its operands as LLVM lists them: those of a store are  *)
(* the value and the variable, those of a conditional branch the condition *)
(* and the targets for false and true.  A clone of n in block b is         *)
(* <<n, b>>.  There are no PHIs: the functions are as clang makes them     *)
(* without optimisation.                                                   *)
(***************************************************************************)
EXTENDS CFG, MachineInts, Sequences, SequencesExt, TLC

CONSTANTS Number,        \* marks the constants among the operands
          IntBits,       \* the width of an int, which AllocaInfo::Num is
          MaxBits,       \* bound: the widest type of the function
          Programs       \* the functions to run the pass on

ASSUME WidthAssumption == IntBits \in 1..MaxBits /\ MaxBits \in Nat

VARIABLES prog,          \* the function as the pass found it
          DT,            \* its dominator tree, DT->getDescendants
          layout,        \* the blocks that exist, in their order
          code,          \* the instructions of each block
          inst,          \* the instructions that exist
          pc,
          children,      \* blocks of level 1 the first loop has not visited
          visit,         \* blocks of the subtree that are to be visited
          AllocaMap, LocalAllocaMap, ReplaceMap,
          rest,          \* blocks the second loop has not visited
          BBtoEmplace,   \* pairs <<src, dst>>
          next,          \* the instruction of dst that is copied next
          vmap

function == <<layout, code, inst>>
maps == <<AllocaMap, LocalAllocaMap, ReplaceMap>>
walk == <<children, visit, maps>>
copying == <<BBtoEmplace, next, vmap>>
vars == <<prog, DT, function, pc, walk, rest, copying>>
-----------------------------------------------------------------------------
NoMap == [v \in {} |-> v]

\* A constant, without a sign.
Const(n) == <<Number, n>>
Consts == {Const(n) : n \in 0..(2^MaxBits - 1)}
Undef == <<Number, -1>>

Kind(n) == inst[n].kind
Ops(n) == inst[n].ops
Term(b) == Last(code[b])
Targets(n) == Range(Ops(n)) \cap Blocks
Graph == [b \in Blocks |-> IF b \in Range(layout) THEN Targets(Term(b)) ELSE {}]
Preds(b) == {p \in Range(layout) : b \in Graph[p]}

\* The blocks whose parent is the root: nothing else dominates them.
Level1 == {b \in DT[Entry] \ {Entry} : \A d \in Blocks \ {Entry, b} : b \notin DT[d]}

\* Mutant: the value is kept as it is.
NumUnsigned(n) == n

\* getLimitedValue(~0U), stored in an int.
Num(n) == Signed(IntBits, IF n < 2^IntBits THEN n ELSE 2^IntBits - 1)

\* ConstantInt::get: the int is extended or truncated to the width of the type.
ConstantOf(bits, num) == Const(num % 2^bits)

Users(n) == {u \in DOMAIN inst : n \in Range(Ops(u))}

\* The stores of a constant to a variable, in the order of the text: readers
\* of IR and clang put a new use in front of the use-list, so that the loop
\* over the users meets the first one last.
ConstStores(a) ==
  SelectSeq(FlattenSeq([i \in DOMAIN layout |-> code[layout[i]]]),
            LAMBDA n : Kind(n) = "store" /\ Ops(n)[2] = a /\ Ops(n)[1] \in Consts)

Allocas == {n \in Range(code[Entry]) : Kind(n) = "alloca"}

\* SCCP_GatherAlloca: the constant of each variable that is set to one.
Gathered ==
  [a \in {v \in Allocas : ConstStores(v) # <<>>} |-> Num(Ops(ConstStores(a)[1])[1][2])]

StoredIn(blocks) ==
  {Ops(n)[2] : n \in {m \in UNION {Range(code[b]) : b \in blocks} : Kind(m) = "store"}}

\* Mutant: a store in a block below the child does not count.
LocalsTop(b) == [a \in DOMAIN AllocaMap \ StoredIn({b}) |-> AllocaMap[a]]

\* SCCP_SearchDFS: the variables that no block of the subtree stores to.
Locals(b) == [a \in DOMAIN AllocaMap \ StoredIn(DT[b]) |-> AllocaMap[a]]

\* "2. if the op is in ReplaceMap, replace it", for the operands of n.
Replaced(n, map) ==
  [k \in DOMAIN Ops(n) |->
     IF Ops(n)[k] \in DOMAIN map THEN ConstantOf(inst[Ops(n)[k]].bits, map[Ops(n)[k]]) ELSE Ops(n)[k]]

\* Deleting the instructions dead leaves undef where they are used.
Without(i, dead) ==
  [n \in DOMAIN i \ dead |->
     [i[n] EXCEPT !.ops = [k \in DOMAIN @ |-> IF @[k] \in dead THEN Undef ELSE @[k]]]]
-----------------------------------------------------------------------------
Init ==
  /\ prog \in Programs
  /\ layout = prog.layout /\ code = prog.code /\ inst = prog.inst
  /\ DT = DominatorTree([b \in Blocks |-> IF b \in Range(prog.layout)
                                          THEN Targets(Last(prog.code[b])) ELSE {}])
  /\ pc = "gather" /\ children = {} /\ visit = {}
  /\ AllocaMap = NoMap /\ LocalAllocaMap = NoMap /\ ReplaceMap = NoMap
  /\ rest = prog.layout
  /\ BBtoEmplace = <<>> /\ next = 1 /\ vmap = NoMap

NextChild(left) == IF left = {} THEN "fold" ELSE "child"

\* The alloca map is filled, and the blocks of level 1 are found.
GatherAlloca ==
  /\ pc = "gather"
  /\ AllocaMap' = Gathered
  /\ children' = Level1
  /\ pc' = NextChild(children')
  /\ UNCHANGED <<prog, DT, function, visit, LocalAllocaMap, ReplaceMap, rest, copying>>

\* A child of the root, with a copy of the map: SCCP_SearchDFS, which only
\* erases entries, whatever the order of the blocks.
SearchDFS ==
  /\ pc = "child"
  /\ \E b \in children :
       /\ children' = children \ {b}
       /\ LocalAllocaMap' = Locals(b)
       /\ visit' = DT[b]
  /\ ReplaceMap' = NoMap
  /\ pc' = "replace"
  /\ UNCHANGED <<prog, DT, function, AllocaMap, rest, copying>>

\* SCCP_ReplaceAllocaWithConstantDFS visits one block, after its dominators.
\* What uses a variable of the map goes into ReplaceMap; the operands of the
\* other instructions are looked up there.  A definition precedes its uses.
ReplaceBlock ==
  /\ pc = "replace"
  /\ \E b \in visit :
       /\ \A d \in visit : b \in DT[d] => d = b
       /\ LET loads == {n \in Range(code[b]) : Range(Ops(n)) \cap DOMAIN LocalAllocaMap # {}}
              found == [n \in loads |-> LocalAllocaMap[
                          CHOOSE a \in Range(Ops(n)) : a \in DOMAIN LocalAllocaMap]] @@ ReplaceMap
          IN  /\ ReplaceMap' = found
              /\ inst' = [n \in DOMAIN inst |->
                            IF n \in Range(code[b]) \ loads
                            THEN [inst[n] EXCEPT !.ops = Replaced(n, found)] ELSE inst[n]]
       /\ visit' = visit \ {b}
  /\ pc' = IF visit' = {} THEN "erase" ELSE "replace"
  /\ UNCHANGED <<prog, DT, layout, code, children, AllocaMap, LocalAllocaMap, rest, copying>>

\* The instructions of ReplaceMap are erased.
EraseLoads ==
  /\ pc = "erase"
  /\ IF \E n \in DOMAIN ReplaceMap : ~(Users(n) \subseteq DOMAIN ReplaceMap)
     THEN pc' = "fault" /\ UNCHANGED function
     ELSE /\ pc' = NextChild(children)
          /\ code' = [b \in DOMAIN code |->
                        SelectSeq(code[b], LAMBDA n : n \notin DOMAIN ReplaceMap)]
          /\ inst' = Without(inst, DOMAIN ReplaceMap)
          /\ UNCHANGED layout
  /\ UNCHANGED <<prog, DT, walk, rest, copying>>
-----------------------------------------------------------------------------
\* Steps 1 to 3: block b ends in a branch on a comparison of constants.
Conditional(b) == Kind(Term(b)) = "br" /\ Len(Ops(Term(b))) = 3
Cmp(b) == Ops(Term(b))[1]
Foldable(b) ==
  /\ Conditional(b) /\ Cmp(b) \in DOMAIN inst /\ Kind(Cmp(b)) = "icmp"
  /\ Range(Ops(Cmp(b))) \subseteq Consts

SkipBlock ==
  /\ pc = "fold" /\ rest # <<>> /\ ~Foldable(Head(rest))
  /\ rest' = Tail(rest)
  /\ UNCHANGED <<prog, DT, function, pc, walk, copying>>

\* Val_0->getValue().sgt(Val_1->getValue())
Holds(c) == Signed(inst[c].bits, Ops(c)[1][2]) > Signed(inst[c].bits, Ops(c)[2][2])

\* Step 4.  The operands of the branch are the condition, false, true.
TargetBB(b) == IF Holds(Cmp(b)) THEN Ops(Term(b))[3] ELSE Ops(Term(b))[2]

\* Mutant: the block deleted is the first successor, whichever is taken.
DeleteFirst(b) == Ops(Term(b))[3]

DeleteBB(b) == IF Holds(Cmp(b)) THEN Ops(Term(b))[2] ELSE Ops(Term(b))[3]

\* mergeBranchTwoBBToOneBB, and the branch that is folded (step 6).
Redirect(b) ==
  LET to == TargetBB(b)
      all == [n \in DOMAIN inst |->
                [inst[n] EXCEPT !.ops = [k \in DOMAIN @ |-> IF @[k] = DeleteBB(b) THEN to ELSE @[k]]]]
  IN  [all EXCEPT ![Term(b)].ops = <<to>>]

\* What the pass cannot survive: pointers that are not initialised because
\* the predicate is another one; the block it is in is deleted, or one that
\* still has edges; the comparison is erased while it is used.
FoldFaults(b) ==
  \/ inst[Cmp(b)].pred # "sgt"
  \/ DeleteBB(b) \in {b, TargetBB(b)}
  \/ ~(Users(Cmp(b)) \subseteq {Term(b)} \cup Range(code[DeleteBB(b)]))

\* Steps 5 to 7: the edges of DeleteBB go to TargetBB, DeleteBB is deleted,
\* the branch is replaced and the comparison erased.
FoldBranch ==
  /\ pc = "fold" /\ rest # <<>> /\ Foldable(Head(rest))
  /\ LET b == Head(rest)
     IN  IF FoldFaults(b)
         THEN pc' = "fault" /\ UNCHANGED <<function, rest, BBtoEmplace>>
         ELSE LET dead == DeleteBB(b)
                  cmp == Cmp(b)
              IN  /\ inst' = Without(Redirect(b), Range(code[dead]) \cup {cmp})
                  /\ code' = [code EXCEPT ![b] = Remove(@, cmp), ![dead] = <<>>]
                  /\ layout' = Remove(layout, dead)
                  /\ rest' = Remove(Tail(rest), dead)
                  /\ BBtoEmplace' = Append(BBtoEmplace, <<b, TargetBB(b)>>)
                  /\ UNCHANGED pc
  /\ UNCHANGED <<prog, DT, walk, next, vmap>>

EndFold ==
  /\ pc = "fold" /\ rest = <<>>
  /\ pc' = "emplace"
  /\ UNCHANGED <<prog, DT, function, walk, rest, copying>>
-----------------------------------------------------------------------------
Src == Head(BBtoEmplace)[1]
Dst == Head(BBtoEmplace)[2]

\* A pair names a block that a later step has deleted.
Dangling == ~({Src, Dst} \subseteq Range(layout))

IsBranch(n) == Kind(n) = "br"

\* Mutant: the copies are not remapped.
RemapNot(n) == Ops(n)

\* RemapInstruction with RF_IgnoreMissingLocals.
Remap(n) == [k \in DOMAIN Ops(n) |-> IF Ops(n)[k] \in DOMAIN vmap THEN vmap[Ops(n)[k]] ELSE Ops(n)[k]]

\* Step 8, for one instruction of dst.
CopyInstruction ==
  /\ pc = "emplace" /\ BBtoEmplace # <<>> /\ ~Dangling
  /\ next <= Len(code[Dst]) /\ ~IsBranch(code[Dst][next])
  /\ LET n == code[Dst][next]
         c == <<n, Src>>
     IN  /\ inst' = (c :> [inst[n] EXCEPT !.ops = Remap(n)]) @@ inst
         /\ code' = [code EXCEPT ![Src] = InsertAt(@, Len(@), c)]
         /\ vmap' = (n :> c) @@ vmap
  /\ next' = next + 1
  /\ UNCHANGED <<prog, DT, layout, pc, walk, rest, BBtoEmplace>>

\* What the pass cannot survive here: one of the blocks is gone, dst does
\* not end in an unconditional branch, or is not only src's successor.
CopyFaults == Dangling \/ Ops(Term(Dst)) = <<>> \/ Ops(Term(Dst))[1] \notin Blocks \ {Dst}
              \/ Preds(Dst) # {Src}

\* Steps 9 and 10: src continues where dst does, and dst is deleted.
ReplaceBranch ==
  /\ pc = "emplace" /\ BBtoEmplace # <<>>
  /\ Dangling \/ next > Len(code[Dst]) \/ IsBranch(code[Dst][next])
  /\ IF CopyFaults
     THEN pc' = "fault" /\ UNCHANGED <<function, copying>>
     ELSE /\ inst' = Without([inst EXCEPT ![Term(Src)].ops = Ops(Term(Dst))], Range(code[Dst]))
          /\ code' = [code EXCEPT ![Dst] = <<>>]
          /\ layout' = Remove(layout, Dst)
          /\ BBtoEmplace' = Tail(BBtoEmplace)
          /\ next' = 1
          /\ vmap' = [n \in DOMAIN vmap \ Range(code[Dst]) |-> vmap[n]]
          /\ UNCHANGED pc
  /\ UNCHANGED <<prog, DT, walk, rest>>

Return ==
  /\ pc = "emplace" /\ BBtoEmplace = <<>>
  /\ pc' = "done"
  /\ UNCHANGED <<prog, DT, function, walk, rest, copying>>

Next ==
  \/ GatherAlloca \/ SearchDFS \/ ReplaceBlock \/ EraseLoads
  \/ SkipBlock \/ FoldBranch \/ EndFold
  \/ CopyInstruction \/ ReplaceBranch \/ Return

Spec == Init /\ [][Next]_vars
-----------------------------------------------------------------------------
Ints == -(2^(IntBits - 1))..(2^(IntBits - 1) - 1)
Existing == UNION {Range(code[b]) : b \in Range(layout)}

TypeOK ==
  /\ pc \in {"gather", "child", "replace", "erase", "fold", "emplace", "done", "fault"}
  /\ Range(layout) \subseteq Range(prog.layout) /\ Range(rest) \subseteq Range(layout)
  /\ DOMAIN inst = Existing
  /\ children \subseteq Blocks /\ visit \subseteq Blocks
  /\ \A map \in {AllocaMap, LocalAllocaMap} :
       DOMAIN map \subseteq Allocas /\ Range(map) \subseteq Ints
  /\ Range(ReplaceMap) \subseteq Ints

\* LLVM's rule for operands, after every step: each is an argument, a
\* constant, a block or an instruction that still exists and dominates the
\* use.  A copied instruction uses the copies of its operands.
OperandsDominate ==
  LET entry == Range(code[Entry])
      named == Consts \cup prog.params \cup Range(layout)
      Dominating(v, b, i) ==
        \/ b # Entry /\ v \in entry
        \/ v \in named
        \/ \E j \in 1..(i - 1) : code[b][j] = v
        \/ \E d \in Range(layout) \ {b} : v \in Range(code[d]) /\ Dominates(Graph, d, b)
        \/ b \notin Reachable(Graph)
  IN  \A b \in Range(layout) : \A i \in DOMAIN code[b] :
        \A v \in Range(Ops(code[b][i])) : Dominating(v, b, i)

\* No assertion fails, and no deleted block, erased instruction or pointer
\* without a value is used.
NoFault == pc # "fault"
=============================================================================
