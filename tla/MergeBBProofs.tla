--------------------------- MODULE MergeBBProofs ---------------------------
(***************************************************************************)
(* For every function, every layout of its blocks and every order of the   *)
(* use-lists: merging blocks leaves each edge of the function in place     *)
(* between the blocks that stand for its ends, a retained block executes   *)
(* the operations of the blocks merged into it, and no terminator names a  *)
(* deleted block.  What it executes is all the same (op, operands and the  *)
(* flags that nobody compares) where no two blocks that might be merged    *)
(* differ in flags only (TwinsAgree).                                      *)
(*                                                                         *)
(* SameControl is not inductive alone.  The invariant adds that deleted    *)
(* blocks are redirected like the live ones, so that a deleted block and   *)
(* the one that stands for it keep the same targets when a successor of    *)
(* both is merged away later.                                              *)
(*                                                                         *)
(* Deleting leaves no use behind (NoUndef) because a block is merged only  *)
(* when each of its values has one use: in the block, or in a PHI of its   *)
(* successor, which drops it.  That use stays where it is: the block that  *)
(* holds the PHI is not merged away, as its twin would use the value too.  *)
(*                                                                         *)
(* PHIs are right only where no two blocks that might be merged have any   *)
(* of their own (TwinsWithoutPhis).  Then every PHI stays in its place,    *)
(* with an entry for each edge that there is at the moment (PhiInv).       *)
(***************************************************************************)
EXTENDS MergeBB, SelectionTheorems, SequenceTheorems

\* Every terminator is that of the input, its targets replaced by the blocks
\* that stand for them.
Redirected ==
  \A b \in Blocks :
    /\ term[b].kind = prog.term[b].kind
    /\ term[b].cond = prog.term[b].cond
    /\ DOMAIN term[b].tgts = DOMAIN prog.term[b].tgts
    /\ \A i \in DOMAIN prog.term[b].tgts :
         term[b].tgts[i] = into[prog.term[b].tgts[i]]

\* A block ends as the block that stands for it does.
Twins ==
  \A b \in Blocks : /\ term[into[b]].kind = term[b].kind
                    /\ term[into[b]].tgts = term[b].tgts

\* Nothing is deleted while blocks are still being compared.
Comparing == next <= Len(Layout) => code = prog.code /\ erased = {}

\* A marked block has a successor.
DeadBranch == \A b \in DeleteList : 1 \in DOMAIN term[b].tgts

\* While blocks are being compared, a value of a marked block has at most one
\* use: its twin cannot be merged away without another use of it.
UsedOnce ==
  next <= Len(Layout) =>
    \A v \in Values : v[1] \in DeleteList => \A u1, u2 \in Uses(v) : u1 = u2

\* A value of a marked block is used by that block or, for that block, by a
\* PHI of its successor; no value of an erased one is used.
Condition(x) == term[x].cond[1] \in DeleteList => term[x].cond[1] = x

Operand(x, n, j) ==
  LET v == code[x][n].opnds[j]
  IN  /\ v # Undef /\ v[1] \notin erased
      /\ v[1] \in DeleteList \ {x} =>
           x = Succ(v[1]) /\ IsPhi(code[x][n]) /\ IsFirst(code[x][n].from, v[1], j)

DeadUses ==
  \A x \in Live :
    /\ Condition(x)
    /\ \A n \in DOMAIN code[x] : \A j \in DOMAIN code[x][n].opnds : Operand(x, n, j)

IInv ==
  /\ prog \in Programs
  /\ TypeOK
  /\ Redirected
  /\ Twins
  /\ Comparing
  /\ WorkKept
  /\ DeadBranch
  /\ UsedOnce
  /\ DeadUses
-----------------------------------------------------------------------------
\* The loop of run visits blocks of the function.
LEMMA LayoutBlock == ASSUME NEW n \in 1..Len(Layout) PROVE Layout[n] \in Blocks
BY BlocksAssumption

\* The targets of a function are blocks other than the entry block.
LEMMA TargetBlock ==
  ASSUME NEW p \in Programs, NEW b \in Blocks, NEW i \in DOMAIN p.term[b].tgts
  PROVE  p.term[b].tgts[i] \in Blocks \ {Entry}
<1>1. p.term[b].tgts \in Seq(Blocks \ {Entry})
  BY ProgramAssumption DEF Terminators
<1>. QED  BY <1>1

\* The places of v in a sequence are finitely many, none if their number is 0.
LEMMA Places ==
  ASSUME NEW T, NEW s \in Seq(T), NEW v
  PROVE  /\ IsFiniteSet({i \in DOMAIN s : s[i] = v})
         /\ Cardinality({i \in DOMAIN s : s[i] = v}) \in Nat
         /\ Cardinality({i \in DOMAIN s : s[i] = v}) = 0 <=> \A i \in DOMAIN s : s[i] # v
<1>1. PICK S : S = {i \in DOMAIN s : s[i] = v}
  OBVIOUS
<1>2. DOMAIN s = 1..Len(s) /\ Len(s) \in Nat
  OBVIOUS
<1>3. IsFiniteSet(DOMAIN s)
  BY <1>2, FS_Interval
<1>4. IsFiniteSet(S) /\ Cardinality(S) \in Nat
  BY <1>1, <1>3, FS_Subset, FS_CardinalityType
<1>5. Cardinality(S) = 0 <=> S = {}
  BY <1>4, FS_EmptySet
<1>. QED  BY <1>1, <1>4, <1>5

\* There is a place for v.
LEMMA HasPlace ==
  ASSUME NEW T, NEW s \in Seq(T), NEW v, NEW k \in DOMAIN s, s[k] = v
  PROVE  Cardinality({i \in DOMAIN s : s[i] = v}) # 0
<1>1. ~\A i \in DOMAIN s : s[i] # v
  OBVIOUS
<1>. QED  BY <1>1, Places

\* What a function is assumed to be, for one instruction.
LEMMA Input ==
  ASSUME NEW p \in Programs, NEW b \in Blocks, NEW n \in DOMAIN p.code[b]
  PROVE  /\ \A i \in DOMAIN p.code[b][n].opnds :
              /\ p.code[b][n].opnds[i] # <<Outside, 0>>
              /\ Defined(p.code[b][n].opnds[i], p.code)
         /\ IsPhi(p.code[b][n]) =>
              \A x \in Blocks : \A k \in DOMAIN p.term[x].tgts :
                p.term[x].tgts[k] = b
                  => \E i \in DOMAIN p.code[b][n].from : p.code[b][n].from[i] = x
<1>1. \A i \in DOMAIN p.code[b][n].opnds :
        /\ p.code[b][n].opnds[i] # <<Outside, 0>>
        /\ Defined(p.code[b][n].opnds[i], p.code)
  BY ProgramAssumption
<1>2. ASSUME IsPhi(p.code[b][n]), NEW x \in Blocks, NEW k \in DOMAIN p.term[x].tgts,
             p.term[x].tgts[k] = b
      PROVE  \E i \in DOMAIN p.code[b][n].from : p.code[b][n].from[i] = x
  <2>1. p.term[x] \in Terminators /\ p.code[b] \in Seq(Instructions)
    BY ProgramAssumption
  <2>2. PICK tgts \in Seq(Blocks \ {Entry}) : tgts = p.term[x].tgts
    BY <2>1 DEF Terminators
  <2>3. p.code[b][n] \in Instructions
    BY <2>1
  <2>4. PICK from \in Seq(Blocks) : from = p.code[b][n].from
    BY <2>3 DEF Instructions
  <2>5. Cardinality({i \in DOMAIN from : from[i] = x})
          = Cardinality({i \in DOMAIN tgts : tgts[i] = b})
    <3>1. EntryPerEdge(p, b, p.code[b][n])
      BY <1>2, ProgramAssumption
    <3>. QED  BY <1>2, <2>2, <2>4, <3>1 DEF EntryPerEdge
  <2>6. Cardinality({i \in DOMAIN tgts : tgts[i] = b}) # 0
    <3>1. k \in DOMAIN tgts /\ tgts[k] = b
      BY <1>2, <2>2
    <3>. QED  BY <3>1, HasPlace
  <2>7. Cardinality({i \in DOMAIN from : from[i] = x}) # 0
    BY <2>5, <2>6
  <2>8. \E i \in DOMAIN from : from[i] = x
    BY <2>7, Places
  <2>. QED  BY <2>4, <2>8
<1>. QED  BY <1>1, <1>2

\* A list that names b has a first entry for b.
LEMMA FirstEntry ==
  ASSUME NEW from \in Seq(Blocks), NEW b, \E i \in DOMAIN from : from[i] = b
  PROVE  First(from, b) \in DOMAIN from /\ IsFirst(from, b, First(from, b))
<1> DEFINE S == {i \in DOMAIN from : from[i] = b}
<1>1. DOMAIN from = 1..Len(from) /\ Len(from) \in Nat
  OBVIOUS
<1>2. S \in SUBSET Nat /\ S # {}
  BY <1>1
<1>3. S \in SUBSET (1..Len(from))
  BY <1>1
<1>4. PICK i \in S : \A j \in S : i <= j
  <2> HIDE DEF S
  <2>. QED  BY <1>1, <1>2, <1>3, LeastNumber
<1>5. i \in DOMAIN from /\ IsFirst(from, b, i)
  BY <1>4 DEF IsFirst
<1>. QED  BY <1>5 DEF First

\* NonDbg lists the positions of the instructions that are not debug
\* intrinsics, all of them.
LEMMA NonDbgLists ==
  ASSUME NEW c \in Seq(Instructions)
  PROVE  /\ Len(NonDbg(c)) \in Nat
         /\ \A k \in 1..Len(NonDbg(c)) : NonDbg(c)[k] \in DOMAIN c
         /\ \A n \in DOMAIN c : ~c[n].dbg => \E k \in 1..Len(NonDbg(c)) : NonDbg(c)[k] = n
<1>1. PICK S : S = {n \in DOMAIN c : ~c[n].dbg}
  OBVIOUS
<1>2. PICK N \in Nat : N = Len(c)
  OBVIOUS
<1>3. S \in SUBSET (1..N)
  BY <1>1, <1>2
<1>4. PICK A : A = Ascending(S)
  OBVIOUS
<1>5. NonDbg(c) = A
  BY <1>1, <1>4 DEF NonDbg
<1>6. /\ Len(A) \in Nat
      /\ \A k \in 1..Len(A) : A[k] \in S
      /\ \A n \in S : \E k \in 1..Len(A) : A[k] = n
  BY <1>3, <1>4, AscendingLists
<1>. QED  BY <1>1, <1>5, <1>6

\* A value has finitely many uses.
LEMMA FiniteUses ==
  ASSUME code \in [Blocks -> Seq(Instructions)], NEW v
  PROVE  IsFiniteSet(Uses(v))
<1> DEFINE Slots(b, n) == {j \in DOMAIN code[b][n].opnds : code[b][n].opnds[j] = v}
           At(b, n) == {<<b, n, i>> : i \in Slots(b, n)}
           In(b) == UNION {At(b, n) : n \in DOMAIN code[b]}
           Conds == {<<b, 0, 0>> : b \in {x \in Live : term[x].cond = v}}
<1>1. IsFiniteSet(Live)
  BY BlocksAssumption, FS_Subset DEF Live
<1>2. ASSUME NEW b \in Blocks, NEW n \in DOMAIN code[b] PROVE IsFiniteSet(At(b, n))
  <2>1. code[b] \in Seq(Instructions)
    OBVIOUS
  <2>2. code[b][n] \in Instructions
    BY <2>1
  <2>3. code[b][n].opnds \in Seq(Values)
    BY <2>2 DEF Instructions
  <2>4. IsFiniteSet(DOMAIN code[b][n].opnds)
    <3>1. PICK s \in Seq(Values) : s = code[b][n].opnds
      BY <2>3
    <3>2. IsFiniteSet(1..Len(s)) /\ DOMAIN s = 1..Len(s)
      BY FS_Interval
    <3>. QED  BY <3>1, <3>2
  <2>5. IsFiniteSet(Slots(b, n))
    BY <2>4, FS_Subset
  <2> DEFINE f == [i \in Slots(b, n) |-> <<b, n, i>>]
  <2>6. f \in Surjection(Slots(b, n), At(b, n))
    <3>1. f \in [Slots(b, n) -> At(b, n)]
      OBVIOUS
    <3>2. \A t \in At(b, n) : \E i \in Slots(b, n) : f[i] = t
      OBVIOUS
    <3> HIDE DEF f, Slots, At
    <3>. QED  BY <3>1, <3>2, Fun_IsSurj
  <2> HIDE DEF f, Slots, At
  <2>. QED  BY <2>5, <2>6, FS_Surjection
<1>3. ASSUME NEW b \in Blocks PROVE IsFiniteSet(In(b))
  <2> DEFINE f == [n \in DOMAIN code[b] |-> At(b, n)]
             T == {At(b, n) : n \in DOMAIN code[b]}
  <2>1. code[b] \in Seq(Instructions)
    OBVIOUS
  <2>2. IsFiniteSet(DOMAIN code[b])
    BY <2>1, FS_Interval
  <2>3. f \in [DOMAIN code[b] -> T] /\ \A t \in T : \E n \in DOMAIN code[b] : f[n] = t
    <3> HIDE DEF At
    <3>. QED  OBVIOUS
  <2>4. \A t \in T : IsFiniteSet(t)
    <3> HIDE DEF At
    <3>. QED  BY <1>2
  <2>5. IsFiniteSet(T)
    <3> HIDE DEF f, T
    <3>1. f \in Surjection(DOMAIN code[b], T)
      BY <2>3, Fun_IsSurj
    <3>. QED  BY <2>2, <3>1, FS_Surjection
  <2>6. In(b) = UNION T
    OBVIOUS
  <2> HIDE DEF T, In
  <2>. QED  BY <2>4, <2>5, <2>6, FS_UNION
<1>4. IsFiniteSet(UNION {In(b) : b \in Live})
  <2> HIDE DEF In
  <2> DEFINE f == [b \in Live |-> In(b)]
             T == {In(b) : b \in Live}
  <2>1. f \in [Live -> T] /\ \A t \in T : \E b \in Live : f[b] = t
    OBVIOUS
  <2>2. \A t \in T : IsFiniteSet(t)
    BY <1>3 DEF Live
  <2> HIDE DEF f, T
  <2>3. f \in Surjection(Live, T)
    BY <2>1, Fun_IsSurj
  <2>4. IsFiniteSet(T)
    BY <1>1, <2>3, FS_Surjection
  <2>. QED  BY <2>2, <2>4, FS_UNION DEF T
<1>5. IsFiniteSet(Conds)
  <2> DEFINE X == {x \in Live : term[x].cond = v}
             f == [b \in X |-> <<b, 0, 0>>]
  <2>1. IsFiniteSet(X)
    BY <1>1, FS_Subset
  <2>2. f \in [X -> Conds] /\ \A t \in Conds : \E b \in X : f[b] = t
    OBVIOUS
  <2> HIDE DEF X, f, Conds
  <2>3. f \in Surjection(X, Conds)
    BY <2>2, Fun_IsSurj
  <2>. QED  BY <2>1, <2>3, FS_Surjection
<1>6. Uses(v) = (UNION {In(b) : b \in Live}) \cup Conds
  BY DEF Uses
<1>7. PICK S, T : S = UNION {In(b) : b \in Live} /\ T = Conds
  OBVIOUS
<1> HIDE DEF In, Conds
<1>8. IsFiniteSet(S) /\ IsFiniteSet(T)
  BY <1>4, <1>5, <1>7
<1>9. IsFiniteSet(S \cup T)
  BY <1>8, FS_Union
<1>. QED  BY <1>6, <1>7, <1>9

\* Nothing is merged yet: every block stands for itself.
LEMMA InitIInv == Init => IInv
<1>. SUFFICES ASSUME Init PROVE IInv
  OBVIOUS
<1>1. TypeOK
  <2>1. next \in 1..(Len(Layout) + 1)
    BY BlocksAssumption DEF Init
  <2>2. term \in [Blocks -> Terminators] /\ code \in [Blocks -> Seq(Instructions)]
    BY ProgramAssumption DEF Init
  <2>3. into \in [Blocks -> Blocks \ DeleteList]
    BY DEF Init
  <2>. QED  BY <2>1, <2>2, <2>3 DEF Init, TypeOK
<1>2. Redirected
  <2>. SUFFICES ASSUME NEW b \in Blocks PROVE Redirected!(b)
    BY DEF Redirected
  <2>1. \A i \in DOMAIN prog.term[b].tgts : prog.term[b].tgts[i] \in Blocks
    BY TargetBlock DEF Init
  <2>. QED  BY <2>1 DEF Init
<1>3. Twins /\ Comparing /\ WorkKept /\ DeadBranch /\ UsedOnce
  BY DEF Init, Twins, Comparing, WorkKept, SameWork,
         DeadBranch, UsedOnce
<1>4. DeadUses
  <2>. SUFFICES ASSUME NEW x \in Blocks, NEW n \in DOMAIN code[x],
                       NEW j \in DOMAIN code[x][n].opnds
                PROVE  code[x][n].opnds[j] # Undef
    BY DEF DeadUses, Condition, Operand, Init, Live
  <2>1. prog \in Programs /\ code = prog.code
    BY DEF Init
  <2>. QED  BY <2>1, Input DEF Undef
<1>. QED  BY <1>1, <1>2, <1>3, <1>4 DEF Init, IInv

\* What the guards of a merge of b into c establish.
LEMMA Merged ==
  ASSUME IInv, NEW b \in Blocks, NEW c \in Candidates(b),
         next <= Len(Layout)
  PROVE  /\ c \in Blocks \ {Entry} /\ c \notin DeleteList /\ c # b
         /\ b # Entry
         /\ term[b].kind = term[c].kind /\ term[b].tgts = term[c].tgts
         /\ Operations(prog.code[b]) = Operations(prog.code[c])
<1>1. /\ c \in Blocks /\ c # Entry /\ c \notin DeleteList /\ c # b
      /\ Unconditional(c) /\ Identical(b, c)
      /\ MayErase(b) /\ Edges(c, Succ(b)) # {}
  BY DEF Candidates, Preds, Live
<1>2. b # Entry /\ Unconditional(b)
  BY <1>1 DEF MayErase
<1>3. term[b].tgts \in Seq(Blocks \ {Entry}) /\ term[c].tgts \in Seq(Blocks \ {Entry})
  BY <1>1 DEF IInv, TypeOK, Terminators
<1>4. term[b].tgts = term[c].tgts
  <2>1. PICK i \in DOMAIN term[c].tgts : term[c].tgts[i] = Succ(b)
    BY <1>1 DEF Edges
  <2>2. i = 1
    BY <2>1, <1>1, <1>3 DEF Unconditional
  <2>. QED  BY <2>1, <2>2, <1>1, <1>2, <1>3 DEF Unconditional, Succ
<1>5. Operations(prog.code[b]) = Operations(prog.code[c])
  <2>1. code = prog.code
    BY DEF IInv, Comparing
  <2>. DEFINE nb == NonDbg(code[b])
              nc == NonDbg(code[c])
  <2>2. Len(nb) = Len(nc)
    BY <1>1 DEF Identical
  <2>3. \A k \in 1..Len(nb) : CanMergeInstructions(<<b, nb[k]>>, <<c, nc[k]>>)
    BY <1>1 DEF Identical
  <2>4. \A k \in 1..Len(nb) : /\ code[b][nb[k]].op = code[c][nc[k]].op
                              /\ code[b][nb[k]].opnds = code[c][nc[k]].opnds
    BY <2>3 DEF CanMergeInstructions, SameOperation
  <2>. QED  BY <2>1, <2>2, <2>4 DEF Operations
<1>. QED  BY <1>1, <1>2, <1>4, <1>5 DEF Unconditional

\* What an instruction of the function is.
LEMMA Instruction ==
  ASSUME TypeOK, NEW x \in Blocks, NEW n \in DOMAIN code[x]
  PROVE  /\ code[x] \in Seq(Instructions) /\ code[x][n] \in Instructions
         /\ code[x][n].opnds \in Seq(Values) /\ code[x][n].from \in Seq(Blocks)
         /\ \A j \in DOMAIN code[x][n].opnds : code[x][n].opnds[j] \in Values
         /\ IsPhi(code[x][n]) => /\ ~code[x][n].dbg
                                /\ DOMAIN code[x][n].from = DOMAIN code[x][n].opnds
<1>1. code[x] \in Seq(Instructions)
  BY DEF TypeOK
<1>2. code[x][n] \in Instructions
  BY <1>1
<1>3. /\ code[x][n].opnds \in Seq(Values) /\ code[x][n].from \in Seq(Blocks)
      /\ IsPhi(code[x][n]) =>
           ~code[x][n].dbg /\ Len(code[x][n].from) = Len(code[x][n].opnds)
  BY <1>2 DEF Instructions
<1>4. PICK o \in Seq(Values), f \in Seq(Blocks) : o = code[x][n].opnds /\ f = code[x][n].from
  BY <1>3
<1>5. /\ \A j \in DOMAIN o : o[j] \in Values
      /\ Len(f) = Len(o) => DOMAIN f = DOMAIN o
  OBVIOUS
<1>. QED  BY <1>1, <1>2, <1>3, <1>4, <1>5

\* An operand is a use.
LEMMA OperandUse ==
  ASSUME NEW x \in Live, NEW n \in DOMAIN code[x], NEW j \in DOMAIN code[x][n].opnds
  PROVE  <<x, n, j>> \in Uses(code[x][n].opnds[j])
BY DEF Uses

\* So is a condition.
LEMMA ConditionUse == ASSUME NEW x \in Live PROVE <<x, 0, 0>> \in Uses(term[x].cond)
BY DEF Uses

\* hasOneUse: two uses are the same.
LEMMA OneUse ==
  ASSUME TypeOK, NEW v, Cardinality(Uses(v)) = 1, NEW u1 \in Uses(v), NEW u2 \in Uses(v)
  PROVE  u1 = u2
<1>1. IsFiniteSet(Uses(v))
  BY FiniteUses DEF TypeOK
<1>2. PICK u : Uses(v) = {u}
  BY <1>1, FS_Singleton
<1>. QED  BY <1>2

\* A used value is computed, by an instruction that is not a debug intrinsic.
LEMMA UsedDefined ==
  ASSUME IInv, code = prog.code, NEW v \in Values, v[1] \in Blocks, NEW u \in Uses(v)
  PROVE  v[2] \in DOMAIN code[v[1]] /\ ~code[v[1]][v[2]].dbg
<1>1. prog \in Programs
  BY DEF IInv
<1>2. \/ \E x \in Live : \E n \in DOMAIN code[x] : \E j \in DOMAIN code[x][n].opnds :
              code[x][n].opnds[j] = v
      \/ \E x \in Live : term[x].cond = v
  BY DEF Uses
<1>3. CASE \E x \in Live : \E n \in DOMAIN code[x] : \E j \in DOMAIN code[x][n].opnds :
             code[x][n].opnds[j] = v
  <2>1. PICK x \in Blocks : \E n \in DOMAIN code[x] :
               \E j \in DOMAIN code[x][n].opnds : code[x][n].opnds[j] = v
    BY <1>3 DEF Live
  <2>2. PICK n \in DOMAIN code[x] :
          \E j \in DOMAIN code[x][n].opnds : code[x][n].opnds[j] = v
    BY <2>1
  <2>3. Defined(v, code)
    BY <1>1, <2>2, Input
  <2>. QED  BY <2>3 DEF Defined
<1>4. CASE \E x \in Live : term[x].cond = v
  <2>1. PICK x \in Blocks : term[x].cond = v
    BY <1>4 DEF Live
  <2>2. prog.term[x].cond = v
    BY <2>1 DEF IInv, Redirected
  <2>3. Defined(prog.term[x].cond, prog.code)
    BY <1>1, ProgramAssumption
  <2>. QED  BY <2>2, <2>3 DEF Defined
<1>. QED  BY <1>2, <1>3, <1>4

\* Of two blocks with the same operations, one uses what the other uses.
LEMMA TwinUse ==
  ASSUME IInv, code = prog.code, NEW x \in Blocks, NEW y \in Blocks,
         Operations(prog.code[x]) = Operations(prog.code[y]),
         NEW n \in DOMAIN code[x], ~code[x][n].dbg
  PROVE  \E m \in DOMAIN code[y] : code[y][m].opnds = code[x][n].opnds
<1>1. code[x] \in Seq(Instructions) /\ code[y] \in Seq(Instructions)
  BY DEF IInv, TypeOK
<1>2. PICK nx, ny : nx = NonDbg(code[x]) /\ ny = NonDbg(code[y])
  OBVIOUS
<1>3. PICK k \in 1..Len(nx) : nx[k] = n
  BY <1>1, <1>2, NonDbgLists
<1>4. Len(nx) \in Nat /\ Len(ny) \in Nat
  BY <1>1, <1>2, NonDbgLists
<1>5. [i \in 1..Len(nx) |-> <<code[x][nx[i]].op, code[x][nx[i]].opnds>>]
        = [i \in 1..Len(ny) |-> <<code[y][ny[i]].op, code[y][ny[i]].opnds>>]
  BY <1>2 DEF Operations
<1>6. 1..Len(nx) = 1..Len(ny)
  BY <1>5
<1>7. k \in 1..Len(ny)
  BY <1>6
<1>8. code[y][ny[k]].opnds = code[x][n].opnds
  <2>1. <<code[x][nx[k]].op, code[x][nx[k]].opnds>>
          = <<code[y][ny[k]].op, code[y][ny[k]].opnds>>
    BY <1>5, <1>7
  <2>. QED  BY <2>1, <1>3
<1>9. ny[k] \in DOMAIN code[y]
  BY <1>1, <1>2, <1>7, NonDbgLists
<1>. QED  BY <1>8, <1>9

\* What is asked of the values of a block to be merged: the one use of each is
\* its own or the successor's.
LEMMA MarkedUse ==
  ASSUME IInv, NEW b \in Blocks, NEW c \in Candidates(b), next <= Len(Layout),
         NEW v \in Values, v[1] = b, NEW u \in Uses(v)
  PROVE  Cardinality(Uses(v)) = 1 /\ CanRemoveInst(v)
<1>1. code = prog.code
  BY DEF IInv, Comparing
<1>2. v[2] \in DOMAIN code[b] /\ ~code[b][v[2]].dbg
  BY <1>1, UsedDefined
<1>3. code[b] \in Seq(Instructions)
  BY DEF IInv, TypeOK
<1>4. PICK nb, nc : nb = NonDbg(code[b]) /\ nc = NonDbg(code[c])
  OBVIOUS
<1>5. PICK k \in 1..Len(nb) : nb[k] = v[2]
  BY <1>2, <1>3, <1>4, NonDbgLists
<1>6. CanMergeInstructions(<<b, nb[k]>>, <<c, nc[k]>>)
  <2>1. Identical(b, c)
    BY DEF Candidates
  <2>. QED  BY <1>4, <2>1 DEF Identical
<1>7. v = <<b, nb[k]>>
  BY <1>5 DEF Values
<1>. QED  BY <1>6, <1>7 DEF CanMergeInstructions

\* Where a value of a block to be merged is used by another: in a PHI of its
\* successor, which has an entry for it since the input's successor had one.
LEMMA MarkedOperand ==
  ASSUME IInv, NEW b \in Blocks, NEW c \in Candidates(b), next <= Len(Layout),
         NEW x \in Live, x # b, NEW n \in DOMAIN code[x],
         NEW j \in DOMAIN code[x][n].opnds, code[x][n].opnds[j][1] = b
  PROVE  x = Succ(b) /\ IsPhi(code[x][n]) /\ IsFirst(code[x][n].from, b, j)
<1>1. PICK v \in Values : v = code[x][n].opnds[j]
  BY Instruction DEF IInv, Live
<1>2. code = prog.code /\ erased = {} /\ prog \in Programs /\ TypeOK /\ x \in Blocks
  BY DEF IInv, Comparing, Live
<1>3. <<x, n, j>> \in Uses(v)
  BY <1>1, OperandUse
<1>4. Cardinality(Uses(v)) = 1 /\ CanRemoveInst(v)
  BY <1>1, <1>3, MarkedUse
<1>5. \A u \in Uses(v) : u = <<x, n, j>>
  BY <1>2, <1>3, <1>4, OneUse
<1>6. x = Succ(b) /\ IsPhi(code[x][n]) /\ IncomingValue(code[x][n], b) = v
  BY <1>1, <1>4, <1>5 DEF CanRemoveInst
<1>7. 1 \in DOMAIN prog.term[b].tgts /\ 1 \in DOMAIN term[b].tgts
  <2>1. Unconditional(b)
    BY DEF Candidates, MayErase
  <2>2. term[b].tgts \in Seq(Blocks \ {Entry})
    BY <1>2 DEF TypeOK, Terminators
  <2>3. 1 \in DOMAIN term[b].tgts
    BY <2>1, <2>2 DEF Unconditional
  <2>. QED  BY <2>3 DEF IInv, Redirected
<1>8. PICK t \in Blocks : t = prog.term[b].tgts[1] /\ into[t] = x
  <2>1. prog.term[b].tgts[1] \in Blocks
    BY <1>2, <1>7, TargetBlock
  <2>2. term[b].tgts[1] = into[prog.term[b].tgts[1]]
    BY <1>7 DEF IInv, Redirected
  <2>. QED  BY <1>6, <2>1, <2>2, Zenon DEF Succ
<1>9. ~code[x][n].dbg /\ DOMAIN code[x][n].from = DOMAIN code[x][n].opnds
      /\ code[x][n].from \in Seq(Blocks)
  BY <1>2, <1>6, Instruction
\* If the successor stood for another block, that one would use v too.
<1>10. t = x
  <2>. SUFFICES ASSUME t # x PROVE FALSE
    OBVIOUS
  <2>1. Operations(prog.code[x]) = Operations(prog.code[t])
    BY <1>8 DEF IInv, WorkKept
  <2>2. PICK m \in DOMAIN code[t] : code[t][m].opnds = code[x][n].opnds
    <3>1. x \in Blocks /\ t \in Blocks /\ code = prog.code /\ ~code[x][n].dbg
      BY <1>2, <1>8, <1>9
    <3>. QED  BY <2>1, <3>1, TwinUse
  <2>3. t \in Live
    BY <1>2 DEF Live
  <2>4. <<t, m, j>> \in Uses(v)
    BY <1>1, <2>2, <2>3, OperandUse
  <2>. QED  BY <1>5, <2>4
<1>11. \E i \in DOMAIN code[x][n].from : code[x][n].from[i] = b
  <2>1. prog.term[b].tgts[1] = x
    BY <1>8, <1>10
  <2>. QED  BY <1>2, <1>6, <1>7, <2>1, Input
<1>12. PICK f : f = First(code[x][n].from, b)
  OBVIOUS
<1>13. f \in DOMAIN code[x][n].from /\ IsFirst(code[x][n].from, b, f)
  BY <1>9, <1>11, <1>12, FirstEntry
<1>14. f = j
  <2>1. code[x][n].opnds[f] = v
    BY <1>6, <1>12 DEF IncomingValue
  <2>2. <<x, n, f>> \in Uses(v)
    BY <1>9, <1>13, <2>1, OperandUse
  <2>. QED  BY <1>5, <2>2
<1>. QED  BY <1>6, <1>13, <1>14

\* What sending the edges of b to c does to the terminators.
LEMMA MergeTerms ==
  ASSUME TypeOK, NEW b \in Blocks, NEW c \in Blocks \ {Entry}, ReplaceBB(b, c)
  PROVE  \A p \in Blocks :
           /\ term'[p].kind = term[p].kind
           /\ term'[p].cond = term[p].cond
           /\ DOMAIN term'[p].tgts = DOMAIN term[p].tgts
           /\ Len(term'[p].tgts) = Len(term[p].tgts)
           /\ \A i \in DOMAIN term[p].tgts :
                term'[p].tgts[i] = IF term[p].tgts[i] = b THEN c ELSE term[p].tgts[i]
           /\ term'[p] \in Terminators
<1>. SUFFICES ASSUME NEW p \in Blocks
              PROVE  /\ term'[p].kind = term[p].kind
                     /\ term'[p].cond = term[p].cond
                     /\ DOMAIN term'[p].tgts = DOMAIN term[p].tgts
                     /\ Len(term'[p].tgts) = Len(term[p].tgts)
                     /\ \A i \in DOMAIN term[p].tgts :
                          term'[p].tgts[i] = IF term[p].tgts[i] = b THEN c ELSE term[p].tgts[i]
                     /\ term'[p] \in Terminators
  OBVIOUS
<1>1. term[p] \in Terminators
  BY DEF TypeOK
<1>2. term'[p] = [term[p] EXCEPT !.tgts =
                    [i \in DOMAIN @ |-> IF @[i] = b THEN c ELSE @[i]]]
  BY DEF ReplaceBB
<1> DEFINE t == [i \in DOMAIN term[p].tgts |->
                   IF term[p].tgts[i] = b THEN c ELSE term[p].tgts[i]]
<1>3. t \in Seq(Blocks \ {Entry}) /\ Len(t) = Len(term[p].tgts)
  <2>1. term[p].tgts \in Seq(Blocks \ {Entry})
    BY <1>1 DEF Terminators
  <2>2. DOMAIN term[p].tgts = 1..Len(term[p].tgts) /\ Len(term[p].tgts) \in Nat
    BY <2>1
  <2>3. \A i \in DOMAIN term[p].tgts : t[i] \in Blocks \ {Entry}
    BY <2>1
  <2>4. t \in [1..Len(term[p].tgts) -> Blocks \ {Entry}]
    BY <2>2, <2>3
  <2>5. t \in Seq(Blocks \ {Entry})
    BY <2>2, <2>4, SeqDef
  <2>6. Len(t) = Len(term[p].tgts)
    BY <2>2, <2>4, <2>5
  <2>. QED  BY <2>5, <2>6
<1>4. term'[p].tgts = t
  BY <1>1, <1>2 DEF Terminators
<1>. QED  BY <1>1, <1>2, <1>3, <1>4 DEF Terminators

\* Sequences with the same positions have the same length.
LEMMA SameLength ==
  ASSUME NEW T, NEW s \in Seq(T), NEW t \in Seq(T), DOMAIN s = DOMAIN t
  PROVE  Len(s) = Len(t)
<1>1. PICK m \in Nat, n \in Nat : m = Len(s) /\ n = Len(t)
  OBVIOUS
<1>2. 1..m = 1..n
  BY <1>1
<1>3. ASSUME m < n PROVE FALSE
  <2>1. n \in 1..n /\ n \notin 1..m
    BY <1>3
  <2>. QED  BY <1>2, <2>1
<1>4. ASSUME n < m PROVE FALSE
  <2>1. m \in 1..m /\ m \notin 1..n
    BY <1>4
  <2>. QED  BY <1>2, <2>1
<1>. QED  BY <1>1, <1>3, <1>4

\* A block ends in a branch to one block as long as it did so in the input.
LEMMA StillJoins ==
  ASSUME IInv, NEW x \in Blocks
  PROVE  /\ Len(term[x].tgts) = Len(prog.term[x].tgts)
         /\ Unconditional(x) <=> Joins(prog, x)
         /\ Unconditional(x) => 1 \in DOMAIN term[x].tgts /\ 1 \in DOMAIN prog.term[x].tgts
<1>1. term[x] \in Terminators /\ prog.term[x] \in Terminators
  BY ProgramAssumption DEF IInv, TypeOK
<1>2. PICK s \in Seq(Blocks \ {Entry}), t \in Seq(Blocks \ {Entry}) :
        s = term[x].tgts /\ t = prog.term[x].tgts
  BY <1>1 DEF Terminators
<1>3. DOMAIN s = DOMAIN t /\ term[x].kind = prog.term[x].kind
  BY <1>2 DEF IInv, Redirected
<1>4. Len(s) = Len(t)
  BY <1>3, SameLength, Zenon
<1>5. Len(s) = 1 => 1 \in DOMAIN s /\ 1 \in DOMAIN t
  <2>1. DOMAIN s = 1..Len(s)
    OBVIOUS
  <2>. QED  BY <1>3, <2>1
<1>. QED  BY <1>2, <1>3, <1>4, <1>5 DEF Unconditional, Joins

\* A merge sends the edges to a block that is not marked and executes the same
\* operations.
LEMMA MergeNextIInv == IInv /\ MergeNext => IInv'
<1>. SUFFICES ASSUME IInv, MergeNext PROVE IInv'
  OBVIOUS
<1>1. next \in Nat /\ Len(Layout) \in Nat /\ next \in 1..Len(Layout)
  BY BlocksAssumption DEF IInv, TypeOK, MergeNext
<1>2. PICK b \in Blocks : b = Layout[next]
  BY <1>1, LayoutBlock
<1>3. PICK c \in Candidates(b) :
        /\ ReplaceBB(b, c)
        /\ into' = [x \in Blocks |-> IF into[x] = b THEN c ELSE into[x]]
  BY <1>2 DEF MergeNext
<1>4. /\ c \in Blocks \ {Entry} /\ c \notin DeleteList /\ c # b
      /\ b # Entry
      /\ term[b].kind = term[c].kind /\ term[b].tgts = term[c].tgts
      /\ Operations(prog.code[b]) = Operations(prog.code[c])
  BY <1>1, <1>2, Merged
<1>5. DeleteList' = DeleteList \cup {b} /\ UNCHANGED <<prog, code, erased>>
      /\ next' = next + 1
  BY <1>2 DEF MergeNext
<1>6. \A p \in Blocks :
        /\ term'[p].kind = term[p].kind
        /\ term'[p].cond = term[p].cond
        /\ DOMAIN term'[p].tgts = DOMAIN term[p].tgts
        /\ \A i \in DOMAIN term[p].tgts :
             term'[p].tgts[i] = IF term[p].tgts[i] = b THEN c ELSE term[p].tgts[i]
        /\ term'[p] \in Terminators
  BY <1>3, <1>4, MergeTerms DEF IInv
<1>7. \A x \in Blocks : into'[x] = IF into[x] = b THEN c ELSE into[x]
  BY <1>3
<1>8. TypeOK'
  <2>1. term' = [p \in Blocks |-> term'[p]]
    BY <1>3 DEF ReplaceBB
  <2>2. term' \in [Blocks -> Terminators]
    BY <2>1, <1>6
  <2>3. assertFailed' \in BOOLEAN
    BY <1>3 DEF ReplaceBB
  <2>4. into' \in [Blocks -> Blocks \ DeleteList']
    BY <1>3, <1>4, <1>5 DEF IInv, TypeOK
  <2>. QED  BY <1>1, <1>2, <1>4, <1>5, <2>2, <2>3, <2>4 DEF IInv, TypeOK
<1>9. Redirected'
  <2>. SUFFICES ASSUME NEW p \in Blocks PROVE Redirected!(p)'
    BY DEF Redirected
  <2>1. \A i \in DOMAIN prog.term[p].tgts : prog.term[p].tgts[i] \in Blocks
    BY TargetBlock DEF IInv
  <2>. QED  BY <2>1, <1>5, <1>6, <1>7 DEF IInv, Redirected
<1>10. Twins'
  <2>. SUFFICES ASSUME NEW p \in Blocks PROVE Twins!(p)'
    BY DEF Twins
  <2>1. into[p] \in Blocks /\ into'[p] \in Blocks
    BY <1>4, <1>7 DEF IInv, TypeOK
  \* Before the step, the block that will stand for p ends as p does.
  <2>2. term[into'[p]].kind = term[p].kind /\ term[into'[p]].tgts = term[p].tgts
    BY <1>4, <1>7 DEF IInv, Twins
  <2>3. term'[into'[p]].kind = term'[p].kind
    BY <2>1, <2>2, <1>6
  <2>4. term'[into'[p]].tgts = term'[p].tgts
    <3>1. /\ term'[into'[p]].tgts \in Seq(Blocks \ {Entry})
          /\ term'[p].tgts \in Seq(Blocks \ {Entry})
      BY <2>1, <1>6 DEF Terminators
    <3>2. DOMAIN term'[into'[p]].tgts = DOMAIN term'[p].tgts
      BY <2>1, <2>2, <1>6
    <3>3. \A i \in DOMAIN term'[p].tgts : term'[into'[p]].tgts[i] = term'[p].tgts[i]
      BY <2>1, <2>2, <1>6
    <3>. QED  BY <3>1, <3>2, <3>3
  <2>. QED  BY <2>3, <2>4
<1>11. WorkKept' /\ Comparing'
  <2>1. ASSUME NEW p \in Blocks
        PROVE  Operations(prog.code[into'[p]]) = Operations(prog.code[p])
    <3>1. Operations(prog.code[into[p]]) = Operations(prog.code[p])
      BY DEF IInv, WorkKept
    <3>. QED  BY <1>4, <1>7, <3>1
  \* b and c are two of the blocks that TwinsAgree speaks of.
  <2>2. ASSUME TwinsAgree(prog), NEW p \in Blocks
        PROVE  Work(prog.code[into'[p]]) = Work(prog.code[p])
    <3>1. Unconditional(b) /\ Unconditional(c)
      BY <1>3 DEF Candidates, MayErase
    <3>2. Joins(prog, b) /\ Joins(prog, c)
      BY <1>4, <3>1, StillJoins
    <3>3. Work(prog.code[b]) = Work(prog.code[c])
      BY <1>4, <2>2, <3>2 DEF TwinsAgree
    <3>4. Work(prog.code[into[p]]) = Work(prog.code[p])
      BY <2>2 DEF IInv, WorkKept, SameWork
    <3>. QED  BY <1>4, <1>7, <3>3, <3>4
  <2>3. WorkKept'
    <3>1. \A p \in Blocks : Operations(prog.code[into'[p]]) = Operations(prog.code[p])
      BY <2>1
    <3>2. TwinsAgree(prog) =>
            \A p \in Blocks : Work(prog.code[into'[p]]) = Work(prog.code[p])
      BY <2>2
    <3>3. prog' = prog
      BY <1>5
    <3>. QED  BY <3>1, <3>2, <3>3 DEF WorkKept, SameWork
  <2>. QED  BY <1>1, <1>5, <2>3 DEF IInv, Comparing
<1>12. code = prog.code /\ erased = {} /\ Live' = Live /\ Live = Blocks
  BY <1>1, <1>5 DEF IInv, Comparing, Live
<1>13. \A v : Uses(v)' = Uses(v)
  <2>. SUFFICES ASSUME NEW v PROVE Uses(v)' = Uses(v)
    OBVIOUS
  <2>1. {x \in Live : term[x].cond = v}' = {x \in Live : term[x].cond = v}
    BY <1>6, <1>12
  <2>. QED  BY <1>5, <1>12, <2>1 DEF Uses
<1>14. 1 \in DOMAIN term[b].tgts /\ DeadBranch'
  <2>1. Unconditional(b)
    BY <1>3 DEF Candidates, MayErase
  <2>2. term[b].tgts \in Seq(Blocks \ {Entry})
    BY <1>2 DEF IInv, TypeOK, Terminators
  <2>3. 1 \in DOMAIN term[b].tgts
    BY <2>1, <2>2 DEF Unconditional
  <2>. QED  BY <1>2, <1>5, <1>6, <2>3 DEF IInv, DeadBranch, TypeOK
<1>15. UsedOnce'
  <2>. SUFFICES ASSUME NEW v \in Values, v[1] \in DeleteList \cup {b},
                       NEW u1 \in Uses(v), NEW u2 \in Uses(v)
                PROVE  u1 = u2
    BY <1>5, <1>13 DEF UsedOnce
  <2>1. CASE v[1] = b
    BY <1>1, <1>2, <1>3, <2>1, MarkedUse, OneUse DEF IInv
  <2>2. CASE v[1] \in DeleteList
    BY <1>1, <2>2 DEF IInv, UsedOnce
  <2>. QED  BY <2>1, <2>2
<1>16. DeadUses'
  <2>. SUFFICES ASSUME NEW x \in Live
                PROVE  /\ Condition(x)'
                       /\ \A n \in DOMAIN code[x] : \A j \in DOMAIN code[x][n].opnds :
                            Operand(x, n, j)'
    BY <1>5, <1>12 DEF DeadUses
  <2>1. x \in Blocks
    BY DEF Live
  <2>2. Condition(x)'
    <3>1. term'[x].cond = term[x].cond /\ term[x].cond \in Values
      BY <1>6, <2>1 DEF IInv, TypeOK, Terminators
    <3>2. CASE term[x].cond[1] = b
      <4>1. <<x, 0, 0>> \in Uses(term[x].cond)
        BY ConditionUse
      <4>2. /\ Cardinality(Uses(term[x].cond)) = 1
            /\ CanRemoveInst(term[x].cond)
        BY <1>1, <1>2, <1>3, <3>1, <3>2, <4>1, MarkedUse
      <4>3. \A u \in Uses(term[x].cond) : u = <<x, 0, 0>>
        BY <4>1, <4>2, OneUse DEF IInv
      <4>4. x = b
        BY <3>2, <4>2, <4>3 DEF CanRemoveInst
      <4>. QED  BY <3>1, <3>2, <4>4 DEF Condition
    <3>3. CASE term[x].cond[1] # b
      BY <1>5, <3>1, <3>3 DEF IInv, DeadUses, Condition
    <3>. QED  BY <3>2, <3>3
  <2>3. ASSUME NEW n \in DOMAIN code[x], NEW j \in DOMAIN code[x][n].opnds
        PROVE  Operand(x, n, j)'
    <3>1. PICK v \in Values : v = code[x][n].opnds[j]
      BY <2>1, Instruction DEF IInv
    <3>2. Operand(x, n, j)
      BY DEF IInv, DeadUses
    <3>3. v # Undef /\ v[1] \notin erased
      BY <3>1, <3>2 DEF Operand
    <3>4. ASSUME v[1] \in DeleteList \cup {b}, v[1] # x
          PROVE  /\ x = Succ(v[1])' /\ IsPhi(code[x][n])
                 /\ IsFirst(code[x][n].from, v[1], j)
      <4>1. CASE v[1] = b
        <5>1. x = Succ(b) /\ IsPhi(code[x][n]) /\ IsFirst(code[x][n].from, b, j)
          BY <1>1, <1>2, <1>3, <3>1, <3>4, <4>1, MarkedOperand
        <5>2. Succ(b)' = x
          BY <1>2, <1>6, <1>14, <3>4, <4>1, <5>1, Zenon DEF Succ
        <5>. QED  BY <4>1, <5>1, <5>2 DEF Succ
      <4>2. CASE v[1] \in DeleteList
        <5>1. x = Succ(v[1]) /\ IsPhi(code[x][n]) /\ IsFirst(code[x][n].from, v[1], j)
          BY <3>1, <3>2, <3>4, <4>2 DEF Operand
        \* The twin of the PHI would be a second use.
        <5>2. x # b
          <6>. SUFFICES ASSUME x = b PROVE FALSE
            OBVIOUS
          <6>1. ~code[x][n].dbg
            BY <2>1, <5>1, Instruction DEF IInv
          <6>2. PICK m \in DOMAIN code[c] : code[c][m].opnds = code[x][n].opnds
            <7>1. Operations(prog.code[x]) = Operations(prog.code[c]) /\ c \in Blocks
              BY <1>4, <1>12
            <7>. QED  BY <1>12, <2>1, <6>1, <7>1, TwinUse
          <6>3. <<x, n, j>> \in Uses(v) /\ <<c, m, j>> \in Uses(v)
            BY <1>4, <1>12, <3>1, <6>2, OperandUse
          <6>4. <<x, n, j>> = <<c, m, j>>
            BY <1>1, <4>2, <6>3 DEF IInv, UsedOnce
          <6>. QED  BY <1>4, <6>4
        <5>3. Succ(v[1])' = Succ(v[1])
          <6>1. v[1] \in Blocks /\ 1 \in DOMAIN term[v[1]].tgts
            BY <4>2 DEF IInv, TypeOK, DeadBranch
          <6>2. term'[v[1]].tgts[1] = term[v[1]].tgts[1]
            BY <1>6, <5>1, <5>2, <6>1, Zenon DEF Succ
          <6>. QED  BY <6>2 DEF Succ
        <5>. QED  BY <5>1, <5>3
      <4>. QED  BY <3>4, <4>1, <4>2
    <3>. QED  BY <1>5, <3>1, <3>3, <3>4 DEF Operand, Succ
  <2>. QED  BY <2>2, <2>3
<1>. QED  BY <1>5, <1>8, <1>9, <1>10, <1>11, <1>14, <1>15, <1>16 DEF IInv

\* A block that is kept changes nothing but the position.
LEMMA KeepNextIInv == IInv /\ KeepNext => IInv'
<1>. SUFFICES ASSUME IInv, KeepNext PROVE IInv'
  OBVIOUS
<1>1. next' \in 1..(Len(Layout) + 1) /\ (next' <= Len(Layout) => next <= Len(Layout))
  BY BlocksAssumption DEF IInv, TypeOK, KeepNext
<1>2. /\ TypeOK' /\ Redirected' /\ Twins' /\ Comparing' /\ WorkKept' /\ DeadBranch'
      /\ prog' \in Programs
  BY <1>1 DEF KeepNext, IInv, TypeOK, Redirected, Twins, Comparing, WorkKept, SameWork,
         DeadBranch
<1>3. \A v : Uses(v)' = Uses(v)
  BY DEF KeepNext, Uses, Live
<1>4. UsedOnce'
  BY <1>1, <1>3 DEF KeepNext, IInv, UsedOnce
<1>5. DeadUses'
  BY DEF KeepNext, IInv, DeadUses, Condition, Operand, Succ, Live
<1>. QED
  BY <1>2, <1>4, <1>5 DEF IInv

\* Dropping the entry at a shortens a sequence and keeps the rest in order.
LEMMA DropAt ==
  ASSUME NEW T, NEW s \in Seq(T), NEW a \in DOMAIN s, NEW d,
         d = [i \in 1..(Len(s) - 1) |-> IF i < a THEN s[i] ELSE s[i + 1]]
  PROVE  /\ d \in Seq(T) /\ Len(d) = Len(s) - 1 /\ DOMAIN d = 1..(Len(s) - 1)
         /\ \A i \in DOMAIN d :
              d[i] = s[IF i < a THEN i ELSE i + 1]
<1>1. DOMAIN s = 1..Len(s) /\ Len(s) \in Nat \ {0} /\ a \in 1..Len(s)
  OBVIOUS
<1>2. \A i \in 1..(Len(s) - 1) : d[i] \in T
  <2>. SUFFICES ASSUME NEW i \in 1..(Len(s) - 1) PROVE d[i] \in T
    OBVIOUS
  <2>1. i \in DOMAIN s /\ i + 1 \in DOMAIN s
    BY <1>1
  <2>. QED  BY <2>1
<1>3. Len(s) - 1 \in Nat
  BY <1>1
<1>4. d \in [1..(Len(s) - 1) -> T]
  BY <1>2
<1>5. d \in Seq(T)
  BY <1>3, <1>4, SeqDef
<1>6. Len(d) = Len(s) - 1
  BY <1>3, <1>4, <1>5
<1>. QED  BY <1>4, <1>5, <1>6

\* r is the PHI inst without its a-th entry, the first for b.
WithoutEntry(r, inst, b, a) ==
  /\ IsFirst(inst.from, b, a)
  /\ r \in Instructions /\ IsPhi(r)
  /\ r.from \in Seq(Blocks) /\ Len(inst.from) \in Nat
  /\ DOMAIN inst.opnds = 1..Len(inst.from) /\ DOMAIN inst.from = 1..Len(inst.from)
  /\ DOMAIN r.opnds = 1..(Len(inst.from) - 1) /\ DOMAIN r.from = DOMAIN r.opnds
  /\ \A i \in DOMAIN r.opnds :
       /\ r.opnds[i] = inst.opnds[IF i < a THEN i ELSE i + 1]
       /\ r.from[i] = inst.from[IF i < a THEN i ELSE i + 1]

\* A PHI with an entry for b drops the first.
LEMMA DroppedEntry ==
  ASSUME NEW inst \in Instructions, IsPhi(inst), NEW b \in Blocks,
         \E i \in DOMAIN inst.from : inst.from[i] = b,
         NEW r, r = DropIncoming(inst, b)
  PROVE  \E a \in 1..Len(inst.from) : WithoutEntry(r, inst, b, a)
<1>1. /\ inst.opnds \in Seq(Values) /\ inst.from \in Seq(Blocks)
      /\ Len(inst.from) = Len(inst.opnds)
  BY DEF Instructions
<1>2. PICK o \in Seq(Values), f \in Seq(Blocks) : o = inst.opnds /\ f = inst.from
  BY <1>1
<1>3. PICK a : a = First(f, b)
  OBVIOUS
<1>4. a \in DOMAIN f /\ IsFirst(f, b, a)
  BY <1>2, <1>3, FirstEntry
<1>5. Len(f) = Len(o) /\ DOMAIN f = 1..Len(f) /\ DOMAIN o = 1..Len(f) /\ Len(f) \in Nat
  BY <1>1, <1>2
<1>6. PICK ro, rf :
        /\ ro = [i \in 1..(Len(o) - 1) |-> IF i < a THEN o[i] ELSE o[i + 1]]
        /\ rf = [i \in 1..(Len(f) - 1) |-> IF i < a THEN f[i] ELSE f[i + 1]]
  OBVIOUS
<1>7. r = [inst EXCEPT !.opnds = ro, !.from = rf]
  BY <1>2, <1>3, <1>6 DEF DropIncoming
<1>8. /\ ro \in Seq(Values) /\ Len(ro) = Len(f) - 1 /\ DOMAIN ro = 1..(Len(f) - 1)
      /\ \A i \in DOMAIN ro : ro[i] = o[IF i < a THEN i ELSE i + 1]
  BY <1>4, <1>5, <1>6, DropAt
<1>9. /\ rf \in Seq(Blocks) /\ Len(rf) = Len(f) - 1 /\ DOMAIN rf = 1..(Len(f) - 1)
      /\ \A i \in DOMAIN rf : rf[i] = f[IF i < a THEN i ELSE i + 1]
  BY <1>4, <1>6, DropAt
<1>10. /\ r.op = inst.op /\ r.flags = inst.flags /\ r.dbg = inst.dbg /\ r.opnds = ro /\ r.from = rf
       /\ r \in [op : STRING, flags : SUBSET STRING, opnds : Seq(Values),
                 from : Seq(Blocks), dbg : BOOLEAN]
  BY <1>7, <1>8, <1>9 DEF Instructions
<1>11. r \in Instructions /\ IsPhi(r)
  BY <1>8, <1>9, <1>10 DEF Instructions, IsPhi
<1>. QED  BY <1>2, <1>4, <1>5, <1>8, <1>9, <1>10, <1>11 DEF WithoutEntry

\* What a PHI drops is its first entry for b; the first entry for another block
\* stays the first.
LEMMA Dropped ==
  ASSUME NEW inst \in Instructions, NEW b \in Blocks, NEW r, r = DropIncoming(inst, b)
  PROVE  /\ r \in Instructions /\ (IsPhi(r) <=> IsPhi(inst))
         /\ \A j \in DOMAIN r.opnds : \E k \in DOMAIN inst.opnds :
              /\ r.opnds[j] = inst.opnds[k]
              /\ IsPhi(inst) =>
                   /\ ~IsFirst(inst.from, b, k)
                   /\ \A d \in Blocks \ {b} :
                        IsFirst(inst.from, d, k) => IsFirst(r.from, d, j)
<1>1. CASE ~IsPhi(inst)
  BY <1>1 DEF DropIncoming
<1>2. CASE IsPhi(inst) /\ \A i \in DOMAIN inst.from : inst.from[i] # b
  <2>1. r = inst
    BY <1>2 DEF DropIncoming
  <2>2. DOMAIN inst.from = DOMAIN inst.opnds
    BY <1>2 DEF Instructions
  <2>. QED  BY <1>2, <2>1, <2>2 DEF IsFirst
<1>3. CASE IsPhi(inst) /\ \E i \in DOMAIN inst.from : inst.from[i] = b
  <2>1. PICK a \in 1..Len(inst.from) : WithoutEntry(r, inst, b, a)
    BY <1>3, DroppedEntry
  <2>2. PICK N \in Nat : N = Len(inst.from)
    BY <2>1 DEF WithoutEntry
  <2>. DEFINE o == inst.opnds
              f == inst.from
              ro == r.opnds
              rf == r.from
  <2>3. /\ DOMAIN f = 1..N /\ DOMAIN o = 1..N /\ DOMAIN ro = 1..(N - 1) /\ DOMAIN rf = 1..(N - 1)
        /\ IsFirst(f, b, a) /\ a \in 1..N
        /\ \A i \in 1..(N - 1) : /\ ro[i] = o[IF i < a THEN i ELSE i + 1]
                                /\ rf[i] = f[IF i < a THEN i ELSE i + 1]
    BY <2>1, <2>2 DEF WithoutEntry
  <2>. HIDE DEF o, f, ro, rf
  <2>4. ASSUME NEW j \in DOMAIN ro
        PROVE  \E k \in DOMAIN o :
                 /\ ro[j] = o[k]
                 /\ ~IsFirst(f, b, k)
                 /\ \A d \in Blocks \ {b} : IsFirst(f, d, k) => IsFirst(rf, d, j)
    <3>1. j \in 1..(N - 1) /\ a \in 1..N
      BY <2>3
    <3>2. PICK k : k = IF j < a THEN j ELSE j + 1
      OBVIOUS
    <3>3. k \in 1..N /\ k # a
      BY <3>1, <3>2
    <3>4. ro[j] = o[k] /\ rf[j] = f[k]
      BY <2>3, <3>1, <3>2
    <3>5. ~IsFirst(f, b, k)
      BY <2>3, <3>1, <3>3 DEF IsFirst
    <3>6. ASSUME NEW d \in Blocks \ {b}, IsFirst(f, d, k) PROVE IsFirst(rf, d, j)
      <4>1. rf[j] = d
        BY <3>4, <3>6 DEF IsFirst
      <4>2. ASSUME NEW i \in DOMAIN rf, rf[i] = d PROVE j <= i
        <5>1. i \in 1..(N - 1)
          BY <2>3
        <5>2. PICK m : m = IF i < a THEN i ELSE i + 1
          OBVIOUS
        <5>3. m \in 1..N
          BY <3>1, <5>1, <5>2
        <5>4. f[m] = d
          BY <2>3, <4>2, <5>2
        <5>5. k <= m
          BY <2>3, <3>6, <5>3, <5>4 DEF IsFirst
        <5>. QED  BY <3>1, <3>2, <5>1, <5>2, <5>5
      <4>. QED  BY <4>1, <4>2 DEF IsFirst
    <3>. QED  BY <2>3, <3>3, <3>4, <3>5, <3>6
  <2>. QED  BY <1>3, <2>1, <2>4 DEF o, f, ro, rf, WithoutEntry
<1>. QED  BY <1>1, <1>2, <1>3

\* The uses that are left lose their value, and nothing else changes.
LEMMA Undefined ==
  ASSUME NEW inst \in Instructions, NEW b, NEW r, r = Undefine(inst, b)
  PROVE  /\ r \in Instructions /\ (IsPhi(r) <=> IsPhi(inst)) /\ r.from = inst.from
         /\ DOMAIN r.opnds = DOMAIN inst.opnds
         /\ \A j \in DOMAIN inst.opnds :
              r.opnds[j] = IF inst.opnds[j][1] = b THEN Undef ELSE inst.opnds[j]
<1>1. PICK o \in Seq(Values) : o = inst.opnds
  BY DEF Instructions
<1>2. PICK ro : ro = [i \in DOMAIN o |-> IF o[i][1] = b THEN Undef ELSE o[i]]
  OBVIOUS
<1>3. r = [inst EXCEPT !.opnds = ro]
  BY <1>1, <1>2 DEF Undefine
<1>4. DOMAIN o = 1..Len(o) /\ Len(o) \in Nat /\ \A i \in DOMAIN o : o[i] \in Values
  OBVIOUS
<1>5. Undef \in Values
  BY DEF Undef, Values
<1>6. ro \in [1..Len(o) -> Values]
  BY <1>2, <1>4, <1>5
<1>7. ro \in Seq(Values)
  BY <1>4, <1>6, SeqDef
<1>8. Len(ro) = Len(o)
  BY <1>4, <1>6, <1>7
<1>9. /\ r.op = inst.op /\ r.flags = inst.flags /\ r.dbg = inst.dbg /\ r.opnds = ro /\ r.from = inst.from
      /\ r \in [op : STRING, flags : SUBSET STRING, opnds : Seq(Values),
                 from : Seq(Blocks), dbg : BOOLEAN]
  BY <1>3, <1>7 DEF Instructions
<1>10. r \in Instructions
  BY <1>1, <1>8, <1>9 DEF Instructions, IsPhi
<1>. QED  BY <1>1, <1>2, <1>9, <1>10 DEF IsPhi

\* Deleting a marked block touches no terminator; the PHIs of its successor
\* drop the only uses of its values outside it.
LEMMA DeleteDeadBlockIInv ==
  ASSUME NEW b \in Blocks
  PROVE  IInv /\ DeleteDeadBlock(b) => IInv'
<1>. SUFFICES ASSUME IInv, DeleteDeadBlock(b) PROVE IInv'
  OBVIOUS
<1>1. ~(next <= Len(Layout))
  BY BlocksAssumption DEF DeleteDeadBlock, IInv, TypeOK
<1>2. /\ Redirected' /\ Twins' /\ Comparing' /\ WorkKept' /\ DeadBranch' /\ UsedOnce'
      /\ prog' \in Programs
  BY <1>1 DEF DeleteDeadBlock, IInv, Redirected, Twins, Comparing, WorkKept, SameWork,
         DeadBranch, UsedOnce
<1>3. b \in DeleteList /\ erased' = erased \cup {b} /\ UNCHANGED <<term, DeleteList>>
  BY DEF DeleteDeadBlock
\* What becomes of one instruction.
<1> DEFINE Left(x, n) == IF x = Succ(b) THEN DropIncoming(code[x][n], b) ELSE code[x][n]
<1>4. /\ code' = [x \in Blocks |-> code'[x]]
      /\ \A x \in Blocks :
           code'[x] = [n \in DOMAIN code[x] |-> Undefine(Left(x, n), b)]
  BY DEF DeleteDeadBlock
<1>5. ASSUME NEW x \in Blocks, NEW n \in DOMAIN code[x], NEW l, l = Left(x, n)
      PROVE  /\ l \in Instructions /\ (IsPhi(l) <=> IsPhi(code[x][n]))
             /\ \A j \in DOMAIN l.opnds : \E k \in DOMAIN code[x][n].opnds :
                  /\ l.opnds[j] = code[x][n].opnds[k]
                  /\ IsPhi(code[x][n]) =>
                       /\ x = Succ(b) => ~IsFirst(code[x][n].from, b, k)
                       /\ \A d \in Blocks \ {b} :
                            IsFirst(code[x][n].from, d, k) => IsFirst(l.from, d, j)
  <2>1. PICK inst \in Instructions : inst = code[x][n]
    BY Instruction DEF IInv
  <2>2. CASE x = Succ(b)
    <3>1. l = DropIncoming(inst, b)
      BY <1>5, <2>1, <2>2
    <3>. QED  BY <2>1, <3>1, Dropped
  <2>3. CASE x # Succ(b)
    <3>1. l = inst
      BY <1>5, <2>1, <2>3
    <3>. QED  BY <2>1, <2>3, <3>1
  <2>. QED  BY <2>2, <2>3
<1> HIDE DEF Left
<1>6. ASSUME NEW x \in Blocks, NEW n \in DOMAIN code[x]
      PROVE  code'[x][n] = Undefine(Left(x, n), b) /\ code'[x][n] \in Instructions
  <2>1. PICK l : l = Left(x, n)
    OBVIOUS
  <2>2. l \in Instructions
    BY <1>5, <2>1
  <2>3. code'[x][n] = Undefine(l, b)
    BY <1>4, <2>1
  <2>. QED  BY <2>1, <2>2, <2>3, Undefined
<1>7. TypeOK'
  <2>1. ASSUME NEW x \in Blocks PROVE code'[x] \in Seq(Instructions)
    <3>1. code[x] \in Seq(Instructions)
      BY DEF IInv, TypeOK
    <3>2. DOMAIN code[x] = 1..Len(code[x]) /\ Len(code[x]) \in Nat
      BY <3>1
    <3>3. code'[x] = [n \in DOMAIN code[x] |-> code'[x][n]]
      BY <1>4
    <3>4. code'[x] \in [1..Len(code[x]) -> Instructions]
      BY <1>6, <3>2, <3>3
    <3>. QED  BY <3>2, <3>4, SeqDef
  <2>2. code' \in [Blocks -> Seq(Instructions)]
    BY <1>4, <2>1
  <2>. QED  BY <1>3, <2>2 DEF DeleteDeadBlock, IInv, TypeOK
<1>8. DeadUses'
  <2>. SUFFICES ASSUME NEW x \in Live \ {b}
                PROVE  /\ Condition(x)'
                       /\ \A n \in DOMAIN code'[x] : \A j \in DOMAIN code'[x][n].opnds :
                            Operand(x, n, j)'
    BY <1>3 DEF DeadUses, Live
  <2>1. x \in Blocks /\ x # b /\ DOMAIN code'[x] = DOMAIN code[x]
    BY <1>4 DEF Live
  <2>2. Condition(x)'
    BY <1>3 DEF IInv, DeadUses, Condition
  <2>3. ASSUME NEW n \in DOMAIN code[x], NEW j \in DOMAIN code'[x][n].opnds
        PROVE  Operand(x, n, j)'
    <3>1. PICK l, r : l = Left(x, n) /\ r = code'[x][n]
      OBVIOUS
    <3>2. PICK inst : inst = code[x][n]
      OBVIOUS
    <3>3. l \in Instructions /\ r = Undefine(l, b)
      BY <1>5, <1>6, <2>1, <3>1
    <3>4. /\ (IsPhi(r) <=> IsPhi(l)) /\ r.from = l.from /\ DOMAIN r.opnds = DOMAIN l.opnds
          /\ \A i \in DOMAIN l.opnds :
               r.opnds[i] = IF l.opnds[i][1] = b THEN Undef ELSE l.opnds[i]
      BY <3>3, Undefined
    <3>5. j \in DOMAIN l.opnds
      BY <3>1, <3>4
    <3>6. PICK k \in DOMAIN inst.opnds :
            /\ l.opnds[j] = inst.opnds[k]
            /\ IsPhi(inst) =>
                 /\ x = Succ(b) => ~IsFirst(inst.from, b, k)
                 /\ \A d \in Blocks \ {b} :
                      IsFirst(inst.from, d, k) => IsFirst(l.from, d, j)
      BY <1>5, <2>1, <3>1, <3>2, <3>5
    <3>7. IsPhi(l) <=> IsPhi(inst)
      BY <1>5, <2>1, <3>1, <3>2
    <3>8. PICK v : v = inst.opnds[k]
      OBVIOUS
    <3>9. /\ v # Undef /\ v[1] \notin erased
          /\ v[1] \in DeleteList \ {x} =>
               x = Succ(v[1]) /\ IsPhi(inst) /\ IsFirst(inst.from, v[1], k)
      BY <3>2, <3>8 DEF IInv, DeadUses, Operand
    <3>10. v[1] # b
      BY <1>3, <2>1, <3>6, <3>9
    <3>11. r.opnds[j] = v
      BY <3>4, <3>5, <3>6, <3>8, <3>10
    <3>12. ASSUME v[1] \in DeleteList \ {x}
           PROVE  x = Succ(v[1]) /\ IsPhi(r) /\ IsFirst(r.from, v[1], j)
      <4>1. v[1] \in Blocks \ {b}
        BY <3>10, <3>12 DEF IInv, TypeOK
      <4>. QED  BY <3>4, <3>6, <3>7, <3>9, <3>12, <4>1
    <3>13. Succ(v[1])' = Succ(v[1])
      BY <1>3 DEF Succ
    <3>. QED  BY <1>3, <3>1, <3>9, <3>10, <3>11, <3>12, <3>13 DEF Operand
  <2>. QED  BY <2>1, <2>2, <2>3
<1>. QED  BY <1>2, <1>7, <1>8 DEF IInv

\* Nothing changes when the variables do not.
LEMMA Stutter == IInv /\ UNCHANGED vars => IInv'
<1>. SUFFICES ASSUME IInv, UNCHANGED vars PROVE IInv'
  OBVIOUS
<1>1. /\ TypeOK' /\ Redirected' /\ Twins' /\ Comparing' /\ WorkKept' /\ DeadBranch'
      /\ prog' \in Programs
  BY DEF vars, IInv, TypeOK, Redirected, Twins, Comparing, WorkKept, SameWork,
         DeadBranch
<1>2. \A v : Uses(v)' = Uses(v)
  BY DEF vars, Uses, Live
<1>3. UsedOnce'
  BY <1>2 DEF vars, IInv, UsedOnce
<1>4. DeadUses'
  BY DEF vars, IInv, DeadUses, Condition, Operand, Succ, Live
<1>. QED  BY <1>1, <1>3, <1>4 DEF IInv

\* The invariant holds in every state of the pass.
LEMMA Inductive == Spec => []IInv
<1>1. IInv /\ [Next]_vars => IInv'
  BY Stutter, MergeNextIInv, KeepNextIInv, DeleteDeadBlockIInv DEF Next
<1>. QED  BY <1>1, InitIInv, PTL DEF Spec
-----------------------------------------------------------------------------
\* PHIs, for functions in which no two blocks that might be merged have PHIs of
\* their own.  A PHI never changes its place; an erased block has no entry left
\* in it, any other one for each of its edges.
PhiFree(x) == \A n \in DOMAIN prog.code[x] : ~IsPhi(prog.code[x][n])

PhiPlaces ==
  \A x \in Blocks :
    /\ DOMAIN code[x] = DOMAIN prog.code[x]
    /\ \A n \in DOMAIN prog.code[x] : IsPhi(code[x][n]) <=> IsPhi(prog.code[x][n])

DeadJoins == \A b \in DeleteList : Unconditional(b)

MergedPlain == \A x \in Blocks : into[x] # x => PhiFree(x) /\ PhiFree(into[x])

Entries(from, p) == {i \in DOMAIN from : from[i] = p}

EntriesMatch ==
  \A x \in Live : \A n \in DOMAIN code[x] : IsPhi(code[x][n]) =>
    \A p \in Blocks :
      Cardinality(Entries(code[x][n].from, p))
        = IF p \in erased THEN 0 ELSE Cardinality(Edges(p, x))

PhiInv ==
  /\ IInv
  /\ PhiPlaces
  /\ DeadJoins
  /\ MergedPlain
  /\ EntriesMatch
  /\ SamePhiValue

\* A list has one first entry for a block.
LEMMA FirstOnly ==
  ASSUME NEW from \in Seq(Blocks), NEW b, NEW i \in DOMAIN from, IsFirst(from, b, i)
  PROVE  First(from, b) = i
<1>1. from[i] = b
  BY DEF IsFirst
<1>2. First(from, b) \in DOMAIN from /\ IsFirst(from, b, First(from, b))
  BY <1>1, FirstEntry
<1>3. i <= First(from, b) /\ First(from, b) <= i
  BY <1>1, <1>2 DEF IsFirst
<1>4. DOMAIN from \subseteq Nat
  OBVIOUS
<1>. QED  BY <1>2, <1>3, <1>4

\* Dropping an entry for b leaves those for other blocks, and one less for b.
LEMMA DroppedCount ==
  ASSUME NEW inst \in Instructions, IsPhi(inst), NEW b \in Blocks,
         NEW r, r = DropIncoming(inst, b), NEW p \in Blocks
  PROVE  Cardinality(Entries(r.from, p))
           = IF p = b /\ Cardinality(Entries(inst.from, b)) # 0
             THEN Cardinality(Entries(inst.from, b)) - 1
             ELSE Cardinality(Entries(inst.from, p))
<1>1. inst.from \in Seq(Blocks)
  BY DEF Instructions
<1>2. Cardinality(Entries(inst.from, b)) = 0 <=> \A i \in DOMAIN inst.from : inst.from[i] # b
  BY <1>1, Places DEF Entries
<1>3. CASE \A i \in DOMAIN inst.from : inst.from[i] # b
  <2>1. r = inst
    BY <1>3 DEF DropIncoming
  <2>. QED  BY <1>2, <1>3, <2>1
<1>4. CASE \E i \in DOMAIN inst.from : inst.from[i] = b
  <2>1. PICK a \in 1..Len(inst.from) : WithoutEntry(r, inst, b, a)
    BY <1>4, DroppedEntry
  <2>2. PICK N \in Nat, f \in Seq(Blocks), rf \in Seq(Blocks) :
          N = Len(inst.from) /\ f = inst.from /\ rf = r.from
    BY <1>1, <2>1 DEF WithoutEntry
  <2>3. /\ DOMAIN f = 1..N /\ DOMAIN rf = 1..(N - 1) /\ a \in 1..N /\ f[a] = b
        /\ \A i \in 1..(N - 1) : rf[i] = f[IF i < a THEN i ELSE i + 1]
    BY <2>1, <2>2 DEF IsFirst, WithoutEntry
  <2> DEFINE S == Entries(f, p) \ {a}
             R == Entries(rf, p)
             g == [i \in R |-> IF i < a THEN i ELSE i + 1]
  <2>4. R \subseteq 1..(N - 1) /\ S \subseteq 1..N
    BY <2>3 DEF Entries
  <2>5. g \in [R -> S]
    <3>. SUFFICES ASSUME NEW i \in R PROVE (IF i < a THEN i ELSE i + 1) \in S
      OBVIOUS
    <3>1. i \in 1..(N - 1) /\ rf[i] = p
      BY <2>3 DEF Entries
    <3>. QED  BY <2>3, <3>1 DEF Entries
  <2>6. \A i, j \in R : g[i] = g[j] => i = j
    BY <2>3, <2>4
  <2>7. \A k \in S : \E i \in R : g[i] = k
    <3>. SUFFICES ASSUME NEW k \in S PROVE \E i \in R : g[i] = k
      OBVIOUS
    <3>1. k \in 1..N /\ k # a /\ f[k] = p
      BY <2>3 DEF Entries
    <3>2. PICK i : i = IF k < a THEN k ELSE k - 1
      OBVIOUS
    <3>3. i \in 1..(N - 1) /\ (IF i < a THEN i ELSE i + 1) = k
      BY <2>3, <3>1, <3>2
    <3>4. rf[i] = p
      BY <2>3, <3>1, <3>3
    <3>5. i \in R
      BY <2>3, <3>3, <3>4 DEF Entries
    <3>. QED  BY <3>3, <3>5
  <2>8. IsFiniteSet(R) /\ IsFiniteSet(Entries(f, p))
    BY Places DEF Entries
  <2> HIDE DEF g
  <2>9. g \in Bijection(R, S)
    BY <2>5, <2>6, <2>7, Fun_IsBij
  <2>10. ExistsBijection(R, S)
    BY <2>9 DEF ExistsBijection
  <2>11. Cardinality(S) = Cardinality(R)
    BY <2>8, <2>10, FS_Bijection
  <2>12. Cardinality(S) = IF a \in Entries(f, p) THEN Cardinality(Entries(f, p)) - 1
                          ELSE Cardinality(Entries(f, p))
    BY <2>8, FS_RemoveElement
  <2>13. a \in Entries(f, p) <=> p = b
    BY <2>3 DEF Entries
  <2>. QED  BY <1>2, <1>4, <2>2, <2>11, <2>12, <2>13
<1>. QED  BY <1>3, <1>4

\* Dropping an entry for b leaves the value for another block.
LEMMA DroppedValue ==
  ASSUME NEW inst \in Instructions, IsPhi(inst), NEW b \in Blocks, NEW c \in Blocks \ {b},
         NEW r, r = DropIncoming(inst, b), \E i \in DOMAIN inst.from : inst.from[i] = c
  PROVE  /\ First(r.from, c) \in DOMAIN r.opnds
         /\ IncomingValue(r, c) = IncomingValue(inst, c)
<1>1. inst.from \in Seq(Blocks) /\ DOMAIN inst.from = DOMAIN inst.opnds
  BY DEF Instructions
<1>2. PICK k : k = First(inst.from, c)
  OBVIOUS
<1>3. k \in DOMAIN inst.from /\ IsFirst(inst.from, c, k)
  BY <1>1, <1>2, FirstEntry
<1>4. CASE \A i \in DOMAIN inst.from : inst.from[i] # b
  <2>1. r = inst
    BY <1>4 DEF DropIncoming
  <2>. QED  BY <1>1, <1>2, <1>3, <2>1
<1>5. CASE \E i \in DOMAIN inst.from : inst.from[i] = b
  <2>1. PICK a \in 1..Len(inst.from) : WithoutEntry(r, inst, b, a)
    BY <1>5, DroppedEntry
  <2>2. PICK N \in Nat, f \in Seq(Blocks), rf \in Seq(Blocks) :
          N = Len(inst.from) /\ f = inst.from /\ rf = r.from
    BY <1>1, <2>1 DEF WithoutEntry
  <2>3. /\ DOMAIN f = 1..N /\ DOMAIN rf = 1..(N - 1) /\ a \in 1..N /\ f[a] = b
        /\ k \in 1..N /\ f[k] = c /\ \A j \in 1..N : f[j] = c => k <= j
        /\ \A i \in 1..(N - 1) : rf[i] = f[IF i < a THEN i ELSE i + 1]
    BY <1>3, <2>1, <2>2 DEF IsFirst, WithoutEntry
  <2>4. PICK i : i = IF k < a THEN k ELSE k - 1
    OBVIOUS
  <2>5. i \in 1..(N - 1) /\ (IF i < a THEN i ELSE i + 1) = k
    BY <2>3, <2>4
  <2>6. rf[i] = c
    BY <2>3, <2>5
  <2>7. ASSUME NEW j \in DOMAIN rf, rf[j] = c PROVE i <= j
    <3>1. j \in 1..(N - 1)
      BY <2>3
    <3>2. PICK m : m = IF j < a THEN j ELSE j + 1
      OBVIOUS
    <3>3. m \in 1..N /\ f[m] = c
      BY <2>3, <2>7, <3>1, <3>2
    <3>4. k <= m
      BY <2>3, <3>3
    <3>. QED  BY <2>3, <2>4, <3>1, <3>2, <3>3, <3>4
  <2>8. i \in DOMAIN rf /\ IsFirst(rf, c, i)
    BY <2>3, <2>5, <2>6, <2>7 DEF IsFirst
  <2>9. First(r.from, c) = i
    BY <2>2, <2>8, FirstOnly
  <2>10. i \in DOMAIN r.opnds /\ r.opnds[i] = inst.opnds[k]
    BY <2>1, <2>2, <2>5 DEF WithoutEntry
  <2>. QED  BY <1>2, <2>9, <2>10 DEF IncomingValue
<1>. QED  BY <1>4, <1>5

\* NonDbg names no position twice.
LEMMA NonDbgOnce ==
  ASSUME NEW c \in Seq(Instructions), NEW j \in 1..Len(NonDbg(c)), NEW k \in 1..Len(NonDbg(c)),
         NonDbg(c)[j] = NonDbg(c)[k]
  PROVE  j = k
<1>1. PICK S : S = {n \in DOMAIN c : ~c[n].dbg}
  OBVIOUS
<1>2. PICK N \in Nat : N = Len(c)
  OBVIOUS
<1>3. S \in SUBSET (1..N)
  BY <1>1, <1>2
<1>4. PICK A : A = Ascending(S)
  OBVIOUS
<1>5. NonDbg(c) = A
  BY <1>1, <1>4 DEF NonDbg
<1>6. \A i, m \in 1..Len(A) : A[i] = A[m] => i = m
  <2>1. \A i, m \in 1..Len(Ascending(S)) : Ascending(S)[i] = Ascending(S)[m] => i = m
    BY <1>3, AscendingLists
  <2>. QED  BY <1>4, <2>1
<1>7. j \in 1..Len(A) /\ k \in 1..Len(A) /\ A[j] = A[k]
  BY <1>5
<1>. QED  BY <1>6, <1>7

\* Neither a block to be merged nor the one to retain has a PHI.
LEMMA CandidatesPlain ==
  ASSUME TwinsWithoutPhis, IInv, NEW b \in Blocks, NEW c \in Candidates(b),
         next <= Len(Layout)
  PROVE  PhiFree(b) /\ PhiFree(c)
<1>1. /\ c \in Blocks \ {Entry} /\ b \in Blocks \ {Entry} /\ c # b
      /\ Operations(prog.code[b]) = Operations(prog.code[c])
  BY Merged
<1>2. Unconditional(b) /\ Unconditional(c)
  BY DEF Candidates, MayErase
<1>3. Joins(prog, b) /\ Joins(prog, c) /\ prog \in Programs
  BY <1>1, <1>2, StillJoins DEF IInv
<1>4. PhiFree(b)
  BY <1>1, <1>3 DEF TwinsWithoutPhis, PhiFree
<1>5. PhiFree(c)
  BY <1>1, <1>3 DEF TwinsWithoutPhis, PhiFree
<1>. QED  BY <1>4, <1>5

\* An entry for every edge.
LEMMA EdgeEntry ==
  ASSUME PhiInv, NEW x \in Live, NEW n \in DOMAIN code[x], IsPhi(code[x][n]),
         NEW p \in Live, NEW i \in DOMAIN term[p].tgts, term[p].tgts[i] = x
  PROVE  \E k \in DOMAIN code[x][n].from : code[x][n].from[k] = p
<1>1. p \in Blocks /\ x \in Blocks /\ p \notin erased /\ TypeOK
  BY DEF Live, PhiInv, IInv
<1>2. PICK tgts \in Seq(Blocks \ {Entry}) : tgts = term[p].tgts
  BY <1>1 DEF TypeOK, Terminators
<1>3. PICK from \in Seq(Blocks) : from = code[x][n].from
  BY <1>1, Instruction
<1>4. Cardinality({k \in DOMAIN from : from[k] = p})
        = Cardinality({k \in DOMAIN tgts : tgts[k] = x})
  BY <1>1, <1>2, <1>3 DEF PhiInv, EntriesMatch, Entries, Edges
<1>5. Cardinality({k \in DOMAIN tgts : tgts[k] = x}) # 0
  <2>1. i \in DOMAIN tgts /\ tgts[i] = x
    BY <1>2
  <2>. QED  BY <2>1, HasPlace
<1>6. Cardinality({k \in DOMAIN from : from[k] = p}) # 0
  BY <1>4, <1>5
<1>7. \E k \in DOMAIN from : from[k] = p
  BY <1>6, Places
<1>. QED  BY <1>3, <1>7

\* A block with a PHI stands for itself and is never marked.
LEMMA PhiStandsForItself ==
  ASSUME PhiInv, NEW t \in Blocks, HeadIsPhi(prog.code[t])
  PROVE  /\ into[t] = t /\ t \notin DeleteList /\ t \in Live
         /\ 1 \in DOMAIN code[t] /\ IsPhi(code[t][1])
<1>1. prog.code[t] \in Seq(Instructions)
  BY ProgramAssumption DEF PhiInv, IInv
<1>2. 1 \in DOMAIN prog.code[t] /\ IsPhi(prog.code[t][1])
  BY <1>1 DEF HeadIsPhi
<1>3. into[t] = t
  BY <1>2 DEF PhiInv, MergedPlain, PhiFree
<1>4. t \notin DeleteList /\ t \in Live
  BY <1>3 DEF PhiInv, IInv, TypeOK, Live
<1>. QED  BY <1>2, <1>3, <1>4 DEF PhiInv, PhiPlaces

\* The PHI at the head of t has an entry for each predecessor.
LEMMA HeadEntry ==
  ASSUME PhiInv, NEW t \in Blocks, HeadIsPhi(prog.code[t]),
         NEW p \in Live, NEW i \in DOMAIN term[p].tgts, term[p].tgts[i] = t
  PROVE  \E k \in DOMAIN code[t][1].from : code[t][1].from[k] = p
<1>1. t \in Live /\ 1 \in DOMAIN code[t] /\ IsPhi(code[t][1])
  BY PhiStandsForItself
<1>2. \A n \in DOMAIN code[t] : IsPhi(code[t][n]) =>
        \E k \in DOMAIN code[t][n].from : code[t][n].from[k] = p
  BY <1>1, EdgeEntry
<1>. QED  BY <1>1, <1>2

\* Blocks with the same operations have as many instructions.
LEMMA SameOperationsLength ==
  ASSUME NEW c, NEW d, Operations(c) = Operations(d)
  PROVE  1..Len(NonDbg(c)) = 1..Len(NonDbg(d))
<1>1. PICK n, m : n = NonDbg(c) /\ m = NonDbg(d)
  OBVIOUS
<1>2. [k \in 1..Len(n) |-> <<c[n[k]].op, c[n[k]].opnds>>]
        = [k \in 1..Len(m) |-> <<d[m[k]].op, d[m[k]].opnds>>]
  BY <1>1 DEF Operations
<1>3. 1..Len(n) = 1..Len(m)
  BY <1>2
<1>. QED  BY <1>1, <1>3

\* The twin of a value that a PHI takes from b is the value it takes from c.
LEMMA TwinIncoming ==
  ASSUME PhiInv, next <= Len(Layout),
         NEW b \in Blocks, NEW c \in Candidates(b), NEW t \in Blocks, t = Succ(b),
         1 \in DOMAIN code[t], IsPhi(code[t][1]),
         NEW k \in 1..Len(NonDbg(code[b])),
         NEW u \in Uses(<<b, NonDbg(code[b])[k]>>)
  PROVE  IncomingValue(code[t][1], c) = <<c, NonDbg(code[c])[k]>>
<1>1. /\ code = prog.code /\ erased = {} /\ prog \in Programs /\ IInv /\ TypeOK
      /\ code[b] \in Seq(Instructions) /\ code[c] \in Seq(Instructions)
      /\ c \in Blocks /\ c # b /\ Unconditional(c) /\ Live = Blocks
      /\ term[b].tgts = term[c].tgts /\ Operations(prog.code[b]) = Operations(prog.code[c])
  BY Merged DEF PhiInv, IInv, Comparing, Live, TypeOK, Candidates
<1>2. PICK w : w = <<c, NonDbg(code[c])[k]>>
  OBVIOUS
<1>3. CanMergeInstructions(<<b, NonDbg(code[b])[k]>>, <<c, NonDbg(code[c])[k]>>)
  <2>1. Identical(b, c)
    BY DEF Candidates
  <2>. QED  BY <2>1 DEF Identical
<1>4. Cardinality(Uses(w)) = 1 /\ CanRemoveInst(w)
  BY <1>2, <1>3 DEF CanMergeInstructions
<1>5. PICK q \in Uses(w) :
        \/ q[1] = c
        \/ /\ q[1] = Succ(c) /\ q[2] > 0
           /\ IsPhi(code[q[1]][q[2]])
           /\ IncomingValue(code[q[1]][q[2]], c) = w
  BY <1>2, <1>4 DEF CanRemoveInst
<1>6. \/ \E x \in Live : \E n \in DOMAIN code[x] : \E i \in DOMAIN code[x][n].opnds :
           q = <<x, n, i>> /\ code[x][n].opnds[i] = w
      \/ \E x \in Live : q = <<x, 0, 0>> /\ term[x].cond = w
  BY DEF Uses
\* The condition of a branch to one block is no value of the function.
<1>7. ASSUME NEW x \in Live, q = <<x, 0, 0>>, term[x].cond = w PROVE FALSE
  <2>1. x = c
    BY <1>5, <1>7
  <2>2. Joins(prog, c)
    BY <1>1, StillJoins
  <2>3. prog.term[c].cond[1] = Outside
    BY <1>1, <2>2, ProgramAssumption
  <2>4. prog.term[c].cond = w
    BY <1>1, <1>7, <2>1 DEF IInv, Redirected
  <2>. QED  BY <1>1, <1>2, <2>3, <2>4, BlocksAssumption
\* A use in c would have a twin in b.
<1>8. ASSUME NEW n \in DOMAIN code[c], NEW i \in DOMAIN code[c][n].opnds,
             q = <<c, n, i>>, code[c][n].opnds[i] = w
      PROVE  FALSE
  <2>1. ~code[c][n].dbg
    <3>1. code[c][n].dbg => code[c][n].opnds = <<>>
      BY <1>1, ProgramAssumption
    <3>. QED  BY <1>8, <3>1
  <2>2. PICK m \in DOMAIN code[b] : code[b][m].opnds = code[c][n].opnds
    BY <1>1, <2>1, TwinUse
  <2>3. <<b, m, i>> \in Uses(w)
    BY <1>1, <1>8, <2>2, OperandUse
  <2>4. <<b, m, i>> = q
    BY <1>1, <1>4, <2>3, OneUse
  <2>. QED  BY <1>1, <1>8, <2>4
\* What is left is the PHI of the successor; there is only one.
<1>9. ASSUME NEW x \in Live, NEW n \in DOMAIN code[x], NEW i \in DOMAIN code[x][n].opnds,
             q = <<x, n, i>>, code[x][n].opnds[i] = w
      PROVE  IncomingValue(code[t][1], c) = w
  <2>1. x # c
    BY <1>8, <1>9
  <2>2. x = Succ(c) /\ IsPhi(code[x][n]) /\ IncomingValue(code[x][n], c) = w
    BY <1>5, <1>9, <2>1
  <2>3. x = t
    BY <1>1, <2>2 DEF Succ
  <2>4. code[t] \in Seq(Instructions) /\ DOMAIN code[t] = 1..Len(code[t]) /\ Len(code[t]) \in Nat
    BY <1>1 DEF TypeOK
  <2>5. n = 1
    <3>. SUFFICES ASSUME n # 1 PROVE FALSE
      OBVIOUS
    <3>1. n \in 2..Len(code[t]) /\ 2 \in 1..n
      BY <2>3, <2>4
    <3>2. IsPhi(code[t][2])
      BY <1>1, <2>2, <2>3, <3>1, ProgramAssumption
    <3>3. Len(code[t]) > 1 /\ code[t] # <<>>
      BY <2>4, <3>1
    <3>4. ManyPhis(t)
      BY <3>2, <3>3 DEF ManyPhis, HasPhi, HeadIsPhi
    <3>5. ~ManyPhis(Succ(b))
      BY DEF Candidates, MayErase
    <3>. QED  BY <3>4, <3>5
  <2>. QED  BY <2>2, <2>3, <2>5
<1>. QED  BY <1>2, <1>6, <1>7, <1>9

\* The value that the PHI took from a block merged into b before is the one it
\* takes from the block that b is merged into.
LEMMA MergedValue ==
  ASSUME TwinsWithoutPhis, PhiInv, next <= Len(Layout),
         NEW b \in Blocks, NEW c \in Candidates(b),
         NEW x \in Blocks \ {Entry}, Unconditional(x), into[x] = b,
         NEW t \in Blocks, t = prog.term[x].tgts[1], HeadIsPhi(prog.code[t])
  PROVE  SameValue(IncomingValue(prog.code[t][1], x), x, IncomingValue(prog.code[t][1], c), c)
<1>1. /\ code = prog.code /\ erased = {} /\ prog \in Programs /\ IInv /\ TypeOK
      /\ code[b] \in Seq(Instructions) /\ code[c] \in Seq(Instructions)
      /\ c \in Blocks /\ c # b /\ Live = Blocks
      /\ Edges(c, Succ(b)) # {} /\ SimilarIncoming(b, c)
      /\ Unconditional(b)
  BY Merged DEF PhiInv, IInv, Comparing, Live, TypeOK, Candidates, Preds, MayErase
<1>2. into[t] = t /\ t \in Live /\ 1 \in DOMAIN code[t] /\ IsPhi(code[t][1])
  BY PhiStandsForItself
<1>3. PICK phi : phi = code[t][1]
  OBVIOUS
<1>4. /\ phi.from \in Seq(Blocks) /\ DOMAIN phi.from = DOMAIN phi.opnds
      /\ \A j \in DOMAIN phi.opnds : phi.opnds[j] \in Values
  <2>1. /\ code[t][1].from \in Seq(Blocks) /\ DOMAIN code[t][1].from = DOMAIN code[t][1].opnds
        /\ \A j \in DOMAIN code[t][1].opnds : code[t][1].opnds[j] \in Values
    BY <1>1, <1>2, Instruction, Zenon
  <2>. QED  BY <1>3, <2>1, Zenon
<1>5. term[x].tgts[1] = t /\ term[b].tgts[1] = t /\ 1 \in DOMAIN term[x].tgts
      /\ 1 \in DOMAIN term[b].tgts /\ Succ(b) = t
  <2>1. 1 \in DOMAIN term[x].tgts /\ 1 \in DOMAIN prog.term[x].tgts
    BY <1>1, StillJoins
  <2>2. term[x].tgts[1] = into[prog.term[x].tgts[1]]
    BY <1>1, <2>1 DEF IInv, Redirected
  <2>3. term[x].tgts[1] = t
    BY <1>2, <2>2
  <2>4. term[b].tgts = term[x].tgts
    BY <1>1 DEF IInv, Twins
  <2>. QED  BY <2>1, <2>3, <2>4 DEF Succ
<1>6. \E j \in DOMAIN phi.from : phi.from[j] = x
  <2>1. x \in Live
    BY <1>1
  <2>2. \E j \in DOMAIN code[t][1].from : code[t][1].from[j] = x
    BY <1>5, <2>1, HeadEntry, Zenon
  <2>. QED  BY <1>3, <2>2, Zenon
<1>7. \E j \in DOMAIN phi.from : phi.from[j] = b
  <2>1. b \in Live
    BY <1>1
  <2>2. \E j \in DOMAIN code[t][1].from : code[t][1].from[j] = b
    BY <1>5, <2>1, HeadEntry, Zenon
  <2>. QED  BY <1>3, <2>2, Zenon
<1>8. \E j \in DOMAIN phi.from : phi.from[j] = c
  <2>1. c \in Live
    BY <1>1
  <2>2. PICK i \in DOMAIN term[c].tgts : term[c].tgts[i] = t
    BY <1>1, <1>5 DEF Edges
  <2>3. \E j \in DOMAIN code[t][1].from : code[t][1].from[j] = c
    BY <2>1, <2>2, HeadEntry, Zenon
  <2>. QED  BY <1>3, <2>3, Zenon
<1>9. PICK fx, fb, fc : fx = First(phi.from, x) /\ fb = First(phi.from, b) /\ fc = First(phi.from, c)
  OBVIOUS
<1>10. /\ fx \in DOMAIN phi.opnds /\ phi.from[fx] = x
       /\ fb \in DOMAIN phi.opnds /\ phi.from[fb] = b
       /\ fc \in DOMAIN phi.opnds /\ phi.from[fc] = c
  <2>1. fx \in DOMAIN phi.from /\ IsFirst(phi.from, x, fx)
    BY <1>4, <1>6, <1>9, FirstEntry
  <2>2. fb \in DOMAIN phi.from /\ IsFirst(phi.from, b, fb)
    BY <1>4, <1>7, <1>9, FirstEntry
  <2>3. fc \in DOMAIN phi.from /\ IsFirst(phi.from, c, fc)
    BY <1>4, <1>8, <1>9, FirstEntry
  <2>. QED  BY <1>4, <2>1, <2>2, <2>3 DEF IsFirst
<1>11. PICK vx \in Values, vb \in Values, vc \in Values :
         vx = phi.opnds[fx] /\ vb = phi.opnds[fb] /\ vc = phi.opnds[fc]
  BY <1>4, <1>10
<1>12. /\ IncomingValue(phi, x) = vx /\ IncomingValue(phi, b) = vb
       /\ IncomingValue(phi, c) = vc
  BY <1>9, <1>11 DEF IncomingValue
<1>13. SameValue(vx, x, vb, b)
  <2>1. x \in Blocks \ {Entry} /\ HeadIsPhi(prog.code[prog.term[x].tgts[1]])
    OBVIOUS
  <2>2. SameValue(IncomingValue(prog.code[t][1], x), x,
                  IncomingValue(code[into[t]][1], into[x]), into[x])
    BY <2>1, Zenon DEF PhiInv, SamePhiValue
  <2>. QED  BY <1>1, <1>2, <1>3, <1>12, <2>2, Zenon
<1>14. vb = vc \/ (vb[1] = b /\ vc[1] = c)
  <2>1. HasPhi(t)
    BY <1>1 DEF HasPhi
  <2>. QED  BY <1>1, <1>3, <1>5, <1>12, <2>1 DEF SimilarIncoming
\* A value of b that the PHI takes has no other use, so no other entry.
<1>15. ASSUME vb[1] = b, NEW j \in DOMAIN phi.opnds, phi.opnds[j] = vb PROVE j = fb
  <2>1. <<t, 1, fb>> \in Uses(vb) /\ <<t, 1, j>> \in Uses(vb)
    BY <1>2, <1>3, <1>10, <1>11, <1>15, OperandUse, Zenon
  <2>2. Cardinality(Uses(vb)) = 1
    BY <1>1, <1>15, <2>1, MarkedUse
  <2>3. <<t, 1, j>> = <<t, 1, fb>>
    BY <1>1, <2>1, <2>2, OneUse
  <2>. QED  BY <2>3
<1>16. PICK nx, nb, nc : nx = NonDbg(code[x]) /\ nb = NonDbg(code[b]) /\ nc = NonDbg(code[c])
  OBVIOUS
<1>17. vx = vb \/ \E k \in 1..Len(nx) : vx = <<x, nx[k]>> /\ vb = <<b, nb[k]>>
  BY <1>1, <1>13, <1>16 DEF SameValue
<1>18. vx = vc \/ \E k \in 1..Len(nx) : vx = <<x, nx[k]>> /\ vc = <<c, nc[k]>>
  <2>1. CASE vb = vc
    <3>1. ASSUME vb[1] = b PROVE FALSE
      <4>1. fc = fb
        BY <1>10, <1>11, <1>15, <2>1, <3>1
      <4>. QED  BY <1>1, <1>10, <4>1
    <3>. QED  BY <1>17, <2>1, <3>1
  <2>2. CASE vb[1] = b /\ vc[1] = c
    <3>1. <<t, 1, fb>> \in Uses(vb)
      BY <1>2, <1>3, <1>10, <1>11, OperandUse, Zenon
    <3>2. vb[2] \in DOMAIN code[b] /\ ~code[b][vb[2]].dbg
      BY <1>1, <2>2, <3>1, UsedDefined
    <3>3. PICK k \in 1..Len(nb) : nb[k] = vb[2]
      BY <1>1, <1>16, <3>2, NonDbgLists
    <3>4. vb = <<b, nb[k]>>
      BY <2>2, <3>3 DEF Values
    <3>5. vc = <<c, nc[k]>>
      <4>1. <<t, 1, fb>> \in Uses(<<b, NonDbg(code[b])[k]>>)
        BY <1>16, <3>1, <3>4
      <4>2. k \in 1..Len(NonDbg(code[b])) /\ t = Succ(b)
        BY <1>5, <1>16
      <4>3. IncomingValue(code[t][1], c) = <<c, NonDbg(code[c])[k]>>
        BY <1>2, <4>1, <4>2, TwinIncoming
      <4>. QED  BY <1>3, <1>12, <1>16, <4>3
    <3>6. CASE vx = vb
      <4>1. fx = fb
        BY <1>10, <1>11, <1>15, <2>2, <3>6
      <4>2. x = b
        BY <1>10, <4>1
      <4>3. nx = nb
        BY <1>16, <4>2
      <4>. QED  BY <3>4, <3>5, <3>6, <4>2, <4>3
    <3>7. ASSUME NEW j \in 1..Len(nx), vx = <<x, nx[j]>>, vb = <<b, nb[j]>>
          PROVE  \E i \in 1..Len(nx) : vx = <<x, nx[i]>> /\ vc = <<c, nc[i]>>
      <4>1. Operations(prog.code[b]) = Operations(prog.code[x])
        BY <1>1 DEF IInv, WorkKept
      <4>2. j \in 1..Len(nb)
        <5>1. Operations(code[x]) = Operations(code[b])
          BY <1>1, <4>1
        <5>2. 1..Len(NonDbg(code[x])) = 1..Len(NonDbg(code[b]))
          BY <5>1, SameOperationsLength
        <5>. QED  BY <1>16, <5>2
      <4>3. nb[j] = nb[k]
        BY <3>4, <3>7
      <4>4. j = k
        BY <1>1, <1>16, <3>3, <4>2, <4>3, NonDbgOnce
      <4>. QED  BY <3>5, <3>7, <4>4
    <3>. QED  BY <1>17, <3>6, <3>7
  <2>. QED  BY <1>14, <2>1, <2>2
<1>. QED  BY <1>1, <1>3, <1>12, <1>16, <1>18, Zenon DEF SameValue

\* In the input every PHI has its entries.
LEMMA InitPhiInv == Init => PhiInv
<1>. SUFFICES ASSUME Init PROVE PhiInv
  OBVIOUS
<1>1. IInv /\ prog \in Programs /\ code = prog.code /\ term = prog.term
      /\ erased = {} /\ DeleteList = {} /\ \A b \in Blocks : into[b] = b
  BY InitIInv DEF Init
<1>2. PhiPlaces /\ DeadJoins /\ MergedPlain
  BY <1>1 DEF PhiPlaces, DeadJoins, MergedPlain
<1>3. EntriesMatch
  <2>. SUFFICES ASSUME NEW x \in Blocks, NEW n \in DOMAIN prog.code[x],
                       IsPhi(prog.code[x][n]), NEW p \in Blocks
                PROVE  Cardinality({i \in DOMAIN prog.code[x][n].from :
                                      prog.code[x][n].from[i] = p})
                         = Cardinality({i \in DOMAIN prog.term[p].tgts :
                                          prog.term[p].tgts[i] = x})
    BY <1>1 DEF EntriesMatch, Entries, Edges, Live
  <2>1. EntryPerEdge(prog, x, prog.code[x][n])
    BY <1>1, ProgramAssumption
  <2>. QED  BY <2>1 DEF EntryPerEdge
<1>4. SamePhiValue
  <2>. SUFFICES ASSUME NEW b \in Blocks \ {Entry}, Unconditional(b)
                PROVE  code[into[prog.term[b].tgts[1]]] = prog.code[prog.term[b].tgts[1]]
    BY <1>1, Zenon DEF SamePhiValue, SameValue
  <2>1. 1 \in DOMAIN prog.term[b].tgts
    BY <1>1, StillJoins
  <2>2. prog.term[b].tgts[1] \in Blocks
    BY <1>1, <2>1, TargetBlock
  <2>. QED  BY <1>1, <2>2
<1>. QED  BY <1>1, <1>2, <1>3, <1>4 DEF PhiInv

\* A merge moves edges between two blocks without PHIs.
LEMMA MergeNextPhiInv ==
  ASSUME TwinsWithoutPhis
  PROVE  PhiInv /\ MergeNext => PhiInv'
<1>. SUFFICES ASSUME PhiInv, MergeNext PROVE PhiInv'
  OBVIOUS
<1>1. IInv /\ TypeOK /\ IInv' /\ code = prog.code /\ erased = {} /\ Live = Blocks
  BY MergeNextIInv DEF PhiInv, IInv, Comparing, MergeNext, Live
<1>2. next \in 1..Len(Layout)
  BY <1>1, BlocksAssumption DEF TypeOK, MergeNext
<1>3. PICK b \in Blocks : b = Layout[next]
  BY <1>2, LayoutBlock
<1>4. PICK c \in Candidates(b) :
        /\ ReplaceBB(b, c)
        /\ into' = [x \in Blocks |-> IF into[x] = b THEN c ELSE into[x]]
  BY <1>3 DEF MergeNext
<1>5. /\ next <= Len(Layout) /\ c \in Blocks \ {Entry} /\ c # b
      /\ PhiFree(b) /\ PhiFree(c) /\ Unconditional(b)
      /\ UNCHANGED <<prog, code, erased>> /\ DeleteList' = DeleteList \cup {b}
  BY <1>1, <1>3, <1>4, Merged, CandidatesPlain DEF MergeNext, Candidates, MayErase
<1>6. \A p \in Blocks :
        /\ term'[p].kind = term[p].kind
        /\ DOMAIN term'[p].tgts = DOMAIN term[p].tgts
        /\ Len(term'[p].tgts) = Len(term[p].tgts)
        /\ \A i \in DOMAIN term[p].tgts :
             term'[p].tgts[i] = IF term[p].tgts[i] = b THEN c ELSE term[p].tgts[i]
  BY <1>1, <1>4, <1>5, MergeTerms
<1>7. \A x \in Blocks : into'[x] = IF into[x] = b THEN c ELSE into[x]
  BY <1>4
<1>8. PhiPlaces'
  BY <1>5 DEF PhiInv, PhiPlaces
<1>9. DeadJoins'
  <2>. SUFFICES ASSUME NEW x \in DeleteList \cup {b} PROVE Unconditional(x)'
    BY <1>5 DEF DeadJoins
  <2>1. x \in Blocks /\ Unconditional(x)
    BY <1>1, <1>5 DEF PhiInv, DeadJoins, TypeOK
  <2>. QED  BY <1>6, <2>1 DEF Unconditional
<1>10. MergedPlain'
  <2>. SUFFICES ASSUME NEW x \in Blocks, into'[x] # x PROVE PhiFree(x) /\ PhiFree(into'[x])
    BY <1>5 DEF MergedPlain, PhiFree
  <2>1. into[x] # x => PhiFree(x) /\ PhiFree(into[x])
    BY DEF PhiInv, MergedPlain
  <2>. QED  BY <1>5, <1>7, <2>1
<1>11. EntriesMatch'
  <2>. SUFFICES ASSUME NEW x \in Blocks, NEW n \in DOMAIN code[x], IsPhi(code[x][n]),
                       NEW p \in Blocks
                PROVE  Cardinality(Entries(code[x][n].from, p)) = Cardinality(Edges(p, x)')
    BY <1>1, <1>5 DEF EntriesMatch, Live
  <2>1. x # b /\ x # c
    BY <1>1, <1>5 DEF PhiFree
  <2>2. Edges(p, x)' = Edges(p, x)
    BY <1>6, <2>1 DEF Edges
  <2>3. Cardinality(Entries(code[x][n].from, p)) = Cardinality(Edges(p, x))
    BY <1>1 DEF PhiInv, EntriesMatch
  <2>. QED  BY <2>2, <2>3
<1>12. SamePhiValue'
  <2>. SUFFICES ASSUME NEW x \in Blocks \ {Entry}, Unconditional(x)',
                       NEW t, t = prog.term[x].tgts[1], HeadIsPhi(prog.code[t])
                PROVE  SameValue(IncomingValue(prog.code[t][1], x), x,
                                 IncomingValue(code[into'[t]][1], into'[x]), into'[x])
    BY <1>5, Zenon DEF SamePhiValue, SameValue
  <2>1. Unconditional(x)
    BY <1>6 DEF Unconditional
  <2>2. t \in Blocks
    BY <1>1, <2>1, StillJoins, TargetBlock DEF IInv
  <2>3. into[t] = t /\ 1 \in DOMAIN code[t] /\ IsPhi(code[t][1])
    BY <2>2, PhiStandsForItself
  <2>4. into'[t] = t
    BY <1>1, <1>5, <1>7, <2>2, <2>3 DEF PhiFree
  <2>5. CASE into[x] = b
    <3>1. SameValue(IncomingValue(prog.code[t][1], x), x, IncomingValue(prog.code[t][1], c), c)
      BY <1>5, <2>1, <2>2, <2>5, MergedValue
    <3>. QED  BY <1>1, <1>7, <2>4, <2>5, <3>1, Zenon
  <2>6. CASE into[x] # b
    <3>1. into'[x] = into[x]
      BY <1>7, <2>6
    <3>2. SameValue(IncomingValue(prog.code[t][1], x), x,
                    IncomingValue(code[into[t]][1], into[x]), into[x])
      BY <2>1 DEF PhiInv, SamePhiValue
    <3>. QED  BY <2>3, <2>4, <3>1, <3>2, Zenon
  <2>. QED  BY <2>5, <2>6, Zenon
<1>. QED  BY <1>1, <1>8, <1>9, <1>10, <1>11, <1>12 DEF PhiInv

\* A block that is kept changes nothing that PHIs depend on.
LEMMA KeepNextPhiInv == PhiInv /\ KeepNext => PhiInv'
<1>. SUFFICES ASSUME PhiInv, KeepNext PROVE PhiInv'
  OBVIOUS
<1>1. IInv'
  BY KeepNextIInv DEF PhiInv
<1>2. UNCHANGED <<prog, term, code, DeleteList, erased, into>>
  BY DEF KeepNext
<1>3. PhiPlaces' /\ DeadJoins' /\ MergedPlain'
  BY <1>2 DEF PhiInv, PhiPlaces, DeadJoins, MergedPlain, PhiFree, Unconditional
<1>4. EntriesMatch'
  <2>1. \A p, x : Edges(p, x)' = Edges(p, x)
    BY <1>2 DEF Edges
  <2>. QED  BY <1>2, <2>1, Zenon DEF PhiInv, EntriesMatch, Live
<1>5. SamePhiValue'
  BY <1>2, Zenon DEF PhiInv, SamePhiValue, SameValue, Unconditional
<1>. QED  BY <1>1, <1>3, <1>4, <1>5 DEF PhiInv

\* What DeleteDeadBlock(b) makes of one PHI: it drops its entry for b, and then
\* loses the values that are not there any more.
LEMMA DeletedPhi ==
  ASSUME PhiInv, NEW b \in Blocks, DeleteDeadBlock(b),
         NEW x \in Blocks, NEW n \in DOMAIN code[x]
  PROVE  /\ DOMAIN code'[x] = DOMAIN code[x] /\ (IsPhi(code'[x][n]) <=> IsPhi(code[x][n]))
         /\ \E l \in Instructions :
              /\ l = IF x = Succ(b) THEN DropIncoming(code[x][n], b) ELSE code[x][n]
              /\ code'[x][n] = Undefine(l, b)
<1>1. PICK inst \in Instructions : inst = code[x][n]
  BY Instruction DEF PhiInv, IInv
<1>2. PICK l : l = IF x = Succ(b) THEN DropIncoming(inst, b) ELSE inst
  OBVIOUS
<1>3. l \in Instructions /\ (IsPhi(l) <=> IsPhi(inst))
  <2>1. CASE x = Succ(b)
    <3>1. l = DropIncoming(inst, b)
      BY <1>2, <2>1
    <3>. QED  BY <3>1, Dropped
  <2>2. CASE x # Succ(b)
    BY <1>2, <2>2
  <2>. QED  BY <2>1, <2>2
<1>4. code'[x] = [m \in DOMAIN code[x] |->
                    Undefine(IF x = Succ(b) THEN DropIncoming(code[x][m], b) ELSE code[x][m], b)]
  BY DEF DeleteDeadBlock
<1>5. DOMAIN code'[x] = DOMAIN code[x] /\ code'[x][n] = Undefine(l, b)
  BY <1>1, <1>2, <1>4
<1>6. IsPhi(code'[x][n]) <=> IsPhi(l)
  BY <1>3, <1>5, Undefined
<1>. QED  BY <1>1, <1>2, <1>3, <1>5, <1>6

\* Deleting a block takes its entries out of the PHIs of its successor, where it
\* had one, and leaves the others with their values.
LEMMA DeleteDeadBlockPhiInv ==
  ASSUME NEW b \in Blocks
  PROVE  PhiInv /\ DeleteDeadBlock(b) => PhiInv'
<1>. SUFFICES ASSUME PhiInv, DeleteDeadBlock(b) PROVE PhiInv'
  OBVIOUS
<1>1. IInv /\ TypeOK /\ IInv' /\ prog \in Programs
  BY DeleteDeadBlockIInv DEF PhiInv, IInv
<1>2. b \in DeleteList \ erased /\ erased' = erased \cup {b}
      /\ UNCHANGED <<prog, term, DeleteList, into>>
  BY DEF DeleteDeadBlock
<1>3. PhiPlaces'
  <2>1. ASSUME NEW x \in Blocks
        PROVE  /\ DOMAIN code'[x] = DOMAIN code[x]
               /\ \A n \in DOMAIN code[x] : IsPhi(code'[x][n]) <=> IsPhi(code[x][n])
    <3>1. DOMAIN code'[x] = DOMAIN code[x]
      BY DEF DeleteDeadBlock
    <3>2. \A n \in DOMAIN code[x] : IsPhi(code'[x][n]) <=> IsPhi(code[x][n])
      BY DeletedPhi
    <3>. QED  BY <3>1, <3>2
  <2>. QED  BY <1>2, <2>1 DEF PhiInv, PhiPlaces
<1>4. DeadJoins' /\ MergedPlain'
  BY <1>2 DEF PhiInv, DeadJoins, MergedPlain, PhiFree, Unconditional
<1>5. \A x \in Blocks : Cardinality(Edges(b, x)) = IF x = Succ(b) THEN 1 ELSE 0
  <2>. SUFFICES ASSUME NEW x \in Blocks
                PROVE  Cardinality(Edges(b, x)) = IF x = Succ(b) THEN 1 ELSE 0
    OBVIOUS
  <2>1. Unconditional(b) /\ term[b].tgts \in Seq(Blocks \ {Entry})
    BY <1>1, <1>2 DEF PhiInv, DeadJoins, TypeOK, Terminators
  <2>2. DOMAIN term[b].tgts = {1}
    BY <2>1 DEF Unconditional
  <2>3. Edges(b, x) = IF x = Succ(b) THEN {1} ELSE {}
    BY <2>2 DEF Edges, Succ
  <2>. QED  BY <2>3, FS_EmptySet, FS_Singleton
<1>6. EntriesMatch'
  <2>. SUFFICES ASSUME NEW x \in Blocks, x \notin erased', NEW n \in DOMAIN code'[x],
                       IsPhi(code'[x][n]), NEW p \in Blocks
                PROVE  Cardinality(Entries(code'[x][n].from, p))
                         = IF p \in erased' THEN 0 ELSE Cardinality(Edges(p, x))
    BY <1>2 DEF EntriesMatch, Entries, Edges, Live
  <2>1. x \in Live /\ n \in DOMAIN code[x]
    BY <1>2, <1>3 DEF Live, PhiPlaces, PhiInv
  <2>2. PICK inst \in Instructions : inst = code[x][n]
    BY <1>1, <2>1, Instruction
  <2>3. IsPhi(inst)
    BY <2>1, <2>2, DeletedPhi
  <2>4. PICK l \in Instructions :
          /\ l = IF x = Succ(b) THEN DropIncoming(inst, b) ELSE inst
          /\ code'[x][n] = Undefine(l, b)
    BY <2>1, <2>2, DeletedPhi
  <2>5. code'[x][n].from = l.from
    BY <2>4, Undefined
  <2>6. \A q \in Blocks : Cardinality(Entries(inst.from, q))
                            = IF q \in erased THEN 0 ELSE Cardinality(Edges(q, x))
    BY <2>1, <2>2, <2>3 DEF PhiInv, EntriesMatch
  <2>7. CASE x = Succ(b)
    <3>1. l = DropIncoming(inst, b)
      BY <2>4, <2>7
    <3>2. Cardinality(Entries(inst.from, b)) = 1
      BY <1>2, <1>5, <2>6, <2>7
    <3>3. Cardinality(Entries(l.from, p))
            = IF p = b /\ Cardinality(Entries(inst.from, b)) # 0
              THEN Cardinality(Entries(inst.from, b)) - 1
              ELSE Cardinality(Entries(inst.from, p))
      BY <2>3, <3>1, DroppedCount
    <3>. QED  BY <1>2, <2>5, <2>6, <3>2, <3>3
  <2>8. CASE x # Succ(b)
    <3>1. l = inst
      BY <2>4, <2>8
    <3>2. Cardinality(Edges(b, x)) = 0
      BY <1>5, <2>8
    <3>. QED  BY <1>2, <2>5, <2>6, <3>1, <3>2
  <2>. QED  BY <2>7, <2>8
<1>7. SamePhiValue'
  <2>. SUFFICES ASSUME NEW x \in Blocks \ {Entry}, Unconditional(x)',
                       NEW t, t = prog.term[x].tgts[1], HeadIsPhi(prog.code[t])
                PROVE  SameValue(IncomingValue(prog.code[t][1], x), x,
                                 IncomingValue(code'[into'[t]][1], into'[x]), into'[x])
    <3>1. prog' = prog
      BY <1>2
    <3>. QED  BY <3>1, Zenon DEF SamePhiValue, SameValue
  <2>1. Unconditional(x)
    BY <1>2 DEF Unconditional
  <2>2. t \in Blocks
    BY <1>1, <2>1, StillJoins, TargetBlock
  <2>3. into[t] = t /\ t \notin DeleteList /\ t \in Live /\ 1 \in DOMAIN code[t] /\ IsPhi(code[t][1])
    BY <2>2, PhiStandsForItself
  <2>4. PICK c : c = into[x]
    OBVIOUS
  <2>5. c \in Blocks /\ c \notin DeleteList /\ c \in Live /\ c # b
    BY <1>1, <1>2, <2>4 DEF TypeOK, Live
  <2>6. SameValue(IncomingValue(prog.code[t][1], x), x, IncomingValue(code[t][1], c), c)
    BY <2>3, <2>4, <2>1, Zenon DEF PhiInv, SamePhiValue
  <2>7. PICK inst \in Instructions : inst = code[t][1] /\ IsPhi(inst)
    BY <1>1, <2>2, <2>3, Instruction, Zenon
  <2>8. PICK l \in Instructions :
          /\ l = IF t = Succ(b) THEN DropIncoming(inst, b) ELSE inst
          /\ code'[t][1] = Undefine(l, b)
    <3>1. \A n \in DOMAIN code[t] : \E l \in Instructions :
            /\ l = IF t = Succ(b) THEN DropIncoming(code[t][n], b) ELSE code[t][n]
            /\ code'[t][n] = Undefine(l, b)
      BY <2>2, DeletedPhi
    <3>. QED  BY <2>3, <2>7, <3>1, Zenon
  <2>9. \E k \in DOMAIN inst.from : inst.from[k] = c
    <3>1. 1 \in DOMAIN term[x].tgts /\ 1 \in DOMAIN prog.term[x].tgts
      BY <1>1, <2>1, StillJoins
    <3>2. term[x].tgts[1] = t
      BY <1>1, <2>3, <3>1 DEF IInv, Redirected
    <3>3. 1 \in DOMAIN term[c].tgts /\ term[c].tgts[1] = t
      BY <1>1, <2>4, <3>1, <3>2 DEF IInv, Twins
    <3>4. \E k \in DOMAIN code[t][1].from : code[t][1].from[k] = c
      BY <2>2, <2>5, <3>3, HeadEntry, Zenon
    <3>. QED  BY <2>7, <3>4, Zenon
  <2>10. PICK k : k = First(inst.from, c)
    OBVIOUS
  <2>11. inst.from \in Seq(Blocks) /\ DOMAIN inst.from = DOMAIN inst.opnds
    BY <1>1, <2>2, <2>3, <2>7, Instruction, Zenon
  <2>12. k \in DOMAIN inst.opnds /\ inst.from[k] = c
    <3>1. k \in DOMAIN inst.from /\ IsFirst(inst.from, c, k)
      BY <2>9, <2>10, <2>11, FirstEntry
    <3>. QED  BY <2>11, <3>1 DEF IsFirst
  <2>13. First(l.from, c) \in DOMAIN l.opnds /\ IncomingValue(l, c) = IncomingValue(inst, c)
    <3>1. CASE t = Succ(b)
      <4>1. l = DropIncoming(inst, b)
        BY <2>8, <3>1
      <4>2. c \in Blocks \ {b} /\ IsPhi(inst)
        BY <2>5, <2>7
      <4>. QED  BY <2>9, <4>1, <4>2, DroppedValue
    <3>2. CASE t # Succ(b)
      <4>1. l = inst
        BY <2>8, <3>2
      <4>. QED  BY <2>10, <2>12, <4>1
    <3>. QED  BY <3>1, <3>2
  \* The value is none of b, whose only entry is its own.
  <2>14. IncomingValue(inst, c)[1] # b
    <3>1. PICK v : v = inst.opnds[k]
      OBVIOUS
    <3>2. v[1] \in DeleteList \ {t} => IsFirst(inst.from, v[1], k)
      BY <1>1, <2>3, <2>7, <2>12, <3>1, Zenon DEF IInv, DeadUses, Operand
    <3>3. v[1] # b
      BY <1>2, <2>3, <2>5, <2>12, <3>2 DEF IsFirst
    <3>. QED  BY <2>10, <3>1, <3>3 DEF IncomingValue
  <2>15. IncomingValue(code'[t][1], c) = IncomingValue(l, c)
    <3>1. PICK r : r = code'[t][1]
      OBVIOUS
    <3>2. /\ r.from = l.from
          /\ \A j \in DOMAIN l.opnds :
               r.opnds[j] = IF l.opnds[j][1] = b THEN Undef ELSE l.opnds[j]
      <4>1. l \in Instructions /\ r = Undefine(l, b)
        BY <2>8, <3>1, Zenon
      <4>. QED  BY <4>1, Undefined
    <3>3. PICK f : f = First(l.from, c)
      OBVIOUS
    <3>4. f \in DOMAIN l.opnds /\ l.opnds[f][1] # b
      BY <2>13, <2>14, <3>3 DEF IncomingValue
    <3>. QED  BY <3>1, <3>2, <3>3, <3>4, Zenon DEF IncomingValue
  <2>. QED  BY <1>2, <2>3, <2>4, <2>6, <2>7, <2>13, <2>15, Zenon
<1>. QED  BY <1>1, <1>3, <1>4, <1>6, <1>7 DEF PhiInv

\* The invariant on PHIs holds in every state of the pass.
LEMMA PhiInductive ==
  ASSUME TwinsWithoutPhis
  PROVE  Spec => []PhiInv
<1>1. PhiInv /\ UNCHANGED vars => PhiInv'
  <2>. SUFFICES ASSUME PhiInv, UNCHANGED vars PROVE PhiInv'
    OBVIOUS
  <2>1. IInv'
    BY Stutter DEF PhiInv
  <2>2. UNCHANGED <<prog, term, code, DeleteList, erased, into>>
    BY DEF vars
  <2>3. PhiPlaces' /\ DeadJoins' /\ MergedPlain'
    BY <2>2 DEF PhiInv, PhiPlaces, DeadJoins, MergedPlain, PhiFree, Unconditional
  <2>4. EntriesMatch'
    <3>1. \A p, x : Edges(p, x)' = Edges(p, x)
      BY <2>2 DEF Edges
    <3>. QED  BY <2>2, <3>1, Zenon DEF PhiInv, EntriesMatch, Live
  <2>5. SamePhiValue'
    BY <2>2, Zenon DEF PhiInv, SamePhiValue, SameValue, Unconditional
  <2>. QED  BY <2>1, <2>3, <2>4, <2>5 DEF PhiInv
<1>2. PhiInv /\ [Next]_vars => PhiInv'
  BY <1>1, MergeNextPhiInv, KeepNextPhiInv, DeleteDeadBlockPhiInv DEF Next
<1>. QED  BY <1>2, InitPhiInv, PTL DEF Spec
-----------------------------------------------------------------------------
\* The entry block is never deleted and no deleted block stands for another.
THEOREM TypeCorrect == Spec => []TypeOK
<1>1. IInv => TypeOK
  BY DEF IInv
<1>. QED  BY <1>1, Inductive, PTL

\* No terminator names a block that was marked: DeleteDeadBlock's assertion
\* that the predecessors of the block are dead holds.
THEOREM NoReferenceToDead == Spec => []DeadUnreferenced
<1>1. ASSUME IInv PROVE DeadUnreferenced
  <2>. SUFFICES ASSUME NEW b \in Blocks, NEW i \in DOMAIN term[b].tgts
                PROVE  term[b].tgts[i] \notin DeleteList
    BY DEF DeadUnreferenced
  <2>1. i \in DOMAIN prog.term[b].tgts
    BY <1>1 DEF IInv, Redirected
  <2>2. prog.term[b].tgts[i] \in Blocks
    BY <1>1, <2>1, TargetBlock DEF IInv
  <2>. QED  BY <1>1, <2>1, <2>2 DEF IInv, Redirected, TypeOK
<1>. QED  BY <1>1, Inductive, PTL

\* The control flow of the function is kept.
THEOREM ControlPreserved == Spec => []SameControl
<1>1. IInv => SameControl
  BY DEF IInv, Redirected, Twins, SameControl
<1>. QED  BY <1>1, Inductive, PTL

\* For every function: the block that stands for another executes the same
\* operations on the same operands in the same order.  Where no two blocks that
\* might be merged differ in their flags only, it executes the same instructions.
\* (isSameOperationAs does not compare flags: without TwinsAgree the second part
\* is false, and TLC finds the function that shows it.)
THEOREM WorkPreserved == Spec => []WorkKept
<1>1. IInv => WorkKept
  BY DEF IInv
<1>. QED  BY <1>1, Inductive, PTL

\* No instruction and no terminator that is left uses a value of a block that
\* has been deleted.
THEOREM NoUseOfDead == Spec => []NoUndef
<1>1. ASSUME IInv PROVE NoUndef
  <2>. SUFFICES ASSUME NEW b \in Live
                PROVE  /\ term[b].cond[1] \notin erased
                       /\ \A n \in DOMAIN code[b] : \A i \in DOMAIN code[b][n].opnds :
                            code[b][n].opnds[i] # Undef
    BY DEF NoUndef
  <2>1. erased \subseteq DeleteList /\ b \notin erased
    BY <1>1 DEF IInv, TypeOK, Live
  <2>. QED  BY <1>1, <2>1 DEF IInv, DeadUses, Condition, Operand
<1>. QED  BY <1>1, Inductive, PTL

\* In a function in which no two blocks that might be merged have PHIs of their
\* own, a PHI takes over each edge the value that it took before the pass, or the
\* twin of it.
THEOREM PhiValuesKept ==
  ASSUME TwinsWithoutPhis
  PROVE  Spec => []SamePhiValue
<1>1. PhiInv => SamePhiValue
  BY DEF PhiInv
<1>. QED  BY <1>1, PhiInductive, PTL

\* In such a function every PHI ends with as many entries for a block as there are
\* edges from it, and with none for a block that was deleted.
THEOREM EntriesKept ==
  ASSUME TwinsWithoutPhis
  PROVE  Spec => []PhisMatchPreds
<1>1. ASSUME PhiInv PROVE PhisMatchPreds
  <2>. SUFFICES ASSUME NEW x \in Live, NEW n \in DOMAIN code[x], IsPhi(code[x][n]),
                       NEW p \in Blocks
                PROVE  Cardinality(IF p \in Live THEN Edges(p, x) ELSE {})
                         = Cardinality(Entries(code[x][n].from, p))
    BY DEF PhisMatchPreds, Entries
  <2>1. Cardinality(Entries(code[x][n].from, p))
          = IF p \in erased THEN 0 ELSE Cardinality(Edges(p, x))
    BY <1>1 DEF PhiInv, EntriesMatch
  <2>. QED  BY <2>1, FS_EmptySet DEF Live
<1>. QED  BY <1>1, PhiInductive, PTL
=============================================================================
