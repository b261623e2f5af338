----------------------------- MODULE RIVProofs -----------------------------
(***************************************************************************)
(* For every control-flow graph, every dominator tree of it and every      *)
(* placement of instructions: the sets of buildRIV are exactly the usable  *)
(* values (RIVSound, RIVComplete), they are written once (SetOnce), and    *)
(* the walk implements ReachableValues.                                    *)
(*                                                                         *)
(* The inductive invariant says more than the properties do: a set is      *)
(* exact from the moment its block is inserted, every block on the stack   *)
(* was inserted, inserted blocks are closed under strict dominators, and   *)
(* the only children still missing are those the walk has yet to visit.    *)
(***************************************************************************)
EXTENDS RIV, SequenceTheorems, TLAPS
-----------------------------------------------------------------------------
(***************************************************************************)
(* What every pass that asks for a dominator tree takes for granted:       *)
(* dominance is a partial order, the strict dominators of a block are its  *)
(* immediate dominator and those of its immediate dominator, and a         *)
(* dominator of a successor dominates the block.                           *)
(***************************************************************************)

\* The set of reached blocks is itself closed.
LEMMA ReachClosed ==
  ASSUME NEW g \in Graphs, NEW a
  PROVE  ClosedAvoiding(g, ReachAvoiding(g, a), a)
BY EntryAssumption DEF Graphs, ClosedAvoiding, ReachAvoiding

\* It is the least such set.
LEMMA ReachLeast ==
  ASSUME NEW g, NEW a, NEW R \in SUBSET Blocks, ClosedAvoiding(g, R, a)
  PROVE  ReachAvoiding(g, a) \subseteq R
BY DEF ReachAvoiding

\* Removing a block's incoming edges reaches no more blocks, and not that one.
LEMMA AvoidingLess ==
  ASSUME NEW g \in Graphs, NEW a
  PROVE  /\ ReachAvoiding(g, a) \subseteq Reachable(g)
         /\ a # Entry => a \notin ReachAvoiding(g, a)
<1>1. ClosedAvoiding(g, Reachable(g), a)
  BY ReachClosed DEF ClosedAvoiding, Reachable, Graphs, ReachAvoiding
<1>2. ReachAvoiding(g, a) \subseteq Reachable(g)
  BY <1>1, ReachLeast DEF Reachable, ReachAvoiding
<1>3. a # Entry => ClosedAvoiding(g, Blocks \ {a}, a)
  BY EntryAssumption DEF ClosedAvoiding, Graphs
<1>. QED  BY <1>2, <1>3, ReachLeast

\* The entry block and whatever a reachable block branches to are reachable.
LEMMA ReachableSucc ==
  ASSUME NEW g \in Graphs
  PROVE  /\ Entry \in Reachable(g)
         /\ Reachable(g) \subseteq Blocks
         /\ \A x \in Reachable(g) : g[x] \subseteq Reachable(g)
<1>1. ClosedAvoiding(g, Reachable(g), Entry)
  BY ReachClosed DEF Reachable
<1>. QED  BY <1>1 DEF ClosedAvoiding, Reachable, ReachAvoiding, Graphs

\* Nothing but the entry block dominates the entry block.
LEMMA EntryUndominated ==
  ASSUME NEW g \in Graphs
  PROVE  StrictDominators(g, Entry) = {}
BY ReachClosed
   DEF StrictDominators, StrictlyDominates, Dominates, ClosedAvoiding

\* Dominance is transitive ...
LEMMA DominatesTransitive ==
  ASSUME NEW g \in Graphs, NEW a, NEW b, NEW c,
         Dominates(g, a, b), Dominates(g, b, c)
  PROVE  Dominates(g, a, c)
<1>. SUFFICES ASSUME a \notin {Entry, c}, c \in ReachAvoiding(g, a)
              PROVE  FALSE
  BY DEF Dominates
<1>1. a # b => b \notin ReachAvoiding(g, a)
  BY DEF Dominates
<1>2. b # Entry
  BY <1>1, ReachClosed DEF ClosedAvoiding
<1>3. b # c
  BY <1>1
<1>4. c \notin ReachAvoiding(g, b)
  BY <1>2, <1>3 DEF Dominates
<1>5. b \notin ReachAvoiding(g, a)
  BY <1>1, AvoidingLess
<1> DEFINE R == ReachAvoiding(g, a) \cap ReachAvoiding(g, b)
<1>6. ClosedAvoiding(g, R, a)
  BY <1>5, ReachClosed DEF ClosedAvoiding
<1>7. ReachAvoiding(g, a) \subseteq R
  BY <1>6, ReachLeast DEF ReachAvoiding
<1>. QED  BY <1>4, <1>7

\* ... and antisymmetric.
LEMMA DominatesAntisymmetric ==
  ASSUME NEW g \in Graphs, NEW a, NEW b,
         Dominates(g, a, b), Dominates(g, b, a)
  PROVE  a = b
<1>. SUFFICES ASSUME a # b PROVE FALSE
  OBVIOUS
<1>1. Entry \in ReachAvoiding(g, a) /\ Entry \in ReachAvoiding(g, b)
  BY ReachClosed DEF ClosedAvoiding
<1>2. a # Entry /\ b # Entry
  BY <1>1 DEF Dominates
<1>3. b \notin ReachAvoiding(g, a) /\ a \notin ReachAvoiding(g, b)
  BY <1>2 DEF Dominates
<1> DEFINE R == ReachAvoiding(g, a) \cap ReachAvoiding(g, b)
<1>4. ClosedAvoiding(g, R, Entry)
  BY <1>3, ReachClosed DEF ClosedAvoiding
<1>5. Reachable(g) \subseteq R
  BY <1>4, ReachLeast DEF ReachAvoiding, Reachable
<1>. QED  BY <1>3, <1>5 DEF Dominates

\* On the dominator tree, the strict dominators of a block are its parent and
\* the parent's strict dominators.
LEMMA DominatorChain ==
  ASSUME NEW g \in Graphs, NEW t, IsDomTree(g, t),
         NEW c \in DOMAIN t
  PROVE  /\ t[c] \in Reachable(g)
         /\ StrictDominators(g, c) =
              {t[c]} \cup StrictDominators(g, t[c])
<1>1. t[c] \in StrictDominators(g, c)
  BY DEF IsDomTree
<1>2. Dominates(g, t[c], c) /\ t[c] \in Blocks /\ t[c] # c
  BY <1>1 DEF StrictDominators, StrictlyDominates
<1>3. t[c] \in Reachable(g)
  <2>1. CASE t[c] = Entry
    BY <2>1, ReachableSucc
  <2>2. CASE t[c] # Entry
    \* Otherwise the edges into t[c] do not matter to what is reached.
    <3>1. SUFFICES ASSUME t[c] \notin Reachable(g) PROVE FALSE
      OBVIOUS
    <3>2. \A x \in ReachAvoiding(g, t[c]) : t[c] \notin g[x]
      BY <3>1, AvoidingLess, ReachableSucc
    <3>3. ClosedAvoiding(g, ReachAvoiding(g, t[c]), Entry)
      BY <3>2, ReachClosed DEF ClosedAvoiding
    <3>4. Reachable(g) \subseteq ReachAvoiding(g, t[c])
      BY <3>3, ReachLeast DEF ReachAvoiding, Reachable
    <3>. QED  BY <3>4, <2>2, <1>2 DEF Dominates
  <2>. QED  BY <2>1, <2>2
<1>4. ASSUME NEW a \in StrictDominators(g, c)
      PROVE  a = t[c] \/ a \in StrictDominators(g, t[c])
  BY DEF IsDomTree, StrictDominators, StrictlyDominates
<1>5. ASSUME NEW a \in StrictDominators(g, t[c])
      PROVE  a \in StrictDominators(g, c)
  <2>1. a \in Blocks /\ a # t[c] /\ Dominates(g, a, t[c])
    BY DEF StrictDominators, StrictlyDominates
  <2>2. Dominates(g, a, c)
    BY <1>2, <2>1, DominatesTransitive
  <2>3. a # c
    BY <1>2, <2>1, DominatesAntisymmetric
  <2>. QED  BY <2>1, <2>2, <2>3 DEF StrictDominators, StrictlyDominates
<1>. QED  BY <1>1, <1>3, <1>4, <1>5

\* A strict dominator of a successor of x dominates x.
LEMMA DominatorOfSucc ==
  ASSUME NEW g \in Graphs, NEW x \in Reachable(g), NEW y \in g[x],
         NEW a \in StrictDominators(g, y)
  PROVE  a = x \/ a \in StrictDominators(g, x)
<1>1. a \in Blocks /\ a # y /\ Dominates(g, a, y)
  BY DEF StrictDominators, StrictlyDominates
<1>2. SUFFICES ASSUME a # x, a # Entry, x \in ReachAvoiding(g, a) PROVE FALSE
  BY <1>1 DEF StrictDominators, StrictlyDominates, Dominates
<1>3. y \in ReachAvoiding(g, a)
  BY <1>1, <1>2, ReachClosed DEF ClosedAvoiding
<1>. QED  BY <1>1, <1>2, <1>3 DEF Dominates

-----------------------------------------------------------------------------

InputOK == succ \in Graphs /\ IsDomTree(succ, idom)

Walking == pc \in {"pop", "children", "done"}

\* The integer instructions of b, as STEP 1 collects them.
DefsOf(b) == {i \in Insts \cap IntTyped : Home[i] = b}

Fresh == ~Walking => work = <<Entry>> /\ DOMAIN result = {}

Collected == pc # "step1" => defined = [b \in Blocks |-> DefsOf(b)]

EntryInserted == Walking => Entry \in DOMAIN result

Exact == \A b \in DOMAIN result : result[b] = UsableIn(b)

StackInserted ==
  Walking => \A k \in 1..Len(work) : work[k] \in DOMAIN result

ParentCopied ==
  pc = "children" => parent \in DOMAIN result /\ parentRIVs = result[parent]

DominatorsInserted ==
  \A b \in DOMAIN result : StrictDominators(succ, b) \subseteq DOMAIN result

\* c's parent is on the stack, or is being visited and c is still to come.
Pending(c) ==
  \/ \E k \in 1..Len(work) : work[k] = idom[c]
  \/ pc = "children" /\ parent = idom[c] /\ c \in todo

MissingPending ==
  Walking => \A c \in DOMAIN idom :
               idom[c] \in DOMAIN result => c \in DOMAIN result \/ Pending(c)

Finished == pc = "done" => work = <<>>

IInv ==
  /\ InputOK
  /\ TypeOK
  /\ Fresh
  /\ Collected
  /\ EntryInserted
  /\ Exact
  /\ StackInserted
  /\ ParentCopied
  /\ DominatorsInserted
  /\ MissingPending
  /\ Finished
-----------------------------------------------------------------------------
\* What is usable in the entry block is what STEP 2 seeds it with.
LEMMA UsableInEntry ==
  ASSUME InputOK
  PROVE  UsableIn(Entry) = (Globals \cup Args) \cap IntTyped
BY InputAssumption, EntryUndominated DEF InputOK, UsableIn

\* What is usable in a block is what is usable in its parent in the dominator
\* tree, and what the parent defines.
LEMMA UsableInChild ==
  ASSUME InputOK, NEW c \in DOMAIN idom
  PROVE  UsableIn(c) = DefsOf(idom[c]) \cup UsableIn(idom[c])
<1>1. StrictDominators(succ, c) = {idom[c]} \cup StrictDominators(succ, idom[c])
  BY DominatorChain DEF InputOK
<1>. QED  BY <1>1 DEF UsableIn, DefsOf

\* Only values of the function are usable anywhere.
LEMMA UsableIsValue == \A b : UsableIn(b) \subseteq Values
BY InputAssumption DEF UsableIn

\* BBsToProcess.pop_back()
LEMMA PopBack ==
  ASSUME NEW S, NEW s \in Seq(S), s # <<>>
  PROVE  /\ SubSeq(s, 1, Len(s) - 1) \in Seq(S)
         /\ Len(SubSeq(s, 1, Len(s) - 1)) = Len(s) - 1
         /\ \A k \in 1..(Len(s) - 1) : SubSeq(s, 1, Len(s) - 1)[k] = s[k]
<1>1. Len(s) \in Nat \ {0}
  OBVIOUS
<1>2. \A k \in 1..(Len(s) - 1) : s[k] \in S
  BY <1>1
<1> DEFINE n == Len(s) - 1
<1>3. n \in Nat
  BY <1>1
<1> HIDE DEF n
<1>4. /\ SubSeq(s, 1, n) \in Seq(S)
      /\ Len(SubSeq(s, 1, n)) = IF 1 <= n THEN n - 1 + 1 ELSE 0
      /\ \A k \in 1..(n - 1 + 1) : SubSeq(s, 1, n)[k] = s[1 + k - 1]
  <2>1. \A k \in 1..n : s[k] \in S
    BY <1>2 DEF n
  <2>2. n \in Int /\ 1 \in Int
    BY <1>3
  <2>. QED  BY <2>1, <2>2, SubSeqProperties
<1>5. Len(SubSeq(s, 1, n)) = n
  BY <1>3, <1>4
<1>6. \A k \in 1..n : SubSeq(s, 1, n)[k] = s[k]
  BY <1>3, <1>4
<1>. QED  BY <1>4, <1>5, <1>6 DEF n

\* ResultMap[b].insert(S)
LEMMA MapInsertType ==
  ASSUME NEW map, NEW b, NEW S \in SUBSET Values,
         map \in [DOMAIN map -> SUBSET Values]
  PROVE  MapInsert(map, b, S) \in [DOMAIN map \cup {b} -> SUBSET Values]
BY DEF MapInsert, MapGet
-----------------------------------------------------------------------------
\* The invariant holds before STEP 1 ...
LEMMA InitIInv == Init => IInv
<1>. SUFFICES ASSUME Init PROVE IInv
  OBVIOUS
<1>1. InputOK
  BY DEF Init, InputOK
<1>2. TypeOK
  BY <1>1, ReachableSucc, EntryAssumption
     DEF Init, TypeOK, InputOK, IsDomTree, Children
<1>. QED
  BY <1>1, <1>2
     DEF Init, IInv, Walking, Fresh, Collected, EntryInserted, Exact,
         StackInserted, ParentCopied, DominatorsInserted, MissingPending, Finished

\* ... STEP 1 fills the map of definitions ...
LEMMA CollectDefsIInv == IInv /\ CollectDefs => IInv'
<1>. SUFFICES ASSUME IInv, CollectDefs PROVE IInv'
  OBVIOUS
<1>. USE DEF CollectDefs, input
<1>1. InputOK'
  BY DEF IInv, InputOK
<1>2. TypeOK'
  BY InputAssumption DEF IInv, TypeOK, Values
<1>. QED
  BY <1>1, <1>2
     DEF IInv, Walking, Fresh, Collected, EntryInserted, Exact, DefsOf, UsableIn,
         StackInserted, ParentCopied, DominatorsInserted, MissingPending, Finished

\* ... STEP 2 gives the entry block its usable values ...
LEMMA SeedEntryIInv == IInv /\ SeedEntry => IInv'
<1>. SUFFICES ASSUME IInv, SeedEntry PROVE IInv'
  OBVIOUS
<1>. USE DEF SeedEntry, input
<1>1. InputOK'
  BY DEF IInv, InputOK
<1>2. work = <<Entry>> /\ DOMAIN result = {}
  BY DEF IInv, Fresh, Walking
<1>3. DOMAIN result' = {Entry} /\ result'[Entry] = UsableIn(Entry)
  BY <1>2, UsableInEntry DEF IInv, MapInsert, MapGet
<1>4. result' \in [DOMAIN result' -> SUBSET Values]
  BY <1>2, <1>3, MapInsertType DEF IInv, TypeOK, Values
<1>5. TypeOK'
  BY <1>3, <1>4, ReachableSucc DEF IInv, TypeOK, InputOK
<1>6. StackInserted' /\ EntryInserted'
  BY <1>2, <1>3 DEF StackInserted, EntryInserted
<1>7. Exact'
  BY <1>3 DEF Exact, UsableIn
<1>8. DominatorsInserted'
  BY <1>3, EntryUndominated DEF DominatorsInserted, IInv, InputOK
<1>9. MissingPending'
  BY <1>2, <1>3 DEF MissingPending, Pending
<1>. QED
  BY <1>1, <1>5, <1>6, <1>7, <1>8, <1>9
     DEF IInv, Walking, Fresh, Collected, DefsOf, ParentCopied, Finished

\* ... the node taken off the stack has its final set, which is copied ...
LEMMA PopParentIInv == IInv /\ PopParent => IInv'
<1>. SUFFICES ASSUME IInv, PopParent PROVE IInv'
  OBVIOUS
<1>. USE DEF PopParent, input
<1>1. InputOK'
  BY DEF IInv, InputOK
<1>2. /\ work \in Seq(Reachable(succ)) /\ work # <<>>
      /\ Len(work) \in Nat \ {0}
      /\ work[Len(work)] \in DOMAIN result
  BY DEF IInv, TypeOK, StackInserted, Walking
<1>3. parent' \in DOMAIN result /\ parent' \in Reachable(succ)
  BY <1>2 DEF IInv, TypeOK
\* The parent was inserted when it was pushed: reading its entry adds nothing.
<1>4. result' = result /\ parentRIVs' = result[parent']
  <2>1. MapGet(result, parent') = result[parent'] /\ parentRIVs' = result[parent']
    BY <1>3 DEF MapGet
  <2>2. DOMAIN result' = DOMAIN result
    BY <1>3 DEF MapInsert
  <2>3. \A x \in DOMAIN result : result'[x] = result[x]
    BY <1>3, <2>1 DEF MapInsert
  <2>4. result' \in [DOMAIN result' -> SUBSET Values]
    BY <2>2, <1>3, MapInsertType DEF IInv, TypeOK
  <2>. QED  BY <2>1, <2>2, <2>3, <2>4 DEF IInv, TypeOK
<1>5. /\ work' \in Seq(Reachable(succ))
      /\ Len(work') = Len(work) - 1
      /\ \A k \in 1..Len(work') : work'[k] = work[k]
  BY <1>2, PopBack
<1>6. TypeOK'
  BY <1>3, <1>4, <1>5 DEF IInv, TypeOK
<1>7. StackInserted'
  BY <1>2, <1>4, <1>5 DEF IInv, StackInserted, Walking
<1>8. MissingPending'
  <2>. SUFFICES ASSUME NEW c \in DOMAIN idom, idom[c] \in DOMAIN result,
                       c \notin DOMAIN result
                PROVE  Pending(c)'
    BY <1>4 DEF MissingPending
  <2>1. PICK k \in 1..Len(work) : work[k] = idom[c]
    BY DEF IInv, MissingPending, Pending, Walking
  <2>2. CASE k = Len(work)
    BY <2>1, <2>2 DEF Pending, Children
  <2>3. CASE k # Len(work)
    BY <2>1, <2>3, <1>2, <1>5 DEF Pending
  <2>. QED  BY <2>2, <2>3
<1>9. Exact' /\ DominatorsInserted'
  BY <1>4 DEF IInv, Exact, UsableIn, DominatorsInserted
<1>. QED
  BY <1>1, <1>3, <1>4, <1>6, <1>7, <1>8, <1>9
     DEF IInv, Walking, Fresh, Collected, EntryInserted, ParentCopied, Finished

\* Visiting a child inserts exactly the values usable in it.
LEMMA UpdateChildExact ==
  ASSUME IInv, NEW child \in Blocks, UpdateChild(child)
  PROVE  /\ child \in DOMAIN idom /\ idom[child] = parent
         /\ parent \in DOMAIN result
         /\ DOMAIN result' = DOMAIN result \cup {child}
         /\ result'[child] = UsableIn(child)
         /\ \A b \in DOMAIN result : result'[b] = result[b]
<1>1. child \in DOMAIN idom /\ idom[child] = parent /\ parent \in Blocks
  BY ReachableSucc DEF UpdateChild, IInv, InputOK, TypeOK, Children
<1>2. parent \in DOMAIN result /\ parentRIVs = UsableIn(parent)
  BY DEF UpdateChild, IInv, ParentCopied, Exact
<1>3. defined[parent] = DefsOf(parent)
  BY <1>1 DEF UpdateChild, IInv, Collected
<1>4. defined[parent] \cup parentRIVs = UsableIn(child)
  BY <1>1, <1>2, <1>3, UsableInChild DEF IInv
<1>5. DOMAIN result' = DOMAIN result \cup {child}
  BY DEF UpdateChild, MapInsert
<1>6. result'[child] = UsableIn(child)
  BY <1>4 DEF UpdateChild, MapInsert, MapGet, IInv, Exact
<1>7. \A b \in DOMAIN result : result'[b] = result[b]
  BY <1>4 DEF UpdateChild, MapInsert, MapGet, IInv, Exact
<1>. QED  BY <1>1, <1>2, <1>5, <1>6, <1>7

\* ... a child receives its usable values and waits on the stack ...
LEMMA UpdateChildIInv ==
  ASSUME NEW child \in Blocks
  PROVE  IInv /\ UpdateChild(child) => IInv'
<1>. SUFFICES ASSUME IInv, UpdateChild(child) PROVE IInv'
  OBVIOUS
<1>0. /\ child \in DOMAIN idom /\ idom[child] = parent
      /\ parent \in DOMAIN result
      /\ DOMAIN result' = DOMAIN result \cup {child}
      /\ result'[child] = UsableIn(child)
      /\ \A b \in DOMAIN result : result'[b] = result[b]
  BY UpdateChildExact
<1>. USE DEF UpdateChild, input
<1>1. InputOK'
  BY DEF IInv, InputOK
<1>2. child \in Reachable(succ) /\ child \in Blocks
  BY <1>0, ReachableSucc DEF IInv, InputOK, IsDomTree
<1>3. /\ work' \in Seq(Reachable(succ))
      /\ Len(work') = Len(work) + 1
      /\ \A k \in 1..Len(work) : work'[k] = work[k]
      /\ work'[Len(work) + 1] = child
      /\ Len(work) \in Nat
  BY <1>2 DEF IInv, TypeOK
<1>4. result' \in [DOMAIN result' -> SUBSET Values]
  <2>1. defined[parent] \cup parentRIVs \in SUBSET Values
    BY ReachableSucc DEF IInv, TypeOK, InputOK
  <2>. QED  BY <2>1, <1>0, MapInsertType DEF IInv, TypeOK
<1>5. TypeOK'
  BY <1>0, <1>2, <1>3, <1>4 DEF IInv, TypeOK
<1>6. Exact'
  BY <1>0, ZenonT(30) DEF IInv, Exact, UsableIn
<1>7. StackInserted'
  BY <1>0, <1>3 DEF IInv, StackInserted, Walking
<1>8. DominatorsInserted'
  <2>1. StrictDominators(succ, child)
          = {parent} \cup StrictDominators(succ, parent)
    BY <1>0, DominatorChain DEF IInv, InputOK
  <2>. QED  BY <2>1, <1>0 DEF IInv, DominatorsInserted
<1>9. MissingPending'
  <2>. SUFFICES ASSUME NEW c \in DOMAIN idom, idom[c] \in DOMAIN result',
                       c \notin DOMAIN result'
                PROVE  Pending(c)'
    BY DEF MissingPending
  <2>1. CASE idom[c] = child
    BY <2>1, <1>3 DEF Pending
  <2>2. CASE idom[c] # child
    <3>1. Pending(c) /\ c # child
      BY <2>2, <1>0 DEF IInv, MissingPending, Walking
    <3>. QED  BY <3>1, <1>3 DEF Pending
  <2>. QED  BY <2>1, <2>2
<1>10. ParentCopied' /\ EntryInserted'
  BY <1>0 DEF IInv, ParentCopied, EntryInserted, Walking
<1>. QED
  BY <1>1, <1>5, <1>6, <1>7, <1>8, <1>9, <1>10
     DEF IInv, Walking, Fresh, Collected, Finished

\* ... all children of the parent have been inserted ...
LEMMA EndChildrenIInv == IInv /\ EndChildren => IInv'
<1>. SUFFICES ASSUME IInv, EndChildren PROVE IInv'
  OBVIOUS
<1>. USE DEF EndChildren, input
<1>1. MissingPending'
  BY DEF IInv, MissingPending, Pending, Walking
<1>2. InputOK' /\ TypeOK'
  BY DEF IInv, InputOK, TypeOK
<1>. QED
  BY <1>1, <1>2
     DEF IInv, Walking, Fresh, Collected, EntryInserted, Exact, UsableIn,
         StackInserted, ParentCopied, DominatorsInserted, Finished

\* ... and the stack is empty at the end.
LEMMA ReturnIInv == IInv /\ Return => IInv'
<1>. SUFFICES ASSUME IInv, Return PROVE IInv'
  OBVIOUS
<1>. USE DEF Return, input
<1>1. MissingPending'
  BY DEF IInv, MissingPending, Pending, Walking
<1>2. InputOK' /\ TypeOK'
  BY DEF IInv, InputOK, TypeOK
<1>. QED
  BY <1>1, <1>2
     DEF IInv, Walking, Fresh, Collected, EntryInserted, Exact, UsableIn,
         StackInserted, ParentCopied, DominatorsInserted, Finished

\* A step that changes nothing keeps it.
LEMMA StutterIInv == IInv /\ UNCHANGED vars => IInv'
BY DEF vars, IInv, InputOK, TypeOK, Walking, Fresh, Collected, EntryInserted,
       Exact, UsableIn, StackInserted, ParentCopied, DominatorsInserted,
       MissingPending, Pending, Finished

\* Every step keeps the invariant.
LEMMA NextIInv == IInv /\ [Next]_vars => IInv'
BY CollectDefsIInv, SeedEntryIInv, PopParentIInv, UpdateChildIInv,
   EndChildrenIInv, ReturnIInv, StutterIInv DEF Next

\* The invariant holds in every state of the walk.
LEMMA Inductive == Spec => []IInv
BY InitIInv, NextIInv, PTL DEF Spec
-----------------------------------------------------------------------------
\* The walk only ever holds reachable blocks, and values of the function.
THEOREM TypeCorrect == Spec => []TypeOK
<1>1. IInv => TypeOK
  BY DEF IInv
<1>. QED  BY <1>1, Inductive, PTL

\* No block's set ever holds a value that some path to it leaves undefined.
THEOREM Soundness == Spec => []RIVSound
<1>1. IInv => RIVSound
  BY DEF IInv, Exact, RIVSound
<1>. QED  BY <1>1, Inductive, PTL

\* When the stack is empty the inserted blocks are all the reachable ones: the
\* immediate dominator of a successor of an inserted block is inserted too.
LEMMA AllInserted ==
  ASSUME IInv, pc \in {"pop", "done"}, work = <<>>
  PROVE  DOMAIN result = Reachable(succ)
<1>1. \A c \in DOMAIN idom : idom[c] \in DOMAIN result => c \in DOMAIN result
  BY DEF IInv, MissingPending, Pending, Walking
<1>2. ASSUME NEW x \in DOMAIN result, NEW y \in succ[x]
      PROVE  y \in DOMAIN result
  <2>1. y \in Reachable(succ) /\ y # Entry /\ x \in Reachable(succ)
    BY ReachableSucc DEF IInv, InputOK, TypeOK, Graphs
  <2>2. y \in DOMAIN idom /\ idom[y] \in StrictDominators(succ, y)
    BY <2>1 DEF IInv, InputOK, IsDomTree
  <2>3. idom[y] = x \/ idom[y] \in StrictDominators(succ, x)
    BY <2>1, <2>2, DominatorOfSucc DEF IInv, InputOK
  <2>4. idom[y] \in DOMAIN result
    BY <2>3 DEF IInv, DominatorsInserted
  <2>. QED  BY <2>2, <2>4, <1>1
<1>3. ClosedAvoiding(succ, DOMAIN result, Entry)
  BY <1>2 DEF ClosedAvoiding, IInv, EntryInserted, Walking
<1>4. DOMAIN result \subseteq Reachable(succ) /\ DOMAIN result \subseteq Blocks
  BY ReachableSucc DEF IInv, TypeOK, InputOK
<1>5. Reachable(succ) \subseteq DOMAIN result
  BY <1>3, <1>4, ReachLeast DEF Reachable
<1>. QED  BY <1>4, <1>5

\* When buildRIV returns, no reachable block and no usable value is missing.
THEOREM Completeness == Spec => []RIVComplete
<1>1. IInv => RIVComplete
  BY AllInserted DEF IInv, Exact, Finished, RIVComplete
<1>. QED  BY <1>1, Inductive, PTL

\* A block's set is final once inserted.
THEOREM WrittenOnce == Spec => SetOnce
<1>1. IInv /\ IInv' /\ [Next]_vars => [SetOnceStep]_vars
  <2>. SUFFICES ASSUME IInv, IInv', [Next]_vars, pc \in {"pop", "children"}
                PROVE  SetOnceStep
    BY DEF SetOnceStep
  <2>1. DOMAIN result \subseteq DOMAIN result' /\ succ' = succ
    <3>1. CASE PopParent \/ \E child \in Blocks : UpdateChild(child)
      BY <3>1 DEF PopParent, UpdateChild, MapInsert, input
    <3>. QED  BY <3>1 DEF Next, CollectDefs, SeedEntry, EndChildren, Return,
                          vars, input
  <2>2. \A b \in DOMAIN result : result'[b] = result[b]
    BY <2>1 DEF IInv, Exact, UsableIn
  <2>. QED  BY <2>1, <2>2 DEF SetOnceStep
<1>. QED  BY <1>1, Inductive, PTL DEF Spec, SetOnce

\* The instance speaks of the same graph and the same dominators.
LEMMA SameGraph ==
  /\ Abs!Graphs = Graphs
  /\ Abs!Reachable(succ) = Reachable(succ)
  /\ \A b : Abs!StrictDominators(succ, b) = StrictDominators(succ, b)
BY DEF Abs!Graphs, Graphs, Abs!Reachable, Reachable, Abs!ReachAvoiding,
       ReachAvoiding, Abs!ClosedAvoiding, ClosedAvoiding,
       Abs!StrictDominators, StrictDominators, Abs!StrictlyDominates,
       StrictlyDominates, Abs!Dominates, Dominates

\* The depth-first walk implements the one-step definition of the analysis.
THEOREM Implements == Spec => AbsSpec
<1>1. Init => Abs!Init
  BY SameGraph DEF Init, Abs!Init, Abs!Unknown
<1>2. IInv /\ IInv' /\ [Next]_vars => [Abs!Compute]_Abs!vars
  <2>. SUFFICES ASSUME IInv, IInv', [Next]_vars
                PROVE  [Abs!Compute]_Abs!vars
    OBVIOUS
  <2>1. CASE Return
    <3>1. DOMAIN result' = Reachable(succ) /\ succ' = succ /\ result' = result
      BY <2>1, AllInserted DEF Return, input
    <3>2. \A b \in DOMAIN result : result[b] = Abs!Visible(b)
      BY SameGraph, InputAssumption
         DEF IInv, Exact, UsableIn, Abs!Visible
    <3>3. \A b : Abs!Visible(b)' = Abs!Visible(b)
      BY <3>1, SameGraph DEF Abs!Visible
    <3>4. Abs!IsAnswer(result')
      BY <3>1, <3>2, <3>3, SameGraph DEF Abs!IsAnswer
    <3>. QED  BY <3>1, <3>4, <2>1 DEF Abs!Compute, Abs!Unknown, Return
  <2>. QED
    BY <2>1 DEF Next, CollectDefs, SeedEntry, PopParent, UpdateChild,
                EndChildren, vars, input, Abs!vars
<1>. QED  BY <1>1, <1>2, Inductive, PTL DEF Spec, Abs!Spec, AbsSpec
=============================================================================
