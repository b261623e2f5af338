-------------------------------- MODULE RIV --------------------------------
(***************************************************************************)
(* RIV::buildRIV (lib/RIV.cpp): the integer values reachable in every      *)
(* basic block, computed by a depth-first walk of the dominator tree with  *)
(* an explicit stack.  One action per statement of the walk that other     *)
(* statements depend on: STEP 1, STEP 2, taking a node off the stack,      *)
(* updating one child, and leaving the loop.                               *)
(***************************************************************************)
EXTENDS CFG, Sequences, Naturals

CONSTANTS Insts,        \* the instructions of the function
          Globals,      \* the global variables of its module
          Args,         \* its formal arguments
          Home,         \* Home[i]: the block that holds instruction i
          IntTyped      \* values whose (value) type is an integer type

Values == Insts \cup Globals \cup Args

ASSUME InputAssumption ==
  /\ Home \in [Insts -> Blocks]
  /\ Insts \cap (Globals \cup Args) = {}
  /\ IntTyped \subseteq Values

VARIABLES succ,         \* the analysed function's CFG, never changed
          idom,         \* its dominator tree, never changed
          pc,
          work,         \* BBsToProcess
          defined,      \* DefinedValuesMap
          result,       \* ResultMap: a function on the blocks inserted so far
          parent,       \* Parent
          parentRIVs,   \* ParentRIVs, a copy of Parent's entry in ResultMap
          todo          \* the children of Parent still to be visited

input == <<succ, idom>>
vars == <<succ, idom, pc, work, defined, result, parent, parentRIVs, todo>>
-----------------------------------------------------------------------------
\* ResultMap[b].insert(S): MapVector::operator[] first inserts an empty set
\* under a key it does not hold.
MapGet(map, b) == IF b \in DOMAIN map THEN map[b] ELSE {}
MapInsert(map, b, S) ==
  [x \in DOMAIN map \cup {b} |-> IF x = b THEN MapGet(map, b) \cup S ELSE map[x]]

Init ==
  /\ succ \in Graphs
  /\ idom = DomTree(succ)
  /\ IsDomTree(succ, idom)
  /\ pc = "step1"
  /\ work = <<Entry>>
  /\ defined = [b \in Blocks |-> {}]
  /\ result = [b \in {} |-> {}]
  /\ parent = Entry
  /\ parentRIVs = {}
  /\ todo = {}

\* Mutated forms of the actions below: what a slip in the code would do.  The
\* runs show that each breaks a property.

\* The children are those of the node visited before.
PopParentStale ==
  /\ pc = "pop"
  /\ work # <<>>
  /\ parent' = work[Len(work)]
  /\ work' = SubSeq(work, 1, Len(work) - 1)
  /\ parentRIVs' = MapGet(result, parent')
  /\ result' = MapInsert(result, parent', {})
  /\ todo' = Children(idom, parent)
  /\ pc' = "children"
  /\ UNCHANGED <<input, defined>>

\* The walk follows the edges of the CFG, not of the dominator tree.
PopParentCFG ==
  /\ pc = "pop"
  /\ work # <<>>
  /\ parent' = work[Len(work)]
  /\ work' = SubSeq(work, 1, Len(work) - 1)
  /\ parentRIVs' = MapGet(result, parent')
  /\ result' = MapInsert(result, parent', {})
  /\ todo' = succ[parent']
  /\ pc' = "children"
  /\ UNCHANGED <<input, defined>>

\* pop_back is in the loop over the children: a leaf stays on the stack.
PopParentInLoop ==
  /\ pc = "pop"
  /\ work # <<>>
  /\ parent' = work[Len(work)]
  /\ todo' = Children(idom, parent')
  /\ work' = IF todo' = {} THEN work ELSE SubSeq(work, 1, Len(work) - 1)
  /\ parentRIVs' = MapGet(result, parent')
  /\ result' = MapInsert(result, parent', {})
  /\ pc' = "children"
  /\ UNCHANGED <<input, defined>>

\* A block is taken to reach its own definitions.
UpdateChildOwn(child) ==
  /\ pc = "children"
  /\ child \in todo
  /\ todo' = todo \ {child}
  /\ work' = Append(work, child)
  /\ result' = MapInsert(result, child,
                         defined[parent] \cup defined[child] \cup parentRIVs)
  /\ UNCHANGED <<input, pc, defined, parent, parentRIVs>>

\* What the parent inherits is not handed down.
UpdateChildDefsOnly(child) ==
  /\ pc = "children"
  /\ child \in todo
  /\ todo' = todo \ {child}
  /\ work' = Append(work, child)
  /\ result' = MapInsert(result, child, defined[parent])
  /\ UNCHANGED <<input, pc, defined, parent, parentRIVs>>

\* The type of a global or an argument is not looked at.
SeedEntryAnyType ==
  /\ pc = "step2"
  /\ result' = MapInsert(result, Entry, Globals \cup Args)
  /\ pc' = "pop"
  /\ UNCHANGED <<input, work, defined, parent, parentRIVs, todo>>
-----------------------------------------------------------------------------
\* STEP 1: the integer instructions of every block, reachable or not.
CollectDefs ==
  /\ pc = "step1"
  /\ defined' = [b \in Blocks |-> {i \in Insts \cap IntTyped : Home[i] = b}]
  /\ pc' = "step2"
  /\ UNCHANGED <<input, work, result, parent, parentRIVs, todo>>

\* STEP 2: the entry block sees the integer globals and arguments.
SeedEntry ==
  /\ pc = "step2"
  /\ result' = MapInsert(result, Entry, (Globals \cup Args) \cap IntTyped)
  /\ pc' = "pop"
  /\ UNCHANGED <<input, work, defined, parent, parentRIVs, todo>>

\* STEP 3, the head of the while loop: back(), pop_back(), the copy of the
\* parent's set.
PopParent ==
  /\ pc = "pop"
  /\ work # <<>>
  /\ parent' = work[Len(work)]
  /\ work' = SubSeq(work, 1, Len(work) - 1)
  /\ parentRIVs' = MapGet(result, parent')
  /\ result' = MapInsert(result, parent', {})
  /\ todo' = Children(idom, parent')
  /\ pc' = "children"
  /\ UNCHANGED <<input, defined>>

\* The body of the inner loop, for one child.  The order of the children of
\* a DomTreeNode is the order in which LLVM found them: any order.
UpdateChild(child) ==
  /\ pc = "children"
  /\ child \in todo
  /\ todo' = todo \ {child}
  /\ work' = Append(work, child)
  /\ result' = MapInsert(result, child, defined[parent] \cup parentRIVs)
  /\ UNCHANGED <<input, pc, defined, parent, parentRIVs>>

EndChildren ==
  /\ pc = "children"
  /\ todo = {}
  /\ pc' = "pop"
  /\ UNCHANGED <<input, work, defined, result, parent, parentRIVs, todo>>

Return ==
  /\ pc = "pop"
  /\ work = <<>>
  /\ pc' = "done"
  /\ UNCHANGED <<input, work, defined, result, parent, parentRIVs, todo>>

Next ==
  \/ CollectDefs
  \/ SeedEntry
  \/ PopParent
  \/ \E child \in Blocks : UpdateChild(child)
  \/ EndChildren
  \/ Return

Spec == Init /\ [][Next]_vars

\* buildRIV runs in one thread and never waits.
FairSpec == Spec /\ WF_vars(Next)
-----------------------------------------------------------------------------
\* Every variable holds a value of the kind the code declares for it.
TypeOK ==
  /\ succ \in Graphs
  /\ idom \in [Reachable(succ) \ {Entry} -> Blocks]
  /\ pc \in {"step1", "step2", "pop", "children", "done"}
  /\ work \in Seq(Reachable(succ))
  /\ defined \in [Blocks -> SUBSET Values]
  /\ DOMAIN result \subseteq Reachable(succ)
  /\ result \in [DOMAIN result -> SUBSET Values]
  /\ parent \in Reachable(succ)
  /\ parentRIVs \subseteq Values
  /\ todo \subseteq Children(idom, parent)

\* What may be used in b on every path that reaches it: the integer values
\* that exist before the entry block runs, and those a strict dominator of b
\* computes.  (The result of an invoke exists on its normal edge only.)
UsableIn(b) ==
  LET sdoms == StrictDominators(succ, b)
  IN  {v \in IntTyped : \/ v \in Globals \cup Args
                        \/ v \in Insts /\ Home[v] \in sdoms}

\* At no point of the walk does a block's set hold a value that some path to
\* the block leaves undefined.  DuplicateBB builds a use of such a value.
RIVSound == \A b \in DOMAIN result : result[b] \subseteq UsableIn(b)

\* When buildRIV returns, every reachable block has an entry, no unreachable
\* block has one, and no usable value is missing.
RIVComplete ==
  pc = "done" => /\ DOMAIN result = Reachable(succ)
                 /\ \A b \in DOMAIN result : UsableIn(b) \subseteq result[b]

\* Every node enters the worklist once, from its only parent, and the walk
\* takes it from there once: the set a block has when it is taken off the
\* stack is final, which is what makes the copy in ParentRIVs safe.
SetOnceStep ==
  pc \in {"pop", "children"} =>
    /\ DOMAIN result \subseteq DOMAIN result'
    /\ \A b \in DOMAIN result : result'[b] = result[b]

SetOnce == [][SetOnceStep]_vars

\* The walk ends, on graphs with cycles and unreachable blocks too.
Termination == <>(pc = "done")

\* The walk computes what ReachableValues computes in one step.
Abs == INSTANCE ReachableValues
         WITH EntryValues <- Globals \cup Args,
              answer <- IF pc = "done" THEN result ELSE [b \in {} |-> {}]
AbsSpec == Abs!Spec
=============================================================================
