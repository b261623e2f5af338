-------------------------------- MODULE CFG --------------------------------
(***************************************************************************)
(* The control-flow graph of one function and the dominance relation on    *)
(* it, as the passes of this repository query them from LLVM: successors   *)
(* of a block, DominatorTree::getRootNode and the children of a            *)
(* DomTreeNode.  LLVM itself is not part of the repository; this module    *)
(* states what its dominator tree means, in terms of paths.                *)
(*                                                                         *)
(* A set of blocks closed under the edges of the graph and holding the     *)
(* entry block contains every block that some path from the entry reaches; *)
(* reachability is membership in all such sets.  The definition needs no   *)
(* recursion, so the proofs can reason about it.                           *)
(***************************************************************************)
CONSTANTS Blocks, Entry

\* F.getEntryBlock() is a block of the function.
ASSUME EntryAssumption == Entry \in Blocks

\* A block never branches to the entry block of its function.
Graphs == [Blocks -> SUBSET (Blocks \ {Entry})]

\* R holds the entry block, and every edge out of R that does not enter a
\* stays in R.
ClosedAvoiding(succ, R, a) ==
  /\ Entry \in R
  /\ \A x \in R : succ[x] \ {a} \subseteq R

\* The blocks on some path from the entry that does not pass through a.
\* Nothing branches to the entry, so a = Entry removes no edge.
ReachAvoiding(succ, a) ==
  LET closed == {R \in SUBSET Blocks : ClosedAvoiding(succ, R, a)}
  IN  {b \in Blocks : \A R \in closed : b \in R}

Reachable(succ) == ReachAvoiding(succ, Entry)

\* Every path from the entry to b passes through a.
Dominates(succ, a, b) ==
  /\ b \in Reachable(succ)
  /\ IF a \in {Entry, b} THEN TRUE ELSE b \notin ReachAvoiding(succ, a)

StrictlyDominates(succ, a, b) == a # b /\ Dominates(succ, a, b)

StrictDominators(succ, b) == {a \in Blocks : StrictlyDominates(succ, a, b)}

\* idom is the parent function of the dominator tree of succ: it maps every
\* reachable block but the root to its closest strict dominator.
IsDomTree(succ, idom) ==
  /\ idom \in [Reachable(succ) \ {Entry} -> Blocks]
  /\ \A c \in DOMAIN idom :
       /\ idom[c] \in StrictDominators(succ, c)
       /\ \A a \in StrictDominators(succ, c) : Dominates(succ, a, idom[c])

\* The dominator tree LLVM hands out (DominatorTreeAnalysis).
DomTree(succ) ==
  [c \in Reachable(succ) \ {Entry} |->
     CHOOSE p \in StrictDominators(succ, c) :
       \A a \in StrictDominators(succ, c) : Dominates(succ, a, p)]

\* for (NodeTy Child : *Parent)
Children(idom, p) == {c \in DOMAIN idom : idom[c] = p}

\* The tree as the blocks that each block dominates (getDescendants).
DominatorTree(graph) ==
  LET reach == Reachable(graph)
  IN  [b \in Blocks |-> IF b = Entry THEN reach ELSE reach \ ReachAvoiding(graph, b)]

\* The loop with header h, if h is the header of one: the blocks h dominates
\* from which a branch back to h is reached before h is.  What cannot reach
\* one is in a closed set without one.
LoopBlocks(graph, dt, h) ==
  LET latches == {b \in dt[h] : h \in graph[b]}
      hopeless == {S \in SUBSET (dt[h] \ (latches \cup {h})) :
                     \A b \in S : (graph[b] \cap dt[h]) \subseteq S \cup {h}}
  IN  IF latches = {} THEN {} ELSE dt[h] \ UNION hopeless
=============================================================================
