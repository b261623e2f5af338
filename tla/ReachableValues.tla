-------------------------- MODULE ReachableValues --------------------------
(***************************************************************************)
(* What the RIV analysis promises, with no worklist: for every block that  *)
(* control can reach, the integer values that are visible in it, computed  *)
(* in one step.                                                            *)
(***************************************************************************)
EXTENDS CFG

CONSTANTS Values,        \* instructions, arguments and globals
          IntTyped,      \* the values of integer type
          EntryValues,   \* the arguments of the function and the globals
          Home           \* the block that holds each instruction

VARIABLES succ,          \* the control-flow graph of the analysed function
          answer         \* a map from blocks to sets of values

\* "the integer values that are visible (i.e. can be used) in BB": the
\* integer arguments and globals, and what a strict dominator defines.
Visible(b) ==
  LET sdoms == StrictDominators(succ, b)
  IN  {v \in IntTyped : \/ v \in EntryValues
                        \/ v \in DOMAIN Home /\ Home[v] \in sdoms}

\* map holds exactly the reachable blocks, each with its visible values.
IsAnswer(map) ==
  /\ DOMAIN map = Reachable(succ)
  /\ \A b \in DOMAIN map : map[b] = Visible(b)

\* The map of an analysis that has not run holds no block.
Unknown == [b \in {} |-> {}]

Init == succ \in Graphs /\ answer = Unknown

Compute == answer = Unknown /\ IsAnswer(answer') /\ UNCHANGED succ

vars == <<succ, answer>>

Spec == Init /\ [][Compute]_vars
=============================================================================
