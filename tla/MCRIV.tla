------------------------------- MODULE MCRIV -------------------------------
(***************************************************************************)
(* RIV on every control-flow graph of four blocks.  Each block holds one   *)
(* integer instruction; two blocks hold another one that is not an         *)
(* integer.  One global and one argument are integers, one argument is not.*)
(***************************************************************************)
EXTENDS RIV

CONSTANTS b0, b1, b2, b3, i0, i1, i2, i3, f1, f2, g, a, p

MCBlocks == {b0, b1, b2, b3}
MCInsts == {i0, i1, i2, i3, f1, f2}
MCHome == [i \in MCInsts |->
             CASE i = i0 -> b0 [] i \in {i1, f1} -> b1
               [] i \in {i2, f2} -> b2 [] i = i3 -> b3]
MCIntTyped == {i0, i1, i2, i3, g, a}

\* i1 as the result of an invoke that ends b1: the normal edge leads to b2, the
\* unwind edge to the landing pad b3, which has no other predecessor.
Unwinding == succ[b1] = {b2, b3} /\ \A b \in MCBlocks \ {b1} : b3 \notin succ[b]

\* "The set of reachable integer values, i.e. the integer values that are
\* visible (i.e. can be used) in BB": no path brings control into a block
\* without the normal edge if the block lists the result.
CanBeUsed ==
  Unwinding => \A b \in DOMAIN result :
    i1 \in result[b] => b \notin Reachable([succ EXCEPT ![b1] = @ \ {b2}])
=============================================================================
