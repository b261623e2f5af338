----------------------------- MODULE Selection -----------------------------
(***************************************************************************)
(* Picking some elements of a sequence without changing their order, as    *)
(* the passes do when they walk over a block and skip what they do not     *)
(* care for.  Positions are counted, not visited one after the other, so   *)
(* that proofs need no induction over the sequence.                        *)
(***************************************************************************)
EXTENDS Naturals, FiniteSets

\* The numbers of the finite set S in ascending order.
Ascending(S) ==
  [k \in 1..Cardinality(S) |-> CHOOSE n \in S : Cardinality({m \in S : m <= n}) = k]

\* The elements of s at the positions S, in their order.
Listed(s, S) == LET places == Ascending(S) IN [k \in DOMAIN places |-> s[places[k]]]
=============================================================================
