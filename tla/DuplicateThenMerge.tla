------------------------- MODULE DuplicateThenMerge -------------------------
(***************************************************************************)
(* -passes=duplicate-bb,merge-bb: MergeBB on the function that DuplicateBB *)
(* leaves behind.  The steps are those of the two modules.  Between them   *)
(* the function is renamed from the names of the one to those of the       *)
(* other: a block becomes its number in the layout, a value the place of   *)
(* its definition.                                                         *)
(***************************************************************************)
EXTENDS DuplicateBB, SequencesExt

CONSTANTS NotYet,      \* no function, before merge-bb starts
          Flagged,     \* the instructions that carry a flag such as nsw
          MaxBlocks    \* bound: blocks after duplication

VARIABLES given,       \* the function merge-bb was given
          mterm, mcode, mnext, DeleteList, erased, assertFailed, into

merging == <<given, mterm, mcode, mnext, DeleteList, erased, assertFailed, into>>

M == INSTANCE MergeBB
       WITH Blocks <- 1..MaxBlocks, Entry <- 1, Outside <- 0,
            Layout <- [n \in 1..MaxBlocks |-> n], Programs <- {},
            prog <- given, term <- mterm, code <- mcode, next <- mnext
-----------------------------------------------------------------------------
Number(b) == CHOOSE n \in DOMAIN layout : layout[n] = b
Block(n) == IF n <= Len(layout) THEN layout[n] ELSE Entry

Operand(v) ==
  IF v \in Args \cup Globals
  THEN <<0, CHOOSE n \in 1..Cardinality(Args \cup Globals) : SetToSeq(Args \cup Globals)[n] = v>>
  ELSE LET d == CHOOSE x \in DOMAIN code : DefinedIn(v, x)
       IN  <<Number(d), Position(v, d)>>

\* The instruction that defines v.  A clone carries the flags of its original;
\* the PHIs and compares that the pass makes carry none.
Renamed(v) ==
  LET i == inst[v]
  IN  [op |-> i.kind, flags |-> IF i.kind = "value" /\ Origin(v) \in Flagged THEN {"nsw"} ELSE {},
       opnds |-> [k \in DOMAIN i.opnds |-> Operand(i.opnds[k])],
       from |-> [k \in DOMAIN i.from |-> Number(i.from[k])], dbg |-> FALSE]

NoBlock == [kind |-> "ret", cond |-> M!Undef, tgts |-> <<>>]

\* The function as duplicate-bb has left it; numbers past its last block
\* stand for blocks without code that nothing reaches.
Handed ==
  [code |-> [n \in 1..MaxBlocks |->
               IF n > Len(layout) THEN <<>>
               ELSE [k \in DOMAIN code[Block(n)] |-> Renamed(code[Block(n)][k])]],
   term |-> [n \in 1..MaxBlocks |->
               IF n > Len(layout) THEN NoBlock
               ELSE LET t == term[Block(n)]
                    IN  [kind |-> t.kind,
                         cond |-> IF t.opnds = <<>> THEN M!Undef ELSE Operand(t.opnds[1]),
                         tgts |-> [k \in DOMAIN t.tgts |-> Number(t.tgts[k])]]]]

PipelineInit ==
  /\ Init
  /\ given = NotYet /\ mterm = <<>> /\ mcode = <<>> /\ mnext = 1
  /\ DeleteList = {} /\ erased = {} /\ assertFailed = FALSE /\ into = <<>>

Duplicate == Next /\ UNCHANGED merging

\* The pass manager goes on to merge-bb.
StartMerge ==
  /\ pc = "done" /\ given = NotYet
  /\ given' = Handed
  /\ mterm' = given'.term /\ mcode' = given'.code
  /\ into' = [n \in 1..MaxBlocks |-> n]
  /\ UNCHANGED <<vars, mnext, DeleteList, erased, assertFailed>>

Merge == given # NotYet /\ M!Next /\ UNCHANGED vars

PipelineNext == Duplicate \/ StartMerge \/ Merge

PipelineSpec == PipelineInit /\ [][PipelineNext]_<<vars, merging>>
-----------------------------------------------------------------------------
\* Whatever DuplicateBB makes of a function, MergeBB keeps its promises on
\* it: all edges, the work of the blocks, the values that PHIs take, no use
\* of what it has deleted, and one entry of a PHI per edge.  The work is
\* compared with the flags, which a clone has from its original; no block of
\* a function of the runs differs from another in flags only.
MergePromises ==
  given # NotYet => /\ M!DeadUnreferenced /\ M!SameControl /\ M!SameWork
                    /\ M!SamePhiValue /\ M!NoUndef /\ M!PhisMatchPreds

\* The clones made last of a block: neither has been split since.
ClonePairs ==
  {p \in {<<x, <<x[1], "else", x[3]>> >> : x \in {y \in DOMAIN code \ Blocks : y[2] = "then"}} :
     \A x \in Range(p) : Len(term[x].tgts) = 1}

\* "MergeBB will merge those two clones back together."  It does so exactly
\* for a block that computes no value, or a single one that it does not use
\* itself: a second value makes a second PHI in the tail, and a use in the
\* clone is one more than the PHI's.
ClonesMerged ==
  given # NotYet /\ M!Finished =>
    \A p \in ClonePairs :
      LET values == {v \in Range(code[p[1]]) : inst[v].kind # "void"}
      IN  into[Number(p[1])] = into[Number(p[2])]
            <=> \A v \in values : /\ values = {v}
                                  /\ \A w \in Range(code[p[1]]) : v \notin Range(inst[w].opnds)
=============================================================================
