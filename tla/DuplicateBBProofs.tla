------------------------- MODULE DuplicateBBProofs -------------------------
(***************************************************************************)
(* What holds of DuplicateBB on every function, whatever the context       *)
(* values drawn: its types, that PHIs and landing pads stay where the      *)
(* verifier wants them, and that PHIs keep an entry per edge and those of  *)
(* the function their meaning.  All three follow from one inductive        *)
(* invariant, IInv.  Its heart is that names are never reused (ValueName,  *)
(* BlockName, Fresh, PendingOld), for which the counter in the names of    *)
(* blocks and compares has to go up with every block duplicated, and that  *)
(* the tail, up to IIT, has PHIs and instructions to be removed only       *)
(* (CloneOK).                                                              *)
(*                                                                         *)
(* Dominance has an inductive invariant of its own, DInv, further down: an *)
(* operand is dominated wherever it stands (Dominated), the context values *)
(* drawn are there before their blocks, as ReMapper has them (ContextsOK,  *)
(* AheadOK), and in cloneBB the clones of what the tail has before IIT are *)
(* in the side blocks (VMapOK).  What Reached computes is shown first      *)
(* (ReachedIs): the blocks that a path avoiding some others leads to.      *)
(*                                                                         *)
(* That the work of a block stays the same has a third, WInv, at the end:  *)
(* each block executes a stretch of the instructions of the block it was   *)
(* made from (Covers), and those it leads to go on from there (Works).     *)
(* How far the stretches reach, and the order of the blocks that replace   *)
(* one, are not in the state: WInv says that there are such numbers.       *)
(*                                                                         *)
(* The steps of cloneBB are dealt with in two stages each: a lemma ...Does *)
(* says what the step makes of the function, place by place (SplitOf,      *)
(* CloneOf, EndOf), and the others show the invariant from that.           *)
(***************************************************************************)
EXTENDS DuplicateBB, SelectionTheorems, SequenceTheorems

-----------------------------------------------------------------------------
(***************************************************************************)
(* Names.  In a first run every instruction cloned is one of the           *)
(* function's; in a second run it is that, a compare, or what the first    *)
(* run made of one of the function's.  So no clone is given a name that    *)
(* exists, provided that the names of the function are not tuples.         *)
(***************************************************************************)
Pair(x) == DOMAIN x = 1..2 /\ x = <<x[1], x[2]>>
Stamped(x, c) == DOMAIN x = 1..3 /\ x = <<x[1], x[2], x[3]>> /\ x[3] \in 0..(c - 1)

\* The names of blocks and values are no tuples.
Opaque ==
  \A p \in Programs : \A x, y, z :
    /\ <<x, y>> \notin Blocks \cup Args \cup Globals \cup DOMAIN p.inst
    /\ <<x, y, z>> \notin Blocks \cup Args \cup Globals \cup DOMAIN p.inst

\* The counter in the names made so far is below this.
Stamp == IF pc = "clone" THEN count + 1 ELSE count

\* What a run finds, and what it leaves, of values and of blocks.
Source(v) == v \in DOMAIN prog.inst
RunOne(v, c) == Source(v) \/ Stamped(v, c) \/ (Pair(v) /\ Source(v[1]))
RunTwo(v, c) == RunOne(v, c) \/ (Pair(v) /\ RunOne(v[1], c))
OldValue(v) == IF run = 1 THEN Source(v) ELSE RunOne(v, count)
ValueName(v) == IF run = 1 THEN RunOne(v, Stamp) ELSE RunTwo(v, Stamp)

Part(b, c) == b \in Blocks \/ (Stamped(b, c) /\ b[1] \in Blocks)
OldBlock(b) == IF run = 1 THEN b \in Blocks ELSE Part(b, count)
BlockName(b) == b \in Blocks \/ (Stamped(b, Stamp) /\ (run = 1 => b[1] \in Blocks))

\* The value x stands for o of the function.
StandsFor(x, o) ==
  x = o \/ (Pair(x) /\ (x[1] = o \/ (Pair(x[1]) /\ x[1][1] = o)))
-----------------------------------------------------------------------------
\* Records of an instruction and of a terminator.
IsInst(i) == i = [kind |-> i.kind, opnds |-> i.opnds, from |-> i.from]
IsTerm(t) == t = [kind |-> t.kind, opnds |-> t.opnds, tgts |-> t.tgts]

IsSeq(s) == s \in Seq({s[k] : k \in DOMAIN s})

Counters ==
  /\ prog \in Programs
  /\ pc \in {"find", "target", "clone", "done"}
  /\ next \in Nat \ {0} /\ count \in Nat /\ run \in {1, 2}
  /\ tail \in DOMAIN code
  /\ \A v \in ToRemove : Original(Origin(v))

\* The blocks are those of the layout, each there once.
LayoutOK ==
  /\ Blocks \subseteq DOMAIN code
  /\ layout \in Seq(DOMAIN code)
  /\ \A b \in DOMAIN code : \E m \in DOMAIN layout : layout[m] = b
  /\ \A m, n \in DOMAIN layout : layout[m] = layout[n] => m = n
  /\ \A b \in DOMAIN code : BlockName(b)

TermsOK ==
  /\ DOMAIN term = DOMAIN code
  /\ \A b \in DOMAIN code :
       /\ IsTerm(term[b])
       /\ \A k \in DOMAIN term[b].tgts : term[b].tgts[k] \in DOMAIN code

\* An instruction that exists is in exactly one place.
PlacesOK ==
  /\ \A b \in DOMAIN code : code[b] \in Seq(DOMAIN inst)
  /\ \A v \in DOMAIN inst : \E b \in DOMAIN code : \E n \in DOMAIN code[b] : code[b][n] = v
  /\ \A b, d \in DOMAIN code : \A m \in DOMAIN code[b], n \in DOMAIN code[d] :
       code[b][m] = code[d][n] => b = d /\ m = n

InstsOK ==
  \A v \in DOMAIN inst :
    /\ IsInst(inst[v])
    /\ \A k \in DOMAIN inst[v].from : inst[v].from[k] \in DOMAIN code
    /\ ValueName(v)
    /\ IsCompare(v) => inst[v].kind = "cond"

\* What is not yet cloned has no clones, nor clones of clones.
Removing == IF pc = "clone" THEN ToRemove ELSE {}
Fresh ==
  \A v \in DOMAIN inst \ Removing : \A s, t \in {"then", "else", "phi"} :
    /\ Clone(v, s) \notin DOMAIN inst
    /\ Clone(Clone(v, s), t) \notin DOMAIN inst

\* The blocks this run may still split, or has still to look at.
Pending ==
  IF pc = "find" THEN DOMAIN code
  ELSE {Targets[k].block : k \in {n \in DOMAIN Targets : n >= next /\ (pc = "clone" => n > next)}}

PendingOld ==
  \A b \in Pending : OldBlock(b) /\ \A n \in DOMAIN code[b] : OldValue(code[b][n])

PadBlock(b) == b \in Blocks /\ \E n \in DOMAIN prog.code[b] : prog.inst[prog.code[b][n]].kind = "pad"

TargetsOK ==
  /\ IsSeq(Targets)
  /\ \A k \in DOMAIN Targets :
       /\ Targets[k].block \in DOMAIN code
       /\ IsInteger(Targets[k].ctx) /\ Targets[k].ctx \notin Globals
       /\ ~PadBlock(Targets[k].block)
       /\ pc = "find" => \E m \in DOMAIN layout : m < next /\ layout[m] = Targets[k].block
  /\ \A k, m \in DOMAIN Targets : Targets[k].block = Targets[m].block => k = m

\* In cloneBB: the parts of the block, and the tail up to IIT and from it on.
Diamond(th, el, t) ==
  /\ th \in DOMAIN code /\ el \in DOMAIN code
  /\ term[th].tgts = <<t>> /\ term[el].tgts = <<t>>
  /\ \A x \in DOMAIN code \ {th, el} : \A k \in DOMAIN term[x].tgts : term[x].tgts[k] # t

TailOK ==
  /\ at \in 1..(Len(code[tail]) + 1)
  /\ \A n \in DOMAIN code[tail] :
       IF n < at THEN code[tail][n] \in ToRemove \/ n \in Phis(code[tail])
       ELSE OldValue(code[tail][n]) /\ n \notin Phis(code[tail])
  /\ \A v \in ToRemove : \E n \in DOMAIN code[tail] : n < at /\ code[tail][n] = v

CloneOK ==
  pc = "clone" =>
    /\ next \in DOMAIN Targets
    /\ tail = Side(Targets[next].block, "tail")
    /\ Diamond(Side(Targets[next].block, "then"), Side(Targets[next].block, "else"), tail)
    /\ TailOK

PhisFirst ==
  \A b \in DOMAIN code : ~(pc = "clone" /\ b = tail) =>
    \A m, n \in DOMAIN code[b] : m < n /\ n \in Phis(code[b]) => m \in Phis(code[b])

PadsStay ==
  \A b \in Blocks : \A p \in DOMAIN prog.code[b] :
    prog.inst[prog.code[b][p]].kind = "pad" =>
      \E n \in DOMAIN code[b] : /\ code[b][n] = prog.code[b][p]
                                 /\ inst[code[b][n]].kind = "pad"
                                 /\ \A m \in 1..(n - 1) : m \in Phis(code[b])

\* A PHI of b has an entry for each edge from p to b.
Times(s, x) == Cardinality({k \in DOMAIN s : s[k] = x})
EdgesMatch ==
  \A b \in DOMAIN code : \A n \in Phis(code[b]) : \A p \in DOMAIN code :
    Times(inst[code[b][n]].from, p) = Times(term[p].tgts, b)

\* The PHIs of the function are what they were, but for the names that stand
\* for the original ones.
KeepsPhi(i, o) ==
  /\ DOMAIN i.from = DOMAIN o.from
  /\ \A k \in DOMAIN o.from : OriginBlock(i.from[k]) = o.from[k]
  /\ DOMAIN i.opnds = DOMAIN o.opnds
  /\ \A k \in DOMAIN o.opnds : StandsFor(i.opnds[k], o.opnds[k])
PhisOriginal ==
  \A b \in Blocks : \A n \in Phis(code[b]) :
    /\ n \in DOMAIN prog.code[b] /\ code[b][n] = prog.code[b][n]
    /\ KeepsPhi(inst[code[b][n]], prog.inst[prog.code[b][n]])

IInv ==
  /\ Counters /\ LayoutOK /\ TermsOK /\ PlacesOK /\ InstsOK /\ Fresh /\ PendingOld
  /\ TargetsOK /\ CloneOK /\ PhisFirst /\ PadsStay /\ EdgesMatch /\ PhisOriginal
-----------------------------------------------------------------------------
\* What the assumption on the programs says of one of them.
LEMMA Input ==
  ASSUME NEW p \in Programs
  PROVE  /\ p.runs \in 1..2 /\ p.layout \in Seq(Blocks) /\ Entry \in Blocks
         /\ \A b \in Blocks : \E m \in DOMAIN p.layout : p.layout[m] = b
         /\ \A m, n \in DOMAIN p.layout : p.layout[m] = p.layout[n] => m = n
         /\ DOMAIN p.code = Blocks /\ DOMAIN p.term = Blocks
         /\ \A b \in Blocks : p.code[b] \in Seq(DOMAIN p.inst)
<1>1. IsProgram(p)
  BY ProgramAssumption
<1>2. p.runs \in 1..2 /\ p.layout \in Seq(Blocks) /\ Entry \in Blocks
  BY <1>1, SourceAssumption DEF IsProgram
<1>3. \A b \in Blocks : \E m \in DOMAIN p.layout : p.layout[m] = b
  BY <1>1 DEF IsProgram, Range
<1>4. \A m, n \in DOMAIN p.layout : p.layout[m] = p.layout[n] => m = n
  BY <1>1 DEF IsProgram
<1>5. \A b \in Blocks : p.code[b] \in Seq(DOMAIN p.inst)
  BY <1>1 DEF IsProgram
<1>6. DOMAIN p.code = Blocks /\ DOMAIN p.term = Blocks
  BY <1>1 DEF IsProgram
<1>. QED  BY <1>2, <1>3, <1>4, <1>5, <1>6

LEMMA InputTerm ==
  ASSUME NEW p \in Programs, NEW b \in Blocks
  PROVE  IsTerm(p.term[b]) /\ \A k \in DOMAIN p.term[b].tgts : p.term[b].tgts[k] \in Blocks
<1> DEFINE values == Args \cup Globals \cup DOMAIN p.inst
<1>1. IsProgram(p)
  BY ProgramAssumption
<1>2. PICK t : t = p.term[b]
  OBVIOUS
<1>3. t \in [kind : STRING, opnds : Seq(values), tgts : Seq(Blocks)]
  BY <1>1, <1>2 DEF IsProgram
<1>4. IsTerm(t)
  BY <1>3 DEF IsTerm
<1>5. t.tgts \in Seq(Blocks)
  BY <1>3
<1>. QED  BY <1>2, <1>4, <1>5

LEMMA InputInst ==
  ASSUME NEW p \in Programs, NEW v \in DOMAIN p.inst
  PROVE  /\ IsInst(p.inst[v])
         /\ p.inst[v].from \in Seq(Blocks)
         /\ \A k \in DOMAIN p.inst[v].from : p.inst[v].from[k] \in Blocks
         /\ p.inst[v].opnds \in Seq(Args \cup Globals \cup DOMAIN p.inst)
<1> DEFINE values == Args \cup Globals \cup DOMAIN p.inst
<1>1. IsProgram(p)
  BY ProgramAssumption
<1>2. PICK i : i = p.inst[v]
  OBVIOUS
<1>3. i \in [kind : {"value", "void", "phi", "pad"}, opnds : Seq(values), from : Seq(Blocks)]
  BY <1>1, <1>2 DEF IsProgram
<1>4. IsInst(i)
  BY <1>3 DEF IsInst
<1>5. i.from \in Seq(Blocks) /\ i.opnds \in Seq(values)
  BY <1>3
<1>6. \A k \in DOMAIN i.from : i.from[k] \in Blocks
  BY <1>5
<1>. QED  BY <1>2, <1>4, <1>5, <1>6

\* Where its instructions are.
LEMMA InputPlaces ==
  ASSUME NEW p \in Programs
  PROVE  /\ \A v \in DOMAIN p.inst : \E b \in Blocks : \E n \in DOMAIN p.code[b] : p.code[b][n] = v
         /\ \A b, d \in Blocks : \A m \in DOMAIN p.code[b], n \in DOMAIN p.code[d] :
              p.code[b][m] = p.code[d][n] => b = d /\ m = n
<1>1. InOnePlace(p)
  BY ProgramAssumption, Zenon
<1>. QED  BY <1>1 DEF InOnePlace

\* What comes before a PHI or a landing pad.
LEMMA InputHeads ==
  ASSUME NEW p \in Programs, NEW b \in Blocks, NEW n \in DOMAIN p.code[b],
         p.inst[p.code[b][n]].kind \in {"phi", "pad"}, NEW m \in 1..(n - 1)
  PROVE  p.inst[p.code[b][m]].kind = "phi"
<1>1. WellHeaded(p)
  BY ProgramAssumption, Zenon
<1>. QED  BY <1>1 DEF WellHeaded

\* A PHI has an entry for each edge.
LEMMA InputEdges ==
  ASSUME NEW p \in Programs, NEW b \in Blocks, NEW n \in DOMAIN p.code[b],
         p.inst[p.code[b][n]].kind = "phi", NEW x \in Blocks
  PROVE  Times(p.inst[p.code[b][n]].from, x) = Times(p.term[x].tgts, b)
<1>1. WellHeaded(p)
  BY ProgramAssumption, Zenon
<1>2. Cardinality({k \in DOMAIN p.inst[p.code[b][n]].from : p.inst[p.code[b][n]].from[k] = x})
        = Cardinality({k \in DOMAIN p.term[x].tgts : p.term[x].tgts[k] = b})
  BY <1>1, Zenon DEF WellHeaded
<1>. QED  BY <1>2, Zenon DEF Times

\* What the opacity of the names says of the function at hand.
LEMMA NoTuple ==
  ASSUME Opaque, prog \in Programs, NEW x, NEW y, NEW z
  PROVE  /\ <<x, y>> \notin Blocks /\ <<x, y, z>> \notin Blocks
         /\ ~Original(<<x, y>>) /\ ~Original(<<x, y, z>>)
         /\ ~Source(<<x, y>>) /\ ~Source(<<x, y, z>>)
BY DEF Opaque, Original, Source

\* An instruction's name leads back to what it stands for.
LEMMA OriginOf ==
  ASSUME Opaque, prog \in Programs, NEW o, Original(o), NEW x, StandsFor(x, o)
  PROVE  Origin(x) = o
<1>1. CASE x = o
  BY <1>1 DEF Origin
<1>2. CASE Pair(x) /\ x[1] = o
  <2>1. ~Original(x)
    BY <1>2, NoTuple DEF Pair
  <2>. QED  BY <1>2, <2>1 DEF Origin
<1>3. CASE Pair(x) /\ Pair(x[1]) /\ x[1][1] = o
  <2>1. ~Original(x) /\ ~Original(x[1])
    BY <1>3, NoTuple DEF Pair
  <2>2. Len(x[1]) = 2
    BY <1>3 DEF Pair
  <2>3. ~IsCompare(x[1])
    BY <2>2 DEF IsCompare
  <2>. QED  BY <1>3, <2>1, <2>3 DEF Origin
<1>. QED  BY <1>1, <1>2, <1>3 DEF StandsFor

\* Where the PHIs come first, the first instruction that is none is where
\* they end.
LEMMA FirstNonPHIs ==
  ASSUME NEW b, code[b] \in Seq(DOMAIN inst),
         \A m, n \in DOMAIN code[b] : m < n /\ n \in Phis(code[b]) => m \in Phis(code[b])
  PROVE  /\ FirstNonPHI(b) \in 1..(Len(code[b]) + 1)
         /\ \A m \in 1..Len(code[b]) : m >= FirstNonPHI(b) <=> m \notin Phis(code[b])
<1>1. PICK c : c = code[b]
  OBVIOUS
<1>2. PICK N \in Nat : N = Len(c)
  BY <1>1
<1>3. DOMAIN c = 1..N
  BY <1>1, <1>2
<1>4. PICK P : P = Phis(c)
  OBVIOUS
<1>5. P \in SUBSET (1..N) /\ \A m, n \in 1..N : m < n /\ n \in P => m \in P
  BY <1>1, <1>3, <1>4 DEF Phis
<1>6. PICK S : S = (1..(N + 1)) \ P
  OBVIOUS
<1>7. S \in SUBSET (1..(N + 1)) /\ N + 1 \in S
  BY <1>2, <1>5, <1>6
<1>8. PICK i \in S : \A j \in S : i <= j
  <2>1. N + 1 \in Nat
    BY <1>2
  <2>2. PICK M \in Nat : M = N + 1
    BY <2>1
  <2>. QED  BY <1>7, <2>2, LeastNumber
<1>9. i \in 1..(N + 1) /\ \A m \in 1..N : m >= i <=> m \notin P
  BY <1>2, <1>5, <1>6, <1>7, <1>8
<1>10. FirstNonPHI(b) = CHOOSE n \in 1..(N + 1) : \A m \in 1..N : m >= n <=> m \notin P
  BY <1>1, <1>2, <1>4 DEF FirstNonPHI
<1>. QED  BY <1>1, <1>2, <1>4, <1>9, <1>10

\* The function is well formed, its PHIs are its own.
LEMMA InitIInv ==
  ASSUME Opaque, Init
  PROVE  IInv
<1>1. prog \in Programs
  BY DEF Init
<1>2. PICK p \in Programs : p = prog
  BY <1>1
<1>3. code = p.code /\ inst = p.inst /\ term = p.term /\ layout = p.layout
  BY <1>2 DEF Init
<1>4. pc = "find" /\ next = 1 /\ Targets = <<>> /\ tail = Entry /\ ToRemove = {} /\ count = 0 /\ run = 1
  BY DEF Init
<1>5. DOMAIN code = Blocks /\ DOMAIN term = Blocks
  BY <1>3, Input
<1>6. Counters
  BY <1>1, <1>4, <1>5, Input DEF Counters
<1>7. LayoutOK
  <2>1. \A b \in Blocks : BlockName(b)
    BY DEF BlockName
  <2>. QED  BY <1>3, <1>5, <2>1, Input DEF LayoutOK
<1>8. TermsOK
  <2>. SUFFICES ASSUME NEW b \in Blocks
                PROVE  /\ IsTerm(p.term[b])
                       /\ \A k \in DOMAIN p.term[b].tgts : p.term[b].tgts[k] \in Blocks
    BY <1>3, <1>5 DEF TermsOK
  <2>. QED  BY InputTerm
<1>9. PlacesOK
  <2>1. \A b \in Blocks : p.code[b] \in Seq(DOMAIN p.inst)
    BY Input
  <2>2. /\ \A v \in DOMAIN p.inst : \E b \in Blocks : \E n \in DOMAIN p.code[b] : p.code[b][n] = v
        /\ \A b, d \in Blocks : \A m \in DOMAIN p.code[b], n \in DOMAIN p.code[d] :
             p.code[b][m] = p.code[d][n] => b = d /\ m = n
    BY InputPlaces
  <2>. QED  BY <1>3, <1>5, <2>1, <2>2 DEF PlacesOK
<1>10. InstsOK
  <2>1. SUFFICES ASSUME NEW v \in DOMAIN p.inst
                PROVE  /\ IsInst(p.inst[v])
                       /\ \A k \in DOMAIN p.inst[v].from : p.inst[v].from[k] \in Blocks
                       /\ ValueName(v) /\ ~IsCompare(v)
    BY <1>3, <1>5 DEF InstsOK
  <2>2. Source(v)
    BY <1>2 DEF Source
  <2>3. ValueName(v)
    BY <2>2, <1>4 DEF ValueName, RunOne
  <2>4. ~IsCompare(v)
    BY <2>2 DEF IsCompare, Original, Source
  <2>. QED  BY <2>3, <2>4, InputInst
<1>11. Fresh
  <2>1. \A x, y : ~Source(<<x, y>>)
    BY <1>1, NoTuple
  <2>. QED  BY <1>2, <1>3, <2>1 DEF Fresh, Clone, Source
<1>12. PendingOld
  <2>1. Pending = Blocks
    BY <1>4, <1>5 DEF Pending
  <2>2. \A b \in Blocks : \A n \in DOMAIN p.code[b] : p.code[b][n] \in DOMAIN p.inst
    BY Input
  <2>3. \A v \in DOMAIN p.inst : OldValue(v)
    BY <1>2, <1>4 DEF OldValue, Source
  <2>4. \A b \in Blocks : OldBlock(b)
    BY <1>4 DEF OldBlock
  <2>. QED  BY <1>3, <2>1, <2>2, <2>3, <2>4 DEF PendingOld
<1>13. TargetsOK
  BY <1>4 DEF TargetsOK, IsSeq
<1>14. CloneOK
  BY <1>4 DEF CloneOK
<1>15. PhisFirst
  <2>. SUFFICES ASSUME NEW b \in Blocks, NEW m \in DOMAIN p.code[b], NEW n \in DOMAIN p.code[b],
                       m < n, p.inst[p.code[b][n]].kind = "phi"
                PROVE  p.inst[p.code[b][m]].kind = "phi"
    BY <1>3, <1>5 DEF PhisFirst, Phis
  <2>1. DOMAIN p.code[b] = 1..Len(p.code[b]) /\ Len(p.code[b]) \in Nat
    BY Input
  <2>2. m \in 1..(n - 1)
    BY <2>1
  <2>. QED  BY <2>2, InputHeads
<1>16. PadsStay
  <2>. SUFFICES ASSUME NEW b \in Blocks, NEW n \in DOMAIN p.code[b],
                       p.inst[p.code[b][n]].kind = "pad"
                PROVE  \A m \in 1..(n - 1) : m \in DOMAIN p.code[b] /\ p.inst[p.code[b][m]].kind = "phi"
    BY <1>2, <1>3 DEF PadsStay, Phis
  <2>1. DOMAIN p.code[b] = 1..Len(p.code[b]) /\ Len(p.code[b]) \in Nat
    BY Input
  <2>2. \A m \in 1..(n - 1) : m \in DOMAIN p.code[b]
    BY <2>1
  <2>. QED  BY <2>2, InputHeads
<1>17. EdgesMatch
  <2>. SUFFICES ASSUME NEW b \in Blocks, NEW n \in Phis(p.code[b]), NEW x \in Blocks
                PROVE  Times(p.inst[p.code[b][n]].from, x) = Times(p.term[x].tgts, b)
    BY <1>3, <1>5 DEF EdgesMatch
  <2>1. n \in DOMAIN p.code[b] /\ p.inst[p.code[b][n]].kind = "phi"
    BY <1>3 DEF Phis
  <2>. QED  BY <2>1, InputEdges
<1>18. PhisOriginal
  <2>1. ASSUME NEW b \in Blocks, NEW n \in DOMAIN p.code[b]
        PROVE  KeepsPhi(p.inst[p.code[b][n]], p.inst[p.code[b][n]])
    <3>1. PICK i : i = p.inst[p.code[b][n]]
      OBVIOUS
    <3>2. \A k \in DOMAIN i.from : i.from[k] \in Blocks
      <4>1. p.code[b][n] \in DOMAIN p.inst
        BY Input
      <4>. QED  BY <3>1, <4>1, InputInst
    <3>3. \A k \in DOMAIN i.from : OriginBlock(i.from[k]) = i.from[k]
      BY <3>2 DEF OriginBlock
    <3>4. \A x : StandsFor(x, x)
      BY DEF StandsFor
    <3>5. KeepsPhi(i, i)
      BY <3>3, <3>4 DEF KeepsPhi
    <3>. QED  BY <3>1, <3>5
  <2>2. ASSUME NEW b \in Blocks, NEW n \in Phis(code[b])
        PROVE  n \in DOMAIN p.code[b]
    BY <1>3 DEF Phis
  <2>. QED  BY <1>2, <1>3, <2>1, <2>2 DEF PhisOriginal
<1>. QED  BY <1>6, <1>7, <1>8, <1>9, <1>10, <1>11, <1>12, <1>13, <1>14, <1>15, <1>16, <1>17, <1>18 DEF IInv

\* The n-th instruction of b is v, which is nowhere else.
At(v, b, n) == b \in DOMAIN code /\ n \in DOMAIN code[b] /\ code[b][n] = v

LEMMA OnePlace ==
  ASSUME IInv, NEW v, NEW b, NEW d, NEW m, NEW n, At(v, b, m), At(v, d, n)
  PROVE  b = d /\ m = n
<1>1. \A x, y \in DOMAIN code : \A i \in DOMAIN code[x], j \in DOMAIN code[y] :
        code[x][i] = code[y][j] => x = y /\ i = j
  BY DEF IInv, PlacesOK
<1>2. PICK f : f = code
  OBVIOUS
<1>3. /\ b \in DOMAIN f /\ d \in DOMAIN f /\ m \in DOMAIN f[b] /\ n \in DOMAIN f[d]
      /\ f[b][m] = f[d][n]
  BY <1>2 DEF At
<1>4. \A x, y \in DOMAIN f : \A i \in DOMAIN f[x], j \in DOMAIN f[y] :
        f[x][i] = f[y][j] => x = y /\ i = j
  BY <1>1, <1>2
<1>5. \A y \in DOMAIN f : \A i \in DOMAIN f[b], j \in DOMAIN f[y] :
        f[b][i] = f[y][j] => b = y /\ i = j
  BY <1>3, <1>4
<1>6. \A i \in DOMAIN f[b], j \in DOMAIN f[d] : f[b][i] = f[d][j] => b = d /\ i = j
  BY <1>3, <1>5
<1>. QED  BY <1>3, <1>6

\* What depends on the function as the pass found it only.
LEMMA SameProgram ==
  ASSUME prog' = prog, NEW v
  PROVE  /\ Original(v)' = Original(v) /\ IsCompare(v)' = IsCompare(v)
         /\ Origin(v)' = Origin(v) /\ IsInteger(v)' = IsInteger(v)
         /\ PadBlock(v)' = PadBlock(v) /\ Source(v)' = Source(v)
<1>1. \A x : Original(x)' = Original(x)
  BY DEF Original
<1>2. \A x : IsCompare(x)' = IsCompare(x)
  BY <1>1 DEF IsCompare
<1>3. Origin(v)' = Origin(v)
  BY <1>1, <1>2 DEF Origin
<1>4. IsInteger(v)' = IsInteger(v)
  BY <1>2, <1>3 DEF IsInteger
<1>5. PadBlock(v)' = PadBlock(v) /\ Source(v)' = Source(v)
  BY DEF PadBlock, Source
<1>. QED  BY <1>1, <1>2, <1>3, <1>4, <1>5

\* findBBsToDuplicate and what follows the last cloneBB do not touch the
\* function.
LEMMA Untouched ==
  ASSUME IInv, pc # "clone", pc' # "clone", run' \in {1, 2}, run = 2 => run' = 2,
         UNCHANGED <<prog, code, inst, term, layout, count>>
  PROVE  /\ LayoutOK' /\ TermsOK' /\ PlacesOK' /\ InstsOK' /\ Fresh' /\ CloneOK'
         /\ PhisFirst' /\ PadsStay' /\ EdgesMatch' /\ PhisOriginal'
<1>1. Stamp' = Stamp /\ Removing' = Removing /\ Phis(code[tail])' = Phis(code[tail])'
  BY DEF Stamp, Removing
<1>2. \A c : Phis(c)' = Phis(c)
  BY DEF Phis
<1>3. LayoutOK'
  <2>1. run \in {1, 2}
    BY DEF IInv, Counters
  <2>2. \A b : BlockName(b) => BlockName(b)'
    BY <1>1, <2>1 DEF BlockName
  <2>. QED  BY <2>2 DEF IInv, LayoutOK
<1>4. TermsOK'
  BY DEF IInv, TermsOK
<1>5. PlacesOK'
  BY DEF IInv, PlacesOK
<1>6. InstsOK'
  <2>1. run \in {1, 2}
    BY DEF IInv, Counters
  <2>2. \A v : Source(v)' = Source(v) /\ IsCompare(v)' = IsCompare(v)
    BY SameProgram
  <2>3. \A v : ValueName(v) => ValueName(v)'
    BY <1>1, <2>1, <2>2 DEF ValueName, RunOne, RunTwo
  <2>. QED  BY <2>2, <2>3 DEF IInv, InstsOK
<1>7. Fresh'
  BY <1>1 DEF IInv, Fresh, Clone
<1>8. CloneOK'
  BY DEF CloneOK
<1>9. PhisFirst'
  BY <1>2 DEF IInv, PhisFirst
<1>10. PadsStay'
  BY <1>2 DEF IInv, PadsStay
<1>11. EdgesMatch'
  BY <1>2 DEF IInv, EdgesMatch
<1>12. PhisOriginal'
  BY <1>2 DEF IInv, PhisOriginal
<1>. QED  BY <1>3, <1>4, <1>5, <1>6, <1>7, <1>8, <1>9, <1>10, <1>11, <1>12

\* A landing pad is the first instruction of its block that is no PHI.
LEMMA PadFirst ==
  ASSUME IInv, pc # "clone", NEW b \in Blocks, NEW p \in DOMAIN prog.code[b],
         prog.inst[prog.code[b][p]].kind = "pad"
  PROVE  /\ FirstNonPHI(b) \in DOMAIN code[b] /\ code[b][FirstNonPHI(b)] = prog.code[b][p]
         /\ inst[code[b][FirstNonPHI(b)]].kind = "pad"
<1>1. b \in DOMAIN code
  BY DEF IInv, LayoutOK
<1>2. PICK n \in DOMAIN code[b] : /\ code[b][n] = prog.code[b][p]
                                   /\ inst[code[b][n]].kind = "pad"
                                   /\ \A m \in 1..(n - 1) : m \in Phis(code[b])
  BY DEF IInv, PadsStay
<1>3. /\ code[b] \in Seq(DOMAIN inst)
      /\ \A m, k \in DOMAIN code[b] : m < k /\ k \in Phis(code[b]) => m \in Phis(code[b])
  BY <1>1 DEF IInv, PlacesOK, PhisFirst
<1>4. DOMAIN code[b] = 1..Len(code[b]) /\ Len(code[b]) \in Nat
  BY <1>3
<1>5. n \notin Phis(code[b])
  BY <1>2 DEF Phis
<1>6. /\ FirstNonPHI(b) \in 1..(Len(code[b]) + 1)
      /\ \A m \in 1..Len(code[b]) : m >= FirstNonPHI(b) <=> m \notin Phis(code[b])
  BY <1>3, FirstNonPHIs
<1>7. FirstNonPHI(b) = n
  <2>1. n >= FirstNonPHI(b)
    BY <1>4, <1>5, <1>6
  <2>2. ~(FirstNonPHI(b) < n)
    <3>. SUFFICES ASSUME FirstNonPHI(b) < n PROVE FALSE
      OBVIOUS
    <3>1. FirstNonPHI(b) \in 1..(n - 1) /\ FirstNonPHI(b) \in 1..Len(code[b])
      BY <1>4, <1>6
    <3>2. FirstNonPHI(b) >= FirstNonPHI(b)
      BY <1>6
    <3>. QED  BY <1>2, <1>6, <3>1, <3>2
  <2>. QED  BY <1>4, <1>6, <2>1, <2>2
<1>. QED  BY <1>2, <1>7

\* So findBBsToDuplicate leaves the block alone.
LEMMA PadIsLanding ==
  ASSUME IInv, pc = "find", NEW b, PadBlock(b)
  PROVE  IsLandingPad(b)
BY PadFirst DEF PadBlock, IsLandingPad

\* A context value is an integer and no global, and no landing pad is taken.
LEMMA EligibleIs ==
  ASSUME NEW b, NEW ctx \in Eligible(b)
  PROVE  ~IsLandingPad(b) /\ IsInteger(ctx) /\ ctx \notin Globals
<1>1. ~IsLandingPad(b) /\ ctx \in RIVResult(b) \ Globals
  BY DEF Eligible
<1>2. IsInteger(ctx)
  BY <1>1 DEF RIVResult
<1>. QED  BY <1>1, <1>2

LEMMA FindStep ==
  ASSUME IInv, SkipBlock \/ TakeBlock \/ EndFind
  PROVE  IInv'
<1>1. /\ pc = "find" /\ UNCHANGED <<prog, code, inst, term, layout, tail, ToRemove, count, run>>
      /\ pc' \in {"find", "target"} /\ next' \in Nat \ {0}
      /\ prog \in Programs /\ count \in Nat /\ run \in {1, 2} /\ next \in Nat \ {0}
  BY DEF IInv, Counters, SkipBlock, TakeBlock, EndFind, function, cloning
<1>2. /\ LayoutOK' /\ TermsOK' /\ PlacesOK' /\ InstsOK' /\ Fresh' /\ CloneOK'
      /\ PhisFirst' /\ PadsStay' /\ EdgesMatch' /\ PhisOriginal'
  BY <1>1, Untouched
<1>3. Counters'
  BY <1>1, SameProgram DEF IInv, Counters
<1>4. \A k \in DOMAIN Targets' : Targets'[k].block \in DOMAIN code
  <2>1. TargetsOK
    BY DEF IInv
  <2>2. CASE TakeBlock
    <3>. PICK c : c = layout[next]
      OBVIOUS
    <3>1. PICK ctx \in Eligible(c) : Targets' = Append(Targets, [block |-> c, ctx |-> ctx])
      BY <2>2 DEF TakeBlock
    <3>2. c \in DOMAIN code
      BY <2>2 DEF TakeBlock, IInv, LayoutOK, Counters
    <3>. QED  BY <2>1, <3>1, <3>2 DEF TargetsOK, IsSeq
  <2>. QED  BY <2>1, <2>2 DEF TargetsOK, SkipBlock, EndFind
<1>5. PendingOld'
  <2>1. Pending' \subseteq DOMAIN code
    BY <1>1, <1>4 DEF Pending
  <2>2. \A b, v : OldBlock(b)' = OldBlock(b) /\ OldValue(v)' = OldValue(v)
    BY <1>1 DEF OldBlock, OldValue, Part, RunOne, Source
  <2>3. \A b \in DOMAIN code : OldBlock(b) /\ \A n \in DOMAIN code[b] : OldValue(code[b][n])
    BY <1>1 DEF IInv, PendingOld, Pending
  <2>. QED  BY <1>1, <2>1, <2>2, <2>3 DEF PendingOld
<1>6. CASE SkipBlock \/ EndFind
  <2>1. TargetsOK'
    <3>1. Targets' = Targets /\ (pc' = "find" => next' = next + 1)
      BY <1>6 DEF SkipBlock, EndFind
    <3>2. /\ IsSeq(Targets)
          /\ \A k, m \in DOMAIN Targets : Targets[k].block = Targets[m].block => k = m
      BY DEF IInv, TargetsOK
    <3>3. \A k \in DOMAIN Targets :
            /\ Targets[k].block \in DOMAIN code
            /\ IsInteger(Targets[k].ctx) /\ Targets[k].ctx \notin Globals
            /\ ~PadBlock(Targets[k].block)
            /\ \E m \in DOMAIN layout : m < next /\ layout[m] = Targets[k].block
      BY <1>1 DEF IInv, TargetsOK
    <3>4. DOMAIN layout \subseteq Nat
      BY DEF IInv, LayoutOK
    <3>5. \A m \in DOMAIN layout : m < next => m < next + 1
      BY <1>1, <3>4
    <3>6. \A k \in DOMAIN Targets :
            pc' = "find" => \E m \in DOMAIN layout : m < next' /\ layout[m] = Targets[k].block
      BY <3>1, <3>3, <3>5
    <3>7. IsSeq(Targets')
      BY <3>1, <3>2
    <3>. QED  BY <1>1, <3>1, <3>2, <3>3, <3>6, <3>7, SameProgram DEF TargetsOK
  <2>. QED  BY <1>2, <1>3, <1>5, <2>1 DEF IInv
<1>7. CASE TakeBlock
  <2>1. PICK b : b = layout[next]
    OBVIOUS
  <2>2. PICK ctx \in Eligible(b) : Targets' = Append(Targets, [block |-> b, ctx |-> ctx])
    BY <1>7, <2>1 DEF TakeBlock
  <2>3. next \in DOMAIN layout /\ b \in DOMAIN code /\ next' = next + 1 /\ pc' = "find"
    BY <1>1, <1>7, <2>1 DEF TakeBlock, IInv, LayoutOK
  <2>4. IsInteger(ctx) /\ ctx \notin Globals /\ ~PadBlock(b)
    BY <1>1, EligibleIs, PadIsLanding
  <2>5. PICK T : T = Targets
    OBVIOUS
  <2>6. PICK e : e = [block |-> b, ctx |-> ctx]
    OBVIOUS
  <2>7. IsSeq(T) /\ DOMAIN T = 1..Len(T) /\ Len(T) \in Nat
    BY <2>5 DEF IInv, TargetsOK, IsSeq
  <2>8. /\ Targets' = Append(T, e) /\ DOMAIN Targets' = 1..(Len(T) + 1)
        /\ \A k \in 1..Len(T) : Targets'[k] = T[k]
        /\ Targets'[Len(T) + 1] = e
    BY <2>2, <2>5, <2>6, <2>7 DEF IsSeq
  <2>9. IsSeq(Targets')
    <3>1. \A k \in 1..(Len(T) + 1) : Append(T, e)[k] \in {Append(T, e)[i] : i \in DOMAIN Append(T, e)}
      BY <2>7, <2>8
    <3>2. Append(T, e) \in Seq({T[i] : i \in DOMAIN T} \cup {e})
      BY <2>7 DEF IsSeq
    <3>. QED  BY <2>7, <2>8, <3>1, <3>2 DEF IsSeq
  <2>10. \A k \in DOMAIN T : \E m \in DOMAIN layout : m < next /\ layout[m] = T[k].block
    BY <1>1, <2>5 DEF IInv, TargetsOK
  <2>11. \A k \in DOMAIN T : T[k].block # b
    BY <1>1, <2>1, <2>3, <2>10 DEF IInv, LayoutOK
  <2>12. \A k \in DOMAIN Targets' :
           /\ Targets'[k].block \in DOMAIN code
           /\ IsInteger(Targets'[k].ctx) /\ Targets'[k].ctx \notin Globals
           /\ ~PadBlock(Targets'[k].block)
           /\ \E m \in DOMAIN layout : m < next + 1 /\ layout[m] = Targets'[k].block
    <3>. SUFFICES ASSUME NEW k \in 1..(Len(T) + 1)
                  PROVE  /\ Targets'[k].block \in DOMAIN code
                         /\ IsInteger(Targets'[k].ctx) /\ Targets'[k].ctx \notin Globals
                         /\ ~PadBlock(Targets'[k].block)
                         /\ \E m \in DOMAIN layout : m < next + 1 /\ layout[m] = Targets'[k].block
      BY <2>8
    <3>1. CASE k = Len(T) + 1
      <4>1. Targets'[k].block = b /\ Targets'[k].ctx = ctx
        BY <2>6, <2>8, <3>1
      <4>2. next < next + 1
        BY <1>1
      <4>. QED  BY <2>1, <2>3, <2>4, <4>1, <4>2
    <3>2. CASE k \in DOMAIN T
      <4>1. Targets'[k] = Targets[k] /\ k \in DOMAIN Targets
        BY <2>5, <2>7, <2>8, <3>2
      <4>2. \E m \in DOMAIN layout : m < next + 1 /\ layout[m] = Targets[k].block
        <5>1. PICK m \in DOMAIN layout : m < next /\ layout[m] = Targets[k].block
          BY <1>1, <4>1 DEF IInv, TargetsOK
        <5>2. m \in Nat
          BY DEF IInv, LayoutOK
        <5>. QED  BY <1>1, <5>1, <5>2
      <4>. QED  BY <4>1, <4>2 DEF IInv, TargetsOK
    <3>. QED  BY <2>7, <3>1, <3>2
  <2>13. \A k, m \in DOMAIN Targets' : Targets'[k].block = Targets'[m].block => k = m
    <3>1. \A k, m \in DOMAIN T : T[k].block = T[m].block => k = m
      BY <2>5 DEF IInv, TargetsOK
    <3>2. Targets'[Len(T) + 1].block = b
      BY <2>6, <2>8
    <3>. QED  BY <2>7, <2>8, <2>11, <3>1, <3>2
  <2>14. TargetsOK'
    BY <1>1, <2>3, <2>9, <2>12, <2>13, SameProgram DEF TargetsOK
  <2>. QED  BY <1>2, <1>3, <1>5, <2>14 DEF IInv
<1>. QED  BY <1>6, <1>7

LEMMA LeaveStep ==
  ASSUME IInv, Leave
  PROVE  IInv'
<1>1. /\ pc = "target" /\ UNCHANGED <<prog, code, inst, term, layout, tail, ToRemove, count>>
      /\ next' = 1 /\ Targets' = <<>>
      /\ prog \in Programs /\ count \in Nat /\ run \in {1, 2} /\ next \in Nat \ {0}
  BY DEF IInv, Counters, Leave, function, cloning
<1>2. prog.runs \in {1, 2}
  BY <1>1, Input
<1>3. \/ pc' = "done" /\ run' = run
      \/ pc' = "find" /\ run = 1 /\ run' = 2
  BY <1>1, <1>2 DEF Leave
<1>4. /\ LayoutOK' /\ TermsOK' /\ PlacesOK' /\ InstsOK' /\ Fresh' /\ CloneOK'
      /\ PhisFirst' /\ PadsStay' /\ EdgesMatch' /\ PhisOriginal'
  BY <1>1, <1>3, Untouched
<1>5. Counters'
  BY <1>1, <1>3, SameProgram DEF IInv, Counters
<1>6. TargetsOK'
  BY <1>1 DEF TargetsOK, IsSeq
<1>7. PendingOld'
  <2>1. CASE pc' = "done"
    BY <1>1, <2>1 DEF PendingOld, Pending
  <2>2. CASE pc' = "find"
    <3>1. run = 1 /\ run' = 2 /\ Pending' = DOMAIN code /\ Stamp = count
      BY <1>1, <1>3, <2>2 DEF Pending, Stamp
    <3>2. \A b \in DOMAIN code : OldBlock(b)'
      BY <1>1, <3>1 DEF OldBlock, Part, BlockName, IInv, LayoutOK
    <3>3. \A v \in DOMAIN inst : OldValue(v)'
      BY <1>1, <3>1, SameProgram DEF OldValue, ValueName, RunOne, IInv, InstsOK
    <3>4. \A b \in DOMAIN code : \A n \in DOMAIN code[b] : code[b][n] \in DOMAIN inst
      BY DEF IInv, PlacesOK
    <3>5. \A b \in DOMAIN code : \A n \in DOMAIN code[b] : OldValue(code[b][n])'
      BY <1>1, <3>3, <3>4 DEF OldValue, RunOne, Source
    <3>. QED  BY <1>1, <3>1, <3>2, <3>5 DEF PendingOld
  <2>. QED  BY <1>3, <2>1, <2>2
<1>. QED  BY <1>4, <1>5, <1>6, <1>7 DEF IInv
-----------------------------------------------------------------------------
(***************************************************************************)
(* CreateIsNull and SplitBlockAndInsertIfThenElse: what becomes of block b *)
(* with its first k-1 instructions PHIs, compare c, and new blocks th, el  *)
(* and t.                                                                  *)
(***************************************************************************)
SplitNames(b, k, c, th, el, t) ==
  /\ next \in DOMAIN Targets /\ b = Targets[next].block /\ b \in DOMAIN code
  /\ c = <<b, "cond", count>>
  /\ th = <<b, "then", count>> /\ el = <<b, "else", count>> /\ t = <<b, "tail", count>>
  /\ OldBlock(b) /\ \A n \in DOMAIN code[b] : OldValue(code[b][n])
  /\ ~PadBlock(b)
  /\ k \in 1..(Len(code[b]) + 1)
  /\ \A m \in 1..Len(code[b]) : m >= k <=> m \notin Phis(code[b])
  /\ th \notin DOMAIN code /\ el \notin DOMAIN code /\ t \notin DOMAIN code
  /\ th # el /\ th # t /\ el # t /\ th # b /\ el # b /\ t # b

SplitCode(b, k, c, th, el, t) ==
  /\ DOMAIN code' = DOMAIN code \cup {th, el, t}
  /\ \A x \in DOMAIN code : x # b => code'[x] = code[x]
  /\ code'[th] = <<>> /\ code'[el] = <<>>
  /\ code'[b] \in Seq(DOMAIN inst \cup {c}) /\ DOMAIN code'[b] = 1..k /\ Len(code'[b]) = k
  /\ \A n \in 1..(k - 1) : code'[b][n] = code[b][n]
  /\ code'[b][k] = c
  /\ code'[t] \in Seq(DOMAIN inst) /\ Len(code'[t]) = Len(code[b]) + 1 - k
  /\ DOMAIN code'[t] = 1..(Len(code[b]) + 1 - k)
  /\ \A n \in 1..(Len(code[b]) + 1 - k) : code'[t][n] = code[b][n + k - 1]

SplitTerms(b, c, th, el, t) ==
  /\ DOMAIN term' = DOMAIN code \cup {th, el, t}
  /\ \A x \in DOMAIN code \cup {th, el, t} : IsTerm(term'[x])
  /\ term'[b].tgts = <<th, el>> /\ term'[th].tgts = <<t>> /\ term'[el].tgts = <<t>>
  /\ term'[t].tgts = term[b].tgts
  /\ \A x \in DOMAIN code : x # b => term'[x].tgts = term[x].tgts

SplitInsts(b, c, t) ==
  /\ DOMAIN inst' = DOMAIN inst \cup {c} /\ c \notin DOMAIN inst
  /\ IsInst(inst'[c]) /\ inst'[c].kind = "cond" /\ inst'[c].from = <<>>
  /\ \A v \in DOMAIN inst :
       /\ IsInst(inst'[v]) /\ inst'[v].kind = inst[v].kind /\ inst'[v].opnds = inst[v].opnds
       /\ DOMAIN inst'[v].from = DOMAIN inst[v].from
       /\ \A i \in DOMAIN inst[v].from :
            inst'[v].from[i] = IF inst[v].from[i] = b THEN t ELSE inst[v].from[i]

SplitOf(b, k, c, th, el, t) ==
  /\ SplitNames(b, k, c, th, el, t) /\ SplitCode(b, k, c, th, el, t)
  /\ SplitTerms(b, c, th, el, t) /\ SplitInsts(b, c, t)
  /\ pc = "target" /\ pc' = "clone" /\ tail' = t /\ at' = 1 /\ ToRemove' = {}
  /\ UNCHANGED <<prog, next, Targets, count, run>>

\* A name with the present count is new.
LEMMA NewNames ==
  ASSUME Opaque, IInv, pc # "clone", NEW b, NEW s
  PROVE  /\ <<b, s, count>> \notin DOMAIN code /\ <<b, s, count>> \notin DOMAIN inst
         /\ ~Stamped(<<b, s, count>>, count)
         /\ ~Stamped(<<<<b, s, count>>, s, count>>, count)
<1>1. prog \in Programs /\ count \in Nat /\ run \in {1, 2} /\ Stamp = count
  BY DEF IInv, Counters, Stamp
<1>2. \A x, y, z : ~Stamped(<<x, y, count>>, count)
  BY <1>1 DEF Stamped
<1>3. <<b, s, count>> \notin Blocks /\ ~Source(<<b, s, count>>)
  BY <1>1, NoTuple
<1>4. ~Pair(<<b, s, count>>)
  BY DEF Pair
<1>5. ~BlockName(<<b, s, count>>)
  BY <1>1, <1>2, <1>3 DEF BlockName
<1>6. ~ValueName(<<b, s, count>>)
  BY <1>1, <1>2, <1>3, <1>4 DEF ValueName, RunOne, RunTwo
<1>. QED  BY <1>2, <1>5, <1>6 DEF IInv, LayoutOK, InstsOK

LEMMA SplitDoes ==
  ASSUME Opaque, IInv, Split
  PROVE  \E b, k, c, th, el, t : SplitOf(b, k, c, th, el, t)
<1>1. PICK b : b = Targets[next].block
  OBVIOUS
<1>2. PICK k : k = FirstNonPHI(b)
  OBVIOUS
<1>3. PICK c : c = <<b, "cond", count>>
  OBVIOUS
<1>4. PICK th : th = <<b, "then", count>>
  OBVIOUS
<1>5. PICK el : el = <<b, "else", count>>
  OBVIOUS
<1>6. PICK t : t = <<b, "tail", count>>
  OBVIOUS
<1>7. /\ pc = "target" /\ pc' = "clone" /\ tail' = t /\ at' = 1 /\ ToRemove' = {}
      /\ UNCHANGED <<prog, next, Targets, count, run>>
      /\ next \in Nat \ {0} /\ prog \in Programs /\ count \in Nat
  <2>1. /\ pc = "target" /\ pc' = "clone" /\ at' = 1 /\ ToRemove' = {}
        /\ UNCHANGED <<prog, next, Targets, count, run>>
        /\ tail' = Side(Targets[next].block, "tail")
    BY Zenon DEF Split
  <2>2. tail' = t
    BY <1>1, <1>6, <2>1 DEF Side
  <2>3. next \in Nat \ {0} /\ prog \in Programs /\ count \in Nat
    BY DEF IInv, Counters
  <2>. QED  BY <2>1, <2>2, <2>3
<1>8. next \in DOMAIN Targets /\ b \in DOMAIN code
  <2>1. next \in 1..Len(Targets)
    <3>1. next <= Len(Targets)
      BY Zenon DEF Split
    <3>2. Len(Targets) \in Nat
      BY DEF IInv, TargetsOK, IsSeq
    <3>. QED  BY <1>7, <3>1, <3>2
  <2>. QED  BY <1>1, <2>1 DEF IInv, TargetsOK, IsSeq
<1>9. /\ code[b] \in Seq(DOMAIN inst)
      /\ \A m, n \in DOMAIN code[b] : m < n /\ n \in Phis(code[b]) => m \in Phis(code[b])
  BY <1>7, <1>8 DEF IInv, PlacesOK, PhisFirst
<1>10. PICK s : s = code[b]
  OBVIOUS
<1>11. s \in Seq(DOMAIN inst) /\ DOMAIN s = 1..Len(s) /\ Len(s) \in Nat
  BY <1>9, <1>10
<1>12. /\ k \in 1..(Len(s) + 1)
       /\ \A m \in 1..Len(s) : m >= k <=> m \notin Phis(s)
  BY <1>2, <1>9, <1>10, FirstNonPHIs
<1>13. /\ th \notin DOMAIN code /\ el \notin DOMAIN code /\ t \notin DOMAIN code
       /\ c \notin DOMAIN inst
  BY <1>3, <1>4, <1>5, <1>6, <1>7, NewNames
<1>14. SplitNames(b, k, c, th, el, t)
  <2>1. b \in Pending
    BY <1>1, <1>7, <1>8 DEF Pending
  <2>2. OldBlock(b) /\ \A n \in DOMAIN code[b] : OldValue(code[b][n])
    BY <2>1 DEF IInv, PendingOld
  <2>3. ~PadBlock(b)
    BY <1>1, <1>8 DEF IInv, TargetsOK
  <2>4. th # el /\ th # t /\ el # t
    BY <1>4, <1>5, <1>6
  <2>. QED  BY <1>1, <1>3, <1>4, <1>5, <1>6, <1>8, <1>10, <1>12, <1>13, <2>2, <2>3, <2>4 DEF SplitNames
<1>15. SplitCode(b, k, c, th, el, t)
  <2>1. /\ DOMAIN code' = DOMAIN code \cup {th, el, t}
        /\ \A x \in DOMAIN code \cup {th, el, t} :
             code'[x] = CASE x = b -> Append(SubSeq(s, 1, k - 1), c)
                          [] x \in {th, el} -> <<>>
                          [] x = t -> SubSeq(s, k, Len(s))
                          [] OTHER -> code[x]
    <3>1. th = Side(b, "then") /\ el = Side(b, "else") /\ t = Side(b, "tail")
      BY <1>4, <1>5, <1>6 DEF Side
    <3>2. code' = [x \in DOMAIN code \cup {Side(Targets[next].block, "then"),
                                            Side(Targets[next].block, "else"),
                                            Side(Targets[next].block, "tail")} |->
                     CASE x = Targets[next].block ->
                            Append(SubSeq(code[Targets[next].block], 1, FirstNonPHI(Targets[next].block) - 1),
                                   <<Targets[next].block, "cond", count>>)
                       [] x \in {Side(Targets[next].block, "then"), Side(Targets[next].block, "else")} -> <<>>
                       [] x = Side(Targets[next].block, "tail") ->
                            SubSeq(code[Targets[next].block], FirstNonPHI(Targets[next].block),
                                   Len(code[Targets[next].block]))
                       [] OTHER -> code[x]]
      BY Zenon DEF Split
    <3>. QED  BY <1>1, <1>2, <1>3, <1>10, <3>1, <3>2
  <2>2. th # b /\ el # b /\ t # b /\ th # t /\ el # t
    BY <1>4, <1>5, <1>6, <1>8, <1>13
  <2>3. /\ DOMAIN code' = DOMAIN code \cup {th, el, t}
        /\ \A x \in DOMAIN code : x # b => code'[x] = code[x]
        /\ code'[th] = <<>> /\ code'[el] = <<>>
        /\ code'[b] = Append(SubSeq(s, 1, k - 1), c)
        /\ code'[t] = SubSeq(s, k, Len(s))
    BY <1>8, <1>13, <2>1, <2>2
  <2>4. PICK h : h = SubSeq(s, 1, k - 1)
    OBVIOUS
  <2>5. /\ h \in Seq(DOMAIN inst) /\ Len(h) = k - 1 /\ DOMAIN h = 1..(k - 1)
        /\ \A n \in 1..(k - 1) : h[n] = s[n]
    BY <1>11, <1>12, <2>4
  <2>6. PICK hc : hc = Append(h, c)
    OBVIOUS
  <2>7. /\ hc \in Seq(DOMAIN inst \cup {c}) /\ Len(hc) = k /\ DOMAIN hc = 1..k
        /\ \A n \in 1..(k - 1) : hc[n] = s[n]
        /\ hc[k] = c
    BY <1>12, <2>5, <2>6
  <2>8. PICK r : r = SubSeq(s, k, Len(s))
    OBVIOUS
  <2>9. /\ r \in Seq(DOMAIN inst) /\ Len(r) = Len(s) + 1 - k /\ DOMAIN r = 1..(Len(s) + 1 - k)
        /\ \A n \in 1..(Len(s) + 1 - k) : r[n] = s[n + k - 1]
    BY <1>11, <1>12, <2>8
  <2>. QED  BY <1>10, <2>3, <2>4, <2>6, <2>7, <2>8, <2>9 DEF SplitCode
<1>16. SplitTerms(b, c, th, el, t)
  <2>1. /\ DOMAIN term' = DOMAIN code'
        /\ \A x \in DOMAIN code' :
             term'[x] = CASE x = b -> [kind |-> "br", opnds |-> <<c>>, tgts |-> <<th, el>>]
                          [] x \in {th, el} -> [kind |-> "br", opnds |-> <<>>, tgts |-> <<t>>]
                          [] x = t -> term[b]
                          [] OTHER -> term[x]
    <3>1. th = Side(b, "then") /\ el = Side(b, "else") /\ t = Side(b, "tail")
      BY <1>4, <1>5, <1>6 DEF Side
    <3>2. term' = [x \in DOMAIN code' |->
                     CASE x = Targets[next].block ->
                            [kind |-> "br", opnds |-> <<<<Targets[next].block, "cond", count>>>>,
                             tgts |-> <<Side(Targets[next].block, "then"), Side(Targets[next].block, "else")>>]
                       [] x \in {Side(Targets[next].block, "then"), Side(Targets[next].block, "else")} ->
                            [kind |-> "br", opnds |-> <<>>, tgts |-> <<Side(Targets[next].block, "tail")>>]
                       [] x = Side(Targets[next].block, "tail") -> term[Targets[next].block]
                       [] OTHER -> term[x]]
      BY Zenon DEF Split
    <3>. QED  BY <1>1, <1>3, <3>1, <3>2
  <2>2. DOMAIN code' = DOMAIN code \cup {th, el, t}
    BY <1>15 DEF SplitCode
  <2>3. th # b /\ el # b /\ t # b /\ th # t /\ el # t
    BY <1>4, <1>5, <1>6, <1>8, <1>13
  <2>4. /\ DOMAIN term' = DOMAIN code \cup {th, el, t}
        /\ term'[b] = [kind |-> "br", opnds |-> <<c>>, tgts |-> <<th, el>>]
        /\ term'[th] = [kind |-> "br", opnds |-> <<>>, tgts |-> <<t>>]
        /\ term'[el] = [kind |-> "br", opnds |-> <<>>, tgts |-> <<t>>]
        /\ term'[t] = term[b]
        /\ \A x \in DOMAIN code : x # b => term'[x] = term[x]
    BY <1>8, <1>13, <2>1, <2>2, <2>3
  <2>5. \A x \in DOMAIN code : IsTerm(term[x])
    BY DEF IInv, TermsOK
  <2>6. IsTerm(term'[b]) /\ IsTerm(term'[th]) /\ IsTerm(term'[el])
    BY <2>4 DEF IsTerm
  <2>7. \A x \in DOMAIN code \cup {th, el, t} : IsTerm(term'[x])
    BY <1>8, <2>4, <2>5, <2>6
  <2>. QED  BY <2>4, <2>7 DEF SplitTerms
<1>17. SplitInsts(b, c, t)
  <2>1. PICK ctx : ctx = Context(Targets[next].ctx)
    OBVIOUS
  <2>2. PICK ic : ic = [kind |-> "cond", from |-> <<>>, opnds |-> <<ctx>>]
    OBVIOUS
  <2>3. inst' = Extend([v \in DOMAIN inst |-> Moved(b, t, inst[v])], c, ic)
    BY <1>1, <1>3, <1>6, <2>1, <2>2 DEF Split, Side
  <2>4. /\ DOMAIN inst' = DOMAIN inst \cup {c} /\ inst'[c] = ic
        /\ \A v \in DOMAIN inst : inst'[v] = Moved(b, t, inst[v])
    BY <1>13, <2>3 DEF Extend
  <2>5. IsInst(ic) /\ ic.kind = "cond" /\ ic.from = <<>>
    BY <2>2 DEF IsInst
  <2>6. ASSUME NEW v \in DOMAIN inst
        PROVE  /\ IsInst(inst'[v]) /\ inst'[v].kind = inst[v].kind /\ inst'[v].opnds = inst[v].opnds
               /\ DOMAIN inst'[v].from = DOMAIN inst[v].from
               /\ \A i \in DOMAIN inst[v].from :
                    inst'[v].from[i] = IF inst[v].from[i] = b THEN t ELSE inst[v].from[i]
    <3>1. PICK o : o = inst[v]
      OBVIOUS
    <3>2. o = [kind |-> o.kind, opnds |-> o.opnds, from |-> o.from]
      BY <3>1 DEF IInv, InstsOK, IsInst
    <3>3. PICK f : f = [i \in DOMAIN o.from |-> IF o.from[i] = b THEN t ELSE o.from[i]]
      OBVIOUS
    <3>4. PICK m : m = [kind |-> o.kind, opnds |-> o.opnds, from |-> f]
      OBVIOUS
    <3>5. Moved(b, t, o) = m
      BY <3>2, <3>3, <3>4 DEF Moved
    <3>6. IsInst(m) /\ m.kind = o.kind /\ m.opnds = o.opnds /\ m.from = f
      BY <3>4 DEF IsInst
    <3>. QED  BY <2>4, <3>1, <3>3, <3>5, <3>6
  <2>. QED  BY <1>13, <2>4, <2>5, <2>6 DEF SplitInsts
<1>. QED  BY <1>7, <1>14, <1>15, <1>16, <1>17 DEF SplitOf

\* Two sequences, one after the other.
IsJoin(r, a, b) ==
  /\ Len(r) = Len(a) + Len(b)
  /\ \A i \in 1..Len(a) : r[i] = a[i]
  /\ \A i \in 1..Len(b) : r[Len(a) + i] = b[i]

LEMMA Joined ==
  ASSUME NEW S, NEW a \in Seq(S), NEW b \in Seq(S)
  PROVE  a \o b \in Seq(S) /\ IsJoin(a \o b, a, b)
<1>1. PICK r : r = a \o b
  OBVIOUS
<1>2. PICK m \in Nat : m = Len(a)
  OBVIOUS
<1>3. PICK n \in Nat : n = Len(b)
  OBVIOUS
<1>4. /\ r \in Seq(S) /\ Len(r) = Len(a) + Len(b)
      /\ \A i \in 1..(Len(a) + Len(b)) : r[i] = IF i <= Len(a) THEN a[i] ELSE b[i - Len(a)]
  BY <1>1, ConcatProperties, Zenon
<1>5. /\ r \in Seq(S) /\ Len(r) = m + n
      /\ \A i \in 1..(m + n) : r[i] = IF i <= m THEN a[i] ELSE b[i - m]
  BY <1>2, <1>3, <1>4
<1>6. \A i \in 1..m : r[i] = a[i]
  BY <1>5
<1>7. \A i \in 1..n : r[m + i] = b[i]
  <2>. SUFFICES ASSUME NEW i \in 1..n PROVE r[m + i] = b[i]
    OBVIOUS
  <2>1. PICK k : k = m + i
    OBVIOUS
  <2>2. k \in 1..(m + n) /\ ~(k <= m) /\ k - m = i
    BY <2>1
  <2>3. r[k] = b[k - m]
    BY <1>5, <2>2
  <2>. QED  BY <2>1, <2>2, <2>3
<1>. QED  BY <1>1, <1>2, <1>3, <1>5, <1>6, <1>7 DEF IsJoin

\* Three new entries put after position p.
IsSplice(r, s, p, q, x, y, z) ==
  /\ Len(r) = p + 3 + q
  /\ \A i \in 1..p : r[i] = s[i]
  /\ r[p + 1] = x /\ r[p + 2] = y /\ r[p + 3] = z
  /\ \A i \in 1..q : r[p + 3 + i] = s[p + i]

Splice(s, p, x, y, z) == SubSeq(s, 1, p) \o <<x, y, z>> \o SubSeq(s, p + 1, Len(s))

LEMMA Spliced ==
  ASSUME NEW S, NEW s \in Seq(S), NEW p \in Nat \ {0}, NEW q \in Nat, Len(s) = p + q,
         NEW x, NEW y, NEW z
  PROVE  /\ Splice(s, p, x, y, z) \in Seq(S \cup {x, y, z})
         /\ IsSplice(Splice(s, p, x, y, z), s, p, q, x, y, z)
<1>1. DOMAIN s = 1..(p + q) /\ \A i \in 1..(p + q) : s[i] \in S
  OBVIOUS
<1>2. PICK h : h = SubSeq(s, 1, p)
  OBVIOUS
<1>3. h \in Seq(S) /\ Len(h) = p /\ \A i \in 1..p : h[i] = s[i]
  BY <1>1, <1>2
<1>4. PICK e : e = SubSeq(s, p + 1, p + q)
  OBVIOUS
<1>5. e \in Seq(S) /\ Len(e) = q /\ \A i \in 1..q : e[i] = s[p + i]
  <2>1. PICK m \in Nat : m = p + 1
    OBVIOUS
  <2>2. PICK n \in Nat : n = p + q
    OBVIOUS
  <2>3. e = SubSeq(s, m, n)
    BY <1>4, <2>1, <2>2
  <2>4. \A i \in m..n : s[i] \in S
    BY <1>1, <2>1, <2>2
  <2>5. m \in Int /\ n \in Int
    OBVIOUS
  <2>6. /\ e \in Seq(S)
        /\ Len(e) = IF m <= n THEN n - m + 1 ELSE 0
        /\ \A i \in 1..(n - m + 1) : e[i] = s[m + i - 1]
    BY <2>3, <2>4, <2>5, SubSeqProperties
  <2>7. n - m + 1 = q /\ (m <= n <=> q # 0)
    BY <2>1, <2>2
  <2>8. Len(e) = q
    BY <2>6, <2>7
  <2>9. \A i \in 1..q : m + i - 1 = p + i
    BY <2>1
  <2>10. \A i \in 1..q : e[i] = s[m + i - 1]
    BY <2>6, <2>7
  <2>11. \A i \in 1..q : e[i] = s[p + i]
    BY <2>9, <2>10
  <2>. QED  BY <2>6, <2>8, <2>11
<1>6. PICK n : n = <<x, y, z>>
  OBVIOUS
<1>7. n \in Seq({x, y, z}) /\ Len(n) = 3 /\ n[1] = x /\ n[2] = y /\ n[3] = z
  BY <1>6
<1>8. PICK T : T = S \cup {x, y, z}
  OBVIOUS
<1>9. h \in Seq(T) /\ n \in Seq(T) /\ e \in Seq(T)
  BY <1>3, <1>5, <1>7, <1>8
<1>10. PICK g : g = h \o n
  OBVIOUS
<1>11. PICK w \in Nat : w = p + 3
  OBVIOUS
<1>12. /\ g \in Seq(T) /\ Len(g) = p + 3
       /\ \A i \in 1..p : g[i] = h[i]
       /\ \A i \in 1..3 : g[p + i] = n[i]
  <2>1. g \in Seq(T) /\ IsJoin(g, h, n)
    BY <1>9, <1>10, Joined
  <2>. QED  BY <1>3, <1>7, <2>1 DEF IsJoin
<1>13. g[p + 1] = x /\ g[p + 2] = y /\ g[p + 3] = z
  BY <1>7, <1>12
<1>14. PICK r : r = g \o e
  OBVIOUS
<1>15. /\ r \in Seq(T) /\ Len(r) = w + q
       /\ \A i \in 1..w : r[i] = g[i]
       /\ \A i \in 1..q : r[w + i] = e[i]
  <2>1. r \in Seq(T) /\ IsJoin(r, g, e)
    BY <1>9, <1>12, <1>14, Joined
  <2>2. Len(g) = w /\ Len(e) = q
    BY <1>5, <1>11, <1>12
  <2>. QED  BY <2>1, <2>2 DEF IsJoin
<1>16. \A i \in 1..p : r[i] = s[i]
  BY <1>3, <1>11, <1>12, <1>15
<1>17. r[p + 1] = x /\ r[p + 2] = y /\ r[p + 3] = z
  <2>1. p + 1 \in 1..w /\ p + 2 \in 1..w /\ p + 3 \in 1..w
    BY <1>11
  <2>. QED  BY <1>13, <1>15, <2>1
<1>18. \A i \in 1..q : r[p + 3 + i] = s[p + i]
  BY <1>5, <1>11, <1>15
<1>19. r = Splice(s, p, x, y, z)
  BY <1>2, <1>4, <1>6, <1>10, <1>14 DEF Splice
<1>20. IsSplice(r, s, p, q, x, y, z)
  BY <1>11, <1>15, <1>16, <1>17, <1>18 DEF IsSplice
<1>. QED  BY <1>8, <1>15, <1>19, <1>20

LEMMA SplitLayout ==
  ASSUME Opaque, IInv, Split
  PROVE  LayoutOK'
<1>1. PICK b, k, c, th, el, t : SplitOf(b, k, c, th, el, t)
  BY SplitDoes
<1>2. /\ b = Targets[next].block /\ b \in DOMAIN code /\ OldBlock(b)
      /\ th = <<b, "then", count>> /\ el = <<b, "else", count>> /\ t = <<b, "tail", count>>
      /\ th \notin DOMAIN code /\ el \notin DOMAIN code /\ t \notin DOMAIN code
      /\ th # el /\ th # t /\ el # t
      /\ DOMAIN code' = DOMAIN code \cup {th, el, t}
      /\ pc = "target" /\ pc' = "clone" /\ UNCHANGED <<prog, count, run>>
      /\ count \in Nat /\ run \in {1, 2}
  BY <1>1 DEF SplitOf, SplitNames, SplitCode, IInv, Counters
<1>3. PICK S : S = DOMAIN code
  OBVIOUS
<1>4. PICK s : s = layout
  OBVIOUS
<1>5. /\ s \in Seq(S)
      /\ \A x \in S : \E m \in DOMAIN s : s[m] = x
      /\ \A m, n \in DOMAIN s : s[m] = s[n] => m = n
  BY <1>3, <1>4 DEF IInv, LayoutOK
<1>6. PICK p : p = CHOOSE n \in DOMAIN s : s[n] = b
  OBVIOUS
<1>7. p \in 1..Len(s) /\ s[p] = b /\ Len(s) \in Nat /\ DOMAIN s = 1..Len(s)
  BY <1>2, <1>3, <1>5, <1>6
<1>8. PICK r : r = layout'
  OBVIOUS
<1>9. r = SubSeq(s, 1, p) \o <<th, el, t>> \o SubSeq(s, p + 1, Len(s))
  BY <1>2, <1>4, <1>6, <1>8, Zenon DEF Split, Side
<1>20. PICK q \in Nat : Len(s) = p + q
  <2>1. Len(s) - p \in Nat /\ Len(s) = p + (Len(s) - p)
    BY <1>7
  <2>. QED  BY <2>1
<1>10. /\ r \in Seq(S \cup {th, el, t}) /\ Len(r) = p + 3 + q
       /\ \A i \in 1..p : r[i] = s[i]
       /\ r[p + 1] = th /\ r[p + 2] = el /\ r[p + 3] = t
       /\ \A i \in 1..q : r[p + 3 + i] = s[p + i]
  <2>1. p \in Nat \ {0}
    BY <1>7
  <2>2. s \in Seq(S)
    BY <1>5
  <2>3. r = Splice(s, p, th, el, t)
    BY <1>9 DEF Splice
  <2>4. r \in Seq(S \cup {th, el, t}) /\ IsSplice(r, s, p, q, th, el, t)
    BY <1>20, <2>1, <2>2, <2>3, Spliced
  <2>. QED  BY <2>4 DEF IsSplice
<1>11. DOMAIN r = 1..(p + 3 + q) /\ p \in Nat \ {0} /\ DOMAIN s = 1..(p + q)
  BY <1>7, <1>10, <1>20
<1>12. ASSUME NEW x \in S \cup {th, el, t}
       PROVE  \E m \in DOMAIN r : r[m] = x
  <2>1. CASE x \in {th, el, t}
    <3>1. p + 1 \in DOMAIN r /\ p + 2 \in DOMAIN r /\ p + 3 \in DOMAIN r
      BY <1>11
    <3>. QED  BY <1>10, <2>1, <3>1
  <2>2. CASE x \in S
    <3>1. PICK m \in 1..(p + q) : s[m] = x
      BY <1>5, <1>11, <2>2
    <3>2. CASE m <= p
      <4>1. m \in 1..p /\ m \in DOMAIN r
        BY <1>11, <3>2
      <4>. QED  BY <1>10, <3>1, <4>1
    <3>3. CASE m > p
      <4>1. PICK i \in 1..q : i = m - p
        BY <1>11, <3>3
      <4>2. m = p + i /\ p + 3 + i \in DOMAIN r
        BY <1>11, <4>1
      <4>. QED  BY <1>10, <3>1, <4>2
    <3>. QED  BY <1>11, <3>2, <3>3
  <2>. QED  BY <2>1, <2>2
<1>13. ASSUME NEW i \in DOMAIN r
       PROVE  \/ i <= p /\ i \in DOMAIN s /\ r[i] = s[i]
              \/ i = p + 1 /\ r[i] = th
              \/ i = p + 2 /\ r[i] = el
              \/ i = p + 3 /\ r[i] = t
              \/ i > p + 3 /\ i - 3 \in DOMAIN s /\ r[i] = s[i - 3]
  <2>1. CASE i <= p
    BY <1>10, <1>11, <2>1
  <2>2. CASE i \in {p + 1, p + 2, p + 3}
    BY <1>10, <2>2
  <2>3. CASE i > p + 3
    <3>1. PICK u \in 1..q : u = i - (p + 3)
      BY <1>11, <2>3
    <3>2. i = p + 3 + u /\ i - 3 = p + u /\ p + u \in DOMAIN s
      BY <1>11, <3>1
    <3>. QED  BY <1>10, <2>3, <3>2
  <2>. QED  BY <1>11, <2>1, <2>2, <2>3
<1>14. \A i \in DOMAIN s : s[i] \in S
  BY <1>5
<1>15. \A m, n \in DOMAIN r : r[m] = r[n] => m = n
  <2>. SUFFICES ASSUME NEW m \in DOMAIN r, NEW n \in DOMAIN r, r[m] = r[n] PROVE m = n
    OBVIOUS
  <2>0. m \in Nat /\ n \in Nat /\ p \in Nat
    BY <1>11
  <2>1. th \notin S /\ el \notin S /\ t \notin S /\ th # el /\ th # t /\ el # t
    BY <1>2, <1>3
  <2>2. \/ m <= p /\ m \in DOMAIN s /\ r[m] = s[m]
        \/ m = p + 1 /\ r[m] = th
        \/ m = p + 2 /\ r[m] = el
        \/ m = p + 3 /\ r[m] = t
        \/ m > p + 3 /\ m - 3 \in DOMAIN s /\ r[m] = s[m - 3]
    BY <1>13
  <2>3. \/ n <= p /\ n \in DOMAIN s /\ r[n] = s[n]
        \/ n = p + 1 /\ r[n] = th
        \/ n = p + 2 /\ r[n] = el
        \/ n = p + 3 /\ r[n] = t
        \/ n > p + 3 /\ n - 3 \in DOMAIN s /\ r[n] = s[n - 3]
    BY <1>13
  <2>4. CASE r[m] \notin S
    BY <1>14, <2>1, <2>2, <2>3, <2>4
  <2>5. CASE r[m] \in S
    <3>1. \/ m <= p /\ m \in DOMAIN s /\ r[m] = s[m]
          \/ m > p + 3 /\ m - 3 \in DOMAIN s /\ r[m] = s[m - 3]
      BY <2>1, <2>2, <2>5
    <3>2. \/ n <= p /\ n \in DOMAIN s /\ r[n] = s[n]
          \/ n > p + 3 /\ n - 3 \in DOMAIN s /\ r[n] = s[n - 3]
      BY <2>1, <2>3, <2>5
    <3>3. \A i, j \in DOMAIN s : s[i] = s[j] => i = j
      BY <1>5
    <3>4. CASE m <= p /\ n <= p
      BY <2>0, <3>1, <3>2, <3>3, <3>4
    <3>5. CASE m > p + 3 /\ n > p + 3
      <4>1. m - 3 = n - 3
        BY <2>0, <3>1, <3>2, <3>3, <3>5
      <4>. QED  BY <2>0, <4>1
    <3>6. CASE m <= p /\ n > p + 3
      <4>1. m = n - 3
        BY <2>0, <3>1, <3>2, <3>3, <3>6
      <4>. QED  BY <2>0, <3>6, <4>1
    <3>7. CASE m > p + 3 /\ n <= p
      <4>1. m - 3 = n
        BY <2>0, <3>1, <3>2, <3>3, <3>7
      <4>. QED  BY <2>0, <3>7, <4>1
    <3>. QED  BY <2>0, <3>1, <3>2, <3>4, <3>5, <3>6, <3>7
  <2>. QED  BY <2>4, <2>5
<1>16. \A x \in DOMAIN code' : BlockName(x)'
  <2>1. Stamp = count /\ Stamp' = count + 1
    BY <1>2 DEF Stamp
  <2>2. \A x : Stamped(x, count) => Stamped(x, count + 1)
    BY <1>2 DEF Stamped
  <2>3. \A x \in DOMAIN code : BlockName(x)'
    BY <1>2, <2>1, <2>2 DEF IInv, LayoutOK, BlockName
  <2>4. run = 1 => b \in Blocks
    BY <1>2 DEF OldBlock
  <2>5. ASSUME NEW s2 PROVE BlockName(<<b, s2, count>>)'
    <3>1. Stamped(<<b, s2, count>>, count + 1)
      BY <1>2 DEF Stamped
    <3>. QED  BY <1>2, <2>1, <2>4, <3>1 DEF BlockName
  <2>6. BlockName(th)' /\ BlockName(el)' /\ BlockName(t)'
    BY <1>2, <2>5
  <2>. QED  BY <1>2, <2>3, <2>6
<1>17. Blocks \subseteq DOMAIN code
  BY DEF IInv, LayoutOK
<1>18. /\ layout' \in Seq(DOMAIN code')
       /\ \A x \in DOMAIN code' : \E m \in DOMAIN layout' : layout'[m] = x
       /\ \A m, n \in DOMAIN layout' : layout'[m] = layout'[n] => m = n
  BY <1>2, <1>3, <1>8, <1>10, <1>12, <1>15
<1>. QED  BY <1>2, <1>16, <1>17, <1>18 DEF LayoutOK

\* What is where after the split.
LEMMA SplitPlaces ==
  ASSUME IInv, NEW b, NEW k, NEW c, NEW th, NEW el, NEW t, SplitOf(b, k, c, th, el, t)
  PROVE  /\ \A x \in DOMAIN code' : \A n \in DOMAIN code'[x] :
              \/ x \in DOMAIN code /\ x # b /\ n \in DOMAIN code[x] /\ code'[x][n] = code[x][n]
              \/ x = b /\ n \in 1..(k - 1) /\ n \in DOMAIN code[b] /\ code'[x][n] = code[b][n]
              \/ x = b /\ n = k /\ code'[x][n] = c
              \/ x = t /\ \E j \in DOMAIN code[b] : j >= k /\ n + k = j + 1 /\ code'[x][n] = code[b][j]
         /\ \A x \in DOMAIN code' : \A n \in DOMAIN code'[x] : n \in Phis(code[x])' =>
              /\ x \in DOMAIN code /\ n \in Phis(code[x]) /\ code'[x][n] = code[x][n]
              /\ n \in DOMAIN code[x] /\ code[x][n] \in DOMAIN inst
         /\ \A x \in DOMAIN code : \A n \in DOMAIN code[x] :
              n \in Phis(code[x]) => n \in Phis(code[x])' /\ code'[x][n] = code[x][n]
<1>1. /\ b \in DOMAIN code /\ t \notin DOMAIN code /\ th \notin DOMAIN code /\ el \notin DOMAIN code
      /\ k \in 1..(Len(code[b]) + 1)
      /\ \A m \in 1..Len(code[b]) : m >= k <=> m \notin Phis(code[b])
      /\ c \notin DOMAIN inst
  BY DEF SplitOf, SplitNames, SplitInsts
<1>2. PICK s : s = code[b]
  OBVIOUS
<1>3. s \in Seq(DOMAIN inst) /\ DOMAIN s = 1..Len(s) /\ Len(s) \in Nat /\ k \in Nat \ {0}
  BY <1>1, <1>2 DEF IInv, PlacesOK
<1>4. /\ DOMAIN code' = DOMAIN code \cup {th, el, t}
      /\ \A x \in DOMAIN code : x # b => code'[x] = code[x]
      /\ code'[th] = <<>> /\ code'[el] = <<>>
      /\ DOMAIN code'[b] = 1..k
      /\ \A n \in 1..(k - 1) : code'[b][n] = s[n]
      /\ code'[b][k] = c
      /\ DOMAIN code'[t] = 1..(Len(s) + 1 - k)
      /\ \A n \in 1..(Len(s) + 1 - k) : code'[t][n] = s[n + k - 1]
  BY <1>2 DEF SplitOf, SplitCode
<1>5. ASSUME NEW x \in DOMAIN code', NEW n \in DOMAIN code'[x]
      PROVE  \/ x \in DOMAIN code /\ x # b /\ n \in DOMAIN code[x] /\ code'[x][n] = code[x][n]
             \/ x = b /\ n \in 1..(k - 1) /\ n \in DOMAIN code[b] /\ code'[x][n] = code[b][n]
             \/ x = b /\ n = k /\ code'[x][n] = c
             \/ x = t /\ \E j \in DOMAIN code[b] : j >= k /\ n + k = j + 1 /\ code'[x][n] = code[b][j]
  <2>1. CASE x \in DOMAIN code /\ x # b
    BY <1>4, <2>1
  <2>2. CASE x = b /\ n \in 1..(k - 1)
    <3>1. n \in DOMAIN s
      BY <1>1, <1>2, <1>3, <2>2
    <3>. QED  BY <1>2, <1>4, <2>2, <3>1
  <2>3. CASE x = b /\ n = k
    BY <1>4, <2>3
  <2>4. CASE x = b
    <3>1. n \in 1..k
      BY <1>4, <2>4
    <3>. QED  BY <1>3, <2>2, <2>3, <2>4, <3>1
  <2>5. CASE x = t
    <3>1. n \in 1..(Len(s) + 1 - k)
      BY <1>4, <2>5
    <3>2. PICK j : j = n + k - 1
      OBVIOUS
    <3>3. j \in DOMAIN s /\ j >= k /\ n + k = j + 1
      BY <1>3, <3>1, <3>2
    <3>4. code'[x][n] = s[j]
      BY <1>4, <2>5, <3>1, <3>2
    <3>. QED  BY <1>2, <2>5, <3>3, <3>4
  <2>6. CASE x \in {th, el}
    BY <1>4, <2>6
  <2>. QED  BY <1>4, <2>1, <2>4, <2>5, <2>6
<1>6. /\ \A v \in DOMAIN inst : inst'[v].kind = inst[v].kind
      /\ inst'[c].kind = "cond"
  BY DEF SplitOf, SplitInsts
<1>7. \A x \in DOMAIN code : \A n \in DOMAIN code[x] : code[x][n] \in DOMAIN inst
  BY DEF IInv, PlacesOK
<1>8. ASSUME NEW x \in DOMAIN code', NEW n \in DOMAIN code'[x], n \in Phis(code[x])'
      PROVE  /\ x \in DOMAIN code /\ n \in Phis(code[x]) /\ code'[x][n] = code[x][n]
             /\ n \in DOMAIN code[x] /\ code[x][n] \in DOMAIN inst
  <2>1. inst'[code'[x][n]].kind = "phi"
    BY <1>8 DEF Phis
  <2>2. \/ x \in DOMAIN code /\ x # b /\ n \in DOMAIN code[x] /\ code'[x][n] = code[x][n]
        \/ x = b /\ n \in 1..(k - 1) /\ n \in DOMAIN code[b] /\ code'[x][n] = code[b][n]
        \/ x = b /\ n = k /\ code'[x][n] = c
        \/ x = t /\ \E j \in DOMAIN code[b] : j >= k /\ n + k = j + 1 /\ code'[x][n] = code[b][j]
    BY <1>5
  <2>3. CASE x \in DOMAIN code /\ n \in DOMAIN code[x] /\ code'[x][n] = code[x][n]
    BY <1>6, <1>7, <2>1, <2>3 DEF Phis
  <2>4. CASE x = b /\ n = k /\ code'[x][n] = c
    BY <1>6, <2>1, <2>4
  <2>5. CASE x = t /\ \E j \in DOMAIN code[b] : j >= k /\ n + k = j + 1 /\ code'[x][n] = code[b][j]
    <3>1. PICK j \in DOMAIN code[b] : j >= k /\ code'[x][n] = code[b][j]
      BY <2>5
    <3>2. j \notin Phis(code[b])
      BY <1>1, <1>2, <1>3, <3>1
    <3>3. inst[code[b][j]].kind # "phi"
      BY <3>1, <3>2 DEF Phis
    <3>. QED  BY <1>1, <1>6, <1>7, <2>1, <3>1, <3>3
  <2>. QED  BY <1>1, <2>2, <2>3, <2>4, <2>5
<1>9. ASSUME NEW x \in DOMAIN code, NEW n \in DOMAIN code[x], n \in Phis(code[x])
      PROVE  n \in Phis(code[x])' /\ code'[x][n] = code[x][n]
  <2>1. n \in DOMAIN code'[x] /\ code'[x][n] = code[x][n]
    <3>1. CASE x # b
      BY <1>4, <3>1
    <3>2. CASE x = b
      <4>1. n \in 1..Len(s) /\ ~(n >= k)
        BY <1>1, <1>2, <1>3, <1>9, <3>2
      <4>2. n \in 1..(k - 1) /\ n \in 1..k
        BY <1>3, <4>1
      <4>. QED  BY <1>2, <1>4, <3>2, <4>2
    <3>. QED  BY <3>1, <3>2
  <2>2. inst'[code[x][n]].kind = "phi"
    BY <1>6, <1>7, <1>9 DEF Phis
  <2>. QED  BY <2>1, <2>2 DEF Phis
<1>. QED  BY <1>5, <1>8, <1>9

LEMMA SplitStructure ==
  ASSUME Opaque, IInv, NEW b, NEW k, NEW c, NEW th, NEW el, NEW t, SplitOf(b, k, c, th, el, t)
  PROVE  Counters' /\ TermsOK' /\ PlacesOK' /\ InstsOK' /\ Fresh'
<1>1. /\ b \in DOMAIN code /\ DOMAIN code' = DOMAIN code \cup {th, el, t}
      /\ pc = "target" /\ pc' = "clone" /\ tail' = t /\ at' = 1 /\ ToRemove' = {}
      /\ UNCHANGED <<prog, next, Targets, count, run>>
      /\ prog \in Programs /\ count \in Nat /\ run \in {1, 2} /\ next \in Nat \ {0}
      /\ c = <<b, "cond", count>>
  BY DEF SplitOf, SplitNames, SplitCode, IInv, Counters
<1>2. Counters'
  BY <1>1 DEF Counters
<1>3. TermsOK'
  <2>1. /\ DOMAIN term' = DOMAIN code \cup {th, el, t}
        /\ \A x \in DOMAIN code \cup {th, el, t} : IsTerm(term'[x])
        /\ term'[b].tgts = <<th, el>> /\ term'[th].tgts = <<t>> /\ term'[el].tgts = <<t>>
        /\ term'[t].tgts = term[b].tgts
        /\ \A x \in DOMAIN code : x # b => term'[x].tgts = term[x].tgts
    BY DEF SplitOf, SplitTerms
  <2>2. \A x \in DOMAIN code : \A i \in DOMAIN term[x].tgts : term[x].tgts[i] \in DOMAIN code
    BY DEF IInv, TermsOK
  <2>3. \A i \in DOMAIN <<th, el>> : <<th, el>>[i] \in {th, el}
    OBVIOUS
  <2>4. \A i \in DOMAIN <<t>> : <<t>>[i] = t
    OBVIOUS
  <2>5. ASSUME NEW x \in DOMAIN code \cup {th, el, t}, NEW i \in DOMAIN term'[x].tgts
        PROVE  term'[x].tgts[i] \in DOMAIN code \cup {th, el, t}
    <3>1. CASE x \in DOMAIN code /\ x # b
      BY <2>1, <2>2, <2>5, <3>1
    <3>2. CASE x = b
      BY <2>1, <2>3, <2>5, <3>2
    <3>3. CASE x = th \/ x = el
      BY <2>1, <2>4, <2>5, <3>3
    <3>4. CASE x = t
      BY <1>1, <2>1, <2>2, <2>5, <3>4
    <3>. QED  BY <3>1, <3>2, <3>3, <3>4
  <2>. QED  BY <1>1, <2>1, <2>5 DEF TermsOK
<1>4. DOMAIN inst' = DOMAIN inst \cup {c} /\ c \notin DOMAIN inst
  BY DEF SplitOf, SplitInsts
<1>5. PlacesOK'
  <2>1. \A x \in DOMAIN code' : code'[x] \in Seq(DOMAIN inst')
    <3>1. /\ \A x \in DOMAIN code : x # b => code'[x] = code[x]
          /\ code'[th] = <<>> /\ code'[el] = <<>>
          /\ code'[b] \in Seq(DOMAIN inst \cup {c})
          /\ code'[t] \in Seq(DOMAIN inst)
      BY DEF SplitOf, SplitCode
    <3>2. \A x \in DOMAIN code : code[x] \in Seq(DOMAIN inst)
      BY DEF IInv, PlacesOK
    <3>3. \A q \in Seq(DOMAIN inst) : q \in Seq(DOMAIN inst \cup {c})
      OBVIOUS
    <3>4. <<>> \in Seq(DOMAIN inst \cup {c})
      OBVIOUS
    <3>. QED  BY <1>1, <1>4, <3>1, <3>2, <3>3, <3>4
  <2>2. \A v \in DOMAIN inst' : \E x \in DOMAIN code' : \E n \in DOMAIN code'[x] : code'[x][n] = v
    <3>. SUFFICES ASSUME NEW v \in DOMAIN inst'
                  PROVE  \E x \in DOMAIN code' : \E n \in DOMAIN code'[x] : code'[x][n] = v
      OBVIOUS
    <3>1. PICK N \in Nat : N = Len(code[b])
      <4>1. code[b] \in Seq(DOMAIN inst)
        BY <1>1 DEF IInv, PlacesOK
      <4>. QED  BY <4>1
    <3>2. /\ k \in 1..(N + 1) /\ DOMAIN code[b] = 1..N
          /\ DOMAIN code'[b] = 1..k /\ code'[b][k] = c
          /\ \A n \in 1..(k - 1) : code'[b][n] = code[b][n]
          /\ DOMAIN code'[t] = 1..(N + 1 - k)
          /\ \A n \in 1..(N + 1 - k) : code'[t][n] = code[b][n + k - 1]
          /\ \A x \in DOMAIN code : x # b => code'[x] = code[x]
      <4>1. code[b] \in Seq(DOMAIN inst)
        BY <1>1 DEF IInv, PlacesOK
      <4>2. DOMAIN code[b] = 1..N
        BY <3>1, <4>1
      <4>3. k \in 1..(N + 1)
        BY <3>1 DEF SplitOf, SplitNames
      <4>. QED  BY <3>1, <4>2, <4>3 DEF SplitOf, SplitCode
    <3>3. CASE v = c
      <4>1. k \in DOMAIN code'[b]
        BY <3>2
      <4>. QED  BY <1>1, <3>2, <3>3, <4>1
    <3>4. CASE v \in DOMAIN inst
      <4>1. PICK x \in DOMAIN code : \E n \in DOMAIN code[x] : code[x][n] = v
        BY <3>4 DEF IInv, PlacesOK
      <4>2. PICK n \in DOMAIN code[x] : code[x][n] = v
        BY <4>1
      <4>3. CASE x # b
        BY <1>1, <3>2, <4>2, <4>3
      <4>4. CASE x = b /\ n < k
        <5>1. n \in 1..(k - 1) /\ n \in DOMAIN code'[b]
          BY <3>2, <4>4
        <5>. QED  BY <1>1, <3>2, <4>2, <4>4, <5>1
      <4>5. CASE x = b /\ n >= k
        <5>1. PICK m : m = n + 1 - k
          OBVIOUS
        <5>2. m \in 1..(N + 1 - k) /\ m + k - 1 = n
          <6>1. n \in 1..N /\ k \in Nat /\ k <= n
            BY <3>2, <4>5
          <6>. QED  BY <5>1, <6>1
        <5>3. m \in DOMAIN code'[t] /\ code'[t][m] = v
          BY <3>2, <4>2, <4>5, <5>2
        <5>. QED  BY <1>1, <5>3
      <4>6. n \in Nat /\ k \in Nat
        <5>1. code[x] \in Seq(DOMAIN inst)
          BY DEF IInv, PlacesOK
        <5>. QED  BY <3>2, <5>1
      <4>. QED  BY <4>3, <4>4, <4>5, <4>6
    <3>. QED  BY <1>4, <3>3, <3>4
  <2>3. \A x, d \in DOMAIN code' : \A m \in DOMAIN code'[x], n \in DOMAIN code'[d] :
          code'[x][m] = code'[d][n] => x = d /\ m = n
    <3>1. \A x \in DOMAIN code' : \A n \in DOMAIN code'[x] :
            \/ x \in DOMAIN code /\ x # b /\ n \in DOMAIN code[x] /\ code'[x][n] = code[x][n]
            \/ x = b /\ n \in 1..(k - 1) /\ n \in DOMAIN code[b] /\ code'[x][n] = code[b][n]
            \/ x = b /\ n = k /\ code'[x][n] = c
            \/ x = t /\ \E j \in DOMAIN code[b] : j >= k /\ n + k = j + 1 /\ code'[x][n] = code[b][j]
      BY SplitPlaces
    <3>2. \A x, d \in DOMAIN code : \A m \in DOMAIN code[x], n \in DOMAIN code[d] :
            code[x][m] = code[d][n] => x = d /\ m = n
      BY DEF IInv, PlacesOK
    <3>3. \A x \in DOMAIN code : \A n \in DOMAIN code[x] : code[x][n] # c
      BY <1>4 DEF IInv, PlacesOK
    <3>4. k \in Nat /\ t \notin DOMAIN code /\ t # b
      BY DEF SplitOf, SplitNames
    <3>. SUFFICES ASSUME NEW x \in DOMAIN code', NEW d \in DOMAIN code',
                         NEW m \in DOMAIN code'[x], NEW n \in DOMAIN code'[d],
                         code'[x][m] = code'[d][n]
                  PROVE  x = d /\ m = n
      OBVIOUS
    <3>5. \/ x \in DOMAIN code /\ x # b /\ m \in DOMAIN code[x] /\ code'[x][m] = code[x][m]
          \/ x = b /\ m \in 1..(k - 1) /\ m \in DOMAIN code[b] /\ code'[x][m] = code[b][m]
          \/ x = b /\ m = k /\ code'[x][m] = c
          \/ x = t /\ \E j \in DOMAIN code[b] : j >= k /\ m + k = j + 1 /\ code'[x][m] = code[b][j]
      BY <3>1
    <3>6. \/ d \in DOMAIN code /\ d # b /\ n \in DOMAIN code[d] /\ code'[d][n] = code[d][n]
          \/ d = b /\ n \in 1..(k - 1) /\ n \in DOMAIN code[b] /\ code'[d][n] = code[b][n]
          \/ d = b /\ n = k /\ code'[d][n] = c
          \/ d = t /\ \E j \in DOMAIN code[b] : j >= k /\ n + k = j + 1 /\ code'[d][n] = code[b][j]
      BY <3>1
    <3>7. CASE x = b /\ m = k /\ code'[x][m] = c
      BY <1>1, <3>3, <3>6, <3>7
    <3>8. CASE d = b /\ n = k /\ code'[d][n] = c
      BY <1>1, <3>3, <3>5, <3>8
    <3>9. CASE x \in DOMAIN code /\ m \in DOMAIN code[x] /\ code'[x][m] = code[x][m]
      <4>1. CASE d \in DOMAIN code /\ n \in DOMAIN code[d] /\ code'[d][n] = code[d][n]
        <5>1. PICK v : v = code[x][m]
          OBVIOUS
        <5>2. At(v, x, m) /\ At(v, d, n)
          BY <3>9, <4>1, <5>1 DEF At
        <5>. QED  BY <5>2, OnePlace
      <4>2. CASE d = t
        <5>1. PICK j \in DOMAIN code[b] : j >= k /\ code'[d][n] = code[b][j]
          BY <1>1, <3>4, <3>6, <4>2
        <5>4. At(code'[x][m], x, m) /\ At(code'[x][m], b, j)
          BY <1>1, <3>9, <5>1 DEF At
        <5>2. x = b /\ m = j
          BY <5>4, OnePlace
        <5>3. m \in 1..(k - 1)
          BY <3>3, <3>4, <3>5, <3>9, <5>2
        <5>. QED  BY <3>4, <5>1, <5>2, <5>3
      <4>. QED  BY <1>1, <3>4, <3>6, <3>8, <4>1, <4>2
    <3>10. CASE x = t
      <4>1. PICK i \in DOMAIN code[b] : i >= k /\ m + k = i + 1 /\ code'[x][m] = code[b][i]
        BY <1>1, <3>4, <3>5, <3>10
      <4>2. CASE d \in DOMAIN code /\ n \in DOMAIN code[d] /\ code'[d][n] = code[d][n]
        <5>4. At(code[d][n], d, n) /\ At(code[d][n], b, i)
          BY <1>1, <4>1, <4>2 DEF At
        <5>1. d = b /\ n = i
          BY <5>4, OnePlace
        <5>2. n \in 1..(k - 1)
          BY <3>3, <3>4, <3>6, <4>2, <5>1
        <5>. QED  BY <3>4, <4>1, <5>1, <5>2
      <4>3. CASE d = t
        <5>1. PICK j \in DOMAIN code[b] : j >= k /\ n + k = j + 1 /\ code'[d][n] = code[b][j]
          BY <1>1, <3>4, <3>6, <4>3
        <5>4. At(code[b][i], b, i) /\ At(code[b][i], b, j)
          BY <1>1, <4>1, <5>1 DEF At
        <5>2. i = j
          BY <5>4, OnePlace
        <5>3. m \in Nat /\ n \in Nat
          BY <1>1, <2>1, <3>10, <4>3
        <5>. QED  BY <3>4, <3>10, <4>1, <4>3, <5>1, <5>2, <5>3
      <4>. QED  BY <1>1, <3>4, <3>6, <3>8, <4>2, <4>3
    <3>. QED  BY <1>1, <3>4, <3>5, <3>7, <3>9, <3>10
  <2>. QED  BY <2>1, <2>2, <2>3 DEF PlacesOK
<1>6. InstsOK'
  <2>1. Stamp = count /\ Stamp' = count + 1
    BY <1>1 DEF Stamp
  <2>2. \A v : Stamped(v, count) => Stamped(v, count + 1)
    BY <1>1 DEF Stamped
  <2>3. \A v : RunOne(v, Stamp) => RunOne(v, Stamp)'
    BY <1>1, <2>1, <2>2 DEF RunOne, Source
  <2>4. \A v : ValueName(v) => ValueName(v)'
    BY <1>1, <2>3 DEF ValueName, RunTwo
  <2>5. ValueName(c)'
    <3>1. Stamped(c, count + 1)
      BY <1>1 DEF Stamped
    <3>. QED  BY <1>1, <2>1, <3>1 DEF ValueName, RunTwo, RunOne
  <2>6. \A v \in DOMAIN inst :
          /\ IsInst(inst'[v]) /\ inst'[v].kind = inst[v].kind
          /\ DOMAIN inst'[v].from = DOMAIN inst[v].from
          /\ \A i \in DOMAIN inst[v].from :
               inst'[v].from[i] = IF inst[v].from[i] = b THEN t ELSE inst[v].from[i]
    BY DEF SplitOf, SplitInsts
  <2>7. IsInst(inst'[c]) /\ inst'[c].kind = "cond" /\ inst'[c].from = <<>>
    BY DEF SplitOf, SplitInsts
  <2>8. \A v \in DOMAIN inst :
          /\ \A i \in DOMAIN inst[v].from : inst[v].from[i] \in DOMAIN code
          /\ ValueName(v)
          /\ IsCompare(v) => inst[v].kind = "cond"
    BY DEF IInv, InstsOK
  <2>9. \A v : IsCompare(v)' = IsCompare(v)
    BY <1>1, SameProgram
  <2>10. ASSUME NEW v \in DOMAIN inst
         PROVE  /\ IsInst(inst'[v])
                /\ \A i \in DOMAIN inst'[v].from : inst'[v].from[i] \in DOMAIN code'
                /\ ValueName(v)'
                /\ IsCompare(v)' => inst'[v].kind = "cond"
    BY <1>1, <2>4, <2>6, <2>8, <2>9
  <2>. QED  BY <1>4, <2>5, <2>7, <2>10 DEF InstsOK
<1>7. Fresh'
  <2>1. Removing = {} /\ Removing' = {} /\ Stamp = count
    BY <1>1 DEF Removing, Stamp
  <2>2. \A v \in DOMAIN inst : \A s, u \in {"then", "else", "phi"} :
          <<v, s>> \notin DOMAIN inst /\ <<<<v, s>>, u>> \notin DOMAIN inst
    BY <2>1 DEF IInv, Fresh, Clone
  <2>3. \A x, y : <<x, y>> # c
    BY <1>1
  <2>4. ASSUME NEW s, NEW u
        PROVE  <<c, s>> \notin DOMAIN inst /\ <<<<c, s>>, u>> \notin DOMAIN inst
    <3>1. \A x, y : ~Source(<<x, y>>) /\ ~Source(c)
      BY <1>1, NoTuple
    <3>2. ~Stamped(c, count)
      BY <1>1, NewNames
    <3>3. \A x, y : ~Stamped(<<x, y>>, count)
      BY DEF Stamped
    <3>4. ~Pair(c)
      BY <1>1 DEF Pair
    <3>5. ~RunOne(c, count)
      BY <3>1, <3>2, <3>4 DEF RunOne
    <3>6. ~RunOne(<<c, s>>, count)
      BY <3>1, <3>3 DEF RunOne
    <3>7. ~RunOne(<<<<c, s>>, u>>, count)
      BY <3>1, <3>3 DEF RunOne
    <3>8. ~ValueName(<<c, s>>) /\ ~ValueName(<<<<c, s>>, u>>)
      BY <2>1, <3>5, <3>6, <3>7 DEF ValueName, RunTwo
    <3>. QED  BY <3>8 DEF IInv, InstsOK
  <2>. QED  BY <1>4, <2>1, <2>2, <2>3, <2>4 DEF Fresh, Clone
<1>. QED  BY <1>2, <1>3, <1>5, <1>6, <1>7

LEMMA SplitRest ==
  ASSUME Opaque, IInv, NEW b, NEW k, NEW c, NEW th, NEW el, NEW t, SplitOf(b, k, c, th, el, t)
  PROVE  PendingOld' /\ TargetsOK' /\ CloneOK' /\ PhisFirst' /\ PadsStay' /\ EdgesMatch' /\ PhisOriginal'
<1>1. /\ b \in DOMAIN code /\ DOMAIN code' = DOMAIN code \cup {th, el, t}
      /\ next \in DOMAIN Targets /\ b = Targets[next].block
      /\ pc = "target" /\ pc' = "clone" /\ tail' = t /\ at' = 1 /\ ToRemove' = {}
      /\ UNCHANGED <<prog, next, Targets, count, run>>
      /\ prog \in Programs /\ count \in Nat /\ run \in {1, 2} /\ next \in Nat \ {0}
      /\ th = <<b, "then", count>> /\ el = <<b, "else", count>> /\ t = <<b, "tail", count>>
  BY DEF SplitOf, SplitNames, SplitCode, IInv, Counters
<1>2. /\ th \notin DOMAIN code /\ el \notin DOMAIN code /\ t \notin DOMAIN code
      /\ th # el /\ th # t /\ el # t /\ th # b /\ el # b /\ t # b
      /\ OldBlock(b) /\ ~PadBlock(b) /\ \A n \in DOMAIN code[b] : OldValue(code[b][n])
  BY DEF SplitOf, SplitNames
<1>3. \A x \in DOMAIN code : x # b => code'[x] = code[x]
  BY DEF SplitOf, SplitCode
<1>4. /\ \A x \in DOMAIN code' : \A n \in DOMAIN code'[x] :
            \/ x \in DOMAIN code /\ x # b /\ n \in DOMAIN code[x] /\ code'[x][n] = code[x][n]
            \/ x = b /\ n \in 1..(k - 1) /\ n \in DOMAIN code[b] /\ code'[x][n] = code[b][n]
            \/ x = b /\ n = k /\ code'[x][n] = c
            \/ x = t /\ \E j \in DOMAIN code[b] : j >= k /\ n + k = j + 1 /\ code'[x][n] = code[b][j]
      /\ \A x \in DOMAIN code' : \A n \in DOMAIN code'[x] : n \in Phis(code[x])' =>
            /\ x \in DOMAIN code /\ n \in Phis(code[x]) /\ code'[x][n] = code[x][n]
            /\ n \in DOMAIN code[x] /\ code[x][n] \in DOMAIN inst
      /\ \A x \in DOMAIN code : \A n \in DOMAIN code[x] :
            n \in Phis(code[x]) => n \in Phis(code[x])' /\ code'[x][n] = code[x][n]
  BY SplitPlaces, Zenon
<1>5. \A x, v : OldBlock(x)' = OldBlock(x) /\ OldValue(v)' = OldValue(v)
  BY <1>1 DEF OldBlock, OldValue, Part, RunOne, Source
<1>6. \A m \in DOMAIN Targets : Targets[m].block \in DOMAIN code /\ (Targets[m].block = b => m = next)
  BY <1>1 DEF IInv, TargetsOK
<1>7. PendingOld'
  <2>. SUFFICES ASSUME NEW d \in Pending'
                PROVE  OldBlock(d) /\ \A n \in DOMAIN code'[d] : OldValue(code'[d][n])
    BY <1>1 DEF PendingOld, OldBlock, OldValue, Part, RunOne, Source
  <2>1. PICK m \in DOMAIN Targets : m >= next /\ m > next /\ d = Targets[m].block
    BY <1>1 DEF Pending
  <2>2. d # b /\ d \in DOMAIN code
    BY <1>1, <1>6, <2>1
  <2>3. d \in Pending
    BY <1>1, <2>1 DEF Pending
  <2>4. OldBlock(d) /\ \A n \in DOMAIN code[d] : OldValue(code[d][n])
    BY <2>3 DEF IInv, PendingOld
  <2>5. code'[d] = code[d]
    BY <1>3, <2>2
  <2>. QED  BY <2>4, <2>5
<1>8. TargetsOK'
  <2>1. TargetsOK
    BY DEF IInv
  <2>. QED  BY <1>1, <1>6, <2>1, SameProgram DEF TargetsOK
<1>9. CloneOK'
  <2>1. /\ term'[b].tgts = <<th, el>> /\ term'[th].tgts = <<t>> /\ term'[el].tgts = <<t>>
        /\ term'[t].tgts = term[b].tgts
        /\ \A x \in DOMAIN code : x # b => term'[x].tgts = term[x].tgts
    BY DEF SplitOf, SplitTerms
  <2>2. \A x \in DOMAIN code : \A i \in DOMAIN term[x].tgts : term[x].tgts[i] \in DOMAIN code
    BY DEF IInv, TermsOK
  <2>3. \A i \in DOMAIN <<th, el>> : <<th, el>>[i] \in {th, el}
    OBVIOUS
  <2>4. \A x \in DOMAIN code' \ {th, el} : \A i \in DOMAIN term'[x].tgts : term'[x].tgts[i] # t
    <3>. SUFFICES ASSUME NEW x \in DOMAIN code' \ {th, el}, NEW i \in DOMAIN term'[x].tgts
                  PROVE  term'[x].tgts[i] # t
      OBVIOUS
    <3>1. CASE x = b
      BY <1>2, <2>1, <2>3, <3>1
    <3>2. CASE x = t
      BY <1>1, <1>2, <2>1, <2>2, <3>2
    <3>3. CASE x \in DOMAIN code /\ x # b
      BY <1>2, <2>1, <2>2, <3>3
    <3>. QED  BY <1>1, <3>1, <3>2, <3>3
  <2>5. /\ code'[t] \in Seq(DOMAIN inst)
        /\ \A n \in DOMAIN code'[t] : OldValue(code'[t][n])
    <3>1. code'[t] \in Seq(DOMAIN inst)
      BY DEF SplitOf, SplitCode
    <3>2. \A n \in DOMAIN code'[t] : \E j \in DOMAIN code[b] : code'[t][n] = code[b][j]
      BY <1>1, <1>2, <1>4
    <3>. QED  BY <1>2, <3>1, <3>2
  <2>6. PICK s : s = code'[t]
    OBVIOUS
  <2>7. s \in Seq(DOMAIN inst) /\ \A n \in DOMAIN s : OldValue(s[n])'
    BY <1>5, <2>5, <2>6
  <2>8. \A n \in DOMAIN s : n \notin Phis(code[tail])'
    <3>1. Phis(code[tail])' = Phis(code[t])'
      BY <1>1 DEF Phis
    <3>. QED  BY <1>1, <1>2, <1>4, <2>6, <3>1
  <2>9. code[tail]' = s /\ Side(b, "then")' = th /\ Side(b, "else")' = el /\ Side(b, "tail")' = t
    BY <1>1, <2>6 DEF Side
  <2>10. 1 \in 1..(Len(s) + 1) /\ \A n \in DOMAIN s : n \in Nat /\ ~(n < 1)
    BY <2>7
  <2>11. Diamond(th, el, t)'
    BY <1>1, <2>1, <2>4 DEF Diamond
  <2>12. TailOK'
    BY <1>1, <2>6, <2>7, <2>8, <2>9, <2>10 DEF TailOK
  <2>. QED  BY <1>1, <2>9, <2>11, <2>12 DEF CloneOK, Diamond, Side
<1>10. PhisFirst'
  <2>. SUFFICES ASSUME NEW x \in DOMAIN code', x # t,
                       NEW m \in DOMAIN code'[x], NEW n \in DOMAIN code'[x], m < n,
                       n \in Phis(code[x])'
                PROVE  m \in Phis(code[x])'
    BY <1>1 DEF PhisFirst
  <2>1. x \in DOMAIN code /\ n \in Phis(code[x]) /\ n \in DOMAIN code[x]
    BY <1>4
  <2>2. code[x] \in Seq(DOMAIN inst) /\ code'[x] \in Seq(DOMAIN inst \cup {c})
    <3>1. \A y \in DOMAIN code : code[y] \in Seq(DOMAIN inst)
      BY DEF IInv, PlacesOK
    <3>2. code'[b] \in Seq(DOMAIN inst \cup {c})
      BY DEF SplitOf, SplitCode
    <3>3. \A q \in Seq(DOMAIN inst) : q \in Seq(DOMAIN inst \cup {c})
      OBVIOUS
    <3>. QED  BY <1>3, <2>1, <3>1, <3>2, <3>3
  <2>3. m \in DOMAIN code[x]
    <3>1. m \in Nat \ {0} /\ m < n /\ n \in 1..Len(code[x]) /\ Len(code[x]) \in Nat
      BY <2>1, <2>2
    <3>. QED  BY <2>2, <3>1
  <2>4. m \in Phis(code[x])
    BY <1>1, <2>1, <2>3 DEF IInv, PhisFirst
  <2>. QED  BY <1>4, <2>1, <2>3, <2>4
<1>11. PadsStay'
  <2>. SUFFICES ASSUME NEW x \in Blocks, NEW p \in DOMAIN prog.code[x],
                       prog.inst[prog.code[x][p]].kind = "pad"
                PROVE  \E n \in DOMAIN code'[x] : /\ code'[x][n] = prog.code[x][p]
                                                   /\ inst'[code'[x][n]].kind = "pad"
                                                   /\ \A m \in 1..(n - 1) : m \in Phis(code[x])'
    BY <1>1 DEF PadsStay
  <2>1. PICK n \in DOMAIN code[x] : /\ code[x][n] = prog.code[x][p]
                                     /\ inst[code[x][n]].kind = "pad"
                                     /\ \A m \in 1..(n - 1) : m \in Phis(code[x])
    BY DEF IInv, PadsStay
  <2>2. x # b /\ x \in DOMAIN code
    BY <1>2 DEF PadBlock, IInv, LayoutOK
  <2>3. code'[x] = code[x] /\ code[x] \in Seq(DOMAIN inst)
    BY <1>3, <2>2 DEF IInv, PlacesOK
  <2>4. inst'[code[x][n]].kind = "pad"
    BY <2>1, <2>3 DEF SplitOf, SplitInsts
  <2>5. \A m \in 1..(n - 1) : m \in DOMAIN code[x]
    BY <2>3
  <2>. QED  BY <1>4, <2>1, <2>2, <2>3, <2>4, <2>5
<1>12. \A v \in DOMAIN inst :
         /\ inst'[v].opnds = inst[v].opnds
         /\ DOMAIN inst'[v].from = DOMAIN inst[v].from
         /\ \A i \in DOMAIN inst[v].from :
              /\ inst'[v].from[i] = IF inst[v].from[i] = b THEN t ELSE inst[v].from[i]
              /\ inst[v].from[i] \in DOMAIN code
  BY DEF SplitOf, SplitInsts, IInv, InstsOK
<1>13. EdgesMatch'
  <2>. SUFFICES ASSUME NEW x \in DOMAIN code', NEW n \in Phis(code[x])', NEW p \in DOMAIN code'
                PROVE  Times(inst'[code'[x][n]].from, p) = Times(term'[p].tgts, x)
    BY DEF EdgesMatch
  <2>1. n \in DOMAIN code'[x]
    BY DEF Phis
  <2>2. PICK v : v = code[x][n]
    OBVIOUS
  <2>3. x \in DOMAIN code /\ n \in Phis(code[x]) /\ code'[x][n] = v /\ v \in DOMAIN inst
    BY <1>4, <2>1, <2>2
  <2>4. \A y \in DOMAIN code : Times(inst[v].from, y) = Times(term[y].tgts, x)
    BY <2>2, <2>3 DEF IInv, EdgesMatch
  <2>5. PICK f : f = inst[v].from
    OBVIOUS
  <2>6. PICK g : g = inst'[v].from
    OBVIOUS
  <2>7. /\ DOMAIN g = DOMAIN f
        /\ \A i \in DOMAIN f : g[i] = (IF f[i] = b THEN t ELSE f[i]) /\ f[i] \in DOMAIN code
    BY <1>12, <2>3, <2>5, <2>6
  <2>8. /\ term'[b].tgts = <<th, el>> /\ term'[th].tgts = <<t>> /\ term'[el].tgts = <<t>>
        /\ term'[t].tgts = term[b].tgts
        /\ \A y \in DOMAIN code : y # b => term'[y].tgts = term[y].tgts
    BY DEF SplitOf, SplitTerms
  <2>. SUFFICES Times(g, p) = Times(term'[p].tgts, x)
    BY <2>3, <2>6
  <2>9. CASE p = b
    <3>1. {i \in DOMAIN g : g[i] = p} = {}
      BY <1>2, <2>7, <2>9
    <3>2. {i \in DOMAIN <<th, el>> : <<th, el>>[i] = x} = {}
      BY <1>2, <2>3
    <3>. QED  BY <2>8, <2>9, <3>1, <3>2 DEF Times
  <2>10. CASE p = t
    <3>1. {i \in DOMAIN g : g[i] = p} = {i \in DOMAIN f : f[i] = b}
      BY <1>2, <2>7, <2>10
    <3>2. Times(g, p) = Times(f, b)
      BY <3>1 DEF Times
    <3>. QED  BY <1>1, <2>4, <2>5, <2>8, <2>10, <3>2
  <2>11. CASE p = th \/ p = el
    <3>1. {i \in DOMAIN g : g[i] = p} = {}
      BY <1>2, <2>7, <2>11
    <3>2. {i \in DOMAIN <<t>> : <<t>>[i] = x} = {}
      BY <1>2, <2>3
    <3>3. term'[p].tgts = <<t>>
      BY <2>8, <2>11
    <3>. QED  BY <3>1, <3>2, <3>3 DEF Times
  <2>12. CASE p \in DOMAIN code /\ p # b
    <3>1. {i \in DOMAIN g : g[i] = p} = {i \in DOMAIN f : f[i] = p}
      BY <1>2, <2>7, <2>12
    <3>2. Times(g, p) = Times(f, p)
      BY <3>1 DEF Times
    <3>. QED  BY <2>4, <2>5, <2>8, <2>12, <3>2
  <2>. QED  BY <1>1, <2>9, <2>10, <2>11, <2>12
<1>14. OriginBlock(t) = OriginBlock(b)
  <2>1. t \notin Blocks
    BY <1>2 DEF IInv, LayoutOK
  <2>2. t[1] = b
    BY <1>1
  <2>3. b \in Blocks \/ b[1] \in Blocks
    BY <1>2 DEF OldBlock, Part
  <2>. QED  BY <2>1, <2>2, <2>3 DEF OriginBlock
<1>15. PhisOriginal'
  <2>. SUFFICES ASSUME NEW x \in Blocks, NEW n \in Phis(code[x])'
                PROVE  /\ n \in DOMAIN prog.code[x] /\ code'[x][n] = prog.code[x][n]
                       /\ KeepsPhi(inst'[code'[x][n]], prog.inst[prog.code[x][n]])
    BY <1>1 DEF PhisOriginal
  <2>1. n \in DOMAIN code'[x] /\ x \in DOMAIN code'
    BY <1>1 DEF Phis, IInv, LayoutOK
  <2>2. PICK v : v = code[x][n]
    OBVIOUS
  <2>3. n \in Phis(code[x]) /\ code'[x][n] = v /\ v \in DOMAIN inst
    BY <1>4, <2>1, <2>2
  <2>4. PICK o : o = prog.inst[prog.code[x][n]]
    OBVIOUS
  <2>5. n \in DOMAIN prog.code[x] /\ v = prog.code[x][n] /\ KeepsPhi(inst[v], o)
    BY <2>2, <2>3, <2>4 DEF IInv, PhisOriginal
  <2>6. /\ inst'[v].opnds = inst[v].opnds /\ DOMAIN inst'[v].from = DOMAIN inst[v].from
        /\ \A i \in DOMAIN inst[v].from :
             inst'[v].from[i] = IF inst[v].from[i] = b THEN t ELSE inst[v].from[i]
    BY <1>12, <2>3
  <2>7. \A i \in DOMAIN inst[v].from : OriginBlock(inst'[v].from[i]) = OriginBlock(inst[v].from[i])
    BY <1>14, <2>6
  <2>8. KeepsPhi(inst'[v], o)
    BY <2>5, <2>6, <2>7, Zenon DEF KeepsPhi
  <2>. QED  BY <2>3, <2>4, <2>5, <2>8
<1>. QED  BY <1>7, <1>8, <1>9, <1>10, <1>11, <1>13, <1>15

LEMMA SplitStep ==
  ASSUME Opaque, IInv, Split
  PROVE  IInv'
<1>1. PICK b, k, c, th, el, t : SplitOf(b, k, c, th, el, t)
  BY SplitDoes
<1>2. Counters' /\ TermsOK' /\ PlacesOK' /\ InstsOK' /\ Fresh'
  BY <1>1, SplitStructure
<1>3. PendingOld' /\ TargetsOK' /\ CloneOK' /\ PhisFirst' /\ PadsStay' /\ EdgesMatch' /\ PhisOriginal'
  BY <1>1, SplitRest
<1>. QED  BY <1>2, <1>3, SplitLayout DEF IInv
-----------------------------------------------------------------------------
(***************************************************************************)
(* One round of cloneBB's loop: v under IIT gets the clones tv in th and   *)
(* ev in el; w takes its place in the tail, v itself or its PHI.           *)
(***************************************************************************)
UnderIIT(b, v, th, el, tv, ev) ==
  /\ next \in DOMAIN Targets /\ b = Targets[next].block
  /\ tail = <<b, "tail", count>> /\ th = <<b, "then", count>> /\ el = <<b, "else", count>>
  /\ {th, el, tail} \subseteq DOMAIN code /\ th # el /\ th # tail /\ el # tail
  /\ at \in Nat \ {0} /\ at \in DOMAIN code[tail] /\ v = code[tail][at] /\ v \in DOMAIN inst
  /\ OldValue(v) /\ inst[v].kind # "phi" /\ v \notin ToRemove
  /\ tv = <<v, "then">> /\ ev = <<v, "else">> /\ tv # ev
  /\ tv \notin DOMAIN inst /\ ev \notin DOMAIN inst

CloneNames(b, v, w, th, el, tv, ev) ==
  /\ UnderIIT(b, v, th, el, tv, ev)
  /\ \/ w = v /\ inst[v].kind = "void" /\ ToRemove' = ToRemove \cup {v}
     \/ w = <<v, "phi">> /\ w \notin DOMAIN inst \cup {tv, ev} /\ ToRemove' = ToRemove

CloneCode(w, th, el, tv, ev) ==
  /\ DOMAIN code' = DOMAIN code
  /\ code'[th] = Append(code[th], tv) /\ code'[el] = Append(code[el], ev)
  /\ code'[tail] \in Seq(DOMAIN inst \cup {w})
  /\ DOMAIN code'[tail] = DOMAIN code[tail] /\ code'[tail][at] = w
  /\ \A n \in DOMAIN code[tail] : n # at => code'[tail][n] = code[tail][n]
  /\ \A x \in DOMAIN code : x \notin {th, el, tail} => code'[x] = code[x]

\* The instructions, of which x is one that stays.
KeptInst(i, o, v) ==
  /\ IsInst(i) /\ i.kind = o.kind /\ i.from = o.from /\ DOMAIN i.opnds = DOMAIN o.opnds
  /\ \A k \in DOMAIN o.opnds : i.opnds[k] = o.opnds[k] \/ (o.opnds[k] = v /\ i.opnds[k] = <<v, "phi">>)

CloneInsts(v, w, th, el, tv, ev) ==
  /\ DOMAIN inst' = (DOMAIN inst \ {v}) \cup {w, tv, ev}
  /\ \A x \in DOMAIN inst : x # v \/ w = v => KeptInst(inst'[x], inst[x], v)
  /\ \A x \in {tv, ev} : IsInst(inst'[x]) /\ inst'[x].kind = inst[v].kind /\ inst'[x].from = inst[v].from
  /\ w # v => IsInst(inst'[w]) /\ inst'[w].kind = "phi" /\ inst'[w].from = <<th, el>>

CloneTerms ==
  /\ DOMAIN term' = DOMAIN code
  /\ \A x \in DOMAIN code : IsTerm(term'[x]) /\ term'[x].tgts = term[x].tgts

CloneOf(b, v, w, th, el, tv, ev) ==
  /\ CloneNames(b, v, w, th, el, tv, ev) /\ CloneCode(w, th, el, tv, ev)
  /\ CloneInsts(v, w, th, el, tv, ev) /\ CloneTerms
  /\ pc = "clone" /\ pc' = "clone" /\ at' = at + 1
  /\ UNCHANGED <<prog, layout, next, Targets, tail, count, run>>

\* What is under IIT.
LEMMA IITIs ==
  ASSUME IInv, pc = "clone", at <= Len(code[tail])
  PROVE  \E b, v, th, el, tv, ev :
           UnderIIT(b, v, th, el, tv, ev) /\ <<v, "phi">> \notin DOMAIN inst \cup {tv, ev}
<1>1. PICK b : b = Targets[next].block
  OBVIOUS
<1>2. PICK v : v = code[tail][at]
  OBVIOUS
<1>3. PICK th : th = <<b, "then", count>>
  OBVIOUS
<1>4. PICK el : el = <<b, "else", count>>
  OBVIOUS
<1>5. PICK tv : tv = <<v, "then">>
  OBVIOUS
<1>6. PICK ev : ev = <<v, "else">>
  OBVIOUS
<1>7. /\ next \in DOMAIN Targets /\ tail = <<b, "tail", count>>
      /\ {th, el, tail} \subseteq DOMAIN code /\ at \in 1..(Len(code[tail]) + 1)
  <2>1. CloneOK
    BY DEF IInv
  <2>2. next \in DOMAIN Targets /\ tail = <<b, "tail", count>> /\ Diamond(th, el, tail) /\ TailOK
    BY <1>1, <1>3, <1>4, <2>1 DEF CloneOK, Side
  <2>. QED  BY <2>2 DEF Diamond, TailOK, IInv, Counters
<1>8. code[tail] \in Seq(DOMAIN inst)
  BY <1>7 DEF IInv, PlacesOK
<1>9. at \in Nat \ {0} /\ at \in DOMAIN code[tail] /\ v \in DOMAIN inst
  BY <1>2, <1>7, <1>8
<1>10. OldValue(v) /\ inst[v].kind # "phi"
  <2>1. ~(at < at)
    BY <1>9
  <2>. QED  BY <1>2, <1>9, <2>1 DEF IInv, CloneOK, TailOK, Phis
<1>11. v \notin ToRemove
  <2>. SUFFICES ASSUME v \in ToRemove PROVE FALSE
    OBVIOUS
  <2>1. PICK n \in DOMAIN code[tail] : n < at /\ code[tail][n] = v
    BY DEF IInv, CloneOK, TailOK
  <2>2. At(v, tail, n) /\ At(v, tail, at)
    BY <1>2, <1>7, <1>9, <2>1 DEF At
  <2>3. n = at
    BY <2>2, OnePlace
  <2>. QED  BY <1>9, <2>1, <2>3
<1>12. \A s \in {"then", "else", "phi"} : <<v, s>> \notin DOMAIN inst
  BY <1>9, <1>11 DEF IInv, Fresh, Removing, Clone
<1>13. th # el /\ th # tail /\ el # tail
  BY <1>3, <1>4, <1>7
<1>14. tv # ev /\ tv # <<v, "phi">> /\ ev # <<v, "phi">>
  BY <1>5, <1>6
<1>15. tv \notin DOMAIN inst /\ ev \notin DOMAIN inst /\ <<v, "phi">> \notin DOMAIN inst
  BY <1>5, <1>6, <1>12
<1>16. UnderIIT(b, v, th, el, tv, ev)
  BY <1>1, <1>2, <1>3, <1>4, <1>5, <1>6, <1>7, <1>9, <1>10, <1>11, <1>13, <1>14, <1>15 DEF UnderIIT
<1>. QED  BY <1>14, <1>15, <1>16

\* The clones' records, and what a replacement of operands leaves.
LEMMA ClonedInst ==
  ASSUME NEW i, IsInst(i), NEW map
  PROVE  /\ IsInst([i EXCEPT !.opnds = Remap(@, map)])
         /\ [i EXCEPT !.opnds = Remap(@, map)].kind = i.kind
         /\ [i EXCEPT !.opnds = Remap(@, map)].from = i.from
<1>1. PICK o : o = Remap(i.opnds, map)
  OBVIOUS
<1>2. PICK j : j = [kind |-> i.kind, opnds |-> o, from |-> i.from]
  OBVIOUS
<1>3. [i EXCEPT !.opnds = Remap(@, map)] = j
  BY <1>1, <1>2 DEF IsInst
<1>4. IsInst(j) /\ j.kind = i.kind /\ j.from = i.from
  BY <1>2 DEF IsInst
<1>. QED  BY <1>3, <1>4

\* replaceAllUsesWith in an instruction and in a terminator.
Replaced(s, v, phi) == [k \in DOMAIN s |-> IF s[k] = v THEN phi ELSE s[k]]

LEMMA ReplacedInst ==
  ASSUME NEW i, IsInst(i), NEW v
  PROVE  KeptInst([i EXCEPT !.opnds = Replaced(@, v, <<v, "phi">>)], i, v)
<1>1. PICK o : o = Replaced(i.opnds, v, <<v, "phi">>)
  OBVIOUS
<1>2. PICK j : j = [kind |-> i.kind, opnds |-> o, from |-> i.from]
  OBVIOUS
<1>3. [i EXCEPT !.opnds = Replaced(@, v, <<v, "phi">>)] = j
  BY <1>1, <1>2 DEF IsInst
<1>4. IsInst(j) /\ j.kind = i.kind /\ j.from = i.from /\ j.opnds = o
  BY <1>2 DEF IsInst
<1>5. /\ DOMAIN o = DOMAIN i.opnds
      /\ \A k \in DOMAIN i.opnds : o[k] = i.opnds[k] \/ (i.opnds[k] = v /\ o[k] = <<v, "phi">>)
  BY <1>1 DEF Replaced
<1>. QED  BY <1>3, <1>4, <1>5 DEF KeptInst

LEMMA ReplacedTerm ==
  ASSUME NEW t, IsTerm(t), NEW v, NEW w
  PROVE  /\ IsTerm([t EXCEPT !.opnds = Replaced(@, v, w)])
         /\ [t EXCEPT !.opnds = Replaced(@, v, w)].tgts = t.tgts
<1>1. PICK o : o = Replaced(t.opnds, v, w)
  OBVIOUS
<1>2. PICK j : j = [kind |-> t.kind, opnds |-> o, tgts |-> t.tgts]
  OBVIOUS
<1>3. [t EXCEPT !.opnds = Replaced(@, v, w)] = j
  BY <1>1, <1>2 DEF IsTerm
<1>4. IsTerm(j) /\ j.tgts = t.tgts
  BY <1>2 DEF IsTerm
<1>. QED  BY <1>3, <1>4

\* What both kinds of instruction have in common.
BothCloned(v, th, el, tv, ev) ==
  /\ DOMAIN Cloned(v) = DOMAIN inst \cup {tv, ev}
  /\ \A x \in DOMAIN inst : Cloned(v)[x] = inst[x]
  /\ \A x \in {tv, ev} : /\ IsInst(Cloned(v)[x])
                         /\ Cloned(v)[x].kind = inst[v].kind /\ Cloned(v)[x].from = inst[v].from
  /\ DOMAIN ClonedCode(v) = DOMAIN code
  /\ ClonedCode(v)[th] = Append(code[th], tv) /\ ClonedCode(v)[el] = Append(code[el], ev)
  /\ \A x \in DOMAIN code : x \notin {th, el} => ClonedCode(v)[x] = code[x]

LEMMA ClonedDoes ==
  ASSUME IInv, NEW b, NEW v, NEW th, NEW el, NEW tv, NEW ev, UnderIIT(b, v, th, el, tv, ev)
  PROVE  BothCloned(v, th, el, tv, ev)
<1>1. PICK i : i = inst[v]
  OBVIOUS
<1>2. PICK it : it = [i EXCEPT !.opnds = Remap(@, VMap["then"])]
  OBVIOUS
<1>3. PICK ie : ie = [i EXCEPT !.opnds = Remap(@, VMap["else"])]
  OBVIOUS
<1>4. IsInst(i) /\ v \in DOMAIN inst
  BY <1>1 DEF UnderIIT, IInv, InstsOK
<1>5. /\ IsInst(it) /\ it.kind = i.kind /\ it.from = i.from
      /\ IsInst(ie) /\ ie.kind = i.kind /\ ie.from = i.from
  BY <1>2, <1>3, <1>4, ClonedInst
<1>6. tv = Clone(v, "then") /\ ev = Clone(v, "else") /\ tv # ev /\ tv \notin DOMAIN inst /\ ev \notin DOMAIN inst
  BY DEF UnderIIT, Clone
<1>7. Cloned(v) = Extend(Extend(inst, tv, it), ev, ie)
  BY <1>1, <1>2, <1>3, <1>6 DEF Cloned
<1>8. /\ DOMAIN Cloned(v) = DOMAIN inst \cup {tv, ev}
      /\ \A x \in DOMAIN inst : Cloned(v)[x] = inst[x]
      /\ Cloned(v)[tv] = it /\ Cloned(v)[ev] = ie
  BY <1>6, <1>7 DEF Extend
<1>9. \A x \in {tv, ev} : IsInst(Cloned(v)[x]) /\ Cloned(v)[x].kind = inst[v].kind /\ Cloned(v)[x].from = inst[v].from
  BY <1>1, <1>5, <1>8
<1>10. th = Side(b, "then") /\ el = Side(b, "else") /\ th # el /\ {th, el} \subseteq DOMAIN code
       /\ b = Targets[next].block
  BY DEF UnderIIT, Side
<1>11. ClonedCode(v) = [code EXCEPT ![th] = Append(@, tv), ![el] = Append(@, ev)]
  BY <1>6, <1>10 DEF ClonedCode
<1>12. /\ DOMAIN ClonedCode(v) = DOMAIN code
       /\ ClonedCode(v)[th] = Append(code[th], tv) /\ ClonedCode(v)[el] = Append(code[el], ev)
       /\ \A x \in DOMAIN code : x \notin {th, el} => ClonedCode(v)[x] = code[x]
  BY <1>10, <1>11
<1>. QED  BY <1>8, <1>9, <1>12 DEF BothCloned

LEMMA VoidDoes ==
  ASSUME IInv, CloneVoid
  PROVE  \E b, v, th, el, tv, ev : CloneOf(b, v, v, th, el, tv, ev)
<1>1. pc = "clone" /\ at <= Len(code[tail])
  BY DEF CloneVoid
<1>2. PICK b, v, th, el, tv, ev : UnderIIT(b, v, th, el, tv, ev)
  BY <1>1, IITIs
<1>3. /\ v = code[tail][at] /\ v \in DOMAIN inst /\ {th, el, tail} \subseteq DOMAIN code
      /\ th # el /\ th # tail /\ el # tail
  BY <1>2 DEF UnderIIT
<1>4. /\ inst[v].kind = "void" /\ inst' = Cloned(v) /\ code' = ClonedCode(v)
      /\ ToRemove' = ToRemove \cup {v} /\ pc' = "clone" /\ at' = at + 1
      /\ UNCHANGED <<prog, layout, term, next, Targets, tail, count, run>>
  BY <1>3 DEF CloneVoid
<1>5. /\ DOMAIN inst' = DOMAIN inst \cup {tv, ev}
      /\ \A x \in DOMAIN inst : inst'[x] = inst[x]
      /\ \A x \in {tv, ev} : IsInst(inst'[x]) /\ inst'[x].kind = inst[v].kind /\ inst'[x].from = inst[v].from
      /\ DOMAIN code' = DOMAIN code
      /\ code'[th] = Append(code[th], tv) /\ code'[el] = Append(code[el], ev)
      /\ \A x \in DOMAIN code : x \notin {th, el} => code'[x] = code[x]
  <2>1. BothCloned(v, th, el, tv, ev)
    BY <1>2, ClonedDoes
  <2>. QED  BY <1>4, <2>1 DEF BothCloned
<1>6. CloneNames(b, v, v, th, el, tv, ev)
  BY <1>2, <1>4 DEF CloneNames
<1>7. CloneCode(v, th, el, tv, ev)
  <2>1. code'[tail] \in Seq(DOMAIN inst \cup {v})
    <3>1. code[tail] \in Seq(DOMAIN inst)
      BY <1>3 DEF IInv, PlacesOK
    <3>2. DOMAIN inst \cup {v} = DOMAIN inst
      BY <1>3
    <3>. QED  BY <1>3, <1>5, <3>1, <3>2
  <2>. QED  BY <1>3, <1>5, <2>1 DEF CloneCode
<1>8. CloneInsts(v, v, th, el, tv, ev)
  <2>1. DOMAIN inst' = (DOMAIN inst \ {v}) \cup {v, tv, ev}
    BY <1>3, <1>5
  <2>2. \A x \in DOMAIN inst : KeptInst(inst'[x], inst[x], v)
    BY <1>5 DEF KeptInst, IInv, InstsOK
  <2>. QED  BY <1>5, <2>1, <2>2 DEF CloneInsts
<1>9. CloneTerms
  BY <1>4 DEF CloneTerms, IInv, TermsOK
<1>10. CloneOf(b, v, v, th, el, tv, ev)
  BY <1>1, <1>4, <1>6, <1>7, <1>8, <1>9 DEF CloneOf
<1>. QED  BY <1>10

LEMMA ValueDoes ==
  ASSUME IInv, CloneValue
  PROVE  \E b, v, th, el, tv, ev : CloneOf(b, v, <<v, "phi">>, th, el, tv, ev)
<1>1. pc = "clone" /\ at <= Len(code[tail])
  BY DEF CloneValue
<1>2. PICK b, v, th, el, tv, ev :
        UnderIIT(b, v, th, el, tv, ev) /\ <<v, "phi">> \notin DOMAIN inst \cup {tv, ev}
  BY <1>1, IITIs
<1>3. /\ b = Targets[next].block /\ v = code[tail][at] /\ v \in DOMAIN inst
      /\ {th, el, tail} \subseteq DOMAIN code /\ at \in DOMAIN code[tail]
      /\ th # el /\ th # tail /\ el # tail
      /\ th = <<b, "then", count>> /\ el = <<b, "else", count>>
      /\ tv = <<v, "then">> /\ ev = <<v, "else">>
      /\ tv \notin DOMAIN inst /\ ev \notin DOMAIN inst
  BY <1>2 DEF UnderIIT
<1>4. PICK w : w = <<v, "phi">>
  OBVIOUS
<1>5. PICK iw : iw = [kind |-> "phi", opnds |-> <<tv, ev>>, from |-> <<th, el>>]
  OBVIOUS
<1>6. PICK new : new = Extend(Cloned(v), w, iw)
  OBVIOUS
<1>7. /\ inst' = [x \in DOMAIN new \ {v} |-> [new[x] EXCEPT !.opnds = Replaced(@, v, w)]]
      /\ code' = [ClonedCode(v) EXCEPT ![tail][at] = w]
      /\ term' = [x \in DOMAIN term |-> [term[x] EXCEPT !.opnds = Replaced(@, v, w)]]
  <2>1. \A x : Clone(x, "phi") = <<x, "phi">> /\ Clone(x, "then") = <<x, "then">> /\ Clone(x, "else") = <<x, "else">>
    BY DEF Clone
  <2>2. /\ th = Side(Targets[next].block, "then") /\ el = Side(Targets[next].block, "else")
        /\ tv = Clone(v, "then") /\ ev = Clone(v, "else") /\ w = Clone(v, "phi")
    BY <1>3, <1>4, <2>1 DEF Side
  <2>3. iw = [kind |-> "phi", opnds |-> <<Clone(v, "then"), Clone(v, "else")>>,
              from |-> <<Side(Targets[next].block, "then"), Side(Targets[next].block, "else")>>]
    BY <1>5, <2>2
  <2>4. /\ inst' = [x \in DOMAIN Extend(Cloned(v), w, iw) \ {v} |->
                     [Extend(Cloned(v), w, iw)[x] EXCEPT !.opnds = Replaced(@, v, w)]]
        /\ code' = [ClonedCode(v) EXCEPT ![tail][at] = w]
        /\ term' = [x \in DOMAIN term |-> [term[x] EXCEPT !.opnds = Replaced(@, v, w)]]
    BY <1>3, <2>2, <2>3, Zenon DEF CloneValue, Replaced
  <2>. QED  BY <1>6, <2>4
<1>8. /\ ToRemove' = ToRemove /\ pc' = "clone" /\ at' = at + 1
      /\ UNCHANGED <<prog, layout, next, Targets, tail, count, run>>
  BY DEF CloneValue
<1>9. /\ DOMAIN Cloned(v) = DOMAIN inst \cup {tv, ev}
      /\ \A x \in DOMAIN inst : Cloned(v)[x] = inst[x]
      /\ \A x \in {tv, ev} : /\ IsInst(Cloned(v)[x])
                             /\ Cloned(v)[x].kind = inst[v].kind /\ Cloned(v)[x].from = inst[v].from
      /\ DOMAIN ClonedCode(v) = DOMAIN code
      /\ ClonedCode(v)[th] = Append(code[th], tv) /\ ClonedCode(v)[el] = Append(code[el], ev)
      /\ \A x \in DOMAIN code : x \notin {th, el} => ClonedCode(v)[x] = code[x]
  <2>1. UnderIIT(b, v, th, el, tv, ev)
    BY <1>2
  <2>2. BothCloned(v, th, el, tv, ev)
    BY <2>1, ClonedDoes
  <2>. QED  BY <2>2 DEF BothCloned
<1>10. w \notin DOMAIN inst /\ w # tv /\ w # ev /\ w # v /\ tv # v /\ ev # v
  BY <1>2, <1>3, <1>4
<1>11. /\ DOMAIN new = DOMAIN inst \cup {tv, ev, w}
       /\ \A x \in DOMAIN inst : new[x] = inst[x]
       /\ \A x \in {tv, ev} : new[x] = Cloned(v)[x]
       /\ new[w] = iw
  BY <1>6, <1>9, <1>10 DEF Extend
<1>12. IsInst(iw) /\ iw.kind = "phi" /\ iw.from = <<th, el>>
  BY <1>5 DEF IsInst
<1>13. \A x \in DOMAIN new : IsInst(new[x])
  BY <1>9, <1>11, <1>12 DEF IInv, InstsOK
<1>14. /\ DOMAIN inst' = (DOMAIN inst \ {v}) \cup {w, tv, ev}
       /\ \A x \in DOMAIN inst' : KeptInst(inst'[x], new[x], v)
  <2>1. DOMAIN inst' = DOMAIN new \ {v}
    BY <1>7
  <2>2. ASSUME NEW x \in DOMAIN inst' PROVE KeptInst(inst'[x], new[x], v)
    <3>1. inst'[x] = [new[x] EXCEPT !.opnds = Replaced(@, v, w)]
      BY <1>7, <2>1
    <3>2. PICK i : i = new[x]
      OBVIOUS
    <3>3. IsInst(i)
      BY <1>13, <2>1, <3>2
    <3>. QED  BY <1>4, <3>1, <3>2, <3>3, ReplacedInst
  <2>. QED  BY <1>10, <1>11, <2>1, <2>2
<1>15. CloneInsts(v, w, th, el, tv, ev)
  <2>1. \A x \in DOMAIN inst : x # v => KeptInst(inst'[x], inst[x], v)
    BY <1>11, <1>14
  <2>2. \A x \in {tv, ev} : IsInst(inst'[x]) /\ inst'[x].kind = inst[v].kind /\ inst'[x].from = inst[v].from
    BY <1>9, <1>11, <1>14 DEF KeptInst
  <2>3. IsInst(inst'[w]) /\ inst'[w].kind = "phi" /\ inst'[w].from = <<th, el>>
    BY <1>11, <1>12, <1>14 DEF KeptInst
  <2>. QED  BY <1>10, <1>14, <2>1, <2>2, <2>3 DEF CloneInsts
<1>16. CloneCode(w, th, el, tv, ev)
  <2>1. PICK cc : cc = ClonedCode(v)
    OBVIOUS
  <2>2. PICK s : s = code[tail]
    OBVIOUS
  <2>3. cc[tail] = s /\ tail \in DOMAIN cc /\ at \in DOMAIN s
    BY <1>3, <1>9, <2>1, <2>2
  <2>4. code' = [cc EXCEPT ![tail] = [s EXCEPT ![at] = w]]
    BY <1>7, <2>1, <2>3
  <2>5. PICK r : r = [s EXCEPT ![at] = w]
    OBVIOUS
  <2>6. /\ r \in Seq(DOMAIN inst \cup {w})
        /\ DOMAIN r = DOMAIN s /\ r[at] = w /\ \A n \in DOMAIN s : n # at => r[n] = s[n]
    <3>1. s \in Seq(DOMAIN inst)
      BY <1>3, <2>2 DEF IInv, PlacesOK
    <3>. QED  BY <2>3, <2>5, <3>1
  <2>7. DOMAIN code' = DOMAIN cc /\ code'[tail] = r /\ \A x \in DOMAIN cc : x # tail => code'[x] = cc[x]
    BY <2>3, <2>4, <2>5
  <2>. QED  BY <1>3, <1>9, <2>1, <2>2, <2>6, <2>7 DEF CloneCode
<1>17. CloneTerms
  <2>1. DOMAIN term' = DOMAIN code /\ \A x \in DOMAIN code : IsTerm(term[x])
    BY <1>7 DEF IInv, TermsOK
  <2>2. ASSUME NEW x \in DOMAIN code
        PROVE  IsTerm(term'[x]) /\ term'[x].tgts = term[x].tgts
    <3>1. PICK t : t = term[x]
      OBVIOUS
    <3>2. term'[x] = [t EXCEPT !.opnds = Replaced(@, v, w)]
      BY <1>7, <2>1, <3>1
    <3>3. IsTerm(t)
      BY <2>1, <3>1
    <3>. QED  BY <3>1, <3>2, <3>3, ReplacedTerm
  <2>. QED  BY <2>1, <2>2 DEF CloneTerms
<1>18. CloneNames(b, v, w, th, el, tv, ev)
  BY <1>2, <1>4, <1>8 DEF CloneNames
<1>19. CloneOf(b, v, w, th, el, tv, ev)
  BY <1>1, <1>8, <1>15, <1>16, <1>17, <1>18 DEF CloneOf
<1>. QED  BY <1>4, <1>19

\* What is where after the step.  A place but that under IIT keeps what it
\* has; each clone ends with a new instruction.
CloneAt(n, x, w, th, el, tv, ev) ==
  \/ x = th /\ n = Len(code[th]) + 1 /\ code'[x][n] = tv
  \/ x = el /\ n = Len(code[el]) + 1 /\ code'[x][n] = ev
  \/ x = tail /\ n = at /\ code'[x][n] = w
  \/ n \in DOMAIN code[x] /\ code'[x][n] = code[x][n] /\ ~(x = tail /\ n = at)

Stays(n, x) == n \in DOMAIN code'[x] /\ (code'[x][n] = code[x][n] \/ (x = tail /\ n = at))

CloneMap(w, th, el, tv, ev) ==
  /\ DOMAIN code' = DOMAIN code
  /\ \A x \in DOMAIN code : \A n \in DOMAIN code'[x] : CloneAt(n, x, w, th, el, tv, ev)
  /\ \A x \in DOMAIN code : \A n \in DOMAIN code[x] : Stays(n, x)
  /\ Len(code[th]) + 1 \in DOMAIN code'[th] /\ code'[th][Len(code[th]) + 1] = tv
  /\ Len(code[el]) + 1 \in DOMAIN code'[el] /\ code'[el][Len(code[el]) + 1] = ev
  /\ at \in DOMAIN code'[tail] /\ code'[tail][at] = w

LEMMA ClonePlaces ==
  ASSUME IInv, NEW b, NEW v, NEW w, NEW th, NEW el, NEW tv, NEW ev, CloneOf(b, v, w, th, el, tv, ev)
  PROVE  CloneMap(w, th, el, tv, ev)
<1>1. /\ {th, el, tail} \subseteq DOMAIN code /\ th # el /\ th # tail /\ el # tail
      /\ at \in DOMAIN code[tail]
  BY DEF CloneOf, CloneNames, UnderIIT
<1>2. /\ DOMAIN code' = DOMAIN code
      /\ code'[th] = Append(code[th], tv) /\ code'[el] = Append(code[el], ev)
      /\ DOMAIN code'[tail] = DOMAIN code[tail] /\ code'[tail][at] = w
      /\ \A n \in DOMAIN code[tail] : n # at => code'[tail][n] = code[tail][n]
      /\ \A x \in DOMAIN code : x \notin {th, el, tail} => code'[x] = code[x]
  BY DEF CloneOf, CloneCode
<1>3. code[th] \in Seq(DOMAIN inst) /\ code[el] \in Seq(DOMAIN inst)
  BY <1>1 DEF IInv, PlacesOK
<1>4. PICK s : s = code[th]
  OBVIOUS
<1>5. PICK r : r = code[el]
  OBVIOUS
<1>6. s \in Seq(DOMAIN inst) /\ r \in Seq(DOMAIN inst)
  BY <1>3, <1>4, <1>5
<1>7. /\ DOMAIN s = 1..Len(s) /\ Len(s) \in Nat /\ DOMAIN Append(s, tv) = 1..(Len(s) + 1)
      /\ \A n \in 1..Len(s) : Append(s, tv)[n] = s[n]
      /\ Append(s, tv)[Len(s) + 1] = tv
  BY <1>6
<1>8. /\ DOMAIN r = 1..Len(r) /\ Len(r) \in Nat /\ DOMAIN Append(r, ev) = 1..(Len(r) + 1)
      /\ \A n \in 1..Len(r) : Append(r, ev)[n] = r[n]
      /\ Append(r, ev)[Len(r) + 1] = ev
  BY <1>6
<1>9. ASSUME NEW x \in DOMAIN code, NEW n \in DOMAIN code'[x]
      PROVE  CloneAt(n, x, w, th, el, tv, ev)
  <2>1. CASE x = th
    <3>1. n \in 1..(Len(s) + 1)
      BY <1>2, <1>4, <1>7, <2>1
    <3>2. CASE n = Len(s) + 1
      BY <1>2, <1>4, <1>7, <2>1, <3>2 DEF CloneAt
    <3>3. CASE n \in 1..Len(s)
      BY <1>1, <1>2, <1>4, <1>7, <2>1, <3>3 DEF CloneAt
    <3>. QED  BY <1>7, <3>1, <3>2, <3>3
  <2>2. CASE x = el
    <3>1. n \in 1..(Len(r) + 1)
      BY <1>2, <1>5, <1>8, <2>2
    <3>2. CASE n = Len(r) + 1
      BY <1>2, <1>5, <1>8, <2>2, <3>2 DEF CloneAt
    <3>3. CASE n \in 1..Len(r)
      BY <1>1, <1>2, <1>5, <1>8, <2>2, <3>3 DEF CloneAt
    <3>. QED  BY <1>8, <3>1, <3>2, <3>3
  <2>3. CASE x = tail
    BY <1>2, <2>3 DEF CloneAt
  <2>4. CASE x \notin {th, el, tail}
    BY <1>2, <2>4 DEF CloneAt
  <2>. QED  BY <2>1, <2>2, <2>3, <2>4
<1>10. ASSUME NEW x \in DOMAIN code, NEW n \in DOMAIN code[x]
       PROVE  Stays(n, x)
  <2>1. CASE x = th
    <3>1. n \in 1..Len(s) /\ n \in 1..(Len(s) + 1)
      BY <1>4, <1>7, <2>1
    <3>. QED  BY <1>2, <1>4, <1>7, <2>1, <3>1 DEF Stays
  <2>2. CASE x = el
    <3>1. n \in 1..Len(r) /\ n \in 1..(Len(r) + 1)
      BY <1>5, <1>8, <2>2
    <3>. QED  BY <1>2, <1>5, <1>8, <2>2, <3>1 DEF Stays
  <2>3. CASE x = tail
    BY <1>2, <2>3 DEF Stays
  <2>4. CASE x \notin {th, el, tail}
    BY <1>2, <2>4 DEF Stays
  <2>. QED  BY <2>1, <2>2, <2>3, <2>4
<1>11. /\ Len(s) + 1 \in DOMAIN code'[th] /\ code'[th][Len(s) + 1] = tv
       /\ Len(r) + 1 \in DOMAIN code'[el] /\ code'[el][Len(r) + 1] = ev
  BY <1>2, <1>4, <1>5, <1>7, <1>8
<1>. QED  BY <1>1, <1>2, <1>4, <1>5, <1>9, <1>10, <1>11 DEF CloneMap

\* What an old place but that under IIT has: not v, but something that stays.
LEMMA OtherPlace ==
  ASSUME IInv, NEW b, NEW v, NEW w, NEW th, NEW el, NEW tv, NEW ev, CloneOf(b, v, w, th, el, tv, ev),
         NEW x \in DOMAIN code, NEW n \in DOMAIN code[x], ~(x = tail /\ n = at)
  PROVE  /\ code[x][n] \in DOMAIN inst /\ code[x][n] # v
         /\ code[x][n] \in DOMAIN inst' /\ KeptInst(inst'[code[x][n]], inst[code[x][n]], v)
<1>1. PICK u : u = code[x][n]
  OBVIOUS
<1>2. u \in DOMAIN inst
  BY <1>1 DEF IInv, PlacesOK
<1>3. u # v
  <2>. SUFFICES ASSUME u = v PROVE FALSE
    OBVIOUS
  <2>1. At(v, x, n) /\ At(v, tail, at)
    BY <1>1 DEF At, CloneOf, CloneNames, UnderIIT
  <2>2. x = tail /\ n = at
    BY <2>1, OnePlace
  <2>. QED  BY <2>2
<1>4. u \in DOMAIN inst' /\ KeptInst(inst'[u], inst[u], v)
  BY <1>2, <1>3 DEF CloneOf, CloneInsts
<1>. QED  BY <1>1, <1>2, <1>3, <1>4

LEMMA ClonePhis ==
  ASSUME IInv, NEW b, NEW v, NEW w, NEW th, NEW el, NEW tv, NEW ev, CloneOf(b, v, w, th, el, tv, ev),
         NEW x \in DOMAIN code
  PROVE  /\ \A n \in DOMAIN code[x] : ~(x = tail /\ n = at) => (n \in Phis(code[x])' <=> n \in Phis(code[x]))
         /\ \A n \in Phis(code[x])' :
              \/ n \in Phis(code[x]) /\ n \in DOMAIN code[x] /\ code'[x][n] = code[x][n] /\ ~(x = tail /\ n = at)
              \/ x = tail /\ n = at /\ w # v /\ code'[x][n] = w
         /\ w # v => at \in Phis(code[tail])'
<1>1. /\ \A y \in DOMAIN code : \A n \in DOMAIN code'[y] : CloneAt(n, y, w, th, el, tv, ev)
      /\ \A y \in DOMAIN code : \A n \in DOMAIN code[y] : Stays(n, y)
  BY ClonePlaces DEF CloneMap
<1>2. /\ \A u \in {tv, ev} : inst'[u].kind = inst[v].kind
      /\ w # v => inst'[w].kind = "phi"
      /\ inst[v].kind # "phi" /\ tail' = tail
      /\ w = v => KeptInst(inst'[v], inst[v], v)
      /\ tail \in DOMAIN code /\ at \in DOMAIN code[tail]
  BY DEF CloneOf, CloneInsts, CloneNames, UnderIIT
<1>3. ASSUME NEW n \in DOMAIN code[x], ~(x = tail /\ n = at)
      PROVE  n \in Phis(code[x])' <=> n \in Phis(code[x])
  <2>1. n \in DOMAIN code'[x] /\ code'[x][n] = code[x][n]
    BY <1>1, <1>3 DEF Stays
  <2>2. inst'[code[x][n]].kind = inst[code[x][n]].kind
    BY <1>3, OtherPlace DEF KeptInst
  <2>. QED  BY <2>1, <2>2 DEF Phis
<1>4. ASSUME NEW n \in Phis(code[x])'
      PROVE  \/ n \in Phis(code[x]) /\ n \in DOMAIN code[x] /\ code'[x][n] = code[x][n] /\ ~(x = tail /\ n = at)
             \/ x = tail /\ n = at /\ w # v /\ code'[x][n] = w
  <2>1. n \in DOMAIN code'[x] /\ inst'[code'[x][n]].kind = "phi"
    BY DEF Phis
  <2>2. CloneAt(n, x, w, th, el, tv, ev)
    BY <1>1, <2>1
  <2>3. CASE n \in DOMAIN code[x] /\ code'[x][n] = code[x][n] /\ ~(x = tail /\ n = at)
    BY <1>3, <2>3
  <2>4. CASE x = tail /\ n = at /\ code'[x][n] = w
    BY <1>2, <2>1, <2>4 DEF KeptInst
  <2>5. CASE code'[x][n] = tv \/ code'[x][n] = ev
    BY <1>2, <2>1, <2>5
  <2>. QED  BY <2>2, <2>3, <2>4, <2>5 DEF CloneAt
<1>5. ASSUME w # v PROVE at \in Phis(code[tail])'
  <2>1. DOMAIN code'[tail] = DOMAIN code[tail] /\ code'[tail][at] = w
    BY DEF CloneOf, CloneCode
  <2>. QED  BY <1>2, <1>5, <2>1 DEF Phis
<1>. QED  BY <1>3, <1>4, <1>5

\* The name under IIT is no clone of a clone.
LEMMA OldShape ==
  ASSUME Opaque, IInv, NEW v, OldValue(v)
  PROVE  \/ Source(v)
         \/ Stamped(v, count) /\ run = 2
         \/ Pair(v) /\ Source(v[1]) /\ ~Pair(v[1]) /\ run = 2
<1>1. prog \in Programs /\ run \in {1, 2}
  BY DEF IInv, Counters
<1>2. \A x, y : ~Source(<<x, y>>)
  BY <1>1, NoTuple
<1>3. Source(v[1]) => ~Pair(v[1])
  BY <1>2 DEF Pair
<1>. QED  BY <1>1, <1>3 DEF OldValue, RunOne

LEMMA CloneStructure ==
  ASSUME Opaque, IInv, NEW b, NEW v, NEW w, NEW th, NEW el, NEW tv, NEW ev,
         CloneOf(b, v, w, th, el, tv, ev)
  PROVE  Counters' /\ LayoutOK' /\ TermsOK' /\ PlacesOK' /\ InstsOK' /\ Fresh'
<1>1. /\ {th, el, tail} \subseteq DOMAIN code /\ th # el /\ th # tail /\ el # tail
      /\ at \in DOMAIN code[tail] /\ v = code[tail][at] /\ v \in DOMAIN inst
      /\ OldValue(v) /\ v \notin ToRemove
      /\ tv = <<v, "then">> /\ ev = <<v, "else">> /\ tv # ev
      /\ tv \notin DOMAIN inst /\ ev \notin DOMAIN inst
  BY DEF CloneOf, CloneNames, UnderIIT
<1>2. /\ pc = "clone" /\ pc' = "clone" /\ at' = at + 1
      /\ UNCHANGED <<prog, layout, next, Targets, tail, count, run>>
      /\ prog \in Programs /\ count \in Nat /\ run \in {1, 2}
  BY DEF CloneOf, IInv, Counters
<1>3. \/ w = v /\ inst[v].kind = "void" /\ ToRemove' = ToRemove \cup {v}
      \/ w = <<v, "phi">> /\ w \notin DOMAIN inst \cup {tv, ev} /\ w # v /\ ToRemove' = ToRemove
  BY <1>1 DEF CloneOf, CloneNames
<1>4. /\ DOMAIN code' = DOMAIN code
      /\ \A x \in DOMAIN code : \A n \in DOMAIN code'[x] : CloneAt(n, x, w, th, el, tv, ev)
      /\ \A x \in DOMAIN code : \A n \in DOMAIN code[x] : Stays(n, x)
      /\ \E n \in DOMAIN code'[th] : code'[th][n] = tv
      /\ \E n \in DOMAIN code'[el] : code'[el][n] = ev
      /\ \E n \in DOMAIN code'[tail] : code'[tail][n] = w
  <2>1. CloneMap(w, th, el, tv, ev)
    BY ClonePlaces
  <2>. QED  BY <2>1 DEF CloneMap
<1>5. DOMAIN inst' = (DOMAIN inst \ {v}) \cup {w, tv, ev}
  BY DEF CloneOf, CloneInsts
<1>6. Stamp = count + 1 /\ Stamp' = count + 1
  BY <1>2 DEF Stamp
<1>7. Original(Origin(v)) \/ IsCompare(v)
  <2>1. CASE Source(v)
    BY <2>1 DEF Source, Original, Origin
  <2>2. CASE Stamped(v, count)
    <3>1. ~Original(v)
      BY <1>2, <2>2, NoTuple DEF Stamped
    <3>2. Len(v) = 3
      BY <2>2 DEF Stamped
    <3>. QED  BY <3>1, <3>2 DEF IsCompare
  <2>3. CASE Pair(v) /\ Source(v[1])
    <3>1. PICK o : o = v[1]
      OBVIOUS
    <3>2. Original(o) /\ StandsFor(v, o)
      BY <2>3, <3>1 DEF Source, Original, StandsFor
    <3>3. Origin(v) = o
      BY <1>2, <3>2, OriginOf
    <3>. QED  BY <3>2, <3>3
  <2>. QED  BY <1>1, <2>1, <2>2, <2>3, OldShape
<1>8. Counters'
  <2>1. IsCompare(v) => inst[v].kind = "cond"
    BY <1>1 DEF IInv, InstsOK
  <2>2. w = v /\ inst[v].kind = "void" => Original(Origin(v))
    BY <1>7, <2>1
  <2>3. \A x \in ToRemove' : Original(Origin(x))
    BY <1>3, <2>2 DEF IInv, Counters
  <2>4. \A x : Original(x)' = Original(x) /\ Origin(x)' = Origin(x)
    BY <1>2, SameProgram
  <2>5. \A x : Original(Origin(x))' = Original(Origin(x))
    BY <1>2, <2>4 DEF Original
  <2>6. tail \in DOMAIN code'
    BY <1>1, <1>4
  <2>. QED  BY <1>2, <2>3, <2>5, <2>6 DEF IInv, Counters
<1>9. LayoutOK'
  <2>1. \A x : BlockName(x)' = BlockName(x)
    BY <1>2, <1>6 DEF BlockName
  <2>. QED  BY <1>2, <1>4, <2>1 DEF IInv, LayoutOK
<1>10. TermsOK'
  <2>1. CloneTerms
    BY DEF CloneOf
  <2>. QED  BY <1>4, <2>1 DEF IInv, TermsOK, CloneTerms
<1>11. PlacesOK'
  <2>1. \A x \in DOMAIN code : \A n \in DOMAIN code[x] :
          ~(x = tail /\ n = at) => code[x][n] \in DOMAIN inst'
    BY OtherPlace
  <2>2. \A x \in DOMAIN code : \A n \in DOMAIN code'[x] : code'[x][n] \in DOMAIN inst'
    BY <1>4, <1>5, <2>1 DEF CloneAt
  <2>3. ASSUME NEW x \in DOMAIN code PROVE code'[x] \in Seq(DOMAIN inst')
    <3>1. code'[x] \in Seq(DOMAIN inst \cup {w, tv, ev})
      <4>. PICK s : s = code[x]
        OBVIOUS
      <4>. PICK S : S = DOMAIN inst \cup {w, tv, ev}
        OBVIOUS
      <4>1. s \in Seq(DOMAIN inst)
        BY DEF IInv, PlacesOK
      <4>2. s \in Seq(S) /\ tv \in S /\ ev \in S
        BY <4>1
      <4>3. Append(s, tv) \in Seq(S) /\ Append(s, ev) \in Seq(S)
        BY <4>2
      <4>4. /\ code'[th] = Append(code[th], tv) /\ code'[el] = Append(code[el], ev)
            /\ code'[tail] \in Seq(DOMAIN inst \cup {w})
            /\ \A y \in DOMAIN code : y \notin {th, el, tail} => code'[y] = code[y]
        BY DEF CloneOf, CloneCode
      <4>5. CASE x = tail
        BY <4>4, <4>5
      <4>. QED  BY <4>2, <4>3, <4>4, <4>5
    <3>2. PICK s : s = code'[x]
      OBVIOUS
    <3>3. s \in Seq(DOMAIN inst \cup {w, tv, ev}) /\ \A n \in DOMAIN s : s[n] \in DOMAIN inst'
      BY <2>2, <3>1, <3>2
    <3>4. s \in Seq(DOMAIN inst')
      BY <3>3
    <3>. QED  BY <3>2, <3>4
  <2>4. ASSUME NEW u \in DOMAIN inst'
        PROVE  \E x \in DOMAIN code' : \E n \in DOMAIN code'[x] : code'[x][n] = u
    <3>1. CASE u \in {w, tv, ev}
      BY <1>1, <1>4, <3>1
    <3>2. CASE u \in DOMAIN inst /\ u # v
      <4>1. PICK x \in DOMAIN code : \E n \in DOMAIN code[x] : code[x][n] = u
        BY <3>2 DEF IInv, PlacesOK
      <4>2. PICK n \in DOMAIN code[x] : code[x][n] = u
        BY <4>1
      <4>3. ~(x = tail /\ n = at)
        BY <1>1, <3>2, <4>2
      <4>. QED  BY <1>4, <4>2, <4>3 DEF Stays
    <3>. QED  BY <1>5, <3>1, <3>2
  <2>5. ASSUME NEW x \in DOMAIN code, NEW y \in DOMAIN code,
               NEW m \in DOMAIN code'[x], NEW n \in DOMAIN code'[y], code'[x][m] = code'[y][n]
        PROVE  x = y /\ m = n
    <3>1. CloneAt(m, x, w, th, el, tv, ev) /\ CloneAt(n, y, w, th, el, tv, ev)
      BY <1>4
    <3>2. w # tv /\ w # ev
      BY <1>1, <1>3
    <3>3. \A z \in DOMAIN code : \A i \in DOMAIN code[z] :
            ~(z = tail /\ i = at) => code[z][i] \notin {w, tv, ev}
      <4>1. \A z \in DOMAIN code : \A i \in DOMAIN code[z] :
              ~(z = tail /\ i = at) => code[z][i] \in DOMAIN inst /\ code[z][i] # v
        BY OtherPlace
      <4>. QED  BY <1>1, <1>3, <4>1
    <3>4. CASE /\ m \in DOMAIN code[x] /\ code'[x][m] = code[x][m] /\ ~(x = tail /\ m = at)
               /\ n \in DOMAIN code[y] /\ code'[y][n] = code[y][n] /\ ~(y = tail /\ n = at)
      <4>1. PICK u : u = code[x][m]
        OBVIOUS
      <4>2. At(u, x, m) /\ At(u, y, n)
        BY <2>5, <3>4, <4>1 DEF At
      <4>. QED  BY <4>2, OnePlace
    <3>. QED  BY <1>1, <2>5, <3>1, <3>2, <3>3, <3>4 DEF CloneAt
  <2>. QED  BY <1>4, <2>3, <2>4, <2>5 DEF PlacesOK
<1>12. InstsOK'
  <2>1. \A x : ValueName(x)' = ValueName(x)
    BY <1>2, <1>6 DEF ValueName, RunOne, RunTwo, Source
  <2>2. ASSUME NEW x \in {<<v, "then">>, <<v, "else">>, <<v, "phi">>}
        PROVE  ValueName(x) /\ ~IsCompare(x)
    <3>1. Pair(x) /\ x[1] = v
      BY DEF Pair
    <3>2. ~IsCompare(x)
      <4>1. Len(x) = 2
        BY DEF Pair
      <4>. QED  BY <4>1 DEF IsCompare
    <3>3. CASE run = 1
      <4>1. Source(v)
        BY <1>1, <3>3 DEF OldValue
      <4>2. RunOne(x, Stamp)
        BY <3>1, <4>1 DEF RunOne
      <4>. QED  BY <3>2, <3>3, <4>2 DEF ValueName
    <3>4. CASE run # 1
      <4>1. RunOne(v, count)
        BY <1>1, <3>4 DEF OldValue
      <4>2. RunOne(v, count + 1)
        BY <1>2, <4>1 DEF RunOne, Stamped
      <4>. QED  BY <1>6, <3>1, <3>2, <3>4, <4>2 DEF ValueName, RunTwo
    <3>. QED  BY <3>3, <3>4
  <2>3. \A x : IsCompare(x)' = IsCompare(x)
    BY <1>2, SameProgram
  <2>4. \A x \in DOMAIN inst : /\ IsInst(inst[x]) /\ ValueName(x) /\ (IsCompare(x) => inst[x].kind = "cond")
                                /\ \A k \in DOMAIN inst[x].from : inst[x].from[k] \in DOMAIN code
    BY DEF IInv, InstsOK
  <2>5. /\ \A x \in DOMAIN inst : x # v \/ w = v => KeptInst(inst'[x], inst[x], v)
        /\ \A x \in {tv, ev} : IsInst(inst'[x]) /\ inst'[x].kind = inst[v].kind /\ inst'[x].from = inst[v].from
        /\ w # v => IsInst(inst'[w]) /\ inst'[w].kind = "phi" /\ inst'[w].from = <<th, el>>
    BY DEF CloneOf, CloneInsts
  <2>6. ASSUME NEW x \in DOMAIN inst'
        PROVE  /\ IsInst(inst'[x]) /\ ValueName(x) /\ (IsCompare(x) => inst'[x].kind = "cond")
               /\ \A k \in DOMAIN inst'[x].from : inst'[x].from[k] \in DOMAIN code
    <3>1. CASE x \in DOMAIN inst /\ (x # v \/ w = v)
      BY <2>4, <2>5, <3>1 DEF KeptInst
    <3>2. CASE x \in {tv, ev}
      BY <1>1, <2>2, <2>4, <2>5, <3>2
    <3>3. CASE x = w /\ w # v
      <4>1. \A k \in DOMAIN <<th, el>> : <<th, el>>[k] \in DOMAIN code
        BY <1>1
      <4>2. ValueName(x) /\ ~IsCompare(x)
        BY <1>3, <2>2, <3>3
      <4>. QED  BY <2>5, <3>3, <4>1, <4>2
    <3>. QED  BY <1>1, <1>5, <3>1, <3>2, <3>3
  <2>. QED  BY <1>4, <2>1, <2>3, <2>6 DEF InstsOK
<1>13. Fresh'
  <2>1. Removing = ToRemove /\ Removing' = ToRemove'
    BY <1>2 DEF Removing
  <2>2. \A x \in DOMAIN inst \ ToRemove : \A s, t \in {"then", "else", "phi"} :
          <<x, s>> \notin DOMAIN inst /\ <<<<x, s>>, t>> \notin DOMAIN inst
    BY <2>1 DEF IInv, Fresh, Clone
  <2>3. \A x, y : <<x, y>> \in DOMAIN inst' => <<x, y>> \in DOMAIN inst \/ x = v
    BY <1>1, <1>3, <1>5
  <2>4. ASSUME NEW x, NEW r, NEW s, NEW t
        PROVE  <<<<<<x, r>>, s>>, t>> \notin DOMAIN inst
    <3>1. \A y, z : ~Source(<<y, z>>)
      BY <1>2, NoTuple
    <3>2. \A y, z : ~Stamped(<<y, z>>, Stamp)
      BY DEF Stamped
    <3>3. ~RunOne(<<<<x, r>>, s>>, Stamp) /\ ~RunOne(<<<<<<x, r>>, s>>, t>>, Stamp)
      BY <3>1, <3>2 DEF RunOne
    <3>4. ~ValueName(<<<<<<x, r>>, s>>, t>>)
      BY <3>3 DEF ValueName, RunTwo
    <3>. QED  BY <3>4 DEF IInv, InstsOK
  <2>5. ASSUME NEW x \in DOMAIN inst' \ ToRemove', NEW s \in {"then", "else", "phi"},
               NEW t \in {"then", "else", "phi"}
        PROVE  <<x, s>> \notin DOMAIN inst' /\ <<<<x, s>>, t>> \notin DOMAIN inst'
    <3>1. CASE x \in DOMAIN inst
      <4>1. x # v /\ x \notin ToRemove
        BY <1>3, <1>5, <1>1, <3>1
      <4>2. <<x, s>> \notin DOMAIN inst /\ <<<<x, s>>, t>> \notin DOMAIN inst
        BY <2>2, <3>1, <4>1
      <4>3. <<x, s>> # v
        BY <1>1, <4>2
      <4>. QED  BY <2>3, <4>1, <4>2, <4>3
    <3>2. CASE x \notin DOMAIN inst
      <4>1. PICK r \in {"then", "else", "phi"} : x = <<v, r>>
        BY <1>1, <1>3, <1>5, <3>2
      <4>2. x # v
        BY <1>1, <3>2
      <4>3. <<x, s>> \notin DOMAIN inst
        BY <1>1, <2>2, <4>1
      <4>4. <<x, s>> # v
        BY <1>1, <4>3
      <4>5. <<<<x, s>>, t>> \notin DOMAIN inst
        BY <2>4, <4>1
      <4>. QED  BY <2>3, <4>2, <4>3, <4>4, <4>5
    <3>. QED  BY <3>1, <3>2
  <2>. QED  BY <2>1, <2>5 DEF Fresh, Clone
<1>. QED  BY <1>8, <1>9, <1>10, <1>11, <1>12, <1>13

LEMMA CloneRest ==
  ASSUME Opaque, IInv, NEW b, NEW v, NEW w, NEW th, NEW el, NEW tv, NEW ev,
         CloneOf(b, v, w, th, el, tv, ev)
  PROVE  PendingOld' /\ TargetsOK' /\ CloneOK' /\ PhisFirst' /\ PadsStay' /\ EdgesMatch' /\ PhisOriginal'
<1>1. /\ next \in DOMAIN Targets /\ b = Targets[next].block
      /\ tail = <<b, "tail", count>> /\ th = <<b, "then", count>> /\ el = <<b, "else", count>>
      /\ {th, el, tail} \subseteq DOMAIN code /\ th # el /\ th # tail /\ el # tail
      /\ at \in Nat \ {0} /\ at \in DOMAIN code[tail] /\ v = code[tail][at] /\ v \in DOMAIN inst
      /\ OldValue(v) /\ v \notin ToRemove /\ inst[v].kind # "phi"
  BY DEF CloneOf, CloneNames, UnderIIT
<1>2. /\ pc = "clone" /\ pc' = "clone" /\ at' = at + 1
      /\ UNCHANGED <<prog, layout, next, Targets, tail, count, run>>
      /\ prog \in Programs /\ count \in Nat /\ run \in {1, 2}
  BY DEF CloneOf, IInv, Counters
<1>3. \/ w = v /\ ToRemove' = ToRemove \cup {v}
      \/ w = <<v, "phi">> /\ w # v /\ ToRemove' = ToRemove
  BY <1>1 DEF CloneOf, CloneNames
<1>4. /\ DOMAIN code' = DOMAIN code
      /\ \A x \in DOMAIN code : \A n \in DOMAIN code'[x] : CloneAt(n, x, w, th, el, tv, ev)
      /\ \A x \in DOMAIN code : \A n \in DOMAIN code[x] : Stays(n, x)
      /\ at \in DOMAIN code'[tail] /\ code'[tail][at] = w
  <2>1. CloneMap(w, th, el, tv, ev)
    BY ClonePlaces
  <2>. QED  BY <2>1 DEF CloneMap
<1>5. /\ code'[th] = Append(code[th], tv) /\ code'[el] = Append(code[el], ev)
      /\ DOMAIN code'[tail] = DOMAIN code[tail] /\ Len(code'[tail]) = Len(code[tail])
      /\ \A n \in DOMAIN code[tail] : n # at => code'[tail][n] = code[tail][n]
      /\ \A x \in DOMAIN code : x \notin {th, el, tail} => code'[x] = code[x]
  <2>1. /\ code'[th] = Append(code[th], tv) /\ code'[el] = Append(code[el], ev)
        /\ code'[tail] \in Seq(DOMAIN inst \cup {w})
        /\ DOMAIN code'[tail] = DOMAIN code[tail]
        /\ \A n \in DOMAIN code[tail] : n # at => code'[tail][n] = code[tail][n]
        /\ \A x \in DOMAIN code : x \notin {th, el, tail} => code'[x] = code[x]
    BY DEF CloneOf, CloneCode
  <2>2. code[tail] \in Seq(DOMAIN inst)
    BY <1>1 DEF IInv, PlacesOK
  <2>3. Len(code'[tail]) = Len(code[tail])
    <3>. PICK s : s = code[tail]
      OBVIOUS
    <3>. PICK r : r = code'[tail]
      OBVIOUS
    <3>1. s \in Seq(DOMAIN inst) /\ r \in Seq(DOMAIN inst \cup {w}) /\ DOMAIN r = DOMAIN s
      BY <2>1, <2>2
    <3>2. DOMAIN r = 1..Len(r) /\ DOMAIN s = 1..Len(s) /\ Len(r) \in Nat /\ Len(s) \in Nat
      BY <3>1
    <3>3. PICK i \in Nat : i = Len(r)
      BY <3>2
    <3>4. PICK j \in Nat : j = Len(s)
      BY <3>2
    <3>5. 1..i = 1..j
      BY <3>1, <3>2, <3>3, <3>4
    <3>6. \A k \in Nat : k \in 1..i <=> k \in 1..j
      BY <3>5
    <3>7. (i # 0 => i \in 1..i) /\ (j # 0 => j \in 1..j)
      OBVIOUS
    <3>8. (i # 0 => i <= j) /\ (j # 0 => j <= i)
      BY <3>6, <3>7
    <3>9. i = j
      BY <3>8
    <3>. QED  BY <3>3, <3>4, <3>9
  <2>. QED  BY <2>1, <2>3
<1>6. \A x \in DOMAIN code :
        /\ \A n \in DOMAIN code[x] : ~(x = tail /\ n = at) => (n \in Phis(code[x])' <=> n \in Phis(code[x]))
        /\ \A n \in Phis(code[x])' :
             \/ n \in Phis(code[x]) /\ n \in DOMAIN code[x] /\ code'[x][n] = code[x][n] /\ ~(x = tail /\ n = at)
             \/ x = tail /\ n = at /\ w # v /\ code'[x][n] = w
        /\ w # v => at \in Phis(code[tail])'
  BY ClonePhis
<1>7. \A x \in DOMAIN code : \A n \in DOMAIN code[x] : ~(x = tail /\ n = at) =>
        /\ code[x][n] \in DOMAIN inst
        /\ KeptInst(inst'[code[x][n]], inst[code[x][n]], v)
  BY OtherPlace
<1>8. \A x, u : OldBlock(x)' = OldBlock(x) /\ OldValue(u)' = OldValue(u)
  BY <1>2 DEF OldBlock, OldValue, Part, RunOne, Source
<1>9. \A x \in DOMAIN code : OldBlock(x) => x \notin {th, el, tail} /\ code'[x] = code[x]
  <2>1. \A s : <<b, s, count>> \notin Blocks
    BY <1>2, NoTuple
  <2>2. \A s : ~Stamped(<<b, s, count>>, count)
    BY <1>2 DEF Stamped
  <2>3. \A s : ~OldBlock(<<b, s, count>>)
    BY <2>1, <2>2 DEF OldBlock, Part
  <2>. QED  BY <1>1, <1>5, <2>3
<1>10. PendingOld'
  <2>. SUFFICES ASSUME NEW d \in Pending'
                PROVE  OldBlock(d) /\ \A n \in DOMAIN code'[d] : OldValue(code'[d][n])
    BY <1>2 DEF PendingOld, OldBlock, OldValue, Part, RunOne, Source
  <2>1. d \in Pending /\ d \in DOMAIN code
    BY <1>2 DEF Pending, IInv, TargetsOK
  <2>2. OldBlock(d) /\ \A n \in DOMAIN code[d] : OldValue(code[d][n])
    BY <2>1 DEF IInv, PendingOld
  <2>3. code'[d] = code[d]
    BY <1>9, <2>1, <2>2
  <2>. QED  BY <2>2, <2>3
<1>11. TargetsOK'
  <2>1. TargetsOK
    BY DEF IInv
  <2>. QED  BY <1>2, <1>4, <2>1, SameProgram DEF TargetsOK
<1>12. PhisFirst'
  <2>. SUFFICES ASSUME NEW x \in DOMAIN code, x # tail,
                       NEW m \in DOMAIN code'[x], NEW n \in DOMAIN code'[x], m < n,
                       n \in Phis(code[x])'
                PROVE  m \in Phis(code[x])'
    BY <1>2, <1>4 DEF PhisFirst
  <2>1. n \in Phis(code[x]) /\ n \in DOMAIN code[x]
    BY <1>6
  <2>2. code[x] \in Seq(DOMAIN inst)
    BY DEF IInv, PlacesOK
  <2>3. m \in Nat \ {0}
    <3>. PICK s : s = code[x]
      OBVIOUS
    <3>1. s \in Seq(DOMAIN inst) /\ Len(s) \in Nat
      BY <2>2
    <3>2. DOMAIN s = 1..Len(s) /\ DOMAIN Append(s, tv) = 1..(Len(s) + 1) /\ DOMAIN Append(s, ev) = 1..(Len(s) + 1)
      BY <3>1
    <3>3. DOMAIN code'[x] \in {1..Len(s), 1..(Len(s) + 1)}
      BY <1>5, <3>2
    <3>. QED  BY <3>1, <3>3
  <2>4. m \in DOMAIN code[x]
    <3>. PICK s : s = code[x]
      OBVIOUS
    <3>1. DOMAIN s = 1..Len(s) /\ Len(s) \in Nat /\ n \in DOMAIN s
      BY <2>1, <2>2
    <3>2. m \in DOMAIN s
      BY <2>3, <3>1
    <3>. QED  BY <3>2
  <2>5. m \in Phis(code[x])
    BY <1>2, <2>1, <2>4 DEF IInv, PhisFirst
  <2>. QED  BY <1>6, <2>4, <2>5
<1>13. PadsStay'
  <2>. SUFFICES ASSUME NEW x \in Blocks, NEW p \in DOMAIN prog.code[x],
                       prog.inst[prog.code[x][p]].kind = "pad"
                PROVE  \E n \in DOMAIN code'[x] : /\ code'[x][n] = prog.code[x][p]
                                                   /\ inst'[code'[x][n]].kind = "pad"
                                                   /\ \A m \in 1..(n - 1) : m \in Phis(code[x])'
    BY <1>2 DEF PadsStay
  <2>1. PICK n \in DOMAIN code[x] : /\ code[x][n] = prog.code[x][p]
                                     /\ inst[code[x][n]].kind = "pad"
                                     /\ \A m \in 1..(n - 1) : m \in Phis(code[x])
    BY DEF IInv, PadsStay
  <2>2. x \in DOMAIN code /\ x \notin {th, el, tail}
    <3>1. \A s : <<b, s, count>> \notin Blocks
      BY <1>2, NoTuple
    <3>. QED  BY <1>1, <3>1 DEF IInv, LayoutOK
  <2>3. code'[x] = code[x] /\ code[x] \in Seq(DOMAIN inst)
    BY <1>5, <2>2 DEF IInv, PlacesOK
  <2>4. inst'[code[x][n]].kind = "pad"
    BY <1>7, <2>1, <2>2 DEF KeptInst
  <2>5. \A m \in 1..(n - 1) : m \in DOMAIN code[x]
    BY <2>3
  <2>. QED  BY <1>6, <2>1, <2>2, <2>3, <2>4, <2>5
<1>14. CloneOK'
  <2>. PICK t : t = tail
    OBVIOUS
  <2>1. CloneOK
    BY DEF IInv
  <2>2. \A x \in DOMAIN code : term'[x].tgts = term[x].tgts
    BY DEF CloneOf, CloneTerms
  <2>3. Diamond(th, el, t)'
    <3>1. Diamond(th, el, t)
      BY <1>1, <1>2, <2>1 DEF CloneOK, Side
    <3>. QED  BY <1>4, <2>2, <3>1 DEF Diamond
  <2>4. code[tail] \in Seq(DOMAIN inst)
    BY <1>1 DEF IInv, PlacesOK
  <2>5. at' \in 1..(Len(code[tail]) + 1)
    <3>1. at \in 1..Len(code[tail]) /\ Len(code[tail]) \in Nat
      BY <1>1, <2>4
    <3>. QED  BY <1>2, <3>1
  <2>6. ASSUME NEW n \in DOMAIN code[tail]
        PROVE  IF n < at' THEN code'[t][n] \in ToRemove' \/ n \in Phis(code[t])'
               ELSE OldValue(code'[t][n]) /\ n \notin Phis(code[t])'
    <3>1. n \in Nat
      BY <2>4
    <3>2. IF n < at THEN code[tail][n] \in ToRemove \/ n \in Phis(code[tail])
          ELSE OldValue(code[tail][n]) /\ n \notin Phis(code[tail])
      BY <1>2, <2>1 DEF CloneOK, TailOK
    <3>3. CASE n = at
      <4>1. n < at'
        BY <1>1, <1>2, <3>3
      <4>2. w # v => at \in Phis(code[t])'
        <5>1. Phis(code[t])' = Phis(code[tail])'
          BY <1>2 DEF Phis
        <5>. QED  BY <1>1, <1>6, <5>1
      <4>3. code'[t][n] \in ToRemove' \/ n \in Phis(code[t])'
        BY <1>1, <1>3, <1>4, <3>3, <4>2
      <4>. QED  BY <4>1, <4>3
    <3>4. CASE n # at
      <4>1. n < at' <=> n < at
        BY <1>1, <1>2, <3>1, <3>4
      <4>2. code'[t][n] = code[t][n] /\ (n \in Phis(code[t])' <=> n \in Phis(code[t]))
        BY <1>1, <1>5, <1>6, <3>4
      <4>3. ToRemove \subseteq ToRemove'
        BY <1>3
      <4>. QED  BY <3>2, <4>1, <4>2, <4>3
    <3>. QED  BY <3>3, <3>4
  <2>7. ASSUME NEW u \in ToRemove'
        PROVE  \E n \in DOMAIN code[tail] : n < at' /\ code'[tail][n] = u
    <3>1. CASE u = v /\ w = v
      <4>1. at < at'
        BY <1>1, <1>2
      <4>. QED  BY <1>1, <1>4, <3>1, <4>1
    <3>2. CASE u \in ToRemove
      <4>1. PICK n \in DOMAIN code[tail] : n < at /\ code[tail][n] = u
        BY <1>2, <2>1, <3>2 DEF CloneOK, TailOK
      <4>2. n \in Nat
        BY <2>4
      <4>3. n # at /\ n < at'
        BY <1>1, <1>2, <4>1, <4>2
      <4>. QED  BY <1>5, <4>1, <4>3
    <3>. QED  BY <1>3, <3>1, <3>2
  <2>8. PICK s : s = code'[t]
    OBVIOUS
  <2>9. \A n \in DOMAIN s : IF n < at' THEN s[n] \in ToRemove' \/ n \in Phis(code[t])'
                            ELSE OldValue(s[n])' /\ n \notin Phis(code[t])'
    BY <1>5, <1>8, <2>6, <2>8
  <2>10. Phis(code[tail])' = Phis(code[t])'
    BY <1>2 DEF Phis
  <2>11. /\ code[tail]' = s /\ DOMAIN s = DOMAIN code[tail] /\ Len(s) = Len(code[tail])
         /\ Side(b, "then")' = th /\ Side(b, "else")' = el /\ Side(b, "tail")' = t
    BY <1>1, <1>2, <1>5, <2>8 DEF Side
  <2>12. \A u \in ToRemove' : \E n \in DOMAIN s : n < at' /\ s[n] = u
    BY <2>7, <2>8, <2>11
  <2>13. at' \in 1..(Len(s) + 1)
    BY <2>5, <2>11
  <2>14. TailOK'
    BY <1>2, <2>9, <2>10, <2>11, <2>12, <2>13 DEF TailOK
  <2>. QED  BY <1>1, <1>2, <2>3, <2>11, <2>14 DEF CloneOK, Diamond, Side
<1>15. \A x \in DOMAIN code : term'[x].tgts = term[x].tgts
  BY DEF CloneOf, CloneTerms
<1>16. EdgesMatch'
  <2>. SUFFICES ASSUME NEW x \in DOMAIN code, NEW n \in Phis(code[x])', NEW p \in DOMAIN code
                PROVE  Times(inst'[code'[x][n]].from, p) = Times(term'[p].tgts, x)
    BY <1>4 DEF EdgesMatch
  <2>1. CASE n \in Phis(code[x]) /\ n \in DOMAIN code[x] /\ code'[x][n] = code[x][n] /\ ~(x = tail /\ n = at)
    <3>1. inst'[code[x][n]].from = inst[code[x][n]].from
      BY <1>7, <2>1 DEF KeptInst
    <3>2. Times(inst[code[x][n]].from, p) = Times(term[p].tgts, x)
      BY <2>1 DEF IInv, EdgesMatch
    <3>. QED  BY <1>15, <2>1, <3>1, <3>2
  <2>2. CASE x = tail /\ n = at /\ w # v /\ code'[x][n] = w
    <3>1. inst'[w].from = <<th, el>>
      BY <2>2 DEF CloneOf, CloneInsts
    <3>2. CloneOK
      BY DEF IInv
    <3>3. /\ term[th].tgts = <<tail>> /\ term[el].tgts = <<tail>>
          /\ \A y \in DOMAIN code \ {th, el} : \A k \in DOMAIN term[y].tgts : term[y].tgts[k] # tail
      BY <1>1, <1>2, <3>2 DEF CloneOK, Diamond, Side
    <3>4. CASE p \in {th, el}
      <4>1. {k \in DOMAIN <<th, el>> : <<th, el>>[k] = p} = {IF p = th THEN 1 ELSE 2}
        BY <1>1, <3>4
      <4>2. {k \in DOMAIN <<tail>> : <<tail>>[k] = tail} = {1}
        OBVIOUS
      <4>3. Times(<<th, el>>, p) = 1
        BY <4>1, FS_Singleton DEF Times
      <4>4. Times(<<tail>>, tail) = 1
        BY <4>2, FS_Singleton DEF Times
      <4>5. term'[p].tgts = <<tail>>
        BY <1>15, <3>3, <3>4
      <4>. QED  BY <2>2, <3>1, <4>3, <4>4, <4>5
    <3>5. CASE p \notin {th, el}
      <4>1. {k \in DOMAIN <<th, el>> : <<th, el>>[k] = p} = {}
        BY <3>5
      <4>2. PICK s : s = term[p].tgts
        OBVIOUS
      <4>3. {k \in DOMAIN s : s[k] = tail} = {}
        BY <3>3, <3>5, <4>2
      <4>4. Times(<<th, el>>, p) = Times(s, tail)
        BY <4>1, <4>3 DEF Times
      <4>. QED  BY <1>15, <2>2, <3>1, <4>2, <4>4
    <3>. QED  BY <3>4, <3>5
  <2>. QED  BY <1>6, <2>1, <2>2
<1>17. ASSUME NEW o, StandsFor(v, o) PROVE StandsFor(<<v, "phi">>, o)
  <2>1. PICK x : x = <<v, "phi">>
    OBVIOUS
  <2>2. Pair(x) /\ x[1] = v
    BY <2>1 DEF Pair
  <2>3. CASE Pair(v) /\ Pair(v[1]) /\ v[1][1] = o
    <3>1. \A y, z : ~Source(<<y, z>>)
      BY <1>2, NoTuple
    <3>2. ~Source(v)
      BY <2>3, <3>1 DEF Pair
    <3>3. ~Stamped(v, count)
      <4>1. 3 \in 1..3 /\ 3 \notin 1..2
        OBVIOUS
      <4>. QED  BY <2>3, <4>1 DEF Pair, Stamped
    <3>. QED  BY <1>1, <2>3, <3>2, <3>3, OldShape
  <2>. QED  BY <1>17, <2>1, <2>2, <2>3 DEF StandsFor
<1>18. PhisOriginal'
  <2>. SUFFICES ASSUME NEW x \in Blocks, NEW n \in Phis(code[x])'
                PROVE  /\ n \in DOMAIN prog.code[x] /\ code'[x][n] = prog.code[x][n]
                       /\ KeepsPhi(inst'[code'[x][n]], prog.inst[prog.code[x][n]])
    BY <1>2 DEF PhisOriginal
  <2>1. x \in DOMAIN code /\ x # tail
    <3>1. \A s : <<b, s, count>> \notin Blocks
      BY <1>2, NoTuple
    <3>. QED  BY <1>1, <3>1 DEF IInv, LayoutOK
  <2>2. PICK u : u = code[x][n]
    OBVIOUS
  <2>3. n \in Phis(code[x]) /\ n \in DOMAIN code[x] /\ code'[x][n] = u /\ KeptInst(inst'[u], inst[u], v)
    BY <1>6, <1>7, <2>1, <2>2
  <2>4. PICK o : o = prog.inst[prog.code[x][n]]
    OBVIOUS
  <2>5. n \in DOMAIN prog.code[x] /\ u = prog.code[x][n] /\ KeepsPhi(inst[u], o)
    BY <2>2, <2>3, <2>4 DEF IInv, PhisOriginal
  <2>6. \A k \in DOMAIN o.opnds : StandsFor(inst'[u].opnds[k], o.opnds[k])
    BY <1>17, <2>3, <2>5, Zenon DEF KeptInst, KeepsPhi
  <2>7. KeepsPhi(inst'[u], o)
    BY <2>3, <2>5, <2>6, Zenon DEF KeptInst, KeepsPhi
  <2>. QED  BY <2>3, <2>4, <2>5, <2>7
<1>. QED  BY <1>10, <1>11, <1>12, <1>13, <1>14, <1>16, <1>18

LEMMA CloneStep ==
  ASSUME Opaque, IInv, CloneVoid \/ CloneValue
  PROVE  IInv'
<1>1. PICK b, v, w, th, el, tv, ev : CloneOf(b, v, w, th, el, tv, ev)
  BY VoidDoes, ValueDoes
<1>2. Counters' /\ LayoutOK' /\ TermsOK' /\ PlacesOK' /\ InstsOK' /\ Fresh'
  BY <1>1, CloneStructure
<1>3. PendingOld' /\ TargetsOK' /\ CloneOK' /\ PhisFirst' /\ PadsStay' /\ EdgesMatch' /\ PhisOriginal'
  BY <1>1, CloneRest
<1>. QED  BY <1>2, <1>3 DEF IInv
-----------------------------------------------------------------------------
(***************************************************************************)
(* The end of cloneBB: the instructions in ToRemove leave tail t, which    *)
(* has PHIs only then, and the function.                                   *)
(***************************************************************************)
IsPurged(r, c) ==
  /\ r \in Seq(DOMAIN inst)
  /\ \A k \in DOMAIN r : \E n \in DOMAIN c : c[n] \notin ToRemove /\ r[k] = c[n]
  /\ \A n \in DOMAIN c : c[n] \notin ToRemove => \E k \in DOMAIN r : r[k] = c[n]
  /\ \A j, k \in DOMAIN r : r[j] = r[k] => j = k

LEMMA PurgeIs ==
  ASSUME NEW c \in Seq(DOMAIN inst), \A m, n \in DOMAIN c : c[m] = c[n] => m = n
  PROVE  IsPurged(Purge(c), c)
<1>1. PICK S : S = {n \in DOMAIN c : c[n] \notin ToRemove}
  OBVIOUS
<1>2. PICK N \in Nat : N = Len(c)
  OBVIOUS
<1>3. S \in SUBSET (1..N) /\ DOMAIN c = 1..N
  BY <1>1, <1>2
<1>4. PICK A : A = Ascending(S)
  OBVIOUS
<1>5. /\ Len(A) \in Nat /\ DOMAIN A = 1..Len(A)
      /\ \A k \in 1..Len(A) : A[k] \in S
      /\ \A n \in S : \E k \in 1..Len(A) : A[k] = n
      /\ \A j, k \in 1..Len(A) : A[j] = A[k] => j = k
  <2>1. /\ Ascending(S) \in Seq(S) /\ Len(Ascending(S)) \in Nat
        /\ DOMAIN Ascending(S) = 1..Len(Ascending(S))
        /\ \A k \in 1..Len(Ascending(S)) : Ascending(S)[k] \in S
        /\ \A n \in S : \E k \in 1..Len(Ascending(S)) : Ascending(S)[k] = n
        /\ \A j, k \in 1..Len(Ascending(S)) : Ascending(S)[j] = Ascending(S)[k] => j = k
    BY <1>3, AscendingLists
  <2>. QED  BY <1>4, <2>1, Zenon
<1>6. PICK r : r = [k \in DOMAIN A |-> c[A[k]]]
  OBVIOUS
<1>7. Purge(c) = r
  BY <1>1, <1>4, <1>6 DEF Purge
<1>8. DOMAIN r = 1..Len(A) /\ \A k \in 1..Len(A) : r[k] = c[A[k]] /\ A[k] \in DOMAIN c /\ c[A[k]] \notin ToRemove
  BY <1>1, <1>5, <1>6
<1>9. r \in Seq(DOMAIN inst)
  <2>1. \A k \in 1..Len(A) : c[A[k]] \in DOMAIN inst
    BY <1>8
  <2>2. r \in [1..Len(A) -> DOMAIN inst]
    BY <1>5, <1>6, <2>1
  <2>. QED  BY <1>5, <2>2
<1>10. \A n \in DOMAIN c : c[n] \notin ToRemove => \E k \in DOMAIN r : r[k] = c[n]
  BY <1>1, <1>5, <1>8
<1>11. \A j, k \in DOMAIN r : r[j] = r[k] => j = k
  BY <1>5, <1>8
<1>. QED  BY <1>7, <1>8, <1>9, <1>10, <1>11 DEF IsPurged

EndOf(t) ==
  /\ pc = "clone" /\ pc' = "target" /\ count' = count + 1 /\ next' = next + 1 /\ t = tail
  /\ UNCHANGED <<prog, layout, Targets, tail, ToRemove, run>>
  /\ t \in DOMAIN code /\ DOMAIN code' = DOMAIN code
  /\ \A x \in DOMAIN code : x # t => code'[x] = code[x]
  /\ IsPurged(code'[t], code[t])
  /\ \A n \in DOMAIN code[t] : code[t][n] \notin ToRemove => n \in Phis(code[t])
  /\ DOMAIN inst' = DOMAIN inst \ ToRemove
  /\ \A v \in DOMAIN inst' : inst'[v] = inst[v]
  /\ DOMAIN term' = DOMAIN code
  /\ \A x \in DOMAIN code : IsTerm(term'[x]) /\ term'[x].tgts = term[x].tgts

LEMMA EndDoes ==
  ASSUME IInv, EndClone
  PROVE  \E t : EndOf(t)
<1>1. /\ pc = "clone" /\ pc' = "target" /\ count' = count + 1 /\ next' = next + 1
      /\ UNCHANGED <<prog, layout, Targets, tail, ToRemove, run>>
      /\ tail \in DOMAIN code /\ at > Len(code[tail])
  BY DEF EndClone, cloning, IInv, Counters
<1>2. PICK t : t = tail
  OBVIOUS
<1>3. PICK c : c = code[t]
  OBVIOUS
<1>4. c \in Seq(DOMAIN inst) /\ \A m, n \in DOMAIN c : c[m] = c[n] => m = n
  <2>1. c \in Seq(DOMAIN inst)
    BY <1>1, <1>2, <1>3 DEF IInv, PlacesOK
  <2>2. ASSUME NEW m \in DOMAIN c, NEW n \in DOMAIN c, c[m] = c[n] PROVE m = n
    <3>1. PICK u : u = c[m]
      OBVIOUS
    <3>2. At(u, t, m) /\ At(u, t, n)
      BY <1>1, <1>2, <1>3, <2>2, <3>1 DEF At
    <3>. QED  BY <3>2, OnePlace
  <2>. QED  BY <2>1, <2>2
<1>5. PICK r : r = Purge(c)
  OBVIOUS
<1>6. IsPurged(r, c)
  BY <1>4, <1>5, PurgeIs
<1>7. code' = [code EXCEPT ![t] = r]
  BY <1>2, <1>3, <1>5 DEF EndClone
<1>8. DOMAIN code' = DOMAIN code /\ code'[t] = r /\ \A x \in DOMAIN code : x # t => code'[x] = code[x]
  BY <1>1, <1>2, <1>7
<1>9. TailOK
  BY <1>1 DEF IInv, CloneOK
<1>10. \A n \in DOMAIN code[t] : code[t][n] \notin ToRemove => n \in Phis(code[t])
  <2>1. \A n \in DOMAIN code[t] : n < at
    BY <1>1, <1>2, <1>3, <1>4, <1>9 DEF TailOK
  <2>. QED  BY <1>2, <1>9, <2>1 DEF TailOK
<1>11. DOMAIN inst' = DOMAIN inst \ ToRemove /\ \A v \in DOMAIN inst' : inst'[v] = inst[v]
  <2>1. PICK P : P = UNION {Range(code'[x]) : x \in DOMAIN code'}
    OBVIOUS
  <2>2. inst' = [v \in P |-> inst[v]]
    BY <2>1 DEF EndClone
  <2>3. \A v : v \in P <=> \E x \in DOMAIN code : \E n \in DOMAIN code'[x] : code'[x][n] = v
    BY <1>8, <2>1 DEF Range
  <2>4. ASSUME NEW v \in P PROVE v \in DOMAIN inst /\ v \notin ToRemove
    <3>1. PICK x \in DOMAIN code : \E n \in DOMAIN code'[x] : code'[x][n] = v
      BY <2>3
    <3>2. PICK n \in DOMAIN code'[x] : code'[x][n] = v
      BY <3>1
    <3>3. CASE x = t
      <4>1. v \notin ToRemove
        BY <1>6, <1>8, <3>2, <3>3 DEF IsPurged
      <4>2. v \in DOMAIN inst
        BY <1>6, <1>8, <3>2, <3>3 DEF IsPurged
      <4>. QED  BY <4>1, <4>2
    <3>4. CASE x # t
      <4>1. n \in DOMAIN code[x] /\ code[x][n] = v
        BY <1>8, <3>2, <3>4
      <4>2. v \in DOMAIN inst
        BY <4>1 DEF IInv, PlacesOK
      <4>3. ASSUME v \in ToRemove PROVE FALSE
        <5>1. PICK m \in DOMAIN code[tail] : code[tail][m] = v
          BY <1>9, <4>3 DEF TailOK
        <5>2. At(v, x, n) /\ At(v, t, m)
          BY <1>1, <1>2, <4>1, <5>1 DEF At
        <5>3. x = t
          BY <5>2, OnePlace
        <5>. QED  BY <3>4, <5>3
      <4>. QED  BY <4>2, <4>3
    <3>. QED  BY <3>3, <3>4
  <2>5. ASSUME NEW v \in DOMAIN inst \ ToRemove PROVE v \in P
    <3>1. PICK x \in DOMAIN code : \E n \in DOMAIN code[x] : code[x][n] = v
      BY DEF IInv, PlacesOK
    <3>2. PICK n \in DOMAIN code[x] : code[x][n] = v
      BY <3>1
    <3>3. \E k \in DOMAIN code'[x] : code'[x][k] = v
      <4>1. CASE x = t
        BY <1>3, <1>6, <1>8, <3>2, <4>1 DEF IsPurged
      <4>2. CASE x # t
        BY <1>8, <3>2, <4>2
      <4>. QED  BY <4>1, <4>2
    <3>. QED  BY <2>3, <3>3
  <2>. QED  BY <2>2, <2>4, <2>5
<1>12. DOMAIN term' = DOMAIN code /\ \A x \in DOMAIN code : IsTerm(term'[x]) /\ term'[x].tgts = term[x].tgts
  <2>1. PICK o : o = term[t]
    OBVIOUS
  <2>2. PICK m : m = VMap["tail"]
    OBVIOUS
  <2>3. DOMAIN term = DOMAIN code /\ \A x \in DOMAIN code : IsTerm(term[x])
    BY DEF IInv, TermsOK
  <2>4. PICK q : q = [kind |-> o.kind, opnds |-> Remap(o.opnds, m), tgts |-> o.tgts]
    OBVIOUS
  <2>5. [o EXCEPT !.opnds = Remap(@, m)] = q
    <3>1. IsTerm(o)
      BY <1>1, <1>2, <2>1, <2>3
    <3>. QED  BY <2>4, <3>1 DEF IsTerm
  <2>6. term' = [term EXCEPT ![t] = [o EXCEPT !.opnds = Remap(@, m)]]
    BY <1>2, <2>1, <2>2 DEF EndClone
  <2>7. IsTerm(q) /\ q.tgts = o.tgts
    BY <2>4 DEF IsTerm
  <2>. QED  BY <1>1, <1>2, <2>1, <2>3, <2>5, <2>6, <2>7
<1>13. EndOf(t)
  BY <1>1, <1>2, <1>3, <1>6, <1>8, <1>10, <1>11, <1>12 DEF EndOf
<1>. QED  BY <1>13

LEMMA EndStep ==
  ASSUME Opaque, IInv, EndClone
  PROVE  IInv'
<1>1. PICK t : EndOf(t)
  BY EndDoes
<1>2. /\ pc = "clone" /\ pc' = "target" /\ count' = count + 1 /\ next' = next + 1 /\ t = tail
      /\ UNCHANGED <<prog, layout, Targets, tail, ToRemove, run>>
      /\ prog \in Programs /\ count \in Nat /\ run \in {1, 2} /\ next \in Nat \ {0}
  BY <1>1 DEF EndOf, IInv, Counters
<1>3. /\ t \in DOMAIN code /\ DOMAIN code' = DOMAIN code
      /\ \A x \in DOMAIN code : x # t => code'[x] = code[x]
      /\ DOMAIN inst' = DOMAIN inst \ ToRemove
      /\ \A v \in DOMAIN inst' : inst'[v] = inst[v]
  BY <1>1 DEF EndOf
<1>4. /\ code'[t] \in Seq(DOMAIN inst)
      /\ \A k \in DOMAIN code'[t] : \E n \in DOMAIN code[t] :
           code[t][n] \notin ToRemove /\ code'[t][k] = code[t][n]
      /\ \A n \in DOMAIN code[t] : code[t][n] \notin ToRemove =>
           n \in Phis(code[t]) /\ \E k \in DOMAIN code'[t] : code'[t][k] = code[t][n]
      /\ \A j, k \in DOMAIN code'[t] : code'[t][j] = code'[t][k] => j = k
  BY <1>1 DEF EndOf, IsPurged
<1>5. /\ DOMAIN term' = DOMAIN code
      /\ \A x \in DOMAIN code : IsTerm(term'[x]) /\ term'[x].tgts = term[x].tgts
  BY <1>1 DEF EndOf
<1>6. Stamp = count + 1 /\ Stamp' = count + 1
  BY <1>2 DEF Stamp
<1>7. \A x, c : Stamped(x, c) => Stamped(x, c + 1) \/ c \notin Nat
  BY DEF Stamped
<1>8. \A v : OldValue(v) => OldValue(v)'
  BY <1>2, <1>7 DEF OldValue, RunOne, Source
<1>9. \A x : OldBlock(x) => OldBlock(x)'
  BY <1>2, <1>7 DEF OldBlock, Part
<1>10. /\ next \in DOMAIN Targets /\ t = <<Targets[next].block, "tail", count>>
       /\ \A v \in ToRemove : \E n \in DOMAIN code[t] : code[t][n] = v
  <2>1. CloneOK /\ TailOK
    BY <1>2 DEF IInv, CloneOK
  <2>. QED  BY <1>2, <2>1 DEF CloneOK, TailOK, Side
<1>11. ~OldBlock(t) /\ t \notin Blocks
  <2>1. t \notin Blocks
    <3>1. \A x, y, z : <<x, y, z>> \notin Blocks
      BY <1>2, NoTuple
    <3>. QED  BY <1>10, <3>1
  <2>2. ~Stamped(t, count)
    BY <1>2, <1>10 DEF Stamped
  <2>. QED  BY <2>1, <2>2 DEF OldBlock, Part
<1>12. \A x \in DOMAIN code : \A n \in DOMAIN code'[x] :
         /\ code'[x][n] \in DOMAIN inst' /\ code'[x][n] \in DOMAIN inst /\ inst'[code'[x][n]] = inst[code'[x][n]]
         /\ \E m \in DOMAIN code[x] : code[x][m] = code'[x][n]
  <2>. SUFFICES ASSUME NEW x \in DOMAIN code, NEW n \in DOMAIN code'[x]
                PROVE  /\ code'[x][n] \in DOMAIN inst \ ToRemove
                       /\ \E m \in DOMAIN code[x] : code[x][m] = code'[x][n]
    BY <1>3
  <2>1. CASE x = t
    BY <1>4, <2>1
  <2>2. CASE x # t
    <3>1. n \in DOMAIN code[x] /\ code'[x][n] = code[x][n] /\ code[x][n] \in DOMAIN inst
      BY <1>3, <2>2 DEF IInv, PlacesOK
    <3>2. ASSUME code[x][n] \in ToRemove PROVE FALSE
      <4>1. PICK m \in DOMAIN code[t] : code[t][m] = code[x][n]
        BY <1>10, <3>2
      <4>2. At(code[x][n], x, n) /\ At(code[x][n], t, m)
        BY <1>3, <3>1, <4>1 DEF At
      <4>3. x = t
        BY <4>2, OnePlace
      <4>. QED  BY <2>2, <4>3
    <3>. QED  BY <3>1, <3>2
  <2>. QED  BY <2>1, <2>2
<1>13. \A x \in DOMAIN code : x # t => \A n \in DOMAIN code[x] : n \in Phis(code[x])' <=> n \in Phis(code[x])
  BY <1>3, <1>12 DEF Phis
<1>14. Counters'
  <2>1. \A v : Original(Origin(v))' = Original(Origin(v))
    <3>1. \A v : Original(v)' = Original(v) /\ Origin(v)' = Origin(v)
      BY <1>2, SameProgram
    <3>. QED  BY <1>2, <3>1 DEF Original
  <2>. QED  BY <1>2, <1>3, <2>1 DEF IInv, Counters
<1>15. LayoutOK'
  <2>1. \A x : BlockName(x)' = BlockName(x)
    BY <1>2, <1>6 DEF BlockName
  <2>. QED  BY <1>2, <1>3, <2>1 DEF IInv, LayoutOK
<1>16. TermsOK'
  BY <1>3, <1>5 DEF IInv, TermsOK
<1>17. PlacesOK'
  <2>1. ASSUME NEW x \in DOMAIN code PROVE code'[x] \in Seq(DOMAIN inst')
    <3>1. PICK s : s = code'[x]
      OBVIOUS
    <3>2. s \in Seq(DOMAIN inst)
      BY <1>3, <1>4, <3>1 DEF IInv, PlacesOK
    <3>3. \A n \in DOMAIN s : s[n] \in DOMAIN inst'
      BY <1>12, <3>1
    <3>4. s \in Seq(DOMAIN inst')
      BY <3>2, <3>3
    <3>. QED  BY <3>1, <3>4
  <2>2. ASSUME NEW u \in DOMAIN inst'
        PROVE  \E x \in DOMAIN code' : \E n \in DOMAIN code'[x] : code'[x][n] = u
    <3>1. PICK x \in DOMAIN code : \E n \in DOMAIN code[x] : code[x][n] = u
      BY <1>3 DEF IInv, PlacesOK
    <3>2. PICK n \in DOMAIN code[x] : code[x][n] = u
      BY <3>1
    <3>3. \E k \in DOMAIN code'[x] : code'[x][k] = u
      BY <1>3, <1>4, <3>2
    <3>. QED  BY <1>3, <3>3
  <2>3. ASSUME NEW x \in DOMAIN code, NEW y \in DOMAIN code,
               NEW m \in DOMAIN code'[x], NEW n \in DOMAIN code'[y], code'[x][m] = code'[y][n]
        PROVE  x = y /\ m = n
    <3>. PICK u : u = code'[x][m]
      OBVIOUS
    <3>1. PICK i \in DOMAIN code[x] : code[x][i] = u
      BY <1>12
    <3>2. PICK j \in DOMAIN code[y] : code[y][j] = u
      BY <1>12, <2>3
    <3>3. At(u, x, i) /\ At(u, y, j)
      BY <3>1, <3>2 DEF At
    <3>4. x = y /\ i = j
      BY <3>3, OnePlace
    <3>5. CASE x = t
      BY <1>4, <2>3, <3>4, <3>5
    <3>6. CASE x # t
      <4>1. At(u, x, m) /\ At(u, x, n)
        BY <1>3, <2>3, <3>4, <3>6 DEF At
      <4>2. m = n
        BY <4>1, OnePlace
      <4>. QED  BY <3>4, <4>2
    <3>. QED  BY <3>5, <3>6
  <2>. QED  BY <1>3, <2>1, <2>2, <2>3 DEF PlacesOK
<1>18. InstsOK'
  <2>1. \A x : ValueName(x)' = ValueName(x)
    BY <1>2, <1>6 DEF ValueName, RunOne, RunTwo, Source
  <2>2. \A x : IsCompare(x)' = IsCompare(x)
    BY <1>2, SameProgram
  <2>. QED  BY <1>3, <2>1, <2>2 DEF IInv, InstsOK
<1>19. Fresh'
  <2>1. Removing = ToRemove /\ Removing' = {}
    BY <1>2 DEF Removing
  <2>. QED  BY <1>3, <2>1 DEF IInv, Fresh, Clone
<1>20. PendingOld'
  <2>1. ASSUME NEW d \in Pending'
        PROVE  /\ d \in DOMAIN code /\ OldBlock(d)' /\ code'[d] = code[d]
               /\ \A n \in DOMAIN code[d] : OldValue(code[d][n])
    <3>1. PICK m \in DOMAIN Targets : m >= next + 1 /\ d = Targets[m].block
      BY <1>2 DEF Pending
    <3>2. m \in Nat
      BY DEF IInv, TargetsOK, IsSeq
    <3>3. m >= next /\ m > next
      BY <1>2, <3>1, <3>2
    <3>4. d \in Pending /\ d \in DOMAIN code
      BY <1>2, <3>1, <3>3 DEF Pending, IInv, TargetsOK
    <3>5. OldBlock(d) /\ \A n \in DOMAIN code[d] : OldValue(code[d][n])
      BY <3>4 DEF IInv, PendingOld
    <3>. QED  BY <1>3, <1>9, <1>11, <3>4, <3>5
  <2>2. \A d \in Pending' : \A n \in DOMAIN code'[d] : OldValue(code'[d][n])
    BY <2>1
  <2>3. \A d \in Pending' : \A n \in DOMAIN code'[d] : OldValue(code[d][n])'
    BY <1>2, <1>7, <2>2 DEF OldValue, RunOne, Source
  <2>. QED  BY <2>1, <2>3 DEF PendingOld
<1>21. TargetsOK'
  <2>1. TargetsOK
    BY DEF IInv
  <2>. QED  BY <1>2, <1>3, <2>1, SameProgram DEF TargetsOK
<1>22. CloneOK'
  BY <1>2 DEF CloneOK
<1>23. PhisFirst'
  <2>. SUFFICES ASSUME NEW x \in DOMAIN code, NEW m \in DOMAIN code'[x], NEW n \in DOMAIN code'[x], m < n,
                       n \in Phis(code[x])'
                PROVE  m \in Phis(code[x])'
    BY <1>3 DEF PhisFirst
  <2>1. CASE x = t
    <3>1. PICK j \in DOMAIN code[t] : code[t][j] \notin ToRemove /\ code'[t][m] = code[t][j]
      BY <1>4, <2>1
    <3>2. inst[code[t][j]].kind = "phi"
      BY <1>4, <3>1 DEF Phis
    <3>3. inst'[code'[t][m]].kind = "phi"
      BY <1>3, <1>12, <2>1, <3>1, <3>2
    <3>. QED  BY <2>1, <3>3 DEF Phis
  <2>2. CASE x # t
    <3>1. code'[x] = code[x]
      BY <1>3, <2>2
    <3>2. m \in Phis(code[x])
      BY <1>2, <1>13, <2>2, <3>1 DEF IInv, PhisFirst
    <3>. QED  BY <1>13, <2>2, <3>1, <3>2
  <2>. QED  BY <2>1, <2>2
<1>24. PadsStay'
  <2>. SUFFICES ASSUME NEW x \in Blocks, NEW p \in DOMAIN prog.code[x],
                       prog.inst[prog.code[x][p]].kind = "pad"
                PROVE  \E n \in DOMAIN code'[x] : /\ code'[x][n] = prog.code[x][p]
                                                   /\ inst'[code'[x][n]].kind = "pad"
                                                   /\ \A m \in 1..(n - 1) : m \in Phis(code[x])'
    BY <1>2 DEF PadsStay
  <2>1. PICK n \in DOMAIN code[x] : /\ code[x][n] = prog.code[x][p]
                                     /\ inst[code[x][n]].kind = "pad"
                                     /\ \A m \in 1..(n - 1) : m \in Phis(code[x])
    BY DEF IInv, PadsStay
  <2>2. x \in DOMAIN code /\ x # t
    BY <1>11 DEF IInv, LayoutOK
  <2>3. code'[x] = code[x] /\ code[x] \in Seq(DOMAIN inst)
    BY <1>3, <2>2 DEF IInv, PlacesOK
  <2>4. inst'[code[x][n]].kind = "pad"
    BY <1>12, <2>1, <2>2, <2>3
  <2>5. \A m \in 1..(n - 1) : m \in DOMAIN code[x]
    BY <2>3
  <2>. QED  BY <1>13, <2>1, <2>2, <2>3, <2>4, <2>5
<1>25. \A x \in DOMAIN code : \A n \in Phis(code[x])' : \E m \in Phis(code[x]) :
         code[x][m] = code'[x][n] /\ inst'[code'[x][n]] = inst[code'[x][n]]
  <2>. SUFFICES ASSUME NEW x \in DOMAIN code, NEW n \in Phis(code[x])'
                PROVE  \E m \in Phis(code[x]) : code[x][m] = code'[x][n] /\ inst'[code'[x][n]] = inst[code'[x][n]]
    OBVIOUS
  <2>1. n \in DOMAIN code'[x] /\ inst'[code'[x][n]].kind = "phi"
    BY DEF Phis
  <2>2. PICK m \in DOMAIN code[x] : code[x][m] = code'[x][n]
    BY <1>12, <2>1
  <2>3. inst'[code'[x][n]] = inst[code'[x][n]]
    BY <1>12, <2>1
  <2>4. m \in Phis(code[x])
    BY <2>1, <2>2, <2>3 DEF Phis
  <2>. QED  BY <2>2, <2>3, <2>4
<1>26. EdgesMatch'
  <2>. SUFFICES ASSUME NEW x \in DOMAIN code, NEW n \in Phis(code[x])', NEW p \in DOMAIN code
                PROVE  Times(inst'[code'[x][n]].from, p) = Times(term'[p].tgts, x)
    BY <1>3 DEF EdgesMatch
  <2>1. PICK m \in Phis(code[x]) : code[x][m] = code'[x][n] /\ inst'[code'[x][n]] = inst[code'[x][n]]
    BY <1>25
  <2>2. Times(inst[code[x][m]].from, p) = Times(term[p].tgts, x)
    BY DEF IInv, EdgesMatch
  <2>. QED  BY <1>5, <2>1, <2>2
<1>27. PhisOriginal'
  <2>. SUFFICES ASSUME NEW x \in Blocks, NEW n \in Phis(code[x])'
                PROVE  /\ n \in DOMAIN prog.code[x] /\ code'[x][n] = prog.code[x][n]
                       /\ KeepsPhi(inst'[code'[x][n]], prog.inst[prog.code[x][n]])
    BY <1>2 DEF PhisOriginal
  <2>1. x \in DOMAIN code /\ x # t
    BY <1>11 DEF IInv, LayoutOK
  <2>2. code'[x] = code[x] /\ n \in DOMAIN code[x]
    BY <1>3, <2>1 DEF Phis
  <2>3. n \in Phis(code[x]) /\ inst'[code[x][n]] = inst[code[x][n]]
    BY <1>12, <1>13, <2>1, <2>2
  <2>. QED  BY <2>2, <2>3 DEF IInv, PhisOriginal
<1>. QED  BY <1>14, <1>15, <1>16, <1>17, <1>18, <1>19, <1>20, <1>21, <1>22, <1>23, <1>24, <1>26, <1>27 DEF IInv
-----------------------------------------------------------------------------

LEMMA IInvStep ==
  ASSUME Opaque, IInv, [Next]_vars
  PROVE  IInv'
<1>1. CASE Next
  BY <1>1, FindStep, SplitStep, CloneStep, EndStep, LeaveStep DEF Next
<1>2. CASE UNCHANGED vars
  <2>1. UNCHANGED <<prog, code, inst, term, layout, pc, next, Targets, tail, at, ToRemove, count, run>>
    BY <1>2 DEF vars, function, cloning
  <2>2. \A c : Phis(c)' = Phis(c)
    BY <2>1 DEF Phis
  <2>3. Counters' /\ LayoutOK' /\ TermsOK' /\ PlacesOK' /\ InstsOK' /\ Fresh'
    <3>1. Stamp' = Stamp /\ Removing' = Removing
      BY <2>1 DEF Stamp, Removing
    <3>2. \A x : BlockName(x)' = BlockName(x) /\ ValueName(x)' = ValueName(x)
      BY <2>1, <3>1 DEF BlockName, ValueName, RunOne, RunTwo, Source
    <3>3. \A x : Original(x)' = Original(x) /\ Origin(x)' = Origin(x) /\ IsCompare(x)' = IsCompare(x)
      BY <2>1, SameProgram
    <3>4. \A x : Original(Origin(x))' = Original(Origin(x))
      BY <2>1, <3>3 DEF Original
    <3>5. Counters'
      BY <2>1, <3>4 DEF IInv, Counters
    <3>6. LayoutOK' /\ TermsOK'
      BY <2>1, <3>2 DEF IInv, LayoutOK, TermsOK
    <3>7. PlacesOK' /\ InstsOK'
      BY <2>1, <3>2, <3>3 DEF IInv, PlacesOK, InstsOK
    <3>8. Fresh'
      BY <2>1, <3>1 DEF IInv, Fresh, Clone
    <3>. QED  BY <3>5, <3>6, <3>7, <3>8
  <2>4. PendingOld'
    <3>1. Pending' = Pending
      BY <2>1 DEF Pending
    <3>. QED  BY <2>1, <3>1 DEF IInv, PendingOld, OldBlock, OldValue, Part, RunOne, Source
  <2>5. TargetsOK'
    BY <2>1, SameProgram DEF IInv, TargetsOK
  <2>6. CloneOK'
    <3>1. CloneOK
      BY DEF IInv
    <3>2. \A x : OldValue(x)' = OldValue(x)
      BY <2>1 DEF OldValue, RunOne, Source
    <3>3. TailOK => TailOK'
      BY <2>1, <3>2 DEF TailOK, Phis
    <3>. QED  BY <2>1, <3>1, <3>3 DEF CloneOK, Diamond, Side
  <2>7. PhisFirst' /\ PadsStay'
    BY <2>1, <2>2 DEF IInv, PhisFirst, PadsStay
  <2>8. EdgesMatch' /\ PhisOriginal'
    BY <2>1, <2>2 DEF IInv, EdgesMatch, PhisOriginal
  <2>. QED  BY <2>3, <2>4, <2>5, <2>6, <2>7, <2>8 DEF IInv
<1>. QED  BY <1>1, <1>2

LEMMA IInvAlways == Opaque => (Spec => []IInv)
<1>. SUFFICES ASSUME Opaque PROVE Spec => []IInv
  OBVIOUS
<1>1. Init => IInv
  BY InitIInv
<1>2. IInv /\ [Next]_vars => IInv'
  BY IInvStep
<1>. QED  BY <1>1, <1>2, PTL DEF Spec
-----------------------------------------------------------------------------
\* The layout has as many entries as there are blocks.
LEMMA LayoutLength ==
  ASSUME IInv
  PROVE  Len(layout) = Cardinality(DOMAIN code) /\ Range(layout) = DOMAIN code
<1>1. PICK s : s = layout
  OBVIOUS
<1>2. PICK S : S = DOMAIN code
  OBVIOUS
<1>3. /\ s \in Seq(S)
      /\ \A b \in S : \E m \in DOMAIN s : s[m] = b
      /\ \A m, n \in DOMAIN s : s[m] = s[n] => m = n
  BY <1>1, <1>2 DEF IInv, LayoutOK
<1>4. PICK N \in Nat : N = Len(s)
  BY <1>3
<1>5. s \in [1..N -> S] /\ DOMAIN s = 1..N
  BY <1>3, <1>4
<1>6. s \in Bijection(1..N, S)
  <2>1. s \in Injection(1..N, S)
    BY <1>3, <1>5, Fun_IsInj
  <2>2. s \in Surjection(1..N, S)
    BY <1>3, <1>5, Fun_IsSurj
  <2>. QED  BY <2>1, <2>2, Fun_IsBij
<1>7. IsFiniteSet(1..N) /\ Cardinality(1..N) = N
  BY FS_Interval
<1>8. Cardinality(1..N) = Cardinality(S)
  BY <1>6, <1>7, FS_Bijection DEF ExistsBijection
<1>9. Range(s) = S
  BY <1>3, <1>5 DEF Range
<1>. QED  BY <1>1, <1>2, <1>4, <1>7, <1>8, <1>9

\* What the pass declares stays what it is declared to be: no block is to be
\* duplicated over a global value, the blocks are those of the layout, and an
\* instruction that exists is in a block.
THEOREM TypeCorrect == Opaque => (Spec => []TypeOK)
<1>. SUFFICES ASSUME Opaque PROVE Spec => []TypeOK
  OBVIOUS
<1>1. IInv => TypeOK
  <2>. SUFFICES ASSUME IInv PROVE TypeOK
    OBVIOUS
  <2>1. /\ pc \in {"find", "target", "clone", "done"} /\ tail \in DOMAIN code
        /\ \A v \in ToRemove : Original(Origin(v))
    BY DEF IInv, Counters
  <2>2. \A k \in DOMAIN Targets : /\ Targets[k].block \in DOMAIN code
                                   /\ IsInteger(Targets[k].ctx) /\ Targets[k].ctx \notin Globals
    BY DEF IInv, TargetsOK
  <2>3. DOMAIN term = DOMAIN code
    BY DEF IInv, TermsOK
  <2>4. \A v \in DOMAIN inst : \E b \in DOMAIN code : \E n \in DOMAIN code[b] : code[b][n] = v
    BY DEF IInv, PlacesOK
  <2>. QED  BY <2>1, <2>2, <2>3, <2>4, LayoutLength DEF TypeOK
<1>2. Spec => []IInv
  BY IInvAlways
<1>. QED  BY <1>1, <1>2, PTL

\* PHIs come first in every block that cloneBB leaves, and a landing pad is
\* still what getFirstNonPHI finds in its block: findBBsToDuplicate takes no
\* block that has one, in the second run as in the first.
THEOREM HeadsStayFirst == Opaque => (Spec => []HeadsFirst)
<1>. SUFFICES ASSUME Opaque PROVE Spec => []HeadsFirst
  OBVIOUS
<1>1. IInv => HeadsFirst
  <2>. SUFFICES ASSUME IInv, AtRest PROVE HeadsFirst
    BY DEF HeadsFirst
  <2>1. pc # "clone"
    BY DEF AtRest
  <2>2. \A b \in DOMAIN code : \A m, n \in DOMAIN code[b] :
          m < n /\ n \in Phis(code[b]) => m \in Phis(code[b])
    BY <2>1 DEF IInv, PhisFirst
  <2>3. ASSUME NEW b \in Blocks, NEW v \in Range(prog.code[b]), prog.inst[v].kind = "pad"
        PROVE  FirstNonPHI(b) \in DOMAIN code[b] /\ code[b][FirstNonPHI(b)] = v
    <3>1. PICK p \in DOMAIN prog.code[b] : prog.code[b][p] = v
      BY DEF Range
    <3>. QED  BY <2>1, <2>3, <3>1, PadFirst
  <2>. QED  BY <2>2, <2>3 DEF HeadsFirst
<1>2. Spec => []IInv
  BY IInvAlways
<1>. QED  BY <1>1, <1>2, PTL

\* Every PHI has an entry for each edge into its block, and those of the
\* function take over an edge what they took over it before: splitting a block
\* sends their entries to the tail, replaceAllUsesWith puts for an operand the
\* PHI of its clones, and nothing else happens to them.
THEOREM PhisStay == Opaque => (Spec => []PhisPreserved)
<1>. SUFFICES ASSUME Opaque PROVE Spec => []PhisPreserved
  OBVIOUS
<1>1. IInv => PhisPreserved
  <2>. SUFFICES ASSUME IInv, AtRest, NEW b \in DOMAIN code, NEW n \in Phis(code[b])
                PROVE  LET i == inst[code[b][n]]
                       IN  /\ \A p \in DOMAIN code :
                                Cardinality({k \in DOMAIN i.from : i.from[k] = p})
                                  = Cardinality({k \in DOMAIN term[p].tgts : term[p].tgts[k] = b})
                           /\ b \in Blocks =>
                                LET o == prog.inst[prog.code[b][n]]
                                IN  /\ code[b][n] = prog.code[b][n]
                                    /\ [k \in DOMAIN i.from |-> OriginBlock(i.from[k])] = o.from
                                    /\ Same(i.opnds, o.opnds)
    BY DEF PhisPreserved
  <2>1. PICK i : i = inst[code[b][n]]
    OBVIOUS
  <2>2. ASSUME NEW p \in DOMAIN code
        PROVE  Cardinality({k \in DOMAIN i.from : i.from[k] = p})
                 = Cardinality({k \in DOMAIN term[p].tgts : term[p].tgts[k] = b})
    <3>1. Times(i.from, p) = Times(term[p].tgts, b)
      BY <2>1 DEF IInv, EdgesMatch
    <3>. QED  BY <3>1 DEF Times
  <2>3. ASSUME b \in Blocks
        PROVE  /\ code[b][n] = prog.code[b][n]
               /\ [k \in DOMAIN i.from |-> OriginBlock(i.from[k])] = prog.inst[prog.code[b][n]].from
               /\ Same(i.opnds, prog.inst[prog.code[b][n]].opnds)
    <3>1. PICK v : v = prog.code[b][n]
      OBVIOUS
    <3>2. PICK o : o = prog.inst[v]
      OBVIOUS
    <3>3. n \in DOMAIN prog.code[b] /\ code[b][n] = v /\ KeepsPhi(i, o)
      BY <2>1, <2>3, <3>1, <3>2 DEF IInv, PhisOriginal
    <3>4. prog \in Programs
      BY DEF IInv, Counters
    <3>5. v \in DOMAIN prog.inst
      BY <2>3, <3>1, <3>3, <3>4, Input
    <3>6. o.from \in Seq(Blocks) /\ o.opnds \in Seq(Args \cup Globals \cup DOMAIN prog.inst)
      BY <3>2, <3>4, <3>5, InputInst
    <3>7. \A k \in DOMAIN o.opnds : Original(o.opnds[k])
      BY <3>6 DEF Original
    <3>8. \A k \in DOMAIN o.opnds : Origin(i.opnds[k]) = o.opnds[k]
      BY <3>3, <3>4, <3>7, OriginOf DEF KeepsPhi
    <3>9. PICK f : f = o.from
      OBVIOUS
    <3>10. f \in Seq(Blocks)
      BY <3>6, <3>9
    <3>11. [k \in DOMAIN i.from |-> OriginBlock(i.from[k])] = f
      BY <3>3, <3>9, <3>10 DEF KeepsPhi
    <3>12. PICK q : q = o.opnds
      OBVIOUS
    <3>13. q \in Seq(Args \cup Globals \cup DOMAIN prog.inst)
      BY <3>6, <3>12
    <3>14. [k \in DOMAIN i.opnds |-> Origin(i.opnds[k])] = q
      BY <3>3, <3>8, <3>12, <3>13 DEF KeepsPhi
    <3>. QED  BY <3>1, <3>2, <3>3, <3>9, <3>11, <3>12, <3>14 DEF Same
  <2>. QED  BY <2>1, <2>2, <2>3
<1>2. Spec => []IInv
  BY IInvAlways
<1>. QED  BY <1>1, <1>2, PTL
-----------------------------------------------------------------------------
(***************************************************************************)
(* What control reaches.  Reached grows a set of blocks until nothing      *)
(* comes of it; that is the least set that is closed under the edges.      *)
(***************************************************************************)
Closed(t, A, S) == \A x \in S : \A k \in DOMAIN t[x].tgts : t[x].tgts[k] \in A \cup S

Graph(t) ==
  /\ IsFiniteSet(DOMAIN t) /\ Entry \in DOMAIN t
  /\ \A x \in DOMAIN t : \A k \in DOMAIN t[x].tgts : t[x].tgts[k] \in DOMAIN t

LEMMA ReachedIs ==
  ASSUME NEW t, Graph(t), NEW A
  PROVE  /\ Reached(t, A) \in SUBSET (DOMAIN t \ A)
         /\ Entry \in A \cup Reached(t, A)
         /\ Closed(t, A, Reached(t, A))
         /\ \A S \in SUBSET DOMAIN t : {Entry} \ A \subseteq S /\ Closed(t, A, S) => Reached(t, A) \subseteq S
<1> DEFINE D == DOMAIN t
           T(S) == S \cup ((UNION {Range(t[x].tgts) : x \in S}) \ A)
           F(g) == [S \in SUBSET D |-> IF T(S) = S THEN S ELSE g[T(S)]]
           g == CHOOSE h : h = F(h)
           C(S) == {x \in D : \A Q \in SUBSET D : S \subseteq Q /\ T(Q) = Q => x \in Q}
<1>1. Reached(t, A) = g[{Entry} \ A]
  BY Zenon DEF Reached
<1>2. \A S : T(S) = S <=> Closed(t, A, S)
  BY DEF Closed, Range
<1>3. \A S \in SUBSET D : T(S) \in SUBSET D /\ S \subseteq T(S)
  BY DEF Graph, Range
<1>4. \A S, Q : S \subseteq Q => T(S) \subseteq T(Q)
  OBVIOUS
<1>5. Entry \in D /\ IsFiniteSet(D)
  BY DEF Graph
<1> HIDE DEF D, T
<1>6. ASSUME NEW S \in SUBSET D PROVE C(S) = IF T(S) = S THEN S ELSE C(T(S))
  <2>1. CASE T(S) = S
    BY <2>1
  <2>2. CASE T(S) # S
    <3>1. \A Q \in SUBSET D : S \subseteq Q /\ T(Q) = Q <=> T(S) \subseteq Q /\ T(Q) = Q
      BY <1>3, <1>4
    <3>. QED  BY <2>2, <3>1
  <2>. QED  BY <2>1, <2>2
<1> HIDE DEF C
<1>7. \E f : f = F(f)
  <2>1. PICK f : f = [S \in SUBSET D |-> C(S)]
    OBVIOUS
  <2>2. \A S \in SUBSET D : C(S) = IF T(S) = S THEN S ELSE f[T(S)]
    BY <1>3, <1>6, <2>1
  <2>. QED  BY <2>1, <2>2
<1>8. g = F(g)
  BY <1>7
<1> HIDE DEF g
<1>9. \A S \in SUBSET D : g[S] = IF T(S) = S THEN S ELSE g[T(S)]
  BY <1>8
<1>10. \A S \in SUBSET D : g[S] = C(S)
  <2> DEFINE Size(S) == Cardinality(D \ S)
             N == Cardinality(D)
             Bad == {S \in SUBSET D : g[S] # C(S)}
  <2>1. N \in Nat
    BY <1>5, FS_CardinalityType
  <2>2. \A S \in Bad : S \in SUBSET D /\ T(S) # S
    BY <1>6, <1>9
  <2>3. ASSUME NEW S \in SUBSET D, T(S) # S
        PROVE  Size(S) \in 1..N /\ Size(T(S)) < Size(S)
    <3>1. /\ D \ S \in SUBSET D /\ D \ T(S) \in SUBSET (D \ S)
          /\ D \ T(S) # D \ S /\ D \ S # {}
      BY <1>3, <2>3
    <3>2. IsFiniteSet(D \ S) /\ Cardinality(D \ S) <= N /\ Cardinality(D \ S) \in Nat
      BY <1>5, <3>1, FS_Subset, FS_CardinalityType
    <3>3. Cardinality(D \ S) # 0
      BY <3>1, <3>2, FS_EmptySet
    <3>4. /\ Cardinality(D \ T(S)) <= Cardinality(D \ S) /\ IsFiniteSet(D \ T(S))
          /\ Cardinality(D \ T(S)) # Cardinality(D \ S)
      BY <3>1, <3>2, FS_Subset
    <3>5. Cardinality(D \ T(S)) \in Nat
      BY <3>4, FS_CardinalityType
    <3>. QED  BY <2>1, <3>2, <3>3, <3>4, <3>5
  <2> HIDE DEF Size, N
  <2>. SUFFICES ASSUME Bad # {} PROVE FALSE
    OBVIOUS
  <2>4. PICK M : M = {Size(S) : S \in Bad}
    OBVIOUS
  <2>5. M \in SUBSET (1..N) /\ M # {}
    BY <2>2, <2>3, <2>4
  <2>6. PICK m \in M : \A j \in M : m <= j
    BY <2>1, <2>5, LeastNumber
  <2>7. PICK S \in Bad : Size(S) = m
    BY <2>4, <2>6
  <2>8. S \in SUBSET D /\ T(S) # S /\ T(S) \in SUBSET D
    BY <1>3, <2>2
  <2>9. Size(T(S)) < Size(S) /\ Size(S) \in 1..N
    BY <2>3, <2>8
  <2>10. T(S) \notin Bad
    <3>. SUFFICES ASSUME T(S) \in Bad PROVE FALSE
      OBVIOUS
    <3>1. Size(T(S)) \in M
      BY <2>4
    <3>2. m <= Size(T(S)) /\ Size(T(S)) \in 1..N
      BY <2>5, <2>6, <3>1
    <3>. QED  BY <2>7, <2>9, <3>2
  <2>11. g[S] = g[T(S)] /\ C(S) = C(T(S))
    BY <1>6, <1>9, <2>8
  <2>. QED  BY <2>8, <2>10, <2>11
<1>11. PICK S0 : S0 = {Entry} \ A
  OBVIOUS
<1>12. S0 \in SUBSET D
  BY <1>5, <1>11
<1>13. Reached(t, A) = C(S0)
  BY <1>1, <1>10, <1>11, <1>12
<1>14. C(S0) \in SUBSET D /\ S0 \subseteq C(S0)
  BY <1>12 DEF C
<1>15. \A Q \in SUBSET D : S0 \subseteq Q /\ T(Q) = Q => C(S0) \subseteq Q
  BY DEF C
<1>16. Closed(t, A, C(S0))
  <2>1. T(C(S0)) \subseteq C(S0)
    <3>. SUFFICES ASSUME NEW x \in T(C(S0)), NEW Q \in SUBSET D, S0 \subseteq Q, T(Q) = Q
                  PROVE  x \in Q
      BY <1>3, <1>14 DEF C
    <3>1. C(S0) \subseteq Q
      BY <1>15
    <3>. QED  BY <1>4, <3>1
  <2>2. T(C(S0)) = C(S0)
    BY <1>3, <1>14, <2>1
  <2>. QED  BY <1>2, <2>2
<1>17. C(S0) \cap A = {}
  <2>1. PICK Q : Q = C(S0) \ A
    OBVIOUS
  <2>2. Q \in SUBSET D /\ S0 \subseteq Q
    BY <1>11, <1>14, <2>1
  <2>3. Closed(t, A, Q)
    BY <1>16, <2>1 DEF Closed
  <2>4. C(S0) \subseteq Q
    BY <1>2, <1>15, <2>2, <2>3
  <2>. QED  BY <2>1, <2>4
<1>. QED  BY <1>2, <1>11, <1>13, <1>14, <1>15, <1>16, <1>17 DEF D
-----------------------------------------------------------------------------
(***************************************************************************)
(* Dominance.  v sits at place n of block b of the code c; past d only is  *)
(* b reached by control; so v is there at the end of b, or for the n-th    *)
(* instruction of b.                                                       *)
(***************************************************************************)
Sits(c, v, b, n) == b \in DOMAIN c /\ n \in DOMAIN c[b] /\ c[b][n] = v
Past(t, b, d) == b \notin Reached(t, {d})
Given(v) == v \in Args \cup Globals

AtEnd(c, t, v, b) == Given(v) \/ \E d, m : Sits(c, v, d, m) /\ Past(t, b, d)
Before(c, t, v, b, n) ==
  Given(v) \/ \E d, m : Sits(c, v, d, m) /\ IF d = b THEN m < n ELSE Past(t, b, d)

\* The k-th operand of instruction i, at place n of block b.
UsedWell(c, t, i, b, n, k) ==
  IF i.kind = "phi" THEN AtEnd(c, t, i.opnds[k], i.from[k]) ELSE Before(c, t, i.opnds[k], b, n)

Dominated(c, i, t) ==
  /\ \A b \in DOMAIN c : \A n \in DOMAIN c[b] : \A k \in DOMAIN i[c[b][n]].opnds :
       UsedWell(c, t, i[c[b][n]], b, n, k)
  /\ \A b \in DOMAIN c : \A k \in DOMAIN t[b].opnds : AtEnd(c, t, t[b].opnds[k], b)

\* Operands are values, a PHI has one for each of its blocks, and what has
\* no value comes from an instruction of the function that has none.
Usable(i, v) == Given(v) \/ (v \in DOMAIN i /\ i[v].kind # "void")
OperandsOK ==
  /\ \A v \in DOMAIN inst : \A k \in DOMAIN inst[v].opnds : Usable(inst, inst[v].opnds[k])
  /\ \A b \in DOMAIN code : \A k \in DOMAIN term[b].opnds : Usable(inst, term[b].opnds[k])
KindOK(v) ==
  /\ inst[v].kind = "phi" => DOMAIN inst[v].opnds = DOMAIN inst[v].from
  /\ inst[v].kind = "void" => Source(Origin(v)) /\ prog.inst[Origin(v)].kind = "void"
KindsOK == \A v \in DOMAIN inst : KindOK(v)

\* The context value of a block still to be duplicated is there before the
\* block is entered.
Awaited == {k \in DOMAIN Targets : pc = "find" \/ (k >= next /\ (pc = "clone" => k > next))}
Ready(c, i, t, v, b) ==
  \/ v \in Args
  \/ (\E d, m : Sits(c, v, d, m) /\ d # b /\ Past(t, b, d)) /\ i[v].kind # "void"
ContextsOK ==
  /\ pc = "find" => DOMAIN ReMapper = {}
  /\ \A k \in Awaited : Ready(code, inst, term, Context(Targets[k].ctx), Targets[k].block)

\* What this run has not come to is in ReMapper neither as a key nor as what
\* replaces one.
Unmapped(v) == v \notin DOMAIN ReMapper /\ \A x \in DOMAIN ReMapper : ReMapper[x] # v
AheadOK ==
  /\ \A b \in Pending : \A n \in DOMAIN code[b] : Unmapped(code[b][n])
  /\ pc = "clone" => \A n \in DOMAIN code[tail] : n >= at => Unmapped(code[tail][n])

\* In cloneBB: a clone in the side block d for everything the tail has before
\* IIT.
SideOK(s, d) ==
  /\ \A x \in DOMAIN VMap[s] :
       /\ \E m : Sits(code, VMap[s][x], d, m)
       /\ inst[VMap[s][x]].kind = "void" => x \in ToRemove
  /\ \A n \in DOMAIN code[tail] : n < at => code[tail][n] \in DOMAIN VMap[s]
VMapOK ==
  /\ DOMAIN VMap = {"then", "else", "tail"}
  /\ pc = "clone" =>
       /\ SideOK("then", Side(Targets[next].block, "then"))
       /\ SideOK("else", Side(Targets[next].block, "else"))
       /\ \A x \in DOMAIN VMap["tail"] : VMap["tail"][x] = x
       /\ \A v \in ToRemove : v \in DOMAIN inst /\ inst[v].kind = "void"

DInv ==
  /\ Dominated(code, inst, term) /\ OperandsOK /\ KindsOK
  /\ ContextsOK /\ AheadOK /\ VMapOK

\* The graphs of the passes' functions are finite.
LEMMA GraphIs ==
  ASSUME IInv
  PROVE  Graph(term) /\ DOMAIN term = DOMAIN code /\ IsFiniteSet(DOMAIN code)
<1>1. PICK s : s = layout
  OBVIOUS
<1>2. PICK S : S = DOMAIN code
  OBVIOUS
<1>3. s \in Seq(S) /\ Range(s) = S
  BY <1>1, <1>2, LayoutLength DEF IInv, LayoutOK
<1>4. IsFiniteSet(S)
  <2>1. PICK N \in Nat : N = Len(s)
    BY <1>3
  <2>2. s \in [1..N -> S] /\ \A b \in S : \E m \in 1..N : s[m] = b
    BY <1>3, <2>1 DEF Range
  <2>3. s \in Surjection(1..N, S)
    BY <2>2, Fun_IsSurj
  <2>4. IsFiniteSet(1..N)
    BY FS_Interval
  <2>. QED  BY <2>3, <2>4, FS_Surjection
<1>5. Entry \in DOMAIN code
  BY SourceAssumption DEF IInv, LayoutOK
<1>. QED  BY <1>2, <1>4, <1>5 DEF Graph, IInv, TermsOK

\* Where the edges are the same, so is what is past a block.
LEMMA SamePast ==
  ASSUME NEW t, NEW u, Graph(t), DOMAIN u = DOMAIN t,
         \A x \in DOMAIN t : u[x].tgts = t[x].tgts, NEW b, NEW d, Past(t, b, d)
  PROVE  Past(u, b, d)
<1>1. Graph(u)
  BY DEF Graph
<1>2. PICK R : R = Reached(t, {d})
  OBVIOUS
<1>3. R \in SUBSET DOMAIN u /\ Entry \in {d} \cup R /\ Closed(t, {d}, R)
  BY <1>2, ReachedIs
<1>4. Closed(u, {d}, R)
  BY <1>3 DEF Closed
<1>5. Reached(u, {d}) \subseteq R
  BY <1>1, <1>3, <1>4, ReachedIs
<1>. QED  BY <1>2, <1>5 DEF Past

\* Splitting b: the new blocks are past whatever b is, and everything else is
\* past what it was; what is past b is past the tail.
SplitEdges(b, t) ==
  /\ \A x, d \in DOMAIN code : Past(term, x, d) => Past(term', x, d)
  /\ \A d \in DOMAIN code : Past(term, b, d) => Past(term', t, d)
  /\ \A x \in DOMAIN code : x # b /\ Past(term, x, b) => Past(term', x, t)
  /\ Past(term', t, t)

LEMMA SplitGraph ==
  ASSUME IInv, NEW b, NEW k, NEW c, NEW th, NEW el, NEW t, SplitOf(b, k, c, th, el, t)
  PROVE  SplitEdges(b, t)
<1>1. /\ b \in DOMAIN code /\ th \notin DOMAIN code /\ el \notin DOMAIN code /\ t \notin DOMAIN code
      /\ th # el /\ th # t /\ el # t
  BY DEF SplitOf, SplitNames
<1>2. PICK D : D = DOMAIN code
  OBVIOUS
<1>3. PICK u : u = term
  OBVIOUS
<1>4. PICK w : w = term'
  OBVIOUS
<1>5. /\ DOMAIN w = D \cup {th, el, t}
      /\ w[b].tgts = <<th, el>> /\ w[th].tgts = <<t>> /\ w[el].tgts = <<t>>
      /\ w[t].tgts = u[b].tgts
      /\ \A x \in D : x # b => w[x].tgts = u[x].tgts
  BY <1>2, <1>3, <1>4 DEF SplitOf, SplitTerms
<1>6. Graph(u) /\ DOMAIN u = D /\ IsFiniteSet(D) /\ b \in D /\ Entry \in D
  BY <1>1, <1>2, <1>3, GraphIs DEF Graph
<1>7. Graph(w)
  <2>1. IsFiniteSet(D \cup {th, el, t})
    <3>1. IsFiniteSet(D \cup {th}) /\ IsFiniteSet((D \cup {th}) \cup {el})
      BY <1>6, FS_AddElement
    <3>2. IsFiniteSet(((D \cup {th}) \cup {el}) \cup {t})
      BY <3>1, FS_AddElement
    <3>3. ((D \cup {th}) \cup {el}) \cup {t} = D \cup {th, el, t}
      OBVIOUS
    <3>. QED  BY <3>2, <3>3
  <2>2. ASSUME NEW x \in DOMAIN w, NEW j \in DOMAIN w[x].tgts
        PROVE  w[x].tgts[j] \in DOMAIN w
    <3>1. CASE x = b
      BY <1>5, <3>1
    <3>2. CASE x \in {th, el}
      BY <1>5, <3>2
    <3>3. CASE x = t
      BY <1>5, <1>6, <3>3 DEF Graph
    <3>4. CASE x \in D /\ x # b
      BY <1>5, <1>6, <3>4 DEF Graph
    <3>. QED  BY <1>5, <3>1, <3>2, <3>3, <3>4
  <2>. QED  BY <1>5, <1>6, <2>1, <2>2 DEF Graph
\* Without passing d, no more is reached than before, and the new blocks only
\* if b was.
<1>8. ASSUME NEW d \in D
      PROVE  Reached(w, {d}) \subseteq
               Reached(u, {d}) \cup IF b \in Reached(u, {d}) THEN {th, el, t} ELSE {}
  <2>1. PICK R : R = Reached(u, {d})
    OBVIOUS
  <2>2. PICK S : S = R \cup IF b \in R THEN {th, el, t} ELSE {}
    OBVIOUS
  <2>3. R \in SUBSET D /\ Entry \in {d} \cup R /\ Closed(u, {d}, R)
    BY <1>6, <2>1, ReachedIs
  <2>4. S \in SUBSET DOMAIN w /\ {Entry} \ {d} \subseteq S
    BY <1>5, <2>2, <2>3
  <2>5. ASSUME NEW x \in S, NEW j \in DOMAIN w[x].tgts
        PROVE  w[x].tgts[j] \in {d} \cup S
    <3>1. CASE x = b
      BY <1>1, <1>2, <1>5, <2>2, <2>3, <2>5, <3>1
    <3>2. CASE x \in {th, el}
      BY <1>1, <1>2, <1>5, <2>2, <2>3, <3>2
    <3>3. CASE x = t
      <4>1. b \in R
        BY <1>1, <1>2, <2>2, <2>3, <3>3
      <4>. QED  BY <1>5, <2>2, <2>3, <3>3, <4>1 DEF Closed
    <3>4. CASE x \in R /\ x # b
      BY <1>5, <2>2, <2>3, <3>4 DEF Closed
    <3>. QED  BY <2>2, <3>1, <3>2, <3>3, <3>4
  <2>6. Closed(w, {d}, S)
    BY <2>5 DEF Closed
  <2>. QED  BY <1>7, <2>1, <2>2, <2>4, <2>6, ReachedIs
\* Without passing t, no more than before without passing b.
<1>9. Reached(w, {t}) \subseteq Reached(u, {b}) \cup {b, th, el}
  <2>1. PICK R : R = Reached(u, {b})
    OBVIOUS
  <2>2. PICK S : S = R \cup {b, th, el}
    OBVIOUS
  <2>3. R \in SUBSET (D \ {b}) /\ Entry \in {b} \cup R /\ Closed(u, {b}, R)
    BY <1>6, <2>1, ReachedIs
  <2>4. S \in SUBSET DOMAIN w /\ {Entry} \ {t} \subseteq S
    BY <1>5, <1>6, <2>2, <2>3
  <2>5. ASSUME NEW x \in S, NEW j \in DOMAIN w[x].tgts
        PROVE  w[x].tgts[j] \in {t} \cup S
    <3>1. CASE x = b
      BY <1>5, <2>2, <3>1
    <3>2. CASE x \in {th, el}
      BY <1>5, <3>2
    <3>3. CASE x \in R
      <4>1. w[x].tgts = u[x].tgts
        BY <1>5, <2>3, <3>3
      <4>. QED  BY <2>2, <2>3, <3>3, <4>1 DEF Closed
    <3>. QED  BY <2>2, <3>1, <3>2, <3>3
  <2>6. Closed(w, {t}, S)
    BY <2>5 DEF Closed
  <2>7. Reached(w, {t}) \subseteq S
    BY <1>7, <2>4, <2>6, ReachedIs
  <2>. QED  BY <2>1, <2>2, <2>7
<1>10. t \notin Reached(w, {t})
  BY <1>7, ReachedIs
<1>11. \A d \in D : Reached(u, {d}) \in SUBSET D
  BY <1>6, ReachedIs
<1>12. \A x, d \in D : x \notin Reached(u, {d}) => x \notin Reached(w, {d})
  BY <1>1, <1>2, <1>8
<1>13. \A d \in D : b \notin Reached(u, {d}) => t \notin Reached(w, {d})
  BY <1>1, <1>2, <1>8, <1>11
<1>14. \A x \in D : x # b /\ x \notin Reached(u, {b}) => x \notin Reached(w, {t})
  BY <1>1, <1>2, <1>9
<1>. QED  BY <1>2, <1>3, <1>4, <1>10, <1>12, <1>13, <1>14 DEF SplitEdges, Past

\* What the types of a function say.
LEMMA InputTypes ==
  ASSUME NEW p \in Programs, NEW v \in DOMAIN p.inst
  PROVE  /\ ~Given(v)
         /\ p.inst[v].kind = "phi" => DOMAIN p.inst[v].opnds = DOMAIN p.inst[v].from
         /\ p.inst[v].kind = "void" =>
              /\ v \notin IntTyped
              /\ \A u \in DOMAIN p.inst : \A k \in DOMAIN p.inst[u].opnds : p.inst[u].opnds[k] # v
              /\ \A b \in Blocks : \A k \in DOMAIN p.term[b].opnds : p.term[b].opnds[k] # v
<1>1. WellTyped(p)
  BY ProgramAssumption, Zenon
<1>2. ~Given(v)
  BY <1>1 DEF WellTyped, Given
<1>3. ASSUME p.inst[v].kind = "phi" PROVE DOMAIN p.inst[v].opnds = DOMAIN p.inst[v].from
  <2>1. PICK o, f : o = p.inst[v].opnds /\ f = p.inst[v].from
    OBVIOUS
  <2>2. Len(o) = Len(f)
    BY <1>1, <1>3, <2>1 DEF WellTyped
  <2>3. o \in Seq(Args \cup Globals \cup DOMAIN p.inst) /\ f \in Seq(Blocks)
    BY <2>1, InputInst
  <2>. QED  BY <2>1, <2>2, <2>3
<1>4. ASSUME p.inst[v].kind = "void"
      PROVE  /\ v \notin IntTyped
             /\ \A u \in DOMAIN p.inst : \A k \in DOMAIN p.inst[u].opnds : p.inst[u].opnds[k] # v
             /\ \A b \in Blocks : \A k \in DOMAIN p.term[b].opnds : p.term[b].opnds[k] # v
  BY <1>1, <1>4 DEF WellTyped, Range
<1>. QED  BY <1>2, <1>3, <1>4

\* An instruction is no argument and no global.
LEMMA NotGiven ==
  ASSUME Opaque, IInv, NEW v \in DOMAIN inst
  PROVE  ~Given(v)
<1>1. prog \in Programs /\ run \in {1, 2} /\ ValueName(v)
  BY DEF IInv, Counters, InstsOK
<1>2. Source(v) \/ Stamped(v, Stamp) \/ Pair(v)
  BY <1>1 DEF ValueName, RunOne, RunTwo
<1>3. CASE Source(v)
  BY <1>1, <1>3, InputTypes DEF Source
<1>4. CASE Stamped(v, Stamp)
  <2>1. ~Original(<<v[1], v[2], v[3]>>)
    BY <1>1, NoTuple
  <2>. QED  BY <1>4, <2>1 DEF Stamped, Original, Given
<1>5. CASE Pair(v)
  <2>1. ~Original(<<v[1], v[2]>>)
    BY <1>1, NoTuple
  <2>. QED  BY <1>5, <2>1 DEF Pair, Original, Given
<1>. QED  BY <1>2, <1>3, <1>4, <1>5
-----------------------------------------------------------------------------
\* What Split makes of operands and maps.
SplitOpnds(b, c, th, el, t) ==
  /\ inst'[c].opnds = <<Context(Targets[next].ctx)>>
  /\ term'[b].opnds = <<c>> /\ term'[th].opnds = <<>> /\ term'[el].opnds = <<>>
  /\ term'[t].opnds = term[b].opnds
  /\ \A x \in DOMAIN code : x # b => term'[x].opnds = term[x].opnds
  /\ DOMAIN VMap' = DOMAIN VMap /\ \A s \in DOMAIN VMap : DOMAIN VMap'[s] = {}
  /\ ReMapper' = ReMapper

LEMMA SplitOperands ==
  ASSUME Opaque, IInv, Split, NEW b, NEW k, NEW c, NEW th, NEW el, NEW t, SplitOf(b, k, c, th, el, t)
  PROVE  SplitOpnds(b, c, th, el, t)
<1>1. /\ b = Targets[next].block /\ b \in DOMAIN code
      /\ c = <<b, "cond", count>>
      /\ th = <<b, "then", count>> /\ el = <<b, "else", count>> /\ t = <<b, "tail", count>>
      /\ th \notin DOMAIN code /\ el \notin DOMAIN code /\ t \notin DOMAIN code
      /\ th # el /\ th # t /\ el # t /\ th # b /\ el # b /\ t # b
      /\ DOMAIN code' = DOMAIN code \cup {th, el, t}
  BY DEF SplitOf, SplitNames, SplitCode
<1>2. PICK ctx : ctx = Context(Targets[next].ctx)
  OBVIOUS
<1>3. PICK ic : ic = [kind |-> "cond", from |-> <<>>, opnds |-> <<ctx>>]
  OBVIOUS
<1>4. inst' = Extend([v \in DOMAIN inst |-> Moved(b, t, inst[v])], c, ic)
  BY <1>1, <1>2, <1>3 DEF Split, Side
<1>5. inst'[c].opnds = <<ctx>>
  BY <1>3, <1>4 DEF Extend
<1>6. term' = [x \in DOMAIN code' |->
                 CASE x = b -> [kind |-> "br", opnds |-> <<c>>, tgts |-> <<th, el>>]
                   [] x \in {th, el} -> [kind |-> "br", opnds |-> <<>>, tgts |-> <<t>>]
                   [] x = t -> term[b]
                   [] OTHER -> term[x]]
  BY <1>1 DEF Split, Side
<1>7. /\ term'[b].opnds = <<c>> /\ term'[th].opnds = <<>> /\ term'[el].opnds = <<>>
      /\ term'[t].opnds = term[b].opnds
      /\ \A x \in DOMAIN code : x # b => term'[x].opnds = term[x].opnds
  BY <1>1, <1>6
<1>8. VMap' = [s \in DOMAIN VMap |-> NoMap] /\ ReMapper' = ReMapper
  BY DEF Split
<1>9. DOMAIN NoMap = {}
  BY DEF NoMap
<1>. QED  BY <1>2, <1>5, <1>7, <1>8, <1>9 DEF SplitOpnds

\* The places that what was there has now.
LEMMA SplitSits ==
  ASSUME IInv, NEW b, NEW k, NEW c, NEW th, NEW el, NEW t, SplitOf(b, k, c, th, el, t),
         NEW v, NEW d, NEW m, Sits(code, v, d, m)
  PROVE  /\ v \in DOMAIN inst /\ m \in Nat /\ k \in Nat
         /\ d # b => Sits(code', v, d, m)
         /\ d = b /\ m < k => Sits(code', v, b, m)
         /\ d = b /\ ~(m < k) => Sits(code', v, t, m + 1 - k)
<1>1. d \in DOMAIN code /\ m \in DOMAIN code[d] /\ code[d][m] = v
  BY DEF Sits
<1>2. code[d] \in Seq(DOMAIN inst)
  BY <1>1 DEF IInv, PlacesOK
<1>3. v \in DOMAIN inst /\ m \in Nat \ {0} /\ m \in 1..Len(code[d]) /\ Len(code[d]) \in Nat
  BY <1>1, <1>2
<1>4. b \in DOMAIN code /\ k \in 1..(Len(code[b]) + 1)
  BY DEF SplitOf, SplitNames
<1>5. /\ DOMAIN code' = DOMAIN code \cup {th, el, t}
      /\ \A x \in DOMAIN code : x # b => code'[x] = code[x]
      /\ DOMAIN code'[b] = 1..k
      /\ \A n \in 1..(k - 1) : code'[b][n] = code[b][n]
      /\ DOMAIN code'[t] = 1..(Len(code[b]) + 1 - k)
      /\ \A n \in 1..(Len(code[b]) + 1 - k) : code'[t][n] = code[b][n + k - 1]
  BY DEF SplitOf, SplitCode
<1>6. k \in Nat
  <2>1. code[b] \in Seq(DOMAIN inst)
    BY <1>4 DEF IInv, PlacesOK
  <2>. QED  BY <1>4, <2>1
<1>7. ASSUME d # b PROVE Sits(code', v, d, m)
  BY <1>1, <1>5, <1>7 DEF Sits
<1>8. ASSUME d = b, m < k PROVE Sits(code', v, b, m)
  <2>1. m \in 1..k /\ m \in 1..(k - 1)
    BY <1>3, <1>6, <1>8
  <2>. QED  BY <1>1, <1>4, <1>5, <1>8, <2>1 DEF Sits
<1>9. ASSUME d = b, ~(m < k) PROVE Sits(code', v, t, m + 1 - k)
  <2>1. PICK n : n = m + 1 - k
    OBVIOUS
  <2>2. n \in 1..(Len(code[b]) + 1 - k) /\ n + k - 1 = m
    BY <1>3, <1>6, <1>9, <2>1
  <2>3. n \in DOMAIN code'[t] /\ code'[t][n] = code[b][m]
    BY <1>5, <2>2
  <2>. QED  BY <1>1, <1>5, <1>9, <2>1, <2>3 DEF Sits
<1>. QED  BY <1>3, <1>6, <1>7, <1>8, <1>9

\* What is there at the end of a block is there at the end of what takes over
\* its edges.
LEMMA SplitAtEnd ==
  ASSUME IInv, NEW b, NEW k, NEW c, NEW th, NEW el, NEW t, SplitOf(b, k, c, th, el, t),
         NEW v, NEW x \in DOMAIN code, AtEnd(code, term, v, x)
  PROVE  AtEnd(code', term', v, IF x = b THEN t ELSE x)
<1>1. CASE Given(v)
  BY <1>1 DEF AtEnd
<1>2. CASE \E d, m : Sits(code, v, d, m) /\ Past(term, x, d)
  <2>1. PICK d, m : Sits(code, v, d, m) /\ Past(term, x, d)
    BY <1>2
  <2>2. d \in DOMAIN code
    BY <2>1 DEF Sits
  <2>3. /\ d # b => Sits(code', v, d, m)
        /\ d = b /\ m < k => Sits(code', v, b, m)
        /\ d = b /\ ~(m < k) => Sits(code', v, t, m + 1 - k)
    BY <2>1, SplitSits
  <2>4. /\ \A y, z \in DOMAIN code : Past(term, y, z) => Past(term', y, z)
        /\ \A z \in DOMAIN code : Past(term, b, z) => Past(term', t, z)
        /\ \A y \in DOMAIN code : y # b /\ Past(term, y, b) => Past(term', y, t)
        /\ Past(term', t, t)
    BY SplitGraph DEF SplitEdges
  <2>5. PICK y : y = IF x = b THEN t ELSE x
    OBVIOUS
  <2>6. CASE d = b /\ ~(m < k)
    <3>1. Past(term', y, t)
      BY <2>1, <2>4, <2>5, <2>6
    <3>. QED  BY <2>3, <2>5, <2>6, <3>1 DEF AtEnd
  <2>7. CASE d # b \/ m < k
    <3>1. Past(term', y, d)
      BY <2>1, <2>2, <2>4, <2>5
    <3>. QED  BY <2>3, <2>5, <2>7, <3>1 DEF AtEnd
  <2>. QED  BY <2>6, <2>7
<1>. QED  BY <1>1, <1>2 DEF AtEnd

LEMMA PastSelf ==
  ASSUME NEW t, Graph(t), NEW b
  PROVE  Past(t, b, b)
BY ReachedIs DEF Past

\* What is there for an instruction of another block still is, and what is
\* there for one of the tail's is from where the tail is now.
LEMMA SplitBefore ==
  ASSUME IInv, NEW b, NEW k, NEW c, NEW th, NEW el, NEW t, SplitOf(b, k, c, th, el, t),
         NEW v, NEW y \in DOMAIN code, NEW j \in DOMAIN code[y], Before(code, term, v, y, j)
  PROVE  /\ y # b => Before(code', term', v, y, j)
         /\ y = b => \A n \in Nat : n + k = j + 1 => Before(code', term', v, t, n)
<1>1. b \in DOMAIN code /\ t \notin DOMAIN code
  BY DEF SplitOf, SplitNames
<1>2. /\ \A x, z \in DOMAIN code : Past(term, x, z) => Past(term', x, z)
      /\ \A z \in DOMAIN code : Past(term, b, z) => Past(term', t, z)
      /\ \A x \in DOMAIN code : x # b /\ Past(term, x, b) => Past(term', x, t)
  BY SplitGraph DEF SplitEdges
<1>3. Past(term, b, b)
  BY GraphIs, PastSelf
<1>4. j \in Nat
  BY DEF IInv, PlacesOK
<1>5. CASE Given(v)
  BY <1>5 DEF Before
<1>6. ASSUME NEW d, NEW m, Sits(code, v, d, m), IF d = y THEN m < j ELSE Past(term, y, d)
      PROVE  /\ y # b => Before(code', term', v, y, j)
             /\ y = b => \A n \in Nat : n + k = j + 1 => Before(code', term', v, t, n)
  <2>1. d \in DOMAIN code
    BY <1>6 DEF Sits
  <2>2. /\ m \in Nat /\ k \in Nat
        /\ d # b => Sits(code', v, d, m)
        /\ d = b /\ m < k => Sits(code', v, b, m)
        /\ d = b /\ ~(m < k) => Sits(code', v, t, m + 1 - k)
    BY <1>6, SplitSits
  <2>3. CASE y # b /\ d = y
    BY <1>6, <2>2, <2>3 DEF Before
  <2>4. CASE y # b /\ d # y
    <3>1. CASE d = b /\ ~(m < k)
      <4>1. Past(term', y, t) /\ t # y
        BY <1>1, <1>2, <1>6, <2>4, <3>1
      <4>. QED  BY <2>2, <2>4, <3>1, <4>1 DEF Before
    <3>2. CASE d # b \/ m < k
      <4>1. Past(term', y, d) /\ Sits(code', v, d, m)
        BY <1>2, <1>6, <2>1, <2>2, <2>4, <3>2
      <4>. QED  BY <2>4, <4>1 DEF Before
    <3>. QED  BY <3>1, <3>2
  <2>5. CASE y = b
    <3>. SUFFICES ASSUME NEW n \in Nat, n + k = j + 1 PROVE Before(code', term', v, t, n)
      BY <2>5
    <3>1. CASE d = b /\ ~(m < k)
      <4>1. m + 1 - k < n
        BY <1>4, <1>6, <2>2, <2>5, <3>1
      <4>. QED  BY <2>2, <3>1, <4>1 DEF Before
    <3>2. CASE d # b \/ m < k
      <4>1. Past(term, b, d)
        BY <1>3, <1>6, <2>5
      <4>2. Past(term', t, d) /\ Sits(code', v, d, m) /\ d # t
        BY <1>1, <1>2, <2>1, <2>2, <3>2, <4>1
      <4>. QED  BY <4>2 DEF Before
    <3>. QED  BY <3>1, <3>2
  <2>. QED  BY <2>3, <2>4, <2>5
<1>. QED  BY <1>5, <1>6 DEF Before

\* A context value that is there before another block is entered still is.
LEMMA SplitReady ==
  ASSUME IInv, NEW b, NEW k, NEW c, NEW th, NEW el, NEW t, SplitOf(b, k, c, th, el, t),
         NEW v, NEW x \in DOMAIN code, Ready(code, inst, term, v, x)
  PROVE  /\ x # b => Ready(code', inst', term', v, x)
         /\ x = b => Before(code', term', v, b, k)
         /\ Usable(inst, v)
<1>1. b \in DOMAIN code /\ t \notin DOMAIN code
  BY DEF SplitOf, SplitNames
<1>2. /\ \A y, z \in DOMAIN code : Past(term, y, z) => Past(term', y, z)
      /\ \A y \in DOMAIN code : y # b /\ Past(term, y, b) => Past(term', y, t)
  BY SplitGraph DEF SplitEdges
<1>3. CASE v \in Args
  BY <1>3 DEF Ready, Before, Usable, Given
<1>4. ASSUME NEW d, NEW m, Sits(code, v, d, m), d # x, Past(term, x, d), inst[v].kind # "void"
      PROVE  /\ x # b => Ready(code', inst', term', v, x)
             /\ x = b => Before(code', term', v, b, k)
             /\ Usable(inst, v)
  <2>1. d \in DOMAIN code
    BY <1>4 DEF Sits
  <2>2. /\ v \in DOMAIN inst
        /\ d # b => Sits(code', v, d, m)
        /\ d = b /\ m < k => Sits(code', v, b, m)
        /\ d = b /\ ~(m < k) => Sits(code', v, t, m + 1 - k)
    BY <1>4, SplitSits
  <2>3. Usable(inst, v)
    BY <1>4, <2>2 DEF Usable
  <2>4. inst'[v].kind # "void"
    BY <1>4, <2>2 DEF SplitOf, SplitInsts
  <2>5. ASSUME x # b PROVE Ready(code', inst', term', v, x)
    <3>1. CASE d = b /\ ~(m < k)
      <4>1. Past(term', x, t) /\ t # x
        BY <1>1, <1>2, <1>4, <2>5, <3>1
      <4>. QED  BY <2>2, <2>4, <3>1, <4>1 DEF Ready
    <3>2. CASE d # b \/ m < k
      <4>1. Past(term', x, d) /\ Sits(code', v, d, m)
        BY <1>2, <1>4, <2>1, <2>2, <3>2
      <4>. QED  BY <1>4, <2>4, <4>1 DEF Ready
    <3>. QED  BY <3>1, <3>2
  <2>6. ASSUME x = b PROVE Before(code', term', v, b, k)
    <3>1. Past(term', b, d) /\ Sits(code', v, d, m)
      BY <1>2, <1>4, <2>1, <2>2, <2>6
    <3>. QED  BY <1>4, <2>6, <3>1 DEF Before
  <2>. QED  BY <2>3, <2>5, <2>6
<1>. QED  BY <1>3, <1>4 DEF Ready

LEMMA SplitDominated ==
  ASSUME Opaque, IInv, DInv, NEW b, NEW k, NEW c, NEW th, NEW el, NEW t,
         SplitOf(b, k, c, th, el, t), SplitOpnds(b, c, th, el, t)
  PROVE  Dominated(code', inst', term') /\ OperandsOK' /\ KindsOK'
<1>1. /\ b = Targets[next].block /\ next \in DOMAIN Targets /\ b \in DOMAIN code
      /\ t \notin DOMAIN code /\ th \notin DOMAIN code /\ el \notin DOMAIN code
      /\ \A m \in 1..Len(code[b]) : m >= k <=> m \notin Phis(code[b])
      /\ k \in 1..(Len(code[b]) + 1)
      /\ pc = "target" /\ UNCHANGED <<prog, next, Targets, run>>
  BY DEF SplitOf, SplitNames
<1>2. /\ DOMAIN code' = DOMAIN code \cup {th, el, t}
      /\ DOMAIN code'[b] = 1..k /\ code'[b][k] = c
  BY DEF SplitOf, SplitCode
<1>3. /\ DOMAIN inst' = DOMAIN inst \cup {c} /\ c \notin DOMAIN inst
      /\ inst'[c].kind = "cond" /\ inst'[c].from = <<>>
      /\ \A v \in DOMAIN inst :
           /\ inst'[v].kind = inst[v].kind /\ inst'[v].opnds = inst[v].opnds
           /\ DOMAIN inst'[v].from = DOMAIN inst[v].from
           /\ \A i \in DOMAIN inst[v].from :
                inst'[v].from[i] = IF inst[v].from[i] = b THEN t ELSE inst[v].from[i]
  BY DEF SplitOf, SplitInsts
<1>4. PICK ctx : ctx = Context(Targets[next].ctx)
  OBVIOUS
<1>5. Ready(code, inst, term, ctx, b)
  <2>1. next \in Awaited
    BY <1>1 DEF Awaited, IInv, Counters
  <2>. QED  BY <1>1, <1>4, <2>1 DEF DInv, ContextsOK
<1>6. /\ inst'[c].opnds = <<ctx>>
      /\ term'[b].opnds = <<c>> /\ term'[th].opnds = <<>> /\ term'[el].opnds = <<>>
      /\ term'[t].opnds = term[b].opnds
      /\ \A x \in DOMAIN code : x # b => term'[x].opnds = term[x].opnds
  BY <1>4 DEF SplitOpnds
<1>7. /\ Before(code', term', ctx, b, k) /\ Usable(inst, ctx)
  BY <1>1, <1>5, SplitReady
<1>8. k \in Nat /\ DOMAIN code[b] = 1..Len(code[b])
  <2>1. code[b] \in Seq(DOMAIN inst)
    BY <1>1 DEF IInv, PlacesOK
  <2>. QED  BY <1>1, <2>1
\* An instruction that was there, from its place y, j to x, n.
<1>9. ASSUME NEW y \in DOMAIN code, NEW j \in DOMAIN code[y], NEW x, NEW n \in Nat,
             inst[code[y][j]].kind # "phi" =>
               (y # b /\ x = y /\ n = j) \/ (y = b /\ x = t /\ n + k = j + 1),
             NEW i \in DOMAIN inst'[code[y][j]].opnds
      PROVE  UsedWell(code', term', inst'[code[y][j]], x, n, i)
  <2>1. PICK u : u = code[y][j]
    OBVIOUS
  <2>2. u \in DOMAIN inst
    BY <2>1 DEF IInv, PlacesOK
  <2>3. inst'[u].kind = inst[u].kind /\ inst'[u].opnds = inst[u].opnds
    BY <1>3, <2>2
  <2>4. i \in DOMAIN inst[u].opnds
    BY <1>9, <2>1, <2>3
  <2>5. UsedWell(code, term, inst[u], y, j, i)
    BY <2>1, <2>4 DEF DInv, Dominated
  <2>6. CASE inst[u].kind = "phi"
    <3>1. i \in DOMAIN inst[u].from /\ inst[u].from[i] \in DOMAIN code
      BY <2>2, <2>4, <2>6 DEF DInv, KindsOK, KindOK, IInv, InstsOK
    <3>2. AtEnd(code, term, inst[u].opnds[i], inst[u].from[i])
      BY <2>5, <2>6 DEF UsedWell
    <3>3. AtEnd(code', term', inst[u].opnds[i], IF inst[u].from[i] = b THEN t ELSE inst[u].from[i])
      BY <3>1, <3>2, SplitAtEnd
    <3>4. inst'[u].from[i] = IF inst[u].from[i] = b THEN t ELSE inst[u].from[i]
      BY <1>3, <2>2, <3>1
    <3>. QED  BY <2>1, <2>3, <2>6, <3>3, <3>4 DEF UsedWell
  <2>7. CASE inst[u].kind # "phi"
    <3>1. Before(code, term, inst[u].opnds[i], y, j)
      BY <2>5, <2>7 DEF UsedWell
    <3>2. Before(code', term', inst[u].opnds[i], x, n)
      BY <1>9, <2>1, <2>7, <3>1, SplitBefore
    <3>. QED  BY <2>1, <2>3, <2>7, <3>2 DEF UsedWell
  <2>. QED  BY <2>6, <2>7
<1>10. ASSUME NEW x \in DOMAIN code', NEW n \in DOMAIN code'[x], NEW i \in DOMAIN inst'[code'[x][n]].opnds
       PROVE  UsedWell(code', term', inst'[code'[x][n]], x, n, i)
  <2>1. \/ x \in DOMAIN code /\ x # b /\ n \in DOMAIN code[x] /\ code'[x][n] = code[x][n]
        \/ x = b /\ n \in 1..(k - 1) /\ n \in DOMAIN code[b] /\ code'[x][n] = code[b][n]
        \/ x = b /\ n = k /\ code'[x][n] = c
        \/ x = t /\ \E j \in DOMAIN code[b] : j >= k /\ n + k = j + 1 /\ code'[x][n] = code[b][j]
    BY SplitPlaces
  <2>2. CASE x \in DOMAIN code /\ x # b /\ n \in DOMAIN code[x] /\ code'[x][n] = code[x][n]
    <3>1. n \in Nat
      BY <2>2 DEF IInv, PlacesOK
    <3>. QED  BY <1>9, <1>10, <2>2, <3>1
  <2>3. CASE x = b /\ n \in 1..(k - 1) /\ n \in DOMAIN code[b] /\ code'[x][n] = code[b][n]
    <3>1. n \in Phis(code[b]) /\ n \in Nat
      BY <1>1, <1>8, <2>3
    <3>2. inst[code[b][n]].kind = "phi"
      BY <3>1 DEF Phis
    <3>. QED  BY <1>1, <1>9, <1>10, <2>3, <3>1, <3>2
  <2>4. CASE x = b /\ n = k /\ code'[x][n] = c
    <3>1. i \in {1} /\ inst'[c].opnds[i] = ctx
      BY <1>6, <1>10, <2>4
    <3>. QED  BY <1>3, <1>7, <2>4, <3>1 DEF UsedWell
  <2>5. CASE x = t /\ \E j \in DOMAIN code[b] : j >= k /\ n + k = j + 1 /\ code'[x][n] = code[b][j]
    <3>1. PICK j \in DOMAIN code[b] : j >= k /\ n + k = j + 1 /\ code'[x][n] = code[b][j]
      BY <2>5
    <3>2. n \in Nat
      <4>1. DOMAIN code'[t] = 1..(Len(code[b]) + 1 - k)
        BY DEF SplitOf, SplitCode
      <4>. QED  BY <2>5, <4>1
    <3>. QED  BY <1>1, <1>9, <1>10, <2>5, <3>1, <3>2
  <2>. QED  BY <2>1, <2>2, <2>3, <2>4, <2>5
<1>11. ASSUME NEW x \in DOMAIN code', NEW i \in DOMAIN term'[x].opnds
       PROVE  AtEnd(code', term', term'[x].opnds[i], x)
  <2>1. CASE x = b
    <3>1. i \in {1} /\ term'[x].opnds[i] = c
      BY <1>6, <1>11, <2>1
    <3>2. Sits(code', c, b, k)
      BY <1>1, <1>2, <1>8 DEF Sits
    <3>3. Past(term', b, b)
      BY <1>1, GraphIs, PastSelf, SplitGraph DEF SplitEdges
    <3>. QED  BY <2>1, <3>1, <3>2, <3>3 DEF AtEnd
  <2>2. CASE x \in {th, el}
    BY <1>6, <1>11, <2>2
  <2>3. CASE x = t
    <3>1. i \in DOMAIN term[b].opnds /\ term'[x].opnds[i] = term[b].opnds[i]
      BY <1>6, <1>11, <2>3
    <3>2. AtEnd(code, term, term[b].opnds[i], b)
      BY <1>1, <3>1 DEF DInv, Dominated
    <3>. QED  BY <1>1, <2>3, <3>1, <3>2, SplitAtEnd
  <2>4. CASE x \in DOMAIN code /\ x # b
    <3>1. i \in DOMAIN term[x].opnds /\ term'[x].opnds[i] = term[x].opnds[i]
      BY <1>6, <1>11, <2>4
    <3>2. AtEnd(code, term, term[x].opnds[i], x)
      BY <2>4, <3>1 DEF DInv, Dominated
    <3>. QED  BY <2>4, <3>1, <3>2, SplitAtEnd
  <2>. QED  BY <1>2, <2>1, <2>2, <2>3, <2>4
<1>12. Dominated(code', inst', term')
  BY <1>10, <1>11 DEF Dominated
<1>13. OperandsOK'
  <2>1. \A v : Usable(inst, v) => Usable(inst', v)
    BY <1>3 DEF Usable
  <2>2. Usable(inst', c)
    BY <1>3 DEF Usable
  <2>3. ASSUME NEW v \in DOMAIN inst', NEW i \in DOMAIN inst'[v].opnds
        PROVE  Usable(inst', inst'[v].opnds[i])
    <3>1. CASE v = c
      BY <1>6, <1>7, <2>1, <2>3, <3>1
    <3>2. CASE v \in DOMAIN inst
      BY <1>3, <2>1, <2>3, <3>2 DEF DInv, OperandsOK
    <3>. QED  BY <1>3, <3>1, <3>2
  <2>4. ASSUME NEW x \in DOMAIN code', NEW i \in DOMAIN term'[x].opnds
        PROVE  Usable(inst', term'[x].opnds[i])
    <3>1. CASE x = b
      BY <1>6, <2>2, <2>4, <3>1
    <3>2. CASE x \in {th, el}
      BY <1>6, <2>4, <3>2
    <3>3. CASE x = t
      BY <1>1, <1>6, <2>1, <2>4, <3>3 DEF DInv, OperandsOK
    <3>4. CASE x \in DOMAIN code /\ x # b
      BY <1>6, <2>1, <2>4, <3>4 DEF DInv, OperandsOK
    <3>. QED  BY <1>2, <3>1, <3>2, <3>3, <3>4
  <2>. QED  BY <2>3, <2>4 DEF OperandsOK
<1>14. KindsOK'
  <2>. SUFFICES ASSUME NEW v \in DOMAIN inst' PROVE KindOK(v)'
    BY DEF KindsOK
  <2>1. CASE v = c
    BY <1>3, <2>1 DEF KindOK
  <2>2. CASE v \in DOMAIN inst
    <3>1. KindOK(v)
      BY <2>2 DEF DInv, KindsOK
    <3>2. Source(Origin(v))' = Source(Origin(v)) /\ Origin(v)' = Origin(v)
      BY <1>1, SameProgram DEF Source
    <3>. QED  BY <1>1, <1>3, <2>2, <3>1, <3>2 DEF KindOK
  <2>. QED  BY <1>3, <2>1, <2>2
<1>. QED  BY <1>12, <1>13, <1>14

LEMMA SplitDInv ==
  ASSUME Opaque, IInv, DInv, Split
  PROVE  DInv'
<1>1. PICK b, k, c, th, el, t : SplitOf(b, k, c, th, el, t)
  BY SplitDoes
<1>2. SplitOpnds(b, c, th, el, t)
  BY <1>1, SplitOperands
<1>3. Dominated(code', inst', term') /\ OperandsOK' /\ KindsOK'
  BY <1>1, <1>2, SplitDominated
<1>4. /\ b = Targets[next].block /\ next \in DOMAIN Targets /\ b \in DOMAIN code
      /\ th = <<b, "then", count>> /\ el = <<b, "else", count>> /\ t = <<b, "tail", count>>
      /\ t \notin DOMAIN code
      /\ pc = "target" /\ pc' = "clone" /\ tail' = t /\ at' = 1 /\ ToRemove' = {}
      /\ UNCHANGED <<prog, next, Targets, run>> /\ ReMapper' = ReMapper
      /\ next \in Nat
  BY <1>1, <1>2 DEF SplitOf, SplitNames, SplitOpnds, IInv, Counters
<1>5. \A x \in DOMAIN code : x # b => code'[x] = code[x]
  BY <1>1 DEF SplitOf, SplitCode
<1>6. \A v : Context(v)' = Context(v) /\ Unmapped(v)' = Unmapped(v)
  BY <1>4 DEF Context, Unmapped, Lookup
<1>7. \A i \in Awaited' : i \in Awaited /\ i # next /\ i \in DOMAIN Targets
  <2>1. DOMAIN Targets \subseteq Nat
    BY DEF IInv, TargetsOK, IsSeq
  <2>. QED  BY <1>4, <2>1 DEF Awaited
<1>8. \A i \in Awaited' : Targets[i].block \in DOMAIN code /\ Targets[i].block # b
  BY <1>4, <1>7 DEF IInv, TargetsOK
<1>9. ContextsOK'
  <2>1. ASSUME NEW i \in Awaited'
        PROVE  Ready(code', inst', term', Context(Targets[i].ctx), Targets[i].block)
    <3>1. Ready(code, inst, term, Context(Targets[i].ctx), Targets[i].block)
      BY <1>7 DEF DInv, ContextsOK
    <3>. QED  BY <1>1, <1>8, <3>1, SplitReady
  <2>. QED  BY <1>4, <1>6, <2>1 DEF ContextsOK
<1>10. AheadOK'
  <2>1. Pending' = {Targets[i].block : i \in Awaited'}
    BY <1>4 DEF Pending, Awaited
  <2>2. ASSUME NEW d \in Pending'
        PROVE  d \in Pending /\ d \in DOMAIN code /\ d # b
    <3>1. PICK i \in Awaited' : d = Targets[i].block
      BY <2>1
    <3>2. d \in Pending
      BY <1>4, <1>7, <3>1 DEF Pending, Awaited
    <3>. QED  BY <1>8, <3>1, <3>2
  <2>3. \A d \in Pending' : \A n \in DOMAIN code'[d] : Unmapped(code'[d][n])
    BY <1>5, <2>2 DEF DInv, AheadOK
  <2>4. b \in Pending
    BY <1>4 DEF Pending
  <2>5. ASSUME NEW n \in DOMAIN code'[t] PROVE Unmapped(code'[t][n])
    <3>1. t \in DOMAIN code'
      BY <1>1 DEF SplitOf, SplitCode
    <3>2. \E j \in DOMAIN code[b] : code'[t][n] = code[b][j]
      BY <1>1, <1>4, <2>5, <3>1, SplitPlaces
    <3>. QED  BY <2>4, <3>2 DEF DInv, AheadOK
  <2>. QED  BY <1>4, <1>6, <2>3, <2>5 DEF AheadOK
<1>11. VMapOK'
  <2>1. /\ DOMAIN VMap' = {"then", "else", "tail"}
        /\ \A s \in {"then", "else", "tail"} : DOMAIN VMap'[s] = {}
    BY <1>2 DEF SplitOpnds, DInv, VMapOK
  <2>2. \A n \in DOMAIN code'[t] : ~(n < 1)
    <3>1. DOMAIN code'[t] = 1..(Len(code[b]) + 1 - k)
      BY <1>1 DEF SplitOf, SplitCode
    <3>. QED  BY <3>1
  <2>3. \A s \in {"then", "else"} : \A d : SideOK(s, d)'
    BY <1>4, <2>1, <2>2 DEF SideOK
  <2>. QED  BY <1>4, <2>1, <2>3 DEF VMapOK
<1>. QED  BY <1>3, <1>9, <1>10, <1>11 DEF DInv
-----------------------------------------------------------------------------
\* What a round of cloneBB's loop makes of operands and maps.
IsReplaced(r, s, v, w) ==
  DOMAIN r = DOMAIN s /\ \A k \in DOMAIN s : r[k] = IF s[k] = v THEN w ELSE s[k]
MapFollows(new, old, v, w, clone) ==
  /\ DOMAIN new = (DOMAIN old \ {v}) \cup {w} /\ new[w] = clone
  /\ \A x \in DOMAIN old : x \notin {v, w} => new[x] = old[x]

CloneOpnds(v, w, tv, ev) ==
  /\ \A x \in DOMAIN inst : x # v \/ w = v => IsReplaced(inst'[x].opnds, inst[x].opnds, v, w)
  /\ IsReplaced(inst'[tv].opnds, Remap(inst[v].opnds, VMap["then"]), v, w)
  /\ IsReplaced(inst'[ev].opnds, Remap(inst[v].opnds, VMap["else"]), v, w)
  /\ w # v => inst'[w].opnds = <<tv, ev>> /\ inst[v].kind # "void"
  /\ \A x \in DOMAIN code : IsReplaced(term'[x].opnds, term[x].opnds, v, w)
  /\ DOMAIN VMap' = DOMAIN VMap
  /\ MapFollows(VMap'["then"], VMap["then"], v, w, tv)
  /\ MapFollows(VMap'["else"], VMap["else"], v, w, ev)
  /\ \A x \in DOMAIN VMap'["tail"] :
       VMap'["tail"][x] = x \/ (x \in DOMAIN VMap["tail"] /\ VMap'["tail"][x] = VMap["tail"][x])
  /\ \/ w = v /\ ReMapper' = ReMapper
     \/ w = <<v, "phi">> /\ ReMapper' = Extend(ReMapper, v, w)

LEMMA ClonedOpnds ==
  ASSUME IInv, NEW b, NEW v, NEW th, NEW el, NEW tv, NEW ev, UnderIIT(b, v, th, el, tv, ev)
  PROVE  /\ \A x \in DOMAIN inst : Cloned(v)[x] = inst[x]
         /\ Cloned(v)[tv].opnds = Remap(inst[v].opnds, VMap["then"])
         /\ Cloned(v)[ev].opnds = Remap(inst[v].opnds, VMap["else"])
<1>1. PICK i : i = inst[v]
  OBVIOUS
<1>2. i = [kind |-> i.kind, opnds |-> i.opnds, from |-> i.from]
  BY <1>1 DEF UnderIIT, IInv, InstsOK, IsInst
<1>3. PICK ot, oe : ot = Remap(i.opnds, VMap["then"]) /\ oe = Remap(i.opnds, VMap["else"])
  OBVIOUS
<1>4. PICK it, ie : /\ it = [kind |-> i.kind, opnds |-> ot, from |-> i.from]
                    /\ ie = [kind |-> i.kind, opnds |-> oe, from |-> i.from]
  OBVIOUS
<1>5. [i EXCEPT !.opnds = Remap(@, VMap["then"])] = it /\ [i EXCEPT !.opnds = Remap(@, VMap["else"])] = ie
  BY <1>2, <1>3, <1>4
<1>6. tv = Clone(v, "then") /\ ev = Clone(v, "else") /\ tv # ev /\ tv \notin DOMAIN inst /\ ev \notin DOMAIN inst
  BY DEF UnderIIT, Clone
<1>7. Cloned(v) = Extend(Extend(inst, tv, it), ev, ie)
  BY <1>1, <1>5, <1>6 DEF Cloned
<1>8. /\ \A x \in DOMAIN inst : Cloned(v)[x] = inst[x]
      /\ Cloned(v)[tv] = it /\ Cloned(v)[ev] = ie
  BY <1>6, <1>7 DEF Extend
<1>. QED  BY <1>1, <1>3, <1>4, <1>8

LEMMA VoidOperands ==
  ASSUME IInv, DOMAIN VMap = {"then", "else", "tail"}, CloneVoid,
         NEW b, NEW v, NEW th, NEW el, NEW tv, NEW ev,
         CloneOf(b, v, v, th, el, tv, ev)
  PROVE  CloneOpnds(v, v, tv, ev)
<1>1. /\ UnderIIT(b, v, th, el, tv, ev) /\ v = code[tail][at] /\ v \in DOMAIN inst
      /\ tv = <<v, "then">> /\ ev = <<v, "else">>
  BY DEF CloneOf, CloneNames, UnderIIT
<1>2. /\ inst' = Cloned(v) /\ VMap' = ClonedVMap(v)
      /\ term' = term /\ ReMapper' = ReMapper
  BY <1>1 DEF CloneVoid
<1>4. /\ DOMAIN VMap' = DOMAIN VMap /\ VMap'["tail"] = VMap["tail"]
      /\ VMap'["then"] = Extend(VMap["then"], v, tv) /\ VMap'["else"] = Extend(VMap["else"], v, ev)
  BY <1>1, <1>2 DEF ClonedVMap, Clone
<1>5. \A map, clone : MapFollows(Extend(map, v, clone), map, v, v, clone)
  BY DEF MapFollows, Extend
<1>6. \A s : IsReplaced(s, s, v, v)
  BY DEF IsReplaced
<1>7. /\ \A x \in DOMAIN inst : inst'[x] = inst[x]
      /\ inst'[tv].opnds = Remap(inst[v].opnds, VMap["then"])
      /\ inst'[ev].opnds = Remap(inst[v].opnds, VMap["else"])
  BY <1>1, <1>2, ClonedOpnds
<1>. QED  BY <1>2, <1>4, <1>5, <1>6, <1>7 DEF CloneOpnds

LEMMA ValueOperands ==
  ASSUME IInv, DOMAIN VMap = {"then", "else", "tail"}, CloneValue,
         NEW b, NEW v, NEW th, NEW el, NEW tv, NEW ev,
         CloneOf(b, v, <<v, "phi">>, th, el, tv, ev)
  PROVE  CloneOpnds(v, <<v, "phi">>, tv, ev)
<1>1. PICK w : w = <<v, "phi">>
  OBVIOUS
<1>2. /\ UnderIIT(b, v, th, el, tv, ev) /\ v = code[tail][at] /\ v \in DOMAIN inst
      /\ b = Targets[next].block /\ th = <<b, "then", count>> /\ el = <<b, "else", count>>
      /\ tv = <<v, "then">> /\ ev = <<v, "else">>
      /\ tv \notin DOMAIN inst /\ ev \notin DOMAIN inst /\ tv # ev
  BY DEF CloneOf, CloneNames, UnderIIT
<1>3. w \notin DOMAIN inst /\ w # tv /\ w # ev /\ w # v /\ tv # v /\ ev # v
  <2>1. CloneNames(b, v, w, th, el, tv, ev)
    BY <1>1 DEF CloneOf
  <2>2. w \notin DOMAIN inst \cup {tv, ev} \/ w = v
    BY <2>1 DEF CloneNames
  <2>3. inst[v].kind # "void"
    BY <1>2 DEF CloneValue
  <2>. QED  BY <1>2, <2>1, <2>2, <2>3 DEF CloneNames
<1>4. PICK iw : iw = [kind |-> "phi", opnds |-> <<tv, ev>>, from |-> <<th, el>>]
  OBVIOUS
<1>5. PICK new : new = Extend(Cloned(v), w, iw)
  OBVIOUS
<1>6. /\ inst' = [x \in DOMAIN new \ {v} |-> [new[x] EXCEPT !.opnds = Replaced(@, v, w)]]
      /\ term' = [x \in DOMAIN term |-> [term[x] EXCEPT !.opnds = Replaced(@, v, w)]]
      /\ VMap' = [s \in DOMAIN VMap |-> IF s = "tail" THEN Extend(VMap[s], w, w)
                                        ELSE Rekey(ClonedVMap(v)[s], v, w)]
      /\ ReMapper' = Extend(ReMapper, v, w)
  <2>1. \A x : Clone(x, "phi") = <<x, "phi">> /\ Clone(x, "then") = <<x, "then">> /\ Clone(x, "else") = <<x, "else">>
    BY DEF Clone
  <2>2. /\ inst' = [x \in DOMAIN new \ {v} |-> [new[x] EXCEPT !.opnds = Replaced(@, v, w)]]
        /\ term' = [x \in DOMAIN term |-> [term[x] EXCEPT !.opnds = Replaced(@, v, w)]]
    <3>1. /\ v = code[tail][at] /\ th = Side(Targets[next].block, "then") /\ el = Side(Targets[next].block, "else")
          /\ tv = Clone(v, "then") /\ ev = Clone(v, "else") /\ w = Clone(v, "phi")
      BY <1>1, <1>2, <2>1 DEF Side
    <3>2. iw = [kind |-> "phi", opnds |-> <<Clone(v, "then"), Clone(v, "else")>>,
                from |-> <<Side(Targets[next].block, "then"), Side(Targets[next].block, "else")>>]
      BY <1>4, <3>1
    <3>3. /\ inst' = [x \in DOMAIN Extend(Cloned(v), w, iw) \ {v} |->
                       [Extend(Cloned(v), w, iw)[x] EXCEPT !.opnds = Replaced(@, v, w)]]
          /\ term' = [x \in DOMAIN term |-> [term[x] EXCEPT !.opnds = Replaced(@, v, w)]]
      BY <3>1, <3>2, Zenon DEF CloneValue, Replaced
    <3>. QED  BY <1>5, <3>3
  <2>3. /\ VMap' = [s \in DOMAIN VMap |-> IF s = "tail" THEN Extend(VMap[s], w, w)
                                          ELSE Rekey(ClonedVMap(v)[s], v, w)]
        /\ ReMapper' = Extend(ReMapper, v, w)
    BY <1>1, <1>2, <2>1 DEF CloneValue
  <2>. QED  BY <2>2, <2>3
<1>7. /\ DOMAIN Cloned(v) = DOMAIN inst \cup {tv, ev}
      /\ \A x \in {tv, ev} : IsInst(Cloned(v)[x])
  <2>1. BothCloned(v, th, el, tv, ev)
    BY <1>2, ClonedDoes
  <2>. QED  BY <2>1 DEF BothCloned
<1>8. /\ \A x \in DOMAIN inst : Cloned(v)[x] = inst[x]
      /\ Cloned(v)[tv].opnds = Remap(inst[v].opnds, VMap["then"])
      /\ Cloned(v)[ev].opnds = Remap(inst[v].opnds, VMap["else"])
  BY <1>2, ClonedOpnds
<1>9. /\ DOMAIN new = DOMAIN inst \cup {tv, ev, w}
      /\ \A x \in DOMAIN inst : new[x] = inst[x]
      /\ new[tv] = Cloned(v)[tv] /\ new[ev] = Cloned(v)[ev]
      /\ new[w] = iw
  <2>1. PICK f : f = Cloned(v)
    OBVIOUS
  <2>2. new = [x \in DOMAIN f \cup {w} |-> IF x = w THEN iw ELSE f[x]]
    BY <1>5, <2>1 DEF Extend
  <2>3. DOMAIN f = DOMAIN inst \cup {tv, ev} /\ \A x \in DOMAIN inst : f[x] = inst[x]
    BY <1>7, <1>8, <2>1
  <2>4. \A x \in DOMAIN f : new[x] = f[x]
    BY <1>3, <2>2, <2>3
  <2>. QED  BY <2>1, <2>2, <2>3, <2>4
<1>10. ASSUME NEW i, IsInst(i)
       PROVE  IsReplaced([i EXCEPT !.opnds = Replaced(@, v, w)].opnds, i.opnds, v, w)
  <2>1. PICK o : o = Replaced(i.opnds, v, w)
    OBVIOUS
  <2>2. PICK j : j = [kind |-> i.kind, opnds |-> o, from |-> i.from]
    OBVIOUS
  <2>3. [i EXCEPT !.opnds = Replaced(@, v, w)] = j
    BY <1>10, <2>1, <2>2 DEF IsInst
  <2>4. j.opnds = o
    BY <2>2
  <2>5. IsReplaced(o, i.opnds, v, w)
    BY <2>1 DEF Replaced, IsReplaced
  <2>. QED  BY <2>3, <2>4, <2>5
<1>11. IsInst(iw) /\ iw.opnds = <<tv, ev>>
  BY <1>4 DEF IsInst
<1>12. \A x \in DOMAIN new : IsInst(new[x])
  BY <1>7, <1>9, <1>11 DEF IInv, InstsOK
<1>13. \A x \in DOMAIN new : x # v => IsReplaced(inst'[x].opnds, new[x].opnds, v, w)
  BY <1>6, <1>10, <1>12
<1>14. \A x \in DOMAIN inst : x # v => IsReplaced(inst'[x].opnds, inst[x].opnds, v, w)
  BY <1>9, <1>13
<1>15. /\ IsReplaced(inst'[tv].opnds, Remap(inst[v].opnds, VMap["then"]), v, w)
       /\ IsReplaced(inst'[ev].opnds, Remap(inst[v].opnds, VMap["else"]), v, w)
  BY <1>3, <1>8, <1>9, <1>13
<1>16. inst'[w].opnds = <<tv, ev>>
  <2>1. inst'[w] = [iw EXCEPT !.opnds = Replaced(@, v, w)]
    BY <1>3, <1>6, <1>9
  <2>2. Replaced(<<tv, ev>>, v, w) = <<tv, ev>>
    BY <1>3 DEF Replaced
  <2>3. [iw EXCEPT !.opnds = Replaced(@, v, w)].opnds = Replaced(<<tv, ev>>, v, w)
    BY <1>4
  <2>. QED  BY <2>1, <2>2, <2>3
<1>17. ASSUME NEW x \in DOMAIN code
       PROVE  IsReplaced(term'[x].opnds, term[x].opnds, v, w)
  <2>1. PICK t : t = term[x]
    OBVIOUS
  <2>2. t = [kind |-> t.kind, opnds |-> t.opnds, tgts |-> t.tgts] /\ x \in DOMAIN term
    BY <2>1 DEF IInv, TermsOK, IsTerm
  <2>3. PICK o : o = Replaced(t.opnds, v, w)
    OBVIOUS
  <2>4. PICK j : j = [kind |-> t.kind, opnds |-> o, tgts |-> t.tgts]
    OBVIOUS
  <2>5. [t EXCEPT !.opnds = Replaced(@, v, w)] = j /\ j.opnds = o
    BY <2>2, <2>3, <2>4
  <2>6. IsReplaced(o, t.opnds, v, w)
    BY <2>3 DEF Replaced, IsReplaced
  <2>. QED  BY <1>6, <2>1, <2>2, <2>5, <2>6
<1>18. DOMAIN VMap = {"then", "else", "tail"}
  OBVIOUS
<1>19. /\ DOMAIN VMap' = DOMAIN VMap /\ VMap'["tail"] = Extend(VMap["tail"], w, w)
       /\ VMap'["then"] = Rekey(Extend(VMap["then"], v, tv), v, w)
       /\ VMap'["else"] = Rekey(Extend(VMap["else"], v, ev), v, w)
  BY <1>2, <1>6, <1>18 DEF ClonedVMap, Clone
<1>20. \A map, clone : MapFollows(Rekey(Extend(map, v, clone), v, w), map, v, w, clone)
  <2>. SUFFICES ASSUME NEW map, NEW clone
                PROVE  MapFollows(Rekey(Extend(map, v, clone), v, w), map, v, w, clone)
    OBVIOUS
  <2>1. PICK m : m = Extend(map, v, clone)
    OBVIOUS
  <2>2. DOMAIN m = DOMAIN map \cup {v} /\ m[v] = clone /\ \A x \in DOMAIN map : x # v => m[x] = map[x]
    BY <2>1 DEF Extend
  <2>3. Rekey(m, v, w) = [x \in (DOMAIN m \ {v}) \cup {w} |-> IF x = w THEN m[v] ELSE m[x]]
    BY <2>2 DEF Rekey
  <2>. QED  BY <1>3, <2>1, <2>2, <2>3 DEF MapFollows
<1>21. \A x \in DOMAIN VMap'["tail"] :
         VMap'["tail"][x] = x \/ (x \in DOMAIN VMap["tail"] /\ VMap'["tail"][x] = VMap["tail"][x])
  BY <1>19 DEF Extend
<1>22. \A x \in DOMAIN inst : x # v \/ w = v => IsReplaced(inst'[x].opnds, inst[x].opnds, v, w)
  BY <1>3, <1>14
<1>23. \A x \in DOMAIN code : IsReplaced(term'[x].opnds, term[x].opnds, v, w)
  BY <1>17
<1>24. /\ MapFollows(VMap'["then"], VMap["then"], v, w, tv)
       /\ MapFollows(VMap'["else"], VMap["else"], v, w, ev)
  BY <1>19, <1>20
<1>25. ReMapper' = Extend(ReMapper, v, w)
  BY <1>6
<1>26. inst[v].kind # "void"
  BY <1>2 DEF CloneValue
<1>27. DOMAIN VMap' = DOMAIN VMap
  BY <1>19
<1>. HIDE DEF IsReplaced, MapFollows
<1>28. CloneOpnds(v, w, tv, ev)
  BY <1>1, <1>15, <1>16, <1>21, <1>22, <1>23, <1>24, <1>25, <1>26, <1>27, Zenon DEF CloneOpnds
<1>. QED  BY <1>1, <1>28
-----------------------------------------------------------------------------
(***************************************************************************)
(* The step of cloneBB's loop.  What v was there for, w is now.            *)
(***************************************************************************)
Swap(u, v, w) == IF u = v THEN w ELSE u

LEMMA CloneSits ==
  ASSUME IInv, NEW b, NEW v, NEW w, NEW th, NEW el, NEW tv, NEW ev, CloneOf(b, v, w, th, el, tv, ev),
         NEW u, NEW d, NEW m, Sits(code, u, d, m)
  PROVE  u \in DOMAIN inst /\ Sits(code', Swap(u, v, w), d, m)
<1>1. d \in DOMAIN code /\ m \in DOMAIN code[d] /\ code[d][m] = u
  BY DEF Sits
<1>2. DOMAIN code' = DOMAIN code /\ Stays(m, d) /\ code'[tail][at] = w
  BY <1>1, ClonePlaces DEF CloneMap
<1>3. u \in DOMAIN inst
  BY <1>1 DEF IInv, PlacesOK
<1>4. CASE d = tail /\ m = at
  <2>1. u = v
    BY <1>1, <1>4 DEF CloneOf, CloneNames, UnderIIT
  <2>. QED  BY <1>1, <1>2, <1>3, <1>4, <2>1 DEF Sits, Stays, Swap
<1>5. CASE ~(d = tail /\ m = at)
  <2>1. u # v
    BY <1>1, <1>5, OtherPlace
  <2>. QED  BY <1>1, <1>2, <1>3, <1>5, <2>1 DEF Sits, Stays, Swap
<1>. QED  BY <1>4, <1>5

LEMMA ClonePast ==
  ASSUME IInv, NEW b, NEW v, NEW w, NEW th, NEW el, NEW tv, NEW ev, CloneOf(b, v, w, th, el, tv, ev)
  PROVE  /\ Graph(term') /\ \A x, y : Past(term, x, y) => Past(term', x, y)
<1>1. Graph(term) /\ DOMAIN term = DOMAIN code
  BY GraphIs
<1>2. DOMAIN term' = DOMAIN term /\ \A x \in DOMAIN term : term'[x].tgts = term[x].tgts
  BY <1>1 DEF CloneOf, CloneTerms
<1>3. Graph(term')
  BY <1>1, <1>2 DEF Graph
<1>. QED  BY <1>1, <1>2, <1>3, SamePast

\* What is there for a place, or at the end of a block, still is.
LEMMA CloneThere ==
  ASSUME Opaque, IInv, NEW b, NEW v, NEW w, NEW th, NEW el, NEW tv, NEW ev,
         CloneOf(b, v, w, th, el, tv, ev), NEW u, NEW x, NEW n
  PROVE  /\ AtEnd(code, term, u, x) => AtEnd(code', term', Swap(u, v, w), x)
         /\ Before(code, term, u, x, n) => Before(code', term', Swap(u, v, w), x, n)
<1>1. v \in DOMAIN inst
  BY DEF CloneOf, CloneNames, UnderIIT
<1>2. Given(u) => Swap(u, v, w) = u
  BY <1>1, NotGiven DEF Swap
<1>3. \A d, m : Sits(code, u, d, m) => Sits(code', Swap(u, v, w), d, m)
  BY CloneSits
<1>4. \A y, z : Past(term, y, z) => Past(term', y, z)
  BY ClonePast
<1>5. AtEnd(code, term, u, x) => AtEnd(code', term', Swap(u, v, w), x)
  BY <1>2, <1>3, <1>4 DEF AtEnd
<1>6. Before(code, term, u, x, n) => Before(code', term', Swap(u, v, w), x, n)
  BY <1>2, <1>3, <1>4 DEF Before
<1>. QED  BY <1>5, <1>6

\* What is past the tail's dominators is there in the sides too.
LEMMA SidePast ==
  ASSUME IInv, NEW d \in DOMAIN code, NEW t, term[d].tgts = <<t>>, NEW e, e # t, Past(term, t, e)
  PROVE  Past(term, d, e)
<1>1. Graph(term) /\ d \in DOMAIN term
  BY GraphIs
<1>2. Closed(term, {e}, Reached(term, {e}))
  BY <1>1, ReachedIs
<1>3. PICK s : s = term[d].tgts
  OBVIOUS
<1>4. 1 \in DOMAIN s /\ s[1] = t
  BY <1>3
<1>. QED  BY <1>2, <1>3, <1>4 DEF Closed, Past

\* The operand that the clone in the side d takes for the operand o of v.
LEMMA SideOperand ==
  ASSUME Opaque, IInv, DInv, NEW b, NEW v, NEW w, NEW th, NEW el, NEW tv, NEW ev,
         CloneOf(b, v, w, th, el, tv, ev),
         NEW s, NEW d, \/ s = "then" /\ d = th
                       \/ s = "else" /\ d = el,
         NEW k \in DOMAIN inst[v].opnds, NEW r, r = Lookup(VMap[s], inst[v].opnds[k])
  PROVE  Usable(inst, r) /\ Before(code', term', Swap(r, v, w), d, Len(code[d]) + 1)
<1>1. PICK o : o = inst[v].opnds[k]
  OBVIOUS
<1>2. /\ v \in DOMAIN inst /\ inst[v].kind # "phi" /\ v = code[tail][at] /\ at \in DOMAIN code[tail]
      /\ tail \in DOMAIN code /\ d \in DOMAIN code /\ d # tail
      /\ b = Targets[next].block /\ th = <<b, "then", count>> /\ el = <<b, "else", count>>
      /\ pc = "clone"
  BY DEF CloneOf, CloneNames, UnderIIT
<1>3. SideOK(s, d)
  BY <1>2 DEF DInv, VMapOK, Side
<1>4. Usable(inst, o) /\ Before(code, term, o, tail, at)
  <2>1. Usable(inst, o)
    BY <1>1, <1>2 DEF DInv, OperandsOK
  <2>2. UsedWell(code, term, inst[v], tail, at, k)
    BY <1>1, <1>2 DEF DInv, Dominated
  <2>. QED  BY <1>1, <1>2, <2>1, <2>2 DEF UsedWell
<1>5. term[d].tgts = <<tail>>
  BY <1>2 DEF IInv, CloneOK, Diamond, Side
<1>6. \A m : m \in DOMAIN code[d] => m < Len(code[d]) + 1
  <2>1. code[d] \in Seq(DOMAIN inst)
    BY <1>2 DEF IInv, PlacesOK
  <2>. QED  BY <2>1
<1>7. CASE o \in DOMAIN VMap[s]
  <2>1. r = VMap[s][o]
    BY <1>1, <1>7 DEF Lookup
  <2>2. PICK m : Sits(code, r, d, m)
    BY <1>3, <1>7, <2>1 DEF SideOK
  <2>3. r \in DOMAIN inst /\ Sits(code', Swap(r, v, w), d, m)
    BY <2>2, CloneSits
  <2>4. m < Len(code[d]) + 1
    BY <1>6, <2>2 DEF Sits
  <2>5. inst[r].kind # "void"
    <3>. SUFFICES ASSUME inst[r].kind = "void" PROVE FALSE
      OBVIOUS
    <3>1. o \in ToRemove
      BY <1>3, <1>7, <2>1 DEF SideOK
    <3>2. o \in DOMAIN inst /\ inst[o].kind = "void"
      BY <1>2, <3>1 DEF DInv, VMapOK
    <3>. QED  BY <1>4, <3>2, NotGiven DEF Usable
  <2>6. Before(code', term', Swap(r, v, w), d, Len(code[d]) + 1)
    BY <2>3, <2>4 DEF Before
  <2>. QED  BY <2>3, <2>5, <2>6 DEF Usable
<1>8. CASE o \notin DOMAIN VMap[s]
  <2>1. r = o
    BY <1>1, <1>8 DEF Lookup
  <2>2. CASE Given(o)
    <3>1. Swap(r, v, w) = o
      BY <1>2, <2>1, <2>2, NotGiven DEF Swap
    <3>. QED  BY <1>4, <2>1, <2>2, <3>1 DEF Before
  <2>3. CASE ~Given(o)
    <3>1. PICK e, m : Sits(code, o, e, m) /\ IF e = tail THEN m < at ELSE Past(term, tail, e)
      BY <1>4, <2>3 DEF Before
    <3>2. e # tail
      <4>. SUFFICES ASSUME e = tail PROVE FALSE
        OBVIOUS
      <4>1. m \in DOMAIN code[tail] /\ m < at /\ code[tail][m] = o
        BY <3>1 DEF Sits
      <4>. QED  BY <1>3, <1>8, <4>1 DEF SideOK
    <3>3. Sits(code', Swap(r, v, w), e, m)
      BY <2>1, <3>1, CloneSits
    <3>4. Past(term, d, e)
      BY <1>2, <1>5, <3>1, <3>2, SidePast
    <3>5. Past(term', d, e)
      BY <3>4, ClonePast
    <3>6. e = d => m < Len(code[d]) + 1
      BY <1>6, <3>1 DEF Sits
    <3>7. Before(code', term', Swap(r, v, w), d, Len(code[d]) + 1)
      BY <3>3, <3>5, <3>6 DEF Before
    <3>. QED  BY <1>4, <2>1, <3>7
  <2>. QED  BY <2>2, <2>3
<1>. QED  BY <1>7, <1>8

LEMMA CloneDominated ==
  ASSUME Opaque, IInv, DInv, NEW b, NEW v, NEW w, NEW th, NEW el, NEW tv, NEW ev,
         CloneOf(b, v, w, th, el, tv, ev), CloneOpnds(v, w, tv, ev)
  PROVE  Dominated(code', inst', term')
<1>1. /\ {th, el, tail} \subseteq DOMAIN code /\ th # el /\ th # tail /\ el # tail
      /\ v \in DOMAIN inst /\ inst[v].kind # "phi" /\ v = code[tail][at] /\ at \in DOMAIN code[tail]
  BY DEF CloneOf, CloneNames, UnderIIT
<1>2. /\ DOMAIN code' = DOMAIN code
      /\ \A x \in DOMAIN code : \A n \in DOMAIN code'[x] : CloneAt(n, x, w, th, el, tv, ev)
      /\ Len(code[th]) + 1 \in DOMAIN code'[th] /\ code'[th][Len(code[th]) + 1] = tv
      /\ Len(code[el]) + 1 \in DOMAIN code'[el] /\ code'[el][Len(code[el]) + 1] = ev
  BY ClonePlaces DEF CloneMap
<1>3. /\ \A u \in {tv, ev} : inst'[u].kind = inst[v].kind
      /\ w # v => inst'[w].kind = "phi" /\ inst'[w].from = <<th, el>>
      /\ w = v => KeptInst(inst'[v], inst[v], v)
  BY <1>1 DEF CloneOf, CloneInsts
<1>4. /\ \A x \in DOMAIN inst : x # v \/ w = v => IsReplaced(inst'[x].opnds, inst[x].opnds, v, w)
      /\ IsReplaced(inst'[tv].opnds, Remap(inst[v].opnds, VMap["then"]), v, w)
      /\ IsReplaced(inst'[ev].opnds, Remap(inst[v].opnds, VMap["else"]), v, w)
      /\ w # v => inst'[w].opnds = <<tv, ev>>
      /\ \A x \in DOMAIN code : IsReplaced(term'[x].opnds, term[x].opnds, v, w)
  BY DEF CloneOpnds
\* The clone in one of the sides.
<1>5. ASSUME NEW s, NEW d, NEW u, \/ s = "then" /\ d = th /\ u = tv
                                  \/ s = "else" /\ d = el /\ u = ev,
             NEW k \in DOMAIN inst'[u].opnds
      PROVE  UsedWell(code', term', inst'[u], d, Len(code[d]) + 1, k)
  <2>1. IsReplaced(inst'[u].opnds, Remap(inst[v].opnds, VMap[s]), v, w)
    BY <1>4, <1>5
  <2>2. k \in DOMAIN inst[v].opnds
    BY <1>5, <2>1 DEF IsReplaced, Remap
  <2>3. PICK r : r = Lookup(VMap[s], inst[v].opnds[k])
    OBVIOUS
  <2>4. Remap(inst[v].opnds, VMap[s])[k] = r /\ k \in DOMAIN Remap(inst[v].opnds, VMap[s])
    BY <2>2, <2>3 DEF Remap
  <2>5. inst'[u].opnds[k] = Swap(r, v, w)
    BY <2>1, <2>4 DEF IsReplaced, Swap
  <2>6. Before(code', term', Swap(r, v, w), d, Len(code[d]) + 1)
    <3>1. \/ s = "then" /\ d = th
          \/ s = "else" /\ d = el
      BY <1>5
    <3>. QED  BY <2>2, <2>3, <3>1, SideOperand
  <2>. QED  BY <1>1, <1>3, <1>5, <2>5, <2>6 DEF UsedWell
\* An instruction that stays.
<1>6. ASSUME NEW x \in DOMAIN code, NEW n \in DOMAIN code[x], NEW u, u = code[x][n],
             u \in DOMAIN inst, u # v \/ w = v, KeptInst(inst'[u], inst[u], v),
             NEW k \in DOMAIN inst'[u].opnds
      PROVE  UsedWell(code', term', inst'[u], x, n, k)
  <2>1. IsReplaced(inst'[u].opnds, inst[u].opnds, v, w)
    BY <1>4, <1>6
  <2>2. k \in DOMAIN inst[u].opnds /\ inst'[u].opnds[k] = Swap(inst[u].opnds[k], v, w)
    BY <1>6, <2>1 DEF IsReplaced, Swap
  <2>3. UsedWell(code, term, inst[u], x, n, k)
    BY <1>6, <2>2 DEF DInv, Dominated
  <2>4. inst'[u].kind = inst[u].kind /\ inst'[u].from = inst[u].from
    BY <1>6 DEF KeptInst
  <2>. QED  BY <2>2, <2>3, <2>4, CloneThere DEF UsedWell
<1>7. ASSUME NEW x \in DOMAIN code', NEW n \in DOMAIN code'[x], NEW k \in DOMAIN inst'[code'[x][n]].opnds
      PROVE  UsedWell(code', term', inst'[code'[x][n]], x, n, k)
  <2>1. CloneAt(n, x, w, th, el, tv, ev) /\ x \in DOMAIN code
    BY <1>2, <1>7
  <2>2. CASE x = th /\ n = Len(code[th]) + 1 /\ code'[x][n] = tv
    BY <1>5, <1>7, <2>2
  <2>3. CASE x = el /\ n = Len(code[el]) + 1 /\ code'[x][n] = ev
    BY <1>5, <1>7, <2>3
  <2>4. CASE x = tail /\ n = at /\ code'[x][n] = w
    <3>1. CASE w = v
      <4>1. KeptInst(inst'[v], inst[v], v)
        BY <1>3, <3>1
      <4>. QED  BY <1>1, <1>6, <1>7, <2>4, <3>1, <4>1
    <3>2. CASE w # v
      <4>1. inst'[w].opnds = <<tv, ev>> /\ inst'[w].kind = "phi" /\ inst'[w].from = <<th, el>>
        BY <1>3, <1>4, <3>2
      <4>2. \/ k = 1 /\ inst'[w].opnds[k] = tv /\ inst'[w].from[k] = th
            \/ k = 2 /\ inst'[w].opnds[k] = ev /\ inst'[w].from[k] = el
        BY <1>7, <2>4, <4>1
      <4>3. Past(term', th, th) /\ Past(term', el, el)
        BY ClonePast, PastSelf
      <4>4. AtEnd(code', term', tv, th) /\ AtEnd(code', term', ev, el)
        BY <1>1, <1>2, <4>3 DEF AtEnd, Sits
      <4>. QED  BY <2>4, <4>1, <4>2, <4>4 DEF UsedWell
    <3>. QED  BY <3>1, <3>2
  <2>5. CASE n \in DOMAIN code[x] /\ code'[x][n] = code[x][n] /\ ~(x = tail /\ n = at)
    <3>1. /\ code[x][n] \in DOMAIN inst /\ code[x][n] # v
          /\ KeptInst(inst'[code[x][n]], inst[code[x][n]], v)
      BY <2>1, <2>5, OtherPlace
    <3>. QED  BY <1>6, <1>7, <2>1, <2>5, <3>1
  <2>. QED  BY <2>1, <2>2, <2>3, <2>4, <2>5 DEF CloneAt
<1>8. ASSUME NEW x \in DOMAIN code', NEW k \in DOMAIN term'[x].opnds
      PROVE  AtEnd(code', term', term'[x].opnds[k], x)
  <2>1. IsReplaced(term'[x].opnds, term[x].opnds, v, w)
    BY <1>2, <1>4
  <2>2. k \in DOMAIN term[x].opnds /\ term'[x].opnds[k] = Swap(term[x].opnds[k], v, w)
    BY <1>8, <2>1 DEF IsReplaced, Swap
  <2>3. AtEnd(code, term, term[x].opnds[k], x)
    BY <1>2, <2>2 DEF DInv, Dominated
  <2>. QED  BY <2>2, <2>3, CloneThere
<1>. QED  BY <1>7, <1>8 DEF Dominated

LEMMA CloneUsable ==
  ASSUME Opaque, IInv, NEW b, NEW v, NEW w, NEW th, NEW el, NEW tv, NEW ev,
         CloneOf(b, v, w, th, el, tv, ev), CloneOpnds(v, w, tv, ev), NEW u, Usable(inst, u)
  PROVE  Usable(inst', Swap(u, v, w))
<1>1. /\ v \in DOMAIN inst
      /\ DOMAIN inst' = (DOMAIN inst \ {v}) \cup {w, tv, ev}
      /\ \A x \in DOMAIN inst : x # v \/ w = v => inst'[x].kind = inst[x].kind
      /\ w # v => inst'[w].kind = "phi"
  BY DEF CloneOf, CloneNames, UnderIIT, CloneInsts, KeptInst
<1>2. CASE Given(u)
  BY <1>1, <1>2, NotGiven DEF Usable, Swap
<1>3. CASE u \in DOMAIN inst /\ inst[u].kind # "void"
  <2>1. CASE u = v
    BY <1>1, <1>3, <2>1 DEF Usable, Swap
  <2>2. CASE u # v
    BY <1>1, <1>3, <2>2 DEF Usable, Swap
  <2>. QED  BY <2>1, <2>2
<1>. QED  BY <1>2, <1>3 DEF Usable

LEMMA CloneOperandsOK ==
  ASSUME Opaque, IInv, DInv, NEW b, NEW v, NEW w, NEW th, NEW el, NEW tv, NEW ev,
         CloneOf(b, v, w, th, el, tv, ev), CloneOpnds(v, w, tv, ev)
  PROVE  OperandsOK'
<1>1. /\ v \in DOMAIN inst
      /\ DOMAIN inst' = (DOMAIN inst \ {v}) \cup {w, tv, ev} /\ DOMAIN code' = DOMAIN code
      /\ \A x \in {tv, ev} : inst'[x].kind = inst[v].kind
  BY DEF CloneOf, CloneNames, UnderIIT, CloneInsts, CloneCode
<1>2. /\ \A x \in DOMAIN inst : x # v \/ w = v => IsReplaced(inst'[x].opnds, inst[x].opnds, v, w)
      /\ IsReplaced(inst'[tv].opnds, Remap(inst[v].opnds, VMap["then"]), v, w)
      /\ IsReplaced(inst'[ev].opnds, Remap(inst[v].opnds, VMap["else"]), v, w)
      /\ w # v => inst'[w].opnds = <<tv, ev>> /\ inst[v].kind # "void"
      /\ \A x \in DOMAIN code : IsReplaced(term'[x].opnds, term[x].opnds, v, w)
  BY DEF CloneOpnds
<1>3. ASSUME NEW x \in DOMAIN inst, x # v \/ w = v, NEW k \in DOMAIN inst'[x].opnds
      PROVE  Usable(inst', inst'[x].opnds[k])
  <2>1. k \in DOMAIN inst[x].opnds /\ inst'[x].opnds[k] = Swap(inst[x].opnds[k], v, w)
    BY <1>2, <1>3 DEF IsReplaced, Swap
  <2>2. Usable(inst, inst[x].opnds[k])
    BY <2>1 DEF DInv, OperandsOK
  <2>. QED  BY <2>1, <2>2, CloneUsable
<1>4. ASSUME NEW s, NEW d, NEW u, \/ s = "then" /\ d = th /\ u = tv
                                  \/ s = "else" /\ d = el /\ u = ev,
             NEW k \in DOMAIN inst'[u].opnds
      PROVE  Usable(inst', inst'[u].opnds[k])
  <2>1. IsReplaced(inst'[u].opnds, Remap(inst[v].opnds, VMap[s]), v, w)
    BY <1>2, <1>4
  <2>2. k \in DOMAIN inst[v].opnds
    BY <1>4, <2>1 DEF IsReplaced, Remap
  <2>3. PICK r : r = Lookup(VMap[s], inst[v].opnds[k])
    OBVIOUS
  <2>4. Remap(inst[v].opnds, VMap[s])[k] = r /\ k \in DOMAIN Remap(inst[v].opnds, VMap[s])
    BY <2>2, <2>3 DEF Remap
  <2>5. inst'[u].opnds[k] = Swap(r, v, w)
    BY <2>1, <2>4 DEF IsReplaced, Swap
  <2>6. Usable(inst, r)
    <3>1. \/ s = "then" /\ d = th
          \/ s = "else" /\ d = el
      BY <1>4
    <3>. QED  BY <2>2, <2>3, <3>1, SideOperand
  <2>. QED  BY <2>5, <2>6, CloneUsable
<1>5. ASSUME NEW x \in DOMAIN inst', NEW k \in DOMAIN inst'[x].opnds
      PROVE  Usable(inst', inst'[x].opnds[k])
  <2>1. CASE x = tv \/ x = ev
    BY <1>4, <1>5, <2>1
  <2>2. CASE x = w /\ w # v
    <3>1. inst'[x].opnds[k] \in {tv, ev}
      BY <1>2, <1>5, <2>2
    <3>. QED  BY <1>1, <1>2, <2>2, <3>1 DEF Usable
  <2>3. CASE x \in DOMAIN inst /\ (x # v \/ w = v)
    BY <1>3, <1>5, <2>3
  <2>. QED  BY <1>1, <1>5, <2>1, <2>2, <2>3
<1>6. ASSUME NEW x \in DOMAIN code', NEW k \in DOMAIN term'[x].opnds
      PROVE  Usable(inst', term'[x].opnds[k])
  <2>1. IsReplaced(term'[x].opnds, term[x].opnds, v, w) /\ x \in DOMAIN code
    BY <1>1, <1>2
  <2>2. k \in DOMAIN term[x].opnds /\ term'[x].opnds[k] = Swap(term[x].opnds[k], v, w)
    BY <1>6, <2>1 DEF IsReplaced, Swap
  <2>3. Usable(inst, term[x].opnds[k])
    BY <2>1, <2>2 DEF DInv, OperandsOK
  <2>. QED  BY <2>2, <2>3, CloneUsable
<1>. QED  BY <1>5, <1>6 DEF OperandsOK

\* A clone comes from where the cloned comes from.
LEMMA CloneOrigin ==
  ASSUME Opaque, IInv, NEW v \in DOMAIN inst, OldValue(v), inst[v].kind # "cond", NEW s
  PROVE  Origin(<<v, s>>) = Origin(v)
<1>1. prog \in Programs
  BY DEF IInv, Counters
<1>2. PICK x : x = <<v, s>>
  OBVIOUS
<1>3. ~Original(x) /\ x[1] = v /\ Len(x) = 2
  BY <1>1, <1>2, NoTuple
<1>4. CASE Source(v)
  <2>1. Original(v)
    BY <1>4 DEF Source, Original
  <2>2. Origin(x) = v /\ Origin(v) = v
    BY <1>3, <2>1 DEF Origin
  <2>. QED  BY <1>2, <2>2
<1>5. CASE Stamped(v, count)
  <2>1. ~Original(v)
    BY <1>1, <1>5, NoTuple DEF Stamped
  <2>2. Len(v) = 3
    BY <1>5 DEF Stamped
  <2>3. IsCompare(v)
    BY <2>1, <2>2 DEF IsCompare
  <2>4. inst[v].kind = "cond"
    BY <2>3 DEF IInv, InstsOK
  <2>. QED  BY <2>4
<1>6. CASE Pair(v) /\ Source(v[1])
  <2>1. ~Original(v) /\ Original(v[1])
    BY <1>1, <1>6, NoTuple DEF Pair, Source, Original
  <2>2. Len(v) = 2
    BY <1>6 DEF Pair
  <2>3. ~IsCompare(v)
    BY <2>2 DEF IsCompare
  <2>4. Origin(v) = v[1]
    BY <2>1 DEF Origin
  <2>5. Origin(x) = v[1]
    BY <1>3, <2>1, <2>3 DEF Origin
  <2>. QED  BY <1>2, <2>4, <2>5
<1>. QED  BY <1>4, <1>5, <1>6, OldShape

LEMMA CloneKindsOK ==
  ASSUME Opaque, IInv, DInv, NEW b, NEW v, NEW w, NEW th, NEW el, NEW tv, NEW ev,
         CloneOf(b, v, w, th, el, tv, ev), CloneOpnds(v, w, tv, ev)
  PROVE  KindsOK'
<1>1. /\ v \in DOMAIN inst /\ OldValue(v) /\ inst[v].kind # "phi"
      /\ tv = <<v, "then">> /\ ev = <<v, "else">> /\ prog' = prog
      /\ DOMAIN inst' = (DOMAIN inst \ {v}) \cup {w, tv, ev}
      /\ \A x \in DOMAIN inst : x # v \/ w = v => KeptInst(inst'[x], inst[x], v)
      /\ \A x \in {tv, ev} : inst'[x].kind = inst[v].kind
      /\ w # v => inst'[w].kind = "phi" /\ inst'[w].from = <<th, el>>
  BY DEF CloneOf, CloneNames, UnderIIT, CloneInsts
<1>2. \A x : Origin(x)' = Origin(x) /\ Source(x)' = Source(x)
  BY <1>1, SameProgram
<1>3. ASSUME NEW x \in DOMAIN inst' PROVE KindOK(x)'
  <2>1. CASE x = tv \/ x = ev
    <3>1. inst[v].kind = "void" => Source(Origin(v)) /\ prog.inst[Origin(v)].kind = "void"
      BY <1>1 DEF DInv, KindsOK, KindOK
    <3>2. inst[v].kind = "void" => Origin(x) = Origin(v)
      BY <1>1, <2>1, CloneOrigin
    <3>3. inst'[x].kind = inst[v].kind
      BY <1>1, <2>1
    <3>. QED  BY <1>1, <1>2, <3>1, <3>2, <3>3 DEF KindOK
  <2>2. CASE x = w /\ w # v
    <3>1. inst'[x].opnds = <<tv, ev>> /\ inst'[x].from = <<th, el>> /\ inst'[x].kind = "phi"
      BY <1>1, <2>2 DEF CloneOpnds
    <3>. QED  BY <3>1 DEF KindOK
  <2>3. CASE x \in DOMAIN inst /\ (x # v \/ w = v)
    <3>1. KindOK(x)
      BY <2>3 DEF DInv, KindsOK
    <3>2. /\ inst'[x].kind = inst[x].kind /\ inst'[x].from = inst[x].from
          /\ DOMAIN inst'[x].opnds = DOMAIN inst[x].opnds
      BY <1>1, <2>3 DEF KeptInst
    <3>. QED  BY <1>1, <1>2, <3>1, <3>2 DEF KindOK
  <2>. QED  BY <1>1, <2>1, <2>2, <2>3
<1>. QED  BY <1>3 DEF KindsOK

\* A context value is found under the name of what replaced it.
LEMMA CloneContext ==
  ASSUME AheadOK, pc = "clone", NEW v, NEW w, NEW tv, NEW ev, CloneOpnds(v, w, tv, ev),
         tail \in DOMAIN code, at \in DOMAIN code[tail], at \in Nat, v = code[tail][at], NEW ctx
  PROVE  Context(ctx)' = Swap(Context(ctx), v, w)
<1>1. Unmapped(v)
  <2>1. at >= at
    OBVIOUS
  <2>. QED  BY <2>1 DEF AheadOK
<1>2. \/ w = v /\ ReMapper' = ReMapper
      \/ ReMapper' = Extend(ReMapper, v, w)
  BY DEF CloneOpnds
<1>3. PICK f : f = ReMapper
  OBVIOUS
<1>4. PICK g : g = ReMapper'
  OBVIOUS
<1>5. Context(ctx) = (IF ctx \in DOMAIN f THEN f[ctx] ELSE ctx)
  BY <1>3 DEF Context, Lookup
<1>6. Context(ctx)' = (IF ctx \in DOMAIN g THEN g[ctx] ELSE ctx)
  BY <1>4 DEF Context, Lookup
<1>7. v \notin DOMAIN f /\ \A x \in DOMAIN f : f[x] # v
  BY <1>1, <1>3 DEF Unmapped
<1>8. CASE w = v /\ g = f
  BY <1>5, <1>6, <1>8 DEF Swap
<1>9. CASE g = Extend(f, v, w)
  <2>1. DOMAIN g = DOMAIN f \cup {v} /\ g[v] = w /\ \A x \in DOMAIN f : x # v => g[x] = f[x]
    BY <1>9 DEF Extend
  <2>2. CASE ctx = v
    BY <1>5, <1>6, <1>7, <2>1, <2>2 DEF Swap
  <2>3. CASE ctx # v
    BY <1>5, <1>6, <1>7, <2>1, <2>3 DEF Swap
  <2>. QED  BY <2>2, <2>3
<1>. QED  BY <1>2, <1>3, <1>4, <1>8, <1>9

LEMMA CloneContextsOK ==
  ASSUME Opaque, IInv, DInv, NEW b, NEW v, NEW w, NEW th, NEW el, NEW tv, NEW ev,
         CloneOf(b, v, w, th, el, tv, ev), CloneOpnds(v, w, tv, ev)
  PROVE  ContextsOK'
<1>1. /\ pc = "clone" /\ pc' = "clone" /\ UNCHANGED <<next, Targets>>
      /\ tail \in DOMAIN code /\ at \in DOMAIN code[tail] /\ at \in Nat /\ v = code[tail][at]
      /\ v \in DOMAIN inst
      /\ DOMAIN inst' = (DOMAIN inst \ {v}) \cup {w, tv, ev}
      /\ \A x \in DOMAIN inst : x # v \/ w = v => inst'[x].kind = inst[x].kind
      /\ w # v => inst'[w].kind = "phi"
  BY DEF CloneOf, CloneNames, UnderIIT, CloneInsts, KeptInst
<1>2. Awaited' = Awaited
  BY <1>1 DEF Awaited
<1>3. ASSUME NEW i \in Awaited
      PROVE  Ready(code', inst', term', Context(Targets[i].ctx)', Targets[i].block)
  <2>1. PICK u : u = Context(Targets[i].ctx)
    OBVIOUS
  <2>2. AheadOK
    BY DEF DInv
  <2>3. Context(Targets[i].ctx)' = Swap(u, v, w)
    <3>1. \A ctx : Context(ctx)' = Swap(Context(ctx), v, w)
      BY <1>1, <2>2, CloneContext
    <3>. QED  BY <1>1, <2>1, <3>1 DEF Context
  <2>4. Ready(code, inst, term, u, Targets[i].block)
    BY <2>1 DEF DInv, ContextsOK
  <2>5. CASE u \in Args
    <3>1. u # v
      BY <1>1, <2>5, NotGiven DEF Given
    <3>. QED  BY <2>3, <2>5, <3>1 DEF Ready, Swap
  <2>6. CASE ~(u \in Args)
    <3>1. PICK d, m : Sits(code, u, d, m) /\ d # Targets[i].block /\ Past(term, Targets[i].block, d)
      BY <2>4, <2>6 DEF Ready
    <3>2. u \in DOMAIN inst /\ Sits(code', Swap(u, v, w), d, m)
      BY <3>1, CloneSits
    <3>3. Past(term', Targets[i].block, d)
      BY <3>1, ClonePast
    <3>4. inst[u].kind # "void"
      BY <2>4, <2>6 DEF Ready
    <3>5. inst'[Swap(u, v, w)].kind # "void"
      <4>1. CASE u = v
        BY <1>1, <3>4, <4>1 DEF Swap
      <4>2. CASE u # v
        BY <1>1, <3>2, <3>4, <4>2 DEF Swap
      <4>. QED  BY <4>1, <4>2
    <3>. QED  BY <2>3, <3>1, <3>2, <3>3, <3>5 DEF Ready
  <2>. QED  BY <2>5, <2>6
<1>. QED  BY <1>1, <1>2, <1>3 DEF ContextsOK

\* The blocks still to be duplicated are none of the parts of this one.
LEMMA PendingApart ==
  ASSUME Opaque, IInv, NEW b, NEW v, NEW w, NEW th, NEW el, NEW tv, NEW ev,
         CloneOf(b, v, w, th, el, tv, ev), NEW d \in Pending
  PROVE  d \in DOMAIN code /\ d # tail /\ code'[d] = code[d]
<1>1. /\ pc = "clone" /\ tail = <<b, "tail", count>> /\ th = <<b, "then", count>> /\ el = <<b, "else", count>>
      /\ \A x \in DOMAIN code : x \notin {th, el, tail} => code'[x] = code[x]
  BY DEF CloneOf, CloneNames, UnderIIT, CloneCode
<1>2. prog \in Programs /\ count \in Nat
  BY DEF IInv, Counters
<1>3. d \in DOMAIN code
  BY <1>1 DEF Pending, IInv, TargetsOK
<1>4. OldBlock(d)
  BY DEF IInv, PendingOld
<1>5. \A s : <<b, s, count>> \notin Blocks
  BY <1>2, NoTuple
<1>6. \A s : ~Stamped(<<b, s, count>>, count)
  BY <1>2 DEF Stamped
<1>7. \A s : ~OldBlock(<<b, s, count>>)
  BY <1>5, <1>6 DEF OldBlock, Part
<1>8. d \notin {th, el, tail}
  BY <1>1, <1>4, <1>7
<1>. QED  BY <1>1, <1>3, <1>8

LEMMA CloneAheadOK ==
  ASSUME Opaque, IInv, DInv, NEW b, NEW v, NEW w, NEW th, NEW el, NEW tv, NEW ev,
         CloneOf(b, v, w, th, el, tv, ev), CloneOpnds(v, w, tv, ev)
  PROVE  AheadOK'
<1>1. /\ pc = "clone" /\ pc' = "clone" /\ UNCHANGED <<next, Targets, tail>> /\ at' = at + 1
      /\ tail \in DOMAIN code /\ at \in DOMAIN code[tail] /\ at \in Nat
      /\ w = v \/ w \notin DOMAIN inst
      /\ DOMAIN code'[tail] = DOMAIN code[tail]
      /\ \A n \in DOMAIN code[tail] : n # at => code'[tail][n] = code[tail][n]
  BY DEF CloneOf, CloneNames, UnderIIT, CloneCode
<1>2. Pending' = Pending
  BY <1>1 DEF Pending
<1>3. \/ ReMapper' = ReMapper
      \/ ReMapper' = Extend(ReMapper, v, w)
  BY DEF CloneOpnds
<1>4. ASSUME NEW u \in DOMAIN inst, u # v, Unmapped(u)
      PROVE  Unmapped(u)'
  <2>1. CASE ReMapper' = ReMapper
    BY <1>4, <2>1 DEF Unmapped
  <2>2. CASE ReMapper' = Extend(ReMapper, v, w)
    <3>1. PICK f, g : f = ReMapper /\ g = ReMapper'
      OBVIOUS
    <3>2. u \notin DOMAIN f /\ \A x \in DOMAIN f : f[x] # u
      BY <1>4, <3>1 DEF Unmapped
    <3>3. DOMAIN g = DOMAIN f \cup {v} /\ \A x \in DOMAIN g : g[x] = IF x = v THEN w ELSE f[x]
      BY <2>2, <3>1 DEF Extend
    <3>4. u \notin DOMAIN g /\ \A x \in DOMAIN g : g[x] # u
      BY <1>1, <1>4, <2>2, <3>2, <3>3
    <3>. QED  BY <3>1, <3>4 DEF Unmapped
  <2>. QED  BY <1>3, <2>1, <2>2
<1>5. ASSUME NEW d \in Pending, NEW n \in DOMAIN code'[d]
      PROVE  Unmapped(code[d][n])'
  <2>1. d \in DOMAIN code /\ d # tail /\ code'[d] = code[d]
    BY PendingApart
  <2>2. PICK u : u = code[d][n]
    OBVIOUS
  <2>3. u \in DOMAIN inst /\ u # v
    BY <1>5, <2>1, <2>2, OtherPlace
  <2>4. Unmapped(u)
    BY <1>5, <2>1, <2>2 DEF DInv, AheadOK
  <2>5. Unmapped(u)'
    BY <1>4, <2>3, <2>4
  <2>. QED  BY <2>1, <2>2, <2>5 DEF Unmapped
<1>6. ASSUME NEW n \in DOMAIN code'[tail], n >= at + 1
      PROVE  Unmapped(code[tail][n])'
  <2>1. n \in DOMAIN code[tail] /\ n \in Nat
    <3>1. code[tail] \in Seq(DOMAIN inst)
      BY <1>1 DEF IInv, PlacesOK
    <3>. QED  BY <1>1, <1>6, <3>1
  <2>2. n # at /\ n >= at
    BY <1>1, <1>6, <2>1
  <2>3. PICK u : u = code[tail][n]
    OBVIOUS
  <2>4. u \in DOMAIN inst /\ u # v
    BY <1>1, <2>1, <2>2, <2>3, OtherPlace
  <2>5. Unmapped(u)
    BY <1>1, <2>1, <2>2, <2>3 DEF DInv, AheadOK
  <2>6. Unmapped(u)'
    BY <1>4, <2>4, <2>5
  <2>. QED  BY <1>1, <2>1, <2>2, <2>3, <2>6 DEF Unmapped
<1>. QED  BY <1>1, <1>2, <1>5, <1>6 DEF AheadOK

LEMMA CloneVMapOK ==
  ASSUME Opaque, IInv, DInv, NEW b, NEW v, NEW w, NEW th, NEW el, NEW tv, NEW ev,
         CloneOf(b, v, w, th, el, tv, ev), CloneOpnds(v, w, tv, ev)
  PROVE  VMapOK'
<1>1. /\ pc = "clone" /\ pc' = "clone" /\ UNCHANGED <<next, Targets, tail, count>> /\ at' = at + 1
      /\ {th, el, tail} \subseteq DOMAIN code /\ th # tail /\ el # tail
      /\ at \in DOMAIN code[tail] /\ at \in Nat /\ v = code[tail][at] /\ v \in DOMAIN inst /\ v \notin ToRemove
      /\ b = Targets[next].block /\ th = <<b, "then", count>> /\ el = <<b, "else", count>>
      /\ \/ w = v /\ inst[v].kind = "void" /\ ToRemove' = ToRemove \cup {v}
         \/ w # v /\ ToRemove' = ToRemove
      /\ DOMAIN inst' = (DOMAIN inst \ {v}) \cup {w, tv, ev}
      /\ \A x \in DOMAIN inst : x # v \/ w = v => inst'[x].kind = inst[x].kind
      /\ \A x \in {tv, ev} : inst'[x].kind = inst[v].kind
  BY DEF CloneOf, CloneNames, UnderIIT, CloneInsts, KeptInst
<1>2. /\ DOMAIN code' = DOMAIN code
      /\ Len(code[th]) + 1 \in DOMAIN code'[th] /\ code'[th][Len(code[th]) + 1] = tv
      /\ Len(code[el]) + 1 \in DOMAIN code'[el] /\ code'[el][Len(code[el]) + 1] = ev
      /\ DOMAIN code'[tail] = DOMAIN code[tail] /\ code'[tail][at] = w
      /\ \A n \in DOMAIN code[tail] : n # at => code'[tail][n] = code[tail][n]
  <2>1. CloneMap(w, th, el, tv, ev)
    BY ClonePlaces
  <2>. QED  BY <2>1 DEF CloneMap, CloneOf, CloneCode
<1>3. /\ DOMAIN VMap' = DOMAIN VMap
      /\ MapFollows(VMap'["then"], VMap["then"], v, w, tv)
      /\ MapFollows(VMap'["else"], VMap["else"], v, w, ev)
      /\ \A x \in DOMAIN VMap'["tail"] :
           VMap'["tail"][x] = x \/ (x \in DOMAIN VMap["tail"] /\ VMap'["tail"][x] = VMap["tail"][x])
      /\ w # v => inst[v].kind # "void"
  BY DEF CloneOpnds
<1>4. /\ DOMAIN VMap = {"then", "else", "tail"}
      /\ SideOK("then", th) /\ SideOK("else", el)
      /\ \A x \in DOMAIN VMap["tail"] : VMap["tail"][x] = x
      /\ \A x \in ToRemove : x \in DOMAIN inst /\ inst[x].kind = "void"
  BY <1>1 DEF DInv, VMapOK, Side
<1>5. ASSUME NEW s, NEW d, NEW u, \/ s = "then" /\ d = th /\ u = tv
                                  \/ s = "else" /\ d = el /\ u = ev
      PROVE  SideOK(s, d)'
  <2>1. /\ d \in DOMAIN code /\ d # tail /\ SideOK(s, d)
        /\ MapFollows(VMap'[s], VMap[s], v, w, u)
        /\ \E m : Sits(code', u, d, m)
        /\ inst'[u].kind = inst[v].kind
    BY <1>1, <1>2, <1>3, <1>4, <1>5 DEF Sits
  <2>2. PICK f, g : f = VMap[s] /\ g = VMap'[s]
    OBVIOUS
  <2>3. /\ DOMAIN g = (DOMAIN f \ {v}) \cup {w} /\ g[w] = u
        /\ \A x \in DOMAIN f : x \notin {v, w} => g[x] = f[x]
    BY <2>1, <2>2 DEF MapFollows
  <2>4. /\ \A x \in DOMAIN f : /\ \E m : Sits(code, f[x], d, m)
                               /\ inst[f[x]].kind = "void" => x \in ToRemove
        /\ \A n \in DOMAIN code[tail] : n < at => code[tail][n] \in DOMAIN f
    BY <2>1, <2>2 DEF SideOK
  <2>5. ASSUME NEW x \in DOMAIN g
        PROVE  (\E m : Sits(code', g[x], d, m)) /\ (inst'[g[x]].kind = "void" => x \in ToRemove')
    <3>1. CASE x = w
      BY <1>1, <1>3, <2>1, <2>3, <3>1
    <3>2. CASE x # w
      <4>1. x \in DOMAIN f /\ x # v /\ g[x] = f[x]
        BY <2>3, <2>5, <3>2
      <4>2. PICK r : r = f[x]
        OBVIOUS
      <4>3. PICK m : Sits(code, r, d, m)
        BY <2>4, <4>1, <4>2
      <4>4. r \in DOMAIN inst /\ r # v
        <5>1. m \in DOMAIN code[d] /\ code[d][m] = r
          BY <4>3 DEF Sits
        <5>. QED  BY <2>1, <5>1, OtherPlace
      <4>5. Sits(code', Swap(r, v, w), d, m)
        BY <4>3, CloneSits
      <4>6. Sits(code', r, d, m)
        BY <4>4, <4>5 DEF Swap
      <4>7. inst'[r].kind = "void" => x \in ToRemove
        BY <1>1, <2>4, <4>1, <4>2, <4>4
      <4>. QED  BY <1>1, <4>1, <4>2, <4>6, <4>7
    <3>. QED  BY <3>1, <3>2
  <2>6. ASSUME NEW n \in DOMAIN code'[tail], n < at + 1
        PROVE  code'[tail][n] \in DOMAIN g
    <3>1. CASE n = at
      BY <1>2, <2>3, <3>1
    <3>2. CASE n # at
      <4>1. n \in DOMAIN code[tail] /\ n \in Nat
        <5>1. code[tail] \in Seq(DOMAIN inst)
          BY <1>1 DEF IInv, PlacesOK
        <5>. QED  BY <1>2, <2>6, <5>1
      <4>2. n < at
        BY <1>1, <2>6, <3>2, <4>1
      <4>3. code[tail][n] \in DOMAIN f /\ code[tail][n] # v
        BY <1>1, <2>4, <3>2, <4>1, <4>2, OtherPlace
      <4>. QED  BY <1>2, <2>3, <3>2, <4>1, <4>3
    <3>. QED  BY <3>1, <3>2
  <2>. QED  BY <1>1, <2>2, <2>5, <2>6 DEF SideOK
<1>6. SideOK("then", th)' /\ SideOK("else", el)'
  BY <1>5
<1>7. \A x \in DOMAIN VMap'["tail"] : VMap'["tail"][x] = x
  BY <1>3, <1>4
<1>8. \A x \in ToRemove' : x \in DOMAIN inst' /\ inst'[x].kind = "void"
  BY <1>1, <1>4
<1>9. SideOK("then", Side(Targets[next].block, "then"))' /\ SideOK("else", Side(Targets[next].block, "else"))'
  BY <1>1, <1>6 DEF Side, SideOK
<1>. QED  BY <1>3, <1>4, <1>7, <1>8, <1>9 DEF VMapOK

LEMMA CloneDoes ==
  ASSUME IInv, DOMAIN VMap = {"then", "else", "tail"}, CloneVoid \/ CloneValue
  PROVE  \E b, v, w, th, el, tv, ev : CloneOf(b, v, w, th, el, tv, ev) /\ CloneOpnds(v, w, tv, ev)
<1>1. CASE CloneVoid
  <2>1. PICK b, v, th, el, tv, ev : CloneOf(b, v, v, th, el, tv, ev)
    BY <1>1, VoidDoes
  <2>2. CloneOpnds(v, v, tv, ev)
    BY <1>1, <2>1, VoidOperands
  <2>. QED  BY <2>1, <2>2
<1>2. CASE CloneValue
  <2>1. PICK b, v, th, el, tv, ev : CloneOf(b, v, <<v, "phi">>, th, el, tv, ev)
    BY <1>2, ValueDoes
  <2>2. CloneOpnds(v, <<v, "phi">>, tv, ev)
    BY <1>2, <2>1, ValueOperands
  <2>. QED  BY <2>1, <2>2
<1>. QED  BY <1>1, <1>2

LEMMA CloneDInv ==
  ASSUME Opaque, IInv, DInv, CloneVoid \/ CloneValue
  PROVE  DInv'
<1>1. PICK b, v, w, th, el, tv, ev : CloneOf(b, v, w, th, el, tv, ev) /\ CloneOpnds(v, w, tv, ev)
  BY CloneDoes DEF DInv, VMapOK
<1>2. Dominated(code', inst', term')
  BY <1>1, CloneDominated
<1>3. OperandsOK' /\ KindsOK'
  BY <1>1, CloneOperandsOK, CloneKindsOK
<1>4. ContextsOK' /\ AheadOK' /\ VMapOK'
  BY <1>1, CloneContextsOK, CloneAheadOK, CloneVMapOK
<1>. QED  BY <1>2, <1>3, <1>4 DEF DInv
-----------------------------------------------------------------------------
\* The end of cloneBB: the tail's terminator is not changed by TailVMap, which
\* maps PHIs to themselves.
LEMMA EndTerms ==
  ASSUME IInv, \A v \in DOMAIN VMap["tail"] : VMap["tail"][v] = v, EndClone, NEW x \in DOMAIN code
  PROVE  DOMAIN term'[x].opnds = DOMAIN term[x].opnds /\ \A k \in DOMAIN term[x].opnds : term'[x].opnds[k] = term[x].opnds[k]
<1>1. PICK t, o, m : t = tail /\ o = term[t] /\ m = VMap["tail"]
  OBVIOUS
<1>2. DOMAIN term = DOMAIN code /\ tail \in DOMAIN code /\ IsTerm(o)
  BY <1>1 DEF IInv, Counters, TermsOK
<1>3. PICK p : p = Remap(o.opnds, m)
  OBVIOUS
<1>4. PICK q : q = [kind |-> o.kind, opnds |-> p, tgts |-> o.tgts]
  OBVIOUS
<1>5. [o EXCEPT !.opnds = Remap(@, m)] = q /\ q.opnds = p
  BY <1>2, <1>3, <1>4 DEF IsTerm
<1>6. term' = [term EXCEPT ![t] = q]
  BY <1>1, <1>5 DEF EndClone
<1>7. \A v \in DOMAIN m : m[v] = v
  BY <1>1
<1>8. DOMAIN p = DOMAIN o.opnds /\ \A k \in DOMAIN o.opnds : p[k] = o.opnds[k]
  BY <1>3, <1>7 DEF Remap, Lookup
<1>. QED  BY <1>1, <1>2, <1>5, <1>6, <1>8

\* What stays where.
LEMMA EndSits ==
  ASSUME IInv, NEW t, EndOf(t), NEW u, NEW d, NEW m, Sits(code, u, d, m), u \notin ToRemove
  PROVE  u \in DOMAIN inst /\ (d # t => Sits(code', u, d, m)) /\ \E n : Sits(code', u, d, n)
<1>1. d \in DOMAIN code /\ m \in DOMAIN code[d] /\ code[d][m] = u
  BY DEF Sits
<1>2. u \in DOMAIN inst
  BY <1>1 DEF IInv, PlacesOK
<1>3. DOMAIN code' = DOMAIN code /\ \A x \in DOMAIN code : x # t => code'[x] = code[x]
  BY DEF EndOf
<1>4. CASE d # t
  BY <1>1, <1>2, <1>3, <1>4 DEF Sits
<1>5. CASE d = t
  <2>1. IsPurged(code'[t], code[t])
    BY DEF EndOf
  <2>2. \E k \in DOMAIN code'[t] : code'[t][k] = u
    BY <1>1, <1>5, <2>1 DEF IsPurged
  <2>. QED  BY <1>1, <1>2, <1>3, <1>5, <2>2 DEF Sits
<1>. QED  BY <1>4, <1>5

LEMMA EndPast ==
  ASSUME IInv, NEW t, EndOf(t), NEW x, NEW y, Past(term, x, y)
  PROVE  Past(term', x, y)
<1>1. Graph(term) /\ DOMAIN term = DOMAIN code
  BY GraphIs
<1>2. DOMAIN term' = DOMAIN term /\ \A z \in DOMAIN term : term'[z].tgts = term[z].tgts
  BY <1>1 DEF EndOf
<1>. QED  BY <1>1, <1>2, SamePast

\* Nobody's operand is removed, and what was there for its users still is.
LEMMA EndThere ==
  ASSUME Opaque, IInv, VMapOK, NEW t, EndOf(t), NEW u, Usable(inst, u), NEW x, NEW n
  PROVE  /\ Usable(inst', u)
         /\ AtEnd(code, term, u, x) => AtEnd(code', term', u, x)
         /\ x # t /\ Before(code, term, u, x, n) => Before(code', term', u, x, n)
<1>1. u \notin ToRemove
  <2>1. \A v \in ToRemove : v \in DOMAIN inst /\ inst[v].kind = "void"
    BY DEF VMapOK, EndOf
  <2>. QED  BY <2>1, NotGiven DEF Usable
<1>2. Usable(inst', u)
  BY <1>1 DEF Usable, EndOf
<1>3. ASSUME AtEnd(code, term, u, x), ~Given(u) PROVE AtEnd(code', term', u, x)
  <2>1. PICK d, m : Sits(code, u, d, m) /\ Past(term, x, d)
    BY <1>3 DEF AtEnd
  <2>2. \E k : Sits(code', u, d, k)
    BY <1>1, <2>1, EndSits
  <2>3. Past(term', x, d)
    BY <2>1, EndPast
  <2>. QED  BY <2>2, <2>3 DEF AtEnd
<1>4. ASSUME x # t, Before(code, term, u, x, n), ~Given(u) PROVE Before(code', term', u, x, n)
  <2>1. PICK d, m : Sits(code, u, d, m) /\ IF d = x THEN m < n ELSE Past(term, x, d)
    BY <1>4 DEF Before
  <2>2. (d # t => Sits(code', u, d, m)) /\ \E k : Sits(code', u, d, k)
    BY <1>1, <2>1, EndSits
  <2>3. CASE d = x
    BY <1>4, <2>1, <2>2, <2>3 DEF Before
  <2>4. CASE d # x
    <3>1. Past(term', x, d)
      BY <2>1, <2>4, EndPast
    <3>. QED  BY <2>2, <2>4, <3>1 DEF Before
  <2>. QED  BY <2>3, <2>4
<1>5. Given(u) => AtEnd(code', term', u, x) /\ Before(code', term', u, x, n)
  BY DEF AtEnd, Before
<1>. QED  BY <1>2, <1>3, <1>4, <1>5

LEMMA EndDominated ==
  ASSUME Opaque, IInv, DInv, IInv', EndClone, NEW t, EndOf(t)
  PROVE  Dominated(code', inst', term') /\ OperandsOK' /\ KindsOK'
<1>1. /\ t \in DOMAIN code /\ DOMAIN code' = DOMAIN code
      /\ \A x \in DOMAIN code : x # t => code'[x] = code[x]
      /\ DOMAIN inst' = DOMAIN inst \ ToRemove
      /\ \A v \in DOMAIN inst' : inst'[v] = inst[v]
      /\ prog' = prog
  BY DEF EndOf
<1>2. \A x \in DOMAIN code' : \A n \in DOMAIN code'[x] : code'[x][n] \in DOMAIN inst'
  BY DEF IInv, PlacesOK
<1>3. VMapOK
  BY DEF DInv
<1>4. \A x \in DOMAIN code : /\ DOMAIN term'[x].opnds = DOMAIN term[x].opnds
                             /\ \A k \in DOMAIN term[x].opnds : term'[x].opnds[k] = term[x].opnds[k]
  <2>1. \A v \in DOMAIN VMap["tail"] : VMap["tail"][v] = v
    BY <1>3 DEF VMapOK, EndClone
  <2>. QED  BY <2>1, EndTerms
<1>5. \A v \in DOMAIN inst' : \A k \in DOMAIN inst'[v].opnds : Usable(inst, inst'[v].opnds[k])
  BY <1>1 DEF DInv, OperandsOK
<1>6. \A x \in DOMAIN code' : \A k \in DOMAIN term'[x].opnds : Usable(inst, term'[x].opnds[k])
  BY <1>1, <1>4 DEF DInv, OperandsOK
<1>7. ASSUME NEW x \in DOMAIN code', NEW n \in DOMAIN code'[x], NEW k \in DOMAIN inst'[code'[x][n]].opnds
      PROVE  UsedWell(code', term', inst'[code'[x][n]], x, n, k)
  <2>1. PICK u : u = code'[x][n]
    OBVIOUS
  <2>2. u \in DOMAIN inst' /\ u \in DOMAIN inst /\ inst'[u] = inst[u] /\ k \in DOMAIN inst[u].opnds
    BY <1>1, <1>2, <1>7, <2>1
  <2>3. Usable(inst, inst[u].opnds[k])
    BY <2>2 DEF DInv, OperandsOK
  <2>4. PICK m : /\ m \in DOMAIN code[x] /\ code[x][m] = u
                 /\ IF x = t THEN inst[u].kind = "phi" ELSE m = n
    <3>1. CASE x = t
      <4>1. PICK m \in DOMAIN code[t] : code[t][m] \notin ToRemove /\ u = code[t][m]
        <5>1. IsPurged(code'[t], code[t])
          BY DEF EndOf
        <5>. QED  BY <1>7, <2>1, <3>1, <5>1 DEF IsPurged
      <4>2. m \in Phis(code[t])
        BY <4>1 DEF EndOf
      <4>. QED  BY <3>1, <4>1, <4>2 DEF Phis
    <3>2. CASE x # t
      BY <1>1, <1>7, <2>1, <3>2
    <3>. QED  BY <3>1, <3>2
  <2>5. UsedWell(code, term, inst[u], x, m, k)
    BY <1>1, <2>2, <2>4 DEF DInv, Dominated
  <2>6. UsedWell(code', term', inst[u], x, n, k)
    <3>1. CASE inst[u].kind = "phi"
      BY <1>3, <2>3, <2>5, <3>1, EndThere DEF UsedWell
    <3>2. CASE inst[u].kind # "phi"
      BY <1>3, <2>3, <2>4, <2>5, <3>2, EndThere DEF UsedWell
    <3>. QED  BY <3>1, <3>2
  <2>. QED  BY <2>1, <2>2, <2>6
<1>8. ASSUME NEW x \in DOMAIN code', NEW k \in DOMAIN term'[x].opnds
      PROVE  AtEnd(code', term', term'[x].opnds[k], x)
  <2>1. k \in DOMAIN term[x].opnds /\ term'[x].opnds[k] = term[x].opnds[k]
    BY <1>1, <1>4, <1>8
  <2>2. AtEnd(code, term, term[x].opnds[k], x) /\ Usable(inst, term[x].opnds[k])
    BY <1>1, <2>1 DEF DInv, Dominated, OperandsOK
  <2>. QED  BY <1>3, <2>1, <2>2, EndThere
<1>9. Dominated(code', inst', term')
  BY <1>7, <1>8 DEF Dominated
<1>10. OperandsOK'
  <2>1. \A u : Usable(inst, u) => Usable(inst', u)
    BY <1>3, EndThere
  <2>. QED  BY <1>5, <1>6, <2>1 DEF OperandsOK
<1>11. KindsOK'
  <2>. SUFFICES ASSUME NEW v \in DOMAIN inst' PROVE KindOK(v)'
    BY DEF KindsOK
  <2>1. KindOK(v) /\ inst'[v] = inst[v]
    BY <1>1 DEF DInv, KindsOK
  <2>2. Source(Origin(v))' = Source(Origin(v)) /\ Origin(v)' = Origin(v)
    BY <1>1, SameProgram DEF Source
  <2>. QED  BY <1>1, <2>1, <2>2 DEF KindOK
<1>. QED  BY <1>9, <1>10, <1>11

LEMMA PendingNotTail ==
  ASSUME Opaque, IInv, pc = "clone", NEW d \in Pending
  PROVE  d \in DOMAIN code /\ d # tail
<1>1. prog \in Programs /\ count \in Nat
  BY DEF IInv, Counters
<1>2. d \in DOMAIN code
  BY DEF Pending, IInv, TargetsOK
<1>3. OldBlock(d)
  BY DEF IInv, PendingOld
<1>4. PICK b : tail = <<b, "tail", count>>
  BY DEF IInv, CloneOK, Side
<1>5. tail \notin Blocks /\ ~Stamped(tail, count)
  <2>1. \A s : <<b, s, count>> \notin Blocks
    BY <1>1, NoTuple
  <2>2. \A s : ~Stamped(<<b, s, count>>, count)
    BY <1>1 DEF Stamped
  <2>. QED  BY <1>4, <2>1, <2>2
<1>6. ~OldBlock(tail)
  BY <1>5 DEF OldBlock, Part
<1>. QED  BY <1>2, <1>3, <1>6

LEMMA EndDInv ==
  ASSUME Opaque, IInv, DInv, IInv', EndClone
  PROVE  DInv'
<1>1. PICK t : EndOf(t)
  BY EndDoes
<1>2. Dominated(code', inst', term') /\ OperandsOK' /\ KindsOK'
  BY <1>1, EndDominated
<1>3. /\ pc = "clone" /\ pc' = "target" /\ next' = next + 1 /\ t = tail
      /\ UNCHANGED <<prog, Targets, tail, ToRemove, run>> /\ ReMapper' = ReMapper /\ VMap' = VMap
      /\ \A x \in DOMAIN code : x # t => code'[x] = code[x]
      /\ next \in Nat /\ count \in Nat /\ prog \in Programs
      /\ \A v \in DOMAIN inst' : inst'[v] = inst[v]
      /\ DOMAIN inst' = DOMAIN inst \ ToRemove
  BY <1>1 DEF EndOf, EndClone, cloning, IInv, Counters
<1>4. \A i \in DOMAIN Targets : i \in Nat
  BY DEF IInv, TargetsOK, IsSeq
<1>5. Awaited' = Awaited
  BY <1>3, <1>4 DEF Awaited
<1>6. Pending' = Pending
  <2>1. Pending = {Targets[k].block : k \in {n \in DOMAIN Targets : n >= next /\ n > next}}
    BY <1>3 DEF Pending
  <2>2. Pending' = {Targets[k].block : k \in {n \in DOMAIN Targets : n >= next + 1}}
    BY <1>3 DEF Pending
  <2>3. {n \in DOMAIN Targets : n >= next /\ n > next} = {n \in DOMAIN Targets : n >= next + 1}
    BY <1>3, <1>4
  <2>. QED  BY <2>1, <2>2, <2>3
<1>7. \A v : Context(v)' = Context(v) /\ Unmapped(v)' = Unmapped(v)
  BY <1>3 DEF Context, Unmapped, Lookup
<1>8. VMapOK
  BY DEF DInv
<1>9. ContextsOK'
  <2>1. ASSUME NEW i \in Awaited
        PROVE  Ready(code', inst', term', Context(Targets[i].ctx), Targets[i].block)
    <3>1. PICK u, x : u = Context(Targets[i].ctx) /\ x = Targets[i].block
      OBVIOUS
    <3>2. Ready(code, inst, term, u, x)
      BY <3>1 DEF DInv, ContextsOK
    <3>3. CASE ~(u \in Args)
      <4>1. PICK d, m : Sits(code, u, d, m) /\ d # x /\ Past(term, x, d)
        BY <3>2, <3>3 DEF Ready
      <4>2. inst[u].kind # "void"
        BY <3>2, <3>3 DEF Ready
      <4>3. u \notin ToRemove
        BY <1>3, <1>8, <4>2 DEF VMapOK
      <4>4. u \in DOMAIN inst /\ \E n : Sits(code', u, d, n)
        BY <1>1, <4>1, <4>3, EndSits
      <4>5. Past(term', x, d)
        BY <1>1, <4>1, EndPast
      <4>6. inst'[u].kind # "void"
        BY <1>3, <4>2, <4>3, <4>4
      <4>. QED  BY <3>1, <4>1, <4>4, <4>5, <4>6 DEF Ready
    <3>. QED  BY <3>1, <3>3 DEF Ready
  <2>. QED  BY <1>3, <1>5, <1>7, <2>1 DEF ContextsOK
<1>10. AheadOK'
  <2>1. ASSUME NEW d \in Pending PROVE d \in DOMAIN code /\ code'[d] = code[d]
    <3>1. d \in DOMAIN code /\ d # tail
      BY <1>3, PendingNotTail
    <3>. QED  BY <1>3, <3>1
  <2>. QED  BY <1>3, <1>6, <1>7, <2>1 DEF DInv, AheadOK
<1>11. VMapOK'
  BY <1>3, <1>8 DEF VMapOK
<1>. QED  BY <1>2, <1>9, <1>10, <1>11 DEF DInv
-----------------------------------------------------------------------------
\* findBBsToDuplicate.  With fresh answers, the context value drawn for a block
\* is there before the block is entered.
LEMMA AnswerReady ==
  ASSUME Opaque, FreshAnswers, IInv, KindsOK, run <= prog.runs, NEW b, NEW v \in RIVResult(b), v \notin Globals
  PROVE  Ready(code, inst, term, v, b)
<1>1. PICK f : f = IF run = 1 \/ prog.legacy THEN [code |-> code, term |-> term] ELSE prog
  OBVIOUS
<1>2. PICK sdoms : sdoms = {d \in DOMAIN f.term \ {b} : b \notin Reached(f.term, {d})}
  OBVIOUS
<1>3. /\ v \in Args \cup Globals \cup UNION {Range(f.code[d]) : d \in sdoms}
      /\ IsInteger(v)
  BY <1>1, <1>2 DEF RIVResult
<1>4. CASE v \in Args
  BY <1>4 DEF Ready
<1>5. CASE v \notin Args
  <2>1. PICK d \in sdoms : v \in Range(f.code[d])
    BY <1>3, <1>5
  <2>2. PICK m \in DOMAIN f.code[d] : f.code[d][m] = v
    BY <2>1 DEF Range
  <2>3. prog \in Programs /\ run \in {1, 2}
    BY DEF IInv, Counters
  <2>4. CASE run = 1 \/ prog.legacy
    <3>1. f.code = code /\ f.term = term
      BY <1>1, <2>4
    <3>2. d # b /\ d \in DOMAIN code /\ Past(term, b, d)
      BY <1>2, <3>1 DEF Past, IInv, TermsOK
    <3>3. Sits(code, v, d, m)
      BY <2>2, <3>1, <3>2 DEF Sits
    <3>4. v \in DOMAIN inst
      BY <2>2, <3>1, <3>2 DEF IInv, PlacesOK
    <3>5. inst[v].kind # "void"
      <4>. SUFFICES ASSUME inst[v].kind = "void" PROVE FALSE
        OBVIOUS
      <4>1. PICK o : o = Origin(v)
        OBVIOUS
      <4>2. Source(o) /\ prog.inst[o].kind = "void"
        BY <3>4, <4>1 DEF KindsOK, KindOK
      <4>3. ~IsCompare(v)
        BY <3>4 DEF IInv, InstsOK
      <4>4. ~IsCompare(o)
        BY <4>2 DEF IsCompare, Original, Source
      <4>5. o \notin IntTyped
        BY <2>3, <4>2, InputTypes DEF Source
      <4>. QED  BY <1>3, <4>1, <4>3, <4>4, <4>5 DEF IsInteger
    <3>. QED  BY <3>2, <3>3, <3>5 DEF Ready
  <2>5. CASE ~(run = 1 \/ prog.legacy)
    <3>1. f = prog /\ prog.runs \in 1..2
      BY <1>1, <2>3, <2>5, Input
    <3>2. prog.runs # 1
      BY <2>3, <2>5, <3>1
    <3>3. IntTyped \cap DOMAIN prog.inst = {}
      BY <2>3, <2>5, <3>2 DEF FreshAnswers
    <3>4. d \in Blocks
      BY <1>2, <2>3, <3>1, Input
    <3>5. v \in DOMAIN prog.inst
      BY <2>2, <2>3, <3>1, <3>4, Input
    <3>6. Original(v)
      BY <3>5 DEF Original
    <3>7. ~IsCompare(v) /\ Origin(v) = v
      BY <3>6 DEF IsCompare, Origin
    <3>8. v \in IntTyped
      BY <1>3, <3>7 DEF IsInteger
    <3>. QED  BY <3>3, <3>5, <3>8
  <2>. QED  BY <2>4, <2>5
<1>. QED  BY <1>4, <1>5

\* The function is what it was.
LEMMA SameFunction ==
  ASSUME DInv, UNCHANGED <<prog, code, inst, term>>
  PROVE  Dominated(code', inst', term') /\ OperandsOK' /\ KindsOK'
<1>1. Dominated(code', inst', term')
  BY DEF DInv
<1>2. OperandsOK'
  BY DEF DInv, OperandsOK
<1>3. \A v : Source(Origin(v))' = Source(Origin(v)) /\ Origin(v)' = Origin(v)
  BY SameProgram DEF Source
<1>4. \A v \in DOMAIN inst : KindOK(v)' = KindOK(v)
  BY <1>3 DEF KindOK
<1>5. KindsOK'
  BY <1>4 DEF DInv, KindsOK
<1>. QED  BY <1>1, <1>2, <1>5

LEMMA FindDInv ==
  ASSUME Opaque, FreshAnswers, IInv, DInv, run <= prog.runs, SkipBlock \/ TakeBlock \/ EndFind
  PROVE  DInv'
<1>1. /\ pc = "find" /\ pc' \in {"find", "target"} /\ UNCHANGED <<prog, code, inst, term, VMap, ReMapper, run>>
      /\ (pc' = "target" => next' = 1)
  BY DEF SkipBlock, TakeBlock, EndFind, function, cloning
<1>2. Dominated(code', inst', term') /\ OperandsOK' /\ KindsOK'
  BY <1>1, SameFunction
<1>3. DOMAIN ReMapper' = {} /\ DOMAIN ReMapper = {}
  BY <1>1 DEF DInv, ContextsOK
<1>4. \A v : Unmapped(v)' /\ Context(v)' = v /\ Context(v) = v
  BY <1>3 DEF Unmapped, Context, Lookup
<1>5. AheadOK'
  BY <1>1, <1>4 DEF AheadOK
<1>6. VMapOK'
  BY <1>1 DEF DInv, VMapOK
<1>7. \A k \in DOMAIN Targets : Ready(code, inst, term, Targets[k].ctx, Targets[k].block)
  BY <1>1, <1>4 DEF DInv, ContextsOK, Awaited
<1>8. \A k \in DOMAIN Targets' : Ready(code, inst, term, Targets'[k].ctx, Targets'[k].block)
  <2>1. CASE TakeBlock
    <3>1. PICK b : b = layout[next]
      OBVIOUS
    <3>2. PICK ctx \in Eligible(b) : Targets' = Append(Targets, [block |-> b, ctx |-> ctx])
      BY <2>1, <3>1 DEF TakeBlock
    <3>3. ctx \in RIVResult(b) /\ ctx \notin Globals
      BY <3>2 DEF Eligible
    <3>4. KindsOK
      BY DEF DInv
    <3>5. Ready(code, inst, term, ctx, b)
      BY <3>3, <3>4, AnswerReady
    <3>6. IsSeq(Targets)
      BY DEF IInv, TargetsOK
    <3>7. PICK s, e, S : s = Targets /\ e = [block |-> b, ctx |-> ctx] /\ S = {s[k] : k \in DOMAIN s}
      OBVIOUS
    <3>8. s \in Seq(S) /\ e.block = b /\ e.ctx = ctx
      BY <3>6, <3>7 DEF IsSeq
    <3>9. \A k \in DOMAIN Append(s, e) :
            (k \in DOMAIN s /\ Append(s, e)[k] = s[k]) \/ Append(s, e)[k] = e
      BY <3>8
    <3>10. \A k \in DOMAIN Append(s, e) : Ready(code, inst, term, Append(s, e)[k].ctx, Append(s, e)[k].block)
      BY <1>7, <3>5, <3>7, <3>8, <3>9
    <3>. QED  BY <3>2, <3>7, <3>10
  <2>2. CASE SkipBlock \/ EndFind
    <3>1. Targets' = Targets
      BY <2>2 DEF SkipBlock, EndFind
    <3>. QED  BY <1>7, <3>1
  <2>. QED  BY <2>1, <2>2
<1>9. ContextsOK'
  <2>1. ASSUME NEW k \in Awaited'
        PROVE  Ready(code', inst', term', Context(Targets'[k].ctx), Targets'[k].block)
    <3>1. k \in DOMAIN Targets'
      BY DEF Awaited
    <3>. QED  BY <1>1, <1>4, <1>8, <3>1
  <2>2. \A v : Context(v)' = Context(v)
    BY <1>4
  <2>. QED  BY <1>1, <1>3, <2>1 DEF ContextsOK, Context
<1>. QED  BY <1>2, <1>5, <1>6, <1>9 DEF DInv

LEMMA LeaveDInv ==
  ASSUME DInv, Leave
  PROVE  DInv'
<1>1. /\ pc' \in {"find", "done"} /\ UNCHANGED <<prog, code, inst, term, VMap>>
      /\ Targets' = <<>> /\ ReMapper' = NoMap
  BY DEF Leave, function, cloning
<1>2. Dominated(code', inst', term') /\ OperandsOK' /\ KindsOK'
  BY <1>1, SameFunction
<1>3. DOMAIN ReMapper' = {} /\ DOMAIN Targets' = {}
  BY <1>1 DEF NoMap
<1>4. Awaited' = {}
  BY <1>3 DEF Awaited
<1>5. ContextsOK'
  BY <1>3, <1>4 DEF ContextsOK
<1>6. AheadOK'
  BY <1>1, <1>3 DEF AheadOK, Unmapped
<1>7. VMapOK'
  BY <1>1 DEF DInv, VMapOK
<1>. QED  BY <1>2, <1>5, <1>6, <1>7 DEF DInv

\* The places of an instruction are where the property looks for it.
LEMMA DominatedIs ==
  ASSUME Opaque, IInv
  PROVE  UsesDominated <=> Dominated(code, inst, term)
<1>1. ASSUME NEW v, NEW b PROVE AvailableAtEnd(v, b) <=> AtEnd(code, term, v, b)
  BY DEF AvailableAtEnd, DefinedIn, AtEnd, Given, Sits, Past, Range
<1>2. ASSUME NEW v, NEW b \in DOMAIN code, NEW n
      PROVE  AvailableAt(v, b, n) <=> Before(code, term, v, b, n)
  <2>1. CASE DefinedIn(v, b)
    <3>1. PICK m \in DOMAIN code[b] : code[b][m] = v
      BY <2>1 DEF DefinedIn, Range
    <3>2. \A d, k : Sits(code, v, d, k) <=> d = b /\ k = m
      <4>1. \A d, k : Sits(code, v, d, k) <=> At(v, d, k)
        BY DEF Sits, At
      <4>2. At(v, b, m)
        BY <3>1 DEF At
      <4>. QED  BY <4>1, <4>2, OnePlace
    <3>3. v \in DOMAIN inst
      BY <3>1 DEF IInv, PlacesOK
    <3>4. Position(v, b) = m
      <4>1. Position(v, b) \in DOMAIN code[b] /\ code[b][Position(v, b)] = v
        BY <3>1 DEF Position
      <4>2. Sits(code, v, b, Position(v, b))
        BY <4>1 DEF Sits
      <4>. QED  BY <3>2, <4>2
    <3>. QED  BY <2>1, <3>2, <3>3, <3>4, NotGiven DEF AvailableAt, Before
  <2>2. CASE ~DefinedIn(v, b)
    <3>1. \A m : ~Sits(code, v, b, m)
      BY <2>2 DEF DefinedIn, Sits, Range
    <3>2. Before(code, term, v, b, n) <=> AtEnd(code, term, v, b)
      BY <3>1 DEF Before, AtEnd
    <3>. QED  BY <1>1, <2>2, <3>2 DEF AvailableAt
  <2>. QED  BY <2>1, <2>2
<1>3. ASSUME NEW b \in DOMAIN code, NEW n \in DOMAIN code[b], NEW i, NEW k
      PROVE  (IF i.kind = "phi" THEN AvailableAtEnd(i.opnds[k], i.from[k]) ELSE AvailableAt(i.opnds[k], b, n))
               <=> UsedWell(code, term, i, b, n, k)
  BY <1>1, <1>2 DEF UsedWell
<1>. QED  BY <1>1, <1>3 DEF UsesDominated, Dominated

LEMMA InitDInv ==
  ASSUME Opaque, Init, UsesDominated
  PROVE  DInv
<1>1. IInv
  BY InitIInv
<1>2. Dominated(code, inst, term)
  BY <1>1, DominatedIs
<1>3. PICK p \in Programs : p = prog
  BY DEF Init
<1>4. /\ code = p.code /\ inst = p.inst /\ term = p.term
      /\ pc = "find" /\ Targets = <<>> /\ ReMapper = NoMap
      /\ VMap = [s \in {"then", "else", "tail"} |-> NoMap]
  BY <1>3 DEF Init
<1>5. DOMAIN code = Blocks
  BY <1>4, Input
<1>6. OperandsOK
  <2>1. ASSUME NEW v \in DOMAIN inst, NEW k \in DOMAIN inst[v].opnds PROVE Usable(inst, inst[v].opnds[k])
    <3>1. PICK o : o = p.inst[v].opnds
      OBVIOUS
    <3>2. o \in Seq(Args \cup Globals \cup DOMAIN p.inst) /\ k \in DOMAIN o
      BY <1>4, <2>1, <3>1, InputInst
    <3>3. o[k] \in Args \cup Globals \cup DOMAIN p.inst
      BY <3>2
    <3>4. o[k] \in DOMAIN p.inst => p.inst[o[k]].kind # "void"
      BY <1>4, <2>1, <3>1, <3>2, InputTypes
    <3>. QED  BY <1>4, <3>1, <3>3, <3>4 DEF Usable, Given
  <2>2. ASSUME NEW b \in DOMAIN code, NEW k \in DOMAIN term[b].opnds PROVE Usable(inst, term[b].opnds[k])
    <3>1. PICK o : o = p.term[b].opnds
      OBVIOUS
    <3>2. o \in Seq(Args \cup Globals \cup DOMAIN p.inst) /\ k \in DOMAIN o
      <4>1. IsProgram(p)
        BY ProgramAssumption
      <4>2. PICK t : t = p.term[b]
        OBVIOUS
      <4>3. t \in [kind : STRING, opnds : Seq(Args \cup Globals \cup DOMAIN p.inst), tgts : Seq(Blocks)]
        BY <1>5, <4>1, <4>2 DEF IsProgram
      <4>4. t.opnds \in Seq(Args \cup Globals \cup DOMAIN p.inst)
        BY <4>3
      <4>. QED  BY <1>4, <2>2, <3>1, <4>2, <4>4
    <3>3. o[k] \in Args \cup Globals \cup DOMAIN p.inst
      BY <3>2
    <3>4. o[k] \in DOMAIN p.inst => p.inst[o[k]].kind # "void"
      BY <1>5, <3>1, <3>2, InputTypes
    <3>. QED  BY <1>4, <3>1, <3>3, <3>4 DEF Usable, Given
  <2>. QED  BY <2>1, <2>2 DEF OperandsOK
<1>7. KindsOK
  <2>. SUFFICES ASSUME NEW v \in DOMAIN inst PROVE KindOK(v)
    BY DEF KindsOK
  <2>1. Source(v) /\ Origin(v) = v
    BY <1>3, <1>4 DEF Source, Origin, Original
  <2>. QED  BY <1>3, <1>4, <2>1, InputTypes DEF KindOK
<1>8. DOMAIN ReMapper = {} /\ DOMAIN Targets = {}
  BY <1>4 DEF NoMap
<1>9. ContextsOK
  BY <1>8 DEF ContextsOK, Awaited
<1>10. AheadOK
  BY <1>4, <1>8 DEF AheadOK, Unmapped
<1>11. VMapOK
  BY <1>4 DEF VMapOK
<1>. QED  BY <1>2, <1>6, <1>7, <1>9, <1>10, <1>11 DEF DInv

LEMMA DInvStep ==
  ASSUME Opaque, FreshAnswers, IInv, DInv, run <= prog.runs, [Next]_vars
  PROVE  DInv' /\ (run <= prog.runs)'
<1>1. IInv'
  BY IInvStep
<1>2. DInv'
  <2>1. CASE Next
    BY <1>1, <2>1, FindDInv, SplitDInv, CloneDInv, EndDInv, LeaveDInv DEF Next
  <2>2. CASE UNCHANGED vars
    <3>1. UNCHANGED <<prog, code, inst, term, pc, next, Targets, ReMapper, tail, at, VMap, ToRemove, count>>
      BY <2>2 DEF vars, function, cloning
    <3>2. Dominated(code', inst', term') /\ OperandsOK' /\ KindsOK'
      BY <3>1, SameFunction
    <3>3. ContextsOK' /\ AheadOK'
      BY <3>1 DEF DInv, ContextsOK, AheadOK, Awaited, Pending, Context, Lookup, Unmapped
    <3>4. VMapOK'
      BY <3>1 DEF DInv, VMapOK, SideOK, Side
    <3>. QED  BY <3>2, <3>3, <3>4 DEF DInv
  <2>. QED  BY <2>1, <2>2
<1>3. (run <= prog.runs)'
  <2>1. prog.runs \in {1, 2} /\ run \in {1, 2}
    <3>1. prog \in Programs /\ run \in {1, 2}
      BY DEF IInv, Counters
    <3>. QED  BY <3>1, Input
  <2>2. prog' = prog /\ (run' = run \/ (run < prog.runs /\ run' = run + 1))
    BY DEF Next, vars, function, cloning, SkipBlock, TakeBlock, EndFind, Split, CloneVoid, CloneValue, EndClone, Leave
  <2>. QED  BY <2>1, <2>2
<1>. QED  BY <1>2, <1>3

LEMMA DInvHolds == Opaque /\ FreshAnswers => (Spec /\ UsesDominated => [](IInv /\ DInv))
<1>. SUFFICES ASSUME Opaque, FreshAnswers PROVE Spec /\ UsesDominated => [](IInv /\ DInv)
  OBVIOUS
<1>1. Init /\ UsesDominated => IInv /\ DInv /\ run <= prog.runs
  <2>. SUFFICES ASSUME Init, UsesDominated PROVE IInv /\ DInv /\ run <= prog.runs
    OBVIOUS
  <2>1. run = 1 /\ prog \in Programs
    BY DEF Init
  <2>2. prog.runs \in 1..2
    BY <2>1, Input
  <2>. QED  BY <2>1, <2>2, InitIInv, InitDInv
<1>2. (IInv /\ DInv /\ run <= prog.runs) /\ [Next]_vars => (IInv /\ DInv /\ run <= prog.runs)'
  BY IInvStep, DInvStep
<1>. QED  BY <1>1, <1>2, PTL DEF Spec

\* Dominance survives the pass, in every intermediate function: if the uses of
\* the function that the pass is given are dominated, which the verifier has
\* seen to, then so are those of what cloneBB has made of it at any moment.
THEOREM DominanceStays == Opaque /\ FreshAnswers => (Spec /\ UsesDominated => []UsesDominated)
<1>. SUFFICES ASSUME Opaque, FreshAnswers PROVE Spec /\ UsesDominated => []UsesDominated
  OBVIOUS
<1>1. IInv /\ DInv => UsesDominated
  BY DominatedIs DEF DInv
<1>. QED  BY <1>1, DInvHolds, PTL

\* What cloneBB finds in ReMapper for the context value of the next block, or
\* the value itself, is in the function: the map keeps RIV's answer from
\* becoming obsolete, as the comment in DuplicateBB.cpp says.  Without
\* FreshAnswers it need not be, since run returns PreservedAnalyses::all() and
\* a second run of the pass is given the answer for the function as it was.
THEOREM ContextStays == Opaque /\ FreshAnswers => (Spec /\ UsesDominated => []ContextAlive)
<1>1. IInv /\ DInv => ContextAlive
  <2>. SUFFICES ASSUME IInv, DInv, pc = "target", next <= Len(Targets)
                PROVE  Context(Targets[next].ctx) \in DOMAIN inst \cup Args
    BY DEF ContextAlive
  <2>1. next \in Awaited
    <3>1. next \in Nat \ {0}
      BY DEF IInv, Counters
    <3>2. next \in 1..Len(Targets) /\ Len(Targets) \in Nat /\ DOMAIN Targets = 1..Len(Targets)
      BY <3>1 DEF IInv, TargetsOK, IsSeq
    <3>. QED  BY <3>2 DEF Awaited
  <2>2. Ready(code, inst, term, Context(Targets[next].ctx), Targets[next].block)
    BY <2>1 DEF DInv, ContextsOK
  <2>3. ASSUME NEW b \in DOMAIN code, NEW n \in DOMAIN code[b] PROVE code[b][n] \in DOMAIN inst
    <3>1. code[b] \in Seq(DOMAIN inst)
      BY DEF IInv, PlacesOK
    <3>. QED  BY <3>1
  <2>. QED  BY <2>2, <2>3 DEF Ready, Sits
<1>. QED  BY <1>1, DInvHolds, PTL
-----------------------------------------------------------------------------
(***************************************************************************)
(* The work done.  Every block executes a stretch of the block of the      *)
(* function that it was made from: the instructions from lo up to, but not *)
(* including, hi.  What replaces a block is a graph without cycles (rk     *)
(* goes down along its edges) in which a block starts where those before   *)
(* it end, up to the blocks that go where the original went.  In cloneBB   *)
(* the stretches of the clones get longer and that of the tail gets        *)
(* shorter, by an instruction at a time.                                   *)
(***************************************************************************)
Text(b) == prog.code[OriginBlock(b)]

\* The places of a block's own instructions: no PHIs, compares or what is to
\* be removed.
Doing(b) ==
  {n \in DOMAIN code[b] : inst[code[b][n]].kind \notin {"phi", "cond"} /\ code[b][n] \notin Removing}

\* The elements of s at the places S stand for those of c from the L-th up to
\* the one before the H-th, in this order.
Covers(s, S, c, L, H) ==
  /\ \A n \in S : \E j \in L..(H - 1) : StandsFor(s[n], c[j])
  /\ \A j \in L..(H - 1) : \E n \in S : StandsFor(s[n], c[j])
  /\ \A m, n \in S : \A i, j \in L..(H - 1) :
       m < n /\ StandsFor(s[m], c[i]) /\ StandsFor(s[n], c[j]) => i < j

Mirrors(opnds, original) ==
  /\ DOMAIN opnds = DOMAIN original
  /\ \A k \in DOMAIN original : StandsFor(opnds[k], original[k])

\* Control leaves what replaces a block, for where the original went.
Leaves(b, hi) ==
  /\ hi[b] = Len(Text(b)) + 1
  /\ term[b].tgts = prog.term[OriginBlock(b)].tgts
  /\ Mirrors(term[b].opnds, prog.term[OriginBlock(b)].opnds)

\* Control stays in it.
GoesOn(b, lo, hi, rk) ==
  /\ DOMAIN term[b].tgts # {}
  /\ \A k \in DOMAIN term[b].tgts :
       LET d == term[b].tgts[k]
       IN  /\ d \notin Blocks /\ OriginBlock(d) = OriginBlock(b)
           /\ lo[d] = hi[b] /\ rk[d] < rk[b]

Works(b, lo, hi, rk) ==
  /\ OriginBlock(b) \in Blocks
  /\ 1 <= lo[b] /\ lo[b] <= hi[b] /\ hi[b] <= Len(Text(b)) + 1
  /\ Covers(code[b], Doing(b), Text(b), lo[b], hi[b])
  /\ Leaves(b, hi) \/ GoesOn(b, lo, hi, rk)
  /\ b \in Blocks => \A n \in DOMAIN Text(b) : n < lo[b] <=> prog.inst[Text(b)[n]].kind = "phi"

Work(lo, hi, rk, M) ==
  /\ M \in Nat
  /\ \A b \in DOMAIN code : lo[b] \in Nat /\ hi[b] \in Nat /\ rk[b] \in 0..M
  /\ \A b \in DOMAIN code : Works(b, lo, hi, rk)

OwnKind(v) == inst[v].kind \notin {"phi", "cond"}
InstsMirror ==
  \A v \in DOMAIN inst : OwnKind(v) =>
    \A o \in DOMAIN prog.inst : StandsFor(v, o) => Mirrors(inst[v].opnds, prog.inst[o].opnds)

KeepsMeaning(map) == \A v \in DOMAIN map : \A o : Original(o) /\ StandsFor(v, o) => StandsFor(map[v], o)
MapsOK ==
  /\ DOMAIN VMap = {"then", "else", "tail"}
  /\ pc = "clone" =>
       /\ KeepsMeaning(VMap["then"]) /\ KeepsMeaning(VMap["else"])
       /\ \A v \in DOMAIN VMap["tail"] : VMap["tail"][v] = v

WInv == MapsOK /\ InstsMirror /\ \E lo, hi, rk, M : Work(lo, hi, rk, M)
-----------------------------------------------------------------------------
\* An instruction stands for one of its block's text at most.
Apart(c) == \A x : \A i, j \in DOMAIN c : StandsFor(x, c[i]) /\ StandsFor(x, c[j]) => i = j

LEMMA OneText ==
  ASSUME Opaque, prog \in Programs, NEW b \in Blocks
  PROVE  /\ prog.code[b] \in Seq(DOMAIN prog.inst) /\ Apart(prog.code[b])
         /\ DOMAIN prog.code[b] = 1..Len(prog.code[b]) /\ Len(prog.code[b]) \in Nat
         /\ \A n \in DOMAIN prog.code[b] : prog.code[b][n] \in DOMAIN prog.inst
<1>1. PICK c : c = prog.code[b]
  OBVIOUS
<1>2. c \in Seq(DOMAIN prog.inst)
  BY <1>1, Input
<1>3. \A n \in DOMAIN c : Original(c[n])
  BY <1>2 DEF Original
<1>4. \A i, j \in DOMAIN c : c[i] = c[j] => i = j
  BY <1>1, InputPlaces
<1>5. Apart(c)
  <2>. SUFFICES ASSUME NEW x, NEW i \in DOMAIN c, NEW j \in DOMAIN c,
                       StandsFor(x, c[i]), StandsFor(x, c[j])
                PROVE  i = j
    BY DEF Apart
  <2>1. Origin(x) = c[i] /\ Origin(x) = c[j]
    BY <1>3, OriginOf
  <2>. QED  BY <1>4, <2>1
<1>6. DOMAIN c = 1..Len(c) /\ Len(c) \in Nat /\ \A n \in DOMAIN c : c[n] \in DOMAIN prog.inst
  BY <1>2
<1>. QED  BY <1>1, <1>2, <1>5, <1>6

\* What is put under IIT, or into the clones, stands for what v stands for.
LEMMA CloneStands ==
  ASSUME Opaque, IInv, NEW v, OldValue(v), NEW s, NEW o, Original(o)
  PROVE  StandsFor(<<v, s>>, o) <=> StandsFor(v, o)
<1>1. prog \in Programs
  BY DEF IInv, Counters
<1>2. PICK x : x = <<v, s>>
  OBVIOUS
<1>3. Pair(x) /\ x[1] = v /\ x # o
  <2>1. ~Original(x)
    BY <1>1, <1>2, NoTuple
  <2>2. Pair(x) /\ x[1] = v
    BY <1>2 DEF Pair
  <2>. QED  BY <2>1, <2>2
<1>4. StandsFor(x, o) <=> v = o \/ (Pair(v) /\ v[1] = o)
  BY <1>3 DEF StandsFor
<1>5. CASE Source(v)
  <2>1. ~Pair(v)
    BY <1>1, <1>5, NoTuple DEF Pair
  <2>. QED  BY <1>2, <1>4, <2>1 DEF StandsFor
<1>6. CASE Stamped(v, count)
  <2>1. ~Pair(v)
    BY <1>6 DEF Stamped, Pair
  <2>. QED  BY <1>2, <1>4, <2>1 DEF StandsFor
<1>7. CASE Pair(v) /\ Source(v[1]) /\ ~Pair(v[1])
  BY <1>2, <1>4, <1>7 DEF StandsFor
<1>. QED  BY <1>5, <1>6, <1>7, OldShape

\* A stretch of nothing.
LEMMA CoversNone ==
  ASSUME NEW s, NEW c, NEW L \in Nat
  PROVE  Covers(s, {}, c, L, L)
BY DEF Covers

\* The elements of r at R are those of s at S, which are d further on.
Shifted(s, S, r, R, d) ==
  /\ S \in SUBSET Nat /\ R \in SUBSET Nat /\ d \in Nat
  /\ \A n \in R : n + d \in S /\ r[n] = s[n + d]
  /\ \A n \in S : \E m \in R : n = m + d

LEMMA CoversMoved ==
  ASSUME NEW s, NEW S, NEW c, NEW L, NEW H, L \in Nat, H \in Nat, Covers(s, S, c, L, H),
         NEW r, NEW R, NEW d, Shifted(s, S, r, R, d)
  PROVE  Covers(r, R, c, L, H)
<1> USE DEF Shifted
<1>1. \A n \in R : \E j \in L..(H - 1) : StandsFor(r[n], c[j])
  BY DEF Covers
<1>2. \A j \in L..(H - 1) : \E n \in R : StandsFor(r[n], c[j])
  BY DEF Covers
<1>3. \A m, n \in R : m < n => m + d < n + d
  OBVIOUS
<1>4. \A m, n \in R : \A i, j \in L..(H - 1) :
        m < n /\ StandsFor(r[m], c[i]) /\ StandsFor(r[n], c[j]) => i < j
  BY <1>3 DEF Covers
<1>. QED  BY <1>1, <1>2, <1>4 DEF Covers

\* r has those of s at S, and e comes after them: the stretch is longer by one.
Longer(s, S, r, e) == S \in SUBSET Nat /\ e \in Nat /\ \A n \in S : n < e /\ r[n] = s[n]

LEMMA CoversMore ==
  ASSUME NEW s, NEW S, NEW c, NEW L, NEW H, L \in Nat, H \in Nat, Covers(s, S, c, L, H),
         Apart(c), DOMAIN c = 1..Len(c), Len(c) \in Nat, 1 <= L, L <= H, H <= Len(c),
         NEW r, NEW e, Longer(s, S, r, e), StandsFor(r[e], c[H])
  PROVE  Covers(r, S \cup {e}, c, L, H + 1)
<1> USE DEF Longer
<1>1. \A j : j \in L..((H + 1) - 1) <=> j \in L..(H - 1) \/ j = H
  OBVIOUS
<1>2. \A j \in L..((H + 1) - 1) : j \in DOMAIN c
  OBVIOUS
<1>3. \A n \in S \cup {e} : \E j \in L..((H + 1) - 1) : StandsFor(r[n], c[j])
  BY <1>1 DEF Covers
<1>4. \A j \in L..((H + 1) - 1) : \E n \in S \cup {e} : StandsFor(r[n], c[j])
  BY <1>1 DEF Covers
<1>5. ASSUME NEW m \in S \cup {e}, NEW n \in S \cup {e},
             NEW i \in L..((H + 1) - 1), NEW j \in L..((H + 1) - 1),
             m < n, StandsFor(r[m], c[i]), StandsFor(r[n], c[j])
      PROVE  i < j
  <2>1. m \in S
    BY <1>5
  <2>2. PICK k \in L..(H - 1) : StandsFor(r[m], c[k])
    BY <2>1 DEF Covers
  <2>3. i = k
    BY <1>1, <1>2, <1>5, <2>2 DEF Apart
  <2>4. CASE n \in S
    <3>1. PICK l \in L..(H - 1) : StandsFor(r[n], c[l])
      BY <2>4 DEF Covers
    <3>2. j = l
      BY <1>1, <1>2, <1>5, <3>1 DEF Apart
    <3>3. StandsFor(s[m], c[i]) /\ StandsFor(s[n], c[j]) /\ i \in L..(H - 1) /\ j \in L..(H - 1)
      BY <1>5, <2>1, <2>2, <2>3, <2>4, <3>1, <3>2
    <3>. QED  BY <1>5, <2>1, <2>4, <3>3 DEF Covers
  <2>5. CASE n = e
    <3>1. j = H
      BY <1>2, <1>5, <2>5 DEF Apart
    <3>. QED  BY <2>2, <2>3, <3>1
  <2>. QED  BY <1>5, <2>4, <2>5
<1>. QED  BY <1>3, <1>4, <1>5 DEF Covers

\* r has those of s at S but the first, e: the stretch is shorter by one.
Shorter(s, S, r, e) ==
  /\ S \in SUBSET Nat /\ e \in S
  /\ \A n \in S : e <= n /\ (n # e => r[n] = s[n])

LEMMA CoversLess ==
  ASSUME NEW s, NEW S, NEW c, NEW L, NEW H, L \in Nat, H \in Nat, Covers(s, S, c, L, H),
         Apart(c), DOMAIN c = 1..Len(c), Len(c) \in Nat, 1 <= L, H <= Len(c) + 1,
         NEW r, NEW e, Shorter(s, S, r, e)
  PROVE  L < H /\ StandsFor(s[e], c[L]) /\ Covers(r, S \ {e}, c, L + 1, H)
<1> USE DEF Shorter
<1>1. PICK k \in L..(H - 1) : StandsFor(s[e], c[k])
  BY DEF Covers
<1>2. L < H /\ L \in L..(H - 1)
  BY <1>1
<1>3. PICK n \in S : StandsFor(s[n], c[L])
  BY <1>2 DEF Covers
<1>4. n = e
  <2>. SUFFICES ASSUME n # e PROVE FALSE
    OBVIOUS
  <2>1. e < n
    OBVIOUS
  <2>2. k < L
    BY <1>1, <1>2, <1>3, <2>1 DEF Covers
  <2>. QED  BY <1>1, <2>2
<1>5. ASSUME NEW m \in S \ {e} PROVE \E j \in (L + 1)..(H - 1) : StandsFor(r[m], c[j])
  <2>1. PICK j \in L..(H - 1) : StandsFor(s[m], c[j])
    BY DEF Covers
  <2>2. e < m
    OBVIOUS
  <2>3. L < j
    BY <1>2, <1>3, <1>4, <2>1, <2>2 DEF Covers
  <2>4. r[m] = s[m] /\ j \in (L + 1)..(H - 1)
    BY <2>3
  <2>. QED  BY <2>1, <2>4
<1>6. ASSUME NEW j \in (L + 1)..(H - 1) PROVE \E m \in S \ {e} : StandsFor(r[m], c[j])
  <2>1. j \in L..(H - 1) /\ j # L /\ j \in 1..(H - 1) /\ L \in 1..(H - 1)
    OBVIOUS
  <2>2. PICK m \in S : StandsFor(s[m], c[j])
    BY <2>1 DEF Covers
  <2>3. m # e
    BY <1>3, <1>4, <2>1, <2>2 DEF Apart
  <2>. QED  BY <2>2, <2>3
<1>7. \A j \in (L + 1)..(H - 1) : j \in L..(H - 1)
  OBVIOUS
<1>8. \A m, l \in S \ {e} : \A i, j \in (L + 1)..(H - 1) :
        m < l /\ StandsFor(r[m], c[i]) /\ StandsFor(r[l], c[j]) => i < j
  BY <1>7 DEF Covers
<1>. QED  BY <1>2, <1>3, <1>4, <1>5, <1>6, <1>8 DEF Covers
-----------------------------------------------------------------------------
\* A block of the function is all its own: its PHIs, then what it does.
LEMMA InitWInv ==
  ASSUME Opaque, Init
  PROVE  WInv
<1>1. PICK p \in Programs : p = prog
  BY DEF Init
<1>2. /\ code = p.code /\ inst = p.inst /\ term = p.term /\ pc = "find"
      /\ VMap = [s \in {"then", "else", "tail"} |-> NoMap]
  BY <1>1 DEF Init
<1>3. IInv
  BY InitIInv
<1>4. DOMAIN code = Blocks
  BY <1>2, Input
<1>5. \A b \in Blocks : OriginBlock(b) = b /\ Text(b) = p.code[b]
  BY <1>1 DEF OriginBlock, Text
<1>6. PICK lo : lo = [b \in Blocks |-> FirstNonPHI(b)]
  OBVIOUS
<1>7. PICK hi : hi = [b \in Blocks |-> Len(p.code[b]) + 1]
  OBVIOUS
<1>8. PICK rk : rk = [b \in Blocks |-> 0]
  OBVIOUS
<1>9. ASSUME NEW b \in Blocks
      PROVE  lo[b] \in Nat /\ hi[b] \in Nat /\ rk[b] = 0 /\ Works(b, lo, hi, rk)
  <2>1. PICK c : c = p.code[b]
    OBVIOUS
  <2>2. PICK N \in Nat : N = Len(c) /\ DOMAIN c = 1..N /\ \A n \in 1..N : c[n] \in DOMAIN p.inst
    BY <1>1, <2>1, OneText
  <2>3. PICK k : k = FirstNonPHI(b)
    OBVIOUS
  <2>4. k \in 1..(N + 1) /\ \A n \in 1..N : n >= k <=> p.inst[c[n]].kind # "phi"
    <3>1. /\ code[b] \in Seq(DOMAIN inst)
          /\ \A m, n \in DOMAIN code[b] : m < n /\ n \in Phis(code[b]) => m \in Phis(code[b])
      BY <1>2, <1>3, <1>4 DEF IInv, PlacesOK, PhisFirst
    <3>2. k \in 1..(N + 1) /\ \A n \in 1..N : n >= k <=> n \notin Phis(c)
      BY <1>2, <2>1, <2>2, <2>3, <3>1, FirstNonPHIs
    <3>3. \A n \in 1..N : n \in Phis(c) <=> p.inst[c[n]].kind = "phi"
      BY <1>2, <2>2 DEF Phis
    <3>. QED  BY <3>2, <3>3
  <2>5. Doing(b) = k..N
    <3>1. \A n \in 1..N : p.inst[c[n]].kind # "cond"
      <4>1. ASSUME NEW v \in DOMAIN p.inst PROVE p.inst[v].kind # "cond"
        <5>1. IsProgram(p)
          BY ProgramAssumption
        <5>2. p.inst[v] \in [kind : {"value", "void", "phi", "pad"},
                             opnds : Seq(Args \cup Globals \cup DOMAIN p.inst), from : Seq(Blocks)]
          BY <5>1 DEF IsProgram
        <5>. QED  BY <5>2
      <4>. QED  BY <2>2, <4>1
    <3>2. Doing(b) = {n \in 1..N : p.inst[c[n]].kind \notin {"phi", "cond"}}
      BY <1>2, <2>1, <2>2 DEF Doing, Removing
    <3>. QED  BY <2>4, <3>1, <3>2
  <2>6. lo[b] = k /\ hi[b] = N + 1 /\ rk[b] = 0
    BY <1>6, <1>7, <1>8, <2>1, <2>2, <2>3
  <2>7. Covers(code[b], Doing(b), c, k, N + 1)
    <3>1. \A n \in k..N : StandsFor(c[n], c[n]) /\ n \in DOMAIN c
      BY <2>2, <2>4 DEF StandsFor
    <3>2. Apart(c)
      BY <1>1, <2>1, OneText
    <3>3. (N + 1) - 1 = N /\ code[b] = c
      BY <1>2, <2>1
    <3>4. \A m, n, i, j \in k..N : m < n /\ StandsFor(c[m], c[i]) /\ StandsFor(c[n], c[j]) => i < j
      <4>1. \A m, i \in k..N : StandsFor(c[m], c[i]) => m = i
        BY <3>1, <3>2 DEF Apart
      <4>. QED  BY <4>1
    <3>. QED  BY <2>5, <3>1, <3>3, <3>4 DEF Covers
  <2>8. Leaves(b, hi)
    <3>1. PICK o : o = p.term[b].opnds
      OBVIOUS
    <3>2. Mirrors(o, o)
      BY DEF Mirrors, StandsFor
    <3>. QED  BY <1>1, <1>2, <1>5, <2>1, <2>2, <2>6, <3>1, <3>2 DEF Leaves
  <2>9. \A n \in DOMAIN c : n < k <=> p.inst[c[n]].kind = "phi"
    BY <2>2, <2>4
  <2>. QED  BY <1>1, <1>5, <2>1, <2>2, <2>4, <2>6, <2>7, <2>8, <2>9 DEF Works
<1>10. Work(lo, hi, rk, 0)
  BY <1>4, <1>9 DEF Work
<1>11. InstsMirror
  <2>. SUFFICES ASSUME NEW v \in DOMAIN inst, NEW o \in DOMAIN prog.inst, StandsFor(v, o)
                PROVE  Mirrors(inst[v].opnds, prog.inst[o].opnds)
    BY DEF InstsMirror
  <2>1. Original(v) /\ Original(o) /\ StandsFor(v, v)
    BY <1>1, <1>2 DEF Original, StandsFor
  <2>2. Origin(v) = o /\ Origin(v) = v
    BY <1>1, <2>1, OriginOf
  <2>3. PICK q : q = prog.inst[o].opnds
    OBVIOUS
  <2>4. Mirrors(q, q)
    BY DEF Mirrors, StandsFor
  <2>. QED  BY <1>1, <1>2, <2>2, <2>3, <2>4
<1>12. MapsOK
  BY <1>2 DEF MapsOK
<1>. QED  BY <1>10, <1>11, <1>12 DEF WInv

\* findBBsToDuplicate, and what follows the last cloneBB.
LEMMA SameWInv ==
  ASSUME WInv, UNCHANGED <<prog, code, inst, term, VMap>>,
         \/ pc' = pc /\ ToRemove' = ToRemove
         \/ pc # "clone" /\ pc' # "clone"
  PROVE  WInv'
<1>1. Removing' = Removing
  BY DEF Removing
<1>2. \A b : Doing(b)' = Doing(b) /\ Text(b)' = Text(b)
  BY <1>1 DEF Doing, Text
<1>3. PICK lo, hi, rk, M : Work(lo, hi, rk, M)
  BY DEF WInv
<1>4. ASSUME NEW b \in DOMAIN code PROVE Works(b, lo, hi, rk)'
  <2>1. Works(b, lo, hi, rk)
    BY <1>3 DEF Work
  <2>2. Leaves(b, hi)' = Leaves(b, hi) /\ GoesOn(b, lo, hi, rk)' = GoesOn(b, lo, hi, rk)
    BY <1>2 DEF Leaves, GoesOn
  <2>. QED  BY <1>2, <2>1, <2>2 DEF Works
<1>5. Work(lo, hi, rk, M)'
  BY <1>3, <1>4 DEF Work
<1>6. InstsMirror'
  BY DEF WInv, InstsMirror, OwnKind
<1>7. MapsOK'
  BY DEF WInv, MapsOK, KeepsMeaning, Original
<1>. QED  BY <1>5, <1>6, <1>7 DEF WInv
-----------------------------------------------------------------------------
\* The new blocks are parts of the block that is split.
LEMMA SplitOrigin ==
  ASSUME Opaque, IInv, NEW b, NEW k, NEW c, NEW th, NEW el, NEW t, SplitOf(b, k, c, th, el, t)
  PROVE  \A x \in {th, el, t} : x \notin Blocks /\ OriginBlock(x) = OriginBlock(b)
<1>1. /\ th = <<b, "then", count>> /\ el = <<b, "else", count>> /\ t = <<b, "tail", count>>
      /\ OldBlock(b) /\ prog \in Programs
  BY DEF SplitOf, SplitNames, IInv, Counters
<1>2. b \in Blocks \/ b[1] \in Blocks
  BY <1>1 DEF OldBlock, Part
<1>3. ASSUME NEW x \in {th, el, t} PROVE x \notin Blocks /\ OriginBlock(x) = OriginBlock(b)
  <2>1. PICK s : x = <<b, s, count>>
    BY <1>1
  <2>2. <<b, s, count>> \notin Blocks
    BY <1>1, NoTuple
  <2>3. x \notin Blocks /\ x[1] = b
    BY <2>1, <2>2
  <2>. QED  BY <1>2, <2>3 DEF OriginBlock
<1>. QED  BY <1>3

\* What the blocks do after the split: the head and the clones nothing, the
\* tail what the block did.
LEMMA SplitDoing ==
  ASSUME IInv, NEW b, NEW k, NEW c, NEW th, NEW el, NEW t, SplitOf(b, k, c, th, el, t)
  PROVE  /\ \A x \in {b, th, el} : Doing(x)' = {}
         /\ \A x \in DOMAIN code : x # b => Doing(x)' = Doing(x)
         /\ k \in Nat \ {0} /\ Doing(b) \in SUBSET Nat /\ Doing(t)' \in SUBSET Nat
         /\ \A n \in Doing(t)' : n + (k - 1) \in Doing(b) /\ code'[t][n] = code[b][n + (k - 1)]
         /\ \A n \in Doing(b) : \E m \in Doing(t)' : n = m + (k - 1)
<1>1. SplitNames(b, k, c, th, el, t) /\ SplitCode(b, k, c, th, el, t) /\ SplitInsts(b, c, t)
      /\ pc = "target" /\ pc' = "clone" /\ ToRemove' = {}
  BY DEF SplitOf
<1>2. Removing = {} /\ Removing' = {}
  BY <1>1 DEF Removing
<1>3. \A x \in DOMAIN code : \A n \in DOMAIN code[x] : code[x][n] \in DOMAIN inst
  <2>1. \A x \in DOMAIN code : code[x] \in Seq(DOMAIN inst)
    BY DEF IInv, PlacesOK
  <2>. QED  BY <2>1
<1>4. \A v \in DOMAIN inst : inst'[v].kind = inst[v].kind
  BY <1>1 DEF SplitInsts
<1>5. PICK N \in Nat : N = Len(code[b]) /\ DOMAIN code[b] = 1..N
  <2>1. code[b] \in Seq(DOMAIN inst)
    BY <1>1 DEF SplitNames, IInv, PlacesOK
  <2>. QED  BY <2>1
<1>6. k \in 1..(N + 1) /\ \A m \in 1..N : m >= k <=> inst[code[b][m]].kind # "phi"
  <2>1. k \in 1..(N + 1) /\ \A m \in 1..N : m >= k <=> m \notin Phis(code[b])
    BY <1>1, <1>5 DEF SplitNames
  <2>2. \A m \in 1..N : m \in Phis(code[b]) <=> inst[code[b][m]].kind = "phi"
    BY <1>5 DEF Phis
  <2>. QED  BY <2>1, <2>2
<1>7. Doing(th)' = {} /\ Doing(el)' = {}
  BY <1>1 DEF Doing, SplitCode
<1>8. Doing(b)' = {}
  <2>1. \A n \in DOMAIN code'[b] : inst'[code'[b][n]].kind \in {"phi", "cond"}
    <3>1. \A n \in 1..(k - 1) : n \in 1..N /\ ~(n >= k)
      BY <1>5, <1>6
    <3>2. \A n \in 1..(k - 1) : inst'[code'[b][n]].kind = "phi"
      <4>1. \A n \in 1..(k - 1) : code'[b][n] = code[b][n]
        BY <1>1 DEF SplitCode
      <4>2. b \in DOMAIN code
        BY <1>1 DEF SplitNames
      <4>3. \A n \in 1..(k - 1) : code[b][n] \in DOMAIN inst /\ inst[code[b][n]].kind = "phi"
        BY <1>3, <1>5, <1>6, <3>1, <4>2
      <4>. QED  BY <1>4, <4>1, <4>3
    <3>3. inst'[code'[b][k]].kind = "cond"
      BY <1>1 DEF SplitCode, SplitInsts
    <3>4. \A n \in DOMAIN code'[b] : n \in 1..(k - 1) \/ n = k
      BY <1>1, <1>6 DEF SplitCode
    <3>. QED  BY <3>2, <3>3, <3>4
  <2>. QED  BY <2>1 DEF Doing
<1>9. ASSUME NEW x \in DOMAIN code, x # b PROVE Doing(x)' = Doing(x)
  <2>1. code'[x] = code[x]
    BY <1>1, <1>9 DEF SplitCode
  <2>2. \A n \in DOMAIN code[x] : inst'[code[x][n]].kind = inst[code[x][n]].kind
    BY <1>3, <1>4
  <2>. QED  BY <1>2, <2>1, <2>2 DEF Doing
<1>10. Doing(b) = {n \in 1..N : inst[code[b][n]].kind \notin {"phi", "cond"}}
  BY <1>2, <1>5 DEF Doing
<1>11. \A n \in Doing(b) : n \in k..N
  BY <1>5, <1>6, <1>10
<1>12. /\ DOMAIN code'[t] = 1..(N + 1 - k)
       /\ \A n \in 1..(N + 1 - k) : code'[t][n] = code[b][n + (k - 1)] /\ n + (k - 1) \in 1..N
  <2>1. \A n \in 1..(N + 1 - k) : n + k - 1 = n + (k - 1) /\ n + (k - 1) \in 1..N
    BY <1>5, <1>6
  <2>. QED  BY <1>1, <1>5, <2>1 DEF SplitCode
<1>13. Doing(t)' = {n \in 1..(N + 1 - k) : inst[code[b][n + (k - 1)]].kind \notin {"phi", "cond"}}
  <2>1. \A n \in 1..(N + 1 - k) : inst'[code'[t][n]].kind = inst[code[b][n + (k - 1)]].kind
    <3>1. \A n \in 1..(N + 1 - k) : code[b][n + (k - 1)] \in DOMAIN inst
      BY <1>1, <1>3, <1>5, <1>12 DEF SplitNames
    <3>. QED  BY <1>4, <1>12, <3>1
  <2>2. Doing(t)' = {n \in 1..(N + 1 - k) : inst'[code'[t][n]].kind \notin {"phi", "cond"}}
    BY <1>2, <1>12 DEF Doing
  <2>. QED  BY <2>1, <2>2
<1>14. \A n \in Doing(t)' : n + (k - 1) \in Doing(b) /\ code'[t][n] = code[b][n + (k - 1)]
  BY <1>10, <1>12, <1>13
<1>15. ASSUME NEW n \in Doing(b) PROVE \E m \in Doing(t)' : n = m + (k - 1)
  <2>1. n \in k..N /\ inst[code[b][n]].kind \notin {"phi", "cond"}
    BY <1>10, <1>11
  <2>2. PICK m \in 1..(N + 1 - k) : n = m + (k - 1)
    <3>1. n - (k - 1) \in 1..(N + 1 - k) /\ n = (n - (k - 1)) + (k - 1)
      BY <1>6, <2>1
    <3>. QED  BY <3>1
  <2>. QED  BY <1>13, <2>1, <2>2
<1>16. Doing(b) \in SUBSET Nat /\ Doing(t)' \in SUBSET Nat /\ k \in Nat \ {0}
  BY <1>6, <1>10, <1>13
<1>. QED  BY <1>7, <1>8, <1>9, <1>14, <1>15, <1>16

\* The split of b as the stretches and ranks see it.
SplitStretch(b, th, el, t, lo, hi, rk, lq, hq, rq) ==
  /\ \A x \in DOMAIN code : lq[x] = lo[x]
  /\ \A x \in DOMAIN code : x # b => hq[x] = hi[x]
  /\ hq[b] = lo[b]
  /\ \A x \in {th, el} : lq[x] = lo[b] /\ hq[x] = lo[b]
  /\ lq[t] = lo[b] /\ hq[t] = hi[b]
  /\ \A x \in DOMAIN code : rq[x] = 3 * rk[x] + 2
  /\ \A x \in {th, el} : rq[x] = 3 * rk[b] + 1
  /\ rq[t] = 3 * rk[b]

LEMMA SplitStretches ==
  ASSUME Opaque, IInv, NEW b, NEW k, NEW c, NEW th, NEW el, NEW t, SplitOf(b, k, c, th, el, t),
         NEW lo, NEW hi, NEW rk
  PROVE  \E lq, hq, rq : SplitStretch(b, th, el, t, lo, hi, rk, lq, hq, rq)
<1>1. /\ b \in DOMAIN code /\ th \notin DOMAIN code /\ el \notin DOMAIN code /\ t \notin DOMAIN code
      /\ th # t /\ el # t
  BY DEF SplitOf, SplitNames
<1>2. PICK D : D = DOMAIN code \cup {th, el, t}
  OBVIOUS
<1>3. PICK lq : lq = [x \in D |-> IF x \in DOMAIN code THEN lo[x] ELSE lo[b]]
  OBVIOUS
<1>4. PICK hq : hq = [x \in D |-> IF x = t THEN hi[b] ELSE IF x \in {b, th, el} THEN lo[b] ELSE hi[x]]
  OBVIOUS
<1>5. PICK rq : rq = [x \in D |-> IF x = t THEN 3 * rk[b] ELSE IF x \in {th, el} THEN 3 * rk[b] + 1
                                   ELSE 3 * rk[x] + 2]
  OBVIOUS
<1>6. /\ \A x \in DOMAIN code : lq[x] = lo[x] /\ rq[x] = 3 * rk[x] + 2
      /\ \A x \in DOMAIN code : x # b => hq[x] = hi[x]
      /\ hq[b] = lo[b]
  BY <1>1, <1>2, <1>3, <1>4, <1>5
<1>7. /\ \A x \in {th, el} : lq[x] = lo[b] /\ hq[x] = lo[b] /\ rq[x] = 3 * rk[b] + 1
      /\ lq[t] = lo[b] /\ hq[t] = hi[b] /\ rq[t] = 3 * rk[b]
  BY <1>1, <1>2, <1>3, <1>4, <1>5
<1>. QED  BY <1>6, <1>7 DEF SplitStretch

LEMMA SplitWork ==
  ASSUME Opaque, IInv, Split, NEW b, NEW k, NEW c, NEW th, NEW el, NEW t, SplitOf(b, k, c, th, el, t),
         NEW lo, NEW hi, NEW rk, NEW M, Work(lo, hi, rk, M),
         NEW lq, NEW hq, NEW rq, SplitStretch(b, th, el, t, lo, hi, rk, lq, hq, rq)
  PROVE  Work(lq, hq, rq, 3 * M + 2)'
<1>1. /\ b \in DOMAIN code /\ th \notin DOMAIN code /\ el \notin DOMAIN code /\ t \notin DOMAIN code
      /\ DOMAIN code' = DOMAIN code \cup {th, el, t} /\ prog' = prog
      /\ code'[th] = <<>> /\ code'[el] = <<>>
      /\ \A x \in DOMAIN code : x # b => code'[x] = code[x]
      /\ term'[b].tgts = <<th, el>> /\ term'[th].tgts = <<t>> /\ term'[el].tgts = <<t>>
      /\ term'[t].tgts = term[b].tgts
      /\ \A x \in DOMAIN code : x # b => term'[x].tgts = term[x].tgts
  BY DEF SplitOf, SplitNames, SplitCode, SplitTerms
<1>2. /\ term'[t].opnds = term[b].opnds
      /\ \A x \in DOMAIN code : x # b => term'[x].opnds = term[x].opnds
  BY SplitOperands DEF SplitOpnds
<1>3. \A x \in {th, el, t} : x \notin Blocks /\ OriginBlock(x) = OriginBlock(b)
  BY SplitOrigin
<1>4. \A x : OriginBlock(x)' = OriginBlock(x) /\ Text(x)' = Text(x)
  BY <1>1 DEF OriginBlock, Text
<1>5. /\ M \in Nat
      /\ \A x \in DOMAIN code : lo[x] \in Nat /\ hi[x] \in Nat /\ rk[x] \in 0..M
      /\ \A x \in DOMAIN code : Works(x, lo, hi, rk)
  BY DEF Work
<1>6. /\ \A x \in DOMAIN code : lq[x] = lo[x]
      /\ \A x \in DOMAIN code : x # b => hq[x] = hi[x]
      /\ hq[b] = lo[b]
      /\ lq[th] = lo[b] /\ lq[el] = lo[b] /\ hq[th] = lo[b] /\ hq[el] = lo[b]
      /\ lq[t] = lo[b] /\ hq[t] = hi[b]
      /\ \A x \in DOMAIN code : rq[x] = 3 * rk[x] + 2
      /\ rq[th] = 3 * rk[b] + 1 /\ rq[el] = 3 * rk[b] + 1
      /\ rq[t] = 3 * rk[b]
  BY DEF SplitStretch
<1>7. \A x \in DOMAIN code' : lq[x] \in Nat /\ hq[x] \in Nat /\ rq[x] \in 0..(3 * M + 2)
  <2>1. \A x \in DOMAIN code : 3 * rk[x] + 2 \in 0..(3 * M + 2) /\ 3 * rk[x] + 1 \in 0..(3 * M + 2) /\ 3 * rk[x] \in 0..(3 * M + 2)
    BY <1>5
  <2>2. ASSUME NEW x \in DOMAIN code PROVE lq[x] \in Nat /\ hq[x] \in Nat /\ rq[x] \in 0..(3 * M + 2)
    BY <1>1, <1>5, <1>6, <2>1
  <2>3. ASSUME NEW x \in {th, el, t} PROVE lq[x] \in Nat /\ hq[x] \in Nat /\ rq[x] \in 0..(3 * M + 2)
    <3>1. 3 * rk[b] + 1 \in 0..(3 * M + 2) /\ 3 * rk[b] \in 0..(3 * M + 2) /\ lo[b] \in Nat /\ hi[b] \in Nat
      BY <1>1, <1>5, <2>1
    <3>. QED  BY <1>6, <3>1
  <2>. QED  BY <1>1, <2>2, <2>3
<1>8. Works(b, lo, hi, rk) /\ lo[b] \in Nat /\ hi[b] \in Nat /\ rk[b] \in Nat
  BY <1>1, <1>5
<1>9. OriginBlock(b) \in Blocks /\ 1 <= lo[b] /\ lo[b] <= hi[b] /\ hi[b] <= Len(Text(b)) + 1
      /\ Len(Text(b)) \in Nat
  <2>1. OriginBlock(b) \in Blocks /\ prog \in Programs
    BY <1>8 DEF Works, IInv, Counters
  <2>2. Len(Text(b)) \in Nat
    BY <2>1, OneText DEF Text
  <2>. QED  BY <1>8, <2>2 DEF Works
\* The head and the clones, which go on to the next part.
<1>10. ASSUME NEW x \in {b, th, el} PROVE Works(x, lq, hq, rq)'
  <2>1. OriginBlock(x) = OriginBlock(b) /\ Text(x) = Text(b)
    BY <1>3 DEF Text
  <2>2. lq[x] = lo[b] /\ hq[x] = lo[b]
    BY <1>1, <1>6
  <2>3. Covers(code'[x], Doing(x)', Text(b), lo[b], lo[b])
    <3>1. Doing(x)' = {}
      BY SplitDoing
    <3>. QED  BY <1>8, <3>1, CoversNone
  <2>4. GoesOn(x, lq, hq, rq)'
    <3>1. CASE x = b
      <4>1. term'[x].tgts = <<th, el>>
        BY <1>1, <3>1
      <4>2. \A j \in DOMAIN term'[x].tgts : term'[x].tgts[j] \in {th, el}
        BY <4>1
      <4>3. DOMAIN term'[x].tgts # {}
        BY <4>1
      <4>4. \A d \in {th, el} : /\ d \notin Blocks /\ OriginBlock(d) = OriginBlock(x)
                                /\ lq[d] = hq[x] /\ rq[d] < rq[x]
        BY <1>1, <1>3, <1>6, <1>8, <3>1
      <4>. QED  BY <1>4, <4>2, <4>3, <4>4 DEF GoesOn
    <3>2. CASE x \in {th, el}
      <4>1. term'[x].tgts = <<t>>
        BY <1>1, <3>2
      <4>2. \A j \in DOMAIN term'[x].tgts : term'[x].tgts[j] = t
        BY <4>1
      <4>3. DOMAIN term'[x].tgts # {}
        BY <4>1
      <4>4. /\ t \notin Blocks /\ OriginBlock(t) = OriginBlock(x)
            /\ lq[t] = hq[x] /\ rq[t] < rq[x]
        BY <1>3, <1>6, <1>8, <3>2
      <4>. QED  BY <1>4, <4>2, <4>3, <4>4 DEF GoesOn
    <3>. QED  BY <3>1, <3>2
  <2>5. x \in Blocks => \A n \in DOMAIN Text(x) : n < lo[b] <=> prog.inst[Text(x)[n]].kind = "phi"
    <3>1. x \in Blocks => x = b
      BY <1>3
    <3>. QED  BY <1>8, <3>1 DEF Works
  <2>6. lo[b] <= lo[b] /\ lo[b] <= Len(Text(b)) + 1
    BY <1>8, <1>9
  <2>. QED  BY <1>1, <1>4, <1>9, <2>1, <2>2, <2>3, <2>4, <2>5, <2>6 DEF Works
\* The tail, which goes where the block went.
<1>11. Works(t, lq, hq, rq)'
  <2>1. t \notin Blocks /\ OriginBlock(t) = OriginBlock(b) /\ Text(t) = Text(b)
    BY <1>3 DEF Text
  <2>2. lq[t] = lo[b] /\ hq[t] = hi[b]
    BY <1>6
  <2>3. Covers(code'[t], Doing(t)', Text(b), lo[b], hi[b])
    <3>1. Covers(code[b], Doing(b), Text(b), lo[b], hi[b])
      BY <1>8 DEF Works
    <3>2. PICK d \in Nat : d = k - 1
      BY SplitDoing
    <3>3. /\ Doing(b) \in SUBSET Nat /\ Doing(t)' \in SUBSET Nat
          /\ \A n \in Doing(t)' : n + d \in Doing(b) /\ code'[t][n] = code[b][n + d]
          /\ \A n \in Doing(b) : \E m \in Doing(t)' : n = m + d
      BY <3>2, SplitDoing
    <3>4. Shifted(code[b], Doing(b), code'[t], Doing(t)', d)
      BY <3>3 DEF Shifted
    <3>. QED  BY <1>8, <3>1, <3>4, CoversMoved
  <2>4. Leaves(b, hi) => Leaves(t, hq)'
    BY <1>1, <1>2, <1>4, <2>1, <2>2 DEF Leaves
  <2>5. GoesOn(b, lo, hi, rk) => GoesOn(t, lq, hq, rq)'
    <3>. SUFFICES ASSUME GoesOn(b, lo, hi, rk) PROVE GoesOn(t, lq, hq, rq)'
      OBVIOUS
    <3>1. \A j \in DOMAIN term[b].tgts : term[b].tgts[j] \in DOMAIN code
      BY <1>1 DEF IInv, TermsOK
    <3>2. ASSUME NEW d \in DOMAIN code, rk[d] < rk[b] PROVE rq[d] < rq[t]
      BY <1>5, <1>6, <1>8, <3>2
    <3>. QED  BY <1>1, <1>4, <1>6, <2>1, <2>2, <3>1, <3>2 DEF GoesOn
  <2>. QED  BY <1>1, <1>4, <1>8, <1>9, <2>1, <2>2, <2>3, <2>4, <2>5 DEF Works
\* The others.
<1>12. ASSUME NEW x \in DOMAIN code, x # b PROVE Works(x, lq, hq, rq)'
  <2>1. /\ Works(x, lo, hi, rk) /\ lq[x] = lo[x] /\ hq[x] = hi[x]
        /\ code'[x] = code[x] /\ term'[x].tgts = term[x].tgts /\ term'[x].opnds = term[x].opnds
    BY <1>1, <1>2, <1>5, <1>6, <1>12
  <2>2. Doing(x)' = Doing(x)
    BY <1>12, SplitDoing
  <2>3. Leaves(x, hi) => Leaves(x, hq)'
    BY <1>1, <1>4, <2>1 DEF Leaves
  <2>4. GoesOn(x, lo, hi, rk) => GoesOn(x, lq, hq, rq)'
    <3>. SUFFICES ASSUME GoesOn(x, lo, hi, rk) PROVE GoesOn(x, lq, hq, rq)'
      OBVIOUS
    <3>1. \A j \in DOMAIN term[x].tgts : term[x].tgts[j] \in DOMAIN code
      BY DEF IInv, TermsOK
    <3>2. ASSUME NEW d \in DOMAIN code, rk[d] < rk[x] PROVE rq[d] < rq[x]
      BY <1>5, <1>6, <3>2
    <3>. QED  BY <1>4, <1>6, <2>1, <3>1, <3>2 DEF GoesOn
  <2>. QED  BY <1>1, <1>4, <2>1, <2>2, <2>3, <2>4 DEF Works
<1>13. \A x \in DOMAIN code' : Works(x, lq, hq, rq)'
  BY <1>1, <1>10, <1>11, <1>12
<1>. QED  BY <1>5, <1>7, <1>13 DEF Work

LEMMA SplitWInv ==
  ASSUME Opaque, IInv, WInv, Split
  PROVE  WInv'
<1>1. PICK b, k, c, th, el, t : SplitOf(b, k, c, th, el, t)
  BY SplitDoes
<1>2. PICK lo, hi, rk, M : Work(lo, hi, rk, M)
  BY DEF WInv
<1>3. PICK lq, hq, rq : SplitStretch(b, th, el, t, lo, hi, rk, lq, hq, rq)
  BY <1>1, SplitStretches
<1>4. Work(lq, hq, rq, 3 * M + 2)'
  BY <1>1, <1>2, <1>3, SplitWork
<1>5. InstsMirror'
  <2>1. /\ DOMAIN inst' = DOMAIN inst \cup {c} /\ inst'[c].kind = "cond" /\ prog' = prog
        /\ \A v \in DOMAIN inst : inst'[v].kind = inst[v].kind /\ inst'[v].opnds = inst[v].opnds
    BY <1>1 DEF SplitOf, SplitInsts
  <2>. QED  BY <2>1 DEF WInv, InstsMirror, OwnKind
<1>6. MapsOK'
  <2>1. DOMAIN VMap' = DOMAIN VMap /\ \A s \in DOMAIN VMap : DOMAIN VMap'[s] = {}
    BY <1>1, SplitOperands DEF SplitOpnds
  <2>. QED  BY <2>1 DEF WInv, MapsOK, KeepsMeaning
<1>. QED  BY <1>4, <1>5, <1>6 DEF WInv
-----------------------------------------------------------------------------
\* Operands of the function's terminators are its values.
LEMMA InputUses ==
  ASSUME prog \in Programs
  PROVE  /\ \A o \in DOMAIN prog.inst : \A k \in DOMAIN prog.inst[o].opnds : Original(prog.inst[o].opnds[k])
         /\ \A b \in Blocks : \A k \in DOMAIN prog.term[b].opnds : Original(prog.term[b].opnds[k])
<1>1. ASSUME NEW o \in DOMAIN prog.inst, NEW k \in DOMAIN prog.inst[o].opnds
      PROVE  Original(prog.inst[o].opnds[k])
  <2>1. PICK q : q = prog.inst[o].opnds
    OBVIOUS
  <2>2. q \in Seq(Args \cup Globals \cup DOMAIN prog.inst) /\ k \in DOMAIN q
    BY <1>1, <2>1, InputInst
  <2>. QED  BY <2>1, <2>2 DEF Original
<1>2. ASSUME NEW b \in Blocks, NEW k \in DOMAIN prog.term[b].opnds PROVE Original(prog.term[b].opnds[k])
  <2>1. PICK t, q : t = prog.term[b] /\ q = t.opnds
    OBVIOUS
  <2>2. IsProgram(prog)
    BY ProgramAssumption
  <2>3. t \in [kind : STRING, opnds : Seq(Args \cup Globals \cup DOMAIN prog.inst), tgts : Seq(Blocks)]
    BY <2>1, <2>2 DEF IsProgram
  <2>4. q \in Seq(Args \cup Globals \cup DOMAIN prog.inst) /\ k \in DOMAIN q
    BY <1>2, <2>1, <2>3
  <2>. QED  BY <2>1, <2>4 DEF Original
<1>. QED  BY <1>1, <1>2

\* Operands that are replaced, or mapped, stand for what they stood for.
LEMMA MirrorsReplaced ==
  ASSUME Opaque, IInv, NEW v, NEW w, OldValue(v), w = v \/ w = <<v, "phi">>,
         NEW q, \A k \in DOMAIN q : Original(q[k]), NEW s, Mirrors(s, q), NEW r, IsReplaced(r, s, v, w)
  PROVE  Mirrors(r, q)
<1>1. \A k \in DOMAIN q : StandsFor(v, q[k]) => StandsFor(w, q[k])
  BY CloneStands
<1>. QED  BY <1>1 DEF Mirrors, IsReplaced

LEMMA MirrorsRemapped ==
  ASSUME NEW map, KeepsMeaning(map), NEW q, \A k \in DOMAIN q : Original(q[k]), NEW s, Mirrors(s, q)
  PROVE  Mirrors(Remap(s, map), q)
<1>1. PICK r : r = Remap(s, map)
  OBVIOUS
<1>2. DOMAIN r = DOMAIN s /\ \A k \in DOMAIN s : r[k] = IF s[k] \in DOMAIN map THEN map[s[k]] ELSE s[k]
  BY <1>1 DEF Remap, Lookup
<1>3. Mirrors(r, q)
  BY <1>2 DEF Mirrors, KeepsMeaning
<1>. QED  BY <1>1, <1>3

\* The maps of the clones go on to keep the meaning.
LEMMA MapsFollow ==
  ASSUME Opaque, IInv, NEW v, NEW w, OldValue(v), w = v \/ w = <<v, "phi">>,
         NEW old, KeepsMeaning(old), NEW new, NEW s, MapFollows(new, old, v, w, <<v, s>>)
  PROVE  KeepsMeaning(new)
<1>. SUFFICES ASSUME NEW x \in DOMAIN new, NEW o, Original(o), StandsFor(x, o) PROVE StandsFor(new[x], o)
  BY DEF KeepsMeaning
<1>1. CASE x = w
  <2>1. StandsFor(v, o)
    BY <1>1, CloneStands
  <2>2. StandsFor(<<v, s>>, o)
    BY <2>1, CloneStands
  <2>. QED  BY <1>1, <2>2 DEF MapFollows
<1>2. CASE x # w
  <2>1. x \in DOMAIN old /\ new[x] = old[x]
    BY <1>2 DEF MapFollows
  <2>. QED  BY <2>1 DEF KeepsMeaning
<1>. QED  BY <1>1, <1>2

LEMMA CloneMirrors ==
  ASSUME Opaque, IInv, InstsMirror, MapsOK,
         NEW b, NEW v, NEW w, NEW th, NEW el, NEW tv, NEW ev,
         CloneOf(b, v, w, th, el, tv, ev), CloneOpnds(v, w, tv, ev)
  PROVE  InstsMirror' /\ MapsOK'
<1>1. /\ v \in DOMAIN inst /\ OldValue(v) /\ tv = <<v, "then">> /\ ev = <<v, "else">>
      /\ prog' = prog /\ pc = "clone" /\ prog \in Programs
      /\ w = v \/ w = <<v, "phi">>
  BY DEF CloneOf, CloneNames, UnderIIT, IInv, Counters
<1>2. /\ DOMAIN inst' = (DOMAIN inst \ {v}) \cup {w, tv, ev}
      /\ \A x \in DOMAIN inst : x # v \/ w = v => inst'[x].kind = inst[x].kind
      /\ \A x \in {tv, ev} : inst'[x].kind = inst[v].kind
      /\ w # v => inst'[w].kind = "phi"
  BY DEF CloneOf, CloneInsts, KeptInst
<1>3. KeepsMeaning(VMap["then"]) /\ KeepsMeaning(VMap["else"])
      /\ \A x \in DOMAIN VMap["tail"] : VMap["tail"][x] = x
  BY <1>1 DEF MapsOK
<1>4. \A map : KeepsMeaning(map)' = KeepsMeaning(map)
  BY <1>1 DEF KeepsMeaning, Original
<1>5. InstsMirror'
  <2>. SUFFICES ASSUME NEW x \in DOMAIN inst', inst'[x].kind \notin {"phi", "cond"},
                       NEW o \in DOMAIN prog.inst, StandsFor(x, o)
                PROVE  Mirrors(inst'[x].opnds, prog.inst[o].opnds)
    BY <1>1 DEF InstsMirror, OwnKind
  <2>1. PICK q : q = prog.inst[o].opnds
    OBVIOUS
  <2>2. Original(o) /\ \A k \in DOMAIN q : Original(q[k])
    BY <1>1, <2>1, InputUses DEF Original
  <2>3. CASE x \in {tv, ev}
    <3>1. OwnKind(v)
      BY <1>2, <2>3 DEF OwnKind
    <3>2. StandsFor(v, o)
      BY <1>1, <2>2, <2>3, CloneStands
    <3>3. PICK s : s = inst[v].opnds
      OBVIOUS
    <3>4. Mirrors(s, q)
      BY <1>1, <2>1, <3>1, <3>2, <3>3 DEF InstsMirror
    <3>5. PICK map : KeepsMeaning(map) /\ IsReplaced(inst'[x].opnds, Remap(s, map), v, w)
      BY <1>3, <2>3, <3>3 DEF CloneOpnds
    <3>6. Mirrors(Remap(s, map), q)
      BY <2>2, <3>4, <3>5, MirrorsRemapped
    <3>. QED  BY <1>1, <2>1, <2>2, <3>5, <3>6, MirrorsReplaced
  <2>4. CASE x \in DOMAIN inst /\ (x # v \/ w = v)
    <3>1. OwnKind(x)
      BY <1>2, <2>4 DEF OwnKind
    <3>2. Mirrors(inst[x].opnds, q)
      BY <2>1, <2>4, <3>1 DEF InstsMirror
    <3>3. IsReplaced(inst'[x].opnds, inst[x].opnds, v, w)
      BY <2>4 DEF CloneOpnds
    <3>. QED  BY <1>1, <2>1, <2>2, <3>2, <3>3, MirrorsReplaced
  <2>5. x \in {tv, ev} \/ (x \in DOMAIN inst /\ (x # v \/ w = v))
    BY <1>1, <1>2
  <2>. QED  BY <2>1, <2>3, <2>4, <2>5
<1>6. MapsOK'
  <2>1. KeepsMeaning(VMap'["then"])
    <3>1. PICK new, old : new = VMap'["then"] /\ old = VMap["then"]
      OBVIOUS
    <3>2. MapFollows(new, old, v, w, <<v, "then">>)
      BY <1>1, <3>1 DEF CloneOpnds
    <3>. QED  BY <1>1, <1>3, <3>1, <3>2, MapsFollow
  <2>2. KeepsMeaning(VMap'["else"])
    <3>1. PICK new, old : new = VMap'["else"] /\ old = VMap["else"]
      OBVIOUS
    <3>2. MapFollows(new, old, v, w, <<v, "else">>)
      BY <1>1, <3>1 DEF CloneOpnds
    <3>. QED  BY <1>1, <1>3, <3>1, <3>2, MapsFollow
  <2>3. DOMAIN VMap' = DOMAIN VMap
        /\ \A x \in DOMAIN VMap'["tail"] :
             VMap'["tail"][x] = x \/ (x \in DOMAIN VMap["tail"] /\ VMap'["tail"][x] = VMap["tail"][x])
    BY DEF CloneOpnds
  <2>4. \A x \in DOMAIN VMap'["tail"] : VMap'["tail"][x] = x
    BY <1>3, <2>3
  <2>. QED  BY <1>4, <2>1, <2>2, <2>3, <2>4 DEF MapsOK
<1>. QED  BY <1>5, <1>6

\* What the blocks do after a round of the loop.
Done(v) == IF OwnKind(v) THEN 1 ELSE 0

LEMMA CloneDoing ==
  ASSUME IInv, NEW b, NEW v, NEW w, NEW th, NEW el, NEW tv, NEW ev, CloneOf(b, v, w, th, el, tv, ev)
  PROVE  /\ \A x \in DOMAIN code : x \notin {th, el, tail} => Doing(x)' = Doing(x)
         /\ \A x \in {tail} : Doing(x)' = Doing(x) \ {at}
         /\ at \in Doing(tail) <=> OwnKind(v)
         /\ \A n \in Doing(tail) : at <= n
         /\ \A x \in {th, el} :
              Doing(x)' = Doing(x) \cup (IF OwnKind(v) THEN {Len(code[x]) + 1} ELSE {})
         /\ \A x \in DOMAIN code : Len(code[x]) \in Nat /\ Doing(x) \subseteq 1..Len(code[x])
<1>1. /\ {th, el, tail} \subseteq DOMAIN code /\ th # el /\ th # tail /\ el # tail
      /\ at \in DOMAIN code[tail] /\ v = code[tail][at] /\ v \in DOMAIN inst /\ v \notin ToRemove
      /\ tv \notin DOMAIN inst /\ ev \notin DOMAIN inst /\ tail' = tail
      /\ inst[v].kind # "phi" /\ at \in Nat
  BY DEF CloneOf, CloneNames, UnderIIT
<1>2. Removing = ToRemove /\ Removing' = ToRemove'
  BY DEF CloneOf, Removing
<1>3. \/ w = v /\ ToRemove' = ToRemove \cup {v}
      \/ w # v /\ inst'[w].kind = "phi" /\ ToRemove' = ToRemove
  <2>1. \/ w = v /\ ToRemove' = ToRemove \cup {v}
        \/ w \notin DOMAIN inst /\ ToRemove' = ToRemove
    BY DEF CloneOf, CloneNames
  <2>. QED  BY <1>1, <2>1 DEF CloneOf, CloneInsts
<1>4. ToRemove \subseteq DOMAIN inst
  <2>1. \A u \in ToRemove : \E n \in DOMAIN code[tail] : n < at /\ code[tail][n] = u
    BY DEF CloneOf, IInv, CloneOK, TailOK
  <2>2. \A n \in DOMAIN code[tail] : code[tail][n] \in DOMAIN inst
    <3>1. code[tail] \in Seq(DOMAIN inst)
      BY <1>1 DEF IInv, PlacesOK
    <3>. QED  BY <3>1
  <2>. QED  BY <2>1, <2>2
<1>5. tv \notin ToRemove' /\ ev \notin ToRemove'
  BY <1>1, <1>3, <1>4
<1>6. inst'[tv].kind = inst[v].kind /\ inst'[ev].kind = inst[v].kind
  BY DEF CloneOf, CloneInsts
<1>7. \A x \in DOMAIN code : Len(code[x]) \in Nat /\ DOMAIN code[x] = 1..Len(code[x])
  BY DEF IInv, PlacesOK
<1>8. \A x \in DOMAIN code : \A n \in DOMAIN code'[x] : CloneAt(n, x, w, th, el, tv, ev)
  BY ClonePlaces DEF CloneMap
<1>9. \A x \in DOMAIN code : \A n \in DOMAIN code[x] : Stays(n, x)
  BY ClonePlaces DEF CloneMap
\* A place that is not under IIT.
<1>10. ASSUME NEW x \in DOMAIN code, NEW n \in DOMAIN code[x], ~(x = tail /\ n = at)
       PROVE  n \in Doing(x)' <=> n \in Doing(x)
  <2>1. n \in DOMAIN code'[x] /\ code'[x][n] = code[x][n]
    BY <1>9, <1>10 DEF Stays
  <2>2. code[x][n] # v /\ inst'[code[x][n]].kind = inst[code[x][n]].kind
    BY <1>10, OtherPlace DEF KeptInst
  <2>3. code[x][n] \in ToRemove' <=> code[x][n] \in ToRemove
    BY <1>3, <2>2
  <2>. QED  BY <1>2, <1>10, <2>1, <2>2, <2>3 DEF Doing
<1>11. ASSUME NEW x \in DOMAIN code, x \notin {th, el, tail} PROVE Doing(x)' = Doing(x)
  <2>1. code'[x] = code[x]
    BY <1>11 DEF CloneOf, CloneCode
  <2>2. \A n : n \in Doing(x)' => n \in DOMAIN code[x]
    BY <2>1 DEF Doing
  <2>3. \A n : n \in Doing(x) => n \in DOMAIN code[x]
    BY DEF Doing
  <2>. QED  BY <1>10, <1>11, <2>2, <2>3
<1>12. Doing(tail)' = Doing(tail) \ {at}
  <2>1. DOMAIN code'[tail] = DOMAIN code[tail] /\ code'[tail][at] = w
    BY DEF CloneOf, CloneCode
  <2>2. at \notin Doing(tail)'
    BY <1>1, <1>2, <1>3, <2>1 DEF Doing
  <2>3. \A n : n \in Doing(tail)' => n \in DOMAIN code[tail]
    BY <1>1, <2>1 DEF Doing
  <2>4. \A n : n \in Doing(tail) => n \in DOMAIN code[tail]
    BY DEF Doing
  <2>. QED  BY <1>1, <1>10, <2>2, <2>3, <2>4
<1>13. at \in Doing(tail) <=> OwnKind(v)
  BY <1>1, <1>2 DEF Doing, OwnKind
<1>14. ASSUME NEW n \in Doing(tail) PROVE at <= n
  <2>1. n \in DOMAIN code[tail] /\ inst[code[tail][n]].kind # "phi" /\ code[tail][n] \notin ToRemove
    BY <1>2 DEF Doing
  <2>2. ~(n < at)
    BY <2>1 DEF CloneOf, IInv, CloneOK, TailOK, Phis
  <2>3. n \in Nat
    BY <1>1, <1>7, <2>1
  <2>. QED  BY <1>1, <2>2, <2>3
<1>15. ASSUME NEW x \in {th, el}
       PROVE  Doing(x)' = Doing(x) \cup (IF OwnKind(v) THEN {Len(code[x]) + 1} ELSE {})
  <2>1. PICK e : e = Len(code[x]) + 1
    OBVIOUS
  <2>2. PICK u : u \in {tv, ev} /\ e \in DOMAIN code'[x] /\ code'[x][e] = u
    BY <2>1, ClonePlaces DEF CloneMap
  <2>3. e \in Doing(x)' <=> OwnKind(v)
    BY <1>2, <1>5, <1>6, <2>2 DEF Doing, OwnKind
  <2>4. e \notin DOMAIN code[x] /\ x \in DOMAIN code /\ x # tail
    BY <1>1, <1>7, <2>1
  <2>5. \A n \in DOMAIN code'[x] : n = e \/ n \in DOMAIN code[x]
    BY <1>1, <1>8, <2>1, <2>4 DEF CloneAt
  <2>6. \A n : n \in Doing(x)' => n = e \/ n \in DOMAIN code[x]
    BY <2>5 DEF Doing
  <2>7. \A n : n \in Doing(x) => n \in DOMAIN code[x]
    BY DEF Doing
  <2>8. \A n \in DOMAIN code[x] : n \in Doing(x)' <=> n \in Doing(x)
    BY <1>10, <2>4
  <2>9. \A n : n \in Doing(x)' <=> n \in Doing(x) \/ (OwnKind(v) /\ n = e)
    BY <2>3, <2>4, <2>6, <2>7, <2>8
  <2>. QED  BY <2>1, <2>9
<1>16. \A x \in DOMAIN code : Doing(x) \subseteq 1..Len(code[x])
  BY <1>7 DEF Doing
<1>17. \A x \in {tail} : Doing(x)' = Doing(x) \ {at}
  <2>. SUFFICES ASSUME NEW x \in {tail} PROVE Doing(x)' = Doing(x) \ {at}
    OBVIOUS
  <2>1. Doing(x)' = Doing(tail)' /\ Doing(x) = Doing(tail)
    BY <1>1 DEF Doing
  <2>. QED  BY <1>12, <2>1
<1>. QED  BY <1>7, <1>11, <1>13, <1>14, <1>15, <1>16, <1>17

\* The clones' stretches get longer by what the tail's gets shorter.
CloneStretch(th, el, d, lo, hi, lq, hq) ==
  /\ \A x \in DOMAIN code : lq[x] = IF x = tail THEN lo[x] + d ELSE lo[x]
  /\ \A x \in DOMAIN code : hq[x] = IF x \in {th, el} THEN hi[x] + d ELSE hi[x]

LEMMA CloneOperands ==
  ASSUME Opaque, IInv, NEW b, NEW v, NEW w, NEW th, NEW el, NEW tv, NEW ev,
         CloneOf(b, v, w, th, el, tv, ev), CloneOpnds(v, w, tv, ev),
         NEW x \in DOMAIN code, OriginBlock(x) \in Blocks,
         Mirrors(term[x].opnds, prog.term[OriginBlock(x)].opnds)
  PROVE  Mirrors(term'[x].opnds, prog.term[OriginBlock(x)].opnds)
<1>1. OldValue(v) /\ (w = v \/ w = <<v, "phi">>) /\ prog \in Programs
  BY DEF CloneOf, CloneNames, UnderIIT, IInv, Counters
<1>2. PICK q : q = prog.term[OriginBlock(x)].opnds
  OBVIOUS
<1>3. \A k \in DOMAIN q : Original(q[k])
  BY <1>1, <1>2, InputUses
<1>4. IsReplaced(term'[x].opnds, term[x].opnds, v, w)
  BY DEF CloneOpnds
<1>. QED  BY <1>1, <1>2, <1>3, <1>4, MirrorsReplaced

LEMMA CloneWork ==
  ASSUME Opaque, IInv, NEW b, NEW v, NEW w, NEW th, NEW el, NEW tv, NEW ev,
         CloneOf(b, v, w, th, el, tv, ev), CloneOpnds(v, w, tv, ev),
         NEW lo, NEW hi, NEW rk, NEW M, Work(lo, hi, rk, M),
         NEW lq, NEW hq, CloneStretch(th, el, Done(v), lo, hi, lq, hq)
  PROVE  Work(lq, hq, rk, M)'
<1>1. /\ {th, el, tail} \subseteq DOMAIN code /\ th # el /\ th # tail /\ el # tail
      /\ at \in DOMAIN code[tail] /\ v = code[tail][at] /\ OldValue(v)
      /\ tv = <<v, "then">> /\ ev = <<v, "else">>
      /\ DOMAIN code' = DOMAIN code /\ prog' = prog /\ prog \in Programs
      /\ tail = <<b, "tail", count>> /\ th = <<b, "then", count>> /\ el = <<b, "else", count>>
  BY DEF CloneOf, CloneNames, UnderIIT, CloneCode, IInv, Counters
<1>2. /\ term[th].tgts = <<tail>> /\ term[el].tgts = <<tail>>
      /\ \A x \in DOMAIN code \ {th, el} : \A k \in DOMAIN term[x].tgts : term[x].tgts[k] # tail
  BY <1>1 DEF CloneOf, CloneNames, UnderIIT, IInv, CloneOK, Diamond, Side
<1>3. \A x : OriginBlock(x)' = OriginBlock(x) /\ Text(x)' = Text(x)
  BY <1>1 DEF OriginBlock, Text
<1>4. \A x \in DOMAIN code : term'[x].tgts = term[x].tgts
  BY DEF CloneOf, CloneTerms
<1>5. /\ M \in Nat
      /\ \A x \in DOMAIN code : lo[x] \in Nat /\ hi[x] \in Nat /\ rk[x] \in 0..M
      /\ \A x \in DOMAIN code : Works(x, lo, hi, rk)
  BY DEF Work
<1>6. PICK d : d = Done(v)
  OBVIOUS
<1>7. d \in {0, 1} /\ (d = 1 <=> OwnKind(v))
  BY <1>6 DEF Done
<1>8. /\ lq[tail] = lo[tail] + d /\ hq[tail] = hi[tail]
      /\ \A x \in {th, el} : lq[x] = lo[x] /\ hq[x] = hi[x] + d
      /\ \A x \in DOMAIN code : x \notin {th, el, tail} => lq[x] = lo[x] /\ hq[x] = hi[x]
      /\ \A x \in DOMAIN code : x # tail => lq[x] = lo[x]
  BY <1>1, <1>6 DEF CloneStretch
<1>9. \A x \in DOMAIN code' : lq[x] \in Nat /\ hq[x] \in Nat /\ rk[x] \in 0..M
  <2>1. \A x \in DOMAIN code : lo[x] + d \in Nat /\ hi[x] + d \in Nat
    BY <1>5, <1>7
  <2>. QED  BY <1>1, <1>5, <1>8, <2>1
\* Both clones go on to the tail.
<1>10. tail \notin Blocks /\ th \notin Blocks /\ el \notin Blocks
  BY <1>1, NoTuple
<1>11. ASSUME NEW x \in {th, el}
       PROVE  /\ GoesOn(x, lo, hi, rk) /\ OriginBlock(tail) = OriginBlock(x)
              /\ lo[tail] = hi[x] /\ rk[tail] < rk[x]
  <2>1. Works(x, lo, hi, rk) /\ term[x].tgts = <<tail>>
    BY <1>1, <1>2, <1>5
  <2>2. 1 \in DOMAIN term[x].tgts /\ term[x].tgts[1] = tail
    BY <2>1
  <2>3. ~Leaves(x, hi)
    <3>. SUFFICES ASSUME Leaves(x, hi) PROVE FALSE
      OBVIOUS
    <3>1. OriginBlock(x) \in Blocks /\ term[x].tgts = prog.term[OriginBlock(x)].tgts
      BY <2>1 DEF Works, Leaves
    <3>2. \A k \in DOMAIN prog.term[OriginBlock(x)].tgts : prog.term[OriginBlock(x)].tgts[k] \in Blocks
      BY <1>1, <3>1, InputTerm
    <3>. QED  BY <1>10, <2>2, <3>1, <3>2
  <2>4. GoesOn(x, lo, hi, rk)
    BY <2>1, <2>3 DEF Works
  <2>. QED  BY <2>2, <2>4 DEF GoesOn
<1>12. PICK c : c = Text(tail)
  OBVIOUS
<1>13. OriginBlock(tail) \in Blocks /\ Works(tail, lo, hi, rk)
  BY <1>1, <1>5 DEF Works
<1>14. Apart(c) /\ DOMAIN c = 1..Len(c) /\ Len(c) \in Nat /\ \A n \in DOMAIN c : Original(c[n])
  BY <1>1, <1>12, <1>13, OneText DEF Text, Original
<1>0. PICK t : t = tail
  OBVIOUS
<1>15. PICK L, H : L = lo[tail] /\ H = hi[tail]
  OBVIOUS
<1>16. /\ L \in Nat /\ H \in Nat /\ 1 <= L /\ L <= H /\ H <= Len(c) + 1
       /\ Covers(code[tail], Doing(tail), c, L, H)
  BY <1>1, <1>5, <1>12, <1>13, <1>15 DEF Works
\* What is under IIT is the next one, if it counts.
<1>17. OwnKind(v) =>
         /\ L < H /\ StandsFor(v, c[L]) /\ Covers(code'[t], Doing(t)', c, L + 1, H)
  <2>. SUFFICES ASSUME OwnKind(v)
                PROVE  L < H /\ StandsFor(v, c[L]) /\ Covers(code'[t], Doing(t)', c, L + 1, H)
    OBVIOUS
  <2>1. Doing(t)' = Doing(tail) \ {at} /\ at \in Doing(tail) /\ \A n \in Doing(tail) : at <= n
    BY <1>0, CloneDoing
  <2>2. \A n \in DOMAIN code[tail] : n # at => code'[tail][n] = code[tail][n]
    BY DEF CloneOf, CloneCode
  <2>3. Doing(tail) \in SUBSET Nat
    <3>1. Doing(tail) \subseteq 1..Len(code[tail]) /\ Len(code[tail]) \in Nat
      BY <1>1, CloneDoing
    <3>. QED  BY <3>1
  <2>4. Doing(tail) \subseteq DOMAIN code[tail]
    BY DEF Doing
  <2>5. Shorter(code[tail], Doing(tail), code'[t], at)
    BY <1>0, <2>1, <2>2, <2>3, <2>4 DEF Shorter
  <2>6. L < H /\ StandsFor(code[tail][at], c[L]) /\ Covers(code'[t], Doing(tail) \ {at}, c, L + 1, H)
    BY <1>14, <1>16, <2>5, CoversLess
  <2>. QED  BY <1>0, <1>1, <2>1, <2>6
<1>18. ASSUME NEW x \in {th, el} PROVE Works(x, lq, hq, rk)'
  <2>1. /\ Works(x, lo, hi, rk) /\ OriginBlock(x) = OriginBlock(tail) /\ Text(x) = c /\ hi[x] = L
        /\ lo[x] \in Nat /\ x \in DOMAIN code /\ x \notin Blocks
    BY <1>1, <1>5, <1>10, <1>11, <1>12, <1>15 DEF Text
  <2>2. 1 <= lo[x] /\ lo[x] <= L /\ Covers(code[x], Doing(x), c, lo[x], L)
    BY <2>1 DEF Works
  <2>3. PICK u, s, e : u = <<v, s>> /\ e = Len(code[x]) + 1 /\ code'[x] = Append(code[x], u)
    BY <1>1 DEF CloneOf, CloneCode
  <2>4. /\ Doing(x)' = Doing(x) \cup (IF OwnKind(v) THEN {e} ELSE {})
        /\ Len(code[x]) \in Nat /\ Doing(x) \subseteq 1..Len(code[x])
    BY <2>1, <2>3, CloneDoing
  <2>5. code[x] \in Seq(DOMAIN inst)
    BY <2>1 DEF IInv, PlacesOK
  <2>6. (\A n \in 1..Len(code[x]) : code'[x][n] = code[x][n]) /\ code'[x][e] = u
    BY <2>3, <2>5
  <2>7. Longer(code[x], Doing(x), code'[x], e)
    BY <2>3, <2>4, <2>6 DEF Longer
  <2>8. Covers(code'[x], Doing(x)', c, lo[x], L + d)
    <3>1. CASE OwnKind(v)
      <4>1. L < H /\ StandsFor(v, c[L])
        BY <1>17, <3>1
      <4>2. L <= Len(c) /\ L \in DOMAIN c
        BY <1>14, <1>16, <4>1
      <4>3. StandsFor(code'[x][e], c[L])
        <5>1. Original(c[L])
          BY <1>14, <4>2
        <5>2. StandsFor(<<v, s>>, c[L])
          BY <1>1, <4>1, <5>1, CloneStands
        <5>. QED  BY <2>3, <2>6, <5>2
      <4>4. Covers(code'[x], Doing(x) \cup {e}, c, lo[x], L + 1)
        BY <1>14, <1>16, <2>1, <2>2, <2>7, <4>2, <4>3, CoversMore
      <4>. QED  BY <1>7, <2>4, <3>1, <4>4
    <3>2. CASE ~OwnKind(v)
      <4>1. Doing(x)' = Doing(x) /\ d = 0 /\ L + d = L
        BY <1>7, <1>16, <2>4, <3>2
      <4>2. \A n \in Doing(x) : n + 0 = n
        BY <2>4
      <4>3. Shifted(code[x], Doing(x), code'[x], Doing(x), 0)
        BY <2>4, <2>6, <4>2 DEF Shifted
      <4>. QED  BY <1>16, <2>1, <2>2, <4>1, <4>3, CoversMoved
    <3>. QED  BY <3>1, <3>2
  <2>9. lq[x] = lo[x] /\ hq[x] = L + d
    BY <1>8, <2>1
  <2>10. L <= L + d /\ L + d <= Len(c) + 1 /\ lo[x] <= L + d
    BY <1>7, <1>14, <1>16, <1>17, <2>1, <2>2
  <2>11. GoesOn(x, lq, hq, rk)'
    <3>1. term'[x].tgts = <<tail>>
      BY <1>1, <1>2, <1>4
    <3>2. DOMAIN term'[x].tgts # {} /\ \A k \in DOMAIN term'[x].tgts : term'[x].tgts[k] = tail
      BY <3>1
    <3>3. lq[tail] = hq[x] /\ rk[tail] < rk[x]
      BY <1>8, <1>11, <1>15, <2>9
    <3>. QED  BY <1>3, <1>10, <2>1, <3>2, <3>3 DEF GoesOn
  <2>. QED  BY <1>1, <1>3, <1>13, <2>1, <2>2, <2>8, <2>9, <2>10, <2>11 DEF Works
\* Where a block but the clones goes.
<1>19. ASSUME NEW x \in DOMAIN code, x \notin {th, el}
       PROVE  /\ Leaves(x, hi) => Leaves(x, hq)'
              /\ GoesOn(x, lo, hi, rk) => GoesOn(x, lq, hq, rk)'
  <2>1. hq[x] = hi[x] /\ term'[x].tgts = term[x].tgts /\ OriginBlock(x) \in Blocks
    BY <1>4, <1>5, <1>8, <1>19 DEF Works
  <2>2. Leaves(x, hi) => Leaves(x, hq)'
    BY <1>1, <1>3, <2>1, CloneOperands DEF Leaves
  <2>3. \A k \in DOMAIN term[x].tgts : term[x].tgts[k] \in DOMAIN code /\ term[x].tgts[k] # tail
    BY <1>2, <1>19 DEF IInv, TermsOK
  <2>4. \A k \in DOMAIN term[x].tgts : lq[term[x].tgts[k]] = lo[term[x].tgts[k]]
    BY <1>8, <2>3
  <2>5. GoesOn(x, lo, hi, rk) => GoesOn(x, lq, hq, rk)'
    BY <1>3, <2>1, <2>4 DEF GoesOn
  <2>. QED  BY <2>2, <2>5
<1>20. Works(t, lq, hq, rk)'
  <2>1. Covers(code'[t], Doing(t)', c, L + d, H) /\ L + d <= H
    <3>1. CASE OwnKind(v)
      BY <1>7, <1>16, <1>17, <3>1
    <3>2. CASE ~OwnKind(v)
      <4>1. Doing(t)' = Doing(tail) /\ at \notin Doing(tail)
        BY <1>0, <3>2, CloneDoing
      <4>2. \A n \in DOMAIN code[tail] : n # at => code'[t][n] = code[tail][n]
        BY <1>0 DEF CloneOf, CloneCode
      <4>3. Doing(tail) \subseteq DOMAIN code[tail]
        BY DEF Doing
      <4>4. Len(code[tail]) \in Nat /\ Doing(tail) \subseteq 1..Len(code[tail])
        BY <1>1, CloneDoing
      <4>5. Doing(tail) \in SUBSET Nat /\ \A n \in Doing(tail) : n + 0 = n
        BY <4>4
      <4>6. \A n \in Doing(tail) : code'[t][n] = code[tail][n]
        BY <4>1, <4>2, <4>3
      <4>7. Shifted(code[tail], Doing(tail), code'[t], Doing(tail), 0)
        BY <4>5, <4>6 DEF Shifted
      <4>8. d = 0 /\ L + d = L
        BY <1>7, <1>16, <3>2
      <4>. QED  BY <1>16, <4>1, <4>7, <4>8, CoversMoved
    <3>. QED  BY <3>1, <3>2
  <2>2. lq[tail] = L + d /\ hq[tail] = H /\ 1 <= L + d
    BY <1>7, <1>8, <1>15, <1>16
  <2>3. Leaves(t, hq)' \/ GoesOn(t, lq, hq, rk)'
    BY <1>0, <1>1, <1>13, <1>19 DEF Works
  <2>. QED  BY <1>0, <1>1, <1>3, <1>10, <1>12, <1>13, <1>16, <2>1, <2>2, <2>3 DEF Works
<1>21. ASSUME NEW x \in DOMAIN code, x \notin {th, el, tail} PROVE Works(x, lq, hq, rk)'
  <2>1. Works(x, lo, hi, rk) /\ lq[x] = lo[x] /\ hq[x] = hi[x]
    BY <1>5, <1>8, <1>21
  <2>2. code'[x] = code[x]
    BY <1>21 DEF CloneOf, CloneCode
  <2>4. Doing(x)' = Doing(x)
    BY <1>21, CloneDoing
  <2>3. Leaves(x, hq)' \/ GoesOn(x, lq, hq, rk)'
    BY <1>19, <1>21, <2>1 DEF Works
  <2>. QED  BY <1>1, <1>3, <2>1, <2>2, <2>3, <2>4 DEF Works
<1>22. \A x \in DOMAIN code' : Works(x, lq, hq, rk)'
  BY <1>0, <1>1, <1>18, <1>20, <1>21
<1>. QED  BY <1>5, <1>9, <1>22 DEF Work

LEMMA CloneWInv ==
  ASSUME Opaque, IInv, WInv, CloneVoid \/ CloneValue
  PROVE  WInv'
<1>1. PICK b, v, w, th, el, tv, ev : CloneOf(b, v, w, th, el, tv, ev) /\ CloneOpnds(v, w, tv, ev)
  BY CloneDoes DEF WInv, MapsOK
<1>2. PICK lo, hi, rk, M : Work(lo, hi, rk, M)
  BY DEF WInv
<1>3. PICK d : d = Done(v)
  OBVIOUS
<1>4. PICK lq : lq = [x \in DOMAIN code |-> IF x = tail THEN lo[x] + d ELSE lo[x]]
  OBVIOUS
<1>5. PICK hq : hq = [x \in DOMAIN code |-> IF x \in {th, el} THEN hi[x] + d ELSE hi[x]]
  OBVIOUS
<1>6. CloneStretch(th, el, d, lo, hi, lq, hq)
  BY <1>4, <1>5 DEF CloneStretch
<1>7. Work(lq, hq, rk, M)'
  BY <1>1, <1>2, <1>3, <1>6, CloneWork
<1>8. InstsMirror' /\ MapsOK'
  BY <1>1, CloneMirrors DEF WInv
<1>. QED  BY <1>7, <1>8 DEF WInv
-----------------------------------------------------------------------------
\* The end of cloneBB: the tail has had nothing left to do since IIT got to
\* its end.
LEMMA EndDoing ==
  ASSUME IInv, IInv', NEW t, EndOf(t)
  PROVE  /\ Doing(t) = {} /\ Doing(t)' = {}
         /\ \A x \in DOMAIN code : x # t => Doing(x)' = Doing(x)
<1>1. /\ pc = "clone" /\ pc' = "target" /\ t \in DOMAIN code /\ DOMAIN code' = DOMAIN code
      /\ \A x \in DOMAIN code : x # t => code'[x] = code[x]
      /\ IsPurged(code'[t], code[t])
      /\ \A n \in DOMAIN code[t] : code[t][n] \notin ToRemove => n \in Phis(code[t])
      /\ DOMAIN inst' = DOMAIN inst \ ToRemove
      /\ \A v \in DOMAIN inst' : inst'[v] = inst[v]
  BY DEF EndOf
<1>2. Removing = ToRemove /\ Removing' = {}
  BY <1>1 DEF Removing
<1>3. Doing(t) = {}
  BY <1>1, <1>2 DEF Doing, Phis
<1>4. \A x \in DOMAIN code : \A n \in DOMAIN code'[x] : code'[x][n] \in DOMAIN inst'
  <2>1. \A x \in DOMAIN code : code'[x] \in Seq(DOMAIN inst')
    BY <1>1 DEF IInv, PlacesOK
  <2>. QED  BY <2>1
<1>5. Doing(t)' = {}
  <2>. SUFFICES ASSUME NEW k \in DOMAIN code'[t] PROVE inst'[code'[t][k]].kind = "phi"
    BY DEF Doing
  <2>1. PICK n \in DOMAIN code[t] : code[t][n] \notin ToRemove /\ code'[t][k] = code[t][n]
    BY <1>1 DEF IsPurged
  <2>2. inst[code[t][n]].kind = "phi"
    BY <1>1, <2>1 DEF Phis
  <2>. QED  BY <1>1, <1>4, <2>1, <2>2
<1>6. ASSUME NEW x \in DOMAIN code, x # t PROVE Doing(x)' = Doing(x)
  <2>1. code'[x] = code[x]
    BY <1>1, <1>6
  <2>2. \A n \in DOMAIN code[x] : /\ inst'[code[x][n]].kind = inst[code[x][n]].kind
                                  /\ code[x][n] \notin ToRemove
    BY <1>1, <1>4, <2>1
  <2>. QED  BY <1>2, <2>1, <2>2 DEF Doing
<1>. QED  BY <1>3, <1>5, <1>6

LEMMA EndWInv ==
  ASSUME Opaque, IInv, IInv', WInv, EndClone
  PROVE  WInv'
<1>1. PICK t : EndOf(t)
  BY EndDoes
<1>2. /\ pc = "clone" /\ pc' = "target" /\ prog' = prog /\ VMap' = VMap
      /\ t \in DOMAIN code /\ DOMAIN code' = DOMAIN code
      /\ \A x \in DOMAIN code : x # t => code'[x] = code[x]
      /\ DOMAIN inst' = DOMAIN inst \ ToRemove
      /\ \A v \in DOMAIN inst' : inst'[v] = inst[v]
      /\ \A x \in DOMAIN code : term'[x].tgts = term[x].tgts
  BY <1>1 DEF EndOf, EndClone, cloning
<1>3. \A x \in DOMAIN code : /\ DOMAIN term'[x].opnds = DOMAIN term[x].opnds
                             /\ \A k \in DOMAIN term[x].opnds : term'[x].opnds[k] = term[x].opnds[k]
  <2>1. \A v \in DOMAIN VMap["tail"] : VMap["tail"][v] = v
    BY <1>2 DEF WInv, MapsOK
  <2>. QED  BY <2>1, EndTerms
<1>4. PICK lo, hi, rk, M : Work(lo, hi, rk, M)
  BY DEF WInv
<1>5. \A x : OriginBlock(x)' = OriginBlock(x) /\ Text(x)' = Text(x)
  BY <1>2 DEF OriginBlock, Text
<1>6. ASSUME NEW x \in DOMAIN code PROVE Works(x, lo, hi, rk)'
  <2>1. Works(x, lo, hi, rk) /\ lo[x] \in Nat /\ hi[x] \in Nat
    BY <1>4 DEF Work
  <2>2. Covers(code'[x], Doing(x)', Text(x), lo[x], hi[x])
    <3>1. CASE x = t
      <4>1. Doing(x) = {} /\ Doing(x)' = {}
        BY <1>1, <3>1, EndDoing
      <4>2. Shifted(code[x], Doing(x), code'[x], Doing(x)', 0)
        BY <4>1 DEF Shifted
      <4>. QED  BY <2>1, <4>2, CoversMoved DEF Works
    <3>2. CASE x # t
      <4>1. Doing(x)' = Doing(x) /\ code'[x] = code[x]
        BY <1>1, <1>2, <3>2, EndDoing
      <4>. QED  BY <2>1, <4>1 DEF Works
    <3>. QED  BY <3>1, <3>2
  <2>3. Leaves(x, hi) => Leaves(x, hi)'
    BY <1>2, <1>3, <1>5 DEF Leaves, Mirrors
  <2>4. GoesOn(x, lo, hi, rk) => GoesOn(x, lo, hi, rk)'
    BY <1>2, <1>5 DEF GoesOn
  <2>. QED  BY <1>2, <1>5, <2>1, <2>2, <2>3, <2>4 DEF Works
<1>7. Work(lo, hi, rk, M)'
  BY <1>2, <1>4, <1>6 DEF Work
<1>8. InstsMirror'
  BY <1>2 DEF WInv, InstsMirror, OwnKind
<1>9. MapsOK'
  BY <1>2 DEF WInv, MapsOK
<1>. QED  BY <1>7, <1>8, <1>9 DEF WInv

LEMMA WInvStep ==
  ASSUME Opaque, IInv, WInv, [Next]_vars
  PROVE  WInv'
<1>1. IInv'
  BY IInvStep
<1>2. CASE Next
  <2>1. CASE SkipBlock \/ TakeBlock \/ EndFind \/ Leave
    <3>1. /\ UNCHANGED <<prog, code, inst, term, VMap>> /\ pc # "clone" /\ pc' # "clone"
      BY <2>1 DEF SkipBlock, TakeBlock, EndFind, Leave, function, cloning
    <3>. QED  BY <3>1, SameWInv
  <2>2. CASE Split \/ CloneVoid \/ CloneValue \/ EndClone
    BY <1>1, <2>2, SplitWInv, CloneWInv, EndWInv
  <2>. QED  BY <1>2, <2>1, <2>2 DEF Next
<1>3. CASE UNCHANGED vars
  <2>1. UNCHANGED <<prog, code, inst, term, VMap, pc, ToRemove>>
    BY <1>3 DEF vars, function, cloning
  <2>. QED  BY <2>1, SameWInv
<1>. QED  BY <1>2, <1>3

LEMMA WInvHolds == Opaque => (Spec => [](IInv /\ WInv))
<1>. SUFFICES ASSUME Opaque PROVE Spec => [](IInv /\ WInv)
  OBVIOUS
<1>1. Init => IInv /\ WInv
  BY InitIInv, InitWInv
<1>2. (IInv /\ WInv) /\ [Next]_vars => (IInv /\ WInv)'
  BY IInvStep, WInvStep
<1>. QED  BY <1>1, <1>2, PTL DEF Spec
-----------------------------------------------------------------------------
(***************************************************************************)
(* What a path through what replaces a block does.  Trails is a function   *)
(* that satisfies its recursive definition, as some function does: rk goes *)
(* down along the edges (TrailsFix).  The instructions on a trail are then *)
(* those of the block's text from lo on (TrailsGood).                      *)
(***************************************************************************)
LEMMA AscendingInterval ==
  ASSUME NEW L \in Nat, NEW H \in Nat, 1 <= L, L <= H
  PROVE  /\ DOMAIN Ascending(L..(H - 1)) = 1..(H - L)
         /\ \A i \in 1..(H - L) : Ascending(L..(H - 1))[i] = L + i - 1
<1>1. PICK N, T : N = H - 1 /\ T = L..N
  OBVIOUS
<1>2. N \in Nat /\ T \in SUBSET (1..N)
  BY <1>1
<1>3. Cardinality(T) = H - L
  <2>1. L \in Int /\ N \in Int
    BY <1>1
  <2>2. Cardinality(L..N) = IF L > N THEN 0 ELSE N - L + 1
    BY <2>1, FS_Interval
  <2>. QED  BY <1>1, <2>2
<1>4. ASSUME NEW i \in 1..(H - L) PROVE Ascending(T)[i] = L + i - 1
  <2>1. PICK n : n = L + i - 1
    OBVIOUS
  <2>2. n \in T /\ n \in Nat /\ {m \in T : m <= n} = L..n
    BY <1>1, <2>1
  <2>3. Cardinality(L..n) = i
    BY <2>1, <2>2, FS_Interval
  <2>4. Ascending(T)[Cardinality({m \in T : m <= n})] = n
    BY <1>2, <2>2, AscendingRank
  <2>. QED  BY <2>1, <2>2, <2>3, <2>4
<1>5. DOMAIN Ascending(T) = 1..(H - L)
  BY <1>3 DEF Ascending
<1>. QED  BY <1>1, <1>4, <1>5

LEMMA CoversListed ==
  ASSUME NEW N \in Nat, NEW S \in SUBSET (1..N), NEW s, NEW c, NEW L \in Nat, NEW H \in Nat,
         Covers(s, S, c, L, H),
         Apart(c), DOMAIN c = 1..Len(c), Len(c) \in Nat, 1 <= L, L <= H, H <= Len(c) + 1
  PROVE  /\ DOMAIN Listed(s, S) = 1..(H - L)
         /\ \A i \in 1..(H - L) : \E n \in S :
              Listed(s, S)[i] = s[n] /\ StandsFor(s[n], c[L + i - 1])
<1> DEFINE T == L..(H - 1)
           f == [n \in S |-> CHOOSE j \in T : StandsFor(s[n], c[j])]
           g == [j \in T |-> j]
<1>1. T \subseteq 1..Len(c) /\ T \subseteq DOMAIN c
  OBVIOUS
<1>2. \A n \in S : f[n] \in T /\ StandsFor(s[n], c[f[n]])
  BY DEF Covers
<1>3. \A j \in T : g[j] = j
  OBVIOUS
<1>4. \A m, n \in S : m < n => f[m] < f[n]
  BY <1>2 DEF Covers
<1> HIDE DEF f, g, T
<1>5. \A m, n \in S : f[m] = f[n] => m = n
  <2>. SUFFICES ASSUME NEW m \in S, NEW n \in S, f[m] = f[n] PROVE m = n
    OBVIOUS
  <2>1. m \in Nat /\ n \in Nat /\ f[m] \in Nat /\ f[n] \in Nat
    BY <1>1, <1>2
  <2>. QED  BY <1>4, <2>1
<1>6. \A j \in T : \E n \in S : f[n] = j
  <2>. SUFFICES ASSUME NEW j \in T PROVE \E n \in S : f[n] = j
    OBVIOUS
  <2>1. PICK n \in S : StandsFor(s[n], c[j])
    BY DEF Covers, T
  <2>2. f[n] \in DOMAIN c /\ j \in DOMAIN c /\ StandsFor(s[n], c[f[n]])
    BY <1>1, <1>2
  <2>. QED  BY <2>1, <2>2 DEF Apart
<1>7. SameElements(f, S, g, T)
  <2>1. \E A, B \in Nat : S \subseteq 1..A /\ T \subseteq 1..B
    BY <1>1
  <2>2. \A m, n \in S : \A k, l \in T : f[m] = g[k] /\ f[n] = g[l] /\ m < n => k < l
    BY <1>3, <1>4
  <2>. QED  BY <1>2, <1>3, <1>5, <1>6, <2>1, <2>2 DEF SameElements
<1>8. Listed(f, S) = Listed(g, T)
  BY <1>7, SameSelection
<1>9. DOMAIN Ascending(T) = 1..(H - L) /\ \A i \in 1..(H - L) : Ascending(T)[i] = L + i - 1
  BY AscendingInterval DEF T
<1>10. /\ DOMAIN Ascending(S) = 1..Len(Ascending(S))
       /\ \A k \in DOMAIN Ascending(S) : Ascending(S)[k] \in S
  BY AscendingLists
<1>11. \A q, Q : DOMAIN Listed(q, Q) = DOMAIN Ascending(Q)
                 /\ \A k \in DOMAIN Ascending(Q) : Listed(q, Q)[k] = q[Ascending(Q)[k]]
  BY DEF Listed
<1>12. DOMAIN Ascending(S) = 1..(H - L)
  BY <1>8, <1>9, <1>11
<1>13. ASSUME NEW i \in 1..(H - L)
       PROVE  \E n \in S : Listed(s, S)[i] = s[n] /\ StandsFor(s[n], c[L + i - 1])
  <2>1. PICK n \in S : n = Ascending(S)[i]
    BY <1>10, <1>12
  <2>2. Listed(s, S)[i] = s[n] /\ Listed(f, S)[i] = f[n]
    BY <1>11, <1>12, <2>1
  <2>3. Listed(g, T)[i] = L + i - 1
    <3>1. Ascending(T)[i] = L + i - 1 /\ L + i - 1 \in T
      BY <1>9 DEF T
    <3>. QED  BY <1>3, <1>9, <1>11, <3>1
  <2>. QED  BY <1>2, <1>8, <2>2, <2>3
<1>. QED  BY <1>11, <1>12, <1>13

TrailList(x) == Listed(code[x], {n \in DOMAIN code[x] : inst[code[x][n]].kind \notin {"phi", "cond"}})

TrailStep(x, f) ==
  IF Range(term[x].tgts) \subseteq Blocks THEN {<<TrailList(x), x>>}
  ELSE UNION {{<<TrailList(x) \o t[1], t[2]>> : t \in f[y]} : y \in Range(term[x].tgts)}

\* Which of the two a block does is seen from its targets.
LEMMA WorkEdges ==
  ASSUME IInv, NEW lo, NEW hi, NEW rk, NEW M, Work(lo, hi, rk, M), NEW x \in DOMAIN code
  PROVE  IF Range(term[x].tgts) \subseteq Blocks THEN Leaves(x, hi)
         ELSE \A y \in Range(term[x].tgts) :
                y \in DOMAIN code /\ OriginBlock(y) = OriginBlock(x) /\ lo[y] = hi[x] /\ rk[y] < rk[x]
<1>1. Leaves(x, hi) \/ GoesOn(x, lo, hi, rk)
  BY DEF Work, Works
<1>2. CASE Leaves(x, hi)
  <2>1. prog \in Programs /\ OriginBlock(x) \in Blocks
    BY DEF IInv, Counters, Work, Works
  <2>2. \A k \in DOMAIN term[x].tgts : term[x].tgts[k] \in Blocks
    BY <1>2, <2>1, InputTerm DEF Leaves
  <2>. QED  BY <1>2, <2>2 DEF Range
<1>3. CASE GoesOn(x, lo, hi, rk)
  <2>1. \A k \in DOMAIN term[x].tgts : term[x].tgts[k] \in DOMAIN code
    BY DEF IInv, TermsOK
  <2>. QED  BY <1>3, <2>1 DEF GoesOn, Range
<1>. QED  BY <1>1, <1>2, <1>3

\* The step looks at f where rk is lower only.
LEMMA TrailStepLocal ==
  ASSUME IInv, NEW lo, NEW hi, NEW rk, NEW M, Work(lo, hi, rk, M), NEW x \in DOMAIN code,
         NEW f, NEW g, \A y \in DOMAIN code : rk[y] < rk[x] => f[y] = g[y]
  PROVE  TrailStep(x, f) = TrailStep(x, g)
<1>1. CASE Range(term[x].tgts) \subseteq Blocks
  BY <1>1 DEF TrailStep
<1>2. CASE ~(Range(term[x].tgts) \subseteq Blocks)
  <2>1. \A y \in Range(term[x].tgts) : f[y] = g[y]
    BY <1>2, WorkEdges
  <2> DEFINE E(h, y) == {<<TrailList(x) \o t[1], t[2]>> : t \in h[y]}
  <2>2. \A y \in Range(term[x].tgts) : E(f, y) = E(g, y)
    BY <2>1
  <2>3. /\ TrailStep(x, f) = UNION {E(f, y) : y \in Range(term[x].tgts)}
        /\ TrailStep(x, g) = UNION {E(g, y) : y \in Range(term[x].tgts)}
    BY <1>2, Zenon DEF TrailStep
  <2> HIDE DEF E
  <2>. QED  BY <2>2, <2>3
<1>. QED  BY <1>1, <1>2

LEMMA TrailsFix ==
  ASSUME IInv, NEW lo, NEW hi, NEW rk, NEW M, Work(lo, hi, rk, M)
  PROVE  \A x \in DOMAIN code : Trails[x] = TrailStep(x, Trails)
<1> DEFINE F(f) == [x \in DOMAIN code |-> TrailStep(x, f)]
           g == CHOOSE h : h = F(h)
           P(k) == \E f : \A x \in DOMAIN code : rk[x] < k => f[x] = TrailStep(x, f)
           Bad == {k \in 1..(M + 1) : ~P(k)}
<1>1. Trails = g
  BY Zenon DEF Trails, TrailStep, TrailList
<1>2. M \in Nat /\ \A x \in DOMAIN code : rk[x] \in 0..M
  BY DEF Work
<1>3. ASSUME NEW k \in Nat, P(k) PROVE P(k + 1)
  <2>1. PICK f : \A x \in DOMAIN code : rk[x] < k => f[x] = TrailStep(x, f)
    BY <1>3
  <2>2. PICK h : h = F(f)
    OBVIOUS
  <2>3. \A x \in DOMAIN code : h[x] = TrailStep(x, f)
    BY <2>2
  <2>4. ASSUME NEW x \in DOMAIN code, rk[x] < k + 1 PROVE h[x] = TrailStep(x, h)
    <3>1. \A y \in DOMAIN code : rk[y] < rk[x] => f[y] = h[y]
      BY <1>2, <2>1, <2>3, <2>4
    <3>2. TrailStep(x, f) = TrailStep(x, h)
      BY <3>1, TrailStepLocal
    <3>. QED  BY <2>3, <3>2
  <2>. QED  BY <2>4
<1>4. P(0)
  BY <1>2
<1> HIDE DEF P
<1>5. P(M + 1)
  <2>. SUFFICES ASSUME Bad # {} PROVE FALSE
    BY <1>2
  <2>1. Bad \in SUBSET (1..(M + 1)) /\ M + 1 \in Nat
    BY <1>2
  <2>2. PICK k \in Bad : \A j \in Bad : k <= j
    BY <2>1, LeastNumber
  <2>3. k \in 1..(M + 1) /\ ~P(k)
    OBVIOUS
  <2>4. PICK j : j = k - 1
    OBVIOUS
  <2>5. j \in Nat /\ k = j + 1 /\ (j = 0 \/ j \in 1..(M + 1)) /\ ~(k <= j)
    BY <1>2, <2>3, <2>4
  <2>6. P(j)
    BY <1>4, <2>2, <2>5
  <2>. QED  BY <1>3, <2>3, <2>5, <2>6
<1>6. \E f : f = F(f)
  <2>1. PICK f : \A x \in DOMAIN code : rk[x] < M + 1 => f[x] = TrailStep(x, f)
    BY <1>5 DEF P
  <2>2. PICK h : h = F(f)
    OBVIOUS
  <2>3. \A x \in DOMAIN code : f[x] = TrailStep(x, f) /\ h[x] = TrailStep(x, f)
    BY <1>2, <2>1, <2>2
  <2>4. \A x \in DOMAIN code : TrailStep(x, f) = TrailStep(x, h)
    <3>1. \A x \in DOMAIN code : f[x] = h[x]
      BY <2>3
    <3>. QED  BY <3>1, TrailStepLocal
  <2>5. h = F(h)
    BY <2>2, <2>4
  <2>. QED  BY <2>5
<1>7. g = F(g)
  BY <1>6
<1> HIDE DEF g
<1>. QED  BY <1>1, <1>7

LEMMA TrailListIs ==
  ASSUME Opaque, IInv, pc # "clone", NEW lo, NEW hi, NEW rk, NEW M, Work(lo, hi, rk, M), NEW x \in DOMAIN code
  PROVE  /\ TrailList(x) \in Seq(DOMAIN inst) /\ Len(TrailList(x)) = hi[x] - lo[x]
         /\ \A i \in 1..(hi[x] - lo[x]) :
              OwnKind(TrailList(x)[i]) /\ StandsFor(TrailList(x)[i], Text(x)[lo[x] + i - 1])
<1>1. PICK s, N, L, H : s = code[x] /\ N = Len(s) /\ L = lo[x] /\ H = hi[x]
  OBVIOUS
<1>2. s \in Seq(DOMAIN inst)
  BY <1>1 DEF IInv, PlacesOK
<1>3. PICK S : S = Doing(x)
  OBVIOUS
<1>4. S = {n \in DOMAIN s : inst[s[n]].kind \notin {"phi", "cond"}} /\ TrailList(x) = Listed(s, S)
  BY <1>1, <1>3 DEF Doing, Removing, TrailList
<1>5. N \in Nat /\ S \in SUBSET (1..N) /\ \A n \in S : s[n] \in DOMAIN inst /\ OwnKind(s[n])
  BY <1>1, <1>2, <1>4 DEF OwnKind
<1>6. PICK c : c = Text(x)
  OBVIOUS
<1>7. Apart(c) /\ DOMAIN c = 1..Len(c) /\ Len(c) \in Nat
  BY <1>6, OneText DEF IInv, Counters, Work, Works, Text
<1>8. L \in Nat /\ H \in Nat /\ 1 <= L /\ L <= H /\ H <= Len(c) + 1 /\ Covers(s, S, c, L, H)
  BY <1>1, <1>3, <1>6 DEF Work, Works
<1>9. /\ DOMAIN Listed(s, S) = 1..(H - L)
      /\ \A i \in 1..(H - L) : \E n \in S : Listed(s, S)[i] = s[n] /\ StandsFor(s[n], c[L + i - 1])
  BY <1>5, <1>7, <1>8, CoversListed
<1>10. PICK l : l = Listed(s, S)
  OBVIOUS
<1>11. l = [i \in DOMAIN Ascending(S) |-> s[Ascending(S)[i]]]
  BY <1>10 DEF Listed
<1>12. l \in [1..(H - L) -> DOMAIN inst]
  BY <1>5, <1>9, <1>10, <1>11
<1>13. l \in Seq(DOMAIN inst) /\ Len(l) = H - L
  <2>1. H - L \in Nat
    BY <1>8
  <2>. QED  BY <1>12, <2>1, IsASeq
<1>14. \A i \in 1..(H - L) : OwnKind(l[i]) /\ StandsFor(l[i], c[L + i - 1])
  BY <1>5, <1>9, <1>10
<1>15. l = TrailList(x)
  BY <1>4, <1>10
<1>. QED  BY <1>1, <1>6, <1>13, <1>14, <1>15

\* The trail t from x runs through the text of x from lo on, and ends where
\* control leaves.
TrailOK(x, t, lo, hi) ==
  /\ t[1] \in Seq(DOMAIN inst) /\ Len(t[1]) = Len(Text(x)) + 1 - lo[x]
  /\ \A n \in 1..Len(t[1]) : OwnKind(t[1][n]) /\ StandsFor(t[1][n], Text(x)[lo[x] + n - 1])
  /\ t[2] \in DOMAIN code /\ OriginBlock(t[2]) = OriginBlock(x) /\ Leaves(t[2], hi)

LEMMA TrailLonger ==
  ASSUME Opaque, IInv, pc # "clone", NEW lo, NEW hi, NEW rk, NEW M, Work(lo, hi, rk, M), NEW x \in DOMAIN code,
         NEW y \in DOMAIN code, OriginBlock(y) = OriginBlock(x), lo[y] = hi[x],
         NEW t, TrailOK(y, t, lo, hi)
  PROVE  TrailOK(x, <<TrailList(x) \o t[1], t[2]>>, lo, hi)
<1>1. PICK l, r, u, L, H, c : /\ l = TrailList(x) /\ r = t[1] /\ u = l \o r
                              /\ L = lo[x] /\ H = hi[x] /\ c = Text(x)
  OBVIOUS
<1>2. L \in Nat /\ H \in Nat /\ L <= H /\ Len(c) \in Nat /\ Text(y) = c
  <2>1. Len(c) \in Nat
    BY <1>1, OneText DEF IInv, Counters, Work, Works, Text
  <2>. QED  BY <1>1, <2>1 DEF Work, Works, Text
<1>3. /\ l \in Seq(DOMAIN inst) /\ Len(l) = H - L
      /\ \A i \in 1..(H - L) : OwnKind(l[i]) /\ StandsFor(l[i], c[L + i - 1])
  BY <1>1, TrailListIs
<1>4. /\ r \in Seq(DOMAIN inst) /\ Len(r) = Len(c) + 1 - H
      /\ \A n \in 1..Len(r) : OwnKind(r[n]) /\ StandsFor(r[n], c[H + n - 1])
  BY <1>1, <1>2 DEF TrailOK
<1>5. /\ u \in Seq(DOMAIN inst) /\ Len(u) = Len(l) + Len(r)
      /\ \A i \in 1..Len(u) : u[i] = IF i <= Len(l) THEN l[i] ELSE r[i - Len(l)]
  BY <1>1, <1>3, <1>4
<1>6. Len(u) = Len(c) + 1 - L
  BY <1>2, <1>3, <1>4, <1>5
<1>7. ASSUME NEW n \in 1..Len(u) PROVE OwnKind(u[n]) /\ StandsFor(u[n], c[L + n - 1])
  <2>1. CASE n <= Len(l)
    BY <1>2, <1>3, <1>5, <1>7, <2>1
  <2>2. CASE ~(n <= Len(l))
    <3>1. PICK m : m = n - Len(l)
      OBVIOUS
    <3>2. m \in 1..Len(r) /\ u[n] = r[m] /\ H + m - 1 = L + n - 1
      BY <1>2, <1>3, <1>4, <1>5, <1>7, <2>2, <3>1
    <3>. QED  BY <1>4, <3>2
  <2>. QED  BY <2>1, <2>2
<1>8. t[2] \in DOMAIN code /\ OriginBlock(t[2]) = OriginBlock(x) /\ Leaves(t[2], hi)
  BY DEF TrailOK
<1>9. PICK w : w = <<u, t[2]>>
  OBVIOUS
<1>10. w[1] = u /\ w[2] = t[2]
  BY <1>9
<1>11. TrailOK(x, w, lo, hi)
  BY <1>1, <1>5, <1>6, <1>7, <1>8, <1>10 DEF TrailOK
<1>. QED  BY <1>1, <1>9, <1>11

LEMMA TrailsGood ==
  ASSUME Opaque, IInv, pc # "clone", NEW lo, NEW hi, NEW rk, NEW M, Work(lo, hi, rk, M)
  PROVE  \A x \in DOMAIN code : \A t \in Trails[x] : TrailOK(x, t, lo, hi)
<1> DEFINE Good(x) == \A t \in Trails[x] : TrailOK(x, t, lo, hi)
           Bad == {x \in DOMAIN code : ~Good(x)}
           R == {rk[x] + 1 : x \in Bad}
<1>1. M \in Nat /\ \A x \in DOMAIN code : rk[x] \in 0..M
  BY DEF Work
<1>2. ASSUME NEW x \in DOMAIN code, \A y \in DOMAIN code : rk[y] < rk[x] => Good(y)
      PROVE  Good(x)
  <2>. SUFFICES ASSUME NEW t \in TrailStep(x, Trails) PROVE TrailOK(x, t, lo, hi)
    BY TrailsFix
  <2>1. CASE Range(term[x].tgts) \subseteq Blocks
    <3>1. t[1] = TrailList(x) /\ t[2] = x
      BY <2>1 DEF TrailStep
    <3>2. Leaves(x, hi) /\ hi[x] = Len(Text(x)) + 1
      BY <2>1, WorkEdges DEF Leaves
    <3>3. /\ TrailList(x) \in Seq(DOMAIN inst) /\ Len(TrailList(x)) = hi[x] - lo[x]
          /\ \A i \in 1..(hi[x] - lo[x]) :
               OwnKind(TrailList(x)[i]) /\ StandsFor(TrailList(x)[i], Text(x)[lo[x] + i - 1])
      BY TrailListIs
    <3>4. Len(Text(x)) + 1 - lo[x] = hi[x] - lo[x]
      <4>1. PICK L, H, C : L = lo[x] /\ H = hi[x] /\ C = Len(Text(x))
        OBVIOUS
      <4>2. L \in Nat /\ H \in Nat /\ C \in Nat
        BY <4>1, OneText DEF IInv, Counters, Work, Works, Text
      <4>3. C + 1 - L = H - L
        BY <3>2, <4>1, <4>2
      <4>. QED  BY <4>1, <4>3
    <3>. QED  BY <3>1, <3>2, <3>3, <3>4 DEF TrailOK
  <2>2. CASE ~(Range(term[x].tgts) \subseteq Blocks)
    <3>1. PICK y \in Range(term[x].tgts) : \E u \in Trails[y] : t = <<TrailList(x) \o u[1], u[2]>>
      BY <2>2 DEF TrailStep
    <3>2. PICK u \in Trails[y] : t = <<TrailList(x) \o u[1], u[2]>>
      BY <3>1
    <3>3. y \in DOMAIN code /\ OriginBlock(y) = OriginBlock(x) /\ lo[y] = hi[x] /\ rk[y] < rk[x]
      BY <2>2, WorkEdges
    <3>4. TrailOK(y, u, lo, hi)
      BY <1>2, <3>3
    <3>. QED  BY <3>2, <3>3, <3>4, TrailLonger
  <2>. QED  BY <2>1, <2>2
<1> HIDE DEF Good
<1>. SUFFICES ASSUME Bad # {} PROVE FALSE
  BY DEF Good
<1>3. R \in SUBSET (1..(M + 1)) /\ R # {} /\ M + 1 \in Nat
  BY <1>1
<1>4. PICK m \in R : \A j \in R : m <= j
  BY <1>3, LeastNumber
<1>5. PICK x \in Bad : m = rk[x] + 1
  OBVIOUS
<1>6. ASSUME NEW y \in DOMAIN code, rk[y] < rk[x] PROVE Good(y)
  <2>. SUFFICES ASSUME ~Good(y) PROVE FALSE
    OBVIOUS
  <2>1. rk[y] + 1 \in R
    OBVIOUS
  <2>2. m <= rk[y] + 1
    BY <1>4, <2>1
  <2>. QED  BY <1>1, <1>5, <1>6, <2>2
<1>. QED  BY <1>2, <1>5, <1>6

\* What mirrors operands of the function is made from them.
LEMMA MirrorsSame ==
  ASSUME Opaque, prog \in Programs, NEW opnds, NEW S, NEW q \in Seq(S),
         \A k \in DOMAIN q : Original(q[k]), Mirrors(opnds, q)
  PROVE  Same(opnds, q)
<1>1. \A k \in DOMAIN q : Origin(opnds[k]) = q[k]
  BY OriginOf DEF Mirrors
<1>2. [k \in DOMAIN opnds |-> Origin(opnds[k])] = q
  BY <1>1 DEF Mirrors
<1>. QED  BY <1>2 DEF Same

LEMMA WorkSame ==
  ASSUME Opaque, IInv, WInv, AtRest
  PROVE  SameWork
<1>1. prog \in Programs /\ pc # "clone"
  BY DEF IInv, Counters, AtRest
<1>2. PICK lo, hi, rk, M : Work(lo, hi, rk, M)
  BY DEF WInv
<1>. SUFFICES ASSUME NEW b \in Blocks, NEW t \in Trails[b]
              PROVE  LET c == prog.code[b]
                         first == Len(c) - Len(t[1])
                     IN  /\ first >= 0
                         /\ \A n \in DOMAIN c : n <= first <=> prog.inst[c[n]].kind = "phi"
                         /\ \A n \in DOMAIN t[1] :
                              /\ Origin(t[1][n]) = c[first + n]
                              /\ Same(inst[t[1][n]].opnds, prog.inst[c[first + n]].opnds)
                         /\ term[t[2]].tgts = prog.term[b].tgts
                         /\ Same(term[t[2]].opnds, prog.term[b].opnds)
  BY DEF SameWork
<1>3. PICK c, r, L, H : c = prog.code[b] /\ r = t[1] /\ L = lo[b] /\ H = hi[b]
  OBVIOUS
<1>4. b \in DOMAIN code /\ OriginBlock(b) = b /\ Text(b) = c
  BY <1>3 DEF IInv, LayoutOK, OriginBlock, Text
<1>5. TrailOK(b, t, lo, hi)
  BY <1>1, <1>2, <1>4, TrailsGood
<1>6. Works(b, lo, hi, rk) /\ L \in Nat /\ H \in Nat
  BY <1>2, <1>3, <1>4 DEF Work
<1>7. /\ 1 <= L /\ L <= H /\ H <= Len(c) + 1
      /\ \A n \in DOMAIN c : n < L <=> prog.inst[c[n]].kind = "phi"
  BY <1>3, <1>4, <1>6 DEF Works
<1>8. /\ DOMAIN c = 1..Len(c) /\ Len(c) \in Nat
      /\ \A n \in DOMAIN c : c[n] \in DOMAIN prog.inst
  BY <1>1, <1>3, OneText
<1>9. /\ r \in Seq(DOMAIN inst) /\ Len(r) = Len(c) + 1 - L
      /\ \A n \in 1..Len(r) : OwnKind(r[n]) /\ StandsFor(r[n], c[L + n - 1])
      /\ OriginBlock(t[2]) = b /\ Leaves(t[2], hi)
  BY <1>3, <1>4, <1>5 DEF TrailOK
<1>10. PICK first : first = Len(c) - Len(r)
  OBVIOUS
<1>11. first \in Nat /\ L = first + 1 /\ Len(r) = Len(c) - first
  BY <1>6, <1>7, <1>8, <1>9, <1>10
<1>12. \A n \in DOMAIN c : n <= first <=> prog.inst[c[n]].kind = "phi"
  BY <1>7, <1>8, <1>11
<1>13. ASSUME NEW n \in DOMAIN r
       PROVE  /\ Origin(r[n]) = c[first + n]
              /\ Same(inst[r[n]].opnds, prog.inst[c[first + n]].opnds)
  <2>1. PICK o : o = c[first + n]
    OBVIOUS
  <2>2. n \in 1..Len(r) /\ first + n \in DOMAIN c /\ L + n - 1 = first + n
    BY <1>8, <1>9, <1>11, <1>13
  <2>3. r[n] \in DOMAIN inst /\ OwnKind(r[n]) /\ StandsFor(r[n], o)
    BY <1>9, <2>1, <2>2
  <2>4. o \in DOMAIN prog.inst /\ Original(o)
    BY <1>8, <2>1, <2>2 DEF Original
  <2>5. Origin(r[n]) = o
    BY <1>1, <2>3, <2>4, OriginOf
  <2>6. PICK q : q = prog.inst[o].opnds
    OBVIOUS
  <2>7. Mirrors(inst[r[n]].opnds, q)
    BY <2>3, <2>4, <2>6 DEF WInv, InstsMirror
  <2>8. q \in Seq(Args \cup Globals \cup DOMAIN prog.inst) /\ \A k \in DOMAIN q : Original(q[k])
    BY <1>1, <2>4, <2>6, InputInst, InputUses
  <2>9. Same(inst[r[n]].opnds, q)
    BY <1>1, <2>7, <2>8, MirrorsSame
  <2>. QED  BY <2>1, <2>5, <2>6, <2>9
<1>14. term[t[2]].tgts = prog.term[b].tgts /\ Mirrors(term[t[2]].opnds, prog.term[b].opnds)
  BY <1>9 DEF Leaves
<1>15. PICK q : q = prog.term[b].opnds
  OBVIOUS
<1>16. q \in Seq(Args \cup Globals \cup DOMAIN prog.inst)
  <2>1. IsProgram(prog)
    BY <1>1, ProgramAssumption
  <2>2. PICK u : u = prog.term[b]
    OBVIOUS
  <2>3. u \in [kind : STRING, opnds : Seq(Args \cup Globals \cup DOMAIN prog.inst), tgts : Seq(Blocks)]
    BY <2>1, <2>2 DEF IsProgram
  <2>. QED  BY <1>15, <2>2, <2>3
<1>17. Same(term[t[2]].opnds, q)
  <2>1. \A k \in DOMAIN q : Original(q[k])
    BY <1>1, <1>15, InputUses
  <2>. QED  BY <1>1, <1>14, <1>15, <1>16, <2>1, MirrorsSame
<1>18. first >= 0
  BY <1>11
<1>. QED  BY <1>3, <1>10, <1>12, <1>13, <1>14, <1>15, <1>17, <1>18

\* In any function, whatever the context values and whichever way control
\* goes, what duplicateBB replaced a block by executes the instructions of the
\* block, but its PHIs, once each and in their order, on the operands that
\* stand for the original ones, and goes where the block went.
THEOREM WorkKept == Opaque => (Spec => []SameWork)
<1>. SUFFICES ASSUME Opaque PROVE Spec => []SameWork
  OBVIOUS
<1>1. IInv /\ WInv => SameWork
  <2>1. ASSUME IInv, WInv, AtRest PROVE SameWork
    BY <2>1, WorkSame
  <2>2. ~AtRest => SameWork
    BY DEF SameWork
  <2>. QED  BY <2>1, <2>2
<1>2. Spec => [](IInv /\ WInv)
  BY WInvHolds
<1>. QED  BY <1>1, <1>2, PTL
=============================================================================
