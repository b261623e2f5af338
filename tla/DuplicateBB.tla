---------------------------- MODULE DuplicateBB ----------------------------
(***************************************************************************)
(* DuplicateBB (lib/DuplicateBB.cpp): every block that reaches an integer  *)
(* value is replaced by four: a head that compares the value with zero,    *)
(* two clones of the block, and a tail that merges them.  One action per   *)
(* block looked at by findBBsToDuplicate; in cloneBB, one for the split,   *)
(* one per instruction of the tail and one for the end.                    *)
(*                                                                         *)
(* An instruction is named by the value it defines.  inst[v] holds its     *)
(* kind, its operands and, for a PHI, the incoming blocks.  The pass makes *)
(* <<v, "then">>, <<v, "else">> and <<v, "phi">> out of v and the compare  *)
(* <<b, "cond", n>>; block b keeps its identity as the head, and gets      *)
(* <<b, "then", n>>, <<b, "else", n>> and <<b, "tail", n>>.                *)
(***************************************************************************)
EXTENDS Naturals, Sequences, FiniteSets, Functions, Selection

CONSTANTS Blocks, Entry,
          Args, Globals,
          IntTyped,     \* instructions, arguments and globals of integer type
          Programs      \* the functions to run the pass on

ASSUME SourceAssumption == Args \cap Globals = {} /\ Entry \in Blocks

\* The pass appears at most twice in a pipeline, of the new or the legacy
\* pass manager; the entry block comes first.
IsProgram(p) ==
  LET values == Args \cup Globals \cup DOMAIN p.inst
  IN  /\ p.runs \in 1..2 /\ p.legacy \in BOOLEAN
      /\ p.layout \in Seq(Blocks) /\ Range(p.layout) = Blocks /\ p.layout[1] = Entry
      /\ \A m, n \in DOMAIN p.layout : p.layout[m] = p.layout[n] => m = n
      /\ p.code \in [Blocks -> Seq(DOMAIN p.inst)]
      /\ p.inst \in [DOMAIN p.inst ->
                      [kind : {"value", "void", "phi", "pad"}, opnds : Seq(values), from : Seq(Blocks)]]
      /\ p.term \in [Blocks -> [kind : STRING, opnds : Seq(values), tgts : Seq(Blocks)]]

\* Every instruction is in one place.
InOnePlace(p) ==
  /\ \A v \in DOMAIN p.inst : \E b \in Blocks : \E n \in DOMAIN p.code[b] : p.code[b][n] = v
  /\ \A b, d \in Blocks : \A m \in DOMAIN p.code[b], n \in DOMAIN p.code[d] :
       p.code[b][m] = p.code[d][n] => b = d /\ m = n

\* What the verifier asks of PHIs, an entry for each edge, and of landing
\* pads: they come first in their block, in this order.
WellHeaded(p) ==
  \A b \in Blocks : \A n \in DOMAIN p.code[b] :
    LET i == p.inst[p.code[b][n]]
    IN  /\ i.kind \in {"phi", "pad"} => \A m \in 1..(n - 1) : p.inst[p.code[b][m]].kind = "phi"
        /\ i.kind = "phi" => \A x \in Blocks :
             Cardinality({k \in DOMAIN i.from : i.from[k] = x})
               = Cardinality({k \in DOMAIN p.term[x].tgts : p.term[x].tgts[k] = b})

\* What the types say: an instruction without a value is no integer and
\* nobody's operand; a PHI takes a value from each of its blocks.
WellTyped(p) ==
  /\ (Args \cup Globals) \cap DOMAIN p.inst = {}
  /\ \A v \in DOMAIN p.inst :
       /\ p.inst[v].kind = "phi" => Len(p.inst[v].opnds) = Len(p.inst[v].from)
       /\ p.inst[v].kind = "void" =>
            /\ v \notin IntTyped
            /\ \A u \in DOMAIN p.inst : v \notin Range(p.inst[u].opnds)
            /\ \A b \in Blocks : v \notin Range(p.term[b].opnds)

ASSUME ProgramAssumption ==
  \A p \in Programs : IsProgram(p) /\ InOnePlace(p) /\ WellHeaded(p) /\ WellTyped(p)

VARIABLES prog,         \* the function as the pass found it
          code,         \* the instructions of each block, but the terminator
          inst,         \* operands of the instructions that exist
          term,         \* terminators: kind, operands and targets
          layout,       \* the blocks in the order of the function's list
          pc,
          next,         \* position in the layout, then in Targets
          Targets,      \* BlocksToDuplicate: blocks and their context values
          ReMapper,     \* from values before duplication to their PHIs
          tail, at,     \* the Tail of the block being cloned, and IIT
          VMap,         \* ThenVMap, ElseVMap, TailVMap
          ToRemove,
          count,        \* DuplicateBBCount
          run           \* how often the pass has been entered

function == <<code, inst, term, layout>>
cloning == <<tail, at, VMap, ToRemove>>
vars == <<prog, function, pc, next, Targets, ReMapper, cloning, count, run>>
-----------------------------------------------------------------------------
NoMap == [v \in {} |-> v]
Lookup(map, v) == IF v \in DOMAIN map THEN map[v] ELSE v
Extend(map, k, v) == [x \in DOMAIN map \cup {k} |-> IF x = k THEN v ELSE map[x]]

Clone(v, side) == <<v, side>>
Side(b, side) == <<b, side, count>>

\* RemapInstruction with RF_IgnoreMissingLocals.
Remap(opnds, map) == [i \in DOMAIN opnds |-> Lookup(map, opnds[i])]

Phis(c) == {n \in DOMAIN c : inst[c[n]].kind = "phi"}
FirstNonPHI(b) ==
  CHOOSE n \in 1..(Len(code[b]) + 1) : \A m \in 1..Len(code[b]) : m >= n <=> m \notin Phis(code[b])

\* Mutant: landing pads are not recognised.
IsLandingPadNever(b) == FALSE

IsLandingPad(b) ==
  /\ FirstNonPHI(b) \in DOMAIN code[b]
  /\ inst[code[b][FirstNonPHI(b)]].kind = "pad"

\* The blocks that the terminators t reach from the entry block without
\* passing through one of avoid.
Reached(t, avoid) ==
  LET grow[S \in SUBSET DOMAIN t] ==
        LET T == S \cup ((UNION {Range(t[x].tgts) : x \in S}) \ avoid)
        IN  IF T = S THEN S ELSE grow[T]
  IN  grow[{Entry} \ avoid]

\* The value that v was made from by cloning; a compare is made from none.
Original(v) == v \in Args \cup Globals \cup DOMAIN prog.inst
IsCompare(v) == ~Original(v) /\ Len(v) = 3
Origin(v) == IF Original(v) THEN v
             ELSE IF Original(v[1]) \/ IsCompare(v[1]) THEN v[1] ELSE v[1][1]

\* getType()->isIntegerTy(): that of a compare is i1.
IsInteger(v) == IsCompare(v) \/ Origin(v) \in IntTyped \/ IsCompare(Origin(v))

\* RIV's answer for b.  The pass tells the pass manager that it preserves all
\* analyses when it has duplicated a block (and none when it has not), so a
\* second run is given the answer for the function as it was, in which new
\* blocks have no entry.  The legacy pass manager runs RIV again.
RIVResult(b) ==
  LET f == IF run = 1 \/ prog.legacy THEN [code |-> code, term |-> term] ELSE prog
      sdoms == {d \in DOMAIN f.term \ {b} : b \notin Reached(f.term, {d})}
  IN  IF b \notin DOMAIN f.term \cap Reached(f.term, {}) THEN {}
      ELSE {v \in Args \cup Globals \cup UNION {Range(f.code[d]) : d \in sdoms} : IsInteger(v)}

\* Mutant: every context value will do.
EligibleAny(b) == IF IsLandingPad(b) THEN {} ELSE RIVResult(b)

\* The context values that make findBBsToDuplicate take b.
Eligible(b) == IF IsLandingPad(b) THEN {} ELSE RIVResult(b) \ Globals

\* ReMapper.count(ContextValue) ? ReMapper[ContextValue] : ContextValue
Context(ctx) == Lookup(ReMapper, ctx)

\* Mutant: the PHIs of the successors still name the head.
MovedKeep(b, t, i) == i

\* Splitting b moves its terminator to t: the PHIs of its successors follow.
Moved(b, t, i) ==
  [i EXCEPT !.from = [k \in DOMAIN @ |-> IF @[k] = b THEN t ELSE @[k]]]

\* Mutant: the keys of the maps do not follow the replacement.
RekeyNot(map, v, phi) == map

\* A ValueMap follows replaceAllUsesWith: the entry for v becomes phi's.
Rekey(map, v, phi) ==
  [x \in (DOMAIN map \ {v}) \cup (IF v \in DOMAIN map THEN {phi} ELSE {}) |->
     IF x = phi THEN map[v] ELSE map[x]]

\* Mutant: nothing is purged.
PurgeNot(c) == c

\* The tail without the instructions listed in ToRemove.
Purge(c) ==
  LET kept == Ascending({n \in DOMAIN c : c[n] \notin ToRemove})
  IN  [k \in DOMAIN kept |-> c[kept[k]]]
-----------------------------------------------------------------------------
Init ==
  /\ prog \in Programs
  /\ code = prog.code /\ inst = prog.inst /\ term = prog.term /\ layout = prog.layout
  /\ pc = "find" /\ next = 1
  /\ Targets = <<>> /\ ReMapper = NoMap
  /\ tail = Entry /\ at = 0
  /\ VMap = [s \in {"then", "else", "tail"} |-> NoMap]
  /\ ToRemove = {}
  /\ count = 0 /\ run = 1

\* findBBsToDuplicate leaves the block alone: a landing pad, no value
\* reaches it, or the value drawn is a global.
SkipBlock ==
  /\ pc = "find" /\ next <= Len(layout)
  /\ LET b == layout[next]
     IN  IsLandingPad(b) \/ RIVResult(b) = {} \/ RIVResult(b) \cap Globals # {}
  /\ next' = next + 1
  /\ UNCHANGED <<prog, function, pc, Targets, ReMapper, cloning, count, run>>

\* BlocksToDuplicate.emplace_back(&BB, *Iter), for a random value.
TakeBlock ==
  /\ pc = "find" /\ next <= Len(layout)
  /\ \E ctx \in Eligible(layout[next]) :
       Targets' = Append(Targets, [block |-> layout[next], ctx |-> ctx])
  /\ next' = next + 1
  /\ UNCHANGED <<prog, function, pc, ReMapper, cloning, count, run>>

EndFind ==
  /\ pc = "find" /\ next > Len(layout)
  /\ pc' = "target" /\ next' = 1
  /\ UNCHANGED <<prog, function, Targets, ReMapper, cloning, count, run>>

\* CreateIsNull and SplitBlockAndInsertIfThenElse.
Split ==
  /\ pc = "target" /\ next <= Len(Targets)
  /\ LET b == Targets[next].block
         k == FirstNonPHI(b)
         cond == <<b, "cond", count>>
         then == Side(b, "then")
         else == Side(b, "else")
         t == Side(b, "tail")
         p == CHOOSE n \in DOMAIN layout : layout[n] = b
         JumpTo(x) == [kind |-> "br", opnds |-> <<>>, tgts |-> <<x>>]
     IN  /\ code' = [x \in DOMAIN code \cup {then, else, t} |->
                       CASE x = b -> Append(SubSeq(code[b], 1, k - 1), cond)
                         [] x \in {then, else} -> <<>>
                         [] x = t -> SubSeq(code[b], k, Len(code[b]))
                         [] OTHER -> code[x]]
         /\ term' = [x \in DOMAIN code' |->
                       CASE x = b -> [kind |-> "br", opnds |-> <<cond>>, tgts |-> <<then, else>>]
                         [] x \in {then, else} -> JumpTo(t)
                         [] x = t -> term[b]
                         [] OTHER -> term[x]]
         /\ inst' = Extend([v \in DOMAIN inst |-> Moved(b, t, inst[v])], cond,
                           [kind |-> "cond", from |-> <<>>,
                            opnds |-> <<Context(Targets[next].ctx)>>])
         /\ layout' = SubSeq(layout, 1, p) \o <<then, else, t>> \o SubSeq(layout, p + 1, Len(layout))
         /\ tail' = t
  /\ at' = 1
  /\ VMap' = [s \in DOMAIN VMap |-> NoMap]
  /\ ToRemove' = {}
  /\ pc' = "clone"
  /\ UNCHANGED <<prog, next, Targets, ReMapper, count, run>>

\* The instruction under IIT, put into both clones.
Cloned(v) ==
  LET i == inst[v]
  IN  Extend(Extend(inst, Clone(v, "then"), [i EXCEPT !.opnds = Remap(@, VMap["then"])]),
             Clone(v, "else"), [i EXCEPT !.opnds = Remap(@, VMap["else"])])
ClonedCode(v) ==
  LET b == Targets[next].block
  IN  [code EXCEPT ![Side(b, "then")] = Append(@, Clone(v, "then")),
                   ![Side(b, "else")] = Append(@, Clone(v, "else"))]
ClonedVMap(v) == [s \in DOMAIN VMap |-> IF s = "tail" THEN VMap[s]
                                        ELSE Extend(VMap[s], v, Clone(v, s))]

\* An instruction without a value: the tail's own is removed later.
CloneVoid ==
  /\ pc = "clone" /\ at <= Len(code[tail])
  /\ LET v == code[tail][at]
     IN  /\ inst[v].kind = "void"
         /\ inst' = Cloned(v)
         /\ code' = ClonedCode(v)
         /\ VMap' = ClonedVMap(v)
         /\ ToRemove' = ToRemove \cup {v}
  /\ at' = at + 1
  /\ UNCHANGED <<prog, layout, term, pc, next, Targets, ReMapper, tail, count, run>>

\* An instruction with a value: a PHI of the clones takes its place, and
\* ReplaceInstWithInst sends every use of it to the PHI.
CloneValue ==
  /\ pc = "clone" /\ at <= Len(code[tail])
  /\ LET b == Targets[next].block
         v == code[tail][at]
         phi == Clone(v, "phi")
         RAUW(s) == [i \in DOMAIN s |-> IF s[i] = v THEN phi ELSE s[i]]
         new == Extend(Cloned(v), phi,
                       [kind |-> "phi", opnds |-> <<Clone(v, "then"), Clone(v, "else")>>,
                        from |-> <<Side(b, "then"), Side(b, "else")>>])
     IN  /\ inst[v].kind # "void"
         /\ inst' = [x \in DOMAIN new \ {v} |-> [new[x] EXCEPT !.opnds = RAUW(@)]]
         /\ code' = [ClonedCode(v) EXCEPT ![tail][at] = phi]
         /\ term' = [x \in DOMAIN term |-> [term[x] EXCEPT !.opnds = RAUW(@)]]
         /\ VMap' = [s \in DOMAIN VMap |->
                       IF s = "tail" THEN Extend(VMap[s], phi, phi)
                       ELSE Rekey(ClonedVMap(v)[s], v, phi)]
         /\ ReMapper' = Extend(ReMapper, v, phi)
  /\ at' = at + 1
  /\ UNCHANGED <<prog, layout, pc, next, Targets, tail, ToRemove, count, run>>

\* The terminator is remapped; the purge.
EndClone ==
  /\ pc = "clone" /\ at > Len(code[tail])
  /\ term' = [term EXCEPT ![tail].opnds = Remap(@, VMap["tail"])]
  /\ code' = [code EXCEPT ![tail] = Purge(@)]
  /\ inst' = [v \in UNION {Range(code'[x]) : x \in DOMAIN code'} |-> inst[v]]
  /\ count' = count + 1
  /\ next' = next + 1
  /\ pc' = "target"
  /\ UNCHANGED <<prog, layout, Targets, ReMapper, cloning, run>>

\* run returns; the pipeline may name the pass once more.
Leave ==
  /\ pc = "target" /\ next > Len(Targets)
  /\ pc' = IF run < prog.runs THEN "find" ELSE "done"
  /\ run' = IF run < prog.runs THEN run + 1 ELSE run
  /\ next' = 1 /\ Targets' = <<>> /\ ReMapper' = NoMap
  /\ UNCHANGED <<prog, function, cloning, count>>

Next == \/ SkipBlock \/ TakeBlock \/ EndFind
        \/ Split \/ CloneVoid \/ CloneValue \/ EndClone
        \/ Leave

Spec == Init /\ [][Next]_vars
-----------------------------------------------------------------------------
\* Between two calls of cloneBB.
AtRest == pc \in {"target", "done"}

\* The block of the original function that b was made from.
OriginBlock(b) == IF b \in Blocks THEN b ELSE IF b[1] \in Blocks THEN b[1] ELSE b[1][1]

\* Where v is defined.
DefinedIn(v, b) == v \in Range(code[b])
Position(v, b) == CHOOSE n \in DOMAIN code[b] : code[b][n] = v

\* The definition of v reaches the end of b on every path.
AvailableAtEnd(v, b) ==
  v \in Args \cup Globals \/ \E d \in DOMAIN code : /\ DefinedIn(v, d)
                                                     /\ b \notin Reached(term, {d})

\* v may be used by the n-th instruction of b.
AvailableAt(v, b, n) ==
  IF DefinedIn(v, b) THEN Position(v, b) < n ELSE AvailableAtEnd(v, b)

\* The program's values, blocks and counters stay what they are declared to
\* be, no block is duplicated over a global, and an instruction that exists
\* is in exactly one place.
TypeOK ==
  /\ pc \in {"find", "target", "clone", "done"}
  /\ \A k \in DOMAIN Targets : /\ Targets[k].block \in DOMAIN code
                               /\ IsInteger(Targets[k].ctx) /\ Targets[k].ctx \notin Globals
  /\ DOMAIN term = DOMAIN code
  /\ Len(layout) = Cardinality(DOMAIN code) /\ Range(layout) = DOMAIN code
  /\ tail \in DOMAIN code
  /\ \A v \in ToRemove : Original(Origin(v))
  /\ \A v \in DOMAIN inst : \E b \in DOMAIN code : \E n \in DOMAIN code[b] :
       code[b][n] = v

\* Dominance in every intermediate program: an operand is defined on every
\* path to its use, and a PHI's operand on every path to the end of the
\* incoming block.  RIV answered for the function before the first split.
UsesDominated ==
  \A b \in DOMAIN code :
    /\ \A n \in DOMAIN code[b] : LET i == inst[code[b][n]] IN
         \A k \in DOMAIN i.opnds :
           IF i.kind = "phi" THEN AvailableAtEnd(i.opnds[k], i.from[k])
           ELSE AvailableAt(i.opnds[k], b, n)
    /\ \A k \in DOMAIN term[b].opnds : AvailableAtEnd(term[b].opnds[k], b)

\* RIV answers for the function at hand.  It does not for a second run that
\* the new pass manager makes: run has preserved all analyses.  Then the answer
\* still holds where the only integers are arguments and globals.
FreshAnswers ==
  \A p \in Programs : p.runs = 1 \/ p.legacy \/ IntTyped \cap DOMAIN p.inst = {}

\* The value cloneBB is about to compare with zero is in the function.  "This
\* map is used to keep track of the new bindings.  Otherwise, the information
\* from RIV will become obsolete."
ContextAlive ==
  pc = "target" /\ next <= Len(Targets) =>
    Context(Targets[next].ctx) \in DOMAIN inst \cup Args

\* What is executed from block b to the end of what replaces it, on each of
\* its paths: the instructions that stand for one of the original's.
Trails ==
  LET Own(x) == Listed(code[x], {n \in DOMAIN code[x] : inst[code[x][n]].kind \notin {"phi", "cond"}})
      from[x \in DOMAIN code] ==
        IF Range(term[x].tgts) \subseteq Blocks THEN {<<Own(x), x>>}
        ELSE UNION {{<<Own(x) \o t[1], t[2]>> : t \in from[y]} : y \in Range(term[x].tgts)}
  IN  from

Same(opnds, original) == [k \in DOMAIN opnds |-> Origin(opnds[k])] = original

\* Whatever the context values are, control that enters a block executes the
\* instructions of the original once each, in order, on the operands that
\* stand for the original ones, and then goes where the original went.
SameWork ==
  AtRest => \A b \in Blocks : \A t \in Trails[b] :
    LET c == prog.code[b]
        first == Len(c) - Len(t[1])
    IN  /\ first >= 0
        /\ \A n \in DOMAIN c : n <= first <=> prog.inst[c[n]].kind = "phi"
        /\ \A n \in DOMAIN t[1] :
             /\ Origin(t[1][n]) = c[first + n]
             /\ Same(inst[t[1][n]].opnds, prog.inst[c[first + n]].opnds)
        /\ term[t[2]].tgts = prog.term[b].tgts
        /\ Same(term[t[2]].opnds, prog.term[b].opnds)

\* Every PHI has one entry per incoming edge, and the PHIs of the original
\* take over an edge what they took over it before.
PhisPreserved ==
  AtRest => \A b \in DOMAIN code : \A n \in Phis(code[b]) :
    LET i == inst[code[b][n]]
    IN  /\ \A p \in DOMAIN code :
             Cardinality({k \in DOMAIN i.from : i.from[k] = p})
               = Cardinality({k \in DOMAIN term[p].tgts : term[p].tgts[k] = b})
        /\ b \in Blocks =>
             LET o == prog.inst[prog.code[b][n]]
             IN  /\ code[b][n] = prog.code[b][n]
                 /\ [k \in DOMAIN i.from |-> OriginBlock(i.from[k])] = o.from
                 /\ Same(i.opnds, o.opnds)

\* PHIs come first in their block, and a landing pad is still the first
\* instruction after them of the block the unwind edge goes to.
HeadsFirst ==
  AtRest =>
    /\ \A b \in DOMAIN code : \A m, n \in DOMAIN code[b] :
         m < n /\ n \in Phis(code[b]) => m \in Phis(code[b])
    /\ \A b \in Blocks : \A v \in Range(prog.code[b]) :
         prog.inst[v].kind = "pad" =>
           FirstNonPHI(b) \in DOMAIN code[b] /\ code[b][FirstNonPHI(b)] = v
=============================================================================
