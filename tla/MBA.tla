-------------------------------- MODULE MBA --------------------------------
(***************************************************************************)
(* The obfuscating passes mba-add and mba-sub (lib/MBAAdd.cpp,             *)
(* lib/MBASub.cpp), in any pipeline of the two: each walks over the        *)
(* instructions of a function and replaces additions of 8-bit integers, or *)
(* subtractions of integers, by expressions that compute the same.         *)
(*                                                                         *)
(* An instruction is named by its value; inst[n] holds its kind, its type, *)
(* its operands, and whether it is marked nsw.  What replaces n has a name *)
(* made of n's (Id).                                                       *)
(***************************************************************************)
EXTENDS MachineInts, Sequences, SequencesExt, Selection, TLC

CONSTANTS Opcodes,       \* the kinds of instructions
          Number,        \* marks the constants among the operands
          Programs,      \* the functions to run the passes on
          Pipelines,     \* the sequences of passes to run, "add" or "sub"
          Period         \* bound: the random numbers of a block repeat after it

ASSUME OpcodesAssumption == ArithKinds \subseteq Opcodes

ASSUME PeriodAssumption == Period \in Nat \ {0}

Const(n) == <<Number, n>>
Consts == {Number} \X Nat

\* That the powers of two are positive, provers do not know.
Widths == {w \in Nat \ {0} : 2^w > 0}

Instructions(values) ==
  [kind : Opcodes, bits : Widths, integer : BOOLEAN, ops : Seq(values), nsw : BOOLEAN]

\* Blocks c of the instructions i: every instruction is in one place, an add or
\* sub has two operands, and all operands exist; one that is an instruction of
\* the same block comes before, except in a PHI.
Valid(params, c, i) ==
  /\ c \in [DOMAIN c -> Seq(DOMAIN i)]
  /\ i \in [DOMAIN i -> Instructions(Consts \cup params \cup DOMAIN c \cup DOMAIN i)]
  /\ \A n \in DOMAIN i : /\ \E b \in DOMAIN c : n \in Range(c[b])
                         /\ i[n].kind \in {"add", "sub"} => Len(i[n].ops) = 2
  /\ \A b, x \in DOMAIN c : \A j \in DOMAIN c[b], k \in DOMAIN c[x] :
       /\ c[b][j] = c[x][k] => b = x /\ j = k
       /\ b = x /\ c[b][j] \in Range(i[c[b][k]].ops) => j < k \/ i[c[b][k]].kind = "phi"

\* Functions as the verifier accepts them.
ASSUME ProgramAssumption ==
  \A p \in Programs : /\ p.layout \in Seq(DOMAIN p.code) /\ IsInjective(p.layout)
                      /\ Range(p.layout) = DOMAIN p.code
                      /\ Valid(p.params, p.code, p.inst)

ASSUME PipelinesAssumption == Pipelines \subseteq Seq({"add", "sub"})

VARIABLES prog,          \* the function as the first pass finds it
          above,         \* of the numbers RNG gives, those above the ratio
          passes,        \* the passes still to run, the current one first
          input,         \* the function as the current pass found it
          code,          \* the instructions of each block
          inst,          \* the instructions that exist
          pc,
          rest,          \* blocks the pass has not finished
          at,            \* Inst, as a position in the first of them
          drawn,         \* how many numbers RNG has given in this block
          Changed,
          preserved      \* what the last pass told the pass manager

function == <<code, inst>>
walk == <<rest, at, drawn>>
vars == <<prog, above, passes, input, function, pc, walk, Changed, preserved>>
-----------------------------------------------------------------------------
NoMap == [v \in {} |-> v]

\* f, but x is mapped to v.
With(f, x, v) == [y \in DOMAIN f \cup {x} |-> IF y = x THEN v ELSE f[y]]

\* The name of an instruction that the current pass makes out of n.
Id(n, role) == <<n, role, Len(passes)>>

Ops(n) == inst[n].ops
BB == Head(rest)
Inst == code[BB][at]
InBlock == pc = "insts" /\ at <= Len(code[BB])

\* An integer add, 8 bits wide.
IsAdd(i) == i.kind = "add" /\ i.integer /\ i.bits = 8

\* An integer sub.
IsSub(i) == i.kind = "sub" /\ i.integer

Candidate(i) == IF Head(passes) = "add" THEN IsAdd(i) ELSE IsSub(i)

\* Dist(RNG) > MBARatio.getRatio(), for the k-th number since RNG was seeded.
Above(k) == above[1 + (k % Period)]

\* mba-sub replaces every candidate.
Draws(k) == Head(passes) = "sub" \/ ~Above(k)
-----------------------------------------------------------------------------
Step(id, kind, left, right) == [id |-> id, kind |-> kind, ops |-> <<left, right>>]

\* (((a ^ b) + 2 * (a & b)) * 39 + 23) * 151 + 111, innermost first.  The
\* order of e0 and e1 is the compiler's choice; nothing depends on it.
AddSteps(n, a, b) ==
  << Step(Id(n, "e0"), "xor", a, b),
     Step(Id(n, "and"), "and", a, b),
     Step(Id(n, "e1"), "mul", Const(2), Id(n, "and")),
     Step(Id(n, "e2"), "add", Id(n, "e0"), Id(n, "e1")),
     Step(Id(n, "e3"), "mul", Const(39), Id(n, "e2")),
     Step(Id(n, "e4"), "add", Const(23), Id(n, "e3")),
     Step(Id(n, "e5"), "mul", Const(151), Id(n, "e4")),
     Step(Id(n, "E"), "add", Const(111), Id(n, "e5")) >>

\* (a + ~b) + 1.
SubSteps(n, a, b) ==
  << [id |-> Id(n, "not"), kind |-> "not", ops |-> <<b>>],
     Step(Id(n, "sum"), "add", a, Id(n, "not")),
     Step(Id(n, "E"), "add", Id(n, "sum"), Const(1)) >>

\* Mutant: the flags of the replaced instruction are copied.
FlagsCopied(n) == inst[n].nsw

\* CreateAdd sets no flags.
Flags(n) == FALSE

\* The instruction of a step, in place of n.
Made(n, step) ==
  [kind |-> step.kind, bits |-> inst[n].bits, integer |-> TRUE, ops |-> step.ops,
   nsw |-> step.kind = "add" /\ Flags(n)]

\* Operands, with the values that IRBuilder gave for the steps so far.
Resolved(done, ops) ==
  [k \in DOMAIN ops |-> IF ops[k] \in DOMAIN done.val THEN done.val[ops[k]] ELSE ops[k]]

\* IRBuilder, for one step: done.val maps the steps so far to their values.
\* An operation on constants becomes a constant, and a & -1 becomes a.
Build(n, done, step) ==
  LET bits == inst[n].bits
      ops == Resolved(done, step.ops)
      gives(v) == With(done.val, step.id, v)
  IN  IF Range(ops) \subseteq Consts
      THEN [done EXCEPT !.val = gives(Const(Arith(step.kind, bits, ops[1][2], ops[Len(ops)][2])))]
      ELSE IF step.kind = "and" /\ ops[2] = Const(2^bits - 1)
      THEN [done EXCEPT !.val = gives(ops[1])]
      ELSE [val |-> gives(step.id), code |-> Append(done.code, step.id),
            inst |-> With(done.inst, step.id, Made(n, [step EXCEPT !.ops = ops]))]

Nothing == [val |-> NoMap, code |-> <<>>, inst |-> NoMap]

\* What IRBuilder inserts before n: all steps but the last.
Before(n, steps) ==
  LET done[k \in 0..(Len(steps) - 1)] ==
        IF k = 0 THEN Nothing ELSE Build(n, done[k - 1], steps[k])
  IN  done[Len(steps) - 1]

\* Mutant: n is not erased.
ReplaceKeep(n, new) ==
  [m \in DOMAIN inst |->
     [inst[m] EXCEPT !.ops = [k \in DOMAIN @ |-> IF @[k] = n THEN new ELSE @[k]]]]

\* ReplaceInstWithInst: the users of n use new, and n is erased.
ReplaceUses(n, new) ==
  [m \in DOMAIN inst \ {n} |->
     [inst[m] EXCEPT !.ops = [k \in DOMAIN @ |-> IF @[k] = n THEN new ELSE @[k]]]]

Substitute(n, steps) ==
  LET built == Before(n, steps)
      last == Last(steps)
      new == With(built.inst, last.id, Made(n, [last EXCEPT !.ops = Resolved(built, @)]))
      old == ReplaceUses(n, last.id)
  IN  /\ inst' = [m \in DOMAIN new \cup DOMAIN old |->
                    IF m \in DOMAIN new THEN new[m] ELSE old[m]]
      /\ code' = [code EXCEPT ![BB] =
                    SubSeq(@, 1, at - 1) \o Append(built.code, last.id)
                    \o SubSeq(@, at + 1, Len(@))]
      /\ at' = at + Len(built.code) + 1
      /\ Changed' = TRUE
-----------------------------------------------------------------------------
Init ==
  /\ prog \in Programs
  /\ above \in [1..Period -> BOOLEAN]
  /\ passes \in Pipelines
  /\ code = prog.code /\ inst = prog.inst
  /\ input = [code |-> code, inst |-> inst]
  /\ pc = "run" /\ rest = <<>> /\ at = 1 /\ drawn = 0
  /\ Changed = FALSE /\ preserved = "all"

\* run, on the function as it is now.
StartPass ==
  /\ pc = "run" /\ passes # <<>>
  /\ input' = [code |-> code, inst |-> inst]
  /\ rest' = prog.layout
  /\ Changed' = FALSE
  /\ pc' = "blocks"
  /\ UNCHANGED <<prog, above, passes, function, at, drawn, preserved>>

\* Mutant: what the block before changed is forgotten.
StartBlockAnew ==
  /\ pc = "blocks" /\ rest # <<>>
  /\ at' = 1 /\ drawn' = 0 /\ pc' = "insts"
  /\ Changed' = FALSE
  /\ UNCHANGED <<prog, above, passes, input, function, rest, preserved>>

\* Mutant: the iterator stays behind when the block changes.
StartBlockSame ==
  /\ pc = "blocks" /\ rest # <<>>
  /\ drawn' = 0 /\ pc' = "insts"
  /\ UNCHANGED <<prog, above, passes, input, function, rest, at, Changed, preserved>>

\* runOnBasicBlock.  RNG is made, and seeded with 1234, in each block.
StartBlock ==
  /\ pc = "blocks" /\ rest # <<>>
  /\ at' = 1 /\ drawn' = 0 /\ pc' = "insts"
  /\ UNCHANGED <<prog, above, passes, input, function, rest, Changed, preserved>>

\* Not an instruction the pass replaces.
SkipOther ==
  /\ InBlock /\ ~Candidate(inst[Inst])
  /\ at' = at + 1
  /\ UNCHANGED <<prog, above, passes, input, function, pc, rest, drawn, Changed, preserved>>

\* The number drawn is above the ratio: the add stays.
SkipDrawn ==
  /\ InBlock /\ Candidate(inst[Inst]) /\ ~Draws(drawn)
  /\ at' = at + 1 /\ drawn' = drawn + 1
  /\ UNCHANGED <<prog, above, passes, input, function, pc, rest, Changed, preserved>>

SubstituteAdd ==
  /\ InBlock /\ Head(passes) = "add" /\ Candidate(inst[Inst]) /\ Draws(drawn)
  /\ Substitute(Inst, AddSteps(Inst, Ops(Inst)[1], Ops(Inst)[2]))
  /\ drawn' = drawn + 1
  /\ UNCHANGED <<prog, above, passes, input, pc, rest, preserved>>

SubstituteSub ==
  /\ InBlock /\ Head(passes) = "sub" /\ Candidate(inst[Inst])
  /\ Substitute(Inst, SubSteps(Inst, Ops(Inst)[1], Ops(Inst)[2]))
  /\ UNCHANGED <<prog, above, passes, input, pc, rest, drawn, preserved>>

EndBlock ==
  /\ pc = "insts" /\ at > Len(code[BB])
  /\ rest' = Tail(rest)
  /\ pc' = "blocks"
  /\ UNCHANGED <<prog, above, passes, input, function, at, drawn, Changed, preserved>>

EndPass ==
  /\ pc = "blocks" /\ rest = <<>>
  /\ preserved' = IF Changed THEN "none" ELSE "all"
  /\ passes' = Tail(passes)
  /\ pc' = "run"
  /\ UNCHANGED <<prog, above, input, function, walk, Changed>>

Next ==
  \/ StartPass \/ StartBlock \/ SkipOther \/ SkipDrawn
  \/ SubstituteAdd \/ SubstituteSub \/ EndBlock \/ EndPass

Spec == Init /\ [][Next]_vars
-----------------------------------------------------------------------------
\* The variables are what they are declared to be, and the function remains
\* one that the verifier accepts: nothing uses an instruction that was erased.
TypeOK ==
  /\ pc \in {"run", "blocks", "insts"}
  /\ passes \in Seq({"add", "sub"}) /\ above \in [1..Period -> BOOLEAN]
  /\ DOMAIN code = DOMAIN prog.code /\ Valid(prog.params, code, inst)
  /\ Changed \in BOOLEAN /\ preserved \in {"all", "none"}
  /\ drawn \in Nat
  /\ \E k \in DOMAIN prog.layout \cup {Len(prog.layout) + 1} :
       rest = SubSeq(prog.layout, k, Len(prog.layout))
  /\ pc = "insts" => rest # <<>> /\ at \in 1..(Len(code[BB]) + 1)

\* What a pass reports to the pass manager is right: the analyses of a
\* function are kept only if no block of it was changed.
PreservedIfUnchanged ==
  pc = "run" /\ preserved = "all" => input = [code |-> code, inst |-> inst]

\* Where block b had candidates when the current pass found it, and which of
\* them the random numbers select: one is drawn for each.
Found(b) == {k \in DOMAIN input.code[b] : Candidate(input.inst[input.code[b][k]])}
Selected(b) == {k \in Found(b) : Draws(Cardinality({j \in Found(b) : j < k}))}

\* In a block that is done, the candidates the random numbers select were
\* replaced, all others and all other instructions stay, in their order, and
\* nothing that the pass itself inserted was replaced in turn: the rest of the
\* block has been made out of those selected.
SelectedReplaced ==
  pc \in {"blocks", "insts"} =>
    \A b \in Range(prog.layout) \ Range(rest) :
      /\ Listed(input.code[b], DOMAIN input.code[b] \ Selected(b))
           = Listed(code[b], {k \in DOMAIN code[b] : code[b][k] \in DOMAIN input.inst})
      /\ {n \in DOMAIN input.inst : Id(n, "E") \in Range(code[b])}
           = {input.code[b][k] : k \in Selected(b)}
      /\ \A v \in Range(code[b]) \ DOMAIN input.inst :
           \E k \in Selected(b) : v[1] = input.code[b][k]
=============================================================================
