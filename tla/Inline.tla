------------------------------- MODULE Inline -------------------------------
(***************************************************************************)
(* SsInline (SsInline/SsInline.cpp): the direct calls in main are replaced *)
(* by the callee's instructions, one call after the other.  One action per *)
(* instruction that inlineOnce looks at, per instruction it clones, and    *)
(* per step of its loop over the users of the call.                        *)
(*                                                                         *)
(* An instruction is named by its value; inst[n] holds its kind and its    *)
(* operands as LLVM lists them: those of a call end with the callee, those *)
(* of a branch with its targets.  The clone of n for a call is             *)
(* <<n, call>>.                                                            *)
(***************************************************************************)
EXTENDS Naturals, Sequences, FiniteSets, SequencesExt

CONSTANTS Functions, Main,   \* the functions of the module, main is one
          Garbage,           \* what an uninitialised pointer points to
          Programs           \* the modules to run the pass on

ASSUME MainAssumption == Main \in Functions /\ Garbage \notin Functions

Labels(p) == UNION {Range(p.layout[f]) : f \in Functions}
Named(p) == p.consts \cup Labels(p) \cup Functions \cup UNION {Range(p.params[f]) : f \in Functions}

\* A module: names mean one thing, a block belongs to one function.
IsProgram(p) ==
  /\ p.layout \in [Functions -> Seq(Labels(p))]
  /\ \A f, g \in Functions : \A m \in DOMAIN p.layout[f], n \in DOMAIN p.layout[g] :
       p.layout[f][m] = p.layout[g][n] => f = g /\ m = n
  /\ p.params \in [Functions -> Seq(Named(p))]
  /\ p.code \in [Labels(p) -> Seq(DOMAIN p.inst)]
  /\ IsFiniteSet(DOMAIN p.inst) /\ DOMAIN p.inst \cap Named(p) = {}
  /\ p.inst \in [DOMAIN p.inst ->
                  [op : STRING, kind : STRING, ops : Seq(DOMAIN p.inst \cup Named(p))]]
  /\ \A n \in DOMAIN p.inst : p.inst[n].kind = "call" => p.inst[n].ops # <<>>

\* Every instruction is in one place.
InOnePlace(p) ==
  /\ \A n \in DOMAIN p.inst : \E b \in Labels(p) : \E i \in DOMAIN p.code[b] : p.code[b][i] = n
  /\ \A b, d \in Labels(p) : \A i \in DOMAIN p.code[b], j \in DOMAIN p.code[d] :
       p.code[b][i] = p.code[d][j] => b = d /\ i = j

\* What an instruction of main may name: an instruction that dominates it
\* (main's first block dominates the others here), an argument of main, a
\* constant, a block of main or a function.
InScope(p, c, v, b, i) ==
  \/ \E j \in 1..(i - 1) : c[b][j] = v
  \/ b # p.layout[Main][1] /\ v \in Range(c[p.layout[Main][1]])
  \/ v \in Range(p.params[Main]) \cup p.consts \cup Range(p.layout[Main]) \cup Functions

Scoped(p, c, insts) ==
  \A b \in Range(p.layout[Main]) : \A i \in DOMAIN c[b] : \A k \in DOMAIN insts[c[b][i]].ops :
    InScope(p, c, insts[c[b][i]].ops[k], b, i)

\* Nothing calls main: cloning main into itself is not modelled.
NoCallOfMain(p) == \A n \in DOMAIN p.inst : Main \notin Range(p.inst[n].ops)

ASSUME ProgramAssumption ==
  \A p \in Programs : /\ IsProgram(p) /\ InOnePlace(p)
                      /\ Scoped(p, p.code, p.inst) /\ NoCallOfMain(p)

\* A CallInst whose called value is a function, not a pointer or an invoke.
CallsFunction(i) == i.kind = "call" /\ Last(i.ops) \in Functions

Terminates(i) == i.kind \in {"ret", "br"}

\* The uses of a value by the instructions insts.
UsesIn(insts, v) ==
  UNION {{<<n, k>> : k \in {j \in DOMAIN insts[n].ops : insts[n].ops[j] = v}} : n \in DOMAIN insts}

VARIABLES prog,         \* the module as the pass found it
          code,         \* the instructions of each block
          inst,         \* kind and operands of the instructions that exist
          pc,
          at,           \* BB and Ins in the caller: <<index of the block, index>>
          call,
          from,         \* BB and Ins in the callee
          vmap,
          RetVal,
          lists,        \* use-lists: of the call, of RetVal
          use           \* where the iterator over call->users() stands

module == <<code, inst>>
cloning == <<from, vmap, RetVal>>
replacing == <<lists, use>>
vars == <<prog, module, pc, at, call, cloning, replacing>>
-----------------------------------------------------------------------------
NoMap == [v \in {} |-> v]
Extend(map, k, v) == [x \in DOMAIN map \cup {k} |-> IF x = k THEN v ELSE map[x]]
NoLists == [call |-> <<>>, ret |-> <<>>]
NoUse == <<>>

Ops(n) == inst[n].ops

\* DirectInvoc: the called function.  A declaration has no blocks.
Callee(n) == Last(Ops(n))
Body(f) == prog.layout[f]
Params(f) == prog.params[f]

IsDirectCall(n) == CallsFunction(inst[n])

\* The instruction at position <<b, i>> of a function.
In(f, pos) == pos[1] <= Len(Body(f)) /\ pos[2] <= Len(code[Body(f)[pos[1]]])
InstrAt(f, pos) == code[Body(f)[pos[1]]][pos[2]]

\* ++Ins; after the last instruction of a block, ++BB.
Advance(f, pos) ==
  IF pos[2] < Len(code[Body(f)[pos[1]]]) THEN <<pos[1], pos[2] + 1>> ELSE <<pos[1] + 1, 1>>

First == <<1, 1>>

\* Mutant: the argument is taken at the operand's position.
SubstByOperand(n) ==
  [k \in DOMAIN Ops(n) |-> IF Ops(n)[k] \in Range(Params(Callee(call)))
                           THEN Ops(call)[IF k < Len(Ops(call)) THEN k ELSE 1] ELSE Ops(n)[k]]

\* getArgOperand: the operands before the callee.
Argument(a) == IF a < Len(Ops(call)) THEN Ops(call)[a] ELSE Garbage

\* The operands of n with the parameters of the callee replaced by the
\* arguments of the call.
Subst(n) ==
  LET params == Params(Callee(call))
  IN  [k \in DOMAIN Ops(n) |->
         IF \E a \in DOMAIN params : params[a] = Ops(n)[k]
         THEN Argument(CHOOSE a \in DOMAIN params : params[a] = Ops(n)[k]) ELSE Ops(n)[k]]

\* Mutant: the clone is not remapped.
RemapNot(ops) == ops

\* RemapInstruction with RF_IgnoreMissingLocals.
Remap(ops) == [k \in DOMAIN ops |-> IF ops[k] \in DOMAIN vmap THEN vmap[ops[k]] ELSE ops[k]]

\* The uses of a value in the whole module.
Uses(v) == UsesIn(inst, v)

\* i: the first operand that is the call, else the last one the loop saw.
OperandToReplace(n) ==
  LET hits == {k \in DOMAIN Ops(n) : Ops(n)[k] = call}
  IN  IF hits = {} THEN Len(Ops(n)) ELSE Min(hits)

Place(l, w) == CHOOSE j \in DOMAIN l : l[j] = w
Unlinked(l, w) == IF w \in Range(l) THEN RemoveAt(l, Place(l, w)) ELSE l

\* Use::set takes w off its list and puts it at the front of RetVal's.
Linked(w) == [call |-> Unlinked(lists.call, w), ret |-> <<w>> \o Unlinked(lists.ret, w)]

\* Mutant: the iterator stays where it is.
NextUseSame(ls, u) == u

\* Use::getNext, in the list that u is on now.
NextUse(ls, u) ==
  LET l == IF u \in Range(ls.call) THEN ls.call ELSE ls.ret
  IN  IF Place(l, u) < Len(l) THEN l[Place(l, u) + 1] ELSE NoUse

\* Mutant: only the call is unlinked from its block.
EraseBodyOnly(c) == inst

\* The instructions that are left when the call is deleted.
Erase(c) == [n \in DOMAIN inst \ {c} |-> inst[n]]

\* Mutant: inlineOnce is resumed after the call, not restarted.
RestartAfter == Advance(Main, at)

\* while (inlineOnce(*Caller)): the next search starts from the beginning.
Restart == First
-----------------------------------------------------------------------------
Init ==
  /\ prog \in Programs
  /\ code = prog.code /\ inst = prog.inst
  /\ pc = "caller" /\ at = First /\ call = Garbage
  /\ from = First /\ vmap = NoMap /\ RetVal = Garbage
  /\ lists = NoLists /\ use = NoUse

CallsIn(f) == {n \in UNION {Range(code[b]) : b \in Range(Body(f))} : IsDirectCall(n)}

\* runOnModule looks for a call in main: without one, Caller is not set.
FindCaller ==
  /\ pc = "caller"
  /\ pc' = IF CallsIn(Main) # {} THEN "search" ELSE "undefined"
  /\ UNCHANGED <<prog, module, at, call, cloning, replacing>>

\* inlineOnce passes over an instruction that is not a direct call.
PassOver ==
  /\ pc = "search" /\ In(Main, at) /\ ~IsDirectCall(InstrAt(Main, at))
  /\ at' = Advance(Main, at)
  /\ UNCHANGED <<prog, module, pc, call, cloning, replacing>>

\* It has found one: the locals of inlineOnce are as declared.
FindCall ==
  /\ pc = "search" /\ In(Main, at) /\ IsDirectCall(InstrAt(Main, at))
  /\ call' = InstrAt(Main, at)
  /\ pc' = "clone" /\ from' = First /\ vmap' = NoMap /\ RetVal' = Garbage
  /\ UNCHANGED <<prog, module, at, replacing>>

Clone == LET n == InstrAt(Callee(call), from) IN [inst[n] EXCEPT !.ops = Remap(Subst(n))]

IsTerminator(n) == Terminates(inst[n])

\* An instruction of the callee is cloned and inserted before the call.
CloneInstruction ==
  /\ pc = "clone" /\ In(Callee(call), from)
  /\ LET n == InstrAt(Callee(call), from)
         c == <<n, call>>
     IN  /\ ~IsTerminator(n)
         /\ code' = [code EXCEPT ![Body(Main)[at[1]]] = InsertAt(@, at[2], c)]
         /\ inst' = Extend(inst, c, Clone)
         /\ vmap' = Extend(vmap, n, c)
  /\ at' = <<at[1], at[2] + 1>>
  /\ from' = Advance(Callee(call), from)
  /\ UNCHANGED <<prog, pc, call, RetVal, replacing>>

\* The clone of a terminator is deleted at once, its first operand kept.
\* A return of void has none: what is read is not a value.
CloneTerminator ==
  /\ pc = "clone" /\ In(Callee(call), from)
  /\ IsTerminator(InstrAt(Callee(call), from))
  /\ RetVal' = IF Clone.ops = <<>> THEN Garbage ELSE Clone.ops[1]
  /\ from' = Advance(Callee(call), from)
  /\ UNCHANGED <<prog, module, pc, at, call, vmap, replacing>>

\* The loop over the users begins.  The order of a use-list depends on how
\* the module was made.
BeginUsers ==
  /\ pc = "clone" /\ ~In(Callee(call), from)
  /\ \E cs \in SetToSeqs(Uses(call)), rs \in SetToSeqs(Uses(RetVal)) :
       /\ lists' = [call |-> cs, ret |-> rs]
       /\ use' = IF cs = <<>> THEN NoUse ELSE cs[1]
  /\ pc' = "users"
  /\ UNCHANGED <<prog, module, at, call, cloning>>

\* One user: an operand becomes RetVal, which moves a use from one list to
\* another, and the iterator advances.
ReplaceUse ==
  /\ pc = "users" /\ use # NoUse
  /\ LET n == use[1]
         k == OperandToReplace(n)
     IN  /\ inst' = [inst EXCEPT ![n].ops[k] = RetVal]
         /\ lists' = Linked(<<n, k>>)
  /\ use' = NextUse(lists', use)
  /\ UNCHANGED <<prog, code, pc, at, call, cloning>>

\* The call is deleted, inlineOnce returns true and is called again.
EraseCall ==
  /\ pc = "users" /\ use = NoUse
  /\ code' = [code EXCEPT ![Body(Main)[at[1]]] = RemoveAt(@, at[2])]
  /\ inst' = Erase(call)
  /\ pc' = "search" /\ at' = Restart /\ call' = Garbage
  /\ lists' = NoLists
  /\ from' = First /\ vmap' = NoMap /\ RetVal' = Garbage
  /\ UNCHANGED <<prog, use>>

\* inlineOnce has found nothing and returns false.
Return ==
  /\ pc = "search" /\ ~In(Main, at)
  /\ pc' = "done"
  /\ UNCHANGED <<prog, module, at, call, cloning, replacing>>

Next ==
  \/ FindCaller \/ PassOver \/ FindCall \/ CloneInstruction \/ CloneTerminator
  \/ BeginUsers \/ ReplaceUse \/ EraseCall \/ Return

Spec == Init /\ [][Next]_vars

\* One thread runs the pass.
FairSpec == Spec /\ WF_vars(Next)
-----------------------------------------------------------------------------

TypeOK ==
  /\ prog \in Programs
  /\ pc \in {"caller", "undefined", "search", "clone", "users", "done"}
  /\ \A b \in Labels(prog) : Range(code[b]) \subseteq DOMAIN inst
  /\ DOMAIN inst \subseteq UNION {Range(code[b]) : b \in Labels(prog)}
  /\ pc \in {"clone", "users"} => InstrAt(Main, at) = call
  /\ use = NoUse \/ use \in Range(lists.call) \cup Range(lists.ret)

\* LLVM's rules for operands hold for main after every step: none is an
\* instruction or a parameter of the callee, a deleted call, or garbage, and
\* definitions come before uses.
OperandsInScope == Scoped(prog, code, inst)

\* "try to find which operand is the call": a step that replaces an operand
\* replaces the call, in a user of the call.
ReplacesTheCall ==
  \A n \in DOMAIN inst \cap DOMAIN inst' : \A k \in DOMAIN Ops(n) :
    Ops(n)[k] # inst'[n].ops[k] => Ops(n)[k] = call

OnlyTheCall == [][ReplacesTheCall]_vars

\* When main has a direct call, the pass returns, and none is left: those that
\* came with a callee's instructions have been inlined as well.
MainCalls(c, i) ==
  {n \in UNION {Range(c[b]) : b \in Range(Body(Main))} : CallsFunction(i[n])}

Termination ==
  MainCalls(prog.code, prog.inst) # {} => <>[](pc = "done" /\ MainCalls(code, inst) = {})
-----------------------------------------------------------------------------
(***************************************************************************)
(* The modules SsInline is right about.  The loop over the users of a call *)
(* mixes two use-lists: it needs a call with one use, and a returned value *)
(* with none but its return.  The callee is cloned in the order of its     *)
(* blocks, whatever the control flow.                                      *)
(***************************************************************************)

\* What the instruction at <<j, i>> of a callee may name: a parameter, a
\* constant, a function, or what an instruction cloned before it computes.
InCallee(p, f, v, j, i) ==
  \/ v \in Range(p.params[f]) \cup p.consts \cup Functions
  \/ \E b \in 1..j : \E m \in DOMAIN p.code[p.layout[f][b]] :
       (b < j \/ m < i) /\ p.code[p.layout[f][b]][m] = v /\ ~Terminates(p.inst[v])

CalleesInOrder(p) ==
  \A f \in Functions \ {Main} : \A j \in DOMAIN p.layout[f] : \A i \in DOMAIN p.code[p.layout[f][j]] :
    LET n == p.inst[p.code[p.layout[f][j]][i]]
    IN  \A k \in DOMAIN n.ops : \/ InCallee(p, f, n.ops[k], j, i)
                                \/ Terminates(n) /\ n.ops[k] \in Range(p.layout[f])

\* A function is only named to be called, with one argument per parameter.
FunctionsCalled(p) ==
  /\ \A f \in Functions : Range(p.params[f]) \cap Functions = {}
  /\ \A n \in DOMAIN p.inst : \A k \in DOMAIN p.inst[n].ops :
       p.inst[n].ops[k] \in Functions => p.inst[n].kind = "call" /\ k = Len(p.inst[n].ops)
  /\ \A n \in DOMAIN p.inst : CallsFunction(p.inst[n]) =>
       Len(p.inst[n].ops) = Len(p.params[Last(p.inst[n].ops)]) + 1

\* The instruction f ends with, and what it returns.
EndOf(p, f) == Last(p.code[Last(p.layout[f])])
Result(p, f) == p.inst[EndOf(p, f)].ops[1]

Returns(p, f) ==
  /\ p.layout[f] # <<>> /\ \A b \in Range(p.layout[f]) : p.code[b] # <<>>
  /\ p.inst[EndOf(p, f)].kind = "ret" /\ p.inst[EndOf(p, f)].ops # <<>>
  /\ Result(p, f) \in DOMAIN p.inst /\ UsesIn(p.inst, Result(p, f)) = {<<EndOf(p, f), 1>>}

UsedOnce(p) ==
  \A n \in DOMAIN p.inst : CallsFunction(p.inst[n]) =>
    /\ \A u, w \in UsesIn(p.inst, n) : u = w
    /\ UsesIn(p.inst, n) # {} => Returns(p, Last(p.inst[n].ops))

Inlinable(p) == CalleesInOrder(p) /\ FunctionsCalled(p) /\ UsedOnce(p)
=============================================================================
