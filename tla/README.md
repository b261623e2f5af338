# llvm-study: models and proofs

TLA+ models of the LLVM passes in this repository. `opt` loads each pass from a
shared object and runs it on one function or one module at a time. What is
modelled is what a pass does to the function: the walk it makes, the
instructions and blocks it creates, rewires and deletes, and the information it
keeps while it does so. LLVM itself is external; it appears through what the
code here assumes of it (dominator trees, `ValueMap`, `SplitBlock`,
`DeleteDeadBlock`, the entries of PHI nodes).

Nothing in the passes is concurrent, persistent or distributed (the program that
DynamicCallCounter instruments may have threads). What is hard is
the order of updates on a shared, cyclic data structure: a pointer read before
a rewrite and used after it, a map keyed by an instruction that was replaced, a
block merged into a block that is merged away in turn, a result of an analysis
that a transformation made obsolete, random choices and iteration orders that
differ between runs.

## Inventory

| Component | State | Operations | Status |
|---|---|---|---|
| RIV (`lib/RIV.cpp`) | `BBsToProcess`, `DefinedValuesMap`, `ResultMap`, the parent's copy | STEP 1, STEP 2, pop, update a child | modelled, proved |
| DuplicateBB (`lib/DuplicateBB.cpp`) | targets, `ReMapper`, three value maps, `ToRemove`, the function | find targets; split, clone an instruction, purge | modelled, proved in part |
| MergeBB (`lib/MergeBB.cpp`) | `DeleteList`, the function | compare and merge one block, delete one block | modelled, proved |
| SsSCCP (`SsSCCP/`) | alloca map and its copies, replace map, list of block pairs | gather, search, replace, fold branches, merge blocks | modelled |
| SsInline (`SsInline/`) | value map, use-lists, the caller | clone an instruction, replace a use, delete the call, repeat | modelled, proved in part |
| DynamicCallCounter (`lib/`) | globals of the module; counters at run time | instrument; load, add, store; report | modelled, proved |
| SsLoopVec (`SsLoopVec/`) | the loop's blocks | widen step, load, sum; horizontal sum | modelled |
| MBAAdd, MBASub (`lib/`) | the function, the iterator, the random numbers drawn | skip or substitute one instruction, report | modelled, proved |
| InjectFuncCall (`lib/`) | the entry blocks of the module | put a greeting into each definition | modelled, proved |
| StaticCallCounter (`lib/`, `tools/StaticMain.cpp`), OpcodeCounter (`lib/`) | a map per module, a map per function | count one function | modelled |
| Ratio, HelloWorld, build files | none | parse, print | not modelled |

How they interact: DuplicateBB asks the pass manager for RIV's result and keeps
using it while it changes the function; RIV and SsSCCP ask for LLVM's dominator
tree, SsLoopVec for its loops; MergeBB is made to undo what DuplicateBB did, in the same pipeline. What
one pass says it preserves decides what the next one is given from the cache.
InjectFuncCall and DynamicCallCounter both put code at the start of every
function, also of what the other one has added; StaticCallCounter and
OpcodeCounter see the module as it is at their place in the pipeline, and the
program that comes out at the end runs what all of them have left.

What makes each correct:

* RIV: the set of a block holds a value if and only if every path to the block
  has computed it.
* DuplicateBB: the program stays well formed (definitions dominate uses, one
  entry of a PHI per edge) and does the same work whatever the random choices.
* MergeBB: only blocks with the same operations are merged; the edges, the values
  that PHIs take over them and all uses of values survive.
* SsSCCP: a load becomes a constant only if the variable holds it on every path;
  SsInline: the call's value and effects are the callee's, and inlining ends;
  DynamicCallCounter: the counters say how often each function was entered;
  InjectFuncCall: a function greets once per call; StaticCallCounter and
  OpcodeCounter: their counts agree with each other and with the run;
  SsLoopVec: the sum is the scalar loop's; MBAAdd, MBASub: the value is that of
  the replaced instruction, in the width of its type.

The hard behaviours, each at its line, are the `hazards` of `PROJECT.json`. Where
the code gets one of them wrong on functions that a run leaves out, its `note`
says which.

## Modules

`CFG` is the control-flow graph of a function and dominance in terms of paths:
`Reachable` is membership in every set of blocks that is closed under the edges,
`Dominates` the same with a block removed. No recursion is involved, so that
proofs can use it. A function's entry block has no predecessors, and an
unreachable block dominates nothing: LLVM's rules. `LoopBlocks` is what LoopInfo
says of a header.

`ReachableValues` is what the RIV analysis promises: in one step, a map from the
reachable blocks to their visible values.

`RIV` is `RIV::buildRIV`. Its variables are the code's: `work` is
`BBsToProcess`, `defined` is `DefinedValuesMap`, `result` is `ResultMap` (a
function on the blocks that have been inserted, since `MapVector::operator[]`
inserts), `parentRIVs` the copy of the parent's set. `CollectDefs` is STEP 1,
`SeedEntry` STEP 2, `PopParent`, `UpdateChild`, `EndChildren` and `Return` the
loop of STEP 3. The order in which a dominator-tree node lists its children is
left open. `Abs` is the refinement mapping to `ReachableValues`: the answer is
unknown until the walk returns. `MCRIV` gives it a function.

`DuplicateBB` is the transformation, from the point where RIV's result is
available (`RIVResult`, the usable values that `RIV` is proved to compute, for
the function as it was found or, in a second run of the legacy pass manager, as
it is).
`SkipBlock` and `TakeBlock` are the loop of `findBBsToDuplicate`; `Split`,
`CloneVoid`, `CloneValue` and `EndClone` are `cloneBB`: the compare and the
split, one instruction of the tail without and with a value, the terminator and
the purge. `Leave` ends `run`, and starts the second run of a pipeline that
names the pass twice. An instruction is named by its value; a clone's name is
made of the original's, so that properties can ask where a value comes from.
`VMap` holds the keys as `ValueMap` does: replacing an instruction by a PHI
moves its entry to the PHI (`Rekey`), while `ReMapper`, a `std::map`, keeps the
old pointer. The head of a split block keeps the block's identity, and the PHIs
of its successors come to name the tail (`Moved`). `layout` is the function's
list of blocks, in which a split inserts three. The functions it may be given
are those the verifier accepts as far as the pass depends on it
(`ProgramAssumption`): the layout lists every block once and begins with the entry
block (`IsProgram`), every instruction is in one place (`InOnePlace`), PHIs and then
landing pads come first, and a PHI has an entry for each edge (`WellHeaded`).

`DuplicateThenMerge` composes the two transformations as
`-passes=duplicate-bb,merge-bb` does: `Duplicate` is a step of the first,
`StartMerge` gives the function to the second, `Merge` is a step of that one, an
instance of `MergeBB` whose blocks are the numbers of the layout. `Handed` only
renames: a block to its number, a value to the place of its definition. A clone
has the flags of its original (`Flagged`).

`MergeBB` is the transformation. `Candidates(b)` is the body of the loop of
`mergeDuplicatedBlock`: the blocks `b` may be merged into. The code takes the
first in the order of the successor's use-list, which the program does not
determine: the model takes any. `MergeNext` and `KeepNext` are one iteration of
the loop in `run`; `DeleteDeadBlock` one of the loop over the set `DeleteList`,
in any order. `LockstepReverseIterator` is `NonDbg` and `Identical`: two
sequences of equal length compared position by position. An instruction has its
poison-generating flags (nsw, fast-math) in a field of their own, `flags`, since
`isSameOperationAs` does not compare them (`SameOperation`). `into` is a history
variable: the block that now stands for each block of the input. A value is named
by the place that defines it, and `Undef`, no place, is what `replaceAllUsesWith`
leaves for the value of a deleted block. The functions it may be given are again
those of the verifier (`ProgramAssumption`): they use only what some place defines,
PHIs come first and have an entry for each edge, debug intrinsics use metadata only
and a branch to one block no value.

`Selection` has what both need of sequences, and `MBA` too: `Ascending`, the
members of a set of positions in order. Leaving out what is not wanted
(`NonDbg`, `Purge`, `Listed`) is indexing with it. It counts where one would recurse, so
that proofs can use it.

`Inline` is `SsInline::runOnModule` and `inlineOnce`. `PassOver` and `FindCall`
are the search for the first direct call of `main`; `CloneInstruction` and
`CloneTerminator` clone one instruction of the callee, with the parameters
replaced (`Subst`) and the clones made so far remapped (`Remap`); `ReplaceUse`
is one turn of the loop over `call->users()`; `EraseCall` deletes the call and
starts the next `inlineOnce` from the beginning. The loop runs on LLVM's
use-list, and `setOperand` takes the use it stands on out of that list and puts
it at the front of `RetVal`'s. So both lists are part of the state (`lists`), in
any order they may have had, and `NextUse` follows the list the use is on
*now*. `Behaviour` executes a function symbolically: its effects in order, with
their arguments as terms, and its result. It is recursive and used by TLC only.

`SCCP` is `SsSCCP::DoSCCP`. `GatherAlloca` is `SCCP_GatherAlloca` (with the store
of a constant that comes first in the text: uses are put in front of a use-list,
and the loop over it overwrites); `SearchDFS` copies the map for a child of the
root and takes out what its subtree stores to; `ReplaceBlock` is one block of
`SCCP_ReplaceAllocaWithConstantDFS`, `EraseLoads` the loop over `ReplaceMap`.
`SkipBlock` and `FoldBranch` are the loop over the blocks (steps 1 to 7),
`CopyInstruction` and `ReplaceBranch` that over `BBtoEmplace` (steps 8 to 10).
`Num` and `ConstantOf` are what happens to a constant on its way through an
`int`. Where the code would use an uninitialised pointer, a deleted block or an
erased instruction, or fail an assertion, `pc` is "fault". The dominator tree
`DT` is that of the function as it was, as in the code. `Execution` runs a
function on numbers, for one argument; it is recursive and used by TLC only.

`CallCounters` is `DynamicCallCounter::runOnModule`, then the program it has
instrumented. `SkipDeclaration`, `InjectCounter` and `DefineWrapper` are STEPS 1
to 5, `RunAgain` a pipeline that names the pass again: `printf_wrapper` exists
then, is instrumented like any function, and receives a block that nothing
branches to. The program calls and returns as it likes; the load and the store
of the injected code are actions of their own (`LoadCounter`, `StoreCounter`),
and `Exit`, `PrintCounter` and `NextDtor` are what the destructors do. The
functions come in any order, as do the entries of the `StringMap`.

`CallPasses` puts `CallCounters` into a pipeline with InjectFuncCall,
StaticCallCounter and OpcodeCounter, over a module whose functions have code: an
instruction is an opcode, a callee and who wrote it. `InjectGreeting`,
`CountDirectCalls` and `CountOpcodes` are what these passes do with one
function, `SkipFunction` with a declaration; `Instrument` is a step of
CallCounters' pass, with the instructions it writes (`Increment`, `Report`). In
the program, each frame stands on an instruction: `PrintGreeting` and
`CountCall` run what was put at the start of the function, in the order in which
it stands there, before `OwnStep` lets the function do anything; it calls what
its call sites name. `static-cc` stands for the tool on the module at that
point, or for the legacy pass with `-analyze`.

`MBA` is `runOnBasicBlock` and `run` of MBAAdd and MBASub, in a pipeline of the
two: `StartPass`, `StartBlock`, `EndBlock` and `EndPass` are the loop over the
blocks, `SkipOther`, `SkipDrawn`, `SubstituteAdd` and `SubstituteSub` the
iterations over their instructions. `AddSteps` and `SubSteps` are the expressions,
one operation after the other; `Build` is what IRBuilder makes of an operation
(a constant, if both operands are), and `Substitute` is `ReplaceInstWithInst`.
What is built for an instruction is named after it, its place in the expression and
the pass (`Id`), so that a property can tell what became of what. `Valid` is what
the verifier would accept: the code of each block and its instructions fit
together, and within a block nothing is used before it is defined.
The random numbers are any sequence of verdicts, the same one for every block,
since the generator is seeded in each. `MachineInts` is the arithmetic of LLVM's
integers, for `MBA`, `SCCP` and `Execution`; `and` and `xor` are defined bit by
bit for the eight bits mba-add uses them on.

`LoopVec` is `SsLoopVec::DoImpl`: `SkipFunction` and `FindLoops` are its start,
`PopLoop` and `GiveUp` find the parts of the last loop on the list, `ScaleStep` is
the change to the increment, `Widen` the vector load, `AddTmp` the variable for
the sums and what adds to it, `EraseLast` one iteration of the cleanup, `SumUp`
what is done behind the loop. Where the code uses a pointer that is null or was
never set (the exit block of a loop that two edges leave, `LEnd`), the model ends
in `pc = "crash"`. `VectorExecution` runs a function on
an array.

In the models of passes on one function, an instruction is a kind, its operands
and the incoming blocks of a PHI; types, names, metadata and, but for MergeBB and
MBA, flags are left out, or are part of the kind, where no property tells them
apart.

Definitions with a comment that begins with "Mutant", and those announced as
mutated forms in `RIV`, are not used by the specifications. Each is a slip the code might have,
and breaks a property of the run it is listed with in `PROJECT.json`.

## What TLC checks

| Run | Result | Bounds |
|---|---|---|
| `RIV` | passes | all 4096 graphs of four blocks, six instructions, three arguments and globals |
| `RIVInvoke` | violates `CanBeUsed` | the same, with an instruction taken for an invoke's result |
| `DuplicateThenMerge` | passes | eight functions of five blocks (up to 23 when duplicated), all context values |
| `DuplicateBBTwice` | violates `ContextAlive` | the same, with the pass twice in a pipeline of the new pass manager |
| `MergeBB` | passes | 11592 functions of five blocks |
| `Inline` | passes | a hundred modules with two calls in `main` |
| `InlineConstant` | violates `OnlyTheCall` | one module, a callee that returns a constant |
| `SCCP` | passes | four hundred functions of up to seven blocks |
| `SCCPJoin` | violates `SameBehaviour` | one of them, with a store on one side of a branch and a load behind it |
| `CallPasses` | passes | two definitions and printf, four programs, six pipelines of up to five passes, one or two threads |
| `MBA` | passes | 128 functions of two blocks, three pipelines of two passes, six pairs of arguments |
| `LoopVec` | passes | 433 functions of one or two loops, trip counts 0, 4 and 8 |

Four blocks have every dominator tree of up to three levels below the root,
joins, loops, irreducible loops and unreachable blocks. RIV treats each value on
its own, so one integer instruction per block and one of another type suffice.
`RIVSound` and `RIVComplete` say that the sets are right (while they grow, and
at the end), `SetOnce` that a set is final when it is inserted, which is why the
copy in `ParentRIVs` may be taken; `CanBeUsed` takes the integer of one block for
the result of an invoke that ends it, and finds it listed where control comes
over the unwind edge. `Termination` is checked under weak fairness
of the next step, which a single thread that never waits has. `AbsSpec` is the
refinement.

The functions of `MCDuplicateBB` are a diamond whose arms feed a PHI, a
one-block loop whose PHI takes the block's own value, a switch with two cases
for one block, an exception handler, and a function whose only integers are an
argument and a global, so that no context value is ever cloned: it is run
twice, and heads are split again. One more runs twice in a legacy pipeline,
where RIV is computed anew and lists the compare, the clones and the PHIs of the
first run. Two of them come with a second layout in
which blocks precede their dominators, so that a context is cloned both before
and after it is used. `UsesDominated` is LLVM's dominance rule, checked after
every single step of the cloning; `ContextAlive` says that the value about to
be compared is in the function, and fails in `DuplicateBBTwice`; `SameWork` follows every path through what
replaced a block and compares its instructions and operands with the original's;
`PhisPreserved` compares PHIs with edges, and with the original PHIs;
`HeadsFirst` keeps PHIs and landing pads in their place. Every duplicated
function is then given to MergeBB. `MergePromises` is what `MergeBB` is checked
for on functions of its own, here on functions with loops, landing pads and
heads of heads, and with the flags of the instructions compared; `ClonesMerged`
says which clones are merged back, no others and all of them: blocks without a value, with one, with two that are independent and
with a chain of two are among the functions.

The functions of `MCMergeBB` are an entry block, three blocks with all
combinations of six bodies, two of which differ in a flag only, and a join with all PHIs over what they compute, in
nine shapes: a switch, equal targets, chains, loops, an indirect branch.
`DeadUnreferenced` and `SameControl` follow merges into blocks that are merged
later; `WorkKept`, `SamePhiValue` and `NoUndef` say that what is retained does
what was deleted: the same operations always, with the same flags in the functions
in which no two blocks differ in flags only (`TwinsAgree`; in the others `SameWork`
fails, see below). `PhisMatchPreds` is LLVM's rule for the entries of a PHI, none
for a deleted block included. Three candidates are enough for a chain and for a
choice. The blocks to merge have no PHIs of their own here: with them the rule
fails (see below).

The modules of `MCInline` have two call sites in different blocks of `main`, and
at each a call of `f` (a store and a multiplication of its parameters), of `g`
(which calls `f` with the arguments swapped), of `v` (which returns nothing) or
of a pointer; the result is the first operand of an instruction, the last, or
unused. Two call sites are what it takes for the second search to begin before
code that was inlined, and for two inlinings of `f` to be told apart; `g` puts a
call into `main` that was not there. The bounds are also the class of modules
that the pass is right for: callees of one block, a result used once at most and
not a constant, no recursion, a `main` with a direct call. `OperandsInScope` is
LLVM's dominance rule after every step, `SameBehaviour` compares `main` with the
original between two inlinings, and `OnlyTheCall`, in `InlineConstant`, says that no
step rewrites anything but a use of the call: with `UsedOnce` it is a theorem. `Termination` says that the pass returns with no
direct call left; it is checked under weak fairness of the next step, since one
thread runs the pass and never waits.

The functions of `MCSCCP` branch on their parameter to `t` or to an inner
statement, an if or a loop on `va > vb`, and meet in `j`; each of the blocks reads
`va`, sets and reads it, counts `vc` up, or does nothing. `vb` is initialised with a
smaller, a larger or a negative constant or the parameter, and `vc` is of a type
wider than `int`. So the root has three children, one of them with a subtree in
which a store may come after a load in the text and before it in a loop; the
inner branch is folded to either side, or not. The functions left out are those
the pass gets wrong: a variable is not read behind a branch and set on one of its
sides, a comparison of constants is with sgt, and the successor that is not
taken has no other predecessor. `SameBehaviour` runs the function before and
after, for three arguments, whenever no step is half done; `OperandsDominate` is
LLVM's dominance rule after every step; `NoFault` says that no stale pointer is
used and no assertion fails.

The pipelines of `MCCallPasses` have `inject-func-call` before, between and behind
one or two runs of `dynamic-cc`, and the two passes that only count at the start,
between transformations and at the end, in both orders. In the programs, `main`
calls `f` by a call and an invoke, or through a pointer, or not at all, and `f`
calls itself. A counter has four values instead of 2^32 and a function is called
twice at most: with two runs of the pass a call counts twice, so that a counter
wraps. Three frames may be on a stack, and exit may be called anywhere.
`ReportExact` is about what a program with one thread prints: the last report
(two are printed when the pass has run twice) gives each function's calls, once
per run, modulo the width. `NoOvercount` says that threads may lose increments but
never invent one: no counter exceeds what the calls made so far are due, not even
when it has wrapped.
`GreetingsExact` says that a function greets once per call and run of
inject-func-call ("printed once per every function call", README), whatever was
put in front of it, and `printf_wrapper` for the runs that came after
dynamic-cc. `CountsAgree` relates the three ways to count: calls and invokes among
the opcodes are the direct calls and those through pointers, and a program
without pointers reports no function as called, `main` excepted, that has no
entry in the static result, wherever that was made.

The functions of `MCMBA` have three additions or subtractions in two blocks, of
parameters, of a parameter and -1 (which IRBuilder simplifies), of constants
(which it folds), of each other, of vectors, with and without nsw, in 8 or 16
bits. A pipeline of two passes lets the second one find what the first one
inserted; two blocks and two verdicts tell a generator that is seeded once from
one that is seeded in each block. `SelectedReplaced` says that exactly the
candidates selected are replaced, nothing that the pass itself inserted among
them, and that the others stay in their order; `TypeOK` includes that the function
remains `Valid`, so that no use of an erased instruction is left;
`PreservedIfUnchanged` that the pass manager may keep what it is told it may;
`SameValues` runs the function before and after, a marked overflow being
undefined. The arguments make carries run over all bits, over some and none; for
the rest there is the proof.

The functions of `MCLoopVec` have one loop, two loops one behind the other, or a
loop in a loop, with three forms of the condition, the constant of the increment
on either side, and four bodies (the operands of the addition swapped, the
element loaded twice, or copied to another variable first). The trip counts 0, 4
and 8 give no vector, one and two. They are the functions the pass is right for:
the step is one, the sum starts from zero, its variable is the first that is
loaded behind the loop, the trip count is a multiple of four, and a loop that is
entered again (an outer loop with a trip count above one) is not among them; with a
trip count of 5, or an outer one of 2, `SameResult` fails. `SameResult` runs the
function before and after on two arrays, between any two loops; in the first all
sums of elements differ, so that no element is left out or added twice; a place
outside the array makes the result undefined. `OperandsDominate` is LLVM's
dominance rule after every step, the cleanup instruction by instruction included.

Deadlock is not checked in any run: a pass that has returned does nothing more.

### Disagreements

* SsSCCP looks for stores in the subtree of each child of the root only: a load
  behind an if is replaced by the value from before it (`SsSCCP/SsSCCP.cpp:173`),
  though the comment says that values are proved to be constant.
* When the condition of an if without else is found to be true, SsSCCP deletes the
  block behind the if, and the body comes to branch to itself
  (`SsSCCP/SsSCCP.cpp:221`).
* The result of an invoke is listed by RIV for blocks that only the unwind edge
  reaches (`lib/RIV.cpp:67`), where it cannot be used; the README of the
  repository says the values "can be used" (`RIVInvoke`). `DuplicateBB` is therefore modelled
  on functions without invoke results.
* `DuplicateBB::run` reports all analyses preserved when it changed the
  function and none when it did not (`lib/DuplicateBB.cpp:263`). A second run
  in the same pipeline takes an erased instruction as its context.
* `assert(Updated)` in `MergeBB::replaceBB` fails when one terminator names the
  block twice (with `INVARIANT AssertUpdated` in `MCMergeBB.cfg`, TLC finds it at
  once). Without assertions the result is right: `SameControl` holds on the same
  functions.
* SsLoopVec returns false, and has all analyses preserved, when it has changed an
  inner loop and then meets the outer one (`SsLoopVec/SsLoopVec.cpp:53`).
* MergeBB compares instructions with `isSameOperationAs` (`lib/MergeBB.cpp:82`),
  which ignores nsw, nuw, exact, inbounds and fast-math flags: a block with an
  `add` is merged into one with an `add nsw`, whose result may be poison, though
  the comment at `lib/MergeBB.cpp:24` says that all instructions have to be
  identical. With `INVARIANT SameWork` in `MCMergeBB.cfg`, TLC finds two calls of
  which one has a flag.
* MergeBB merges blocks that begin with PHIs, and leaves the retained PHI
  without entries for the edges it has gained: two blocks with predecessors `e`
  and `x3` each, that begin with a PHI of the same two constants, are enough.
* MergeBB does not merge all clones of DuplicateBB "back together": one value
  that the block itself uses, or two values, are enough to keep both
  (`ClonesMerged`).
* In MergeBB, the condition on the predecessors of the block to retain has no
  effect: its `continue` belongs to the inner loop (`lib/MergeBB.cpp:193`).
* InjectFuncCall reports a module without definitions as unchanged after it has
  added a declaration and a global (`lib/InjectFuncCall.cpp:111`). If the module
  defines `printf` itself, the greeting in it calls it again without end; the
  models assume that it does not.
* The option for the ratio accepts `0.5x` and `nan` (`lib/Ratio.cpp:28`).
* The loop of SsInline over the users of a call moves on, after the first, to
  the users of the returned value, since `setOperand` has moved the use it
  stands on (`SsInline/SsInline.cpp:94`). A user of that value from another
  instruction has its last operand overwritten. For a value just cloned there
  is seldom one; a constant has all its users in the module. A second use of the
  call, for the same reason, is not reached.
* SsInline takes calls of declarations for calls to inline, and deletes them.
* The counters of DynamicCallCounter lose increments when the program has
  threads; the comment says that they are incremented every time.
* MBAAdd seeds its generator in every block: the k-th addition of each block is
  replaced or not like the k-th of every other, so that a ratio between 0 and 1
  is not the share of the additions replaced, and may be all or none.
* The counters of DynamicCallCounter count every call, through pointers and from outside as well; the
  repository's README and the report say "direct".

## What TLAPS proves

For every set of blocks and instructions, every graph and every tree that is its
dominator tree, from the assumptions that the entry block is a block
(`EntryAssumption`) and that instructions have a block and integer values are
values (`InputAssumption`):

* `RIVProofs`: `TypeCorrect`, `Soundness`, `Completeness`, `WrittenOnce` and
  `Implements`. The properties are not inductive. `IInv` adds that a set is
  *exactly* the usable values from the moment its block is inserted; that blocks
  on the stack and the parent have been inserted; that inserted blocks are
  closed under strict dominators; and that an uninserted child of an inserted
  block is still to come, because its parent is on the stack or is being
  visited (`MissingPending`). Exactness of a child follows from
  `DominatorChain`: its strict dominators are its parent and the parent's.
  Completeness is that an empty stack leaves nothing pending; its proof takes a
  missing block and moves up to a missing parent, which closure excludes.
  The facts about dominance come first in the module: reachability is the
  least closed set, dominance is transitive and antisymmetric, the strict
  dominators of a block are those of its immediate dominator and that one.

For every set of functions and every layout, from `BlocksAssumption` and
`ProgramAssumption` (finitely many blocks, terminators that name blocks other
than the entry block):

* `MergeBBProofs`: `TypeCorrect`, `NoReferenceToDead`, `ControlPreserved`,
  `WorkPreserved` (operations for every function, flags under `TwinsAgree`) and
  `NoUseOfDead`. `SameControl` speaks of the blocks that stand for others; to
  be inductive it needs that *all* terminators, those of merged blocks
  included, are the input's with targets replaced (`Redirected`), that a block
  ends as its representative does (`Twins`), and that no instruction changes
  while blocks are being compared (`Comparing`). `NoUndef` needs to know where the
  uses of a marked block's values are (`DeadUses`): in the block itself, or in a
  PHI of its successor, as the first entry for the block, which is the one that
  `removePredecessor` drops. While blocks are being compared such a value has one
  use at most (`UsedOnce`). So the block with that PHI is never merged away: its
  twin would need a PHI with the same operand, a second use.
  `PhiValuesKept` and `EntriesKept` need a hypothesis on the function, since
  both are false without it (see above): of two blocks that might be merged, neither
  has PHIs (`TwinsWithoutPhis`; `MCMergeBB` asserts it of its functions). The invariant
  behind them, `PhiInv`, says that every PHI stays where it was, that a block that
  stands for others or is stood for has none, and that a PHI has, at any
  moment, as many entries for a block as there are edges from it, none once the block
  is deleted. Then both twins have an entry in the PHI of their successor. The code
  takes two entries for the same when each is a value of its block, whatever the
  position; that they are at one position follows because a value so used has no other use
  and its counterpart in the other block, which has one too, must drop it in the same PHI.

For every function, every layout, all choices of context values and one or two
runs, from `SourceAssumption` and `ProgramAssumption`, and the hypothesis that the
names of blocks and values are not themselves tuples (`Opaque`: the model makes the
names of clones from pairs and those of new blocks from triples; the names in
`MCDuplicateBB` are model values):

* `DuplicateBBProofs`: `TypeCorrect`, `HeadsStayFirst`, `PhisStay`, `DominanceStays`,
  `ContextStays` and `WorkKept`. The first three follow from one invariant, `IInv`, with three ideas in it. First, no name is given
  twice: the counter in the name of a block or compare goes up with every block
  duplicated (`ValueName`, `BlockName`), a value that is still to be cloned has no
  clones yet (`Fresh`), and what is still to be split has only what the run found
  there (`PendingOld`). This is where the two runs of a legacy pipeline differ: the
  second one clones what the first one made. Second, the state in the middle of
  `cloneBB` (`CloneOK`): up to `IIT` the tail holds PHIs and instructions to be
  removed, from there on neither, so that the purge leaves the PHIs in front;
  and only the two new blocks branch to the tail (`Diamond`), so that its PHIs have
  the two entries they need. Third, a PHI of the function is the original
  one but for what stands for a block or a value (`KeepsPhi`): splitting moves its entries
  to the tail, and a use of a value that was cloned becomes a use of the clones' PHI.
  Each step of `cloneBB` is dealt with in two stages: what it makes of the function
  place by place (`SplitOf`, `CloneOf`, `EndOf`), then each part of the invariant from
  that.
  `DominanceStays` and `ContextStays` have two more hypotheses: the uses of the function
  that the pass is given are dominated (the verifier's rule; `MCDuplicateBB`'s are), and
  RIV answers for the function at hand (`FreshAnswers`; asserted of the functions of
  `DuplicateThenMerge`, denied of those of `DuplicateBBTwice`, where `ContextAlive` is
  violated). The invariant behind them, `DInv`, is about which
  blocks are reached when others are avoided. What the recursive function `Reached`
  computes is proved first, on any finite graph (`ReachedIs`): the least set
  that control comes to from the entry without passing through the blocks avoided. A split then
  leaves what was reached reached, with the tail instead of the head; the two new blocks
  are between them. `DInv` says that every operand is dominated where it
  stands (`Dominated`), that nobody uses what has no value (`OperandsOK`,
  `KindsOK`), that the context value of a block still to come, as `ReMapper` has it, is there
  before the block is entered (`ContextsOK`), which needs that nothing still to be
  cloned is in the map (`AheadOK`), and in `cloneBB` that each side block has
  the clones of all that the tail has before `IIT` (`VMapOK`): that is why an operand
  remapped in a clone is dominated by the clone it is remapped to, and one used elsewhere by the
  PHI in the tail.
  `WorkKept` states `SameWork`, which follows every path through what replaces a block. Its
  invariant, `WInv`, says the same of single blocks: each executes a stretch of
  the text of the block it was made from (`Covers`), and where it ends, the blocks it
  branches to go on, or control leaves for where the original went (`Works`); operands
  stand for those of the originals throughout (`InstsMirror`), and the maps of `cloneBB`
  take a value to one that stands for the same (`MapsOK`). The limits of the stretches
  and the rank by which the graph of new blocks has no cycle are not in the state,
  so `WInv` says that they exist and each step shows new ones: a split gives the tail the
  rest of the head's stretch, and cloning an instruction moves the limit between the side blocks and the
  tail by one. The rank also shows that the recursion of `Trails` is well-founded
  (`TrailsFix`), from which the trails are as the property wants them (`TrailsGood`).

For every module, every program, every width of the counters and every number of
runs of the pass, within any bounds on calls and depth, from
`FunctionsAssumption` (main is defined, and nobody else has a
`printf_wrapper`), `ThreadsAssumption`, `RegisterAssumption` and
`BoundsAssumption`:

* `CallCountersProofs`: `TypeCorrect`, `ReportCorrect` and `OvercountImpossible`. The inductive
  invariant says how often each function has been instrumented, run by run
  (`Instrumented`); that the first block of `printf_wrapper`, the only one that
  runs, prints the functions of the module as it was (`FirstBlock`); that only
  the top of a stack has increments to make (`LowerDone`); and, for one thread,
  that each counter is the number of calls, once per run, less what the top of
  the stack has still to add, and that a register that was loaded still agrees
  with its counter (`Counting`): this is what a second thread would break.
  `Printing` carries it over to what has been printed.
  `OvercountImpossible` is for any number of threads. There nothing is equal
  any more: the invariant bounds each counter, and each value that some thread has
  loaded, by the increments that the calls are due, less those that the tops of the
  threads' stacks have still to make (`Accounted`). A stale register was right
  when it was loaded, and that bound only grows.

For every module, every order of its functions, every pipeline and every program
with code, from `ModuleAssumption` (names are unique, definitions have code, `printf`
is declared) as well:

* `CallPassesProofs`: `ImplementsCallCounters`, `CountsHold` and
  `GreetingsCorrect`. The first is the refinement: every step of the pipeline and of
  the program with code is a step of `CallCounters` or leaves its state alone, so
  `CountsHold` has the three results above for the pipeline too. `GreetingsExact`
  needs an invariant on what stands in a function (`LaidOut`): greetings and
  whole increments in any order, then the function's own code, and control stands
  never inside an increment. The greetings printed by a call are then those behind
  which it stands, and the number of greetings in a function is the number
  of runs of inject-func-call that have visited it.

For every function, every pipeline and every sequence of verdicts, from
`ProgramAssumption`, `PipelinesAssumption`, `PeriodAssumption` and
`OpcodesAssumption`, and for `TypeCorrect` and `SelectionCorrect` the hypothesis that
the names in the functions are neither constants nor triples (`Opaque`: the model
makes the names of what is inserted from triples; those in `MCMBA` are model values):

* `MBAProofs`: `AddComputes`, `SubComputes`, `ReportCorrect`, `TypeCorrect` and
  `SelectionCorrect`. The first two say
  that whatever values a function computes, the last instruction of `AddSteps`
  has the sum of the operands, modulo 256, and that of `SubSteps` the difference,
  modulo any power of two. For mba-add the two facts are that a sum is the xor
  and twice the and (bit by bit, `SumOfXorAnd`), and that multiplying by 39 and by
  151 with the two constants is the identity (`AffineInverse`). That IRBuilder's
  folding preserves values is left to TLC. `ReportCorrect` needs that a pass that has not
  set `Changed` still sees the function it found (`Reported`). The other two follow
  from one invariant, `IInv`. What the walk has passed of a block is described by the
  places of the block as it was (`Walked`): a place that was selected has given way to
  what is named after its instruction, the others are where the order has them, and
  from the iterator on (`Cut` is where it stands in the old block) nothing has
  changed. No name inserted by this pass was there before, and it belongs to an
  instruction that is gone (`NamesFresh`), so the iterator never stands on one. The
  verdicts are counted over the candidates as they were: the number drawn is that of
  the candidates passed, whatever the substitutions inserted (`Progress`). For one
  substitution, `BeforeBuilds` unfolds the recursion of `Before`, `BeforeKeeps`
  says that whatever IRBuilder folds, each instruction built uses only what was there or
  was built before it, and `ReplacedValid` carries `Valid` over.

For every module whose parts have names of their own (`ProgramAssumption`: every
instruction in one place, main in scope to begin with and called by nobody), any
number of functions, calls and users, any order of the use-lists, and the
hypothesis that the values of the module are not named by pairs (`Opaque`: the
model makes the name of a clone from the instruction and the call; the names in
`MCInline` are model values):

* `InlineProofs`: `TypeCorrect`, `OperandsStayInScope` and `ReplacesOnlyTheCall`. The
  first holds for all these modules, those included for which the pass goes wrong.
  Its invariant, `Types`, says that no two clones have one name (`NamesApart`),
  where the call stands while its callee is put before it (`AtCall`), which part of the
  callee has been cloned (`Cloned`), and that the use-lists are sequences on one of which
  the iterator stands (`UseLists`). The other two are about the modules the pass is
  right for, `Inlinable`, which `MCInline` asserts of the modules of `Inline` and
  denies of that of `InlineConstant`: an instruction of a callee names a
  parameter, a constant or what stands before it in the text (`CalleesInOrder`),
  functions are called, with the right number of arguments, and not passed
  (`FunctionsCalled`), and a call has one use at most, and if it has one, the callee
  ends with a return of an instruction that nothing else uses (`UsedOnce`). The hypothesis speaks of the
  module as it was found, the theorems of every module the pass makes of it. So `Knows`
  carries it along: callees never change (`CalleesKept`), a clone that is a call is one of the
  same function (`Copies`), and uses of a clone are in clones of its users
  (`CopiesUsed`), hence one at most as well. None of the arguments of a call is itself a call
  that is to be deleted, because `inlineOnce` takes the first (`Searched`,
  `Arguments`): this is why a clone is not left naming a deleted value. In the loop
  over the users, the call's list has one use, that of `RetVal`
  is empty (`Users`), and after the replacement the iterator has nowhere to go.
  Recursion among the callees does not matter here, only for `Termination`.

Only model-checked:

* `Termination` of RIV and SsInline: fairness is out of the prover's reach.
* All `SameBehaviour`, `SameValues` and `SameResult`: they run the function with recursive
  operators (`Behaviour`, `Execution`, `VectorExecution`), which the prover does not take.
* `CountsAgree`: the result of opcode-counter is a fold over the code, which needs
  induction over data.
* The promises of MergeBB behind DuplicateBB (`MergePromises`, `ClonesMerged`):
  `MergeBBProofs` proves them of every function that meets `MergeBB`'s assumption; that
  what DuplicateBB leaves does is only checked.
* SsSCCP and SsLoopVec.

## Not modelled

Ratio is one call of `strtod` and two comparisons of floating-point numbers,
which TLA+ has no arithmetic for: MBA takes any verdicts instead. HelloWorld
prints a line per function. The registration of the passes, the printers and
the reading of files keep no state that a property could be about. Of LLVM,
only what the code here relies on is stated, and marked external. SsSCCP,
SsInline and SsLoopVec are modelled up to the point where they use an
uninitialised or stale pointer, and RIV, DuplicateBB and MergeBB on functions
whose invokes define nothing.

## Plan

All parts that keep state are modelled. What is left to prove, in this order:

1. That every graph has a dominator tree, so that `IsDomTree` in RIV's `Init`
   excludes no graph (every run starts from all of them).
2. That `EraseLast` leaves no use behind in LoopVec; the operands of SsSCCP.
