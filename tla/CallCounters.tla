---------------------------- MODULE CallCounters ----------------------------
(***************************************************************************)
(* DynamicCallCounter (lib/DynamicCallCounter.cpp): the pass over a module *)
(* and then the instrumented program, with the code the pass has injected: *)
(* load, add and store at the start of every function, and a destructor    *)
(* that prints the counters.  A pipeline may name the pass more than once. *)
(*                                                                         *)
(* The program is any program: a function calls any other and returns,     *)
(* some function may call exit, and there may be several threads.          *)
(***************************************************************************)
EXTENDS Naturals, Sequences, FiniteSets, SequencesExt

CONSTANTS Defined, Declared,   \* the functions of the module
          Main, Wrapper,       \* main and printf_wrapper
          NotLoaded,           \* a register that holds no value
          Threads, MainThread,
          ThreadSets,          \* the sets of threads that may run
          MaxCount,            \* the largest value of a counter: 2^32 - 1
          MaxRuns,             \* bound: how often a pipeline names the pass
          MaxCalls,            \* bound: calls of one function
          MaxDepth             \* bound: calls on the stack of a thread

\* The module defines main, and has no printf_wrapper of its own.
ASSUME FunctionsAssumption ==
  /\ Main \in Defined /\ Wrapper \notin Defined \cup Declared
  /\ Defined \cap Declared = {}

\* Every program has a main thread.
ASSUME ThreadsAssumption ==
  /\ ThreadSets \subseteq SUBSET Threads
  /\ \A ts \in ThreadSets : MainThread \in ts

ASSUME RegisterAssumption == NotLoaded \notin Nat

ASSUME BoundsAssumption ==
  MaxCount \in Nat /\ MaxRuns \in Nat \ {0} /\ MaxCalls \in Nat /\ MaxDepth \in Nat

VARIABLES pc,
          runs,         \* how often the pass is to run
          run,          \* which run of the pass this is
          todo,         \* functions the loop over M has not visited
          CallCounterMap,
          injected,     \* how often a function's entry increments its counter
          blocks,       \* printf_wrapper: what each of its blocks prints
          dtors,        \* entries for printf_wrapper in llvm.global_dtors
          threads,      \* the threads of the program
          stack,        \* of each thread: the function, increments to do, register
          counter,      \* CounterFor_F
          calls,        \* history: how often F was called
          toPrint,      \* counters that the printf_wrapper running has to print
          printed       \* the last value printed for F

module == <<todo, CallCounterMap, injected, blocks, dtors>>
program == <<threads, stack, counter, calls, toPrint, printed>>
vars == <<pc, runs, run, module, program>>

Counted == Defined \cup {Wrapper}
-----------------------------------------------------------------------------
(***************************************************************************)
(* The pass.                                                               *)
(***************************************************************************)
Init ==
  /\ pc = "instrument" /\ run = 1 /\ runs \in 1..MaxRuns
  /\ todo = Defined \cup Declared
  /\ CallCounterMap = {} /\ injected = [f \in Counted |-> 0]
  /\ blocks = <<>> /\ dtors = 0
  /\ threads \in ThreadSets
  /\ stack = [t \in Threads |-> <<>>]
  /\ counter = [f \in Counted |-> 0] /\ calls = [f \in Counted |-> 0]
  /\ toPrint = {} /\ printed = [f \in {} |-> 0]

\* STEP 1 for a declaration.
SkipDeclaration(F) ==
  /\ pc = "instrument" /\ F \in todo \cap Declared
  /\ todo' = todo \ {F}
  /\ UNCHANGED <<pc, runs, run, CallCounterMap, injected, blocks, dtors, program>>

\* STEP 1 for a definition: printf_wrapper is one from the second run on.
\* The counter exists already then, and keeps its initial value.
InjectCounter(F) ==
  /\ pc = "instrument" /\ F \in todo \ Declared
  /\ todo' = todo \ {F}
  /\ CallCounterMap' = CallCounterMap \cup {F}
  /\ injected' = [injected EXCEPT ![F] = @ + 1]
  /\ UNCHANGED <<pc, runs, run, blocks, dtors, program>>

\* STEPS 2 to 5: printf_wrapper is created or found, and a block appended.
DefineWrapper ==
  /\ pc = "instrument" /\ todo = {}
  /\ blocks' = Append(blocks, CallCounterMap)
  /\ dtors' = dtors + 1
  /\ pc' = IF run < runs THEN "again" ELSE "load"
  /\ UNCHANGED <<runs, run, todo, CallCounterMap, injected, program>>

\* The pass is run on its own output, with maps of its own.
RunAgain ==
  /\ pc = "again"
  /\ run' = run + 1
  /\ todo' = Defined \cup Declared \cup {Wrapper}
  /\ CallCounterMap' = {}
  /\ pc' = "instrument"
  /\ UNCHANGED <<runs, injected, blocks, dtors, program>>
-----------------------------------------------------------------------------
(***************************************************************************)
(* The instrumented program.                                               *)
(***************************************************************************)
Frame(f) == [func |-> f, left |-> injected[f], reg |-> NotLoaded]
Top(t) == Last(stack[t])

\* Thread t is in f and has counted its call.
InBody(t) == stack[t] # <<>> /\ Top(t).left = 0

Enter(t, f) ==
  /\ calls[f] < MaxCalls
  /\ stack' = [stack EXCEPT ![t] = Append(@, Frame(f))]
  /\ calls' = [calls EXCEPT ![f] = @ + 1]

\* Mutant: the increment is by two.
AddTwo(v) == (v + 2) % (MaxCount + 1)

\* Mutant: the addition does not wrap.
AddWide(v) == v + 1

\* add i32 1, %v
Add(v) == IF v = MaxCount THEN 0 ELSE v + 1

\* The program is loaded and main called.
Start ==
  /\ pc = "load" /\ Enter(MainThread, Main)
  /\ pc' = "run"
  /\ UNCHANGED <<runs, run, module, threads, counter, toPrint, printed>>

\* Another thread starts with a function of the module.
StartThread(t) ==
  /\ pc = "run" /\ t \in threads \ {MainThread} /\ stack[t] = <<>>
  /\ \E f \in Defined : Enter(t, f)
  /\ UNCHANGED <<pc, runs, run, module, threads, counter, toPrint, printed>>

\* %1 = load i32, i32* @CounterFor_F
LoadCounter(t) ==
  /\ stack[t] # <<>> /\ Top(t).left > 0 /\ Top(t).reg = NotLoaded
  /\ stack' = [stack EXCEPT ![t][Len(stack[t])].reg = counter[Top(t).func]]
  /\ UNCHANGED <<pc, runs, run, module, threads, counter, calls, toPrint, printed>>

\* %2 = add i32 1, %1 and store i32 %2, i32* @CounterFor_F
StoreCounter(t) ==
  /\ stack[t] # <<>> /\ Top(t).left > 0 /\ Top(t).reg # NotLoaded
  /\ counter' = [counter EXCEPT ![Top(t).func] = Add(Top(t).reg)]
  /\ stack' = [stack EXCEPT ![t][Len(stack[t])] =
                 [func |-> @.func, left |-> @.left - 1, reg |-> NotLoaded]]
  /\ UNCHANGED <<pc, runs, run, module, threads, calls, toPrint, printed>>

\* The function's own code: a call of a function of the module, directly or
\* through a pointer.
Call(t) ==
  /\ InBody(t) /\ Top(t).func # Wrapper /\ Len(stack[t]) < MaxDepth
  /\ \E f \in Defined : Enter(t, f)
  /\ UNCHANGED <<pc, runs, run, module, threads, counter, toPrint, printed>>

\* A return; when main's last frame goes, the program exits.
Return(t) ==
  /\ InBody(t) /\ Top(t).func # Wrapper /\ (Len(stack[t]) > 1 \/ t # MainThread)
  /\ stack' = [stack EXCEPT ![t] = Front(@)]
  /\ UNCHANGED <<pc, runs, run, module, threads, counter, calls, toPrint, printed>>

\* Mutant: the block added last is the one that runs.
LastBlock == blocks[Len(blocks)]

\* The entry block of printf_wrapper, the only one with a way to it.
EntryBlock == blocks[1]

\* main returns or a thread calls exit: the first destructor is called on
\* that thread.
Exit(t) ==
  /\ pc = "run" /\ InBody(t) /\ Enter(t, Wrapper)
  /\ pc' = "exit" /\ toPrint' = EntryBlock /\ dtors' = dtors - 1
  /\ UNCHANGED <<runs, run, todo, CallCounterMap, injected, blocks, threads, counter, printed>>

\* load i32, i32* @CounterFor_F and call @printf, in the order of a StringMap.
PrintCounter(t) ==
  /\ pc = "exit" /\ InBody(t) /\ Top(t).func = Wrapper
  /\ \E f \in toPrint :
       /\ printed' = [g \in DOMAIN printed \cup {f} |-> IF g = f THEN counter[f] ELSE printed[g]]
       /\ toPrint' = toPrint \ {f}
  /\ UNCHANGED <<pc, runs, run, module, threads, stack, counter, calls>>

\* printf_wrapper returns to the next destructor: the same function again.
NextDtor(t) ==
  /\ pc = "exit" /\ InBody(t) /\ Top(t).func = Wrapper /\ toPrint = {} /\ dtors > 0
  /\ calls[Wrapper] < MaxCalls
  /\ stack' = [stack EXCEPT ![t] = Append(Front(@), Frame(Wrapper))]
  /\ calls' = [calls EXCEPT ![Wrapper] = @ + 1]
  /\ toPrint' = EntryBlock /\ dtors' = dtors - 1
  /\ UNCHANGED <<pc, runs, run, todo, CallCounterMap, injected, blocks, threads, counter, printed>>

\* The process ends, and with it the other threads.
End(t) ==
  /\ pc = "exit" /\ InBody(t) /\ Top(t).func = Wrapper /\ toPrint = {} /\ dtors = 0
  /\ pc' = "done" /\ stack' = [s \in Threads |-> <<>>]
  /\ UNCHANGED <<runs, run, module, threads, counter, calls, toPrint, printed>>

Pass == (\E F \in Defined \cup Declared \cup {Wrapper} : SkipDeclaration(F) \/ InjectCounter(F))
        \/ DefineWrapper \/ RunAgain

Step(t) ==
  \/ StartThread(t) \/ LoadCounter(t) \/ StoreCounter(t) \/ Call(t) \/ Return(t)
  \/ Exit(t) \/ PrintCounter(t) \/ NextDtor(t) \/ End(t)

Next == Pass \/ Start \/ \E t \in Threads : Step(t)

Spec == Init /\ [][Next]_vars
-----------------------------------------------------------------------------
Frames == [func : Counted, left : 0..MaxRuns, reg : 0..MaxCount \cup {NotLoaded}]

TypeOK ==
  /\ pc \in {"instrument", "again", "load", "run", "exit", "done"}
  /\ runs \in 1..MaxRuns /\ run \in 1..runs
  /\ todo \subseteq Defined \cup Declared \cup {Wrapper}
  /\ CallCounterMap \subseteq Counted
  /\ injected \in [Counted -> 0..MaxRuns]
  /\ blocks \in Seq(SUBSET Counted) /\ dtors \in 0..MaxRuns
  /\ threads \in ThreadSets
  /\ stack \in [Threads -> Seq(Frames)]
  /\ counter \in [Counted -> 0..MaxCount] /\ calls \in [Counted -> 0..MaxCalls]
  /\ toPrint \subseteq Counted
  /\ DOMAIN printed \subseteq Counted /\ \A f \in DOMAIN printed : printed[f] \in 0..MaxCount

\* c is n in the width of the counters.
Wraps(c, n) == \E q \in 0..n : n = q * (MaxCount + 1) + c

SingleThread == threads = {MainThread}

\* When a program with one thread has ended, the value printed last for a
\* function is the number of its calls, once for every run of the pass, in
\* the width of the counter.  Every function defined in the module is listed,
\* and printf_wrapper is not, also when the pass has instrumented it.
ReportExact ==
  pc = "done" /\ SingleThread =>
    /\ DOMAIN printed = Defined
    /\ \A f \in Defined : Wraps(printed[f], runs * calls[f])

\* Several threads may lose an increment, but never invent one: no counter
\* exceeds what the calls made are due, and a counter that wraps is below it.
NoOvercount ==
  \A f \in Counted : counter[f] <= injected[f] * calls[f]
=============================================================================
