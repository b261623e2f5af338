------------------------- MODULE CallCountersProofs -------------------------
(***************************************************************************)
(* For every module, every program with one thread, every width of the     *)
(* counters and however often the pass is run: when the program has ended, *)
(* the values printed are the numbers of calls.  With any number of        *)
(* threads, a counter never exceeds the increments that the calls are due. *)
(*                                                                         *)
(* The invariant accounts for the increments that the function on top of   *)
(* the stack has yet to make.  A register that holds a value holds the     *)
(* counter's: this is what a second thread would break.                    *)
(***************************************************************************)
EXTENDS CallCounters, SequenceTheorems, FiniteSetTheorems, TLAPS

Passing == pc \in {"instrument", "again", "load"}

\* While the pass runs, a function has been instrumented by every completed
\* run, and by this one unless it is still to be visited.  Each run adds a
\* destructor.
Instrumented ==
  /\ \A f \in Counted : injected[f] <= IF pc = "instrument" /\ f \in todo THEN run - 1 ELSE run
  /\ \A f \in Defined : injected[f] = IF pc = "instrument" /\ f \in todo THEN run - 1 ELSE run
  /\ pc = "instrument" => dtors = run - 1
  /\ pc \in {"again", "load", "run"} => dtors = run
  /\ pc = "again" => run < runs
  /\ pc \notin {"instrument", "again"} => run = runs

\* printf_wrapper's first block prints the functions of the module as it was.
FirstBlock ==
  /\ blocks = <<>> => /\ pc = "instrument"
                      /\ CallCounterMap = Defined \ todo /\ todo \subseteq Defined \cup Declared
  /\ blocks # <<>> => blocks[1] = Defined

\* Before the program is started nothing has been called or printed.
NotStarted ==
  Passing => /\ \A t \in Threads : stack[t] = <<>>
             /\ \A f \in Counted : counter[f] = 0 /\ calls[f] = 0
             /\ DOMAIN printed = {}

\* Only the function on top of the stack has increments to make.
LowerDone ==
  \A t \in Threads : \A i \in 1..(Len(stack[t]) - 1) : stack[t][i].left = 0

\* The increments of F's counter that are still to be made.
Pending(f) ==
  IF stack[MainThread] # <<>> /\ Top(MainThread).func = f THEN Top(MainThread).left ELSE 0

\* With one thread: the other threads have no stack, a loaded register
\* holds the counter, and the counters are the calls but for what is pending.
Counting ==
  SingleThread /\ pc # "done" =>
    /\ \A t \in Threads \ {MainThread} : stack[t] = <<>>
    /\ stack[MainThread] # <<>> =>
         /\ Top(MainThread).left <= injected[Top(MainThread).func]
         /\ Top(MainThread).left > 0 /\ Top(MainThread).reg # NotLoaded =>
              Top(MainThread).reg = counter[Top(MainThread).func]
    /\ \A f \in Counted : /\ Pending(f) <= injected[f] * calls[f]
                          /\ Wraps(counter[f], injected[f] * calls[f] - Pending(f))

\* With one thread, printf_wrapper stays on top of the stack until the end,
\* and what it has printed are the counters.
Printing ==
  SingleThread =>
    /\ pc = "run" => DOMAIN printed = {}
    /\ pc = "exit" =>
         /\ stack[MainThread] # <<>> /\ Top(MainThread).func = Wrapper
         /\ DOMAIN printed \cup toPrint = Defined
         /\ \A f \in DOMAIN printed : printed[f] = counter[f]

\* The process has ended with all of its threads.
Ended == pc = "done" => \A t \in Threads : stack[t] = <<>>

IInv ==
  /\ TypeOK /\ Instrumented /\ FirstBlock
  /\ NotStarted /\ LowerDone /\ Counting /\ Printing /\ Ended /\ ReportExact
-----------------------------------------------------------------------------
USE FunctionsAssumption, ThreadsAssumption, RegisterAssumption, BoundsAssumption

\* What the frame pushed by a call looks like.
LEMMA FrameType ==
  ASSUME TypeOK, NEW f \in Counted
  PROVE  Frame(f) \in Frames
BY DEF TypeOK, Frame, Frames

\* The top of a stack is one of its frames.
LEMMA TopType ==
  ASSUME TypeOK, NEW t \in Threads, stack[t] # <<>>
  PROVE  /\ Top(t) \in Frames /\ Top(t) = stack[t][Len(stack[t])]
         /\ Len(stack[t]) \in Nat \ {0}
<1>1. stack[t] \in Seq(Frames)
  BY DEF TypeOK
<1>2. Len(stack[t]) \in Nat \ {0}
  BY <1>1, EmptySeq
<1> QED
  BY <1>1, <1>2, ElementOfSeq DEF Top, Last

\* main's thread is one of the threads.
LEMMA MainThreadType == ASSUME TypeOK PROVE MainThread \in Threads
BY DEF TypeOK

\* printf_wrapper is counted, but is no function of the module as it was.
LEMMA CountedTypes ==
  Defined \subseteq Counted /\ Main \in Counted /\ Wrapper \in Counted /\ Wrapper \notin Defined
BY DEF Counted

\* The addition stays within the width of a counter.
LEMMA AddType == ASSUME NEW v \in 0..MaxCount PROVE Add(v) \in 0..MaxCount
BY DEF Add

\* A call keeps the stacks and the number of calls well typed.
LEMMA EnterType ==
  ASSUME TypeOK, NEW t \in Threads, NEW f \in Counted, Enter(t, f)
  PROVE  stack' \in [Threads -> Seq(Frames)] /\ calls' \in [Counted -> 0..MaxCalls]
<1>1. stack[t] \in Seq(Frames) /\ Frame(f) \in Frames /\ calls[f] \in 0..MaxCalls
  BY FrameType DEF TypeOK
<1>2. Append(stack[t], Frame(f)) \in Seq(Frames)
  BY <1>1
<1>3. stack' \in [Threads -> Seq(Frames)]
  BY <1>2 DEF TypeOK, Enter
<1>4. MaxCalls \in Nat /\ calls[f] < MaxCalls
  BY BoundsAssumption DEF Enter
<1>5. calls[f] + 1 \in 0..MaxCalls
  BY <1>1, <1>4
<1>6. calls' \in [Counted -> 0..MaxCalls]
  BY <1>5 DEF TypeOK, Enter
<1> QED
  BY <1>3, <1>6

\* Before the pass has visited a function.
LEMMA InitInv == Init => IInv
<1> SUFFICES ASSUME Init PROVE IInv
  OBVIOUS
<1> USE DEF Init
<1>1. TypeOK
  BY DEF TypeOK, Counted
<1>2. Instrumented
  BY DEF Instrumented, Counted
<1>3. FirstBlock
  BY DEF FirstBlock
<1>4. NotStarted /\ LowerDone /\ Printing /\ Ended /\ ReportExact
  BY DEF NotStarted, LowerDone, Printing, Ended, ReportExact, Passing
<1>5. Counting
  BY <1>1, MainThreadType DEF Counting, Pending, Wraps, Counted
<1> QED
  BY <1>1, <1>2, <1>3, <1>4, <1>5 DEF IInv
-----------------------------------------------------------------------------
\* A frame pushed on a stack.
LEMMA Push ==
  ASSUME NEW s \in Seq(Frames), NEW e \in Frames
  PROVE  /\ Append(s, e) \in Seq(Frames) /\ Append(s, e) # <<>>
         /\ Len(Append(s, e)) = Len(s) + 1
         /\ Last(Append(s, e)) = e
         /\ \A i \in 1..Len(s) : Append(s, e)[i] = s[i]
<1>1. Append(s, e) \in Seq(Frames) /\ Len(Append(s, e)) = Len(s) + 1
  OBVIOUS
<1>2. Len(s) \in Nat
  OBVIOUS
<1> QED
  BY <1>1, <1>2, EmptySeq DEF Last

\* A frame popped.
LEMMA Pop ==
  ASSUME NEW s \in Seq(Frames), s # <<>>
  PROVE  /\ Front(s) \in Seq(Frames) /\ Len(Front(s)) = Len(s) - 1
         /\ \A i \in 1..(Len(s) - 1) : Front(s)[i] = s[i]
<1> DEFINE n == Len(s) - 1
<1>1. n \in Nat /\ Len(s) = n + 1
  BY EmptySeq
<1>2. \A i \in 1..n : s[i] \in Frames
  BY <1>1, ElementOfSeq
<1>3. Front(s) = SubSeq(s, 1, n)
  BY DEF Front
<1> HIDE DEF n
<1>4. /\ SubSeq(s, 1, n) \in Seq(Frames)
      /\ Len(SubSeq(s, 1, n)) = IF 1 <= n THEN n - 1 + 1 ELSE 0
      /\ \A i \in 1 .. n - 1 + 1 : SubSeq(s, 1, n)[i] = s[1 + i - 1]
  BY <1>1, <1>2, SubSeqProperties
<1> QED
  BY <1>1, <1>3, <1>4

\* LoadCounter and StoreCounter change the frame on top.
LEMMA SetTop ==
  ASSUME NEW s \in Seq(Frames), s # <<>>, NEW e \in Frames
  PROVE  /\ [s EXCEPT ![Len(s)] = e] \in Seq(Frames)
         /\ [s EXCEPT ![Len(s)] = e] # <<>>
         /\ Len([s EXCEPT ![Len(s)] = e]) = Len(s)
         /\ Last([s EXCEPT ![Len(s)] = e]) = e
         /\ \A i \in 1..(Len(s) - 1) : [s EXCEPT ![Len(s)] = e][i] = s[i]
<1> DEFINE n == Len(s)
<1>1. n \in Nat \ {0} /\ n = Len(s) /\ n \in 1..Len(s)
  BY EmptySeq
<1> HIDE DEF n
<1>2. /\ [s EXCEPT ![n] = e] \in Seq(Frames)
      /\ Len([s EXCEPT ![n] = e]) = Len(s)
      /\ \A j \in 1..Len(s) : [s EXCEPT ![n] = e][j] = IF j = n THEN e ELSE s[j]
  BY <1>1, ExceptSeq
<1>3. [s EXCEPT ![n] = e] # <<>>
  BY <1>1, <1>2, EmptySeq
<1> QED
  BY <1>1, <1>2, <1>3 DEF Last

\* The frame that LoadCounter leaves on top, and the one StoreCounter leaves.
Loaded(t) == [Top(t) EXCEPT !.reg = counter[Top(t).func]]
Stored(t) == [func |-> Top(t).func, left |-> Top(t).left - 1, reg |-> NotLoaded]

\* A load replaces the frame on top of the stack.
LEMMA LoadStack ==
  ASSUME TypeOK, NEW t \in Threads, LoadCounter(t)
  PROVE  /\ Loaded(t) \in Frames
         /\ stack' = [stack EXCEPT ![t] = [stack[t] EXCEPT ![Len(stack[t])] = Loaded(t)]]
<1>1. Top(t) \in Frames /\ Top(t) = stack[t][Len(stack[t])]
  BY TopType DEF LoadCounter
<1>2. counter[Top(t).func] \in 0..MaxCount
  BY <1>1 DEF TypeOK, Frames
<1> QED
  BY <1>1, <1>2 DEF Loaded, LoadCounter, Frames

\* A store replaces the frame on top of the stack, and adds to a number.
LEMMA StoreStack ==
  ASSUME TypeOK, NEW t \in Threads, StoreCounter(t)
  PROVE  /\ Stored(t) \in Frames
         /\ stack' = [stack EXCEPT ![t] = [stack[t] EXCEPT ![Len(stack[t])] = Stored(t)]]
         /\ Top(t).reg \in 0..MaxCount
<1>1. Top(t) \in Frames /\ Top(t) = stack[t][Len(stack[t])]
  BY TopType DEF StoreCounter
<1>2. Top(t).left - 1 \in 0..MaxRuns /\ Top(t).reg \in 0..MaxCount
  BY <1>1 DEF StoreCounter, Frames
<1> QED
  BY <1>1, <1>2 DEF Stored, StoreCounter, Frames
-----------------------------------------------------------------------------
\* A load keeps the stacks well typed.
LEMMA LoadType ==
  ASSUME TypeOK, NEW t \in Threads, LoadCounter(t)
  PROVE  stack' \in [Threads -> Seq(Frames)]
<1>1. stack \in [Threads -> Seq(Frames)] /\ stack[t] \in Seq(Frames) /\ stack[t] # <<>>
  BY DEF TypeOK, LoadCounter
<1>2. [stack[t] EXCEPT ![Len(stack[t])] = Loaded(t)] \in Seq(Frames)
  BY <1>1, LoadStack, SetTop
<1>3. stack' = [stack EXCEPT ![t] = [stack[t] EXCEPT ![Len(stack[t])] = Loaded(t)]]
  BY LoadStack
<1> QED
  BY <1>1, <1>2, <1>3

\* A store keeps the stacks well typed.
LEMMA StoreType ==
  ASSUME TypeOK, NEW t \in Threads, StoreCounter(t)
  PROVE  stack' \in [Threads -> Seq(Frames)]
<1>1. stack \in [Threads -> Seq(Frames)] /\ stack[t] \in Seq(Frames) /\ stack[t] # <<>>
  BY DEF TypeOK, StoreCounter
<1>2. [stack[t] EXCEPT ![Len(stack[t])] = Stored(t)] \in Seq(Frames)
  BY <1>1, StoreStack, SetTop
<1>3. stack' = [stack EXCEPT ![t] = [stack[t] EXCEPT ![Len(stack[t])] = Stored(t)]]
  BY StoreStack
<1> QED
  BY <1>1, <1>2, <1>3

\* Once the pass is through, the entry block of printf_wrapper prints the
\* functions of the module.
LEMMA EntryBlockType ==
  ASSUME FirstBlock, pc # "instrument"
  PROVE  EntryBlock = Defined
BY DEF FirstBlock, EntryBlock

\* No step of the pass or of the program leaves the types.
LEMMA TypeStep ==
  ASSUME TypeOK, Instrumented, FirstBlock, [Next]_vars
  PROVE  TypeOK'
<1> USE DEF TypeOK
<1>1. ASSUME NEW F \in Defined \cup Declared \cup {Wrapper}, SkipDeclaration(F)
      PROVE  TypeOK'
  BY <1>1 DEF SkipDeclaration, program
<1>2. ASSUME NEW F \in Defined \cup Declared \cup {Wrapper}, InjectCounter(F)
      PROVE  TypeOK'
  <2>1. F \in Counted
    BY <1>2 DEF InjectCounter, Counted
  <2>2. injected[F] <= run - 1
    BY <1>2, <2>1 DEF InjectCounter, Instrumented
  <2>3. injected' \in [Counted -> 0..MaxRuns]
    BY <1>2, <2>1, <2>2 DEF InjectCounter
  <2> QED
    BY <1>2, <2>1, <2>3 DEF InjectCounter, program
<1>3. CASE DefineWrapper
  <2>1. blocks' \in Seq(SUBSET Counted)
    BY <1>3 DEF DefineWrapper
  <2>2. dtors' \in 0..MaxRuns
    BY <1>3 DEF DefineWrapper, Instrumented
  <2> QED
    BY <1>3, <2>1, <2>2 DEF DefineWrapper, program
<1>4. CASE RunAgain
  BY <1>4 DEF RunAgain, Instrumented, program
<1>5. CASE Start
  BY <1>5, MainThreadType, CountedTypes, EnterType DEF Start, module
<1>6. ASSUME NEW t \in Threads, StartThread(t)
      PROVE  TypeOK'
  BY <1>6, CountedTypes, EnterType DEF StartThread, module
<1>7. ASSUME NEW t \in Threads, LoadCounter(t)
      PROVE  TypeOK'
  <2>1. stack' \in [Threads -> Seq(Frames)]
    BY <1>7, LoadType
  <2> QED
    BY <1>7, <2>1 DEF LoadCounter, module
<1>8. ASSUME NEW t \in Threads, StoreCounter(t)
      PROVE  TypeOK'
  <2>1. stack' \in [Threads -> Seq(Frames)]
    BY <1>8, StoreType
  <2>2. counter' \in [Counted -> 0..MaxCount]
    BY <1>8, StoreStack, AddType DEF StoreCounter
  <2> QED
    BY <1>8, <2>1, <2>2 DEF StoreCounter, module
<1>9. ASSUME NEW t \in Threads, Call(t)
      PROVE  TypeOK'
  BY <1>9, CountedTypes, EnterType DEF Call, module
<1>10. ASSUME NEW t \in Threads, Return(t)
       PROVE  TypeOK'
  <2>1. stack' \in [Threads -> Seq(Frames)]
    BY <1>10, Pop DEF Return, InBody
  <2> QED
    BY <1>10, <2>1 DEF Return, module
<1>11. ASSUME NEW t \in Threads, Exit(t)
       PROVE  TypeOK'
  <2>1. stack' \in [Threads -> Seq(Frames)] /\ calls' \in [Counted -> 0..MaxCalls]
    BY <1>11, CountedTypes, EnterType DEF Exit
  <2>2. dtors = run
    BY <1>11 DEF Exit, Instrumented
  <2>3. EntryBlock \subseteq Counted
    BY <1>11, EntryBlockType, CountedTypes DEF Exit
  <2> QED
    BY <1>11, <2>1, <2>2, <2>3 DEF Exit
<1>12. ASSUME NEW t \in Threads, PrintCounter(t)
       PROVE  TypeOK'
  BY <1>12 DEF PrintCounter, module
<1>13. ASSUME NEW t \in Threads, NextDtor(t)
       PROVE  TypeOK'
  <2>1. Front(stack[t]) \in Seq(Frames) /\ Frame(Wrapper) \in Frames
    BY <1>13, Pop, CountedTypes, FrameType DEF NextDtor, InBody
  <2>2. stack' \in [Threads -> Seq(Frames)]
    BY <1>13, <2>1, Push DEF NextDtor
  <2>3. EntryBlock \subseteq Counted
    BY <1>13, EntryBlockType, CountedTypes DEF NextDtor
  <2>4. calls' \in [Counted -> 0..MaxCalls]
    <3>1. calls[Wrapper] < MaxCalls /\ calls' = [calls EXCEPT ![Wrapper] = @ + 1]
      BY <1>13 DEF NextDtor
    <3>2. calls[Wrapper] + 1 \in 0..MaxCalls
      BY <3>1, CountedTypes, BoundsAssumption
    <3> QED
      BY <3>1, <3>2
  <2>5. /\ toPrint' = EntryBlock /\ dtors > 0 /\ dtors' = dtors - 1
        /\ UNCHANGED <<pc, runs, run, todo, CallCounterMap, injected, blocks>>
        /\ UNCHANGED <<threads, counter, printed>>
    BY <1>13 DEF NextDtor
  <2> QED
    BY <2>2, <2>3, <2>4, <2>5
<1>14. ASSUME NEW t \in Threads, End(t)
       PROVE  TypeOK'
  BY <1>14, EmptySeq DEF End, module
<1>15. CASE UNCHANGED vars
  BY <1>15 DEF vars, module, program
<1> QED
  BY <1>1, <1>2, <1>3, <1>4, <1>5, <1>6, <1>7, <1>8, <1>9, <1>10, <1>11, <1>12, <1>13,
     <1>14, <1>15 DEF Next, Pass, Step
-----------------------------------------------------------------------------
\* What the instrumented program leaves alone.
LEMMA StepFrame ==
  ASSUME NEW t \in Threads, Step(t)
  PROVE  /\ UNCHANGED <<runs, run, todo, CallCounterMap, injected, blocks, threads>>
BY DEF Step, StartThread, LoadCounter, StoreCounter, Call, Return, Exit, PrintCounter, NextDtor,
       End, module

\* Each run of the pass instruments every function it finds once.
LEMMA InstrumentedStep ==
  ASSUME TypeOK, Instrumented, [Next]_vars
  PROVE  Instrumented'
<1> USE DEF Instrumented
<1>1. ASSUME NEW F \in Defined \cup Declared \cup {Wrapper}, SkipDeclaration(F)
      PROVE  Instrumented'
  <2>1. F \notin Counted
    BY <1>1 DEF SkipDeclaration, Counted
  <2> QED
    BY <1>1, <2>1, CountedTypes DEF SkipDeclaration
<1>2. ASSUME NEW F \in Defined \cup Declared \cup {Wrapper}, InjectCounter(F)
      PROVE  Instrumented'
  <2>1. F \in Counted /\ injected \in [Counted -> 0..MaxRuns]
    BY <1>2 DEF InjectCounter, Counted, TypeOK
  <2>2. run \in Nat
    BY DEF TypeOK
  <2> QED
    BY <1>2, <2>1, <2>2, CountedTypes DEF InjectCounter
<1>3. CASE DefineWrapper
  <2>1. pc' = IF run < runs THEN "again" ELSE "load"
    BY <1>3 DEF DefineWrapper
  <2>2. run \in 1..runs /\ runs \in Nat
    BY DEF TypeOK
  <2> QED
    BY <1>3, <2>1, <2>2 DEF DefineWrapper
<1>4. CASE RunAgain
  <2>1. run \in Nat /\ pc' = "instrument" /\ run' = run + 1
    BY <1>4 DEF RunAgain, TypeOK
  <2>2. \A f \in Counted : f \in todo'
    BY <1>4 DEF RunAgain, Counted
  <2>3. \A f \in Counted : injected[f] <= run /\ injected' = injected
    BY <1>4 DEF RunAgain
  <2> QED
    BY <1>4, <2>1, <2>2, <2>3, CountedTypes DEF RunAgain
<1>5. CASE Start
  BY <1>5 DEF Start, module
<1>6. ASSUME NEW t \in Threads, Step(t)
      PROVE  Instrumented'
  <2>2. \/ UNCHANGED <<pc, dtors>>
        \/ pc' \in {"exit", "done"} /\ pc \in {"run", "exit"}
    BY <1>6 DEF Step, StartThread, LoadCounter, StoreCounter, Call, Return, Exit, PrintCounter,
                NextDtor, End, module
  <2>3. UNCHANGED <<runs, run, todo, injected>>
    BY <1>6, StepFrame
  <2> QED
    BY <2>2, <2>3
<1>7. CASE UNCHANGED vars
  BY <1>7 DEF vars, module
<1> QED
  BY <1>1, <1>2, <1>3, <1>4, <1>5, <1>6, <1>7 DEF Next, Pass

\* A later run of the pass does not touch the block that prints.
LEMMA FirstBlockStep ==
  ASSUME TypeOK, FirstBlock, [Next]_vars
  PROVE  FirstBlock'
<1> USE DEF FirstBlock
<1>1. ASSUME NEW F \in Defined \cup Declared \cup {Wrapper}, SkipDeclaration(F)
      PROVE  FirstBlock'
  BY <1>1 DEF SkipDeclaration
<1>2. ASSUME NEW F \in Defined \cup Declared \cup {Wrapper}, InjectCounter(F)
      PROVE  FirstBlock'
  BY <1>2 DEF InjectCounter
<1>3. CASE DefineWrapper
  <2>1. blocks \in Seq(SUBSET Counted) /\ CallCounterMap \in SUBSET Counted
    BY DEF TypeOK
  <2>2. blocks' = Append(blocks, CallCounterMap) /\ todo = {}
    BY <1>3 DEF DefineWrapper
  <2>3. blocks' # <<>>
    BY <2>1, <2>2
  <2>4. CASE blocks = <<>>
    BY <2>2, <2>3, <2>4
  <2>5. CASE blocks # <<>>
    <3>1. Len(blocks) \in Nat \ {0}
      BY <2>1, <2>5, EmptySeq
    <3>2. blocks'[1] = blocks[1]
      BY <2>1, <2>2, <3>1
    <3> QED
      BY <2>3, <2>5, <3>2
  <2> QED
    BY <2>4, <2>5
<1>4. CASE RunAgain
  BY <1>4 DEF RunAgain
<1>5. CASE Start
  BY <1>5 DEF Start, module
<1>6. ASSUME NEW t \in Threads, Step(t)
      PROVE  FirstBlock'
  <2>1. pc # "instrument" => pc' # "instrument"
    BY <1>6 DEF Step, StartThread, LoadCounter, StoreCounter, Call, Return, Exit, PrintCounter,
                NextDtor, End
  <2>2. pc = "instrument" => UNCHANGED pc
    BY <1>6 DEF Step, StartThread, LoadCounter, StoreCounter, Call, Return, Exit, PrintCounter,
                NextDtor, End
  <2> QED
    BY <1>6, <2>1, <2>2, StepFrame
<1>7. CASE UNCHANGED vars
  BY <1>7 DEF vars, module
<1> QED
  BY <1>1, <1>2, <1>3, <1>4, <1>5, <1>6, <1>7 DEF Next, Pass
-----------------------------------------------------------------------------
\* No step of the program is possible before it is started.
LEMMA StepStarted ==
  ASSUME NotStarted, NEW t \in Threads, Step(t)
  PROVE  ~Passing /\ ~Passing'
BY DEF NotStarted, Passing, Step, StartThread, LoadCounter, StoreCounter, Call, Return, Exit,
       PrintCounter, NextDtor, End, InBody

\* The pass does not touch the program's state.
LEMMA NotStartedStep ==
  ASSUME NotStarted, [Next]_vars
  PROVE  NotStarted'
<1>1. ASSUME NEW F \in Defined \cup Declared \cup {Wrapper}, SkipDeclaration(F) \/ InjectCounter(F)
      PROVE  NotStarted'
  BY <1>1 DEF SkipDeclaration, InjectCounter, NotStarted, Passing, program
<1>2. CASE DefineWrapper \/ RunAgain
  BY <1>2 DEF DefineWrapper, RunAgain, NotStarted, Passing, program
<1>3. CASE Start
  BY <1>3 DEF Start, NotStarted, Passing
<1>4. CASE \E t \in Threads : Step(t)
  BY <1>4, StepStarted DEF NotStarted
<1>5. CASE UNCHANGED vars
  BY <1>5 DEF vars, NotStarted, Passing, program
<1> QED
  BY <1>1, <1>2, <1>3, <1>4, <1>5 DEF Next, Pass

\* All frames of a stack whose top has nothing left to do are done.
LEMMA AllDone ==
  ASSUME TypeOK, LowerDone, NEW t \in Threads, stack[t] = <<>> \/ InBody(t)
  PROVE  \A i \in 1..Len(stack[t]) : stack[t][i].left = 0
<1>1. stack[t] \in Seq(Frames) /\ Len(stack[t]) \in Nat
  BY DEF TypeOK
<1>2. CASE stack[t] = <<>>
  BY <1>2
<1>3. CASE InBody(t)
  <2>1. stack[t][Len(stack[t])].left = 0
    BY <1>3, TopType DEF InBody
  <2> QED
    BY <1>1, <2>1 DEF LowerDone
<1> QED
  BY <1>2, <1>3

\* A frame pushed on frames that are done.
LEMMA PushDone ==
  ASSUME TypeOK, LowerDone, NEW t \in Threads, NEW s \in Seq(Frames), NEW e \in Frames,
         \A i \in 1..Len(s) : s[i].left = 0,
         stack' = [stack EXCEPT ![t] = Append(s, e)]
  PROVE  LowerDone'
<1>1. Len(Append(s, e)) = Len(s) + 1 /\ \A i \in 1..Len(s) : Append(s, e)[i] = s[i]
  BY Push
<1>2. Len(s) \in Nat
  OBVIOUS
<1>3. stack'[t] = Append(s, e) /\ \A u \in Threads \ {t} : stack'[u] = stack[u]
  BY DEF TypeOK
<1>4. \A i \in 1..(Len(stack'[t]) - 1) : stack'[t][i].left = 0
  BY <1>1, <1>2, <1>3
<1> QED
  BY <1>3, <1>4 DEF LowerDone

\* A function calls only after it has counted its own call.
LEMMA EnterDone ==
  ASSUME TypeOK, LowerDone, NEW t \in Threads, stack[t] = <<>> \/ InBody(t),
         NEW f \in Counted, Enter(t, f)
  PROVE  LowerDone'
<1>1. stack[t] \in Seq(Frames) /\ Frame(f) \in Frames
  BY FrameType DEF TypeOK
<1>2. stack' = [stack EXCEPT ![t] = Append(stack[t], Frame(f))]
  BY DEF Enter
<1> QED
  BY <1>1, <1>2, AllDone, PushDone

\* A load or a store changes only the frame on top.
LEMMA SetTopDone ==
  ASSUME TypeOK, LowerDone, NEW t \in Threads, stack[t] # <<>>, NEW e \in Frames,
         stack' = [stack EXCEPT ![t] = [stack[t] EXCEPT ![Len(stack[t])] = e]]
  PROVE  LowerDone'
<1> DEFINE s == [stack[t] EXCEPT ![Len(stack[t])] = e]
<1>1. stack[t] \in Seq(Frames)
  BY DEF TypeOK
<1>2. Len(s) = Len(stack[t]) /\ \A i \in 1..(Len(stack[t]) - 1) : s[i] = stack[t][i]
  BY <1>1, SetTop
<1>3. stack'[t] = s /\ \A u \in Threads \ {t} : stack'[u] = stack[u]
  BY DEF TypeOK
<1> HIDE DEF s
<1>4. \A i \in 1..(Len(stack'[t]) - 1) : stack'[t][i].left = 0
  BY <1>2, <1>3 DEF LowerDone
<1> QED
  BY <1>3, <1>4 DEF LowerDone

\* No step leaves increments to make below the top of a stack.
LEMMA LowerDoneStep ==
  ASSUME TypeOK, NotStarted, LowerDone, [Next]_vars
  PROVE  LowerDone'
<1>1. ASSUME UNCHANGED stack
      PROVE  LowerDone'
  BY <1>1 DEF LowerDone
<1>2. CASE Pass
  BY <1>1, <1>2 DEF Pass, SkipDeclaration, InjectCounter, DefineWrapper, RunAgain, program
<1>3. CASE Start
  <2>1. stack[MainThread] = <<>>
    BY <1>3, MainThreadType DEF Start, NotStarted, Passing
  <2> QED
    BY <1>3, <2>1, MainThreadType, CountedTypes, EnterDone DEF Start
<1>4. ASSUME NEW t \in Threads, StartThread(t) \/ Call(t) \/ Exit(t)
      PROVE  LowerDone'
  BY <1>4, CountedTypes, EnterDone DEF StartThread, Call, Exit
<1>5. ASSUME NEW t \in Threads, LoadCounter(t)
      PROVE  LowerDone'
  <2>1. stack[t] # <<>>
    BY <1>5 DEF LoadCounter
  <2> QED
    BY <1>5, <2>1, LoadStack, SetTopDone
<1>6. ASSUME NEW t \in Threads, StoreCounter(t)
      PROVE  LowerDone'
  <2>1. stack[t] # <<>>
    BY <1>6 DEF StoreCounter
  <2> QED
    BY <1>6, <2>1, StoreStack, SetTopDone
<1>7. ASSUME NEW t \in Threads, Return(t)
      PROVE  LowerDone'
  <2>1. stack[t] \in Seq(Frames) /\ stack[t] # <<>> /\ Len(stack[t]) \in Nat
    BY <1>7 DEF Return, InBody, TypeOK
  <2>2. /\ Len(Front(stack[t])) = Len(stack[t]) - 1
        /\ \A i \in 1..(Len(stack[t]) - 1) : Front(stack[t])[i] = stack[t][i]
    BY <2>1, Pop
  <2>3. stack'[t] = Front(stack[t]) /\ \A u \in Threads \ {t} : stack'[u] = stack[u]
    BY <1>7 DEF Return, TypeOK
  <2>4. \A i \in 1..(Len(stack'[t]) - 1) : stack'[t][i].left = 0
    BY <2>1, <2>2, <2>3 DEF LowerDone
  <2> QED
    BY <2>3, <2>4 DEF LowerDone
<1>8. ASSUME NEW t \in Threads, NextDtor(t)
      PROVE  LowerDone'
  <2>1. stack[t] \in Seq(Frames) /\ stack[t] # <<>> /\ Len(stack[t]) \in Nat
    BY <1>8 DEF NextDtor, InBody, TypeOK
  <2>2. /\ Front(stack[t]) \in Seq(Frames) /\ Len(Front(stack[t])) = Len(stack[t]) - 1
        /\ \A i \in 1..(Len(stack[t]) - 1) : Front(stack[t])[i] = stack[t][i]
    BY <2>1, Pop
  <2>3. \A i \in 1..Len(Front(stack[t])) : Front(stack[t])[i].left = 0
    BY <2>2 DEF LowerDone
  <2>4. Frame(Wrapper) \in Frames
    BY CountedTypes, FrameType
  <2>5. stack' = [stack EXCEPT ![t] = Append(Front(stack[t]), Frame(Wrapper))]
    BY <1>8 DEF NextDtor
  <2> QED
    BY <2>2, <2>3, <2>4, <2>5, PushDone
<1>9. ASSUME NEW t \in Threads, PrintCounter(t)
      PROVE  LowerDone'
  BY <1>1, <1>9 DEF PrintCounter
<1>10. ASSUME NEW t \in Threads, End(t)
       PROVE  LowerDone'
  BY <1>10 DEF End, LowerDone
<1>11. CASE UNCHANGED vars
  BY <1>1, <1>11 DEF vars, program
<1> QED
  BY <1>2, <1>3, <1>4, <1>5, <1>6, <1>7, <1>8, <1>9, <1>10, <1>11 DEF Next, Step
-----------------------------------------------------------------------------
\* One more increment counts one more call, in the width of the counter.
LEMMA WrapsAdd ==
  ASSUME NEW c \in 0..MaxCount, NEW n \in Nat, Wraps(c, n)
  PROVE  Wraps(Add(c), n + 1)
<1>1. PICK q \in 0..n : n = q * (MaxCount + 1) + c
  BY DEF Wraps
<1>2. CASE c = MaxCount
  <2>1. n + 1 = (q + 1) * (MaxCount + 1) + Add(c) /\ q + 1 \in 0..(n + 1)
    BY <1>1, <1>2 DEF Add
  <2> QED
    BY <2>1 DEF Wraps
<1>3. CASE c # MaxCount
  <2>1. n + 1 = q * (MaxCount + 1) + Add(c) /\ q \in 0..(n + 1)
    BY <1>1, <1>3 DEF Add
  <2> QED
    BY <2>1 DEF Wraps
<1> QED
  BY <1>2, <1>3

\* One call more is due as many increments as its function's entry makes.
LEMMA OneCallMore ==
  ASSUME NEW m \in Nat, NEW n \in Nat
  PROVE  m * (n + 1) = m * n + m /\ m * n \in Nat
OBVIOUS

\* With one thread, main's makes every step: the others have no stack and
\* only those of the program start.
LEMMA OnlyMain ==
  ASSUME TypeOK, SingleThread, pc # "done", Counting, NEW t \in Threads, Step(t)
  PROVE  t = MainThread /\ ~StartThread(t) /\ stack[t] # <<>>
<1>1. ~StartThread(t)
  BY DEF StartThread, SingleThread
<1>2. stack[t] # <<>>
  BY <1>1 DEF Step, LoadCounter, StoreCounter, Call, Return, Exit, PrintCounter, NextDtor, End,
              InBody
<1> QED
  BY <1>1, <1>2 DEF Counting

\* Nothing is pending when the top frame is done.
LEMMA NothingPending ==
  ASSUME stack[MainThread] = <<>> \/ InBody(MainThread), NEW f
  PROVE  Pending(f) = 0
BY DEF Pending, InBody

\* A call on main's thread: a frame with all its increments to make is
\* pushed on what is left of the stack.
LEMMA EnterCounting ==
  ASSUME TypeOK, SingleThread, Counting, pc # "done", UNCHANGED <<threads, counter, injected>>,
         stack[MainThread] = <<>> \/ InBody(MainThread),
         NEW f \in Counted, NEW s \in Seq(Frames),
         stack' = [stack EXCEPT ![MainThread] = Append(s, Frame(f))],
         calls' = [calls EXCEPT ![f] = @ + 1]
  PROVE  Counting'
<1>1. MainThread \in Threads /\ Frame(f) \in Frames
  BY MainThreadType, FrameType
<1>2. /\ stack'[MainThread] = Append(s, Frame(f))
      /\ \A u \in Threads \ {MainThread} : stack'[u] = <<>>
  BY <1>1 DEF TypeOK, Counting
<1>3. stack'[MainThread] # <<>> /\ Top(MainThread)' = Frame(f)
  <2>1. Append(s, Frame(f)) # <<>> /\ Last(Append(s, Frame(f))) = Frame(f)
    BY <1>1, Push
  <2> QED
    BY <1>2, <2>1 DEF Top, Last
<1>4. Frame(f).func = f /\ Frame(f).left = injected[f] /\ Frame(f).reg = NotLoaded
  BY DEF Frame
<1>5. ASSUME NEW g \in Counted
      PROVE  /\ Pending(g)' <= injected'[g] * calls'[g]
             /\ Wraps(counter'[g], injected'[g] * calls'[g] - Pending(g)')
  <2>1. Pending(g) = 0
    BY NothingPending
  <2>2. injected[g] \in Nat /\ calls[g] \in Nat
    BY DEF TypeOK
  <2>3. /\ injected[g] * calls[g] \in Nat
        /\ injected[g] * calls[g] - Pending(g) = injected[g] * calls[g]
    BY <2>1, <2>2, OneCallMore
  <2>4. Wraps(counter[g], injected[g] * calls[g])
    BY <2>3 DEF Counting
  <2>5. CASE g = f
    <3>1. calls'[g] = calls[g] + 1 /\ Pending(g)' = injected[g]
      BY <1>3, <1>4, <2>5 DEF TypeOK, Pending
    <3>2. injected[g] * calls'[g] = injected[g] * calls[g] + injected[g]
      BY <2>2, <3>1, OneCallMore
    <3>3. injected[g] * calls'[g] - Pending(g)' = injected[g] * calls[g]
      BY <2>2, <2>3, <3>1, <3>2
    <3> QED
      BY <2>2, <2>3, <2>4, <3>1, <3>2, <3>3
  <2>6. CASE g # f
    <3>1. calls'[g] = calls[g] /\ Pending(g)' = 0
      BY <1>3, <1>4, <2>6 DEF TypeOK, Pending
    <3> QED
      BY <2>1, <2>3, <2>4, <3>1
  <2> QED
    BY <2>5, <2>6
<1>6. injected[f] \in Nat /\ injected'[f] = injected[f]
  BY DEF TypeOK
<1>7. /\ Top(MainThread)'.left <= injected'[Top(MainThread)'.func]
      /\ Top(MainThread)'.reg = NotLoaded
  BY <1>3, <1>4, <1>6
<1> QED
  BY <1>2, <1>5, <1>7 DEF Counting

\* A step that only changes main's top frame, and there only the register.
LEMMA LoadCounting ==
  ASSUME TypeOK, SingleThread, Counting, pc # "done", LoadCounter(MainThread)
  PROVE  Counting'
<1>1. MainThread \in Threads
  BY MainThreadType
<1>2. stack[MainThread] \in Seq(Frames) /\ stack[MainThread] # <<>>
  BY <1>1 DEF TypeOK, LoadCounter
<1> DEFINE s == [stack[MainThread] EXCEPT ![Len(stack[MainThread])] = Loaded(MainThread)]
<1>3. Loaded(MainThread) \in Frames /\ stack' = [stack EXCEPT ![MainThread] = s]
  BY <1>1, LoadStack
<1>4. s # <<>> /\ Last(s) = Loaded(MainThread)
  BY <1>2, <1>3, SetTop
<1> HIDE DEF s
<1>5. /\ stack'[MainThread] = s
      /\ \A u \in Threads \ {MainThread} : stack'[u] = <<>>
  BY <1>1, <1>3 DEF TypeOK, Counting
<1>6. stack'[MainThread] # <<>> /\ Top(MainThread)' = Loaded(MainThread)
  BY <1>4, <1>5 DEF Top, Last
<1>7. Top(MainThread) \in Frames
  BY <1>1, <1>2, TopType
<1>8. /\ Loaded(MainThread).func = Top(MainThread).func
      /\ Loaded(MainThread).left = Top(MainThread).left
      /\ Loaded(MainThread).reg = counter[Top(MainThread).func]
  BY <1>7 DEF Loaded, Frames
<1>9. UNCHANGED <<pc, counter, calls, injected, threads>>
  BY DEF LoadCounter, module
<1>10. \A g \in Counted : Pending(g)' = Pending(g)
  BY <1>2, <1>6, <1>8 DEF Pending
<1>11. /\ Top(MainThread)'.left <= injected'[Top(MainThread)'.func]
       /\ Top(MainThread)'.reg = counter'[Top(MainThread)'.func]
  BY <1>2, <1>6, <1>8, <1>9 DEF Counting
<1>12. \A g \in Counted : /\ Pending(g)' <= injected'[g] * calls'[g]
                          /\ Wraps(counter'[g], injected'[g] * calls'[g] - Pending(g)')
  BY <1>9, <1>10 DEF Counting
<1> QED
  BY <1>5, <1>11, <1>12 DEF Counting

\* The store of the incremented value makes up for one pending increment.
LEMMA StoreCounting ==
  ASSUME TypeOK, SingleThread, Counting, pc # "done", StoreCounter(MainThread)
  PROVE  Counting'
<1>1. MainThread \in Threads
  BY MainThreadType
<1>2. /\ stack[MainThread] \in Seq(Frames) /\ stack[MainThread] # <<>>
      /\ Top(MainThread).left > 0 /\ Top(MainThread).reg # NotLoaded
  BY <1>1 DEF TypeOK, StoreCounter
<1> DEFINE s == [stack[MainThread] EXCEPT ![Len(stack[MainThread])] = Stored(MainThread)]
           f == Top(MainThread).func
<1>3. /\ Stored(MainThread) \in Frames /\ stack' = [stack EXCEPT ![MainThread] = s]
      /\ Top(MainThread).reg \in 0..MaxCount
  BY <1>1, StoreStack
<1>4. s # <<>> /\ Last(s) = Stored(MainThread)
  BY <1>2, <1>3, SetTop
<1> HIDE DEF s
<1>5. /\ stack'[MainThread] = s
      /\ \A u \in Threads \ {MainThread} : stack'[u] = <<>>
  BY <1>1, <1>3 DEF TypeOK, Counting
<1>6. stack'[MainThread] # <<>> /\ Top(MainThread)' = Stored(MainThread)
  BY <1>4, <1>5 DEF Top, Last
<1>7. Top(MainThread) \in Frames /\ f \in Counted /\ Top(MainThread).left \in Nat
  BY <1>1, <1>2, TopType DEF Frames
<1>8. /\ Stored(MainThread).func = f
      /\ Stored(MainThread).left = Top(MainThread).left - 1
      /\ Stored(MainThread).reg = NotLoaded
  BY DEF Stored
<1>9. /\ UNCHANGED <<pc, calls, injected, threads>>
      /\ counter' = [counter EXCEPT ![f] = Add(Top(MainThread).reg)]
  BY DEF StoreCounter, module
<1>10. Top(MainThread).reg = counter[f] /\ Top(MainThread).left <= injected[f]
  BY <1>2 DEF Counting
<1>11. ASSUME NEW g \in Counted
       PROVE  /\ Pending(g)' <= injected'[g] * calls'[g]
              /\ Wraps(counter'[g], injected'[g] * calls'[g] - Pending(g)')
  <2> DEFINE n == injected[g] * calls[g]
  <2>1. n \in Nat /\ Pending(g) <= n /\ Wraps(counter[g], n - Pending(g))
    BY OneCallMore DEF Counting, TypeOK
  <2>2. n = injected'[g] * calls'[g]
    BY <1>9
  <2> HIDE DEF n
  <2>3. CASE g = f
    <3>1. Pending(g) = Top(MainThread).left /\ Pending(g)' = Top(MainThread).left - 1
      BY <1>2, <1>6, <1>8, <2>3 DEF Pending
    <3>2. counter[g] \in 0..MaxCount /\ counter'[g] = Add(counter[g])
      BY <1>9, <1>10, <2>3 DEF TypeOK
    <3>3. n - Pending(g) \in Nat /\ n - Pending(g)' = (n - Pending(g)) + 1
      BY <1>7, <2>1, <3>1
    <3>4. Wraps(Add(counter[g]), (n - Pending(g)) + 1)
      BY <2>1, <3>2, <3>3, WrapsAdd
    <3> QED
      BY <1>7, <2>1, <2>2, <3>1, <3>2, <3>3, <3>4
  <2>4. CASE g # f
    <3>1. Pending(g) = 0 /\ Pending(g)' = 0
      BY <1>6, <1>8, <2>4 DEF Pending
    <3>2. counter'[g] = counter[g]
      BY <1>9, <2>4 DEF TypeOK
    <3> QED
      BY <2>1, <2>2, <3>1, <3>2
  <2> QED
    BY <2>3, <2>4
<1>12. injected[f] \in Nat /\ injected'[f] = injected[f]
  BY <1>7, <1>9 DEF TypeOK
<1>13. /\ Top(MainThread)'.left <= injected'[Top(MainThread)'.func]
       /\ Top(MainThread)'.reg = NotLoaded
  BY <1>6, <1>7, <1>8, <1>10, <1>12
<1> QED
  BY <1>5, <1>11, <1>13 DEF Counting

\* A return uncovers a frame with nothing pending.
LEMMA ReturnCounting ==
  ASSUME TypeOK, LowerDone, SingleThread, Counting, pc # "done", Return(MainThread)
  PROVE  Counting'
<1>1. MainThread \in Threads
  BY MainThreadType
<1>2. /\ stack[MainThread] \in Seq(Frames) /\ stack[MainThread] # <<>>
      /\ InBody(MainThread) /\ Len(stack[MainThread]) \in Nat /\ Len(stack[MainThread]) > 1
  BY <1>1 DEF TypeOK, Return, InBody
<1> DEFINE s == Front(stack[MainThread])
<1>3. /\ s \in Seq(Frames) /\ Len(s) = Len(stack[MainThread]) - 1
      /\ s[Len(s)] = stack[MainThread][Len(s)]
  <2>1. /\ s \in Seq(Frames) /\ Len(s) = Len(stack[MainThread]) - 1
        /\ \A i \in 1..(Len(stack[MainThread]) - 1) : s[i] = stack[MainThread][i]
    BY <1>2, Pop
  <2> HIDE DEF s
  <2>2. Len(s) \in 1..(Len(stack[MainThread]) - 1)
    BY <1>2, <2>1
  <2> QED
    BY <2>1, <2>2
<1>4. s # <<>>
  BY <1>2, <1>3, EmptySeq
<1>5. /\ stack'[MainThread] = s
      /\ \A u \in Threads \ {MainThread} : stack'[u] = <<>>
  BY <1>1 DEF TypeOK, Counting, Return
<1>6. s[Len(s)].left = 0 /\ s[Len(s)].func \in Counted
  <2>1. Len(s) \in 1..(Len(stack[MainThread]) - 1) /\ Len(s) \in 1..Len(s)
    BY <1>2, <1>3
  <2>2. s[Len(s)] \in Frames
    BY <1>3, <2>1, ElementOfSeq
  <2> QED
    BY <1>1, <1>3, <2>1, <2>2 DEF LowerDone, Frames
<1> HIDE DEF s
<1>7. Top(MainThread)' = s[Len(s)]
  BY <1>5 DEF Top, Last
<1>8. UNCHANGED <<counter, calls, injected, threads>>
  BY DEF Return, module
<1>9. \A g \in Counted : Pending(g) = 0 /\ Pending(g)' = 0
  BY <1>2, <1>5, <1>6, <1>7, NothingPending DEF Pending
<1>10. injected[s[Len(s)].func] \in Nat
  BY <1>6 DEF TypeOK
<1>11. \A g \in Counted : /\ Pending(g)' <= injected'[g] * calls'[g]
                          /\ Wraps(counter'[g], injected'[g] * calls'[g] - Pending(g)')
  BY <1>8, <1>9 DEF Counting
<1>12. Top(MainThread)'.left <= injected'[Top(MainThread)'.func] /\ ~(Top(MainThread)'.left > 0)
  BY <1>6, <1>7, <1>8, <1>10
<1> QED
  BY <1>5, <1>11, <1>12 DEF Counting

\* With one thread, no step loses or invents a call.
LEMMA CountingStep ==
  ASSUME TypeOK, NotStarted, NotStarted', LowerDone, Counting, [Next]_vars
  PROVE  Counting'
<1> SUFFICES ASSUME SingleThread', pc' # "done" PROVE Counting'
  BY DEF Counting
<1> USE MainThreadType
<1>1. CASE Pass
  <2>1. Passing /\ Passing' /\ UNCHANGED threads
    BY <1>1 DEF Pass, Passing, SkipDeclaration, InjectCounter, DefineWrapper, RunAgain, program
  <2>2. /\ \A t \in Threads : stack'[t] = <<>>
        /\ \A f \in Counted : counter'[f] = 0 /\ calls'[f] = 0
    BY <2>1 DEF NotStarted
  <2>3. \A f \in Counted : Pending(f)' = 0
    BY <2>2 DEF Pending
  <2>4. injected' \in [Counted -> Nat]
    <3>1. injected \in [Counted -> Nat]
      BY DEF TypeOK
    <3>2. injected' = injected \/ \E F \in Counted : injected' = [injected EXCEPT ![F] = @ + 1]
      BY <1>1, CountedTypes
      DEF Pass, SkipDeclaration, InjectCounter, DefineWrapper, RunAgain, Counted
    <3> QED
      BY <3>1, <3>2
  <2>5. \A f \in Counted : injected'[f] * calls'[f] = 0
    BY <2>2, <2>4
  <2>6. Wraps(0, 0)
    BY DEF Wraps
  <2> QED
    BY <2>2, <2>3, <2>5, <2>6 DEF Counting
<1>2. CASE Start
  <2>1. SingleThread /\ pc # "done" /\ stack[MainThread] = <<>>
    BY <1>2 DEF Start, SingleThread, NotStarted, Passing
  <2>2. stack[MainThread] \in Seq(Frames)
    BY DEF TypeOK
  <2> QED
    BY <1>2, <2>1, <2>2, CountedTypes, EnterCounting DEF Start, Enter, module
<1>3. ASSUME NEW t \in Threads, Step(t)
      PROVE  Counting'
  <2>1. SingleThread
    BY <1>3, StepFrame DEF SingleThread
  <2>2. pc # "done"
    BY <1>3 DEF Step, StartThread, LoadCounter, StoreCounter, Call, Return, Exit, PrintCounter,
                NextDtor, End
  <2>3. t = MainThread /\ ~StartThread(t) /\ stack[t] # <<>>
    BY <1>3, <2>1, <2>2, OnlyMain
  <2>4. stack[MainThread] \in Seq(Frames)
    BY DEF TypeOK
  <2>5. CASE LoadCounter(MainThread)
    BY <2>1, <2>2, <2>5, LoadCounting
  <2>6. CASE StoreCounter(MainThread)
    BY <2>1, <2>2, <2>6, StoreCounting
  <2>7. CASE Call(MainThread)
    BY <2>1, <2>2, <2>4, <2>7, CountedTypes, EnterCounting DEF Call, Enter, module
  <2>8. CASE Return(MainThread)
    BY <2>1, <2>2, <2>8, ReturnCounting
  <2>9. CASE Exit(MainThread)
    BY <2>1, <2>2, <2>4, <2>9, CountedTypes, EnterCounting DEF Exit, Enter
  <2>10. CASE PrintCounter(MainThread)
    <3>1. UNCHANGED <<threads, pc, stack, counter, calls, injected>>
      BY <2>10 DEF PrintCounter, module
    <3> QED
      BY <2>1, <2>2, <3>1 DEF Counting, Pending, Top, SingleThread
  <2>11. CASE NextDtor(MainThread)
    <3>1. Front(stack[MainThread]) \in Seq(Frames)
      BY <2>3, <2>4, Pop
    <3> QED
      BY <2>1, <2>2, <2>11, <3>1, CountedTypes, EnterCounting DEF NextDtor
  <2>12. CASE End(MainThread)
    BY <2>12 DEF End
  <2> QED
    BY <1>3, <2>3, <2>5, <2>6, <2>7, <2>8, <2>9, <2>10, <2>11, <2>12 DEF Step
<1>4. CASE UNCHANGED vars
  <2>1. UNCHANGED <<threads, pc, stack, counter, calls, injected>>
    BY <1>4 DEF vars, program, module
  <2> QED
    BY <2>1 DEF Counting, Pending, Top, SingleThread
<1> QED
  BY <1>1, <1>2, <1>3, <1>4 DEF Next
-----------------------------------------------------------------------------
\* Nothing runs after the end of the process.
LEMMA EndedStep ==
  ASSUME Ended, [Next]_vars
  PROVE  Ended'
<1>1. ASSUME NEW t \in Threads, Step(t)
      PROVE  Ended'
  <2>1. pc' # "done" \/ End(t) \/ UNCHANGED pc
    BY <1>1 DEF Step, StartThread, LoadCounter, StoreCounter, Call, Return, Exit, PrintCounter,
                NextDtor
  <2>2. pc # "done"
    BY <1>1 DEF Ended, Step, StartThread, LoadCounter, StoreCounter, Call, Return, Exit,
                PrintCounter, NextDtor, End, InBody
  <2> QED
    BY <2>1, <2>2 DEF End, Ended
<1>2. CASE Pass \/ Start
  BY <1>2 DEF Ended, Pass, SkipDeclaration, InjectCounter, DefineWrapper, RunAgain, Start
<1>3. CASE UNCHANGED vars
  BY <1>3 DEF vars, program, Ended
<1> QED
  BY <1>1, <1>2, <1>3 DEF Next

\* The function of main's top frame stays while its entry is executed.
LEMMA SameTop ==
  ASSUME TypeOK, stack[MainThread] # <<>>, LoadCounter(MainThread) \/ StoreCounter(MainThread)
  PROVE  stack'[MainThread] # <<>> /\ Top(MainThread)'.func = Top(MainThread).func
<1>1. MainThread \in Threads /\ stack[MainThread] \in Seq(Frames) /\ Top(MainThread) \in Frames
  BY MainThreadType, TopType DEF TypeOK
<1>2. PICK e \in Frames :
        /\ stack' = [stack EXCEPT ![MainThread] =
                       [stack[MainThread] EXCEPT ![Len(stack[MainThread])] = e]]
        /\ e.func = Top(MainThread).func
  <2>1. CASE LoadCounter(MainThread)
    <3>1. Loaded(MainThread).func = Top(MainThread).func
      BY <1>1 DEF Loaded, Frames
    <3> QED
      BY <1>1, <2>1, <3>1, LoadStack
  <2>2. CASE StoreCounter(MainThread)
    <3>1. Stored(MainThread).func = Top(MainThread).func
      BY DEF Stored
    <3> QED
      BY <1>1, <2>2, <3>1, StoreStack
  <2> QED
    BY <2>1, <2>2
<1> DEFINE s == [stack[MainThread] EXCEPT ![Len(stack[MainThread])] = e]
<1>3. s # <<>> /\ Last(s) = e
  BY <1>1, SetTop
<1>4. stack'[MainThread] = s
  BY <1>1, <1>2 DEF TypeOK
<1> HIDE DEF s
<1> QED
  BY <1>2, <1>3, <1>4 DEF Top, Last

\* A call of printf_wrapper leaves it on top.
LEMMA WrapperOnTop ==
  ASSUME TypeOK, NEW s \in Seq(Frames),
         stack' = [stack EXCEPT ![MainThread] = Append(s, Frame(Wrapper))]
  PROVE  stack'[MainThread] # <<>> /\ Top(MainThread)'.func = Wrapper
<1>1. Append(s, Frame(Wrapper)) # <<>> /\ Last(Append(s, Frame(Wrapper))) = Frame(Wrapper)
  BY CountedTypes, FrameType, Push
<1>2. stack'[MainThread] = Append(s, Frame(Wrapper))
  BY MainThreadType DEF TypeOK
<1>3. Frame(Wrapper).func = Wrapper
  BY DEF Frame
<1> QED
  BY <1>1, <1>2, <1>3 DEF Top, Last

\* What is printed stays equal to the counters until the process ends.
LEMMA PrintingStep ==
  ASSUME TypeOK, FirstBlock, NotStarted, Counting, Ended, Printing, [Next]_vars
  PROVE  Printing'
<1> SUFFICES ASSUME SingleThread', pc' \in {"run", "exit"} PROVE Printing'
  BY DEF Printing
<1>1. CASE Pass
  BY <1>1 DEF Pass, SkipDeclaration, InjectCounter, DefineWrapper, RunAgain
<1>2. CASE Start
  BY <1>2 DEF Start, NotStarted, Passing, Printing
<1>3. ASSUME NEW t \in Threads, Step(t)
      PROVE  Printing'
  <2>1. SingleThread /\ pc # "done"
    BY <1>3, StepFrame
    DEF SingleThread, Ended, Step, StartThread, LoadCounter, StoreCounter, Call, Return, Exit,
        PrintCounter, NextDtor, End, InBody
  <2>2. t = MainThread /\ ~StartThread(t) /\ stack[t] # <<>>
    BY <1>3, <2>1, OnlyMain
  <2>3. stack[MainThread] \in Seq(Frames)
    BY MainThreadType DEF TypeOK
  <2>4. CASE LoadCounter(MainThread)
    <3>1. UNCHANGED <<pc, printed, toPrint, counter>>
      BY <2>4 DEF LoadCounter
    <3> QED
      BY <2>1, <2>2, <2>4, <3>1, SameTop DEF Printing
  <2>5. CASE StoreCounter(MainThread)
    <3>1. UNCHANGED <<pc, printed, toPrint>>
      BY <2>5 DEF StoreCounter
    <3>2. pc = "exit" => \A f \in DOMAIN printed : f # Wrapper /\ f \in Counted
      BY <2>1, CountedTypes DEF Printing
    <3>3. pc = "exit" => \A f \in DOMAIN printed : counter'[f] = counter[f]
      BY <2>1, <2>5, <3>2 DEF Printing, StoreCounter, TypeOK
    <3> QED
      BY <2>1, <2>2, <2>5, <3>1, <3>3, SameTop DEF Printing
  <2>6. CASE Call(MainThread) \/ Return(MainThread)
    BY <2>1, <2>6 DEF Call, Return, Printing
  <2>7. CASE Exit(MainThread)
    <3>1. stack'[MainThread] # <<>> /\ Top(MainThread)'.func = Wrapper
      BY <2>3, <2>7, WrapperOnTop DEF Exit, Enter
    <3>2. pc = "run" /\ pc' = "exit" /\ toPrint' = Defined /\ UNCHANGED printed
      BY <2>7, EntryBlockType DEF Exit
    <3> QED
      BY <2>1, <3>1, <3>2 DEF Printing
  <2>8. CASE PrintCounter(MainThread)
    <3>1. UNCHANGED <<pc, stack, counter>> /\ pc = "exit"
      BY <2>8 DEF PrintCounter
    <3>2. PICK f \in toPrint :
            /\ printed' = [g \in DOMAIN printed \cup {f} |->
                             IF g = f THEN counter[f] ELSE printed[g]]
            /\ toPrint' = toPrint \ {f}
      BY <2>8 DEF PrintCounter
    <3>3. DOMAIN printed' \cup toPrint' = Defined
      BY <2>1, <3>1, <3>2 DEF Printing
    <3>4. \A g \in DOMAIN printed' : printed'[g] = counter'[g]
      BY <2>1, <3>1, <3>2 DEF Printing
    <3> QED
      BY <2>1, <3>1, <3>3, <3>4 DEF Printing, Top
  <2>9. CASE NextDtor(MainThread)
    <3>1. Front(stack[MainThread]) \in Seq(Frames)
      BY <2>2, <2>3, Pop
    <3>2. stack'[MainThread] # <<>> /\ Top(MainThread)'.func = Wrapper
      BY <2>9, <3>1, WrapperOnTop DEF NextDtor
    <3>3. pc = "exit" /\ toPrint = {} /\ toPrint' = Defined /\ UNCHANGED <<pc, printed, counter>>
      BY <2>9, EntryBlockType DEF NextDtor
    <3> QED
      BY <2>1, <3>2, <3>3 DEF Printing
  <2>10. CASE End(MainThread)
    BY <2>10 DEF End
  <2> QED
    BY <1>3, <2>2, <2>4, <2>5, <2>6, <2>7, <2>8, <2>9, <2>10 DEF Step
<1>4. CASE UNCHANGED vars
  <2>1. UNCHANGED <<threads, pc, stack, counter, printed, toPrint>>
    BY <1>4 DEF vars, program
  <2> QED
    BY <2>1 DEF Printing, Top, SingleThread
<1> QED
  BY <1>1, <1>2, <1>3, <1>4 DEF Next

\* The report is exact when the process ends, and is not changed after.
LEMMA ReportStep ==
  ASSUME TypeOK, Instrumented, Counting, Printing, Ended, ReportExact, [Next]_vars
  PROVE  ReportExact'
<1> SUFFICES ASSUME SingleThread', pc' = "done" PROVE ReportExact'
  BY DEF ReportExact
<1>1. ASSUME NEW t \in Threads, Step(t)
      PROVE  ReportExact'
  <2>1. SingleThread /\ pc # "done"
    BY <1>1, StepFrame
    DEF SingleThread, Ended, Step, StartThread, LoadCounter, StoreCounter, Call, Return, Exit,
        PrintCounter, NextDtor, End, InBody
  <2>2. End(t)
    BY <1>1, <2>1 DEF Step, StartThread, LoadCounter, StoreCounter, Call, Return, Exit,
                      PrintCounter, NextDtor
  <2>3. t = MainThread
    BY <1>1, <2>1, OnlyMain
  <2>4. DOMAIN printed = Defined /\ \A f \in Defined : printed[f] = counter[f]
    BY <2>1, <2>2 DEF End, Printing
  <2>5. InBody(MainThread) /\ pc = "exit"
    BY <2>2, <2>3 DEF End
  <2>6. \A f \in Defined : Pending(f) = 0 /\ injected[f] = runs
    BY <2>5, NothingPending DEF Instrumented
  <2>7. ASSUME NEW f \in Defined
        PROVE  Wraps(printed[f], runs * calls[f])
    <3>1. runs \in Nat /\ calls[f] \in Nat
      BY CountedTypes DEF TypeOK
    <3>2. runs * calls[f] - 0 = runs * calls[f]
      BY <3>1, OneCallMore
    <3>3. Wraps(counter[f], injected[f] * calls[f] - Pending(f))
      BY <2>1, CountedTypes DEF Counting
    <3> QED
      BY <2>4, <2>6, <3>2, <3>3
  <2>8. UNCHANGED <<printed, runs, calls>>
    BY <2>2 DEF End
  <2> QED
    BY <2>4, <2>7, <2>8 DEF ReportExact
<1>2. CASE Pass \/ Start
  BY <1>2 DEF Pass, SkipDeclaration, InjectCounter, DefineWrapper, RunAgain, Start
<1>3. CASE UNCHANGED vars
  BY <1>3 DEF vars, program, ReportExact, SingleThread
<1> QED
  BY <1>1, <1>2, <1>3 DEF Next
-----------------------------------------------------------------------------
\* IInv is inductive.
LEMMA InductiveStep == IInv /\ [Next]_vars => IInv'
<1> SUFFICES ASSUME IInv, [Next]_vars PROVE IInv'
  OBVIOUS
<1> USE DEF IInv
<1>1. TypeOK' /\ Instrumented' /\ FirstBlock'
  BY TypeStep, InstrumentedStep, FirstBlockStep
<1>2. NotStarted' /\ LowerDone' /\ Ended'
  BY NotStartedStep, LowerDoneStep, EndedStep
<1>3. Counting'
  BY <1>2, CountingStep
<1>4. Printing' /\ ReportExact'
  BY PrintingStep, ReportStep
<1> QED
  BY <1>1, <1>2, <1>3, <1>4

\* The counters, registers and stacks keep their types: an increment never
\* leaves the width of a counter, and no more destructors are run than were
\* registered.
THEOREM TypeCorrect == Spec => []TypeOK
<1>1. IInv => TypeOK
  BY DEF IInv
<1> QED
  BY <1>1, InitInv, InductiveStep, PTL DEF Spec

\* The report of a program with one thread is exact, also when functions call
\* themselves or exit is called deep in the stack, when counters wrap, and
\* when the pass has been run on its own output.
THEOREM ReportCorrect == Spec => []ReportExact
<1>1. IInv => ReportExact
  BY DEF IInv
<1> QED
  BY <1>1, InitInv, InductiveStep, PTL DEF Spec
-----------------------------------------------------------------------------
(***************************************************************************)
(* Several threads.  The increments that are due but not made are counted  *)
(* one by one: those that have been made bound the counter, and bound what *)
(* any thread has loaded of it, however long ago.                          *)
(***************************************************************************)

\* Thread t is to increment f's counter at least n times before f's own code.
Due(t, f, n) == stack[t] # <<>> /\ Top(t).func = f /\ n <= Top(t).left

ToCount(f) == {x \in Threads \X (1..MaxRuns) : Due(x[1], f, x[2])}

Made(f) == injected[f] * calls[f] - Cardinality(ToCount(f))

\* Thread t has loaded the counter and not stored it.
Holding(t) == stack[t] # <<>> /\ Top(t).left > 0 /\ Top(t).reg # NotLoaded

Accounted ==
  /\ \A f \in Counted : IsFiniteSet(ToCount(f)) /\ counter[f] <= Made(f)
  /\ \A t \in Threads : Holding(t) => Top(t).reg <= Made(Top(t).func)

\* What has been made and what is due are numbers.
LEMMA MadeType ==
  ASSUME TypeOK, Accounted, NEW f \in Counted
  PROVE  /\ Cardinality(ToCount(f)) \in Nat /\ Made(f) \in Nat
         /\ injected[f] \in Nat /\ calls[f] \in Nat /\ injected[f] * calls[f] \in Nat
<1>1. Cardinality(ToCount(f)) \in Nat
  BY FS_CardinalityType DEF Accounted
<1>2. injected[f] \in Nat /\ calls[f] \in Nat /\ counter[f] \in Nat
  BY DEF TypeOK
<1>3. injected[f] * calls[f] \in Nat
  BY <1>2, OneCallMore
<1>4. Made(f) \in Int /\ counter[f] <= Made(f)
  BY <1>1, <1>3 DEF Made, Accounted
<1> QED
  BY <1>1, <1>2, <1>3, <1>4

\* A thread in a function's own code has no increments to make.
LEMMA NothingDue ==
  ASSUME NEW t \in Threads, stack[t] = <<>> \/ InBody(t), NEW f, NEW n \in 1..MaxRuns
  PROVE  ~Due(t, f, n)
BY DEF Due, InBody

\* After a step that leaves no thread a stack, all increments have been made.
LEMMA EmptyAccounted ==
  ASSUME \A t \in Threads : stack'[t] = <<>>,
         \A f \in Counted : /\ injected'[f] * calls'[f] \in Nat
                            /\ counter'[f] <= injected'[f] * calls'[f]
  PROVE  Accounted'
<1>1. \A f \in Counted : ToCount(f)' = {}
  BY DEF ToCount, Due
<1>2. \A f \in Counted : IsFiniteSet(ToCount(f)') /\ Cardinality(ToCount(f)') = 0
  BY <1>1, FS_EmptySet
<1>3. \A f \in Counted : IsFiniteSet(ToCount(f)') /\ Made(f)' = injected'[f] * calls'[f]
  BY <1>2 DEF Made
<1>4. \A t \in Threads : ~Holding(t)'
  BY DEF Holding
<1> QED
  BY <1>3, <1>4 DEF Accounted

\* The step of a thread that finds nothing to count and leaves nothing.
LEMMA SameToCount ==
  ASSUME TypeOK, NEW t \in Threads,
         \A u \in Threads \ {t} : stack'[u] = stack[u],
         NEW f, \A n \in 1..MaxRuns : Due(t, f, n)' <=> Due(t, f, n)
  PROVE  ToCount(f)' = ToCount(f)
<1>1. \A u \in Threads, n \in 1..MaxRuns : Due(u, f, n)' <=> Due(u, f, n)
  BY DEF Due, Top
<1> QED
  BY <1>1 DEF ToCount

\* The m increments of one thread.
LEMMA Increments ==
  ASSUME NEW t, NEW m \in Nat
  PROVE  IsFiniteSet({t} \X (1..m)) /\ Cardinality({t} \X (1..m)) = m
<1> DEFINE S == {t}
           T == 1..m
<1>1. IsFiniteSet(S) /\ Cardinality(S) = 1
  BY FS_Singleton
<1>2. IsFiniteSet(T) /\ Cardinality(T) = IF 1 > m THEN 0 ELSE m - 1 + 1
  BY FS_Interval
<1>3. Cardinality(T) = m
  BY <1>2
<1> HIDE DEF S, T
<1>4. IsFiniteSet(S \X T) /\ Cardinality(S \X T) = 1 * m
  BY <1>1, <1>2, <1>3, FS_Product
<1> QED
  BY <1>4 DEF S, T

\* A call is due as many increments as its function's entry makes, and no
\* more have been made than before.
LEMMA EnterAccounted ==
  ASSUME TypeOK, Accounted, UNCHANGED <<counter, injected>>,
         NEW t \in Threads, stack[t] = <<>> \/ InBody(t),
         NEW f \in Counted, NEW s \in Seq(Frames),
         stack' = [stack EXCEPT ![t] = Append(s, Frame(f))],
         calls' = [calls EXCEPT ![f] = @ + 1]
  PROVE  Accounted'
<1> DEFINE N == {t} \X (1..injected[f])
<1>1. Frame(f) \in Frames /\ Append(s, Frame(f)) # <<>> /\ Last(Append(s, Frame(f))) = Frame(f)
  BY FrameType, Push
<1>2. /\ stack'[t] # <<>> /\ Top(t)' = Frame(f)
      /\ \A u \in Threads \ {t} : stack'[u] = stack[u]
  BY <1>1 DEF TypeOK, Top
<1>3. Frame(f).func = f /\ Frame(f).left = injected[f] /\ Frame(f).reg = NotLoaded
  BY DEF Frame
<1>4. injected[f] \in 0..MaxRuns /\ calls'[f] = calls[f] + 1
  BY DEF TypeOK
<1>5. IsFiniteSet(N) /\ Cardinality(N) = injected[f]
  <2>1. injected[f] \in Nat
    BY MadeType
  <2> QED
    BY <2>1, Increments
<1>6. ToCount(f)' = ToCount(f) \cup N /\ ToCount(f) \cap N = {}
  <2>1. \A n \in 1..MaxRuns : ~Due(t, f, n) /\ (Due(t, f, n)' <=> n \in 1..injected[f])
    BY <1>2, <1>3, <1>4, NothingDue DEF Due
  <2>2. \A u \in Threads \ {t}, n \in 1..MaxRuns : Due(u, f, n)' <=> Due(u, f, n)
    BY <1>2 DEF Due, Top
  <2>3. 1..injected[f] \subseteq 1..MaxRuns
    BY <1>4
  <2> QED
    BY <2>1, <2>2, <2>3 DEF ToCount
<1> HIDE DEF N
<1>7. IsFiniteSet(ToCount(f)') /\ Made(f)' = Made(f)
  <2> DEFINE T == ToCount(f)
  <2>0. IsFiniteSet(T)
    BY DEF Accounted
  <2>1. T \cap N = {} /\ ToCount(f)' = T \cup N
    BY <1>6
  <2>2. Cardinality(T) \in Nat /\ injected[f] \in Nat /\ injected[f] * calls[f] \in Nat
    BY MadeType
  <2>3. Made(f) = injected[f] * calls[f] - Cardinality(T)
    BY DEF Made
  <2> HIDE DEF T
  <2>4. /\ IsFiniteSet(T \cup N)
        /\ Cardinality(T \cup N) = Cardinality(T) + Cardinality(N) - Cardinality(T \cap N)
    BY <1>5, <2>0, FS_Union
  <2>5. Cardinality(T \cap N) = 0
    BY <2>1, FS_EmptySet
  <2>6. Cardinality(ToCount(f)') = Cardinality(T) + injected[f]
    BY <1>5, <2>1, <2>2, <2>4, <2>5
  <2>7. injected[f] * calls'[f] = injected[f] * calls[f] + injected[f]
    BY <1>4, <2>2, OneCallMore DEF TypeOK
  <2>8. Made(f)' = injected[f] * calls'[f] - Cardinality(ToCount(f)')
    BY DEF Made
  <2>9. Made(f)' = (injected[f] * calls[f] + injected[f]) - (Cardinality(T) + injected[f])
    BY <2>6, <2>7, <2>8
  <2> QED
    BY <2>1, <2>2, <2>3, <2>4, <2>9
<1>8. ASSUME NEW g \in Counted \ {f}
      PROVE  ToCount(g)' = ToCount(g) /\ Made(g)' = Made(g)
  <2>1. \A n \in 1..MaxRuns : ~Due(t, g, n) /\ ~Due(t, g, n)'
    BY <1>2, <1>3, NothingDue DEF Due
  <2>2. ToCount(g)' = ToCount(g)
    BY <1>2, <2>1, SameToCount
  <2>3. calls'[g] = calls[g]
    BY DEF TypeOK
  <2> QED
    BY <2>2, <2>3 DEF Made
<1>9. \A g \in Counted : IsFiniteSet(ToCount(g)') /\ Made(g)' = Made(g)
  BY <1>7, <1>8 DEF Accounted
<1>10. ASSUME NEW u \in Threads, Holding(u)'
       PROVE  (Top(u).reg <= Made(Top(u).func))'
  <2>1. u # t
    BY <1>2, <1>3, <1>10 DEF Holding
  <2>2. Top(u)' = Top(u) /\ Holding(u)
    BY <1>2, <1>10, <2>1 DEF Holding, Top
  <2>3. Top(u).func \in Counted
    BY <2>2, TopType DEF Holding, Frames
  <2> QED
    BY <1>9, <2>2, <2>3 DEF Accounted
<1> QED
  BY <1>9, <1>10 DEF Accounted

\* The thread that stores has made one more increment.  The value it stores
\* is one more than what it has loaded, or zero.
LEMMA StoreAccounted ==
  ASSUME TypeOK, Accounted, NEW t \in Threads, StoreCounter(t), NEW f, f = Top(t).func,
         NEW x, x = <<t, Top(t).left>>
  PROVE  Accounted'
<1> DEFINE s == [stack[t] EXCEPT ![Len(stack[t])] = Stored(t)]
<1>1. /\ stack[t] \in Seq(Frames) /\ Holding(t)
      /\ Top(t) \in Frames /\ f \in Counted /\ Top(t).left \in 1..MaxRuns
  <2>1. stack[t] \in Seq(Frames) /\ Holding(t)
    BY DEF TypeOK, StoreCounter, Holding
  <2>2. Top(t) \in Frames /\ Top(t).left > 0
    BY <2>1, TopType DEF Holding
  <2> QED
    BY <2>1, <2>2 DEF Frames
<1>2. Stored(t) \in Frames /\ stack' = [stack EXCEPT ![t] = s] /\ Top(t).reg \in 0..MaxCount
  BY StoreStack
<1>3. s # <<>> /\ Last(s) = Stored(t)
  BY <1>1, <1>2, SetTop DEF Holding
<1> HIDE DEF s
<1>4. /\ stack'[t] = s /\ stack'[t] # <<>> /\ Top(t)' = Stored(t)
      /\ \A u \in Threads \ {t} : stack'[u] = stack[u]
  BY <1>2, <1>3 DEF TypeOK, Top
<1>5. Stored(t).func = f /\ Stored(t).left = Top(t).left - 1 /\ Stored(t).reg = NotLoaded
  BY DEF Stored
<1>6. /\ UNCHANGED <<calls, injected>>
      /\ counter' = [counter EXCEPT ![f] = Add(Top(t).reg)]
  BY DEF StoreCounter, module
<1>7. x \in ToCount(f) /\ ToCount(f)' = ToCount(f) \ {x}
  <2>1. \A n \in 1..MaxRuns : /\ Due(t, f, n) <=> n <= Top(t).left
                              /\ Due(t, f, n)' <=> n <= Top(t).left - 1
    BY <1>1, <1>4, <1>5 DEF Due, Holding
  <2>2. \A n \in 1..MaxRuns : Due(t, f, n)' <=> Due(t, f, n) /\ n # Top(t).left
    BY <1>1, <2>1
  <2>3. \A u \in Threads \ {t}, n \in 1..MaxRuns : Due(u, f, n)' <=> Due(u, f, n)
    BY <1>4 DEF Due, Top
  <2>4. x \in ToCount(f)
    BY <1>1, <2>1 DEF ToCount
  <2>5. ToCount(f)' = ToCount(f) \ {x}
    BY <2>2, <2>3 DEF ToCount
  <2> QED
    BY <2>4, <2>5
<1>8. IsFiniteSet(ToCount(f)') /\ Made(f)' = Made(f) + 1
  <2> DEFINE T == ToCount(f)
  <2>1. IsFiniteSet(T)
    BY <1>1 DEF Accounted
  <2>2. x \in T /\ ToCount(f)' = T \ {x}
    BY <1>7
  <2>3. Cardinality(T) \in Nat /\ injected[f] * calls[f] \in Nat
    BY <1>1, MadeType
  <2>4. Made(f) = injected[f] * calls[f] - Cardinality(T)
    BY DEF Made
  <2>5. Made(f)' = injected[f] * calls[f] - Cardinality(ToCount(f)')
    BY <1>6 DEF Made
  <2> HIDE DEF T
  <2>6. /\ IsFiniteSet(T \ {x})
        /\ Cardinality(T \ {x}) = IF x \in T THEN Cardinality(T) - 1 ELSE Cardinality(T)
    BY <2>1, FS_RemoveElement, Zenon
  <2> QED
    BY <2>2, <2>3, <2>4, <2>5, <2>6
<1>9. ASSUME NEW g \in Counted \ {f}
      PROVE  ToCount(g)' = ToCount(g) /\ Made(g)' = Made(g)
  <2>1. \A n \in 1..MaxRuns : ~Due(t, g, n) /\ ~Due(t, g, n)'
    BY <1>4, <1>5 DEF Due
  <2>2. ToCount(g)' = ToCount(g)
    BY <1>4, <2>1, SameToCount
  <2> QED
    BY <1>6, <2>2 DEF Made
<1>10. \A g \in Counted : Made(g) \in Nat /\ Made(g) <= Made(g)' /\ Made(g)' \in Nat
  <2>1. \A g \in Counted : Made(g) \in Nat
    BY MadeType
  <2> QED
    BY <1>8, <1>9, <2>1
<1>11. ASSUME NEW g \in Counted
       PROVE  IsFiniteSet(ToCount(g)') /\ counter'[g] <= Made(g)'
  <2>1. CASE g = f
    <3>1. counter'[g] = Add(Top(t).reg) /\ Top(t).reg <= Made(f)
      BY <1>1, <1>6, <2>1 DEF TypeOK, Accounted
    <3>2. Add(Top(t).reg) <= Top(t).reg + 1 /\ Add(Top(t).reg) \in Nat
      BY <1>2 DEF Add
    <3> QED
      BY <1>1, <1>2, <1>8, <1>10, <2>1, <3>1, <3>2
  <2>2. CASE g # f
    BY <1>6, <1>9, <2>2 DEF TypeOK, Accounted
  <2> QED
    BY <2>1, <2>2
<1>12. ASSUME NEW u \in Threads, Holding(u)'
       PROVE  (Top(u).reg <= Made(Top(u).func))'
  <2>1. u # t
    BY <1>4, <1>5, <1>12 DEF Holding
  <2>2. Top(u)' = Top(u) /\ Holding(u)
    BY <1>4, <1>12, <2>1 DEF Holding, Top
  <2>3. Top(u).func \in Counted /\ Top(u).reg \in Nat
    BY <2>2, TopType DEF Holding, Frames
  <2>4. Top(u).reg <= Made(Top(u).func)
    BY <2>2 DEF Accounted
  <2>5. /\ Made(Top(u).func) \in Nat /\ Made(Top(u).func)' \in Nat
        /\ Made(Top(u).func) <= Made(Top(u).func)'
    BY <1>10, <2>2, <2>3
  <2> QED
    BY <2>2, <2>3, <2>4, <2>5
<1> QED
  BY <1>11, <1>12 DEF Accounted

\* A step that leaves the counters and the increments that are due, and
\* after which a thread holds what it held before, or the counter.
LEMMA KeepAccounted ==
  ASSUME TypeOK, Accounted, UNCHANGED <<counter, calls, injected>>,
         \A g \in Counted : ToCount(g)' = ToCount(g),
         \A u \in Threads : Holding(u)' =>
           \/ Holding(u) /\ Top(u)' = Top(u)
           \/ Top(u)'.func \in Counted /\ Top(u)'.reg = counter[Top(u)'.func]
  PROVE  Accounted'
<1>1. \A g \in Counted : Made(g)' = Made(g)
  BY DEF Made
<1>2. ASSUME NEW u \in Threads, Holding(u)'
      PROVE  (Top(u).reg <= Made(Top(u).func))'
  <2>1. CASE Holding(u) /\ Top(u)' = Top(u)
    <3>1. Top(u).func \in Counted
      BY <2>1, TopType DEF Holding, Frames
    <3> QED
      BY <1>1, <2>1, <3>1 DEF Accounted
  <2>2. CASE Top(u)'.func \in Counted /\ Top(u)'.reg = counter[Top(u)'.func]
    BY <1>1, <2>2 DEF Accounted
  <2> QED
    BY <1>2, <2>1, <2>2
<1> QED
  BY <1>1, <1>2 DEF Accounted

\* What thread t loads, nobody has stored more than what has been made.
LEMMA LoadAccounted ==
  ASSUME TypeOK, Accounted, NEW t \in Threads, LoadCounter(t)
  PROVE  Accounted'
<1> DEFINE s == [stack[t] EXCEPT ![Len(stack[t])] = Loaded(t)]
<1>1. stack[t] \in Seq(Frames) /\ stack[t] # <<>>
  BY DEF TypeOK, LoadCounter
<1>2. Loaded(t) \in Frames /\ stack' = [stack EXCEPT ![t] = s]
  BY LoadStack
<1>3. s # <<>> /\ Last(s) = Loaded(t)
  BY <1>1, <1>2, SetTop
<1> HIDE DEF s
<1>4. /\ stack'[t] = s /\ stack'[t] # <<>> /\ Top(t)' = Loaded(t)
      /\ \A u \in Threads \ {t} : stack'[u] = stack[u]
  BY <1>2, <1>3 DEF TypeOK, Top
<1>5. Top(t) \in Frames
  BY <1>1, TopType
<1>6. /\ Loaded(t).func = Top(t).func /\ Loaded(t).left = Top(t).left
      /\ Loaded(t).reg = counter[Top(t).func] /\ Top(t).func \in Counted
  BY <1>5 DEF Loaded, Frames
<1>7. UNCHANGED <<counter, calls, injected>>
  BY DEF LoadCounter, module
<1>8. ASSUME NEW g \in Counted
      PROVE  ToCount(g)' = ToCount(g)
  <2>1. \A n \in 1..MaxRuns : Due(t, g, n)' <=> Due(t, g, n)
    BY <1>1, <1>4, <1>6 DEF Due
  <2> QED
    BY <1>4, <2>1, SameToCount
<1>9. ASSUME NEW u \in Threads, Holding(u)'
      PROVE  \/ Holding(u) /\ Top(u)' = Top(u)
             \/ Top(u)'.func \in Counted /\ Top(u)'.reg = counter[Top(u)'.func]
  <2>1. CASE u = t
    BY <1>4, <1>6, <2>1
  <2>2. CASE u # t
    BY <1>4, <1>9, <2>2 DEF Holding, Top
  <2> QED
    BY <2>1, <2>2
<1> QED
  BY <1>7, <1>8, <1>9, KeepAccounted

\* A return uncovers a frame that has no increments to make.
LEMMA ReturnAccounted ==
  ASSUME TypeOK, LowerDone, Accounted, NEW t \in Threads, Return(t)
  PROVE  Accounted'
<1> DEFINE s == Front(stack[t])
<1>1. /\ stack[t] \in Seq(Frames) /\ stack[t] # <<>> /\ InBody(t)
      /\ Len(stack[t]) \in Nat
  BY DEF TypeOK, Return, InBody
<1>2. s \in Seq(Frames) /\ \A i \in 1..Len(s) : s[i].left = 0
  <2>1. /\ s \in Seq(Frames) /\ Len(s) = Len(stack[t]) - 1
        /\ \A i \in 1..(Len(stack[t]) - 1) : s[i] = stack[t][i]
    BY <1>1, Pop
  <2> HIDE DEF s
  <2>2. \A i \in 1..(Len(stack[t]) - 1) : stack[t][i].left = 0
    BY DEF LowerDone
  <2> QED
    BY <2>1, <2>2
<1> HIDE DEF s
<1>3. stack'[t] = s /\ \A u \in Threads \ {t} : stack'[u] = stack[u]
  BY DEF TypeOK, Return, s
<1>4. stack'[t] = <<>> \/ Top(t)'.left = 0
  <2>1. s = <<>> \/ Len(s) \in 1..Len(s)
    BY <1>2, EmptySeq
  <2> QED
    BY <1>2, <1>3, <2>1 DEF Top, Last
<1>5. UNCHANGED <<counter, calls, injected>>
  BY DEF Return, module
<1>6. ASSUME NEW g \in Counted
      PROVE  ToCount(g)' = ToCount(g)
  <2>1. \A n \in 1..MaxRuns : ~Due(t, g, n) /\ ~Due(t, g, n)'
    BY <1>1, <1>4, NothingDue DEF Due
  <2> QED
    BY <1>3, <2>1, SameToCount
<1>7. ASSUME NEW u \in Threads, Holding(u)'
      PROVE  Holding(u) /\ Top(u)' = Top(u)
  <2>1. u # t
    BY <1>4, <1>7 DEF Holding
  <2> QED
    BY <1>3, <1>7, <2>1 DEF Holding, Top
<1> QED
  BY <1>5, <1>6, <1>7, KeepAccounted

\* The end of the process leaves nothing due.
LEMMA EndAccounted ==
  ASSUME TypeOK, Accounted, NEW t \in Threads, End(t)
  PROVE  Accounted'
<1>1. UNCHANGED <<counter, calls, injected>> /\ \A u \in Threads : stack'[u] = <<>>
  BY DEF End, module
<1>2. ASSUME NEW f \in Counted
      PROVE  injected[f] * calls[f] \in Nat /\ counter[f] <= injected[f] * calls[f]
  <2>1. /\ Cardinality(ToCount(f)) \in Nat /\ injected[f] * calls[f] \in Nat
        /\ counter[f] \in Nat
    BY MadeType DEF TypeOK
  <2>2. counter[f] <= injected[f] * calls[f] - Cardinality(ToCount(f))
    BY DEF Accounted, Made
  <2> QED
    BY <2>1, <2>2
<1> QED
  BY <1>1, <1>2, EmptyAccounted

\* While the pass runs, nothing has been called and nothing counted.
LEMMA PassAccounted ==
  ASSUME TypeOK, NotStarted, Pass
  PROVE  Accounted'
<1>1. Passing /\ UNCHANGED <<stack, counter, calls>>
  BY DEF Pass, Passing, SkipDeclaration, InjectCounter, DefineWrapper, RunAgain, program
<1>2. injected' \in [Counted -> Nat]
  <2>1. injected \in [Counted -> Nat]
    BY DEF TypeOK
  <2>2. injected' = injected \/ \E F \in Counted : injected' = [injected EXCEPT ![F] = @ + 1]
    BY CountedTypes
    DEF Pass, SkipDeclaration, InjectCounter, DefineWrapper, RunAgain, Counted
  <2> QED
    BY <2>1, <2>2
<1>3. \A f \in Counted : injected'[f] * calls'[f] = 0 /\ counter'[f] = 0
  BY <1>1, <1>2 DEF NotStarted
<1>4. \A t \in Threads : stack'[t] = <<>>
  BY <1>1 DEF NotStarted
<1> QED
  BY <1>3, <1>4, EmptyAccounted

\* No step of any thread makes a counter exceed what has been made.
LEMMA AccountedStep ==
  ASSUME TypeOK, NotStarted, LowerDone, Accounted, [Next]_vars
  PROVE  Accounted'
<1>1. CASE Pass
  BY <1>1, PassAccounted
<1>2. CASE Start
  <2>1. MainThread \in Threads /\ stack[MainThread] = <<>>
    BY <1>2, MainThreadType DEF Start, NotStarted, Passing
  <2>2. stack[MainThread] \in Seq(Frames)
    BY <2>1 DEF TypeOK
  <2> QED
    BY <1>2, <2>1, <2>2, CountedTypes, EnterAccounted DEF Start, Enter, module
<1>3. ASSUME NEW t \in Threads, StartThread(t) \/ Call(t) \/ Exit(t)
      PROVE  Accounted'
  <2>1. PICK f \in Counted : Enter(t, f)
    BY <1>3, CountedTypes DEF StartThread, Call, Exit
  <2>2. (stack[t] = <<>> \/ InBody(t)) /\ UNCHANGED <<counter, injected>>
    BY <1>3 DEF StartThread, Call, Exit, module
  <2>3. stack[t] \in Seq(Frames)
    BY DEF TypeOK
  <2> QED
    BY <2>1, <2>2, <2>3, EnterAccounted DEF Enter
<1>4. ASSUME NEW t \in Threads, NextDtor(t)
      PROVE  Accounted'
  <2>1. Front(stack[t]) \in Seq(Frames)
    BY <1>4, Pop DEF TypeOK, NextDtor, InBody
  <2> QED
    BY <1>4, <2>1, CountedTypes, EnterAccounted DEF NextDtor
<1>5. ASSUME NEW t \in Threads, LoadCounter(t) \/ StoreCounter(t) \/ Return(t) \/ End(t)
      PROVE  Accounted'
  BY <1>5, LoadAccounted, StoreAccounted, ReturnAccounted, EndAccounted
<1>6. CASE UNCHANGED vars \/ \E t \in Threads : PrintCounter(t)
  <2>1. UNCHANGED <<stack, counter, calls, injected>>
    BY <1>6 DEF vars, program, module, PrintCounter
  <2> QED
    BY <2>1 DEF Accounted, Made, ToCount, Due, Holding, Top
<1> QED
  BY <1>1, <1>2, <1>3, <1>4, <1>5, <1>6 DEF Next, Step

\* With any number of threads: however their loads and stores interleave, no
\* counter ever exceeds the increments that the calls made so far are due.
THEOREM OvercountImpossible == Spec => []NoOvercount
<1>1. Init => Accounted
  <2> SUFFICES ASSUME Init PROVE Accounted
    OBVIOUS
  <2>1. /\ \A t \in Threads : stack[t] = <<>>
        /\ \A f \in Counted : injected[f] * calls[f] = 0 /\ counter[f] = 0
    BY DEF Init
  <2>2. \A f \in Counted : ToCount(f) = {}
    BY <2>1 DEF ToCount, Due
  <2>3. \A f \in Counted : IsFiniteSet(ToCount(f)) /\ Cardinality(ToCount(f)) = 0
    BY <2>2, FS_EmptySet
  <2>4. \A f \in Counted : Made(f) = 0
    BY <2>1, <2>3 DEF Made
  <2>5. \A t \in Threads : ~Holding(t)
    BY <2>1 DEF Holding
  <2> QED
    BY <2>1, <2>3, <2>4, <2>5 DEF Accounted
<1>2. IInv /\ Accounted /\ [Next]_vars => Accounted'
  BY AccountedStep DEF IInv
<1>3. IInv /\ Accounted => NoOvercount
  <2> SUFFICES ASSUME TypeOK, Accounted, NEW f \in Counted
               PROVE  counter[f] <= injected[f] * calls[f]
    BY DEF NoOvercount, IInv
  <2>1. /\ Cardinality(ToCount(f)) \in Nat /\ injected[f] * calls[f] \in Nat
        /\ counter[f] \in Nat
    BY MadeType DEF TypeOK
  <2>2. counter[f] <= injected[f] * calls[f] - Cardinality(ToCount(f))
    BY DEF Accounted, Made
  <2> QED
    BY <2>1, <2>2
<1> QED
  BY <1>1, <1>2, <1>3, InitInv, InductiveStep, PTL DEF Spec
=============================================================================
