----------------------------- MODULE CallPasses -----------------------------
(***************************************************************************)
(* The passes that count and instrument calls, as a pipeline over one      *)
(* module, and then the program: InjectFuncCall (lib/InjectFuncCall.cpp),  *)
(* StaticCallCounter (lib/StaticCallCounter.cpp, run by tools/             *)
(* StaticMain.cpp on a module as it is at that point), OpcodeCounter       *)
(* (lib/OpcodeCounter.cpp), and DynamicCallCounter, whose steps are those  *)
(* of CallCounters.  One action per function a pass visits.                *)
(*                                                                         *)
(* Here functions have code: an instruction is its opcode, the function it *)
(* calls, and who wrote it.  An instrumented function runs the code that   *)
(* was put at its start from there to its own.                             *)
(***************************************************************************)
EXTENDS CallCounters

CONSTANTS Order,        \* the functions of the module, in its order
          Printf,       \* a declaration
          Pointer,      \* what an indirect call calls
          NoCallee,     \* what an instruction that is no call calls
          Opcodes,      \* the names of LLVM's opcodes, or some of them
          Programs,     \* the code of the functions the module defines
          Pipelines     \* the passes to run

Instructions ==
  [op : Opcodes, callee : Defined \cup Declared \cup {Pointer, NoCallee},
   by : {"source", "inject-func-call", "dynamic-cc", "report"}]

PassNames == {"inject-func-call", "static-cc", "opcode-counter", "dynamic-cc"}

Named(pipeline, pass) == {n \in DOMAIN pipeline : pipeline[n] = pass}

\* A module has no two functions of one name, and printf comes from outside.  A
\* definition has code, none of which is from a pass yet.  A pipeline names
\* dynamic-cc, and at most once each of the passes that only count.
ASSUME ModuleAssumption ==
  /\ Order \in Seq(Defined \cup Declared) /\ Range(Order) = Defined \cup Declared
  /\ IsInjective(Order) /\ Printf \in Declared
  /\ {"load", "add", "store", "call", "ret"} \subseteq Opcodes
  /\ \A p \in Programs : /\ p \in [Defined -> Seq(Instructions)]
                         /\ \A F \in Defined : /\ p[F] # <<>>
                                               /\ \A n \in DOMAIN p[F] : p[F][n].by = "source"
  /\ \A p \in Pipelines : /\ p \in Seq(PassNames)
                          /\ Cardinality(Named(p, "dynamic-cc")) \in 1..MaxRuns
                          /\ Cardinality(Named(p, "static-cc")) <= 1
                          /\ Cardinality(Named(p, "opcode-counter")) <= 1

VARIABLES source,       \* the code of the functions before the pipeline
          body,         \* the code of the functions
          pipeline, step,
          visit,        \* functions of the module the pass has not visited
          direct,       \* StaticCallCounter's Res
          opcodes,      \* of each function: OpcodeCounter's OpcodeMap
          at,           \* of each frame on a stack: the next instruction
          greeted       \* history: how often F has printed its greeting

counting == <<direct, opcodes>>
passes == <<source, body, pipeline, step, visit, counting>>
running == <<at, greeted>>

Running(pass) == step \in DOMAIN pipeline /\ pipeline[step] = pass

Inst(op, callee, by) == [op |-> op, callee |-> callee, by |-> by]

PassesInit ==
  /\ Init
  /\ source \in Programs
  /\ body = [F \in Counted |-> IF F = Wrapper THEN <<>> ELSE source[F]]
  /\ pipeline \in Pipelines /\ runs = Cardinality(Named(pipeline, "dynamic-cc"))
  /\ step = 1 /\ visit = Order
  /\ direct = [F \in {} |-> 0] /\ opcodes = [F \in {} |-> 0]
  /\ at = [t \in Threads |-> <<>>] /\ greeted = [F \in Counted |-> 0]

\* The next pass sees printf_wrapper too, once it is there.
EndPass(wrapper) ==
  /\ step' = step + 1
  /\ visit' = IF wrapper # <<>> THEN Append(Order, Wrapper) ELSE Order
-----------------------------------------------------------------------------
(***************************************************************************)
(* InjectFuncCall, StaticCallCounter and OpcodeCounter.                    *)
(***************************************************************************)

Greeting == Inst("call", Printf, "inject-func-call")

\* Mutant: the call is put before the terminator.
WithGreetingLast(code) == Front(code) \o <<Greeting, Last(code)>>

\* A call of printf at getFirstInsertionPt of the entry block, with the name
\* of the function and its number of arguments; casts are constants.
WithGreeting(code) == <<Greeting>> \o code

Visiting(pass) == Running(pass) /\ visit # <<>>

\* A declaration, or a function without code.
SkipFunction ==
  /\ step \in DOMAIN pipeline /\ pipeline[step] # "dynamic-cc"
  /\ visit # <<>> /\ Head(visit) \in Declared
  /\ visit' = Tail(visit)
  /\ UNCHANGED <<vars, source, body, pipeline, step, counting, running>>

InjectGreeting ==
  /\ Visiting("inject-func-call") /\ Head(visit) \notin Declared
  /\ body' = [body EXCEPT ![Head(visit)] = WithGreeting(@)]
  /\ visit' = Tail(visit)
  /\ UNCHANGED <<vars, source, pipeline, step, counting, running>>

\* Mutant: an invoke is no call site.
CallSitesCall(code) == SelectSeq(code, LAMBDA i : i.op = "call")

\* ImmutableCallSite(&Ins) is one.
CallSites(code) == SelectSeq(code, LAMBDA i : i.op \in {"call", "invoke"})

\* Casts of the callee are stripped: what remains is a function or is not.
CountDirectCalls ==
  /\ Visiting("static-cc") /\ Head(visit) \notin Declared
  /\ LET sites == CallSites(body[Head(visit)])
         Of(F) == Cardinality({n \in DOMAIN sites : sites[n].callee = F})
         called == {sites[n].callee : n \in DOMAIN sites} \ {Pointer}
     IN  direct' = [F \in DOMAIN direct \cup called |->
                      (IF F \in DOMAIN direct THEN direct[F] ELSE 0) + Of(F)]
  /\ visit' = Tail(visit)
  /\ UNCHANGED <<vars, source, body, pipeline, step, opcodes, running>>

CountOpcodes ==
  /\ Visiting("opcode-counter") /\ Head(visit) \notin Declared
  /\ LET code == body[Head(visit)]
         Count(op) == Cardinality({n \in DOMAIN code : code[n].op = op})
     IN  opcodes' = [F \in DOMAIN opcodes \cup {Head(visit)} |->
                       IF F \in DOMAIN opcodes THEN opcodes[F]
                       ELSE [op \in {code[n].op : n \in DOMAIN code} |-> Count(op)]]
  /\ visit' = Tail(visit)
  /\ UNCHANGED <<vars, source, body, pipeline, step, direct, running>>

\* runOnModule returns, or the last function has been printed.
LeavePass ==
  /\ step \in DOMAIN pipeline /\ pipeline[step] # "dynamic-cc" /\ visit = <<>>
  /\ EndPass(blocks)
  /\ UNCHANGED <<vars, source, body, pipeline, counting, running>>
-----------------------------------------------------------------------------
(***************************************************************************)
(* DynamicCallCounter's code.                                              *)
(***************************************************************************)
Increment == <<Inst("load", NoCallee, "dynamic-cc"), Inst("add", NoCallee, "dynamic-cc"),
               Inst("store", NoCallee, "dynamic-cc")>>

\* The header, and a line for each of n functions.
Report(n) ==
  <<Inst("call", Printf, "report")>>
  \o [k \in 1..(2 * n) |-> IF k % 2 = 1 THEN Inst("load", NoCallee, "report")
                           ELSE Inst("call", Printf, "report")]
  \o <<Inst("ret", NoCallee, "report")>>

Instrument ==
  /\ Running("dynamic-cc")
  /\ \/ /\ RunAgain \/ \E F \in Declared : SkipDeclaration(F)
        /\ UNCHANGED <<passes, running>>
     \/ \E F \in Counted :
          /\ InjectCounter(F)
          /\ body' = [body EXCEPT ![F] = Increment \o @]
          /\ UNCHANGED <<source, pipeline, step, visit, counting, running>>
     \/ /\ DefineWrapper
        /\ body' = [body EXCEPT ![Wrapper] = @ \o Report(Cardinality(CallCounterMap))]
        /\ EndPass(blocks')
        /\ UNCHANGED <<source, pipeline, counting, running>>
-----------------------------------------------------------------------------
(***************************************************************************)
(* The program, with the code that stands at the start of its functions.   *)
(***************************************************************************)
Instr(t) == body[Top(t).func][Last(at[t])]

\* The thread has come to the function's own code.
PastPrologue(t) == stack[t] # <<>> /\ Instr(t).by \in {"source", "report"}

Pushed(t) == at' = [at EXCEPT ![t] = Append(@, 1)]
Advanced(t, n) == at' = [at EXCEPT ![t] = Append(Front(@), Last(@) + n)]

Load ==
  /\ step > Len(pipeline) /\ Start /\ Pushed(MainThread)
  /\ UNCHANGED <<passes, greeted>>

\* call @printf(formatStr, the function's name, its number of arguments)
PrintGreeting(t) ==
  /\ stack[t] # <<>> /\ Instr(t).by = "inject-func-call"
  /\ greeted' = [greeted EXCEPT ![Top(t).func] = @ + 1]
  /\ Advanced(t, 1)
  /\ UNCHANGED <<vars, passes>>

CountCall(t) ==
  /\ stack[t] # <<>> /\ Instr(t).by = "dynamic-cc"
  /\ \/ LoadCounter(t) /\ UNCHANGED at
     \/ StoreCounter(t) /\ Advanced(t, 3)
  /\ UNCHANGED <<passes, greeted>>

\* A call is made from a call site for it; a pointer may lead anywhere.
MayCall(f, g) ==
  \E n \in DOMAIN source[f] : /\ source[f][n] \in Range(CallSites(source[f]))
                              /\ source[f][n].callee \in {g, Pointer}

OwnStep(t) ==
  /\ PastPrologue(t)
  /\ \/ Call(t) /\ MayCall(Top(t).func, Last(stack'[t]).func) /\ Pushed(t)
     \/ Return(t) /\ at' = [at EXCEPT ![t] = Front(@)]
     \/ Exit(t) /\ Pushed(t)
     \/ PrintCounter(t) /\ UNCHANGED at
     \/ NextDtor(t) /\ at' = [at EXCEPT ![t] = Append(Front(@), 1)]
     \/ End(t) /\ at' = [s \in Threads |-> <<>>]
  /\ UNCHANGED <<passes, greeted>>

NewThread(t) == StartThread(t) /\ Pushed(t) /\ UNCHANGED <<passes, greeted>>

PassesNext ==
  \/ SkipFunction \/ InjectGreeting \/ CountDirectCalls \/ CountOpcodes \/ LeavePass
  \/ Instrument \/ Load
  \/ \E t \in Threads : PrintGreeting(t) \/ CountCall(t) \/ OwnStep(t) \/ NewThread(t)

PassesSpec == PassesInit /\ [][PassesNext]_<<vars, passes, running>>
-----------------------------------------------------------------------------
\* "inject-func-call" before, between or behind the runs of dynamic-cc: a
\* program with one thread greets once per call of a function and run of the
\* pass, and counting the calls does not depend on it (ReportExact).  The
\* function that prints the report greets for the runs that have seen it.
GreetingsExact ==
  pc = "done" /\ SingleThread =>
    LET injections == Named(pipeline, "inject-func-call")
        seen == {n \in injections : \E k \in Named(pipeline, "dynamic-cc") : k < n}
    IN  /\ \A F \in Defined : greeted[F] = Cardinality(injections) * calls[F]
        /\ greeted[Wrapper] = Cardinality(seen) * runs

HasRun(pass) == \E n \in Named(pipeline, pass) : n < step

\* The same module on the two sides: one pass directly behind the other.
SameModule ==
  \E n \in Named(pipeline, "static-cc"), k \in Named(pipeline, "opcode-counter") :
    n \in {k - 1, k + 1}

Total(f) == MapThenSumSet(LAMBDA x : f[x], DOMAIN f)
Pointers(f) == Cardinality({n \in DOMAIN source[f] : source[f][n].callee = Pointer})

\* The three counters agree.  What OpcodeCounter takes for calls and invokes
\* in all functions is what StaticCallCounter takes for direct calls and the
\* calls through pointers it leaves out; and wherever in the pipeline the
\* calls were counted, a program without pointers calls no function, main
\* excepted, that has no entry there.
CountsAgree ==
  /\ HasRun("static-cc") /\ HasRun("opcode-counter") /\ SameModule =>
       MapThenSumSet(LAMBDA F : Total(Restrict(opcodes[F], DOMAIN opcodes[F] \cap {"call", "invoke"})),
                     DOMAIN opcodes)
         = Total(direct) + MapThenSumSet(Pointers, Defined)
  /\ pc = "done" /\ SingleThread /\ HasRun("static-cc")
       /\ (\A F \in Defined : Pointers(F) = 0) =>
         \A F \in DOMAIN printed \ {Main} : printed[F] # 0 => F \in DOMAIN direct
=============================================================================
