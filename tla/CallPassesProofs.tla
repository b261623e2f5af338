-------------------------- MODULE CallPassesProofs --------------------------
(***************************************************************************)
(* The pipeline and the program with code implement CallCounters, whose    *)
(* theorems hold here too; and the greetings are exact, for every module,  *)
(* program with one thread, and pipeline.                                  *)
(*                                                                         *)
(* The invariant is about what stands at the start of a function: greetings *)
(* and whole increments in any order, then the function's own code.  The   *)
(* greetings there are the runs of inject-func-call that have visited the  *)
(* function, and each call of it prints those that stand ahead of it.      *)
(***************************************************************************)
EXTENDS CallPasses, CallCountersProofs, FunctionTheorems

\* Every step of the pipeline and of the program with code is one of
\* CallCounters, or does not touch its state.
LEMMA PassesStep ==
  ASSUME [PassesNext]_<<vars, passes, running>>
  PROVE  [Next]_vars
<1>1. CASE SkipFunction \/ InjectGreeting \/ CountDirectCalls \/ CountOpcodes \/ LeavePass
  BY <1>1 DEF SkipFunction, InjectGreeting, CountDirectCalls, CountOpcodes, LeavePass
<1>2. CASE Instrument
  BY <1>2 DEF Instrument, Next, Pass, Counted
<1>3. CASE Load
  BY <1>3 DEF Load, Next
<1>4. ASSUME NEW t \in Threads,
             PrintGreeting(t) \/ CountCall(t) \/ OwnStep(t) \/ NewThread(t)
      PROVE  [Next]_vars
  BY <1>4 DEF PrintGreeting, CountCall, OwnStep, NewThread, Next, Step
<1> QED
  BY <1>1, <1>2, <1>3, <1>4 DEF PassesNext

\* The passes as a pipeline, and code at the start of functions, implement
\* the counting of calls by itself: a pass between two runs of dynamic-cc, or
\* a greeting before an increment, adds no behaviour to it.
THEOREM ImplementsCallCounters == PassesSpec => Spec
<1>1. PassesInit => Init
  BY DEF PassesInit
<1>2. [PassesNext]_<<vars, passes, running>> => [Next]_vars
  BY PassesStep
<1> QED
  BY <1>1, <1>2, PTL DEF PassesSpec, Spec
-----------------------------------------------------------------------------
(***************************************************************************)
(* What stands at the start of a function.                                 *)
(***************************************************************************)
OwnCode == {"source", "report"}

\* Control may stand before this instruction: not within an increment.
CanStand(i) == i.by = "dynamic-cc" => i.op = "load"

\* What may come behind the instruction at n: control that stands there can
\* move on to where it can stand, and a function's own code is not left.
LaidAt(code, n) ==
  /\ code[n].by \in OwnCode => \A m \in DOMAIN code : m >= n => code[m].by \in OwnCode
  /\ code[n].by = "inject-func-call" => n + 1 \in DOMAIN code /\ CanStand(code[n + 1])
  /\ code[n].by = "dynamic-cc" /\ code[n].op = "load" =>
       /\ n + 3 \in DOMAIN code /\ CanStand(code[n + 3])
       /\ code[n + 1].by = "dynamic-cc" /\ code[n + 2].by = "dynamic-cc"

LaidOut(code) == CanStand(code[1]) /\ \A n \in DOMAIN code : LaidAt(code, n)

GreetingsIn(code) == {n \in DOMAIN code : code[n].by = "inject-func-call"}

Code == Seq(Instructions) \ {<<>>}

\* As many elements after a shift.
LEMMA Shifted ==
  ASSUME NEW S, S \subseteq Nat, IsFiniteSet(S), NEW k \in Nat
  PROVE  /\ IsFiniteSet({n + k : n \in S})
         /\ Cardinality({n + k : n \in S}) = Cardinality(S)
<1> DEFINE T == {n + k : n \in S}
           f == [n \in S |-> n + k]
<1>1. f \in [S -> T]
  OBVIOUS
<1>2. \A a, b \in S : f[a] = f[b] => a = b
  <2>1. \A a, b \in S : a + k = b + k => a = b
    OBVIOUS
  <2> QED
    BY <2>1, Zenon
<1>3. \A y \in T : \E x \in S : f[x] = y
  OBVIOUS
<1> HIDE DEF f, T
<1>4. f \in Bijection(S, T)
  BY <1>1, <1>2, <1>3, Fun_IsBij
<1>5. ExistsBijection(S, T)
  BY <1>4, Fun_ExistsBij
<1>6. IsFiniteSet(T) /\ Cardinality(T) = Cardinality(S)
  BY <1>5, FS_Bijection
<1> QED
  BY <1>6 DEF T

\* The parts of an instruction.
LEMMA InstParts ==
  ASSUME NEW op \in {"load", "add", "store", "call", "ret"},
         NEW callee, callee \in {Printf, NoCallee},
         NEW by \in {"source", "inject-func-call", "dynamic-cc", "report"}
  PROVE  /\ Inst(op, callee, by) \in Instructions
         /\ Inst(op, callee, by).op = op /\ Inst(op, callee, by).by = by
<1>1. op \in Opcodes /\ callee \in Defined \cup Declared \cup {Pointer, NoCallee}
  BY ModuleAssumption
<1> QED
  BY <1>1 DEF Inst, Instructions

\* The positions of a function's code.
LEMMA Positive ==
  ASSUME NEW code \in Code
  PROVE  /\ code \in Seq(Instructions) /\ Len(code) \in Nat \ {0}
         /\ DOMAIN code = 1..Len(code) /\ 1 \in DOMAIN code
<1>1. code \in Seq(Instructions) /\ code # <<>>
  BY DEF Code
<1> QED
  BY <1>1, EmptySeq, LenProperties

\* Greetings can be counted.
LEMMA GreetingsFinite ==
  ASSUME NEW code \in Code
  PROVE  /\ IsFiniteSet(GreetingsIn(code)) /\ GreetingsIn(code) \subseteq 1..Len(code)
         /\ Cardinality(GreetingsIn(code)) \in Nat
<1>1. IsFiniteSet(1..Len(code))
  BY Positive, FS_Interval
<1>2. GreetingsIn(code) \in SUBSET (1..Len(code))
  BY Positive DEF GreetingsIn
<1> QED
  BY <1>1, <1>2, FS_Subset, FS_CardinalityType

\* Two pieces of code, one behind the other.
LEMMA Behind ==
  ASSUME NEW pre \in Code, NEW code \in Code
  PROVE  /\ pre \o code \in Code /\ DOMAIN (pre \o code) = 1..(Len(pre) + Len(code))
         /\ \A i \in 1..Len(pre) : (pre \o code)[i] = pre[i]
         /\ \A i \in 1..Len(code) : (pre \o code)[i + Len(pre)] = code[i]
<1> DEFINE c == pre \o code
           k == Len(pre)
           m == Len(code)
<1>1. /\ pre \in Seq(Instructions) /\ code \in Seq(Instructions)
      /\ k \in Nat \ {0} /\ m \in Nat \ {0}
  BY Positive
<1>2. /\ c \in Seq(Instructions) /\ Len(c) = k + m
      /\ \A i \in 1..(k + m) : c[i] = IF i <= k THEN pre[i] ELSE code[i - k]
  BY <1>1, ConcatProperties
<1> HIDE DEF c, k, m
<1>3. c \in Code /\ DOMAIN c = 1..(k + m)
  BY <1>1, <1>2, EmptySeq, LenProperties DEF Code
<1>4. \A i \in 1..k : c[i] = pre[i]
  BY <1>1, <1>2
<1>5. ASSUME NEW i \in 1..m PROVE c[i + k] = code[i]
  <2>1. i + k \in 1..(k + m) /\ ~(i + k <= k) /\ (i + k) - k = i
    BY <1>1
  <2> QED
    BY <1>2, <2>1
<1> QED
  BY <1>3, <1>4, <1>5 DEF c, k, m

\* What is well laid out stays so behind other code.
LEMMA LaidBehind ==
  ASSUME NEW pre \in Code, NEW code \in Code, LaidOut(code)
  PROVE  /\ CanStand((pre \o code)[Len(pre) + 1])
         /\ \A n \in DOMAIN (pre \o code) : n > Len(pre) => LaidAt(pre \o code, n)
<1> DEFINE c == pre \o code
           k == Len(pre)
           m == Len(code)
<1>1. k \in Nat \ {0} /\ m \in Nat \ {0} /\ DOMAIN code = 1..m
  BY Positive
<1>2. DOMAIN c = 1..(k + m) /\ \A i \in 1..m : c[i + k] = code[i]
  BY Behind
<1> HIDE DEF c, k, m
<1>3. CanStand(c[k + 1])
  <2>1. c[1 + k] = code[1] /\ 1 + k = k + 1
    BY <1>1, <1>2
  <2> QED
    BY <2>1 DEF LaidOut
<1>4. ASSUME NEW i \in 1..m
      PROVE  LaidAt(c, i + k)
  <2>1. LaidAt(code, i) /\ c[i + k] = code[i]
    BY <1>1, <1>2 DEF LaidOut
  <2>2. ASSUME c[i + k].by \in OwnCode, NEW j \in DOMAIN c, j >= i + k
        PROVE  c[j].by \in OwnCode
    <3>1. j - k \in 1..m /\ j - k >= i /\ (j - k) + k = j
      BY <1>1, <1>2, <2>2
    <3>2. c[j] = code[j - k]
      BY <1>2, <3>1
    <3> QED
      BY <1>1, <2>1, <2>2, <3>1, <3>2 DEF LaidAt
  <2>3. ASSUME NEW d \in Nat, i + d \in 1..m
        PROVE  (i + k) + d \in DOMAIN c /\ c[(i + k) + d] = code[i + d]
    <3>1. (i + d) + k = (i + k) + d /\ (i + k) + d \in 1..(k + m)
      BY <1>1, <2>3
    <3> QED
      BY <1>2, <2>3, <3>1
  <2>4. c[i + k].by = "inject-func-call" =>
          (i + k) + 1 \in DOMAIN c /\ CanStand(c[(i + k) + 1])
    BY <1>1, <2>1, <2>3 DEF LaidAt
  <2>5. c[i + k].by = "dynamic-cc" /\ c[i + k].op = "load" =>
          /\ (i + k) + 3 \in DOMAIN c /\ CanStand(c[(i + k) + 3])
          /\ c[(i + k) + 1].by = "dynamic-cc" /\ c[(i + k) + 2].by = "dynamic-cc"
    <3>1. SUFFICES ASSUME c[i + k].by = "dynamic-cc", c[i + k].op = "load"
                   PROVE  /\ (i + k) + 3 \in DOMAIN c /\ CanStand(c[(i + k) + 3])
                          /\ c[(i + k) + 1].by = "dynamic-cc"
                          /\ c[(i + k) + 2].by = "dynamic-cc"
      OBVIOUS
    <3>2. /\ i + 3 \in 1..m /\ CanStand(code[i + 3])
          /\ code[i + 1].by = "dynamic-cc" /\ code[i + 2].by = "dynamic-cc"
      BY <1>1, <2>1, <3>1 DEF LaidAt
    <3>3. i + 1 \in 1..m /\ i + 2 \in 1..m
      BY <1>1, <3>2
    <3> QED
      BY <2>3, <3>2, <3>3
  <2> QED
    BY <2>2, <2>4, <2>5 DEF LaidAt
<1>5. ASSUME NEW n \in DOMAIN c, n > k PROVE LaidAt(c, n)
  <2>1. n - k \in 1..m /\ (n - k) + k = n
    BY <1>1, <1>2, <1>5
  <2> QED
    BY <1>4, <2>1
<1> QED
  BY <1>3, <1>5 DEF c, k

\* The greetings of both pieces.
LEMMA GreetingsBehind ==
  ASSUME NEW pre \in Code, NEW code \in Code
  PROVE  Cardinality(GreetingsIn(pre \o code))
           = Cardinality(GreetingsIn(pre)) + Cardinality(GreetingsIn(code))
<1> DEFINE k == Len(pre)
           m == Len(code)
           P == GreetingsIn(pre)
           S == GreetingsIn(code)
           T == {n + k : n \in S}
<1>1. /\ k \in Nat \ {0} /\ m \in Nat \ {0}
      /\ DOMAIN pre = 1..k /\ DOMAIN code = 1..m
  BY Positive
<1>2. /\ DOMAIN (pre \o code) = 1..(k + m)
      /\ \A i \in 1..k : (pre \o code)[i] = pre[i]
      /\ \A i \in 1..m : (pre \o code)[i + k] = code[i]
  BY Behind
<1>3. /\ P \subseteq 1..k /\ IsFiniteSet(P) /\ Cardinality(P) \in Nat
      /\ S \subseteq 1..m /\ IsFiniteSet(S) /\ Cardinality(S) \in Nat
  BY GreetingsFinite
<1> HIDE DEF k, m
<1>4. GreetingsIn(pre \o code) = P \cup T
  <2>1. \A n \in 1..k : n \in GreetingsIn(pre \o code) <=> n \in P
    BY <1>1, <1>2 DEF GreetingsIn
  <2>2. \A i \in 1..m : i + k \in GreetingsIn(pre \o code) <=> i \in S
    BY <1>1, <1>2 DEF GreetingsIn
  <2>3. GreetingsIn(pre \o code) \subseteq 1..(k + m)
    BY <1>2 DEF GreetingsIn
  <2>4. \A n \in 1..(k + m) : n \in 1..k \/ (n - k \in 1..m /\ n = (n - k) + k)
    BY <1>1
  <2> HIDE DEF P, S
  <2>5. ASSUME NEW n \in GreetingsIn(pre \o code) PROVE n \in P \cup T
    <3>1. CASE n \in 1..k
      BY <2>1, <2>5, <3>1
    <3>2. CASE n - k \in 1..m /\ n = (n - k) + k
      BY <2>2, <2>5, <3>2
    <3> QED
      BY <2>3, <2>4, <3>1, <3>2
  <2>6. P \cup T \subseteq GreetingsIn(pre \o code)
    BY <1>3, <2>1, <2>2
  <2> QED
    BY <2>5, <2>6
<1>5. P \cap T = {} /\ S \subseteq Nat /\ k \in Nat
  BY <1>1, <1>3
<1> HIDE DEF S
<1>6. IsFiniteSet(T) /\ Cardinality(T) = Cardinality(S)
  BY <1>3, <1>5, Shifted, Zenon
<1> HIDE DEF T
<1> HIDE DEF P
<1>7. Cardinality(P \cup T) = Cardinality(P) + Cardinality(T) - Cardinality(P \cap T)
  BY <1>3, <1>6, FS_Union
<1>8. Cardinality(P \cap T) = 0
  BY <1>5, FS_EmptySet
<1> QED
  BY <1>3, <1>4, <1>6, <1>7, <1>8 DEF P, S

\* inject-func-call puts one more greeting before all that stands there.
LEMMA GreetingAdded ==
  ASSUME NEW code \in Code, LaidOut(code)
  PROVE  /\ WithGreeting(code) \in Code /\ LaidOut(WithGreeting(code))
         /\ Cardinality(GreetingsIn(WithGreeting(code))) = Cardinality(GreetingsIn(code)) + 1
<1> DEFINE pre == <<Greeting>>
           c == pre \o code
<1>1. Greeting \in Instructions /\ Greeting.by = "inject-func-call"
  BY InstParts DEF Greeting
<1>2. pre \in Code /\ Len(pre) = 1 /\ pre[1] = Greeting /\ DOMAIN pre = 1..1
  BY <1>1 DEF Code
<1>3. /\ c \in Code /\ DOMAIN c = 1..(1 + Len(code)) /\ Len(code) \in Nat \ {0}
      /\ c[1] = Greeting
  BY <1>2, Behind, Positive
<1>4. CanStand(c[1 + 1]) /\ \A n \in DOMAIN c : n > 1 => LaidAt(c, n)
  BY <1>2, LaidBehind
<1>5. Cardinality(GreetingsIn(c)) = Cardinality(GreetingsIn(pre)) + Cardinality(GreetingsIn(code))
  BY <1>2, GreetingsBehind
<1>6. GreetingsIn(pre) = {1}
  BY <1>1, <1>2 DEF GreetingsIn
<1>7. Cardinality(GreetingsIn(pre)) = 1
  BY <1>6, FS_Singleton
<1>8. WithGreeting(code) = c
  BY DEF WithGreeting
<1> HIDE DEF pre, c
<1>9. LaidOut(c)
  <2>1. LaidAt(c, 1)
    BY <1>1, <1>3, <1>4 DEF LaidAt, OwnCode
  <2>2. CanStand(c[1])
    BY <1>1, <1>3 DEF CanStand
  <2> QED
    BY <1>3, <1>4, <2>1, <2>2 DEF LaidOut
<1> QED
  BY <1>3, <1>5, <1>7, <1>8, <1>9, GreetingsFinite

\* dynamic-cc puts a whole increment there.
LEMMA IncrementAdded ==
  ASSUME NEW code \in Code, LaidOut(code)
  PROVE  /\ Increment \o code \in Code /\ LaidOut(Increment \o code)
         /\ Cardinality(GreetingsIn(Increment \o code)) = Cardinality(GreetingsIn(code))
<1> DEFINE pre == Increment
           c == pre \o code
<1>1. /\ pre \in Code /\ Len(pre) = 3 /\ DOMAIN pre = 1..3
      /\ pre[1].op = "load" /\ \A i \in 1..3 : pre[i].by = "dynamic-cc"
      /\ pre[2].op # "load" /\ pre[3].op # "load"
  <2> DEFINE load == Inst("load", NoCallee, "dynamic-cc")
             add == Inst("add", NoCallee, "dynamic-cc")
             store == Inst("store", NoCallee, "dynamic-cc")
  <2>1. /\ load \in Instructions /\ load.op = "load" /\ load.by = "dynamic-cc"
        /\ add \in Instructions /\ add.op = "add" /\ add.by = "dynamic-cc"
        /\ store \in Instructions /\ store.op = "store" /\ store.by = "dynamic-cc"
    BY InstParts
  <2>2. pre = <<load, add, store>>
    BY DEF Increment
  <2> HIDE DEF load, add, store, pre
  <2>3. /\ pre \in Seq(Instructions) /\ pre # <<>> /\ Len(pre) = 3 /\ DOMAIN pre = 1..3
        /\ pre[1] = load /\ pre[2] = add /\ pre[3] = store
    BY <2>1, <2>2
  <2> QED
    BY <2>1, <2>3 DEF Code
<1>2. pre \in Code
  BY <1>1
<1> HIDE DEF pre
<1>3. /\ c \in Code /\ DOMAIN c = 1..(3 + Len(code)) /\ Len(code) \in Nat \ {0}
      /\ \A i \in 1..3 : c[i] = pre[i]
  <2>1. /\ c \in Code /\ DOMAIN c = 1..(Len(pre) + Len(code))
        /\ \A i \in 1..Len(pre) : c[i] = pre[i]
    BY <1>2, Behind
  <2>2. Len(code) \in Nat \ {0}
    BY Positive
  <2> QED
    BY <1>1, <2>1, <2>2
<1>4. CanStand(c[3 + 1]) /\ \A n \in DOMAIN c : n > 3 => LaidAt(c, n)
  BY <1>1, <1>2, LaidBehind
<1>5. Cardinality(GreetingsIn(c)) = Cardinality(GreetingsIn(pre)) + Cardinality(GreetingsIn(code))
  BY <1>2, GreetingsBehind
<1>6. GreetingsIn(pre) = {}
  BY <1>1 DEF GreetingsIn
<1>7. Cardinality(GreetingsIn(pre)) = 0
  BY <1>6, FS_EmptySet
<1>8. Increment \o code = c
  BY DEF pre
<1> HIDE DEF c
<1>9. LaidOut(c)
  <2>1. LaidAt(c, 1)
    BY <1>1, <1>3, <1>4 DEF LaidAt, OwnCode
  <2>2. LaidAt(c, 2) /\ LaidAt(c, 3)
    BY <1>1, <1>3 DEF LaidAt, OwnCode
  <2>3. CanStand(c[1])
    BY <1>1, <1>3 DEF CanStand
  <2>4. \A n \in DOMAIN c : n = 1 \/ n = 2 \/ n = 3 \/ n > 3
    BY <1>3
  <2> QED
    BY <1>3, <1>4, <2>1, <2>2, <2>3, <2>4 DEF LaidOut
<1> QED
  BY <1>3, <1>5, <1>7, <1>8, <1>9, GreetingsFinite

\* A report is its writer's own code.
LEMMA ReportCode ==
  ASSUME NEW n \in Nat
  PROVE  /\ Report(n) \in Code /\ LaidOut(Report(n)) /\ GreetingsIn(Report(n)) = {}
         /\ \A i \in DOMAIN Report(n) : Report(n)[i].by = "report"
<1> DEFINE call == Inst("call", Printf, "report")
           load == Inst("load", NoCallee, "report")
           ret == Inst("ret", NoCallee, "report")
           lines == [k \in 1..(2 * n) |-> IF k % 2 = 1 THEN load ELSE call]
           r == {i \in Instructions : i.by = "report"}
<1>1. call \in r /\ load \in r /\ ret \in r
  BY InstParts
<1>2. Report(n) = <<call>> \o lines \o <<ret>>
  BY DEF Report
<1> HIDE DEF call, load, ret
<1>3. 2 * n \in Nat /\ lines \in [1..(2 * n) -> r]
  BY <1>1
<1> HIDE DEF r
<1>4. lines \in Seq(r)
  BY <1>3
<1>5. <<call>> \in Seq(r) /\ <<ret>> \in Seq(r) /\ Len(<<call>>) = 1 /\ Len(<<ret>>) = 1
  BY <1>1
<1> HIDE DEF lines
<1>6. <<call>> \o lines \in Seq(r) /\ Len(<<call>> \o lines) \in Nat
  BY <1>4, <1>5, ConcatProperties, LenProperties
<1>7. Report(n) \in Seq(r) /\ Len(Report(n)) = Len(<<call>> \o lines) + 1
  BY <1>2, <1>5, <1>6, ConcatProperties
<1>8. DOMAIN Report(n) = 1..Len(Report(n)) /\ Report(n) # <<>> /\ 1 \in DOMAIN Report(n)
  BY <1>6, <1>7, EmptySeq, LenProperties
<1>9. r \subseteq Instructions /\ \A i \in r : i.by = "report"
  BY DEF r
<1>10. Report(n) \in Code
  BY <1>7, <1>8, <1>9, SeqMonotonic DEF Code
<1>11. \A i \in DOMAIN Report(n) : Report(n)[i].by = "report"
  BY <1>7, <1>8, <1>9, ElementOfSeq
<1> QED
  BY <1>8, <1>10, <1>11 DEF LaidOut, LaidAt, CanStand, OwnCode, GreetingsIn

\* DefineWrapper appends a report to what printf_wrapper has.
LEMMA ReportAdded ==
  ASSUME NEW code \in Code, LaidOut(code), NEW n \in Nat
  PROVE  /\ code \o Report(n) \in Code /\ LaidOut(code \o Report(n))
         /\ Cardinality(GreetingsIn(code \o Report(n))) = Cardinality(GreetingsIn(code))
<1> DEFINE rep == Report(n)
           c == code \o rep
           k == Len(code)
           m == Len(rep)
<1>1. /\ rep \in Code /\ LaidOut(rep) /\ GreetingsIn(rep) = {}
      /\ \A i \in DOMAIN rep : rep[i].by = "report"
  BY ReportCode
<1> HIDE DEF rep
<1>2. /\ k \in Nat \ {0} /\ m \in Nat \ {0}
      /\ DOMAIN code = 1..k /\ DOMAIN rep = 1..m
  BY <1>1, Positive
<1>3. /\ c \in Code /\ DOMAIN c = 1..(k + m)
      /\ \A i \in 1..k : c[i] = code[i]
      /\ \A i \in 1..m : c[i + k] = rep[i]
  BY <1>1, Behind
<1>4. \A i \in DOMAIN c : i > k => LaidAt(c, i)
  BY <1>1, LaidBehind
<1> HIDE DEF c, k, m
<1>5. ASSUME NEW j \in DOMAIN c, j > k PROVE c[j].by = "report"
  <2>1. j - k \in 1..m /\ (j - k) + k = j
    BY <1>2, <1>3, <1>5
  <2> QED
    BY <1>1, <1>2, <1>3, <2>1
<1>6. ASSUME NEW i \in 1..k
      PROVE  LaidAt(c, i)
  <2>1. LaidAt(code, i) /\ c[i] = code[i]
    BY <1>2, <1>3, <1>6 DEF LaidOut
  <2>2. ASSUME c[i].by \in OwnCode, NEW j \in DOMAIN c, j >= i
        PROVE  c[j].by \in OwnCode
    <3>1. CASE j > k
      BY <1>5, <3>1 DEF OwnCode
    <3>2. CASE ~(j > k)
      <4>1. j \in 1..k
        BY <1>2, <1>3, <3>2
      <4> QED
        BY <1>2, <1>3, <2>1, <2>2, <4>1 DEF LaidAt
    <3> QED
      BY <3>1, <3>2
  <2>3. \A j \in 1..k : j \in DOMAIN c /\ c[j] = code[j]
    BY <1>2, <1>3
  <2>4. c[i].by = "inject-func-call" => i + 1 \in DOMAIN c /\ CanStand(c[i + 1])
    BY <1>2, <2>1, <2>3 DEF LaidAt
  <2>5. c[i].by = "dynamic-cc" /\ c[i].op = "load" =>
          /\ i + 3 \in DOMAIN c /\ CanStand(c[i + 3])
          /\ c[i + 1].by = "dynamic-cc" /\ c[i + 2].by = "dynamic-cc"
    <3>1. SUFFICES ASSUME c[i].by = "dynamic-cc", c[i].op = "load"
                   PROVE  /\ i + 3 \in DOMAIN c /\ CanStand(c[i + 3])
                          /\ c[i + 1].by = "dynamic-cc" /\ c[i + 2].by = "dynamic-cc"
      OBVIOUS
    <3>2. /\ i + 3 \in 1..k /\ CanStand(code[i + 3])
          /\ code[i + 1].by = "dynamic-cc" /\ code[i + 2].by = "dynamic-cc"
      BY <1>2, <2>1, <3>1 DEF LaidAt
    <3>3. i + 1 \in 1..k /\ i + 2 \in 1..k
      BY <1>2, <3>2
    <3> QED
      BY <2>3, <3>2, <3>3
  <2> QED
    BY <2>2, <2>4, <2>5 DEF LaidAt
<1>7. LaidOut(c)
  <2>1. CanStand(c[1])
    BY <1>2, <1>3 DEF LaidOut
  <2>2. \A i \in DOMAIN c : i \in 1..k \/ i > k
    BY <1>2, <1>3
  <2> QED
    BY <1>4, <1>6, <2>1, <2>2 DEF LaidOut
<1>8. Cardinality(GreetingsIn(c)) = Cardinality(GreetingsIn(code)) + Cardinality(GreetingsIn(rep))
  BY <1>1, GreetingsBehind DEF c
<1>9. Cardinality(GreetingsIn(rep)) = 0 /\ Cardinality(GreetingsIn(code)) \in Nat
  BY <1>1, FS_EmptySet, GreetingsFinite
<1> QED
  BY <1>3, <1>7, <1>8, <1>9 DEF c, rep
-----------------------------------------------------------------------------
(***************************************************************************)
(* The pipeline.                                                           *)
(***************************************************************************)
Functions == Defined \cup Declared \cup {Wrapper}

PipelineType ==
  /\ pipeline \in Pipelines /\ step \in Nat
  /\ visit \in Seq(Functions) /\ IsInjective(visit)
  /\ body \in [Counted -> Seq(Instructions)]

\* printf_wrapper is there, and is visited, from the end of the first run of
\* dynamic-cc on.  The program is not started before the pipeline has ended.
Visits ==
  /\ blocks # <<>> <=> \E k \in Named(pipeline, "dynamic-cc") : k < step
  /\ blocks = <<>> => Wrapper \notin Range(visit) \cup todo
  /\ ~Passing => step > Len(pipeline)

\* The runs of inject-func-call that have visited F.
Injections(F) ==
  {n \in Named(pipeline, "inject-func-call") :
     /\ n < step \/ (n = step /\ F \notin Range(visit))
     /\ F = Wrapper => \E k \in Named(pipeline, "dynamic-cc") : k < n}

\* Functions with code are laid out, and greet once for each of these runs.
Prepared ==
  /\ \A F \in Defined : body[F] \in Code
  /\ IF blocks = <<>> THEN body[Wrapper] = <<>> ELSE body[Wrapper] \in Code
  /\ \A F \in Counted : body[F] # <<>> => LaidOut(body[F])
  /\ \A F \in Counted : Cardinality(GreetingsIn(body[F])) = Cardinality(Injections(F))

\* The positions in a pipeline.
LEMMA PipelinePositions ==
  ASSUME PipelineType
  PROVE  /\ pipeline \in Seq(PassNames) /\ Len(pipeline) \in Nat /\ DOMAIN pipeline = 1..Len(pipeline)
         /\ \A pass : IsFiniteSet(Named(pipeline, pass)) /\ Named(pipeline, pass) \subseteq Nat
<1>1. pipeline \in Seq(PassNames)
  BY ModuleAssumption DEF PipelineType
<1>2. Len(pipeline) \in Nat /\ DOMAIN pipeline = 1..Len(pipeline)
  BY <1>1, LenProperties
<1>3. IsFiniteSet(1..Len(pipeline))
  BY <1>2, FS_Interval
<1>4. ASSUME NEW pass PROVE IsFiniteSet(Named(pipeline, pass)) /\ Named(pipeline, pass) \subseteq Nat
  <2>1. Named(pipeline, pass) \in SUBSET (1..Len(pipeline))
    BY <1>2 DEF Named
  <2>2. IsFiniteSet(Named(pipeline, pass))
    BY <1>3, <2>1, FS_Subset
  <2> QED
    BY <1>2, <2>1, <2>2
<1> QED
  BY <1>1, <1>2, <1>4

\* The runs that have visited a function can be counted.
LEMMA InjectionsFinite ==
  ASSUME PipelineType, NEW F
  PROVE  IsFiniteSet(Injections(F)) /\ Cardinality(Injections(F)) \in Nat
<1>1. IsFiniteSet(Named(pipeline, "inject-func-call"))
  BY PipelinePositions
<1>2. Injections(F) \in SUBSET Named(pipeline, "inject-func-call")
  BY DEF Injections
<1> QED
  BY <1>1, <1>2, FS_Subset, FS_CardinalityType

\* A pass visits one function after another, and none twice.
LEMMA VisitOne ==
  ASSUME PipelineType, visit # <<>>
  PROVE  /\ Tail(visit) \in Seq(Functions) /\ IsInjective(Tail(visit))
         /\ Head(visit) \in Range(visit) /\ Head(visit) \in Functions
         /\ Range(Tail(visit)) = Range(visit) \ {Head(visit)}
<1> DEFINE m == Len(visit)
           s == Tail(visit)
<1>1. visit \in Seq(Functions) /\ m \in Nat \ {0} /\ DOMAIN visit = 1..m
  BY EmptySeq, LenProperties DEF PipelineType
<1>2. /\ s \in Seq(Functions) /\ Len(s) = m - 1 /\ DOMAIN s = 1..(m - 1)
      /\ \A i \in 1..(m - 1) : s[i] = visit[i + 1]
  BY <1>1, HeadTailProperties, LenProperties
<1>3. Head(visit) = visit[1]
  BY <1>1
<1>4. \A i, j \in 1..m : visit[i] = visit[j] => i = j
  BY <1>1 DEF PipelineType, IsInjective
<1>5. visit[1] \in Functions
  BY <1>1
<1> HIDE DEF m, s
<1>6. \A i \in 1..(m - 1) : i + 1 \in 1..m /\ i + 1 # 1
  BY <1>1
<1>7. \A i \in 1..m : i = 1 \/ (i - 1 \in 1..(m - 1) /\ (i - 1) + 1 = i)
  BY <1>1
<1>8. \A i, j \in 1..(m - 1) : s[i] = s[j] => i = j
  <2> SUFFICES ASSUME NEW i \in 1..(m - 1), NEW j \in 1..(m - 1), s[i] = s[j] PROVE i = j
    OBVIOUS
  <2>1. i + 1 = j + 1
    BY <1>2, <1>4, <1>6
  <2> QED
    BY <1>1, <2>1
<1>9. \A i \in 1..(m - 1) : s[i] \in Range(visit) /\ s[i] # visit[1]
  BY <1>1, <1>2, <1>4, <1>6 DEF Range
<1>10. \A i \in 1..m : visit[i] = visit[1] \/ visit[i] \in Range(s)
  <2> SUFFICES ASSUME NEW i \in 1..m, i # 1 PROVE visit[i] \in Range(s)
    OBVIOUS
  <2>1. s[i - 1] = visit[i] /\ i - 1 \in DOMAIN s
    BY <1>2, <1>7
  <2> QED
    BY <2>1 DEF Range
<1>11. Range(s) = Range(visit) \ {visit[1]}
  <2>1. Range(s) \subseteq Range(visit) \ {visit[1]}
    BY <1>2, <1>9 DEF Range
  <2>2. Range(visit) \ {visit[1]} \subseteq Range(s)
    BY <1>1, <1>10 DEF Range
  <2> QED
    BY <2>1, <2>2
<1>12. visit[1] \in Range(visit)
  BY <1>1 DEF Range
<1> QED
  BY <1>2, <1>3, <1>5, <1>8, <1>11, <1>12 DEF IsInjective, s

\* The next pass visits the functions of the module as it is then.
LEMMA NextVisit ==
  ASSUME NEW w, NEW v, v = IF w # <<>> THEN Append(Order, Wrapper) ELSE Order
  PROVE  /\ v \in Seq(Functions) /\ IsInjective(v)
         /\ Range(v) = Defined \cup Declared \cup (IF w # <<>> THEN {Wrapper} ELSE {})
<1> DEFINE m == Len(Order)
           s == Append(Order, Wrapper)
<1>1. /\ Order \in Seq(Defined \cup Declared) /\ IsInjective(Order)
      /\ Range(Order) = Defined \cup Declared /\ Wrapper \notin Defined \cup Declared
  BY ModuleAssumption, FunctionsAssumption
<1>2. Order \in Seq(Functions)
  BY <1>1, SeqMonotonic DEF Functions
<1>3. m \in Nat /\ DOMAIN Order = 1..m
  BY <1>1, LenProperties
<1>4. /\ s \in Seq(Functions) /\ DOMAIN s = 1..(m + 1) /\ s[m + 1] = Wrapper
      /\ \A i \in 1..m : s[i] = Order[i]
  BY <1>2, AppendProperties, LenProperties DEF Functions
<1> HIDE DEF m, s
<1>5. \A i \in 1..(m + 1) : i \in 1..m \/ i = m + 1
  BY <1>3
<1>6. \A i \in 1..m : Order[i] \in Range(Order)
  BY <1>3 DEF Range
<1>7. IsInjective(s)
  BY <1>1, <1>3, <1>4, <1>5, <1>6 DEF IsInjective
<1>8. Range(s) = Range(Order) \cup {Wrapper}
  <2>1. \A i \in DOMAIN s : s[i] \in Range(Order) \cup {Wrapper}
    BY <1>4, <1>5, <1>6
  <2>2. \A i \in 1..m : i \in DOMAIN s
    BY <1>3, <1>4
  <2>3. Range(Order) \subseteq Range(s)
    BY <1>3, <1>4, <2>2 DEF Range
  <2>4. m + 1 \in DOMAIN s
    BY <1>3, <1>4
  <2>5. Wrapper \in Range(s)
    BY <1>4, <2>4 DEF Range
  <2> QED
    BY <2>1, <2>3, <2>5 DEF Range
<1> QED
  BY <1>1, <1>2, <1>4, <1>7, <1>8 DEF s

\* At first: no greetings, and nothing but the functions' own code.
LEMMA InitPrepared ==
  ASSUME PassesInit
  PROVE  PipelineType /\ Visits /\ Prepared
<1> USE DEF PassesInit
<1>1. \A F \in Defined : /\ body[F] = source[F] /\ body[F] \in Code
                          /\ \A n \in DOMAIN body[F] : body[F][n].by = "source"
  <2>1. Wrapper \notin Defined
    BY FunctionsAssumption
  <2> QED
    BY <2>1, ModuleAssumption DEF Code, Counted
<1>2. body[Wrapper] = <<>>
  BY DEF Counted
<1>3. PipelineType
  <2>1. visit \in Seq(Functions) /\ IsInjective(visit)
    BY NextVisit
  <2>2. \A F \in Counted : body[F] \in Seq(Instructions)
    BY <1>1, <1>2 DEF Counted, Code
  <2>3. body \in [Counted -> Seq(Instructions)]
    BY <2>2
  <2> QED
    BY <2>1, <2>3 DEF PipelineType
<1>4. /\ Named(pipeline, "dynamic-cc") \subseteq 1..Len(pipeline)
      /\ Named(pipeline, "inject-func-call") \subseteq 1..Len(pipeline)
      /\ Len(pipeline) \in Nat
  BY <1>3, PipelinePositions DEF Named
<1>5. Range(visit) = Defined \cup Declared
  BY ModuleAssumption
<1>6. Visits
  BY <1>4, <1>5, FunctionsAssumption DEF Visits, Init, Passing
<1>7. ASSUME NEW F \in Counted
      PROVE  /\ body[F] # <<>> => LaidOut(body[F])
             /\ GreetingsIn(body[F]) = {} /\ Injections(F) = {}
  <2>1. Injections(F) = {}
    <3>1. ASSUME NEW n \in Injections(F) PROVE FALSE
      <4>1. n \in Nat /\ n >= 1
        BY <1>4 DEF Injections
      <4>2. n = 1 /\ F \notin Range(visit)
        BY <4>1 DEF Injections
      <4>3. F = Wrapper
        BY <1>5, <4>2 DEF Counted
      <4> QED
        BY <1>4, <4>2, <4>3 DEF Injections
    <3> QED
      BY <3>1
  <2>2. CASE F = Wrapper
    BY <1>2, <2>1, <2>2 DEF GreetingsIn
  <2>3. CASE F \in Defined
    <3>1. 1 \in DOMAIN body[F]
      BY <1>1, <2>3, Positive
    <3> DEFINE code == body[F]
    <3>2. \A n \in DOMAIN code : code[n].by = "source"
      BY <1>1, <2>3
    <3> HIDE DEF code
    <3>3. CanStand(code[1])
      BY <3>1, <3>2 DEF CanStand, code
    <3>4. \A n \in DOMAIN code : LaidAt(code, n)
      BY <3>2 DEF LaidAt, OwnCode
    <3>5. GreetingsIn(code) = {}
      BY <3>2 DEF GreetingsIn
    <3> QED
      BY <2>1, <3>3, <3>4, <3>5 DEF LaidOut, code
  <2> QED
    BY <2>2, <2>3 DEF Counted
<1>8. blocks = <<>>
  BY DEF Init
<1> QED
  BY <1>1, <1>2, <1>3, <1>6, <1>7, <1>8 DEF Prepared

\* What a pass is visiting, and has behind it, when it goes on to the next
\* function: only a run of inject-func-call then counts for the one it leaves.
LEMMA SameInjections ==
  ASSUME PipelineType, visit # <<>>, NEW F,
         pipeline' = pipeline, step' = step, visit' = Tail(visit),
         F # Head(visit) \/ step \notin Named(pipeline, "inject-func-call")
  PROVE  Injections(F)' = Injections(F)
<1>1. Range(visit') = Range(visit) \ {Head(visit)}
  BY VisitOne
<1> QED
  BY <1>1 DEF Injections, Named

\* A function a pass visits has code, unless it is a declaration.
LEMMA HasCode ==
  ASSUME Visits, Prepared, NEW F \in Counted,
         F \in Range(visit) \/ F \in todo \/ blocks # <<>>
  PROVE  body[F] \in Code /\ LaidOut(body[F]) /\ body[F] # <<>>
<1>1. body[F] \in Code
  BY DEF Visits, Prepared, Counted
<1> QED
  BY <1>1 DEF Prepared, Code

\* Where no pass is running the pipeline, nothing of it changes.
LEMMA PipelineStays ==
  ASSUME PipelineType, Visits, Prepared, UNCHANGED <<passes, blocks, todo>>,
         pc' = pc \/ ~Passing \/ step > Len(pipeline)
  PROVE  PipelineType' /\ Visits' /\ Prepared'
<1> USE DEF passes, counting
<1>1. PipelineType'
  BY DEF PipelineType
<1>2. Visits'
  BY DEF Visits, Named, Passing
<1>3. \A F : Injections(F)' = Injections(F)
  BY DEF Injections, Named
<1>4. Prepared'
  BY <1>3 DEF Prepared
<1> QED
  BY <1>1, <1>2, <1>4

\* A pass leaves a function it has visited as it was.
LEMMA SkipStep ==
  ASSUME PipelineType, Visits, Prepared,
         SkipFunction \/ CountDirectCalls \/ CountOpcodes
  PROVE  PipelineType' /\ Visits' /\ Prepared'
<1>1. /\ visit # <<>> /\ visit' = Tail(visit)
      /\ UNCHANGED <<pipeline, step, body, vars>>
      /\ Head(visit) \in Declared \/ step \notin Named(pipeline, "inject-func-call")
  BY DEF SkipFunction, CountDirectCalls, CountOpcodes, Visiting, Running, Named
<1>2. \A F \in Counted : F \notin Declared
  BY FunctionsAssumption DEF Counted
<1>3. \A F \in Counted : Injections(F)' = Injections(F)
  BY <1>1, <1>2, SameInjections
<1>4. UNCHANGED <<pc, blocks, todo>>
  BY <1>1 DEF vars, module
<1>5. PipelineType'
  BY <1>1, VisitOne DEF PipelineType
<1>6. Visits'
  BY <1>1, <1>4, VisitOne DEF Visits, Named, Passing
<1>7. Prepared'
  BY <1>1, <1>3, <1>4 DEF Prepared
<1> QED
  BY <1>5, <1>6, <1>7

\* A pass changes one function that has code.
LEMMA ChangePrepared ==
  ASSUME Prepared, NEW H \in Counted, H = Wrapper => blocks' # <<>>,
         body'[H] \in Code, LaidOut(body'[H]),
         Cardinality(GreetingsIn(body'[H])) = Cardinality(Injections(H)'),
         \A F \in Counted : F # H => body'[F] = body[F],
         \A F \in Counted : F # H => Injections(F)' = Injections(F),
         H # Wrapper => blocks' = blocks
  PROVE  Prepared'
<1>1. \A F \in Counted : F # H => GreetingsIn(body'[F]) = GreetingsIn(body[F])
  OBVIOUS
<1>2. \A F \in Defined : body'[F] \in Code
  BY DEF Prepared, Counted
<1>3. IF blocks' = <<>> THEN body'[Wrapper] = <<>> ELSE body'[Wrapper] \in Code
  BY DEF Prepared, Counted
<1>4. \A F \in Counted : body'[F] # <<>> => LaidOut(body'[F])
  BY DEF Prepared
<1>5. \A F \in Counted : Cardinality(GreetingsIn(body'[F])) = Cardinality(Injections(F)')
  BY <1>1 DEF Prepared
<1> QED
  BY <1>2, <1>3, <1>4, <1>5 DEF Prepared

\* inject-func-call puts a greeting into the function it visits.
LEMMA InjectStep ==
  ASSUME PipelineType, Visits, Prepared, InjectGreeting
  PROVE  PipelineType' /\ Visits' /\ Prepared'
<1>0. PICK H : H = Head(visit)
  OBVIOUS
<1>1. /\ visit # <<>> /\ visit' = Tail(visit) /\ H \notin Declared
      /\ step \in Named(pipeline, "inject-func-call")
      /\ body' = [body EXCEPT ![H] = WithGreeting(@)]
      /\ UNCHANGED <<pipeline, step, vars>>
  BY <1>0 DEF InjectGreeting, Visiting, Running, Named
<1>2. UNCHANGED <<pc, blocks, todo>>
  BY <1>1 DEF vars, module
<1>3. H \in Counted /\ H \in Range(visit) /\ (H = Wrapper => blocks # <<>>)
  BY <1>0, <1>1, VisitOne DEF Visits, Functions, Counted
<1>4. body[H] \in Code /\ LaidOut(body[H])
  BY <1>3, HasCode
<1>5. /\ WithGreeting(body[H]) \in Code /\ LaidOut(WithGreeting(body[H]))
      /\ Cardinality(GreetingsIn(WithGreeting(body[H]))) = Cardinality(GreetingsIn(body[H])) + 1
  BY <1>4, GreetingAdded
<1>6. body \in [Counted -> Seq(Instructions)]
  BY DEF PipelineType
<1>7. /\ body'[H] = WithGreeting(body[H])
      /\ \A F \in Counted : F # H => body'[F] = body[F]
      /\ body' \in [Counted -> Seq(Instructions)]
  BY <1>1, <1>3, <1>5, <1>6 DEF Code
<1>8. PipelineType'
  BY <1>1, <1>7, VisitOne DEF PipelineType
<1>9. Visits'
  BY <1>1, <1>2, VisitOne DEF Visits, Named, Passing
<1>10. \A F \in Counted : F # H => Injections(F)' = Injections(F)
  BY <1>0, <1>1, SameInjections
<1>11. Cardinality(Injections(H)') = Cardinality(Injections(H)) + 1
  <2>1. Range(visit') = Range(visit) \ {H}
    BY <1>0, <1>1, VisitOne
  <2>2. H = Wrapper => \E k \in Named(pipeline, "dynamic-cc") : k < step
    BY <1>3 DEF Visits
  <2>3. step \in Nat /\ ~(step < step)
    BY DEF PipelineType
  <2>4. step \notin Injections(H)
    BY <1>3, <2>3 DEF Injections
  <2>5. Injections(H)' = Injections(H) \cup {step}
    <3>1. \A pass : Named(pipeline, pass)' = Named(pipeline, pass)
      BY <1>1 DEF Named
    <3>2. H \notin Range(visit')
      BY <2>1
    <3>3. \A n : n \in Injections(H)' <=>
                   /\ n \in Named(pipeline, "inject-func-call") /\ (n < step \/ n = step)
                   /\ H = Wrapper => \E k \in Named(pipeline, "dynamic-cc") : k < n
      BY <1>1, <3>1, <3>2, Zenon DEF Injections
    <3>4. \A n : n \in Injections(H) <=>
                   /\ n \in Named(pipeline, "inject-func-call") /\ n < step
                   /\ H = Wrapper => \E k \in Named(pipeline, "dynamic-cc") : k < n
      BY <1>3 DEF Injections
    <3>5. \A n : n \in Injections(H)' <=> n \in Injections(H) \/ n = step
      BY <1>1, <2>2, <3>3, <3>4, Zenon
    <3> QED
      BY <3>5
  <2> QED
    BY <2>4, <2>5, InjectionsFinite, FS_AddElement
<1>12. Cardinality(GreetingsIn(body'[H])) = Cardinality(Injections(H)')
  BY <1>3, <1>5, <1>7, <1>11 DEF Prepared
<1>13. Prepared'
  <2>1. blocks' = blocks /\ (H = Wrapper => blocks' # <<>>)
    BY <1>2, <1>3
  <2>2. body'[H] \in Code /\ LaidOut(body'[H])
    BY <1>5, <1>7
  <2> QED
    BY <1>3, <1>7, <1>10, <1>12, <2>1, <2>2, ChangePrepared, Zenon
<1> QED
  BY <1>8, <1>9, <1>13

\* The end of a pass that is no dynamic-cc.
LEMMA LeaveStep ==
  ASSUME PipelineType, Visits, Prepared, LeavePass
  PROVE  PipelineType' /\ Visits' /\ Prepared'
<1>1. /\ step \notin Named(pipeline, "dynamic-cc") /\ visit = <<>> /\ step' = step + 1
      /\ visit' = IF blocks # <<>> THEN Append(Order, Wrapper) ELSE Order
      /\ UNCHANGED <<pipeline, body, vars>> /\ step \in DOMAIN pipeline
  BY DEF LeavePass, EndPass, Named
<1>2. UNCHANGED <<pc, blocks, todo>>
  BY <1>1 DEF vars, module
<1>3. /\ visit' \in Seq(Functions) /\ IsInjective(visit')
      /\ Range(visit') = Defined \cup Declared \cup (IF blocks # <<>> THEN {Wrapper} ELSE {})
  BY <1>1, NextVisit
<1>4. step \in Nat /\ pipeline \in Pipelines /\ body \in [Counted -> Seq(Instructions)]
  BY DEF PipelineType
<1>5. PipelineType'
  BY <1>1, <1>3, <1>4 DEF PipelineType
<1>6. /\ \A pass : Named(pipeline, pass)' = Named(pipeline, pass)
      /\ \A pass : Named(pipeline, pass) \subseteq Nat
      /\ Len(pipeline) \in Nat /\ DOMAIN pipeline = 1..Len(pipeline)
  BY <1>1, PipelinePositions DEF Named
<1>7. \A k \in Named(pipeline, "dynamic-cc") : k < step' <=> k < step
  BY <1>1, <1>4, <1>6
<1>8. Visits'
  <2>1. (blocks # <<>> <=> \E k \in Named(pipeline, "dynamic-cc") : k < step)'
    BY <1>2, <1>6, <1>7 DEF Visits
  <2>2. (blocks = <<>> => Wrapper \notin Range(visit) \cup todo)'
    BY <1>2, <1>3, FunctionsAssumption DEF Visits
  <2>3. (~Passing => step > Len(pipeline))'
    BY <1>1, <1>2, <1>4, <1>6 DEF Visits, Passing
  <2> QED
    BY <2>1, <2>2, <2>3 DEF Visits
<1>9. ASSUME NEW F \in Counted PROVE Injections(F)' = Injections(F)
  <2>1. Range(visit) = {}
    BY <1>1 DEF Range
  <2>2. F \in Range(visit') \/ (F = Wrapper /\ blocks = <<>>)
    BY <1>3 DEF Counted
  <2>3. F = Wrapper /\ blocks = <<>> => \A n : n \notin Injections(F)' /\ n \notin Injections(F)
    <3> SUFFICES ASSUME F = Wrapper, blocks = <<>>, NEW n \in Nat, n <= step'
                 PROVE  ~ \E k \in Named(pipeline, "dynamic-cc") : k < n
      BY <1>1, <1>4, <1>6 DEF Injections
    <3>1. \A k \in Named(pipeline, "dynamic-cc") : ~(k < step')
      BY <1>7 DEF Visits
    <3> QED
      BY <1>1, <1>4, <1>6, <3>1
  <2>4. F \in Range(visit') => \A n : n \in Injections(F)' <=> n \in Injections(F)
    <3> SUFFICES ASSUME F \in Range(visit'), NEW n \in Nat
                 PROVE  n < step' <=> n < step \/ n = step
      BY <1>1, <1>6, <2>1 DEF Injections
    <3> QED
      BY <1>1, <1>4
  <2> QED
    BY <2>2, <2>3, <2>4
<1>10. Prepared'
  BY <1>1, <1>2, <1>9 DEF Prepared
<1> QED
  BY <1>5, <1>8, <1>10

\* A module has finitely many functions: they stand in a row.
LEMMA CountedFinite == IsFiniteSet(Counted)
<1> DEFINE m == Len(Order)
<1>1. m \in Nat /\ DOMAIN Order = 1..m /\ Order \in [1..m -> Defined \cup Declared]
  BY ModuleAssumption, LenProperties
<1>2. Range(Order) = Defined \cup Declared
  BY ModuleAssumption
<1> HIDE DEF m
<1>3. Order \in Surjection(1..m, Defined \cup Declared)
  BY <1>1, <1>2 DEF Surjection, Range
<1>4. IsFiniteSet(1..m)
  BY <1>1, FS_Interval
<1>5. IsFiniteSet(Defined \cup Declared)
  BY <1>3, <1>4, FS_Surjection
<1>6. IsFiniteSet((Defined \cup Declared) \cup {Wrapper})
  BY <1>5, FS_AddElement
<1>7. Counted \in SUBSET ((Defined \cup Declared) \cup {Wrapper})
  BY DEF Counted
<1> QED
  BY <1>6, <1>7, FS_Subset

\* dynamic-cc puts an increment into the function it visits.
LEMMA IncrementStep ==
  ASSUME PipelineType, Visits, Prepared, Running("dynamic-cc"), NEW H \in Counted,
         InjectCounter(H), body' = [body EXCEPT ![H] = Increment \o @],
         UNCHANGED <<pipeline, step, visit>>
  PROVE  PipelineType' /\ Visits' /\ Prepared'
<1>1. UNCHANGED <<pc, blocks>> /\ H \in todo /\ todo' \subseteq todo
  BY DEF InjectCounter
<1>2. body[H] \in Code /\ LaidOut(body[H]) /\ (H = Wrapper => blocks # <<>>)
  BY <1>1, HasCode DEF Visits
<1>3. /\ Increment \o body[H] \in Code /\ LaidOut(Increment \o body[H])
      /\ Cardinality(GreetingsIn(Increment \o body[H])) = Cardinality(GreetingsIn(body[H]))
  BY <1>2, IncrementAdded
<1>4. body \in [Counted -> Seq(Instructions)]
  BY DEF PipelineType
<1>5. /\ body'[H] = Increment \o body[H]
      /\ \A F \in Counted : F # H => body'[F] = body[F]
      /\ body' \in [Counted -> Seq(Instructions)]
  BY <1>3, <1>4 DEF Code
<1>6. PipelineType'
  BY <1>5 DEF PipelineType
<1>7. Visits'
  BY <1>1 DEF Visits, Named, Passing
<1>8. \A F \in Counted : Injections(F)' = Injections(F)
  BY DEF Injections, Named
<1>9. Cardinality(GreetingsIn(body'[H])) = Cardinality(Injections(H)')
  BY <1>3, <1>5, <1>8 DEF Prepared
<1>10. body'[H] \in Code /\ LaidOut(body'[H])
  BY <1>3, <1>5
<1>11. blocks' = blocks /\ (H = Wrapper => blocks' # <<>>)
  BY <1>1, <1>2
<1>12. Prepared'
  BY <1>5, <1>8, <1>9, <1>10, <1>11, ChangePrepared
<1> QED
  BY <1>6, <1>7, <1>12

\* dynamic-cc gives printf_wrapper its code, or more of it.
LEMMA WrapperStep ==
  ASSUME IInv, PipelineType, Visits, Prepared, Running("dynamic-cc"), DefineWrapper,
         body' = [body EXCEPT ![Wrapper] = @ \o Report(Cardinality(CallCounterMap))],
         EndPass(blocks'), pipeline' = pipeline
  PROVE  PipelineType' /\ Visits' /\ Prepared'
<1> DEFINE report == Report(Cardinality(CallCounterMap))
<1>1. /\ step \in Named(pipeline, "dynamic-cc") /\ step' = step + 1
      /\ blocks' = Append(blocks, CallCounterMap) /\ pc' \in {"again", "load"}
      /\ todo' = todo /\ pc = "instrument"
      /\ visit' = IF blocks' # <<>> THEN Append(Order, Wrapper) ELSE Order
  BY DEF Running, Named, DefineWrapper, EndPass
<1>2. blocks' # <<>>
  <2>1. blocks \in Seq(SUBSET Counted) /\ CallCounterMap \in SUBSET Counted
    BY DEF IInv, TypeOK
  <2> QED
    BY <1>1, <2>1, AppendProperties
<1>3. /\ visit' \in Seq(Functions) /\ IsInjective(visit')
      /\ Range(visit') = Defined \cup Declared \cup {Wrapper}
  <2>1. PICK v, w : v = visit' /\ w = blocks'
    OBVIOUS
  <2>2. v = IF w # <<>> THEN Append(Order, Wrapper) ELSE Order
    BY <1>1, <2>1
  <2>3. /\ v \in Seq(Functions) /\ IsInjective(v)
        /\ Range(v) = Defined \cup Declared \cup (IF w # <<>> THEN {Wrapper} ELSE {})
    BY <2>2, NextVisit
  <2> QED
    BY <1>2, <2>1, <2>3
<1>4. Cardinality(CallCounterMap) \in Nat
  <2>1. CallCounterMap \in SUBSET Counted
    BY DEF IInv, TypeOK
  <2> QED
    BY <2>1, CountedFinite, FS_Subset, FS_CardinalityType
<1>5. /\ report \in Code /\ LaidOut(report) /\ GreetingsIn(report) = {}
  BY <1>4, ReportCode
<1> HIDE DEF report
<1>6. /\ body \in [Counted -> Seq(Instructions)] /\ Wrapper \in Counted
      /\ body' = [body EXCEPT ![Wrapper] = @ \o report]
  BY DEF PipelineType, Counted, report
<1>7. /\ body[Wrapper] \o report \in Code /\ LaidOut(body[Wrapper] \o report)
      /\ Cardinality(GreetingsIn(body[Wrapper] \o report))
           = Cardinality(GreetingsIn(body[Wrapper]))
  <2>1. CASE blocks = <<>>
    <3>1. body[Wrapper] = <<>>
      BY <2>1 DEF Prepared
    <3>2. GreetingsIn(body[Wrapper]) = {}
      BY <3>1 DEF GreetingsIn
    <3>3. body[Wrapper] \o report = report
      BY <1>5, <3>1, ConcatEmptySeq DEF Code
    <3> QED
      BY <1>5, <3>2, <3>3
  <2>2. CASE blocks # <<>>
    <3>1. body[Wrapper] \in Code /\ LaidOut(body[Wrapper])
      BY <1>6, <2>2, HasCode
    <3> QED
      BY <1>4, <3>1, ReportAdded DEF report
  <2> QED
    BY <2>1, <2>2
<1>8. /\ body'[Wrapper] = body[Wrapper] \o report
      /\ \A F \in Counted : F # Wrapper => body'[F] = body[F]
      /\ body' \in [Counted -> Seq(Instructions)]
  BY <1>6, <1>7 DEF Code
<1>9. step \in Nat /\ pipeline \in Pipelines
  BY DEF PipelineType
<1>10. PipelineType'
  BY <1>1, <1>3, <1>8, <1>9 DEF PipelineType
<1>11. /\ \A pass : Named(pipeline, pass)' = Named(pipeline, pass)
       /\ \A pass : Named(pipeline, pass) \subseteq Nat
       /\ step \notin Named(pipeline, "inject-func-call")
  BY <1>1, PipelinePositions DEF Named
<1>12. Visits'
  <2>1. (\E k \in Named(pipeline, "dynamic-cc") : k < step)'
    BY <1>1, <1>9, <1>11
  <2>2. Passing'
    BY <1>1 DEF Passing
  <2> QED
    BY <1>2, <2>1, <2>2 DEF Visits
<1>13. ASSUME NEW F \in Counted PROVE Injections(F)' = Injections(F)
  <2>1. F \in Range(visit')
    BY <1>3 DEF Counted
  <2>2. \A n \in Nat : n < step' <=> n < step \/ n = step
    BY <1>1, <1>9
  <2> QED
    BY <1>11, <2>1, <2>2 DEF Injections
<1>14. Prepared'
  <2>1. body'[Wrapper] \in Code /\ LaidOut(body'[Wrapper])
    BY <1>7, <1>8
  <2>2. Cardinality(GreetingsIn(body'[Wrapper])) = Cardinality(Injections(Wrapper)')
    BY <1>6, <1>7, <1>8, <1>13 DEF Prepared
  <2> QED
    BY <1>2, <1>6, <1>8, <1>13, <2>1, <2>2, ChangePrepared
<1> QED
  BY <1>10, <1>12, <1>14

\* No step of the pipeline or of the program breaks the invariant about the
\* code.
LEMMA PreparedStep ==
  ASSUME IInv, PipelineType, Visits, Prepared, [PassesNext]_<<vars, passes, running>>
  PROVE  PipelineType' /\ Visits' /\ Prepared'
<1>1. CASE SkipFunction \/ CountDirectCalls \/ CountOpcodes
  BY <1>1, SkipStep
<1>2. CASE InjectGreeting
  BY <1>2, InjectStep
<1>3. CASE LeavePass
  BY <1>3, LeaveStep
<1>4. CASE Instrument
  <2>1. CASE RunAgain /\ UNCHANGED <<passes, running>>
    <3>1. blocks # <<>> /\ UNCHANGED blocks /\ pc' = "instrument"
      BY <2>1 DEF RunAgain, IInv, FirstBlock
    <3>2. /\ UNCHANGED <<body, pipeline, step, visit>>
          /\ Passing'
      BY <2>1, <3>1 DEF passes, Passing
    <3>3. PipelineType'
      BY <3>2 DEF PipelineType
    <3>4. Visits'
      BY <3>1, <3>2 DEF Visits, Named
    <3>5. \A F \in Counted : Injections(F)' = Injections(F)
      BY <3>2 DEF Injections, Named
    <3>6. Prepared'
      BY <3>1, <3>2, <3>5 DEF Prepared
    <3> QED
      BY <3>3, <3>4, <3>6
  <2>2. ASSUME NEW F \in Declared, SkipDeclaration(F), UNCHANGED <<passes, running>>
        PROVE  PipelineType' /\ Visits' /\ Prepared'
    <3>1. UNCHANGED <<blocks, pc>> /\ todo' \subseteq todo
      BY <2>2 DEF SkipDeclaration
    <3>2. UNCHANGED <<body, pipeline, step, visit>>
      BY <2>2 DEF passes
    <3>3. PipelineType'
      BY <3>2 DEF PipelineType
    <3>4. Visits'
      BY <3>1, <3>2 DEF Visits, Named, Passing
    <3>5. \A G \in Counted : Injections(G)' = Injections(G)
      BY <3>2 DEF Injections, Named
    <3>6. Prepared'
      BY <3>1, <3>2, <3>5 DEF Prepared
    <3> QED
      BY <3>3, <3>4, <3>6
  <2>3. ASSUME NEW F \in Counted, InjectCounter(F), Running("dynamic-cc"),
               body' = [body EXCEPT ![F] = Increment \o @],
               UNCHANGED <<source, pipeline, step, visit, counting, running>>
        PROVE  PipelineType' /\ Visits' /\ Prepared'
    BY <2>3, IncrementStep
  <2>4. ASSUME DefineWrapper, Running("dynamic-cc"),
               body' = [body EXCEPT ![Wrapper] = @ \o Report(Cardinality(CallCounterMap))],
               EndPass(blocks'), UNCHANGED <<source, pipeline, counting, running>>
        PROVE  PipelineType' /\ Visits' /\ Prepared'
    BY <2>4, WrapperStep
  <2> QED
    BY <1>4, <2>1, <2>2, <2>3, <2>4 DEF Instrument
<1>5. CASE UNCHANGED <<vars, passes, running>>
  <2>1. UNCHANGED <<passes, blocks, todo, pc>>
    BY <1>5 DEF vars, module
  <2> QED
    BY <2>1, PipelineStays DEF Visits, Passing
<1>6. CASE Load
  <2>1. UNCHANGED <<passes, blocks, todo>> /\ step > Len(pipeline)
    BY <1>6 DEF Load, Start, module
  <2> QED
    BY <2>1, PipelineStays
<1>7. ASSUME NEW t \in Threads,
             PrintGreeting(t) \/ CountCall(t) \/ OwnStep(t) \/ NewThread(t)
      PROVE  PipelineType' /\ Visits' /\ Prepared'
  <2>1. UNCHANGED <<passes, blocks, todo>>
    BY <1>7 DEF PrintGreeting, CountCall, OwnStep, NewThread, LoadCounter, StoreCounter,
                Call, Return, Exit, PrintCounter, NextDtor, End, StartThread, vars, module
  <2>2. stack[t] # <<>> \/ pc = "run"
    BY <1>7 DEF PrintGreeting, CountCall, OwnStep, PastPrologue, NewThread, StartThread
  <2>3. ~Passing
    BY <2>2 DEF IInv, NotStarted, Passing
  <2> QED
    BY <2>1, <2>3, PipelineStays
<1> QED
  BY <1>1, <1>2, <1>3, <1>4, <1>5, <1>6, <1>7 DEF PassesNext
-----------------------------------------------------------------------------
(***************************************************************************)
(* Where control stands.                                                   *)
(***************************************************************************)

\* A stack s of calls that stand at the positions a of the code b: within no
\* increment, and below the top in a function's own code.
Standing(b, s, a) ==
  /\ Len(a) = Len(s)
  /\ \A i \in 1..Len(s) :
       /\ a[i] \in DOMAIN b[s[i].func] /\ CanStand(b[s[i].func][a[i]])
       /\ i < Len(s) => b[s[i].func][a[i]].by \in OwnCode

Positions ==
  /\ at \in [Threads -> Seq(Nat)]
  /\ \A t \in Threads : Standing(body, stack[t], at[t])

\* An element more.
LEMMA Grown ==
  ASSUME NEW S, NEW s \in Seq(S), NEW e \in S
  PROVE  /\ Append(s, e) \in Seq(S) /\ Append(s, e) # <<>> /\ Len(s) \in Nat
         /\ Len(Append(s, e)) = Len(s) + 1
         /\ Append(s, e)[Len(s) + 1] = e /\ Last(Append(s, e)) = e
         /\ \A i \in 1..Len(s) : Append(s, e)[i] = s[i]
<1>1. Append(s, e) \in Seq(S) /\ Len(Append(s, e)) = Len(s) + 1 /\ Len(s) \in Nat
  OBVIOUS
<1> QED
  BY <1>1, EmptySeq DEF Last

\* An element less.
LEMMA Shrunk ==
  ASSUME NEW S, NEW s \in Seq(S), s # <<>>
  PROVE  /\ Len(s) \in Nat \ {0} /\ Last(s) = s[Len(s)] /\ Last(s) \in S
         /\ Front(s) \in Seq(S) /\ Len(Front(s)) = Len(s) - 1
         /\ \A i \in 1..(Len(s) - 1) : Front(s)[i] = s[i]
<1> DEFINE n == Len(s) - 1
<1>1. n \in Nat /\ Len(s) = n + 1
  BY EmptySeq
<1>2. \A i \in 1..n : s[i] \in S
  BY <1>1, ElementOfSeq
<1>3. Front(s) = SubSeq(s, 1, n)
  BY DEF Front
<1>4. Last(s) = s[Len(s)] /\ Last(s) \in S
  BY <1>1, ElementOfSeq DEF Last
<1> HIDE DEF n
<1>5. /\ SubSeq(s, 1, n) \in Seq(S)
      /\ Len(SubSeq(s, 1, n)) = IF 1 <= n THEN n - 1 + 1 ELSE 0
      /\ \A i \in 1 .. n - 1 + 1 : SubSeq(s, 1, n)[i] = s[1 + i - 1]
  BY <1>1, <1>2, SubSeqProperties
<1> QED
  BY <1>1, <1>3, <1>4, <1>5

\* A call, made from a function's own code or on an empty stack.
LEMMA StandPush ==
  ASSUME NEW b, NEW s \in Seq(Frames), NEW a \in Seq(Nat), Standing(b, s, a),
         s # <<>> => b[Last(s).func][Last(a)].by \in OwnCode,
         NEW e \in Frames, b[e.func] \in Code, LaidOut(b[e.func])
  PROVE  Standing(b, Append(s, e), Append(a, 1)) /\ Append(a, 1) \in Seq(Nat)
<1> DEFINE n == Len(s)
           s2 == Append(s, e)
           a2 == Append(a, 1)
<1>1. n \in Nat /\ Len(a) = n
  BY DEF Standing
<1>2. /\ Len(s2) = n + 1 /\ s2[n + 1] = e /\ \A i \in 1..n : s2[i] = s[i]
      /\ a2 \in Seq(Nat) /\ Len(a2) = n + 1 /\ a2[n + 1] = 1 /\ \A i \in 1..n : a2[i] = a[i]
  BY <1>1, Grown
<1>3. n # 0 => Last(s) = s[n] /\ Last(a) = a[n] /\ s # <<>>
  BY <1>1, EmptySeq DEF Last
<1>4. 1 \in DOMAIN b[e.func] /\ CanStand(b[e.func][1])
  BY Positive DEF LaidOut
<1>5. \A i \in 1..n : /\ a[i] \in DOMAIN b[s[i].func] /\ CanStand(b[s[i].func][a[i]])
                      /\ i < n => b[s[i].func][a[i]].by \in OwnCode
  BY DEF Standing
<1> HIDE DEF n, s2, a2
<1>6. ASSUME NEW i \in 1..(n + 1)
      PROVE  /\ a2[i] \in DOMAIN b[s2[i].func] /\ CanStand(b[s2[i].func][a2[i]])
             /\ i < n + 1 => b[s2[i].func][a2[i]].by \in OwnCode
  <2>1. CASE i = n + 1
    BY <1>1, <1>2, <1>4, <2>1
  <2>2. CASE i \in 1..n
    <3>1. i < n \/ (i = n /\ n # 0)
      BY <1>1, <2>2
    <3>2. s2[i] = s[i] /\ a2[i] = a[i]
      BY <1>2, <2>2
    <3> QED
      BY <1>3, <1>5, <2>2, <3>1, <3>2
  <2> QED
    BY <1>1, <2>1, <2>2
<1> QED
  BY <1>2, <1>6 DEF Standing, s2, a2

\* A return.  The caller goes on in its own code.
LEMMA StandPop ==
  ASSUME NEW b, NEW s \in Seq(Frames), NEW a \in Seq(Nat), Standing(b, s, a), s # <<>>
  PROVE  /\ Standing(b, Front(s), Front(a)) /\ Front(a) \in Seq(Nat)
         /\ Front(s) # <<>> => b[Last(Front(s)).func][Last(Front(a))].by \in OwnCode
<1> DEFINE n == Len(s) - 1
<1>1. a # <<>> /\ Len(a) = Len(s)
  BY EmptySeq DEF Standing
<1>2. /\ n \in Nat /\ Len(s) = n + 1
      /\ Front(s) \in Seq(Frames) /\ Len(Front(s)) = n /\ \A i \in 1..n : Front(s)[i] = s[i]
      /\ Front(a) \in Seq(Nat) /\ Len(Front(a)) = n /\ \A i \in 1..n : Front(a)[i] = a[i]
  <2>1. /\ Len(s) \in Nat \ {0} /\ Front(s) \in Seq(Frames) /\ Len(Front(s)) = Len(s) - 1
        /\ \A i \in 1..(Len(s) - 1) : Front(s)[i] = s[i]
    BY Shrunk
  <2>2. /\ Front(a) \in Seq(Nat) /\ Len(Front(a)) = Len(a) - 1
        /\ \A i \in 1..(Len(a) - 1) : Front(a)[i] = a[i]
    BY <1>1, Shrunk
  <2> QED
    BY <1>1, <2>1, <2>2
<1> HIDE DEF n
<1>3. \A i \in 1..n : /\ a[i] \in DOMAIN b[s[i].func] /\ CanStand(b[s[i].func][a[i]])
                      /\ b[s[i].func][a[i]].by \in OwnCode
  BY <1>2 DEF Standing
<1>4. Front(s) # <<>> => /\ n \in 1..n
                         /\ Last(Front(s)) = s[n] /\ Last(Front(a)) = a[n]
  BY <1>2, EmptySeq DEF Last
<1> QED
  BY <1>2, <1>3, <1>4 DEF Standing

\* The call on top moves on, and keeps its function.
LEMMA StandMove ==
  ASSUME NEW b, NEW s \in Seq(Frames), NEW a \in Seq(Nat), Standing(b, s, a), s # <<>>,
         NEW s2 \in Seq(Frames), Len(s2) = Len(s),
         \A i \in 1..Len(s) : s2[i].func = s[i].func,
         NEW p \in Nat, p \in DOMAIN b[Last(s).func], CanStand(b[Last(s).func][p])
  PROVE  Standing(b, s2, Append(Front(a), p)) /\ Append(Front(a), p) \in Seq(Nat)
<1> DEFINE n == Len(s) - 1
           a2 == Append(Front(a), p)
<1>1. a # <<>> /\ Len(a) = Len(s)
  BY EmptySeq DEF Standing
<1>2. /\ n \in Nat /\ Len(s) = n + 1 /\ Last(s) = s[n + 1]
      /\ Front(a) \in Seq(Nat) /\ Len(Front(a)) = n /\ \A i \in 1..n : Front(a)[i] = a[i]
  <2>1. Len(s) \in Nat \ {0} /\ Last(s) = s[Len(s)]
    BY Shrunk
  <2>2. /\ Front(a) \in Seq(Nat) /\ Len(Front(a)) = Len(a) - 1
        /\ \A i \in 1..(Len(a) - 1) : Front(a)[i] = a[i]
    BY <1>1, Shrunk
  <2> QED
    BY <1>1, <2>1, <2>2
<1>3. /\ a2 \in Seq(Nat) /\ Len(a2) = n + 1 /\ a2[n + 1] = p
      /\ \A i \in 1..n : a2[i] = a[i]
  BY <1>2, Grown
<1> HIDE DEF n, a2
<1>4. \A i \in 1..n : /\ a[i] \in DOMAIN b[s[i].func] /\ CanStand(b[s[i].func][a[i]])
                      /\ b[s[i].func][a[i]].by \in OwnCode
  BY <1>2 DEF Standing
<1>5. \A i \in 1..(n + 1) : i \in 1..n \/ i = n + 1
  BY <1>2
<1>6. ~(n + 1 < n + 1)
  BY <1>2
<1>7. \A i \in 1..(n + 1) : s2[i].func = s[i].func
  BY <1>2
<1>8. ASSUME NEW i \in 1..(n + 1)
      PROVE  /\ a2[i] \in DOMAIN b[s2[i].func] /\ CanStand(b[s2[i].func][a2[i]])
             /\ i < n + 1 => b[s2[i].func][a2[i]].by \in OwnCode
  <2>1. CASE i \in 1..n
    BY <1>3, <1>4, <1>7, <2>1
  <2>2. CASE i = n + 1
    BY <1>2, <1>3, <1>6, <1>7, <2>2
  <2> QED
    BY <1>5, <2>1, <2>2
<1>9. Standing(b, s2, a2)
  BY <1>2, <1>3, <1>8 DEF Standing
<1> QED
  BY <1>3, <1>9 DEF a2

\* The call on top changes its counter or register only.
LEMMA StandSame ==
  ASSUME NEW b, NEW s \in Seq(Frames), NEW a \in Seq(Nat), Standing(b, s, a),
         NEW s2 \in Seq(Frames), Len(s2) = Len(s),
         \A i \in 1..Len(s) : s2[i].func = s[i].func
  PROVE  Standing(b, s2, a)
BY DEF Standing

\* When the passes are through, all functions that are counted have code.
LEMMA AllCode ==
  ASSUME IInv, Visits, Prepared, pc # "instrument"
  PROVE  \A F \in Counted : body[F] \in Code /\ LaidOut(body[F])
BY HasCode DEF IInv, FirstBlock

\* Where a thread stands.
LEMMA AtTop ==
  ASSUME IInv, Visits, Prepared, Positions, NEW t \in Threads, stack[t] # <<>>
  PROVE  /\ pc # "instrument" /\ ~Passing
         /\ stack[t] \in Seq(Frames) /\ Len(stack[t]) \in Nat \ {0}
         /\ Top(t) \in Frames /\ Top(t).func \in Counted
         /\ Top(t) = Last(stack[t]) /\ Top(t) = stack[t][Len(stack[t])]
         /\ at[t] \in Seq(Nat) /\ at[t] # <<>> /\ Last(at[t]) \in Nat
         /\ body[Top(t).func] \in Code
         /\ Last(at[t]) \in DOMAIN body[Top(t).func]
         /\ CanStand(Instr(t)) /\ LaidAt(body[Top(t).func], Last(at[t]))
<1>1. ~Passing /\ pc # "instrument"
  BY DEF IInv, NotStarted, Passing
<1>2. /\ Top(t) \in Frames /\ Top(t) = stack[t][Len(stack[t])]
      /\ Len(stack[t]) \in Nat \ {0} /\ stack[t] \in Seq(Frames)
  BY TopType DEF IInv, TypeOK
<1>3. Top(t).func \in Counted
  BY <1>2 DEF Frames
<1>4. body[Top(t).func] \in Code /\ LaidOut(body[Top(t).func])
  BY <1>1, <1>3, AllCode
<1>5. Standing(body, stack[t], at[t]) /\ at[t] \in Seq(Nat)
  BY DEF Positions
<1>6. at[t] # <<>> /\ Len(at[t]) = Len(stack[t])
  BY <1>2, <1>5, EmptySeq DEF Standing
<1>7. Last(at[t]) = at[t][Len(at[t])] /\ Last(at[t]) \in Nat
  BY <1>5, <1>6, Shrunk
<1>8. /\ Last(at[t]) \in DOMAIN body[Top(t).func]
      /\ CanStand(body[Top(t).func][Last(at[t])])
  BY <1>2, <1>5, <1>6, <1>7 DEF Standing
<1>9. LaidAt(body[Top(t).func], Last(at[t]))
  BY <1>4, <1>8 DEF LaidOut
<1> QED
  BY <1>1, <1>2, <1>3, <1>4, <1>5, <1>6, <1>7, <1>8, <1>9 DEF Instr, Top

\* One thread moves.
LEMMA MoveThread ==
  ASSUME Positions, TypeOK, NEW t \in Threads, NEW s, NEW a \in Seq(Nat), Standing(body, s, a),
         stack' = [stack EXCEPT ![t] = s], at' = [at EXCEPT ![t] = a], body' = body
  PROVE  Positions'
<1>1. at' \in [Threads -> Seq(Nat)]
  BY DEF Positions
<1>2. stack'[t] = s /\ at'[t] = a
  BY DEF Positions, TypeOK
<1>3. \A u \in Threads : u # t => stack'[u] = stack[u] /\ at'[u] = at[u]
  BY DEF Positions, TypeOK
<1> QED
  BY <1>1, <1>2, <1>3 DEF Positions

\* A call puts its thread at the start of a function.
LEMMA EnterPositions ==
  ASSUME IInv, Visits, Prepared, Positions, NEW t \in Threads, NEW f \in Counted,
         stack[t] # <<>> => PastPrologue(t), pc # "instrument",
         Enter(t, f), Pushed(t), body' = body
  PROVE  Positions'
<1>1. stack[t] \in Seq(Frames) /\ at[t] \in Seq(Nat) /\ Standing(body, stack[t], at[t])
  BY DEF IInv, TypeOK, Positions
<1>2. Frame(f) \in Frames /\ Frame(f).func = f
  BY FrameType DEF IInv, Frame
<1>3. body[f] \in Code /\ LaidOut(body[f])
  BY AllCode
<1>4. stack[t] # <<>> => body[Last(stack[t]).func][Last(at[t])].by \in OwnCode
  BY DEF PastPrologue, Instr, Top, OwnCode
<1>5. /\ Standing(body, Append(stack[t], Frame(f)), Append(at[t], 1))
      /\ Append(at[t], 1) \in Seq(Nat)
  BY <1>1, <1>2, <1>3, <1>4, StandPush
<1>6. /\ stack' = [stack EXCEPT ![t] = Append(stack[t], Frame(f))]
      /\ at' = [at EXCEPT ![t] = Append(at[t], 1)]
  BY DEF Enter, Pushed
<1> QED
  BY <1>5, <1>6, MoveThread DEF IInv

\* A thread goes on within its function.
LEMMA MovePositions ==
  ASSUME IInv, Visits, Prepared, Positions, NEW t \in Threads, stack[t] # <<>>,
         NEW s \in Seq(Frames), Len(s) = Len(stack[t]),
         \A i \in 1..Len(s) : s[i].func = stack[t][i].func,
         stack' = [stack EXCEPT ![t] = s], body' = body, NEW n \in Nat, Advanced(t, n),
         Last(at[t]) + n \in DOMAIN body[Top(t).func],
         CanStand(body[Top(t).func][Last(at[t]) + n])
  PROVE  Positions'
<1>1. /\ stack[t] \in Seq(Frames) /\ at[t] \in Seq(Nat) /\ Standing(body, stack[t], at[t])
      /\ Last(at[t]) + n \in Nat
  BY AtTop DEF Positions
<1>2. /\ Standing(body, s, Append(Front(at[t]), Last(at[t]) + n))
      /\ Append(Front(at[t]), Last(at[t]) + n) \in Seq(Nat)
  BY <1>1, StandMove DEF Top
<1>3. at' = [at EXCEPT ![t] = Append(Front(at[t]), Last(at[t]) + n)]
  BY DEF Advanced
<1> QED
  BY <1>2, <1>3, MoveThread DEF IInv

\* The frame on top changes, and is of the same function.
LEMMA SameFunctions ==
  ASSUME NEW s \in Seq(Frames), s # <<>>, NEW e \in Frames, e.func = Last(s).func
  PROVE  /\ [s EXCEPT ![Len(s)] = e] \in Seq(Frames)
         /\ Len([s EXCEPT ![Len(s)] = e]) = Len(s)
         /\ \A i \in 1..Len(s) : [s EXCEPT ![Len(s)] = e][i].func = s[i].func
<1> DEFINE s2 == [s EXCEPT ![Len(s)] = e]
<1>1. Len(s) \in Nat \ {0} /\ Last(s) = s[Len(s)]
  BY Shrunk
<1>2. /\ s2 \in Seq(Frames) /\ s2 # <<>> /\ Len(s2) = Len(s) /\ Last(s2) = e
      /\ \A i \in 1..(Len(s) - 1) : s2[i] = s[i]
  BY SetTop
<1>3. s2[Len(s)] = e
  BY <1>2 DEF Last
<1> HIDE DEF s2
<1>4. \A i \in 1..Len(s) : i \in 1..(Len(s) - 1) \/ i = Len(s)
  BY <1>1
<1> QED
  BY <1>1, <1>2, <1>3, <1>4, Zenon DEF s2

\* While a pass runs, nothing else does.
LEMMA PassPhase ==
  ASSUME IInv, PipelineType, Visits,
         \/ SkipFunction \/ InjectGreeting \/ CountDirectCalls \/ CountOpcodes \/ LeavePass
         \/ Instrument
  PROVE  Passing /\ Passing' /\ UNCHANGED <<running, program>>
<1>1. Passing
  <2>1. step \in DOMAIN pipeline
    BY DEF SkipFunction, InjectGreeting, CountDirectCalls, CountOpcodes, LeavePass, Instrument,
           Visiting, Running
  <2>2. ~(step > Len(pipeline))
    BY <2>1, PipelinePositions
  <2> QED
    BY <2>2 DEF Visits
<1>2. CASE SkipFunction \/ InjectGreeting \/ CountDirectCalls \/ CountOpcodes \/ LeavePass
  BY <1>1, <1>2
  DEF SkipFunction, InjectGreeting, CountDirectCalls, CountOpcodes, LeavePass, vars, Passing
<1>3. CASE Instrument
  <2>1. UNCHANGED running
    BY <1>3 DEF Instrument
  <2>2. \/ RunAgain \/ DefineWrapper
        \/ \E F \in Declared : SkipDeclaration(F)
        \/ \E F \in Counted : InjectCounter(F)
    BY <1>3 DEF Instrument
  <2>3. UNCHANGED program /\ Passing'
    BY <2>2 DEF RunAgain, DefineWrapper, SkipDeclaration, InjectCounter, Passing
  <2> QED
    BY <1>1, <2>1, <2>3
<1> QED
  BY <1>2, <1>3

\* Control stands where it can, at every step.
LEMMA PositionsStep ==
  ASSUME IInv, IInv', PipelineType, Visits, Prepared, Positions,
         [PassesNext]_<<vars, passes, running>>
  PROVE  Positions'
<1>1. CASE \/ SkipFunction \/ InjectGreeting \/ CountDirectCalls \/ CountOpcodes \/ LeavePass
           \/ Instrument
  <2>1. Passing /\ UNCHANGED <<at, stack>>
    BY <1>1, PassPhase DEF running, program
  <2>2. ASSUME NEW t \in Threads PROVE Standing(body', stack[t], at[t])
    <3>1. stack[t] = <<>> /\ Len(at[t]) = 0
      BY <2>1, <2>2 DEF IInv, NotStarted, Positions, Standing
    <3> QED
      BY <3>1 DEF Standing
  <2> QED
    BY <2>1, <2>2 DEF Positions
<1>2. CASE Load
  <2>1. /\ Enter(MainThread, Main) /\ Pushed(MainThread) /\ body' = body
        /\ pc = "load" /\ stack[MainThread] = <<>>
    BY <1>2, MainThreadType DEF Load, Start, passes, IInv, NotStarted, Passing
  <2> QED
    BY <2>1, EnterPositions, MainThreadType, CountedTypes DEF IInv
<1>3. ASSUME NEW t \in Threads, NewThread(t)
      PROVE  Positions'
  <2>1. PICK f \in Defined : Enter(t, f)
    BY <1>3 DEF NewThread, StartThread
  <2>2. Pushed(t) /\ body' = body /\ stack[t] = <<>> /\ pc = "run" /\ f \in Counted
    BY <1>3, CountedTypes DEF NewThread, StartThread, passes
  <2> QED
    BY <2>1, <2>2, EnterPositions
<1>4. ASSUME NEW t \in Threads, PrintGreeting(t)
      PROVE  Positions'
  <2>1. /\ stack[t] # <<>> /\ Instr(t).by = "inject-func-call" /\ Advanced(t, 1)
        /\ stack' = stack /\ body' = body
    BY <1>4 DEF PrintGreeting, vars, program, passes
  <2>2. /\ Last(at[t]) + 1 \in DOMAIN body[Top(t).func]
        /\ CanStand(body[Top(t).func][Last(at[t]) + 1])
        /\ stack[t] \in Seq(Frames)
    BY <2>1, AtTop DEF LaidAt, Instr
  <2>3. stack' = [stack EXCEPT ![t] = stack[t]]
    BY <2>1 DEF IInv, TypeOK
  <2> QED
    BY <2>1, <2>2, <2>3, MovePositions
<1>5. ASSUME NEW t \in Threads, LoadCounter(t), UNCHANGED <<at, passes>>
      PROVE  Positions'
  <2>1. /\ stack[t] # <<>> /\ body' = body
        /\ stack' = [stack EXCEPT ![t] = [stack[t] EXCEPT ![Len(stack[t])] = Loaded(t)]]
        /\ Loaded(t) \in Frames
    BY <1>5, LoadStack DEF LoadCounter, passes, IInv
  <2>2. /\ Top(t) \in Frames /\ Top(t) = stack[t][Len(stack[t])] /\ stack[t] \in Seq(Frames)
        /\ Len(stack[t]) \in Nat \ {0}
    BY <2>1, AtTop
  <2>3. Loaded(t).func = Top(t).func
    BY <2>2 DEF Loaded, Frames
  <2>4. Loaded(t).func = Last(stack[t]).func
    BY <2>3 DEF Top
  <2>5. PICK s : s = [stack[t] EXCEPT ![Len(stack[t])] = Loaded(t)]
    OBVIOUS
  <2>6. /\ s \in Seq(Frames) /\ Len(s) = Len(stack[t])
        /\ \A i \in 1..Len(stack[t]) : s[i].func = stack[t][i].func
    BY <2>1, <2>2, <2>4, <2>5, SameFunctions
  <2>7. Standing(body, stack[t], at[t]) /\ at[t] \in Seq(Nat)
    BY DEF Positions
  <2>8. Standing(body, s, at[t])
    BY <2>2, <2>6, <2>7, StandSame
  <2>9. at' = [at EXCEPT ![t] = at[t]] /\ stack' = [stack EXCEPT ![t] = s]
    BY <1>5, <2>1, <2>5 DEF Positions
  <2> QED
    BY <2>1, <2>7, <2>8, <2>9, MoveThread DEF IInv
<1>6. ASSUME NEW t \in Threads, StoreCounter(t), Advanced(t, 3), Instr(t).by = "dynamic-cc",
             UNCHANGED passes
      PROVE  Positions'
  <2>1. /\ stack[t] # <<>> /\ body' = body
        /\ stack' = [stack EXCEPT ![t] = [stack[t] EXCEPT ![Len(stack[t])] = Stored(t)]]
        /\ Stored(t) \in Frames
    BY <1>6, StoreStack DEF StoreCounter, passes, IInv
  <2>2. /\ Top(t) = stack[t][Len(stack[t])] /\ stack[t] \in Seq(Frames)
        /\ CanStand(Instr(t)) /\ LaidAt(body[Top(t).func], Last(at[t]))
    BY <2>1, AtTop
  <2>3. Stored(t).func = Last(stack[t]).func
    BY DEF Stored, Top
  <2>4. PICK s : s = [stack[t] EXCEPT ![Len(stack[t])] = Stored(t)]
    OBVIOUS
  <2>5. /\ s \in Seq(Frames) /\ Len(s) = Len(stack[t])
        /\ \A i \in 1..Len(stack[t]) : s[i].func = stack[t][i].func
    BY <2>1, <2>2, <2>3, <2>4, SameFunctions
  <2>6. /\ Last(at[t]) + 3 \in DOMAIN body[Top(t).func]
        /\ CanStand(body[Top(t).func][Last(at[t]) + 3])
    BY <1>6, <2>2 DEF LaidAt, CanStand, Instr
  <2> QED
    BY <1>6, <2>1, <2>4, <2>5, <2>6, MovePositions
<1>7. ASSUME NEW t \in Threads, OwnStep(t)
      PROVE  Positions'
  <2>1. /\ PastPrologue(t) /\ stack[t] # <<>> /\ body' = body /\ pc # "instrument"
        /\ stack[t] \in Seq(Frames) /\ at[t] \in Seq(Nat) /\ Standing(body, stack[t], at[t])
    BY <1>7, AtTop DEF OwnStep, PastPrologue, passes, Positions
  <2>2. CASE Call(t) /\ Pushed(t)
    <3>1. PICK f \in Defined : Enter(t, f)
      BY <2>2 DEF Call
    <3>2. f \in Counted
      BY CountedTypes
    <3> QED
      BY <2>1, <2>2, <3>1, <3>2, EnterPositions
  <2>3. CASE Exit(t) /\ Pushed(t)
    <3>1. Enter(t, Wrapper)
      BY <2>3 DEF Exit
    <3> QED
      BY <2>1, <2>3, <3>1, CountedTypes, EnterPositions
  <2>4. CASE Return(t) /\ at' = [at EXCEPT ![t] = Front(@)]
    <3>1. Standing(body, Front(stack[t]), Front(at[t])) /\ Front(at[t]) \in Seq(Nat)
      BY <2>1, StandPop
    <3>2. /\ stack' = [stack EXCEPT ![t] = Front(stack[t])]
          /\ at' = [at EXCEPT ![t] = Front(at[t])]
      BY <2>4 DEF Return
    <3> QED
      BY <2>1, <3>1, <3>2, MoveThread DEF IInv
  <2>5. CASE PrintCounter(t) /\ UNCHANGED at
    BY <2>1, <2>5 DEF PrintCounter, Positions
  <2>6. CASE NextDtor(t) /\ at' = [at EXCEPT ![t] = Append(Front(@), 1)]
    <3>1. /\ Standing(body, Front(stack[t]), Front(at[t])) /\ Front(at[t]) \in Seq(Nat)
          /\ Front(stack[t]) # <<>> =>
               body[Last(Front(stack[t])).func][Last(Front(at[t]))].by \in OwnCode
          /\ Front(stack[t]) \in Seq(Frames)
      BY <2>1, StandPop, Shrunk
    <3>2. Frame(Wrapper) \in Frames /\ Frame(Wrapper).func = Wrapper
      BY FrameType, CountedTypes DEF IInv, Frame
    <3>3. body[Wrapper] \in Code /\ LaidOut(body[Wrapper])
      BY <2>1, AllCode, CountedTypes
    <3>4. /\ Standing(body, Append(Front(stack[t]), Frame(Wrapper)), Append(Front(at[t]), 1))
          /\ Append(Front(at[t]), 1) \in Seq(Nat)
      BY <3>1, <3>2, <3>3, StandPush
    <3>5. /\ stack' = [stack EXCEPT ![t] = Append(Front(stack[t]), Frame(Wrapper))]
          /\ at' = [at EXCEPT ![t] = Append(Front(at[t]), 1)]
      BY <2>6 DEF NextDtor
    <3> QED
      BY <2>1, <3>4, <3>5, MoveThread DEF IInv
  <2>7. CASE End(t) /\ at' = [s \in Threads |-> <<>>]
    <3>1. stack' = [s \in Threads |-> <<>>] /\ at' \in [Threads -> Seq(Nat)]
      BY <2>7 DEF End
    <3> QED
      BY <2>7, <3>1 DEF Positions, Standing
  <2> QED
    BY <1>7, <2>2, <2>3, <2>4, <2>5, <2>6, <2>7 DEF OwnStep
<1>8. CASE UNCHANGED <<vars, passes, running>>
  BY <1>8 DEF vars, program, passes, running, Positions
<1>9. ASSUME NEW t \in Threads, CountCall(t)
      PROVE  Positions'
  BY <1>5, <1>6, <1>9 DEF CountCall
<1> QED
  BY <1>1, <1>2, <1>3, <1>4, <1>7, <1>8, <1>9 DEF PassesNext
-----------------------------------------------------------------------------
(***************************************************************************)
(* The greetings.                                                          *)
(***************************************************************************)

\* Thread t is in F, and comes to the greeting at n of its code.
Comes(t, F, n) ==
  /\ stack[t] # <<>> /\ Top(t).func = F
  /\ n \in GreetingsIn(body[F]) /\ n >= Last(at[t])

Ahead(F) == {x \in Threads \X Nat : Comes(x[1], F, x[2])}

\* Every call of a function prints each of the greetings at its start, once.
Greeted ==
  /\ greeted \in [Counted -> Nat]
  /\ pc # "done" => \A F \in Counted :
       /\ IsFiniteSet(Ahead(F))
       /\ greeted[F] + Cardinality(Ahead(F)) = Cardinality(GreetingsIn(body[F])) * calls[F]

\* A thread in a function's own code comes to no greeting.
LEMMA NoneAhead ==
  ASSUME IInv, Visits, Prepared, Positions, NEW t \in Threads,
         stack[t] = <<>> \/ PastPrologue(t)
  PROVE  \A F, n : ~Comes(t, F, n)
<1> SUFFICES ASSUME NEW F, NEW n, Comes(t, F, n) PROVE FALSE
  OBVIOUS
<1>1. /\ stack[t] # <<>> /\ Top(t).func = F /\ n >= Last(at[t])
      /\ n \in DOMAIN body[F] /\ body[F][n].by = "inject-func-call"
  BY DEF Comes, GreetingsIn
<1>2. LaidAt(body[F], Last(at[t])) /\ body[F][Last(at[t])].by \in OwnCode
  BY <1>1, AtTop DEF PastPrologue, Instr, OwnCode
<1> QED
  BY <1>1, <1>2 DEF LaidAt, OwnCode

\* The step of one thread that leaves it as many greetings to come to.
LEMMA SameAhead ==
  ASSUME NEW t \in Threads, body' = body,
         \A u \in Threads \ {t} : stack'[u] = stack[u] /\ at'[u] = at[u],
         NEW F, \A n \in Nat : Comes(t, F, n)' <=> Comes(t, F, n)
  PROVE  Ahead(F)' = Ahead(F)
<1>1. \A u \in Threads, n \in Nat : Comes(u, F, n)' <=> Comes(u, F, n)
  BY DEF Comes, Top
<1> QED
  BY <1>1 DEF Ahead

\* No greeting is ahead where no thread has a stack.
LEMMA NobodyComes ==
  ASSUME \A t \in Threads : stack[t] = <<>>, NEW F
  PROVE  Ahead(F) = {} /\ IsFiniteSet(Ahead(F)) /\ Cardinality(Ahead(F)) = 0
<1>1. Ahead(F) = {}
  BY DEF Ahead, Comes
<1> QED
  BY <1>1, FS_EmptySet

\* Numbers of greetings and of calls.
LEMMA GreetedTypes ==
  ASSUME IInv, PipelineType, Visits, Prepared, Greeted, pc # "instrument", NEW F \in Counted
  PROVE  /\ body[F] \in Code /\ IsFiniteSet(GreetingsIn(body[F]))
         /\ GreetingsIn(body[F]) \subseteq Nat
         /\ Cardinality(GreetingsIn(body[F])) \in Nat /\ calls[F] \in Nat /\ greeted[F] \in Nat
         /\ Cardinality(GreetingsIn(body[F])) * calls[F] \in Nat
         /\ pc # "done" => Cardinality(Ahead(F)) \in Nat
<1>1. body[F] \in Code
  BY AllCode
<1>2. /\ IsFiniteSet(GreetingsIn(body[F])) /\ Cardinality(GreetingsIn(body[F])) \in Nat
      /\ GreetingsIn(body[F]) \subseteq 1..Len(body[F])
  BY <1>1, GreetingsFinite
<1>3. calls[F] \in Nat /\ greeted[F] \in Nat
  BY DEF IInv, TypeOK, Greeted
<1>4. pc # "done" => Cardinality(Ahead(F)) \in Nat
  BY FS_CardinalityType DEF Greeted
<1> QED
  BY <1>1, <1>2, <1>3, <1>4, OneCallMore

\* A step that calls nothing and prints no greeting.
LEMMA KeepGreeted ==
  ASSUME Greeted, UNCHANGED <<body, calls, greeted>>, pc' # "done" => pc # "done",
         \A F \in Counted : Ahead(F)' = Ahead(F)
  PROVE  Greeted'
BY DEF Greeted

\* A call has all the greetings of its function ahead.
LEMMA EnterGreeted ==
  ASSUME IInv, PipelineType, Visits, Prepared, Positions, Greeted, pc \notin {"instrument", "done"},
         UNCHANGED <<body, greeted>>, NEW t \in Threads, stack[t] = <<>> \/ PastPrologue(t),
         NEW f \in Counted, NEW s \in Seq(Frames), NEW a \in Seq(Nat),
         stack' = [stack EXCEPT ![t] = Append(s, Frame(f))],
         at' = [at EXCEPT ![t] = Append(a, 1)],
         calls' = [calls EXCEPT ![f] = @ + 1]
  PROVE  Greeted'
<1>1. Frame(f) \in Frames /\ Frame(f).func = f
  BY FrameType DEF Frame, IInv
<1>2. /\ Append(s, Frame(f)) # <<>> /\ Last(Append(s, Frame(f))) = Frame(f)
      /\ Last(Append(a, 1)) = 1
  BY <1>1, Grown
<1>3. /\ stack'[t] # <<>> /\ Top(t)'.func = f /\ Last(at'[t]) = 1
      /\ \A u \in Threads \ {t} : stack'[u] = stack[u] /\ at'[u] = at[u]
  BY <1>1, <1>2 DEF IInv, TypeOK, Positions, Top
<1>4. \A F, n : ~Comes(t, F, n)
  BY NoneAhead
<1>5. /\ IsFiniteSet(GreetingsIn(body[f])) /\ Cardinality(GreetingsIn(body[f])) \in Nat
      /\ calls[f] \in Nat /\ greeted[f] \in Nat /\ Cardinality(Ahead(f)) \in Nat
      /\ GreetingsIn(body[f]) \subseteq Nat /\ body[f] \in Code
  BY GreetedTypes
<1>6. \A n \in GreetingsIn(body[f]) : n >= 1
  BY <1>5, GreetingsFinite
<1>7. PICK G : G = GreetingsIn(body[f])
  OBVIOUS
<1>8. PICK A : A = Ahead(f)
  OBVIOUS
<1>9. Ahead(f)' = A \cup ({t} \X G) /\ A \cap ({t} \X G) = {}
  <2>1. \A n \in Nat : ~Comes(t, f, n) /\ (Comes(t, f, n)' <=> n \in G)
    BY <1>3, <1>4, <1>6, <1>7 DEF Comes
  <2>2. \A u \in Threads \ {t}, n \in Nat : Comes(u, f, n)' <=> Comes(u, f, n)
    BY <1>3 DEF Comes, Top
  <2>3. G \subseteq Nat
    BY <1>5, <1>7
  <2> QED
    BY <1>8, <2>1, <2>2, <2>3 DEF Ahead
<1>10. IsFiniteSet({t} \X G) /\ Cardinality({t} \X G) = Cardinality(G)
  <2>1. PICK S : S = {t}
    OBVIOUS
  <2>2. IsFiniteSet(S) /\ Cardinality(S) = 1
    BY <2>1, FS_Singleton
  <2>3. IsFiniteSet(S \X G) /\ Cardinality(S \X G) = Cardinality(S) * Cardinality(G)
    BY <1>5, <1>7, <2>2, FS_Product
  <2> QED
    BY <1>5, <1>7, <2>1, <2>2, <2>3
<1>11. IsFiniteSet(Ahead(f)') /\ Cardinality(Ahead(f)') = Cardinality(A) + Cardinality(G)
  <2>1. PICK B : B = {t} \X G
    OBVIOUS
  <2>2. /\ IsFiniteSet(A \cup B)
        /\ Cardinality(A \cup B) = Cardinality(A) + Cardinality(B) - Cardinality(A \cap B)
    <3>1. IsFiniteSet(A) /\ IsFiniteSet(B)
      BY <1>8, <1>10, <2>1 DEF Greeted
    <3> QED
      BY <3>1, FS_Union
  <2>3. Cardinality(A \cap B) = 0
    BY <1>9, <2>1, FS_EmptySet
  <2> QED
    BY <1>5, <1>7, <1>8, <1>9, <1>10, <2>1, <2>2, <2>3
<1>12. greeted'[f] + Cardinality(Ahead(f)') = Cardinality(GreetingsIn(body'[f])) * calls'[f]
  <2>1. calls'[f] = calls[f] + 1
    BY DEF IInv, TypeOK
  <2>2. Cardinality(G) * (calls[f] + 1) = Cardinality(G) * calls[f] + Cardinality(G)
    BY <1>5, <1>7, OneCallMore
  <2>3. greeted[f] + Cardinality(A) = Cardinality(G) * calls[f]
    BY <1>7, <1>8 DEF Greeted
  <2>4. greeted'[f] = greeted[f] /\ body'[f] = body[f]
    OBVIOUS
  <2> QED
    BY <1>5, <1>7, <1>8, <1>11, <2>1, <2>2, <2>3, <2>4
<1>13. ASSUME NEW F \in Counted \ {f}
       PROVE  Ahead(F)' = Ahead(F) /\ calls'[F] = calls[F]
  <2>1. \A n \in Nat : ~Comes(t, F, n) /\ ~Comes(t, F, n)'
    BY <1>3, <1>4 DEF Comes
  <2>2. Ahead(F)' = Ahead(F)
    BY <1>3, <2>1, SameAhead
  <2> QED
    BY <2>2 DEF IInv, TypeOK
<1> QED
  BY <1>11, <1>12, <1>13 DEF Greeted

\* A printf of the greeting that control stands at.
LEMMA PrintGreeted ==
  ASSUME IInv, PipelineType, Visits, Prepared, Positions, Greeted,
         NEW t \in Threads, PrintGreeting(t), NEW f, f = Top(t).func,
         NEW x, x = <<t, Last(at[t])>>
  PROVE  Greeted'
<1>1. /\ stack[t] # <<>> /\ body[f][Last(at[t])].by = "inject-func-call"
      /\ greeted' = [greeted EXCEPT ![f] = @ + 1]
      /\ at' = [at EXCEPT ![t] = Append(Front(at[t]), Last(at[t]) + 1)]
      /\ UNCHANGED <<pc, body, calls, stack>>
  BY DEF PrintGreeting, Instr, Advanced, vars, program, passes
<1>2. /\ f \in Counted /\ Last(at[t]) \in Nat /\ Last(at[t]) \in DOMAIN body[f]
      /\ at[t] \in Seq(Nat) /\ at[t] # <<>> /\ pc # "instrument"
  BY <1>1, AtTop
<1>3. pc # "done"
  BY <1>1 DEF IInv, Ended
<1>4. /\ Last(at'[t]) = Last(at[t]) + 1
      /\ \A u \in Threads \ {t} : at'[u] = at[u]
  <2>1. Front(at[t]) \in Seq(Nat)
    BY <1>2, Shrunk
  <2>2. Last(Append(Front(at[t]), Last(at[t]) + 1)) = Last(at[t]) + 1
    BY <1>2, <2>1, Grown
  <2> QED
    BY <1>1, <2>2 DEF Positions
<1>5. x \in Ahead(f) /\ Ahead(f)' = Ahead(f) \ {x}
  <2>1. GreetingsIn(body[f]) \subseteq Nat
    BY <1>2, GreetedTypes
  <2>2. \A n \in Nat : Comes(t, f, n)' <=> Comes(t, f, n) /\ n # Last(at[t])
    BY <1>1, <1>2, <1>4 DEF Comes, Top
  <2>3. \A u \in Threads \ {t}, n \in Nat : Comes(u, f, n)' <=> Comes(u, f, n)
    BY <1>1, <1>4 DEF Comes, Top
  <2>4. Comes(t, f, Last(at[t]))
    BY <1>1, <1>2 DEF Comes, GreetingsIn
  <2>5. x \in Ahead(f)
    BY <1>2, <2>4 DEF Ahead
  <2>6. Ahead(f)' = Ahead(f) \ {x}
    BY <2>2, <2>3 DEF Ahead
  <2> QED
    BY <2>5, <2>6
<1>6. /\ IsFiniteSet(Ahead(f)')
      /\ greeted'[f] + Cardinality(Ahead(f)') = Cardinality(GreetingsIn(body'[f])) * calls'[f]
  <2>1. PICK A : A = Ahead(f)
    OBVIOUS
  <2>2. IsFiniteSet(A) /\ Cardinality(A) \in Nat /\ greeted[f] \in Nat
    BY <1>2, <1>3, <2>1, GreetedTypes DEF Greeted
  <2>3. IsFiniteSet(A \ {x}) /\ Cardinality(A \ {x}) = Cardinality(A) - 1
    BY <1>5, <2>1, <2>2, FS_RemoveElement
  <2>4. greeted'[f] = greeted[f] + 1
    BY <1>1, <1>2 DEF Greeted
  <2>5. greeted[f] + Cardinality(A) = Cardinality(GreetingsIn(body[f])) * calls[f]
    BY <1>2, <1>3, <2>1 DEF Greeted
  <2>6. greeted[f] + Cardinality(A) = greeted'[f] + Cardinality(A \ {x})
    BY <2>2, <2>3, <2>4
  <2> QED
    BY <1>1, <1>5, <2>1, <2>3, <2>5, <2>6
<1>7. ASSUME NEW F \in Counted \ {f}
      PROVE  Ahead(F)' = Ahead(F) /\ greeted'[F] = greeted[F]
  <2>1. \A n \in Nat : Comes(t, F, n)' <=> Comes(t, F, n)
    BY <1>1 DEF Comes, Top
  <2>2. Ahead(F)' = Ahead(F)
    BY <1>1, <1>4, <2>1, SameAhead
  <2> QED
    BY <1>1, <1>2, <2>2 DEF Greeted
<1>8. greeted' \in [Counted -> Nat]
  BY <1>1, <1>2 DEF Greeted
<1> QED
  BY <1>1, <1>6, <1>7, <1>8 DEF Greeted

\* A load or a store of a counter, and a return, pass no greeting.
LEMMA StillAhead ==
  ASSUME IInv, Visits, Prepared, Positions, NEW t \in Threads, body' = body,
         \A u \in Threads \ {t} : stack'[u] = stack[u] /\ at'[u] = at[u],
         \/ /\ stack[t] # <<>> /\ stack'[t] # <<>> /\ Top(t)'.func = Top(t).func
            /\ \A n \in GreetingsIn(body[Top(t).func]) : n >= Last(at'[t]) <=> n >= Last(at[t])
         \/ \A F, n : ~Comes(t, F, n) /\ ~Comes(t, F, n)'
  PROVE  \A F : Ahead(F)' = Ahead(F)
<1> SUFFICES ASSUME NEW F PROVE Ahead(F)' = Ahead(F)
  OBVIOUS
<1>1. \A n \in Nat : Comes(t, F, n)' <=> Comes(t, F, n)
  BY DEF Comes
<1> QED
  BY <1>1, SameAhead

\* Nobody has been greeted while the passes run.
LEMMA PassGreeted ==
  ASSUME IInv, IInv', PipelineType, PipelineType', Greeted, Passing, Passing',
         UNCHANGED <<running, program>>
  PROVE  Greeted'
<1>1. /\ UNCHANGED <<greeted, at, stack, calls>> /\ pc # "done"
      /\ \A t \in Threads : stack[t] = <<>> /\ stack'[t] = <<>>
      /\ \A F \in Counted : calls[F] = 0
  BY DEF running, program, Passing, IInv, NotStarted
<1>2. ASSUME NEW F \in Counted
      PROVE  Cardinality(GreetingsIn(body[F])) \in Nat /\ Cardinality(GreetingsIn(body'[F])) \in Nat
  <2>1. ASSUME NEW code \in Seq(Instructions) PROVE Cardinality(GreetingsIn(code)) \in Nat
    <3>1. CASE code = <<>>
      <4>1. GreetingsIn(code) = {}
        BY <3>1 DEF GreetingsIn
      <4> QED
        BY <4>1, FS_EmptySet
    <3>2. CASE code # <<>>
      BY <3>2, GreetingsFinite DEF Code
    <3> QED
      BY <3>1, <3>2
  <2>2. body'[F] \in Seq(Instructions)
    BY DEF PipelineType
  <2>3. body[F] \in Seq(Instructions)
    BY DEF PipelineType
  <2> QED
    BY <2>1, <2>2, <2>3
<1>3. ASSUME NEW F \in Counted PROVE greeted[F] = 0
  <2>1. Cardinality(Ahead(F)) = 0 /\ greeted[F] \in Nat
    BY <1>1, NobodyComes DEF Greeted
  <2>2. greeted[F] + Cardinality(Ahead(F)) = Cardinality(GreetingsIn(body[F])) * calls[F]
    BY <1>1 DEF Greeted
  <2>3. Cardinality(GreetingsIn(body[F])) * calls[F] = 0
    BY <1>1, <1>2
  <2> QED
    BY <2>1, <2>2, <2>3
<1>4. ASSUME NEW F \in Counted
      PROVE  IsFiniteSet(Ahead(F)') /\ Cardinality(Ahead(F)') = 0
  <2>1. Ahead(F)' = {}
    BY <1>1 DEF Ahead, Comes
  <2> QED
    BY <2>1, FS_EmptySet
<1>5. ASSUME NEW F \in Counted
      PROVE  greeted'[F] + Cardinality(Ahead(F)') = Cardinality(GreetingsIn(body'[F])) * calls'[F]
  BY <1>1, <1>2, <1>3, <1>4
<1> QED
  BY <1>1, <1>4, <1>5 DEF Greeted

\* An increment of a counter is no greeting.
LEMMA CountGreeted ==
  ASSUME IInv, PipelineType, Visits, Prepared, Positions, Greeted,
         NEW t \in Threads, CountCall(t)
  PROVE  Greeted'
<1>1. /\ stack[t] # <<>> /\ UNCHANGED <<pc, body, calls, greeted>> /\ Instr(t).by = "dynamic-cc"
  BY DEF CountCall, passes, LoadCounter, StoreCounter
<1>2. /\ Top(t) \in Frames /\ stack[t] \in Seq(Frames) /\ at[t] \in Seq(Nat) /\ at[t] # <<>>
      /\ Last(at[t]) \in Nat
      /\ CanStand(Instr(t)) /\ LaidAt(body[Top(t).func], Last(at[t]))
      /\ Top(t).func \in Counted
  BY <1>1, AtTop
<1>3. PICK e \in Frames :
        /\ stack' = [stack EXCEPT ![t] = [stack[t] EXCEPT ![Len(stack[t])] = e]]
        /\ e.func = Top(t).func
  <2>1. CASE LoadCounter(t)
    <3>1. Loaded(t).func = Top(t).func
      BY <1>2 DEF Loaded, Frames
    <3> QED
      BY <2>1, <3>1, LoadStack DEF IInv
  <2>2. CASE StoreCounter(t)
    <3>1. Stored(t).func = Top(t).func
      BY DEF Stored
    <3> QED
      BY <2>2, <3>1, StoreStack DEF IInv
  <2> QED
    BY <2>1, <2>2 DEF CountCall
<1>4. PICK s : s = [stack[t] EXCEPT ![Len(stack[t])] = e]
  OBVIOUS
<1>5. s # <<>> /\ Last(s) = e
  BY <1>1, <1>2, <1>4, SetTop
<1>6. /\ stack'[t] # <<>> /\ Top(t)'.func = Top(t).func
      /\ \A u \in Threads \ {t} : stack'[u] = stack[u]
  BY <1>3, <1>4, <1>5 DEF IInv, TypeOK, Top
<1>7. /\ \A u \in Threads \ {t} : at'[u] = at[u]
      /\ \A n \in GreetingsIn(body[Top(t).func]) : n >= Last(at'[t]) <=> n >= Last(at[t])
  <2>1. CASE UNCHANGED at
    BY <2>1
  <2>2. CASE Advanced(t, 3)
    <3>1. Last(at'[t]) = Last(at[t]) + 3
      <4>1. Front(at[t]) \in Seq(Nat)
        BY <1>2, Shrunk
      <4>2. Last(Append(Front(at[t]), Last(at[t]) + 3)) = Last(at[t]) + 3
        BY <1>2, <4>1, Grown
      <4> QED
        BY <2>2, <4>2 DEF Advanced, Positions
    <3>2. \A u \in Threads \ {t} : at'[u] = at[u]
      BY <2>2 DEF Advanced, Positions
    <3>3. \A n \in {Last(at[t]), Last(at[t]) + 1, Last(at[t]) + 2} :
            n \notin GreetingsIn(body[Top(t).func])
      BY <1>1, <1>2 DEF LaidAt, CanStand, Instr, GreetingsIn
    <3>4. GreetingsIn(body[Top(t).func]) \subseteq Nat
      BY <1>1, <1>2, AtTop, GreetedTypes
    <3>5. \A n \in Nat : n >= Last(at[t]) =>
            n \in {Last(at[t]), Last(at[t]) + 1, Last(at[t]) + 2} \/ n >= Last(at[t]) + 3
      BY <1>2
    <3> QED
      BY <1>2, <3>1, <3>2, <3>3, <3>4, <3>5
  <2> QED
    BY <2>1, <2>2 DEF CountCall
<1>8. \A F : Ahead(F)' = Ahead(F)
  BY <1>1, <1>6, <1>7, StillAhead
<1> QED
  BY <1>1, <1>8, KeepGreeted

\* A return goes back to a function's own code.
LEMMA ReturnGreeted ==
  ASSUME IInv, PipelineType, Visits, Prepared, Positions, Greeted,
         NEW t \in Threads, PastPrologue(t), Return(t), at' = [at EXCEPT ![t] = Front(@)],
         UNCHANGED <<passes, greeted>>
  PROVE  Greeted'
<1>1. /\ stack[t] # <<>> /\ UNCHANGED <<pc, body, calls, greeted>>
      /\ stack' = [stack EXCEPT ![t] = Front(stack[t])]
  BY DEF PastPrologue, Return, passes
<1>2. /\ stack[t] \in Seq(Frames) /\ at[t] \in Seq(Nat) /\ at[t] # <<>> /\ pc # "instrument"
      /\ Standing(body, stack[t], at[t])
  BY <1>1, AtTop DEF Positions
<1>3. PICK s, a : s = Front(stack[t]) /\ a = Front(at[t])
  OBVIOUS
<1>4. /\ s \in Seq(Frames) /\ a \in Seq(Nat) /\ Standing(body, s, a)
      /\ s # <<>> => body[Last(s).func][Last(a)].by \in OwnCode
  BY <1>1, <1>2, <1>3, StandPop, Shrunk
<1>5. s # <<>> => /\ Last(s) \in Frames /\ Last(a) \in DOMAIN body[Last(s).func]
                  /\ body[Last(s).func] \in Code /\ LaidOut(body[Last(s).func])
  <2> SUFFICES ASSUME s # <<>>
               PROVE  /\ Last(s) \in Frames /\ Last(a) \in DOMAIN body[Last(s).func]
                      /\ body[Last(s).func] \in Code /\ LaidOut(body[Last(s).func])
    OBVIOUS
  <2>1. Len(s) \in Nat \ {0} /\ Last(s) = s[Len(s)] /\ Last(s) \in Frames
    BY <1>4, Shrunk
  <2>2. Last(a) = a[Len(s)]
    BY <1>4 DEF Standing, Last
  <2>3. Last(s).func \in Counted
    BY <2>1 DEF Frames
  <2> QED
    BY <1>2, <1>4, <2>1, <2>2, <2>3, AllCode DEF Standing
<1>6. stack'[t] = s /\ at'[t] = a /\ \A u \in Threads \ {t} : stack'[u] = stack[u] /\ at'[u] = at[u]
  BY <1>1, <1>3 DEF IInv, TypeOK, Positions
<1>7. \A F, n : ~Comes(t, F, n) /\ ~Comes(t, F, n)'
  <2>1. \A F, n : ~Comes(t, F, n)
    BY NoneAhead
  <2>2. ASSUME NEW F, NEW n, Comes(t, F, n)' PROVE FALSE
    <3>1. /\ s # <<>> /\ Last(s).func = F /\ n >= Last(a) /\ n \in DOMAIN body[F]
          /\ body[F][n].by = "inject-func-call"
      BY <1>1, <1>6, <2>2 DEF Comes, Top, GreetingsIn
    <3>2. LaidAt(body[F], Last(a)) /\ body[F][Last(a)].by \in OwnCode
      BY <1>4, <1>5, <3>1 DEF LaidOut
    <3> QED
      BY <3>1, <3>2 DEF LaidAt, OwnCode
  <2> QED
    BY <2>1, <2>2
<1>8. \A F : Ahead(F)' = Ahead(F)
  BY <1>1, <1>6, <1>7, StillAhead
<1> QED
  BY <1>1, <1>8, KeepGreeted

\* Every step prints or leaves ahead what the calls made so far are to print.
LEMMA GreetedStep ==
  ASSUME IInv, IInv', PipelineType, PipelineType', Visits, Prepared, Positions, Greeted,
         [PassesNext]_<<vars, passes, running>>
  PROVE  Greeted'
<1>1. CASE \/ SkipFunction \/ InjectGreeting \/ CountDirectCalls \/ CountOpcodes \/ LeavePass
           \/ Instrument
  BY <1>1, PassPhase, PassGreeted
<1>2. CASE Load
  <2>1. /\ Enter(MainThread, Main) /\ Pushed(MainThread) /\ UNCHANGED <<body, greeted>>
        /\ pc = "load" /\ stack[MainThread] = <<>>
    BY <1>2, MainThreadType DEF Load, Start, passes, IInv, NotStarted, Passing
  <2>2. stack[MainThread] \in Seq(Frames) /\ at[MainThread] \in Seq(Nat)
    BY MainThreadType DEF IInv, TypeOK, Positions
  <2> QED
    BY <2>1, <2>2, EnterGreeted, MainThreadType, CountedTypes DEF IInv, Enter, Pushed
<1>3. ASSUME NEW t \in Threads, NewThread(t)
      PROVE  Greeted'
  <2>1. PICK f \in Defined : Enter(t, f)
    BY <1>3 DEF NewThread, StartThread
  <2>2. /\ Pushed(t) /\ UNCHANGED <<body, greeted>> /\ stack[t] = <<>> /\ pc = "run"
        /\ f \in Counted /\ stack[t] \in Seq(Frames) /\ at[t] \in Seq(Nat)
    BY <1>3, CountedTypes DEF NewThread, StartThread, passes, IInv, TypeOK, Positions
  <2> QED
    BY <2>1, <2>2, EnterGreeted DEF Enter, Pushed
<1>4. ASSUME NEW t \in Threads, PrintGreeting(t)
      PROVE  Greeted'
  BY <1>4, PrintGreeted
<1>5. ASSUME NEW t \in Threads, CountCall(t)
      PROVE  Greeted'
  BY <1>5, CountGreeted
<1>6. ASSUME NEW t \in Threads, OwnStep(t)
      PROVE  Greeted'
  <2>1. /\ PastPrologue(t) /\ stack[t] # <<>> /\ UNCHANGED <<passes, body, greeted>>
        /\ stack[t] \in Seq(Frames) /\ at[t] \in Seq(Nat) /\ at[t] # <<>>
        /\ pc \notin {"instrument", "done"}
    BY <1>6, AtTop DEF OwnStep, PastPrologue, passes, IInv, Ended
  <2>2. CASE (Call(t) \/ Exit(t)) /\ Pushed(t)
    <3>1. PICK f \in Counted : Enter(t, f)
      BY <2>2, CountedTypes DEF Call, Exit
    <3> QED
      BY <2>1, <2>2, <3>1, EnterGreeted DEF Enter, Pushed
  <2>3. CASE Return(t) /\ at' = [at EXCEPT ![t] = Front(@)]
    BY <2>1, <2>3, ReturnGreeted
  <2>4. CASE PrintCounter(t) /\ UNCHANGED at
    <3>1. UNCHANGED <<stack, calls, pc, at>>
      BY <2>4 DEF PrintCounter
    <3>2. \A F : Ahead(F)' = Ahead(F)
      BY <2>1, <3>1 DEF Ahead, Comes, Top
    <3> QED
      BY <2>1, <3>1, <3>2, KeepGreeted
  <2>5. CASE NextDtor(t) /\ at' = [at EXCEPT ![t] = Append(Front(@), 1)]
    <3>1. Front(stack[t]) \in Seq(Frames) /\ Front(at[t]) \in Seq(Nat)
      BY <2>1, Shrunk
    <3>2. /\ stack' = [stack EXCEPT ![t] = Append(Front(stack[t]), Frame(Wrapper))]
          /\ at' = [at EXCEPT ![t] = Append(Front(at[t]), 1)]
          /\ calls' = [calls EXCEPT ![Wrapper] = @ + 1]
      BY <2>5 DEF NextDtor
    <3> QED
      BY <2>1, <3>1, <3>2, CountedTypes, EnterGreeted
  <2>6. CASE End(t)
    BY <2>1, <2>6 DEF End, Greeted
  <2> QED
    BY <1>6, <2>2, <2>3, <2>4, <2>5, <2>6 DEF OwnStep
<1>7. CASE UNCHANGED <<vars, passes, running>>
  <2>1. UNCHANGED <<stack, at, body, calls, greeted, pc>>
    BY <1>7 DEF vars, program, passes, running
  <2>2. \A F : Ahead(F)' = Ahead(F)
    BY <2>1 DEF Ahead, Comes, Top
  <2> QED
    BY <2>1, <2>2, KeepGreeted
<1> QED
  BY <1>1, <1>2, <1>3, <1>4, <1>5, <1>6, <1>7 DEF PassesNext
-----------------------------------------------------------------------------
\* printf_wrapper is called once for each destructor that a run of
\* dynamic-cc has registered.
WrapperCalls ==
  /\ pc \in {"load", "run"} => calls[Wrapper] = 0 /\ dtors = runs
  /\ pc \in {"exit", "done"} => calls[Wrapper] + dtors = runs
  /\ pc = "done" => dtors = 0

LEMMA WrapperCallsStep ==
  ASSUME IInv, WrapperCalls, [Next]_vars
  PROVE  WrapperCalls'
<1> USE DEF WrapperCalls
<1>1. /\ calls \in [Counted -> 0..MaxCalls] /\ Wrapper \in Counted /\ Wrapper \notin Defined
      /\ runs \in Nat /\ dtors \in 0..MaxRuns /\ Main \in Defined /\ MaxRuns \in Nat
  BY CountedTypes, BoundsAssumption, FunctionsAssumption DEF IInv, TypeOK
<1>2. CASE Pass
  <2>1. pc' = "load" => pc = "instrument" /\ run = runs /\ dtors' = dtors + 1 /\ dtors = run - 1
    BY <1>2 DEF Pass, SkipDeclaration, InjectCounter, DefineWrapper, RunAgain, IInv,
                Instrumented, TypeOK
  <2>2. /\ pc' \in {"instrument", "again", "load"} /\ pc \in {"instrument", "again"}
        /\ UNCHANGED <<runs, calls>>
    BY <1>2 DEF Pass, SkipDeclaration, InjectCounter, DefineWrapper, RunAgain, program
  <2>3. calls[Wrapper] = 0
    BY <1>1, <2>2 DEF IInv, NotStarted, Passing
  <2> QED
    BY <1>1, <2>1, <2>2, <2>3
<1>3. CASE Start
  BY <1>1, <1>3 DEF Start, Enter, module
<1>4. ASSUME NEW t \in Threads, StartThread(t) \/ Call(t)
      PROVE  WrapperCalls'
  <2>1. PICK f \in Defined : Enter(t, f)
    BY <1>4 DEF StartThread, Call
  <2>2. calls'[Wrapper] = calls[Wrapper]
    BY <1>1, <2>1 DEF Enter
  <2> QED
    BY <1>4, <2>2 DEF StartThread, Call, module
<1>5. ASSUME NEW t \in Threads,
             LoadCounter(t) \/ StoreCounter(t) \/ Return(t) \/ PrintCounter(t)
      PROVE  WrapperCalls'
  BY <1>5 DEF LoadCounter, StoreCounter, Return, PrintCounter, module
<1>6. ASSUME NEW t \in Threads, Exit(t) \/ NextDtor(t)
      PROVE  WrapperCalls'
  <2>1. /\ pc \in {"run", "exit"} /\ pc' = "exit" /\ dtors' = dtors - 1
        /\ calls' = [calls EXCEPT ![Wrapper] = @ + 1] /\ runs' = runs
    BY <1>6 DEF Exit, NextDtor, Enter
  <2>2. calls'[Wrapper] = calls[Wrapper] + 1
    BY <1>1, <2>1
  <2> QED
    BY <1>1, <2>1, <2>2
<1>7. ASSUME NEW t \in Threads, End(t)
      PROVE  WrapperCalls'
  BY <1>7 DEF End, module
<1>8. CASE UNCHANGED vars
  BY <1>8 DEF vars, module, program
<1> QED
  BY <1>2, <1>3, <1>4, <1>5, <1>6, <1>7, <1>8 DEF Next, Step

\* The runs of inject-func-call that a function has seen in the end.
LEMMA AllInjections ==
  ASSUME PipelineType, step > Len(pipeline)
  PROVE  /\ \A F \in Defined : Injections(F) = Named(pipeline, "inject-func-call")
         /\ Injections(Wrapper) =
              {n \in Named(pipeline, "inject-func-call") :
                 \E k \in Named(pipeline, "dynamic-cc") : k < n}
<1>1. \A n \in Named(pipeline, "inject-func-call") : n < step
  BY PipelinePositions DEF PipelineType, Named
<1>2. Wrapper \notin Defined
  BY FunctionsAssumption
<1> QED
  BY <1>1, <1>2 DEF Injections

\* The process ends when printf_wrapper has returned, and then every greeting
\* that stands in a function has been printed by each of its calls.
LEMMA EndGreetings ==
  ASSUME IInv, PipelineType, Visits, Prepared, Positions, Greeted, WrapperCalls, WrapperCalls',
         SingleThread, NEW t \in Threads, PastPrologue(t), End(t), UNCHANGED <<passes, greeted>>
  PROVE  GreetingsExact'
<1>1. /\ UNCHANGED <<greeted, calls, pipeline, runs>> /\ pc = "exit" /\ pc' = "done"
      /\ stack[t] # <<>>
  BY DEF PastPrologue, End, passes, module
<1>2. \A u \in Threads : stack[u] = <<>> \/ PastPrologue(u)
  BY <1>1 DEF IInv, Counting
<1>3. ASSUME NEW F \in Counted PROVE Cardinality(Ahead(F)) = 0
  <2>1. Ahead(F) = {}
    BY <1>2, NoneAhead DEF Ahead
  <2> QED
    BY <2>1, FS_EmptySet
<1>4. ASSUME NEW F \in Counted
      PROVE  greeted[F] = Cardinality(Injections(F)) * calls[F]
  <2>1. greeted[F] \in Nat
    BY <1>1, GreetedTypes
  <2>2. greeted[F] + Cardinality(Ahead(F)) = Cardinality(GreetingsIn(body[F])) * calls[F]
    BY <1>1 DEF Greeted
  <2>3. Cardinality(GreetingsIn(body[F])) = Cardinality(Injections(F))
    BY DEF Prepared
  <2>4. greeted[F] = Cardinality(GreetingsIn(body[F])) * calls[F]
    BY <1>3, <2>1, <2>2
  <2> QED
    BY <2>3, <2>4
<1>5. step > Len(pipeline)
  BY <1>1 DEF Visits, Passing
<1>6. calls[Wrapper] = runs
  <2>1. calls[Wrapper] \in Nat /\ runs \in Nat
    BY CountedTypes DEF IInv, TypeOK
  <2>2. calls'[Wrapper] + dtors' = runs' /\ dtors' = 0
    BY <1>1 DEF WrapperCalls
  <2> QED
    BY <1>1, <2>1, <2>2
<1>7. \A F \in Defined : greeted[F] = Cardinality(Named(pipeline, "inject-func-call")) * calls[F]
  BY <1>4, <1>5, AllInjections, CountedTypes
<1>8. greeted[Wrapper] =
        Cardinality({n \in Named(pipeline, "inject-func-call") :
                       \E k \in Named(pipeline, "dynamic-cc") : k < n}) * runs
  BY <1>4, <1>5, <1>6, AllInjections, CountedTypes
<1> QED
  BY <1>1, <1>7, <1>8 DEF GreetingsExact, Named

\* The greetings are exact when the process ends, and stay so.
LEMMA GreetingsStep ==
  ASSUME IInv, PipelineType, Visits, Prepared, Positions, Greeted, WrapperCalls, WrapperCalls',
         GreetingsExact, [PassesNext]_<<vars, passes, running>>
  PROVE  GreetingsExact'
<1> SUFFICES ASSUME pc' = "done", SingleThread' PROVE GreetingsExact'
  BY DEF GreetingsExact
<1>1. CASE \/ SkipFunction \/ InjectGreeting \/ CountDirectCalls \/ CountOpcodes \/ LeavePass
           \/ Instrument
  BY <1>1, PassPhase DEF Passing
<1>2. CASE Load
  BY <1>2 DEF Load, Start
<1>3. ASSUME NEW t \in Threads, NewThread(t) PROVE FALSE
  BY <1>3 DEF NewThread, StartThread
<1>4. ASSUME NEW t \in Threads, PrintGreeting(t) \/ CountCall(t) PROVE FALSE
  <2>1. pc' = pc /\ stack[t] # <<>>
    BY <1>4 DEF PrintGreeting, CountCall, LoadCounter, StoreCounter, vars
  <2> QED
    BY <2>1 DEF IInv, Ended
<1>5. ASSUME NEW t \in Threads, OwnStep(t) PROVE GreetingsExact'
  <2>1. /\ PastPrologue(t) /\ stack[t] # <<>> /\ UNCHANGED <<passes, greeted>> /\ pc # "done"
    BY <1>5 DEF OwnStep, PastPrologue, IInv, Ended
  <2>2. End(t)
    BY <1>5, <2>1 DEF OwnStep, Call, Return, Exit, PrintCounter, NextDtor
  <2>3. SingleThread
    BY <2>2 DEF End, SingleThread
  <2> QED
    BY <2>1, <2>2, <2>3, EndGreetings
<1>6. CASE UNCHANGED <<vars, passes, running>>
  BY <1>6 DEF vars, program, passes, running, GreetingsExact, SingleThread, Named
<1> QED
  BY <1>1, <1>2, <1>3, <1>4, <1>5, <1>6 DEF PassesNext
-----------------------------------------------------------------------------
PassesInv ==
  /\ PipelineType /\ Visits /\ Prepared
  /\ Positions /\ Greeted /\ WrapperCalls /\ GreetingsExact

LEMMA PassesInvInit == PassesInit => PassesInv
<1> SUFFICES ASSUME PassesInit PROVE PassesInv
  OBVIOUS
<1>1. Init /\ IInv
  BY InitInv DEF PassesInit
<1>2. PipelineType /\ Visits /\ Prepared
  BY InitPrepared
<1>3. /\ \A t \in Threads : stack[t] = <<>> /\ at[t] = <<>>
      /\ \A F \in Counted : calls[F] = 0 /\ greeted[F] = 0
      /\ pc = "instrument" /\ at = [t \in Threads |-> <<>>] /\ greeted = [F \in Counted |-> 0]
  BY <1>1 DEF PassesInit, Init
<1>4. Positions
  BY <1>3 DEF Positions, Standing
<1>5. Greeted
  <2>1. ASSUME NEW F \in Counted
        PROVE  /\ IsFiniteSet(Ahead(F))
               /\ greeted[F] + Cardinality(Ahead(F)) = Cardinality(GreetingsIn(body[F])) * calls[F]
    <3>1. IsFiniteSet(Ahead(F)) /\ Cardinality(Ahead(F)) = 0
      BY <1>3, NobodyComes
    <3>2. Cardinality(GreetingsIn(body[F])) \in Nat
      BY <1>2, InjectionsFinite DEF Prepared
    <3> QED
      BY <1>3, <3>1, <3>2
  <2>2. greeted \in [Counted -> Nat]
    BY <1>3
  <2> QED
    BY <2>1, <2>2 DEF Greeted
<1> QED
  BY <1>2, <1>3, <1>4, <1>5 DEF PassesInv, WrapperCalls, GreetingsExact

LEMMA PassesInductive ==
  IInv /\ PassesInv /\ [PassesNext]_<<vars, passes, running>> => IInv' /\ PassesInv'
<1> SUFFICES ASSUME IInv, PassesInv, [PassesNext]_<<vars, passes, running>>
             PROVE  IInv' /\ PassesInv'
  OBVIOUS
<1> USE DEF PassesInv
<1>1. [Next]_vars /\ IInv'
  BY PassesStep, InductiveStep
<1>2. PipelineType' /\ Visits' /\ Prepared'
  BY PreparedStep
<1>3. Positions' /\ Greeted'
  BY <1>1, <1>2, PositionsStep, GreetedStep
<1>4. WrapperCalls'
  BY <1>1, WrapperCallsStep
<1>5. GreetingsExact'
  BY <1>4, GreetingsStep
<1> QED
  BY <1>1, <1>2, <1>3, <1>4, <1>5

\* What CallCounters promises holds with the other passes around it, and with
\* code at the start of functions: the types, the report of a program with one
\* thread, and that threads invent no call.
THEOREM CountsHold == PassesSpec => [](TypeOK /\ ReportExact /\ NoOvercount)
BY ImplementsCallCounters, TypeCorrect, ReportCorrect, OvercountImpossible, PTL

\* Wherever inject-func-call stands between the runs of dynamic-cc, and
\* however deep functions call themselves or exit: a program with one thread
\* has greeted once per call of a function and run of the pass, and
\* printf_wrapper for the runs behind the one that made it.
THEOREM GreetingsCorrect == PassesSpec => []GreetingsExact
<1>1. PassesInit => IInv /\ PassesInv
  BY InitInv, PassesInvInit DEF PassesInit
<1>2. IInv /\ PassesInv => GreetingsExact
  BY DEF PassesInv
<1> QED
  BY <1>1, <1>2, PassesInductive, PTL DEF PassesSpec
=============================================================================
