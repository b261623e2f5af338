----------------------------- MODULE MBAProofs -----------------------------
(***************************************************************************)
(* What the passes build computes what it replaces, for all values of the  *)
(* operands: for mba-sub at every width, for mba-add at the one width it   *)
(* looks for.  Whatever the function and the pipeline, a pass that reports *)
(* that all analyses are preserved has left every block as it was, the     *)
(* function stays one that the verifier accepts, and the candidates that   *)
(* are selected are replaced, and no others.                               *)
(***************************************************************************)
EXTENDS MBA, SelectionTheorems, SequenceTheorems

\* env gives a value to each instruction of steps that is the one it computes.
ValueIn(env, v) == IF v \in Consts THEN v[2] ELSE env[v]

Computes(env, steps, bits) ==
  \A i \in DOMAIN steps :
    env[steps[i].id] =
      Arith(steps[i].kind, bits, ValueIn(env, steps[i].ops[1]),
            ValueIn(env, steps[i].ops[Len(steps[i].ops)]))

LEMMA EightBits == 2^8 = 256
  OBVIOUS

LEMMA DigitsOfBytes ==
  \A n \in 0..255 : OfDigits(Digits(n)) = n /\ \A i \in 1..8 : Digits(n)[i] \in {0, 1}
  BY DEF OfDigits, Digits

\* Two sums with the weights of the eight digits add up digit by digit.
LEMMA SumOfDigits ==
  ASSUME NEW d1 \in Int, NEW d2 \in Int, NEW d3 \in Int, NEW d4 \in Int,
         NEW d5 \in Int, NEW d6 \in Int, NEW d7 \in Int, NEW d8 \in Int,
         NEW e1 \in Int, NEW e2 \in Int, NEW e3 \in Int, NEW e4 \in Int,
         NEW e5 \in Int, NEW e6 \in Int, NEW e7 \in Int, NEW e8 \in Int
  PROVE  (d1 + 2*d2 + 4*d3 + 8*d4 + 16*d5 + 32*d6 + 64*d7 + 128*d8)
           + (e1 + 2*e2 + 4*e3 + 8*e4 + 16*e5 + 32*e6 + 64*e7 + 128*e8)
         = (d1 + e1) + 2*(d2 + e2) + 4*(d3 + e3) + 8*(d4 + e4)
             + 16*(d5 + e5) + 32*(d6 + e6) + 64*(d7 + e7) + 128*(d8 + e8)
  BY SMTT(60)

\* A sum is the sum without carries, and the carries.
LEMMA SumOfXorAnd ==
  ASSUME NEW m \in 0..255, NEW n \in 0..255
  PROVE  /\ Xor(m, n) + 2 * And(m, n) = m + n
         /\ Xor(m, n) \in Nat /\ And(m, n) \in Nat
<1> DEFINE d == Digits(m)
           e == Digits(n)
<1>1. \A i \in 1..8 : d[i] \in {0, 1} /\ e[i] \in {0, 1}
  BY DigitsOfBytes
<1>2. OfDigits(d) = m /\ OfDigits(e) = n
  BY DigitsOfBytes
<1> HIDE DEF d, e
<1>3. /\ Xor(m, n) = OfDigits([i \in 1..8 |-> (d[i] + e[i]) % 2])
      /\ And(m, n) = OfDigits([i \in 1..8 |-> d[i] * e[i]])
  BY DEF Xor, And, d, e
<1> DEFINE x(i) == (d[i] + e[i]) % 2
           a(i) == d[i] * e[i]
<1>4. ASSUME NEW i \in 1..8
      PROVE  /\ x(i) \in Nat /\ a(i) \in Nat /\ d[i] \in Nat /\ e[i] \in Nat
             /\ x(i) + 2 * a(i) = d[i] + e[i]
  <2>1. d[i] \in {0, 1} /\ e[i] \in {0, 1}
    BY <1>1
  <2>2. \A u, v \in {0, 1} :
          (u + v) % 2 \in Nat /\ u * v \in Nat /\ ((u + v) % 2) + 2 * (u * v) = u + v
    OBVIOUS
  <2>3. /\ (d[i] + e[i]) % 2 \in Nat /\ d[i] * e[i] \in Nat
        /\ ((d[i] + e[i]) % 2) + 2 * (d[i] * e[i]) = d[i] + e[i]
    BY <2>1, <2>2
  <2>4. d[i] \in Nat /\ e[i] \in Nat
    BY <2>1
  <2> QED
    BY <2>3, <2>4
<1>5. /\ Xor(m, n) = x(1) + 2*x(2) + 4*x(3) + 8*x(4) + 16*x(5) + 32*x(6) + 64*x(7) + 128*x(8)
      /\ And(m, n) = a(1) + 2*a(2) + 4*a(3) + 8*a(4) + 16*a(5) + 32*a(6) + 64*a(7) + 128*a(8)
  BY <1>3 DEF OfDigits
<1>6. /\ m = d[1] + 2*d[2] + 4*d[3] + 8*d[4] + 16*d[5] + 32*d[6] + 64*d[7] + 128*d[8]
      /\ n = e[1] + 2*e[2] + 4*e[3] + 8*e[4] + 16*e[5] + 32*e[6] + 64*e[7] + 128*e[8]
  BY <1>2 DEF OfDigits
<1> HIDE DEF x, a
<1>7. Xor(m, n) \in Nat /\ And(m, n) \in Nat
  BY <1>4, <1>5
<1>8. Xor(m, n) + 2 * And(m, n)
        = (x(1) + 2*a(1)) + 2*(x(2) + 2*a(2)) + 4*(x(3) + 2*a(3)) + 8*(x(4) + 2*a(4))
          + 16*(x(5) + 2*a(5)) + 32*(x(6) + 2*a(6)) + 64*(x(7) + 2*a(7)) + 128*(x(8) + 2*a(8))
  BY <1>4, <1>5, SMTT(60)
<1>9. m + n = (d[1] + e[1]) + 2*(d[2] + e[2]) + 4*(d[3] + e[3]) + 8*(d[4] + e[4])
               + 16*(d[5] + e[5]) + 32*(d[6] + e[6]) + 64*(d[7] + e[7]) + 128*(d[8] + e[8])
  <2>1. /\ d[1] \in Int /\ d[2] \in Int /\ d[3] \in Int /\ d[4] \in Int
        /\ d[5] \in Int /\ d[6] \in Int /\ d[7] \in Int /\ d[8] \in Int
        /\ e[1] \in Int /\ e[2] \in Int /\ e[3] \in Int /\ e[4] \in Int
        /\ e[5] \in Int /\ e[6] \in Int /\ e[7] \in Int /\ e[8] \in Int
    BY <1>4
  <2> QED
    BY <1>6, <2>1, SumOfDigits, SMTT(30)
<1> QED
  BY <1>4, <1>7, <1>8, <1>9

\* 39 * 151 is 1 and 23 * 151 + 111 is 0, modulo 256.
LEMMA AffineInverse ==
  ASSUME NEW z \in Nat
  PROVE  (111 + ((151 * ((23 + ((39 * (z % 256)) % 256)) % 256)) % 256)) % 256 = z % 256
  BY SMTT(60)

LEMMA ComplementAdds ==
  ASSUME NEW M \in Nat \ {0}, NEW a \in 0..(M - 1), NEW b \in 0..(M - 1)
  PROVE  (((a + (M - 1 - b)) % M) + 1) % M = (a - b) % M
  BY SMTT(60)

LEMMA ComputedStep ==
  ASSUME NEW env, NEW bits, NEW steps, Computes(env, steps, bits), NEW i \in DOMAIN steps,
         NEW id, NEW kind, NEW left, NEW right, steps[i] = Step(id, kind, left, right)
  PROVE  env[id] = Arith(kind, bits, ValueIn(env, left), ValueIn(env, right))
<1>1. /\ steps[i].id = id /\ steps[i].kind = kind
      /\ steps[i].ops[1] = left /\ steps[i].ops[Len(steps[i].ops)] = right
  BY DEF Step
<1> QED
  BY <1>1 DEF Computes

LEMMA NotAConstant ==
  ASSUME NEW n, NEW role
  PROVE  Id(n, role) \notin Consts
  BY DEF Consts, Id

\* Values that are computed as MBAAdd's expression says make its last
\* instruction the sum, modulo 256.
THEOREM AddComputes ==
  ASSUME NEW n, NEW a, NEW b, NEW env,
         ValueIn(env, a) \in 0..255, ValueIn(env, b) \in 0..255,
         Computes(env, AddSteps(n, a, b), 8)
  PROVE  env[Id(n, "E")] = Arith("add", 8, ValueIn(env, a), ValueIn(env, b))
<1> DEFINE v(role) == env[Id(n, role)]
           x == ValueIn(env, a)
           y == ValueIn(env, b)
           steps == AddSteps(n, a, b)
<1>1. \A role : ValueIn(env, Id(n, role)) = v(role)
  BY NotAConstant DEF ValueIn
<1>2. \A k \in Nat : ValueIn(env, Const(k)) = k
  BY DEF ValueIn, Const, Consts
<1>3. /\ DOMAIN steps = 1..8
      /\ steps[1] = Step(Id(n, "e0"), "xor", a, b)
      /\ steps[2] = Step(Id(n, "and"), "and", a, b)
      /\ steps[3] = Step(Id(n, "e1"), "mul", Const(2), Id(n, "and"))
      /\ steps[4] = Step(Id(n, "e2"), "add", Id(n, "e0"), Id(n, "e1"))
      /\ steps[5] = Step(Id(n, "e3"), "mul", Const(39), Id(n, "e2"))
      /\ steps[6] = Step(Id(n, "e4"), "add", Const(23), Id(n, "e3"))
      /\ steps[7] = Step(Id(n, "e5"), "mul", Const(151), Id(n, "e4"))
      /\ steps[8] = Step(Id(n, "E"), "add", Const(111), Id(n, "e5"))
  BY DEF AddSteps
<1>4. ASSUME NEW i \in DOMAIN steps, NEW id, NEW kind, NEW left, NEW right,
             steps[i] = Step(id, kind, left, right)
      PROVE  env[id] = Arith(kind, 8, ValueIn(env, left), ValueIn(env, right))
  BY <1>4, ComputedStep
<1> HIDE DEF steps, x, y
<1>5. v("e0") = Xor(x, y) /\ v("and") = And(x, y)
  BY <1>3, <1>4 DEF Arith, x, y
<1>6. v("e1") = (2 * v("and")) % 256
  BY <1>1, <1>2, <1>3, <1>4, EightBits DEF Arith
<1>7. v("e2") = (v("e0") + v("e1")) % 256
  BY <1>1, <1>3, <1>4, EightBits DEF Arith
<1>8. v("e3") = (39 * v("e2")) % 256
  BY <1>1, <1>2, <1>3, <1>4, EightBits DEF Arith
<1>9. v("e4") = (23 + v("e3")) % 256
  BY <1>1, <1>2, <1>3, <1>4, EightBits DEF Arith
<1>10. v("e5") = (151 * v("e4")) % 256
  BY <1>1, <1>2, <1>3, <1>4, EightBits DEF Arith
<1>11. v("E") = (111 + v("e5")) % 256
  BY <1>1, <1>2, <1>3, <1>4, EightBits DEF Arith
<1> HIDE DEF v
<1>12. x \in 0..255 /\ y \in 0..255
  BY DEF x, y
<1>13. v("e2") = (x + y) % 256
  <2>1. /\ Xor(x, y) + 2 * And(x, y) = x + y
        /\ Xor(x, y) \in Nat /\ And(x, y) \in Nat
    BY <1>12, SumOfXorAnd
  <2>2. \A j, k \in Nat : (j + ((2 * k) % 256)) % 256 = (j + 2 * k) % 256
    OBVIOUS
  <2> QED
    BY <1>5, <1>6, <1>7, <2>1, <2>2
<1>14. v("E") = (x + y) % 256
  BY <1>8, <1>9, <1>10, <1>11, <1>12, <1>13, AffineInverse
<1> QED
  BY <1>14, EightBits DEF v, x, y, Arith

\* Values that are computed as MBASub's expression says make its last
\* instruction the difference, at every width.
THEOREM SubComputes ==
  ASSUME NEW n, NEW a, NEW b, NEW env, NEW bits \in Nat, bits > 0,
         ValueIn(env, a) \in 0..(2^bits - 1), ValueIn(env, b) \in 0..(2^bits - 1),
         Computes(env, SubSteps(n, a, b), bits)
  PROVE  env[Id(n, "E")] = Arith("sub", bits, ValueIn(env, a), ValueIn(env, b))
<1> DEFINE v(role) == env[Id(n, role)]
           x == ValueIn(env, a)
           y == ValueIn(env, b)
           M == 2^bits
           steps == SubSteps(n, a, b)
<1>1. \A role : ValueIn(env, Id(n, role)) = v(role)
  BY NotAConstant DEF ValueIn
<1>2. ValueIn(env, Const(1)) = 1
  BY DEF ValueIn, Const, Consts
<1>3. /\ DOMAIN steps = 1..3
      /\ steps[1] = [id |-> Id(n, "not"), kind |-> "not", ops |-> <<b>>]
      /\ steps[2] = Step(Id(n, "sum"), "add", a, Id(n, "not"))
      /\ steps[3] = Step(Id(n, "E"), "add", Id(n, "sum"), Const(1))
  BY DEF SubSteps
<1>4. ASSUME NEW i \in DOMAIN steps, NEW id, NEW kind, NEW left, NEW right,
             steps[i] = Step(id, kind, left, right)
      PROVE  env[id] = Arith(kind, bits, ValueIn(env, left), ValueIn(env, right))
  BY <1>4, ComputedStep
<1>5. v("not") = M - 1 - y
  <2>1. /\ 1 \in DOMAIN steps /\ steps[1].id = Id(n, "not")
        /\ steps[1].kind = "not" /\ steps[1].ops = <<b>>
    BY <1>3
  <2>2. env[Id(n, "not")] = Arith("not", bits, y, y)
    BY <2>1 DEF Computes
  <2>3. v("not") = (-1 - y) % M
    BY <2>2 DEF Arith
  <2>4. M \in Nat \ {0} /\ y \in 0..(M - 1)
    OBVIOUS
  <2>5. \A w \in 0..(M - 1) : (-1 - w) % M = M - 1 - w
    <3> HIDE DEF M
    <3> QED
      BY <2>4, SMTT(30)
  <2> HIDE DEF M, y, v
  <2> QED
    BY <2>3, <2>4, <2>5
<1> HIDE DEF steps
<1>6. v("sum") = (x + v("not")) % M /\ v("E") = (v("sum") + 1) % M
  BY <1>1, <1>2, <1>3, <1>4 DEF Arith
<1>7. M \in Nat \ {0}
  OBVIOUS
<1> HIDE DEF M, x, y, v
<1>8. x \in 0..(M - 1) /\ y \in 0..(M - 1)
  BY DEF x, y, M
<1>9. v("E") = (x - y) % M
  BY <1>5, <1>6, <1>7, <1>8, ComplementAdds
<1> QED
  BY <1>9 DEF v, x, y, M, Arith
-----------------------------------------------------------------------------
\* A pass that has changed nothing yet sees the function it found, and between
\* passes the report of the last one is still true.
Unchanged == input = [code |-> code, inst |-> inst]

Reported ==
  /\ pc # "run" /\ ~Changed => Unchanged
  /\ pc = "run" /\ preserved = "all" => Unchanged
  /\ Changed \in BOOLEAN

\* PreservedIfUnchanged: run returns PreservedAnalyses::all() only if no block
\* of the function was changed.
THEOREM ReportCorrect == Spec => []PreservedIfUnchanged
<1>1. Init => Reported
  BY DEF Init, Reported, Unchanged
<1>2. Reported /\ [Next]_vars => Reported'
  <2> SUFFICES ASSUME Reported, [Next]_vars PROVE Reported'
    OBVIOUS
  <2>1. CASE StartPass
    BY <2>1 DEF StartPass, Reported, Unchanged, function
  <2>2. CASE StartBlock
    BY <2>2 DEF StartBlock, Reported, Unchanged, function
  <2>3. CASE SkipOther
    BY <2>3 DEF SkipOther, InBlock, Reported, Unchanged, function
  <2>4. CASE SkipDrawn
    BY <2>4 DEF SkipDrawn, InBlock, Reported, Unchanged, function
  <2>5. CASE SubstituteAdd
    BY <2>5, Zenon DEF SubstituteAdd, Substitute, InBlock, Reported
  <2>6. CASE SubstituteSub
    BY <2>6, Zenon DEF SubstituteSub, Substitute, InBlock, Reported
  <2>7. CASE EndBlock
    BY <2>7 DEF EndBlock, Reported, Unchanged, function
  <2>8. CASE EndPass
    BY <2>8 DEF EndPass, Reported, Unchanged, function
  <2>9. CASE UNCHANGED vars
    BY <2>9 DEF vars, Reported, Unchanged, function
  <2> QED
    BY <2>1, <2>2, <2>3, <2>4, <2>5, <2>6, <2>7, <2>8, <2>9 DEF Next
<1>3. Reported => PreservedIfUnchanged
  BY DEF Reported, Unchanged, PreservedIfUnchanged
<1> QED
  BY <1>1, <1>2, <1>3, PTL DEF Spec
-----------------------------------------------------------------------------
(***************************************************************************)
(* What the passes make of a function.                                     *)
(***************************************************************************)

\* Operations on numbers give numbers.
LEMMA ArithType ==
  ASSUME NEW kind \in ArithKinds, NEW bits \in Widths, NEW m \in Nat, NEW n \in Nat
  PROVE  Arith(kind, bits, m, n) \in Nat
<1>1. 2^bits \in Nat \ {0}
  BY DEF Widths
<1>2. \A x \in Int : x % (2^bits) \in Nat
  BY <1>1
<1>3. \A x \in Nat : \A i \in 1..8 : Digits(x)[i] \in {0, 1}
  BY DEF Digits
<1>4. And(m, n) \in Nat
  <2> DEFINE d == [i \in 1..8 |-> Digits(m)[i] * Digits(n)[i]]
  <2>1. \A i \in 1..8 : d[i] \in Nat
    <3>1. \A x, y \in {0, 1} : x * y \in Nat
      OBVIOUS
    <3>. QED  BY <1>3, <3>1
  <2>2. And(m, n) = OfDigits(d)
    BY DEF And
  <2> HIDE DEF d
  <2>. QED  BY <2>1, <2>2 DEF OfDigits
<1>5. Xor(m, n) \in Nat
  <2> DEFINE d == [i \in 1..8 |-> (Digits(m)[i] + Digits(n)[i]) % 2]
  <2>1. \A i \in 1..8 : d[i] \in Nat
    BY <1>3
  <2>2. Xor(m, n) = OfDigits(d)
    BY DEF Xor
  <2> HIDE DEF d
  <2>. QED  BY <2>1, <2>2 DEF OfDigits
<1>6. CASE kind \in {"and", "xor"}
  BY <1>4, <1>5, <1>6 DEF Arith
<1>7. CASE kind = "mul"
  <2>1. m * n \in Int
    OBVIOUS
  <2>2. Arith(kind, bits, m, n) = (m * n) % (2^bits)
    BY <1>7 DEF Arith
  <2>. QED  BY <1>2, <2>1, <2>2
<1>8. CASE kind \in {"add", "sub", "not"}
  <2>1. m + n \in Int /\ m - n \in Int /\ -1 - m \in Int
    OBVIOUS
  <2>2. \E x \in {m + n, m - n, -1 - m} : Arith(kind, bits, m, n) = x % (2^bits)
    BY <1>8 DEF Arith
  <2>. QED  BY <1>2, <2>1, <2>2
<1>. QED  BY <1>6, <1>7, <1>8 DEF ArithKinds

\* A step uses what is given and the steps before it.
StepOK(step, given, ids) ==
  /\ step = [id |-> step.id, kind |-> step.kind, ops |-> step.ops]
  /\ step.kind \in ArithKinds
  /\ step.ops \in Seq(given \cup ids)
  /\ Len(step.ops) = IF step.kind = "not" THEN 1 ELSE 2
  /\ step.id \notin given \cup ids

\* Each instruction inserted uses what is given and what was inserted before.
InsertedOK(c, i, given) ==
  /\ DOMAIN i = Range(c)
  /\ \A k \in DOMAIN c : /\ i[c[k]] \in Instructions(given \cup {c[j] : j \in 1..(k - 1)})
                         /\ i[c[k]].kind \in {"add", "sub"} => Len(i[c[k]].ops) = 2

\* What was built of the steps ids: for each a value, and instructions.
BuiltOK(done, given, ids) ==
  /\ done = [val |-> done.val, code |-> done.code, inst |-> done.inst]
  /\ done.code \in Seq(ids)
  /\ \A j, k \in DOMAIN done.code : done.code[j] = done.code[k] => j = k
  /\ DOMAIN done.val = ids
  /\ \A v \in ids : done.val[v] \in given \cup Range(done.code)
  /\ InsertedOK(done.code, done.inst, given)

\* Resolving the operands of a step leaves their number.
LEMMA ResolvedOperands ==
  ASSUME NEW done, NEW given, NEW ids, BuiltOK(done, given, ids),
         NEW ops \in Seq(given \cup ids)
  PROVE  /\ Resolved(done, ops) \in Seq(given \cup Range(done.code))
         /\ Len(Resolved(done, ops)) = Len(ops)
<1> DEFINE r == [k \in 1..Len(ops) |-> IF ops[k] \in DOMAIN done.val THEN done.val[ops[k]]
                                       ELSE ops[k]]
<1>1. r = Resolved(done, ops) /\ Len(ops) \in Nat
  BY DEF Resolved
<1>2. \A k \in 1..Len(ops) : r[k] \in given \cup Range(done.code)
  BY DEF BuiltOK
<1>3. r \in [1..Len(ops) -> given \cup Range(done.code)]
  BY <1>2
<1> HIDE DEF r
<1>. QED  BY <1>1, <1>3

\* What a step makes of what was built before it.
LEMMA BuildCases ==
  ASSUME NEW n, NEW done, NEW step,
         NEW ops, ops = Resolved(done, step.ops)
  PROVE  \/ /\ Range(ops) \subseteq Consts
            /\ Build(n, done, step) = [done EXCEPT !.val = With(@, step.id,
                 Const(Arith(step.kind, inst[n].bits, ops[1][2], ops[Len(ops)][2])))]
         \/ /\ step.kind = "and"
            /\ Build(n, done, step) = [done EXCEPT !.val = With(@, step.id, ops[1])]
         \/ Build(n, done, step)
              = [val |-> With(done.val, step.id, step.id), code |-> Append(done.code, step.id),
                 inst |-> With(done.inst, step.id, Made(n, [step EXCEPT !.ops = ops]))]
  BY Zenon DEF Build

\* A value more, and nothing inserted.
LEMMA ValueKeeps ==
  ASSUME NEW done, NEW given, NEW ids, BuiltOK(done, given, ids),
         NEW id, NEW v \in given \cup Range(done.code)
  PROVE  BuiltOK([done EXCEPT !.val = With(@, id, v)], given, ids \cup {id})
<1>1. PICK d : d = [done EXCEPT !.val = With(@, id, v)]
  OBVIOUS
<1>2. /\ d = [val |-> d.val, code |-> d.code, inst |-> d.inst]
      /\ d.val = With(done.val, id, v) /\ d.code = done.code /\ d.inst = done.inst
  BY <1>1 DEF BuiltOK
<1>3. DOMAIN d.val = ids \cup {id} /\ \A w \in ids \cup {id} : d.val[w] \in given \cup Range(d.code)
  BY <1>2 DEF BuiltOK, With
<1>4. d.code \in Seq(ids \cup {id})
  BY <1>2, SeqMonotonic DEF BuiltOK
<1>5. BuiltOK(d, given, ids \cup {id})
  BY <1>2, <1>3, <1>4, Zenon DEF BuiltOK
<1>. QED  BY <1>1, <1>5

\* An instruction more, at the end.
LEMMA AppendKeeps ==
  ASSUME NEW n, inst[n].bits \in Widths, Flags(n) \in BOOLEAN,
         NEW done, NEW given, NEW ids, BuiltOK(done, given, ids),
         NEW step, step.id \notin ids, NEW ops \in Seq(given \cup Range(done.code)),
         step = [id |-> step.id, kind |-> step.kind, ops |-> step.ops],
         step.kind \in ArithKinds, step.kind # "not" => Len(ops) = 2
  PROVE  BuiltOK([val |-> With(done.val, step.id, step.id), code |-> Append(done.code, step.id),
                  inst |-> With(done.inst, step.id, Made(n, [step EXCEPT !.ops = ops]))],
                 given, ids \cup {step.id})
<1>1. PICK id : id = step.id
  OBVIOUS
<1>2. PICK c : c = Append(done.code, id)
  OBVIOUS
<1>3. PICK L : L = Len(done.code)
  OBVIOUS
<1>4. done.code \in Seq(ids) /\ L \in Nat /\ DOMAIN done.code = 1..L
  BY <1>3 DEF BuiltOK
<1>5. /\ c \in Seq(ids \cup {id}) /\ DOMAIN c = 1..(L + 1)
      /\ \A k \in 1..L : c[k] = done.code[k] /\ c[k] \in ids
      /\ c[L + 1] = id
  BY <1>2, <1>3, <1>4
<1>6. Range(c) = Range(done.code) \cup {id}
  BY <1>4, <1>5 DEF Range
<1>7. \A j, k \in DOMAIN c : c[j] = c[k] => j = k
  BY <1>1, <1>4, <1>5 DEF BuiltOK
<1>8. PICK val : val = With(done.val, id, id)
  OBVIOUS
<1>9. DOMAIN val = ids \cup {id} /\ \A v \in ids \cup {id} : val[v] \in given \cup Range(c)
  BY <1>6, <1>8 DEF BuiltOK, With
<1>10. PICK i : i = With(done.inst, id, Made(n, [step EXCEPT !.ops = ops]))
  OBVIOUS
<1>11. DOMAIN i = Range(c)
  BY <1>6, <1>10 DEF BuiltOK, InsertedOK, With
<1>12. ASSUME NEW k \in DOMAIN c
       PROVE  /\ i[c[k]] \in Instructions(given \cup {c[j] : j \in 1..(k - 1)})
              /\ i[c[k]].kind \in {"add", "sub"} => Len(i[c[k]].ops) = 2
  <2>1. CASE k \in 1..L
    <3>1. c[k] = done.code[k] /\ c[k] # id /\ c[k] \in DOMAIN done.inst
      BY <1>1, <1>4, <1>5, <2>1 DEF BuiltOK, InsertedOK, Range
    <3>2. i[c[k]] = done.inst[done.code[k]]
      BY <1>10, <3>1 DEF With
    <3>3. {c[j] : j \in 1..(k - 1)} = {done.code[j] : j \in 1..(k - 1)}
      <4>1. \A j \in 1..(k - 1) : c[j] = done.code[j]
        BY <1>4, <1>5, <2>1
      <4>. QED  BY <4>1
    <3>. QED  BY <1>4, <2>1, <3>2, <3>3 DEF BuiltOK, InsertedOK
  <2>2. CASE k = L + 1
    <3>1. c[k] = id /\ i[c[k]] = Made(n, [step EXCEPT !.ops = ops])
      BY <1>5, <1>10, <2>2 DEF With
    <3>2. i[c[k]] = [kind |-> step.kind, bits |-> inst[n].bits, integer |-> TRUE, ops |-> ops,
                     nsw |-> step.kind = "add" /\ Flags(n)]
      BY <3>1 DEF Made
    <3>3. Range(done.code) = {c[j] : j \in 1..(k - 1)}
      <4>1. k - 1 = L /\ \A j \in 1..L : c[j] = done.code[j]
        BY <1>4, <1>5, <2>2
      <4>. QED  BY <1>4, <4>1 DEF Range
    <3>4. step.kind \in Opcodes /\ (step.kind \in {"add", "sub"} => Len(ops) = 2)
      BY OpcodesAssumption
    <3>. QED  BY <3>2, <3>3, <3>4 DEF Instructions
  <2>. QED  BY <1>4, <1>5, <2>1, <2>2
<1>13. PICK d : d = [val |-> val, code |-> c, inst |-> i]
  OBVIOUS
<1>14. d = [val |-> d.val, code |-> d.code, inst |-> d.inst] /\ d.val = val /\ d.code = c /\ d.inst = i
  BY <1>13
<1>15. InsertedOK(c, i, given)
  BY <1>11, <1>12 DEF InsertedOK
<1>16. BuiltOK(d, given, ids \cup {id})
  BY <1>5, <1>7, <1>9, <1>14, <1>15, Zenon DEF BuiltOK
<1>. QED  BY <1>1, <1>2, <1>8, <1>10, <1>13, <1>16

LEMMA BuildKeeps ==
  ASSUME NEW n, inst[n].bits \in Widths, NEW done, NEW given, NEW ids,
         Consts \subseteq given, BuiltOK(done, given, ids),
         NEW step, StepOK(step, given, ids)
  PROVE  BuiltOK(Build(n, done, step), given, ids \cup {step.id})
<1>1. PICK ops : ops = Resolved(done, step.ops)
  OBVIOUS
<1>2. /\ ops \in Seq(given \cup Range(done.code))
      /\ Len(ops) = IF step.kind = "not" THEN 1 ELSE 2
  <2>1. step.ops \in Seq(given \cup ids) /\ Len(step.ops) = IF step.kind = "not" THEN 1 ELSE 2
    BY DEF StepOK
  <2>2. PICK o \in Seq(given \cup ids) : o = step.ops
    BY <2>1
  <2>3. /\ Resolved(done, o) \in Seq(given \cup Range(done.code))
        /\ Len(Resolved(done, o)) = Len(o)
    BY ResolvedOperands
  <2>. QED  BY <1>1, <2>1, <2>2, <2>3
<1>3. 1 \in DOMAIN ops /\ Len(ops) \in DOMAIN ops
  BY <1>2
<1>4. CASE /\ Range(ops) \subseteq Consts
           /\ Build(n, done, step) = [done EXCEPT !.val = With(@, step.id,
                Const(Arith(step.kind, inst[n].bits, ops[1][2], ops[Len(ops)][2])))]
  <2>1. ops[1] \in Consts /\ ops[Len(ops)] \in Consts
    BY <1>3, <1>4 DEF Range
  <2>2. ops[1][2] \in Nat /\ ops[Len(ops)][2] \in Nat
    BY <2>1 DEF Consts
  <2>3. Arith(step.kind, inst[n].bits, ops[1][2], ops[Len(ops)][2]) \in Nat
    BY <2>2, ArithType DEF StepOK
  <2>4. Const(Arith(step.kind, inst[n].bits, ops[1][2], ops[Len(ops)][2])) \in given
    BY <2>3 DEF Const, Consts
  <2>5. BuiltOK([done EXCEPT !.val = With(@, step.id,
                   Const(Arith(step.kind, inst[n].bits, ops[1][2], ops[Len(ops)][2])))],
                given, ids \cup {step.id})
    BY <2>4, ValueKeeps, Zenon
  <2>. QED  BY <1>4, <2>5, Zenon
<1>5. CASE Build(n, done, step) = [done EXCEPT !.val = With(@, step.id, ops[1])]
  <2>1. ops[1] \in given \cup Range(done.code)
    BY <1>2, <1>3
  <2>2. BuiltOK([done EXCEPT !.val = With(@, step.id, ops[1])], given, ids \cup {step.id})
    BY <2>1, ValueKeeps, Zenon
  <2>. QED  BY <1>5, <2>2, Zenon
<1>6. CASE Build(n, done, step)
              = [val |-> With(done.val, step.id, step.id), code |-> Append(done.code, step.id),
                 inst |-> With(done.inst, step.id, Made(n, [step EXCEPT !.ops = ops]))]
  <2>1. /\ step = [id |-> step.id, kind |-> step.kind, ops |-> step.ops]
        /\ step.kind \in ArithKinds /\ step.id \notin ids /\ Flags(n) \in BOOLEAN
        /\ step.kind # "not" => Len(ops) = 2
    BY <1>2 DEF StepOK, Flags
  <2>2. BuiltOK([val |-> With(done.val, step.id, step.id), code |-> Append(done.code, step.id),
                 inst |-> With(done.inst, step.id, Made(n, [step EXCEPT !.ops = ops]))],
                given, ids \cup {step.id})
    BY <1>2, <2>1, AppendKeeps, Zenon
  <2>. QED  BY <1>6, <2>2, Zenon
<1>. QED  BY <1>1, <1>4, <1>5, <1>6, BuildCases, Zenon

\* What Before builds, step by step.
LEMMA BeforeBuilds ==
  ASSUME NEW n, NEW steps, Len(steps) \in Nat \ {0}
  PROVE  \E h : /\ h[0] = Nothing
                /\ \A k \in 1..(Len(steps) - 1) : h[k] = Build(n, h[k - 1], steps[k])
                /\ Before(n, steps) = h[Len(steps) - 1]
<1>1. PICK N \in Nat : N = Len(steps) - 1
  OBVIOUS
<1> DEFINE F(f) == [k \in 0..N |-> IF k = 0 THEN Nothing ELSE Build(n, f[k - 1], steps[k])]
           h == CHOOSE f : f = F(f)
           Good(f, m) == f[0] = Nothing /\ \A k \in 1..m : f[k] = Build(n, f[k - 1], steps[k])
\* By induction: the steps up to each number can be made.
<1>2. \A m \in 1..N : \E f : Good(f, m)
  <2>1. SUFFICES ASSUME {m \in 1..N : ~\E f : Good(f, m)} # {} PROVE FALSE
    OBVIOUS
  <2>2. PICK m \in 1..N : (~\E f : Good(f, m)) /\ \A j \in 1..N : j < m => \E f : Good(f, j)
    <3> DEFINE S == {j \in 1..N : ~\E f : Good(f, j)}
    <3>1. S \in SUBSET (1..N) /\ S # {}
      BY <2>1
    <3>2. PICK m \in S : \A j \in S : m <= j
      BY <3>1, LeastNumber
    <3>. QED  BY <3>2
  <2>3. \E f : Good(f, m - 1)
    <3>1. CASE m = 1
      <4>1. Good([k \in {0} |-> Nothing], m - 1)
        BY <3>1
      <4>. QED  BY <4>1
    <3>2. CASE m # 1
      <4>1. m - 1 \in 1..N /\ m - 1 < m
        BY <3>2
      <4> HIDE DEF Good
      <4>. QED  BY <2>2, <4>1
    <3>. QED  BY <3>1, <3>2
  <2>4. PICK f : Good(f, m - 1)
    BY <2>3
  <2>5. PICK g : g = [k \in 0..N |-> IF k = m THEN Build(n, f[m - 1], steps[m]) ELSE f[k]]
    OBVIOUS
  <2>6. /\ g[m] = Build(n, f[m - 1], steps[m])
        /\ \A k \in 0..(m - 1) : g[k] = f[k]
    BY <2>5
  <2>7. Good(g, m)
    <3>1. g[0] = Nothing
      BY <2>4, <2>6
    <3>2. ASSUME NEW k \in 1..m PROVE g[k] = Build(n, g[k - 1], steps[k])
      <4>1. g[k - 1] = f[k - 1]
        BY <2>6
      <4>2. CASE k = m
        BY <2>6, <4>1, <4>2
      <4>3. CASE k # m
        BY <2>4, <2>6, <4>1, <4>3
      <4>. QED  BY <4>2, <4>3
    <3>. QED  BY <3>1, <3>2
  <2>. QED  BY <2>2, <2>7
<1>3. \E f : f = F(f)
  <2>1. \E f : Good(f, N)
    <3>1. CASE N = 0
      <4>1. Good([k \in {0} |-> Nothing], N)
        BY <3>1
      <4>. QED  BY <4>1
    <3>2. CASE N # 0
      <4>1. N \in 1..N
        BY <3>2
      <4> HIDE DEF Good
      <4>. QED  BY <1>2, <4>1
    <3>. QED  BY <3>1, <3>2
  <2>2. PICK f : Good(f, N)
    BY <2>1
  <2>3. PICK g : g = [k \in 0..N |-> f[k]]
    OBVIOUS
  <2>4. \A k \in 0..N : g[k] = IF k = 0 THEN Nothing ELSE Build(n, g[k - 1], steps[k])
    BY <2>2, <2>3
  <2>5. g = F(g)
    BY <2>3, <2>4
  <2>. QED  BY <2>5
<1>4. h = F(h)
  BY <1>3
<1>5. Before(n, steps) = h[N]
  BY <1>1, Zenon DEF Before
<1>6. h[0] = Nothing /\ \A k \in 1..N : h[k] = Build(n, h[k - 1], steps[k])
  <2> HIDE DEF h
  <2>. QED  BY <1>4
<1>. QED  BY <1>1, <1>5, <1>6

\* Steps that each use what is given and what comes before.
StepIds(steps, k) == {steps[j].id : j \in 1..k}

StepsOK(steps, given) ==
  /\ Len(steps) \in Nat \ {0}
  /\ \A k \in 1..Len(steps) : StepOK(steps[k], given, StepIds(steps, k - 1))

LEMMA BeforeKeeps ==
  ASSUME NEW n, inst[n].bits \in Widths, NEW given, Consts \subseteq given,
         NEW steps, StepsOK(steps, given)
  PROVE  BuiltOK(Before(n, steps), given, StepIds(steps, Len(steps) - 1))
<1>1. PICK N \in Nat : N = Len(steps) - 1
  BY DEF StepsOK
<1>2. PICK h : /\ h[0] = Nothing
               /\ \A k \in 1..N : h[k] = Build(n, h[k - 1], steps[k])
               /\ Before(n, steps) = h[N]
  BY <1>1, BeforeBuilds DEF StepsOK
<1>3. BuiltOK(h[0], given, StepIds(steps, 0))
  <2>1. PICK none : none = Nothing
    OBVIOUS
  <2>2. /\ none = [val |-> none.val, code |-> none.code, inst |-> none.inst]
        /\ none.code = <<>> /\ DOMAIN none.val = {} /\ DOMAIN none.inst = {}
    BY <2>1 DEF Nothing, NoMap
  <2>3. BuiltOK(none, given, {})
    BY <2>2 DEF BuiltOK, InsertedOK, Range
  <2>4. StepIds(steps, 0) = {}
    BY DEF StepIds
  <2>. QED  BY <1>2, <2>1, <2>3, <2>4
<1>4. ASSUME NEW k \in 1..N, BuiltOK(h[k - 1], given, StepIds(steps, k - 1))
      PROVE  BuiltOK(h[k], given, StepIds(steps, k))
  <2>1. PICK step : step = steps[k]
    OBVIOUS
  <2>2. StepOK(step, given, StepIds(steps, k - 1))
    BY <1>1, <2>1 DEF StepsOK
  <2>3. StepIds(steps, k) = StepIds(steps, k - 1) \cup {step.id}
    <3>1. 1..k = (1..(k - 1)) \cup {k}
      OBVIOUS
    <3>. QED  BY <2>1, <3>1 DEF StepIds
  <2>4. BuiltOK(Build(n, h[k - 1], step), given, StepIds(steps, k - 1) \cup {step.id})
    BY <1>4, <2>2, BuildKeeps
  <2>. QED  BY <1>2, <2>1, <2>3, <2>4
\* By induction again.
<1>5. \A k \in 1..N : BuiltOK(h[k], given, StepIds(steps, k))
  <2> DEFINE S == {k \in 1..N : ~BuiltOK(h[k], given, StepIds(steps, k))}
  <2>1. SUFFICES ASSUME S # {} PROVE FALSE
    OBVIOUS
  <2>2. PICK k \in S : \A j \in S : k <= j
    BY <2>1, LeastNumber
  <2>3. BuiltOK(h[k - 1], given, StepIds(steps, k - 1))
    <3>1. CASE k = 1
      BY <1>3, <3>1
    <3>2. CASE k # 1
      BY <2>2, <3>2
    <3>. QED  BY <3>1, <3>2
  <2>. QED  BY <1>4, <2>3
<1>. QED  BY <1>1, <1>2, <1>3, <1>5
-----------------------------------------------------------------------------
(***************************************************************************)
(* The invariant.                                                          *)
(***************************************************************************)
\* What a function has names for is no constant, and none of the names that the
\* model makes up.
Opaque ==
  \A p \in Programs : \A v \in p.params \cup DOMAIN p.code \cup DOMAIN p.inst :
    v \notin Consts /\ \A n, role, k : v # <<n, role, k>>

Roles == {"e0", "and", "e1", "e2", "e3", "e4", "e5", "not", "sum", "E"}

\* What operands may be, besides constants.
Values == prog.params \cup DOMAIN code \cup DOMAIN inst

\* The names made up so far are those of this pass and of those before it.
NamesOlder ==
  \A v \in Values :
    /\ v \notin Consts
    /\ \A n, role, k :
         v = <<n, role, k>> => /\ k \in Nat /\ k >= Len(passes)
                               /\ pc = "run" => k > Len(passes)

\* The function as the pass found it has none of this pass's, and only what was
\* made out of an instruction that is there no more has been added to it.
NamesFresh ==
  pc # "run" =>
    /\ \A v \in prog.params \cup DOMAIN code \cup DOMAIN input.inst :
         \A n, role : v # Id(n, role)
    /\ \A v \in DOMAIN inst \ DOMAIN input.inst :
         \E n \in DOMAIN input.inst \ DOMAIN inst, role \in Roles : v = Id(n, role)

\* An instruction that stays is replaced or not whatever its operands became.
KindsKept ==
  pc # "run" =>
    \A n \in DOMAIN inst \cap DOMAIN input.inst :
      /\ inst[n].kind = input.inst[n].kind /\ inst[n].bits = input.inst[n].bits
      /\ inst[n].integer = input.inst[n].integer

\* The place in block b as it was that the walk has come to.
Cut(b) == at + Len(input.code[b]) - Len(code[b])

\* The walk has come to place i of a block that was old and is new: what was at
\* the places gone has been replaced, one by one, and what was at i and behind is
\* still there.
Rewritten(old, new, gone, i) ==
  /\ i \in 1..(Len(old) + 1)
  /\ \A k \in i..Len(old) : /\ k + Len(new) - Len(old) \in DOMAIN new
                             /\ new[k + Len(new) - Len(old)] = old[k]
  /\ \A k \in DOMAIN old \ gone : \E q \in DOMAIN new : new[q] = old[k]
  /\ \A q \in DOMAIN new :
       \/ \E k \in DOMAIN old \ gone : new[q] = old[k]
       \/ \E k \in gone, role \in Roles : new[q] = Id(old[k], role)
  /\ \A k \in gone : \E q \in DOMAIN new : new[q] = Id(old[k], "E")
  /\ \A k, l \in DOMAIN old : \A q, r \in DOMAIN new :
       new[q] = old[k] /\ new[r] = old[l] /\ k < l => q < r

Gone(b, i) == {k \in Selected(b) : k < i}

Walked(b, i) == Rewritten(input.code[b], code[b], Gone(b, i), i)

Progress ==
  pc # "run" =>
    /\ \A b \in DOMAIN code :
         IF b \notin Range(rest) THEN Walked(b, Len(input.code[b]) + 1)
         ELSE IF pc = "insts" /\ b = BB THEN Walked(b, Cut(b))
         ELSE code[b] = input.code[b]
    /\ pc = "insts" /\ Head(passes) = "add" =>
         drawn = Cardinality({k \in Found(BB) : k < Cut(BB)})

IInv ==
  /\ TypeOK /\ prog \in Programs
  /\ DOMAIN input.code = DOMAIN code /\ Valid(prog.params, input.code, input.inst)
  /\ (pc # "run" => passes # <<>>)
  /\ NamesOlder /\ NamesFresh /\ KindsKept /\ Progress
-----------------------------------------------------------------------------
(***************************************************************************)
(* One substitution.                                                       *)
(***************************************************************************)
\* The steps of a pass are named after what they replace, the last one "E".
StepsFor(n, steps) ==
  /\ \A k \in 1..Len(steps) : \E role \in Roles : steps[k].id = Id(n, role)
  /\ Last(steps).id = Id(n, "E")

LEMMA IdsDiffer ==
  ASSUME NEW n, NEW m, NEW role, NEW other, Id(n, role) = Id(m, other)
  PROVE  n = m /\ role = other
  BY DEF Id

LEMMA AddStepsOK ==
  ASSUME NEW n, NEW a, NEW b, NEW given, given = {a, b} \cup Consts,
         \A v \in given : \A role : v # Id(n, role)
  PROVE  StepsOK(AddSteps(n, a, b), given) /\ StepsFor(n, AddSteps(n, a, b))
<1>1. PICK steps : steps = AddSteps(n, a, b)
  OBVIOUS
<1>2. PICK id : id = [role \in Roles |-> Id(n, role)]
  OBVIOUS
<1>3. \A role \in Roles : id[role] = Id(n, role)
  BY <1>2
<1>4. /\ \A role, other \in Roles : id[role] = id[other] => role = other
      /\ \A role \in Roles : id[role] \notin given
  BY <1>3, IdsDiffer
<1>5. /\ Len(steps) = 8
      /\ steps[1] = Step(id["e0"], "xor", a, b)
      /\ steps[2] = Step(id["and"], "and", a, b)
      /\ steps[3] = Step(id["e1"], "mul", Const(2), id["and"])
      /\ steps[4] = Step(id["e2"], "add", id["e0"], id["e1"])
      /\ steps[5] = Step(id["e3"], "mul", Const(39), id["e2"])
      /\ steps[6] = Step(id["e4"], "add", Const(23), id["e3"])
      /\ steps[7] = Step(id["e5"], "mul", Const(151), id["e4"])
      /\ steps[8] = Step(id["E"], "add", Const(111), id["e5"])
  BY <1>1, <1>3 DEF AddSteps, Roles
<1>6. \A c \in Nat : Const(c) \in given
  BY DEF Const, Consts
<1>7. ASSUME NEW v, NEW kind \in ArithKinds \ {"not"}, NEW left, NEW right, NEW ids,
             left \in given \cup ids, right \in given \cup ids, v \notin given \cup ids
      PROVE  StepOK(Step(v, kind, left, right), given, ids)
  BY <1>7 DEF StepOK, Step
<1>8. /\ steps[1].id = id["e0"] /\ steps[2].id = id["and"] /\ steps[3].id = id["e1"]
      /\ steps[4].id = id["e2"] /\ steps[5].id = id["e3"] /\ steps[6].id = id["e4"]
      /\ steps[7].id = id["e5"] /\ steps[8].id = id["E"]
  BY <1>5 DEF Step
<1>9. \A k \in 1..8 : StepOK(steps[k], given, StepIds(steps, k - 1))
  <2>0. /\ StepIds(steps, 0) = {}
        /\ StepIds(steps, 1) = {id["e0"]}
        /\ StepIds(steps, 2) = {id["e0"], id["and"]}
        /\ StepIds(steps, 3) = {id["e0"], id["and"], id["e1"]}
        /\ StepIds(steps, 4) = {id["e0"], id["and"], id["e1"], id["e2"]}
        /\ StepIds(steps, 5) = {id["e0"], id["and"], id["e1"], id["e2"], id["e3"]}
        /\ StepIds(steps, 6) = {id["e0"], id["and"], id["e1"], id["e2"], id["e3"], id["e4"]}
        /\ StepIds(steps, 7) = {id["e0"], id["and"], id["e1"], id["e2"], id["e3"], id["e4"],
                                 id["e5"]}
    <3>1. /\ 1..0 = {} /\ 1..1 = {1} /\ 1..2 = {1, 2} /\ 1..3 = {1, 2, 3}
          /\ 1..4 = {1, 2, 3, 4} /\ 1..5 = {1, 2, 3, 4, 5} /\ 1..6 = {1, 2, 3, 4, 5, 6}
          /\ 1..7 = {1, 2, 3, 4, 5, 6, 7}
      OBVIOUS
    <3>. QED  BY <1>8, <3>1 DEF StepIds
  <2>10. /\ id["e0"] \notin given /\ id["and"] \notin given /\ id["e1"] \notin given
         /\ id["e2"] \notin given /\ id["e3"] \notin given /\ id["e4"] \notin given
         /\ id["e5"] \notin given /\ id["E"] \notin given
    BY <1>4 DEF Roles
  <2>11. /\ id["and"] \notin {id["e0"]}
         /\ id["e1"] \notin {id["e0"], id["and"]}
         /\ id["e2"] \notin {id["e0"], id["and"], id["e1"]}
         /\ id["e3"] \notin {id["e0"], id["and"], id["e1"], id["e2"]}
         /\ id["e4"] \notin {id["e0"], id["and"], id["e1"], id["e2"], id["e3"]}
         /\ id["e5"] \notin {id["e0"], id["and"], id["e1"], id["e2"], id["e3"], id["e4"]}
         /\ id["E"] \notin {id["e0"], id["and"], id["e1"], id["e2"], id["e3"], id["e4"],
                             id["e5"]}
    BY <1>4 DEF Roles
  <2>12. /\ "xor" \in ArithKinds \ {"not"} /\ "and" \in ArithKinds \ {"not"}
         /\ "mul" \in ArithKinds \ {"not"} /\ "add" \in ArithKinds \ {"not"}
         /\ a \in given /\ b \in given
    BY DEF ArithKinds
  <2>13. /\ Const(2) \in given /\ Const(39) \in given /\ Const(23) \in given
         /\ Const(151) \in given /\ Const(111) \in given
    BY <1>6
  <2>1. StepOK(steps[1], given, StepIds(steps, 0))
    <3>1. /\ id["e0"] \notin given \cup StepIds(steps, 0)
          /\ a \in given \cup StepIds(steps, 0)
          /\ b \in given \cup StepIds(steps, 0)
      BY <2>0, <2>10, <2>12
    <3>2. StepOK(Step(id["e0"], "xor", a, b), given, StepIds(steps, 0))
      BY <1>7, <2>12, <3>1, Zenon
    <3>. QED  BY <1>5, <3>2
  <2>2. StepOK(steps[2], given, StepIds(steps, 1))
    <3>1. /\ id["and"] \notin given \cup StepIds(steps, 1)
          /\ a \in given \cup StepIds(steps, 1)
          /\ b \in given \cup StepIds(steps, 1)
      BY <2>0, <2>10, <2>11, <2>12
    <3>2. StepOK(Step(id["and"], "and", a, b), given, StepIds(steps, 1))
      BY <1>7, <2>12, <3>1, Zenon
    <3>. QED  BY <1>5, <3>2
  <2>3. StepOK(steps[3], given, StepIds(steps, 2))
    <3>1. /\ id["e1"] \notin given \cup StepIds(steps, 2)
          /\ Const(2) \in given \cup StepIds(steps, 2)
          /\ id["and"] \in given \cup StepIds(steps, 2)
      BY <2>0, <2>10, <2>11, <2>13
    <3>2. StepOK(Step(id["e1"], "mul", Const(2), id["and"]), given, StepIds(steps, 2))
      BY <1>7, <2>12, <3>1, Zenon
    <3>. QED  BY <1>5, <3>2
  <2>4. StepOK(steps[4], given, StepIds(steps, 3))
    <3>1. /\ id["e2"] \notin given \cup StepIds(steps, 3)
          /\ id["e0"] \in given \cup StepIds(steps, 3)
          /\ id["e1"] \in given \cup StepIds(steps, 3)
      BY <2>0, <2>10, <2>11
    <3>2. StepOK(Step(id["e2"], "add", id["e0"], id["e1"]), given, StepIds(steps, 3))
      BY <1>7, <2>12, <3>1, Zenon
    <3>. QED  BY <1>5, <3>2
  <2>5. StepOK(steps[5], given, StepIds(steps, 4))
    <3>1. /\ id["e3"] \notin given \cup StepIds(steps, 4)
          /\ Const(39) \in given \cup StepIds(steps, 4)
          /\ id["e2"] \in given \cup StepIds(steps, 4)
      BY <2>0, <2>10, <2>11, <2>13
    <3>2. StepOK(Step(id["e3"], "mul", Const(39), id["e2"]), given, StepIds(steps, 4))
      BY <1>7, <2>12, <3>1, Zenon
    <3>. QED  BY <1>5, <3>2
  <2>6. StepOK(steps[6], given, StepIds(steps, 5))
    <3>1. /\ id["e4"] \notin given \cup StepIds(steps, 5)
          /\ Const(23) \in given \cup StepIds(steps, 5)
          /\ id["e3"] \in given \cup StepIds(steps, 5)
      BY <2>0, <2>10, <2>11, <2>13
    <3>2. StepOK(Step(id["e4"], "add", Const(23), id["e3"]), given, StepIds(steps, 5))
      BY <1>7, <2>12, <3>1, Zenon
    <3>. QED  BY <1>5, <3>2
  <2>7. StepOK(steps[7], given, StepIds(steps, 6))
    <3>1. /\ id["e5"] \notin given \cup StepIds(steps, 6)
          /\ Const(151) \in given \cup StepIds(steps, 6)
          /\ id["e4"] \in given \cup StepIds(steps, 6)
      BY <2>0, <2>10, <2>11, <2>13
    <3>2. StepOK(Step(id["e5"], "mul", Const(151), id["e4"]), given, StepIds(steps, 6))
      BY <1>7, <2>12, <3>1, Zenon
    <3>. QED  BY <1>5, <3>2
  <2>8. StepOK(steps[8], given, StepIds(steps, 7))
    <3>1. /\ id["E"] \notin given \cup StepIds(steps, 7)
          /\ Const(111) \in given \cup StepIds(steps, 7)
          /\ id["e5"] \in given \cup StepIds(steps, 7)
      BY <2>0, <2>10, <2>11, <2>13
    <3>2. StepOK(Step(id["E"], "add", Const(111), id["e5"]), given, StepIds(steps, 7))
      BY <1>7, <2>12, <3>1, Zenon
    <3>. QED  BY <1>5, <3>2
  <2>9. \A k \in 1..8 :
          \/ k = 1 /\ k - 1 = 0
          \/ k = 2 /\ k - 1 = 1
          \/ k = 3 /\ k - 1 = 2
          \/ k = 4 /\ k - 1 = 3
          \/ k = 5 /\ k - 1 = 4
          \/ k = 6 /\ k - 1 = 5
          \/ k = 7 /\ k - 1 = 6
          \/ k = 8 /\ k - 1 = 7
    OBVIOUS
  <2>. QED  BY <2>1, <2>2, <2>3, <2>4, <2>5, <2>6, <2>7, <2>8, <2>9, Zenon
<1>10. StepsOK(steps, given)
  BY <1>5, <1>9 DEF StepsOK
<1>11. StepsFor(n, steps)
  <2>1. \A k \in 1..8 : \E role \in Roles : steps[k].id = id[role]
    BY <1>8 DEF Roles
  <2>. QED  BY <1>3, <1>5, <1>8, <2>1 DEF StepsFor, Last, Roles
<1>. QED  BY <1>1, <1>10, <1>11

LEMMA SubStepsOK ==
  ASSUME NEW n, NEW a, NEW b, NEW given, given = {a, b} \cup Consts,
         \A v \in given : \A role : v # Id(n, role)
  PROVE  StepsOK(SubSteps(n, a, b), given) /\ StepsFor(n, SubSteps(n, a, b))
<1>1. PICK steps : steps = SubSteps(n, a, b)
  OBVIOUS
<1>2. PICK id : id = [role \in Roles |-> Id(n, role)]
  OBVIOUS
<1>3. \A role \in Roles : id[role] = Id(n, role)
  BY <1>2
<1>4. /\ \A role, other \in Roles : id[role] = id[other] => role = other
      /\ \A role \in Roles : id[role] \notin given
  BY <1>3, IdsDiffer
<1>5. /\ Len(steps) = 3
      /\ steps[1] = [id |-> id["not"], kind |-> "not", ops |-> <<b>>]
      /\ steps[2] = Step(id["sum"], "add", a, id["not"])
      /\ steps[3] = Step(id["E"], "add", id["sum"], Const(1))
  BY <1>1, <1>3 DEF SubSteps, Roles
<1>6. Const(1) \in given
  BY DEF Const, Consts
<1>7. ASSUME NEW v, NEW kind \in ArithKinds \ {"not"}, NEW left, NEW right, NEW ids,
             left \in given \cup ids, right \in given \cup ids, v \notin given \cup ids,
             NEW step, step = Step(v, kind, left, right)
      PROVE  StepOK(step, given, ids)
  BY <1>7 DEF StepOK, Step
<1>8. steps[1].id = id["not"] /\ steps[2].id = id["sum"] /\ steps[3].id = id["E"]
  BY <1>5 DEF Step
<1>9. \A k \in 1..3 : StepOK(steps[k], given, StepIds(steps, k - 1))
  <2>0. /\ StepIds(steps, 0) = {}
        /\ StepIds(steps, 1) = {id["not"]}
        /\ StepIds(steps, 2) = {id["not"], id["sum"]}
    <3>1. 1..0 = {} /\ 1..1 = {1} /\ 1..2 = {1, 2}
      OBVIOUS
    <3>. QED  BY <1>8, <3>1 DEF StepIds
  <2>1. StepOK(steps[1], given, {})
    BY <1>4, <1>5 DEF Roles, ArithKinds, StepOK
  <2>2. StepOK(steps[2], given, {id["not"]})
    BY <1>4, <1>5, <1>7 DEF Roles, ArithKinds
  <2>3. StepOK(steps[3], given, {id["not"], id["sum"]})
    BY <1>4, <1>5, <1>6, <1>7 DEF Roles, ArithKinds
  <2>. QED  BY <2>0, <2>1, <2>2, <2>3
<1>10. StepsOK(steps, given)
  BY <1>5, <1>9 DEF StepsOK
<1>11. StepsFor(n, steps)
  <2>1. \A k \in 1..3 : \E role \in Roles : steps[k].id = id[role]
    BY <1>8 DEF Roles
  <2>. QED  BY <1>3, <1>5, <1>8, <2>1 DEF StepsFor, Last, Roles
<1>. QED  BY <1>1, <1>10, <1>11

Renamed(i, n, new) ==
  [i EXCEPT !.ops = [k \in DOMAIN @ |-> IF @[k] = n THEN new ELSE @[k]]]

\* n gives way to the instructions made, which use given and each other, and
\* the users of n use the last of them.
Replaced(n, given, made) ==
  /\ made \in Seq({Id(n, role) : role \in Roles})
  /\ \A j, k \in DOMAIN made : made[j] = made[k] => j = k
  /\ made # <<>> /\ made[Len(made)] = Id(n, "E")
  /\ at' = at + Len(made) /\ Changed' = TRUE
  /\ code' = [b \in DOMAIN code |-> code'[b]] /\ inst' = [m \in DOMAIN inst' |-> inst'[m]]
  /\ DOMAIN code' = DOMAIN code /\ \A b \in DOMAIN code \ {BB} : code'[b] = code[b]
  /\ code'[BB] = SubSeq(code[BB], 1, at - 1) \o made \o SubSeq(code[BB], at + 1, Len(code[BB]))
  /\ DOMAIN inst' = (DOMAIN inst \ {n}) \cup Range(made)
  /\ \A m \in DOMAIN inst \ {n} : inst'[m] = Renamed(inst[m], n, Id(n, "E"))
  /\ \A k \in DOMAIN made :
       /\ inst'[made[k]] \in Instructions(given \cup {made[j] : j \in 1..(k - 1)})
       /\ inst'[made[k]].kind \in {"add", "sub"} => Len(inst'[made[k]].ops) = 2

LEMMA SubstituteReplaces ==
  ASSUME BB \in DOMAIN code, at \in Nat, NEW n, inst[n].bits \in Widths,
         \A role \in Roles : Id(n, role) \notin DOMAIN inst,
         NEW given, Consts \subseteq given,
         NEW steps, StepsOK(steps, given), StepsFor(n, steps), Substitute(n, steps)
  PROVE  \E made : Replaced(n, given, made)
<1>1. PICK built : built = Before(n, steps)
  OBVIOUS
<1>2. PICK ids : ids = StepIds(steps, Len(steps) - 1)
  OBVIOUS
<1>3. BuiltOK(built, given, ids)
  BY <1>1, <1>2, BeforeKeeps
<1>4. PICK last : last = Last(steps)
  OBVIOUS
<1>5. StepOK(last, given, ids) /\ last.id = Id(n, "E")
  <2>1. Len(steps) \in 1..Len(steps) /\ last = steps[Len(steps)]
    BY <1>4 DEF StepsOK, Last
  <2>. QED  BY <1>2, <1>4, <2>1 DEF StepsOK, StepsFor
<1>6. PICK ops : ops = Resolved(built, last.ops)
  OBVIOUS
<1>7. ops \in Seq(given \cup Range(built.code)) /\ (last.kind # "not" => Len(ops) = 2)
  <2>1. PICK o \in Seq(given \cup ids) : o = last.ops
    BY <1>5 DEF StepOK
  <2>2. /\ Resolved(built, o) \in Seq(given \cup Range(built.code))
        /\ Len(Resolved(built, o)) = Len(o)
    BY <1>3, ResolvedOperands
  <2>. QED  BY <1>5, <1>6, <2>1, <2>2 DEF StepOK
<1>8. PICK made : made = Append(built.code, last.id)
  OBVIOUS
<1>9. PICK new : new = With(built.inst, last.id, Made(n, [last EXCEPT !.ops = ops]))
  OBVIOUS
<1>10. PICK d : d = [val |-> With(built.val, last.id, last.id), code |-> made, inst |-> new]
  OBVIOUS
<1>11. BuiltOK(d, given, ids \cup {last.id})
  <2>1. /\ last = [id |-> last.id, kind |-> last.kind, ops |-> last.ops]
        /\ last.kind \in ArithKinds /\ last.id \notin ids /\ Flags(n) \in BOOLEAN
    BY <1>5 DEF StepOK, Flags
  <2>2. BuiltOK([val |-> With(built.val, last.id, last.id), code |-> Append(built.code, last.id),
                 inst |-> With(built.inst, last.id, Made(n, [last EXCEPT !.ops = ops]))],
                given, ids \cup {last.id})
    BY <1>3, <1>7, <2>1, AppendKeeps, Zenon
  <2>. QED  BY <1>8, <1>9, <1>10, <2>2
<1>12. d.code = made /\ d.inst = new
  BY <1>10
<1>13. ids \cup {last.id} \subseteq {Id(n, role) : role \in Roles}
  <2>1. \A k \in 1..(Len(steps) - 1) : k \in 1..Len(steps)
    BY DEF StepsOK
  <2>. QED  BY <1>2, <1>5, <2>1 DEF StepIds, StepsFor, Roles
<1>14. /\ made \in Seq({Id(n, role) : role \in Roles})
       /\ \A j, k \in DOMAIN made : made[j] = made[k] => j = k
       /\ InsertedOK(made, new, given)
  <2>1. made \in Seq(ids \cup {last.id})
    BY <1>11, <1>12 DEF BuiltOK
  <2>2. made \in Seq({Id(n, role) : role \in Roles})
    BY <1>13, <2>1, SeqMonotonic
  <2>. QED  BY <1>11, <1>12, <2>2 DEF BuiltOK
<1>15. /\ Len(built.code) \in Nat /\ Len(made) = Len(built.code) + 1
       /\ made[Len(made)] = Id(n, "E") /\ made # <<>>
  <2>1. built.code \in Seq(ids)
    BY <1>3 DEF BuiltOK
  <2>. QED  BY <1>5, <1>8, <2>1
<1>16. /\ code' = [code EXCEPT ![BB] = SubSeq(@, 1, at - 1) \o made \o SubSeq(@, at + 1, Len(@))]
       /\ inst' = [m \in DOMAIN new \cup DOMAIN ReplaceUses(n, last.id) |->
                     IF m \in DOMAIN new THEN new[m] ELSE ReplaceUses(n, last.id)[m]]
       /\ at' = at + Len(built.code) + 1 /\ Changed' = TRUE
  <2>1. new = With(built.inst, last.id, Made(n, [last EXCEPT !.ops = Resolved(built, @)]))
    BY <1>6, <1>9
  <2>. QED  BY <1>1, <1>4, <1>8, <2>1, Zenon DEF Substitute
<1>17. DOMAIN new = Range(made) /\ \A m \in Range(made) : m \notin DOMAIN inst
  BY <1>14 DEF InsertedOK, Range
<1>18. DOMAIN inst' = (DOMAIN inst \ {n}) \cup Range(made)
  BY <1>16, <1>17, Zenon DEF ReplaceUses
<1>19. ASSUME NEW m \in DOMAIN inst \ {n}
       PROVE  inst'[m] = Renamed(inst[m], n, Id(n, "E"))
  <2>1. m \notin DOMAIN new /\ inst'[m] = ReplaceUses(n, last.id)[m]
    BY <1>16, <1>17, Zenon DEF ReplaceUses
  <2>. QED  BY <1>5, <2>1, Zenon DEF ReplaceUses, Renamed
<1>20. ASSUME NEW k \in DOMAIN made
       PROVE  /\ inst'[made[k]] \in Instructions(given \cup {made[j] : j \in 1..(k - 1)})
              /\ inst'[made[k]].kind \in {"add", "sub"} => Len(inst'[made[k]].ops) = 2
  <2>1. made[k] \in DOMAIN new
    BY <1>17 DEF Range
  <2>2. inst'[made[k]] = new[made[k]]
    BY <1>16, <2>1, Zenon
  <2>. QED  BY <1>14, <2>2 DEF InsertedOK
<1>21. /\ DOMAIN code' = DOMAIN code /\ \A b \in DOMAIN code \ {BB} : code'[b] = code[b]
       /\ code'[BB] = SubSeq(code[BB], 1, at - 1) \o made
                        \o SubSeq(code[BB], at + 1, Len(code[BB]))
  BY <1>16, Zenon
<1>22. at' = at + Len(made)
  BY <1>15, <1>16
<1>23. /\ code' = [b \in DOMAIN code |-> code'[b]]
       /\ inst' = [m \in DOMAIN inst' |-> inst'[m]]
  <2>1. PICK c : c = SubSeq(code[BB], 1, at - 1) \o made \o SubSeq(code[BB], at + 1, Len(code[BB]))
    OBVIOUS
  <2>2. code' = [code EXCEPT ![BB] = c]
    BY <1>16, <2>1, Zenon
  <2>3. code' = [b \in DOMAIN code |-> code'[b]]
    BY <2>2
  <2>. QED  BY <1>16, <2>3
<1>. QED
  BY <1>23, <1>14, <1>15, <1>16, <1>18, <1>19, <1>20, <1>21, <1>22, Zenon DEF Replaced

\* Where a place of a sequence is once the one at i has given way to some.
Shift(p, i, some) == IF p < i THEN p ELSE p + some - 1

\* What is in r, if it is s but for t in the place of what is at i.
Spliced(s, i, t, r) ==
  /\ Len(r) = Len(s) + Len(t) - 1
  /\ \A p \in (1..Len(s)) \ {i} :
       Shift(p, i, Len(t)) \in 1..Len(r) /\ r[Shift(p, i, Len(t))] = s[p]
  /\ \A k \in 1..Len(t) : i + k - 1 \in 1..Len(r) /\ r[i + k - 1] = t[k]
  /\ \A q \in 1..Len(r) : \/ \E p \in (1..Len(s)) \ {i} : q = Shift(p, i, Len(t))
                          \/ \E k \in 1..Len(t) : q = i + k - 1

LEMMA SplicePlaces ==
  ASSUME NEW S, NEW s \in Seq(S), NEW i \in 1..Len(s), NEW t \in Seq(S)
  PROVE  LET r == SubSeq(s, 1, i - 1) \o t \o SubSeq(s, i + 1, Len(s))
         IN  r \in Seq(S) /\ Spliced(s, i, t, r)
<1>0. PICK r : r = SubSeq(s, 1, i - 1) \o t \o SubSeq(s, i + 1, Len(s))
  OBVIOUS
<1>1. PICK M \in Nat : M = Len(s)
  OBVIOUS
<1>2. PICK N \in Nat : N = Len(t)
  OBVIOUS
<1>3. PICK j \in Nat : j \in 1..M /\ j = i
  BY <1>1
<1>4. PICK A \in Nat : A = j - 1
  BY <1>3
<1>5. PICK B \in Nat : B = M - j
  BY <1>3
<1>6. DOMAIN s = 1..M /\ DOMAIN t = 1..N /\ \A k \in 1..M : s[k] \in S
  BY <1>1, <1>2
<1>7. PICK u : u = SubSeq(s, 1, A)
  OBVIOUS
<1>8. u \in Seq(S) /\ Len(u) = A /\ \A k \in 1..A : u[k] = s[k]
  <2>1. \A k \in 1..A : s[k] \in S
    BY <1>3, <1>4, <1>6
  <2>2. /\ u \in Seq(S) /\ Len(u) = IF 1 <= A THEN A - 1 + 1 ELSE 0
        /\ \A k \in 1..(A - 1 + 1) : u[k] = s[1 + k - 1]
    BY <1>7, <2>1, SubSeqProperties
  <2>. QED  BY <2>2
<1>9. PICK v : v = SubSeq(s, j + 1, M)
  OBVIOUS
<1>10. v \in Seq(S) /\ Len(v) = B /\ \A k \in 1..B : v[k] = s[j + k]
  <2>1. \A k \in (j + 1)..M : s[k] \in S
    BY <1>3, <1>6
  <2>2. /\ v \in Seq(S) /\ Len(v) = IF j + 1 <= M THEN M - (j + 1) + 1 ELSE 0
        /\ \A k \in 1..(M - (j + 1) + 1) : v[k] = s[(j + 1) + k - 1]
    BY <1>3, <1>9, <2>1, SubSeqProperties
  <2>. QED  BY <1>3, <1>5, <2>2
<1>11. PICK w : w = u \o t
  OBVIOUS
<1>12. /\ w \in Seq(S) /\ Len(w) = A + N
       /\ \A k \in 1..(A + N) : w[k] = IF k <= A THEN u[k] ELSE t[k - A]
  <2>1. /\ u \o t \in Seq(S) /\ Len(u \o t) = Len(u) + Len(t)
        /\ \A k \in 1..(Len(u) + Len(t)) :
             (u \o t)[k] = IF k <= Len(u) THEN u[k] ELSE t[k - Len(u)]
    BY <1>8, ConcatProperties, Zenon
  <2>. QED  BY <1>2, <1>8, <1>11, <2>1, Zenon
<1>13. /\ r \in Seq(S) /\ Len(r) = (A + N) + B
       /\ \A k \in 1..((A + N) + B) : r[k] = IF k <= A + N THEN w[k] ELSE v[k - (A + N)]
  <2>1. r = w \o v
    BY <1>0, <1>1, <1>3, <1>4, <1>7, <1>9, <1>11
  <2>2. /\ w \o v \in Seq(S) /\ Len(w \o v) = Len(w) + Len(v)
        /\ \A k \in 1..(Len(w) + Len(v)) :
             (w \o v)[k] = IF k <= Len(w) THEN w[k] ELSE v[k - Len(w)]
    BY <1>10, <1>12, ConcatProperties, Zenon
  <2>. QED  BY <1>10, <1>12, <2>1, <2>2, Zenon
<1>14. (A + N) + B = M + N - 1 /\ M + N - 1 \in Nat
  BY <1>3, <1>4, <1>5
<1>15. ASSUME NEW p \in (1..M) \ {j}
       PROVE  Shift(p, j, N) \in 1..((A + N) + B) /\ r[Shift(p, j, N)] = s[p]
  <2>1. CASE p < j
    <3>1. /\ p \in 1..A /\ p <= A /\ p \in 1..(A + N) /\ p \in 1..((A + N) + B)
          /\ p <= A + N
      BY <1>3, <1>4, <2>1
    <3>2. Shift(p, j, N) = p
      BY <2>1 DEF Shift
    <3>3. w[p] = u[p] /\ u[p] = s[p] /\ r[p] = w[p]
      BY <1>8, <1>12, <1>13, <3>1, Zenon
    <3>. QED  BY <3>1, <3>2, <3>3
  <2>2. CASE ~(p < j)
    <3>1. PICK q : q = p + N - 1
      OBVIOUS
    <3>2. /\ q \in 1..((A + N) + B) /\ ~(q <= A + N) /\ q - (A + N) = p - j
          /\ p - j \in 1..B /\ j + (p - j) = p
      BY <1>3, <1>4, <1>5, <2>2, <3>1
    <3>3. r[q] = s[p]
      BY <1>10, <1>13, <3>2
    <3>4. Shift(p, j, N) = q
      BY <2>2, <3>1 DEF Shift
    <3>. QED  BY <3>2, <3>3, <3>4
  <2>. QED  BY <2>1, <2>2
<1>16. ASSUME NEW k \in 1..N PROVE j + k - 1 \in 1..((A + N) + B) /\ r[j + k - 1] = t[k]
  <2>1. PICK q : q = j + k - 1
    OBVIOUS
  <2>2. /\ q \in 1..((A + N) + B) /\ q <= A + N
        /\ q \in 1..(A + N) /\ ~(q <= A) /\ q - A = k
    BY <1>3, <1>4, <2>1
  <2>3. r[q] = w[q] /\ w[q] = t[k]
    BY <1>12, <1>13, <2>2
  <2>. QED  BY <2>1, <2>2, <2>3
<1>17. ASSUME NEW q \in 1..(M + N - 1)
       PROVE  \/ \E p \in (1..M) \ {j} : q = Shift(p, j, N)
              \/ \E k \in 1..N : q = j + k - 1
  <2>1. CASE q < j
    <3>1. q \in (1..M) \ {j}
      BY <1>3, <2>1
    <3>. QED  BY <2>1, <3>1 DEF Shift
  <2>2. CASE q >= j /\ q < j + N
    <3>1. q - j + 1 \in 1..N /\ q = j + (q - j + 1) - 1
      BY <2>2
    <3>. QED  BY <3>1
  <2>3. CASE q >= j + N
    <3>1. PICK p : p = q - N + 1
      OBVIOUS
    <3>2. p \in (1..M) \ {j} /\ ~(p < j) /\ q = p + N - 1
      BY <1>3, <2>3, <3>1
    <3>. QED  BY <3>2 DEF Shift
  <2>. QED  BY <2>1, <2>2, <2>3
<1>18. Len(r) = M + N - 1
  BY <1>13, <1>14
<1>19. Spliced(s, i, t, r)
  BY <1>1, <1>2, <1>3, <1>13, <1>14, <1>15, <1>16, <1>17, <1>18, Zenon DEF Spliced
<1>. QED  BY <1>0, <1>13, <1>19, Zenon

\* An instruction that a pass may replace: its operands are given, and none of
\* the names made of its own is taken.
Replacing(n, given) ==
  /\ Valid(prog.params, code, inst)
  /\ BB \in DOMAIN code /\ at \in DOMAIN code[BB] /\ n = code[BB][at]
  /\ inst[n].kind # "phi" /\ given \subseteq Range(Ops(n)) \cup Consts
  /\ \A v \in Values : v \notin Consts /\ \A role : v # Id(n, role)

\* What Valid says of one block.
BlockOK(c, i, b) ==
  /\ c[b] \in Seq(DOMAIN i) /\ DOMAIN c[b] = 1..Len(c[b]) /\ Len(c[b]) \in Nat
  /\ \A x \in DOMAIN c : \A j \in DOMAIN c[b], k \in DOMAIN c[x] :
       c[b][j] = c[x][k] => b = x /\ j = k
  /\ \A j, k \in DOMAIN c[b] : c[b][j] = c[b][k] => j = k
  /\ \A j, k \in DOMAIN c[b] :
       c[b][j] \in Range(i[c[b][k]].ops) => j < k \/ i[c[b][k]].kind = "phi"

LEMMA ValidBlocks ==
  ASSUME NEW params, NEW c, NEW i, Valid(params, c, i), NEW b \in DOMAIN c
  PROVE  BlockOK(c, i, b)
<1>1. c[b] \in Seq(DOMAIN i)
  BY DEF Valid
<1>2. \A x \in DOMAIN c : \A j \in DOMAIN c[b], k \in DOMAIN c[x] :
        /\ c[b][j] = c[x][k] => b = x /\ j = k
        /\ b = x /\ c[b][j] \in Range(i[c[b][k]].ops) => j < k \/ i[c[b][k]].kind = "phi"
  BY Zenon DEF Valid
<1>3. ASSUME NEW j \in DOMAIN c[b], NEW k \in DOMAIN c[b]
      PROVE  /\ c[b][j] = c[b][k] => j = k
             /\ c[b][j] \in Range(i[c[b][k]].ops) => j < k \/ i[c[b][k]].kind = "phi"
  BY <1>2
<1>4. DOMAIN c[b] = 1..Len(c[b]) /\ Len(c[b]) \in Nat
  BY <1>1
<1>. QED  BY <1>1, <1>2, <1>3, <1>4, Zenon DEF BlockOK

LEMMA IdsAreNoConstants ==
  ASSUME NEW n, NEW role
  PROVE  Id(n, role) \notin Consts
<1>1. \A c \in Consts : DOMAIN c = {1, 2}
  BY DEF Consts
<1>2. DOMAIN Id(n, role) = {1, 2, 3}
  BY DEF Id
<1>. QED  BY <1>1, <1>2

NamedOK(n, given, made) ==
  /\ n \in DOMAIN inst /\ Len(made) \in Nat \ {0} /\ DOMAIN made = 1..Len(made)
  /\ Id(n, "E") = made[Len(made)] /\ Len(made) \in DOMAIN made
  /\ \A k \in DOMAIN made : made[k] \notin Values \cup Consts
  /\ given \subseteq (Values \ {n}) \cup Consts

LEMMA ReplacedNames ==
  ASSUME NEW n, NEW given, Replacing(n, given), NEW made, Replaced(n, given, made)
  PROVE  NamedOK(n, given, made)
<1>1. n \in DOMAIN inst
  BY DEF Replacing, Valid
<1>2. /\ Len(made) \in Nat \ {0} /\ DOMAIN made = 1..Len(made)
      /\ Id(n, "E") = made[Len(made)] /\ Len(made) \in DOMAIN made
  BY DEF Replaced
<1>3. ASSUME NEW k \in DOMAIN made PROVE made[k] \notin Values \cup Consts
  <2>1. \E role \in Roles : made[k] = Id(n, role)
    BY DEF Replaced
  <2>. QED  BY <2>1, IdsAreNoConstants DEF Replacing
<1>4. n \notin Range(Ops(n))
  <2>1. \A j \in DOMAIN code[BB] : code[BB][at] \in Range(inst[code[BB][j]].ops)
                                    => at < j \/ inst[code[BB][j]].kind = "phi"
    <3>1. Valid(prog.params, code, inst) /\ BB \in DOMAIN code /\ at \in DOMAIN code[BB]
      BY DEF Replacing
    <3>2. BlockOK(code, inst, BB)
      BY <3>1, ValidBlocks, Zenon
    <3>. QED  BY <3>1, <3>2, Zenon DEF BlockOK
  <2>2. at \in DOMAIN code[BB] /\ n = code[BB][at] /\ ~(at < at)
    <3>1. at \in Nat
      BY DEF Replacing, Valid
    <3>. QED  BY <3>1 DEF Replacing
  <2>. QED  BY <2>1, <2>2, Zenon DEF Replacing, Ops
<1>5. Range(Ops(n)) \subseteq Values \cup Consts
  <2>1. inst[n] \in Instructions(Consts \cup prog.params \cup DOMAIN code \cup DOMAIN inst)
    BY <1>1 DEF Replacing, Valid
  <2>2. Ops(n) \in Seq(Consts \cup prog.params \cup DOMAIN code \cup DOMAIN inst)
    BY <2>1 DEF Instructions, Ops
  <2>. QED  BY <2>2 DEF Range, Values
<1>6. given \subseteq (Values \ {n}) \cup Consts
  BY <1>4, <1>5 DEF Replacing
<1>. QED  BY <1>1, <1>2, <1>3, <1>6 DEF NamedOK

\* The places of BB, after the replacement.
PlacedOK(n, made) ==
  /\ code'[BB] \in Seq(DOMAIN inst') /\ Len(code'[BB]) = Len(code[BB]) + Len(made) - 1
  /\ \A p \in DOMAIN code[BB] \ {at} :
       /\ Shift(p, at, Len(made)) \in DOMAIN code'[BB]
       /\ code'[BB][Shift(p, at, Len(made))] = code[BB][p]
       /\ code[BB][p] \in DOMAIN inst \ {n}
  /\ \A k \in DOMAIN made : at + k - 1 \in DOMAIN code'[BB] /\ code'[BB][at + k - 1] = made[k]
  /\ \A q \in DOMAIN code'[BB] :
       \/ \E p \in DOMAIN code[BB] \ {at} : q = Shift(p, at, Len(made))
       \/ \E k \in DOMAIN made : q = at + k - 1

LEMMA ReplacedPlaces ==
  ASSUME NEW n, NEW given, Replacing(n, given), NEW made, Replaced(n, given, made)
  PROVE  PlacedOK(n, made)
<1>1. PICK s : s = code[BB]
  OBVIOUS
<1>2. PICK r : r = code'[BB]
  OBVIOUS
<1>3. s \in Seq(DOMAIN inst) /\ at \in 1..Len(s) /\ DOMAIN s = 1..Len(s) /\ n = s[at]
  BY <1>1 DEF Replacing, Valid
<1>4. PICK S : S = DOMAIN inst \cup Range(made)
  OBVIOUS
<1>5. s \in Seq(S) /\ made \in Seq(S)
  <2>1. made \in Seq(Range(made))
    <3>1. made \in Seq({Id(n, role) : role \in Roles})
      BY DEF Replaced
    <3>. QED  BY <3>1 DEF Range
  <2>. QED  BY <1>3, <1>4, <2>1, SeqMonotonic
<1>6. r = SubSeq(s, 1, at - 1) \o made \o SubSeq(s, at + 1, Len(s))
  BY <1>1, <1>2 DEF Replaced
<1>7. /\ r \in Seq(S) /\ Len(r) = Len(s) + Len(made) - 1
      /\ \A p \in (1..Len(s)) \ {at} :
           Shift(p, at, Len(made)) \in 1..Len(r) /\ r[Shift(p, at, Len(made))] = s[p]
      /\ \A k \in 1..Len(made) : at + k - 1 \in 1..Len(r) /\ r[at + k - 1] = made[k]
      /\ \A q \in 1..Len(r) : \/ \E p \in (1..Len(s)) \ {at} : q = Shift(p, at, Len(made))
                              \/ \E k \in 1..Len(made) : q = at + k - 1
  <2>1. r \in Seq(S) /\ Spliced(s, at, made, r)
    BY <1>3, <1>5, <1>6, SplicePlaces, Zenon
  <2>. QED  BY <2>1, Zenon DEF Spliced
<1>8. DOMAIN r = 1..Len(r) /\ DOMAIN made = 1..Len(made)
  BY <1>5, <1>7
<1>9. ASSUME NEW p \in DOMAIN s \ {at} PROVE s[p] \in DOMAIN inst \ {n}
  <2>1. \A j \in DOMAIN code[BB], k \in DOMAIN code[BB] :
          code[BB][j] = code[BB][k] => j = k
    BY ValidBlocks, Zenon DEF Replacing, BlockOK
  <2>2. s[p] # s[at]
    BY <1>1, <1>3, <2>1
  <2>. QED  BY <1>3, <2>2
<1>10. r \in Seq(DOMAIN inst')
  <2>1. \A q \in 1..Len(r) : r[q] \in DOMAIN inst'
    <3>1. DOMAIN inst' = (DOMAIN inst \ {n}) \cup Range(made)
      BY DEF Replaced
    <3>2. ASSUME NEW q \in 1..Len(r) PROVE r[q] \in DOMAIN inst'
      <4>1. CASE \E p \in (1..Len(s)) \ {at} : q = Shift(p, at, Len(made))
        BY <1>3, <1>7, <1>9, <3>1, <4>1
      <4>2. CASE \E k \in 1..Len(made) : q = at + k - 1
        BY <1>7, <1>8, <3>1, <4>2 DEF Range
      <4>. QED  BY <1>7, <4>1, <4>2
    <3>. QED  BY <3>2
  <2>. QED  BY <1>7, <2>1
<1>. QED  BY <1>1, <1>2, <1>3, <1>7, <1>8, <1>9, <1>10 DEF PlacedOK

\* Place q of block b holds after the replacement what place p held before.
Kept(n, b, q, p, some) ==
  /\ p \in DOMAIN code[b] /\ code'[b][q] = code[b][p] /\ code[b][p] \in DOMAIN inst \ {n}
  /\ b = BB => p # at /\ q = Shift(p, at, some)
  /\ b # BB => q = p

\* Or it holds what was made, y-th.
Inserted(made, b, q, y) ==
  b = BB /\ y \in DOMAIN made /\ q = at + y - 1 /\ code'[b][q] = made[y]

Origin(n, made, b, q) ==
  (\E p : Kept(n, b, q, p, Len(made))) \/ (\E y : Inserted(made, b, q, y))

LEMMA ReplacedOrigins ==
  ASSUME NEW n, NEW given, Replacing(n, given), NEW made, Replaced(n, given, made),
         NEW b \in DOMAIN code, NEW q \in DOMAIN code'[b]
  PROVE  Origin(n, made, b, q)
<1>1. CASE b = BB
  <2>0. PlacedOK(n, made)
    BY ReplacedPlaces
  <2>1. CASE \E p \in DOMAIN code[BB] \ {at} : q = Shift(p, at, Len(made))
    BY <1>1, <2>0, <2>1 DEF Kept, PlacedOK, Origin
  <2>2. CASE \E k \in DOMAIN made : q = at + k - 1
    BY <1>1, <2>0, <2>2 DEF PlacedOK, Origin, Inserted
  <2>. QED  BY <1>1, <2>0, <2>1, <2>2 DEF PlacedOK
<1>2. CASE b # BB
  <2>1. code'[b] = code[b]
    BY <1>2 DEF Replaced
  <2>2. BlockOK(code, inst, b)
    BY ValidBlocks DEF Replacing
  <2>3. code[b][q] \in DOMAIN inst
    BY <2>1, <2>2 DEF BlockOK
  <2>4. code[b][q] # n
    <3>1. BB \in DOMAIN code /\ at \in DOMAIN code[BB] /\ n = code[BB][at]
      BY DEF Replacing
    <3>. QED  BY <1>2, <2>1, <2>2, <3>1, Zenon DEF BlockOK
  <2>. QED  BY <1>2, <2>1, <2>3, <2>4 DEF Kept, Origin
<1>. QED  BY <1>1, <1>2

\* What is kept or made is used as before, or by what uses the new name.
LEMMA InstructionsMonotonic ==
  ASSUME NEW S, NEW T, S \subseteq T, NEW i \in Instructions(S)
  PROVE  i \in Instructions(T)
<1>1. i.ops \in Seq(T)
  <2>1. PICK o \in Seq(S) : o = i.ops
    BY DEF Instructions
  <2>. QED  BY <2>1, SeqMonotonic
<1>. QED  BY <1>1 DEF Instructions

RenamedOK(i, j, V, n, new) ==
  /\ j \in Instructions((V \ {n}) \cup {new})
  /\ j.kind = i.kind /\ j.bits = i.bits /\ j.integer = i.integer /\ Len(j.ops) = Len(i.ops)
  /\ \A v \in Range(j.ops) :
       \/ v # n /\ v \in Range(i.ops)
       \/ v = new /\ n \in Range(i.ops)

LEMMA RenamedInstruction ==
  ASSUME NEW V, NEW i \in Instructions(V), NEW n, NEW new
  PROVE  RenamedOK(i, Renamed(i, n, new), V, n, new)
<1>1. PICK o \in Seq(V) : o = i.ops
  BY DEF Instructions
<1>2. PICK r : r = [k \in DOMAIN o |-> IF o[k] = n THEN new ELSE o[k]]
  OBVIOUS
<1>3. r \in Seq((V \ {n}) \cup {new}) /\ Len(r) = Len(o)
  <2>1. DOMAIN o = 1..Len(o) /\ Len(o) \in Nat /\ \A k \in 1..Len(o) : o[k] \in V
    OBVIOUS
  <2>2. r \in [1..Len(o) -> (V \ {n}) \cup {new}]
    BY <1>2, <2>1
  <2>. QED  BY <2>1, <2>2
<1>4. PICK j : j = Renamed(i, n, new)
  OBVIOUS
<1>5. j = [i EXCEPT !.ops = r]
  BY <1>1, <1>2, <1>4, Zenon DEF Renamed
<1>6. /\ j \in Instructions((V \ {n}) \cup {new}) /\ j.ops = r
      /\ j.kind = i.kind /\ j.bits = i.bits /\ j.integer = i.integer
  BY <1>3, <1>5 DEF Instructions
<1>7. ASSUME NEW v \in Range(r)
      PROVE  \/ v # n /\ v \in Range(o)
             \/ v = new /\ n \in Range(o)
  <2>1. PICK k \in DOMAIN o : v = IF o[k] = n THEN new ELSE o[k]
    BY <1>2 DEF Range
  <2>. QED  BY <2>1 DEF Range
<1>8. RenamedOK(i, j, V, n, new)
  BY <1>1, <1>3, <1>6, <1>7 DEF RenamedOK
<1>. QED  BY <1>4, <1>8

\* What exists after the replacement are instructions.
LEMMA ReplacedInstructions ==
  ASSUME NEW n, NEW given, Replacing(n, given), NEW made, Replaced(n, given, made),
         NEW m \in DOMAIN inst'
  PROVE  /\ inst'[m] \in Instructions(Consts \cup prog.params \cup DOMAIN code' \cup DOMAIN inst')
         /\ inst'[m].kind \in {"add", "sub"} => Len(inst'[m].ops) = 2
         /\ \E b \in DOMAIN code' : m \in Range(code'[b])
<1>1. /\ DOMAIN code' = DOMAIN code /\ DOMAIN inst' = (DOMAIN inst \ {n}) \cup Range(made)
      /\ \A b \in DOMAIN code \ {BB} : code'[b] = code[b]
  BY DEF Replaced
<1>0. NamedOK(n, given, made) /\ PlacedOK(n, made)
  BY ReplacedNames, ReplacedPlaces
<1>2. PICK V : V = Consts \cup prog.params \cup DOMAIN code \cup DOMAIN inst
  OBVIOUS
<1>3. PICK W : W = Consts \cup prog.params \cup DOMAIN code' \cup DOMAIN inst'
  OBVIOUS
<1>4. /\ n \in DOMAIN inst /\ Range(made) \subseteq W /\ Id(n, "E") \in W
      /\ V \ {n} \subseteq W
  <2>1. Id(n, "E") \in Range(made)
    BY <1>0 DEF NamedOK, Range
  <2>. QED  BY <1>0, <1>1, <1>2, <1>3, <2>1 DEF NamedOK
<1>5. CASE m \in DOMAIN inst \ {n}
  <2>1. PICK i : i = inst[m]
    OBVIOUS
  <2>2. /\ i \in Instructions(V) /\ (i.kind \in {"add", "sub"} => Len(i.ops) = 2)
        /\ \E b \in DOMAIN code : m \in Range(code[b])
    BY <1>2, <1>5, <2>1 DEF Replacing, Valid
  <2>3. PICK j : j = Renamed(i, n, Id(n, "E"))
    OBVIOUS
  <2>4. inst'[m] = j
    BY <1>5, <2>1, <2>3 DEF Replaced
  <2>5. j \in Instructions((V \ {n}) \cup {Id(n, "E")}) /\ j.kind = i.kind /\ Len(j.ops) = Len(i.ops)
    <3>1. RenamedOK(i, j, V, n, Id(n, "E"))
      BY <2>2, <2>3, RenamedInstruction
    <3>. QED  BY <3>1 DEF RenamedOK
  <2>6. j \in Instructions(W)
    BY <1>4, <2>5, InstructionsMonotonic
  <2>7. \E b \in DOMAIN code' : m \in Range(code'[b])
    <3>1. PICK b \in DOMAIN code : m \in Range(code[b])
      BY <2>2
    <3>2. PICK p \in DOMAIN code[b] : m = code[b][p]
      BY <3>1 DEF Range
    <3>3. CASE b # BB
      BY <1>1, <3>1, <3>3
    <3>4. CASE b = BB
      <4>1. p \in DOMAIN code[BB] \ {at}
        BY <1>5, <3>2, <3>4 DEF Replacing
      <4>2. /\ Shift(p, at, Len(made)) \in DOMAIN code'[BB]
            /\ code'[BB][Shift(p, at, Len(made))] = m
        BY <1>0, <3>2, <3>4, <4>1 DEF PlacedOK
      <4>. QED  BY <1>1, <3>4, <4>2 DEF Range
    <3>. QED  BY <3>3, <3>4
  <2>. QED  BY <1>3, <2>2, <2>4, <2>5, <2>6, <2>7
<1>6. CASE m \in Range(made)
  <2>1. PICK k \in DOMAIN made : m = made[k]
    BY <1>6 DEF Range
  <2>2. /\ inst'[m] \in Instructions(given \cup {made[j] : j \in 1..(k - 1)})
        /\ inst'[m].kind \in {"add", "sub"} => Len(inst'[m].ops) = 2
    BY <2>1 DEF Replaced
  <2>3. given \cup {made[j] : j \in 1..(k - 1)} \subseteq W
    <3>1. \A j \in 1..(k - 1) : j \in DOMAIN made
      BY <1>0, <2>1 DEF NamedOK
    <3>2. given \subseteq W
      BY <1>0, <1>2, <1>3, <1>4 DEF NamedOK, Values
    <3>. QED  BY <1>4, <3>1, <3>2 DEF Range
  <2>4. inst'[m] \in Instructions(W)
    BY <2>2, <2>3, InstructionsMonotonic
  <2>5. m \in Range(code'[BB]) /\ BB \in DOMAIN code'
    <3>1. BB \in DOMAIN code'
      BY <1>1 DEF Replacing
    <3>. QED  BY <1>0, <2>1, <3>1 DEF PlacedOK, Range
  <2>. QED  BY <1>3, <2>2, <2>4, <2>5
<1>. QED  BY <1>1, <1>5, <1>6

\* No instruction is in two places after the replacement either.
LEMMA ReplacedOnce ==
  ASSUME NEW n, NEW given, Replacing(n, given), NEW made, Replaced(n, given, made),
         NEW b \in DOMAIN code, NEW x \in DOMAIN code,
         NEW j \in DOMAIN code'[b], NEW k \in DOMAIN code'[x], code'[b][j] = code'[x][k]
  PROVE  b = x /\ j = k
<1>1. NamedOK(n, given, made) /\ BlockOK(code, inst, b) /\ BlockOK(code, inst, x)
  BY ReplacedNames, ValidBlocks DEF Replacing
<1>2. at \in Nat
  BY ValidBlocks DEF Replacing, BlockOK
<1>3. ASSUME NEW p, NEW q, Kept(n, b, j, p, Len(made)), Kept(n, x, k, q, Len(made))
      PROVE  b = x /\ j = k
  <2>1. p \in DOMAIN code[b] /\ q \in DOMAIN code[x] /\ code[b][p] = code[x][q]
    BY <1>3 DEF Kept
  <2>2. b = x /\ p = q
    BY <1>1, <2>1, Zenon DEF BlockOK
  <2>. QED  BY <1>3, <2>2 DEF Kept
<1>4. ASSUME NEW y, NEW z, Inserted(made, b, j, y), Inserted(made, x, k, z)
      PROVE  b = x /\ j = k
  BY <1>4 DEF Replaced, Inserted
<1>5. ASSUME NEW p, NEW y, Kept(n, b, j, p, Len(made)), Inserted(made, x, k, y)
      PROVE  FALSE
  BY <1>1, <1>5 DEF Kept, NamedOK, Values, Inserted
<1>6. ASSUME NEW p, NEW y, Inserted(made, b, j, y), Kept(n, x, k, p, Len(made))
      PROVE  FALSE
  BY <1>1, <1>6 DEF Kept, NamedOK, Values, Inserted
<1>7. Origin(n, made, b, j) /\ Origin(n, made, x, k)
  BY ReplacedOrigins
<1>. QED  BY <1>3, <1>4, <1>5, <1>6, <1>7, Zenon DEF Origin

\* No instruction of a block uses a later one after the replacement either.
LEMMA ReplacedOrder ==
  ASSUME NEW n, NEW given, Replacing(n, given), NEW made, Replaced(n, given, made),
         NEW b \in DOMAIN code, NEW j \in DOMAIN code'[b], NEW k \in DOMAIN code'[b],
         code'[b][j] \in Range(inst'[code'[b][k]].ops)
  PROVE  j < k \/ inst'[code'[b][k]].kind = "phi"
<1>0. PICK some : some = Len(made)
  OBVIOUS
<1>1. NamedOK(n, given, made) /\ BlockOK(code, inst, b) /\ BlockOK(code, inst, BB)
  BY ReplacedNames, ValidBlocks DEF Replacing
<1>2. /\ at \in Nat /\ some \in Nat \ {0} /\ DOMAIN code[b] \subseteq Nat /\ DOMAIN made = 1..some
      /\ BB \in DOMAIN code /\ at \in DOMAIN code[BB] /\ n = code[BB][at] /\ inst[n].kind # "phi"
  BY <1>0, <1>1 DEF Replacing, BlockOK, NamedOK
<1>3. PICK m : m = code'[b][k]
  OBVIOUS
<1>4. PICK v : v = code'[b][j]
  OBVIOUS
\* A kept instruction uses what it used, or the new name for n.
<1>5. ASSUME NEW q, Kept(n, b, k, q, some)
      PROVE  /\ m \in DOMAIN inst \ {n} /\ inst'[m].kind = inst[m].kind
             /\ \/ v # n /\ v \in Range(inst[m].ops)
                \/ v = Id(n, "E") /\ n \in Range(inst[m].ops)
             /\ Range(inst[m].ops) \subseteq Values \cup Consts
  <2>1. m \in DOMAIN inst \ {n}
    BY <1>3, <1>5 DEF Kept
  <2>2. PICK V : V = Consts \cup prog.params \cup DOMAIN code \cup DOMAIN inst
    OBVIOUS
  <2>3. inst[m] \in Instructions(V)
    BY <2>1, <2>2 DEF Replacing, Valid
  <2>4. inst'[m] = Renamed(inst[m], n, Id(n, "E"))
    BY <2>1 DEF Replaced
  <2>5. RenamedOK(inst[m], inst'[m], V, n, Id(n, "E"))
    BY <2>3, <2>4, RenamedInstruction
  <2>6. Range(inst[m].ops) \subseteq Values \cup Consts
    <3>1. inst[m].ops \in Seq(V)
      BY <2>3 DEF Instructions
    <3>. QED  BY <2>2, <3>1 DEF Range, Values
  <2>7. v \in Range(inst'[m].ops)
    BY <1>3, <1>4
  <2>8. /\ inst'[m].kind = inst[m].kind
        /\ \/ v # n /\ v \in Range(inst[m].ops)
           \/ v = Id(n, "E") /\ n \in Range(inst[m].ops)
    BY <2>5, <2>7, Zenon DEF RenamedOK
  <2>. QED  BY <2>1, <2>6, <2>8
<1>6. ASSUME NEW p, NEW q, Kept(n, b, j, p, some), Kept(n, b, k, q, some)
      PROVE  j < k \/ inst'[code'[b][k]].kind = "phi"
  <2>1. Kept(n, b, j, p, some) /\ Kept(n, b, k, q, some)
    BY <1>6
  <2>2. v \in DOMAIN inst \ {n} /\ v # Id(n, "E")
    BY <1>1, <1>4, <2>1 DEF Kept, NamedOK, Values
  <2>3. v \in Range(inst[m].ops)
    BY <1>5, <2>1, <2>2
  <2>4. p < q \/ inst[m].kind = "phi"
    BY <1>1, <1>3, <1>4, <2>1, <2>3 DEF Kept, BlockOK
  <2>5. p < q => j < k
    <3>1. p \in Nat /\ q \in Nat
      BY <1>2, <2>1 DEF Kept
    <3>2. CASE b = BB
      <4>1. p # at /\ j = Shift(p, at, some) /\ q # at /\ k = Shift(q, at, some)
        BY <2>1, <3>2 DEF Kept
      <4>. QED  BY <1>2, <3>1, <4>1 DEF Shift
    <3>3. CASE b # BB
      BY <2>1, <3>3 DEF Kept
    <3>. QED  BY <3>2, <3>3
  <2>. QED  BY <1>3, <1>5, <2>1, <2>4, <2>5
<1>7. ASSUME NEW q, Kept(n, b, k, q, some), NEW y, Inserted(made, b, j, y)
      PROVE  j < k \/ inst'[code'[b][k]].kind = "phi"
  <2>0. b = BB /\ y \in DOMAIN made /\ j = at + y - 1 /\ code'[b][j] = made[y]
    BY <1>7 DEF Inserted
  <2>1. v \notin Values \cup Consts
    BY <1>1, <1>4, <2>0 DEF NamedOK
  <2>2. v = Id(n, "E") /\ n \in Range(inst[m].ops)
    BY <1>5, <1>7, <2>1
  <2>3. y = some
    BY <1>0, <1>1, <1>4, <2>0, <2>2 DEF NamedOK, Replaced
  <2>4. at < q \/ inst[m].kind = "phi"
    BY <1>1, <1>2, <1>3, <1>7, <2>0, <2>2 DEF Kept, BlockOK
  <2>5. at < q => j < k
    <3>1. q \in Nat /\ q # at /\ k = Shift(q, at, some)
      BY <1>2, <1>7, <2>0 DEF Kept
    <3>. QED  BY <1>2, <2>0, <2>3, <3>1 DEF Shift
  <2>. QED  BY <1>3, <1>5, <1>7, <2>4, <2>5
\* What is made uses what is given, or what is made before it.
<1>8. ASSUME NEW y, Inserted(made, b, k, y)
      PROVE  \/ v \in given
             \/ \E z \in 1..(y - 1) : v = made[z]
  <2>1. inst'[made[y]] \in Instructions(given \cup {made[z] : z \in 1..(y - 1)})
    BY <1>8 DEF Replaced, Inserted
  <2>2. inst'[m].ops \in Seq(given \cup {made[z] : z \in 1..(y - 1)})
    BY <1>3, <1>8, <2>1 DEF Instructions, Inserted
  <2>3. v \in Range(inst'[m].ops)
    BY <1>3, <1>4
  <2>. QED  BY <2>2, <2>3 DEF Range
<1>9. ASSUME NEW p, Kept(n, b, j, p, some), NEW y, Inserted(made, b, k, y)
      PROVE  j < k
  <2>0. b = BB /\ y \in DOMAIN made /\ k = at + y - 1
    BY <1>9 DEF Inserted
  <2>1. v \in DOMAIN inst /\ v \in Values /\ v \notin Consts
    BY <1>4, <1>9 DEF Kept, Replacing, Values
  <2>2. v \in given
    <3>1. \A z \in 1..(y - 1) : z \in DOMAIN made
      BY <1>2, <2>0
    <3>. QED  BY <1>1, <1>8, <1>9, <2>1, <3>1 DEF NamedOK
  <2>3. v \in Range(inst[n].ops)
    BY <2>1, <2>2 DEF Replacing, Ops
  <2>4. p \in DOMAIN code[BB] /\ v = code[BB][p] /\ p # at /\ j = Shift(p, at, some)
    BY <1>4, <1>9, <2>0 DEF Kept
  <2>5. p < at
    BY <1>1, <1>2, <2>3, <2>4 DEF BlockOK
  <2>. QED  BY <1>2, <2>0, <2>4, <2>5 DEF Shift
<1>10. ASSUME NEW z, Inserted(made, b, j, z), NEW y, Inserted(made, b, k, y)
       PROVE  j < k
  <2>0. /\ z \in DOMAIN made /\ j = at + z - 1 /\ v = made[z]
        /\ y \in DOMAIN made /\ k = at + y - 1
    BY <1>4, <1>10 DEF Inserted
  <2>1. v \notin given
    BY <1>1, <2>0 DEF NamedOK
  <2>2. PICK w \in 1..(y - 1) : v = made[w]
    BY <1>8, <1>10, <2>1
  <2>3. w = z
    <3>1. w \in DOMAIN made /\ made[w] = made[z]
      BY <1>2, <2>0, <2>2
    <3>. QED  BY <2>0, <3>1 DEF Replaced
  <2>. QED  BY <1>2, <2>0, <2>2, <2>3
<1>11. Origin(n, made, b, j) /\ Origin(n, made, b, k)
  BY ReplacedOrigins
<1>. QED  BY <1>0, <1>6, <1>7, <1>9, <1>10, <1>11, Zenon DEF Origin

\* The function stays one that the verifier accepts.
LEMMA ReplacedValid ==
  ASSUME NEW n, NEW given, Replacing(n, given), NEW made, Replaced(n, given, made)
  PROVE  Valid(prog.params, code', inst')
<1>1. /\ DOMAIN code' = DOMAIN code
      /\ \A b \in DOMAIN code \ {BB} : code'[b] = code[b]
  BY DEF Replaced
<1>2. PICK W : W = Consts \cup prog.params \cup DOMAIN code' \cup DOMAIN inst'
  OBVIOUS
<1>3. PICK c : c = code'
  OBVIOUS
<1>4. PICK i : i = inst'
  OBVIOUS
<1>5. ASSUME NEW b \in DOMAIN c PROVE c[b] \in Seq(DOMAIN i)
  <2>1. CASE b = BB
    BY <1>3, <1>4, <2>1, ReplacedPlaces DEF PlacedOK
  <2>2. CASE b # BB
    <3>1. BlockOK(code, inst, b) /\ c[b] = code[b]
      BY <1>1, <1>3, <2>2, ValidBlocks DEF Replacing
    <3>2. \A q \in DOMAIN code[b] : code[b][q] \in DOMAIN inst /\ code[b][q] # n
      BY <1>1, <1>3, <2>2, <3>1 DEF BlockOK, Replacing
    <3>3. DOMAIN inst \ {n} \subseteq DOMAIN i
      BY <1>4 DEF Replaced
    <3>4. PICK s : s = code[b]
      OBVIOUS
    <3>5. s \in Seq(DOMAIN inst) /\ \A q \in DOMAIN s : s[q] \in DOMAIN i
      BY <3>1, <3>2, <3>3, <3>4 DEF BlockOK
    <3>6. s \in Seq(DOMAIN i)
      BY <3>5
    <3>. QED  BY <3>1, <3>4, <3>6
  <2>. QED  BY <2>1, <2>2
<1>6. ASSUME NEW m \in DOMAIN i
      PROVE  /\ i[m] \in Instructions(W)
             /\ i[m].kind \in {"add", "sub"} => Len(i[m].ops) = 2
             /\ \E b \in DOMAIN c : m \in Range(c[b])
  BY <1>2, <1>3, <1>4, ReplacedInstructions
<1>7. ASSUME NEW b \in DOMAIN c, NEW x \in DOMAIN c, NEW j \in DOMAIN c[b], NEW k \in DOMAIN c[x]
      PROVE  /\ c[b][j] = c[x][k] => b = x /\ j = k
             /\ b = x /\ c[b][j] \in Range(i[c[b][k]].ops) => j < k \/ i[c[b][k]].kind = "phi"
  <2>1. b \in DOMAIN code /\ x \in DOMAIN code /\ j \in DOMAIN code'[b] /\ k \in DOMAIN code'[x]
    BY <1>1, <1>3
  <2>2. code'[b][j] = code'[x][k] => b = x /\ j = k
    BY <2>1, ReplacedOnce
  <2>3. ASSUME b = x, code'[b][j] \in Range(inst'[code'[b][k]].ops)
        PROVE  j < k \/ inst'[code'[b][k]].kind = "phi"
    BY <2>1, <2>3, ReplacedOrder
  <2>. QED  BY <1>3, <1>4, <2>2, <2>3
<1>8. c \in [DOMAIN c -> Seq(DOMAIN i)] /\ i \in [DOMAIN i -> Instructions(W)]
  <2>1. c = [b \in DOMAIN c |-> c[b]] /\ i = [m \in DOMAIN i |-> i[m]]
    BY <1>1, <1>3, <1>4 DEF Replaced
  <2>. QED  BY <1>5, <1>6, <2>1
<1>9. W = Consts \cup prog.params \cup DOMAIN c \cup DOMAIN i
  BY <1>2, <1>3, <1>4
<1>10. Valid(prog.params, c, i)
  BY <1>6, <1>7, <1>8, <1>9, Zenon DEF Valid
<1>. QED  BY <1>3, <1>4, <1>10, Zenon
-----------------------------------------------------------------------------
(***************************************************************************)
(* The walk.                                                               *)
(***************************************************************************)
\* One more place is gone, for what has been made of it.
LEMMA RewrittenStep ==
  ASSUME NEW S, NEW old \in Seq(S), NEW new, NEW gone \in SUBSET DOMAIN old, NEW i \in DOMAIN old,
         Len(new) \in Nat, DOMAIN new = 1..Len(new), Rewritten(old, new, gone, i),
         \A p, q \in DOMAIN new : new[p] = new[q] => p = q,
         \A k, l \in DOMAIN old : old[k] = old[l] => k = l,
         \A k, l \in DOMAIN old : \A role : old[k] # Id(old[l], role),
         NEW made \in Seq({Id(old[i], role) : role \in Roles}), made # <<>>,
         made[Len(made)] = Id(old[i], "E"),
         NEW next, DOMAIN next = 1..Len(next), Spliced(new, i + Len(new) - Len(old), made, next)
  PROVE  Rewritten(old, next, gone \cup {i}, i + 1)
<1>1. PICK M \in Nat : M = Len(old) /\ DOMAIN old = 1..M
  OBVIOUS
<1>2. PICK N \in Nat : N = Len(new) /\ DOMAIN new = 1..N
  OBVIOUS
<1>3. PICK L \in Nat \ {0} : L = Len(made) /\ DOMAIN made = 1..L
  OBVIOUS
<1>4. PICK a : a = i + N - M
  OBVIOUS
<1>0. \A k \in i..M : k + N - M \in 1..N /\ new[k + N - M] = old[k]
  BY <1>1, <1>2, Zenon DEF Rewritten
<1>5. i \in 1..M /\ a \in 1..N /\ new[a] = old[i]
  <2>1. i \in 1..M
    BY <1>1
  <2>2. i \in i..M
    BY <2>1
  <2>. QED  BY <1>0, <1>4, <2>1, <2>2
<1>6. /\ Len(next) = N + L - 1
      /\ \A p \in (1..N) \ {a} : Shift(p, a, L) \in DOMAIN next /\ next[Shift(p, a, L)] = new[p]
      /\ \A k \in 1..L : a + k - 1 \in DOMAIN next /\ next[a + k - 1] = made[k]
      /\ \A q \in DOMAIN next : \/ \E p \in (1..N) \ {a} : q = Shift(p, a, L)
                                \/ \E k \in 1..L : q = a + k - 1
  BY <1>1, <1>2, <1>3, <1>4, Zenon DEF Spliced
<1>7. \A k \in 1..L : \E role \in Roles : made[k] = Id(old[i], role)
  BY <1>3
\* What is in next and was in old, is from new.
<1>8. ASSUME NEW q \in DOMAIN next, NEW k \in DOMAIN old, next[q] = old[k]
      PROVE  \E p \in (1..N) \ {a} : q = Shift(p, a, L) /\ new[p] = old[k]
  <2>1. ASSUME NEW y \in 1..L, q = a + y - 1 PROVE FALSE
    <3>1. next[q] = made[y]
      BY <1>6, <2>1
    <3>. QED  BY <1>7, <1>8, <3>1
  <2>2. PICK p \in (1..N) \ {a} : q = Shift(p, a, L)
    BY <1>6, <2>1
  <2>. QED  BY <1>6, <1>8, <2>2
<1>9. ASSUME NEW k \in (i + 1)..M
      PROVE  /\ k + (N + L - 1) - M \in DOMAIN next
             /\ next[k + (N + L - 1) - M] = old[k]
  <2>1. PICK p : p = k + N - M
    OBVIOUS
  <2>2. p \in 1..N /\ new[p] = old[k]
    <3>1. k \in i..M
      BY <1>5
    <3>. QED  BY <1>0, <2>1, <3>1
  <2>3. p > a /\ k + (N + L - 1) - M = p + L - 1 /\ k + (N + L - 1) - M \in Int
    BY <1>4, <1>5, <2>1
  <2>4. Shift(p, a, L) = p + L - 1 /\ p # a
    BY <1>5, <2>2, <2>3 DEF Shift
  <2>5. /\ Shift(p, a, L) \in DOMAIN next /\ next[Shift(p, a, L)] = new[p]
        /\ Shift(p, a, L) = k + (N + L - 1) - M
    BY <1>6, <2>2, <2>3, <2>4
  <2>. QED  BY <2>2, <2>5, Zenon
<1>10. ASSUME NEW k \in DOMAIN old \ (gone \cup {i}) PROVE \E q \in DOMAIN next : next[q] = old[k]
  <2>1. PICK p \in 1..N : new[p] = old[k]
    BY <1>2 DEF Rewritten
  <2>2. p # a
    BY <1>5, <2>1
  <2>. QED  BY <1>6, <2>1, <2>2
<1>11. ASSUME NEW q \in DOMAIN next
       PROVE  \/ \E k \in DOMAIN old \ (gone \cup {i}) : next[q] = old[k]
              \/ \E k \in gone \cup {i}, role \in Roles : next[q] = Id(old[k], role)
  <2>1. CASE \E k \in 1..L : q = a + k - 1
    <3>1. PICK y \in 1..L : next[q] = made[y]
      BY <1>6, <2>1
    <3>2. PICK role \in Roles : next[q] = Id(old[i], role)
      BY <1>7, <3>1
    <3>. QED  BY <3>2
  <2>2. CASE \E p \in (1..N) \ {a} : q = Shift(p, a, L)
    <3>1. PICK p \in (1..N) \ {a} : q = Shift(p, a, L)
      BY <2>2
    <3>2. next[q] = new[p]
      BY <1>6, <3>1
    <3>3. CASE \E k \in gone, role \in Roles : new[p] = Id(old[k], role)
      BY <3>2, <3>3
    <3>4. CASE \E k \in DOMAIN old \ gone : new[p] = old[k]
      <4>1. PICK k \in DOMAIN old \ gone : new[p] = old[k]
        BY <3>4
      <4>2. k # i
        <5>1. SUFFICES ASSUME k = i PROVE FALSE
          OBVIOUS
        <5>2. new[p] = new[a]
          BY <1>5, <4>1, <5>1
        <5>. QED  BY <1>2, <1>5, <3>1, <5>2
      <4>. QED  BY <3>2, <4>1, <4>2
    <3>. QED  BY <1>2, <3>3, <3>4 DEF Rewritten
  <2>. QED  BY <1>6, <2>1, <2>2
<1>12. ASSUME NEW k \in gone \cup {i} PROVE \E q \in DOMAIN next : next[q] = Id(old[k], "E")
  <2>1. CASE k = i
    BY <1>3, <1>6, <2>1
  <2>2. CASE k \in gone
    <3>1. PICK p \in 1..N : new[p] = Id(old[k], "E")
      BY <1>2, <2>2 DEF Rewritten
    <3>2. p # a
      BY <1>5, <3>1
    <3>. QED  BY <1>6, <3>1, <3>2
  <2>. QED  BY <2>1, <2>2
<1>13. ASSUME NEW k \in DOMAIN old, NEW l \in DOMAIN old, NEW q \in DOMAIN next, NEW r \in DOMAIN next,
              next[q] = old[k], next[r] = old[l], k < l
       PROVE  q < r
  <2>1. PICK p \in (1..N) \ {a} : q = Shift(p, a, L) /\ new[p] = old[k]
    BY <1>8, <1>13
  <2>2. PICK o \in (1..N) \ {a} : r = Shift(o, a, L) /\ new[o] = old[l]
    BY <1>8, <1>13
  <2>3. p < o
    BY <1>2, <1>13, <2>1, <2>2 DEF Rewritten
  <2>. QED  BY <1>5, <2>1, <2>2, <2>3 DEF Shift
<1>14. i + 1 \in 1..(M + 1)
  BY <1>5
<1>. QED  BY <1>1, <1>6, <1>9, <1>10, <1>11, <1>12, <1>13, <1>14 DEF Rewritten

\* A place that is passed is not gone.
LEMMA RewrittenSkip ==
  ASSUME NEW old, NEW new, NEW gone, NEW i \in 1..Len(old), Len(old) \in Nat,
         Rewritten(old, new, gone, i)
  PROVE  Rewritten(old, new, gone, i + 1)
<1>1. i + 1 \in 1..(Len(old) + 1) /\ \A k \in (i + 1)..Len(old) : k \in i..Len(old)
  OBVIOUS
<1>. QED  BY <1>1, Zenon DEF Rewritten

LEMMA RewrittenStart ==
  ASSUME NEW S, NEW old \in Seq(S), \A k, l \in DOMAIN old : old[k] = old[l] => k = l
  PROVE  Rewritten(old, old, {}, 1)
<1>1. PICK M \in Nat : M = Len(old) /\ DOMAIN old = 1..M
  OBVIOUS
<1>2. \A k \in 1..M : k + M - M = k
  OBVIOUS
<1>3. 1 \in 1..(M + 1)
  OBVIOUS
<1>4. ASSUME NEW k \in DOMAIN old, NEW l \in DOMAIN old, NEW q \in DOMAIN old, NEW r \in DOMAIN old,
             old[q] = old[k], old[r] = old[l], k < l
      PROVE  q < r
  BY <1>4
<1>5. \A k \in 1..M : k + M - M \in DOMAIN old /\ old[k + M - M] = old[k]
  BY <1>1, <1>2
<1>. QED  BY <1>1, <1>3, <1>4, <1>5, Zenon DEF Rewritten

\* The blocks that are left of the layout.
LEMMA Suffix ==
  ASSUME NEW S, NEW layout \in Seq(S), \A j, k \in DOMAIN layout : layout[j] = layout[k] => j = k,
         NEW k \in DOMAIN layout \cup {Len(layout) + 1},
         NEW r, r = SubSeq(layout, k, Len(layout))
  PROVE  /\ Range(r) \subseteq Range(layout)
         /\ r # <<>> => /\ Head(r) \in Range(r) /\ Range(Tail(r)) = Range(r) \ {Head(r)}
                        /\ k + 1 \in DOMAIN layout \cup {Len(layout) + 1}
                        /\ Tail(r) = SubSeq(layout, k + 1, Len(layout))
<1>1. PICK N \in Nat : N = Len(layout) /\ DOMAIN layout = 1..N
  OBVIOUS
<1>2. k \in 1..(N + 1)
  BY <1>1
<1>3. \A i \in k..N : layout[i] \in S
  BY <1>1, <1>2
<1>4. /\ r \in Seq(S) /\ Len(r) = IF k <= N THEN N - k + 1 ELSE 0
      /\ \A i \in 1..(N - k + 1) : r[i] = layout[k + i - 1]
  BY <1>1, <1>2, <1>3, SubSeqProperties
<1>5. DOMAIN r = 1..(N - k + 1) /\ \A i \in 1..(N - k + 1) : k + i - 1 \in 1..N
  BY <1>2, <1>4
<1>6. Range(r) \subseteq Range(layout)
  BY <1>1, <1>4, <1>5 DEF Range
<1>7. CASE r # <<>>
  <2>1. k \in 1..N
    BY <1>2, <1>4, <1>7
  <2>2. Head(r) = r[1] /\ 1 \in DOMAIN r
    BY <1>4, <1>7
  <2>3. Head(r) = layout[k]
    BY <1>4, <1>5, <2>1, <2>2
  <2>4. PICK t : t = SubSeq(layout, k + 1, N)
    OBVIOUS
  <2>5. Tail(r) = t
    BY <1>1, <2>1, <2>4, HeadTailOfSubSeq
  <2>6. /\ t \in Seq(S) /\ Len(t) = IF k + 1 <= N THEN N - (k + 1) + 1 ELSE 0
        /\ \A i \in 1..(N - (k + 1) + 1) : t[i] = layout[(k + 1) + i - 1]
    <3>1. \A i \in (k + 1)..N : layout[i] \in S
      BY <1>1, <2>1
    <3>. QED  BY <1>1, <2>1, <2>4, <3>1, SubSeqProperties
  <2>7. DOMAIN t = 1..(N - k) /\ \A i \in 1..(N - k) : t[i] = layout[k + i]
    BY <2>1, <2>6
  <2>8. \A i \in 1..(N - k) : i + 1 \in DOMAIN r /\ r[i + 1] = layout[k + i]
    BY <1>4, <1>5, <2>1
  <2>9. Range(t) \subseteq Range(r) \ {Head(r)}
    <3>1. ASSUME NEW i \in 1..(N - k) PROVE t[i] \in Range(r) /\ t[i] # layout[k]
      <4>1. k + i \in 1..N /\ k + i # k
        BY <2>1
      <4>. QED  BY <1>1, <2>1, <2>7, <2>8, <4>1 DEF Range
    <3>. QED  BY <2>3, <2>7, <3>1 DEF Range
  <2>10. Range(r) \ {Head(r)} \subseteq Range(t)
    <3>1. ASSUME NEW i \in 1..(N - k + 1), i # 1 PROVE r[i] \in Range(t)
      <4>1. i - 1 \in 1..(N - k) /\ k + (i - 1) = k + i - 1
        BY <2>1, <3>1
      <4>2. t[i - 1] = r[i]
        BY <1>4, <2>7, <4>1
      <4>. QED  BY <2>7, <4>1, <4>2 DEF Range
    <3>. QED  BY <1>5, <2>2, <3>1 DEF Range
  <2>11. k + 1 \in 1..N \cup {N + 1}
    BY <2>1
  <2>12. Head(r) \in Range(r)
    BY <2>2 DEF Range
  <2>13. Range(Tail(r)) = Range(r) \ {Head(r)}
    BY <2>5, <2>9, <2>10
  <2>14. Tail(r) = SubSeq(layout, k + 1, Len(layout)) /\ k + 1 \in DOMAIN layout \cup {Len(layout) + 1}
    BY <1>1, <2>4, <2>5, <2>11
  <2>. QED  BY <1>6, <2>12, <2>13, <2>14
<1>. QED  BY <1>6, <1>7

RestOK(r) == \E k \in DOMAIN prog.layout \cup {Len(prog.layout) + 1} :
               r = SubSeq(prog.layout, k, Len(prog.layout))

LEMMA RestFacts ==
  ASSUME prog \in Programs, DOMAIN code = DOMAIN prog.code, NEW r, RestOK(r)
  PROVE  /\ Range(r) \subseteq DOMAIN code
         /\ r # <<>> => /\ Head(r) \in DOMAIN code /\ Head(r) \in Range(r)
                        /\ Range(Tail(r)) = Range(r) \ {Head(r)} /\ RestOK(Tail(r))
<1>1. /\ prog.layout \in Seq(DOMAIN prog.code) /\ Range(prog.layout) = DOMAIN prog.code
      /\ \A j, k \in DOMAIN prog.layout : prog.layout[j] = prog.layout[k] => j = k
  BY ProgramAssumption DEF IsInjective
<1>2. PICK layout : layout = prog.layout
  OBVIOUS
<1>3. PICK k \in DOMAIN layout \cup {Len(layout) + 1} : r = SubSeq(layout, k, Len(layout))
  BY <1>2 DEF RestOK
<1>4. /\ Range(r) \subseteq Range(layout)
      /\ r # <<>> => /\ Head(r) \in Range(r) /\ Range(Tail(r)) = Range(r) \ {Head(r)}
                     /\ k + 1 \in DOMAIN layout \cup {Len(layout) + 1}
                     /\ Tail(r) = SubSeq(layout, k + 1, Len(layout))
  <2>1. layout \in Seq(DOMAIN prog.code)
    BY <1>1, <1>2
  <2>2. \A i, j \in DOMAIN layout : layout[i] = layout[j] => i = j
    BY <1>1, <1>2
  <2>. QED  BY <1>3, <2>1, <2>2, Suffix
<1>. QED  BY <1>1, <1>2, <1>4, Zenon DEF RestOK

\* Where the walk is, in the block as it was and as it is.
Walking(i, n) ==
  /\ BB \in DOMAIN code /\ BB \in Range(rest) /\ i = Cut(BB) /\ Walked(BB, i)
  /\ Len(input.code[BB]) \in Nat /\ Len(code[BB]) \in Nat
  /\ at \in 1..Len(code[BB]) /\ i \in 1..Len(input.code[BB])
  /\ at = i + Len(code[BB]) - Len(input.code[BB])
  /\ DOMAIN input.code[BB] = 1..Len(input.code[BB]) /\ DOMAIN code[BB] = 1..Len(code[BB])
  /\ n = code[BB][at] /\ n = input.code[BB][i] /\ n \in DOMAIN inst /\ n \in DOMAIN input.inst
  /\ i \in Found(BB) <=> Candidate(inst[n])
  /\ i \in Selected(BB) <=> Candidate(inst[n]) /\ (Head(passes) = "add" => Draws(drawn))

LEMMA WalkedBlock ==
  ASSUME IInv, pc = "insts"
  PROVE  /\ rest # <<>> /\ BB \in DOMAIN code /\ BB \in Range(rest) /\ Walked(BB, Cut(BB))
         /\ BlockOK(code, inst, BB) /\ BlockOK(input.code, input.inst, BB)
         /\ at \in 1..(Len(code[BB]) + 1) /\ Cut(BB) \in 1..(Len(input.code[BB]) + 1)
<1>1. rest # <<>> /\ RestOK(rest) /\ prog \in Programs /\ DOMAIN code = DOMAIN prog.code
  BY DEF IInv, TypeOK, RestOK
<1>2. BB \in DOMAIN code /\ BB \in Range(rest)
  BY <1>1, RestFacts DEF BB
<1>3. Walked(BB, Cut(BB))
  BY <1>2 DEF IInv, Progress
<1>4. BlockOK(code, inst, BB) /\ BlockOK(input.code, input.inst, BB)
  BY <1>2, ValidBlocks DEF IInv, TypeOK
<1>5. at \in 1..(Len(code[BB]) + 1)
  BY DEF IInv, TypeOK
<1>6. Cut(BB) \in 1..(Len(input.code[BB]) + 1)
  BY <1>3 DEF Walked, Rewritten
<1>. QED  BY <1>1, <1>2, <1>3, <1>4, <1>5, <1>6

LEMMA WalkingFacts ==
  ASSUME IInv, InBlock
  PROVE  Walking(Cut(BB), Inst)
<1>1. pc = "insts" /\ at <= Len(code[BB])
  BY DEF InBlock
<1>2. /\ BB \in DOMAIN code /\ BB \in Range(rest) /\ Walked(BB, Cut(BB))
      /\ BlockOK(code, inst, BB) /\ BlockOK(input.code, input.inst, BB)
      /\ at \in 1..(Len(code[BB]) + 1) /\ Cut(BB) \in 1..(Len(input.code[BB]) + 1)
  BY <1>1, WalkedBlock
<1>3. PICK new : new = code[BB]
  OBVIOUS
<1>4. PICK old : old = input.code[BB]
  OBVIOUS
<1>5. PICK i : i = Cut(BB)
  OBVIOUS
<1>6. PICK N \in Nat : N = Len(new) /\ DOMAIN new = 1..N
  BY <1>2, <1>3 DEF BlockOK
<1>7. PICK M \in Nat : M = Len(old) /\ DOMAIN old = 1..M
  BY <1>2, <1>4 DEF BlockOK
<1>8. at \in 1..N /\ i = at + M - N
  BY <1>1, <1>2, <1>3, <1>4, <1>5, <1>6, <1>7 DEF Cut
<1>9. i \in 1..M /\ at = i + N - M
  <2>1. i \in 1..(M + 1)
    BY <1>2, <1>4, <1>5, <1>7
  <2>. QED  BY <1>8, <2>1
<1>10. new[at] = old[i]
  <2>1. \A k \in i..M : new[k + N - M] = old[k]
    BY <1>2, <1>3, <1>4, <1>5, <1>6, <1>7, Zenon DEF Walked, Rewritten
  <2>2. i \in i..M
    BY <1>9
  <2>. QED  BY <1>9, <2>1, <2>2
<1>11. PICK n : n = Inst
  OBVIOUS
<1>12. /\ n = new[at] /\ n = old[i] /\ n \in DOMAIN inst /\ n \in DOMAIN input.inst
  <2>1. new[at] \in DOMAIN inst
    BY <1>2, <1>3, <1>6, <1>8 DEF BlockOK
  <2>2. old[i] \in DOMAIN input.inst
    BY <1>2, <1>4, <1>7, <1>9 DEF BlockOK
  <2>. QED  BY <1>3, <1>10, <1>11, <2>1, <2>2 DEF Inst
<1>13. Candidate(input.inst[n]) <=> Candidate(inst[n])
  BY <1>1, <1>12 DEF IInv, KindsKept, Candidate, IsAdd, IsSub
<1>14. i \in Found(BB) <=> Candidate(inst[n])
  BY <1>4, <1>7, <1>9, <1>12, <1>13 DEF Found
<1>15. i \in Selected(BB) <=> Candidate(inst[n]) /\ (Head(passes) = "add" => Draws(drawn))
  <2>1. i \in Selected(BB) <=> i \in Found(BB) /\ Draws(Cardinality({j \in Found(BB) : j < i}))
    BY DEF Selected
  <2>2. CASE Head(passes) = "add"
    <3>1. drawn = Cardinality({j \in Found(BB) : j < i})
      BY <1>1, <1>5, <2>2 DEF IInv, Progress
    <3>. QED  BY <1>14, <2>1, <2>2, <3>1
  <2>3. CASE Head(passes) # "add"
    <3>1. Head(passes) \in {"add", "sub"}
      BY <1>1 DEF IInv, TypeOK
    <3>. QED  BY <1>14, <2>1, <2>3, <3>1 DEF Draws
  <2>. QED  BY <2>2, <2>3
<1>. QED
  BY <1>2, <1>3, <1>4, <1>5, <1>6, <1>7, <1>8, <1>9, <1>11, <1>12, <1>14, <1>15, Zenon DEF Walking
-----------------------------------------------------------------------------
(***************************************************************************)
(* The steps that leave the function as it is.                             *)
(***************************************************************************)
LEMMA SelectionStays ==
  ASSUME UNCHANGED <<above, passes, input>>, NEW b, NEW i
  PROVE  /\ Found(b)' = Found(b) /\ Selected(b)' = Selected(b) /\ Gone(b, i)' = Gone(b, i)
<1>1. Found(b)' = Found(b)
  BY DEF Found, Candidate, IsAdd, IsSub
<1>2. \A k : Draws(k)' = Draws(k)
  BY DEF Draws, Above
<1>3. Selected(b)' = Selected(b)
  BY <1>1, <1>2 DEF Selected
<1>4. Gone(b, i)' = Gone(b, i)
  BY <1>3 DEF Gone
<1>. QED  BY <1>1, <1>3, <1>4

LEMMA WalkedStays ==
  ASSUME UNCHANGED <<above, passes, input>>, NEW b, code'[b] = code[b], NEW i
  PROVE  Walked(b, i)' <=> Walked(b, i)
<1>1. PICK gone : gone = Gone(b, i)
  OBVIOUS
<1>2. Gone(b, i)' = gone
  BY <1>1, SelectionStays
<1>3. PICK old : old = input.code[b]
  OBVIOUS
<1>4. PICK new : new = code[b]
  OBVIOUS
<1>5. Walked(b, i) <=> Rewritten(old, new, gone, i)
  BY <1>1, <1>3, <1>4 DEF Walked
<1>6. Walked(b, i)' <=> Rewritten(old, new, gone, i)'
  BY <1>2, <1>3, <1>4 DEF Walked
<1>7. Rewritten(old, new, gone, i)' <=> Rewritten(old, new, gone, i)
  BY DEF Rewritten, Id
<1>. QED  BY <1>5, <1>6, <1>7

\* What the invariant says besides TypeOK and Progress.
Static ==
  /\ prog \in Programs
  /\ DOMAIN input.code = DOMAIN code /\ Valid(prog.params, input.code, input.inst)
  /\ (pc # "run" => passes # <<>>)
  /\ NamesOlder /\ NamesFresh /\ KindsKept

LEMMA StaticStays ==
  ASSUME Static, UNCHANGED <<prog, passes, input, function>>, pc # "run", pc' # "run"
  PROVE  Static'
<1>1. /\ prog' \in Programs /\ DOMAIN input'.code = DOMAIN code' /\ passes' # <<>>
      /\ Valid(prog.params, input.code, input.inst)'
  <2>1. prog' = prog /\ input' = input /\ code' = code /\ passes' = passes
    BY DEF function
  <2>2. Valid(prog.params, input.code, input.inst)
    BY DEF Static
  <2>3. Valid(prog'.params, input'.code, input'.inst)
    BY <2>1, <2>2
  <2>4. Valid(prog.params, input.code, input.inst)'
    BY <2>3
  <2>. QED  BY <2>1, <2>4 DEF Static
<1>2. NamesOlder'
  BY DEF Static, NamesOlder, Values, function
<1>3. NamesFresh'
  BY DEF Static, NamesFresh, Id, function
<1>4. KindsKept'
  BY DEF Static, KindsKept, function
<1>. QED  BY <1>1, <1>2, <1>3, <1>4 DEF Static

\* The walk passes an instruction that is not selected.
LEMMA PassKeeps ==
  ASSUME IInv, InBlock, UNCHANGED <<prog, above, passes, input, function, pc, rest, Changed, preserved>>,
         at' = at + 1, drawn' \in Nat, Cut(BB) \notin Selected(BB),
         Head(passes) = "add" => drawn' = IF Cut(BB) \in Found(BB) THEN drawn + 1 ELSE drawn
  PROVE  IInv'
<1>1. PICK i : i = Cut(BB)
  OBVIOUS
<1>2. PICK n : n = Inst
  OBVIOUS
<1>3. Walking(i, n)
  BY <1>1, <1>2, WalkingFacts
<1>4. pc = "insts" /\ pc' = "insts" /\ BB' = BB
  BY DEF InBlock, BB
<1>5. Static'
  BY <1>4, StaticStays DEF IInv, Static
<1>6. TypeOK'
  <2>1. at' \in 1..(Len(code[BB]) + 1)
    <3>1. PICK N : N = Len(code[BB])
      OBVIOUS
    <3>2. N \in Nat /\ at \in 1..N
      BY <1>3, <3>1 DEF Walking
    <3>. QED  BY <3>1, <3>2
  <2>2. DOMAIN code' = DOMAIN prog'.code /\ Valid(prog.params, code, inst)'
    <3>1. prog' = prog /\ code' = code /\ inst' = inst
      BY DEF function
    <3>2. Valid(prog.params, code, inst) /\ DOMAIN code = DOMAIN prog.code
      BY DEF IInv, TypeOK
    <3>3. Valid(prog'.params, code', inst')
      BY <3>1, <3>2
    <3>. QED  BY <3>1, <3>2, <3>3
  <2>. QED  BY <1>4, <2>1, <2>2 DEF IInv, TypeOK, function
<1>7. Cut(BB)' = i + 1
  BY <1>1, <1>3, <1>4 DEF Walking, Cut, function
<1>8. Walked(BB, i + 1)
  <2>1. i \in 1..Len(input.code[BB]) /\ Len(input.code[BB]) \in Nat
        /\ Rewritten(input.code[BB], code[BB], Gone(BB, i), i)
    BY <1>3 DEF Walking, Walked
  <2>2. Gone(BB, i) = Gone(BB, i + 1)
    <3>1. Selected(BB) \subseteq 1..Len(input.code[BB]) /\ i \notin Selected(BB)
      BY <1>1, <1>3 DEF Selected, Found, Walking
    <3>2. \A k \in Selected(BB) : k < i <=> k < i + 1
      BY <2>1, <3>1
    <3>. QED  BY <3>2 DEF Gone
  <2>. QED  BY <2>1, <2>2, RewrittenSkip DEF Walked
<1>9. ASSUME NEW b \in DOMAIN code'
      PROVE  IF b \notin Range(rest) THEN Walked(b, Len(input.code[b]) + 1)'
             ELSE IF b = BB THEN Walked(BB, i + 1)'
             ELSE code'[b] = input'.code[b]
  <2>1. b \in DOMAIN code /\ code'[b] = code[b]
    BY <1>9 DEF function
  <2>2. \A j : Walked(b, j)' <=> Walked(b, j)
    BY <2>1, WalkedStays
  <2>3. BB \in Range(rest)
    BY <1>3 DEF Walking
  <2>. QED  BY <1>4, <1>8, <2>1, <2>2, <2>3 DEF IInv, Progress
<1>10. Head(passes) = "add" => drawn' = Cardinality({k \in Found(BB) : k < i + 1})
  <2>1. SUFFICES ASSUME Head(passes) = "add" PROVE drawn' = Cardinality({k \in Found(BB) : k < i + 1})
    OBVIOUS
  <2>2. PICK M \in Nat : i \in 1..M /\ Found(BB) \subseteq 1..M
    BY <1>3 DEF Walking, Found
  <2>3. PICK S : S = {k \in Found(BB) : k < i}
    OBVIOUS
  <2>4. IsFiniteSet(S) /\ i \notin S /\ drawn = Cardinality(S)
    <3>1. S \subseteq 1..M /\ i \notin S
      BY <2>2, <2>3
    <3>2. IsFiniteSet(1..M)
      BY FS_Interval
    <3>3. drawn = Cardinality(S)
      BY <1>1, <1>4, <2>1, <2>3 DEF IInv, Progress
    <3>. QED  BY <3>1, <3>2, <3>3, FS_Subset
  <2>5. CASE i \in Found(BB)
    <3>1. {k \in Found(BB) : k < i + 1} = S \cup {i}
      BY <2>2, <2>3, <2>5
    <3>. QED  BY <1>1, <2>1, <2>4, <2>5, <3>1, FS_AddElement
  <2>6. CASE i \notin Found(BB)
    <3>1. {k \in Found(BB) : k < i + 1} = S
      BY <2>2, <2>3, <2>6
    <3>. QED  BY <1>1, <2>1, <2>4, <2>6, <3>1
  <2>. QED  BY <2>5, <2>6
<1>11. Progress'
  <2>1. Found(BB)' = Found(BB)
    <3>1. UNCHANGED <<above, passes, input>>
      OBVIOUS
    <3>2. \A b : Found(b)' = Found(b)
      BY <3>1, SelectionStays
    <3>. QED  BY <1>4, <3>2 DEF Found
  <2>2. ASSUME Head(passes') = "add" PROVE drawn' = Cardinality({k \in Found(BB) : k < Cut(BB)})'
    BY <1>4, <1>7, <1>10, <2>1, <2>2
  <2>3. ASSUME NEW b \in DOMAIN code'
        PROVE  IF b \notin Range(rest)' THEN Walked(b, Len(input.code[b]) + 1)'
               ELSE IF (pc = "insts" /\ b = BB)' THEN Walked(b, Cut(BB))'
               ELSE (code[b] = input.code[b])'
    BY <1>4, <1>7, <1>9
  <2>. QED  BY <2>2, <2>3 DEF Progress
<1>. QED  BY <1>5, <1>6, <1>11 DEF IInv, Static

LEMMA SkipOtherKeeps == IInv /\ SkipOther => IInv'
<1> SUFFICES ASSUME IInv, SkipOther PROVE IInv'
  OBVIOUS
<1>1. InBlock /\ ~Candidate(inst[Inst]) /\ at' = at + 1 /\ drawn' = drawn
  BY DEF SkipOther
<1>2. Walking(Cut(BB), Inst)
  BY <1>1, WalkingFacts
<1>3. Cut(BB) \notin Selected(BB) /\ Cut(BB) \notin Found(BB)
  BY <1>1, <1>2 DEF Walking
<1>4. UNCHANGED <<prog, above, passes, input, function, pc, rest, Changed, preserved>>
  BY DEF SkipOther
<1>5. drawn' \in Nat
  BY <1>1 DEF IInv, TypeOK
<1>. QED  BY <1>1, <1>3, <1>4, <1>5, PassKeeps

LEMMA SkipDrawnKeeps == IInv /\ SkipDrawn => IInv'
<1> SUFFICES ASSUME IInv, SkipDrawn PROVE IInv'
  OBVIOUS
<1>1. /\ InBlock /\ Candidate(inst[Inst]) /\ ~Draws(drawn)
      /\ at' = at + 1 /\ drawn' = drawn + 1
  BY DEF SkipDrawn
<1>2. Walking(Cut(BB), Inst)
  BY <1>1, WalkingFacts
<1>3. Head(passes) = "add"
  <2>1. Head(passes) \in {"add", "sub"}
    BY <1>1 DEF IInv, TypeOK, InBlock
  <2>. QED  BY <1>1, <2>1 DEF Draws
<1>4. Cut(BB) \notin Selected(BB) /\ Cut(BB) \in Found(BB)
  BY <1>1, <1>2, <1>3 DEF Walking
<1>5. UNCHANGED <<prog, above, passes, input, function, pc, rest, Changed, preserved>>
  BY DEF SkipDrawn
<1>6. drawn' \in Nat
  BY <1>1 DEF IInv, TypeOK
<1>. QED  BY <1>1, <1>4, <1>5, <1>6, PassKeeps

LEMMA InitEstablishes ==
  ASSUME Opaque
  PROVE  Init => IInv
<1> SUFFICES ASSUME Init PROVE IInv
  OBVIOUS
<1>1. /\ prog \in Programs /\ code = prog.code /\ inst = prog.inst
      /\ input = [code |-> code, inst |-> inst]
      /\ pc = "run" /\ rest = <<>> /\ passes \in Pipelines
  BY DEF Init
<1>2. /\ prog.layout \in Seq(DOMAIN prog.code) /\ Valid(prog.params, prog.code, prog.inst)
  BY <1>1, ProgramAssumption
<1>3. input.code = code /\ input.inst = inst
  BY <1>1
<1>4. rest = SubSeq(prog.layout, Len(prog.layout) + 1, Len(prog.layout))
  <2>1. PICK N \in Nat : N = Len(prog.layout)
    BY <1>2
  <2>2. N + 1 \in Int /\ N \in Int /\ N < N + 1
    OBVIOUS
  <2>3. SubSeq(prog.layout, N + 1, N) = <<>>
    BY <2>2, SubSeqEmpty, Zenon
  <2>. QED  BY <1>1, <2>1, <2>3
<1>5. TypeOK
  BY <1>1, <1>2, <1>4, PipelinesAssumption DEF Init, TypeOK
<1>6. NamesOlder
  BY <1>1 DEF Opaque, NamesOlder, Values
<1>7. NamesFresh /\ KindsKept /\ Progress
  BY <1>1 DEF NamesFresh, KindsKept, Progress
<1>. QED  BY <1>1, <1>2, <1>3, <1>5, <1>6, <1>7 DEF IInv

LEMMA StartPassKeeps == IInv /\ StartPass => IInv'
<1> SUFFICES ASSUME IInv, StartPass PROVE IInv'
  OBVIOUS
<1>1. /\ pc = "run" /\ passes # <<>> /\ pc' = "blocks" /\ rest' = prog.layout /\ Changed' = FALSE
      /\ input' = [code |-> code, inst |-> inst]
      /\ prog' = prog /\ above' = above /\ passes' = passes /\ code' = code /\ inst' = inst
      /\ at' = at /\ drawn' = drawn /\ preserved' = preserved
  BY DEF StartPass, function
<1>2. input'.code = code' /\ input'.inst = inst'
  BY <1>1
<1>3. prog \in Programs /\ Valid(prog.params, code, inst) /\ DOMAIN code = DOMAIN prog.code
  BY DEF IInv, TypeOK
<1>4. /\ Valid(prog'.params, code', inst') /\ Valid(prog'.params, input'.code, input'.inst)
      /\ DOMAIN code' = DOMAIN prog'.code /\ DOMAIN input'.code = DOMAIN code'
  BY <1>1, <1>2, <1>3
<1>5. prog.layout \in Seq(DOMAIN code) /\ Range(prog.layout) = DOMAIN code
  BY <1>3, ProgramAssumption
<1>6. TypeOK'
  <2>1. \E k \in DOMAIN prog.layout \cup {Len(prog.layout) + 1} :
          rest' = SubSeq(prog.layout, k, Len(prog.layout))
    <3>1. PICK layout : layout = prog.layout
      OBVIOUS
    <3>2. layout \in Seq(DOMAIN code) /\ layout = SubSeq(layout, 1, Len(layout))
      BY <1>5, <3>1, SubSeqFull
    <3>3. 1 \in DOMAIN layout \cup {Len(layout) + 1}
      BY <3>2
    <3>. QED  BY <1>1, <3>1, <3>2, <3>3
  <2>. QED  BY <1>1, <1>4, <2>1 DEF IInv, TypeOK
<1>7. NamesOlder'
  BY <1>1 DEF IInv, NamesOlder, Values
<1>8. NamesFresh'
  <2>1. \A v \in Values : \A n, role : v # Id(n, role)
    <3>1. Len(passes) \in Nat
      BY DEF IInv, TypeOK
    <3>. QED  BY <1>1, <3>1 DEF IInv, NamesOlder, Id
  <2>2. \A n, role : Id(n, role)' = Id(n, role)
    BY <1>1 DEF Id
  <2>. QED  BY <1>1, <1>2, <2>1, <2>2 DEF NamesFresh, Values
<1>9. KindsKept'
  BY <1>2 DEF KindsKept
<1>10. Progress'
  <2>1. Range(rest') = DOMAIN code'
    BY <1>1, <1>5
  <2>. QED  BY <1>1, <1>2, <2>1 DEF Progress
<1>. QED  BY <1>1, <1>3, <1>4, <1>6, <1>7, <1>8, <1>9, <1>10 DEF IInv

LEMMA StartBlockKeeps == IInv /\ StartBlock => IInv'
<1> SUFFICES ASSUME IInv, StartBlock PROVE IInv'
  OBVIOUS
<1>1. /\ pc = "blocks" /\ rest # <<>> /\ pc' = "insts" /\ at' = 1 /\ drawn' = 0
      /\ input' = input /\ rest' = rest /\ Changed' = Changed /\ preserved' = preserved
      /\ prog' = prog /\ above' = above /\ passes' = passes /\ code' = code /\ inst' = inst
  BY DEF StartBlock, function
<1>2. BB' = BB /\ BB \in DOMAIN code /\ BB \in Range(rest)
  <2>1. RestOK(rest) /\ prog \in Programs /\ DOMAIN code = DOMAIN prog.code
    BY DEF IInv, TypeOK, RestOK
  <2>. QED  BY <1>1, <2>1, RestFacts DEF BB
<1>3. code[BB] = input.code[BB]
  BY <1>1, <1>2 DEF IInv, Progress
<1>4. BlockOK(code, inst, BB)
  BY <1>2, ValidBlocks DEF IInv, TypeOK
<1>5. Static'
  <2>1. UNCHANGED <<prog, passes, input, function>> /\ pc # "run" /\ pc' # "run"
    BY <1>1 DEF function
  <2>. QED  BY <2>1, StaticStays DEF IInv, Static
<1>6. TypeOK'
  <2>1. Valid(prog'.params, code', inst')
    BY <1>1 DEF IInv, TypeOK
  <2>2. 1 \in 1..(Len(code[BB]) + 1)
    BY <1>4 DEF BlockOK
  <2>. QED  BY <1>1, <1>2, <2>1, <2>2 DEF IInv, TypeOK
<1>7. Cut(BB)' = 1
  BY <1>1, <1>2, <1>3, <1>4 DEF Cut, BlockOK
<1>8. Found(BB) \subseteq Nat \ {0}
  BY <1>3, <1>4 DEF Found, BlockOK
<1>9. Walked(BB, 1)
  <2>1. Gone(BB, 1) = {}
    BY <1>8 DEF Gone, Selected
  <2>2. PICK old : old = code[BB]
    OBVIOUS
  <2>3. old \in Seq(DOMAIN inst) /\ \A k, l \in DOMAIN old : old[k] = old[l] => k = l
    BY <1>4, <2>2 DEF BlockOK
  <2>4. Rewritten(old, old, {}, 1)
    BY <2>3, RewrittenStart
  <2>. QED  BY <1>3, <2>1, <2>2, <2>4 DEF Walked
<1>10. Progress'
  <2>1. UNCHANGED <<above, passes, input>>
    BY <1>1
  <2>2. \A b, i : code'[b] = code[b] => (Walked(b, i)' <=> Walked(b, i))
    BY <2>1, WalkedStays
  <2>3. \A b, i : Walked(b, i)' <=> Walked(b, i)
    BY <1>1, <2>2
  <2>4. drawn' = Cardinality({k \in Found(BB) : k < Cut(BB)})'
    <3>1. Found(BB)' = Found(BB)
      BY <1>2, <2>1, SelectionStays DEF Found
    <3>2. {k \in Found(BB)' : k < Cut(BB)'} = {}
      BY <1>7, <1>8, <3>1
    <3>. QED  BY <1>1, <3>2, FS_EmptySet
  <2>5. ASSUME NEW b \in DOMAIN code'
        PROVE  IF b \notin Range(rest)' THEN Walked(b, Len(input.code[b]) + 1)'
               ELSE IF (pc = "insts" /\ b = BB)' THEN Walked(b, Cut(BB))'
               ELSE (code[b] = input.code[b])'
    <3>1. CASE b \notin Range(rest)
      <4>1. Walked(b, Len(input.code[b]) + 1)
        BY <1>1, <2>5, <3>1 DEF IInv, Progress
      <4>. QED  BY <1>1, <2>3, <3>1, <4>1
    <3>2. CASE b = BB
      BY <1>1, <1>2, <1>7, <1>9, <2>3, <3>2
    <3>3. CASE b \in Range(rest) /\ b # BB
      BY <1>1, <1>2, <2>5, <3>3 DEF IInv, Progress
    <3>. QED  BY <3>1, <3>2, <3>3
  <2>. QED  BY <2>4, <2>5 DEF Progress
<1>. QED  BY <1>5, <1>6, <1>10 DEF IInv, Static

LEMMA EndBlockKeeps == IInv /\ EndBlock => IInv'
<1> SUFFICES ASSUME IInv, EndBlock PROVE IInv'
  OBVIOUS
<1>1. /\ pc = "insts" /\ at > Len(code[BB]) /\ pc' = "blocks" /\ rest' = Tail(rest)
      /\ input' = input /\ at' = at /\ drawn' = drawn /\ Changed' = Changed /\ preserved' = preserved
      /\ prog' = prog /\ above' = above /\ passes' = passes /\ code' = code /\ inst' = inst
  BY DEF EndBlock, function
<1>2. /\ rest # <<>> /\ BB \in DOMAIN code /\ BB \in Range(rest) /\ Walked(BB, Cut(BB))
      /\ BlockOK(code, inst, BB) /\ BlockOK(input.code, input.inst, BB)
      /\ at \in 1..(Len(code[BB]) + 1)
  BY <1>1, WalkedBlock
<1>3. RestOK(rest) /\ prog \in Programs /\ DOMAIN code = DOMAIN prog.code
  BY DEF IInv, TypeOK, RestOK
<1>4. RestOK(Tail(rest)) /\ Range(Tail(rest)) = Range(rest) \ {BB}
  BY <1>2, <1>3, RestFacts DEF BB
<1>5. Static'
  <2>1. UNCHANGED <<prog, passes, input, function>> /\ pc # "run" /\ pc' # "run"
    BY <1>1 DEF function
  <2>. QED  BY <2>1, StaticStays DEF IInv, Static
<1>6. TypeOK'
  <2>1. Valid(prog'.params, code', inst')
    BY <1>1 DEF IInv, TypeOK
  <2>. QED  BY <1>1, <1>4, <2>1 DEF IInv, TypeOK, RestOK
<1>7. Walked(BB, Len(input.code[BB]) + 1)
  <2>1. Cut(BB) = Len(input.code[BB]) + 1
    <3>1. PICK N \in Nat : N = Len(code[BB])
      BY <1>2 DEF BlockOK
    <3>2. PICK M \in Nat : M = Len(input.code[BB])
      BY <1>2 DEF BlockOK
    <3>3. at = N + 1
      BY <1>1, <1>2, <3>1
    <3>4. (N + 1) + M - N = M + 1
      OBVIOUS
    <3>5. Cut(BB) = (N + 1) + M - N
      BY <3>1, <3>2, <3>3 DEF Cut
    <3>. QED  BY <3>2, <3>4, <3>5
  <2>. QED  BY <1>2, <2>1
<1>8. Progress'
  <2>1. UNCHANGED <<above, passes, input>>
    BY <1>1
  <2>2. \A b, i : code'[b] = code[b] => (Walked(b, i)' <=> Walked(b, i))
    BY <2>1, WalkedStays
  <2>3. \A b, i : Walked(b, i)' <=> Walked(b, i)
    BY <1>1, <2>2
  <2>4. ASSUME NEW b \in DOMAIN code'
        PROVE  IF b \notin Range(rest)' THEN Walked(b, Len(input.code[b]) + 1)'
               ELSE (code[b] = input.code[b])'
    <3>1. CASE b = BB
      BY <1>1, <1>4, <1>7, <2>3, <3>1
    <3>2. CASE b \notin Range(rest)
      <4>1. Walked(b, Len(input.code[b]) + 1)
        BY <1>1, <2>4, <3>2 DEF IInv, Progress
      <4>. QED  BY <1>1, <1>4, <2>3, <3>2, <4>1
    <3>3. CASE b \in Range(rest) /\ b # BB
      BY <1>1, <1>4, <2>4, <3>3 DEF IInv, Progress
    <3>. QED  BY <3>1, <3>2, <3>3
  <2>. QED  BY <1>1, <2>4 DEF Progress
<1>. QED  BY <1>5, <1>6, <1>8 DEF IInv, Static

LEMMA EndPassKeeps == IInv /\ EndPass => IInv'
<1> SUFFICES ASSUME IInv, EndPass PROVE IInv'
  OBVIOUS
<1>1. /\ pc = "blocks" /\ rest = <<>> /\ pc' = "run" /\ passes' = Tail(passes)
      /\ preserved' \in {"all", "none"}
      /\ input' = input /\ rest' = rest /\ at' = at /\ drawn' = drawn /\ Changed' = Changed
      /\ prog' = prog /\ above' = above /\ code' = code /\ inst' = inst
  BY DEF EndPass, function, walk
<1>2. passes \in Seq({"add", "sub"}) /\ passes # <<>>
  BY <1>1 DEF IInv, TypeOK
<1>3. passes' \in Seq({"add", "sub"}) /\ Len(passes') = Len(passes) - 1 /\ Len(passes) \in Nat
  BY <1>1, <1>2
<1>4. /\ Valid(prog'.params, code', inst') /\ Valid(prog'.params, input'.code, input'.inst)
  BY <1>1 DEF IInv, TypeOK
<1>5. TypeOK'
  BY <1>1, <1>3, <1>4 DEF IInv, TypeOK
<1>6. NamesOlder'
  <2>1. ASSUME NEW v \in Values, NEW n, NEW role, NEW k, v = <<n, role, k>>
        PROVE  k \in Nat /\ k >= Len(passes') /\ k > Len(passes')
    <3>1. k \in Nat /\ k >= Len(passes)
      BY <2>1 DEF IInv, NamesOlder
    <3>2. PICK N \in Nat : N = Len(passes)
      BY <1>3
    <3>3. Len(passes') = N - 1
      BY <1>3, <3>2
    <3>. QED  BY <3>1, <3>2, <3>3
  <2>2. \A v \in Values : v \notin Consts
    BY DEF IInv, NamesOlder
  <2>3. Values' = Values
    BY <1>1 DEF Values
  <2>. QED  BY <2>1, <2>2, <2>3 DEF NamesOlder
<1>. QED  BY <1>1, <1>4, <1>5, <1>6 DEF IInv, NamesFresh, KindsKept, Progress
-----------------------------------------------------------------------------
(***************************************************************************)
(* The steps that replace an instruction.                                  *)
(***************************************************************************)
\* A candidate can be replaced by what is made of its operands.
LEMMA CanReplace ==
  ASSUME IInv, InBlock, Candidate(inst[Inst]),
         NEW given, given = {Ops(Inst)[1], Ops(Inst)[2]} \cup Consts
  PROVE  /\ Replacing(Inst, given) /\ inst[Inst].bits \in Widths /\ at \in Nat
         /\ \A role : Id(Inst, role) \notin DOMAIN inst
         /\ \A v \in given : \A role : v # Id(Inst, role)
<1>1. PICK n : n = Inst
  OBVIOUS
<1>2. Walking(Cut(BB), n)
  BY <1>1, WalkingFacts
<1>3. pc = "insts" /\ Valid(prog.params, code, inst)
  BY DEF InBlock, IInv, TypeOK
<1>4. /\ BB \in DOMAIN code /\ at \in DOMAIN code[BB] /\ n = code[BB][at] /\ at \in Nat
      /\ n \in DOMAIN inst /\ n \in DOMAIN input.inst
  BY <1>2 DEF Walking
<1>5. inst[n].kind \in {"add", "sub"}
  BY <1>1 DEF Candidate, IsAdd, IsSub
<1>6. inst[n] \in Instructions(Consts \cup prog.params \cup DOMAIN code \cup DOMAIN inst)
  BY <1>3, <1>4 DEF Valid
<1>7. Len(inst[n].ops) = 2
  BY <1>3, <1>4, <1>5 DEF Valid
<1>8. inst[n].bits \in Widths
  BY <1>6 DEF Instructions
<1>9. given \subseteq Range(Ops(n)) \cup Consts
  <2>1. 1 \in DOMAIN inst[n].ops /\ 2 \in DOMAIN inst[n].ops
    BY <1>6, <1>7 DEF Instructions
  <2>. QED  BY <1>1, <2>1 DEF Range, Ops
\* None of the names is taken: n itself would have been replaced.
<1>10. ASSUME NEW v \in Values, NEW role PROVE v # Id(n, role)
  <2>1. CASE v \in prog.params \cup DOMAIN code \cup DOMAIN input.inst
    BY <1>3, <2>1 DEF IInv, NamesFresh
  <2>2. CASE v \in DOMAIN inst \ DOMAIN input.inst
    <3>1. PICK m \in DOMAIN input.inst \ DOMAIN inst, other \in Roles : v = Id(m, other)
      BY <1>3, <2>2 DEF IInv, NamesFresh
    <3>2. m # n
      BY <1>4, <3>1
    <3>. QED  BY <3>1, <3>2, IdsDiffer
  <2>. QED  BY <2>1, <2>2 DEF Values
<1>11. \A v \in Values : v \notin Consts
  BY DEF IInv, NamesOlder
<1>12. Replacing(n, given)
  BY <1>3, <1>4, <1>5, <1>9, <1>10, <1>11 DEF Replacing
<1>13. \A role : Id(n, role) \notin DOMAIN inst
  BY <1>10 DEF Values
<1>14. ASSUME NEW v \in given, NEW role PROVE v # Id(n, role)
  <2>1. CASE v \in Consts
    BY <2>1, IdsAreNoConstants
  <2>2. CASE v \notin Consts
    <3>1. v \in Range(Ops(n))
      BY <1>9, <2>2
    <3>2. Range(Ops(n)) \subseteq Consts \cup Values
      <4>1. Ops(n) \in Seq(Consts \cup prog.params \cup DOMAIN code \cup DOMAIN inst)
        BY <1>6 DEF Instructions, Ops
      <4>. QED  BY <4>1 DEF Range, Values
    <3>. QED  BY <1>10, <2>2, <3>1, <3>2
  <2>. QED  BY <2>1, <2>2
<1>. QED  BY <1>1, <1>4, <1>8, <1>12, <1>13, <1>14

\* The step that replaces n, the candidate that the walk has come to.
Replacement(n, given, made) ==
  /\ IInv /\ InBlock /\ n = Inst /\ Replacing(n, given) /\ Replaced(n, given, made)
  /\ prog' = prog /\ above' = above /\ passes' = passes /\ input' = input
  /\ pc' = pc /\ rest' = rest /\ preserved' = preserved
  /\ Cut(BB) \in Selected(BB) /\ drawn' \in Nat
  /\ Head(passes) = "add" => drawn' = drawn + 1

\* What is made is new.
LEMMA MadeIsNew ==
  ASSUME NEW n, NEW given, NEW made, Replacement(n, given, made)
  PROVE  /\ DOMAIN inst' = (DOMAIN inst \ {n}) \cup Range(made)
         /\ n \in DOMAIN inst /\ n \in DOMAIN input.inst /\ n \notin DOMAIN inst'
         /\ \A v \in Range(made) : /\ v \notin DOMAIN inst \cup DOMAIN input.inst
                                   /\ \E role \in Roles : v = Id(n, role)
<1>1. DOMAIN inst' = (DOMAIN inst \ {n}) \cup Range(made)
  BY DEF Replacement, Replaced
<1>2. n \in DOMAIN inst /\ n \in DOMAIN input.inst
  BY WalkingFacts DEF Replacement, Walking
<1>3. ASSUME NEW v \in Range(made)
      PROVE  v \notin DOMAIN inst \cup DOMAIN input.inst /\ \E role \in Roles : v = Id(n, role)
  <2>1. PICK role \in Roles : v = Id(n, role)
    BY <1>3 DEF Replacement, Replaced, Range
  <2>2. v \notin DOMAIN inst
    BY <2>1 DEF Replacement, Replacing, Values
  <2>3. v \notin DOMAIN input.inst
    BY <2>1 DEF Replacement, IInv, NamesFresh, InBlock
  <2>. QED  BY <2>1, <2>2, <2>3
<1>. QED  BY <1>1, <1>2, <1>3

LEMMA ReplacementNames ==
  ASSUME NEW n, NEW given, NEW made, Replacement(n, given, made)
  PROVE  NamesOlder' /\ NamesFresh'
<1>1. /\ DOMAIN inst' = (DOMAIN inst \ {n}) \cup Range(made)
      /\ n \in DOMAIN inst /\ n \in DOMAIN input.inst /\ n \notin DOMAIN inst'
      /\ \A v \in Range(made) : /\ v \notin DOMAIN inst \cup DOMAIN input.inst
                                /\ \E role \in Roles : v = Id(n, role)
  BY MadeIsNew
<1>2. /\ prog' = prog /\ passes' = passes /\ input' = input /\ pc' = "insts" /\ pc = "insts"
      /\ DOMAIN code' = DOMAIN code
  BY DEF Replacement, Replaced, InBlock
<1>3. Values' \subseteq Values \cup Range(made)
  BY <1>1, <1>2 DEF Values
<1>4. NamesOlder /\ NamesFresh /\ Len(passes) \in Nat
  BY DEF Replacement, IInv, TypeOK
<1>5. ASSUME NEW v \in Values'
      PROVE  /\ v \notin Consts
             /\ \A m, role, k : v = <<m, role, k>> => k \in Nat /\ k >= Len(passes)
  <2>1. CASE v \in Values
    BY <1>4, <2>1 DEF NamesOlder
  <2>2. CASE v \in Range(made)
    <3>1. PICK role \in Roles : v = Id(n, role)
      BY <1>1, <2>2
    <3>2. v \notin Consts
      BY <3>1, IdsAreNoConstants
    <3>3. ASSUME NEW m, NEW other, NEW k, v = <<m, other, k>> PROVE k = Len(passes)
      BY <3>1, <3>3 DEF Id
    <3>. QED  BY <1>4, <3>2, <3>3
  <2>. QED  BY <1>3, <2>1, <2>2
<1>6. NamesOlder'
  BY <1>2, <1>5 DEF NamesOlder
<1>7. \A m, role : Id(m, role)' = Id(m, role)
  BY <1>2 DEF Id
<1>8. \A v \in prog.params \cup DOMAIN code \cup DOMAIN input.inst : \A m, role : v # Id(m, role)
  BY <1>2, <1>4 DEF NamesFresh
<1>9. ASSUME NEW v \in DOMAIN inst' \ DOMAIN input.inst
      PROVE  \E m \in DOMAIN input.inst \ DOMAIN inst', role \in Roles : v = Id(m, role)
  <2>1. CASE v \in Range(made)
    BY <1>1, <2>1
  <2>2. CASE v \in DOMAIN inst
    <3>1. PICK m \in DOMAIN input.inst \ DOMAIN inst, role \in Roles : v = Id(m, role)
      BY <1>2, <1>4, <1>9, <2>2 DEF NamesFresh
    <3>2. m \notin DOMAIN inst'
      BY <1>1, <3>1
    <3>. QED  BY <3>1, <3>2
  <2>. QED  BY <1>1, <2>1, <2>2
<1>10. NamesFresh'
  BY <1>2, <1>7, <1>8, <1>9 DEF NamesFresh
<1>. QED  BY <1>6, <1>10

LEMMA ReplacementKinds ==
  ASSUME NEW n, NEW given, NEW made, Replacement(n, given, made)
  PROVE  KindsKept'
<1>1. /\ DOMAIN inst' = (DOMAIN inst \ {n}) \cup Range(made)
      /\ \A v \in Range(made) : v \notin DOMAIN input.inst
  BY MadeIsNew
<1>2. input' = input /\ pc = "insts" /\ KindsKept /\ Valid(prog.params, code, inst)
  BY DEF Replacement, InBlock, IInv, TypeOK
<1>3. ASSUME NEW m \in DOMAIN inst' \cap DOMAIN input.inst
      PROVE  /\ inst'[m].kind = input.inst[m].kind /\ inst'[m].bits = input.inst[m].bits
             /\ inst'[m].integer = input.inst[m].integer
  <2>1. m \in DOMAIN inst \ {n}
    BY <1>1
  <2>2. PICK V : V = Consts \cup prog.params \cup DOMAIN code \cup DOMAIN inst
    OBVIOUS
  <2>3. inst[m] \in Instructions(V)
    BY <1>2, <2>1, <2>2 DEF Valid
  <2>4. inst'[m] = Renamed(inst[m], n, Id(n, "E"))
    BY <2>1 DEF Replacement, Replaced
  <2>5. RenamedOK(inst[m], inst'[m], V, n, Id(n, "E"))
    BY <2>3, <2>4, RenamedInstruction
  <2>6. /\ inst[m].kind = input.inst[m].kind /\ inst[m].bits = input.inst[m].bits
        /\ inst[m].integer = input.inst[m].integer
    BY <1>2, <2>1 DEF KindsKept
  <2>. QED  BY <2>5, <2>6 DEF RenamedOK
<1>. QED  BY <1>2, <1>3 DEF KindsKept

LEMMA ReplacementType ==
  ASSUME NEW n, NEW given, NEW made, Replacement(n, given, made)
  PROVE  TypeOK'
<1>1. Replacing(n, given) /\ Replaced(n, given, made) /\ IInv
  BY DEF Replacement
<1>2. /\ prog' = prog /\ above' = above /\ passes' = passes /\ pc' = "insts" /\ pc = "insts"
      /\ rest' = rest /\ preserved' = preserved /\ drawn' \in Nat /\ BB' = BB
  BY DEF Replacement, InBlock, BB
<1>3. Valid(prog'.params, code', inst')
  BY <1>1, <1>2, ReplacedValid
<1>4. DOMAIN code' = DOMAIN prog'.code /\ Changed' \in BOOLEAN
  BY <1>1, <1>2 DEF Replaced, IInv, TypeOK
<1>5. PICK N \in Nat : N = Len(code[BB]) /\ at \in 1..N
  BY WalkingFacts DEF Replacement, Walking
<1>6. PICK L \in Nat \ {0} : L = Len(made)
  BY <1>1, ReplacedNames DEF NamedOK
<1>7. Len(code'[BB]) = N + L - 1 /\ at' = at + L
  <2>1. PlacedOK(n, made)
    BY <1>1, ReplacedPlaces
  <2>2. Len(code'[BB]) = Len(code[BB]) + Len(made) - 1
    BY <2>1 DEF PlacedOK
  <2>3. at' = at + Len(made)
    BY <1>1 DEF Replaced
  <2>. QED  BY <1>5, <1>6, <2>2, <2>3
<1>8. at' \in 1..(Len(code'[BB]) + 1)
  BY <1>5, <1>6, <1>7
<1>. QED  BY <1>1, <1>2, <1>3, <1>4, <1>8 DEF IInv, TypeOK

\* The walk comes to the next place of the block as it was.
LEMMA ReplacementWalks ==
  ASSUME NEW n, NEW given, NEW made, Replacement(n, given, made)
  PROVE  Cut(BB)' = Cut(BB) + 1 /\ Walked(BB, Cut(BB))'
<1>1. /\ Replacing(n, given) /\ Replaced(n, given, made) /\ IInv /\ InBlock /\ n = Inst
      /\ BB' = BB /\ UNCHANGED <<above, passes, input>> /\ Cut(BB) \in Selected(BB)
  BY DEF Replacement, BB
<1>2. PICK i : i = Cut(BB)
  OBVIOUS
<1>3. Walking(i, n)
  BY <1>1, <1>2, WalkingFacts
<1>4. PICK old : old = input.code[BB]
  OBVIOUS
<1>5. PICK new : new = code[BB]
  OBVIOUS
<1>6. PICK next : next = code'[BB]
  OBVIOUS
<1>7. PICK gone : gone = Gone(BB, i)
  OBVIOUS
<1>8. PICK M \in Nat : M = Len(old) /\ DOMAIN old = 1..M
  BY <1>3, <1>4 DEF Walking
<1>9. PICK N \in Nat : N = Len(new) /\ DOMAIN new = 1..N
  BY <1>3, <1>5 DEF Walking
<1>10. /\ i \in 1..M /\ at \in 1..N /\ at = i + N - M /\ n = old[i] /\ n = new[at]
       /\ Rewritten(old, new, gone, i)
  BY <1>3, <1>4, <1>5, <1>7, <1>8, <1>9 DEF Walking, Walked
<1>11. /\ BlockOK(code, inst, BB) /\ BlockOK(input.code, input.inst, BB) /\ pc = "insts"
  BY <1>1, WalkedBlock DEF InBlock
<1>12. /\ \A p, q \in DOMAIN new : new[p] = new[q] => p = q
       /\ \A k, l \in DOMAIN old : old[k] = old[l] => k = l
       /\ old \in Seq(DOMAIN input.inst)
  BY <1>4, <1>5, <1>11 DEF BlockOK
<1>13. \A k, l \in DOMAIN old : \A role : old[k] # Id(old[l], role)
  <2>1. \A k \in DOMAIN old : old[k] \in DOMAIN input.inst
    BY <1>12
  <2>2. \A v \in DOMAIN input.inst : \A m, role : v # Id(m, role)
    BY <1>1, <1>11 DEF IInv, NamesFresh
  <2>. QED  BY <2>1, <2>2
<1>14. /\ made \in Seq({Id(old[i], role) : role \in Roles}) /\ made # <<>>
       /\ made[Len(made)] = Id(old[i], "E")
  BY <1>1, <1>10 DEF Replaced
<1>15. PICK L \in Nat \ {0} : L = Len(made) /\ DOMAIN made = 1..L
  BY <1>14
<1>16. PlacedOK(n, made)
  BY <1>1, ReplacedPlaces
<1>17. DOMAIN next = 1..Len(next) /\ Len(next) = N + L - 1
  BY <1>5, <1>6, <1>9, <1>15, <1>16 DEF PlacedOK
<1>18. Spliced(new, at, made, next)
  BY <1>5, <1>6, <1>9, <1>15, <1>16, <1>17 DEF PlacedOK, Spliced
<1>19. gone \in SUBSET DOMAIN old /\ Gone(BB, i + 1) = gone \cup {i}
  <2>1. Selected(BB) \subseteq 1..M /\ i \in Selected(BB)
    BY <1>1, <1>2, <1>4, <1>8 DEF Selected, Found
  <2>2. \A k \in 1..M : k < i + 1 <=> k < i \/ k = i
    BY <1>10
  <2>. QED  BY <1>7, <1>8, <2>1, <2>2 DEF Gone
<1>20. Rewritten(old, next, gone \cup {i}, i + 1)
  <2>1. i + Len(new) - Len(old) = at
    BY <1>8, <1>9, <1>10
  <2>2. Spliced(new, i + Len(new) - Len(old), made, next)
    BY <1>18, <2>1
  <2>3. i \in DOMAIN old /\ Len(new) \in Nat /\ DOMAIN new = 1..Len(new)
    BY <1>8, <1>9, <1>10
  <2>. QED  BY <1>10, <1>12, <1>13, <1>14, <1>17, <1>19, <2>2, <2>3, RewrittenStep
<1>21. Rewritten(old, next, gone \cup {i}, i + 1)'
  <2>1. Rewritten(old, next, gone \cup {i}, i + 1)' <=> Rewritten(old, next, gone \cup {i}, i + 1)
    BY <1>1 DEF Rewritten, Id
  <2>. QED  BY <1>20, <2>1
<1>22. Gone(BB, i + 1)' = gone \cup {i}
  <2>1. \A b, k : Gone(b, k)' = Gone(b, k)
    BY <1>1, SelectionStays
  <2>2. Gone(BB, i + 1)' = Gone(BB, i + 1)
    BY <1>1, <2>1 DEF Gone
  <2>. QED  BY <1>19, <2>2
<1>23. Walked(BB, i + 1)'
  BY <1>1, <1>4, <1>6, <1>21, <1>22 DEF Walked
<1>24. Cut(BB)' = i + 1
  <2>1. at' = at + L
    BY <1>1, <1>15 DEF Replaced
  <2>2. (at + L) + M - (N + L - 1) = i + 1
    BY <1>10
  <2>3. Cut(BB)' = at' + Len(input'.code[BB]) - Len(code'[BB])
    BY <1>1 DEF Cut
  <2>4. Cut(BB)' = (at + L) + M - (N + L - 1)
    BY <1>1, <1>4, <1>6, <1>8, <1>17, <2>1, <2>3
  <2>. QED  BY <2>2, <2>4
<1>25. Walked(BB, Cut(BB))'
  BY <1>23, <1>24 DEF Walked
<1>. QED  BY <1>2, <1>24, <1>25

LEMMA ReplacementProgress ==
  ASSUME NEW n, NEW given, NEW made, Replacement(n, given, made)
  PROVE  Progress'
<1>1. /\ IInv /\ Replaced(n, given, made) /\ UNCHANGED <<above, passes, input>>
      /\ pc = "insts" /\ pc' = "insts" /\ rest' = rest /\ BB' = BB
      /\ Cut(BB) \in Selected(BB) /\ (Head(passes) = "add" => drawn' = drawn + 1)
  BY DEF Replacement, BB, InBlock
<1>2. Cut(BB)' = Cut(BB) + 1 /\ Walked(BB, Cut(BB))'
  BY ReplacementWalks
<1>3. Walking(Cut(BB), n)
  BY WalkingFacts DEF Replacement
<1>4. DOMAIN code' = DOMAIN code /\ \A b \in DOMAIN code \ {BB} : code'[b] = code[b]
  BY <1>1 DEF Replaced
<1>5. ASSUME NEW b \in DOMAIN code'
      PROVE  IF b \notin Range(rest)' THEN Walked(b, Len(input.code[b]) + 1)'
             ELSE IF (pc = "insts" /\ b = BB)' THEN Walked(b, Cut(b))'
             ELSE (code[b] = input.code[b])'
  <2>1. CASE b = BB
    BY <1>1, <1>2, <1>3, <2>1 DEF Walking
  <2>2. CASE b # BB
    <3>1. b \in DOMAIN code /\ code'[b] = code[b]
      BY <1>4, <2>2
    <3>2. \A j : Walked(b, j)' <=> Walked(b, j)
      BY <1>1, <3>1, WalkedStays
    <3>. QED  BY <1>1, <2>2, <3>1, <3>2 DEF IInv, Progress
  <2>. QED  BY <2>1, <2>2
<1>6. ASSUME Head(passes) = "add"
      PROVE  drawn' = Cardinality({k \in Found(BB) : k < Cut(BB)})'
  <2>1. PICK i : i = Cut(BB)
    OBVIOUS
  <2>2. PICK M \in Nat : i \in 1..M /\ Found(BB) \subseteq 1..M
    BY <1>3, <2>1 DEF Walking, Found
  <2>3. PICK S : S = {k \in Found(BB) : k < i}
    OBVIOUS
  <2>4. IsFiniteSet(S) /\ i \notin S
    <3>1. S \subseteq 1..M /\ i \notin S
      BY <2>2, <2>3
    <3>2. IsFiniteSet(1..M)
      BY FS_Interval
    <3>. QED  BY <3>1, <3>2, FS_Subset
  <2>5. drawn = Cardinality(S)
    BY <1>1, <1>6, <2>1, <2>3 DEF IInv, Progress
  <2>6. {k \in Found(BB) : k < i + 1} = S \cup {i}
    BY <1>1, <2>1, <2>2, <2>3 DEF Selected
  <2>7. Found(BB)' = Found(BB)
    <3>1. \A b : Found(b)' = Found(b)
      BY <1>1, SelectionStays
    <3>. QED  BY <1>1, <3>1 DEF Found
  <2>8. Cut(BB)' = i + 1
    BY <1>2, <2>1
  <2>9. Cardinality(S \cup {i}) = Cardinality(S) + 1
    BY <2>4, FS_AddElement
  <2>. QED  BY <1>1, <1>6, <2>5, <2>6, <2>7, <2>8, <2>9
<1>. QED  BY <1>1, <1>5, <1>6 DEF Progress

LEMMA ReplacementKeeps ==
  ASSUME NEW n, NEW given, NEW made, Replacement(n, given, made)
  PROVE  IInv'
<1>1. /\ prog' = prog /\ input' = input /\ passes' = passes /\ DOMAIN code' = DOMAIN code
      /\ IInv /\ pc # "run"
  BY DEF Replacement, Replaced, InBlock
<1>2. Valid(prog'.params, input'.code, input'.inst)
  BY <1>1 DEF IInv
<1>3. TypeOK'
  BY ReplacementType
<1>4. NamesOlder' /\ NamesFresh' /\ KindsKept'
  BY ReplacementNames, ReplacementKinds
<1>5. Progress'
  BY ReplacementProgress
<1>. QED  BY <1>1, <1>2, <1>3, <1>4, <1>5 DEF IInv

LEMMA SubstituteAddKeeps == IInv /\ SubstituteAdd => IInv'
<1> SUFFICES ASSUME IInv, SubstituteAdd PROVE IInv'
  OBVIOUS
<1>1. PICK n : n = Inst
  OBVIOUS
<1>2. PICK a : a = Ops(n)[1]
  OBVIOUS
<1>3. PICK b : b = Ops(n)[2]
  OBVIOUS
<1>4. PICK given : given = {a, b} \cup Consts
  OBVIOUS
<1>5. /\ InBlock /\ Candidate(inst[n]) /\ Draws(drawn) /\ drawn' = drawn + 1
      /\ Substitute(n, AddSteps(n, a, b))
      /\ prog' = prog /\ above' = above /\ passes' = passes /\ input' = input
      /\ pc' = pc /\ rest' = rest /\ preserved' = preserved
  BY <1>1, <1>2, <1>3 DEF SubstituteAdd
<1>6. /\ Replacing(n, given) /\ inst[n].bits \in Widths /\ at \in Nat
      /\ \A role : Id(n, role) \notin DOMAIN inst
      /\ \A v \in given : \A role : v # Id(n, role)
  BY <1>1, <1>2, <1>3, <1>4, <1>5, CanReplace
<1>7. PICK steps : steps = AddSteps(n, a, b)
  OBVIOUS
<1>8. StepsOK(steps, given) /\ StepsFor(n, steps)
  BY <1>4, <1>6, <1>7, AddStepsOK
<1>9. PICK made : Replaced(n, given, made)
  <2>1. BB \in DOMAIN code /\ Consts \subseteq given
    BY <1>4, <1>6 DEF Replacing
  <2>. QED  BY <1>5, <1>6, <1>7, <1>8, <2>1, SubstituteReplaces
<1>10. Cut(BB) \in Selected(BB)
  BY <1>1, <1>5, WalkingFacts DEF Walking
<1>11. drawn' \in Nat
  BY <1>5 DEF IInv, TypeOK
<1>12. Replacement(n, given, made)
  BY <1>1, <1>5, <1>6, <1>9, <1>10, <1>11 DEF Replacement
<1>. QED  BY <1>12, ReplacementKeeps

LEMMA SubstituteSubKeeps == IInv /\ SubstituteSub => IInv'
<1> SUFFICES ASSUME IInv, SubstituteSub PROVE IInv'
  OBVIOUS
<1>1. PICK n : n = Inst
  OBVIOUS
<1>2. PICK a : a = Ops(n)[1]
  OBVIOUS
<1>3. PICK b : b = Ops(n)[2]
  OBVIOUS
<1>4. PICK given : given = {a, b} \cup Consts
  OBVIOUS
<1>5. /\ InBlock /\ Candidate(inst[n]) /\ Head(passes) = "sub" /\ drawn' = drawn
      /\ Substitute(n, SubSteps(n, a, b))
      /\ prog' = prog /\ above' = above /\ passes' = passes /\ input' = input
      /\ pc' = pc /\ rest' = rest /\ preserved' = preserved
  BY <1>1, <1>2, <1>3 DEF SubstituteSub
<1>6. /\ Replacing(n, given) /\ inst[n].bits \in Widths /\ at \in Nat
      /\ \A role : Id(n, role) \notin DOMAIN inst
      /\ \A v \in given : \A role : v # Id(n, role)
  BY <1>1, <1>2, <1>3, <1>4, <1>5, CanReplace
<1>7. PICK steps : steps = SubSteps(n, a, b)
  OBVIOUS
<1>8. StepsOK(steps, given) /\ StepsFor(n, steps)
  BY <1>4, <1>6, <1>7, SubStepsOK
<1>9. PICK made : Replaced(n, given, made)
  <2>1. BB \in DOMAIN code /\ Consts \subseteq given
    BY <1>4, <1>6 DEF Replacing
  <2>. QED  BY <1>5, <1>6, <1>7, <1>8, <2>1, SubstituteReplaces
<1>10. Cut(BB) \in Selected(BB)
  BY <1>1, <1>5, WalkingFacts DEF Walking
<1>11. drawn' \in Nat
  BY <1>5 DEF IInv, TypeOK
<1>12. Replacement(n, given, made)
  BY <1>1, <1>5, <1>6, <1>9, <1>10, <1>11 DEF Replacement
<1>. QED  BY <1>12, ReplacementKeeps
-----------------------------------------------------------------------------
\* A block that the walk has left is what SelectedReplaced says.
LEMMA WalkedIsReplaced ==
  ASSUME IInv, pc # "run", NEW b \in DOMAIN code, b \notin Range(rest)
  PROVE  /\ Listed(input.code[b], DOMAIN input.code[b] \ Selected(b))
              = Listed(code[b], {k \in DOMAIN code[b] : code[b][k] \in DOMAIN input.inst})
         /\ {n \in DOMAIN input.inst : Id(n, "E") \in Range(code[b])}
              = {input.code[b][k] : k \in Selected(b)}
         /\ \A v \in Range(code[b]) \ DOMAIN input.inst :
              \E k \in Selected(b) : v[1] = input.code[b][k]
<1>1. PICK s : s = input.code[b]
  OBVIOUS
<1>2. PICK t : t = code[b]
  OBVIOUS
<1>3. PICK G : G = Selected(b)
  OBVIOUS
<1>4. BlockOK(code, inst, b) /\ BlockOK(input.code, input.inst, b)
  BY ValidBlocks DEF IInv, TypeOK
<1>5. PICK M \in Nat : M = Len(s) /\ DOMAIN s = 1..M
  BY <1>1, <1>4 DEF BlockOK
<1>6. PICK N \in Nat : N = Len(t) /\ DOMAIN t = 1..N
  BY <1>2, <1>4 DEF BlockOK
<1>7. PICK I : I = DOMAIN input.inst
  OBVIOUS
<1>8. /\ \A k \in 1..M : s[k] \in I
      /\ \A k, l \in 1..M : s[k] = s[l] => k = l
      /\ \A p, q \in 1..N : t[p] = t[q] => p = q
  <2>1. \A k, l \in DOMAIN s : s[k] = s[l] => k = l
    BY <1>1, <1>4 DEF BlockOK
  <2>2. \A p, q \in DOMAIN t : t[p] = t[q] => p = q
    BY <1>2, <1>4 DEF BlockOK
  <2>3. s \in Seq(I)
    BY <1>1, <1>4, <1>7 DEF BlockOK
  <2>. QED  BY <1>5, <1>6, <2>1, <2>2, <2>3
<1>9. \A v \in I : \A n, role : v # Id(n, role)
  BY <1>7 DEF IInv, NamesFresh
<1>10. G \subseteq 1..M
  BY <1>1, <1>3, <1>5 DEF Selected, Found
<1>11. Gone(b, M + 1) = G
  <2>1. \A k \in 1..M : k < M + 1
    OBVIOUS
  <2>. QED  BY <1>3, <1>10, <2>1 DEF Gone
<1>12. Rewritten(s, t, G, M + 1)
  <2>1. Walked(b, M + 1)
    BY <1>1, <1>5 DEF IInv, Progress
  <2>. QED  BY <1>1, <1>2, <1>11, <2>1 DEF Walked
<1>13. PICK S \in SUBSET (1..M) : S = DOMAIN s \ G
  BY <1>5
<1>14. PICK T \in SUBSET (1..N) : T = {q \in DOMAIN t : t[q] \in I}
  BY <1>6
<1>15. /\ \A k \in S : \E q \in 1..N : t[q] = s[k]
       /\ \A q \in 1..N : \/ \E k \in S : t[q] = s[k]
                          \/ \E k \in G, role \in Roles : t[q] = Id(s[k], role)
       /\ \A k \in G : \E q \in 1..N : t[q] = Id(s[k], "E")
       /\ \A k, l \in 1..M : \A q, r \in 1..N : t[q] = s[k] /\ t[r] = s[l] /\ k < l => q < r
  BY <1>5, <1>6, <1>12, <1>13, Zenon DEF Rewritten
<1>16. Listed(s, S) = Listed(t, T)
  <2>1. \A j \in S : \E k \in T : s[j] = t[k]
    BY <1>6, <1>8, <1>14, <1>15
  <2>2. \A k \in T : \E j \in S : s[j] = t[k]
    BY <1>9, <1>14, <1>15
  <2>3. \A i, j \in S : s[i] = s[j] => i = j
    BY <1>8
  <2>4. \A k, l \in T : t[k] = t[l] => k = l
    BY <1>8
  <2>5. \A i, j \in S : \A k, l \in T : s[i] = t[k] /\ s[j] = t[l] /\ i < j => k < l
    BY <1>15
  <2>6. SameElements(s, S, t, T)
    BY <2>1, <2>2, <2>3, <2>4, <2>5 DEF SameElements
  <2>. QED  BY <2>6, SameSelection
<1>17. {n \in I : Id(n, "E") \in Range(t)} = {s[k] : k \in G}
  <2>1. ASSUME NEW n \in I, Id(n, "E") \in Range(t) PROVE \E k \in G : n = s[k]
    <3>1. PICK q \in 1..N : t[q] = Id(n, "E")
      BY <1>6, <2>1 DEF Range
    <3>2. PICK k \in G, role \in Roles : t[q] = Id(s[k], role)
      BY <1>8, <1>9, <1>15, <3>1
    <3>. QED  BY <3>1, <3>2, IdsDiffer
  <2>2. ASSUME NEW k \in G PROVE s[k] \in I /\ Id(s[k], "E") \in Range(t)
    BY <1>6, <1>8, <1>10, <1>15 DEF Range
  <2>. QED  BY <2>1, <2>2
<1>18. ASSUME NEW v \in Range(t) \ I PROVE \E k \in G : v[1] = s[k]
  <2>1. PICK q \in 1..N : v = t[q]
    BY <1>6 DEF Range
  <2>2. PICK k \in G, role \in Roles : v = Id(s[k], role)
    BY <1>8, <1>15, <2>1
  <2>. QED  BY <2>2 DEF Id
<1>. QED  BY <1>1, <1>2, <1>3, <1>7, <1>13, <1>14, <1>16, <1>17, <1>18, Zenon

LEMMA Reaches == IInv => TypeOK /\ SelectedReplaced
<1> SUFFICES ASSUME IInv PROVE TypeOK /\ SelectedReplaced
  OBVIOUS
<1>1. TypeOK
  BY DEF IInv
<1>2. Range(prog.layout) = DOMAIN code
  BY ProgramAssumption DEF IInv, TypeOK
<1>. QED  BY <1>1, <1>2, WalkedIsReplaced, Zenon DEF SelectedReplaced

LEMMA Inductive == ASSUME Opaque PROVE Spec => []IInv
<1>1. Init => IInv
  BY InitEstablishes
<1>2. ASSUME IInv, UNCHANGED vars PROVE IInv'
  <2>1. /\ prog' = prog /\ above' = above /\ passes' = passes /\ input' = input /\ code' = code
        /\ inst' = inst /\ pc' = pc /\ rest' = rest /\ at' = at /\ drawn' = drawn
        /\ Changed' = Changed /\ preserved' = preserved
    BY <1>2 DEF vars, function, walk
  <2>2. Valid(prog'.params, code', inst') /\ Valid(prog'.params, input'.code, input'.inst)
    BY <1>2, <2>1 DEF IInv, TypeOK
  <2>3. TypeOK'
    BY <1>2, <2>1, <2>2 DEF IInv, TypeOK, BB
  <2>4. NamesOlder' /\ NamesFresh' /\ KindsKept'
    BY <1>2, <2>1 DEF IInv, NamesOlder, NamesFresh, KindsKept, Values, Id
  <2>5. Progress'
    <3>1. UNCHANGED <<above, passes, input>>
      BY <2>1
    <3>2. \A b, i : Walked(b, i)' <=> Walked(b, i)
      BY <2>1, <3>1, WalkedStays
    <3>3. \A b : Found(b)' = Found(b)
      BY <3>1, SelectionStays
    <3>4. BB' = BB /\ Found(BB)' = Found(BB) /\ \A b : Cut(b)' = Cut(b)
      BY <2>1, <3>3 DEF BB, Cut, Found
    <3>5. ASSUME NEW b \in DOMAIN code', pc # "run"
          PROVE  IF b \notin Range(rest)' THEN Walked(b, Len(input.code[b]) + 1)'
                 ELSE IF (pc = "insts" /\ b = BB)' THEN Walked(b, Cut(b))'
                 ELSE (code[b] = input.code[b])'
      <4>1. b \in DOMAIN code /\ code'[b] = code[b] /\ input'.code[b] = input.code[b]
        BY <2>1, <3>5
      <4>2. CASE b \notin Range(rest)
        BY <1>2, <2>1, <3>2, <3>5, <4>1, <4>2 DEF IInv, Progress
      <4>3. CASE b \in Range(rest) /\ ~(pc = "insts" /\ b = BB)
        BY <1>2, <2>1, <3>4, <3>5, <4>1, <4>3 DEF IInv, Progress
      <4>4. CASE b \in Range(rest) /\ pc = "insts" /\ b = BB
        <5>1. Walked(b, Cut(b)) /\ Cut(b)' = Cut(b)
          BY <1>2, <3>4, <3>5, <4>1, <4>4 DEF IInv, Progress
        <5>2. Walked(b, Cut(b))'
          BY <3>2, <5>1 DEF Walked
        <5>. QED  BY <2>1, <3>4, <4>4, <5>2
      <4>. QED  BY <4>2, <4>3, <4>4
    <3>. QED  BY <1>2, <2>1, <3>4, <3>5 DEF IInv, Progress
  <2>. QED  BY <1>2, <2>1, <2>2, <2>3, <2>4, <2>5 DEF IInv
<1>3. IInv /\ [Next]_vars => IInv'
  BY <1>2, StartPassKeeps, StartBlockKeeps, SkipOtherKeeps, SkipDrawnKeeps, SubstituteAddKeeps,
     SubstituteSubKeeps, EndBlockKeeps, EndPassKeeps, Zenon DEF Next
<1>. QED  BY <1>1, <1>3, PTL DEF Spec

\* TypeOK: while the passes run, the function stays one that the verifier
\* accepts.  Every operand exists, so that nothing uses what replaceAllUsesWith
\* and eraseFromParent removed, and what IRBuilder inserts comes before its uses.
THEOREM TypeCorrect == ASSUME Opaque PROVE Spec => []TypeOK
<1>1. IInv => TypeOK
  BY Reaches
<1>. QED  BY <1>1, Inductive, PTL

\* SelectedReplaced: walking over a block that grows while it is walked over
\* replaces the candidates the block had and the random numbers select, each
\* once, nothing of what was inserted, and leaves the others in their order.
THEOREM SelectionCorrect == ASSUME Opaque PROVE Spec => []SelectedReplaced
<1>1. IInv => SelectedReplaced
  BY Reaches
<1>. QED  BY <1>1, Inductive, PTL
=============================================================================
