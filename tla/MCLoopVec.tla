----------------------------- MODULE MCLoopVec -----------------------------
(***************************************************************************)
(* SsLoopVec on functions as clang makes them without optimisation, that   *)
(* add up the first elements of an array:                                  *)
(*                                                                         *)
(*   one:    b = 0; for (i = 0; i < n; i++) b += A[i]; return b            *)
(*   two:    one, but c = b; b = 0; for (i = 0; i < m; i++) b += A[i];     *)
(*           return b + c                                                  *)
(*   nested: c = 0; for (j = 0; j < m; j++) { one, but c += b }; return c  *)
(*                                                                         *)
(* with variants of the body, the condition and the increment.  The trip   *)
(* counts are multiples of four, those of an outer loop 0 and 1.           *)
(***************************************************************************)
EXTENDS LoopVec, VectorExecution

CONSTANTS entry,
          c1, b1, i1, x1,          \* condition, body, increment of a loop, and what follows
          c2, b2, i2, x2,          \* of the second, or of the outer loop
          arr, vb, vc, vi, vj, vt,        \* the array and the variables
          s1, s2, s3, s4, s5, s6, s7, s8, s9   \* instructions, by block

MCBlocks == {entry, c1, b1, i1, x1, c2, b2, i2, x2}
Variables == <<vb, vc, vi, vj, vt>>

Load(v) == Scalar("load", <<v>>)
Store(v, w) == Scalar("store", <<v, w>>)
Add(v, w) == Scalar("add", <<v, w>>)
Br(to) == Scalar("br", <<to>>)
Ret(v) == Scalar("ret", <<v>>)

\* The text of a block d: its instructions are <<s1, d>>, <<s2, d>>, ...
Names == <<s1, s2, s3, s4, s5, s6, s7, s8, s9>>

CondText(d, v, cmp, yes, no) ==
  << Load(v),
     [kind |-> "icmp", lanes |-> 1, ops |-> << <<s1, d>>, Const(cmp.num)>>, pred |-> cmp.pred],
     Scalar("br", << <<s2, d>>, no, yes>>) >>

IncText(d, v, side, to) ==
  << Load(v), IF side = "left" THEN Add(Const(1), <<s1, d>>) ELSE Add(<<s1, d>>, Const(1)),
     Store(<<s2, d>>, v), Br(to) >>

\* b += A[i], with the operands swapped, with A[i] loaded twice, or copied.
BodyText(d, form, to) ==
  LET element == << Load(vi), Scalar("gep", <<arr, <<s1, d>> >>), Load(<<s2, d>>) >>
  IN  CASE form = "plain"   -> element \o << Load(vb), Add(<<s4, d>>, <<s3, d>>), Store(<<s5, d>>, vb), Br(to) >>
        [] form = "swapped" -> element \o << Load(vb), Add(<<s3, d>>, <<s4, d>>), Store(<<s5, d>>, vb), Br(to) >>
        [] form = "twice"   -> element \o << Load(<<s2, d>>), Load(vb), Add(<<s5, d>>, <<s4, d>>),
                                             Store(<<s6, d>>, vb), Br(to) >>
        [] form = "copied"  -> element \o << Store(<<s3, d>>, vt), Load(vt), Load(vb),
                                             Add(<<s6, d>>, <<s5, d>>), Store(<<s7, d>>, vb), Br(to) >>

Zero(v) == Store(Const(0), v)

\* The function with this text, one sequence per block.
Entire(name, layout, text) ==
  LET named(d) == [k \in DOMAIN text[d] |-> <<Names[k], d>>]
  IN  [name |-> name, layout |-> layout, params |-> {arr}, places |-> MCBlocks \cup {arr},
       consts |-> Consts, bits |-> Bits,
       code |-> [d \in MCBlocks |-> IF d = entry THEN Variables \o named(d)
                                    ELSE IF d \in Range(layout) THEN named(d) ELSE <<>>],
       inst |-> [n \in UNION {Range(named(d)) : d \in Range(layout)} |->
                   text[n[2]][CHOOSE k \in DOMAIN text[n[2]] : Names[k] = n[1]]]
                @@ [v \in Range(Variables) |-> Scalar("alloca", <<>>)]]

First(cmp, form, side) ==
  c1 :> CondText(c1, vi, cmp, b1, x1) @@ b1 :> BodyText(b1, form, i1) @@ i1 :> IncText(i1, vi, side, c1)

One(name, first) ==
  Entire(name, <<entry, c1, b1, i1, x1>>,
    first @@ entry :> << Zero(vb), Zero(vi), Br(c1) >> @@ x1 :> << Load(vb), Ret(<<s1, x1>>) >>)

Two(first, second) ==
  Entire("foo", <<entry, c1, b1, i1, x1, c2, b2, i2, x2>>,
    first @@ entry :> << Zero(vb), Zero(vi), Br(c1) >>
    @@ x1 :> << Load(vb), Store(<<s1, x1>>, vc), Zero(vb), Zero(vi), Br(c2) >>
    @@ c2 :> CondText(c2, vi, second, b2, x2) @@ b2 :> BodyText(b2, "plain", i2)
    @@ i2 :> IncText(i2, vi, "right", c2)
    @@ x2 :> << Load(vb), Load(vc), Add(<<s1, x2>>, <<s2, x2>>), Ret(<<s3, x2>>) >>)

Nested(first, outer) ==
  Entire("foo", <<entry, c2, b2, c1, b1, i1, x1, i2, x2>>,
    first @@ entry :> << Zero(vc), Zero(vj), Br(c2) >>
    @@ c2 :> CondText(c2, vj, outer, b2, x2) @@ b2 :> << Zero(vb), Zero(vi), Br(c1) >>
    @@ x1 :> << Load(vb), Load(vc), Add(<<s2, x1>>, <<s1, x1>>), Store(<<s3, x1>>, vc), Br(i2) >>
    @@ i2 :> IncText(i2, vj, "right", c2)
    @@ x2 :> << Load(vc), Ret(<<s1, x2>>) >>)

Less(n) == [pred |-> "slt", num |-> n]
Other(n) == [pred |-> "ne", num |-> n]
LessEqual(n) == [pred |-> "sle", num |-> (n - 1) % 2^Bits]

Trips == {0, 4, 8}
Firsts ==
  {First(cmp, form, side) :
     cmp \in UNION {{Less(n), Other(n), LessEqual(n)} : n \in Trips},
     form \in {"plain", "swapped", "twice", "copied"}, side \in {"left", "right"}}

MCPrograms ==
  {One("foo", first) : first \in Firsts}
  \cup {One("main", First(Less(4), "plain", "right"))}
  \cup {Two(first, Less(n)) : first \in Firsts, n \in Trips}
  \cup {Nested(first, Less(m)) : first \in Firsts, m \in {0, 1}}
-----------------------------------------------------------------------------
\* Sums of the elements of the first are all different; those of the second
\* wrap.
Arrays == {[k \in 1..8 |-> 2^(k - 1)], [k \in 1..8 |-> 2^Bits - k]}

Returns(p) == [array \in Arrays |-> Run(p, Entry, 1, array, [v \in {} |-> 0], 60)]

\* Between two loops and at the end, the function returns the sum it did, of
\* every array, without reading anything outside of it.
SameResult ==
  pc # "crash" /\
  (pc \in {"loop", "done"} => Returns([prog EXCEPT !.code = code, !.inst = inst]) = Returns(prog))
=============================================================================
