--------------------------- MODULE MCDuplicateBB ---------------------------
(***************************************************************************)
(* DuplicateBB on functions of five blocks.  Block b holds the integer     *)
(* instruction ib; some hold a store, a chain of two instructions or a PHI *)
(* as well.  The shapes: a diamond whose arms feed a PHI, a loop of one    *)
(* block, blocks laid out after the blocks they dominate, an exception     *)
(* handler, a switch with equal targets, and a block that nothing reaches. *)
(***************************************************************************)
EXTENDS DuplicateThenMerge, TLC

CONSTANTS e, l, r, j, u,               \* blocks
          ie, il, ir, ij, iu,          \* an integer instruction of each
          fe, fl,                      \* instructions of another type
          se, sl, sj, sp,              \* stores
          ph, pad,                     \* a PHI, a landing pad
          a, g                         \* an argument, a global

MCBlocks == {e, l, r, j, u}
MCIntTyped == {ie, il, ir, ij, iu, ph, a, g}
MCFlagged == {ie, il, ij}

Op(kind, opnds) == [kind |-> kind, opnds |-> opnds, from |-> <<>>]
Phi(opnds, from) == [kind |-> "phi", opnds |-> opnds, from |-> from]
Br(t) == [kind |-> "br", opnds |-> <<>>, tgts |-> <<t>>]
CondBr(v, t1, t2) == [kind |-> "br", opnds |-> <<v>>, tgts |-> <<t1, t2>>]
Switch(v, ts) == [kind |-> "switch", opnds |-> <<v>>, tgts |-> ts]
Invoke(v, normal, unwind) == [kind |-> "invoke", opnds |-> <<v>>, tgts |-> <<normal, unwind>>]
Ret(v) == [kind |-> "ret", opnds |-> <<v>>, tgts |-> <<>>]

Function(blocks, runs, t, c, i) ==
  [layout |-> blocks, runs |-> runs, legacy |-> FALSE, term |-> t, code |-> c, inst |-> i]

\* if (ie) l else r, joined by a PHI; a value computed from a value computed
\* in the same block; a store on each side; u is unreachable.
Diamond(blocks) ==
  Function(blocks, 1,
    e :> CondBr(ie, l, r) @@ l :> Br(j) @@ r :> Br(j) @@ j :> Ret(ij) @@ u :> Br(j),
    e :> <<ie>> @@ l :> <<il, fl, sl>> @@ r :> <<ir>> @@ j :> <<ph, sj, ij>> @@ u :> <<>>,
    ie :> Op("value", <<a>>)
      @@ il :> Op("value", <<ie>>) @@ fl :> Op("value", <<il, ie>>) @@ sl :> Op("void", <<fl, il>>)
      @@ ir :> Op("value", <<ie, ie>>)
      @@ ph :> Phi(<<il, ir, a>>, <<l, r, u>>)
      @@ sj :> Op("void", <<ph>>) @@ ij :> Op("value", <<ph, ie>>))

\* e, then l looping on itself, then j, then u.  The PHI of l takes a value
\* of l itself.
Loop(blocks, arg) ==
  Function(blocks, 1,
    e :> Br(l) @@ l :> CondBr(il, l, j) @@ j :> Br(u) @@ u :> Ret(iu) @@ r :> Ret(a),
    e :> <<fe, se>> @@ l :> <<ph, il, sl>> @@ j :> <<ij>> @@ u :> <<iu>> @@ r :> <<>>,
    fe :> Op("value", <<g>>) @@ se :> Op("void", <<fe>>)
      @@ ph :> Phi(<<arg, il>>, <<e, l>>) @@ il :> Op("value", <<ph>>) @@ sl :> Op("void", <<il>>)
      @@ ij :> Op("value", <<il>>) @@ iu :> Op("value", <<ij, il>>))

\* e calls a function that may throw: r is the handler's landing pad.  The two
\* values of j are independent.
Handler ==
  Function(<<e, r, l, j, u>>, 1,
    e :> Invoke(a, l, r) @@ l :> Br(j) @@ r :> Br(j) @@ j :> Br(u) @@ u :> Ret(ie),
    e :> <<ie>> @@ l :> <<il>> @@ r :> <<pad, sp>> @@ j :> <<ij, iu>> @@ u :> <<sj>>,
    ie :> Op("value", <<a>>) @@ il :> Op("value", <<ie>>)
      @@ pad :> Op("pad", <<>>) @@ sp :> Op("void", <<pad>>)
      @@ ij :> Op("value", <<ie>>) @@ iu :> Op("value", <<a>>)
      @@ sj :> Op("void", <<ij>>))

\* The only integers are an argument and a global: the pass runs twice.
Twice ==
  Function(<<e, l, j, r, u>>, 2,
    e :> CondBr(a, l, j) @@ l :> Br(j) @@ j :> Br(l) @@ r :> Br(u) @@ u :> Br(r),
    e :> <<fe>> @@ l :> <<fl, sl>> @@ j :> <<>> @@ r :> <<>> @@ u :> <<>>,
    fe :> Op("value", <<a>>) @@ fl :> Op("value", <<fe>>) @@ sl :> Op("void", <<fl, fe>>))

\* A switch with two cases for one block: two entries in the PHI of l.
TwoCases ==
  Function(<<e, j, l, r, u>>, 1,
    e :> Switch(a, <<l, l, j>>) @@ l :> Br(j) @@ j :> CondBr(ij, l, r)
      @@ r :> Ret(ir) @@ u :> Ret(a),
    e :> <<ie, se>> @@ l :> <<ph, il>> @@ j :> <<sj, ij>> @@ r :> <<ir>> @@ u :> <<>>,
    ie :> Op("value", <<a>>) @@ se :> Op("void", <<ie>>)
      @@ ph :> Phi(<<ie, ie, ij>>, <<e, e, j>>) @@ il :> Op("value", <<ph>>)
      @@ sj :> Op("void", <<ie>>) @@ ij :> Op("value", <<ie>>)
      @@ ir :> Op("value", <<ij, ie>>))

\* One block that anything reaches, in a legacy pipeline with two runs: the
\* second one finds the compare, the clones and the tail of the first.
LegacyTwice ==
  [Function(<<e, l, j, r, u>>, 2,
     e :> Ret(ie) @@ l :> Ret(a) @@ j :> Ret(a) @@ r :> Ret(a) @@ u :> Ret(a),
     e :> <<ie, se>> @@ l :> <<>> @@ j :> <<>> @@ r :> <<>> @@ u :> <<>>,
     ie :> Op("value", <<a>>) @@ se :> Op("void", <<ie>>)) EXCEPT !.legacy = TRUE]

MCPrograms ==
  {TwoCases, Diamond(<<e, l, r, j, u>>), Diamond(<<e, j, u, r, l>>),
   Loop(<<e, l, j, u, r>>, a), Loop(<<e, u, j, r, l>>, g), Handler, Twice, LegacyTwice}

\* The same functions in a pipeline of the new pass manager that names the
\* pass twice.
MCProgramsTwice == {[p EXCEPT !.runs = 2, !.legacy = FALSE] : p \in MCPrograms}

ASSUME FreshAnswers <=> Programs = MCPrograms
=============================================================================
