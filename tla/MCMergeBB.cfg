SPECIFICATION Spec
CONSTANTS
  e = e x1 = x1 x2 = x2 x3 = x3 s = s
  Outside = Outside
  Blocks <- MCBlocks
  Entry = e
  Layout <- MCLayout
  Programs <- MCPrograms
INVARIANTS TypeOK DeadUnreferenced SameControl WorkKept SamePhiValue NoUndef PhisMatchPreds
CHECK_DEADLOCK FALSE
