SPECIFICATION Spec
CONSTANTS
  b0 = b0 b1 = b1 b2 = b2 b3 = b3
  i0 = i0 i1 = i1 i2 = i2 i3 = i3 f1 = f1 f2 = f2
  g = g a = a p = p
  Blocks <- MCBlocks
  Entry = b0
  Insts <- MCInsts
  Globals = {g}
  Args = {a, p}
  Home <- MCHome
  IntTyped <- MCIntTyped
INVARIANT CanBeUsed
CHECK_DEADLOCK FALSE
