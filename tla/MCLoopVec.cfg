SPECIFICATION Spec
CONSTANTS
  entry = entry c1 = c1 b1 = b1 i1 = i1 x1 = x1 c2 = c2 b2 = b2 i2 = i2 x2 = x2
  arr = arr vb = vb vc = vc vi = vi vj = vj vt = vt
  s1 = s1 s2 = s2 s3 = s3 s4 = s4 s5 = s5 s6 = s6 s7 = s7 s8 = s8 s9 = s9
  Number = Number
  Bits = 8
  Blocks <- MCBlocks
  Entry = entry
  Programs <- MCPrograms
INVARIANTS TypeOK OperandsDominate SameResult
CHECK_DEADLOCK FALSE
