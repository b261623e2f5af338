SPECIFICATION Spec
CONSTANTS
  e = e t = t s = s x = x y = y k = k j = j param = param va = va vb = vb vc = vc
  ea = ea eb = eb ec = ec ecmp = ecmp ebr = ebr l1 = l1 l2 = l2 scmp = scmp
  sbr = sbr jret = jret m1 = m1 m2 = m2 m3 = m3 m4 = m4
  Blocks <- MCBlocks
  Entry = e
  Number = Number
  IntBits = 3
  MaxBits = 4
  Programs <- MCPrograms
INVARIANTS TypeOK OperandsDominate NoFault SameBehaviour
CHECK_DEADLOCK FALSE
