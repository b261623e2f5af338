SPECIFICATION Spec
CONSTANTS
  main = main f = f g = g v = v one = one ptr = ptr x = x y = y fx = fx fy = fy
  gx = gx gy = gy vx = vx c1 = c1 c2 = c2 bm = bm bt = bt be = be bf = bf bg = bg
  bv = bv b1 = b1 f1 = f1 f2 = f2 f3 = f3 g1 = g1 g2 = g2 g3 = g3 v1 = v1 v2 = v2
  o1 = o1 m1 = m1 k1 = k1 u1 = u1 mb = mb k2 = k2 u2 = u2 mt = mt e1 = e1 me = me
  Functions <- MCFunctions
  Main = main
  Garbage = Garbage
  Programs <- ConstantPrograms
PROPERTY OnlyTheCall
CHECK_DEADLOCK FALSE
