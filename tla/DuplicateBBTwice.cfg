SPECIFICATION PipelineSpec
CONSTANTS
  e = e l = l r = r j = j u = u
  ie = ie il = il ir = ir ij = ij iu = iu
  fe = fe fl = fl se = se sl = sl sj = sj sp = sp
  ph = ph pad = pad a = a g = g
  Blocks <- MCBlocks
  Entry = e
  Args = {a}
  Globals = {g}
  IntTyped <- MCIntTyped
  Programs <- MCProgramsTwice
  Flagged <- MCFlagged
  NotYet = NotYet
  MaxBlocks = 23
INVARIANT ContextAlive
CHECK_DEADLOCK FALSE
