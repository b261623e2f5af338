SPECIFICATION Spec
CONSTANTS
  b1 = b1 b2 = b2 p = p q = q s = s m = m call = call jump = jump r = r ret = ret
  Number = Number
  Period = 2
  Opcodes <- MCOpcodes
  Programs <- MCPrograms
  Pipelines <- MCPipelines
INVARIANTS TypeOK PreservedIfUnchanged SelectedReplaced SameValues
CHECK_DEADLOCK FALSE
