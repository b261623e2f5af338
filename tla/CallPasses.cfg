SPECIFICATION PassesSpec
CONSTANTS
  f = f t1 = t1 t2 = t2 Main = Main Wrapper = Wrapper NotLoaded = NotLoaded
  Printf = Printf Pointer = Pointer NoCallee = NoCallee
  Defined = {Main, f}
  Declared = {Printf}
  Order <- MCOrder
  Opcodes = {"load", "add", "store", "call", "invoke", "ret"}
  Programs <- MCPrograms
  Pipelines <- MCPipelines
  Threads = {t1, t2}
  MainThread = t1
  ThreadSets <- OneOrTwoThreads
  MaxCount = 3
  MaxRuns = 2
  MaxCalls = 2
  MaxDepth = 3
INVARIANTS TypeOK ReportExact NoOvercount GreetingsExact CountsAgree
CHECK_DEADLOCK FALSE
