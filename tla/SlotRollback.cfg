SPECIFICATION Spec
CONSTANTS
  g1 = g1
  g2 = g2
  g3 = g3
  g4 = g4
  Guards = {g1, g2, g3, g4}
  Slots <- MCSlots
  Pages <- MCPages
  Values <- MCValues
  PagesOf <- MCPagesOf
  Loaded <- MCLoaded
  LoadProt <- MCLoadProt
  Repl <- MCRepl
  Plan <- MCPlan
  ForeignValue = "foreign"
  PageSize = 16
  PtrSize = 8
  MaxFaults = 1
  MaxForeign = 0
  MaxLoads = 0
INVARIANT NoTraceOnError
CHECK_DEADLOCK FALSE
