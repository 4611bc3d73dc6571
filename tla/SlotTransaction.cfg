SPECIFICATION FairSpec
CONSTANTS
  g1 = g1
  g2 = g2
  g3 = g3
  g4 = g4
  Guards = {g1, g2, g3, g4}
  Slots <- MCSlots
  Pages <- MCPages
  Values <- MCValues
  PagesOf <- MCPagesOf
  Loaded <- MCLoaded
  LoadProt <- MCLoadProt
  Repl <- MCRepl
  Plan <- MCPlan
  ForeignValue = "foreign"
  PageSize = 16
  PtrSize = 8
  MaxFaults = 2
  MaxForeign = 1
  MaxLoads = 1
INVARIANTS
  TypeOK
  WritesOnWritablePages
  ProtectionRestored
  FailedInstallUnpatched
  AllRestored
PROPERTIES
  LaterHooksSurvive
  LockReleased
CHECK_DEADLOCK FALSE
