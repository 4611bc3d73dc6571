SPECIFICATION FairSpec
CONSTANTS
  i1 = i1
  i2 = i2
  t1 = t1
  t2 = t2
  Installs = {i1, i2}
  Threads = {t1, t2}
  Modules = {"program", "plugin"}
  Preloaded = {"program"}
  Scope <- AllModules
  RescanScope <- AllModules
  AutoRescan <- MCAutoRescan
  None = None
  MaxFaults = 1
  MaxLoads = 1
INVARIANTS
  TypeOK
  LiveOwnsGlobals
  ShimsAreServed
  HookedOnce
  NothingLeftPatched
PROPERTIES
  LateModulesGetHooked
  DropCompletes
