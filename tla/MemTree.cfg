SPECIFICATION Spec
CONSTANTS
  Keys <- TreeKeys
  MountKeys <- TreeMounts
  c1 = c1
  c2 = c2
  f1 = f1
  f2 = f2
  Files = {f1, f2}
  Clients = {c1}
  None = None
  Capacity = 1
  U64Max = 2
  UsizeMax = 2
  WriteLens = {1}
  SetLens = {0}
  Offsets = {}
  OpenModes <- CreateMode
  MaxMounts = 1
  Disciplined = TRUE
INVARIANTS AccountingExact WellFormed
PROPERTIES UnmountIsLocal RenameMovesExactly
