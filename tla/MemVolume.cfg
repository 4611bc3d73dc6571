SPECIFICATION Spec
CONSTANTS
  Keys <- FlatKeys
  MountKeys = {}
  c1 = c1
  c2 = c2
  f1 = f1
  f2 = f2
  Files = {f1, f2}
  Clients = {c1, c2}
  None = None
  Capacity = 2
  U64Max = 3
  UsizeMax = 3
  WriteLens = {1, 2}
  SetLens = {1, 2}
  Offsets <- SeekOffsets
  OpenModes <- AllModes
  MaxMounts = 1
  Disciplined = TRUE
SYMMETRY ClientSymmetry
INVARIANTS TypeOK AccountingExact WithinCapacity
PROPERTIES WritesStayInRange ShortOnlyWhenFull
