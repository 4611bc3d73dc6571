CONSTANTS
  t1 = t1
  t2 = t2
  h1 = h1
  h2 = h2
  a = a
  b = b
  Threads = {t1, t2}
  Handles = {h1, h2}
  Names = {a, b}
  MaxNodes = 2
  MaxOpens = 2
  MaxFinds = 1
  MaxEngines = 2
  Limit = 2
  Half = 2
  AllowWrites <- MCAllowWrites
  Programs <- MCLeakPrograms
  Rejected = Rejected
  Disk = Disk
  Star = Star
  NoThread = NoThread
SYMMETRY HandleSymmetry
SPECIFICATION Spec
INVARIANT NeverTouchDisk
CHECK_DEADLOCK FALSE
