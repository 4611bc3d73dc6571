SPECIFICATION Spec
CONSTANTS
  t1 = t1
  t2 = t2
  f1 = f1
  f2 = f2
  Threads = {t1, t2}
  Fds = {f1, f2}
  MaxOpens = 2
  MaxEngines = 2
  AllowWrites <- FirstAllows
  Programs <- Cursors
SYMMETRY Swap
INVARIANTS
  NoTornState
