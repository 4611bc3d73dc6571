SPECIFICATION Spec
CONSTANTS
  t1 = t1
  t2 = t2
  a1 = a1
  a2 = a2
  Threads = {t1, t2}
  Addrs = {a1, a2}
  Keys <- MCKeys
  Root <- MCRoot
  MaxEngines = 2
  Letters <- MCLetters
  Lower <- MCLower
  Programs <- MCPrograms
  Longest = 4
SYMMETRY Symmetric
INVARIANTS
  RoutedByName
  SeesItsChanges
  PointersAreExact
