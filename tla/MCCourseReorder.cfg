SPECIFICATION EditSpec
CONSTANTS
  m1 = m1
  m2 = m2
  NoModule = NoModule
  Modules = {m1, m2}
  FirstNumber <- TwoModules
  Assets = {}
  Editors = {w1}
  MaxNumber = 2
INVARIANTS
  ReorderingWorks
CHECK_DEADLOCK FALSE
