SPECIFICATION FairSpec
CONSTANTS
  v1 = v1
  v2 = v2
  Viewers = {v1, v2}
  Shell = shell
  Circumstances <- All
  PrintSize = 3
  Capacity = 2
INVARIANT OutputInOrder
PROPERTY Coexistence
