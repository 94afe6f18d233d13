SPECIFICATION Spec
CONSTANTS
  Handle = {h1, h2, h3}
  Body = {empty_rep, b1, b2, b3}
  EmptyRep = empty_rep
  x = x
  y = y
  e = e
  Value <- MCValue
  Size <- MCSize
  EmptyValue = e
  None = None
  Orphan = Orphan
  Rebinding = TRUE
  OrphanWrites = TRUE
  Throwing = TRUE
  MaxRefc = 3
SYMMETRY Symmetry
INVARIANT NoDanglingHost
INVARIANT AliasLinks
