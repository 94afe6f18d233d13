SPECIFICATION Spec
CONSTANTS
  Handle = {h1, h2, h3, h4}
  Body = {empty_rep, b1, b2, b3, b4}
  EmptyRep = empty_rep
  x = x
  y = y
  e = e
  Value <- MCValue
  Size <- MCSize
  EmptyValue = e
  None = None
  Orphan = Orphan
  Rebinding = FALSE
  OrphanWrites = FALSE
  Throwing = FALSE
  MaxRefc = 3
SYMMETRY Symmetry
INVARIANT RefcountExact
INVARIANT FamilyCoherent
INVARIANT DestroyedWithLastHost
PROPERTY ImplementsAliasedValues
