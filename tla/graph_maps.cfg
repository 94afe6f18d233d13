SPECIFICATION Spec
CONSTANTS
  Graphs = {g1, g2}
  Maps = {m1, m2}
  Edges = {1, 2, 3}
  BucketSize = 2
  MinBuckets = 1
  None = None
  Junk = Junk
  Allowed = {}
SYMMETRY Symmetry
CONSTRAINT FewGaps
INVARIANT NumbersExact
INVARIANT EntriesExact
INVARIANT MapsStayWithGraph
PROPERTY GraphsIndependent
