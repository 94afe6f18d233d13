SPECIFICATION DijkstraSpec
CONSTANTS
  MaxWeight = 2
  Graphs <- MCGraphs
  Element = {0, 1, 2, 3, 4, 5}
  Key = {0, 1, 2}
  Allowed = {}
  NoLabel = NoLabel
  NotStarted = NotStarted
  NoResult = NoResult
INVARIANT HeapSound
INVARIANT ShortestFound
INVARIANT LabelsCounted
CHECK_DEADLOCK FALSE
