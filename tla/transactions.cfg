SPECIFICATION Spec
CONSTANTS
  Instances <- Worlds
  Top = "top"
  Sub = "sub"
  Extra = "extra"
  Leaves = {"a", "b", "c"}
  Mutable = {"a"}
  NoValue = "none"
INVARIANT DictionaryAgrees
INVARIANT CleanupTableExact
INVARIANT ChangesAreSaved
INVARIANT SubobjectsTied
PROPERTY ReconstructionIsolated
PROPERTY ImplementsSnapshots
