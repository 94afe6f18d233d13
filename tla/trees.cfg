SPECIFICATION Spec
CONSTANTS
  Traits <- MCTraits
  Heads = {h1, h2}
  Null = Null
  Allowed = {}
INVARIANT TreeSound
INVARIANT LookupsExact
PROPERTY ImplementsOrderedKeys
VIEW MCView
