SPECIFICATION SettingsSpec
CONSTANTS
  Items <- TwoItems
  ByArch <- OneByArch
  Values = {"v1", "v2"}
  Default = "default"
  Imported <- OneImported
  Users <- Several
  Sessions = {"s1", "s2"}
  Fails = FALSE
INVARIANT Persisted
INVARIANT Whole
