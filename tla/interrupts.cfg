SPECIFICATION FairSpec
CONSTANTS
  Circumstances <- All
  Halting = {"command", "rule", "block", "rollback", "cleanup", "eval"}
  MaxSignals = 3
INVARIANT SessionSurvives
INVARIANT Heard
PROPERTY RaisedInTurn
PROPERTY SignalAnswered
