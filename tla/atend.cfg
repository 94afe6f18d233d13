SPECIFICATION AtEndFairSpec
CONSTANTS Names = {"a", "b", "c"}
INVARIANT OrderObserved
INVARIANT GivenUpOnlyInCircles
PROPERTY EndComes
