CONSTANTS
    Programs <- MCPrograms
    MaxRaises = 3
    MaxTurns = 2
SPECIFICATION Spec
INVARIANT MeansItsSource
INVARIANT HoldsWhatItMust
PROPERTY GivenUpInOrder
