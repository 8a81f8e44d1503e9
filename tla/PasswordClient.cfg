SPECIFICATION Spec
CONSTANTS
  Call = {c1, c2, d1}
  Delete = {d1}
  MaxGen = 3
SYMMETRY Symmetry
INVARIANTS CanRenew ReportsTheTruth FailsOnlyInRace
CHECK_DEADLOCK FALSE
PROPERTY ImplementsRepoCalls
