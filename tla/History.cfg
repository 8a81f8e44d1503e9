SPECIFICATION FairSpec
CONSTANTS
  Item <- MCItem
  IdOf <- MCId
  Bare <- MCBare
  Limit = 2
INVARIANTS NothingTwice WalkIsComplete
PROPERTY WalkEnds
