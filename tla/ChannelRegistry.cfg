SPECIFICATION Spec
CONSTANTS
  Uri = {c1, c2}
  NoTopic = {c2}
  Http = {h1}
  MaxLog = 3
INVARIANTS BoundaryAgreement FollowsRepo KeptIsServed
SYMMETRY Symmetry
CHECK_DEADLOCK FALSE
PROPERTY ImplementsRecordCache
