SPECIFICATION Spec
CONSTANTS
  Req = {r1, r2}
  Nil = Nil
  Cap = 1
  MaxId = 1
  InitialID = 0
  Kind = {"init"}
  Worker = {"http"}
INVARIANT DeletableWithoutServer
CHECK_DEADLOCK FALSE
