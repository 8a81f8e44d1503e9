SPECIFICATION FairSpec
CONSTANTS
  Req = {r1, r2}
  Nil = Nil
  Cap = 1
  MaxId = 2
  InitialID = 0
  Kind = {"init"}
  Worker = {"jetstream"}
INVARIANTS HandlerOwnsServer FreshIds OneLiveServer
PROPERTIES ImplementsSignetLog NoGoroutineLeak
CHECK_DEADLOCK FALSE
