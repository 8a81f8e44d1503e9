SPECIFICATION FairSpec
CONSTANTS
  Client = {c1, c2}
  Cap = 1
  MaxSent = 2
INVARIANTS TypeOK NoSendOnClosed RegisteredHasHandler
PROPERTIES ImplementsLexFeed BroadcastCompletes CatchesUp DeadClientsLeave
CHECK_DEADLOCK FALSE
