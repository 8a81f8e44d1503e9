SPECIFICATION FairSpec
CONSTANTS
  Uri = {c1}
  NoTopic = {c1}
  Http = {}
  MaxLog = 2
PROPERTY ComesBackUp
CHECK_DEADLOCK FALSE
