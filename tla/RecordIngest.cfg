SPECIFICATION Spec
CONSTANTS
  mine = mine
  theirs = theirs
  Signet = {mine, theirs}
  Message = {msg}
  Image = {img}
  Mine = {mine}
  BySigner = {msg}
  Http = {h1}
  MaxLog = 3
  SignetOf <- MCSignetOf
INVARIANTS BroadcastOnce CacheComplete CacheForgets
CHECK_DEADLOCK FALSE
PROPERTY RowsHaveReasons
