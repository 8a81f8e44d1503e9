SPECIFICATION ImageSpec
CONSTANTS
  Req = {r1, r2, r3}
  Size = 2
  Nil = nil
SYMMETRY Symmetry
INVARIANTS SettledIsWhole CompleteIsWhole ServedIsAllowed
PROPERTY StoredOnce
