SPECIFICATION AccountSpec
CONSTANTS
  Did = {d1, d2}
  Writer = {d1}
  Handle = {h1}
  Invalid = invalid
  Version = {first, other}
  Default = first
  Nil = nil
  Http = {r1}
INVARIANTS RowsWereTrue MetIsKnown ProfileIsTheirs
