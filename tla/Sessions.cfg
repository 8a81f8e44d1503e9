SPECIFICATION Spec
CONSTANTS
  Session = {s1, s2}
  Request = {r1, r2}
  Admin = {a1}
SYMMETRY Symmetry
INVARIANTS BannedIsOut LoggedOutIsGone
