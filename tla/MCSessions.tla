----------------------------- MODULE MCSessions -----------------------------
(* Instance of Sessions for TLC.                                           *)
EXTENDS Sessions, TLC

Symmetry == Permutations(Session) \cup Permutations(Request) \cup Permutations(Admin)
=============================================================================
