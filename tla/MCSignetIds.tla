---------------------------- MODULE MCSignetIds ----------------------------
(* Instance of SignetIds for TLC.                                          *)
EXTENDS SignetIds, TLC

Symmetry == Permutations(Worker)
=============================================================================
