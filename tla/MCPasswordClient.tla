-------------------------- MODULE MCPasswordClient --------------------------
(* Instance of PasswordClient for TLC.                                     *)
EXTENDS PasswordClient, TLC

Symmetry == Permutations(Delete) \cup Permutations(Call \ Delete)
=============================================================================
