---------------------------- MODULE MCLexStream ----------------------------
(* Instance of LexStream for TLC.                                          *)
EXTENDS LexStream, TLC

Symmetry == Permutations(Client)
=============================================================================
