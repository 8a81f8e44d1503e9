---------------------------- MODULE MCImageCache ----------------------------
(* Instance of ImageCache for TLC.                                         *)
EXTENDS ImageCache, TLC

Symmetry == Permutations(Req)
=============================================================================
