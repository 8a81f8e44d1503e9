-------------------------- MODULE MCChannelServer --------------------------
(* Instance of ChannelServer for TLC.                                      *)
EXTENDS ChannelServer, TLC

Symmetry == Permutations(Req)
=============================================================================
