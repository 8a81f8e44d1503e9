------------------------- MODULE MCChannelRegistry -------------------------
(* Channels that TLC may permute: the ones with and those without a topic. *)
EXTENDS ChannelRegistry, TLC

Symmetry == Permutations(NoTopic) \cup Permutations(Uri \ NoTopic) \cup Permutations(Http)
=============================================================================
