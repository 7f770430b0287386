--------------------------- MODULE MCChannelRegistry ---------------------------
(* An instance of ChannelRegistry for TLC. *)
EXTENDS ChannelRegistry

Symmetry == Permutations(Request)
=============================================================================
