--------------------------- MODULE MCNettyClient ---------------------------
(* Small instances of NettyClient for TLC.                                 *)
EXTENDS NettyClient, TLC

Symmetry == Permutations(Callers) \cup Permutations(Channels)
=============================================================================
