--------------------------- MODULE MCReplayCache ---------------------------
(* Small instances of ReplayCache; the values are in the cfg files.        *)
EXTENDS ReplayCache, TLC
Symmetry == Permutations(Caller) \cup Permutations(Key)
=============================================================================
