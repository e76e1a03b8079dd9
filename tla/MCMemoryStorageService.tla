----------------------- MODULE MCMemoryStorageService -----------------------
(* Small instances of MemoryStorageService; the values are in the cfg file.*)
EXTENDS MemoryStorageService, TLC
Symmetry == Permutations(Key) \cup Permutations(Data)
=============================================================================
