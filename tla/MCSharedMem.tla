---------------------------- MODULE MCSharedMem ----------------------------
(***************************************************************************)
(* Small instances of SharedMem for TLC.                                   *)
(***************************************************************************)
EXTENDS SharedMem, TLC

CONSTANTS a, b, m1, m2, m3, m4, m5, m6

TwoNames  == {a, b}
SixBlocks == {m1, m2, m3, m4, m5, m6}
SomeSizes == {0, 1, 2}

\* before the file, in it, and what overflows when added to a position
SomeOffsets == {-1, 0, 1, INT_MAX}

\* reply is an output: see MCSFS.
StateView == <<live, entry, shm_list, open_fd_cache>>

Symmetry == Permutations(Names) \union Permutations(Block)
=============================================================================
