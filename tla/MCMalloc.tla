------------------------------ MODULE MCMalloc ------------------------------
(***************************************************************************)
(* Small instances of Malloc for TLC.                                      *)
(***************************************************************************)
EXTENDS Malloc

\* one-byte files besides struct shm_entry + 1
Mixed == {1, 9}
\* and struct open_shm_entry + 1
Three == {1, 5, 9}

\* A state without what is left in memory that is no header any more: no call reads it.
StateView ==
    <<free_list_head, live, lost,
      [c \in Chunks |-> size[c]], [c \in {0} \union FreeChunks |-> next[c]]>>
=============================================================================
