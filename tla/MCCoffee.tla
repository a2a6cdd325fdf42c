------------------------------ MODULE MCCoffee ------------------------------
(***************************************************************************)
(* Small instances of Coffee for TLC.                                      *)
(***************************************************************************)
EXTENDS Coffee, TLC

CONSTANTS a, b

TwoNames == {a, b}

\* reply is an output: see MCSFS.
StateView == <<hdr, coffee_files, coffee_fd_set, next_free, gc_wait, clean, intact>>

AsLongAsIntact == intact
AsLongAsClean == clean

Symmetry == Permutations(Names)
=============================================================================
