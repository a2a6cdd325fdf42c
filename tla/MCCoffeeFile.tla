---------------------------- MODULE MCCoffeeFile ----------------------------
(***************************************************************************)
(* Small instances of CoffeeFile for TLC.                                  *)
(***************************************************************************)
EXTENDS CoffeeFile, TLC

\* 0xff stands for every byte that is not zero.
ZeroAndFF == {0, 255}
Steps == {-1, 0, 1}

\* reply is an output: see MCSFS.
StateView == <<flash, end, record_count, fds, heap, hung, written, sure>>
=============================================================================
