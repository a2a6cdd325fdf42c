------------------------------- MODULE MCSFS -------------------------------
(***************************************************************************)
(* Small instances of SFS for TLC.                                         *)
(***************************************************************************)
EXTENDS SFS, TLC

CONSTANTS s1, s2, s3, a, b

TwoSMs   == {s1, s2}
ThreeSMs == {s1, s2, s3}
OneName  == {a}
TwoNames == {a, b}

AllBits == 0..7

\* open with no right and with one
MCWanted  == {SFS_NIL, SFS_READ}
\* revoke; one right; root; and the creator's flags, which cannot be given anew
MCGranted == {SFS_NIL, SFS_READ, SFS_ROOT, SFS_CREATOR}

\* What a step may do never depends on the last reply, and the properties speak
\* of a reply only in the step that gives it: states that differ in nothing else
\* are explored once, and the properties are still checked on every step.
StateView == <<INIT_DONE, listVars, freeVars, connVars, cfs_dir>>

Symmetry == Permutations(SMs) \union Permutations(Names)
=============================================================================
