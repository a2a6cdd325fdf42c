------------------------------ MODULE MCFlash ------------------------------
(***************************************************************************)
(* Small instances of Flash for TLC.                                       *)
(***************************************************************************)
EXTENDS Flash

OneBit == {0}

\* nothing; one byte, with and without bits; two, which may cross a page
SomeData == {<<>>, <<{}>>, <<OneBit>>, <<OneBit, {}>>}
SomeLengths == {1}
=============================================================================
