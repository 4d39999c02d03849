-------------------------- MODULE MCListMatrixArray --------------------------
(***************************************************************************)
(* Instances of ListMatrixArray for TLC.                                   *)
(***************************************************************************)
EXTENDS ListMatrixArray

\* A strip of elements, each with an unknown in common with the next.
Strip == <<<<1, 3>>, <<2, 3, 5>>, <<2, 4>>, <<4, 6>>>>

\* Not coloured, and two ways to colour it.
StripColours == {<<{1, 2, 3, 4}>>, <<{1, 3}, {2, 4}>>, <<{2, 4}, {1}, {3}>>}

\* A connection that is there, one in front of a row, one behind and one inside it.
Extra == <<<<2, 4>>, <<3, 6>>, <<5, 1>>, <<5, 4>>>>
=============================================================================
