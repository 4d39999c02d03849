---------------------------- MODULE MCGraphColour ----------------------------
(***************************************************************************)
(* Instances of GraphColour for TLC.                                       *)
(***************************************************************************)
EXTENDS GraphColour

\* A strip of six elements and a single one, numbered so that three threads meet.
Strip == <<<<4>>, <<3, 7>>, <<2, 5>>, <<1, 5>>, <<4, 3>>, <<>>, <<2>>>>

\* Eight triangles around holes, each with up to three neighbours.
Holes == <<<<2, 3, 6>>, <<5, 8, 1>>, <<4, 1, 6>>, <<3, 8, 7>>, <<2, 7, 6>>, <<1, 3, 5>>, <<5, 4, 8>>, <<2, 4, 7>>>>
=============================================================================
