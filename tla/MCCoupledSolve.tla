--------------------------- MODULE MCCoupledSolve ---------------------------
(***************************************************************************)
(* Instances of CoupledSolve for TLC.                                      *)
(***************************************************************************)
EXTENDS CoupledSolve

\* Ranks 1 .. 3.  Solver 1 is on all of them, solver 2 on the first one, solver 3
\* is executed after the timestep, solver 4 is without a matrix and solver 5
\* waits for the others, on the first two.
Ranks == 1 .. 3
SharedActive == <<{1, 2, 3}, {1}, {2}, {}, {1, 2}>>
=============================================================================
