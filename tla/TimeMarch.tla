------------------------------ MODULE TimeMarch ------------------------------
(***************************************************************************)
(* What the time loop promises to whoever reads its output: the solution   *)
(* only moves forward in time, what is written is the state reached, an    *)
(* instant is written at most once, and a simulation that ends has written *)
(* the state it ended with.  How a step is divided, retried or taken back  *)
(* does not show.                                                          *)
(***************************************************************************)
EXTENDS Integers, Sequences

VARIABLES
    reached,   \* the instant the solution has reached
    written,   \* the instants that were written, in that order
    ended      \* whether the simulation has ended

vars == <<reached, written, ended>>

Init == reached = 0 /\ written = <<>> /\ ended = FALSE

IsWritten == Len(written) > 0 /\ written[Len(written)] = reached

Advance ==
    /\ ~ ended
    /\ reached' > reached
    /\ UNCHANGED <<written, ended>>

Write ==
    /\ ~ ended /\ ~ IsWritten
    /\ written' = Append(written, reached)
    /\ UNCHANGED <<reached, ended>>

\* The last state is written on the way out, unless it already was.
End ==
    /\ ~ ended
    /\ ended' = TRUE
    /\ written' = IF IsWritten THEN written ELSE Append(written, reached)
    /\ UNCHANGED reached

Next == Advance \/ Write \/ End

Spec == Init /\ [][Next]_vars
=============================================================================
