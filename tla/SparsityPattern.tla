--------------------------- MODULE SparsityPattern ---------------------------
(***************************************************************************)
(* What the assembly of a list matrix promises: entries are added one by   *)
(* one, none is lost again, and when it is over every connection that the  *)
(* elements need has its entry, and no other has.                          *)
(***************************************************************************)
CONSTANT Required     \* the pairs <<row, column>> that are to be connected

VARIABLES pattern,    \* those that are
          complete    \* whether the assembly is over

Init == pattern = {} /\ complete = FALSE

AddConnection ==
    /\ ~ complete
    /\ \E connection \in Required \ pattern : pattern' = pattern \cup {connection}
    /\ UNCHANGED complete

Complete ==
    /\ pattern = Required
    /\ complete' = TRUE
    /\ UNCHANGED pattern

Spec == Init /\ [][AddConnection \/ Complete]_<<pattern, complete>>
=============================================================================
