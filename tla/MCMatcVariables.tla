--------------------------- MODULE MCMatcVariables ---------------------------
(***************************************************************************)
(* Instances of MatcVariables for TLC.                                     *)
(***************************************************************************)
EXTENDS MatcVariables, TLC

\* A function f(a) with the result _f, beside the variables ans and b.  Names
\* are numbered as strcmp orders them: "_f" < "a" < "ans" < "b".
Underscore == 0
A == 1
AnsName == 2
B == 3
AllNames == {Underscore, A, AnsName, B}
CONSTANTS scalar, vector, other
TwoSizes == {scalar, vector}
TwoValues == {scalar, other}
MCSize == [c \in Contents |-> IF c = vector THEN 3 ELSE 1]

\* Addresses can be exchanged: a free one is like any other.
Addresses == Permutations(Nodes) \cup Permutations(Matrices)
=============================================================================
