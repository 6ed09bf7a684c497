----------------------------- MODULE MCContainer -----------------------------
(***************************************************************************)
(* Instances of Container for TLC.                                         *)
(***************************************************************************)
EXTENDS Container, TLC

CONSTANTS p1, p2, p3, b1

\* All sessions are of one bundle, and interchangeable.
OneBundle == [p \in Procs |-> b1]

Symmetric == Permutations(Procs)

=============================================================================
