------------------------------ MODULE MCCaalsh ------------------------------
(***************************************************************************)
(* Instances of Caalsh for TLC.                                            *)
(***************************************************************************)
EXTENDS Caalsh, TLC

CONSTANTS p1, p2, b1

OneBundle == [p \in Procs |-> b1]

\* Logins of one bundle without a timeout differ in nothing.
Symmetry == Permutations(Procs)

=============================================================================
