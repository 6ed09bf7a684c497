------------------------------ MODULE MCCaald ------------------------------
(***************************************************************************)
(* Instances of Caald for TLC.                                             *)
(***************************************************************************)
EXTENDS Caald

CONSTANTS u1, u2, i1, i2, p1, p2

Session(u, i, p) == [username |-> u, container_id |-> i, pid |-> p]

\* Sessions of two users, and of one.
TwoSessions == {Session(u1, i1, p1), Session(u2, i2, p2)}
OneSession  == {Session(u1, i1, p1)}

File(n)    == [readable |-> TRUE, max_sessions |-> n]
Unreadable == [readable |-> FALSE, max_sessions |-> 0]

\* A missing limit (the default), a larger one, one that (int) turns into 0 when
\* IntMax = 7, and no file.
TableConfigs == {File(0), File(3), File(16), Unreadable}

\* A limit that fits, and one that (int) turns negative.
ReloadConfigs == {File(2), File(9)}

OneConfig == {File(1)}

=============================================================================
