----------------------------- MODULE MCAccounts -----------------------------
(***************************************************************************)
(* Instances of Accounts for TLC.                                          *)
(***************************************************************************)
EXTENDS Accounts

CONSTANTS u1, u2, s1, s2

S(bundle, enabled, disk, timeout) ==
  [bundle |-> bundle, enabled |-> enabled, disk |-> disk, timeout |-> timeout]

\* Bundles: a path; one that holds an escape; one whose end is taken for a comment; one whose
\* backslash takes the closing quote.
Plain     == << "/b" >>
Escape    == << "/b", Backslash, "t" >>
Commented == << "/b", Quote, Blank, Hash >>
Open      == << "/b", Backslash >>

\* The defaults; the edges of each range from both sides; a user locked out; bundles that mean
\* another path, and that mean none; a number with a leading zero.
SomeSettings ==
  { S(Plain,     TRUE,  Number(2, FALSE), Number(0, FALSE)),
    S(Commented, FALSE, Number(0, FALSE), Number(3, FALSE)),
    S(Plain,     TRUE,  Number(7, FALSE), Number(4, FALSE)),
    S(Escape,    TRUE,  Number(0, FALSE), Number(3, FALSE)),
    S(Plain,     TRUE,  Number(8, FALSE), Number(1, FALSE)),
    S(Open,      TRUE,  Number(2, FALSE), Number(0, FALSE)),
    S(Plain,     TRUE,  Number(1, TRUE),  Number(0, FALSE)) }

OneSetting == { S(Plain, TRUE, Number(2, FALSE), Number(0, FALSE)) }

Symmetric == Permutations({s1, s2}) \cup Permutations({u1, u2})

=============================================================================
