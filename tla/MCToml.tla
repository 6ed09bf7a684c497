------------------------------- MODULE MCToml -------------------------------
(***************************************************************************)
(* Instances of Toml for TLC.                                              *)
(***************************************************************************)
EXTENDS Toml

CONSTANTS ka, kb, kc

\* Keys of every length up to one more than allowed, on the same few tables.
SomeKeys   == {<<ka>>, <<kb>>, <<kc>>, <<ka, kb>>, <<kb, ka>>, <<ka, kb, ka>>, <<ka, kb, kc>>, <<ka, kb, ka, kc>>}
BraceKeys  == {<<ka>>, <<kb>>, <<ka, kb>>}

=============================================================================
