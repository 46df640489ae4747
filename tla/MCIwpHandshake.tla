--------------------------- MODULE MCIwpHandshake ---------------------------
(* Instantiates IwpHandshake for TLC; the constants are given in the cfgs. *)
EXTENDS IwpHandshake, TLC

\* Nonces and tokens are random values compared only for equality.
Symmetry == Permutations(Nonces) \cup Permutations(Tokens)
=============================================================================
