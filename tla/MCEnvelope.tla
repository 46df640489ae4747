----------------------------- MODULE MCEnvelope -----------------------------
EXTENDS Envelope, TLC

\* Nonces are compared only for equality.
Symmetry == Permutations(Nonces)
====
