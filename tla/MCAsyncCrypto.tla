--------------------------- MODULE MCAsyncCrypto ---------------------------
EXTENDS AsyncCrypto, TLC

CONSTANTS j1, j2, j3, j4

\* One request of each way a job function ends: hook on the worker
\* (gen_intro), inform job on the logic thread (verify_intro), and the two
\* frame jobs.
MCKind == (j1 :> "gen_intro") @@ (j2 :> "verify_intro")
          @@ (j3 :> "encrypt") @@ (j4 :> "decrypt")

\* Session keys and nonces are compared only for equality.
Symmetry == Permutations(Keys) \cup Permutations(Nonces)
====
