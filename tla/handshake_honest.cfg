\* Two honest routers that both start a handshake with the other, one run
\* each, no attacker; the transport delivers every packet eventually.
\* The system stops when both handshakes are over.
CONSTANTS
  Honest = {A, B}
  Initiators = {A, B}
  Attackers = {}
  Nonces = {n1, n2, n3, n4, n5, n6}
  Tokens = {t1, t2}
  AttackerTokens = {}
  MaxRuns = 1
  MaxAttacks = 0
  Garbage = Garbage
SPECIFICATION FairSpec
INVARIANT TypeOK
INVARIANT KeyAgreement
PROPERTY HandshakeCompletes
CHECK_DEADLOCK FALSE
