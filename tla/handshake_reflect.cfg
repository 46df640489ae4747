\* A runs one handshake with B; no router of the attacker's, which only
\* sends one packet on to another address than it was sent to.
CONSTANTS
  Honest = {A, B}
  Initiators = {A}
  Attackers = {}
  Nonces = {n1, n2, n3}
  Tokens = {t1}
  AttackerTokens = {}
  MaxRuns = 1
  MaxAttacks = 1
  Garbage = Garbage
SYMMETRY Symmetry
SPECIFICATION Spec
INVARIANT KeyAgreement
\* After the bounded runs nothing is left to send: the routers go quiet.
CHECK_DEADLOCK FALSE
