\* A starts up to two handshakes (with B or with the attacker's router M);
\* every router answers intros, up to two runs per slot; runs may be
\* dropped; the network replays and reorders; the attacker redirects,
\* alters or forges one packet.
CONSTANTS
  Honest = {A, B}
  Initiators = {A}
  Attackers = {M}
  Nonces = {n1, n2, n3, n4, n5}
  Tokens = {t1, t2}
  AttackerTokens = {tm}
  MaxRuns = 2
  MaxAttacks = 1
  Garbage = Garbage
SYMMETRY Symmetry
SPECIFICATION Spec
INVARIANT IntroAuthentic
\* After the bounded runs nothing is left to send: the routers go quiet.
CHECK_DEADLOCK FALSE
