\* Two honest routers and an attacker router; two envelope objects, each
\* sealed by any router for an honest router's key or a bad key; payloads
\* of 0 and 1 bytes; two nonces.  Each envelope is sealed, delivered and
\* opened once, so the routers go quiet at the end.
CONSTANTS
  Honest = {A, B}
  Attackers = {M}
  Envs = {e1, e2}
  Nonces = {n1, n2}
  Plain = {p1}
  Lens = {0, 1}
  Low = Low
  Flip = Flip
SYMMETRY Symmetry
SPECIFICATION Spec
CHECK_DEADLOCK FALSE
INVARIANT TypeOK
INVARIANT EnvelopeAuthentic
INVARIANT UnchangedOnFailure
INVARIANT RoundTrip
