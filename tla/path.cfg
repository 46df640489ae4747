\* Paths of one to four hops with two possible random IDs per field (so
\* IDs can collide), two rand() tokens (0 is one rand() can give), two
\* tunnel nonces, the clock up to 3 and up to three PathConfirms.  The path builds once and the
\* frames in flight are finite, so the system comes to rest.
CONSTANTS
  HopCounts = {1, 2, 3, 4}
  PathIDs = {p1, p2}
  Tokens = {0, 1}
  Nonces = {y1, y2}
  MaxTime = 3
  MaxConfirms = 2
  BuildTimeout = 1
  Lifetimes = {2, 4}
  NoToken = NoToken
  NoLatency = NoLatency
SPECIFICATION Spec
CHECK_DEADLOCK FALSE
INVARIANT TypeOK
PROPERTY AbstractPathSpec
PROPERTY LatencyMeasured
PROPERTY BuildResolves
