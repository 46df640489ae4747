\* One thread runs every registry call (the single logic thread of spec 5);
\* PathIDs are unique, as a relay sees them from random 32-byte IDs.  Two
\* hops, so one can expire while the other stays, and one own path.  A new
\* hop or path takes the two least free IDs (MCFreshIDs), a reduction that
\* holds for liveness, where SYMMETRY does not.  The sweep is strongly fair
\* (periodic timer), the other steps weakly fair.
CONSTANTS
  Threads = {t1}
  Hops = {h1, h2}
  OwnPaths = {p1}
  PathIDs = {1, 2, 3, 4, 5, 6}
  Routers = {r1, r2}
  Lifetimes = {0, 1}
  MaxTime = 2
  DistinctIDs = TRUE
  NoHop = NoHop
  FreshIDs <- MCFreshIDs
SPECIFICATION Spec
INVARIANT TypeOK
INVARIANT PairedEntries
INVARIANT NoDanglingEntry
PROPERTY SweepExact
PROPERTY ExpiredEventuallyFreed
