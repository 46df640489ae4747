\* One thread; PathIDs may be shared between hops, as when a path crosses
\* this relay twice (hop i's txID is hop i+1's rxID).
CONSTANTS
  Threads = {t1}
  Hops = {h1, h2}
  OwnPaths = {}
  PathIDs = {i1, i2, i3}
  Routers = {r1}
  Lifetimes = {0, 2}
  MaxTime = 2
  DistinctIDs = FALSE
  NoHop = NoHop
SYMMETRY Symmetry
SPECIFICATION Spec
INVARIANT PairedEntries
