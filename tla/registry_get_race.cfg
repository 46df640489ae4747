\* Two threads with unique PathIDs: one looks a hop up and uses it after
\* MapGet released the lock, the other runs the sweep.
CONSTANTS
  Threads = {t1, t2}
  Hops = {h1}
  OwnPaths = {}
  PathIDs = {i1, i2}
  Routers = {r1}
  Lifetimes = {0}
  MaxTime = 1
  DistinctIDs = TRUE
  NoHop = NoHop
SYMMETRY Symmetry
SPECIFICATION Spec
INVARIANT NoUseAfterFree
