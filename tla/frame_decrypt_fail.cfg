\* One pool worker and the logic thread; a decrypt job handed a frame that
\* was altered on the way (or MACed under another session's key).
CONSTANTS
  Workers = {w1}
  Logic = Logic
  j1 = j1
  j2 = j2
  j3 = j3
  j4 = j4
  Jobs = {j1, j2, j3, j4}
  Kind <- MCKind
  Keys = {k1, k2}
  Nonces = {n1, n2}
  Plain = {m1}
  Flip = Flip
  NoJob = NoJob
SYMMETRY Symmetry
SPECIFICATION Spec
CHECK_DEADLOCK FALSE
INVARIANT FailedFrameUntouched
