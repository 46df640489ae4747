\* Two pool workers and the logic thread, the same four requests: a
\* gen_intro hook on a worker and the inform_intro hook on the logic
\* thread (or two worker hooks) can run at once.
CONSTANTS
  Workers = {w1, w2}
  Logic = Logic
  j1 = j1
  j2 = j2
  j3 = j3
  j4 = j4
  Jobs = {j1, j2, j3, j4}
  Kind <- MCKind
  Keys = {k1}
  Nonces = {n1, n2}
  Plain = {m1}
  Flip = Flip
  NoJob = NoJob
SYMMETRY Symmetry
SPECIFICATION Spec
CHECK_DEADLOCK FALSE
INVARIANT HooksSerialized
