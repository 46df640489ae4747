\* Two pool workers and the logic thread; one request of each kind of job
\* ending; two session keys, two nonces, one plaintext.  Decrypt jobs are
\* handed a frame as sent or altered in one field.  The four requests are
\* run once each, so the threads go quiet at the end.
CONSTANTS
  Workers = {w1, w2}
  Logic = Logic
  j1 = j1
  j2 = j2
  j3 = j3
  j4 = j4
  Jobs = {j1, j2, j3, j4}
  Kind <- MCKind
  Keys = {k1, k2}
  Nonces = {n1, n2}
  Plain = {m1}
  Flip = Flip
  NoJob = NoJob
SPECIFICATION Spec
CHECK_DEADLOCK FALSE
INVARIANT TypeOK
INVARIANT HookOnce
INVARIANT FrameRoundTrip
INVARIANT FrameAuthentic
PROPERTY AllComplete
