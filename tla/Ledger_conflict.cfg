\* The validators stop signing and the folds stop at their bounds.
CONSTANTS
  Islands = {a, b}
  Keys <- MCKeys
  Values = {1, 2}
  NodeOverhead = 1
  MaxLedgerSize = 22
  Clients = {c1, c2}
  Validators = {v1, v2, v3, v4}
  Honest = {v1, v2, v3}
  Quorums = {3}
  Roots = {r1, r2}
  Genesis = r0
  MaxHeight = 2
  MaxNow = 1
  FreshnessSecs = 0
  MaxClockSkewSecs = 0
  Folders = {f1, f2}
  StateRoots = {s1, s2}
  Witnesses = {w}
  MaxFolds = 2
  MaxProofs = 2
  RingKeys = {k1, k2, k3}
  KeyLen = 1
  ValueLens = {1, 4}
  MaxEntries = 2
  MaxBytes = 8
SPECIFICATION MCSpec
SYMMETRY Symmetry
CHECK_DEADLOCK FALSE
INVARIANT MergesAgree
