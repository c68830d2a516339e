\* Two buckets that become four, with collisions before and after.
SPECIFICATION Spec
CONSTANTS
  k1 = k1
  k2 = k2
  k3 = k3
  k4 = k4
  v = v
  Keys = {k1, k2, k3, k4}
  namehash <- MCHash
  Values = {NULL, v}
  NULL = NULL
  rebuildLimit = 1
  Powers = {2, 4, 8, 16, 32}
  MaxSize = 32
  NumBuckets = {0, 2}
INVARIANTS TypeOK NeverOverfull EnumeratesOnce
PROPERTIES IsNameTable
