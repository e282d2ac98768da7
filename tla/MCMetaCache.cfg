SPECIFICATION Spec
CONSTANTS
  r1 = r1
  r2 = r2
  k1 = k1
  k2 = k2
  k3 = k3
  k4 = k4
  m1 = m1
  m2 = m2
  NoKey = NoKey
  Requests = {r1, r2}
  Keys = {k1, k2, k3, k4}
  KeyOf <- MCKeyOf
  Blocks <- MCBlocks
  ModelOf <- MCModelOf
  Threshold <- MCThreshold
  MetaMax = 1
  MaxOld = 1
CHECK_DEADLOCK FALSE
INVARIANTS
  MetaTypeOK
  PruneBounds
  KvAccounted
PROPERTIES
  CandidateIsBest
