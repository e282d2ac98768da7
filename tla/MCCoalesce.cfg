SPECIFICATION Spec
CONSTANTS
  k1 = k1
  Clients = {c1, c2, c3}
  None = None
  Keys = {k1}
  KeyOf <- MCKeyOf
  Chunks = 2
SYMMETRY MCSymmetry
CHECK_DEADLOCK FALSE
INVARIANTS
  TypeOK
  OneCallPerKey
  NoLostWakeup
PROPERTIES
  SharesOneAnswer
