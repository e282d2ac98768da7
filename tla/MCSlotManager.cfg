SPECIFICATION PoolSpec
CONSTANTS
  b1 = b1
  b2 = b2
  Requests = {r1, r2, r3}
  Nobody = Nobody
  Backends = {b1, b2}
  KvBackends = {b1}
  NSlots = 3
  BackendOf <- MCBackendOf
  BaseCooldown = 1
  MaxCooldown = 2
  StreakCap = 2
SYMMETRY MCRequestSymmetry
INVARIANTS
  TypeOK
  PermitOwned
  WaitersQueued
  NoIdleWait
  OneSlotPerRequest
PROPERTIES
  FifoHandover
  PoolKeepsPromise
