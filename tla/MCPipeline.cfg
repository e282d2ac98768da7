SPECIFICATION Spec
CONSTANTS
  b1 = b1
  b2 = b2
  Requests = {r1, r2, r3}
  Nobody = Nobody
  Backends = {b1, b2}
  KvBackends = {b1}
  NSlots = 2
  BackendOf <- MCBackendOf
  BaseCooldown = 1
  MaxCooldown = 1
  StreakCap = 1
  Workload <- MCSmallWorkload
  SaveRetries = 1
  Inline = TRUE
SYMMETRY MCRequestSymmetry
INVARIANTS
  PipelineTypeOK
  SavesOwnPrompt
  RetryElsewhere
  SlotCallsNeedKv
  PoolUseMatchesPhase
PROPERTIES
  FailureYieldsSlot
  UsesPoolAsSpecified
