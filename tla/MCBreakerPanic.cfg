SPECIFICATION Spec
CONSTANTS
  Callers = {c1, c2}
  Prober = prober
  NBackends = 1
  MaxCooldown = 1
  StreakCap = 1
  MaxTime = 1
INVARIANTS
  PickNeverPanics
