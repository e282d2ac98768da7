SPECIFICATION Spec
CONSTANTS
  Callers = {c1, c2}
  Prober = prober
  NBackends = 2
  MaxCooldown = 1
  StreakCap = 1
  MaxTime = 1
SYMMETRY MCSymmetry
INVARIANTS
  TypeOK
  PickAvoidsDown
  PickFindsUp
  PickFailsOpen
