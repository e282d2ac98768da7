SPECIFICATION Spec
CONSTANTS
  k1 = k1
  k2 = k2
  r1 = r1
  r2 = r2
  Requests = {r1, r2}
  Keys = {k1, k2}
  WordsOf <- MCWordsOf
  VerdictsOf <- MCVerdictsOf
  Lists <- MCLists
  Workload <- MCWorkload
  OldFiles = {k1}
  MaxClock = 2
  MaxAnswers = 2
  Blank = {}
  Items <- MCItems
  Lower <- MCLower
  Rooted = {}
  Levels <- MCLevels
  Categories <- MCCategories
  KnownFields = {}
SYMMETRY MCSymmetry
INVARIANTS
  PrefilterTypeOK
  FailsClosed
  SpentIsGone
PROPERTIES
  TtlExact
