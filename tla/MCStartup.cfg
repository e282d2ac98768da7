SPECIFICATION Spec
CONSTANTS
  Blank <- MCBlank
  Items <- MCItems
  Lower <- MCLower
  Trimmed <- MCTrimmed
  Rooted <- MCRooted
  Levels <- MCLevels
  Categories <- MCCategories
  KnownFields <- MCKnownFields
  IntOf <- MCIntOf
  FloatOf <- MCFloatOf
  BoolOf <- MCBoolOf
  ItemsOf <- MCItemsOf
  BackendsOf <- MCBackendsOf
  Settings <- MCSettings
  RouteClashes <- MCRouteClashes
CHECK_DEADLOCK FALSE
INVARIANTS
  StartupTypeOK
  ServesAsConfigured
