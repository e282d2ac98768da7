SPECIFICATION FairSpec
CONSTANTS
  k1 = k1
  Clients = {c1, c2}
  None = None
  Keys = {k1}
  KeyOf <- MCKeyOf
  Chunks = 1
CHECK_DEADLOCK FALSE
PROPERTIES
  FollowersAnswered
