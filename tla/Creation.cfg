SPECIFICATION FairSpec
CONSTANTS
  n1 = n1
  n2 = n2
  n3 = n3
  single = single
  list = list
  none = none
  Nodes = {n1, n2, n3}
  Chains <- MCChains
  Networks <- MCNetworks
  Patched = TRUE
  NoBlock = NoBlock
  MaxHeight = 2
  Timeout = 2
CHECK_DEADLOCK FALSE
INVARIANT TypeOK
INVARIANT OneHealthyEnough
INVARIANT KnownBlockFound
PROPERTY Resolves
PROPERTY AlwaysLessLeft
