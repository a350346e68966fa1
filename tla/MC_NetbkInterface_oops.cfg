CONSTANTS
  a = a
  b = b
  Netifs <- MCNetifs1
  netbk_nr_groups = 2
  UINT_MAX = 255
  MaxReqs = 1
  PoolSlots = 1
SPECIFICATION Spec
INVARIANT NoOops
