CONSTANTS
  a = a
  b = b
  Netifs <- MCNetifs2
  netbk_nr_groups = 2
  UINT_MAX = 255
  MaxReqs = 1
  PoolSlots = 1
SPECIFICATION Spec
INVARIANT TypeOK
INVARIANT GroupLoadAccurate
INVARIANT RefcountBalance
PROPERTY UpPicksLeastLoaded
PROPERTY DisconnectCompletes
VIEW MCView
