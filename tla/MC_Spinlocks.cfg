CONSTANTS
  c1 = c1
  c2 = c2
  c3 = c3
  NoCpu = NoCpu
  TICKET_SHIFT = 2
  RW_LOCK_BIAS = 4
SPECIFICATION Spec
INVARIANT TypeOK
INVARIANT MutualExclusion
INVARIANT QueriesAccurate
INVARIANT ByteMutualExclusion
INVARIANT RwExclusion
INVARIANT CountAccounting
PROPERTY FifoRefinement
PROPERTY NoStarvation
PROPERTY ByteLockProgress
PROPERTY RwProgress
