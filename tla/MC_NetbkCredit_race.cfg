CONSTANTS
  BITS_PER_LONG = 3
  HZ = 100
  CreditBytes = {2}
  CreditUsecs = {0}
  ReqSizes = {3}
  MAX_BURST = 4
  MaxReqs = 3
  MaxGap = 1
SPECIFICATION Spec
PROPERTY RefillAddsOneChunk
