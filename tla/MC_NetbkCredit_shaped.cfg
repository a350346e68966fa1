CONSTANTS
  BITS_PER_LONG = 3
  HZ = 100
  CreditBytes <- MCCreditBytes
  CreditUsecs <- MCCreditUsecs
  ReqSizes = {1, 3, 4}
  MAX_BURST = 4
  MaxReqs = 3
  MaxGap = 3
SPECIFICATION Spec
INVARIANTS DeferralBounded UnlimitedNeverDefers
PROPERTY EveryRequestSent
