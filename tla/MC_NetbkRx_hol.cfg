CONSTANTS
  n1 = n1
  n2 = n2
  Netifs <- MCNetifs2
  Copying <- MCCopying
  SG <- MCSG1
  CanQueue = TRUE
  MAX_SKB_FRAGS = 1
  NET_RX_RING_SIZE = 4
  MAX_MFN_ALLOC = 2
  MaxPkts = 1
  MaxRxReqs = 3
SPECIFICATION Spec
PROPERTY CopyingPacketsReleased
