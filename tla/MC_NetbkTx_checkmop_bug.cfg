CONSTANTS
  n1 = n1
  n2 = n2
  NoNetif = NoNetif
  Netifs <- MCNetifs1
  MAX_PENDING_REQS = 4
  MAX_SKB_FRAGS = 2
  NET_TX_RING_SIZE = 4
  PAGE_SIZE = 2
  ETH_HLEN = 1
  PKT_PROT_LEN = 1
  ReqSizes = {1, 3}
  ReqOffsets = {0}
  MaxReqs = 3
  TxExtraFlags = {FALSE}
  Extras <- MCExtras
  CopySkbMode = "delayed"
  CopyResults <- MCCopyResults
SPECIFICATION Spec
INVARIANT PoolPartition
