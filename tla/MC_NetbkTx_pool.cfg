CONSTANTS
  n1 = n1
  n2 = n2
  NoNetif = NoNetif
  Netifs <- MCNetifs1
  MAX_PENDING_REQS = 2
  MAX_SKB_FRAGS = 1
  NET_TX_RING_SIZE = 4
  PAGE_SIZE = 2
  ETH_HLEN = 1
  PKT_PROT_LEN = 1
  ReqSizes = {1, 2, 3}
  ReqOffsets = {0, 1}
  MaxReqs = 2
  TxExtraFlags = {FALSE}
  Extras <- MCExtras
  CopySkbMode = "delayed"
  CopyResults <- MCCopyResults
SPECIFICATION Spec
INVARIANT PoolPartition
INVARIANT OneResponsePerRequest
INVARIANT RefcountBalance
INVARIANT FreeSlotsUnmapped
PROPERTY ImplementsTxService
