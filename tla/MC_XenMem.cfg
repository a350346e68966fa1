CONSTANTS
  BITS_PER_LONG = 4
  LOFF_BITS = 4
  PAGE_SHIFT = 1
  STRICT_DEVMEM = TRUE
  Allowed <- MCAllowed
  MaxCount = 3
  Offsets <- MCOffsets
SPECIFICATION Spec
INVARIANT TypeOK
INVARIANT ChunkInOnePage
INVARIANT AccessAllowed
INVARIANT TransferAtFilePos
INVARIANT ResultAccounting
