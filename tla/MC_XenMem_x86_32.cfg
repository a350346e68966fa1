CONSTANTS
  BITS_PER_LONG = 3
  LOFF_BITS = 5
  PAGE_SHIFT = 1
  STRICT_DEVMEM = FALSE
  Allowed <- MCAllowed
  MaxCount = 2
  Offsets <- MCOffsetsHigh
SPECIFICATION Spec
INVARIANT TransferAtFilePos
