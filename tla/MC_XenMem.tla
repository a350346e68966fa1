----------------------------- MODULE MC_XenMem ------------------------------
EXTENDS XenMem

\* Frame 2 is refused by devmem_is_allowed.
MCAllowed == {0, 1, 3, 4, 5, 6, 7}

\* lseek to a negative position, and forward and back by small steps.
MCOffsets == {-1, 1, 3, 5}

\* A position past the reach of a 32-bit unsigned long (here 3 bits).
MCOffsetsHigh == {9}
=============================================================================
