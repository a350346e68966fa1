------------------------------ MODULE XenMem --------------------------------
(***************************************************************************)
(* /dev/mem for Xen, drivers/xen/char/mem.c: read_mem and write_mem walk   *)
(* the physical range [*ppos, *ppos + count) one page-bounded chunk at a  *)
(* time, ioremap each chunk and copy it to or from the user buffer;       *)
(* memory_lseek moves f_pos and xen_mmap_mem maps a range of frames.       *)
(*                                                                         *)
(* Calls on one open file are sequential (the VFS passes each call the     *)
(* file position and stores it back), so the model has one caller.  Each   *)
(* iteration of a transfer loop is one action; what the hypervisor and    *)
(* the user's memory do (ioremap, copy_*_user, clear_user, the remap      *)
(* hypercall) is a nondeterministic outcome.  Integers keep their width:   *)
(* p is an unsigned long of BITS_PER_LONG bits, f_pos a signed loff_t of  *)
(* LOFF_BITS bits.                                                         *)
(***************************************************************************)
EXTENDS Integers, FiniteSets, Bitwise

CONSTANTS
  BITS_PER_LONG,  \* width of unsigned long and size_t
  LOFF_BITS,      \* width of loff_t (64 in the kernel)
  PAGE_SHIFT,
  STRICT_DEVMEM,  \* CONFIG_STRICT_DEVMEM
  Allowed,        \* the frames devmem_is_allowed accepts
  MaxCount,       \* the largest count passed to read or write
  Offsets         \* offsets passed to lseek

ULONG == 2 ^ BITS_PER_LONG
PAGE_SIZE == 2 ^ PAGE_SHIFT
LOFF_MAX == 2 ^ (LOFF_BITS - 1) - 1

ASSUME /\ PAGE_SHIFT < BITS_PER_LONG /\ BITS_PER_LONG <= LOFF_BITS
       /\ STRICT_DEVMEM \in BOOLEAN /\ MaxCount \in Nat
       /\ Offsets \subseteq -LOFF_MAX - 1 .. LOFF_MAX

\* Arithmetic on a signed loff_t; the kernel builds with -fno-strict-overflow.
LoffWrap(x) == ((x + LOFF_MAX + 1) % (2 * (LOFF_MAX + 1))) - (LOFF_MAX + 1)

\* Errors are returned as negative errno values.  An ioremap ERR_PTR and a
\* failed remap hypercall are taken to carry -ENOMEM.
EPERM == -1
ENOMEM == -12
EFAULT == -14
EINVAL == -22
Errors == {EPERM, ENOMEM, EFAULT, EINVAL}

VARIABLES
  f_pos,   \* file->f_pos
  pc,      \* "idle", or the transfer loop running: "read" or "write"
  p,       \* the loop's physical address (unsigned long)
  count,   \* bytes still to transfer
  done,    \* read or written: bytes transferred so far
  ret,     \* what the last call returned
  op,      \* which call that was
  ppos0,   \* f_pos when the running or last call started
  xfer,    \* bytes moved by that call: buffer offset and physical address
  maps     \* ranges that call ioremapped or mmapped

vars == <<f_pos, pc, p, count, done, ret, op, ppos0, xfer, maps>>

(***************************************************************************)
(* Helpers of the transfer loops.                                          *)
(***************************************************************************)
\* range_is_allowed: walk the frames of [pfn << PAGE_SHIFT, + size).
range_is_allowed(pfn, size) ==
  ~STRICT_DEVMEM
  \/ \A k \in 0 .. (size + PAGE_SIZE - 1) \div PAGE_SIZE - 1 : pfn + k \in Allowed

\* Mutant: every chunk a whole page, as if p were always page aligned.
chunk_size_aligned(a, cnt) == IF PAGE_SIZE < cnt THEN PAGE_SIZE ELSE cnt

\* Mutant: the chunk not capped by count (min_t left out).
chunk_size_nomin(a, cnt) ==
  LET head == ((ULONG - a) % ULONG) & (PAGE_SIZE - 1)
  IN  IF head # 0 THEN head ELSE PAGE_SIZE

\* "Handle first page in case it's not aligned": -p & (PAGE_SIZE - 1) in
\* unsigned long arithmetic, else a whole page; then min_t with count.
chunk_size(a, cnt) ==
  LET head == ((ULONG - a) % ULONG) & (PAGE_SIZE - 1)
      sz   == IF head # 0 THEN head ELSE PAGE_SIZE
  IN  IF sz < cnt THEN sz ELSE cnt

\* The bytes of a chunk: buffer offsets from done, addresses from a.
Moved(a, n) ==
  {[boff |-> done + i, addr |-> (a + i) % ULONG, zero |-> FALSE] : i \in 0 .. n - 1}
Zeroed(n) == {[boff |-> done + i, addr |-> 0, zero |-> TRUE] : i \in 0 .. n - 1}

\* "*ppos += n; return n", or an early return that leaves *ppos alone.
Return(n) ==
  /\ f_pos' = LoffWrap(f_pos + n) /\ ret' = n /\ pc' = "idle"
Fail(e) == f_pos' = f_pos /\ ret' = e /\ pc' = "idle"

\* The VFS's rw_verify_area: a non-negative position that count cannot
\* push past the loff_t range.
Start(kind, cnt) ==
  /\ pc = "idle" /\ f_pos >= 0 /\ f_pos + cnt <= LOFF_MAX
  /\ pc' = kind /\ op' = kind
  /\ p' = f_pos % ULONG          \* unsigned long p = *ppos
  /\ count' = cnt /\ done' = 0 /\ ppos0' = f_pos
  /\ xfer' = {} /\ maps' = {}
  /\ UNCHANGED <<f_pos, ret>>

\* Mutant: buf, count and read advance, p does not.
Advance_nop(sz) ==
  /\ p' = p /\ count' = count - sz /\ done' = done + sz
  /\ UNCHANGED <<f_pos, pc, ret>>

\* The loop's last three statements after a full chunk of sz bytes.
Advance(sz) ==
  /\ p' = (p + sz) % ULONG /\ count' = count - sz /\ done' = done + sz
  /\ UNCHANGED <<f_pos, pc, ret>>

(***************************************************************************)
(* read_mem.                                                               *)
(***************************************************************************)
SysRead == \E cnt \in 0 .. MaxCount : Start("read", cnt)

\* Mutant: the range checked once, before the first chunk.
read_range_checked_once(a, cnt) == done > 0 \/ range_is_allowed(shiftR(a, PAGE_SHIFT), cnt)

\* range_is_allowed(p >> PAGE_SHIFT, count), on every iteration.
read_range_checked(a, cnt) == range_is_allowed(shiftR(a, PAGE_SHIFT), cnt)

\* One iteration of the while loop.  range_is_allowed is given the whole
\* remaining count; a failed ioremap fakes a read of zeroes for the rest.
ReadChunk ==
  LET sz == chunk_size(p, count) IN
  /\ pc = "read" /\ count > 0
  /\ IF ~read_range_checked(p, count)
     THEN Fail(EPERM) /\ UNCHANGED <<p, count, done, xfer, maps>>
     ELSE \/ /\ \E cleared \in 0 .. count :     \* ioremap failed
                 /\ xfer' = xfer \cup Zeroed(cleared)
                 /\ IF cleared < count THEN Fail(EFAULT) ELSE Return(done + count)
             /\ UNCHANGED <<p, count, done, maps>>
          \/ /\ maps' = maps \cup {[addr |-> p, sz |-> sz, kind |-> "io"]}
             /\ \E ignored \in 0 .. sz :         \* copy_to_user
                 /\ xfer' = xfer \cup Moved(p, sz - ignored)
                 /\ IF ignored > 0
                    THEN Fail(EFAULT) /\ UNCHANGED <<p, count, done>>
                    ELSE Advance(sz)
  /\ UNCHANGED <<op, ppos0>>

ReadDone ==
  /\ pc = "read" /\ count = 0
  /\ Return(done)
  /\ UNCHANGED <<p, count, done, op, ppos0, xfer, maps>>

(***************************************************************************)
(* write_mem.                                                              *)
(***************************************************************************)
SysWrite == \E cnt \in 0 .. MaxCount : Start("write", cnt)

\* Mutant: a short copy counted as a whole chunk.
WriteCopied_whole(sz, ignored) == done + sz

\* written += sz - ignored.
WriteCopied(sz, ignored) == done + sz - ignored

\* One iteration: the range check is on this chunk; ioremap returning NULL
\* ends the loop, an ERR_PTR does so unless nothing was written; a short
\* copy returns what it wrote, or -EFAULT if that is nothing.
WriteChunk ==
  LET sz == chunk_size(p, count) IN
  /\ pc = "write" /\ count > 0
  /\ IF ~range_is_allowed(shiftR(p, PAGE_SHIFT), sz)
     THEN Fail(EPERM) /\ UNCHANGED <<p, count, done, xfer, maps>>
     ELSE \/ Return(done) /\ UNCHANGED <<p, count, done, xfer, maps>>
          \/ /\ IF done = 0 THEN Fail(ENOMEM) ELSE Return(done)
             /\ UNCHANGED <<p, count, done, xfer, maps>>
          \/ /\ maps' = maps \cup {[addr |-> p, sz |-> sz, kind |-> "io"]}
             /\ \E ignored \in 0 .. sz :         \* copy_from_user
                 /\ xfer' = xfer \cup Moved(p, sz - ignored)
                 /\ IF ignored > 0
                    THEN /\ IF WriteCopied(sz, ignored) # 0
                            THEN Return(WriteCopied(sz, ignored))
                            ELSE Fail(EFAULT)
                         /\ UNCHANGED <<p, count, done>>
                    ELSE Advance(sz)
  /\ UNCHANGED <<op, ppos0>>

WriteDone ==
  /\ pc = "write" /\ count = 0
  /\ Return(done)
  /\ UNCHANGED <<p, count, done, op, ppos0, xfer, maps>>

(***************************************************************************)
(* memory_lseek and xen_mmap_mem.                                          *)
(***************************************************************************)
\* SEEK_SET and SEEK_CUR under i_mutex; SEEK_END is -EINVAL.
memory_lseek ==
  /\ pc = "idle"
  /\ \E offset \in Offsets, orig \in 0 .. 2 :
       IF orig = 2 THEN Fail(EINVAL)
       ELSE LET pos == IF orig = 0 THEN offset ELSE LoffWrap(f_pos + offset)
            IN  f_pos' = pos /\ ret' = pos /\ pc' = "idle"
  /\ op' = "lseek"
  /\ UNCHANGED <<p, count, done, ppos0, xfer, maps>>

\* A mapping of npages frames from vm_pgoff.  phys_mem_access_prot_allowed
\* and direct_remap_pfn_range are outside this file and may refuse.
xen_mmap_mem ==
  /\ pc = "idle"
  /\ \E pgoff \in 0 .. (LOFF_MAX + 1) \div PAGE_SIZE - 1, npages \in 1 .. 2 :
       LET size == npages * PAGE_SIZE IN
       IF ~range_is_allowed(pgoff, size)
       THEN ret' = EPERM /\ maps' = {}
       ELSE \/ ret' = EINVAL /\ maps' = {}
            \/ /\ maps' = {[addr |-> pgoff * PAGE_SIZE, sz |-> size, kind |-> "mmap"]}
               /\ ret' \in {0, ENOMEM}
  /\ op' = "mmap" /\ xfer' = {}
  /\ UNCHANGED <<f_pos, pc, p, count, done, ppos0>>

Init ==
  /\ f_pos = 0 /\ pc = "idle" /\ p = 0 /\ count = 0 /\ done = 0
  /\ ret = 0 /\ op = "open" /\ ppos0 = 0 /\ xfer = {} /\ maps = {}

Next ==
  \/ SysRead \/ ReadChunk \/ ReadDone
  \/ SysWrite \/ WriteChunk \/ WriteDone
  \/ memory_lseek \/ xen_mmap_mem

Spec == Init /\ [][Next]_vars

(***************************************************************************)
(* Properties.                                                             *)
(***************************************************************************)
TypeOK ==
  /\ f_pos \in -LOFF_MAX - 1 .. LOFF_MAX
  /\ pc \in {"idle", "read", "write"} /\ p \in 0 .. ULONG - 1
  /\ count \in 0 .. MaxCount /\ done \in 0 .. MaxCount
  /\ ret \in Int /\ ppos0 \in 0 .. LOFF_MAX
  /\ xfer \subseteq [boff : 0 .. MaxCount - 1, addr : 0 .. ULONG - 1, zero : BOOLEAN]
  /\ maps \subseteq [addr : Nat, sz : Nat, kind : {"io", "mmap"}]

(* Every ioremap of read_mem and write_mem covers at least one byte and    *)
(* stays inside one page, whatever the alignment of *ppos and the count:   *)
(* the "first page not aligned" arithmetic on -p.                          *)
ChunkInOnePage ==
  \A m \in maps :
    m.kind = "io" =>
      /\ m.sz >= 1
      /\ m.addr \div PAGE_SIZE = (m.addr + m.sz - 1) \div PAGE_SIZE

(* With CONFIG_STRICT_DEVMEM, nothing outside the frames devmem_is_allowed *)
(* accepts is ever ioremapped or mmapped, although range_is_allowed counts *)
(* its size from the start of the frame rather than from the address.      *)
AccessAllowed ==
  STRICT_DEVMEM =>
    \A m \in maps : \A a \in m.addr .. m.addr + m.sz - 1 : a \div PAGE_SIZE \in Allowed

(* "The f_pos points directly to the memory location": the byte at offset *)
(* i of the user buffer is copied from or to physical address *ppos + i.   *)
TransferAtFilePos ==
  \A x \in xfer : ~x.zero => x.addr = ppos0 + x.boff

(* When read_mem or write_mem returns n >= 0, exactly the first n bytes of *)
(* the buffer were transferred and *ppos moved by n; when it returns an   *)
(* error, *ppos has not moved.  A short copy_from_user is the hard case.   *)
ResultAccounting ==
  (pc = "idle" /\ op \in {"read", "write"}) =>
    IF ret >= 0
    THEN /\ {x.boff : x \in xfer} = 0 .. ret - 1
         /\ f_pos = ppos0 + ret
    ELSE f_pos = ppos0

=============================================================================
