# TLA+ models of the Xen netback driver (OCTEON-Linux)

This directory holds TLA+ models of the concurrent parts of the repository,
mainly the Xen network backend in `src/linux/drivers/xen/netback/`. Each
model comes with the TLC configurations that check it. `PROJECT.json` lists
the components, the runs, the mutants that show each property can fail, the
source lines every definition translates, the findings and the hazards.

## The system

The netback driver is the host side of Xen paravirtual networking. Guests
(frontends) and the backend share two rings per interface (`netif_t`):

* **tx ring**: the guest posts transmit requests (`netif_tx_request_t`).
  Each request names a granted page, an offset, a size and a `more_data`
  flag that chains fragments into one packet. The backend answers every
  request exactly once with OKAY or ERROR (`make_tx_response`).
* **rx ring**: the guest posts receive buffers, and the backend copies or
  flips packets from the host network stack into them (`net_rx_action`).

Interfaces are spread over *groups* (`struct xen_netbk`). Each group has one
worker (`netbk_action_thread` in kthread mode, or tasklets). Each group also
owns:

* **PendingPool**: `MAX_PENDING_REQS` page slots. Free slots sit on
  `pending_ring` between `pending_cons` and `pending_prod`. Slots whose
  pages the stack has released are staged on `dealloc_ring` by
  `netif_idx_release`, which any CPU can call under `release_lock`.
* **Scheduler**: `net_schedule_list` holds the interfaces with unconsumed
  requests. Being on the list holds one interface reference. The event
  channel handler `netif_be_int` and `netif_schedule_work` add interfaces;
  the worker takes them off.
* **TxEngine**: `net_tx_action` does one pass of the following steps:
  1. unmap and answer the staged slots (`net_tx_action_dealloc`);
  2. take one packet per loop from the head interface, validate it
     (`netbk_count_requests`, sizes, page crossing), allocate its slots and
     queue its grant-map operations;
  3. issue one batched map hypercall;
  4. check every status (`netbk_tx_check_mop`);
  5. pass good packets to the stack (`netbk_fill_frags`, `netif_rx`).

  The stack drops its page references at any later time.
  `netif_page_release` then stages the slot for the next pass.
* **Credit limiter**: `tx_add_credit` and `credit_timeout` rate-limit a
  guest's transmit. The default credit is unlimited (`interface.c:241`).
  The timer callback refills and re-lists the interface from timer
  softirq context, concurrently with the worker.
* **Interface lifecycle** (`interface.c`): `netif_alloc` sets the refcount
  to 1. `netif_map` takes a second reference and `__netif_up` picks the
  least-loaded group. `netif_disconnect` drops both references and waits for
  the count to reach 0.

Outside netback, the repository contains:

* the x86 Xen spinlocks (`spinlock.h`): the ticket lock, the byte lock of
  builds without `TICKET_SHIFT`, and the read-write lock;
* `/dev/mem` for Xen (`mem.c`);
* page-table allocation wrappers (`pgalloc.h`);
* a cache-flush hypercall wrapper;
* the Octeon PTP clock source;
* Solarflare `efhw` type headers;
* RapidIO sysfs attributes.

## Modules

### `NetbkTx`: transmit path of one group

State:

| variable   | code |
|------------|------|
| `netif[n]` | the interface's tx ring: `reqs`, `req_cons` and `req_event` on the backend side, responses `rsps`, `refcnt`, and `irq` (a pending event-channel notification) |
| `netbk`    | `pending_ring/prod/cons`, `dealloc_ring/prod/cons`, `pending_tx_info` (the request and owner of each slot), `mapped` (the slot's grant is mapped, i.e. `phys_to_machine_mapping_valid`), `net_schedule_list` (`sched`), `tx_queue` (queued skbs: header slot, `frags[]` slots, bytes in the head), `tx_map_ops` (`mops`, `mop_status`, `mop_cons`), `pending_inuse` (the list `pending_inuse_head`: slot and whether its `alloc_time + HZ/2` has passed), `tx_pending_timer` (armed) |
| `held[s]`  | references the network stack holds on slot `s`'s page |
| `pc`       | where the worker is in `net_tx_action`: `idle`, `build` (build loop), `map` (before the hypercall), `check` (dequeue loop) |
| `sleeping` | the worker is blocked in `wait_event_interruptible` |

The helpers are named after the C functions. Each one transforms a record
`[nb, nf, held, wake]`, so an action calls them in the order the code does.
`wake` records a `wake_up(&netbk_action_wq)`, which clears `sleeping`.

Actions:

| action | code |
|--------|------|
| `TxActionStart` | the worker finds `tx_work_todo`, calls `net_tx_action` and runs the whole dealloc pass, including the delayed-copy loop over `pending_inuse_head` (`CopyLoop`), with each `copy_pending_req` outcome drawn from `CopyResults` |
| `WorkerSleep` | `wait_event_interruptible` with no work |
| `TxBuildNext` | one iteration of the build loop: take the head interface, the final check, count requests; then each error path (`netbk_tx_err`), the `alloc_skb` failure that leaves the loop, or `TxQueuePacket` (allocate slots, `netbk_get_requests`, `netif_schedule_work`, leave when `tx_map_ops` is full) |
| `TxBuildDone` | the loop condition fails |
| `TxMap` | the batched map hypercall; each status is chosen freely |
| `TxCheckNext` | one skb of the dequeue loop: `netbk_tx_check_mop` with every error and unwind path as written, including the index used at line 1174; then the head/fragment split and `netbk_fill_frags` |
| `TxCheckDone` | the queue is empty; the code at `out:` arms `tx_pending_timer` when the list is not empty (`tx_action_out`, also taken from the build loop when no map was queued) |
| `PageRelease(s)` | the stack drops a page reference; the last one runs `netif_page_release` |
| `InuseAge` | jiffies pass the oldest young entry's `alloc_time + HZ/2`; old entries stay a prefix of the list, as `alloc_time` grows along it |
| `netbk_tx_pending_timeout` | the timer fires: `wake_up(&netbk_action_wq)` in kthread mode |
| `NetifBeInt(n)` | the event-channel interrupt |
| `GuestTx(n)` | the frontend pushes a request and notifies if it crossed `req_event`; its `NETTXF_extra_info` flag is drawn from `TxExtraFlags`. This code is not in the repository, so it is modelled from the ring protocol |
| `GuestTxGso(n)` | the frontend pushes, in one `RING_PUSH_REQUESTS`, a header flagged `NETTXF_extra_info` and the extra-info slot behind it, drawn from `Extras` |
| `Quiescent` | a terminal stutter, allowed only when every guest has posted its requests and nothing is pending; any other stop is reported as a deadlock |

Abstractions:

* Payload bytes, checksum flags, statistics and grant references are left
  out.
* Extra-info requests are kept. A request record has an `extra` flag
  (`NETTXF_extra_info`) and an `info` field: the same ring slot read as a
  `netif_extra_info` (`type`, `more`, `size`, `gtype`). `GetExtras` is
  `netbk_get_extras`' loop: `-EBADR` when `work_to_do` runs out, `-EINVAL`
  with the slot consumed for a zero or unknown type, otherwise one slot
  consumed per record while `more` is set. `TxBuildNext` passes the result
  on to `netbk_count_requests` as the code does. `netbk_set_skb_gso`'s
  check turns a bad GSO record into `netbk_tx_err`. `make_tx_response`
  writes the extra `NETIF_RSP_NULL` response for every flagged request.
* The credit branch is not taken, which matches the default unlimited credit.
* The copy mode is the constant `CopySkbMode`. netback_init (lines
  1801-1807) picks `NETBK_DELAYED_COPY_SKB` when `copy_skb` is set (the
  default, line 93) and the hypervisor has `GNTTABOP_unmap_and_replace`;
  the runs use that mode. `netbk_fill_frags` puts every fragment slot on
  `pending_inuse_head`. The dealloc pass copies the old entries in list
  order: 0 answers the request and frees the slot (the stack now holds a
  local copy, so `held` drops to 0), `-EBUSY` takes the entry off the list,
  `-ENOENT` (the page's count is already 0) leaves it, and any other
  result (`-ENOMEM`) stops the loop. `gnttab_copy_grant_page` is not in
  this repository, so its outcome is a free choice, except that `-ENOENT`
  is what a slot no longer held gets.
* `NETBK_ALWAYS_COPY_SKB` (no `unmap_and_replace`) only linearizes the
  skb (lines 1496-1501), which changes when the stack lets go of the
  pages; `PageRelease` already lets that happen at any time, so it is not
  a separate branch. `permute_returns` (off by default, line 96) is not
  modelled.
* Only the kthread mode is modelled.
* Each interface is assumed connected and schedulable.
* The dealloc pass is atomic: releases that would land during it are
  ordered before or after the pass. The re-read loop (line 991) only
  matters for releases during the pass, and a release after it is staged
  for the next pass, which `netif_idx_release`'s wake starts.

### `TicketSpinlock` and `FifoLock`: the Xen ticket spinlock

`TicketSpinlock` models `arch/x86/include/mach-xen/asm/spinlock.h`.
`lock->slock` is split into `head` (the low part, the ticket being served)
and `tail` (the high part, the next ticket to hand out). Both are counters
modulo `2^TICKET_SHIFT`. Each asm block is one atomic step:

| action | code |
|--------|------|
| `LockPreamble(c)` | `__ticket_spin_lock_preamble`: `lock xadd` of `1 << TICKET_SHIFT`; the old tail is the CPU's ticket |
| `LockBody(c)` | `__ticket_spin_lock_body`: the reload that finds the head equal to the ticket |
| `LockSpin(c)` | one turn of the same loop that finds another head (`rep; nop`); a stutter |
| `TryRead(c)` | `__ticket_spin_trylock`: the load of `slock`; give up if locked |
| `TryCas(c)` | the `lock cmpxchg` of the word read, with the tail advanced |
| `Unlock(c)` | `__ticket_spin_unlock`: `incb`/`incw` of the head only |

`xen_spin_wait` and `xen_spin_kick` live outside the repository. They only
delay a waiter, so a waiter is modelled as polling. Because a waiter
busy-loops, a starved waiter shows up as a liveness violation and never as
a deadlock.

`FifoLock` is the abstract lock the header's comment promises ("fair FIFO
ticket locks"). It has a queue of CPUs in request order, and only the head
of the queue may hold the lock. `TicketSpinlock` maps the CPUs holding
tickets `head, head+1, ...` onto that queue (`TicketQueue`). It maps "some
CPU is in its critical section" onto `inCS`. It is checked to refine
`FifoLock` through `Fifo == INSTANCE FifoLock WITH ...`.

The ticket lock is checked in run `spinlocks` (below) with 3 CPUs and
`TICKET_SHIFT = 2`, where its part of the state space has 14.7k states.
The run checks:

* `MutualExclusion`;
* `QueriesAccurate`: `__ticket_spin_is_locked` and `__ticket_spin_is_contended`,
  computed from the counters, agree with what the CPUs are doing;
* `FifoRefinement`;
* `NoStarvation`: under weak fairness on `LockBody`, `TryCas` and `Unlock`,
  a CPU that has taken a ticket eventually holds the lock.

Three CPUs with 2-bit counters is the largest CPU count the header allows
for that width (`NR_CPUS < 2^TICKET_SHIFT`). The counters therefore wrap in
nearly every behaviour, and the queue is full when all three CPUs wait.
The mutants are:

* a word-wide unlock whose carry reaches the tail;
* an unwrapped head;
* a plain store instead of `cmpxchg`;
* an add-return ticket;
* a contention test off by one.

TLC finds each of them.

### `ByteSpinlock` and `RwLock`: the other locks of `spinlock.h`

A build without `TICKET_SHIFT` uses the byte spinlock (lines 271-322).
Every build uses the read-write lock (lines 366-448). Each instruction
that reads or writes the lock word is one atomic step of one CPU.

`ByteSpinlock` has `lock` (the lock byte), `spinners`, and `bpc[c]`, the
position of CPU `c`:

| action | code |
|--------|------|
| `SpinLock(c)` | `__byte_spin_lock` (and `__raw_spin_lock_flags`) is entered |
| `Xchg(c)` | `1: xchgb` of 1; an old 0 means the lock is taken |
| `IncSpinners(c)` | `lock incb spinners` after a failed `xchgb` |
| `SpinExit(c)` | `cmpb $1` finds the byte free; `lock decb`; back to 1 |
| `SpinTrylock(c)` | `__byte_spin_trylock`: one `xchgb`, success iff it read 0 |
| `SpinUnlock(c)` | `__byte_spin_unlock`: `lock->lock = 0` |
| `UnlockWait(c)`, `UnlockWaitDone(c)` | `__raw_spin_unlock_wait`: loop until the byte reads free |

`RwLock` has `rw` (the counter, starting at `RW_LOCK_BIAS`) and `rpc[c]`:

| action | code |
|--------|------|
| `ReadLock(c)` | `__raw_read_lock`: `lock subl $1`; `jns` takes it |
| `ReadFailedInc/Spin/Dec(c)` | `__read_lock_failed`: `incl`; spin until `cmpl $1` is not negative; `decl`; back to the start if negative |
| `WriteLock(c)` | `__raw_write_lock`: `lock subl $RW_LOCK_BIAS`; `jz` takes it |
| `WriteFailedAdd/Spin/Sub(c)` | `__write_lock_failed`: `addl`; spin until the counter is `RW_LOCK_BIAS`; `subl`; back if non-zero |
| `ReadTrylock(c)`, `ReadTrylockUndo(c)` | `__raw_read_trylock`: `atomic_dec_return >= 0`, else `atomic_inc` |
| `WriteTrylock(c)`, `WriteTrylockUndo(c)` | `__raw_write_trylock`: `atomic_sub_and_test`, else `atomic_add` |
| `ReadUnlock(c)`, `WriteUnlock(c)` | `lock incl` / `lock addl $RW_LOCK_BIAS` |

`__read_lock_failed` and `__write_lock_failed` are assembly in
`arch/x86/lib`, which is not in this tree. They are modelled from that
code as the kernel has it, and marked `spec_modelled` in the map.

`MC_Spinlocks` instances `TicketSpinlock`, `ByteSpinlock` and `RwLock`
on the same three CPUs. The initial state chooses which lock the CPUs
contend on (`kind`):

* the ticket lock of a build with `TICKET_SHIFT`;
* the byte lock of a build without it;
* a read-write lock, which both builds have.

A behaviour then steps only that lock. So the state spaces add up
(14.7k + 192 + 1.1k = 16k states, 5 s) instead of multiplying, and the
properties of the other two locks hold trivially in it. The locks share
no word, so checking them together would add no interleaving that
matters.

Run `spinlocks` (`MC_Spinlocks.cfg`, `TICKET_SHIFT = 2`,
`RW_LOCK_BIAS = 4`) checks the ticket properties above and these:

* **ByteMutualExclusion**: at most one CPU owns the byte lock, and the
  byte is 1 exactly while one does. A failing `xchgb` (of `lock` or
  `trylock`) writes 1 over a 1.
* **ByteLockProgress**: while a CPU is in `__byte_spin_lock`, some CPU
  eventually owns the lock. A given CPU can still be overtaken for ever.
* **RwExclusion**: a writer never owns the lock together with any other
  CPU. The interesting case is a writer's `subl` landing between the
  `cmpl` and the `decl` of `__read_lock_failed`.
* **CountAccounting**: `rw` is `RW_LOCK_BIAS` less 1 per reader and
  `RW_LOCK_BIAS` per writer that has subtracted and not yet added back.
  That covers owners, the first step of each failed path and failed
  trylocks.
* **RwProgress**: while a CPU waits in a slow path, eventually some CPU
  owns the lock or a failed trylock still holds its subtraction. TLC
  showed that the second disjunct is needed. A stream of failing
  trylocks keeps the counter below `RW_LOCK_BIAS` and starves every
  waiter while nobody owns the lock: a writer in `wspin` then never sees
  `RW_LOCK_BIAS`.

The mutants are:

* `SpinTrylock_inverted`: success on an old 1;
* `SpinExit_swapped`: `jne` for `je`, spinning on a free byte;
* `ReadFailedDec_nocheck`: the `decl` without its `js`;
* `ReadTrylock_noundo`: a failed trylock without `atomic_inc`;
* `WriteFailedAdd_norestore`: spinning without adding the bias back.

TLC finds each of them.

Bounds and fairness:

* Three CPUs give two readers and a writer, two writers and a reader, or
  a trylock beside a slow path.
* `RW_LOCK_BIAS = 4` is above the CPU count, as the real `0x01000000` is
  above `NR_CPUS`. A reader therefore fails only because of a writer,
  never because too many readers hold the lock.
* Integers are unbounded. With the real bias and 32 bits, `rw` cannot
  overflow for fewer than 128 CPUs that subtract at once.
* Weak fairness applies to every step a CPU takes after it has entered a
  lock operation, and to unlocking. A spinning CPU keeps executing, and
  critical sections end. An idle CPU is not required to take a lock.

### `NetbkRx`: receive path of one group

The network stack hands packets for a guest to `netif_be_start_xmit`, which
queues them on the group's `rx_queue`. The worker's `net_rx_action` then
moves them into buffers the guest has posted on its rx ring. It uses grant
copies for a *copying receiver* and page flips (grant transfers) otherwise.

State:

| variable | code |
|----------|------|
| `ring[n]` | the rx ring: `req_prod`, `req_event`, `rsp_event`, `rsp_cons` (guest side of the shared ring); `req_cons`, `rsp_prod_pvt` (backend); `peek` = `rx_req_cons_peek` |
| `refcnt[n]`, `stopped[n]`, `qtimer[n]` | `netif->refcnt`, `netif_queue_stopped`, `tx_queue_timeout` pending |
| `irq[n]`, `gnotify[n]` | an event pending to the backend (`netif_be_int`), or to the guest |
| `xmit[n]` | the skb `netif_be_start_xmit` holds between its recheck and `netif_stop_queue` |
| `rx_queue`, `rxq`, `count` | `netbk->rx_queue`; the pass's local batch; its operation count |
| `alloc_index`, `net_timer` | free fresh frames in `mfn_list`; the memory-squeeze timer |
| `rx_notify`, `notify_list` | the dedup bitmap and the pass's list of interfaces to notify |
| `pc`, `sleeping` | where the worker is in `net_rx_action`; blocked in `wait_event` |

An skb is abstracted to `[n, frags, gso]`: its interface, its fragment
count and whether it has a GSO extra-info slot. `Slots(s)` is the number
of rx requests it consumes. The grant operations of an skb are abstracted
to the one outcome `netbk_check_gop` derives from them: okay or error,
which differ only in the status written, and, for copies only,
`GNTST_eagain`. Actions:

| action | code |
|--------|------|
| `netif_be_start_xmit(n, s)` | the drop path, or the `rx_req_cons_peek` charge, `netif_get`, and the `req_event` arm with `mb()` and recheck. A full ring leaves the skb in `xmit[n]`; otherwise it is queued and the worker woken |
| `XmitStop(n)` | `netif_stop_queue`, the 500ms timer, `skb_queue_tail`, `wake_up` |
| `RxActionStart`, `WorkerSleep` | `netbk_action_thread` with `rx_work_todo` |
| `RxBuildNext` | one dequeue iteration: `check_mfn` for flipping receivers (the squeeze path requeues at the head and arms `net_timer`), then `netbk_gop_skb` and the batch-full test |
| `RxBuildDone`, `RxMulticall` | loop end; the multicall, or the early return on an empty batch |
| `RxCheckNext` | one check iteration: responses, push and notify test, `rx_notify` dedup, queue wake, then `netif_put` or the eagain requeue |
| `RxCheckDone` | clear the bits and notify everyone on `notify_list` |
| `NetAlarm`, `tx_queue_callback(n)`, `netif_be_int(n)` | the two timers, and the rx half of the interrupt |
| `GuestRxPost(n)`, `GuestRxConsume(n)` | the frontend (not in the repository), from the ring protocol |

The modelled helpers named after code are `check_mfn`, `netbk_gop_skb`,
`netbk_queue_full`, `rx_responses`, `eagain_requeue`, `requeue_charge`,
`rx_put` and `rx_notify_add`. Each mutant replaces one of them.

Runs:

| run | cfg | checks | result |
|-----|-----|--------|--------|
| `rx_pair` | `MC_NetbkRxPair.cfg` | `TypeOK` (which bounds `alloc_index`), `PeekAccounting`, `RxNoOverrun`, `ResponsesMatchRequests`, `RefcountBalance`, `NotifyOncePerPass`, `NoLostNotification`, `QueueRestarts`, `CopyingPacketsReleased` | pass, 392k states |
| `rx_hol_blocking` | `MC_NetbkRx_hol.cfg` | `CopyingPacketsReleased` with a flipping receiver | **violation** (spec divergence) |

What the properties say:

* **PeekAccounting**: `rx_req_cons_peek` runs ahead of `req_cons` by
  exactly the slots of the interface's queued skbs. This includes those
  requeued after eagain, whose first attempt already consumed requests.
* **RxNoOverrun**: `req_cons` never passes the guest's `req_prod`.
* **ResponsesMatchRequests**: every consumed request is answered, GSO
  slot included.
* **RefcountBalance**: one reference per queued skb, plus the two base
  references.
* **NotifyOncePerPass**: spec.md §8 notification dedup.
* **NoLostNotification**: responses past the guest's `rsp_event` always
  have a notification pending for it.
* **QueueRestarts**: a stopped queue is always restarted. This covers a
  wake lost between the recheck and `netif_stop_queue`: only the timer
  restarts the queue then.
* **CopyingPacketsReleased**: every skb of a copying receiver is
  eventually released.

**Finding (head-of-line blocking, line 591).** On a memory squeeze,
`check_mfn` fails for a flipping receiver's skb. That skb goes back to the
head of the shared `rx_queue` and the pass ends. As long as the hypervisor
grants no frames, every packet behind it waits. That includes packets for
copying receivers, which need no frames. `netif_disconnect` of those
interfaces then waits on their references. spec.md §7 says resource
exhaustion defers only "the affected interface/packet". TLC's lasso:

1. `rx_queue = <<skb for n2 (flip), skb for n1 (copy)>>`;
2. squeeze; `net_alarm`; squeeze; and so on, forever;
3. n1's reference is never dropped.

Bounds:

* `MAX_SKB_FRAGS = 1` and `NET_RX_RING_SIZE = 4`. An SG interface then
  needs 3 free buffers (`MAX_SKB_FRAGS + 2`). The batch fills at 3
  operations, so two packets can share a pass and the batch-full break is
  taken.
* `MC_NetbkRxPair` puts two deployments in one run. `Init` picks `kind`,
  and each behaviour then steps only the instance of that kind, so the two
  state spaces add up rather than multiply.
  * `"copy"`: one copying SG receiver, offered 5 packets with up to 9
    posted buffers. That is enough for eagain retries, for a full ring and
    so a stopped queue, and for two pushes to one interface in one pass.
  * `"flip"`: n1 copying without SG, so it gets several packets per pass,
    and n2 a flipping SG receiver, which needs 2 frames from a pool of
    `MAX_MFN_ALLOC = 2`, so `check_mfn` fails and arms `net_timer`.
  * The safety properties are checked in both. The liveness properties are
    checked in `"copy"` only, under the fairness below; `rx_hol_blocking`
    shows why `CopyingPacketsReleased` fails once a flipping receiver
    shares the queue.

Fairness:

* Weak fairness for the worker, both timers, event delivery and the
  second half of `netif_be_start_xmit`.
* None for the guest or the hypervisor, which may refuse frames or answer
  eagain for ever.

### `NetbkCredit`: the credit limiter of one interface

This module models:
* the credit branch of `net_tx_action`'s build loop (`netback.c` 1284-1335);
* `tx_add_credit` (864-882);
* `tx_credit_callback` (884-889), run by `credit_timeout`.

One interface is modelled. What the build loop does with a request after
the credit check is `NetbkTx`'s subject, so here a request within credit is
simply consumed.

State:

| variable | code |
|----------|------|
| `reqs`, `req_cons`, `req_event`, `irq` | the tx ring (request sizes only) and the pending event-channel notification |
| `on_list` | the interface is on `net_schedule_list` |
| `credit_bytes`, `credit_usec`, `remaining_credit` | the rate and the bucket |
| `age` | `jiffies - credit_timeout.expires`, as an unsigned long |
| `timer_pending` | `timer_pending(&credit_timeout)` |
| `cb`, `cb_credit` | where `tx_credit_callback` is, and the value its `tx_add_credit` computed but has not stored |

`credit_timeout.expires` has two roles in the code:
* while the timer is idle, it is the start of the credit window;
* while the timer is pending, it is the timer's expiry, because `mod_timer`
  stores `next_credit` in it.

The model keeps one `age` for both roles, as the code does.
`BITS_PER_LONG` sets the width of the credit and the jiffies. `signed` and
`time_after_eq` compute the signed difference `(long)(a - b)` of the kernel
macro, and `msecs_to_jiffies` rounds up as the kernel does.

Actions:
* **`TxCredit`:** one iteration of the build loop for this interface:
  1. remove it from the list;
  2. `RING_FINAL_CHECK_FOR_REQUESTS`;
  3. the "timer already pending" skip;
  4. the refill when the window has passed;
  5. the second "still too big" test and `mod_timer(next_credit)`;
  6. otherwise, the request has passed the re-test (line 1322), and
     `charging` is set.
* **`TxCreditCharge`:** the charge `remaining_credit -= txreq.size` (line
  1332), the consumption and `netif_schedule_work`. It is a step of its
  own because the callback stores `remaining_credit` without a lock and
  may do so between the re-test and the charge.
* **The callback in three steps:**
  * `CreditTimerFire`: the timer wheel detaches the timer once it is due;
  * `CreditCallbackRead`: `tx_add_credit` reads and computes;
  * `CreditCallbackDone`: the store and `netif_schedule_work`.

  The timer softirq runs on any CPU, concurrently with the worker thread,
  and nothing locks `remaining_credit` between them.
* **`Tick`:** a jiffy passes. A due timer runs before the next tick. While
  the timer is idle, `age` stops at the bound `MaxGap`.
* **`GuestTx`:** the guest posts a request.
* **`GuestRxNotify`:** the guest notifies the event channel, which is
  shared with its receive ring (new rx buffers), so `netif_be_int`
  re-lists the interface at any time. This makes the "timer could already
  be pending" path reachable.
* **`netif_be_int`:** the handler itself.

`tx_add_credit` takes the burst size from `RING_GET_REQUEST(req_cons)` in
shared memory, not from the copy in `txreq`. When the callback runs after
the worker has consumed the deferred request, that slot is one the guest
has not published. `RingSizeAt` lets it hold any u16 size.

The rate itself (`credit_bytes`, `credit_usec`) is written by the xenbus
backend, which is not in this repository. `Init` therefore picks it from
the `CreditBytes` and `CreditUsecs` sets, with `remaining_credit =
credit_bytes`. `interface.c` sets the default unlimited rate (`~0UL` bytes,
0 us) and starts the window at `netif_alloc` time. The guest connects an
unknown time later, so `Init` picks `age` in `0..MaxGap`.

Runs (all use `BITS_PER_LONG = 3`, so `ULONG_MAX = 7` and jiffies wrap at
8, with `HZ = 100` and `MAX_BURST = 4` standing for the 128 KiB allowance):

| run | cfg | checks | result |
|-----|-----|--------|--------|
| `credit_shaped` | `MC_NetbkCredit_shaped.cfg` | `DeferralBounded`, `UnlimitedNeverDefers`, `EveryRequestSent` | pass, 324k states, 36 s |
| `credit_lost_update` | `MC_NetbkCredit_race.cfg` | `RefillAddsOneChunk` | **violation** (code bug) |

Properties:
* **`DeferralBounded`:** while the timer is pending it expires at most one
  window (`msecs_to_jiffies(credit_usec/1000)`) from now. Re-arming a
  pending timer, which the "already pending" skip prevents, would break it.
  This is spec.md §8's "exactly one timer is armed (not two)".
* **`UnlimitedNeverDefers`:** the default rate never arms the timer. The
  property depends on the wrap clamp: without it, `~0UL + remaining` is
  just below the old credit.
* **`EveryRequestSent`:** under fairness, every posted request is
  eventually consumed. The callback's `netif_schedule_work` is the only
  thing that brings a deferred interface back.
* **`RefillAddsOneChunk`** (action property): no step raises the credit by
  more than one `credit_bytes` chunk.

The `*_never`, `*_noclamp` and `*_nosched` operators are the mutants that
break the three passing properties. There is no invariant bounding
`remaining_credit` by the burst: with the callback's store between the
re-test and the charge, the charge does wrap it, as the next finding
shows.

**Finding (line 887, lost credit update).** The timer detaches before
`tx_credit_callback` runs. TLC's trace:
1. The callback reads `remaining_credit = 2` and computes a refill of 3
   (the burst for a 3-byte request).
2. The shared event channel re-lists the interface. The worker finds the
   window passed (a 0-jiffy window), refills to 3 itself, and sends the
   3-byte request, leaving 0.
3. The callback stores 3.

The request went out free: the credit rose from 0 to 3 in one step with a
chunk size of 2. The same store can fall between the worker's re-test
(line 1322) and its charge (line 1332): the callback stores a smaller
credit than the one tested, and the charge wraps `remaining_credit` to
near `ULONG_MAX` (TLC reaches `remaining_credit = 7 = ULONG_MAX` in 20
states), after which the interface is effectively unlimited until the next
refill.

**Finding (line 1316, jiffies wrap).** `time_after_eq` is only right while
the two times are less than `LONG_MAX` apart.
* `MC_NetbkCredit_wrap.cfg` (`DeferralBounded` with `MaxGap = 7`) sets the
  default unlimited rate, with the window start 5 jiffies in the past out
  of a period of 8. TLC finds `DeferralBounded` violated.
* The interface exhausts its credit. The refill test says the window has
  not started, and the timer is armed 3 jiffies ahead, although the window
  is 0.
* With 32-bit longs the same thing happens after 2^31 jiffies (24.8 days at
  HZ=1000) without a refill, and the deferral is then up to 24.8 days.
* With 64-bit longs the gap cannot be reached. The passing runs represent
  this by bounding `MaxGap` (2 or 3) below half the jiffies period (4).

Bounds:
* In `credit_shaped`:
  * rates of 2, 5 and 7 (unlimited) bytes, and windows of 0 us, 500 us
    (rounds to 0 jiffies), 10 ms (1 jiffy) and 15 ms (rounds up to 2);
  * sizes 1, 3 and 4 (4 is above a 2-byte chunk, so it needs two
    refills);
  * 3 requests.

  This reaches every branch: the skip, the refill, the re-arm, the
  past-due timer, and the callback overlapping a worker pass.

Fairness:
* Weak fairness on the worker, event delivery, `Tick` and each callback
  step. Time passes, and a due timer runs.
* None on the guest.

### `NetbkInterface`: interface lifecycle against the group workers

`NetbkInterface.tla` models `interface.c` together with the parts of
`netback.c` that read `netif->group`. It abstracts packet contents, the
pending ring and time.

State:

* `life`: where the interface is in its life. It goes through
  `netif_alloc`, then `netif_map`, with `"binding"` between the irq bind at
  `interface.c:365` and `disable_irq` at 372. It then reaches
  `netif_disconnect`, with `"closing"` while it waits on the refcount, and
  ends freed.
* Interface state:
  * `carrier`, the running bit and `devpc`: `dev_open`/`dev_close` set the
    running bit and call `ndo_open`/`ndo_stop` in two steps under rtnl;
  * `irq`;
  * `group`, with `UINT_MAX` for "no group";
  * `refcnt`;
  * `work`, the guest's unconsumed requests;
  * `timer`, the pending credit timer.
* Group state:
  * `nr`: `group_domain_nr`;
  * `sched`: each group's `net_schedule_list`, plus a list for index
    `UINT_MAX` that stands for the memory `xen_netbk[UINT_MAX]` would
    address.
* Worker state: one worker per group.
  * `wpc` and `wnetif`: the iteration is split where the code drops its
    guarantees. `WorkerPick` is `list_first_entry`, read without the list
    lock. `WorkerTake` is `netif_get` and `remove_from_net_schedule_list`.
    The last step is one of four outcomes: no work, credit wait, error, or
    one packet.
* `inflight`: pages of each pool held by the stack, per interface, until
  `netif_page_release`.
* `oops`: a history variable recording each site where the code would
  corrupt memory or crash:
  * an index of `xen_netbk` by `UINT_MAX`;
  * a fragment slot from another group's pool;
  * the `BUG_ON` at `netback.c:390`;
  * a freed interface being used.

Every list operation goes through `netbk_at`, which records an access at an
index outside the groups. `__netif_up` picks the least-loaded group with the
code's scan (the `RECURSIVE` `least_loaded_from`). `__netif_down`
deschedules, sets `group = UINT_MAX` and then decrements the old group's
count.

Bounds:

* Two interfaces and two groups: the smallest case where ifdown/ifup can
  move an interface to another group while the old group's worker still
  holds it.
* One request per guest and one pool slot per group.
* `UINT_MAX` is 255, because TLC integers are 32-bit. Only its difference
  from every group index matters.
* Each interface lives once, and `Terminated` stutters when all are freed.
  A reallocation would repeat the same states.
* The `life` run uses `VIEW MCView`, which leaves out `oops`. No guard reads
  `oops`, and `NoOops` is checked by the other run without a view.

Fairness:

* Weak fairness on the worker's steps, page release, `net_open`/`net_close`
  once their dev step has run, `netif_map`'s second half and the credit
  timer.
* Strong fairness on the end of `netif_disconnect`, which needs rtnl to be
  free. rtnl can be taken and released forever by the other interface.

| run | cfg | checks | result |
|-----|-----|--------|--------|
| `iface_life` | `MC_NetbkInterface_life.cfg` | `TypeOK`, `GroupLoadAccurate`, `RefcountBalance`, `UpPicksLeastLoaded`, `DisconnectCompletes` | pass, 190k distinct states (view) |
| `iface_group_race` | `MC_NetbkInterface_oops.cfg` | `NoOops` | **violation** (code bug) |

What the properties say:

* **GroupLoadAccurate**: `group_domain_nr[g]` is the number of interfaces
  whose group is `g`.
* **RefcountBalance**: `refcnt` is the sum of the references held:
  * the alloc reference until disconnect;
  * the map reference while the carrier is on;
  * one for being on a schedule list;
  * one per worker holding the interface;
  * one per page in flight.
* **UpPicksLeastLoaded**: an action property. `__netif_up` enters a group of
  minimal load, the lowest index among ties.
* **DisconnectCompletes**: every `netif_disconnect` that starts waiting
  returns.

The mutants (`WorkerPick_nolimit`, `__netif_down_lategroup`,
`WorkerCreditWait_noput`, `least_loaded_from_short`,
`DisconnectStart_noput`) each break one of them.

**Finding (`interface.c:87`).** `__netif_down` runs from `net_close` or
`netif_disconnect`. It sets `netif->group = UINT_MAX`, and nothing orders
that against the group's worker. TLC's shortest trace has one interface:

1. The interface is allocated, mapped and opened, and the guest posts a
   request.
2. The worker reads it off its list at `netback.c:1287`, without the lock.
3. `netif_disconnect` runs `__netif_down`.
4. The worker's `remove_from_net_schedule_list` locks
   `xen_netbk[UINT_MAX].net_schedule_list_lock` (`netback.c:807`).

The same race reaches three other sites (traces of 11, 12 and 19 states):

* a use of the freed interface, if disconnect completes between steps 2
  and 4;
* the `BUG_ON` at line 390, for a packet in flight to a copying receiver;
* with ifdown then ifup into the other group, `netbk_get_requests`
  (line 1091) taking fragment slots from the new group's pool while the
  header slot is in the old one.

spec.md §5 says that an interface belongs to exactly one partition for its
connected lifetime, which ifdown/ifup contradicts.

### `XenMem`: `/dev/mem` for Xen (`drivers/xen/char/mem.c`)

`read_mem` and `write_mem` walk the physical range `[*ppos, *ppos + count)`.
They take one chunk per loop iteration, and a chunk never crosses a page.
For each chunk they check `range_is_allowed`, `ioremap` the chunk and copy
it to or from the user. `memory_lseek` moves `f_pos` under `i_mutex`.
`xen_mmap_mem` checks a frame range and asks the hypervisor to map it.

The calls on one open file are sequential: the VFS hands each call the
position and stores it back. So the model has one caller, and the hard
part is the arithmetic and the failure paths.

State:

* `f_pos`: a signed `loff_t` of `LOFF_BITS` bits.
* `p`: the loop's `unsigned long` of `BITS_PER_LONG` bits. It is set by
  `p = *ppos`, which is the conversion under test.
* The loop variables `count` and `done` (`read`/`written`).
* The last return value `ret`, negative errno values included.
* History variables for the call in progress or just finished:
  * `ppos0`: the position the call started at;
  * `xfer`: every byte moved, as its buffer offset and physical address,
    or a zero fill;
  * `maps`: every range that was ioremapped or mmapped.

Actions:

* `ReadChunk` and `WriteChunk` are one iteration of each loop. They take
  every outcome of the calls outside the file:
  * `ioremap`: success, NULL, or `ERR_PTR`;
  * a copy that leaves any number of bytes uncopied;
  * `clear_user` clearing any prefix.
* `SysRead` and `SysWrite` start a call under `rw_verify_area`'s
  conditions: the position is non-negative and `pos + count` stays in
  range.
* `ReadDone` and `WriteDone` are the loops' normal exits.
* `memory_lseek` and `xen_mmap_mem`. The mmap outcomes of
  `phys_mem_access_prot_allowed` and the remap hypercall are
  nondeterministic.

| run | cfg | checks | result |
|-----|-----|--------|--------|
| `mem_chunks` | `MC_XenMem.cfg` | `TypeOK`, `ChunkInOnePage`, `AccessAllowed`, `TransferAtFilePos`, `ResultAccounting` | pass, 18.7k states |
| `mem_x86_32_offset` | `MC_XenMem_x86_32.cfg` | `TransferAtFilePos` | **violation** (code bug) |

What the properties say:

* **ChunkInOnePage**: each ioremap is non-empty and lies within one page,
  whatever the alignment. This is the `-p & (PAGE_SIZE - 1)` case.
* **AccessAllowed**: under `STRICT_DEVMEM`, no frame that
  `devmem_is_allowed` refuses is ever ioremapped or mmapped.
  * This holds only because `read_mem` rechecks on every iteration.
  * `range_is_allowed(pfn, size)` counts `size` from the start of the
    frame, so one check of the whole remaining count would miss the last
    frame of an unaligned range.
  * The mutant `read_range_checked_once` shows that miss.
* **TransferAtFilePos**: the byte at buffer offset `i` is copied from or to
  physical address `*ppos + i`. This is the comment "The f_pos points
  directly to the memory location".
* **ResultAccounting**: when a call returns `n >= 0`, exactly the first `n`
  buffer bytes were moved and `*ppos` advanced by `n`. When it returns an
  error, `*ppos` has not moved. A short `copy_from_user` in `write_mem` is
  the case that matters.

Bounds for `mem_chunks`:

* A 64-bit build has `unsigned long` as wide as `loff_t`. The model uses
  4-bit widths, `PAGE_SIZE = 2` (eight frames), counts up to 3, and frame 2
  refused.
* These give unaligned starts, chunks spanning a refused frame, and
  multi-chunk transfers with a failure at any chunk.
* lseek offsets include a negative position. The VFS then refuses the
  transfer.

**Finding (`mem.c:64`, also line 115).** On x86_32, `loff_t` has 64 bits
and `unsigned long` has 32. `unsigned long p = *ppos` therefore drops the
high half of the position. TLC's trace, with a 5-bit `loff_t` and a 3-bit
`unsigned long`:

1. lseek to 9.
2. read: the first byte comes from physical address 1.

On a PAE host, a read or write at `4 GiB + x` accesses physical `x`:
* `range_is_allowed` checks the truncated frame, so `STRICT_DEVMEM` does
  not stop it;
* `*ppos` still advances from `4 GiB + x`.

`xen_mmap_mem` takes a frame number, so mappings are not affected.

## Runs of `NetbkTx` and the spinlocks

| run | cfg | checks | result |
|-----|-----|--------|--------|
| `tx_pool` | `MC_NetbkTx_pool.cfg` | `PoolPartition`, `OneResponsePerRequest`, `RefcountBalance`, `FreeSlotsUnmapped`, `ImplementsTxService` | pass, 9.2k states (two pending slots, so two requests exhaust the pool; delayed-copy mode) |
| `spinlocks` | `MC_Spinlocks.cfg` | `TypeOK`, `MutualExclusion`, `QueriesAccurate`, `FifoRefinement`, `NoStarvation`, `ByteMutualExclusion`, `RwExclusion`, `CountAccounting`, `ByteLockProgress`, `RwProgress` | pass, 16k states |
| `tx_checkmop_bug` | `MC_NetbkTx_checkmop_bug.cfg` | `PoolPartition` with two-fragment packets | **violation** (code bug) |
| `tx_copy_stall` | `MC_NetbkTx_stall.cfg` | `ImplementsTxService` under `SpecStackHolds` (no fairness of page release) | **violation** (code bug) |

What the properties say:

* **PoolPartition**: every slot is in exactly one place: free on the pending
  ring, owned by a queued skb, held by the stack, or staged on the dealloc
  ring. This is spec.md §8: "no leak, no double-release".
* **OneResponsePerRequest**: each consumed request is answered at most once,
  and no unconsumed request is answered.
* **RefcountBalance**: `refcnt` equals 2 (alloc + map), plus 1 while the
  interface is on the schedule list, plus 1 for each slot in use on its
  behalf. A leak here is what would make `netif_disconnect` wait forever.
* **FreeSlotsUnmapped**: a slot is never free while its grant is still
  mapped.
* **ImplementsTxService**: the guests' view of the ring refines the
  abstract `TxService` (below), liveness included: under fairness every
  posted request is eventually answered.

`TxService.tla` states what the transmit side promises a guest, with the
pool, the skbs and the hypercalls gone. Its state is `posted`, `consumed`
and `rsps` per interface. `Post(n)` pushes a batch of requests (a GSO
header and its extra-info slot go in one push). `Serve` is one
backend step: it may advance `consumed` (never past `posted`) and append
responses, each for a distinct consumed request not answered before, while
the consumed-but-unanswered requests summed over the group stay at most
`Capacity`. One step may answer several requests of several interfaces,
because `netbk_tx_err` answers a whole packet and a dealloc pass answers
every staged slot. `AllAnswered` is its liveness. `NetbkTx` maps it with
`Service == INSTANCE TxService WITH posted <- Len(netif[n].reqs),
consumed <- req_cons, rsps <- rsps, Capacity <- 2 * MAX_PENDING_REQS`.
The factor 2 is there because a header slot in the pool also stands for
its consumed extra-info slot, which is answered with it.

Each property has a mutant in `NetbkTx.tla` (the `*_noget`, `*_leak`,
`*_rereads`, `*_nounmap` and `FinalCheck_noarm` operators),
and TLC finds the property violated when that mutant replaces the code it
mutates.

**Finding (line 1174).** After the first fragment whose map fails, the
unwind loop `for (j = start; j < i; j++)` releases `frags[i]`, not
`frags[j]`. TLC's trace:

1. Packet with header slot 0 and fragments 1 and 2. The map of 1 succeeds
   and the map of 2 fails.
2. Slot 2 is answered ERROR and put back on the pending ring.
3. The header (0) and then slot 2 again are staged on the dealloc ring.
4. Slot 1 stays mapped and is never released.

As a result, slot 2 will be handed out twice and answered OKAY as well,
and slot 1 and its interface reference leak.

**Finding (line 1681, delayed copy never runs in kthread mode).** The
delayed copy exists for a stack that keeps a guest's page: after `HZ/2`
the dealloc pass copies the page out and answers the request, and
`tx_pending_timer` (armed at line 1517) makes sure a pass happens.
`netbk_tx_pending_timeout` only does `wake_up` in kthread mode, the
default (line 47), and `netbk_action_thread` re-tests `tx_work_todo`,
which looks at the dealloc ring and the schedule list, not at
`pending_inuse_head`. `tx_copy_stall` drops the fairness of
`PageRelease` (`SpecStackHolds`), so the stack may keep a page for ever.
TLC's trace (15 states):

1. The guest posts a 2-byte packet: a header request and a 1-byte
   fragment. The header's page is copied into the skb head and staged for
   dealloc; the fragment's slot goes on `pending_inuse_head` and its page
   to the stack.
2. The end of that `net_tx_action` arms the timer.
3. The next pass answers the header, and the entry ages past `HZ/2`.
4. The timer fires and wakes the worker. `tx_work_todo` is false (nothing
   staged, schedule list empty), so the worker sleeps.

Nothing wakes it again, and the request stays unanswered for as long as
the stack keeps the page: the fragment's request is never answered. In tasklet mode the timer schedules
`net_tx_tasklet` without the test, and the copy runs. `tx_pool` does not
meet this case because the stack releases its pages under fairness.

**Finding (line 1587, not a registered run).** `make_tx_response` writes a `NETIF_RSP_NULL`
response after every request flagged `NETTXF_extra_info`, whether or not
an extra-info slot was consumed for it. `MC_NetbkTx_extras.cfg` lets the
guest flag any request, and TLC finds `OneResponsePerRequest` violated in
108 states. TLC's trace:

1. The guest posts one request, flagged `NETTXF_extra_info`, with nothing
   behind it.
2. The worker consumes it. `netbk_get_extras` finds `work_to_do` spent and
   returns `-EBADR` (line 1223) without consuming a slot.
3. `netbk_tx_err` answers the header ERROR, and `make_tx_response` adds a
   NULL: two responses for one consumed request, and `rsp_prod_pvt` is
   one past `req_cons`.

The guest's next request then lands on a slot that already has a
response, and is consumed and answered a second time. A fragment request
that carries the flag, or a chain of extras with
`XEN_NETIF_EXTRA_FLAG_MORE` (several slots consumed, one NULL), breaks
the count in the same way. spec.md (protocol violation, line 82) wants
ERROR responses to the offending descriptors and the cursor advanced past
them, so that the ring cannot wedge. `tx_pool` does not meet this case:
its guests behave like netfront (`TxExtraFlags = {FALSE}`, extras only
through `GuestTxGso`), and `MaxReqs = 2` leaves no room for a chain.

## Bounds of the `NetbkTx` runs

* `tx_pool` has `MAX_PENDING_REQS = 2`, the smallest power of two for
  `MASK_PEND_IDX` that exceeds `MAX_SKB_FRAGS = 1`.
  * The build loop runs while `nr_pending_reqs + MAX_SKB_FRAGS` is below
    the pool size, so it stops after one packet per pass.
  * A two-request packet takes the whole pool, so the loop-full case is
    reached.
  * The wake threshold of `maybe_schedule_tx_action`
    (`nr_pending < MAX_PENDING_REQS/2`) and the schedule test of
    `tx_work_todo` (`nr_pending + MAX_SKB_FRAGS < MAX_PENDING_REQS`) are
    both `nr_pending = 0` here. The gap between them, where an interrupt
    does not wake the worker, is empty, and no run reaches it.
* `PAGE_SIZE = 2`, `ETH_HLEN = 1`, `PKT_PROT_LEN = 1` with sizes {1,2,3}
  and offsets {0,1} give every validation outcome:
  * too small;
  * crossing a page;
  * a fragment larger than the remaining size;
  * payload in the head only;
  * payload split so that the header slot is also `frags[0]`.
* One guest posts up to 2 requests, so a second request can wait on a full
  pool.
  * Two guests sharing the pool with this bound do not finish within the
    run time limit once the liveness of `ImplementsTxService` is checked.
  * With one request each they pass (10.9k states), but then no packet
    has a fragment.
* `tx_pool` offers the three extra records of `MCExtras`: a valid TCPv4
  GSO, a GSO of size 0 (refused by `netbk_set_skb_gso`) and a type equal
  to `XEN_NETIF_EXTRA_TYPE_MAX` (refused by `netbk_get_extras`).
* `tx_pool` offers every `copy_pending_req` result the code switches on
  (`MCCopyResults = {0, -EBUSY, -ENOMEM}`; `-ENOENT` comes from the slot's
  state).
* `tx_copy_stall` has the bounds of `tx_pool`; a single packet with a
  fragment is the shortest trace.
* `MC_NetbkTx_extras.cfg` has one interface, request size 1 at offset 0
  and up to 2 requests, and lets the guest flag any request. A lone
  flagged header is the shortest trace.
* The `tx_checkmop_bug` run needs `MAX_PENDING_REQS = 4` and `MAX_SKB_FRAGS = 2`,
  the smallest values with a fragment before the failing one.

## Fairness in `NetbkTx`

* **Worker:** weak fairness on its steps. In kthread mode it is a kernel
  thread that runs whenever it is not blocked.
* **Event channels:** weak fairness on `NetifBeInt`, since the interrupt is
  delivered once raised.
* **Timers:** weak fairness on `InuseAge` and `netbk_tx_pending_timeout`:
  jiffies advance and an armed timer fires.
* **Page release:** weak fairness on `PageRelease` in `Spec`
  (`StackFairness`), for a stack that eventually frees every skb it was
  given. `SpecStackHolds` leaves it out. A socket may keep an skb for
  ever, which is the case the delayed copy is there for.
* **Guests:** no fairness; the liveness property is conditional on a
  request being posted.

## Not modelled yet (plan for the next steps)

`permute_returns` (off by default) and the tasklet mode are not
modelled. The ethtool and MTU handlers of `interface.c` only set device fields, so they
are not modelled. In `mem.c`, `open_mem` only tests a capability and
`uncached_access` only picks a page protection. The ticket lock's waiting side
(`xen_spin_adjust`, `xen_spin_wait`, `xen_spin_kick`) is not in this
repository. So the owner hint at `spinlock.h:232` and the kick decision at
line 259 are not modelled, and a waiter polls the head instead.

The remaining files have no state machine to check:

* `pgalloc.h` and `cache-smp-xen.c` are hypercall wrappers;
* `csrc-octeon-ptp.c` does register arithmetic;
* the `efhw` headers hold type definitions;
* `rio-sysfs.c` formats sysfs attributes.
