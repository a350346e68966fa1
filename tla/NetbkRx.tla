------------------------------- MODULE NetbkRx -------------------------------
(***************************************************************************)
(* The receive path of one netback group (netback.c): the network stack   *)
(* hands packets to netif_be_start_xmit, which queues them on rx_queue;   *)
(* the worker's net_rx_action moves them into the guests' rx buffers by   *)
(* grant copy (copying_receiver) or page flip, answers each consumed rx   *)
(* request, and notifies each guest at most once per pass.                *)
(*                                                                         *)
(* A packet (skb) is abstracted to its interface, its number of fragments *)
(* and whether it carries GSO (an extra-info slot).  The grant operations *)
(* of one skb are abstracted to the outcome netbk_check_gop derives from  *)
(* them: all okay, some error, or some GNTST_eagain.                       *)
(***************************************************************************)
EXTENDS Naturals, Sequences, SequencesExt, FiniteSets

CONSTANTS
  Netifs,            \* the interfaces of the group (model values)
  Copying,           \* interfaces with copying_receiver set
  SG,                \* interfaces with NETIF_F_SG or NETIF_F_TSO
  CanQueue,          \* netbk_can_queue(dev)
  MAX_SKB_FRAGS,
  NET_RX_RING_SIZE,
  MAX_MFN_ALLOC,
  MaxPkts,           \* bound: packets the stack offers per interface
  MaxRxReqs          \* bound: rx buffers a guest posts

ASSUME Copying \subseteq Netifs /\ SG \subseteq Netifs

VARIABLES
  ring,       \* [Netifs -> ..]: the rx ring indexes of both ends, and rx_req_cons_peek
  refcnt,     \* [Netifs -> Nat]: netif->refcnt
  stopped,    \* [Netifs -> BOOLEAN]: netif_queue_stopped
  qtimer,     \* [Netifs -> BOOLEAN]: tx_queue_timeout pending
  irq,        \* [Netifs -> BOOLEAN]: the guest's event to the backend is pending
  gnotify,    \* [Netifs -> BOOLEAN]: the backend's event to the guest is pending
  xmit,       \* [Netifs -> Seq]: the skb netif_be_start_xmit holds after stopping the queue
  sent,       \* [Netifs -> Nat]: packets offered by the stack
  rx_queue,   \* netbk->rx_queue
  rxq,        \* the local batch of net_rx_action, with each skb's outcome
  count,      \* net_rx_action's count of grant operations
  alloc_index,\* netbk->alloc_index: free frames in mfn_list
  net_timer,  \* netbk->net_timer pending
  rx_notify,  \* netbk->rx_notify bitmap, as a set of interfaces
  notify_list,\* netbk->notify_list[0 .. notify_nr-1]
  pc,         \* the worker: "idle", "build", "mcall", "check"
  sleeping    \* the worker blocks in wait_event_interruptible

vars == <<ring, refcnt, stopped, qtimer, irq, gnotify, xmit, sent, rx_queue,
          rxq, count, alloc_index, net_timer, rx_notify, notify_list, pc, sleeping>>

Skbs == [n : Netifs, frags : 0 .. MAX_SKB_FRAGS, gso : BOOLEAN]

\* The skbs the stack may hand to interface n: only SG/TSO devices get
\* fragments or GSO (netif_be_start_xmit copies others into one buffer).
Offered(n) == {s \in Skbs : s.n = n /\ (n \notin SG => s.frags = 0 /\ ~s.gso)}

\* rx requests one skb consumes: header, GSO extra-info, fragments.
Slots(s) == s.frags + 1 + (IF s.gso THEN 1 ELSE 0)

\* RING_IDX arithmetic is unsigned: a negative difference d is 2^32 + d,
\* never below a small bound k.
ULess(d, k) == d >= 0 /\ d < k

\* new - event < new - old (unsigned): the event index lies in (old, new].
CrossesEvent(old, new, event) == ULess(new - event, new - old)

netbk_max_required_rx_slots(n) == IF n \in SG THEN MAX_SKB_FRAGS + 2 ELSE 1

netbk_queue_full(r, n) ==
  LET needed == netbk_max_required_rx_slots(n)
  IN  \/ ULess(r.req_prod - r.peek, needed)
      \/ ULess(r.rsp_prod_pvt + NET_RX_RING_SIZE - r.peek, needed)

\* The skbs of interface n in a sequence, and the rx slots they consume.
SkbsOf(n, q) == SelectSeq(q, LAMBDA s : s.n = n)
SlotsOf(n, q) == FoldSeq(LAMBDA s, acc : Slots(s) + acc, 0, SkbsOf(n, q))

\* Whether netbk_check_gop can report GNTST_eagain for an skb: only grant
\* copies are retried; a flipping receiver BUG()s on it (line 673), so a
\* transfer is modelled as never returning it.  OKAY and ERROR differ only
\* in the status written into the responses, which no property reads.
EagainPossible(n) == IF n \in Copying THEN BOOLEAN ELSE {FALSE}

(***************************************************************************)
(* netif_be_start_xmit.  Runs under the device's xmit lock, so once per   *)
(* interface at a time.  The queue-full check, the req_event write, the   *)
(* mb() and the recheck are one step: a guest post anywhere among them is *)
(* either seen by the recheck or sees the new req_event.  Stopping the    *)
(* queue after a recheck that found it full is a second step, so an       *)
(* event-channel wake can fall between the two.                           *)
(***************************************************************************)
netif_be_start_xmit(n, s) ==
  /\ xmit[n] = <<>> /\ ~stopped[n] /\ sent[n] < MaxPkts
  /\ sent' = [sent EXCEPT ![n] = @ + 1]
  /\ \/ \* drop: no receive buffers, or netbk_copy_skb fails for a flipping receiver
        /\ netbk_queue_full(ring[n], n) \/ n \notin Copying
        /\ UNCHANGED <<ring, refcnt, xmit, rx_queue, sleeping>>
     \/ /\ ~netbk_queue_full(ring[n], n)
        /\ LET r  == [ring[n] EXCEPT !.peek = @ + Slots(s)]
               arm == CanQueue /\ netbk_queue_full(r, n)
           IN  /\ ring' = [ring EXCEPT ![n] =
                    IF arm THEN [r EXCEPT !.req_event = r.peek + netbk_max_required_rx_slots(n)]
                    ELSE r]
               /\ refcnt' = [refcnt EXCEPT ![n] = @ + 1]
               /\ IF arm
                  THEN xmit' = [xmit EXCEPT ![n] = <<s>>] /\ UNCHANGED <<rx_queue, sleeping>>
                  ELSE rx_queue' = Append(rx_queue, s) /\ sleeping' = FALSE /\ UNCHANGED xmit
  /\ UNCHANGED <<stopped, qtimer, irq, gnotify, rxq, count, alloc_index, net_timer,
                 rx_notify, notify_list, pc>>

\* Mutant: no tx_queue_timeout armed.
XmitStop_notimer(n) ==
  /\ xmit[n] # <<>>
  /\ stopped' = [stopped EXCEPT ![n] = TRUE]
  /\ rx_queue' = Append(rx_queue, Head(xmit[n]))
  /\ xmit' = [xmit EXCEPT ![n] = <<>>]
  /\ sleeping' = FALSE
  /\ UNCHANGED <<ring, refcnt, qtimer, irq, gnotify, sent, rxq, count, alloc_index,
                 net_timer, rx_notify, notify_list, pc>>

\* The rest of netif_be_start_xmit once the recheck found the ring full:
\* netif_stop_queue, the 500ms tx_queue_timeout, skb_queue_tail, wake_up.
XmitStop(n) ==
  /\ xmit[n] # <<>>
  /\ stopped' = [stopped EXCEPT ![n] = TRUE]
  /\ qtimer' = [qtimer EXCEPT ![n] = TRUE]
  /\ rx_queue' = Append(rx_queue, Head(xmit[n]))
  /\ xmit' = [xmit EXCEPT ![n] = <<>>]
  /\ sleeping' = FALSE
  /\ UNCHANGED <<ring, refcnt, irq, gnotify, sent, rxq, count, alloc_index, net_timer,
                 rx_notify, notify_list, pc>>

(***************************************************************************)
(* The worker (netbk_action_thread): wait_event_interruptible until       *)
(* rx_work_todo, then net_rx_action.                                       *)
(***************************************************************************)
WorkerSleep ==
  /\ pc = "idle" /\ ~sleeping /\ rx_queue = <<>>
  /\ sleeping' = TRUE
  /\ UNCHANGED <<ring, refcnt, stopped, qtimer, irq, gnotify, xmit, sent, rx_queue,
                 rxq, count, alloc_index, net_timer, rx_notify, notify_list, pc>>

RxActionStart ==
  /\ pc = "idle" /\ ~sleeping /\ rx_queue # <<>>
  /\ pc' = "build" /\ count' = 0
  /\ UNCHANGED <<ring, refcnt, stopped, qtimer, irq, gnotify, xmit, sent, rx_queue,
                 rxq, alloc_index, net_timer, rx_notify, notify_list, sleeping>>

\* Mutant: room checked for the fragments only, not the head.
check_mfn_nohead(nr) ==
  {[alloc_index |-> a, err |-> a < nr - 1] :
     a \in IF alloc_index >= nr THEN {alloc_index} ELSE alloc_index .. MAX_MFN_ALLOC}

\* check_mfn: the alloc_index it may leave and whether it fails.  Below nr
\* it asks the hypervisor for MAX_MFN_ALLOC - alloc_index frames and may get
\* any number of them; it fails if alloc_index is still below nr.
check_mfn(nr) ==
  {[alloc_index |-> a, err |-> a < nr] :
     a \in IF alloc_index >= nr THEN {alloc_index} ELSE alloc_index .. MAX_MFN_ALLOC}

\* netbk_gop_skb: one grant operation for the head and one per fragment
\* (their statuses are chosen in RxCheckNext), and the skb's rx requests,
\* GSO extra-info slot included, consumed: req_cons += nr_frags + extra.
netbk_gop_skb(r, s) == [r EXCEPT !.req_cons = @ + Slots(s)]

\* Fresh frames netbk_gop_frag takes per operation: a grant copy needs
\* none, a flip takes one by alloc_mfn.
netbk_gop_frag_frames(n) == IF n \in Copying THEN 0 ELSE 1

\* One iteration of the dequeue loop of net_rx_action.  A flipping receiver
\* first needs nr_frags + 1 fresh frames; without them the skb goes back
\* to the head of rx_queue, net_timer is armed and the loop ends.
\* Otherwise netbk_gop_skb sets up its operations and consumes its rx
\* requests, a flipping receiver taking one frame per operation
\* (alloc_mfn, whose BUG_ON an alloc_index below 0 would hit).
RxBuildNext ==
  LET s == Head(rx_queue)
      n == s.n
      nr == s.frags + 1
      flip == n \notin Copying
  IN
  /\ pc = "build" /\ rx_queue # <<>>
  /\ \E c \in IF flip THEN check_mfn(nr) ELSE {[alloc_index |-> alloc_index, err |-> FALSE]} :
       LET avail == c.alloc_index IN
         IF c.err
         THEN /\ alloc_index' = avail
              /\ net_timer' = TRUE
              /\ pc' = "mcall"
              /\ UNCHANGED <<ring, rx_queue, rxq, count>>
         ELSE /\ alloc_index' = avail - nr * netbk_gop_frag_frames(n)
              /\ ring' = [ring EXCEPT ![n] = netbk_gop_skb(@, s)]
              /\ count' = count + nr
              /\ rxq' = Append(rxq, s)
              /\ rx_queue' = Tail(rx_queue)
              /\ pc' = IF count' + MAX_SKB_FRAGS >= NET_RX_RING_SIZE THEN "mcall" ELSE "build"
              /\ UNCHANGED net_timer
  /\ UNCHANGED <<refcnt, stopped, qtimer, irq, gnotify, xmit, sent, rx_notify,
                 notify_list, sleeping>>

RxBuildDone ==
  /\ pc = "build" /\ rx_queue = <<>>
  /\ pc' = "mcall"
  /\ UNCHANGED <<ring, refcnt, stopped, qtimer, irq, gnotify, xmit, sent, rx_queue,
                 rxq, count, alloc_index, net_timer, rx_notify, notify_list, sleeping>>

\* The multicall; with nothing batched net_rx_action returns at once.  The
\* statuses it produces are read only by netbk_check_gop, so each skb's is
\* chosen when RxCheckNext checks it.
RxMulticall ==
  /\ pc = "mcall"
  /\ pc' = IF rxq = <<>> THEN "idle" ELSE "check"
  /\ UNCHANGED <<ring, refcnt, stopped, qtimer, irq, gnotify, xmit, sent, rx_queue,
                 rxq, count, alloc_index, net_timer, rx_notify, notify_list, sleeping>>

\* Mutant: no response for the GSO extra-info slot.
rx_responses_noextra(r, s) == [r EXCEPT !.rsp_prod_pvt = @ + s.frags + 1]

\* make_rx_response for the head, the GSO extra-info response and
\* netbk_add_frag_responses: one response per rx request the skb consumed.
rx_responses(r, s) == [r EXCEPT !.rsp_prod_pvt = @ + Slots(s)]

\* Mutant: requeue after eagain even when the ring is full.
eagain_requeue_nofull(r, n, eagain) == eagain

\* The skb is requeued after GNTST_eagain unless netbk_queue_full.
eagain_requeue(r, n, eagain) == eagain /\ ~netbk_queue_full(r, n)

\* Mutant: the requeued skb not charged to rx_req_cons_peek again.
requeue_charge_none(r, s) == r

\* The requeued skb is charged to rx_req_cons_peek a second time.
requeue_charge(r, s) == [r EXCEPT !.peek = @ + Slots(s)]

\* Mutant: netif_put forgotten.
rx_put_never(n, requeue) == refcnt

\* Mutant: the reference dropped for a requeued skb as well.
rx_put_always(n, requeue) == [refcnt EXCEPT ![n] = @ - 1]

\* netif_put with dev_kfree_skb, skipped for a requeued skb.
rx_put(n, requeue) == IF requeue THEN refcnt ELSE [refcnt EXCEPT ![n] = @ - 1]

\* Mutant: the rx_notify bit not tested.
rx_notify_add_notest(n, notify) == notify

\* An interface goes on notify_list when the push asks for a notification
\* and __test_and_set_bit finds its rx_notify bit clear.
rx_notify_add(n, notify) == notify /\ n \notin rx_notify

\* One iteration of the check loop: netbk_check_gop; the responses;
\* RING_PUSH_RESPONSES_AND_CHECK_NOTIFY and the rx_notify deduplication;
\* the queue wake; then netif_put and free, or, after GNTST_eagain with
\* room left, a second rx_req_cons_peek charge and skb_queue_head.
RxCheckNext ==
  LET s == Head(rxq)
      n == s.n
      r1 == rx_responses(ring[n], s)
      notify == CrossesEvent(ring[n].rsp_prod_pvt, r1.rsp_prod_pvt, ring[n].rsp_event)
  IN
  /\ pc = "check" /\ rxq # <<>>
  /\ \E eagain \in EagainPossible(n) :
       LET requeue == eagain_requeue(r1, n, eagain)
       IN  /\ ring' = [ring EXCEPT ![n] = IF requeue THEN requeue_charge(r1, s) ELSE r1]
           /\ refcnt' = rx_put(n, requeue)
           /\ rx_queue' = IF requeue THEN <<s>> \o rx_queue ELSE rx_queue
  /\ IF rx_notify_add(n, notify)
     THEN rx_notify' = rx_notify \cup {n} /\ notify_list' = Append(notify_list, n)
     ELSE UNCHANGED <<rx_notify, notify_list>>
  /\ stopped' = [stopped EXCEPT ![n] = @ /\ netbk_queue_full(r1, n)]
  /\ rxq' = Tail(rxq)
  /\ UNCHANGED <<qtimer, irq, gnotify, xmit, sent, count, alloc_index, net_timer,
                 pc, sleeping>>

\* Mutant: only notify_list[0]'s bit cleared.
RxCheckDone_clearfirst ==
  /\ pc = "check" /\ rxq = <<>>
  /\ gnotify' = [m \in Netifs |-> gnotify[m] \/ Contains(notify_list, m)]
  /\ rx_notify' = IF notify_list = <<>> THEN rx_notify ELSE rx_notify \ {Head(notify_list)}
  /\ notify_list' = <<>>
  /\ pc' = "idle"
  /\ UNCHANGED <<ring, refcnt, stopped, qtimer, irq, xmit, sent, rx_queue, rxq,
                 count, alloc_index, net_timer, sleeping>>

\* Mutant: the single-notification path leaves the rx_notify bit set.
RxCheckDone_noclear1 ==
  /\ pc = "check" /\ rxq = <<>>
  /\ gnotify' = [m \in Netifs |-> gnotify[m] \/ Contains(notify_list, m)]
  /\ rx_notify' = IF Len(notify_list) = 1 THEN rx_notify ELSE rx_notify \ Range(notify_list)
  /\ notify_list' = <<>>
  /\ pc' = "idle"
  /\ UNCHANGED <<ring, refcnt, stopped, qtimer, irq, xmit, sent, rx_queue, rxq,
                 count, alloc_index, net_timer, sleeping>>

\* The end of net_rx_action: every interface on notify_list has its bit
\* cleared and is notified, singly or by one multicall.  The "more work"
\* wake_up is a no-op for the running kthread, which calls net_rx_action
\* again while rx_work_todo.
RxCheckDone ==
  /\ pc = "check" /\ rxq = <<>>
  /\ gnotify' = [m \in Netifs |-> gnotify[m] \/ Contains(notify_list, m)]
  /\ rx_notify' = rx_notify \ Range(notify_list)
  /\ notify_list' = <<>>
  /\ pc' = "idle"
  /\ UNCHANGED <<ring, refcnt, stopped, qtimer, irq, xmit, sent, rx_queue, rxq,
                 count, alloc_index, net_timer, sleeping>>

\* net_alarm: the memory-squeeze timer wakes the worker.
NetAlarm ==
  /\ net_timer
  /\ net_timer' = FALSE /\ sleeping' = FALSE
  /\ UNCHANGED <<ring, refcnt, stopped, qtimer, irq, gnotify, xmit, sent, rx_queue,
                 rxq, count, alloc_index, rx_notify, notify_list, pc>>

\* tx_queue_callback: the 500ms timeout restarts the queue.
tx_queue_callback(n) ==
  /\ qtimer[n]
  /\ qtimer' = [qtimer EXCEPT ![n] = FALSE]
  /\ stopped' = [stopped EXCEPT ![n] = FALSE]
  /\ UNCHANGED <<ring, refcnt, irq, gnotify, xmit, sent, rx_queue, rxq, count,
                 alloc_index, net_timer, rx_notify, notify_list, pc, sleeping>>

\* netif_be_int, its receive half: wake the queue if buffers are back.
\* (Its transmit half, the schedule list, is NetbkTx's NetifBeInt.)
netif_be_int(n) ==
  /\ irq[n]
  /\ irq' = [irq EXCEPT ![n] = FALSE]
  /\ stopped' = [stopped EXCEPT ![n] = @ /\ netbk_queue_full(ring[n], n)]
  /\ UNCHANGED <<ring, refcnt, qtimer, gnotify, xmit, sent, rx_queue, rxq, count,
                 alloc_index, net_timer, rx_notify, notify_list, pc, sleeping>>

(***************************************************************************)
(* The frontend, which is not in this repository: modelled from the ring  *)
(* protocol.  It posts rx buffers (RING_PUSH_REQUESTS_AND_CHECK_NOTIFY)   *)
(* and consumes responses, re-arming rsp_event as                          *)
(* RING_FINAL_CHECK_FOR_RESPONSES does.                                    *)
(***************************************************************************)
GuestRxPost(n) ==
  LET r == ring[n]
  IN  /\ r.req_prod < MaxRxReqs
      /\ r.req_prod - r.rsp_cons < NET_RX_RING_SIZE
      /\ ring' = [ring EXCEPT ![n].req_prod = @ + 1]
      /\ irq' = [irq EXCEPT ![n] = @ \/ CrossesEvent(r.req_prod, r.req_prod + 1, r.req_event)]
      /\ UNCHANGED <<refcnt, stopped, qtimer, gnotify, xmit, sent, rx_queue, rxq, count,
                     alloc_index, net_timer, rx_notify, notify_list, pc, sleeping>>

GuestRxConsume(n) ==
  LET r == ring[n]
  IN  /\ r.rsp_cons < r.rsp_prod_pvt
      /\ ring' = [ring EXCEPT ![n].rsp_cons = r.rsp_prod_pvt,
                              ![n].rsp_event = r.rsp_prod_pvt + 1]
      /\ gnotify' = [gnotify EXCEPT ![n] = FALSE]
      /\ UNCHANGED <<refcnt, stopped, qtimer, irq, xmit, sent, rx_queue, rxq, count,
                     alloc_index, net_timer, rx_notify, notify_list, pc, sleeping>>

\* Nothing is pending and the environment offers nothing more: the stack
\* has sent its packets or sees the queue stopped, and the guest has posted
\* and consumed all it can.  The system stops.
Quiescent ==
  /\ \A n \in Netifs :
       /\ sent[n] = MaxPkts \/ stopped[n]
       /\ xmit[n] = <<>> /\ ~qtimer[n] /\ ~irq[n]
       /\ ring[n].rsp_cons = ring[n].rsp_prod_pvt
       /\ ~ENABLED GuestRxPost(n)
  /\ rx_queue = <<>> /\ pc = "idle" /\ sleeping /\ ~net_timer
  /\ UNCHANGED vars

(***************************************************************************)
(* Initial state: each interface connected (netif_alloc and netif_map     *)
(* hold one reference each, BACK_RING_INIT and SHARED_RING_INIT done,     *)
(* rx_req_cons_peek = 0), the worker not yet asleep, mfn_list empty.       *)
(***************************************************************************)
Init ==
  /\ ring = [n \in Netifs |-> [req_prod |-> 0, req_event |-> 1, req_cons |-> 0,
                               rsp_prod_pvt |-> 0, rsp_event |-> 1, rsp_cons |-> 0,
                               peek |-> 0]]
  /\ refcnt = [n \in Netifs |-> 2]
  /\ stopped = [n \in Netifs |-> FALSE]
  /\ qtimer = [n \in Netifs |-> FALSE]
  /\ irq = [n \in Netifs |-> FALSE]
  /\ gnotify = [n \in Netifs |-> FALSE]
  /\ xmit = [n \in Netifs |-> <<>>]
  /\ sent = [n \in Netifs |-> 0]
  /\ rx_queue = <<>> /\ rxq = <<>> /\ count = 0
  /\ alloc_index = 0 /\ net_timer = FALSE
  /\ rx_notify = {} /\ notify_list = <<>>
  /\ pc = "idle" /\ sleeping = FALSE

Worker ==
  WorkerSleep \/ RxActionStart \/ RxBuildNext \/ RxBuildDone \/ RxMulticall
  \/ RxCheckNext \/ RxCheckDone

Next ==
  \/ Worker \/ NetAlarm \/ Quiescent
  \/ \E n \in Netifs :
       \/ \E s \in Offered(n) : netif_be_start_xmit(n, s)
       \/ XmitStop(n) \/ tx_queue_callback(n) \/ netif_be_int(n)
       \/ GuestRxPost(n) \/ GuestRxConsume(n)

\* The worker is a kernel thread, timers expire, raised events are
\* delivered and a started xmit returns.  The guest gets no fairness.
Fairness ==
  /\ WF_vars(Worker) /\ WF_vars(NetAlarm)
  /\ \A n \in Netifs : WF_vars(XmitStop(n)) /\ WF_vars(tx_queue_callback(n))
                       /\ WF_vars(netif_be_int(n))

Spec == Init /\ [][Next]_vars /\ Fairness


(***************************************************************************)
(* Properties.                                                             *)
(***************************************************************************)
TypeOK ==
  /\ ring \in [Netifs -> [req_prod : Nat, req_event : Nat, req_cons : Nat,
                          rsp_prod_pvt : Nat, rsp_event : Nat, rsp_cons : Nat,
                          peek : Nat]]
  /\ refcnt \in [Netifs -> Nat]
  /\ xmit \in [Netifs -> Seq(Skbs)] /\ rx_queue \in Seq(Skbs) /\ rxq \in Seq(Skbs)
  /\ alloc_index \in 0 .. MAX_MFN_ALLOC
  /\ rx_notify \subseteq Netifs /\ notify_list \in Seq(Netifs)
  /\ pc \in {"idle", "build", "mcall", "check"}

(* rx_req_cons_peek is what netbk_queue_full trusts: it must run ahead of *)
(* req_cons by exactly the rx slots of the interface's skbs still waiting *)
(* in rx_queue or in netif_be_start_xmit, including skbs requeued after   *)
(* GNTST_eagain, whose first attempt has already consumed requests.       *)
PeekAccounting ==
  \A n \in Netifs :
    ring[n].peek = ring[n].req_cons + SlotsOf(n, rx_queue) + SlotsOf(n, xmit[n])

(* The backend never takes an rx request the guest has not posted: the    *)
(* queue-full checks of netif_be_start_xmit and of the eagain requeue     *)
(* keep req_cons at or behind req_prod however packets, retries and guest *)
(* posts interleave.                                                      *)
RxNoOverrun == \A n \in Netifs : ring[n].req_cons <= ring[n].req_prod

(* Every rx request net_rx_action consumes is answered exactly once,      *)
(* counting the GSO extra-info slot: outside the skbs in the current      *)
(* batch, responses produced equal requests consumed.                     *)
ResponsesMatchRequests ==
  \A n \in Netifs : ring[n].rsp_prod_pvt + SlotsOf(n, rxq) = ring[n].req_cons

(* Each skb queued for an interface holds one reference, dropped when the *)
(* skb is answered and freed but kept across an eagain requeue; on top    *)
(* are the two of netif_alloc and netif_map.                              *)
RefcountBalance ==
  \A n \in Netifs :
    refcnt[n] = 2 + Len(SkbsOf(n, rx_queue)) + Len(SkbsOf(n, rxq)) + Len(xmit[n])

(* spec.md section 8, notification dedup: within one pass an interface is *)
(* put on notify_list at most once, whatever the guest does to rsp_event  *)
(* in between.                                                            *)
NotifyOncePerPass == IsInjective(notify_list)

(* No lost notification: when responses have crossed the rsp_event the    *)
(* guest armed and it has not consumed them, the guest has an event       *)
(* pending or is on this pass's notify_list.  A stale rx_notify bit would *)
(* make __test_and_set_bit skip the interface in a later pass.            *)
NoLostNotification ==
  \A n \in Netifs :
    (ring[n].rsp_prod_pvt >= ring[n].rsp_event /\ ring[n].rsp_cons < ring[n].rsp_event)
      => gnotify[n] \/ Contains(notify_list, n)

(* A queue netif_be_start_xmit stopped is restarted: by netif_be_int or   *)
(* net_rx_action once buffers are back, and otherwise by the 500ms        *)
(* tx_queue_timeout, even when a wake raced with the stop.               *)
QueueRestarts == \A n \in Netifs : stopped[n] ~> ~stopped[n]

(* Every reference an skb for a copying receiver takes in                *)
(* netif_be_start_xmit is eventually dropped, so netif_disconnect's wait  *)
(* for the refcount ends.  A copying receiver needs no fresh frames, so   *)
(* this should hold whatever the hypervisor answers to check_mfn, and     *)
(* even when the guest stops posting buffers.                             *)
CopyingPacketsReleased == \A n \in Copying : refcnt[n] > 2 ~> refcnt[n] = 2

=============================================================================
