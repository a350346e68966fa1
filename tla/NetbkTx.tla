------------------------------ MODULE NetbkTx ------------------------------
(***************************************************************************)
(* The transmit path of one netback group (drivers/xen/netback/netback.c): *)
(* guests post transmit requests on their shared tx rings, the group's     *)
(* worker thread (netbk_action_thread -> net_tx_action) takes interfaces   *)
(* off the schedule list, validates one packet per iteration, allocates    *)
(* pending slots from the pending ring, issues one batched grant-map call, *)
(* checks every map status (netbk_tx_check_mop) and hands good packets to  *)
(* the network stack.  The stack drops its page references at any later    *)
(* time; the page-release callback stages the slot on the dealloc ring,    *)
(* and the next pass unmaps it, answers the guest and frees the slot.      *)
(*                                                                         *)
(* The module keeps every state change, guard and error path of those      *)
(* functions; payload bytes, statistics and checksum flags are left out.   *)
(* In the delayed-copy mode netback_init picks when the hypervisor offers  *)
(* GNTTABOP_unmap_and_replace, fragment slots also wait on               *)
(* pending_inuse_head, and the dealloc pass copies those held longer than  *)
(* HZ/2 out of the guest's page so that their slots are freed early.       *)
(* Requests carry their size, offset, more_data and extra_info flags, and  *)
(* the extra-info view of the slot (netif_extra_info shares the ring slot  *)
(* with netif_tx_request), because the control flow depends on them.      *)
(***************************************************************************)
EXTENDS Integers, Sequences, FiniteSets, SequencesExt, Functions

CONSTANTS
  Netifs,            \* the interfaces of the group (model values)
  MAX_PENDING_REQS,  \* size of the pending ring and of the dealloc ring
  MAX_SKB_FRAGS,     \* most fragment requests a packet may chain
  NET_TX_RING_SIZE,  \* slots of a shared tx ring
  PAGE_SIZE,         \* payload of one request must not cross a page
  ETH_HLEN,          \* smallest acceptable packet
  PKT_PROT_LEN,      \* bytes copied into the skb head
  ReqSizes,          \* sizes a guest may put in a request
  ReqOffsets,        \* offsets a guest may put in a request
  MaxReqs,           \* bound: requests each guest posts in a behaviour
  NoNetif,           \* the NULL netif of a zeroed pending_tx_info entry
  TxExtraFlags,      \* NETTXF_extra_info values a guest may set on a lone request
  Extras,            \* extra-info records a guest may post behind a header
  CopySkbMode,       \* netbk_copy_skb_mode, fixed by netback_init
  CopyResults        \* results gnttab_copy_grant_page may give a held page

ASSUME MAX_SKB_FRAGS < MAX_PENDING_REQS            \* BUILD_BUG_ON, line 1283
ASSUME MaxReqs <= NET_TX_RING_SIZE

Slots == 0 .. MAX_PENDING_REQS - 1
MASK_PEND_IDX(i) == i % MAX_PENDING_REQS

NETIF_RSP_OKAY == 0
NETIF_RSP_ERROR == -1
NETIF_RSP_NULL == 1

ENOENT == 2
ENOMEM == 12
EBUSY == 16
EINVAL == 22
EBADR == 53

NETBK_DONT_COPY_SKB == "dont"
NETBK_DELAYED_COPY_SKB == "delayed"

ASSUME CopySkbMode \in {NETBK_DONT_COPY_SKB, NETBK_DELAYED_COPY_SKB}
ASSUME CopyResults \subseteq {0, -EBUSY, -ENOMEM}

\* xen/interface/io/netif.h: GSO is the one extra-info type.
XEN_NETIF_EXTRA_TYPE_GSO == 1
XEN_NETIF_EXTRA_TYPE_MAX == 2
XEN_NETIF_GSO_TYPE_TCPV4 == 1

\* struct netif_extra_info: type, XEN_NETIF_EXTRA_FLAG_MORE, u.gso.size and
\* u.gso.type.  ZeroExtra is an entry of the memset extras[] array.
ExtraRecs == [type : Nat, more : BOOLEAN, size : Nat, gtype : Nat]
ZeroExtra == [type |-> 0, more |-> FALSE, size |-> 0, gtype |-> 0]

\* A ring slot as the guest writes it, in both of its views: the transmit
\* request (id is its ring index) and the extra-info record in info.
Reqs == [id : Nat, size : Int, offset : Nat, more : BOOLEAN, extra : BOOLEAN,
         info : ExtraRecs]

VARIABLES
  netif,     \* [Netifs -> ..]: shared tx ring and refcount of each interface
  netbk,     \* the group's struct xen_netbk
  held,      \* [Slots -> Nat]: page references held by the network stack
  pc,        \* where the worker thread is in net_tx_action
  sleeping   \* the worker sleeps on netbk_action_wq

vars == <<netif, netbk, held, pc, sleeping>>

(***************************************************************************)
(* Ring and pool arithmetic.                                               *)
(***************************************************************************)
nr_pending_reqs(nb) == MAX_PENDING_REQS - nb.pending_prod + nb.pending_cons

\* RING_HAS_UNCONSUMED_REQUESTS on the tx ring.
Unconsumed(f) ==
  LET req  == Len(f.reqs) - f.req_cons
      rsp  == NET_TX_RING_SIZE - (f.req_cons - Len(f.rsps))
  IN  IF req < rsp THEN req ELSE rsp

\* RING_FINAL_CHECK_FOR_REQUESTS: arm req_event when nothing is left.
\* Mutant: the check without re-arming req_event (RING_HAS_UNCONSUMED_REQUESTS).
FinalCheck_noarm(f) == f

FinalCheck(f) ==
  IF Unconsumed(f) > 0 THEN f ELSE [f EXCEPT !.req_event = f.req_cons + 1]

OnList(nb, n) == n \in Range(nb.sched)

\* tx_work_todo
TxWorkTodo(nb) ==
  \/ nb.dealloc_cons # nb.dealloc_prod
  \/ nr_pending_reqs(nb) + MAX_SKB_FRAGS < MAX_PENDING_REQS /\ nb.sched # <<>>

(***************************************************************************)
(* The helpers below transform a world record w = [nb, nf, held, wake],   *)
(* one per C function, so that an action can call them in code order.    *)
(* wake records that some wake_up(&netbk->netbk_action_wq) was issued.     *)
(***************************************************************************)
netif_get(w, n) == [w EXCEPT !.nf[n].refcnt = @ + 1]
netif_put(w, n) == [w EXCEPT !.nf[n].refcnt = @ - 1]
wake_up(w) == [w EXCEPT !.wake = TRUE]

\* make_tx_response: a request flagged extra_info also gets the next
\* response slot, NETIF_RSP_NULL, for the extra-info slot behind it.
make_tx_response(w, n, req, st) ==
  LET rsp  == <<[id |-> req.id, st |-> st]>>
      null == IF req.extra THEN <<[id |-> req.id + 1, st |-> NETIF_RSP_NULL]>> ELSE <<>>
  IN  [w EXCEPT !.nf[n].rsps = @ \o rsp \o null]

\* netbk->pending_ring[MASK_PEND_IDX(netbk->pending_prod++)] = idx
free_slot(w, idx) ==
  [w EXCEPT !.nb.pending_ring[MASK_PEND_IDX(w.nb.pending_prod)] = idx,
            !.nb.pending_prod = @ + 1]

netif_idx_release(w, idx) ==
  wake_up([w EXCEPT !.nb.dealloc_ring[MASK_PEND_IDX(w.nb.dealloc_prod)] = idx,
                    !.nb.dealloc_prod = @ + 1])

\* Mutant: list_add_tail without the netif_get that the list reference needs.
add_to_net_schedule_list_tail_noget(w, n) ==
  IF OnList(w.nb, n) THEN w ELSE [w EXCEPT !.nb.sched = Append(@, n)]

add_to_net_schedule_list_tail(w, n) ==
  IF OnList(w.nb, n) THEN w
  ELSE netif_get([w EXCEPT !.nb.sched = Append(@, n)], n)

remove_from_net_schedule_list(w, n) ==
  IF OnList(w.nb, n)
  THEN netif_put([w EXCEPT !.nb.sched = Remove(@, n)], n)
  ELSE w

maybe_schedule_tx_action(w) ==
  IF nr_pending_reqs(w.nb) < MAX_PENDING_REQS \div 2 /\ w.nb.sched # <<>>
  THEN wake_up(w) ELSE w

netif_schedule_work(w, n) ==
  LET w1 == [w EXCEPT !.nf[n] = FinalCheck(@)]
  IN  IF Unconsumed(w1.nf[n]) > 0
      THEN maybe_schedule_tx_action(add_to_net_schedule_list_tail(w1, n))
      ELSE w1

\* Mutant: the loop re-reads the ring from req_cons - 1, answering txp again.
netbk_tx_err_rereads(w, n, txp, end) ==
  LET cons == w.nf[n].req_cons
      rest == SubSeq(w.nf[n].reqs, cons, end)
      w1   == FoldLeft(LAMBDA acc, r : make_tx_response(acc, n, r, NETIF_RSP_ERROR),
                       make_tx_response(w, n, txp, NETIF_RSP_ERROR), rest)
      w2   == [w1 EXCEPT !.nf[n].req_cons = IF cons >= end THEN cons ELSE end]
  IN  netif_put(netif_schedule_work(w2, n), n)

\* netbk_tx_err: ERROR for txp and for the ring requests up to end.
netbk_tx_err(w, n, txp, end) ==
  LET cons == w.nf[n].req_cons
      rest == SubSeq(w.nf[n].reqs, cons + 1, end)
      w1   == FoldLeft(LAMBDA acc, r : make_tx_response(acc, n, r, NETIF_RSP_ERROR),
                       make_tx_response(w, n, txp, NETIF_RSP_ERROR), rest)
      w2   == [w1 EXCEPT !.nf[n].req_cons = IF cons >= end THEN cons ELSE end]
  IN  netif_put(netif_schedule_work(w2, n), n)

(***************************************************************************)
(* netbk_count_requests: the fragments chained behind first.  Returns the  *)
(* count (negative on error, as in C) and first's size less the fragment  *)
(* sizes.                                                                  *)
(***************************************************************************)
RECURSIVE CountFrom(_, _, _, _, _)
CountFrom(reqs, cons, size, work, frags) ==
  IF frags >= work \/ frags >= MAX_SKB_FRAGS
  THEN [ret |-> -frags, size |-> size]
  ELSE LET txp == reqs[cons + frags + 1]
       IN  IF txp.size > size THEN [ret |-> -frags, size |-> size]
           ELSE IF txp.offset + txp.size > PAGE_SIZE
                THEN [ret |-> -(frags + 1), size |-> size - txp.size]
           ELSE IF txp.more
                THEN CountFrom(reqs, cons, size - txp.size, work, frags + 1)
           ELSE [ret |-> frags + 1, size |-> size - txp.size]

netbk_count_requests(f, first, work) ==
  IF ~first.more THEN [ret |-> 0, size |-> first.size]
  ELSE CountFrom(f.reqs, f.req_cons, first.size, work, 0)

(***************************************************************************)
(* netbk_get_extras: read extra-info slots from cons while the MORE flag  *)
(* is set.  Returns work_to_do left (negative on error), the new req_cons *)
(* and extras[XEN_NETIF_EXTRA_TYPE_GSO - 1].                              *)
(***************************************************************************)
RECURSIVE GetExtras(_, _, _, _)
GetExtras(reqs, cons, work, gso) ==
  IF work <= 0 THEN [ret |-> -EBADR, cons |-> cons, gso |-> gso]
  ELSE LET extra == reqs[cons + 1].info
       IN  IF extra.type = 0 \/ extra.type >= XEN_NETIF_EXTRA_TYPE_MAX
           THEN [ret |-> -EINVAL, cons |-> cons + 1, gso |-> gso]
           ELSE IF extra.more THEN GetExtras(reqs, cons + 1, work - 1, extra)
           ELSE [ret |-> work - 1, cons |-> cons + 1, gso |-> extra]

netbk_get_extras(f, work) == GetExtras(f.reqs, f.req_cons, work, ZeroExtra)

\* netbk_set_skb_gso: 0, or -EINVAL for a zero size or a type but TCPv4.
netbk_set_skb_gso(gso) ==
  IF gso.size = 0 \/ gso.gtype # XEN_NETIF_GSO_TYPE_TCPV4 THEN -EINVAL ELSE 0

(***************************************************************************)
(* An skb on tx_queue: its header slot, its frags[] slots (frags[1] is the *)
(* header slot itself when the payload did not fit in the head) and the   *)
(* bytes copied into the head.  Map statuses live in one flat array       *)
(* (tx_map_ops) that netbk_tx_check_mop walks with a cursor, as in C.     *)
(***************************************************************************)
StartOf(skb) == IF skb.frags # <<>> /\ skb.frags[1] = skb.hdr THEN 1 ELSE 0
NrMops(skb) == 1 + Len(skb.frags) - StartOf(skb)

\* The slots an skb owns, each use counted once.
SkbSlots(skb) == <<skb.hdr>> \o SubSeq(skb.frags, StartOf(skb) + 1, Len(skb.frags))

(***************************************************************************)
(* netbk_tx_check_mop for one skb, as a fold over its map statuses in mop *)
(* order.  The accumulator carries the world and err.  After the first    *)
(* fragment error the preceding fragments are released as line 1174 does *)
(* it: the loop over j releases frags[i] each time, not frags[j].         *)
(***************************************************************************)
MopOk(w, k) == w.nb.mop_status[w.nb.mop_cons + k]

\* Mutant: the failed slot is answered but never put back on the pending ring.
tx_error_free_leak(w, n, idx) ==
  netif_put(make_tx_response(w, n, w.nb.pending_tx_info[idx].req, NETIF_RSP_ERROR), n)

tx_error_free(w, n, idx) ==
  netif_put(free_slot(make_tx_response(w, n, w.nb.pending_tx_info[idx].req,
                                       NETIF_RSP_ERROR), idx), n)

CheckHeader(w, skb, n) ==
  IF MopOk(w, 1)
  THEN [w |-> [w EXCEPT !.nb.mapped[skb.hdr] = TRUE], err |-> FALSE]
  ELSE [w |-> tx_error_free(w, n, skb.hdr), err |-> TRUE]

ReleasePreceding(w, skb, i) ==
  FoldLeft(LAMBDA a, j : netif_idx_release(a, skb.frags[i + 1]), w,
           [j \in 1 .. i - StartOf(skb) |-> j])

CheckFrag(acc, skb, n, i) ==
  LET w   == acc.w
      idx == skb.frags[i + 1]
  IN  IF MopOk(w, i - StartOf(skb) + 2)
      THEN LET w1 == [w EXCEPT !.nb.mapped[idx] = TRUE]
           IN  [w |-> IF acc.err THEN netif_idx_release(w1, idx) ELSE w1,
                err |-> acc.err]
      ELSE LET w1 == tx_error_free(w, n, idx)
           IN  IF acc.err THEN [w |-> w1, err |-> TRUE]
               ELSE [w |-> ReleasePreceding(netif_idx_release(w1, skb.hdr), skb, i),
                     err |-> TRUE]

netbk_tx_check_mop(w, skb) ==
  LET n  == w.nb.pending_tx_info[skb.hdr].netif
      st == StartOf(skb)
      r  == FoldLeft(LAMBDA acc, i : CheckFrag(acc, skb, n, i),
                     CheckHeader(w, skb, n),
                     [k \in 1 .. Len(skb.frags) - st |-> st + k - 1])
  IN  [r EXCEPT !.w.nb.mop_cons = @ + NrMops(skb)]

\* netbk_fill_frags: each frag slot goes on pending_inuse_head, stamped
\* with the current jiffies (not yet old); netif_rx then gives the stack a
\* reference on each frag page.
netbk_fill_frags(w, skb) ==
  FoldLeft(LAMBDA a, s : [a EXCEPT !.held[s] = @ + 1,
                                   !.nb.pending_inuse = Append(@, [idx |-> s, old |-> FALSE])],
           w, skb.frags)

(***************************************************************************)
(* The copy loop of net_tx_action_dealloc over pending_inuse_head, oldest  *)
(* first, with res[k] the result copy_pending_req gives entry k.  It stops *)
(* at the first entry younger than HZ/2 and at an unexpected result.  A    *)
(* copied slot joins the local list to be answered and freed: the stack    *)
(* keeps its skb, whose page is now a local copy that no longer releases   *)
(* the slot (gnttab_copy_grant_page, not in this tree, swaps mmap_pages).  *)
(* -EBUSY drops the entry from the list; -ENOENT, a page with no          *)
(* reference left, keeps it.  acc carries the entries kept, list and held. *)
(***************************************************************************)
RECURSIVE CopyLoop(_, _, _)
CopyLoop(inuse, res, acc) ==
  IF inuse = <<>> THEN acc
  ELSE LET e == Head(inuse)
           r == IF acc.held[e.idx] = 0 THEN -ENOENT ELSE Head(res)
           next(a) == CopyLoop(Tail(inuse), Tail(res), a)
       IN  IF ~e.old THEN [acc EXCEPT !.keep = @ \o inuse]
           ELSE CASE r = 0       -> next([acc EXCEPT !.list = Append(@, e.idx),
                                                     !.held[e.idx] = 0])
                  [] r = -EBUSY  -> next(acc)
                  [] r = -ENOENT -> next([acc EXCEPT !.keep = Append(@, e)])
                  [] OTHER       -> [acc EXCEPT !.keep = @ \o inuse]

(***************************************************************************)
(* net_tx_action_dealloc, first half: consume the dealloc ring onto the    *)
(* local list (list_move_tail takes each index off pending_inuse_head and  *)
(* makes one staged twice appear once), then, in delayed-copy mode, the    *)
(* copy loop.  The pass is atomic, so its do-while re-read finds nothing.  *)
(***************************************************************************)
DeallocWindow(nb) ==
  [k \in 1 .. nb.dealloc_prod - nb.dealloc_cons |->
     nb.dealloc_ring[MASK_PEND_IDX(nb.dealloc_cons + k - 1)]]

DeallocCollect(w, res) ==
  LET window == DeallocWindow(w.nb)
      list0  == FoldLeft(LAMBDA l, idx : Append(Remove(l, idx), idx), <<>>, window)
      inuse  == SelectSeq(w.nb.pending_inuse, LAMBDA e : e.idx \notin Range(window))
      c      == IF CopySkbMode # NETBK_DELAYED_COPY_SKB \/ inuse = <<>>
                THEN [keep |-> inuse, list |-> list0, held |-> w.held]
                ELSE CopyLoop(inuse, res, [keep |-> <<>>, list |-> list0, held |-> w.held])
  IN  [w    |-> [w EXCEPT !.nb.dealloc_cons = w.nb.dealloc_prod,
                          !.nb.pending_inuse = c.keep, !.held = c.held],
       list |-> c.list]

\* Mutant: the slot is answered and freed without its unmap op.
net_tx_action_dealloc_nounmap(w, res) ==
  LET d == DeallocCollect(w, res)
      done(a, idx) ==
        LET n == a.nb.pending_tx_info[idx].netif
        IN  netif_put(free_slot(make_tx_response(a, n, a.nb.pending_tx_info[idx].req,
                                                 NETIF_RSP_OKAY), idx), n)
  IN  FoldLeft(done, d.w, d.list)

\* Second half: one unmap hypercall for the list, then each slot is
\* answered OKAY, put back on the pending ring and its netif put.
net_tx_action_dealloc(w, res) ==
  LET d == DeallocCollect(w, res)
      done(a, idx) ==
        LET n == a.nb.pending_tx_info[idx].netif
        IN  netif_put(free_slot([make_tx_response(a, n, a.nb.pending_tx_info[idx].req,
                                                  NETIF_RSP_OKAY)
                                 EXCEPT !.nb.mapped[idx] = FALSE], idx), n)
  IN  FoldLeft(done, d.w, d.list)

\* The out: label of net_tx_action: in delayed-copy mode, mod_timer of
\* tx_pending_timer for the oldest entry of pending_inuse_head.
tx_action_out(nb) ==
  IF CopySkbMode = NETBK_DELAYED_COPY_SKB /\ nb.pending_inuse # <<>>
  THEN [nb EXCEPT !.tx_pending_timer = TRUE] ELSE nb

(***************************************************************************)
(* Actions.  W is the current world; Commit(w) makes w the next state.     *)
(***************************************************************************)
W == [nb |-> netbk, nf |-> netif, held |-> held, wake |-> FALSE]

Commit(w) ==
  /\ netbk' = w.nb
  /\ netif' = w.nf
  /\ held' = w.held
  /\ sleeping' = (sleeping /\ ~w.wake)

\* The loop condition of net_tx_action's build loop.
BuildLoopCond(nb) ==
  nr_pending_reqs(nb) + MAX_SKB_FRAGS < MAX_PENDING_REQS /\ nb.sched # <<>>

\* Where net_tx_action goes when the build loop ends: the map call, or out.
AfterBuild(nb) == IF nb.mops = 0 THEN "idle" ELSE "map"

\* Leave the build loop with world w: "if (mop == netbk->tx_map_ops) goto out".
LeaveBuild(w) ==
  /\ Commit(IF w.nb.mops = 0 THEN [w EXCEPT !.nb = tx_action_out(@)] ELSE w)
  /\ pc' = AfterBuild(w.nb)

\* netbk_action_thread finds tx work: net_tx_action up to its build loop.
TxActionStart ==
  /\ pc = "idle"
  /\ ~sleeping
  /\ TxWorkTodo(netbk)
  /\ \E res \in [1 .. Len(netbk.pending_inuse) -> CopyResults] :
       Commit([net_tx_action_dealloc(W, res) EXCEPT !.nb.mops = 0])
  /\ pc' = "build"

\* wait_event_interruptible finds no work and sleeps.
WorkerSleep ==
  /\ pc = "idle"
  /\ ~sleeping
  /\ ~TxWorkTodo(netbk)
  /\ sleeping' = TRUE
  /\ UNCHANGED <<netif, netbk, held, pc>>

\* A packet passed every check: allocate its slots and queue its map ops.
TxQueuePacket(w, n, first, ret, end) ==
  LET nb       == w.nb
      i        == w.nf[n].req_cons
      hdr      == nb.pending_ring[MASK_PEND_IDX(nb.pending_cons)]
      fslot(k) == nb.pending_ring[MASK_PEND_IDX(nb.pending_cons + k)]
      data_len == IF first.size > PKT_PROT_LEN /\ ret < MAX_SKB_FRAGS
                  THEN PKT_PROT_LEN ELSE first.size
      frags    == (IF data_len < first.size THEN <<hdr>> ELSE <<>>)
                    \o [k \in 1 .. ret |-> fslot(k)]
      info     == FoldLeft(LAMBDA acc, k :
                             [acc EXCEPT ![fslot(k)] =
                                [netif |-> n, req |-> w.nf[n].reqs[i + k]]],
                           [nb.pending_tx_info EXCEPT ![hdr] =
                              [netif |-> n, req |-> first]],
                           [k \in 1 .. ret |-> k])
      w1       == [w EXCEPT !.nb.pending_tx_info = info,
                            !.nb.pending_cons = @ + 1 + ret,
                            !.nb.tx_queue = Append(@, [hdr |-> hdr, frags |-> frags,
                                                       data_len |-> data_len]),
                            !.nb.mops = @ + 1 + ret,
                            !.nf[n].refcnt = @ + ret,
                            !.nf[n].req_cons = end]
      w2       == netif_schedule_work(w1, n)
  IN  /\ Commit(w2)
      /\ pc' = IF w2.nb.mops >= MAX_PENDING_REQS THEN "map" ELSE "build"

\* One iteration of the build loop for the interface at the list head.
TxBuildNext ==
  /\ pc = "build"
  /\ BuildLoopCond(netbk)
  /\ LET n     == Head(netbk.sched)
         w0    == remove_from_net_schedule_list(netif_get(W, n), n)
         w     == [w0 EXCEPT !.nf[n] = FinalCheck(@)]
         work  == Unconsumed(w.nf[n])
         i     == w.nf[n].req_cons
         txreq == w.nf[n].reqs[i + 1]
         w1    == [w EXCEPT !.nf[n].req_cons = i + 1]
         ge    == IF txreq.extra THEN netbk_get_extras(w1.nf[n], work - 1)
                  ELSE [ret |-> work - 1, cons |-> i + 1, gso |-> ZeroExtra]
         w2    == [w1 EXCEPT !.nf[n].req_cons = ge.cons]
         cr    == netbk_count_requests(w2.nf[n], txreq, ge.ret)
         first == [txreq EXCEPT !.size = cr.size]
         end   == ge.cons + cr.ret
         gsoerr == ge.gso.type # 0 /\ netbk_set_skb_gso(ge.gso) # 0
     IN  IF work = 0 THEN Commit(netif_put(w, n)) /\ UNCHANGED pc
         ELSE IF ge.ret < 0
              THEN Commit(netbk_tx_err(w2, n, txreq, ge.cons)) /\ UNCHANGED pc
         ELSE IF cr.ret < 0
              THEN Commit(netbk_tx_err(w2, n, txreq, ge.cons - cr.ret)) /\ UNCHANGED pc
         ELSE IF first.size < ETH_HLEN \/ first.offset + first.size > PAGE_SIZE
              THEN Commit(netbk_tx_err(w2, n, first, end)) /\ UNCHANGED pc
         \* alloc_skb fails: error the packet and leave the loop
         ELSE \/ LeaveBuild(netbk_tx_err(w2, n, first, end))
              \* netbk_set_skb_gso refuses the GSO extra: kfree_skb, error
              \/ /\ gsoerr
                 /\ Commit(netbk_tx_err(w2, n, first, end)) /\ UNCHANGED pc
              \/ /\ ~gsoerr
                 /\ TxQueuePacket(w2, n, first, cr.ret, end)

TxBuildDone ==
  /\ pc = "build"
  /\ ~BuildLoopCond(netbk)
  /\ LeaveBuild(W)

\* HYPERVISOR_grant_table_op(GNTTABOP_map_grant_ref): each map may fail.
TxMap ==
  /\ pc = "map"
  /\ \E st \in [1 .. netbk.mops -> BOOLEAN] :
        netbk' = [netbk EXCEPT !.mop_status = st, !.mop_cons = 0]
  /\ pc' = "check"
  /\ UNCHANGED <<netif, held, sleeping>>

\* One skb of the dequeue loop after the map call.
TxCheckNext ==
  /\ pc = "check"
  /\ netbk.tx_queue # <<>>
  /\ LET skb == Head(netbk.tx_queue)
         r   == netbk_tx_check_mop([W EXCEPT !.nb.tx_queue = Tail(@)], skb)
         w   == r.w
         txp == w.nb.pending_tx_info[skb.hdr].req
         w1  == IF skb.data_len < txp.size
                THEN [w EXCEPT !.nb.pending_tx_info[skb.hdr].req.offset = @ + skb.data_len,
                               !.nb.pending_tx_info[skb.hdr].req.size = @ - skb.data_len]
                ELSE netif_idx_release(w, skb.hdr)
     IN  Commit(IF r.err THEN w ELSE netbk_fill_frags(w1, skb))
  /\ UNCHANGED pc

TxCheckDone ==
  /\ pc = "check"
  /\ netbk.tx_queue = <<>>
  /\ netbk' = tx_action_out([netbk EXCEPT !.mop_status = <<>>, !.mop_cons = 0, !.mops = 0])
  /\ pc' = "idle"
  /\ UNCHANGED <<netif, held, sleeping>>

\* The stack drops a page reference; the last one runs netif_page_release.
PageRelease(s) ==
  /\ held[s] > 0
  /\ LET w == [W EXCEPT !.held[s] = @ - 1]
     IN  Commit(IF w.held[s] = 0 THEN netif_idx_release(w, s) ELSE w)
  /\ UNCHANGED pc

\* Jiffies pass the HZ/2 mark of the oldest entry of pending_inuse_head
\* not yet past it: time_after(alloc_time + HZ / 2, jiffies) turns false.
\* Entries are stamped in list order, so the old ones are a prefix.
InuseAge ==
  /\ \E k \in DOMAIN netbk.pending_inuse :
       /\ ~netbk.pending_inuse[k].old
       /\ \A j \in 1 .. k - 1 : netbk.pending_inuse[j].old
       /\ netbk' = [netbk EXCEPT !.pending_inuse[k].old = TRUE]
  /\ UNCHANGED <<netif, held, pc, sleeping>>

\* tx_pending_timer expires: netbk_tx_pending_timeout, in kthread mode a
\* wake_up of netbk_action_wq.  The thread then re-tests tx_work_todo.
netbk_tx_pending_timeout ==
  /\ netbk.tx_pending_timer
  /\ Commit(wake_up([W EXCEPT !.nb.tx_pending_timer = FALSE]))
  /\ UNCHANGED pc

\* netif_be_int: the guest's event channel fires.
NetifBeInt(n) ==
  /\ netif[n].irq
  /\ Commit(maybe_schedule_tx_action(
              add_to_net_schedule_list_tail([W EXCEPT !.nf[n].irq = FALSE], n)))
  /\ UNCHANGED pc

\* The guest posts one request (RING_PUSH_REQUESTS_AND_CHECK_NOTIFY).  Its
\* extra-info view is a zeroed record.
GuestPush(n, slots) ==
  LET old == Len(netif[n].reqs)
      evt == netif[n].req_event
      new == [k \in DOMAIN slots |-> [slots[k] EXCEPT !.id = old + k - 1]]
  IN  netif' = [netif EXCEPT
                  ![n].reqs = @ \o new,
                  ![n].irq = @ \/ (old < evt /\ evt <= old + Len(slots))]

GuestTx(n) ==
  /\ Len(netif[n].reqs) < MaxReqs
  /\ \E size \in ReqSizes, offset \in ReqOffsets, more \in BOOLEAN, extra \in TxExtraFlags :
       GuestPush(n, <<[id |-> 0, size |-> size, offset |-> offset, more |-> more,
                       extra |-> extra, info |-> ZeroExtra]>>)
  /\ UNCHANGED <<netbk, held, pc, sleeping>>

\* A GSO packet as a frontend posts it: the header flagged extra_info and
\* its extra-info slot, in one push.
GuestTxGso(n) ==
  /\ Len(netif[n].reqs) + 2 <= MaxReqs
  /\ \E size \in ReqSizes, offset \in ReqOffsets, more \in BOOLEAN, x \in Extras :
       GuestPush(n, <<[id |-> 0, size |-> size, offset |-> offset, more |-> more,
                       extra |-> TRUE, info |-> ZeroExtra],
                      [id |-> 0, size |-> 0, offset |-> 0, more |-> FALSE,
                       extra |-> FALSE, info |-> x]>>)
  /\ UNCHANGED <<netbk, held, pc, sleeping>>

\* Every guest has posted and been answered and the worker sleeps idle.
Quiescent ==
  /\ pc = "idle"
  /\ sleeping
  /\ \A n \in Netifs : Len(netif[n].reqs) = MaxReqs /\ ~netif[n].irq
  /\ \A s \in Slots : held[s] = 0
  /\ ~TxWorkTodo(netbk)
  /\ UNCHANGED vars

Init ==
  /\ netif = [n \in Netifs |-> [reqs |-> <<>>, req_cons |-> 0, req_event |-> 1,
                                rsps |-> <<>>, refcnt |-> 2, irq |-> FALSE]]
  /\ netbk = [pending_ring    |-> [s \in Slots |-> s],
              pending_prod    |-> MAX_PENDING_REQS,
              pending_cons    |-> 0,
              dealloc_ring    |-> [s \in Slots |-> 0],
              dealloc_prod    |-> 0,
              dealloc_cons    |-> 0,
              pending_tx_info |-> [s \in Slots |->
                                     [netif |-> NoNetif,
                                      req |-> [id |-> 0, size |-> 0, offset |-> 0,
                                               more |-> FALSE, extra |-> FALSE,
                                               info |-> ZeroExtra]]],
              mapped          |-> [s \in Slots |-> FALSE],
              sched           |-> <<>>,
              tx_queue        |-> <<>>,
              mops            |-> 0,
              mop_status      |-> <<>>,
              mop_cons        |-> 0,
              pending_inuse   |-> <<>>,
              tx_pending_timer |-> FALSE]
  /\ held = [s \in Slots |-> 0]
  /\ pc = "idle"
  /\ sleeping = FALSE

Next ==
  \/ TxActionStart \/ WorkerSleep
  \/ TxBuildNext \/ TxBuildDone
  \/ TxMap \/ TxCheckNext \/ TxCheckDone
  \/ \E s \in Slots : PageRelease(s)
  \/ InuseAge \/ netbk_tx_pending_timeout
  \/ \E n \in Netifs : NetifBeInt(n) \/ GuestTx(n) \/ GuestTxGso(n)
  \/ Quiescent

\* The worker thread runs whenever it is awake and has work; event
\* channels are delivered; time passes and an armed timer expires.
WorkerFairness ==
  /\ WF_vars(TxActionStart \/ TxBuildNext \/ TxBuildDone \/ TxMap
             \/ TxCheckNext \/ TxCheckDone)
  /\ \A n \in Netifs : WF_vars(NetifBeInt(n))
  /\ WF_vars(InuseAge) /\ WF_vars(netbk_tx_pending_timeout)

\* The stack eventually frees every skb it was given.
StackFairness == \A s \in Slots : WF_vars(PageRelease(s))

Spec == Init /\ [][Next]_vars /\ WorkerFairness /\ StackFairness

\* A stack that may keep an skb for ever (a stalled qdisc or socket), the
\* case the delayed copy exists for.
SpecStackHolds == Init /\ [][Next]_vars /\ WorkerFairness


(***************************************************************************)
(* Properties.                                                             *)
(***************************************************************************)
TypeOK ==
  /\ netif \in [Netifs -> [reqs : Seq(Reqs), req_cons : Nat, req_event : Nat,
                           rsps : Seq([id : Nat, st : {NETIF_RSP_OKAY, NETIF_RSP_ERROR, NETIF_RSP_NULL}]),
                           refcnt : Nat, irq : BOOLEAN]]
  /\ netbk.pending_ring \in [Slots -> Slots]
  /\ netbk.dealloc_ring \in [Slots -> Slots]
  /\ netbk.pending_tx_info \in [Slots -> [netif : Netifs \cup {NoNetif}, req : Reqs]]
  /\ netbk.mapped \in [Slots -> BOOLEAN]
  /\ netbk.sched \in Seq(Netifs)
  /\ netbk.pending_inuse \in Seq([idx : Slots, old : BOOLEAN])
  /\ netbk.tx_pending_timer \in BOOLEAN
  /\ held \in [Slots -> Nat]
  /\ pc \in {"idle", "build", "map", "check"}
  /\ sleeping \in BOOLEAN

\* Uses of slot s in each place a slot can be.
FreeCount(s) ==
  Cardinality({k \in netbk.pending_cons .. netbk.pending_prod - 1 :
                 netbk.pending_ring[MASK_PEND_IDX(k)] = s})
DeallocCount(s) ==
  Cardinality({k \in netbk.dealloc_cons .. netbk.dealloc_prod - 1 :
                 netbk.dealloc_ring[MASK_PEND_IDX(k)] = s})
QueueCount(s) ==
  FoldLeft(LAMBDA a, skb : a + Cardinality({k \in DOMAIN SkbSlots(skb) :
                                              SkbSlots(skb)[k] = s}),
           0, netbk.tx_queue)

(* Pool conservation (pending_ring, tx_queue, the stack's page references  *)
(* and the dealloc ring): every pending slot is in exactly one place at a  *)
(* time: free on the pending ring, owned by a queued skb, held by the      *)
(* stack, or staged for unmapping.  A slot freed twice, or freed while in  *)
(* use, or never freed, breaks it.                                         *)
PoolPartition ==
  \A s \in Slots :
    FreeCount(s) + QueueCount(s) + (IF held[s] > 0 THEN 1 ELSE 0) + DeallocCount(s) = 1

(* make_tx_response is called at most once for each request, and only for *)
(* requests the backend has consumed from the ring (tx.req_cons).           *)
OneResponsePerRequest ==
  \A n \in Netifs :
    LET r == netif[n].rsps
    IN  \A k \in DOMAIN r :
          /\ r[k].id < netif[n].req_cons
          /\ \A j \in DOMAIN r : j # k => r[j].id # r[k].id

(* The interface refcount (netif_get / netif_put) equals the references    *)
(* actually held: two for allocation and connection, one for membership of *)
(* net_schedule_list, one for each pending slot in use on its behalf.      *)
RefcountBalance ==
  \A n \in Netifs :
    netif[n].refcnt =
      2 + (IF OnList(netbk, n) THEN 1 ELSE 0)
        + Cardinality({s \in Slots : FreeCount(s) = 0
                                     /\ netbk.pending_tx_info[s].netif = n})

(* A grant is unmapped before its slot goes back on the pending ring, so   *)
(* the next map into the same page never finds a live mapping.             *)
FreeSlotsUnmapped ==
  \A s \in Slots : FreeCount(s) > 0 => ~netbk.mapped[s]

(***************************************************************************)
(* Refinement: the guests' view of the ring (requests posted, req_cons,    *)
(* responses) behaves as TxService.  A pending slot holds one request     *)
(* unanswered, and a header's slot also the extra-info slot behind it,     *)
(* which make_tx_response answers with the header: hence twice            *)
(* MAX_PENDING_REQS.                                                       *)
(***************************************************************************)
Service == INSTANCE TxService
             WITH posted   <- [n \in Netifs |-> Len(netif[n].reqs)],
                  consumed <- [n \in Netifs |-> netif[n].req_cons],
                  rsps     <- [n \in Netifs |-> netif[n].rsps],
                  Capacity <- 2 * MAX_PENDING_REQS,
                  Statuses <- {NETIF_RSP_OKAY, NETIF_RSP_ERROR, NETIF_RSP_NULL}

(* net_tx_action and its error and dealloc paths implement TxService: the  *)
(* backend never consumes a request the guest has not pushed, answers each *)
(* consumed request once, never holds more consumed requests unanswered    *)
(* than it has pending slots, and eventually answers every request.         *)
ImplementsTxService == Service!Spec
=============================================================================
