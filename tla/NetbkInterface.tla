--------------------------- MODULE NetbkInterface ---------------------------
(***************************************************************************)
(* The life of a netback interface (drivers/xen/netback/interface.c) and   *)
(* its membership of a group (a partition of xen_netbk[]), against the     *)
(* contexts that use the group index: the group's worker (net_tx_action),  *)
(* the credit timer (tx_credit_callback), the event handler                *)
(* (netif_be_int) and a copying receiver reading a foreign page.           *)
(*                                                                         *)
(* What the transmit path does with a request is NetbkTx's and NetbkCredit *)
(* 's; here a worker iteration only chooses among its outcomes (no work,   *)
(* credit deferral, error, packet built) and keeps every use of            *)
(* GET_GROUP_INDEX(netif) and every reference it takes or drops.           *)
(*                                                                         *)
(* rtnl_lock serialises net_open, net_close, netif_map's __netif_up and    *)
(* netif_disconnect's __netif_down; nothing else takes it.  dev_open sets  *)
(* the running bit before it calls ndo_open and dev_close clears it before *)
(* ndo_stop, both under rtnl, so those are two steps each (devpc).         *)
(*                                                                         *)
(* An index of xen_netbk[] outside the array, a BUG_ON and a use of a      *)
(* freed netif are recorded in the history variable oops; the model then   *)
(* goes on as if the stray access had no other effect.                     *)
(***************************************************************************)
EXTENDS Naturals, Sequences, FiniteSets, SequencesExt

CONSTANTS
  Netifs,           \* interfaces (model values)
  netbk_nr_groups,  \* module parameter "groups": the size of xen_netbk[]
  UINT_MAX,         \* netif->group of an interface in no group
  MaxReqs,          \* unconsumed transmit requests a guest keeps posted
  PoolSlots         \* packets a group's pending pool holds at once

\* The code only compares UINT_MAX with netbk_nr_groups and with itself.
ASSUME netbk_nr_groups \in Nat \ {0} /\ UINT_MAX >= netbk_nr_groups
ASSUME MaxReqs \in Nat \ {0} /\ PoolSlots \in Nat \ {0}

Groups == 0 .. netbk_nr_groups - 1

\* The schedule lists: one per group, and the list_head that
\* &xen_netbk[UINT_MAX] points into, which no worker serves.
Lists == Groups \cup {UINT_MAX}

\* Where the code can oops.
OopsSites == {"xen_netbk[UINT_MAX]", "pool of another group",
              "BUG_ON(ext->group)", "netif used after free"}

VARIABLES
  life,      \* [Netifs -> ..]: "none" (not yet allocated), "alloc", "binding"
             \*   (netif_map between bind and disable_irq), "closing"
             \*   (netif_disconnect waiting for refcnt to reach 0), "freed";
             \*   each netif is one vif, created once
  carrier,   \* netback_carrier_ok(netif)
  running,   \* netif_running(netif->dev)
  devpc,     \* "idle", or between dev_open/dev_close and ndo_open/ndo_stop
  irq,       \* "none" (unbound), "on" (enabled), "off" (disabled)
  group,     \* netif->group
  refcnt,    \* netif->refcnt
  work,      \* unconsumed requests on the tx ring
  timer,     \* timer_pending(&netif->credit_timeout)
  nr,        \* [Groups -> Nat]: xen_netbk[g].group_domain_nr
  sched,     \* [Lists -> Seq(Netifs)]: net_schedule_list of each group
  wpc,       \* [Groups -> ..]: the worker's place in one loop iteration
  wnetif,    \* [Groups -> Netifs]: the netif that iteration works on
  inflight,  \* [Groups -> [Netifs -> Nat]]: packets in g's pending pool
  oops       \* history: the OopsSites reached

vars == <<life, carrier, running, devpc, irq, group, refcnt, work, timer,
          nr, sched, wpc, wnetif, inflight, oops>>

(***************************************************************************)
(* Helpers.  W is the state netif_schedule_work and the list operations    *)
(* change; each helper maps one W to the next, in the code's order.        *)
(***************************************************************************)
\* netif_schedulable (common.h): the device is up and has carrier.
netif_schedulable(w, n) == running[n] /\ w.carrier[n]

\* __on_net_schedule_list: netif->list.next != NULL, whichever list it is on.
OnList(w, n) == \E l \in Lists : Contains(w.sched[l], n)

\* &xen_netbk[g] followed: a wild pointer unless g < netbk_nr_groups.
netbk_at(w, g) ==
  IF g \in Groups THEN w ELSE [w EXCEPT !.oops = @ \cup {"xen_netbk[UINT_MAX]"}]

netif_get(w, n) == [w EXCEPT !.refcnt[n] = @ + 1]
netif_put(w, n) == [w EXCEPT !.refcnt[n] = @ - 1]

\* remove_from_net_schedule_list: lock xen_netbk[group]'s list; if the netif
\* is on a list, list_del it (from whichever list holds it) and put it.
remove_from_net_schedule_list(w, n, g) ==
  LET w1 == netbk_at(w, g) IN
  IF OnList(w1, n)
  THEN netif_put([w1 EXCEPT !.sched = [l \in Lists |-> Remove(@[l], n)]], n)
  ELSE w1

\* add_to_net_schedule_list_tail: nothing if already listed; otherwise,
\* under xen_netbk[group]'s lock, list_add_tail and get if schedulable.
add_to_net_schedule_list_tail(w, n, g) ==
  IF OnList(w, n) THEN w
  ELSE LET w1 == netbk_at(w, g)
       IN  IF netif_schedulable(w, n)
           THEN netif_get([w1 EXCEPT !.sched[g] = Append(@, n)], n)
           ELSE w1

\* maybe_schedule_tx_action: reads xen_netbk[group] to decide on a wake-up
\* (workers are modelled as polling their list).
maybe_schedule_tx_action(w, g) == netbk_at(w, g)

\* netif_schedule_work with `more` unconsumed requests: list and kick.
netif_schedule_work(w, n, g, more) ==
  IF more > 0
  THEN maybe_schedule_tx_action(add_to_net_schedule_list_tail(w, n, g), g)
  ELSE w

netif_deschedule_work(w, n, g) == remove_from_net_schedule_list(w, n, g)

W == [sched |-> sched, refcnt |-> refcnt, oops |-> oops, carrier |-> carrier,
      group |-> group, nr |-> nr, irq |-> irq]

Commit(w) ==
  /\ sched' = w.sched /\ refcnt' = w.refcnt /\ oops' = w.oops
  /\ carrier' = w.carrier /\ group' = w.group /\ nr' = w.nr /\ irq' = w.irq

\* Mutant: the loop stops one group short.
RECURSIVE least_loaded_from_short(_, _, _, _)
least_loaded_from_short(cnt, i, g, min_domains) ==
  IF i >= netbk_nr_groups - 1 THEN g
  ELSE IF cnt[i] < min_domains
       THEN least_loaded_from_short(cnt, i + 1, i, cnt[i])
       ELSE least_loaded_from_short(cnt, i + 1, g, min_domains)

\* The loop of __netif_up from i = 1: the first group with the fewest
\* interfaces.
RECURSIVE least_loaded_from(_, _, _, _)
least_loaded_from(cnt, i, g, min_domains) ==
  IF i >= netbk_nr_groups THEN g
  ELSE IF cnt[i] < min_domains
       THEN least_loaded_from(cnt, i + 1, i, cnt[i])
       ELSE least_loaded_from(cnt, i + 1, g, min_domains)

least_loaded(cnt) == least_loaded_from(cnt, 1, 0, cnt[0])

\* __netif_up: join the least-loaded group, enable the event, kick.
__netif_up(w, n) ==
  LET g == least_loaded(w.nr)
  IN  netif_schedule_work([w EXCEPT !.nr[g] = @ + 1, !.group[n] = g, !.irq[n] = "on"],
                          n, g, work[n])

\* Mutant: the group is read after it has been set to UINT_MAX.
__netif_down_lategroup(w, n) ==
  LET w1 == netif_deschedule_work([w EXCEPT !.irq[n] = "off"], n, w.group[n])
      w2 == netbk_at([w1 EXCEPT !.group[n] = UINT_MAX], UINT_MAX)
  IN  w2

\* __netif_down: netbk = xen_netbk + netif->group, then disable the event,
\* deschedule, set the group to UINT_MAX and leave netbk's domain list.
__netif_down(w, n) ==
  LET g  == w.group[n]
      w1 == netif_deschedule_work([w EXCEPT !.irq[n] = "off"], n, g)
      w2 == netbk_at([w1 EXCEPT !.group[n] = UINT_MAX], g)
  IN  [w2 EXCEPT !.nr = IF g \in Groups THEN [@ EXCEPT ![g] = @ - 1] ELSE @]

\* A netif between netif_alloc and the free of netif_disconnect.
Live == {"alloc", "binding", "closing"}

\* rtnl_lock is free: no dev_open or dev_close is between its two steps.
RtnlFree == \A m \in Netifs : devpc[m] = "idle"

PoolUse(g) == FoldFunction(LAMBDA x, y : x + y, 0, inflight[g])

(***************************************************************************)
(* The control path: interface.c and the device core's half of open/close. *)
(***************************************************************************)
\* netif_alloc: a fresh netif, in no group, holding its own reference.
netif_alloc(n) ==
  /\ life[n] = "none"
  /\ life' = [life EXCEPT ![n] = "alloc"]
  /\ group' = [group EXCEPT ![n] = UINT_MAX]
  /\ refcnt' = [refcnt EXCEPT ![n] = 1]
  /\ UNCHANGED <<carrier, running, devpc, irq, work, timer, nr, sched, wpc,
                 wnetif, inflight, oops>>

\* netif_map up to bind_interdomain_evtchn_to_irqhandler, which binds the
\* event enabled (a failed allocation, map or bind leaves nothing behind).
netif_map(n) ==
  /\ life[n] = "alloc" /\ irq[n] = "none"
  /\ life' = [life EXCEPT ![n] = "binding"]
  /\ irq' = [irq EXCEPT ![n] = "on"]
  /\ UNCHANGED <<carrier, running, devpc, group, refcnt, work, timer, nr,
                 sched, wpc, wnetif, inflight, oops>>

\* The rest of netif_map: disable_irq, netif_get, and under rtnl carrier on
\* and __netif_up if the device is running.
netif_map_finish(n) ==
  /\ life[n] = "binding" /\ RtnlFree
  /\ LET w1 == netif_get([W EXCEPT !.irq[n] = "off", !.carrier[n] = TRUE], n)
     IN  Commit(IF running[n] THEN __netif_up(w1, n) ELSE w1)
  /\ life' = [life EXCEPT ![n] = "alloc"]
  /\ UNCHANGED <<running, devpc, work, timer, wpc, wnetif, inflight>>

\* dev_open sets __LINK_STATE_START under rtnl before calling ndo_open.
DevOpen(n) ==
  /\ life[n] \in Live /\ ~running[n] /\ RtnlFree
  /\ running' = [running EXCEPT ![n] = TRUE]
  /\ devpc' = [devpc EXCEPT ![n] = "opening"]
  /\ UNCHANGED <<life, carrier, irq, group, refcnt, work, timer, nr, sched,
                 wpc, wnetif, inflight, oops>>

\* net_open: __netif_up if the carrier is on; rtnl is released.
net_open(n) ==
  /\ devpc[n] = "opening"
  /\ Commit(IF carrier[n] THEN __netif_up(W, n) ELSE W)
  /\ devpc' = [devpc EXCEPT ![n] = "idle"]
  /\ UNCHANGED <<life, running, work, timer, wpc, wnetif, inflight>>

\* dev_close clears __LINK_STATE_START under rtnl before calling ndo_stop.
DevClose(n) ==
  /\ life[n] \in Live /\ running[n] /\ RtnlFree
  /\ running' = [running EXCEPT ![n] = FALSE]
  /\ devpc' = [devpc EXCEPT ![n] = "closing"]
  /\ UNCHANGED <<life, carrier, irq, group, refcnt, work, timer, nr, sched,
                 wpc, wnetif, inflight, oops>>

\* net_close: __netif_down if the carrier is on; rtnl is released.
net_close(n) ==
  /\ devpc[n] = "closing"
  /\ Commit(IF carrier[n] THEN __netif_down(W, n) ELSE W)
  /\ devpc' = [devpc EXCEPT ![n] = "idle"]
  /\ UNCHANGED <<life, running, work, timer, wpc, wnetif, inflight>>

\* Mutant: the reference netif_map took is not dropped.
DisconnectStart_noput(n) ==
  /\ life[n] = "alloc" /\ RtnlFree
  /\ LET w1 == [W EXCEPT !.carrier[n] = FALSE]
         w2 == IF running[n] THEN __netif_down(w1, n) ELSE w1
     IN  Commit(netif_put(IF carrier[n] THEN w2 ELSE W, n))
  /\ life' = [life EXCEPT ![n] = "closing"]
  /\ UNCHANGED <<running, devpc, work, timer, wpc, wnetif, inflight>>

\* netif_disconnect up to the wait: under rtnl carrier off and __netif_down
\* if running, then netif_put (netif_map's reference) if the carrier was on;
\* then atomic_dec of netif_alloc's reference.
DisconnectStart(n) ==
  /\ life[n] = "alloc" /\ RtnlFree
  /\ LET w1 == [W EXCEPT !.carrier[n] = FALSE]
         w2 == IF running[n] THEN __netif_down(w1, n) ELSE w1
     IN  Commit(netif_put(IF carrier[n] THEN netif_put(w2, n) ELSE W, n))
  /\ life' = [life EXCEPT ![n] = "closing"]
  /\ UNCHANGED <<running, devpc, work, timer, wpc, wnetif, inflight>>

\* The rest of netif_disconnect once refcnt is 0: del_timer_sync, unbind,
\* unregister_netdev (under rtnl; it closes the device, and net_close does
\* nothing without carrier), unmap the rings and free the netif.
DisconnectFree(n) ==
  /\ life[n] = "closing" /\ refcnt[n] = 0 /\ RtnlFree
  /\ life' = [life EXCEPT ![n] = "freed"]
  /\ timer' = [timer EXCEPT ![n] = FALSE]
  /\ irq' = [irq EXCEPT ![n] = "none"]
  /\ running' = [running EXCEPT ![n] = FALSE]
  /\ work' = [work EXCEPT ![n] = 0]
  /\ UNCHANGED <<carrier, devpc, group, refcnt, nr, sched, wpc, wnetif,
                 inflight, oops>>

(***************************************************************************)
(* One iteration of net_tx_action's loop in group g's worker.              *)
(***************************************************************************)
\* Mutant: the loop does not check the pending pool.
WorkerPick_nolimit(g) ==
  /\ wpc[g] = "idle" /\ sched[g] # <<>>
  /\ wnetif' = [wnetif EXCEPT ![g] = Head(sched[g])]
  /\ wpc' = [wpc EXCEPT ![g] = "picked"]
  /\ UNCHANGED <<life, carrier, running, devpc, irq, group, refcnt, work,
                 timer, nr, sched, inflight, oops>>

\* list_first_entry of the group's list, read without the list lock, while
\* the pool has room for a packet.
WorkerPick(g) ==
  /\ wpc[g] = "idle" /\ sched[g] # <<>> /\ PoolUse(g) < PoolSlots
  /\ wnetif' = [wnetif EXCEPT ![g] = Head(sched[g])]
  /\ wpc' = [wpc EXCEPT ![g] = "picked"]
  /\ UNCHANGED <<life, carrier, running, devpc, irq, group, refcnt, work,
                 timer, nr, sched, inflight, oops>>

\* netif_get and remove_from_net_schedule_list of the netif read.
WorkerTake(g) ==
  LET n == wnetif[g] IN
  /\ wpc[g] = "picked"
  /\ \/ /\ life[n] = "freed"
        /\ oops' = oops \cup {"netif used after free"}
        /\ wpc' = [wpc EXCEPT ![g] = "idle"]
        /\ UNCHANGED <<sched, refcnt>>
     \/ /\ life[n] # "freed"
        /\ LET w == remove_from_net_schedule_list(netif_get(W, n), n, group[n])
           IN  sched' = w.sched /\ refcnt' = w.refcnt /\ oops' = w.oops
        /\ wpc' = [wpc EXCEPT ![g] = "held"]
  /\ UNCHANGED <<life, carrier, running, devpc, irq, group, work, timer, nr,
                 wnetif, inflight>>

\* RING_FINAL_CHECK_FOR_REQUESTS finds nothing: netif_put.
WorkerNoWork(g) ==
  LET n == wnetif[g] IN
  /\ wpc[g] = "held" /\ work[n] = 0
  /\ Commit(netif_put(W, n))
  /\ wpc' = [wpc EXCEPT ![g] = "idle"]
  /\ UNCHANGED <<life, running, devpc, work, timer, wnetif, inflight>>

\* Mutant: the deferral path keeps the reference.
WorkerCreditWait_noput(g) ==
  LET n == wnetif[g] IN
  /\ wpc[g] = "held" /\ work[n] > 0
  /\ timer' = [timer EXCEPT ![n] = TRUE]
  /\ Commit(W)
  /\ wpc' = [wpc EXCEPT ![g] = "idle"]
  /\ UNCHANGED <<life, running, devpc, work, wnetif, inflight>>

\* The request is over the credit: the timer is already pending, or it is
\* armed (mod_timer with tx_credit_callback); netif_put either way.
WorkerCreditWait(g) ==
  LET n == wnetif[g] IN
  /\ wpc[g] = "held" /\ work[n] > 0
  /\ timer' = [timer EXCEPT ![n] = TRUE]
  /\ Commit(netif_put(W, n))
  /\ wpc' = [wpc EXCEPT ![g] = "idle"]
  /\ UNCHANGED <<life, running, devpc, work, wnetif, inflight>>

\* A malformed request (or no skb): netbk_tx_err consumes it and calls
\* netif_schedule_work, then netif_put.
WorkerTxErr(g) ==
  LET n == wnetif[g] IN
  /\ wpc[g] = "held" /\ work[n] > 0
  /\ work' = [work EXCEPT ![n] = @ - 1]
  /\ Commit(netif_put(netif_schedule_work(W, n, group[n], work[n] - 1), n))
  /\ wpc' = [wpc EXCEPT ![g] = "idle"]
  /\ UNCHANGED <<life, running, devpc, timer, wnetif, inflight>>

\* netbk_get_requests takes the fragments' slots from
\* xen_netbk[GET_GROUP_INDEX(netif)], not from the worker's own netbk.
netbk_get_requests(w, n, g) ==
  IF w.group[n] = g THEN w
  ELSE IF w.group[n] \in Groups
       THEN [w EXCEPT !.oops = @ \cup {"pool of another group"}]
       ELSE netbk_at(w, w.group[n])

\* A packet is built: its header takes a slot of this group's pool and the
\* netif's reference passes to it; fragments (if any) through
\* netbk_get_requests; then netif_schedule_work.
WorkerTxPacket(g) ==
  LET n == wnetif[g] IN
  /\ wpc[g] = "held" /\ work[n] > 0
  /\ work' = [work EXCEPT ![n] = @ - 1]
  /\ inflight' = [inflight EXCEPT ![g][n] = @ + 1]
  /\ \E frags \in BOOLEAN :
       LET w1 == IF frags THEN netbk_get_requests(W, n, g) ELSE W
       IN  Commit(netif_schedule_work(w1, n, group[n], work[n] - 1))
  /\ wpc' = [wpc EXCEPT ![g] = "idle"]
  /\ UNCHANGED <<life, running, devpc, timer, wnetif>>

(***************************************************************************)
(* The other contexts.                                                     *)
(***************************************************************************)
\* tx_credit_callback: (tx_add_credit) then netif_schedule_work.
tx_credit_callback(n) ==
  /\ timer[n]
  /\ timer' = [timer EXCEPT ![n] = FALSE]
  /\ Commit(netif_schedule_work(W, n, group[n], work[n]))
  /\ UNCHANGED <<life, running, devpc, work, wpc, wnetif, inflight>>

\* netif_be_int: an event before the netif has a group is ignored;
\* otherwise list the netif and kick its group.
netif_be_int(n) ==
  /\ irq[n] = "on" /\ group[n] \in Groups
  /\ Commit(maybe_schedule_tx_action(add_to_net_schedule_list_tail(W, n, group[n]),
                                     group[n]))
  /\ UNCHANGED <<life, running, devpc, work, timer, wpc, wnetif, inflight>>

\* The skb of a packet from pool g is freed: netif_page_release queues the
\* slot and net_tx_action_dealloc puts the netif.
PageRelease(g, n) ==
  /\ inflight[g][n] > 0
  /\ inflight' = [inflight EXCEPT ![g][n] = @ - 1]
  /\ Commit(netif_put(W, n))
  /\ UNCHANGED <<life, running, devpc, work, timer, wpc, wnetif>>

\* netbk_gop_frag of a copying receiver meets a page of pool g:
\* BUG_ON(ext->group != GET_GROUP_INDEX(src_pend->netif)).
RxCopyForeign(g, n) ==
  /\ inflight[g][n] > 0 /\ group[n] # g
  /\ oops' = oops \cup {"BUG_ON(ext->group)"}
  /\ UNCHANGED <<life, carrier, running, devpc, irq, group, refcnt, work,
                 timer, nr, sched, wpc, wnetif, inflight>>

\* The guest posts a transmit request while its rings are mapped.
GuestTx(n) ==
  /\ irq[n] # "none" /\ work[n] < MaxReqs
  /\ work' = [work EXCEPT ![n] = @ + 1]
  /\ UNCHANGED <<life, carrier, running, devpc, irq, group, refcnt, timer,
                 nr, sched, wpc, wnetif, inflight, oops>>

(***************************************************************************)
(* The specification.                                                      *)
(***************************************************************************)
Init ==
  /\ life = [n \in Netifs |-> "none"]
  /\ carrier = [n \in Netifs |-> FALSE]
  /\ running = [n \in Netifs |-> FALSE]
  /\ devpc = [n \in Netifs |-> "idle"]
  /\ irq = [n \in Netifs |-> "none"]
  /\ group = [n \in Netifs |-> UINT_MAX]
  /\ refcnt = [n \in Netifs |-> 0]
  /\ work = [n \in Netifs |-> 0]
  /\ timer = [n \in Netifs |-> FALSE]
  /\ nr = [g \in Groups |-> 0]
  /\ sched = [l \in Lists |-> <<>>]
  /\ wpc = [g \in Groups |-> "idle"]
  /\ wnetif = [g \in Groups |-> CHOOSE n \in Netifs : TRUE]
  /\ inflight = [g \in Groups |-> [n \in Netifs |-> 0]]
  /\ oops = {}

WorkerRun(g) ==
  \/ WorkerNoWork(g) \/ WorkerCreditWait(g) \/ WorkerTxErr(g) \/ WorkerTxPacket(g)

\* Every netif has been freed: the vifs' lives are over.
Terminated == (\A n \in Netifs : life[n] = "freed") /\ UNCHANGED vars

Next ==
  \/ \E n \in Netifs :
       \/ netif_alloc(n) \/ netif_map(n) \/ netif_map_finish(n)
       \/ DevOpen(n) \/ net_open(n) \/ DevClose(n) \/ net_close(n)
       \/ DisconnectStart(n) \/ DisconnectFree(n)
       \/ tx_credit_callback(n) \/ netif_be_int(n) \/ GuestTx(n)
  \/ \E g \in Groups :
       \/ WorkerPick(g) \/ WorkerTake(g) \/ WorkerRun(g)
       \/ \E n \in Netifs : PageRelease(g, n) \/ RxCopyForeign(g, n)
  \/ Terminated


(* The kernel side runs on: the worker while its list has work, timers,  *)
(* the second half of an rtnl section, netif_map once bound, and freeing *)
(* of skbs.  The teardown waiter needs rtnl, which another interface's   *)
(* open or close may hold at times: it is strongly fair.  Nothing is     *)
(* assumed of the guest, the administrator or the event channel.         *)
Fairness ==
  /\ \A g \in Groups :
       /\ WF_vars(WorkerPick(g)) /\ WF_vars(WorkerTake(g)) /\ WF_vars(WorkerRun(g))
       /\ \A n \in Netifs : WF_vars(PageRelease(g, n))
  /\ \A n \in Netifs :
       /\ WF_vars(net_open(n)) /\ WF_vars(net_close(n)) /\ WF_vars(netif_map_finish(n))
       /\ WF_vars(tx_credit_callback(n)) /\ SF_vars(DisconnectFree(n))

Spec == Init /\ [][Next]_vars /\ Fairness

(***************************************************************************)
(* Properties.                                                             *)
(***************************************************************************)
TypeOK ==
  /\ life \in [Netifs -> {"none", "freed"} \cup Live]
  /\ carrier \in [Netifs -> BOOLEAN] /\ running \in [Netifs -> BOOLEAN]
  /\ devpc \in [Netifs -> {"idle", "opening", "closing"}]
  /\ irq \in [Netifs -> {"none", "on", "off"}]
  /\ group \in [Netifs -> Lists] /\ refcnt \in [Netifs -> Nat]
  /\ work \in [Netifs -> 0 .. MaxReqs] /\ timer \in [Netifs -> BOOLEAN]
  /\ nr \in [Groups -> Nat] /\ sched \in [Lists -> Seq(Netifs)]
  /\ wpc \in [Groups -> {"idle", "picked", "held"}] /\ wnetif \in [Groups -> Netifs]
  /\ inflight \in [Groups -> [Netifs -> 0 .. PoolSlots]]
  /\ oops \subseteq OopsSites

(* group_domain_nr, which __netif_up reads without the group's lock to    *)
(* pick a group, counts exactly the interfaces whose netif->group names   *)
(* that group, through every interleaving of open, close, map and         *)
(* disconnect.                                                            *)
GroupLoadAccurate ==
  \A g \in Groups : nr[g] = Cardinality({n \in Netifs : group[n] = g})

(* netif->refcnt is exactly the references the code holds: netif_alloc's *)
(* until netif_disconnect's atomic_dec, netif_map's while the carrier is  *)
(* on, one for schedule-list membership, one per worker iteration that   *)
(* took the netif, and one per packet in a pending pool.  Too high and    *)
(* netif_disconnect waits forever; too low and the netif is freed in use. *)
RefcountBalance ==
  \A n \in Netifs : life[n] \in Live =>
    refcnt[n] = (IF life[n] # "closing" THEN 1 ELSE 0)
              + (IF carrier[n] THEN 1 ELSE 0)
              + (IF OnList(W, n) THEN 1 ELSE 0)
              + Cardinality({g \in Groups : wpc[g] = "held" /\ wnetif[g] = n})
              + FoldFunction(LAMBDA x, y : x + y, 0, [g \in Groups |-> inflight[g][n]])

(* __netif_up puts an interface into the first of the groups with the     *)
(* fewest interfaces: the loop of __netif_up agrees with that definition.  *)
UpPicksLeastLoaded ==
  [][\A n \in Netifs :
       group[n] \notin Groups /\ group'[n] \in Groups =>
         \A h \in Groups : \/ nr[group'[n]] < nr[h]
                           \/ nr[group'[n]] = nr[h] /\ group'[n] <= h]_vars

(* netif_disconnect's wait_event on refcnt returns and the netif is freed: *)
(* every reference (schedule list, worker, pending packets) is dropped     *)
(* once the carrier is off, whatever the guest and the administrator do.   *)
DisconnectCompletes ==
  \A n \in Netifs : life[n] = "closing" ~> life[n] = "freed"

(* No context oopses: xen_netbk[] is only indexed by a group below         *)
(* netbk_nr_groups, a worker takes pending slots only from its own group's *)
(* pool, the BUG_ON of netbk_gop_frag on a foreign page's group holds, and *)
(* no netif is used after netif_disconnect freed it.  This is what spec.md *)
(* 5 promises ("an interface belongs to exactly one partition for its      *)
(* connected lifetime") is needed for.                                     *)
NoOops == oops = {}
====
