---------------------------- MODULE MC_NetbkRxPair ----------------------------
(* Two deployments of one netback group's receive path, chosen in the     *)
(* initial state.  "copy": one copying receiver n1 with SG, offered five   *)
(* packets against nine posted buffers, so that GNTST_eagain requeues,     *)
(* queue stops and restarts all happen.  "flip": n1 copying without SG     *)
(* and n2 flipping with SG, one packet each, so that two frames per flip   *)
(* packet drain mfn_list and check_mfn's failure arms net_timer.  Each     *)
(* behaviour steps one deployment only, so the two state spaces add up.   *)
(* The safety properties are checked in both; the liveness properties in  *)
(* "copy", whose fairness is the one NetbkRx states (rx_hol_blocking      *)
(* shows why CopyingPacketsReleased needs a copying receiver alone).      *)
CONSTANTS n1, n2

VARIABLES
  kind,   \* "copy" or "flip"
  ring, refcnt, stopped, qtimer, irq, gnotify, xmit, sent, rx_queue, rxq,
  count, alloc_index, net_timer, rx_notify, notify_list, pc, sleeping

C == INSTANCE NetbkRx WITH Netifs <- {n1}, Copying <- {n1}, SG <- {n1},
                           CanQueue <- TRUE, MAX_SKB_FRAGS <- 1,
                           NET_RX_RING_SIZE <- 4, MAX_MFN_ALLOC <- 2,
                           MaxPkts <- 5, MaxRxReqs <- 9
F == INSTANCE NetbkRx WITH Netifs <- {n1, n2}, Copying <- {n1}, SG <- {n2},
                           CanQueue <- TRUE, MAX_SKB_FRAGS <- 1,
                           NET_RX_RING_SIZE <- 4, MAX_MFN_ALLOC <- 2,
                           MaxPkts <- 1, MaxRxReqs <- 3

rvars == <<ring, refcnt, stopped, qtimer, irq, gnotify, xmit, sent, rx_queue,
           rxq, count, alloc_index, net_timer, rx_notify, notify_list, pc, sleeping>>
pvars == <<kind, rvars>>

Init ==
  /\ kind \in {"copy", "flip"}
  /\ IF kind = "copy" THEN C!Init ELSE F!Init

Next ==
  \/ kind = "copy" /\ C!Next /\ UNCHANGED kind
  \/ kind = "flip" /\ F!Next /\ UNCHANGED kind

\* NetbkRx's Fairness, for the copy deployment.  The subscript leaves out
\* kind, which no step changes.
CopyFairness ==
  /\ WF_rvars(kind = "copy" /\ C!Worker) /\ WF_rvars(kind = "copy" /\ C!NetAlarm)
  /\ WF_rvars(kind = "copy" /\ C!XmitStop(n1))
  /\ WF_rvars(kind = "copy" /\ C!tx_queue_callback(n1))
  /\ WF_rvars(kind = "copy" /\ C!netif_be_int(n1))

Spec == Init /\ [][Next]_pvars /\ CopyFairness

(* The state of either deployment keeps the types NetbkRx declares; a    *)
(* check_mfn that lets alloc_index go negative breaks it.                *)
TypeOK == IF kind = "copy" THEN C!TypeOK ELSE F!TypeOK

(* rx_req_cons_peek runs ahead of req_cons by exactly the slots of the   *)
(* skbs still queued, eagain requeues included.                          *)
PeekAccounting == IF kind = "copy" THEN C!PeekAccounting ELSE F!PeekAccounting

(* net_rx_action never consumes an rx request the guest has not posted.  *)
RxNoOverrun == IF kind = "copy" THEN C!RxNoOverrun ELSE F!RxNoOverrun

(* Every consumed rx request, the GSO extra slot included, is answered   *)
(* once by the end of its batch.                                         *)
ResponsesMatchRequests ==
  IF kind = "copy" THEN C!ResponsesMatchRequests ELSE F!ResponsesMatchRequests

(* netif->refcnt counts one reference per queued or held skb.            *)
RefcountBalance == IF kind = "copy" THEN C!RefcountBalance ELSE F!RefcountBalance

(* An interface is put on notify_list at most once per pass.             *)
NotifyOncePerPass == IF kind = "copy" THEN C!NotifyOncePerPass ELSE F!NotifyOncePerPass

(* Responses past the guest's rsp_event always leave an event pending or *)
(* the interface on this pass's notify_list.                             *)
NoLostNotification ==
  IF kind = "copy" THEN C!NoLostNotification ELSE F!NoLostNotification

(* A stopped queue of the copying receiver is restarted.                 *)
QueueRestarts == kind = "copy" => C!QueueRestarts

(* Every reference a copying receiver's skb takes is eventually dropped. *)
CopyingPacketsReleased == kind = "copy" => C!CopyingPacketsReleased
=============================================================================
