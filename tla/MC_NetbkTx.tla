----------------------------- MODULE MC_NetbkTx -----------------------------
(* Bounds for checking NetbkTx.  Sizes are in units where PAGE_SIZE is 2:   *)
(* a request of size 2 at offset 1 crosses a page, a header above          *)
(* PKT_PROT_LEN leaves a fragment in the pending page, and a packet whose  *)
(* fragments eat its whole size is below ETH_HLEN.                         *)
EXTENDS NetbkTx, TLC

CONSTANTS n1, n2

MCNetifs1 == {n1}
MCNetifs2 == {n1, n2}
\* A valid GSO extra, a zero GSO size and an unknown extra type.
MCExtras ==
  {[type |-> XEN_NETIF_EXTRA_TYPE_GSO, more |-> FALSE, size |-> 1,
    gtype |-> XEN_NETIF_GSO_TYPE_TCPV4],
   [type |-> XEN_NETIF_EXTRA_TYPE_GSO, more |-> FALSE, size |-> 0,
    gtype |-> XEN_NETIF_GSO_TYPE_TCPV4],
   [type |-> XEN_NETIF_EXTRA_TYPE_MAX, more |-> FALSE, size |-> 1,
    gtype |-> XEN_NETIF_GSO_TYPE_TCPV4]}
\* Every result a held page can give copy_pending_req.
MCCopyResults == {0, -EBUSY, -ENOMEM}
MCSymmetry == Permutations(MCNetifs2)
====
