----------------------------- MODULE MC_NetbkRx -----------------------------
(* Bounds for the head-of-line run of NetbkRx: n1 is a copying receiver    *)
(* with SG (MCSG1), so it can get GNTST_eagain, fragments and GSO; n2 is a *)
(* flipping receiver without SG that shares the group's rx_queue with it. *)
(* MC_NetbkRxPair holds the deployments the passing properties run on.    *)
EXTENDS NetbkRx, TLC

CONSTANTS n1, n2

MCNetifs2 == {n1, n2}
MCCopying == {n1}
MCSG1 == {n1}
====
