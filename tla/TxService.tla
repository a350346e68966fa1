----------------------------- MODULE TxService ------------------------------
(***************************************************************************)
(* What the transmit side of one netback group promises its guests, with   *)
(* the ring, the pool and the grant hypercalls abstracted away.  A guest   *)
(* posts requests in order, one push publishing one or more; the backend   *)
(* consumes them in order, never beyond what was posted; it answers each   *)
(* consumed request exactly once (OKAY, ERROR, or NULL for an extra-info   *)
(* slot), in any order; and at any time it holds at most Capacity          *)
(* consumed requests unanswered, summed over the group's interfaces.       *)
(* Every posted request is eventually answered.                            *)
(*                                                                         *)
(* One backend step may consume and answer several requests of several     *)
(* interfaces (an error path answers a whole packet, a dealloc pass        *)
(* answers every staged slot), so Serve is one action that extends         *)
(* consumed and the response logs together.                                *)
(***************************************************************************)
EXTENDS Naturals, Sequences, FiniteSets, Folds

CONSTANTS
  Netifs,
  Capacity,   \* MAX_PENDING_REQS
  MaxReqs,    \* requests a guest posts
  Statuses    \* {NETIF_RSP_OKAY, NETIF_RSP_ERROR, NETIF_RSP_NULL}

VARIABLES
  posted,     \* [Netifs -> Nat]: requests 0 .. posted[n] - 1 are on the ring
  consumed,   \* [Netifs -> Nat]: requests the backend has taken
  rsps        \* [Netifs -> Seq([id, st])]: the responses, in ring order

vars == <<posted, consumed, rsps>>

Answered(n) == {rsps[n][j].id : j \in DOMAIN rsps[n]}

InFlight ==
  MapThenFoldSet(+, 0, LAMBDA n : consumed[n] - Len(rsps[n]), LAMBDA s : CHOOSE x \in s : TRUE, Netifs)

Init ==
  /\ posted = [n \in Netifs |-> 0]
  /\ consumed = [n \in Netifs |-> 0]
  /\ rsps = [n \in Netifs |-> <<>>]

Post(n) ==
  /\ \E k \in 1 .. MaxReqs - posted[n] : posted' = [posted EXCEPT ![n] = @ + k]
  /\ UNCHANGED <<consumed, rsps>>

\* The responses appended to rsps[n] answer distinct requests, each one
\* consumed and not answered before.
Extends(n) ==
  /\ Len(rsps'[n]) >= Len(rsps[n])
  /\ SubSeq(rsps'[n], 1, Len(rsps[n])) = rsps[n]
  /\ \A j \in Len(rsps[n]) + 1 .. Len(rsps'[n]) :
       /\ rsps'[n][j].id < consumed'[n]
       /\ rsps'[n][j].id \notin Answered(n)
       /\ rsps'[n][j].st \in Statuses
       /\ \A i \in Len(rsps[n]) + 1 .. Len(rsps'[n]) : i # j => rsps'[n][i].id # rsps'[n][j].id

Serve ==
  /\ \A n \in Netifs : consumed[n] <= consumed'[n] /\ consumed'[n] <= posted[n]
  /\ \A n \in Netifs : Extends(n)
  /\ MapThenFoldSet(+, 0, LAMBDA n : consumed'[n] - Len(rsps'[n]),
                    LAMBDA s : CHOOSE x \in s : TRUE, Netifs) <= Capacity
  /\ UNCHANGED posted

Next == (\E n \in Netifs : Post(n)) \/ Serve

(* Every posted request is eventually answered.                            *)
AllAnswered ==
  \A n \in Netifs : \A k \in 0 .. MaxReqs - 1 : (k < posted[n]) ~> (k \in Answered(n))

Spec == Init /\ [][Next]_vars /\ AllAnswered

=============================================================================
