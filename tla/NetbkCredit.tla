----------------------------- MODULE NetbkCredit -----------------------------
(***************************************************************************)
(* The per-interface credit limiter of the transmit path (netback.c):     *)
(* the credit branch of net_tx_action's build loop, tx_add_credit and     *)
(* the credit_timeout timer whose callback, tx_credit_callback, runs in   *)
(* timer softirq context concurrently with the worker thread.             *)
(*                                                                         *)
(* One interface is modelled.  Its tx ring holds request sizes only; a   *)
(* request that passes the credit check is consumed, and what the build   *)
(* loop then does with it (validation, pending slots, grant maps) is the  *)
(* subject of NetbkTx.  Time is kept as age = jiffies -                   *)
(* credit_timeout.expires, an unsigned long that wraps like both of its   *)
(* operands; the field is the start of the credit window while the timer  *)
(* is idle and the timer's expiry (mod_timer stores next_credit in it)    *)
(* while it is pending, exactly as in the code.                            *)
(***************************************************************************)
EXTENDS Integers, Sequences, FiniteSetsExt

CONSTANTS
  BITS_PER_LONG,  \* width of unsigned long, hence of jiffies and of credit
  HZ,             \* jiffies per second
  CreditBytes,    \* values the toolstack may give credit_bytes
  CreditUsecs,    \* values the toolstack may give credit_usec
  ReqSizes,       \* sizes a guest may put in a request
  MAX_BURST,      \* the 131072UL jumbo allowance of tx_add_credit, scaled
  MaxReqs,        \* bound: requests the guest posts in a behaviour
  MaxGap          \* bound: the largest age the model lets idle time reach

ULONG == 2 ^ BITS_PER_LONG
ULONG_MAX == ULONG - 1

\* A request's size field is a u16, always below the 128 KiB allowance.
ASSUME ReqSizes \subseteq 1 .. MAX_BURST /\ MAX_BURST <= ULONG_MAX
ASSUME CreditBytes \subseteq 1 .. ULONG_MAX
ASSUME MaxGap \in 0 .. ULONG_MAX

VARIABLES
  reqs,              \* request sizes the guest has posted on the tx ring
  req_cons,          \* netif->tx.req_cons
  req_event,         \* netif->tx.sring->req_event
  irq,               \* the guest's event channel is pending
  on_list,           \* the interface is on net_schedule_list
  credit_bytes,      \* netif->credit_bytes
  credit_usec,       \* netif->credit_usec
  remaining_credit,  \* netif->remaining_credit
  age,               \* jiffies - netif->credit_timeout.expires, modulo ULONG
  timer_pending,     \* timer_pending(&netif->credit_timeout)
  cb,                \* where tx_credit_callback is: "idle", "run", "add"
  cb_credit,         \* the value its tx_add_credit is about to store
  charging           \* the worker passed the re-test (1322), not yet charged

vars == <<reqs, req_cons, req_event, irq, on_list, credit_bytes, credit_usec,
          remaining_credit, age, timer_pending, cb, cb_credit, charging>>

(***************************************************************************)
(* Unsigned long and jiffies arithmetic.                                   *)
(***************************************************************************)
\* (long)x: an unsigned long read as signed.
signed(x) == IF x % ULONG < ULONG \div 2 THEN x % ULONG ELSE (x % ULONG) - ULONG

\* time_after_eq(a, b) with a - b given: (long)(a - b) >= 0.
time_after_eq(diff) == signed(diff) >= 0

\* msecs_to_jiffies rounds up to whole jiffies.
msecs_to_jiffies(m) == (m * HZ + 999) \div 1000

\* msecs_to_jiffies(netif->credit_usec / 1000), the length of a window.
CreditInterval(usec) == msecs_to_jiffies(usec \div 1000)

Unconsumed == Len(reqs) - req_cons

\* RING_PUSH_REQUESTS_AND_CHECK_NOTIFY: the push from old to new passes event.
CrossesEvent(old, new, event) == old < event /\ event <= new

(***************************************************************************)
(* tx_add_credit, from the remaining credit it reads and the size of the  *)
(* request at req_cons.                                                    *)
(***************************************************************************)
\* Mutant: the sum stored without the wrap clamp.
tx_add_credit_noclamp(rem, size) ==
  LET max_burst  == Max({Min({size, MAX_BURST}), credit_bytes})
  IN  Min({(rem + credit_bytes) % ULONG, max_burst})

tx_add_credit(rem, size) ==
  LET max_burst  == Max({Min({size, MAX_BURST}), credit_bytes})
      sum        == (rem + credit_bytes) % ULONG
      max_credit == IF sum < rem THEN ULONG_MAX ELSE sum
  IN  Min({max_credit, max_burst})

(***************************************************************************)
(* Actions.                                                                *)
(***************************************************************************)
\* netif_schedule_work with the ring consumed up to cons: re-check the ring
\* and queue the interface if it has work (add_to_net_schedule_list_tail;
\* the worker wake-up is NetbkTx's).
netif_schedule_work(listed, cons) ==
  /\ req_event' = IF Len(reqs) > cons THEN req_event ELSE cons + 1
  /\ on_list' = (listed \/ Len(reqs) > cons)

\* Mutant: the timer_pending test dropped, so a pending timer is re-armed.
credit_timer_busy_never(over) == FALSE

\* "Timer could already be pending in rare cases": skip the interface.
credit_timer_busy(over) == over /\ timer_pending

\* "Still too big to send right now?", after the refill if there was one.
still_too_big(size, rem) == size > rem

(***************************************************************************)
(* One iteration of net_tx_action's build loop for this interface, up to *)
(* the charge: take it off the list, check for work, then the credit      *)
(* branch with its refill and its re-test.  remaining_credit is a plain   *)
(* field that tx_credit_callback stores with no lock, so the charge of a  *)
(* request found within credit is the next step, TxCreditCharge.          *)
(***************************************************************************)
TxCredit ==
  /\ on_list
  /\ ~charging
  /\ LET size  == reqs[req_cons + 1]
         iv    == CreditInterval(credit_usec)
         over  == size > remaining_credit
         fresh == over /\ time_after_eq(age - iv)
         rem   == IF fresh THEN tx_add_credit(remaining_credit, size)
                  ELSE remaining_credit
     IN  IF Unconsumed = 0
         \* RING_FINAL_CHECK_FOR_REQUESTS finds no work: netif_put, continue
         THEN /\ on_list' = FALSE
              /\ req_event' = req_cons + 1
              /\ UNCHANGED <<req_cons, remaining_credit, age, timer_pending,
                             charging>>
         ELSE IF credit_timer_busy(over)
         THEN /\ on_list' = FALSE
              /\ UNCHANGED <<req_event, req_cons, remaining_credit, age,
                             timer_pending, charging>>
         ELSE IF still_too_big(size, rem)
         \* still too big: mod_timer(next_credit), netif_put and continue
         THEN /\ on_list' = FALSE
              /\ remaining_credit' = rem
              /\ timer_pending' = TRUE
              /\ age' = (age - iv) % ULONG
              /\ UNCHANGED <<req_event, req_cons, charging>>
         \* within credit: on to the charge, off the list
         ELSE /\ on_list' = FALSE
              /\ remaining_credit' = rem
              /\ age' = IF fresh THEN 0 ELSE age
              /\ charging' = TRUE
              /\ UNCHANGED <<req_event, req_cons, timer_pending>>
  /\ UNCHANGED <<reqs, irq, credit_bytes, credit_usec, cb, cb_credit>>

\* "netif->remaining_credit -= txreq.size" in unsigned long, then the
\* request is consumed and the iteration ends with netif_schedule_work
\* (line 1427).
TxCreditCharge ==
  /\ charging
  /\ remaining_credit' = (remaining_credit - reqs[req_cons + 1]) % ULONG
  /\ req_cons' = req_cons + 1
  /\ netif_schedule_work(on_list, req_cons + 1)
  /\ charging' = FALSE
  /\ UNCHANGED <<reqs, irq, credit_bytes, credit_usec, age, timer_pending, cb,
                 cb_credit>>

\* The timer wheel runs credit_timeout once jiffies reaches its expiry; the
\* timer is detached before tx_credit_callback is called.
CreditTimerFire ==
  /\ timer_pending
  /\ cb = "idle"
  /\ time_after_eq(age)
  /\ timer_pending' = FALSE
  /\ cb' = "run"
  /\ UNCHANGED <<reqs, req_cons, req_event, irq, on_list, credit_bytes,
                 credit_usec, remaining_credit, age, cb_credit, charging>>

\* The size field of the ring slot at req_cons.  A slot the guest has not
\* published yet holds whatever the guest left there: any u16 size.
RingSizeAt(cons) == IF cons < Len(reqs) THEN {reqs[cons + 1]} ELSE 0 .. MAX_BURST

\* tx_credit_callback, first half: tx_add_credit reads and computes.  The
\* worker may have consumed the deferred request since the timer fired.
CreditCallbackRead ==
  /\ cb = "run"
  /\ \E size \in RingSizeAt(req_cons) :
       cb_credit' = tx_add_credit(remaining_credit, size)
  /\ cb' = "add"
  /\ UNCHANGED <<reqs, req_cons, req_event, irq, on_list, credit_bytes,
                 credit_usec, remaining_credit, age, timer_pending, charging>>

\* Mutant: the callback refills without netif_schedule_work.
CreditCallbackDone_nosched ==
  /\ cb = "add"
  /\ remaining_credit' = cb_credit
  /\ cb' = "idle"
  /\ UNCHANGED <<on_list, req_event>>
  /\ UNCHANGED <<reqs, req_cons, irq, credit_bytes, credit_usec, age,
                 timer_pending, cb_credit, charging>>

\* tx_credit_callback, second half: the store, then netif_schedule_work.
CreditCallbackDone ==
  /\ cb = "add"
  /\ remaining_credit' = cb_credit
  /\ cb' = "idle"
  /\ netif_schedule_work(on_list, req_cons)
  /\ UNCHANGED <<reqs, req_cons, irq, credit_bytes, credit_usec, age,
                 timer_pending, cb_credit, charging>>

(***************************************************************************)
(* Time, the guest and the event channel.                                  *)
(***************************************************************************)
\* A jiffy passes.  A timer that is due runs in the softirq of this tick,
\* before the next one.  While the timer is idle, age stops growing at
\* MaxGap: idle time beyond it is not explored.
Tick ==
  /\ ~(timer_pending /\ time_after_eq(age))
  /\ age' = IF ~timer_pending /\ age = MaxGap THEN age ELSE (age + 1) % ULONG
  /\ UNCHANGED <<reqs, req_cons, req_event, irq, on_list, credit_bytes,
                 credit_usec, remaining_credit, timer_pending, cb, cb_credit, charging>>

\* The guest posts one request and notifies if it passes req_event.
GuestTx ==
  /\ Len(reqs) < MaxReqs
  /\ \E size \in ReqSizes : reqs' = Append(reqs, size)
  /\ irq' = (irq \/ CrossesEvent(Len(reqs), Len(reqs) + 1, req_event))
  /\ UNCHANGED <<req_cons, req_event, on_list, credit_bytes, credit_usec,
                 remaining_credit, age, timer_pending, cb, cb_credit, charging>>

\* The guest notifies the same event channel for its receive ring (new rx
\* buffers), so netif_be_int also runs when no tx request was posted.
GuestRxNotify ==
  /\ ~irq
  /\ irq' = TRUE
  /\ UNCHANGED <<reqs, req_cons, req_event, on_list, credit_bytes, credit_usec,
                 remaining_credit, age, timer_pending, cb, cb_credit, charging>>

\* netif_be_int: add_to_net_schedule_list_tail (the interface is up).
netif_be_int ==
  /\ irq
  /\ irq' = FALSE
  /\ on_list' = TRUE
  /\ UNCHANGED <<reqs, req_cons, req_event, credit_bytes, credit_usec,
                 remaining_credit, age, timer_pending, cb, cb_credit, charging>>

\* netif_alloc starts the credit window at jiffies (interface.c); the rate
\* the toolstack configures replaces the unlimited default before the
\* guest connects, an unknown time later.
Init ==
  /\ reqs = <<>> /\ req_cons = 0 /\ req_event = 1
  /\ irq = FALSE /\ on_list = FALSE
  /\ credit_bytes \in CreditBytes
  /\ credit_usec \in CreditUsecs
  /\ remaining_credit = credit_bytes
  /\ age \in 0 .. MaxGap
  /\ timer_pending = FALSE
  /\ cb = "idle" /\ cb_credit = 0
  /\ charging = FALSE

Next ==
  \/ TxCredit \/ TxCreditCharge
  \/ CreditTimerFire \/ CreditCallbackRead \/ CreditCallbackDone
  \/ Tick \/ GuestTx \/ GuestRxNotify \/ netif_be_int

\* The worker serves a listed interface, event channels are delivered,
\* time passes and a due timer runs its callback to the end.
Fairness ==
  /\ WF_vars(TxCredit) /\ WF_vars(TxCreditCharge) /\ WF_vars(netif_be_int) /\ WF_vars(Tick)
  /\ WF_vars(CreditTimerFire) /\ WF_vars(CreditCallbackRead)
  /\ WF_vars(CreditCallbackDone)

Spec == Init /\ [][Next]_vars /\ Fairness

(***************************************************************************)
(* Properties.                                                             *)
(***************************************************************************)
TypeOK ==
  /\ reqs \in Seq(ReqSizes) /\ Len(reqs) <= MaxReqs
  /\ req_cons \in 0 .. Len(reqs) /\ req_event \in 1 .. MaxReqs + 1
  /\ irq \in BOOLEAN /\ on_list \in BOOLEAN /\ timer_pending \in BOOLEAN
  /\ credit_bytes \in CreditBytes /\ credit_usec \in CreditUsecs
  /\ remaining_credit \in 0 .. ULONG_MAX /\ cb_credit \in 0 .. ULONG_MAX
  /\ age \in 0 .. ULONG_MAX
  /\ cb \in {"idle", "run", "add"} /\ charging \in BOOLEAN

(* A deferred interface waits at most one credit window: while            *)
(* credit_timeout is pending it expires no later than                     *)
(* msecs_to_jiffies(credit_usec / 1000) jiffies from now, so mod_timer     *)
(* never pushes it further, whatever the order of worker passes, guest    *)
(* notifications and the timer callback.                                  *)
DeferralBounded ==
  timer_pending => signed(0 - age) <= CreditInterval(credit_usec)

(* The default rate netif_alloc sets (credit_bytes = remaining_credit =  *)
(* ~0UL, credit_usec = 0, interface.c) never defers a request: every     *)
(* refill saturates at ULONG_MAX, which the wrap clamp of tx_add_credit  *)
(* keeps from wrapping to a small sum, so credit_timeout is never armed. *)
UnlimitedNeverDefers ==
  credit_bytes = ULONG_MAX /\ credit_usec = 0 => ~timer_pending

(* "Adding a new chunk of credit" (tx_add_credit): no step raises the     *)
(* credit by more than one credit_bytes chunk, saturating at ULONG_MAX.   *)
(* The callback computes its refill from remaining_credit before it      *)
(* stores it, with no lock against the worker thread; a worker pass that *)
(* refills and charges a request in between has its charge overwritten. *)
RefillAddsOneChunk ==
  [][remaining_credit' > remaining_credit =>
       remaining_credit' <= Min({remaining_credit + credit_bytes, ULONG_MAX})]_vars

(* Every request the guest posts is eventually taken off the ring, however *)
(* long the credit limiter defers it: the timer callback refills and puts *)
(* the interface back on the schedule list.                              *)
EveryRequestSent == \A k \in 1 .. MaxReqs : Len(reqs) >= k ~> req_cons >= k
====
