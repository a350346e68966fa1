--------------------------- MODULE TicketSpinlock ---------------------------
(***************************************************************************)
(* The Xen ticket spinlock of arch/x86/include/mach-xen/asm/spinlock.h.    *)
(* slock holds two TICKET_SHIFT-bit counters: the head (low part, the      *)
(* ticket now served) and the tail (high part, the next ticket to hand     *)
(* out).  Both wrap modulo 2^TICKET_SHIFT: the xadd of 1 << TICKET_SHIFT   *)
(* drops the carry out of the word, and unlock increments only the low     *)
(* byte/word (incb/incw), so head never carries into tail.                 *)
(*                                                                         *)
(* Each asm block is one atomic step: the locked xadd and cmpxchg are      *)
(* atomic, the plain loads are single accesses, and the unlocked incb is   *)
(* written only by the holder while every other writer (xadd, cmpxchg)    *)
(* leaves the low part unchanged.  The spin-count loop and xen_spin_wait   *)
(* only delay a waiter (its blocking code is outside this repository), so *)
(* a waiter is modelled as polling the head until it is its turn.          *)
(***************************************************************************)
EXTENDS Naturals, FiniteSets, Sequences

CONSTANTS
  CPUs,          \* the CPUs that use the lock (model values)
  TICKET_SHIFT,  \* bits of each ticket counter (8 or 16 in the kernel)
  NoCpu          \* no CPU

TICKETS == 2 ^ TICKET_SHIFT

\* "limited to 256 CPUs": the kernel picks TICKET_SHIFT so that NR_CPUS
\* fits in a counter (spinlock_types.h).
ASSUME Cardinality(CPUs) < TICKETS

VARIABLES
  head,    \* low part of lock->slock
  tail,    \* high part of lock->slock
  token,   \* [CPUs -> ..]: the ticket a CPU took, or the word trylock read
  pc       \* [CPUs -> ..]: where each CPU is

vars == <<head, tail, token, pc>>

(***************************************************************************)
(* The read-only queries on slock.                                         *)
(***************************************************************************)
\* ((tmp >> TICKET_SHIFT) ^ tmp) & mask: the two parts differ.
ticket_spin_is_locked(h, t) == h # t

\* Mutant: tests for two tickets out instead of one.
ticket_spin_is_contended_gt0(h, t) == (t - h + TICKETS) % TICKETS > 0

\* ((tmp >> TICKET_SHIFT) - tmp) & mask > 1: a ticket beyond the holder's.
ticket_spin_is_contended(h, t) == (t - h + TICKETS) % TICKETS > 1

(***************************************************************************)
(* Operations.                                                             *)
(***************************************************************************)
\* Mutant: the ticket taken as the incremented tail (an add-return, unmasked).
LockPreamble_addreturn(c) ==
  /\ pc[c] = "idle"
  /\ token' = [token EXCEPT ![c] = [h |-> head, t |-> tail + 1]]
  /\ tail' = (tail + 1) % TICKETS
  /\ pc' = [pc EXCEPT ![c] = IF head = tail THEN "cs" ELSE "spin"]
  /\ UNCHANGED head

\* __ticket_spin_lock_preamble: lock xadd of 1 << TICKET_SHIFT; the old
\* tail is the CPU's ticket and the lock was free if it equals the head.
LockPreamble(c) ==
  /\ pc[c] = "idle"
  /\ token' = [token EXCEPT ![c] = [h |-> head, t |-> tail]]
  /\ tail' = (tail + 1) % TICKETS
  /\ pc' = [pc EXCEPT ![c] = IF head = tail THEN "cs" ELSE "spin"]
  /\ UNCHANGED head

\* __ticket_spin_lock_body: reload the head until it reaches the ticket.
LockBody(c) ==
  /\ pc[c] = "spin"
  /\ head = token[c].t
  /\ pc' = [pc EXCEPT ![c] = "cs"]
  /\ UNCHANGED <<head, tail, token>>

\* One turn of the body's loop that finds the head elsewhere (rep; nop; movb):
\* a waiter busy-loops, it never blocks.
LockSpin(c) ==
  /\ pc[c] = "spin"
  /\ head # token[c].t
  /\ UNCHANGED vars

\* __ticket_spin_trylock, first part: load slock; go on only if free.
TryRead(c) ==
  /\ pc[c] = "idle"
  /\ token' = [token EXCEPT ![c] = [h |-> head, t |-> tail]]
  /\ pc' = [pc EXCEPT ![c] = IF head = tail THEN "trycas" ELSE "idle"]
  /\ UNCHANGED <<head, tail>>

\* Mutant: a plain store instead of the locked cmpxchg.
TryCas_store(c) ==
  /\ pc[c] = "trycas"
  /\ tail' = (token[c].t + 1) % TICKETS
  /\ head' = token[c].h
  /\ pc' = [pc EXCEPT ![c] = "cs"]
  /\ UNCHANGED token

\* Mutant: the cmpxchg stores the word it read, without the new tail.
TryCas_noadvance(c) ==
  /\ pc[c] = "trycas"
  /\ pc' = [pc EXCEPT ![c] = IF head = token[c].h /\ tail = token[c].t
                              THEN "cs" ELSE "idle"]
  /\ UNCHANGED <<head, tail, token>>

\* __ticket_spin_trylock, second part: lock cmpxchg of the word read with
\* the tail advanced; it fails if slock changed since the load.
TryCas(c) ==
  /\ pc[c] = "trycas"
  /\ IF head = token[c].h /\ tail = token[c].t
     THEN tail' = (tail + 1) % TICKETS /\ pc' = [pc EXCEPT ![c] = "cs"]
     ELSE UNCHANGED tail /\ pc' = [pc EXCEPT ![c] = "idle"]
  /\ UNCHANGED <<head, token>>

\* Mutant: a word-wide increment whose carry out of the head reaches the tail.
Unlock_widecarry(c) ==
  /\ pc[c] = "cs"
  /\ head' = (head + 1) % TICKETS
  /\ tail' = IF head + 1 = TICKETS THEN (tail + 1) % TICKETS ELSE tail
  /\ pc' = [pc EXCEPT ![c] = "idle"]
  /\ UNCHANGED token

\* Mutant: the head incremented as a plain integer, without wrapping.
Unlock_nowrap(c) ==
  /\ pc[c] = "cs"
  /\ head' = head + 1
  /\ pc' = [pc EXCEPT ![c] = "idle"]
  /\ UNCHANGED <<tail, token>>

\* __ticket_spin_unlock: incb/incw of the head; the reload that decides
\* xen_spin_kick only reads.
Unlock(c) ==
  /\ pc[c] = "cs"
  /\ head' = (head + 1) % TICKETS
  /\ pc' = [pc EXCEPT ![c] = "idle"]
  /\ UNCHANGED <<tail, token>>

Init ==
  /\ head = 0 /\ tail = 0
  /\ token = [c \in CPUs |-> [h |-> 0, t |-> 0]]
  /\ pc = [c \in CPUs |-> "idle"]

Next ==
  \E c \in CPUs :
    \/ LockPreamble(c) \/ LockBody(c) \/ LockSpin(c) \/ TryRead(c) \/ TryCas(c) \/ Unlock(c)

\* A spinning CPU keeps reloading the head, and critical sections end.
Fairness ==
  \A c \in CPUs : WF_vars(LockBody(c)) /\ WF_vars(TryCas(c)) /\ WF_vars(Unlock(c))

Spec == Init /\ [][Next]_vars /\ Fairness

(***************************************************************************)
(* Properties.                                                             *)
(***************************************************************************)
TypeOK ==
  /\ head \in 0 .. TICKETS - 1 /\ tail \in 0 .. TICKETS - 1
  /\ token \in [CPUs -> [h : 0 .. TICKETS - 1, t : 0 .. TICKETS - 1]]
  /\ pc \in [CPUs -> {"idle", "spin", "trycas", "cs"}]

\* The CPU holding ticket k, if any.
TicketHolder(k) ==
  IF \E c \in CPUs : pc[c] \in {"spin", "cs"} /\ token[c].t = k
  THEN CHOOSE c \in CPUs : pc[c] \in {"spin", "cs"} /\ token[c].t = k
  ELSE NoCpu

\* Tickets handed out and not yet released, from the head.
Outstanding == (tail - head + TICKETS) % TICKETS

\* The queue the ticket counters encode: holders of head, head+1, ...
TicketQueue == [i \in 1 .. Outstanding |-> TicketHolder((head + i - 1) % TICKETS)]

(* Mutual exclusion of spin_lock/spin_trylock: at most one CPU is past the *)
(* lock, whatever the interleaving of xadd, cmpxchg and unlock and however *)
(* often the counters wrap.                                                *)
MutualExclusion ==
  \A c, d \in CPUs : pc[c] = "cs" /\ pc[d] = "cs" => c = d

(* __ticket_spin_is_locked and __ticket_spin_is_contended, computed from   *)
(* the counters alone, agree with what the CPUs are doing: locked iff some *)
(* CPU holds or waits for a ticket, contended iff a second one does.        *)
QueriesAccurate ==
  LET queued == {c \in CPUs : pc[c] \in {"spin", "cs"}}
  IN  /\ ticket_spin_is_locked(head, tail) <=> queued # {}
      /\ ticket_spin_is_contended(head, tail) <=> Cardinality(queued) > 1

(* The ticket lock is the fair FIFO lock its comment promises: the queue   *)
(* encoded by head and tail behaves as FifoLock's queue, so CPUs get the   *)
(* lock in the order their xadd ran and a trylock never jumps the queue.   *)
Fifo == INSTANCE FifoLock WITH
          queue <- TicketQueue,
          inCS <- \E c \in CPUs : pc[c] = "cs"

FifoRefinement == Fifo!Spec

(* A CPU that has taken a ticket eventually holds the lock, provided every *)
(* holder eventually unlocks: no waiter is starved.                        *)
NoStarvation == \A c \in CPUs : pc[c] = "spin" ~> pc[c] = "cs"

=============================================================================
