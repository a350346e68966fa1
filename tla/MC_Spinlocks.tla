--------------------------- MODULE MC_Spinlocks ----------------------------
(* Three CPUs contending on one lock of mach-xen/asm/spinlock.h.  Which    *)
(* lock is chosen in the initial state: a spinlock of a build with         *)
(* TICKET_SHIFT (the ticket lock), a spinlock of a build without it (the   *)
(* byte lock), or a read-write lock, which both builds have.  Each         *)
(* behaviour steps only the chosen lock, so the three state spaces add up  *)
(* instead of multiplying, and every property of one lock holds trivially  *)
(* in the behaviours of the others, whose variables stay at Init.          *)
EXTENDS Naturals

CONSTANTS c1, c2, c3, NoCpu, TICKET_SHIFT, RW_LOCK_BIAS

VARIABLES
  kind,                    \* "ticket", "byte" or "rw"
  head, tail, token, pc,   \* TicketSpinlock
  lock, spinners, bpc,     \* ByteSpinlock
  rw, rpc                  \* RwLock

MCCPUs == {c1, c2, c3}

T == INSTANCE TicketSpinlock WITH CPUs <- MCCPUs
B == INSTANCE ByteSpinlock WITH CPUs <- MCCPUs
R == INSTANCE RwLock WITH CPUs <- MCCPUs

tvars == <<head, tail, token, pc>>
bvars == <<lock, spinners, bpc>>
rvars == <<rw, rpc>>
vars == <<kind, tvars, bvars, rvars>>

Init ==
  /\ kind \in {"ticket", "byte", "rw"}
  /\ T!Init /\ B!Init /\ R!Init

Next ==
  \/ kind = "ticket" /\ T!Next /\ UNCHANGED <<kind, bvars, rvars>>
  \/ kind = "byte" /\ B!Next /\ UNCHANGED <<kind, tvars, rvars>>
  \/ kind = "rw" /\ R!Next /\ UNCHANGED <<kind, tvars, bvars>>

Spec == Init /\ [][Next]_vars /\ T!Fairness /\ B!Fairness /\ R!Fairness

TypeOK == kind \in {"ticket", "byte", "rw"} /\ T!TypeOK /\ B!TypeOK /\ R!TypeOK

(* Ticket lock: at most one CPU is past spin_lock/spin_trylock.            *)
MutualExclusion == T!MutualExclusion

(* Ticket lock: __ticket_spin_is_locked and __ticket_spin_is_contended    *)
(* agree with the CPUs holding and waiting for tickets.                   *)
QueriesAccurate == T!QueriesAccurate

(* Ticket lock: the counters behave as the FIFO lock the header promises. *)
FifoRefinement == T!FifoRefinement

(* Ticket lock: a CPU that took a ticket eventually holds the lock.       *)
NoStarvation == T!NoStarvation

(* Byte lock: __byte_spin_lock and __byte_spin_trylock give the lock to   *)
(* at most one CPU, and the lock byte is 1 exactly while a CPU owns it.   *)
ByteMutualExclusion == B!ByteMutualExclusion

(* Byte lock: some CPU eventually owns the lock while any CPU is in       *)
(* __byte_spin_lock's xchgb/incb/spin loop.                               *)
ByteLockProgress == B!ByteLockProgress

(* Rwlock: read_lock, write_lock, their trylocks and slow paths never let *)
(* a writer own the lock together with any other CPU.                     *)
RwExclusion == R!RwExclusion

(* Rwlock: the counter equals RW_LOCK_BIAS less one per reader and        *)
(* RW_LOCK_BIAS per writer that has subtracted and not yet added back.    *)
CountAccounting == R!CountAccounting

(* Rwlock: a CPU waiting in __read_lock_failed or __write_lock_failed is  *)
(* followed by an owner, or by a failed trylock still holding its         *)
(* subtraction.                                                           *)
RwProgress == R!RwProgress

=============================================================================
