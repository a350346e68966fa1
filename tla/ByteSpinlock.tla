---------------------------- MODULE ByteSpinlock ----------------------------
(***************************************************************************)
(* The byte spinlock of mach-xen/asm/spinlock.h, the variant built when    *)
(* TICKET_SHIFT is not defined (lines 271-322), and                        *)
(* __raw_spin_unlock_wait (lines 360-364).                                 *)
(*                                                                         *)
(* raw_spinlock_t has two bytes: lock (0 free, 1 taken) and spinners, the  *)
(* number of CPUs in the wait loop.  __byte_spin_lock is one xchgb of 1    *)
(* into lock; a CPU that got 1 back does a locked incb of spinners, spins  *)
(* on "cmpb $1" until the byte reads otherwise, does a locked decb and     *)
(* retries the xchgb.  Each instruction that touches the lock word is one  *)
(* step; the cmpb that sees the byte free and the decb after it are one    *)
(* step, since nothing between them reads the lock byte.                   *)
(* __byte_spin_lock_flags is __byte_spin_lock.                             *)
(***************************************************************************)
EXTENDS Naturals, FiniteSets

CONSTANTS CPUs

VARIABLES
  lock,      \* lock->lock
  spinners,  \* lock->spinners
  bpc        \* [CPUs -> ..]: where each CPU is in the byte lock code

vars == <<lock, spinners, bpc>>

(* idle: outside the lock; xchg: at label 1 of __byte_spin_lock; inc: got  *)
(* 1 back, before the incb; spin: in the loop at label 2; held: owns the    *)
(* lock; wait: in __raw_spin_unlock_wait.                                  *)
PCs == {"idle", "xchg", "inc", "spin", "held", "wait"}

__byte_spin_is_locked == lock # 0
__byte_spin_is_contended == spinners # 0

Init ==
  /\ lock = 0
  /\ spinners = 0
  /\ bpc = [c \in CPUs |-> "idle"]

\* __byte_spin_lock (and __raw_spin_lock_flags): enter the xchgb loop.
SpinLock(c) ==
  /\ bpc[c] = "idle"
  /\ bpc' = [bpc EXCEPT ![c] = "xchg"]
  /\ UNCHANGED <<lock, spinners>>

\* "1: xchgb %1, %0; test %1,%1; jz 3f": the byte is set to 1 whatever it
\* held; the old value 0 means the lock is ours.
Xchg(c) ==
  /\ bpc[c] = "xchg"
  /\ lock' = 1
  /\ bpc' = [bpc EXCEPT ![c] = IF lock = 0 THEN "held" ELSE "inc"]
  /\ UNCHANGED spinners

\* LOCK_PREFIX "incb %2".
IncSpinners(c) ==
  /\ bpc[c] = "inc"
  /\ spinners' = spinners + 1
  /\ bpc' = [bpc EXCEPT ![c] = "spin"]
  /\ UNCHANGED lock

\* Mutant: "jne 2b" for "je 2b", spinning while the byte is free.
SpinExit_swapped(c) ==
  /\ bpc[c] = "spin"
  /\ lock = 1
  /\ spinners' = spinners - 1
  /\ bpc' = [bpc EXCEPT ![c] = "xchg"]
  /\ UNCHANGED lock

\* "2: rep;nop; cmpb $1, %0; je 2b; LOCK decb %2; jmp 1b": the byte no
\* longer reads 1, leave the loop and retry the xchgb.
SpinExit(c) ==
  /\ bpc[c] = "spin"
  /\ lock # 1
  /\ spinners' = spinners - 1
  /\ bpc' = [bpc EXCEPT ![c] = "xchg"]
  /\ UNCHANGED lock

\* Mutant: "return old != 0".
SpinTrylock_inverted(c) ==
  /\ bpc[c] = "idle"
  /\ lock' = 1
  /\ bpc' = [bpc EXCEPT ![c] = IF lock # 0 THEN "held" ELSE "idle"]
  /\ UNCHANGED spinners

\* __byte_spin_trylock: one xchgb of 1; success iff the old byte was 0.
SpinTrylock(c) ==
  /\ bpc[c] = "idle"
  /\ lock' = 1
  /\ bpc' = [bpc EXCEPT ![c] = IF lock = 0 THEN "held" ELSE "idle"]
  /\ UNCHANGED spinners

\* __byte_spin_unlock: smp_wmb(); lock->lock = 0.
SpinUnlock(c) ==
  /\ bpc[c] = "held"
  /\ lock' = 0
  /\ bpc' = [bpc EXCEPT ![c] = "idle"]
  /\ UNCHANGED spinners

\* __raw_spin_unlock_wait: while (__raw_spin_is_locked(lock)) cpu_relax();
\* one step enters the loop, one leaves it when the lock reads free.
UnlockWait(c) ==
  /\ bpc[c] = "idle"
  /\ bpc' = [bpc EXCEPT ![c] = "wait"]
  /\ UNCHANGED <<lock, spinners>>

UnlockWaitDone(c) ==
  /\ bpc[c] = "wait"
  /\ ~__byte_spin_is_locked
  /\ bpc' = [bpc EXCEPT ![c] = "idle"]
  /\ UNCHANGED <<lock, spinners>>

Next ==
  \E c \in CPUs :
    \/ SpinLock(c) \/ Xchg(c) \/ IncSpinners(c) \/ SpinExit(c)
    \/ SpinTrylock(c) \/ SpinUnlock(c) \/ UnlockWait(c) \/ UnlockWaitDone(c)

(* A CPU that has entered the lock code keeps executing it, and a holder   *)
(* leaves its critical section; an idle CPU need not take the lock.        *)
Fairness ==
  \A c \in CPUs :
    /\ WF_vars(Xchg(c)) /\ WF_vars(IncSpinners(c)) /\ WF_vars(SpinExit(c))
    /\ WF_vars(SpinUnlock(c)) /\ WF_vars(UnlockWaitDone(c))

Spec == Init /\ [][Next]_vars /\ Fairness

-----------------------------------------------------------------------------
TypeOK ==
  /\ lock \in {0, 1}
  /\ spinners \in 0 .. Cardinality(CPUs)
  /\ bpc \in [CPUs -> PCs]

Holders == {c \in CPUs : bpc[c] = "held"}

(* xchgb hands the lock to at most one CPU, and the lock byte is 1 exactly *)
(* while some CPU owns it: a failed xchgb rewrites 1 over 1 and never      *)
(* frees or takes a lock it did not get.                                   *)
ByteMutualExclusion ==
  /\ Cardinality(Holders) <= 1
  /\ (lock = 1) <=> (Holders # {})

(* Whenever some CPU is in __byte_spin_lock, some CPU eventually owns the  *)
(* lock: the loop at label 2 cannot leave every waiter spinning on a free  *)
(* lock.  (A given CPU may still be overtaken for ever: the lock is not    *)
(* fair.)                                                                   *)
ByteLockProgress ==
  (\E c \in CPUs : bpc[c] \in {"xchg", "inc", "spin"}) ~> (Holders # {})

=============================================================================
