------------------------------- MODULE RwLock -------------------------------
(***************************************************************************)
(* The read-write spinlock of mach-xen/asm/spinlock.h (lines 366-448): a   *)
(* 32-bit counter that starts at RW_LOCK_BIAS.  A reader subtracts 1 and a *)
(* writer subtracts RW_LOCK_BIAS; the lock is taken when the result is not *)
(* negative (reader, "jns") or zero (writer, "jz").  Every instruction     *)
(* that reads or writes the counter is one step.                           *)
(*                                                                         *)
(* The slow paths __read_lock_failed and __write_lock_failed are assembly  *)
(* in arch/x86/lib (rwlock_64.S, semaphore_32.S), which is not part of     *)
(* this tree; they are modelled from that code as the kernel documents it: *)
(* undo the subtraction, spin until the counter looks free, redo the       *)
(* subtraction, and start over if it failed again.                         *)
(***************************************************************************)
EXTENDS Integers, FiniteSets

CONSTANTS
  CPUs,
  RW_LOCK_BIAS

VARIABLES
  rw,    \* rw->lock
  rpc    \* [CPUs -> ..]: where each CPU is in the rwlock code

vars == <<rw, rpc>>

(* rheld/wheld: holds the lock for reading/writing.  rinc, rspin, rdec:    *)
(* the incl, the "cmpl $1; js 1b" loop and the decl of __read_lock_failed; *)
(* wadd, wspin, wsub: the same three of __write_lock_failed.  rtinc/wtadd: *)
(* a failed trylock before its atomic_inc/atomic_add.                     *)
PCs == {"idle", "rheld", "wheld", "rinc", "rspin", "rdec",
        "wadd", "wspin", "wsub", "rtinc", "wtadd"}

__raw_read_can_lock == rw > 0
__raw_write_can_lock == rw = RW_LOCK_BIAS

Init ==
  /\ rw = RW_LOCK_BIAS
  /\ rpc = [c \in CPUs |-> "idle"]

Goto(c, l) == rpc' = [rpc EXCEPT ![c] = l]

\* __raw_read_lock: LOCK "subl $1"; "jns 1f"; else call __read_lock_failed.
ReadLock(c) ==
  /\ rpc[c] = "idle"
  /\ rw' = rw - 1
  /\ Goto(c, IF rw - 1 >= 0 THEN "rheld" ELSE "rinc")

\* __read_lock_failed: LOCK "incl", undoing the subtraction.
ReadFailedInc(c) ==
  /\ rpc[c] = "rinc"
  /\ rw' = rw + 1
  /\ Goto(c, "rspin")

\* "1: rep; nop; cmpl $1,(%rdi); js 1b": leave the loop once the counter
\* reads at least 1.
ReadFailedSpin(c) ==
  /\ rpc[c] = "rspin"
  /\ rw - 1 >= 0
  /\ Goto(c, "rdec")
  /\ UNCHANGED rw

\* Mutant: the decl without its "js __read_lock_failed".
ReadFailedDec_nocheck(c) ==
  /\ rpc[c] = "rdec"
  /\ rw' = rw - 1
  /\ Goto(c, "rheld")

\* LOCK "decl"; "js __read_lock_failed": a writer may have come in since
\* the cmpl.
ReadFailedDec(c) ==
  /\ rpc[c] = "rdec"
  /\ rw' = rw - 1
  /\ Goto(c, IF rw - 1 >= 0 THEN "rheld" ELSE "rinc")

\* __raw_write_lock: LOCK "subl $RW_LOCK_BIAS"; "jz 1f"; else call
\* __write_lock_failed.
WriteLock(c) ==
  /\ rpc[c] = "idle"
  /\ rw' = rw - RW_LOCK_BIAS
  /\ Goto(c, IF rw - RW_LOCK_BIAS = 0 THEN "wheld" ELSE "wadd")

\* Mutant: __write_lock_failed spinning without first adding the bias back.
WriteFailedAdd_norestore(c) ==
  /\ rpc[c] = "wadd"
  /\ Goto(c, "wspin")
  /\ UNCHANGED rw

\* __write_lock_failed: LOCK "addl $RW_LOCK_BIAS".
WriteFailedAdd(c) ==
  /\ rpc[c] = "wadd"
  /\ rw' = rw + RW_LOCK_BIAS
  /\ Goto(c, "wspin")

\* "1: rep; nop; cmpl $RW_LOCK_BIAS,(%rdi); jne 1b".
WriteFailedSpin(c) ==
  /\ rpc[c] = "wspin"
  /\ rw = RW_LOCK_BIAS
  /\ Goto(c, "wsub")
  /\ UNCHANGED rw

\* LOCK "subl $RW_LOCK_BIAS"; "jnz __write_lock_failed".
WriteFailedSub(c) ==
  /\ rpc[c] = "wsub"
  /\ rw' = rw - RW_LOCK_BIAS
  /\ Goto(c, IF rw - RW_LOCK_BIAS = 0 THEN "wheld" ELSE "wadd")

\* Mutant: a failed read_trylock that returns 0 without the atomic_inc.
ReadTrylock_noundo(c) ==
  /\ rpc[c] = "idle"
  /\ rw' = rw - 1
  /\ Goto(c, IF rw - 1 >= 0 THEN "rheld" ELSE "idle")

\* __raw_read_trylock: atomic_dec_return(count) >= 0 takes the lock ...
ReadTrylock(c) ==
  /\ rpc[c] = "idle"
  /\ rw' = rw - 1
  /\ Goto(c, IF rw - 1 >= 0 THEN "rheld" ELSE "rtinc")

\* ... otherwise atomic_inc(count); return 0.
ReadTrylockUndo(c) ==
  /\ rpc[c] = "rtinc"
  /\ rw' = rw + 1
  /\ Goto(c, "idle")

\* __raw_write_trylock: atomic_sub_and_test(RW_LOCK_BIAS, count) takes the
\* lock ...
WriteTrylock(c) ==
  /\ rpc[c] = "idle"
  /\ rw' = rw - RW_LOCK_BIAS
  /\ Goto(c, IF rw - RW_LOCK_BIAS = 0 THEN "wheld" ELSE "wtadd")

\* ... otherwise atomic_add(RW_LOCK_BIAS, count); return 0.
WriteTrylockUndo(c) ==
  /\ rpc[c] = "wtadd"
  /\ rw' = rw + RW_LOCK_BIAS
  /\ Goto(c, "idle")

\* __raw_read_unlock: LOCK "incl".
ReadUnlock(c) ==
  /\ rpc[c] = "rheld"
  /\ rw' = rw + 1
  /\ Goto(c, "idle")

\* __raw_write_unlock: LOCK "addl $RW_LOCK_BIAS".
WriteUnlock(c) ==
  /\ rpc[c] = "wheld"
  /\ rw' = rw + RW_LOCK_BIAS
  /\ Goto(c, "idle")

Start(c) ==
  ReadLock(c) \/ WriteLock(c) \/ ReadTrylock(c) \/ WriteTrylock(c)

Continue(c) ==
  \/ ReadFailedInc(c) \/ ReadFailedSpin(c) \/ ReadFailedDec(c)
  \/ WriteFailedAdd(c) \/ WriteFailedSpin(c) \/ WriteFailedSub(c)
  \/ ReadTrylockUndo(c) \/ WriteTrylockUndo(c)

Release(c) == ReadUnlock(c) \/ WriteUnlock(c)

Next == \E c \in CPUs : Start(c) \/ Continue(c) \/ Release(c)

(* A CPU inside a lock operation keeps running it, and every holder        *)
(* eventually unlocks; an idle CPU need not take the lock.                 *)
Fairness == \A c \in CPUs : WF_vars(Continue(c)) /\ WF_vars(Release(c))

Spec == Init /\ [][Next]_vars /\ Fairness

-----------------------------------------------------------------------------
TypeOK ==
  /\ rw \in Int
  /\ rpc \in [CPUs -> PCs]

Readers == {c \in CPUs : rpc[c] = "rheld"}
Writers == {c \in CPUs : rpc[c] = "wheld"}

(* Many readers or one writer: a CPU never owns the lock for writing while *)
(* any other CPU owns it, whatever the interleaving of the fast paths,     *)
(* the failed paths' undo and retry, and the trylocks.                     *)
RwExclusion ==
  Writers # {} => Cardinality(Writers) = 1 /\ Readers = {}

(* Every subtraction on the counter is matched by one CPU that has not     *)
(* undone it yet: a reader between its decrement and its increment counts  *)
(* 1 and a writer RW_LOCK_BIAS.  A failed path that forgets its undo, or   *)
(* undoes twice, breaks it, and the lock is then wedged or unprotected.    *)
CountAccounting ==
  rw = RW_LOCK_BIAS
       - Cardinality({c \in CPUs : rpc[c] \in {"rheld", "rinc", "rtinc"}})
       - RW_LOCK_BIAS * Cardinality({c \in CPUs : rpc[c] \in {"wheld", "wadd", "wtadd"}})

(* Whenever a CPU waits in read_lock or write_lock, eventually some CPU    *)
(* owns the lock or a failed trylock still holds its transient subtraction: *)
(* the failed paths cannot leave every waiter spinning on their own.  The   *)
(* second disjunct is needed: a stream of failing read_trylock and         *)
(* write_trylock calls keeps the counter below RW_LOCK_BIAS, and every     *)
(* waiter spins while nobody owns the lock.                                 *)
RwProgress ==
  (\E c \in CPUs : rpc[c] \in {"rinc", "rspin", "rdec", "wadd", "wspin", "wsub"})
    ~> (Readers \cup Writers # {} \/ \E c \in CPUs : rpc[c] \in {"rtinc", "wtadd"})

=============================================================================
