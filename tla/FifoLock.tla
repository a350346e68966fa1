------------------------------ MODULE FifoLock ------------------------------
(***************************************************************************)
(* What a fair FIFO spinlock promises (spinlock.h: "fair FIFO ticket       *)
(* locks"): CPUs that ask for the lock form a queue in the order they     *)
(* asked, only the CPU at the head may hold it, and releasing hands it to *)
(* the next one.  A lock request on an empty queue is granted at once;   *)
(* a trylock succeeds only on an empty queue.                              *)
(***************************************************************************)
EXTENDS Sequences, SequencesExt

CONSTANT CPUs

VARIABLES
  queue,   \* CPUs that asked for the lock, in the order they asked
  inCS     \* the CPU at the head of queue holds the lock

vars == <<queue, inCS>>

Init == queue = <<>> /\ ~inCS

\* Ask for the lock; it is granted at once when nobody holds or waits.
Lock(c) ==
  /\ ~Contains(queue, c)
  /\ queue' = Append(queue, c)
  /\ inCS' = (inCS \/ queue = <<>>)

\* The waiter at the head of the queue takes the lock.
Acquire(c) ==
  /\ queue # <<>> /\ Head(queue) = c
  /\ ~inCS
  /\ inCS' = TRUE
  /\ UNCHANGED queue

\* A trylock that succeeds.
TryAcquire(c) ==
  /\ queue = <<>>
  /\ queue' = <<c>>
  /\ inCS' = TRUE

\* The holder releases the lock.
Release(c) ==
  /\ inCS /\ Head(queue) = c
  /\ queue' = Tail(queue)
  /\ inCS' = FALSE

Next == \E c \in CPUs : Lock(c) \/ Acquire(c) \/ TryAcquire(c) \/ Release(c)

Spec == Init /\ [][Next]_vars

=============================================================================
