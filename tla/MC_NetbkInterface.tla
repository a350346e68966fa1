-------------------------- MODULE MC_NetbkInterface --------------------------
(* Bounds for checking NetbkInterface.  UINT_MAX stands for (unsigned)-1;  *)
(* the code only compares it, so any value above the groups will do.       *)
EXTENDS NetbkInterface

CONSTANTS a, b

MCNetifs1 == {a}
MCNetifs2 == {a, b}

\* The state without the history oops, which no guard reads: two states
\* that differ only in oops have the same futures.
MCView == <<life, carrier, running, devpc, irq, group, refcnt, work, timer,
            nr, sched, wpc, wnetif, inflight>>
====
