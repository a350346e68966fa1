--------------------------- MODULE MC_NetbkCredit ---------------------------
EXTENDS NetbkCredit

\* Rates: credit_bytes of 2, 5 or the unlimited ~0UL; windows of 0, 1 and 2
\* jiffies at HZ = 100 (0 is the default; 500 us rounds down to 0 ms, 15 ms
\* up to 2 jiffies).
MCCreditBytes == {2, 5, 7}
MCCreditUsecs == {0, 500, 10000, 15000}
====
