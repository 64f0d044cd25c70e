--------------------------- MODULE MCRetryLifecycle ---------------------------
\* RetryLifecycle for TLC: one record, and a thread for a second cycle of it.
EXTENDS RetryLifecycle

CONSTANTS r1, t1, t2
=============================================================================
