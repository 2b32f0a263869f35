---------------------------- MODULE MCScheduler ----------------------------
\* Values of Scheduler's constants for TLC.
EXTENDS Scheduler

\* A day's and a month's gaps, scaled to the interval's.
Rarely == [m \in Maintenance |-> 3]
=============================================================================
