----------------------------- MODULE MCSleepLock -----------------------------
(* An instance of SleepLock for TLC. *)
EXTENDS SleepLock

CONSTANT e1     \* one of the environments

(* Every call of acquire_sleeplock() returns (kern/conc/sleeplock.c 37),    *)
(* whoever is woken, preempted or faster in between.  The environments are *)
(* interchangeable, so one of them stands for all.                         *)
AcquireReturns == ReturnsTo(e1)
=============================================================================
