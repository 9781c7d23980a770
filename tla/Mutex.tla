-------------------------------- MODULE Mutex --------------------------------
(***************************************************************************)
(* What a sleep lock promises its callers: a lock that one environment     *)
(* at a time holds, granted only while nobody holds it, and given back     *)
(* only by the environment that holds it.  Processors, queues, spinlocks   *)
(* and interrupts are none of the callers' business.                       *)
(***************************************************************************)
CONSTANTS Envs

VARIABLES mode    \* each environment's relation to the lock

Modes == {"out", "trying", "holding"}

Init == mode = [e \in Envs |-> "out"]

\* acquire_sleeplock() is called by an environment that does not hold the lock.
Try(e) == /\ mode[e] = "out"
          /\ mode' = [mode EXCEPT ![e] = "trying"]

\* The lock is granted.
Grant(e) == /\ mode[e] = "trying"
            /\ \A f \in Envs : mode[f] # "holding"
            /\ mode' = [mode EXCEPT ![e] = "holding"]

\* release_sleeplock() by the holder takes effect.
Release(e) == /\ mode[e] = "holding"
              /\ mode' = [mode EXCEPT ![e] = "out"]

Next == \E e \in Envs : Try(e) \/ Grant(e) \/ Release(e)

Spec == Init /\ [][Next]_mode
=============================================================================
