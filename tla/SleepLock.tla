------------------------------ MODULE SleepLock ------------------------------
(***************************************************************************)
(* Sleep locks (kern/conc/sleeplock.c) over channels (kern/conc/channel.c) *)
(* over the dispatcher.  The environments take and give back one sleep     *)
(* lock any number of times up to MaxCalls, call acquire_sleeplock() when  *)
(* they already hold it and release_sleeplock() when they do not, and are  *)
(* preempted wherever interrupts are enabled.                              *)
(***************************************************************************)
EXTENDS Sched

CONSTANTS MaxCalls    \* bound on the calls of each environment that may nest

ASSUME MaxCallsAssumption == MaxCalls \in Nat

VARIABLES
  locked, pid,   \* the fields of the sleep lock; its spinlock is "guard"
  chan,          \* the queue of its channel
  calls          \* calls made so far

lockVars == <<locked, pid, chan, calls>>
vars == <<schedVars, lockVars>>

\* Program counters.  "user" is code that does not hold the lock, "cs" code
\* that called acquire_sleeplock() and was let in.
HoldsGuard == {"a_test", "a_while", "s_qlock", "s_enqueue", "s_release",
               "a_take", "a_done", "r_test", "w_qlock", "w_loop", "w_done",
               "r_clear", "r_done"}
LockPcs == {"start", "user", "exited", "cs", "a_holding", "a_guard", "s_block",
            "s_wake", "s_guard", "r_holding", "r_guard"} \cup HoldsGuard

-----------------------------------------------------------------------------
(* Shapes of steps *)

\* A step of e that takes the spinlock l.
AcquireStep(e, from, l, to) ==
  /\ At(e, from)
  /\ acquire_spinlock(l)
  /\ Goto(e, to)
  /\ UNCHANGED <<ctl, proc, saved, irq, status, ready, exitq, schedpc, lockVars>>

\* A step of e that frees the spinlock l.
ReleaseStep(e, from, l, to) ==
  /\ At(e, from)
  /\ release_spinlock(l, cpu)
  /\ Goto(e, to)
  /\ UNCHANGED <<ctl, proc, saved, irq, status, ready, exitq, schedpc, lockVars>>

\* A step of e that only moves on.
Jump(e, from, to) ==
  /\ At(e, from)
  /\ Goto(e, to)
  /\ UNCHANGED <<ctl, proc, cpu, held, saved, irq, status, ready, exitq,
                 schedpc, panicked, lockVars>>

-----------------------------------------------------------------------------
(* sleep(&chan, &guard) *)

sleep_qlock(e) == AcquireStep(e, "s_qlock", "qlock", "s_enqueue")

sleep_enqueue(e) ==
  /\ At(e, "s_enqueue")
  /\ chan' = Append(chan, proc)
  /\ Goto(e, "s_release")
  /\ UNCHANGED <<ctl, proc, cpu, held, saved, irq, status, ready, exitq,
                 schedpc, panicked, locked, pid, calls>>

\* Mutant: the guard stays locked while the caller sleeps.
sleep_release_not(e) == Jump(e, "s_release", "s_block")

sleep_release(e) == ReleaseStep(e, "s_release", "guard", "s_block")

sleep_block(e) ==
  /\ At(e, "s_block")
  /\ status' = [status EXCEPT ![e] = "BLOCKED"]
  /\ sched(e, "BLOCKED", cpu, held)
  /\ Goto(e, "s_wake")
  /\ UNCHANGED <<proc, cpu, held, irq, ready, exitq, schedpc, lockVars>>

sleep_wake(e) ==
  /\ At(e, "s_wake")
  /\ release_spinlock("qlock", Resumed(e))
  /\ Goto(e, "s_guard")
  /\ UNCHANGED <<ctl, proc, saved, irq, status, ready, exitq, schedpc, lockVars>>

\* Mutant: acquire_sleeplock() tests the lock with "if" instead of "while".
sleep_guard_once(e) == AcquireStep(e, "s_guard", "guard", "a_take")

sleep_guard(e) == AcquireStep(e, "s_guard", "guard", "a_while")

sleep(e) == \/ sleep_qlock(e) \/ sleep_enqueue(e) \/ sleep_release(e)
            \/ sleep_block(e) \/ sleep_wake(e) \/ sleep_guard(e)

-----------------------------------------------------------------------------
(* wakeup_all(&chan): the oldest sleeper leaves first *)

wakeup_all_qlock(e) == AcquireStep(e, "w_qlock", "qlock", "w_loop")

\* Mutant: the status of the sleeper is left as it is.
wakeup_all_one_status(e) ==
  /\ At(e, "w_loop")
  /\ chan # <<>>
  /\ chan' = Tail(chan)
  /\ ready' = Append(ready, Head(chan))
  /\ UNCHANGED <<ctl, proc, cpu, held, saved, irq, status, exitq, pc, schedpc,
                 panicked, locked, pid, calls>>

\* Mutant: the sleeper is not put into the ready queue.
wakeup_all_one_queue(e) ==
  /\ At(e, "w_loop")
  /\ chan # <<>>
  /\ chan' = Tail(chan)
  /\ status' = [status EXCEPT ![Head(chan)] = "READY"]
  /\ UNCHANGED <<ctl, proc, cpu, held, saved, irq, ready, exitq, pc, schedpc,
                 panicked, locked, pid, calls>>

wakeup_all_one(e) ==
  /\ At(e, "w_loop")
  /\ chan # <<>>
  /\ chan' = Tail(chan)
  /\ status' = [status EXCEPT ![Head(chan)] = "READY"]
  /\ ready' = Append(ready, Head(chan))
  /\ UNCHANGED <<ctl, proc, cpu, held, saved, irq, exitq, pc, schedpc,
                 panicked, locked, pid, calls>>

wakeup_all_end(e) == chan = <<>> /\ Jump(e, "w_loop", "w_done")

wakeup_all_release(e) == ReleaseStep(e, "w_done", "qlock", "r_clear")

wakeup_all(e) == \/ wakeup_all_qlock(e) \/ wakeup_all_one(e)
                 \/ wakeup_all_end(e) \/ wakeup_all_release(e)

-----------------------------------------------------------------------------
(* acquire_sleeplock() *)

\* The value of holding_sleeplock() in the environment on the CPU.
holding_sleeplock == locked /\ pid = proc

call_acquire(e) ==
  /\ \/ At(e, "user") \/ At(e, "cs")
  /\ calls[e] < MaxCalls
  /\ calls' = [calls EXCEPT ![e] = @ + 1]
  /\ Goto(e, "a_holding")
  /\ UNCHANGED <<ctl, proc, cpu, held, saved, irq, status, ready, exitq,
                 schedpc, panicked, locked, pid, chan>>

acquire_holding(e) == AcquireStep(e, "a_holding", "guard", "a_test")

acquire_test(e) ==
  ReleaseStep(e, "a_test", "guard",
              IF holding_sleeplock THEN "cs" ELSE "a_guard")

acquire_guard(e) == AcquireStep(e, "a_guard", "guard", "a_while")

acquire_while(e) ==
  Jump(e, "a_while", IF locked THEN "s_qlock" ELSE "a_take")

acquire_take(e) ==
  /\ At(e, "a_take")
  /\ locked' = TRUE
  /\ pid' = proc
  /\ Goto(e, "a_done")
  /\ UNCHANGED <<ctl, proc, cpu, held, saved, irq, status, ready, exitq,
                 schedpc, panicked, chan, calls>>

acquire_done(e) == ReleaseStep(e, "a_done", "guard", "cs")

acquire_sleeplock(e) ==
  \/ acquire_holding(e) \/ acquire_test(e) \/ acquire_guard(e)
  \/ acquire_while(e) \/ acquire_take(e) \/ acquire_done(e)

-----------------------------------------------------------------------------
(* release_sleeplock() *)

\* The holder may always give the lock back; a call without the lock counts
\* against the bound.
call_release(e) ==
  /\ \/ At(e, "cs") /\ UNCHANGED calls
     \/ /\ At(e, "user")
        /\ calls[e] < MaxCalls
        /\ calls' = [calls EXCEPT ![e] = @ + 1]
  /\ Goto(e, "r_holding")
  /\ UNCHANGED <<ctl, proc, cpu, held, saved, irq, status, ready, exitq,
                 schedpc, panicked, locked, pid, chan>>

release_holding(e) == AcquireStep(e, "r_holding", "guard", "r_test")

\* Mutant: the caller need not hold the lock.
release_test_anyone(e) == ReleaseStep(e, "r_test", "guard", "r_guard")

release_test(e) ==
  ReleaseStep(e, "r_test", "guard",
              IF holding_sleeplock THEN "r_guard" ELSE "user")

\* Mutant: the sleepers are not woken.
release_guard_silent(e) == AcquireStep(e, "r_guard", "guard", "r_clear")

release_guard(e) == AcquireStep(e, "r_guard", "guard", "w_qlock")

release_clear(e) ==
  /\ At(e, "r_clear")
  /\ locked' = FALSE
  /\ pid' = NoEnv
  /\ Goto(e, "r_done")
  /\ UNCHANGED <<ctl, proc, cpu, held, saved, irq, status, ready, exitq,
                 schedpc, panicked, chan, calls>>

release_done(e) == ReleaseStep(e, "r_done", "guard", "user")

release_sleeplock(e) ==
  \/ release_holding(e) \/ release_test(e) \/ release_guard(e)
  \/ wakeup_all(e) \/ release_clear(e) \/ release_done(e)

-----------------------------------------------------------------------------
Init ==
  /\ SchedInit
  /\ locked = FALSE
  /\ pid = NoEnv
  /\ chan = <<>>
  /\ calls = [e \in Envs |-> 0]

\* Progress of the code that e executes.
Run(e) ==
  \/ (env_start(e) \/ env_exit(e)) /\ UNCHANGED lockVars
  \/ call_acquire(e) \/ call_release(e)
  \/ acquire_sleeplock(e) \/ sleep(e) \/ release_sleeplock(e)

\* A clock interrupt takes the CPU away from e, and e gets it back.
Preempt(e) == yield(e) /\ UNCHANGED lockVars
Resume(e)  == yield_return(e) /\ UNCHANGED lockVars

Scheduler == fos_scheduler /\ UNCHANGED lockVars

Next == Scheduler \/ \E e \in Envs : Run(e) \/ Preempt(e) \/ Resume(e)

Spec == Init /\ [][Next]_vars

\* The CPU does not stop, and a quantum is long enough for the running code to
\* move: an environment that gets the CPU again and again makes progress.
Fairness == /\ WF_vars(Scheduler)
            /\ \A e \in Envs : WF_vars(Resume(e)) /\ SF_vars(Run(e))

FairSpec == Spec /\ Fairness

-----------------------------------------------------------------------------
(* Properties *)

\* Every variable has a value of its type.
TypeOK ==
  /\ SchedTypeOK
  /\ held \in SUBSET {"qlock", "guard"}
  /\ pc \in [Envs -> LockPcs]
  /\ locked \in BOOLEAN
  /\ pid \in Envs \cup {NoEnv}
  /\ chan \in Seq(Envs)
  /\ calls \in [Envs -> 0..MaxCalls]

\* No check of acquire_spinlock(), release_spinlock(), popcli(), sched() or
\* fos_scheduler() that ends in a panic ever fires, wherever the environments
\* are preempted.
NoPanic == ~panicked

\* The code from the moment acquire_sleeplock() took the lock to the moment
\* release_sleeplock() gives it back.
Owning == {"a_done", "cs", "r_guard", "w_qlock", "w_loop", "w_done", "r_clear"}

\* An environment that was let in: by the place it is at, or because it calls
\* acquire_sleeplock() or release_sleeplock() again while the lock is its own.
Holds(e) == \/ pc[e] \in Owning
            \/ pc[e] \in {"a_holding", "a_test", "r_holding", "r_test"}
                 /\ locked /\ pid = e

\* acquire_sleeplock() lets in one environment at a time, and the fields of
\* the lock name that environment.
MutualExclusion ==
  \A e \in Envs : pc[e] \in Owning =>
    /\ locked /\ pid = e
    /\ \A f \in Envs : pc[f] \in Owning => f = e

\* A spinlock is held only while interrupts are off, and ncli counts the
\* spinlocks held: no handler can meet a lock of the code it interrupted.
InterruptsOffWhileLocked ==
  /\ cpu.ien => held = {}
  /\ ~panicked => cpu.ncli = Cardinality(held)

\* Where the dispatcher and the channel keep e: a BLOCKED environment is in the
\* channel and nowhere else, a READY one in the ready queue or, between its
\* yield() and the next pick, still current, an exited one in the EXIT queue;
\* between its enqueue and its sched() a sleeper is both queued and current.
QueuesAgreeWithStatus ==
  \A e \in Envs :
    LET inReady == Count(ready, e)
        inChan  == Count(chan, e)
        inExit  == Count(exitq, e)
        current == IF proc = e THEN 1 ELSE 0
    IN  CASE status[e] = "RUNNING" ->
               /\ current = 1 /\ inReady = 0 /\ inExit = 0
               /\ inChan = IF pc[e] \in {"s_release", "s_block"} THEN 1 ELSE 0
          [] status[e] = "READY" ->
               inReady + current = 1 /\ inChan = 0 /\ inExit = 0
          [] status[e] = "BLOCKED" ->
               /\ inChan = 1 /\ inReady = 0 /\ inExit = 0
               /\ current = 1 => schedpc = "back"
          [] status[e] = "EXIT" ->
               /\ inExit = 1 /\ inReady = 0 /\ inChan = 0
               /\ current = 1 => schedpc = "back"

\* release_sleeplock() wakes before it unlocks, sleep() queues before it frees
\* the guard: nobody sleeps on a free lock.
NoLostWakeup == chan # <<>> => locked

\* The scheduler does not go back to the prompt while somebody waits for the
\* lock or could still run.
PromptAfterLastExit == schedpc = "prompt" => \A e \in Envs : status[e] = "EXIT"

\* The sleep lock implements the abstract mutex.
modeOf(e) ==
  IF Holds(e) THEN "holding"
  ELSE IF pc[e] \in {"a_holding", "a_test", "a_guard", "a_while", "s_qlock",
                     "s_enqueue", "s_release", "s_block", "s_wake", "s_guard",
                     "a_take"}
       THEN "trying" ELSE "out"

lockMode == [e \in Envs |-> modeOf(e)]

M == INSTANCE Mutex WITH mode <- lockMode

MutexSpec == M!Spec

\* A call of acquire_sleeplock() by e returns: the sleeper is woken by the
\* release it waits for, and gets the lock in the end when the others stop
\* asking for it.
ReturnsTo(e) == pc[e] = "a_holding" ~> pc[e] = "cs"
=============================================================================
