--------------------------- MODULE SleepLockProofs ---------------------------
(***************************************************************************)
(* Proofs about SleepLock and the dispatcher below it, for every set of    *)
(* environments and every bound on their calls.                            *)
(***************************************************************************)
EXTENDS SleepLock, CommonTheorems

\* What the kernel code of an environment relies on when it reads
\* mycpu()->proc: the environment on whose stack the CPU executes is current.
OnCpu == ctl # NoEnv => proc = ctl

\* TypeOK for code of which SleepLock is a part: the spinlocks are those of H,
\* the places those of P.
Typed(H, P) ==
  /\ {"qlock", "guard"} \subseteq H
  /\ LockPcs \subseteq P
  /\ SchedTypeOK
  /\ held \in SUBSET H
  /\ pc \in [Envs -> P]
  /\ locked \in BOOLEAN
  /\ pid \in Envs \cup {NoEnv}
  /\ chan \in Seq(Envs)
  /\ calls \in [Envs -> 0..MaxCalls]

-----------------------------------------------------------------------------
(* Type correctness *)

\* SleepLock alone.
LEMMA TypedOK == /\ TypeOK <=> Typed({"qlock", "guard"}, LockPcs)
                 /\ TypeOK' <=> Typed({"qlock", "guard"}, LockPcs)'
BY DEF TypeOK, Typed

\* pushcli() keeps the CPU state well typed.
LEMMA PushcliType ==
  ASSUME NEW c \in CpuStates
  PROVE  pushcli(c) \in CpuStates
BY DEF CpuStates, pushcli

\* popcli() does too where its own checks do not panic: ncli stays natural.
LEMMA PopcliType ==
  ASSUME NEW c \in CpuStates, ~popcliPanics(c)
  PROVE  popcli(c) \in CpuStates
BY DEF CpuStates, popcli, popcliPanics

\* acquire_spinlock() preserves the types of what it writes.
LEMMA AcquireType ==
  ASSUME NEW H, NEW P, Typed(H, P), NEW l \in H, acquire_spinlock(l)
  PROVE  /\ cpu' \in CpuStates
         /\ held' \in SUBSET H
         /\ panicked' \in BOOLEAN
<1>1. cpu \in CpuStates /\ held \in SUBSET H /\ panicked \in BOOLEAN
  BY DEF Typed, SchedTypeOK
<1>2. pushcli(cpu) \in CpuStates
  BY <1>1, PushcliType
<1>3. QED
  BY <1>1, <1>2 DEF acquire_spinlock

\* release_spinlock() and the hand-over's release preserve them as well.
LEMMA ReleaseType ==
  ASSUME NEW H, NEW P, Typed(H, P), NEW l \in H, NEW c \in CpuStates,
         release_spinlock(l, c) \/ release_and_iret(c)
  PROVE  /\ cpu' \in CpuStates
         /\ held' \in SUBSET H
         /\ panicked' \in BOOLEAN
<1>1. cpu \in CpuStates /\ held \in SUBSET H /\ panicked \in BOOLEAN
  BY DEF Typed, SchedTypeOK
<1>2. CASE popcliPanics(c)
  BY <1>1, <1>2 DEF release_spinlock, release_and_iret
<1>3. CASE ~popcliPanics(c)
  <2>1. popcli(c) \in CpuStates
    BY <1>3, PopcliType
  <2>2. [popcli(c) EXCEPT !.ien = TRUE] \in CpuStates
    BY <2>1 DEF CpuStates
  <2>3. QED
    BY <1>1, <2>1, <2>2 DEF release_spinlock, release_and_iret
<1>4. QED
  BY <1>2, <1>3

\* context_switch() back into sched() restores a Boolean.
LEMMA ResumedType ==
  ASSUME NEW H, NEW P, Typed(H, P), NEW e \in Envs
  PROVE  Resumed(e) \in CpuStates
BY DEF Typed, SchedTypeOK, CpuStates, Resumed

\* sched() moves the control to the scheduler or panics.
LEMMA SchedType ==
  ASSUME NEW H, NEW P, Typed(H, P), NEW e \in Envs, NEW st, NEW c \in CpuStates, NEW h,
         sched(e, st, c, h)
  PROVE  /\ ctl' \in Envs \cup {NoEnv}
         /\ saved' \in [Envs -> BOOLEAN]
         /\ panicked' \in BOOLEAN
BY DEF Typed, SchedTypeOK, CpuStates, sched

\* A program counter of LockPcs may be written.
LEMMA GotoType ==
  ASSUME NEW H, NEW P, Typed(H, P), NEW e \in Envs, NEW to \in P, Goto(e, to)
  PROVE  pc' \in [Envs -> P]
BY DEF Typed, Goto

\* Steps that take a spinlock.
LEMMA AcquireStepType ==
  ASSUME NEW H, NEW P, Typed(H, P), NEW e \in Envs, NEW from, NEW l \in H,
         NEW to \in P, AcquireStep(e, from, l, to)
  PROVE  Typed(H, P)'
<1>1. acquire_spinlock(l) /\ Goto(e, to)
  BY DEF AcquireStep
<1>2. /\ cpu' \in CpuStates
      /\ held' \in SUBSET H
      /\ panicked' \in BOOLEAN
  BY <1>1, AcquireType
<1>3. pc' \in [Envs -> P]
  BY <1>1, GotoType
<1>4. QED
  BY <1>2, <1>3 DEF AcquireStep, Typed, SchedTypeOK, lockVars

\* Steps that free a spinlock.
LEMMA ReleaseStepType ==
  ASSUME NEW H, NEW P, Typed(H, P), NEW e \in Envs, NEW from, NEW l \in H,
         NEW to \in P, ReleaseStep(e, from, l, to)
  PROVE  Typed(H, P)'
<1>1. release_spinlock(l, cpu) /\ Goto(e, to)
  BY DEF ReleaseStep
<1>2. cpu \in CpuStates
  BY DEF Typed, SchedTypeOK
<1>3. /\ cpu' \in CpuStates
      /\ held' \in SUBSET H
      /\ panicked' \in BOOLEAN
  BY <1>1, <1>2, ReleaseType
<1>4. pc' \in [Envs -> P]
  BY <1>1, GotoType
<1>5. QED
  BY <1>3, <1>4 DEF ReleaseStep, Typed, SchedTypeOK, lockVars

\* Steps that only move on.
LEMMA JumpType ==
  ASSUME NEW H, NEW P, Typed(H, P), NEW e \in Envs, NEW from, NEW to \in P, Jump(e, from, to)
  PROVE  Typed(H, P)'
<1>1. pc' \in [Envs -> P]
  BY GotoType DEF Jump
<1>2. QED
  BY <1>1 DEF Jump, Typed, SchedTypeOK, lockVars

\* Types of the dispatcher's steps of an environment: env_start(), the clock
\* interrupt and the return from it, env_exit().
LEMMA EnvStepType ==
  ASSUME NEW H, NEW P, Typed(H, P), NEW e \in Envs,
         env_start(e) \/ yield(e) \/ yield_return(e) \/ env_exit(e),
         UNCHANGED lockVars
  PROVE  Typed(H, P)'
<1>0. "qlock" \in H /\ "guard" \in H /\ LockPcs \subseteq P
  BY DEF Typed
<1>1. cpu \in CpuStates /\ Resumed(e) \in CpuStates
  BY ResumedType DEF Typed, SchedTypeOK
<1>2. CASE env_start(e)
  <2>1. /\ cpu' \in CpuStates
        /\ held' \in SUBSET H
        /\ panicked' \in BOOLEAN
    BY <1>0, <1>1, <1>2, ReleaseType DEF env_start
  <2>2. pc' \in [Envs -> P]
    BY <1>0, <1>2, GotoType DEF env_start, LockPcs
  <2>3. QED
    BY <1>2, <2>1, <2>2 DEF env_start, Typed, SchedTypeOK, lockVars
<1>3. CASE yield_return(e)
  <2>1. /\ cpu' \in CpuStates
        /\ held' \in SUBSET H
        /\ panicked' \in BOOLEAN
    BY <1>0, <1>1, <1>3, ReleaseType DEF yield_return
  <2>2. QED
    BY <1>3, <2>1 DEF yield_return, Typed, SchedTypeOK, lockVars
<1>4. CASE yield(e)
  <2> DEFINE gate == [cpu EXCEPT !.ien = FALSE]
  <2>1. gate \in CpuStates
    BY <1>1 DEF CpuStates
  <2>2. pushcli(gate) \in CpuStates
    BY <2>1, PushcliType
  <2>3. CASE "qlock" \in held
    BY <1>4, <2>3 DEF yield, Panic, Typed, SchedTypeOK, lockVars
  <2>4. CASE "qlock" \notin held
    <3> HIDE DEF gate
    <3>1. sched(e, "READY", pushcli(gate), held \cup {"qlock"})
      BY <1>4, <2>4 DEF yield, gate
    <3>2. /\ ctl' \in Envs \cup {NoEnv}
          /\ saved' \in [Envs -> BOOLEAN]
          /\ panicked' \in BOOLEAN
      BY <2>2, <3>1, SchedType
    <3>3. /\ status' = [status EXCEPT ![e] = "READY"]
          /\ cpu' = pushcli(gate)
          /\ held' = held \cup {"qlock"}
          /\ irq' = irq \cup {e}
          /\ UNCHANGED <<proc, ready, exitq, schedpc, pc>>
      BY <1>4, <2>4 DEF yield, gate
    <3>4. QED
      BY <2>2, <3>2, <3>3 DEF Typed, SchedTypeOK, Statuses, lockVars
  <2>5. QED
    BY <2>3, <2>4
<1>5. CASE env_exit(e)
  <2> DEFINE c == IF "qlock" \in held THEN cpu ELSE pushcli(cpu)
  <2>1. c \in CpuStates
    BY <1>1, PushcliType
  <2>2. pc' \in [Envs -> P]
    BY <1>0, <1>5, GotoType DEF env_exit, LockPcs
  <2>3. sched(e, "EXIT", c, held \cup {"qlock"})
    BY <1>5 DEF env_exit
  <2>4. /\ status' = [status EXCEPT ![e] = "EXIT"]
        /\ exitq' = Append(exitq, e)
        /\ cpu' \in CpuStates
        /\ held' = held \cup {"qlock"}
        /\ UNCHANGED <<proc, ready, irq, schedpc>>
    BY <1>5, <2>1 DEF env_exit
  <2> HIDE DEF c
  <2>5. /\ ctl' \in Envs \cup {NoEnv}
        /\ saved' \in [Envs -> BOOLEAN]
        /\ panicked' \in BOOLEAN
    BY <2>1, <2>3, SchedType
  <2>6. /\ status' \in [Envs -> Statuses]
        /\ exitq' \in Seq(Envs)
        /\ held' \in SUBSET H
    BY <2>4 DEF Typed, SchedTypeOK, Statuses
  <2>7. QED
    BY <2>2, <2>4, <2>5, <2>6 DEF Typed, SchedTypeOK, lockVars
<1>6. QED
  BY <1>2, <1>3, <1>4, <1>5

\* Types of the steps of fos_scheduler().
LEMMA SchedulerType ==
  ASSUME NEW H, NEW P, Typed(H, P), Scheduler
  PROVE  Typed(H, P)'
<1>0. "qlock" \in H /\ "guard" \in H /\ LockPcs \subseteq P
  BY DEF Typed
<1>1. cpu \in CpuStates
  BY DEF Typed, SchedTypeOK
<1>2. CASE sched_sti
  <2>1. cpu' \in CpuStates
    BY <1>1, <1>2 DEF sched_sti, CpuStates
  <2>2. QED
    BY <1>2, <2>1 DEF Scheduler, sched_sti, Typed, SchedTypeOK, SchedPcs, lockVars
<1>3. CASE sched_acquire
  <2>1. /\ cpu' \in CpuStates
        /\ held' \in SUBSET H
        /\ panicked' \in BOOLEAN
    BY <1>0, <1>3, AcquireType DEF sched_acquire
  <2>2. QED
    BY <1>3, <2>1 DEF Scheduler, sched_acquire, Typed, SchedTypeOK, SchedPcs, lockVars
<1>4. CASE sched_switch
  <2>1. fos_scheduler_RR \in Seq(Envs) /\ fos_scheduler_RR # <<>>
    BY <1>4 DEF sched_switch, fos_scheduler_RR, Typed, SchedTypeOK
  <2>2. Head(fos_scheduler_RR) \in Envs /\ Tail(fos_scheduler_RR) \in Seq(Envs)
    BY <2>1
  <2>3. QED
    BY <1>4, <2>2 DEF Scheduler, sched_switch, Typed, SchedTypeOK, SchedPcs,
                      Statuses, lockVars
<1>5. CASE sched_none
  BY <1>5 DEF Scheduler, sched_none, Typed, SchedTypeOK, SchedPcs, lockVars
<1>6. CASE sched_back
  BY <1>6 DEF Scheduler, sched_back, Typed, SchedTypeOK, SchedPcs, lockVars
<1>7. CASE sched_scan
  <2>1. /\ cpu' \in CpuStates
        /\ held' \in SUBSET H
        /\ panicked' \in BOOLEAN
    BY <1>0, <1>1, <1>7, ReleaseType DEF sched_scan
  <2>2. QED
    BY <1>7, <2>1 DEF Scheduler, sched_scan, Typed, SchedTypeOK, SchedPcs, lockVars
<1>8. QED
  BY <1>2, <1>3, <1>4, <1>5, <1>6, <1>7 DEF Scheduler, fos_scheduler

\* Types of the steps inside acquire_sleeplock(), sleep(), wakeup_all() and
\* release_sleeplock(), and of the calls.
LEMMA LockStepType ==
  ASSUME NEW H, NEW P, Typed(H, P), OnCpu, NEW e \in Envs,
         \/ call_acquire(e) \/ call_release(e)
         \/ acquire_sleeplock(e) \/ sleep(e) \/ release_sleeplock(e)
  PROVE  Typed(H, P)'
<1>0. "qlock" \in H /\ "guard" \in H /\ LockPcs \subseteq P
  BY DEF Typed
<1> USE DEF LockPcs, HoldsGuard
<1>1. CASE call_acquire(e) \/ call_release(e)
  <2>1. pc' \in [Envs -> P]
    BY <1>0, <1>1, GotoType DEF call_acquire, call_release
  <2>2. calls' \in [Envs -> 0..MaxCalls]
    BY <1>1, MaxCallsAssumption DEF call_acquire, call_release, Typed
  <2>3. QED
    BY <1>1, <2>1, <2>2 DEF call_acquire, call_release, Typed, SchedTypeOK
<1>2. CASE acquire_holding(e) \/ acquire_guard(e) \/ sleep_qlock(e) \/ sleep_guard(e)
           \/ release_holding(e) \/ release_guard(e) \/ wakeup_all_qlock(e)
  BY <1>0, <1>2, AcquireStepType
     DEF acquire_holding, acquire_guard, sleep_qlock, sleep_guard,
         release_holding, release_guard, wakeup_all_qlock
<1>3. CASE acquire_test(e) \/ acquire_done(e) \/ sleep_release(e)
           \/ release_test(e) \/ release_done(e) \/ wakeup_all_release(e)
  BY <1>0, <1>3, ReleaseStepType
     DEF acquire_test, acquire_done, sleep_release, release_test, release_done,
         wakeup_all_release
<1>4. CASE acquire_while(e) \/ wakeup_all_end(e)
  BY <1>0, <1>4, JumpType DEF acquire_while, wakeup_all_end
<1>5. CASE acquire_take(e) \/ release_clear(e) \/ sleep_enqueue(e)
  <2>1. pc' \in [Envs -> P]
    BY <1>0, <1>5, GotoType DEF acquire_take, release_clear, sleep_enqueue
  <2>2. CASE acquire_take(e)
    BY <2>1, <2>2 DEF acquire_take, Typed, SchedTypeOK
  <2>3. CASE release_clear(e)
    BY <2>1, <2>3 DEF release_clear, Typed, SchedTypeOK
  <2>4. CASE sleep_enqueue(e)
    <3>1. proc \in Envs
      BY <2>4, EnvsAssumption DEF sleep_enqueue, At, OnCpu
    <3>2. QED
      BY <2>1, <2>4, <3>1 DEF sleep_enqueue, Typed, SchedTypeOK
  <2>5. QED
    BY <1>5, <2>2, <2>3, <2>4
<1>6. CASE sleep_block(e)
  <2>1. pc' \in [Envs -> P]
    BY <1>0, <1>6, GotoType DEF sleep_block
  <2>2. /\ ctl' \in Envs \cup {NoEnv}
        /\ saved' \in [Envs -> BOOLEAN]
        /\ panicked' \in BOOLEAN
    BY <1>6, SchedType DEF sleep_block, Typed, SchedTypeOK
  <2>3. QED
    BY <1>6, <2>1, <2>2 DEF sleep_block, Typed, SchedTypeOK, Statuses, lockVars
<1>7. CASE sleep_wake(e)
  <2>1. pc' \in [Envs -> P]
    BY <1>0, <1>7, GotoType DEF sleep_wake
  <2>2. /\ cpu' \in CpuStates
        /\ held' \in SUBSET H
        /\ panicked' \in BOOLEAN
    BY <1>0, <1>7, ResumedType, ReleaseType DEF sleep_wake
  <2>3. QED
    BY <1>7, <2>1, <2>2 DEF sleep_wake, Typed, SchedTypeOK, lockVars
<1>8. CASE wakeup_all_one(e)
  <2>1. Head(chan) \in Envs /\ Tail(chan) \in Seq(Envs)
    BY <1>8 DEF wakeup_all_one, Typed
  <2>2. QED
    BY <1>8, <2>1, SMTT(30) DEF wakeup_all_one, Typed, SchedTypeOK, Statuses
<1>9. QED
  BY <1>1, <1>2, <1>3, <1>4, <1>5, <1>6, <1>7, <1>8
     DEF acquire_sleeplock, sleep, release_sleeplock, wakeup_all

\* Every step keeps the current environment the one that executes.
LEMMA OnCpuStep ==
  ASSUME NEW H, NEW P, Typed(H, P), OnCpu, Next
  PROVE  OnCpu'
<1>1. CASE Scheduler
  <2>1. ctl = NoEnv
    BY <1>1 DEF Scheduler, fos_scheduler, sched_sti, sched_acquire, sched_switch,
                sched_none, sched_back, sched_scan, SchedAt
  <2>2. QED
    BY <1>1, <2>1 DEF Scheduler, fos_scheduler, sched_sti, sched_acquire,
                      sched_switch, sched_none, sched_back, sched_scan, OnCpu
<1>2. ASSUME NEW e \in Envs, Run(e) \/ Preempt(e) \/ Resume(e)
      PROVE  OnCpu'
  <2>1. UNCHANGED proc /\ (UNCHANGED ctl \/ ctl' = NoEnv)
    <3>1. CASE call_acquire(e) \/ call_release(e)
      BY <3>1 DEF call_acquire, call_release
    <3>2. CASE acquire_sleeplock(e)
      BY <3>2 DEF acquire_sleeplock, acquire_holding, acquire_test, acquire_guard,
                  acquire_while, acquire_take, acquire_done, AcquireStep,
                  ReleaseStep, Jump
    <3>3. CASE sleep(e)
      BY <3>3 DEF sleep, sleep_qlock, sleep_enqueue, sleep_release, sleep_block,
                  sleep_wake, sleep_guard, AcquireStep, ReleaseStep, sched
    <3>4. CASE release_sleeplock(e)
      BY <3>4 DEF release_sleeplock, release_holding, release_test, release_guard,
                  release_clear, release_done, wakeup_all, wakeup_all_qlock,
                  wakeup_all_one, wakeup_all_end, wakeup_all_release,
                  AcquireStep, ReleaseStep, Jump
    <3>5. CASE env_start(e) \/ env_exit(e) \/ yield(e) \/ yield_return(e)
      BY <3>5 DEF env_start, env_exit, yield, yield_return, Panic, sched
    <3>6. QED
      BY <1>2, <3>1, <3>2, <3>3, <3>4, <3>5 DEF Run, Preempt, Resume
  <2>2. QED
    BY <2>1 DEF OnCpu
<1>3. QED
  BY <1>1, <1>2 DEF Next

\* The initial states are well typed: fos_scheduler() starts with a ready queue
\* of environments.
LEMMA InitType == Init => TypeOK /\ OnCpu
<1> SUFFICES ASSUME Init PROVE TypeOK /\ OnCpu
  OBVIOUS
<1>1. Cardinality(Envs) \in Nat
  BY FS_CardinalityType, EnvsAssumption
<1>2. ready \in Seq(Envs)
  BY <1>1 DEF Init, SchedInit
<1>3. cpu \in CpuStates
  BY DEF Init, SchedInit, CpuStates
<1>4. /\ ctl = NoEnv /\ proc = NoEnv /\ held = {} /\ irq = {}
      /\ saved = [e \in Envs |-> FALSE]
      /\ status = [e \in Envs |-> "READY"]
      /\ pc = [e \in Envs |-> "start"]
      /\ exitq = <<>> /\ schedpc = "sti" /\ panicked = FALSE
      /\ locked = FALSE /\ pid = NoEnv /\ chan = <<>>
      /\ calls = [e \in Envs |-> 0]
  BY DEF Init, SchedInit
<1>5. TypeOK
  <2>1. saved \in [Envs -> BOOLEAN] /\ panicked \in BOOLEAN /\ locked \in BOOLEAN
    BY <1>4, Zenon
  <2>2. status \in [Envs -> Statuses] /\ pc \in [Envs -> LockPcs]
    BY <1>4 DEF Statuses, LockPcs
  <2>3. calls \in [Envs -> 0..MaxCalls]
    BY <1>4, MaxCallsAssumption
  <2>4. QED
    BY <1>2, <1>3, <1>4, <2>1, <2>2, <2>3 DEF TypeOK, SchedTypeOK, SchedPcs
<1>6. OnCpu
  BY <1>4 DEF OnCpu
<1>7. QED
  BY <1>5, <1>6

\* The invariant is inductive.
LEMMA TypeStep ==
  ASSUME NEW H, NEW P, Typed(H, P), OnCpu, [Next]_vars
  PROVE  Typed(H, P)' /\ OnCpu'
<1>1. CASE UNCHANGED vars
  BY <1>1 DEF vars, schedVars, lockVars, Typed, SchedTypeOK, OnCpu
<1>2. CASE Next
  <2>1. OnCpu'
    BY <1>2, OnCpuStep
  <2>2. CASE Scheduler
    BY <2>1, <2>2, SchedulerType
  <2>3. ASSUME NEW e \in Envs, Run(e) \/ Preempt(e) \/ Resume(e)
        PROVE  Typed(H, P)'
    <3>1. CASE /\ env_start(e) \/ yield(e) \/ yield_return(e) \/ env_exit(e)
               /\ UNCHANGED lockVars
      BY <3>1, EnvStepType
    <3>2. CASE \/ call_acquire(e) \/ call_release(e)
               \/ acquire_sleeplock(e) \/ sleep(e) \/ release_sleeplock(e)
      BY <3>2, LockStepType
    <3>3. QED
      BY <2>3, <3>1, <3>2 DEF Run, Preempt, Resume
  <2>4. QED
    BY <1>2, <2>1, <2>2, <2>3 DEF Next
<1>3. QED
  BY <1>1, <1>2

\* Type correctness: whatever the environments call and wherever they are
\* preempted, every variable keeps its type; in particular the channel and the
\* ready queue hold environments and never a NULL pointer.
THEOREM TypeCorrect == Spec => []TypeOK
<1>1. Init => TypeOK /\ OnCpu
  BY InitType
<1>2. TypeOK /\ OnCpu /\ [Next]_vars => TypeOK' /\ OnCpu'
  BY TypeStep, TypedOK
<1>3. QED
  BY <1>1, <1>2, PTL DEF Spec

-----------------------------------------------------------------------------
(* Mutual exclusion and wakeups *)

\* The guard spinlock excludes: one environment at a time is between its
\* acquire and its release of the guard.
GuardExcludes ==
  /\ \A e \in Envs : pc[e] \in HoldsGuard => "guard" \in held
  /\ \A e, f \in Envs : pc[e] \in HoldsGuard /\ pc[f] \in HoldsGuard => e = f

\* What an environment found out about the lock and the channel stays true as
\* long as it keeps the guard.
TestsStayTrue ==
  /\ \A e \in Envs : pc[e] = "a_take" => ~locked
  /\ \A e \in Envs : pc[e] \in {"s_qlock", "s_enqueue"} => locked
  /\ \A e \in Envs : pc[e] \in {"w_done", "r_clear"} => chan = <<>>

\* The fields of the lock name the environment that was let in.
OwnerIsNamed == \A e \in Envs : pc[e] \in Owning => locked /\ pid = e

\* The inductive invariant.  A panic leaves pc beyond the lock that was not
\* taken, so what rests on the guard is claimed while there was none.
LockInv == /\ OwnerIsNamed
           /\ NoLostWakeup
           /\ ~panicked => GuardExcludes /\ TestsStayTrue

\* Steps that keep the program counters where nobody looks, the guard and the
\* lock keep the invariant: the scheduler's steps are of this kind, ...
LEMMA SchedulerKeepsLock ==
  ASSUME LockInv, Scheduler
  PROVE  LockInv'
<1>1. UNCHANGED <<pc, lockVars>> /\ ~panicked
  BY DEF Scheduler, fos_scheduler, sched_sti, sched_acquire, sched_switch,
         sched_none, sched_back, sched_scan, SchedAt
<1>2. ~panicked' => ("guard" \in held' <=> "guard" \in held)
  BY DEF Scheduler, fos_scheduler, sched_sti, sched_acquire, sched_switch,
         sched_none, sched_back, sched_scan, acquire_spinlock, release_spinlock
<1>3. QED
  BY <1>1, <1>2 DEF LockInv, OwnerIsNamed, NoLostWakeup, GuardExcludes,
                    TestsStayTrue, lockVars

\* ... and so are the dispatcher's steps of an environment.
LEMMA DispatchKeepsLock ==
  ASSUME NEW H, NEW P, Typed(H, P), LockInv, NEW e \in Envs,
         env_start(e) \/ yield(e) \/ yield_return(e) \/ env_exit(e),
         UNCHANGED lockVars
  PROVE  LockInv'
<1>1. ~panicked
  BY DEF env_start, yield, yield_return, env_exit, At
<1>2. ~panicked' => ("guard" \in held' <=> "guard" \in held)
  BY DEF env_start, yield, yield_return, env_exit, release_and_iret, Panic
<1>3. \/ pc' = pc
      \/ pc' = [pc EXCEPT ![e] = "user"]
      \/ pc' = [pc EXCEPT ![e] = "exited"]
  BY DEF env_start, yield, yield_return, env_exit, Goto
<1>4. pc \in [Envs -> P]
  BY DEF Typed
<1>5. \A f \in Envs : /\ pc'[f] \in HoldsGuard \cup Owning => pc'[f] = pc[f]
  BY <1>3, <1>4 DEF HoldsGuard, Owning
<1>6. QED
  BY <1>1, <1>2, <1>5
     DEF LockInv, OwnerIsNamed, NoLostWakeup, GuardExcludes, TestsStayTrue,
         HoldsGuard, Owning, lockVars

\* Taking the guard: nobody else has it.
LEMMA AcquireGuardKeepsLock ==
  ASSUME NEW H, NEW P, Typed(H, P), LockInv, NEW e \in Envs,
         NEW from, NEW to \in HoldsGuard \ {"a_take", "s_qlock", "s_enqueue",
                                            "w_done", "r_clear"},
         to \in Owning => from \in Owning,
         AcquireStep(e, from, "guard", to)
  PROVE  LockInv'
<1>1. ~panicked /\ pc[e] = from /\ UNCHANGED <<locked, pid, chan>>
  BY DEF AcquireStep, At, lockVars
<1>2. pc' = [pc EXCEPT ![e] = to] /\ pc \in [Envs -> P]
  BY DEF AcquireStep, Goto, Typed
<1>3. OwnerIsNamed' /\ NoLostWakeup'
  BY <1>1, <1>2 DEF LockInv, OwnerIsNamed, NoLostWakeup
<1>4. ASSUME ~panicked'
      PROVE  GuardExcludes' /\ TestsStayTrue'
  <2>1. "guard" \notin held /\ "guard" \in held'
    BY <1>4 DEF AcquireStep, acquire_spinlock
  <2>2. \A f \in Envs : pc[f] \notin HoldsGuard
    BY <1>1, <2>1 DEF LockInv, GuardExcludes
  <2>3. GuardExcludes'
    BY <1>2, <2>1, <2>2 DEF GuardExcludes
  <2>4. TestsStayTrue'
    BY <1>2, <2>2 DEF TestsStayTrue, HoldsGuard
  <2>5. QED
    BY <2>3, <2>4
<1>5. QED
  BY <1>3, <1>4 DEF LockInv

\* Freeing the guard: the only environment that had it leaves.
LEMMA ReleaseGuardKeepsLock ==
  ASSUME NEW H, NEW P, Typed(H, P), OnCpu, LockInv, NEW e \in Envs,
         NEW from \in HoldsGuard, NEW to, to \notin HoldsGuard,
         to \in Owning => from \in Owning \/ holding_sleeplock,
         ReleaseStep(e, from, "guard", to)
  PROVE  LockInv'
<1>1. ~panicked /\ pc[e] = from /\ UNCHANGED <<locked, pid, chan>>
  BY DEF ReleaseStep, At, lockVars
<1>2. pc' = [pc EXCEPT ![e] = to] /\ pc \in [Envs -> P]
  BY DEF ReleaseStep, Goto, Typed
<1>3. proc = e
  BY EnvsAssumption DEF ReleaseStep, At, OnCpu
<1>4. OwnerIsNamed' /\ NoLostWakeup'
  BY <1>1, <1>2, <1>3
     DEF LockInv, OwnerIsNamed, NoLostWakeup, holding_sleeplock
<1>5. \A f \in Envs : pc'[f] \notin HoldsGuard
  BY <1>1, <1>2 DEF LockInv, GuardExcludes
<1>6. GuardExcludes' /\ TestsStayTrue'
  BY <1>5 DEF GuardExcludes, TestsStayTrue, HoldsGuard
<1>7. QED
  BY <1>4, <1>6 DEF LockInv

\* Moving on with the guard: nobody else looks at what the step writes.
LEMMA InsideGuardKeepsLock ==
  ASSUME NEW H, NEW P, Typed(H, P), LockInv, ~panicked, NEW e \in Envs,
         NEW to \in HoldsGuard, pc[e] \in HoldsGuard,
         pc' = [pc EXCEPT ![e] = to], held \subseteq held' \cup {"qlock"}
  PROVE  /\ GuardExcludes'
         /\ \A f \in Envs : f # e => pc'[f] \notin HoldsGuard
         /\ \A f \in Envs : f # e => pc'[f] = pc[f]
         /\ pc'[e] = to
BY DEF Typed, LockInv, GuardExcludes

\* The steps of an environment that has the guard and keeps it.
LEMMA GuardedStepKeepsLock ==
  ASSUME NEW H, NEW P, Typed(H, P), OnCpu, LockInv, NEW e \in Envs,
         \/ sleep_qlock(e) \/ sleep_enqueue(e) \/ wakeup_all_qlock(e)
         \/ wakeup_all_one(e) \/ wakeup_all_end(e) \/ wakeup_all_release(e)
         \/ acquire_while(e) \/ acquire_take(e) \/ release_clear(e)
  PROVE  LockInv'
<1> DEFINE Kept(to) == /\ pc' = [pc EXCEPT ![e] = to]
                       /\ held \subseteq held' \cup {"qlock"}
<1>1. ~panicked /\ ctl = e /\ proc = e
  BY EnvsAssumption
     DEF sleep_qlock, sleep_enqueue, wakeup_all_qlock, wakeup_all_one,
         wakeup_all_end, wakeup_all_release, acquire_while, acquire_take,
         release_clear, AcquireStep, ReleaseStep, Jump, At, OnCpu
<1>2. CASE sleep_qlock(e) \/ wakeup_all_qlock(e)
  <2>1. PICK from \in {"s_qlock", "w_qlock"} :
          /\ pc[e] = from
          /\ Kept(IF from = "s_qlock" THEN "s_enqueue" ELSE "w_loop")
          /\ UNCHANGED <<locked, pid, chan>>
    BY <1>2 DEF sleep_qlock, wakeup_all_qlock, AcquireStep, At, Goto,
                acquire_spinlock, lockVars
  <2>2. /\ GuardExcludes'
        /\ \A f \in Envs : f # e => pc'[f] \notin HoldsGuard
        /\ \A f \in Envs : f # e => pc'[f] = pc[f]
        /\ pc'[e] = IF from = "s_qlock" THEN "s_enqueue" ELSE "w_loop"
    BY <1>1, <2>1, InsideGuardKeepsLock DEF HoldsGuard
  <2>3. QED
    BY <1>1, <2>1, <2>2 DEF LockInv, OwnerIsNamed, NoLostWakeup, TestsStayTrue,
                            HoldsGuard, Owning
<1>3. CASE sleep_enqueue(e)
  <2>1. /\ pc[e] = "s_enqueue" /\ Kept("s_release")
        /\ UNCHANGED <<locked, pid>>
    BY <1>3 DEF sleep_enqueue, At, Goto
  <2>2. /\ GuardExcludes'
        /\ \A f \in Envs : f # e => pc'[f] \notin HoldsGuard
        /\ \A f \in Envs : f # e => pc'[f] = pc[f]
        /\ pc'[e] = "s_release"
    BY <1>1, <2>1, InsideGuardKeepsLock DEF HoldsGuard
  <2>3. locked
    BY <1>1, <2>1 DEF LockInv, TestsStayTrue
  <2>4. QED
    BY <1>1, <2>1, <2>2, <2>3 DEF LockInv, OwnerIsNamed, NoLostWakeup,
                                  TestsStayTrue, HoldsGuard, Owning
<1>4. CASE wakeup_all_one(e)
  <2>1. /\ pc[e] = "w_loop" /\ UNCHANGED <<pc, held, locked, pid>>
        /\ chan # <<>>
    BY <1>4 DEF wakeup_all_one, At
  <2>2. GuardExcludes /\ (\A f \in Envs : f # e => pc[f] \notin HoldsGuard)
    BY <1>1, <2>1 DEF LockInv, GuardExcludes, HoldsGuard
  <2>3. QED
    BY <1>1, <2>1, <2>2 DEF LockInv, OwnerIsNamed, NoLostWakeup, GuardExcludes,
                            TestsStayTrue, HoldsGuard, Owning
<1>5. CASE wakeup_all_end(e) \/ wakeup_all_release(e)
  <2>1. PICK from \in {"w_loop", "w_done"} :
          /\ pc[e] = from
          /\ Kept(IF from = "w_loop" THEN "w_done" ELSE "r_clear")
          /\ UNCHANGED <<locked, pid, chan>>
          /\ from = "w_loop" => chan = <<>>
    BY <1>5 DEF wakeup_all_end, wakeup_all_release, ReleaseStep, Jump, At, Goto,
                release_spinlock, lockVars
  <2>2. /\ GuardExcludes'
        /\ \A f \in Envs : f # e => pc'[f] \notin HoldsGuard
        /\ \A f \in Envs : f # e => pc'[f] = pc[f]
        /\ pc'[e] = IF from = "w_loop" THEN "w_done" ELSE "r_clear"
    BY <1>1, <2>1, InsideGuardKeepsLock DEF HoldsGuard
  <2>3. chan = <<>>
    BY <1>1, <2>1 DEF LockInv, TestsStayTrue
  <2>4. QED
    BY <1>1, <2>1, <2>2, <2>3 DEF LockInv, OwnerIsNamed, NoLostWakeup,
                                  TestsStayTrue, HoldsGuard, Owning
<1>6. CASE acquire_while(e)
  <2>1. /\ pc[e] = "a_while" /\ Kept(IF locked THEN "s_qlock" ELSE "a_take")
        /\ UNCHANGED <<locked, pid, chan>>
    BY <1>6 DEF acquire_while, Jump, At, Goto, lockVars
  <2>2. /\ GuardExcludes'
        /\ \A f \in Envs : f # e => pc'[f] \notin HoldsGuard
        /\ \A f \in Envs : f # e => pc'[f] = pc[f]
        /\ pc'[e] = IF locked THEN "s_qlock" ELSE "a_take"
    BY <1>1, <2>1, InsideGuardKeepsLock DEF HoldsGuard
  <2>3. QED
    BY <1>1, <2>1, <2>2 DEF LockInv, OwnerIsNamed, NoLostWakeup, TestsStayTrue,
                            HoldsGuard, Owning
<1>7. CASE acquire_take(e)
  <2>1. /\ pc[e] = "a_take" /\ Kept("a_done")
        /\ locked' = TRUE /\ pid' = e /\ UNCHANGED chan
    BY <1>1, <1>7 DEF acquire_take, At, Goto
  <2>2. /\ GuardExcludes'
        /\ \A f \in Envs : f # e => pc'[f] \notin HoldsGuard
        /\ \A f \in Envs : f # e => pc'[f] = pc[f]
        /\ pc'[e] = "a_done"
    BY <1>1, <2>1, InsideGuardKeepsLock DEF HoldsGuard
  <2>3. \A f \in Envs : pc[f] \notin Owning
    BY <1>1, <2>1 DEF LockInv, OwnerIsNamed, TestsStayTrue
  <2>4. QED
    BY <1>1, <2>1, <2>2, <2>3 DEF LockInv, OwnerIsNamed, NoLostWakeup,
                                  TestsStayTrue, HoldsGuard, Owning
<1>8. CASE release_clear(e)
  <2>1. /\ pc[e] = "r_clear" /\ Kept("r_done")
        /\ locked' = FALSE /\ UNCHANGED chan
    BY <1>8 DEF release_clear, At, Goto
  <2>2. /\ GuardExcludes'
        /\ \A f \in Envs : f # e => pc'[f] \notin HoldsGuard
        /\ \A f \in Envs : f # e => pc'[f] = pc[f]
        /\ pc'[e] = "r_done"
    BY <1>1, <2>1, InsideGuardKeepsLock DEF HoldsGuard
  <2>3. chan = <<>> /\ \A f \in Envs : f # e => pc[f] \notin Owning
    BY <1>1, <2>1 DEF LockInv, OwnerIsNamed, TestsStayTrue, Owning
  <2>4. QED
    BY <1>1, <2>1, <2>2, <2>3 DEF LockInv, OwnerIsNamed, NoLostWakeup,
                                  TestsStayTrue, HoldsGuard, Owning
<1>9. QED
  BY <1>2, <1>3, <1>4, <1>5, <1>6, <1>7, <1>8

\* The steps of an environment that has not got the guard and does not ask for
\* it: the calls, and sleeping.
LEMMA UnguardedStepKeepsLock ==
  ASSUME NEW H, NEW P, Typed(H, P), LockInv, NEW e \in Envs,
         call_acquire(e) \/ call_release(e) \/ sleep_block(e) \/ sleep_wake(e)
  PROVE  LockInv'
<1>1. ~panicked /\ UNCHANGED <<locked, pid, chan>>
  BY DEF call_acquire, call_release, sleep_block, sleep_wake, At, lockVars
<1>2. ~panicked' => ("guard" \in held' <=> "guard" \in held)
  BY DEF call_acquire, call_release, sleep_block, sleep_wake, release_spinlock
<1>3. PICK to \in {"a_holding", "r_holding", "s_wake", "s_guard"} :
        pc' = [pc EXCEPT ![e] = to]
  BY DEF call_acquire, call_release, sleep_block, sleep_wake, Goto
<1>4. pc \in [Envs -> P]
  BY DEF Typed
<1>5. \A f \in Envs : pc'[f] \in HoldsGuard \cup Owning => pc'[f] = pc[f]
  BY <1>3, <1>4 DEF HoldsGuard, Owning
<1>6. QED
  BY <1>1, <1>2, <1>5
     DEF LockInv, OwnerIsNamed, NoLostWakeup, GuardExcludes, TestsStayTrue,
         HoldsGuard, Owning

\* Every step preserves the invariant.
LEMMA LockInvStep ==
  ASSUME NEW H, NEW P, Typed(H, P), OnCpu, LockInv, [Next]_vars
  PROVE  LockInv'
<1> USE DEF HoldsGuard, Owning
<1>1. CASE UNCHANGED vars
  BY <1>1 DEF vars, schedVars, lockVars, LockInv, OwnerIsNamed, NoLostWakeup,
              GuardExcludes, TestsStayTrue
<1>2. CASE Scheduler
  BY <1>2, SchedulerKeepsLock
<1>3. ASSUME NEW e \in Envs, Run(e) \/ Preempt(e) \/ Resume(e)
      PROVE  LockInv'
  <2>1. CASE /\ env_start(e) \/ yield(e) \/ yield_return(e) \/ env_exit(e)
             /\ UNCHANGED lockVars
    BY <2>1, DispatchKeepsLock
  <2>2. CASE call_acquire(e) \/ call_release(e) \/ sleep_block(e) \/ sleep_wake(e)
    BY <2>2, UnguardedStepKeepsLock
  <2>3. CASE acquire_holding(e) \/ acquire_guard(e) \/ sleep_guard(e)
             \/ release_holding(e) \/ release_guard(e)
    BY <2>3, AcquireGuardKeepsLock
       DEF acquire_holding, acquire_guard, sleep_guard, release_holding,
           release_guard
  <2>4. CASE acquire_test(e) \/ acquire_done(e) \/ sleep_release(e)
             \/ release_test(e) \/ release_done(e)
    BY <2>4, ReleaseGuardKeepsLock
       DEF acquire_test, acquire_done, sleep_release, release_test, release_done
  <2>5. CASE \/ sleep_qlock(e) \/ sleep_enqueue(e) \/ wakeup_all_qlock(e)
             \/ wakeup_all_one(e) \/ wakeup_all_end(e) \/ wakeup_all_release(e)
             \/ acquire_while(e) \/ acquire_take(e) \/ release_clear(e)
    BY <2>5, GuardedStepKeepsLock
  <2>6. QED
    BY <1>3, <2>1, <2>2, <2>3, <2>4, <2>5
       DEF Run, Preempt, Resume, acquire_sleeplock, sleep, release_sleeplock,
           wakeup_all
<1>4. QED
  BY <1>1, <1>2, <1>3 DEF Next

\* Every reachable state satisfies the inductive invariant.
THEOREM LockInvariant == Spec => [](TypeOK /\ OnCpu /\ LockInv)
<1>1. Init => LockInv
  BY DEF Init, SchedInit, LockInv, OwnerIsNamed, NoLostWakeup, GuardExcludes,
         TestsStayTrue, HoldsGuard, Owning
<1>2. Init => TypeOK /\ OnCpu
  BY InitType
<1>3. TypeOK /\ OnCpu /\ LockInv /\ [Next]_vars => (TypeOK /\ OnCpu /\ LockInv)'
  BY TypeStep, LockInvStep, TypedOK
<1>4. QED
  BY <1>1, <1>2, <1>3, PTL DEF Spec

\* acquire_sleeplock() lets in one environment at a time, whatever the number
\* of environments, the calls they make and the places where the clock
\* interrupts them.
THEOREM SleepLockExcludes == Spec => []MutualExclusion
<1>1. LockInv => MutualExclusion
  BY DEF LockInv, OwnerIsNamed, MutualExclusion
<1>2. QED
  BY <1>1, LockInvariant, PTL

\* No environment is left sleeping on a sleep lock that is free.
THEOREM SleepLockWakes == Spec => []NoLostWakeup
<1>1. LockInv => NoLostWakeup
  BY DEF LockInv
<1>2. QED
  BY <1>1, LockInvariant, PTL

-----------------------------------------------------------------------------
(* Refinement.  The sleep lock implements the abstract mutex, for every    *)
(* set of environments: the lock is granted where acquire_sleeplock()      *)
(* writes the fields of the lock, and given back where release_sleeplock() *)
(* clears them; every other step is a request or invisible.                *)

\* Where the environment that owns the lock can be.
OwnerPcs == Owning \cup {"a_holding", "a_test", "r_holding", "r_test"}

\* A lock that is locked is owned by the environment its pid names.
OwnerExists == locked => pid \in Envs /\ pc[pid] \in OwnerPcs

RefInv == TypeOK /\ OnCpu /\ LockInv /\ OwnerExists

\* The steps of an environment other than the grant and the release leave the
\* fields of the lock alone and move one program counter: along an edge of
\* the code.
Edge(e, from, to) ==
  \/ to = from
  \/ <<from, to>> \in {
       <<"start", "user">>, <<"user", "exited">>, <<"a_holding", "a_test">>,
       <<"a_guard", "a_while">>, <<"a_while", "s_qlock">>, <<"a_while", "a_take">>,
       <<"s_qlock", "s_enqueue">>, <<"s_enqueue", "s_release">>,
       <<"s_release", "s_block">>, <<"s_block", "s_wake">>, <<"s_wake", "s_guard">>,
       <<"s_guard", "a_while">>, <<"a_done", "cs">>,
       <<"cs", "a_holding">>, <<"cs", "r_holding">>, <<"user", "r_holding">>,
       <<"r_holding", "r_test">>, <<"r_guard", "w_qlock">>, <<"w_qlock", "w_loop">>,
       <<"w_loop", "w_done">>, <<"w_done", "r_clear">>, <<"r_done", "user">>}
  \/ from = "a_test" /\ to = IF locked /\ pid = e THEN "cs" ELSE "a_guard"
  \/ from = "r_test" /\ to = IF locked /\ pid = e THEN "r_guard" ELSE "user"

\* An edge of the code taken by e without a change of the lock.
Quiet(e) == /\ UNCHANGED <<locked, pid>>
            /\ \E to \in LockPcs : /\ pc' = [pc EXCEPT ![e] = to]
                                   /\ Edge(e, pc[e], to)

\* A step that does not concern the lock at all.
Unseen == UNCHANGED <<locked, pid, pc>>

\* The other steps are steps of some e: quiet, or one of the three that count.
LockStep(e) == \/ Quiet(e)
               \/ call_acquire(e) /\ pc[e] = "user"
               \/ acquire_take(e)
               \/ release_clear(e)

\* Every step is a quiet one, a request, the grant or the release.
LEMMA StepKinds ==
  ASSUME TypeOK, OnCpu, Next
  PROVE  Unseen \/ \E e \in Envs : LockStep(e)
<1>1. CASE Scheduler
  BY <1>1 DEF Scheduler, fos_scheduler, sched_sti, sched_acquire, sched_switch,
              sched_none, sched_back, sched_scan, lockVars, Unseen
<1>2. ASSUME NEW e \in Envs, Run(e) \/ Preempt(e) \/ Resume(e)
      PROVE  Unseen \/ LockStep(e)
  <2> USE DEF Unseen, LockStep, Quiet, Edge, LockPcs, HoldsGuard
  <2>1. CASE /\ env_start(e) \/ yield(e) \/ yield_return(e) \/ env_exit(e)
             /\ UNCHANGED lockVars
    BY <2>1 DEF env_start, yield, yield_return, env_exit, At, Goto, lockVars
  <2>2. CASE call_acquire(e)
    BY <2>2 DEF call_acquire, At, Goto
  <2>3. CASE call_release(e)
    BY <2>3 DEF call_release, At, Goto
  <2>4. CASE acquire_holding(e) \/ acquire_guard(e) \/ acquire_while(e)
             \/ acquire_done(e)
    BY <2>4 DEF acquire_holding, acquire_guard, acquire_while, acquire_done,
                AcquireStep, ReleaseStep, Jump, At, Goto, lockVars
  <2>5. CASE acquire_test(e) \/ release_test(e)
    <3>1. proc = e
      BY <2>5, EnvsAssumption DEF acquire_test, release_test, ReleaseStep, At, OnCpu
    <3>2. QED
      BY <2>5, <3>1 DEF acquire_test, release_test, ReleaseStep, At, Goto,
                        holding_sleeplock, lockVars
  <2>6. CASE sleep(e)
    BY <2>6 DEF sleep, sleep_qlock, sleep_enqueue, sleep_release, sleep_block,
                sleep_wake, sleep_guard, AcquireStep, ReleaseStep, At, Goto, lockVars
  <2>7. CASE release_holding(e) \/ release_guard(e) \/ release_done(e)
    BY <2>7 DEF release_holding, release_guard, release_done,
                AcquireStep, ReleaseStep, At, Goto, lockVars
  <2>8. CASE wakeup_all(e)
    BY <2>8 DEF wakeup_all, wakeup_all_qlock, wakeup_all_one, wakeup_all_end,
                wakeup_all_release, AcquireStep, ReleaseStep, Jump, At, Goto, lockVars
  <2>9. QED
    BY <1>2, <2>1, <2>2, <2>3, <2>4, <2>5, <2>6, <2>7, <2>8
       DEF Run, Preempt, Resume, acquire_sleeplock, release_sleeplock
<1>3. QED
  BY <1>1, <1>2 DEF Next

\* The owner of the lock stays where owners are until it gives the lock back.
LEMMA OwnerExistsStep ==
  ASSUME RefInv, [Next]_vars
  PROVE  OwnerExists'
<1>1. CASE Unseen
  BY <1>1 DEF RefInv, OwnerExists, Unseen
<1>2. ASSUME NEW e \in Envs, Quiet(e)
      PROVE  OwnerExists'
  BY <1>2 DEF RefInv, OwnerExists, Quiet, Edge, OwnerPcs, Owning, TypeOK
<1>3. ASSUME NEW e \in Envs, call_acquire(e), pc[e] = "user"
      PROVE  OwnerExists'
  BY <1>3 DEF RefInv, OwnerExists, call_acquire, Goto, OwnerPcs, Owning, TypeOK
<1>4. ASSUME NEW e \in Envs, acquire_take(e)
      PROVE  OwnerExists'
  BY <1>4, EnvsAssumption
     DEF RefInv, OwnerExists, OnCpu, acquire_take, At, Goto, OwnerPcs, Owning, TypeOK
<1>5. ASSUME NEW e \in Envs, release_clear(e)
      PROVE  OwnerExists'
  BY <1>5 DEF release_clear, OwnerExists
<1>6. ASSUME NEW e \in Envs, LockStep(e)
      PROVE  OwnerExists'
  BY <1>2, <1>3, <1>4, <1>5, <1>6 DEF LockStep
<1>7. Unseen \/ \E e \in Envs : LockStep(e)
  BY StepKinds DEF RefInv, vars, schedVars, lockVars, Unseen
<1>8. QED
  BY <1>1, <1>6, <1>7

\* A quiet step does not change what the abstract mutex sees.
LEMMA QuietStutters ==
  ASSUME RefInv, NEW e \in Envs, Quiet(e)
  PROVE  UNCHANGED lockMode
<1>1. PICK to \in LockPcs : pc' = [pc EXCEPT ![e] = to] /\ Edge(e, pc[e], to)
  BY DEF Quiet
<1>2. pc \in [Envs -> LockPcs] /\ UNCHANGED <<locked, pid>>
  BY DEF RefInv, TypeOK, Quiet
<1>3. ASSUME NEW f \in Envs, f # e
      PROVE  modeOf(f)' = modeOf(f)
  BY <1>1, <1>2, <1>3 DEF modeOf, Holds
<1>4. modeOf(e)' = modeOf(e)
  <2>1. pc[e] \in Owning => locked /\ pid = e
    BY DEF RefInv, LockInv, OwnerIsNamed
  <2>2. locked /\ pid = e => pc[e] \in OwnerPcs
    BY DEF RefInv, OwnerExists
  <2>3. pc'[e] = to
    BY <1>1, <1>2
  <2>4. QED
    BY <1>1, <1>2, <2>1, <2>2, <2>3 DEF modeOf, Holds, Edge, Owning, OwnerPcs
<1>5. QED
  BY <1>3, <1>4 DEF lockMode

\* A call of acquire_sleeplock() without the lock is a request.
LEMMA RequestTries ==
  ASSUME RefInv, NEW e \in Envs, call_acquire(e), pc[e] = "user"
  PROVE  M!Try(e)
<1>1. /\ pc' = [pc EXCEPT ![e] = "a_holding"] /\ UNCHANGED <<locked, pid>>
      /\ pc \in [Envs -> LockPcs]
  BY DEF call_acquire, Goto, RefInv, TypeOK
<1>2. ~(locked /\ pid = e)
  BY DEF RefInv, OwnerExists, OwnerPcs, Owning
<1>3. modeOf(e) = "out" /\ modeOf(e)' = "trying"
  BY <1>1, <1>2 DEF modeOf, Holds, Owning
<1>4. \A f \in Envs : f # e => modeOf(f)' = modeOf(f)
  BY <1>1 DEF modeOf, Holds
<1>5. lockMode' = [lockMode EXCEPT ![e] = "trying"]
  BY <1>3, <1>4 DEF lockMode
<1>6. QED
  BY <1>3, <1>5 DEF M!Try, lockMode

\* Writing the fields of the lock grants it: nobody holds it then.
LEMMA TakeGrants ==
  ASSUME RefInv, NEW e \in Envs, acquire_take(e)
  PROVE  M!Grant(e)
<1>1. /\ pc[e] = "a_take" /\ pc' = [pc EXCEPT ![e] = "a_done"]
      /\ locked' = TRUE /\ pid' = e
      /\ pc \in [Envs -> LockPcs]
  BY EnvsAssumption DEF acquire_take, At, Goto, RefInv, OnCpu, TypeOK
<1>2. ~locked
  BY DEF RefInv, LockInv, TestsStayTrue, acquire_take, At
<1>3. \A f \in Envs : ~Holds(f)
  BY <1>2 DEF RefInv, LockInv, OwnerIsNamed, Holds
<1>4. modeOf(e) = "trying" /\ modeOf(e)' = "holding"
  BY <1>1, <1>3 DEF modeOf, Holds, Owning
<1>5. \A f \in Envs : modeOf(f) # "holding"
  BY <1>3 DEF modeOf
<1>6. \A f \in Envs : f # e => modeOf(f)' = modeOf(f)
  BY <1>1, <1>3 DEF modeOf, Holds
<1>7. lockMode' = [lockMode EXCEPT ![e] = "holding"]
  BY <1>4, <1>6 DEF lockMode
<1>8. QED
  BY <1>4, <1>5, <1>7 DEF M!Grant, lockMode

\* Clearing them gives the lock back.
LEMMA ClearReleases ==
  ASSUME RefInv, NEW e \in Envs, release_clear(e)
  PROVE  M!Release(e)
<1>1. /\ pc[e] = "r_clear" /\ pc' = [pc EXCEPT ![e] = "r_done"]
      /\ locked' = FALSE
      /\ pc \in [Envs -> LockPcs]
  BY DEF release_clear, At, Goto, RefInv, TypeOK
<1>2. pid = e
  BY <1>1 DEF RefInv, LockInv, OwnerIsNamed, Owning
<1>3. modeOf(e) = "holding" /\ modeOf(e)' = "out"
  BY <1>1 DEF modeOf, Holds, Owning
<1>4. ASSUME NEW f \in Envs, f # e
      PROVE  modeOf(f)' = modeOf(f)
  <2>1. pc[f] \notin Owning
    BY <1>2, <1>4 DEF RefInv, LockInv, OwnerIsNamed
  <2>2. QED
    BY <1>1, <1>2, <1>4, <2>1 DEF modeOf, Holds
<1>5. lockMode' = [lockMode EXCEPT ![e] = "out"]
  BY <1>3, <1>4 DEF lockMode
<1>6. QED
  BY <1>3, <1>5 DEF M!Release, lockMode

\* The sleep lock implements the abstract mutex.
THEOREM SleepLockImplementsMutex == Spec => MutexSpec
<1>1. Init => OwnerExists /\ M!Init
  BY DEF Init, SchedInit, OwnerExists, M!Init, lockMode, modeOf, Holds, Owning
<1>2. RefInv /\ [Next]_vars => OwnerExists'
  BY OwnerExistsStep
<1>3. RefInv /\ [Next]_vars => [M!Next]_lockMode
  <2> SUFFICES ASSUME RefInv, [Next]_vars PROVE [M!Next]_lockMode
    OBVIOUS
  <2>1. CASE Unseen
    <3>1. \A e \in Envs : modeOf(e)' = modeOf(e)
      BY <2>1 DEF modeOf, Holds, Unseen
    <3>2. QED
      BY <3>1 DEF lockMode
  <2>2. ASSUME NEW e \in Envs, LockStep(e)
        PROVE  [M!Next]_lockMode
    <3>1. CASE Quiet(e)
      BY <3>1, QuietStutters
    <3>2. CASE \/ call_acquire(e) /\ pc[e] = "user"
               \/ acquire_take(e) \/ release_clear(e)
      <4>1. M!Try(e) \/ M!Grant(e) \/ M!Release(e)
        BY <3>2, RequestTries, TakeGrants, ClearReleases
      <4>2. QED
        BY <4>1 DEF M!Next
    <3>3. QED
      BY <2>2, <3>1, <3>2 DEF LockStep
  <2>3. Unseen \/ \E e \in Envs : LockStep(e)
    BY StepKinds DEF RefInv, vars, schedVars, lockVars, Unseen
  <2>4. QED
    BY <2>1, <2>2, <2>3
<1>4. Spec => []RefInv
  BY <1>1, <1>2, LockInvariant, PTL DEF RefInv, Spec
<1>5. QED
  BY <1>1, <1>3, <1>4, PTL DEF Spec, MutexSpec, M!Spec

-----------------------------------------------------------------------------
(***************************************************************************)
(* The dispatcher: spinlocks and the interrupt flag, the checks that end   *)
(* in a panic, and the process queues.                                     *)
(*                                                                         *)
(* What the code between two switches does is described by a function L    *)
(* from its places (program counters) to the spinlocks held there, and by  *)
(* the set W of the places at which an environment wakes up inside the     *)
(* sched() of a sleep().  The first part holds for every L and W of this   *)
(* kind; SleepLock is one instance of it.                                  *)
(***************************************************************************)

LockMap(L, W) ==
  /\ {"start", "user", "exited"} \cup W \subseteq DOMAIN L
  /\ \A p \in DOMAIN L : IsFiniteSet(L[p])
  /\ L["start"] = {"qlock"} /\ L["user"] = {} /\ L["exited"] = {"qlock"}
  /\ \A p \in W : L[p] = {"qlock"}
  /\ {"start", "user", "exited"} \cap W = {}

Types(L) == SchedTypeOK /\ pc \in [Envs -> DOMAIN L]

\* ncli counts the spinlocks that are held, and interrupts are off meanwhile.
Counted == /\ IsFiniteSet(held)
           /\ cpu.ncli = Cardinality(held)
           /\ cpu.ien => held = {}

\* The environment on the CPU is the current one and holds the spinlocks of
\* its place; where it was switched to it holds qlock, which the scheduler
\* took.  Elsewhere the first lock it takes remembers that interrupts were on.
OnStack(L, W) ==
  ctl # NoEnv =>
    /\ proc = ctl /\ schedpc = "back" /\ status[ctl] = "RUNNING"
    /\ held = IF ctl \in irq THEN {"qlock"} ELSE L[pc[ctl]]
    /\ ctl \notin irq /\ pc[ctl] \notin {"start"} \cup W =>
         IF held = {} THEN cpu.ien ELSE cpu.intena

\* The scheduler has qlock from its acquire or the switch back to it up to its
\* own release, and who is still current then has left the CPU.
OnScheduler ==
  ctl = NoEnv =>
    /\ held = IF schedpc \in {"pick", "back", "scan"} THEN {"qlock"} ELSE {}
    /\ schedpc = "back" => proc # NoEnv /\ status[proc] # "RUNNING"
    /\ schedpc = "pick" /\ proc # NoEnv => status[proc] = "READY"
    /\ schedpc \in {"sti", "acquire", "scan", "prompt"} => proc = NoEnv

\* An environment without the CPU was preempted where it held no spinlock, or
\* has not started, sleeps or has exited; a sleeper remembers that interrupts
\* were on.
Parked(L, W) ==
  \A e \in Envs :
    /\ e \in irq => L[pc[e]] = {}
    /\ e # ctl /\ e \notin irq => pc[e] \in {"start", "exited"} \cup W
    /\ pc[e] \in W => saved[e]
    /\ pc[e] = "exited" => status[e] = "EXIT"

CpuInv(L, W) == /\ ~panicked
                /\ Counted
                /\ OnStack(L, W)
                /\ OnScheduler
                /\ Parked(L, W)

-----------------------------------------------------------------------------
(* The CPU and the spinlocks *)

\* pushcli() counts one more spinlock.
LEMMA TakeCounts ==
  ASSUME Counted, cpu \in CpuStates, NEW l, l \notin held, NEW i \in BOOLEAN,
         NEW c \in CpuStates,
         c.ien = i, c.ncli = cpu.ncli, c.intena = cpu.intena,
         cpu' = pushcli(c), held' = held \cup {l}
  PROVE  /\ Counted' /\ ~cpu'.ien
         /\ held = {} => cpu'.intena = i /\ cpu'.ncli = 1
         /\ held # {} => cpu'.intena = cpu.intena
<1>1. IsFiniteSet(held') /\ Cardinality(held') = Cardinality(held) + 1
  BY FS_AddElement DEF Counted
<1>2. /\ cpu'.ien = FALSE /\ cpu'.ncli = cpu.ncli + 1
      /\ cpu'.intena = IF cpu.ncli = 0 THEN i ELSE cpu.intena
  BY DEF pushcli, CpuStates
<1>3. cpu.ncli = 0 <=> held = {}
  BY FS_EmptySet DEF Counted
<1>4. QED
  BY <1>1, <1>2, <1>3 DEF Counted

\* popcli() does not panic in a CPU state that counts the locks, and counts
\* one less; only the last release looks at intena.
LEMMA DropCounts ==
  ASSUME Counted, cpu \in CpuStates, NEW l, l \in held,
         NEW c \in CpuStates, c.ien = cpu.ien, c.ncli = cpu.ncli
  PROVE  /\ ~popcliPanics(c)
         /\ IsFiniteSet(held \ {l})
         /\ popcli(c).ncli = Cardinality(held \ {l})
         /\ popcli(c).intena = c.intena
         /\ popcli(c).ien = (held \ {l} = {} /\ c.intena)
<1>1. /\ IsFiniteSet(held \ {l})
      /\ Cardinality(held \ {l}) = Cardinality(held) - 1
      /\ Cardinality(held) \in Nat
  BY FS_RemoveElement, FS_CardinalityType DEF Counted
<1>2. ~cpu.ien /\ cpu.ncli = Cardinality(held)
  BY DEF Counted
<1>3. Cardinality(held) # 0
  BY FS_EmptySet DEF Counted
<1>4. Cardinality(held) = 1 <=> held \ {l} = {}
  BY <1>1, FS_EmptySet
<1>5. ~popcliPanics(c)
  BY <1>2, <1>3 DEF popcliPanics
<1>6. QED
  BY <1>1, <1>2, <1>4, <1>5 DEF popcli, CpuStates

-----------------------------------------------------------------------------
(* Steps of an environment, for any L and W *)

\* A step that takes the spinlock l: it is free, and interrupts stay off.
LEMMA AcquireKeepsCpu ==
  ASSUME NEW L, NEW W, LockMap(L, W), Types(L), CpuInv(L, W), NEW e \in Envs,
         NEW l, NEW from \in DOMAIN L \ ({"start"} \cup W),
         NEW to \in DOMAIN L \ ({"start", "exited"} \cup W),
         l \notin L[from], L[to] = L[from] \cup {l},
         At(e, from), acquire_spinlock(l), Goto(e, to),
         UNCHANGED <<ctl, proc, saved, irq, status, schedpc>>
  PROVE  CpuInv(L, W)'
<1>1. ctl = e /\ e # NoEnv /\ e \notin irq /\ pc[e] = from
  BY EnvsAssumption DEF At
<1>2. held = L[from] /\ (IF held = {} THEN cpu.ien ELSE cpu.intena)
  BY <1>1 DEF CpuInv, OnStack
<1>3. cpu' = pushcli(cpu) /\ held' = held \cup {l} /\ UNCHANGED panicked
  BY <1>2 DEF acquire_spinlock
<1>4. cpu \in CpuStates /\ cpu.ien \in BOOLEAN
  BY DEF Types, SchedTypeOK, CpuStates
<1>5. /\ Counted' /\ ~cpu'.ien
      /\ held = {} => cpu'.intena = cpu.ien
      /\ held # {} => cpu'.intena = cpu.intena
  BY <1>2, <1>3, <1>4, TakeCounts DEF CpuInv
<1>6. pc' = [pc EXCEPT ![e] = to] /\ pc \in [Envs -> DOMAIN L]
  BY DEF Goto, Types
<1>7. OnStack(L, W)'
  BY <1>1, <1>2, <1>3, <1>5, <1>6 DEF CpuInv, OnStack
<1>8. Parked(L, W)'
  BY <1>1, <1>6 DEF CpuInv, Parked
<1>9. QED
  BY <1>1, <1>3, <1>5, <1>7, <1>8 DEF CpuInv, OnScheduler

\* A step that frees the spinlock l: it is held, and interrupts go on again
\* with the last one.
LEMMA ReleaseKeepsCpu ==
  ASSUME NEW L, NEW W, LockMap(L, W), Types(L), CpuInv(L, W), NEW e \in Envs,
         NEW l, NEW from \in DOMAIN L, NEW to \in DOMAIN L \ ({"start", "exited"} \cup W),
         l \in L[from], L[to] = L[from] \ {l},
         NEW c \in CpuStates, c.ien = cpu.ien, c.ncli = cpu.ncli,
         c.intena = IF from \in W THEN saved[e] ELSE cpu.intena,
         At(e, from), Goto(e, to), UNCHANGED <<ctl, proc, saved, irq, status, schedpc>>,
         \/ from # "start" /\ release_spinlock(l, c)
         \/ from = "start" /\ release_and_iret(c)
  PROVE  CpuInv(L, W)'
<1>1. ctl = e /\ e # NoEnv /\ e \notin irq /\ pc[e] = from
  BY EnvsAssumption DEF At
<1>2. held = L[from] /\ (from \notin {"start"} \cup W => cpu.intena)
  BY <1>1 DEF CpuInv, OnStack
<1>3. cpu \in CpuStates
  BY DEF Types, SchedTypeOK
<1>4. from # "start" => c.intena
  BY <1>1, <1>2 DEF CpuInv, Parked
<1>5. /\ ~popcliPanics(c)
      /\ IsFiniteSet(held \ {l})
      /\ popcli(c).ncli = Cardinality(held \ {l})
      /\ popcli(c).intena = c.intena
      /\ popcli(c).ien = (held \ {l} = {} /\ c.intena)
  BY <1>2, <1>3, DropCounts DEF CpuInv
<1>6. /\ held' = held \ {l} /\ UNCHANGED panicked
      /\ cpu'.ncli = Cardinality(held') /\ cpu'.intena = c.intena
      /\ cpu'.ien = (held' = {})
  <2>1. CASE from # "start"
    BY <1>2, <1>4, <1>5, <2>1 DEF release_spinlock
  <2>2. CASE from = "start"
    <3>1. l = "qlock" /\ L[from] = {"qlock"}
      BY <2>2 DEF LockMap
    <3>2. popcli(c) = [ien |-> popcli(c).ien, ncli |-> popcli(c).ncli, intena |-> popcli(c).intena]
      BY DEF popcli
    <3>3. held' = held \ {l} /\ UNCHANGED panicked /\ cpu' = [popcli(c) EXCEPT !.ien = TRUE]
      BY <1>2, <1>5, <2>2, <3>1 DEF release_and_iret
    <3>4. held' = {}
      BY <1>2, <3>1, <3>3
    <3>5. QED
      BY <1>5, <3>2, <3>3, <3>4
  <2>3. QED
    BY <2>1, <2>2
<1>7. pc' = [pc EXCEPT ![e] = to] /\ pc \in [Envs -> DOMAIN L]
  BY DEF Goto, Types
<1>8. held' # {} => c.intena
  <2>1. from = "start" => held' = {}
    BY <1>2, <1>6 DEF LockMap
  <2>2. QED
    BY <1>4, <2>1
<1>9. OnStack(L, W)'
  BY <1>1, <1>2, <1>6, <1>7, <1>8 DEF CpuInv, OnStack
<1>10. Parked(L, W)'
  BY <1>1, <1>7 DEF CpuInv, Parked
<1>11. Counted'
  BY <1>5, <1>6 DEF Counted
<1>12. QED
  BY <1>1, <1>6, <1>9, <1>10, <1>11 DEF CpuInv, OnScheduler

\* A step that leaves the spinlocks and the CPU alone.
LEMMA JumpKeepsCpu ==
  ASSUME NEW L, NEW W, LockMap(L, W), Types(L), CpuInv(L, W), NEW e \in Envs,
         NEW from \in DOMAIN L \ ({"start"} \cup W),
         NEW to \in DOMAIN L \ ({"start", "exited"} \cup W), L[to] = L[from],
         At(e, from), Goto(e, to),
         UNCHANGED <<ctl, proc, cpu, held, saved, irq, status, schedpc, panicked>>
  PROVE  CpuInv(L, W)'
<1>1. ctl = e /\ e # NoEnv /\ e \notin irq /\ pc[e] = from
  BY EnvsAssumption DEF At
<1>2. pc' = [pc EXCEPT ![e] = to] /\ pc \in [Envs -> DOMAIN L]
  BY DEF Goto, Types
<1>3. OnStack(L, W)'
  BY <1>1, <1>2 DEF CpuInv, OnStack
<1>4. Parked(L, W)'
  BY <1>1, <1>2 DEF CpuInv, Parked
<1>5. QED
  BY <1>1, <1>3, <1>4 DEF CpuInv, OnScheduler, Counted

\* A wake-up makes a sleeper READY that is not on the CPU.
LEMMA WakeupKeepsCpu ==
  ASSUME NEW L, NEW W, LockMap(L, W), Types(L), CpuInv(L, W), NEW f \in Envs,
         status[f] = "BLOCKED", status' = [status EXCEPT ![f] = "READY"],
         UNCHANGED <<ctl, proc, cpu, held, saved, irq, pc, schedpc, panicked>>
  PROVE  CpuInv(L, W)'
<1>1. status \in [Envs -> Statuses] /\ proc \in Envs \cup {NoEnv} /\ ctl \in Envs \cup {NoEnv}
  BY DEF Types, SchedTypeOK
<1>2. OnStack(L, W)'
  BY <1>1 DEF CpuInv, OnStack
<1>3. OnScheduler'
  BY <1>1 DEF CpuInv, OnScheduler
<1>4. Parked(L, W)'
  BY <1>1 DEF CpuInv, Parked
<1>5. QED
  BY <1>2, <1>3, <1>4 DEF CpuInv, Counted

\* What sched() checks holds when exactly qlock is held, and it switches to
\* the scheduler.
LEMMA SchedSwitches ==
  ASSUME NEW e \in Envs, NEW st, st # "RUNNING", NEW c, NEW h,
         "qlock" \in h, c.ncli = 1, ~c.ien, sched(e, st, c, h)
  PROVE  /\ saved' = [saved EXCEPT ![e] = c.intena]
         /\ ctl' = NoEnv /\ UNCHANGED panicked
BY DEF sched

\* The last step of sleep() before the switch: the caller holds qlock only.
LEMMA BlockKeepsCpu ==
  ASSUME NEW L, NEW W, LockMap(L, W), Types(L), CpuInv(L, W), NEW e \in Envs,
         NEW from \in DOMAIN L \ ({"start"} \cup W), NEW to \in W, L[from] = {"qlock"},
         At(e, from), Goto(e, to),
         status' = [status EXCEPT ![e] = "BLOCKED"],
         sched(e, "BLOCKED", cpu, held),
         UNCHANGED <<proc, cpu, held, irq, schedpc>>
  PROVE  CpuInv(L, W)' /\ ctl' = NoEnv
<1>1. ctl = e /\ e # NoEnv /\ e \notin irq /\ pc[e] = from
  BY EnvsAssumption DEF At
<1>2. /\ proc = e /\ schedpc = "back" /\ status[e] = "RUNNING"
      /\ held = {"qlock"} /\ cpu.intena
  BY <1>1 DEF CpuInv, OnStack
<1>3. cpu.ncli = 1 /\ ~cpu.ien
  BY <1>2, FS_Singleton DEF CpuInv, Counted
<1>4. saved' = [saved EXCEPT ![e] = cpu.intena] /\ ctl' = NoEnv /\ UNCHANGED panicked
  BY <1>2, <1>3, SchedSwitches
<1>5. /\ pc' = [pc EXCEPT ![e] = to] /\ pc \in [Envs -> DOMAIN L]
      /\ saved \in [Envs -> BOOLEAN] /\ status \in [Envs -> Statuses]
  BY DEF Goto, Types, SchedTypeOK
<1>6. OnScheduler'
  BY <1>1, <1>2, <1>4, <1>5 DEF OnScheduler
<1>7. Parked(L, W)'
  BY <1>1, <1>2, <1>4, <1>5 DEF CpuInv, Parked, LockMap
<1>8. QED
  BY <1>4, <1>6, <1>7 DEF CpuInv, OnStack, Counted

\* A clock interrupt finds no spinlock held.
LEMMA YieldKeepsCpu ==
  ASSUME NEW L, NEW W, LockMap(L, W), Types(L), CpuInv(L, W), NEW e \in Envs,
         yield(e)
  PROVE  /\ CpuInv(L, W)' /\ ctl' = NoEnv
         /\ status' = [status EXCEPT ![e] = "READY"]
         /\ proc = e /\ status[e] = "RUNNING" /\ schedpc = "back" /\ L[pc[e]] = {}
         /\ UNCHANGED <<proc, pc, ready, exitq, schedpc>>
<1> DEFINE gate == [cpu EXCEPT !.ien = FALSE]
<1>1. ctl = e /\ e # NoEnv /\ cpu.ien /\ held = {}
  BY EnvsAssumption DEF yield, CpuInv, Counted
<1>2. /\ cpu \in CpuStates /\ saved \in [Envs -> BOOLEAN] /\ irq \in SUBSET Envs
      /\ status \in [Envs -> Statuses] /\ pc \in [Envs -> DOMAIN L]
  BY DEF Types, SchedTypeOK
<1>3. gate \in CpuStates /\ gate.ien = FALSE /\ gate.ncli = cpu.ncli /\ gate.intena = cpu.intena
  BY <1>2 DEF CpuStates
<1> HIDE DEF gate
<1>4. /\ status' = [status EXCEPT ![e] = "READY"]
      /\ cpu' = pushcli(gate) /\ held' = held \cup {"qlock"} /\ irq' = irq \cup {e}
      /\ sched(e, "READY", pushcli(gate), held \cup {"qlock"})
      /\ UNCHANGED <<proc, ready, exitq, schedpc, pc>>
  BY <1>1 DEF yield, gate
<1>5. Counted' /\ ~cpu'.ien /\ cpu'.ncli = 1
  BY <1>1, <1>2, <1>3, <1>4, TakeCounts DEF CpuInv
<1>6. saved' = [saved EXCEPT ![e] = cpu'.intena] /\ ctl' = NoEnv /\ UNCHANGED panicked
  BY <1>4, <1>5, SchedSwitches
<1>7. proc = e /\ status[e] = "RUNNING" /\ schedpc = "back"
  BY <1>1 DEF CpuInv, OnStack
<1>8. L[pc[e]] = {}
  BY <1>1 DEF CpuInv, OnStack
<1>9. OnScheduler'
  BY <1>1, <1>2, <1>4, <1>6, <1>7 DEF OnScheduler
<1>10. Parked(L, W)'
  BY <1>1, <1>2, <1>4, <1>6, <1>7, <1>8 DEF CpuInv, Parked, LockMap
<1>11. QED
  BY <1>4, <1>5, <1>6, <1>7, <1>8, <1>9, <1>10 DEF CpuInv, OnStack

\* The return from the interrupt gives qlock back and turns interrupts on.
LEMMA YieldReturnKeepsCpu ==
  ASSUME NEW L, NEW W, LockMap(L, W), Types(L), CpuInv(L, W), NEW e \in Envs,
         yield_return(e)
  PROVE  CpuInv(L, W)'
<1>1. ctl = e /\ e # NoEnv /\ e \in irq /\ held = {"qlock"}
  BY EnvsAssumption DEF yield_return, CpuInv, OnStack
<1>2. /\ cpu \in CpuStates /\ saved \in [Envs -> BOOLEAN] /\ pc \in [Envs -> DOMAIN L]
  BY DEF Types, SchedTypeOK
<1>3. Resumed(e) \in CpuStates /\ Resumed(e).ien = cpu.ien /\ Resumed(e).ncli = cpu.ncli
  BY <1>2 DEF Resumed, CpuStates
<1>4. /\ ~popcliPanics(Resumed(e))
      /\ popcli(Resumed(e)).ncli = Cardinality(held \ {"qlock"})
  BY <1>1, <1>2, <1>3, DropCounts DEF CpuInv
<1>5. /\ cpu' = [popcli(Resumed(e)) EXCEPT !.ien = TRUE] /\ held' = {}
      /\ UNCHANGED panicked /\ irq' = irq \ {e}
      /\ UNCHANGED <<ctl, proc, saved, status, pc, schedpc>>
  BY <1>1, <1>4 DEF yield_return, release_and_iret
<1>6. cpu'.ien = TRUE /\ cpu'.ncli = popcli(Resumed(e)).ncli
  BY <1>5 DEF popcli
<1>7. Counted'
  BY <1>1, <1>4, <1>5, <1>6, FS_EmptySet DEF Counted
<1>8. L[pc[e]] = {}
  BY <1>1 DEF CpuInv, Parked
<1>9. OnStack(L, W)'
  BY <1>1, <1>5, <1>6, <1>8 DEF CpuInv, OnStack
<1>10. Parked(L, W)'
  BY <1>1, <1>5 DEF CpuInv, Parked
<1>11. QED
  BY <1>1, <1>5, <1>7, <1>9, <1>10 DEF CpuInv, OnScheduler

\* env_exit() finds no spinlock held.
LEMMA ExitKeepsCpu ==
  ASSUME NEW L, NEW W, LockMap(L, W), Types(L), CpuInv(L, W), NEW e \in Envs,
         env_exit(e)
  PROVE  /\ CpuInv(L, W)' /\ ctl' = NoEnv
         /\ proc = e /\ status[e] = "RUNNING" /\ schedpc = "back"
         /\ status' = [status EXCEPT ![e] = "EXIT"]
         /\ exitq' = Append(exitq, e)
         /\ pc' = [pc EXCEPT ![e] = "exited"]
         /\ UNCHANGED <<proc, ready, schedpc>>
<1>1. ctl = e /\ e # NoEnv /\ e \notin irq /\ pc[e] = "user"
  BY EnvsAssumption DEF env_exit, At
<1>2. held = {} /\ proc = e /\ schedpc = "back" /\ status[e] = "RUNNING"
  BY <1>1 DEF CpuInv, OnStack, LockMap
<1>3. /\ cpu \in CpuStates /\ saved \in [Envs -> BOOLEAN] /\ irq \in SUBSET Envs
      /\ status \in [Envs -> Statuses] /\ pc \in [Envs -> DOMAIN L]
      /\ cpu.ien \in BOOLEAN
  BY DEF Types, SchedTypeOK, CpuStates
<1>4. /\ status' = [status EXCEPT ![e] = "EXIT"] /\ exitq' = Append(exitq, e)
      /\ cpu' = pushcli(cpu) /\ held' = held \cup {"qlock"}
      /\ sched(e, "EXIT", pushcli(cpu), held \cup {"qlock"})
      /\ UNCHANGED <<proc, ready, irq, schedpc>>
      /\ pc' = [pc EXCEPT ![e] = "exited"]
  BY <1>2 DEF env_exit, Goto
<1>5. Counted' /\ ~cpu'.ien /\ cpu'.ncli = 1
  BY <1>2, <1>3, <1>4, TakeCounts DEF CpuInv
<1>6. saved' = [saved EXCEPT ![e] = cpu'.intena] /\ ctl' = NoEnv /\ UNCHANGED panicked
  BY <1>4, <1>5 DEF sched
<1>7. OnScheduler'
  BY <1>1, <1>2, <1>3, <1>4, <1>6 DEF OnScheduler
<1>8. Parked(L, W)'
  BY <1>1, <1>3, <1>4, <1>6 DEF CpuInv, Parked, LockMap
<1>9. QED
  BY <1>2, <1>4, <1>5, <1>6, <1>7, <1>8 DEF CpuInv, OnStack

-----------------------------------------------------------------------------
(* The process queues *)

\* Where e is when it has k links in channels: the conjuncts are those of
\* QueuesAgreeWithStatus.  At a place of A it is already in a channel and has
\* not left the CPU yet.
Placed(e, k, A) ==
  /\ status[e] = "RUNNING" =>
       /\ proc = e /\ Count(ready, e) = 0 /\ Count(exitq, e) = 0
       /\ k = IF pc[e] \in A THEN 1 ELSE 0
  /\ status[e] = "READY" =>
       /\ Count(ready, e) + (IF proc = e THEN 1 ELSE 0) = 1
       /\ k = 0 /\ Count(exitq, e) = 0
  /\ status[e] = "BLOCKED" =>
       /\ k = 1 /\ Count(ready, e) = 0 /\ Count(exitq, e) = 0
       /\ proc = e => schedpc = "back"
  /\ status[e] = "EXIT" =>
       /\ Count(exitq, e) = 1 /\ Count(ready, e) = 0 /\ k = 0
       /\ proc = e => schedpc = "back"

\* fos_scheduler() looks for BLOCKED environments when none is ready, and
\* returns to the prompt when all have exited.
Idle == /\ schedpc = "scan" => ready = <<>>
        /\ schedpc = "prompt" => \A e \in Envs : status[e] = "EXIT"

\* The places of A are between the enqueue and the switch: qlock is held there.
Enqueued(L, W, A) ==
  /\ A \subseteq DOMAIN L \ ({"start", "exited"} \cup W)
  /\ \A p \in A : L[p] # {}

\* Without the CPU nobody is at such a place.
LEMMA EnqueuedIsOnCpu ==
  ASSUME NEW L, NEW W, NEW A, Enqueued(L, W, A), CpuInv(L, W),
         NEW e \in Envs, pc[e] \in A
  PROVE  ctl = e /\ proc = e /\ status[e] = "RUNNING"
<1>1. ctl = e
  BY DEF Enqueued, CpuInv, Parked
<1>2. QED
  BY <1>1, EnvsAssumption DEF CpuInv, OnStack

\* The environment that fos_scheduler_RR() picks is READY.
LEMMA PickedIsReady ==
  ASSUME NEW L, NEW W, Types(L), CpuInv(L, W), NEW A,
         \A e \in Envs : \E k : Placed(e, k, A),
         SchedAt("pick"), fos_scheduler_RR # <<>>
  PROVE  /\ fos_scheduler_RR \in Seq(Envs)
         /\ Head(fos_scheduler_RR) \in Envs
         /\ status[Head(fos_scheduler_RR)] = "READY"
<1>1. /\ ready \in Seq(Envs) /\ proc \in Envs \cup {NoEnv}
      /\ exitq \in Seq(Envs) /\ status \in [Envs -> Statuses]
  BY DEF Types, SchedTypeOK
<1>2. proc # NoEnv => status[proc] = "READY"
  BY DEF SchedAt, CpuInv, OnScheduler
<1>3. CASE ready = <<>>
  <2>1. proc \in Envs /\ fos_scheduler_RR = <<proc>>
    BY <1>1, <1>3 DEF fos_scheduler_RR
  <2>2. Head(fos_scheduler_RR) = proc /\ fos_scheduler_RR \in Seq(Envs)
    BY <2>1
  <2>3. QED
    BY <1>2, <2>1, <2>2, EnvsAssumption
<1>4. CASE ready # <<>>
  <2>1. /\ fos_scheduler_RR \in Seq(Envs)
        /\ Head(fos_scheduler_RR) = ready[1] /\ ready[1] \in Envs /\ 1 \in DOMAIN ready
    BY <1>1, <1>4 DEF fos_scheduler_RR
  <2>2. Count(ready, ready[1]) # 0
    BY <1>1, <2>1, CountType
  <2>3. PICK k : Placed(ready[1], k, A)
    BY <2>1
  <2>4. status[ready[1]] = "READY"
    BY <1>1, <2>1, <2>2, <2>3 DEF Placed, Statuses
  <2>5. QED
    BY <2>1, <2>4
<1>5. QED
  BY <1>3, <1>4

\* The scheduler's steps keep the CPU in order: its qlock is free when it
\* asks for it and its own when it frees it, and whom it switches to has left
\* the CPU inside sched() or not yet started.
LEMMA SchedulerKeepsCpu ==
  ASSUME NEW L, NEW W, LockMap(L, W), Types(L), CpuInv(L, W), NEW A,
         \A e \in Envs : \E k : Placed(e, k, A), fos_scheduler
  PROVE  CpuInv(L, W)'
<1>0. cpu \in CpuStates /\ cpu.ien \in BOOLEAN /\ status \in [Envs -> Statuses]
      /\ proc \in Envs \cup {NoEnv}
  BY DEF Types, SchedTypeOK, CpuStates
<1>1. ctl = NoEnv
  BY DEF fos_scheduler, sched_sti, sched_acquire, sched_switch, sched_none,
         sched_back, sched_scan, SchedAt
<1>2. CASE sched_sti
  <2>1. held = {} /\ proc = NoEnv
    BY <1>1, <1>2 DEF sched_sti, SchedAt, CpuInv, OnScheduler
  <2>2. cpu'.ien = TRUE /\ cpu'.ncli = cpu.ncli
    BY <1>0, <1>2 DEF sched_sti, CpuStates
  <2>3. Counted'
    BY <1>2, <2>1, <2>2 DEF CpuInv, Counted, sched_sti
  <2>4. QED
    BY <1>1, <1>2, <2>1, <2>3 DEF sched_sti, CpuInv, OnStack, OnScheduler, Parked
<1>3. CASE sched_acquire
  <2>1. held = {} /\ proc = NoEnv
    BY <1>1, <1>3 DEF sched_acquire, SchedAt, CpuInv, OnScheduler
  <2>2. cpu' = pushcli(cpu) /\ held' = held \cup {"qlock"} /\ UNCHANGED panicked
    BY <1>3, <2>1 DEF sched_acquire, acquire_spinlock
  <2>3. Counted'
    BY <1>0, <2>1, <2>2, TakeCounts DEF CpuInv
  <2>4. QED
    BY <1>1, <1>3, <2>1, <2>2, <2>3
       DEF sched_acquire, CpuInv, OnStack, OnScheduler, Parked
<1>4. CASE sched_switch
  <2> DEFINE next == Head(fos_scheduler_RR)
  <2>1. next \in Envs /\ status[next] = "READY"
    BY <1>4, PickedIsReady DEF sched_switch
  <2>2. /\ proc' = next /\ ctl' = next /\ status' = [status EXCEPT ![next] = "RUNNING"]
        /\ schedpc = "pick" /\ schedpc' = "back"
        /\ UNCHANGED <<cpu, held, saved, irq, pc, panicked>>
    BY <1>4 DEF sched_switch, SchedAt
  <2> HIDE DEF next
  <2>3. held = {"qlock"}
    BY <1>1, <2>2 DEF CpuInv, OnScheduler
  <2>4. pc[next] # "exited" /\ next # NoEnv
    BY <2>1, EnvsAssumption DEF CpuInv, Parked
  <2>5. next \notin irq => pc[next] \in {"start"} \cup W
    BY <1>1, <2>1, <2>4 DEF CpuInv, Parked
  <2>6. OnStack(L, W)'
    BY <1>0, <2>1, <2>2, <2>3, <2>5 DEF OnStack, LockMap
  <2>7. Parked(L, W)'
    BY <1>0, <1>1, <2>1, <2>2, <2>4, EnvsAssumption DEF CpuInv, Parked
  <2>8. QED
    BY <2>2, <2>4, <2>6, <2>7 DEF CpuInv, Counted, OnScheduler
<1>5. CASE sched_none
  <2>1. proc = NoEnv
    <3>1. ready \in Seq(Envs)
      BY <1>0 DEF Types, SchedTypeOK
    <3>2. Append(ready, proc) # <<>>
      BY <3>1
    <3>3. QED
      BY <1>5, <3>2 DEF sched_none, fos_scheduler_RR
  <2>2. QED
    BY <1>1, <1>5, <2>1
       DEF sched_none, SchedAt, CpuInv, Counted, OnStack, OnScheduler, Parked
<1>6. CASE sched_back
  <2>1. proc # NoEnv /\ status[proc] # "RUNNING" /\ held = {"qlock"}
    BY <1>1, <1>6 DEF sched_back, SchedAt, CpuInv, OnScheduler
  <2>2. ~cpu.ien
    BY <2>1 DEF CpuInv, Counted
  <2>3. proc' = (IF status[proc] = "READY" THEN proc ELSE NoEnv) /\ UNCHANGED panicked
    BY <1>6, <2>1, <2>2 DEF sched_back
  <2>4. QED
    BY <1>1, <1>6, <2>1, <2>3
       DEF sched_back, CpuInv, Counted, OnStack, OnScheduler, Parked
<1>7. CASE sched_scan
  <2>1. held = {"qlock"} /\ proc = NoEnv
    BY <1>1, <1>7 DEF sched_scan, SchedAt, CpuInv, OnScheduler
  <2>2. /\ ~popcliPanics(cpu) /\ IsFiniteSet(held \ {"qlock"})
        /\ popcli(cpu).ncli = Cardinality(held \ {"qlock"})
    BY <1>0, <2>1, DropCounts DEF CpuInv
  <2>3. cpu' = popcli(cpu) /\ held' = {} /\ UNCHANGED panicked
    BY <1>7, <2>1, <2>2 DEF sched_scan, release_spinlock
  <2>4. Counted'
    BY <2>1, <2>2, <2>3 DEF Counted
  <2>5. QED
    BY <1>1, <1>7, <2>1, <2>3, <2>4
       DEF sched_scan, CpuInv, OnStack, OnScheduler, Parked
<1>8. QED
  BY <1>2, <1>3, <1>4, <1>5, <1>6, <1>7 DEF fos_scheduler

\* The scheduler's steps keep everybody in place: who yielded goes from the
\* CPU to the ready queue, and who is picked the other way.
LEMMA SchedulerKeepsPlaced ==
  ASSUME NEW L, NEW W, Types(L), CpuInv(L, W), NEW A, Enqueued(L, W, A),
         \A e \in Envs : \E k : Placed(e, k, A), fos_scheduler,
         NEW f \in Envs, NEW k, Placed(f, k, A)
  PROVE  Placed(f, k, A)'
<1>1. /\ ready \in Seq(Envs) /\ exitq \in Seq(Envs) /\ proc \in Envs \cup {NoEnv}
      /\ status \in [Envs -> Statuses]
  BY DEF Types, SchedTypeOK
<1>2. Count(ready, f) \in Nat /\ Count(exitq, f) \in Nat
  BY <1>1, CountType
<1>3. ctl = NoEnv /\ UNCHANGED <<exitq, pc>>
  BY DEF fos_scheduler, sched_sti, sched_acquire, sched_switch, sched_none,
         sched_back, sched_scan, SchedAt
<1>4. f # NoEnv
  BY EnvsAssumption
<1>5. CASE sched_sti \/ sched_acquire \/ sched_none \/ sched_scan
  <2>1. UNCHANGED <<proc, status, ready, exitq, pc>> /\ schedpc # "back"
    BY <1>5 DEF sched_sti, sched_acquire, sched_none, sched_scan, SchedAt
  <2>2. QED
    BY <2>1 DEF Placed
<1>6. CASE sched_switch
  <2> DEFINE next == Head(fos_scheduler_RR)
  <2>1. /\ fos_scheduler_RR \in Seq(Envs) /\ fos_scheduler_RR # <<>>
        /\ next \in Envs /\ status[next] = "READY"
    BY <1>6, PickedIsReady DEF sched_switch
  <2>2. /\ proc' = next /\ status' = [status EXCEPT ![next] = "RUNNING"]
        /\ ready' = Tail(fos_scheduler_RR)
        /\ schedpc = "pick" /\ schedpc' = "back"
    BY <1>6 DEF sched_switch, SchedAt
  <2>3. Count(fos_scheduler_RR, f) = Count(ready, f) + (IF proc = f THEN 1 ELSE 0)
    BY <1>1, <1>2, <1>4, CountAppend DEF fos_scheduler_RR
  <2>4. Count(ready', f) = Count(fos_scheduler_RR, f) - (IF next = f THEN 1 ELSE 0)
    BY <2>1, <2>2, CountTail
  <2> HIDE DEF next
  <2>5. Count(ready', f) = Count(ready, f) + (IF proc = f THEN 1 ELSE 0)
                           - (IF next = f THEN 1 ELSE 0)
    BY <1>2, <2>3, <2>4
  <2>6. pc[f] \notin A
    BY <1>3, <1>4, EnqueuedIsOnCpu
  <2>7. proc = f => status[f] = "READY"
    BY <1>3, <1>4, <2>2 DEF CpuInv, OnScheduler
  <2>8. CASE f = next
    <3>1. Count(ready', f) = 0 /\ k = 0 /\ Count(exitq, f) = 0
      BY <1>2, <2>1, <2>5, <2>8 DEF Placed
    <3>2. QED
      BY <1>1, <1>3, <2>1, <2>2, <2>6, <2>8, <3>1 DEF Placed
  <2>9. CASE f # next
    <3>1. status'[f] = status[f] /\ proc' # f
      BY <1>1, <2>1, <2>2, <2>9
    <3>2. Count(ready', f) = Count(ready, f) + (IF proc = f THEN 1 ELSE 0)
      BY <1>2, <2>5, <2>9
    <3>3. status[f] # "RUNNING"
      BY <2>7 DEF Placed
    <3>4. QED
      BY <1>2, <1>3, <2>7, <3>1, <3>2, <3>3 DEF Placed
  <2>10. QED
    BY <2>8, <2>9
<1>7. CASE sched_back
  <2>1. proc # NoEnv /\ status[proc] # "RUNNING" /\ schedpc = "back" /\ schedpc' = "pick"
    BY <1>3, <1>7 DEF sched_back, SchedAt, CpuInv, OnScheduler
  <2>2. UNCHANGED <<status, ready>> /\ (proc' = proc \/ proc' = NoEnv)
    BY <1>7 DEF sched_back
  <2>3. proc' = IF status[proc] = "READY" THEN proc ELSE NoEnv
    <3>1. ~cpu.ien
      BY <1>3, <2>1 DEF CpuInv, OnScheduler, Counted
    <3>2. QED
      BY <1>7, <2>1, <3>1 DEF sched_back
  <2>4. QED
    BY <1>3, <1>4, <2>1, <2>2, <2>3 DEF Placed
<1>8. QED
  BY <1>5, <1>6, <1>7 DEF fos_scheduler

\* The scheduler returns to the prompt only when nobody is ready, current or
\* BLOCKED.
LEMMA SchedulerKeepsIdle ==
  ASSUME NEW L, NEW W, Types(L), CpuInv(L, W), NEW A,
         \A e \in Envs : \E k : Placed(e, k, A), Idle, fos_scheduler
  PROVE  Idle'
<1>1. ctl = NoEnv /\ schedpc # "prompt"
  BY DEF fos_scheduler, sched_sti, sched_acquire, sched_switch, sched_none,
         sched_back, sched_scan, SchedAt
<1>2. CASE sched_sti \/ sched_acquire \/ sched_switch \/ sched_back
  BY <1>2 DEF sched_sti, sched_acquire, sched_switch, sched_back, Idle
<1>3. CASE sched_none
  BY <1>3 DEF sched_none, fos_scheduler_RR, Idle, Types, SchedTypeOK
<1>4. CASE sched_scan
  <2>1. /\ ready = <<>> /\ proc = NoEnv /\ UNCHANGED <<status, ready>>
        /\ schedpc' = IF \E e \in Envs : status[e] = "BLOCKED" THEN "sti" ELSE "prompt"
    BY <1>1, <1>4 DEF sched_scan, SchedAt, Idle, CpuInv, OnScheduler
  <2>2. ASSUME NEW e \in Envs, status[e] # "BLOCKED"
        PROVE  status[e] = "EXIT"
    <3>1. PICK k : Placed(e, k, A)
      OBVIOUS
    <3>2. Count(ready, e) = 0 /\ proc # e
      BY <2>1, CountEmpty, EnvsAssumption
    <3>3. status[e] # "READY" /\ status[e] # "RUNNING"
      BY <3>1, <3>2 DEF Placed
    <3>4. QED
      BY <2>2, <3>3 DEF Types, SchedTypeOK, Statuses
  <2>3. QED
    BY <2>1, <2>2 DEF Idle
<1>5. QED
  BY <1>2, <1>3, <1>4 DEF fos_scheduler

\* A step of e that leaves the queues alone.
LEMMA QuietKeepsPlaced ==
  ASSUME NEW L, Types(L), NEW A, NEW e \in Envs, NEW to, pc' = [pc EXCEPT ![e] = to],
         to \in A <=> pc[e] \in A, UNCHANGED <<proc, status, ready, exitq, schedpc>>,
         NEW f \in Envs, NEW k, Placed(f, k, A)
  PROVE  Placed(f, k, A)'
<1>1. pc'[f] \in A <=> pc[f] \in A
  BY DEF Types
<1>2. QED
  BY <1>1 DEF Placed

\* The enqueue of sleep() adds a link of e.
LEMMA EnqueueKeepsPlaced ==
  ASSUME NEW L, Types(L), NEW A, NEW e \in Envs, NEW to \in A, pc' = [pc EXCEPT ![e] = to],
         pc[e] \notin A, status[e] = "RUNNING",
         UNCHANGED <<proc, status, ready, exitq, schedpc>>,
         NEW f \in Envs, NEW k \in Nat, Placed(f, k, A), NEW m,
         m = k + IF e = f THEN 1 ELSE 0
  PROVE  Placed(f, m, A)'
BY DEF Types, Placed

\* sched() of a sleeper.
LEMMA BlockKeepsPlaced ==
  ASSUME NEW L, NEW W, Types(L), NEW A, Enqueued(L, W, A), NEW e \in Envs,
         NEW to \in W, pc' = [pc EXCEPT ![e] = to],
         pc[e] \in A, status[e] = "RUNNING", schedpc = "back",
         status' = [status EXCEPT ![e] = "BLOCKED"],
         UNCHANGED <<proc, ready, exitq, schedpc>>,
         NEW f \in Envs, NEW k, Placed(f, k, A)
  PROVE  Placed(f, k, A)'
<1>1. status \in [Envs -> Statuses] /\ pc \in [Envs -> DOMAIN L]
  BY DEF Types, SchedTypeOK
<1>2. CASE f = e
  BY <1>1, <1>2 DEF Placed
<1>3. CASE f # e
  <2>1. status'[f] = status[f] /\ pc'[f] = pc[f]
    BY <1>1, <1>3
  <2>2. QED
    BY <2>1 DEF Placed
<1>4. QED
  BY <1>2, <1>3

\* A wake-up moves a link of g from its channel to the ready queue.
LEMMA WakeupKeepsPlaced ==
  ASSUME NEW L, Types(L), NEW A, NEW g \in Envs, status[g] = "BLOCKED",
         status' = [status EXCEPT ![g] = "READY"], ready' = Append(ready, g),
         proc # g, UNCHANGED <<proc, exitq, schedpc, pc>>,
         NEW f \in Envs, NEW k \in Nat, Placed(f, k, A), NEW m,
         m = k - IF g = f THEN 1 ELSE 0
  PROVE  Placed(f, m, A)'
<1>1. status \in [Envs -> Statuses] /\ ready \in Seq(Envs)
  BY DEF Types, SchedTypeOK
<1>2. Count(ready', f) = Count(ready, f) + (IF g = f THEN 1 ELSE 0) /\ Count(ready, f) \in Nat
  BY <1>1, CountAppend, CountType
<1>3. CASE f = g
  BY <1>1, <1>2, <1>3 DEF Placed
<1>4. CASE f # g
  <2>1. status'[f] = status[f] /\ Count(ready', f) = Count(ready, f) /\ m = k
    BY <1>1, <1>2, <1>4
  <2>2. QED
    BY <2>1 DEF Placed
<1>5. QED
  BY <1>3, <1>4

\* The clock interrupt leaves the environment current ...
LEMMA YieldKeepsPlaced ==
  ASSUME NEW L, Types(L), NEW A, NEW e \in Envs,
         status' = [status EXCEPT ![e] = "READY"], status[e] = "RUNNING",
         pc[e] \notin A, UNCHANGED <<proc, ready, exitq, schedpc, pc>>,
         NEW f \in Envs, NEW k, Placed(f, k, A)
  PROVE  Placed(f, k, A)'
<1>1. status \in [Envs -> Statuses]
  BY DEF Types, SchedTypeOK
<1>2. CASE f = e
  BY <1>1, <1>2 DEF Placed
<1>3. CASE f # e
  BY <1>1, <1>3 DEF Placed
<1>4. QED
  BY <1>2, <1>3

\* ... and env_exit() links it into the EXIT queue.
LEMMA ExitKeepsPlaced ==
  ASSUME NEW L, Types(L), NEW A, NEW e \in Envs,
         status' = [status EXCEPT ![e] = "EXIT"], exitq' = Append(exitq, e),
         status[e] = "RUNNING", schedpc = "back", pc[e] \notin A,
         pc' = [pc EXCEPT ![e] = "exited"],
         UNCHANGED <<proc, ready, schedpc>>,
         NEW f \in Envs, NEW k, Placed(f, k, A)
  PROVE  Placed(f, k, A)'
<1>1. status \in [Envs -> Statuses] /\ exitq \in Seq(Envs) /\ pc \in [Envs -> DOMAIN L]
  BY DEF Types, SchedTypeOK
<1>2. Count(exitq', f) = Count(exitq, f) + (IF e = f THEN 1 ELSE 0) /\ Count(exitq, f) \in Nat
  BY <1>1, CountAppend, CountType
<1>3. CASE f = e
  BY <1>1, <1>2, <1>3 DEF Placed
<1>4. CASE f # e
  <2>1. status'[f] = status[f] /\ pc'[f] = pc[f] /\ Count(exitq', f) = Count(exitq, f)
    BY <1>1, <1>2, <1>4
  <2>2. QED
    BY <2>1 DEF Placed
<1>5. QED
  BY <1>3, <1>4

-----------------------------------------------------------------------------
(* The code of the sleep lock, alone or within other code *)

HoldsQlock == {"start", "exited", "s_wake", "s_enqueue", "s_release", "s_block",
               "w_loop", "w_done"}

\* L, W and A describe code that contains that of SleepLock.
HasSleepLock(L, W, A) ==
  /\ LockMap(L, W) /\ Enqueued(L, W, A)
  /\ LockPcs \subseteq DOMAIN L
  /\ \A p \in LockPcs :
       /\ L[p] = (IF p \in HoldsGuard THEN {"guard"} ELSE {})
                 \cup (IF p \in HoldsQlock THEN {"qlock"} ELSE {})
       /\ p \in W <=> p = "s_wake"
       /\ p \in A <=> p \in {"s_release", "s_block"}

\* The steps that take a spinlock, with the place before and after.
Acquires(from, l, to) ==
  /\ from \in LockPcs /\ to \in LockPcs
  /\ from \notin {"start", "s_wake"} /\ to \notin {"start", "exited", "s_wake"}
  /\ from \notin {"s_release", "s_block"} /\ to \notin {"s_release", "s_block"}
  /\ \/ /\ l = "guard" /\ from \notin HoldsGuard /\ to \in HoldsGuard
        /\ from \in HoldsQlock <=> to \in HoldsQlock
     \/ /\ l = "qlock" /\ from \notin HoldsQlock /\ to \in HoldsQlock
        /\ from \in HoldsGuard <=> to \in HoldsGuard

\* The steps that free one.
Releases(from, l, to) ==
  /\ from \in LockPcs /\ to \in LockPcs
  /\ from # "start" /\ to \notin {"start", "exited", "s_wake"}
  /\ from \in {"s_release", "s_block"} <=> to \in {"s_release", "s_block"}
  /\ \/ /\ l = "guard" /\ from \in HoldsGuard /\ to \notin HoldsGuard
        /\ from \in HoldsQlock <=> to \in HoldsQlock
     \/ /\ l = "qlock" /\ from \in HoldsQlock /\ to \notin HoldsQlock
        /\ from \in HoldsGuard <=> to \in HoldsGuard

\* Which steps of SleepLock take and free a spinlock.
LEMMA SpinlockSteps ==
  ASSUME NEW e \in Envs
  PROVE  /\ ( \/ acquire_holding(e) \/ acquire_guard(e) \/ sleep_qlock(e) \/ sleep_guard(e)
              \/ release_holding(e) \/ release_guard(e) \/ wakeup_all_qlock(e) )
            => \E from, l, to : Acquires(from, l, to) /\ AcquireStep(e, from, l, to)
         /\ ( \/ acquire_test(e) \/ acquire_done(e) \/ sleep_release(e)
              \/ release_test(e) \/ release_done(e) \/ wakeup_all_release(e) )
            => \E from, l, to : /\ Releases(from, l, to) /\ from # "s_wake"
                                /\ ReleaseStep(e, from, l, to)
<1> USE DEF LockPcs, HoldsGuard, HoldsQlock
<1>1. Acquires("a_holding", "guard", "a_test")
  BY DEF Acquires
<1>2. Acquires("a_guard", "guard", "a_while")
  BY DEF Acquires
<1>3. Acquires("s_qlock", "qlock", "s_enqueue")
  BY DEF Acquires
<1>4. Acquires("s_guard", "guard", "a_while")
  BY DEF Acquires
<1>5. Acquires("r_holding", "guard", "r_test")
  BY DEF Acquires
<1>6. Acquires("r_guard", "guard", "w_qlock")
  BY DEF Acquires
<1>7. Acquires("w_qlock", "qlock", "w_loop")
  BY DEF Acquires
<1>8. ( \/ acquire_holding(e) \/ acquire_guard(e) \/ sleep_qlock(e) \/ sleep_guard(e)
        \/ release_holding(e) \/ release_guard(e) \/ wakeup_all_qlock(e) )
      => \E from, l, to : Acquires(from, l, to) /\ AcquireStep(e, from, l, to)
  BY <1>1, <1>2, <1>3, <1>4, <1>5, <1>6, <1>7
     DEF acquire_holding, acquire_guard, sleep_qlock, sleep_guard,
         release_holding, release_guard, wakeup_all_qlock
<1>9. Releases("a_test", "guard", "cs")
  BY DEF Releases
<1>10. Releases("a_test", "guard", "a_guard")
  BY DEF Releases
<1>11. Releases("a_done", "guard", "cs")
  BY DEF Releases
<1>12. Releases("s_release", "guard", "s_block")
  BY DEF Releases
<1>13. Releases("r_test", "guard", "r_guard")
  BY DEF Releases
<1>14. Releases("r_test", "guard", "user")
  BY DEF Releases
<1>15. Releases("r_done", "guard", "user")
  BY DEF Releases
<1>16. Releases("w_done", "qlock", "r_clear")
  BY DEF Releases
<1>17. ( \/ acquire_test(e) \/ acquire_done(e) \/ sleep_release(e)
         \/ release_test(e) \/ release_done(e) \/ wakeup_all_release(e) )
       => \E from, l, to : /\ Releases(from, l, to) /\ from # "s_wake"
                           /\ ReleaseStep(e, from, l, to)
  BY <1>9, <1>10, <1>11, <1>12, <1>13, <1>14, <1>15, <1>16
     DEF acquire_test, acquire_done, sleep_release, release_test, release_done,
         wakeup_all_release
<1>18. QED
  BY <1>8, <1>17

\* Steps that take or free a spinlock keep the CPU and the queues in order.
LEMMA SpinlockStepKeeps ==
  ASSUME NEW L, NEW W, NEW A, HasSleepLock(L, W, A), Types(L), CpuInv(L, W),
         NEW e \in Envs, NEW from, NEW l, NEW to,
         \/ Acquires(from, l, to) /\ AcquireStep(e, from, l, to)
         \/ Releases(from, l, to) /\ from # "s_wake" /\ ReleaseStep(e, from, l, to)
  PROVE  /\ CpuInv(L, W)' /\ UNCHANGED chan
         /\ \A f \in Envs : \A k : Placed(f, k, A) => Placed(f, k, A)'
<1>1. /\ pc[e] = from /\ At(e, from) /\ Goto(e, to) /\ pc' = [pc EXCEPT ![e] = to]
      /\ UNCHANGED <<ctl, proc, saved, irq, status, ready, exitq, schedpc, chan>>
  BY DEF AcquireStep, ReleaseStep, At, Goto, lockVars
<1>2. from \in LockPcs /\ to \in LockPcs /\ (to \in A <=> from \in A)
  BY DEF Acquires, Releases, HasSleepLock
<1>3. \A f \in Envs : \A k : Placed(f, k, A) => Placed(f, k, A)'
  BY <1>1, <1>2, QuietKeepsPlaced
<1>4. LockMap(L, W) /\ LockPcs \subseteq DOMAIN L
  BY DEF HasSleepLock
<1>5. to \in DOMAIN L \ ({"start", "exited"} \cup W) /\ from # "start" /\ from \notin W
  BY <1>2, <1>4 DEF HasSleepLock, Acquires, Releases
<1>6. CASE Acquires(from, l, to) /\ AcquireStep(e, from, l, to)
  <2>1. l \notin L[from] /\ L[to] = L[from] \cup {l}
    BY <1>2, <1>6 DEF HasSleepLock, Acquires
  <2>2. CpuInv(L, W)'
    BY <1>1, <1>2, <1>4, <1>5, <1>6, <2>1, AcquireKeepsCpu DEF AcquireStep
  <2>3. QED
    BY <1>1, <1>3, <2>2
<1>7. CASE Releases(from, l, to) /\ ReleaseStep(e, from, l, to)
  <2>1. l \in L[from] /\ L[to] = L[from] \ {l}
    BY <1>2, <1>7 DEF HasSleepLock, Releases
  <2>2. release_spinlock(l, cpu) /\ cpu \in CpuStates
    BY <1>7 DEF ReleaseStep, Types, SchedTypeOK
  <2>3. CpuInv(L, W)'
    BY <1>1, <1>2, <1>4, <1>5, <2>1, <2>2, ReleaseKeepsCpu
  <2>4. QED
    BY <1>1, <1>3, <2>3
<1>8. QED
  BY <1>6, <1>7

\* Steps that only move on, or write the fields of the sleep lock.
LEMMA JumpKeeps ==
  ASSUME NEW L, NEW W, NEW A, HasSleepLock(L, W, A), Types(L), CpuInv(L, W),
         NEW e \in Envs,
         \/ call_acquire(e) \/ call_release(e) \/ acquire_while(e) \/ acquire_take(e)
         \/ release_clear(e) \/ wakeup_all_end(e)
  PROVE  /\ CpuInv(L, W)' /\ UNCHANGED chan
         /\ \A f \in Envs : \A k : Placed(f, k, A) => Placed(f, k, A)'
<1>1. PICK from \in LockPcs, to \in LockPcs :
        /\ At(e, from) /\ Goto(e, to)
        /\ from \notin {"start", "s_wake"} /\ to \notin {"start", "exited", "s_wake"}
        /\ from \notin {"s_release", "s_block"} /\ to \notin {"s_release", "s_block"}
        /\ from \in HoldsGuard <=> to \in HoldsGuard
        /\ from \in HoldsQlock <=> to \in HoldsQlock
  <2> USE DEF LockPcs, HoldsGuard, HoldsQlock
  <2>1. CASE call_acquire(e)
    <3>1. CASE At(e, "user")
      BY <2>1, <3>1 DEF call_acquire
    <3>2. CASE At(e, "cs")
      BY <2>1, <3>2 DEF call_acquire
    <3>3. QED
      BY <2>1, <3>1, <3>2 DEF call_acquire
  <2>2. CASE call_release(e)
    <3>1. CASE At(e, "user")
      BY <2>2, <3>1 DEF call_release
    <3>2. CASE At(e, "cs")
      BY <2>2, <3>2 DEF call_release
    <3>3. QED
      BY <2>2, <3>1, <3>2 DEF call_release
  <2>3. CASE acquire_while(e)
    BY <2>3 DEF acquire_while, Jump
  <2>4. CASE acquire_take(e)
    BY <2>4 DEF acquire_take
  <2>5. CASE release_clear(e)
    BY <2>5 DEF release_clear
  <2>6. CASE wakeup_all_end(e)
    BY <2>6 DEF wakeup_all_end, Jump
  <2>7. QED
    BY <2>1, <2>2, <2>3, <2>4, <2>5, <2>6
<1>2. UNCHANGED <<ctl, proc, cpu, held, saved, irq, status, ready, exitq, schedpc,
                  panicked, chan>>
  BY DEF call_acquire, call_release, acquire_while, acquire_take, release_clear,
         wakeup_all_end, Jump, lockVars
<1>3. /\ from \in DOMAIN L \ ({"start"} \cup W) /\ L[to] = L[from]
      /\ to \in DOMAIN L \ ({"start", "exited"} \cup W) /\ (to \in A <=> from \in A)
      /\ LockMap(L, W)
  BY <1>1 DEF HasSleepLock
<1>4. CpuInv(L, W)'
  BY <1>1, <1>2, <1>3, JumpKeepsCpu
<1>5. \A f \in Envs : \A k : Placed(f, k, A) => Placed(f, k, A)'
  BY <1>1, <1>2, <1>3, QuietKeepsPlaced DEF At, Goto
<1>6. QED
  BY <1>2, <1>4, <1>5

\* Everybody is in place; k counts the links of e in other channels.
AllPlaced(A) == \A e \in Envs : \E k \in Nat : Placed(e, k + Count(chan, e), A)

\* What a step does to the places of all.
KeepsPlaces(A) ==
  \A f \in Envs : \A k \in Nat :
    Placed(f, k + Count(chan, f), A) => Placed(f, k + Count(chan, f), A)'

\* A step that leaves the channel alone.
LEMMA SameChannel ==
  ASSUME NEW A, UNCHANGED chan,
         \A f \in Envs : \A k : Placed(f, k, A) => Placed(f, k, A)'
  PROVE  KeepsPlaces(A)
<1> SUFFICES ASSUME NEW f \in Envs, NEW k \in Nat, Placed(f, k + Count(chan, f), A)
             PROVE  Placed(f, k + Count(chan, f), A)'
  BY DEF KeepsPlaces
<1>1. PICK m : m = k + Count(chan, f) /\ m = (k + Count(chan, f))'
  OBVIOUS
<1>2. Placed(f, m, A)'
  BY <1>1
<1>3. QED
  BY <1>1, <1>2 DEF Placed

\* sleep(): the enqueue, the switch and the wake-up in sched().
LEMMA SleepKeeps ==
  ASSUME NEW L, NEW W, NEW A, HasSleepLock(L, W, A), Types(L), CpuInv(L, W),
         chan \in Seq(Envs), NEW e \in Envs,
         sleep_enqueue(e) \/ sleep_block(e) \/ sleep_wake(e)
  PROVE  CpuInv(L, W)' /\ KeepsPlaces(A)
<1> USE DEF LockPcs, HoldsGuard, HoldsQlock
<1>1. LockMap(L, W) /\ Enqueued(L, W, A) /\ LockPcs \subseteq DOMAIN L
  BY DEF HasSleepLock
<1>2. ctl = e /\ e \notin irq /\ proc = e /\ schedpc = "back" /\ status[e] = "RUNNING"
  BY EnvsAssumption DEF sleep_enqueue, sleep_block, sleep_wake, At, CpuInv, OnStack
<1>3. CASE sleep_enqueue(e)
  <2>1. /\ At(e, "s_enqueue") /\ Goto(e, "s_release") /\ chan' = Append(chan, e)
        /\ UNCHANGED <<ctl, proc, cpu, held, saved, irq, status, ready, exitq, schedpc, panicked>>
    BY <1>2, <1>3 DEF sleep_enqueue
  <2>2. /\ "s_enqueue" \in DOMAIN L \ ({"start"} \cup W) /\ "s_enqueue" \notin A
        /\ "s_release" \in DOMAIN L \ ({"start", "exited"} \cup W) /\ "s_release" \in A
        /\ L["s_release"] = L["s_enqueue"]
    BY <1>1 DEF HasSleepLock
  <2>3. CpuInv(L, W)'
    BY <1>1, <2>1, <2>2, JumpKeepsCpu
  <2>4. ASSUME NEW f \in Envs, NEW k \in Nat, Placed(f, k + Count(chan, f), A)
        PROVE  Placed(f, k + Count(chan, f), A)'
    <3>1. Count(chan, f) \in Nat /\ Count(chan', f) = Count(chan, f) + IF e = f THEN 1 ELSE 0
      BY <2>1, CountType, CountAppend
    <3>2. PICK m : m = k + Count(chan, f) /\ m \in Nat
      BY <3>1
    <3>3. PICK n : n = m + IF e = f THEN 1 ELSE 0
      OBVIOUS
    <3>4. Placed(f, n, A)'
      BY <1>2, <2>1, <2>2, <2>4, <3>2, <3>3, EnqueueKeepsPlaced DEF At, Goto
    <3>5. n = (k + Count(chan, f))'
      BY <3>1, <3>2, <3>3
    <3>6. QED
      BY <3>4, <3>5 DEF Placed
  <2>5. QED
    BY <2>3, <2>4 DEF KeepsPlaces
<1>4. CASE sleep_block(e)
  <2>1. /\ At(e, "s_block") /\ Goto(e, "s_wake") /\ UNCHANGED chan
        /\ status' = [status EXCEPT ![e] = "BLOCKED"] /\ sched(e, "BLOCKED", cpu, held)
        /\ UNCHANGED <<proc, cpu, held, irq, ready, exitq, schedpc>>
    BY <1>4 DEF sleep_block, lockVars
  <2>2. /\ "s_block" \in DOMAIN L \ ({"start"} \cup W) /\ "s_block" \in A
        /\ "s_wake" \in W /\ L["s_block"] = {"qlock"}
    BY <1>1 DEF HasSleepLock
  <2>3. CpuInv(L, W)'
    BY <1>1, <2>1, <2>2, BlockKeepsCpu
  <2>4. \A f \in Envs : \A k : Placed(f, k, A) => Placed(f, k, A)'
    BY <1>1, <1>2, <2>1, <2>2, BlockKeepsPlaced DEF At, Goto
  <2>5. QED
    BY <2>1, <2>3, <2>4, SameChannel
<1>5. CASE sleep_wake(e)
  <2>1. /\ At(e, "s_wake") /\ Goto(e, "s_guard") /\ release_spinlock("qlock", Resumed(e))
        /\ UNCHANGED <<ctl, proc, saved, irq, status, ready, exitq, schedpc, chan>>
    BY <1>5 DEF sleep_wake, lockVars
  <2>2. /\ "s_wake" \in DOMAIN L /\ "s_wake" \in W /\ L["s_wake"] = {"qlock"}
        /\ "s_guard" \in DOMAIN L \ ({"start", "exited"} \cup W) /\ L["s_guard"] = {}
        /\ "s_wake" \notin A /\ "s_guard" \notin A
    BY <1>1 DEF HasSleepLock
  <2>3. /\ Resumed(e) \in CpuStates /\ Resumed(e).ien = cpu.ien
        /\ Resumed(e).ncli = cpu.ncli /\ Resumed(e).intena = saved[e]
    BY DEF Types, SchedTypeOK, CpuStates, Resumed
  <2>4. L["s_guard"] = L["s_wake"] \ {"qlock"} /\ "qlock" \in L["s_wake"]
    BY <2>2
  <2>5. CpuInv(L, W)'
    BY <1>1, <2>1, <2>2, <2>3, <2>4, ReleaseKeepsCpu
  <2>6. \A f \in Envs : \A k : Placed(f, k, A) => Placed(f, k, A)'
    BY <2>1, <2>2, QuietKeepsPlaced DEF At, Goto
  <2>7. QED
    BY <2>1, <2>5, <2>6, SameChannel
<1>6. QED
  BY <1>3, <1>4, <1>5

\* wakeup_all(): the head of the channel is asleep, whatever other channels
\* there are.
LEMMA WakeupAllKeeps ==
  ASSUME NEW L, NEW W, NEW A, HasSleepLock(L, W, A), Types(L), CpuInv(L, W),
         chan \in Seq(Envs), AllPlaced(A), NEW e \in Envs, wakeup_all_one(e)
  PROVE  CpuInv(L, W)' /\ KeepsPlaces(A)
<1> DEFINE g == Head(chan)
<1>1. /\ ctl = e /\ proc = e /\ status[e] = "RUNNING" /\ pc[e] = "w_loop"
  BY EnvsAssumption DEF wakeup_all_one, At, CpuInv, OnStack
<1>2. g \in Envs /\ chan # <<>> /\ g = chan[1] /\ 1 \in DOMAIN chan
  BY DEF wakeup_all_one
<1>3. Count(chan, g) \in Nat /\ Count(chan, g) # 0
  BY <1>2, CountType
<1>4. /\ chan' = Tail(chan) /\ status' = [status EXCEPT ![g] = "READY"]
      /\ ready' = Append(ready, g)
      /\ UNCHANGED <<ctl, proc, cpu, held, saved, irq, exitq, pc, schedpc, panicked>>
  BY DEF wakeup_all_one
<1> HIDE DEF g
<1>5. PICK k0 \in Nat : Placed(g, k0 + Count(chan, g), A)
  BY <1>2 DEF AllPlaced
<1>6. k0 + Count(chan, g) # 0
  BY <1>3
<1>7. Enqueued(L, W, A) /\ LockMap(L, W) /\ "w_loop" \notin A
  BY DEF HasSleepLock, LockPcs, HoldsGuard
<1>8. status[g] = "BLOCKED"
  <2>1. status[g] \in Statuses
    BY <1>2 DEF Types, SchedTypeOK
  <2>2. status[g] # "RUNNING"
    <3>1. SUFFICES ASSUME status[g] = "RUNNING" PROVE FALSE
      OBVIOUS
    <3>2. pc[g] \in A
      BY <1>5, <1>6, <3>1 DEF Placed
    <3>3. g = e
      BY <1>1, <1>2, <1>7, <3>2, EnqueuedIsOnCpu
    <3>4. QED
      BY <1>1, <1>7, <3>2, <3>3
  <2>3. QED
    BY <1>5, <1>6, <2>1, <2>2 DEF Placed, Statuses
<1>9. proc # g
  BY <1>1, <1>8
<1>10. CpuInv(L, W)'
  BY <1>2, <1>4, <1>7, <1>8, WakeupKeepsCpu
<1>11. ASSUME NEW f \in Envs, NEW k \in Nat, Placed(f, k + Count(chan, f), A)
       PROVE  Placed(f, k + Count(chan, f), A)'
  <2>1. Count(chan, f) \in Nat /\ Count(chan', f) = Count(chan, f) - IF g = f THEN 1 ELSE 0
    BY <1>2, <1>4, CountType, CountTail DEF g
  <2>2. PICK m : m = k + Count(chan, f) /\ m \in Nat
    BY <2>1
  <2>3. PICK n : n = m - IF g = f THEN 1 ELSE 0
    OBVIOUS
  <2>4. Placed(f, n, A)'
    BY <1>2, <1>4, <1>8, <1>9, <1>11, <2>2, <2>3, WakeupKeepsPlaced
  <2>5. n = (k + Count(chan, f))'
    BY <2>1, <2>2, <2>3
  <2>6. QED
    BY <2>4, <2>5 DEF Placed
<1>12. QED
  BY <1>10, <1>11 DEF KeepsPlaces

\* The steps of the dispatcher in an environment.
LEMMA EnvKeeps ==
  ASSUME NEW L, NEW W, NEW A, HasSleepLock(L, W, A), Types(L), CpuInv(L, W),
         NEW e \in Envs, UNCHANGED lockVars,
         env_start(e) \/ env_exit(e) \/ yield(e) \/ yield_return(e)
  PROVE  CpuInv(L, W)' /\ KeepsPlaces(A)
<1>1. LockMap(L, W) /\ Enqueued(L, W, A) /\ UNCHANGED chan
  BY DEF HasSleepLock, lockVars
<1>2. /\ "start" \in DOMAIN L /\ L["start"] = {"qlock"} /\ "start" \notin W
      /\ "user" \in DOMAIN L \ ({"start", "exited"} \cup W) /\ L["user"] = {}
      /\ "start" \notin A /\ "user" \notin A
  BY <1>1 DEF LockMap, Enqueued
<1>3. CASE env_start(e)
  <2>1. /\ At(e, "start") /\ Goto(e, "user") /\ release_and_iret(cpu)
        /\ UNCHANGED <<ctl, proc, saved, irq, status, ready, exitq, schedpc>>
    BY <1>3 DEF env_start
  <2>2. cpu \in CpuStates /\ "qlock" \in L["start"] /\ L["user"] = L["start"] \ {"qlock"}
    BY <1>2 DEF Types, SchedTypeOK
  <2>3. CpuInv(L, W)'
    BY <1>1, <1>2, <2>1, <2>2, ReleaseKeepsCpu
  <2>4. \A f \in Envs : \A k : Placed(f, k, A) => Placed(f, k, A)'
    BY <1>2, <2>1, QuietKeepsPlaced DEF At, Goto
  <2>5. QED
    BY <1>1, <2>3, <2>4, SameChannel
<1>4. CASE env_exit(e)
  <2>1. pc[e] = "user"
    BY <1>4 DEF env_exit, At
  <2>2. /\ CpuInv(L, W)' /\ proc = e /\ status[e] = "RUNNING" /\ schedpc = "back"
        /\ status' = [status EXCEPT ![e] = "EXIT"] /\ exitq' = Append(exitq, e)
        /\ pc' = [pc EXCEPT ![e] = "exited"] /\ UNCHANGED <<proc, ready, schedpc>>
    BY <1>1, <1>4, ExitKeepsCpu
  <2>3. \A f \in Envs : \A k : Placed(f, k, A) => Placed(f, k, A)'
    BY <1>2, <2>1, <2>2, ExitKeepsPlaced
  <2>4. QED
    BY <1>1, <2>2, <2>3, SameChannel
<1>5. CASE yield(e)
  <2>1. /\ CpuInv(L, W)' /\ status' = [status EXCEPT ![e] = "READY"]
        /\ status[e] = "RUNNING" /\ L[pc[e]] = {}
        /\ UNCHANGED <<proc, pc, ready, exitq, schedpc>>
    BY <1>1, <1>5, YieldKeepsCpu
  <2>2. pc[e] \notin A
    BY <1>1, <2>1 DEF Enqueued
  <2>3. \A f \in Envs : \A k : Placed(f, k, A) => Placed(f, k, A)'
    BY <2>1, <2>2, YieldKeepsPlaced
  <2>4. QED
    BY <1>1, <2>1, <2>3, SameChannel
<1>6. CASE yield_return(e)
  <2>1. CpuInv(L, W)'
    BY <1>1, <1>6, YieldReturnKeepsCpu
  <2>2. UNCHANGED <<proc, status, ready, exitq, schedpc, pc>>
    BY <1>6 DEF yield_return
  <2>3. \A f \in Envs : \A k : Placed(f, k, A) => Placed(f, k, A)'
    BY <2>2 DEF Placed
  <2>4. QED
    BY <1>1, <2>1, <2>3, SameChannel
<1>7. QED
  BY <1>3, <1>4, <1>5, <1>6

\* Every step of SleepLock, also as a part of other code.
LEMMA StepKeeps ==
  ASSUME NEW L, NEW W, NEW A, HasSleepLock(L, W, A), Types(L), CpuInv(L, W),
         chan \in Seq(Envs), AllPlaced(A), Idle, Next
  PROVE  CpuInv(L, W)' /\ KeepsPlaces(A) /\ Idle'
<1>1. LockMap(L, W) /\ Enqueued(L, W, A)
  BY DEF HasSleepLock
<1>2. CASE Scheduler
  <2>1. fos_scheduler /\ UNCHANGED chan /\ \A f \in Envs : \E k : Placed(f, k, A)
    BY <1>2 DEF Scheduler, lockVars, AllPlaced
  <2>2. CpuInv(L, W)' /\ Idle'
    BY <1>1, <2>1, SchedulerKeepsCpu, SchedulerKeepsIdle
  <2>3. \A f \in Envs : \A k : Placed(f, k, A) => Placed(f, k, A)'
    BY <1>1, <2>1, SchedulerKeepsPlaced
  <2>4. QED
    BY <2>1, <2>2, <2>3, SameChannel
<1>3. ASSUME NEW e \in Envs, Run(e) \/ Preempt(e) \/ Resume(e)
      PROVE  CpuInv(L, W)' /\ KeepsPlaces(A) /\ ctl = e /\ UNCHANGED schedpc
  <2>1. ctl = e /\ UNCHANGED schedpc
    <3>1. CASE call_acquire(e) \/ call_release(e)
      BY <3>1 DEF call_acquire, call_release, At
    <3>2. CASE acquire_sleeplock(e)
      BY <3>2 DEF acquire_sleeplock, acquire_holding, acquire_test, acquire_guard,
                  acquire_while, acquire_take, acquire_done, AcquireStep,
                  ReleaseStep, Jump, At
    <3>3. CASE sleep(e)
      BY <3>3 DEF sleep, sleep_qlock, sleep_enqueue, sleep_release, sleep_block,
                  sleep_wake, sleep_guard, AcquireStep, ReleaseStep, At
    <3>4. CASE release_sleeplock(e)
      BY <3>4 DEF release_sleeplock, release_holding, release_test, release_guard,
                  release_clear, release_done, wakeup_all, wakeup_all_qlock,
                  wakeup_all_one, wakeup_all_end, wakeup_all_release,
                  AcquireStep, ReleaseStep, Jump, At
    <3>5. CASE env_start(e) \/ env_exit(e) \/ yield(e) \/ yield_return(e)
      BY <3>5 DEF env_start, env_exit, yield, yield_return, Panic, At
    <3>6. QED
      BY <1>3, <3>1, <3>2, <3>3, <3>4, <3>5 DEF Run, Preempt, Resume
  <2>2. CASE /\ env_start(e) \/ env_exit(e) \/ yield(e) \/ yield_return(e)
             /\ UNCHANGED lockVars
    BY <2>1, <2>2, EnvKeeps
  <2>3. CASE \/ call_acquire(e) \/ call_release(e) \/ acquire_while(e) \/ acquire_take(e)
             \/ release_clear(e) \/ wakeup_all_end(e)
    BY <2>1, <2>3, JumpKeeps, SameChannel
  <2>4. CASE \/ acquire_holding(e) \/ acquire_guard(e) \/ sleep_qlock(e) \/ sleep_guard(e)
             \/ release_holding(e) \/ release_guard(e) \/ wakeup_all_qlock(e)
             \/ acquire_test(e) \/ acquire_done(e) \/ sleep_release(e)
             \/ release_test(e) \/ release_done(e) \/ wakeup_all_release(e)
    <3>1. PICK from, l, to :
            \/ Acquires(from, l, to) /\ AcquireStep(e, from, l, to)
            \/ Releases(from, l, to) /\ from # "s_wake" /\ ReleaseStep(e, from, l, to)
      <4>1. \/ \E from, l, to : Acquires(from, l, to) /\ AcquireStep(e, from, l, to)
            \/ \E from, l, to : /\ Releases(from, l, to) /\ from # "s_wake"
                                /\ ReleaseStep(e, from, l, to)
        <5>1. CASE \/ acquire_holding(e) \/ acquire_guard(e) \/ sleep_qlock(e) \/ sleep_guard(e)
                   \/ release_holding(e) \/ release_guard(e) \/ wakeup_all_qlock(e)
          BY <5>1, SpinlockSteps
        <5>2. CASE \/ acquire_test(e) \/ acquire_done(e) \/ sleep_release(e)
                   \/ release_test(e) \/ release_done(e) \/ wakeup_all_release(e)
          BY <5>2, SpinlockSteps
        <5>3. QED
          BY <2>4, <5>1, <5>2
      <4>2. QED
        BY <4>1
    <3>2. /\ CpuInv(L, W)' /\ UNCHANGED chan
          /\ \A f \in Envs : \A k : Placed(f, k, A) => Placed(f, k, A)'
      BY <3>1, SpinlockStepKeeps
    <3>3. QED
      BY <2>1, <3>2, SameChannel
  <2>5. CASE sleep_enqueue(e) \/ sleep_block(e) \/ sleep_wake(e)
    BY <2>1, <2>5, SleepKeeps
  <2>6. CASE wakeup_all_one(e)
    BY <2>1, <2>6, WakeupAllKeeps
  <2>7. QED
    BY <1>3, <2>2, <2>3, <2>4, <2>5, <2>6
       DEF Run, Preempt, Resume, acquire_sleeplock, sleep, release_sleeplock,
           wakeup_all
<1>4. ASSUME NEW e \in Envs, ctl = e, UNCHANGED schedpc
      PROVE  Idle'
  <2>1. schedpc = "back"
    BY <1>4, EnvsAssumption DEF CpuInv, OnStack
  <2>2. QED
    BY <1>4, <2>1 DEF Idle
<1>5. QED
  BY <1>2, <1>3, <1>4 DEF Next

-----------------------------------------------------------------------------
(* SleepLock alone *)

\* The spinlocks held at each place.
LocksAt == [p \in LockPcs |-> (IF p \in HoldsGuard THEN {"guard"} ELSE {})
                              \cup (IF p \in HoldsQlock THEN {"qlock"} ELSE {})]
Wakes == {"s_wake"}
Enqueues == {"s_release", "s_block"}

\* The inductive invariant of the dispatcher.
DispatchInv == /\ CpuInv(LocksAt, Wakes)
               /\ \A e \in Envs : Placed(e, Count(chan, e), Enqueues)
               /\ Idle

\* The description fits the code.
LEMMA SleepLockCode ==
  /\ HasSleepLock(LocksAt, Wakes, Enqueues)
  /\ TypeOK => Types(LocksAt)
<1> USE DEF LockPcs, HoldsGuard, HoldsQlock, Wakes, Enqueues
<1>1. DOMAIN LocksAt = LockPcs
  BY DEF LocksAt
<1>2. \A p \in LockPcs : LocksAt[p] = (IF p \in HoldsGuard THEN {"guard"} ELSE {})
                                      \cup (IF p \in HoldsQlock THEN {"qlock"} ELSE {})
  BY DEF LocksAt
<1>3. \A p \in LockPcs : IsFiniteSet(LocksAt[p])
  <2>1. IsFiniteSet({"guard", "qlock"})
    <3>1. IsFiniteSet({"guard"})
      BY FS_Singleton
    <3>2. IsFiniteSet({"guard"} \cup {"qlock"})
      BY <3>1, FS_AddElement
    <3>3. {"guard", "qlock"} = {"guard"} \cup {"qlock"}
      OBVIOUS
    <3>4. QED
      BY <3>2, <3>3
  <2>2. \A p \in LockPcs : LocksAt[p] \in SUBSET {"guard", "qlock"}
    BY <1>2
  <2>3. QED
    BY <2>1, <2>2, FS_Subset
<1>4. LockMap(LocksAt, Wakes)
  BY <1>1, <1>2, <1>3 DEF LockMap
<1>5. Enqueued(LocksAt, Wakes, Enqueues)
  BY <1>1, <1>2 DEF Enqueued
<1>6. HasSleepLock(LocksAt, Wakes, Enqueues)
  BY <1>1, <1>2, <1>4, <1>5 DEF HasSleepLock
<1>7. TypeOK => Types(LocksAt)
  BY <1>1 DEF TypeOK, Types
<1>8. QED
  BY <1>6, <1>7

\* It holds when fos_scheduler() is entered.
LEMMA InitDispatch == Init => DispatchInv
<1> SUFFICES ASSUME Init PROVE DispatchInv
  OBVIOUS
<1>1. /\ ctl = NoEnv /\ proc = NoEnv /\ held = {} /\ irq = {}
      /\ cpu = [ien |-> FALSE, ncli |-> 0, intena |-> FALSE]
      /\ status = [e \in Envs |-> "READY"] /\ pc = [e \in Envs |-> "start"]
      /\ exitq = <<>> /\ chan = <<>> /\ schedpc = "sti" /\ panicked = FALSE
      /\ ready \in [1 .. Cardinality(Envs) -> Envs]
      /\ \A i, j \in 1 .. Cardinality(Envs) : ready[i] = ready[j] => i = j
  BY DEF Init, SchedInit
<1>2. Counted
  BY <1>1, FS_EmptySet DEF Counted
<1>3. CpuInv(LocksAt, Wakes)
  BY <1>1, <1>2 DEF CpuInv, OnStack, OnScheduler, Parked, Wakes
<1>4. ASSUME NEW e \in Envs
      PROVE  Placed(e, Count(chan, e), Enqueues)
  <2>1. Count(chan, e) = 0 /\ Count(exitq, e) = 0
    BY <1>1, CountEmpty
  <2>2. Count(ready, e) = 1
    BY <1>1, CountPermutation, EnvsAssumption
  <2>3. status[e] = "READY" /\ proc # e
    BY <1>1, EnvsAssumption
  <2>4. QED
    BY <2>1, <2>2, <2>3 DEF Placed
<1>5. QED
  BY <1>1, <1>3, <1>4 DEF DispatchInv, Idle

\* Every step preserves it.
LEMMA DispatchStep ==
  ASSUME TypeOK, DispatchInv, [Next]_vars
  PROVE  DispatchInv'
<1>1. CASE UNCHANGED vars
  <2>1. CpuInv(LocksAt, Wakes)'
    BY <1>1 DEF vars, schedVars, lockVars, DispatchInv, CpuInv, Counted, OnStack,
                OnScheduler, Parked
  <2>2. (\A e \in Envs : Placed(e, Count(chan, e), Enqueues))'
    BY <1>1 DEF vars, schedVars, lockVars, DispatchInv, Placed
  <2>3. QED
    BY <1>1, <2>1, <2>2 DEF vars, schedVars, DispatchInv, Idle
<1>2. CASE Next
  <2>1. chan \in Seq(Envs) /\ \A e \in Envs : Count(chan, e) \in Nat
    BY CountType DEF TypeOK
  <2>2. \A e \in Envs : 0 + Count(chan, e) = Count(chan, e)
    BY <2>1
  <2>3. AllPlaced(Enqueues)
    BY <2>2 DEF DispatchInv, AllPlaced
  <2>4. CpuInv(LocksAt, Wakes)' /\ KeepsPlaces(Enqueues) /\ Idle'
    BY <1>2, <2>1, <2>3, SleepLockCode, StepKeeps DEF DispatchInv
  <2>5. ASSUME NEW e \in Envs
        PROVE  Placed(e, Count(chan, e), Enqueues)'
    <3>1. Placed(e, 0 + Count(chan, e), Enqueues)
      BY <2>2 DEF DispatchInv
    <3>2. Placed(e, 0 + Count(chan, e), Enqueues)'
      BY <2>4, <3>1 DEF KeepsPlaces
    <3>3. (0 + Count(chan, e) = Count(chan, e))'
      <4>1. chan' \in Seq(Envs)
        <5>1. OnCpu
          BY DEF DispatchInv, CpuInv, OnStack, OnCpu
        <5>2. QED
          BY <1>2, <5>1, TypeStep, TypedOK DEF TypeOK
      <4>2. Count(chan', e) \in Nat
        BY <4>1, CountType
      <4>3. QED
        BY <4>2
    <3>4. QED
      BY <3>2, <3>3 DEF Placed
  <2>6. QED
    BY <2>4, <2>5 DEF DispatchInv
<1>3. QED
  BY <1>1, <1>2

\* The invariant of the dispatcher holds in every reachable state, for every
\* set of environments and every bound on their calls.
THEOREM DispatchInvariant == Spec => [](TypeOK /\ DispatchInv)
<1>1. Init => DispatchInv
  BY InitDispatch
<1>2. TypeOK /\ DispatchInv /\ [Next]_vars => DispatchInv'
  BY DispatchStep
<1>3. QED
  BY <1>1, <1>2, TypeCorrect, PTL DEF Spec

\* No panic() of the spinlocks, of popcli(), of sched() and of fos_scheduler()
\* is ever reached, wherever the clock interrupts.
THEOREM NeverPanics == Spec => []NoPanic
<1>1. DispatchInv => NoPanic
  BY DEF DispatchInv, CpuInv, NoPanic
<1>2. QED
  BY <1>1, DispatchInvariant, PTL

\* Whoever holds a spinlock runs with interrupts off, and ncli is the number
\* of spinlocks held.
THEOREM SpinlocksShutInterruptsOut == Spec => []InterruptsOffWhileLocked
<1>1. DispatchInv => InterruptsOffWhileLocked
  BY DEF DispatchInv, CpuInv, Counted, InterruptsOffWhileLocked
<1>2. QED
  BY <1>1, DispatchInvariant, PTL

\* Every environment is in exactly the queue, channel or CPU that its status
\* says.
THEOREM QueuesAgree == Spec => []QueuesAgreeWithStatus
<1>1. TypeOK /\ DispatchInv => QueuesAgreeWithStatus
  <2> SUFFICES ASSUME TypeOK, DispatchInv, NEW e \in Envs
               PROVE  LET inReady == Count(ready, e)
                          inChan  == Count(chan, e)
                          inExit  == Count(exitq, e)
                          current == IF proc = e THEN 1 ELSE 0
                      IN  CASE status[e] = "RUNNING" ->
                                 /\ current = 1 /\ inReady = 0 /\ inExit = 0
                                 /\ inChan = IF pc[e] \in {"s_release", "s_block"} THEN 1 ELSE 0
                            [] status[e] = "READY" ->
                                 inReady + current = 1 /\ inChan = 0 /\ inExit = 0
                            [] status[e] = "BLOCKED" ->
                                 /\ inChan = 1 /\ inReady = 0 /\ inExit = 0
                                 /\ current = 1 => schedpc = "back"
                            [] status[e] = "EXIT" ->
                                 /\ inExit = 1 /\ inReady = 0 /\ inChan = 0
                                 /\ current = 1 => schedpc = "back"
    BY DEF QueuesAgreeWithStatus
  <2>1. status[e] \in Statuses /\ Placed(e, Count(chan, e), Enqueues)
    BY DEF TypeOK, SchedTypeOK, DispatchInv
  <2>2. CASE status[e] = "RUNNING"
    BY <2>1, <2>2 DEF Placed, Enqueues
  <2>3. CASE status[e] = "READY"
    BY <2>1, <2>3 DEF Placed
  <2>4. CASE status[e] = "BLOCKED"
    BY <2>1, <2>4 DEF Placed
  <2>5. CASE status[e] = "EXIT"
    BY <2>1, <2>5 DEF Placed
  <2>6. QED
    BY <2>1, <2>2, <2>3, <2>4, <2>5 DEF Statuses
<1>2. QED
  BY <1>1, DispatchInvariant, PTL

\* fos_scheduler() returns to the command prompt only after the last exit.
THEOREM PromptWaitsForAll == Spec => []PromptAfterLastExit
<1>1. DispatchInv => PromptAfterLastExit
  BY DEF DispatchInv, Idle, PromptAfterLastExit
<1>2. QED
  BY <1>1, DispatchInvariant, PTL
=============================================================================
