-------------------------------- MODULE Sched --------------------------------
(***************************************************************************)
(* The CPU, the spinlocks and the process dispatcher of FOS.               *)
(*                                                                         *)
(* FOS runs on one CPU.  Control is either on the kernel stack of an       *)
(* environment or on the scheduler's own stack.  Two environments          *)
(* interleave only where a clock interrupt can be taken, that is where the *)
(* CPU's interrupt flag is set: the flag, the pushcli nesting depth and    *)
(* the saved flag "intena" are therefore part of the state, and the        *)
(* atomicity of every critical section is a consequence of them.           *)
(*                                                                         *)
(* Every check of the code that ends in panic() is a guard here; a check   *)
(* that fails sets "panicked", and nothing moves afterwards.               *)
(***************************************************************************)
EXTENDS Queues

CONSTANTS Envs,    \* the environments (processes)
          NoEnv    \* a NULL environment pointer; as value of ctl: the scheduler

ASSUME EnvsAssumption == IsFiniteSet(Envs) /\ NoEnv \notin Envs

VARIABLES
  ctl,       \* whose kernel stack the CPU executes on
  proc,      \* mycpu()->proc
  cpu,       \* the interrupt flag (ien), ncli and intena of the CPU
  held,      \* the spinlocks whose "locked" word is set
  saved,     \* the local "intena" of each environment's call of sched()
  irq,       \* environments preempted inside clock_interrupt_handler()
  status,    \* env_status
  ready,     \* ProcessQueues.env_ready_queues[0]
  exitq,     \* ProcessQueues.env_exit_queue
  pc,        \* where each environment will continue
  schedpc,   \* where fos_scheduler() will continue
  panicked   \* some panic() or assert() has fired

schedVars == <<ctl, proc, cpu, held, saved, irq, status, ready, exitq, pc,
               schedpc, panicked>>

Statuses == {"READY", "RUNNING", "BLOCKED", "EXIT"}
SchedPcs == {"sti", "acquire", "pick", "back", "scan", "prompt"}
CpuStates == [ien : BOOLEAN, ncli : Nat, intena : BOOLEAN]

-----------------------------------------------------------------------------
(* kern/cpu/cpu.c and kern/conc/spinlock.c *)

\* Interrupts go off; the outermost pushcli remembers what they were.
pushcli(c) == [ien    |-> FALSE,
               ncli   |-> c.ncli + 1,
               intena |-> IF c.ncli = 0 THEN c.ien ELSE c.intena]

\* Mutant: every popcli restores the interrupt flag, not only the outermost.
popcli_anyDepth(c) == [ien    |-> c.ien \/ c.intena,
                       ncli   |-> c.ncli - 1,
                       intena |-> c.intena]

\* The outermost popcli restores what the outermost pushcli remembered.
popcli(c) == [ien    |-> c.ien \/ (c.ncli = 1 /\ c.intena),
              ncli   |-> c.ncli - 1,
              intena |-> c.intena]

popcliPanics(c) == c.ien \/ c.ncli = 0

Panic == /\ panicked' = TRUE
         /\ UNCHANGED <<ctl, proc, cpu, held, saved, irq, status, ready,
                        exitq, schedpc>>

\* There is one CPU, so a locked spinlock is held by the CPU that asks.
acquire_spinlock(l) ==
  IF l \in held
    THEN panicked' = TRUE /\ UNCHANGED <<cpu, held>>
    ELSE /\ cpu' = pushcli(cpu)
         /\ held' = held \cup {l}
         /\ UNCHANGED panicked

\* c is the CPU state in which the lock is released.
release_spinlock(l, c) ==
  IF l \notin held \/ popcliPanics(c)
    THEN panicked' = TRUE /\ UNCHANGED <<cpu, held>>
    ELSE /\ cpu' = popcli(c)
         /\ held' = held \ {l}
         /\ UNCHANGED panicked

\* The release of qlock with which the scheduler's hand-over ends, followed by
\* the return from the trap to code that runs with interrupts on.
release_and_iret(c) ==
  IF "qlock" \notin held \/ popcliPanics(c)
    THEN panicked' = TRUE /\ UNCHANGED <<cpu, held>>
    ELSE /\ cpu' = [popcli(c) EXCEPT !.ien = TRUE]
         /\ held' = held \ {"qlock"}
         /\ UNCHANGED panicked

-----------------------------------------------------------------------------
(* Steps of an environment *)

\* The code of e at "from" is what the CPU executes next.
At(e, from) == ~panicked /\ ctl = e /\ e \notin irq /\ pc[e] = from

Goto(e, to) == pc' = [pc EXCEPT ![e] = to]

\* The CPU state after context_switch() returned into e's call of sched().
Resumed(e) == [cpu EXCEPT !.intena = saved[e]]

\* sched(), called by e with status st, CPU state c and spinlocks h, up to the
\* switch to the scheduler's stack.
sched(e, st, c, h) ==
  IF "qlock" \in h /\ c.ncli = 1 /\ st # "RUNNING" /\ ~c.ien
    THEN /\ saved' = [saved EXCEPT ![e] = c.intena]
         /\ ctl' = NoEnv
         /\ UNCHANGED panicked
    ELSE panicked' = TRUE /\ UNCHANGED <<ctl, saved>>

\* First scheduling of e: the scheduler handed qlock over; the trap frame
\* that env_start() returns to has the interrupt flag set.
env_start(e) ==
  /\ At(e, "start")
  /\ release_and_iret(cpu)
  /\ Goto(e, "user")
  /\ UNCHANGED <<ctl, proc, saved, irq, status, ready, exitq, schedpc>>

\* A clock interrupt is taken while e runs.  The interrupt gate clears the
\* interrupt flag, and clock_interrupt_handler() calls yield(): qlock, READY,
\* sched().
yield(e) ==
  LET gate == [cpu EXCEPT !.ien = FALSE]
      c    == pushcli(gate)
      h    == held \cup {"qlock"}
  IN  /\ ~panicked /\ ctl = e /\ cpu.ien
      /\ IF "qlock" \in held
           THEN Panic
           ELSE /\ status' = [status EXCEPT ![e] = "READY"]
                /\ cpu' = c
                /\ held' = h
                /\ irq' = irq \cup {e}
                /\ sched(e, "READY", c, h)
                /\ UNCHANGED <<proc, ready, exitq, schedpc>>
      /\ UNCHANGED pc

\* e is scheduled again inside yield(): it releases qlock and returns from the
\* interrupt, which restores the interrupt flag of the preempted code.
yield_return(e) ==
  /\ ~panicked /\ ctl = e /\ e \in irq
  /\ release_and_iret(Resumed(e))
  /\ irq' = irq \ {e}
  /\ UNCHANGED <<ctl, proc, saved, status, ready, exitq, pc, schedpc>>

\* env_exit() of the running environment: sched_exit_env() takes qlock unless
\* it is held, finds e in no queue, appends it to the EXIT queue and leaves the
\* CPU for good.
env_exit(e) ==
  LET c == IF "qlock" \in held THEN cpu ELSE pushcli(cpu)
      h == held \cup {"qlock"}
  IN  /\ At(e, "user")
      /\ status' = [status EXCEPT ![e] = "EXIT"]
      /\ exitq' = Append(exitq, e)
      /\ cpu' = c
      /\ held' = h
      /\ sched(e, "EXIT", c, h)
      /\ UNCHANGED <<proc, ready, irq, schedpc>>
      /\ Goto(e, "exited")

-----------------------------------------------------------------------------
(* fos_scheduler(), on its own stack *)

SchedAt(from) == ~panicked /\ ctl = NoEnv /\ schedpc = from

sched_sti ==
  /\ SchedAt("sti")
  /\ cpu' = [cpu EXCEPT !.ien = TRUE]
  /\ schedpc' = "acquire"
  /\ UNCHANGED <<ctl, proc, held, saved, irq, status, ready, exitq, pc, panicked>>

sched_acquire ==
  /\ SchedAt("acquire")
  /\ acquire_spinlock("qlock")
  /\ schedpc' = "pick"
  /\ UNCHANGED <<ctl, proc, saved, irq, status, ready, exitq, pc>>

\* Mutant: the current process is not compared with NULL.
fos_scheduler_RR_null == Append(ready, proc)

\* fos_scheduler_RR(): a process that is still current goes to the end of the
\* ready queue, and the head of the queue is next.
fos_scheduler_RR == IF proc # NoEnv THEN Append(ready, proc) ELSE ready

\* Switch to the next environment, which has to release qlock ...
sched_switch ==
  /\ SchedAt("pick")
  /\ fos_scheduler_RR # <<>>
  /\ LET next == Head(fos_scheduler_RR)
     IN  /\ ready' = Tail(fos_scheduler_RR)
         /\ proc' = next
         /\ status' = [status EXCEPT ![next] = "RUNNING"]
         /\ ctl' = next
  /\ schedpc' = "back"
  /\ UNCHANGED <<cpu, held, saved, irq, exitq, pc, panicked>>

\* ... or find that there is none.
sched_none ==
  /\ SchedAt("pick")
  /\ fos_scheduler_RR = <<>>
  /\ schedpc' = "scan"
  /\ UNCHANGED <<ctl, proc, cpu, held, saved, irq, status, ready, exitq, pc,
                 panicked>>

\* Back from an environment: one that yielded stays current until the next
\* pick, one that blocked or exited does not.
sched_back ==
  /\ SchedAt("back")
  /\ IF cpu.ien \/ status[proc] = "RUNNING"
       THEN panicked' = TRUE /\ UNCHANGED proc
       ELSE /\ proc' = IF status[proc] = "READY" THEN proc ELSE NoEnv
            /\ UNCHANGED panicked
  /\ schedpc' = "pick"
  /\ UNCHANGED <<ctl, cpu, held, saved, irq, status, ready, exitq, pc>>

\* Nothing is ready: wait with interrupts on while some process is BLOCKED,
\* else return to the command prompt.
sched_scan ==
  /\ SchedAt("scan")
  /\ release_spinlock("qlock", cpu)
  /\ schedpc' = IF \E e \in Envs : status[e] = "BLOCKED" THEN "sti" ELSE "prompt"
  /\ UNCHANGED <<ctl, proc, saved, irq, status, ready, exitq, pc>>

fos_scheduler == \/ sched_sti \/ sched_acquire \/ sched_switch
                 \/ sched_none \/ sched_back \/ sched_scan

-----------------------------------------------------------------------------
\* A permutation of the environments has been made READY by sched_run_env()
\* or sched_run_all(), and fos_scheduler() has been entered.
SchedInit ==
  /\ ctl = NoEnv
  /\ proc = NoEnv
  /\ cpu = [ien |-> FALSE, ncli |-> 0, intena |-> FALSE]
  /\ held = {}
  /\ saved = [e \in Envs |-> FALSE]
  /\ irq = {}
  /\ status = [e \in Envs |-> "READY"]
  /\ ready \in {q \in [1..Cardinality(Envs) -> Envs] :
                  \A i, j \in DOMAIN q : q[i] = q[j] => i = j}
  /\ exitq = <<>>
  /\ pc = [e \in Envs |-> "start"]
  /\ schedpc = "sti"
  /\ panicked = FALSE

SchedTypeOK ==
  /\ ctl \in Envs \cup {NoEnv}
  /\ proc \in Envs \cup {NoEnv}
  /\ cpu \in CpuStates
  /\ saved \in [Envs -> BOOLEAN]
  /\ irq \in SUBSET Envs
  /\ status \in [Envs -> Statuses]
  /\ ready \in Seq(Envs)
  /\ exitq \in Seq(Envs)
  /\ schedpc \in SchedPcs
  /\ panicked \in BOOLEAN
=============================================================================
