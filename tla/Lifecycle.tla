------------------------------ MODULE Lifecycle ------------------------------
(***************************************************************************)
(* The life of an environment: how the commands of the prompt and the      *)
(* system calls of running environments move the slots of envs[] through   *)
(* the free list, the NEW, READY and EXIT queues, a channel and the CPU    *)
(* (kern/cpu/sched_helpers.c, kern/proc/user_environment.c,                *)
(* kern/trap/syscall.c, kern/cmd/).                                        *)
(*                                                                         *)
(* What runs under ProcessQueues.qlock is one step: module SleepLock shows *)
(* that interrupts are off there.  From a sched() to the release of qlock  *)
(* by the next environment is one step for the same reason.  The rest of a *)
(* system call is interruptible, and each call enters in a step of its     *)
(* own, which writes the global cur_env of syscall.c.                      *)
(*                                                                         *)
(* A queue is a sequence whose head is what dequeue() takes.               *)
(***************************************************************************)
EXTENDS Queues, SequencesExt

CONSTANTS Envs,         \* the slots of envs[]
          NoEnv,        \* a NULL pointer; as an argument: envid 0
          MaxCreators   \* bound on the environments that run env_create() at once

ASSUME LifecycleAssumption ==
  IsFiniteSet(Envs) /\ NoEnv \notin Envs /\ MaxCreators \in Nat \ {0}

VARIABLES
  status,    \* env_status
  freelist,  \* env_free_list
  newq, readyq, exitq, \* the process queues
  chan,      \* the environments asleep in a channel
  proc,      \* mycpu()->proc
  mode,      \* the CPU is in the prompt (scheduler_status is SCH_STOPPED),
             \* before the scheduler's acquire of qlock ("sti"), or in proc
  held,      \* spinlocks that were left locked
  cur_env,   \* the global of syscall.c
  stage,     \* the system call each environment is in
  slot,      \* the local "e" of its env_create()
  arg,       \* the argument of its system call
  killed     \* history: environments that sched_kill_env() or _all() removed

lvars == <<status, freelist, newq, readyq, exitq, chan, proc, mode, held,
           cur_env, stage, slot, arg, killed>>

LifeStatuses == {"FREE", "UNKNOWN", "NEW", "READY", "RUNNING", "BLOCKED", "EXIT"}
Calls == {"create", "run", "destroy", "exit", "sleep", "wakeup"}
Stages == Calls \cup {"user", "init", "new"}

LInit ==
  /\ status = [e \in Envs |-> "FREE"]
  /\ freelist \in SetToSeqs(Envs)
  /\ newq = <<>> /\ readyq = <<>> /\ exitq = <<>> /\ chan = <<>>
  /\ proc = NoEnv
  /\ mode = "prompt"
  /\ held = {}
  /\ cur_env = NoEnv
  /\ stage = [e \in Envs |-> "user"]
  /\ slot = [e \in Envs |-> NoEnv]
  /\ arg = [e \in Envs |-> NoEnv]
  /\ killed = {}

-----------------------------------------------------------------------------
(* The scheduler *)

\* Mutant: the scheduler does not look for BLOCKED environments.
pick_blind(st, q) ==
  IF q # <<>>
    THEN /\ proc' = Head(q)
         /\ readyq' = Tail(q)
         /\ status' = [st EXCEPT ![Head(q)] = "RUNNING"]
         /\ mode' = "run"
    ELSE /\ proc' = NoEnv
         /\ readyq' = q
         /\ status' = st
         /\ mode' = "prompt"

\* fos_scheduler() with qlock held, statuses st and ready queue q: switch to
\* the head of q; with none, wait for BLOCKED environments or get into the
\* prompt.
pick(st, q) ==
  IF q # <<>>
    THEN /\ proc' = Head(q)
         /\ readyq' = Tail(q)
         /\ status' = [st EXCEPT ![Head(q)] = "RUNNING"]
         /\ mode' = "run"
    ELSE /\ proc' = NoEnv
         /\ readyq' = q
         /\ status' = st
         /\ mode' = IF \E e \in Envs : st[e] = "BLOCKED" THEN "sti" ELSE "prompt"

scheduler ==
  /\ mode = "sti"
  /\ pick(status, readyq)
  /\ UNCHANGED <<freelist, newq, exitq, chan, held, cur_env, stage, slot, arg,
                 killed>>

\* Mutant: the preempted environment goes to the wrong end of the queue.
clock_yield_front(e) ==
  /\ mode = "run" /\ proc = e
  /\ LET st == [status EXCEPT ![e] = "READY"] IN pick(st, <<e>> \o readyq)
  /\ UNCHANGED <<freelist, newq, exitq, chan, held, cur_env, stage, slot, arg,
                 killed>>

\* A clock interrupt ends the quantum of e.
clock_yield(e) ==
  /\ mode = "run" /\ proc = e
  /\ LET st == [status EXCEPT ![e] = "READY"] IN pick(st, Append(readyq, e))
  /\ UNCHANGED <<freelist, newq, exitq, chan, held, cur_env, stage, slot, arg,
                 killed>>

\* The keyboard interrupt wakes one sleeper, in an environment or in the
\* scheduler while it waits with interrupts on.
keyboard_wakeup_one ==
  /\ mode # "prompt" /\ chan # <<>>
  /\ chan' = Tail(chan)
  /\ status' = [status EXCEPT ![Head(chan)] = "READY"]
  /\ readyq' = Append(readyq, Head(chan))
  /\ UNCHANGED <<freelist, newq, exitq, proc, mode, held, cur_env, stage, slot,
                 arg, killed>>

-----------------------------------------------------------------------------
(* sched_kill_env() *)

Killable(t) == t \in ToSet(newq) \cup ToSet(readyq) \cup ToSet(exitq)

\* Mutant: READY environments are not unlinked.
kill_found_ready(t) ==
  /\ \/ /\ t \in ToSet(newq)
        /\ newq' = LIST_REMOVE(newq, t)
        /\ status' = [status EXCEPT ![t] = "UNKNOWN"]
        /\ UNCHANGED <<readyq, exitq>>
     \/ /\ t \notin ToSet(newq) /\ t \in ToSet(readyq)
        /\ UNCHANGED <<newq, readyq, exitq, status>>
     \/ /\ t \notin ToSet(newq) \cup ToSet(readyq)
        /\ exitq' = LIST_REMOVE(exitq, t)
        /\ status' = [status EXCEPT ![t] = "UNKNOWN"]
        /\ UNCHANGED <<newq, readyq>>
  /\ killed' = killed \cup {t}

\* t leaves the queue it is found in; env_free() returns at once.  A READY
\* environment leaves without sched_remove_ready(), so its status stays.
kill_found(t) ==
  /\ \/ /\ t \in ToSet(newq)
        /\ newq' = LIST_REMOVE(newq, t)
        /\ status' = [status EXCEPT ![t] = "UNKNOWN"]
        /\ UNCHANGED <<readyq, exitq>>
     \/ /\ t \notin ToSet(newq) /\ t \in ToSet(readyq)
        /\ readyq' = LIST_REMOVE(readyq, t)
        /\ UNCHANGED <<newq, exitq, status>>
     \/ /\ t \notin ToSet(newq) \cup ToSet(readyq)
        /\ exitq' = LIST_REMOVE(exitq, t)
        /\ status' = [status EXCEPT ![t] = "UNKNOWN"]
        /\ UNCHANGED <<newq, readyq>>
  /\ killed' = killed \cup {t}

-----------------------------------------------------------------------------
(* Commands of the prompt.  A command that needs qlock while it is locked    *)
(* panics, which leads to the prompt again.                                  *)

AtPrompt == mode = "prompt" /\ held = {}

\* CreateEnv() and sched_new_env().
cmd_load ==
  /\ AtPrompt /\ freelist # <<>>
  /\ LET e == Head(freelist)
     IN  /\ freelist' = Tail(freelist)
         /\ status' = [status EXCEPT ![e] = "NEW"]
         /\ newq' = Append(newq, e)
  /\ UNCHANGED <<readyq, exitq, chan, proc, mode, held, cur_env, stage, slot,
                 arg, killed>>

\* The same, then sched_run_env(), which starts the scheduler.
cmd_run ==
  /\ AtPrompt /\ freelist # <<>>
  /\ LET e == Head(freelist)
     IN  /\ freelist' = Tail(freelist)
         /\ status' = [status EXCEPT ![e] = "READY"]
         /\ readyq' = Append(readyq, e)
  /\ mode' = "sti"
  /\ UNCHANGED <<newq, exitq, chan, proc, held, cur_env, stage, slot, arg,
                 killed>>

\* sched_run_all()
cmd_run_all ==
  /\ AtPrompt
  /\ newq' = <<>>
  /\ readyq' = readyq \o newq
  /\ status' = [e \in Envs |-> IF e \in ToSet(newq) THEN "READY" ELSE status[e]]
  /\ mode' = "sti"
  /\ UNCHANGED <<freelist, exitq, chan, proc, held, cur_env, stage, slot, arg,
                 killed>>

\* There is no current environment: a target in no queue fails an assertion.
cmd_kill(t) ==
  /\ AtPrompt /\ Killable(t)
  /\ kill_found(t)
  /\ UNCHANGED <<freelist, chan, proc, mode, held, cur_env, stage, slot, arg>>

\* sched_kill_all()
cmd_kill_all ==
  /\ AtPrompt
  /\ killed' = killed \cup {e \in Envs : Killable(e)}
  /\ status' = [e \in Envs |-> IF Killable(e) /\ status[e] # "READY"
                                 THEN "UNKNOWN" ELSE status[e]]
  /\ newq' = <<>> /\ readyq' = <<>> /\ exitq' = <<>>
  /\ UNCHANGED <<freelist, chan, proc, mode, held, cur_env, stage, slot, arg>>

\* Memory has run out and was not given back: env_create() marks the first
\* free slot and panics.
cmd_load_panics ==
  /\ mode = "prompt" /\ held # {} /\ freelist # <<>>
  /\ status' = [status EXCEPT ![Head(freelist)] = "UNKNOWN"]
  /\ UNCHANGED <<freelist, newq, readyq, exitq, chan, proc, mode, held, cur_env,
                 stage, slot, arg, killed>>

Prompt == \/ cmd_load \/ cmd_run \/ cmd_run_all \/ cmd_kill_all
          \/ cmd_load_panics \/ \E t \in Envs : cmd_kill(t)

-----------------------------------------------------------------------------
(* System calls of the running environment *)

In(e, s) == mode = "run" /\ proc = e /\ stage[e] = s

\* e moves on to stage s inside its system call, with its locals, ...
Enter(e, s) == stage' = [stage EXCEPT ![e] = s] /\ UNCHANGED arg

\* ... or returns from it, and its locals are gone.
Return(e) == /\ stage' = [stage EXCEPT ![e] = "user"]
             /\ slot' = [slot EXCEPT ![e] = NoEnv]
             /\ arg' = [arg EXCEPT ![e] = NoEnv]

\* Environments inside env_create() that may still run.
Creators == {c \in Envs : /\ stage[c] \in {"create", "init", "new"}
                          /\ c = proc \/ c \in ToSet(readyq)}

\* The arguments of a call that names an environment.
Args(call) == CASE call = "destroy" -> Envs \cup {NoEnv}
                [] call = "run"     -> Envs
                [] OTHER            -> {NoEnv}

\* syscall()
syscall(e, call, t) ==
  /\ In(e, "user")
  /\ call = "create" => Cardinality(Creators) < MaxCreators
  /\ cur_env' = e
  /\ stage' = [stage EXCEPT ![e] = call]
  /\ arg' = [arg EXCEPT ![e] = t]
  /\ UNCHANGED <<status, freelist, newq, readyq, exitq, chan, proc, mode, held,
                 slot, killed>>

\* Mutant: sys_create_env() does not look at the result of env_create().
allocate_environment_unchecked(e) ==
  /\ In(e, "create")
  /\ IF freelist = <<>>
       THEN Enter(e, "new") /\ UNCHANGED <<status, slot>>
       ELSE /\ status' = [status EXCEPT ![Head(freelist)] = "UNKNOWN"]
            /\ slot' = [slot EXCEPT ![e] = Head(freelist)]
            /\ Enter(e, "init")
  /\ UNCHANGED <<freelist, newq, readyq, exitq, chan, proc, mode, held, cur_env,
                 killed>>

\* allocate_environment() reads the first free slot and leaves it in the list.
allocate_environment(e) ==
  /\ In(e, "create")
  /\ IF freelist = <<>>
       THEN Return(e) /\ UNCHANGED status
       ELSE /\ status' = [status EXCEPT ![Head(freelist)] = "UNKNOWN"]
            /\ slot' = [slot EXCEPT ![e] = Head(freelist)]
            /\ Enter(e, "init")
  /\ UNCHANGED <<freelist, newq, readyq, exitq, chan, proc, mode, held, cur_env,
                 killed>>

\* Mutant: the allocation is not committed.
complete_environment_initialization_uncommitted(e) ==
  /\ In(e, "init")
  /\ slot[e] \in ToSet(freelist)
  /\ status' = [status EXCEPT ![slot[e]] = "NEW"]
  /\ Enter(e, "new")
  /\ UNCHANGED <<freelist, newq, readyq, exitq, chan, proc, mode, held, cur_env,
                 slot, killed>>

\* complete_environment_initialization() takes the slot out of the list.  (Of
\* two creators of one slot the second would unlink it from whatever list it
\* is in by then; that step is not modelled.)
complete_environment_initialization(e) ==
  /\ In(e, "init")
  /\ slot[e] \in ToSet(freelist)
  /\ status' = [status EXCEPT ![slot[e]] = "NEW"]
  /\ freelist' = LIST_REMOVE(freelist, slot[e])
  /\ Enter(e, "new")
  /\ UNCHANGED <<newq, readyq, exitq, chan, proc, mode, held, cur_env, slot, killed>>

\* Between the two env_create() builds the address space and loads the program;
\* a memory that does not suffice is out_of_memory() below.
env_create(e) == allocate_environment(e) \/ complete_environment_initialization(e)

sched_new_env(e) ==
  /\ In(e, "new")
  /\ status' = [status EXCEPT ![slot[e]] = "NEW"]
  /\ newq' = Append(newq, slot[e])
  /\ Return(e)
  /\ UNCHANGED <<freelist, readyq, exitq, chan, proc, mode, held, cur_env, killed>>

\* Mutant: the environment stays in the NEW queue.
sys_run_env_stays(e) ==
  /\ In(e, "run")
  /\ IF arg[e] \in ToSet(newq)
       THEN /\ readyq' = Append(readyq, arg[e])
            /\ status' = [status EXCEPT ![arg[e]] = "READY"]
       ELSE UNCHANGED <<readyq, status>>
  /\ Return(e)
  /\ UNCHANGED <<freelist, newq, exitq, chan, proc, mode, held, cur_env, killed>>

\* sched_run_env(): only a NEW environment is found.
sys_run_env(e) ==
  /\ In(e, "run")
  /\ IF arg[e] \in ToSet(newq)
       THEN /\ newq' = LIST_REMOVE(newq, arg[e])
            /\ readyq' = Append(readyq, arg[e])
            /\ status' = [status EXCEPT ![arg[e]] = "READY"]
       ELSE UNCHANGED <<newq, readyq, status>>
  /\ Return(e)
  /\ UNCHANGED <<freelist, exitq, chan, proc, mode, held, cur_env, killed>>

\* The environment that sys_destroy_env() works on: envid 0 means cur_env,
\* which is read after interrupts were enabled.
Target(e) == IF arg[e] = NoEnv THEN cur_env ELSE arg[e]

\* e goes to the EXIT queue and leaves the CPU.
env_exit(e) ==
  /\ exitq' = Append(exitq, e)
  /\ LET st == [status EXCEPT ![e] = "EXIT"] IN pick(st, readyq)

\* A target in a queue is removed.  For the caller itself sched() panics
\* because qlock is free, and the panic exits the caller.  Any other target,
\* BLOCKED or not known, is left as it is.
sys_destroy_env(e) ==
  /\ In(e, "destroy")
  /\ \/ /\ Killable(Target(e))
        /\ kill_found(Target(e))
        /\ Return(e)
        /\ UNCHANGED <<proc, mode>>
     \/ /\ ~Killable(Target(e)) /\ Target(e) = e
        /\ env_exit(e)
        /\ UNCHANGED <<newq, killed, stage, slot, arg>>
     \/ /\ ~Killable(Target(e)) /\ Target(e) # e
        /\ Return(e)
        /\ UNCHANGED <<proc, mode, newq, readyq, exitq, status, killed>>
  /\ UNCHANGED <<freelist, chan, held, cur_env>>

sys_exit_env(e) ==
  /\ In(e, "exit")
  /\ env_exit(e)
  /\ UNCHANGED <<freelist, newq, chan, held, cur_env, stage, slot, arg, killed>>

\* sleep() of channel.c; the call ends when the sleeper runs again.
sleep(e) ==
  /\ In(e, "sleep")
  /\ chan' = Append(chan, e)
  /\ LET st == [status EXCEPT ![e] = "BLOCKED"] IN pick(st, readyq)
  /\ Return(e)
  /\ UNCHANGED <<freelist, newq, exitq, held, cur_env, killed>>

wakeup_all(e) ==
  /\ In(e, "wakeup")
  /\ chan' = <<>>
  /\ readyq' = readyq \o chan
  /\ status' = [f \in Envs |-> IF f \in ToSet(chan) THEN "READY" ELSE status[f]]
  /\ Return(e)
  /\ UNCHANGED <<freelist, newq, exitq, proc, mode, held, cur_env, killed>>

\* allocate_frame() finds no frame for e and panics with the frame lists'
\* spinlock locked: _panic() exits e, whose sched() panics again because two
\* locks are held, this time into get_into_prompt(), which resets the CPU and
\* not the locks.
out_of_memory(e) ==
  /\ mode = "run" /\ proc = e
  /\ status' = [status EXCEPT ![e] = "EXIT"]
  /\ exitq' = Append(exitq, e)
  /\ held' = {"mfllock", "qlock"}
  /\ proc' = NoEnv
  /\ mode' = "prompt"
  /\ UNCHANGED <<freelist, newq, readyq, chan, cur_env, stage, slot, arg, killed>>

SystemCall(e) ==
  \/ \E call \in Calls : \E t \in Args(call) : syscall(e, call, t)
  \/ env_create(e) \/ sched_new_env(e) \/ sys_run_env(e)
  \/ sys_destroy_env(e) \/ sys_exit_env(e) \/ sleep(e) \/ wakeup_all(e)

LNext == \/ Prompt \/ scheduler \/ keyboard_wakeup_one
         \/ \E e \in Envs : SystemCall(e) \/ clock_yield(e) \/ out_of_memory(e)

LSpec == LInit /\ [][LNext]_lvars

\* The scheduler does not stop, and the clock ends every quantum.
LFairSpec == /\ LSpec
             /\ WF_lvars(scheduler)
             /\ \A e \in Envs : WF_lvars(clock_yield(e))

-----------------------------------------------------------------------------
(* Properties *)

\* Every variable has a value of its type.
LTypeOK ==
  /\ status \in [Envs -> LifeStatuses]
  /\ \A q \in {freelist, newq, readyq, exitq, chan} : q \in Seq(Envs)
  /\ proc \in Envs \cup {NoEnv}
  /\ mode \in {"prompt", "sti", "run"}
  /\ held \in SUBSET {"qlock", "mfllock"}
  /\ cur_env \in Envs \cup {NoEnv}
  /\ stage \in [Envs -> Stages]
  /\ slot \in [Envs -> Envs \cup {NoEnv}]
  /\ arg \in [Envs -> Envs \cup {NoEnv}]
  /\ killed \in SUBSET Envs

\* Every link to e: how often it is in a list, and whether it is on the CPU.
Links(e) == Count(freelist, e) + Count(newq, e) + Count(readyq, e)
            + Count(exitq, e) + Count(chan, e) + (IF proc = e THEN 1 ELSE 0)

\* The place of a slot and its env_status agree, and no slot is in two places:
\* a slot is in no list only if it was killed or is being created, or was when
\* its creator died.
PlaceAgreesWithStatus ==
  \A e \in Envs :
    /\ Links(e) <= 1
    /\ Links(e) = 0 =>
         \/ e \in killed /\ status[e] \in {"READY", "UNKNOWN"}
         \/ status[e] = "NEW" /\ \E c \in Envs : slot[c] = e /\ stage[c] = "new"
    /\ Links(e) = 1 =>
         CASE status[e] \in {"FREE", "UNKNOWN"} -> e \in ToSet(freelist)
           [] status[e] = "NEW"     -> e \in ToSet(newq)
           [] status[e] = "READY"   -> e \in ToSet(readyq)
           [] status[e] = "RUNNING" -> proc = e /\ mode = "run"
           [] status[e] = "BLOCKED" -> e \in ToSet(chan)
           [] status[e] = "EXIT"    -> e \in ToSet(exitq)

\* An environment that exited or was killed never gets the CPU again, although
\* a killed one may still have the status READY.
GoneStaysGone ==
  [][\A e \in Envs : (status[e] = "EXIT" \/ e \in killed) =>
       proc' # e /\ e \notin ToSet(readyq') \cup ToSet(chan')]_lvars

\* fos_scheduler() returns to the prompt only when there is nothing left that
\* could run or be woken.
PromptMeansIdle ==
  AtPrompt => /\ readyq = <<>> /\ chan = <<>> /\ proc = NoEnv
              /\ \A e \in Envs : status[e] \notin {"BLOCKED", "RUNNING"}

\* env_create() "Allocates a new env": the slot an environment is creating is
\* nobody else's, and nobody can find it before sched_new_env().
CreatedSlotIsPrivate ==
  \A c \in Creators : stage[c] \in {"init", "new"} =>
    /\ status[slot[c]] = IF stage[c] = "init" THEN "UNKNOWN" ELSE "NEW"
    /\ slot[c] \notin ToSet(newq)
    /\ \A d \in Creators : stage[d] \in {"init", "new"} /\ slot[d] = slot[c] => d = c

\* No two creators are between allocate_environment(), which reads the first
\* free slot, and complete_environment_initialization(), which unlinks it.
OneInside == \A c, d \in Creators : stage[c] = "init" /\ stage[d] = "init" => c = d

\* That window is all that calls of env_create() need to have for themselves:
\* however they overlap before and after it, are preempted, killed or run out of
\* memory, every slot that is being created stays private.
CreationsApart == []OneInside => []CreatedSlotIsPrivate

\* Round robin: what is READY gets the CPU, unless it is killed or a panic
\* stops the scheduler.
ReadyGetsTheCpu ==
  \A e \in Envs : e \in ToSet(readyq) ~> \/ proc = e \/ e \in killed
                                         \/ mode = "prompt"

-----------------------------------------------------------------------------
(* What the comments of the code say, and the code does not do *)

\* sys_destroy_env(): "Destroy a given environment whatever its state": the one
\* it works on is not asleep in a channel afterwards.
DestroyedWhateverItsState ==
  [][\A e \in Envs : sys_destroy_env(e) => Target(e) \notin ToSet(chan')]_lvars

\* sys_destroy_env(): "if envid=0, destroy the currently running environment".
DestroyZeroDestroysCaller ==
  [][\A e \in Envs :
       In(e, "destroy") /\ arg[e] = NoEnv => killed' \subseteq killed \cup {e}]_lvars
=============================================================================
