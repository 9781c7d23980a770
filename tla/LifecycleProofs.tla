--------------------------- MODULE LifecycleProofs ---------------------------
(***************************************************************************)
(* The slots of envs[] keep to one place each, for any number of slots and *)
(* of concurrent creators.                                                 *)
(*                                                                         *)
(* The invariant counts the links of a slot in every list, not only which  *)
(* lists it is in: a dequeue that takes one of two links would otherwise   *)
(* leave the slot where it was.                                            *)
(***************************************************************************)
EXTENDS Lifecycle, CommonTheorems

-----------------------------------------------------------------------------
(* The inductive invariant *)

\* e has left the free list for an env_create() that has not published it.
Fresh(e) == \E c \in Envs : slot[c] = e /\ stage[c] = "new"

\* What the links of a slot in the free list (f), the NEW (n), READY (r) and
\* EXIT (x) queues, a channel (c) and the CPU (p) say of its status s.
Fits(s, f, n, r, x, c, p, dead, fresh) ==
  /\ f + n + r + x + c + p <= 1
  /\ f = 1 => s \in {"FREE", "UNKNOWN"}
  /\ n = 1 => s = "NEW"
  /\ r = 1 => s = "READY"
  /\ x = 1 => s = "EXIT"
  /\ c = 1 => s = "BLOCKED"
  /\ p = 1 => s = "RUNNING"
  /\ f + n + r + x + c + p = 0 <=> dead \/ fresh
  /\ dead => s \in {"READY", "UNKNOWN"}
  /\ fresh => s = "NEW"

Place(e) == Fits(status[e], Count(freelist, e), Count(newq, e), Count(readyq, e),
                 Count(exitq, e), Count(chan, e), IF proc = e THEN 1 ELSE 0,
                 e \in killed, Fresh(e))

\* A slot that is being created has one creator.
Newcomers ==
  /\ \A c \in Envs : stage[c] = "new" => slot[c] \in Envs
  /\ \A c, d \in Envs :
       stage[c] = "new" /\ stage[d] = "new" /\ slot[c] = slot[d] => c = d

OnCpu == mode = "run" <=> proc # NoEnv

Idle == AtPrompt => readyq = <<>> /\ \A e \in Envs : status[e] # "BLOCKED"

LifeInv == /\ LTypeOK /\ Newcomers /\ OnCpu /\ Idle
           /\ \A e \in Envs : Place(e)

-----------------------------------------------------------------------------
(* Queues *)

\* An element is in a queue if and only if it has a link there.
LEMMA MemberCount ==
  ASSUME NEW S, NEW q \in Seq(S), NEW e
  PROVE  e \in ToSet(q) <=> Count(q, e) # 0
BY CountType DEF ToSet

\* The lists hold slots, each some number of times.
LEMMA Lists ==
  ASSUME LTypeOK
  PROVE  /\ freelist \in Seq(Envs) /\ newq \in Seq(Envs) /\ readyq \in Seq(Envs)
         /\ exitq \in Seq(Envs) /\ chan \in Seq(Envs)
         /\ \A e : /\ Count(freelist, e) \in Nat /\ Count(newq, e) \in Nat
                   /\ Count(readyq, e) \in Nat /\ Count(exitq, e) \in Nat
                   /\ Count(chan, e) \in Nat
<1>1. /\ freelist \in Seq(Envs) /\ newq \in Seq(Envs) /\ readyq \in Seq(Envs)
      /\ exitq \in Seq(Envs) /\ chan \in Seq(Envs)
  BY DEF LTypeOK
<1>2. QED
  BY <1>1, CountType

\* What is in a list is a slot.
LEMMA MemberType ==
  ASSUME NEW S, NEW q \in Seq(S), NEW e \in ToSet(q)
  PROVE  e \in S
BY DEF ToSet

\* LIST_REMOVE() of a member leaves a list of slots.
LEMMA RemoveType ==
  ASSUME NEW q \in Seq(Envs), NEW e \in ToSet(q)
  PROVE  LIST_REMOVE(q, e) \in Seq(Envs)
BY MemberCount, CountRemove

-----------------------------------------------------------------------------
(* Types *)

\* fos_scheduler() keeps the types.
LEMMA PickType ==
  ASSUME NEW st \in [Envs -> LifeStatuses], NEW q \in Seq(Envs), pick(st, q)
  PROVE  /\ status' \in [Envs -> LifeStatuses] /\ readyq' \in Seq(Envs)
         /\ proc' \in Envs \cup {NoEnv} /\ mode' \in {"prompt", "sti", "run"}
<1>1. CASE q # <<>>
  <2>1. Head(q) \in Envs /\ Tail(q) \in Seq(Envs)
    BY <1>1
  <2>2. QED
    BY <1>1, <2>1 DEF pick, LifeStatuses
<1>2. CASE q = <<>>
  BY <1>2 DEF pick
<1>3. QED
  BY <1>1, <1>2

\* sched_kill_env() keeps the types.
LEMMA KillType ==
  ASSUME LTypeOK, NEW t, Killable(t), kill_found(t)
  PROVE  /\ status' \in [Envs -> LifeStatuses] /\ t \in Envs
         /\ newq' \in Seq(Envs) /\ readyq' \in Seq(Envs) /\ exitq' \in Seq(Envs)
         /\ killed' \in SUBSET Envs
<1> USE Lists
<1>1. t \in Envs
  BY MemberType DEF Killable
<1>2. status \in [Envs -> LifeStatuses] /\ killed \in SUBSET Envs
  BY DEF LTypeOK
<1>3. killed' \in SUBSET Envs
  BY <1>1, <1>2 DEF kill_found
<1>4. CASE t \in ToSet(newq)
  BY <1>1, <1>2, <1>3, <1>4, RemoveType DEF kill_found, LifeStatuses
<1>5. CASE t \notin ToSet(newq) /\ t \in ToSet(readyq)
  BY <1>1, <1>2, <1>3, <1>5, RemoveType DEF kill_found
<1>6. CASE t \notin ToSet(newq) \cup ToSet(readyq)
  <2>1. t \in ToSet(exitq)
    BY <1>6 DEF Killable
  <2>2. LIST_REMOVE(exitq, t) \in Seq(Envs)
    BY <2>1, RemoveType
  <2>3. exitq' = LIST_REMOVE(exitq, t) /\ status' = [status EXCEPT ![t] = "UNKNOWN"] /\ UNCHANGED <<newq, readyq>>
    BY <1>6 DEF kill_found
  <2>4. QED
    BY <1>1, <1>2, <1>3, <2>2, <2>3 DEF LifeStatuses
<1>7. QED
  BY <1>4, <1>5, <1>6

\* Returning from a system call keeps the types.
LEMMA ReturnType ==
  ASSUME LTypeOK, NEW e \in Envs, Return(e)
  PROVE  /\ stage' \in [Envs -> Stages] /\ slot' \in [Envs -> Envs \cup {NoEnv}]
         /\ arg' \in [Envs -> Envs \cup {NoEnv}]
BY DEF LTypeOK, Return, Stages

\* Every step keeps the types, because a created slot is one of envs[].
LEMMA LifeTypeStep ==
  ASSUME LTypeOK, Newcomers, [LNext]_lvars
  PROVE  LTypeOK'
<1> USE Lists
<1>1. CASE UNCHANGED lvars
  BY <1>1 DEF lvars, LTypeOK
<1>2. CASE scheduler
  <2>1. pick(status, readyq) /\ status \in [Envs -> LifeStatuses]
    BY <1>2 DEF scheduler, LTypeOK
  <2>2. /\ status' \in [Envs -> LifeStatuses] /\ readyq' \in Seq(Envs)
        /\ proc' \in Envs \cup {NoEnv} /\ mode' \in {"prompt", "sti", "run"}
    BY <2>1, PickType
  <2>3. QED
    BY <1>2, <2>2 DEF scheduler, LTypeOK
<1>3. CASE keyboard_wakeup_one
  <2>1. chan # <<>> /\ Head(chan) \in Envs /\ Tail(chan) \in Seq(Envs)
    BY <1>3 DEF keyboard_wakeup_one
  <2>2. QED
    BY <1>3, <2>1 DEF keyboard_wakeup_one, LTypeOK, LifeStatuses
<1>4. CASE Prompt
  <2>1. CASE cmd_load \/ cmd_run \/ cmd_load_panics
    <3>1. freelist # <<>>
      BY <2>1 DEF cmd_load, cmd_run, cmd_load_panics
    <3>2. Head(freelist) \in Envs /\ Tail(freelist) \in Seq(Envs)
      BY <3>1
    <3>3. CASE cmd_load
      BY <3>2, <3>3 DEF cmd_load, LTypeOK, LifeStatuses
    <3>4. CASE cmd_run
      BY <3>2, <3>4 DEF cmd_run, LTypeOK, LifeStatuses
    <3>5. CASE cmd_load_panics
      BY <3>2, <3>5 DEF cmd_load_panics, LTypeOK, LifeStatuses
    <3>6. QED
      BY <2>1, <3>3, <3>4, <3>5
  <2>2. CASE cmd_run_all
    BY <2>2 DEF cmd_run_all, LTypeOK, LifeStatuses
  <2>3. CASE cmd_kill_all
    BY <2>3 DEF cmd_kill_all, LTypeOK, LifeStatuses
  <2>4. ASSUME NEW t \in Envs, cmd_kill(t)
        PROVE  LTypeOK'
    <3>1. /\ status' \in [Envs -> LifeStatuses]
          /\ newq' \in Seq(Envs) /\ readyq' \in Seq(Envs) /\ exitq' \in Seq(Envs)
          /\ killed' \in SUBSET Envs
      BY <2>4, KillType DEF cmd_kill
    <3>2. QED
      BY <2>4, <3>1 DEF cmd_kill, LTypeOK
  <2>5. QED
    BY <1>4, <2>1, <2>2, <2>3, <2>4 DEF Prompt
<1>5. ASSUME NEW e \in Envs, clock_yield(e)
      PROVE  LTypeOK'
  <2>1. PICK st : st = [status EXCEPT ![e] = "READY"]
    OBVIOUS
  <2>2. st \in [Envs -> LifeStatuses] /\ Append(readyq, e) \in Seq(Envs)
    BY <2>1 DEF LTypeOK, LifeStatuses
  <2>3. pick(st, Append(readyq, e))
    BY <1>5, <2>1 DEF clock_yield
  <2>4. /\ status' \in [Envs -> LifeStatuses] /\ readyq' \in Seq(Envs)
        /\ proc' \in Envs \cup {NoEnv} /\ mode' \in {"prompt", "sti", "run"}
    BY <2>2, <2>3, PickType
  <2>5. QED
    BY <1>5, <2>4 DEF clock_yield, LTypeOK
<1>6. ASSUME NEW e \in Envs, out_of_memory(e)
      PROVE  LTypeOK'
  BY <1>6 DEF out_of_memory, LTypeOK, LifeStatuses
<1>7. ASSUME NEW e \in Envs, NEW s \in LifeStatuses, pick([status EXCEPT ![e] = s], readyq)
      PROVE  /\ status' \in [Envs -> LifeStatuses] /\ readyq' \in Seq(Envs)
             /\ proc' \in Envs \cup {NoEnv} /\ mode' \in {"prompt", "sti", "run"}
  <2>1. [status EXCEPT ![e] = s] \in [Envs -> LifeStatuses]
    BY DEF LTypeOK
  <2>2. QED
    BY <1>7, <2>1, PickType
<1>8. ASSUME NEW e \in Envs, env_exit(e)
      PROVE  /\ status' \in [Envs -> LifeStatuses] /\ readyq' \in Seq(Envs)
             /\ proc' \in Envs \cup {NoEnv} /\ mode' \in {"prompt", "sti", "run"}
             /\ exitq' \in Seq(Envs)
  <2>1. pick([status EXCEPT ![e] = "EXIT"], readyq) /\ exitq' = Append(exitq, e)
    BY <1>8 DEF env_exit
  <2>2. /\ status' \in [Envs -> LifeStatuses] /\ readyq' \in Seq(Envs)
        /\ proc' \in Envs \cup {NoEnv} /\ mode' \in {"prompt", "sti", "run"}
    BY <2>1, <1>7 DEF LifeStatuses
  <2>3. QED
    BY <2>1, <2>2
<1>9. ASSUME NEW e \in Envs, SystemCall(e)
      PROVE  LTypeOK'
  <2>1. ASSUME NEW call \in Calls, NEW t \in Args(call), syscall(e, call, t)
        PROVE  LTypeOK'
    <3>1. t \in Envs \cup {NoEnv} /\ call \in Stages
      BY <2>1 DEF Args, Stages
    <3>2. QED
      BY <2>1, <3>1 DEF syscall, LTypeOK
  <2>2. CASE allocate_environment(e)
    <3>1. CASE freelist = <<>>
      BY <2>2, <3>1, ReturnType DEF allocate_environment, LTypeOK
    <3>2. CASE freelist # <<>>
      <4>1. Head(freelist) \in Envs
        BY <3>2
      <4>2. /\ status' = [status EXCEPT ![Head(freelist)] = "UNKNOWN"]
            /\ slot' = [slot EXCEPT ![e] = Head(freelist)]
        BY <2>2, <3>2 DEF allocate_environment
      <4>3. status' \in [Envs -> LifeStatuses] /\ slot' \in [Envs -> Envs \cup {NoEnv}]
        BY <4>1, <4>2 DEF LTypeOK, LifeStatuses
      <4>4. stage' \in [Envs -> Stages] /\ arg' = arg
        BY <2>2, <3>2 DEF allocate_environment, Enter, LTypeOK, Stages
      <4>5. QED
        BY <2>2, <4>3, <4>4 DEF allocate_environment, LTypeOK
    <3>3. QED
      BY <3>1, <3>2
  <2>3. CASE complete_environment_initialization(e)
    <3>1. slot[e] \in Envs /\ LIST_REMOVE(freelist, slot[e]) \in Seq(Envs)
      BY <2>3, MemberType, RemoveType DEF complete_environment_initialization
    <3>2. QED
      BY <2>3, <3>1 DEF complete_environment_initialization, Enter, LTypeOK, LifeStatuses,
                        Stages
  <2>4. CASE sched_new_env(e)
    <3>1. slot[e] \in Envs
      BY <2>4 DEF sched_new_env, In, Newcomers
    <3>2. QED
      BY <2>4, <3>1, ReturnType DEF sched_new_env, LTypeOK, LifeStatuses
  <2>5. CASE sys_run_env(e)
    <3>1. CASE arg[e] \in ToSet(newq)
      <4>1. arg[e] \in Envs /\ LIST_REMOVE(newq, arg[e]) \in Seq(Envs)
        BY <3>1, MemberType, RemoveType
      <4>2. newq' = LIST_REMOVE(newq, arg[e]) /\ readyq' = Append(readyq, arg[e])
        BY <2>5, <3>1 DEF sys_run_env
      <4>3. newq' \in Seq(Envs) /\ readyq' \in Seq(Envs)
        BY <4>1, <4>2
      <4>4. status' \in [Envs -> LifeStatuses]
        BY <2>5, <3>1 DEF sys_run_env, LTypeOK, LifeStatuses
      <4>5. QED
        BY <2>5, <4>3, <4>4, ReturnType DEF sys_run_env, LTypeOK
    <3>2. CASE arg[e] \notin ToSet(newq)
      BY <2>5, <3>2, ReturnType DEF sys_run_env, LTypeOK
    <3>3. QED
      BY <3>1, <3>2
  <2>6. CASE sys_destroy_env(e)
    <3>1. CASE Killable(Target(e)) /\ kill_found(Target(e)) /\ Return(e) /\ UNCHANGED <<proc, mode>>
      <4>1. /\ status' \in [Envs -> LifeStatuses]
            /\ newq' \in Seq(Envs) /\ readyq' \in Seq(Envs) /\ exitq' \in Seq(Envs)
            /\ killed' \in SUBSET Envs
        BY <3>1, KillType
      <4>2. QED
        BY <2>6, <3>1, <4>1, ReturnType DEF sys_destroy_env, LTypeOK
    <3>2. CASE env_exit(e) /\ UNCHANGED <<newq, killed, stage, slot, arg>>
      BY <2>6, <3>2, <1>8 DEF sys_destroy_env, LTypeOK
    <3>3. CASE Return(e) /\ UNCHANGED <<proc, mode, newq, readyq, exitq, status, killed>>
      BY <2>6, <3>3, ReturnType DEF sys_destroy_env, LTypeOK
    <3>4. QED
      BY <2>6, <3>1, <3>2, <3>3 DEF sys_destroy_env
  <2>7. CASE sys_exit_env(e)
    BY <2>7, <1>8 DEF sys_exit_env, LTypeOK
  <2>8. CASE sleep(e)
    <3>1. pick([status EXCEPT ![e] = "BLOCKED"], readyq) /\ Return(e)
      BY <2>8 DEF sleep
    <3>2. /\ status' \in [Envs -> LifeStatuses] /\ readyq' \in Seq(Envs)
          /\ proc' \in Envs \cup {NoEnv} /\ mode' \in {"prompt", "sti", "run"}
      BY <3>1, <1>7 DEF LifeStatuses
    <3>3. chan' \in Seq(Envs)
      BY <2>8 DEF sleep
    <3>4. QED
      BY <2>8, <3>1, <3>2, <3>3, ReturnType DEF sleep, LTypeOK
  <2>9. CASE wakeup_all(e)
    BY <2>9, ReturnType DEF wakeup_all, LTypeOK, LifeStatuses
  <2>10. QED
    BY <1>9, <2>1, <2>2, <2>3, <2>4, <2>5, <2>6, <2>7, <2>8, <2>9 DEF SystemCall, env_create
<1>10. QED
  BY <1>1, <1>2, <1>3, <1>4, <1>5, <1>6, <1>9 DEF LNext


-----------------------------------------------------------------------------
(* The scheduler *)

\* fos_scheduler() moves the head of the READY queue to the CPU and leaves
\* every other slot where it is.
LEMMA PickPlace ==
  ASSUME NEW st \in [Envs -> LifeStatuses], NEW q \in Seq(Envs), pick(st, q),
         NEW e \in Envs
  PROVE  \/ /\ proc' # e /\ Count(readyq', e) = Count(q, e) /\ status'[e] = st[e]
         \/ /\ proc' = e /\ Count(readyq', e) = Count(q, e) - 1
            /\ Count(q, e) # 0 /\ status'[e] = "RUNNING"
<1>1. CASE q # <<>>
  <2>1. PICK h \in Envs : h = Head(q)
    BY <1>1
  <2>2. proc' = h /\ readyq' = Tail(q) /\ status' = [st EXCEPT ![h] = "RUNNING"]
    BY <1>1, <2>1 DEF pick
  <2>3. Count(readyq', e) = Count(q, e) - IF h = e THEN 1 ELSE 0
    BY <1>1, <2>1, <2>2, CountTail
  <2>4. Count(q, e) \in Nat
    BY CountType
  <2>5. h = e => Count(q, e) # 0
    <3>1. 1 \in DOMAIN q /\ q[1] = h
      BY <1>1, <2>1
    <3>2. QED
      BY <3>1, CountType
  <2>6. QED
    BY <2>2, <2>3, <2>4, <2>5
<1>2. CASE q = <<>>
  BY <1>2, LifecycleAssumption DEF pick
<1>3. QED
  BY <1>1, <1>2

\* fos_scheduler() enters the prompt only when nothing is READY or BLOCKED.
LEMMA PickIdle ==
  ASSUME NEW st \in [Envs -> LifeStatuses], NEW q \in Seq(Envs), pick(st, q)
  PROVE  OnCpu' /\ Idle'
<1>1. CASE q # <<>>
  <2>1. Head(q) \in Envs
    BY <1>1
  <2>2. QED
    BY <1>1, <2>1, LifecycleAssumption DEF pick, OnCpu, Idle, AtPrompt
<1>2. CASE q = <<>>
  BY <1>2 DEF pick, OnCpu, Idle, AtPrompt
<1>3. QED
  BY <1>1, <1>2

\* The slots that are being created stay the same as long as no creator enters
\* or leaves the stage between its commit and sched_new_env().
LEMMA SameFresh ==
  ASSUME \A c \in Envs : /\ stage'[c] = "new" <=> stage[c] = "new"
                         /\ stage[c] = "new" => slot'[c] = slot[c]
  PROVE  /\ \A e \in Envs : Fresh(e)' <=> Fresh(e)
         /\ Newcomers => Newcomers'
BY DEF Fresh, Newcomers

\* Returning from any other call is such a step.
LEMMA ReturnFresh ==
  ASSUME LTypeOK, NEW e \in Envs, stage[e] # "new", Return(e)
  PROVE  /\ \A f \in Envs : Fresh(f)' <=> Fresh(f)
         /\ Newcomers => Newcomers'
<1>1. \A c \in Envs : /\ stage'[c] = "new" <=> stage[c] = "new"
                      /\ stage[c] = "new" => slot'[c] = slot[c]
  BY DEF Return, LTypeOK
<1>2. QED
  BY <1>1, SameFresh

\* So is a step that leaves the calls alone.
LEMMA StillFresh ==
  ASSUME UNCHANGED <<stage, slot>>
  PROVE  /\ \A f \in Envs : Fresh(f)' <=> Fresh(f)
         /\ Newcomers => Newcomers'
BY SameFresh

\* A slot keeps its place if its links and its status stay.
LEMMA Unmoved ==
  ASSUME LifeInv, NEW f \in Envs,
         status'[f] = status[f], Fresh(f)' <=> Fresh(f),
         f \in killed' <=> f \in killed, proc' = f <=> proc = f,
         Count(freelist', f) = Count(freelist, f), Count(newq', f) = Count(newq, f),
         Count(readyq', f) = Count(readyq, f), Count(exitq', f) = Count(exitq, f),
         Count(chan', f) = Count(chan, f)
  PROVE  Place(f)'
BY DEF LifeInv, Place, Fits

\* A slot has a link in one place only; one on the CPU is nowhere else.
LEMMA OneLink ==
  ASSUME NEW f \in Nat, NEW n \in Nat, NEW r \in Nat, NEW x \in Nat, NEW c \in Nat,
         NEW p \in {0, 1}, f + n + r + x + c + p <= 1
  PROVE  /\ \/ f = 0 /\ n = 0 /\ r = 0 /\ x = 0 /\ c = 0
            \/ f = 1 /\ n = 0 /\ r = 0 /\ x = 0 /\ c = 0 /\ p = 0
            \/ f = 0 /\ n = 1 /\ r = 0 /\ x = 0 /\ c = 0 /\ p = 0
            \/ f = 0 /\ n = 0 /\ r = 1 /\ x = 0 /\ c = 0 /\ p = 0
            \/ f = 0 /\ n = 0 /\ r = 0 /\ x = 1 /\ c = 0 /\ p = 0
            \/ f = 0 /\ n = 0 /\ r = 0 /\ x = 0 /\ c = 1 /\ p = 0
         /\ f + n + r + x + c + p = 0
              <=> f = 0 /\ n = 0 /\ r = 0 /\ x = 0 /\ c = 0 /\ p = 0
OBVIOUS

\* The same of the links of a slot.
LEMMA OnePlace ==
  ASSUME LifeInv, NEW e \in Envs
  PROVE  /\ Count(freelist, e) \in {0, 1} /\ Count(newq, e) \in {0, 1}
         /\ Count(readyq, e) \in {0, 1} /\ Count(exitq, e) \in {0, 1}
         /\ Count(chan, e) \in {0, 1}
         /\ Count(freelist, e) = 1 => /\ Count(newq, e) = 0 /\ Count(readyq, e) = 0
                                     /\ Count(exitq, e) = 0 /\ Count(chan, e) = 0
                                     /\ proc # e /\ status[e] \in {"FREE", "UNKNOWN"}
         /\ Count(newq, e) = 1 => /\ Count(freelist, e) = 0 /\ Count(readyq, e) = 0
                                 /\ Count(exitq, e) = 0 /\ Count(chan, e) = 0
                                 /\ proc # e /\ status[e] = "NEW"
         /\ Count(readyq, e) = 1 => /\ Count(freelist, e) = 0 /\ Count(newq, e) = 0
                                   /\ Count(exitq, e) = 0 /\ Count(chan, e) = 0
                                   /\ proc # e /\ status[e] = "READY"
         /\ Count(exitq, e) = 1 => /\ Count(freelist, e) = 0 /\ Count(newq, e) = 0
                                  /\ Count(readyq, e) = 0 /\ Count(chan, e) = 0
                                  /\ proc # e /\ status[e] = "EXIT"
         /\ Count(chan, e) = 1 => /\ Count(freelist, e) = 0 /\ Count(newq, e) = 0
                                 /\ Count(readyq, e) = 0 /\ Count(exitq, e) = 0
                                 /\ proc # e /\ status[e] = "BLOCKED"
         /\ proc = e => /\ Count(freelist, e) = 0 /\ Count(newq, e) = 0
                        /\ Count(readyq, e) = 0 /\ Count(exitq, e) = 0
                        /\ Count(chan, e) = 0 /\ status[e] = "RUNNING"
         /\ (e \in killed \/ Fresh(e)) <=>
              /\ Count(freelist, e) = 0 /\ Count(newq, e) = 0 /\ Count(readyq, e) = 0
              /\ Count(exitq, e) = 0 /\ Count(chan, e) = 0 /\ proc # e
<1> DEFINE f == Count(freelist, e)
           n == Count(newq, e)
           r == Count(readyq, e)
           x == Count(exitq, e)
           c == Count(chan, e)
           p == IF proc = e THEN 1 ELSE 0
<1>1. f \in Nat /\ n \in Nat /\ r \in Nat /\ x \in Nat /\ c \in Nat
  BY Lists DEF LifeInv
<1>2. p \in {0, 1} /\ (p = 1 <=> proc = e)
  OBVIOUS
<1>3. Fits(status[e], f, n, r, x, c, p, e \in killed, Fresh(e))
  BY DEF LifeInv, Place
<1> HIDE DEF f, n, r, x, c, p
<1>4. /\ f + n + r + x + c + p <= 1
      /\ f = 1 => status[e] \in {"FREE", "UNKNOWN"}
      /\ n = 1 => status[e] = "NEW"
      /\ r = 1 => status[e] = "READY"
      /\ x = 1 => status[e] = "EXIT"
      /\ c = 1 => status[e] = "BLOCKED"
      /\ p = 1 => status[e] = "RUNNING"
      /\ (f + n + r + x + c + p = 0) <=> (e \in killed \/ Fresh(e))
  BY <1>3 DEF Fits
<1>5. /\ \/ f = 0 /\ n = 0 /\ r = 0 /\ x = 0 /\ c = 0
         \/ f = 1 /\ n = 0 /\ r = 0 /\ x = 0 /\ c = 0 /\ p = 0
         \/ f = 0 /\ n = 1 /\ r = 0 /\ x = 0 /\ c = 0 /\ p = 0
         \/ f = 0 /\ n = 0 /\ r = 1 /\ x = 0 /\ c = 0 /\ p = 0
         \/ f = 0 /\ n = 0 /\ r = 0 /\ x = 1 /\ c = 0 /\ p = 0
         \/ f = 0 /\ n = 0 /\ r = 0 /\ x = 0 /\ c = 1 /\ p = 0
      /\ f + n + r + x + c + p = 0
           <=> f = 0 /\ n = 0 /\ r = 0 /\ x = 0 /\ c = 0 /\ p = 0
  BY <1>1, <1>2, <1>4, OneLink
<1>6. p = 0 <=> proc # e
  BY <1>2
<1>7. (e \in killed \/ Fresh(e)) <=> f = 0 /\ n = 0 /\ r = 0 /\ x = 0 /\ c = 0 /\ proc # e
  BY <1>4, <1>5, <1>6
<1>8. QED
  BY <1>2, <1>4, <1>5, <1>6, <1>7 DEF f, n, r, x, c

-----------------------------------------------------------------------------
(* What runs next *)

\* The scheduler that waits keeps every slot in its place.
LEMMA SchedulerStep ==
  ASSUME LifeInv, scheduler
  PROVE  Newcomers' /\ OnCpu' /\ Idle' /\ \A f \in Envs : Place(f)'
<1>1. status \in [Envs -> LifeStatuses] /\ readyq \in Seq(Envs) /\ pick(status, readyq)
  BY Lists DEF LifeInv, LTypeOK, scheduler
<1>2. OnCpu' /\ Idle'
  BY <1>1, PickIdle
<1>3. /\ \A f \in Envs : Fresh(f)' <=> Fresh(f)
      /\ Newcomers'
  BY StillFresh DEF scheduler, LifeInv
<1>4. ASSUME NEW f \in Envs
      PROVE  Place(f)'
  <2>1. \/ /\ proc' # f /\ Count(readyq', f) = Count(readyq, f) /\ status'[f] = status[f]
        \/ /\ proc' = f /\ Count(readyq', f) = Count(readyq, f) - 1
           /\ Count(readyq, f) # 0 /\ status'[f] = "RUNNING"
    BY <1>1, PickPlace
  <2>2. /\ Count(freelist, f) \in Nat /\ Count(newq, f) \in Nat
        /\ Count(readyq, f) \in Nat /\ Count(exitq, f) \in Nat
        /\ Count(chan, f) \in Nat
    BY Lists DEF LifeInv
  <2>3. proc = NoEnv /\ proc # f /\ UNCHANGED <<freelist, newq, exitq, chan, killed>>
    BY LifecycleAssumption DEF scheduler, LifeInv, OnCpu, LTypeOK
  <2>4. QED
    BY <1>3, <2>1, <2>2, <2>3 DEF LifeInv, Place, Fits
<1>5. QED
  BY <1>2, <1>3, <1>4

\* e leaves the CPU for the queue that its new status s names; st are the
\* statuses and q is the READY queue that fos_scheduler() then finds.
Leaves(e, s, st, q) ==
  /\ proc = e /\ q \in Seq(Envs) /\ s \in {"READY", "EXIT", "BLOCKED"}
  /\ st = [status EXCEPT ![e] = s]
  /\ pick(st, q)
  /\ UNCHANGED <<freelist, newq, killed>>
  /\ \A f \in Envs :
       /\ Fresh(f)' <=> Fresh(f)
       /\ Count(q, f) = Count(readyq, f) + IF s = "READY" /\ f = e THEN 1 ELSE 0
       /\ Count(exitq', f) = Count(exitq, f) + IF s = "EXIT" /\ f = e THEN 1 ELSE 0
       /\ Count(chan', f) = Count(chan, f) + IF s = "BLOCKED" /\ f = e THEN 1 ELSE 0

\* Such a step keeps every slot in its place.
LEMMA LeaveStep ==
  ASSUME LifeInv, NEW e \in Envs, NEW s, NEW st, NEW q, Leaves(e, s, st, q)
  PROVE  OnCpu' /\ Idle' /\ \A f \in Envs : Place(f)'
<1> USE DEF Leaves
<1>1. /\ st \in [Envs -> LifeStatuses] /\ st[e] = s
      /\ \A f \in Envs : f # e => st[f] = status[f]
  BY DEF LifeInv, LTypeOK, LifeStatuses
<1>2. OnCpu' /\ Idle'
  BY <1>1, PickIdle
<1>3. ASSUME NEW f \in Envs
      PROVE  Place(f)'
  <2>1. \/ /\ proc' # f /\ Count(readyq', f) = Count(q, f) /\ status'[f] = st[f]
        \/ /\ proc' = f /\ Count(readyq', f) = Count(q, f) - 1
           /\ Count(q, f) # 0 /\ status'[f] = "RUNNING"
    BY <1>1, PickPlace
  <2>2. /\ Count(freelist, f) \in Nat /\ Count(newq, f) \in Nat
        /\ Count(readyq, f) \in Nat /\ Count(exitq, f) \in Nat
        /\ Count(chan, f) \in Nat
    BY Lists DEF LifeInv
  <2>3. Place(f)
    BY DEF LifeInv
  <2>4. CASE e # f
    <3>1. /\ Count(exitq', f) = Count(exitq, f) /\ Count(chan', f) = Count(chan, f)
          /\ Count(q, f) = Count(readyq, f) /\ st[f] = status[f] /\ proc # f
      BY <1>1, <2>2, <2>4
    <3>2. CASE proc' # f
      BY <2>1, <2>3, <3>1, <3>2 DEF Place, Fits
    <3>3. CASE proc' = f
      <4>1. /\ Count(freelist, f) = 0 /\ Count(newq, f) = 0 /\ Count(readyq, f) = 1
            /\ Count(exitq, f) = 0 /\ Count(chan, f) = 0
            /\ f \notin killed /\ ~Fresh(f)
        <5>1. Count(readyq, f) # 0
          BY <2>1, <3>1, <3>3
        <5>2. QED
          BY <2>2, <2>3, <3>1, <5>1 DEF Place, Fits
      <4>2. Count(readyq', f) = 0 /\ status'[f] = "RUNNING"
        BY <2>1, <3>1, <3>3, <4>1
      <4>3. QED
        BY <3>1, <3>3, <4>1, <4>2 DEF Place, Fits
    <3>4. QED
      BY <3>2, <3>3
  <2>5. CASE e = f
    <3>1. /\ Count(freelist, f) = 0 /\ Count(newq, f) = 0 /\ Count(readyq, f) = 0
          /\ Count(exitq, f) = 0 /\ Count(chan, f) = 0
          /\ f \notin killed /\ ~Fresh(f)
      BY <2>5, OnePlace
    <3>2. CASE s = "READY"
      <4>1. Count(q, f) = 1 /\ Count(exitq', f) = 0 /\ Count(chan', f) = 0
        BY <2>5, <3>1, <3>2
      <4>2. CASE proc' # f
        BY <1>1, <2>1, <2>5, <3>1, <3>2, <4>1, <4>2 DEF Place, Fits
      <4>3. CASE proc' = f
        BY <1>1, <2>1, <2>5, <3>1, <3>2, <4>1, <4>3 DEF Place, Fits
      <4>4. QED
        BY <4>2, <4>3
    <3>3. CASE s = "EXIT"
      <4>1. Count(q, f) = 0 /\ Count(exitq', f) = 1 /\ Count(chan', f) = 0
        BY <2>5, <3>1, <3>3
      <4>2. QED
        BY <1>1, <2>1, <2>5, <3>1, <3>3, <4>1 DEF Place, Fits
    <3>4. CASE s = "BLOCKED"
      <4>1. Count(q, f) = 0 /\ Count(exitq', f) = 0 /\ Count(chan', f) = 1
        BY <2>5, <3>1, <3>4
      <4>2. QED
        BY <1>1, <2>1, <2>5, <3>1, <3>4, <4>1 DEF Place, Fits
    <3>5. QED
      BY <3>2, <3>3, <3>4
  <2>6. QED
    BY <2>4, <2>5
<1>4. QED
  BY <1>2, <1>3


\* The slots that a step does not move keep their place.
LEMMA OthersStay ==
  ASSUME LifeInv, NEW t, Place(t)',
         \A f \in Envs \ {t} :
           /\ status'[f] = status[f] /\ (Fresh(f)' <=> Fresh(f))
           /\ (f \in killed' <=> f \in killed) /\ (proc' = f <=> proc = f)
           /\ Count(freelist', f) = Count(freelist, f) /\ Count(newq', f) = Count(newq, f)
           /\ Count(readyq', f) = Count(readyq, f) /\ Count(exitq', f) = Count(exitq, f)
           /\ Count(chan', f) = Count(chan, f)
  PROVE  \A f \in Envs : Place(f)'
<1>1. ASSUME NEW f \in Envs, f # t
      PROVE  Place(f)'
  BY <1>1, Unmoved
<1>2. QED
  BY <1>1

\* wakeup_one() moves the first sleeper to the READY queue.
LEMMA KeyboardStep ==
  ASSUME LifeInv, keyboard_wakeup_one
  PROVE  Newcomers' /\ OnCpu' /\ Idle' /\ \A f \in Envs : Place(f)'
<1>1. chan # <<>> /\ chan \in Seq(Envs) /\ readyq \in Seq(Envs)
  BY Lists DEF keyboard_wakeup_one, LifeInv
<1>2. PICK t \in Envs : t = Head(chan)
  BY <1>1
<1>3. /\ chan' = Tail(chan) /\ readyq' = Append(readyq, t)
      /\ status' = [status EXCEPT ![t] = "READY"] /\ mode # "prompt"
      /\ UNCHANGED <<freelist, newq, exitq, proc, mode, held, stage, slot, killed>>
  BY <1>2 DEF keyboard_wakeup_one
<1>4. \A f \in Envs : /\ Count(chan', f) = Count(chan, f) - IF t = f THEN 1 ELSE 0
                      /\ Count(readyq', f) = Count(readyq, f) + IF t = f THEN 1 ELSE 0
                      /\ Count(chan, f) \in Nat /\ Count(readyq, f) \in Nat
  BY <1>1, <1>2, <1>3, CountTail, CountAppend, CountType
<1>5. \A f \in Envs : Fresh(f)' <=> Fresh(f)
  BY <1>3, StillFresh
<1>6. Newcomers' /\ OnCpu' /\ Idle'
  BY <1>3, StillFresh DEF LifeInv, OnCpu, Idle, AtPrompt
<1>7. status \in [Envs -> LifeStatuses]
  BY DEF LifeInv, LTypeOK
<1>8. Place(t)'
  <2>1. Count(chan, t) # 0
    <3>1. 1 \in DOMAIN chan /\ chan[1] = t
      BY <1>1, <1>2
    <3>2. QED
      BY <1>1, <3>1, CountType
  <2>2. /\ Count(freelist, t) = 0 /\ Count(newq, t) = 0 /\ Count(readyq, t) = 0
        /\ Count(exitq, t) = 0 /\ Count(chan, t) = 1 /\ proc # t
        /\ t \notin killed /\ ~Fresh(t)
    BY <2>1, OnePlace
  <2>3. /\ Count(readyq', t) = 1 /\ Count(chan', t) = 0 /\ status'[t] = "READY"
    BY <1>3, <1>4, <1>7, <2>2
  <2>4. QED
    BY <1>3, <1>5, <2>2, <2>3 DEF Place, Fits
<1>9. \A f \in Envs \ {t} :
        /\ status'[f] = status[f] /\ Count(chan', f) = Count(chan, f)
        /\ Count(readyq', f) = Count(readyq, f)
  BY <1>3, <1>4, <1>7
<1>10. QED
  BY <1>3, <1>5, <1>6, <1>8, <1>9, OthersStay

\* The panic of an environment that finds no frame leaves it in the EXIT queue.
LEMMA OutOfMemoryStep ==
  ASSUME LifeInv, NEW e \in Envs, out_of_memory(e)
  PROVE  Newcomers' /\ OnCpu' /\ Idle' /\ \A f \in Envs : Place(f)'
<1>1. /\ exitq' = Append(exitq, e) /\ status' = [status EXCEPT ![e] = "EXIT"]
      /\ proc = e /\ proc' = NoEnv /\ mode' = "prompt" /\ held' # {}
      /\ UNCHANGED <<freelist, newq, readyq, chan, stage, slot, killed>>
  BY DEF out_of_memory
<1>2. \A f \in Envs : /\ Count(exitq', f) = Count(exitq, f) + IF e = f THEN 1 ELSE 0
                      /\ Count(exitq, f) \in Nat
  BY <1>1, Lists, CountAppend DEF LifeInv
<1>3. \A f \in Envs : Fresh(f)' <=> Fresh(f)
  BY <1>1, StillFresh
<1>4. Newcomers' /\ OnCpu' /\ Idle'
  BY <1>1, StillFresh DEF LifeInv, OnCpu, Idle, AtPrompt
<1>5. status \in [Envs -> LifeStatuses]
  BY DEF LifeInv, LTypeOK
<1>6. Place(e)'
  <2>1. /\ Count(freelist, e) = 0 /\ Count(newq, e) = 0 /\ Count(readyq, e) = 0
        /\ Count(exitq, e) = 0 /\ Count(chan, e) = 0 /\ e \notin killed /\ ~Fresh(e)
    BY <1>1, OnePlace
  <2>2. Count(exitq', e) = 1 /\ status'[e] = "EXIT" /\ proc' # e
    BY <1>1, <1>2, <1>5, <2>1, LifecycleAssumption
  <2>3. QED
    BY <1>1, <1>3, <2>1, <2>2 DEF Place, Fits
<1>7. \A f \in Envs \ {e} :
        /\ status'[f] = status[f] /\ Count(exitq', f) = Count(exitq, f)
        /\ (proc' = f <=> proc = f)
  BY <1>1, <1>2, <1>5, LifecycleAssumption
<1>8. QED
  BY <1>1, <1>3, <1>4, <1>6, <1>7, OthersStay

\* The end of a quantum moves the environment to the READY queue.
LEMMA YieldStep ==
  ASSUME LifeInv, NEW e \in Envs, clock_yield(e)
  PROVE  Newcomers' /\ OnCpu' /\ Idle' /\ \A f \in Envs : Place(f)'
<1>1. PICK st : st = [status EXCEPT ![e] = "READY"]
  OBVIOUS
<1>2. PICK q : q = Append(readyq, e)
  OBVIOUS
<1>3. /\ pick(st, q) /\ proc = e
      /\ UNCHANGED <<freelist, newq, exitq, chan, killed, stage, slot>>
  BY <1>1, <1>2 DEF clock_yield
<1>4. q \in Seq(Envs) /\ readyq \in Seq(Envs)
  BY <1>2, Lists DEF LifeInv
<1>5. \A f \in Envs : Fresh(f)' <=> Fresh(f)
  BY <1>3, StillFresh
<1>6. \A f \in Envs :
        /\ Count(q, f) = Count(readyq, f) + IF f = e THEN 1 ELSE 0
        /\ Count(exitq', f) = Count(exitq, f) /\ Count(exitq, f) \in Nat
        /\ Count(chan', f) = Count(chan, f) /\ Count(chan, f) \in Nat
  <2>1. ASSUME NEW f \in Envs
        PROVE  Count(q, f) = Count(readyq, f) + IF f = e THEN 1 ELSE 0
    BY <1>2, <1>4, CountAppend
  <2>2. QED
    BY <1>3, <2>1, Lists DEF LifeInv
<1>7. PICK s : s = "READY"
  OBVIOUS
<1>8. Leaves(e, s, st, q)
  BY <1>1, <1>3, <1>4, <1>5, <1>6, <1>7 DEF Leaves
<1>9. OnCpu' /\ Idle' /\ \A f \in Envs : Place(f)'
  BY <1>8, LeaveStep
<1>10. QED
  BY <1>3, <1>9, StillFresh DEF LifeInv

\* So does an exit, to the EXIT queue ...
LEMMA ExitStep ==
  ASSUME LifeInv, NEW e \in Envs, env_exit(e), proc = e,
         UNCHANGED <<freelist, newq, chan, stage, slot, killed>>
  PROVE  Newcomers' /\ OnCpu' /\ Idle' /\ \A f \in Envs : Place(f)'
<1>1. PICK st : st = [status EXCEPT ![e] = "EXIT"]
  OBVIOUS
<1>2. PICK q : q = readyq
  OBVIOUS
<1>3. pick(st, q) /\ exitq' = Append(exitq, e)
  BY <1>1, <1>2 DEF env_exit
<1>4. q \in Seq(Envs) /\ exitq \in Seq(Envs)
  BY <1>2, Lists DEF LifeInv
<1>5. \A f \in Envs : Fresh(f)' <=> Fresh(f)
  BY StillFresh
<1>6. \A f \in Envs :
        /\ Count(exitq', f) = Count(exitq, f) + IF f = e THEN 1 ELSE 0
        /\ Count(q, f) = Count(readyq, f) /\ Count(readyq, f) \in Nat
        /\ Count(chan', f) = Count(chan, f) /\ Count(chan, f) \in Nat
  <2>1. ASSUME NEW f \in Envs
        PROVE  Count(exitq', f) = Count(exitq, f) + IF f = e THEN 1 ELSE 0
    BY <1>3, <1>4, CountAppend
  <2>2. QED
    BY <1>2, <2>1, Lists DEF LifeInv
<1>7. PICK s : s = "EXIT"
  OBVIOUS
<1>8. Leaves(e, s, st, q)
  BY <1>1, <1>3, <1>4, <1>5, <1>6, <1>7 DEF Leaves
<1>9. OnCpu' /\ Idle' /\ \A f \in Envs : Place(f)'
  BY <1>8, LeaveStep
<1>10. QED
  BY <1>9, StillFresh DEF LifeInv

\* ... and a sleep, to the channel.
LEMMA SleepStep ==
  ASSUME LifeInv, NEW e \in Envs, sleep(e)
  PROVE  Newcomers' /\ OnCpu' /\ Idle' /\ \A f \in Envs : Place(f)'
<1>1. PICK st : st = [status EXCEPT ![e] = "BLOCKED"]
  OBVIOUS
<1>2. PICK q : q = readyq
  OBVIOUS
<1>3. /\ pick(st, q) /\ chan' = Append(chan, e) /\ proc = e
      /\ UNCHANGED <<freelist, newq, exitq, killed>>
  BY <1>1, <1>2 DEF sleep, In
<1>4. q \in Seq(Envs) /\ chan \in Seq(Envs)
  BY <1>2, Lists DEF LifeInv
<1>5. (\A f \in Envs : Fresh(f)' <=> Fresh(f)) /\ Newcomers'
  BY ReturnFresh DEF sleep, In, LifeInv
<1>6. \A f \in Envs :
        /\ Count(chan', f) = Count(chan, f) + IF f = e THEN 1 ELSE 0
        /\ Count(q, f) = Count(readyq, f) /\ Count(readyq, f) \in Nat
        /\ Count(exitq', f) = Count(exitq, f) /\ Count(exitq, f) \in Nat
  <2>1. ASSUME NEW f \in Envs
        PROVE  Count(chan', f) = Count(chan, f) + IF f = e THEN 1 ELSE 0
    BY <1>3, <1>4, CountAppend
  <2>2. QED
    BY <1>2, <1>3, <2>1, Lists DEF LifeInv
<1>7. PICK s : s = "BLOCKED"
  OBVIOUS
<1>8. Leaves(e, s, st, q)
  BY <1>1, <1>3, <1>4, <1>5, <1>6, <1>7 DEF Leaves
<1>9. OnCpu' /\ Idle' /\ \A f \in Envs : Place(f)'
  BY <1>8, LeaveStep
<1>10. QED
  BY <1>5, <1>9


-----------------------------------------------------------------------------
(* Commands and system calls *)

\* The head of a list has a link there.
LEMMA HeadCount ==
  ASSUME NEW q \in Seq(Envs), q # <<>>
  PROVE  Head(q) \in Envs /\ Count(q, Head(q)) # 0
<1>1. 1 \in DOMAIN q /\ q[1] = Head(q) /\ Head(q) \in Envs
  OBVIOUS
<1>2. QED
  BY <1>1, CountType

\* CreateEnv() of the prompt takes the first free slot to the NEW or the READY
\* queue.
LEMMA LoadStep ==
  ASSUME LifeInv, cmd_load \/ cmd_run
  PROVE  Newcomers' /\ OnCpu' /\ Idle' /\ \A f \in Envs : Place(f)'
<1>1. freelist # <<>> /\ freelist \in Seq(Envs) /\ newq \in Seq(Envs) /\ readyq \in Seq(Envs)
  BY Lists DEF cmd_load, cmd_run, LifeInv
<1>2. PICK t \in Envs : t = Head(freelist) /\ Count(freelist, t) # 0
  BY <1>1, HeadCount
<1>3. /\ freelist' = Tail(freelist) /\ AtPrompt
      /\ UNCHANGED <<exitq, chan, proc, held, stage, slot, killed>>
      /\ \/ /\ newq' = Append(newq, t) /\ status' = [status EXCEPT ![t] = "NEW"]
            /\ UNCHANGED <<readyq, mode>>
         \/ /\ readyq' = Append(readyq, t) /\ status' = [status EXCEPT ![t] = "READY"]
            /\ mode' = "sti" /\ UNCHANGED newq
  BY <1>2 DEF cmd_load, cmd_run
<1>4. ASSUME NEW f \in Envs
      PROVE  /\ Count(Tail(freelist), f) = Count(freelist, f) - IF t = f THEN 1 ELSE 0
             /\ Count(Append(newq, t), f) = Count(newq, f) + IF t = f THEN 1 ELSE 0
             /\ Count(Append(readyq, t), f) = Count(readyq, f) + IF t = f THEN 1 ELSE 0
             /\ Count(freelist, f) \in Nat /\ Count(newq, f) \in Nat
             /\ Count(readyq, f) \in Nat
  BY <1>1, <1>2, CountTail, CountAppend, CountType
<1>5. (\A f \in Envs : Fresh(f)' <=> Fresh(f)) /\ Newcomers'
  BY <1>3, StillFresh DEF LifeInv
<1>6. status \in [Envs -> LifeStatuses]
  BY DEF LifeInv, LTypeOK
<1>7. /\ Count(freelist, t) = 1 /\ Count(newq, t) = 0 /\ Count(readyq, t) = 0
      /\ Count(exitq, t) = 0 /\ Count(chan, t) = 0 /\ proc # t
      /\ t \notin killed /\ ~Fresh(t)
  BY <1>2, OnePlace
<1>8. proc = NoEnv /\ mode = "prompt" /\ readyq = <<>> /\ \A e \in Envs : status[e] # "BLOCKED"
  BY <1>3 DEF LifeInv, OnCpu, Idle, AtPrompt
<1>9. Count(freelist', t) = 0 /\ \A f \in Envs \ {t} : Count(freelist', f) = Count(freelist, f)
  <2>1. Count(freelist', t) = 0
    BY <1>3, <1>4, <1>7
  <2>2. ASSUME NEW f \in Envs \ {t}
        PROVE  Count(freelist', f) = Count(freelist, f)
    BY <1>3, <1>4
  <2>3. QED
    BY <2>1, <2>2
<1>10. CASE newq' = Append(newq, t) /\ status' = [status EXCEPT ![t] = "NEW"]
            /\ UNCHANGED <<readyq, mode>>
  <2>1. Count(newq', t) = 1 /\ \A f \in Envs \ {t} : Count(newq', f) = Count(newq, f)
    <3>1. Count(newq', t) = 1
      BY <1>4, <1>7, <1>10
    <3>2. ASSUME NEW f \in Envs \ {t}
          PROVE  Count(newq', f) = Count(newq, f)
      BY <1>4, <1>10
    <3>3. QED
      BY <3>1, <3>2
  <2>2. status'[t] = "NEW" /\ \A f \in Envs \ {t} : status'[f] = status[f]
    BY <1>6, <1>10
  <2>3. Place(t)'
    BY <1>3, <1>5, <1>7, <1>9, <1>10, <2>1, <2>2 DEF Place, Fits
  <2>4. \A f \in Envs : Place(f)'
    BY <1>3, <1>5, <1>9, <1>10, <2>1, <2>2, <2>3, OthersStay
  <2>5. OnCpu' /\ Idle'
    BY <1>3, <1>8, <1>10, <2>2 DEF OnCpu, Idle
  <2>6. QED
    BY <1>5, <2>4, <2>5
<1>11. CASE readyq' = Append(readyq, t) /\ status' = [status EXCEPT ![t] = "READY"]
            /\ mode' = "sti" /\ UNCHANGED newq
  <2>1. Count(readyq', t) = 1 /\ \A f \in Envs \ {t} : Count(readyq', f) = Count(readyq, f)
    <3>1. Count(readyq', t) = 1
      BY <1>4, <1>7, <1>11
    <3>2. ASSUME NEW f \in Envs \ {t}
          PROVE  Count(readyq', f) = Count(readyq, f)
      BY <1>4, <1>11
    <3>3. QED
      BY <3>1, <3>2
  <2>2. status'[t] = "READY" /\ \A f \in Envs \ {t} : status'[f] = status[f]
    BY <1>6, <1>11
  <2>3. Place(t)'
    BY <1>3, <1>5, <1>7, <1>9, <1>11, <2>1, <2>2 DEF Place, Fits
  <2>4. \A f \in Envs : Place(f)'
    BY <1>3, <1>5, <1>9, <1>11, <2>1, <2>2, <2>3, OthersStay
  <2>5. OnCpu' /\ Idle'
    BY <1>3, <1>8, <1>11 DEF OnCpu, Idle, AtPrompt
  <2>6. QED
    BY <1>5, <2>4, <2>5
<1>12. QED
  BY <1>3, <1>10, <1>11

\* A load that panics marks the first free slot and leaves it free; so does
\* allocate_environment().
LEMMA MarkStep ==
  ASSUME LifeInv, freelist # <<>>, status' = [status EXCEPT ![Head(freelist)] = "UNKNOWN"],
         UNCHANGED <<freelist, newq, readyq, exitq, chan, proc, mode, held, killed>>,
         \A f \in Envs : Fresh(f)' <=> Fresh(f)
  PROVE  OnCpu' /\ Idle' /\ \A f \in Envs : Place(f)'
<1>1. PICK t \in Envs : t = Head(freelist) /\ Count(freelist, t) # 0
  BY HeadCount, Lists DEF LifeInv
<1>2. status' = [status EXCEPT ![t] = "UNKNOWN"] /\ status \in [Envs -> LifeStatuses]
  BY <1>1 DEF LifeInv, LTypeOK
<1>3. status'[t] = "UNKNOWN" /\ \A f \in Envs \ {t} : status'[f] = status[f]
  BY <1>2
<1>4. /\ Count(freelist, t) = 1 /\ Count(newq, t) = 0 /\ Count(readyq, t) = 0
      /\ Count(exitq, t) = 0 /\ Count(chan, t) = 0 /\ proc # t
      /\ t \notin killed /\ ~Fresh(t)
  BY <1>1, OnePlace
<1>5. Place(t)'
  BY <1>3, <1>4 DEF Place, Fits
<1>6. \A f \in Envs : Place(f)'
  BY <1>3, <1>5, OthersStay
<1>7. OnCpu' /\ Idle'
  <2>1. \A f \in Envs : status[f] # "BLOCKED" => status'[f] # "BLOCKED"
    BY <1>3
  <2>2. QED
    BY <2>1 DEF LifeInv, OnCpu, Idle, AtPrompt
<1>8. QED
  BY <1>6, <1>7

\* sched_run_all() makes every NEW environment READY.
LEMMA RunAllStep ==
  ASSUME LifeInv, cmd_run_all
  PROVE  Newcomers' /\ OnCpu' /\ Idle' /\ \A f \in Envs : Place(f)'
<1>1. /\ newq' = <<>> /\ readyq' = readyq \o newq /\ mode' = "sti" /\ AtPrompt
      /\ status' = [e \in Envs |-> IF e \in ToSet(newq) THEN "READY" ELSE status[e]]
      /\ UNCHANGED <<freelist, exitq, chan, proc, killed, stage, slot>>
  BY DEF cmd_run_all
<1>2. (\A f \in Envs : Fresh(f)' <=> Fresh(f)) /\ Newcomers'
  BY <1>1, StillFresh DEF LifeInv
<1>3. OnCpu' /\ Idle'
  BY <1>1 DEF LifeInv, OnCpu, Idle, AtPrompt
<1>4. ASSUME NEW f \in Envs
      PROVE  Place(f)'
  <2>1. /\ Count(newq', f) = 0 /\ Count(readyq', f) = Count(readyq, f) + Count(newq, f)
        /\ (f \in ToSet(newq) <=> Count(newq, f) # 0)
    BY <1>1, Lists, CountEmpty, CountConcat, MemberCount DEF LifeInv
  <2>2. CASE Count(newq, f) # 0
    <3>1. /\ Count(freelist, f) = 0 /\ Count(newq, f) = 1 /\ Count(readyq, f) = 0
          /\ Count(exitq, f) = 0 /\ Count(chan, f) = 0 /\ proc # f
          /\ f \notin killed /\ ~Fresh(f)
      BY <2>2, OnePlace
    <3>2. status'[f] = "READY" /\ Count(readyq', f) = 1
      BY <1>1, <2>1, <3>1
    <3>3. QED
      BY <1>1, <1>2, <2>1, <3>1, <3>2 DEF Place, Fits
  <2>3. CASE Count(newq, f) = 0
    <3>1. Count(readyq, f) \in Nat
      BY Lists DEF LifeInv
    <3>2. status'[f] = status[f] /\ Count(readyq', f) = Count(readyq, f)
      BY <1>1, <2>1, <2>3, <3>1
    <3>3. QED
      BY <1>1, <1>2, <2>1, <2>3, <3>2, Unmoved
  <2>4. QED
    BY <2>2, <2>3
<1>5. QED
  BY <1>2, <1>3, <1>4

\* wakeup_all() makes every sleeper READY.
LEMMA WakeupAllStep ==
  ASSUME LifeInv, NEW e \in Envs, wakeup_all(e)
  PROVE  Newcomers' /\ OnCpu' /\ Idle' /\ \A f \in Envs : Place(f)'
<1>1. /\ chan' = <<>> /\ readyq' = readyq \o chan /\ mode = "run"
      /\ status' = [f \in Envs |-> IF f \in ToSet(chan) THEN "READY" ELSE status[f]]
      /\ UNCHANGED <<freelist, newq, exitq, proc, mode, killed>>
  BY DEF wakeup_all, In
<1>2. (\A f \in Envs : Fresh(f)' <=> Fresh(f)) /\ Newcomers'
  BY ReturnFresh DEF wakeup_all, In, LifeInv
<1>3. OnCpu' /\ Idle'
  BY <1>1 DEF LifeInv, OnCpu, Idle, AtPrompt
<1>4. ASSUME NEW f \in Envs
      PROVE  Place(f)'
  <2>1. /\ Count(chan', f) = 0 /\ Count(readyq', f) = Count(readyq, f) + Count(chan, f)
        /\ (f \in ToSet(chan) <=> Count(chan, f) # 0)
    BY <1>1, Lists, CountEmpty, CountConcat, MemberCount DEF LifeInv
  <2>2. CASE Count(chan, f) # 0
    <3>1. /\ Count(freelist, f) = 0 /\ Count(newq, f) = 0 /\ Count(readyq, f) = 0
          /\ Count(exitq, f) = 0 /\ Count(chan, f) = 1 /\ proc # f
          /\ f \notin killed /\ ~Fresh(f)
      BY <2>2, OnePlace
    <3>2. status'[f] = "READY" /\ Count(readyq', f) = 1
      BY <1>1, <2>1, <3>1
    <3>3. QED
      BY <1>1, <1>2, <2>1, <3>1, <3>2 DEF Place, Fits
  <2>3. CASE Count(chan, f) = 0
    <3>1. Count(readyq, f) \in Nat
      BY Lists DEF LifeInv
    <3>2. status'[f] = status[f] /\ Count(readyq', f) = Count(readyq, f)
      BY <1>1, <2>1, <2>3, <3>1
    <3>3. QED
      BY <1>1, <1>2, <2>1, <2>3, <3>2, Unmoved
  <2>4. QED
    BY <2>2, <2>3
<1>5. QED
  BY <1>2, <1>3, <1>4


\* A step inside a system call that moves no slot.
LEMMA QuietStep ==
  ASSUME LifeInv, \A f \in Envs : Fresh(f)' <=> Fresh(f),
         UNCHANGED <<status, freelist, newq, readyq, exitq, chan, proc, mode, held, killed>>
  PROVE  OnCpu' /\ Idle' /\ \A f \in Envs : Place(f)'
<1>1. \A f \in Envs : Place(f)'
  BY Unmoved
<1>2. QED
  BY <1>1 DEF LifeInv, OnCpu, Idle, AtPrompt

\* sched_kill_env() takes its target out of its queue.
LEMMA KillStep ==
  ASSUME LifeInv, NEW t, Killable(t), kill_found(t),
         UNCHANGED <<freelist, chan, proc, mode, held>>,
         \A f \in Envs : Fresh(f)' <=> Fresh(f)
  PROVE  OnCpu' /\ Idle' /\ \A f \in Envs : Place(f)'
<1>1. t \in Envs /\ status \in [Envs -> LifeStatuses] /\ killed' = killed \cup {t}
  BY KillType DEF LifeInv, LTypeOK, kill_found
<1>2. /\ newq \in Seq(Envs) /\ readyq \in Seq(Envs) /\ exitq \in Seq(Envs)
      /\ \A f : /\ Count(newq, f) \in Nat /\ Count(readyq, f) \in Nat
                /\ Count(exitq, f) \in Nat
  BY Lists DEF LifeInv
<1>3. /\ t \in ToSet(newq) <=> Count(newq, t) # 0
      /\ t \in ToSet(readyq) <=> Count(readyq, t) # 0
      /\ t \in ToSet(exitq) <=> Count(exitq, t) # 0
  BY <1>2, MemberCount
<1>4. \A f \in Envs \ {t} : f \in killed' <=> f \in killed
  BY <1>1
<1>5. CASE t \in ToSet(newq)
  <2>1. /\ newq' = LIST_REMOVE(newq, t) /\ status' = [status EXCEPT ![t] = "UNKNOWN"]
        /\ UNCHANGED <<readyq, exitq>>
    BY <1>5 DEF kill_found
  <2>2. /\ Count(freelist, t) = 0 /\ Count(newq, t) = 1 /\ Count(readyq, t) = 0
        /\ Count(exitq, t) = 0 /\ Count(chan, t) = 0 /\ proc # t /\ ~Fresh(t)
    BY <1>1, <1>3, <1>5, OnePlace
  <2>3. \A f \in Envs : Count(newq', f) = Count(newq, f) - IF t = f THEN 1 ELSE 0
    BY <1>2, <1>3, <1>5, <2>1, CountRemove
  <2>4. Count(newq', t) = 0 /\ \A f \in Envs \ {t} : Count(newq', f) = Count(newq, f)
    BY <1>1, <1>2, <2>2, <2>3
  <2>5. status'[t] = "UNKNOWN" /\ \A f \in Envs \ {t} : status'[f] = status[f]
    BY <1>1, <2>1
  <2>6. Place(t)'
    BY <1>1, <2>1, <2>2, <2>4, <2>5 DEF Place, Fits
  <2>7. \A f \in Envs : Place(f)'
    BY <1>4, <2>1, <2>4, <2>5, <2>6, OthersStay
  <2>8. OnCpu' /\ Idle'
    BY <2>1, <2>5 DEF LifeInv, OnCpu, Idle, AtPrompt
  <2>9. QED
    BY <2>7, <2>8
<1>6. CASE t \notin ToSet(newq) /\ t \in ToSet(readyq)
  <2>1. readyq' = LIST_REMOVE(readyq, t) /\ UNCHANGED <<newq, exitq, status>>
    BY <1>6 DEF kill_found
  <2>2. /\ Count(freelist, t) = 0 /\ Count(newq, t) = 0 /\ Count(readyq, t) = 1
        /\ Count(exitq, t) = 0 /\ Count(chan, t) = 0 /\ proc # t /\ ~Fresh(t)
        /\ status[t] = "READY"
    BY <1>1, <1>3, <1>6, OnePlace
  <2>3. \A f \in Envs : Count(readyq', f) = Count(readyq, f) - IF t = f THEN 1 ELSE 0
    BY <1>2, <1>3, <1>6, <2>1, CountRemove
  <2>4. Count(readyq', t) = 0 /\ \A f \in Envs \ {t} : Count(readyq', f) = Count(readyq, f)
    BY <1>1, <1>2, <2>2, <2>3
  <2>5. Place(t)'
    BY <1>1, <2>1, <2>2, <2>4 DEF Place, Fits
  <2>6. \A f \in Envs : Place(f)'
    BY <1>4, <2>1, <2>4, <2>5, OthersStay
  <2>7. ~AtPrompt
    <3>1. readyq # <<>>
      BY <2>2, CountEmpty
    <3>2. QED
      BY <3>1 DEF LifeInv, Idle
  <2>8. OnCpu' /\ Idle'
    BY <2>7 DEF LifeInv, OnCpu, Idle, AtPrompt
  <2>9. QED
    BY <2>6, <2>8
<1>7. CASE t \notin ToSet(newq) \cup ToSet(readyq)
  <2>1. /\ exitq' = LIST_REMOVE(exitq, t) /\ status' = [status EXCEPT ![t] = "UNKNOWN"]
        /\ UNCHANGED <<newq, readyq>> /\ t \in ToSet(exitq)
    BY <1>7 DEF kill_found, Killable
  <2>2. /\ Count(freelist, t) = 0 /\ Count(newq, t) = 0 /\ Count(readyq, t) = 0
        /\ Count(exitq, t) = 1 /\ Count(chan, t) = 0 /\ proc # t /\ ~Fresh(t)
    BY <1>1, <1>3, <2>1, OnePlace
  <2>3. \A f \in Envs : Count(exitq', f) = Count(exitq, f) - IF t = f THEN 1 ELSE 0
    BY <1>2, <1>3, <2>1, CountRemove
  <2>4. Count(exitq', t) = 0 /\ \A f \in Envs \ {t} : Count(exitq', f) = Count(exitq, f)
    BY <1>1, <1>2, <2>2, <2>3
  <2>5. status'[t] = "UNKNOWN" /\ \A f \in Envs \ {t} : status'[f] = status[f]
    BY <1>1, <2>1
  <2>6. Place(t)'
    BY <1>1, <2>1, <2>2, <2>4, <2>5 DEF Place, Fits
  <2>7. \A f \in Envs : Place(f)'
    BY <1>4, <2>1, <2>4, <2>5, <2>6, OthersStay
  <2>8. OnCpu' /\ Idle'
    BY <2>1, <2>5 DEF LifeInv, OnCpu, Idle, AtPrompt
  <2>9. QED
    BY <2>7, <2>8
<1>8. QED
  BY <1>5, <1>6, <1>7

\* sched_kill_all() empties the queues.
LEMMA KillAllStep ==
  ASSUME LifeInv, cmd_kill_all
  PROVE  Newcomers' /\ OnCpu' /\ Idle' /\ \A f \in Envs : Place(f)'
<1>1. /\ newq' = <<>> /\ readyq' = <<>> /\ exitq' = <<>> /\ AtPrompt
      /\ killed' = killed \cup {e \in Envs : Killable(e)}
      /\ status' = [e \in Envs |-> IF Killable(e) /\ status[e] # "READY"
                                     THEN "UNKNOWN" ELSE status[e]]
      /\ UNCHANGED <<freelist, chan, proc, mode, held, stage, slot>>
  BY DEF cmd_kill_all
<1>2. (\A f \in Envs : Fresh(f)' <=> Fresh(f)) /\ Newcomers'
  BY <1>1, StillFresh DEF LifeInv
<1>3. OnCpu' /\ Idle'
  <2>1. \A f \in Envs : status[f] # "BLOCKED" => status'[f] # "BLOCKED"
    BY <1>1
  <2>2. QED
    BY <1>1, <2>1 DEF LifeInv, OnCpu, Idle, AtPrompt
<1>4. ASSUME NEW f \in Envs
      PROVE  Place(f)'
  <2>1. /\ Count(newq', f) = 0 /\ Count(readyq', f) = 0 /\ Count(exitq', f) = 0
        /\ (f \in ToSet(newq) <=> Count(newq, f) # 0)
        /\ (f \in ToSet(readyq) <=> Count(readyq, f) # 0)
        /\ (f \in ToSet(exitq) <=> Count(exitq, f) # 0)
    BY <1>1, Lists, CountEmpty, MemberCount DEF LifeInv
  <2>2. CASE Killable(f)
    <3>1. Count(newq, f) # 0 \/ Count(readyq, f) # 0 \/ Count(exitq, f) # 0
      BY <2>1, <2>2 DEF Killable
    <3>2. /\ Count(freelist, f) = 0 /\ Count(chan, f) = 0 /\ proc # f /\ ~Fresh(f)
      BY <3>1, OnePlace
    <3>3. status'[f] \in {"READY", "UNKNOWN"} /\ f \in killed'
      BY <1>1, <2>2
    <3>4. QED
      BY <1>1, <1>2, <2>1, <3>2, <3>3 DEF Place, Fits
  <2>3. CASE ~Killable(f)
    <3>1. Count(newq, f) = 0 /\ Count(readyq, f) = 0 /\ Count(exitq, f) = 0
      BY <2>1, <2>3 DEF Killable
    <3>2. status'[f] = status[f] /\ (f \in killed' <=> f \in killed)
      BY <1>1, <2>3
    <3>3. QED
      BY <1>1, <1>2, <2>1, <3>1, <3>2, Unmoved
  <2>4. QED
    BY <2>2, <2>3
<1>5. QED
  BY <1>2, <1>3, <1>4

\* sched_run_env() makes a NEW environment READY, and does nothing otherwise.
LEMMA RunStep ==
  ASSUME LifeInv, NEW e \in Envs, sys_run_env(e)
  PROVE  Newcomers' /\ OnCpu' /\ Idle' /\ \A f \in Envs : Place(f)'
<1>1. /\ mode = "run" /\ Return(e) /\ stage[e] = "run"
      /\ UNCHANGED <<freelist, exitq, chan, proc, mode, held, killed>>
  BY DEF sys_run_env, In
<1>2. (\A f \in Envs : Fresh(f)' <=> Fresh(f)) /\ Newcomers'
  BY <1>1, ReturnFresh DEF LifeInv
<1>3. OnCpu' /\ Idle'
  BY <1>1 DEF LifeInv, OnCpu, Idle, AtPrompt
<1>4. CASE arg[e] \in ToSet(newq)
  <2>1. PICK t : t = arg[e]
    OBVIOUS
  <2>2. newq \in Seq(Envs) /\ readyq \in Seq(Envs) /\ t \in ToSet(newq)
    BY <1>4, <2>1, Lists DEF LifeInv
  <2>3. /\ t \in Envs /\ Count(newq, t) # 0
    BY <2>2, MemberType, MemberCount
  <2>4. /\ newq' = LIST_REMOVE(newq, t) /\ readyq' = Append(readyq, t)
        /\ status' = [status EXCEPT ![t] = "READY"] /\ status \in [Envs -> LifeStatuses]
    BY <1>4, <2>1 DEF sys_run_env, LifeInv, LTypeOK
  <2>5. /\ Count(freelist, t) = 0 /\ Count(newq, t) = 1 /\ Count(readyq, t) = 0
        /\ Count(exitq, t) = 0 /\ Count(chan, t) = 0 /\ proc # t
        /\ t \notin killed /\ ~Fresh(t)
    BY <2>3, OnePlace
  <2>6. ASSUME NEW f \in Envs
        PROVE  /\ Count(newq', f) = Count(newq, f) - IF t = f THEN 1 ELSE 0
               /\ Count(readyq', f) = Count(readyq, f) + IF t = f THEN 1 ELSE 0
               /\ Count(newq, f) \in Nat /\ Count(readyq, f) \in Nat
    BY <2>2, <2>3, <2>4, CountRemove, CountAppend, CountType
  <2>7. Count(newq', t) = 0 /\ Count(readyq', t) = 1 /\ status'[t] = "READY"
    BY <2>3, <2>4, <2>5, <2>6
  <2>8. \A f \in Envs \ {t} : /\ Count(newq', f) = Count(newq, f)
                              /\ Count(readyq', f) = Count(readyq, f)
                              /\ status'[f] = status[f]
    BY <2>4, <2>6
  <2>9. Place(t)'
    BY <1>1, <1>2, <2>3, <2>5, <2>7 DEF Place, Fits
  <2>10. \A f \in Envs : Place(f)'
    BY <1>1, <1>2, <2>8, <2>9, OthersStay
  <2>11. QED
    BY <1>2, <1>3, <2>10
<1>5. CASE arg[e] \notin ToSet(newq)
  <2>1. UNCHANGED <<newq, readyq, status>>
    BY <1>5 DEF sys_run_env
  <2>2. QED
    BY <1>1, <1>2, <2>1, QuietStep
<1>6. QED
  BY <1>4, <1>5


\* env_create() commits the slot: it leaves the free list for its creator.
LEMMA CommitStep ==
  ASSUME LifeInv, NEW e \in Envs, complete_environment_initialization(e)
  PROVE  Newcomers' /\ OnCpu' /\ Idle' /\ \A f \in Envs : Place(f)'
<1>1. PICK t : t = slot[e]
  OBVIOUS
<1>2. /\ mode = "run" /\ stage[e] = "init" /\ t \in ToSet(freelist)
      /\ freelist' = LIST_REMOVE(freelist, t) /\ status' = [status EXCEPT ![t] = "NEW"]
      /\ stage' = [stage EXCEPT ![e] = "new"]
      /\ UNCHANGED <<newq, readyq, exitq, chan, proc, mode, held, slot, killed>>
  BY <1>1 DEF complete_environment_initialization, In, Enter
<1>3. freelist \in Seq(Envs) /\ status \in [Envs -> LifeStatuses] /\ stage \in [Envs -> Stages]
  BY Lists DEF LifeInv, LTypeOK
<1>4. t \in Envs /\ Count(freelist, t) # 0
  BY <1>2, <1>3, MemberType, MemberCount
<1>5. /\ Count(freelist, t) = 1 /\ Count(newq, t) = 0 /\ Count(readyq, t) = 0
      /\ Count(exitq, t) = 0 /\ Count(chan, t) = 0 /\ proc # t
      /\ t \notin killed /\ ~Fresh(t)
  BY <1>4, OnePlace
<1>6. \A c \in Envs : stage'[c] = IF c = e THEN "new" ELSE stage[c]
  BY <1>2, <1>3
<1>7. Fresh(t)' /\ \A f \in Envs \ {t} : Fresh(f)' <=> Fresh(f)
  BY <1>1, <1>2, <1>6 DEF Fresh
<1>8. Newcomers'
  <2>1. \A c \in Envs : stage[c] = "new" => slot[c] # t
    BY <1>5 DEF Fresh
  <2>2. QED
    BY <1>1, <1>2, <1>4, <1>6, <2>1 DEF LifeInv, Newcomers
<1>9. OnCpu' /\ Idle'
  BY <1>2 DEF LifeInv, OnCpu, Idle, AtPrompt
<1>10. ASSUME NEW f \in Envs
       PROVE  /\ Count(freelist', f) = Count(freelist, f) - IF t = f THEN 1 ELSE 0
              /\ Count(freelist, f) \in Nat
  BY <1>2, <1>3, <1>4, CountRemove, CountType
<1>11. Count(freelist', t) = 0 /\ status'[t] = "NEW"
  BY <1>2, <1>3, <1>4, <1>5, <1>10
<1>12. \A f \in Envs \ {t} : Count(freelist', f) = Count(freelist, f) /\ status'[f] = status[f]
  BY <1>2, <1>3, <1>10
<1>13. Place(t)'
  BY <1>2, <1>5, <1>7, <1>11 DEF Place, Fits
<1>14. \A f \in Envs : Place(f)'
  BY <1>2, <1>7, <1>12, <1>13, OthersStay
<1>15. QED
  BY <1>8, <1>9, <1>14

\* sched_new_env() publishes it in the NEW queue.
LEMMA NewStep ==
  ASSUME LifeInv, NEW e \in Envs, sched_new_env(e)
  PROVE  Newcomers' /\ OnCpu' /\ Idle' /\ \A f \in Envs : Place(f)'
<1>1. PICK t : t = slot[e]
  OBVIOUS
<1>2. /\ mode = "run" /\ stage[e] = "new"
      /\ newq' = Append(newq, t) /\ status' = [status EXCEPT ![t] = "NEW"]
      /\ stage' = [stage EXCEPT ![e] = "user"] /\ slot' = [slot EXCEPT ![e] = NoEnv]
      /\ UNCHANGED <<freelist, readyq, exitq, chan, proc, mode, held, killed>>
  BY <1>1 DEF sched_new_env, In, Return
<1>3. /\ newq \in Seq(Envs) /\ status \in [Envs -> LifeStatuses] /\ stage \in [Envs -> Stages]
      /\ slot \in [Envs -> Envs \cup {NoEnv}] /\ t \in Envs
  BY <1>1, <1>2, Lists DEF LifeInv, LTypeOK, Newcomers
<1>4. Fresh(t)
  BY <1>1, <1>2 DEF Fresh
<1>5. /\ Count(freelist, t) = 0 /\ Count(newq, t) = 0 /\ Count(readyq, t) = 0
      /\ Count(exitq, t) = 0 /\ Count(chan, t) = 0 /\ proc # t
  BY <1>3, <1>4, OnePlace
<1>6. t \notin killed
  BY <1>3, <1>4 DEF LifeInv, Place, Fits
<1>7. /\ \A c \in Envs : stage'[c] = IF c = e THEN "user" ELSE stage[c]
      /\ \A c \in Envs \ {e} : slot'[c] = slot[c]
  BY <1>2, <1>3
<1>8. ~Fresh(t)' /\ Newcomers'
  BY <1>1, <1>2, <1>7 DEF LifeInv, Newcomers, Fresh
<1>9. \A f \in Envs \ {t} : Fresh(f)' <=> Fresh(f)
  BY <1>1, <1>7 DEF Fresh
<1>10. OnCpu' /\ Idle'
  BY <1>2 DEF LifeInv, OnCpu, Idle, AtPrompt
<1>11. ASSUME NEW f \in Envs
       PROVE  /\ Count(newq', f) = Count(newq, f) + IF t = f THEN 1 ELSE 0
              /\ Count(newq, f) \in Nat
  BY <1>2, <1>3, CountAppend, CountType
<1>12. Count(newq', t) = 1 /\ status'[t] = "NEW"
  BY <1>2, <1>3, <1>5, <1>11
<1>13. \A f \in Envs \ {t} : Count(newq', f) = Count(newq, f) /\ status'[f] = status[f]
  BY <1>2, <1>3, <1>11
<1>14. Place(t)'
  BY <1>2, <1>5, <1>6, <1>8, <1>12 DEF Place, Fits
<1>15. \A f \in Envs : Place(f)'
  BY <1>2, <1>9, <1>13, <1>14, OthersStay
<1>16. QED
  BY <1>8, <1>10, <1>15

\* Any step of a system call.
LEMMA SystemCallStep ==
  ASSUME LifeInv, NEW e \in Envs, SystemCall(e)
  PROVE  Newcomers' /\ OnCpu' /\ Idle' /\ \A f \in Envs : Place(f)'
<1>1. ASSUME NEW call \in Calls, NEW t \in Args(call), syscall(e, call, t)
      PROVE  Newcomers' /\ OnCpu' /\ Idle' /\ \A f \in Envs : Place(f)'
  <2>1. /\ stage[e] = "user" /\ stage' = [stage EXCEPT ![e] = call]
        /\ UNCHANGED <<status, freelist, newq, readyq, exitq, chan, proc, mode, held,
                       slot, killed>>
    BY <1>1 DEF syscall, In
  <2>2. \A c \in Envs : stage'[c] = "new" <=> stage[c] = "new"
    BY <2>1 DEF LifeInv, LTypeOK, Calls
  <2>3. (\A f \in Envs : Fresh(f)' <=> Fresh(f)) /\ Newcomers'
    BY <2>1, <2>2, SameFresh DEF LifeInv
  <2>4. QED
    BY <2>1, <2>3, QuietStep
<1>2. CASE allocate_environment(e)
  <2>1. stage[e] = "create" /\ UNCHANGED <<freelist, newq, readyq, exitq, chan, proc, mode,
                                           held, killed>>
    BY <1>2 DEF allocate_environment, In
  <2>2. CASE freelist = <<>>
    <3>1. Return(e) /\ UNCHANGED status
      BY <1>2, <2>2 DEF allocate_environment
    <3>2. (\A f \in Envs : Fresh(f)' <=> Fresh(f)) /\ Newcomers'
      BY <2>1, <3>1, ReturnFresh DEF LifeInv
    <3>3. QED
      BY <2>1, <3>1, <3>2, QuietStep
  <2>3. CASE freelist # <<>>
    <3>1. /\ status' = [status EXCEPT ![Head(freelist)] = "UNKNOWN"]
          /\ slot' = [slot EXCEPT ![e] = Head(freelist)]
          /\ stage' = [stage EXCEPT ![e] = "init"]
      BY <1>2, <2>3 DEF allocate_environment, Enter
    <3>2. \A c \in Envs : /\ stage'[c] = "new" <=> stage[c] = "new"
                          /\ stage[c] = "new" => slot'[c] = slot[c]
      BY <2>1, <3>1 DEF LifeInv, LTypeOK
    <3>3. (\A f \in Envs : Fresh(f)' <=> Fresh(f)) /\ Newcomers'
      BY <3>2, SameFresh DEF LifeInv
    <3>4. QED
      BY <2>1, <2>3, <3>1, <3>3, MarkStep
  <2>4. QED
    BY <2>2, <2>3
<1>3. CASE sys_destroy_env(e)
  <2>1. stage[e] = "destroy" /\ proc = e /\ UNCHANGED <<freelist, chan, held>>
    BY <1>3 DEF sys_destroy_env, In
  <2>2. CASE Killable(Target(e)) /\ kill_found(Target(e)) /\ Return(e) /\ UNCHANGED <<proc, mode>>
    <3>1. (\A f \in Envs : Fresh(f)' <=> Fresh(f)) /\ Newcomers'
      BY <2>1, <2>2, ReturnFresh DEF LifeInv
    <3>2. PICK t : t = Target(e)
      OBVIOUS
    <3>3. Killable(t) /\ kill_found(t)
      BY <2>2, <3>2
    <3>4. QED
      BY <2>1, <2>2, <3>1, <3>3, KillStep
  <2>3. CASE env_exit(e) /\ UNCHANGED <<newq, killed, stage, slot, arg>>
    BY <2>1, <2>3, ExitStep
  <2>4. CASE Return(e) /\ UNCHANGED <<proc, mode, newq, readyq, exitq, status, killed>>
    <3>1. (\A f \in Envs : Fresh(f)' <=> Fresh(f)) /\ Newcomers'
      BY <2>1, <2>4, ReturnFresh DEF LifeInv
    <3>2. QED
      BY <2>1, <2>4, <3>1, QuietStep
  <2>5. QED
    BY <1>3, <2>2, <2>3, <2>4 DEF sys_destroy_env
<1>4. CASE sys_exit_env(e)
  BY <1>4, ExitStep DEF sys_exit_env, In
<1>5. QED
  BY <1>1, <1>2, <1>3, <1>4, CommitStep, NewStep, RunStep, SleepStep, WakeupAllStep
     DEF SystemCall, env_create

-----------------------------------------------------------------------------
(* Theorems *)

\* The initial free list holds every slot once.
LEMMA LifeInit ==
  ASSUME LInit
  PROVE  LifeInv
<1>1. /\ freelist \in [1 .. Cardinality(Envs) -> Envs]
      /\ \A i, j \in 1 .. Cardinality(Envs) : freelist[i] = freelist[j] => i = j
  BY DEF LInit, SetToSeqs
<1>2. \A e \in Envs : freelist \in Seq(Envs) /\ Count(freelist, e) = 1
  BY <1>1, CountPermutation, LifecycleAssumption
<1>3. freelist \in Seq(Envs)
  <2>1. Cardinality(Envs) \in Nat
    BY FS_CardinalityType, LifecycleAssumption
  <2>2. QED
    BY <1>1, <2>1, SeqDef
<1>4. LTypeOK
  BY <1>3 DEF LInit, LTypeOK, LifeStatuses, Stages
<1>5. Newcomers /\ OnCpu /\ Idle
  BY DEF LInit, Newcomers, OnCpu, Idle, AtPrompt
<1>6. ASSUME NEW e \in Envs
      PROVE  Place(e)
  <2>1. Count(<<>>, e) = 0
    BY CountEmpty
  <2>2. ~Fresh(e) /\ e \notin killed /\ proc # e /\ status[e] = "FREE"
    BY LifecycleAssumption DEF LInit, Fresh
  <2>3. /\ newq = <<>> /\ readyq = <<>> /\ exitq = <<>> /\ chan = <<>>
    BY DEF LInit
  <2>4. QED
    BY <1>2, <2>1, <2>2, <2>3 DEF Place, Fits
<1>7. QED
  BY <1>4, <1>5, <1>6 DEF LifeInv

\* Every step keeps the invariant.
LEMMA LifeStep ==
  ASSUME LifeInv, [LNext]_lvars
  PROVE  LifeInv'
<1>1. LTypeOK'
  BY LifeTypeStep DEF LifeInv
<1>2. CASE UNCHANGED lvars
  <2>1. Newcomers'
    BY <1>2, StillFresh DEF LifeInv, lvars
  <2>2. OnCpu' /\ Idle' /\ \A f \in Envs : Place(f)'
    BY <1>2, StillFresh, QuietStep DEF lvars
  <2>3. QED
    BY <1>1, <2>1, <2>2 DEF LifeInv
<1>3. CASE Prompt
  <2>1. CASE cmd_load_panics
    <3>1. (\A f \in Envs : Fresh(f)' <=> Fresh(f)) /\ Newcomers'
      BY <2>1, StillFresh DEF cmd_load_panics, LifeInv
    <3>2. OnCpu' /\ Idle' /\ \A f \in Envs : Place(f)'
      BY <2>1, <3>1, MarkStep DEF cmd_load_panics
    <3>3. QED
      BY <1>1, <3>1, <3>2 DEF LifeInv
  <2>2. ASSUME NEW t \in Envs, cmd_kill(t)
        PROVE  LifeInv'
    <3>1. (\A f \in Envs : Fresh(f)' <=> Fresh(f)) /\ Newcomers'
      BY <2>2, StillFresh DEF cmd_kill, LifeInv
    <3>2. OnCpu' /\ Idle' /\ \A f \in Envs : Place(f)'
      BY <2>2, <3>1, KillStep DEF cmd_kill
    <3>3. QED
      BY <1>1, <3>1, <3>2 DEF LifeInv
  <2>3. CASE cmd_load \/ cmd_run \/ cmd_run_all \/ cmd_kill_all
    BY <1>1, <2>3, LoadStep, RunAllStep, KillAllStep DEF LifeInv
  <2>4. QED
    BY <1>3, <2>1, <2>2, <2>3 DEF Prompt
<1>4. CASE scheduler \/ keyboard_wakeup_one
  BY <1>1, <1>4, SchedulerStep, KeyboardStep DEF LifeInv
<1>5. ASSUME NEW e \in Envs, SystemCall(e) \/ clock_yield(e) \/ out_of_memory(e)
      PROVE  LifeInv'
  BY <1>1, <1>5, SystemCallStep, YieldStep, OutOfMemoryStep DEF LifeInv
<1>6. QED
  BY <1>2, <1>3, <1>4, <1>5 DEF LNext

\* Whatever environments and the prompt do, each slot of envs[] is in the one
\* place that its status, a kill or its creation explains.
THEOREM LifecycleInvariant == LSpec => []LifeInv
<1>1. LInit => LifeInv
  BY LifeInit
<1>2. LifeInv /\ [LNext]_lvars => LifeInv'
  BY LifeStep
<1>3. QED
  BY <1>1, <1>2, PTL DEF LSpec

\* The variables keep their types; sched_new_env() never gets a NULL slot.
THEOREM LifecycleTypeCorrect == LSpec => []LTypeOK
<1>1. LifeInv => LTypeOK
  BY DEF LifeInv
<1>2. QED
  BY <1>1, LifecycleInvariant, PTL

\* The lists, the CPU and env_status agree on every slot.
THEOREM PlacesAgree == LSpec => []PlaceAgreesWithStatus
<1>1. ASSUME LifeInv
      PROVE  PlaceAgreesWithStatus
  <2>1. SUFFICES ASSUME NEW e \in Envs
                 PROVE  /\ Links(e) <= 1
                        /\ Links(e) = 0 =>
                             \/ e \in killed /\ status[e] \in {"READY", "UNKNOWN"}
                             \/ status[e] = "NEW" /\ Fresh(e)
                        /\ Links(e) = 1 =>
                             CASE status[e] \in {"FREE", "UNKNOWN"} -> e \in ToSet(freelist)
                               [] status[e] = "NEW"     -> e \in ToSet(newq)
                               [] status[e] = "READY"   -> e \in ToSet(readyq)
                               [] status[e] = "RUNNING" -> proc = e /\ mode = "run"
                               [] status[e] = "BLOCKED" -> e \in ToSet(chan)
                               [] status[e] = "EXIT"    -> e \in ToSet(exitq)
    BY DEF PlaceAgreesWithStatus, Fresh
  <2>2. /\ Links(e) <= 1
        /\ Links(e) = 0 <=> e \in killed \/ Fresh(e)
        /\ e \in killed => status[e] \in {"READY", "UNKNOWN"}
        /\ Fresh(e) => status[e] = "NEW"
    BY <1>1 DEF LifeInv, Place, Fits, Links
  <2>3. ASSUME Links(e) = 1
        PROVE  \/ Count(freelist, e) # 0 /\ status[e] \in {"FREE", "UNKNOWN"}
               \/ Count(newq, e) # 0 /\ status[e] = "NEW"
               \/ Count(readyq, e) # 0 /\ status[e] = "READY"
               \/ Count(exitq, e) # 0 /\ status[e] = "EXIT"
               \/ Count(chan, e) # 0 /\ status[e] = "BLOCKED"
               \/ proc = e /\ status[e] = "RUNNING"
    <3>1. ~(e \in killed \/ Fresh(e))
      BY <2>2, <2>3
    <3>2. QED
      BY <1>1, <3>1, OnePlace
  <2>4. /\ e \in ToSet(freelist) <=> Count(freelist, e) # 0
        /\ e \in ToSet(newq) <=> Count(newq, e) # 0
        /\ e \in ToSet(readyq) <=> Count(readyq, e) # 0
        /\ e \in ToSet(exitq) <=> Count(exitq, e) # 0
        /\ e \in ToSet(chan) <=> Count(chan, e) # 0
    BY <1>1, Lists, MemberCount DEF LifeInv
  <2>5. proc = e => mode = "run"
    BY <1>1, LifecycleAssumption DEF LifeInv, OnCpu
  <2>6. QED
    BY <2>2, <2>3, <2>4, <2>5
<1>2. QED
  BY <1>1, LifecycleInvariant, PTL

\* The scheduler is back in the prompt only when nothing can run or be woken.
THEOREM PromptIsIdle == LSpec => []PromptMeansIdle
<1>1. ASSUME LifeInv
      PROVE  PromptMeansIdle
  <2>1. SUFFICES ASSUME AtPrompt
                 PROVE  /\ readyq = <<>> /\ chan = <<>> /\ proc = NoEnv
                        /\ \A e \in Envs : status[e] \notin {"BLOCKED", "RUNNING"}
    BY DEF PromptMeansIdle
  <2>2. readyq = <<>> /\ proc = NoEnv /\ \A e \in Envs : status[e] # "BLOCKED"
    BY <1>1, <2>1 DEF LifeInv, Idle, OnCpu, AtPrompt
  <2>3. chan = <<>>
    <3>1. SUFFICES ASSUME chan # <<>>
                   PROVE  FALSE
      OBVIOUS
    <3>2. PICK e \in Envs : Count(chan, e) # 0
      BY <1>1, <3>1, HeadCount, Lists DEF LifeInv
    <3>3. status[e] = "BLOCKED"
      BY <1>1, <3>2, OnePlace
    <3>4. QED
      BY <2>2, <3>3
  <2>4. ASSUME NEW e \in Envs
        PROVE  status[e] # "RUNNING"
    <3>1. proc # e
      BY <2>2, LifecycleAssumption
    <3>2. CASE e \in killed \/ Fresh(e)
      BY <1>1, <3>2 DEF LifeInv, Place, Fits
    <3>3. CASE ~(e \in killed \/ Fresh(e))
      BY <1>1, <3>1, <3>3, OnePlace
    <3>4. QED
      BY <3>2, <3>3
  <2>5. QED
    BY <2>2, <2>3, <2>4
<1>2. QED
  BY <1>1, LifecycleInvariant, PTL


-----------------------------------------------------------------------------
(* What is gone stays gone *)

\* e has exited or was killed.
Gone(e) == e \in killed \/ Count(exitq, e) # 0

\* What is gone is in no place from which it could run.
GoneIsAway ==
  \A e \in Envs : Gone(e) => proc # e /\ e \notin ToSet(readyq) \cup ToSet(chan)

\* This follows from the invariant, as does that what has the status EXIT is
\* gone.
LEMMA InvGone ==
  ASSUME LifeInv
  PROVE  GoneIsAway /\ \A e \in Envs : status[e] = "EXIT" => Gone(e)
<1>1. ASSUME NEW e \in Envs
      PROVE  /\ e \in ToSet(readyq) <=> Count(readyq, e) # 0
             /\ e \in ToSet(chan) <=> Count(chan, e) # 0
  BY Lists, MemberCount DEF LifeInv
<1>2. ASSUME NEW e \in Envs, Gone(e)
      PROVE  proc # e /\ e \notin ToSet(readyq) \cup ToSet(chan)
  <2>1. proc # e /\ Count(readyq, e) = 0 /\ Count(chan, e) = 0
    BY <1>2, OnePlace DEF Gone
  <2>2. QED
    BY <1>1, <2>1
<1>3. ASSUME NEW e \in Envs, status[e] = "EXIT"
      PROVE  Gone(e)
  <2>1. CASE e \in killed
    BY <2>1 DEF Gone
  <2>2. CASE e \notin killed
    <3>1. ~Fresh(e)
      BY <1>3 DEF LifeInv, Place, Fits
    <3>2. QED
      BY <1>3, <2>2, <3>1, OnePlace DEF Gone
  <2>3. QED
    BY <2>1, <2>2
<1>4. QED
  BY <1>2, <1>3 DEF GoneIsAway

\* No step brings back what is gone: the EXIT queue loses only what is killed.
LEMMA GoneStep ==
  ASSUME LTypeOK, [LNext]_lvars, NEW e \in Envs, Gone(e)
  PROVE  Gone(e)'
<1>1. exitq \in Seq(Envs) /\ Count(exitq, e) \in Nat
  BY Lists
<1>2. ASSUME UNCHANGED <<exitq, killed>>
      PROVE  Gone(e)'
  BY <1>2 DEF Gone
<1>3. ASSUME NEW t \in Envs, exitq' = Append(exitq, t), UNCHANGED killed
      PROVE  Gone(e)'
  <2>1. Count(exitq', e) = Count(exitq, e) + IF t = e THEN 1 ELSE 0
    BY <1>1, <1>3, CountAppend
  <2>2. Count(exitq, e) # 0 => Count(exitq', e) # 0
    BY <1>1, <2>1
  <2>3. QED
    BY <1>3, <2>2 DEF Gone
<1>4. ASSUME NEW t, Killable(t), kill_found(t)
      PROVE  Gone(e)'
  <2>1. killed' = killed \cup {t}
    BY <1>4 DEF kill_found
  <2>2. CASE t = e
    BY <2>1, <2>2 DEF Gone
  <2>3. CASE t # e /\ UNCHANGED exitq
    BY <2>1, <2>3 DEF Gone
  <2>4. CASE t # e /\ t \notin ToSet(newq) \cup ToSet(readyq) /\ exitq' = LIST_REMOVE(exitq, t)
    <3>1. Count(exitq, t) # 0
      BY <1>1, <1>4, <2>4, MemberCount DEF Killable
    <3>2. Count(exitq', e) = Count(exitq, e) - IF t = e THEN 1 ELSE 0
      BY <1>1, <2>4, <3>1, CountRemove
    <3>3. Count(exitq', e) = Count(exitq, e)
      BY <1>1, <2>4, <3>2
    <3>4. QED
      BY <2>1, <3>3 DEF Gone
  <2>5. QED
    BY <1>4, <2>2, <2>3, <2>4 DEF kill_found
<1>5. CASE UNCHANGED lvars
  BY <1>2, <1>5 DEF lvars
<1>6. CASE Prompt
  <2>1. CASE cmd_load \/ cmd_run \/ cmd_run_all \/ cmd_load_panics
    BY <1>2, <2>1 DEF cmd_load, cmd_run, cmd_run_all, cmd_load_panics
  <2>2. CASE cmd_kill_all
    <3>1. Count(exitq, e) # 0 => Killable(e)
      BY <1>1, MemberCount DEF Killable
    <3>2. killed' = killed \cup {f \in Envs : Killable(f)}
      BY <2>2 DEF cmd_kill_all
    <3>3. QED
      BY <3>1, <3>2 DEF Gone
  <2>3. ASSUME NEW t \in Envs, cmd_kill(t)
        PROVE  Gone(e)'
    BY <1>4, <2>3 DEF cmd_kill
  <2>4. QED
    BY <1>6, <2>1, <2>2, <2>3 DEF Prompt
<1>7. CASE scheduler \/ keyboard_wakeup_one
  BY <1>2, <1>7 DEF scheduler, keyboard_wakeup_one
<1>8. ASSUME NEW f \in Envs, SystemCall(f)
      PROVE  Gone(e)'
  <2>1. ASSUME NEW call \in Calls, NEW t \in Args(call), syscall(f, call, t)
        PROVE  Gone(e)'
    BY <1>2, <2>1 DEF syscall
  <2>2. CASE allocate_environment(f) \/ complete_environment_initialization(f)
    BY <1>2, <2>2 DEF allocate_environment, complete_environment_initialization
  <2>3. CASE sched_new_env(f) \/ sys_run_env(f) \/ sleep(f) \/ wakeup_all(f)
    BY <1>2, <2>3 DEF sched_new_env, sys_run_env, sleep, wakeup_all
  <2>4. CASE sys_exit_env(f)
    BY <1>3, <2>4 DEF sys_exit_env, env_exit
  <2>5. CASE sys_destroy_env(f)
    <3>1. CASE Killable(Target(f)) /\ kill_found(Target(f))
      <4>1. PICK t : t = Target(f)
        OBVIOUS
      <4>2. QED
        BY <1>4, <3>1, <4>1
    <3>2. CASE env_exit(f) /\ UNCHANGED killed
      BY <1>3, <3>2 DEF env_exit
    <3>3. CASE UNCHANGED <<exitq, killed>>
      BY <1>2, <3>3
    <3>4. QED
      BY <2>5, <3>1, <3>2, <3>3 DEF sys_destroy_env
  <2>6. QED
    BY <1>8, <2>1, <2>2, <2>3, <2>4, <2>5 DEF SystemCall, env_create
<1>9. ASSUME NEW f \in Envs, clock_yield(f) \/ out_of_memory(f)
      PROVE  Gone(e)'
  <2>1. CASE clock_yield(f)
    BY <1>2, <2>1 DEF clock_yield
  <2>2. CASE out_of_memory(f)
    BY <1>3, <2>2 DEF out_of_memory
  <2>3. QED
    BY <1>9, <2>1, <2>2
<1>10. QED
  BY <1>5, <1>6, <1>7, <1>8, <1>9 DEF LNext

\* An environment that exited or was killed never gets the CPU again, in spite
\* of the status READY that a killed one may keep.
THEOREM GoneForGood == LSpec => GoneStaysGone
<1>1. LifeInv => GoneIsAway
  BY InvGone
<1>2. LifeInv /\ GoneIsAway' /\ [LNext]_lvars =>
        [\A e \in Envs : (status[e] = "EXIT" \/ e \in killed) =>
           proc' # e /\ e \notin ToSet(readyq') \cup ToSet(chan')]_lvars
  <2>1. SUFFICES ASSUME LifeInv, GoneIsAway', [LNext]_lvars, NEW e \in Envs,
                        status[e] = "EXIT" \/ e \in killed
                 PROVE  proc' # e /\ e \notin ToSet(readyq') \cup ToSet(chan')
    OBVIOUS
  <2>2. Gone(e)
    BY <2>1, InvGone DEF Gone
  <2>3. Gone(e)'
    BY <2>1, <2>2, GoneStep DEF LifeInv
  <2>4. QED
    BY <2>1, <2>3 DEF GoneIsAway
<1>3. QED
  BY <1>1, <1>2, LifecycleInvariant, PTL DEF LSpec, GoneStaysGone


-----------------------------------------------------------------------------
(* The creation of a slot *)

\* e is free, being created or NEW: it has not run.
Entering(e) == Count(freelist, e) # 0 \/ Count(newq, e) # 0 \/ Fresh(e)

\* As long as no other creator is inside, the slot that a creator marked is
\* still free and marked.  An environment inside a call can run or is gone:
\* nobody can bring back a creator from another place.
CallersRun == \A e \in Envs :
                stage[e] # "user" => proc = e \/ Count(readyq, e) # 0 \/ Gone(e)
SlotsMarked == \A c \in Creators :
                 stage[c] = "init" => /\ slot[c] \in Envs /\ Count(freelist, slot[c]) # 0
                                      /\ status[slot[c]] = "UNKNOWN"
CreateInv == LifeInv /\ CallersRun /\ SlotsMarked

\* What no step does to a slot: make it FREE, or make one that has run free or
\* NEW again; and no environment falls asleep inside a call it has not ended.
Keeps(f) ==
  /\ status'[f] = "FREE" => status[f] = "FREE"
  /\ Entering(f)' => Entering(f)
  /\ Count(chan', f) # 0 => Count(chan, f) # 0 \/ stage'[f] = "user"

\* fos_scheduler() makes no slot FREE.
LEMMA PickFree ==
  ASSUME NEW st \in [Envs -> LifeStatuses], NEW q \in Seq(Envs), pick(st, q), NEW f \in Envs,
         status'[f] = "FREE"
  PROVE  st[f] = "FREE"
BY PickPlace

\* An environment that leaves the CPU makes no slot FREE.
LEMMA LeaveFree ==
  ASSUME LifeInv, NEW e \in Envs, NEW s \in LifeStatuses \ {"FREE"},
         NEW q \in Seq(Envs), pick([status EXCEPT ![e] = s], q), NEW f \in Envs,
         status'[f] = "FREE"
  PROVE  status[f] = "FREE"
<1>1. PICK st : st = [status EXCEPT ![e] = s]
  OBVIOUS
<1>2. /\ st \in [Envs -> LifeStatuses] /\ st[e] = s /\ pick(st, q)
      /\ \A g \in Envs \ {e} : st[g] = status[g]
  BY <1>1 DEF LifeInv, LTypeOK
<1>3. st[f] = "FREE"
  BY <1>2, PickFree
<1>4. QED
  BY <1>2, <1>3

\* Nothing enters by a step that leaves the free list and the NEW queue alone.
LEMMA NothingEnters ==
  ASSUME NEW f \in Envs, UNCHANGED <<freelist, newq>>, Fresh(f)' => Fresh(f)
  PROVE  Entering(f)' => Entering(f)
BY DEF Entering

\* Removing what is found in a list lengthens none.
LEMMA RemoveCount ==
  ASSUME NEW q \in Seq(Envs), NEW t, t \in ToSet(q), NEW f, Count(LIST_REMOVE(q, t), f) # 0
  PROVE  Count(q, f) # 0
<1>1. Count(q, t) # 0 /\ Count(q, f) \in Nat
  BY MemberCount, CountType
<1>2. Count(LIST_REMOVE(q, t), f) = Count(q, f) - IF t = f THEN 1 ELSE 0
  BY <1>1, CountRemove
<1>3. CASE t = f
  BY <1>1, <1>3
<1>4. CASE t # f
  BY <1>1, <1>2, <1>4
<1>5. QED
  BY <1>3, <1>4

\* sched_kill_env() makes nothing FREE and lengthens no list.
LEMMA KillKeeps ==
  ASSUME LifeInv, NEW t, Killable(t), kill_found(t), UNCHANGED <<freelist, chan>>,
         NEW f \in Envs, Fresh(f)' <=> Fresh(f)
  PROVE  Keeps(f)
<1>1. t \in Envs /\ status \in [Envs -> LifeStatuses] /\ newq \in Seq(Envs)
  BY KillType, Lists DEF LifeInv, LTypeOK
<1>2. CASE t \in ToSet(newq)
  <2>1. newq' = LIST_REMOVE(newq, t) /\ status' = [status EXCEPT ![t] = "UNKNOWN"]
    BY <1>2 DEF kill_found
  <2>2. Count(newq', f) # 0 => Count(newq, f) # 0
    BY <1>1, <1>2, <2>1, RemoveCount
  <2>3. status'[f] = "FREE" => status[f] = "FREE"
    BY <1>1, <2>1
  <2>4. QED
    BY <2>2, <2>3 DEF Keeps, Entering
<1>3. CASE t \notin ToSet(newq)
  <2>1. /\ UNCHANGED newq
        /\ UNCHANGED status \/ status' = [status EXCEPT ![t] = "UNKNOWN"]
    BY <1>3 DEF kill_found
  <2>2. status'[f] = "FREE" => status[f] = "FREE"
    BY <1>1, <2>1
  <2>3. QED
    BY <2>1, <2>2 DEF Keeps, Entering
<1>4. QED
  BY <1>2, <1>3


\* No command or interrupt does more than that ...
LEMMA PromptKeeps ==
  ASSUME LifeInv, Prompt \/ scheduler \/ keyboard_wakeup_one, NEW f \in Envs
  PROVE  Keeps(f)
<1>1. /\ freelist \in Seq(Envs) /\ newq \in Seq(Envs) /\ readyq \in Seq(Envs)
      /\ chan \in Seq(Envs) /\ status \in [Envs -> LifeStatuses]
      /\ Count(freelist, f) \in Nat /\ Count(newq, f) \in Nat /\ Count(chan, f) \in Nat
  BY Lists DEF LifeInv, LTypeOK
<1>2. UNCHANGED <<stage, slot>>
  BY DEF Prompt, scheduler, keyboard_wakeup_one, cmd_load, cmd_run, cmd_run_all, cmd_kill,
         cmd_kill_all, cmd_load_panics
<1>3. Fresh(f)' <=> Fresh(f)
  BY <1>2, StillFresh
<1>4. CASE scheduler
  <2>1. pick(status, readyq) /\ UNCHANGED <<freelist, newq, chan>>
    BY <1>4 DEF scheduler
  <2>2. status'[f] = "FREE" => status[f] = "FREE"
    BY <1>1, <2>1, PickFree
  <2>3. QED
    BY <1>3, <2>1, <2>2, NothingEnters DEF Keeps
<1>5. CASE keyboard_wakeup_one
  <2>1. /\ chan # <<>> /\ chan' = Tail(chan) /\ UNCHANGED <<freelist, newq>>
        /\ status' = [status EXCEPT ![Head(chan)] = "READY"]
    BY <1>5 DEF keyboard_wakeup_one
  <2>2. Count(chan', f) = Count(chan, f) - IF Head(chan) = f THEN 1 ELSE 0
    BY <1>1, <2>1, CountTail
  <2>3. Count(chan', f) # 0 => Count(chan, f) # 0
    <3>1. PICK h \in Envs : h = Head(chan) /\ Count(chan, h) # 0
      BY <1>1, <2>1, HeadCount
    <3>2. CASE h = f
      BY <3>1, <3>2
    <3>3. CASE h # f
      BY <1>1, <2>2, <3>1, <3>3
    <3>4. QED
      BY <3>2, <3>3
  <2>4. status'[f] = "FREE" => status[f] = "FREE"
    BY <1>1, <2>1
  <2>5. QED
    BY <1>3, <2>1, <2>3, <2>4, NothingEnters DEF Keeps
<1>6. CASE cmd_load \/ cmd_run
  <2>1. freelist # <<>>
    BY <1>6 DEF cmd_load, cmd_run
  <2>2. PICK t \in Envs : t = Head(freelist) /\ Count(freelist, t) # 0
    BY <1>1, <2>1, HeadCount
  <2>3. /\ freelist' = Tail(freelist) /\ UNCHANGED chan
        /\ UNCHANGED newq \/ newq' = Append(newq, t)
        /\ \E s \in {"NEW", "READY"} : status' = [status EXCEPT ![t] = s]
    BY <1>6, <2>2 DEF cmd_load, cmd_run
  <2>4. status'[f] = "FREE" => status[f] = "FREE"
    BY <1>1, <2>3
  <2>5. f # t => Count(freelist', f) = Count(freelist, f) /\ Count(newq', f) = Count(newq, f)
    <3>1. Count(Tail(freelist), f) = Count(freelist, f) - IF t = f THEN 1 ELSE 0
      BY <1>1, <2>1, <2>2, CountTail
    <3>2. Count(Append(newq, t), f) = Count(newq, f) + IF t = f THEN 1 ELSE 0
      BY <1>1, <2>2, CountAppend
    <3>3. SUFFICES ASSUME f # t
                   PROVE  Count(freelist', f) = Count(freelist, f) /\ Count(newq', f) = Count(newq, f)
      OBVIOUS
    <3>4. Count(Tail(freelist), f) = Count(freelist, f) /\ Count(Append(newq, t), f) = Count(newq, f)
      BY <1>1, <3>1, <3>2, <3>3
    <3>5. QED
      BY <2>3, <3>4
  <2>6. Entering(f)' => Entering(f)
    BY <1>3, <2>2, <2>5 DEF Entering
  <2>7. QED
    BY <2>3, <2>4, <2>6 DEF Keeps
<1>7. CASE cmd_run_all \/ cmd_kill_all
  <2>1. newq' = <<>> /\ UNCHANGED <<freelist, chan>>
    BY <1>7 DEF cmd_run_all, cmd_kill_all
  <2>2. status'[f] = "FREE" => status[f] = "FREE"
    BY <1>1, <1>7 DEF cmd_run_all, cmd_kill_all
  <2>3. Count(newq', f) = 0
    BY <2>1, CountEmpty
  <2>4. QED
    BY <1>3, <2>1, <2>2, <2>3 DEF Keeps, Entering
<1>8. CASE cmd_load_panics
  <2>1. /\ UNCHANGED <<freelist, newq, chan>>
        /\ status' = [status EXCEPT ![Head(freelist)] = "UNKNOWN"]
    BY <1>8 DEF cmd_load_panics
  <2>2. status'[f] = "FREE" => status[f] = "FREE"
    BY <1>1, <2>1
  <2>3. QED
    BY <1>3, <2>1, <2>2, NothingEnters DEF Keeps
<1>9. ASSUME NEW t \in Envs, cmd_kill(t)
      PROVE  Keeps(f)
  BY <1>3, <1>9, KillKeeps DEF cmd_kill
<1>10. QED
  BY <1>4, <1>5, <1>6, <1>7, <1>8, <1>9 DEF Prompt

\* ... and no step of an environment either.
LEMMA EnvKeeps ==
  ASSUME LifeInv, NEW e \in Envs, SystemCall(e) \/ clock_yield(e) \/ out_of_memory(e),
         NEW f \in Envs
  PROVE  Keeps(f)
<1>1. /\ freelist \in Seq(Envs) /\ newq \in Seq(Envs) /\ readyq \in Seq(Envs)
      /\ chan \in Seq(Envs) /\ status \in [Envs -> LifeStatuses]
      /\ stage \in [Envs -> Stages] /\ slot \in [Envs -> Envs \cup {NoEnv}]
      /\ Count(freelist, f) \in Nat /\ Count(newq, f) \in Nat /\ Count(chan, f) \in Nat
  BY Lists DEF LifeInv, LTypeOK
<1>2. CASE clock_yield(e)
  <2>1. /\ pick([status EXCEPT ![e] = "READY"], Append(readyq, e))
        /\ UNCHANGED <<freelist, newq, chan, stage, slot>>
    BY <1>2 DEF clock_yield
  <2>2. Append(readyq, e) \in Seq(Envs) /\ "READY" \in LifeStatuses \ {"FREE"}
    BY <1>1 DEF LifeStatuses
  <2>3. status'[f] = "FREE" => status[f] = "FREE"
    BY <2>1, <2>2, LeaveFree
  <2>4. QED
    BY <2>1, <2>3, StillFresh, NothingEnters DEF Keeps
<1>3. ASSUME env_exit(e), UNCHANGED <<freelist, newq, chan, stage, slot>>
      PROVE  Keeps(f)
  <2>1. pick([status EXCEPT ![e] = "EXIT"], readyq) /\ "EXIT" \in LifeStatuses \ {"FREE"}
    BY <1>3 DEF env_exit, LifeStatuses
  <2>2. status'[f] = "FREE" => status[f] = "FREE"
    BY <1>1, <2>1, LeaveFree
  <2>3. QED
    BY <1>3, <2>2, StillFresh, NothingEnters DEF Keeps
<1>4. CASE out_of_memory(e)
  <2>1. /\ UNCHANGED <<freelist, newq, chan, stage, slot>>
        /\ status' = [status EXCEPT ![e] = "EXIT"]
    BY <1>4 DEF out_of_memory
  <2>2. status'[f] = "FREE" => status[f] = "FREE"
    BY <1>1, <2>1
  <2>3. QED
    BY <2>1, <2>2, StillFresh, NothingEnters DEF Keeps
<1>5. ASSUME NEW call \in Calls, NEW t \in Args(call), syscall(e, call, t)
      PROVE  Keeps(f)
  <2>1. /\ UNCHANGED <<status, freelist, newq, chan, slot>> /\ stage[e] = "user"
        /\ stage' = [stage EXCEPT ![e] = call] /\ call # "new"
    BY <1>5 DEF syscall, In, Calls
  <2>2. \A c \in Envs : stage'[c] = "new" <=> stage[c] = "new"
    BY <1>1, <2>1
  <2>3. Fresh(f)' <=> Fresh(f)
    BY <2>1, <2>2, SameFresh
  <2>4. QED
    BY <2>1, <2>3, NothingEnters DEF Keeps
<1>6. CASE allocate_environment(e)
  <2>1. stage[e] = "create" /\ UNCHANGED <<freelist, newq, chan>>
    BY <1>6 DEF allocate_environment, In
  <2>2. CASE freelist = <<>>
    <3>1. Return(e) /\ UNCHANGED status
      BY <1>6, <2>2 DEF allocate_environment
    <3>2. Fresh(f)' <=> Fresh(f)
      BY <2>1, <3>1, ReturnFresh DEF LifeInv
    <3>3. QED
      BY <2>1, <3>1, <3>2, NothingEnters DEF Keeps
  <2>3. CASE freelist # <<>>
    <3>1. /\ status' = [status EXCEPT ![Head(freelist)] = "UNKNOWN"]
          /\ slot' = [slot EXCEPT ![e] = Head(freelist)]
          /\ stage' = [stage EXCEPT ![e] = "init"]
      BY <1>6, <2>3 DEF allocate_environment, Enter
    <3>2. \A c \in Envs : /\ stage'[c] = "new" <=> stage[c] = "new"
                          /\ stage[c] = "new" => slot'[c] = slot[c]
      BY <1>1, <2>1, <3>1
    <3>3. Fresh(f)' <=> Fresh(f)
      BY <3>2, SameFresh
    <3>4. status'[f] = "FREE" => status[f] = "FREE"
      BY <1>1, <3>1
    <3>5. QED
      BY <2>1, <3>3, <3>4, NothingEnters DEF Keeps
  <2>4. QED
    BY <2>2, <2>3
<1>7. CASE complete_environment_initialization(e)
  <2>1. PICK t : t = slot[e]
    OBVIOUS
  <2>2. /\ t \in ToSet(freelist) /\ freelist' = LIST_REMOVE(freelist, t)
        /\ status' = [status EXCEPT ![t] = "NEW"] /\ stage' = [stage EXCEPT ![e] = "new"]
        /\ UNCHANGED <<newq, chan, slot>>
    BY <1>7, <2>1 DEF complete_environment_initialization, Enter
  <2>3. Count(freelist', f) # 0 => Count(freelist, f) # 0
    BY <1>1, <2>2, RemoveCount
  <2>4. Fresh(f)' => Fresh(f) \/ f = t
    BY <1>1, <2>1, <2>2 DEF Fresh
  <2>5. f = t => Count(freelist, f) # 0
    BY <1>1, <2>2, MemberCount
  <2>6. Entering(f)' => Entering(f)
    BY <2>2, <2>3, <2>4, <2>5 DEF Entering
  <2>7. status'[f] = "FREE" => status[f] = "FREE"
    BY <1>1, <2>2
  <2>8. QED
    BY <2>2, <2>6, <2>7 DEF Keeps
<1>8. CASE sched_new_env(e)
  <2>1. PICK t : t = slot[e]
    OBVIOUS
  <2>2. /\ stage[e] = "new" /\ newq' = Append(newq, t) /\ status' = [status EXCEPT ![t] = "NEW"]
        /\ stage' = [stage EXCEPT ![e] = "user"] /\ slot' = [slot EXCEPT ![e] = NoEnv]
        /\ UNCHANGED <<freelist, chan>>
    BY <1>8, <2>1 DEF sched_new_env, Return, In
  <2>3. t \in Envs /\ Fresh(t)
    BY <2>1, <2>2 DEF LifeInv, Newcomers, Fresh
  <2>4. Count(newq', f) = Count(newq, f) + IF t = f THEN 1 ELSE 0
    BY <1>1, <2>2, <2>3, CountAppend
  <2>5. Fresh(f)' => Fresh(f)
    BY <1>1, <2>2 DEF Fresh
  <2>6. Entering(f)' => Entering(f)
    <3>1. CASE t = f
      BY <2>3, <3>1 DEF Entering
    <3>2. CASE t # f
      <4>1. Count(newq', f) = Count(newq, f)
        BY <1>1, <2>4, <3>2
      <4>2. QED
        BY <2>2, <2>5, <4>1 DEF Entering
    <3>3. QED
      BY <3>1, <3>2
  <2>7. status'[f] = "FREE" => status[f] = "FREE"
    BY <1>1, <2>2
  <2>8. QED
    BY <2>2, <2>6, <2>7 DEF Keeps
<1>9. CASE sys_run_env(e)
  <2>1. stage[e] = "run" /\ Return(e) /\ UNCHANGED <<freelist, chan>>
    BY <1>9 DEF sys_run_env, In
  <2>2. Fresh(f)' <=> Fresh(f)
    BY <2>1, ReturnFresh DEF LifeInv
  <2>3. CASE arg[e] \in ToSet(newq)
    <3>1. PICK t : t = arg[e]
      OBVIOUS
    <3>2. /\ t \in ToSet(newq) /\ newq' = LIST_REMOVE(newq, t)
          /\ status' = [status EXCEPT ![t] = "READY"]
      BY <1>9, <2>3, <3>1 DEF sys_run_env
    <3>3. Count(newq', f) # 0 => Count(newq, f) # 0
      BY <1>1, <3>2, RemoveCount
    <3>4. status'[f] = "FREE" => status[f] = "FREE"
      BY <1>1, <3>2
    <3>5. QED
      BY <2>1, <2>2, <3>3, <3>4 DEF Keeps, Entering
  <2>4. CASE arg[e] \notin ToSet(newq)
    <3>1. UNCHANGED <<newq, status>>
      BY <1>9, <2>4 DEF sys_run_env
    <3>2. QED
      BY <2>1, <2>2, <3>1, NothingEnters DEF Keeps
  <2>5. QED
    BY <2>3, <2>4
<1>10. CASE sys_destroy_env(e)
  <2>1. stage[e] = "destroy" /\ UNCHANGED <<freelist, chan>>
    BY <1>10 DEF sys_destroy_env, In
  <2>2. CASE Killable(Target(e)) /\ kill_found(Target(e)) /\ Return(e)
    <3>1. PICK t : t = Target(e)
      OBVIOUS
    <3>2. Fresh(f)' <=> Fresh(f)
      BY <2>1, <2>2, ReturnFresh DEF LifeInv
    <3>3. QED
      BY <2>1, <2>2, <3>1, <3>2, KillKeeps
  <2>3. CASE env_exit(e) /\ UNCHANGED <<newq, stage, slot>>
    BY <1>3, <2>1, <2>3
  <2>4. CASE Return(e) /\ UNCHANGED <<newq, status>>
    <3>1. Fresh(f)' <=> Fresh(f)
      BY <2>1, <2>4, ReturnFresh DEF LifeInv
    <3>2. QED
      BY <2>1, <2>4, <3>1, NothingEnters DEF Keeps
  <2>5. QED
    BY <1>10, <2>2, <2>3, <2>4 DEF sys_destroy_env
<1>11. CASE sys_exit_env(e)
  BY <1>3, <1>11 DEF sys_exit_env
<1>12. CASE sleep(e)
  <2>1. /\ pick([status EXCEPT ![e] = "BLOCKED"], readyq) /\ chan' = Append(chan, e)
        /\ UNCHANGED <<freelist, newq>> /\ Return(e) /\ stage[e] = "sleep"
    BY <1>12 DEF sleep, In
  <2>2. status'[f] = "FREE" => status[f] = "FREE"
    BY <1>1, <2>1, LeaveFree DEF LifeStatuses
  <2>3. Fresh(f)' <=> Fresh(f)
    BY <2>1, ReturnFresh DEF LifeInv
  <2>4. stage'[e] = "user"
    BY <1>1, <2>1 DEF Return
  <2>5. Count(chan', f) = Count(chan, f) + IF e = f THEN 1 ELSE 0
    BY <1>1, <2>1, CountAppend
  <2>6. Count(chan', f) # 0 => Count(chan, f) # 0 \/ stage'[f] = "user"
    BY <1>1, <2>4, <2>5
  <2>7. QED
    BY <2>1, <2>2, <2>3, <2>6, NothingEnters DEF Keeps
<1>13. CASE wakeup_all(e)
  <2>1. /\ chan' = <<>> /\ UNCHANGED <<freelist, newq>> /\ Return(e) /\ stage[e] = "wakeup"
        /\ status' = [g \in Envs |-> IF g \in ToSet(chan) THEN "READY" ELSE status[g]]
    BY <1>13 DEF wakeup_all, In
  <2>2. status'[f] = "FREE" => status[f] = "FREE"
    BY <2>1
  <2>3. Fresh(f)' <=> Fresh(f)
    BY <2>1, ReturnFresh DEF LifeInv
  <2>4. Count(chan', f) = 0
    BY <2>1, CountEmpty
  <2>5. QED
    BY <2>1, <2>2, <2>3, <2>4, NothingEnters DEF Keeps
<1>14. QED
  BY <1>2, <1>4, <1>5, <1>6, <1>7, <1>8, <1>9, <1>10, <1>11, <1>12, <1>13
     DEF SystemCall, env_create


\* A slot is always somewhere, gone or being created.
Placed ==
  \A e \in Envs :
    \/ Count(freelist, e) # 0 \/ Count(newq, e) # 0 \/ Count(readyq, e) # 0
    \/ Count(exitq, e) # 0 \/ Count(chan, e) # 0 \/ proc = e \/ e \in killed
    \/ Fresh(e)

FreeStatus ==
  \A e \in Envs : Count(freelist, e) # 0 => status[e] \in {"FREE", "UNKNOWN"}

\* Both follow from the invariant.
LEMMA InvPlaced ==
  ASSUME LifeInv
  PROVE  Placed /\ FreeStatus
<1>1. ASSUME NEW e \in Envs
      PROVE  \/ Count(freelist, e) # 0 \/ Count(newq, e) # 0 \/ Count(readyq, e) # 0
             \/ Count(exitq, e) # 0 \/ Count(chan, e) # 0 \/ proc = e \/ e \in killed
             \/ Fresh(e)
  BY OnePlace
<1>2. ASSUME NEW e \in Envs, Count(freelist, e) # 0
      PROVE  status[e] \in {"FREE", "UNKNOWN"}
  BY <1>2, OnePlace
<1>3. QED
  BY <1>1, <1>2 DEF Placed, FreeStatus

\* What runs or is READY stays so, leaves its call, or is gone.
LEMMA CallersStep ==
  ASSUME LifeInv, Placed', NEW e \in Envs, Keeps(e), Gone(e) => Gone(e)',
         proc = e \/ Count(readyq, e) # 0 \/ Gone(e), stage'[e] # "user"
  PROVE  proc' = e \/ Count(readyq', e) # 0 \/ Gone(e)'
<1>1. CASE Gone(e)
  BY <1>1
<1>2. CASE ~Gone(e)
  <2>1. Count(chan, e) = 0 /\ Count(freelist, e) = 0 /\ Count(newq, e) = 0 /\ ~Fresh(e)
    BY <1>2, OnePlace DEF Gone
  <2>2. Count(chan', e) = 0 /\ ~Entering(e)'
    BY <2>1 DEF Keeps, Entering
  <2>3. QED
    BY <2>2 DEF Placed, Entering, Gone
<1>3. QED
  BY <1>1, <1>2


\* What a step does to the call that c is in.
LEMMA StageStep ==
  ASSUME LTypeOK, [LNext]_lvars, NEW c \in Envs
  PROVE  \/ stage'[c] = stage[c] /\ slot'[c] = slot[c]
         \/ stage'[c] = "user"
         \/ \E call \in Calls : \E t \in Args(call) : syscall(c, call, t)
         \/ allocate_environment(c) /\ freelist # <<>>
         \/ complete_environment_initialization(c)
<1> DEFINE Goal(d) == \/ stage'[d] = stage[d] /\ slot'[d] = slot[d]
                      \/ stage'[d] = "user"
                      \/ \E call \in Calls : \E t \in Args(call) : syscall(d, call, t)
                      \/ allocate_environment(d) /\ freelist # <<>>
                      \/ complete_environment_initialization(d)
<1>1. stage \in [Envs -> Stages] /\ slot \in [Envs -> Envs \cup {NoEnv}]
  BY DEF LTypeOK
<1>2. ASSUME UNCHANGED <<stage, slot>>
      PROVE  Goal(c)
  BY <1>2
<1>3. ASSUME NEW e \in Envs, Return(e)
      PROVE  Goal(c)
  BY <1>1, <1>3 DEF Return
<1>4. CASE Prompt \/ scheduler \/ keyboard_wakeup_one \/ UNCHANGED lvars
  <2>1. UNCHANGED <<stage, slot>>
    BY <1>4 DEF Prompt, scheduler, keyboard_wakeup_one, cmd_load, cmd_run, cmd_run_all,
                cmd_kill, cmd_kill_all, cmd_load_panics, lvars
  <2>2. QED
    BY <1>2, <2>1
<1>5. ASSUME NEW e \in Envs, clock_yield(e) \/ out_of_memory(e)
      PROVE  Goal(c)
  BY <1>2, <1>5 DEF clock_yield, out_of_memory
<1>6. ASSUME NEW e \in Envs, SystemCall(e)
      PROVE  Goal(c)
  <2>1. ASSUME NEW call \in Calls, NEW t \in Args(call), syscall(e, call, t)
        PROVE  Goal(c)
    <3>1. stage' = [stage EXCEPT ![e] = call] /\ UNCHANGED slot
      BY <2>1 DEF syscall
    <3>2. CASE c = e
      BY <2>1, <3>2
    <3>3. CASE c # e
      BY <1>1, <3>1, <3>3
    <3>4. QED
      BY <3>2, <3>3
  <2>2. CASE allocate_environment(e)
    <3>1. CASE freelist = <<>>
      BY <1>3, <2>2, <3>1 DEF allocate_environment
    <3>2. CASE freelist # <<>>
      <4>1. /\ stage' = [stage EXCEPT ![e] = "init"]
            /\ slot' = [slot EXCEPT ![e] = Head(freelist)]
        BY <2>2, <3>2 DEF allocate_environment, Enter
      <4>2. CASE c = e
        BY <2>2, <3>2, <4>2
      <4>3. CASE c # e
        BY <1>1, <4>1, <4>3
      <4>4. QED
        BY <4>2, <4>3
    <3>3. QED
      BY <3>1, <3>2
  <2>3. CASE complete_environment_initialization(e)
    <3>1. stage' = [stage EXCEPT ![e] = "new"] /\ UNCHANGED slot
      BY <2>3 DEF complete_environment_initialization, Enter
    <3>2. CASE c = e
      BY <2>3, <3>2
    <3>3. CASE c # e
      BY <1>1, <3>1, <3>3
    <3>4. QED
      BY <3>2, <3>3
  <2>4. CASE sched_new_env(e) \/ sys_run_env(e) \/ sleep(e) \/ wakeup_all(e)
    BY <1>3, <2>4 DEF sched_new_env, sys_run_env, sleep, wakeup_all
  <2>5. CASE sys_exit_env(e)
    BY <1>2, <2>5 DEF sys_exit_env
  <2>6. CASE sys_destroy_env(e)
    BY <1>2, <1>3, <2>6 DEF sys_destroy_env
  <2>7. QED
    BY <1>6, <2>1, <2>2, <2>3, <2>4, <2>5, <2>6 DEF SystemCall, env_create
<1>7. QED
  BY <1>4, <1>5, <1>6 DEF LNext

\* The free list changes at the prompt and when a creation is committed.
LEMMA FreeListStep ==
  ASSUME [LNext]_lvars
  PROVE  \/ UNCHANGED freelist
         \/ AtPrompt
         \/ \E e \in Envs : complete_environment_initialization(e)
<1>1. CASE UNCHANGED lvars
  BY <1>1 DEF lvars
<1>2. CASE Prompt
  <2>1. CASE cmd_load \/ cmd_run \/ cmd_run_all \/ cmd_kill_all
    BY <2>1 DEF cmd_load, cmd_run, cmd_run_all, cmd_kill_all
  <2>2. CASE cmd_load_panics \/ \E t \in Envs : cmd_kill(t)
    BY <2>2 DEF cmd_kill, cmd_load_panics
  <2>3. QED
    BY <1>2, <2>1, <2>2 DEF Prompt
<1>3. CASE scheduler \/ keyboard_wakeup_one
  BY <1>3 DEF scheduler, keyboard_wakeup_one
<1>4. ASSUME NEW e \in Envs, clock_yield(e) \/ out_of_memory(e)
      PROVE  UNCHANGED freelist
  BY <1>4 DEF clock_yield, out_of_memory
<1>5. ASSUME NEW e \in Envs, SystemCall(e)
      PROVE  UNCHANGED freelist \/ complete_environment_initialization(e)
  <2>1. CASE \E call \in Calls : \E t \in Args(call) : syscall(e, call, t)
    BY <2>1 DEF syscall
  <2>2. CASE allocate_environment(e) \/ sched_new_env(e) \/ sys_run_env(e)
    BY <2>2 DEF allocate_environment, sched_new_env, sys_run_env
  <2>3. CASE sys_destroy_env(e) \/ sys_exit_env(e) \/ sleep(e) \/ wakeup_all(e)
    BY <2>3 DEF sys_destroy_env, sys_exit_env, sleep, wakeup_all
  <2>4. QED
    BY <1>5, <2>1, <2>2, <2>3 DEF SystemCall, env_create
<1>6. QED
  BY <1>1, <1>2, <1>3, <1>4, <1>5 DEF LNext

\* So no step does.
LEMMA KeepsStep ==
  ASSUME LifeInv, [LNext]_lvars, NEW f \in Envs
  PROVE  Keeps(f)
<1>1. CASE UNCHANGED lvars
  BY <1>1, StillFresh, NothingEnters DEF lvars, Keeps
<1>2. CASE Prompt \/ scheduler \/ keyboard_wakeup_one
  BY <1>2, PromptKeeps
<1>3. CASE \E e \in Envs : SystemCall(e) \/ clock_yield(e) \/ out_of_memory(e)
  BY <1>3, EnvKeeps
<1>4. QED
  BY <1>1, <1>2, <1>3 DEF LNext

\* Only an env_create() that starts while there is no creator adds one.
LEMMA CreatorsStep ==
  ASSUME CreateInv, [LNext]_lvars, GoneIsAway', NEW c \in Creators'
  PROVE  /\ c \in Envs
         /\ c \in Creators \/ \E t \in Args("create") : syscall(c, "create", t)
<1>1. /\ c \in Envs /\ stage'[c] \in {"create", "init", "new"}
      /\ c = proc' \/ c \in ToSet(readyq')
  BY DEF Creators
<1>2. ~Gone(c)'
  BY <1>1 DEF GoneIsAway
<1>3. ~Gone(c)
  BY <1>1, <1>2, GoneStep DEF CreateInv, LifeInv
<1>4. ASSUME stage[c] \in {"create", "init", "new"}
      PROVE  c \in Creators
  <2>1. proc = c \/ Count(readyq, c) # 0
    BY <1>1, <1>3, <1>4 DEF CreateInv, CallersRun
  <2>2. c \in ToSet(readyq) <=> Count(readyq, c) # 0
    BY Lists, MemberCount DEF CreateInv, LifeInv
  <2>3. QED
    BY <1>1, <1>4, <2>1, <2>2 DEF Creators
<1>5. CASE stage'[c] = stage[c]
  BY <1>1, <1>4, <1>5
<1>6. ASSUME NEW call \in Calls, NEW t \in Args(call), syscall(c, call, t)
      PROVE  \E u \in Args("create") : syscall(c, "create", u)
  <2>1. stage'[c] = call
    BY <1>1, <1>6 DEF syscall, CreateInv, LifeInv, LTypeOK
  <2>2. call = "create"
    BY <1>1, <2>1 DEF Calls
  <2>3. QED
    BY <1>6, <2>2
<1>7. CASE allocate_environment(c) \/ complete_environment_initialization(c)
  <2>1. stage[c] \in {"create", "init", "new"}
    BY <1>7 DEF allocate_environment, complete_environment_initialization, In
  <2>2. QED
    BY <1>1, <1>4, <2>1
<1>8. QED
  BY <1>1, <1>5, <1>6, <1>7, StageStep DEF CreateInv, LifeInv


\* While no two creators are inside, every step keeps CreateInv.
LEMMA CreateStep ==
  ASSUME CreateInv, OneInside, LifeInv', GoneIsAway', Placed', FreeStatus', [LNext]_lvars
  PROVE  CreateInv'
<1>1. LifeInv /\ LTypeOK /\ CallersRun /\ SlotsMarked
  BY DEF CreateInv, LifeInv
<1>2. CallersRun'
  <2>1. SUFFICES ASSUME NEW e \in Envs, stage'[e] # "user"
                 PROVE  proc' = e \/ Count(readyq', e) # 0 \/ Gone(e)'
    BY DEF CallersRun
  <2>2. CASE stage[e] # "user"
    <3>1. proc = e \/ Count(readyq, e) # 0 \/ Gone(e)
      BY <1>1, <2>2 DEF CallersRun
    <3>2. Keeps(e) /\ (Gone(e) => Gone(e)')
      BY <1>1, KeepsStep, GoneStep
    <3>3. QED
      BY <1>1, <2>1, <3>1, <3>2, CallersStep
  <2>3. CASE stage[e] = "user"
    <3>1. \E call \in Calls : \E t \in Args(call) : syscall(e, call, t)
      <4>1. /\ ~allocate_environment(e) /\ ~complete_environment_initialization(e)
            /\ stage'[e] # stage[e]
        BY <2>1, <2>3 DEF allocate_environment, complete_environment_initialization, In
      <4>2. QED
        BY <1>1, <2>1, <4>1, StageStep
    <3>2. QED
      BY <3>1 DEF syscall, In
  <2>4. QED
    BY <2>2, <2>3
<1>3. SlotsMarked'
  <2>1. SUFFICES ASSUME NEW c \in Creators', stage'[c] = "init"
                 PROVE  /\ slot'[c] \in Envs /\ Count(freelist', slot'[c]) # 0
                        /\ status'[slot'[c]] = "UNKNOWN"
    BY DEF SlotsMarked
  <2>2. c \in Envs /\ (stage[c] = "init" => c \in Creators)
    <3>1. stage[c] = "init" => ~\E t \in Args("create") : syscall(c, "create", t)
      BY DEF syscall, In
    <3>2. QED
      BY <2>1, <3>1, CreatorsStep
  <2>3. CASE stage'[c] = stage[c] /\ slot'[c] = slot[c]
    <3>1. PICK s : s = slot[c]
      OBVIOUS
    <3>2. c \in Creators /\ s \in Envs /\ Count(freelist, s) # 0 /\ status[s] = "UNKNOWN"
      BY <1>1, <2>1, <2>2, <2>3, <3>1 DEF SlotsMarked
    <3>3. ~AtPrompt
      <4>1. c = proc \/ c \in ToSet(readyq)
        BY <3>2 DEF Creators
      <4>2. AtPrompt => proc = NoEnv /\ readyq = <<>>
        BY <1>1 DEF LifeInv, OnCpu, Idle, AtPrompt
      <4>3. ToSet(<<>>) = {}
        BY DEF ToSet
      <4>4. QED
        BY <2>2, <4>1, <4>2, <4>3, LifecycleAssumption
    <3>4. ASSUME NEW e \in Envs, complete_environment_initialization(e)
          PROVE  FALSE
      <4>1. /\ stage[e] = "init" /\ proc = e /\ stage' = [stage EXCEPT ![e] = "new"]
        BY <3>4 DEF complete_environment_initialization, In, Enter
      <4>2. e \in Creators
        BY <4>1 DEF Creators
      <4>3. e = c
        BY <2>1, <2>3, <3>2, <4>1, <4>2 DEF OneInside
      <4>4. stage'[c] = "new"
        BY <1>1, <4>1, <4>3 DEF LTypeOK
      <4>5. QED
        BY <2>1, <4>4
    <3>5. freelist' = freelist
      BY <3>3, <3>4, FreeListStep
    <3>6. Count(freelist', s) # 0 /\ status'[s] \in {"FREE", "UNKNOWN"}
      BY <3>2, <3>5 DEF FreeStatus
    <3>7. status'[s] # "FREE"
      BY <1>1, <3>2, KeepsStep DEF Keeps
    <3>8. QED
      BY <2>3, <3>1, <3>2, <3>6, <3>7
  <2>4. CASE allocate_environment(c) /\ freelist # <<>>
    <3>1. PICK t : t = Head(freelist)
      OBVIOUS
    <3>2. t \in Envs /\ Count(freelist, t) # 0
      BY <1>1, <2>4, <3>1, HeadCount, Lists
    <3>3. /\ status' = [status EXCEPT ![t] = "UNKNOWN"] /\ slot' = [slot EXCEPT ![c] = t]
          /\ UNCHANGED freelist
      BY <2>4, <3>1 DEF allocate_environment
    <3>4. slot'[c] = t /\ status'[t] = "UNKNOWN"
      BY <1>1, <2>2, <3>2, <3>3 DEF LTypeOK
    <3>5. QED
      BY <3>2, <3>3, <3>4
  <2>5. ASSUME NEW call \in Calls, NEW t \in Args(call), syscall(c, call, t)
        PROVE  FALSE
    <3>1. stage'[c] = call
      BY <1>1, <2>2, <2>5 DEF syscall, LTypeOK
    <3>2. QED
      BY <2>1, <3>1 DEF Calls
  <2>6. CASE complete_environment_initialization(c)
    <3>1. stage'[c] = "new"
      BY <1>1, <2>2, <2>6 DEF complete_environment_initialization, Enter, LTypeOK
    <3>2. QED
      BY <2>1, <3>1
  <2>7. QED
    BY <1>1, <2>1, <2>2, <2>3, <2>4, <2>5, <2>6, StageStep
<1>4. QED
  BY <1>2, <1>3 DEF CreateInv

\* However many calls of env_create() overlap: as long as no two of them are
\* between allocate_environment() and complete_environment_initialization() at
\* once, the slot that an environment creates is nobody else's, and nobody finds
\* it before sched_new_env().  (LifecycleCreate.cfg shows that two are too many.)
THEOREM CreationIsPrivate == LSpec => CreationsApart
<1>1. LInit => CreateInv
  <2>1. SUFFICES ASSUME LInit
                 PROVE  CreateInv
    OBVIOUS
  <2>2. Creators = {} /\ CallersRun
    BY <2>1 DEF LInit, Creators, CallersRun
  <2>3. QED
    BY <2>1, <2>2, LifeInit DEF CreateInv, SlotsMarked
<1>2. LifeInv => GoneIsAway /\ Placed /\ FreeStatus
  BY InvGone, InvPlaced
<1>3. CreateInv /\ OneInside /\ LifeInv' /\ GoneIsAway' /\ Placed' /\ FreeStatus' /\ [LNext]_lvars
        => CreateInv'
  BY CreateStep
<1>4. CreateInv /\ OneInside => CreatedSlotIsPrivate
  <2>1. SUFFICES ASSUME CreateInv, OneInside
                 PROVE  CreatedSlotIsPrivate
    OBVIOUS
  <2>2. ASSUME NEW c \in Creators, stage[c] \in {"init", "new"}, NEW s, s = slot[c]
        PROVE  /\ s \in Envs /\ c \in Envs /\ s \notin ToSet(newq)
               /\ status[s] = IF stage[c] = "init" THEN "UNKNOWN" ELSE "NEW"
    <3>1. c \in Envs /\ LifeInv
      BY <2>1, <2>2 DEF Creators, CreateInv
    <3>2. s \in Envs /\ Count(newq, s) = 0
          /\ status[s] = IF stage[c] = "init" THEN "UNKNOWN" ELSE "NEW"
      <4>1. CASE stage[c] = "init"
        <5>1. s \in Envs /\ Count(freelist, s) # 0 /\ status[s] = "UNKNOWN"
          BY <2>1, <2>2, <4>1 DEF CreateInv, SlotsMarked
        <5>2. QED
          BY <3>1, <4>1, <5>1, OnePlace
      <4>2. CASE stage[c] = "new"
        <5>1. s \in Envs /\ Fresh(s)
          BY <2>2, <3>1, <4>2 DEF LifeInv, Newcomers, Fresh
        <5>2. Count(newq, s) = 0
          BY <3>1, <5>1, OnePlace
        <5>3. status[s] = "NEW"
          BY <3>1, <5>1 DEF LifeInv, Place, Fits
        <5>4. QED
          BY <4>2, <5>1, <5>2, <5>3
      <4>3. QED
        BY <2>2, <4>1, <4>2
    <3>3. s \notin ToSet(newq)
      BY <3>1, <3>2, Lists, MemberCount DEF LifeInv
    <3>4. QED
      BY <3>1, <3>2, <3>3
  <2>3. ASSUME NEW c \in Creators, stage[c] \in {"init", "new"},
               NEW d \in Creators, stage[d] \in {"init", "new"}, slot[d] = slot[c]
        PROVE  d = c
    <3>1. c \in Envs /\ d \in Envs /\ stage[c] = stage[d]
      BY <2>2, <2>3
    <3>2. CASE stage[c] = "init"
      BY <2>1, <2>3, <3>1, <3>2 DEF OneInside
    <3>3. CASE stage[c] = "new"
      BY <2>1, <2>3, <3>1, <3>3 DEF CreateInv, LifeInv, Newcomers
    <3>4. QED
      BY <2>3, <3>2, <3>3
  <2>4. QED
    BY <2>2, <2>3 DEF CreatedSlotIsPrivate
<1>5. QED
  BY <1>1, <1>2, <1>3, <1>4, LifecycleInvariant, PTL DEF LSpec, CreationsApart
=============================================================================
