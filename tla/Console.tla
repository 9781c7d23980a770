------------------------------- MODULE Console -------------------------------
(***************************************************************************)
(* Console input (kern/cons/console.c, sys_cgetc() of kern/trap/syscall.c) *)
(* as atomic_readline() uses it: an environment locks the console, whose   *)
(* lock "conslock" is a sleep lock, reads characters and unlocks it.  The  *)
(* keyboard interrupt writes the ring buffer and wakes one sleeper of      *)
(* KBDchannel; it is taken wherever interrupts are enabled, in an          *)
(* environment or in the idle scheduler.  A key that is released raises an *)
(* interrupt too, without a character.                                     *)
(*                                                                         *)
(* Characters are numbered in the order of typing: 1, 2, ...               *)
(***************************************************************************)
EXTENDS SleepLock

CONSTANTS CONSBUFSIZE,   \* slots of the ring buffer
          MaxKeys,       \* bound on the keys typed
          MaxReads       \* bound on the characters an environment asks for

ASSUME ConsoleAssumption ==
  /\ CONSBUFSIZE \in Nat \ {0}
  /\ MaxKeys \in Nat
  /\ MaxReads \in Nat

VARIABLES
  buf, rpos, wpos,  \* the ring buffer "cons"
  KBDchannel,       \* its sleepers; the spinlock is "KBDlock"
  slot,             \* the rpos that cons_getc2() of each environment loaded
  keyDown,          \* a key is pressed and not yet released
  typed,            \* characters written so far
  got,              \* the characters read so far, in order
  reads,            \* calls of sys_cgetc() so far
  overrun           \* history: typing once was a whole buffer ahead of reading

keyVars == <<buf, wpos, keyDown, typed, overrun>>
readVars == <<rpos, slot, got, reads>>
consVars == <<keyVars, readVars, KBDchannel>>
allVars == <<vars, consVars>>

GetcPcs == {"g_test", "g_load", "g_read", "g_wrap", "k_lock", "k_qlock",
            "k_enqueue", "k_release", "k_block", "k_wake", "k_relock",
            "k_unlock"}

-----------------------------------------------------------------------------
(* keyboard_interrupt_handler() *)

\* cons_intr(): the writer does not look at rpos.
cons_intr == /\ buf' = [buf EXCEPT ![wpos] = typed + 1]
             /\ wpos' = IF wpos + 1 = CONSBUFSIZE THEN 0 ELSE wpos + 1
             /\ typed' = typed + 1
             /\ overrun' = (overrun \/ typed + 1 - Len(got) = CONSBUFSIZE)

\* Mutant: the sleeper stays in the channel.
wakeup_one_stays ==
  IF KBDchannel = <<>>
    THEN UNCHANGED <<KBDchannel, status, ready>>
    ELSE /\ status' = [status EXCEPT ![Head(KBDchannel)] = "READY"]
         /\ ready' = Append(ready, Head(KBDchannel))
         /\ UNCHANGED KBDchannel

\* wakeup_one(&KBDchannel)
wakeup_one ==
  IF KBDchannel = <<>>
    THEN UNCHANGED <<KBDchannel, status, ready>>
    ELSE /\ KBDchannel' = Tail(KBDchannel)
         /\ status' = [status EXCEPT ![Head(KBDchannel)] = "READY"]
         /\ ready' = Append(ready, Head(KBDchannel))

\* The handler runs with interrupts off from the gate to the return, and takes
\* and frees qlock on the way if the buffer is not empty.
kbd_handler ==
  /\ IF wpos' # rpos
       THEN IF "qlock" \in held
              THEN panicked' = TRUE /\ UNCHANGED <<KBDchannel, status, ready>>
              ELSE wakeup_one /\ UNCHANGED panicked
       ELSE UNCHANGED <<KBDchannel, status, ready, panicked>>
  /\ UNCHANGED <<ctl, proc, cpu, held, saved, irq, exitq, pc, schedpc, lockVars,
                 readVars>>

\* Interrupts are on in the code the CPU executes.  The command prompt, which
\* polls the keyboard, is out of scope.
Interruptible == ~panicked /\ cpu.ien /\ schedpc # "prompt"

key_press == /\ Interruptible /\ ~keyDown
             /\ typed < MaxKeys
             /\ cons_intr
             /\ keyDown' = TRUE
             /\ kbd_handler

key_release == /\ Interruptible /\ keyDown
               /\ keyDown' = FALSE
               /\ UNCHANGED <<buf, wpos, typed, overrun>>
               /\ kbd_handler

-----------------------------------------------------------------------------
(* sys_cgetc(), called with interrupts enabled *)

KeepCons == UNCHANGED consVars

call_cgetc(e) ==
  /\ At(e, "cs") /\ reads[e] < MaxReads
  /\ reads' = [reads EXCEPT ![e] = @ + 1]
  /\ Goto(e, "g_test")
  /\ UNCHANGED <<ctl, proc, cpu, held, saved, irq, status, ready, exitq,
                 schedpc, panicked, lockVars, keyVars, rpos, slot, got,
                 KBDchannel>>

\* cons_getc2() takes no lock: is there a character, which slot, ...
cons_getc2_test(e) ==
  /\ Jump(e, "g_test", IF rpos # wpos THEN "g_load" ELSE "k_lock")
  /\ KeepCons

cons_getc2_load(e) ==
  /\ Jump(e, "g_load", "g_read")
  /\ slot' = [slot EXCEPT ![e] = rpos]
  /\ UNCHANGED <<keyVars, rpos, got, reads, KBDchannel>>

\* Mutant: cons.rpos is incremented before the character is read.
cons_getc2_read_next(e) ==
  /\ Jump(e, "g_read", "g_wrap")
  /\ rpos' = slot[e] + 1
  /\ got' = Append(got, buf[(slot[e] + 1) % CONSBUFSIZE])
  /\ UNCHANGED <<keyVars, slot, reads, KBDchannel>>

\* ... read it and step over it ...
cons_getc2_read(e) ==
  /\ Jump(e, "g_read", "g_wrap")
  /\ rpos' = slot[e] + 1
  /\ got' = Append(got, buf[slot[e]])
  /\ UNCHANGED <<keyVars, slot, reads, KBDchannel>>

\* Mutant: the read position runs past the end.
cons_getc2_wrap_not(e) == Jump(e, "g_wrap", "cs") /\ KeepCons

\* ... and wrap around.
cons_getc2_wrap(e) ==
  /\ Jump(e, "g_wrap", "cs")
  /\ rpos' = IF rpos = CONSBUFSIZE THEN 0 ELSE rpos
  /\ UNCHANGED <<keyVars, slot, got, reads, KBDchannel>>

\* acquire_spinlock(&KBDlock); sleep(&KBDchannel, &KBDlock);
\* release_spinlock(&KBDlock)
getc_lock(e)   == AcquireStep(e, "k_lock", "KBDlock", "k_qlock") /\ KeepCons
getc_qlock(e)  == AcquireStep(e, "k_qlock", "qlock", "k_enqueue") /\ KeepCons
getc_enqueue(e) ==
  /\ Jump(e, "k_enqueue", "k_release")
  /\ KBDchannel' = Append(KBDchannel, proc)
  /\ UNCHANGED <<keyVars, readVars>>
getc_release(e) == ReleaseStep(e, "k_release", "KBDlock", "k_block") /\ KeepCons
getc_block(e) ==
  /\ At(e, "k_block")
  /\ status' = [status EXCEPT ![e] = "BLOCKED"]
  /\ sched(e, "BLOCKED", cpu, held)
  /\ Goto(e, "k_wake")
  /\ UNCHANGED <<proc, cpu, held, irq, ready, exitq, schedpc, lockVars>>
  /\ KeepCons
\* Mutant: sleep() does not take KBDlock back.
getc_wake_unlocked(e) ==
  /\ At(e, "k_wake")
  /\ release_spinlock("qlock", Resumed(e))
  /\ Goto(e, "k_unlock")
  /\ UNCHANGED <<ctl, proc, saved, irq, status, ready, exitq, schedpc, lockVars>>
  /\ KeepCons
getc_wake(e) ==
  /\ At(e, "k_wake")
  /\ release_spinlock("qlock", Resumed(e))
  /\ Goto(e, "k_relock")
  /\ UNCHANGED <<ctl, proc, saved, irq, status, ready, exitq, schedpc, lockVars>>
  /\ KeepCons
getc_relock(e) == AcquireStep(e, "k_relock", "KBDlock", "k_unlock") /\ KeepCons
getc_unlock(e) == ReleaseStep(e, "k_unlock", "KBDlock", "g_test") /\ KeepCons

sys_cgetc(e) ==
  \/ cons_getc2_test(e) \/ cons_getc2_load(e)
  \/ cons_getc2_read(e) \/ cons_getc2_wrap(e)
  \/ getc_lock(e) \/ getc_qlock(e) \/ getc_enqueue(e) \/ getc_release(e)
  \/ getc_block(e) \/ getc_wake(e) \/ getc_relock(e) \/ getc_unlock(e)

-----------------------------------------------------------------------------
ConsInit ==
  /\ Init
  /\ buf = [i \in 0 .. CONSBUFSIZE - 1 |-> 0]
  /\ rpos = 0 /\ wpos = 0
  /\ KBDchannel = <<>>
  /\ slot = [e \in Envs |-> 0]
  /\ keyDown = FALSE
  /\ typed = 0
  /\ overrun = FALSE
  /\ got = <<>>
  /\ reads = [e \in Envs |-> 0]

ConsRun(e) == (Run(e) /\ KeepCons) \/ call_cgetc(e) \/ sys_cgetc(e)

ConsNext ==
  \/ Scheduler /\ KeepCons
  \/ \E e \in Envs : \/ ConsRun(e)
                     \/ (Preempt(e) \/ Resume(e)) /\ KeepCons
  \/ key_press \/ key_release

ConsSpec == ConsInit /\ [][ConsNext]_allVars

\* As in SleepLock; besides, a key that was pressed is released some day.
ConsFairSpec ==
  /\ ConsSpec
  /\ WF_allVars(Scheduler /\ KeepCons)
  /\ SF_allVars(key_release)
  /\ \A e \in Envs : /\ WF_allVars(Resume(e) /\ KeepCons)
                     /\ SF_allVars(ConsRun(e))

-----------------------------------------------------------------------------
(* Properties *)

\* Every variable has a value of its type; in particular rpos is a slot of the
\* buffer or, between cons.rpos++ and the wrap-around, one past its end.
ConsTypeOK ==
  /\ SchedTypeOK
  /\ held \in SUBSET {"qlock", "guard", "KBDlock"}
  /\ pc \in [Envs -> LockPcs \cup GetcPcs]
  /\ locked \in BOOLEAN
  /\ pid \in Envs \cup {NoEnv}
  /\ chan \in Seq(Envs)
  /\ KBDchannel \in Seq(Envs)
  /\ calls \in [Envs -> 0..MaxCalls]
  /\ reads \in [Envs -> 0..MaxReads]
  /\ buf \in [0 .. CONSBUFSIZE - 1 -> 0..MaxKeys]
  /\ wpos \in 0 .. CONSBUFSIZE - 1
  /\ rpos \in 0 .. CONSBUFSIZE
  /\ slot \in [Envs -> 0 .. CONSBUFSIZE - 1]
  /\ typed \in 0..MaxKeys
  /\ overrun \in BOOLEAN
  /\ got \in Seq(0..MaxKeys)

\* Neither the keyboard interrupt nor the clock meets a spinlock of the code it
\* interrupts, and no other check of the locks or of the dispatcher fires.
ConsNoPanic == ~panicked

\* An environment inside sys_cgetc() has the console for itself, also while it
\* sleeps on KBDchannel with the console locked.
ReaderOwnsConsole ==
  \A e \in Envs : pc[e] \in GetcPcs => locked /\ pid = e

\* A reader sleeps in at most one channel and a sleeper is not ready: the two
\* channels, the ready queue and the CPU share out the environments.
SleepersAreApart ==
  \A e \in Envs :
    /\ Count(chan, e) + Count(KBDchannel, e) + Count(ready, e)
         + (IF proc = e THEN 1 ELSE 0) + Count(exitq, e)
       = IF pc[e] \in {"s_release", "s_block", "k_release", "k_block"}
            \/ (proc = e /\ schedpc = "back" /\ status[e] \in {"BLOCKED", "EXIT"})
           THEN 2 ELSE 1
    /\ status[e] = "BLOCKED" => Count(chan, e) + Count(KBDchannel, e) = 1

\* The characters the ring buffer holds, as cons_getc2() will meet them.
Pending == (wpos + CONSBUFSIZE - (rpos % CONSBUFSIZE)) % CONSBUFSIZE

\* The readers together get the characters that were typed, each once and in
\* order, and the buffer holds the rest, until typing is a whole buffer ahead
\* of reading: a full buffer looks empty, and its characters are dropped.
InputInOrder ==
  ~overrun => /\ \A i \in DOMAIN got : got[i] = i
              /\ Pending = typed - Len(got)

\* sys_cgetc() "should sleep (i.e. blocked) until a IRQ1 (KB) interrupt occur":
\* a reader for whom a character was typed returns from sys_cgetc().
TypedCharacterIsRead ==
  \A e \in Envs : (pc[e] \in GetcPcs /\ rpos # wpos) ~> pc[e] \notin GetcPcs
=============================================================================
