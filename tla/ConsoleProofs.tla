---------------------------- MODULE ConsoleProofs ----------------------------
(***************************************************************************)
(* Proofs about Console, for every set of environments, every size of the  *)
(* ring buffer and every bound: the console lock, the dispatcher with the  *)
(* keyboard interrupt, the two channels, and the ring buffer.              *)
(***************************************************************************)
EXTENDS Console, SleepLockProofs

-----------------------------------------------------------------------------
(* The code of Console, in the terms of SleepLockProofs *)

HoldsKbd == {"k_qlock", "k_enqueue", "k_release", "k_unlock"}
KbdQlock == {"k_enqueue", "k_release", "k_block", "k_wake"}

ConsPcs == LockPcs \cup GetcPcs
ConsSpinlocks == {"qlock", "guard", "KBDlock"}

\* The spinlocks held at each place.
ConsLocksAt == [p \in ConsPcs |-> (IF p \in HoldsGuard THEN {"guard"} ELSE {})
                                  \cup (IF p \in HoldsKbd THEN {"KBDlock"} ELSE {})
                                  \cup (IF p \in HoldsQlock \cup KbdQlock THEN {"qlock"} ELSE {})]
ConsWakes == {"s_wake", "k_wake"}
ConsEnqueues == {"s_release", "s_block", "k_release", "k_block"}

\* The links of e in the two channels.
Asleep(e) == Count(KBDchannel, e) + Count(chan, e)

ConsDispatchInv == /\ CpuInv(ConsLocksAt, ConsWakes)
                   /\ \A e \in Envs : Placed(e, Asleep(e), ConsEnqueues)
                   /\ Idle

-----------------------------------------------------------------------------
(* The ring buffer *)

\* The i-th slot from slot b, counted from 0.
SlotAt(b, i) == IF b + i < CONSBUFSIZE THEN b + i ELSE b + i - CONSBUFSIZE

\* The slot of the i-th character that was typed and not yet read, from 0.
NextSlot == IF rpos = CONSBUFSIZE THEN 0 ELSE rpos
SlotOf(i) == SlotAt(NextSlot, i)

\* Until the writer is a whole buffer ahead, the buffer holds the characters
\* from the first that was not read to the last that was typed.
RingInv ==
  ~overrun =>
    /\ \A i \in DOMAIN got : got[i] = i
    /\ typed - Len(got) \in 0 .. CONSBUFSIZE - 1
    /\ wpos = SlotOf(typed - Len(got))
    /\ \A i \in 0 .. typed - Len(got) - 1 : buf[SlotOf(i)] = Len(got) + i + 1
    /\ \A e \in Envs : pc[e] \in {"g_load", "g_read"} => typed # Len(got)

\* What cons_getc2() knows between its steps: the slot it loaded is still the
\* next one, and only it may leave rpos past the end.
ReaderInv ==
  /\ rpos = CONSBUFSIZE => \E e \in Envs : pc[e] = "g_wrap"
  /\ \A e \in Envs : pc[e] = "g_read" => slot[e] = rpos

\* The inductive invariant of Console.
ConsInv == /\ ConsTypeOK
           /\ ConsDispatchInv
           /\ LockInv
           /\ ReaderOwnsConsole
           /\ ReaderInv
           /\ RingInv

-----------------------------------------------------------------------------
(* Types, and the code as the dispatcher sees it *)

\* The types of what Console adds to SleepLock.
ConsoleTypes ==
  /\ KBDchannel \in Seq(Envs)
  /\ reads \in [Envs -> 0..MaxReads]
  /\ buf \in [0 .. CONSBUFSIZE - 1 -> 0..MaxKeys]
  /\ wpos \in 0 .. CONSBUFSIZE - 1
  /\ rpos \in 0 .. CONSBUFSIZE
  /\ slot \in [Envs -> 0 .. CONSBUFSIZE - 1]
  /\ typed \in 0..MaxKeys
  /\ overrun \in BOOLEAN
  /\ got \in Seq(0..MaxKeys)

\* The two parts of the type invariant.
LEMMA ConsTyped ==
  /\ ConsTypeOK <=> Typed(ConsSpinlocks, ConsPcs) /\ ConsoleTypes
  /\ ConsTypeOK' <=> Typed(ConsSpinlocks, ConsPcs)' /\ ConsoleTypes'
BY DEF ConsTypeOK, Typed, ConsoleTypes, ConsSpinlocks, ConsPcs

\* Where the code of Console holds which spinlock.
LEMMA ConsPlaces ==
  /\ DOMAIN ConsLocksAt = ConsPcs
  /\ \A p \in ConsPcs : ConsLocksAt[p] =
       (IF p \in HoldsGuard THEN {"guard"} ELSE {})
       \cup (IF p \in HoldsKbd THEN {"KBDlock"} ELSE {})
       \cup (IF p \in HoldsQlock \cup KbdQlock THEN {"qlock"} ELSE {})
BY DEF ConsLocksAt

\* The code of Console contains that of SleepLock.
LEMMA ConsoleCode ==
  /\ HasSleepLock(ConsLocksAt, ConsWakes, ConsEnqueues)
  /\ ConsTypeOK => Types(ConsLocksAt)
<1> USE DEF ConsPcs, LockPcs, GetcPcs, HoldsGuard, HoldsQlock, HoldsKbd, KbdQlock,
            ConsWakes, ConsEnqueues
<1>1. \A p \in ConsPcs : IsFiniteSet(ConsLocksAt[p])
  <2>1. IsFiniteSet({"guard"})
    BY FS_Singleton
  <2>2. IsFiniteSet({"guard"} \cup {"KBDlock"})
    BY <2>1, FS_AddElement
  <2>3. IsFiniteSet(({"guard"} \cup {"KBDlock"}) \cup {"qlock"})
    BY <2>2, FS_AddElement
  <2>4. \A p \in ConsPcs : ConsLocksAt[p] \in SUBSET (({"guard"} \cup {"KBDlock"}) \cup {"qlock"})
    BY ConsPlaces
  <2>5. QED
    BY <2>3, <2>4, FS_Subset
<1>2. LockMap(ConsLocksAt, ConsWakes)
  BY <1>1, ConsPlaces DEF LockMap
<1>3. Enqueued(ConsLocksAt, ConsWakes, ConsEnqueues)
  BY ConsPlaces DEF Enqueued
<1>4. \A p \in LockPcs : p \notin HoldsKbd /\ p \notin KbdQlock
  OBVIOUS
<1>5. HasSleepLock(ConsLocksAt, ConsWakes, ConsEnqueues)
  BY <1>2, <1>3, <1>4, ConsPlaces DEF HasSleepLock
<1>6. ConsTypeOK => Types(ConsLocksAt)
  BY ConsPlaces DEF ConsTypeOK, Types
<1>7. QED
  BY <1>5, <1>6

-----------------------------------------------------------------------------
(* The dispatcher *)

\* What a step does to the places of all, with both channels.
KeepsConsPlaces ==
  \A f \in Envs : Placed(f, Asleep(f), ConsEnqueues) => Placed(f, Asleep(f), ConsEnqueues)'

\* A step that leaves both channels alone.
LEMMA SameChannels ==
  ASSUME UNCHANGED <<chan, KBDchannel>>,
         \A f \in Envs : \A k : Placed(f, k, ConsEnqueues) => Placed(f, k, ConsEnqueues)'
  PROVE  KeepsConsPlaces
<1> SUFFICES ASSUME NEW f \in Envs, Placed(f, Asleep(f), ConsEnqueues)
             PROVE  Placed(f, Asleep(f), ConsEnqueues)'
  BY DEF KeepsConsPlaces
<1>1. PICK m : m = Asleep(f) /\ m = Asleep(f)'
  BY DEF Asleep
<1>2. Placed(f, m, ConsEnqueues)'
  BY <1>1
<1>3. QED
  BY <1>1, <1>2 DEF Placed

\* The steps of cons_getc2(), which takes no lock.
LEMMA Getc2Keeps ==
  ASSUME ConsTypeOK, ConsDispatchInv, NEW e \in Envs,
         \/ call_cgetc(e) \/ cons_getc2_test(e) \/ cons_getc2_load(e)
         \/ cons_getc2_read(e) \/ cons_getc2_wrap(e)
  PROVE  CpuInv(ConsLocksAt, ConsWakes)' /\ KeepsConsPlaces /\ ctl = e /\ UNCHANGED schedpc
<1> DEFINE Plain == {"cs", "g_test", "g_load", "g_read", "g_wrap", "k_lock"}
<1>1. PICK from \in Plain, to \in Plain : At(e, from) /\ Goto(e, to)
  <2>1. CASE call_cgetc(e)
    BY <2>1 DEF call_cgetc
  <2>2. CASE cons_getc2_test(e)
    BY <2>2 DEF cons_getc2_test, Jump
  <2>3. CASE cons_getc2_load(e)
    BY <2>3 DEF cons_getc2_load, Jump
  <2>4. CASE cons_getc2_read(e)
    BY <2>4 DEF cons_getc2_read, Jump
  <2>5. CASE cons_getc2_wrap(e)
    BY <2>5 DEF cons_getc2_wrap, Jump
  <2>6. QED
    BY <2>1, <2>2, <2>3, <2>4, <2>5
<1>2. UNCHANGED <<ctl, proc, cpu, held, saved, irq, status, ready, exitq, schedpc,
                  panicked, chan, KBDchannel>>
  BY DEF call_cgetc, cons_getc2_test, cons_getc2_load, cons_getc2_read,
         cons_getc2_wrap, Jump, KeepCons, consVars, lockVars
<1>3. \A p \in Plain : /\ p \in DOMAIN ConsLocksAt \ ({"start", "exited"} \cup ConsWakes)
                       /\ ConsLocksAt[p] = {} /\ p \notin ConsEnqueues
  BY ConsPlaces DEF ConsPcs, LockPcs, GetcPcs, HoldsGuard, HoldsQlock, HoldsKbd,
                    KbdQlock, ConsWakes, ConsEnqueues
<1> HIDE DEF Plain
<1>4. LockMap(ConsLocksAt, ConsWakes) /\ Types(ConsLocksAt) /\ CpuInv(ConsLocksAt, ConsWakes)
  BY ConsoleCode DEF HasSleepLock, ConsDispatchInv
<1>5. CpuInv(ConsLocksAt, ConsWakes)'
  BY <1>1, <1>2, <1>3, <1>4, JumpKeepsCpu
<1>6. \A f \in Envs : \A k : Placed(f, k, ConsEnqueues) => Placed(f, k, ConsEnqueues)'
  BY <1>1, <1>2, <1>3, <1>4, QuietKeepsPlaced DEF At, Goto
<1>7. QED
  BY <1>1, <1>2, <1>5, <1>6, SameChannels DEF At

\* The spinlocks of sys_cgetc().
LEMMA GetcLocks ==
  /\ GetcPcs \subseteq ConsPcs \ {"start", "exited"}
  /\ ConsLocksAt["k_lock"] = {} /\ ConsLocksAt["k_qlock"] = {"KBDlock"}
  /\ ConsLocksAt["k_enqueue"] = {"KBDlock", "qlock"}
  /\ ConsLocksAt["k_release"] = {"KBDlock", "qlock"}
  /\ ConsLocksAt["k_block"] = {"qlock"} /\ ConsLocksAt["k_wake"] = {"qlock"}
  /\ ConsLocksAt["k_relock"] = {} /\ ConsLocksAt["k_unlock"] = {"KBDlock"}
  /\ ConsLocksAt["g_test"] = {}
<1> USE DEF ConsPcs, LockPcs, GetcPcs, HoldsGuard, HoldsQlock, HoldsKbd, KbdQlock
<1>1. GetcPcs \subseteq ConsPcs \ {"start", "exited"}
  OBVIOUS
<1>2. ConsLocksAt["k_lock"] = {} /\ ConsLocksAt["k_relock"] = {} /\ ConsLocksAt["g_test"] = {}
  BY ConsPlaces
<1>3. ConsLocksAt["k_qlock"] = {"KBDlock"} /\ ConsLocksAt["k_unlock"] = {"KBDlock"}
  BY ConsPlaces
<1>4. ConsLocksAt["k_enqueue"] = {"KBDlock", "qlock"}
  BY ConsPlaces
<1>5. ConsLocksAt["k_release"] = {"KBDlock", "qlock"}
  BY ConsPlaces
<1>6. ConsLocksAt["k_block"] = {"qlock"} /\ ConsLocksAt["k_wake"] = {"qlock"}
  BY ConsPlaces
<1>7. QED
  BY <1>1, <1>2, <1>3, <1>4, <1>5, <1>6

\* The places of sys_cgetc() before and after it takes or frees a spinlock.
Takes(from, l, to) ==
  \/ from = "k_lock" /\ l = "KBDlock" /\ to = "k_qlock"
  \/ from = "k_qlock" /\ l = "qlock" /\ to = "k_enqueue"
  \/ from = "k_relock" /\ l = "KBDlock" /\ to = "k_unlock"
Frees(from, l, to) ==
  \/ from = "k_release" /\ l = "KBDlock" /\ to = "k_block"
  \/ from = "k_unlock" /\ l = "KBDlock" /\ to = "g_test"
  \/ from = "k_wake" /\ l = "qlock" /\ to = "k_relock"

\* The steps of sys_cgetc() that take or free KBDlock and qlock.
LEMMA GetcSpinlocksKeep ==
  ASSUME ConsTypeOK, ConsDispatchInv, NEW e \in Envs,
         \/ getc_lock(e) \/ getc_qlock(e) \/ getc_relock(e)
         \/ getc_release(e) \/ getc_unlock(e) \/ getc_wake(e)
  PROVE  CpuInv(ConsLocksAt, ConsWakes)' /\ KeepsConsPlaces /\ ctl = e /\ UNCHANGED schedpc
<1>1. LockMap(ConsLocksAt, ConsWakes) /\ Types(ConsLocksAt) /\ CpuInv(ConsLocksAt, ConsWakes)
  BY ConsoleCode DEF HasSleepLock, ConsDispatchInv
<1>2. cpu \in CpuStates /\ saved \in [Envs -> BOOLEAN]
  BY DEF ConsTypeOK, SchedTypeOK
<1>3. /\ UNCHANGED <<ctl, proc, saved, irq, status, ready, exitq, schedpc, chan, KBDchannel>>
      /\ ctl = e
  BY DEF getc_lock, getc_qlock, getc_relock, getc_release, getc_unlock, getc_wake,
         AcquireStep, ReleaseStep, KeepCons, consVars, lockVars, At
<1>4. PICK from, l, to :
        /\ At(e, from) /\ Goto(e, to)
        /\ \/ Takes(from, l, to) /\ acquire_spinlock(l)
           \/ Frees(from, l, to) /\ from # "k_wake" /\ release_spinlock(l, cpu)
           \/ Frees(from, l, to) /\ from = "k_wake" /\ release_spinlock(l, Resumed(e))
  <2>1. CASE getc_lock(e)
    BY <2>1 DEF getc_lock, AcquireStep, Takes
  <2>2. CASE getc_qlock(e)
    BY <2>2 DEF getc_qlock, AcquireStep, Takes
  <2>3. CASE getc_relock(e)
    BY <2>3 DEF getc_relock, AcquireStep, Takes
  <2>4. CASE getc_release(e)
    BY <2>4 DEF getc_release, ReleaseStep, Frees
  <2>5. CASE getc_unlock(e)
    BY <2>5 DEF getc_unlock, ReleaseStep, Frees
  <2>6. CASE getc_wake(e)
    BY <2>6 DEF getc_wake, Frees
  <2>7. QED
    BY <2>1, <2>2, <2>3, <2>4, <2>5, <2>6
<1>5. /\ Resumed(e) \in CpuStates /\ Resumed(e).ien = cpu.ien
      /\ Resumed(e).ncli = cpu.ncli /\ Resumed(e).intena = saved[e]
  BY <1>2 DEF CpuStates, Resumed
<1>6. /\ DOMAIN ConsLocksAt = ConsPcs /\ GetcPcs \subseteq ConsPcs \ {"start", "exited"}
  BY ConsPlaces, GetcLocks
<1>7. /\ from \in DOMAIN ConsLocksAt /\ from # "start"
      /\ to \in DOMAIN ConsLocksAt \ ({"start", "exited"} \cup ConsWakes)
      /\ from \in ConsWakes <=> from = "k_wake"
      /\ to \in ConsEnqueues <=> from \in ConsEnqueues
  BY <1>4, <1>6 DEF Takes, Frees, GetcPcs, ConsWakes, ConsEnqueues
<1>8. CpuInv(ConsLocksAt, ConsWakes)'
  <2>1. CASE Takes(from, l, to) /\ acquire_spinlock(l)
    <3>1. from # "k_wake"
      BY <2>1 DEF Takes
    <3>2. l \notin ConsLocksAt[from] /\ ConsLocksAt[to] = ConsLocksAt[from] \cup {l}
      <4>1. CASE from = "k_lock"
        BY <2>1, <4>1, GetcLocks DEF Takes
      <4>2. CASE from = "k_qlock"
        BY <2>1, <4>2, GetcLocks DEF Takes
      <4>3. CASE from = "k_relock"
        BY <2>1, <4>3, GetcLocks DEF Takes
      <4>4. QED
        BY <2>1, <4>1, <4>2, <4>3 DEF Takes
    <3>3. QED
      BY <1>1, <1>3, <1>4, <1>7, <2>1, <3>1, <3>2, AcquireKeepsCpu
  <2>2. CASE Frees(from, l, to) /\ ~(Takes(from, l, to) /\ acquire_spinlock(l))
    <3>1. l \in ConsLocksAt[from] /\ ConsLocksAt[to] = ConsLocksAt[from] \ {l}
      <4>1. CASE from = "k_release"
        BY <2>2, <4>1, GetcLocks DEF Frees
      <4>2. CASE from = "k_unlock"
        BY <2>2, <4>2, GetcLocks DEF Frees
      <4>3. CASE from = "k_wake"
        BY <2>2, <4>3, GetcLocks DEF Frees
      <4>4. QED
        BY <2>2, <4>1, <4>2, <4>3 DEF Frees
    <3>2. CASE from = "k_wake" /\ release_spinlock(l, Resumed(e))
      BY <1>1, <1>3, <1>4, <1>5, <1>7, <3>1, <3>2, ReleaseKeepsCpu
    <3>3. CASE from # "k_wake" /\ release_spinlock(l, cpu)
      BY <1>1, <1>2, <1>3, <1>4, <1>7, <3>1, <3>3, ReleaseKeepsCpu
    <3>4. QED
      BY <1>4, <2>2, <3>2, <3>3
  <2>3. QED
    BY <1>4, <2>1, <2>2
<1>9. \A f \in Envs : \A k : Placed(f, k, ConsEnqueues) => Placed(f, k, ConsEnqueues)'
  BY <1>1, <1>3, <1>4, <1>7, QuietKeepsPlaced DEF At, Goto
<1>10. QED
  BY <1>3, <1>8, <1>9, SameChannels

\* The enqueue and the switch of sleep(&KBDchannel, &KBDlock).
LEMMA GetcSleepKeeps ==
  ASSUME ConsTypeOK, ConsDispatchInv, NEW e \in Envs, getc_enqueue(e) \/ getc_block(e)
  PROVE  CpuInv(ConsLocksAt, ConsWakes)' /\ KeepsConsPlaces /\ ctl = e /\ UNCHANGED schedpc
<1>1. /\ LockMap(ConsLocksAt, ConsWakes) /\ Types(ConsLocksAt)
      /\ CpuInv(ConsLocksAt, ConsWakes) /\ Enqueued(ConsLocksAt, ConsWakes, ConsEnqueues)
  BY ConsoleCode DEF HasSleepLock, ConsDispatchInv
<1>2. /\ ctl = e /\ e \notin irq /\ proc = e /\ schedpc = "back" /\ status[e] = "RUNNING"
      /\ UNCHANGED <<schedpc, chan>>
  BY <1>1, EnvsAssumption DEF getc_enqueue, getc_block, Jump, At, CpuInv, OnStack, lockVars
<1>3. /\ DOMAIN ConsLocksAt = ConsPcs /\ GetcPcs \subseteq ConsPcs \ {"start", "exited"}
      /\ KBDchannel \in Seq(Envs) /\ chan \in Seq(Envs)
  BY ConsPlaces, GetcLocks DEF ConsTypeOK
<1>4. CASE getc_enqueue(e)
  <2>1. /\ At(e, "k_enqueue") /\ Goto(e, "k_release") /\ KBDchannel' = Append(KBDchannel, e)
        /\ UNCHANGED <<ctl, proc, cpu, held, saved, irq, status, ready, exitq, schedpc, panicked>>
    BY <1>2, <1>4 DEF getc_enqueue, Jump
  <2>2. /\ "k_enqueue" \in DOMAIN ConsLocksAt \ ({"start"} \cup ConsWakes)
        /\ "k_release" \in DOMAIN ConsLocksAt \ ({"start", "exited"} \cup ConsWakes)
        /\ "k_enqueue" \notin ConsEnqueues /\ "k_release" \in ConsEnqueues
        /\ ConsLocksAt["k_release"] = ConsLocksAt["k_enqueue"]
    BY <1>3, GetcLocks DEF GetcPcs, ConsWakes, ConsEnqueues
  <2>3. CpuInv(ConsLocksAt, ConsWakes)'
    BY <1>1, <2>1, <2>2, JumpKeepsCpu
  <2>4. ASSUME NEW f \in Envs, Placed(f, Asleep(f), ConsEnqueues)
        PROVE  Placed(f, Asleep(f), ConsEnqueues)'
    <3>1. /\ Count(KBDchannel, f) \in Nat /\ Count(chan, f) \in Nat
          /\ Count(KBDchannel', f) = Count(KBDchannel, f) + IF e = f THEN 1 ELSE 0
      BY <1>3, <2>1, CountType, CountAppend
    <3>2. PICK m : m = Asleep(f) /\ m \in Nat
      BY <3>1 DEF Asleep
    <3>3. PICK n : n = m + IF e = f THEN 1 ELSE 0
      OBVIOUS
    <3>4. Placed(f, n, ConsEnqueues)'
      BY <1>1, <1>2, <2>1, <2>2, <2>4, <3>2, <3>3, EnqueueKeepsPlaced DEF At, Goto
    <3>5. n = Asleep(f)'
      BY <1>2, <3>1, <3>2, <3>3 DEF Asleep
    <3>6. QED
      BY <3>4, <3>5 DEF Placed
  <2>5. QED
    BY <1>2, <2>3, <2>4 DEF KeepsConsPlaces
<1>5. CASE getc_block(e)
  <2>1. /\ At(e, "k_block") /\ Goto(e, "k_wake") /\ UNCHANGED KBDchannel
        /\ status' = [status EXCEPT ![e] = "BLOCKED"] /\ sched(e, "BLOCKED", cpu, held)
        /\ UNCHANGED <<proc, cpu, held, irq, ready, exitq, schedpc>>
    BY <1>5 DEF getc_block, KeepCons, consVars
  <2>2. /\ "k_block" \in DOMAIN ConsLocksAt \ ({"start"} \cup ConsWakes)
        /\ "k_block" \in ConsEnqueues /\ "k_wake" \in ConsWakes
        /\ ConsLocksAt["k_block"] = {"qlock"}
    BY <1>3, GetcLocks DEF GetcPcs, ConsWakes, ConsEnqueues
  <2>3. CpuInv(ConsLocksAt, ConsWakes)'
    BY <1>1, <2>1, <2>2, BlockKeepsCpu
  <2>4. \A f \in Envs : \A k : Placed(f, k, ConsEnqueues) => Placed(f, k, ConsEnqueues)'
    BY <1>1, <1>2, <2>1, <2>2, BlockKeepsPlaced DEF At, Goto
  <2>5. QED
    BY <1>2, <2>1, <2>3, <2>4, SameChannels
<1>6. QED
  BY <1>4, <1>5

\* What the keyboard interrupt does to the dispatcher: nothing, or it wakes the
\* oldest sleeper, who is BLOCKED and not on the CPU.  No spinlock is held
\* where it is taken.
LEMMA KeyKeeps ==
  ASSUME ConsTypeOK, ConsDispatchInv, key_press \/ key_release
  PROVE  CpuInv(ConsLocksAt, ConsWakes)' /\ KeepsConsPlaces /\ Idle'
<1>1. /\ LockMap(ConsLocksAt, ConsWakes) /\ Types(ConsLocksAt)
      /\ CpuInv(ConsLocksAt, ConsWakes) /\ Enqueued(ConsLocksAt, ConsWakes, ConsEnqueues)
  BY ConsoleCode DEF HasSleepLock, ConsDispatchInv
<1>2. kbd_handler /\ cpu.ien /\ schedpc # "prompt"
  BY DEF key_press, key_release, Interruptible
<1>3. held = {}
  BY <1>1, <1>2 DEF CpuInv, Counted
<1>4. schedpc # "scan"
  <2>1. SUFFICES ASSUME schedpc = "scan" PROVE FALSE
    OBVIOUS
  <2>2. ctl = NoEnv
    BY <1>1, <2>1 DEF CpuInv, OnStack
  <2>3. QED
    BY <1>1, <1>3, <2>1, <2>2 DEF CpuInv, OnScheduler
<1>5. /\ UNCHANGED <<ctl, proc, cpu, held, saved, irq, exitq, pc, schedpc, chan, panicked>>
      /\ UNCHANGED <<KBDchannel, status, ready>> \/ wakeup_one
  BY <1>2, <1>3 DEF kbd_handler, lockVars
<1>6. Idle'
  BY <1>2, <1>4, <1>5 DEF Idle
<1>7. CASE UNCHANGED <<KBDchannel, status, ready>>
  <2>1. CpuInv(ConsLocksAt, ConsWakes)'
    BY <1>1, <1>5, <1>7 DEF CpuInv, Counted, OnStack, OnScheduler, Parked
  <2>2. \A f \in Envs : \A k : Placed(f, k, ConsEnqueues) => Placed(f, k, ConsEnqueues)'
    BY <1>5, <1>7 DEF Placed
  <2>3. QED
    BY <1>5, <1>6, <1>7, <2>1, <2>2, SameChannels
<1>8. CASE wakeup_one /\ KBDchannel # <<>>
  <2> DEFINE g == Head(KBDchannel)
  <2>1. KBDchannel \in Seq(Envs) /\ chan \in Seq(Envs)
    BY DEF ConsTypeOK
  <2>2. g \in Envs /\ g = KBDchannel[1] /\ 1 \in DOMAIN KBDchannel
    BY <1>8, <2>1
  <2>3. /\ KBDchannel' = Tail(KBDchannel) /\ status' = [status EXCEPT ![g] = "READY"]
        /\ ready' = Append(ready, g)
    BY <1>8 DEF wakeup_one
  <2>4. \A f \in Envs : Count(KBDchannel', f) = Count(KBDchannel, f) - IF g = f THEN 1 ELSE 0
    BY <1>8, <2>1, <2>3, CountTail
  <2> HIDE DEF g
  <2>5. /\ Count(KBDchannel, g) \in Nat /\ Count(KBDchannel, g) # 0 /\ Count(chan, g) \in Nat
    BY <2>1, <2>2, CountType
  <2>6. Asleep(g) # 0 /\ Placed(g, Asleep(g), ConsEnqueues)
    BY <2>2, <2>5 DEF Asleep, ConsDispatchInv
  <2>7. status[g] # "RUNNING"
    <3>1. SUFFICES ASSUME status[g] = "RUNNING" PROVE FALSE
      OBVIOUS
    <3>2. pc[g] \in ConsEnqueues
      BY <2>6, <3>1 DEF Placed
    <3>3. ctl = g /\ g # NoEnv
      BY <1>1, <2>2, <3>2, EnqueuedIsOnCpu, EnvsAssumption
    <3>4. ConsLocksAt[pc[g]] # {}
      BY <1>1, <3>2 DEF Enqueued
    <3>5. g \in irq
      BY <1>1, <1>3, <3>3, <3>4 DEF CpuInv, OnStack
    <3>6. QED
      BY <1>1, <1>3, <3>3, <3>5 DEF CpuInv, OnStack
  <2>8. status[g] = "BLOCKED"
    BY <1>1, <2>2, <2>6, <2>7 DEF Placed, Types, SchedTypeOK, Statuses
  <2>9. proc # g
    <3>1. SUFFICES ASSUME proc = g PROVE FALSE
      OBVIOUS
    <3>2. schedpc = "back"
      BY <2>6, <2>8, <3>1 DEF Placed
    <3>3. ctl = NoEnv
      BY <1>1, <2>8, <3>1 DEF CpuInv, OnStack
    <3>4. QED
      BY <1>1, <1>3, <3>2, <3>3 DEF CpuInv, OnScheduler
  <2>10. CpuInv(ConsLocksAt, ConsWakes)'
    BY <1>1, <1>5, <2>2, <2>3, <2>8, WakeupKeepsCpu
  <2>11. ASSUME NEW f \in Envs, Placed(f, Asleep(f), ConsEnqueues)
         PROVE  Placed(f, Asleep(f), ConsEnqueues)'
    <3>1. Count(KBDchannel, f) \in Nat /\ Count(chan, f) \in Nat
      BY <2>1, CountType
    <3>2. PICK m : m = Asleep(f) /\ m \in Nat
      BY <3>1 DEF Asleep
    <3>3. PICK n : n = m - IF g = f THEN 1 ELSE 0
      OBVIOUS
    <3>4. Placed(f, n, ConsEnqueues)'
      BY <1>1, <1>5, <2>2, <2>3, <2>8, <2>9, <2>11, <3>2, <3>3, WakeupKeepsPlaced
    <3>5. n = Asleep(f)'
      BY <1>5, <2>4, <3>1, <3>2, <3>3 DEF Asleep
    <3>6. QED
      BY <3>4, <3>5 DEF Placed
  <2>12. QED
    BY <1>6, <2>10, <2>11 DEF KeepsConsPlaces
<1>9. CASE wakeup_one /\ KBDchannel = <<>>
  BY <1>7, <1>9 DEF wakeup_one
<1>10. QED
  BY <1>5, <1>7, <1>8, <1>9

\* The steps of Console, by kind.
LEMMA ConsSteps ==
  ASSUME ConsNext
  PROVE  \/ Next /\ KeepCons
         \/ \E e \in Envs : call_cgetc(e) \/ sys_cgetc(e)
         \/ key_press \/ key_release
BY DEF ConsNext, ConsRun, Next

\* Every step keeps the dispatcher in order.
LEMMA ConsDispatchStep ==
  ASSUME ConsTypeOK, ConsTypeOK', ConsDispatchInv, ConsNext
  PROVE  ConsDispatchInv'
<1>1. /\ HasSleepLock(ConsLocksAt, ConsWakes, ConsEnqueues) /\ Types(ConsLocksAt)
      /\ CpuInv(ConsLocksAt, ConsWakes) /\ Idle
  BY ConsoleCode DEF ConsDispatchInv
<1>2. CASE Next /\ KeepCons
  <2>1. /\ chan \in Seq(Envs) /\ KBDchannel \in Seq(Envs) /\ KBDchannel' = KBDchannel
    BY <1>2 DEF ConsTypeOK, KeepCons, consVars
  <2>2. \A e \in Envs : Count(KBDchannel, e) \in Nat
    BY <2>1, CountType
  <2>3. AllPlaced(ConsEnqueues)
    BY <2>2 DEF AllPlaced, ConsDispatchInv, Asleep
  <2>4. CpuInv(ConsLocksAt, ConsWakes)' /\ KeepsPlaces(ConsEnqueues) /\ Idle'
    BY <1>1, <1>2, <2>1, <2>3, StepKeeps
  <2>5. ASSUME NEW e \in Envs
        PROVE  Placed(e, Asleep(e), ConsEnqueues)'
    <3>1. PICK k \in Nat : k = Count(KBDchannel, e)
      BY <2>2
    <3>2. Placed(e, k + Count(chan, e), ConsEnqueues)
      BY <3>1 DEF ConsDispatchInv, Asleep
    <3>3. Placed(e, k + Count(chan, e), ConsEnqueues)'
      BY <2>4, <3>2 DEF KeepsPlaces
    <3>4. (k + Count(chan, e) = Asleep(e))'
      BY <2>1, <3>1 DEF Asleep
    <3>5. QED
      BY <3>3, <3>4 DEF Placed
  <2>6. QED
    BY <2>4, <2>5 DEF ConsDispatchInv
<1>3. ASSUME NEW e \in Envs, call_cgetc(e) \/ sys_cgetc(e)
      PROVE  CpuInv(ConsLocksAt, ConsWakes)' /\ KeepsConsPlaces /\ Idle'
  <2>1. CpuInv(ConsLocksAt, ConsWakes)' /\ KeepsConsPlaces /\ ctl = e /\ UNCHANGED schedpc
    BY <1>3, Getc2Keeps, GetcSpinlocksKeep, GetcSleepKeeps DEF sys_cgetc
  <2>2. schedpc = "back"
    BY <1>1, <2>1, EnvsAssumption DEF CpuInv, OnStack
  <2>3. QED
    BY <2>1, <2>2 DEF Idle
<1>4. CASE key_press \/ key_release
  BY <1>4, KeyKeeps DEF KeepsConsPlaces, ConsDispatchInv
<1>5. QED
  BY <1>2, <1>3, <1>4, ConsSteps DEF KeepsConsPlaces, ConsDispatchInv

-----------------------------------------------------------------------------
(* Types *)

\* The variables of SleepLock, in the steps of sys_cgetc().
LEMMA GetcTyped ==
  ASSUME NEW H, NEW P, Typed(H, P), "KBDlock" \in H, GetcPcs \subseteq P,
         NEW e \in Envs, call_cgetc(e) \/ sys_cgetc(e)
  PROVE  Typed(H, P)'
<1>0. "qlock" \in H /\ LockPcs \subseteq P
  BY DEF Typed
<1> USE DEF LockPcs, GetcPcs
<1>1. CASE call_cgetc(e)
  <2>1. pc' \in [Envs -> P]
    BY <1>1, GotoType DEF call_cgetc
  <2>2. QED
    BY <1>1, <2>1 DEF call_cgetc, Typed, SchedTypeOK, lockVars
<1>2. CASE \/ cons_getc2_test(e) \/ cons_getc2_load(e) \/ cons_getc2_read(e)
           \/ cons_getc2_wrap(e) \/ getc_enqueue(e)
  <2>1. /\ "g_load" \in P /\ "k_lock" \in P /\ "g_read" \in P
        /\ "g_wrap" \in P /\ "cs" \in P /\ "k_release" \in P
    BY <1>0
  <2>2. CASE cons_getc2_test(e)
    BY <2>1, <2>2, JumpType DEF cons_getc2_test
  <2>3. CASE cons_getc2_load(e) \/ cons_getc2_read(e) \/ cons_getc2_wrap(e) \/ getc_enqueue(e)
    BY <2>1, <2>3, JumpType
       DEF cons_getc2_load, cons_getc2_read, cons_getc2_wrap, getc_enqueue
  <2>4. QED
    BY <1>2, <2>2, <2>3
<1>3. CASE getc_lock(e) \/ getc_qlock(e) \/ getc_relock(e)
  BY <1>0, <1>3, AcquireStepType DEF getc_lock, getc_qlock, getc_relock
<1>4. CASE getc_release(e) \/ getc_unlock(e)
  BY <1>4, ReleaseStepType DEF getc_release, getc_unlock
<1>5. CASE getc_block(e)
  <2>1. pc' \in [Envs -> P]
    BY <1>5, GotoType DEF getc_block
  <2>2. /\ ctl' \in Envs \cup {NoEnv}
        /\ saved' \in [Envs -> BOOLEAN]
        /\ panicked' \in BOOLEAN
    BY <1>5, SchedType DEF getc_block, Typed, SchedTypeOK
  <2>3. QED
    BY <1>5, <2>1, <2>2 DEF getc_block, Typed, SchedTypeOK, Statuses, lockVars
<1>6. CASE getc_wake(e)
  <2>1. pc' \in [Envs -> P]
    BY <1>6, GotoType DEF getc_wake
  <2>2. /\ cpu' \in CpuStates
        /\ held' \in SUBSET H
        /\ panicked' \in BOOLEAN
    BY <1>0, <1>6, ResumedType, ReleaseType DEF getc_wake
  <2>3. QED
    BY <1>6, <2>1, <2>2 DEF getc_wake, Typed, SchedTypeOK, lockVars
<1>7. QED
  BY <1>1, <1>2, <1>3, <1>4, <1>5, <1>6 DEF sys_cgetc

\* The same for the keyboard interrupt.
LEMMA KeyTyped ==
  ASSUME NEW H, NEW P, Typed(H, P), ConsoleTypes, key_press \/ key_release
  PROVE  Typed(H, P)' /\ KBDchannel' \in Seq(Envs)
<1>1. kbd_handler
  BY DEF key_press, key_release
<1>2. /\ KBDchannel' \in Seq(Envs) /\ status' \in [Envs -> Statuses] /\ ready' \in Seq(Envs)
  <2>1. CASE UNCHANGED <<KBDchannel, status, ready>>
    BY <2>1 DEF Typed, SchedTypeOK, ConsoleTypes
  <2>2. CASE wakeup_one /\ KBDchannel # <<>>
    <3>1. PICK g \in Envs : g = Head(KBDchannel) /\ Tail(KBDchannel) \in Seq(Envs)
      BY <2>2 DEF ConsoleTypes
    <3>2. /\ KBDchannel' = Tail(KBDchannel) /\ status' = [status EXCEPT ![g] = "READY"]
          /\ ready' = Append(ready, g)
      BY <2>2, <3>1 DEF wakeup_one
    <3>3. QED
      BY <3>1, <3>2 DEF Typed, SchedTypeOK, Statuses
  <2>3. QED
    BY <1>1, <2>1, <2>2 DEF kbd_handler, wakeup_one
<1>3. panicked' \in BOOLEAN
  BY <1>1 DEF kbd_handler, Typed, SchedTypeOK
<1>4. QED
  BY <1>1, <1>2, <1>3 DEF kbd_handler, Typed, SchedTypeOK, lockVars

\* Who is inside sys_cgetc() is alone there.
LEMMA OneReader ==
  ASSUME ReaderOwnsConsole, NEW e \in Envs, NEW f \in Envs,
         pc[e] \in GetcPcs, pc[f] \in GetcPcs
  PROVE  e = f
BY DEF ReaderOwnsConsole

\* The read position is a slot of the buffer, except between cons.rpos++ and
\* the test that wraps it around.
LEMMA ReadPosition ==
  ASSUME ConsTypeOK, ReaderOwnsConsole, ReaderInv, NEW e \in Envs,
         pc[e] \in GetcPcs, pc[e] # "g_wrap"
  PROVE  rpos \in 0 .. CONSBUFSIZE - 1
<1>1. rpos # CONSBUFSIZE
  BY OneReader DEF ReaderInv, GetcPcs
<1>2. QED
  BY <1>1, ConsoleAssumption DEF ConsTypeOK

\* Every step keeps the types.
LEMMA ConsTypeStep ==
  ASSUME ConsInv, ConsNext
  PROVE  ConsTypeOK'
<1>1. /\ Typed(ConsSpinlocks, ConsPcs) /\ ConsoleTypes /\ ConsTypeOK
      /\ ReaderOwnsConsole /\ ReaderInv
  BY ConsTyped DEF ConsInv
<1>2. OnCpu
  BY DEF ConsInv, ConsDispatchInv, CpuInv, OnStack, OnCpu
<1>3. CASE Next /\ KeepCons
  <2>1. Typed(ConsSpinlocks, ConsPcs)'
    BY <1>1, <1>2, <1>3, TypeStep
  <2>2. ConsoleTypes'
    BY <1>1, <1>3 DEF KeepCons, consVars, keyVars, readVars, ConsoleTypes
  <2>3. QED
    BY <2>1, <2>2, ConsTyped
<1>4. ASSUME NEW e \in Envs, call_cgetc(e) \/ sys_cgetc(e)
      PROVE  ConsTypeOK'
  <2>1. Typed(ConsSpinlocks, ConsPcs)'
    BY <1>1, <1>4, GetcTyped DEF ConsSpinlocks, ConsPcs
  <2>2. ConsoleTypes'
    <3>1. CASE call_cgetc(e)
      <4>1. reads' \in [Envs -> 0..MaxReads]
        BY <1>1, <3>1, ConsoleAssumption DEF call_cgetc, ConsoleTypes
      <4>2. QED
        BY <1>1, <3>1, <4>1 DEF call_cgetc, keyVars, ConsoleTypes
    <3>2. CASE KeepCons
      BY <1>1, <3>2 DEF KeepCons, consVars, keyVars, readVars, ConsoleTypes
    <3>3. CASE cons_getc2_load(e)
      <4>1. rpos \in 0 .. CONSBUFSIZE - 1
        BY <1>1, <3>3, ReadPosition DEF cons_getc2_load, Jump, At, GetcPcs
      <4>2. slot' \in [Envs -> 0 .. CONSBUFSIZE - 1]
        BY <1>1, <3>3, <4>1 DEF cons_getc2_load, ConsoleTypes
      <4>3. QED
        BY <1>1, <3>3, <4>2 DEF cons_getc2_load, keyVars, ConsoleTypes
    <3>4. CASE cons_getc2_read(e)
      <4>1. slot[e] \in 0 .. CONSBUFSIZE - 1 /\ buf[slot[e]] \in 0..MaxKeys
        BY <1>1 DEF ConsoleTypes
      <4>2. rpos' \in 0 .. CONSBUFSIZE
        BY <3>4, <4>1, ConsoleAssumption DEF cons_getc2_read
      <4>3. got' \in Seq(0..MaxKeys)
        BY <1>1, <3>4, <4>1 DEF cons_getc2_read, ConsoleTypes
      <4>4. QED
        BY <1>1, <3>4, <4>2, <4>3 DEF cons_getc2_read, keyVars, ConsoleTypes
    <3>5. CASE cons_getc2_wrap(e)
      BY <1>1, <3>5, ConsoleAssumption DEF cons_getc2_wrap, keyVars, ConsoleTypes
    <3>6. CASE getc_enqueue(e)
      <4>1. proc \in Envs
        BY <1>2, <3>6, EnvsAssumption DEF getc_enqueue, Jump, At, OnCpu
      <4>2. QED
        BY <1>1, <3>6, <4>1 DEF getc_enqueue, keyVars, readVars, ConsoleTypes
    <3>7. QED
      BY <1>4, <3>1, <3>2, <3>3, <3>4, <3>5, <3>6
         DEF sys_cgetc, cons_getc2_test, getc_lock, getc_qlock, getc_release, getc_block,
             getc_wake, getc_relock, getc_unlock
  <2>3. QED
    BY <2>1, <2>2, ConsTyped
<1>5. CASE key_press \/ key_release
  <2>1. Typed(ConsSpinlocks, ConsPcs)' /\ KBDchannel' \in Seq(Envs)
    BY <1>1, <1>5, KeyTyped
  <2>2. kbd_handler
    BY <1>5 DEF key_press, key_release
  <2>3. CASE key_press
    <3>1. /\ buf' = [buf EXCEPT ![wpos] = typed + 1] /\ typed' = typed + 1 /\ typed < MaxKeys
          /\ wpos' = IF wpos + 1 = CONSBUFSIZE THEN 0 ELSE wpos + 1
          /\ overrun' = (overrun \/ typed + 1 - Len(got) = CONSBUFSIZE)
      BY <2>3 DEF key_press, cons_intr
    <3>2. typed' \in 0..MaxKeys /\ buf' \in [0 .. CONSBUFSIZE - 1 -> 0..MaxKeys]
      BY <1>1, <3>1, ConsoleAssumption DEF ConsoleTypes
    <3>3. wpos' \in 0 .. CONSBUFSIZE - 1
      BY <1>1, <3>1, ConsoleAssumption DEF ConsoleTypes
    <3>4. overrun' \in BOOLEAN
      BY <1>1, <3>1 DEF ConsoleTypes
    <3>5. ConsoleTypes'
      BY <1>1, <2>1, <2>2, <3>2, <3>3, <3>4 DEF kbd_handler, readVars, ConsoleTypes
    <3>6. QED
      BY <2>1, <3>5, ConsTyped
  <2>4. CASE key_release
    <3>1. ConsoleTypes'
      BY <1>1, <2>1, <2>2, <2>4 DEF kbd_handler, readVars, key_release, ConsoleTypes
    <3>2. QED
      BY <2>1, <3>1, ConsTyped
  <2>5. QED
    BY <1>5, <2>3, <2>4
<1>6. QED
  BY <1>3, <1>4, <1>5, ConsSteps

-----------------------------------------------------------------------------
(* The console lock *)

\* The code of SleepLock moves only environments that are in it, and writes
\* the fields of the lock only when it takes or clears it.
LEMMA LockStepsStayOut ==
  ASSUME NEW P, pc \in [Envs -> P], Next
  PROVE  /\ \A f \in Envs : pc[f] \in GetcPcs \/ pc'[f] \in GetcPcs => pc'[f] = pc[f]
         /\ \/ UNCHANGED <<locked, pid>>
            \/ \E e \in Envs : acquire_take(e) \/ release_clear(e)
<1> DEFINE Moved(e) == /\ pc[e] \notin GetcPcs
                       /\ \E to : to \notin GetcPcs /\ pc' = [pc EXCEPT ![e] = to]
<1>1. CASE Scheduler
  BY <1>1 DEF Scheduler, fos_scheduler, sched_sti, sched_acquire, sched_switch,
              sched_none, sched_back, sched_scan, lockVars
<1>2. ASSUME NEW e \in Envs, Run(e) \/ Preempt(e) \/ Resume(e)
      PROVE  /\ UNCHANGED pc \/ Moved(e)
             /\ UNCHANGED <<locked, pid>> \/ acquire_take(e) \/ release_clear(e)
  <2> USE DEF GetcPcs, At, Goto, AcquireStep, ReleaseStep, Jump, lockVars
  <2>1. CASE /\ env_start(e) \/ yield(e) \/ yield_return(e) \/ env_exit(e)
             /\ UNCHANGED lockVars
    BY <2>1 DEF env_start, yield, yield_return, env_exit
  <2>2. CASE call_acquire(e) \/ call_release(e)
    <3>1. pc[e] \in {"user", "cs"} /\ UNCHANGED <<locked, pid>>
      BY <2>2 DEF call_acquire, call_release
    <3>2. pc' = [pc EXCEPT ![e] = "a_holding"] \/ pc' = [pc EXCEPT ![e] = "r_holding"]
      BY <2>2 DEF call_acquire, call_release
    <3>3. QED
      BY <3>1, <3>2
  <2>3. CASE acquire_sleeplock(e)
    <3>1. CASE acquire_test(e)
      BY <3>1 DEF acquire_test
    <3>2. CASE acquire_while(e)
      BY <3>2 DEF acquire_while
    <3>3. CASE acquire_holding(e) \/ acquire_guard(e) \/ acquire_take(e) \/ acquire_done(e)
      BY <3>3 DEF acquire_holding, acquire_guard, acquire_take, acquire_done
    <3>4. QED
      BY <2>3, <3>1, <3>2, <3>3 DEF acquire_sleeplock
  <2>4. CASE sleep(e)
    BY <2>4 DEF sleep, sleep_qlock, sleep_enqueue, sleep_release, sleep_block,
                sleep_wake, sleep_guard
  <2>5. CASE release_sleeplock(e)
    <3>1. CASE release_test(e)
      BY <3>1 DEF release_test
    <3>2. CASE wakeup_all(e)
      BY <3>2 DEF wakeup_all, wakeup_all_qlock, wakeup_all_one, wakeup_all_end,
                  wakeup_all_release
    <3>3. CASE release_holding(e) \/ release_guard(e) \/ release_clear(e) \/ release_done(e)
      BY <3>3 DEF release_holding, release_guard, release_clear, release_done
    <3>4. QED
      BY <2>5, <3>1, <3>2, <3>3 DEF release_sleeplock
  <2>6. QED
    BY <1>2, <2>1, <2>2, <2>3, <2>4, <2>5 DEF Run, Preempt, Resume
<1>3. ASSUME NEW e \in Envs, Run(e) \/ Preempt(e) \/ Resume(e)
      PROVE  \A f \in Envs : pc[f] \in GetcPcs \/ pc'[f] \in GetcPcs => pc'[f] = pc[f]
  <2>1. CASE UNCHANGED pc
    BY <2>1
  <2>2. CASE Moved(e)
    <3>1. PICK to : to \notin GetcPcs /\ pc' = [pc EXCEPT ![e] = to]
      BY <2>2
    <3>2. pc'[e] = to /\ \A f \in Envs : f # e => pc'[f] = pc[f]
      BY <3>1
    <3>3. QED
      BY <2>2, <3>1, <3>2
  <2> HIDE DEF Moved
  <2>3. QED
    BY <1>2, <1>3, <2>1, <2>2
<1> HIDE DEF Moved
<1>4. QED
  BY <1>1, <1>2, <1>3 DEF Next

\* What the steps of sys_cgetc() leave alone.
LEMMA GetcMoves ==
  ASSUME NEW P, pc \in [Envs -> P], NEW e \in Envs, call_cgetc(e) \/ sys_cgetc(e)
  PROVE  /\ ~panicked /\ ctl = e /\ UNCHANGED <<locked, pid, chan>>
         /\ ~panicked' => ("guard" \in held' <=> "guard" \in held)
         /\ pc[e] \in GetcPcs \cup {"cs"} /\ pc'[e] \in GetcPcs \cup {"cs"}
         /\ \A f \in Envs : f # e => pc'[f] = pc[f]
<1> USE DEF GetcPcs, At, Goto, AcquireStep, ReleaseStep, Jump, lockVars
<1>1. PICK to \in GetcPcs \cup {"cs"} : pc' = [pc EXCEPT ![e] = to]
  <2>1. CASE call_cgetc(e)
    BY <2>1 DEF call_cgetc
  <2>2. CASE cons_getc2_test(e)
    BY <2>2 DEF cons_getc2_test
  <2>3. CASE cons_getc2_load(e) \/ cons_getc2_read(e) \/ cons_getc2_wrap(e)
    BY <2>3 DEF cons_getc2_load, cons_getc2_read, cons_getc2_wrap
  <2>4. CASE \/ getc_lock(e) \/ getc_qlock(e) \/ getc_enqueue(e) \/ getc_release(e)
             \/ getc_block(e) \/ getc_wake(e) \/ getc_relock(e) \/ getc_unlock(e)
    BY <2>4 DEF getc_lock, getc_qlock, getc_enqueue, getc_release, getc_block,
                getc_wake, getc_relock, getc_unlock
  <2>5. QED
    BY <2>1, <2>2, <2>3, <2>4 DEF sys_cgetc
<1>2. /\ ~panicked /\ ctl = e /\ UNCHANGED <<locked, pid, chan>>
      /\ pc[e] \in GetcPcs \cup {"cs"}
  BY DEF call_cgetc, sys_cgetc, cons_getc2_test, cons_getc2_load, cons_getc2_read,
         cons_getc2_wrap, getc_lock, getc_qlock, getc_enqueue, getc_release,
         getc_block, getc_wake, getc_relock, getc_unlock
<1>3. ~panicked' => ("guard" \in held' <=> "guard" \in held)
  BY DEF call_cgetc, sys_cgetc, cons_getc2_test, cons_getc2_load, cons_getc2_read,
         cons_getc2_wrap, getc_lock, getc_qlock, getc_enqueue, getc_release,
         getc_block, getc_wake, getc_relock, getc_unlock, acquire_spinlock,
         release_spinlock
<1>4. pc'[e] = to /\ \A f \in Envs : f # e => pc'[f] = pc[f]
  BY <1>1
<1>5. QED
  BY <1>1, <1>2, <1>3, <1>4

\* The console belongs to the environment inside sys_cgetc().
LEMMA ReaderOwnsStep ==
  ASSUME ConsInv, ConsNext
  PROVE  ReaderOwnsConsole'
<1>1. pc \in [Envs -> ConsPcs] /\ LockInv /\ ReaderOwnsConsole /\ ~panicked
  BY DEF ConsInv, ConsTypeOK, ConsPcs, ConsDispatchInv, CpuInv
<1>2. CASE Next
  <2>1. \A f \in Envs : pc'[f] \in GetcPcs => pc'[f] = pc[f] /\ locked /\ pid = f
    BY <1>1, <1>2, LockStepsStayOut DEF ReaderOwnsConsole
  <2>2. CASE UNCHANGED <<locked, pid>>
    BY <2>1, <2>2 DEF ReaderOwnsConsole
  <2>3. ASSUME NEW e \in Envs, acquire_take(e) \/ release_clear(e), NEW f \in Envs
        PROVE  pc'[f] \notin GetcPcs
    <3>1. CASE acquire_take(e)
      BY <1>1, <2>1, <3>1 DEF acquire_take, At, LockInv, TestsStayTrue
    <3>2. CASE release_clear(e)
      <4>1. pc[e] = "r_clear" /\ pid = e
        BY <1>1, <3>2 DEF release_clear, At, LockInv, OwnerIsNamed, Owning
      <4>2. QED
        BY <2>1, <4>1 DEF GetcPcs
    <3>3. QED
      BY <2>3, <3>1, <3>2
  <2>4. QED
    BY <1>1, <1>2, <2>2, <2>3, LockStepsStayOut DEF ReaderOwnsConsole
<1>3. ASSUME NEW e \in Envs, call_cgetc(e) \/ sys_cgetc(e)
      PROVE  ReaderOwnsConsole'
  <2>1. /\ UNCHANGED <<locked, pid>> /\ pc[e] \in GetcPcs \cup {"cs"}
        /\ \A f \in Envs : f # e => pc'[f] = pc[f]
    BY <1>1, <1>3, GetcMoves
  <2>2. locked /\ pid = e
    BY <1>1, <2>1 DEF ReaderOwnsConsole, LockInv, OwnerIsNamed, Owning
  <2>3. QED
    BY <1>1, <2>1, <2>2 DEF ReaderOwnsConsole
<1>4. CASE key_press \/ key_release
  BY <1>1, <1>4 DEF key_press, key_release, kbd_handler, lockVars, ReaderOwnsConsole
<1>5. QED
  BY <1>2, <1>3, <1>4, ConsSteps

\* The sleep lock works as in SleepLock.
LEMMA ConsLockStep ==
  ASSUME ConsInv, ~panicked', ConsNext
  PROVE  LockInv'
<1>1. /\ Typed(ConsSpinlocks, ConsPcs) /\ pc \in [Envs -> ConsPcs] /\ LockInv
      /\ ReaderOwnsConsole /\ ~panicked
  BY ConsTyped DEF ConsInv, ConsTypeOK, ConsPcs, ConsDispatchInv, CpuInv
<1>2. CASE Next
  <2>1. OnCpu
    BY DEF ConsInv, ConsDispatchInv, CpuInv, OnStack, OnCpu
  <2>2. QED
    BY <1>1, <1>2, <2>1, LockInvStep
<1>3. ASSUME NEW e \in Envs, call_cgetc(e) \/ sys_cgetc(e)
      PROVE  LockInv'
  <2>1. /\ UNCHANGED <<locked, pid, chan>> /\ pc[e] \in GetcPcs \cup {"cs"}
        /\ pc'[e] \in GetcPcs \cup {"cs"} /\ \A f \in Envs : f # e => pc'[f] = pc[f]
        /\ "guard" \in held' <=> "guard" \in held
    BY <1>1, <1>3, GetcMoves
  <2>2. locked /\ pid = e
    BY <1>1, <2>1 DEF ReaderOwnsConsole, LockInv, OwnerIsNamed, Owning
  <2>3. \A f \in Envs : pc'[f] \in HoldsGuard => pc'[f] = pc[f] /\ f # e
    BY <2>1 DEF HoldsGuard, GetcPcs
  <2>4. OwnerIsNamed'
    BY <1>1, <2>1, <2>2 DEF LockInv, OwnerIsNamed
  <2>5. GuardExcludes'
    BY <1>1, <2>1, <2>3 DEF LockInv, GuardExcludes
  <2>6. TestsStayTrue'
    BY <1>1, <2>1, <2>3 DEF LockInv, TestsStayTrue, HoldsGuard
  <2>7. QED
    BY <1>1, <2>1, <2>4, <2>5, <2>6 DEF LockInv, NoLostWakeup
<1>4. CASE key_press \/ key_release
  BY <1>1, <1>4
     DEF key_press, key_release, kbd_handler, lockVars, LockInv, OwnerIsNamed,
         NoLostWakeup, GuardExcludes, TestsStayTrue
<1>5. QED
  BY <1>2, <1>3, <1>4, ConsSteps

-----------------------------------------------------------------------------
(* The reader and the ring buffer *)

\* What cons_getc2() knows about the read position.
LEMMA ReaderStep ==
  ASSUME ConsInv, ConsNext
  PROVE  ReaderInv'
<1>1. /\ pc \in [Envs -> ConsPcs] /\ ReaderInv /\ ReaderOwnsConsole /\ ConsTypeOK
  BY DEF ConsInv, ConsTypeOK, ConsPcs
<1>2. CASE Next /\ KeepCons
  <2>1. UNCHANGED <<rpos, slot>>
    BY <1>2 DEF KeepCons, consVars, readVars
  <2>2. \A f \in Envs : pc[f] = "g_wrap" => pc'[f] = "g_wrap"
    BY <1>1, <1>2, LockStepsStayOut DEF GetcPcs
  <2>3. \A f \in Envs : pc'[f] = "g_read" => pc[f] = "g_read"
    BY <1>1, <1>2, LockStepsStayOut DEF GetcPcs
  <2>4. QED
    BY <1>1, <2>1, <2>2, <2>3 DEF ReaderInv
<1>3. ASSUME NEW e \in Envs, call_cgetc(e) \/ sys_cgetc(e)
      PROVE  ReaderInv'
  <2>1. \A f \in Envs : f # e => pc'[f] = pc[f]
    BY <1>1, <1>3, GetcMoves
  <2>2. pc[e] \in GetcPcs => \A f \in Envs : f # e => pc[f] \notin GetcPcs
    BY <1>1, OneReader
  <2>3. CASE cons_getc2_load(e)
    <3>1. UNCHANGED rpos /\ slot' = [slot EXCEPT ![e] = rpos] /\ pc[e] = "g_load"
      BY <2>3 DEF cons_getc2_load, Jump, At
    <3>2. \A f \in Envs : f # e => pc'[f] # "g_read"
      BY <2>1, <2>2, <3>1 DEF GetcPcs
    <3>3. slot'[e] = rpos
      BY <1>1, <3>1 DEF ConsTypeOK
    <3>4. rpos # CONSBUFSIZE
      BY <1>1, <3>1, ReadPosition, ConsoleAssumption DEF GetcPcs
    <3>5. QED
      BY <3>1, <3>2, <3>3, <3>4 DEF ReaderInv
  <2>4. CASE cons_getc2_read(e)
    <3>1. pc[e] = "g_read" /\ pc'[e] = "g_wrap"
      BY <1>1, <2>4 DEF cons_getc2_read, Jump, At, Goto
    <3>2. \A f \in Envs : pc'[f] # "g_read"
      BY <2>1, <2>2, <3>1 DEF GetcPcs
    <3>3. QED
      BY <3>1, <3>2 DEF ReaderInv
  <2>5. CASE cons_getc2_wrap(e)
    <3>1. pc[e] = "g_wrap" /\ pc'[e] = "cs" /\ rpos' # CONSBUFSIZE
      BY <1>1, <2>5, ConsoleAssumption DEF cons_getc2_wrap, Jump, At, Goto
    <3>2. \A f \in Envs : pc'[f] # "g_read"
      BY <2>1, <2>2, <3>1 DEF GetcPcs
    <3>3. QED
      BY <3>1, <3>2 DEF ReaderInv
  <2>6. CASE \/ call_cgetc(e) \/ cons_getc2_test(e)
             \/ getc_lock(e) \/ getc_qlock(e) \/ getc_enqueue(e) \/ getc_release(e)
             \/ getc_block(e) \/ getc_wake(e) \/ getc_relock(e) \/ getc_unlock(e)
    <3>1. UNCHANGED <<rpos, slot>> /\ pc[e] # "g_wrap"
      BY <2>6 DEF call_cgetc, cons_getc2_test, getc_lock, getc_qlock, getc_enqueue,
                  getc_release, getc_block, getc_wake, getc_relock, getc_unlock,
                  Jump, AcquireStep, ReleaseStep, At, KeepCons, consVars, readVars
    <3>2. pc'[e] # "g_read"
      <4>1. CASE cons_getc2_test(e)
        BY <1>1, <4>1 DEF cons_getc2_test, Jump, Goto
      <4>2. CASE ~cons_getc2_test(e)
        BY <1>1, <2>6, <4>2
           DEF call_cgetc, getc_lock, getc_qlock, getc_enqueue,
               getc_release, getc_block, getc_wake, getc_relock, getc_unlock,
               Jump, AcquireStep, ReleaseStep, Goto
      <4>3. QED
        BY <4>1, <4>2
    <3>3. QED
      BY <1>1, <2>1, <3>1, <3>2 DEF ReaderInv
  <2>7. QED
    BY <1>3, <2>3, <2>4, <2>5, <2>6 DEF sys_cgetc
<1>4. CASE key_press \/ key_release
  BY <1>1, <1>4 DEF key_press, key_release, kbd_handler, readVars, ReaderInv
<1>5. QED
  BY <1>2, <1>3, <1>4, ConsSteps

\* The slots of the ring: a whole buffer of them are different, and the slot
\* after one is found by adding one and wrapping around.
LEMMA Slots ==
  ASSUME NEW b \in 0 .. CONSBUFSIZE - 1
  PROVE  /\ \A i \in 0 .. CONSBUFSIZE - 1 : SlotAt(b, i) \in 0 .. CONSBUFSIZE - 1
         /\ \A i, j \in 0 .. CONSBUFSIZE - 1 : SlotAt(b, i) = SlotAt(b, j) => i = j
         /\ SlotAt(b, 0) = b
         /\ \A i \in 0 .. CONSBUFSIZE - 2 :
              SlotAt(b, i + 1) = IF SlotAt(b, i) + 1 = CONSBUFSIZE THEN 0 ELSE SlotAt(b, i) + 1
         /\ \A i \in 0 .. CONSBUFSIZE - 2 :
              SlotAt(b, i + 1) = SlotAt(IF b + 1 = CONSBUFSIZE THEN 0 ELSE b + 1, i)
BY ConsoleAssumption DEF SlotAt

\* The next slot to read is a slot.
LEMMA NextSlotType ==
  ASSUME ConsTypeOK
  PROVE  NextSlot \in 0 .. CONSBUFSIZE - 1
BY ConsoleAssumption DEF ConsTypeOK, NextSlot

\* Reading a character keeps the rest in place.
LEMMA ReadKeepsRing ==
  ASSUME ConsInv, NEW e \in Envs, cons_getc2_read(e)
  PROVE  RingInv'
<1> SUFFICES ASSUME ~overrun'
             PROVE  /\ \A i \in DOMAIN got' : got'[i] = i
                    /\ typed' - Len(got') \in 0 .. CONSBUFSIZE - 1
                    /\ wpos' = SlotOf(typed - Len(got))'
                    /\ \A i \in 0 .. typed' - Len(got') - 1 :
                         buf'[SlotOf(i)'] = Len(got') + i + 1
                    /\ \A f \in Envs : pc'[f] \in {"g_load", "g_read"} => typed' # Len(got')
  BY DEF RingInv
<1>1. /\ pc \in [Envs -> ConsPcs] /\ ReaderInv /\ ReaderOwnsConsole /\ ConsTypeOK /\ RingInv
  BY DEF ConsInv, ConsTypeOK, ConsPcs
<1>2. /\ pc[e] = "g_read" /\ pc'[e] = "g_wrap" /\ slot[e] = rpos
      /\ UNCHANGED <<buf, wpos, typed, overrun>>
      /\ rpos' = rpos + 1 /\ got' = Append(got, buf[rpos])
  BY <1>1 DEF cons_getc2_read, Jump, At, Goto, keyVars, ReaderInv
<1>3. rpos \in 0 .. CONSBUFSIZE - 1 /\ NextSlot = rpos
  <2>1. rpos \in 0 .. CONSBUFSIZE - 1
    BY <1>1, <1>2, ReadPosition DEF GetcPcs
  <2>2. QED
    BY <2>1, ConsoleAssumption DEF NextSlot
<1>4. PICK n : n = typed - Len(got)
  OBVIOUS
<1>5. typed \in Nat /\ got \in Seq(0..MaxKeys) /\ Len(got) \in Nat
  BY <1>1, ConsoleAssumption DEF ConsTypeOK
<1>6. /\ \A i \in DOMAIN got : got[i] = i
      /\ n \in 1 .. CONSBUFSIZE - 1
      /\ wpos = SlotAt(rpos, n)
      /\ \A i \in 0 .. n - 1 : buf[SlotAt(rpos, i)] = Len(got) + i + 1
  <2>1. typed # Len(got)
    BY <1>1, <1>2 DEF RingInv
  <2>2. QED
    BY <1>1, <1>2, <1>3, <1>4, <1>5, <2>1, ConsoleAssumption DEF RingInv, SlotOf
<1>7. buf[rpos] = Len(got) + 1
  <2>1. SlotAt(rpos, 0) = rpos
    BY <1>3, Slots
  <2>2. 0 \in 0 .. n - 1
    BY <1>6, ConsoleAssumption
  <2>3. buf[SlotAt(rpos, 0)] = Len(got) + 0 + 1
    BY <1>6, <2>2
  <2>4. QED
    BY <1>5, <2>1, <2>3
<1>8. Len(got') = Len(got) + 1 /\ \A i \in DOMAIN got' : got'[i] = i
  <2>1. buf[rpos] \in 0..MaxKeys
    BY <1>1, <1>3 DEF ConsTypeOK
  <2>2. /\ Len(got') = Len(got) + 1 /\ DOMAIN got' = 1 .. Len(got) + 1
        /\ DOMAIN got = 1 .. Len(got)
        /\ \A i \in 1 .. Len(got) : got'[i] = got[i]
        /\ got'[Len(got) + 1] = buf[rpos]
    BY <1>2, <1>5, <2>1
  <2>3. QED
    BY <1>5, <1>6, <1>7, <2>2
<1>9. \A i \in 0 .. CONSBUFSIZE - 2 : SlotOf(i)' = SlotAt(rpos, i + 1)
  <2>1. NextSlot' = IF rpos + 1 = CONSBUFSIZE THEN 0 ELSE rpos + 1
    BY <1>2 DEF NextSlot
  <2>2. \A i : SlotOf(i)' = SlotAt(NextSlot', i)
    BY DEF SlotOf, SlotAt
  <2>3. QED
    BY <1>3, <2>1, <2>2, Slots
<1>10. typed' - Len(got') = n - 1 /\ n - 1 \in 0 .. CONSBUFSIZE - 2
  BY <1>2, <1>4, <1>5, <1>6, <1>8, ConsoleAssumption
<1>11. wpos' = SlotOf(typed - Len(got))'
  <2>1. SlotOf(typed - Len(got))' = SlotAt(NextSlot', n - 1)
    BY <1>10 DEF SlotOf, SlotAt
  <2>2. SlotAt(NextSlot', n - 1) = SlotAt(rpos, (n - 1) + 1)
    BY <1>9, <1>10 DEF SlotOf, SlotAt
  <2>3. QED
    BY <1>2, <1>6, <1>10, <2>1, <2>2
<1>12. ASSUME NEW i \in 0 .. typed' - Len(got') - 1
       PROVE  buf'[SlotOf(i)'] = Len(got') + i + 1
  <2>1. i \in 0 .. CONSBUFSIZE - 2 /\ i + 1 \in 0 .. n - 1
    BY <1>6, <1>10, <1>12, ConsoleAssumption
  <2>2. SlotOf(i)' = SlotAt(rpos, i + 1)
    BY <1>9, <2>1
  <2>3. buf[SlotAt(rpos, i + 1)] = Len(got) + (i + 1) + 1
    BY <1>6, <2>1
  <2>4. QED
    BY <1>2, <1>5, <1>8, <2>1, <2>2, <2>3
<1>13. \A f \in Envs : pc'[f] \notin {"g_load", "g_read"}
  <2>1. \A f \in Envs : f # e => pc'[f] = pc[f] /\ pc[f] \notin GetcPcs
    BY <1>1, <1>2, GetcMoves, OneReader DEF GetcPcs, sys_cgetc
  <2>2. QED
    BY <1>2, <2>1 DEF GetcPcs
<1>14. QED
  BY <1>8, <1>10, <1>11, <1>12, <1>13, ConsoleAssumption

\* A character that is typed goes behind the others, into a slot that none of
\* them has, unless it makes the buffer full.
LEMMA KeyKeepsRing ==
  ASSUME ConsInv, key_press
  PROVE  RingInv'
<1> SUFFICES ASSUME ~overrun'
             PROVE  /\ \A i \in DOMAIN got' : got'[i] = i
                    /\ typed' - Len(got') \in 0 .. CONSBUFSIZE - 1
                    /\ wpos' = SlotOf(typed - Len(got))'
                    /\ \A i \in 0 .. typed' - Len(got') - 1 :
                         buf'[SlotOf(i)'] = Len(got') + i + 1
                    /\ \A f \in Envs : pc'[f] \in {"g_load", "g_read"} => typed' # Len(got')
  BY DEF RingInv
<1>1. ConsTypeOK /\ RingInv
  BY DEF ConsInv
<1>2. /\ buf' = [buf EXCEPT ![wpos] = typed + 1] /\ typed' = typed + 1
      /\ wpos' = IF wpos + 1 = CONSBUFSIZE THEN 0 ELSE wpos + 1
      /\ ~overrun /\ typed + 1 - Len(got) # CONSBUFSIZE
      /\ UNCHANGED <<rpos, got, pc>>
  BY DEF key_press, cons_intr, kbd_handler, readVars
<1>3. /\ typed \in Nat /\ got \in Seq(0..MaxKeys) /\ Len(got) \in Nat
      /\ buf \in [0 .. CONSBUFSIZE - 1 -> 0..MaxKeys]
  BY <1>1, ConsoleAssumption DEF ConsTypeOK
<1>4. PICK n : n = typed - Len(got)
  OBVIOUS
<1>5. PICK b \in 0 .. CONSBUFSIZE - 1 : b = NextSlot
  BY <1>1, NextSlotType
<1>6. \A i : SlotOf(i) = SlotAt(b, i) /\ SlotOf(i)' = SlotAt(b, i)
  BY <1>2, <1>5 DEF SlotOf, SlotAt, NextSlot
<1>7. /\ \A i \in DOMAIN got : got[i] = i
      /\ n \in 0 .. CONSBUFSIZE - 1
      /\ wpos = SlotAt(b, n)
      /\ \A i \in 0 .. n - 1 : buf[SlotAt(b, i)] = Len(got) + i + 1
  BY <1>1, <1>2, <1>4, <1>6 DEF RingInv
<1>8. n \in 0 .. CONSBUFSIZE - 2 /\ typed' - Len(got') = n + 1
  BY <1>2, <1>3, <1>4, <1>7, ConsoleAssumption
<1>9. wpos' = SlotAt(b, n + 1)
  BY <1>2, <1>7, <1>8, Slots
<1>10. ASSUME NEW i \in 0 .. typed' - Len(got') - 1
       PROVE  buf'[SlotOf(i)'] = Len(got') + i + 1
  <2>1. i \in 0 .. n /\ i \in 0 .. CONSBUFSIZE - 1 /\ n \in 0 .. CONSBUFSIZE - 1
    BY <1>8, <1>10, ConsoleAssumption
  <2>2. SlotAt(b, i) \in 0 .. CONSBUFSIZE - 1
    BY <2>1, Slots
  <2>3. CASE i = n
    BY <1>2, <1>3, <1>4, <1>6, <1>7, <2>1, <2>2, <2>3
  <2>4. CASE i # n
    <3>1. SlotAt(b, i) # wpos
      BY <1>7, <2>1, <2>4, Slots
    <3>2. buf[SlotAt(b, i)] = Len(got) + i + 1
      BY <1>7, <2>1, <2>4
    <3>3. QED
      BY <1>2, <1>3, <1>6, <2>2, <3>1, <3>2
  <2>5. QED
    BY <2>3, <2>4
<1>11. typed' # Len(got') /\ typed' - Len(got') \in 0 .. CONSBUFSIZE - 1
  BY <1>2, <1>3, <1>8, ConsoleAssumption
<1>12. wpos' = SlotOf(typed - Len(got))'
  <2>1. SlotOf(typed - Len(got))' = SlotAt(NextSlot', typed' - Len(got'))
    BY DEF SlotOf, SlotAt
  <2>2. NextSlot' = b
    BY <1>2, <1>5 DEF NextSlot
  <2>3. QED
    BY <1>8, <1>9, <2>1, <2>2
<1>13. QED
  BY <1>2, <1>7, <1>10, <1>11, <1>12

\* Steps that do not read or type keep the ring.
LEMMA QuietKeepsRing ==
  ASSUME RingInv, UNCHANGED <<buf, wpos, typed, overrun, got>>, NextSlot' = NextSlot,
         \A f \in Envs : pc'[f] \in {"g_load", "g_read"} =>
                           pc[f] \in {"g_load", "g_read"} \/ overrun \/ typed # Len(got)
  PROVE  RingInv'
<1>1. \A i : SlotOf(i)' = SlotOf(i)
  BY DEF SlotOf, SlotAt
<1>2. SlotOf(typed - Len(got))' = SlotOf(typed - Len(got))
  BY DEF SlotOf, SlotAt
<1>3. QED
  BY <1>1, <1>2 DEF RingInv

\* The ring buffer loses nothing.
LEMMA RingStep ==
  ASSUME ConsInv, ConsNext
  PROVE  RingInv'
<1>1. /\ pc \in [Envs -> ConsPcs] /\ ReaderInv /\ ReaderOwnsConsole /\ ConsTypeOK /\ RingInv
  BY DEF ConsInv, ConsTypeOK, ConsPcs
<1>2. CASE Next /\ KeepCons
  <2>1. UNCHANGED <<rpos, buf, wpos, typed, overrun, got>>
    BY <1>2 DEF KeepCons, consVars, readVars, keyVars
  <2>2. \A f \in Envs : pc'[f] \in {"g_load", "g_read"} => pc'[f] = pc[f]
    BY <1>1, <1>2, LockStepsStayOut DEF GetcPcs
  <2>3. NextSlot' = NextSlot
    BY <2>1 DEF NextSlot
  <2>4. QED
    BY <1>1, <2>1, <2>2, <2>3, QuietKeepsRing
<1>3. ASSUME NEW e \in Envs, call_cgetc(e) \/ sys_cgetc(e)
      PROVE  RingInv'
  <2>1. \A f \in Envs : f # e => pc'[f] = pc[f]
    BY <1>1, <1>3, GetcMoves
  <2>2. CASE cons_getc2_test(e)
    <3>1. /\ UNCHANGED <<rpos, buf, wpos, typed, overrun, got>> /\ pc[e] = "g_test"
          /\ pc'[e] = IF rpos # wpos THEN "g_load" ELSE "k_lock"
      BY <1>1, <2>2 DEF cons_getc2_test, KeepCons, consVars, readVars, keyVars, Jump, At, Goto
    <3>2. rpos \in 0 .. CONSBUFSIZE - 1
      BY <1>1, <3>1, ReadPosition DEF GetcPcs
    <3>3. NextSlot = rpos /\ NextSlot' = NextSlot
      BY <3>1, <3>2, ConsoleAssumption DEF NextSlot
    <3>4. ASSUME ~overrun, typed = Len(got)
          PROVE  rpos = wpos
      <4>1. typed - Len(got) = 0
        BY <1>1, <3>4, ConsoleAssumption DEF ConsTypeOK
      <4>2. wpos = SlotAt(rpos, 0)
        BY <1>1, <3>3, <3>4, <4>1 DEF RingInv, SlotOf
      <4>3. QED
        BY <3>2, <4>2, Slots
    <3>5. QED
      BY <1>1, <2>1, <3>1, <3>3, <3>4, QuietKeepsRing
  <2>3. CASE cons_getc2_read(e)
    BY <2>3, ReadKeepsRing
  <2>4. CASE \/ call_cgetc(e) \/ cons_getc2_load(e) \/ cons_getc2_wrap(e)
             \/ getc_lock(e) \/ getc_qlock(e) \/ getc_enqueue(e) \/ getc_release(e)
             \/ getc_block(e) \/ getc_wake(e) \/ getc_relock(e) \/ getc_unlock(e)
    <3>1. UNCHANGED <<buf, wpos, typed, overrun, got>> /\ NextSlot' = NextSlot
      BY <2>4, ConsoleAssumption
         DEF call_cgetc, cons_getc2_load, cons_getc2_wrap, getc_lock, getc_qlock,
             getc_enqueue, getc_release, getc_block, getc_wake, getc_relock,
             getc_unlock, KeepCons, consVars, readVars, keyVars, NextSlot
    <3>2. pc'[e] \in {"g_load", "g_read"} => pc[e] \in {"g_load", "g_read"}
      BY <1>1, <2>4
         DEF call_cgetc, cons_getc2_load, cons_getc2_wrap, getc_lock, getc_qlock,
             getc_enqueue, getc_release, getc_block, getc_wake, getc_relock,
             getc_unlock, Jump, AcquireStep, ReleaseStep, At, Goto
    <3>3. QED
      BY <1>1, <2>1, <3>1, <3>2, QuietKeepsRing
  <2>5. QED
    BY <1>3, <2>2, <2>3, <2>4 DEF sys_cgetc
<1>4. CASE key_press
  BY <1>4, KeyKeepsRing
<1>5. CASE key_release
  <2>1. UNCHANGED <<rpos, buf, wpos, typed, overrun, got, pc>>
    BY <1>5 DEF key_release, kbd_handler, readVars
  <2>2. NextSlot' = NextSlot
    BY <2>1 DEF NextSlot
  <2>3. QED
    BY <1>1, <2>1, <2>2, QuietKeepsRing
<1>6. QED
  BY <1>2, <1>3, <1>4, <1>5, ConsSteps

-----------------------------------------------------------------------------
(* The theorems *)

\* The invariant holds when fos_scheduler() is entered ...
LEMMA ConsInitInv == ConsInit => ConsInv
<1> SUFFICES ASSUME ConsInit PROVE ConsInv
  OBVIOUS
<1>1. /\ Init /\ TypeOK /\ DispatchInv
  BY InitType, InitDispatch DEF ConsInit
<1>2. /\ buf = [i \in 0 .. CONSBUFSIZE - 1 |-> 0] /\ rpos = 0 /\ wpos = 0
      /\ KBDchannel = <<>> /\ slot = [e \in Envs |-> 0] /\ typed = 0
      /\ overrun = FALSE /\ got = <<>> /\ reads = [e \in Envs |-> 0]
      /\ pc = [e \in Envs |-> "start"] /\ chan = <<>> /\ irq = {} /\ ctl = NoEnv
  BY DEF ConsInit, Init, SchedInit
<1>3. ConsTypeOK
  <2>1. Typed(ConsSpinlocks, ConsPcs)
    BY <1>1 DEF TypeOK, Typed, ConsSpinlocks, ConsPcs
  <2>2. ConsoleTypes
    BY <1>2, ConsoleAssumption DEF ConsoleTypes
  <2>3. QED
    BY <2>1, <2>2, ConsTyped
<1>4. ConsDispatchInv
  <2>1. CpuInv(ConsLocksAt, ConsWakes)
    BY <1>1, <1>2
       DEF DispatchInv, CpuInv, OnStack, OnScheduler, Parked, ConsWakes
  <2>2. ASSUME NEW e \in Envs
        PROVE  Placed(e, Asleep(e), ConsEnqueues)
    <3>1. Count(chan, e) = 0 /\ Count(KBDchannel, e) = 0
      BY <1>2, CountEmpty
    <3>2. Asleep(e) = 0 /\ Placed(e, 0, Enqueues)
      BY <1>1, <3>1 DEF Asleep, DispatchInv
    <3>3. pc[e] \notin Enqueues /\ pc[e] \notin ConsEnqueues
      BY <1>2 DEF Enqueues, ConsEnqueues
    <3>4. QED
      BY <3>2, <3>3 DEF Placed
  <2>3. QED
    BY <1>1, <2>1, <2>2 DEF ConsDispatchInv, DispatchInv
<1>5. LockInv
  BY <1>2 DEF LockInv, OwnerIsNamed, NoLostWakeup, GuardExcludes, TestsStayTrue,
              HoldsGuard, Owning
<1>6. ReaderOwnsConsole /\ ReaderInv
  BY <1>2, ConsoleAssumption DEF ReaderOwnsConsole, ReaderInv, GetcPcs
<1>7. RingInv
  <2>1. typed - Len(got) = 0 /\ SlotOf(0) = 0
    BY <1>2, ConsoleAssumption DEF SlotOf, SlotAt, NextSlot
  <2>2. QED
    BY <1>2, <2>1, ConsoleAssumption DEF RingInv
<1>8. QED
  BY <1>3, <1>4, <1>5, <1>6, <1>7 DEF ConsInv

\* ... and every step preserves it.
LEMMA ConsInvStep ==
  ASSUME ConsInv, [ConsNext]_allVars
  PROVE  ConsInv'
<1>1. CASE ConsNext
  <2>1. ConsTypeOK'
    BY <1>1, ConsTypeStep
  <2>2. ConsDispatchInv'
    BY <1>1, <2>1, ConsDispatchStep DEF ConsInv
  <2>3. ~panicked'
    BY <2>2 DEF ConsDispatchInv, CpuInv
  <2>4. QED
    BY <1>1, <2>1, <2>2, <2>3, ConsLockStep, ReaderOwnsStep, ReaderStep, RingStep
       DEF ConsInv
<1>2. CASE UNCHANGED allVars
  <2>1. UNCHANGED <<ctl, proc, cpu, held, saved, irq, status, ready, exitq, pc,
                    schedpc, panicked>>
    BY <1>2 DEF allVars, vars, schedVars
  <2>2. UNCHANGED <<locked, pid, chan, calls>>
    BY <1>2 DEF allVars, vars, lockVars
  <2>3. UNCHANGED <<buf, wpos, typed, overrun, rpos, slot, got, reads, KBDchannel>>
    BY <1>2 DEF allVars, consVars, keyVars, readVars
  <2>4. ConsTypeOK'
    BY <2>1, <2>2, <2>3 DEF ConsInv, ConsTypeOK, SchedTypeOK
  <2>5. CpuInv(ConsLocksAt, ConsWakes)' /\ Idle'
    BY <2>1 DEF ConsInv, ConsDispatchInv, CpuInv, Counted, OnStack, OnScheduler,
                Parked, Idle
  <2>6. (\A e \in Envs : Placed(e, Asleep(e), ConsEnqueues))'
    BY <2>1, <2>2, <2>3 DEF ConsInv, ConsDispatchInv, Placed, Asleep
  <2>7. LockInv'
    BY <2>1, <2>2 DEF ConsInv, LockInv, OwnerIsNamed, NoLostWakeup, GuardExcludes,
                      TestsStayTrue
  <2>8. ReaderOwnsConsole' /\ ReaderInv'
    BY <2>1, <2>2, <2>3 DEF ConsInv, ReaderOwnsConsole, ReaderInv
  <2>9. NextSlot' = NextSlot
    BY <2>3 DEF NextSlot
  <2>10. RingInv'
    BY <2>1, <2>3, <2>9, QuietKeepsRing DEF ConsInv
  <2>11. QED
    BY <2>4, <2>5, <2>6, <2>7, <2>8, <2>10 DEF ConsInv, ConsDispatchInv
<1>3. QED
  BY <1>1, <1>2

\* The invariant of the console holds in every reachable state, for every set
\* of environments, every size of the ring buffer and every bound.
THEOREM ConsoleInvariant == ConsSpec => []ConsInv
<1>1. ConsInit => ConsInv
  BY ConsInitInv
<1>2. ConsInv /\ [ConsNext]_allVars => ConsInv'
  BY ConsInvStep
<1>3. QED
  BY <1>1, <1>2, PTL DEF ConsSpec

\* Types: cons.rpos and cons.wpos never leave the buffer, apart from the step
\* between cons.rpos++ and its wrap-around.
THEOREM ConsoleTypeCorrect == ConsSpec => []ConsTypeOK
<1>1. ConsInv => ConsTypeOK
  BY DEF ConsInv
<1>2. QED
  BY <1>1, ConsoleInvariant, PTL

\* No interrupt, of the clock or of the keyboard, meets a spinlock of the code
\* it interrupts: acquire_spinlock() in wakeup_one() never panics.
THEOREM ConsoleNeverPanics == ConsSpec => []ConsNoPanic
<1>1. ConsInv => ConsNoPanic
  BY DEF ConsInv, ConsDispatchInv, CpuInv, ConsNoPanic
<1>2. QED
  BY <1>1, ConsoleInvariant, PTL

\* The environment inside sys_cgetc() holds the console lock, asleep or not.
THEOREM ConsoleHasOneReader == ConsSpec => []ReaderOwnsConsole
<1>1. ConsInv => ReaderOwnsConsole
  BY DEF ConsInv
<1>2. QED
  BY <1>1, ConsoleInvariant, PTL

\* An environment sleeps in one channel at most, and then it is not ready.
THEOREM ChannelsShareSleepers == ConsSpec => []SleepersAreApart
<1>1. ConsInv => SleepersAreApart
  <2> SUFFICES ASSUME ConsInv, NEW e \in Envs
               PROVE  /\ Count(chan, e) + Count(KBDchannel, e) + Count(ready, e)
                           + (IF proc = e THEN 1 ELSE 0) + Count(exitq, e)
                         = IF pc[e] \in {"s_release", "s_block", "k_release", "k_block"}
                              \/ (proc = e /\ schedpc = "back" /\ status[e] \in {"BLOCKED", "EXIT"})
                             THEN 2 ELSE 1
                      /\ status[e] = "BLOCKED" => Count(chan, e) + Count(KBDchannel, e) = 1
    BY DEF SleepersAreApart
  <2>1. /\ status[e] \in Statuses /\ Placed(e, Asleep(e), ConsEnqueues)
        /\ CpuInv(ConsLocksAt, ConsWakes)
        /\ Enqueued(ConsLocksAt, ConsWakes, ConsEnqueues)
    BY ConsoleCode DEF ConsInv, ConsTypeOK, SchedTypeOK, ConsDispatchInv, HasSleepLock
  <2>2. /\ Count(chan, e) \in Nat /\ Count(KBDchannel, e) \in Nat
        /\ Count(ready, e) \in Nat /\ Count(exitq, e) \in Nat
    BY CountType DEF ConsInv, ConsTypeOK, SchedTypeOK
  <2>3. PICK c \in Nat, k \in Nat, r \in Nat, x \in Nat :
          /\ c = Count(chan, e) /\ k = Count(KBDchannel, e)
          /\ r = Count(ready, e) /\ x = Count(exitq, e)
    BY <2>2
  <2>4. pc[e] \in ConsEnqueues => status[e] = "RUNNING"
    BY <2>1, EnqueuedIsOnCpu
  <2>5. CASE status[e] = "RUNNING"
    <3>1. proc = e /\ r = 0 /\ x = 0 /\ k + c = IF pc[e] \in ConsEnqueues THEN 1 ELSE 0
      BY <2>1, <2>3, <2>5 DEF Placed, Asleep
    <3>2. QED
      BY <2>3, <2>5, <3>1 DEF ConsEnqueues
  <2>6. CASE status[e] = "READY"
    <3>1. r + (IF proc = e THEN 1 ELSE 0) = 1 /\ x = 0 /\ k + c = 0 /\ pc[e] \notin ConsEnqueues
      BY <2>1, <2>3, <2>4, <2>6 DEF Placed, Asleep
    <3>2. QED
      BY <2>3, <2>6, <3>1 DEF ConsEnqueues
  <2>7. CASE status[e] = "BLOCKED"
    <3>1. /\ r = 0 /\ x = 0 /\ k + c = 1 /\ pc[e] \notin ConsEnqueues
          /\ proc = e => schedpc = "back"
      BY <2>1, <2>3, <2>4, <2>7 DEF Placed, Asleep
    <3>2. QED
      BY <2>3, <2>7, <3>1 DEF ConsEnqueues
  <2>8. CASE status[e] = "EXIT"
    <3>1. /\ r = 0 /\ x = 1 /\ k + c = 0 /\ pc[e] \notin ConsEnqueues
          /\ proc = e => schedpc = "back"
      BY <2>1, <2>3, <2>4, <2>8 DEF Placed, Asleep
    <3>2. QED
      BY <2>3, <2>8, <3>1 DEF ConsEnqueues
  <2>9. QED
    BY <2>1, <2>5, <2>6, <2>7, <2>8 DEF Statuses
<1>2. QED
  BY <1>1, ConsoleInvariant, PTL

\* Remainders of numbers below twice the divisor.
LEMMA ModSmall ==
  ASSUME NEW c \in Nat \ {0}, NEW x \in 0 .. 2 * c - 1
  PROVE  x % c = IF x < c THEN x ELSE x - c
OBVIOUS

\* The characters come in the order of typing, none twice and none missing,
\* and Pending counts those still in the ring buffer, for every buffer size,
\* as long as typing is never a whole buffer ahead of reading.
THEOREM ConsoleInputInOrder == ConsSpec => []InputInOrder
<1>1. ConsInv => InputInOrder
  <2> SUFFICES ASSUME ConsInv, ~overrun
               PROVE  (\A i \in DOMAIN got : got[i] = i) /\ Pending = typed - Len(got)
    BY DEF InputInOrder
  <2>1. /\ \A i \in DOMAIN got : got[i] = i
        /\ wpos = SlotAt(NextSlot, typed - Len(got))
        /\ typed - Len(got) \in 0 .. CONSBUFSIZE - 1
    BY DEF ConsInv, RingInv, SlotOf
  <2>2. PICK b \in 0 .. CONSBUFSIZE - 1, n \in 0 .. CONSBUFSIZE - 1 :
          b = NextSlot /\ n = typed - Len(got)
    BY <2>1, NextSlotType DEF ConsInv
  <2>3. rpos % CONSBUFSIZE = b
    <3>1. rpos \in 0 .. 2 * CONSBUFSIZE - 1
      BY ConsoleAssumption DEF ConsInv, ConsTypeOK
    <3>2. rpos % CONSBUFSIZE = IF rpos < CONSBUFSIZE THEN rpos ELSE rpos - CONSBUFSIZE
      BY <3>1, ConsoleAssumption, ModSmall
    <3>3. QED
      BY <2>2, <3>1, <3>2, ConsoleAssumption DEF NextSlot, ConsInv, ConsTypeOK
  <2>4. PICK x \in 0 .. 2 * CONSBUFSIZE - 1 : x = wpos + CONSBUFSIZE - b /\ Pending = x % CONSBUFSIZE
    <3>1. Pending = (wpos + CONSBUFSIZE - b) % CONSBUFSIZE
      BY <2>3 DEF Pending
    <3>2. wpos + CONSBUFSIZE - b \in 0 .. 2 * CONSBUFSIZE - 1
      BY <2>1, <2>2, ConsoleAssumption DEF SlotAt
    <3>3. QED
      BY <3>1, <3>2
  <2>5. x = n \/ x = n + CONSBUFSIZE
    <3>1. wpos = IF b + n < CONSBUFSIZE THEN b + n ELSE b + n - CONSBUFSIZE
      BY <2>1, <2>2 DEF SlotAt
    <3>2. b \in Int /\ n \in Int /\ CONSBUFSIZE \in Int
      BY ConsoleAssumption
    <3>3. CASE b + n < CONSBUFSIZE
      BY <2>4, <3>1, <3>2, <3>3
    <3>4. CASE ~(b + n < CONSBUFSIZE)
      BY <2>4, <3>1, <3>2, <3>4
    <3>5. QED
      BY <3>3, <3>4
  <2>6. x % CONSBUFSIZE = n
    <3>1. x % CONSBUFSIZE = IF x < CONSBUFSIZE THEN x ELSE x - CONSBUFSIZE
      BY ConsoleAssumption, ModSmall
    <3>2. CASE x = n
      BY <3>1, <3>2, ConsoleAssumption
    <3>3. CASE x = n + CONSBUFSIZE
      BY <3>1, <3>3, ConsoleAssumption
    <3>4. QED
      BY <2>5, <3>2, <3>3
  <2>7. QED
    BY <2>1, <2>2, <2>4, <2>6
<1>2. QED
  BY <1>1, ConsoleInvariant, PTL
=============================================================================
