--------------------------- MODULE PthreadProofs ---------------------------
(***************************************************************************)
(* Theorems about the thread library, for any number of threads and any    *)
(* programs.  The locks of Pthread.tla implement Locks.tla as long as the  *)
(* threads give back only what they hold; the mutex needs no such proviso, *)
(* pthread_mutex_unlock checks its owner.  pthread_once and                *)
(* pthread_barrier_wait return to no one early.  A thread's record is      *)
(* reclaimed once, when the thread has left its stack.                     *)
(***************************************************************************)
EXTENDS PthreadLifeProofs, FiniteSetTheorems

(***************************************************************************)
(* The locks.                                                              *)
(***************************************************************************)
Readers == {t \in Thread : "read" \in holds[t]}
Writers == {t \in Thread : "write" \in holds[t]}
Spinners == {t \in Thread : "spin" \in holds[t]}

HoldsOK == holds \in [Thread -> SUBSET {"mutex", "spin", "read", "write"}]

\* The mutex word and its owner say who holds it.
MutexInv ==
  /\ locked \in {0, 1, 2}
  /\ \A t \in Thread : "mutex" \in holds[t] <=> (locked # 0 /\ owner = t)

\* The spin word is set while anybody holds it, and one thread at most does.
SpinInv ==
  /\ spin = 0 => Spinners = {}
  /\ \A t, u \in Spinners : t = u

\* The state of the rwlock counts its readers, or names a writer alone.
RwInv ==
  /\ rw \in Int
  /\ rw >= -1
  /\ rw = -1 => Readers = {} /\ \A t, u \in Writers : t = u
  /\ rw >= 0 => Writers = {} /\ Cardinality(Readers) = rw

LockInv == HoldsOK /\ MutexInv /\ SpinInv /\ RwInv

\* How callers use what is not checked for them: a spin lock and an rwlock
\* are unlocked by a holder, and nobody read-locks what they read already.
WellUsed ==
  \A t \in Thread :
    /\ Running(t, {"spinunlock"}) => "spin" \in holds[t]
    /\ Running(t, {"rwunlock"}) => rw = 0 \/ holds[t] \cap {"read", "write"} # {}
    /\ Running(t, {"rdlock", "tryrdlock"}) \/ pc[t] = "rd_try" => "read" \notin holds[t]

lockVars == <<locked, owner, spin, rw, holds>>

\* The initial state satisfies the invariant and is initial in Locks.
LEMMA InitLocks == ASSUME IsFiniteSet(Thread), Init PROVE LockInv /\ Lock!Init
<1>1. Readers = {} /\ Writers = {} /\ Spinners = {}
  BY Zenon DEF Init, Readers, Writers, Spinners
<1>2. Cardinality(Readers) = 0
  BY <1>1, FS_EmptySet, Zenon
<1>. QED
  BY <1>1, <1>2, PthreadConstants, SMTT(60)
     DEF Init, LockInv, HoldsOK, MutexInv, SpinInv, RwInv, Lock!Init

\* The sets of holders depend on holds alone.
LEMMA QuietLocks == ASSUME LockInv, UNCHANGED lockVars PROVE LockInv' /\ UNCHANGED holds
BY Zenon DEF LockInv, HoldsOK, MutexInv, SpinInv, RwInv, Readers, Writers, Spinners, lockVars

\* A change of the mutex word and of who holds the mutex leaves the others be.
LEMMA MutexFrame ==
  ASSUME LockInv, NEW t \in Thread, NEW S \in SUBSET {"mutex", "spin", "read", "write"},
         holds' = [holds EXCEPT ![t] = S],
         "spin" \in S <=> "spin" \in holds[t],
         "read" \in S <=> "read" \in holds[t],
         "write" \in S <=> "write" \in holds[t],
         UNCHANGED <<spin, rw>>
  PROVE  HoldsOK' /\ SpinInv' /\ RwInv'
<1>1. HoldsOK'
  BY Zenon DEF LockInv, HoldsOK
<1>2. Readers' = Readers /\ Writers' = Writers /\ Spinners' = Spinners
  BY Zenon DEF LockInv, HoldsOK, Readers, Writers, Spinners
<1>. QED
  BY <1>1, <1>2, Zenon DEF LockInv, SpinInv, RwInv

\* Taking the mutex word from 0 is an Acquire.
LEMMA OwnLocks ==
  ASSUME LockInv, NEW t \in Thread, NEW v \in {1, 2}, locked = 0, Own(t, v),
         UNCHANGED <<spin, rw>>
  PROVE  LockInv' /\ Lock!Acquire(t, "mutex")
<1>1. holds[t] \in SUBSET {"mutex", "spin", "read", "write"}
  BY Zenon DEF LockInv, HoldsOK
<1>2. HoldsOK' /\ SpinInv' /\ RwInv'
  BY <1>1, MutexFrame, Zenon DEF Own
<1>3. \A u \in Thread : "mutex" \notin holds[u]
  BY Zenon DEF LockInv, MutexInv
<1>4. MutexInv'
  BY <1>3, SMTT(60) DEF LockInv, HoldsOK, MutexInv, Own
<1>5. Lock!Acquire(t, "mutex")
  BY <1>3, Zenon DEF Lock!Acquire, Lock!Conflict, Own, LockInv, HoldsOK
<1>. QED
  BY <1>2, <1>4, <1>5, Zenon DEF LockInv

\* pthread_mutex_trylock acquires or changes no lock.
LEMMA TryLockLocks ==
  ASSUME LockInv, NEW t \in Thread, TryLock(t)
  PROVE  LockInv' /\ (Lock!Next \/ UNCHANGED holds)
<1>1. CASE UNCHANGED <<locked, owner, holds>>
  BY <1>1, QuietLocks, Zenon DEF TryLock, lockVars
<1>2. CASE locked = 0 /\ Own(t, 1)
  BY <1>2, OwnLocks, Zenon DEF TryLock, Lock!Next, Lock!Mode
<1>. QED
  BY <1>1, <1>2, Zenon DEF TryLock

\* The loop of mutex_lock_deadline acquires, or marks a held word contended.
LEMMA LockLoopLocks ==
  ASSUME LockInv, NEW t \in Thread, LockLoop(t)
  PROVE  LockInv' /\ (Lock!Next \/ UNCHANGED holds)
<1>1. CASE locked = 0
  BY <1>1, OwnLocks, Zenon DEF LockLoop, Lock!Next, Lock!Mode
<1>2. CASE locked # 0
  BY <1>2, SMTT(60) DEF LockLoop, LockInv, HoldsOK, MutexInv, SpinInv, RwInv, Readers, Writers, Spinners
<1>. QED
  BY <1>1, <1>2, Zenon

\* The mark a broadcast leaves on a held mutex changes no holder.
LEMMA BroadcastMarkLocks ==
  ASSUME LockInv, NEW t \in Thread, BroadcastMark(t)
  PROVE  LockInv' /\ UNCHANGED holds
<1>1. CASE locked = 0
  BY <1>1, QuietLocks, Zenon DEF BroadcastMark, lockVars
<1>2. CASE locked # 0
  BY <1>2, SMTT(60) DEF BroadcastMark, LockInv, HoldsOK, MutexInv, SpinInv, RwInv, Readers, Writers,
              Spinners
<1>. QED
  BY <1>1, <1>2, Zenon

\* An unlock by the owner is a Release, or leaves a recursion level.
LEMMA UnlockLocks ==
  ASSUME LockInv, NEW t \in Thread, NEW next, UnlockBody(t, next), UNCHANGED <<spin, rw>>
  PROVE  LockInv' /\ (Lock!Next \/ UNCHANGED holds)
<1>1. CASE UNCHANGED <<locked, owner, holds>>
  BY <1>1, QuietLocks, Zenon DEF lockVars
<1>2. CASE /\ locked' = 0 /\ owner' = None
           /\ holds' = [holds EXCEPT ![t] = @ \ {"mutex"}]
  <2>1. holds[t] \in SUBSET {"mutex", "spin", "read", "write"}
    BY Zenon DEF LockInv, HoldsOK
  <2>2. HoldsOK' /\ SpinInv' /\ RwInv'
    BY <1>2, <2>1, MutexFrame, Zenon
  <2>3. \A u \in Thread : u # t => "mutex" \notin holds[u]
    BY Zenon DEF LockInv, MutexInv, UnlockBody, Held
  <2>4. MutexInv'
    BY <1>2, <2>3, Zenon DEF LockInv, HoldsOK, MutexInv
  <2>5. Lock!Release(t, "mutex")
    BY <1>2, Zenon DEF Lock!Release, LockInv, MutexInv, UnlockBody, Held
  <2>. QED
    BY <2>2, <2>4, <2>5, Zenon DEF LockInv, Lock!Next, Lock!Mode
<1>. QED
  BY <1>1, <1>2, Zenon DEF UnlockBody

\* Adding a reader adds one to their number, removing one takes one away.
LEMMA ReaderCount ==
  ASSUME IsFiniteSet(Thread), HoldsOK, NEW t \in Thread
  PROVE  /\ IsFiniteSet(Readers)
         /\ t \notin Readers => Cardinality(Readers \cup {t}) = Cardinality(Readers) + 1
         /\ t \in Readers => Cardinality(Readers \ {t}) = Cardinality(Readers) - 1
         /\ Cardinality(Readers) \in Nat
         /\ Cardinality(Readers) = 0 => Readers = {}
<1>1. IsFiniteSet(Readers)
  BY FS_Subset, Zenon DEF Readers
<1>. QED
  BY <1>1, FS_AddElement, FS_RemoveElement, FS_CardinalityType, FS_EmptySet, Zenon

\* pthread_rwlock_tryrdlock acquires in read mode or changes nothing.
LEMMA RdTryLocks ==
  ASSUME IsFiniteSet(Thread), LockInv, WellUsed, NEW t \in Thread, RdTry(t)
  PROVE  LockInv' /\ (Lock!Next \/ UNCHANGED holds)
<1>1. CASE ~ReaderMay
  BY <1>1, QuietLocks, Zenon DEF RdTry, mutexVars, lockVars
<1>2. CASE ReaderMay
  <2>1. /\ rw >= 0 /\ rw' = rw + 1 /\ holds' = [holds EXCEPT ![t] = @ \cup {"read"}]
        /\ UNCHANGED <<locked, owner, spin>> /\ "read" \notin holds[t] /\ Writers = {}
        /\ rw \in Int
    BY <1>2, Zenon DEF RdTry, ReaderMay, mutexVars, WellUsed, LockInv, RwInv
  <2>2. HoldsOK' /\ MutexInv'
    BY <2>1, Zenon DEF LockInv, HoldsOK, MutexInv
  <2>3. Readers' = Readers \cup {t} /\ Writers' = {} /\ Spinners' = Spinners /\ t \notin Readers
    BY <2>1, Zenon DEF LockInv, HoldsOK, Readers, Writers, Spinners
  <2>4. Cardinality(Readers') = rw'
    BY <2>1, <2>3, ReaderCount, Zenon DEF LockInv, RwInv
  <2>5. SpinInv' /\ RwInv'
    BY <2>1, <2>3, <2>4, SMTT(60) DEF LockInv, SpinInv, RwInv
  <2>6. Lock!Acquire(t, "read")
    BY <2>1, Zenon DEF Lock!Acquire, Lock!Conflict, LockInv, HoldsOK, Writers
  <2>. QED
    BY <2>2, <2>5, <2>6, Zenon DEF LockInv, Lock!Next, Lock!Mode
<1>. QED
  BY <1>1, <1>2, Zenon

\* pthread_rwlock_trywrlock acquires in write mode or changes nothing.
LEMMA WrTryLocks ==
  ASSUME IsFiniteSet(Thread), LockInv, NEW t \in Thread, WrTry(t)
  PROVE  LockInv' /\ (Lock!Next \/ UNCHANGED holds)
<1>1. CASE ~WriterMay
  BY <1>1, QuietLocks, Zenon DEF WrTry, mutexVars, lockVars
<1>2. CASE WriterMay
  <2>1. /\ rw = 0 /\ rw' = -1 /\ holds' = [holds EXCEPT ![t] = @ \cup {"write"}]
        /\ UNCHANGED <<locked, owner, spin>> /\ Writers = {}
    BY <1>2, SMTT(60) DEF WrTry, WriterMay, mutexVars, LockInv, RwInv
  <2>2. Readers = {}
    <3>1. Cardinality(Readers) = 0
      BY <2>1, SMTT(60) DEF LockInv, RwInv
    <3>. QED
      BY <3>1, ReaderCount, Zenon DEF LockInv
  <2>3. HoldsOK' /\ MutexInv'
    BY <2>1, Zenon DEF LockInv, HoldsOK, MutexInv
  <2>4. Readers' = {} /\ Writers' = {t} /\ Spinners' = Spinners
    BY <2>1, <2>2, Zenon DEF LockInv, HoldsOK, Readers, Writers, Spinners
  <2>5. SpinInv' /\ RwInv'
    BY <2>1, <2>4, SMTT(60) DEF LockInv, SpinInv, RwInv
  <2>6. Lock!Acquire(t, "write")
    BY <2>1, <2>2, Zenon DEF Lock!Acquire, Lock!Conflict, LockInv, HoldsOK, Writers, Readers
  <2>. QED
    BY <2>3, <2>5, <2>6, Zenon DEF LockInv, Lock!Next, Lock!Mode
<1>. QED
  BY <1>1, <1>2, Zenon

\* pthread_rwlock_unlock by a holder releases the mode it holds.
LEMMA RwUnlockLocks ==
  ASSUME IsFiniteSet(Thread), LockInv, WellUsed, NEW t \in Thread, RwUnlock(t)
  PROVE  LockInv' /\ (Lock!Next \/ UNCHANGED holds)
<1>1. CASE rw = 0
  BY <1>1, QuietLocks, Zenon DEF RwUnlock, mutexVars, lockVars
<1>2. CASE rw # 0
  <2>1. /\ rw' = (IF rw = -1 THEN 0 ELSE rw - 1) /\ rw \in Int /\ rw >= -1
        /\ holds' = [holds EXCEPT ![t] = @ \ {"read", "write"}]
        /\ UNCHANGED <<locked, owner, spin>>
        /\ t \in Readers \cup Writers
    BY <1>2, Zenon DEF RwUnlock, mutexVars, WellUsed, LockInv, RwInv, Readers, Writers
  <2>2. HoldsOK' /\ MutexInv'
    BY <2>1, Zenon DEF LockInv, HoldsOK, MutexInv
  <2>3. Readers' = Readers \ {t} /\ Writers' = Writers \ {t} /\ Spinners' = Spinners
    BY <2>1, Zenon DEF LockInv, HoldsOK, Readers, Writers, Spinners
  <2>4. CASE rw = -1
    <3>1. Readers' = {} /\ Writers' = {} /\ Readers = {} /\ t \in Writers
      BY <2>1, <2>3, <2>4, Zenon DEF LockInv, RwInv
    <3>2. Cardinality(Readers') = 0
      BY <3>1, FS_EmptySet, Zenon
    <3>3. SpinInv' /\ RwInv'
      BY <2>1, <2>3, <2>4, <3>1, <3>2, SMTT(60) DEF LockInv, SpinInv, RwInv
    <3>4. Lock!Release(t, "write")
      BY <2>1, <3>1, Zenon DEF Lock!Release, LockInv, HoldsOK, Readers, Writers
    <3>. QED
      BY <2>2, <3>3, <3>4, Zenon DEF LockInv, Lock!Next, Lock!Mode
  <2>5. CASE rw # -1
    <3>1. rw > 0 /\ Writers = {} /\ t \in Readers /\ Cardinality(Readers) = rw
      BY <1>2, <2>1, <2>5, SMTT(60) DEF LockInv, RwInv
    <3>2. Cardinality(Readers') = rw'
      BY <2>1, <2>3, <2>5, <3>1, ReaderCount, Zenon DEF LockInv
    <3>3. SpinInv' /\ RwInv'
      BY <2>1, <2>3, <2>5, <3>1, <3>2, SMTT(60) DEF LockInv, SpinInv, RwInv
    <3>4. Lock!Release(t, "read")
      BY <2>1, <3>1, Zenon DEF Lock!Release, LockInv, HoldsOK, Readers, Writers
    <3>. QED
      BY <2>2, <3>3, <3>4, Zenon DEF LockInv, Lock!Next, Lock!Mode
  <2>. QED
    BY <2>4, <2>5, Zenon
<1>. QED
  BY <1>1, <1>2, Zenon

\* pthread_spin_lock acquires, pthread_spin_unlock by the holder releases.
LEMMA SpinLocks ==
  ASSUME LockInv, WellUsed, NEW t \in Thread, SpinStep(t)
  PROVE  LockInv' /\ (Lock!Next \/ UNCHANGED holds)
<1>1. CASE SpinLock(t)
  <2>1. /\ spin = 0 /\ spin' = 1 /\ holds' = [holds EXCEPT ![t] = @ \cup {"spin"}]
        /\ UNCHANGED <<locked, owner, rw>> /\ Spinners = {}
    BY <1>1, Zenon DEF SpinLock, mutexVars, LockInv, SpinInv
  <2>2. HoldsOK' /\ MutexInv'
    BY <2>1, Zenon DEF LockInv, HoldsOK, MutexInv
  <2>3. Readers' = Readers /\ Writers' = Writers /\ Spinners' = {t}
    BY <2>1, Zenon DEF LockInv, HoldsOK, Readers, Writers, Spinners
  <2>4. SpinInv' /\ RwInv'
    BY <2>1, <2>3, SMTT(60) DEF LockInv, SpinInv, RwInv
  <2>5. Lock!Acquire(t, "spin")
    BY <2>1, Zenon DEF Lock!Acquire, Lock!Conflict, LockInv, HoldsOK, Spinners
  <2>. QED
    BY <2>2, <2>4, <2>5, Zenon DEF LockInv, Lock!Next, Lock!Mode
<1>2. CASE SpinUnlock(t)
  <2>1. /\ spin' = 0 /\ holds' = [holds EXCEPT ![t] = @ \ {"spin"}]
        /\ UNCHANGED <<locked, owner, rw>> /\ t \in Spinners
    BY <1>2, Zenon DEF SpinUnlock, mutexVars, WellUsed, Spinners
  <2>2. HoldsOK' /\ MutexInv'
    BY <2>1, Zenon DEF LockInv, HoldsOK, MutexInv
  <2>3. Readers' = Readers /\ Writers' = Writers /\ Spinners' = Spinners \ {t}
    BY <2>1, Zenon DEF LockInv, HoldsOK, Readers, Writers, Spinners
  <2>4. SpinInv' /\ RwInv'
    BY <2>1, <2>3, Zenon DEF LockInv, SpinInv, RwInv
  <2>5. Lock!Release(t, "spin")
    BY <2>1, Zenon DEF Lock!Release, LockInv, HoldsOK, Spinners
  <2>. QED
    BY <2>2, <2>4, <2>5, Zenon DEF LockInv, Lock!Next, Lock!Mode
<1>. QED
  BY <1>1, <1>2, Zenon DEF SpinStep

\* Every other step of the library and of the kernel leaves the lock words,
\* the owner and the holders as they are.
LEMMA OtherSteps ==
  ASSUME NEW t \in Thread,
         \/ LockPark(t) \/ UnlockWake(t)
         \/ SetReady(t) \/ WaitBegin(t) \/ WaitRecord(t) \/ WaitTest(t) \/ WaitPark(t)
         \/ Signal(t) \/ SignalWake(t) \/ BroadcastLoad(t) \/ BroadcastWake(t)
         \/ BroadcastAll(t) \/ BroadcastRequeue(t)
         \/ OnceStep(t) \/ RwLoad(t) \/ RwPark(t) \/ RwWake(t)
         \/ BarrierStep(t) \/ Woken(t) \/ TimedOut(t)
  PROVE  UNCHANGED lockVars
<1>. USE DEF lockVars, mutexVars
<1>1. CASE LockPark(t) \/ UnlockWake(t) \/ SetReady(t) \/ WaitBegin(t) \/ WaitRecord(t)
  BY <1>1, Zenon DEF LockPark, UnlockWake, SetReady, WaitBegin, WaitRecord
<1>2. CASE WaitTest(t) \/ WaitPark(t) \/ Signal(t) \/ SignalWake(t) \/ BroadcastLoad(t)
  BY <1>2, Zenon DEF WaitTest, WaitPark, Signal, SignalWake, BroadcastLoad
<1>3. CASE BroadcastWake(t) \/ BroadcastAll(t) \/ BroadcastRequeue(t) \/ Woken(t) \/ TimedOut(t)
  BY <1>3, Zenon DEF BroadcastWake, BroadcastAll, BroadcastRequeue, Woken, TimedOut
<1>4. CASE OnceStep(t)
  BY <1>4, Zenon DEF OnceStep, OnceBegin, OnceInit, OnceStore, OnceWake, OnceTest, OnceLoad, OncePark
<1>5. CASE RwLoad(t) \/ RwPark(t) \/ RwWake(t)
  BY <1>5, Zenon DEF RwLoad, RwPark, RwWake
<1>6. CASE BarrierStep(t)
  BY <1>6, Zenon DEF BarrierStep, BarrierBegin, BarrierArrive, BarrierReset, BarrierBump, BarrierWake,
              BarrierTest, BarrierPark
<1>. QED
  BY <1>1, <1>2, <1>3, <1>4, <1>5, <1>6, Zenon

\* Every step preserves the invariant and is a step or a stutter of Locks.
LEMMA StepLocks ==
  ASSUME IsFiniteSet(Thread), LockInv, WellUsed, [Next]_vars
  PROVE  LockInv' /\ (Lock!Next \/ UNCHANGED holds)
<1>1. CASE UNCHANGED vars
  BY <1>1, QuietLocks, Zenon DEF vars, lockVars
<1>2. ASSUME NEW t \in Thread, Step(t) \/ TimedOut(t)
      PROVE  LockInv' /\ (Lock!Next \/ UNCHANGED holds)
  <2>1. CASE TryLock(t)
    BY <2>1, TryLockLocks, Zenon
  <2>2. CASE LockLoop(t)
    BY <2>2, LockLoopLocks, Zenon
  <2>3. CASE Unlock(t) \/ WaitUnlock(t)
    <3>1. UNCHANGED <<spin, rw>> /\ (UNCHANGED lockVars \/ \E next : UnlockBody(t, next))
      BY <2>3, Zenon DEF Unlock, WaitUnlock, lockVars, mutexVars
    <3>. QED
      BY <3>1, UnlockLocks, QuietLocks, Zenon
  <2>4. CASE BroadcastMark(t)
    BY <2>4, BroadcastMarkLocks, Zenon
  <2>5. CASE RdTry(t)
    BY <2>5, RdTryLocks, Zenon
  <2>6. CASE WrTry(t)
    BY <2>6, WrTryLocks, Zenon
  <2>7. CASE RwUnlock(t)
    BY <2>7, RwUnlockLocks, Zenon
  <2>8. CASE SpinStep(t)
    BY <2>8, SpinLocks, Zenon
  <2>9. CASE UNCHANGED lockVars
    BY <2>9, QuietLocks, Zenon
  <2>10. CASE MutexStep(t)
    <3>1. CASE LockPark(t) \/ UnlockWake(t)
      BY <2>9, <3>1, OtherSteps, Zenon
    <3>. QED
      BY <2>1, <2>2, <2>3, <2>10, <3>1, Zenon DEF MutexStep
  <2>11. CASE CondStep(t)
    <3>1. CASE \/ SetReady(t) \/ WaitBegin(t) \/ WaitRecord(t) \/ WaitTest(t) \/ WaitPark(t)
               \/ Signal(t) \/ SignalWake(t) \/ BroadcastLoad(t) \/ BroadcastWake(t)
               \/ BroadcastAll(t) \/ BroadcastRequeue(t) \/ Woken(t) \/ TimedOut(t)
      BY <2>9, <3>1, OtherSteps, Zenon
    <3>. QED
      BY <2>3, <2>4, <2>11, <3>1, Zenon DEF CondStep
  <2>12. CASE RwStep(t)
    <3>1. CASE RwLoad(t) \/ RwPark(t) \/ RwWake(t)
      BY <2>9, <3>1, OtherSteps, Zenon
    <3>. QED
      BY <2>5, <2>6, <2>7, <2>12, <3>1, Zenon DEF RwStep
  <2>13. CASE OnceStep(t) \/ BarrierStep(t) \/ Woken(t) \/ TimedOut(t)
    BY <2>9, <2>13, OtherSteps, Zenon
  <2>. QED
    BY <1>2, <2>8, <2>10, <2>11, <2>12, <2>13, Zenon DEF Step
<1>. QED
  BY <1>1, <1>2, Zenon DEF Next

\* For any finite set of threads and any programs that unlock rwlocks and
\* spin locks only as holders, pthread.c's locks implement Locks.tla:
\* nobody comes to hold a lock while another holds it in a conflicting mode.
THEOREM LocksRefined ==
  ASSUME IsFiniteSet(Thread)
  PROVE  Spec /\ []WellUsed => ImplementsLocks
<1>1. Init => LockInv /\ Lock!Init
  BY InitLocks, Zenon
<1>2. LockInv /\ WellUsed /\ [Next]_vars => LockInv' /\ [Lock!Next]_holds
  BY StepLocks, Zenon
<1>. QED
  BY <1>1, <1>2, PTL DEF Spec, ImplementsLocks, Lock!Spec

\* What Locks.tla promises is mutual exclusion: no two threads ever hold
\* conflicting modes of one lock, readers of pthread_rwlock_t alone sharing.
THEOREM LocksExclude ==
  ASSUME IsFiniteSet(Thread)
  PROVE  Spec /\ []WellUsed => []Lock!Exclusion
<1>. DEFINE Excl == HoldsOK /\ Lock!Exclusion
<1>1. Lock!Init => Excl
  BY Zenon DEF Lock!Init, Lock!Exclusion, HoldsOK
<1>2. ASSUME Excl, [Lock!Next]_holds PROVE Excl'
  <2>1. CASE UNCHANGED holds
    BY <1>2, <2>1, Zenon DEF Lock!Exclusion, HoldsOK
  <2>2. ASSUME NEW t \in Thread, NEW m \in Lock!Mode, Lock!Acquire(t, m) PROVE Excl'
    <3>1. HoldsOK'
      BY <1>2, <2>2, Zenon DEF HoldsOK, Lock!Acquire, Lock!Mode
    <3>2. \A a, b : Lock!Conflict(a, b) <=> Lock!Conflict(b, a)
      BY Zenon DEF Lock!Conflict
    <3>3. Lock!Exclusion'
      BY <1>2, <2>2, <3>2, SMTT(60) DEF HoldsOK, Lock!Acquire, Lock!Exclusion
    <3>. QED
      BY <3>1, <3>3, Zenon
  <2>3. ASSUME NEW t \in Thread, NEW m \in Lock!Mode, Lock!Release(t, m) PROVE Excl'
    BY <1>2, <2>3, Zenon DEF HoldsOK, Lock!Release, Lock!Exclusion
  <2>. QED
    BY <1>2, <2>1, <2>2, <2>3, Zenon DEF Lock!Next
<1>3. Excl => Lock!Exclusion
  BY Zenon
<1>. QED
  BY <1>1, <1>2, <1>3, LocksRefined, PTL DEF ImplementsLocks, Lock!Spec

\* A thread that returns from its call has made one more.
LEMMA BeforeNext ==
  ASSUME Ctl, UNCHANGED prog, NEW t \in Thread, ip[t] \in DOMAIN prog.code[t],
         ip'[t] = ip[t] + 1, NEW call, call = prog.code[t][ip[t]]
  PROVE  /\ Before(t, call)' = Before(t, call) \cup {ip[t]}
         /\ Cardinality(Before(t, call)) \in Nat
         /\ Cardinality(Before(t, call)') = Cardinality(Before(t, call)) + 1
<1>0. prog.code[t] \in Seq(Call \cup LifeCall)
  BY ProgramsAssumption, ZenonT(60) DEF Ctl
<1>1. DOMAIN prog.code[t] \subseteq Nat /\ ip[t] \in Nat
  BY <1>0, SMTT(60) DEF Ctl
<1>2. Before(t, call)' = Before(t, call) \cup {ip[t]} /\ ip[t] \notin Before(t, call)
  <2>1. \A i \in DOMAIN prog.code[t] : i < ip[t] + 1 <=> i < ip[t] \/ i = ip[t]
    BY <1>1
  <2>2. ~ ip[t] < ip[t]
    BY <1>1, SMTT(60)
  <2> QED
    BY <2>1, <2>2, Zenon DEF Before
<1>3. IsFiniteSet(Before(t, call))
  <2>1. DOMAIN prog.code[t] = 1 .. Len(prog.code[t]) /\ Len(prog.code[t]) \in Nat
    BY <1>0, SMTT(60)
  <2>2. IsFiniteSet(DOMAIN prog.code[t])
    BY <2>1, FS_Interval, SMTT(60)
  <2>3. Before(t, call) \subseteq DOMAIN prog.code[t]
    BY Zenon DEF Before
  <2> QED
    BY <2>2, <2>3, FS_Subset, Zenon
<1> QED
  BY <1>2, <1>3, FS_AddElement, FS_CardinalityType, ZenonT(60)

(***************************************************************************)
(* pthread_barrier_wait.                                                   *)
(***************************************************************************)
Users == {t \in Thread : Uses(t, "barrier")}

\* Who has arrived in the round the generation numbers.
Arrived == {t \in Users : entered[t] = generation + 1}
Waiting == {"barrier_test", "barrier_wait", "barrier_parked"}
Closing == {"barrier_reset", "barrier_bump"}

\* A thread has entered as many rounds as the barrier has completed, or one more
\* and is still inside; the last to arrive closes the round alone.
BarrierAt(t) ==
  /\ \/ entered[t] = generation
     \/ entered[t] = generation + 1 /\ pc[t] \in Waiting \cup Closing
  /\ pc[t] = "barrier_arrive" => reg[t] = generation
  /\ pc[t] \in Waiting => reg[t] = entered[t] - 1
  /\ pc[t] \in Closing => Arrived = Users
  /\ Cardinality(Before(t, "barrier")) =
       IF pc[t] \in Waiting \cup Closing \cup {"barrier_wake"} THEN entered[t] - 1 ELSE entered[t]

BarrierInv ==
  /\ generation \in Nat /\ entered \in [Thread -> Nat]
  /\ \A t \in Users : BarrierAt(t)
  /\ \A t, u \in Users : pc[t] \in Closing /\ pc[u] \in Closing => t = u
  /\ \A t \in Users : pc[t] = "barrier_bump" => count = 0
  /\ (\A t \in Users : pc[t] # "barrier_bump") => count = Cardinality(Arrived)

\* A set of users is finite, and is all of them when it has trip_count members.
LEMMA UsersCount ==
  ASSUME Ctl, NEW S \in SUBSET Users
  PROVE  /\ IsFiniteSet(S) /\ Cardinality(S) \in 0 .. prog.trip
         /\ S # {} /\ Cardinality(S) = prog.trip => S = Users
         /\ Users # {} => Cardinality(Users) = prog.trip
<1>1. prog.trip \in Nat /\ (Users # {} => IsFiniteSet(Users) /\ Cardinality(Users) = prog.trip)
  BY ProgramsAssumption, Zenon DEF Ctl, Users, Uses
<1>2. CASE Users = {}
  <2>1. S = {}
    BY <1>2, Zenon
  <2>2. IsFiniteSet(S) /\ Cardinality(S) = 0
    BY <2>1, FS_EmptySet, Zenon
  <2>3. 0 \in 0 .. prog.trip
    BY <1>1
  <2> QED
    BY <1>2, <2>1, <2>2, <2>3, Zenon
<1>3. CASE Users # {}
  <2>1. IsFiniteSet(S) /\ Cardinality(S) <= Cardinality(Users)
        /\ (Cardinality(S) = Cardinality(Users) => S = Users)
    BY <1>1, <1>3, FS_Subset, Zenon
  <2>2. Cardinality(S) \in Nat
    BY <2>1, FS_CardinalityType, Zenon
  <2>3. Cardinality(S) \in 0 .. prog.trip
    <3>1. Cardinality(S) <= prog.trip
      BY <1>1, <1>3, <2>1, Zenon
    <3> QED
      BY <1>1, <2>2, <3>1
  <2> QED
    BY <1>1, <1>3, <2>1, <2>3, Zenon
<1> QED
  BY <1>2, <1>3, Zenon

\* Steps elsewhere leave the barrier alone.
LEMMA BarrierAside ==
  ASSUME Ctl, BarrierInv, UNCHANGED <<prog, barrierVars>>,
         \A u \in Thread : Aside(u, BarrierPcs, "barrier")
  PROVE  BarrierInv'
<1>1. UNCHANGED <<count, generation, entered>> /\ Users' = Users /\ Arrived' = Arrived
  BY Zenon DEF barrierVars, Users, Uses, Arrived
<1>2. \A u \in Thread : Before(u, "barrier")' = Before(u, "barrier")
  BY BeforeSame, Zenon DEF Aside
<1>3. ASSUME NEW u \in Thread, NEW l \in BarrierPcs
      PROVE  /\ pc'[u] = l <=> pc[u] = l
             /\ pc[u] = l => reg'[u] = reg[u]
  BY Zenon DEF Aside
<1>4. /\ Waiting \subseteq BarrierPcs /\ Closing \subseteq BarrierPcs
      /\ {"barrier_wake", "barrier_bump", "barrier_arrive"} \subseteq BarrierPcs
  BY Zenon DEF Waiting, Closing, BarrierPcs
<1>5. ASSUME NEW u \in Thread
      PROVE  /\ pc'[u] \in Waiting <=> pc[u] \in Waiting
             /\ pc'[u] \in Closing <=> pc[u] \in Closing
             /\ pc'[u] = "barrier_wake" <=> pc[u] = "barrier_wake"
             /\ pc'[u] = "barrier_bump" <=> pc[u] = "barrier_bump"
             /\ pc'[u] = "barrier_arrive" <=> pc[u] = "barrier_arrive"
             /\ pc[u] \in Waiting \cup {"barrier_arrive"} => reg'[u] = reg[u]
  BY <1>3, <1>4, Zenon
<1>6. ASSUME NEW u \in Users PROVE BarrierAt(u)'
  <2>1. BarrierAt(u) /\ u \in Thread
    BY Zenon DEF BarrierInv, Users
  <2> QED
    BY <1>1, <1>2, <1>5, <2>1, Zenon DEF BarrierAt
<1> QED
  BY <1>1, <1>5, <1>6, Zenon DEF BarrierInv, Users

\* What the steps of the barrier have in common.
LEMMA BarrierFrame ==
  ASSUME Ctl, NEW t \in Thread, BarrierStep(t) \/ (Woken(t) /\ pc[t] \in BarrierPcs)
  PROVE  /\ t \in Users /\ Users' = Users /\ UNCHANGED prog
         /\ \A u \in Users : u \in Thread
         /\ \A u \in Thread \ {t} : /\ pc'[u] = pc[u]
                                   /\ Before(u, "barrier")' = Before(u, "barrier")
         /\ UNCHANGED ip => Before(t, "barrier")' = Before(t, "barrier")
         /\ ip' = [ip EXCEPT ![t] = @ + 1] =>
              /\ Cardinality(Before(t, "barrier")) \in Nat
              /\ Cardinality(Before(t, "barrier")') = Cardinality(Before(t, "barrier")) + 1
<1>1. /\ Goes(t, BarrierPcs) /\ UNCHANGED prog
      /\ ip[t] \in DOMAIN prog.code[t] /\ prog.code[t][ip[t]] = "barrier"
  BY BarrierGoes, Zenon DEF Ctl, At, CallPcs, Running
<1>2. t \in Users /\ Users' = Users /\ \A u \in Users : u \in Thread
  BY <1>1, Zenon DEF Users, Uses
<1>3. \A u \in Thread \ {t} : pc'[u] = pc[u] /\ ip'[u] = ip[u]
  BY <1>1, Zenon DEF Goes, Goto, Return, Ctl
<1>4. \A u \in Thread \ {t} : Before(u, "barrier")' = Before(u, "barrier")
  BY <1>1, <1>3, BeforeSame, Zenon
<1>5. UNCHANGED ip => Before(t, "barrier")' = Before(t, "barrier")
  BY <1>1, BeforeSame, Zenon
<1>6. ASSUME ip' = [ip EXCEPT ![t] = @ + 1]
      PROVE  /\ Cardinality(Before(t, "barrier")) \in Nat
             /\ Cardinality(Before(t, "barrier")') = Cardinality(Before(t, "barrier")) + 1
  <2>1. ip'[t] = ip[t] + 1
    BY <1>6, Zenon DEF Ctl
  <2> QED
    BY <1>1, <2>1, BeforeNext, Zenon
<1> QED
  BY <1>1, <1>2, <1>3, <1>4, <1>5, <1>6, Zenon

\* The steps that only look at the barrier: the arrival's load of generation, the
\* wait for it to move, and the wake by the thread that moved it.
LEMMA BarrierLooks ==
  ASSUME Ctl, Words, BarrierInv, NEW t \in Thread,
         \/ BarrierBegin(t) \/ BarrierWake(t) \/ BarrierTest(t) \/ BarrierPark(t)
         \/ Woken(t) /\ pc[t] \in BarrierPcs
  PROVE  BarrierInv'
<1>1. /\ t \in Users /\ Users' = Users
      /\ \A u \in Users : u \in Thread
      /\ \A u \in Thread \ {t} : /\ pc'[u] = pc[u]
                                /\ Before(u, "barrier")' = Before(u, "barrier")
      /\ UNCHANGED ip => Before(t, "barrier")' = Before(t, "barrier")
      /\ ip' = [ip EXCEPT ![t] = @ + 1] =>
           /\ Cardinality(Before(t, "barrier")) \in Nat
           /\ Cardinality(Before(t, "barrier")') = Cardinality(Before(t, "barrier")) + 1
  BY BarrierFrame, Zenon DEF BarrierStep
<1>2. UNCHANGED <<count, generation, entered>> /\ Arrived' = Arrived
  BY <1>1, Zenon DEF BarrierBegin, BarrierWake, BarrierTest, BarrierPark, Woken, barrierVars, Arrived
<1>3. \A u \in Thread \ {t} : reg'[u] = reg[u]
  BY Zenon DEF BarrierBegin, BarrierWake, BarrierTest, BarrierPark, Woken, Words
<1>4. BarrierAt(t) /\ generation \in Nat /\ entered[t] \in Nat
  BY <1>1, Zenon DEF BarrierInv
<1>5. pc \in [Thread -> Labels] /\ reg \in [Thread -> Int]
  BY Zenon DEF Ctl, Words
<1>6. BarrierAt(t)' /\ pc[t] \notin Closing /\ pc'[t] \notin Closing
  <2> USE DEF Waiting, Closing
  <2>1. CASE BarrierBegin(t)
    BY <1>1, <1>2, <1>4, <1>5, <2>1, Zenon DEF BarrierBegin, BarrierAt, Goto, Running
  <2>2. CASE BarrierWake(t)
    <3>1. pc[t] = "barrier_wake" /\ reg' = reg /\ (UNCHANGED <<pc, ip>> \/ Return(t))
      BY <2>2, Zenon DEF BarrierWake, FutexWakeAll
    <3>2. CASE UNCHANGED <<pc, ip>>
      BY <1>1, <1>2, <1>4, <3>1, <3>2, Zenon DEF BarrierAt
    <3>3. CASE Return(t)
      <4>1. pc'[t] = "idle" /\ ip' = [ip EXCEPT ![t] = @ + 1]
        BY <1>5, <3>3, Zenon DEF Return
      <4>2. Cardinality(Before(t, "barrier")') = Cardinality(Before(t, "barrier")) + 1
        BY <1>1, <4>1, Zenon
      <4>3. entered[t] = generation /\ Cardinality(Before(t, "barrier")) = entered[t] - 1
        BY <1>4, <3>1, Zenon DEF BarrierAt
      <4>4. Cardinality(Before(t, "barrier")') = entered[t]
        BY <1>4, <4>2, <4>3
      <4> QED
        BY <1>2, <3>1, <4>1, <4>3, <4>4, Zenon DEF BarrierAt
    <3> QED
      BY <3>1, <3>2, <3>3, Zenon
  <2>3. CASE BarrierTest(t)
    BY <1>1, <1>2, <1>4, <1>5, <2>3, SMTT(60) DEF BarrierTest, BarrierAt, Goto, Return
  <2>4. CASE BarrierPark(t)
    BY <1>1, <1>2, <1>4, <1>5, <2>4, Zenon DEF BarrierPark, FutexWait, BarrierAt, Goto
  <2>5. CASE Woken(t) /\ pc[t] \in BarrierPcs
    <3>1. pc[t] = "barrier_parked" /\ Goto(t, "barrier_test") /\ UNCHANGED reg
      BY <2>5, Zenon DEF Woken, RetryAt, ParkedAt, BarrierPcs
    <3> QED
      BY <1>1, <1>2, <1>4, <1>5, <3>1, Zenon DEF BarrierAt, Goto
  <2> QED
    BY <2>1, <2>2, <2>3, <2>4, <2>5, Zenon
<1>7. ASSUME NEW u \in Users \ {t} PROVE BarrierAt(u)'
  <2>1. BarrierAt(u) /\ u \in Thread \ {t}
    BY <1>1, Zenon DEF BarrierInv
  <2> QED
    BY <1>1, <1>2, <1>3, <2>1, Zenon DEF BarrierAt
<1>8. "barrier_bump" \in Closing
  BY Zenon DEF Closing
<1>9. \A u \in Users : BarrierAt(u)'
  BY <1>6, <1>7, Zenon
<1>10. \A u \in Users : /\ pc'[u] \in Closing <=> pc[u] \in Closing
                        /\ pc'[u] = "barrier_bump" <=> pc[u] = "barrier_bump"
  BY <1>1, <1>6, <1>8, Zenon
<1> QED
  BY <1>1, <1>2, <1>9, <1>10, Zenon DEF BarrierInv

\* An arrival: the last one, and only it, finds everyone there.
LEMMA BarrierArrives ==
  ASSUME Ctl, Words, BarrierInv, NEW t \in Thread, BarrierArrive(t)
  PROVE  BarrierInv'
<1>1. /\ t \in Users /\ Users' = Users
      /\ \A u \in Users : u \in Thread
      /\ \A u \in Thread \ {t} : /\ pc'[u] = pc[u]
                                /\ Before(u, "barrier")' = Before(u, "barrier")
      /\ UNCHANGED ip => Before(t, "barrier")' = Before(t, "barrier")
  BY BarrierFrame, Zenon DEF BarrierStep
<1>2. /\ UNCHANGED <<generation, reg, ip, prog>> /\ count' = count + 1
      /\ entered' = [entered EXCEPT ![t] = @ + 1]
      /\ pc[t] = "barrier_arrive"
      /\ pc' = [pc EXCEPT ![t] = IF LastArrives THEN "barrier_reset" ELSE "barrier_test"]
  BY Zenon DEF BarrierArrive, Goto
<1>3. BarrierAt(t) /\ generation \in Nat /\ entered \in [Thread -> Nat]
  BY <1>1, Zenon DEF BarrierInv
<1>4. entered[t] = generation /\ reg[t] = generation
  BY <1>2, <1>3, Zenon DEF BarrierAt, Waiting, Closing
<1>5. t \notin Arrived /\ Arrived' = Arrived \cup {t}
  BY <1>1, <1>2, <1>3, <1>4, SMTT(60) DEF Arrived
<1>6. \A u \in Users : pc[u] \notin Closing
  BY <1>1, <1>5, Zenon DEF BarrierInv, BarrierAt
<1>7. \A u \in Users : pc[u] # "barrier_bump"
  BY <1>6, Zenon DEF Closing
<1>8. count = Cardinality(Arrived)
  BY <1>7, Zenon DEF BarrierInv
<1>9. IsFiniteSet(Arrived) /\ Arrived' \in SUBSET Users /\ Arrived \in SUBSET Users
  <2>1. Arrived \in SUBSET Users
    BY Zenon DEF Arrived
  <2>2. IsFiniteSet(Arrived)
    BY <2>1, UsersCount, Zenon
  <2> QED
    BY <1>1, <1>5, <2>1, <2>2, Zenon
<1>10. Cardinality(Arrived') = count' /\ count \in Nat
  BY <1>2, <1>5, <1>8, <1>9, FS_AddElement, FS_CardinalityType, Zenon
<1>11. LastArrives => Arrived' = Users
  <2>1. \A S \in SUBSET Users : S # {} /\ Cardinality(S) = prog.trip => S = Users
    BY UsersCount, Zenon
  <2> QED
    BY <1>2, <1>5, <1>9, <1>10, <2>1, SMTT(60) DEF LastArrives
<1>12. BarrierAt(t)'
  BY <1>1, <1>2, <1>3, <1>4, <1>11, SMTT(60) DEF BarrierAt, Waiting, Closing, Ctl
<1>13. ASSUME NEW u \in Users \ {t} PROVE BarrierAt(u)'
  <2>1. BarrierAt(u) /\ u \in Thread \ {t} /\ pc'[u] = pc[u] /\ pc[u] \notin Closing
    BY <1>1, <1>6, Zenon DEF BarrierInv
  <2>2. entered'[u] = entered[u] /\ reg'[u] = reg[u]
    BY <1>2, <1>3, <2>1, Zenon
  <2> QED
    BY <1>1, <1>2, <2>1, <2>2, Zenon DEF BarrierAt
<1>14. \A u \in Users : BarrierAt(u)'
  BY <1>12, <1>13, Zenon
<1>15. \A u \in Users : pc'[u] \in Closing => u = t
  BY <1>1, <1>6, Zenon
<1>16. \A u \in Users : pc'[u] # "barrier_bump"
  BY <1>1, <1>2, <1>7, Zenon DEF Ctl
<1>17. generation' \in Nat /\ entered' \in [Thread -> Nat]
  BY <1>2, <1>3, SMTT(60)
<1> QED
  BY <1>1, <1>10, <1>14, <1>15, <1>16, <1>17, Zenon DEF BarrierInv

\* The last arrival resets count, then opens the barrier: whoever has entered
\* this round is let go, and no one has entered the next.
LEMMA BarrierCloses ==
  ASSUME Ctl, Words, BarrierInv, NEW t \in Thread, BarrierReset(t) \/ BarrierBump(t)
  PROVE  BarrierInv'
<1>1. /\ t \in Users /\ Users' = Users
      /\ \A u \in Users : u \in Thread
      /\ \A u \in Thread \ {t} : /\ pc'[u] = pc[u]
                                /\ Before(u, "barrier")' = Before(u, "barrier")
      /\ UNCHANGED ip => Before(t, "barrier")' = Before(t, "barrier")
  BY BarrierFrame, Zenon DEF BarrierStep
<1>2. UNCHANGED <<entered, reg, ip, prog>> /\ pc[t] \in Closing
  BY Zenon DEF BarrierReset, BarrierBump, Goto, Closing
<1>3. BarrierAt(t) /\ generation \in Nat /\ entered \in [Thread -> Nat]
  BY <1>1, Zenon DEF BarrierInv
<1>4. Arrived = Users /\ \A u \in Users \ {t} : pc[u] \notin Closing
  BY <1>1, <1>2, <1>3, Zenon DEF BarrierAt, BarrierInv
<1>5. \A u \in Users : entered[u] = generation + 1
  BY <1>4, Zenon DEF Arrived
<1>6. \A u \in Users \ {t} : pc[u] # "barrier_bump" /\ pc'[u] # "barrier_bump" /\ pc'[u] \notin Closing
  BY <1>1, <1>4, Zenon DEF Closing
<1>7. CASE BarrierReset(t)
  <2>1. pc' = [pc EXCEPT ![t] = "barrier_bump"] /\ count' = 0 /\ UNCHANGED generation
    BY <1>7, Zenon DEF BarrierReset, Goto
  <2>2. pc'[t] = "barrier_bump" /\ Arrived' = Users
    BY <1>1, <1>2, <1>4, <2>1, Zenon DEF Arrived, Ctl
  <2>3. BarrierAt(t)'
    BY <1>1, <1>2, <1>3, <1>5, <2>1, <2>2, Zenon DEF BarrierAt, Waiting, Closing
  <2>4. ASSUME NEW u \in Users \ {t} PROVE BarrierAt(u)'
    BY <1>1, <1>2, <1>6, <2>1, <2>4, Zenon DEF BarrierInv, BarrierAt
  <2>5. \A u \in Users : BarrierAt(u)'
    BY <2>3, <2>4, Zenon
  <2> QED
    BY <1>1, <1>2, <1>3, <1>6, <2>1, <2>2, <2>5, Zenon DEF BarrierInv
<1>8. CASE BarrierBump(t)
  <2>1. pc' = [pc EXCEPT ![t] = "barrier_wake"] /\ UNCHANGED count /\ generation' = generation + 1
    BY <1>8, Zenon DEF BarrierBump, Goto
  <2>2. pc'[t] = "barrier_wake" /\ pc[t] = "barrier_bump" /\ count = 0
    BY <1>1, <1>8, <2>1, Zenon DEF Ctl, BarrierBump, BarrierInv
  <2>3. Arrived' = {}
    BY <1>1, <1>2, <1>3, <1>5, <2>1, SMTT(60) DEF Arrived
  <2>4. Cardinality(Arrived') = count'
    BY <2>1, <2>2, <2>3, FS_EmptySet, Zenon
  <2>5. BarrierAt(t)'
    BY <1>1, <1>2, <1>3, <1>5, <2>1, <2>2, Zenon DEF BarrierAt, Waiting, Closing
  <2>6. ASSUME NEW u \in Users \ {t} PROVE BarrierAt(u)'
    <3>1. BarrierAt(u) /\ u \in Thread \ {t} /\ pc'[u] = pc[u] /\ pc[u] \notin Closing
      BY <1>1, <1>4, Zenon DEF BarrierInv
    <3>2. pc[u] \in Waiting /\ entered[u] = generation'
      BY <1>3, <1>5, <2>1, <3>1, SMTT(60) DEF BarrierAt
    <3>3. pc[u] # "barrier_arrive"
      BY <3>2, Zenon DEF Waiting
    <3> QED
      BY <1>1, <1>2, <3>1, <3>2, <3>3, Zenon DEF BarrierAt
  <2>7. \A u \in Users : BarrierAt(u)'
    BY <2>5, <2>6, Zenon
  <2>8. \A u \in Users : pc'[u] \notin Closing /\ pc'[u] # "barrier_bump"
    BY <1>6, <2>2, Zenon DEF Closing
  <2>9. generation' \in Nat
    BY <1>3, <2>1, SMTT(60)
  <2> QED
    BY <1>1, <1>2, <1>3, <2>4, <2>7, <2>8, <2>9, Zenon DEF BarrierInv
<1> QED
  BY <1>7, <1>8, Zenon

\* Every step of pthread_barrier_wait keeps BarrierInv.
LEMMA BarrierSteps ==
  ASSUME Ctl, Words, BarrierInv, NEW t \in Thread,
         BarrierStep(t) \/ (Woken(t) /\ pc[t] \in BarrierPcs)
  PROVE  BarrierInv'
BY BarrierLooks, BarrierArrives, BarrierCloses, Zenon DEF BarrierStep

(***************************************************************************)
(* The invariant of the whole library and what follows from it.            *)
(***************************************************************************)
IInv == Ctl /\ Words /\ OnceInv /\ BarrierInv /\ LifeInv

\* The invariant holds when the process starts.
LEMMA InitIInv ==
  ASSUME LifeInit
  PROVE  IInv
<1>1. /\ prog \in Programs /\ ip = [t \in Thread |-> 1] /\ reg = [t \in Thread |-> 0]
      /\ pc = [t \in Thread |-> IF t \in prog.born THEN "idle" ELSE "unborn"]
      /\ \A t \in Thread : pc[t] = (IF t \in prog.born THEN "idle" ELSE "unborn") /\ ip[t] = 1
  BY Zenon DEF LifeInit, Init
<1>2. \A t \in Thread : pc[t] \in {"idle", "unborn"}
  BY <1>1, Zenon
<1>3. {"idle", "unborn"} \cap (CallPcs \cup ExitPcs) = {} /\ {"idle", "unborn"} \subseteq Labels
  BY Zenon DEF CallPcs, OncePcs, BarrierPcs, LockPcs, LifePcs, ReaperPcs, NotifyPcs, JoinPcs, ExitPcs, Labels
<1>4. \A t \in Thread : pc[t] \notin CallPcs \cup ExitPcs /\ pc[t] \in Labels
  BY <1>2, <1>3, Zenon
<1>5. Ctl
  <2>1. \A t \in Thread : At(t, pc[t], ip[t])
    BY <1>4, Zenon DEF At, CallPcs, LifePcs
  <2>2. pc \in [Thread -> Labels] /\ ip \in [Thread -> Nat]
    BY <1>1, <1>3, Zenon
  <2> QED
    BY <1>1, <2>1, <2>2, Zenon DEF Ctl
<1>6. Words
  <2>1. <<>> \in Seq(Thread) /\ {} \in SUBSET Lock!Mode
    BY SMTT(60)
  <2>2. fq \in [Word -> Seq(Thread)] /\ holds \in [Thread -> SUBSET Lock!Mode] /\ reg \in [Thread -> Int]
    BY <1>1, <2>1, SMTT(60) DEF LifeInit, Init
  <2>3. 0 \in -1 .. RwMax /\ 0 \in 0 .. RecMax
    BY PthreadConstants, SMTT(60)
  <2>4. /\ locked = 0 /\ once = 0 /\ spin = 0 /\ owner = None /\ recursion = 0
        /\ sequence = 0 /\ generation = 0 /\ rw = 0
    BY Zenon DEF LifeInit, Init
  <2>5. 0 \in 0 .. 2 /\ 0 \in 0 .. 1 /\ 0 \in Nat
    BY SMTT(60)
  <2> QED
    BY <2>2, <2>3, <2>4, <2>5, Zenon DEF Words
<1>7. ASSUME NEW t \in Thread, NEW call PROVE Before(t, call) = {}
  <2>1. prog.code[t] \in Seq(Call \cup LifeCall)
    BY <1>1, ProgramsAssumption, ZenonT(60)
  <2> QED
    BY <1>1, <2>1, SMTT(60) DEF Before
<1>8. OnceInv
  BY <1>2, <1>7 DEF OnceInv, LifeInit, Init
<1>9. BarrierInv
  <2>1. generation = 0 /\ count = 0 /\ entered = [t \in Thread |-> 0]
    BY Zenon DEF LifeInit, Init
  <2>2. Arrived = {} /\ Cardinality(Arrived) = 0
    <3>1. Arrived = {}
      BY <2>1 DEF Arrived, Users
    <3> QED
      BY <3>1, FS_EmptySet, Zenon
  <2>3. Cardinality({}) = 0
    BY FS_EmptySet, Zenon
  <2>4. ASSUME NEW t \in Users PROVE BarrierAt(t) /\ pc[t] \notin Closing /\ pc[t] # "barrier_bump"
    <3>1. t \in Thread /\ Before(t, "barrier") = {}
      BY <1>7, Zenon DEF Users
    <3>2. pc[t] \notin Waiting \cup Closing \cup {"barrier_wake", "barrier_arrive", "barrier_bump"}
      BY <1>2, <3>1, Zenon DEF Waiting, Closing
    <3> QED
      BY <2>1, <2>3, <3>1, <3>2, Zenon DEF BarrierAt
  <2>5. entered \in [Thread -> Nat] /\ generation \in Nat
    BY <2>1, Zenon
  <2> QED
    BY <2>1, <2>2, <2>4, <2>5, Zenon DEF BarrierInv
<1>10. LifeInv
  <2>1. /\ rec = [t \in Thread |-> "none"] /\ lifecycle = [t \in Thread |-> "joinable"]
        /\ complete = [t \in Thread |-> FALSE] /\ reap_queued = [t \in Thread |-> FALSE]
        /\ cwait = [t \in Thread |-> {}] /\ frees = [t \in Thread |-> 0]
        /\ g_reaper_list = <<>> /\ rpc = "none" /\ victim = None
    BY Zenon DEF LifeInit
  <2>2. LifeTypes
    BY <2>1, SMTT(60) DEF LifeTypes
  <2>3. ASSUME NEW t \in Thread
        PROVE  /\ pc[t] \notin ReaperPcs \cup {"create_tid", "nf_call", "nf_exit", "join_reclaim"} \cup JoinPcs
               /\ pc[t] \notin {"nf_push", "nx_push"} \cup ExitPcs /\ pc[t] # "gone"
    BY <1>2, <2>3, Zenon DEF ReaperPcs, JoinPcs, ExitPcs
  <2>4. OneJoiner
    BY <2>3, Zenon DEF OneJoiner
  <2>5. \A t \in Thread : CallAt(t)
    BY <2>3, Zenon DEF CallAt
  <2>6. ASSUME NEW t \in Thread PROVE RecordAt(t)
    <3>1. pc[t] = "unborn" \/ t \in prog.born
      BY <1>1, Zenon
    <3>2. rec[t] = "none" /\ complete[t] = FALSE /\ reap_queued[t] = FALSE /\ frees[t] = 0
      BY <2>1, Zenon
    <3> QED
      BY <2>3, <3>1, <3>2, Zenon DEF RecordAt, Exists
  <2>7. TokenInv
    <3>1. \A t, u \in Thread : ~Pushes(t, u)
      BY <2>3, Zenon DEF Pushes
    <3>2. DOMAIN g_reaper_list = {} /\ Range(g_reaper_list) = {}
      BY <2>1, SMTT(60) DEF Range
    <3>3. rpc \notin {"observe", "test", "cparked", "reclaim"} /\ rpc # "reclaim"
      BY <2>1, Zenon
    <3> QED
      BY <3>1, <3>2, <3>3, Zenon DEF TokenInv, TokenAt, Reaps
  <2> QED
    BY <2>2, <2>4, <2>5, <2>6, <2>7, Zenon DEF LifeInv
<1> QED
  BY <1>5, <1>6, <1>8, <1>9, <1>10, Zenon DEF IInv

\* The places of the calls of Pthread.tla.
LEMMA SyncPlaces ==
  ASSUME NEW t \in Thread, ip[t] \in DOMAIN prog.code[t]
  PROVE  /\ prog.code[t][ip[t]] \in LockCalls => \A l \in LockPcs : At(t, l, ip[t])
         /\ prog.code[t][ip[t]] = "once" => \A l \in OncePcs : At(t, l, ip[t])
         /\ prog.code[t][ip[t]] = "barrier" => \A l \in BarrierPcs : At(t, l, ip[t])
         /\ LockPcs \in SUBSET Labels /\ OncePcs \in SUBSET Labels /\ BarrierPcs \in SUBSET Labels
<1> USE DEF At, CallPcs, OncePcs, BarrierPcs, LockPcs, LifePcs, ReaperPcs, NotifyPcs, JoinPcs
<1>1. ASSUME prog.code[t][ip[t]] \in LockCalls, NEW l \in LockPcs PROVE At(t, l, ip[t])
  BY <1>1, SMTT(60)
<1>2. ASSUME prog.code[t][ip[t]] = "once", NEW l \in OncePcs PROVE At(t, l, ip[t])
  BY <1>2, SMTT(60)
<1>3. ASSUME prog.code[t][ip[t]] = "barrier", NEW l \in BarrierPcs PROVE At(t, l, ip[t])
  BY <1>3, SMTT(60)
<1>4. LockPcs \in SUBSET Labels /\ OncePcs \in SUBSET Labels /\ BarrierPcs \in SUBSET Labels
  BY Zenon DEF Labels
<1> QED
  BY <1>1, <1>2, <1>3, <1>4, ZenonT(60)

\* A step of a mutex, a condition, an rwlock, a spin lock, pthread_once or a barrier.
LEMMA SyncStep ==
  ASSUME IInv, NEW t \in Thread, Step(t) \/ TimedOut(t), UNCHANGED lifeVars
  PROVE  IInv'
<1>1. /\ Ctl /\ Words /\ OnceInv /\ BarrierInv /\ LifeInv
      /\ pc \in [Thread -> Labels] /\ ip \in [Thread -> Nat]
  BY Zenon DEF IInv, Ctl
<1>2. Words' /\ Mine(t)
  BY <1>1, LockWords, CondWords, OnceBarrierWords, Zenon DEF Step
<1>3. ASSUME NEW S \in {LockPcs, OncePcs, BarrierPcs}, Goes(t, S), UNCHANGED prog,
             \/ S = LockPcs /\ (pc[t] \in LockPcs \/ Running(t, LockCalls))
             \/ S = OncePcs /\ (pc[t] \in OncePcs \/ Running(t, {"once"}))
             \/ S = BarrierPcs /\ (pc[t] \in BarrierPcs \/ Running(t, {"barrier"}))
      PROVE  /\ Ctl' /\ LifeInv'
             /\ S # OncePcs => \A u \in Thread : Aside(u, OncePcs, "once")
             /\ S # BarrierPcs => \A u \in Thread : Aside(u, BarrierPcs, "barrier")
  <2>1. /\ ip[t] \in DOMAIN prog.code[t]
        /\ S = LockPcs => prog.code[t][ip[t]] \in LockCalls
        /\ S = OncePcs => prog.code[t][ip[t]] = "once"
        /\ S = BarrierPcs => prog.code[t][ip[t]] = "barrier"
    <3>1. LockPcs # OncePcs /\ LockPcs # BarrierPcs /\ OncePcs # BarrierPcs
      <4>1. "lock" \in LockPcs /\ "lock" \notin OncePcs /\ "lock" \notin BarrierPcs
        BY Zenon DEF LockPcs, OncePcs, BarrierPcs
      <4>2. "once_init" \in OncePcs /\ "once_init" \notin BarrierPcs
        BY Zenon DEF OncePcs, BarrierPcs
      <4> QED
        BY <4>1, <4>2, Zenon
    <3> QED
      BY <1>1, <1>3, <3>1, Zenon DEF Ctl, At, CallPcs, Running
  <2>2. S \in SUBSET Labels /\ \A l \in S : At(t, l, ip[t])
    BY <1>3, <2>1, SyncPlaces, Zenon
  <2>3. Ctl'
    BY <1>1, <1>3, <2>2, GoesCtl, Zenon
  <2>4. Only(t)
    BY <1>1, <1>3, Zenon DEF Only, Goes, Goto, Return
  <2>5. pc[t] \in S \cup {"idle"} /\ pc'[t] \in S \cup {"idle"}
    <3>1. pc[t] \in S \cup {"idle"}
      BY <1>3, Zenon DEF Running
    <3> QED
      BY <1>1, <1>3, <3>1, Zenon DEF Goes, Goto, Return
  <2>6. /\ (S \cup {"idle"}) \cap (LifePcs \cup ExitPcs \cup {"unborn"}) = {}
        /\ S # OncePcs => (S \cup {"idle"}) \cap OncePcs = {}
        /\ S # BarrierPcs => (S \cup {"idle"}) \cap BarrierPcs = {}
    BY <1>3, SMTT(60) DEF LockPcs, OncePcs, BarrierPcs, LifePcs, ReaperPcs, NotifyPcs, JoinPcs, ExitPcs
  <2>7. LifeInv'
    BY <1>1, <1>3, <2>4, <2>5, <2>6, LifeAside, Zenon
  <2>8. ip'[t] = ip[t] \/ ip'[t] = ip[t] + 1
    BY <1>1, <1>3, Zenon DEF Goes, Goto, Return
  <2>9. ASSUME S # OncePcs, NEW u \in Thread PROVE Aside(u, OncePcs, "once")
    <3>1. prog.code[t][ip[t]] # "once"
      BY <1>3, <2>1, <2>9, Zenon DEF LockCalls
    <3> QED
      BY <1>2, <2>1, <2>4, <2>5, <2>6, <2>8, <2>9, <3>1, Zenon DEF Aside, Only, Mine
  <2>10. ASSUME S # BarrierPcs, NEW u \in Thread PROVE Aside(u, BarrierPcs, "barrier")
    <3>1. prog.code[t][ip[t]] # "barrier"
      BY <1>3, <2>1, <2>10, Zenon DEF LockCalls
    <3> QED
      BY <1>2, <2>1, <2>4, <2>5, <2>6, <2>8, <2>10, <3>1, Zenon DEF Aside, Only, Mine
  <2> QED
    BY <2>3, <2>7, <2>9, <2>10, Zenon
<1>4. "lock" \in LockPcs /\ "lock" \notin OncePcs /\ "lock" \notin BarrierPcs
      /\ "once_init" \in OncePcs /\ "once_init" \notin BarrierPcs
  BY Zenon DEF LockPcs, OncePcs, BarrierPcs
<1>5. LockPcs # OncePcs /\ LockPcs # BarrierPcs /\ OncePcs # BarrierPcs
  BY <1>4, Zenon
<1>6. CASE \/ MutexStep(t) \/ RwStep(t) \/ SpinStep(t) \/ CondStep(t) \/ TimedOut(t)
           \/ Woken(t) /\ pc[t] \in LockPcs
  <2>1. /\ Goes(t, LockPcs) /\ UNCHANGED <<prog, onceVars, barrierVars>>
        /\ pc[t] \in LockPcs \/ Running(t, LockCalls)
    BY <1>6, LockGoes, CondGoes, Zenon
  <2>2. /\ Ctl' /\ LifeInv' /\ \A u \in Thread : Aside(u, OncePcs, "once")
        /\ \A u \in Thread : Aside(u, BarrierPcs, "barrier")
    BY <1>3, <1>5, <2>1, Zenon
  <2>3. OnceInv' /\ BarrierInv'
    BY <1>1, <2>1, <2>2, OnceAside, BarrierAside, Zenon
  <2> QED
    BY <1>2, <2>2, <2>3, Zenon DEF IInv
<1>7. CASE OnceStep(t) \/ (Woken(t) /\ pc[t] \in OncePcs)
  <2>1. /\ Goes(t, OncePcs) /\ UNCHANGED <<prog, barrierVars>>
        /\ pc[t] \in OncePcs \/ Running(t, {"once"})
    BY <1>7, OnceGoes, Zenon
  <2>2. Ctl' /\ LifeInv' /\ \A u \in Thread : Aside(u, BarrierPcs, "barrier")
    BY <1>3, <1>5, <2>1, Zenon
  <2>3. OnceInv' /\ BarrierInv'
    BY <1>1, <1>7, <2>1, <2>2, OnceSteps, BarrierAside, Zenon
  <2> QED
    BY <1>2, <2>2, <2>3, Zenon DEF IInv
<1>8. CASE BarrierStep(t) \/ (Woken(t) /\ pc[t] \in BarrierPcs)
  <2>1. /\ Goes(t, BarrierPcs) /\ UNCHANGED <<prog, onceVars>>
        /\ pc[t] \in BarrierPcs \/ Running(t, {"barrier"})
    BY <1>8, BarrierGoes, Zenon
  <2>2. Ctl' /\ LifeInv' /\ \A u \in Thread : Aside(u, OncePcs, "once")
    BY <1>3, <1>5, <2>1, Zenon
  <2>3. OnceInv' /\ BarrierInv'
    BY <1>1, <1>8, <2>1, <2>2, BarrierSteps, OnceAside, Zenon
  <2> QED
    BY <1>2, <2>2, <2>3, Zenon DEF IInv
<1>9. Woken(t) => pc[t] \in LockPcs \cup OncePcs \cup BarrierPcs
  BY Zenon DEF Woken, ParkedAt, LockPcs, OncePcs, BarrierPcs
<1> QED
  BY <1>6, <1>7, <1>8, <1>9, Zenon DEF Step

\* A step of the lifecycle, by a thread or by the reaper.
LEMMA LifeStepInv ==
  ASSUME IInv, UNCHANGED <<prog, syncVars>>,
         ReaperStep \/ \E t \in Thread : LifeStep(t)
  PROVE  IInv'
<1>1. /\ Ctl /\ Words /\ OnceInv /\ BarrierInv /\ LifeInv /\ UNCHANGED <<prog, reg>>
      /\ UNCHANGED onceVars /\ UNCHANGED barrierVars
  BY Zenon DEF IInv, syncVars, onceVars, barrierVars
<1>2. Words'
  BY <1>1, Zenon DEF Words, syncVars
<1>3. Ctl' /\ LifeInv' /\ \A u \in Thread : Elsewhere(u)
  <2>1. CASE ReaperStep
    <3>1. LifeInv' /\ UNCHANGED <<pc, ip>>
      BY <1>1, <2>1, ReaperSteps, Zenon
    <3> QED
      BY <1>1, <3>1, Zenon DEF Ctl, At, Elsewhere
  <2>2. ASSUME NEW t \in Thread, LifeStep(t) PROVE Ctl' /\ LifeInv' /\ \A u \in Thread : Elsewhere(u)
    <3>1. Ctl' /\ Alone(t) /\ \A u \in Thread : Elsewhere(u)
      BY <1>1, <2>2, LifeCtl, Zenon
    <3>2. LifeInv'
      BY <1>1, <2>2, <3>1, PlainSteps, ClaimSteps, CreateStep, CompleteStep, QueueStep, PushStep,
         JoinReclaimStep, Zenon, ZenonT(60), ZenonT(60) DEF LifeStep
    <3> QED
      BY <3>1, <3>2, Zenon
  <2> QED
    BY <2>1, <2>2, Zenon
<1>4. \A u \in Thread : Aside(u, OncePcs, "once") /\ Aside(u, BarrierPcs, "barrier")
  BY <1>3, Zenon DEF Elsewhere, Aside
<1>5. OnceInv' /\ BarrierInv'
  BY <1>1, <1>4, OnceAside, BarrierAside, Zenon
<1> QED
  BY <1>2, <1>3, <1>5, Zenon DEF IInv

\* Every step of the library keeps the invariant.
LEMMA NextIInv ==
  ASSUME IInv, [LifeNext]_allVars
  PROVE  IInv'
<1>1. CASE LifeNext
  BY <1>1, SyncStep, LifeStepInv, Zenon DEF LifeNext, ReaperNext, ThreadStep, Late
<1>2. CASE UNCHANGED allVars
  <2>1. UNCHANGED vars /\ UNCHANGED lifeVars
    BY <1>2, Zenon DEF allVars
  <2>2. UNCHANGED <<prog, pc, ip, recVars, reaperVars, reg, onceVars, barrierVars, locked, owner,
                    recursion, sequence, rw, spin, holds, fq>>
    BY <2>1, Zenon DEF vars, lifeVars, recVars, reaperVars, onceVars, barrierVars, mutexVars, condVars
  <2>3. Ctl' /\ Words' /\ LifeInv'
    <3>1. LifeInv'
      BY <2>2, LifeSame, Zenon DEF IInv
    <3>2. Ctl'
      BY <2>2, Zenon DEF IInv, Ctl, At
    <3>3. Words'
      BY <2>2, Zenon DEF IInv, Words, onceVars, barrierVars
    <3> QED
      BY <3>1, <3>2, <3>3, Zenon
  <2>4. \A u \in Thread : Aside(u, OncePcs, "once") /\ Aside(u, BarrierPcs, "barrier")
    BY <2>2, Zenon DEF Aside
  <2>5. OnceInv' /\ BarrierInv'
    BY <2>2, <2>4, OnceAside, BarrierAside, Zenon DEF IInv
  <2> QED
    BY <2>3, <2>5, Zenon DEF IInv
<1> QED
  BY <1>1, <1>2, Zenon

\* pthread_once and pthread_barrier_wait return to no one early, whatever the
\* threads, the programs and their number.
THEOREM ReturnsInTime == LifeSpec => []NoEarlyReturn
<1>1. IInv => NoEarlyReturn
  <2> SUFFICES ASSUME IInv PROVE NoEarlyReturn
    BY Zenon
  <2>1. OnceInv /\ BarrierInv
    BY Zenon DEF IInv
  <2>2. inits <= 1 /\ \A t \in Thread : Before(t, "once") # {} => inits = 1
    BY <2>1, SMTT(60) DEF OnceInv
  <2>3. ASSUME NEW t \in Users, NEW u \in Users PROVE entered[u] >= Cardinality(Before(t, "barrier"))
    <3>1. /\ BarrierAt(t) /\ BarrierAt(u) /\ generation \in Nat
          /\ entered[t] \in Nat /\ entered[u] \in Nat
      BY <2>1, Zenon DEF BarrierInv, Users
    <3> QED
      BY <3>1, SMTT(60) DEF BarrierAt
  <2> QED
    BY <2>2, <2>3, Zenon DEF NoEarlyReturn, Users
<1> QED
  BY InitIInv, NextIInv, <1>1, PTL DEF LifeSpec

\* reclaim_thread frees a record once and only when its thread is off its stack,
\* whoever joined, detached, exited or reaped first.
THEOREM ReclaimIsSafe == LifeSpec => []ReclaimSafe
<1>1. IInv => ReclaimSafe
  <2> SUFFICES ASSUME IInv PROVE ReclaimSafe
    BY SMTT(60)
  <2>1. Ctl /\ Words /\ BarrierInv /\ LifeInv /\ LifeTypes /\ TokenInv
    BY Zenon DEF IInv, LifeInv
  <2>2. count \in 0 .. prog.trip
    <3>1. Arrived \in SUBSET Users
      BY Zenon DEF Arrived
    <3>2. Cardinality(Arrived) \in 0 .. prog.trip
      BY <2>1, <3>1, UsersCount, Zenon
    <3>3. 0 \in 0 .. prog.trip
      <4>1. prog.trip \in Nat
        BY <2>1, ProgramsAssumption, Zenon DEF Ctl
      <4> QED
        BY <4>1, SMTT(60)
    <3> QED
      BY <2>1, <3>2, <3>3, Zenon DEF BarrierInv
  <2>3. \A w \in Word : Range(fq[w]) \subseteq Thread
    BY <2>1, SMTT(60) DEF Words, Range
  <2>4. Range(g_reaper_list) \subseteq Thread
    BY <2>1, SMTT(60) DEF LifeTypes, Range
  <2>5. /\ \A t \in Thread : holds[t] \subseteq Lock!Mode
        /\ \A t \in Thread : cwait[t] \subseteq Thread \cup {Reaper}
    BY <2>1, Zenon DEF Words, LifeTypes
  <2>6. TypeOK
    BY <2>1, <2>2, <2>3, <2>4, <2>5, Zenon DEF TypeOK, Ctl, Words, LifeTypes
  <2>7. ASSUME NEW t \in Thread, rec[t] = "freed"
        PROVE  pc[t] = "gone" /\ frees[t] = 1 /\ t \notin Range(g_reaper_list)
    <3>1. RecordAt(t) /\ TokenAt(t)
      BY <2>1, Zenon DEF LifeInv, TokenInv
    <3> QED
      BY <2>7, <3>1, Zenon DEF RecordAt, TokenAt
  <2> QED
    BY <2>6, <2>7, Zenon DEF ReclaimSafe
<1> QED
  BY InitIInv, NextIInv, <1>1, PTL DEF LifeSpec

=============================================================================
