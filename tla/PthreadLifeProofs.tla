------------------------- MODULE PthreadLifeProofs -------------------------
(***************************************************************************)
(* What the steps of PthreadLife.tla keep, for any threads and programs:   *)
(* the places of the calls, the range of the words, pthread_once, and the  *)
(* invariant of the lifecycle.  PthreadProofs.tla draws the theorems.      *)
(***************************************************************************)
EXTENDS PthreadLife, TLAPS

OncePcs == {"once_init", "once_store", "once_wake", "once_test", "once_load",
            "once_wait", "once_parked"}
BarrierPcs == {"barrier_arrive", "barrier_reset", "barrier_bump", "barrier_wake",
               "barrier_test", "barrier_wait", "barrier_parked"}
LockPcs == {"lock", "lock_wait", "lock_parked", "unlock_wake", "wait_wake", "wait_record",
            "wait_unlock", "wait_test", "wait_wait", "wait_parked", "relock", "signal",
            "broadcast", "bc_wake", "bc_wake_null", "bc_all", "bc_requeue",
            "bc_requeue_more", "bc_mark", "rd_try", "wr_try", "rd_load", "wr_load",
            "rd_wait", "wr_wait", "rd_parked", "wr_parked", "rw_wake"}
ReaperPcs == {"er_build", "er_publish", "er_done"}
NotifyPcs == {"nf_call", "nf_push", "nf_bump", "nf_wake"}
JoinPcs == {"join_test", "join_parked", "join_reclaim"}
ExitPcs == {"exit_load", "nf_exit", "nx_push", "nx_bump", "nx_wake", "exit_kernel", "gone"}
LifePcs == ReaperPcs \cup {"create_tid"} \cup NotifyPcs \cup JoinPcs
CallPcs == OncePcs \cup BarrierPcs \cup LockPcs \cup LifePcs
Labels == CallPcs \cup ExitPcs \cup {"idle", "unborn"}

LockCalls == Call \ {"once", "barrier"}

\* The calls of which l is a place.
At(t, l, i) ==
  /\ l \in CallPcs => i \in DOMAIN prog.code[t]
  /\ l \in OncePcs => prog.code[t][i] = "once"
  /\ l \in BarrierPcs => prog.code[t][i] = "barrier"
  /\ l \in LockPcs => prog.code[t][i] \in LockCalls
  /\ l \in ReaperPcs \cup NotifyPcs => prog.code[t][i] \in NeedsReaper
  /\ l = "create_tid" => prog.code[t][i] \in {"create", "create_detached"}
  /\ l \in JoinPcs => prog.code[t][i] = "join"

Ctl ==
  /\ prog \in Programs
  /\ pc \in [Thread -> Labels]
  /\ ip \in [Thread -> Nat]
  /\ \A t \in Thread : At(t, pc[t], ip[t])

\* A step of t within the places S of a call, or out of the call.
Goes(t, S) ==
  \/ \E l \in S \cup {"idle"} : Goto(t, l)
  \/ Return(t)
  \/ UNCHANGED <<pc, ip>>

\* The places of a lock, a condition, an rwlock and a spin lock are left only for
\* each other.
LEMMA LockGoes ==
  ASSUME NEW t \in Thread, MutexStep(t) \/ RwStep(t) \/ SpinStep(t)
  PROVE  /\ Goes(t, LockPcs) /\ UNCHANGED <<prog, onceVars, barrierVars>>
         /\ pc[t] \in LockPcs \/ Running(t, LockCalls)
<1> USE DEF Goes, LockCalls, Call, LockPcs, onceVars, barrierVars
<1>1. CASE TryLock(t)
  BY <1>1, Zenon DEF TryLock, Again, Running
<1>2. CASE LockLoop(t)
  BY <1>2, Zenon DEF LockLoop, Again
<1>3. CASE LockPark(t)
  BY <1>3, Zenon DEF LockPark, FutexWait
<1>4. CASE Unlock(t)
  BY <1>4, Zenon DEF Unlock, UnlockBody, Running
<1>5. CASE UnlockWake(t)
  BY <1>5, Zenon DEF UnlockWake
<1>6. CASE RdTry(t)
  BY <1>6, Zenon DEF RdTry, Running
<1>7. CASE WrTry(t)
  BY <1>7, Zenon DEF WrTry, Running
<1>8. CASE RwLoad(t)
  BY <1>8, Zenon DEF RwLoad
<1>9. CASE RwPark(t)
  BY <1>9, Zenon DEF RwPark, FutexWait
<1>10. CASE RwUnlock(t)
  BY <1>10, Zenon DEF RwUnlock, Running
<1>11. CASE RwWake(t)
  BY <1>11, Zenon DEF RwWake, FutexWakeAll
<1>12. CASE SpinStep(t)
  BY <1>12, Zenon DEF SpinStep, SpinLock, SpinUnlock, Running
<1> QED
  BY <1>1, <1>2, <1>3, <1>4, <1>5, <1>6, <1>7, <1>8, <1>9, <1>10, <1>11, <1>12, Zenon
     DEF MutexStep, RwStep

\* The same of a condition variable, and of coming back from the kernel.
LEMMA CondGoes ==
  ASSUME NEW t \in Thread,
         CondStep(t) \/ TimedOut(t) \/ (Woken(t) /\ pc[t] \in LockPcs)
  PROVE  /\ Goes(t, LockPcs) /\ UNCHANGED <<prog, onceVars, barrierVars>>
         /\ pc[t] \in LockPcs \/ Running(t, LockCalls)
<1> USE DEF Goes, LockCalls, Call, LockPcs, onceVars, barrierVars
<1>1. CASE SetReady(t)
  BY <1>1, Zenon DEF SetReady, Running
<1>2. CASE WaitBegin(t)
  BY <1>2, Zenon DEF WaitBegin, Running
<1>3. CASE WaitRecord(t)
  BY <1>3, Zenon DEF WaitRecord
<1>4. CASE WaitUnlock(t)
  BY <1>4, Zenon DEF WaitUnlock, UnlockBody
<1>5. CASE WaitTest(t)
  BY <1>5, Zenon DEF WaitTest
<1>6. CASE WaitPark(t)
  BY <1>6, Zenon DEF WaitPark, FutexWait
<1>7. CASE Signal(t)
  BY <1>7, Zenon DEF Signal, Running
<1>8. CASE SignalWake(t)
  BY <1>8, Zenon DEF SignalWake
<1>9. CASE BroadcastLoad(t)
  BY <1>9, Zenon DEF BroadcastLoad
<1>10. CASE BroadcastWake(t)
  BY <1>10, Zenon DEF BroadcastWake
<1>11. CASE BroadcastAll(t)
  BY <1>11, Zenon DEF BroadcastAll, FutexWakeAll
<1>12. CASE BroadcastRequeue(t)
  BY <1>12, Zenon DEF BroadcastRequeue
<1>13. CASE BroadcastMark(t)
  BY <1>13, Zenon DEF BroadcastMark
<1>14. CASE TimedOut(t)
  BY <1>14, Zenon DEF TimedOut
<1>15. CASE Woken(t) /\ pc[t] \in LockPcs
  BY <1>15, Zenon DEF Woken, RetryAt, ParkedAt
<1> QED
  BY <1>1, <1>2, <1>3, <1>4, <1>5, <1>6, <1>7, <1>8, <1>9, <1>10, <1>11, <1>12,
     <1>13, <1>14, <1>15, Zenon DEF CondStep

\* pthread_once moves within its own places.
LEMMA OnceGoes ==
  ASSUME NEW t \in Thread, OnceStep(t) \/ (Woken(t) /\ pc[t] \in OncePcs)
  PROVE  /\ Goes(t, OncePcs) /\ UNCHANGED <<prog, barrierVars>>
         /\ pc[t] \in OncePcs \/ Running(t, {"once"})
<1> USE DEF Goes, OncePcs, barrierVars
<1>1. CASE OnceBegin(t) \/ OnceInit(t) \/ OnceStore(t)
  BY <1>1, Zenon DEF OnceBegin, OnceInit, OnceStore
<1>2. CASE OnceWake(t)
  BY <1>2, Zenon DEF OnceWake, FutexWakeAll
<1>3. CASE OnceTest(t) \/ OnceLoad(t)
  BY <1>3, Zenon DEF OnceTest, OnceLoad
<1>4. CASE OncePark(t)
  BY <1>4, Zenon DEF OncePark, FutexWait
<1>5. CASE Woken(t) /\ pc[t] \in OncePcs
  BY <1>5, Zenon DEF Woken, RetryAt, ParkedAt
<1> QED
  BY <1>1, <1>2, <1>3, <1>4, <1>5, Zenon DEF OnceStep

\* pthread_barrier_wait moves within its own places.
LEMMA BarrierGoes ==
  ASSUME NEW t \in Thread, BarrierStep(t) \/ (Woken(t) /\ pc[t] \in BarrierPcs)
  PROVE  /\ Goes(t, BarrierPcs) /\ UNCHANGED <<prog, onceVars>>
         /\ pc[t] \in BarrierPcs \/ Running(t, {"barrier"})
<1> USE DEF Goes, BarrierPcs, onceVars
<1>1. CASE BarrierBegin(t) \/ BarrierArrive(t) \/ BarrierReset(t)
  BY <1>1, Zenon DEF BarrierBegin, BarrierArrive, BarrierReset
<1>2. CASE BarrierBump(t) \/ BarrierTest(t)
  BY <1>2, Zenon DEF BarrierBump, BarrierTest
<1>3. CASE BarrierWake(t)
  BY <1>3, Zenon DEF BarrierWake, FutexWakeAll
<1>4. CASE BarrierPark(t)
  BY <1>4, Zenon DEF BarrierPark, FutexWait
<1>5. CASE Woken(t) /\ pc[t] \in BarrierPcs
  BY <1>5, Zenon DEF Woken, RetryAt, ParkedAt
<1> QED
  BY <1>1, <1>2, <1>3, <1>4, <1>5, Zenon DEF BarrierStep

\* A step within the places of the call a thread is in keeps the control state.
LEMMA GoesCtl ==
  ASSUME Ctl, NEW t \in Thread, NEW S \in SUBSET Labels, Goes(t, S), UNCHANGED prog,
         \A l \in S : At(t, l, ip[t])
  PROVE  Ctl'
<1>1. \A i : At(t, "idle", i)
  BY Zenon DEF At, CallPcs, OncePcs, BarrierPcs, LockPcs, LifePcs, ReaperPcs, NotifyPcs, JoinPcs
<1>2. pc' \in [Thread -> Labels] /\ ip' \in [Thread -> Nat]
  BY DEF Ctl, Goes, Goto, Return, Labels
<1>3. ASSUME NEW u \in Thread PROVE At(u, pc'[u], ip'[u])
  BY <1>1, Zenon DEF Ctl, Goes, Goto, Return
<1> QED
  BY <1>2, <1>3, Zenon DEF Ctl, At

(***************************************************************************)
(* The words of the synchronisation objects.                               *)
(***************************************************************************)
Words ==
  /\ reg \in [Thread -> Int]
  /\ locked \in 0 .. 2 /\ once \in 0 .. 2 /\ spin \in 0 .. 1
  /\ owner \in Thread \cup {None} /\ recursion \in 0 .. RecMax
  /\ sequence \in Nat /\ generation \in Nat /\ rw \in -1 .. RwMax
  /\ holds \in [Thread -> SUBSET Lock!Mode]
  /\ fq \in [Word -> Seq(Thread)]

\* The kernel's queues stay queues of threads.
LEMMA QueueTypes ==
  ASSUME NEW s \in Seq(Thread), NEW t \in Thread
  PROVE  /\ Append(s, t) \in Seq(Thread)
         /\ \A n \in Nat : /\ SubSeq(s, n + 1, Len(s)) \in Seq(Thread)
                           /\ n <= Len(s) => SubSeq(s, 1, n) \in Seq(Thread)
         /\ Dequeued(s, t) \in Seq(Thread)
<1>1. Append(s, t) \in Seq(Thread)
  OBVIOUS
<1>2. \A n \in Nat : /\ SubSeq(s, n + 1, Len(s)) \in Seq(Thread)
                    /\ n <= Len(s) => SubSeq(s, 1, n) \in Seq(Thread)
  OBVIOUS
<1>3. Dequeued(s, t) \in Seq(Thread)
  <2>1. CASE t \in Range(s)
    <3> DEFINE i == CHOOSE j \in DOMAIN s : s[j] = t
    <3>1. i \in DOMAIN s
      BY <2>1, Zenon DEF Range
    <3>2. Dequeued(s, t) = SubSeq(s, 1, i - 1) \o SubSeq(s, i + 1, Len(s))
      BY <2>1, Zenon DEF Dequeued, RemoveAt
    <3> HIDE DEF i
    <3>3. i \in Nat /\ i - 1 \in Nat /\ i - 1 <= Len(s)
      BY <3>1
    <3>4. SubSeq(s, 1, i - 1) \in Seq(Thread) /\ SubSeq(s, i + 1, Len(s)) \in Seq(Thread)
      BY <1>2, <3>3
    <3> QED
      BY <3>2, <3>4
  <2>2. CASE t \notin Range(s)
    BY <2>2, Zenon DEF Dequeued
  <2> QED
    BY <2>1, <2>2, Zenon
<1> QED
  BY <1>1, <1>2, <1>3

\* The kernel's calls keep the queues.
LEMMA FutexTypes ==
  ASSUME Words, Ctl, NEW w \in Word
  PROVE  /\ \A n \in Nat : FutexWake(w, n) => fq' \in [Word -> Seq(Thread)]
         /\ \A t \in Thread : FutexWakeAll(t, w) => fq' \in [Word -> Seq(Thread)]
         /\ \A t \in Thread : \A v, e, p, r : FutexWait(t, w, v, e, p, r) => fq' \in [Word -> Seq(Thread)]
<1>1. fq[w] \in Seq(Thread)
  BY Zenon DEF Words
<1>2. ASSUME NEW n \in Nat, FutexWake(w, n) PROVE fq' \in [Word -> Seq(Thread)]
  <2>1. SubSeq(fq[w], n + 1, Len(fq[w])) \in Seq(Thread)
    BY <1>1, QueueTypes
  <2> QED
    BY <1>2, <2>1, Zenon DEF Words, FutexWake
<1>3. ASSUME NEW t \in Thread, FutexWakeAll(t, w) PROVE fq' \in [Word -> Seq(Thread)]
  <2>1. prog.batch \in Nat
    BY ProgramsAssumption, Zenon DEF Ctl
  <2> QED
    BY <1>2, <1>3, <2>1, Zenon DEF FutexWakeAll
<1>4. ASSUME NEW t \in Thread, NEW v, NEW e, NEW p, NEW r, FutexWait(t, w, v, e, p, r)
      PROVE  fq' \in [Word -> Seq(Thread)]
  <2>1. Append(fq[w], t) \in Seq(Thread)
    BY <1>1, QueueTypes, Zenon
  <2> QED
    BY <1>4, <2>1, Zenon DEF Words, FutexWait
<1> QED
  BY <1>2, <1>3, <1>4, Zenon

\* What a step does to the registers: only its own changes.
Mine(t) == /\ reg' \in [Thread -> Int]
           /\ \A u \in Thread \ {t} : reg'[u] = reg[u]

\* Every step keeps the words in their range: the count of a recursive mutex stops
\* at RecMax, the readers of an rwlock at RwMax.
LEMMA LockWords ==
  ASSUME Ctl, Words, NEW t \in Thread, MutexStep(t) \/ RwStep(t) \/ SpinStep(t)
  PROVE  Words' /\ Mine(t)
<1> USE PthreadConstants DEF Words, Mine, Lock!Mode, mutexVars, condVars, onceVars, barrierVars
<1>0. {"mutex", "cond", "once", "rw", "barrier"} = Word
  BY Zenon DEF Word
<1>1. CASE TryLock(t)
  BY <1>1, SMTT(60) DEF TryLock, Own, Held
<1>2. CASE LockLoop(t)
  BY <1>2 DEF LockLoop, Own
<1>3. CASE LockPark(t)
  <2>1. fq' \in [Word -> Seq(Thread)]
    BY <1>0, <1>3, FutexTypes, Zenon DEF LockPark
  <2> QED
    BY <1>3, <2>1, Zenon DEF LockPark
<1>4. CASE Unlock(t)
  BY <1>4, SMTT(60) DEF Unlock, UnlockBody
<1>5. CASE UnlockWake(t)
  <2>1. fq' \in [Word -> Seq(Thread)]
    BY <1>0, <1>5, FutexTypes, Zenon DEF UnlockWake
  <2> QED
    BY <1>5, <2>1, Zenon DEF UnlockWake
<1>6. CASE RdTry(t)
  <2>0. holds' = holds \/ holds' = [holds EXCEPT ![t] = @ \cup {"read"}]
    BY <1>6, Zenon DEF RdTry
  <2>1. holds' \in [Thread -> SUBSET Lock!Mode]
    BY <2>0, SMTT(60)
  <2>2. rw' \in -1 .. RwMax
    BY <1>6 DEF RdTry, ReaderMay
  <2> QED
    BY <1>6, <2>1, <2>2, Zenon DEF RdTry
<1>7. CASE WrTry(t)
  <2>1. holds' \in [Thread -> SUBSET Lock!Mode]
    BY <1>7, SMTT(60) DEF WrTry
  <2>2. rw' \in -1 .. RwMax
    BY <1>7, SMTT(60) DEF WrTry
  <2> QED
    BY <1>7, <2>1, <2>2, Zenon DEF WrTry
<1>8. CASE RwLoad(t)
  BY <1>8 DEF RwLoad
<1>9. CASE RwPark(t)
  <2>1. fq' \in [Word -> Seq(Thread)]
    BY <1>0, <1>9, FutexTypes, Zenon DEF RwPark
  <2> QED
    BY <1>9, <2>1, Zenon DEF RwPark
<1>10. CASE RwUnlock(t)
  BY <1>10, SMTT(60) DEF RwUnlock
<1>11. CASE RwWake(t)
  <2>1. fq' \in [Word -> Seq(Thread)]
    BY <1>0, <1>11, FutexTypes, Zenon DEF RwWake
  <2> QED
    BY <1>11, <2>1, Zenon DEF RwWake
<1>12. CASE SpinStep(t)
  <2>1. holds' \in [Thread -> SUBSET Lock!Mode]
    BY <1>12, ZenonT(60) DEF SpinStep, SpinLock, SpinUnlock
  <2>2. spin' \in 0 .. 1
    BY <1>12 DEF SpinStep, SpinLock, SpinUnlock
  <2> QED
    BY <1>12, <2>1, <2>2, Zenon DEF SpinStep, SpinLock, SpinUnlock
<1> QED
  BY <1>1, <1>2, <1>3, <1>4, <1>5, <1>6, <1>7, <1>8, <1>9, <1>10, <1>11, <1>12, Zenon
     DEF MutexStep, RwStep

\* The same of the condition variable: a broadcast moves its waiters to the queue of
\* the mutex.
LEMMA CondWords ==
  ASSUME Ctl, Words, NEW t \in Thread, CondStep(t) \/ TimedOut(t) \/ Woken(t)
  PROVE  Words' /\ Mine(t)
<1> USE PthreadConstants DEF Words, Mine, Lock!Mode, mutexVars, condVars, onceVars, barrierVars
<1>0. {"mutex", "cond", "once", "rw", "barrier"} = Word
  BY Zenon DEF Word
<1>1. CASE SetReady(t)
  BY <1>1, Zenon DEF SetReady
<1>2. CASE WaitBegin(t)
  BY <1>2 DEF WaitBegin
<1>3. CASE WaitRecord(t)
  BY <1>3, Zenon DEF WaitRecord
<1>4. CASE WaitUnlock(t)
  BY <1>4, SMTT(60) DEF WaitUnlock, UnlockBody
<1>5. CASE WaitTest(t)
  BY <1>5, Zenon DEF WaitTest
<1>6. CASE WaitPark(t)
  <2>1. fq' \in [Word -> Seq(Thread)]
    BY <1>0, <1>6, FutexTypes, Zenon DEF WaitPark
  <2> QED
    BY <1>6, <2>1, Zenon DEF WaitPark
<1>7. CASE Signal(t)
  BY <1>7 DEF Signal
<1>8. CASE SignalWake(t)
  <2>1. fq' \in [Word -> Seq(Thread)]
    BY <1>0, <1>8, FutexTypes, Zenon DEF SignalWake
  <2> QED
    BY <1>8, <2>1, Zenon DEF SignalWake
<1>9. CASE BroadcastLoad(t)
  BY <1>9, Zenon DEF BroadcastLoad
<1>10. CASE BroadcastWake(t)
  <2>1. fq' \in [Word -> Seq(Thread)]
    BY <1>0, <1>10, FutexTypes, Zenon DEF BroadcastWake
  <2> QED
    BY <1>10, <2>1, Zenon DEF BroadcastWake
<1>11. CASE BroadcastAll(t)
  <2>1. fq' \in [Word -> Seq(Thread)]
    BY <1>0, <1>11, FutexTypes, Zenon DEF BroadcastAll
  <2> QED
    BY <1>11, <2>1, Zenon DEF BroadcastAll
<1>12. CASE BroadcastRequeue(t)
  <2> DEFINE n == IF sequence = reg[t] THEN Len(fq["cond"]) ELSE 0
             k == IF n > prog.batch THEN prog.batch ELSE n
  <2>1. fq["cond"] \in Seq(Thread) /\ fq["mutex"] \in Seq(Thread)
    BY <1>0, Zenon
  <2>2. k \in Nat /\ k <= Len(fq["cond"])
    <3>1. prog.batch \in Nat
      BY ProgramsAssumption, Zenon DEF Ctl
    <3> QED
      BY <2>1, <3>1
  <2>3. fq' = [fq EXCEPT !["mutex"] = fq["mutex"] \o SubSeq(fq["cond"], 1, k),
                         !["cond"] = SubSeq(fq["cond"], k + 1, Len(fq["cond"]))]
    BY <1>0, <1>12, Zenon DEF BroadcastRequeue
  <2> HIDE DEF k
  <2>4. /\ fq["mutex"] \o SubSeq(fq["cond"], 1, k) \in Seq(Thread)
        /\ SubSeq(fq["cond"], k + 1, Len(fq["cond"])) \in Seq(Thread)
    <3>1. SubSeq(fq["cond"], 1, k) \in Seq(Thread)
      BY <2>1, <2>2, QueueTypes, Zenon
    <3>2. SubSeq(fq["cond"], k + 1, Len(fq["cond"])) \in Seq(Thread)
      BY <2>1, <2>2, QueueTypes, Zenon
    <3> QED
      BY <2>1, <3>1, <3>2
  <2>5. fq' \in [Word -> Seq(Thread)]
    BY <2>3, <2>4, Zenon
  <2> QED
    BY <1>12, <2>5, Zenon DEF BroadcastRequeue
<1>13. CASE BroadcastMark(t)
  BY <1>13, SMTT(60) DEF BroadcastMark
<1>14. CASE TimedOut(t)
  <2>1. fq' \in [Word -> Seq(Thread)]
    BY <1>14, QueueTypes, Zenon DEF TimedOut
  <2> QED
    BY <1>14, <2>1 DEF TimedOut
<1>15. CASE Woken(t)
  BY <1>15, Zenon DEF Woken
<1> QED
  BY <1>1, <1>2, <1>3, <1>4, <1>5, <1>6, <1>7, <1>8, <1>9, <1>10, <1>11, <1>12,
     <1>13, <1>14, <1>15, Zenon, Zenon DEF CondStep

\* The same of pthread_once and of the barrier.
LEMMA OnceBarrierWords ==
  ASSUME Ctl, Words, NEW t \in Thread, OnceStep(t) \/ BarrierStep(t)
  PROVE  Words' /\ Mine(t)
<1> USE DEF Words, Mine, mutexVars, condVars, onceVars, barrierVars
<1>0. {"mutex", "cond", "once", "rw", "barrier"} = Word
  BY Zenon DEF Word
<1>1. CASE OnceBegin(t) \/ OnceInit(t) \/ OnceStore(t)
  <2>1. CASE OnceBegin(t)
    BY <2>1, SMTT(60) DEF OnceBegin
  <2>2. CASE OnceInit(t)
    BY <2>2, SMTT(60) DEF OnceInit
  <2>3. CASE OnceStore(t)
    BY <2>3, SMTT(60) DEF OnceStore
  <2> QED
    BY <1>1, <2>1, <2>2, <2>3, Zenon
<1>2. CASE OnceTest(t) \/ OnceLoad(t)
  <2>1. CASE OnceTest(t)
    BY <2>1, SMTT(60) DEF OnceTest
  <2>2. CASE OnceLoad(t)
    BY <2>2, SMTT(60) DEF OnceLoad
  <2> QED
    BY <1>2, <2>1, <2>2, Zenon
<1>3. CASE OnceWake(t) \/ OncePark(t) \/ BarrierWake(t) \/ BarrierPark(t)
  <2>1. fq' \in [Word -> Seq(Thread)]
    BY <1>0, <1>3, FutexTypes, Zenon DEF OnceWake, OncePark, BarrierWake, BarrierPark
  <2> QED
    BY <1>3, <2>1, Zenon DEF OnceWake, OncePark, BarrierWake, BarrierPark
<1>4. CASE BarrierBegin(t) \/ BarrierArrive(t) \/ BarrierReset(t)
  <2>1. CASE BarrierBegin(t)
    BY <2>1, SMTT(60) DEF BarrierBegin
  <2>2. CASE BarrierArrive(t)
    BY <2>2, SMTT(60) DEF BarrierArrive
  <2>3. CASE BarrierReset(t)
    BY <2>3, SMTT(60) DEF BarrierReset
  <2> QED
    BY <1>4, <2>1, <2>2, <2>3, Zenon
<1>5. CASE BarrierBump(t) \/ BarrierTest(t)
  <2>1. CASE BarrierBump(t)
    BY <2>1, SMTT(60) DEF BarrierBump
  <2>2. CASE BarrierTest(t)
    BY <2>2, SMTT(60) DEF BarrierTest
  <2> QED
    BY <1>5, <2>1, <2>2, Zenon
<1> QED
  BY <1>1, <1>2, <1>3, <1>4, <1>5, Zenon DEF OnceStep, BarrierStep

(***************************************************************************)
(* The calls a thread has made.                                            *)
(***************************************************************************)
\* A thread that stays in its call, or leaves another one, has made no more calls.
LEMMA BeforeSame ==
  ASSUME Ctl, UNCHANGED prog, NEW t \in Thread, NEW call,
         \/ ip'[t] = ip[t]
         \/ ip'[t] = ip[t] + 1 /\ prog.code[t][ip[t]] # call
  PROVE  Before(t, call)' = Before(t, call)
<1>1. DOMAIN prog.code[t] \subseteq Nat /\ ip[t] \in Nat
  <2>1. prog.code[t] \in Seq(Call \cup LifeCall)
    BY ProgramsAssumption, ZenonT(60) DEF Ctl
  <2> QED
    BY <2>1 DEF Ctl
<1>2. CASE ip'[t] = ip[t]
  BY <1>2, Zenon DEF Before
<1>3. CASE ip'[t] = ip[t] + 1 /\ prog.code[t][ip[t]] # call
  <2>1. \A i \in DOMAIN prog.code[t] : i < ip[t] + 1 <=> i < ip[t] \/ i = ip[t]
    BY <1>1
  <2> QED
    BY <1>3, <2>1, Zenon DEF Before
<1> QED
  BY <1>2, <1>3, Zenon

(***************************************************************************)
(* pthread_once.                                                           *)
(***************************************************************************)
OnceInv ==
  /\ once \in {0, 1, 2} /\ inits \in {0, 1}
  /\ once = 0 => inits = 0
  /\ once = 2 => inits = 1
  /\ \A t \in Thread :
       /\ pc[t] = "once_init" => once = 1 /\ inits = 0
       /\ pc[t] = "once_store" => once = 1 /\ inits = 1
       /\ pc[t] = "once_wake" => once = 2
       /\ Before(t, "once") # {} => once = 2
  /\ \A t, u \in Thread :
       pc[t] \in {"once_init", "once_store"} /\ pc[u] \in {"once_init", "once_store"} => t = u

\* u is not in the call whose places are P and does not go there, or does not move.
Aside(u, P, call) ==
  \/ pc'[u] = pc[u] /\ ip'[u] = ip[u] /\ reg'[u] = reg[u]
  \/ /\ pc[u] \notin P /\ pc'[u] \notin P
     /\ \/ ip'[u] = ip[u]
        \/ /\ ip'[u] = ip[u] + 1 /\ ip[u] \in DOMAIN prog.code[u]
           /\ prog.code[u][ip[u]] # call

\* The same of pthread_once and of pthread_barrier_wait.
Elsewhere(u) ==
  \/ pc'[u] = pc[u] /\ ip'[u] = ip[u] /\ reg'[u] = reg[u]
  \/ /\ pc[u] \notin OncePcs \cup BarrierPcs /\ pc'[u] \notin OncePcs \cup BarrierPcs
     /\ \/ ip'[u] = ip[u]
        \/ /\ ip'[u] = ip[u] + 1 /\ ip[u] \in DOMAIN prog.code[u]
           /\ prog.code[u][ip[u]] \notin {"once", "barrier"}

\* Steps elsewhere leave pthread_once alone.
LEMMA OnceAside ==
  ASSUME Ctl, OnceInv, UNCHANGED <<prog, onceVars>>,
         \A u \in Thread : Aside(u, OncePcs, "once")
  PROVE  OnceInv'
<1>1. \A u \in Thread : Before(u, "once")' = Before(u, "once")
  BY BeforeSame, Zenon DEF Aside
<1>2. ASSUME NEW u \in Thread, NEW l \in {"once_init", "once_store", "once_wake"}, pc'[u] = l
      PROVE  pc[u] = l
  BY <1>2, Zenon DEF Aside, OncePcs
<1>3. UNCHANGED <<once, inits>>
  BY Zenon DEF onceVars
<1>4. ASSUME NEW t \in Thread
      PROVE  /\ pc'[t] = "once_init" => once = 1 /\ inits = 0
             /\ pc'[t] = "once_store" => once = 1 /\ inits = 1
             /\ pc'[t] = "once_wake" => once = 2
             /\ Before(t, "once")' # {} => once = 2
  BY <1>1, <1>2, Zenon DEF OnceInv
<1>5. ASSUME NEW t \in Thread, NEW u \in Thread,
             pc'[t] \in {"once_init", "once_store"}, pc'[u] \in {"once_init", "once_store"}
      PROVE  t = u
  BY <1>2, <1>5, Zenon DEF OnceInv
<1> QED
  BY <1>3, <1>4, <1>5, Zenon DEF OnceInv

\* pthread_once: the one thread that moves the word from 0 runs the routine, and no
\* call returns before the word says it has run.
LEMMA OnceSteps ==
  ASSUME Ctl, OnceInv, NEW t \in Thread, OnceStep(t) \/ (Woken(t) /\ pc[t] \in OncePcs)
  PROVE  OnceInv'
<1>0. /\ Goes(t, OncePcs) /\ UNCHANGED prog
      /\ ip[t] \in DOMAIN prog.code[t] /\ prog.code[t][ip[t]] = "once"
  BY OnceGoes, Zenon DEF Ctl, At, CallPcs, Running
<1>1. \A u \in Thread \ {t} : pc'[u] = pc[u] /\ ip'[u] = ip[u]
  BY <1>0, Zenon DEF Goes, Goto, Return, Ctl
<1>2. \A u \in Thread \ {t} : Before(u, "once")' = Before(u, "once")
  BY <1>0, <1>1, BeforeSame, Zenon
<1>3. ip'[t] = ip[t] => Before(t, "once")' = Before(t, "once")
  BY <1>0, BeforeSame, Zenon
<1>4. pc[t] \in Labels /\ pc \in [Thread -> Labels] /\ ip \in [Thread -> Nat]
  BY Zenon DEF Ctl
<1>5. CASE OnceBegin(t)
  BY <1>1, <1>2, <1>3, <1>4, <1>5, SMTT(60) DEF OnceBegin, OnceInv, Goto, Return
<1>6. CASE OnceInit(t)
  BY <1>1, <1>2, <1>3, <1>4, <1>6, SMTT(60) DEF OnceInit, OnceInv, Goto
<1>7. CASE OnceStore(t)
  BY <1>1, <1>2, <1>3, <1>4, <1>7, SMTT(60) DEF OnceStore, OnceInv, Goto
<1>8. CASE OnceWake(t)
  BY <1>1, <1>2, <1>3, <1>4, <1>8, Zenon DEF OnceWake, FutexWakeAll, OnceInv, onceVars, Return
<1>9. CASE OnceTest(t)
  BY <1>1, <1>2, <1>3, <1>4, <1>9, Zenon DEF OnceTest, OnceSeenDone, OnceInv, onceVars, Goto, Return
<1>10. CASE OnceLoad(t)
  BY <1>1, <1>2, <1>3, <1>4, <1>10, Zenon DEF OnceLoad, OnceInv, onceVars, Goto
<1>11. CASE OncePark(t)
  BY <1>1, <1>2, <1>3, <1>4, <1>11, Zenon DEF OncePark, FutexWait, OnceInv, onceVars, Goto
<1>12. CASE Woken(t) /\ pc[t] \in OncePcs
  BY <1>1, <1>2, <1>3, <1>4, <1>12, Zenon DEF Woken, RetryAt, ParkedAt, OncePcs, OnceInv, onceVars, Goto
<1> QED
  BY <1>5, <1>6, <1>7, <1>8, <1>9, <1>10, <1>11, <1>12, Zenon DEF OnceStep

(***************************************************************************)
(* The lifecycle: where its steps go.                                      *)
(***************************************************************************)
\* The places each call of the lifecycle may be at.
LEMMA LifePlaces ==
  ASSUME NEW t \in Thread
  PROVE  /\ \A l \in ExitPcs : At(t, l, ip[t])
         /\ ip[t] \in DOMAIN prog.code[t] =>
              /\ prog.code[t][ip[t]] \in NeedsReaper =>
                   \A l \in ReaperPcs \cup NotifyPcs : At(t, l, ip[t])
              /\ prog.code[t][ip[t]] \in {"create", "create_detached"} => At(t, "create_tid", ip[t])
              /\ prog.code[t][ip[t]] = "join" => \A l \in JoinPcs : At(t, l, ip[t])
<1> USE DEF At, CallPcs, OncePcs, BarrierPcs, LockPcs, LifePcs, ReaperPcs, NotifyPcs, JoinPcs, ExitPcs
<1>1. \A l \in ExitPcs : At(t, l, ip[t])
  BY SMTT(60)
<1>2. ASSUME ip[t] \in DOMAIN prog.code[t], prog.code[t][ip[t]] \in NeedsReaper
      PROVE  \A l \in ReaperPcs \cup NotifyPcs : At(t, l, ip[t])
  BY <1>2, SMTT(60)
<1>3. ASSUME ip[t] \in DOMAIN prog.code[t], prog.code[t][ip[t]] \in {"create", "create_detached"}
      PROVE  At(t, "create_tid", ip[t])
  BY <1>3, SMTT(60)
<1>4. ASSUME ip[t] \in DOMAIN prog.code[t], prog.code[t][ip[t]] = "join"
      PROVE  \A l \in JoinPcs : At(t, l, ip[t])
  BY <1>4, SMTT(60)
<1> QED
  BY <1>1, <1>2, <1>3, <1>4, Zenon

\* The steps of the lifecycle but pthread_create's, which also moves the new thread.
Moves(t) ==
  \/ NoSuchThread(t) \/ EnsureReaper(t) \/ BuildReaper(t) \/ PublishReaper(t) \/ CreateTid(t)
  \/ NotifyQueue(t) \/ NotifyPush(t) \/ NotifyBump(t) \/ NotifyWake(t)
  \/ Exit(t) \/ ExitLoad(t) \/ Complete(t)
  \/ Join(t) \/ Detach(t) \/ JoinTest(t) \/ JoinWoken(t) \/ JoinReclaim(t)

\* Where t's step of the lifecycle may lead within its call.
LifeExits(t) == {l \in LifePcs \cup ExitPcs : At(t, l, ip[t])}

LifeFrom(t) == pc[t] \in LifePcs \cup ExitPcs \/ Running(t, LifeCall) \/ Done(t)

\* A thread's call of the lifecycle moves within its own places.
LEMMA LifeGoes ==
  ASSUME Ctl, NEW t \in Thread, Moves(t)
  PROVE  /\ Goes(t, LifeExits(t)) /\ LifeFrom(t)
         /\ UNCHANGED ip \/ (ip[t] \in DOMAIN prog.code[t] /\ prog.code[t][ip[t]] \in LifeCall)
<1>1. /\ \A l \in ExitPcs : l \in LifeExits(t)
      /\ ip[t] \in DOMAIN prog.code[t] =>
           /\ prog.code[t][ip[t]] \in NeedsReaper =>
                \A l \in ReaperPcs \cup NotifyPcs : l \in LifeExits(t)
           /\ prog.code[t][ip[t]] = "join" => \A l \in JoinPcs : l \in LifeExits(t)
  BY LifePlaces, Zenon DEF LifeExits, LifePcs
<1>2. /\ pc[t] \in ReaperPcs \cup NotifyPcs =>
           ip[t] \in DOMAIN prog.code[t] /\ prog.code[t][ip[t]] \in NeedsReaper
      /\ pc[t] = "create_tid" =>
           ip[t] \in DOMAIN prog.code[t] /\ prog.code[t][ip[t]] \in {"create", "create_detached"}
      /\ pc[t] \in JoinPcs => ip[t] \in DOMAIN prog.code[t] /\ prog.code[t][ip[t]] = "join"
  BY Zenon DEF Ctl, At, CallPcs, LifePcs
<1>3. LifeFrom(t)
  <2> USE DEF LifeFrom, LifePcs, ExitPcs, ReaperPcs, NotifyPcs, JoinPcs, Running, LifeCall, NeedsReaper
  <2>1. CASE NoSuchThread(t) \/ EnsureReaper(t) \/ BuildReaper(t) \/ PublishReaper(t)
    BY <2>1, Zenon DEF NoSuchThread, EnsureReaper, BuildReaper, PublishReaper
  <2>2. CASE CreateTid(t) \/ NotifyQueue(t) \/ NotifyPush(t) \/ NotifyBump(t) \/ NotifyWake(t)
    BY <2>2, Zenon DEF CreateTid, NotifyQueue, NotifyPush, NotifyBump, NotifyWake
  <2>3. CASE Exit(t) \/ ExitLoad(t) \/ Complete(t)
    BY <2>3, Zenon DEF Exit, ExitLoad, Complete
  <2>4. CASE Join(t) \/ Detach(t) \/ JoinTest(t) \/ JoinWoken(t) \/ JoinReclaim(t)
    BY <2>4, Zenon DEF Join, Detach, JoinTest, JoinWoken, JoinReclaim
  <2> QED
    BY <2>1, <2>2, <2>3, <2>4, Zenon DEF Moves
<1>4. Goes(t, LifeExits(t))
  <2> USE <1>1, <1>2 DEF Goes, Touch
  <2>1. CASE NoSuchThread(t)
    BY <2>1, Zenon DEF NoSuchThread
  <2>2. CASE EnsureReaper(t)
    BY <2>2, Zenon DEF EnsureReaper, Running, ReaperPcs
  <2>3. CASE BuildReaper(t) \/ PublishReaper(t)
    BY <2>3, Zenon DEF BuildReaper, PublishReaper, ReaperPcs
  <2>4. CASE CreateTid(t)
    BY <2>4, Zenon DEF CreateTid, NotifyPcs, NeedsReaper
  <2>5. CASE NotifyQueue(t)
    BY <2>5, Zenon DEF NotifyQueue, NotifyPcs, ExitPcs
  <2>6. CASE NotifyPush(t)
    BY <2>6, Zenon DEF NotifyPush, NotifyPcs, ExitPcs
  <2>7. CASE NotifyBump(t) \/ NotifyWake(t)
    BY <2>7, Zenon DEF NotifyBump, NotifyWake, NotifyPcs, ExitPcs
  <2>8. CASE Exit(t) \/ ExitLoad(t) \/ Complete(t)
    BY <2>8, Zenon DEF Exit, ExitLoad, Complete, ExitPcs
  <2>9. CASE Join(t)
    BY <2>9, Zenon DEF Join, Claim, Running, JoinPcs
  <2>10. CASE Detach(t)
    BY <2>10, Zenon DEF Detach, Claim, NotifyPcs, ReaperPcs
  <2>11. CASE JoinTest(t) \/ JoinWoken(t) \/ JoinReclaim(t)
    BY <2>11, Zenon DEF JoinTest, JoinWoken, JoinReclaim, JoinPcs
  <2> QED
    BY <2>1, <2>2, <2>3, <2>4, <2>5, <2>6, <2>7, <2>8, <2>9, <2>10, <2>11, Zenon DEF Moves
<1>5. UNCHANGED ip \/ (ip[t] \in DOMAIN prog.code[t] /\ prog.code[t][ip[t]] \in LifeCall)
  <2>1. CASE pc[t] \in LifePcs \/ Running(t, LifeCall)
    BY <1>2, <2>1, Zenon DEF LifePcs, Running, LifeCall, NeedsReaper
  <2>2. CASE pc[t] \in ExitPcs \/ Done(t)
    <3> USE DEF Touch
    <3>1. CASE NotifyQueue(t) \/ NotifyPush(t)
      BY <3>1, Zenon DEF NotifyQueue, NotifyPush, Goto
    <3>2. CASE NotifyBump(t) \/ NotifyWake(t)
      BY <2>2, <3>2, Zenon DEF NotifyBump, NotifyWake, Goto, ExitPcs, Done
    <3>3. CASE Exit(t) \/ ExitLoad(t) \/ Complete(t)
      BY <3>3, Zenon DEF Exit, ExitLoad, Complete, Goto
    <3>4. CASE NoSuchThread(t) \/ EnsureReaper(t) \/ Join(t)
      BY <2>2, <3>4, Zenon DEF NoSuchThread, EnsureReaper, Join, Running, ExitPcs, Done
    <3>5. CASE BuildReaper(t) \/ PublishReaper(t) \/ CreateTid(t) \/ Detach(t) \/ JoinTest(t)
               \/ JoinWoken(t) \/ JoinReclaim(t)
      BY <2>2, <3>5, Zenon DEF BuildReaper, PublishReaper, CreateTid, Detach, JoinTest, JoinWoken,
                        JoinReclaim, ExitPcs, Done
    <3> QED
      BY <3>1, <3>2, <3>3, <3>4, <3>5, Zenon DEF Moves
  <2> QED
    BY <1>3, <2>1, <2>2, Zenon DEF LifeFrom
<1> QED
  BY <1>3, <1>4, <1>5, Zenon

\* The thread a call names is not there from the start, unless it is the caller.
LEMMA TargetFacts ==
  ASSUME Ctl, NEW t \in Thread
  PROVE  /\ (ip[t] \in DOMAIN prog.code[t] /\ prog.code[t][ip[t]] \in LifeCall)
              \/ pc[t] \in LifePcs \/ pc[t] = "nf_exit"
                => Target(t) \in Thread
         /\ pc[t] # "nf_exit" /\ ip[t] \in DOMAIN prog.code[t]
              /\ prog.code[t][ip[t]] \in LifeCall \ {"detach_self"}
                => Target(t) \in Thread \ (prog.born \cup {t})
<1>1. pc[t] \in LifePcs => ip[t] \in DOMAIN prog.code[t] /\ prog.code[t][ip[t]] \in LifeCall
  BY Zenon DEF Ctl, At, CallPcs, LifePcs, NeedsReaper, LifeCall
<1>2. \A i \in DOMAIN prog.code[t] : prog.code[t][i] \in LifeCall \ {"detach_self"}
        => prog.whom[t] \in Thread \ (prog.born \cup {t})
  BY ProgramsAssumption, Zenon DEF Ctl
<1> QED
  BY <1>1, <1>2, Zenon DEF Target

\* pthread_create starts a thread that was not there.
LEMMA CreateGoes ==
  ASSUME Ctl, NEW t \in Thread, Create(t)
  PROVE  /\ Running(t, LifeCall) \/ pc[t] = "er_done"
         /\ ip[t] \in DOMAIN prog.code[t] /\ prog.code[t][ip[t]] \in {"create", "create_detached"}
         /\ Target(t) \in Thread \ (prog.born \cup {t}) /\ rec[Target(t)] = "none"
         /\ \/ Return(t) /\ UNCHANGED <<rec, lifecycle>>
            \/ /\ UNCHANGED ip /\ pc' \in [Thread -> Labels]
               /\ pc' = [pc EXCEPT ![Target(t)] = "idle", ![t] = "create_tid"]
               /\ At(t, "create_tid", ip[t])
<1>1. /\ Running(t, LifeCall) \/ pc[t] = "er_done"
      /\ ip[t] \in DOMAIN prog.code[t] /\ prog.code[t][ip[t]] \in {"create", "create_detached"}
      /\ pc[t] # "nf_exit"
  <2>1. pc[t] = "er_done" => ip[t] \in DOMAIN prog.code[t]
    BY Zenon DEF Ctl, At, CallPcs, LifePcs, ReaperPcs
  <2> QED
    BY <2>1, Zenon DEF Create, Running, LifeCall
<1>2. Target(t) \in Thread \ (prog.born \cup {t})
  BY <1>1, TargetFacts, Zenon DEF LifeCall
<1>3. {"idle", "create_tid"} \subseteq Labels
  BY Zenon DEF Labels, CallPcs, LifePcs
<1> QED
  BY <1>1, <1>2, <1>3, LifePlaces, ZenonT(60) DEF Create, Ctl

(***************************************************************************)
(* The lifecycle: who may reclaim a record.                                *)
(***************************************************************************)
\* The thread has a record, or is the program's first, which has none to free.
Exists(u) == rec[u] # "none" \/ u \in prog.born

LifeTypes ==
  /\ rec \in [Thread -> {"none", "live", "freed"}]
  /\ lifecycle \in [Thread -> {"joinable", "joining", "detached"}]
  /\ complete \in [Thread -> BOOLEAN] /\ reap_queued \in [Thread -> BOOLEAN]
  /\ cwait \in [Thread -> SUBSET (Thread \cup {Reaper})]
  /\ frees \in [Thread -> Nat]
  /\ g_reaper_list \in Seq(Thread)
  /\ victim \in Thread \cup {None}

\* The fields of a record: a thread is complete only when it is gone, and freed
\* only when complete and no longer joinable.
RecordAt(u) ==
  /\ pc[u] = "unborn" \/ Exists(u)
  /\ pc[u] \in ExitPcs => rec[u] # "none"
  /\ complete[u] => pc[u] = "gone"
  /\ frees[u] = IF rec[u] = "freed" THEN 1 ELSE 0
  /\ rec[u] = "freed" => complete[u] /\ lifecycle[u] # "joinable"
  /\ reap_queued[u] => lifecycle[u] = "detached" /\ Exists(u)

\* What a call knows of the thread it names.
CallAt(t) ==
  /\ pc[t] \in ReaperPcs /\ prog.code[t][ip[t]] = "detach" => rec[Target(t)] # "none"
  /\ pc[t] = "create_tid" => /\ rec[Target(t)] # "none"
                             /\ prog.code[t][ip[t]] = "create_detached"
                                  => lifecycle[Target(t)] = "detached"
  /\ pc[t] \in {"nf_call", "nf_exit"} => lifecycle[Target(t)] = "detached" /\ Exists(Target(t))
  /\ pc[t] \in JoinPcs => lifecycle[Target(t)] = "joining" /\ rec[Target(t)] = "live"
  /\ pc[t] = "join_reclaim" => complete[Target(t)]

OneJoiner ==
  \A t, u \in Thread : pc[t] \in JoinPcs /\ pc[u] \in JoinPcs /\ Target(t) = Target(u) => t = u

\* The right to reclaim a detached record is held by the thread about to queue it,
\* by the list or by the reaper, and by one of them.
Pushes(t, u) == (pc[t] = "nf_push" /\ Target(t) = u) \/ (pc[t] = "nx_push" /\ t = u)
Reaps(u) == victim = u /\ rpc \in {"observe", "test", "cparked", "reclaim"}

TokenAt(u) ==
  /\ \A t \in Thread : Pushes(t, u) =>
       /\ reap_queued[u] /\ rec[u] # "freed"
       /\ u \notin Range(g_reaper_list) /\ ~Reaps(u)
       /\ \A v \in Thread : Pushes(v, u) => v = t
  /\ u \in Range(g_reaper_list) => reap_queued[u] /\ rec[u] # "freed" /\ ~Reaps(u)
  /\ Reaps(u) => reap_queued[u] /\ rec[u] # "freed"

TokenInv ==
  /\ \A i, j \in DOMAIN g_reaper_list : g_reaper_list[i] = g_reaper_list[j] => i = j
  /\ \A u \in Thread : TokenAt(u)
  /\ rpc \in {"test", "cparked", "reclaim"} => victim \in Thread
  /\ rpc = "reclaim" => complete[victim]

LifeInv ==
  /\ LifeTypes /\ OneJoiner /\ TokenInv
  /\ \A u \in Thread : RecordAt(u) /\ CallAt(u)

\* What a step of t does to the other threads' places.
Alone(t) ==
  \A u \in Thread \ {t} :
    ip'[u] = ip[u] /\ (pc'[u] = pc[u] \/ (pc[u] = "unborn" /\ pc'[u] = "idle"))

\* A step of the lifecycle keeps the places of the calls.
LEMMA LifeCtl ==
  ASSUME Ctl, LifeInv, NEW t \in Thread, LifeStep(t), UNCHANGED <<prog, reg>>
  PROVE  Ctl' /\ Alone(t) /\ \A u \in Thread : Elsewhere(u)
<1>1. pc \in [Thread -> Labels] /\ ip \in [Thread -> Nat] /\ \A u \in Thread : At(u, pc[u], ip[u])
  BY Zenon DEF Ctl
<1>2. (LifePcs \cup ExitPcs \cup {"idle", "unborn"}) \cap (OncePcs \cup BarrierPcs) = {}
  BY Zenon DEF LifePcs, ExitPcs, OncePcs, BarrierPcs, ReaperPcs, NotifyPcs, JoinPcs
<1>3. \A i : At(t, "idle", i)
  BY Zenon DEF At, CallPcs, OncePcs, BarrierPcs, LockPcs, LifePcs, ReaperPcs, NotifyPcs, JoinPcs
<1>4. pc[t] \in LifePcs => ip[t] \in DOMAIN prog.code[t] /\ prog.code[t][ip[t]] \in LifeCall
  BY <1>1, Zenon DEF At, CallPcs, LifePcs, NeedsReaper, LifeCall
<1>5. "once" \notin LifeCall /\ "barrier" \notin LifeCall
  BY Zenon DEF LifeCall
<1>6. CASE Moves(t)
  <2>1. /\ Goes(t, LifeExits(t)) /\ LifeFrom(t)
        /\ UNCHANGED ip \/ (ip[t] \in DOMAIN prog.code[t] /\ prog.code[t][ip[t]] \in LifeCall)
    BY <1>6, LifeGoes, Zenon
  <2>2. LifeExits(t) \in SUBSET Labels /\ \A l \in LifeExits(t) : At(t, l, ip[t])
    BY Zenon DEF LifeExits, Labels, CallPcs
  <2>3. Ctl'
    BY <2>1, <2>2, GoesCtl, Zenon
  <2>4. \A u \in Thread \ {t} : pc'[u] = pc[u] /\ ip'[u] = ip[u]
    BY <1>1, <2>1, Zenon DEF Goes, Goto, Return
  <2>5. pc[t] \notin OncePcs \cup BarrierPcs
    BY <1>2, <2>1, Zenon DEF LifeFrom, Running, Done
  <2>6. pc'[t] \notin OncePcs \cup BarrierPcs
    BY <1>1, <1>2, <2>1, <2>5, Zenon DEF Goes, Goto, Return, LifeExits
  <2>7. Elsewhere(t)
    <3>1. CASE UNCHANGED ip
      BY <2>5, <2>6, <3>1, Zenon DEF Elsewhere
    <3>2. CASE Return(t) /\ ip[t] \in DOMAIN prog.code[t] /\ prog.code[t][ip[t]] \in LifeCall
      BY <1>1, <1>5, <2>5, <2>6, <3>2, Zenon DEF Elsewhere, Return
    <3> QED
      BY <2>1, <3>1, <3>2, Zenon DEF Goes, Goto
  <2>8. \A u \in Thread \ {t} : Elsewhere(u)
    BY <2>4, Zenon DEF Elsewhere
  <2> QED
    BY <2>3, <2>4, <2>7, <2>8, Zenon DEF Alone
<1>7. CASE Create(t)
  <2>1. /\ Running(t, LifeCall) \/ pc[t] = "er_done"
        /\ ip[t] \in DOMAIN prog.code[t] /\ prog.code[t][ip[t]] \in {"create", "create_detached"}
        /\ Target(t) \in Thread \ (prog.born \cup {t}) /\ rec[Target(t)] = "none"
        /\ \/ Return(t)
           \/ /\ UNCHANGED ip /\ pc' \in [Thread -> Labels]
              /\ pc' = [pc EXCEPT ![Target(t)] = "idle", ![t] = "create_tid"]
              /\ At(t, "create_tid", ip[t])
    BY <1>7, CreateGoes, Zenon
  <2>2. pc[Target(t)] = "unborn"
    BY <2>1, Zenon DEF LifeInv, RecordAt, Exists
  <2>3. pc[t] \notin OncePcs \cup BarrierPcs
    BY <1>2, <2>1, Zenon DEF Running, LifePcs, ReaperPcs
  <2>4. CASE Return(t)
    <3>1. Ctl'
      <4>1. Goes(t, {})
        BY <2>4, Zenon DEF Goes
      <4>2. {} \in SUBSET Labels /\ \A l \in {} : At(t, l, ip[t])
        BY Zenon
      <4> QED
        BY <4>1, <4>2, GoesCtl, Zenon
    <3>2. \A u \in Thread \ {t} : pc'[u] = pc[u] /\ ip'[u] = ip[u]
      BY <1>1, <2>4, Zenon DEF Return
    <3>3. pc'[t] = "idle" /\ ip'[t] = ip[t] + 1
      BY <1>1, <2>4, Zenon DEF Return
    <3>4. prog.code[t][ip[t]] \notin {"once", "barrier"}
      BY <2>1, Zenon
    <3>5. Elsewhere(t)
      BY <1>2, <2>1, <2>3, <3>3, <3>4, Zenon DEF Elsewhere
    <3>6. \A u \in Thread \ {t} : Elsewhere(u)
      BY <3>2, Zenon DEF Elsewhere
    <3> QED
      BY <3>1, <3>2, <3>5, <3>6, Zenon DEF Alone
  <2>5. CASE /\ UNCHANGED ip /\ pc' \in [Thread -> Labels]
             /\ pc' = [pc EXCEPT ![Target(t)] = "idle", ![t] = "create_tid"]
             /\ At(t, "create_tid", ip[t])
    <3>1. /\ pc'[t] = "create_tid" /\ pc'[Target(t)] = "idle"
          /\ \A u \in Thread \ {t, Target(t)} : pc'[u] = pc[u]
      BY <1>1, <2>1, <2>5, Zenon
    <3>2. Alone(t)
      BY <2>2, <2>5, <3>1, Zenon DEF Alone
    <3>3. At(Target(t), "idle", ip[Target(t)])
      BY Zenon DEF At, CallPcs, OncePcs, BarrierPcs, LockPcs, LifePcs, ReaperPcs, NotifyPcs, JoinPcs
    <3>4. \A u \in Thread : At(u, pc'[u], ip[u])
      BY <1>1, <2>5, <3>1, <3>3, Zenon
    <3>5. Ctl'
      BY <2>5, <3>4, Zenon DEF Ctl, At
    <3>6. ASSUME NEW u \in Thread PROVE Elsewhere(u)
      <4>1. "create_tid" \in LifePcs
        BY Zenon DEF LifePcs
      <4>2. CASE u = t
        BY <1>2, <2>3, <2>5, <3>1, <4>1, <4>2, Zenon DEF Elsewhere
      <4>3. CASE u = Target(t)
        BY <1>2, <2>2, <2>5, <3>1, <4>3, Zenon DEF Elsewhere
      <4>4. CASE u \notin {t, Target(t)}
        BY <2>5, <3>1, <4>4, Zenon DEF Elsewhere
      <4> QED
        BY <4>2, <4>3, <4>4, Zenon
    <3> QED
      BY <3>2, <3>5, <3>6, Zenon
  <2> QED
    BY <2>1, <2>4, <2>5, Zenon
<1> QED
  BY <1>6, <1>7, Zenon DEF LifeStep, Moves

\* Only t moves.
Only(t) == \A u \in Thread \ {t} : pc'[u] = pc[u] /\ ip'[u] = ip[u]

\* A call goes on naming the thread it names.
LEMMA TargetSame ==
  ASSUME UNCHANGED prog, NEW u, ip'[u] = ip[u], (pc'[u] = "nf_exit") <=> (pc[u] = "nf_exit")
  PROVE  Target(u)' = Target(u)
BY Zenon DEF Target

\* What a step may do to a record that others rely on.
Grows(u) ==
  /\ rec[u] # "none" => rec'[u] # "none"
  /\ lifecycle[u] # "joinable" /\ Exists(u) => lifecycle'[u] = lifecycle[u]
  /\ complete[u] => complete'[u]

\* A thread that does not move keeps what it knows.
LEMMA OthersKept ==
  ASSUME Ctl, LifeInv, UNCHANGED prog, NEW u \in Thread, ip'[u] = ip[u],
         pc'[u] = pc[u] \/ (pc[u] = "unborn" /\ pc'[u] = "idle"),
         \A w \in Thread : Grows(w),
         pc[u] \in JoinPcs => rec'[Target(u)] = rec[Target(u)]
  PROVE  CallAt(u)' /\ \A w \in Thread : Pushes(u, w)' <=> Pushes(u, w)
<1>1. CASE pc'[u] = pc[u]
  <2>1. Target(u)' = Target(u)
    BY <1>1, TargetSame, Zenon
  <2>2. \A w \in Thread : Pushes(u, w)' <=> Pushes(u, w)
    BY <1>1, <2>1, Zenon DEF Pushes
  <2>3. pc[u] \in LifePcs \cup {"nf_exit"} => Target(u) \in Thread /\ Grows(Target(u))
    BY TargetFacts, Zenon
  <2>4. CallAt(u)
    BY Zenon DEF LifeInv
  <2>5. CallAt(u)'
    <3>1. CASE pc[u] \in LifePcs \cup {"nf_exit"}
      <4>1. Exists(Target(u)) => Exists(Target(u))'
        BY <2>1, <2>3, <3>1, Zenon DEF Exists, Grows
      <4>2. rec[Target(u)] # "none" => Exists(Target(u))
        BY Zenon DEF Exists
      <4>3. rec[Target(u)] = "live" => rec[Target(u)] # "none"
        BY Zenon
      <4>4. lifecycle[Target(u)] \in {"joining", "detached"} => lifecycle[Target(u)] # "joinable"
        BY Zenon
      <4> QED
        BY <1>1, <2>1, <2>3, <2>4, <3>1, <4>1, <4>2, <4>3, <4>4, Zenon DEF CallAt, Grows
    <3>2. CASE pc[u] \notin LifePcs \cup {"nf_exit"}
      <4>1. pc'[u] \notin ReaperPcs \cup {"create_tid", "nf_call", "nf_exit"} \cup JoinPcs
            /\ pc'[u] # "join_reclaim"
        BY <1>1, <3>2, Zenon DEF LifePcs, NotifyPcs, JoinPcs
      <4> QED
        BY <4>1, Zenon DEF CallAt
    <3> QED
      BY <3>1, <3>2, Zenon
  <2> QED
    BY <2>2, <2>5, Zenon
<1>2. CASE pc[u] = "unborn" /\ pc'[u] = "idle"
  BY <1>2, Zenon DEF CallAt, Pushes, ReaperPcs, JoinPcs
<1> QED
  BY <1>1, <1>2, Zenon

\* A place where nothing is claimed of the thread named.
LEMMA NothingKnown ==
  ASSUME NEW t, pc'[t] \notin ReaperPcs \cup {"create_tid", "nf_call", "nf_exit"} \cup JoinPcs
  PROVE  CallAt(t)'
<1>1. "join_reclaim" \in JoinPcs
  BY Zenon DEF JoinPcs
<1> QED
  BY <1>1, Zenon DEF CallAt

\* No step but pthread_join's makes another joiner.
LEMMA JoinersKept ==
  ASSUME Ctl, LifeInv, UNCHANGED prog, NEW t \in Thread, Alone(t),
         pc'[t] \in JoinPcs => pc[t] \in JoinPcs /\ ip'[t] = ip[t]
  PROVE  OneJoiner'
<1>1. "idle" \notin JoinPcs /\ "nf_exit" \notin JoinPcs
  BY Zenon DEF JoinPcs
<1>2. ASSUME NEW u \in Thread, pc'[u] \in JoinPcs
      PROVE  pc[u] \in JoinPcs /\ Target(u)' = Target(u)
  <2>1. pc[u] \in JoinPcs /\ ip'[u] = ip[u]
    BY <1>1, <1>2, Zenon DEF Alone
  <2> QED
    BY <1>1, <1>2, <2>1, TargetSame, Zenon
<1> QED
  BY <1>2, Zenon DEF LifeInv, OneJoiner

\* A step that hands over no right to reclaim keeps TokenInv.
LEMMA TokenKept ==
  ASSUME TokenInv, UNCHANGED <<reap_queued, g_reaper_list, victim>>,
         \A u \in Thread : rec'[u] = "freed" => rec[u] = "freed",
         \A u \in Thread : complete[u] => complete'[u],
         \A u, w \in Thread : Pushes(u, w)' => Pushes(u, w),
         rpc' = rpc \/ rpc' \in {"scan", "parked", "wait"}
  PROVE  TokenInv'
<1>1. ASSUME NEW u \in Thread PROVE Reaps(u)' => Reaps(u)
  BY Zenon DEF Reaps
<1>2. /\ rpc' \in {"test", "cparked", "reclaim"} => rpc' = rpc
      /\ rpc' = "reclaim" => rpc' = rpc /\ rpc \in {"test", "cparked", "reclaim"}
  BY Zenon
<1>3. ASSUME NEW u \in Thread PROVE TokenAt(u)'
  <2>1. TokenAt(u)
    BY Zenon DEF TokenInv
  <2> QED
    BY <1>1, <2>1, Zenon DEF TokenAt
<1> QED
  BY <1>2, <1>3, Zenon DEF TokenInv

\* A step of t that frees nothing, completes nothing and queues nothing.
LEMMA QuietStep ==
  ASSUME Ctl, LifeInv, UNCHANGED prog, NEW t \in Thread, Only(t), LifeTypes',
         UNCHANGED <<rec, complete, reap_queued, frees, g_reaper_list, victim>>,
         rpc' = rpc \/ rpc' = "scan",
         \A u \in Thread : lifecycle[u] # "joinable" => lifecycle'[u] = lifecycle[u],
         pc[t] \notin {"unborn", "gone"},
         pc'[t] \notin {"unborn", "nf_push", "nx_push"},
         pc'[t] \in ExitPcs => rec[t] # "none",
         CallAt(t)', OneJoiner'
  PROVE  LifeInv'
<1>1. \A u \in Thread : Grows(u)
  BY Zenon DEF Grows
<1>2. ASSUME NEW u \in Thread \ {t}
      PROVE  CallAt(u)' /\ \A w \in Thread : Pushes(u, w)' <=> Pushes(u, w)
  BY <1>1, OthersKept, Zenon DEF Only
<1>3. \A u, w \in Thread : Pushes(u, w)' => Pushes(u, w)
  <2>1. \A w \in Thread : ~Pushes(t, w)'
    BY Zenon DEF Pushes
  <2> QED
    BY <1>2, <2>1, Zenon
<1>4. TokenInv'
  BY <1>3, TokenKept, Zenon DEF LifeInv
<1>5. ASSUME NEW u \in Thread PROVE RecordAt(u)'
  <2>1. RecordAt(u) /\ (Exists(u)' <=> Exists(u))
    BY Zenon DEF LifeInv, Exists
  <2>2. "detached" # "joinable"
    BY Zenon
  <2>3. CASE u # t
    BY <2>1, <2>2, <2>3, Zenon DEF RecordAt, Only
  <2>4. CASE u = t
    BY <2>1, <2>2, <2>4, Zenon DEF RecordAt
  <2> QED
    BY <2>3, <2>4, Zenon
<1> QED
  BY <1>2, <1>4, <1>5, Zenon DEF LifeInv

\* A step that changes nothing of the lifecycle, or faults.
LEMMA LifeSame ==
  ASSUME LifeInv, UNCHANGED <<prog, pc, ip, recVars, reaperVars>>
  PROVE  LifeInv'
<1>1. /\ UNCHANGED <<prog, pc, ip, rec, lifecycle, complete, reap_queued, cwait, frees>>
      /\ UNCHANGED <<g_reaper_list, rpc, victim>>
  BY Zenon DEF recVars, reaperVars
<1>2. LifeTypes' /\ OneJoiner'
  BY <1>1, Zenon DEF LifeInv, LifeTypes, OneJoiner, Target
<1>3. \A u \in Thread : Target(u)' = Target(u)
  BY <1>1, Zenon DEF Target
<1>4. TokenInv'
  <2>1. \A u, w \in Thread : Pushes(u, w)' => Pushes(u, w)
    BY <1>1, <1>3, Zenon DEF Pushes
  <2> QED
    BY <1>1, <2>1, TokenKept, Zenon DEF LifeInv
<1>5. ASSUME NEW u \in Thread PROVE RecordAt(u)' /\ CallAt(u)'
  <2>1. RecordAt(u) /\ CallAt(u) /\ Target(u)' = Target(u)
    BY <1>3, Zenon DEF LifeInv
  <2>2. RecordAt(u)'
    BY <1>1, <2>1, Zenon DEF RecordAt, Exists
  <2>3. CallAt(u)'
    BY <1>1, <2>1, Zenon DEF CallAt, Exists
  <2> QED
    BY <2>2, <2>3, Zenon
<1> QED
  BY <1>2, <1>4, <1>5, Zenon DEF LifeInv

\* The other calls of a thread leave the lifecycle alone.
LEMMA LifeAside ==
  ASSUME Ctl, LifeInv, UNCHANGED <<prog, lifeVars>>, NEW t \in Thread, Only(t),
         pc[t] \notin LifePcs \cup ExitPcs \cup {"unborn"},
         pc'[t] \notin LifePcs \cup ExitPcs \cup {"unborn"}
  PROVE  LifeInv'
<1>1. /\ UNCHANGED <<rec, lifecycle, complete, reap_queued, frees, g_reaper_list, victim, rpc>>
      /\ LifeTypes'
  BY Zenon DEF lifeVars, LifeInv, LifeTypes
<1>2. /\ pc'[t] \notin ReaperPcs \cup {"create_tid", "nf_call", "nf_exit"} \cup JoinPcs
      /\ pc'[t] \notin {"unborn", "nf_push", "nx_push"} /\ pc[t] \notin {"unborn", "gone"}
  BY Zenon DEF LifePcs, ExitPcs, NotifyPcs
<1>3. CallAt(t)'
  BY <1>2, NothingKnown, Zenon
<1>4. OneJoiner'
  BY <1>2, JoinersKept, Zenon DEF Only, Alone
<1> QED
  BY <1>1, <1>2, <1>3, <1>4, QuietStep, Zenon

\* The other threads stay where they are.
LEMMA OnlyMoves ==
  ASSUME Ctl, NEW t \in Thread, Moves(t)
  PROVE  Only(t) /\ Alone(t)
<1>1. Goes(t, LifeExits(t))
  BY LifeGoes, Zenon
<1>2. Only(t)
  BY <1>1, Zenon DEF Only, Goes, Goto, Return, Ctl
<1> QED
  BY <1>2, Zenon DEF Only, Alone

\* Places where a call knows nothing of the thread it names.
Nowhere == {"idle", "nf_bump", "nf_wake", "nx_bump", "nx_wake", "exit_load", "exit_kernel"}

\* A quiet step to such a place.
LEMMA QuietEnd ==
  ASSUME Ctl, LifeInv, UNCHANGED prog, NEW t \in Thread, Moves(t),
         UNCHANGED <<rec, lifecycle, complete, reap_queued, cwait, frees, g_reaper_list, victim>>,
         rpc' = rpc \/ rpc' = "scan", NEW l \in Nowhere, pc' = [pc EXCEPT ![t] = l],
         pc[t] \notin {"unborn", "gone"}, pc'[t] \in ExitPcs => rec[t] # "none"
  PROVE  LifeInv'
<1>1. pc'[t] = l /\ Only(t) /\ Alone(t)
  BY OnlyMoves, Zenon DEF Ctl
<1>2. /\ l \notin ReaperPcs \cup {"create_tid", "nf_call", "nf_exit"} \cup JoinPcs
      /\ l \notin {"unborn", "nf_push", "nx_push"}
  BY Zenon DEF Nowhere, ReaperPcs, JoinPcs
<1>3. CallAt(t)' /\ OneJoiner'
  BY <1>1, <1>2, NothingKnown, JoinersKept, Zenon
<1>4. LifeTypes'
  BY Zenon DEF LifeInv, LifeTypes
<1> QED
  BY <1>1, <1>2, <1>3, <1>4, QuietStep, Zenon

\* Steps that leave the records as they are, and where the call goes on.
LEMMA PlainSteps ==
  ASSUME Ctl, LifeInv, UNCHANGED prog, NEW t \in Thread,
         \/ NoSuchThread(t) \/ EnsureReaper(t) \/ BuildReaper(t) \/ PublishReaper(t)
         \/ NotifyBump(t) \/ NotifyWake(t) \/ Exit(t) \/ ExitLoad(t)
  PROVE  LifeInv'
<1>1. Moves(t) /\ Only(t) /\ Alone(t)
  BY OnlyMoves, Zenon DEF Moves
<1>2. /\ pc \in [Thread -> Labels] /\ CallAt(t) /\ RecordAt(t) /\ LifeTypes
      /\ "idle" \in Nowhere
  BY Zenon DEF Ctl, LifeInv, Nowhere
<1> DEFINE Same == UNCHANGED <<rec, lifecycle, complete, reap_queued, cwait, frees,
                               g_reaper_list, victim>>
<1>3. Same
  BY Zenon DEF NoSuchThread, EnsureReaper, BuildReaper, PublishReaper, NotifyBump, NotifyWake, Exit,
               ExitLoad, recVars, reaperVars
<1>4. LifeTypes'
  BY <1>3, Zenon DEF LifeInv, LifeTypes
<1>5. ASSUME Return(t), pc[t] \notin {"unborn", "gone"}, rpc' = rpc \/ rpc' = "scan"
      PROVE  LifeInv'
  <2>1. pc'[t] = "idle" /\ "idle" \notin ExitPcs /\ pc' = [pc EXCEPT ![t] = "idle"]
    BY <1>2, <1>5, Zenon DEF Return, ExitPcs
  <2> QED
    BY <1>1, <1>2, <1>3, <1>5, <2>1, QuietEnd, Zenon
<1>6. ASSUME NEW l \in ReaperPcs, Goto(t, l), rpc' = rpc \/ rpc' = "scan",
             pc[t] \in ReaperPcs \/ Running(t, NeedsReaper),
             prog.code[t][ip[t]] = "detach" => rec[Target(t)] # "none"
      PROVE  LifeInv'
  <2>1. pc'[t] = l /\ ip'[t] = ip[t]
    BY <1>2, <1>6, Zenon DEF Goto
  <2>2. /\ l \notin {"create_tid", "nf_call", "nf_exit", "join_reclaim"} \cup JoinPcs
        /\ l \notin {"unborn", "nf_push", "nx_push"} /\ l \notin ExitPcs
        /\ pc[t] # "nf_exit" /\ pc[t] \notin {"unborn", "gone"}
    BY <1>6, Zenon DEF ReaperPcs, JoinPcs, ExitPcs, Running
  <2>3. Target(t)' = Target(t)
    BY <2>1, <2>2, TargetSame, Zenon
  <2>4. CallAt(t)'
    BY <1>3, <1>6, <2>1, <2>2, <2>3, Zenon DEF CallAt
  <2>5. OneJoiner'
    BY <1>1, <2>1, <2>2, JoinersKept, Zenon
  <2> QED
    BY <1>1, <1>3, <1>4, <1>6, <2>1, <2>2, <2>4, <2>5, QuietStep, Zenon
<1>7. CASE NoSuchThread(t)
  BY <1>5, <1>7, Zenon DEF NoSuchThread, Running, reaperVars
<1>8. CASE EnsureReaper(t)
  <2>1. Running(t, NeedsReaper) /\ UNCHANGED rpc /\ pc[t] = "idle"
        /\ (prog.code[t][ip[t]] = "detach" => rec[Target(t)] # "none")
    BY <1>8, Zenon DEF EnsureReaper, Running
  <2>2. Goto(t, "er_build") \/ Goto(t, "er_done") \/ Return(t)
    BY <1>8, Zenon DEF EnsureReaper
  <2>3. "er_build" \in ReaperPcs /\ "er_done" \in ReaperPcs /\ "idle" \notin {"unborn", "gone"}
    BY Zenon DEF ReaperPcs
  <2> QED
    BY <1>5, <1>6, <2>1, <2>2, <2>3, Zenon
<1>9. CASE BuildReaper(t) \/ PublishReaper(t)
  <2>1. pc[t] \in ReaperPcs /\ (prog.code[t][ip[t]] = "detach" => rec[Target(t)] # "none")
    BY <1>2, <1>9, Zenon DEF CallAt, ReaperPcs, BuildReaper, PublishReaper
  <2>2. (Goto(t, "er_publish") \/ Goto(t, "er_done") \/ Return(t)) /\ (rpc' = rpc \/ rpc' = "scan")
    BY <1>9, Zenon DEF BuildReaper, PublishReaper
  <2>3. "er_publish" \in ReaperPcs /\ "er_done" \in ReaperPcs /\ pc[t] \notin {"unborn", "gone"}
    BY <2>1, Zenon DEF ReaperPcs
  <2> QED
    BY <1>5, <1>6, <2>1, <2>2, <2>3, Zenon
<1>10. CASE NotifyBump(t) \/ NotifyWake(t)
  <2>1. /\ pc[t] \in {"nf_bump", "nx_bump", "nf_wake", "nx_wake"} /\ (rpc' = rpc \/ rpc' = "scan")
        /\ \/ Goto(t, "nf_wake") /\ pc[t] \in {"nf_bump", "nf_wake"}
           \/ (Goto(t, "nx_wake") \/ Goto(t, "exit_kernel")) /\ pc[t] \in ExitPcs
           \/ Return(t)
    BY <1>10, Zenon DEF NotifyBump, NotifyWake, ExitPcs
  <2>2. pc[t] \notin {"unborn", "gone"}
    BY <2>1, Zenon
  <2>3. {"nf_wake", "nx_wake", "exit_kernel"} \subseteq Nowhere /\ "nf_wake" \notin ExitPcs
    BY Zenon DEF Nowhere, ExitPcs
  <2>4. pc[t] \in ExitPcs => rec[t] # "none"
    BY <1>2, Zenon DEF RecordAt
  <2>5. \A l : Goto(t, l) => pc'[t] = l /\ pc' = [pc EXCEPT ![t] = l]
    BY <1>2, Zenon DEF Goto
  <2>6. CASE Goto(t, "nf_wake")
    BY <1>1, <1>3, <2>1, <2>2, <2>3, <2>5, <2>6, QuietEnd, Zenon
  <2>7. CASE (Goto(t, "nx_wake") \/ Goto(t, "exit_kernel")) /\ pc[t] \in ExitPcs
    BY <1>1, <1>3, <2>1, <2>2, <2>3, <2>4, <2>5, <2>7, QuietEnd, Zenon
  <2> QED
    BY <1>5, <2>1, <2>2, <2>6, <2>7, Zenon
<1>11. CASE Exit(t)
  <2>1. /\ pc[t] = "idle" /\ rec[t] # "none" /\ UNCHANGED rpc
        /\ pc' = [pc EXCEPT ![t] = "exit_load"]
    BY <1>11, Zenon DEF Exit, Done, Goto, reaperVars
  <2>2. "exit_load" \in Nowhere /\ pc[t] \notin {"unborn", "gone"}
    BY <2>1, Zenon DEF Nowhere
  <2> QED
    BY <1>1, <1>3, <2>1, <2>2, QuietEnd, Zenon
<1>12. CASE ExitLoad(t)
  <2>1. pc[t] = "exit_load" /\ UNCHANGED rpc /\ rec[t] # "none" /\ ip'[t] = ip[t]
    BY <1>2, <1>12, Zenon DEF ExitLoad, Goto, reaperVars, RecordAt, ExitPcs
  <2>2. CASE pc' = [pc EXCEPT ![t] = "exit_kernel"]
    <3>1. "exit_kernel" \in Nowhere /\ pc[t] \notin {"unborn", "gone"}
      BY <2>1, Zenon DEF Nowhere
    <3> QED
      BY <1>1, <1>3, <2>1, <2>2, <3>1, QuietEnd, Zenon
  <2>3. CASE pc' = [pc EXCEPT ![t] = "nf_exit"] /\ lifecycle[t] = "detached"
    <3>1. pc'[t] = "nf_exit"
      BY <1>2, <2>3, Zenon
    <3>2. /\ "nf_exit" \notin ReaperPcs \cup {"create_tid", "join_reclaim"} \cup JoinPcs
          /\ "nf_exit" \notin {"unborn", "nf_push", "nx_push"} /\ pc[t] \notin {"unborn", "gone"}
      BY <2>1, Zenon DEF ReaperPcs, JoinPcs
    <3>3. Target(t)' = t
      BY <3>1, Zenon DEF Target
    <3>4. CallAt(t)'
      BY <1>3, <2>1, <2>3, <3>1, <3>2, <3>3, Zenon DEF CallAt, Exists
    <3>5. OneJoiner'
      BY <1>1, <3>1, <3>2, JoinersKept, Zenon
    <3> QED
      BY <1>1, <1>3, <1>4, <2>1, <3>1, <3>2, <3>4, <3>5, QuietStep, Zenon
  <2> QED
    BY <1>12, <2>2, <2>3, Zenon DEF ExitLoad, Goto
<1> QED
  BY <1>7, <1>8, <1>9, <1>10, <1>11, <1>12, Zenon

\* pthread_create's last store, pthread_detach's claim and pthread_join's, and the
\* joiner's wait for completion.
LEMMA ClaimSteps ==
  ASSUME Ctl, LifeInv, UNCHANGED prog, NEW t \in Thread,
         CreateTid(t) \/ Join(t) \/ Detach(t) \/ JoinTest(t) \/ JoinWoken(t)
  PROVE  LifeInv'
<1>1. Moves(t) /\ Only(t) /\ Alone(t)
  BY OnlyMoves, Zenon DEF Moves
<1>2. /\ pc \in [Thread -> Labels] /\ ip \in [Thread -> Nat]
      /\ CallAt(t) /\ RecordAt(t) /\ LifeTypes
  BY Zenon DEF Ctl, LifeInv
<1> DEFINE u == Target(t)
           Code == prog.code[t][ip[t]]
           Same == UNCHANGED <<rec, complete, reap_queued, frees, g_reaper_list, victim, rpc>>
<1>3. /\ pc[t] \in {"idle", "create_tid", "er_done"} \cup JoinPcs
      /\ pc[t] = "idle" \/ pc[t] \in LifePcs
      /\ ip[t] \in DOMAIN prog.code[t] /\ Code \in LifeCall
  <2>1. /\ pc[t] \in {"idle", "create_tid", "er_done"} \cup JoinPcs
        /\ pc[t] = "idle" \/ pc[t] \in LifePcs
        /\ pc[t] = "idle" => ip[t] \in DOMAIN prog.code[t] /\ Code \in LifeCall
    BY Zenon DEF CreateTid, Join, Detach, JoinTest, JoinWoken, Running, JoinPcs, LifePcs, ReaperPcs, LifeCall
  <2>2. pc[t] \in LifePcs => ip[t] \in DOMAIN prog.code[t] /\ Code \in LifeCall
    BY Zenon DEF Ctl, At, CallPcs, LifePcs, NeedsReaper, LifeCall
  <2> QED
    BY <2>1, <2>2, Zenon
<1>4. u \in Thread /\ pc[t] # "nf_exit" /\ pc[t] \notin {"unborn", "gone"}
  BY <1>3, TargetFacts, Zenon DEF JoinPcs
<1>5. \A l : Goto(t, l) => pc'[t] = l /\ ip'[t] = ip[t] /\ (l # "nf_exit" => Target(t)' = u)
  BY <1>2, <1>4, TargetSame, Zenon DEF Goto
<1>6. ASSUME Return(t), Same, UNCHANGED <<lifecycle, cwait>> PROVE LifeInv'
  <2>1. /\ pc'[t] = "idle" /\ "idle" \notin ExitPcs /\ pc' = [pc EXCEPT ![t] = "idle"]
        /\ "idle" \in Nowhere
    BY <1>2, <1>6, Zenon DEF Return, ExitPcs, Nowhere
  <2> QED
    BY <1>1, <1>2, <1>4, <1>6, <2>1, QuietEnd, Zenon
<1>7. ASSUME NEW l \in {"nf_call"} \cup JoinPcs, Goto(t, l), Same, LifeTypes',
             \A w \in Thread : lifecycle[w] # "joinable" => lifecycle'[w] = lifecycle[w],
             l = "nf_call" => lifecycle'[u] = "detached" /\ Exists(u),
             l \in JoinPcs => lifecycle'[u] = "joining" /\ rec[u] = "live",
             l \in JoinPcs => pc[t] \in JoinPcs \/ lifecycle[u] = "joinable",
             l = "join_reclaim" => complete[u]
      PROVE  LifeInv'
  <2>1. pc'[t] = l /\ ip'[t] = ip[t] /\ Target(t)' = u
    BY <1>5, <1>7, Zenon DEF JoinPcs
  <2>2. /\ l \notin ReaperPcs \cup {"create_tid", "nf_exit"} \cup ExitPcs
        /\ l \notin {"unborn", "nf_push", "nx_push"} /\ "nf_call" \notin JoinPcs
    BY <1>7, Zenon DEF JoinPcs, ReaperPcs, ExitPcs
  <2>3. CallAt(t)'
    <3>1. Exists(u) => Exists(Target(t))'
      BY <1>7, <2>1, Zenon DEF Exists
    <3>2. /\ l = "nf_call" => lifecycle'[Target(t)'] = "detached"
          /\ l \in JoinPcs => lifecycle'[Target(t)'] = "joining" /\ rec'[Target(t)'] = "live"
          /\ l = "join_reclaim" => complete'[Target(t)']
      BY <1>7, <2>1, Zenon
    <3> QED
      BY <1>7, <2>1, <2>2, <3>1, <3>2, Zenon DEF CallAt
  <2>4. OneJoiner'
    <3>1. CASE l \notin JoinPcs \/ pc[t] \in JoinPcs
      BY <1>1, <2>1, <3>1, JoinersKept, Zenon
    <3>2. CASE l \in JoinPcs /\ lifecycle[u] = "joinable"
      <4>1. ASSUME NEW v \in Thread \ {t}, pc'[v] \in JoinPcs
            PROVE  pc[v] \in JoinPcs /\ Target(v)' = Target(v) /\ Target(v) # u
        <5>1. pc'[v] = pc[v] /\ ip'[v] = ip[v]
          BY <1>1, <4>1, Zenon DEF Only
        <5>2. Target(v)' = Target(v)
          BY <5>1, TargetSame, Zenon
        <5>3. lifecycle[Target(v)] = "joining"
          BY <4>1, <5>1, Zenon DEF LifeInv, CallAt
        <5> QED
          BY <3>2, <4>1, <5>1, <5>2, <5>3, Zenon
      <4> QED
        BY <2>1, <4>1, Zenon DEF LifeInv, OneJoiner
    <3> QED
      BY <1>7, <3>1, <3>2, Zenon
  <2> QED
    BY <1>1, <1>4, <1>7, <2>1, <2>2, <2>3, <2>4, QuietStep, Zenon
<1>8. CASE UNCHANGED <<pc, ip, recVars, reaperVars>>
  BY <1>8, LifeSame, Zenon
<1>9. CASE CreateTid(t) /\ rec[u] # "freed"
  <2>1. /\ pc[t] = "create_tid" /\ Same /\ UNCHANGED <<lifecycle, cwait>>
        /\ \/ Return(t)
           \/ Goto(t, "nf_call") /\ Code # "create"
    BY <1>9, Zenon DEF CreateTid, Touch, recVars, reaperVars
  <2>2. Code \in {"create", "create_detached"}
    BY <2>1, Zenon DEF Ctl, At
  <2>3. CASE Goto(t, "nf_call") /\ Code # "create"
    <3>1. lifecycle[u] = "detached" /\ Exists(u)
      BY <1>2, <2>1, <2>2, <2>3, Zenon DEF CallAt, Exists
    <3>2. LifeTypes' /\ "nf_call" \notin JoinPcs /\ "nf_call" # "join_reclaim"
      BY <1>2, <2>1, Zenon DEF LifeTypes, JoinPcs
    <3> QED
      BY <1>7, <2>1, <2>3, <3>1, <3>2, Zenon
  <2> QED
    BY <1>6, <2>1, <2>3, Zenon
<1>10. CASE (Join(t) \/ Detach(t)) /\ rec[u] # "freed"
  <2>1. \/ Claim(t, "joining", "join_test") /\ rec[u] # "none" /\ Code = "join"
        \/ Claim(t, "detached", "nf_call") /\ pc[t] = "er_done" /\ Code \in {"detach", "detach_self"}
    BY <1>10, Zenon DEF Join, Detach, Running
  <2>2. PICK to, l : /\ Claim(t, to, l)
                     /\ \/ to = "joining" /\ l = "join_test" /\ rec[u] # "none"
                        \/ /\ to = "detached" /\ l = "nf_call" /\ pc[t] = "er_done"
                           /\ Code \in {"detach", "detach_self"}
    BY <2>1, Zenon
  <2>3. /\ Same /\ UNCHANGED cwait
        /\ IF lifecycle[u] = "joinable"
             THEN lifecycle' = [lifecycle EXCEPT ![u] = to] /\ Goto(t, l)
             ELSE UNCHANGED lifecycle /\ Return(t)
    BY <1>10, <2>2, Zenon DEF Claim, Touch, reaperVars
  <2>4. CASE lifecycle[u] # "joinable"
    BY <1>6, <2>3, <2>4, Zenon
  <2>5. CASE lifecycle[u] = "joinable"
    <3>1. /\ lifecycle' = [lifecycle EXCEPT ![u] = to] /\ lifecycle'[u] = to
          /\ \A w \in Thread : lifecycle[w] # "joinable" => lifecycle'[w] = lifecycle[w]
      BY <1>2, <1>4, <2>3, <2>5, Zenon DEF LifeTypes
    <3>2. LifeTypes'
      BY <1>2, <2>2, <2>3, <3>1, Zenon DEF LifeTypes
    <3>3. CASE to = "joining" /\ l = "join_test" /\ rec[u] # "none"
      <4>1. rec[u] = "live"
        BY <1>2, <1>4, <1>10, <3>3, Zenon DEF LifeTypes
      <4>2. l \in JoinPcs /\ l # "nf_call" /\ l # "join_reclaim"
        BY <3>3, Zenon DEF JoinPcs
      <4> QED
        BY <1>7, <2>3, <2>5, <3>1, <3>2, <3>3, <4>1, <4>2, Zenon
    <3>4. CASE to = "detached" /\ l = "nf_call" /\ pc[t] = "er_done" /\ Code \in {"detach", "detach_self"}
      <4>1. "nf_call" \notin JoinPcs /\ "nf_call" # "join_reclaim" /\ pc[t] \in ReaperPcs
        BY <3>4, Zenon DEF JoinPcs, ReaperPcs
      <4>2. Exists(u)
        <5>1. CASE Code = "detach"
          BY <1>2, <4>1, <5>1, Zenon DEF CallAt, Exists
        <5>2. CASE Code = "detach_self"
          <6>1. u = t
            BY <5>2, Zenon DEF Target
          <6> QED
            BY <1>2, <1>4, <6>1, Zenon DEF RecordAt
        <5> QED
          BY <3>4, <5>1, <5>2, Zenon
      <4> QED
        BY <1>7, <2>3, <2>5, <3>1, <3>2, <3>4, <4>1, <4>2, Zenon
    <3> QED
      BY <2>2, <3>3, <3>4, Zenon
  <2> QED
    BY <2>4, <2>5, Zenon
<1>11. CASE (JoinTest(t) /\ rec[u] # "freed") \/ JoinWoken(t)
  <2>1. /\ pc[t] \in JoinPcs /\ Same /\ UNCHANGED lifecycle
        /\ \/ Goto(t, "join_test") /\ UNCHANGED cwait
           \/ Goto(t, "join_reclaim") /\ UNCHANGED cwait /\ complete[u]
           \/ Goto(t, "join_parked") /\ cwait' = [cwait EXCEPT ![u] = @ \cup {t}]
    BY <1>11, Zenon DEF JoinTest, JoinWoken, Touch, JoinPcs, recVars, reaperVars
  <2>2. lifecycle[u] = "joining" /\ rec[u] = "live"
    BY <1>2, <2>1, Zenon DEF CallAt
  <2>3. LifeTypes'
    <3>1. cwait' \in [Thread -> SUBSET (Thread \cup {Reaper})]
      BY <1>2, <1>4, <2>1, SMTT(60) DEF LifeTypes
    <3> QED
      BY <1>2, <2>1, <3>1, Zenon DEF LifeTypes
  <2>4. {"join_test", "join_reclaim", "join_parked"} \subseteq JoinPcs /\ "nf_call" \notin JoinPcs
    BY Zenon DEF JoinPcs
  <2>5. "join_test" # "join_reclaim" /\ "join_parked" # "join_reclaim"
    BY Zenon
  <2> HIDE DEF u, Same
  <2> QED
    BY <1>7, <2>1, <2>2, <2>3, <2>4, <2>5, Zenon
<1> QED
  BY <1>8, <1>9, <1>10, <1>11, Zenon DEF CreateTid, Join, Detach, JoinTest, Claim, Touch

\* A record no one touches, of a thread that stays or moves within its calls.
LEMMA RecordKept ==
  ASSUME LifeInv, UNCHANGED prog, NEW u \in Thread,
         rec'[u] = rec[u], lifecycle'[u] = lifecycle[u], complete'[u] = complete[u],
         frees'[u] = frees[u], reap_queued'[u] = reap_queued[u],
         \/ pc'[u] = pc[u]
         \/ pc[u] \notin {"unborn", "gone"} /\ pc'[u] # "unborn" /\ (pc'[u] \in ExitPcs => rec[u] # "none")
  PROVE  RecordAt(u)'
<1>1. RecordAt(u) /\ (Exists(u)' <=> Exists(u))
  BY Zenon DEF LifeInv, Exists
<1> QED
  BY <1>1, Zenon DEF RecordAt

\* pthread_create: the record is live before the new thread runs.
LEMMA CreateStep ==
  ASSUME Ctl, LifeInv, UNCHANGED prog, NEW t \in Thread, Create(t), Alone(t)
  PROVE  LifeInv'
<1>1. /\ Running(t, LifeCall) \/ pc[t] = "er_done"
      /\ Target(t) \in Thread \ (prog.born \cup {t}) /\ rec[Target(t)] = "none"
      /\ \/ Return(t) /\ UNCHANGED <<rec, lifecycle>>
         \/ UNCHANGED ip /\ pc' = [pc EXCEPT ![Target(t)] = "idle", ![t] = "create_tid"]
  BY CreateGoes, Zenon
<1>2. /\ pc \in [Thread -> Labels] /\ LifeTypes /\ pc[t] \in {"idle", "er_done"}
      /\ UNCHANGED <<complete, reap_queued, cwait, frees, g_reaper_list, victim, rpc>>
  BY <1>1, Zenon DEF Ctl, LifeInv, Create, reaperVars, Running
<1>3. pc[t] \notin {"unborn", "gone"}
  BY <1>2, Zenon
<1>4. CASE Return(t) /\ UNCHANGED <<rec, lifecycle>>
  <2>1. pc'[t] = "idle" /\ Only(t)
    BY <1>2, <1>4, Zenon DEF Return, Only, Ctl
  <2>2. "idle" \notin ReaperPcs \cup {"create_tid", "nf_call", "nf_exit"} \cup JoinPcs \cup ExitPcs
        /\ "idle" \notin {"unborn", "nf_push", "nx_push"}
    BY Zenon DEF ReaperPcs, JoinPcs, ExitPcs
  <2>3. CallAt(t)' /\ OneJoiner'
    BY <2>1, <2>2, NothingKnown, JoinersKept, Zenon
  <2>4. LifeTypes'
    BY <1>2, <1>4, Zenon DEF LifeTypes
  <2> QED
    BY <1>2, <1>3, <1>4, <2>1, <2>2, <2>3, <2>4, QuietStep, Zenon
<1>5. CASE ~(Return(t) /\ UNCHANGED <<rec, lifecycle>>)
  <2> DEFINE u == Target(t)
  <2>1. /\ rec' = [rec EXCEPT ![u] = "live"] /\ UNCHANGED ip
        /\ lifecycle' = [lifecycle EXCEPT ![u] = IF pc[t] = "er_done" THEN "detached" ELSE "joinable"]
        /\ pc' = [pc EXCEPT ![u] = "idle", ![t] = "create_tid"]
        /\ prog.code[t][ip[t]] = "create_detached" => pc[t] = "er_done"
    BY <1>5, Zenon DEF Create, Running
  <2>2. pc'[t] = "create_tid" /\ pc'[u] = "idle" /\ rec'[u] = "live" /\ rec'[t] = rec[t]
    BY <1>1, <1>2, <2>1, Zenon DEF LifeTypes
  <2>3. \A w \in Thread \ {u} : rec'[w] = rec[w] /\ lifecycle'[w] = lifecycle[w]
    BY <1>1, <1>2, <2>1, Zenon DEF LifeTypes
  <2>4. lifecycle'[u] = IF pc[t] = "er_done" THEN "detached" ELSE "joinable"
    BY <1>1, <1>2, <2>1, Zenon DEF LifeTypes
  <2>5. LifeTypes'
    BY <1>1, <1>2, <2>1, Zenon DEF LifeTypes
  <2>6. pc[u] = "unborn" /\ ~Exists(u) /\ ~complete[u] /\ ~reap_queued[u] /\ frees[u] = 0
    <3>1. RecordAt(u) /\ ~Exists(u)
      BY <1>1, Zenon DEF LifeInv, Exists
    <3> QED
      BY <1>1, <3>1, Zenon DEF RecordAt
  <2>7. \A w \in Thread : Grows(w)
    BY <1>1, <1>2, <2>2, <2>3, <2>6, Zenon DEF Grows
  <2>8. ASSUME NEW v \in Thread \ {t}
        PROVE  CallAt(v)' /\ \A w \in Thread : Pushes(v, w)' <=> Pushes(v, w)
    <3>1. pc[v] \in JoinPcs => rec'[Target(v)] = rec[Target(v)]
      <4>1. pc[v] \in JoinPcs => Target(v) \in Thread /\ rec[Target(v)] = "live"
        BY TargetFacts, Zenon DEF LifeInv, CallAt, LifePcs
      <4> QED
        BY <1>1, <2>3, <4>1, Zenon
    <3> QED
      BY <2>7, <2>8, <3>1, OthersKept, Zenon DEF Alone
  <2>9. CallAt(t)'
    <3>1. Target(t)' = u
      BY <1>2, <2>1, <2>2, TargetSame, Zenon
    <3>2. "create_tid" \notin ReaperPcs \cup {"nf_call", "nf_exit", "join_reclaim"} \cup JoinPcs
      BY Zenon DEF ReaperPcs, JoinPcs
    <3>3. rec'[Target(t)'] = "live" /\ (pc[t] = "er_done" => lifecycle'[Target(t)'] = "detached")
      BY <2>2, <2>4, <3>1, Zenon
    <3> QED
      BY <2>1, <2>2, <3>2, <3>3, Zenon DEF CallAt
  <2>10. OneJoiner'
    BY <2>2, JoinersKept, Zenon DEF JoinPcs
  <2>11. TokenInv'
    <3>1. \A w \in Thread : ~Pushes(t, w)'
      BY <2>2, Zenon DEF Pushes
    <3>2. \A v, w \in Thread : Pushes(v, w)' => Pushes(v, w)
      BY <2>8, <3>1, Zenon
    <3>3. \A w \in Thread : rec'[w] = "freed" => rec[w] = "freed"
      BY <2>2, <2>3, Zenon
    <3> QED
      BY <1>2, <3>2, <3>3, TokenKept, Zenon DEF LifeInv
  <2>12. ASSUME NEW v \in Thread, v = u PROVE RecordAt(v)'
    BY <1>2, <2>2, <2>6, <2>12, Zenon DEF RecordAt, Exists, ExitPcs
  <2>13. RecordAt(t)'
    <3>1. pc'[t] # "unborn" /\ pc'[t] \notin ExitPcs /\ t \in Thread \ {u}
      BY <1>1, <2>2, Zenon DEF ExitPcs
    <3> QED
      BY <1>2, <1>3, <2>3, <3>1, RecordKept, Zenon
  <2>14. ASSUME NEW v \in Thread \ {t, u} PROVE RecordAt(v)'
    <3>1. pc'[v] = pc[v]
      BY <1>1, <1>2, <2>1, Zenon
    <3> QED
      BY <1>2, <2>3, <3>1, RecordKept, Zenon
  <2>15. \A v \in Thread : RecordAt(v)' /\ CallAt(v)'
    BY <2>8, <2>9, <2>12, <2>13, <2>14, Zenon
  <2> QED
    BY <2>5, <2>10, <2>11, <2>15, Zenon DEF LifeInv
<1> QED
  BY <1>4, <1>5, Zenon

\* The kernel publishes a thread's completion.
LEMMA CompleteStep ==
  ASSUME Ctl, LifeInv, UNCHANGED prog, NEW t \in Thread, Complete(t)
  PROVE  LifeInv'
<1>1. /\ Only(t) /\ Alone(t) /\ LifeTypes /\ pc \in [Thread -> Labels]
      /\ UNCHANGED <<rec, lifecycle, reap_queued, frees, g_reaper_list, victim, rpc>>
  BY OnlyMoves, Zenon DEF Moves, Complete, reaperVars, LifeInv, Ctl
<1>2. /\ pc[t] = "exit_kernel" /\ pc'[t] = "gone" /\ complete' = [complete EXCEPT ![t] = TRUE]
  BY <1>1, Zenon DEF Complete, Goto
<1>3. /\ complete'[t] /\ \A u \in Thread \ {t} : complete'[u] = complete[u]
  BY <1>1, <1>2, Zenon DEF LifeTypes
<1>4. LifeTypes'
  <2>1. complete' \in [Thread -> BOOLEAN]
    BY <1>1, <1>2, Zenon DEF LifeTypes
  <2>2. cwait' \in [Thread -> SUBSET (Thread \cup {Reaper})]
    BY <1>1, ZenonT(60) DEF Complete, LifeTypes
  <2> QED
    BY <1>1, <2>1, <2>2, Zenon DEF LifeTypes
<1>5. \A u \in Thread : Grows(u)
  BY <1>1, <1>3, Zenon DEF Grows
<1>6. ASSUME NEW u \in Thread \ {t}
      PROVE  CallAt(u)' /\ \A w \in Thread : Pushes(u, w)' <=> Pushes(u, w)
  BY <1>1, <1>5, OthersKept, Zenon DEF Only
<1>7. CallAt(t)' /\ OneJoiner'
  <2>1. "gone" \notin ReaperPcs \cup {"create_tid", "nf_call", "nf_exit"} \cup JoinPcs
    BY Zenon DEF ReaperPcs, JoinPcs
  <2> QED
    BY <1>1, <1>2, <2>1, NothingKnown, JoinersKept, Zenon
<1>8. TokenInv'
  <2>1. \A w \in Thread : ~Pushes(t, w)'
    BY <1>2, Zenon DEF Pushes
  <2>2. \A u, w \in Thread : Pushes(u, w)' => Pushes(u, w)
    BY <1>6, <2>1, Zenon
  <2>3. \A u \in Thread : complete[u] => complete'[u]
    BY <1>3, Zenon
  <2> QED
    BY <1>1, <2>2, <2>3, TokenKept, Zenon DEF LifeInv
<1>9. RecordAt(t)'
  <2>1. RecordAt(t) /\ (Exists(t)' <=> Exists(t)) /\ "exit_kernel" \in ExitPcs /\ "gone" \in ExitPcs
    BY <1>1, Zenon DEF LifeInv, Exists, ExitPcs
  <2> QED
    BY <1>1, <1>2, <1>3, <2>1, Zenon DEF RecordAt
<1>10. ASSUME NEW u \in Thread \ {t} PROVE RecordAt(u)'
  BY <1>1, <1>3, RecordKept, Zenon DEF Only
<1>11. \A u \in Thread : RecordAt(u)' /\ CallAt(u)'
  BY <1>6, <1>7, <1>9, <1>10, Zenon
<1> QED
  BY <1>4, <1>7, <1>8, <1>11, Zenon DEF LifeInv

\* The reaper's list: a record at its head, and one taken out of it.
LEMMA ListFacts ==
  ASSUME NEW s \in Seq(Thread), \A i, j \in DOMAIN s : s[i] = s[j] => i = j
  PROVE  /\ \A u \in Thread : LET p == <<u>> \o s IN
              /\ p \in Seq(Thread) /\ Range(p) = {u} \cup Range(s)
              /\ u \notin Range(s) => \A i, j \in DOMAIN p : p[i] = p[j] => i = j
         /\ \A k \in DOMAIN s : LET p == RemoveAt(s, k) IN
              /\ p \in Seq(Thread) /\ Range(p) \subseteq Range(s) /\ s[k] \notin Range(p)
              /\ \A i, j \in DOMAIN p : p[i] = p[j] => i = j
         /\ \A i \in DOMAIN s : s[i] \in Thread /\ s[i] \in Range(s)
<1>1. Len(s) \in Nat /\ DOMAIN s = 1 .. Len(s) /\ \A i \in 1 .. Len(s) : s[i] \in Thread
  OBVIOUS
<1>2. ASSUME NEW u \in Thread, NEW p, p = <<u>> \o s
      PROVE  /\ p \in Seq(Thread) /\ Range(p) = {u} \cup Range(s)
             /\ u \notin Range(s) => \A i, j \in DOMAIN p : p[i] = p[j] => i = j
  <2>1. /\ p \in Seq(Thread) /\ DOMAIN p = 1 .. Len(s) + 1 /\ p[1] = u
        /\ \A i \in 2 .. Len(s) + 1 : i - 1 \in DOMAIN s /\ p[i] = s[i - 1]
    BY <1>1, <1>2, SMTT(60)
  <2>2. \A i \in DOMAIN s : i + 1 \in DOMAIN p /\ p[i + 1] = s[i]
    BY <1>1, <2>1, SMTT(60)
  <2>3. Range(p) = {u} \cup Range(s)
    <3>1. ASSUME NEW x \in Range(p) PROVE x \in {u} \cup Range(s)
      <4>1. PICK i \in DOMAIN p : x = p[i]
        BY <3>1, Zenon DEF Range
      <4>2. CASE i = 1
        BY <2>1, <4>1, <4>2, Zenon
      <4>3. CASE i # 1
        <5>1. i \in 2 .. Len(s) + 1
          BY <1>1, <2>1, <4>1, <4>3
        <5>2. i - 1 \in DOMAIN s /\ x = s[i - 1]
          BY <2>1, <4>1, <5>1, Zenon
        <5> QED
          BY <5>2, ZenonT(30) DEF Range
      <4> QED
        BY <4>2, <4>3, Zenon
    <3>2. ASSUME NEW x \in {u} \cup Range(s) PROVE x \in Range(p)
      BY <1>1, <2>1, <2>2, <3>2, SMTT(60) DEF Range
    <3> QED
      BY <3>1, <3>2, Zenon
  <2>4. ASSUME u \notin Range(s), NEW i \in DOMAIN p, NEW j \in DOMAIN p, p[i] = p[j] PROVE i = j
    <3>1. \A k \in DOMAIN s : s[k] # u
      BY <2>4, Zenon DEF Range
    <3>2. CASE i = 1 \/ j = 1
      <4>1. \A m \in DOMAIN p \ {1} : m \in 2 .. Len(s) + 1
        BY <1>1, <2>1, SMTT(60)
      <4>2. \A m \in DOMAIN p \ {1} : p[m] # u
        BY <2>1, <3>1, <4>1, ZenonT(60)
      <4> QED
        BY <2>1, <2>4, <3>2, <4>2, Zenon
    <3>3. CASE i # 1 /\ j # 1
      <4>1. /\ i - 1 \in DOMAIN s /\ j - 1 \in DOMAIN s /\ s[i - 1] = s[j - 1]
        BY <1>1, <2>1, <2>4, <3>3, SMTT(60)
      <4>2. i - 1 = j - 1
        BY <4>1, Zenon
      <4> QED
        BY <1>1, <2>1, <2>4, <4>2
    <3> QED
      BY <3>2, <3>3, Zenon
  <2> QED
    BY <2>1, <2>3, <2>4, Zenon
<1>3. ASSUME NEW k \in DOMAIN s, NEW p, p = RemoveAt(s, k)
      PROVE  /\ p \in Seq(Thread) /\ Range(p) \subseteq Range(s) /\ s[k] \notin Range(p)
             /\ \A i, j \in DOMAIN p : p[i] = p[j] => i = j
  <2>1. /\ SubSeq(s, 1, k - 1) \in Seq(Thread) /\ Len(SubSeq(s, 1, k - 1)) = k - 1
        /\ \A i \in 1 .. k - 1 : SubSeq(s, 1, k - 1)[i] = s[i]
    BY <1>1
  <2>2. /\ SubSeq(s, k + 1, Len(s)) \in Seq(Thread) /\ Len(SubSeq(s, k + 1, Len(s))) = Len(s) - k
        /\ \A i \in 1 .. Len(s) - k : SubSeq(s, k + 1, Len(s))[i] = s[k + i]
    <3>1. k \in Nat /\ k <= Len(s)
      BY <1>1
    <3>2. SubSeq(s, k + 1, Len(s)) \in Seq(Thread) /\ Len(SubSeq(s, k + 1, Len(s))) = Len(s) - k
      BY <1>1, <3>1, SMTT(60)
    <3>3. \A i \in 1 .. Len(s) - k : SubSeq(s, k + 1, Len(s))[i] = s[k + i]
      BY <1>1, <3>1, SMTT(60)
    <3> QED
      BY <3>2, <3>3, Zenon
  <2>3. /\ p \in Seq(Thread) /\ DOMAIN p = 1 .. Len(s) - 1
        /\ \A i \in 1 .. Len(s) - 1 : p[i] = IF i < k THEN s[i] ELSE s[i + 1]
    <3> DEFINE A == SubSeq(s, 1, k - 1)
               B == SubSeq(s, k + 1, Len(s))
    <3>1. p = A \o B
      BY <1>3, Zenon DEF RemoveAt
    <3> HIDE DEF A, B
    <3>0. A \in Seq(Thread) /\ B \in Seq(Thread)
      BY <2>1, <2>2, Zenon DEF A, B
    <3>2. p \in Seq(Thread) /\ Len(p) = Len(A) + Len(B)
      BY <3>0, <3>1, SMTT(60)
    <3>3. Len(p) = Len(s) - 1
      BY <1>1, <1>3, <2>1, <2>2, <3>2, SMTT(60) DEF A, B
    <3>4. ASSUME NEW i \in 1 .. Len(s) - 1 PROVE p[i] = IF i < k THEN s[i] ELSE s[i + 1]
      <4>1. p[i] = IF i <= Len(A) THEN A[i] ELSE B[i - Len(A)]
        BY <3>0, <3>1, <3>2, <3>3, <3>4, SMTT(60)
      <4>2. CASE i < k
        BY <1>1, <2>1, <3>4, <4>1, <4>2, SMTT(60) DEF A
      <4>3. CASE ~(i < k)
        <5>1. i - (k - 1) \in 1 .. Len(s) - k /\ k + (i - (k - 1)) = i + 1 /\ ~(i <= k - 1)
          BY <1>1, <3>4, <4>3, SMTT(60)
        <5> QED
          BY <2>1, <2>2, <4>1, <4>3, <5>1, Zenon DEF A, B
      <4> QED
        BY <4>2, <4>3, Zenon
    <3>5. DOMAIN p = 1 .. Len(s) - 1
      BY <3>2, <3>3, SMTT(60)
    <3> QED
      BY <3>2, <3>4, <3>5, Zenon
  <2>4. \A i \in DOMAIN p : \E m \in DOMAIN s \ {k} : p[i] = s[m] /\ m = IF i < k THEN i ELSE i + 1
    BY <1>1, <2>3, SMTT(60)
  <2>5. ASSUME NEW x \in Range(p) PROVE x \in Range(s) /\ x # s[k]
    <3>1. PICK i \in DOMAIN p : x = p[i]
      BY <2>5, Zenon DEF Range
    <3>2. PICK m \in DOMAIN s \ {k} : p[i] = s[m]
      BY <2>4, <3>1, ZenonT(30)
    <3>3. s[m] # s[k]
      BY <1>3, <3>2, ZenonT(30)
    <3> QED
      BY <3>1, <3>2, <3>3, Zenon DEF Range
  <2>7. ASSUME NEW i \in DOMAIN p, NEW j \in DOMAIN p, p[i] = p[j] PROVE i = j
    <3>1. PICK m \in DOMAIN s \ {k} : p[i] = s[m] /\ m = IF i < k THEN i ELSE i + 1
      BY <2>4, <2>7, Zenon
    <3>2. PICK n \in DOMAIN s \ {k} : p[j] = s[n] /\ n = IF j < k THEN j ELSE j + 1
      BY <2>4, <2>7, Zenon
    <3>3. m = n
      BY <2>7, <3>1, <3>2, Zenon
    <3>4. i \in Nat /\ j \in Nat /\ k \in Nat /\ m # k
      BY <1>1, <1>3, <2>3, <2>7, <3>1
    <3> QED
      BY <3>1, <3>2, <3>3, <3>4
  <2> QED
    BY <2>3, <2>5, <2>7, Zenon
<1>4. \A i \in DOMAIN s : s[i] \in Thread /\ s[i] \in Range(s)
  BY <1>1, Zenon DEF Range
<1> QED
  BY <1>2, <1>3, <1>4, Zenon

\* notify_reaper: the first to set reap_queued has the right to queue the record.
LEMMA QueueStep ==
  ASSUME Ctl, LifeInv, UNCHANGED prog, NEW t \in Thread, NotifyQueue(t)
  PROVE  LifeInv'
<1> DEFINE u == Target(t)
<1>1. /\ Only(t) /\ Alone(t) /\ Moves(t) /\ LifeTypes /\ pc \in [Thread -> Labels]
      /\ pc[t] \in {"nf_call", "nf_exit"}
  BY OnlyMoves, Zenon DEF Moves, LifeInv, Ctl, NotifyQueue
<1>2. pc[t] \notin {"unborn", "gone"}
  BY <1>1, Zenon
<1>3. u \in Thread /\ lifecycle[u] = "detached" /\ Exists(u)
  BY <1>1, TargetFacts, Zenon DEF LifeInv, CallAt, LifePcs, NotifyPcs
<1>4. pc[t] = "nf_exit" => rec[t] # "none"
  BY Zenon DEF LifeInv, RecordAt, ExitPcs
<1>5. CASE UNCHANGED <<pc, ip, recVars, reaperVars>>
  BY <1>5, LifeSame, Zenon
<1>6. CASE rec[u] # "freed"
  <2>1. /\ UNCHANGED <<rec, lifecycle, complete, cwait, frees, g_reaper_list, victim, rpc, ip>>
        /\ reap_queued' = [reap_queued EXCEPT ![u] = TRUE]
        /\ pc' = [pc EXCEPT ![t] = CASE pc[t] = "nf_call" /\ ~reap_queued[u] -> "nf_push"
                                      [] pc[t] = "nf_call" /\ reap_queued[u] -> "nf_bump"
                                      [] pc[t] = "nf_exit" /\ ~reap_queued[u] -> "nx_push"
                                      [] OTHER -> "nx_bump"]
    BY <1>6, Zenon DEF NotifyQueue, Touch, Goto, reaperVars
  <2>2. CASE reap_queued[u]
    <3>1. UNCHANGED reap_queued
      BY <1>1, <1>3, <2>1, <2>2, Zenon DEF LifeTypes
    <3>2. PICK l \in Nowhere : pc' = [pc EXCEPT ![t] = l] /\ (l \in ExitPcs => pc[t] = "nf_exit")
      BY <1>1, <2>1, <2>2, Zenon DEF Nowhere, ExitPcs
    <3>3. pc'[t] = l
      BY <1>1, <3>2, Zenon
    <3> QED
      BY <1>1, <1>2, <1>4, <2>1, <3>1, <3>2, <3>3, QuietEnd, Zenon
  <2>3. CASE ~reap_queued[u]
    <3>1. pc'[t] = (IF pc[t] = "nf_call" THEN "nf_push" ELSE "nx_push") /\ ip'[t] = ip[t]
      BY <1>1, <2>1, <2>3, Zenon
    <3>2. /\ pc'[t] \notin ReaperPcs \cup {"create_tid", "nf_call", "nf_exit"} \cup JoinPcs
          /\ pc'[t] # "unborn" /\ (pc'[t] \in ExitPcs => rec[t] # "none")
      BY <1>1, <1>4, <3>1, Zenon DEF ReaperPcs, JoinPcs, ExitPcs
    <3>3. reap_queued'[u] /\ \A w \in Thread \ {u} : reap_queued'[w] = reap_queued[w]
      BY <1>1, <1>3, <2>1, Zenon DEF LifeTypes
    <3>4. \A w \in Thread : Pushes(t, w)' <=> w = u
      <4>1. CASE pc[t] = "nf_call"
        <5>1. Target(t)' = u
          BY <3>1, <4>1, TargetSame, Zenon
        <5> QED
          BY <3>1, <4>1, <5>1, Zenon DEF Pushes
      <4>2. CASE pc[t] = "nf_exit"
        <5>1. u = t
          BY <4>2, Zenon DEF Target
        <5> QED
          BY <3>1, <4>2, <5>1, Zenon DEF Pushes
      <4> QED
        BY <1>1, <4>1, <4>2, Zenon
    <3>5. \A w \in Thread : Grows(w)
      BY <2>1, Zenon DEF Grows
    <3>6. ASSUME NEW v \in Thread \ {t}
          PROVE  CallAt(v)' /\ \A w \in Thread : Pushes(v, w)' <=> Pushes(v, w)
      BY <1>1, <2>1, <3>5, OthersKept, Zenon DEF Only
    <3>7. CallAt(t)' /\ OneJoiner'
      BY <1>1, <3>2, NothingKnown, JoinersKept, Zenon
    <3>8. \A v \in Thread : ~Pushes(v, u)
      BY <1>3, <2>3, Zenon DEF LifeInv, TokenInv, TokenAt
    <3>9. u \notin Range(g_reaper_list) /\ ~Reaps(u)
      BY <1>3, <2>3, Zenon DEF LifeInv, TokenInv, TokenAt
    <3>10. ASSUME NEW w \in Thread PROVE TokenAt(w)'
      <4>1. TokenAt(w) /\ (Reaps(w)' <=> Reaps(w))
        BY <2>1, Zenon DEF LifeInv, TokenInv, Reaps
      <4>2. CASE w = u
        <5>1. \A v \in Thread : Pushes(v, w)' => v = t
          BY <3>6, <3>8, <4>2, Zenon
        <5> QED
          BY <1>6, <2>1, <3>3, <3>9, <4>1, <4>2, <5>1, Zenon DEF TokenAt
      <4>3. CASE w # u
        <5>1. \A v \in Thread : Pushes(v, w)' => Pushes(v, w)
          BY <3>4, <3>6, <4>3, Zenon
        <5>2. reap_queued'[w] = reap_queued[w]
          BY <3>3, <4>3, Zenon
        <5> QED
          BY <2>1, <4>1, <5>1, <5>2, Zenon DEF TokenAt
      <4> QED
        BY <4>2, <4>3, Zenon
    <3>11. TokenInv'
      BY <2>1, <3>10, Zenon DEF LifeInv, TokenInv
    <3>12. ASSUME NEW v \in Thread PROVE RecordAt(v)'
      <4>1. RecordAt(v) /\ (Exists(v)' <=> Exists(v))
        BY <2>1, Zenon DEF LifeInv, Exists
      <4>2. reap_queued'[v] => lifecycle[v] = "detached" /\ Exists(v)
        BY <1>3, <3>3, <4>1, Zenon DEF RecordAt
      <4>3. CASE v = t
        BY <1>2, <2>1, <3>2, <4>1, <4>2, <4>3, Zenon DEF RecordAt
      <4>4. CASE v # t
        BY <1>1, <2>1, <4>1, <4>2, <4>4, Zenon DEF RecordAt, Only
      <4> QED
        BY <4>3, <4>4, Zenon
    <3>13. LifeTypes'
      BY <1>1, <2>1, Zenon DEF LifeTypes
    <3>14. \A v \in Thread : CallAt(v)'
      BY <3>6, <3>7, Zenon
    <3> QED
      BY <3>7, <3>11, <3>12, <3>13, <3>14, Zenon DEF LifeInv
  <2> QED
    BY <2>2, <2>3, Zenon
<1> QED
  BY <1>5, <1>6, Zenon DEF NotifyQueue, Touch

\* notify_reaper: the record goes on the list, from the one thread that may put it.
LEMMA PushStep ==
  ASSUME Ctl, LifeInv, UNCHANGED prog, NEW t \in Thread, NotifyPush(t)
  PROVE  LifeInv'
<1>1. /\ Only(t) /\ Alone(t) /\ Moves(t) /\ LifeTypes /\ pc \in [Thread -> Labels]
      /\ pc[t] \in {"nf_push", "nx_push"}
  BY OnlyMoves, Zenon DEF Moves, LifeInv, Ctl, NotifyPush
<1>2. PICK u : u = IF pc[t] = "nx_push" THEN t ELSE Target(t)
  BY Zenon
<1>3. u \in Thread /\ Pushes(t, u)
  <2>1. pc[t] = "nf_push" => Target(t) \in Thread
    BY TargetFacts, Zenon DEF LifePcs, NotifyPcs
  <2> QED
    BY <1>1, <1>2, <2>1, Zenon DEF Pushes
<1>4. TokenAt(u) /\ rec[u] # "freed"
  BY <1>3, Zenon DEF LifeInv, TokenInv, TokenAt
<1>5. /\ UNCHANGED <<rec, lifecycle, complete, reap_queued, cwait, frees, victim, rpc, ip>>
      /\ g_reaper_list' = <<u>> \o g_reaper_list
      /\ pc' = [pc EXCEPT ![t] = IF pc[t] = "nf_push" THEN "nf_bump" ELSE "nx_bump"]
  BY <1>2, <1>4, Zenon DEF NotifyPush, Touch, Goto, recVars
<1>6. /\ pc'[t] = IF pc[t] = "nf_push" THEN "nf_bump" ELSE "nx_bump"
      /\ pc'[t] \notin ReaperPcs \cup {"create_tid", "nf_call", "nf_exit"} \cup JoinPcs
      /\ pc'[t] \notin {"unborn", "nf_push", "nx_push"} /\ pc[t] \notin {"unborn", "gone"}
      /\ pc'[t] \in ExitPcs => pc[t] \in ExitPcs
  BY <1>1, <1>5, Zenon DEF ReaperPcs, JoinPcs, ExitPcs
<1>7. /\ g_reaper_list' \in Seq(Thread) /\ Range(g_reaper_list') = {u} \cup Range(g_reaper_list)
      /\ \A i, j \in DOMAIN g_reaper_list' : g_reaper_list'[i] = g_reaper_list'[j] => i = j
  <2>1. u \notin Range(g_reaper_list)
    BY <1>3, <1>4, Zenon DEF TokenAt
  <2> QED
    BY <1>1, <1>3, <1>5, <2>1, ListFacts, Zenon DEF LifeInv, TokenInv, LifeTypes
<1>8. \A w \in Thread : Grows(w)
  BY <1>5, Zenon DEF Grows
<1>9. ASSUME NEW v \in Thread \ {t}
      PROVE  CallAt(v)' /\ \A w \in Thread : Pushes(v, w)' <=> Pushes(v, w)
  BY <1>1, <1>5, <1>8, OthersKept, Zenon DEF Only
<1>10. CallAt(t)' /\ OneJoiner'
  BY <1>1, <1>6, NothingKnown, JoinersKept, Zenon
<1>11. \A w \in Thread : ~Pushes(t, w)'
  BY <1>6, Zenon DEF Pushes
<1>12. ASSUME NEW w \in Thread PROVE TokenAt(w)'
  <2>1. TokenAt(w) /\ (Reaps(w)' <=> Reaps(w))
    BY <1>5, Zenon DEF LifeInv, TokenInv, Reaps
  <2>2. CASE w = u
    <3>1. \A v \in Thread : ~Pushes(v, w)'
      BY <1>3, <1>4, <1>9, <1>11, <2>2, Zenon DEF TokenAt
    <3>2. reap_queued[w] /\ rec[w] # "freed" /\ ~Reaps(w)
      BY <1>3, <1>4, <2>2, Zenon DEF TokenAt
    <3> QED
      BY <1>5, <2>1, <3>1, <3>2, Zenon DEF TokenAt
  <2>3. CASE w # u
    <3>1. \A v \in Thread : Pushes(v, w)' => Pushes(v, w)
      BY <1>9, <1>11, Zenon
    <3>2. w \in Range(g_reaper_list)' <=> w \in Range(g_reaper_list)
      BY <1>7, <2>3, Zenon
    <3> QED
      BY <1>5, <2>1, <3>1, <3>2, Zenon DEF TokenAt
  <2> QED
    BY <2>2, <2>3, Zenon
<1>13. TokenInv'
  BY <1>5, <1>7, <1>12, Zenon DEF LifeInv, TokenInv
<1>14. ASSUME NEW v \in Thread PROVE RecordAt(v)'
  <2>1. pc[v] \in ExitPcs => rec[v] # "none"
    BY Zenon DEF LifeInv, RecordAt
  <2> QED
    BY <1>1, <1>5, <1>6, <2>1, RecordKept, Zenon DEF Only
<1>15. LifeTypes'
  BY <1>1, <1>5, <1>7, Zenon DEF LifeTypes
<1>16. \A v \in Thread : CallAt(v)'
  BY <1>9, <1>10, Zenon
<1> QED
  BY <1>10, <1>13, <1>14, <1>15, <1>16, Zenon DEF LifeInv

\* reclaim_thread on a record that is complete, claimed and not yet freed.
LEMMA ReclaimFacts ==
  ASSUME LifeInv, NEW u \in Thread,
         UNCHANGED <<prog, lifecycle, complete, reap_queued, g_reaper_list, victim>>,
         Reclaim(u), rec[u] # "freed", complete[u], lifecycle[u] # "joinable",
         pc'[u] = pc[u]
  PROVE  /\ LifeTypes' /\ RecordAt(u)' /\ rec'[u] = "freed"
         /\ \A w \in Thread \ {u} : rec'[w] = rec[w] /\ frees'[w] = frees[w]
         /\ \A w \in Thread : Grows(w)
<1>1. LifeTypes /\ RecordAt(u)
  BY Zenon DEF LifeInv
<1>2. rec' = [rec EXCEPT ![u] = "freed"] /\ frees' = [frees EXCEPT ![u] = @ + 1]
  BY Zenon DEF Reclaim
<1>3. cwait' \in [Thread -> SUBSET (Thread \cup {Reaper})]
  BY <1>1, ZenonT(60) DEF Reclaim, LifeTypes
<1>4. LifeTypes'
  <2>1. rec' \in [Thread -> {"none", "live", "freed"}] /\ frees' \in [Thread -> Nat]
    BY <1>1, <1>2 DEF LifeTypes
  <2> QED
    BY <1>1, <1>3, <2>1, Zenon DEF LifeTypes
<1>5. /\ rec'[u] = "freed" /\ \A w \in Thread \ {u} : rec'[w] = rec[w] /\ frees'[w] = frees[w]
      /\ frees'[u] = frees[u] + 1
  BY <1>1, <1>2, Zenon DEF LifeTypes
<1>6. frees'[u] = 1
  BY <1>1, <1>5 DEF RecordAt
<1>7. RecordAt(u)'
  BY <1>1, <1>5, <1>6, Zenon DEF RecordAt, Exists
<1>8. \A w \in Thread : Grows(w)
  BY <1>5, Zenon DEF Grows
<1> QED
  BY <1>4, <1>5, <1>7, <1>8, Zenon

\* The joiner reclaims: it is the only one, and no one has the right to queue the
\* record of a thread that is not detached.
LEMMA JoinReclaimStep ==
  ASSUME Ctl, LifeInv, UNCHANGED prog, NEW t \in Thread, JoinReclaim(t)
  PROVE  LifeInv'
<1>1. /\ Only(t) /\ Alone(t) /\ Moves(t) /\ LifeTypes /\ pc \in [Thread -> Labels]
      /\ pc[t] = "join_reclaim" /\ pc[t] \in JoinPcs /\ pc[t] \in LifePcs
  BY OnlyMoves, Zenon DEF Moves, LifeInv, Ctl, JoinReclaim, JoinPcs, LifePcs
<1>2. PICK u : u = Target(t)
  BY Zenon
<1>3. /\ u \in Thread /\ lifecycle[u] = "joining" /\ rec[u] = "live" /\ complete[u]
  BY <1>1, <1>2, TargetFacts, Zenon DEF LifeInv, CallAt
<1>4. u # t
  <2>1. pc[u] = "gone"
    BY <1>3, Zenon DEF LifeInv, RecordAt
  <2> QED
    BY <1>1, <2>1, Zenon
<1>5. /\ UNCHANGED <<lifecycle, complete, reap_queued, g_reaper_list, victim, rpc>>
      /\ Reclaim(u) /\ Return(t)
  BY <1>2, <1>3, Zenon DEF JoinReclaim, Touch, reaperVars
<1>6. pc'[t] = "idle" /\ pc'[u] = pc[u]
  BY <1>1, <1>3, <1>4, <1>5, Zenon DEF Return, Only
<1>7. rec[u] # "freed" /\ lifecycle[u] # "joinable" /\ lifecycle[u] # "detached"
  BY <1>3, Zenon
<1>8. /\ LifeTypes' /\ RecordAt(u)' /\ rec'[u] = "freed"
      /\ \A w \in Thread \ {u} : rec'[w] = rec[w] /\ frees'[w] = frees[w]
      /\ \A w \in Thread : Grows(w)
  BY <1>3, <1>5, <1>6, <1>7, ReclaimFacts, Zenon
<1>9. ASSUME NEW v \in Thread \ {t}
      PROVE  CallAt(v)' /\ \A w \in Thread : Pushes(v, w)' <=> Pushes(v, w)
  <2>1. pc[v] \in JoinPcs => rec'[Target(v)] = rec[Target(v)]
    <3>1. pc[v] \in JoinPcs => Target(v) \in Thread
      BY TargetFacts, Zenon DEF LifePcs
    <3>2. pc[v] \in JoinPcs => Target(v) # u
      BY <1>1, <1>2, <1>9, Zenon DEF LifeInv, OneJoiner
    <3> QED
      BY <1>8, <3>1, <3>2, Zenon
  <2> QED
    BY <1>1, <1>8, <2>1, OthersKept, Zenon DEF Only
<1>10. CallAt(t)' /\ OneJoiner'
  <2>1. "idle" \notin ReaperPcs \cup {"create_tid", "nf_call", "nf_exit"} \cup JoinPcs
    BY Zenon DEF ReaperPcs, JoinPcs
  <2> QED
    BY <1>1, <1>6, <2>1, NothingKnown, JoinersKept, Zenon
<1>11. \A w \in Thread : ~Pushes(t, w)'
  BY <1>6, Zenon DEF Pushes
<1>12. ~reap_queued[u]
  BY <1>3, <1>7, Zenon DEF LifeInv, RecordAt
<1>13. ASSUME NEW w \in Thread PROVE TokenAt(w)'
  <2>1. TokenAt(w) /\ (Reaps(w)' <=> Reaps(w)) /\ \A v \in Thread : Pushes(v, w)' => Pushes(v, w)
    BY <1>5, <1>9, <1>11, Zenon DEF LifeInv, TokenInv, Reaps
  <2>2. CASE w = u
    BY <1>5, <1>12, <2>1, <2>2, Zenon DEF TokenAt
  <2>3. CASE w # u
    BY <1>5, <1>8, <2>1, <2>3, Zenon DEF TokenAt
  <2> QED
    BY <2>2, <2>3, SMTT(60)
<1>14. TokenInv'
  BY <1>5, <1>13, Zenon DEF LifeInv, TokenInv
<1>15. ASSUME NEW v \in Thread \ {u} PROVE RecordAt(v)'
  <2>1. pc'[v] = pc[v] \/ (v = t /\ pc[v] \notin {"unborn", "gone"} /\ pc'[v] # "unborn"
                            /\ pc'[v] \notin ExitPcs)
    BY <1>1, <1>6, Zenon DEF Only, ExitPcs
  <2> QED
    BY <1>5, <1>8, <2>1, RecordKept, Zenon
<1>16. \A v \in Thread : RecordAt(v)' /\ CallAt(v)'
  BY <1>8, <1>9, <1>10, <1>15, Zenon
<1> QED
  BY <1>8, <1>10, <1>14, <1>16, Zenon DEF LifeInv

\* reaper_entry: takes a record off the list, waits until the thread is off its
\* stack, and reclaims it.
LEMMA ReaperSteps ==
  ASSUME Ctl, LifeInv, UNCHANGED prog, ReaperStep
  PROVE  LifeInv' /\ UNCHANGED <<pc, ip>>
<1>1. /\ LifeTypes /\ TokenInv /\ UNCHANGED <<pc, ip, lifecycle, complete, reap_queued>>
      /\ \A i, j \in DOMAIN g_reaper_list : g_reaper_list[i] = g_reaper_list[j] => i = j
  BY Zenon DEF LifeInv, TokenInv, ReaperStep, ReaperScan, ReaperObserve, ReaperPark, ReaperTest,
               ReaperReclaim, recVars, reaperVars
<1>2. \A u, w \in Thread : Pushes(u, w)' <=> Pushes(u, w)
  BY <1>1, Zenon DEF Pushes, Target
<1>3. ASSUME UNCHANGED <<rec, frees>>, LifeTypes', TokenInv' PROVE LifeInv'
  <2>1. \A u \in Thread : Target(u)' = Target(u)
    BY <1>1, Zenon DEF Target
  <2>2. OneJoiner'
    BY <1>1, <2>1, Zenon DEF LifeInv, OneJoiner
  <2>3. ASSUME NEW u \in Thread PROVE RecordAt(u)' /\ CallAt(u)'
    <3>1. \A w \in Thread : Grows(w)
      BY <1>1, <1>3, Zenon DEF Grows
    <3>2. CallAt(u)'
      BY <1>1, <1>3, <3>1, OthersKept, Zenon
    <3> QED
      BY <1>1, <1>3, <3>2, RecordKept, Zenon
  <2> QED
    BY <1>3, <2>2, <2>3, Zenon DEF LifeInv
<1>4. CASE ReaperScan
  <2>1. /\ UNCHANGED <<rec, frees, cwait>> /\ rpc = "scan" /\ rpc' = "observe"
        /\ \/ victim' = None /\ UNCHANGED g_reaper_list
           \/ \E i \in DOMAIN g_reaper_list :
                /\ victim' = g_reaper_list[i]
                /\ g_reaper_list' = RemoveAt(g_reaper_list, i)
    BY <1>4, Zenon DEF ReaperScan, recVars
  <2>2. \A u \in Thread : ~Reaps(u)
    BY <2>1, Zenon DEF Reaps
  <2>3. rpc' \notin {"test", "cparked", "reclaim"} /\ rpc' # "reclaim" /\ None \notin Thread
    BY <2>1, PthreadConstants, Zenon
  <2>4. CASE victim' = None /\ UNCHANGED g_reaper_list
    <3>1. \A u \in Thread : ~Reaps(u)'
      BY <2>3, <2>4, Zenon DEF Reaps
    <3>2. ASSUME NEW u \in Thread PROVE TokenAt(u)'
      <4>1. TokenAt(u)
        BY <1>1, Zenon DEF TokenInv
      <4> QED
        BY <1>1, <1>2, <2>1, <2>4, <3>1, <4>1, Zenon DEF TokenAt
    <3>3. TokenInv'
      BY <1>1, <2>3, <2>4, <3>2, Zenon DEF TokenInv
    <3>4. LifeTypes'
      BY <1>1, <2>1, <2>4, Zenon DEF LifeTypes
    <3> QED
      BY <1>1, <1>3, <2>1, <3>3, <3>4, Zenon
  <2>5. CASE \E i \in DOMAIN g_reaper_list : /\ victim' = g_reaper_list[i]
                                             /\ g_reaper_list' = RemoveAt(g_reaper_list, i)
    <3>1. PICK i \in DOMAIN g_reaper_list : /\ victim' = g_reaper_list[i]
                                            /\ g_reaper_list' = RemoveAt(g_reaper_list, i)
      BY <2>5, Zenon
    <3>2. g_reaper_list \in Seq(Thread)
      BY <1>1, Zenon DEF LifeTypes
    <3>3. /\ g_reaper_list' \in Seq(Thread) /\ victim' \in Thread /\ victim' \in Range(g_reaper_list)
          /\ Range(g_reaper_list') \subseteq Range(g_reaper_list) /\ victim' \notin Range(g_reaper_list')
          /\ \A j, k \in DOMAIN g_reaper_list' : g_reaper_list'[j] = g_reaper_list'[k] => j = k
      BY <1>1, <3>1, <3>2, ListFacts, Zenon
    <3>4. \A u \in Thread : Reaps(u)' => u = victim'
      BY Zenon DEF Reaps
    <3>5. ASSUME NEW u \in Thread PROVE TokenAt(u)'
      <4>1. TokenAt(u) /\ (u \in Range(g_reaper_list)' => u \in Range(g_reaper_list))
        BY <1>1, <3>3, Zenon DEF TokenInv
      <4>2. CASE u = victim'
        <5>1. u \in Range(g_reaper_list) /\ u \notin Range(g_reaper_list)'
          BY <3>3, <4>2, Zenon
        <5>2. \A v \in Thread : ~Pushes(v, u)
          BY <4>1, <5>1, Zenon DEF TokenAt
        <5> QED
          BY <1>1, <1>2, <2>1, <4>1, <5>1, <5>2, Zenon DEF TokenAt
      <4>3. CASE u # victim'
        <5>1. ~Reaps(u)'
          BY <3>4, <4>3, Zenon
        <5> QED
          BY <1>1, <1>2, <2>1, <4>1, <5>1, Zenon DEF TokenAt
      <4> QED
        BY <4>2, <4>3, Zenon
    <3>6. TokenInv'
      BY <2>3, <3>3, <3>5, Zenon DEF TokenInv
    <3>7. LifeTypes'
      BY <1>1, <2>1, <3>3, Zenon DEF LifeTypes
    <3> QED
      BY <1>1, <1>3, <2>1, <3>6, <3>7, Zenon
  <2> QED
    BY <2>1, <2>4, <2>5, Zenon
<1>5. CASE ReaperObserve \/ ReaperTest
  <2>1. /\ UNCHANGED <<rec, frees, g_reaper_list, victim>>
        /\ rpc \in {"observe", "test", "cparked"}
        /\ \/ rpc' = "wait"
           \/ rpc' \in {"test", "cparked", "reclaim"} /\ victim \in Thread
        /\ rpc' = "reclaim" => complete[victim]
        /\ cwait' = cwait \/ (victim \in Thread /\ cwait' = [cwait EXCEPT ![victim] = @ \cup {Reaper}])
    <3>1. CASE ReaperObserve
      BY <1>1, <3>1, Zenon DEF ReaperObserve, recVars, LifeTypes
    <3>2. CASE ReaperTest
      BY <1>1, <3>2, Zenon DEF ReaperTest, OffItsStack, TokenInv
    <3> QED
      BY <1>5, <3>1, <3>2, Zenon
  <2>2. ASSUME NEW u \in Thread PROVE Reaps(u)' => Reaps(u)
    BY <2>1, Zenon DEF Reaps
  <2>3. ASSUME NEW u \in Thread PROVE TokenAt(u)'
    <3>1. TokenAt(u)
      BY <1>1, Zenon DEF TokenInv
    <3> QED
      BY <1>1, <1>2, <2>1, <2>2, <3>1, Zenon DEF TokenAt
  <2>4. TokenInv'
    <3>1. rpc' \in {"test", "cparked", "reclaim"} => victim' \in Thread
      BY <2>1, Zenon
    <3>2. rpc' = "reclaim" => complete'[victim']
      BY <1>1, <2>1, Zenon
    <3> QED
      BY <1>1, <2>1, <2>3, <3>1, <3>2, Zenon DEF TokenInv
  <2>5. LifeTypes'
    <3>1. cwait \in [Thread -> SUBSET (Thread \cup {Reaper})]
      BY <1>1, Zenon DEF LifeTypes
    <3>2. cwait' \in [Thread -> SUBSET (Thread \cup {Reaper})]
      <4>1. CASE victim \in Thread /\ cwait' = [cwait EXCEPT ![victim] = @ \cup {Reaper}]
        <5>1. cwait[victim] \cup {Reaper} \in SUBSET (Thread \cup {Reaper})
          BY <3>1, <4>1, Zenon
        <5> QED
          BY <3>1, <4>1, <5>1, Zenon
      <4> QED
        BY <2>1, <3>1, <4>1, Zenon
    <3> QED
      BY <1>1, <2>1, <3>2, Zenon DEF LifeTypes
  <2> QED
    BY <1>1, <1>3, <2>1, <2>4, <2>5, Zenon
<1>6. CASE ReaperPark
  <2>1. UNCHANGED <<rec, frees, cwait, g_reaper_list, victim>> /\ rpc' \in {"parked", "scan"}
    BY <1>6, Zenon DEF ReaperPark, recVars
  <2>2. TokenInv'
    BY <1>1, <1>2, <2>1, TokenKept, Zenon
  <2>3. LifeTypes'
    BY <1>1, <2>1, Zenon DEF LifeTypes
  <2> QED
    BY <1>1, <1>3, <2>1, <2>2, <2>3, Zenon
<1>7. CASE ReaperReclaim
  <2>1. PICK u : u = victim
    BY Zenon
  <2>2. /\ rpc = "reclaim" /\ rpc' = "scan" /\ UNCHANGED <<g_reaper_list, victim>> /\ Reclaim(u)
    BY <1>7, <2>1, Zenon DEF ReaperReclaim
  <2>3. u \in Thread /\ complete[u] /\ Reaps(u)
    BY <1>1, <2>1, <2>2, Zenon DEF TokenInv, Reaps
  <2>4. rec[u] # "freed" /\ reap_queued[u] /\ TokenAt(u)
    BY <1>1, <2>3, Zenon DEF TokenInv, TokenAt
  <2>5. lifecycle[u] = "detached" /\ pc'[u] = pc[u]
    BY <1>1, <2>3, <2>4, Zenon DEF LifeInv, RecordAt
  <2>6. lifecycle[u] # "joinable" /\ lifecycle[u] # "joining"
    BY <2>5, Zenon
  <2>7. /\ LifeTypes' /\ RecordAt(u)' /\ rec'[u] = "freed"
        /\ \A w \in Thread \ {u} : rec'[w] = rec[w] /\ frees'[w] = frees[w]
        /\ \A w \in Thread : Grows(w)
    BY <1>1, <2>2, <2>3, <2>4, <2>5, <2>6, ReclaimFacts, Zenon
  <2>8. ASSUME NEW v \in Thread PROVE CallAt(v)'
    <3>1. pc[v] \in JoinPcs => rec'[Target(v)] = rec[Target(v)]
      <4>1. pc[v] \in JoinPcs => Target(v) \in Thread /\ lifecycle[Target(v)] = "joining"
        BY TargetFacts, Zenon DEF LifePcs, LifeInv, CallAt
      <4> QED
        BY <2>6, <2>7, <4>1, Zenon
    <3> QED
      BY <1>1, <2>7, <3>1, OthersKept, Zenon
  <2>9. \A w \in Thread : ~Reaps(w)'
    BY <2>2, Zenon DEF Reaps
  <2>10. ASSUME NEW w \in Thread PROVE TokenAt(w)'
    <3>1. TokenAt(w)
      BY <1>1, Zenon DEF TokenInv
    <3>2. CASE w = u
      <4>1. w \notin Range(g_reaper_list) /\ \A v \in Thread : ~Pushes(v, w)
        BY <2>3, <3>1, <3>2, Zenon DEF TokenAt
      <4> QED
        BY <1>2, <2>2, <2>9, <4>1, Zenon DEF TokenAt
    <3>3. CASE w # u
      BY <1>1, <1>2, <2>2, <2>7, <2>9, <3>1, <3>3, Zenon DEF TokenAt
    <3> QED
      BY <3>2, <3>3, Zenon
  <2>11. TokenInv'
    <3>1. rpc' \notin {"test", "cparked", "reclaim"} /\ rpc' # "reclaim"
      BY <2>2, Zenon
    <3> QED
      BY <1>1, <2>2, <2>10, <3>1, Zenon DEF TokenInv
  <2>12. ASSUME NEW v \in Thread \ {u} PROVE RecordAt(v)'
    BY <1>1, <2>7, RecordKept, Zenon
  <2>13. OneJoiner'
    BY <1>1, Zenon DEF LifeInv, OneJoiner, Target
  <2>14. \A v \in Thread : RecordAt(v)' /\ CallAt(v)'
    BY <2>7, <2>8, <2>12, Zenon
  <2> QED
    BY <1>1, <2>7, <2>11, <2>13, <2>14, Zenon DEF LifeInv
<1> QED
  BY <1>1, <1>4, <1>5, <1>6, <1>7, Zenon DEF ReaperStep

=============================================================================
