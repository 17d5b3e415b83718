------------------------------ MODULE Pthread ------------------------------
(***************************************************************************)
(* The synchronisation calls of packages/gdos-libc-dev/source/pthread.c    *)
(* over the kernel's futex.  Every thread runs a fixed program of calls;   *)
(* an action is what a thread does between two accesses of a shared word   *)
(* that others can interleave with.  A loop of load and compare-exchange   *)
(* whose failure only retries is one step on the value it finds.           *)
(*                                                                         *)
(* The kernel side is the contract Futex.tla establishes: a wait compares  *)
(* and enqueues in one step, a wake takes waiters in arrival order, a      *)
(* requeue moves them in that order.                                       *)
(***************************************************************************)
EXTENDS Integers, Sequences, FiniteSets, Functions

CONSTANTS
  Thread,       \* the threads
  None,         \* no thread (owner 0, a null pointer)
  Programs,     \* the programs to run, records with the fields
                \*   type   the type of the mutex
                \*   trip   trip_count of the barrier
                \*   batch  FUTEX_WAKE_BATCH and FUTEX_REQUEUE_BATCH
                \*   born   the threads that exist from the start
                \*   whom   the thread a thread's create, join, detach names
                \*   code   the calls of each thread
  RecMax,       \* UINT32_MAX, the limit of a recursive mutex
  RwMax         \* INT32_MAX, the limit of readers

ASSUME PthreadConstants ==
  /\ None \notin Thread
  /\ RecMax \in Nat \ {0}
  /\ RwMax \in Nat \ {0}

VARIABLES
  prog,         \* the program being run
  ip,           \* the call each thread is in or about to make
  pc,           \* where in the call it is
  reg,          \* the value it loaded last; -1 after a timeout
  locked, owner, recursion,     \* pthread_mutex_t
  sequence, cmutex,             \* pthread_cond_t
  ready,                        \* the predicate the condition is about
  once, rw, spin,               \* pthread_once_t, rwlock, spinlock
  count, generation,            \* pthread_barrier_t
  fq,           \* the kernel's queue of waiters on each word, oldest first
  holds,        \* history: the lock modes each thread holds
  inits,        \* history: how often the once routine has run to its end
  entered       \* history: barrier rounds each thread has entered

mutexVars == <<locked, owner, recursion>>
condVars == <<sequence, cmutex, ready>>
barrierVars == <<count, generation, entered>>
onceVars == <<once, inits>>
vars == <<prog, ip, pc, reg, locked, owner, recursion, sequence, cmutex,
          ready, once, rw, spin, count, generation, fq, holds, inits, entered>>

\* The queue s without its i-th element.
RemoveAt(s, i) == SubSeq(s, 1, i - 1) \o SubSeq(s, i + 1, Len(s))

Word == {"mutex", "cond", "once", "rw", "barrier"}

\* The calls a program may make.
Call == {"lock", "timedlock", "trylock", "unlock", "set", "wait", "timedwait",
         "signal", "broadcast", "once", "rdlock", "wrlock", "tryrdlock",
         "trywrlock", "rwunlock", "spinlock", "spinunlock", "barrier"}

Running(t, calls) ==
  /\ pc[t] = "idle"
  /\ ip[t] \in DOMAIN prog.code[t]
  /\ prog.code[t][ip[t]] \in calls

Done(t) == pc[t] = "idle" /\ ip[t] \notin DOMAIN prog.code[t]

Timed(t) == prog.code[t][ip[t]] \in {"timedlock", "timedwait"}

InCond(t) == prog.code[t][ip[t]] \in {"wait", "timedwait"}

Goto(t, l) == pc' = [pc EXCEPT ![t] = l] /\ UNCHANGED ip

Return(t) == pc' = [pc EXCEPT ![t] = "idle"] /\ ip' = [ip EXCEPT ![t] = @ + 1]

\* A wait on a condition is made again until the predicate holds or it is late.
Again(t) == IF reg[t] = -1 THEN Return(t) ELSE Goto(t, "idle")

(***************************************************************************)
(* The kernel's futex                                                      *)
(***************************************************************************)
Parked(t) == \E w \in Word : t \in Range(fq[w])

FutexWait(t, w, value, expected, parked, retry) ==
  IF value = expected
    THEN fq' = [fq EXCEPT ![w] = Append(@, t)] /\ Goto(t, parked)
    ELSE UNCHANGED fq /\ Goto(t, retry)

FutexWake(w, n) ==
  fq' = [fq EXCEPT ![w] = SubSeq(@, n + 1, Len(@))]

\* The queue s without the waiter t, who waits once at most.
Dequeued(s, t) ==
  IF t \in Range(s) THEN RemoveAt(s, CHOOSE i \in DOMAIN s : s[i] = t) ELSE s

\* futex_wake_all: a full batch means there may be more.
FutexWakeAll(t, w) ==
  /\ FutexWake(w, prog.batch)
  /\ IF Len(fq[w]) >= prog.batch THEN UNCHANGED <<pc, ip>> ELSE Return(t)

(***************************************************************************)
(* pthread_mutex_t                                                         *)
(***************************************************************************)
Held(t) == locked # 0 /\ owner = t

OwnUncontended(t, state) ==
  /\ locked' = 1 /\ owner' = t /\ recursion' = 1
  /\ holds' = [holds EXCEPT ![t] = @ \cup {"mutex"}]

\* The owner and the recursion count are read by nobody but the owner, so
\* they change with the word.
Own(t, state) ==
  /\ locked' = state /\ owner' = t /\ recursion' = 1
  /\ holds' = [holds EXCEPT ![t] = @ \cup {"mutex"}]

\* pthread_mutex_trylock, both as a call of its own and as the first step of
\* a lock: a self-lock is answered by the mutex type, EBUSY sends a lock on.
TryLock(t) ==
  /\ \/ Running(t, {"lock", "timedlock", "trylock"})
     \/ pc[t] = "relock"
  /\ \/ /\ Held(t) /\ prog.type = "recursive"
        /\ recursion' = IF recursion = RecMax THEN recursion ELSE recursion + 1
        /\ Return(t)
        /\ UNCHANGED <<locked, owner, holds>>
     \/ /\ Held(t) /\ prog.type = "errorcheck"
        /\ Return(t)
        /\ UNCHANGED <<locked, owner, recursion, holds>>
     \/ /\ locked = 0
        /\ Own(t, 1)
        /\ IF pc[t] = "relock" THEN Again(t) ELSE Return(t)
     \/ /\ locked # 0
        /\ Held(t) => prog.type = "normal"
        /\ IF prog.code[t][ip[t]] = "trylock" THEN Return(t) ELSE Goto(t, "lock")
        /\ UNCHANGED <<locked, owner, recursion, holds>>
  /\ UNCHANGED <<prog, reg, condVars, onceVars, rw, spin, barrierVars, fq>>

\* The loop of mutex_lock_deadline: take a free mutex as 2, mark a held one
\* contended and go to sleep on it.
LockLoop(t) ==
  /\ pc[t] = "lock"
  /\ IF locked = 0
       THEN /\ Own(t, 2)
            /\ IF InCond(t) THEN Again(t) ELSE Return(t)
       ELSE /\ locked' = 2
            /\ Goto(t, "lock_wait")
            /\ UNCHANGED <<owner, recursion, holds>>
  /\ UNCHANGED <<prog, reg, condVars, onceVars, rw, spin, barrierVars, fq>>

LockPark(t) ==
  /\ pc[t] = "lock_wait"
  /\ FutexWait(t, "mutex", locked, 2, "lock_parked", "lock")
  /\ UNCHANGED <<prog, reg, mutexVars, condVars, onceVars, rw, spin, barrierVars, holds>>

\* pthread_mutex_unlock: only the owner; the last level frees the word, and
\* a contended one costs a wake.  A wait on a condition goes on from here.
UnlockBody(t, next) ==
  /\ Held(t)
  /\ IF prog.type = "recursive" /\ recursion > 1
       THEN /\ recursion' = recursion - 1
            /\ IF next = "return" THEN Return(t) ELSE Goto(t, next)
            /\ UNCHANGED <<locked, owner, holds>>
       ELSE /\ locked' = 0 /\ owner' = None /\ recursion' = 0
            /\ holds' = [holds EXCEPT ![t] = @ \ {"mutex"}]
            /\ IF locked = 2
                 THEN Goto(t, IF next = "return" THEN "unlock_wake" ELSE "wait_wake")
                 ELSE IF next = "return" THEN Return(t) ELSE Goto(t, next)

Unlock(t) ==
  /\ Running(t, {"unlock"})
  /\ \/ UnlockBody(t, "return")
     \/ ~Held(t) /\ Return(t) /\ UNCHANGED <<mutexVars, holds>>
  /\ UNCHANGED <<prog, reg, condVars, onceVars, rw, spin, barrierVars, fq>>

UnlockWake(t) ==
  /\ pc[t] \in {"unlock_wake", "wait_wake"}
  /\ FutexWake("mutex", 1)
  /\ IF pc[t] = "unlock_wake" THEN Return(t) ELSE Goto(t, "wait_test")
  /\ UNCHANGED <<prog, reg, mutexVars, condVars, onceVars, rw, spin, barrierVars, holds>>

(***************************************************************************)
(* pthread_cond_t.  A program waits in the usual loop on a predicate that  *)
(* another thread sets while it holds the mutex.                           *)
(***************************************************************************)
SetReady(t) ==
  /\ Running(t, {"set"})
  /\ ready' = TRUE
  /\ Return(t)
  /\ UNCHANGED <<prog, reg, mutexVars, sequence, cmutex, onceVars, rw, spin,
                 barrierVars, fq, holds>>

WaitBegin(t) ==
  /\ Running(t, {"wait", "timedwait"})
  /\ IF ready
       THEN Return(t) /\ UNCHANGED reg
       ELSE reg' = [reg EXCEPT ![t] = sequence] /\ Goto(t, "wait_record")
  /\ UNCHANGED <<prog, mutexVars, condVars, onceVars, rw, spin, barrierVars, fq, holds>>

WaitRecord(t) ==
  /\ pc[t] = "wait_record"
  /\ cmutex' = TRUE
  /\ Goto(t, "wait_unlock")
  /\ UNCHANGED <<prog, reg, mutexVars, sequence, ready, onceVars, rw, spin,
                 barrierVars, fq, holds>>

WaitUnlock(t) ==
  /\ pc[t] = "wait_unlock"
  /\ \/ UnlockBody(t, "wait_test")
     \/ ~Held(t) /\ Return(t) /\ UNCHANGED <<mutexVars, holds>>
  /\ UNCHANGED <<prog, reg, condVars, onceVars, rw, spin, barrierVars, fq>>

\* The sequence test of the loop in cond_wait_deadline.
WaitTest(t) ==
  /\ pc[t] = "wait_test"
  /\ Goto(t, IF sequence = reg[t] THEN "wait_wait" ELSE "relock")
  /\ UNCHANGED <<prog, reg, mutexVars, condVars, onceVars, rw, spin, barrierVars, fq, holds>>

WaitPark(t) ==
  /\ pc[t] = "wait_wait"
  /\ FutexWait(t, "cond", sequence, reg[t], "wait_parked", "wait_test")
  /\ UNCHANGED <<prog, reg, mutexVars, condVars, onceVars, rw, spin, barrierVars, holds>>

Signal(t) ==
  /\ Running(t, {"signal", "broadcast"})
  /\ sequence' = sequence + 1
  /\ reg' = [reg EXCEPT ![t] = sequence + 1]
  /\ Goto(t, prog.code[t][ip[t]])
  /\ UNCHANGED <<prog, mutexVars, cmutex, ready, onceVars, rw, spin, barrierVars, fq, holds>>

SignalWake(t) ==
  /\ pc[t] = "signal"
  /\ FutexWake("cond", 1)
  /\ Return(t)
  /\ UNCHANGED <<prog, reg, mutexVars, condVars, onceVars, rw, spin, barrierVars, holds>>

\* The rest of pthread_cond_broadcast: read the recorded mutex, wake one,
\* move the others to the mutex word, then mark that word contended.
BroadcastLoad(t) ==
  /\ pc[t] = "broadcast"
  /\ Goto(t, IF cmutex THEN "bc_wake" ELSE "bc_wake_null")
  /\ UNCHANGED <<prog, reg, mutexVars, condVars, onceVars, rw, spin, barrierVars, fq, holds>>

BroadcastWake(t) ==
  /\ pc[t] \in {"bc_wake", "bc_wake_null"}
  /\ FutexWake("cond", 1)
  /\ Goto(t, IF pc[t] = "bc_wake" THEN "bc_requeue" ELSE "bc_all")
  /\ UNCHANGED <<prog, reg, mutexVars, condVars, onceVars, rw, spin, barrierVars, holds>>

BroadcastAll(t) ==
  /\ pc[t] = "bc_all"
  /\ FutexWakeAll(t, "cond")
  /\ UNCHANGED <<prog, reg, mutexVars, condVars, onceVars, rw, spin, barrierVars, holds>>

BroadcastRequeue(t) ==
  /\ pc[t] \in {"bc_requeue", "bc_requeue_more"}
  /\ LET n == IF sequence = reg[t] THEN Len(fq["cond"]) ELSE 0
         k == IF n > prog.batch THEN prog.batch ELSE n
         some == k > 0 \/ pc[t] = "bc_requeue_more"
     IN /\ fq' = [fq EXCEPT !["mutex"] = @ \o SubSeq(fq["cond"], 1, k),
                            !["cond"] = SubSeq(@, k + 1, Len(@))]
        /\ IF k = prog.batch THEN Goto(t, "bc_requeue_more")
             ELSE IF some THEN Goto(t, "bc_mark") ELSE Return(t)
  /\ UNCHANGED <<prog, reg, mutexVars, condVars, onceVars, rw, spin, barrierVars, holds>>

BroadcastMark(t) ==
  /\ pc[t] = "bc_mark"
  /\ IF locked = 0
       THEN Goto(t, "unlock_wake") /\ UNCHANGED locked
       ELSE locked' = 2 /\ Return(t)
  /\ UNCHANGED <<prog, reg, owner, recursion, condVars, onceVars, rw, spin,
                 barrierVars, fq, holds>>

(***************************************************************************)
(* Coming back from the kernel: woken by somebody, or late.                *)
(***************************************************************************)
RetryAt(l) ==
  CASE l = "lock_parked" -> "lock"
    [] l = "wait_parked" -> "wait_test"
    [] l = "once_parked" -> "once_test"
    [] l = "rd_parked" -> "rd_try"
    [] l = "wr_parked" -> "wr_try"
    [] OTHER -> "barrier_test"

ParkedAt == {"lock_parked", "wait_parked", "once_parked", "rd_parked",
             "wr_parked", "barrier_parked"}

Woken(t) ==
  /\ pc[t] \in ParkedAt
  /\ ~Parked(t)
  /\ Goto(t, RetryAt(pc[t]))
  /\ UNCHANGED <<prog, reg, mutexVars, condVars, onceVars, rw, spin, barrierVars, fq, holds>>

\* The deadline passes: a timed lock gives up, a timed wait takes the mutex
\* again all the same.
TimedOut(t) ==
  /\ pc[t] \in {"lock_parked", "wait_parked"}
  /\ Timed(t)
  /\ Parked(t)
  /\ fq' = [w \in Word |-> Dequeued(fq[w], t)]
  /\ IF pc[t] = "wait_parked"
       THEN reg' = [reg EXCEPT ![t] = -1] /\ Goto(t, "relock")
       ELSE Return(t) /\ UNCHANGED reg
  /\ UNCHANGED <<prog, mutexVars, condVars, onceVars, rw, spin, barrierVars, holds>>

(***************************************************************************)
(* pthread_once: 0 untouched, 1 running, 2 done                            *)
(***************************************************************************)
OnceBegin(t) ==
  /\ Running(t, {"once"})
  /\ \/ once = 2 /\ Return(t) /\ UNCHANGED once
     \/ once = 0 /\ once' = 1 /\ Goto(t, "once_init")
     \/ once = 1 /\ Goto(t, "once_test") /\ UNCHANGED once
  /\ UNCHANGED <<prog, reg, mutexVars, condVars, inits, rw, spin, barrierVars, fq, holds>>

OnceInit(t) ==
  /\ pc[t] = "once_init"
  /\ inits' = inits + 1
  /\ Goto(t, "once_store")
  /\ UNCHANGED <<prog, reg, mutexVars, condVars, once, rw, spin, barrierVars, fq, holds>>

OnceStore(t) ==
  /\ pc[t] = "once_store"
  /\ once' = 2
  /\ Goto(t, "once_wake")
  /\ UNCHANGED <<prog, reg, mutexVars, condVars, inits, rw, spin, barrierVars, fq, holds>>

OnceWake(t) ==
  /\ pc[t] = "once_wake"
  /\ FutexWakeAll(t, "once")
  /\ UNCHANGED <<prog, reg, mutexVars, condVars, onceVars, rw, spin, barrierVars, holds>>

OnceSeenDone == once = 2

\* The test of the waiting loop, and the second load it parks on.
OnceTest(t) ==
  /\ pc[t] = "once_test"
  /\ IF OnceSeenDone THEN Return(t) ELSE Goto(t, "once_load")
  /\ UNCHANGED <<prog, reg, mutexVars, condVars, onceVars, rw, spin, barrierVars, fq, holds>>

OnceLoad(t) ==
  /\ pc[t] = "once_load"
  /\ reg' = [reg EXCEPT ![t] = once]
  /\ Goto(t, IF once = 2 THEN "once_test" ELSE "once_wait")
  /\ UNCHANGED <<prog, mutexVars, condVars, onceVars, rw, spin, barrierVars, fq, holds>>

OncePark(t) ==
  /\ pc[t] = "once_wait"
  /\ FutexWait(t, "once", once, reg[t], "once_parked", "once_test")
  /\ UNCHANGED <<prog, reg, mutexVars, condVars, onceVars, rw, spin, barrierVars, holds>>

(***************************************************************************)
(* pthread_rwlock_t: -1 a writer, n > 0 readers                            *)
(***************************************************************************)

ReaderMay == rw >= 0 /\ rw < RwMax

WriterMayAmongReaders == rw >= 0

WriterMay == rw = 0

RdTry(t) ==
  /\ Running(t, {"rdlock", "tryrdlock"}) \/ pc[t] = "rd_try"
  /\ IF ReaderMay
       THEN /\ rw' = rw + 1
            /\ holds' = [holds EXCEPT ![t] = @ \cup {"read"}]
            /\ Return(t)
       ELSE /\ IF prog.code[t][ip[t]] = "tryrdlock" THEN Return(t) ELSE Goto(t, "rd_load")
            /\ UNCHANGED <<rw, holds>>
  /\ UNCHANGED <<prog, reg, mutexVars, condVars, onceVars, spin, barrierVars, fq>>

WrTry(t) ==
  /\ Running(t, {"wrlock", "trywrlock"}) \/ pc[t] = "wr_try"
  /\ IF WriterMay
       THEN /\ rw' = -1
            /\ holds' = [holds EXCEPT ![t] = @ \cup {"write"}]
            /\ Return(t)
       ELSE /\ IF prog.code[t][ip[t]] = "trywrlock" THEN Return(t) ELSE Goto(t, "wr_load")
            /\ UNCHANGED <<rw, holds>>
  /\ UNCHANGED <<prog, reg, mutexVars, condVars, onceVars, spin, barrierVars, fq>>

\* After EBUSY the state is loaded again: this is the value slept on.
RwLoad(t) ==
  /\ pc[t] \in {"rd_load", "wr_load"}
  /\ reg' = [reg EXCEPT ![t] = rw]
  /\ Goto(t, IF pc[t] = "rd_load" THEN "rd_wait" ELSE "wr_wait")
  /\ UNCHANGED <<prog, mutexVars, condVars, onceVars, rw, spin, barrierVars, fq, holds>>

RwPark(t) ==
  /\ \/ pc[t] = "rd_wait" /\ FutexWait(t, "rw", rw, reg[t], "rd_parked", "rd_try")
     \/ pc[t] = "wr_wait" /\ FutexWait(t, "rw", rw, reg[t], "wr_parked", "wr_try")
  /\ UNCHANGED <<prog, reg, mutexVars, condVars, onceVars, rw, spin, barrierVars, holds>>

RwUnlock(t) ==
  /\ Running(t, {"rwunlock"})
  /\ IF rw = 0
       THEN Return(t) /\ UNCHANGED <<rw, holds>>
       ELSE /\ rw' = IF rw = -1 THEN 0 ELSE rw - 1
            /\ holds' = [holds EXCEPT ![t] = @ \ {"read", "write"}]
            /\ Goto(t, "rw_wake")
  /\ UNCHANGED <<prog, reg, mutexVars, condVars, onceVars, spin, barrierVars, fq>>

RwWake(t) ==
  /\ pc[t] = "rw_wake"
  /\ FutexWakeAll(t, "rw")
  /\ UNCHANGED <<prog, reg, mutexVars, condVars, onceVars, rw, spin, barrierVars, holds>>

(***************************************************************************)
(* pthread_spinlock_t                                                      *)
(***************************************************************************)
SpinLock(t) ==
  /\ Running(t, {"spinlock"})
  /\ spin = 0
  /\ spin' = 1
  /\ holds' = [holds EXCEPT ![t] = @ \cup {"spin"}]
  /\ Return(t)
  /\ UNCHANGED <<prog, reg, mutexVars, condVars, onceVars, rw, barrierVars, fq>>

SpinUnlock(t) ==
  /\ Running(t, {"spinunlock"})
  /\ spin' = 0
  /\ holds' = [holds EXCEPT ![t] = @ \ {"spin"}]
  /\ Return(t)
  /\ UNCHANGED <<prog, reg, mutexVars, condVars, onceVars, rw, barrierVars, fq>>

(***************************************************************************)
(* pthread_barrier_t                                                       *)
(***************************************************************************)
BarrierBegin(t) ==
  /\ Running(t, {"barrier"})
  /\ reg' = [reg EXCEPT ![t] = generation]
  /\ Goto(t, "barrier_arrive")
  /\ UNCHANGED <<prog, mutexVars, condVars, onceVars, rw, spin, barrierVars, fq, holds>>

LastArrivesEarly == count + 2 = prog.trip

LastArrives == count + 1 = prog.trip

BarrierArrive(t) ==
  /\ pc[t] = "barrier_arrive"
  /\ count' = count + 1
  /\ entered' = [entered EXCEPT ![t] = @ + 1]
  /\ Goto(t, IF LastArrives THEN "barrier_reset" ELSE "barrier_test")
  /\ UNCHANGED <<prog, reg, mutexVars, condVars, onceVars, rw, spin, generation, fq, holds>>

BarrierReset(t) ==
  /\ pc[t] = "barrier_reset"
  /\ count' = 0
  /\ Goto(t, "barrier_bump")
  /\ UNCHANGED <<prog, reg, mutexVars, condVars, onceVars, rw, spin, generation,
                 entered, fq, holds>>

BarrierBump(t) ==
  /\ pc[t] = "barrier_bump"
  /\ generation' = generation + 1
  /\ Goto(t, "barrier_wake")
  /\ UNCHANGED <<prog, reg, mutexVars, condVars, onceVars, rw, spin, count,
                 entered, fq, holds>>

BarrierWake(t) ==
  /\ pc[t] = "barrier_wake"
  /\ FutexWakeAll(t, "barrier")
  /\ UNCHANGED <<prog, reg, mutexVars, condVars, onceVars, rw, spin, barrierVars, holds>>

BarrierTest(t) ==
  /\ pc[t] = "barrier_test"
  /\ IF generation = reg[t] THEN Goto(t, "barrier_wait") ELSE Return(t)
  /\ UNCHANGED <<prog, reg, mutexVars, condVars, onceVars, rw, spin, barrierVars, fq, holds>>

BarrierPark(t) ==
  /\ pc[t] = "barrier_wait"
  /\ FutexWait(t, "barrier", generation, reg[t], "barrier_parked", "barrier_test")
  /\ UNCHANGED <<prog, reg, mutexVars, condVars, onceVars, rw, spin, barrierVars, holds>>

(***************************************************************************)
(* The system                                                              *)
(***************************************************************************)
Init ==
  /\ prog \in Programs
  /\ ip = [t \in Thread |-> 1]
  /\ pc = [t \in Thread |-> IF t \in prog.born THEN "idle" ELSE "unborn"]
  /\ reg = [t \in Thread |-> 0]
  /\ locked = 0 /\ owner = None /\ recursion = 0
  /\ sequence = 0 /\ cmutex = FALSE /\ ready = FALSE
  /\ once = 0 /\ rw = 0 /\ spin = 0
  /\ count = 0 /\ generation = 0
  /\ fq = [w \in Word |-> <<>>]
  /\ holds = [t \in Thread |-> {}]
  /\ inits = 0
  /\ entered = [t \in Thread |-> 0]

MutexStep(t) == TryLock(t) \/ LockLoop(t) \/ LockPark(t) \/ Unlock(t) \/ UnlockWake(t)

CondStep(t) ==
  \/ SetReady(t) \/ WaitBegin(t) \/ WaitRecord(t) \/ WaitUnlock(t)
  \/ WaitTest(t) \/ WaitPark(t) \/ Signal(t) \/ SignalWake(t)
  \/ BroadcastLoad(t) \/ BroadcastWake(t) \/ BroadcastAll(t)
  \/ BroadcastRequeue(t) \/ BroadcastMark(t)

OnceStep(t) ==
  \/ OnceBegin(t) \/ OnceInit(t) \/ OnceStore(t) \/ OnceWake(t)
  \/ OnceTest(t) \/ OnceLoad(t) \/ OncePark(t)

RwStep(t) == RdTry(t) \/ WrTry(t) \/ RwLoad(t) \/ RwPark(t) \/ RwUnlock(t) \/ RwWake(t)

SpinStep(t) == SpinLock(t) \/ SpinUnlock(t)

BarrierStep(t) ==
  \/ BarrierBegin(t) \/ BarrierArrive(t) \/ BarrierReset(t) \/ BarrierBump(t)
  \/ BarrierWake(t) \/ BarrierTest(t) \/ BarrierPark(t)

Step(t) ==
  \/ MutexStep(t) \/ CondStep(t) \/ OnceStep(t) \/ RwStep(t) \/ SpinStep(t)
  \/ BarrierStep(t) \/ Woken(t)

Next == \E t \in Thread : Step(t) \/ TimedOut(t)

Spec == Init /\ [][Next]_vars

(***************************************************************************)
(* Properties                                                              *)
(***************************************************************************)
Lock == INSTANCE Locks

\* The mutex, rwlock and spin lock built from words, queues and retries
\* (pthread_mutex_*, pthread_rwlock_*, pthread_spin_*) implement Locks.tla:
\* however calls interleave, time out, or are requeued by a broadcast, a
\* thread comes to hold a lock only while no other thread holds it in a
\* conflicting mode, and every lock is let go of by its holder.
ImplementsLocks == Lock!Spec

Before(t, call) == {i \in DOMAIN prog.code[t] : i < ip[t] /\ prog.code[t][i] = call}

Uses(t, call) == \E i \in DOMAIN prog.code[t] : prog.code[t][i] = call

\* No call returns before what it waits for.  pthread_once: the routine runs at
\* most once, and to its end before any thread's call returns, whoever parked,
\* woke or arrived late.  pthread_barrier_wait: a thread that has come out of its
\* n-th barrier did so after every participant had entered its own n-th, although
\* fast threads are already in the next round while slow ones still wake up from
\* this one.
NoEarlyReturn ==
  /\ inits <= 1
  /\ \A t \in Thread : Before(t, "once") # {} => inits = 1
  /\ \A t, u \in {v \in Thread : Uses(v, "barrier")} :
       entered[u] >= Cardinality(Before(t, "barrier"))

=============================================================================
