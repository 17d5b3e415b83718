------------------------------- MODULE Futex -------------------------------
(***************************************************************************)
(* The futex claim protocol of kernel/src/futex.c with every path that can *)
(* touch a parked thread: wait, wake, requeue, the completion publish of a *)
(* thread exit, deadline expiry (timer.c), the park / switch-out / dispatch*)
(* edge of the scheduler (thread.c, scheduler.c) and the reaping of a dead *)
(* process's threads (process.c).                                          *)
(*                                                                         *)
(* The actors are the CPUs.  The kernel runs with interrupts off, so a CPU *)
(* executes one kernel path at a time and the interleavings are between    *)
(* CPUs, plus timer interrupts taken in user mode or in the idle loop.     *)
(* A step is one access to state another CPU can see: a CAS on wake_state, *)
(* a load the code later acts on, or a whole section under one lock whose  *)
(* intermediate states no other CPU can observe.                           *)
(*                                                                         *)
(* Locks are read off the program counters (HeldBuckets, UmemFree,         *)
(* TimerFree).  The sequence number of a wait key is abstracted to the     *)
(* order it induces: older[t] is the set of threads queued with a smaller  *)
(* number.  Time is abstracted: any armed deadline may be due.             *)
(***************************************************************************)
EXTENDS Naturals, Sequences, FiniteSets

CONSTANTS
  Threads,      \* TCBs (tids are never reused)
  Cpus,
  Addrs,        \* futex words
  Procs,
  None,
  InitProc,     \* g_init, parent of every other process here
  ProcOf,       \* t->proc
  Completion,   \* t->completion_event, or None when completion_block is null
  BucketOf,     \* bucket index of an address: two addresses may collide
  BootQueue,    \* the run queues at the start: the threads already spawned
  Ops,          \* the system calls the user threads issue
  WakeBatch,    \* FUTEX_WAKE_BATCH and FUTEX_REQUEUE_BATCH
  IrqBatch      \* TIMER_IRQ_BATCH

VARIABLES
  life,            \* "unborn", "live" or "freed": the TCB's slab lifetime
  status,          \* t->status
  on_cpu,          \* t->on_cpu
  wake_state,      \* t->wake_state
  node,            \* address under which a bucket tree holds t, or None
  older,           \* the order of the sequence numbers of the held nodes
  deadline_cpu,    \* CPU whose deadline tree holds t, None when deadline is 0
  word,            \* the 32-bit futex words, 0 or 1
  dead,            \* process_is_dead(p): the effective death of a process
  runq,            \* scheduler.queue of each CPU
  current_thread,  \* scheduler.current_thread of each CPU
  pc,              \* where each CPU is
  ret,             \* where the CPU goes when its batch is finished
  req,             \* arguments of the call in progress
  batch,           \* the claimed threads this CPU still has to finish
  seen,            \* the scan cursor: the threads already visited
  tgt,             \* prev, victim, or the waiter in hand
  panicked         \* an asserts() failed

tcbs == <<life, status, on_cpu, wake_state>>
waits == <<node, older, deadline_cpu>>
locals == <<ret, req, batch, seen, tgt>>
vars == <<tcbs, waits, word, dead, runq, current_thread, pc, locals, panicked>>

ThreadOrNone == Threads \cup {None}
Queued(c) == {runq[c][i] : i \in DOMAIN runq[c]}
Booted == UNION {{BootQueue[c][i] : i \in DOMAIN BootQueue[c]} : c \in Cpus}
WakeReq(a, n) == [addr |-> a, dest |-> None, expected |-> 0, timed |-> FALSE,
                  count |-> n]
NoReq == WakeReq(None, 0)
Requests == [addr: Addrs \cup {None}, dest: Addrs \cup {None},
             expected: {0, 1}, timed: BOOLEAN, count: 0..WakeBatch]

ASSUME ConstantsAssumption ==
  /\ None \notin Threads \cup Cpus \cup Addrs \cup Procs
  /\ InitProc \in Procs
  /\ ProcOf \in [Threads -> Procs]
  /\ Completion \in [Threads -> Addrs \cup {None}]
  /\ BucketOf \in [Addrs -> Nat]
  /\ BootQueue \in [Cpus -> Seq(Threads)]
  /\ \A c, d \in Cpus : \A i \in DOMAIN BootQueue[c], j \in DOMAIN BootQueue[d] :
       BootQueue[c][i] = BootQueue[d][j] => c = d /\ i = j
  /\ WakeBatch \in Nat \ {0}
  /\ IrqBatch \in Nat \ {0}

UserPcs == {"user", "sched"}
ScanPcs == {"wake_scan", "rq_scan", "rq_move"}
FinishPcs == {"cancel", "release", "unblock", "unclaim", "enqueue"}
ReapPcs == {"d_unlink", "d_cancel", "d_free"}
DestroyPcs == {"d_on_cpu", "d_status", "d_wake_state", "d_claim"} \cup ReapPcs
Pcs == UserPcs \cup ScanPcs \cup FinishPcs \cup DestroyPcs \cup
       {"wake", "wait", "compare", "park", "exit", "switch", "check_dead",
        "exited", "publish", "dispose", "rq_lo", "rq_hi", "irq_scan",
        "irq_claim", "expire", "irq_ret"}

(***************************************************************************)
(* Locks.                                                                  *)
(***************************************************************************)
\* Mutation: the source's bucket is always taken first.
LoUnordered(c) == BucketOf[req[c].addr]

Lo(c) == IF BucketOf[req[c].addr] <= BucketOf[req[c].dest]
         THEN BucketOf[req[c].addr] ELSE BucketOf[req[c].dest]
Hi(c) == IF Lo(c) = BucketOf[req[c].addr]
         THEN BucketOf[req[c].dest] ELSE BucketOf[req[c].addr]

\* The buckets whose spinlock CPU c holds between two of its steps.
HeldBuckets(c) ==
  CASE pc[c] = "wake_scan" -> {BucketOf[req[c].addr]}
    [] pc[c] = "rq_hi" -> {Lo(c)}
    [] pc[c] \in {"rq_scan", "rq_move"} -> {Lo(c), Hi(c)}
    [] OTHER -> {}
BucketFree(b) == \A d \in Cpus : b \notin HeldBuckets(d)

\* g_umem is held over a whole THREAD_DESTROY and over the publication and
\* disposal of an exited thread.
HoldsUmem(c) == pc[c] \in DestroyPcs \/ ret[c] = "dispose"
UmemFree == \A d \in Cpus : ~HoldsUmem(d)

\* A CPU's timer_lock is held over the scan of its deadline tree.
TimerFree(c) == pc[c] \notin {"irq_scan", "irq_claim"}

(***************************************************************************)
(* Bucket trees.                                                           *)
(***************************************************************************)
Unlink(t) ==
  /\ node' = [node EXCEPT ![t] = None]
  /\ older' = [u \in Threads |-> IF u = t THEN {} ELSE older[u] \ {t}]

\* Insertion under a fresh sequence number: t goes last.
Link(t, a) ==
  /\ node' = [node EXCEPT ![t] = a]
  /\ older' = [u \in Threads |-> IF u = t
                                 THEN {x \in Threads : node[x] # None} \ {t}
                                 ELSE older[u] \ {t}]

\* The lower-bound seek of a scan: the oldest waiter not yet visited.
Unvisited(c) == {t \in Threads : node[t] = req[c].addr} \ seen[c]
\* Mutation: the seek returns any waiter, not the oldest.
IsNextWaiterUnordered(c, t) == t \in Unvisited(c)

IsNextWaiter(c, t) == t \in Unvisited(c) /\ older[t] \cap Unvisited(c) = {}

IsDead(t) == dead[ProcOf[t]]
Goto(c, l) == pc' = [pc EXCEPT ![c] = l]

(***************************************************************************)
(* Boot: the threads of BootQueue are spawned and runnable.                *)
(***************************************************************************)
Init ==
  /\ life = [t \in Threads |-> IF t \in Booted THEN "live" ELSE "unborn"]
  /\ status = [t \in Threads |-> "RUNNABLE"]
  /\ on_cpu = [t \in Threads |-> FALSE]
  /\ wake_state = [t \in Threads |-> "IDLE"]
  /\ node = [t \in Threads |-> None]
  /\ older = [t \in Threads |-> {}]
  /\ deadline_cpu = [t \in Threads |-> None]
  /\ word = [a \in Addrs |-> 0]
  /\ dead = [p \in Procs |-> FALSE]
  /\ runq = BootQueue
  /\ current_thread = [c \in Cpus |-> None]
  /\ pc = [c \in Cpus |-> "sched"]
  /\ ret = [c \in Cpus |-> "user"]
  /\ req = [c \in Cpus |-> NoReq]
  /\ batch = [c \in Cpus |-> <<>>]
  /\ seen = [c \in Cpus |-> {}]
  /\ tgt = [c \in Cpus |-> None]
  /\ panicked = FALSE


(***************************************************************************)
(* System calls and interrupts taken in user mode.                         *)
(***************************************************************************)
CompletionWords == {Completion[t] : t \in Threads} \ {None}

\* A thread runs user code on c and the dispatcher's death checkpoint passes.
InUser(c, op) ==
  /\ pc[c] = "user"
  /\ op \in Ops
  /\ ~IsDead(current_thread[c])

Reset(c) ==
  /\ ret' = [ret EXCEPT ![c] = "user"]
  /\ req' = [req EXCEPT ![c] = NoReq]
  /\ tgt' = [tgt EXCEPT ![c] = None]

Leave(c, l) == Goto(c, l) /\ Reset(c)

\* User code writes a futex word: no kernel lock is involved.  A completion
\* word is written by the kernel only.
Store(c, a, v) ==
  /\ pc[c] = "user" /\ "store" \in Ops
  /\ a \notin CompletionWords
  /\ word' = [word EXCEPT ![a] = v]
  /\ UNCHANGED <<tcbs, waits, dead, runq, current_thread, pc, locals, panicked>>

\* futex_sys_wait up to the park: the fused wake of one waiter of w comes first.
\* A completion word lies in a private block: only its own process can wait on
\* it, and a joiner waits for it to leave 0.
SysWait(c, a, v, timed, w) ==
  /\ InUser(c, "wait")
  /\ timed => "timed" \in Ops
  /\ w # None => "fused" \in Ops
  /\ \A u \in Threads : Completion[u] = a
                        => v = 0 /\ ProcOf[u] = ProcOf[current_thread[c]]
  /\ req' = [req EXCEPT ![c] = [addr |-> w, dest |-> a, expected |-> v,
                                timed |-> timed, count |-> 1]]
  /\ ret' = [ret EXCEPT ![c] = "wait"]
  /\ Goto(c, IF w = None THEN "wait" ELSE "wake")
  /\ UNCHANGED <<tcbs, waits, word, dead, runq, current_thread, batch, seen,
                 tgt, panicked>>

SysWake(c, a, n) ==
  /\ InUser(c, "wake")
  /\ req' = [req EXCEPT ![c] = WakeReq(a, n)]
  /\ Goto(c, "wake")
  /\ UNCHANGED <<tcbs, waits, word, dead, runq, current_thread, ret, batch,
                 seen, tgt, panicked>>

SysRequeue(c, from, to, v, n) ==
  /\ InUser(c, "requeue")
  /\ from # to
  /\ req' = [req EXCEPT ![c] = [addr |-> from, dest |-> to, expected |-> v,
                                timed |-> FALSE, count |-> n]]
  /\ Goto(c, "rq_lo")
  /\ UNCHANGED <<tcbs, waits, word, dead, runq, current_thread, ret, batch,
                 seen, tgt, panicked>>

\* SYS_THREAD_EXIT.  init's threads never exit: the kernel asserts "init died".
SysExit(c) ==
  /\ InUser(c, "exit")
  /\ ProcOf[current_thread[c]] # InitProc
  /\ Goto(c, "exit")
  /\ UNCHANGED <<tcbs, waits, word, dead, runq, current_thread, locals,
                 panicked>>

\* SYS_PROC_EXIT, and a fault taken in user mode.
SysProcExit(c) ==
  /\ InUser(c, "proc_exit")
  /\ ProcOf[current_thread[c]] # InitProc
  /\ UmemFree
  /\ dead' = [dead EXCEPT ![ProcOf[current_thread[c]]] = TRUE]
  /\ Goto(c, "exit")
  /\ UNCHANGED <<tcbs, waits, word, runq, current_thread, locals, panicked>>

\* SYS_PROC_KILL by the parent: one mark, seen by everybody from here on.
SysKill(c, p) ==
  /\ InUser(c, "kill")
  /\ ProcOf[current_thread[c]] = InitProc /\ p # InitProc
  /\ UmemFree
  /\ dead' = [dead EXCEPT ![p] = TRUE]
  /\ UNCHANGED <<tcbs, waits, word, runq, current_thread, pc, locals, panicked>>

\* Pushing onto the round-robin target's queue; the target is left open.
Enqueue(t) ==
  \E d \in Cpus : runq' = [runq EXCEPT ![d] = Append(@, t)]

SysThreadSpawn(c, t) ==
  /\ InUser(c, "spawn")
  /\ ProcOf[current_thread[c]] \in {ProcOf[t], InitProc}
  /\ UmemFree
  /\ life[t] = "unborn" /\ ~IsDead(t)
  /\ life' = [life EXCEPT ![t] = "live"]
  /\ Enqueue(t)
  /\ UNCHANGED <<status, on_cpu, wake_state, waits, word, dead, current_thread,
                 pc, locals, panicked>>

\* SYS_THREAD_DESTROY by a sibling ("destroy") or by the parent of a dead
\* process ("reap").
SysThreadDestroy(c, t) ==
  /\ \/ InUser(c, "destroy") /\ ProcOf[t] = ProcOf[current_thread[c]]
     \/ /\ InUser(c, "reap")
        /\ ProcOf[current_thread[c]] = InitProc
        /\ ProcOf[t] # InitProc /\ IsDead(t)
  /\ UmemFree
  /\ life[t] = "live"
  /\ tgt' = [tgt EXCEPT ![c] = t]
  /\ Goto(c, "d_on_cpu")
  /\ UNCHANGED <<tcbs, waits, word, dead, runq, current_thread, ret, req, batch,
                 seen, panicked>>

\* SYS_YIELD, or the end of the quantum: a local requeue only.
Yield(c) ==
  /\ pc[c] = "user" /\ "yield" \in Ops
  /\ ~IsDead(current_thread[c])
  /\ status' = [status EXCEPT ![current_thread[c]] = "RUNNABLE"]
  /\ runq' = [runq EXCEPT ![c] = Append(@, current_thread[c])]
  /\ Goto(c, "switch")
  /\ UNCHANGED <<life, on_cpu, wake_state, waits, word, dead, current_thread,
                 locals, panicked>>

\* cull_if_killed: any kernel entry of a thread of a dead process ends in exit.
Cull(c) ==
  /\ pc[c] = "user" /\ IsDead(current_thread[c])
  /\ Goto(c, "exit")
  /\ UNCHANGED <<tcbs, waits, word, dead, runq, current_thread, locals,
                 panicked>>

(***************************************************************************)
(* futex_sys_wait: the death check, then compare-and-park under the bucket.*)
(***************************************************************************)
WaitCheck(c) ==
  /\ pc[c] = "wait"
  /\ IF IsDead(current_thread[c])
     THEN Leave(c, "exit")
     ELSE Goto(c, "compare") /\ UNCHANGED <<ret, req, tgt>>
  /\ UNCHANGED <<tcbs, waits, word, dead, runq, current_thread, batch, seen,
                 panicked>>

\* The word differs (SYSERR_AGAIN), or an allocation fails and the partial wait
\* is rolled back (SYSERR_NOMEM): the caller returns with nothing installed.
WaitReturns(c) ==
  /\ pc[c] = "compare"
  /\ BucketFree(BucketOf[req[c].dest])
  /\ word[req[c].dest] # req[c].expected \/ "nomem" \in Ops
  /\ Leave(c, "user")
  /\ UNCHANGED <<tcbs, waits, word, dead, runq, current_thread, batch, seen,
                 panicked>>

\* Mutation: the word is not compared again under the bucket.
WaitParksUncompared(c) ==
  LET t == current_thread[c] IN
  /\ pc[c] = "compare"
  /\ BucketFree(BucketOf[req[c].dest])
  /\ Link(t, req[c].dest)
  /\ deadline_cpu' = [deadline_cpu EXCEPT ![t] = IF req[c].timed THEN c
                                                 ELSE None]
  /\ wake_state' = [wake_state EXCEPT ![t] = "PARKED"]
  /\ Leave(c, "park")
  /\ UNCHANGED <<life, status, on_cpu, word, dead, runq, current_thread, batch,
                 seen, panicked>>

\* Node, deadline entry and PARKED appear together when the bucket drops.
WaitParks(c) ==
  LET t == current_thread[c] IN
  /\ pc[c] = "compare"
  /\ BucketFree(BucketOf[req[c].dest])
  /\ word[req[c].dest] = req[c].expected
  /\ Link(t, req[c].dest)
  /\ deadline_cpu' = [deadline_cpu EXCEPT ![t] = IF req[c].timed THEN c
                                                 ELSE None]
  /\ wake_state' = [wake_state EXCEPT ![t] = "PARKED"]
  /\ Leave(c, "park")
  /\ UNCHANGED <<life, status, on_cpu, word, dead, runq, current_thread, batch,
                 seen, panicked>>

(***************************************************************************)
(* wake_batch and detach_batch_locked: claim and detach up to count waiters*)
(* of one address, oldest first, one CAS per step, under the bucket.       *)
(***************************************************************************)
WakeLock(c) ==
  /\ pc[c] = "wake"
  /\ BucketFree(BucketOf[req[c].addr])
  /\ Goto(c, "wake_scan")
  /\ UNCHANGED <<tcbs, waits, word, dead, runq, current_thread, locals,
                 panicked>>

\* Mutation: the waker takes the waiter without the CAS from PARKED.
WakeScanNoCas(c, t) ==
  /\ pc[c] = "wake_scan"
  /\ Len(batch[c]) < req[c].count
  /\ IsNextWaiter(c, t)
  /\ seen' = [seen EXCEPT ![c] = @ \cup {t}]
  /\ wake_state' = [wake_state EXCEPT ![t] = "CLAIMED"]
  /\ Unlink(t)
  /\ batch' = [batch EXCEPT ![c] = Append(@, t)]
  /\ UNCHANGED <<life, status, on_cpu, deadline_cpu, word, dead, runq,
                 current_thread, pc, ret, req, tgt, panicked>>

WakeScan(c, t) ==
  /\ pc[c] = "wake_scan"
  /\ Len(batch[c]) < req[c].count
  /\ IsNextWaiter(c, t)
  /\ seen' = [seen EXCEPT ![c] = @ \cup {t}]
  /\ IF wake_state[t] = "PARKED"
     THEN /\ wake_state' = [wake_state EXCEPT ![t] = "CLAIMED"]
          /\ Unlink(t)
          /\ batch' = [batch EXCEPT ![c] = Append(@, t)]
     ELSE UNCHANGED <<wake_state, node, older, batch>>
  /\ UNCHANGED <<life, status, on_cpu, deadline_cpu, word, dead, runq,
                 current_thread, pc, ret, req, tgt, panicked>>

\* Where a CPU resumes when its whole batch is finished.
Resume(c) ==
  /\ Goto(c, ret[c])
  /\ IF ret[c] \in {"wait", "dispose"} THEN UNCHANGED <<ret, req, tgt>>
                                       ELSE Reset(c)

WakeUnlock(c) ==
  /\ pc[c] = "wake_scan"
  /\ Len(batch[c]) = req[c].count \/ Unvisited(c) = {}
  /\ seen' = [seen EXCEPT ![c] = {}]
  /\ IF batch[c] = <<>>
     THEN Resume(c)
     ELSE Goto(c, "cancel") /\ UNCHANGED <<ret, req, tgt>>
  /\ UNCHANGED <<tcbs, waits, word, dead, runq, current_thread, batch, panicked>>

(***************************************************************************)
(* finish_claimed on the head of the batch, and thread_unblock_claimed.    *)
(***************************************************************************)
\* The head is finished: go on with the next one, or resume.
FinishNext(c) ==
  /\ batch' = [batch EXCEPT ![c] = Tail(@)]
  /\ IF Len(batch[c]) > 1
     THEN /\ Goto(c, IF ret[c] = "irq_ret" THEN "expire" ELSE "cancel")
          /\ UNCHANGED <<ret, req, tgt>>
     ELSE Resume(c)

\* timer_deadline_cancel waits for the owning CPU's timer lock.
Cancel(t) ==
  /\ deadline_cpu[t] # None => TimerFree(deadline_cpu[t])
  /\ deadline_cpu' = [deadline_cpu EXCEPT ![t] = None]

\* Mutation: the winner leaves the deadline entry in its tree.
FinishCancelForgotten(c) ==
  /\ pc[c] = "cancel"
  /\ Goto(c, "release")
  /\ UNCHANGED <<tcbs, waits, word, dead, runq, current_thread, locals,
                 panicked>>

FinishCancel(c) ==
  /\ pc[c] = "cancel"
  /\ Cancel(Head(batch[c]))
  /\ Goto(c, "release")
  /\ UNCHANGED <<tcbs, node, older, word, dead, runq, current_thread, locals,
                 panicked>>

\* Mutation: a dead process's thread is skipped without being handed to the reaper.
FinishReleaseSkips(c) ==
  LET t == Head(batch[c]) IN
  /\ pc[c] = "release"
  /\ IF IsDead(t)
     THEN FinishNext(c)
     ELSE Goto(c, "unblock") /\ UNCHANGED <<ret, req, batch, tgt>>
  /\ UNCHANGED <<tcbs, waits, word, dead, runq, current_thread, seen, panicked>>

\* A dead process's thread is left to the reaper, any other is made runnable.
FinishRelease(c) ==
  LET t == Head(batch[c]) IN
  /\ pc[c] = "release"
  /\ IF IsDead(t)
     THEN /\ wake_state' = [wake_state EXCEPT ![t] = "REAPABLE"]
          /\ FinishNext(c)
     ELSE /\ Goto(c, "unblock")
          /\ UNCHANGED <<wake_state, ret, req, batch, tgt>>
  /\ UNCHANGED <<life, status, on_cpu, waits, word, dead, runq, current_thread,
                 seen, panicked>>

\* Mutation: no spin on on_cpu.
UnblockStatusNoSpin(c) ==
  LET t == Head(batch[c]) IN
  /\ pc[c] = "unblock"
  /\ IF status[t] = "BLOCKED" /\ wake_state[t] = "CLAIMED"
     THEN /\ status' = [status EXCEPT ![t] = "RUNNABLE"]
          /\ Goto(c, "unclaim")
          /\ UNCHANGED panicked
     ELSE panicked' = TRUE /\ UNCHANGED <<status, pc>>
  /\ UNCHANGED <<life, on_cpu, wake_state, waits, word, dead, runq,
                 current_thread, locals>>

\* Spin until the thread is off its CPU, assert the claim, publish RUNNABLE.
UnblockStatus(c) ==
  LET t == Head(batch[c]) IN
  /\ pc[c] = "unblock"
  /\ ~on_cpu[t]
  /\ IF status[t] = "BLOCKED" /\ wake_state[t] = "CLAIMED"
     THEN /\ status' = [status EXCEPT ![t] = "RUNNABLE"]
          /\ Goto(c, "unclaim")
          /\ UNCHANGED panicked
     ELSE panicked' = TRUE /\ UNCHANGED <<status, pc>>
  /\ UNCHANGED <<life, on_cpu, wake_state, waits, word, dead, runq,
                 current_thread, locals>>

UnblockUnclaim(c) ==
  /\ pc[c] = "unclaim"
  /\ wake_state' = [wake_state EXCEPT ![Head(batch[c])] = "IDLE"]
  /\ Goto(c, "enqueue")
  /\ UNCHANGED <<life, status, on_cpu, waits, word, dead, runq, current_thread,
                 locals, panicked>>

UnblockEnqueue(c) ==
  /\ pc[c] = "enqueue"
  /\ Enqueue(Head(batch[c]))
  /\ FinishNext(c)
  /\ UNCHANGED <<tcbs, waits, word, dead, current_thread, seen, panicked>>

(***************************************************************************)
(* futex_sys_requeue: both buckets in ascending order, then PARKED ->      *)
(* MOVING -> relink -> PARKED for each waiter moved.                       *)
(***************************************************************************)
RequeueLockLo(c) ==
  /\ pc[c] = "rq_lo"
  /\ BucketFree(Lo(c))
  /\ Goto(c, "rq_hi")
  /\ UNCHANGED <<tcbs, waits, word, dead, runq, current_thread, locals,
                 panicked>>

\* The second bucket is taken only when it is another one; then the word is
\* compared (SYSERR_AGAIN when it changed).
RequeueLockHi(c) ==
  /\ pc[c] = "rq_hi"
  /\ Hi(c) = Lo(c) \/ BucketFree(Hi(c))
  /\ IF word[req[c].addr] = req[c].expected
     THEN Goto(c, "rq_scan") /\ UNCHANGED <<ret, req, tgt>>
     ELSE Leave(c, "user")
  /\ UNCHANGED <<tcbs, waits, word, dead, runq, current_thread, batch, seen,
                 panicked>>

\* Mutation: the waiter stays PARKED, hence claimable, while it is relinked; ...
RequeueScanParked(c, t) ==
  /\ pc[c] = "rq_scan"
  /\ req[c].count > 0
  /\ IsNextWaiter(c, t)
  /\ seen' = [seen EXCEPT ![c] = @ \cup {t}]
  /\ IF wake_state[t] = "PARKED"
     THEN tgt' = [tgt EXCEPT ![c] = t] /\ Goto(c, "rq_move")
     ELSE UNCHANGED <<tgt, pc>>
  /\ UNCHANGED <<tcbs, waits, word, dead, runq, current_thread, ret, req, batch,
                 panicked>>

\* count is the number of moves left.
RequeueScan(c, t) ==
  /\ pc[c] = "rq_scan"
  /\ req[c].count > 0
  /\ IsNextWaiter(c, t)
  /\ seen' = [seen EXCEPT ![c] = @ \cup {t}]
  /\ IF wake_state[t] = "PARKED"
     THEN /\ wake_state' = [wake_state EXCEPT ![t] = "MOVING"]
          /\ tgt' = [tgt EXCEPT ![c] = t]
          /\ Goto(c, "rq_move")
     ELSE UNCHANGED <<wake_state, tgt, pc>>
  /\ UNCHANGED <<life, status, on_cpu, waits, word, dead, runq, current_thread,
                 ret, req, batch, panicked>>

RequeueMove(c) ==
  LET t == tgt[c] IN
  /\ pc[c] = "rq_move"
  /\ Link(t, req[c].dest)
  /\ wake_state' = [wake_state EXCEPT ![t] = "PARKED"]
  /\ req' = [req EXCEPT ![c].count = @ - 1]
  /\ tgt' = [tgt EXCEPT ![c] = None]
  /\ Goto(c, "rq_scan")
  /\ UNCHANGED <<life, status, on_cpu, deadline_cpu, word, dead, runq,
                 current_thread, ret, batch, seen, panicked>>

RequeueUnlock(c) ==
  /\ pc[c] = "rq_scan"
  /\ req[c].count = 0 \/ Unvisited(c) = {}
  /\ seen' = [seen EXCEPT ![c] = {}]
  /\ Leave(c, "user")
  /\ UNCHANGED <<tcbs, waits, word, dead, runq, current_thread, batch, panicked>>

(***************************************************************************)
(* timer_cpu_interrupt: claim due entries under this CPU's timer lock, then*)
(* detach and finish them outside it.                                      *)
(***************************************************************************)
\* futex_try_claim: spins while a requeue has the thread in MOVING.
TryClaim(t) ==
  /\ wake_state[t] # "MOVING"
  /\ wake_state' = IF wake_state[t] = "PARKED"
                   THEN [wake_state EXCEPT ![t] = "CLAIMED"] ELSE wake_state

TimerIrq(c) ==
  /\ pc[c] \in UserPcs
  /\ \E t \in Threads : deadline_cpu[t] = c
  /\ ret' = [ret EXCEPT ![c] = "irq_ret"]
  /\ Goto(c, "irq_scan")
  /\ UNCHANGED <<tcbs, waits, word, dead, runq, current_thread, req, batch,
                 seen, tgt, panicked>>

\* The next due entry of this CPU's tree.
IrqScan(c, t) ==
  /\ pc[c] = "irq_scan"
  /\ Len(batch[c]) < IrqBatch
  /\ deadline_cpu[t] = c /\ t \notin seen[c]
  /\ seen' = [seen EXCEPT ![c] = @ \cup {t}]
  /\ tgt' = [tgt EXCEPT ![c] = t]
  /\ Goto(c, "irq_claim")
  /\ UNCHANGED <<tcbs, waits, word, dead, runq, current_thread, ret, req, batch,
                 panicked>>

\* A won entry leaves the tree; a lost one stays for the winner to remove.
IrqClaim(c) ==
  LET t == tgt[c] IN
  /\ pc[c] = "irq_claim"
  /\ TryClaim(t)
  /\ IF wake_state[t] = "PARKED"
     THEN /\ deadline_cpu' = [deadline_cpu EXCEPT ![t] = None]
          /\ batch' = [batch EXCEPT ![c] = Append(@, t)]
     ELSE UNCHANGED <<deadline_cpu, batch>>
  /\ tgt' = [tgt EXCEPT ![c] = None]
  /\ Goto(c, "irq_scan")
  /\ UNCHANGED <<life, status, on_cpu, node, older, word, dead, runq,
                 current_thread, ret, req, seen, panicked>>

\* No further entry is due, or the batch is full.  The shot fired because an
\* entry was due, so at least one was visited.
IrqUnlock(c) ==
  /\ pc[c] = "irq_scan"
  /\ seen[c] # {} \/ \A t \in Threads : deadline_cpu[t] # c
  /\ seen' = [seen EXCEPT ![c] = {}]
  /\ Goto(c, IF batch[c] = <<>> THEN "irq_ret" ELSE "expire")
  /\ UNCHANGED <<tcbs, waits, word, dead, runq, current_thread, ret, req, batch,
                 tgt, panicked>>

\* The keyed removal both expiry and reap start with; it asserts it finds t.
UnlinkClaimed(c, t, l) ==
  IF node[t] = None
  THEN panicked' = TRUE /\ UNCHANGED <<node, older, pc>>
  ELSE /\ BucketFree(BucketOf[node[t]])
       /\ Unlink(t)
       /\ Goto(c, l)
       /\ UNCHANGED panicked

\* futex_expire_claimed on the head of the batch.
Expire(c) ==
  /\ pc[c] = "expire"
  /\ UnlinkClaimed(c, Head(batch[c]), "cancel")
  /\ UNCHANGED <<tcbs, deadline_cpu, word, dead, runq, current_thread, locals>>

\* Back to the interrupted user code or idle loop.
IrqReturn(c) ==
  /\ pc[c] = "irq_ret"
  /\ Leave(c, IF current_thread[c] = None THEN "sched" ELSE "user")
  /\ UNCHANGED <<tcbs, waits, word, dead, runq, current_thread, batch, seen,
                 panicked>>

(***************************************************************************)
(* uthread_park, scheduler_loop and process_thread_exited.                 *)
(***************************************************************************)
ParkBlocked(c) ==
  /\ pc[c] = "park"
  /\ status' = [status EXCEPT ![current_thread[c]] = "BLOCKED"]
  /\ Goto(c, "switch")
  /\ UNCHANGED <<life, on_cpu, wake_state, waits, word, dead, runq,
                 current_thread, locals, panicked>>

ParkExit(c) ==
  /\ pc[c] = "exit"
  /\ status' = [status EXCEPT ![current_thread[c]] = "DEAD"]
  /\ Goto(c, "switch")
  /\ UNCHANGED <<life, on_cpu, wake_state, waits, word, dead, runq,
                 current_thread, locals, panicked>>

\* Mutation: on_cpu is not released.
SwitchOutKeepsCpu(c) ==
  /\ pc[c] = "switch"
  /\ tgt' = [tgt EXCEPT ![c] = current_thread[c]]
  /\ current_thread' = [current_thread EXCEPT ![c] = None]
  /\ Goto(c, "check_dead")
  /\ UNCHANGED <<tcbs, waits, word, dead, runq, ret, req, batch, seen, panicked>>

\* The save is complete: publish it by clearing on_cpu.
SwitchOut(c) ==
  /\ pc[c] = "switch"
  /\ tgt' = [tgt EXCEPT ![c] = current_thread[c]]
  /\ on_cpu' = [on_cpu EXCEPT ![current_thread[c]] = FALSE]
  /\ current_thread' = [current_thread EXCEPT ![c] = None]
  /\ Goto(c, "check_dead")
  /\ UNCHANGED <<life, status, wake_state, waits, word, dead, runq, ret, req,
                 batch, seen, panicked>>

\* prev->status is read after on_cpu was released, so prev may have been
\* dispatched elsewhere meanwhile, and even freed: then any value is read.
CheckDead(c) ==
  LET t == tgt[c] IN
  /\ pc[c] = "check_dead"
  /\ \/ /\ status[t] = "DEAD" \/ life[t] = "freed"
        /\ Goto(c, "exited") /\ UNCHANGED <<ret, req, tgt>>
     \/ /\ status[t] # "DEAD" \/ life[t] = "freed"
        /\ Leave(c, "sched")
  /\ UNCHANGED <<tcbs, waits, word, dead, runq, current_thread, batch, seen,
                 panicked>>

\* process_thread_exited takes g_umem; remove_thread_ref asserts that the
\* process still indexes the thread.
Exited(c) ==
  LET t == tgt[c] IN
  /\ pc[c] = "exited"
  /\ UmemFree
  /\ IF life[t] = "live"
     THEN /\ ret' = [ret EXCEPT ![c] = "dispose"]
          /\ Goto(c, IF Completion[t] # None /\ ~IsDead(t) THEN "publish"
                                                          ELSE "dispose")
          /\ UNCHANGED panicked
     ELSE panicked' = TRUE /\ UNCHANGED <<pc, ret>>
  /\ UNCHANGED <<tcbs, waits, word, dead, runq, current_thread, req, batch,
                 seen, tgt>>

\* futex_publish_wake: the store and the detach share one bucket hold.
Publish(c) ==
  LET a == Completion[tgt[c]] IN
  /\ pc[c] = "publish"
  /\ BucketFree(BucketOf[a])
  /\ word' = [word EXCEPT ![a] = 1]
  /\ req' = [req EXCEPT ![c] = WakeReq(a, 1)]
  /\ Goto(c, "wake_scan")
  /\ UNCHANGED <<tcbs, waits, dead, runq, current_thread, ret, batch, seen, tgt,
                 panicked>>

\* Free the TCB; the last thread of a live process takes the process with it.
Dispose(c) ==
  LET p == ProcOf[tgt[c]] IN
  /\ pc[c] = "dispose"
  /\ life' = [life EXCEPT ![tgt[c]] = "freed"]
  /\ dead' = [dead EXCEPT ![p] =
                @ \/ \A u \in Threads : life[u] = "live" /\ ProcOf[u] = p
                                        => u = tgt[c]]
  /\ Leave(c, "sched")
  /\ UNCHANGED <<status, on_cpu, wake_state, waits, word, runq, current_thread,
                 batch, seen, panicked>>

\* The head of the local queue runs, or is culled when its process is dead.
Dispatch(c) ==
  LET t == Head(runq[c]) IN
  /\ pc[c] = "sched" /\ runq[c] # <<>>
  /\ runq' = [runq EXCEPT ![c] = Tail(@)]
  /\ IF IsDead(t)
     THEN /\ status' = [status EXCEPT ![t] = "DEAD"]
          /\ tgt' = [tgt EXCEPT ![c] = t]
          /\ Goto(c, "exited")
          /\ UNCHANGED <<on_cpu, current_thread>>
     ELSE /\ status' = [status EXCEPT ![t] = "RUNNING"]
          /\ on_cpu' = [on_cpu EXCEPT ![t] = TRUE]
          /\ current_thread' = [current_thread EXCEPT ![c] = t]
          /\ Goto(c, "user")
          /\ UNCHANGED tgt
  /\ UNCHANGED <<life, wake_state, waits, word, dead, ret, req, batch, seen,
                 panicked>>

(***************************************************************************)
(* proc_sys_thread_destroy: three separate loads, the claim, the detach,   *)
(* the free, all under g_umem.                                             *)
(***************************************************************************)
\* The victim is not reapable yet: SYSERR_AGAIN.
DestroyCheck(c, here, ok, next) ==
  /\ pc[c] = here
  /\ IF ok THEN Goto(c, next) /\ UNCHANGED <<ret, req, tgt>>
           ELSE Leave(c, "user")
  /\ UNCHANGED <<tcbs, waits, word, dead, runq, current_thread, batch, seen,
                 panicked>>

DestroyOnCpu(c) == DestroyCheck(c, "d_on_cpu", ~on_cpu[tgt[c]], "d_status")

DestroyStatus(c) ==
  DestroyCheck(c, "d_status", status[tgt[c]] = "BLOCKED", "d_wake_state")

DestroyWakeState(c) ==
  DestroyCheck(c, "d_wake_state",
               wake_state[tgt[c]] \in {"PARKED", "REAPABLE"},
               IF wake_state[tgt[c]] = "PARKED" THEN "d_claim" ELSE "d_free")

DestroyClaim(c) ==
  /\ pc[c] = "d_claim"
  /\ TryClaim(tgt[c])
  /\ IF wake_state[tgt[c]] = "PARKED"
     THEN Goto(c, "d_unlink") /\ UNCHANGED <<ret, req, tgt>>
     ELSE Leave(c, "user")
  /\ UNCHANGED <<life, status, on_cpu, waits, word, dead, runq, current_thread,
                 batch, seen, panicked>>

\* futex_reap_claimed: out of the bucket, then out of the deadline tree.
DestroyUnlink(c) ==
  /\ pc[c] = "d_unlink"
  /\ UnlinkClaimed(c, tgt[c], "d_cancel")
  /\ UNCHANGED <<tcbs, deadline_cpu, word, dead, runq, current_thread, locals>>

\* Mutation: the reaper leaves the deadline entry of its victim behind.
DestroyCancelForgotten(c) ==
  /\ pc[c] = "d_cancel"
  /\ Goto(c, "d_free")
  /\ UNCHANGED <<tcbs, waits, word, dead, runq, current_thread, locals,
                 panicked>>

DestroyCancel(c) ==
  /\ pc[c] = "d_cancel"
  /\ Cancel(tgt[c])
  /\ Goto(c, "d_free")
  /\ UNCHANGED <<tcbs, node, older, word, dead, runq, current_thread, locals,
                 panicked>>

DestroyFree(c) ==
  /\ pc[c] = "d_free"
  /\ life' = [life EXCEPT ![tgt[c]] = "freed"]
  /\ Leave(c, "user")
  /\ UNCHANGED <<status, on_cpu, wake_state, waits, word, dead, runq,
                 current_thread, batch, seen, panicked>>

(***************************************************************************)
(* The specification.                                                      *)
(***************************************************************************)
\* User code chooses a system call, or an interrupt arrives.
UserStep(c) ==
  \/ \E a \in Addrs, v \in {0, 1} : Store(c, a, v)
  \/ \E a \in Addrs, v \in {0, 1}, timed \in BOOLEAN,
        w \in Addrs \cup {None} : SysWait(c, a, v, timed, w)
  \/ \E a \in Addrs, n \in 1..WakeBatch : SysWake(c, a, n)
  \/ \E from, to \in Addrs, v \in {0, 1}, n \in 1..WakeBatch :
        SysRequeue(c, from, to, v, n)
  \/ SysExit(c)
  \/ SysProcExit(c)
  \/ \E p \in Procs : SysKill(c, p)
  \/ \E t \in Threads : SysThreadSpawn(c, t)
  \/ \E t \in Threads : SysThreadDestroy(c, t)
  \/ Yield(c)
  \/ TimerIrq(c)

\* What a CPU does once it is in the kernel, where nothing preempts it.
KernelStep(c) ==
  \/ WaitCheck(c) \/ WaitReturns(c) \/ WaitParks(c)
  \/ WakeLock(c) \/ WakeUnlock(c) \/ \E t \in Threads : WakeScan(c, t)
  \/ FinishCancel(c) \/ FinishRelease(c)
  \/ UnblockStatus(c) \/ UnblockUnclaim(c) \/ UnblockEnqueue(c)
  \/ RequeueLockLo(c) \/ RequeueLockHi(c)
  \/ \E t \in Threads : RequeueScan(c, t)
  \/ RequeueMove(c) \/ RequeueUnlock(c)
  \/ \E t \in Threads : IrqScan(c, t)
  \/ IrqClaim(c) \/ IrqUnlock(c) \/ Expire(c) \/ IrqReturn(c)
  \/ ParkBlocked(c) \/ ParkExit(c) \/ SwitchOut(c)
  \/ CheckDead(c) \/ Exited(c) \/ Publish(c) \/ Dispose(c)
  \/ DestroyOnCpu(c) \/ DestroyStatus(c) \/ DestroyWakeState(c)
  \/ DestroyClaim(c) \/ DestroyUnlink(c) \/ DestroyCancel(c) \/ DestroyFree(c)

Next ==
  \E c \in Cpus : ~panicked /\ (UserStep(c) \/ Cull(c) \/ Dispatch(c) \/ KernelStep(c))

Spec == Init /\ [][Next]_vars


\* A CPU in the kernel with interrupts off always reaches its next step, an idle
\* loop with a queued thread dispatches it, and the quantum brings a thread of a
\* dead process back into the kernel.  The end of the quantum is an absolute
\* time: its interrupt is taken the next time the thread is in user mode.
FairSpec ==
  Spec /\ \A c \in Cpus :
            /\ WF_vars(~panicked /\ (Cull(c) \/ Dispatch(c) \/ KernelStep(c)))
            /\ SF_vars(~panicked /\ Yield(c))

(***************************************************************************)
(* Correctness.                                                            *)
(***************************************************************************)
TypeOK ==
  /\ life \in [Threads -> {"unborn", "live", "freed"}]
  /\ status \in [Threads -> {"RUNNABLE", "RUNNING", "BLOCKED", "DEAD"}]
  /\ on_cpu \in [Threads -> BOOLEAN]
  /\ wake_state \in [Threads -> {"IDLE", "PARKED", "MOVING", "CLAIMED",
                                 "REAPABLE"}]
  /\ node \in [Threads -> Addrs \cup {None}]
  /\ older \in [Threads -> SUBSET Threads]
  /\ deadline_cpu \in [Threads -> Cpus \cup {None}]
  /\ word \in [Addrs -> {0, 1}]
  /\ dead \in [Procs -> BOOLEAN]
  /\ runq \in [Cpus -> Seq(Threads)]
  /\ current_thread \in [Cpus -> ThreadOrNone]
  /\ pc \in [Cpus -> Pcs]
  /\ ret \in [Cpus -> {"user", "wait", "irq_ret", "dispose"}]
  /\ req \in [Cpus -> Requests]
  /\ batch \in [Cpus -> Seq(Threads)]
  /\ seen \in [Cpus -> SUBSET Threads]
  /\ tgt \in [Cpus -> ThreadOrNone]
  /\ panicked \in BOOLEAN

\* The threads whose disposal CPU c has won: by a wake or an expiry, or by a
\* reap.
Batched(c) == {batch[c][i] : i \in DOMAIN batch[c]}
Winner(c, t) == t \in Batched(c) \/ (pc[c] \in ReapPcs /\ tgt[c] = t)
Won(c) == {t \in Threads : Winner(c, t)}

\* Exactly one of the racing wakers, timers and reapers disposes of a parked
\* thread (futex_try_claim and the CAS in detach_batch_locked): no two CPUs ever
\* hold the same thread, none holds it twice, and its TCB stays allocated.
OneWinner ==
  /\ \A c, d \in Cpus : c # d => Won(c) \cap Won(d) = {}
  /\ \A c \in Cpus : \A i, j \in DOMAIN batch[c] :
        batch[c][i] = batch[c][j] => i = j
  /\ \A c \in Cpus : \A t \in Won(c) : life[t] = "live"

\* futex_sys_wait installs node, deadline entry and PARKED together, and the
\* winner of the claim removes all three: a thread that is not waiting has
\* neither a node nor a deadline entry, so no later park of it can receive an
\* earlier park's wake or timeout, and a parked one is always reachable.
WaitInstalledWhole ==
  \A t \in Threads :
    /\ wake_state[t] \in {"PARKED", "MOVING"} => node[t] # None
    /\ wake_state[t] \in {"IDLE", "REAPABLE"}
         => node[t] = None /\ deadline_cpu[t] = None
    /\ wake_state[t] = "CLAIMED" /\ life[t] = "live"
         => \E c \in Cpus : t \in Won(c)

\* A TCB is freed (process_thread_exited, proc_sys_thread_destroy) only when no
\* bucket tree, deadline tree, run queue or claim batch can still lead to it.
FreedUnreachable ==
  \A t \in Threads : life[t] = "freed" =>
    /\ node[t] = None /\ deadline_cpu[t] = None
    /\ \A c \in Cpus : t \notin Queued(c) \cup Won(c)

\* "dispatching a thread whose save is still in flight would run one context on
\* two CPUs" (thread_unblock_claimed): a thread is queued at most once in the
\* system, never while another CPU still runs it, and is current on one CPU.
OneContext ==
  /\ \A c, d \in Cpus : c # d =>
       /\ Queued(c) \cap Queued(d) = {}
       /\ current_thread[c] \notin Queued(d)
       /\ current_thread[c] = current_thread[d] => current_thread[c] = None
  /\ \A c \in Cpus : \A i, j \in DOMAIN runq[c] : runq[c][i] = runq[c][j] => i = j
  /\ \A c \in Cpus : \A t \in Queued(c) :
       on_cpu[t] => current_thread[c] = t /\ pc[c] = "switch"

\* The asserts of the winners hold: an expired or reaped waiter is still in the
\* bucket tree its wait_key names (futex_expire_claimed, futex_reap_claimed), and
\* a thread that is off its CPU when it is unblocked is BLOCKED and CLAIMED
\* (thread_unblock_claimed).
WinnerAssertsHold ==
  \A c \in Cpus :
    /\ pc[c] = "expire" => node[Head(batch[c])] # None
    /\ pc[c] = "d_unlink" => node[tgt[c]] # None
    /\ pc[c] = "unblock" /\ ~on_cpu[Head(batch[c])]
         => /\ status[Head(batch[c])] = "BLOCKED"
            /\ wake_state[Head(batch[c])] = "CLAIMED"

\* Waits are served in arrival order: a wake that claims a waiter leaves no older
\* claimable waiter of the same word behind (detach_batch_locked's seek order).
FifoWake ==
  [][\A t, u \in Threads :
       (/\ wake_state[t] = "PARKED" /\ wake_state'[t] = "CLAIMED"
        /\ node'[t] = None /\ u \in older[t] /\ node[u] = node[t])
       => wake_state[u] # "PARKED"]_vars

\* The completion of a thread is lossless against a concurrent compare-and-park
\* (futex_publish_wake): once the word says COMPLETE, a joiner is parked on it
\* only while the publisher still has it ahead in its scan.
NoStrandedJoiner ==
  \A a \in CompletionWords, t \in Threads :
    word[a] = 1 /\ node[t] = a /\ wake_state[t] = "PARKED"
    => \E c \in Cpus : pc[c] = "wake_scan" /\ t \in Unvisited(c)

\* No cycle of waits among bucket locks, timer locks, g_umem, the MOVING spin and
\* the on_cpu spin: whenever a CPU is in the kernel, some CPU there can move.
NoKernelDeadlock ==
  (\E c \in Cpus : pc[c] \notin UserPcs) /\ ~panicked
  => \E c \in Cpus : ENABLED KernelStep(c)

\* The on_cpu spin of thread_unblock_claimed ends: the thread it waits for is
\* switching out on a CPU that nothing can stop.
UnblockSpinEnds ==
  \A c \in Cpus : pc[c] = "unblock" ~> (pc[c] # "unblock" \/ panicked)

\* Killing reaches every thread: each thread of a dead process is eventually
\* disposed of by its own CPU, or comes to rest where proc_sys_thread_destroy
\* accepts it (off its CPU, BLOCKED, and PARKED or REAPABLE).
DeadBecomesReapable ==
  \A t \in Threads :
    (IsDead(t) /\ life[t] = "live") ~>
      \/ life[t] = "freed" \/ panicked
      \/ ~on_cpu[t] /\ status[t] = "BLOCKED"
         /\ wake_state[t] \in {"PARKED", "REAPABLE"}

(***************************************************************************)
(* The inductive invariant behind OneWinner, WaitInstalledWhole,           *)
(* FreedUnreachable, OneContext and WinnerAssertsHold: where every thread  *)
(* is, and who may touch it there.                                         *)
(***************************************************************************)
\* Program counters on behalf of a thread, and of the scheduler loop alone.
RequeuePcs == {"rq_lo", "rq_hi", "rq_scan", "rq_move"}
ThreadPcs == {"user", "wait", "compare", "wake", "park", "exit", "switch"}
             \cup RequeuePcs \cup DestroyPcs
LoopPcs == {"sched", "check_dead", "exited", "publish", "dispose"}
IrqPcs == {"irq_scan", "irq_claim", "expire", "irq_ret"}

\* A CPU's context: which continuations and targets go with which pc.
Context(c) ==
  /\ pc[c] \in ThreadPcs => current_thread[c] # None
  /\ pc[c] \in LoopPcs \/ ret[c] = "dispose" => current_thread[c] = None
  /\ pc[c] \in FinishPcs \cup {"wake_scan"} /\ ret[c] \in {"user", "wait"}
       => current_thread[c] # None
  /\ pc[c] \in {"irq_scan", "irq_claim", "expire"} => ret[c] = "irq_ret"
  /\ ret[c] = "irq_ret" => pc[c] \in IrqPcs \cup FinishPcs
  /\ pc[c] \in {"wait", "compare"} => ret[c] = "wait"
  /\ ret[c] = "wait" =>
       /\ pc[c] \in FinishPcs \cup {"wake", "wake_scan", "wait", "compare"}
       /\ req[c].dest # None
  /\ pc[c] \in RequeuePcs => req[c].dest # None
  /\ pc[c] = "rq_move" => req[c].count > 0
  /\ pc[c] \in {"publish", "dispose"} => ret[c] = "dispose"
  /\ ret[c] = "dispose" =>
       pc[c] \in FinishPcs \cup {"publish", "dispose", "wake_scan"}
  /\ pc[c] = "publish" => Completion[tgt[c]] # None
  /\ \/ pc[c] \in DestroyPcs \cup {"rq_move", "irq_claim", "check_dead", "exited"}
     \/ ret[c] = "dispose"
     => tgt[c] # None
  /\ pc[c] \notin FinishPcs \cup {"irq_scan", "irq_claim", "expire", "wake_scan"}
       => batch[c] = <<>>
  /\ pc[c] \in FinishPcs \cup {"expire"} => batch[c] # <<>>

\* No thread is twice in one CPU's queue, or in one CPU's batch.
Once(q) ==
  \A c \in Cpus : \A i, j \in DOMAIN q[c] : q[c][i] = q[c][j] => i = j

\* The claimed thread finish_claimed works on.
InHand(c, t) == pc[c] \in FinishPcs /\ Head(batch[c]) = t

\* t is the thread CPU c runs.
Running(c, t) ==
  current_thread[c] = t =>
    /\ on_cpu[t] /\ life[t] # "unborn"
    /\ pc[c] \notin {"park", "switch"}
         => life[t] = "live" /\ status[t] = "RUNNING" /\ wake_state[t] = "IDLE"
    /\ pc[c] = "park" => status[t] = "RUNNING" /\ wake_state[t] # "IDLE"
    /\ pc[c] = "switch" =>
         \/ status[t] = "BLOCKED" /\ wake_state[t] # "IDLE"
         \/ status[t] = "DEAD" /\ wake_state[t] = "IDLE"
         \/ status[t] = "RUNNABLE" /\ t \in Queued(c)

\* t is in CPU c's run queue.
Waits(c, t) ==
  t \in Queued(c) =>
    /\ life[t] = "live" /\ status[t] = "RUNNABLE" /\ wake_state[t] = "IDLE"
    /\ ~(pc[c] = "enqueue" /\ InHand(c, t))

\* t is in CPU c's batch: what is already undone of its wait.
Claimed(c, t) ==
  t \in Batched(c) =>
    /\ life[t] = "live"
    /\ wake_state[t] = IF InHand(c, t) /\ pc[c] = "enqueue" THEN "IDLE"
                                                            ELSE "CLAIMED"
    /\ node[t] = None <=> InHand(c, t) \/ ret[c] # "irq_ret"
    /\ ret[c] = "irq_ret" \/ (InHand(c, t) /\ pc[c] # "cancel")
         => deadline_cpu[t] = None
    /\ InHand(c, t) /\ pc[c] \in {"unclaim", "enqueue"} => status[t] = "RUNNABLE"

\* t is what CPU c destroys, disposes of, or moves to another word.
Target(c, t) ==
  tgt[c] = t =>
    /\ HoldsUmem(c) => life[t] = "live"
    /\ pc[c] = "exited" \/ ret[c] = "dispose"
         => life[t] = "freed" \/ (life[t] = "live" /\ status[t] = "DEAD")
    /\ pc[c] \in ReapPcs =>
         /\ \/ wake_state[t] = "CLAIMED"
            \/ pc[c] = "d_free" /\ wake_state[t] = "REAPABLE"
         /\ node[t] = None <=> pc[c] # "d_unlink"
         /\ pc[c] = "d_free" => deadline_cpu[t] = None
    /\ pc[c] = "rq_move" => wake_state[t] = "MOVING"

Holding(c, t) == Running(c, t) /\ Waits(c, t) /\ Claimed(c, t) /\ Target(c, t)

\* What at most one CPU at a time can do with a thread: run it, make it ready,
\* own its wait.
Ready(c, t) == t \in Queued(c) \/ (pc[c] = "enqueue" /\ InHand(c, t))
Owner(c, t) == Winner(c, t) \/ (pc[c] = "rq_move" /\ tgt[c] = t)

Apart(t) ==
  \A c, d \in Cpus : c # d =>
    /\ ~(current_thread[c] = t /\ current_thread[d] = t)
    /\ ~(Ready(c, t) /\ Ready(d, t))
    /\ ~(Owner(c, t) /\ Owner(d, t))

\* A thread's wait: its node, its deadline entry and its status.
Wait(t) ==
  /\ wake_state[t] \in {"PARKED", "MOVING"} => node[t] # None /\ life[t] = "live"
  /\ wake_state[t] \in {"IDLE", "REAPABLE"}
       => node[t] = None /\ deadline_cpu[t] = None
  /\ life[t] = "freed" => node[t] = None /\ deadline_cpu[t] = None
  /\ life[t] = "unborn" => status[t] = "RUNNABLE" /\ wake_state[t] = "IDLE"
  /\ status[t] = "DEAD" /\ life[t] = "live" => wake_state[t] = "IDLE"

\* A waiting thread is BLOCKED, except right after it has installed its wait and
\* right after its winner has made it runnable.
InTransit(c, t) == \/ pc[c] = "park" /\ current_thread[c] = t
                   \/ pc[c] = "unclaim" /\ InHand(c, t)

\* Whoever must act on the thread next exists: the CPU that clears on_cpu, the
\* winner of its claim, the one that completes its block or its unblock.
Accounted(t) ==
  /\ on_cpu[t] => \E c \in Cpus : current_thread[c] = t
  /\ wake_state[t] = "CLAIMED" /\ life[t] = "live" => \E c \in Cpus : Winner(c, t)
  /\ wake_state[t] # "IDLE"
       => status[t] = "BLOCKED" \/ \E c \in Cpus : InTransit(c, t)

\* Every thread of the futex and scheduler code is in exactly one place, and the
\* CPU that holds it there is the only one that changes it: the state of each
\* step of futex_sys_wait, wake_batch, futex_sys_requeue, timer_cpu_interrupt,
\* scheduler_loop, process_thread_exited and proc_sys_thread_destroy.
ClaimInv ==
  /\ \A c \in Cpus : Context(c)
  /\ Once(runq) /\ Once(batch)
  /\ \A c, d \in Cpus : HoldsUmem(c) /\ HoldsUmem(d) => c = d
  /\ \A c \in Cpus, t \in Threads : Holding(c, t)
  /\ \A t \in Threads : Apart(t) /\ Wait(t) /\ Accounted(t)

\* The bucket spinlocks exclude one another, a scan starts from an empty cursor,
\* and a waiter that wake_batch has passed stays unclaimable while it holds the
\* bucket: what FifoWake rests on (detach_batch_locked).
SeekPcs == ScanPcs \cup {"irq_scan", "irq_claim"}
ScanInv ==
  /\ \A c, d \in Cpus : c # d => HeldBuckets(c) \cap HeldBuckets(d) = {}
  /\ \A c \in Cpus : pc[c] \notin SeekPcs => seen[c] = {}
  /\ \A c \in Cpus : pc[c] = "wake_scan" =>
       \A u \in seen[c] : node[u] = req[c].addr => wake_state[u] # "PARKED"

\* The use the pthread library makes of a completion word. At most one joiner is
\* parked on it when the thread completes: pthread_join's exchange of JOINABLE for
\* JOINING (packages/gdos-libc-dev/source/pthread.c:384-388) admits one. No waiter
\* is requeued onto it: only a condition variable requeues, onto a mutex.
OneJoiner ==
  /\ \A a \in CompletionWords : word[a] = 1 =>
       \A t, u \in {x \in Threads : node[x] = a /\ wake_state[x] = "PARKED"} : t = u
  /\ \A c \in Cpus : pc[c] = "rq_move" => req[c].dest \notin CompletionWords

\* A joiner still parked on a complete word is ahead of a publisher that has woken
\* nobody yet, and no compare-and-park accepts a complete word: what
\* NoStrandedJoiner rests on (futex_publish_wake).
JoinInv ==
  /\ \A a \in CompletionWords, t \in Threads :
       word[a] = 1 /\ node[t] = a /\ wake_state[t] = "PARKED"
       => \E c \in Cpus : /\ pc[c] = "wake_scan" /\ t \in Unvisited(c)
                         /\ batch[c] = <<>> /\ req[c].count = 1
  /\ \A c \in Cpus : ret[c] = "wait" /\ req[c].dest \in CompletionWords
                      => req[c].expected = 0
=============================================================================
