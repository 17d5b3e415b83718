---------------------------- MODULE PthreadLife ----------------------------
(***************************************************************************)
(* The lifecycle of a thread in packages/gdos-libc-dev/source/pthread.c:   *)
(* create, join, detach, exit, and the reaper that reclaims detached       *)
(* threads.  A thread's record and its stack are blocks of their own:      *)
(* reclaiming one unmaps it, so a later access faults and the kernel ends  *)
(* the process.  The programs of Pthread.tla make these calls too.         *)
(***************************************************************************)
EXTENDS Pthread

CONSTANT Reaper         \* the reaper thread
ASSUME ReaperAssumption == Reaper \notin Thread \cup {None}

LifeCall == {"create", "create_detached", "join", "detach", "detach_self"}

\* What programs may do: a thread creates, joins or detaches one that is not there
\* from the start and is not itself, and as many threads use the barrier as it was
\* made for.
ASSUME ProgramsAssumption ==
  \A p \in Programs :
    /\ p.born \subseteq Thread
    /\ p.trip \in Nat /\ p.batch \in Nat
    /\ p.code \in [Thread -> Seq(Call \cup LifeCall)]
    /\ \A t \in Thread : \A i \in DOMAIN p.code[t] :
         p.code[t][i] \in LifeCall \ {"detach_self"}
           => p.whom[t] \in Thread \ (p.born \cup {t})
    /\ LET using == {t \in Thread : \E i \in DOMAIN p.code[t] : p.code[t][i] = "barrier"}
       IN  using # {} => IsFiniteSet(using) /\ Cardinality(using) = p.trip

VARIABLES
  rec,          \* the record of each thread: "none", "live" or "freed"
  lifecycle, complete, exit_started, reap_queued,  \* its fields
  cwait,        \* who is parked on its completion word
  g_reaper_state, g_reaper_list, g_reaper_lock,
  event,        \* g_reaper_event->sequence
  rpc, robs, victim,    \* the reaper: where it is, its two locals
  frees,        \* history: how often the record was freed
  fault         \* the process has been ended by a fault

recVars == <<rec, lifecycle, complete, exit_started, reap_queued, cwait, frees>>
reaperVars == <<g_reaper_state, g_reaper_list, g_reaper_lock, event, rpc, robs, victim>>
syncVars == <<reg, locked, owner, recursion, sequence, cmutex, ready, once, rw,
              spin, count, generation, fq, holds, inits, entered>>
lifeVars == <<rec, lifecycle, complete, exit_started, reap_queued, cwait, frees,
              g_reaper_state, g_reaper_list, g_reaper_lock, event, rpc, robs,
              victim, fault>>
allVars == <<vars, lifeVars>>

\* The thread a call names.
Target(t) ==
  IF pc[t] = "nf_exit" \/ prog.code[t][ip[t]] = "detach_self" THEN t ELSE prog.whom[t]

\* An access of r's record: the step goes on, or faults when it is unmapped.
Touch(r, step) ==
  IF rec[r] = "freed"
    THEN fault' = TRUE /\ UNCHANGED <<pc, ip, recVars, reaperVars>>
    ELSE step /\ UNCHANGED fault

(***************************************************************************)
(* ensure_reaper: one caller builds the reaper, the others yield until it  *)
(* is there (2) or could not be made (3).                                  *)
(***************************************************************************)
NeedsReaper == {"create_detached", "detach", "detach_self"}

\* pthread_join and pthread_detach of a null pthread_t: ESRCH.
NoSuchThread(t) ==
  /\ Running(t, {"join", "detach"})
  /\ rec[Target(t)] = "none"
  /\ Return(t)
  /\ UNCHANGED <<recVars, reaperVars, fault>>

EnsureReaper(t) ==
  /\ Running(t, NeedsReaper)
  /\ prog.code[t][ip[t]] = "detach" => rec[Target(t)] # "none"
  /\ g_reaper_state # 1
  /\ CASE g_reaper_state = 0 -> g_reaper_state' = 1 /\ Goto(t, "er_build")
       [] g_reaper_state = 2 -> UNCHANGED g_reaper_state /\ Goto(t, "er_done")
       [] OTHER -> UNCHANGED g_reaper_state /\ Return(t)
  /\ UNCHANGED <<recVars, g_reaper_list, g_reaper_lock, event, rpc, robs, victim, fault>>

BuildReaper(t) ==
  /\ pc[t] = "er_build"
  /\ \/ rpc' = "scan" /\ Goto(t, "er_publish") /\ UNCHANGED g_reaper_state
     \/ g_reaper_state' = 3 /\ Return(t) /\ UNCHANGED rpc
  /\ UNCHANGED <<recVars, g_reaper_list, g_reaper_lock, event, robs, victim, fault>>

PublishReaper(t) ==
  /\ pc[t] = "er_publish"
  /\ g_reaper_state' = 2
  /\ Goto(t, "er_done")
  /\ UNCHANGED <<recVars, g_reaper_list, g_reaper_lock, event, rpc, robs, victim, fault>>

(***************************************************************************)
(* pthread_create.  Every allocation may fail and undoes the ones before.  *)
(***************************************************************************)
Create(t) ==
  /\ Running(t, {"create"}) \/ (pc[t] = "er_done" /\ prog.code[t][ip[t]] = "create_detached")
  /\ LET u == Target(t) IN
     /\ rec[u] = "none"
     /\ \/ /\ rec' = [rec EXCEPT ![u] = "live"]
           /\ lifecycle' = [lifecycle EXCEPT ![u] =
                IF pc[t] = "er_done" THEN "detached" ELSE "joinable"]
           /\ pc' = [pc EXCEPT ![u] = "idle", ![t] = "create_tid"]
           /\ UNCHANGED ip
        \/ Return(t) /\ UNCHANGED <<rec, lifecycle>>
  /\ UNCHANGED <<complete, exit_started, reap_queued, cwait, frees, reaperVars, fault>>

\* The store of thread->tid after the new thread may already be running.
CreateTid(t) ==
  /\ pc[t] = "create_tid"
  /\ Touch(Target(t),
           /\ IF prog.code[t][ip[t]] = "create" THEN Return(t) ELSE Goto(t, "nf_call")
           /\ UNCHANGED <<recVars, reaperVars>>)

(***************************************************************************)
(* notify_reaper: queue the record once, then announce it.                 *)
(***************************************************************************)
NotifyQueue(t) ==
  /\ pc[t] \in {"nf_call", "nf_exit"}
  /\ LET u == Target(t) IN
     Touch(u,
       /\ reap_queued' = [reap_queued EXCEPT ![u] = TRUE]
       /\ Goto(t, CASE pc[t] = "nf_call" /\ ~reap_queued[u] -> "nf_push"
                    [] pc[t] = "nf_call" /\ reap_queued[u] -> "nf_bump"
                    [] pc[t] = "nf_exit" /\ ~reap_queued[u] -> "nx_push"
                    [] OTHER -> "nx_bump")
       /\ UNCHANGED <<rec, lifecycle, complete, exit_started, cwait, frees, reaperVars>>)

NotifyPush(t) ==
  /\ pc[t] \in {"nf_push", "nx_push"}
  /\ ~g_reaper_lock
  /\ LET u == IF pc[t] = "nx_push" THEN t ELSE Target(t) IN
     Touch(u,
       /\ g_reaper_list' = <<u>> \o g_reaper_list
       /\ Goto(t, IF pc[t] = "nf_push" THEN "nf_bump" ELSE "nx_bump")
       /\ UNCHANGED <<recVars, g_reaper_state, g_reaper_lock, event, rpc, robs, victim>>)

NotifyBump(t) ==
  /\ pc[t] \in {"nf_bump", "nx_bump"}
  /\ event' = event + 1
  /\ Goto(t, IF pc[t] = "nf_bump" THEN "nf_wake" ELSE "nx_wake")
  /\ UNCHANGED <<recVars, g_reaper_state, g_reaper_list, g_reaper_lock, rpc, robs,
                 victim, fault>>

NotifyWake(t) ==
  /\ pc[t] \in {"nf_wake", "nx_wake"}
  /\ rpc' = IF rpc = "parked" THEN "scan" ELSE rpc
  /\ IF pc[t] = "nf_wake" THEN Return(t) ELSE Goto(t, "exit_kernel")
  /\ UNCHANGED <<recVars, g_reaper_state, g_reaper_list, g_reaper_lock, event, robs,
                 victim, fault>>

(***************************************************************************)
(* pthread_exit and the kernel's half of it                                *)
(***************************************************************************)
Exit(t) ==
  /\ Done(t)
  /\ rec[t] # "none"
  /\ exit_started' = [exit_started EXCEPT ![t] = TRUE]
  /\ Goto(t, "exit_load")
  /\ UNCHANGED <<rec, lifecycle, complete, reap_queued, cwait, frees, reaperVars, fault>>

ExitLoad(t) ==
  /\ pc[t] = "exit_load"
  /\ Goto(t, IF lifecycle[t] = "detached" THEN "nf_exit" ELSE "exit_kernel")
  /\ UNCHANGED <<recVars, reaperVars, fault>>

\* The kernel publishes the completion once the thread is off its stack and
\* wakes one waiter.
Complete(t) ==
  /\ pc[t] = "exit_kernel"
  /\ complete' = [complete EXCEPT ![t] = TRUE]
  /\ \/ \E a \in cwait[t] : cwait' = [cwait EXCEPT ![t] = @ \ {a}]
     \/ cwait[t] = {} /\ UNCHANGED cwait
  /\ Goto(t, "gone")
  /\ UNCHANGED <<rec, lifecycle, exit_started, reap_queued, frees, reaperVars, fault>>

(***************************************************************************)
(* pthread_join and pthread_detach                                         *)
(***************************************************************************)
Claim(t, to, l) ==
  LET u == Target(t) IN
  Touch(u,
    /\ IF lifecycle[u] = "joinable"
         THEN lifecycle' = [lifecycle EXCEPT ![u] = to] /\ Goto(t, l)
         ELSE UNCHANGED lifecycle /\ Return(t)
    /\ UNCHANGED <<rec, complete, exit_started, reap_queued, cwait, frees, reaperVars>>)

Join(t) ==
  /\ Running(t, {"join"})
  /\ rec[Target(t)] # "none"
  /\ Claim(t, "joining", "join_test")

Detach(t) ==
  /\ pc[t] = "er_done" /\ prog.code[t][ip[t]] \in {"detach", "detach_self"}
  /\ Claim(t, "detached", "nf_call")

\* wait_for_completion, here by a joiner.
JoinTest(t) ==
  /\ pc[t] = "join_test"
  /\ LET u == Target(t) IN
     Touch(u, /\ IF complete[u]
                   THEN Goto(t, "join_reclaim") /\ UNCHANGED cwait
                   ELSE cwait' = [cwait EXCEPT ![u] = @ \cup {t}] /\ Goto(t, "join_parked")
              /\ UNCHANGED <<rec, lifecycle, complete, exit_started, reap_queued, frees,
                             reaperVars>>)

JoinWoken(t) ==
  /\ pc[t] = "join_parked"
  /\ t \notin cwait[Target(t)]
  /\ Goto(t, "join_test")
  /\ UNCHANGED <<recVars, reaperVars, fault>>

\* The wake handed along, the result read, and reclaim_thread.
Reclaim(u) ==
  /\ \/ \E a \in cwait[u] : cwait' = [cwait EXCEPT ![u] = @ \ {a}]
     \/ cwait[u] = {} /\ UNCHANGED cwait
  /\ rec' = [rec EXCEPT ![u] = "freed"]
  /\ frees' = [frees EXCEPT ![u] = @ + 1]

JoinReclaim(t) ==
  /\ pc[t] = "join_reclaim"
  /\ Touch(Target(t),
       /\ Reclaim(Target(t))
       /\ Return(t)
       /\ UNCHANGED <<lifecycle, complete, exit_started, reap_queued, reaperVars>>)

(***************************************************************************)
(* reaper_entry                                                            *)
(***************************************************************************)
Ready(u) == exit_started[u] \/ complete[u]

ReaperScan ==
  /\ rpc = "scan"
  /\ ~g_reaper_lock
  /\ g_reaper_lock' = TRUE
  /\ \/ /\ \A i \in DOMAIN g_reaper_list : ~Ready(g_reaper_list[i])
        /\ victim' = None
        /\ UNCHANGED g_reaper_list
     \/ \E i \in DOMAIN g_reaper_list :
          /\ Ready(g_reaper_list[i])
          /\ \A j \in 1 .. i - 1 : ~Ready(g_reaper_list[j])
          /\ victim' = g_reaper_list[i]
          /\ g_reaper_list' = RemoveAt(g_reaper_list, i)
  /\ rpc' = "observe"
  /\ UNCHANGED <<pc, ip, recVars, g_reaper_state, event, robs, fault>>

ReaperObserve ==
  /\ rpc = "observe"
  /\ robs' = event
  /\ g_reaper_lock' = FALSE
  /\ rpc' = IF victim = None THEN "wait" ELSE "test"
  /\ UNCHANGED <<pc, ip, recVars, g_reaper_state, g_reaper_list, event, victim, fault>>

ReaperPark ==
  /\ rpc = "wait"
  /\ rpc' = IF event = robs THEN "parked" ELSE "scan"
  /\ UNCHANGED <<pc, ip, recVars, g_reaper_state, g_reaper_list, g_reaper_lock, event,
                 robs, victim, fault>>

OffItsStackOnExit(u) == exit_started[u]

OffItsStack(u) == complete[u]

ReaperTest ==
  /\ rpc = "test" \/ (rpc = "cparked" /\ Reaper \notin cwait[victim])
  /\ IF OffItsStack(victim)
       THEN rpc' = "reclaim" /\ UNCHANGED cwait
       ELSE rpc' = "cparked" /\ cwait' = [cwait EXCEPT ![victim] = @ \cup {Reaper}]
  /\ UNCHANGED <<pc, ip, rec, lifecycle, complete, exit_started, reap_queued, frees,
                 g_reaper_state, g_reaper_list, g_reaper_lock, event, robs, victim, fault>>

ReaperReclaim ==
  /\ rpc = "reclaim"
  /\ Reclaim(victim)
  /\ rpc' = "scan"
  /\ UNCHANGED <<pc, ip, lifecycle, complete, exit_started, reap_queued, g_reaper_state,
                 g_reaper_list, g_reaper_lock, event, robs, victim, fault>>

(***************************************************************************)
(* The system                                                              *)
(***************************************************************************)
LifeInit ==
  /\ Init
  /\ rec = [t \in Thread |-> "none"]
  /\ lifecycle = [t \in Thread |-> "joinable"]
  /\ complete = [t \in Thread |-> FALSE]
  /\ exit_started = [t \in Thread |-> FALSE]
  /\ reap_queued = [t \in Thread |-> FALSE]
  /\ cwait = [t \in Thread |-> {}]
  /\ frees = [t \in Thread |-> 0]
  /\ g_reaper_state = 0 /\ g_reaper_list = <<>> /\ g_reaper_lock = FALSE
  /\ event = 0 /\ rpc = "none" /\ robs = 0 /\ victim = None
  /\ fault = FALSE

LifeStep(t) ==
  \/ NoSuchThread(t) \/ EnsureReaper(t) \/ BuildReaper(t) \/ PublishReaper(t)
  \/ Create(t) \/ CreateTid(t)
  \/ NotifyQueue(t) \/ NotifyPush(t) \/ NotifyBump(t) \/ NotifyWake(t)
  \/ Exit(t) \/ ExitLoad(t) \/ Complete(t)
  \/ Join(t) \/ Detach(t) \/ JoinTest(t) \/ JoinWoken(t) \/ JoinReclaim(t)

ReaperStep == ReaperScan \/ ReaperObserve \/ ReaperPark \/ ReaperTest \/ ReaperReclaim

\* A thread's own step: one of the calls above or one of Pthread.tla.
ThreadStep(t) ==
  /\ ~fault
  /\ \/ LifeStep(t) /\ UNCHANGED <<prog, syncVars>>
     \/ Step(t) /\ UNCHANGED lifeVars

ReaperNext == ~fault /\ ReaperStep /\ UNCHANGED <<prog, syncVars>>

Late(t) == ~fault /\ TimedOut(t) /\ UNCHANGED lifeVars

LifeNext == ReaperNext \/ \E t \in Thread : ThreadStep(t) \/ Late(t)

LifeSpec == LifeInit /\ [][LifeNext]_allVars

\* The kernel schedules every runnable thread again and again (Scheduler.tla);
\* a deadline may or may not pass.
FairLifeSpec ==
  /\ LifeSpec
  /\ WF_allVars(ReaperNext)
  /\ \A t \in Thread : WF_allVars(ThreadStep(t))

(***************************************************************************)
(* Properties                                                              *)
(***************************************************************************)
\* The values of the lifecycle words, the queues and the program counters.
TypeOK ==
  /\ prog \in Programs
  /\ locked \in 0..2 /\ once \in 0..2 /\ spin \in 0..1
  /\ owner \in Thread \cup {None} /\ recursion \in 0..RecMax
  /\ rw \in -1..RwMax /\ count \in 0..prog.trip
  /\ \A t \in Thread : holds[t] \subseteq Lock!Mode
  /\ \A w \in Word : Range(fq[w]) \subseteq Thread
  /\ rec \in [Thread -> {"none", "live", "freed"}]
  /\ lifecycle \in [Thread -> {"joinable", "joining", "detached"}]
  /\ Range(g_reaper_list) \subseteq Thread
  /\ victim \in Thread \cup {None}
  /\ \A t \in Thread : cwait[t] \subseteq Thread \cup {Reaper}

\* reclaim_thread unmaps a thread's stack, TLS and record only once the
\* kernel has taken the thread off that stack, and only once: whether the
\* joiner, the reaper, an early exit or a late detach got there first, the
\* thread is gone, is not on the reaper's list, and was freed a single time.
\* Stated with the type invariant.
ReclaimSafe ==
  /\ TypeOK
  /\ \A t \in Thread : rec[t] = "freed" =>
       /\ pc[t] = "gone"
       /\ frees[t] = 1
       /\ t \notin Range(g_reaper_list)

Finished(t) == pc[t] \in {"gone", "unborn"} \/ (Done(t) /\ rec[t] = "none")

\* A reader or writer who waits for a lock that is held against it.
Denied(t) == (pc[t] = "rd_parked" /\ ~ReaderMay) \/ (pc[t] = "wr_parked" /\ ~WriterMay)

\* It went to sleep on a state that would have let it in: after EBUSY the lock is
\* loaded again, and the holder's unlock and wake may lie between the two loads.
SleptOnFree(t) ==
  \/ pc[t] = "rd_parked" /\ reg[t] >= 0 /\ reg[t] < RwMax
  \/ pc[t] = "wr_parked" /\ reg[t] = 0

\* It is parked on the mutex of a condition with several waiters after a broadcast:
\* one that the broadcast moved there has taken the wake of an unlock and then, by
\* trylock, the mutex as 1, so that its own unlock woke nobody.
Waits(t) == Uses(t, "wait") \/ Uses(t, "timedwait")
BehindMoved(t) ==
  /\ t \in Range(fq["mutex"])
  /\ \E u \in Thread : Before(u, "broadcast") # {}
  /\ \E u, v \in Thread :
       /\ u # v /\ u # t /\ Waits(u) /\ Waits(v)
       /\ Before(u, "wait") \cup Before(u, "timedwait") # {}

\* Every call returns: with each runnable thread scheduled again and again, every
\* thread of every program comes to its end or waits for a reader-writer lock that
\* is held against it, unless the process has faulted.  A lost wake in the mutex,
\* condition, once, barrier or join protocol, or of a reader or writer who slept on
\* a lock held against it, would leave a thread parked for ever.  The two wakes
\* that pthread.c does lose are named: SleptOnFree and BehindMoved.
EveryCallReturns ==
  <>[](fault \/ \A t \in Thread : Finished(t) \/ Denied(t) \/ SleptOnFree(t) \/ BehindMoved(t))

=============================================================================
