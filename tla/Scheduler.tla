----------------------------- MODULE Scheduler -----------------------------
(***************************************************************************)
(* The per-CPU scheduler loop's idle path, the reschedule IPI of           *)
(* scheduler_enqueue, and the multiplexing of the local APIC one-shot      *)
(* between the quantum and the deadlines of parked threads (scheduler.c,   *)
(* timer.c, archsrc/x86_64/{irq,scheduler_arch,lapic,interrupts}.c).       *)
(*                                                                         *)
(* A CPU takes an interrupt only where the code has interrupts on: at the  *)
(* top of the loop, between the sti of irq_enable and the hlt of           *)
(* scheduler_arch_idle, while halted, and in user mode.  Claiming a parked *)
(* thread is one step here; module Futex has its races.                    *)
(*                                                                         *)
(* Deadlines, the quantum and the shot are absolute times in the code; the *)
(* variables hold what is left of them, and Tick counts it down to zero.   *)
(***************************************************************************)
EXTENDS Naturals, Sequences, FiniteSets

CONSTANTS
  Threads,
  NCpu,        \* g_cpu_state_table_len
  None,
  BootQueue,   \* the run queues at the start
  Quantum,     \* SCHED_QUANTUM_US
  LapicMax,    \* the longest shot the 32-bit initial count can hold
  IrqBatch,    \* TIMER_IRQ_BATCH
  Waits        \* how far away a thread may put a deadline, 0 for a past one

Cpus == 0 .. NCpu - 1

VARIABLES
  queue,      \* scheduler.queue
  idle,       \* scheduler.idle
  running,    \* the thread a CPU runs, or None
  pc,         \* where a CPU is
  back,       \* where it resumes when it has enqueued the threads of todo
  todo,       \* the claimed threads it still has to enqueue
  send,       \* the CPU it has to send the IPI to
  ipi,        \* VECTOR_RESCHED pending at a CPU
  target,     \* g_next_target modulo the number of CPUs
  quantum,    \* quantum_deadline_ns, None when 0
  deadlines,  \* the deadline tree: <<thread, time left>>, earliest first
  shot,       \* time left until the one-shot fires, None when stopped
  irr         \* VECTOR_TIMER accepted and not yet taken

vars == <<queue, idle, running, pc, back, todo, send, ipi, target, quantum,
          deadlines, shot, irr>>
timers == <<quantum, deadlines, shot, irr>>

ASSUME SchedulerAssumption ==
  /\ NCpu \in Nat \ {0} /\ Quantum \in Nat \ {0} /\ LapicMax \in Nat \ {0}
  /\ IrqBatch \in Nat \ {0} /\ Waits \subseteq Nat
  /\ None \notin Threads \cup Nat
  /\ BootQueue \in [Cpus -> Seq(Threads)]

SeqRange(s) == {s[i] : i \in DOMAIN s}
Goto(c, l) == pc' = [pc EXCEPT ![c] = l]

\* Parked: neither queued, nor running, nor in the hands of an enqueuer.
Parked == Threads \ UNION {SeqRange(queue[c]) \cup SeqRange(todo[c])
                             \cup {running[c]} : c \in Cpus}

Armed(D) == {D[i][1] : i \in DOMAIN D}
Least(S) == CHOOSE x \in S : \A y \in S : x <= y
CountDown(x) == IF x \in {None, 0} THEN x ELSE x - 1

\* llrb_tdeadline_insert: after the earlier entries and before the later ones,
\* anywhere among equal ones (the tid orders them).
Inserted(D, e) ==
  {SubSeq(D, 1, i) \o <<e>> \o SubSeq(D, i + 1, Len(D)) :
     i \in {j \in 0 .. Len(D) : /\ \A k \in 1 .. j : D[k][2] <= e[2]
                              /\ \A k \in j + 1 .. Len(D) : e[2] <= D[k][2]}}

\* llrb_tdeadline_remove: the entry of t, if D has one.
Cancelled(D, t) ==
  IF t \notin Armed(D) THEN D
  ELSE LET i == CHOOSE j \in DOMAIN D : D[j][1] = t
       IN  SubSeq(D, 1, i - 1) \o SubSeq(D, i + 1, Len(D))

\* program_local_locked and x86_lapic_timer_arm_oneshot: the earlier of the
\* quantum q and the first deadline of D, one tick away at least and LapicMax
\* at most; with neither the timer is stopped.
Program(q, D) ==
  LET obligations == ({q} \ {None}) \cup (IF D = <<>> THEN {} ELSE {D[1][2]}) IN
  IF obligations = {} THEN None
  ELSE LET left == Least(obligations) IN
       IF left = 0 THEN 1 ELSE Least({left, LapicMax})

Init ==
  /\ queue = BootQueue
  /\ idle = [c \in Cpus |-> FALSE]
  /\ running = [c \in Cpus |-> None]
  /\ pc = [c \in Cpus |-> "top"]
  /\ back = [c \in Cpus |-> "top"]
  /\ todo = [c \in Cpus |-> <<>>]
  /\ send = [c \in Cpus |-> None]
  /\ ipi = [c \in Cpus |-> FALSE]
  /\ target = 0
  /\ quantum = [c \in Cpus |-> None]
  /\ deadlines = [c \in Cpus |-> <<>>]
  /\ shot = [c \in Cpus |-> None]
  /\ irr = [c \in Cpus |-> FALSE]

(***************************************************************************)
(* scheduler_loop.                                                         *)
(***************************************************************************)
\* A thread is queued: dispatch it with a fresh quantum.
Dispatch(c) ==
  /\ pc[c] = "top" /\ queue[c] # <<>>
  /\ running' = [running EXCEPT ![c] = Head(queue[c])]
  /\ queue' = [queue EXCEPT ![c] = Tail(@)]
  /\ quantum' = [quantum EXCEPT ![c] = Quantum]
  /\ shot' = [shot EXCEPT ![c] = Program(Quantum, deadlines[c])]
  /\ Goto(c, "run")
  /\ UNCHANGED <<idle, back, todo, send, ipi, target, deadlines, irr>>

\* The queue is empty: idle is set under the lock the pop was made under.
MarkIdle(c) ==
  /\ pc[c] = "top" /\ queue[c] = <<>>
  /\ idle' = [idle EXCEPT ![c] = TRUE]
  /\ Goto(c, "marked")
  /\ UNCHANGED <<queue, running, back, todo, send, ipi, target, timers>>

\* Mutation: going idle stops the timer although deadlines are armed.
IdleTimerStops(c) ==
  /\ pc[c] = "marked"
  /\ quantum' = [quantum EXCEPT ![c] = None]
  /\ shot' = [shot EXCEPT ![c] = None]
  /\ Goto(c, "sti")
  /\ UNCHANGED <<queue, idle, running, back, todo, send, ipi, target, deadlines, irr>>

\* timer_cpu_idle, then the sti of irq_enable: interrupts are on from here.
IdleTimer(c) ==
  /\ pc[c] = "marked"
  /\ quantum' = [quantum EXCEPT ![c] = None]
  /\ shot' = [shot EXCEPT ![c] = Program(None, deadlines[c])]
  /\ Goto(c, "sti")
  /\ UNCHANGED <<queue, idle, running, back, todo, send, ipi, target, deadlines, irr>>

\* scheduler_arch_idle: the hlt is an instruction of its own.
Halt(c) ==
  /\ pc[c] = "sti"
  /\ Goto(c, "halted")
  /\ UNCHANGED <<queue, idle, running, back, todo, send, ipi, target, timers>>

ClearIdle(c) ==
  /\ pc[c] = "woken"
  /\ idle' = [idle EXCEPT ![c] = FALSE]
  /\ Goto(c, "top")
  /\ UNCHANGED <<queue, running, back, todo, send, ipi, target, timers>>

(***************************************************************************)
(* What a running thread does.                                             *)
(***************************************************************************)
\* uthread_park_yield: back onto the local queue.
Yield(c) ==
  /\ pc[c] = "run"
  /\ queue' = [queue EXCEPT ![c] = Append(@, running[c])]
  /\ running' = [running EXCEPT ![c] = None]
  /\ Goto(c, "top")
  /\ UNCHANGED <<idle, back, todo, send, ipi, target, timers>>

\* uthread_park_blocked, after a futex wait without a deadline.
Park(c) ==
  /\ pc[c] = "run"
  /\ running' = [running EXCEPT ![c] = None]
  /\ Goto(c, "top")
  /\ UNCHANGED <<queue, idle, back, todo, send, ipi, target, timers>>

\* Mutation: a new earliest deadline does not move the shot forward.
TimedParkQuietly(c, d) ==
  /\ pc[c] = "run"
  /\ \E D \in Inserted(deadlines[c], <<running[c], d>>) :
       deadlines' = [deadlines EXCEPT ![c] = D]
  /\ running' = [running EXCEPT ![c] = None]
  /\ Goto(c, "top")
  /\ UNCHANGED <<queue, idle, back, todo, send, ipi, target, quantum, shot, irr>>

\* A futex wait with a deadline d away: timer_deadline_arm reprograms only when
\* the entry became the earliest obligation of this CPU.
TimedPark(c, d) ==
  /\ pc[c] = "run"
  /\ \E D \in Inserted(deadlines[c], <<running[c], d>>) :
       /\ deadlines' = [deadlines EXCEPT ![c] = D]
       /\ shot' = IF D[1][1] = running[c] /\ (quantum[c] = None \/ d < quantum[c])
                  THEN [shot EXCEPT ![c] = Program(quantum[c], D)]
                  ELSE shot
  /\ running' = [running EXCEPT ![c] = None]
  /\ Goto(c, "top")
  /\ UNCHANGED <<queue, idle, back, todo, send, ipi, target, quantum, irr>>

\* A futex wake of a parked thread: its deadline entry is cancelled, whatever
\* CPU owns it, and no timer is reprogrammed.
Wake(c, t) ==
  /\ pc[c] = "run"
  /\ t \in Parked
  /\ deadlines' = [o \in Cpus |-> Cancelled(deadlines[o], t)]
  /\ todo' = [todo EXCEPT ![c] = <<t>>]
  /\ back' = [back EXCEPT ![c] = "run"]
  /\ Goto(c, "enqueue")
  /\ UNCHANGED <<queue, idle, running, send, ipi, target, quantum, shot, irr>>

(***************************************************************************)
(* scheduler_enqueue: push and read idle under the target's lock, send the *)
(* IPI after the unlock.                                                   *)
(***************************************************************************)
\* The next thread of todo, or back to where the CPU came from.
EnqueueNext(c, left) ==
  /\ todo' = [todo EXCEPT ![c] = left]
  /\ back' = [back EXCEPT ![c] = IF left = <<>> THEN "top" ELSE @]
  /\ Goto(c, IF left = <<>> THEN back[c] ELSE "enqueue")

Push(c) ==
  /\ pc[c] = "enqueue"
  /\ queue' = [queue EXCEPT ![target] = Append(@, Head(todo[c]))]
  /\ target' = (target + 1) % NCpu
  /\ IF idle[target]
     THEN /\ send' = [send EXCEPT ![c] = target]
          /\ Goto(c, "ipi")
          /\ UNCHANGED <<todo, back>>
     ELSE EnqueueNext(c, Tail(todo[c])) /\ UNCHANGED send
  /\ UNCHANGED <<idle, running, ipi, timers>>

SendIpi(c) ==
  /\ pc[c] = "ipi"
  /\ ipi' = [ipi EXCEPT ![send[c]] = TRUE]
  /\ send' = [send EXCEPT ![c] = None]
  /\ EnqueueNext(c, Tail(todo[c]))
  /\ UNCHANGED <<queue, idle, running, target, timers>>

(***************************************************************************)
(* Interrupts.                                                             *)
(***************************************************************************)
InterruptsOn == {"top", "sti", "halted", "run"}

\* Where an interrupt returns to: a halted CPU is past its hlt.
Resumed(c) == IF pc[c] = "halted" THEN "woken" ELSE pc[c]

\* VECTOR_RESCHED: EOI only.
TakeIpi(c) ==
  /\ pc[c] \in InterruptsOn /\ ipi[c]
  /\ ipi' = [ipi EXCEPT ![c] = FALSE]
  /\ Goto(c, Resumed(c))
  /\ UNCHANGED <<queue, idle, running, back, todo, send, target, timers>>

\* VECTOR_TIMER: claim the first due entries, at most a batch, clear an expired
\* quantum and reprogram; then enqueue the claimed threads, and preempt the
\* running one when its quantum was over.
TakeTimer(c) ==
  LET D == deadlines[c]
      due == Cardinality({i \in DOMAIN D : D[i][2] = 0})
      n == Least({due, IrqBatch})
      over == quantum[c] = 0
      rest == SubSeq(D, n + 1, Len(D))
      to == IF over /\ pc[c] = "run" THEN "preempted" ELSE Resumed(c) IN
  /\ pc[c] \in InterruptsOn /\ irr[c]
  /\ irr' = [irr EXCEPT ![c] = FALSE]
  /\ quantum' = [quantum EXCEPT ![c] = IF over THEN None ELSE @]
  /\ deadlines' = [deadlines EXCEPT ![c] = rest]
  /\ shot' = [shot EXCEPT ![c] = Program(quantum'[c], rest)]
  /\ todo' = [todo EXCEPT ![c] = [i \in 1 .. n |-> D[i][1]]]
  /\ back' = [back EXCEPT ![c] = IF n = 0 THEN @ ELSE to]
  /\ Goto(c, IF n = 0 THEN to ELSE "enqueue")
  /\ UNCHANGED <<queue, idle, running, send, ipi, target>>

\* The preempted thread yields on its way out of the interrupt.
Preempt(c) ==
  /\ pc[c] = "preempted"
  /\ queue' = [queue EXCEPT ![c] = Append(@, running[c])]
  /\ running' = [running EXCEPT ![c] = None]
  /\ Goto(c, "top")
  /\ UNCHANGED <<idle, back, todo, send, ipi, target, timers>>

\* Time passes.  A one-shot whose count runs out raises the timer vector.
Tick ==
  /\ irr' = [c \in Cpus |-> irr[c] \/ shot[c] = 1]
  /\ shot' = [c \in Cpus |-> IF shot[c] = 1 THEN None ELSE CountDown(shot[c])]
  /\ quantum' = [c \in Cpus |-> CountDown(quantum[c])]
  /\ deadlines' = [c \in Cpus |-> [i \in DOMAIN deadlines[c] |->
                     <<deadlines[c][i][1], CountDown(deadlines[c][i][2])>>]]
  /\ UNCHANGED <<queue, idle, running, pc, back, todo, send, ipi, target>>

\* The loop and the kernel paths of a CPU.
KernelStep(c) ==
  \/ Dispatch(c) \/ MarkIdle(c) \/ IdleTimer(c) \/ Halt(c) \/ ClearIdle(c)
  \/ Push(c) \/ SendIpi(c) \/ Preempt(c)

UserStep(c) ==
  \/ Yield(c)
  \/ Park(c)
  \/ \E d \in Waits : TimedPark(c, d)
  \/ \E t \in Threads : Wake(c, t)

Next ==
  \/ \E c \in Cpus : KernelStep(c) \/ UserStep(c) \/ TakeIpi(c) \/ TakeTimer(c)
  \/ Tick

Spec == Init /\ [][Next]_vars

\* The code between two interrupts makes progress, time passes, and an
\* accepted interrupt is taken once interrupts are on again and again.
FairSpec ==
  /\ Spec
  /\ WF_vars(Tick)
  /\ \A c \in Cpus : /\ WF_vars(KernelStep(c))
                     /\ SF_vars(TakeIpi(c)) /\ SF_vars(TakeTimer(c))

(***************************************************************************)
(* Correctness.                                                            *)
(***************************************************************************)
TypeOK ==
  /\ queue \in [Cpus -> Seq(Threads)]
  /\ idle \in [Cpus -> BOOLEAN]
  /\ running \in [Cpus -> Threads \cup {None}]
  /\ pc \in [Cpus -> {"top", "marked", "sti", "halted", "woken", "run", "enqueue",
                      "ipi", "preempted"}]
  /\ back \in [Cpus -> {"top", "sti", "woken", "run", "preempted"}]
  /\ todo \in [Cpus -> Seq(Threads)]
  /\ send \in [Cpus -> Cpus \cup {None}]
  /\ ipi \in [Cpus -> BOOLEAN] /\ irr \in [Cpus -> BOOLEAN]
  /\ target \in Cpus
  /\ quantum \in [Cpus -> Nat \cup {None}] /\ shot \in [Cpus -> Nat \cup {None}]
  /\ deadlines \in [Cpus -> Seq(Threads \X Nat)]

\* "Setting under the lock is what makes the 'push then check idle' sequence on
\* the producer side race-free" (scheduler_loop): a thread queued on a CPU that
\* has marked itself idle is announced by an IPI that is pending or about to be
\* sent, at least until that CPU enables interrupts.
PushAnnounced ==
  \A c \in Cpus : pc[c] = "marked" /\ queue[c] # <<>>
    => ipi[c] \/ \E d \in Cpus : send[d] = c

\* timer.c: one APIC shot serves the quantum and every parked deadline of a CPU,
\* arming reprograms it only for a new earliest obligation and cancelling never.
\* Still a CPU with an armed deadline or a quantum has its shot accepted, or
\* running and no later than it (a tick away when it is past).  Stated with the
\* type invariant.
Covered(c, left) ==
  irr[c] \/ (shot[c] # None /\ (shot[c] <= left \/ shot[c] <= 1))

ShotCoversDeadlines ==
  /\ TypeOK
  /\ \A c \in Cpus : /\ \A i \in DOMAIN deadlines[c] : Covered(c, deadlines[c][i][2])
                     /\ quantum[c] # None => Covered(c, quantum[c])

\* The one-shot serves both of its clients.  A deadline always ends its wait, on a
\* busy CPU and on an idle one: the entry leaves the tree, by expiry or by a wake.
\* And "only an actual quantum expiry becomes an involuntary yield", but it does: a
\* running thread does not keep its CPU for ever.
TimerServes ==
  \A t \in Threads, c \in Cpus :
    /\ t \in Armed(deadlines[c]) ~> t \notin Armed(deadlines[c])
    /\ running[c] = t ~> running[c] # t

\* scheduler_enqueue: "they're either about to HLT or already HLT'd, and need an
\* IPI to notice our push": a queued thread does get noticed and leaves the queue.
QueuedRuns ==
  \A t \in Threads, c \in Cpus :
    t \in SeqRange(queue[c]) ~> t \notin SeqRange(queue[c])

=============================================================================
