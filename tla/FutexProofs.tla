---------------------------- MODULE FutexProofs -----------------------------
(***************************************************************************)
(* The theorems about Futex.  Every action keeps the invariant: first the   *)
(* frame, which parts of it a step of one CPU on one thread can disturb;    *)
(* then the actions, by what they move: the control of a CPU, a wait in     *)
(* place, the life of a thread, a claim batch, a run queue.  Then that the  *)
(* invariant is inductive, and what follows.                                *)
(***************************************************************************)
EXTENDS Futex, TLAPS

Elems(s) == {s[i] : i \in DOMAIN s}
Distinct(s) == \A i, j \in DOMAIN s : s[i] = s[j] => i = j

\* A push at the end of a run queue (scheduler_enqueue) or of a claim batch
\* (detach_batch_locked) adds one thread and keeps the queue free of duplicates.
LEMMA AppendFacts ==
  ASSUME NEW s \in Seq(Threads), NEW x \in Threads
  PROVE  /\ Append(s, x) \in Seq(Threads)
         /\ Elems(Append(s, x)) = Elems(s) \cup {x}
         /\ Append(s, x) # <<>>
         /\ s # <<>> => Head(Append(s, x)) = Head(s)
         /\ Distinct(s) /\ x \notin Elems(s) => Distinct(Append(s, x))
<1>1. /\ Append(s, x) \in Seq(Threads)
      /\ Append(s, x) # <<>>
      /\ s # <<>> => Head(Append(s, x)) = Head(s)
  <2>1. Append(s, x) \in Seq(Threads) /\ Len(Append(s, x)) = Len(s) + 1 /\ Len(s) \in Nat
    OBVIOUS
  <2>2. Append(s, x) # <<>>
    BY <2>1
  <2>3. s # <<>> => Head(Append(s, x)) = Head(s)
    OBVIOUS
  <2> QED
    BY <2>1, <2>2, <2>3, Zenon
<1>2. /\ DOMAIN s = 1 .. Len(s) /\ Len(s) \in Nat
      /\ DOMAIN Append(s, x) = 1 .. Len(s) + 1
      /\ \A i \in 1 .. Len(s) : Append(s, x)[i] = s[i]
      /\ Append(s, x)[Len(s) + 1] = x
  OBVIOUS
<1>3. Elems(Append(s, x)) = Elems(s) \cup {x}
  <2>1. \A y \in Elems(Append(s, x)) : y \in Elems(s) \cup {x}
    BY <1>2 DEF Elems
  <2>2. \A y \in Elems(s) : y \in Elems(Append(s, x))
    BY <1>2 DEF Elems
  <2>3. x \in Elems(Append(s, x))
    BY <1>2 DEF Elems
  <2> QED
    BY <2>1, <2>2, <2>3, Zenon
<1>4. Distinct(s) /\ x \notin Elems(s) => Distinct(Append(s, x))
  BY <1>2 DEF Elems, Distinct
<1> QED
  BY <1>1, <1>3, <1>4, Zenon

\* Taking the head of a run queue (scheduler_loop) or of a claim batch
\* (finish_claimed) removes exactly that thread.
LEMMA TailFacts ==
  ASSUME NEW s \in Seq(Threads), s # <<>>
  PROVE  /\ Tail(s) \in Seq(Threads)
         /\ Head(s) \in Threads /\ Head(s) \in Elems(s)
         /\ Len(s) > 1 <=> Tail(s) # <<>>
         /\ Distinct(s) => Distinct(Tail(s)) /\ Elems(Tail(s)) = Elems(s) \ {Head(s)}
<1>1. /\ Tail(s) \in Seq(Threads)
      /\ DOMAIN s = 1 .. Len(s) /\ Len(s) \in Nat \ {0}
      /\ 1 \in DOMAIN s /\ Head(s) = s[1] /\ s[1] \in Threads
      /\ Len(Tail(s)) = Len(s) - 1
      /\ DOMAIN Tail(s) = 1 .. Len(s) - 1
      /\ \A i \in 1 .. Len(s) - 1 : Tail(s)[i] = s[i + 1]
  OBVIOUS
<1>2. Len(s) > 1 <=> Tail(s) # <<>>
  <2>1. Tail(s) = <<>> <=> Len(Tail(s)) = 0
    BY <1>1
  <2>2. Len(s) > 1 <=> Len(Tail(s)) # 0
    BY <1>1
  <2> QED
    BY <2>1, <2>2, Zenon
<1>3. ASSUME Distinct(s) PROVE Distinct(Tail(s)) /\ Elems(Tail(s)) = Elems(s) \ {Head(s)}
  <2>1. Distinct(Tail(s))
    BY <1>1, <1>3 DEF Distinct
  <2>2. \A y \in Elems(Tail(s)) : y \in Elems(s) /\ y # Head(s)
    BY <1>1, <1>3 DEF Elems, Distinct
  <2>3. ASSUME NEW i \in DOMAIN s, s[i] # Head(s) PROVE s[i] \in Elems(Tail(s))
    <3>1. i - 1 \in 1 .. Len(s) - 1 /\ Tail(s)[i - 1] = s[i]
      BY <1>1, <2>3
    <3> QED
      BY <1>1, <3>1, Zenon DEF Elems
  <2> QED
    BY <2>1, <2>2, <2>3, Zenon DEF Elems
<1> QED
  BY <1>1, <1>2, <1>3, Zenon DEF Elems

Inv == TypeOK /\ ClaimInv

\* What the invariant reads of a CPU, of a thread, and of the two together.
SameCpu(c) ==
  /\ pc'[c] = pc[c] /\ ret'[c] = ret[c] /\ req'[c] = req[c] /\ tgt'[c] = tgt[c]
  /\ batch'[c] = batch[c] /\ current_thread'[c] = current_thread[c]
SameThread(t) ==
  /\ life'[t] = life[t] /\ status'[t] = status[t] /\ (on_cpu'[t] <=> on_cpu[t])
  /\ wake_state'[t] = wake_state[t] /\ node'[t] = node[t]
  /\ deadline_cpu'[t] = deadline_cpu[t]
SameHold(c, t) ==
  /\ current_thread'[c] = t <=> current_thread[c] = t
  /\ Ready(c, t)' <=> Ready(c, t)
  /\ Owner(c, t)' <=> Owner(c, t)
  /\ Winner(c, t)' <=> Winner(c, t)
  /\ InTransit(c, t)' <=> InTransit(c, t)

\* A step of CPU c on thread t, or on no thread when t is None.
Only(c, t) ==
  /\ \A d \in Cpus \ {c} : SameCpu(d)
  /\ \A u \in Threads \ {t} : SameThread(u) /\ SameHold(c, u)
  /\ \A d \in Cpus \ {c}, u \in Threads \ {t} : u \in Queued(d)' <=> u \in Queued(d)

\* One CPU's queue or batch grows at its end, or loses its head.
Queues == [Cpus -> Seq(Threads)]
Appended(q, e, t) == [q EXCEPT ![e] = Append(@, t)]
Tailed(q, e) == [q EXCEPT ![e] = Tail(@)]

\* A push onto one CPU's queue, seen as the sets of threads in the queues.
LEMMA AppendOne ==
  ASSUME NEW q \in Queues, Once(q), NEW e \in Cpus, NEW t \in Threads,
         t \notin Elems(q[e]), NEW r, r = Appended(q, e, t)
  PROVE  /\ r \in Queues /\ Once(r) /\ r[e] # <<>>
         /\ Elems(r[e]) = Elems(q[e]) \cup {t}
         /\ \A d \in Cpus \ {e} : r[d] = q[d]
<1>1. q[e] \in Seq(Threads) /\ Distinct(q[e]) /\ r[e] = Append(q[e], t)
  BY Zenon DEF Once, Distinct, Queues, Appended, Tailed
<1>2. /\ Append(q[e], t) \in Seq(Threads) /\ Elems(r[e]) = Elems(q[e]) \cup {t} /\ r[e] # <<>>
      /\ Distinct(r[e])
  BY <1>1, AppendFacts, Zenon
<1> QED
  BY <1>2 DEF Once, Distinct, Queues, Appended, Tailed

\* Taking the head of one CPU's queue, seen as the sets of threads in the queues.
LEMMA TailOne ==
  ASSUME NEW q \in Queues, Once(q), NEW e \in Cpus, q[e] # <<>>,
         NEW r, r = Tailed(q, e)
  PROVE  /\ r \in Queues /\ Once(r)
         /\ Head(q[e]) \in Threads /\ Head(q[e]) \in Elems(q[e])
         /\ Elems(r[e]) = Elems(q[e]) \ {Head(q[e])}
         /\ Len(q[e]) > 1 <=> r[e] # <<>>
         /\ \A d \in Cpus \ {e} : r[d] = q[d]
<1>1. q[e] \in Seq(Threads) /\ Distinct(q[e]) /\ r[e] = Tail(q[e])
  BY Zenon DEF Once, Distinct, Queues, Appended, Tailed
<1>2. /\ Tail(q[e]) \in Seq(Threads) /\ Elems(r[e]) = Elems(q[e]) \ {Head(q[e])}
      /\ Distinct(r[e]) /\ Head(q[e]) \in Threads /\ Head(q[e]) \in Elems(q[e])
      /\ Len(q[e]) > 1 <=> r[e] # <<>>
  BY <1>1, TailFacts, Zenon
<1> QED
  BY <1>2 DEF Once, Distinct, Queues, Appended, Tailed

\* A CPU whose own state did not change holds what it held before, whatever
\* another CPU did to the TCBs.
LEMMA Elsewhere ==
  ASSUME NEW d \in Cpus, SameCpu(d), NEW u
  PROVE  /\ Owner(d, u)' <=> Owner(d, u)
         /\ Winner(d, u)' <=> Winner(d, u)
         /\ InTransit(d, u)' <=> InTransit(d, u)
         /\ InHand(d, u)' <=> InHand(d, u)
         /\ HoldsUmem(d)' <=> HoldsUmem(d)
         /\ u \in Batched(d)' <=> u \in Batched(d)
         /\ (u \in Queued(d)' <=> u \in Queued(d)) => (Ready(d, u)' <=> Ready(d, u))
  BY Zenon DEF SameCpu, Owner, Winner, InTransit, InHand, HoldsUmem, Batched, Ready

\* The locality the futex and scheduler code relies on: a step of CPU c on thread
\* t keeps the invariant when it keeps it for CPU c and for thread t.
LEMMA Frame ==
  ASSUME ClaimInv, NEW c \in Cpus, NEW t, Only(c, t),
         Context(c)', Once(runq)', Once(batch)',
         HoldsUmem(c)' => \A d \in Cpus \ {c} : ~HoldsUmem(d),
         \A u \in Threads : Holding(c, u)',
         t \in Threads => \A d \in Cpus \ {c} : Holding(d, t)',
         t \in Threads => Apart(t)' /\ Wait(t)' /\ Accounted(t)'
  PROVE  ClaimInv'
<1>1. \A d \in Cpus : Context(d)'
  BY DEF ClaimInv, Only, SameCpu, Context
<1>2. \A d, e \in Cpus : HoldsUmem(d)' /\ HoldsUmem(e)' => d = e
  <2>1. \A d \in Cpus \ {c} : HoldsUmem(d)' <=> HoldsUmem(d)
    BY Elsewhere, Zenon DEF Only
  <2> QED
    BY <2>1, Zenon DEF ClaimInv
<1>3. ASSUME NEW d \in Cpus \ {c}, NEW u \in Threads \ {t} PROVE Holding(d, u)'
  <2>1. /\ SameCpu(d) /\ SameThread(u) /\ Holding(d, u)
        /\ u \in Queued(d)' <=> u \in Queued(d)
        /\ HoldsUmem(d)' <=> HoldsUmem(d)
        /\ InHand(d, u)' <=> InHand(d, u)
        /\ u \in Batched(d)' <=> u \in Batched(d)
    BY Elsewhere, Zenon DEF Only, ClaimInv
  <2>2. Running(d, u)'
    BY <2>1, Zenon DEF Holding, Running, SameCpu, SameThread
  <2>3. Waits(d, u)'
    BY <2>1, Zenon DEF Holding, Waits, SameCpu, SameThread
  <2>4. Claimed(d, u)'
    BY <2>1, ZenonT(60) DEF Holding, Claimed, SameCpu, SameThread
  <2>5. Target(d, u)'
    BY <2>1 DEF Holding, Target, SameCpu, SameThread
  <2> QED
    BY <2>2, <2>3, <2>4, <2>5, Zenon DEF Holding
<1>4. ASSUME NEW u \in Threads \ {t} PROVE Apart(u)' /\ Wait(u)' /\ Accounted(u)'
  <2>1. \A d \in Cpus : SameHold(d, u)
    <3> SUFFICES ASSUME NEW d \in Cpus \ {c} PROVE SameHold(d, u)
      BY Zenon DEF Only
    <3> QED
      BY Elsewhere, Zenon DEF Only, SameHold, SameCpu
  <2>2. SameThread(u) /\ Apart(u) /\ Wait(u) /\ Accounted(u)
    BY Zenon DEF Only, ClaimInv
  <2>3. Apart(u)'
    BY <2>1, <2>2, Zenon DEF Apart, SameHold
  <2>4. Wait(u)'
    BY <2>2, Zenon DEF Wait, SameThread
  <2>5. Accounted(u)'
    BY <2>1, <2>2, Zenon DEF Accounted, SameThread, SameHold
  <2> QED
    BY <2>3, <2>4, <2>5, Zenon
<1> QED
  BY <1>1, <1>2, <1>3, <1>4, Zenon DEF ClaimInv

\* What the invariant says of one CPU and of one thread.
LEMMA InvFacts ==
  ASSUME Inv
  PROVE  /\ TypeOK
         /\ None \notin Threads
         /\ \A c \in Cpus : Context(c)
         /\ \A c \in Cpus, t \in Threads : Holding(c, t)
         /\ \A t \in Threads : Apart(t) /\ Wait(t) /\ Accounted(t)
  BY ConstantsAssumption, Zenon DEF Inv, ClaimInv

\* A CPU whose batch is empty has no claimed thread left to unlink or enqueue
\* (finish_claims is done).
LEMMA EmptyBatch ==
  ASSUME NEW c, batch[c] = <<>>
  PROVE  Batched(c) = {}
  BY DEF Batched

\* The requests that futex_sys_wake and futex_publish_wake build are well formed.
LEMMA RequestTypes ==
  /\ NoReq \in Requests
  /\ \A a \in Addrs, n \in 1 .. WakeBatch : WakeReq(a, n) \in Requests
  BY ConstantsAssumption DEF NoReq, WakeReq, Requests

\* Steps that change no thread and no queue: control moves on CPU c.
Control(c) ==
  /\ UNCHANGED <<tcbs, waits, runq, current_thread, batch>>
  /\ \A d \in Cpus \ {c} : /\ pc'[d] = pc[d] /\ ret'[d] = ret[d]
                           /\ req'[d] = req[d] /\ tgt'[d] = tgt[d]

\* Program counters at which a CPU has no thread in hand.
Plain == Pcs \ ({"park", "switch", "rq_move", "unclaim", "enqueue"} \cup ReapPcs)

\* A step that only moves the control of a CPU (a lock taken, a load, a
\* lost CAS) keeps the invariant when the CPU has no thread in hand.
LEMMA ControlStep ==
  ASSUME Inv, NEW c \in Cpus, Control(c), pc[c] \in Plain, pc'[c] \in Plain,
         \/ batch[c] = <<>>
         \/ /\ ret'[c] = ret[c]
            /\ \/ pc[c] \notin FinishPcs /\ pc'[c] \notin FinishPcs
               \/ pc[c] = "wake_scan" /\ pc'[c] = "cancel"
               \/ pc[c] = "release" /\ pc'[c] = "unblock"
               \/ pc'[c] = pc[c],
         TypeOK', Context(c)',
         HoldsUmem(c)' => \A d \in Cpus \ {c} : ~HoldsUmem(d),
         \A u \in Threads : Target(c, u)'
  PROVE  Inv'
<1> USE DEF Control, tcbs, waits
<1>1. None \notin Threads /\ Context(c) /\ ClaimInv
  BY InvFacts, Zenon DEF Inv
<1>2. \A d \in Cpus : Queued(d)' = Queued(d) /\ Batched(d)' = Batched(d)
  BY Zenon DEF Queued, Batched
<1>3. \A u \in Threads : SameHold(c, u)
  BY <1>2, Zenon DEF SameHold, Ready, Owner, Winner, InTransit, Plain
<1>4. Only(c, None)
  BY <1>2, <1>3, Zenon DEF Only, SameCpu, SameThread
<1>5. Once(runq)' /\ Once(batch)'
  BY <1>1, Zenon DEF Once, ClaimInv
<1>6. ASSUME NEW u \in Threads PROVE Holding(c, u)'
  <2>1. Holding(c, u)
    BY InvFacts, Zenon
  <2>2. Running(c, u)'
    BY <2>1, <1>2, Zenon DEF Holding, Running, Plain
  <2>3. Waits(c, u)'
    BY <2>1, <1>2, Zenon DEF Holding, Waits, Plain
  <2>4. Claimed(c, u)'
    <3>1. batch[c] = <<>> => u \notin Batched(c)
      BY DEF Batched
    <3>2. pc[c] = "wake_scan" => ret[c] # "irq_ret"
      BY <1>1, Zenon DEF Context, IrqPcs, FinishPcs
    <3> QED
      BY <2>1, <3>1, <3>2, <1>2, Zenon DEF Holding, Claimed, InHand, Plain, FinishPcs
  <2> QED
    BY <2>2, <2>3, <2>4, Zenon DEF Holding
<1> QED
  BY <1>1, <1>4, <1>5, <1>6, Frame, Zenon DEF Inv

\* A system call, an interrupt or a disposal returns, and the CPU drops its request.
LEMMA LeaveStep ==
  ASSUME Inv, NEW c \in Cpus, NEW l \in {"user", "exit", "sched"}, Leave(c, l),
         UNCHANGED <<tcbs, waits, word, dead, runq, current_thread, batch, panicked>>,
         seen' \in [Cpus -> SUBSET Threads],
         pc[c] \in Plain, batch[c] = <<>>,
         l = "sched" <=> current_thread[c] = None
  PROVE  Inv'
<1> USE DEF Leave, Reset, Goto
<1>1. TypeOK'
  BY RequestTypes, Zenon DEF Inv, TypeOK, tcbs, waits, Pcs, UserPcs, ThreadOrNone
<1>2. /\ pc'[c] = l /\ ret'[c] = "user" /\ req'[c] = NoReq /\ tgt'[c] = None
      /\ Control(c)
  BY Zenon DEF Inv, TypeOK, Control
<1>3. Context(c)'
  BY <1>2, Zenon DEF Context, ThreadPcs, LoopPcs, RequeuePcs, DestroyPcs, ReapPcs, FinishPcs
<1>4. ~HoldsUmem(c)'
  BY <1>2, Zenon DEF HoldsUmem, DestroyPcs, ReapPcs
<1>5. \A u \in Threads : Target(c, u)'
  BY <1>2, InvFacts, Zenon DEF Target
<1>6. pc'[c] \in Plain
  BY <1>2, Zenon DEF Plain, Pcs, UserPcs, ReapPcs
<1> QED
  BY <1>1, <1>2, <1>3, <1>4, <1>5, <1>6, ControlStep, Zenon

\* Control moves on inside a system call or an interrupt, arguments unchanged.
LEMMA GotoStep ==
  ASSUME Inv, NEW c \in Cpus, NEW l \in Plain, Goto(c, l), UNCHANGED <<ret, req, tgt>>,
         UNCHANGED <<tcbs, waits, runq, current_thread, batch>>,
         word' \in [Addrs -> {0, 1}], dead' \in [Procs -> BOOLEAN],
         seen' \in [Cpus -> SUBSET Threads], panicked' \in BOOLEAN,
         pc[c] \in Plain,
         \/ batch[c] = <<>>
         \/ pc[c] \notin FinishPcs /\ l \notin FinishPcs
         \/ pc[c] = "wake_scan" /\ l = "cancel"
         \/ pc[c] = "release" /\ l = "unblock"
         \/ l = pc[c],
         pc'[c] = l => Context(c)',
         l \in DestroyPcs => pc[c] \in DestroyPcs,
         l = "exited" => \A u \in Threads : tgt[c] = u =>
                            life[u] = "freed" \/ (life[u] = "live" /\ status[u] = "DEAD")
  PROVE  Inv'
<1>1. TypeOK'
  BY Zenon DEF Inv, TypeOK, Goto, tcbs, waits, Plain
<1>2. pc'[c] = l /\ ret'[c] = ret[c] /\ Control(c) /\ Context(c)'
  BY Zenon DEF Inv, TypeOK, Goto, Control
<1>3. HoldsUmem(c)' => HoldsUmem(c)
  BY <1>2, Zenon DEF HoldsUmem
<1>4. HoldsUmem(c)' => \A d \in Cpus \ {c} : ~HoldsUmem(d)
  BY <1>3, Zenon DEF Inv, ClaimInv
<1>5. ASSUME NEW u \in Threads PROVE Target(c, u)'
  <2>1. Target(c, u) /\ UNCHANGED <<tcbs, waits, tgt, ret>>
    BY InvFacts, Zenon DEF Holding
  <2> QED
    BY <1>2, <1>3, <2>1, Zenon DEF Target, Plain, tcbs, waits
<1> QED
  BY <1>1, <1>2, <1>4, <1>5, ControlStep, Zenon

\* The count of a requeue request decreases within its type (futex_sys_requeue).
LEMMA OneLess ==
  ASSUME NEW A, NEW n \in Nat, NEW s, s.count > 0,
         s \in [addr: A, dest: A, expected: {0, 1}, timed: BOOLEAN, count: 0 .. n]
  PROVE  /\ [s EXCEPT !.count = @ - 1]
              \in [addr: A, dest: A, expected: {0, 1}, timed: BOOLEAN, count: 0 .. n]
         /\ [s EXCEPT !.count = @ - 1].dest = s.dest
  OBVIOUS

\* A CPU inside finish_claimed or futex_expire_claimed has a claimed thread in hand.
LEMMA HeadFacts ==
  ASSUME Inv, NEW c \in Cpus, pc[c] \in FinishPcs \cup {"expire"}
  PROVE  batch[c] # <<>> /\ Head(batch[c]) \in Threads /\ Head(batch[c]) \in Batched(c)
<1>1. batch[c] \in Seq(Threads) /\ batch[c] # <<>>
  BY InvFacts, Zenon DEF TypeOK, Context
<1> QED
  BY <1>1, TailFacts, Zenon DEF Elems, Batched

\* A step of CPU c on thread t that changes no queue and no batch keeps the
\* invariant when it keeps it for thread t.
LEMMA InPlaceStep ==
  ASSUME Inv, NEW c \in Cpus, NEW t \in Threads,
         UNCHANGED <<runq, current_thread, batch>>,
         \A d \in Cpus \ {c} : /\ pc'[d] = pc[d] /\ ret'[d] = ret[d]
                               /\ req'[d] = req[d] /\ tgt'[d] = tgt[d],
         \A u \in Threads \ {t} : SameThread(u),
         pc[c] \in {"park", "switch"} \/ pc'[c] \in {"park", "switch"} => current_thread[c] = t,
         pc[c] \in FinishPcs \/ pc'[c] \in FinishPcs => Head(batch[c]) = t,
         pc[c] \in ReapPcs \cup {"rq_move"} => tgt[c] = t,
         pc'[c] \in ReapPcs \cup {"rq_move"} => tgt'[c] = t,
         HoldsUmem(c)' => HoldsUmem(c) /\ (tgt'[c] = tgt[c]),
         ret'[c] = ret[c] \/ batch[c] = <<>>,
         pc'[c] # "exited", ret'[c] = "dispose" => ret[c] = "dispose",
         TypeOK', Context(c)',
         \A d \in Cpus : Holding(d, t)',
         Apart(t)', Wait(t)', Accounted(t)'
  PROVE  Inv'
<1>1. ClaimInv /\ \A d \in Cpus : Queued(d)' = Queued(d) /\ Batched(d)' = Batched(d)
  BY Zenon DEF Inv, Queued, Batched
<1>2. \A u \in Threads \ {t} : SameHold(c, u)
  BY <1>1 DEF SameHold, Ready, Owner, Winner, InTransit, InHand, FinishPcs
<1>3. Only(c, t)
  BY <1>1, <1>2, Zenon DEF Only, SameCpu
<1>4. Once(runq)' /\ Once(batch)'
  BY <1>1, Zenon DEF Once, ClaimInv
<1>5. HoldsUmem(c)' => \A d \in Cpus \ {c} : ~HoldsUmem(d)
  BY <1>1, Zenon DEF ClaimInv
<1>6. ASSUME NEW u \in Threads \ {t} PROVE Holding(c, u)'
  <2>1. /\ Holding(c, u) /\ SameThread(u) /\ Queued(c)' = Queued(c) /\ Batched(c)' = Batched(c)
        /\ current_thread'[c] = current_thread[c] /\ batch'[c] = batch[c]
    BY <1>1, InvFacts, Zenon
  <2>2. Running(c, u)'
    BY <2>1, Zenon DEF Holding, Running, SameThread
  <2>3. Waits(c, u)'
    BY <2>1, Zenon DEF Holding, Waits, SameThread, InHand
  <2>4. Claimed(c, u)'
    <3>1. batch[c] = <<>> => u \notin Batched(c)
      BY DEF Batched
    <3> QED
      BY <2>1, <3>1, Zenon DEF Holding, Claimed, SameThread, InHand
  <2>5. Target(c, u)'
    BY <2>1, Zenon DEF Holding, Target, SameThread, HoldsUmem
  <2> QED
    BY <2>2, <2>3, <2>4, <2>5, Zenon DEF Holding
<1> QED
  BY <1>1, <1>3, <1>4, <1>5, <1>6, Frame, Zenon DEF Inv

\* The winner of a claim (futex_try_claim), and the CPU that moves a waiter
\* (futex_sys_requeue), is alone with its thread.
LEMMA Alone ==
  ASSUME Inv, NEW c \in Cpus, NEW t \in Threads, Owner(c, t), NEW d \in Cpus \ {c}
  PROVE  /\ ~Owner(d, t) /\ ~Winner(d, t) /\ t \notin Batched(d) /\ ~InHand(d, t)
         /\ pc[d] \in ReapPcs \cup {"rq_move"} => tgt[d] # t
<1>1. ~Owner(d, t)
  BY InvFacts, Zenon DEF Apart
<1>2. InHand(d, t) => t \in Batched(d)
  BY HeadFacts, Zenon DEF InHand
<1> QED
  BY <1>1, <1>2, Zenon DEF Owner, Winner

\* Nobody owns the wait of a parked thread: every waker, timer and reaper must win
\* the CAS on wake_state first.
LEMMA Parked ==
  ASSUME Inv, NEW t \in Threads, wake_state[t] = "PARKED", NEW d \in Cpus
  PROVE  /\ ~Owner(d, t) /\ ~Winner(d, t) /\ t \notin Batched(d) /\ ~InHand(d, t)
         /\ pc[d] \in ReapPcs \cup {"rq_move"} => tgt[d] # t
         /\ t \notin Queued(d)
<1>1. Holding(d, t) /\ (InHand(d, t) => t \in Batched(d))
  BY InvFacts, HeadFacts, Zenon DEF InHand
<1>2. t \notin Batched(d) /\ t \notin Queued(d) /\ (pc[d] \in ReapPcs \cup {"rq_move"} => tgt[d] # t)
  BY <1>1, Zenon DEF Holding, Claimed, Target, Waits
<1> QED
  BY <1>1, <1>2, Zenon DEF Owner, Winner

\* Removal from and insertion into a bucket tree touch one thread only.
LEMMA TreeFacts ==
  ASSUME TypeOK, NEW t \in Threads, NEW a \in Addrs \cup {None},
         (Unlink(t) /\ a = None) \/ Link(t, a)
  PROVE  /\ node' \in [Threads -> Addrs \cup {None}] /\ older' \in [Threads -> SUBSET Threads]
         /\ node'[t] = a /\ \A u \in Threads \ {t} : node'[u] = node[u]
<1>1. node' = [node EXCEPT ![t] = a]
  BY Zenon DEF Unlink, Link
<1>2. older' \in [Threads -> SUBSET Threads]
  <2>1. older \in [Threads -> SUBSET Threads]
    BY Zenon DEF TypeOK
  <2>2. CASE Unlink(t)
    BY <2>1, <2>2, Zenon DEF Unlink
  <2>3. CASE Link(t, a)
    BY <2>1, <2>3, Zenon DEF Link
  <2> QED
    BY <2>2, <2>3, Zenon
<1> QED
  BY <1>1, <1>2, Zenon DEF TypeOK

\* Control that moves on under a lock, or a scan that passes over a thread
\* it has lost, keeps the invariant.
LEMMA Advances ==
  ASSUME Inv, NEW c \in Cpus, NEW l, Goto(c, l), UNCHANGED <<ret, req, tgt>>,
         UNCHANGED <<tcbs, waits, word, dead, runq, current_thread, batch>>,
         seen' \in [Cpus -> SUBSET Threads], panicked' \in BOOLEAN,
         \/ pc[c] = "wait" /\ l = "compare"
         \/ pc[c] = "wake_scan" /\ l = "wake_scan"
         \/ pc[c] = "wake_scan" /\ l = "cancel" /\ batch[c] # <<>>
         \/ pc[c] = "wake_scan" /\ l = ret[c] /\ l \in {"wait", "dispose"} /\ batch[c] = <<>>
         \/ pc[c] = "release" /\ l = "unblock"
         \/ pc[c] = "unblock" /\ l = "unblock"
         \/ pc[c] = "rq_hi" /\ l = "rq_scan"
         \/ pc[c] = "rq_scan" /\ l = "rq_scan"
         \/ pc[c] = "irq_scan" /\ l = "irq_ret" /\ batch[c] = <<>>
         \/ pc[c] = "irq_scan" /\ l = "expire" /\ batch[c] # <<>>
         \/ pc[c] = "d_on_cpu" /\ l = "d_status"
         \/ pc[c] = "d_status" /\ l = "d_wake_state"
         \/ pc[c] = "d_wake_state" /\ l = "d_claim"
         \/ pc[c] = "exited" /\ l = "exited"
         \/ /\ pc[c] = "check_dead" /\ l = "exited"
            /\ status[tgt[c]] = "DEAD" \/ life[tgt[c]] = "freed"
  PROVE  Inv'
<1>1. Context(c) /\ TypeOK
  BY InvFacts, Zenon
<1>2. /\ word' \in [Addrs -> {0, 1}] /\ dead' \in [Procs -> BOOLEAN]
      /\ tgt[c] \in Threads \cup {None}
  BY <1>1, Zenon DEF TypeOK, ThreadOrNone
<1>4. l \in Plain /\ pc[c] \in Plain
  BY Zenon DEF Plain, Pcs, UserPcs, ScanPcs, FinishPcs, DestroyPcs, ReapPcs
<1>5. \/ batch[c] = <<>>
      \/ pc[c] \notin FinishPcs /\ l \notin FinishPcs
      \/ pc[c] = "wake_scan" /\ l = "cancel"
      \/ pc[c] = "release" /\ l = "unblock"
      \/ l = pc[c]
  BY Zenon DEF FinishPcs
<1>6. pc'[c] = l => Context(c)'
  BY <1>1 DEF Context, ThreadPcs, LoopPcs, RequeuePcs, DestroyPcs, ReapPcs, FinishPcs, IrqPcs
<1>7. l \in DestroyPcs => pc[c] \in DestroyPcs
  BY Zenon DEF DestroyPcs, ReapPcs
<1>8. ASSUME l = "exited", NEW u \in Threads, tgt[c] = u
      PROVE  life[u] = "freed" \/ (life[u] = "live" /\ status[u] = "DEAD")
  <2>1. CASE pc[c] = "exited"
    BY <1>8, <2>1, InvFacts, Zenon DEF Holding, Target
  <2>2. CASE pc[c] # "exited"
    <3>1. Wait(u) /\ life[u] \in {"unborn", "live", "freed"}
      BY InvFacts, Zenon DEF TypeOK
    <3> QED
      BY <1>8, <2>2, <3>1, Zenon DEF Wait
  <2> QED
    BY <2>1, <2>2, Zenon
<1> QED
  BY <1>2, <1>4, <1>5, <1>6, <1>7, <1>8, GotoStep, Zenon

-----------------------------------------------------------------------------
(***************************************************************************)
(* The actions of Futex that only move the control of a CPU.               *)
(***************************************************************************)

\* System calls that only write a word, mark a process dead or start an exit,
\* and the first lock of a wake and of a requeue, keep the invariant.
LEMMA MoveOn ==
  ASSUME Inv, NEW c \in Cpus,
         \/ \E a \in Addrs, v \in {0, 1} : Store(c, a, v)
         \/ SysExit(c) \/ SysProcExit(c) \/ Cull(c)
         \/ \E p \in Procs : SysKill(c, p)
         \/ WakeLock(c) \/ RequeueLockLo(c)
  PROVE  Inv'
<1>1. PICK l \in {"user", "exit", "wake_scan", "rq_hi"} :
        /\ pc[c] = CASE l = "wake_scan" -> "wake" [] l = "rq_hi" -> "rq_lo" [] OTHER -> "user"
        /\ Goto(c, l) /\ UNCHANGED <<ret, req, tgt>>
        /\ UNCHANGED <<tcbs, waits, runq, current_thread, batch>>
        /\ word' \in [Addrs -> {0, 1}] /\ dead' \in [Procs -> BOOLEAN]
        /\ seen' \in [Cpus -> SUBSET Threads] /\ panicked' \in BOOLEAN
  <2> USE DEF Inv, TypeOK, Goto, InUser, locals
  <2>1. CASE \E a \in Addrs, v \in {0, 1} : Store(c, a, v)
    BY <2>1 DEF Store
  <2>2. CASE SysExit(c) \/ Cull(c)
    BY <2>2, Zenon DEF SysExit, Cull
  <2>3. CASE SysProcExit(c)
    BY <2>3, Zenon DEF SysProcExit
  <2>4. CASE \E p \in Procs : SysKill(c, p)
    BY <2>4 DEF SysKill
  <2>5. CASE WakeLock(c)
    BY <2>5, Zenon DEF WakeLock
  <2>6. CASE RequeueLockLo(c)
    BY <2>6, Zenon DEF RequeueLockLo
  <2> QED
    BY <2>1, <2>2, <2>3, <2>4, <2>5, <2>6, Zenon
<1>2. batch[c] = <<>> /\ (pc'[c] = l => Context(c)')
  BY <1>1, InvFacts, Zenon DEF Context, ThreadPcs, LoopPcs, RequeuePcs, DestroyPcs,
                        ReapPcs, FinishPcs, IrqPcs
<1> QED
  BY <1>1, <1>2, GotoStep, Zenon DEF Plain, Pcs, UserPcs, ScanPcs, FinishPcs, DestroyPcs, ReapPcs

\* A call that ends without having parked anybody keeps the invariant.
LEMMA Leaves ==
  ASSUME Inv, NEW c \in Cpus, NEW l \in {"user", "exit", "sched"}, Leave(c, l),
         UNCHANGED <<tcbs, waits, word, dead, runq, current_thread, batch, panicked>>,
         seen' \in [Cpus -> SUBSET Threads],
         \/ /\ pc[c] \in {"wait", "compare", "rq_hi", "rq_scan", "d_on_cpu", "d_status",
                          "d_wake_state", "d_claim"}
            /\ l # "sched"
         \/ pc[c] = "check_dead" /\ l = "sched"
         \/ pc[c] = "irq_ret" /\ (l = "sched" <=> current_thread[c] = None)
         \/ pc[c] = "wake_scan" /\ batch[c] = <<>> /\ ret[c] = "user" /\ l = "user"
  PROVE  Inv'
<1>1. batch[c] = <<>> /\ (l = "sched" <=> current_thread[c] = None)
  BY InvFacts, Zenon DEF Context, ThreadPcs, LoopPcs, RequeuePcs, DestroyPcs, FinishPcs
<1>2. pc[c] \in Plain
  BY Zenon DEF Plain, Pcs, UserPcs, ScanPcs, DestroyPcs, ReapPcs
<1> QED
  BY <1>1, <1>2, LeaveStep, Zenon

\* The returns of futex_sys_wait without a park, of futex_sys_requeue and of the
\* timer interrupt keep the invariant.
LEMMA LeavingSteps ==
  ASSUME Inv, NEW c \in Cpus, WaitReturns(c) \/ RequeueUnlock(c) \/ IrqReturn(c)
  PROVE  Inv'
<1>1. CASE WaitReturns(c)
  BY <1>1, Leaves, Zenon DEF WaitReturns, Inv, TypeOK
<1>2. CASE RequeueUnlock(c)
  BY <1>2, Leaves, Zenon DEF RequeueUnlock, Inv, TypeOK
<1>3. CASE IrqReturn(c)
  BY <1>3, Leaves, Zenon DEF IrqReturn, Inv, TypeOK
<1> QED
  BY <1>1, <1>2, <1>3, Zenon

\* The death check of futex_sys_wait, the unlock of a wake and of the timer, the
\* second bucket lock, the read of prev->status and the first two loads of
\* proc_sys_thread_destroy keep the invariant.
LEMMA AdvancingSteps ==
  ASSUME Inv, NEW c \in Cpus,
         \/ WaitCheck(c) \/ WakeUnlock(c) \/ RequeueLockHi(c) \/ IrqUnlock(c)
         \/ CheckDead(c) \/ DestroyOnCpu(c) \/ DestroyStatus(c)
  PROVE  Inv'
<1> USE DEF Inv, TypeOK
<1>1. CASE WaitCheck(c)
  BY <1>1, Leaves, Advances, Zenon DEF WaitCheck
<1>2. CASE WakeUnlock(c)
  <2>1. /\ pc[c] = "wake_scan" /\ seen' \in [Cpus -> SUBSET Threads]
        /\ UNCHANGED <<tcbs, waits, word, dead, runq, current_thread, batch, panicked>>
    BY <1>2, Zenon DEF WakeUnlock
  <2>2. CASE batch[c] # <<>>
    <3>1. Goto(c, "cancel") /\ UNCHANGED <<ret, req, tgt>>
      BY <1>2, <2>2, Zenon DEF WakeUnlock
    <3> QED
      BY <2>1, <2>2, <3>1, Advances, Zenon
  <2>3. CASE batch[c] = <<>> /\ ret[c] \in {"wait", "dispose"}
    <3>1. Goto(c, ret[c]) /\ UNCHANGED <<ret, req, tgt>>
      BY <1>2, <2>3, Zenon DEF WakeUnlock, Resume
    <3> QED
      BY <2>1, <2>3, <3>1, Advances, Zenon
  <2>4. CASE batch[c] = <<>> /\ ret[c] \notin {"wait", "dispose"}
    <3>1. ret[c] = "user"
      BY <2>1, <2>4, InvFacts, Zenon DEF Context, IrqPcs, FinishPcs
    <3>2. Leave(c, "user")
      BY <1>2, <2>4, <3>1, Zenon DEF WakeUnlock, Resume, Leave
    <3> QED
      BY <2>1, <2>4, <3>1, <3>2, Leaves, Zenon
  <2> QED
    BY <2>2, <2>3, <2>4, Zenon
<1>3. CASE RequeueLockHi(c)
  BY <1>3, Leaves, Advances, Zenon DEF RequeueLockHi
<1>4. CASE IrqUnlock(c)
  BY <1>4, Advances, Zenon DEF IrqUnlock
<1>5. CASE CheckDead(c)
  BY <1>5, Leaves, Advances, Zenon DEF CheckDead
<1>6. CASE DestroyOnCpu(c)
  BY <1>6, Leaves, Advances, Zenon DEF DestroyOnCpu, DestroyCheck
<1>7. CASE DestroyStatus(c)
  BY <1>7, Leaves, Advances, Zenon DEF DestroyStatus, DestroyCheck
<1> QED
  BY <1>1, <1>2, <1>3, <1>4, <1>5, <1>6, <1>7, Zenon

\* The steps of the futex code on a thread another CPU has claimed first, and the
\* release of a live thread (finish_claimed), keep the invariant.
LEMMA LosingSteps ==
  ASSUME Inv, NEW c \in Cpus, NEW t \in Threads,
         \/ WakeScan(c, t) /\ wake_state[t] # "PARKED"
         \/ FinishRelease(c) /\ ~IsDead(Head(batch[c]))
         \/ RequeueScan(c, t) /\ wake_state[t] # "PARKED"
         \/ DestroyWakeState(c) /\ wake_state[tgt[c]] # "REAPABLE"
         \/ DestroyClaim(c) /\ wake_state[tgt[c]] # "PARKED"
  PROVE  Inv'
<1> USE DEF Inv, TypeOK
<1>1. CASE WakeScan(c, t) /\ wake_state[t] # "PARKED"
  <2>1. pc[c] = "wake_scan" /\ Goto(c, "wake_scan") /\ UNCHANGED <<ret, req, tgt, panicked>>
    BY <1>1, Zenon DEF WakeScan, Goto
  <2>2. /\ seen' \in [Cpus -> SUBSET Threads]
        /\ UNCHANGED <<tcbs, waits, word, dead, runq, current_thread, batch>>
    BY <1>1, Zenon DEF WakeScan, tcbs, waits
  <2> QED
    BY <2>1, <2>2, Advances, Zenon
<1>2. CASE FinishRelease(c) /\ ~IsDead(Head(batch[c]))
  BY <1>2, Advances, Zenon DEF FinishRelease, tcbs, waits
<1>3. CASE RequeueScan(c, t) /\ wake_state[t] # "PARKED"
  <2>1. pc[c] = "rq_scan" /\ Goto(c, "rq_scan") /\ UNCHANGED <<ret, req, tgt, panicked>>
    BY <1>3 DEF RequeueScan, Goto
  <2>2. /\ seen' \in [Cpus -> SUBSET Threads]
        /\ UNCHANGED <<tcbs, waits, word, dead, runq, current_thread, batch>>
    BY <1>3, Zenon DEF RequeueScan, tcbs, waits
  <2> QED
    BY <2>1, <2>2, Advances, Zenon
<1>4. CASE DestroyWakeState(c) /\ wake_state[tgt[c]] # "REAPABLE"
  BY <1>4, Leaves, Advances, Zenon DEF DestroyWakeState, DestroyCheck
<1>5. CASE DestroyClaim(c) /\ wake_state[tgt[c]] # "PARKED"
  BY <1>5, Leaves, Zenon DEF DestroyClaim, TryClaim, tcbs, waits
<1> QED
  BY <1>1, <1>2, <1>3, <1>4, <1>5, Zenon

Rets == {"user", "wait", "irq_ret", "dispose"}

\* A CPU that moves on with another continuation, request or target keeps the
\* invariant.
LEMMA JumpStep ==
  ASSUME Inv, NEW c \in Cpus, NEW l \in Plain, NEW r \in Rets, NEW q \in Requests,
         NEW x \in ThreadOrNone,
         pc' = [pc EXCEPT ![c] = l], ret' = [ret EXCEPT ![c] = r],
         req' = [req EXCEPT ![c] = q], tgt' = [tgt EXCEPT ![c] = x],
         UNCHANGED <<tcbs, waits, dead, runq, current_thread, batch>>,
         word' \in [Addrs -> {0, 1}], seen' \in [Cpus -> SUBSET Threads],
         panicked' \in BOOLEAN,
         pc[c] \in Plain,
         \/ batch[c] = <<>>
         \/ r = ret[c] /\ pc[c] \notin FinishPcs /\ l \notin FinishPcs,
         pc'[c] = l /\ ret'[c] = r /\ req'[c] = q /\ tgt'[c] = x => Context(c)',
         l \in DestroyPcs \/ r = "dispose" =>
            \/ UmemFree /\ life[x] = "live"
            \/ HoldsUmem(c) /\ x = tgt[c],
         l # "exited",
         r = "dispose" => x = tgt[c] /\ (pc[c] = "exited" \/ ret[c] = "dispose")
  PROVE  Inv'
<1>1. TypeOK'
  BY Zenon DEF Inv, TypeOK, tcbs, waits, Plain, Rets
<1>2. /\ pc'[c] = l /\ ret'[c] = r /\ req'[c] = q /\ tgt'[c] = x
      /\ Control(c) /\ Context(c)'
  BY Zenon DEF Inv, TypeOK, Control
<1>3. HoldsUmem(c)' => \A d \in Cpus \ {c} : ~HoldsUmem(d)
  BY <1>2, Zenon DEF HoldsUmem, UmemFree, Inv, ClaimInv
<1>4. ASSUME NEW u \in Threads PROVE Target(c, u)'
  <2>1. Target(c, u) /\ UNCHANGED <<tcbs, waits>>
    BY InvFacts, Zenon DEF Holding
  <2> QED
    BY <1>2, <2>1, Zenon DEF Target, HoldsUmem, Plain, tcbs, waits
<1> QED
  BY <1>1, <1>2, <1>3, <1>4, ControlStep, Zenon

\* The entries of futex_sys_wait, futex_sys_wake and futex_sys_requeue keep the
\* invariant.
LEMMA SyscallSteps ==
  ASSUME Inv, NEW c \in Cpus, NEW a \in Addrs,
         \/ \E v \in {0, 1}, timed \in BOOLEAN, w \in Addrs \cup {None} :
              SysWait(c, a, v, timed, w)
         \/ \E n \in 1 .. WakeBatch : SysWake(c, a, n)
         \/ \E from \in Addrs, v \in {0, 1}, n \in 1 .. WakeBatch :
              SysRequeue(c, from, a, v, n)
  PROVE  Inv'
<1>1. pc[c] = "user" /\ Context(c) /\ TypeOK /\ a # None /\ ret[c] = "user"
  <2>1. pc[c] = "user"
    BY Zenon DEF SysWait, SysWake, SysRequeue, InUser
  <2> QED
    BY <2>1, InvFacts, ConstantsAssumption, Zenon DEF Context, FinishPcs, IrqPcs, TypeOK
<1>2. /\ UNCHANGED <<tcbs, waits, word, dead, runq, current_thread, batch, seen, tgt, panicked>>
      /\ tgt' = [tgt EXCEPT ![c] = tgt[c]] /\ tgt[c] \in ThreadOrNone
  BY <1>1, Zenon DEF SysWait, SysWake, SysRequeue, TypeOK
<1> DEFINE Fits(l, r, q) ==
     pc'[c] = l /\ ret'[c] = r /\ req'[c] = q /\ tgt'[c] = tgt[c] => Context(c)'
<1>3. ASSUME NEW l \in {"wait", "wake", "rq_lo"}, NEW r \in {"user", "wait"}, NEW q \in Requests,
             pc' = [pc EXCEPT ![c] = l], ret' = [ret EXCEPT ![c] = r],
             req' = [req EXCEPT ![c] = q],
             l = "wait" => r = "wait",
             r = "wait" => l # "rq_lo",
             r = "wait" \/ l = "rq_lo" => q.dest = a
      PROVE  Inv'
  <2>1. Fits(l, r, q)
    BY <1>1, <1>2, <1>3, Zenon DEF Context, ThreadPcs, LoopPcs, RequeuePcs, DestroyPcs, ReapPcs,
                            FinishPcs, IrqPcs
  <2>2. batch[c] = <<>> /\ word' \in [Addrs -> {0, 1}] /\ seen' \in [Cpus -> SUBSET Threads]
        /\ panicked' \in BOOLEAN
    BY <1>1, <1>2, Zenon DEF Context, FinishPcs, TypeOK
  <2>3. l \in Plain /\ pc[c] \in Plain /\ l \notin DestroyPcs /\ r \in Rets
    BY <1>1, Zenon DEF Plain, Pcs, UserPcs, DestroyPcs, ReapPcs, Rets
  <2> QED
    BY <1>2, <1>3, <2>1, <2>2, <2>3, JumpStep, Zenon
<1>4. ASSUME NEW v \in {0, 1}, NEW timed \in BOOLEAN, NEW w \in Addrs \cup {None},
             SysWait(c, a, v, timed, w)
      PROVE  Inv'
  <2> DEFINE q == [addr |-> w, dest |-> a, expected |-> v, timed |-> timed, count |-> 1]
  <2>1. q \in Requests /\ q.dest = a
    BY ConstantsAssumption DEF Requests
  <2>2. \E l \in {"wait", "wake"} : pc' = [pc EXCEPT ![c] = l]
    BY <1>4, Zenon DEF SysWait, Goto
  <2>3. ret' = [ret EXCEPT ![c] = "wait"] /\ req' = [req EXCEPT ![c] = q]
    BY <1>4, Zenon DEF SysWait
  <2> HIDE DEF q
  <2> QED
    BY <1>3, <2>1, <2>2, <2>3, Zenon
<1>5. ASSUME NEW n \in 1 .. WakeBatch, SysWake(c, a, n) PROVE Inv'
  <2>1. /\ pc' = [pc EXCEPT ![c] = "wake"] /\ req' = [req EXCEPT ![c] = WakeReq(a, n)]
        /\ ret' = [ret EXCEPT ![c] = "user"]
    BY <1>1, <1>5, Zenon DEF SysWake, Goto, TypeOK
  <2> QED
    BY <1>3, <2>1, RequestTypes, Zenon
<1>6. ASSUME NEW from \in Addrs, NEW v \in {0, 1}, NEW n \in 1 .. WakeBatch,
             SysRequeue(c, from, a, v, n)
      PROVE  Inv'
  <2> DEFINE q == [addr |-> from, dest |-> a, expected |-> v, timed |-> FALSE, count |-> n]
  <2>1. q \in Requests /\ q.dest = a
    BY ConstantsAssumption, SMTT(60) DEF Requests
  <2>2. /\ pc' = [pc EXCEPT ![c] = "rq_lo"] /\ req' = [req EXCEPT ![c] = q]
        /\ ret' = [ret EXCEPT ![c] = "user"]
    BY <1>1, <1>6, SMTT(60) DEF SysRequeue, Goto, TypeOK
  <2> HIDE DEF q
  <2> QED
    BY <1>3, <2>1, <2>2, Zenon
<1> QED
  BY <1>4, <1>5, <1>6, Zenon

\* The timer interrupt and its scan, a lost claim of timer_cpu_interrupt, the start
\* of proc_sys_thread_destroy, process_thread_exited and futex_publish_wake keep
\* the invariant.
LEMMA TargetSteps ==
  ASSUME Inv, NEW c \in Cpus, NEW t \in Threads,
         \/ TimerIrq(c) \/ IrqScan(c, t) \/ (IrqClaim(c) /\ wake_state[tgt[c]] # "PARKED")
         \/ SysThreadDestroy(c, t) \/ Exited(c) \/ Publish(c)
  PROVE  Inv'
<1>1. /\ Context(c) /\ TypeOK /\ pc[c] \in Pcs /\ ret[c] \in Rets /\ req[c] \in Requests
      /\ tgt[c] \in ThreadOrNone /\ t \in ThreadOrNone /\ t # None /\ None \in ThreadOrNone
      /\ ret = [ret EXCEPT ![c] = ret[c]] /\ req = [req EXCEPT ![c] = req[c]]
      /\ tgt = [tgt EXCEPT ![c] = tgt[c]]
  BY InvFacts, Zenon DEF TypeOK, ThreadOrNone, Rets
<1>2. CASE TimerIrq(c)
  <2>1. /\ pc' = [pc EXCEPT ![c] = "irq_scan"] /\ ret' = [ret EXCEPT ![c] = "irq_ret"]
        /\ req' = [req EXCEPT ![c] = req[c]] /\ tgt' = [tgt EXCEPT ![c] = tgt[c]]
        /\ UNCHANGED <<tcbs, waits, word, dead, runq, current_thread, batch, seen, panicked>>
        /\ pc[c] \in {"user", "sched"}
    BY <1>1, <1>2, Zenon DEF TimerIrq, Goto, UserPcs
  <2>2. /\ batch[c] = <<>>
        /\ pc'[c] = "irq_scan" /\ ret'[c] = "irq_ret" /\ req'[c] = req[c] /\ tgt'[c] = tgt[c]
           => Context(c)'
    BY <1>1, <2>1, Zenon DEF Context, ThreadPcs, LoopPcs, RequeuePcs, DestroyPcs, ReapPcs, FinishPcs, IrqPcs
  <2>3. "irq_scan" \in Plain /\ pc[c] \in Plain /\ "irq_scan" \notin DestroyPcs /\ "irq_ret" \in Rets
    BY <1>1, <2>1, Zenon DEF Plain, Pcs, UserPcs, DestroyPcs, ReapPcs, Rets
  <2> QED
    BY <1>1, <2>1, <2>2, <2>3, JumpStep, Zenon DEF TypeOK
<1>3. CASE IrqScan(c, t)
  <2>1. /\ pc' = [pc EXCEPT ![c] = "irq_claim"] /\ ret' = [ret EXCEPT ![c] = ret[c]]
        /\ req' = [req EXCEPT ![c] = req[c]] /\ tgt' = [tgt EXCEPT ![c] = t]
        /\ UNCHANGED <<tcbs, waits, word, dead, runq, current_thread, batch, panicked>>
        /\ seen' \in [Cpus -> SUBSET Threads] /\ pc[c] = "irq_scan"
    BY <1>1, <1>3, SMTT(60) DEF IrqScan, Goto, TypeOK
  <2>2. /\ ret[c] # "dispose"
        /\ pc'[c] = "irq_claim" /\ ret'[c] = ret[c] /\ req'[c] = req[c] /\ tgt'[c] = t
           => Context(c)'
    BY <1>1, <2>1, Zenon DEF Context, ThreadPcs, LoopPcs, RequeuePcs, DestroyPcs, ReapPcs, FinishPcs, IrqPcs
  <2>3. /\ "irq_claim" \in Plain /\ pc[c] \in Plain /\ "irq_claim" \notin DestroyPcs
        /\ "irq_claim" \notin FinishPcs /\ pc[c] \notin FinishPcs
    BY <1>1, <2>1, Zenon DEF Plain, Pcs, DestroyPcs, ReapPcs, FinishPcs
  <2> QED
    BY <1>1, <2>1, <2>2, <2>3, JumpStep, Zenon DEF TypeOK
<1>4. CASE IrqClaim(c) /\ wake_state[tgt[c]] # "PARKED"
  <2>1. /\ pc' = [pc EXCEPT ![c] = "irq_scan"] /\ ret' = [ret EXCEPT ![c] = ret[c]]
        /\ req' = [req EXCEPT ![c] = req[c]] /\ tgt' = [tgt EXCEPT ![c] = None]
        /\ UNCHANGED <<word, dead, runq, current_thread, batch, seen, panicked>>
        /\ pc[c] = "irq_claim"
    BY <1>1, <1>4, Zenon DEF IrqClaim, Goto
  <2>2. UNCHANGED <<tcbs, waits>>
    BY <1>4, Zenon DEF IrqClaim, TryClaim, tcbs, waits
  <2>3. /\ ret[c] # "dispose"
        /\ pc'[c] = "irq_scan" /\ ret'[c] = ret[c] /\ req'[c] = req[c] /\ tgt'[c] = None
           => Context(c)'
    BY <1>1, <2>1, Zenon DEF Context, ThreadPcs, LoopPcs, RequeuePcs, DestroyPcs, ReapPcs, FinishPcs, IrqPcs
  <2>4. /\ "irq_scan" \in Plain /\ pc[c] \in Plain /\ "irq_scan" \notin DestroyPcs
        /\ "irq_scan" \notin FinishPcs /\ pc[c] \notin FinishPcs
    BY <1>1, <2>1, Zenon DEF Plain, Pcs, DestroyPcs, ReapPcs, FinishPcs
  <2> QED
    BY <1>1, <2>1, <2>2, <2>3, <2>4, JumpStep, Zenon DEF TypeOK
<1>5. CASE SysThreadDestroy(c, t)
  <2>1. /\ pc' = [pc EXCEPT ![c] = "d_on_cpu"] /\ ret' = [ret EXCEPT ![c] = ret[c]]
        /\ req' = [req EXCEPT ![c] = req[c]] /\ tgt' = [tgt EXCEPT ![c] = t]
        /\ UNCHANGED <<tcbs, waits, word, dead, runq, current_thread, batch, seen, panicked>>
        /\ pc[c] = "user" /\ UmemFree /\ life[t] = "live"
    BY <1>1, <1>5, Zenon DEF SysThreadDestroy, InUser, Goto
  <2>2. /\ batch[c] = <<>> /\ ret[c] # "dispose"
        /\ pc'[c] = "d_on_cpu" /\ ret'[c] = ret[c] /\ req'[c] = req[c] /\ tgt'[c] = t
           => Context(c)'
    BY <1>1, <2>1, Zenon DEF Context, ThreadPcs, LoopPcs, RequeuePcs, DestroyPcs, ReapPcs, FinishPcs, IrqPcs
  <2>3. "d_on_cpu" \in Plain /\ pc[c] \in Plain
    BY <1>1, <2>1, Zenon DEF Plain, Pcs, DestroyPcs, ReapPcs
  <2> QED
    BY <1>1, <2>1, <2>2, <2>3, JumpStep, Zenon DEF TypeOK
<1>6. CASE Exited(c) /\ life[tgt[c]] # "live"
  <2>1. /\ Goto(c, "exited") /\ UNCHANGED <<ret, req, tgt>>
        /\ UNCHANGED <<tcbs, waits, word, dead, runq, current_thread, batch>>
        /\ seen' \in [Cpus -> SUBSET Threads] /\ panicked' \in BOOLEAN
        /\ pc[c] = "exited"
    BY <1>1, <1>6, SMTT(60) DEF Exited, TypeOK, Goto
  <2> QED
    BY <2>1, Advances, Zenon
<1>7. CASE Exited(c) /\ life[tgt[c]] = "live"
  <2>1. PICK l \in {"publish", "dispose"} :
        /\ pc' = [pc EXCEPT ![c] = l] /\ ret' = [ret EXCEPT ![c] = "dispose"]
        /\ l = "publish" => Completion[tgt[c]] # None
    BY <1>7, Zenon DEF Exited, Goto
  <2>2. /\ req' = [req EXCEPT ![c] = req[c]] /\ tgt' = [tgt EXCEPT ![c] = tgt[c]]
        /\ UNCHANGED <<tcbs, waits, word, dead, runq, current_thread, batch, seen, panicked>>
        /\ pc[c] = "exited" /\ UmemFree
    BY <1>1, <1>7, Zenon DEF Exited
  <2>3. /\ batch[c] = <<>>
        /\ pc'[c] = l /\ ret'[c] = "dispose" /\ req'[c] = req[c] /\ tgt'[c] = tgt[c]
           => Context(c)'
    BY <1>1, <2>1, <2>2, Zenon DEF Context, ThreadPcs, LoopPcs, RequeuePcs, DestroyPcs, ReapPcs, FinishPcs, IrqPcs
  <2>4. l \in Plain /\ pc[c] \in Plain /\ "dispose" \in Rets
    BY <1>1, <2>2, Zenon DEF Plain, Pcs, DestroyPcs, ReapPcs, Rets
  <2> QED
    BY <1>1, <1>7, <2>1, <2>2, <2>3, <2>4, JumpStep, Zenon DEF TypeOK
<1>8. CASE Publish(c)
  <2>1. pc[c] = "publish" /\ ret[c] = "dispose" /\ Completion[tgt[c]] \in Addrs
    BY <1>1, <1>8, ConstantsAssumption, SMTT(60) DEF Publish, Context, ThreadOrNone
  <2>2. WakeReq(Completion[tgt[c]], 1) \in Requests
    <3>1. 1 \in 1 .. WakeBatch
      BY ConstantsAssumption, SMTT(60)
    <3> QED
      BY <2>1, <3>1, RequestTypes, Zenon
  <2>3. /\ pc' = [pc EXCEPT ![c] = "wake_scan"] /\ ret' = [ret EXCEPT ![c] = ret[c]]
        /\ req' = [req EXCEPT ![c] = WakeReq(Completion[tgt[c]], 1)]
        /\ tgt' = [tgt EXCEPT ![c] = tgt[c]] /\ word' \in [Addrs -> {0, 1}]
        /\ UNCHANGED <<tcbs, waits, dead, runq, current_thread, batch, seen, panicked>>
    BY <1>1, <1>8, Zenon DEF Publish, Goto, TypeOK
  <2>4. /\ batch[c] = <<>> /\ HoldsUmem(c)
        /\ pc'[c] = "wake_scan" /\ ret'[c] = ret[c] /\ tgt'[c] = tgt[c] => Context(c)'
    BY <1>1, <2>1, <2>3, Zenon DEF Context, HoldsUmem, ThreadPcs, LoopPcs, RequeuePcs, DestroyPcs, ReapPcs,
                            FinishPcs, IrqPcs
  <2>5. "wake_scan" \in Plain /\ pc[c] \in Plain
    BY <1>1, <2>1, Zenon DEF Plain, Pcs, ScanPcs, DestroyPcs, ReapPcs
  <2> QED
    BY <1>1, <2>1, <2>2, <2>3, <2>4, <2>5, JumpStep, Zenon DEF TypeOK
<1> QED
  BY <1>2, <1>3, <1>4, <1>5, <1>6, <1>7, <1>8, Zenon

-----------------------------------------------------------------------------
(***************************************************************************)
(* The actions of Futex that end a wait, move it or time it out, in place: *)
(* no run queue and no claim batch changes.                                *)
(***************************************************************************)

\* finish_claimed cancelling the deadline of a woken thread keeps the invariant.
LEMMA FinishCancelStep ==
  ASSUME Inv, NEW c \in Cpus, FinishCancel(c)
  PROVE  Inv'
<1>1. pc[c] = "cancel" /\ pc[c] \in FinishPcs
  BY Zenon DEF FinishCancel, FinishPcs
<1>2. PICK t \in Threads : t = Head(batch[c]) /\ t \in Batched(c) /\ InHand(c, t)
  BY <1>1, HeadFacts, Zenon DEF InHand
<1>3. TypeOK'
  BY <1>2, Zenon DEF Inv, TypeOK, FinishCancel, Cancel, Goto, tcbs, locals, Pcs, FinishPcs
<1>4. /\ UNCHANGED <<tcbs, node, runq, current_thread, ret, req, tgt, batch>>
      /\ pc'[c] = "release" /\ deadline_cpu'[t] = None
      /\ \A d \in Cpus \ {c} : pc'[d] = pc[d]
      /\ \A u \in Threads \ {t} : deadline_cpu'[u] = deadline_cpu[u]
  BY <1>2, Zenon DEF Inv, TypeOK, FinishCancel, Cancel, Goto, locals
<1>5. \A d \in Cpus : Queued(d)' = Queued(d) /\ Batched(d)' = Batched(d)
  BY <1>4, Zenon DEF Queued, Batched
<1>6. Context(c)'
  BY <1>1, <1>4, InvFacts, Zenon DEF Context, ThreadPcs, LoopPcs, RequeuePcs, DestroyPcs, ReapPcs,
                              FinishPcs, IrqPcs
<1>7. ASSUME NEW d \in Cpus PROVE Holding(d, t)'
  <2>1. Holding(d, t) /\ (InHand(d, t)' <=> InHand(d, t))
    BY <1>1, <1>4, InvFacts, Zenon DEF InHand, FinishPcs
  <2> QED
    BY <1>1, <1>2, <1>4, <1>5, <2>1, Zenon DEF Holding, Running, Waits, Claimed, Target, HoldsUmem, tcbs,
                  FinishPcs, DestroyPcs, ReapPcs
<1>8. Apart(t)' /\ Wait(t)' /\ Accounted(t)'
  <2>1. Apart(t) /\ Wait(t) /\ Accounted(t)
    BY InvFacts, Zenon
  <2>2. \A d \in Cpus : /\ Ready(d, t)' <=> Ready(d, t)
                        /\ Owner(d, t)' <=> Owner(d, t)
                        /\ Winner(d, t)' <=> Winner(d, t)
                        /\ InTransit(d, t)' <=> InTransit(d, t)
    BY <1>1, <1>4, <1>5, Zenon DEF Ready, Owner, Winner, InTransit, InHand, FinishPcs, ReapPcs
  <2> QED
    BY <2>1, <2>2, <1>4, Zenon DEF Apart, Wait, Accounted, tcbs
<1> QED
  BY <1>1, <1>2, <1>3, <1>4, <1>6, <1>7, <1>8, InPlaceStep, Zenon DEF SameThread, HoldsUmem, tcbs, FinishPcs, DestroyPcs, ReapPcs

\* The on_cpu spin of thread_unblock_claimed and its store of RUNNABLE keep the
\* invariant.
LEMMA UnblockStatusStep ==
  ASSUME Inv, NEW c \in Cpus, UnblockStatus(c)
  PROVE  Inv'
<1>1. pc[c] = "unblock" /\ pc[c] \in FinishPcs
  BY Zenon DEF UnblockStatus, FinishPcs
<1>2. PICK t \in Threads : t = Head(batch[c]) /\ t \in Batched(c) /\ InHand(c, t)
  BY <1>1, HeadFacts, Zenon DEF InHand
<1>a. ASSUME ~(status[t] = "BLOCKED" /\ wake_state[t] = "CLAIMED") PROVE Inv'
  <2>1. /\ UNCHANGED <<pc, ret, req, tgt, seen>> /\ panicked' \in BOOLEAN
        /\ UNCHANGED <<tcbs, waits, word, dead, runq, current_thread, batch>>
    BY <1>2, <1>a, Zenon DEF UnblockStatus, tcbs, locals
  <2>2. Goto(c, "unblock") /\ seen' \in [Cpus -> SUBSET Threads]
    BY <1>1, <2>1, Zenon DEF Goto, Inv, TypeOK
  <2> QED
    BY <1>1, <2>1, <2>2, Advances, Zenon
<1>b. SUFFICES ASSUME status[t] = "BLOCKED", wake_state[t] = "CLAIMED" PROVE Inv'
  BY <1>a, Zenon
<1>3. TypeOK'
  BY <1>2, ZenonT(60) DEF Inv, TypeOK, UnblockStatus, Goto, waits, locals, Pcs, FinishPcs
<1>4. /\ UNCHANGED <<life, on_cpu, wake_state, waits, runq, current_thread, ret, req, tgt, batch>>
      /\ pc'[c] = "unclaim" /\ status'[t] = "RUNNABLE" /\ ~on_cpu[t]
      /\ \A d \in Cpus \ {c} : pc'[d] = pc[d]
      /\ \A u \in Threads \ {t} : status'[u] = status[u]
  BY <1>2, <1>b, Zenon DEF Inv, TypeOK, UnblockStatus, Goto, locals
<1>5. \A d \in Cpus : Queued(d)' = Queued(d) /\ Batched(d)' = Batched(d)
  BY <1>4, Zenon DEF Queued, Batched
<1>6. Context(c)'
  BY <1>1, <1>4, InvFacts, Zenon DEF Context, ThreadPcs, LoopPcs, RequeuePcs, DestroyPcs, ReapPcs,
                              FinishPcs, IrqPcs
<1>7. ASSUME NEW d \in Cpus PROVE Holding(d, t)'
  <2>1. Holding(d, t) /\ (InHand(d, t)' <=> InHand(d, t)) /\ Holding(c, t)
    BY <1>1, <1>4, InvFacts, Zenon DEF InHand, FinishPcs
  <2>2. d # c => t \notin Batched(d)
    BY <1>2, Alone, Zenon DEF Owner, Winner
  <2> QED
    BY <1>1, <1>2, <1>4, <1>5, <1>b, <2>1, <2>2, Zenon DEF Holding, Running, Waits, Claimed, Target, HoldsUmem,
                  waits, FinishPcs, DestroyPcs, ReapPcs
<1>8. Apart(t)' /\ Wait(t)' /\ Accounted(t)'
  <2>1. Apart(t) /\ Wait(t) /\ Accounted(t) /\ InTransit(c, t)' /\ Holding(c, t)
    BY <1>2, <1>4, InvFacts, Zenon DEF InTransit, InHand, FinishPcs
  <2>2. \A d \in Cpus : /\ Ready(d, t)' <=> Ready(d, t)
                        /\ Owner(d, t)' <=> Owner(d, t)
                        /\ Winner(d, t)' <=> Winner(d, t)
    BY <1>1, <1>4, <1>5, Zenon DEF Ready, Owner, Winner, InHand, FinishPcs, ReapPcs
  <2> QED
    BY <1>b, <2>1, <2>2, <1>4, Zenon DEF Apart, Wait, Accounted, waits
<1> QED
  BY <1>1, <1>2, <1>3, <1>4, <1>6, <1>7, <1>8, InPlaceStep, Zenon DEF SameThread, HoldsUmem, waits, FinishPcs, DestroyPcs, ReapPcs

\* The store of IDLE in thread_unblock_claimed keeps the invariant.
LEMMA UnblockUnclaimStep ==
  ASSUME Inv, NEW c \in Cpus, UnblockUnclaim(c)
  PROVE  Inv'
<1>1. pc[c] = "unclaim" /\ pc[c] \in FinishPcs
  BY Zenon DEF UnblockUnclaim, FinishPcs
<1>2. PICK t \in Threads : t = Head(batch[c]) /\ t \in Batched(c) /\ InHand(c, t)
  BY <1>1, HeadFacts, Zenon DEF InHand
<1>3. TypeOK'
  BY <1>2, Zenon DEF Inv, TypeOK, UnblockUnclaim, Goto, waits, locals, Pcs, FinishPcs
<1>4. /\ UNCHANGED <<life, status, on_cpu, waits, runq, current_thread, ret, req, tgt, batch>>
      /\ pc'[c] = "enqueue" /\ wake_state'[t] = "IDLE"
      /\ \A d \in Cpus \ {c} : pc'[d] = pc[d]
      /\ \A u \in Threads \ {t} : wake_state'[u] = wake_state[u]
  BY <1>2, Zenon DEF Inv, TypeOK, UnblockUnclaim, Goto, locals
<1>5. \A d \in Cpus : Queued(d)' = Queued(d) /\ Batched(d)' = Batched(d)
  BY <1>4, Zenon DEF Queued, Batched
<1>6. Context(c)'
  BY <1>1, <1>4, InvFacts, Zenon DEF Context, ThreadPcs, LoopPcs, RequeuePcs, DestroyPcs, ReapPcs,
                              FinishPcs, IrqPcs
<1>a. /\ wake_state[t] = "CLAIMED" /\ status[t] = "RUNNABLE" /\ node[t] = None /\ deadline_cpu[t] = None
      /\ life[t] = "live"
  BY <1>1, <1>2, InvFacts, Zenon DEF Holding, Claimed
<1>b. ASSUME NEW d \in Cpus PROVE t \notin Queued(d) /\ current_thread[d] # t
  BY <1>a, InvFacts, Zenon DEF Holding, Waits, Running
<1>c. ASSUME NEW d \in Cpus \ {c}
      PROVE  /\ ~Owner(d, t) /\ ~Winner(d, t) /\ t \notin Batched(d) /\ ~InHand(d, t)
             /\ pc[d] \in ReapPcs \cup {"rq_move"} => tgt[d] # t
  BY <1>2, Alone, Zenon DEF Owner, Winner
<1>7. ASSUME NEW d \in Cpus PROVE Holding(d, t)'
  <2>1. Holding(d, t) /\ (InHand(d, t)' <=> InHand(d, t))
    BY <1>1, <1>4, InvFacts, Zenon DEF InHand, FinishPcs
  <2> QED
    BY <1>1, <1>2, <1>4, <1>5, <1>a, <1>b, <1>c, <2>1, Zenon DEF Holding, Running, Waits, Claimed, Target, HoldsUmem,
                  waits, FinishPcs, DestroyPcs, ReapPcs
<1>8. Apart(t)' /\ Wait(t)' /\ Accounted(t)'
  <2>1. Apart(t) /\ Wait(t) /\ Accounted(t)
    BY InvFacts
  <2>2. \A d \in Cpus \ {c} : ~Ready(d, t)' /\ ~Owner(d, t)'
    BY <1>4, <1>5, <1>b, <1>c, Zenon DEF Ready, Owner, Winner, InHand
  <2> QED
    BY <1>a, <2>1, <2>2, <1>4, Zenon DEF Apart, Wait, Accounted, waits
<1> QED
  BY <1>1, <1>2, <1>3, <1>4, <1>6, <1>7, <1>8, InPlaceStep, Zenon DEF SameThread, HoldsUmem, waits, FinishPcs, DestroyPcs, ReapPcs

\* futex_expire_claimed unlinking a timed-out waiter keeps the invariant.
LEMMA ExpireStep ==
  ASSUME Inv, NEW c \in Cpus, Expire(c)
  PROVE  Inv'
<1>1. pc[c] = "expire" /\ pc[c] \notin FinishPcs /\ ret[c] = "irq_ret"
  BY InvFacts, Zenon DEF Expire, FinishPcs, Context
<1>2. PICK t \in Threads : t = Head(batch[c]) /\ t \in Batched(c)
  BY <1>1, HeadFacts, Zenon
<1>3. /\ life[t] = "live" /\ wake_state[t] = "CLAIMED" /\ node[t] # None /\ deadline_cpu[t] = None
  BY <1>1, <1>2, InvFacts, Zenon DEF Holding, Claimed, InHand
<1>a. /\ Unlink(t) /\ pc' = [pc EXCEPT ![c] = "cancel"]
      /\ UNCHANGED <<tcbs, deadline_cpu, word, dead, runq, current_thread, locals, panicked>>
  BY <1>2, <1>3, Zenon DEF Expire, UnlinkClaimed, Goto
<1>b. /\ node' \in [Threads -> Addrs \cup {None}] /\ older' \in [Threads -> SUBSET Threads]
      /\ node'[t] = None /\ \A u \in Threads \ {t} : node'[u] = node[u]
  BY <1>a, TreeFacts, Zenon DEF Inv
<1>4. TypeOK'
  BY <1>a, <1>b, Zenon DEF Inv, TypeOK, tcbs, locals, Pcs, FinishPcs
<1>5. /\ UNCHANGED <<tcbs, deadline_cpu, runq, current_thread, ret, req, tgt, batch>>
      /\ pc'[c] = "cancel" /\ \A d \in Cpus \ {c} : pc'[d] = pc[d]
  BY <1>a, Zenon DEF Inv, TypeOK, locals
<1>6. \A d \in Cpus : Queued(d)' = Queued(d) /\ Batched(d)' = Batched(d)
  BY <1>b, <1>5, Zenon DEF Queued, Batched
<1>7. Context(c)'
  BY <1>1, <1>b, <1>5, InvFacts, Zenon DEF Context, ThreadPcs, LoopPcs, RequeuePcs, DestroyPcs, ReapPcs,
                              FinishPcs, IrqPcs
<1>8. ASSUME NEW d \in Cpus \ {c}
      PROVE  /\ ~Owner(d, t) /\ ~Winner(d, t) /\ t \notin Batched(d) /\ ~InHand(d, t)
             /\ pc[d] \in ReapPcs \cup {"rq_move"} => tgt[d] # t
  BY <1>2, Alone, Zenon DEF Owner, Winner
<1>9. ASSUME NEW d \in Cpus PROVE Holding(d, t)'
  <2>1. Holding(d, t) /\ (InHand(d, t)' <=> d = c)
    BY <1>2, <1>b, <1>5, <1>8, InvFacts, Zenon DEF InHand, FinishPcs
  <2>2. /\ pc'[d] \in FinishPcs => pc[d] \in FinishPcs \/ d = c
        /\ HoldsUmem(d)' => HoldsUmem(d)
    BY <1>1, <1>5, Zenon DEF HoldsUmem, FinishPcs, DestroyPcs, ReapPcs
  <2>3. Running(d, t)'
    BY <1>1, <1>3, <1>5, <1>6, <2>1, Zenon DEF Holding, Running, tcbs
  <2>4. Waits(d, t)'
    BY <1>5, <1>6, <2>1, Zenon DEF Holding, Waits, tcbs
  <2>5. Claimed(d, t)'
    <3>1. CASE d = c
      BY <1>3, <1>b, <1>5, <2>1, <3>1, Zenon DEF Claimed, tcbs
    <3>2. CASE d # c
      BY <1>6, <1>8, <3>2, Zenon DEF Claimed
    <3> QED
      BY <3>1, <3>2, Zenon
  <2>6. Target(d, t)'
    <3>1. CASE d = c
      BY <1>1, <1>3, <1>5, <2>1, <2>2, <3>1, Zenon DEF Holding, Target, tcbs, ReapPcs
    <3>2. CASE d # c
      BY <1>5, <1>8, <2>1, <2>2, <3>2, Zenon DEF Holding, Target, tcbs
    <3> QED
      BY <3>1, <3>2, SMTT(60)
  <2> QED
    BY <2>3, <2>4, <2>5, <2>6, Zenon DEF Holding
<1>10. Apart(t)' /\ Wait(t)' /\ Accounted(t)'
  <2>1. Apart(t) /\ Wait(t) /\ Accounted(t)
    BY InvFacts
  <2>2. \A d \in Cpus : /\ Ready(d, t)' <=> Ready(d, t)
                        /\ Owner(d, t)' <=> Owner(d, t)
                        /\ Winner(d, t)' <=> Winner(d, t)
                        /\ InTransit(d, t)' <=> InTransit(d, t)
    BY <1>1, <1>b, <1>5, <1>6, Zenon DEF Ready, Owner, Winner, InTransit, InHand, FinishPcs, ReapPcs
  <2> QED
    BY <1>3, <2>1, <2>2, <1>b, <1>5, Zenon DEF Apart, Wait, Accounted, tcbs
<1> QED
  BY <1>1, <1>2, <1>4, <1>b, <1>5, <1>7, <1>9, <1>10, InPlaceStep, Zenon DEF SameThread, HoldsUmem, tcbs,
                  FinishPcs, DestroyPcs, ReapPcs

\* futex_sys_requeue taking a parked waiter to MOVING keeps the invariant.
LEMMA RequeueScanStep ==
  ASSUME Inv, NEW c \in Cpus, NEW t \in Threads, RequeueScan(c, t), wake_state[t] = "PARKED"
  PROVE  Inv'
<1>1. pc[c] = "rq_scan" /\ req[c].count > 0 /\ ret[c] # "dispose"
  BY InvFacts, Zenon DEF RequeueScan, Context, FinishPcs
<1>a. /\ UNCHANGED <<life, status, on_cpu, waits, word, dead, runq, current_thread, ret, req, batch,
                     panicked>>
      /\ pc' = [pc EXCEPT ![c] = "rq_move"] /\ tgt' = [tgt EXCEPT ![c] = t]
      /\ wake_state' = [wake_state EXCEPT ![t] = "MOVING"]
      /\ seen' = [seen EXCEPT ![c] = @ \cup {t}]
  BY Zenon DEF RequeueScan, Goto
<1>2. TypeOK'
  BY <1>a, Zenon DEF Inv, TypeOK, waits, Pcs, ScanPcs, ThreadOrNone
<1>3. /\ pc'[c] = "rq_move" /\ tgt'[c] = t /\ wake_state'[t] = "MOVING"
      /\ \A d \in Cpus \ {c} : pc'[d] = pc[d] /\ tgt'[d] = tgt[d]
      /\ \A u \in Threads \ {t} : wake_state'[u] = wake_state[u]
  BY <1>a, Zenon DEF Inv, TypeOK
<1>4. \A d \in Cpus : Queued(d)' = Queued(d) /\ Batched(d)' = Batched(d)
  BY <1>a, <1>3, ZenonT(60) DEF Queued, Batched
<1>5. Context(c)'
  BY <1>1, <1>a, <1>3, InvFacts, SMTT(60) DEF Context, ThreadPcs, LoopPcs, RequeuePcs, DestroyPcs, ReapPcs,
                              FinishPcs, IrqPcs
<1>6. \A d \in Cpus : /\ ~Owner(d, t) /\ t \notin Batched(d) /\ ~InHand(d, t) /\ t \notin Queued(d)
                      /\ pc[d] \in ReapPcs \cup {"rq_move"} => tgt[d] # t
  BY Parked, Zenon
<1>7. ASSUME NEW d \in Cpus PROVE Holding(d, t)'
  <2>1. Holding(d, t) /\ ret[c] = "user" /\ (InHand(d, t)' <=> InHand(d, t))
    BY <1>1, <1>a, <1>3, InvFacts, ZenonT(60) DEF InHand, FinishPcs, Context, IrqPcs, TypeOK
  <2> QED
    BY <1>1, <1>a, <1>3, <1>4, <1>6, <2>1, ZenonT(60) DEF Holding, Running, Waits, Claimed, Target, HoldsUmem,
                  waits, FinishPcs, DestroyPcs, ReapPcs
<1>8. Apart(t)' /\ Wait(t)' /\ Accounted(t)'
  <2>1. Apart(t) /\ Wait(t) /\ Accounted(t)
    BY InvFacts, Zenon
  <2>2. /\ \A d \in Cpus : /\ Ready(d, t)' <=> Ready(d, t)
                           /\ InTransit(d, t)' <=> InTransit(d, t)
        /\ \A d \in Cpus \ {c} : Owner(d, t)' <=> Owner(d, t)
    BY <1>1, <1>a, <1>3, <1>4, Zenon DEF Ready, Owner, Winner, InTransit, InHand, FinishPcs, ReapPcs
  <2> QED
    BY <2>1, <2>2, <1>a, <1>3, <1>6, SMTT(60) DEF Apart, Wait, Accounted, waits
<1> QED
  BY <1>1, <1>2, <1>a, <1>3, <1>5, <1>7, <1>8, InPlaceStep, Zenon DEF SameThread, HoldsUmem, waits,
                  FinishPcs, DestroyPcs, ReapPcs

\* futex_sys_requeue moving the waiter to its new word, and back to PARKED, keeps
\* the invariant.
LEMMA RequeueMoveStep ==
  ASSUME Inv, NEW c \in Cpus, RequeueMove(c)
  PROVE  Inv'
<1>1. /\ pc[c] = "rq_move" /\ ret[c] = "user" /\ batch[c] = <<>> /\ req[c] \in Requests
      /\ req[c].count > 0 /\ req[c].dest # None /\ TypeOK
  BY InvFacts, Zenon DEF RequeueMove, Context, RequeuePcs, FinishPcs, IrqPcs, TypeOK
<1>2. PICK t \in Threads : t = tgt[c]
  BY <1>1, InvFacts, Zenon DEF Context, TypeOK, ThreadOrNone
<1>3. PICK a \in Addrs : a = req[c].dest
  BY <1>1, Zenon DEF Requests
<1>4. life[t] = "live" /\ wake_state[t] = "MOVING"
  BY <1>1, <1>2, InvFacts, Zenon DEF Holding, Target, Wait
<1>5. PICK q \in Requests : q = [req[c] EXCEPT !.count = @ - 1] /\ q.dest = a
  <2>1. WakeBatch \in Nat
    BY ConstantsAssumption, Zenon
  <2>2. /\ [req[c] EXCEPT !.count = @ - 1] \in Requests
        /\ [req[c] EXCEPT !.count = @ - 1].dest = req[c].dest
    BY <1>1, <2>1, OneLess, Zenon DEF Requests
  <2> QED
    BY <1>3, <2>2, Zenon
<1>6. /\ UNCHANGED <<life, status, on_cpu, deadline_cpu, word, dead, runq, current_thread, ret,
                     batch, seen, panicked>>
      /\ Link(t, a) /\ wake_state' = [wake_state EXCEPT ![t] = "PARKED"]
      /\ req' = [req EXCEPT ![c] = q] /\ tgt' = [tgt EXCEPT ![c] = None]
      /\ pc' = [pc EXCEPT ![c] = "rq_scan"]
  BY <1>2, <1>3, <1>5, Zenon DEF RequeueMove, Goto
<1>7. /\ node' \in [Threads -> Addrs \cup {None}] /\ older' \in [Threads -> SUBSET Threads]
      /\ node'[t] = a /\ \A u \in Threads \ {t} : node'[u] = node[u]
  BY <1>1, <1>6, TreeFacts, Zenon
<1>8. TypeOK'
  BY <1>1, <1>6, <1>7, Zenon DEF TypeOK, Pcs, ScanPcs, ThreadOrNone
<1>9. /\ pc'[c] = "rq_scan" /\ req'[c].dest # None /\ tgt'[c] = None /\ wake_state'[t] = "PARKED"
      /\ \A d \in Cpus \ {c} : pc'[d] = pc[d] /\ req'[d] = req[d] /\ tgt'[d] = tgt[d]
      /\ \A u \in Threads \ {t} : wake_state'[u] = wake_state[u]
  BY <1>1, <1>3, <1>5, <1>6, Zenon DEF TypeOK
<1>10. \A d \in Cpus : Queued(d)' = Queued(d) /\ Batched(d)' = Batched(d)
  BY <1>6, Zenon DEF Queued, Batched
<1>11. Context(c)'
  BY <1>1, <1>6, <1>9, InvFacts, Zenon DEF Context, ThreadPcs, LoopPcs, RequeuePcs, DestroyPcs, ReapPcs,
                                    FinishPcs, IrqPcs
<1>12. \A d \in Cpus \ {c} :
         /\ ~Owner(d, t) /\ t \notin Batched(d) /\ ~InHand(d, t)
         /\ pc[d] \in ReapPcs \cup {"rq_move"} => tgt[d] # t
  BY <1>1, <1>2, Alone, Zenon DEF Owner
<1>13. t \notin Batched(c)
  BY <1>1, EmptyBatch, Zenon
<1>14. ASSUME NEW d \in Cpus PROVE Holding(d, t)'
  <2>1. Holding(d, t) /\ t # None
    BY InvFacts, Zenon
  <2>2. Running(d, t)'
    <3>1. Running(d, t) /\ wake_state'[t] = "PARKED" /\ wake_state[t] = "MOVING"
      BY <1>4, <1>9, <2>1, Zenon DEF Holding
    <3>2. CASE d = c
      BY <1>1, <1>6, <3>1, <3>2, Zenon DEF Running
    <3>3. CASE d # c
      <4>1. pc'[d] = pc[d] /\ Queued(d)' = Queued(d)
        BY <1>9, <1>10, <3>3, Zenon
      <4> QED
        BY <1>6, <3>1, <4>1, Zenon DEF Running
    <3> QED
      BY <3>2, <3>3, Zenon
  <2>3. Waits(d, t)'
    BY <1>4, <1>10, <2>1, Zenon DEF Holding, Waits
  <2>4. Claimed(d, t)'
    BY <1>10, <1>12, <1>13, Zenon DEF Claimed
  <2>5. Target(d, t)'
    <3>1. CASE d = c
      BY <1>9, <2>1, <3>1, Zenon DEF Target
    <3>2. CASE d # c
      <4>1. /\ pc'[d] = pc[d] /\ tgt'[d] = tgt[d] /\ ret' = ret /\ life' = life /\ status' = status
            /\ pc[d] \in ReapPcs \cup {"rq_move"} => tgt[d] # t
        BY <1>6, <1>9, <1>12, <3>2, Zenon
      <4>2. Target(d, t) /\ (HoldsUmem(d)' <=> HoldsUmem(d))
        BY <2>1, <4>1, Zenon DEF Holding, HoldsUmem
      <4>3. SUFFICES ASSUME tgt'[d] = t
                     PROVE  Target(d, t)'
        BY Zenon DEF Target
      <4>4. /\ HoldsUmem(d) => life[t] = "live"
            /\ pc[d] = "exited" \/ ret[d] = "dispose" => life[t] = "freed" \/ (life[t] = "live" /\ status[t] = "DEAD")
            /\ pc[d] \notin ReapPcs /\ pc[d] # "rq_move"
        BY <4>1, <4>2, <4>3, Zenon DEF Target
      <4> QED
        BY <4>1, <4>2, <4>4, Zenon DEF Target
    <3> QED
      BY <3>1, <3>2, Zenon
  <2> QED
    BY <2>2, <2>3, <2>4, <2>5, Zenon DEF Holding
<1>15. Apart(t)' /\ Wait(t)' /\ Accounted(t)'
  <2>1. Apart(t) /\ Wait(t) /\ Accounted(t) /\ a # None
    BY <1>3, InvFacts, ConstantsAssumption, Zenon
  <2>2. /\ \A d \in Cpus : /\ Ready(d, t)' <=> Ready(d, t)
                           /\ InTransit(d, t)' <=> InTransit(d, t)
        /\ \A d \in Cpus \ {c} : ~Owner(d, t)'
    BY <1>1, <1>6, <1>9, <1>10, <1>12, Zenon DEF Ready, Owner, Winner, InTransit, InHand, FinishPcs, ReapPcs
  <2> QED
    BY <2>1, <2>2, <1>4, <1>6, <1>7, <1>9, Zenon DEF Apart, Wait, Accounted
<1> QED
  BY <1>1, <1>2, <1>6, <1>7, <1>8, <1>9, <1>11, <1>14, <1>15, InPlaceStep, Zenon DEF SameThread, HoldsUmem,
                  FinishPcs, DestroyPcs, ReapPcs

-----------------------------------------------------------------------------
(***************************************************************************)
(* The actions of Futex that park, create, release or destroy a thread in  *)
(* place: no run queue and no claim batch changes.                         *)
(***************************************************************************)

\* The compare-and-park of futex_sys_wait keeps the invariant.
LEMMA WaitParksStep ==
  ASSUME Inv, NEW c \in Cpus, WaitParks(c)
  PROVE  Inv'
<1>1. /\ pc[c] = "compare" /\ ret[c] = "wait" /\ batch[c] = <<>> /\ req[c] \in Requests
      /\ req[c].dest # None /\ TypeOK /\ current_thread[c] # None
  BY InvFacts, Zenon DEF WaitParks, Context, FinishPcs, IrqPcs, TypeOK, ThreadPcs
<1>2. PICK t \in Threads : t = current_thread[c]
  BY <1>1, Zenon DEF TypeOK, ThreadOrNone
<1>3. PICK a \in Addrs : a = req[c].dest
  BY <1>1, Zenon DEF Requests
<1>4. life[t] = "live" /\ status[t] = "RUNNING" /\ wake_state[t] = "IDLE" /\ on_cpu[t]
  BY <1>1, <1>2, InvFacts, Zenon DEF Holding, Running
<1>5. PICK x \in Cpus \cup {None} : deadline_cpu' = [deadline_cpu EXCEPT ![t] = x]
  BY <1>2, Zenon DEF WaitParks
<1>6. /\ UNCHANGED <<life, status, on_cpu, word, dead, runq, current_thread, batch, seen, panicked>>
      /\ Link(t, a) /\ wake_state' = [wake_state EXCEPT ![t] = "PARKED"]
      /\ ret' = [ret EXCEPT ![c] = "user"] /\ req' = [req EXCEPT ![c] = NoReq]
      /\ tgt' = [tgt EXCEPT ![c] = None] /\ pc' = [pc EXCEPT ![c] = "park"]
  BY <1>2, <1>3, Zenon DEF WaitParks, Leave, Reset, Goto
<1>7. /\ node' \in [Threads -> Addrs \cup {None}] /\ older' \in [Threads -> SUBSET Threads]
      /\ node'[t] = a /\ \A u \in Threads \ {t} : node'[u] = node[u]
  BY <1>1, <1>6, TreeFacts, Zenon
<1>8. TypeOK'
  BY <1>1, <1>5, <1>6, <1>7, RequestTypes, Zenon DEF TypeOK, Pcs, ThreadOrNone
<1>9. /\ pc'[c] = "park" /\ ret'[c] = "user" /\ tgt'[c] = None /\ wake_state'[t] = "PARKED"
      /\ \A d \in Cpus \ {c} : /\ pc'[d] = pc[d] /\ ret'[d] = ret[d]
                               /\ req'[d] = req[d] /\ tgt'[d] = tgt[d]
      /\ \A u \in Threads \ {t} : /\ wake_state'[u] = wake_state[u]
                                  /\ deadline_cpu'[u] = deadline_cpu[u]
  BY <1>1, <1>5, <1>6, Zenon DEF TypeOK
<1>10. \A d \in Cpus : Queued(d)' = Queued(d) /\ Batched(d)' = Batched(d)
  BY <1>6, Zenon DEF Queued, Batched
<1>11. Context(c)'
  BY <1>1, <1>6, <1>9, InvFacts, Zenon DEF Context, ThreadPcs, LoopPcs, RequeuePcs, DestroyPcs, ReapPcs,
                                    FinishPcs, IrqPcs
<1>12. ASSUME NEW d \in Cpus
       PROVE  /\ ~Owner(d, t) /\ t \notin Batched(d) /\ ~InHand(d, t) /\ t \notin Queued(d)
              /\ pc[d] \in ReapPcs \cup {"rq_move", "exited"} \/ ret[d] = "dispose" => tgt[d] # t
  <2>1. Holding(d, t) /\ (InHand(d, t) => t \in Batched(d))
    BY InvFacts, HeadFacts, Zenon DEF InHand
  <2> QED
    BY <1>4, <2>1, Zenon DEF Owner, Winner, Holding, Claimed, Waits, Target
<1>13. \A d \in Cpus \ {c} : current_thread[d] # t
  BY <1>2, InvFacts, Zenon DEF Apart
<1>14. ASSUME NEW d \in Cpus PROVE Holding(d, t)'
  <2>1. Holding(d, t) /\ t # None
    BY InvFacts, Zenon
  <2>2. Running(d, t)'
    <3>1. CASE d = c
      BY <1>4, <1>6, <1>9, <3>1, Zenon DEF Running
    <3>2. CASE d # c
      BY <1>6, <1>13, <3>2, Zenon DEF Running
    <3> QED
      BY <3>1, <3>2, Zenon
  <2>3. Waits(d, t)' /\ Claimed(d, t)'
    BY <1>10, <1>12, Zenon DEF Waits, Claimed
  <2>4. Target(d, t)'
    <3>1. CASE d = c
      BY <1>9, <2>1, <3>1, Zenon DEF Target
    <3>2. CASE d # c
      <4>1. tgt'[d] = tgt[d] /\ pc'[d] = pc[d] /\ ret'[d] = ret[d] /\ life'[t] = "live"
        BY <1>4, <1>6, <1>9, <3>2, Zenon
      <4> QED
        BY <1>12, <4>1, Zenon DEF Target
    <3> QED
      BY <3>1, <3>2, Zenon
  <2> QED
    BY <2>2, <2>3, <2>4, Zenon DEF Holding
<1>15. Apart(t)' /\ Wait(t)' /\ Accounted(t)'
  <2>1. Apart(t) /\ Wait(t) /\ Accounted(t) /\ a # None
    BY <1>3, InvFacts, ConstantsAssumption, Zenon
  <2>2. /\ \A d \in Cpus : ~Ready(d, t)' /\ ~Owner(d, t)'
        /\ InTransit(c, t)'
    BY <1>2, <1>6, <1>9, <1>10, <1>12, ZenonT(60) DEF Ready, Owner, Winner, InTransit, InHand, FinishPcs, ReapPcs
  <2> QED
    BY <2>1, <2>2, <1>4, <1>6, <1>7, <1>9, Zenon DEF Apart, Wait, Accounted
<1> QED
  BY <1>1, <1>2, <1>6, <1>7, <1>8, <1>9, <1>11, <1>14, <1>15, InPlaceStep, Zenon DEF SameThread, HoldsUmem,
                  FinishPcs, DestroyPcs, ReapPcs

\* uthread_park (RUNNING to BLOCKED) and the exit of a thread (RUNNING to DEAD)
\* keep the invariant.
LEMMA ParkSteps ==
  ASSUME Inv, NEW c \in Cpus, ParkBlocked(c) \/ ParkExit(c)
  PROVE  Inv'
<1>1. TypeOK /\ Context(c) /\ pc[c] \in {"park", "exit"} /\ current_thread[c] # None
  BY InvFacts, Zenon DEF ParkBlocked, ParkExit, Context, ThreadPcs
<1>2. PICK t \in Threads : t = current_thread[c]
  BY <1>1, Zenon DEF TypeOK, ThreadOrNone
<1>3. PICK s \in {"BLOCKED", "DEAD"} :
        /\ status' = [status EXCEPT ![t] = s] /\ (s = "BLOCKED" <=> pc[c] = "park")
        /\ UNCHANGED <<life, on_cpu, wake_state, waits, word, dead, runq, current_thread, locals,
                       panicked>>
        /\ pc' = [pc EXCEPT ![c] = "switch"]
  BY <1>1, <1>2, Zenon DEF ParkBlocked, ParkExit, Goto
<1>4. /\ status[t] = "RUNNING" /\ on_cpu[t] /\ life[t] # "unborn"
      /\ s = "BLOCKED" => wake_state[t] # "IDLE"
      /\ s = "DEAD" => wake_state[t] = "IDLE" /\ life[t] = "live"
  BY <1>1, <1>2, <1>3, InvFacts, Zenon DEF Holding, Running
<1>5. TypeOK'
  BY <1>1, <1>3, Zenon DEF TypeOK, waits, locals, Pcs
<1>6. /\ pc'[c] = "switch" /\ status'[t] = s /\ UNCHANGED <<ret, req, batch, tgt>>
      /\ \A d \in Cpus \ {c} : pc'[d] = pc[d]
      /\ \A u \in Threads \ {t} : status'[u] = status[u]
  BY <1>1, <1>3, Zenon DEF TypeOK, locals
<1>7. \A d \in Cpus : Queued(d)' = Queued(d) /\ Batched(d)' = Batched(d)
  BY <1>3, <1>6, Zenon DEF Queued, Batched
<1>8. ret[c] = "user" /\ batch[c] = <<>> /\ Context(c)'
  BY <1>1, <1>3, <1>6, Zenon DEF Context, TypeOK, ThreadPcs, LoopPcs, RequeuePcs, DestroyPcs, ReapPcs,
                          FinishPcs, IrqPcs
<1>9. \A d \in Cpus \ {c} : current_thread[d] # t
  BY <1>2, InvFacts, Zenon DEF Apart
<1>10. ASSUME NEW d \in Cpus PROVE Holding(d, t)'
  <2>1. Holding(d, t) /\ (d # c => (InHand(d, t)' <=> InHand(d, t)))
    BY <1>6, InvFacts, Zenon DEF InHand
  <2>2. t \notin Batched(c)
    BY <1>8, EmptyBatch, Zenon
  <2>3. Running(d, t)'
    <3>1. CASE d = c
      BY <1>3, <1>4, <1>6, <3>1, Zenon DEF Running
    <3>2. CASE d # c
      BY <1>3, <1>9, <3>2, Zenon DEF Running
    <3> QED
      BY <3>1, <3>2, Zenon
  <2>4. Waits(d, t)'
    BY <1>4, <1>7, <2>1, Zenon DEF Holding, Waits
  <2>5. /\ life'[t] = life[t] /\ wake_state'[t] = wake_state[t] /\ node'[t] = node[t]
        /\ deadline_cpu'[t] = deadline_cpu[t] /\ ret'[d] = ret[d] /\ tgt'[d] = tgt[d]
        /\ d # c => pc'[d] = pc[d]
    BY <1>3, <1>6, Zenon DEF waits
  <2>6. Claimed(d, t)'
    <3>1. CASE d = c
      BY <1>7, <2>2, <3>1, Zenon DEF Claimed
    <3>2. CASE d # c
      <4>1. Claimed(d, t) /\ (InHand(d, t)' <=> InHand(d, t)) /\ pc'[d] = pc[d]
        BY <2>1, <2>5, <3>2, Zenon DEF Holding
      <4> QED
        BY <1>4, <1>7, <2>5, <4>1, Zenon DEF Claimed
    <3> QED
      BY <3>1, <3>2, Zenon
  <2>7. Target(d, t)'
    <3>1. CASE d = c
      BY <1>6, <1>8, <2>5, <3>1, Zenon DEF Target, HoldsUmem, DestroyPcs, ReapPcs
    <3>2. CASE d # c
      <4>1. Target(d, t) /\ pc'[d] = pc[d] /\ (HoldsUmem(d)' <=> HoldsUmem(d))
        BY <2>1, <2>5, <3>2, Zenon DEF Holding, HoldsUmem
      <4> QED
        BY <1>4, <2>5, <4>1, Zenon DEF Target
    <3> QED
      BY <3>1, <3>2, Zenon
  <2> QED
    BY <2>3, <2>4, <2>6, <2>7, Zenon DEF Holding
<1>11. Apart(t)' /\ Wait(t)' /\ Accounted(t)'
  <2>1. Apart(t) /\ Wait(t) /\ Accounted(t)
    BY InvFacts, Zenon
  <2>2. \A d \in Cpus : /\ Ready(d, t)' <=> Ready(d, t)
                        /\ Owner(d, t)' <=> Owner(d, t)
                        /\ Winner(d, t)' <=> Winner(d, t)
    BY <1>1, <1>6, <1>7, Zenon DEF Ready, Owner, Winner, InHand, FinishPcs, ReapPcs
  <2> QED
    BY <1>3, <1>4, <1>6, <2>1, <2>2, Zenon DEF Apart, Wait, Accounted, waits
<1> QED
  BY <1>1, <1>2, <1>3, <1>5, <1>6, <1>8, <1>10, <1>11, InPlaceStep, Zenon DEF SameThread, HoldsUmem, waits,
                  FinishPcs, DestroyPcs, ReapPcs

\* The frees of process_thread_exited and of proc_sys_thread_destroy keep the
\* invariant: nothing leads to the freed TCB any more.
LEMMA FreeSteps ==
  ASSUME Inv, NEW c \in Cpus, Dispose(c) \/ DestroyFree(c)
  PROVE  Inv'
<1>1. TypeOK /\ Context(c) /\ HoldsUmem(c) /\ pc[c] \in {"dispose", "d_free"} /\ tgt[c] # None
  BY InvFacts, Zenon DEF Dispose, DestroyFree, Context, HoldsUmem, DestroyPcs, ReapPcs
<1>2. PICK t \in Threads : t = tgt[c]
  BY <1>1, Zenon DEF TypeOK, ThreadOrNone
<1>3. PICK l \in {"sched", "user"} :
        /\ life' = [life EXCEPT ![t] = "freed"] /\ (l = "user" <=> pc[c] = "d_free")
        /\ UNCHANGED <<status, on_cpu, wake_state, waits, word, runq, current_thread, batch, seen,
                       panicked>>
        /\ pc' = [pc EXCEPT ![c] = l] /\ ret' = [ret EXCEPT ![c] = "user"]
        /\ req' = [req EXCEPT ![c] = NoReq] /\ tgt' = [tgt EXCEPT ![c] = None]
  BY <1>1, <1>2, Zenon DEF Dispose, DestroyFree, Leave, Reset, Goto
<1>4. /\ life[t] = "live" /\ node[t] = None /\ deadline_cpu[t] = None
      /\ \/ status[t] = "DEAD" /\ wake_state[t] = "IDLE"
         \/ pc[c] = "d_free" /\ wake_state[t] \in {"CLAIMED", "REAPABLE"}
  <2>1. Target(c, t) /\ Wait(t)
    BY InvFacts, Zenon DEF Holding
  <2> QED
    BY <1>1, <1>2, <2>1, Zenon DEF Target, Wait, Context, ReapPcs
<1>5. TypeOK'
  <2>1. dead' \in [Procs -> BOOLEAN]
    BY <1>1, Zenon DEF TypeOK, Dispose, DestroyFree
  <2> QED
    BY <1>1, <1>3, <2>1, RequestTypes, Zenon DEF TypeOK, waits, Pcs, UserPcs, ThreadOrNone
<1>6. /\ pc'[c] = l /\ ret'[c] = "user" /\ tgt'[c] = None /\ life'[t] = "freed"
      /\ \A d \in Cpus \ {c} : /\ pc'[d] = pc[d] /\ ret'[d] = ret[d]
                               /\ req'[d] = req[d] /\ tgt'[d] = tgt[d]
      /\ \A u \in Threads \ {t} : life'[u] = life[u]
  BY <1>1, <1>3, Zenon DEF TypeOK
<1>7. \A d \in Cpus : Queued(d)' = Queued(d) /\ Batched(d)' = Batched(d)
  BY <1>3, Zenon DEF Queued, Batched
<1>8. batch[c] = <<>> /\ Context(c)'
  BY <1>1, <1>3, <1>6, Zenon DEF Context, ThreadPcs, LoopPcs, RequeuePcs, DestroyPcs, ReapPcs, FinishPcs, IrqPcs
<1>9. ASSUME NEW d \in Cpus
      PROVE  /\ t \notin Batched(d) /\ t \notin Queued(d) /\ ~InHand(d, t)
             /\ d # c => ~HoldsUmem(d)
             /\ pc[d] = "rq_move" => tgt[d] # t
  <2>1. t \notin Batched(c)
    BY <1>8, EmptyBatch, Zenon
  <2>2. Holding(d, t) /\ (InHand(d, t) => t \in Batched(d)) /\ (d # c => ~HoldsUmem(d))
    BY <1>1, InvFacts, HeadFacts, Zenon DEF InHand, Inv, ClaimInv
  <2>3. pc[c] = "d_free" /\ d # c => t \notin Batched(d)
    BY <1>2, Alone, Zenon DEF Owner, Winner, ReapPcs
  <2> QED
    BY <1>4, <2>1, <2>2, <2>3, Zenon DEF Holding, Claimed, Waits, Target
<1>10. ASSUME NEW d \in Cpus PROVE Holding(d, t)'
  <2>1. Holding(d, t) /\ t # None
    BY InvFacts, Zenon
  <2>2. HoldsUmem(d)' => FALSE
    BY <1>3, <1>6, <1>9, SMTT(60) DEF HoldsUmem, DestroyPcs, ReapPcs
  <2>3. current_thread[d] = t => pc'[d] \in {"park", "switch"}
    BY <1>1, <1>2, <1>4, <1>6, <2>1, Zenon DEF Holding, Running, Context, LoopPcs
  <2>4. Running(d, t)'
    <3> SUFFICES ASSUME current_thread'[d] = t PROVE Running(d, t)'
      BY Zenon DEF Running
    <3>1. current_thread[d] = t /\ d # c
      BY <1>3, <1>6, <2>3, Zenon
    <3>2. pc'[d] = pc[d] /\ Running(d, t) /\ Queued(d)' = Queued(d) /\ life'[t] = "freed"
      BY <1>6, <1>7, <2>1, <3>1, Zenon DEF Holding
    <3> QED
      BY <1>3, <2>3, <3>1, <3>2, Zenon DEF Running
  <2>5. Waits(d, t)'
    BY <1>1, <1>3, <1>4, <1>6, <1>7, <1>9, <2>1, <2>3, Zenon DEF Holding, Waits
  <2>6. Claimed(d, t)'
    BY <1>1, <1>3, <1>4, <1>6, <1>7, <1>9, <2>1, Zenon DEF Holding, Claimed
  <2>7. Target(d, t)'
    <3>1. CASE d = c
      BY <1>6, <2>1, <3>1, Zenon DEF Target
    <3>2. CASE d # c
      <4>1. tgt'[d] = tgt[d] /\ pc'[d] = pc[d] /\ ~(HoldsUmem(d)')
        BY <1>6, <2>2, <3>2, Zenon
      <4>2. pc[d] \notin ReapPcs
        BY <1>9, <3>2, Zenon DEF HoldsUmem, DestroyPcs
      <4>3. pc[d] = "rq_move" => tgt[d] # t
        BY <1>9, Zenon
      <4> QED
        BY <1>6, <4>1, <4>2, <4>3, Zenon DEF Target
    <3> QED
      BY <3>1, <3>2, Zenon
  <2> QED
    BY <2>4, <2>5, <2>6, <2>7, Zenon DEF Holding
<1>11. Apart(t)' /\ Wait(t)' /\ Accounted(t)'
  <2>1. Apart(t) /\ Wait(t) /\ Accounted(t)
    BY InvFacts, Zenon
  <2>2. ASSUME NEW d \in Cpus
        PROVE  ~Ready(d, t)' /\ ~Owner(d, t)' /\ (InTransit(d, t)' <=> InTransit(d, t))
    <3>1. ~Ready(d, t)'
      BY <1>1, <1>3, <1>6, <1>7, <1>9, Zenon DEF Ready, InHand, FinishPcs
    <3>2. ~Owner(d, t)'
      <4>1. t \notin Batched(d)'
        BY <1>7, <1>9, Zenon
      <4>2. CASE d = c
        BY <1>3, <1>6, <4>1, <4>2, Zenon DEF Owner, Winner, ReapPcs
      <4>3. CASE d # c
        <5>1. tgt'[d] = tgt[d] /\ pc'[d] = pc[d]
          BY <1>6, <4>3, Zenon
        <5>2. pc[d] \notin ReapPcs /\ (pc[d] = "rq_move" => tgt[d] # t)
          BY <1>9, <4>3, Zenon DEF HoldsUmem, DestroyPcs
        <5> QED
          BY <4>1, <5>1, <5>2, Zenon DEF Owner, Winner
      <4> QED
        BY <4>2, <4>3, Zenon
    <3>3. InTransit(d, t)' <=> InTransit(d, t)
      BY <1>1, <1>3, <1>6, <1>7, <1>9, Zenon DEF InTransit, InHand
    <3> QED
      BY <3>1, <3>2, <3>3, Zenon
  <2> QED
    BY <1>3, <1>4, <1>6, <2>1, <2>2, Zenon DEF Apart, Wait, Accounted, waits
<1> QED
  BY <1>1, <1>2, <1>3, <1>5, <1>6, <1>8, <1>10, <1>11, InPlaceStep, Zenon DEF SameThread, HoldsUmem, waits,
                  FinishPcs, DestroyPcs, ReapPcs

\* proc_sys_thread_destroy winning its victim, unlinking it (futex_reap_claimed)
\* and cancelling its deadline keeps the invariant.
LEMMA ReapSteps ==
  ASSUME Inv, NEW c \in Cpus,
         \/ DestroyWakeState(c) /\ wake_state[tgt[c]] = "REAPABLE"
         \/ DestroyClaim(c) /\ wake_state[tgt[c]] = "PARKED"
         \/ DestroyUnlink(c) \/ DestroyCancel(c)
  PROVE  Inv'
<1>1. /\ TypeOK /\ Context(c) /\ HoldsUmem(c) /\ tgt[c] # None
      /\ pc[c] \in {"d_wake_state", "d_claim", "d_unlink", "d_cancel"}
  BY InvFacts, Zenon DEF DestroyWakeState, DestroyCheck, DestroyClaim, DestroyUnlink, DestroyCancel, Context,
                  HoldsUmem, DestroyPcs, ReapPcs
<1>2. PICK t \in Threads : t = tgt[c]
  BY <1>1, Zenon DEF TypeOK, ThreadOrNone
<1>3. Target(c, t) /\ Wait(t) /\ life[t] = "live"
  BY <1>1, <1>2, InvFacts, Zenon DEF Holding, Target
<1>4. /\ UNCHANGED <<life, status, on_cpu, word, dead, runq, current_thread, locals, panicked>>
      /\ \E l \in ReapPcs :
           /\ pc' = [pc EXCEPT ![c] = l]
           /\ l = "d_unlink" <=> node'[t] # None
           /\ l = "d_free" => deadline_cpu'[t] = None
           /\ wake_state'[t] = "CLAIMED" \/ (l = "d_free" /\ wake_state'[t] = "REAPABLE")
      /\ node' \in [Threads -> Addrs \cup {None}] /\ older' \in [Threads -> SUBSET Threads]
      /\ wake_state' \in [Threads -> {"IDLE", "PARKED", "MOVING", "CLAIMED", "REAPABLE"}]
      /\ deadline_cpu' \in [Threads -> Cpus \cup {None}]
      /\ \A u \in Threads \ {t} : /\ wake_state'[u] = wake_state[u] /\ node'[u] = node[u]
                                  /\ deadline_cpu'[u] = deadline_cpu[u]
      /\ wake_state[t] # "IDLE"
      /\ \A d \in Cpus \ {c} :
           /\ ~Owner(d, t) /\ t \notin Batched(d) /\ ~InHand(d, t)
           /\ pc[d] \in ReapPcs \cup {"rq_move"} => tgt[d] # t
  <2> USE <1>1, <1>2 DEF TypeOK, ReapPcs
  <2>1. CASE DestroyWakeState(c) /\ wake_state[tgt[c]] = "REAPABLE"
    <3>1. /\ pc' = [pc EXCEPT ![c] = "d_free"]
          /\ UNCHANGED <<tcbs, waits, word, dead, runq, current_thread, locals, panicked>>
      BY <2>1, Zenon DEF DestroyWakeState, DestroyCheck, Goto, locals
    <3>2. wake_state[t] = "REAPABLE" /\ node[t] = None /\ deadline_cpu[t] = None
      BY <1>3, <2>1, Zenon DEF Wait
    <3>3. ASSUME NEW d \in Cpus \ {c}
          PROVE  /\ ~Owner(d, t) /\ t \notin Batched(d) /\ ~InHand(d, t)
                 /\ pc[d] \in ReapPcs \cup {"rq_move"} => tgt[d] # t
      <4>1. Holding(d, t) /\ (InHand(d, t) => t \in Batched(d)) /\ ~HoldsUmem(d)
        BY InvFacts, HeadFacts, ZenonT(60) DEF InHand, Inv, ClaimInv
      <4> QED
        BY <3>2, <4>1, Zenon DEF Owner, Winner, Holding, Claimed, Target, HoldsUmem, DestroyPcs
    <3> QED
      BY <3>1, <3>2, <3>3, Zenon DEF tcbs, waits
  <2>2. CASE DestroyClaim(c) /\ wake_state[tgt[c]] = "PARKED"
    <3>1. /\ pc' = [pc EXCEPT ![c] = "d_unlink"] /\ wake_state' = [wake_state EXCEPT ![t] = "CLAIMED"]
          /\ UNCHANGED <<life, status, on_cpu, waits, word, dead, runq, current_thread, locals, panicked>>
      BY <2>2, Zenon DEF DestroyClaim, TryClaim, Goto, locals
    <3>2. wake_state[t] = "PARKED" /\ node[t] # None
      BY <1>3, <2>2, Zenon DEF Wait
    <3>3. \A d \in Cpus \ {c} :
           /\ ~Owner(d, t) /\ t \notin Batched(d) /\ ~InHand(d, t)
           /\ pc[d] \in ReapPcs \cup {"rq_move"} => tgt[d] # t
      BY <3>2, Parked, Zenon
    <3> QED
      BY <3>1, <3>2, <3>3, Zenon DEF waits
  <2>3. ASSUME pc[c] \in ReapPcs
        PROVE  \A d \in Cpus \ {c} :
                 /\ ~Owner(d, t) /\ t \notin Batched(d) /\ ~InHand(d, t)
                 /\ pc[d] \in ReapPcs \cup {"rq_move"} => tgt[d] # t
    BY <2>3, Alone, Zenon DEF Owner, Winner
  <2>4. CASE DestroyUnlink(c)
    <3>1. pc[c] = "d_unlink" /\ wake_state[t] = "CLAIMED" /\ node[t] # None
      BY <1>3, <2>4, Zenon DEF DestroyUnlink, Target
    <3>2. /\ pc' = [pc EXCEPT ![c] = "d_cancel"] /\ Unlink(t)
          /\ UNCHANGED <<tcbs, deadline_cpu, word, dead, runq, current_thread, locals, panicked>>
      BY <2>4, <3>1, Zenon DEF DestroyUnlink, UnlinkClaimed, Goto
    <3>3. /\ node' \in [Threads -> Addrs \cup {None}] /\ older' \in [Threads -> SUBSET Threads]
          /\ node'[t] = None /\ \A u \in Threads \ {t} : node'[u] = node[u]
      BY <3>2, TreeFacts, Zenon
    <3> QED
      BY <2>3, <3>1, <3>2, <3>3, Zenon DEF tcbs
  <2>5. CASE DestroyCancel(c)
    <3>1. pc[c] = "d_cancel" /\ wake_state[t] = "CLAIMED" /\ node[t] = None
      BY <1>3, <2>5, Zenon DEF DestroyCancel, Target
    <3>2. /\ pc' = [pc EXCEPT ![c] = "d_free"] /\ deadline_cpu' = [deadline_cpu EXCEPT ![t] = None]
          /\ UNCHANGED <<tcbs, node, older, word, dead, runq, current_thread, locals, panicked>>
      BY <2>5, Zenon DEF DestroyCancel, Cancel, Goto
    <3> QED
      BY <2>3, <3>1, <3>2, Zenon DEF tcbs
  <2> QED
    BY <2>1, <2>2, <2>4, <2>5, Zenon
<1>5. PICK l \in ReapPcs :
        /\ pc' = [pc EXCEPT ![c] = l]
        /\ l = "d_unlink" <=> node'[t] # None
        /\ l = "d_free" => deadline_cpu'[t] = None
        /\ wake_state'[t] = "CLAIMED" \/ (l = "d_free" /\ wake_state'[t] = "REAPABLE")
  BY <1>4, Zenon
<1>6. TypeOK'
  BY <1>1, <1>4, <1>5, Zenon DEF TypeOK, locals, Pcs, DestroyPcs
<1>7. /\ pc'[c] = l /\ \A d \in Cpus \ {c} : pc'[d] = pc[d]
      /\ UNCHANGED <<ret, req, batch, tgt>>
      /\ \A d \in Cpus : Queued(d)' = Queued(d) /\ Batched(d)' = Batched(d)
  <2>1. pc'[c] = l /\ \A d \in Cpus \ {c} : pc'[d] = pc[d]
    BY <1>1, <1>5, Zenon DEF TypeOK
  <2>2. UNCHANGED <<ret, req, batch, tgt, runq>>
    BY <1>4, Zenon DEF locals
  <2> QED
    BY <2>1, <2>2, Zenon DEF Queued, Batched
<1>8. batch[c] = <<>> /\ ret[c] = "user" /\ Context(c)'
  BY <1>1, <1>4, <1>7, Zenon DEF Context, TypeOK, ThreadPcs, LoopPcs, RequeuePcs, DestroyPcs, ReapPcs, FinishPcs, IrqPcs
<1>9. ASSUME NEW d \in Cpus PROVE Holding(d, t)'
  <2>1. Holding(d, t) /\ t \notin Batched(c)
    BY <1>8, EmptyBatch, InvFacts, Zenon
  <2>2. Running(d, t)'
    BY <1>1, <1>4, <1>5, <1>7, <2>1, Zenon DEF Holding, Running, Waits, ReapPcs
  <2>3. Waits(d, t)' /\ Claimed(d, t)'
    <3>1. t \notin Queued(d)
      BY <1>4, <2>1, Zenon DEF Holding, Waits
    <3>2. t \notin Batched(d)
      BY <1>4, <2>1, Zenon
    <3>3. t \notin Queued(d)' /\ t \notin Batched(d)'
      BY <1>7, <3>1, <3>2, Zenon
    <3> QED
      BY <3>3, Zenon DEF Waits, Claimed
  <2>4. Target(d, t)'
    <3>1. CASE d = c
      <4>1. pc'[c] = l /\ l \in ReapPcs /\ ret'[c] = "user" /\ l # "exited" /\ l # "rq_move"
        BY <1>5, <1>7, <1>8, Zenon DEF ReapPcs
      <4>2. life'[t] = "live"
        BY <1>1, <1>2, <1>3, <1>4, Zenon DEF Target
      <4> QED
        BY <1>5, <3>1, <4>1, <4>2, Zenon DEF Target
    <3>2. CASE d # c
      <4>1. tgt' = tgt /\ pc'[d] = pc[d] /\ ret' = ret /\ (HoldsUmem(d)' <=> HoldsUmem(d))
        BY <1>7, <3>2, Zenon DEF HoldsUmem
      <4>2. pc[d] \in ReapPcs \cup {"rq_move"} => tgt[d] # t
        BY <1>4, <3>2, Zenon
      <4>3. life' = life /\ status' = status
        BY <1>4, Zenon
      <4> QED
        BY <2>1, <4>1, <4>2, <4>3, Zenon DEF Holding, Target
    <3> QED
      BY <3>1, <3>2, Zenon
  <2> QED
    BY <2>2, <2>3, <2>4, Zenon DEF Holding
<1>10. Apart(t)' /\ Wait(t)' /\ Accounted(t)'
  <2>1. Apart(t) /\ Accounted(t)
    BY InvFacts, Zenon
  <2>2. /\ \A d \in Cpus : (Ready(d, t)' <=> Ready(d, t)) /\ (InTransit(d, t)' <=> InTransit(d, t))
        /\ \A d \in Cpus \ {c} : ~Owner(d, t)'
        /\ Winner(c, t)'
    <3>1. \A d \in Cpus : (InHand(d, t)' <=> InHand(d, t)) /\ (InHand(d, t) => pc'[d] = pc[d])
      BY <1>1, <1>5, <1>7, Zenon DEF InHand, FinishPcs, ReapPcs
    <3>2. \A d \in Cpus : Ready(d, t)' <=> Ready(d, t)
      BY <1>7, <3>1, Zenon DEF Ready
    <3>3. \A d \in Cpus : InTransit(d, t)' <=> InTransit(d, t)
      BY <1>1, <1>4, <1>5, <1>7, <3>1, Zenon DEF InTransit, ReapPcs
    <3>4. \A d \in Cpus \ {c} : ~Owner(d, t)'
      BY <1>4, <1>7, Zenon DEF Owner, Winner
    <3>5. Winner(c, t)'
      BY <1>2, <1>7, Zenon DEF Winner
    <3> QED
      BY <3>2, <3>3, <3>4, <3>5, Zenon
  <2>3. Wait(t)'
    BY <1>3, <1>4, <1>5, Zenon DEF Wait
  <2> QED
    BY <1>4, <1>7, <2>1, <2>2, <2>3, Zenon DEF Apart, Accounted
<1> QED
  BY <1>1, <1>2, <1>4, <1>5, <1>6, <1>7, <1>8, <1>9, <1>10, InPlaceStep, Zenon DEF SameThread, HoldsUmem,
                  FinishPcs, DestroyPcs, ReapPcs

-----------------------------------------------------------------------------
(***************************************************************************)
(* The actions of Futex that put a thread in a claim batch or take it out. *)
(***************************************************************************)

\* detach_batch_locked and timer_cpu_interrupt winning the claim on a parked
\* thread keep the invariant.
LEMMA ClaimSteps ==
  ASSUME Inv, NEW c \in Cpus, NEW t \in Threads, wake_state[t] = "PARKED",
         WakeScan(c, t) \/ (IrqClaim(c) /\ tgt[c] = t)
  PROVE  Inv'
<1>1. /\ TypeOK /\ Context(c) /\ Wait(t) /\ None \notin Threads
      /\ \A d \in Cpus : /\ ~Owner(d, t) /\ t \notin Batched(d) /\ ~InHand(d, t) /\ t \notin Queued(d)
                         /\ pc[d] \in ReapPcs \cup {"rq_move"} => tgt[d] # t
  BY InvFacts, Parked, Zenon
<1>2. /\ UNCHANGED <<life, status, on_cpu, word, dead, runq, current_thread, ret, req, panicked>>
      /\ wake_state' = [wake_state EXCEPT ![t] = "CLAIMED"]
      /\ batch' = [batch EXCEPT ![c] = Append(@, t)]
      /\ seen' \in [Cpus -> SUBSET Threads] /\ tgt' \in [Cpus -> ThreadOrNone]
      /\ pc' \in [Cpus -> Pcs] /\ older' \in [Threads -> SUBSET Threads]
      /\ node' \in [Threads -> Addrs \cup {None}] /\ deadline_cpu' \in [Threads -> Cpus \cup {None}]
      /\ \A d \in Cpus \ {c} : pc'[d] = pc[d] /\ tgt'[d] = tgt[d]
      /\ \A u \in Threads \ {t} : node'[u] = node[u] /\ deadline_cpu'[u] = deadline_cpu[u]
      /\ node'[t] = None <=> ret[c] # "irq_ret"
      /\ ret[c] = "irq_ret" => deadline_cpu'[t] = None
      /\ \/ pc[c] = "wake_scan" /\ pc'[c] = "wake_scan" /\ tgt'[c] = tgt[c]
         \/ pc[c] = "irq_claim" /\ pc'[c] = "irq_scan" /\ tgt'[c] = None
  <2> USE <1>1 DEF TypeOK
  <2>1. CASE WakeScan(c, t)
    <3>1. /\ UNCHANGED <<life, status, on_cpu, deadline_cpu, word, dead, runq, current_thread, pc, ret,
                         req, tgt, panicked>>
          /\ wake_state' = [wake_state EXCEPT ![t] = "CLAIMED"] /\ Unlink(t)
          /\ batch' = [batch EXCEPT ![c] = Append(@, t)]
          /\ seen' = [seen EXCEPT ![c] = @ \cup {t}]
          /\ pc[c] = "wake_scan"
      BY <2>1, Zenon DEF WakeScan
    <3>2. ret[c] # "irq_ret"
      BY <3>1, Zenon DEF Context, IrqPcs, FinishPcs
    <3>3. /\ node' \in [Threads -> Addrs \cup {None}] /\ older' \in [Threads -> SUBSET Threads]
          /\ node'[t] = None /\ \A u \in Threads \ {t} : node'[u] = node[u]
      BY <3>1, TreeFacts, Zenon
    <3> QED
      BY <3>1, <3>2, <3>3, ZenonT(60)
  <2>2. CASE IrqClaim(c) /\ tgt[c] = t
    <3>1. /\ UNCHANGED <<life, status, on_cpu, node, older, word, dead, runq, current_thread, ret,
                         req, seen, panicked>>
          /\ wake_state' = [wake_state EXCEPT ![t] = "CLAIMED"]
          /\ deadline_cpu' = [deadline_cpu EXCEPT ![t] = None]
          /\ batch' = [batch EXCEPT ![c] = Append(@, t)]
          /\ tgt' = [tgt EXCEPT ![c] = None] /\ pc' = [pc EXCEPT ![c] = "irq_scan"]
          /\ pc[c] = "irq_claim"
      BY <2>2, Zenon DEF IrqClaim, TryClaim, Goto
    <3>2. ret[c] = "irq_ret" /\ node[t] # None
      BY <3>1, Zenon DEF Context, Wait
    <3> QED
      BY <3>1, <3>2, ZenonT(60) DEF Pcs, ThreadOrNone
  <2> QED
    BY <2>1, <2>2, Zenon
<1>3. /\ batch' \in [Cpus -> Seq(Threads)] /\ Once(batch)' /\ batch'[c] # <<>>
      /\ Batched(c)' = Batched(c) \cup {t}
      /\ \A d \in Cpus \ {c} : batch'[d] = batch[d] /\ Batched(d)' = Batched(d)
  <2>1. batch \in Queues /\ Once(batch) /\ t \notin Elems(batch[c])
    BY <1>1, Zenon DEF Inv, ClaimInv, TypeOK, Batched, Elems, Queues
  <2>2. /\ batch' \in Queues /\ Once(batch') /\ batch'[c] # <<>>
        /\ Elems(batch'[c]) = Elems(batch[c]) \cup {t}
        /\ \A d \in Cpus \ {c} : batch'[d] = batch[d]
    <3>1. batch' = Appended(batch, c, t)
      BY <1>2, Zenon DEF Appended
    <3> QED
      BY <2>1, <3>1, AppendOne, SMTT(60)
  <2>3. Once(batch)'
    BY <2>2, Zenon DEF Once
  <2>4. \A d \in Cpus : Batched(d) = Elems(batch[d]) /\ Batched(d)' = Elems(batch'[d])
    BY Zenon DEF Batched, Elems
  <2> QED
    BY <2>2, <2>3, <2>4, Zenon DEF Queues
<1>4. TypeOK'
  BY <1>1, <1>2, <1>3, Zenon DEF TypeOK
<1>5. /\ wake_state'[t] = "CLAIMED" /\ \A u \in Threads \ {t} : wake_state'[u] = wake_state[u]
      /\ \A d \in Cpus : Queued(d)' = Queued(d)
      /\ pc[c] \notin FinishPcs /\ pc'[c] \notin FinishPcs
  BY <1>1, <1>2, SMTT(60) DEF TypeOK, Queued, FinishPcs
<1>6. Only(c, t)
  BY <1>2, <1>3, <1>5, Zenon DEF Only, SameCpu, SameThread, SameHold, Ready, Owner, Winner, InTransit, InHand, ReapPcs
<1>7. Context(c)'
  BY <1>1, <1>2, <1>3, Zenon DEF Context, ThreadPcs, LoopPcs, RequeuePcs, DestroyPcs, ReapPcs, FinishPcs, IrqPcs
<1>8. Once(runq)' /\ (HoldsUmem(c)' => \A d \in Cpus \ {c} : ~HoldsUmem(d))
  BY <1>2, Zenon DEF Inv, ClaimInv, Once, HoldsUmem, DestroyPcs, ReapPcs
<1>9. ASSUME NEW u \in Threads \ {t} PROVE Holding(c, u)'
  <2>1. Holding(c, u) /\ SameThread(u)
    BY <1>6, InvFacts, Zenon DEF Only
  <2>2. Running(c, u)' /\ Waits(c, u)'
    BY <1>2, <1>5, <2>1, Zenon DEF Holding, Running, Waits, SameThread
  <2>3. Claimed(c, u)'
    BY <1>2, <1>3, <1>5, <2>1, Zenon DEF Holding, Claimed, SameThread, InHand
  <2>4. Target(c, u)'
    <3>1. CASE tgt'[c] = None
      <4>1. tgt'[c] # u
        BY <1>1, <3>1, InvFacts, Zenon
      <4> QED
        BY <4>1, Zenon DEF Target
    <3>2. CASE pc[c] = "wake_scan" /\ pc'[c] = "wake_scan" /\ tgt'[c] = tgt[c]
      <4>1. Target(c, u) /\ ret' = ret /\ (HoldsUmem(c)' <=> HoldsUmem(c)) /\ "wake_scan" \notin ReapPcs
        BY <1>2, <2>1, <3>2, Zenon DEF Holding, HoldsUmem, DestroyPcs, ReapPcs
      <4> QED
        BY <2>1, <3>2, <4>1, Zenon DEF Target, SameThread
    <3> QED
      BY <1>2, <3>1, <3>2, Zenon
  <2> QED
    BY <2>2, <2>3, <2>4, Zenon DEF Holding
<1>10. ASSUME NEW d \in Cpus PROVE Holding(d, t)'
  <2>1. Holding(d, t) /\ (InHand(d, t)' <=> InHand(d, t))
    BY <1>2, <1>3, <1>5, InvFacts, Zenon DEF InHand
  <2>2. Running(d, t)'
    BY <1>2, <1>5, <2>1, Zenon DEF Holding, Running
  <2>3. Waits(d, t)'
    BY <1>1, <1>5, Zenon DEF Waits
  <2>4. Claimed(d, t)'
    BY <1>1, <1>2, <1>3, <1>5, <2>1, Zenon DEF Claimed, Wait, InHand
  <2>5. Target(d, t)'
    BY <1>1, <1>2, <2>1, Zenon DEF Holding, Target, HoldsUmem, DestroyPcs, ReapPcs
  <2> QED
    BY <2>2, <2>3, <2>4, <2>5, Zenon DEF Holding
<1>11. Apart(t)' /\ Wait(t)' /\ Accounted(t)'
  <2>1. Apart(t) /\ Accounted(t)
    BY InvFacts, Zenon
  <2>2. /\ \A d \in Cpus : (Ready(d, t)' <=> Ready(d, t)) /\ (InTransit(d, t)' <=> InTransit(d, t))
        /\ \A d \in Cpus \ {c} : ~Owner(d, t)'
        /\ Winner(c, t)'
    <3>1. \A d \in Cpus : (Ready(d, t)' <=> Ready(d, t)) /\ (InTransit(d, t)' <=> InTransit(d, t))
      BY <1>2, <1>3, <1>5, Zenon DEF Ready, InTransit, InHand
    <3>2. ASSUME NEW d \in Cpus \ {c} PROVE ~Owner(d, t)'
      BY <1>1, <1>2, <1>3, Zenon DEF Owner, Winner, ReapPcs
    <3> QED
      BY <1>3, <3>1, <3>2, Zenon DEF Winner
  <2> QED
    BY <1>1, <1>2, <1>5, <2>1, <2>2, Zenon DEF Apart, Wait, Accounted
<1> QED
  BY <1>4, <1>3, <1>6, <1>7, <1>8, <1>9, <1>10, <1>11, Frame, Zenon DEF Inv

\* What finish_claimed leaves when it is done with the head t of its batch.
LEMMA FinishNextFacts ==
  ASSUME Inv, NEW c \in Cpus, NEW t \in Threads, InHand(c, t), FinishNext(c)
  PROVE  /\ t \in Batched(c) /\ batch' \in [Cpus -> Seq(Threads)] /\ Once(batch)'
         /\ Batched(c)' = Batched(c) \ {t}
         /\ \A d \in Cpus \ {c} : batch'[d] = batch[d] /\ Batched(d)' = Batched(d)
         /\ pc' \in [Cpus -> Pcs] /\ ret' \in [Cpus -> {"user", "wait", "irq_ret", "dispose"}]
         /\ req' \in [Cpus -> Requests] /\ tgt' \in [Cpus -> ThreadOrNone]
         /\ \A d \in Cpus \ {c} : /\ pc'[d] = pc[d] /\ ret'[d] = ret[d]
                                  /\ req'[d] = req[d] /\ tgt'[d] = tgt[d]
         /\ \/ /\ pc'[c] = (IF ret[c] = "irq_ret" THEN "expire" ELSE "cancel") /\ batch'[c] # <<>>
               /\ ret'[c] = ret[c] /\ req'[c] = req[c] /\ tgt'[c] = tgt[c]
            \/ /\ batch'[c] = <<>> /\ pc'[c] = ret[c] /\ ret[c] \in {"wait", "dispose"}
               /\ ret'[c] = ret[c] /\ req'[c] = req[c] /\ tgt'[c] = tgt[c]
            \/ /\ batch'[c] = <<>> /\ pc'[c] = ret[c] /\ ret[c] \in {"user", "irq_ret"}
               /\ ret'[c] = "user" /\ req'[c] = NoReq /\ tgt'[c] = None
<1>1. /\ TypeOK /\ batch \in Queues /\ Once(batch) /\ batch[c] # <<>> /\ Head(batch[c]) = t
      /\ batch' = Tailed(batch, c)
  BY HeadFacts, Zenon DEF InHand, Inv, ClaimInv, TypeOK, Queues, FinishNext, Tailed
<1>2. /\ batch' \in Queues /\ Once(batch') /\ t \in Elems(batch[c])
      /\ Elems(batch'[c]) = Elems(batch[c]) \ {t}
      /\ Len(batch[c]) > 1 <=> batch'[c] # <<>>
      /\ \A d \in Cpus \ {c} : batch'[d] = batch[d]
  BY <1>1, TailOne, SMTT(60)
<1>3. /\ t \in Batched(c) /\ batch' \in [Cpus -> Seq(Threads)] /\ Once(batch)'
      /\ Batched(c)' = Batched(c) \ {t}
      /\ \A d \in Cpus \ {c} : batch'[d] = batch[d] /\ Batched(d)' = Batched(d)
  <2>1. Once(batch)'
    BY <1>2, Zenon DEF Once
  <2>2. \A d \in Cpus : Batched(d) = Elems(batch[d]) /\ Batched(d)' = Elems(batch'[d])
    BY Zenon DEF Batched, Elems
  <2> QED
    BY <1>2, <2>1, <2>2, Zenon DEF Queues
<1>4. CASE Len(batch[c]) > 1
  <2>1. /\ pc' = [pc EXCEPT ![c] = IF ret[c] = "irq_ret" THEN "expire" ELSE "cancel"]
        /\ UNCHANGED <<ret, req, tgt>>
    BY <1>4, Zenon DEF FinishNext, Goto
  <2> QED
    BY <1>1, <1>2, <1>3, <1>4, <2>1, Zenon DEF TypeOK, Pcs, FinishPcs
<1>5. CASE ~(Len(batch[c]) > 1) /\ ret[c] \in {"wait", "dispose"}
  <2>1. pc' = [pc EXCEPT ![c] = ret[c]] /\ UNCHANGED <<ret, req, tgt>>
    BY <1>5, Zenon DEF FinishNext, Goto, Resume
  <2> QED
    BY <1>1, <1>2, <1>3, <1>5, <2>1, Zenon DEF TypeOK, Pcs
<1>6. CASE ~(Len(batch[c]) > 1) /\ ret[c] \notin {"wait", "dispose"}
  <2>1. /\ pc' = [pc EXCEPT ![c] = ret[c]] /\ ret' = [ret EXCEPT ![c] = "user"]
        /\ req' = [req EXCEPT ![c] = NoReq] /\ tgt' = [tgt EXCEPT ![c] = None]
    BY <1>6, Zenon DEF FinishNext, Goto, Resume, Reset
  <2>2. ret[c] \in {"user", "irq_ret"}
    BY <1>1, <1>6, Zenon DEF TypeOK
  <2> QED
    BY <1>1, <1>2, <1>3, <1>6, <2>1, <2>2, RequestTypes, ZenonT(30) DEF TypeOK, Pcs, UserPcs, ThreadOrNone
<1> QED
  BY <1>4, <1>5, <1>6, Zenon

\* The two ends of finish_claimed keep the invariant: a thread of a dead process
\* becomes REAPABLE, any other is pushed onto a run queue.
LEMMA FinishSteps ==
  ASSUME Inv, NEW c \in Cpus,
         (FinishRelease(c) /\ IsDead(Head(batch[c]))) \/ UnblockEnqueue(c)
  PROVE  Inv'
<1>1. /\ TypeOK /\ Context(c) /\ pc[c] \in {"release", "enqueue"} /\ FinishNext(c)
      /\ UNCHANGED <<life, status, on_cpu, waits, word, dead, current_thread, seen, panicked>>
  BY InvFacts, Zenon DEF FinishRelease, UnblockEnqueue, tcbs
<1>2. PICK t \in Threads : t = Head(batch[c]) /\ InHand(c, t)
  BY <1>1, HeadFacts, Zenon DEF InHand, FinishPcs
<1>3. /\ t \in Batched(c) /\ batch' \in [Cpus -> Seq(Threads)] /\ Once(batch)'
      /\ Batched(c)' = Batched(c) \ {t}
      /\ \A d \in Cpus \ {c} : batch'[d] = batch[d] /\ Batched(d)' = Batched(d)
  BY <1>1, <1>2, FinishNextFacts, Zenon
<1>4. /\ pc' \in [Cpus -> Pcs] /\ ret' \in [Cpus -> {"user", "wait", "irq_ret", "dispose"}]
      /\ req' \in [Cpus -> Requests] /\ tgt' \in [Cpus -> ThreadOrNone]
      /\ \A d \in Cpus \ {c} : /\ pc'[d] = pc[d] /\ ret'[d] = ret[d]
                               /\ req'[d] = req[d] /\ tgt'[d] = tgt[d]
  BY <1>1, <1>2, FinishNextFacts, Zenon
<1>5. \/ /\ pc'[c] = (IF ret[c] = "irq_ret" THEN "expire" ELSE "cancel") /\ batch'[c] # <<>>
         /\ ret'[c] = ret[c] /\ req'[c] = req[c] /\ tgt'[c] = tgt[c]
      \/ /\ batch'[c] = <<>> /\ pc'[c] = ret[c] /\ ret[c] \in {"wait", "dispose"}
         /\ ret'[c] = ret[c] /\ req'[c] = req[c] /\ tgt'[c] = tgt[c]
      \/ /\ batch'[c] = <<>> /\ pc'[c] = ret[c] /\ ret[c] \in {"user", "irq_ret"}
         /\ ret'[c] = "user" /\ req'[c] = NoReq /\ tgt'[c] = None
  BY <1>1, <1>2, FinishNextFacts, Zenon
<1>6. \A d \in Cpus \ {c} : /\ ~Owner(d, t) /\ t \notin Batched(d) /\ ~InHand(d, t)
                            /\ pc[d] \in ReapPcs \cup {"rq_move"} => tgt[d] # t
  BY <1>2, <1>3, Alone, Zenon DEF Owner, Winner
<1>7. /\ life[t] = "live" /\ node[t] = None /\ deadline_cpu[t] = None
      /\ wake_state[t] = IF pc[c] = "enqueue" THEN "IDLE" ELSE "CLAIMED"
      /\ pc[c] = "enqueue" => status[t] = "RUNNABLE"
  BY <1>1, <1>2, <1>3, InvFacts, Zenon DEF Holding, Claimed
<1>8. \A d \in Cpus : t \notin Queued(d)
  <2>1. \A d \in Cpus : t \in Queued(d) => pc[c] = "enqueue" /\ d # c
    BY <1>1, <1>2, <1>7, InvFacts, Zenon DEF Holding, Waits
  <2>2. pc[c] = "enqueue" => Ready(c, t)
    BY <1>2, Zenon DEF Ready
  <2> QED
    BY <2>1, <2>2, InvFacts, Zenon DEF Apart, Ready
<1>9. /\ wake_state' \in [Threads -> {"IDLE", "PARKED", "MOVING", "CLAIMED", "REAPABLE"}]
      /\ \A u \in Threads \ {t} : wake_state'[u] = wake_state[u]
      /\ wake_state'[t] = IF pc[c] = "enqueue" THEN "IDLE" ELSE "REAPABLE"
      /\ runq' \in [Cpus -> Seq(Threads)] /\ Once(runq)'
      /\ \A d \in Cpus, u \in Threads \ {t} : u \in Queued(d)' <=> u \in Queued(d)
      /\ pc[c] = "release" => \A d \in Cpus : t \notin Queued(d)'
      /\ \A d, e \in Cpus : t \in Queued(d)' /\ t \in Queued(e)' => d = e
  <2>1. \A d \in Cpus : Queued(d) = Elems(runq[d]) /\ Queued(d)' = Elems(runq'[d])
    BY Zenon DEF Queued, Elems
  <2>2. runq \in Queues /\ Once(runq)
    BY <1>1, Zenon DEF TypeOK, Queues, Inv, ClaimInv
  <2>3. CASE FinishRelease(c) /\ IsDead(Head(batch[c]))
    <3>1. pc[c] = "release" /\ wake_state' = [wake_state EXCEPT ![t] = "REAPABLE"] /\ runq' = runq
      BY <1>2, <2>3, Zenon DEF FinishRelease
    <3> QED
      BY <1>1, <1>8, <2>1, <2>2, <3>1, SMTT(60) DEF TypeOK, Once, Queues
  <2>4. CASE UnblockEnqueue(c)
    <3>1. pc[c] = "enqueue" /\ wake_state' = wake_state /\ Enqueue(t)
      BY <1>2, <2>4, Zenon DEF UnblockEnqueue, tcbs
    <3>2. PICK e \in Cpus : runq' = Appended(runq, e, t)
      BY <3>1, Zenon DEF Enqueue, Appended
    <3>3. t \notin Elems(runq[e])
      BY <1>8, <2>1, Zenon
    <3>4. /\ runq' \in Queues /\ Once(runq') /\ Elems(runq'[e]) = Elems(runq[e]) \cup {t}
          /\ \A d \in Cpus \ {e} : runq'[d] = runq[d]
      BY <2>2, <3>2, <3>3, AppendOne, SMTT(60)
    <3>5. Once(runq)'
      BY <3>4, Zenon DEF Once
    <3>6. /\ \A d \in Cpus \ {e} : Queued(d)' = Queued(d)
          /\ Queued(e)' = Queued(e) \cup {t}
      BY <2>1, <3>4, Zenon
    <3>7. /\ \A d \in Cpus, u \in Threads \ {t} : u \in Queued(d)' <=> u \in Queued(d)
          /\ \A d \in Cpus : t \in Queued(d)' => d = e
      BY <1>8, <3>6, Zenon
    <3>8. /\ wake_state' \in [Threads -> {"IDLE", "PARKED", "MOVING", "CLAIMED", "REAPABLE"}]
          /\ wake_state'[t] = "IDLE" /\ runq' \in [Cpus -> Seq(Threads)]
      BY <1>1, <1>7, <3>1, <3>4, Zenon DEF TypeOK, Queues
    <3> QED
      BY <3>1, <3>5, <3>7, <3>8, Zenon
  <2> QED
    BY <2>3, <2>4, Zenon
<1>10. TypeOK'
  BY <1>1, <1>3, <1>4, <1>9, Zenon DEF TypeOK, waits
<1>11. Context(c)'
  BY <1>1, <1>4, <1>5, Zenon DEF Context, ThreadPcs, LoopPcs, RequeuePcs, DestroyPcs, ReapPcs, FinishPcs, IrqPcs
<1>12. Only(c, t)
  <2>1. pc'[c] \in {"expire", "cancel", "wait", "dispose", "user", "irq_ret"}
    BY <1>5, Zenon
  <2>2. \A u \in Threads \ {t} : SameThread(u) /\ SameHold(c, u)
    BY <1>1, <1>2, <1>3, <1>9, <2>1, Zenon DEF SameThread, SameHold, Ready, Owner, Winner, InTransit, InHand, waits, ReapPcs
  <2> QED
    BY <1>1, <1>3, <1>4, <1>9, <2>2, Zenon DEF Only, SameCpu
<1>13. HoldsUmem(c)' => ret'[c] = "dispose" /\ ret[c] = "dispose" /\ tgt'[c] = tgt[c] /\ HoldsUmem(c)
  BY <1>5, Zenon DEF HoldsUmem, DestroyPcs, ReapPcs
<1>14. ASSUME NEW u \in Threads \ {t} PROVE Holding(c, u)'
  <2>1. Holding(c, u) /\ SameThread(u) /\ u # None
    BY <1>12, InvFacts, Zenon DEF Only
  <2>2. Running(c, u)' /\ Waits(c, u)'
    BY <1>1, <1>5, <1>9, <2>1, Zenon DEF Holding, Running, Waits, SameThread
  <2>3. Claimed(c, u)'
    <3>1. u \in Batched(c)' => batch'[c] # <<>>
      BY DEF Batched
    <3> QED
      BY <1>1, <1>2, <1>3, <1>5, <2>1, <3>1, Zenon DEF Holding, Claimed, SameThread, InHand, FinishPcs
  <2>4. Target(c, u)'
    BY <1>5, <1>13, <2>1, Zenon DEF Holding, Target, SameThread, ReapPcs
  <2> QED
    BY <2>2, <2>3, <2>4, Zenon DEF Holding
<1>15. ASSUME NEW d \in Cpus PROVE Holding(d, t)'
  <2>1. Holding(d, t) /\ t # None /\ t \notin Batched(d)'
    BY <1>3, <1>6, InvFacts, Zenon
  <2>2. Running(d, t)'
    <3>1. current_thread[d] = t =>
            /\ pc[c] = "release"
            /\ pc[d] = "park" \/ (pc[d] = "switch" /\ status[t] = "BLOCKED")
      BY <1>1, <1>7, <1>8, <2>1, Zenon DEF Holding, Running
    <3>2. pc[d] \in {"switch", "park"} => d # c
      BY <1>1, Zenon
    <3> QED
      BY <1>1, <1>4, <1>9, <2>1, <3>1, <3>2, Zenon DEF Holding, Running
  <2>3. Waits(d, t)'
    <3>1. t \in Queued(d)' => pc[c] = "enqueue"
      BY <1>1, <1>9, Zenon
    <3>2. ~(pc'[d] = "enqueue" /\ InHand(d, t)')
      BY <1>3, <1>4, <1>5, <1>6, Zenon DEF InHand
    <3> QED
      BY <1>1, <1>7, <1>9, <3>1, <3>2, Zenon DEF Waits
  <2>4. Claimed(d, t)'
    BY <2>1, Zenon DEF Claimed
  <2>5. Target(d, t)'
    <3>1. CASE d = c
      BY <1>1, <1>5, <1>7, <1>13, <2>1, <3>1, Zenon DEF Holding, Target, ReapPcs
    <3>2. CASE d # c
      BY <1>1, <1>4, <1>6, <2>1, <3>2, Zenon DEF Holding, Target, HoldsUmem
    <3> QED
      BY <3>1, <3>2, Zenon
  <2> QED
    BY <2>2, <2>3, <2>4, <2>5, Zenon DEF Holding
<1>16. Apart(t)' /\ Wait(t)' /\ Accounted(t)'
  <2>1. Apart(t) /\ Wait(t) /\ Accounted(t)
    BY InvFacts, Zenon
  <2>2. \A d \in Cpus : ~Owner(d, t)' /\ (Ready(d, t)' <=> t \in Queued(d)')
    <3>1. \A d \in Cpus \ {c} : ~Owner(d, t)' /\ (Ready(d, t)' <=> t \in Queued(d)')
      BY <1>3, <1>4, <1>6, Zenon DEF Ready, Owner, Winner, InHand
    <3>2. ~Owner(c, t)' /\ (Ready(c, t)' <=> t \in Queued(c)')
      BY <1>3, <1>5, Zenon DEF Ready, Owner, Winner, ReapPcs
    <3> QED
      BY <3>1, <3>2, Zenon
  <2>3. Apart(t)'
    BY <1>1, <1>9, <2>1, <2>2, Zenon DEF Apart
  <2>4. Wait(t)'
    BY <1>1, <1>7, <1>9, <2>1, Zenon DEF Wait, waits
  <2>5. \A d \in Cpus : InTransit(d, t) => pc[c] = "enqueue" \/ InTransit(d, t)'
    BY <1>1, <1>4, <1>6, Zenon DEF InTransit
  <2>6. Accounted(t)'
    BY <1>1, <1>7, <1>9, <2>1, <2>5, Zenon DEF Accounted
  <2> QED
    BY <2>3, <2>4, <2>6, Zenon
<1>17. HoldsUmem(c)' => \A d \in Cpus \ {c} : ~HoldsUmem(d)
  BY <1>13, Zenon DEF Inv, ClaimInv
<1>18. \A u \in Threads : Holding(c, u)'
  BY <1>14, <1>15, Zenon
<1>19. ClaimInv /\ t \in Threads
  BY <1>3, Zenon DEF Inv
<1>20. ClaimInv'
  BY <1>3, <1>9, <1>11, <1>12, <1>15, <1>16, <1>17, <1>18, <1>19, Frame, Zenon
<1> QED
  BY <1>10, <1>20, Zenon DEF Inv

-----------------------------------------------------------------------------
(***************************************************************************)
(* The actions of Futex that move a thread between run queues and CPUs.    *)
(***************************************************************************)

\* A step of CPU c, with nothing claimed, that queues, dequeues or switches
\* thread t keeps the invariant when it keeps it for thread t.
LEMMA QueueStep ==
  ASSUME Inv, NEW c \in Cpus, NEW t \in Threads,
         UNCHANGED <<batch, ret, req>>, batch[c] = <<>>, ret[c] = "user",
         pc[c] \in {"user", "switch", "sched"},
         pc'[c] \in {"user", "switch", "check_dead", "exited"},
         \A d \in Cpus \ {c} : /\ pc'[d] = pc[d] /\ tgt'[d] = tgt[d]
                               /\ current_thread'[d] = current_thread[d],
         \A u \in Threads \ {t} : SameThread(u),
         \A d \in Cpus, u \in Threads \ {t} : u \in Queued(d)' <=> u \in Queued(d),
         \/ pc'[c] = pc[c] /\ current_thread'[c] = current_thread[c]
         \/ current_thread[c] \in {t, None} /\ current_thread'[c] \in {t, None},
         pc'[c] = "exited" => tgt'[c] = t,
         TypeOK', Context(c)', Once(runq)',
         \A d \in Cpus : Holding(d, t)',
         Apart(t)', Wait(t)', Accounted(t)'
  PROVE  Inv'
<1>1. ClaimInv /\ None \notin Threads /\ \A d \in Cpus : Batched(d)' = Batched(d)
  BY InvFacts, Zenon DEF Inv, Batched
<1>2. ASSUME NEW u \in Threads \ {t} PROVE SameHold(c, u)
  <2>0. u # t /\ u # None
    BY <1>1, Zenon
  <2>1. current_thread'[c] = u <=> current_thread[c] = u
    <3>1. CASE current_thread'[c] = current_thread[c]
      BY <3>1, Zenon
    <3>2. CASE current_thread[c] \in {t, None} /\ current_thread'[c] \in {t, None}
      BY <2>0, <3>2, Zenon
    <3> QED
      BY <3>1, <3>2, Zenon
  <2>2. /\ pc[c] \notin FinishPcs \cup ReapPcs \cup {"rq_move", "park", "enqueue", "unclaim"}
        /\ pc'[c] \notin FinishPcs \cup {"rq_move", "park", "enqueue", "unclaim"}
        /\ pc'[c] \in ReapPcs => tgt'[c] # u
    BY Zenon DEF FinishPcs, ReapPcs
  <2>3. /\ u \in Queued(c)' <=> u \in Queued(c)
        /\ u \in Batched(c)' <=> u \in Batched(c)
    BY <1>1, Zenon
  <2>4. Ready(c, u)' <=> Ready(c, u)
    BY <2>2, <2>3, Zenon DEF Ready
  <2>5. Winner(c, u)' <=> Winner(c, u)
    BY <2>2, <2>3, Zenon DEF Winner
  <2>6. Owner(c, u)' <=> Owner(c, u)
    BY <2>2, <2>5, Zenon DEF Owner
  <2>7. InTransit(c, u)' <=> InTransit(c, u)
    BY <2>2, Zenon DEF InTransit
  <2> QED
    BY <2>1, <2>4, <2>5, <2>6, <2>7, Zenon DEF SameHold
<1>3. Only(c, t)
  BY <1>2, Zenon DEF Only, SameCpu
<1>4. ~HoldsUmem(c)'
  BY Zenon DEF HoldsUmem, DestroyPcs, ReapPcs
<1>5. Once(batch)'
  BY <1>1, Zenon DEF Once, ClaimInv
<1>6. ASSUME NEW u \in Threads \ {t} PROVE Holding(c, u)'
  <2>1. Holding(c, u) /\ SameThread(u) /\ u \notin Batched(c)' /\ u # None
    <3>1. Batched(c) = {}
      BY EmptyBatch, Zenon
    <3>2. Holding(c, u) /\ u # None
      BY InvFacts, Zenon
    <3> QED
      BY <1>1, <3>1, <3>2, Zenon
  <2>2. Running(c, u)'
    BY <2>1, Zenon DEF Holding, Running, SameThread
  <2>3. Waits(c, u)' /\ Claimed(c, u)'
    BY <2>1, Zenon DEF Holding, Waits, Claimed, SameThread, InHand, FinishPcs
  <2>4. Target(c, u)'
    BY <1>4, <2>1, Zenon DEF Target, ReapPcs
  <2> QED
    BY <2>2, <2>3, <2>4, Zenon DEF Holding
<1> QED
  BY <1>1, <1>3, <1>4, <1>5, <1>6, Frame, Zenon DEF Inv

\* The push of a new thread (SYS_THREAD_SPAWN) and the local requeue of a
\* preempted or yielding one keep the invariant.
LEMMA EnqueueSteps ==
  ASSUME Inv, NEW c \in Cpus, NEW t \in Threads,
         SysThreadSpawn(c, t) \/ (Yield(c) /\ current_thread[c] = t)
  PROVE  Inv'
<1>1. /\ TypeOK /\ Context(c) /\ pc[c] = "user" /\ None \notin Threads
      /\ UNCHANGED <<on_cpu, wake_state, waits, word, dead, current_thread, locals, panicked>>
  BY InvFacts, Zenon DEF SysThreadSpawn, Yield, InUser
<1>2. /\ current_thread[c] # None /\ ret[c] = "user" /\ batch[c] = <<>>
  BY <1>1, Zenon DEF Context, TypeOK, ThreadPcs, FinishPcs, IrqPcs
<1>3. PICK e \in Cpus :
        /\ runq' = Appended(runq, e, t) /\ life'[t] = "live" /\ status'[t] = "RUNNABLE"
        /\ life' \in [Threads -> {"unborn", "live", "freed"}]
        /\ status' \in [Threads -> {"RUNNABLE", "RUNNING", "BLOCKED", "DEAD"}]
        /\ \A u \in Threads \ {t} : life'[u] = life[u] /\ status'[u] = status[u]
        /\ wake_state[t] = "IDLE" /\ pc' \in [Cpus -> Pcs]
        /\ \A d \in Cpus \ {c} : pc'[d] = pc[d]
        /\ \/ life[t] = "unborn" /\ status[t] = "RUNNABLE" /\ pc'[c] = "user"
           \/ /\ life[t] = "live" /\ status[t] = "RUNNING" /\ current_thread[c] = t
              /\ pc'[c] = "switch" /\ e = c
  <2> USE <1>1 DEF TypeOK
  <2>1. CASE SysThreadSpawn(c, t)
    <3>1. /\ life[t] = "unborn" /\ life' = [life EXCEPT ![t] = "live"] /\ UNCHANGED <<status, pc>>
          /\ \E e \in Cpus : runq' = Appended(runq, e, t)
      BY <2>1, Zenon DEF SysThreadSpawn, Enqueue, Appended
    <3>2. status[t] = "RUNNABLE" /\ wake_state[t] = "IDLE"
      BY <3>1, InvFacts, Zenon DEF Wait
    <3> QED
      BY <3>1, <3>2, Zenon
  <2>2. CASE Yield(c) /\ current_thread[c] = t
    <3>1. /\ status' = [status EXCEPT ![t] = "RUNNABLE"] /\ life' = life
          /\ pc' = [pc EXCEPT ![c] = "switch"] /\ runq' = Appended(runq, c, t)
      BY <2>2, Zenon DEF Yield, Goto, Appended
    <3>2. status[t] = "RUNNING" /\ wake_state[t] = "IDLE" /\ life[t] = "live"
      BY <2>2, InvFacts, Zenon DEF Holding, Running
    <3> QED
      BY <2>2, <3>1, <3>2, Zenon DEF Pcs
  <2> QED
    BY <2>1, <2>2, Zenon
<1>4. \A d \in Cpus : /\ t \notin Queued(d) /\ t \notin Batched(d) /\ ~InHand(d, t)
                      /\ current_thread[d] = t => d = c /\ pc'[c] = "switch"
  <2> SUFFICES ASSUME NEW d \in Cpus
               PROVE  /\ t \notin Queued(d) /\ t \notin Batched(d) /\ ~InHand(d, t)
                      /\ current_thread[d] = t => d = c /\ pc'[c] = "switch"
    BY Zenon
  <2>1. Holding(d, t) /\ (InHand(d, t) => t \in Batched(d)) /\ Apart(t)
    BY InvFacts, HeadFacts, Zenon DEF InHand
  <2> QED
    BY <1>3, <2>1, Zenon DEF Holding, Waits, Claimed, Running, Apart
<1>5. /\ runq' \in [Cpus -> Seq(Threads)] /\ Once(runq)'
      /\ \A d \in Cpus : Queued(d)' = IF d = e THEN Queued(d) \cup {t} ELSE Queued(d)
  <2>1. \A d \in Cpus : Queued(d) = Elems(runq[d]) /\ Queued(d)' = Elems(runq'[d])
    BY Zenon DEF Queued, Elems
  <2>2. runq \in Queues /\ Once(runq) /\ t \notin Elems(runq[e])
    BY <1>1, <1>4, <2>1, Zenon DEF TypeOK, Queues, Inv, ClaimInv
  <2>3. /\ runq' \in Queues /\ Once(runq') /\ Elems(runq'[e]) = Elems(runq[e]) \cup {t}
        /\ \A d \in Cpus \ {e} : runq'[d] = runq[d]
    <3>1. runq' = Appended(runq, e, t)
      BY <1>3, Zenon
    <3>2. \A r : r = Appended(runq, e, t) =>
                   /\ r \in Queues /\ Once(r) /\ Elems(r[e]) = Elems(runq[e]) \cup {t}
                   /\ \A d \in Cpus \ {e} : r[d] = runq[d]
      BY <2>2, AppendOne, SMTT(60)
    <3> QED
      BY <3>1, <3>2, Zenon
  <2>4. Once(runq)'
    BY <2>3, Zenon DEF Once
  <2> QED
    BY <2>1, <2>3, <2>4, Zenon DEF Queues
<1>6. TypeOK'
  BY <1>1, <1>3, <1>5, Zenon DEF TypeOK, waits, locals
<1>7. Context(c)'
  BY <1>1, <1>2, <1>3, Zenon DEF Context, locals, ThreadPcs, LoopPcs, RequeuePcs, DestroyPcs, ReapPcs, FinishPcs, IrqPcs
<1>8. ASSUME NEW d \in Cpus PROVE Holding(d, t)' /\ ~InHand(d, t)' /\ t \notin Batched(d)'
  <2>1. Holding(d, t) /\ t \notin Batched(d)' /\ ~InHand(d, t)'
    BY <1>1, <1>3, <1>4, InvFacts, Zenon DEF locals, Batched, InHand, FinishPcs
  <2>2. Running(d, t)'
    BY <1>1, <1>3, <1>4, <1>5, <2>1, Zenon DEF Holding, Running
  <2>3. Waits(d, t)' /\ Claimed(d, t)'
    BY <1>1, <1>3, <2>1, Zenon DEF Waits, Claimed
  <2>4. Target(d, t)'
    BY <1>1, <1>2, <1>3, <2>1, Zenon DEF Holding, Target, HoldsUmem, locals, waits, DestroyPcs, ReapPcs
  <2> QED
    BY <2>1, <2>2, <2>3, <2>4, Zenon DEF Holding
<1>9. Apart(t)' /\ Wait(t)' /\ Accounted(t)'
  <2>1. Apart(t) /\ Wait(t) /\ Accounted(t)
    BY InvFacts, Zenon
  <2>2. \A d \in Cpus : /\ Ready(d, t)' <=> d = e
                        /\ Owner(d, t)' => Owner(d, t)
    <3>1. \A d \in Cpus : Ready(d, t)' <=> d = e
      BY <1>4, <1>5, <1>8, Zenon DEF Ready
    <3>2. \A d \in Cpus : Owner(d, t)' => Owner(d, t)
      BY <1>1, <1>3, <1>8, Zenon DEF Owner, Winner, locals, ReapPcs
    <3> QED
      BY <3>1, <3>2, Zenon
  <2>3. Apart(t)'
    BY <1>1, <2>1, <2>2, Zenon DEF Apart
  <2> QED
    BY <1>1, <1>3, <2>1, <2>3, Zenon DEF Wait, Accounted, waits
<1>10. /\ UNCHANGED <<batch, ret, req>> /\ \A u \in Threads \ {t} : SameThread(u)
       /\ \A d \in Cpus \ {c} : tgt'[d] = tgt[d] /\ current_thread'[d] = current_thread[d]
       /\ \A d \in Cpus, u \in Threads \ {t} : u \in Queued(d)' <=> u \in Queued(d)
       /\ \/ pc'[c] = pc[c] /\ current_thread'[c] = current_thread[c]
          \/ current_thread[c] \in {t, None} /\ current_thread'[c] \in {t, None}
  BY <1>1, <1>3, <1>5, Zenon DEF SameThread, locals, waits
<1>11. pc[c] \in {"user", "switch", "sched"} /\ pc'[c] \in {"user", "switch", "check_dead"}
  BY <1>1, <1>3, Zenon
<1> QED
  BY <1>2, <1>3, <1>5, <1>6, <1>7, <1>8, <1>9, <1>10, <1>11, QueueStep, Zenon

\* scheduler_loop publishing the save of the outgoing thread, and running or
\* culling the head of its queue, keeps the invariant.
LEMMA SwitchSteps ==
  ASSUME Inv, NEW c \in Cpus, SwitchOut(c) \/ Dispatch(c)
  PROVE  Inv'
<1>1. /\ TypeOK /\ Context(c) /\ pc[c] \in {"switch", "sched"} /\ None \notin Threads
      /\ UNCHANGED <<life, wake_state, waits, word, dead, ret, req, batch, seen, panicked>>
  BY InvFacts, Zenon DEF SwitchOut, Dispatch
<1>2. ret[c] = "user" /\ batch[c] = <<>>
  BY <1>1, Zenon DEF Context, TypeOK, FinishPcs, IrqPcs
<1>3. PICK t \in Threads :
        \/ SwitchOut(c) /\ current_thread[c] = t
        \/ Dispatch(c) /\ Head(runq[c]) = t /\ t \in Queued(c)
  <2>1. CASE SwitchOut(c)
    BY <1>1, <2>1, Zenon DEF SwitchOut, Context, TypeOK, ThreadOrNone, ThreadPcs
  <2>2. CASE Dispatch(c)
    <3>1. runq[c] # <<>> /\ runq[c] \in Seq(Threads)
      BY <1>1, <2>2, Zenon DEF Dispatch, TypeOK
    <3>2. Head(runq[c]) \in Threads /\ Head(runq[c]) \in Queued(c)
      BY <3>1, TailFacts, Zenon DEF Elems, Queued
    <3> QED
      BY <2>2, <3>2, Zenon
  <2> QED
    BY <2>1, <2>2, Zenon
<1>4. /\ status' \in [Threads -> {"RUNNABLE", "RUNNING", "BLOCKED", "DEAD"}]
      /\ on_cpu' \in [Threads -> BOOLEAN] /\ current_thread' \in [Cpus -> ThreadOrNone]
      /\ pc' \in [Cpus -> Pcs] /\ tgt' \in [Cpus -> ThreadOrNone]
      /\ \A u \in Threads \ {t} : status'[u] = status[u] /\ (on_cpu'[u] <=> on_cpu[u])
      /\ \A d \in Cpus \ {c} : /\ pc'[d] = pc[d] /\ tgt'[d] = tgt[d]
                               /\ current_thread'[d] = current_thread[d]
      /\ \/ /\ pc[c] = "switch" /\ pc'[c] = "check_dead" /\ status'[t] = status[t] /\ ~on_cpu'[t]
            /\ current_thread[c] = t /\ current_thread'[c] = None /\ tgt'[c] = t /\ runq' = runq
         \/ /\ t \in Queued(c) /\ pc[c] = "sched" /\ runq[c] # <<>> /\ Head(runq[c]) = t
            /\ runq' = Tailed(runq, c)
            /\ \/ /\ pc'[c] = "user" /\ status'[t] = "RUNNING" /\ on_cpu'[t]
                  /\ current_thread'[c] = t
               \/ /\ pc'[c] = "exited" /\ status'[t] = "DEAD" /\ (on_cpu'[t] <=> on_cpu[t])
                  /\ current_thread'[c] = current_thread[c] /\ tgt'[c] = t
  <2> USE <1>1 DEF TypeOK
  <2>1. CASE SwitchOut(c) /\ current_thread[c] = t
    <3>1. /\ tgt' = [tgt EXCEPT ![c] = t] /\ on_cpu' = [on_cpu EXCEPT ![t] = FALSE]
          /\ current_thread' = [current_thread EXCEPT ![c] = None]
          /\ pc' = [pc EXCEPT ![c] = "check_dead"] /\ UNCHANGED <<status, runq>> /\ pc[c] = "switch"
      BY <2>1, Zenon DEF SwitchOut, Goto
    <3> QED
      BY <2>1, <3>1, SMTT(60) DEF Pcs, ThreadOrNone
  <2>2. CASE Dispatch(c) /\ Head(runq[c]) = t /\ t \in Queued(c)
    <3>1. pc[c] = "sched" /\ runq[c] # <<>> /\ runq' = Tailed(runq, c)
      BY <2>2, Zenon DEF Dispatch, Tailed
    <3>2. CASE IsDead(t)
      <4>1. /\ status' = [status EXCEPT ![t] = "DEAD"] /\ tgt' = [tgt EXCEPT ![c] = t]
            /\ pc' = [pc EXCEPT ![c] = "exited"] /\ UNCHANGED <<on_cpu, current_thread>>
        BY <2>2, <3>2, Zenon DEF Dispatch, Goto
      <4> QED
        BY <2>2, <3>1, <4>1, Zenon DEF Pcs, ThreadOrNone
    <3>3. CASE ~IsDead(t)
      <4>1. /\ status' = [status EXCEPT ![t] = "RUNNING"] /\ on_cpu' = [on_cpu EXCEPT ![t] = TRUE]
            /\ current_thread' = [current_thread EXCEPT ![c] = t]
            /\ pc' = [pc EXCEPT ![c] = "user"] /\ UNCHANGED tgt
        BY <2>2, <3>3, Zenon DEF Dispatch, Goto
      <4> QED
        BY <2>2, <3>1, <4>1, ZenonT(60) DEF Pcs, UserPcs, ThreadOrNone
    <3> QED
      BY <3>2, <3>3, Zenon
  <2> QED
    BY <1>3, <2>1, <2>2, Zenon
<1>5. pc[c] = "sched" =>
        /\ life[t] = "live" /\ status[t] = "RUNNABLE" /\ wake_state[t] = "IDLE"
        /\ current_thread[c] = None
        /\ \A d \in Cpus : t \notin Batched(d) /\ ~InHand(d, t) /\ current_thread[d] # t
        /\ \A d \in Cpus \ {c} : ~Ready(d, t)
  <2> SUFFICES ASSUME pc[c] = "sched", NEW d \in Cpus
               PROVE  /\ life[t] = "live" /\ status[t] = "RUNNABLE" /\ wake_state[t] = "IDLE"
                      /\ current_thread[c] = None
                      /\ t \notin Batched(d) /\ ~InHand(d, t) /\ current_thread[d] # t
                      /\ d # c => ~Ready(d, t)
    BY Zenon
  <2>1. /\ Holding(d, t) /\ Holding(c, t) /\ (InHand(d, t) => t \in Batched(d)) /\ Apart(t)
        /\ t \in Queued(c)
    BY <1>4, InvFacts, HeadFacts, Zenon DEF InHand
  <2>2. /\ life[t] = "live" /\ status[t] = "RUNNABLE" /\ wake_state[t] = "IDLE"
        /\ current_thread[c] = None /\ (d # c => ~Ready(d, t))
    BY <1>1, <2>1, Zenon DEF Holding, Waits, Apart, Ready, Context, LoopPcs
  <2>3. t \notin Batched(d)
    BY <2>1, <2>2, Zenon DEF Holding, Claimed, Ready, InHand, FinishPcs
  <2>4. current_thread[d] # t
    BY <1>1, <2>1, <2>2, Zenon DEF Holding, Running, Ready
  <2> QED
    BY <2>1, <2>2, <2>3, <2>4, Zenon
<1>6. /\ runq' \in [Cpus -> Seq(Threads)] /\ Once(runq)'
      /\ \A d \in Cpus \ {c} : Queued(d)' = Queued(d)
      /\ Queued(c)' = IF pc[c] = "sched" THEN Queued(c) \ {t} ELSE Queued(c)
  <2>1. \A d \in Cpus : Queued(d) = Elems(runq[d]) /\ Queued(d)' = Elems(runq'[d])
    BY Zenon DEF Queued, Elems
  <2>2. runq \in Queues /\ Once(runq)
    BY <1>1, Zenon DEF TypeOK, Queues, Inv, ClaimInv
  <2>3. CASE pc[c] = "switch"
    <3>1. runq' = runq
      BY <1>4, <2>3, Zenon
    <3> QED
      BY <2>1, <2>2, <2>3, <3>1, Zenon DEF Once, Queues
  <2>4. CASE pc[c] = "sched"
    <3>1. runq[c] # <<>> /\ Head(runq[c]) = t /\ runq' = Tailed(runq, c)
      BY <1>4, <2>4, Zenon
    <3>2. /\ runq' \in Queues /\ Once(runq') /\ Elems(runq'[c]) = Elems(runq[c]) \ {t}
          /\ \A d \in Cpus \ {c} : runq'[d] = runq[d]
      BY <2>2, <3>1, TailOne, SMTT(60)
    <3>3. Once(runq)'
      BY <3>2, Zenon DEF Once
    <3> QED
      BY <2>1, <2>4, <3>2, <3>3, Zenon DEF Queues
  <2> QED
    BY <1>1, <2>3, <2>4, Zenon
<1>7. TypeOK'
  BY <1>1, <1>4, <1>6, Zenon DEF TypeOK, waits
<1>8. Context(c)'
  BY <1>1, <1>2, <1>4, <1>5, ZenonT(60) DEF Context, ThreadPcs, LoopPcs, RequeuePcs, DestroyPcs, ReapPcs, FinishPcs, IrqPcs
<1>9. \A d \in Cpus \ {c} : current_thread[d] # t
  <2>1. Apart(t)
    BY <1>1, InvFacts, Zenon
  <2> QED
    BY <1>1, <1>4, <1>5, <2>1, Zenon DEF Apart
<1>10. \A d \in Cpus : (t \in Batched(d)' <=> t \in Batched(d)) /\ (InHand(d, t)' <=> InHand(d, t))
  BY <1>1, <1>4, SMTT(60) DEF Batched, InHand, FinishPcs
<1>11. ASSUME NEW d \in Cpus PROVE Holding(d, t)'
  <2>1. Holding(d, t)
    BY InvFacts, Zenon
  <2>2. Running(d, t)'
    BY <1>1, <1>4, <1>5, <1>9, ZenonT(60) DEF Running
  <2>3. Waits(d, t)'
    <3>1. t \in Queued(d)' => pc[c] = "switch" /\ t \in Queued(d)
      <4>1. pc[c] = "sched" => t \notin Queued(c)' /\ \A b \in Cpus \ {c} : t \notin Queued(b)'
        BY <1>5, <1>6, Zenon DEF Ready
      <4>2. pc[c] = "switch" => Queued(d)' = Queued(d)
        BY <1>6, Zenon
      <4> QED
        BY <1>1, <4>1, <4>2, Zenon
    <3> QED
      BY <1>1, <1>4, <1>10, <2>1, <3>1, Zenon DEF Holding, Waits
  <2>4. Claimed(d, t)'
    <3>1. t \in Batched(d)' => t \in Batched(d) /\ pc[c] = "switch" /\ d # c
      <4>1. t \notin Batched(c)
        BY <1>2, EmptyBatch, Zenon
      <4>2. pc[c] = "sched" => t \notin Batched(d)
        BY <1>5, <4>1, Zenon
      <4> QED
        BY <1>1, <1>10, <4>1, <4>2, Zenon
    <3> QED
      BY <1>1, <1>4, <1>10, <2>1, <3>1, Zenon DEF Holding, Claimed, waits
  <2>5. Target(d, t)'
    <3>1. CASE d = c
      BY <1>1, <1>2, <1>4, <1>5, <3>1, Zenon DEF Target, HoldsUmem, DestroyPcs, ReapPcs
    <3>2. CASE d # c
      BY <1>1, <1>4, <1>5, <2>1, <3>2, Zenon DEF Holding, Target, HoldsUmem, waits
    <3> QED
      BY <3>1, <3>2, Zenon
  <2> QED
    BY <2>2, <2>3, <2>4, <2>5, Zenon DEF Holding
<1>12. Apart(t)' /\ Wait(t)' /\ Accounted(t)'
  <2>1. Apart(t) /\ Wait(t) /\ Accounted(t)
    BY InvFacts, Zenon
  <2>2. \A d \in Cpus : /\ Ready(d, t)' => Ready(d, t)
                        /\ Owner(d, t)' <=> Owner(d, t)
                        /\ Winner(d, t)' <=> Winner(d, t)
                        /\ InTransit(d, t) => InTransit(d, t)'
    <3>1. \A d \in Cpus : t \in Queued(d)' => t \in Queued(d)
      BY <1>6, Zenon
    <3> QED
      BY <1>1, <1>4, <1>10, <3>1, Zenon DEF Ready, Owner, Winner, InTransit, InHand, ReapPcs
  <2>3. Apart(t)'
    <3>1. \A d \in Cpus \ {c} : current_thread'[d] # t
      BY <1>4, <1>9, Zenon
    <3> QED
      BY <2>1, <2>2, <3>1, Zenon DEF Apart
  <2>4. Wait(t)'
    BY <1>1, <1>4, <1>5, <2>1, Zenon DEF Wait, waits
  <2>5. Accounted(t)'
    BY <1>1, <1>4, <1>5, <2>1, <2>2, Zenon DEF Accounted
  <2> QED
    BY <2>3, <2>4, <2>5, Zenon
<1>13. /\ \A u \in Threads \ {t} : SameThread(u)
       /\ \A d \in Cpus, u \in Threads \ {t} : u \in Queued(d)' <=> u \in Queued(d)
       /\ current_thread[c] \in {t, None} /\ current_thread'[c] \in {t, None}
       /\ pc'[c] \in {"user", "switch", "check_dead", "exited"}
       /\ pc'[c] = "exited" => tgt'[c] = t
  BY <1>1, <1>4, <1>5, <1>6, ZenonT(60) DEF SameThread, waits
<1> QED
  BY <1>1, <1>2, <1>4, <1>6, <1>7, <1>8, <1>11, <1>12, <1>13, QueueStep, Zenon

-----------------------------------------------------------------------------
\* Boot: the run queues hold the threads spawned so far, each once.
LEMMA InitInv ==
  Init => Inv
<1> SUFFICES ASSUME Init PROVE Inv
  BY Zenon
<1> USE DEF Init
<1>1. TypeOK
  <2>1. /\ life \in [Threads -> {"unborn", "live", "freed"}]
        /\ node \in [Threads -> Addrs \cup {None}] /\ older \in [Threads -> SUBSET Threads]
        /\ deadline_cpu \in [Threads -> Cpus \cup {None}] /\ seen \in [Cpus -> SUBSET Threads]
    BY Zenon
  <2>2. /\ runq \in [Cpus -> Seq(Threads)] /\ batch \in [Cpus -> Seq(Threads)]
        /\ req \in [Cpus -> Requests] /\ pc \in [Cpus -> Pcs]
    BY ConstantsAssumption, RequestTypes, SMTT(60) DEF Pcs, UserPcs
  <2> QED
    BY <2>1, <2>2, Zenon DEF TypeOK, ThreadOrNone
<1>2. \A c \in Cpus : /\ pc[c] = "sched" /\ ret[c] = "user" /\ tgt[c] = None /\ batch[c] = <<>>
                      /\ current_thread[c] = None /\ Batched(c) = {} /\ ~HoldsUmem(c)
                      /\ \A t : ~InHand(c, t)
  BY SMTT(60) DEF Batched, HoldsUmem, InHand, FinishPcs, DestroyPcs, ReapPcs
<1>3. \A t \in Threads : /\ status[t] = "RUNNABLE" /\ ~on_cpu[t] /\ wake_state[t] = "IDLE"
                         /\ node[t] = None /\ deadline_cpu[t] = None /\ life[t] # "freed"
                         /\ \A c \in Cpus : t \in Queued(c) => life[t] = "live"
  BY SMTT(60) DEF Queued, Booted
<1>4. \A c \in Cpus : Context(c)
  BY <1>2, Zenon DEF Context, ThreadPcs, LoopPcs, RequeuePcs, DestroyPcs, ReapPcs, FinishPcs
<1>5. Once(runq) /\ Once(batch)
  BY ConstantsAssumption, SMTT(60) DEF Once
<1>6. \A c \in Cpus, t \in Threads : Holding(c, t)
  BY <1>2, <1>3, ConstantsAssumption, ZenonT(60) DEF Holding, Running, Waits, Claimed, Target
<1>7. \A t \in Threads : Apart(t) /\ Wait(t) /\ Accounted(t)
  <2>1. \A t \in Threads, c, d \in Cpus : t \in Queued(c) /\ t \in Queued(d) => c = d
    BY ConstantsAssumption, SMTT(60) DEF Queued
  <2>2. \A t \in Threads, c \in Cpus : ~Owner(c, t)
    BY <1>2, Zenon DEF Owner, Winner, ReapPcs
  <2>3. \A t \in Threads : Apart(t)
    BY <1>2, <2>1, <2>2, ConstantsAssumption, Zenon DEF Apart, Ready
  <2> QED
    BY <1>3, <2>3, Zenon DEF Wait, Accounted
<1> QED
  BY <1>1, <1>2, <1>4, <1>5, <1>6, <1>7, Zenon DEF Inv, ClaimInv

\* Every system call, interrupt entry, cull and dispatch keeps the invariant.
LEMMA UserInv ==
  ASSUME Inv, NEW c \in Cpus, UserStep(c) \/ Cull(c) \/ Dispatch(c)
  PROVE  Inv'
<1>1. CASE Cull(c) \/ SysExit(c) \/ SysProcExit(c)
  BY <1>1, MoveOn, Zenon
<1>2. CASE Dispatch(c)
  BY <1>2, SwitchSteps, Zenon
<1>3. ASSUME NEW a \in Addrs, NEW v \in {0, 1}, Store(c, a, v) PROVE Inv'
  BY <1>3, MoveOn, Zenon
<1>4. ASSUME NEW p \in Procs, SysKill(c, p) PROVE Inv'
  BY <1>4, MoveOn, Zenon
<1>5. ASSUME NEW a \in Addrs, NEW v \in {0, 1}, NEW timed \in BOOLEAN,
             NEW w \in Addrs \cup {None}, SysWait(c, a, v, timed, w)
      PROVE  Inv'
  BY <1>5, SyscallSteps, Zenon
<1>6. ASSUME NEW a \in Addrs, NEW n \in 1 .. WakeBatch, SysWake(c, a, n) PROVE Inv'
  BY <1>6, SyscallSteps, Zenon
<1>7. ASSUME NEW from \in Addrs, NEW to \in Addrs, NEW v \in {0, 1}, NEW n \in 1 .. WakeBatch,
             SysRequeue(c, from, to, v, n)
      PROVE  Inv'
  BY <1>7, SyscallSteps, Zenon
<1>8. ASSUME NEW t \in Threads, SysThreadSpawn(c, t) PROVE Inv'
  BY <1>8, EnqueueSteps, Zenon
<1>9. ASSUME NEW t \in Threads, SysThreadDestroy(c, t) PROVE Inv'
  BY <1>9, TargetSteps, Zenon
<1>10. CASE Yield(c)
  <2>1. pc[c] = "user" /\ Context(c) /\ TypeOK
    BY <1>10, InvFacts, Zenon DEF Yield
  <2>2. current_thread[c] \in Threads
    BY <2>1, Zenon DEF Context, ThreadPcs, TypeOK, ThreadOrNone
  <2> QED
    BY <1>10, <2>2, EnqueueSteps, Zenon
<1>11. CASE TimerIrq(c)
  <2>1. PICK t \in Threads : TRUE
    BY <1>11, Zenon DEF TimerIrq
  <2> QED
    BY <1>11, <2>1, TargetSteps, Zenon
<1> QED
  BY <1>1, <1>2, <1>3, <1>4, <1>5, <1>6, <1>7, <1>8, <1>9, <1>10, <1>11, Zenon DEF UserStep

\* Every kernel step of a CPU keeps the invariant.
LEMMA KernelInv ==
  ASSUME Inv, NEW c \in Cpus, KernelStep(c)
  PROVE  Inv'
<1>1. CASE WaitReturns(c) \/ RequeueUnlock(c) \/ IrqReturn(c)
  BY <1>1, LeavingSteps, Zenon
<1>2. CASE WaitCheck(c) \/ WakeUnlock(c) \/ RequeueLockHi(c) \/ IrqUnlock(c) \/ CheckDead(c)
           \/ DestroyOnCpu(c) \/ DestroyStatus(c)
  BY <1>2, AdvancingSteps, Zenon
<1>3. CASE WakeLock(c) \/ RequeueLockLo(c)
  BY <1>3, MoveOn, Zenon
<1>4. CASE WaitParks(c) \/ RequeueMove(c)
  BY <1>4, WaitParksStep, RequeueMoveStep, Zenon
<1>5. CASE FinishCancel(c) \/ UnblockStatus(c) \/ UnblockUnclaim(c)
  BY <1>5, FinishCancelStep, UnblockStatusStep, UnblockUnclaimStep, Zenon
<1>6. CASE Expire(c) \/ DestroyUnlink(c) \/ DestroyCancel(c)
  BY <1>6, ExpireStep, ReapSteps, Zenon
<1>7. CASE ParkBlocked(c) \/ ParkExit(c) \/ Dispose(c) \/ DestroyFree(c)
  BY <1>7, ParkSteps, FreeSteps, Zenon
<1>8. CASE SwitchOut(c) \/ UnblockEnqueue(c)
  BY <1>8, SwitchSteps, FinishSteps, Zenon
<1>9. ASSUME NEW t \in Threads, WakeScan(c, t) \/ RequeueScan(c, t) \/ IrqScan(c, t) PROVE Inv'
  <2>1. CASE WakeScan(c, t)
    BY <2>1, LosingSteps, ClaimSteps, Zenon
  <2>2. CASE RequeueScan(c, t)
    BY <2>2, LosingSteps, RequeueScanStep, Zenon
  <2>3. CASE IrqScan(c, t)
    BY <2>3, TargetSteps, Zenon
  <2> QED
    BY <1>9, <2>1, <2>2, <2>3, Zenon
<1>10. CASE FinishRelease(c)
  <2>1. PICK t \in Threads : TRUE
    BY <1>10, HeadFacts, Zenon DEF FinishRelease, FinishPcs
  <2> QED
    BY <1>10, <2>1, LosingSteps, FinishSteps, Zenon
<1>11. CASE IrqClaim(c) \/ Exited(c) \/ Publish(c) \/ DestroyWakeState(c) \/ DestroyClaim(c)
  <2>1. TypeOK /\ Context(c) /\ (pc[c] = "publish" => ret[c] = "dispose")
    BY InvFacts, Zenon DEF Context
  <2>2. pc[c] \in {"irq_claim", "exited", "publish", "d_wake_state", "d_claim"}
    BY <1>11, Zenon DEF IrqClaim, Exited, Publish, DestroyWakeState, DestroyClaim, DestroyCheck
  <2>3. tgt[c] \in Threads
    BY <2>1, <2>2, Zenon DEF Context, TypeOK, ThreadOrNone, DestroyPcs
  <2>4. CASE IrqClaim(c) \/ Exited(c) \/ Publish(c)
    BY <2>3, <2>4, TargetSteps, ClaimSteps, Zenon
  <2>5. CASE DestroyWakeState(c) \/ DestroyClaim(c)
    BY <2>3, <2>5, LosingSteps, ReapSteps, Zenon
  <2> QED
    BY <1>11, <2>4, <2>5, Zenon
<1> QED
  BY <1>1, <1>2, <1>3, <1>4, <1>5, <1>6, <1>7, <1>8, <1>9, <1>10, <1>11, Zenon DEF KernelStep

\* A step that changes nothing keeps the invariant.
LEMMA StutterInv ==
  ASSUME Inv, UNCHANGED vars
  PROVE  Inv'
<1> USE DEF vars, tcbs, waits, locals
<1>1. TypeOK'
  BY Zenon DEF Inv, TypeOK
<1>2. /\ \A c \in Cpus : SameCpu(c) /\ Queued(c)' = Queued(c) /\ (Context(c)' <=> Context(c))
      /\ \A t \in Threads : SameThread(t)
  <2>1. \A c \in Cpus : SameCpu(c) /\ Queued(c)' = Queued(c)
    BY Zenon DEF SameCpu, Queued
  <2>2. \A c \in Cpus : Context(c)' <=> Context(c)
    BY SMTT(60) DEF Context
  <2>3. \A t \in Threads : SameThread(t)
    BY Zenon DEF SameThread
  <2> QED
    BY <2>1, <2>2, <2>3, Zenon
<1>3. \A c \in Cpus, t \in Threads : SameHold(c, t) /\ (Holding(c, t)' <=> Holding(c, t))
  <2> SUFFICES ASSUME NEW c \in Cpus, NEW t \in Threads
               PROVE  SameHold(c, t) /\ (Holding(c, t)' <=> Holding(c, t))
    BY Zenon
  <2>1. /\ Queued(c)' = Queued(c) /\ Batched(c)' = Batched(c) /\ (HoldsUmem(c)' <=> HoldsUmem(c))
        /\ InHand(c, t)' <=> InHand(c, t)
    BY Zenon DEF Queued, Batched, HoldsUmem, InHand
  <2>2. SameHold(c, t)
    BY <2>1, Zenon DEF SameHold, Ready, Owner, Winner, InTransit
  <2>3. Running(c, t)' <=> Running(c, t)
    BY <2>1, Zenon DEF Running
  <2>4. Waits(c, t)' <=> Waits(c, t)
    BY <2>1, Zenon DEF Waits
  <2>5. Claimed(c, t)' <=> Claimed(c, t)
    BY <2>1, Zenon DEF Claimed
  <2>6. Target(c, t)' <=> Target(c, t)
    BY <2>1, Zenon DEF Target
  <2> QED
    BY <2>2, <2>3, <2>4, <2>5, <2>6, Zenon DEF Holding
<1>4. CASE Cpus = {}
  BY <1>1, <1>2, <1>4, Zenon DEF Inv, ClaimInv, Once, Apart, Wait, Accounted
<1>5. ASSUME NEW c \in Cpus PROVE ClaimInv'
  <2>1. Only(c, None)
    BY <1>2, <1>3, Zenon DEF Only
  <2>2. Once(runq)' /\ Once(batch)' /\ (HoldsUmem(c)' => \A d \in Cpus \ {c} : ~HoldsUmem(d))
    BY Zenon DEF Inv, ClaimInv, Once, HoldsUmem
  <2>3. Context(c)' /\ \A u \in Threads : Holding(c, u)'
    BY <1>2, <1>3, InvFacts, Zenon
  <2> QED
    BY <2>1, <2>2, <2>3, Frame, InvFacts, Zenon DEF Inv
<1> QED
  BY <1>1, <1>4, <1>5, Zenon DEF Inv

\* The invariant is inductive.
LEMMA NextInv ==
  Inv /\ [Next]_vars => Inv'
  BY UserInv, KernelInv, StutterInv, Zenon DEF Next

\* The claim protocol of futex.c, with the scheduler, timer and process code around
\* it, keeps its inductive invariant for any number of CPUs, threads, futex words
\* and processes.
THEOREM Invariance == Spec => []Inv
  BY InitInv, NextInv, PTL DEF Spec

\* Every variable of the futex model keeps its type.
THEOREM TypeCorrect == Spec => []TypeOK
<1>1. Inv => TypeOK
  BY Zenon DEF Inv
<1> QED
  BY <1>1, Invariance, PTL

\* Every thread is in one place at a time and only the CPU that holds it there
\* changes it: the state of each step of wait, wake, requeue, expiry, exit and reap.
THEOREM ClaimCorrect == Spec => []ClaimInv
<1>1. Inv => ClaimInv
  BY Zenon DEF Inv
<1> QED
  BY <1>1, Invariance, PTL

\* Of the wakers, timers and reapers that race for a parked thread exactly one
\* disposes of it, once, while its TCB is allocated (futex_try_claim).
THEOREM OneWinnerCorrect == Spec => []OneWinner
<1>1. Inv => OneWinner
  <2> SUFFICES ASSUME Inv PROVE OneWinner
    BY Zenon
  <2>1. \A c, d \in Cpus : c # d => Won(c) \cap Won(d) = {}
    BY InvFacts, Zenon DEF Won, Apart, Owner
  <2>2. ASSUME NEW c \in Cpus, NEW t \in Won(c) PROVE life[t] = "live"
    <3>1. Holding(c, t) /\ Winner(c, t)
      BY InvFacts, Zenon DEF Won
    <3> QED
      BY <3>1, Zenon DEF Holding, Claimed, Target, Winner, HoldsUmem, DestroyPcs
  <2>3. Once(batch)
    BY Zenon DEF Inv, ClaimInv
  <2> QED
    BY <2>1, <2>2, <2>3, Zenon DEF OneWinner, Once
<1> QED
  BY <1>1, Invariance, PTL

\* A wait is installed and removed whole: node, deadline entry and wake_state agree
\* (futex_sys_wait, finish_claimed, futex_expire_claimed).
THEOREM WaitInstalledWholeCorrect == Spec => []WaitInstalledWhole
<1>1. Inv => WaitInstalledWhole
  BY InvFacts, Zenon DEF WaitInstalledWhole, Wait, Accounted, Won
<1> QED
  BY <1>1, Invariance, PTL

\* No tree, queue or batch leads to a freed TCB (process_thread_exited,
\* proc_sys_thread_destroy).
THEOREM FreedUnreachableCorrect == Spec => []FreedUnreachable
<1>1. Inv => FreedUnreachable
  <2> SUFFICES ASSUME Inv, NEW t \in Threads, life[t] = "freed", NEW c \in Cpus
               PROVE  /\ node[t] = None /\ deadline_cpu[t] = None
                      /\ t \notin Queued(c) /\ t \notin Won(c)
    BY InvFacts, Zenon DEF FreedUnreachable, Wait
  <2>1. Wait(t) /\ Holding(c, t)
    BY InvFacts, Zenon
  <2> QED
    BY <2>1, Zenon DEF Wait, Holding, Waits, Claimed, Target, Won, Winner, HoldsUmem, DestroyPcs
<1> QED
  BY <1>1, Invariance, PTL

\* A thread is queued at most once, and never while another CPU still runs it
\* (thread_unblock_claimed, scheduler_loop).
THEOREM OneContextCorrect == Spec => []OneContext
<1>1. Inv => OneContext
  <2> SUFFICES ASSUME Inv PROVE OneContext
    BY ZenonT(30)
  <2>0. TypeOK /\ None \notin Threads /\ \A c \in Cpus : \A t \in Queued(c) : t \in Threads
    <3>1. \A c \in Cpus : runq[c] \in Seq(Threads)
      BY InvFacts, Zenon DEF TypeOK
    <3> QED
      BY <3>1, InvFacts, SMTT(60) DEF Queued
  <2>1. ASSUME NEW c \in Cpus, NEW d \in Cpus, c # d
        PROVE  /\ Queued(c) \cap Queued(d) = {}
               /\ current_thread[c] \notin Queued(d)
               /\ current_thread[c] = current_thread[d] => current_thread[c] = None
    <3>1. \A t \in Threads : ~(t \in Queued(c) /\ t \in Queued(d))
                             /\ ~(current_thread[c] = t /\ current_thread[d] = t)
      BY <2>1, InvFacts, Zenon DEF Apart, Ready
    <3>2. \A t \in Threads : current_thread[c] = t /\ t \in Queued(d) => t \in Queued(c)
      BY InvFacts, SMTT(60) DEF Holding, Running, Waits
    <3>3. current_thread[c] \in Threads \cup {None}
      BY <2>0, Zenon DEF TypeOK, ThreadOrNone
    <3> QED
      BY <2>0, <3>1, <3>2, <3>3, Zenon
  <2>2. ASSUME NEW c \in Cpus, NEW t \in Queued(c), on_cpu[t]
        PROVE  current_thread[c] = t /\ pc[c] = "switch"
    <3>1. t \in Threads /\ Holding(c, t) /\ Apart(t)
      BY <2>0, InvFacts, Zenon
    <3>2. PICK d \in Cpus : current_thread[d] = t
      BY <2>2, <3>1, InvFacts, Zenon DEF Accounted
    <3>3. pc[d] = "switch" /\ t \in Queued(d)
      BY <3>1, <3>2, InvFacts, Zenon DEF Holding, Running, Waits
    <3> QED
      BY <3>1, <3>2, <3>3, Zenon DEF Apart, Ready
  <2>3. Once(runq)
    BY Zenon DEF Inv, ClaimInv
  <2> QED
    BY <2>1, <2>2, <2>3, Zenon DEF OneContext, Once
<1> QED
  BY <1>1, Invariance, PTL

\* The asserts() of futex_expire_claimed, futex_reap_claimed and
\* thread_unblock_claimed cannot fire.
THEOREM WinnerAssertsCorrect == Spec => []WinnerAssertsHold
<1>1. Inv => WinnerAssertsHold
  <2> SUFFICES ASSUME Inv, NEW c \in Cpus
               PROVE  /\ pc[c] = "expire" => node[Head(batch[c])] # None
                      /\ pc[c] = "d_unlink" => node[tgt[c]] # None
                      /\ pc[c] = "unblock" /\ ~on_cpu[Head(batch[c])]
                           => /\ status[Head(batch[c])] = "BLOCKED"
                              /\ wake_state[Head(batch[c])] = "CLAIMED"
    BY Zenon DEF WinnerAssertsHold
  <2>0. TypeOK /\ Context(c)
    BY InvFacts, Zenon
  <2>1. CASE pc[c] = "expire"
    <3>1. Head(batch[c]) \in Threads /\ Head(batch[c]) \in Batched(c) /\ ret[c] = "irq_ret"
      BY <2>0, <2>1, HeadFacts, Zenon DEF Context
    <3> QED
      BY <2>1, <3>1, InvFacts, Zenon DEF Holding, Claimed, InHand, FinishPcs
  <2>2. CASE pc[c] = "d_unlink"
    <3>1. tgt[c] \in Threads
      BY <2>0, <2>2, Zenon DEF Context, TypeOK, ThreadOrNone, DestroyPcs, ReapPcs
    <3> QED
      BY <2>2, <3>1, InvFacts, Zenon DEF Holding, Target, ReapPcs
  <2>3. CASE pc[c] = "unblock"
    <3>1. PICK t \in Threads : t = Head(batch[c]) /\ t \in Batched(c) /\ InHand(c, t)
      BY <2>3, HeadFacts, Zenon DEF InHand, FinishPcs
    <3>2. wake_state[t] = "CLAIMED"
      BY <2>3, <3>1, InvFacts, Zenon DEF Holding, Claimed
    <3>3. ~on_cpu[t] => \A d \in Cpus : ~InTransit(d, t)
      <4>1. \A d \in Cpus \ {c} : ~InHand(d, t)
        BY <3>1, Alone, Zenon DEF Owner, Winner
      <4> QED
        BY <2>3, <4>1, InvFacts, Zenon DEF Holding, Running, InTransit
    <3> QED
      BY <2>3, <3>1, <3>2, <3>3, InvFacts, Zenon DEF Accounted
  <2> QED
    BY <2>1, <2>2, <2>3, Zenon
<1> QED
  BY <1>1, Invariance, PTL


(***************************************************************************)
(* The order of wakes and the losslessness of a completion: what a scan of  *)
(* a bucket can rely on while it holds the bucket's lock.                  *)
(***************************************************************************)
LockPcs == {"wake_scan", "rq_hi", "rq_scan", "rq_move"}

\* A step of CPU c leaves the other CPUs' scans alone.
Local(c) ==
  \A d \in Cpus \ {c} : /\ pc'[d] = pc[d] /\ ret'[d] = ret[d] /\ req'[d] = req[d]
                        /\ batch'[d] = batch[d] /\ seen'[d] = seen[d]

\* No waiter becomes claimable, and no parked one changes its word.
NoPark ==
  \A u \in Threads : wake_state'[u] = "PARKED" => wake_state[u] = "PARKED" /\ node'[u] = node[u]

\* A waiter that is claimed is still in its bucket tree: it was not woken.
NoWake ==
  \A u \in Threads : wake_state[u] = "PARKED" /\ wake_state'[u] = "CLAIMED" => node'[u] = node[u]

\* The request of CPU c still describes a legal wait of a joiner.
Waitable(c) ==
  \/ ret'[c] = ret[c] /\ req'[c].dest = req[c].dest /\ req'[c].expected = req[c].expected
  \/ ret'[c] # "wait"
  \/ req'[c].dest \in CompletionWords => req'[c].expected = 0

\* A step of CPU c outside its bucket sections.
Calm(c) ==
  /\ Local(c) /\ NoPark /\ NoWake /\ Waitable(c)
  /\ \A a \in CompletionWords : word'[a] = word[a]
  /\ pc[c] # "wake_scan" /\ pc'[c] \notin LockPcs
  /\ pc'[c] \notin SeekPcs => seen'[c] = {} \/ (pc[c] \notin SeekPcs /\ seen'[c] = seen[c])

\* A CPU outside its bucket sections holds no bucket lock.
LEMMA NoBucket ==
  ASSUME NEW c \in Cpus
  PROVE  /\ pc[c] \notin LockPcs => HeldBuckets(c) = {}
         /\ pc[c] = "wake_scan" => HeldBuckets(c) = {BucketOf[req[c].addr]}
         /\ pc[c] = "rq_hi" => HeldBuckets(c) = {Lo(c)}
         /\ pc[c] \in {"rq_scan", "rq_move"} => HeldBuckets(c) = {Lo(c), Hi(c)}
  BY Zenon DEF HeldBuckets, LockPcs

\* The locks of a CPU whose program counter and request stay the same do.
LEMMA SameBuckets ==
  ASSUME NEW c \in Cpus, pc'[c] = pc[c], req'[c] = req[c]
  PROVE  HeldBuckets(c)' = HeldBuckets(c)
  BY Zenon DEF HeldBuckets, Lo, Hi

\* A step that takes only free buckets, parks only under a bucket it may use, and
\* keeps its own scan in order keeps the scan invariant.
LEMMA ScanFrame ==
  ASSUME ScanInv, NEW c \in Cpus, Local(c),
         \A b \in HeldBuckets(c)' : b \in HeldBuckets(c) \/ BucketFree(b),
         \A u \in Threads : wake_state'[u] = "PARKED" =>
           \/ wake_state[u] = "PARKED" /\ node'[u] = node[u]
           \/ BucketOf[node'[u]] \in HeldBuckets(c) \/ BucketFree(BucketOf[node'[u]]),
         pc'[c] \notin SeekPcs => seen'[c] = {},
         \A d \in Cpus : seen[d] \in SUBSET Threads,
         pc'[c] = "wake_scan" =>
           \A u \in seen'[c] : node'[u] = req'[c].addr => wake_state'[u] # "PARKED"
  PROVE  ScanInv'
<1>1. \A d \in Cpus \ {c} : HeldBuckets(d)' = HeldBuckets(d)
  BY SameBuckets, Zenon DEF Local
<1>2. \A d \in Cpus \ {c} : HeldBuckets(c)' \cap HeldBuckets(d) = {}
  BY Zenon DEF ScanInv, BucketFree
<1>3. ASSUME NEW d \in Cpus, NEW e \in Cpus, d # e PROVE HeldBuckets(d)' \cap HeldBuckets(e)' = {}
  <2>1. CASE d = c
    BY <1>1, <1>2, <1>3, <2>1, Zenon
  <2>2. CASE e = c
    <3>1. HeldBuckets(e)' \cap HeldBuckets(d) = {} /\ HeldBuckets(d)' = HeldBuckets(d)
      BY <1>1, <1>2, <1>3, <2>2, Zenon
    <3> QED
      BY <3>1, Zenon
  <2>3. CASE d # c /\ e # c
    BY <1>1, <1>3, <2>3, Zenon DEF ScanInv
  <2> QED
    BY <2>1, <2>2, <2>3, Zenon
<1>4. \A d \in Cpus : pc'[d] \notin SeekPcs => seen'[d] = {}
  BY Zenon DEF ScanInv, Local
<1>5. ASSUME NEW d \in Cpus, pc'[d] = "wake_scan", NEW u \in seen'[d], node'[u] = req'[d].addr
      PROVE  wake_state'[u] # "PARKED"
  <2>1. CASE d = c
    BY <1>5, <2>1, Zenon
  <2>2. CASE d # c
    <3>1. /\ pc[d] = "wake_scan" /\ u \in seen[d] /\ node'[u] = req[d].addr /\ u \in Threads
          /\ HeldBuckets(d) = {BucketOf[req[d].addr]}
      BY <1>5, <2>2, NoBucket, Zenon DEF Local
    <3>2. BucketOf[node'[u]] \notin HeldBuckets(c) /\ ~BucketFree(BucketOf[node'[u]])
      BY <2>2, <3>1, Zenon DEF ScanInv, BucketFree
    <3>3. node[u] = req[d].addr => wake_state[u] # "PARKED"
      BY <3>1, Zenon DEF ScanInv
    <3> QED
      BY <3>1, <3>2, <3>3, Zenon
  <2> QED
    BY <2>1, <2>2, Zenon
<1> QED
  BY <1>3, <1>4, <1>5, Zenon DEF ScanInv

\* A step that completes no thread, parks nobody on a complete word and is not
\* part of a wake scan strands no joiner.
LEMMA JoinFrame ==
  ASSUME JoinInv, NEW c \in Cpus, Local(c), Waitable(c), pc[c] # "wake_scan",
         \A a \in CompletionWords : word'[a] = word[a],
         \A u \in Threads : wake_state'[u] = "PARKED" =>
           \/ wake_state[u] = "PARKED" /\ node'[u] = node[u]
           \/ node'[u] \in CompletionWords => word[node'[u]] # 1
  PROVE  JoinInv'
<1>1. ASSUME NEW a \in CompletionWords, NEW t \in Threads,
             word'[a] = 1, node'[t] = a, wake_state'[t] = "PARKED"
      PROVE  \E d \in Cpus : /\ pc'[d] = "wake_scan" /\ t \in Unvisited(d)'
                             /\ batch'[d] = <<>> /\ req'[d].count = 1
  <2>1. word[a] = 1 /\ node[t] = a /\ wake_state[t] = "PARKED"
    BY <1>1, Zenon
  <2>2. PICK d \in Cpus : /\ pc[d] = "wake_scan" /\ t \in Unvisited(d)
                          /\ batch[d] = <<>> /\ req[d].count = 1
    BY <2>1, Zenon DEF JoinInv
  <2>3. /\ pc'[d] = "wake_scan" /\ req'[d] = req[d] /\ batch'[d] = batch[d] /\ seen'[d] = seen[d]
    BY <2>2, Zenon DEF Local
  <2>4. t \in Unvisited(d)'
    BY <1>1, <2>1, <2>2, <2>3, Zenon DEF Unvisited
  <2> QED
    BY <2>2, <2>3, <2>4, Zenon
<1>2. ASSUME NEW d \in Cpus, ret'[d] = "wait", req'[d].dest \in CompletionWords
      PROVE  req'[d].expected = 0
  <2>1. CASE d = c
    BY <1>2, <2>1, Zenon DEF JoinInv, Waitable
  <2>2. CASE d # c
    <3>1. ret[d] = "wait" /\ req'[d] = req[d]
      BY <1>2, <2>2, Zenon DEF Local
    <3> QED
      BY <1>2, <3>1, Zenon DEF JoinInv
  <2> QED
    BY <2>1, <2>2, Zenon
<1>3. CompletionWords' = CompletionWords
  BY Zenon DEF CompletionWords
<1> QED
  BY <1>1, <1>2, <1>3, Zenon DEF JoinInv

\* A step outside the bucket sections keeps both invariants.
LEMMA CalmStep ==
  ASSUME Inv, NEW c \in Cpus, Calm(c)
  PROVE  (ScanInv => ScanInv') /\ (JoinInv => JoinInv')
<1>0. \A d \in Cpus : seen[d] \in SUBSET Threads
  BY InvFacts, Zenon DEF TypeOK
<1>1. ASSUME ScanInv PROVE ScanInv'
  <2>1. HeldBuckets(c)' = {}
    BY NoBucket, Zenon DEF Calm, HeldBuckets, LockPcs
  <2>2. pc'[c] \notin SeekPcs => seen'[c] = {}
    BY <1>1, Zenon DEF Calm, ScanInv
  <2>3. pc'[c] # "wake_scan"
    BY Zenon DEF Calm, LockPcs
  <2> QED
    BY <1>0, <1>1, <2>1, <2>2, <2>3, ScanFrame, Zenon DEF Calm, NoPark
<1> QED
  BY <1>1, JoinFrame, Zenon DEF Calm, NoPark

\* Every system call, interrupt entry, cull and dispatch is such a step.
LEMMA CalmUser ==
  ASSUME Inv, NEW c \in Cpus, UserStep(c) \/ Cull(c) \/ Dispatch(c)
  PROVE  Calm(c)
<1> USE DEF Goto, Leave, Reset, InUser, tcbs, waits, locals, UserPcs
<1>0. /\ pc \in [Cpus -> Pcs] /\ ret \in [Cpus -> {"user", "wait", "irq_ret", "dispose"}]
      /\ req \in [Cpus -> Requests] /\ word \in [Addrs -> {0, 1}]
      /\ wake_state \in [Threads -> {"IDLE", "PARKED", "MOVING", "CLAIMED", "REAPABLE"}]
  BY InvFacts, Zenon DEF TypeOK
<1>1. pc[c] = "user" => ret[c] # "wait"
  BY InvFacts, Zenon DEF Context, FinishPcs
<1>2. ASSUME UNCHANGED <<wake_state, node, batch, seen, ret, req, word>>, pc[c] \in UserPcs,
             NEW l \in {"user", "exit", "switch", "d_on_cpu", "exited"},
             pc' = [pc EXCEPT ![c] = l]
      PROVE  Calm(c)
  BY <1>0, <1>2, Zenon DEF Calm, Local, NoPark, NoWake, Waitable, LockPcs, SeekPcs, ScanPcs
<1>3. ASSUME NEW a \in Addrs, NEW v \in {0, 1}, Store(c, a, v) PROVE Calm(c)
  <2>1. /\ pc[c] = "user" /\ word' = [word EXCEPT ![a] = v]
        /\ UNCHANGED <<pc, wake_state, node, batch, seen, ret, req>> /\ a \notin CompletionWords
    BY <1>3, Zenon DEF Store
  <2>2. \A b \in CompletionWords : word'[b] = word[b]
    BY <1>0, <2>1, SMTT(60)
  <2> QED
    BY <1>0, <2>1, <2>2, Zenon DEF Calm, Local, NoPark, NoWake, Waitable, LockPcs, SeekPcs, ScanPcs
<1>4. ASSUME NEW p \in Procs, SysKill(c, p) PROVE Calm(c)
  BY <1>0, <1>4, Zenon DEF SysKill, Calm, Local, NoPark, NoWake, Waitable, LockPcs, SeekPcs, ScanPcs
<1>5. ASSUME NEW a \in Addrs, NEW v \in {0, 1}, NEW timed \in BOOLEAN,
             NEW w \in Addrs \cup {None}, SysWait(c, a, v, timed, w)
      PROVE  Calm(c)
  BY <1>0, <1>5, Zenon DEF SysWait, Calm, Local, NoPark, NoWake, Waitable, LockPcs, SeekPcs, ScanPcs, CompletionWords
<1>6. ASSUME NEW a \in Addrs, NEW n \in 1 .. WakeBatch, SysWake(c, a, n) PROVE Calm(c)
  BY <1>0, <1>1, <1>6, Zenon DEF SysWake, Calm, Local, NoPark, NoWake, Waitable, LockPcs, SeekPcs, ScanPcs
<1>7. ASSUME NEW from \in Addrs, NEW to \in Addrs, NEW v \in {0, 1}, NEW n \in 1 .. WakeBatch,
             SysRequeue(c, from, to, v, n)
      PROVE  Calm(c)
  BY <1>0, <1>1, <1>7, Zenon DEF SysRequeue, Calm, Local, NoPark, NoWake, Waitable, LockPcs, SeekPcs, ScanPcs
<1>8. ASSUME NEW t \in Threads, SysThreadSpawn(c, t) PROVE Calm(c)
  BY <1>0, <1>8, Zenon DEF SysThreadSpawn, Calm, Local, NoPark, NoWake, Waitable, LockPcs, SeekPcs, ScanPcs
<1>9. ASSUME NEW t \in Threads, SysThreadDestroy(c, t) PROVE Calm(c)
  BY <1>0, <1>2, <1>9, Zenon DEF SysThreadDestroy
<1>10. CASE Yield(c) \/ Cull(c) \/ SysExit(c) \/ SysProcExit(c) \/ Dispatch(c)
  BY <1>0, <1>2, <1>10, Zenon DEF Yield, Cull, SysExit, SysProcExit, Dispatch
<1>11. CASE TimerIrq(c)
  BY <1>0, <1>11, Zenon DEF TimerIrq, Calm, Local, NoPark, NoWake, Waitable, LockPcs, SeekPcs, ScanPcs
<1> QED
  BY <1>3, <1>4, <1>5, <1>6, <1>7, <1>8, <1>9, <1>10, <1>11, Zenon DEF UserStep

\* So are the kernel steps that take no bucket lock and park nobody.
LEMMA CalmKernel ==
  ASSUME Inv, NEW c \in Cpus,
         \/ WaitCheck(c) \/ WaitReturns(c) \/ FinishCancel(c) \/ FinishRelease(c)
         \/ UnblockStatus(c) \/ UnblockUnclaim(c) \/ UnblockEnqueue(c) \/ RequeueUnlock(c)
         \/ (\E t \in Threads : IrqScan(c, t)) \/ IrqClaim(c) \/ IrqUnlock(c) \/ Expire(c)
         \/ IrqReturn(c) \/ ParkBlocked(c) \/ ParkExit(c) \/ SwitchOut(c) \/ CheckDead(c)
         \/ Exited(c) \/ Dispose(c) \/ DestroyOnCpu(c) \/ DestroyStatus(c)
         \/ DestroyWakeState(c) \/ DestroyClaim(c) \/ DestroyUnlink(c) \/ DestroyCancel(c)
         \/ DestroyFree(c)
  PROVE  Calm(c)
<1> USE DEF Goto, Leave, Reset, tcbs, waits, locals
<1>0. /\ pc \in [Cpus -> Pcs] /\ ret \in [Cpus -> {"user", "wait", "irq_ret", "dispose"}]
      /\ req \in [Cpus -> Requests] /\ batch \in [Cpus -> Seq(Threads)]
      /\ tgt \in [Cpus -> ThreadOrNone] /\ seen \in [Cpus -> SUBSET Threads]
      /\ node \in [Threads -> Addrs \cup {None}]
      /\ wake_state \in [Threads -> {"IDLE", "PARKED", "MOVING", "CLAIMED", "REAPABLE"}]
  BY InvFacts, Zenon DEF TypeOK
<1>1. CASE \/ WaitCheck(c) \/ WaitReturns(c) \/ IrqReturn(c) \/ CheckDead(c) \/ Dispose(c)
           \/ DestroyFree(c) \/ RequeueUnlock(c)
  BY <1>0, <1>1, ZenonT(60) DEF WaitCheck, WaitReturns, IrqReturn, CheckDead, Dispose, DestroyFree, RequeueUnlock,
     Calm, Local, NoPark, NoWake, Waitable, LockPcs, SeekPcs, ScanPcs
<1>2. CASE \/ FinishCancel(c) \/ UnblockStatus(c) \/ ParkBlocked(c) \/ ParkExit(c) \/ SwitchOut(c)
           \/ Exited(c) \/ DestroyCancel(c)
  BY <1>0, <1>2, ZenonT(60) DEF FinishCancel, UnblockStatus, ParkBlocked, ParkExit, SwitchOut, Exited,
     DestroyCancel, Calm, Local, NoPark, NoWake, Waitable, LockPcs, SeekPcs, ScanPcs
<1>3. CASE DestroyOnCpu(c) \/ DestroyStatus(c) \/ DestroyWakeState(c)
  <2>1. CASE DestroyOnCpu(c)
    BY <1>0, <2>1, ZenonT(60) DEF DestroyOnCpu, DestroyCheck, Calm, Local, NoPark, NoWake,
       Waitable, LockPcs, SeekPcs, ScanPcs
  <2>2. CASE DestroyStatus(c)
    BY <1>0, <2>2, ZenonT(60) DEF DestroyStatus, DestroyCheck, Calm, Local, NoPark, NoWake,
       Waitable, LockPcs, SeekPcs, ScanPcs
  <2>3. CASE DestroyWakeState(c)
    BY <1>0, <2>3, ZenonT(60) DEF DestroyWakeState, DestroyCheck, Calm, Local, NoPark, NoWake,
       Waitable, LockPcs, SeekPcs, ScanPcs
  <2> QED
    BY <1>3, <2>1, <2>2, <2>3, Zenon
<1>4. CASE (\E t \in Threads : IrqScan(c, t)) \/ IrqUnlock(c)
  BY <1>0, <1>4, ZenonT(30) DEF IrqScan, IrqUnlock, Calm, Local, NoPark, NoWake, Waitable, LockPcs, SeekPcs, ScanPcs
<1>5. CASE IrqClaim(c)
  BY <1>0, <1>5, Zenon DEF IrqClaim, TryClaim, Calm, Local, NoPark, NoWake, Waitable, LockPcs, SeekPcs, ScanPcs
<1>6. CASE DestroyClaim(c)
  BY <1>0, <1>6, Zenon DEF DestroyClaim, TryClaim, Calm, Local, NoPark, NoWake, Waitable, LockPcs, SeekPcs, ScanPcs
<1>7. CASE UnblockUnclaim(c)
  BY <1>0, <1>7, Zenon DEF UnblockUnclaim, Calm, Local, NoPark, NoWake, Waitable, LockPcs, SeekPcs, ScanPcs
<1>8. CASE UnblockEnqueue(c)
  BY <1>0, <1>8, Zenon DEF UnblockEnqueue, FinishNext, Resume, Calm, Local, NoPark, NoWake, Waitable, LockPcs,
     SeekPcs, ScanPcs
<1>9. CASE FinishRelease(c)
  BY <1>0, <1>9, ZenonT(60) DEF FinishRelease, FinishNext, Resume, Calm, Local, NoPark, NoWake, Waitable, LockPcs,
     SeekPcs, ScanPcs
<1>10. CASE Expire(c) \/ DestroyUnlink(c)
  <2>1. PICK t \in Threads : wake_state[t] = "CLAIMED" /\ node[t] # None
                             /\ \/ Expire(c) /\ t = Head(batch[c])
                                \/ DestroyUnlink(c) /\ t = tgt[c]
    <3>1. CASE Expire(c)
      <4>1. Head(batch[c]) \in Threads /\ Head(batch[c]) \in Batched(c) /\ ret[c] = "irq_ret"
            /\ pc[c] = "expire"
        BY <3>1, HeadFacts, InvFacts, Zenon DEF Context, Expire
      <4> QED
        BY <3>1, <4>1, InvFacts, Zenon DEF Holding, Claimed, InHand, FinishPcs
    <3>2. CASE DestroyUnlink(c)
      <4>1. tgt[c] \in Threads /\ pc[c] = "d_unlink"
        BY <1>0, <3>2, InvFacts, Zenon DEF Context, ThreadOrNone, DestroyPcs, ReapPcs, DestroyUnlink
      <4> QED
        BY <3>2, <4>1, InvFacts, Zenon DEF Holding, Target, ReapPcs
    <3> QED
      BY <1>10, <3>1, <3>2, Zenon
  <2>2. /\ node' = [node EXCEPT ![t] = None]
        /\ pc[c] \in {"expire", "d_unlink"} /\ \E l \in {"cancel", "d_cancel"} : pc' = [pc EXCEPT ![c] = l]
        /\ UNCHANGED <<wake_state, word, ret, req, batch, seen>>
    BY <2>1, Zenon DEF Expire, DestroyUnlink, UnlinkClaimed, Unlink
  <2> QED
    BY <1>0, <2>1, <2>2, Zenon DEF Calm, Local, NoPark, NoWake, Waitable, LockPcs, SeekPcs, ScanPcs
<1> QED
  BY <1>1, <1>2, <1>3, <1>4, <1>5, <1>6, <1>7, <1>8, <1>9, <1>10, Zenon

\* The types a scan's own steps need.
LEMMA ScanTypes ==
  ASSUME Inv
  PROVE  /\ pc \in [Cpus -> Pcs] /\ ret \in [Cpus -> {"user", "wait", "irq_ret", "dispose"}]
         /\ req \in [Cpus -> Requests] /\ batch \in [Cpus -> Seq(Threads)]
         /\ tgt \in [Cpus -> ThreadOrNone] /\ seen \in [Cpus -> SUBSET Threads]
         /\ current_thread \in [Cpus -> ThreadOrNone]
         /\ node \in [Threads -> Addrs \cup {None}] /\ word \in [Addrs -> {0, 1}]
         /\ wake_state \in [Threads -> {"IDLE", "PARKED", "MOVING", "CLAIMED", "REAPABLE"}]
  BY InvFacts, Zenon DEF TypeOK

\* Taking a bucket lock, for a wake, a publish or a requeue.
LEMMA LockScan ==
  ASSUME Inv, NEW c \in Cpus, ScanInv,
         WakeLock(c) \/ Publish(c) \/ RequeueLockLo(c) \/ RequeueLockHi(c)
  PROVE  ScanInv'
<1> USE DEF Goto, Leave, Reset, tcbs, waits, locals
<1>0. seen[c] = {}
  BY Zenon DEF ScanInv, SeekPcs, ScanPcs, WakeLock, Publish, RequeueLockLo, RequeueLockHi
<1>1. /\ Local(c) /\ UNCHANGED <<wake_state, node>> /\ seen'[c] = {}
  BY <1>0, ScanTypes, Zenon DEF Local, WakeLock, Publish, RequeueLockLo, RequeueLockHi
<1>2. \A b \in HeldBuckets(c)' : b \in HeldBuckets(c) \/ BucketFree(b)
  <2>1. CASE WakeLock(c)
    <3>1. pc'[c] = "wake_scan" /\ req' = req
      BY <2>1, ScanTypes, Zenon DEF WakeLock
    <3>2. HeldBuckets(c)' = {BucketOf[req[c].addr]}
      BY <3>1, Zenon DEF HeldBuckets
    <3> QED
      BY <2>1, <3>2, Zenon DEF WakeLock
  <2>2. CASE Publish(c)
    <3>1. pc'[c] = "wake_scan" /\ req'[c].addr = Completion[tgt[c]]
      BY <2>2, ScanTypes, Zenon DEF Publish, WakeReq
    <3>2. HeldBuckets(c)' = {BucketOf[Completion[tgt[c]]]}
      BY <3>1, Zenon DEF HeldBuckets
    <3> QED
      BY <2>2, <3>2, Zenon DEF Publish
  <2>3. CASE RequeueLockLo(c)
    <3>1. pc'[c] = "rq_hi" /\ req' = req
      BY <2>3, ScanTypes, Zenon DEF RequeueLockLo
    <3>2. HeldBuckets(c)' = {Lo(c)}
      BY <3>1, Zenon DEF HeldBuckets, Lo
    <3> QED
      BY <2>3, <3>2, Zenon DEF RequeueLockLo
  <2>4. CASE RequeueLockHi(c)
    <3>1. \/ pc'[c] = "rq_scan" /\ req' = req
          \/ pc'[c] = "user"
      BY <2>4, ScanTypes, Zenon DEF RequeueLockHi
    <3>2. HeldBuckets(c)' = {Lo(c), Hi(c)} \/ HeldBuckets(c)' = {}
      BY <3>1, Zenon DEF HeldBuckets, Lo, Hi
    <3>3. HeldBuckets(c) = {Lo(c)}
      BY <2>4, NoBucket, Zenon DEF RequeueLockHi
    <3> QED
      BY <2>4, <3>2, <3>3, Zenon DEF RequeueLockHi
  <2> QED
    BY <2>1, <2>2, <2>3, <2>4, Zenon
<1> QED
  BY <1>1, <1>2, ScanFrame, ScanTypes, Zenon

\* detach_batch_locked passes one waiter: it is claimed and unlinked, or was not
\* PARKED; nothing else moves.
LEMMA WakeScanEffect ==
  ASSUME Inv, NEW c \in Cpus, NEW t \in Threads, WakeScan(c, t)
  PROVE  /\ Local(c) /\ pc' = pc /\ req' = req /\ seen'[c] = seen[c] \cup {t} /\ pc[c] = "wake_scan"
         /\ wake_state'[t] # "PARKED"
         /\ \A u \in Threads \ {t} : wake_state'[u] = wake_state[u] /\ node'[u] = node[u]
<1>1. /\ Local(c) /\ pc' = pc /\ req' = req /\ seen'[c] = seen[c] \cup {t} /\ pc[c] = "wake_scan"
  BY ScanTypes, Zenon DEF Local, WakeScan, Unlink
<1>2. wake_state'[t] # "PARKED"
  BY ScanTypes, Zenon DEF WakeScan
<1>3. \A u \in Threads \ {t} : wake_state'[u] = wake_state[u] /\ node'[u] = node[u]
  BY ScanTypes, Zenon DEF WakeScan, Unlink
<1> QED
  BY <1>1, <1>2, <1>3, Zenon

\* futex_sys_requeue passes one waiter: it is taken to be moved, or was not PARKED.
LEMMA RequeueScanEffect ==
  ASSUME Inv, NEW c \in Cpus, NEW t \in Threads, RequeueScan(c, t)
  PROVE  /\ Local(c) /\ pc[c] = "rq_scan" /\ pc'[c] \in {"rq_scan", "rq_move"} /\ req' = req /\ ret' = ret
         /\ UNCHANGED <<word, node>>
         /\ \A u \in Threads : wake_state'[u] = "PARKED" => wake_state[u] = "PARKED"
<1>1. Local(c) /\ pc[c] = "rq_scan" /\ pc'[c] \in {"rq_scan", "rq_move"} /\ req' = req /\ ret' = ret
  BY ScanTypes, Zenon DEF Local, RequeueScan, Goto
<1>2. UNCHANGED <<word, node>>
  BY Zenon DEF RequeueScan, waits
<1>3. \A u \in Threads : wake_state'[u] = "PARKED" => wake_state[u] = "PARKED"
  BY ScanTypes, Zenon DEF RequeueScan
<1> QED
  BY <1>1, <1>2, <1>3, Zenon

\* futex_sys_wait found the word unchanged and parks the caller on it.
LEMMA WaitParksEffect ==
  ASSUME Inv, NEW c \in Cpus, WaitParks(c)
  PROVE  /\ current_thread[c] \in Threads
         /\ Local(c) /\ pc[c] = "compare" /\ pc'[c] = "park" /\ seen' = seen /\ word' = word /\ ret'[c] = "user"
         /\ node'[current_thread[c]] = req[c].dest /\ BucketFree(BucketOf[req[c].dest])
         /\ word[req[c].dest] = req[c].expected
         /\ \A u \in Threads \ {current_thread[c]} : wake_state'[u] = wake_state[u] /\ node'[u] = node[u]
<1>1. current_thread[c] \in Threads
  BY InvFacts, ScanTypes, Zenon DEF Context, ThreadOrNone, WaitParks, ThreadPcs
<1>2. /\ Local(c) /\ pc[c] = "compare" /\ pc'[c] = "park" /\ seen' = seen /\ word' = word /\ ret'[c] = "user"
      /\ BucketFree(BucketOf[req[c].dest]) /\ word[req[c].dest] = req[c].expected
  BY ScanTypes, Zenon DEF Local, WaitParks, Goto, Leave, Reset
<1>3. /\ node'[current_thread[c]] = req[c].dest
      /\ \A u \in Threads \ {current_thread[c]} : wake_state'[u] = wake_state[u] /\ node'[u] = node[u]
  BY <1>1, ScanTypes, Zenon DEF WaitParks, Link
<1> QED
  BY <1>1, <1>2, <1>3, Zenon

\* The scans under the lock: each waiter passed is claimed, moved away, or was
\* not claimable; and the release of the lock.
LEMMA SeekScan ==
  ASSUME Inv, NEW c \in Cpus, ScanInv,
         \/ \E t \in Threads : WakeScan(c, t) \/ RequeueScan(c, t)
         \/ WakeUnlock(c) \/ RequeueMove(c) \/ WaitParks(c)
  PROVE  ScanInv'
<1> USE DEF Goto, Leave, Reset, tcbs, waits, locals
<1>1. ASSUME NEW t \in Threads, WakeScan(c, t) PROVE ScanInv'
  <2>1. /\ Local(c) /\ pc' = pc /\ req' = req /\ seen'[c] = seen[c] \cup {t} /\ pc[c] = "wake_scan"
    BY <1>1, WakeScanEffect, Zenon
  <2>2. /\ wake_state'[t] # "PARKED"
        /\ \A u \in Threads \ {t} : wake_state'[u] = wake_state[u] /\ node'[u] = node[u]
    BY <1>1, WakeScanEffect, Zenon
  <2>3. HeldBuckets(c)' = HeldBuckets(c)
    BY <2>1, SameBuckets, Zenon
  <2>4. \A u \in seen'[c] : node'[u] = req'[c].addr => wake_state'[u] # "PARKED"
    <3>1. \A u \in seen[c] : u \in Threads /\ (node[u] = req[c].addr => wake_state[u] # "PARKED")
      BY <2>1, ScanTypes, Zenon DEF ScanInv
    <3> QED
      BY <2>1, <2>2, <3>1, Zenon
  <2> QED
    BY <2>1, <2>2, <2>3, <2>4, ScanFrame, ScanTypes, Zenon DEF SeekPcs, ScanPcs
<1>2. ASSUME NEW t \in Threads, RequeueScan(c, t) PROVE ScanInv'
  <2>1. /\ Local(c) /\ pc[c] = "rq_scan" /\ pc'[c] \in {"rq_scan", "rq_move"} /\ req' = req
        /\ node' = node /\ \A u \in Threads : wake_state'[u] = "PARKED" => wake_state[u] = "PARKED"
    BY <1>2, RequeueScanEffect, Zenon
  <2>2. HeldBuckets(c)' = HeldBuckets(c)
    BY <2>1, Zenon DEF HeldBuckets, Lo, Hi
  <2> QED
    BY <2>1, <2>2, ScanFrame, ScanTypes, Zenon DEF SeekPcs, ScanPcs
<1>3. CASE WakeUnlock(c)
  <2>1. /\ Local(c) /\ seen'[c] = {} /\ pc'[c] \notin LockPcs /\ UNCHANGED <<wake_state, node>>
    BY <1>3, ScanTypes, Zenon DEF Local, WakeUnlock, Resume, LockPcs
  <2>2. HeldBuckets(c)' = {} /\ pc'[c] # "wake_scan"
    BY <2>1, Zenon DEF HeldBuckets, LockPcs
  <2> QED
    BY <2>1, <2>2, ScanFrame, ScanTypes, Zenon
<1>4. CASE RequeueMove(c)
  <2>1. tgt[c] \in Threads
    BY <1>4, InvFacts, ScanTypes, Zenon DEF Context, ThreadOrNone, RequeueMove
  <2>2. /\ Local(c) /\ pc[c] = "rq_move" /\ pc'[c] = "rq_scan"
        /\ req'[c].addr = req[c].addr /\ req'[c].dest = req[c].dest
        /\ node'[tgt[c]] = req[c].dest
        /\ \A u \in Threads \ {tgt[c]} : wake_state'[u] = wake_state[u] /\ node'[u] = node[u]
    BY <1>4, <2>1, ScanTypes, ZenonT(30) DEF Local, RequeueMove, Link, Requests
  <2>3. HeldBuckets(c) = {Lo(c), Hi(c)} /\ HeldBuckets(c)' = {Lo(c), Hi(c)}
    BY <2>2, Zenon DEF HeldBuckets, Lo, Hi
  <2>4. BucketOf[req[c].dest] \in {Lo(c), Hi(c)}
    BY Zenon DEF Lo, Hi
  <2> QED
    BY <2>2, <2>3, <2>4, ScanFrame, ScanTypes, Zenon DEF SeekPcs, ScanPcs
<1>5. CASE WaitParks(c)
  <2>1. current_thread[c] \in Threads
    BY <1>5, WaitParksEffect, Zenon
  <2>2. /\ Local(c) /\ pc[c] = "compare" /\ pc'[c] = "park" /\ seen' = seen
        /\ node'[current_thread[c]] = req[c].dest /\ BucketFree(BucketOf[req[c].dest])
        /\ \A u \in Threads \ {current_thread[c]} : wake_state'[u] = wake_state[u] /\ node'[u] = node[u]
    BY <1>5, WaitParksEffect, Zenon
  <2>3. HeldBuckets(c)' = {} /\ seen'[c] = {}
    BY <2>2, Zenon DEF HeldBuckets, ScanInv, SeekPcs, ScanPcs
  <2> QED
    BY <2>2, <2>3, ScanFrame, ScanTypes, Zenon
<1> QED
  BY <1>1, <1>2, <1>3, <1>4, <1>5, Zenon

\* The bucket sections of a requeue, a wait and the lock of a wake strand no
\* joiner: a waiter is parked on a word only while the word says so.
LEMMA ParkJoin ==
  ASSUME Inv, NEW c \in Cpus, JoinInv, OneJoiner,
         \/ WakeLock(c) \/ RequeueLockLo(c) \/ RequeueLockHi(c) \/ RequeueMove(c) \/ WaitParks(c)
         \/ \E t \in Threads : RequeueScan(c, t)
  PROVE  JoinInv'
<1> USE DEF Goto, Leave, Reset, tcbs, waits, locals
<1>1. CASE \/ WakeLock(c) \/ RequeueLockLo(c) \/ RequeueLockHi(c)
           \/ \E t \in Threads : RequeueScan(c, t)
  <2>1. /\ Local(c) /\ Waitable(c) /\ pc[c] # "wake_scan" /\ UNCHANGED <<word, node>>
        /\ \A u \in Threads : wake_state'[u] = "PARKED" => wake_state[u] = "PARKED"
    <3>1. CASE WakeLock(c)
      BY <3>1, ScanTypes, Zenon DEF Local, Waitable, WakeLock
    <3>2. CASE RequeueLockLo(c)
      BY <3>2, ScanTypes, Zenon DEF Local, Waitable, RequeueLockLo
    <3>3. CASE RequeueLockHi(c)
      BY <3>3, ScanTypes, Zenon DEF Local, Waitable, RequeueLockHi
    <3>4. ASSUME NEW t \in Threads, RequeueScan(c, t)
          PROVE  /\ Local(c) /\ Waitable(c) /\ pc[c] # "wake_scan" /\ UNCHANGED <<word, node>>
                 /\ \A u \in Threads : wake_state'[u] = "PARKED" => wake_state[u] = "PARKED"
      BY <3>4, RequeueScanEffect, Zenon DEF Waitable
    <3> QED
      BY <1>1, <3>1, <3>2, <3>3, <3>4, Zenon
  <2> QED
    BY <2>1, JoinFrame, Zenon
<1>2. CASE RequeueMove(c)
  <2>1. tgt[c] \in Threads
    BY <1>2, InvFacts, ScanTypes, Zenon DEF Context, ThreadOrNone, RequeueMove
  <2>2. /\ Local(c) /\ pc[c] = "rq_move" /\ word' = word /\ Waitable(c)
        /\ node'[tgt[c]] = req[c].dest
        /\ \A u \in Threads \ {tgt[c]} : wake_state'[u] = wake_state[u] /\ node'[u] = node[u]
    BY <1>2, <2>1, ScanTypes, ZenonT(30) DEF Local, Waitable, RequeueMove, Link, Requests
  <2>3. req[c].dest \notin CompletionWords
    BY <2>2, Zenon DEF OneJoiner
  <2> QED
    BY <2>2, <2>3, JoinFrame, Zenon
<1>3. CASE WaitParks(c)
  <2>1. current_thread[c] \in Threads
    BY <1>3, WaitParksEffect, Zenon
  <2>2. /\ Local(c) /\ pc[c] = "compare" /\ word' = word /\ ret'[c] = "user"
        /\ node'[current_thread[c]] = req[c].dest /\ word[req[c].dest] = req[c].expected
        /\ \A u \in Threads \ {current_thread[c]} : wake_state'[u] = wake_state[u] /\ node'[u] = node[u]
    BY <1>3, WaitParksEffect, Zenon
  <2>3. ret[c] = "wait"
    BY <2>2, InvFacts, ZenonT(60) DEF Context
  <2>4. req[c].dest \in CompletionWords => word[req[c].dest] # 1
    <3>1. req[c].dest \in CompletionWords => word[req[c].dest] = 0
      BY <2>2, <2>3, Zenon DEF JoinInv
    <3> QED
      BY <3>1, SMTT(60)
  <2>5. Waitable(c)
    BY <2>2, Zenon DEF Waitable
  <2> QED
    BY <2>2, <2>4, <2>5, JoinFrame, Zenon
<1> QED
  BY <1>1, <1>2, <1>3, Zenon

\* A publisher finds every joiner ahead of it, and neither its own scan nor that
\* of another waker leaves one behind.
LEMMA WakeJoin ==
  ASSUME Inv, ScanInv, NEW c \in Cpus, JoinInv, OneJoiner,
         Publish(c) \/ WakeUnlock(c) \/ \E x \in Threads : WakeScan(c, x)
  PROVE  JoinInv'
<1> USE DEF Goto, Leave, Reset, tcbs, waits, locals
<1>1. /\ Local(c)
      /\ \A u \in Threads : wake_state'[u] = "PARKED" => wake_state[u] = "PARKED" /\ node'[u] = node[u]
  <2>1. CASE Publish(c)
    BY <2>1, ScanTypes, Zenon DEF Local, Publish
  <2>2. CASE WakeUnlock(c)
    BY <2>2, ScanTypes, Zenon DEF Local, WakeUnlock, Resume
  <2>3. ASSUME NEW x \in Threads, WakeScan(c, x)
        PROVE  /\ Local(c)
               /\ \A u \in Threads : wake_state'[u] = "PARKED" => wake_state[u] = "PARKED" /\ node'[u] = node[u]
    BY <2>3, WakeScanEffect, Zenon
  <2> QED
    BY <2>1, <2>2, <2>3, Zenon
<1>2. Waitable(c)
  <2>1. CASE Publish(c)
    <3>1. ret[c] = "dispose" /\ ret' = ret
      BY <2>1, InvFacts, Zenon DEF Context, Publish
    <3> QED
      BY <3>1, Zenon DEF Waitable
  <2>2. CASE WakeUnlock(c) \/ \E x \in Threads : WakeScan(c, x)
    BY <2>2, ScanTypes, Zenon DEF Waitable, WakeUnlock, WakeScan, Resume
  <2> QED
    BY <2>1, <2>2, Zenon
<1>3. ASSUME NEW a \in CompletionWords, NEW t \in Threads,
             word'[a] = 1, node'[t] = a, wake_state'[t] = "PARKED"
      PROVE  \E d \in Cpus : /\ pc'[d] = "wake_scan" /\ t \in Unvisited(d)'
                             /\ batch'[d] = <<>> /\ req'[d].count = 1
  <2>0. wake_state[t] = "PARKED" /\ node[t] = a /\ a \in Addrs
    BY <1>1, <1>3, ConstantsAssumption, Zenon DEF CompletionWords
  <2>1. CASE Publish(c) /\ a = Completion[tgt[c]]
    <3>1. pc[c] = "publish" /\ seen[c] = {} /\ batch[c] = <<>>
      BY <2>1, InvFacts, Zenon DEF ScanInv, SeekPcs, ScanPcs, Publish, Context, FinishPcs
    <3>2. /\ pc'[c] = "wake_scan" /\ req'[c].addr = a /\ req'[c].count = 1
          /\ seen'[c] = {} /\ batch'[c] = <<>>
      BY <2>1, <3>1, ScanTypes, Zenon DEF Publish, WakeReq
    <3>3. t \in Unvisited(c)'
      BY <1>3, <3>2, Zenon DEF Unvisited
    <3> QED
      BY <3>2, <3>3, Zenon
  <2>2. CASE ~(Publish(c) /\ a = Completion[tgt[c]])
    <3>1. word[a] = 1
      BY <1>3, <2>0, <2>2, ScanTypes, Zenon DEF Publish, WakeUnlock, WakeScan
    <3>2. PICK d \in Cpus : /\ pc[d] = "wake_scan" /\ t \in Unvisited(d)
                            /\ batch[d] = <<>> /\ req[d].count = 1
      BY <2>0, <3>1, Zenon DEF JoinInv
    <3>3. /\ pc'[d] = pc[d] /\ req'[d] = req[d] /\ batch'[d] = <<>> /\ t \notin seen'[d]
      <4>1. CASE d # c
        BY <3>2, <4>1, <1>1, Zenon DEF Local, Unvisited
      <4>2. CASE d = c
        <5>1. ~Publish(c)
          BY <3>2, <4>2, Zenon DEF Publish
        <5>2. ~WakeUnlock(c)
          <6>1. Len(batch[c]) # req[c].count /\ Unvisited(c) # {}
            BY <3>2, <4>2, SMTT(60)
          <6> QED
            BY <6>1, Zenon DEF WakeUnlock
        <5>3. PICK x \in Threads : WakeScan(c, x)
          BY <5>1, <5>2, Zenon
        <5>4. x # t
          <6>1. wake_state'[x] # "PARKED"
            BY <5>3, WakeScanEffect, Zenon
          <6> QED
            BY <1>3, <6>1, Zenon
        <5>5. wake_state[x] # "PARKED"
          <6>1. node[x] = a
            BY <2>0, <3>2, <4>2, <5>3, Zenon DEF WakeScan, IsNextWaiter, Unvisited
          <6> QED
            BY <2>0, <3>1, <5>4, <6>1, Zenon DEF OneJoiner
        <5> QED
          BY <3>2, <4>2, <5>3, <5>4, <5>5, ScanTypes, Zenon DEF WakeScan, Unvisited
      <4> QED
        BY <4>1, <4>2, Zenon
    <3>4. t \in Unvisited(d)'
      BY <1>3, <2>0, <3>2, <3>3, Zenon DEF Unvisited
    <3> QED
      BY <3>2, <3>3, <3>4, Zenon
  <2> QED
    BY <2>1, <2>2, Zenon
<1>4. ASSUME NEW d \in Cpus, ret'[d] = "wait", req'[d].dest \in CompletionWords
      PROVE  req'[d].expected = 0
  <2>1. CASE d = c
    BY <1>2, <1>4, <2>1, Zenon DEF JoinInv, Waitable
  <2>2. CASE d # c
    <3>1. ret[d] = "wait" /\ req'[d] = req[d]
      BY <1>1, <1>4, <2>2, Zenon DEF Local
    <3> QED
      BY <1>4, <3>1, Zenon DEF JoinInv
  <2> QED
    BY <2>1, <2>2, Zenon
<1>5. CompletionWords' = CompletionWords
  BY Zenon DEF CompletionWords
<1> QED
  BY <1>3, <1>4, <1>5, Zenon DEF JoinInv

\* Boot: no scan is under way and no word is complete.
LEMMA InitScan ==
  Init => ScanInv /\ JoinInv
<1> SUFFICES ASSUME Init PROVE ScanInv /\ JoinInv
  BY Zenon
<1>1. \A c \in Cpus : pc[c] = "sched" /\ seen[c] = {} /\ ret[c] = "user" /\ HeldBuckets(c) = {}
  BY Zenon DEF Init, HeldBuckets
<1>2. \A a \in CompletionWords : word[a] # 1
  <2>1. \A a \in CompletionWords : a \in Addrs
    BY ConstantsAssumption, SMTT(60) DEF CompletionWords
  <2> QED
    BY <2>1, SMTT(60) DEF Init
<1>3. ScanInv
  BY <1>1, Zenon DEF ScanInv
<1>4. JoinInv
  BY <1>1, <1>2, Zenon DEF JoinInv
<1> QED
  BY <1>3, <1>4, Zenon

\* Every step keeps the scan invariant.
LEMMA NextScan ==
  Inv /\ ScanInv /\ [Next]_vars => ScanInv'
<1> SUFFICES ASSUME Inv, ScanInv, [Next]_vars PROVE ScanInv'
  BY Zenon
<1>1. CASE UNCHANGED vars
  <2>1. \A c \in Cpus : HeldBuckets(c)' = HeldBuckets(c)
    BY <1>1, SameBuckets, Zenon DEF vars, locals
  <2>2. UNCHANGED <<pc, seen, node, req, wake_state>>
    BY <1>1, Zenon DEF vars, locals, waits, tcbs
  <2> QED
    BY <2>1, <2>2, Zenon DEF ScanInv
<1>2. ASSUME NEW c \in Cpus, UserStep(c) \/ Cull(c) \/ Dispatch(c) PROVE ScanInv'
  BY <1>2, CalmUser, CalmStep, Zenon
<1>3. ASSUME NEW c \in Cpus, KernelStep(c) PROVE ScanInv'
  <2>1. CASE \/ WakeLock(c) \/ Publish(c) \/ RequeueLockLo(c) \/ RequeueLockHi(c)
    BY <2>1, LockScan, Zenon
  <2>2. CASE \/ WakeUnlock(c) \/ RequeueMove(c) \/ WaitParks(c)
             \/ (\E t \in Threads : WakeScan(c, t)) \/ \E t \in Threads : RequeueScan(c, t)
    BY <2>2, SeekScan, Zenon
  <2> QED
    BY <1>3, <2>1, <2>2, CalmKernel, CalmStep, Zenon DEF KernelStep
<1> QED
  BY <1>1, <1>2, <1>3, Zenon DEF Next

\* Every step keeps the completion invariant, as long as the library keeps to one
\* joiner per thread.
LEMMA NextJoin ==
  Inv /\ ScanInv /\ JoinInv /\ OneJoiner /\ [Next]_vars => JoinInv'
<1> SUFFICES ASSUME Inv, ScanInv, JoinInv, OneJoiner, [Next]_vars PROVE JoinInv'
  BY Zenon
<1>1. CASE UNCHANGED vars
  <2>1. UNCHANGED <<pc, seen, node, req, wake_state, word, batch, ret>>
    BY <1>1, Zenon DEF vars, locals, waits, tcbs
  <2>2. \A c \in Cpus : Unvisited(c)' = Unvisited(c)
    BY <2>1, Zenon DEF Unvisited
  <2>3. CompletionWords' = CompletionWords
    BY Zenon DEF CompletionWords
  <2> QED
    BY <2>1, <2>2, <2>3, Zenon DEF JoinInv
<1>2. ASSUME NEW c \in Cpus, UserStep(c) \/ Cull(c) \/ Dispatch(c) PROVE JoinInv'
  BY <1>2, CalmUser, CalmStep, Zenon
<1>3. ASSUME NEW c \in Cpus, KernelStep(c) PROVE JoinInv'
  <2>1. CASE \/ WakeLock(c) \/ RequeueLockLo(c) \/ RequeueLockHi(c) \/ RequeueMove(c)
             \/ WaitParks(c) \/ \E t \in Threads : RequeueScan(c, t)
    BY <2>1, ParkJoin, Zenon
  <2>2. CASE Publish(c) \/ WakeUnlock(c) \/ \E t \in Threads : WakeScan(c, t)
    BY <2>2, WakeJoin, Zenon
  <2> QED
    BY <1>3, <2>1, <2>2, CalmKernel, CalmStep, Zenon DEF KernelStep
<1> QED
  BY <1>1, <1>2, <1>3, Zenon DEF Next

\* Waits are served in arrival order: a wake that claims a waiter leaves no older
\* claimable waiter of the same word behind (detach_batch_locked), however many
\* CPUs wake, requeue, expire and reap at the same time.
THEOREM FifoWakeCorrect == Spec => FifoWake
<1>1. ASSUME Inv, ScanInv, [Next]_vars
      PROVE  [\A t, u \in Threads :
                (/\ wake_state[t] = "PARKED" /\ wake_state'[t] = "CLAIMED"
                 /\ node'[t] = None /\ u \in older[t] /\ node[u] = node[t])
                => wake_state[u] # "PARKED"]_vars
  <2> SUFFICES ASSUME Next, NEW t \in Threads, NEW u \in Threads,
                      wake_state[t] = "PARKED", wake_state'[t] = "CLAIMED",
                      node'[t] = None, u \in older[t], node[u] = node[t]
               PROVE  wake_state[u] # "PARKED"
    BY <1>1, Zenon
  <2>1. node[t] # None
    BY <1>1, InvFacts, Zenon DEF Wait
  <2>2. PICK c \in Cpus : UserStep(c) \/ Cull(c) \/ Dispatch(c) \/ KernelStep(c)
    BY Zenon DEF Next
  <2>3. ~Calm(c)
    BY <2>1, Zenon DEF Calm, NoWake
  <2>4. /\ ~(WakeLock(c) \/ Publish(c) \/ RequeueLockLo(c) \/ RequeueLockHi(c) \/ WakeUnlock(c))
        /\ ~(RequeueMove(c) \/ WaitParks(c) \/ \E x \in Threads : RequeueScan(c, x))
    BY <1>1, ScanTypes, ZenonT(60) DEF WakeLock, Publish, RequeueLockLo, RequeueLockHi, WakeUnlock,
       RequeueMove, WaitParks, RequeueScan, tcbs
  <2>5. PICK x \in Threads : WakeScan(c, x)
    BY <1>1, <2>2, <2>3, <2>4, CalmUser, CalmKernel, Zenon DEF KernelStep
  <2>6. x = t
    BY <1>1, <2>5, ScanTypes, Zenon DEF WakeScan
  <2>7. /\ pc[c] = "wake_scan" /\ node[t] = req[c].addr /\ u \notin Unvisited(c)
    BY <2>5, <2>6, Zenon DEF WakeScan, IsNextWaiter, Unvisited
  <2>8. u \in seen[c]
    BY <2>7, Zenon DEF Unvisited
  <2> QED
    BY <1>1, <2>7, <2>8, Zenon DEF ScanInv
<1> QED
  BY <1>1, InitScan, NextScan, Invariance, PTL DEF Spec, FifoWake

\* The completion of a thread is lossless (futex_publish_wake): when its one joiner
\* races the exit with a compare-and-park, the joiner is never left parked on a
\* word that says COMPLETE, whatever other wakers, timers and reapers do.
THEOREM NoStrandedJoinerCorrect == Spec /\ []OneJoiner => []NoStrandedJoiner
<1>1. JoinInv => NoStrandedJoiner
  BY Zenon DEF JoinInv, NoStrandedJoiner
<1> QED
  BY <1>1, InitScan, NextScan, NextJoin, Invariance, PTL DEF Spec
=============================================================================
