------------------------------- MODULE Memory -------------------------------
(***************************************************************************)
(* User memory on several CPUs: the block indexes of kernel/src/umem.c,    *)
(* the per-process page tables and the TLB shootdown of                    *)
(* kernel/archsrc/x86_64/paging.c, and the locks that order them.          *)
(*                                                                         *)
(* A CPU is in user mode (or idle) when it has nothing to do; a system     *)
(* call is the list of kernel steps it has left.  A step is one critical   *)
(* section of an address-space lock; an index edit, with the short section *)
(* of a process's list lock around it; or the acquisition of a lock that   *)
(* stays held (g_umem, and the list lock in umem_protect).  Both kinds of  *)
(* lock spin while serving shootdowns.  A release is part of the step      *)
(* before it.                                                              *)
(***************************************************************************)
EXTENDS PageTable, FiniteSetsExt

CONSTANTS
  Cpu,          \* logical CPUs
  Proc,         \* processes; First runs from the boot on, the others are its children
  First,
  KAS,          \* g_as_kernel
  None,
  Ram,          \* blocks of the buddy allocator, ranges [lo, hi) of pages
  Device,       \* device ranges that a capability lets First map
  Start,        \* who owns which block at the start, or None; it is mapped rw
  Alive,        \* the processes that live at the start
  Zombie,       \* the dead ones that are not destroyed yet
  Prots,        \* protections a call may ask for
  Watched,      \* the pages whose TLB entries are followed
  ThreadMax,    \* threads of a process
  CallMax       \* bound: system calls in a behaviour

ASSUME MemoryAssumption ==
  /\ First \in Proc /\ KAS \notin Proc /\ None \notin Cpu \cup Proc \cup {KAS}
  /\ Ram \cup Device \subseteq [lo : Pages, hi : 0..PageCount]
  /\ First \in Alive /\ Alive \cap Zombie = {} /\ Alive \cup Zombie \subseteq Proc
  /\ Start \in [Ram \cup Device -> Alive \cup Zombie \cup {None}]
  /\ ThreadMax \in Nat \ {0} /\ CallMax \in Nat /\ Prots \subseteq {"none", "r", "rw"}
  /\ Watched \subseteq Pages

VARIABLES
  root, dirty, pins,            \* struct address_space, by process or KAS
  phase,                        \* of a process: none, made, live, dead, asless, gone
  nthreads,                     \* its threads not yet destroyed
  blocks, views,                \* p->blocks and p->views, under the list lock
  owner, sharers,               \* g_ublocks: a block's owner, and its edges
  frame,                        \* of a RAM block: "buddy" or "out"
  lock,                         \* g_umem and the list locks: the CPU inside, or None
  busy, req, need,              \* g_tlb_busy and g_tlb_req
  running, cur, cr3, tlb,       \* of a CPU: its process, current_as, CR3, TLB
  todo,                         \* of a CPU: the kernel steps it has left
  calls

spaces == <<root, dirty, pins>>
procs == <<phase, nthreads>>
index == <<blocks, views, owner, sharers, frame>>
shoot == <<busy, req, need>>
mmu == <<cur, cr3, tlb>>
vars == <<spaces, procs, index, lock, shoot, running, mmu, todo, calls>>

Space == Proc \cup {KAS}
Block == Ram \cup Device
G == "g_umem"
Flag == {"none", "k", "kd", "r", "rw"}
User == {"r", "rw"}
pristine(b) == IF b \in Device THEN "kd" ELSE "k"
Nothing == [g \in Pages |-> "none"]
NoRoot == [i \in Slots |-> Absent]
Registered(q) == phase[q] \in {"live", "dead", "asless"}
HasAs(q) == q = KAS \/ phase[q] \in {"made", "live", "dead"}

-----------------------------------------------------------------------------
(* Kernel steps.  Do names an index edit of process p and block b, under   *)
(* p's list lock; Bare is one under g_umem only.                           *)
Lock(l) == [s |-> "lock", l |-> l]
Unlock(l) == [s |-> "unlock", l |-> l]
Reflag(a, lo, hi, f) == [s |-> "flag", a |-> a, lo |-> lo, hi |-> hi, f |-> f]
FlagBlock(a, b, f) == Reflag(a, b.lo, b.hi, f)
Flush(ases) == [s |-> "flush", left |-> ases, ases |-> {ases[i] : i \in DOMAIN ases}, range |-> Empty]
Switch(a) == [s |-> "switch", a |-> a]
Do(op, p, b) == [s |-> op, p |-> p, b |-> b, q |-> p, l |-> p]
Bare(op, p, b) == [Do(op, p, b) EXCEPT !.l = None]
With(op, p, b, q) == [Do(op, p, b) EXCEPT !.q = q]

Step(c) == Head(todo[c])
Waiting(c) ==
  todo[c] # <<>> /\ "l" \in DOMAIN Step(c) /\ Step(c).l # None /\ lock[Step(c).l] # None
At(c, s) == todo[c] # <<>> /\ Step(c).s = s /\ ~Waiting(c)

\* The steps left after this one; locks are released on the way to the next.
Released(rest) ==
  {rest[i].l : i \in {j \in DOMAIN rest : \A k \in 1..j : rest[k].s = "unlock"}}
Return(c, rest) ==
  /\ todo' = [todo EXCEPT ![c] = SubSeq(rest, Cardinality(Released(rest)) + 1, Len(rest))]
  /\ lock' = [l \in DOMAIN lock |-> IF l \in Released(rest) THEN None ELSE lock[l]]
Continue(c, more) == Return(c, more \o Tail(todo[c]))
InUser(c) == todo[c] = <<>> /\ running[c] # None

\* A system call entered by the process p that runs on c.
Call(c, p, steps) ==
  /\ calls < CallMax /\ calls' = calls + 1
  /\ todo[c] = <<>> /\ running[c] = p /\ phase[p] = "live"
  /\ todo' = [todo EXCEPT ![c] = steps]

\* The caller may act on what is its own or its dead child's.
Authorized(p, q) == q = p \/ (p = First /\ phase[q] \in {"dead", "asless"})

\* A tree with the process's blocks mapped for it.
StartRoot(q) ==
  LET mine == {b \in Ram : Start[b] = q}
      add(r, b) == as_flag(r, Empty, b.lo, b.hi, "rw").root
  IN FoldSet(LAMBDA b, r : add(r, b), as_identity_mapping("k"), mine)

Init ==
  /\ root = [a \in Space |-> IF a \in Alive \cup Zombie \cup {KAS} THEN StartRoot(a) ELSE NoRoot]
  /\ dirty = [a \in Space |-> Empty]
  /\ pins = [a \in Space |-> 0]
  /\ phase = [q \in Proc |-> IF q \in Alive THEN "live" ELSE IF q \in Zombie THEN "dead" ELSE "none"]
  /\ nthreads = [q \in Proc |-> IF q \in Alive THEN ThreadMax ELSE 0]
  /\ blocks = [q \in Proc |-> {b \in Block : Start[b] = q}]
  /\ views = [q \in Proc |-> {}]
  /\ owner = Start /\ sharers = [b \in Block |-> {}]
  /\ frame = [b \in Ram |-> IF Start[b] = None THEN "buddy" ELSE "out"]
  /\ lock = [l \in Proc \cup {G} |-> None]
  /\ busy = FALSE /\ req = [ases |-> {}, range |-> Empty] /\ need = {}
  /\ running = [c \in Cpu |-> None]
  /\ cur = [c \in Cpu |-> KAS] /\ cr3 = [c \in Cpu |-> KAS]
  /\ tlb = [c \in Cpu |-> Nothing]
  /\ todo = [c \in Cpu |-> <<>>]
  /\ calls = 0

-----------------------------------------------------------------------------
(* Locks (svclock) and address spaces                                      *)

svclock_lock(c) ==
  /\ At(c, "lock")
  /\ lock' = [lock EXCEPT ![Step(c).l] = c]
  /\ todo' = [todo EXCEPT ![c] = Tail(@)]
  /\ UNCHANGED <<spaces, procs, index, shoot, running, mmu, calls>>

AsFlag(c) ==
  /\ At(c, "flag")
  /\ LET s == Step(c)
         t == as_flag(root[s.a], dirty[s.a], s.lo, s.hi, s.f)
     IN /\ root' = [root EXCEPT ![s.a] = t.root]
        /\ dirty' = [dirty EXCEPT ![s.a] = t.dirty]
  /\ Continue(c, <<>>)
  /\ UNCHANGED <<pins, procs, index, shoot, running, mmu, calls>>

as_pin(c) ==
  /\ At(c, "pin")
  /\ pins' = [pins EXCEPT ![Step(c).p] = @ + 1]
  /\ Continue(c, <<>>)
  /\ UNCHANGED <<root, dirty, procs, index, shoot, running, mmu, calls>>

\* as_switch publishes current_as first and loads CR3 next.
SwitchPublish(c) ==
  /\ At(c, "switch")
  /\ cur' = [cur EXCEPT ![c] = Step(c).a]
  /\ Continue(c, <<[s |-> "cr3", a |-> Step(c).a]>>)
  /\ UNCHANGED <<spaces, procs, index, shoot, running, cr3, tlb, calls>>

SwitchLoad(c) ==
  /\ At(c, "cr3")
  /\ cr3' = [cr3 EXCEPT ![c] = Step(c).a]
  /\ tlb' = [tlb EXCEPT ![c] = Nothing]
  /\ Continue(c, <<>>)
  /\ UNCHANGED <<spaces, procs, index, shoot, running, cur, calls>>

-----------------------------------------------------------------------------
(* as_flush_multi                                                          *)

\* One address space's dirty range is taken under its lock.
FlushSnapshot(c) ==
  /\ At(c, "flush") /\ Step(c).left # <<>>
  /\ LET s == Step(c)
         a == Head(s.left)
         r == Join(s.range, dirty[a])
     IN /\ dirty' = [dirty EXCEPT ![a] = Empty]
        /\ Continue(c, IF Len(s.left) > 1 THEN <<[s EXCEPT !.left = Tail(@), !.range = r]>>
                       ELSE IF r.lo >= r.hi THEN <<>>
                       ELSE <<[s |-> "slot", ases |-> s.ases, range |-> r]>>)
  /\ UNCHANGED <<root, pins, procs, index, shoot, running, mmu, calls>>

Invalidate(t, r) == [g \in Pages |-> IF Covers(r, g) THEN "none" ELSE t[g]]

\* The slot is taken, the request published to the CPUs on these address
\* spaces, and the own TLB invalidated.
FlushPublish(c) ==
  /\ At(c, "slot") /\ ~busy
  /\ busy' = TRUE
  /\ req' = [ases |-> Step(c).ases, range |-> Step(c).range]
  /\ need' = {d \in Cpu \ {c} : cur[d] \in Step(c).ases}
  /\ tlb' = [tlb EXCEPT ![c] = IF cur[c] \in Step(c).ases THEN Invalidate(@, Step(c).range) ELSE @]
  /\ Continue(c, <<[s |-> "acks"]>>)
  /\ UNCHANGED <<spaces, procs, index, running, cur, cr3, calls>>

FlushDone(c) ==
  /\ At(c, "acks") /\ need = {}
  /\ busy' = FALSE
  /\ Continue(c, <<>>)
  /\ UNCHANGED <<spaces, procs, index, req, need, running, mmu, calls>>

\* Mutant: the lock loop does not poll.
MayServiceByIpi(c) == todo[c] = <<>> \/ (At(c, "slot") /\ busy)

\* Where a CPU acknowledges: by the IPI in user mode and in the idle loop,
\* by polling while it spins for the slot or for a lock.
MayService(c) ==
  \/ todo[c] = <<>>
  \/ At(c, "slot") /\ busy
  \/ Waiting(c)

\* Mutant: the request is acknowledged before it is served.
tlb_service_ack_only(c) ==
  /\ c \in need /\ MayService(c)
  /\ need' = need \ {c}
  /\ UNCHANGED <<spaces, procs, index, lock, busy, req, running, mmu, todo, calls>>

tlb_service_local(c) ==
  /\ c \in need /\ MayService(c)
  /\ tlb' = [tlb EXCEPT ![c] = IF cur[c] \in req.ases THEN Invalidate(@, req.range) ELSE @]
  /\ need' = need \ {c}
  /\ UNCHANGED <<spaces, procs, index, lock, busy, req, running, cur, cr3, todo, calls>>

-----------------------------------------------------------------------------
(* Blocks.  The first steps of a call, then the edits it makes under the   *)
(* locks; an edit that finds its condition false unlocks and returns.      *)

umem_alloc(c, p, b) ==
  /\ b \in Ram /\ frame[b] = "buddy"
  /\ Call(c, p, <<FlagBlock(p, b, "rw"), Flush(<<p>>), Lock(G), Do("insert", p, b),
                  Unlock(G)>>)
  /\ frame' = [frame EXCEPT ![b] = "out"]
  /\ UNCHANGED <<spaces, procs, blocks, views, owner, sharers, lock, shoot, running, mmu>>

Insert(c) ==
  /\ At(c, "insert")
  /\ LET s == Step(c)
     IN /\ blocks' = [blocks EXCEPT ![s.p] = @ \cup {s.b}]
        /\ owner' = [owner EXCEPT ![s.b] = s.p]
  /\ Continue(c, <<>>)
  /\ UNCHANGED <<spaces, procs, views, sharers, frame, shoot, running, mmu, calls>>

umem_free(c, p, b) ==
  /\ Call(c, p, <<Lock(G), Bare("free", p, b)>>)
  /\ UNCHANGED <<spaces, procs, index, lock, shoot, running, mmu>>

FreeCheck(c) ==
  /\ At(c, "free")
  /\ LET s == Step(c)
         o == owner[s.b]
     IN Return(c, IF o # None /\ Authorized(s.p, o)
                  THEN <<Do("extract", o, s.b)>> ELSE <<Unlock(G)>>)
  /\ UNCHANGED <<spaces, procs, index, shoot, running, mmu, calls>>

\* free_locked, block_release_prepare and umem_release_finish.
Destroyable(b) == sharers[b] = {}

\* Mutant: the frame returns to the buddy allocator before the shootdown.
FreeTailUnflushed(o, b) ==
  <<Bare("pin", o, b), Bare("release", o, b), FlagBlock(o, b, pristine(b)), Unlock(G),
    Flush(<<o>>)>>

FreeTail(o, b) ==
  <<FlagBlock(o, b, pristine(b)), Bare("pin", o, b), Unlock(G), Flush(<<o>>),
    Bare("release", o, b)>>

free_locked(c) ==
  /\ At(c, "extract")
  /\ LET o == Step(c).p
         b == Step(c).b
     IN IF Destroyable(b)
        THEN /\ blocks' = [blocks EXCEPT ![o] = @ \ {b}]
             /\ owner' = [owner EXCEPT ![b] = None]
             /\ Return(c, FreeTail(o, b))
        ELSE Return(c, <<Unlock(G)>>) /\ UNCHANGED <<blocks, owner>>
  /\ UNCHANGED <<spaces, procs, views, sharers, frame, shoot, running, mmu, calls>>

ReleaseFinish(c) ==
  /\ At(c, "release")
  /\ LET s == Step(c)
     IN /\ pins' = [pins EXCEPT ![s.p] = @ - 1]
        /\ frame' = [b \in Ram |-> IF b = s.b THEN "buddy" ELSE frame[b]]
  /\ Continue(c, <<>>)
  /\ UNCHANGED <<root, dirty, procs, blocks, views, owner, sharers, shoot, running, mmu, calls>>

\* umem_protect of a part of a view.
umem_protect(c, p, b, lo, hi, f) ==
  /\ Call(c, p, <<Lock(p), [s |-> "protect", b |-> b, todo |-> Reflag(p, lo, hi, f)]>>)
  /\ UNCHANGED <<spaces, procs, index, lock, shoot, running, mmu>>

ProtectApply(c) ==
  /\ At(c, "protect")
  /\ LET s == Step(c)
         p == s.todo.a
     IN Return(c, IF s.b \in blocks[p] \cup views[p]
                  THEN <<s.todo, Flush(<<p>>), Unlock(p)>> ELSE <<Unlock(p)>>)
  /\ UNCHANGED <<spaces, procs, index, shoot, running, mmu, calls>>

umem_share(c, p, b, q, f) ==
  /\ q # p /\ f # "none"
  /\ Call(c, p, <<Lock(G), [s |-> "share", p |-> p, b |-> b, q |-> q, l |-> p, f |-> f]>>)
  /\ UNCHANGED <<spaces, procs, index, lock, shoot, running, mmu>>

ShareEdge(c) ==
  /\ At(c, "share")
  /\ LET s == Step(c)
     IN IF s.b \in blocks[s.p] /\ phase[s.q] = "live" /\ s.q \notin sharers[s.b]
        THEN /\ sharers' = [sharers EXCEPT ![s.b] = @ \cup {s.q}]
             /\ Return(c, <<Do("view", s.q, s.b), FlagBlock(s.q, s.b, s.f), Flush(<<s.q>>), Unlock(G)>>)
        ELSE Return(c, <<Unlock(G)>>) /\ UNCHANGED sharers
  /\ UNCHANGED <<spaces, procs, blocks, views, owner, frame, shoot, running, mmu, calls>>

ShareView(c) ==
  /\ At(c, "view")
  /\ views' = [views EXCEPT ![Step(c).p] = @ \cup {Step(c).b}]
  /\ Continue(c, <<>>)
  /\ UNCHANGED <<spaces, procs, blocks, owner, sharers, frame, shoot, running, mmu, calls>>

\* umem_dropshare by the receiver or its reaper, umem_unshare by the owner.
umem_dropshare(c, p, b, q) ==
  /\ Call(c, p, <<Lock(G), [With("drop", p, b, q) EXCEPT !.l = None]>>)
  /\ UNCHANGED <<spaces, procs, index, lock, shoot, running, mmu>>

DropCheck(c) ==
  /\ At(c, "drop")
  /\ LET s == Step(c)
         receiver == Registered(s.q) /\ Authorized(s.p, s.q)
         giver == owner[s.b] # None /\ Authorized(s.p, owner[s.b])
     IN Return(c, IF receiver \/ (giver /\ s.q \in sharers[s.b])
                  THEN <<Do("unview", s.q, s.b)>> ELSE <<Unlock(G)>>)
  /\ UNCHANGED <<spaces, procs, index, shoot, running, mmu, calls>>

DropView(c) ==
  /\ At(c, "unview")
  /\ LET q == Step(c).p
         b == Step(c).b
     IN IF b \in views[q]
        THEN /\ views' = [views EXCEPT ![q] = @ \ {b}]
             /\ sharers' = [sharers EXCEPT ![b] = @ \ {q}]
             /\ Return(c, <<FlagBlock(q, b, pristine(b)), Flush(<<q>>), Unlock(G)>>)
        ELSE Return(c, <<Unlock(G)>>) /\ UNCHANGED <<views, sharers>>
  /\ UNCHANGED <<spaces, procs, blocks, owner, frame, shoot, running, mmu, calls>>

\* proc_sys_vm_move to a live child, and umem_move_locked.
proc_sys_vm_move(c, p, b, q) ==
  /\ p = First /\ q # p
  /\ Call(c, p, <<Lock(G), With("move", p, b, q)>>)
  /\ UNCHANGED <<spaces, procs, index, lock, shoot, running, mmu>>

MoveOut(c) ==
  /\ At(c, "move")
  /\ LET s == Step(c)
         p == s.p
         q == s.q
     IN IF s.b \in blocks[p] /\ phase[q] = "live"
        THEN /\ blocks' = [blocks EXCEPT ![p] = @ \ {s.b}]
             /\ Return(c, <<Do("take", q, s.b), FlagBlock(p, s.b, pristine(s.b)),
                            FlagBlock(q, s.b, "rw"), Flush(<<q, p>>), Do("insert", q, s.b),
                            Unlock(G)>>)
        ELSE Return(c, <<Unlock(G)>>) /\ UNCHANGED blocks
  /\ UNCHANGED <<spaces, procs, views, owner, sharers, frame, shoot, running, mmu, calls>>

MoveTake(c) ==
  /\ At(c, "take")
  /\ LET q == Step(c).p
         b == Step(c).b
     IN /\ views' = [views EXCEPT ![q] = @ \ {b}]
        /\ sharers' = [sharers EXCEPT ![b] = @ \ {q}]
        /\ owner' = [owner EXCEPT ![b] = q]
  /\ Continue(c, <<>>)
  /\ UNCHANGED <<spaces, procs, blocks, frame, shoot, running, mmu, calls>>

\* umem_map_device: the kernel's alias in every extant tree, then the user's.
umem_map_device(c, p, b) ==
  /\ b \in Device /\ p = First
  /\ Call(c, p, <<Lock(G), Bare("device", p, b)>>)
  /\ UNCHANGED <<spaces, procs, index, lock, shoot, running, mmu>>

MapDevice(c) ==
  /\ At(c, "device")
  /\ LET s == Step(c)
         extant == {q \in Proc : Registered(q) /\ HasAs(q)}
         alias(a) == <<FlagBlock(a, s.b, "kd"), Flush(<<a>>)>>
         order == CHOOSE o \in [1..Cardinality(extant) -> extant] : {o[i] : i \in DOMAIN o} = extant
         all[i \in 0..Cardinality(extant)] == IF i = 0 THEN alias(KAS) ELSE all[i - 1] \o alias(order[i])
     IN Return(c, IF owner[s.b] = None
                  THEN all[Cardinality(extant)]
                       \o <<FlagBlock(s.p, s.b, "rw"), Flush(<<s.p>>), Do("insert", s.p, s.b),
                            Unlock(G)>>
                  ELSE <<Unlock(G)>>)
  /\ UNCHANGED <<spaces, procs, index, shoot, running, mmu, calls>>

-----------------------------------------------------------------------------
(* Processes                                                               *)

\* process_create clones the kernel's tree before it registers the process.
process_create(c, q) ==
  /\ phase[q] = "none"
  /\ Call(c, First, <<Lock(G), Bare("register", q, None), Unlock(G)>>)
  /\ root' = [root EXCEPT ![q] = root[KAS]]
  /\ phase' = [phase EXCEPT ![q] = "made"]
  /\ UNCHANGED <<dirty, pins, nthreads, index, lock, shoot, running, mmu>>

Register(c) ==
  /\ At(c, "register")
  /\ phase' = [phase EXCEPT ![Step(c).p] = "live"]
  /\ nthreads' = [nthreads EXCEPT ![Step(c).p] = ThreadMax]
  /\ Continue(c, <<>>)
  /\ UNCHANGED <<spaces, index, shoot, running, mmu, calls>>

proc_sys_kill(c, q) ==
  /\ q # First
  /\ Call(c, First, <<Lock(G), Bare("kill", q, None), Unlock(G)>>)
  /\ UNCHANGED <<spaces, procs, index, lock, shoot, running, mmu>>

MarkDead(c) ==
  /\ At(c, "kill")
  /\ phase' = [phase EXCEPT ![Step(c).p] = IF @ = "live" THEN "dead" ELSE @]
  /\ Continue(c, <<>>)
  /\ UNCHANGED <<spaces, nthreads, index, shoot, running, mmu, calls>>

proc_sys_destroy(c, q) ==
  /\ q # First
  /\ Call(c, First, <<Lock(G), Do("destroy", q, None), Unlock(G)>>)
  /\ UNCHANGED <<spaces, procs, index, lock, shoot, running, mmu>>

\* Mutant: the pins of a flush outside g_umem are not waited for.
StillDrainingOnCpus(q) == \E d \in Cpu : cur[d] = q

\* Whether a CPU or a flush still uses the address space (SYSERR_AGAIN).
StillDraining(q) == pins[q] # 0 \/ \E d \in Cpu : cur[d] = q

DestroyStep(c) ==
  /\ At(c, "destroy")
  /\ LET q == Step(c).p
         empty == blocks[q] = {} /\ views[q] = {} /\ nthreads[q] = 0
     IN \/ /\ phase[q] = "dead" /\ empty /\ ~StillDraining(q)
           /\ phase' = [phase EXCEPT ![q] = "asless"]
           /\ root' = [root EXCEPT ![q] = NoRoot]
        \/ /\ phase[q] = "asless" /\ empty
           /\ phase' = [phase EXCEPT ![q] = "gone"]
           /\ UNCHANGED root
        \/ /\ ~(phase[q] = "dead" /\ empty /\ ~StillDraining(q)) /\ ~(phase[q] = "asless" /\ empty)
           /\ UNCHANGED <<phase, root>>
  /\ Continue(c, <<>>)
  /\ UNCHANGED <<dirty, pins, nthreads, index, shoot, running, mmu, calls>>

-----------------------------------------------------------------------------
(* Scheduling and user-mode accesses                                       *)

Runnable(q) ==
  phase[q] \in {"live", "dead"} /\ Cardinality({d \in Cpu : running[d] = q}) < nthreads[q]

\* The scheduler loop, interrupts off: a thread is picked, or the CPU idles
\* on the kernel's address space.
ScheduleLoop(c) ==
  /\ At(c, "loop")
  /\ \E q \in {p \in Proc : Runnable(p)} \cup {None} :
       LET a == IF q = None THEN KAS ELSE q
       IN /\ running' = [running EXCEPT ![c] = q]
          /\ todo' = [todo EXCEPT ![c] = IF cur[c] = a THEN <<>> ELSE <<Switch(a)>>]
  /\ UNCHANGED <<spaces, procs, index, lock, shoot, mmu, calls>>

\* An idle CPU is sent to a thread that became ready.
Wake(c) ==
  /\ todo[c] = <<>> /\ running[c] = None /\ \E q \in Proc : Runnable(q)
  /\ todo' = [todo EXCEPT ![c] = <<[s |-> "loop"]>>]
  /\ UNCHANGED <<spaces, procs, index, lock, shoot, running, mmu, calls>>

\* A thread leaves the CPU, for good when its process is dead.
Leave(c) ==
  /\ InUser(c)
  /\ nthreads' = [nthreads EXCEPT ![running[c]] = IF phase[running[c]] = "dead" THEN @ - 1 ELSE @]
  /\ running' = [running EXCEPT ![c] = None]
  /\ todo' = [todo EXCEPT ![c] = <<[s |-> "loop"]>>]
  /\ UNCHANGED <<spaces, phase, index, lock, shoot, mmu, calls>>

\* A user access loads the TLB from the tree in CR3.
TlbFill(c, g) ==
  /\ g \in Watched /\ InUser(c) /\ Flags(root[cr3[c]], g) \in User /\ tlb[c][g] = "none"
  /\ tlb' = [tlb EXCEPT ![c][g] = Flags(root[cr3[c]], g)]
  /\ UNCHANGED <<spaces, procs, index, lock, shoot, running, cur, cr3, todo, calls>>

-----------------------------------------------------------------------------
Kernel(c) ==
  \/ svclock_lock(c) \/ AsFlag(c) \/ as_pin(c)
  \/ SwitchPublish(c) \/ SwitchLoad(c)
  \/ FlushSnapshot(c) \/ FlushPublish(c) \/ FlushDone(c)
  \/ Insert(c) \/ FreeCheck(c) \/ free_locked(c) \/ ReleaseFinish(c) \/ ProtectApply(c)
  \/ ShareEdge(c) \/ ShareView(c) \/ DropCheck(c) \/ DropView(c) \/ MoveOut(c) \/ MoveTake(c)
  \/ ScheduleLoop(c) \/ MapDevice(c) \/ Register(c) \/ MarkDead(c) \/ DestroyStep(c)

Calls(c) ==
  \E p \in {q \in Proc : todo[c] = <<>> /\ running[c] = q} :
    \/ \E b \in Block :
         \/ umem_alloc(c, p, b) \/ umem_free(c, p, b) \/ umem_map_device(c, p, b)
         \/ \E lo \in b.lo..b.hi - 1, f \in Prots : \E hi \in lo + 1..b.hi : umem_protect(c, p, b, lo, hi, f)
         \/ \E q \in Proc :
              \/ \E f \in Prots : umem_share(c, p, b, q, f)
              \/ umem_dropshare(c, p, b, q) \/ proc_sys_vm_move(c, p, b, q)
    \/ \E q \in Proc : process_create(c, q) \/ proc_sys_kill(c, q) \/ proc_sys_destroy(c, q)

Next ==
  \E c \in Cpu :
    \/ Kernel(c) \/ Calls(c) \/ tlb_service_local(c) \/ Wake(c) \/ Leave(c)
    \/ \E g \in Pages : TlbFill(c, g)

Spec == Init /\ [][Next]_vars

-----------------------------------------------------------------------------
(* Properties                                                              *)
Pending(a, g) ==
  \E c \in Cpu, i \in 1..12 :
    /\ i <= Len(todo[c])
    /\ LET s == todo[c][i] IN
       \/ s.s = "flag" /\ s.a = a /\ s.f \notin User /\ Covers(s, g)
       \/ s.s = "insert" /\ s.p = a /\ Covers(s.b, g)

\* The flag call on a that each CPU is about to make; pages count from 1.
Asked(a) ==
  [c \in Cpu |-> IF At(c, "flag") /\ Step(c).a = a
                 THEN [lo |-> Step(c).lo + 1, hi |-> Step(c).hi + 1, f |-> Step(c).f] ELSE None]

\* Every address space is the function its flag calls say: a call re-flags
\* exactly the range it was given, with exactly its flags, and splits of huge
\* leaves, merges and the reuse of slots change the access of no page outside
\* that range, whatever calls other CPUs make (install_leaf, try_merge_path,
\* as_flag).
FlatMap(a) == INSTANCE AddressSpace WITH
  Page <- 1..PageCount, Caller <- Cpu,
  map <- Flattened(root[a]), asked <- Asked(a), boot <- Flattened(root[KAS])
ImplementsFlatMap ==
  /\ \A a \in Space : FlatMap(a)!Init
  /\ [][\A a \in Space : (root'[a] = root[a] /\ Asked(a)' = Asked(a)) \/ FlatMap(a)!Next]_<<root, todo, lock>>

\* Ranges, pins and TLB entries stay in their domains, a process never has
\* a block both as its own and as a view (umem_move_locked), and the tables
\* stay minimal: nothing one leaf or one empty slot could stand for is kept
\* as a table (try_merge_path).
TypeOK ==
  /\ \A a \in Space : dirty[a].lo \in 0..PageCount /\ dirty[a].hi \in 0..PageCount /\ pins[a] \in 0..Cardinality(Cpu)
  /\ \A q \in Proc : nthreads[q] \in 0..ThreadMax /\ blocks[q] \cap views[q] = {}
  /\ lock \in [Proc \cup {G} -> Cpu \cup {None}]
  /\ need \subseteq Cpu /\ tlb \in [Cpu -> [Pages -> User \cup {"none"}]]
  /\ \A a \in Space : Compact(root[a])

\* A user right that a TLB still holds after the tree lost it is covered by
\* a dirty range that a flush has yet to take, by a flush between its
\* snapshot and its publication, or by an unacknowledged request: no right
\* is stale once its shootdown is over (as_flush_multi, as_switch).
StaleCovered ==
  \A c \in Cpu, g \in Pages :
    InUser(c) /\ tlb[c][g] \notin {"none", Flags(root[cr3[c]], g)} =>
      \/ Covers(dirty[cr3[c]], g)
      \/ \E d \in Cpu : (At(d, "flush") \/ At(d, "slot"))
                          /\ cr3[c] \in Step(d).ases /\ Covers(Step(d).range, g)
      \/ busy /\ c \in need /\ cr3[c] \in req.ases /\ Covers(req.range, g)

\* User access in a page table has a title in the process's indexes, or a
\* call that is still running will take it back or record it; and a frame
\* in the buddy allocator is user-accessible in no tree (umem.c).  Stated
\* with the type invariant.
AccessHasTitle ==
  /\ TypeOK
  /\ \A a \in Proc, b \in Block : \A g \in b.lo..b.hi - 1 :
       Flags(root[a], g) \in User =>
         /\ b \in blocks[a] \cup views[a] \/ Pending(a, g)
         /\ b \in Ram => frame[b] = "out"

\* An address space is given back only when no user or idle CPU has it in
\* CR3, none has it as current_as, and no call, flush or pin still names it
\* (proc_sys_destroy, as_pin).
NoUseOfFreedSpace ==
  \A c \in Cpu :
    /\ HasAs(cur[c]) /\ (todo[c] = <<>> => HasAs(cr3[c]))
    /\ \A i \in 1..Len(todo[c]) :
         /\ todo[c][i].s \in {"flag", "switch", "cr3"} => HasAs(todo[c][i].a)
         /\ todo[c][i].s \in {"flush", "slot"} => \A a \in todo[c][i].ases : HasAs(a)

\* No cycle of locks, the shootdown slot and the acknowledgements that a CPU
\* owes: while a call is in the kernel, some CPU can take its next step or
\* serve the request it owes an answer to (svclock_lock, as_flush_multi).
NoGridlock ==
  (\E c \in Cpu : todo[c] # <<>>) =>
    \E c \in Cpu :
      \/ c \in need /\ MayService(c)
      \/ todo[c] # <<>> /\ ~Waiting(c) /\ ~(At(c, "slot") /\ busy) /\ ~(At(c, "acks") /\ need # {})

\* "unmap/re-flag -> as_flush (all affected ASes) -> then free()": no TLB
\* holds a user right to a frame that is back in the buddy allocator.
NoStaleFrame ==
  \A c \in Cpu, b \in Ram : \A g \in b.lo..b.hi - 1 :
    InUser(c) /\ frame[b] = "buddy" => tlb[c][g] = "none"

=============================================================================
