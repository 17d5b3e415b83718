# govinDOS: a TLA+ model, its model checking and its proofs

This directory holds TLA+ modules that model the concurrent parts of govinDOS
(a single-address-space kernel in C, its C library and its user-space drivers),
the TLC configurations that check them on small instances, and TLAPS proofs of
what matters most for instances of any size. `PROJECT.json` lists the parts, the
runs, the theorems, the hazards and, for every definition, the source lines it
stands for.

    tlc -workers 2 -config Futex.cfg MCFutex         # one run
    tlapm FutexProofs.tla                            # one proof module

## The system and its modules

govinDOS has one address space: every process sees the same identity layout, and
isolation is which page tables carry user access to which block. Waiting is done
on 32-bit words (futexes), kernel events arrive in rings ("channels") inside
blocks the receiver owns, drivers are processes that hold capabilities, and a
parent tears its dead children down by enumerating what they hold.

| Module | Code | What it models |
| --- | --- | --- |
| `Futex` | `futex.c`, `thread.c`, parts of `scheduler.c`, `timer.c`, `process.c` | the claim protocol of parked threads between CPUs |
| `Scheduler` | `scheduler.c`, `timer.c`, `irq.c`, `scheduler_arch.c`, `lapic.c`, `interrupts.c` | run queues, idling, the reschedule IPI, the one-shot timer |
| `PageTable`, `AddressSpace` | `paging.c` | page tables as pure operators; what a flag call promises of a flat map |
| `Memory` | `umem.c`, `paging.c`, `process.c` | blocks, views, page tables, TLBs, locks and shootdowns of several CPUs |
| `Objects` | `process.c`, `umem.c`, `channel.c`, `schemes/`, `iommu.c`, `vtd.c` | the objects under `g_umem`: process tree, ownership, share edges, channels, IOMMU domains |
| `Reaper` | `gdos-init/init.c`, `gdoslib-dev/pe.c` | the parent's teardown of a dead process, over `Objects` |
| `Irq` | `capability.c`, `schemes/irq.c`, `ioapic.c`, `kring.c` | grants, interrupt routes, rings and their clients |
| `Pthread`, `PthreadLife` | `gdos-libc-dev/source/pthread.c` | synchronisation calls over the futex; create, join, detach, the reaper thread |
| `Locks` | the same | what the locks promise |
| `Buddy` | `buddy_allocator.c`, `allocator.c` | the page allocator's tree as pure operators, from the boot's memory map on |
| `Slab` | `slab_impl.h`, and `umem.c` as a client of the tree | the per-CPU slabs over `Buddy`: local and remote frees |
| `Pci`, `Driver`, `Nvmed` | `pcid.c`, `nvmed.c` | discovery; the life of a driver; the NVMe driver, its controller and its clients |

`MC*` modules instantiate them for TLC. `FutexProofs`, `SchedulerProofs`,
`PthreadLifeProofs`, `PthreadProofs`, `IrqProofs`, `ObjectsProofs`, `ReaperProofs` and
`DriverProofs` hold the proofs.

The modules meet at interfaces that one establishes and the other assumes.
`Pthread` takes the kernel's futex as "compare and enqueue in one step, wake and
requeue in arrival order", which is what `Futex` shows of the claim protocol
(`OneWinner`, `WaitInstalledWhole`, `FifoWake`). Its fairness is what `Scheduler`
shows of the quantum and of timed waits. `Objects` takes each handler under
`g_umem` as one step; `Memory` has the finer steps of the same handlers (page
tables, list locks, flushes outside the lock). `Irq` and `Driver` use the channels
of `Objects` and `Irq` as event queues.

### How state and actions correspond to the code

**Futex.** The actors are CPUs. The kernel runs with interrupts off, so a CPU is
on one kernel path at a time, named by `pc[c]`, and everything else interleaves
between CPUs. A step is one access another CPU can see: a compare-exchange on
`wake_state`, a load the code later acts on, or a whole section under one lock.
Locks are read off the program counters (`HeldBuckets`, `UmemFree`, `TimerFree`).
The sequence number of a wait key is kept as the order it induces (`older`), and
any armed deadline may be due. `UserStep` is a system call or interrupt of a
thread, `Dispatch` and `Cull` the scheduler loop, `KernelStep` the rest of a path.

**Scheduler.** A CPU takes an interrupt only where the code has interrupts on: at
the top of the loop, between `sti` and `hlt`, while halted and in user mode.
Times are what is left of them, and `Tick` counts them down; a shot is limited to
`LapicMax`, the 32-bit count of the local APIC.

**Memory.** A system call is the list `todo[c]` of kernel steps a CPU has left;
one step is a section under an address-space lock, an index edit, or the
acquisition of a lock that stays held. Page tables are trees (`PageTable`): leaves
of every size, splits, merges, clones. A TLB entry may be filled at any time from
CR3's tree and goes only by an invalidation. `tlb_service_local` acknowledges a
shootdown where the code can: in user mode and the idle loop by IPI, and while it
spins for a lock or for the shootdown slot.

**Objects and Reaper.** One action per handler. A thread passes the death
checkpoint in `syscall_dispatch` and runs its handler later, so a process may die
in between; `process_create` takes the lock twice and is two actions. An event
that does not fit in a ring stays due in the state it reports (`tree_due` and its
like) until a doorbell replays it. `Reaper` is the loop of `destroy_process`, one
system call a step, with its recursion as a stack.

**Irq.** A drain holds `g_umem` from its command to the replay, but a delivery
takes only the lock of its route, so each section under a route lock is an action
and interrupts arrive between the steps of a drain. A client owes a doorbell from
the moment it published a new head (`rung`). Grants narrow with 64-bit wrapping
addresses (`AddrMod`). The chain `token_resolve` walks and the descent of
`revoke_step` are the least sets closed under parent and first child, so that they
can be reasoned about for trees of any size. A client is careful or not
(`Careless`): a careful one does not claim a pin while events of an earlier claim of
that pin are unread in its ring.

**Pthread and PthreadLife.** Threads run fixed programs of calls. An action is
what a thread does between two accesses of a shared word; a loop of load and
compare-exchange whose failure only retries is one step on the value it finds.
Reclaiming a record unmaps it: a later access faults and ends the process.

**Buddy and Slab.** Every operation of the buddy allocator runs under
`g_allocator_lock`, so it is an operator from one tree to the next: the loops over
array indices are recursive functions over the nodes, in place of stores one by
one. `Slab` has one action per atomic operation on a page's word `thread_free` or on
an arena's `remote_ready`; the owner-only list work before it belongs to the step.
Lists linked through free objects are sequences, and a compare-and-swap compares
what the word holds, the state and the head, so a list that changed and came back
to its old head passes it, as in the code. A loop of load and swap that only the
owner can win or that only retries (`collect_available`, `collect_queued`) is its
last round. `umem` takes and returns blocks of the same tree at any time. Who
allocates, and which block orders `umem` takes, is a load (`Loads`) chosen at the
start. Which pages the boot keeps back is read off the memory map with the
displacement of `buddy_mark_unusable` stated (`Displacement`), next to the pages it
was asked to keep back (`Reserved`).

**Pci, Driver, Nvmed.** `scan_bus` is the depth-first walk as a recursive function
of the machine's registers. `pcid`, `nvmed`, the controller and the other
clients interleave; `nvmed` may die between any two steps, a kernel call may fail
wherever its caller tests for it, and the controller completes in any order and
possibly after `nvmed` has given up. `pe_destroy` may fail half-way: the views it
left keep `pcid`'s blocks from being freed, and the domain it left keeps the function
attached (`"orphaned"`), so that the next instance cannot map or attach it. The
firmware may have left an MSI enabled, which discovery does not clear.

## The runs

Passing runs:

| Run | Instance | What it shows |
| --- | --- | --- |
| `futex` | 2 CPUs, 3 threads of 2 processes, 2 words in 2 buckets | wakes, requeues in both directions, fused wakes, expiry, kill, destroy and reap race for parked threads: `OneWinner`, `WaitInstalledWhole`, `FreedUnreachable`, `WinnerAssertsHold`, `NoKernelDeadlock`, `FifoWake` |
| `futex_exit` | 2 CPUs, 3 threads, one joinable | spawn, join, exit, kill, yield: `NoStrandedJoiner`, `OneContext`; under fairness `DeadBecomesReapable`, `UnblockSpinEnds` |
| `sched_timer` | 1 CPU, 3 threads, waits of 1 and 2 ticks, batch 1, a shot shorter than the quantum | `ShotCoversDeadlines`; `TimerServes`: timed waits end and no thread keeps the CPU for ever |
| `pthread` | 21 programs, 3 threads | the locks implement `Locks` (`ImplementsLocks`), `NoEarlyReturn` (once, barrier), `ReclaimSafe`, `EveryCallReturns` (up to the two lost wakes below) |
| `memory` | 2 CPUs, 3 processes, 8 pages in 3 levels of 2, 3 calls | `StaleCovered`, `AccessHasTitle`, `NoUseOfFreedSpace`, `NoGridlock`, and every tree implements `AddressSpace` (`ImplementsFlatMap`: a flag call changes exactly the range it was given) |
| `objects` | init, two children, one pid to come, 4 blocks, one device, 3 calls | `IndexesAgree`, `NothingStranded`, `DmaOnlyOwned`, `DeadGainsNothing`, `ReapEnds` |
| `irq` | 2 rings, one careless client, a level pin, a message-signalled route, 4 grants, 3 commands | `RightsOnlyShrink`, `IrqNotStranded`, `FreedRingQuiet`, `RevokedStaysRevoked`, `LineServed` |
| `driver` | ~2000 machines of up to 3 buses, one restart, two clients beside `pcid`, a table of 2 | `EnabledOnlyIsolated`, `OkMeansDone`, `DiscoveryExact`, `RequestsAnswered` (known channels are answered, `pcid` returns to its loop unless `Stranded`, a dead driver is buried) |
| `slab` | 8 pages, 6 of them usable, in two loads: `umem` alone with blocks of 1, 2, 4 and 8 pages until the tree is empty; 3 CPUs, one of which allocates, slabs of 2 objects, and blocks of 1 and 2 pages | `ObjectsAccounted` (each object in one place, `used` exact), `PageFindable` (the self-test's `arena_valid` between any two steps), `TreeExact` (each node of the tree names the largest free block below it), `MallocReturns` |

Three runs end in a violation, where the code does not do what its own text says:

* `sched_idle` (`QueuedRuns`): `irq_enable` executes `sti` and returns, and
  `scheduler_arch_idle` executes `hlt`. A reschedule IPI taken between the two is
  consumed, and the CPU halts with a thread in its queue. The comments at
  `scheduler.c:61-62` and `interrupts.c:113-114` say such a CPU notices the push.
* `memory_stale` (`NoStaleFrame`): `as_flush_multi` returns at once when it finds
  nothing dirty (`paging.c:671`). If another CPU's flush of the same address space
  took the dirty range and is still waiting for acknowledgements, the freeing call
  returns its frame to the allocator while a TLB still grants user access to it.
  `memory-design.md:54-56` makes the flush before the free "part of the invariant".
  `StaleCovered`, which does hold, is the exact guarantee: a stale right is covered
  by a dirty range or by a flush that some CPU has yet to finish.
* `buddy_reserved` (`ReservedUnusable`): `buddy_mark_unusable`
  (`buddy_allocator.c:291-298`) writes to `heap[i + 2^(max_level - 1)]`, but the node
  of page `i` is `heap[i + 2^max_level - 1]`. A mark lands on another page or on an
  inner node, which `buddy_ready` overwrites, so pages of the firmware and of the
  allocator's own storage are handed out. `buddy_allocator.h:28` says "Mark page_ids in
  [min_page_id, max_page_id] (inclusive) as unusable." The `slab` run checks on the
  same map that the tree is exact about the pages the boot did leave usable.

Each property of a passing run has a mutant in `PROJECT.json`: a definition of the
model changed the way a plausible bug would change the code, under which TLC finds
the property violated.

### Bounds

Every bound is a constant. `CallMax`, `CmdMax`, `GrantMax`, `RaiseMax`,
`RequestMax` and `SpinMax` limit how many calls, commands, grants, interrupts,
requests and timeouts happen in one behaviour; three overlapping calls are enough
for a freeing call, a second flush and a switch, or for a kill between a checkpoint
and its handler with a teardown behind it. Batches (`WakeBatch`, `IrqBatch`), ring
slots and the client table are as small as lets them overflow: with `MAX_CLIENTS`
2 and two clients, the third channel, `pcid`'s own included, is dropped. A client
makes one request (`RequestMax`), of every kind between the two of them. Two CPUs and three
threads give every pair of paths of the claim protocol with a third party; the
proofs remove this bound. Page tables have three levels of two entries so that a
block can be cut out of leaves of two sizes. The tree of `slab` has four levels, and
its free blocks of two and of four pages make a split choose between subtrees and
descend two levels, and a free merge twice. Next to slabs at most two pages are in
use (`most` of the load), as few as let a page become full, be queued, empty, warm
and retired while a second one exists; two remote CPUs contend for a page's word and
for the ready list. Only one CPU allocates, since arenas share nothing but the tree,
which the blocks of user memory exercise. The three commands of `irq` are one too few
for a careless client to strand its pin (see Observations). No machine of `driver` has
two bridges that name one bus, or two MCFG allocations. `sched_timer` has one CPU;
what the CPUs do to each other is `sched_idle`'s and the proofs'. Symmetry is used for the CPUs
of `memory`, and for the CPUs and the threads of the child process in `futex`; the
properties of both runs are safety properties. Deadlock checking is off, since a
system whose programs have ended or whose bound is reached may stop; that it does
not stop otherwise is what `NoKernelDeadlock`, `NoGridlock` and the liveness
properties say.

### Fairness

Weak fairness of a CPU's kernel steps and of the dispatcher (`Futex`, `Scheduler`):
a CPU executes its next instruction. Strong fairness of `Yield` in `Futex`: a
thread in user mode is interrupted again and again, which `TimerServes` shows of
the timer. Strong fairness of taking a pending IPI or timer interrupt: interrupts
are held only while they are disabled, and the code enables them again and again.
Weak fairness of every thread's step (`PthreadLife`), of the reaper and of a dying
thread's way out (`Reaper`), of drains, deliveries and of a driver reading its ring
(`Irq`), of `pcid`, `nvmed` and the controller (`Nvmed`), of the rest of an
allocator call that has begun (`Slab`: kernel code is not preempted). No fairness is assumed of
kills, timeouts, failures, new calls or a client's choices. The spin locks are not
fair, and no property assumes that a particular waiter gets one while others
compete for it: `futex_exit` leaves out the calls that take `g_umem` in user-chosen
loops.

## The proofs

### The futex protocol (`FutexProofs`)

`Invariance` proves `Spec => []Inv` for any sets of CPUs, threads, words and
processes and any batch sizes, from the assumptions named in `Futex`. `TypeOK` and
the safety properties of the futex runs follow: `ClaimInv`, `OneWinner`,
`WaitInstalledWhole`, `FreedUnreachable`, `OneContext`, `WinnerAssertsHold`.

None of them is inductive. That a claim is won once depends on where each CPU is:
a thread may be PARKED while its own CPU has not finished switching away from it, a
CLAIMED thread may be in a batch, in the hands of an expiry, on its way through the
three stores of `thread_unblock_claimed`, or being destroyed, and each of these is
safe only because the others are excluded. So `Inv` conjoins `TypeOK`, the batch
limit and `ClaimInv`, which says for every thread that it is in exactly one place,
and for every CPU which threads it holds there:

* `Context(c)`: what a program counter implies about the current thread and `tgt`;
* `Once`: run queues and batches hold no thread twice;
* `Holding(c, t)`: in which of the roles running, queued, batched, won, target a
  CPU has a thread, and what the thread's fields are in that role;
* `Apart(t)`: no two CPUs have a thread in exclusive roles;
* `Wait(t)`, `Accounted(t)`: node, deadline entry and `wake_state` agree, and a
  claimed thread has somebody who will finish it.

The module proves first what a step leaves alone, then that each action keeps
`Inv`, in the order of what the action moves: the control of a CPU, a wait, the
life of a thread, a claim batch, a run queue; each lemma handles one action and one
conjunct at a time. `Invariance` combines them.

Two more theorems stand on `Inv` and on an invariant of their own:

* `FifoWakeCorrect` proves the action property `FifoWake`. A scan visits waiters in
  order and passes those it cannot claim; that none of these becomes claimable again
  behind its back is `ScanInv`: CPUs hold disjoint buckets, a scan starts with nothing
  visited, and a visited waiter of the scanned word is not PARKED while the scan holds
  the bucket.
* `NoStrandedJoinerCorrect` proves `[]NoStrandedJoiner` from `[]OneJoiner`: at most one
  thread is parked on a completion word when it is published, and nobody is requeued
  onto one. `pthread_join` admits one joiner by exchanging JOINABLE for JOINING
  (`pthread.c:384-388`), and only a condition variable requeues, onto a mutex. The
  kernel wakes one waiter at a completion, so without this a second joiner would stay.
  `JoinInv` says that a joiner parked on a complete word is still ahead of a publisher
  that has woken nobody. The programs of `futex_exit` satisfy `OneJoiner`.

### The scheduler and the timer (`SchedulerProofs`)

`PushIsAnnounced` and `ShotCovers` prove `PushAnnounced` (until a CPU
that has marked itself idle enables interrupts, a thread queued on it is announced by
an IPI that is pending or about to be sent; `sched_idle` shows what happens then) and
`ShotCoversDeadlines` for any number of CPUs and threads, any waits, quantum, batch and longest shot
(`SchedulerAssumption`). The invariant is

    IInv == TypeOK /\ Timers /\ Control /\ PushAnnounced

`Timers` says that the deadlines of a CPU are in order and that its shot is due no
later than each of them and than the quantum (or is a tick away): the code
reprograms only when a new deadline is the first, so that the others are covered
follows from the order. `Control` ties a CPU's place to its queue of pushes, its
pending IPI and its idle mark. The lemmas before it are about the operators: what
`Program` returns, and that inserting, cancelling and expiring keep the order.

### The C library's threads (`PthreadLifeProofs`, `PthreadProofs`)

`LocksRefined` proves that `Pthread` implements `Locks` for any finite set of
threads and any programs, provided reader-writer and spin locks are unlocked by
their holders (`WellUsed`; the code does not check it). `LocksExclude` derives
mutual exclusion. The invariant relates the words to who holds what: the mutex word
is 0 exactly when nobody holds the mutex, `rw` counts the readers or is -1 for a
writer, the spin word is set exactly when somebody holds it.

`ReturnsInTime` proves `NoEarlyReturn` (no `pthread_once` returns before the routine
has run, no barrier before all have arrived) and `ReclaimIsSafe` proves
`ReclaimSafe`, for any programs that meet `ProgramsAssumption`: a thread creates,
joins or detaches another one that is not there from the start, and as many threads
use the barrier as it was made for. The invariant is

    IInv == Ctl /\ Words /\ OnceInv /\ BarrierInv /\ LifeInv

* `Ctl`, `Words`: a thread is at a place of the call its program is at; types.
* `OnceInv`: the word is 1 from the moment one thread owns the routine until it has
  run, and one thread owns it.
* `BarrierInv`: a thread has entered as many rounds as are complete, or one more and
  is inside; `count` is the number of those; the thread that closes the round is
  alone. This is where the number of users matters (see Observations).
* `LifeInv`: the right to free a record is a token. For a joinable thread its one
  joiner has it, for a detached one the thread that is about to queue the record,
  the reaper's list or the reaper, and only one of them; `complete` comes first.

### Grants, routes and rings (`IrqProofs`)

`RightsShrink`, `RevokedForGood`, `FreedIsQuiet` and `NotStranded` prove
`RightsOnlyShrink`, `RevokedStaysRevoked`, `FreedRingQuiet` (with `TypeOK`) and
`IrqNotStranded` for any sets of rings and routes, any roots, requests, slots and
bounds, from the assumptions named in `Irq`. The invariant is `GrantInv /\ RingInv`:

* `GrantInv`: an id above `issued` is unused; a grant that exists is a wildcard root
  or lies below a grant that exists, within that one's right, and its range does not
  wrap. Over a chain this gives `RightsOnlyShrink`, since `Within` is transitive. A
  revocation keeps it because it deletes leaves only; for the same reason the dead
  grant above a grant outlives it, and with ids that are never used again nothing
  is revived. The chain is compared before and after a step as least closed sets,
  without induction.
* `Typed`, `Control`: types; which client the holder of `g_umem` works for, and what
  each client owes.
* `Freed`: a ring whose owner is gone has neither claims nor CQEs, or its teardown is
  under way and has the remaining claims before it.
* `Announced`: a route with something to announce and room in its CQ is still to be
  replayed by the running drain of its ring, or its client owes a doorbell. Only with
  the drain's place in it does this hold between the steps of a drain.
* `Numbered`: for a pin of a careful client, every number on its way to `acked` (in
  the CQ, in the client's hands, in the drain) is at most `raised`, so that a delivery
  never makes the two equal while the input is masked.

One lemma proves the effect of `post_pending` (`PostStep`), which delivery, ack and
replay share, and one the effect of giving or taking a claim (`RouteStep`); each
action has a lemma over them.

### Kernel objects (`ObjectsProofs`, `ReaperProofs`)

`IndexesAgreeCorrect`, `NothingStrandedCorrect`, `DmaOnlyOwnedCorrect` and
`DeadGainsNothingCorrect` prove the four safety properties of the `objects` run for
any number of processes, threads, blocks, devices, cookies and queue slots and for any
tree that init boots with, from `ObjectsAssumption` and `ReaperAssumption`. The
invariant is `KInv /\ ReaperInv` with

    KInv == IndexesAgree /\ TreeInv /\ BlockInv /\ NothingStranded

* `TreeInv`: a process with a thread has its address space, one that lost it is dead,
  a pid not handed out is fresh, and a thread between the two halves of
  `process_create` alone knows the child it is linking. Without it a kill between the
  halves could leave an index pointing at a process that is being torn down.
* `BlockInv`: a block without an owner is no ring, and no domain maps it. With
  `Mappings` and `Attachments` of `IndexesAgree` this is `DmaOnlyOwned`.
* `ReaperInv`: while the loop of `destroy_process` is past its test, the process on top
  of its stack is dead and registered, and the block in hand is a block.

`NothingStranded` is inductive only together with the indexes: a death, a share, a
revocation or a fault makes an event due on a ring found through an anchor or a
context entry, and the doorbell's replay posts what is due on exactly that ring.

`ObjectsProofs` has what each handler keeps: lemmas about the operators (`DeadGrows`:
what is dead stays dead; `RemoveOne`: unlinking leaves the others once; `Posted`: a
replay posts in order what fits), frame lemmas by group of variables, and one lemma
per handler or per effect that handlers share (dropping an edge, freeing a block,
replaying a ring). `ReaperProofs` does the same for the reaper's calls and derives the
theorems. That a process is dead is a closed set of ancestors rather than a recursive
walk, so that it can be reasoned about for a tree of any depth.

### A driver's isolation (`DriverProofs`)

`EnabledOnlyIsolatedCorrect` proves `EnabledOnlyIsolated` for any machine, queue size,
set of clients and requests: wherever bring-up fails, whenever `nvmed` dies and
whether or not it can be destroyed, the function masters the bus only behind an
attached domain of a driver that is not yet destroyed, and an interrupt that it can
send or that `pcid` programmed carries the message of the present instance. No
assumption on the constants is needed. The invariant is

    IsolationInv == Shapes /\ EnabledOnlyIsolated /\ Places /\ Routes

* `Places`: what `pcid`'s place in the bring-up and the burial implies. Before a spawn
  and after `destroy_child` there is no instance, bus mastering is off and no message
  of `pcid`'s is unmasked (`Armed`; the firmware's may be); once a message
  is programmed the domain is attached; the burial has masked the interrupt before it
  resets the controller and cleared bus mastering before it destroys the child.
* `Routes`: `nvmed` reports a route only from an attached domain, and the route in the
  setup page is the present instance's. A setup page of a dead instance may still hold
  a count of routes: that nobody reads it before the next spawn zeroes it is why the
  conjunct speaks only of instances not destroyed.
* `Shapes`: the records have the fields read here.

Each step of `nvmed` past its bring-up is a `Serving` step, which the invariant
survives whatever the queues, the table and the requests are.

### Model-checked only

Liveness (`DeadBecomesReapable`, `UnblockSpinEnds`, `TimerServes`,
`EveryCallReturns`, `ReapEnds`, `LineServed`, `RequestsAnswered`, `MallocReturns`) and
deadlock freedom: fairness and enabledness are out of the prover's reach. What the
recursive definitions compute (page-table walk, split and merge, the buddy tree, bus
scan): induction over data is out of reach. `NoKernelDeadlock` says that some step is
enabled. The invariants of `Memory` and `Slab` stand on page tables and buddy trees
that recursive operators compute, and `DiscoveryExact` on the recursive bus scan.
`TypeOK` of `Nvmed` bounds a client table that a recursive function fills, and
`OkMeansDone` holds because fewer commands are given up than there are identifiers
before they wrap. All of these are checked on the instances above.

## Observations

Modelling met further places where the code and its text or its intent part. They
are in the models; no run is about them.

* `scheduler.c:156-163` reads `prev->status` after it released `on_cpu`. A thread
  that is woken, dispatched and exits elsewhere in between is disposed of twice,
  against the assert at `process.c:114-116`.
* `process.c:393-399` loads `on_cpu`, `status` and `wake_state` of a sibling one
  after the other; a timeout between the loads lets it run and park again, and its
  TCB is freed while it is on a CPU.
* `process_create` (`process.c:44-66`) links a child to a parent that died after the
  checkpoint; `PROC_DESTROY` then refuses the parent and `pe_destroy` gives up,
  against `enumeration-design.md:628-629`. It also registers the pid before the
  child index, and clones the kernel's tree without the device aliases that
  `umem_map_device` put into the extant ones (`umem.c:246-248`).
* `ack` (`schemes/irq.c:191-206`) stores the number it is given, and a pin's id has no
  generation. A client that releases a pin and claims it again with an event of the
  first claim unread acks the second claim with that event's number. `raised` may then
  reach `acked` with the input masked: nothing is owed, nothing is posted, and a level
  interrupt waits for good if the CQ was full at that ack. `IrqNotStranded` and
  `LineServed` are stated for clients that read their ring first (`Careless` names the
  others; with four commands instead of three TLC finds the case without it). The
  routes of message-signalled interrupts have generations and are not affected.
* `pthread_cond_broadcast` moves all waiters but one to the mutex word. A moved waiter
  that an unlock wakes returns from its futex wait into `pthread_mutex_lock`, whose
  trylock may take the mutex as 1, so that its own unlock wakes nobody and whoever is
  queued behind it stays parked. The comment at `pthread.c:597-599` says that a
  contender "always acquires as 2 after a wait". `EveryCallReturns` excepts the threads
  parked on the mutex after such a broadcast (`BehindMoved`).
* `pthread_rwlock_rdlock` and `_wrlock` load the state again after EBUSY and sleep on
  what they find (`pthread.c:867-870`, `:890-893`). If the holder unlocked, and woke
  nobody, in between, they find 0, and even a single waiter parks on a free lock until
  somebody else locks and unlocks it. `EveryCallReturns` excepts exactly the threads
  that slept on a state that would have let them in (`SleptOnFree`).
* `pthread_barrier_wait` resets `count` before it advances `generation`: with more
  threads than `trip_count`, one that arrives in between passes alone. The programs
  here have as many threads as the count.
* The creator of a detached thread touches its record after the spawn
  (`pthread.c:372-375`), when it may be reclaimed already; `pthread_detach` too. The
  model's access faults; the code's may also find the record of a later thread at the
  same address.
* `pcid` waits for `QUEUES_READY` and for a block answer without a deadline
  (`pcid.c:214-225`, `:496-519`) and reads child-death events only in its loop: a
  driver that dies before is not disabled or destroyed, against
  `pci-design.md:441-444`. `RequestsAnswered` names this (`Stranded`) and shows that
  `pcid` comes back from everything else.
* `driver_died` goes on when `pe_destroy` fails (`pcid.c:677-704`): its `sys_vm_free`
  calls then fail unnoticed, `g_driver` is cleared, and the restart stops at the BAR
  that is mapped already or at the function that is still attached.
* `nvmed` reuses its bounce buffer and its identifiers after a timeout
  (`nvmed.c:234-309`): once a command was given up, a late completion makes the next
  answers `IO` and a late transfer may overwrite the buffer. The data part of
  `OkMeansDone` is stated for instances that gave up on nothing.
* When `MAX_CLIENTS` shares precede it, `pcid`'s own channel finds the table full
  and is dropped (`nvmed.c:311-331`, `:364-371`), and its block test waits for ever
  (the other case of `Stranded`). A channel with a bad header is ignored, also when its
  header is corrected later, unless it is shared again. Functions beyond `MAX_FUNCTIONS`
  are not silenced (`pcid.c:316`), and a second NVMe function overwrites `g_driver`.
* A process killed twice, or killed while it exits, is announced to its parent more
  than once; one whose last thread removes itself through `thread_destroy` never
  passes the natural-death test.
* `iommu_report_fault` holds `g_fault_lock` alone while `find_device` (`iommu.c:111-121`,
  `:236`) walks the lists of domains and devices, which attach, detach and the teardown
  of a domain change and free under `g_umem` (`iommu.c:155-166`, `:204`, `:224-225`,
  `:445-447`). The walk may meet a freed entry, or miss the domain, in which case the
  fault is counted but posted only with a later one or a replay. `Objects` takes the
  report as one step under `g_umem`; what it shows of faults (`NothingStranded`) is
  shown without this race.
* The buddy allocator's heap is sized by the first page of the highest free region
  (`allocator.c:21-29`), not by its last.
* `slab_collect` (`slab_impl.h:672-693`), which only the self-tests call, puts a page
  that a racing remote free has QUEUED on the partial list when its owner had freed
  an object into it, although its comment says such pages "must stay off the
  allocation lists". Once such a page is active and out of room, `malloc_slow` can
  neither swap it to FULL nor collect it and loops.
* Page-table pages are given back before the shootdown that covers them, and
  between CR3's load and the store of `current_as` (`scheduler.c:106-108`,
  `paging.c:560-561`) a shootdown does not target the CPU.

## Not modelled

* Boot, CPU bring-up, ACPI and EFI tables, PE and CPIO loading: straight-line code
  on one CPU over byte layouts, with nothing for a model checker to interleave.
* Register programming of VT-d, LAPIC and IOAPIC beyond the mask bits, the one-shot
  and the context entries: hardware I/O. Cache invalidation of VT-d is taken as
  synchronous.
* Of the process calls: a pid named by a process that is not its parent between its
  registration and its link to the parent (`process.c:58-63`); in `Objects` a pid can
  be named once it is a child. `PROC_DESTROY` issued by a parent other than the
  one whose reaper runs (`process.c:424`): one process tears down at a time.
* Trees, lists, formatting and string functions: sequential code under a lock or
  without shared state. Of the allocators: `slab_collect`, `slab_valid` and
  `slab_destroy` (self-tests only), `realloc`, and marks past the end of the tree.
  `Memory` knows only whether a block is with the buddy allocator; which pages it
  is made of is `Slab`'s side.
* Memory ordering weaker than sequential consistency; x86 and the code's
  acquire/release pairs leave store buffering, which none of the modelled paths
  relies on.
* Of `pthread.c`: thread-specific data, cancellation, attributes, clock conversion.
  Of `pcid`: BAR sizing, more than one NVMe function, `PCI_DRIVER_STOP` (never
  sent). Of `init`: respawning `pcid`. Of `nvmed`: PRP lists, `wait_irq_event`.
* Wrap-around of 64-bit ids and of ring counters, which takes more steps than any
  instance has; the 16-bit route generation and the command identifiers (those
  of the admin queue, within the bounds) do wrap in the models.
