------------------------------ MODULE Objects ------------------------------
(***************************************************************************)
(* The kernel objects that live under the umem control-plane lock g_umem:  *)
(* the process tree and its death marks (process.c), block ownership and   *)
(* share edges (umem.c), kernel channels with the shares and tree schemes  *)
(* (channel.c, schemes/), and the IOMMU domains with the VT-d structures   *)
(* behind them (iommu.c, vtd.c).                                           *)
(*                                                                         *)
(* A handler holds g_umem from its checks to its last store, so each one   *)
(* is one action; process_create takes the lock twice and is two.  The     *)
(* IOMMU fault interrupt runs under its own lock and is an action of its   *)
(* own.  A thread checks that its process is alive when it enters the      *)
(* kernel and runs its handler later: the process may die in between.      *)
(* Page tables and shootdowns under these handlers are in Memory.tla.      *)
(***************************************************************************)
EXTENDS Integers, Sequences, FiniteSets, Functions

CONSTANTS
    Proc,       \* pids, in the order g_next_pid hands them out
    First,      \* init: its death is a panic
    Thread,     \* TCBs
    Block,      \* bases the buddy allocator can hand out
    Requester,  \* PCI functions, as requester ids
    Cookie,     \* domain cookies a driver uses, positive
    Nil,
    Slots,      \* CQ slots of a ring
    CallMax     \* bound: nondeterministic system calls in a behaviour

ASSUME ObjectsAssumption ==
    /\ Proc \subseteq Nat /\ First \in Proc
    /\ Slots \in Nat \ {0} /\ CallMax \in Nat
    /\ Nil \notin Proc \cup Thread \cup Block \cup (Block \X Cookie)
    /\ IsFiniteSet(Thread)

VARIABLES
    reg,        \* g_procs, and whether the AS is still there
    parent, children, dead, told,
    threads,    \* the thread index of each process
    tcb,        \* [proc, at, arg, done]: where each thread is
    owner, sharers, views, pending, pins, ring, anchor,
    cq,         \* CQEs posted and not consumed, per ring block
    rung,       \* FALSE: the owner published a new cq_head and owes a doorbell
    domain,     \* domains of each ring: cookie -> [devices, mappings]
    context, slpt,  \* VT-d: context entries and second-level tables
    dma_maps,   \* the block-side index of the mappings
    fault,      \* g_fault_devices and the event state of each device
    calls

procVars == <<reg, parent, children, dead, told>>
threadVars == <<threads, tcb, pins>>
blockVars == <<owner, sharers, views, pending>>
chanVars == <<ring, anchor, cq, rung>>
iommuVars == <<domain, context, slpt, dma_maps, fault>>
kernelVars == <<procVars, threadVars, blockVars, chanVars, iommuVars>>

Scheme == {"shares", "tree", "iommu"}
Domain == Block \X Cookie       \* a domain is named by its ring and cookie

-----------------------------------------------------------------------------
\* The process tree.

\* A walk along the parent links does not leave S.
Upward(S) == \A x \in S : parent[x] # Nil => parent[x] \in S

\* The walk from p meets a mark: p is in no set of unmarked processes that the walk
\* does not leave.
process_is_dead(p) ==
    ~\E S \in SUBSET {a \in Proc : ~dead[a]} : p \in S /\ Upward(S)

\* The walk from p cannot miss q.
Below(p, q) == p # q /\ ~\E S \in SUBSET (Proc \ {q}) : p \in S /\ Upward(S)

\* Mutant: the lookup forgets the death mark.
proc_lookup_any(p) == reg[p] # "none"
proc_lookup(p) == reg[p] # "none" /\ ~process_is_dead(p)

\* Every process from the target up to, but not including, the caller is dead.
DeadUpTo(p, q) ==
    Below(p, q) /\ \A a \in Proc : a = p \/ (Below(p, a) /\ Below(a, q)) => process_is_dead(a)

process_reaper_authorized(caller, target) ==
    reg[target] # "none" /\ DeadUpTo(target, caller)

resource_authorized(caller, p) ==
    caller = p \/ process_reaper_authorized(caller, p)

-----------------------------------------------------------------------------
\* Kernel channels.

Event(type, a) == [type |-> type, a |-> a]
Events(type, es) == [i \in DOMAIN es |-> Event(type, es[i])]
Done == Event("done", Nil)
Room(q) == Slots - Len(q)
ring_post(q, e) == IF Room(q) > 0 THEN Append(q, e) ELSE q
Fits(q, es) == IF Len(es) < Room(q) THEN Len(es) ELSE Room(q)

\* The level state a scheme still has to announce.
tree_due(p) == {c \in children[p] : dead[c] /\ ~told[c]}

\* The order in which a replay over the queue q posts what is due: until nothing
\* is left, or no room.
Posts(q, due) ==
    {es \in UNION {[1 .. n -> due] : n \in 0 .. Room(q)} :
        IsInjective(es) /\ (Len(es) = Room(q) \/ Range(es) = due)}

Attached(dom) == UNION {dom[d].devices : d \in Domain}
OnRing(dom, b) == UNION {dom[<<b, c>>].devices : c \in Cookie}
NoFault == [due |-> FALSE, posted |-> FALSE]

\* ring_replay of ring b over the queue q, completions already in it: the events
\* that fit are posted and their level state is cleared.
ReplayShares(b, q) ==
    LET p == owner[b]
        n == Fits(q, pending[p])
    IN  /\ cq' = [cq EXCEPT ![b] = q \o Events("share", SubSeq(pending[p], 1, n))]
        /\ pending' = [pending EXCEPT ![p] = SubSeq(@, n + 1, Len(@))]
        /\ UNCHANGED <<told, fault>>

ReplayTree(b, q) ==
    LET due == tree_due(owner[b])
        InPidOrder(es) == \A i \in DOMAIN es, c \in due :
                             c < es[i] <=> \E j \in 1 .. i - 1 : es[j] = c
    IN  /\ \E es \in Posts(q, due) :
              /\ InPidOrder(es)
              /\ cq' = [cq EXCEPT ![b] = q \o Events("dead", es)]
              /\ told' = [c \in Proc |-> told[c] \/ c \in Range(es)]
        /\ UNCHANGED <<pending, fault>>

\* A posted fault event is retired when the user has consumed its CQE; a device
\* that was detached has no event state.
ReplayIommu(b, q) ==
    LET on == OnRing(domain', b)
        out == {v \in on : fault[v].posted /\ Event("fault", v) \in Range(q)}
    IN  /\ \E es \in Posts(q, {v \in on \ out : fault[v].due}) :
              /\ cq' = [cq EXCEPT ![b] = q \o Events("fault", es)]
              /\ fault' = [v \in Requester |->
                              CASE v \in on -> [due |-> fault[v].due /\ v \notin Range(es),
                                                posted |-> v \in out \cup Range(es)]
                                [] v \notin Attached(domain') -> NoFault
                                [] OTHER -> fault[v]]
        /\ UNCHANGED <<pending, told>>

\* Mutant: a drain that forgets the replay.
ring_replay_skipped(b, scheme, q) ==
    cq' = [cq EXCEPT ![b] = q] /\ UNCHANGED <<pending, told, fault>>
ring_replay(b, scheme, q) ==
    \/ scheme = "shares" /\ ReplayShares(b, q)
    \/ scheme = "tree" /\ ReplayTree(b, q)
    \/ scheme = "iommu" /\ ReplayIommu(b, q)

-----------------------------------------------------------------------------
\* Death.

\* Descendants of a dead process need no mark; init must not die.
mark_dead(p) ==
    /\ p # First
    /\ dead' = IF process_is_dead(p) THEN dead ELSE [dead EXCEPT ![p] = TRUE]

channel_child_dead_notify(par, p) ==
    LET r == anchor[par].tree IN
    IF r # Nil /\ Room(cq[r]) > 0
    THEN /\ cq' = [cq EXCEPT ![r] = ring_post(@, Event("dead", p))]
         /\ told' = [told EXCEPT ![p] = TRUE]
    ELSE UNCHANGED <<cq, told>>

notify_parent(p) ==
    IF process_is_dead(parent[p])
    THEN told' = [told EXCEPT ![p] = TRUE] /\ UNCHANGED cq
    ELSE channel_child_dead_notify(parent[p], p)

Die(p) ==
    /\ mark_dead(p)
    /\ notify_parent(p)
    /\ UNCHANGED <<reg, parent, children, blockVars, ring, anchor, rung, iommuVars>>

-----------------------------------------------------------------------------
\* Threads.

NoThread == [proc |-> Nil, at |-> "none", arg |-> Nil, done |-> Nil]
Me(t) == tcb[t].proc
Call(t) == tcb[t].at = "kernel"
Return(t) == tcb' = [tcb EXCEPT ![t].at = "user"] /\ UNCHANGED <<threads, pins, calls>>

\* The entry checkpoint of a system call; the handler runs in a later step.
syscall_dispatch(t) ==
    /\ tcb[t].at = "user" /\ ~process_is_dead(Me(t)) /\ calls < CallMax
    /\ tcb' = [tcb EXCEPT ![t].at = "kernel"]
    /\ calls' = calls + 1
    /\ UNCHANGED <<procVars, threads, pins, blockVars, chanVars, iommuVars>>

\* The dispatch and interrupt checkpoints cull the threads of the dead.
Checkpoint(t) ==
    /\ tcb[t].at = "user" /\ process_is_dead(Me(t))
    /\ tcb' = [tcb EXCEPT ![t].at = "leaving"]
    /\ UNCHANGED <<procVars, threads, pins, blockVars, chanVars, iommuVars, calls>>

Park(t) ==
    /\ Call(t)
    /\ tcb' = [tcb EXCEPT ![t].at = "parked"]
    /\ UNCHANGED <<procVars, threads, pins, blockVars, chanVars, iommuVars, calls>>

\* A futex wake makes the thread runnable again.
Wake(t) ==
    /\ tcb[t].at = "parked"
    /\ tcb' = [tcb EXCEPT ![t].at = "user"]
    /\ UNCHANGED <<procVars, threads, pins, blockVars, chanVars, iommuVars, calls>>

thread_exit(t) ==
    /\ Call(t) /\ (Me(t) = First => Cardinality(threads[First]) > 1)
    /\ tcb' = [tcb EXCEPT ![t].at = "leaving"]
    /\ UNCHANGED <<procVars, threads, pins, blockVars, chanVars, iommuVars, calls>>

proc_sys_process_exit(t) ==
    /\ Call(t) /\ Die(Me(t))
    /\ tcb' = [tcb EXCEPT ![t].at = "leaving"]
    /\ UNCHANGED <<threads, pins, calls>>

\* The TCB u is disposed of: its completion pin, its index entry, its memory.
DropThread(u) ==
    LET b == tcb[u].done
    IN  /\ pins' = IF b = Nil THEN pins ELSE [pins EXCEPT ![b] = @ - 1]
        /\ threads' = [threads EXCEPT ![Me(u)] = @ \ {u}]

process_thread_exited(t) ==
    /\ tcb[t].at = "leaving"
    /\ DropThread(t) /\ tcb' = [tcb EXCEPT ![t] = NoThread]
    /\ IF threads[Me(t)] = {t} /\ ~process_is_dead(Me(t))
       THEN Die(Me(t))
       ELSE UNCHANGED <<procVars, blockVars, chanVars, iommuVars>>
    /\ UNCHANGED calls

\* A completion block must be private, RAM and no channel; it is then pinned.
proc_sys_thread_spawn(t, q, u, b) ==
    /\ Call(t) /\ proc_lookup(q) /\ (q = Me(t) \/ parent[q] = Me(t))
    /\ tcb[u] = NoThread
    /\ b # Nil => q = Me(t) /\ owner[b] = q /\ ring[b] = "none" /\ sharers[b] = {}
    /\ pins' = IF b = Nil THEN pins ELSE [pins EXCEPT ![b] = @ + 1]
    /\ threads' = [threads EXCEPT ![q] = @ \cup {u}]
    /\ tcb' = [tcb EXCEPT ![t].at = "user",
                          ![u] = [proc |-> q, at |-> "user", arg |-> Nil, done |-> b]]
    /\ UNCHANGED <<procVars, blockVars, chanVars, iommuVars, calls>>

proc_sys_kill(t, q) ==
    /\ Call(t) /\ proc_lookup(q) /\ Below(q, Me(t))
    /\ Die(q) /\ Return(t)

\* Mutant: a parked thread is not claimed for its reaper, only an exited one is.
DestroyableExited(u) == tcb[u].at = "leaving"

\* Only a thread that is off its CPU and parked can be destroyed, by a sibling
\* or, once its process is dead, by the process's reaper.
Destroyable(u) == tcb[u].at = "parked"
proc_sys_thread_destroy(t, q, u) ==
    /\ resource_authorized(Me(t), q) /\ u \in threads[q] /\ Destroyable(u)
    /\ DropThread(u)
    /\ tcb' = [tcb EXCEPT ![u] = NoThread, ![t].at = "user"]
    /\ UNCHANGED <<procVars, blockVars, chanVars, iommuVars, calls>>

-----------------------------------------------------------------------------
\* Process bodies.

Unused(c) == parent[c] = Nil /\ c # First

\* process_create enters the pid index under one hold of g_umem ...
process_create(t, c) ==
    /\ Call(t) /\ Unused(c) /\ \A d \in Proc : Unused(d) => c <= d
    /\ reg' = [reg EXCEPT ![c] = "live"]
    /\ parent' = [parent EXCEPT ![c] = Me(t)]
    /\ tcb' = [tcb EXCEPT ![t].at = "creating", ![t].arg = c]
    /\ UNCHANGED <<children, dead, told, threads, pins, blockVars, chanVars, iommuVars, calls>>

\* ... and the parent's child index under the next.
process_created(t) ==
    /\ tcb[t].at = "creating"
    /\ children' = [children EXCEPT ![Me(t)] = @ \cup {tcb[t].arg}]
    /\ tcb' = [tcb EXCEPT ![t].at = "user", ![t].arg = Nil]
    /\ UNCHANGED <<reg, parent, dead, told, threads, pins, blockVars, chanVars, iommuVars, calls>>

Owned(p) == {b \in Block : owner[b] = p}
HasResources(q) ==
    Owned(q) # {} \/ views[q] # {} \/ children[q] # {} \/ threads[q] # {}

\* PROC_DESTROY frees the address space in one call and the body in the next.
proc_sys_destroy(q) ==
    /\ ~HasResources(q)
    /\ IF reg[q] = "live"
       THEN reg' = [reg EXCEPT ![q] = "bare"] /\ UNCHANGED children
       ELSE /\ reg' = [reg EXCEPT ![q] = "none"]
            /\ children' = [children EXCEPT ![parent[q]] = @ \ {q}]
    /\ UNCHANGED <<parent, dead, told, threadVars, blockVars, chanVars, iommuVars, calls>>

-----------------------------------------------------------------------------
\* Blocks and share edges.

umem_alloc(t, b) ==
    /\ Call(t) /\ owner[b] = Nil
    /\ owner' = [owner EXCEPT ![b] = Me(t)]
    /\ Return(t)
    /\ UNCHANGED <<procVars, sharers, views, pending, chanVars, iommuVars>>

\* The edge is linked as pending, then announced if the CQ has room.
umem_share(t, b, q) ==
    /\ Call(t) /\ owner[b] = Me(t) /\ proc_lookup(q) /\ q # Me(t)
    /\ ring[b] = "none" /\ pins[b] = 0 /\ q \notin sharers[b]
    /\ sharers' = [sharers EXCEPT ![b] = @ \cup {q}]
    /\ views' = [views EXCEPT ![q] = @ \cup {b}]
    /\ LET r == anchor[q].shares IN
       IF r # Nil /\ Room(cq[r]) > 0
       THEN cq' = [cq EXCEPT ![r] = ring_post(@, Event("share", b))] /\ UNCHANGED pending
       ELSE pending' = [pending EXCEPT ![q] = Append(@, b)] /\ UNCHANGED cq
    /\ Return(t)
    /\ UNCHANGED <<procVars, owner, ring, anchor, rung, iommuVars>>

\* A list without its i-th entry.
RemoveAt(s, i) == SubSeq(s, 1, i - 1) \o SubSeq(s, i + 1, Len(s))

\* Mutant: the edge stays on its receiver's pending list.
StillLinked(q, b) == pending
Unlinked(q, b) ==
    [pending EXCEPT ![q] = IF b \in Range(@)
                           THEN RemoveAt(@, CHOOSE i \in DOMAIN @ : @[i] = b) ELSE @]

\* One edge goes: the view index, the pending list and the sharer index.
DropEdge(b, q) ==
    /\ views' = [views EXCEPT ![q] = @ \ {b}]
    /\ pending' = Unlinked(q, b)
    /\ sharers' = [sharers EXCEPT ![b] = @ \ {q}]
    /\ UNCHANGED <<procVars, owner, chanVars, iommuVars>>

umem_dropshare(p, b, q) ==
    /\ reg[q] # "none" /\ resource_authorized(p, q) /\ b \in views[q]
    /\ DropEdge(b, q)

umem_unshare(p, b, q) ==
    /\ owner[b] # Nil /\ resource_authorized(p, owner[b])
    /\ reg[q] # "none" /\ q \in sharers[b]
    /\ DropEdge(b, q)

\* The receiver's own view of the block, if it had one, becomes ownership.
proc_sys_vm_move(t, b, q) ==
    /\ Call(t) /\ proc_lookup(q) /\ parent[q] = Me(t)
    /\ owner[b] = Me(t) /\ ring[b] = "none" /\ dma_maps[b] = {} /\ pins[b] = 0
    /\ owner' = [owner EXCEPT ![b] = q]
    /\ views' = [views EXCEPT ![q] = @ \ {b}]
    /\ pending' = Unlinked(q, b)
    /\ sharers' = [sharers EXCEPT ![b] = @ \ {q}]
    /\ Return(t)
    /\ UNCHANGED <<procVars, chanVars, iommuVars>>

channel_scheme_create(t, b, s) ==
    /\ Call(t) /\ owner[b] = Me(t)
    /\ ring[b] = "none" /\ pins[b] = 0 /\ sharers[b] = {}
    /\ anchor[Me(t)][s] = Nil
    /\ ring' = [ring EXCEPT ![b] = s]
    /\ anchor' = [anchor EXCEPT ![Me(t)][s] = b]
    /\ rung' = [rung EXCEPT ![b] = TRUE]
    /\ UNCHANGED <<domain, context, slpt, dma_maps>>
    /\ ring_replay(b, s, <<>>)
    /\ Return(t)
    /\ UNCHANGED <<reg, parent, children, dead, owner, sharers, views>>

-----------------------------------------------------------------------------
\* IOMMU domains, and the rings they hang on.

NoDomain == [live |-> FALSE, devices |-> {}, mappings |-> {}]
\* Mutant: the gate forgets the DMA mappings.
GateWithoutDma(b) == pins[b] = 0 /\ sharers[b] = {}
Gate(b) == dma_maps[b] = {} /\ pins[b] = 0 /\ sharers[b] = {}

\* The anchor is cleared, the ring object freed.
channel_ring_destroy(b) ==
    /\ ring' = [ring EXCEPT ![b] = "none"]
    /\ cq' = [cq EXCEPT ![b] = <<>>]
    /\ anchor' = IF ring[b] = "none" THEN anchor
                 ELSE [anchor EXCEPT ![owner[b]][ring[b]] = Nil]
    /\ rung' = [rung EXCEPT ![b] = TRUE]

\* An IOMMU ring takes every device, mapping and domain of its own along.
iommu_endpoint_destroy(b) ==
    LET mine == {d \in Domain : d[1] = b} IN
    /\ fault' = [v \in Requester |-> IF v \in OnRing(domain, b) THEN NoFault ELSE fault[v]]
    /\ context' = [v \in Requester |-> IF v \in OnRing(domain, b) THEN Nil ELSE context[v]]
    /\ slpt' = [d \in Domain |-> IF d \in mine THEN {} ELSE slpt[d]]
    /\ dma_maps' = [x \in Block |-> dma_maps[x] \ mine]
    /\ domain' = [d \in Domain |-> IF d \in mine THEN NoDomain ELSE domain[d]]

\* A free that passes the gate tears the channel down with the block.
free_locked(b) ==
    /\ Gate(b)
    /\ owner' = [owner EXCEPT ![b] = Nil]
    /\ channel_ring_destroy(b) /\ iommu_endpoint_destroy(b)
    /\ UNCHANGED <<procVars, sharers, views, pending>>

umem_free(p, b) ==
    /\ owner[b] # Nil /\ resource_authorized(p, owner[b])
    /\ free_locked(b)

\* The hardware: a context entry per function, a second-level table per domain.
vtd_attach(d, v) == context[v] = Nil /\ context' = [context EXCEPT ![v] = d]
vtd_detach(d, v) == context' = [context EXCEPT ![v] = Nil]
vtd_map(d, x) == slpt' = [slpt EXCEPT ![d] = @ \cup {x}]
vtd_unmap(d, x) == slpt' = [slpt EXCEPT ![d] = @ \ {x}]
vtd_domain_destroy(d) == slpt' = [slpt EXCEPT ![d] = {}]

unmap_mapping(d, x) ==
    /\ vtd_unmap(d, x)
    /\ domain' = [domain EXCEPT ![d].mappings = @ \ {x}]
    /\ dma_maps' = [dma_maps EXCEPT ![x] = @ \ {d}]
    /\ UNCHANGED context

iommu_revoke_map(p, x, d) ==
    /\ owner[x] # Nil /\ resource_authorized(p, owner[x]) /\ d \in dma_maps[x]
    /\ unmap_mapping(d, x)
    /\ UNCHANGED <<procVars, blockVars, chanVars, fault>>

\* The commands of iommu_exec.
domain_create(d) ==
    /\ ~domain[d].live
    /\ domain' = [domain EXCEPT ![d].live = TRUE]
    /\ UNCHANGED <<context, slpt, dma_maps>>

domain_destroy(d) ==
    /\ domain[d].live /\ domain[d].devices = {} /\ domain[d].mappings = {}
    /\ domain' = [domain EXCEPT ![d] = NoDomain]
    /\ vtd_domain_destroy(d)
    /\ UNCHANGED <<context, dma_maps>>

device_attach(d, v) ==
    /\ domain[d].live /\ \A e \in Domain : v \notin domain[e].devices
    /\ 2 * (Cardinality(OnRing(domain, d[1])) + 1) <= Slots
    /\ vtd_attach(d, v)
    /\ domain' = [domain EXCEPT ![d].devices = @ \cup {v}]
    /\ UNCHANGED <<slpt, dma_maps>>

device_detach(d, v) ==
    /\ v \in domain[d].devices
    /\ vtd_detach(d, v)
    /\ domain' = [domain EXCEPT ![d].devices = @ \ {v}]
    /\ UNCHANGED <<slpt, dma_maps>>

\* Any view of a RAM block that is no channel may be mapped, shared-in ones too.
map_block(p, d, x) ==
    /\ domain[d].live /\ x \notin domain[d].mappings
    /\ (owner[x] = p \/ x \in views[p]) /\ ring[x] = "none"
    /\ vtd_map(d, x)
    /\ domain' = [domain EXCEPT ![d].mappings = @ \cup {x}]
    /\ dma_maps' = [dma_maps EXCEPT ![x] = @ \cup {d}]
    /\ UNCHANGED context

unmap_block(d, x) ==
    x \in domain[d].mappings /\ unmap_mapping(d, x)

\* One command of an IOMMU ring that is carried out.
iommu_exec(p, b) ==
    \E c \in Cookie, v \in Requester, x \in Block :
          \/ domain_create(<<b, c>>)
          \/ domain_destroy(<<b, c>>)
          \/ device_attach(<<b, c>>, v)
          \/ device_detach(<<b, c>>, v)
          \/ map_block(p, <<b, c>>, x)
          \/ unmap_block(<<b, c>>, x)

\* A drain of an empty SQ: only the replay.
Doorbell(p, b) ==
    /\ owner[b] = p /\ ring[b] # "none"
    /\ rung' = [rung EXCEPT ![b] = TRUE]
    /\ UNCHANGED <<domain, context, slpt, dma_maps>>
    /\ ring_replay(b, ring[b], cq[b])
    /\ UNCHANGED <<reg, parent, children, dead, owner, sharers, views, ring, anchor>>

\* A drain of one SQE: the command, its completion (dropped when the CQ is
\* full), then the replay.  A refused command, and any command of an event
\* scheme, is completed and changes nothing.
channel_ring_drain(p, b) ==
    /\ owner[b] = p /\ ring[b] # "none"
    /\ rung' = [rung EXCEPT ![b] = TRUE]
    /\ \/ ring[b] = "iommu" /\ iommu_exec(p, b)
       \/ UNCHANGED <<domain, context, slpt, dma_maps>>
    /\ ring_replay(b, ring[b], ring_post(cq[b], Done))
    /\ UNCHANGED <<reg, parent, children, dead, owner, sharers, views, ring, anchor>>

\* The owner publishes a cq_head that consumes a CQE, in user mode; the doorbell
\* of the same call comes later.
kring_ack(t, b) ==
    /\ tcb[t].at = "user" /\ ~process_is_dead(Me(t))
    /\ owner[b] = Me(t) /\ ring[b] # "none" /\ cq[b] # <<>>
    /\ cq' = [cq EXCEPT ![b] = Tail(@)]
    /\ rung' = [rung EXCEPT ![b] = FALSE]
    /\ UNCHANGED <<procVars, threadVars, blockVars, ring, anchor, iommuVars, calls>>

\* The VT-d fault interrupt, under g_fault_lock only: the event is coalesced
\* into the device's level state and posted if none is outstanding.
iommu_report_fault(v) ==
    LET b == CHOOSE x \in Block : v \in OnRing(domain, x)
        out == fault[v].posted /\ Event("fault", v) \in Range(cq[b])
        post == ~out /\ Room(cq[b]) > 0
    IN  /\ v \in Attached(domain)
        /\ fault' = [fault EXCEPT ![v] = [due |-> ~post, posted |-> out \/ post]]
        /\ cq' = IF post THEN [cq EXCEPT ![b] = ring_post(@, Event("fault", v))] ELSE cq
        /\ UNCHANGED <<procVars, threadVars, blockVars, ring, anchor, rung,
                       domain, context, slpt, dma_maps, calls>>

-----------------------------------------------------------------------------
\* The system calls of an ordinary thread.

\* A program names the processes it was told of: a pid is known once proc_create
\* has returned it.
Known == {q \in Proc : q = First \/ (parent[q] # Nil /\ q \in children[parent[q]])}

Kernel(t) ==
    \/ Park(t) \/ thread_exit(t) \/ proc_sys_process_exit(t)
    \/ \E q \in Known, u \in Thread, b \in Block \cup {Nil} : proc_sys_thread_spawn(t, q, u, b)
    \/ (\E q \in Known : proc_sys_kill(t, q)) \/ (\E c \in Proc : process_create(t, c))
    \/ \E b \in Block : umem_alloc(t, b)
    \/ Call(t) /\ \E q \in Known, u \in Thread : proc_sys_thread_destroy(t, q, u)
    \/ \E b \in Block, q \in Known : umem_share(t, b, q) \/ proc_sys_vm_move(t, b, q)
    \/ \E b \in Block, s \in Scheme : channel_scheme_create(t, b, s)
    \/ /\ Call(t) /\ Return(t)
       /\ \E b \in Block :
             \/ umem_free(Me(t), b)
             \/ Doorbell(Me(t), b) \/ channel_ring_drain(Me(t), b)
             \/ \E q \in Known : umem_dropshare(Me(t), b, q) \/ umem_unshare(Me(t), b, q)
             \/ \E d \in Domain : iommu_revoke_map(Me(t), b, d)

\* A refused call returns an error and changes nothing.
Refused(t) ==
    Call(t) /\ Return(t) /\ UNCHANGED <<procVars, blockVars, chanVars, iommuVars>>

ThreadStep(t) ==
    \/ syscall_dispatch(t) \/ Kernel(t) \/ Refused(t) \/ process_created(t)
    \/ Checkpoint(t) \/ Wake(t) \/ process_thread_exited(t)
    \/ \E b \in Block : kring_ack(t, b)

-----------------------------------------------------------------------------
\* Properties.

Tcb == [proc : Proc \cup {Nil},
        at : {"none", "user", "kernel", "creating", "parked", "leaving"},
        arg : Proc \cup {Nil}, done : Block \cup {Nil}]
Cqe == [type : {"done", "share", "dead", "fault"}, a : Block \cup Proc \cup Requester \cup {Nil}]

ProcTypes ==
    /\ reg \in [Proc -> {"none", "live", "bare"}]
    /\ parent \in [Proc -> Proc \cup {Nil}] /\ children \in [Proc -> SUBSET Proc]
    /\ dead \in [Proc -> BOOLEAN] /\ told \in [Proc -> BOOLEAN]
ThreadTypes ==
    /\ threads \in [Proc -> SUBSET Thread] /\ tcb \in [Thread -> Tcb]
    /\ pins \in [Block -> Nat] /\ calls \in 0 .. CallMax
BlockTypes ==
    /\ owner \in [Block -> Proc \cup {Nil}]
    /\ sharers \in [Block -> SUBSET Proc] /\ views \in [Proc -> SUBSET Block]
    /\ pending \in [Proc -> Seq(Block)]
ChanTypes ==
    /\ ring \in [Block -> Scheme \cup {"none"}]
    /\ anchor \in [Proc -> [Scheme -> Block \cup {Nil}]]
    /\ cq \in [Block -> Seq(Cqe)] /\ rung \in [Block -> BOOLEAN]
    /\ \A b \in Block : Len(cq[b]) <= Slots
IommuTypes ==
    /\ domain \in [Domain -> [live : BOOLEAN, devices : SUBSET Requester, mappings : SUBSET Block]]
    /\ context \in [Requester -> Domain \cup {Nil}]
    /\ slpt \in [Domain -> SUBSET Block] /\ dma_maps \in [Block -> SUBSET Domain]
    /\ fault \in [Requester -> [due : BOOLEAN, posted : BOOLEAN]]

\* The indexes are sets of what they index, and no ring ever holds more
\* unconsumed CQEs than it has slots (ring_post_locked).
TypeOK == ProcTypes /\ ThreadTypes /\ BlockTypes /\ ChanTypes /\ IommuTypes

\* A share edge is in its block's sharers, its receiver's views and, until it is
\* announced, the receiver's pending list once; only a block in use, and no channel,
\* is shared, and not with its owner.
Edges ==
    /\ \A b \in Block, q \in Proc : (q \in sharers[b]) <=> (b \in views[q])
    /\ \A b \in Block : owner[b] \notin sharers[b]
    /\ \A b \in Block : sharers[b] # {} => owner[b] # Nil /\ ring[b] = "none"
    /\ \A q \in Proc : IsInjective(pending[q]) /\ Range(pending[q]) \subseteq views[q]

Holders == \A q \in Proc : (views[q] # {} \/ Owned(q) # {}) => reg[q] = "live"
Pins == \A b \in Block : pins[b] = Cardinality({t \in Thread : tcb[t].done = b})
ThreadIndex == \A p \in Proc, t \in Thread : (t \in threads[p]) <=> (tcb[t].proc = p)
Anchors == \A p \in Proc, s \in Scheme, b \in Block :
              (anchor[p][s] = b) <=> (owner[b] = p /\ ring[b] = s)
Mappings == \A d \in Domain, x \in Block : /\ x \in domain[d].mappings <=> d \in dma_maps[x]
                                           /\ x \in slpt[d] <=> d \in dma_maps[x]
Attachments == \A d \in Domain, v \in Requester : (v \in domain[d].devices) <=> (context[v] = d)

\* The indexes that umem.c, channel.c, iommu.c and process.c keep of the same
\* fact agree, as their asserts demand: the ends of an edge; owners and sharers
\* are registered; a block's pins are the completions registered on it; a thread
\* is in its process's index; an anchor names its owner's ring; a mapping is in its
\* domain, in its block and in the hardware table; an attached device has its
\* domain's context entry.  Stated with the type invariant.
IndexesAgree ==
    /\ TypeOK
    /\ Edges /\ Holders /\ Pins /\ ThreadIndex /\ Anchors /\ Mappings /\ Attachments

Announced(b) ==
    /\ ring[b] = "shares" => pending[owner[b]] = <<>>
    /\ ring[b] = "tree" => process_is_dead(owner[b]) \/ tree_due(owner[b]) = {}
    /\ ring[b] = "iommu" => \A v \in OnRing(domain, b) : fault[v].due => fault[v].posted

\* Nothing waits that could have been announced: an unannounced share edge, dead
\* child or fault whose channel exists is waiting for room in a full CQ, or for
\* the doorbell of an owner that has consumed events since its last one.
NothingStranded ==
    \A b \in Block : ring[b] # "none" /\ rung[b] /\ Room(cq[b]) > 0 => Announced(b)

\* A device reaches only blocks that still have an owner: a frame goes back to
\* the allocator only after every domain has let go of it.
DmaOnlyOwned ==
    \A v \in Requester : context[v] # Nil => \A x \in slpt[context[v]] : owner[x] # Nil

\* Once a dead process has no thread left, what it holds only shrinks, which is
\* what lets the reaper's loops end (children, threads, views and blocks).
DeadGainsNothing ==
    [][\A p \in Proc :
          (reg[p] # "none" /\ process_is_dead(p) /\ threads[p] = {})
              => /\ children'[p] \subseteq children[p] /\ threads'[p] = {}
                 /\ views'[p] \subseteq views[p]
                 /\ \A b \in Block : owner'[b] = p => owner[b] = p]_<<children, threads, views, owner>>

-----------------------------------------------------------------------------
\* What makes these properties inductive.

\* A process runs only with an address space; one that lost it is dead.
Alive(p) == /\ threads[p] # {} => reg[p] = "live"
            /\ reg[p] = "bare" => process_is_dead(p)

\* A pid that process_create has not handed out, and one it is still linking.
Fresh(c) == threads[c] = {} /\ ~dead[c]
Creating(t) == tcb[t].at = "creating"
Linking(t) == /\ tcb[t].arg # Nil /\ Fresh(tcb[t].arg)
              /\ Me(t) # Nil /\ parent[tcb[t].arg] = Me(t)
              /\ tcb[t].arg \notin children[Me(t)]

TreeInv ==
    /\ parent[First] = Nil
    /\ \A p \in Proc : Alive(p) /\ (Unused(p) => Fresh(p))
    /\ \A p, c \in Proc : c \in children[p] => parent[c] = p
    /\ \A t \in Thread : /\ tcb[t].at # "none" => Me(t) # Nil
                         /\ Creating(t) => Linking(t)
    /\ \A t, u \in Thread : Creating(t) /\ Creating(u) /\ tcb[t].arg = tcb[u].arg => t = u

\* A block without an owner is no ring and no device reaches it.
Released(b) == ring[b] = "none" /\ dma_maps[b] = {}
BlockInv == \A b \in Block : owner[b] = Nil => Released(b)
=============================================================================
