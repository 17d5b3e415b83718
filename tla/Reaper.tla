------------------------------- MODULE Reaper -------------------------------
(***************************************************************************)
(* init's loop over the tree channel (gdos-init/init.c) and the teardown   *)
(* it runs for a dead child (gdoslib pe.c, destroy_process), over the      *)
(* kernel of Objects.tla.  The kernel keeps no teardown policy: the parent *)
(* enumerates what the dead process holds, one item at a time, and each    *)
(* system call of the loop is one step here.                               *)
(***************************************************************************)
EXTENDS Objects

CONSTANTS
    Init1,      \* the thread of init that reaps
    TreeRing,   \* the block of its tree channel
    Children,   \* init's children at the start
    ThreadOf,   \* their threads: Children -> Thread
    BlocksOf,   \* what each process owns at the start: Proc -> SUBSET Block
    RingOf,     \* which of it are channels: Block -> Scheme or "none"
    DevicesOf   \* the devices attached to their domains: Domain -> SUBSET Requester

ASSUME ReaperAssumption ==
    /\ Init1 \in Thread /\ First \notin Children /\ Children \subseteq Proc
    /\ ThreadOf \in [Children -> Thread \ {Init1}] /\ IsInjective(ThreadOf)
    /\ BlocksOf \in [Proc -> SUBSET Block] /\ RingOf \in [Block -> Scheme \cup {"none"}]
    /\ DevicesOf \in [Domain -> SUBSET Requester]
    /\ \A p, q \in Proc : BlocksOf[p] \cap BlocksOf[q] # {} => p = q
    /\ \A d, e \in Domain : DevicesOf[d] \cap DevicesOf[e] # {} => d = e
    /\ \A p \in Proc \ (Children \cup {First}) : BlocksOf[p] = {}
    /\ \A b \in Block : RingOf[b] # "none" => \E p \in Proc : b \in BlocksOf[p]
    /\ \A p \in Proc : \A b, c \in BlocksOf[p] : RingOf[b] = RingOf[c] => RingOf[b] = "none" \/ b = c
    /\ RingOf[TreeRing] = "tree" /\ TreeRing \in BlocksOf[First]
    /\ \A d \in Domain : DevicesOf[d] # {} => RingOf[d[1]] = "iommu"

VARIABLES
    pc,         \* where the reaper is in destroy_process
    stack,      \* the recursion: pids under destruction, innermost first
    item,       \* items[0]: the last item enumerated
    batch,      \* items[0..n): the sharers or DMA mappings listed last
    spawned     \* the children init means to reap

reaperVars == <<pc, stack, item, batch, spawned>>
vars == <<kernelVars, calls, reaperVars>>

Start(p) == [proc |-> p, at |-> "user", arg |-> Nil, done |-> Nil]
OwnerOf(b) == IF \E p \in Proc : b \in BlocksOf[p]
              THEN CHOOSE p \in Proc : b \in BlocksOf[p] ELSE Nil
AnchorOf(p, s) == IF \E b \in BlocksOf[p] : RingOf[b] = s
                  THEN CHOOSE b \in BlocksOf[p] : RingOf[b] = s ELSE Nil

Init ==
    /\ reg = [p \in Proc |-> IF p \in Children \cup {First} THEN "live" ELSE "none"]
    /\ parent = [p \in Proc |-> IF p \in Children THEN First ELSE Nil]
    /\ children = [p \in Proc |-> IF p = First THEN Children ELSE {}]
    /\ dead = [p \in Proc |-> FALSE] /\ told = [p \in Proc |-> FALSE]
    /\ threads = [p \in Proc |-> CASE p = First -> {Init1}
                                   [] p \in Children -> {ThreadOf[p]}
                                   [] OTHER -> {}]
    /\ tcb = [t \in Thread |-> IF t = Init1 THEN Start(First)
                               ELSE IF \E p \in Children : ThreadOf[p] = t
                               THEN Start(CHOOSE p \in Children : ThreadOf[p] = t)
                               ELSE NoThread]
    /\ owner = [b \in Block |-> OwnerOf(b)]
    /\ sharers = [b \in Block |-> {}] /\ views = [p \in Proc |-> {}]
    /\ pending = [p \in Proc |-> <<>>] /\ pins = [b \in Block |-> 0]
    /\ ring = RingOf
    /\ anchor = [p \in Proc |-> [s \in Scheme |-> AnchorOf(p, s)]]
    /\ cq = [b \in Block |-> <<>>] /\ rung = [b \in Block |-> TRUE]
    /\ domain = [d \in Domain |-> [live |-> DevicesOf[d] # {}, devices |-> DevicesOf[d],
                                    mappings |-> {}]]
    /\ slpt = [d \in Domain |-> {}]
    /\ context = [v \in Requester |-> IF \E d \in Domain : v \in DevicesOf[d]
                                      THEN CHOOSE d \in Domain : v \in DevicesOf[d] ELSE Nil]
    /\ dma_maps = [b \in Block |-> {}]
    /\ fault = [v \in Requester |-> NoFault]
    /\ calls = 0
    /\ pc = "wait" /\ stack = <<>> /\ item = Nil /\ batch = {} /\ spawned = Children

-----------------------------------------------------------------------------
Pid == Head(stack)
Goto(l) == pc' = l /\ UNCHANGED <<stack, item, batch, spawned>>
With(l, x) == pc' = l /\ item' = x /\ UNCHANGED <<stack, batch, spawned>>
Least(S) == CHOOSE x \in S : \A y \in S : x <= y
Quiet == UNCHANGED <<kernelVars, calls>>
ByKernel == UNCHANGED <<threadVars, calls>>

\* await_child_death: take the CQE, then ring the doorbell; only a child init
\* still means to reap starts a teardown.
ReapEvent ==
    /\ pc = "wait" /\ kring_ack(Init1, TreeRing)
    /\ With("ack", Head(cq[TreeRing]).a)
ReapAck ==
    /\ pc = "ack" /\ Doorbell(First, TreeRing) /\ ByKernel
    /\ IF item \in spawned
       THEN /\ pc' = "children" /\ stack' = <<item>> /\ spawned' = spawned \ {item}
            /\ UNCHANGED <<item, batch>>
       ELSE Goto("wait")

\* Any error but the ones the loops expect unwinds the recursion: pe_destroy
\* returns false and the process stays.
Fail == pc' = "wait" /\ stack' = <<>> /\ UNCHANGED <<item, batch, spawned>>
Reapable == process_reaper_authorized(First, Pid)

\* sys_proc_children(pid, items, 1, 0): descend into a child, or go on.
ReapChildren ==
    /\ pc = "children" /\ Quiet
    /\ CASE ~Reapable -> Fail
         [] Reapable /\ children[Pid] # {} ->
                /\ stack' = <<Least(children[Pid])>> \o stack
                /\ UNCHANGED <<pc, item, batch, spawned>>
         [] OTHER -> Goto("threads")

ReapThreads ==
    /\ pc = "threads" /\ Quiet
    /\ CASE ~Reapable -> Fail
         [] Reapable /\ threads[Pid] # {} -> \E u \in threads[Pid] : With("thread", u)
         [] OTHER -> Goto("views")

\* SYSERR_INVAL: the thread is gone; SYSERR_AGAIN: yield and try again.
ReapThread ==
    /\ pc = "thread" /\ Goto("threads")
    /\ \/ item \notin threads[Pid] /\ Quiet
       \/ proc_sys_thread_destroy(Init1, Pid, item)

ReapViews ==
    /\ pc = "views" /\ Quiet
    /\ CASE ~Reapable -> Fail
         [] Reapable /\ views[Pid] # {} -> \E b \in views[Pid] : With("view", b)
         [] OTHER -> Goto("blocks")
ReapView ==
    /\ pc = "view" /\ Goto("views")
    /\ \/ item \notin views[Pid] /\ Quiet
       \/ umem_dropshare(First, item, Pid) /\ ByKernel

ReapBlocks ==
    /\ pc = "blocks" /\ Quiet
    /\ CASE ~Reapable -> Fail
         [] Reapable /\ Owned(Pid) # {} -> \E b \in Owned(Pid) : With("sharers", b)
         [] OTHER -> Goto("destroy")

\* List a batch and work through it; list again until the list is empty.
List(l, S, next) ==
    /\ Quiet /\ UNCHANGED <<stack, item, spawned>>
    /\ IF S = {} THEN pc' = next /\ batch' = {} ELSE pc' = l /\ batch' = S
Next1(x, l, again) ==
    /\ batch' = batch \ {x} /\ pc' = IF batch = {x} THEN again ELSE l
    /\ UNCHANGED <<stack, item, spawned>>

ReapSharers ==
    /\ pc = "sharers"
    /\ IF owner[item] # Nil /\ Reapable THEN List("unshare", sharers[item], "dma")
       ELSE Fail /\ Quiet
ReapUnshare ==
    /\ pc = "unshare"
    /\ \E q \in batch :
          /\ Next1(q, "unshare", "sharers")
          /\ \/ q \notin sharers[item] /\ Quiet
             \/ umem_unshare(First, item, q) /\ ByKernel
ReapDma ==
    /\ pc = "dma"
    /\ IF owner[item] # Nil /\ Reapable THEN List("revoke", dma_maps[item], "free")
       ELSE Fail /\ Quiet
ReapRevoke ==
    /\ pc = "revoke"
    /\ \E d \in batch :
          /\ Next1(d, "revoke", "dma")
          /\ \/ d \notin dma_maps[item] /\ Quiet
             \/ iommu_revoke_map(First, item, d) /\ ByKernel
ReapFree ==
    /\ pc = "free"
    /\ \/ umem_free(First, item) /\ ByKernel /\ Goto("blocks")
       \/ ~(owner[item] # Nil /\ Reapable /\ Gate(item)) /\ Quiet /\ Fail

\* SYSERR_EXIST fails; PROC_DESTROY_MORE calls again; DONE returns to the caller.
ReapDestroy ==
    /\ pc = "destroy"
    /\ CASE HasResources(Pid) -> Fail /\ Quiet
         [] ~HasResources(Pid) /\ reg[Pid] = "live" ->
                proc_sys_destroy(Pid) /\ UNCHANGED reaperVars
         [] OTHER ->
                /\ proc_sys_destroy(Pid)
                /\ stack' = Tail(stack)
                /\ pc' = IF stack' = <<>> THEN "wait" ELSE "children"
                /\ UNCHANGED <<item, batch, spawned>>

Reap ==
    \/ ReapEvent \/ ReapAck \/ ReapChildren \/ ReapThreads \/ ReapThread
    \/ ReapViews \/ ReapView \/ ReapBlocks \/ ReapSharers \/ ReapUnshare
    \/ ReapDma \/ ReapRevoke \/ ReapFree \/ ReapDestroy

Other == Thread \ {Init1}
Next ==
    \/ Reap
    \/ (\E t \in Other : ThreadStep(t)) /\ UNCHANGED reaperVars
    \/ (\E v \in Requester : iommu_report_fault(v)) /\ UNCHANGED reaperVars

Spec == Init /\ [][Next]_vars

\* A runnable thread runs: no handler lasts forever (Refused is enabled as long
\* as the thread is in one, whatever it ends with), the dead are culled at the
\* next checkpoint and a thread that is leaving is disposed of.
Leaves(t) ==
    /\ Refused(t) \/ process_created(t) \/ Checkpoint(t) \/ process_thread_exited(t)
    /\ UNCHANGED reaperVars
FairSpec == Spec /\ WF_vars(Reap) /\ \A t \in Other : WF_vars(Leaves(t))

-----------------------------------------------------------------------------
\* Every teardown ends: whatever the dying threads still do in the kernel, the
\* loops of destroy_process empty what they enumerate and the reaper gets back
\* to its tree channel.
ReapEnds == pc # "wait" ~> pc = "wait"

\* The reaper works on a process that is dead and registered, and its own thread
\* is never parked.
WorkPcs == {"threads", "thread", "views", "view", "blocks", "sharers", "unshare", "dma",
            "revoke", "free", "destroy"}
ReaperInv ==
    /\ tcb[Init1] = Start(First) /\ stack \in Seq(Proc) /\ spawned \subseteq Proc
    /\ pc \in WorkPcs \cup {"wait", "ack", "children"}
    /\ pc \in WorkPcs \cup {"children"} => stack # <<>>
    /\ pc \in WorkPcs => process_is_dead(Pid) /\ reg[Pid] # "none"
    /\ pc \in {"sharers", "unshare", "dma", "revoke", "free"} => item \in Block
=============================================================================
