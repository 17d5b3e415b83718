---------------------------- MODULE ReaperProofs ----------------------------
(***************************************************************************)
(* The indexes of the kernel objects agree and nothing is stranded while   *)
(* init reaps, for any number of processes, threads, blocks, devices and   *)
(* queue slots: the theorems about Reaper.tla.                             *)
(***************************************************************************)
EXTENDS Reaper, ObjectsProofs, FiniteSetTheorems

\* Thread is finite (ObjectsAssumption), so sets of threads can be counted.
LEMMA Counts == Counting
<1> SUFFICES ASSUME NEW S \in SUBSET Thread, NEW u \in Thread
             PROVE  /\ u \in S => /\ Cardinality(S) = Cardinality(S \ {u}) + 1
                                  /\ Cardinality(S \ {u}) \in Nat
                    /\ u \notin S => Cardinality(S \cup {u}) = Cardinality(S) + 1
  BY Zenon DEF Counting
<1>1. IsFiniteSet(S) /\ Cardinality(S) \in Nat
  BY ObjectsAssumption, FS_Subset, FS_CardinalityType, Zenon
<1>2. IsFiniteSet(S \ {u}) /\ Cardinality(S \ {u}) \in Nat
  BY <1>1, FS_Subset, FS_CardinalityType, Zenon
<1>3. u \in S => Cardinality(S \ {u}) = Cardinality(S) - 1
  BY <1>1, FS_RemoveElement, Zenon
<1>4. u \in S => Cardinality(S) = Cardinality(S \ {u}) + 1
  BY <1>1, <1>2, <1>3, SMTT(60)
<1>5. u \notin S => Cardinality(S \cup {u}) = Cardinality(S) + 1
  BY <1>1, FS_AddElement, Zenon
<1>6. QED
  BY <1>2, <1>4, <1>5, Zenon

-----------------------------------------------------------------------------
\* The reaper.

\* process_reaper_authorized: the target is dead, and still registered.
LEMMA ReapableDead ==
  ASSUME NEW p \in Proc, process_reaper_authorized(First, p)
  PROVE  process_is_dead(p) /\ reg[p] # "none"
BY Zenon DEF process_reaper_authorized, DeadUpTo

\* The child enumerated first is one.
LEMMA LeastChild ==
  ASSUME NEW S \in SUBSET Proc, S # {}
  PROVE  Least(S) \in S
<1>1. S \subseteq Nat
  BY ObjectsAssumption, Zenon
<1>2. IsWellFoundedOn(OpToRel(<, Nat), Nat)
  BY NatLessThanWellFounded, Zenon
<1>3. IsWellFoundedOn(OpToRel(<, Nat), S)
  BY <1>1, <1>2, IsWellFoundedOnSubset, Zenon
<1>4. PICK x \in S : \A y \in S : ~(<<y, x>> \in OpToRel(<, Nat))
  BY <1>3, WFMin, Zenon
<1>5. \A y \in S : ~(y < x)
  BY <1>1, <1>4, Zenon DEF OpToRel
<1>6. \A y \in S : x <= y
  BY <1>1, <1>5, SMTT(60)
<1>7. QED
  BY <1>6, Zenon DEF Least

\* What the other threads and the fault interrupt leave of the reaper's state.
LEMMA ReaperFrame ==
  ASSUME ReaperInv, Onward, tcb'[Init1] = tcb[Init1], UNCHANGED reaperVars
  PROVE  ReaperInv'
<1>1. /\ pc' = pc /\ stack' = stack /\ item' = item /\ spawned' = spawned
  BY Zenon DEF reaperVars
<1>2. ASSUME pc \in WorkPcs PROVE process_is_dead(Pid)' /\ reg'[Pid'] # "none"
  <2>1. stack # <<>> /\ stack \in Seq(Proc) /\ process_is_dead(Pid) /\ reg[Pid] # "none"
    BY <1>2, Zenon DEF ReaperInv
  <2>2. Pid \in Proc /\ Pid' = Pid
    BY <1>1, <2>1, SMTT(60) DEF Pid
  <2>3. PICK p \in Proc : p = Pid
    BY <2>2, Zenon
  <2>4. process_is_dead(p)' /\ reg'[p] # "none"
    BY <2>1, <2>3, DeadGrows, Zenon DEF Onward
  <2>5. QED
    BY <2>2, <2>3, <2>4, Zenon
<1>3. QED
  BY <1>1, <1>2, Zenon DEF ReaperInv, Start

\* A step of the reaper that only reads.
LEMMA QuietKept ==
  ASSUME KInv, Quiet
  PROVE  /\ KInv' /\ Onward /\ UNCHANGED <<reg, parent, dead, tcb>>
         /\ \A p \in Proc : Idle(p) => Gains(p)
<1>1. UNCHANGED <<procVars, threadVars, blockVars, chanVars, iommuVars, calls>>
  BY Zenon DEF Quiet, kernelVars
<1>2. Threads' /\ Fewer
  BY <1>1, SameKept, Zenon
<1>3. KInv'
  BY <1>1, <1>2, StillInv, Zenon
<1>4. Onward /\ \A p \in Proc : Idle(p) => Gains(p)
  BY <1>1, <1>2, ShrinkKept, Zenon DEF procVars, blockVars
<1>5. QED
  BY <1>1, <1>3, <1>4, Zenon DEF procVars, threadVars

\* A system call of the reaper on an item of its victim.
LEMMA ReapItemKept ==
  ASSUME KInv, ByKernel, NEW b \in Block,
         \/ umem_free(First, b) \/ Doorbell(First, b)
         \/ \E q \in Proc : umem_dropshare(First, b, q) \/ umem_unshare(First, b, q)
         \/ \E d \in Domain : iommu_revoke_map(First, b, d)
  PROVE  /\ KInv' /\ Onward /\ UNCHANGED <<reg, parent, dead, tcb>>
         /\ \A p \in Proc : Idle(p) => Gains(p)
<1>1. UNCHANGED <<threadVars, calls>> /\ First \in Proc
  BY ObjectsAssumption, Zenon DEF ByKernel
<1>2. Threads' /\ Fewer
  BY <1>1, SameKept, Zenon
<1>3. /\ KInv' /\ Onward /\ UNCHANGED <<reg, parent, dead>>
      /\ \A p \in Proc : Idle(p) => Gains(p)
  BY <1>1, <1>2, ItemKept, Zenon
<1>4. QED
  BY <1>1, <1>3, Zenon DEF threadVars

\* proc_sys_destroy of the process on top of the stack.
LEMMA DestroyKept ==
  ASSUME KInv, NEW q \in Proc, process_is_dead(q), proc_sys_destroy(q)
  PROVE  /\ KInv' /\ UNCHANGED <<parent, dead, tcb>>
         /\ reg[q] = "live" => Onward
         /\ \A p \in Proc : Idle(p) => Gains(p)
<1>a. ProcTypes
  BY Parts, Zenon
<1>b. /\ UNCHANGED <<parent, dead, threads, tcb, owner, views>>
      /\ reg[q] = "live" => reg' = [reg EXCEPT ![q] = "bare"]
      /\ children' = children \/ children' = [children EXCEPT ![parent[q]] = @ \ {q}]
  BY Zenon DEF proc_sys_destroy, threadVars, blockVars
<1>1. KInv'
  BY DestroyInv, Zenon
<1>2. reg[q] = "live" => Onward
  BY <1>a, <1>b, Zenon DEF Onward, ProcTypes
<1>3. \A p \in Proc : Idle(p) => Gains(p)
  BY <1>a, <1>b, SMTT(60) DEF Idle, Gains, ProcTypes
<1>4. QED
  BY <1>b, <1>1, <1>2, <1>3, Zenon

\* The facts of the reaper's state that its steps start from.
LEMMA ReaperFacts ==
  ASSUME ReaperInv
  PROVE  /\ tcb[Init1].at = "user" /\ Init1 \in Thread /\ First \in Proc /\ TreeRing \in Block
         /\ tcb[Init1] = Start(First) /\ [tcb[Init1] EXCEPT !.at = "user"] = tcb[Init1]
         /\ stack # <<>> => Pid \in Proc
         /\ pc \in WorkPcs => Pid \in Proc /\ process_is_dead(Pid) /\ reg[Pid] # "none" /\ stack # <<>>
         /\ pc = "children" => stack # <<>>
         /\ pc \in {"sharers", "unshare", "dma", "revoke", "free"} => item \in Block
<1>1. Init1 \in Thread /\ First \in Proc /\ TreeRing \in Block
  BY ObjectsAssumption, ReaperAssumption, Zenon
<1>2. stack # <<>> => Pid \in Proc
  BY DEF ReaperInv, Pid
<1>3. QED
  BY <1>1, <1>2, SMTT(60) DEF ReaperInv, Start, WorkPcs

\* Every step of the reaper, for the kernel.
LEMMA ReapKernel ==
  ASSUME KInv, ReaperInv, Reap
  PROVE  /\ KInv' /\ tcb'[Init1] = tcb[Init1]
         /\ ~(pc = "destroy" /\ pc' \in {"wait", "children"}) => Onward
         /\ \A p \in Proc : Idle(p) => Gains(p)
<1> DEFINE Good == /\ KInv' /\ tcb'[Init1] = tcb[Init1] /\ Onward
                   /\ \A p \in Proc : Idle(p) => Gains(p)
<1>a. /\ tcb[Init1].at = "user" /\ Init1 \in Thread /\ First \in Proc /\ TreeRing \in Block
      /\ [tcb[Init1] EXCEPT !.at = "user"] = tcb[Init1]
      /\ pc \in WorkPcs => Pid \in Proc /\ process_is_dead(Pid) /\ reg[Pid] # "none" /\ stack # <<>>
      /\ pc \in {"sharers", "unshare", "dma", "revoke", "free"} => item \in Block
  BY ReaperFacts, Zenon
<1>b. ProcTypes /\ BlockTypes /\ IommuTypes
  BY Parts, Zenon
<1>0. ASSUME Quiet PROVE Good
  BY <1>0, QuietKept, Zenon
<1>1. CASE ReapEvent
  <2>1. kring_ack(Init1, TreeRing)
    BY <1>1, Zenon DEF ReapEvent
  <2>2. QED
    BY <1>a, <2>1, AckKept, Zenon DEF Kept
<1>2. CASE ReapAck
  <2>1. Doorbell(First, TreeRing) /\ ByKernel
    BY <1>2, Zenon DEF ReapAck
  <2>2. QED
    BY <1>a, <2>1, ReapItemKept, Zenon
<1>3. CASE ReapChildren \/ ReapThreads \/ ReapViews \/ ReapBlocks
  <2>1. Quiet
    BY <1>3, Zenon DEF ReapChildren, ReapThreads, ReapViews, ReapBlocks
  <2>2. QED
    BY <1>0, <2>1, Zenon
<1>4. CASE ReapSharers \/ ReapDma
  <2>1. Quiet
    BY <1>4, Zenon DEF ReapSharers, ReapDma, List
  <2>2. QED
    BY <1>0, <2>1, SMTT(60)
<1>5. CASE ReapThread
  <2>1. CASE Quiet
    BY <1>0, <2>1, Zenon
  <2>2. CASE proc_sys_thread_destroy(Init1, Pid, item)
    <3>1. Pid \in Proc
      BY <1>a, <1>5, Zenon DEF ReapThread, WorkPcs
    <3>2. PICK q \in Proc : q = Pid
      BY <3>1, Zenon
    <3>3. Kept(Init1) /\ tcb'[Init1] = tcb[Init1]
      BY <1>a, <2>2, <3>2, ThreadDestroyKept, Counts, Zenon
    <3>4. QED
      BY <3>3, Zenon DEF Kept
  <2>3. QED
    BY <1>5, <2>1, <2>2, Zenon DEF ReapThread
<1>6. CASE ReapView
  <2>1. CASE Quiet
    BY <1>0, <2>1, ZenonT(30)
  <2>2. CASE umem_dropshare(First, item, Pid) /\ ByKernel
    <3>1. Pid \in Proc
      BY <1>a, <1>6, Zenon DEF ReapView, WorkPcs
    <3>2. item \in Block
      BY <1>b, <2>2, <3>1, Zenon DEF umem_dropshare, BlockTypes
    <3>3. QED
      BY <2>2, <3>1, <3>2, ReapItemKept, Zenon
  <2>3. QED
    BY <1>6, <2>1, <2>2, Zenon DEF ReapView
<1>7. CASE ReapUnshare
  <2>1. PICK q \in batch : \/ q \notin sharers[item] /\ Quiet
                           \/ umem_unshare(First, item, q) /\ ByKernel
    BY <1>7, Zenon DEF ReapUnshare
  <2>2. item \in Block
    BY <1>a, <1>7, Zenon DEF ReapUnshare
  <2>3. CASE umem_unshare(First, item, q) /\ ByKernel
    <3>1. q \in Proc
      BY <1>b, <2>2, <2>3, Zenon DEF umem_unshare, BlockTypes
    <3>2. QED
      BY <2>2, <2>3, <3>1, ReapItemKept, Zenon
  <2>4. QED
    BY <1>0, <2>1, <2>3, Zenon
<1>8. CASE ReapRevoke
  <2>1. PICK d \in batch : \/ d \notin dma_maps[item] /\ Quiet
                           \/ iommu_revoke_map(First, item, d) /\ ByKernel
    BY <1>8, Zenon DEF ReapRevoke
  <2>2. item \in Block
    BY <1>a, <1>8, Zenon DEF ReapRevoke
  <2>3. CASE iommu_revoke_map(First, item, d) /\ ByKernel
    <3>1. d \in Domain
      BY <1>b, <2>2, <2>3, Zenon DEF iommu_revoke_map, IommuTypes
    <3>2. QED
      BY <2>2, <2>3, <3>1, ReapItemKept, Zenon
  <2>4. QED
    BY <1>0, <2>1, <2>3, ZenonT(30)
<1>9. CASE ReapFree
  <2>1. item \in Block
    BY <1>a, <1>9, Zenon DEF ReapFree
  <2>2. CASE umem_free(First, item) /\ ByKernel
    BY <2>1, <2>2, ReapItemKept, Zenon
  <2>3. QED
    BY <1>0, <1>9, <2>2, Zenon DEF ReapFree
<1>10. CASE ReapDestroy
  <2>1. pc = "destroy" /\ Pid \in Proc /\ process_is_dead(Pid)
    BY <1>a, <1>10, Zenon DEF ReapDestroy, WorkPcs
  <2>2. PICK q \in Proc : q = Pid
    BY <2>1, Zenon
  <2>3. Quiet \/ (proc_sys_destroy(q) /\ (reg[q] = "live" \/ pc' \in {"wait", "children"}))
    BY <1>10, <2>2, Zenon DEF ReapDestroy
  <2>4. CASE Quiet
    BY <1>0, <2>4, Zenon
  <2>5. CASE proc_sys_destroy(q) /\ (reg[q] = "live" \/ pc' \in {"wait", "children"})
    <3>1. /\ KInv' /\ UNCHANGED <<parent, dead, tcb>>
          /\ reg[q] = "live" => Onward
          /\ \A p \in Proc : Idle(p) => Gains(p)
      BY <2>1, <2>2, <2>5, DestroyKept, Zenon
    <3>2. QED
      BY <2>1, <2>5, <3>1, Zenon
  <2>6. QED
    BY <2>3, <2>4, <2>5, Zenon
<1>11. QED
  BY <1>1, <1>2, <1>3, <1>4, <1>5, <1>6, <1>7, <1>8, <1>9, <1>10, Zenon DEF Reap

\* The victim stays the victim as long as its body is there.
LEMMA VictimKept ==
  ASSUME ReaperInv, Onward, stack' = stack, pc \in WorkPcs
  PROVE  process_is_dead(Pid)' /\ reg'[Pid'] # "none"
<1>1. stack # <<>> /\ stack \in Seq(Proc) /\ process_is_dead(Pid) /\ reg[Pid] # "none"
  BY Zenon DEF ReaperInv
<1>2. Pid \in Proc /\ Pid' = Pid
  BY <1>1, SMTT(60) DEF Pid
<1>3. PICK p \in Proc : p = Pid
  BY <1>2, Zenon
<1>4. process_is_dead(p)' /\ reg'[p] # "none"
  BY <1>1, <1>3, DeadGrows, Zenon DEF Onward
<1>5. QED
  BY <1>2, <1>3, <1>4, Zenon

\* Every step of the reaper, for its own state: the loops work on one dead,
\* registered process until PROC_DESTROY says it is gone.
LEMMA ReapState ==
  ASSUME KInv, ReaperInv, Reap
  PROVE  ReaperInv'
<1>a. /\ tcb'[Init1] = Start(First)
      /\ ~(pc = "destroy" /\ pc' \in {"wait", "children"}) => Onward
  BY ReapKernel, Zenon DEF ReaperInv
<1>b. /\ stack \in Seq(Proc) /\ spawned \subseteq Proc /\ ProcTypes /\ BlockTypes
      /\ tcb[Init1] = Start(First)
  BY Parts, Zenon DEF ReaperInv
<1>c. /\ stack # <<>> => Pid \in Proc
      /\ pc \in WorkPcs => Pid \in Proc /\ process_is_dead(Pid) /\ reg[Pid] # "none" /\ stack # <<>>
      /\ pc = "children" => stack # <<>>
      /\ pc \in {"sharers", "unshare", "dma", "revoke", "free"} => item \in Block
  BY ReaperFacts, Zenon
<1>d. tcb'[Init1] = Start(First)'
  BY <1>a, Zenon DEF Start
<1>e. ASSUME pc' \in {"wait", "ack"}, stack' \in Seq(Proc), spawned' \subseteq Proc PROVE ReaperInv'
  BY <1>d, <1>e, Zenon DEF ReaperInv, WorkPcs
<1>f. ASSUME pc' = "children", stack' \in Seq(Proc), stack' # <<>>, spawned' \subseteq Proc PROVE ReaperInv'
  BY <1>d, <1>f, Zenon DEF ReaperInv, WorkPcs
<1>g. ASSUME pc \in WorkPcs, pc' \in WorkPcs, UNCHANGED <<stack, spawned>>,
             pc' \in {"sharers", "unshare", "dma", "revoke", "free"} => item' \in Block
      PROVE ReaperInv'
  <2>1. Onward
    BY <1>a, <1>g, Zenon DEF WorkPcs
  <2>2. process_is_dead(Pid)' /\ reg'[Pid'] # "none"
    BY <1>g, <2>1, VictimKept, Zenon
  <2>3. QED
    BY <1>b, <1>c, <1>d, <1>g, <2>2, Zenon DEF ReaperInv
<1>h. ASSUME Fail PROVE ReaperInv'
  <2>1. pc' = "wait" /\ stack' = <<>> /\ spawned' = spawned
    BY <1>h, Zenon DEF Fail
  <2>2. QED
    BY <1>b, <1>e, <2>1, SMTT(60)
<1>1. CASE ReapEvent
  <2>1. pc' = "ack" /\ UNCHANGED <<stack, spawned>>
    BY <1>1, Zenon DEF ReapEvent, With
  <2>2. QED
    BY <1>b, <1>e, <2>1, Zenon
<1>2. CASE ReapAck
  <2>1. CASE item \in spawned
    <3>1. pc' = "children" /\ stack' = <<item>> /\ spawned' = spawned \ {item}
      BY <1>2, <2>1, Zenon DEF ReapAck
    <3>2. <<item>> \in Seq(Proc) /\ <<item>> # <<>>
      BY <1>b, <2>1, SMTT(60)
    <3>3. QED
      BY <1>b, <1>f, <3>1, <3>2, Zenon
  <2>2. CASE item \notin spawned
    <3>1. pc' = "wait" /\ UNCHANGED <<stack, spawned>>
      BY <1>2, <2>2, Zenon DEF ReapAck, Goto
    <3>2. QED
      BY <1>b, <1>e, <3>1, Zenon
  <2>3. QED
    BY <2>1, <2>2, Zenon
<1>3. CASE ReapChildren
  <2>1. pc = "children" /\ Pid \in Proc /\ Quiet
    BY <1>3, <1>c, Zenon DEF ReapChildren
  <2>2. CASE Fail
    BY <1>h, <2>2, Zenon
  <2>3. CASE /\ Reapable /\ children[Pid] # {}
             /\ stack' = <<Least(children[Pid])>> \o stack
             /\ UNCHANGED <<pc, item, batch, spawned>>
    <3>1. Least(children[Pid]) \in Proc
      BY <1>b, <2>1, <2>3, LeastChild, Zenon DEF ProcTypes
    <3>2. PICK x \in Proc : x = Least(children[Pid])
      BY <3>1, Zenon
    <3>3. stack' \in Seq(Proc) /\ stack' # <<>>
      BY <1>b, <2>3, <3>2, SMTT(60)
    <3>4. QED
      BY <1>b, <1>f, <2>1, <2>3, <3>3, Zenon
  <2>4. CASE Reapable /\ Goto("threads")
    <3>1. pc' = "threads" /\ stack' = stack /\ spawned' = spawned
      BY <2>4, Zenon DEF Goto
    <3>2. process_is_dead(Pid) /\ reg[Pid] # "none"
      BY <2>1, <2>4, ReapableDead, Zenon DEF Reapable
    <3>3. UNCHANGED <<reg, parent, dead>>
      BY <2>1, Zenon DEF Quiet, kernelVars, procVars
    <3>4. PICK p \in Proc : p = Pid
      BY <2>1, Zenon
    <3>5. Pid' = Pid
      BY <3>1, Zenon DEF Pid
    <3>6. process_is_dead(p)' /\ reg'[p] # "none"
      BY <3>2, <3>3, <3>4, DeadGrows, Zenon
    <3>7. process_is_dead(Pid)' /\ reg'[Pid'] # "none"
      BY <3>4, <3>5, <3>6, Zenon
    <3>8. QED
      BY <1>b, <1>c, <1>d, <2>1, <3>1, <3>7, Zenon DEF ReaperInv, WorkPcs
  <2>5. QED
    BY <1>3, <2>2, <2>3, <2>4, Zenon DEF ReapChildren
<1>4. CASE ReapThreads
  <2>1. Fail \/ (\E u : With("thread", u)) \/ Goto("views")
    BY <1>4, Zenon DEF ReapThreads
  <2>2. QED
    BY <1>g, <1>h, <1>4, <2>1, Zenon DEF ReapThreads, With, Goto, WorkPcs
<1>5. CASE ReapThread \/ ReapView
  <2>1. pc \in {"thread", "view"} /\ pc' \in {"threads", "views"} /\ UNCHANGED <<stack, spawned>>
    BY <1>5, Zenon DEF ReapThread, ReapView, Goto
  <2>2. QED
    BY <1>g, <2>1, Zenon DEF WorkPcs
<1>6. CASE ReapViews
  <2>1. Fail \/ (\E u : With("view", u)) \/ Goto("blocks")
    BY <1>6, Zenon DEF ReapViews
  <2>2. QED
    BY <1>g, <1>h, <1>6, <2>1, Zenon DEF ReapViews, With, Goto, WorkPcs
<1>7. CASE ReapBlocks
  <2>1. Fail \/ (\E x \in Block : With("sharers", x)) \/ Goto("destroy")
    BY <1>7, Zenon DEF ReapBlocks, Owned
  <2>2. QED
    BY <1>g, <1>h, <1>7, <2>1, Zenon DEF ReapBlocks, With, Goto, WorkPcs
<1>8. CASE ReapSharers \/ ReapDma
  <2>1. \/ Fail
        \/ /\ pc \in {"sharers", "dma"} /\ pc' \in {"unshare", "dma", "revoke", "free"}
           /\ UNCHANGED <<stack, item, spawned>>
    BY <1>8, Zenon DEF ReapSharers, ReapDma, List
  <2>2. QED
    BY <1>c, <1>g, <1>h, <2>1, Zenon DEF WorkPcs
<1>9. CASE ReapUnshare \/ ReapRevoke
  <2>1. /\ pc \in {"unshare", "revoke"} /\ pc' \in {"unshare", "sharers", "revoke", "dma"}
        /\ UNCHANGED <<stack, item, spawned>>
    BY <1>9, Zenon DEF ReapUnshare, ReapRevoke, Next1
  <2>2. QED
    BY <1>c, <1>g, <2>1, Zenon DEF WorkPcs
<1>10. CASE ReapFree
  <2>1. pc = "free" /\ (Fail \/ Goto("blocks"))
    BY <1>10, Zenon DEF ReapFree
  <2>2. QED
    BY <1>g, <1>h, <2>1, Zenon DEF Goto, WorkPcs
<1>11. CASE ReapDestroy
  <2>1. /\ pc = "destroy"
        /\ \/ Fail \/ UNCHANGED reaperVars
           \/ /\ stack' = Tail(stack) /\ spawned' = spawned
              /\ pc' = IF stack' = <<>> THEN "wait" ELSE "children"
    BY <1>11, Zenon DEF ReapDestroy
  <2>2. CASE UNCHANGED reaperVars
    BY <1>g, <2>1, <2>2, Zenon DEF reaperVars, WorkPcs
  <2>3. CASE /\ stack' = Tail(stack) /\ spawned' = spawned
             /\ pc' = IF stack' = <<>> THEN "wait" ELSE "children"
    <3>1. stack' \in Seq(Proc)
      <4>1. stack # <<>>
        BY <1>c, <2>1, Zenon DEF WorkPcs
      <4>2. Tail(stack) \in Seq(Proc)
        BY <1>b, <4>1
      <4>3. QED
        BY <2>3, <4>2, Zenon
    <3>2. QED
      BY <1>b, <1>e, <1>f, <2>3, <3>1, Zenon
  <2>4. QED
    BY <1>h, <2>1, <2>2, <2>3, Zenon
<1>12. QED
  BY <1>1, <1>2, <1>3, <1>4, <1>5, <1>6, <1>7, <1>8, <1>9, <1>10, <1>11, Zenon DEF Reap

-----------------------------------------------------------------------------
\* The theorems.

\* The state that init boots into.
LEMMA InitInv ==
  ASSUME Init
  PROVE  KInv /\ ReaperInv
<1>a. /\ reg = [p \in Proc |-> IF p \in Children \cup {First} THEN "live" ELSE "none"]
      /\ parent = [p \in Proc |-> IF p \in Children THEN First ELSE Nil]
      /\ children = [p \in Proc |-> IF p = First THEN Children ELSE {}]
      /\ dead = [p \in Proc |-> FALSE] /\ told = [p \in Proc |-> FALSE]
  BY Zenon DEF Init
<1>b. /\ threads = [p \in Proc |-> CASE p = First -> {Init1}
                                     [] p \in Children -> {ThreadOf[p]}
                                     [] OTHER -> {}]
      /\ tcb = [t \in Thread |-> IF t = Init1 THEN Start(First)
                                 ELSE IF \E p \in Children : ThreadOf[p] = t
                                 THEN Start(CHOOSE p \in Children : ThreadOf[p] = t)
                                 ELSE NoThread]
      /\ pins = [b \in Block |-> 0] /\ calls = 0
  BY Zenon DEF Init
<1>c. /\ owner = [b \in Block |-> OwnerOf(b)]
      /\ sharers = [b \in Block |-> {}] /\ views = [p \in Proc |-> {}]
      /\ pending = [p \in Proc |-> <<>>] /\ ring = RingOf
      /\ anchor = [p \in Proc |-> [s \in Scheme |-> AnchorOf(p, s)]]
      /\ cq = [b \in Block |-> <<>>] /\ rung = [b \in Block |-> TRUE]
  BY Zenon DEF Init
<1>d. /\ domain = [d \in Domain |-> [live |-> DevicesOf[d] # {}, devices |-> DevicesOf[d],
                                     mappings |-> {}]]
      /\ slpt = [d \in Domain |-> {}]
      /\ context = [v \in Requester |-> IF \E d \in Domain : v \in DevicesOf[d]
                                        THEN CHOOSE d \in Domain : v \in DevicesOf[d] ELSE Nil]
      /\ dma_maps = [b \in Block |-> {}]
      /\ fault = [v \in Requester |-> NoFault]
  BY Zenon DEF Init
<1>e. pc = "wait" /\ stack = <<>> /\ spawned = Children
  BY Zenon DEF Init
<1>f. /\ First \in Proc /\ Nil \notin Proc /\ Nil \notin Block /\ Nil \notin Thread /\ Nil \notin Domain
      /\ Init1 \in Thread /\ First \notin Children /\ Children \subseteq Proc
      /\ Slots \in Nat /\ CallMax \in Nat
  BY ObjectsAssumption, ReaperAssumption, Zenon DEF Domain
<1>1. ProcTypes
  BY <1>a, <1>f, Zenon DEF ProcTypes
<1>g. /\ \A p \in Proc : /\ p = First => threads[p] = {Init1}
                         /\ p \in Children => threads[p] = {ThreadOf[p]}
                         /\ p # First /\ p \notin Children => threads[p] = {}
      /\ \A p \in Children : ThreadOf[p] \in Thread \ {Init1}
      /\ \A p, q \in Children : ThreadOf[p] = ThreadOf[q] => p = q
      /\ threads = [p \in Proc |-> threads[p]]
  <2>1. /\ \A p \in Children : ThreadOf[p] \in Thread \ {Init1}
        /\ \A p, q \in Children : ThreadOf[p] = ThreadOf[q] => p = q
    BY ReaperAssumption, Zenon DEF IsInjective
  <2>2. ASSUME NEW p \in Proc
        PROVE  /\ p = First => threads[p] = {Init1}
               /\ p \in Children => threads[p] = {ThreadOf[p]}
               /\ p # First /\ p \notin Children => threads[p] = {}
    BY <1>b, <1>f, Zenon
  <2>3. QED
    BY <1>b, <2>1, <2>2, Zenon
<1>h. /\ tcb[Init1] = Start(First)
      /\ \A p \in Children : tcb[ThreadOf[p]] = Start(p)
      /\ \A t \in Thread : t # Init1 /\ (\A p \in Children : ThreadOf[p] # t) => tcb[t] = NoThread
      /\ tcb = [t \in Thread |-> tcb[t]]
  <2>1. ASSUME NEW p \in Children PROVE tcb[ThreadOf[p]] = Start(p)
    <3>1. (CHOOSE q \in Children : ThreadOf[q] = ThreadOf[p]) = p
      BY <1>g, Zenon
    <3>2. ThreadOf[p] \in Thread \ {Init1}
      BY <1>g, Zenon
    <3>3. QED
      BY <1>b, <3>1, <3>2, Zenon
  <2>2. QED
    BY <1>b, <1>f, <2>1, Zenon
<1>i. \A p \in Proc : /\ Start(p) \in Tcb /\ Start(p).proc = p /\ Start(p).at = "user"
                      /\ Start(p).done = Nil
  BY Zenon DEF Start, Tcb
<1>j. NoThread \in Tcb /\ NoThread.proc = Nil /\ NoThread.at = "none" /\ NoThread.done = Nil
  BY Zenon DEF NoThread, Tcb
<1>k. ASSUME NEW t \in Thread
      PROVE  /\ tcb[t] \in Tcb /\ tcb[t].done = Nil /\ tcb[t].at \in {"none", "user"}
             /\ tcb[t].at # "none" => tcb[t].proc # Nil
             /\ \A p \in Proc : (t \in threads[p]) <=> (tcb[t].proc = p)
  <2>1. CASE t = Init1
    <3>1. tcb[t] = Start(First)
      BY <1>h, <2>1, Zenon
    <3>2. ASSUME NEW p \in Proc PROVE (t \in threads[p]) <=> (p = First)
      <4>1. CASE p = First
        BY <1>g, <2>1, <4>1, Zenon
      <4>2. CASE p \in Children
        <5>1. p # First
          BY <1>f, <4>2, Zenon
        <5>2. threads[p] = {ThreadOf[p]} /\ ThreadOf[p] # Init1
          BY <1>g, <4>2, Zenon
        <5>3. t \notin threads[p]
          BY <2>1, <5>2, Zenon
        <5>4. QED
          BY <5>1, <5>3, Zenon
      <4>3. CASE p # First /\ p \notin Children
        BY <1>g, <4>3, Zenon
      <4>4. QED
        BY <4>1, <4>2, <4>3, Zenon
    <3>3. Start(First) \in Tcb /\ Start(First).proc = First /\ Start(First).at = "user"
          /\ Start(First).done = Nil
      BY <1>f, <1>i, Zenon
    <3>4. QED
      BY <1>f, <3>1, <3>2, <3>3, Zenon
  <2>2. CASE \E c \in Children : ThreadOf[c] = t
    <3>1. PICK c \in Children : ThreadOf[c] = t
      BY <2>2, Zenon
    <3>2. c \in Proc /\ c # First /\ tcb[t] = Start(c) /\ t # Init1 /\ tcb[t].proc = c
      BY <1>f, <1>g, <1>h, <1>i, <3>1, Zenon
    <3>3. \A p \in Proc : (t \in threads[p]) <=> (p = c)
      <4> SUFFICES ASSUME NEW p \in Proc PROVE (t \in threads[p]) <=> (p = c)
        BY Zenon
      <4>1. CASE p = First
        BY <1>g, <3>2, <4>1, Zenon
      <4>2. CASE p \in Children
        <5>1. threads[p] = {ThreadOf[p]}
          BY <1>g, <4>2, Zenon
        <5>2. QED
          BY <1>g, <3>1, <4>2, <5>1, Zenon
      <4>3. CASE p # First /\ p \notin Children
        BY <1>g, <3>1, <4>3, Zenon
      <4>4. QED
        BY <4>1, <4>2, <4>3, Zenon
    <3>4. Start(c) \in Tcb /\ Start(c).at = "user" /\ Start(c).done = Nil
      BY <1>i, <3>2, Zenon
    <3>5. QED
      BY <1>f, <3>2, <3>3, <3>4, Zenon
  <2>3. CASE t # Init1 /\ \A p \in Children : ThreadOf[p] # t
    <3>1. tcb[t] = NoThread
      BY <1>h, <2>3, Zenon
    <3>2. ASSUME NEW p \in Proc PROVE t \notin threads[p]
      <4>1. CASE p = First
        BY <1>g, <2>3, <4>1, Zenon
      <4>2. CASE p \in Children
        <5>1. threads[p] = {ThreadOf[p]} /\ ThreadOf[p] # t
          BY <1>g, <2>3, <4>2, Zenon
        <5>2. QED
          BY <5>1, Zenon
      <4>3. CASE p # First /\ p \notin Children
        BY <1>g, <4>3, Zenon
      <4>4. QED
        BY <4>1, <4>2, <4>3, Zenon
    <3>3. QED
      BY <1>f, <1>j, <3>1, <3>2, Zenon
  <2>4. QED
    BY <2>1, <2>2, <2>3, Zenon
<1>2. ThreadTypes
  <2>1. tcb \in [Thread -> Tcb]
    BY <1>h, <1>k, Zenon
  <2>2. \A p \in Proc : threads[p] \in SUBSET Thread
    <3> SUFFICES ASSUME NEW p \in Proc PROVE threads[p] \in SUBSET Thread
      BY Zenon
    <3>1. CASE p = First
      BY <1>f, <1>g, <3>1, Zenon
    <3>2. CASE p \in Children
      <4>1. threads[p] = {ThreadOf[p]} /\ ThreadOf[p] \in Thread
        BY <1>g, <3>2, Zenon
      <4>2. QED
        BY <4>1, Zenon
    <3>3. CASE p # First /\ p \notin Children
      BY <1>g, <3>3, Zenon
    <3>4. QED
      BY <3>1, <3>2, <3>3, Zenon
  <2>3. threads \in [Proc -> SUBSET Thread]
    BY <1>g, <2>2, Zenon
  <2>4. 0 \in Nat /\ 0 \in 0 .. CallMax
    BY <1>f
  <2>5. QED
    BY <1>b, <2>1, <2>3, <2>4, Zenon DEF ThreadTypes
<1>3. Pins /\ ThreadIndex
  <2>1. ASSUME NEW b \in Block PROVE pins[b] = Cardinality({t \in Thread : tcb[t].done = b})
    <3>1. {t \in Thread : tcb[t].done = b} = {}
      BY <1>f, <1>k, ZenonT(30)
    <3>2. QED
      BY <1>b, <3>1, FS_EmptySet, Zenon
  <2>2. QED
    BY <1>k, <2>1, Zenon DEF Pins, ThreadIndex
<1>4. Threads
  BY <1>2, <1>3, Zenon DEF Threads
<1>5. ASSUME NEW b \in Block
      PROVE  /\ owner[b] \in Proc \cup {Nil}
             /\ \A p \in Proc : (owner[b] = p) <=> (b \in BlocksOf[p])
  <2>1. owner[b] = OwnerOf(b)
    BY <1>c, Zenon
  <2>2. \A p, q \in Proc : b \in BlocksOf[p] /\ b \in BlocksOf[q] => p = q
    BY ReaperAssumption, Zenon
  <2>3. QED
    BY <1>f, <2>1, <2>2, Zenon DEF OwnerOf
<1>6. BlockTypes
  <2>1. <<>> \in Seq(Block)
    OBVIOUS
  <2>2. QED
    BY <1>c, <1>5, <2>1, Zenon DEF BlockTypes
<1>7. ASSUME NEW p \in Proc, NEW s \in Scheme
      PROVE  /\ anchor[p][s] \in Block \cup {Nil}
             /\ \A b \in Block : (anchor[p][s] = b) <=> (b \in BlocksOf[p] /\ RingOf[b] = s)
  <2>1. anchor[p][s] = AnchorOf(p, s)
    BY <1>c, Zenon
  <2>2. BlocksOf[p] \subseteq Block /\ s # "none"
    BY ReaperAssumption, Zenon DEF Scheme
  <2>3. \A b, c \in BlocksOf[p] : RingOf[b] = s /\ RingOf[c] = s => b = c
    BY <2>2, ReaperAssumption, Zenon
  <2>4. QED
    BY <1>f, <2>1, <2>2, <2>3, Zenon DEF AnchorOf
<1>8. ChanTypes
  <2>1. anchor \in [Proc -> [Scheme -> Block \cup {Nil}]]
    BY <1>c, <1>7, Zenon
  <2>2. ring \in [Block -> Scheme \cup {"none"}]
    BY <1>c, ReaperAssumption, Zenon
  <2>3. <<>> \in Seq(Cqe) /\ Len(<<>>) <= Slots
    BY <1>f
  <2>4. QED
    BY <1>c, <2>1, <2>2, <2>3, Zenon DEF ChanTypes
<1>9. ASSUME NEW v \in Requester
      PROVE  /\ context[v] \in Domain \cup {Nil}
             /\ \A d \in Domain : (v \in DevicesOf[d]) <=> (context[v] = d)
  <2>1. \A d, e \in Domain : v \in DevicesOf[d] /\ v \in DevicesOf[e] => d = e
    BY ReaperAssumption, Zenon
  <2>2. QED
    BY <1>d, <1>f, <2>1, Zenon
<1>10. IommuTypes
  <2>1. NoFault \in [due : BOOLEAN, posted : BOOLEAN]
    BY Zenon DEF NoFault
  <2>2. domain \in [Domain -> [live : BOOLEAN, devices : SUBSET Requester, mappings : SUBSET Block]]
    BY <1>d, ReaperAssumption, Zenon
  <2>3. context \in [Requester -> Domain \cup {Nil}]
    BY <1>d, <1>9, Zenon
  <2>4. QED
    BY <1>d, <2>1, <2>2, <2>3, Zenon DEF IommuTypes
<1>11. Edges
  <2>1. IsInjective(<<>>) /\ Range(<<>>) = {}
    BY DEF IsInjective, Range
  <2>2. QED
    BY <1>c, <2>1, Zenon DEF Edges
<1>12. Holders
  <2>1. ASSUME NEW p \in Proc, Owned(p) # {} PROVE reg[p] = "live"
    <3>1. BlocksOf[p] # {}
      BY <1>5, <2>1, Zenon DEF Owned
    <3>2. p \in Children \cup {First}
      BY <3>1, ReaperAssumption, Zenon
    <3>3. QED
      BY <1>a, <3>2, Zenon
  <2>2. QED
    BY <1>c, <2>1, Zenon DEF Holders
<1>13. Anchors
  <2>1. ASSUME NEW p \in Proc, NEW s \in Scheme, NEW b \in Block
        PROVE  (anchor[p][s] = b) <=> (owner[b] = p /\ ring[b] = s)
    <3>1. (anchor[p][s] = b) <=> (b \in BlocksOf[p] /\ RingOf[b] = s)
      <4>1. \A x \in Block : (anchor[p][s] = x) <=> (x \in BlocksOf[p] /\ RingOf[x] = s)
        BY <1>7, ZenonT(60)
      <4>2. QED
        BY <4>1
    <3>2. (owner[b] = p) <=> (b \in BlocksOf[p])
      BY <1>5, Zenon
    <3>3. ring[b] = RingOf[b]
      BY <1>c, Zenon
    <3>4. QED
      BY <3>1, <3>2, <3>3
  <2>2. QED
    BY <2>1, Zenon DEF Anchors
<1>14. Mappings /\ Attachments
  <2>1. Mappings
    BY <1>d, Zenon DEF Mappings
  <2>2. \A d \in Domain : domain[d].devices = DevicesOf[d]
    BY <1>d, Zenon
  <2>3. Attachments
    BY <1>9, <2>2, Zenon DEF Attachments
  <2>4. QED
    BY <2>1, <2>3, Zenon
<1>15. TreeInv
  <2>1. \A p \in Proc : Alive(p)
    BY <1>a, <1>g, Zenon DEF Alive
  <2>2. \A p \in Proc : Unused(p) => Fresh(p)
    BY <1>a, <1>f, <1>g, Zenon DEF Unused, Fresh
  <2>3. \A p, c \in Proc : c \in children[p] => parent[c] = p
    BY <1>a, Zenon
  <2>4. \A t \in Thread : (tcb[t].at # "none" => Me(t) # Nil) /\ ~Creating(t)
    BY <1>k, Zenon DEF Me, Creating
  <2>5. parent[First] = Nil
    BY <1>a, <1>f, Zenon
  <2>6. QED
    BY <2>1, <2>2, <2>3, <2>4, <2>5, Zenon DEF TreeInv
<1>16. BlockInv
  <2> SUFFICES ASSUME NEW b \in Block, owner[b] = Nil
               PROVE  ring[b] = "none" /\ dma_maps[b] = {}
    BY Zenon DEF BlockInv, Released
  <2>1. \A p \in Proc : (owner[b] = p) <=> (b \in BlocksOf[p])
    BY <1>5, Zenon
  <2>2. \A p \in Proc : b \notin BlocksOf[p]
    BY <1>f, <2>1, Zenon
  <2>3. ring[b] = "none"
    BY <1>c, <2>2, ReaperAssumption, Zenon
  <2>4. QED
    BY <1>d, <2>3, Zenon
<1>17. NothingStranded
  <2>1. ASSUME NEW b \in Block, ring[b] # "none" PROVE Announced(b)
    <3>1. owner[b] \in Proc
      <4>1. PICK p \in Proc : b \in BlocksOf[p]
        BY <1>c, <2>1, ReaperAssumption, Zenon
      <4>2. QED
        BY <1>5, <4>1, Zenon
    <3>2. pending[owner[b]] = <<>> /\ tree_due(owner[b]) = {}
      BY <1>a, <1>c, <1>f, <3>1, Zenon DEF tree_due
    <3>3. OnRing(domain, b) \subseteq Requester
      BY <1>10, RingDevices, Zenon
    <3>4. \A v \in OnRing(domain, b) : ~fault[v].due
      BY <1>d, <3>3, Zenon DEF NoFault
    <3>5. QED
      BY <3>2, <3>4, Zenon DEF Announced
  <2>2. QED
    BY <2>1, Zenon DEF NothingStranded
<1>18. ReaperInv
  <2>1. stack \in Seq(Proc)
    BY <1>e
  <2>2. pc \notin WorkPcs /\ pc \notin {"children", "sharers", "unshare", "dma", "revoke", "free"}
    BY <1>e, Zenon DEF WorkPcs
  <2>3. QED
    BY <1>e, <1>f, <1>h, <2>1, <2>2, Zenon DEF ReaperInv
<1>19. QED
  BY <1>1, <1>4, <1>6, <1>8, <1>10, <1>11, <1>12, <1>13, <1>14, <1>15, <1>16, <1>17, <1>18, Parts, Zenon

\* Every step keeps the invariant, and what DeadGainsNothing says.
LEMMA NextInv ==
  ASSUME KInv, ReaperInv, [Next]_vars
  PROVE  KInv' /\ ReaperInv' /\ \A p \in Proc : Idle(p) => Gains(p)
<1>1. CASE Reap
  BY <1>1, ReapKernel, ReapState, Zenon
<1>2. CASE (\E t \in Other : ThreadStep(t)) /\ UNCHANGED reaperVars
  <2>1. PICK t \in Thread \ {Init1} : ThreadStep(t)
    BY <1>2, Zenon DEF Other
  <2>2. Kept(t)
    BY <2>1, ThreadKept, Counts, Zenon
  <2>3. tcb[Init1].at = "user" /\ Init1 \in Thread
    BY ReaperFacts, Zenon
  <2>4. KInv' /\ Onward /\ tcb'[Init1] = tcb[Init1] /\ \A p \in Proc : Idle(p) => Gains(p)
    BY <2>1, <2>2, <2>3, Zenon DEF Kept, Aside
  <2>5. QED
    BY <1>2, <2>4, ReaperFrame, Zenon
<1>3. CASE (\E v \in Requester : iommu_report_fault(v)) /\ UNCHANGED reaperVars
  <2>1. PICK v \in Requester : iommu_report_fault(v)
    BY <1>3, Zenon
  <2>2. UNCHANGED <<procVars, threadVars, blockVars, calls>>
    BY <2>1, Zenon DEF iommu_report_fault
  <2>3. KInv'
    BY <2>1, FaultInv, Zenon
  <2>4. Threads' /\ Fewer
    BY <2>2, SameKept, Zenon
  <2>5. Onward /\ \A p \in Proc : Idle(p) => Gains(p)
    BY <2>2, <2>4, ShrinkKept, Zenon DEF procVars, blockVars
  <2>6. tcb' = tcb
    BY <2>2, Zenon DEF threadVars
  <2>7. QED
    BY <1>3, <2>3, <2>5, <2>6, ReaperFrame, Zenon
<1>4. CASE UNCHANGED vars
  <2>1. Quiet /\ UNCHANGED reaperVars
    BY <1>4, Zenon DEF vars, Quiet
  <2>2. /\ KInv' /\ Onward /\ tcb' = tcb /\ \A p \in Proc : Idle(p) => Gains(p)
    BY <2>1, QuietKept, Zenon
  <2>3. QED
    BY <2>1, <2>2, ReaperFrame, Zenon
<1>5. QED
  BY <1>1, <1>2, <1>3, <1>4, Zenon DEF Next

\* KInv and ReaperInv are inductive.
LEMMA SpecInv == Spec => [](KInv /\ ReaperInv)
<1>1. Init => KInv /\ ReaperInv
  BY InitInv, Zenon
<1>2. KInv /\ ReaperInv /\ [Next]_vars => (KInv /\ ReaperInv)'
  BY NextInv, Zenon
<1>3. QED
  BY <1>1, <1>2, PTL DEF Spec

\* The indexes of umem.c, channel.c, iommu.c and process.c agree in every state,
\* whatever the interleaving of system calls, faults, deaths and reaping.
THEOREM IndexesAgreeCorrect == Spec => []IndexesAgree
<1>1. KInv /\ ReaperInv => IndexesAgree
  BY Zenon DEF KInv
<1>2. QED
  BY <1>1, SpecInv, PTL

\* No share edge, dead child or fault is left unannounced while its ring has room
\* and its owner owes no doorbell (ring_replay, channel.c).
THEOREM NothingStrandedCorrect == Spec => []NothingStranded
<1>1. KInv /\ ReaperInv => NothingStranded
  BY Zenon DEF KInv
<1>2. QED
  BY <1>1, SpecInv, PTL

\* A device reaches only blocks that have an owner (the DMA gate of umem_free).
THEOREM DmaOnlyOwnedCorrect == Spec => []DmaOnlyOwned
<1>1. ASSUME KInv PROVE DmaOnlyOwned
  <2>1. IommuTypes /\ Mappings /\ BlockInv
    BY <1>1, Parts, Zenon
  <2> SUFFICES ASSUME NEW v \in Requester, context[v] # Nil, NEW x \in slpt[context[v]]
               PROVE  owner[x] # Nil
    BY Zenon DEF DmaOnlyOwned
  <2>2. context[v] \in Domain /\ x \in Block
    BY <2>1, Zenon DEF IommuTypes
  <2>3. PICK d \in Domain : d = context[v]
    BY <2>2, Zenon
  <2>4. d \in dma_maps[x]
    BY <2>1, <2>2, <2>3, Zenon DEF Mappings
  <2>5. QED
    BY <2>1, <2>2, <2>4, Zenon DEF BlockInv, Released
<1>2. QED
  BY <1>1, SpecInv, PTL

\* Once a dead process has no thread left, it gains no child, thread, view or block:
\* proc_lookup refuses the dead, and process_create links a child under its creator.
THEOREM DeadGainsNothingCorrect == Spec => DeadGainsNothing
<1>1. ASSUME KInv, ReaperInv, [Next]_vars, NEW p \in Proc,
             reg[p] # "none", process_is_dead(p), threads[p] = {}
      PROVE  /\ children'[p] \subseteq children[p] /\ threads'[p] = {}
             /\ views'[p] \subseteq views[p]
             /\ \A b \in Block : owner'[b] = p => owner[b] = p
  BY <1>1, NextInv, Zenon DEF Idle, Gains
<1>2. KInv /\ ReaperInv /\ [Next]_vars
      => [\A p \in Proc :
            (reg[p] # "none" /\ process_is_dead(p) /\ threads[p] = {})
              => /\ children'[p] \subseteq children[p] /\ threads'[p] = {}
                 /\ views'[p] \subseteq views[p]
                 /\ \A b \in Block : owner'[b] = p => owner[b] = p]_<<children, threads, views, owner>>
  BY <1>1, Zenon
<1>3. QED
  BY <1>2, SpecInv, PTL DEF Spec, DeadGainsNothing
=============================================================================
