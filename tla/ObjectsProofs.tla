--------------------------- MODULE ObjectsProofs ---------------------------
(***************************************************************************)
(* What each handler of Objects.tla keeps, for any number of processes,    *)
(* threads, blocks, devices and queue slots.  ReaperProofs.tla draws the   *)
(* theorems from it.                                                       *)
(***************************************************************************)
EXTENDS Objects, TLAPS

KInv == IndexesAgree /\ TreeInv /\ BlockInv /\ NothingStranded

Threads == ThreadTypes /\ Pins /\ ThreadIndex

\* What Cardinality says of the sets of threads that Pins counts.
Counting ==
    \A S \in SUBSET Thread, u \in Thread :
        /\ u \in S => Cardinality(S) = Cardinality(S \ {u}) + 1 /\ Cardinality(S \ {u}) \in Nat
        /\ u \notin S => Cardinality(S \cup {u}) = Cardinality(S) + 1

\* No thread comes: each one stays in its process, or is gone.
Fewer ==
    /\ \A p \in Proc : threads'[p] \subseteq threads[p]
    /\ \A t \in Thread : /\ tcb'[t].at # "none" => tcb[t].at # "none" /\ tcb'[t].proc = tcb[t].proc
                         /\ tcb'[t].at = "creating" => tcb[t].at = "creating" /\ tcb'[t].arg = tcb[t].arg

-----------------------------------------------------------------------------
\* Operators.

\* process_is_dead: a mark stays, and a parent link is never rewritten.
LEMMA DeadGrows ==
  ASSUME NEW p \in Proc, process_is_dead(p),
         \A x \in Proc : parent[x] # Nil => parent'[x] = parent[x],
         \A x \in Proc : dead[x] => dead'[x]
  PROVE  process_is_dead(p)'
BY Zenon DEF process_is_dead, Upward

\* The second part of a concatenation (RemoveAt).
LEMMA SecondPart ==
  ASSUME NEW l \in Seq(Block), NEW r \in Seq(Block), NEW j \in 1 .. Len(l) + Len(r), j > Len(l)
  PROVE  (l \o r)[j] = r[j - Len(l)]
OBVIOUS

\* Unlinked: the entry leaves the list, the others stay once.
LEMMA RemoveOne ==
  ASSUME NEW s \in Seq(Block), IsInjective(s), NEW i \in DOMAIN s
  PROVE  /\ RemoveAt(s, i) \in Seq(Block)
         /\ IsInjective(RemoveAt(s, i))
         /\ Range(RemoveAt(s, i)) = Range(s) \ {s[i]}
<1> DEFINE l == SubSeq(s, 1, i - 1)
           r == SubSeq(s, i + 1, Len(s))
<1>1. RemoveAt(s, i) \in Seq(Block) /\ Len(RemoveAt(s, i)) = Len(s) - 1
  BY SMTT(60) DEF RemoveAt
<1>a. l \in Seq(Block) /\ Len(l) = i - 1 /\ \A j \in 1 .. i - 1 : l[j] = s[j]
  OBVIOUS
<1>b. r \in Seq(Block) /\ Len(r) = Len(s) - i /\ \A j \in 1 .. Len(s) - i : r[j] = s[j + i]
  OBVIOUS
<1>c. RemoveAt(s, i) = l \o r
  BY Zenon DEF RemoveAt
<1>2. ASSUME NEW j \in 1 .. Len(s) - 1
      PROVE  RemoveAt(s, i)[j] = IF j < i THEN s[j] ELSE s[j + 1]
  <2>1. CASE j < i
    BY <1>a, <1>b, <1>c, <2>1, SMTT(60)
  <2>2. CASE j >= i
    <3>1. j - (i - 1) \in 1 .. Len(r) /\ r[j - (i - 1)] = s[j + 1]
      BY <1>b, <2>2, SMTT(60)
    <3> HIDE DEF l, r
    <3>2. RemoveAt(s, i)[j] = r[j - Len(l)]
      <4>1. j \in 1 .. Len(l) + Len(r) /\ j > Len(l)
        BY <1>a, <1>b, <2>2
      <4>2. (l \o r)[j] = r[j - Len(l)]
        BY <1>a, <1>b, <4>1, SecondPart, Zenon
      <4>3. QED
        BY <1>c, <4>2, Zenon
    <3>3. j - Len(l) = j - (i - 1) /\ ~(j < i)
      BY <1>a, <2>2
    <3>4. QED
      BY <3>1, <3>2, <3>3, Zenon
  <2>3. QED
    BY <2>1, <2>2
<1>3. ASSUME NEW a \in 1 .. Len(s) - 1, NEW b \in 1 .. Len(s) - 1,
             RemoveAt(s, i)[a] = RemoveAt(s, i)[b]
      PROVE  a = b
  <2>1. \A j, k \in 1 .. Len(s) : s[j] = s[k] => j = k
    BY DEF IsInjective
  <2>2. a \in 1 .. Len(s) /\ a + 1 \in 1 .. Len(s) /\ b \in 1 .. Len(s) /\ b + 1 \in 1 .. Len(s)
    OBVIOUS
  <2>3. QED
    BY <1>2, <1>3, <2>1, <2>2
<1>d. IsInjective(RemoveAt(s, i))
  BY <1>1, <1>3 DEF IsInjective
<1>4. \A x : x \in Range(RemoveAt(s, i)) => x \in Range(s) \ {s[i]}
  BY <1>1, <1>2, SMTT(60) DEF IsInjective, Range
<1>5. ASSUME NEW x \in Range(s) \ {s[i]} PROVE x \in Range(RemoveAt(s, i))
  <2>1. PICK j \in DOMAIN s : x = s[j] /\ j # i
    BY Zenon DEF Range
  <2>2. CASE j < i
    BY <1>1, <1>2, <2>1, <2>2 DEF Range
  <2>3. CASE j > i
    <3>1. j - 1 \in 1 .. Len(s) - 1 /\ RemoveAt(s, i)[j - 1] = s[j]
      BY <1>2, <2>1, <2>3
    <3>2. QED
      BY <1>1, <2>1, <3>1 DEF Range
  <2>4. QED
    BY <2>1, <2>2, <2>3
<1>6. QED
  BY <1>1, <1>d, <1>4, <1>5, Zenon

\* The pending lists after one edge is unlinked.
LEMMA UnlinkOne ==
  ASSUME BlockTypes, Edges, NEW q \in Proc, NEW b \in Block
  PROVE  /\ Unlinked(q, b) \in [Proc -> Seq(Block)]
         /\ \A p \in Proc \ {q} : Unlinked(q, b)[p] = pending[p]
         /\ IsInjective(Unlinked(q, b)[q])
         /\ Range(Unlinked(q, b)[q]) = Range(pending[q]) \ {b}
         /\ pending[q] = <<>> => Unlinked(q, b)[q] = <<>>
<1>1. pending \in [Proc -> Seq(Block)] /\ pending[q] \in Seq(Block) /\ IsInjective(pending[q])
  BY Zenon DEF BlockTypes, Edges
<1>2. CASE b \in Range(pending[q])
  <2> DEFINE i == CHOOSE i \in DOMAIN pending[q] : pending[q][i] = b
  <2>1. i \in DOMAIN pending[q] /\ pending[q][i] = b
    BY <1>2, Zenon DEF Range
  <2>2. Unlinked(q, b) = [pending EXCEPT ![q] = RemoveAt(pending[q], i)]
    BY <1>1, <1>2, Zenon DEF Unlinked
  <2>3. pending[q] # <<>>
    BY <1>1, <2>1
  <2> HIDE DEF i
  <2>4. QED
    BY <1>1, <2>1, <2>2, <2>3, RemoveOne, Zenon
<1>3. CASE b \notin Range(pending[q])
  BY <1>1, <1>3, Zenon DEF Unlinked
<1>4. QED
  BY <1>2, <1>3, Zenon

-----------------------------------------------------------------------------
\* Frames: what a step leaves alone.

\* A step of a thread between user mode, a handler and a wait.
LEMMA ModeKept ==
  ASSUME KInv, NEW t \in Thread, NEW x \in {"user", "kernel", "parked", "leaving"},
         tcb[t].at \in {"user", "kernel", "parked"}, tcb' = [tcb EXCEPT ![t].at = x],
         UNCHANGED <<threads, pins>>, calls' \in 0 .. CallMax
  PROVE  Threads' /\ Fewer
<1>1. ThreadTypes /\ Pins /\ ThreadIndex
  BY Zenon DEF KInv, IndexesAgree, TypeOK
<1>2. ThreadTypes'
  BY <1>1, Zenon DEF ThreadTypes, Tcb
<1>a. \A u \in Thread : tcb'[u].proc = tcb[u].proc /\ tcb'[u].done = tcb[u].done
  BY <1>1, Zenon DEF ThreadTypes, Tcb
<1>3. ThreadIndex'
  BY <1>1, <1>a, Zenon DEF ThreadIndex
<1>4. ASSUME NEW b \in Block
      PROVE  pins'[b] = Cardinality({u \in Thread : tcb'[u].done = b})
  <2>1. {u \in Thread : tcb'[u].done = b} = {u \in Thread : tcb[u].done = b}
    BY <1>a, Zenon
  <2>2. QED
    BY <1>1, <2>1, Zenon DEF Pins
<1>5. Fewer
  BY <1>1, Zenon DEF Fewer, ThreadTypes, Tcb
<1>6. QED
  BY <1>2, <1>3, <1>4, <1>5, Zenon DEF Pins, Threads

\* No thread moves at all.
LEMMA SameKept ==
  ASSUME KInv, UNCHANGED <<threadVars, calls>>
  PROVE  Threads' /\ Fewer
<1>1. ThreadTypes /\ Pins /\ ThreadIndex
  BY Zenon DEF KInv, IndexesAgree, TypeOK
<1>2. ThreadTypes' /\ Pins' /\ ThreadIndex' /\ Fewer
  BY <1>1 DEF ThreadTypes, Pins, ThreadIndex, Fewer, threadVars
<1>3. QED
  BY <1>2, Zenon DEF Threads

\* The tree, when no process comes or goes and only p may be marked.
LEMMA TreeFrame ==
  ASSUME KInv, Fewer, UNCHANGED <<reg, parent, children>>, NEW p \in Proc \cup {Nil},
         \A x \in Proc : (dead[x] => dead'[x]) /\ (x # p => dead'[x] = dead[x]),
         p # Nil => ~Unused(p) /\ \A t \in Thread : Creating(t) => tcb[t].arg # p
  PROVE  TreeInv'
<1>1. TreeInv /\ ThreadTypes /\ ProcTypes
  BY Zenon DEF KInv, IndexesAgree, TypeOK
<1>2. \A q \in Proc : process_is_dead(q) => process_is_dead(q)'
  BY DeadGrows, Zenon
<1>3. \A q \in Proc : Alive(q)'
  BY <1>1, <1>2, Zenon DEF TreeInv, Alive, Fewer
<1>4. \A q \in Proc : Unused(q)' => Fresh(q)'
  BY <1>1, ObjectsAssumption DEF TreeInv, Unused, Fresh, Fewer
<1>5. ASSUME NEW t \in Thread
      PROVE  tcb'[t].at # "none" => Me(t)' # Nil
  BY <1>1, Zenon DEF TreeInv, Me, Fewer
<1>6. ASSUME NEW t \in Thread, Creating(t)'
      PROVE  Linking(t)'
  <2>1. /\ Creating(t) /\ Linking(t) /\ tcb'[t].arg = tcb[t].arg /\ Me(t)' = Me(t)
        /\ tcb[t].arg \in Proc
    BY <1>1, <1>6, Zenon DEF TreeInv, Creating, Fewer, Me, Linking, ThreadTypes, Tcb
  <2>2. Fresh(tcb[t].arg)'
    BY <2>1, <1>1, Zenon DEF Linking, Fresh, Fewer
  <2>3. QED
    BY <2>1, <2>2, Zenon DEF Linking, Me, Fresh
<1>7. \A t, u \in Thread : (Creating(t) /\ Creating(u) /\ tcb[t].arg = tcb[u].arg => t = u)'
  BY <1>1 DEF TreeInv, Creating, Fewer
<1>8. QED
  BY <1>1, <1>3, <1>4, <1>5, <1>6, <1>7, Zenon DEF TreeInv

LEMMA EdgesFrame ==
  ASSUME Edges, UNCHANGED <<owner, sharers, views, pending, ring>>
  PROVE  Edges'
BY Zenon DEF Edges

LEMMA HoldersFrame ==
  ASSUME Holders, UNCHANGED <<owner, views, reg>>
  PROVE  Holders'
BY Zenon DEF Holders, Owned

LEMMA AnchorsFrame ==
  ASSUME Anchors, UNCHANGED <<anchor, owner, ring>>
  PROVE  Anchors'
BY DEF Anchors

LEMMA DmaFrame ==
  ASSUME Mappings, Attachments, UNCHANGED <<domain, context, slpt, dma_maps>>
  PROVE  Mappings' /\ Attachments'
BY Zenon DEF Mappings, Attachments

LEMMA BlockFrame ==
  ASSUME BlockInv, UNCHANGED <<owner, ring, dma_maps>>
  PROVE  BlockInv'
BY Zenon DEF BlockInv, Released

LEMMA TypesFrame ==
  ASSUME TypeOK
  PROVE  /\ UNCHANGED procVars => ProcTypes'
         /\ UNCHANGED blockVars => BlockTypes'
         /\ UNCHANGED chanVars => ChanTypes'
         /\ UNCHANGED iommuVars => IommuTypes'
<1>1. UNCHANGED procVars => ProcTypes'
  BY Zenon DEF TypeOK, ProcTypes, procVars
<1>2. UNCHANGED blockVars => BlockTypes'
  BY Zenon DEF TypeOK, BlockTypes, blockVars
<1>3. UNCHANGED chanVars => ChanTypes'
  BY Zenon DEF TypeOK, ChanTypes, chanVars
<1>4. UNCHANGED iommuVars => IommuTypes'
  BY Zenon DEF TypeOK, IommuTypes, iommuVars
<1>5. QED
  BY <1>1, <1>2, <1>3, <1>4, Zenon

\* A ring that keeps its place and gets no room has nothing new to announce.
LEMMA AnnouncedFrame ==
  ASSUME KInv, NEW b \in Block,
         ring'[b] = ring[b], owner'[b] = owner[b], rung'[b] => rung[b],
         Len(cq'[b]) \in Nat, Len(cq[b]) <= Len(cq'[b]),
         ring[b] = "shares" => (pending[owner[b]] = <<>> => pending'[owner[b]] = <<>>),
         ring[b] = "tree" => \/ process_is_dead(owner[b])' 
                             \/ ~process_is_dead(owner[b]) /\ tree_due(owner[b])' \subseteq tree_due(owner[b]),
         ring[b] = "iommu" => \A v \in OnRing(domain', b) :
                                 v \in OnRing(domain, b) /\ fault'[v] = fault[v],
         (ring[b] # "none" /\ rung[b] /\ Room(cq[b]) > 0)'
  PROVE  Announced(b)'
<1>1. Len(cq[b]) \in Nat /\ Slots \in Nat
  BY ObjectsAssumption, SMTT(60) DEF KInv, IndexesAgree, TypeOK, ChanTypes
<1>2. ring[b] # "none" /\ rung[b] /\ Room(cq[b]) > 0
  BY <1>1, SMTT(60) DEF Room
<1>3. Announced(b)
  BY <1>2, Zenon DEF KInv, NothingStranded
<1>4. ring'[b] = "shares" => pending'[owner'[b]] = <<>>
  BY <1>3, Zenon DEF Announced
<1>5. ring'[b] = "tree" => process_is_dead(owner[b])' \/ tree_due(owner[b])' = {}
  BY <1>3, Zenon DEF Announced
<1>6. ring'[b] = "iommu" => \A v \in OnRing(domain', b) : fault'[v].due => fault'[v].posted
  BY <1>3, Zenon DEF Announced
<1>7. QED
  BY <1>4, <1>5, <1>6, Zenon DEF Announced

\* KInv is the sum of its parts.
LEMMA Parts ==
  /\ KInv => /\ ProcTypes /\ ThreadTypes /\ BlockTypes /\ ChanTypes /\ IommuTypes
             /\ Edges /\ Holders /\ Anchors /\ Mappings /\ Attachments /\ TypeOK
             /\ Threads /\ TreeInv /\ BlockInv /\ NothingStranded
  /\ /\ ProcTypes /\ Threads /\ BlockTypes /\ ChanTypes /\ IommuTypes
     /\ Edges /\ Holders /\ Anchors /\ Mappings /\ Attachments
     /\ TreeInv /\ BlockInv /\ NothingStranded
     => KInv
BY Zenon DEF KInv, IndexesAgree, TypeOK, Threads

LEMMA PartsPrime ==
  ASSUME ProcTypes', Threads', BlockTypes', ChanTypes', IommuTypes',
         Edges', Holders', Anchors', Mappings', Attachments',
         TreeInv', BlockInv', NothingStranded'
  PROVE  KInv'
BY Zenon DEF KInv, IndexesAgree, TypeOK, Threads

\* What NothingStranded looks at.
LEMMA StrandedFrame ==
  ASSUME KInv, UNCHANGED <<parent, children, dead, told, ring, rung, cq>>,
         UNCHANGED <<domain, fault>>,
         \A p \in Proc : pending[p] = <<>> => pending'[p] = <<>>,
         \A b \in Block : ring[b] # "none" => owner'[b] = owner[b]
  PROVE  NothingStranded'
<1> SUFFICES ASSUME NEW b \in Block, (ring[b] # "none" /\ rung[b] /\ Room(cq[b]) > 0)'
             PROVE  Announced(b)'
  BY Zenon DEF NothingStranded
<1>1. owner'[b] = owner[b] /\ owner[b] \in Proc
  BY Parts, Zenon DEF BlockInv, Released, BlockTypes
<1>2. Len(cq'[b]) \in Nat /\ Len(cq[b]) <= Len(cq'[b])
  BY Parts DEF ChanTypes
<1>3. process_is_dead(owner[b])' <=> process_is_dead(owner[b])
  BY <1>1, Zenon DEF process_is_dead, Upward
<1>4. tree_due(owner[b])' = tree_due(owner[b])
  BY <1>1, Zenon DEF tree_due
<1>5. QED
  BY <1>1, <1>2, <1>3, <1>4, AnnouncedFrame, Zenon

-----------------------------------------------------------------------------
\* One lemma per operation on the kernel objects.  The thread that runs it leaves
\* its handler in the same step, and the lemmas take what that does from Threads'
\* and Fewer.

LEMMA StillInv ==
  ASSUME KInv, Threads', Fewer, UNCHANGED <<procVars, blockVars, chanVars, iommuVars>>
  PROVE  KInv'
<1>1. ProcTypes' /\ BlockTypes' /\ ChanTypes' /\ IommuTypes'
  BY Parts, TypesFrame, Zenon
<1>2. Edges' /\ Holders' /\ Anchors' /\ Mappings' /\ Attachments' /\ BlockInv'
  BY Parts, EdgesFrame, HoldersFrame, AnchorsFrame, DmaFrame, BlockFrame, Zenon
     DEF procVars, blockVars, chanVars, iommuVars
<1>3. TreeInv'
  BY TreeFrame, Zenon DEF procVars
<1>4. NothingStranded'
  BY StrandedFrame, Zenon DEF procVars, blockVars, chanVars, iommuVars
<1>5. QED
  BY <1>1, <1>2, <1>3, <1>4, PartsPrime, Zenon

\* mark_dead and notify_parent: the mark is announced to the parent at once, or its
\* channel is full or absent.
LEMMA DieInv ==
  ASSUME KInv, Threads', Fewer, NEW p \in Proc, Die(p), ~Unused(p),
         \A t \in Thread : Creating(t) => tcb[t].arg # p
  PROVE  KInv'
<1> DEFINE q == parent[p]
           r == anchor[q].tree
<1>a. /\ ProcTypes /\ BlockTypes /\ ChanTypes /\ TypeOK /\ Edges /\ Holders /\ Anchors
      /\ Mappings /\ Attachments /\ TreeInv /\ BlockInv
  BY Parts, Zenon
<1>b. p # First /\ q \in Proc /\ r \in Block \cup {Nil}
  BY <1>a DEF Die, mark_dead, Unused, ProcTypes, ChanTypes, Scheme
<1>c. /\ dead' = dead \/ dead' = [dead EXCEPT ![p] = TRUE]
      /\ UNCHANGED <<reg, parent, children, blockVars, ring, anchor, rung, iommuVars>>
  BY Zenon DEF Die, mark_dead
<1>d. /\ \A x \in Proc : (dead[x] => dead'[x]) /\ (x # p => dead'[x] = dead[x])
      /\ dead' \in [Proc -> BOOLEAN]
  BY <1>a, <1>c, Zenon DEF ProcTypes
<1>e. \A x \in Proc : process_is_dead(x) => process_is_dead(x)'
  BY <1>c, <1>d, DeadGrows, Zenon
<1>1. /\ told' \in [Proc -> BOOLEAN] /\ \A x \in Proc \ {p} : told'[x] = told[x]
      /\ told[p] => told'[p]
      /\ cq' \in [Block -> Seq(Cqe)]
      /\ \A b \in Block : Len(cq'[b]) <= Slots /\ Len(cq[b]) <= Len(cq'[b])
      /\ process_is_dead(q) \/ told'[p] \/ r = Nil \/ ~(Room(cq[r]) > 0)
  <2>1. CASE process_is_dead(q)
    <3>1. told' = [told EXCEPT ![p] = TRUE] /\ cq' = cq
      BY <2>1, Zenon DEF Die, notify_parent
    <3>2. QED
      BY <1>a, <2>1, <3>1, ObjectsAssumption, SMTT(60) DEF ProcTypes, ChanTypes
  <2>2. CASE ~process_is_dead(q) /\ r # Nil /\ Room(cq[r]) > 0
    <3>1. /\ cq' = [cq EXCEPT ![r] = Append(@, Event("dead", p))]
          /\ told' = [told EXCEPT ![p] = TRUE] /\ r \in Block
      BY <1>a, <1>b, <2>2, Zenon DEF Die, notify_parent, channel_child_dead_notify, ring_post, ChanTypes
    <3>2. Event("dead", p) \in Cqe
      BY Zenon DEF Event, Cqe
    <3>3. cq[r] \in Seq(Cqe) /\ Len(cq[r]) < Slots
      BY <1>a, <2>2, <3>1, ObjectsAssumption, SMTT(60) DEF ChanTypes, Room
    <3>4. /\ cq' \in [Block -> Seq(Cqe)]
          /\ \A b \in Block : Len(cq'[b]) <= Slots /\ Len(cq[b]) <= Len(cq'[b])
      BY <1>a, <3>1, <3>2, <3>3, ObjectsAssumption, SMTT(60) DEF ChanTypes
    <3>5. QED
      BY <1>a, <3>1, <3>4, Zenon DEF ProcTypes
  <2>3. CASE ~process_is_dead(q) /\ ~(r # Nil /\ Room(cq[r]) > 0)
    <3>1. told' = told /\ cq' = cq
      BY <2>3, Zenon DEF Die, notify_parent, channel_child_dead_notify
    <3>2. QED
      BY <1>a, <2>3, <3>1, ObjectsAssumption DEF ProcTypes, ChanTypes
  <2>4. QED
    BY <2>1, <2>2, <2>3, Zenon
<1>2. ProcTypes' /\ BlockTypes' /\ ChanTypes' /\ IommuTypes'
  <2>1. ProcTypes'
    BY <1>a, <1>c, <1>d, <1>1, Zenon DEF ProcTypes
  <2>2. ChanTypes'
    BY <1>a, <1>c, <1>1, Zenon DEF ChanTypes
  <2>3. QED
    BY <1>a, <1>c, <2>1, <2>2, TypesFrame, Zenon
<1>3. Edges' /\ Holders' /\ Anchors' /\ Mappings' /\ Attachments' /\ BlockInv'
  BY <1>a, <1>c, EdgesFrame, HoldersFrame, AnchorsFrame, DmaFrame, BlockFrame, Zenon
     DEF blockVars, iommuVars
<1>4. TreeInv'
  BY <1>c, <1>d, TreeFrame, Zenon
<1>5. ASSUME NEW b \in Block, (ring[b] # "none" /\ rung[b] /\ Room(cq[b]) > 0)'
      PROVE  Announced(b)'
  <2>1. ring'[b] = ring[b] /\ owner'[b] = owner[b] /\ rung'[b] = rung[b] /\ pending' = pending
    BY <1>c, Zenon DEF blockVars
  <2>2. owner[b] \in Proc
    BY <1>a, <1>5, <2>1, Zenon DEF BlockInv, Released, BlockTypes
  <2>3. Len(cq'[b]) \in Nat /\ Len(cq[b]) <= Len(cq'[b]) /\ Len(cq[b]) \in Nat
    BY <1>a, <1>1 DEF ChanTypes
  <2>4. ASSUME ring[b] = "tree", ~process_is_dead(owner[b]), NEW c \in tree_due(owner[b])'
        PROVE  c \in tree_due(owner[b])
    <3>1. c \in Proc /\ c \in children[owner[b]] /\ dead'[c] /\ ~told'[c] /\ parent[c] = owner[b]
      BY <1>a, <1>c, <2>1, <2>2, <2>4, Zenon DEF tree_due, TreeInv, ProcTypes
    <3>2. CASE c # p
      BY <1>d, <1>1, <3>1, <3>2, Zenon DEF tree_due
    <3>3. CASE c = p
      <4>1. r = b
        BY <1>a, <2>2, <2>4, <3>1, <3>3, SMTT(60) DEF Anchors, Scheme
      <4>2. ~(Room(cq[b]) > 0) /\ b # Nil
        BY <1>1, <2>4, <3>1, <3>3, <4>1, ObjectsAssumption, Zenon
      <4>3. QED
        BY <1>5, <2>3, <4>2, ObjectsAssumption, SMTT(60) DEF Room
    <3>4. QED
      BY <3>2, <3>3, Zenon
  <2>5. \/ process_is_dead(owner[b])'
        \/ ring[b] # "tree"
        \/ ~process_is_dead(owner[b]) /\ tree_due(owner[b])' \subseteq tree_due(owner[b])
    <3>1. CASE process_is_dead(owner[b])
      <4>1. PICK o \in Proc : o = owner[b]
        BY <2>2, Zenon
      <4>2. process_is_dead(o)'
        BY <1>e, <3>1, <4>1, Zenon
      <4>3. QED
        BY <2>1, <4>1, <4>2, Zenon
    <3>2. QED
      BY <2>4, <3>1, Zenon
  <2>6. domain' = domain /\ fault' = fault
    BY <1>c, Zenon DEF iommuVars
  <2>7. QED
    BY <1>5, <2>1, <2>3, <2>5, <2>6, AnnouncedFrame, Zenon
<1>6. QED
  BY <1>2, <1>3, <1>4, <1>5, PartsPrime, Zenon DEF NothingStranded

\* umem_alloc: a process with a running thread takes a free block.
LEMMA AllocInv ==
  ASSUME KInv, Threads', Fewer, NEW p \in Proc, threads[p] # {},
         NEW b \in Block, owner[b] = Nil, owner' = [owner EXCEPT ![b] = p],
         UNCHANGED <<procVars, sharers, views, pending, chanVars, iommuVars>>
  PROVE  KInv'
<1>a. /\ ProcTypes /\ BlockTypes /\ ChanTypes /\ TypeOK /\ Edges /\ Holders /\ Anchors
      /\ Mappings /\ Attachments /\ TreeInv /\ BlockInv
  BY Parts, Zenon
<1>b. ring[b] = "none" /\ sharers[b] = {} /\ reg[p] = "live"
  BY <1>a, Zenon DEF BlockInv, Released, Edges, TreeInv, Alive
<1>1. ProcTypes' /\ BlockTypes' /\ ChanTypes' /\ IommuTypes'
  <2>1. BlockTypes'
    BY <1>a, Zenon DEF BlockTypes
  <2>2. QED
    BY <1>a, <2>1, TypesFrame, Zenon
<1>2. Edges'
  BY <1>a, <1>b DEF Edges, chanVars, BlockTypes
<1>3. Holders'
  BY <1>a, <1>b, Zenon DEF Holders, Owned, procVars, BlockTypes
<1>4. Anchors'
  BY <1>a, <1>b DEF Anchors, chanVars, BlockTypes, Scheme
<1>5. BlockInv'
  BY <1>a, ObjectsAssumption, Zenon DEF BlockInv, Released, chanVars, iommuVars, BlockTypes
<1>6. TreeInv'
  BY TreeFrame, Zenon DEF procVars
<1>7. NothingStranded'
  BY <1>a, <1>b, StrandedFrame, Zenon DEF procVars, chanVars, iommuVars, BlockTypes
<1>8. QED
  BY <1>a, <1>1, <1>2, <1>3, <1>4, <1>5, <1>6, <1>7, PartsPrime, DmaFrame, Zenon DEF iommuVars

\* The share edges after one edge, of block b to process q, is gone.
LEMMA EdgeDropped ==
  ASSUME KInv, NEW b \in Block, NEW q \in Proc,
         views' = [views EXCEPT ![q] = @ \ {b}], pending' = Unlinked(q, b),
         sharers' = [sharers EXCEPT ![b] = @ \ {q}], ring' = ring,
         owner' = owner \/ (owner' = [owner EXCEPT ![b] = q] /\ ring[b] = "none")
  PROVE  /\ BlockTypes' /\ Edges'
         /\ \A p \in Proc : views'[p] \subseteq views[p]
         /\ \A p \in Proc : pending[p] = <<>> => pending'[p] = <<>>
<1>a. BlockTypes /\ Edges /\ ChanTypes
  BY Parts, Zenon
<1>b. /\ pending' \in [Proc -> Seq(Block)]
      /\ \A p \in Proc \ {q} : pending'[p] = pending[p]
      /\ IsInjective(pending'[q]) /\ Range(pending'[q]) = Range(pending[q]) \ {b}
      /\ pending[q] = <<>> => pending'[q] = <<>>
  <2>1. /\ Unlinked(q, b) \in [Proc -> Seq(Block)]
        /\ \A p \in Proc \ {q} : Unlinked(q, b)[p] = pending[p]
        /\ IsInjective(Unlinked(q, b)[q])
        /\ Range(Unlinked(q, b)[q]) = Range(pending[q]) \ {b}
        /\ pending[q] = <<>> => Unlinked(q, b)[q] = <<>>
    BY <1>a, UnlinkOne, Zenon
  <2>2. QED
    BY <2>1, Zenon
<1>1. BlockTypes'
  BY <1>a, <1>b, Zenon DEF BlockTypes
<1>2. \A x \in Block, p \in Proc : (p \in sharers'[x]) <=> (x \in views'[p])
  BY <1>a DEF Edges, BlockTypes
<1>3. \A x \in Block : owner'[x] \notin sharers'[x]
  BY <1>a DEF Edges, BlockTypes
<1>4. \A x \in Block : sharers'[x] # {} => owner'[x] # Nil /\ ring'[x] = "none"
  BY <1>a, ObjectsAssumption DEF Edges, BlockTypes
<1>5. ASSUME NEW p \in Proc
      PROVE  IsInjective(pending'[p]) /\ Range(pending'[p]) \subseteq views'[p]
  <2>1. CASE p = q
    BY <1>a, <1>b, <2>1, SMTT(60) DEF Edges, BlockTypes
  <2>2. CASE p # q
    BY <1>a, <1>b, <2>2 DEF Edges, BlockTypes
  <2>3. QED
    BY <2>1, <2>2, Zenon
<1>6. Edges'
  BY <1>2, <1>3, <1>4, <1>5, Zenon DEF Edges
<1>7. QED
  BY <1>a, <1>b, <1>1, <1>6, SMTT(60) DEF BlockTypes

\* umem_dropshare and umem_unshare: the edge leaves every index it is in.
LEMMA DropEdgeInv ==
  ASSUME KInv, Threads', Fewer, NEW b \in Block, NEW q \in Proc, DropEdge(b, q)
  PROVE  KInv'
<1>a. TypeOK /\ Holders /\ Anchors /\ Mappings /\ Attachments /\ BlockInv /\ BlockTypes
  BY Parts, Zenon
<1>b. UNCHANGED <<procVars, owner, chanVars, iommuVars>>
  BY Zenon DEF DropEdge
<1>1. /\ BlockTypes' /\ Edges'
      /\ \A p \in Proc : views'[p] \subseteq views[p]
      /\ \A p \in Proc : pending[p] = <<>> => pending'[p] = <<>>
  BY EdgeDropped, Zenon DEF DropEdge, chanVars
<1>2. Holders'
  BY <1>a, <1>b, <1>1, Zenon DEF Holders, Owned, procVars
<1>3. Anchors' /\ Mappings' /\ Attachments' /\ BlockInv'
  BY <1>a, <1>b, AnchorsFrame, DmaFrame, BlockFrame, Zenon DEF chanVars, iommuVars
<1>4. TreeInv'
  BY <1>b, TreeFrame, Zenon DEF procVars
<1>5. NothingStranded'
  BY <1>b, <1>1, StrandedFrame, Zenon DEF procVars, chanVars, iommuVars
<1>6. ProcTypes' /\ ChanTypes' /\ IommuTypes'
  BY <1>a, <1>b, TypesFrame, Zenon
<1>7. QED
  BY <1>1, <1>2, <1>3, <1>4, <1>5, <1>6, PartsPrime, Zenon

\* proc_sys_vm_move: the block changes hands, and a view the receiver had is gone.
LEMMA MoveInv ==
  ASSUME KInv, Threads', Fewer, NEW b \in Block, NEW q \in Proc, proc_lookup(q),
         ring[b] = "none", owner' = [owner EXCEPT ![b] = q], owner[b] # Nil,
         views' = [views EXCEPT ![q] = @ \ {b}], pending' = Unlinked(q, b),
         sharers' = [sharers EXCEPT ![b] = @ \ {q}],
         UNCHANGED <<procVars, chanVars, iommuVars>>
  PROVE  KInv'
<1>a. /\ TypeOK /\ Holders /\ Anchors /\ Mappings /\ Attachments /\ BlockInv /\ BlockTypes
      /\ ProcTypes /\ TreeInv
  BY Parts, Zenon
<1>1. /\ BlockTypes' /\ Edges'
      /\ \A p \in Proc : views'[p] \subseteq views[p]
      /\ \A p \in Proc : pending[p] = <<>> => pending'[p] = <<>>
  BY EdgeDropped, Zenon DEF chanVars
<1>2. reg[q] = "live"
  BY <1>a, Zenon DEF proc_lookup, TreeInv, Alive, ProcTypes
<1>3. Holders'
  BY <1>a, <1>1, <1>2, SMTT(60) DEF Holders, Owned, procVars, BlockTypes
<1>4. Anchors'
  BY <1>a DEF Anchors, BlockTypes, chanVars, Scheme
<1>5. BlockInv'
  BY <1>a, ObjectsAssumption, Zenon DEF BlockInv, Released, BlockTypes, chanVars, iommuVars
<1>6. Mappings' /\ Attachments' /\ TreeInv'
  BY <1>a, DmaFrame, TreeFrame, Zenon DEF iommuVars, procVars
<1>7. NothingStranded'
  BY <1>a, <1>1, StrandedFrame, Zenon DEF procVars, chanVars, iommuVars, BlockTypes
<1>8. ProcTypes' /\ ChanTypes' /\ IommuTypes'
  BY <1>a, TypesFrame, Zenon
<1>9. QED
  BY <1>1, <1>3, <1>4, <1>5, <1>6, <1>7, <1>8, PartsPrime, Zenon

\* umem_share: the edge enters the indexes, and is announced to the receiver or
\* queued behind its full or absent channel.
LEMMA ShareInv ==
  ASSUME KInv, Threads', Fewer, NEW b \in Block, NEW q \in Proc, proc_lookup(q),
         owner[b] # Nil, owner[b] # q, ring[b] = "none", q \notin sharers[b],
         sharers' = [sharers EXCEPT ![b] = @ \cup {q}],
         views' = [views EXCEPT ![q] = @ \cup {b}],
         LET r == anchor[q].shares IN
         IF r # Nil /\ Room(cq[r]) > 0
         THEN cq' = [cq EXCEPT ![r] = ring_post(@, Event("share", b))] /\ UNCHANGED pending
         ELSE pending' = [pending EXCEPT ![q] = Append(@, b)] /\ UNCHANGED cq,
         UNCHANGED <<procVars, owner, ring, anchor, rung, iommuVars>>
  PROVE  KInv'
<1> DEFINE r == anchor[q].shares
<1>a. /\ ProcTypes /\ BlockTypes /\ ChanTypes /\ TypeOK /\ Edges /\ Holders /\ Anchors
      /\ Mappings /\ Attachments /\ TreeInv /\ BlockInv
  BY Parts, Zenon
<1>b. reg[q] = "live" /\ r \in Block \cup {Nil} /\ b \notin views[q]
  <2>1. reg[q] \in {"none", "live", "bare"} /\ reg[q] # "none" /\ reg[q] # "bare"
    BY <1>a, Zenon DEF proc_lookup, TreeInv, Alive, ProcTypes
  <2>2. r \in Block \cup {Nil}
    BY <1>a DEF ChanTypes, Scheme
  <2>3. b \notin views[q]
    BY <1>a, Zenon DEF Edges
  <2>4. QED
    BY <2>1, <2>2, <2>3, Zenon
<1>c. pending[q] \in Seq(Block) /\ IsInjective(pending[q]) /\ b \notin Range(pending[q])
  BY <1>a, <1>b, Zenon DEF BlockTypes, Edges
<1>1. \/ /\ cq' = [cq EXCEPT ![r] = Append(@, Event("share", b))] /\ pending' = pending
         /\ r \in Block /\ Room(cq[r]) > 0
      \/ /\ pending' = [pending EXCEPT ![q] = Append(@, b)] /\ cq' = cq
         /\ r = Nil \/ ~(Room(cq[r]) > 0)
  BY <1>a, <1>b, Zenon DEF ring_post, ChanTypes
<1>2. /\ cq' \in [Block -> Seq(Cqe)]
      /\ \A x \in Block : Len(cq'[x]) <= Slots /\ Len(cq[x]) <= Len(cq'[x])
  <2>1. CASE cq' = cq
    BY <1>a, <2>1, ObjectsAssumption, SMTT(60) DEF ChanTypes
  <2>2. CASE cq' = [cq EXCEPT ![r] = Append(@, Event("share", b))] /\ r \in Block /\ Room(cq[r]) > 0
    <3>1. Event("share", b) \in Cqe
      BY Zenon DEF Event, Cqe
    <3>2. cq[r] \in Seq(Cqe) /\ Len(cq[r]) < Slots
      BY <1>a, <2>2, ObjectsAssumption DEF ChanTypes, Room
    <3>3. QED
      BY <1>a, <2>2, <3>1, <3>2, ObjectsAssumption, SMTT(60) DEF ChanTypes
  <2>3. QED
    BY <1>1, <2>1, <2>2, Zenon
<1>3. /\ pending' \in [Proc -> Seq(Block)]
      /\ \A p \in Proc \ {q} : pending'[p] = pending[p]
      /\ IsInjective(pending'[q]) /\ Range(pending'[q]) \subseteq Range(pending[q]) \cup {b}
  <2>1. CASE pending' = pending
    BY <1>a, <1>c, <2>1, Zenon DEF BlockTypes
  <2>2. CASE pending' = [pending EXCEPT ![q] = Append(@, b)]
    <3> DEFINE s == Append(pending[q], b)
    <3>1. s \in Seq(Block) /\ Len(s) = Len(pending[q]) + 1 /\ Len(pending[q]) \in Nat
      BY <1>c, SMTT(60)
    <3>2. \A i \in 1 .. Len(s) : s[i] = IF i <= Len(pending[q]) THEN pending[q][i] ELSE b
      BY <1>c, SMTT(60)
    <3>3. IsInjective(s)
      BY <1>c, <3>1, <3>2, SMTT(60) DEF IsInjective, Range
    <3>4. Range(s) \subseteq Range(pending[q]) \cup {b}
      BY <1>c, <3>1, <3>2, SMTT(60) DEF Range
    <3> HIDE DEF s
    <3>5. pending' = [pending EXCEPT ![q] = s]
      BY <2>2, Zenon DEF s
    <3>6. QED
      BY <1>a, <3>1, <3>3, <3>4, <3>5, Zenon DEF BlockTypes
  <2>3. QED
    BY <1>1, <2>1, <2>2, Zenon
<1>4. BlockTypes' /\ ChanTypes'
  BY <1>a, <1>2, <1>3, Zenon DEF BlockTypes, ChanTypes
<1>5. Edges'
  <2>1. \A x \in Block, p \in Proc : (p \in sharers'[x]) <=> (x \in views'[p])
    BY <1>a DEF Edges, BlockTypes
  <2>2. \A x \in Block : owner'[x] \notin sharers'[x]
    BY <1>a, Zenon DEF Edges, BlockTypes
  <2>3. \A x \in Block : sharers'[x] # {} => owner'[x] # Nil /\ ring'[x] = "none"
    BY <1>a, Zenon DEF Edges, BlockTypes
  <2>4. ASSUME NEW p \in Proc
        PROVE  IsInjective(pending'[p]) /\ Range(pending'[p]) \subseteq views'[p]
    <3>1. CASE p = q
      BY <1>a, <1>3, <3>1, SMTT(60) DEF Edges, BlockTypes
    <3>2. CASE p # q
      BY <1>a, <1>3, <3>2, SMTT(60) DEF Edges, BlockTypes
    <3>3. QED
      BY <3>1, <3>2, Zenon
  <2>5. QED
    BY <2>1, <2>2, <2>3, <2>4, Zenon DEF Edges
<1>6. Holders'
  BY <1>a, <1>b, Zenon DEF Holders, Owned, procVars, BlockTypes
<1>7. Anchors' /\ Mappings' /\ Attachments' /\ BlockInv' /\ TreeInv'
  BY <1>a, AnchorsFrame, DmaFrame, BlockFrame, TreeFrame, Zenon DEF iommuVars, procVars
<1>8. ASSUME NEW x \in Block, (ring[x] # "none" /\ rung[x] /\ Room(cq[x]) > 0)'
      PROVE  Announced(x)'
  <2>1. owner[x] \in Proc /\ Len(cq'[x]) \in Nat /\ Len(cq[x]) <= Len(cq'[x]) /\ Len(cq[x]) \in Nat
    BY <1>a, <1>2, <1>8, SMTT(60) DEF BlockInv, Released, BlockTypes, ChanTypes
  <2>2. ASSUME ring[x] = "shares", pending[owner[x]] = <<>> PROVE pending'[owner[x]] = <<>>
    <3>1. CASE owner[x] = q
      <4>1. r = x
        BY <1>a, <2>2, <3>1, SMTT(60) DEF Anchors, Scheme
      <4>2. Room(cq[x]) > 0 /\ r # Nil
        BY <1>8, <2>1, <4>1, ObjectsAssumption, Zenon DEF Room
      <4>3. QED
        BY <1>1, <2>2, <4>1, <4>2, Zenon
    <3>2. CASE owner[x] # q
      BY <1>3, <2>1, <2>2, <3>2, Zenon
    <3>3. QED
      BY <3>1, <3>2, Zenon
  <2>3. process_is_dead(owner[x])' <=> process_is_dead(owner[x])
    BY Zenon DEF process_is_dead, Upward, procVars
  <2>4. tree_due(owner[x])' = tree_due(owner[x])
    BY Zenon DEF tree_due, procVars
  <2>5. domain' = domain /\ fault' = fault
    BY Zenon DEF iommuVars
  <2>6. QED
    BY <1>8, <2>1, <2>2, <2>3, <2>4, <2>5, AnnouncedFrame, Zenon
<1>9. ProcTypes' /\ IommuTypes'
  BY <1>a, TypesFrame, Zenon
<1>10. QED
  BY <1>4, <1>5, <1>6, <1>7, <1>8, <1>9, PartsPrime, Zenon DEF NothingStranded

\* A domain hangs on the ring and the cookie that name it.
LEMMA DomainPair ==
  /\ \A b \in Block, c \in Cookie : <<b, c>> \in Domain
  /\ \A d \in Domain : d[1] \in Block /\ d[2] \in Cookie /\ d = <<d[1], d[2]>>
BY DEF Domain

\* A device is on one ring at a time.
LEMMA OneRing ==
  ASSUME Attachments, NEW b \in Block, NEW v \in Requester
  PROVE  v \in OnRing(domain, b) <=> context[v] \in Domain /\ context[v][1] = b
<1>1. ASSUME v \in OnRing(domain, b) PROVE context[v] \in Domain /\ context[v][1] = b
  <2>1. PICK c \in Cookie : v \in domain[<<b, c>>].devices
    BY <1>1, Zenon DEF OnRing
  <2>2. context[v] = <<b, c>> /\ <<b, c>> \in Domain
    BY <2>1, DomainPair, Zenon DEF Attachments
  <2>3. QED
    BY <2>2
<1>2. ASSUME context[v] \in Domain, context[v][1] = b PROVE v \in OnRing(domain, b)
  <2>1. PICK c \in Cookie : context[v] = <<b, c>>
    BY <1>2, DomainPair, Zenon
  <2>2. v \in domain[<<b, c>>].devices
    BY <1>2, <2>1, Zenon DEF Attachments
  <2>3. QED
    BY <2>2, Zenon DEF OnRing
<1>3. QED
  BY <1>1, <1>2, Zenon

\* The devices of a ring are devices.
LEMMA RingDevices ==
  ASSUME IommuTypes, NEW b \in Block
  PROVE  OnRing(domain, b) \subseteq Requester
<1>1. \A c \in Cookie : domain[<<b, c>>].devices \subseteq Requester
  BY DomainPair, Zenon DEF IommuTypes
<1>2. QED
  BY <1>1, Zenon DEF OnRing

\* free_locked: what passes the gate is unshared, unpinned and out of every
\* device's reach, and its channel goes with it.
LEMMA FreeInv ==
  ASSUME KInv, Threads', Fewer, NEW b \in Block, owner[b] # Nil, free_locked(b)
  PROVE  KInv'
<1> DEFINE mine == {d \in Domain : d[1] = b}
           on == OnRing(domain, b)
<1>a. /\ ProcTypes /\ BlockTypes /\ ChanTypes /\ IommuTypes /\ TypeOK /\ Edges /\ Holders
      /\ Anchors /\ Mappings /\ Attachments /\ TreeInv /\ BlockInv
  BY Parts, Zenon
<1>b. /\ dma_maps[b] = {} /\ sharers[b] = {}
      /\ owner' = [owner EXCEPT ![b] = Nil]
      /\ UNCHANGED <<procVars, sharers, views, pending>>
  BY Zenon DEF free_locked, Gate
<1>c. /\ ring' = [ring EXCEPT ![b] = "none"] /\ cq' = [cq EXCEPT ![b] = <<>>]
      /\ anchor' = IF ring[b] = "none" THEN anchor ELSE [anchor EXCEPT ![owner[b]][ring[b]] = Nil]
      /\ rung' = [rung EXCEPT ![b] = TRUE]
  BY Zenon DEF free_locked, channel_ring_destroy
<1>d. /\ fault' = [v \in Requester |-> IF v \in on THEN NoFault ELSE fault[v]]
      /\ context' = [v \in Requester |-> IF v \in on THEN Nil ELSE context[v]]
      /\ slpt' = [d \in Domain |-> IF d \in mine THEN {} ELSE slpt[d]]
      /\ dma_maps' = [x \in Block |-> dma_maps[x] \ mine]
      /\ domain' = [d \in Domain |-> IF d \in mine THEN NoDomain ELSE domain[d]]
  BY Zenon DEF free_locked, iommu_endpoint_destroy
<1>e. NoFault \in [due : BOOLEAN, posted : BOOLEAN]
      /\ NoDomain \in [live : BOOLEAN, devices : SUBSET Requester, mappings : SUBSET Block]
      /\ NoDomain.devices = {} /\ NoDomain.mappings = {}
  BY Zenon DEF NoFault, NoDomain
<1>1. BlockTypes'
  BY <1>a, <1>b, Zenon DEF BlockTypes
<1>2. ChanTypes'
  <2>1. anchor' \in [Proc -> [Scheme -> Block \cup {Nil}]]
    BY <1>a, <1>c, Zenon DEF ChanTypes
  <2>2. cq' \in [Block -> Seq(Cqe)] /\ \A x \in Block : Len(cq'[x]) <= Slots
    BY <1>a, <1>c, ObjectsAssumption DEF ChanTypes
  <2>3. QED
    BY <1>a, <1>c, <2>1, <2>2, Zenon DEF ChanTypes
<1>3. IommuTypes'
  BY <1>a, <1>d, <1>e, Zenon DEF IommuTypes
<1>4. Edges'
  BY <1>a, <1>b, <1>c, ObjectsAssumption, SMTT(60) DEF Edges, BlockTypes, ChanTypes
<1>5. Holders'
  BY <1>a, <1>b, ObjectsAssumption, Zenon DEF Holders, Owned, BlockTypes, procVars
<1>6. Anchors'
  <2> SUFFICES ASSUME NEW p \in Proc, NEW s \in Scheme, NEW x \in Block
               PROVE  (anchor'[p][s] = x) <=> (owner'[x] = p /\ ring'[x] = s)
    BY Zenon DEF Anchors
  <2>1. (anchor[p][s] = x) <=> (owner[x] = p /\ ring[x] = s)
    BY <1>a DEF Anchors
  <2>2. (anchor[p][s] = b) <=> (owner[b] = p /\ ring[b] = s)
    BY <1>a DEF Anchors
  <2>3. CASE p = owner[b] /\ s = ring[b]
    BY <1>a, <1>b, <1>c, <2>1, <2>2, <2>3, ObjectsAssumption, Zenon DEF BlockTypes, ChanTypes, Scheme
  <2>4. CASE ~(p = owner[b] /\ s = ring[b])
    <3>1. anchor'[p][s] = anchor[p][s]
      BY <1>a, <1>c, <2>4, Zenon DEF ChanTypes
    <3>2. QED
      BY <1>a, <1>b, <1>c, <2>1, <2>2, <2>4, <3>1, ObjectsAssumption, Zenon DEF BlockTypes, ChanTypes, Scheme
  <2>5. QED
    BY <2>3, <2>4, Zenon
<1>7. Mappings'
  BY <1>a, <1>d, <1>e, Zenon DEF Mappings, IommuTypes
<1>8. Attachments'
  <2> SUFFICES ASSUME NEW d \in Domain, NEW v \in Requester
               PROVE  (v \in domain'[d].devices) <=> (context'[v] = d)
    BY Zenon DEF Attachments
  <2>1. v \in on <=> context[v] \in Domain /\ context[v][1] = b
    BY <1>a, OneRing, Zenon
  <2>2. (v \in domain[d].devices) <=> (context[v] = d)
    BY <1>a, Zenon DEF Attachments
  <2>3. d # Nil
    BY ObjectsAssumption, Zenon DEF Domain
  <2>4. QED
    BY <1>d, <1>e, <2>1, <2>2, <2>3, Zenon
<1>9. BlockInv'
  BY <1>a, <1>b, <1>c, <1>d, Zenon DEF BlockInv, Released, BlockTypes, ChanTypes, IommuTypes
<1>10. ProcTypes' /\ TreeInv'
  BY <1>a, <1>b, TypesFrame, TreeFrame, Zenon DEF procVars
<1>11. ASSUME NEW x \in Block, (ring[x] # "none" /\ rung[x] /\ Room(cq[x]) > 0)'
       PROVE  Announced(x)'
  <2>1. x # b /\ ring'[x] = ring[x] /\ owner'[x] = owner[x] /\ cq'[x] = cq[x] /\ rung'[x] = rung[x]
    BY <1>a, <1>b, <1>c, <1>11, Zenon DEF BlockTypes, ChanTypes
  <2>2. Len(cq'[x]) \in Nat /\ Len(cq[x]) <= Len(cq'[x])
    BY <1>a, <2>1 DEF ChanTypes
  <2>3. process_is_dead(owner[x])' <=> process_is_dead(owner[x])
    BY <1>b, <2>1, Zenon DEF process_is_dead, Upward, procVars
  <2>4. tree_due(owner[x])' = tree_due(owner[x])
    BY <1>b, <2>1, Zenon DEF tree_due, procVars
  <2>5. ASSUME NEW v \in OnRing(domain', x) PROVE v \in OnRing(domain, x) /\ fault'[v] = fault[v]
    <3>1. PICK c \in Cookie : v \in domain'[<<x, c>>].devices
      BY <2>5, Zenon DEF OnRing
    <3>2. <<x, c>> \in Domain /\ <<x, c>> \notin mine
      BY <2>1, DomainPair, Zenon
    <3>3. v \in domain[<<x, c>>].devices
      BY <1>d, <3>1, <3>2, Zenon
    <3>4. v \in OnRing(domain, x)
      BY <3>3, Zenon DEF OnRing
    <3>5. v \in Requester
      BY <1>a, <3>4, RingDevices, Zenon
    <3>6. v \notin on
      BY <1>a, <2>1, <3>4, <3>5, OneRing, SMTT(60)
    <3>7. QED
      BY <1>d, <3>4, <3>5, <3>6, Zenon
  <2>6. pending' = pending
    BY <1>b, Zenon
  <2>7. QED
    BY <1>11, <2>1, <2>2, <2>3, <2>4, <2>5, <2>6, AnnouncedFrame, Zenon
<1>12. QED
  BY <1>1, <1>2, <1>3, <1>4, <1>5, <1>6, <1>7, <1>8, <1>9, <1>10, <1>11, PartsPrime, Zenon
     DEF NothingStranded

\* unmap_mapping: the mapping leaves the table, the domain and the block together.
LEMMA Unmapped ==
  ASSUME KInv, NEW d \in Domain, NEW x \in Block, unmap_mapping(d, x)
  PROVE  /\ domain' \in [Domain -> [live : BOOLEAN, devices : SUBSET Requester, mappings : SUBSET Block]]
         /\ slpt' \in [Domain -> SUBSET Block] /\ dma_maps' \in [Block -> SUBSET Domain]
         /\ Mappings' /\ Attachments' /\ context' = context
         /\ \A y \in Block : dma_maps'[y] \subseteq dma_maps[y]
         /\ \A e \in Domain : domain'[e].devices = domain[e].devices
<1>a. IommuTypes /\ Mappings /\ Attachments
  BY Parts, Zenon
<1>b. /\ slpt' = [slpt EXCEPT ![d] = @ \ {x}] /\ context' = context
      /\ domain' = [domain EXCEPT ![d].mappings = @ \ {x}]
      /\ dma_maps' = [dma_maps EXCEPT ![x] = @ \ {d}]
  BY Zenon DEF unmap_mapping, vtd_unmap
<1>1. /\ domain' \in [Domain -> [live : BOOLEAN, devices : SUBSET Requester, mappings : SUBSET Block]]
      /\ \A e \in Domain : /\ domain'[e].devices = domain[e].devices
                           /\ domain'[e].mappings = IF e = d THEN domain[d].mappings \ {x}
                                                    ELSE domain[e].mappings
  BY <1>a, <1>b, SMTT(60) DEF IommuTypes
<1>2. /\ slpt' \in [Domain -> SUBSET Block] /\ dma_maps' \in [Block -> SUBSET Domain]
      /\ \A y \in Block : dma_maps'[y] \subseteq dma_maps[y]
  BY <1>a, <1>b, Zenon DEF IommuTypes
<1>3. Mappings'
  BY <1>a, <1>b, <1>1, SMTT(60) DEF Mappings, IommuTypes
<1>4. Attachments'
  BY <1>a, <1>b, <1>1, Zenon DEF Attachments
<1>5. QED
  BY <1>b, <1>1, <1>2, <1>3, <1>4, Zenon

\* iommu_revoke_map: the block's owner, or its reaper, takes a mapping back.
LEMMA RevokeInv ==
  ASSUME KInv, Threads', Fewer, NEW d \in Domain, NEW x \in Block, unmap_mapping(d, x),
         UNCHANGED <<procVars, blockVars, chanVars, fault>>
  PROVE  KInv'
<1>a. /\ TypeOK /\ Edges /\ Holders /\ Anchors /\ BlockInv /\ IommuTypes /\ ChanTypes
  BY Parts, Zenon
<1>1. /\ domain' \in [Domain -> [live : BOOLEAN, devices : SUBSET Requester, mappings : SUBSET Block]]
      /\ slpt' \in [Domain -> SUBSET Block] /\ dma_maps' \in [Block -> SUBSET Domain]
      /\ Mappings' /\ Attachments' /\ context' = context
      /\ \A y \in Block : dma_maps'[y] \subseteq dma_maps[y]
      /\ \A e \in Domain : domain'[e].devices = domain[e].devices
  BY Unmapped, Zenon
<1>2. IommuTypes'
  BY <1>a, <1>1, Zenon DEF IommuTypes
<1>3. BlockInv'
  BY <1>a, <1>1, Zenon DEF BlockInv, Released, blockVars, chanVars
<1>4. Edges' /\ Holders' /\ Anchors' /\ TreeInv'
  BY <1>a, EdgesFrame, HoldersFrame, AnchorsFrame, TreeFrame, Zenon DEF procVars, blockVars, chanVars
<1>5. ProcTypes' /\ BlockTypes' /\ ChanTypes'
  BY <1>a, TypesFrame, Zenon
<1>6. ASSUME NEW b \in Block, (ring[b] # "none" /\ rung[b] /\ Room(cq[b]) > 0)'
      PROVE  Announced(b)'
  <2>1. /\ ring' = ring /\ owner' = owner /\ cq' = cq /\ rung' = rung /\ pending' = pending
        /\ fault' = fault
    BY Zenon DEF blockVars, chanVars
  <2>2. Len(cq'[b]) \in Nat /\ Len(cq[b]) <= Len(cq'[b])
    BY <1>a, <2>1 DEF ChanTypes
  <2>3. process_is_dead(owner[b])' <=> process_is_dead(owner[b])
    BY <2>1, Zenon DEF process_is_dead, Upward, procVars
  <2>4. tree_due(owner[b])' = tree_due(owner[b])
    BY <2>1, Zenon DEF tree_due, procVars
  <2>5. OnRing(domain', b) = OnRing(domain, b)
    BY <1>1, DomainPair, Zenon DEF OnRing
  <2>6. QED
    BY <1>6, <2>1, <2>2, <2>3, <2>4, <2>5, AnnouncedFrame, Zenon
<1>7. QED
  BY <1>1, <1>2, <1>3, <1>4, <1>5, <1>6, PartsPrime, Zenon DEF NothingStranded

\* kring_ack: the owner consumes a CQE and owes a doorbell.
LEMMA AckInv ==
  ASSUME KInv, Threads', Fewer, NEW b \in Block, cq[b] # <<>>,
         cq' = [cq EXCEPT ![b] = Tail(@)], rung' = [rung EXCEPT ![b] = FALSE],
         UNCHANGED <<procVars, blockVars, ring, anchor, iommuVars>>
  PROVE  KInv'
<1>a. /\ TypeOK /\ Edges /\ Holders /\ Anchors /\ BlockInv /\ ChanTypes /\ Mappings /\ Attachments
  BY Parts, Zenon
<1>1. Tail(cq[b]) \in Seq(Cqe) /\ Len(Tail(cq[b])) <= Slots
  BY <1>a, ObjectsAssumption DEF ChanTypes
<1>2. ChanTypes'
  BY <1>a, <1>1, Zenon DEF ChanTypes
<1>3. Edges' /\ Holders' /\ Anchors' /\ Mappings' /\ Attachments' /\ BlockInv' /\ TreeInv'
  BY <1>a, EdgesFrame, HoldersFrame, AnchorsFrame, DmaFrame, BlockFrame, TreeFrame, Zenon
     DEF procVars, blockVars, iommuVars
<1>4. ProcTypes' /\ BlockTypes' /\ IommuTypes'
  BY <1>a, TypesFrame, Zenon
<1>5. ASSUME NEW x \in Block, (ring[x] # "none" /\ rung[x] /\ Room(cq[x]) > 0)'
      PROVE  Announced(x)'
  <2>1. /\ ring' = ring /\ owner' = owner /\ pending' = pending /\ fault' = fault
        /\ domain' = domain
    BY Zenon DEF blockVars, iommuVars
  <2>2. x # b /\ cq'[x] = cq[x] /\ rung'[x] = rung[x]
    BY <1>a, <1>5, Zenon DEF ChanTypes
  <2>3. Len(cq'[x]) \in Nat /\ Len(cq[x]) <= Len(cq'[x])
    BY <1>a, <2>2 DEF ChanTypes
  <2>4. process_is_dead(owner[x])' <=> process_is_dead(owner[x])
    BY <2>1, Zenon DEF process_is_dead, Upward, procVars
  <2>5. tree_due(owner[x])' = tree_due(owner[x])
    BY <2>1, Zenon DEF tree_due, procVars
  <2>6. QED
    BY <1>5, <2>1, <2>2, <2>3, <2>4, <2>5, AnnouncedFrame, Zenon
<1>6. QED
  BY <1>2, <1>3, <1>4, <1>5, PartsPrime, Zenon DEF NothingStranded

\* iommu_report_fault: the event is posted, or the device keeps it as level state
\* while its last one is unread or its ring is full.
LEMMA FaultInv ==
  ASSUME KInv, NEW v \in Requester, iommu_report_fault(v)
  PROVE  KInv'
<1> DEFINE b == CHOOSE x \in Block : v \in OnRing(domain, x)
           out == fault[v].posted /\ Event("fault", v) \in Range(cq[b])
           post == ~out /\ Room(cq[b]) > 0
<1>a. /\ TypeOK /\ Edges /\ Holders /\ Anchors /\ BlockInv /\ ChanTypes /\ IommuTypes
      /\ Mappings /\ Attachments
  BY Parts, Zenon
<1>b. v \in Attached(domain)
      /\ fault' = [fault EXCEPT ![v] = [due |-> ~post, posted |-> out \/ post]]
      /\ cq' = (IF post THEN [cq EXCEPT ![b] = ring_post(@, Event("fault", v))] ELSE cq)
      /\ UNCHANGED <<procVars, threadVars, blockVars, ring, anchor, rung, calls>>
      /\ UNCHANGED <<domain, context, slpt, dma_maps>>
  BY Zenon DEF iommu_report_fault
<1>c. \E x \in Block : v \in OnRing(domain, x)
  <2>1. PICK d \in Domain : v \in domain[d].devices
    BY <1>b, Zenon DEF Attached
  <2>2. d[1] \in Block /\ d[2] \in Cookie /\ d = <<d[1], d[2]>>
    BY DomainPair, Zenon
  <2>3. v \in OnRing(domain, d[1])
    BY <2>1, <2>2, Zenon DEF OnRing
  <2>4. QED
    BY <2>2, <2>3, Zenon
<1>d. b \in Block /\ v \in OnRing(domain, b)
  BY <1>c, Zenon
<1> HIDE DEF b
<1>e. out \in BOOLEAN /\ post \in BOOLEAN
  BY <1>a, Zenon DEF IommuTypes
<1>1. /\ cq' \in [Block -> Seq(Cqe)]
      /\ \A x \in Block : Len(cq'[x]) <= Slots /\ Len(cq[x]) <= Len(cq'[x])
  <2>1. CASE cq' = cq
    BY <1>a, <2>1, ObjectsAssumption, SMTT(60) DEF ChanTypes
  <2>2. CASE post /\ cq' = [cq EXCEPT ![b] = ring_post(@, Event("fault", v))]
    <3>1. Event("fault", v) \in Cqe
      BY Zenon DEF Event, Cqe
    <3>2. cq[b] \in Seq(Cqe) /\ Len(cq[b]) < Slots
      BY <1>a, <1>d, <2>2, ObjectsAssumption, SMTT(60) DEF ChanTypes, Room
    <3>3. cq' = [cq EXCEPT ![b] = Append(cq[b], Event("fault", v))]
      BY <1>a, <1>d, <2>2, Zenon DEF ring_post, ChanTypes
    <3>4. QED
      BY <1>a, <1>d, <3>1, <3>2, <3>3, ObjectsAssumption, SMTT(60) DEF ChanTypes
  <2>3. QED
    BY <1>b, <2>1, <2>2, Zenon
<1>2. fault' \in [Requester -> [due : BOOLEAN, posted : BOOLEAN]]
      /\ fault'[v] = [due |-> ~post, posted |-> out \/ post]
      /\ \A w \in Requester \ {v} : fault'[w] = fault[w]
  <2> HIDE DEF out, post
  <2>1. [due |-> ~post, posted |-> out \/ post] \in [due : BOOLEAN, posted : BOOLEAN]
    BY <1>e, Zenon
  <2>2. QED
    BY <1>a, <1>b, <2>1, Zenon DEF IommuTypes
<1>3. ChanTypes' /\ IommuTypes'
  <2>1. ChanTypes'
    BY <1>a, <1>b, <1>1, Zenon DEF ChanTypes
  <2>2. IommuTypes'
    BY <1>a, <1>b, <1>2, Zenon DEF IommuTypes
  <2>3. QED
    BY <2>1, <2>2, Zenon
<1>4. Threads' /\ Fewer
  BY <1>b, SameKept, Zenon
<1>5. Edges' /\ Holders' /\ Anchors' /\ Mappings' /\ Attachments' /\ BlockInv' /\ TreeInv'
  BY <1>a, <1>b, <1>4, EdgesFrame, HoldersFrame, AnchorsFrame, DmaFrame, BlockFrame, TreeFrame, Zenon
     DEF procVars, blockVars
<1>6. ProcTypes' /\ BlockTypes'
  BY <1>a, <1>b, TypesFrame, Zenon
<1>7. ASSUME NEW x \in Block, (ring[x] # "none" /\ rung[x] /\ Room(cq[x]) > 0)'
      PROVE  Announced(x)'
  <2>1. /\ ring' = ring /\ owner' = owner /\ pending' = pending /\ rung' = rung /\ domain' = domain
    BY <1>b, Zenon DEF blockVars
  <2>2. Len(cq'[x]) \in Nat /\ Len(cq[x]) <= Len(cq'[x]) /\ Len(cq[x]) \in Nat
    BY <1>a, <1>1 DEF ChanTypes
  <2>3. process_is_dead(owner[x])' <=> process_is_dead(owner[x])
    BY <1>b, <2>1, Zenon DEF process_is_dead, Upward, procVars
  <2>4. tree_due(owner[x])' = tree_due(owner[x])
    BY <1>b, <2>1, Zenon DEF tree_due, procVars
  <2>5. CASE v \notin OnRing(domain, x)
    <3>1. \A w \in OnRing(domain, x) : fault'[w] = fault[w]
      BY <1>a, <1>2, <2>5, RingDevices, Zenon
    <3>2. QED
      BY <1>7, <2>1, <2>2, <2>3, <2>4, <3>1, AnnouncedFrame, Zenon
  <2>6. CASE v \in OnRing(domain, x)
    <3>1. x = b
      BY <1>a, <1>d, <2>6, OneRing, Zenon
    <3>2. Room(cq[b]) > 0
      BY <1>7, <2>2, <3>1, ObjectsAssumption, SMTT(60) DEF Room
    <3>3. Announced(x)
      BY <1>7, <2>1, <3>1, <3>2, Zenon DEF KInv, NothingStranded
    <3>4. fault'[v].due => fault'[v].posted
      BY <1>2, <3>2
    <3>5. \A w \in OnRing(domain, x) : ring[x] = "iommu" /\ fault'[w].due => fault'[w].posted
      BY <1>a, <1>2, <3>3, <3>4, RingDevices, Zenon DEF Announced
    <3>6. QED
      BY <2>1, <2>3, <2>4, <3>3, <3>5, Zenon DEF Announced
  <2>7. QED
    BY <2>5, <2>6, Zenon
<1>8. QED
  BY <1>3, <1>4, <1>5, <1>6, <1>7, PartsPrime, Zenon DEF NothingStranded

-----------------------------------------------------------------------------
\* Threads and processes come and go.

\* DropThread: the TCB leaves its process's index and its completion is unpinned.
LEMMA DropKept ==
  ASSUME KInv, Counting, NEW u \in Thread, DropThread(u), tcb[u].at # "none",
         tcb' \in [Thread -> Tcb], tcb'[u] = NoThread, calls' = calls,
         \A t \in Thread \ {u} : /\ tcb'[t].proc = tcb[t].proc /\ tcb'[t].done = tcb[t].done
                                 /\ tcb'[t].arg = tcb[t].arg
                                 /\ tcb'[t].at = "creating" => tcb[t].at = "creating"
                                 /\ tcb'[t].at # "none" => tcb[t].at # "none"
  PROVE  Threads' /\ Fewer
<1> DEFINE b == tcb[u].done
           S == {t \in Thread : tcb[t].done = b}
<1>a. ThreadTypes /\ Pins /\ ThreadIndex /\ TreeInv
  BY Parts, Zenon DEF Threads
<1>b. /\ pins' = IF b = Nil THEN pins ELSE [pins EXCEPT ![b] = @ - 1]
      /\ threads' = [threads EXCEPT ![Me(u)] = @ \ {u}]
  BY Zenon DEF DropThread
<1>c. b \in Block \cup {Nil} /\ Me(u) \in Proc
  BY <1>a, Zenon DEF ThreadTypes, Tcb, TreeInv, Me
<1>d. tcb'[u].proc = Nil /\ tcb'[u].done = Nil /\ tcb'[u].at = "none" /\ Nil \notin Proc /\ Nil \notin Block
  BY ObjectsAssumption DEF NoThread
<1>1. \A x \in Block : x # b => {t \in Thread : tcb'[t].done = x} = {t \in Thread : tcb[t].done = x}
  BY <1>d, Zenon
<1>2. ASSUME b # Nil
      PROVE  /\ {t \in Thread : tcb'[t].done = b} = S \ {u}
             /\ Cardinality(S \ {u}) = Cardinality(S) - 1 /\ Cardinality(S \ {u}) \in Nat
  <2>1. {t \in Thread : tcb'[t].done = b} = S \ {u}
    BY <1>2, <1>d, Zenon
  <2>2. u \in S /\ S \in SUBSET Thread
    BY Zenon
  <2>3. Cardinality(S) = Cardinality(S \ {u}) + 1 /\ Cardinality(S \ {u}) \in Nat
    BY <2>2, Zenon DEF Counting
  <2>4. QED
    BY <2>1, <2>3
<1>3. Pins'
  <2> SUFFICES ASSUME NEW x \in Block
               PROVE  pins'[x] = Cardinality({t \in Thread : tcb'[t].done = x})
    BY Zenon DEF Pins
  <2>1. CASE x = b
    <3>1. pins'[b] = pins[b] - 1
      BY <1>a, <1>b, <1>d, <2>1, Zenon DEF ThreadTypes
    <3>2. pins[b] = Cardinality(S)
      BY <1>a, <2>1, Zenon DEF Pins
    <3>3. QED
      BY <1>2, <1>d, <2>1, <3>1, <3>2, Zenon
  <2>2. CASE x # b
    <3>1. pins'[x] = pins[x]
      BY <1>a, <1>b, <2>2, Zenon DEF ThreadTypes
    <3>2. QED
      BY <1>a, <1>1, <2>2, <3>1, Zenon DEF Pins
  <2>3. QED
    BY <2>1, <2>2, Zenon
<1>4. pins' \in [Block -> Nat]
  <2>1. CASE b = Nil
    BY <1>a, <1>b, <2>1, Zenon DEF ThreadTypes
  <2>2. CASE b # Nil
    <3>1. b \in Block /\ pins[b] - 1 \in Nat
      BY <1>a, <1>c, <1>2, <2>2, Zenon DEF Pins
    <3>2. QED
      BY <1>a, <1>b, <2>2, <3>1, Zenon DEF ThreadTypes
  <2>3. QED
    BY <2>1, <2>2, Zenon
<1>5. ThreadTypes'
  BY <1>a, <1>b, <1>4, Zenon DEF ThreadTypes
<1>6. ThreadIndex'
  <2> SUFFICES ASSUME NEW p \in Proc, NEW t \in Thread
               PROVE  (t \in threads'[p]) <=> (tcb'[t].proc = p)
    BY Zenon DEF ThreadIndex
  <2>1. (t \in threads[p]) <=> (tcb[t].proc = p)
    BY <1>a, Zenon DEF ThreadIndex
  <2>2. QED
    BY <1>a, <1>b, <1>c, <1>d, <2>1, SMTT(60) DEF ThreadTypes, Me
<1>7. Fewer
  BY <1>a, <1>b, <1>c, <1>d, Zenon DEF Fewer, ThreadTypes
<1>8. QED
  BY <1>3, <1>5, <1>6, <1>7, Zenon DEF Threads

\* A thread with an address space to run in.
LEMMA Running ==
  ASSUME KInv, NEW t \in Thread, tcb[t].at # "none"
  PROVE  /\ Me(t) \in Proc /\ t \in threads[Me(t)] /\ reg[Me(t)] = "live"
         /\ Me(t) = First \/ ~Unused(Me(t))
         /\ \A u \in Thread : Creating(u) => tcb[u].arg # Me(t)
<1>a. ThreadTypes /\ ThreadIndex /\ TreeInv
  BY Parts, Zenon DEF Threads
<1>1. Me(t) \in Proc
  BY <1>a, Zenon DEF TreeInv, ThreadTypes, Tcb, Me
<1>2. t \in threads[Me(t)]
  BY <1>a, <1>1, Zenon DEF ThreadIndex, Me
<1>3. reg[Me(t)] = "live" /\ ~(Unused(Me(t)))
  BY <1>a, <1>1, <1>2, Zenon DEF TreeInv, Alive, Fresh
<1>4. \A u \in Thread : Creating(u) => tcb[u].arg # Me(t)
  BY <1>a, <1>2, Zenon DEF TreeInv, Linking, Fresh
<1>5. QED
  BY <1>1, <1>2, <1>3, <1>4, Zenon

\* A process the system was told of is linked in the tree.
LEMMA KnownLinked ==
  ASSUME KInv, NEW q \in Known
  PROVE  /\ q \in Proc /\ ~Unused(q)
         /\ \A t \in Thread : Creating(t) => tcb[t].arg # q
<1>a. TreeInv /\ ThreadTypes
  BY Parts, Zenon
<1>1. q \in Proc /\ (q = First \/ (parent[q] # Nil /\ q \in children[parent[q]]))
  BY Zenon DEF Known
<1>2. ASSUME NEW t \in Thread, Creating(t) PROVE tcb[t].arg # q
  BY <1>a, <1>1, <1>2, SMTT(60) DEF TreeInv, Linking
<1>3. QED
  BY <1>1, <1>2, Zenon DEF Unused

\* proc_sys_thread_spawn: a process that runs, and has been told of, gets a thread.
LEMMA SpawnInv ==
  ASSUME KInv, Counting, NEW t \in Thread, NEW q \in Known, NEW u \in Thread, NEW b \in Block \cup {Nil},
         proc_sys_thread_spawn(t, q, u, b)
  PROVE  KInv'
<1> DEFINE S == {w \in Thread : tcb[w].done = b}
           new == [proc |-> q, at |-> "user", arg |-> Nil, done |-> b]
<1>a. /\ ThreadTypes /\ Pins /\ ThreadIndex /\ TreeInv /\ TypeOK /\ ProcTypes
      /\ Edges /\ Holders /\ Anchors /\ Mappings /\ Attachments /\ BlockInv
  BY Parts, Zenon DEF Threads
<1>b. /\ tcb[t].at = "kernel" /\ proc_lookup(q) /\ tcb[u] = NoThread
      /\ pins' = IF b = Nil THEN pins ELSE [pins EXCEPT ![b] = @ + 1]
      /\ threads' = [threads EXCEPT ![q] = @ \cup {u}]
      /\ tcb' = [tcb EXCEPT ![t].at = "user", ![u] = new]
      /\ UNCHANGED <<procVars, blockVars, chanVars, iommuVars, calls>>
  BY Zenon DEF proc_sys_thread_spawn, Call
<1>c. /\ q \in Proc /\ ~Unused(q) /\ \A w \in Thread : Creating(w) => tcb[w].arg # q
  BY KnownLinked, Zenon
<1>d. /\ tcb[u].at = "none" /\ tcb[u].proc = Nil /\ tcb[u].done = Nil /\ u # t
      /\ Nil \notin Proc /\ Nil \notin Block
  BY <1>b, ObjectsAssumption DEF NoThread
<1>e. new \in Tcb
  BY <1>c, Zenon DEF Tcb
<1>f. /\ tcb' \in [Thread -> Tcb] /\ tcb'[u] = new
      /\ \A w \in Thread \ {u} : /\ tcb'[w].proc = tcb[w].proc /\ tcb'[w].done = tcb[w].done
                                 /\ tcb'[w].arg = tcb[w].arg
                                 /\ tcb'[w].at = "creating" => tcb[w].at = "creating"
                                 /\ tcb'[w].at # "none" => tcb[w].at # "none"
  <2> HIDE DEF new
  <2>1. \A w \in Thread : tcb[w] \in Tcb
    BY <1>a, Zenon DEF ThreadTypes
  <2>2. /\ tcb' = [w \in Thread |-> tcb'[w]] /\ tcb'[u] = new
        /\ tcb'[t] = [tcb[t] EXCEPT !.at = "user"]
        /\ \A w \in Thread \ {t, u} : tcb'[w] = tcb[w]
    BY <1>a, <1>b, <1>d, Zenon DEF ThreadTypes
  <2>3. /\ tcb'[t] \in Tcb /\ tcb'[t].proc = tcb[t].proc /\ tcb'[t].done = tcb[t].done
        /\ tcb'[t].arg = tcb[t].arg /\ tcb'[t].at = "user"
    BY <2>1, <2>2 DEF Tcb
  <2>4. QED
    BY <1>b, <1>e, <2>1, <2>2, <2>3, Zenon
<1>1. ThreadTypes'
  <2>1. pins' \in [Block -> Nat]
    BY <1>a, <1>b DEF ThreadTypes
  <2>2. threads' \in [Proc -> SUBSET Thread]
    BY <1>a, <1>b, <1>c, Zenon DEF ThreadTypes
  <2>3. QED
    BY <1>a, <1>b, <1>f, <2>1, <2>2, Zenon DEF ThreadTypes
<1>2. ThreadIndex'
  <2> SUFFICES ASSUME NEW p \in Proc, NEW w \in Thread
               PROVE  (w \in threads'[p]) <=> (tcb'[w].proc = p)
    BY Zenon DEF ThreadIndex
  <2>1. (w \in threads[p]) <=> (tcb[w].proc = p)
    BY <1>a, Zenon DEF ThreadIndex
  <2>2. CASE w = u
    BY <1>a, <1>b, <1>c, <1>d, <1>f, <2>1, <2>2, SMTT(60) DEF ThreadTypes
  <2>3. CASE w # u
    BY <1>a, <1>b, <1>c, <1>f, <2>1, <2>3, Zenon DEF ThreadTypes
  <2>4. QED
    BY <2>2, <2>3, Zenon
<1>3. Pins'
  <2> SUFFICES ASSUME NEW x \in Block
               PROVE  pins'[x] = Cardinality({w \in Thread : tcb'[w].done = x})
    BY Zenon DEF Pins
  <2>1. CASE x = b
    <3>1. {w \in Thread : tcb'[w].done = b} = S \cup {u}
      BY <1>f
    <3>2. u \notin S /\ S \in SUBSET Thread
      BY <1>d, <2>1, Zenon
    <3>3. Cardinality(S \cup {u}) = Cardinality(S) + 1
      BY <3>2, Zenon DEF Counting
    <3>4. pins'[b] = pins[b] + 1 /\ pins[b] = Cardinality(S)
      BY <1>a, <1>b, <1>d, <2>1, Zenon DEF ThreadTypes, Pins
    <3>5. QED
      BY <2>1, <3>1, <3>3, <3>4, Zenon
  <2>2. CASE x # b
    <3>1. {w \in Thread : tcb'[w].done = x} = {w \in Thread : tcb[w].done = x}
      BY <1>d, <1>f, <2>2, SMTT(60)
    <3>2. pins'[x] = pins[x]
      BY <1>a, <1>b, <2>2, Zenon DEF ThreadTypes
    <3>3. QED
      BY <1>a, <3>1, <3>2, Zenon DEF Pins
  <2>3. QED
    BY <2>1, <2>2, Zenon
<1>4. TreeInv'
  <2>1. \A p \in Proc : process_is_dead(p) => process_is_dead(p)'
    BY <1>b, DeadGrows, Zenon DEF procVars
  <2>2. reg[q] = "live"
    BY <1>a, <1>b, <1>c, Zenon DEF proc_lookup, TreeInv, Alive, ProcTypes
  <2>3. \A p \in Proc : Alive(p)'
    BY <1>a, <1>b, <2>1, <2>2, Zenon DEF TreeInv, Alive, procVars, ThreadTypes
  <2>4. \A p \in Proc : Unused(p)' => Fresh(p)'
    BY <1>a, <1>b, <1>c, Zenon DEF TreeInv, Unused, Fresh, procVars, ThreadTypes
  <2>5. ASSUME NEW w \in Thread
        PROVE  tcb'[w].at # "none" => Me(w)' # Nil
    BY <1>a, <1>c, <1>d, <1>f, SMTT(60) DEF TreeInv, Me
  <2>6. ASSUME NEW w \in Thread, Creating(w)'
        PROVE  Linking(w)' /\ Creating(w) /\ tcb'[w].arg = tcb[w].arg
    <3>1. w # u
      BY <1>f, <2>6 DEF Creating
    <3>2. Creating(w) /\ Linking(w) /\ tcb'[w].arg = tcb[w].arg /\ Me(w)' = Me(w)
      BY <1>a, <1>f, <2>6, <3>1, Zenon DEF TreeInv, Creating, Me
    <3>3. Fresh(tcb[w].arg)'
      BY <1>a, <1>b, <1>c, <3>2, SMTT(60) DEF Linking, Fresh, procVars, ThreadTypes
    <3>4. QED
      BY <1>b, <3>2, <3>3, Zenon DEF Linking, Fresh, Me, procVars
  <2>7. \A w, x \in Thread : (Creating(w) /\ Creating(x) /\ tcb[w].arg = tcb[x].arg => w = x)'
    BY <1>a, <2>6, Zenon DEF TreeInv
  <2>8. QED
    BY <1>a, <1>b, <2>3, <2>4, <2>5, <2>6, <2>7, Zenon DEF TreeInv, procVars
<1>5. ProcTypes' /\ BlockTypes' /\ ChanTypes' /\ IommuTypes'
  BY <1>a, <1>b, TypesFrame, Zenon
<1>6. Edges' /\ Holders' /\ Anchors' /\ Mappings' /\ Attachments' /\ BlockInv'
  BY <1>a, <1>b, EdgesFrame, HoldersFrame, AnchorsFrame, DmaFrame, BlockFrame, Zenon
     DEF procVars, blockVars, chanVars, iommuVars
<1>7. NothingStranded'
  BY <1>b, StrandedFrame, Zenon DEF procVars, blockVars, chanVars, iommuVars
<1>8. QED
  BY <1>1, <1>2, <1>3, <1>4, <1>5, <1>6, <1>7, PartsPrime, Zenon DEF Threads

\* The rings, when a process is linked: a parent link is new, a child is alive.
LEMMA LinkStranded ==
  ASSUME KInv, UNCHANGED <<blockVars, chanVars, iommuVars>>, UNCHANGED <<dead, told>>,
         \A x \in Proc : parent[x] # Nil => parent'[x] = parent[x],
         \A p, c \in Proc : c \in children'[p] => c \in children[p] \/ ~dead[c],
         ProcTypes'
  PROVE  NothingStranded'
<1> SUFFICES ASSUME NEW b \in Block, (ring[b] # "none" /\ rung[b] /\ Room(cq[b]) > 0)'
             PROVE  Announced(b)'
  BY Zenon DEF NothingStranded
<1>a. ProcTypes /\ ChanTypes /\ BlockTypes /\ BlockInv
  BY Parts, Zenon
<1>1. /\ ring' = ring /\ owner' = owner /\ cq' = cq /\ rung' = rung /\ pending' = pending
      /\ fault' = fault /\ domain' = domain
  BY Zenon DEF blockVars, chanVars, iommuVars
<1>2. owner[b] \in Proc /\ Len(cq'[b]) \in Nat /\ Len(cq[b]) <= Len(cq'[b])
  BY <1>a, <1>1 DEF BlockInv, Released, BlockTypes, ChanTypes
<1>3. PICK p \in Proc : p = owner[b]
  BY <1>2, Zenon
<1>4. process_is_dead(p) => process_is_dead(p)'
  BY DeadGrows, Zenon
<1>5. tree_due(p)' \subseteq tree_due(p)
  BY <1>a, Zenon DEF tree_due, ProcTypes
<1>6. \/ process_is_dead(owner[b])'
      \/ ~process_is_dead(owner[b]) /\ tree_due(owner[b])' \subseteq tree_due(owner[b])
  BY <1>1, <1>3, <1>4, <1>5, Zenon
<1>7. QED
  BY <1>1, <1>2, <1>6, AnnouncedFrame, Zenon

\* process_create, first hold: the new pid has a body and a parent, and no parent
\* lists it yet.
LEMMA CreateInv ==
  ASSUME KInv, NEW t \in Thread, NEW c \in Proc, process_create(t, c)
  PROVE  KInv'
<1>a. /\ ThreadTypes /\ Pins /\ ThreadIndex /\ TreeInv /\ TypeOK /\ ProcTypes
      /\ Edges /\ Holders /\ Anchors /\ Mappings /\ Attachments /\ BlockInv
  BY Parts, Zenon DEF Threads
<1>b. /\ tcb[t].at = "kernel" /\ parent[c] = Nil /\ c # First
      /\ reg' = [reg EXCEPT ![c] = "live"] /\ parent' = [parent EXCEPT ![c] = Me(t)]
      /\ tcb' = [tcb EXCEPT ![t].at = "creating", ![t].arg = c]
      /\ UNCHANGED <<children, dead, told, threads, pins, blockVars, chanVars, iommuVars, calls>>
  BY Zenon DEF process_create, Call, Unused
<1>c. Me(t) \in Proc /\ Nil \notin Proc
  BY <1>b, Running, ObjectsAssumption, Zenon
<1>d. threads[c] = {} /\ ~dead[c]
  BY <1>a, <1>b, Zenon DEF TreeInv, Unused, Fresh
<1>e. /\ tcb' \in [Thread -> Tcb] /\ tcb'[t].arg = c /\ tcb'[t].at = "creating"
      /\ \A w \in Thread : tcb'[w].proc = tcb[w].proc /\ tcb'[w].done = tcb[w].done
      /\ \A w \in Thread \ {t} : tcb'[w] = tcb[w]
  BY <1>a, <1>b, ZenonT(60) DEF ThreadTypes, Tcb
<1>1. ThreadTypes' /\ ThreadIndex'
  BY <1>a, <1>b, <1>e DEF ThreadTypes, ThreadIndex
<1>2. Pins'
  <2> SUFFICES ASSUME NEW x \in Block
               PROVE  pins'[x] = Cardinality({w \in Thread : tcb'[w].done = x})
    BY Zenon DEF Pins
  <2>1. {w \in Thread : tcb'[w].done = x} = {w \in Thread : tcb[w].done = x}
    BY <1>e, Zenon
  <2>2. QED
    BY <1>a, <1>b, <2>1, Zenon DEF Pins
<1>3. ProcTypes'
  BY <1>a, <1>b, <1>c, Zenon DEF ProcTypes
<1>4. /\ parent'[c] = Me(t) /\ \A x \in Proc \ {c} : parent'[x] = parent[x] /\ reg'[x] = reg[x]
      /\ reg'[c] = "live"
  BY <1>a, <1>b, Zenon DEF ProcTypes
<1>5. \A x \in Proc : parent[x] # Nil => parent'[x] = parent[x]
  BY <1>b, <1>4, Zenon
<1>6. TreeInv'
  <2>1. \A p \in Proc : process_is_dead(p) => process_is_dead(p)'
    BY <1>b, <1>5, DeadGrows, Zenon
  <2>2. \A p \in Proc : Alive(p)'
    BY <1>a, <1>b, <1>4, <2>1, Zenon DEF TreeInv, Alive
  <2>3. \A p \in Proc : Unused(p)' => Fresh(p)'
    BY <1>a, <1>b, <1>c, <1>4, Zenon DEF TreeInv, Unused, Fresh
  <2>4. \A p, x \in Proc : x \in children'[p] => parent'[x] = p
    BY <1>a, <1>b, <1>c, <1>4, SMTT(60) DEF TreeInv
  <2>5. ASSUME NEW w \in Thread
        PROVE  tcb'[w].at # "none" => Me(w)' # Nil
    BY <1>a, <1>b, <1>c, <1>e, SMTT(60) DEF TreeInv, Me
  <2>6. c \notin children[Me(t)]
    BY <1>a, <1>b, <1>c, Zenon DEF TreeInv
  <2>7. Linking(t)'
    BY <1>b, <1>c, <1>d, <1>e, <1>4, <2>6, SMTT(60) DEF Linking, Fresh, Me
  <2>8. ASSUME NEW w \in Thread \ {t}, Creating(w)'
        PROVE  Linking(w)' /\ Creating(w) /\ tcb'[w].arg = tcb[w].arg /\ tcb[w].arg # c
    <3>1. Creating(w) /\ Linking(w) /\ tcb'[w] = tcb[w]
      BY <1>a, <1>e, <2>8, Zenon DEF TreeInv, Creating
    <3>2. tcb[w].arg \in Proc /\ parent[tcb[w].arg] # Nil
      BY <1>a, <3>1, Zenon DEF Linking, ThreadTypes, Tcb
    <3>3. QED
      BY <1>b, <1>5, <3>1, <3>2, Zenon DEF Linking, Fresh, Me
  <2>9. \A w, x \in Thread : (Creating(w) /\ Creating(x) /\ tcb[w].arg = tcb[x].arg => w = x)'
    BY <1>a, <1>e, <2>8, Zenon DEF TreeInv
  <2>10. QED
    BY <1>a, <1>b, <1>4, <2>2, <2>3, <2>4, <2>5, <2>7, <2>8, <2>9, ObjectsAssumption, Zenon DEF TreeInv
<1>7. Holders'
  BY <1>a, <1>b, <1>4, Zenon DEF Holders, Owned, blockVars
<1>8. Edges' /\ Anchors' /\ Mappings' /\ Attachments' /\ BlockInv'
  BY <1>a, <1>b, EdgesFrame, AnchorsFrame, DmaFrame, BlockFrame, Zenon DEF blockVars, chanVars, iommuVars
<1>9. BlockTypes' /\ ChanTypes' /\ IommuTypes'
  BY <1>a, <1>b, TypesFrame, Zenon
<1>10. NothingStranded'
  BY <1>b, <1>3, <1>5, LinkStranded, Zenon
<1>11. QED
  BY <1>1, <1>2, <1>3, <1>6, <1>7, <1>8, <1>9, <1>10, PartsPrime, Zenon DEF Threads

\* process_create, second hold: the parent lists the child.
LEMMA CreatedInv ==
  ASSUME KInv, NEW t \in Thread, process_created(t)
  PROVE  KInv'
<1> DEFINE c == tcb[t].arg
<1>a. /\ ThreadTypes /\ Pins /\ ThreadIndex /\ TreeInv /\ TypeOK /\ ProcTypes
      /\ Edges /\ Holders /\ Anchors /\ Mappings /\ Attachments /\ BlockInv
  BY Parts, Zenon DEF Threads
<1>b. /\ Creating(t) /\ children' = [children EXCEPT ![Me(t)] = @ \cup {c}]
      /\ tcb' = [tcb EXCEPT ![t].at = "user", ![t].arg = Nil]
      /\ UNCHANGED <<reg, parent, dead, told, threads, pins, blockVars, chanVars, iommuVars, calls>>
  BY Zenon DEF process_created, Creating
<1>c. Linking(t) /\ c \in Proc /\ Me(t) \in Proc
  BY <1>a, <1>b, Zenon DEF TreeInv, Linking, ThreadTypes, Tcb, Me
<1>d. parent[c] = Me(t) /\ ~dead[c]
  BY <1>c, Zenon DEF Linking, Fresh
<1>e. /\ tcb' \in [Thread -> Tcb] /\ tcb'[t].at = "user" /\ tcb[t].at # "none"
      /\ \A w \in Thread : tcb'[w].proc = tcb[w].proc /\ tcb'[w].done = tcb[w].done
      /\ \A w \in Thread \ {t} : tcb'[w] = tcb[w]
  BY <1>a, <1>b, Zenon DEF ThreadTypes, Tcb, Creating
<1>1. ThreadTypes' /\ ThreadIndex'
  BY <1>a, <1>b, <1>e DEF ThreadTypes, ThreadIndex
<1>2. Pins'
  <2> SUFFICES ASSUME NEW x \in Block
               PROVE  pins'[x] = Cardinality({w \in Thread : tcb'[w].done = x})
    BY Zenon DEF Pins
  <2>1. {w \in Thread : tcb'[w].done = x} = {w \in Thread : tcb[w].done = x}
    BY <1>e, Zenon
  <2>2. QED
    BY <1>a, <1>b, <2>1, Zenon DEF Pins
<1>3. /\ children'[Me(t)] = children[Me(t)] \cup {c}
      /\ \A p \in Proc \ {Me(t)} : children'[p] = children[p]
      /\ ProcTypes'
  BY <1>a, <1>b, <1>c, Zenon DEF ProcTypes
<1>4. TreeInv'
  <2>1. \A p \in Proc : process_is_dead(p) => process_is_dead(p)'
    BY <1>b, DeadGrows, Zenon
  <2>2. \A p \in Proc : Alive(p)'
    BY <1>a, <1>b, <2>1, Zenon DEF TreeInv, Alive
  <2>3. \A p \in Proc : Unused(p)' => Fresh(p)'
    BY <1>a, <1>b, Zenon DEF TreeInv, Unused, Fresh
  <2>4. \A p, x \in Proc : x \in children'[p] => parent'[x] = p
    BY <1>a, <1>b, <1>d, <1>3, Zenon DEF TreeInv
  <2>5. ASSUME NEW w \in Thread
        PROVE  tcb'[w].at # "none" => Me(w)' # Nil
    BY <1>a, <1>b, <1>e, SMTT(60) DEF TreeInv, Me
  <2>6. ASSUME NEW w \in Thread, Creating(w)'
        PROVE  Linking(w)' /\ Creating(w) /\ tcb'[w] = tcb[w]
    <3>1. w # t
      BY <1>e, <2>6, Zenon DEF Creating
    <3>2. Creating(w) /\ Linking(w) /\ tcb'[w] = tcb[w]
      BY <1>a, <1>e, <2>6, <3>1, Zenon DEF TreeInv, Creating
    <3>3. tcb[w].arg # c /\ Me(w) \in Proc
      BY <1>a, <1>b, <3>1, <3>2, Zenon DEF TreeInv, Linking, ThreadTypes, Tcb, Me
    <3>4. tcb[w].arg \notin children'[Me(w)]
      BY <1>3, <3>2, <3>3, Zenon DEF Linking
    <3>5. QED
      BY <1>b, <3>2, <3>4, Zenon DEF Linking, Fresh, Me
  <2>7. \A w, x \in Thread : (Creating(w) /\ Creating(x) /\ tcb[w].arg = tcb[x].arg => w = x)'
    BY <1>a, <2>6, Zenon DEF TreeInv
  <2>8. QED
    BY <1>a, <1>b, <2>2, <2>3, <2>4, <2>5, <2>6, <2>7, Zenon DEF TreeInv
<1>5. Edges' /\ Holders' /\ Anchors' /\ Mappings' /\ Attachments' /\ BlockInv'
  BY <1>a, <1>b, EdgesFrame, HoldersFrame, AnchorsFrame, DmaFrame, BlockFrame, Zenon
     DEF blockVars, chanVars, iommuVars
<1>6. BlockTypes' /\ ChanTypes' /\ IommuTypes'
  BY <1>a, <1>b, TypesFrame, Zenon
<1>7. NothingStranded'
  <2>1. \A p, x \in Proc : x \in children'[p] => x \in children[p] \/ ~dead[x]
    BY <1>d, <1>3, Zenon
  <2>2. QED
    BY <1>b, <1>3, <2>1, LinkStranded, Zenon
<1>8. QED
  BY <1>1, <1>2, <1>3, <1>4, <1>5, <1>6, <1>7, PartsPrime, Zenon DEF Threads

\* proc_sys_destroy: a dead process that holds nothing loses its address space, then
\* its body.
LEMMA DestroyInv ==
  ASSUME KInv, NEW q \in Proc, process_is_dead(q), proc_sys_destroy(q)
  PROVE  KInv'
<1>a. /\ Threads /\ TreeInv /\ TypeOK /\ ProcTypes /\ ThreadTypes
      /\ Edges /\ Holders /\ Anchors /\ Mappings /\ Attachments /\ BlockInv
  BY Parts, Zenon
<1>b. /\ Owned(q) = {} /\ views[q] = {} /\ threads[q] = {}
      /\ UNCHANGED <<parent, dead, told, threadVars, blockVars, chanVars, iommuVars, calls>>
  BY Zenon DEF proc_sys_destroy, HasResources
<1>c. /\ reg' = [reg EXCEPT ![q] = "bare"] \/ reg' = [reg EXCEPT ![q] = "none"]
      /\ children' = children \/ children' = [children EXCEPT ![parent[q]] = @ \ {q}]
  BY Zenon DEF proc_sys_destroy
<1>1. ProcTypes'
  BY <1>a, <1>b, <1>c, SMTT(60) DEF ProcTypes
<1>2. /\ \A p \in Proc \ {q} : reg'[p] = reg[p]
      /\ \A p \in Proc : children'[p] \subseteq children[p]
  BY <1>a, <1>c DEF ProcTypes
<1>3. Threads' /\ Fewer
  BY <1>b, SameKept, Zenon
<1>4. TreeInv'
  <2>1. \A p \in Proc : process_is_dead(p) => process_is_dead(p)'
    BY <1>b, DeadGrows, Zenon
  <2>2. \A p \in Proc : Alive(p)'
    BY <1>a, <1>b, <1>2, <2>1, Zenon DEF TreeInv, Alive, threadVars
  <2>3. \A p \in Proc : Unused(p)' => Fresh(p)'
    BY <1>a, <1>b, Zenon DEF TreeInv, Unused, Fresh, threadVars
  <2>4. \A p, x \in Proc : x \in children'[p] => parent'[x] = p
    BY <1>a, <1>b, <1>2, Zenon DEF TreeInv
  <2>5. ASSUME NEW w \in Thread
        PROVE  tcb'[w].at # "none" => Me(w)' # Nil
    BY <1>a, <1>b, Zenon DEF TreeInv, Me, threadVars
  <2>6. ASSUME NEW w \in Thread, Creating(w)'
        PROVE  Linking(w)'
    <3>1. Creating(w) /\ Linking(w) /\ Me(w) \in Proc
      BY <1>a, <1>b, <2>6, Zenon DEF TreeInv, Creating, Linking, ThreadTypes, Tcb, Me, threadVars
    <3>2. QED
      BY <1>b, <1>2, <3>1, Zenon DEF Linking, Fresh, Me, threadVars
  <2>7. \A w, x \in Thread : (Creating(w) /\ Creating(x) /\ tcb[w].arg = tcb[x].arg => w = x)'
    BY <1>a, <1>b, Zenon DEF TreeInv, Creating, threadVars
  <2>8. QED
    BY <1>a, <1>b, <2>2, <2>3, <2>4, <2>5, <2>6, <2>7, Zenon DEF TreeInv
<1>5. Holders'
  BY <1>a, <1>b, <1>2, SMTT(60) DEF Holders, Owned, blockVars
<1>6. Edges' /\ Anchors' /\ Mappings' /\ Attachments' /\ BlockInv'
  BY <1>a, <1>b, EdgesFrame, AnchorsFrame, DmaFrame, BlockFrame, Zenon DEF blockVars, chanVars, iommuVars
<1>7. BlockTypes' /\ ChanTypes' /\ IommuTypes'
  BY <1>a, <1>b, TypesFrame, Zenon
<1>8. NothingStranded'
  BY <1>b, <1>1, <1>2, LinkStranded, Zenon
<1>9. QED
  BY <1>1, <1>3, <1>4, <1>5, <1>6, <1>7, <1>8, PartsPrime, Zenon

-----------------------------------------------------------------------------
\* Draining a ring.

\* ring_replay: what is posted fits, and leaves room only when nothing is left.
LEMMA Posted ==
  ASSUME NEW q \in Seq(Cqe), Len(q) <= Slots, NEW due, NEW es \in Posts(q, due), NEW type,
         \A d \in due : Event(type, d) \in Cqe
  PROVE  /\ q \o Events(type, es) \in Seq(Cqe) /\ Len(q \o Events(type, es)) <= Slots
         /\ Range(es) \subseteq due
         /\ Room(q \o Events(type, es)) > 0 => Range(es) = due
<1>a. Len(q) \in Nat /\ Slots \in Nat /\ Room(q) \in Nat
  BY ObjectsAssumption DEF Room
<1>b. PICK n \in 0 .. Room(q) : es \in [1 .. n -> due]
  BY Zenon DEF Posts
<1>c. n \in Nat /\ n <= Room(q) /\ DOMAIN es = 1 .. n
  BY <1>a, <1>b, SMTT(60)
<1>d. es \in Seq(due) /\ Len(es) = n
  BY <1>b, <1>c
<1>1. Events(type, es) \in [1 .. n -> Cqe]
  BY <1>b, <1>c, Zenon DEF Events
<1>2. Events(type, es) \in Seq(Cqe) /\ Len(Events(type, es)) = n
  <2> HIDE DEF Events
  <2>1. QED
    BY <1>1, <1>c, SMTT(60)
<1> HIDE DEF Events
<1>3. q \o Events(type, es) \in Seq(Cqe) /\ Len(q \o Events(type, es)) = Len(q) + n
  BY <1>2
<1>4. Range(es) \subseteq due
  BY <1>b, <1>c, Zenon DEF Range
<1>5. Len(es) = Room(q) \/ Range(es) = due
  BY Zenon DEF Posts
<1>6. QED
  BY <1>a, <1>c, <1>d, <1>3, <1>4, <1>5, SMTT(60) DEF Room

\* The shares scheme posts the pending edges in order.
LEMMA ReplayedShares ==
  ASSUME BlockTypes, ChanTypes, Edges, NEW b \in Block, owner[b] \in Proc,
         NEW q \in Seq(Cqe), Len(q) <= Slots, ReplayShares(b, q)
  PROVE  /\ cq' \in [Block -> Seq(Cqe)] /\ Len(cq'[b]) <= Slots
         /\ \A x \in Block \ {b} : cq'[x] = cq[x]
         /\ pending' \in [Proc -> Seq(Block)]
         /\ \A p \in Proc : /\ IsInjective(pending'[p])
                            /\ Range(pending'[p]) \subseteq Range(pending[p])
                            /\ pending[p] = <<>> => pending'[p] = <<>>
         /\ Room(cq'[b]) > 0 => pending'[owner[b]] = <<>>
<1> DEFINE p == owner[b]
           s == pending[p]
           n == Fits(q, s)
           l == SubSeq(s, 1, n)
           r == SubSeq(s, n + 1, Len(s))
<1>a. s \in Seq(Block) /\ Len(s) \in Nat /\ IsInjective(s)
  BY SMTT(60) DEF BlockTypes, Edges
<1>b. Len(q) \in Nat /\ Slots \in Nat /\ n \in 0 .. Len(s) /\ n <= Slots - Len(q)
      /\ (n = Len(s) \/ n = Slots - Len(q))
  <2>1. Len(q) \in Nat /\ Slots \in Nat
    BY ObjectsAssumption
  <2>2. QED
    BY <1>a, <2>1, SMTT(60) DEF Fits, Room
<1>c. /\ cq' = [cq EXCEPT ![b] = q \o Events("share", l)]
      /\ pending' = [pending EXCEPT ![p] = SubSeq(pending[p], n + 1, Len(pending[p]))]
  BY Zenon DEF ReplayShares, BlockTypes
<1> HIDE DEF n, p
<1>1. l \in Seq(Block) /\ Len(l) = n
  BY <1>a, <1>b
<1>2. Events("share", l) \in [1 .. n -> Cqe]
  <2> HIDE DEF l
  <2>1. DOMAIN l = 1 .. n /\ \A i \in 1 .. n : l[i] \in Block
    BY <1>1, <1>b
  <2>2. \A x \in Block : Event("share", x) \in Cqe
    BY Zenon DEF Event, Cqe
  <2>3. QED
    BY <2>1, <2>2, Zenon DEF Events
<1>3. Events("share", l) \in Seq(Cqe) /\ Len(Events("share", l)) = n
  <2> DEFINE e == Events("share", l)
  <2> HIDE DEF e
  <2>1. e \in [1 .. n -> Cqe] /\ n \in Nat
    BY <1>2, <1>b DEF e
  <2>2. e \in Seq(Cqe) /\ Len(e) = n
    BY <2>1
  <2>3. QED
    BY <2>2, Zenon DEF e
<1>4. q \o Events("share", l) \in Seq(Cqe) /\ Len(q \o Events("share", l)) = Len(q) + n
  <2> HIDE DEF l
  <2>1. QED
    BY <1>3, <1>b, SMTT(60)
<1>5. /\ r \in Seq(Block) /\ Len(r) = Len(s) - n
      /\ \A i \in 1 .. Len(s) - n : r[i] = s[n + i]
  BY <1>a, <1>b, SMTT(60)
<1>6. IsInjective(r) /\ Range(r) \subseteq Range(s)
  <2> HIDE DEF r, s
  <2>1. DOMAIN r = 1 .. Len(s) - n /\ DOMAIN s = 1 .. Len(s)
    BY <1>a, <1>5
  <2>0. n \in Nat /\ Len(s) \in Nat /\ n <= Len(s)
    BY <1>a, <1>b
  <2>2. ASSUME NEW i \in DOMAIN r PROVE i \in Nat /\ n + i \in DOMAIN s /\ r[i] = s[n + i]
    <3>1. i \in 1 .. Len(s) - n
      BY <2>1, Zenon
    <3>2. n + i \in 1 .. Len(s) /\ i \in Nat
      BY <2>0, <3>1, SMTT(60)
    <3>3. QED
      BY <1>5, <2>1, <3>1, <3>2, Zenon
  <2>3. IsInjective(r)
    <3> SUFFICES ASSUME NEW i \in DOMAIN r, NEW j \in DOMAIN r, r[i] = r[j] PROVE i = j
      BY Zenon DEF IsInjective
    <3>1. s[n + i] = s[n + j] /\ n + i \in DOMAIN s /\ n + j \in DOMAIN s
      BY <2>2, Zenon
    <3>2. n + i = n + j
      BY <1>a, <3>1, Zenon DEF IsInjective
    <3>3. i \in Nat /\ j \in Nat
      BY <2>2, Zenon
    <3>4. QED
      BY <2>0, <3>2, <3>3, SMTT(60)
  <2>4. Range(r) \subseteq Range(s)
    BY <2>2, Zenon DEF Range
  <2>5. QED
    BY <2>3, <2>4, Zenon
<1>7. n = Len(s) => r = <<>>
  BY <1>a, <1>5
<1>8. pending' = [pending EXCEPT ![p] = r]
  BY <1>c, Zenon
<1>9. /\ cq' \in [Block -> Seq(Cqe)] /\ Len(cq'[b]) = Len(q) + n
      /\ \A x \in Block \ {b} : cq'[x] = cq[x]
  <2> HIDE DEF l
  <2>1. QED
    BY <1>4, <1>c, Zenon DEF ChanTypes
<1>10. s = <<>> => r = <<>>
  <2>1. s = <<>> => n = Len(s)
    BY <1>b
  <2>2. QED
    BY <1>7, <2>1, Zenon
<1>11. /\ pending' \in [Proc -> Seq(Block)] /\ pending'[p] = r
       /\ \A x \in Proc \ {p} : pending'[x] = pending[x]
  <2> HIDE DEF r
  <2>1. p \in Proc /\ pending \in [Proc -> Seq(Block)]
    BY Zenon DEF p, BlockTypes
  <2>2. QED
    BY <1>5, <1>8, <2>1, Zenon
<1>12. ASSUME NEW x \in Proc
       PROVE  /\ IsInjective(pending'[x]) /\ Range(pending'[x]) \subseteq Range(pending[x])
              /\ pending[x] = <<>> => pending'[x] = <<>>
  <2> HIDE DEF r
  <2>1. CASE x = p
    BY <1>6, <1>10, <1>11, <2>1, Zenon
  <2>2. CASE x # p
    BY <1>11, <2>2, Zenon DEF Edges
  <2>3. QED
    BY <2>1, <2>2, Zenon
<1>13. Len(cq'[b]) <= Slots /\ (Room(cq'[b]) > 0 => n = Len(s))
  BY <1>a, <1>b, <1>9, SMTT(60) DEF Room
<1>14. QED
  <2> HIDE DEF r, s
  <2>1. QED
    BY <1>7, <1>9, <1>11, <1>12, <1>13, Zenon DEF p

\* The tree scheme posts the dead children that were not announced.
LEMMA ReplayedTree ==
  ASSUME ProcTypes, ChanTypes, NEW b \in Block, owner[b] \in Proc,
         NEW q \in Seq(Cqe), Len(q) <= Slots, ReplayTree(b, q)
  PROVE  /\ cq' \in [Block -> Seq(Cqe)] /\ Len(cq'[b]) <= Slots
         /\ \A x \in Block \ {b} : cq'[x] = cq[x]
         /\ told' \in [Proc -> BOOLEAN] /\ \A c \in Proc : told[c] => told'[c]
         /\ Room(cq'[b]) > 0 => \A c \in tree_due(owner[b]) : told'[c]
<1> DEFINE due == tree_due(owner[b])
<1>a. PICK es \in Posts(q, due) : /\ cq' = [cq EXCEPT ![b] = q \o Events("dead", es)]
                                  /\ told' = [c \in Proc |-> told[c] \/ c \in Range(es)]
  BY Zenon DEF ReplayTree
<1>b. due \subseteq Proc
  BY Zenon DEF tree_due, ProcTypes
<1> HIDE DEF due
<1>c. \A c \in due : Event("dead", c) \in Cqe
  BY <1>b, Zenon DEF Event, Cqe
<1>1. /\ q \o Events("dead", es) \in Seq(Cqe) /\ Len(q \o Events("dead", es)) <= Slots
      /\ Range(es) \subseteq due
      /\ Room(q \o Events("dead", es)) > 0 => Range(es) = due
  BY <1>c, Posted, Zenon
<1>2. /\ cq' \in [Block -> Seq(Cqe)] /\ cq'[b] = q \o Events("dead", es)
      /\ \A x \in Block \ {b} : cq'[x] = cq[x]
  BY <1>a, <1>1, Zenon DEF ChanTypes
<1>3. /\ told' \in [Proc -> BOOLEAN] /\ \A c \in Proc : told[c] => told'[c]
      /\ \A c \in Range(es) : told'[c]
  BY <1>a, <1>b, <1>1, Zenon DEF ProcTypes
<1>4. QED
  BY <1>1, <1>2, <1>3, Zenon DEF due

\* The IOMMU scheme posts the faults of its devices that have none outstanding.
LEMMA ReplayedIommu ==
  ASSUME IommuTypes, ChanTypes, NEW b \in Block, NEW q \in Seq(Cqe), Len(q) <= Slots,
         OnRing(domain', b) \subseteq Requester, ReplayIommu(b, q)
  PROVE  /\ cq' \in [Block -> Seq(Cqe)] /\ Len(cq'[b]) <= Slots
         /\ \A x \in Block \ {b} : cq'[x] = cq[x]
         /\ fault' \in [Requester -> [due : BOOLEAN, posted : BOOLEAN]]
         /\ \A v \in Requester :
               v \in Attached(domain') /\ v \notin OnRing(domain', b) => fault'[v] = fault[v]
         /\ Room(cq'[b]) > 0 => \A v \in OnRing(domain', b) : fault'[v].due => fault'[v].posted
<1> DEFINE on == OnRing(domain', b)
           out == {v \in on : fault[v].posted /\ Event("fault", v) \in Range(q)}
           due == {v \in on \ out : fault[v].due}
           new(v, es) == [due |-> fault[v].due /\ v \notin Range(es), posted |-> v \in out \cup Range(es)]
<1>a. PICK es \in Posts(q, due) :
        /\ cq' = [cq EXCEPT ![b] = q \o Events("fault", es)]
        /\ fault' = [v \in Requester |-> CASE v \in on -> new(v, es)
                                           [] v \notin Attached(domain') -> NoFault
                                           [] OTHER -> fault[v]]
  BY Zenon DEF ReplayIommu
<1>b. due \subseteq Requester /\ due \subseteq on
  BY Zenon
<1>c. \A v \in due : Event("fault", v) \in Cqe
  BY <1>b, Zenon DEF Event, Cqe
<1>1. /\ q \o Events("fault", es) \in Seq(Cqe) /\ Len(q \o Events("fault", es)) <= Slots
      /\ Range(es) \subseteq due
      /\ Room(q \o Events("fault", es)) > 0 => Range(es) = due
  <2> HIDE DEF due
  <2>1. QED
    BY <1>c, Posted, Zenon
<1>2. /\ cq' \in [Block -> Seq(Cqe)] /\ cq'[b] = q \o Events("fault", es)
      /\ \A x \in Block \ {b} : cq'[x] = cq[x]
  BY <1>a, <1>1, Zenon DEF ChanTypes
<1>3. \A v \in Requester : /\ v \in on => fault'[v] = new(v, es)
                           /\ v \notin on /\ v \in Attached(domain') => fault'[v] = fault[v]
                           /\ v \notin on /\ v \notin Attached(domain') => fault'[v] = NoFault
  <2> HIDE DEF new, on
  <2> SUFFICES ASSUME NEW v \in Requester
               PROVE  /\ v \in on => fault'[v] = new(v, es)
                      /\ v \notin on /\ v \in Attached(domain') => fault'[v] = fault[v]
                      /\ v \notin on /\ v \notin Attached(domain') => fault'[v] = NoFault
    BY Zenon
  <2>1. fault'[v] = CASE v \in on -> new(v, es)
                      [] v \notin Attached(domain') -> NoFault
                      [] OTHER -> fault[v]
    BY <1>a, Zenon
  <2>2. v \in on => v \in Attached(domain')
    BY DomainPair, Zenon DEF on, OnRing, Attached
  <2>3. QED
    BY <2>1, <2>2, Zenon
<1>4. ASSUME NEW v \in Requester
      PROVE  fault'[v] \in [due : BOOLEAN, posted : BOOLEAN]
  <2>1. fault[v] \in [due : BOOLEAN, posted : BOOLEAN] /\ NoFault \in [due : BOOLEAN, posted : BOOLEAN]
    BY Zenon DEF IommuTypes, NoFault
  <2>2. new(v, es) \in [due : BOOLEAN, posted : BOOLEAN]
    <3>1. (fault[v].due /\ v \notin Range(es)) \in BOOLEAN /\ (v \in out \cup Range(es)) \in BOOLEAN
      BY <2>1
    <3> HIDE DEF out
    <3>2. QED
      BY <3>1, Zenon
  <2>3. QED
    <3> HIDE DEF new, on
    <3>1. QED
      BY <1>3, <2>1, <2>2, Zenon
<1>5. fault' \in [Requester -> [due : BOOLEAN, posted : BOOLEAN]]
  <2>1. DOMAIN fault' = Requester /\ fault' = [v \in Requester |-> fault'[v]]
    <3> HIDE DEF new, on
    <3>1. QED
      BY <1>a
  <2>2. QED
    BY <1>4, <2>1, Zenon
<1>6. ASSUME Room(cq'[b]) > 0, NEW v \in on PROVE fault'[v].due => fault'[v].posted
  <2>1. Range(es) = due
    BY <1>1, <1>2, <1>6, Zenon
  <2>2. fault'[v] = new(v, es) /\ v \in Requester
    BY <1>3, Zenon
  <2>3. fault'[v].due = (fault[v].due /\ v \notin due) /\ fault'[v].posted = (v \in out \cup due)
    BY <2>1, <2>2
  <2>4. QED
    BY <2>3, Zenon
<1>7. QED
  BY <1>1, <1>2, <1>3, <1>5, <1>6, Zenon

\* What a command of ring b's owner does to the IOMMU.
DmaKept(b) ==
    /\ domain' \in [Domain -> [live : BOOLEAN, devices : SUBSET Requester, mappings : SUBSET Block]]
    /\ context' \in [Requester -> Domain \cup {Nil}]
    /\ slpt' \in [Domain -> SUBSET Block] /\ dma_maps' \in [Block -> SUBSET Domain]
    /\ Mappings' /\ Attachments'
    /\ \A x \in Block : owner[x] = Nil => dma_maps'[x] = {}
    /\ \A e \in Domain : e[1] # b => domain'[e].devices = domain[e].devices

\* A drain that carries out no command.
LEMMA IdleKept ==
  ASSUME KInv, NEW b \in Block, UNCHANGED <<domain, context, slpt, dma_maps>>
  PROVE  DmaKept(b)
<1>a. IommuTypes /\ Mappings /\ Attachments /\ BlockInv
  BY Parts, Zenon
<1>1. Mappings' /\ Attachments'
  BY <1>a, DmaFrame, Zenon
<1>2. QED
  BY <1>a, <1>1, Zenon DEF DmaKept, IommuTypes, BlockInv, Released

\* iommu_exec: a device is in one domain, the hardware follows the indexes, and
\* only a block that has an owner is mapped.
LEMMA ExecKept ==
  ASSUME KInv, NEW b \in Block, NEW p \in Proc, iommu_exec(p, b)
  PROVE  DmaKept(b)
<1>a. IommuTypes /\ Mappings /\ Attachments /\ BlockInv /\ Edges /\ BlockTypes
  BY Parts, Zenon
<1>b. PICK c \in Cookie, v \in Requester, x \in Block :
        \/ domain_create(<<b, c>>) \/ domain_destroy(<<b, c>>)
        \/ device_attach(<<b, c>>, v) \/ device_detach(<<b, c>>, v)
        \/ map_block(p, <<b, c>>, x) \/ unmap_block(<<b, c>>, x)
  BY Zenon DEF iommu_exec
<1>c. PICK d \in Domain : d = <<b, c>> /\ d[1] = b
  BY DomainPair, Zenon
<1>d. \/ domain_create(d) \/ domain_destroy(d) \/ device_attach(d, v) \/ device_detach(d, v)
      \/ map_block(p, d, x) \/ unmap_block(d, x)
  BY <1>b, <1>c, Zenon
<1>e. /\ d # Nil /\ domain[d] \in [live : BOOLEAN, devices : SUBSET Requester, mappings : SUBSET Block]
      /\ \A y \in Block : owner[y] = Nil => dma_maps[y] = {}
  BY <1>a, ObjectsAssumption, Zenon DEF Domain, IommuTypes, BlockInv, Released
<1>f. NoDomain \in [live : BOOLEAN, devices : SUBSET Requester, mappings : SUBSET Block]
      /\ NoDomain.devices = {} /\ NoDomain.mappings = {}
  BY Zenon DEF NoDomain
<1>1. CASE domain_create(d)
  <2>1. /\ domain' = [domain EXCEPT ![d].live = TRUE] /\ UNCHANGED <<context, slpt, dma_maps>>
    BY <1>1, Zenon DEF domain_create
  <2>2. /\ domain' \in [Domain -> [live : BOOLEAN, devices : SUBSET Requester, mappings : SUBSET Block]]
        /\ \A e \in Domain : /\ domain'[e].devices = domain[e].devices
                             /\ domain'[e].mappings = domain[e].mappings
    BY <1>a, <2>1, ZenonT(60) DEF IommuTypes
  <2>3. Mappings' /\ Attachments'
    BY <1>a, <2>1, <2>2, Zenon DEF Mappings, Attachments
  <2>4. QED
    BY <1>a, <1>e, <2>1, <2>2, <2>3, Zenon DEF DmaKept, IommuTypes
<1>2. CASE domain_destroy(d)
  <2>1. /\ domain' = [domain EXCEPT ![d] = NoDomain] /\ slpt' = [slpt EXCEPT ![d] = {}]
        /\ domain[d].devices = {} /\ domain[d].mappings = {} /\ UNCHANGED <<context, dma_maps>>
    BY <1>2, Zenon DEF domain_destroy, vtd_domain_destroy
  <2>2. /\ domain' \in [Domain -> [live : BOOLEAN, devices : SUBSET Requester, mappings : SUBSET Block]]
        /\ \A e \in Domain : /\ domain'[e].devices = domain[e].devices
                             /\ domain'[e].mappings = domain[e].mappings
    BY <1>a, <1>f, <2>1, Zenon DEF IommuTypes
  <2>3. \A y \in Block : d \notin dma_maps[y]
    BY <1>a, <2>1, Zenon DEF Mappings
  <2>4. Mappings' /\ Attachments'
    BY <1>a, <2>1, <2>2, <2>3, SMTT(60) DEF Mappings, Attachments, IommuTypes
  <2>5. QED
    BY <1>a, <1>e, <2>1, <2>2, <2>4, Zenon DEF DmaKept, IommuTypes
<1>3. CASE device_attach(d, v)
  <2>1. /\ domain' = [domain EXCEPT ![d].devices = @ \cup {v}] /\ UNCHANGED <<slpt, dma_maps>>
        /\ context' = [context EXCEPT ![v] = d] /\ \A e \in Domain : v \notin domain[e].devices
    BY <1>3, Zenon DEF device_attach, vtd_attach
  <2>2. /\ domain' \in [Domain -> [live : BOOLEAN, devices : SUBSET Requester, mappings : SUBSET Block]]
        /\ \A e \in Domain : domain'[e].mappings = domain[e].mappings
        /\ domain'[d].devices = domain[d].devices \cup {v}
        /\ \A e \in Domain \ {d} : domain'[e].devices = domain[e].devices
    <3>1. /\ domain'[d] = [domain[d] EXCEPT !.devices = domain[d].devices \cup {v}]
          /\ \A e \in Domain \ {d} : domain'[e] = domain[e]
          /\ domain' = [e \in Domain |-> domain'[e]]
      BY <1>a, <2>1, Zenon DEF IommuTypes
    <3>2. /\ domain'[d] \in [live : BOOLEAN, devices : SUBSET Requester, mappings : SUBSET Block]
          /\ domain'[d].mappings = domain[d].mappings /\ domain'[d].devices = domain[d].devices \cup {v}
      BY <1>e, <3>1
    <3>3. \A e \in Domain : domain[e] \in [live : BOOLEAN, devices : SUBSET Requester, mappings : SUBSET Block]
      BY <1>a, Zenon DEF IommuTypes
    <3>4. QED
      BY <3>1, <3>2, <3>3, Zenon
  <2>3. Mappings'
    BY <1>a, <2>1, <2>2, Zenon DEF Mappings
  <2>4. Attachments'
    <3>1. ASSUME NEW e \in Domain, NEW w \in Requester
          PROVE  (w \in domain'[e].devices) <=> (context'[w] = e)
      <4>1. CASE w = v
        BY <1>a, <2>1, <2>2, <4>1, Zenon DEF IommuTypes
      <4>2. CASE w # v
        <5>1. context'[w] = context[w] /\ (w \in domain'[e].devices <=> w \in domain[e].devices)
          BY <1>a, <2>1, <2>2, <4>2, Zenon DEF IommuTypes
        <5>2. QED
          BY <1>a, <5>1, Zenon DEF Attachments
      <4>3. QED
        BY <4>1, <4>2, Zenon
    <3>2. QED
      BY <3>1, Zenon DEF Attachments
  <2>5. QED
    BY <1>a, <1>c, <1>e, <2>1, <2>2, <2>3, <2>4, Zenon DEF DmaKept, IommuTypes
<1>4. CASE device_detach(d, v)
  <2>1. /\ domain' = [domain EXCEPT ![d].devices = @ \ {v}] /\ UNCHANGED <<slpt, dma_maps>>
        /\ context' = [context EXCEPT ![v] = Nil] /\ v \in domain[d].devices
    BY <1>4, Zenon DEF device_detach, vtd_detach
  <2>2. /\ domain' \in [Domain -> [live : BOOLEAN, devices : SUBSET Requester, mappings : SUBSET Block]]
        /\ \A e \in Domain : domain'[e].mappings = domain[e].mappings
        /\ domain'[d].devices = domain[d].devices \ {v}
        /\ \A e \in Domain \ {d} : domain'[e].devices = domain[e].devices
    <3>1. /\ domain'[d] = [domain[d] EXCEPT !.devices = domain[d].devices \ {v}]
          /\ \A e \in Domain \ {d} : domain'[e] = domain[e]
          /\ domain' = [e \in Domain |-> domain'[e]]
      BY <1>a, <2>1, Zenon DEF IommuTypes
    <3>2. /\ domain'[d] \in [live : BOOLEAN, devices : SUBSET Requester, mappings : SUBSET Block]
          /\ domain'[d].mappings = domain[d].mappings /\ domain'[d].devices = domain[d].devices \ {v}
      BY <1>e, <3>1, Zenon
    <3>3. \A e \in Domain : domain[e] \in [live : BOOLEAN, devices : SUBSET Requester, mappings : SUBSET Block]
      BY <1>a, Zenon DEF IommuTypes
    <3>4. QED
      BY <3>1, <3>2, <3>3, Zenon
  <2>3. Mappings'
    BY <1>a, <2>1, <2>2, Zenon DEF Mappings
  <2>4. Attachments'
    <3>1. \A e \in Domain : e # Nil
      BY ObjectsAssumption, Zenon DEF Domain
    <3>2. ASSUME NEW e \in Domain, NEW w \in Requester
          PROVE  (w \in domain'[e].devices) <=> (context'[w] = e)
      <4>1. CASE w = v
        <5>1. \A g \in Domain : v \in domain[g].devices => g = d
          BY <1>a, <2>1, Zenon DEF Attachments
        <5>2. QED
          BY <1>a, <2>1, <2>2, <3>1, <4>1, <5>1, Zenon DEF IommuTypes
      <4>2. CASE w # v
        <5>1. context'[w] = context[w] /\ (w \in domain'[e].devices <=> w \in domain[e].devices)
          BY <1>a, <2>1, <2>2, <4>2, Zenon DEF IommuTypes
        <5>2. QED
          BY <1>a, <5>1, Zenon DEF Attachments
      <4>3. QED
        BY <4>1, <4>2, Zenon
    <3>3. QED
      BY <3>2, Zenon DEF Attachments
  <2>5. QED
    BY <1>a, <1>c, <1>e, <2>1, <2>2, <2>3, <2>4, Zenon DEF DmaKept, IommuTypes
<1>5. CASE map_block(p, d, x)
  <2>1. /\ domain' = [domain EXCEPT ![d].mappings = @ \cup {x}] /\ context' = context
        /\ slpt' = [slpt EXCEPT ![d] = @ \cup {x}] /\ dma_maps' = [dma_maps EXCEPT ![x] = @ \cup {d}]
        /\ owner[x] = p \/ x \in views[p]
    BY <1>5, Zenon DEF map_block, vtd_map
  <2>2. /\ domain' \in [Domain -> [live : BOOLEAN, devices : SUBSET Requester, mappings : SUBSET Block]]
        /\ \A e \in Domain : domain'[e].devices = domain[e].devices
        /\ domain'[d].mappings = domain[d].mappings \cup {x}
        /\ \A e \in Domain \ {d} : domain'[e].mappings = domain[e].mappings
    <3>1. /\ domain'[d] = [domain[d] EXCEPT !.mappings = domain[d].mappings \cup {x}]
          /\ \A e \in Domain \ {d} : domain'[e] = domain[e]
          /\ domain' = [e \in Domain |-> domain'[e]]
      BY <1>a, <2>1, Zenon DEF IommuTypes
    <3>2. /\ domain'[d] \in [live : BOOLEAN, devices : SUBSET Requester, mappings : SUBSET Block]
          /\ domain'[d].devices = domain[d].devices /\ domain'[d].mappings = domain[d].mappings \cup {x}
      BY <1>e, <3>1
    <3>3. \A e \in Domain : domain[e] \in [live : BOOLEAN, devices : SUBSET Requester, mappings : SUBSET Block]
      BY <1>a, Zenon DEF IommuTypes
    <3>4. QED
      BY <3>1, <3>2, <3>3, Zenon
  <2>3. Mappings'
    BY <1>a, <2>1, <2>2 DEF Mappings, IommuTypes
  <2>4. Attachments'
    BY <1>a, <2>1, <2>2, Zenon DEF Attachments
  <2>5. owner[x] # Nil
    BY <1>a, <2>1, ObjectsAssumption, Zenon DEF Edges
  <2>6. QED
    BY <1>a, <1>e, <2>1, <2>2, <2>3, <2>4, <2>5, Zenon DEF DmaKept, IommuTypes
<1>6. CASE unmap_block(d, x)
  <2>1. unmap_mapping(d, x)
    BY <1>6, Zenon DEF unmap_block
  <2>2. /\ domain' \in [Domain -> [live : BOOLEAN, devices : SUBSET Requester, mappings : SUBSET Block]]
        /\ slpt' \in [Domain -> SUBSET Block] /\ dma_maps' \in [Block -> SUBSET Domain]
        /\ Mappings' /\ Attachments' /\ context' = context
        /\ \A y \in Block : dma_maps'[y] \subseteq dma_maps[y]
        /\ \A e \in Domain : domain'[e].devices = domain[e].devices
    BY <2>1, Unmapped, Zenon
  <2>3. QED
    BY <1>a, <1>e, <2>2, Zenon DEF DmaKept, IommuTypes
<1>7. QED
  BY <1>d, <1>1, <1>2, <1>3, <1>4, <1>5, <1>6, Zenon

\* The devices of each ring, after a command of ring b.
LEMMA RingsKept ==
  ASSUME KInv, NEW b \in Block, DmaKept(b)
  PROVE  /\ OnRing(domain', b) \subseteq Requester
         /\ \A x \in Block \ {b} : \A v \in OnRing(domain', x) :
               v \in OnRing(domain, x) /\ v \in Requester /\ v \in Attached(domain') /\ v \notin OnRing(domain', b)
<1>1. ASSUME NEW x \in Block, NEW v \in OnRing(domain', x)
      PROVE  v \in Requester /\ \E c \in Cookie : <<x, c>> \in Domain /\ v \in domain'[<<x, c>>].devices
                                                  /\ context'[v] = <<x, c>>
  <2>1. PICK c \in Cookie : v \in domain'[<<x, c>>].devices
    BY Zenon DEF OnRing
  <2>2. <<x, c>> \in Domain
    BY DomainPair, Zenon
  <2>3. v \in Requester
    BY <2>1, <2>2, Zenon DEF DmaKept
  <2>4. context'[v] = <<x, c>>
    BY <2>1, <2>2, <2>3, Zenon DEF DmaKept, Attachments
  <2>5. QED
    BY <2>1, <2>2, <2>3, <2>4, Zenon
<1>2. ASSUME NEW x \in Block \ {b}, NEW v \in OnRing(domain', x)
      PROVE  v \in OnRing(domain, x) /\ v \in Requester /\ v \in Attached(domain') /\ v \notin OnRing(domain', b)
  <2>1. PICK c \in Cookie : <<x, c>> \in Domain /\ v \in domain'[<<x, c>>].devices
                            /\ context'[v] = <<x, c>>
    BY <1>1, Zenon
  <2>2. v \in domain[<<x, c>>].devices
    BY <2>1, Zenon DEF DmaKept
  <2>3. v \in OnRing(domain, x)
    BY <2>2, Zenon DEF OnRing
  <2>4. v \notin OnRing(domain', b)
    <3>1. SUFFICES ASSUME v \in OnRing(domain', b) PROVE FALSE
      BY Zenon
    <3>2. PICK e \in Cookie : context'[v] = <<b, e>>
      BY <1>1, <3>1, Zenon
    <3>3. QED
      BY <2>1, <3>2, SMTT(60)
  <2>5. QED
    BY <1>1, <2>1, <2>3, <2>4, Zenon DEF Attached
<1>3. QED
  BY <1>1, <1>2, Zenon

\* ring_replay, for every scheme: what is due is announced unless the ring is full.
LEMMA Replayed ==
  ASSUME KInv, NEW b \in Block, owner[b] \in Proc, NEW s \in Scheme,
         NEW q \in Seq(Cqe), Len(q) <= Slots, DmaKept(b), ring_replay(b, s, q)
  PROVE  /\ cq' \in [Block -> Seq(Cqe)] /\ Len(cq'[b]) <= Slots
         /\ \A x \in Block \ {b} : cq'[x] = cq[x]
         /\ pending' \in [Proc -> Seq(Block)]
         /\ \A p \in Proc : /\ IsInjective(pending'[p])
                            /\ Range(pending'[p]) \subseteq Range(pending[p])
                            /\ pending[p] = <<>> => pending'[p] = <<>>
         /\ told' \in [Proc -> BOOLEAN] /\ \A c \in Proc : told[c] => told'[c]
         /\ fault' \in [Requester -> [due : BOOLEAN, posted : BOOLEAN]]
         /\ \A v \in Requester :
               v \in Attached(domain') /\ v \notin OnRing(domain', b) => fault'[v] = fault[v]
         /\ Room(cq'[b]) > 0 =>
              /\ s = "shares" => pending'[owner[b]] = <<>>
              /\ s = "tree" => \A c \in tree_due(owner[b]) : told'[c]
              /\ s = "iommu" => \A v \in OnRing(domain', b) : fault'[v].due => fault'[v].posted
<1>a. BlockTypes /\ ChanTypes /\ ProcTypes /\ IommuTypes /\ Edges
  BY Parts, Zenon
<1>b. /\ \A p \in Proc : IsInjective(pending[p]) /\ pending \in [Proc -> Seq(Block)]
      /\ told \in [Proc -> BOOLEAN] /\ fault \in [Requester -> [due : BOOLEAN, posted : BOOLEAN]]
      /\ pending \in [Proc -> Seq(Block)]
  BY <1>a, Zenon DEF Edges, BlockTypes, ProcTypes, IommuTypes
<1>1. CASE s = "shares" /\ ReplayShares(b, q)
  <2>1. told' = told /\ fault' = fault
    BY <1>1, Zenon DEF ReplayShares
  <2>2. /\ cq' \in [Block -> Seq(Cqe)] /\ Len(cq'[b]) <= Slots
        /\ \A x \in Block \ {b} : cq'[x] = cq[x]
        /\ pending' \in [Proc -> Seq(Block)]
        /\ \A p \in Proc : /\ IsInjective(pending'[p])
                           /\ Range(pending'[p]) \subseteq Range(pending[p])
                           /\ pending[p] = <<>> => pending'[p] = <<>>
        /\ Room(cq'[b]) > 0 => pending'[owner[b]] = <<>>
    BY <1>1, <1>a, ReplayedShares, Zenon
  <2>3. QED
    BY <1>1, <1>b, <2>1, <2>2, Zenon
<1>2. CASE s = "tree" /\ ReplayTree(b, q)
  <2>1. pending' = pending /\ fault' = fault
    BY <1>2, Zenon DEF ReplayTree
  <2>2. /\ cq' \in [Block -> Seq(Cqe)] /\ Len(cq'[b]) <= Slots
        /\ \A x \in Block \ {b} : cq'[x] = cq[x]
        /\ told' \in [Proc -> BOOLEAN] /\ \A c \in Proc : told[c] => told'[c]
        /\ Room(cq'[b]) > 0 => \A c \in tree_due(owner[b]) : told'[c]
    BY <1>2, <1>a, ReplayedTree, Zenon
  <2>3. QED
    BY <1>2, <1>b, <2>1, <2>2, Zenon
<1>3. CASE s = "iommu" /\ ReplayIommu(b, q)
  <2>1. pending' = pending /\ told' = told
    BY <1>3, Zenon DEF ReplayIommu
  <2>2. OnRing(domain', b) \subseteq Requester
    BY RingsKept, Zenon
  <2>3. /\ cq' \in [Block -> Seq(Cqe)] /\ Len(cq'[b]) <= Slots
        /\ \A x \in Block \ {b} : cq'[x] = cq[x]
        /\ fault' \in [Requester -> [due : BOOLEAN, posted : BOOLEAN]]
        /\ \A v \in Requester :
              v \in Attached(domain') /\ v \notin OnRing(domain', b) => fault'[v] = fault[v]
        /\ Room(cq'[b]) > 0 => \A v \in OnRing(domain', b) : fault'[v].due => fault'[v].posted
    BY <1>3, <1>a, <2>2, ReplayedIommu, Zenon
  <2>4. QED
    BY <1>3, <1>b, <2>1, <2>3, Zenon
<1>4. QED
  BY <1>1, <1>2, <1>3, Zenon DEF ring_replay

\* A drain of ring b, and the replay that ends channel_scheme_create.
LEMMA DrainInv ==
  ASSUME KInv, Threads', Fewer, NEW b \in Block, owner[b] \in Proc, NEW s \in Scheme,
         NEW q \in Seq(Cqe), Len(q) <= Slots, DmaKept(b), ring_replay(b, s, q),
         sharers[b] = {}, ring' = [ring EXCEPT ![b] = s], Anchors',
         anchor' \in [Proc -> [Scheme -> Block \cup {Nil}]], rung' = [rung EXCEPT ![b] = TRUE],
         UNCHANGED <<reg, parent, children, dead, owner, sharers, views>>
  PROVE  KInv'
<1>a. /\ TypeOK /\ ProcTypes /\ BlockTypes /\ ChanTypes /\ IommuTypes /\ Edges /\ Holders /\ BlockInv
  BY Parts, Zenon
<1>1. /\ cq' \in [Block -> Seq(Cqe)] /\ Len(cq'[b]) <= Slots
      /\ \A x \in Block \ {b} : cq'[x] = cq[x]
  BY Replayed, Zenon
<1>2. /\ pending' \in [Proc -> Seq(Block)]
      /\ \A p \in Proc : /\ IsInjective(pending'[p])
                         /\ Range(pending'[p]) \subseteq Range(pending[p])
                         /\ pending[p] = <<>> => pending'[p] = <<>>
  BY Replayed, Zenon
<1>3. /\ told' \in [Proc -> BOOLEAN] /\ \A c \in Proc : told[c] => told'[c]
      /\ fault' \in [Requester -> [due : BOOLEAN, posted : BOOLEAN]]
      /\ \A v \in Requester :
            v \in Attached(domain') /\ v \notin OnRing(domain', b) => fault'[v] = fault[v]
  BY Replayed, Zenon
<1>4. Room(cq'[b]) > 0 =>
        /\ s = "shares" => pending'[owner[b]] = <<>>
        /\ s = "tree" => \A c \in tree_due(owner[b]) : told'[c]
        /\ s = "iommu" => \A v \in OnRing(domain', b) : fault'[v].due => fault'[v].posted
  BY Replayed, Zenon
<1>5. ring'[b] = s /\ \A x \in Block \ {b} : ring'[x] = ring[x] /\ rung'[x] = rung[x]
  BY <1>a, Zenon DEF ChanTypes
<1>6. ChanTypes'
  <2>1. ring' \in [Block -> Scheme \cup {"none"}] /\ rung' \in [Block -> BOOLEAN]
    BY <1>a, Zenon DEF ChanTypes
  <2>2. \A x \in Block : Len(cq'[x]) <= Slots
    BY <1>a, <1>1, Zenon DEF ChanTypes
  <2>3. QED
    BY <1>1, <2>1, <2>2, Zenon DEF ChanTypes
<1>7. ProcTypes' /\ BlockTypes' /\ IommuTypes'
  <2>1. ProcTypes'
    BY <1>a, <1>3, Zenon DEF ProcTypes
  <2>2. BlockTypes'
    BY <1>a, <1>2, Zenon DEF BlockTypes
  <2>3. IommuTypes'
    BY <1>3, Zenon DEF IommuTypes, DmaKept
  <2>4. QED
    BY <2>1, <2>2, <2>3, Zenon
<1>8. Edges'
  <2>1. \A x \in Block : sharers'[x] # {} => owner'[x] # Nil /\ ring'[x] = "none"
    BY <1>a, <1>5, Zenon DEF Edges
  <2>2. \A p \in Proc : IsInjective(pending'[p]) /\ Range(pending'[p]) \subseteq views'[p]
    BY <1>a, <1>2, Zenon DEF Edges
  <2>3. QED
    BY <1>a, <2>1, <2>2, Zenon DEF Edges
<1>9. Holders' /\ TreeInv'
  BY <1>a, HoldersFrame, TreeFrame, Zenon
<1>10. BlockInv'
  BY <1>a, <1>5, ObjectsAssumption, Zenon DEF BlockInv, Released, DmaKept
<1>11. ASSUME NEW x \in Block, (ring[x] # "none" /\ rung[x] /\ Room(cq[x]) > 0)'
       PROVE  Announced(x)'
  <2>1. process_is_dead(owner[x])' <=> process_is_dead(owner[x])
    BY Zenon DEF process_is_dead, Upward
  <2>2. tree_due(owner[x])' \subseteq tree_due(owner[x])
    <3>1. owner[x] \in Proc \/ owner[x] = Nil
      BY <1>a, Zenon DEF BlockTypes
    <3>2. CASE owner[x] = Nil
      BY <1>10, <1>11, <3>2, Zenon DEF BlockInv, Released
    <3>3. CASE owner[x] \in Proc
      BY <1>a, <1>3, <3>3, Zenon DEF tree_due, ProcTypes
    <3>4. QED
      BY <3>1, <3>2, <3>3, Zenon
  <2>3. CASE x = b
    <3>1. s = "tree" => tree_due(owner[b])' = {}
      BY <1>4, <1>11, <2>2, <2>3, Zenon DEF tree_due
    <3>2. s = "shares" => pending'[owner[b]] = <<>>
      BY <1>4, <1>11, <2>3, Zenon
    <3>3. s = "iommu" => \A v \in OnRing(domain', b) : fault'[v].due => fault'[v].posted
      BY <1>4, <1>11, <2>3, Zenon
    <3>4. QED
      BY <1>5, <2>3, <3>1, <3>2, <3>3, Zenon DEF Announced
  <2>4. CASE x # b
    <3>1. /\ ring'[x] = ring[x] /\ owner'[x] = owner[x] /\ rung'[x] = rung[x] /\ cq'[x] = cq[x]
          /\ Len(cq'[x]) \in Nat /\ Len(cq[x]) <= Len(cq'[x])
      BY <1>a, <1>1, <1>5, <2>4, SMTT(60) DEF ChanTypes
    <3>2. \A v \in OnRing(domain', x) : v \in OnRing(domain, x) /\ fault'[v] = fault[v]
      BY <1>3, <2>4, RingsKept, Zenon
    <3>3. owner[x] \in Proc
      BY <1>a, <1>11, <3>1, Zenon DEF BlockTypes, BlockInv, Released
    <3>4. pending[owner[x]] = <<>> => pending'[owner[x]] = <<>>
      BY <1>2, <3>3, Zenon
    <3>5. QED
      BY <1>11, <2>1, <2>2, <3>1, <3>2, <3>4, AnnouncedFrame, Zenon
  <2>5. QED
    BY <2>3, <2>4, Zenon
<1>12. QED
  BY <1>6, <1>7, <1>8, <1>9, <1>10, <1>11, PartsPrime, Zenon DEF NothingStranded, DmaKept

\* A doorbell, and a drain of one command.
LEMMA BellInv ==
  ASSUME KInv, Threads', Fewer, NEW p \in Proc, NEW b \in Block,
         Doorbell(p, b) \/ channel_ring_drain(p, b)
  PROVE  KInv'
<1>a. ChanTypes /\ Edges /\ Anchors
  BY Parts, Zenon
<1>b. /\ owner[b] = p /\ ring[b] # "none" /\ rung' = [rung EXCEPT ![b] = TRUE]
      /\ UNCHANGED <<reg, parent, children, dead, owner, sharers, views, ring, anchor>>
  BY Zenon DEF Doorbell, channel_ring_drain
<1>c. ring[b] \in Scheme /\ cq[b] \in Seq(Cqe) /\ Len(cq[b]) <= Slots
  BY <1>a, <1>b, Zenon DEF ChanTypes
<1>1. \E q \in Seq(Cqe) : Len(q) <= Slots /\ ring_replay(b, ring[b], q)
  <2>1. CASE Doorbell(p, b)
    BY <1>c, <2>1, Zenon DEF Doorbell
  <2>2. CASE channel_ring_drain(p, b)
    <3>1. ring_replay(b, ring[b], ring_post(cq[b], Done))
      BY <2>2, Zenon DEF channel_ring_drain
    <3>2. Done \in Cqe
      BY Zenon DEF Done, Event, Cqe
    <3>3. ring_post(cq[b], Done) \in Seq(Cqe) /\ Len(ring_post(cq[b], Done)) <= Slots
      <4>1. CASE Room(cq[b]) > 0
        BY <1>c, <3>2, <4>1, ObjectsAssumption, SMTT(60) DEF ring_post, Room
      <4>2. CASE ~(Room(cq[b]) > 0)
        BY <1>c, <4>2, Zenon DEF ring_post
      <4>3. QED
        BY <4>1, <4>2, Zenon
    <3>4. QED
      BY <3>1, <3>3, Zenon
  <2>3. QED
    BY <2>1, <2>2, Zenon
<1>2. DmaKept(b)
  <2>1. iommu_exec(p, b) \/ UNCHANGED <<domain, context, slpt, dma_maps>>
    BY Zenon DEF Doorbell, channel_ring_drain
  <2>2. QED
    BY <2>1, IdleKept, ExecKept, Zenon
<1>3. sharers[b] = {}
  BY <1>a, <1>b, Zenon DEF Edges
<1>4. ring' = [ring EXCEPT ![b] = ring[b]]
  BY <1>a, <1>b, Zenon DEF ChanTypes
<1>5. Anchors'
  BY <1>a, <1>b, AnchorsFrame, Zenon
<1>6. anchor' \in [Proc -> [Scheme -> Block \cup {Nil}]]
  BY <1>a, <1>b, Zenon DEF ChanTypes
<1>7. PICK q \in Seq(Cqe) : Len(q) <= Slots /\ ring_replay(b, ring[b], q)
  BY <1>1, Zenon
<1>8. PICK s \in Scheme : s = ring[b]
  BY <1>c, Zenon
<1>9. ring_replay(b, s, q) /\ ring' = [ring EXCEPT ![b] = s] /\ owner[b] \in Proc
  BY <1>b, <1>4, <1>7, <1>8, Zenon
<1>10. QED
  BY <1>b, <1>2, <1>3, <1>5, <1>6, <1>7, <1>9, DrainInv, Zenon

\* channel_scheme_create: the process had no ring of the scheme, and has this one now.
LEMMA RingInv ==
  ASSUME KInv, Threads', Fewer, NEW p \in Proc, NEW b \in Block, NEW s \in Scheme,
         owner[b] = p, ring[b] = "none", sharers[b] = {}, anchor[p][s] = Nil,
         ring' = [ring EXCEPT ![b] = s], anchor' = [anchor EXCEPT ![p][s] = b],
         rung' = [rung EXCEPT ![b] = TRUE], UNCHANGED <<domain, context, slpt, dma_maps>>,
         ring_replay(b, s, <<>>), UNCHANGED <<reg, parent, children, dead, owner, sharers, views>>
  PROVE  KInv'
<1>a. ChanTypes /\ Anchors
  BY Parts, Zenon
<1>1. DmaKept(b)
  BY IdleKept, Zenon
<1>2. anchor' \in [Proc -> [Scheme -> Block \cup {Nil}]]
  BY <1>a, Zenon DEF ChanTypes
<1>3. Anchors'
  <2> SUFFICES ASSUME NEW r \in Proc, NEW z \in Scheme, NEW x \in Block
               PROVE  (anchor'[r][z] = x) <=> (owner'[x] = r /\ ring'[x] = z)
    BY Zenon DEF Anchors
  <2>1. (anchor[r][z] = x) <=> (owner[x] = r /\ ring[x] = z)
    BY <1>a DEF Anchors
  <2>2. Nil \notin Block /\ z # "none"
    BY ObjectsAssumption, Zenon DEF Scheme
  <2>3. CASE r = p /\ z = s
    BY <1>a, <2>1, <2>2, <2>3, Zenon DEF ChanTypes
  <2>4. CASE ~(r = p /\ z = s)
    <3>1. anchor'[r][z] = anchor[r][z]
      BY <1>a, <2>4, Zenon DEF ChanTypes
    <3>2. CASE x = b
      BY <1>a, <2>1, <2>2, <2>4, <3>1, <3>2, Zenon DEF ChanTypes
    <3>3. CASE x # b
      BY <1>a, <2>1, <2>2, <3>1, <3>3, Zenon DEF ChanTypes
    <3>4. QED
      BY <3>2, <3>3, Zenon
  <2>5. QED
    BY <2>3, <2>4, Zenon
<1>4. <<>> \in Seq(Cqe) /\ Len(<<>>) <= Slots
  BY ObjectsAssumption
<1>5. QED
  BY <1>1, <1>2, <1>3, <1>4, DrainInv, Zenon

-----------------------------------------------------------------------------
\* The steps of a thread.

\* What every step of thread t leaves alone: links, marks, registered bodies, the
\* threads that run user code, and a dead process without threads gains nothing.
Onward ==
    \A x \in Proc : /\ parent[x] # Nil => parent'[x] = parent[x]
                    /\ dead[x] => dead'[x]
                    /\ reg[x] # "none" => reg'[x] # "none"
Gains(p) ==
    /\ children'[p] \subseteq children[p] /\ threads'[p] = {}
    /\ views'[p] \subseteq views[p]
    /\ \A b \in Block : owner'[b] = p => owner[b] = p
Idle(p) == process_is_dead(p) /\ threads[p] = {}
Aside(t) == \A u \in Thread \ {t} : tcb[u].at = "user" => tcb'[u] = tcb[u]
Kept(t) == KInv' /\ Onward /\ Aside(t) /\ \A p \in Proc : Idle(p) => Gains(p)

\* Steps that take no new thread, child, view or block.
LEMMA ShrinkKept ==
  ASSUME KInv, Fewer, UNCHANGED <<reg, parent, children>>,
         \A x \in Proc : dead[x] => dead'[x],
         \A p \in Proc : views'[p] \subseteq views[p],
         \A b \in Block : owner'[b] = owner[b] \/ owner'[b] = Nil
  PROVE  Onward /\ \A p \in Proc : Idle(p) => Gains(p)
<1>1. Onward
  BY Zenon DEF Onward
<1>2. ASSUME NEW p \in Proc, Idle(p) PROVE Gains(p)
  BY <1>2, ObjectsAssumption, Zenon DEF Gains, Idle, Fewer
<1>3. QED
  BY <1>1, <1>2, Zenon

\* The steps that only move the thread.
LEMMA MoveKept ==
  ASSUME KInv, NEW t \in Thread,
         \/ syscall_dispatch(t) \/ Checkpoint(t) \/ Wake(t) \/ Park(t) \/ thread_exit(t) \/ Refused(t)
  PROVE  Kept(t)
<1>a. ThreadTypes /\ ProcTypes
  BY Parts, Zenon
<1>1. \E x \in {"user", "kernel", "parked", "leaving"} : tcb' = [tcb EXCEPT ![t].at = x]
  BY Zenon DEF syscall_dispatch, Checkpoint, Wake, Park, thread_exit, Refused, Return
<1>2. /\ tcb[t].at \in {"user", "kernel", "parked"}
      /\ UNCHANGED <<procVars, threads, pins, blockVars, chanVars, iommuVars>>
  BY Zenon DEF syscall_dispatch, Checkpoint, Wake, Park, thread_exit, Refused, Return, Call
<1>3. calls' \in 0 .. CallMax
  <2>1. calls' = calls \/ (calls < CallMax /\ calls' = calls + 1)
    BY Zenon DEF syscall_dispatch, Checkpoint, Wake, Park, thread_exit, Refused, Return
  <2>2. QED
    BY <1>a, <2>1, ObjectsAssumption, SMTT(60) DEF ThreadTypes
<1>4. Threads' /\ Fewer
  BY <1>1, <1>2, <1>3, ModeKept, Zenon
<1>5. KInv'
  BY <1>2, <1>4, StillInv, Zenon
<1>6. Aside(t)
  BY <1>1, <1>a, Zenon DEF Aside, ThreadTypes
<1>7. Onward /\ \A p \in Proc : Idle(p) => Gains(p)
  BY <1>2, <1>4, ShrinkKept, Zenon DEF procVars, blockVars
<1>8. QED
  BY <1>5, <1>6, <1>7, Zenon DEF Kept

\* A death that no thread goes with: Die marks, and no mark is taken back.
LEMMA DieMarks ==
  ASSUME ProcTypes, NEW p \in Proc, Die(p)
  PROVE  /\ UNCHANGED <<reg, parent, children, owner, views>>
         /\ \A x \in Proc : dead[x] => dead'[x]
BY Zenon DEF Die, mark_dead, blockVars, ProcTypes

\* process_exit and kill.
LEMMA ExitKept ==
  ASSUME KInv, NEW t \in Thread,
         proc_sys_process_exit(t) \/ \E q \in Known : proc_sys_kill(t, q)
  PROVE  Kept(t)
<1>a. ThreadTypes /\ ProcTypes
  BY Parts, Zenon
<1>b. /\ tcb[t].at = "kernel" /\ UNCHANGED <<threads, pins, calls>>
      /\ tcb' = [tcb EXCEPT ![t].at = "leaving"] \/ tcb' = [tcb EXCEPT ![t].at = "user"]
  BY Zenon DEF proc_sys_process_exit, proc_sys_kill, Call, Return
<1>1. \E p \in Proc : Die(p) /\ ~Unused(p) /\ \A u \in Thread : Creating(u) => tcb[u].arg # p
  <2>1. CASE proc_sys_process_exit(t)
    <3>1. Die(Me(t)) /\ Me(t) \in Proc
      BY <1>b, <2>1, Running, Zenon DEF proc_sys_process_exit
    <3>2. ~Unused(Me(t)) /\ \A u \in Thread : Creating(u) => tcb[u].arg # Me(t)
      BY <1>b, Running, Zenon DEF Unused
    <3>3. QED
      BY <3>1, <3>2, Zenon
  <2>2. CASE \E q \in Known : proc_sys_kill(t, q)
    BY <2>2, KnownLinked, Zenon DEF proc_sys_kill
  <2>3. QED
    BY <2>1, <2>2, Zenon
<1>2. Threads' /\ Fewer
  <2>1. calls' \in 0 .. CallMax
    BY <1>a, <1>b, Zenon DEF ThreadTypes
  <2>2. QED
    BY <1>b, <2>1, ModeKept, Zenon
<1>3. KInv'
  BY <1>1, <1>2, DieInv, Zenon
<1>4. Aside(t)
  BY <1>a, <1>b, Zenon DEF Aside, ThreadTypes
<1>5. UNCHANGED <<reg, parent, children, owner, views>> /\ \A x \in Proc : dead[x] => dead'[x]
  BY <1>a, <1>1, DieMarks, Zenon
<1>6. Onward /\ \A p \in Proc : Idle(p) => Gains(p)
  BY <1>2, <1>5, ShrinkKept, Zenon
<1>7. QED
  BY <1>3, <1>4, <1>6, Zenon DEF Kept

\* A thread that is leaving is disposed of; the last one takes its process along.
LEMMA ExitedKept ==
  ASSUME KInv, Counting, NEW t \in Thread, process_thread_exited(t)
  PROVE  Kept(t)
<1>a. ThreadTypes /\ ProcTypes
  BY Parts, Zenon
<1>b. /\ tcb[t].at = "leaving" /\ DropThread(t) /\ tcb' = [tcb EXCEPT ![t] = NoThread] /\ calls' = calls
  BY Zenon DEF process_thread_exited
<1>1. NoThread \in Tcb
  BY Zenon DEF NoThread, Tcb
<1>2. /\ tcb' \in [Thread -> Tcb] /\ tcb'[t] = NoThread /\ \A u \in Thread \ {t} : tcb'[u] = tcb[u]
  BY <1>a, <1>b, <1>1, Zenon DEF ThreadTypes
<1>3. Threads' /\ Fewer
  BY <1>b, <1>2, DropKept, Zenon
<1>4. CASE Die(Me(t))
  <2>1. /\ Me(t) \in Proc /\ ~Unused(Me(t))
        /\ \A u \in Thread : Creating(u) => tcb[u].arg # Me(t)
    BY <1>b, Running, Zenon DEF Unused
  <2>2. KInv'
    BY <1>3, <1>4, <2>1, DieInv, Zenon
  <2>3. UNCHANGED <<reg, parent, children, owner, views>> /\ \A x \in Proc : dead[x] => dead'[x]
    BY <1>a, <1>4, <2>1, DieMarks, Zenon
  <2>4. Onward /\ \A p \in Proc : Idle(p) => Gains(p)
    BY <1>3, <2>3, ShrinkKept, Zenon
  <2>5. QED
    BY <1>2, <2>2, <2>4, Zenon DEF Kept, Aside
<1>5. CASE UNCHANGED <<procVars, blockVars, chanVars, iommuVars>>
  <2>1. KInv'
    BY <1>3, <1>5, StillInv, Zenon
  <2>2. Onward /\ \A p \in Proc : Idle(p) => Gains(p)
    BY <1>3, <1>5, ShrinkKept, Zenon DEF procVars, blockVars
  <2>3. QED
    BY <1>2, <2>1, <2>2, Zenon DEF Kept, Aside
<1>6. QED
  BY <1>4, <1>5, Zenon DEF process_thread_exited

\* thread_destroy: a parked thread is disposed of by a sibling or a reaper.
LEMMA ThreadDestroyKept ==
  ASSUME KInv, Counting, NEW t \in Thread, NEW q \in Proc, tcb[t].at \in {"kernel", "user"},
         NEW u, proc_sys_thread_destroy(t, q, u)
  PROVE  Kept(t) /\ UNCHANGED <<reg, parent, dead>> /\ u # t
         /\ tcb'[t] = [tcb[t] EXCEPT !.at = "user"]
<1>a. ThreadTypes
  BY Parts, Zenon
<1>b. /\ u \in threads[q] /\ tcb[u].at = "parked" /\ DropThread(u) /\ calls' = calls
      /\ tcb' = [tcb EXCEPT ![u] = NoThread, ![t].at = "user"]
      /\ UNCHANGED <<procVars, blockVars, chanVars, iommuVars>>
  BY Zenon DEF proc_sys_thread_destroy, Destroyable
<1>c. u \in Thread /\ u # t /\ NoThread \in Tcb
  BY <1>a, <1>b, Zenon DEF ThreadTypes, NoThread, Tcb
<1>1. /\ tcb' \in [Thread -> Tcb] /\ tcb'[u] = NoThread /\ tcb'[t] = [tcb[t] EXCEPT !.at = "user"]
      /\ \A w \in Thread \ {t, u} : tcb'[w] = tcb[w]
  <2>1. tcb[t] \in Tcb /\ [tcb[t] EXCEPT !.at = "user"] \in Tcb
    BY <1>a, Zenon DEF ThreadTypes, Tcb
  <2>2. QED
    BY <1>a, <1>b, <1>c, <2>1, Zenon DEF ThreadTypes
<1>2. /\ tcb'[t].proc = tcb[t].proc /\ tcb'[t].done = tcb[t].done /\ tcb'[t].arg = tcb[t].arg
      /\ tcb'[t].at = "user"
  BY <1>a, <1>1, Zenon DEF ThreadTypes, Tcb
<1>3. ASSUME NEW w \in Thread \ {u}
      PROVE  /\ tcb'[w].proc = tcb[w].proc /\ tcb'[w].done = tcb[w].done
             /\ tcb'[w].arg = tcb[w].arg
             /\ tcb'[w].at = "creating" => tcb[w].at = "creating"
             /\ tcb'[w].at # "none" => tcb[w].at # "none"
  BY <1>1, <1>2, Zenon
<1>4. Threads' /\ Fewer
  BY <1>b, <1>c, <1>1, <1>3, DropKept, Zenon
<1>5. KInv'
  BY <1>b, <1>4, StillInv, Zenon
<1>6. Onward /\ \A p \in Proc : Idle(p) => Gains(p)
  BY <1>b, <1>4, ShrinkKept, Zenon DEF procVars, blockVars
<1>7. Aside(t)
  BY <1>b, <1>1, Zenon DEF Aside
<1>8. QED
  BY <1>b, <1>c, <1>1, <1>5, <1>6, <1>7, Zenon DEF Kept, procVars

\* A call of thread t that ends in user mode.
LEMMA Returned ==
  ASSUME KInv, NEW t \in Thread, Call(t), Return(t)
  PROVE  /\ Threads' /\ Fewer /\ Aside(t)
         /\ Me(t) \in Proc /\ threads[Me(t)] # {} /\ threads' = threads
<1>a. ThreadTypes
  BY Parts, Zenon
<1>b. /\ tcb[t].at = "kernel" /\ tcb' = [tcb EXCEPT ![t].at = "user"]
      /\ UNCHANGED <<threads, pins, calls>>
  BY Zenon DEF Call, Return
<1>1. calls' \in 0 .. CallMax
  BY <1>a, <1>b, Zenon DEF ThreadTypes
<1>2. Threads' /\ Fewer
  BY <1>b, <1>1, ModeKept, Zenon
<1>3. Aside(t)
  BY <1>a, <1>b, Zenon DEF Aside, ThreadTypes
<1>4. Me(t) \in Proc /\ t \in threads[Me(t)]
  BY <1>b, Running, Zenon
<1>5. QED
  BY <1>b, <1>2, <1>3, <1>4, Zenon

\* The calls that give their process, a child or another process something: an
\* alloc, a share, a move.  The receiver runs, or was looked up alive.
LEMMA GiveKept ==
  ASSUME KInv, NEW t \in Thread, NEW b \in Block,
         umem_alloc(t, b) \/ \E q \in Known : umem_share(t, b, q) \/ proc_sys_vm_move(t, b, q)
  PROVE  Kept(t)
<1>a. BlockTypes /\ Nil \notin Proc
  BY Parts, ObjectsAssumption, Zenon
<1>b. Call(t) /\ Return(t)
  BY Zenon DEF umem_alloc, umem_share, proc_sys_vm_move
<1>c. Threads' /\ Fewer /\ Aside(t) /\ Me(t) \in Proc /\ threads[Me(t)] # {} /\ threads' = threads
  BY <1>b, Returned, Zenon
<1>d. \A q \in Known : q \in Proc
  BY Zenon DEF Known
<1>1. CASE umem_alloc(t, b)
  <2>1. /\ owner[b] = Nil /\ owner' = [owner EXCEPT ![b] = Me(t)]
        /\ UNCHANGED <<procVars, sharers, views, pending, chanVars, iommuVars>>
    BY <1>1, Zenon DEF umem_alloc
  <2>2. KInv'
    BY <1>c, <2>1, AllocInv, Zenon
  <2>3. Onward
    BY <2>1, Zenon DEF Onward, procVars
  <2>4. ASSUME NEW p \in Proc, Idle(p) PROVE Gains(p)
    BY <1>a, <1>c, <2>1, <2>4, Zenon DEF Gains, Idle, procVars, BlockTypes
  <2>5. QED
    BY <1>c, <2>2, <2>3, <2>4, Zenon DEF Kept
<1>2. ASSUME NEW q \in Known, umem_share(t, b, q) PROVE Kept(t)
  <2>1. /\ owner[b] = Me(t) /\ proc_lookup(q) /\ q # Me(t) /\ ring[b] = "none" /\ q \notin sharers[b]
        /\ sharers' = [sharers EXCEPT ![b] = @ \cup {q}]
        /\ views' = [views EXCEPT ![q] = @ \cup {b}]
        /\ LET r == anchor[q].shares IN
           IF r # Nil /\ Room(cq[r]) > 0
           THEN cq' = [cq EXCEPT ![r] = ring_post(@, Event("share", b))] /\ UNCHANGED pending
           ELSE pending' = [pending EXCEPT ![q] = Append(@, b)] /\ UNCHANGED cq
        /\ UNCHANGED <<procVars, owner, ring, anchor, rung, iommuVars>>
    BY <1>2, Zenon DEF umem_share
  <2>2. owner[b] # Nil /\ owner[b] # q /\ q \in Proc
    BY <1>a, <1>c, <1>d, <2>1, Zenon
  <2>3. KInv'
    BY <1>c, <2>1, <2>2, ShareInv, Zenon
  <2>4. Onward
    BY <2>1, Zenon DEF Onward, procVars
  <2>5. ASSUME NEW p \in Proc, Idle(p) PROVE Gains(p)
    <3>1. p # q
      BY <2>1, <2>5, Zenon DEF Idle, proc_lookup
    <3>2. views'[p] = views[p]
      BY <1>a, <2>1, <3>1, Zenon DEF BlockTypes
    <3>3. children' = children /\ owner' = owner
      BY <2>1, Zenon DEF procVars
    <3>4. QED
      BY <1>c, <2>5, <3>2, <3>3, Zenon DEF Gains, Idle
  <2>6. QED
    BY <1>c, <2>3, <2>4, <2>5, Zenon DEF Kept
<1>3. ASSUME NEW q \in Known, proc_sys_vm_move(t, b, q) PROVE Kept(t)
  <2>1. /\ owner[b] = Me(t) /\ proc_lookup(q) /\ ring[b] = "none"
        /\ owner' = [owner EXCEPT ![b] = q]
        /\ views' = [views EXCEPT ![q] = @ \ {b}] /\ pending' = Unlinked(q, b)
        /\ sharers' = [sharers EXCEPT ![b] = @ \ {q}]
        /\ UNCHANGED <<procVars, chanVars, iommuVars>>
    BY <1>3, Zenon DEF proc_sys_vm_move
  <2>2. owner[b] # Nil /\ q \in Proc
    BY <1>a, <1>c, <1>d, <2>1, Zenon
  <2>3. KInv'
    BY <1>c, <2>1, <2>2, MoveInv, Zenon
  <2>4. Onward
    BY <2>1, Zenon DEF Onward, procVars
  <2>5. ASSUME NEW p \in Proc, Idle(p) PROVE Gains(p)
    <3>1. p # q
      BY <2>1, <2>5, Zenon DEF Idle, proc_lookup
    <3>2. views'[p] = views[p] /\ \A x \in Block : owner'[x] = p => owner[x] = p
      BY <1>a, <2>1, <2>2, <3>1, Zenon DEF BlockTypes
    <3>3. children' = children
      BY <2>1, Zenon DEF procVars
    <3>4. QED
      BY <1>c, <2>5, <3>2, <3>3, Zenon DEF Gains, Idle
  <2>6. QED
    BY <1>c, <2>3, <2>4, <2>5, SMTT(60) DEF Kept
<1>4. QED
  BY <1>1, <1>2, <1>3, Zenon

\* The calls a process may make on its own objects, and a reaper on its victim's.
LEMMA ItemKept ==
  ASSUME KInv, Threads', Fewer, NEW p \in Proc, NEW b \in Block,
         \/ umem_free(p, b)
         \/ Doorbell(p, b) \/ channel_ring_drain(p, b)
         \/ \E q \in Proc : umem_dropshare(p, b, q) \/ umem_unshare(p, b, q)
         \/ \E d \in Domain : iommu_revoke_map(p, b, d)
  PROVE  /\ KInv' /\ Onward /\ UNCHANGED <<reg, parent, dead>>
         /\ \A x \in Proc : Idle(x) => Gains(x)
<1>a. BlockTypes /\ ProcTypes
  BY Parts, Zenon
<1> DEFINE Same == /\ UNCHANGED <<reg, parent, children, dead>>
                   /\ \A x \in Proc : views'[x] \subseteq views[x]
                   /\ \A x \in Block : owner'[x] = owner[x] \/ owner'[x] = Nil
<1>1. CASE umem_free(p, b)
  <2>1. owner[b] # Nil /\ free_locked(b)
    BY <1>1, Zenon DEF umem_free
  <2>2. KInv'
    BY <2>1, FreeInv, Zenon
  <2>3. Same
    BY <1>a, <2>1, Zenon DEF free_locked, procVars, BlockTypes
  <2>4. QED
    BY <2>2, <2>3, ShrinkKept, Zenon
<1>2. CASE Doorbell(p, b) \/ channel_ring_drain(p, b)
  <2>1. KInv'
    BY <1>2, BellInv, Zenon
  <2>2. Same
    BY <1>2, Zenon DEF Doorbell, channel_ring_drain
  <2>3. QED
    BY <2>1, <2>2, ShrinkKept, Zenon
<1>3. CASE \E q \in Proc : umem_dropshare(p, b, q) \/ umem_unshare(p, b, q)
  <2>1. PICK q \in Proc : DropEdge(b, q)
    BY <1>3, Zenon DEF umem_dropshare, umem_unshare
  <2>2. KInv'
    BY <2>1, DropEdgeInv, Zenon
  <2>3. Same
    BY <1>a, <2>1, Zenon DEF DropEdge, procVars, BlockTypes
  <2>4. QED
    BY <2>2, <2>3, ShrinkKept, Zenon
<1>4. CASE \E d \in Domain : iommu_revoke_map(p, b, d)
  <2>1. PICK d \in Domain : /\ unmap_mapping(d, b)
                            /\ UNCHANGED <<procVars, blockVars, chanVars, fault>>
    BY <1>4, Zenon DEF iommu_revoke_map
  <2>2. KInv'
    BY <2>1, RevokeInv, Zenon
  <2>3. Same
    BY <2>1, Zenon DEF procVars, blockVars
  <2>4. QED
    BY <2>2, <2>3, ShrinkKept, Zenon
<1>5. QED
  BY <1>1, <1>2, <1>3, <1>4, Zenon

\* Threads and processes are made.
LEMMA MakeKept ==
  ASSUME KInv, Counting, NEW t \in Thread,
         \/ \E q \in Known, u \in Thread, b \in Block \cup {Nil} : proc_sys_thread_spawn(t, q, u, b)
         \/ \E c \in Proc : process_create(t, c)
         \/ process_created(t)
  PROVE  Kept(t)
<1>a. ThreadTypes /\ ProcTypes /\ TreeInv
  BY Parts, Zenon
<1>1. ASSUME NEW q \in Known, NEW u \in Thread, NEW b \in Block \cup {Nil},
             proc_sys_thread_spawn(t, q, u, b)
      PROVE  Kept(t)
  <2>1. /\ proc_lookup(q) /\ tcb[u] = NoThread
        /\ threads' = [threads EXCEPT ![q] = @ \cup {u}]
        /\ tcb' = [tcb EXCEPT ![t].at = "user", ![u] = [proc |-> q, at |-> "user", arg |-> Nil, done |-> b]]
        /\ UNCHANGED <<procVars, blockVars, chanVars, iommuVars, calls>>
    BY <1>1, Zenon DEF proc_sys_thread_spawn
  <2>2. KInv'
    BY <1>1, SpawnInv, Zenon
  <2>3. Onward
    BY <2>1, Zenon DEF Onward, procVars
  <2>4. Aside(t)
    BY <1>a, <2>1, SMTT(60) DEF Aside, ThreadTypes, NoThread
  <2>5. ASSUME NEW p \in Proc, Idle(p) PROVE Gains(p)
    <3>1. p # q
      BY <2>1, <2>5, Zenon DEF Idle, proc_lookup
    <3>2. threads'[p] = threads[p]
      BY <1>a, <2>1, <3>1, Zenon DEF ThreadTypes
    <3>3. QED
      BY <2>1, <2>5, <3>2, Zenon DEF Gains, Idle, procVars, blockVars
  <2>6. QED
    BY <2>2, <2>3, <2>4, <2>5, Zenon DEF Kept
<1>2. ASSUME NEW c \in Proc, process_create(t, c)
      PROVE  Kept(t)
  <2>1. /\ parent[c] = Nil /\ reg' = [reg EXCEPT ![c] = "live"]
        /\ parent' = [parent EXCEPT ![c] = Me(t)]
        /\ tcb' = [tcb EXCEPT ![t].at = "creating", ![t].arg = c]
        /\ UNCHANGED <<children, dead, threads, blockVars>>
    BY <1>2, Zenon DEF process_create, Unused
  <2>2. KInv'
    BY <1>2, CreateInv, Zenon
  <2>3. Onward
    BY <1>a, <2>1, Zenon DEF Onward, ProcTypes
  <2>4. Aside(t)
    BY <1>a, <2>1, Zenon DEF Aside, ThreadTypes
  <2>5. ASSUME NEW p \in Proc, Idle(p) PROVE Gains(p)
    BY <2>1, <2>5, Zenon DEF Gains, Idle, blockVars
  <2>6. QED
    BY <2>2, <2>3, <2>4, <2>5, Zenon DEF Kept
<1>3. CASE process_created(t)
  <2>1. /\ tcb[t].at = "creating"
        /\ children' = [children EXCEPT ![Me(t)] = @ \cup {tcb[t].arg}]
        /\ tcb' = [tcb EXCEPT ![t].at = "user", ![t].arg = Nil]
        /\ UNCHANGED <<reg, parent, dead, threads, blockVars>>
    BY <1>3, Zenon DEF process_created
  <2>2. KInv'
    BY <1>3, CreatedInv, Zenon
  <2>3. Onward
    BY <2>1, Zenon DEF Onward
  <2>4. Aside(t)
    BY <1>a, <2>1, Zenon DEF Aside, ThreadTypes
  <2>5. t \in threads[Me(t)] /\ Me(t) \in Proc
    BY <2>1, Running, Zenon
  <2>6. ASSUME NEW p \in Proc, Idle(p) PROVE Gains(p)
    <3>1. p # Me(t)
      BY <2>5, <2>6, Zenon DEF Idle
    <3>2. children'[p] = children[p]
      BY <1>a, <2>1, <3>1, Zenon DEF ProcTypes
    <3>3. QED
      BY <2>1, <2>6, <3>2, Zenon DEF Gains, Idle, blockVars
  <2>7. QED
    BY <2>2, <2>3, <2>4, <2>6, Zenon DEF Kept
<1>4. QED
  BY <1>1, <1>2, <1>3, Zenon

\* channel_scheme_create.
LEMMA RingKept ==
  ASSUME KInv, NEW t \in Thread, NEW b \in Block, NEW s \in Scheme, channel_scheme_create(t, b, s)
  PROVE  Kept(t)
<1>1. /\ Call(t) /\ owner[b] = Me(t) /\ ring[b] = "none" /\ sharers[b] = {} /\ anchor[Me(t)][s] = Nil
      /\ ring' = [ring EXCEPT ![b] = s] /\ anchor' = [anchor EXCEPT ![Me(t)][s] = b]
      /\ rung' = [rung EXCEPT ![b] = TRUE] /\ UNCHANGED <<domain, context, slpt, dma_maps>>
      /\ ring_replay(b, s, <<>>) /\ Return(t)
      /\ UNCHANGED <<reg, parent, children, dead, owner, sharers, views>>
  BY Zenon DEF channel_scheme_create
<1>2. Threads' /\ Fewer /\ Aside(t) /\ Me(t) \in Proc
  BY <1>1, Returned, Zenon
<1>3. KInv'
  BY <1>1, <1>2, RingInv, Zenon
<1>4. Onward /\ \A p \in Proc : Idle(p) => Gains(p)
  BY <1>1, <1>2, ShrinkKept, Zenon
<1>5. QED
  BY <1>2, <1>3, <1>4, Zenon DEF Kept

\* kring_ack: a user thread takes a CQE.
LEMMA AckKept ==
  ASSUME KInv, NEW t \in Thread, NEW b \in Block, kring_ack(t, b)
  PROVE  Kept(t) /\ UNCHANGED <<reg, parent, dead, tcb>>
<1>1. /\ cq[b] # <<>> /\ cq' = [cq EXCEPT ![b] = Tail(@)] /\ rung' = [rung EXCEPT ![b] = FALSE]
      /\ UNCHANGED <<procVars, threadVars, blockVars, ring, anchor, iommuVars, calls>>
  BY Zenon DEF kring_ack
<1>2. Threads' /\ Fewer
  BY <1>1, SameKept, Zenon
<1>3. KInv'
  BY <1>1, <1>2, AckInv, Zenon
<1>4. Onward /\ \A p \in Proc : Idle(p) => Gains(p)
  BY <1>1, <1>2, ShrinkKept, Zenon DEF procVars, blockVars
<1>5. QED
  BY <1>1, <1>3, <1>4, Zenon DEF Kept, Aside, procVars, threadVars

\* Every step of a thread.
LEMMA ThreadKept ==
  ASSUME KInv, Counting, NEW t \in Thread, ThreadStep(t)
  PROVE  Kept(t)
<1>1. CASE Kernel(t)
  <2>1. CASE Call(t) /\ \E q \in Known, u \in Thread : proc_sys_thread_destroy(t, q, u)
    <3>1. PICK q \in Known, u \in Thread : proc_sys_thread_destroy(t, q, u) /\ tcb[t].at = "kernel"
      BY <2>1, Zenon DEF Call
    <3>2. q \in Proc
      BY Zenon DEF Known
    <3>3. QED
      BY <3>1, <3>2, ThreadDestroyKept, Zenon
  <2>2. CASE /\ Call(t) /\ Return(t)
             /\ \E b \in Block :
                   \/ umem_free(Me(t), b)
                   \/ Doorbell(Me(t), b) \/ channel_ring_drain(Me(t), b)
                   \/ \E q \in Known : umem_dropshare(Me(t), b, q) \/ umem_unshare(Me(t), b, q)
                   \/ \E d \in Domain : iommu_revoke_map(Me(t), b, d)
    <3>1. Threads' /\ Fewer /\ Aside(t) /\ Me(t) \in Proc
      BY <2>2, Returned, Zenon
    <3>2. PICK b \in Block :
             \/ umem_free(Me(t), b)
             \/ Doorbell(Me(t), b) \/ channel_ring_drain(Me(t), b)
             \/ \E q \in Proc : umem_dropshare(Me(t), b, q) \/ umem_unshare(Me(t), b, q)
             \/ \E d \in Domain : iommu_revoke_map(Me(t), b, d)
      BY <2>2, Zenon DEF Known
    <3>3. PICK p \in Proc : p = Me(t)
      BY <3>1, Zenon
    <3>4. /\ KInv' /\ Onward /\ UNCHANGED <<reg, parent, dead>>
          /\ \A x \in Proc : Idle(x) => Gains(x)
      BY <3>1, <3>2, <3>3, ItemKept, Zenon
    <3>5. QED
      BY <3>1, <3>4, Zenon DEF Kept
  <2>3. QED
    BY <1>1, <2>1, <2>2, MoveKept, ExitKept, MakeKept, GiveKept, RingKept, Zenon DEF Kernel
<1>2. QED
  BY <1>1, MoveKept, MakeKept, ExitedKept, AckKept, Zenon DEF ThreadStep
=============================================================================
