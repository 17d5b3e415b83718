-------------------------------- MODULE Slab --------------------------------
(***************************************************************************)
(* The fixed-type slab allocator (vendor/slab) over the buddy allocator.   *)
(* Each CPU has an arena of one-page slabs.  Its own allocations and frees *)
(* touch owner-only lists; another CPU frees into the page's atomic word   *)
(* thread_free, and the free that finds the page FULL also publishes it on *)
(* the owner's remote_ready list.  A step ends at each atomic load,        *)
(* exchange or compare-and-swap that another CPU can race with; the        *)
(* owner-only work up to it belongs to the step.  Lists linked through the *)
(* free objects are sequences; a compare-and-swap of thread_free compares  *)
(* the state and the head, as the word does.                               *)
(***************************************************************************)
EXTENDS Buddy
CONSTANTS Cpus, None,
          Capacity,   \* objects of a slab page, at least two
          Loads       \* what a machine may be used for: [mallocs, orders, most]
                      \* the CPUs whose code allocates (all of them free), the
                      \* block sizes that user memory asks of the buddy, and
                      \* a bound: the pages in use at a time
ASSUME SlabAssumption ==
  /\ Capacity \in Nat /\ Capacity >= 2 /\ None \notin Cpus
  /\ \A l \in Loads : l.mallocs \subseteq Cpus /\ l.orders \subseteq Nat /\ l.most \in Nat

VARIABLES
  load,          \* the load of this machine
  heap,          \* the buddy allocator's tree
  blocks,        \* the tree nodes of the user memory blocks
  page,          \* SLAB_IMPL_PAGE of every page, unowned where it is no slab
  thread_free,   \* its atomic word: state and list of remotely freed objects
  remote_next,   \* its link on a remote_ready list
  arena,         \* SLAB_IMPL_ARENA of every CPU: active, partial, all, warm
  remote_ready,  \* its atomic list of pages published by remote frees
  held,          \* the objects in use
  pc, obj, at, old, todo
                 \* per CPU: where its call is, the object it frees, the page
                 \* it works on, the word or link it read, the list it drains

owner_vars == <<page, arena>>
remote_vars == <<thread_free, remote_next, remote_ready>>
page_vars == <<heap, blocks>>
vars == <<load, page_vars, owner_vars, remote_vars, held, pc, obj, at, old, todo>>

Objects == Pages \X (1 .. Capacity)
PageOf(o) == o[1]
HeadOf(s) == IF s = <<>> THEN None ELSE Head(s)
Word(p) == <<thread_free[p].state, HeadOf(thread_free[p].list)>>

NoSlab == [owner |-> None, free |-> <<>>, local_free |-> <<>>, used |-> 0]
NoWord == [state |-> "AVAILABLE", list |-> <<>>]

Init ==
  /\ load \in Loads /\ heap = allocator_init /\ blocks = {}
  /\ page = [p \in Pages |-> NoSlab]
  /\ thread_free = [p \in Pages |-> NoWord]
  /\ remote_next = [p \in Pages |-> None]
  /\ arena = [c \in Cpus |-> [active |-> None, partial |-> <<>>, all |-> <<>>, warm |-> None]]
  /\ remote_ready = [c \in Cpus |-> None]
  /\ held = {}
  /\ pc = [c \in Cpus |-> "idle"]
  /\ obj = [c \in Cpus |-> None] /\ at = [c \in Cpus |-> None]
  /\ old = [c \in Cpus |-> None] /\ todo = [c \in Cpus |-> None]

\* The pages in use leave room for this many more.
InUse == {p \in Pages : page[p].owner # None} \cup UNION {PagesOf[s] : s \in blocks}
Room(pages) == Cardinality(InUse) + pages <= load.most

Goto(c, l) == pc' = [pc EXCEPT ![c] = l]
\* Go on with page p; the locals of a call that is over are forgotten.
GotoWith(c, l, p) ==
  /\ Goto(c, l)
  /\ at' = [at EXCEPT ![c] = IF l = "idle" THEN None ELSE p]
Without(s, p) == SelectSeq(s, LAMBDA q : q # p)
InList(s, p) == \E i \in DOMAIN s : s[i] = p

\* partial_add: a page is on the list once, and never while it is active.
partial_add(a, p) ==
  IF InList(a.partial, p) \/ a.active = p THEN a ELSE [a EXCEPT !.partial = <<p>> \o @]
\* The page an operation has just refilled becomes active, or partial.
Offer(a, p) == IF a.active = None THEN [a EXCEPT !.active = p] ELSE partial_add(a, p)

adopt_local(g) == [g EXCEPT !.free = g.local_free \o @, !.local_free = <<>>]
adopt_remote_uncounted(g, list) == [g EXCEPT !.free = list \o @]
adopt_remote(g, list) == [g EXCEPT !.free = list \o @, !.used = @ - Len(list)]

\* take: the first free object of the active page g, which c's call returns.
take(c, p, g) ==
  /\ held' = held \cup {Head(g.free)}
  /\ page' = [page EXCEPT ![p] = [g EXCEPT !.free = Tail(@), !.used = @ + 1]]
  /\ arena' = [arena EXCEPT ![c].warm = IF g.used = 0 /\ @ = p THEN None ELSE @]
  /\ Goto(c, "idle")
  /\ UNCHANGED <<page_vars, obj, at, old, todo>>

(***************************************************************************)
(* slab_malloc.                                                            *)
(***************************************************************************)
MallocFast(c) ==
  LET p == arena[c].active IN
  /\ pc[c] = "idle" /\ p # None
  /\ page[p].free # <<>>
  /\ take(c, p, page[p])
  /\ UNCHANGED remote_vars

MallocMisses(c) ==
  LET p == arena[c].active IN
  /\ pc[c] = "idle"
  /\ p # None => page[p].free = <<>>
  /\ Goto(c, "slow")
  /\ UNCHANGED <<page_vars, owner_vars, remote_vars, held, obj, at, old, todo>>

\* The loop of malloc_slow: the active page's own frees first, then a look at
\* its remote list.
SlowTake(c) ==
  LET p == arena[c].active IN
  /\ pc[c] = "slow" /\ p # None
  /\ adopt_local(page[p]).free # <<>>
  /\ take(c, p, adopt_local(page[p]))
  /\ UNCHANGED remote_vars

SlowLookLocal(c) ==
  /\ pc[c] = "slow"
  /\ IF arena[c].active = None THEN Goto(c, "drain")
     ELSE adopt_local(page[arena[c].active]).free = <<>> /\ Goto(c, "full")
  /\ UNCHANGED <<page_vars, owner_vars, remote_vars, held, obj, at, old, todo>>

SlowLook(c) ==
  LET p == arena[c].active IN
  /\ pc[c] = "slow"
  /\ IF p = None THEN Goto(c, "drain")
     ELSE /\ adopt_local(page[p]).free = <<>>
          /\ Goto(c, IF Word(p)[1] = "AVAILABLE" /\ Word(p)[2] # None
                     THEN "collect" ELSE "full")
  /\ UNCHANGED <<page_vars, owner_vars, remote_vars, held, obj, at, old, todo>>

\* collect_available detaches the remote list and keeps the page AVAILABLE.
SlowCollect(c) ==
  LET p == arena[c].active IN
  /\ pc[c] = "collect"
  /\ thread_free' = [thread_free EXCEPT ![p].list = <<>>]
  /\ take(c, p, adopt_remote(page[p], thread_free[p].list))
  /\ UNCHANGED <<remote_next, remote_ready>>

\* The swap to FULL fails when a remote free came between.
SlowFull(c) ==
  LET p == arena[c].active
      empty == Word(p) = <<"AVAILABLE", None>> IN
  /\ pc[c] = "full"
  /\ thread_free' = [thread_free EXCEPT ![p].state = IF empty THEN "FULL" ELSE @]
  /\ arena' = [arena EXCEPT ![c].active = IF empty THEN None ELSE @]
  /\ Goto(c, IF empty THEN "drain" ELSE "slow")
  /\ UNCHANGED <<page_vars, page, remote_next, remote_ready, held, obj, at, old, todo>>

\* drain_ready takes the whole list and walks it.
Drain(c) ==
  /\ pc[c] = "drain"
  /\ todo' = [todo EXCEPT ![c] = remote_ready[c]]
  /\ remote_ready' = [remote_ready EXCEPT ![c] = None]
  /\ Goto(c, "walk")
  /\ UNCHANGED <<page_vars, owner_vars, thread_free, remote_next, held, obj, at, old>>

\* collect_queued: the QUEUED page is AVAILABLE again, with the objects freed to
\* it; an empty one goes on to handle_empty.
CollectQueued(c) ==
  LET p == todo[c]
      g == adopt_local(adopt_remote(page[p], thread_free[p].list)) IN
  /\ pc[c] = "walk" /\ p # None
  /\ thread_free' = [thread_free EXCEPT ![p] = NoWord]
  /\ page' = [page EXCEPT ![p] = g]
  /\ remote_next' = [remote_next EXCEPT ![p] = None]
  /\ todo' = [todo EXCEPT ![c] = remote_next[p]]
  /\ IF g.used = 0
     THEN /\ at' = [at EXCEPT ![c] = p]
          /\ Goto(c, "walk_empty")
          /\ UNCHANGED arena
     ELSE /\ arena' = [arena EXCEPT ![c] = Offer(@, p)]
          /\ UNCHANGED <<pc, at>>
  /\ UNCHANGED <<page_vars, remote_ready, held, obj, old>>

\* A page from the buddy allocator, its objects free in address order.
new_page(c, p) == [owner |-> c, free |-> [i \in 1 .. Capacity |-> <<p, i>>],
                   local_free |-> <<>>, used |-> 0]

\* Refill from what was drained, from the partial list or with a new page.
Refill(c) ==
  LET a == arena[c]
      s == IF Room(1) THEN buddy_page_alloc(heap, 0) ELSE NoBlock
      p == FirstPage(s) IN
  /\ pc[c] = "walk" /\ todo[c] = None
  /\ \/ /\ a.active # None
        /\ UNCHANGED <<heap, page, arena>> /\ Goto(c, "slow")
     \/ /\ a.active = None /\ a.partial # <<>>
        /\ arena' = [arena EXCEPT ![c].active = Head(a.partial), ![c].partial = Tail(@)]
        /\ UNCHANGED <<heap, page>> /\ Goto(c, "slow")
     \/ /\ a.active = None /\ a.partial = <<>> /\ s = NoBlock
        /\ UNCHANGED <<heap, page, arena>> /\ Goto(c, "idle")
     \/ /\ a.active = None /\ a.partial = <<>> /\ s # NoBlock
        /\ heap' = AllocatedTree(heap, s)
        /\ page' = [page EXCEPT ![p] = new_page(c, p)]
        /\ arena' = [arena EXCEPT ![c].active = p, ![c].all = <<p>> \o @]
        /\ Goto(c, "slow")
  /\ UNCHANGED <<blocks, remote_vars, held, obj, at, old, todo>>

(***************************************************************************)
(* handle_empty of page at[c], whose used count is 0, on behalf of         *)
(* collect_queued and free_local: the first empty page stays, warm, and    *)
(* another one is retired.  A page that is not idle stays where it is;     *)
(* collect_queued then offers it.                                          *)
(***************************************************************************)
AfterEmpty == [walk_empty |-> "walk", free_empty |-> "idle"]

HandleEmpty(c) ==
  LET p == at[c]
      a == arena[c]
      idle == Word(p) = <<"AVAILABLE", None>>
      retires == idle /\ a.warm \notin {None, p}
      warm == IF idle
              THEN [a EXCEPT !.warm = p,
                             !.partial = IF a.active = None THEN Without(@, p) ELSE @]
              ELSE a IN
  /\ pc[c] \in DOMAIN AfterEmpty
  /\ arena' = [arena EXCEPT ![c] =
                 IF retires \/ (~idle /\ pc[c] = "free_empty") THEN @ ELSE Offer(warm, p)]
  /\ old' = [old EXCEPT ![c] = IF retires THEN AfterEmpty[pc[c]] ELSE @]
  /\ at' = [at EXCEPT ![c] = IF retires THEN p ELSE None]
  /\ Goto(c, IF retires THEN "retire" ELSE AfterEmpty[pc[c]])
  /\ UNCHANGED <<page_vars, page, remote_vars, held, obj, todo>>

\* retire: off every list, and back to the buddy allocator.
Retire(c) ==
  LET p == at[c]
      a == arena[c] IN
  /\ pc[c] = "retire"
  /\ IF Word(p) = <<"AVAILABLE", None>>
     THEN /\ arena' = [arena EXCEPT ![c] =
               [active |-> IF a.active = p THEN None ELSE a.active,
                partial |-> Without(a.partial, p), all |-> Without(a.all, p),
                warm |-> IF a.warm = p THEN None ELSE a.warm]]
          /\ page' = [page EXCEPT ![p] = NoSlab]
          /\ heap' = FreedTree(heap, p)
     ELSE UNCHANGED <<arena, page, heap>>
  /\ GotoWith(c, old[c], None)
  /\ old' = [old EXCEPT ![c] = None]
  /\ UNCHANGED <<blocks, remote_vars, held, obj, todo>>

(***************************************************************************)
(* slab_free.                                                              *)
(***************************************************************************)
\* free_local of an object of c's own arena: what it does with the page depends
\* on the state of the word it loads.
FreeLocal(c, o) ==
  LET p == PageOf(o)
      state == thread_free[p].state
      g == [page[p] EXCEPT !.local_free = <<o>> \o @, !.used = @ - 1] IN
  /\ pc[c] = "idle" /\ o \in held
  /\ page[p].owner = c
  /\ held' = held \ {o}
  /\ page' = [page EXCEPT ![p] = g]
  /\ arena' = [arena EXCEPT ![c] = IF state = "AVAILABLE" THEN partial_add(@, p) ELSE @]
  /\ GotoWith(c, CASE state = "FULL" -> "unfull"
                   [] state = "AVAILABLE" /\ g.used = 0 -> "free_empty"
                   [] OTHER -> "idle", p)
  /\ UNCHANGED <<page_vars, remote_vars, obj, old, todo>>

\* The swap from FULL back to AVAILABLE fails when a remote free queued the page:
\* then drain_ready will offer it.
Unfull(c) ==
  LET p == at[c]
      full == Word(p) = <<"FULL", None>> IN
  /\ pc[c] = "unfull"
  /\ thread_free' = [thread_free EXCEPT ![p].state = IF full THEN "AVAILABLE" ELSE @]
  /\ arena' = [arena EXCEPT ![c] = IF full THEN Offer(@, p) ELSE @]
  /\ GotoWith(c, IF full /\ page[p].used = 0 THEN "free_empty" ELSE "idle", p)
  /\ UNCHANGED <<page_vars, page, remote_next, remote_ready, held, obj, old, todo>>

\* free_remote: load the word, link the object before its head, swap.
FreeRemote(c, o) ==
  /\ pc[c] = "idle" /\ o \in held
  /\ page[PageOf(o)].owner # c
  /\ held' = held \ {o}
  /\ obj' = [obj EXCEPT ![c] = o]
  /\ old' = [old EXCEPT ![c] = Word(PageOf(o))]
  /\ Goto(c, "swap")
  /\ UNCHANGED <<page_vars, owner_vars, remote_vars, at, todo>>

SwapUnpublished(c) ==
  LET p == PageOf(obj[c])
      full == old[c][1] = "FULL" IN
  /\ pc[c] = "swap" /\ Word(p) = old[c]
  /\ thread_free' = [thread_free EXCEPT ![p] =
       [state |-> IF full THEN "QUEUED" ELSE @.state, list |-> <<obj[c]>> \o @.list]]
  /\ obj' = [obj EXCEPT ![c] = None] /\ old' = [old EXCEPT ![c] = None]
  /\ GotoWith(c, "idle", p)
  /\ UNCHANGED <<page_vars, owner_vars, remote_next, remote_ready, held, todo>>

\* The free that turns FULL into QUEUED goes on to publish the page.
Swap(c) ==
  LET p == PageOf(obj[c])
      same == Word(p) = old[c]
      full == old[c][1] = "FULL" IN
  /\ pc[c] = "swap"
  /\ IF same
     THEN /\ thread_free' = [thread_free EXCEPT ![p] =
               [state |-> IF full THEN "QUEUED" ELSE @.state, list |-> <<obj[c]>> \o @.list]]
          /\ obj' = [obj EXCEPT ![c] = None]
          /\ old' = [old EXCEPT ![c] = None]
          /\ GotoWith(c, IF full THEN "push" ELSE "idle", p)
     ELSE /\ old' = [old EXCEPT ![c] = Word(p)]
          /\ UNCHANGED <<thread_free, obj, at, pc>>
  /\ UNCHANGED <<page_vars, owner_vars, remote_next, remote_ready, held, todo>>

\* remote_ready_push: link, then swap; a failed swap reloads the head and links again.
PushLink(c) ==
  LET p == at[c]
      head == remote_ready[page[p].owner] IN
  /\ pc[c] \in {"push", "publish"}
  /\ pc[c] = "publish" => head # old[c]
  /\ remote_next' = [remote_next EXCEPT ![p] = head]
  /\ old' = [old EXCEPT ![c] = head]
  /\ Goto(c, "publish")
  /\ UNCHANGED <<page_vars, owner_vars, thread_free, remote_ready, held, obj, at, todo>>

PushSwap(c) ==
  LET p == at[c] IN
  /\ pc[c] = "publish" /\ remote_ready[page[p].owner] = old[c]
  /\ remote_ready' = [remote_ready EXCEPT ![page[p].owner] = p]
  /\ old' = [old EXCEPT ![c] = None]
  /\ GotoWith(c, "idle", None)
  /\ UNCHANGED <<page_vars, owner_vars, thread_free, remote_next, held, obj, todo>>

(***************************************************************************)
(* The blocks of user memory (umem.c), under the same allocator lock.      *)
(***************************************************************************)
BlockAlloc(order) ==
  LET s == buddy_page_alloc(heap, order) IN
  /\ Room(2 ^ order) /\ s # NoBlock
  /\ heap' = AllocatedTree(heap, s)
  /\ blocks' = blocks \cup {s}
  /\ UNCHANGED <<owner_vars, remote_vars, held, pc, obj, at, old, todo>>

BlockFree(s) ==
  /\ heap' = FreedTree(heap, FirstPage(s))
  /\ blocks' = blocks \ {s}
  /\ UNCHANGED <<owner_vars, remote_vars, held, pc, obj, at, old, todo>>

\* The rest of a call that has begun.
Continue(c) ==
  /\ \/ SlowTake(c) \/ SlowLook(c) \/ SlowCollect(c) \/ SlowFull(c)
     \/ Drain(c) \/ CollectQueued(c) \/ Refill(c)
     \/ HandleEmpty(c) \/ Retire(c) \/ Unfull(c)
     \/ Swap(c) \/ PushLink(c) \/ PushSwap(c)
  /\ UNCHANGED load

\* A new call of the slabs or of user memory.
Call ==
  /\ \/ \E c \in load.mallocs : MallocFast(c) \/ MallocMisses(c)
     \/ \E c \in Cpus, o \in held : FreeLocal(c, o) \/ FreeRemote(c, o)
     \/ \E order \in load.orders : BlockAlloc(order)
     \/ \E s \in blocks : BlockFree(s)
  /\ UNCHANGED load

Next == Call \/ \E c \in Cpus : Continue(c)

Spec == Init /\ [][Next]_vars

\* Kernel code between two atomic operations does not stop: it is not preempted.
FairSpec == Spec /\ \A c \in Cpus : WF_vars(Continue(c))

(***************************************************************************)
(* Correctness.                                                            *)
(***************************************************************************)
Slabs == {p \in Pages : page[p].owner # None}
MallocAt == {"slow", "collect", "full", "drain", "walk", "walk_empty"}

TypeOK ==
  /\ heap \in [Nodes -> 0 .. 255] /\ blocks \subseteq Nodes
  /\ page \in [Pages -> [owner : Cpus \cup {None}, free : Seq(Objects),
                         local_free : Seq(Objects), used : 0 .. Capacity]]
  /\ thread_free \in [Pages -> [state : {"AVAILABLE", "FULL", "QUEUED"}, list : Seq(Objects)]]
  /\ remote_next \in [Pages -> Pages \cup {None}]
  /\ arena \in [Cpus -> [active : Pages \cup {None}, partial : Seq(Pages),
                         all : Seq(Pages), warm : Pages \cup {None}]]
  /\ remote_ready \in [Cpus -> Pages \cup {None}]
  /\ held \subseteq Objects

\* Where an object is: how often on the lists of its page, in use, or in the
\* hands of a free that has not linked it yet.
Times(s, o) == Cardinality({i \in DOMAIN s : s[i] = o})
InFree(o) == Times(page[PageOf(o)].free \o page[PageOf(o)].local_free, o)
Out(o) == Times(thread_free[PageOf(o)].list, o) + (IF o \in held THEN 1 ELSE 0)
          + Cardinality({c \in Cpus : obj[c] = o})

\* "remote frees return to the slab's owner rather than becoming stranded": each
\* object of a slab is in exactly one place whatever the frees race with, no page
\* without an owner has an object, and the owner's used counts, remote frees it
\* has not collected included.  Stated with the type invariant.
ObjectsAccounted ==
  /\ TypeOK
  /\ \A o \in Objects : InFree(o) + Out(o) = (IF PageOf(o) \in Slabs THEN 1 ELSE 0)
  /\ \A p \in Slabs :
       page[p].used = Cardinality({i \in 1 .. Capacity : Out(<<p, i>>) = 1})

\* The pages linked from page p on.
Chain(p) ==
  LET r[k \in 0 .. n_pages] ==
        IF k = 0 THEN {p} \ {None}
        ELSE LET before == r[k - 1] IN before \cup ({remote_next[q] : q \in before} \ {None})
  IN  r[n_pages]
Pushers(p) == {c \in Cpus : pc[c] \in {"push", "publish"} /\ at[c] = p}

\* arena_valid, between any two steps and not only when all is quiet: a page with
\* room is on the allocation lists of its owner, a FULL one has every object out
\* and is on none, a QUEUED one is on none and will be drained: it is on the
\* ready list, in the batch being drained, or in the hands of the one free that
\* queued it.  A page about to be retired has nothing out.
PageFindable ==
  \A p \in Slabs :
    LET c == page[p].owner
        a == arena[c]
        listed == a.active = p \/ InList(a.partial, p)
        ready == p \in Chain(remote_ready[c])
        batch == p \in Chain(todo[c])
        word == thread_free[p] IN
    /\ ~(a.active = p /\ InList(a.partial, p)) /\ (a.warm = p => page[p].used = 0)
    /\ CASE word.state = "AVAILABLE" ->
              /\ listed \/ (at[c] = p /\ pc[c] \in {"walk_empty", "retire"})
              /\ ~ready /\ ~batch /\ Pushers(p) = {}
         [] word.state = "FULL" ->
              /\ ~listed /\ ~ready /\ ~batch /\ Pushers(p) = {} /\ word.list = <<>>
              /\ page[p].used = Capacity \/ (at[c] = p /\ pc[c] = "unfull")
         [] word.state = "QUEUED" ->
              /\ ~listed /\ word.list # <<>>
              /\ Cardinality(Pushers(p)) + (IF ready THEN 1 ELSE 0) + (IF batch THEN 1 ELSE 0) = 1
    /\ at[c] = p /\ pc[c] = "retire" => Word(p) = <<"AVAILABLE", None>> /\ page[p].used = 0

\* struct buddy_allocator_s: "the smallest level of any of the children of this
\* block which are empty".  After any allocations, frees, splits and merges over
\* several levels the tree says at each node exactly what is free, so an
\* allocation fails only when no aligned block of the size is free; and what it
\* holds as allocated is what the slabs and user memory have, each page once.
TreeExact ==
  LET given == blocks \cup {Bottom + p : p \in Slabs} IN
  /\ Exact(heap) /\ Allocated(heap) = given
  /\ \A s, t \in given : s # t => PagesOf[s] \cap PagesOf[t] = {}

\* buddy_mark_unusable: "Mark page_ids in [min_page_id, max_page_id] (inclusive)
\* as unusable."  No page of the firmware's or of the allocator's own storage is
\* ever handed out.
ReservedUnusable == \A s \in Allocated(heap) : PagesOf[s] \cap Reserved = {}

Allocators == UNION {l.mallocs : l \in Loads}

\* malloc_slow ends, with an object or without memory, whatever the remote frees
\* that make its swaps fail.
MallocReturns == \A c \in Allocators : pc[c] \in MallocAt ~> pc[c] = "idle"
=============================================================================
