------------------------------- MODULE Buddy -------------------------------
(***************************************************************************)
(* The page allocator of the kernel (vendor/buddy_allocator and            *)
(* allocator.c): a binary tree kept in an array.  A node holds the level   *)
(* of the largest free block below it; the root has level 0, a single page *)
(* level max_level.  Every operation runs under g_allocator_lock, so each  *)
(* one is an operator from the array before to the array after.            *)
(***************************************************************************)
EXTENDS Naturals, Sequences, FiniteSetsExt
CONSTANTS
  mmap,      \* the firmware's memory map: a sequence of [conv, start, pages]
  PAGE_SIZE  \* bytes of a page

BUDDY_LEVEL_FILLED == 255
BUDDY_LEVEL_ALLOCATED == 254
BUDDY_LEVEL_UNUSABLE == 253

uint64_log2(v) == CHOOSE l \in 0 .. v : 2 ^ l <= v /\ v < 2 ^ (l + 1)
uint64_ceil_log2(v) == CHOOSE l \in 0 .. v : v <= 2 ^ l /\ (l = 0 \/ 2 ^ (l - 1) < v)

\* allocator_init sizes the tree by the first page of the highest free region.
Conventional == {i \in DOMAIN mmap : mmap[i].conv}
n_pages == Max({mmap[i].start : i \in Conventional}) + 1
max_level == uint64_ceil_log2(n_pages)

heap_size(l) == 2 ^ (l + 1) - 1
Nodes == 0 .. heap_size(max_level) - 1
heap_level == [i \in Nodes |-> uint64_log2(i + 1)]
heap_parent(i) == (i - 1) \div 2
heap_left(i) == 2 * i + 1
heap_right(i) == 2 * i + 2
heap_sibling(i) == IF i % 2 = 1 THEN i + 1 ELSE i - 1

Bottom == 2 ^ max_level - 1     \* the node of page 0
Pages == 0 .. n_pages - 1
FirstPage(i) == (i + 1 - 2 ^ heap_level[i]) * 2 ^ (max_level - heap_level[i])
PagesOf ==
  [i \in Nodes |-> FirstPage(i) .. FirstPage(i) + 2 ^ (max_level - heap_level[i]) - 1]
Above ==
  [b \in Nodes |-> {i \in Nodes : heap_level[i] < heap_level[b] /\ PagesOf[b] \subseteq PagesOf[i]}]

parent_free_level(a, b) ==
  LET m == Min({a, b}) IN IF m > max_level THEN BUDDY_LEVEL_FILLED ELSE m

\* Recompute every node above b from its two children.
propagate(h, b) ==
  LET v[i \in Nodes] == IF i \in Above[b]
                        THEN parent_free_level(v[heap_left(i)], v[heap_right(i)])
                        ELSE h[i]
  IN  v

\* Mutant: one merge, not as many as there can be.
coalesce_once(h, b) ==
  IF b # 0 /\ h[heap_sibling(b)] = heap_level[b] THEN heap_parent(b) ELSE b

\* The block that the free block b grows to: while the sibling is free, the parent.
coalesce(h, b) ==
  LET top[i \in Nodes] == IF i # 0 /\ h[heap_sibling(i)] = heap_level[i]
                          THEN top[heap_parent(i)] ELSE i
  IN  top[b]

\* The free block that an allocation of this level splits: of two subtrees that
\* both have room, the one whose largest free block is smaller.
Descend(h, level) ==
  LET to[i \in Nodes] ==
        LET l == h[heap_left(i)]
            r == h[heap_right(i)] IN
        CASE h[i] = heap_level[i] -> i
          [] h[i] # heap_level[i] /\ l < r ->
               IF level >= r THEN to[heap_right(i)] ELSE to[heap_left(i)]
          [] OTHER -> IF level >= l THEN to[heap_left(i)] ELSE to[heap_right(i)]
  IN  to[0]

\* Its leftmost part of that level is the block taken; splitting frees the rest.
acquire_empty_slot(h, level) ==
  LET b == Descend(h, level) IN (b + 1) * 2 ^ (level - heap_level[b]) - 1
Split(h, b, s) ==
  LET path == {i \in Above[s] : i = b \/ b \in Above[i]} IN
  [i \in Nodes |-> IF i # 0 /\ heap_parent(i) \in path THEN heap_level[i] ELSE h[i]]

\* The allocated block that holds page p, or an index past the tree: the search
\* ends at a free or an unusable block.
NoBlock == heap_size(max_level)
get_block_index_from_page_index(h, p) ==
  LET at[i \in Nodes] ==
        CASE h[i] = BUDDY_LEVEL_ALLOCATED -> i
          [] h[i] \in {heap_level[i], BUDDY_LEVEL_UNUSABLE} -> NoBlock
          [] OTHER -> at[IF p >= FirstPage(heap_right(i)) THEN heap_right(i)
                         ELSE heap_left(i)]
  IN  at[0]

(***************************************************************************)
(* Boot: buddy_init, buddy_mark_unusable for the allocator's own storage   *)
(* and for every region that is not conventional memory, buddy_ready.      *)
(***************************************************************************)
\* The nodes above the bottom level are whatever the memory held; buddy_ready
\* overwrites each of them.
buddy_init ==
  [i \in Nodes |-> IF i - Bottom \in Pages THEN max_level ELSE BUDDY_LEVEL_UNUSABLE]

buddy_mark_unusable(h, min, max) ==
  LET marked == {p + 2 ^ (max_level - 1) : p \in min .. max} IN
  [i \in Nodes |-> IF i \in marked THEN BUDDY_LEVEL_UNUSABLE ELSE h[i]]

buddy_ready(h) ==
  LET v[i \in Nodes] ==
        IF i >= Bottom THEN h[i]
        ELSE LET l == v[heap_left(i)]
                 r == v[heap_right(i)] IN
             IF l = heap_level[i] + 1 /\ r = l THEN heap_level[i] ELSE Min({l, r})
  IN  v

pages_for_allocator == (16 + heap_size(max_level)) \div PAGE_SIZE
allocator_start ==
  mmap[Min({i \in Conventional : mmap[i].pages > pages_for_allocator})].start

allocator_init ==
  LET own == buddy_mark_unusable(buddy_init, allocator_start,
                                 allocator_start + pages_for_allocator)
      mark[i \in 0 .. Len(mmap)] ==
        IF i = 0 THEN own
        ELSE IF mmap[i].conv THEN mark[i - 1]
        ELSE buddy_mark_unusable(mark[i - 1], mmap[i].start,
                                 mmap[i].start + mmap[i].pages)
  IN  buddy_ready(mark[Len(mmap)])

\* allocator_init halts the machine without a region for the allocator; a tree of
\* one page and marks past the end of the tree are outside the model.
ASSUME BuddyAssumption ==
  /\ Conventional # {} /\ max_level > 0 /\ PAGE_SIZE \in Nat \ {0}
  /\ \E i \in Conventional : mmap[i].pages > pages_for_allocator
  /\ \A i \in DOMAIN mmap \ Conventional :
       mmap[i].start + mmap[i].pages + 2 ^ (max_level - 1) \in Nodes

(***************************************************************************)
(* The operations.                                                         *)
(***************************************************************************)
\* buddy_page_alloc of 2^order pages: the node taken, or NoBlock for INVAL and
\* NOMEM, and the tree after.
buddy_page_alloc(h, order) ==
  IF order > max_level THEN NoBlock
  ELSE IF max_level - order < h[0] THEN NoBlock
  ELSE acquire_empty_slot(h, max_level - order)
AllocatedTree(h, s) ==
  propagate([Split(h, Descend(h, heap_level[s]), s) EXCEPT ![s] = BUDDY_LEVEL_ALLOCATED], s)

\* buddy_page_free of the block that holds page p: NoBlock is NO_SUCH_ALLOCATION.
FreedTree(h, p) ==
  LET b == get_block_index_from_page_index(h, p)
      free == [h EXCEPT ![b] = heap_level[b]]
      top == coalesce(free, b)
      whole == {i \in Above[b] : i = top \/ top \in Above[i]} IN
  IF b = NoBlock THEN h
  ELSE propagate([i \in Nodes |-> IF i \in whole THEN heap_level[i] ELSE free[i]], top)

(***************************************************************************)
(* What the tree means.                                                    *)
(***************************************************************************)
\* The allocated blocks: the allocated nodes that the search can reach.
Allocated(h) ==
  {i \in Nodes : /\ h[i] = BUDDY_LEVEL_ALLOCATED
                 /\ \A j \in Above[i] : h[j] \notin {heap_level[j], BUDDY_LEVEL_ALLOCATED}}

\* What the memory map and the allocator's own storage reserve.
Storage == allocator_start .. allocator_start + pages_for_allocator
Reserved ==
  Storage \cup UNION {mmap[i].start .. mmap[i].start + mmap[i].pages - 1 :
                     i \in DOMAIN mmap \ Conventional}

\* What the boot keeps back: the ranges it passes, of a region one page more than
\* the region has, but of each page the mark falls so many places to the left.
Marked ==
  Storage \cup UNION {mmap[i].start .. mmap[i].start + mmap[i].pages :
                     i \in DOMAIN mmap \ Conventional}
Displacement == Bottom - 2 ^ (max_level - 1)
UsablePages == {p \in Pages : p + Displacement \notin Marked}

\* The pages in no allocated block, among those that the boot left usable.
FreePages(h) == UsablePages \ UNION {PagesOf[i] : i \in Allocated(h)}

\* The reference: every node outside the allocated blocks and the wholly free
\* blocks says exactly which is the largest aligned block free below it.
Exact(h) ==
  LET pages == FreePages(h)
      free == {j \in Nodes : PagesOf[j] \subseteq pages} IN
  \A i \in Nodes :
    LET F == {j \in free : PagesOf[j] \subseteq PagesOf[i]} IN
    (\A j \in Above[i] : h[j] \notin {heap_level[j], BUDDY_LEVEL_ALLOCATED}) =>
      IF F = {} THEN h[i] > max_level ELSE h[i] = Min({heap_level[j] : j \in F})
=============================================================================
