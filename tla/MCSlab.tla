------------------------------ MODULE MCSlab ------------------------------
(* The instance of Slab for TLC: eight pages.  The boot keeps back the third *)
(* and the fourth, which leaves a free block of two pages and one of four.   *)
EXTENDS Slab
CONSTANTS c1, c2, c3

Conv(s, n) == [conv |-> TRUE, start |-> s, pages |-> n]
Other(s, n) == [conv |-> FALSE, start |-> s, pages |-> n]

\* The allocator's storage is page 0, the firmware's region page 5.
EightPages == <<Conv(0, 5), Other(5, 1), Conv(6, 1), Conv(7, 1)>>

\* User memory alone, until the tree is empty; and slabs next to it.
UserMemory == [mallocs |-> {}, orders |-> 0 .. 3, most |-> 8]
SlabsToo == [mallocs |-> {c1}, orders |-> {0, 1}, most |-> 2]
BothLoads == {UserMemory, SlabsToo}
UserLoad == {UserMemory}
===========================================================================
