---------------------------- MODULE AddressSpace ----------------------------
(***************************************************************************)
(* What kernel/src/paging.h promises of an address space: access flags for *)
(* every page.  A call asks for flags on a range and, when it is through,  *)
(* exactly that range has exactly those flags; the whole map is copied     *)
(* from the kernel's when a process is made and given back at its end.     *)
(* Page-table levels, splits and merges do not show.                       *)
(***************************************************************************)
EXTENDS Integers

CONSTANTS
  Page, Flag,
  Caller,       \* the CPUs that may ask
  None
VARIABLES
  map,          \* the flags of every page
  asked,        \* by caller: the range and the flags of its call, or None
  boot          \* the kernel's map, which a new process starts from

Everywhere(f) == [g \in Page |-> f]
Idle == [c \in Caller |-> None]

Init == map \in [Page -> Flag] /\ asked = Idle

Ask(c) ==
  /\ asked[c] = None /\ map' = map
  /\ asked' = [asked EXCEPT ![c] = asked'[c]]

Reflag(c) ==
  /\ asked[c] # None
  /\ map' = [g \in Page |-> IF asked[c].lo <= g /\ g < asked[c].hi THEN asked[c].f ELSE map[g]]
  /\ asked' = [asked EXCEPT ![c] = None]

Clone == map = Everywhere("none") /\ asked = Idle /\ map' = boot /\ asked' = asked

Drop == asked = Idle /\ map' = Everywhere("none") /\ asked' = asked

Next == (\E c \in Caller : Ask(c) \/ Reflag(c)) \/ Clone \/ Drop
=============================================================================
