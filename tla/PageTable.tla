----------------------------- MODULE PageTable -----------------------------
(***************************************************************************)
(* The page tables of kernel/archsrc/x86_64/paging.c as pure operators on  *)
(* trees: installing a leaf of any size, splitting a huge leaf that is in  *)
(* the way, merging what has become uniform, cloning, and the walk.  All   *)
(* mappings are identity mappings, so a leaf is its flags and its place.   *)
(* Fan is 512 and Top is 4 in the code; both are parameters here.          *)
(***************************************************************************)
EXTENDS Integers, SequencesExt, FiniteSets

CONSTANTS
  Fan,          \* entries of a table
  Top           \* level of the root; leaves live on the levels below it

ASSUME TreeAssumption == Fan \in Nat \ {0, 1} /\ Top \in Nat \ {0, 1}

Slots == 0..Fan - 1
Size(l) == Fan ^ (l - 1)        \* LEVEL_SIZE in pages
PageCount == Fan ^ Top
Pages == 0..PageCount - 1
level_idx(a, l) == (a \div Size(l)) % Fan
Floor(a, l) == (a \div Size(l)) * Size(l)

Absent == [kind |-> "absent"]
Leaf(f) == [kind |-> "leaf", flags |-> f]
Table(e) == [kind |-> "table", entry |-> e]

\* A leaf with no access bits is no leaf at all (leaf_flags_to_pte).
LeafOf(f) == IF f = "none" THEN Absent ELSE Leaf(f)

\* A range [lo, hi) of pages, and the smallest range that covers two.
Empty == [lo |-> PageCount, hi |-> 0]
Span(a, l) == [lo |-> Floor(a, l), hi |-> Floor(a, l) + Size(l)]
Join(r, s) ==
  [lo |-> IF r.lo < s.lo THEN r.lo ELSE s.lo, hi |-> IF r.hi > s.hi THEN r.hi ELSE s.hi]
Covers(r, a) == r.lo <= a /\ a < r.hi

RECURSIVE walk(_, _, _)
walk(entry, l, a) ==
  LET e == entry[level_idx(a, l)] IN
  CASE e.kind = "absent" -> "none"
    [] e.kind = "leaf" -> e.flags
    [] OTHER -> walk(e.entry, l - 1, a)

Flags(root, a) == walk(root, Top, a)

\* The flags of all pages, page 0 first.
RECURSIVE Flat(_, _)
Flat(e, l) ==
  CASE e.kind = "absent" -> [i \in 1..Size(l) |-> "none"]
    [] e.kind = "leaf" -> [i \in 1..Size(l) |-> e.flags]
    [] OTHER -> FlattenSeq([i \in 1..Fan |-> Flat(e.entry[i - 1], l - 1)])

Flattened(root) == Flat(Table(root), Top + 1)

\* The pieces of a huge leaf have its flags.
split_huge(e) == [i \in Slots |-> e]

\* Write leaf at level, a table at a time from the root; what the slot held
\* before, a finer sub-tree included, is dropped.
RECURSIVE install_leaf(_, _, _, _, _)
install_leaf(entry, l, a, level, leaf) ==
  LET i == level_idx(a, l)
      e == entry[i]
      into(sub) == [entry EXCEPT ![i] = Table(install_leaf(sub, l - 1, a, level, leaf))]
  IN CASE l = level -> [entry EXCEPT ![i] = leaf]
       [] l > level /\ e.kind = "table" -> into(e.entry)
       [] l > level /\ e.kind = "leaf" -> into(split_huge(e))
       [] l > level /\ e.kind = "absent" /\ leaf # Absent -> into([j \in Slots |-> Absent])
       [] OTHER -> entry

\* What a split makes dirty: the span of the huge leaf in the way.
RECURSIVE SplitSpan(_, _, _, _)
SplitSpan(entry, l, a, level) ==
  LET e == entry[level_idx(a, l)] IN
  CASE l = level \/ e.kind = "absent" -> Empty
    [] l > level /\ e.kind = "leaf" -> Span(a, l)
    [] OTHER -> SplitSpan(e.entry, l - 1, a, level)

AllAbsent(entry) == \A i \in Slots : entry[i] = Absent
AllLeaf(entry) == entry[0].kind = "leaf" /\ \A i \in Slots : entry[i] = entry[0]

\* try_merge_path, from the leaf's table up: an entry of a table at level l.
RECURSIVE Merged(_, _, _)
Merged(e, l, a) ==
  IF e.kind # "table" THEN e
  ELSE LET i == level_idx(a, l - 1)
           sub == [e.entry EXCEPT ![i] = Merged(@, l - 1, a)]
       IN CASE AllAbsent(sub) -> Absent
            [] AllLeaf(sub) /\ l < Top -> sub[0]
            [] OTHER -> Table(sub)

RECURSIVE MergeSpan(_, _, _)
MergeSpan(e, l, a) ==
  IF e.kind # "table" THEN Empty
  ELSE IF Merged(e, l, a).kind # "table" THEN Span(a, l)
  ELSE MergeSpan(e.entry[level_idx(a, l - 1)], l - 1, a)

try_merge_path(root, a) ==
  LET i == level_idx(a, Top) IN [root EXCEPT ![i] = Merged(@, Top, a)]

PathSpan(root, a) == MergeSpan(root[level_idx(a, Top)], Top, a)

\* Mutant: the largest leaf whose alignment fits, past the end of the range.
LargestUnfit(a, end) ==
  CHOOSE l \in 1..Top - 1 :
    /\ a % Size(l) = 0 /\ end > a
    /\ \A m \in l + 1..Top - 1 : a % Size(m) # 0

\* The largest leaf that fits at a.
Largest(a, end) ==
  CHOOSE l \in 1..Top - 1 :
    /\ a % Size(l) = 0 /\ end - a >= Size(l)
    /\ \A m \in l + 1..Top - 1 : ~(a % Size(m) = 0 /\ end - a >= Size(m))

RECURSIVE FlagLoop(_, _, _, _, _)
FlagLoop(root, dirty, a, end, leaf) ==
  IF a >= end THEN [root |-> root, dirty |-> dirty]
  ELSE LET l == Largest(a, end) IN
       FlagLoop(install_leaf(root, Top, a, l, leaf), Join(dirty, SplitSpan(root, Top, a, l)),
                a + Size(l), end, leaf)

\* as_flag over [lo, hi): the loop, the range itself, and the two boundary
\* merges.  Returns the new tree and dirty range.
as_flag(root, dirty, lo, hi, f) ==
  LET done == FlagLoop(root, Join(dirty, [lo |-> lo, hi |-> hi]), lo, hi, LeafOf(f))
      first == try_merge_path(done.root, lo)
  IN [root  |-> try_merge_path(first, hi - 1),
      dirty |-> Join(Join(done.dirty, PathSpan(done.root, lo)), PathSpan(first, hi - 1))]

\* as_identity_mapping: the first root slot as a table of the largest leaves.
as_identity_mapping(f) ==
  [i \in Slots |-> IF i = 0 THEN Table([j \in Slots |-> Leaf(f)]) ELSE Absent]

\* No table that one entry could stand for.
RECURSIVE Uniform(_, _)
Uniform(e, l) ==
  e.kind = "table" =>
    /\ ~AllAbsent(e.entry)
    /\ l < Top => ~AllLeaf(e.entry)
    /\ \A i \in Slots : Uniform(e.entry[i], l - 1)

Compact(root) == \A i \in Slots : Uniform(root[i], Top)
=============================================================================
