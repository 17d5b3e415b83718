------------------------------ MODULE MCDriver ------------------------------
(* Two other clients beside pcid's channel, in a table of two; machines of up  *)
(* to three buses.                                                             *)
EXTENDS Nvmed, TLC
CONSTANTS c1, c2

Fn(class, multi, sec, sub, first, next) ==
    [class |-> class, multi |-> multi, sec |-> sec, sub |-> sub, first |-> first,
     cap |-> [p \in CapSlots |-> [id |-> IF p = 16 THEN "msi" ELSE "msix", next |-> next[p]]]]
Plain(class) == Fn(class, FALSE, 0, 0, 0, [p \in CapSlots |-> 0])
Chains == [CapSlots -> {0, 3, 16, 17}]

\* Bridges with every pair of bus numbers, on buses 0 and 1.
Bridged ==
    {[fns |-> (<<0, 0, 0>> :> Fn("bridge", m, s, t, 0, [p \in CapSlots |-> 0])) @@ (<<0, 0, 1>> :> Plain("other"))
              @@ (<<1, 0, 0>> :> Fn("bridge", FALSE, u, 2, 0, [p \in CapSlots |-> 0]))
              @@ (<<1, 1, 1>> :> Plain("other")) @@ (<<2, 0, 0>> :> Plain("other")),
      mcfg |-> <<[start_bus |-> 0, end_bus |-> 2]>>] : m \in BOOLEAN, s, t, u \in Bus}
\* A bridge and a function behind it with every capability chain.
Chained ==
    {[fns |-> (<<0, 0, 0>> :> Fn("bridge", FALSE, 1, 1, f, n)) @@ (<<1, 0, 0>> :> Fn("other", FALSE, 0, 0, g, n)),
      mcfg |-> <<[start_bus |-> 0, end_bus |-> e]>>] : f, g \in {0, 3, 16, 17}, n \in Chains, e \in {0, 1}}
Reversed == {[fns |-> (<<0, 0, 0>> :> Plain("nvme")), mcfg |-> <<[start_bus |-> 1, end_bus |-> 0]>>]}
Usual == {[fns |-> (<<0, 0, 0>> :> Fn("bridge", FALSE, 1, 1, 0, [p \in CapSlots |-> 0]))
                   @@ (<<1, 0, 0>> :> Fn("nvme", FALSE, 0, 0, cap, [p \in CapSlots |-> 0])),
           mcfg |-> <<[start_bus |-> 0, end_bus |-> 2]>>] : cap \in {0, 17}}
Machines == Usual \cup Bridged \cup Chained \cup Reversed

Contents == [b \in 0 .. 1 |-> 8 + b]
Asked(op, lba, blocks, data, valid) == [op |-> op, lba |-> lba, blocks |-> blocks, data |-> data, valid |-> valid]
Requests == (c1 :> {Asked("READ", 1, 1, Nil, TRUE), Asked("WRITE", 0, 1, 7, TRUE)})
            @@ (c2 :> {Asked("WRITE", 1, 2, 7, TRUE), Asked("INFO", 0, 0, Nil, FALSE)})
=============================================================================
