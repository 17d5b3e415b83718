------------------------------- MODULE MCIrq -------------------------------
(* Two ring clients over one level pin and one MSI slot.                     *)
EXTENDS Irq

RootTypes == {<<"irq">>, <<"devmem", "iommu">>}
Raises == [r \in Route |-> IF r = 1 THEN 2 ELSE 1]
Requests ==
    [devmem |-> {[present |-> {"p0", "p1", "p2"}, p0 |-> b, p1 |-> 2, p2 |-> {"w"}] : b \in {1, 7}}
                \cup {[present |-> {"p1"}, p1 |-> n] : n \in {1, 3}},
     irq |-> {[present |-> {"p0"}, p0 |-> 1], [present |-> {}]},
     iommu |-> {[present |-> {"p0"}, p0 |-> 9]}]
=============================================================================
