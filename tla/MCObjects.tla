----------------------------- MODULE MCObjects -----------------------------
(* A small instance of Reaper: init, an ordinary child that owns a block, a  *)
(* driver child with a device attached to a domain of its IOMMU channel, and *)
(* one pid to come.                                                          *)
EXTENDS Reaper, TLC

CONSTANTS t1, t2, t3, t4, b0, b1, b2, b3, v1
ThreadTable == 2 :> t2 @@ 3 :> t3
BlockTable == <<{b0}, {b1}, {b2, b3}, {}>>
RingTable == b0 :> "tree" @@ b1 :> "none" @@ b2 :> "iommu" @@ b3 :> "none"
DeviceTable == [d \in Domain |-> IF d = <<b2, 1>> THEN {v1} ELSE {}]
=============================================================================
