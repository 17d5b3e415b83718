------------------------------ MODULE MCMemory ------------------------------
(* Small instances of Memory for TLC: eight pages under three levels of two *)
(* entries, a one-page and a two-page block, and a device page.             *)
EXTENDS Memory, TLC
CONSTANT zombie

Small == [lo |-> 0, hi |-> 1]
Large == [lo |-> 2, hi |-> 4]
Window == [lo |-> 1, hi |-> 2]
MCRam == {Small, Large}
MCDevice == {Window}
NoDevice == {}
\* Parent and zombie have a block each; the device is not mapped yet.
OneEach == [b \in MCRam \cup MCDevice |->
              IF b = Large THEN zombie ELSE IF b = Small THEN First ELSE None]
NoneOwned == [b \in MCRam |-> None]
\* Which CPU is which makes no difference.
CpuSymmetry == Permutations(Cpu)
=============================================================================
