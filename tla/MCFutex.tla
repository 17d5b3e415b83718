------------------------------ MODULE MCFutex ------------------------------
(* Instances of Futex for TLC: two CPUs, up to three threads and two words. *)
EXTENDS Futex, TLC
CONSTANTS c1, c2, t1, t2, t3, a1, a2, p0, p1

\* t1 belongs to init, t2 and t3 to a child process.
MCProcOf == [t \in Threads |-> IF t = t1 THEN p0 ELSE p1]
NoCompletion == [t \in Threads |-> None]
Joinable == [t \in Threads |-> IF t = t3 THEN a2 ELSE None]
TwoBuckets == [a \in Addrs |-> IF a = a1 THEN 1 ELSE 2]
OneBucket == [a \in Addrs |-> 1]
Boot2 == [c \in Cpus |-> IF c = c1 THEN <<t1>> ELSE <<t2>>]
Boot3 == [c \in Cpus |-> IF c = c1 THEN <<t1>> ELSE <<t2, t3>>]

\* CPUs are interchangeable, and so are the threads of one process.
Symmetry == Permutations({c1, c2}) \cup Permutations({t2, t3})

\* What the user threads of each run do.
OpsClaim == {"wait", "timed", "wake", "fused", "nomem", "destroy", "kill", "reap",
             "requeue"}
OpsExit == {"store", "wait", "timed", "spawn", "exit", "proc_exit", "kill", "yield"}
=============================================================================
