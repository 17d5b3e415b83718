---------------------------- MODULE MCScheduler ----------------------------
(* Instances of Scheduler for TLC: all threads start on the first CPU. *)
EXTENDS Scheduler
CONSTANTS t1, t2, t3
Boot == [c \in Cpus |-> IF c = 0 THEN SelectSeq(<<t1, t2, t3>>, LAMBDA t : t \in Threads)
                        ELSE <<>>]
=============================================================================
