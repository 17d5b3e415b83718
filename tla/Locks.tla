------------------------------- MODULE Locks -------------------------------
(***************************************************************************)
(* What the mutex, reader-writer lock and spin lock of the C library       *)
(* promise their callers, without the words, queues and retries they are   *)
(* built from: a thread comes to hold a lock only when nobody holds it in  *)
(* a conflicting mode, and only its holder lets go of it.                  *)
(***************************************************************************)

CONSTANT Thread

VARIABLE holds          \* the lock modes each thread holds

Mode == {"mutex", "spin", "read", "write"}

\* Two modes nobody may hold at once: readers alone may share.
Conflict(a, b) ==
  \/ a = b /\ a # "read"
  \/ {a, b} = {"read", "write"}

Init == holds = [t \in Thread |-> {}]

Acquire(t, m) ==
  /\ m \notin holds[t]
  /\ \A u \in Thread : \A n \in holds[u] : ~Conflict(m, n)
  /\ holds' = [holds EXCEPT ![t] = @ \cup {m}]

Release(t, m) ==
  /\ m \in holds[t]
  /\ holds' = [holds EXCEPT ![t] = @ \ {m}]

Next == \E t \in Thread, m \in Mode : Acquire(t, m) \/ Release(t, m)

Spec == Init /\ [][Next]_holds

\* No two threads ever hold conflicting modes.
Exclusion ==
  \A t, u \in Thread :
    t # u => \A a \in holds[t], b \in holds[u] : ~Conflict(a, b)
=============================================================================
