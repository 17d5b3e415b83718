-------------------------- MODULE SchedulerProofs --------------------------
(***************************************************************************)
(* Proofs about Scheduler, for any number of CPUs and threads.             *)
(***************************************************************************)
EXTENDS Scheduler, FiniteSetTheorems, SequenceTheorems, TLAPS

Sorted(D) == \A i, j \in DOMAIN D : i <= j => D[i][2] <= D[j][2]

\* What the control state of a CPU says about the rest of its state.
Control ==
  \A c \in Cpus :
    /\ pc[c] \in {"enqueue", "ipi"} => todo[c] # <<>>
    /\ send[c] # None <=> pc[c] = "ipi"
    /\ pc[c] \in {"run", "preempted"} => running[c] \in Threads
    /\ pc[c] \in {"enqueue", "ipi"} /\ back[c] \in {"run", "preempted"}
         => running[c] \in Threads
    /\ pc[c] = "marked" => idle[c]

(***************************************************************************)
(* The operators of the timer.                                             *)
(***************************************************************************)
Entry == Threads \X Nat

\* The smaller of two numbers, as program_local_locked and the batch cap take it.
LEMMA LeastOfTwo ==
  ASSUME NEW a \in Nat, NEW b \in Nat
  PROVE  /\ Least({a, b}) \in {a, b}
         /\ Least({a, b}) <= a /\ Least({a, b}) <= b
<1>1. \E x \in {a, b} : \A y \in {a, b} : x <= y
  <2>1. CASE a <= b
    BY <2>1
  <2>2. CASE b <= a
    BY <2>2
  <2> QED
    BY <2>1, <2>2
<1> QED
  BY <1>1, Zenon DEF Least

\* program_local_locked: the shot it programs is due no later than the first
\* deadline and the quantum, or is a single tick away.
LEMMA ProgramCovers ==
  ASSUME NEW q \in Nat \cup {None}, NEW D \in Seq(Entry)
  PROVE  LET p == Program(q, D) IN
         /\ p \in Nat \cup {None}
         /\ D # <<>> => p # None /\ (p <= D[1][2] \/ p <= 1)
         /\ q # None => p # None /\ (p <= q \/ p <= 1)
<1> DEFINE O == ({q} \ {None}) \cup (IF D = <<>> THEN {} ELSE {D[1][2]})
<1>0. None \notin Nat /\ LapicMax \in Nat
  BY SchedulerAssumption, Zenon
<1>1. D # <<>> => D[1][2] \in Nat
  <2>1. ASSUME D # <<>> PROVE D[1] \in Entry
    BY <2>1
  <2> QED
    BY <2>1, Zenon DEF Entry
<1>2. CASE O = {}
  <2>1. D = <<>> /\ q = None
    BY <1>2, Zenon
  <2> QED
    BY <1>2, <2>1, Zenon DEF Program
<1>3. CASE O # {}
  <2>1. PICK a \in Nat, b \in Nat : O = {a, b}
    <3>1. CASE q # None /\ D # <<>>
      <4>1. O = {q, D[1][2]} /\ q \in Nat
        BY <3>1, Zenon
      <4> QED
        BY <1>1, <3>1, <4>1, Zenon
    <3>2. CASE q # None /\ D = <<>>
      <4>1. O = {q, q} /\ q \in Nat
        BY <3>2, Zenon
      <4> QED
        BY <4>1, Zenon
    <3>3. CASE q = None /\ D # <<>>
      <4>1. O = {D[1][2], D[1][2]}
        BY <3>3, Zenon
      <4> QED
        BY <1>1, <3>3, <4>1, Zenon
    <3> QED
      BY <1>3, <3>1, <3>2, <3>3, Zenon
  <2> DEFINE left == Least(O)
  <2>2. left \in Nat /\ left <= a /\ left <= b
    <3>1. Least({a, b}) \in Nat /\ Least({a, b}) <= a /\ Least({a, b}) <= b
      BY LeastOfTwo, Zenon
    <3> HIDE DEF O
    <3> QED
      BY <2>1, <3>1, Zenon
  <2>3. \A x \in O : left <= x
    BY <2>1, <2>2, Zenon
  <2>4. (D # <<>> => left <= D[1][2]) /\ (q # None => left <= q)
    <3>1. (D # <<>> => D[1][2] \in O) /\ (q # None => q \in O)
      BY Zenon
    <3> HIDE DEF left, O
    <3> QED
      BY <2>3, <3>1, Zenon
  <2> DEFINE p == Program(q, D)
  <2>5. p = IF left = 0 THEN 1 ELSE Least({left, LapicMax})
    BY <1>3, Zenon DEF Program
  <2>6. p \in Nat /\ (p <= left \/ p <= 1)
    <3>1. Least({left, LapicMax}) \in Nat /\ Least({left, LapicMax}) <= left
      BY <1>0, <2>2, LeastOfTwo, Zenon
    <3> HIDE DEF left, p
    <3> QED
      BY <2>5, <3>1
  <2>7. D # <<>> => p <= D[1][2] \/ p <= 1
    <3> HIDE DEF left, p, O
    <3> QED
      BY <1>1, <2>2, <2>4, <2>6, SMTT(60)
  <2>8. q # None => p <= q \/ p <= 1
    <3> HIDE DEF left, p, O
    <3> QED
      BY <2>2, <2>4, <2>6, SMTT(60)
  <2>9. p # None
    <3> HIDE DEF p
    <3> QED
      BY <1>0, <2>6, Zenon
  <2> QED
    BY <2>6, <2>7, <2>8, <2>9, Zenon
<1> QED
  BY <1>2, <1>3, Zenon

\* A sequence cut out of D between two places.
LEMMA Cut ==
  ASSUME NEW S, NEW D \in Seq(S), NEW m \in Nat \ {0}, NEW n \in Nat, n <= Len(D)
  PROVE  /\ SubSeq(D, m, n) \in Seq(S)
         /\ Len(SubSeq(D, m, n)) = IF m <= n THEN n - m + 1 ELSE 0
         /\ \A i \in 1 .. Len(SubSeq(D, m, n)) :
              SubSeq(D, m, n)[i] = D[m + i - 1] /\ m + i - 1 \in DOMAIN D
<1>1. CASE m <= n
  BY <1>1
<1>2. CASE ~ m <= n
  BY <1>2
<1> QED
  BY <1>1, <1>2, Zenon

\* llrb_tdeadline_insert keeps the tree in order and adds the one entry; the first
\* entry is the new one or the one that was first.
LEMMA InsertedFacts ==
  ASSUME NEW D \in Seq(Entry), Sorted(D), NEW e \in Entry, NEW E \in Inserted(D, e)
  PROVE  /\ E \in Seq(Entry) /\ E # <<>> /\ Sorted(E)
         /\ \E i \in DOMAIN E : E[i] = e
         /\ \A i \in DOMAIN E : E[i] = e \/ \E k \in DOMAIN D : E[i] = D[k]
         /\ E[1] = e \/ (D # <<>> /\ E[1] = D[1])
<1>1. PICK j \in 0 .. Len(D) :
        /\ E = SubSeq(D, 1, j) \o <<e>> \o SubSeq(D, j + 1, Len(D))
        /\ \A k \in 1 .. j : D[k][2] <= e[2]
        /\ \A k \in j + 1 .. Len(D) : e[2] <= D[k][2]
  BY Zenon DEF Inserted
<1> DEFINE A == SubSeq(D, 1, j)
           B == SubSeq(D, j + 1, Len(D))
<1>2. A \in Seq(Entry) /\ Len(A) = j /\ \A i \in 1 .. j : A[i] = D[i]
  BY Cut
<1>3. B \in Seq(Entry) /\ Len(B) = Len(D) - j /\ \A i \in 1 .. Len(D) - j : B[i] = D[i + j]
  <2>1. Len(D) \in Nat /\ j + 1 \in Nat \ {0}
    OBVIOUS
  <2> QED
    BY <2>1, Cut
<1>4. /\ E \in Seq(Entry) /\ Len(E) = Len(D) + 1
      /\ \A i \in 1 .. Len(D) + 1 : E[i] = IF i <= j THEN D[i] ELSE IF i = j + 1 THEN e ELSE D[i - 1]
  <2> HIDE DEF A, B
  <2>0. E = A \o <<e>> \o B
    BY <1>1, Zenon DEF A, B
  <2>1. <<e>> \in Seq(Entry) /\ Len(<<e>>) = 1 /\ <<e>>[1] = e
    OBVIOUS
  <2>2. A \o <<e>> \in Seq(Entry) /\ Len(A \o <<e>>) = j + 1
        /\ \A i \in 1 .. j + 1 : (A \o <<e>>)[i] = IF i <= j THEN D[i] ELSE e
    BY <1>2, <2>1, SMTT(60)
  <2>3. E \in Seq(Entry) /\ Len(E) = Len(D) + 1
    BY <1>3, <2>0, <2>2, SMTT(60)
  <2>4. ASSUME NEW i \in 1 .. Len(D) + 1
        PROVE  E[i] = IF i <= j THEN D[i] ELSE IF i = j + 1 THEN e ELSE D[i - 1]
    <3>1. E[i] = IF i <= j + 1 THEN (A \o <<e>>)[i] ELSE B[i - (j + 1)]
      BY <1>3, <2>0, <2>2, SMTT(60)
    <3>2. CASE i <= j + 1
      BY <2>2, <3>1, <3>2, SMTT(60)
    <3>3. CASE ~ i <= j + 1
      <4>1. i - (j + 1) \in 1 .. Len(D) - j /\ (i - (j + 1)) + j = i - 1
        BY <3>3
      <4> QED
        BY <1>3, <3>1, <3>3, <4>1, SMTT(60)
    <3> QED
      BY <3>2, <3>3, Zenon
  <2> QED
    BY <2>3, <2>4, Zenon
<1>5. \A i \in DOMAIN E : E[i] = e \/ \E k \in DOMAIN D : E[i] = D[k]
  <2> SUFFICES ASSUME NEW i \in DOMAIN E PROVE E[i] = e \/ \E k \in DOMAIN D : E[i] = D[k]
    BY Zenon
  <2>1. CASE i <= j
    BY <1>4, <2>1, SMTT(60)
  <2>2. CASE i = j + 1
    BY <1>4, <2>2
  <2>3. CASE i > j + 1
    <3>1. i - 1 \in DOMAIN D /\ E[i] = D[i - 1]
      BY <1>4, <2>3, SMTT(60)
    <3> QED
      BY <3>1, Zenon
  <2> QED
    BY <1>4, <2>1, <2>2, <2>3, SMTT(60)
<1>6. \A k \in DOMAIN D : D[k][2] \in Nat
  BY DEF Entry
<1>7. Sorted(E)
  <2> SUFFICES ASSUME NEW i \in DOMAIN E, NEW k \in DOMAIN E, i <= k PROVE E[i][2] <= E[k][2]
    BY Zenon DEF Sorted
  <2>0. e[2] \in Nat /\ i \in 1 .. Len(D) + 1 /\ k \in 1 .. Len(D) + 1
    BY <1>4 DEF Entry
  <2>1. CASE k <= j
    <3>1. E[i] = D[i] /\ E[k] = D[k] /\ i \in DOMAIN D /\ k \in DOMAIN D
      BY <1>4, <2>0, <2>1, SMTT(60)
    <3> QED
      BY <3>1, Zenon DEF Sorted
  <2>2. CASE i > j + 1
    <3>1. E[i] = D[i - 1] /\ E[k] = D[k - 1] /\ i - 1 \in DOMAIN D /\ k - 1 \in DOMAIN D
      BY <1>4, <2>0, <2>2, SMTT(60)
    <3> QED
      BY <2>0, <3>1, SMTT(60) DEF Sorted
  <2>3. CASE i <= j + 1 /\ k > j
    <3>1. E[i][2] <= e[2] /\ E[i][2] \in Nat
      <4>1. CASE i <= j
        BY <1>1, <1>4, <1>6, <2>0, <4>1, SMTT(60)
      <4>2. CASE i = j + 1
        BY <1>4, <2>0, <4>2, SMTT(60)
      <4> QED
        BY <2>0, <2>3, <4>1, <4>2, SMTT(60)
    <3>2. e[2] <= E[k][2] /\ E[k][2] \in Nat
      <4>1. CASE k > j + 1
        <5>1. k - 1 \in j + 1 .. Len(D) /\ E[k] = D[k - 1]
          BY <1>4, <2>0, <4>1, SMTT(60)
        <5> QED
          BY <1>1, <1>6, <5>1, SMTT(60)
      <4>2. CASE k = j + 1
        BY <1>4, <2>0, <4>2, SMTT(60)
      <4> QED
        BY <2>0, <2>3, <4>1, <4>2, SMTT(60)
    <3> QED
      BY <2>0, <3>1, <3>2, SMTT(60)
  <2> QED
    BY <2>0, <2>1, <2>2, <2>3, SMTT(60)
<1>8. E # <<>> /\ (E[1] = e \/ (D # <<>> /\ E[1] = D[1]))
  BY <1>4
<1>9. \E i \in DOMAIN E : E[i] = e
  <2>1. j + 1 \in DOMAIN E /\ E[j + 1] = e
    BY <1>4
  <2> QED
    BY <2>1, Zenon
<1> QED
  BY <1>4, <1>5, <1>7, <1>8, <1>9, Zenon

\* timer_deadline_cancel takes entries out of the tree, adds none and keeps the
\* order.
LEMMA CancelledFacts ==
  ASSUME NEW D \in Seq(Entry), Sorted(D), NEW t
  PROVE  LET E == Cancelled(D, t) IN
         /\ E \in Seq(Entry) /\ Sorted(E)
         /\ \A i \in DOMAIN E : \E k \in DOMAIN D : E[i] = D[k]
<1>1. CASE t \notin Armed(D)
  BY <1>1, Zenon DEF Cancelled
<1>2. CASE t \in Armed(D)
  <2> DEFINE j == CHOOSE k \in DOMAIN D : D[k][1] = t
             A == SubSeq(D, 1, j - 1)
             B == SubSeq(D, j + 1, Len(D))
             E == Cancelled(D, t)
  <2>1. j \in DOMAIN D
    BY <1>2, Zenon DEF Armed
  <2>2. E = A \o B
    BY <1>2, Zenon DEF Cancelled
  <2> HIDE DEF j
  <2>3. A \in Seq(Entry) /\ Len(A) = j - 1 /\ \A i \in 1 .. j - 1 : A[i] = D[i]
    BY <2>1
  <2>4. B \in Seq(Entry) /\ Len(B) = Len(D) - j /\ \A i \in 1 .. Len(D) - j : B[i] = D[i + j]
    BY <2>1, SMTT(60)
  <2> HIDE DEF A, B, E
  <2>5. /\ E \in Seq(Entry) /\ Len(E) = Len(D) - 1
        /\ \A i \in 1 .. Len(D) - 1 : E[i] = IF i < j THEN D[i] ELSE D[i + 1]
    <3>1. E \in Seq(Entry) /\ Len(E) = Len(D) - 1
      BY <2>1, <2>2, <2>3, <2>4, SMTT(60)
    <3>2. ASSUME NEW i \in 1 .. Len(D) - 1
          PROVE  E[i] = IF i < j THEN D[i] ELSE D[i + 1]
      <4>1. E[i] = IF i <= j - 1 THEN A[i] ELSE B[i - (j - 1)]
        <5>1. i \in 1 .. Len(A) + Len(B)
          BY <2>1, <2>3, <2>4
        <5>2. (A \o B)[i] = IF i <= Len(A) THEN A[i] ELSE B[i - Len(A)]
          <6>1. A \in Seq(Entry) /\ B \in Seq(Entry)
            BY <2>3, <2>4, Zenon
          <6>2. QED
            BY <5>1, <6>1
        <5>3. QED
          BY <2>2, <2>3, <5>2, Zenon
      <4>2. CASE i < j
        BY <2>1, <2>3, <4>1, <4>2
      <4>3. CASE ~ i < j
        <5>1. i - (j - 1) \in 1 .. Len(D) - j /\ (i - (j - 1)) + j = i + 1
          BY <2>1, <4>3
        <5> QED
          BY <2>1, <2>4, <4>1, <4>3, <5>1, SMTT(60)
      <4> QED
        BY <4>2, <4>3, Zenon
    <3> QED
      BY <3>1, <3>2, Zenon
  <2>6. \A i \in DOMAIN E : \E k \in DOMAIN D : E[i] = D[k]
    <3> SUFFICES ASSUME NEW i \in DOMAIN E PROVE \E k \in DOMAIN D : E[i] = D[k]
      BY Zenon
    <3>1. i \in DOMAIN D /\ i + 1 \in DOMAIN D
      BY <2>5
    <3> QED
      BY <2>5, <3>1, SMTT(60)
  <2>7. Sorted(E)
    <3> SUFFICES ASSUME NEW i \in DOMAIN E, NEW k \in DOMAIN E, i <= k PROVE E[i][2] <= E[k][2]
      BY Zenon DEF Sorted
    <3>1. /\ i \in DOMAIN D /\ i + 1 \in DOMAIN D /\ k \in DOMAIN D /\ k + 1 \in DOMAIN D
          /\ i \in Nat /\ k \in Nat
      BY <2>5
    <3> QED
      BY <2>1, <2>5, <3>1, SMTT(60) DEF Sorted
  <2> QED
    BY <2>5, <2>6, <2>7, Zenon DEF E
<1> QED
  BY <1>1, <1>2, Zenon

\* timer_cpu_interrupt pops no more entries than there are.
LEMMA BatchBound ==
  ASSUME NEW D \in Seq(Entry)
  PROVE  Least({Cardinality({i \in DOMAIN D : D[i][2] = 0}), IrqBatch}) \in 0 .. Len(D)
<1> DEFINE S == {i \in DOMAIN D : D[i][2] = 0}
<1>1. Cardinality(S) \in 0 .. Len(D)
  <2>1. IsFiniteSet(1 .. Len(D)) /\ Cardinality(1 .. Len(D)) = Len(D)
    <3>1. Len(D) \in Nat
      OBVIOUS
    <3>2. 1 \in Int /\ Len(D) \in Int
      BY <3>1
    <3>3. /\ IsFiniteSet(1 .. Len(D))
          /\ Cardinality(1 .. Len(D)) = IF 1 > Len(D) THEN 0 ELSE Len(D) - 1 + 1
      BY <3>2, FS_Interval, Zenon
    <3> QED
      BY <3>1, <3>3
  <2>2. IsFiniteSet(S) /\ Cardinality(S) <= Len(D)
    BY <2>1, FS_Subset
  <2> QED
    BY <2>2, FS_CardinalityType
<1>2. Cardinality(S) \in Nat /\ IrqBatch \in Nat
  BY <1>1, SchedulerAssumption
<1> HIDE DEF S
<1>3. /\ Least({Cardinality(S), IrqBatch}) \in Nat
      /\ Least({Cardinality(S), IrqBatch}) <= Cardinality(S)
  BY <1>2, LeastOfTwo, Zenon
<1>4. Least({Cardinality(S), IrqBatch}) \in 0 .. Len(D)
  BY <1>1, <1>3
<1> QED
  BY <1>4, Zenon DEF S

\* timer_cpu_interrupt: the threads of the popped prefix are handed on and the rest
\* of the tree stays in order.
LEMMA PoppedFacts ==
  ASSUME NEW D \in Seq(Entry), Sorted(D), NEW n \in 0 .. Len(D)
  PROVE  /\ [i \in 1 .. n |-> D[i][1]] \in Seq(Threads)
         /\ n # 0 => [i \in 1 .. n |-> D[i][1]] # <<>>
         /\ SubSeq(D, n + 1, Len(D)) \in Seq(Entry)
         /\ Sorted(SubSeq(D, n + 1, Len(D)))
<1> DEFINE P == [i \in 1 .. n |-> D[i][1]]
           E == SubSeq(D, n + 1, Len(D))
<1>1. P \in Seq(Threads) /\ (n # 0 => P # <<>>)
  <2>1. \A i \in 1 .. n : D[i][1] \in Threads
    BY DEF Entry
  <2>2. P \in [1 .. n -> Threads] /\ n \in Nat
    BY <2>1
  <2> HIDE DEF P
  <2>3. P \in Seq(Threads) /\ Len(P) = n
    BY <2>2
  <2> QED
    BY <2>3
<1>2. /\ E \in Seq(Entry) /\ Len(E) = Len(D) - n
      /\ \A i \in 1 .. Len(D) - n : E[i] = D[n + i]
  BY n + 1 \in Nat \ {0}, Len(D) \in Nat, Cut
<1>3. Sorted(E)
  <2> HIDE DEF E
  <2> SUFFICES ASSUME NEW i \in DOMAIN E, NEW k \in DOMAIN E, i <= k PROVE E[i][2] <= E[k][2]
    BY Zenon DEF Sorted
  <2>1. /\ n + i \in DOMAIN D /\ n + k \in DOMAIN D /\ n + i <= n + k
        /\ E[i] = D[n + i] /\ E[k] = D[n + k]
    BY <1>2, SMTT(60)
  <2> QED
    BY <2>1, Zenon DEF Sorted
<1> QED
  BY <1>1, <1>2, <1>3, Zenon

\* A tick brings every deadline of a tree a tick nearer and keeps the order.
LEMMA TickedFacts ==
  ASSUME NEW D \in Seq(Entry), Sorted(D),
         NEW E, E = [i \in DOMAIN D |-> <<D[i][1], CountDown(D[i][2])>>]
  PROVE  /\ E \in Seq(Entry) /\ Sorted(E) /\ DOMAIN E = DOMAIN D
         /\ \A i \in DOMAIN D : E[i][2] = CountDown(D[i][2]) /\ D[i][2] \in Nat
<1>1. \A i \in DOMAIN D : D[i][1] \in Threads /\ D[i][2] \in Nat
  BY DEF Entry
<1>2. \A x \in Nat : CountDown(x) = IF x = 0 THEN 0 ELSE x - 1
  BY SchedulerAssumption, Zenon DEF CountDown
<1>3. \A i \in DOMAIN D : E[i] \in Entry /\ E[i][2] = CountDown(D[i][2])
  <2>1. \A x \in Nat : CountDown(x) \in Nat
    BY <1>2
  <2> QED
    BY <1>1, <2>1, Zenon DEF Entry
<1>4. E \in Seq(Entry) /\ DOMAIN E = DOMAIN D
  <2>1. E \in [1 .. Len(D) -> Entry] /\ Len(D) \in Nat
    BY <1>3
  <2> QED
    BY <2>1
<1>5. Sorted(E)
  <2> SUFFICES ASSUME NEW i \in DOMAIN D, NEW k \in DOMAIN D, i <= k PROVE E[i][2] <= E[k][2]
    BY <1>4, Zenon DEF Sorted
  <2>1. D[i][2] <= D[k][2]
    BY Zenon DEF Sorted
  <2> QED
    BY <1>1, <1>2, <1>3, <2>1, SMTT(60)
<1> QED
  BY <1>1, <1>3, <1>4, <1>5, Zenon

(***************************************************************************)
(* The timer.                                                              *)
(***************************************************************************)
Timers == /\ \A c \in Cpus : Sorted(deadlines[c])
          /\ \A c \in Cpus : /\ \A i \in DOMAIN deadlines[c] : Covered(c, deadlines[c][i][2])
                             /\ quantum[c] # None => Covered(c, quantum[c])

\* A shot just programmed for the quantum and the deadlines of a CPU covers them.
LEMMA FreshShot ==
  ASSUME NEW c \in Cpus, NEW q \in Nat \cup {None}, NEW D \in Seq(Entry), Sorted(D)
  PROVE  LET p == Program(q, D) IN
         /\ p \in Nat \cup {None}
         /\ \A i \in DOMAIN D : p # None /\ (p <= D[i][2] \/ p <= 1)
         /\ q # None => p # None /\ (p <= q \/ p <= 1)
<1> DEFINE p == Program(q, D)
<1>1. /\ p \in Nat \cup {None}
      /\ D # <<>> => p # None /\ (p <= D[1][2] \/ p <= 1)
      /\ q # None => p # None /\ (p <= q \/ p <= 1)
  BY ProgramCovers, Zenon
<1> HIDE DEF p
<1>2. ASSUME NEW i \in DOMAIN D PROVE p # None /\ (p <= D[i][2] \/ p <= 1)
  <2>1. D # <<>> /\ 1 \in DOMAIN D /\ 1 <= i
    OBVIOUS
  <2>2. D[1][2] <= D[i][2] /\ D[1][2] \in Nat /\ D[i][2] \in Nat
    BY <2>1 DEF Sorted, Entry
  <2> QED
    BY <1>1, <2>1, <2>2, SMTT(60)
<1> QED
  BY <1>1, <1>2, Zenon DEF p

\* Steps that leave the timers alone.
LEMMA TimersKept ==
  ASSUME Timers, UNCHANGED timers
  PROVE  Timers'
BY Zenon DEF Timers, timers, Covered

\* A step of c that reprograms its shot for its new quantum and deadlines.
LEMMA Reprogrammed ==
  ASSUME TypeOK, Timers, NEW c \in Cpus,
         NEW q \in Nat \cup {None}, NEW D \in Seq(Entry), Sorted(D),
         quantum' = [quantum EXCEPT ![c] = q],
         deadlines' = [deadlines EXCEPT ![c] = D],
         shot' = [shot EXCEPT ![c] = Program(q, D)],
         \A b \in Cpus \ {c} : irr'[b] = irr[b]
  PROVE  /\ Timers'
         /\ quantum' \in [Cpus -> Nat \cup {None}] /\ shot' \in [Cpus -> Nat \cup {None}]
         /\ deadlines' \in [Cpus -> Seq(Entry)]
<1>1. /\ Program(q, D) \in Nat \cup {None}
      /\ \A i \in DOMAIN D : Program(q, D) # None /\ (Program(q, D) <= D[i][2] \/ Program(q, D) <= 1)
      /\ q # None => Program(q, D) # None /\ (Program(q, D) <= q \/ Program(q, D) <= 1)
  BY FreshShot, Zenon
<1>2. /\ quantum' \in [Cpus -> Nat \cup {None}] /\ shot' \in [Cpus -> Nat \cup {None}]
      /\ deadlines' \in [Cpus -> Seq(Entry)]
  BY <1>1, Zenon DEF TypeOK, Entry
<1>3. deadlines'[c] = D /\ quantum'[c] = q /\ shot'[c] = Program(q, D)
  BY Zenon DEF TypeOK
<1>4. ASSUME NEW b \in Cpus, b # c
      PROVE  /\ deadlines'[b] = deadlines[b] /\ quantum'[b] = quantum[b]
             /\ shot'[b] = shot[b] /\ irr'[b] = irr[b]
  BY <1>4, Zenon DEF TypeOK
<1>5. \A b \in Cpus : Sorted(deadlines'[b])
  BY <1>3, <1>4, Zenon DEF Timers
<1>6. ASSUME NEW b \in Cpus
      PROVE  /\ \A i \in DOMAIN deadlines'[b] : Covered(b, deadlines[b][i][2])'
             /\ quantum'[b] # None => Covered(b, quantum[b])'
  <2>1. CASE b = c
    BY <1>1, <1>3, <2>1, Zenon DEF Covered
  <2>2. CASE b # c
    BY <1>4, <2>2, Zenon DEF Covered, Timers
  <2> QED
    BY <2>1, <2>2, Zenon
<1> QED
  BY <1>2, <1>5, <1>6, Zenon DEF Timers

TimerTypes == /\ quantum \in [Cpus -> Nat \cup {None}] /\ shot \in [Cpus -> Nat \cup {None}]
              /\ deadlines \in [Cpus -> Seq(Entry)]

\* timer_deadline_arm: when the new entry is not the earliest obligation the shot
\* stays, and still covers it.
LEMMA TimedParkTimers ==
  ASSUME TypeOK, Timers, Control, NEW c \in Cpus, NEW d \in Waits, TimedPark(c, d)
  PROVE  Timers' /\ TimerTypes'
<1> DEFINE e == <<running[c], d>>
<1>1. d \in Nat /\ running[c] \in Threads /\ e \in Entry
  BY SchedulerAssumption, Zenon DEF TimedPark, Control, Entry
<1>2. deadlines[c] \in Seq(Entry) /\ Sorted(deadlines[c]) /\ quantum[c] \in Nat \cup {None}
      /\ shot[c] \in Nat \cup {None} /\ irr[c] \in BOOLEAN
  BY Zenon DEF TypeOK, Timers, Entry
<1>3. PICK D \in Inserted(deadlines[c], e) :
        /\ deadlines' = [deadlines EXCEPT ![c] = D]
        /\ shot' = IF D[1][1] = running[c] /\ (quantum[c] = None \/ d < quantum[c])
                   THEN [shot EXCEPT ![c] = Program(quantum[c], D)]
                   ELSE shot
  BY Zenon DEF TimedPark
<1>4. /\ D \in Seq(Entry) /\ D # <<>> /\ Sorted(D)
      /\ \E i \in DOMAIN D : D[i] = e
      /\ \A i \in DOMAIN D : D[i] = e \/ \E k \in DOMAIN deadlines[c] : D[i] = deadlines[c][k]
      /\ D[1] = e \/ (deadlines[c] # <<>> /\ D[1] = deadlines[c][1])
  <2> HIDE DEF e
  <2> QED
    BY <1>1, <1>2, InsertedFacts, SMTT(60)
<1>5. UNCHANGED <<quantum, irr>>
  BY Zenon DEF TimedPark
<1>6. CASE D[1][1] = running[c] /\ (quantum[c] = None \/ d < quantum[c])
  <2>1. shot' = [shot EXCEPT ![c] = Program(quantum[c], D)]
    BY <1>3, <1>6, Zenon
  <2>2. quantum' = [quantum EXCEPT ![c] = quantum[c]]
    BY <1>5, Zenon DEF TypeOK
  <2> QED
    BY <1>2, <1>3, <1>4, <1>5, <2>1, <2>2, Reprogrammed, Zenon DEF TimerTypes
<1>7. CASE ~ (D[1][1] = running[c] /\ (quantum[c] = None \/ d < quantum[c]))
  <2>1. shot' = shot
    BY <1>3, <1>7, Zenon
  <2>2. TimerTypes'
    BY <1>3, <1>4, <1>5, <2>1, Zenon DEF TypeOK, TimerTypes, Entry
  <2>3. Covered(c, d)
    <3>1. CASE D[1][1] # running[c]
      <4>1. deadlines[c] # <<>> /\ D[1] = deadlines[c][1] /\ D[1] # e
        BY <1>4, <3>1, SMTT(60)
      <4>2. PICK j \in DOMAIN D : D[j] = e
        BY <1>4, Zenon
      <4>3. D[1][2] <= d /\ D[1][2] \in Nat
        <5>1. 1 \in DOMAIN D /\ 1 <= j /\ e[2] = d
          BY <1>4, <4>2, SMTT(60)
        <5> QED
          BY <1>4, <4>2, <5>1, SMTT(60) DEF Sorted, Entry
      <4>4. Covered(c, deadlines[c][1][2])
        <5>1. 1 \in DOMAIN deadlines[c]
          BY <1>2, <4>1, SMTT(60)
        <5> QED
          BY <5>1, Zenon DEF Timers
      <4> QED
        BY <1>1, <1>2, <4>1, <4>3, <4>4, SMTT(60) DEF Covered
    <3>2. CASE quantum[c] # None /\ ~ d < quantum[c]
      BY <1>1, <1>2, <3>2, SMTT(60) DEF Timers, Covered
    <3> QED
      BY <1>7, <3>1, <3>2, Zenon
  <2>4. ASSUME NEW b \in Cpus
        PROVE  /\ Sorted(deadlines'[b])
               /\ \A i \in DOMAIN deadlines'[b] : Covered(b, deadlines'[b][i][2])
               /\ quantum[b] # None => Covered(b, quantum[b])
    <3>1. CASE b = c
      <4>1. deadlines'[b] = D
        BY <1>3, <3>1, Zenon DEF TypeOK
      <4>2. ASSUME NEW i \in DOMAIN D PROVE Covered(c, D[i][2])
        <5>1. CASE D[i] = e
          BY <2>3, <5>1, SMTT(60)
        <5>2. CASE D[i] # e
          BY <1>4, <5>2, Zenon DEF Timers
        <5> QED
          BY <5>1, <5>2, Zenon
      <4> QED
        BY <1>4, <3>1, <4>1, <4>2, Zenon DEF Timers
    <3>2. CASE b # c
      BY <1>3, <3>2, Zenon DEF TypeOK, Timers
    <3> QED
      BY <3>1, <3>2, Zenon
  <2>5. \A b, x : Covered(b, x)' <=> Covered(b, x')
    BY <1>5, <2>1, Zenon DEF Covered
  <2> QED
    BY <1>5, <2>1, <2>2, <2>4, Zenon DEF Timers, Covered
<1> QED
  BY <1>6, <1>7, Zenon

\* A wake cancels a deadline and reprograms nothing: the shot covers what is left.
LEMMA WakeTimers ==
  ASSUME TypeOK, Timers, NEW c \in Cpus, NEW t \in Threads, Wake(c, t)
  PROVE  Timers' /\ TimerTypes'
<1>1. UNCHANGED <<quantum, shot, irr>>
      /\ deadlines' = [o \in Cpus |-> Cancelled(deadlines[o], t)]
  BY Zenon DEF Wake
<1>2. ASSUME NEW b \in Cpus
      PROVE  /\ deadlines'[b] \in Seq(Entry) /\ Sorted(deadlines'[b])
             /\ \A i \in DOMAIN deadlines'[b] : \E k \in DOMAIN deadlines[b] :
                  deadlines'[b][i] = deadlines[b][k]
  <2>1. deadlines[b] \in Seq(Entry) /\ Sorted(deadlines[b])
    BY Zenon DEF TypeOK, Timers, Entry
  <2>2. deadlines'[b] = Cancelled(deadlines[b], t)
    BY <1>1, Zenon
  <2> QED
    BY <2>1, <2>2, CancelledFacts, SMTT(60)
<1>3. TimerTypes'
  BY <1>1, <1>2, Zenon DEF TypeOK, TimerTypes
<1>4. Timers'
  BY <1>1, <1>2, Zenon DEF Timers, Covered
<1> QED
  BY <1>3, <1>4, Zenon

\* A tick: a shot that runs out is accepted, any other comes nearer with what it
\* covers.
LEMMA TickTimers ==
  ASSUME TypeOK, Timers, Tick
  PROVE  Timers' /\ TimerTypes' /\ irr' \in [Cpus -> BOOLEAN]
<1>1. \A x \in Nat : CountDown(x) = (IF x = 0 THEN 0 ELSE x - 1) /\ CountDown(x) \in Nat
  BY SchedulerAssumption DEF CountDown
<1>2. CountDown(None) = None /\ None \notin Nat
  BY SchedulerAssumption, Zenon DEF CountDown
<1>3. ASSUME NEW b \in Cpus
      PROVE  /\ deadlines'[b] \in Seq(Entry) /\ Sorted(deadlines'[b])
             /\ DOMAIN deadlines'[b] = DOMAIN deadlines[b]
             /\ \A i \in DOMAIN deadlines[b] : /\ deadlines'[b][i][2] = CountDown(deadlines[b][i][2])
                                               /\ deadlines[b][i][2] \in Nat
  <2>1. deadlines[b] \in Seq(Entry) /\ Sorted(deadlines[b])
    BY Zenon DEF TypeOK, Timers, Entry
  <2>2. deadlines'[b] = [i \in DOMAIN deadlines[b] |->
                           <<deadlines[b][i][1], CountDown(deadlines[b][i][2])>>]
    BY Zenon DEF Tick
  <2>3. PICK E : E = deadlines'[b]
    BY Zenon
  <2>4. /\ E \in Seq(Entry) /\ Sorted(E) /\ DOMAIN E = DOMAIN deadlines[b]
        /\ \A i \in DOMAIN deadlines[b] : /\ E[i][2] = CountDown(deadlines[b][i][2])
                                          /\ deadlines[b][i][2] \in Nat
    <3>1. PICK D : D = deadlines[b]
      BY Zenon
    <3>2. D \in Seq(Entry) /\ Sorted(D) /\ E = [i \in DOMAIN D |-> <<D[i][1], CountDown(D[i][2])>>]
      BY <2>1, <2>2, <2>3, <3>1, Zenon
    <3>3. /\ E \in Seq(Entry) /\ Sorted(E) /\ DOMAIN E = DOMAIN D
          /\ \A i \in DOMAIN D : E[i][2] = CountDown(D[i][2]) /\ D[i][2] \in Nat
      BY <3>2, TickedFacts
    <3> QED
      BY <3>1, <3>3, Zenon
  <2> QED
    BY <2>3, <2>4, Zenon
<1>4. \A b \in Cpus : /\ quantum'[b] = CountDown(quantum[b])
                      /\ shot'[b] = IF shot[b] = 1 THEN None ELSE CountDown(shot[b])
                      /\ irr'[b] = (irr[b] \/ shot[b] = 1)
                      /\ quantum[b] \in Nat \cup {None} /\ shot[b] \in Nat \cup {None}
  BY Zenon DEF Tick, TypeOK
<1>5. TimerTypes' /\ irr' \in [Cpus -> BOOLEAN]
  <2>1. \A x \in Nat \cup {None} : CountDown(x) \in Nat \cup {None}
    BY <1>1, <1>2, Zenon
  <2>2. quantum' \in [Cpus -> Nat \cup {None}]
    BY <1>4, <2>1, Zenon DEF Tick
  <2>3. shot' \in [Cpus -> Nat \cup {None}]
    BY <1>4, <2>1, Zenon DEF Tick
  <2>4. deadlines' \in [Cpus -> Seq(Entry)]
    <3>1. deadlines' = [b \in Cpus |-> deadlines'[b]]
      BY Zenon DEF Tick
    <3> QED
      BY <1>3, <3>1, Zenon
  <2>5. irr' \in [Cpus -> BOOLEAN]
    BY Zenon DEF Tick, TypeOK
  <2> QED
    BY <2>2, <2>3, <2>4, <2>5, Zenon DEF TimerTypes
<1>6. ASSUME NEW b \in Cpus, NEW x \in Nat, Covered(b, x)
      PROVE  irr'[b] \/ (shot'[b] # None /\ (shot'[b] <= CountDown(x) \/ shot'[b] <= 1))
  <2>1. CASE irr[b] \/ shot[b] = 1
    BY <1>4, <2>1, Zenon
  <2>2. CASE ~ irr[b] /\ shot[b] # 1
    <3>1. shot[b] \in Nat /\ (shot[b] <= x \/ shot[b] <= 1)
      BY <1>2, <1>4, <1>6, <2>2, Zenon DEF Covered
    <3>2. shot'[b] = CountDown(shot[b])
      BY <1>4, <2>2, Zenon
    <3> QED
      BY <1>1, <1>2, <2>2, <3>1, <3>2, SMTT(60)
  <2> QED
    BY <2>1, <2>2, Zenon
<1>7. Timers'
  <2> SUFFICES ASSUME NEW b \in Cpus
               PROVE  /\ \A i \in DOMAIN deadlines'[b] : Covered(b, deadlines[b][i][2])'
                      /\ quantum'[b] # None => Covered(b, quantum[b])'
    BY <1>3, Zenon DEF Timers
  <2>1. ASSUME NEW i \in DOMAIN deadlines[b]
        PROVE  Covered(b, deadlines[b][i][2])'
    <3>1. Covered(b, deadlines[b][i][2])
      BY Zenon DEF Timers
    <3>2. deadlines'[b][i][2] = CountDown(deadlines[b][i][2]) /\ deadlines[b][i][2] \in Nat
      BY <1>3, Zenon
    <3> QED
      BY <1>6, <3>1, <3>2, Zenon DEF Covered
  <2>2. ASSUME quantum'[b] # None PROVE Covered(b, quantum[b])'
    <3>1. quantum[b] \in Nat /\ Covered(b, quantum[b])
      BY <1>2, <1>4, <2>2, Zenon DEF Timers
    <3> QED
      BY <1>4, <1>6, <3>1, Zenon DEF Covered
  <2> QED
    BY <1>3, <2>1, <2>2, Zenon
<1> QED
  BY <1>5, <1>7, Zenon

(***************************************************************************)
(* The inductive invariant.                                                *)
(***************************************************************************)
IInv == TypeOK /\ Timers /\ Control /\ PushAnnounced

\* The variables the timers do not use.
Loop == /\ queue \in [Cpus -> Seq(Threads)]
        /\ idle \in [Cpus -> BOOLEAN]
        /\ running \in [Cpus -> Threads \cup {None}]
        /\ pc \in [Cpus -> {"top", "marked", "sti", "halted", "woken", "run", "enqueue",
                            "ipi", "preempted"}]
        /\ back \in [Cpus -> {"top", "sti", "woken", "run", "preempted"}]
        /\ todo \in [Cpus -> Seq(Threads)]
        /\ send \in [Cpus -> Cpus \cup {None}]
        /\ ipi \in [Cpus -> BOOLEAN]
        /\ target \in Cpus

\* The type invariant in its two parts.
LEMMA TypeParts ==
  TypeOK <=> Loop /\ TimerTypes /\ irr \in [Cpus -> BOOLEAN]
BY Zenon DEF TypeOK, Loop, TimerTypes, Entry

\* The CPUs are numbered from 0, and None is not one of them.
LEMMA CpuFacts ==
  /\ 0 \in Cpus /\ None \notin Cpus /\ Cpus \subseteq Nat
  /\ \A i \in Cpus : (i + 1) % NCpu \in Cpus
BY SchedulerAssumption DEF Cpus

\* What pushing to and popping from a run queue give.
LEMMA QueueOps ==
  ASSUME NEW s \in Seq(Threads)
  PROVE  /\ s # <<>> => Head(s) \in Threads /\ Tail(s) \in Seq(Threads)
         /\ \A x \in Threads : Append(s, x) \in Seq(Threads)
BY HeadTailProperties, AppendProperties, Zenon

\* scheduler_loop and the steps of a thread that touch no other CPU: what is queued
\* on a marked CPU stays announced, and the control state stays in order.
LEMMA LocalSteps ==
  ASSUME IInv, NEW c \in Cpus,
         \/ Dispatch(c) \/ MarkIdle(c) \/ IdleTimer(c) \/ Halt(c) \/ ClearIdle(c)
         \/ Preempt(c) \/ Yield(c) \/ Park(c) \/ \E d \in Waits : TimedPark(c, d)
  PROVE  Loop' /\ Control' /\ PushAnnounced'
<1> USE CpuFacts DEF IInv
<1>1. CASE Dispatch(c)
  <2>1. Loop'
    <3>1. Head(queue[c]) \in Threads /\ Tail(queue[c]) \in Seq(Threads)
      BY <1>1, QueueOps, Zenon DEF Dispatch, TypeOK
    <3>2. queue' \in [Cpus -> Seq(Threads)]
      BY <1>1, <3>1, Zenon DEF Dispatch, TypeOK
    <3> QED
      BY <1>1, <3>1, <3>2, Zenon DEF Dispatch, TypeOK, Loop, Goto
  <2>2. Control'
    <3>1. Head(queue[c]) \in Threads
      BY <1>1, QueueOps, Zenon DEF Dispatch, TypeOK
    <3> QED
      BY <1>1, <3>1, Zenon DEF Dispatch, TypeOK, Control, Goto
  <2>3. PushAnnounced'
    BY <1>1, Zenon DEF Dispatch, TypeOK, Control, PushAnnounced, Goto
  <2> QED
    BY <2>1, <2>2, <2>3, Zenon
<1>2. CASE MarkIdle(c)
  <2>1. Loop'
    BY <1>2, Zenon DEF MarkIdle, TypeOK, Loop, Goto, Control
  <2>2. Control'
    BY <1>2, Zenon DEF MarkIdle, TypeOK, Control, Goto
  <2>3. PushAnnounced'
    BY <1>2, ZenonT(60) DEF MarkIdle, TypeOK, Control, PushAnnounced, Goto
  <2> QED
    BY <2>1, <2>2, <2>3
<1>3. CASE IdleTimer(c)
  <2>1. Loop'
    BY <1>3, Zenon DEF IdleTimer, TypeOK, Loop, Goto, Control
  <2>2. Control'
    BY <1>3, Zenon DEF IdleTimer, TypeOK, Control, Goto
  <2>3. PushAnnounced'
    BY <1>3, Zenon DEF IdleTimer, TypeOK, Control, PushAnnounced, Goto
  <2> QED
    BY <2>1, <2>2, <2>3
<1>4. CASE Halt(c)
  <2>1. Loop'
    BY <1>4, Zenon DEF Halt, TypeOK, Loop, Goto, Control
  <2>2. Control'
    BY <1>4, Zenon DEF Halt, TypeOK, Control, Goto
  <2>3. PushAnnounced'
    BY <1>4, Zenon DEF Halt, TypeOK, Control, PushAnnounced, Goto
  <2> QED
    BY <2>1, <2>2, <2>3
<1>5. CASE ClearIdle(c)
  <2>1. Loop'
    BY <1>5, Zenon DEF ClearIdle, TypeOK, Loop, Goto, Control
  <2>2. Control'
    BY <1>5, Zenon DEF ClearIdle, TypeOK, Control, Goto
  <2>3. PushAnnounced'
    BY <1>5, Zenon DEF ClearIdle, TypeOK, Control, PushAnnounced, Goto
  <2> QED
    BY <2>1, <2>2, <2>3
<1>6. CASE Preempt(c)
  <2>1. Loop'
    <3>1. Append(queue[c], running[c]) \in Seq(Threads)
      BY <1>6, QueueOps, Zenon DEF Preempt, TypeOK, Control
    <3>2. queue' \in [Cpus -> Seq(Threads)]
      BY <1>6, <3>1, Zenon DEF Preempt, TypeOK
    <3> QED
      BY <1>6, <3>1, <3>2, Zenon DEF Preempt, TypeOK, Loop, Goto
  <2>2. Control'
    BY <1>6, Zenon DEF Preempt, TypeOK, Control, Goto
  <2>3. PushAnnounced'
    BY <1>6, Zenon DEF Preempt, TypeOK, Control, PushAnnounced, Goto
  <2> QED
    BY <2>1, <2>2, <2>3
<1>7. CASE Yield(c)
  <2>1. Loop'
    <3>1. Append(queue[c], running[c]) \in Seq(Threads)
      BY <1>7, QueueOps, Zenon DEF Yield, TypeOK, Control
    <3>2. queue' \in [Cpus -> Seq(Threads)]
      BY <1>7, <3>1, Zenon DEF Yield, TypeOK
    <3> QED
      BY <1>7, <3>1, <3>2, Zenon DEF Yield, TypeOK, Loop, Goto
  <2>2. Control'
    BY <1>7, Zenon DEF Yield, TypeOK, Control, Goto
  <2>3. PushAnnounced'
    BY <1>7, Zenon DEF Yield, TypeOK, Control, PushAnnounced, Goto
  <2> QED
    BY <2>1, <2>2, <2>3
<1>8. CASE Park(c)
  <2>1. Loop'
    BY <1>8, Zenon DEF Park, TypeOK, Loop, Goto, Control
  <2>2. Control'
    BY <1>8, Zenon DEF Park, TypeOK, Control, Goto
  <2>3. PushAnnounced'
    BY <1>8, Zenon DEF Park, TypeOK, Control, PushAnnounced, Goto
  <2> QED
    BY <2>1, <2>2, <2>3
<1>9. CASE \E d \in Waits : TimedPark(c, d)
  <2>0. /\ running' = [running EXCEPT ![c] = None] /\ pc' = [pc EXCEPT ![c] = "top"]
        /\ UNCHANGED <<queue, idle, back, todo, send, ipi, target>> /\ pc[c] = "run"
    BY <1>9, Zenon DEF TimedPark, Goto
  <2>1. Loop'
    BY <2>0, Zenon DEF TypeOK, Loop
  <2>2. Control'
    BY <2>0, Zenon DEF TypeOK, Control
  <2>3. PushAnnounced'
    BY <2>0, Zenon DEF TypeOK, PushAnnounced
  <2> QED
    BY <2>1, <2>2, <2>3
<1> QED
  BY <1>1, <1>2, <1>3, <1>4, <1>5, <1>6, <1>7, <1>8, <1>9, Zenon

\* scheduler_enqueue: the push and the test of idle are one step, and the sender
\* keeps the CPU to notify until its IPI is on the way.
LEMMA EnqueueSteps ==
  ASSUME IInv, NEW c \in Cpus, Push(c) \/ SendIpi(c)
  PROVE  Loop' /\ Control' /\ PushAnnounced'
<1> USE CpuFacts DEF IInv
<1>1. CASE Push(c)
  <2>0. /\ todo[c] # <<>> /\ send[c] = None /\ pc[c] = "enqueue"
        /\ Head(todo[c]) \in Threads /\ Tail(todo[c]) \in Seq(Threads)
    BY <1>1, QueueOps, Zenon DEF Push, TypeOK, Control
  <2>1. /\ Append(queue[target], Head(todo[c])) \in Seq(Threads)
        /\ queue' = [queue EXCEPT ![target] = Append(queue[target], Head(todo[c]))]
        /\ target' \in Cpus /\ target \in Cpus
        /\ UNCHANGED <<idle, running, ipi>>
    BY <1>1, <2>0, QueueOps, Zenon DEF Push, TypeOK
  <2>2. queue' \in [Cpus -> Seq(Threads)] /\ \A b \in Cpus \ {target} : queue'[b] = queue[b]
    BY <2>1, Zenon DEF TypeOK
  <2>3. CASE idle[target]
    <3>1. /\ send' = [send EXCEPT ![c] = target] /\ pc' = [pc EXCEPT ![c] = "ipi"]
          /\ UNCHANGED <<todo, back>>
      BY <1>1, <2>3, Zenon DEF Push, Goto
    <3>2. Loop'
      BY <2>1, <2>2, <3>1, Zenon DEF TypeOK, Loop
    <3>3. Control'
      BY <2>0, <2>1, <3>1, Zenon DEF TypeOK, Control
    <3>4. PushAnnounced'
      BY <2>0, <2>1, <2>2, <3>1, SMTT(60) DEF TypeOK, PushAnnounced
    <3> QED
      BY <3>2, <3>3, <3>4, Zenon
  <2>4. CASE ~ idle[target]
    <3>1. /\ UNCHANGED send /\ todo' = [todo EXCEPT ![c] = Tail(todo[c])]
          /\ back' = [back EXCEPT ![c] = IF Tail(todo[c]) = <<>> THEN "top" ELSE @]
          /\ pc' = [pc EXCEPT ![c] = IF Tail(todo[c]) = <<>> THEN back[c] ELSE "enqueue"]
      BY <1>1, <2>4, Zenon DEF Push, EnqueueNext, Goto
    <3>2. Loop'
      BY <2>0, <2>1, <2>2, <3>1, Zenon DEF TypeOK, Loop
    <3>3. Control'
      BY <2>0, <2>1, <3>1, Zenon DEF TypeOK, Control
    <3>4. PushAnnounced'
      <4>1. \A b \in Cpus : pc'[b] = "marked" => pc[b] = "marked" /\ b # target
        BY <2>0, <2>1, <2>4, <3>1, Zenon DEF TypeOK, Control
      <4> QED
        BY <2>1, <2>2, <3>1, <4>1, Zenon DEF PushAnnounced
    <3> QED
      BY <3>2, <3>3, <3>4, SMTT(60)
  <2> QED
    BY <2>3, <2>4, Zenon
<1>2. CASE SendIpi(c)
  <2>0. /\ todo[c] # <<>> /\ send[c] \in Cpus
        /\ Head(todo[c]) \in Threads /\ Tail(todo[c]) \in Seq(Threads)
    BY <1>2, QueueOps, Zenon DEF SendIpi, TypeOK, Control
  <2>1. Loop'
    BY <1>2, <2>0, Zenon DEF SendIpi, EnqueueNext, TypeOK, Loop, Goto
  <2>2. Control'
    BY <1>2, <2>0, Zenon DEF SendIpi, EnqueueNext, TypeOK, Control, Goto
  <2>3. PushAnnounced'
    BY <1>2, <2>0, Zenon DEF SendIpi, EnqueueNext, TypeOK, Control, PushAnnounced, Goto
  <2> QED
    BY <2>1, <2>2, <2>3
<1> QED
  BY <1>1, <1>2, Zenon

\* The interrupts and the wake, which hand threads to the enqueuer.
LEMMA InterruptSteps ==
  ASSUME IInv, NEW c \in Cpus, TakeIpi(c) \/ TakeTimer(c) \/ \E t \in Threads : Wake(c, t)
  PROVE  Loop' /\ Control' /\ PushAnnounced'
<1> USE CpuFacts DEF IInv
<1>1. CASE TakeIpi(c)
  <2>1. Loop'
    BY <1>1, Zenon DEF TakeIpi, Resumed, InterruptsOn, TypeOK, Loop, Goto, Control
  <2>2. Control'
    BY <1>1, Zenon DEF TakeIpi, Resumed, InterruptsOn, TypeOK, Control, Goto
  <2>3. PushAnnounced'
    BY <1>1, Zenon DEF TakeIpi, Resumed, InterruptsOn, TypeOK, Control, PushAnnounced, Goto
  <2> QED
    BY <2>1, <2>2, <2>3, Zenon
<1>2. CASE TakeTimer(c)
  <2> DEFINE D == deadlines[c]
             n == Least({Cardinality({i \in DOMAIN D : D[i][2] = 0}), IrqBatch})
             P == [i \in 1 .. n |-> D[i][1]]
             to == IF quantum[c] = 0 /\ pc[c] = "run" THEN "preempted" ELSE Resumed(c)
  <2>1. n \in 0 .. Len(D) /\ P \in Seq(Threads) /\ (n # 0 => P # <<>>)
    <3>1. D \in Seq(Entry) /\ Sorted(D)
      BY Zenon DEF Timers, Entry, TypeOK
    <3>2. n \in 0 .. Len(D)
      BY <3>1, BatchBound, Zenon
    <3> HIDE DEF D, n
    <3> QED
      BY <3>1, <3>2, PoppedFacts, Zenon
  <2>2. /\ pc[c] \in InterruptsOn
        /\ todo' = [todo EXCEPT ![c] = P]
        /\ back' = [back EXCEPT ![c] = IF n = 0 THEN @ ELSE to]
        /\ pc' = [pc EXCEPT ![c] = IF n = 0 THEN to ELSE "enqueue"]
        /\ UNCHANGED <<queue, idle, running, send, ipi, target>>
    BY <1>2, Zenon DEF TakeTimer, Goto
  <2>3. /\ to \in {"top", "sti", "woken", "run", "preempted"}
        /\ to \in {"run", "preempted"} => running[c] \in Threads
    BY <2>2, Zenon DEF Resumed, InterruptsOn, Control
  <2> HIDE DEF to, n, P
  <2>4. Loop'
    BY <2>1, <2>2, <2>3, Zenon DEF TypeOK, Loop
  <2>5. Control'
    BY <2>1, <2>2, <2>3, Zenon DEF TypeOK, Control, InterruptsOn
  <2>6. PushAnnounced'
    BY <2>1, <2>2, <2>3, Zenon DEF TypeOK, PushAnnounced
  <2> QED
    BY <2>4, <2>5, <2>6
<1>3. CASE \E t \in Threads : Wake(c, t)
  <2>0. ASSUME NEW t \in Threads PROVE <<t>> \in Seq(Threads)
    OBVIOUS
  <2>1. Loop'
    <3>1. PICK t \in Threads : Wake(c, t)
      BY <1>3, Zenon
    <3>2. todo' \in [Cpus -> Seq(Threads)]
      BY <2>0, <3>1, Zenon DEF Wake, TypeOK
    <3> QED
      BY <3>1, <3>2, Zenon DEF Wake, TypeOK, Loop, Goto
  <2>2. Control'
    BY <1>3, SMTT(60) DEF Wake, TypeOK, Control, Goto
  <2>3. PushAnnounced'
    BY <1>3 DEF Wake, TypeOK, Control, PushAnnounced, Goto
  <2> QED
    BY <2>1, <2>2, <2>3
<1> QED
  BY <1>1, <1>2, <1>3, Zenon

\* Every step keeps the invariant of the timers.
LEMMA TimerSteps ==
  ASSUME IInv, Next
  PROVE  Timers' /\ TimerTypes' /\ irr' \in [Cpus -> BOOLEAN]
<1> USE DEF IInv
<1>0. TimerTypes /\ irr \in [Cpus -> BOOLEAN]
  BY TypeParts, Zenon
<1>1. ASSUME UNCHANGED timers PROVE Timers' /\ TimerTypes' /\ irr' \in [Cpus -> BOOLEAN]
  BY <1>0, <1>1, TimersKept, Zenon DEF TimerTypes, timers
<1>2. CASE Tick
  BY <1>2, TickTimers, Zenon
<1>3. ASSUME NEW c \in Cpus, KernelStep(c) \/ UserStep(c) \/ TakeIpi(c) \/ TakeTimer(c)
      PROVE  Timers' /\ TimerTypes' /\ irr' \in [Cpus -> BOOLEAN]
  <2>0. deadlines[c] \in Seq(Entry) /\ Sorted(deadlines[c]) /\ quantum[c] \in Nat \cup {None}
    BY <1>0, Zenon DEF Timers, TimerTypes
  <2>1. CASE Dispatch(c)
    <3>1. deadlines' = [deadlines EXCEPT ![c] = deadlines[c]]
      BY <1>0, <2>1, Zenon DEF Dispatch, TimerTypes
    <3>2. Quantum \in Nat \cup {None} /\ irr' = irr
      BY <2>1, SchedulerAssumption, Zenon DEF Dispatch
    <3>3. /\ quantum' = [quantum EXCEPT ![c] = Quantum]
          /\ shot' = [shot EXCEPT ![c] = Program(Quantum, deadlines[c])]
      BY <2>1, Zenon DEF Dispatch
    <3> QED
      BY <1>0, <2>0, <3>1, <3>2, <3>3, Reprogrammed, Zenon DEF TimerTypes
  <2>2. CASE IdleTimer(c)
    <3>1. deadlines' = [deadlines EXCEPT ![c] = deadlines[c]]
      BY <1>0, <2>2, Zenon DEF IdleTimer, TimerTypes
    <3>2. /\ quantum' = [quantum EXCEPT ![c] = None]
          /\ shot' = [shot EXCEPT ![c] = Program(None, deadlines[c])] /\ irr' = irr
      BY <2>2, Zenon DEF IdleTimer
    <3> QED
      BY <1>0, <2>0, <3>1, <3>2, Reprogrammed, Zenon DEF TimerTypes
  <2>3. CASE TakeTimer(c)
    <3> DEFINE D == deadlines[c]
               n == Least({Cardinality({i \in DOMAIN D : D[i][2] = 0}), IrqBatch})
               rest == SubSeq(D, n + 1, Len(D))
               q == IF quantum[c] = 0 THEN None ELSE quantum[c]
    <3>1. /\ irr' = [irr EXCEPT ![c] = FALSE]
          /\ quantum' = [quantum EXCEPT ![c] = q]
          /\ deadlines' = [deadlines EXCEPT ![c] = rest]
          /\ shot' = [shot EXCEPT ![c] = Program(quantum'[c], rest)]
      BY <2>3, Zenon DEF TakeTimer
    <3>2. quantum'[c] = q /\ q \in Nat \cup {None}
      BY <1>0, <2>0, <3>1, Zenon DEF TimerTypes
    <3>3. rest \in Seq(Entry) /\ Sorted(rest)
      BY <2>0, BatchBound, PoppedFacts, Zenon
    <3>4. irr' \in [Cpus -> BOOLEAN] /\ \A b \in Cpus \ {c} : irr'[b] = irr[b]
      BY <1>0, <3>1, Zenon
    <3> HIDE DEF rest, q
    <3> QED
      BY <3>1, <3>2, <3>3, <3>4, Reprogrammed, Zenon DEF TimerTypes
  <2>4. CASE \E d \in Waits : TimedPark(c, d)
    <3>1. irr' = irr
      BY <2>4, Zenon DEF TimedPark
    <3> QED
      BY <1>0, <2>4, <3>1, TimedParkTimers, Zenon
  <2>5. CASE \E t \in Threads : Wake(c, t)
    <3>1. irr' = irr
      BY <2>5, Zenon DEF Wake
    <3> QED
      BY <1>0, <2>5, <3>1, WakeTimers, Zenon
  <2>6. CASE \/ MarkIdle(c) \/ Halt(c) \/ ClearIdle(c) \/ Push(c) \/ SendIpi(c) \/ Preempt(c)
             \/ Yield(c) \/ Park(c) \/ TakeIpi(c)
    <3>1. UNCHANGED timers
      BY <2>6, Zenon DEF MarkIdle, Halt, ClearIdle, Push, SendIpi, Preempt, Yield, Park, TakeIpi
    <3> QED
      BY <1>1, <3>1, Zenon
  <2> QED
    BY <1>3, <2>1, <2>2, <2>3, <2>4, <2>5, <2>6, Zenon DEF KernelStep, UserStep
<1> QED
  BY <1>2, <1>3, Zenon DEF Next

\* The invariant holds at boot.
LEMMA InitIInv ==
  Init => IInv
<1> SUFFICES ASSUME Init PROVE IInv
  BY Zenon
<1>1. TypeOK
  BY CpuFacts, SchedulerAssumption, SMTT(60) DEF Init, TypeOK
<1>2. Timers
  BY DEF Init, Timers, Sorted
<1>3. Control /\ PushAnnounced
  BY CpuFacts, Zenon DEF Init, Control, PushAnnounced
<1> QED
  BY <1>1, <1>2, <1>3, Zenon DEF IInv

\* Every step preserves the invariant.
LEMMA NextIInv ==
  IInv /\ [Next]_vars => IInv'
<1> SUFFICES ASSUME IInv, [Next]_vars PROVE IInv'
  BY Zenon
<1>1. CASE Next
  <2>1. Timers' /\ TimerTypes' /\ irr' \in [Cpus -> BOOLEAN]
    BY <1>1, TimerSteps, Zenon
  <2>2. Loop' /\ Control' /\ PushAnnounced'
    <3>1. CASE Tick
      BY <3>1, Zenon DEF Tick, IInv, TypeOK, Loop, Control, PushAnnounced
    <3>2. ASSUME NEW c \in Cpus, KernelStep(c) \/ UserStep(c) \/ TakeIpi(c) \/ TakeTimer(c)
          PROVE  Loop' /\ Control' /\ PushAnnounced'
      BY <3>2, LocalSteps, EnqueueSteps, InterruptSteps, Zenon DEF KernelStep, UserStep
    <3> QED
      BY <1>1, <3>1, <3>2, Zenon DEF Next
  <2>3. TypeOK'
    BY <2>1, <2>2, TypeParts, Zenon DEF Loop, TypeOK, TimerTypes, Entry
  <2> QED
    BY <2>1, <2>2, <2>3, Zenon DEF IInv
<1>2. CASE UNCHANGED vars
  BY <1>2, Zenon DEF vars, IInv, TypeOK, Timers, Covered, Control, PushAnnounced
<1> QED
  BY <1>1, <1>2, Zenon

\* scheduler_enqueue and scheduler_loop: a thread pushed to a CPU that has marked
\* itself idle is announced to it, for any number of CPUs and threads.
THEOREM PushIsAnnounced == Spec => []PushAnnounced
<1>1. IInv => PushAnnounced
  BY Zenon DEF IInv
<1> QED
  BY InitIInv, NextIInv, <1>1, PTL DEF Spec

\* timer.c: the one APIC shot of a CPU always covers its quantum and every deadline
\* armed on it, for any batch cap and any range of the APIC counter; with it, the
\* type invariant.
THEOREM ShotCovers == Spec => []ShotCoversDeadlines
<1>1. IInv => ShotCoversDeadlines
  BY Zenon DEF IInv, Timers, ShotCoversDeadlines
<1> QED
  BY InitIInv, NextIInv, <1>1, PTL DEF Spec

=============================================================================
