----------------------------- MODULE IrqProofs -----------------------------
(***************************************************************************)
(* The safety properties of Irq.tla for every number of rings, routes and  *)
(* grants: rights only shrink, a revoked grant stays revoked, a freed ring *)
(* is quiet and no interrupt is stranded.                                  *)
(***************************************************************************)
EXTENDS Irq, TLAPS

Kinds == {"devmem", "irq", "iommu"}
Owing == {"ack", "none"}
Ops == {"subgrant", "revoke", "claim", "msi", "release"} \cup Owing
Drains == {"exec", "complete", "replay"}

\* The range of a memory grant, as subgrant leaves it.
Range(x) ==
    /\ x.right.base \in Nat /\ x.right.len \in Nat
    /\ x.right.base + x.right.len <= AddrMod

GrantShape(x) ==
    /\ x = [type |-> x.type, parent |-> x.parent, depth |-> x.depth, wild |-> x.wild,
            dead |-> x.dead, right |-> x.right]
    /\ x.depth \in 0 .. MaxDepth /\ x.wild \in BOOLEAN /\ x.dead \in BOOLEAN
    /\ x.parent \in 0 .. GrantMax

\* A grant in the tree: a wildcard root, or below one that exists and within it.
Placed(x) ==
    /\ x.type \in Kinds
    /\ x.wild => x.parent = 0
    /\ ~x.wild => /\ x.parent \in Grant /\ grant[x.parent] # NoGrant
                  /\ Within(x, grant[x.parent])
    /\ ~x.wild /\ x.type = "devmem" => Range(x)

\* The grants: ids above issued are unused, the others are placed or deleted.
GrantInv ==
    /\ issued \in 0 .. GrantMax
    /\ grant = [g \in Grant |-> grant[g]]
    /\ \A g \in Grant : /\ GrantShape(grant[g])
                        /\ g > issued => grant[g] = NoGrant
                        /\ grant[g] # NoGrant => Placed(grant[g])

RouteRec == [ring : Ring \cup {Nil}, raised : Nat, acked : Nat, ev : NoEvent .. Slots,
             gen : 0 .. GenMod - 1, allocated : BOOLEAN]
EventRec == [type : {"irq"}, route : Route, gen : 0 .. GenMod - 1, seq : Nat] \cup {Done}

Typed ==
    /\ route \in [Route -> RouteRec] /\ masked \in [Pin -> BOOLEAN]
    /\ line \in [Route -> BOOLEAN] /\ irr \in [Route -> BOOLEAN] /\ raises \in [Route -> Nat]
    /\ cq \in [Ring -> Seq(EventRec)] /\ \A k \in Ring : Len(cq[k]) <= Slots
    /\ rung \in [Ring -> BOOLEAN]
    /\ client = [k \in Ring |-> client[k]]
    /\ \A r \in Msi : route[r].ring # Nil => route[r].allocated

\* What a client is doing: nothing, gone, owing what the last CQE asks for, or in
\* the drain of the command it chose.
Doing(k, c) ==
    /\ \/ c \in {Ready, Gone} \/ c.op \in Owing
       \/ c.op \in Ops /\ umem.at \in Drains /\ umem.ring = k
    /\ c.op \in {"ack", "release"} => c.a \in Route
    /\ c.op = "ack" => c.c \in Nat

\* The drain or teardown that holds g_umem.
Draining ==
    /\ umem = [at |-> umem.at, ring |-> umem.ring, cmd |-> umem.cmd, left |-> umem.left]
    /\ umem.at \in Drains \cup {"destroy"}
    /\ umem.ring \in Ring /\ umem.cmd = client[umem.ring] /\ umem.left \subseteq Route
    /\ umem.at \in Drains => umem.cmd.op \in Ops
    /\ umem.at = "destroy" => umem.cmd = Gone
    /\ umem.at = "exec" /\ umem.cmd.op = "subgrant"
          => umem.cmd.req \in Request[grant[umem.cmd.a].type]

Control ==
    /\ \A k \in Ring : Doing(k, client[k])
    /\ umem = Idle \/ Draining

\* A ring that is gone has no claim and no CQE once its teardown has passed.
Freed ==
    \A k \in Ring : client[k] = Gone =>
        \/ umem.at = "destroy" /\ umem.ring = k /\ Claims(k) \subseteq umem.left
        \/ Claims(k) = {} /\ cq[k] = <<>>

\* A route with an interrupt to announce that is not in its CQ although there is
\* room will be replayed by the drain of its ring, or by the one its client owes.
Stuck(r, k) == route[r].raised # route[r].acked /\ route[r].ev <= 0 /\ ~Full(cq[k])
InDrain(k) == umem.at \in Drains /\ umem.ring = k
Announced ==
    \A r \in Route, k \in Ring :
        route[r].ring = k /\ client[k] # Gone /\ Stuck(r, k) =>
            \/ InDrain(k) /\ (umem.at = "replay" => r \in umem.left)
            \/ ~InDrain(k) /\ ~rung[k]

\* The sequence numbers on their way to a pin's acked are its own claim's.
EventOf(r, k, i) == cq[k][i].type = "irq" /\ cq[k][i].route = r
Sequence(r, k) ==
    /\ route[r].acked <= route[r].raised
    /\ \A i \in DOMAIN cq[k] : EventOf(r, k, i) => cq[k][i].seq <= route[r].raised
    /\ client[k].op = "ack" /\ client[k].a = r => client[k].c <= route[r].raised
    /\ r \in Level /\ masked[r] => route[r].raised # route[r].acked
Numbered ==
    /\ \A r \in Pin, k \in Ring \ Careless :
          route[r].ring = k /\ client[k] # Gone => Sequence(r, k)
    /\ \A k \in Ring \ Careless :
          umem.at = "exec" /\ umem.ring = k /\ umem.cmd.op = "claim" /\ Unread(k, umem.cmd.a)
             => route[grant[umem.cmd.a].right[1]].ring # Nil

\* The inductive invariant.
RingInv == Typed /\ Control /\ Freed /\ Announced /\ Numbered
IInv == GrantInv /\ RingInv

-----------------------------------------------------------------------------
\* The grant tree.

\* Chain over any tree f, so that it can be said of this state and of the next.
Above(f, S) == \A x \in S : f[x].parent # 0 => f[x].parent \in S
ChainIn(f, g) == {a \in Grant : \A S \in SUBSET Grant : g \in S /\ Above(f, S) => a \in S}
Parents(f) == \A x \in Grant : f[x].parent \in 0 .. GrantMax

\* token_resolve walks the chain of the current tree.
LEMMA ChainIs ==
    ASSUME NEW g
    PROVE  Chain(g) = ChainIn(grant, g) /\ Chain(g)' = ChainIn(grant', g)
BY Zenon DEF Chain, ChainIn, Upward, Above, Grant

\* What a chain is: g, closed under parents, and in every set that is both.
LEMMA ChainFacts ==
    ASSUME NEW f, Parents(f), NEW g \in Grant
    PROVE  /\ g \in ChainIn(f, g) /\ ChainIn(f, g) \subseteq Grant
           /\ Above(f, ChainIn(f, g))
           /\ \A S \in SUBSET Grant : g \in S /\ Above(f, S) => ChainIn(f, g) \subseteq S
<1>1. \A S \in SUBSET Grant : g \in S /\ Above(f, S) => ChainIn(f, g) \subseteq S
  BY Zenon DEF ChainIn
<1>2. g \in ChainIn(f, g) /\ ChainIn(f, g) \subseteq Grant
  BY Zenon DEF ChainIn
<1>3. ASSUME NEW x \in ChainIn(f, g), f[x].parent # 0 PROVE f[x].parent \in ChainIn(f, g)
  <2>1. f[x].parent \in Grant
    BY <1>2, <1>3, IrqAssumption DEF Parents, Grant
  <2>2. ASSUME NEW S \in SUBSET Grant, g \in S, Above(f, S) PROVE f[x].parent \in S
    BY <2>2, <1>3, <1>1, Zenon DEF Above
  <2> QED
    BY <2>1, <2>2, Zenon DEF ChainIn
<1> QED
  BY <1>1, <1>2, <1>3, Zenon DEF Above

\* The tree's parents are ids, before and after a step.
LEMMA ParentsOk ==
    /\ GrantInv => Parents(grant)
    /\ GrantInv' => Parents(grant')
BY Zenon DEF GrantInv, GrantShape, Parents, Grant

\* Within is transitive below a wildcard or a range.
LEMMA WithinTrans ==
    ASSUME NEW x, NEW y, NEW z, Within(x, y), Within(y, z), ~y.wild
    PROVE  Within(x, z)
BY Zenon DEF Within

\* The subgrant narrowing, over a whole chain: every grant lies within each grant
\* above it.
LEMMA Shrinks ==
    ASSUME GrantInv
    PROVE  RightsOnlyShrink
<1> SUFFICES ASSUME NEW g \in Grant, grant[g] # NoGrant
             PROVE  /\ \A a \in Chain(g) : Within(grant[g], grant[a])
                    /\ grant[g].type = "devmem" /\ ~grant[g].wild
                          => grant[g].right.base + grant[g].right.len <= AddrMod
  BY Zenon DEF RightsOnlyShrink
<1> DEFINE S == {a \in Grant : grant[a] # NoGrant /\ Within(grant[g], grant[a])}
<1>1. g \in S
  BY Zenon DEF Within
<1>2. ASSUME NEW x \in S, grant[x].parent # 0 PROVE grant[x].parent \in S
  <2>1. x \in Grant /\ grant[x] # NoGrant /\ Within(grant[g], grant[x]) /\ Placed(grant[x])
    BY Zenon DEF GrantInv
  <2>2. ~grant[x].wild
    BY <2>1, <1>2, Zenon DEF Placed
  <2> QED
    BY <2>1, <2>2, WithinTrans, Zenon DEF Placed
<1>3. S \in SUBSET Grant /\ Above(grant, S)
  BY <1>2, Zenon DEF Above
<1>4. Chain(g) \subseteq S
  BY <1>1, <1>3, ChainFacts, ChainIs, ParentsOk
<1> HIDE DEF S
<1>5. \A a \in Chain(g) : Within(grant[g], grant[a])
  BY <1>4, Zenon DEF S
<1> QED
  BY <1>5, Zenon DEF GrantInv, Placed, Range

\* token_resolve accepts grants that are in the tree.
LEMMA Resolved ==
    ASSUME GrantInv, NEW g, Exists(g)
    PROVE  g \in Grant /\ grant[g] # NoGrant /\ Placed(grant[g]) /\ GrantShape(grant[g])
<1>1. g \in Grant /\ grant[g] # NoGrant
  BY IrqAssumption, SMTT(60) DEF GrantInv, Exists, Grant
<1> QED
  BY <1>1, Zenon DEF GrantInv

\* grant_new below a live parent: the new grant is the only change, it gets a new
\* id, and it is placed when its right is within its parent's.
LEMMA GrantNew ==
    ASSUME GrantInv, NEW g, Exists(g), MayGrant(g), NEW right,
           grant_new(g, grant[g].type, right),
           NEW x, x = [type |-> grant[g].type, parent |-> g, depth |-> grant[g].depth + 1,
                       wild |-> FALSE, dead |-> FALSE, right |-> right],
           Within(x, grant[g]), x.type = "devmem" => Range(x)
    PROVE  GrantInv'
<1>g. /\ g \in Grant /\ grant[g] # NoGrant /\ Placed(grant[g]) /\ GrantShape(grant[g])
      /\ issued + 1 \in Grant /\ issued \in Nat
  BY Resolved, IrqAssumption, SMTT(60) DEF GrantInv, MayGrant, Grant
<1>n. grant[issued + 1] = NoGrant
  BY <1>g DEF GrantInv
<1>1. /\ issued' \in 0 .. GrantMax
      /\ grant' = [h \in Grant |-> grant'[h]]
      /\ grant'[issued + 1] = x
      /\ \A h \in Grant \ {issued + 1} : grant'[h] = grant[h]
      /\ issued' = issued + 1
  <2>1. grant = [h \in Grant |-> grant[h]]
    BY Zenon DEF GrantInv
  <2>2. grant' = [grant EXCEPT ![issued + 1] = x] /\ issued' = issued + 1
    BY Zenon DEF grant_new
  <2>3. issued' \in 0 .. GrantMax
    BY <2>2, <1>g, IrqAssumption, SMTT(60) DEF Grant
  <2> QED
    BY <2>1, <2>2, <2>3, <1>g, Zenon
<1>2. GrantShape(x)
  <2>1. grant[g].depth + 1 \in 0 .. MaxDepth
    BY <1>g, IrqAssumption, SMTT(60) DEF MayGrant, GrantShape
  <2> QED
    BY <2>1, <1>g, IrqAssumption, SMTT(60) DEF GrantShape, Grant
<1>3. /\ x.parent = g /\ x.type \in Kinds /\ ~x.wild /\ g # issued + 1
      /\ grant'[g] = grant[g]
  BY <1>1, <1>g, <1>n DEF Placed
<1>4. Placed(x)'
  <2>1. x' = x
    BY Zenon
  <2> QED
    BY <1>3, <1>g, IrqAssumption, Zenon DEF Placed, Range, Within
<1>5. ASSUME NEW h \in Grant \ {issued + 1}
      PROVE  /\ GrantShape(grant[h])
             /\ h > issued' => grant[h] = NoGrant
             /\ grant[h] # NoGrant => Placed(grant[h])'
  <2>1. GrantShape(grant[h]) /\ (h > issued' => grant[h] = NoGrant)
    BY <1>1, <1>g DEF GrantInv, Grant
  <2>2. ASSUME grant[h] # NoGrant PROVE Placed(grant[h])'
    <3> PICK y : y = grant[h]
      BY Zenon
    <3>1. Placed(y) /\ grant'[h] = y
      BY <2>2, <1>1, Zenon DEF GrantInv
    <3>2. ~y.wild => y.parent # issued + 1
      BY <3>1, <1>n, Zenon DEF Placed
    <3>3. ~y.wild => grant'[y.parent] = grant[y.parent]
      BY <3>1, <3>2, <1>1, Zenon DEF Placed
    <3> QED
      BY <3>1, <3>3, Zenon DEF Placed, Range, Within
  <2> QED
    BY <2>1, <2>2, Zenon
<1>6. ASSUME NEW h \in Grant
      PROVE  /\ GrantShape(grant[h])'
             /\ (h > issued => grant[h] = NoGrant)'
             /\ (grant[h] # NoGrant => Placed(grant[h]))'
  <2>1. CASE h = issued + 1
    BY <2>1, <1>1, <1>2, <1>4, <1>g DEF GrantShape
  <2>2. CASE h # issued + 1
    BY <2>2, <1>1, <1>5, Zenon DEF GrantShape
  <2> QED
    BY <2>1, <2>2, Zenon
<1> QED
  BY <1>1, <1>6, Zenon DEF GrantInv, Grant

\* subgrant: what it allows is within the parent's right.
LEMMA Attenuates ==
    ASSUME GrantInv, NEW g, Exists(g), NEW q \in Request[grant[g].type],
           Allowed(grant[g], q),
           NEW x, x = [type |-> grant[g].type, parent |-> g, depth |-> grant[g].depth + 1,
                       wild |-> FALSE, dead |-> FALSE, right |-> RightOf(grant[g], q)]
    PROVE  Within(x, grant[g]) /\ (x.type = "devmem" => Range(x))
<1> PICK y : y = grant[g]
  BY Zenon
<1>g. Placed(y) /\ GrantShape(y)
  BY Resolved, Zenon
<1>1. CASE y.type = "devmem"
  <2>1. DevmemOk(y, q) /\ x.right = DevmemRight(y, q) /\ x.type = "devmem"
    BY <1>1, Zenon DEF Allowed, RightOf
  <2> PICK b, n, f : x.right = [base |-> b, len |-> n, flags |-> f]
                     /\ b = Param(q, "p0", IF y.wild THEN 0 ELSE y.right.base)
                     /\ n = Param(q, "p1", IF y.wild THEN 0 ELSE y.right.len)
    BY <2>1, Zenon DEF DevmemRight
  <2>q. /\ "p0" \in q.present => q["p0"] \in Nat
        /\ "p1" \in q.present => q["p1"] \in Nat
    <3>1. q \in Request["devmem"]
      BY <1>1, Zenon
    <3> QED
      BY <3>1, RequestAssumption, Zenon
  <2>y. ~y.wild => y.right.base \in Nat /\ y.right.len \in Nat
    BY <1>1, <1>g, Zenon DEF Placed, Range
  <2>2. b \in Nat /\ n \in Nat
    <3>1. CASE y.wild
      BY <3>1, <2>q, Zenon DEF Param
    <3>2. CASE ~y.wild
      BY <3>2, <2>q, <2>y, Zenon DEF Param
    <3> QED
      BY <3>1, <3>2, Zenon
  <2>3. b + n < AddrMod
    BY <2>1, <2>2, IrqAssumption, SMTT(60) DEF DevmemOk, add_overflows
  <2>4. ~y.wild => /\ y.right.base <= b /\ b + n <= y.right.base + y.right.len
                   /\ f \subseteq y.right.flags
    BY <2>1, SMTT(60) DEF DevmemOk
  <2>5. ~y.wild => b .. b + n - 1 \subseteq y.right.base .. y.right.base + y.right.len - 1
    BY <2>2, <2>4, <2>y
  <2> QED
    BY <2>1, <2>2, <2>3, <2>4, <2>5, <1>1, IrqAssumption DEF Within, Range
<1>2. CASE y.type = "irq"
  BY <1>2, Zenon DEF RightOf, IrqRight, Within
<1>3. CASE y.type = "iommu"
  BY <1>3, Zenon DEF RightOf, Allowed, IommuOk, Within
<1> QED
  BY <1>1, <1>2, <1>3, <1>g, Zenon DEF Placed, Kinds

\* A subgrant keeps the tree, whether it is allowed or refused.
LEMMA SubgrantInv ==
    ASSUME GrantInv, NEW g, Exists(g), MayGrant(g), NEW q \in Request[grant[g].type],
           subgrant(g, q)
    PROVE  GrantInv'
<1>1. CASE Allowed(grant[g], q)
  <2> PICK x : x = [type |-> grant[g].type, parent |-> g, depth |-> grant[g].depth + 1,
                    wild |-> FALSE, dead |-> FALSE, right |-> RightOf(grant[g], q)]
    BY Zenon
  <2>1. Within(x, grant[g]) /\ (x.type = "devmem" => Range(x))
    BY <1>1, Attenuates, Zenon
  <2>2. grant_new(g, grant[g].type, RightOf(grant[g], q))
    BY <1>1, Zenon DEF subgrant
  <2> QED
    BY <2>1, <2>2, GrantNew, Zenon
<1>2. CASE ~Allowed(grant[g], q)
  <2>1. grant' = grant /\ issued' = issued + 1 /\ issued' \in 0 .. GrantMax
    BY <1>2, IrqAssumption DEF subgrant, MayGrant, GrantInv
  <2>2. ASSUME NEW h \in Grant
        PROVE  /\ GrantShape(grant[h])'
               /\ (h > issued => grant[h] = NoGrant)'
               /\ (grant[h] # NoGrant => Placed(grant[h]))'
    <3>1. h > issued' => h > issued
      BY <2>1 DEF GrantInv, Grant
    <3>2. grant'[h] # NoGrant => Placed(grant[h])'
      BY <2>1, Zenon DEF GrantInv, Placed, Within, Range
    <3> QED
      BY <3>1, <3>2, <2>1, Zenon DEF GrantInv, GrantShape
  <2> QED
    BY <2>1, <2>2, Zenon DEF GrantInv, Grant
<1> QED
  BY <1>1, <1>2, Zenon

\* A revocation keeps the tree: it deletes a grant that is nobody's parent.
LEMMA RevokeInv ==
    ASSUME GrantInv, NEW g, Exists(g), revoke_step(g)
    PROVE  GrantInv'
<1>g. g \in Grant /\ grant[g] # NoGrant /\ Placed(grant[g]) /\ GrantShape(grant[g])
  BY Resolved, Zenon
<1> PICK leaf \in Descent(g) :
      /\ Leaf(leaf)
      /\ grant' = [[grant EXCEPT ![g].dead = TRUE] EXCEPT ![leaf] = NoGrant]
  BY Zenon DEF revoke_step
<1>l. leaf \in Grant /\ issued' = issued
  BY Zenon DEF Descent, revoke_step
<1>1. /\ grant' = [h \in Grant |-> grant'[h]]
      /\ grant'[leaf] = NoGrant
      /\ g # leaf => grant'[g] = [grant[g] EXCEPT !.dead = TRUE]
      /\ \A h \in Grant \ {g, leaf} : grant'[h] = grant[h]
  <2>1. grant = [h \in Grant |-> grant[h]]
    BY Zenon DEF GrantInv
  <2> QED
    BY <2>1, <1>g, <1>l, Zenon
<1>2. GrantShape(NoGrant)
  BY IrqAssumption DEF GrantShape, NoGrant
<1>3. ASSUME NEW h \in Grant, h # leaf
      PROVE  /\ grant'[h].type = grant[h].type /\ grant'[h].parent = grant[h].parent
             /\ grant'[h].wild = grant[h].wild /\ grant'[h].right = grant[h].right
             /\ GrantShape(grant'[h])
             /\ grant[h] = NoGrant => grant'[h] = NoGrant
  <2> PICK x, y : x = grant[h] /\ y = grant'[h]
    BY Zenon
  <2>1. GrantShape(x)
    BY <1>3, Zenon DEF GrantInv
  <2>2. CASE h = g
    <3>1. y = [x EXCEPT !.dead = TRUE] /\ x # NoGrant
      BY <2>2, <1>3, <1>1, <1>g, Zenon
    <3> QED
      BY <3>1, <2>1, ZenonT(60) DEF GrantShape
  <2>3. CASE h # g
    BY <2>1, <2>3, <1>3, <1>1, Zenon
  <2> QED
    BY <2>2, <2>3, Zenon
<1>4. ASSUME NEW h \in Grant, h # leaf, grant'[h] # NoGrant PROVE Placed(grant[h])'
  <2> PICK x, y : x = grant[h] /\ y = grant'[h]
    OBVIOUS
  <2>1. /\ Placed(x) /\ y.type = x.type /\ y.parent = x.parent /\ y.wild = x.wild
        /\ y.right = x.right /\ GrantShape(x) /\ GrantShape(y)
    BY <1>3, <1>4, Zenon DEF GrantInv
  <2>2. ~x.wild => x.parent \in Grant \ {leaf}
    BY <2>1, Zenon DEF Placed, Leaf
  <2>3. ASSUME ~x.wild
        PROVE  /\ grant'[x.parent] # NoGrant
               /\ grant'[x.parent].type = grant[x.parent].type
               /\ grant'[x.parent].wild = grant[x.parent].wild
               /\ grant'[x.parent].right = grant[x.parent].right
    <3> PICK p : p = x.parent
      BY Zenon
    <3>1. p \in Grant \ {leaf} /\ grant[p] # NoGrant /\ Placed(grant[p])
      BY <2>1, <2>2, <2>3, Zenon DEF Placed, GrantInv
    <3>2. /\ grant'[p].type = grant[p].type /\ grant'[p].wild = grant[p].wild
          /\ grant'[p].right = grant[p].right
      <4> PICK u, v : u = grant[p] /\ v = grant'[p]
        BY Zenon
      <4>1. v.type = u.type /\ v.wild = u.wild /\ v.right = u.right
        BY <3>1, <1>3, ZenonT(60)
      <4> QED
        BY <4>1, Zenon
    <3>3. grant'[p] # NoGrant
      BY <3>1, <3>2 DEF Placed, Kinds, NoGrant
    <3> QED
      BY <3>2, <3>3, Zenon
  <2>4. Placed(y)'
    BY <2>1, <2>2, <2>3, Zenon DEF Placed, Within, Range
  <2> QED
    BY <2>4, Zenon
<1>5. ASSUME NEW h \in Grant
      PROVE  /\ GrantShape(grant[h])'
             /\ (h > issued => grant[h] = NoGrant)'
             /\ (grant[h] # NoGrant => Placed(grant[h]))'
  <2>1. CASE h = leaf
    BY <2>1, <1>1, <1>2, Zenon DEF GrantShape
  <2>2. CASE h # leaf
    <3> PICK x, y : x = grant[h] /\ y = grant'[h]
      OBVIOUS
    <3>1. GrantShape(y) /\ (x = NoGrant => y = NoGrant)
      BY <2>2, <1>3, Zenon
    <3>2. h > issued' => x = NoGrant
      BY <1>l, Zenon DEF GrantInv
    <3> QED
      BY <3>1, <3>2, <2>2, <1>4, Zenon DEF GrantShape
  <2> QED
    BY <2>1, <2>2, Zenon
<1> QED
  BY <1>1, <1>5, <1>l, Zenon DEF GrantInv, Grant

\* A chain only loses what a step gives another parent: if none of the grants now
\* above g has, the old chain is in the new one.
LEMMA ChainKept ==
    ASSUME GrantInv, GrantInv', NEW g \in Grant,
           \A x \in ChainIn(grant', g) :
              grant[x].parent # 0 => grant'[x].parent = grant[x].parent
    PROVE  ChainIn(grant, g) \subseteq ChainIn(grant', g)
<1>1. /\ g \in ChainIn(grant', g) /\ ChainIn(grant', g) \in SUBSET Grant
      /\ Above(grant', ChainIn(grant', g))
  BY ChainFacts, ParentsOk, Zenon
<1>2. Above(grant, ChainIn(grant', g))
  BY <1>1, Zenon DEF Above
<1> QED
  BY <1>1, <1>2, ChainFacts, ParentsOk, Zenon

\* grant_new revives nothing (the new id is above issued).
LEMMA NewRevives ==
    ASSUME GrantInv, GrantInv', NEW p, NEW type, NEW right, grant_new(p, type, right),
           issued < GrantMax,
           NEW g \in 1 .. issued, ~token_resolve(g, Nil)
    PROVE  ~token_resolve(g, Nil)'
<1>n. /\ issued + 1 \in Grant /\ grant[issued + 1] = NoGrant /\ g \in Grant /\ g # issued + 1
      /\ issued' = issued + 1
  BY IrqAssumption, SMTT(60) DEF GrantInv, Grant, grant_new
<1>1. \A h \in Grant \ {issued + 1} : grant'[h] = grant[h]
  BY <1>n, Zenon DEF grant_new, GrantInv
<1>2. CASE grant[g] = NoGrant
  BY <1>2, <1>1, <1>n, Zenon DEF token_resolve, Exists
<1>3. CASE grant[g] # NoGrant
  <2>1. PICK a \in ChainIn(grant, g) : grant[a].dead
    BY <1>3, ChainIs, Zenon DEF token_resolve, Exists, Alive
  <2>2. ASSUME NEW x \in ChainIn(grant', g), grant[x].parent # 0
        PROVE  grant'[x].parent = grant[x].parent
    <3>1. x \in Grant
      BY Zenon DEF ChainIn
    <3>2. x # issued + 1
      BY <2>2, <1>n DEF NoGrant
    <3> QED
      BY <3>1, <3>2, <1>1, Zenon
  <2>3. a \in ChainIn(grant', g)
    BY <2>1, <2>2, <1>n, ChainKept, Zenon
  <2>4. a \in Grant /\ a # issued + 1
    BY <2>1, <1>n DEF ChainIn, NoGrant
  <2>5. grant'[a].dead
    BY <2>1, <2>4, <1>1, Zenon
  <2> QED
    BY <2>3, <2>5, ChainIs, Zenon DEF token_resolve, Alive
<1> QED
  BY <1>2, <1>3, Zenon

\* Nor does a revocation: the dead grant above g is nobody's leaf while g exists.
LEMMA RevokeRevives ==
    ASSUME GrantInv, GrantInv', NEW p, Exists(p), revoke_step(p),
           NEW g \in 1 .. issued, ~token_resolve(g, Nil)
    PROVE  ~token_resolve(g, Nil)'
<1>p. p \in Grant /\ g \in Grant
  <2>1. p \in Grant
    BY Resolved, Zenon
  <2> QED
    BY <2>1, IrqAssumption, SMTT(60) DEF GrantInv, Grant
<1> PICK leaf \in Descent(p) :
      /\ Leaf(leaf)
      /\ grant' = [[grant EXCEPT ![p].dead = TRUE] EXCEPT ![leaf] = NoGrant]
  BY Zenon DEF revoke_step
<1>l. leaf \in Grant /\ issued' = issued
  BY Zenon DEF Descent, revoke_step
<1>1. /\ grant'[leaf] = NoGrant
      /\ p # leaf => grant'[p] = [grant[p] EXCEPT !.dead = TRUE]
      /\ \A h \in Grant \ {p, leaf} : grant'[h] = grant[h]
  BY <1>p, <1>l, Zenon DEF GrantInv
<1>2. ASSUME NEW h \in Grant, h # leaf
      PROVE  /\ grant'[h].parent = grant[h].parent
             /\ grant[h].dead => grant'[h].dead
             /\ grant[h] = NoGrant => ~Exists(h)'
  <2>1. GrantShape(grant[p]) /\ grant[p] # NoGrant
    BY Resolved, Zenon
  <2>2. p # leaf => grant'[p].parent = grant[p].parent /\ grant'[p].dead
    BY <2>1, <1>1 DEF GrantShape
  <2> QED
    BY <2>1, <2>2, <1>1, <1>p, <1>2, Zenon DEF Exists
<1>3. CASE g = leaf
  BY <1>3, <1>1, Zenon DEF token_resolve, Exists
<1>4. CASE g # leaf /\ grant[g] = NoGrant
  BY <1>4, <1>2, <1>p, Zenon DEF token_resolve
<1>5. CASE g # leaf /\ grant[g] # NoGrant
  <2>1. PICK a \in ChainIn(grant, g) : grant[a].dead
    BY <1>5, ChainIs, Zenon DEF token_resolve, Exists, Alive
  <2> PICK C : C = ChainIn(grant', g)
    BY Zenon
  <2>c. /\ g \in C /\ C \in SUBSET Grant
        /\ \A x \in C : grant'[x].parent # 0 => grant'[x].parent \in C
        /\ \A S \in SUBSET Grant : g \in S /\ Above(grant', S) => C \subseteq S
    <3>1. Parents(grant')
      BY ParentsOk, Zenon
    <3>2. /\ g \in C /\ C \in SUBSET Grant /\ Above(grant', C)
          /\ \A S \in SUBSET Grant : g \in S /\ Above(grant', S) => C \subseteq S
      BY <3>1, <1>p, ChainFacts, Zenon
    <3> QED
      BY <3>2, Zenon DEF Above
  <2>2. leaf \notin C
    <3> DEFINE S == C \ {leaf}
    <3>1. ASSUME NEW x \in S, grant'[x].parent # 0 PROVE grant'[x].parent \in S
      <4>1. x \in C /\ x \in Grant /\ x # leaf
        BY <2>c, Zenon
      <4>2. grant'[x].parent \in C /\ grant'[x].parent = grant[x].parent
        BY <4>1, <3>1, <2>c, <1>2, Zenon
      <4> QED
        BY <4>1, <4>2, Zenon DEF Leaf
    <3>2. g \in S /\ S \in SUBSET Grant /\ Above(grant', S)
      BY <1>5, <2>c, <3>1, Zenon DEF Above
    <3> QED
      BY <3>2, <2>c, Zenon
  <2>3. ASSUME NEW x \in C, grant[x].parent # 0 PROVE grant'[x].parent = grant[x].parent
    BY <2>2, <2>c, <1>2, Zenon
  <2>4. a \in C
    BY <2>1, <2>3, <1>p, ChainKept, Zenon
  <2>5. a \in Grant /\ a # leaf
    BY <2>2, <2>4, <2>c, Zenon
  <2>6. grant'[a].dead
    BY <2>1, <2>5, <1>2, Zenon
  <2> QED
    BY <2>4, <2>6, ChainIs, Zenon DEF token_resolve, Alive
<1> QED
  BY <1>3, <1>4, <1>5, Zenon

-----------------------------------------------------------------------------
\* Routes and rings.

\* What post_pending_locked does to route r, to become x: at most one event is
\* appended to its ring, and it owes nothing unless the ring is full.
Posted(r, x) ==
    /\ route' \in [Route -> RouteRec]
    /\ \A q \in Route : q # r => route'[q] = route[q]
    /\ route'[r].ring = x.ring /\ route'[r].raised = x.raised /\ route'[r].acked = x.acked
    /\ route'[r].allocated = x.allocated
    /\ cq' \in [Ring -> Seq(EventRec)]
    /\ \A k \in Ring : Len(cq'[k]) <= Slots /\ Len(cq[k]) <= Len(cq'[k])
    /\ \A k \in Ring : k # x.ring => cq'[k] = cq[k]
    /\ \A k \in Ring : \A i \in DOMAIN cq'[k] :
          \/ i \in DOMAIN cq[k] /\ cq'[k][i] = cq[k][i]
          \/ cq'[k][i] = Event("irq", r, x.gen, x.raised)
    /\ \A k \in Ring :
          x.ring = k /\ x.raised # x.acked => route'[r].ev > 0 \/ Len(cq'[k]) >= Slots

\* post_pending_locked does that.
LEMMA PostFacts ==
    ASSUME Typed, NEW r \in Route, NEW x \in RouteRec, post_pending(r, x)
    PROVE  Posted(r, x)
<1>s. Slots \in Nat /\ Slots > 0 /\ NoEvent = -1
  BY IrqAssumption DEF NoEvent
<1>c. /\ cq \in [Ring -> Seq(EventRec)] /\ route \in [Route -> RouteRec]
      /\ \A k \in Ring : Len(cq[k]) <= Slots /\ Len(cq[k]) \in Nat
  BY DEF Typed
<1>1. CASE Owes(x) /\ ~Full(cq[x.ring])
  <2> PICK k, e, y : k = x.ring /\ e = Event("irq", r, x.gen, x.raised)
                     /\ y = [x EXCEPT !.ev = Len(cq[k]) + 1]
    BY Zenon
  <2>1. k \in Ring
    BY <1>1, Zenon DEF Owes, RouteRec
  <2>2. Len(cq[k]) < Slots
    BY <1>1, <1>s, <1>c, <2>1 DEF Full
  <2>3. cq' = [cq EXCEPT ![k] = Append(cq[k], e)] /\ route' = [route EXCEPT ![r] = y]
    BY <1>1, Zenon DEF post_pending
  <2>4. e \in EventRec
    BY Zenon DEF EventRec, Event, RouteRec
  <2>5. y \in RouteRec /\ y.ring = x.ring /\ y.raised = x.raised /\ y.acked = x.acked
        /\ y.allocated = x.allocated /\ y.ev > 0
    <3>1. Len(cq[k]) + 1 \in NoEvent .. Slots /\ Len(cq[k]) + 1 > 0
      BY <2>1, <2>2, <1>c, <1>s, SMTT(60)
    <3> QED
      BY <3>1, Zenon DEF RouteRec
  <2>6. /\ Append(cq[k], e) \in Seq(EventRec)
        /\ Len(Append(cq[k], e)) = Len(cq[k]) + 1
        /\ \A i \in DOMAIN Append(cq[k], e) :
              \/ i \in DOMAIN cq[k] /\ Append(cq[k], e)[i] = cq[k][i]
              \/ Append(cq[k], e)[i] = e
    BY <2>1, <2>4, <1>c, SMTT(60)
  <2>7. cq' \in [Ring -> Seq(EventRec)] /\ route' \in [Route -> RouteRec]
    BY <2>3, <2>5, <2>6, <1>c, Zenon
  <2>8. \A j \in Ring : j # k => cq'[j] = cq[j]
    BY <2>3, <1>c, Zenon
  <2>9. cq'[k] = Append(cq[k], e) /\ route'[r] = y /\ \A q \in Route : q # r => route'[q] = route[q]
    BY <2>3, <2>1, <1>c, Zenon
  <2>10. \A j \in Ring : Len(cq'[j]) <= Slots /\ Len(cq[j]) <= Len(cq'[j])
    <3> SUFFICES ASSUME NEW j \in Ring
                 PROVE  Len(cq'[j]) <= Slots /\ Len(cq[j]) <= Len(cq'[j])
      BY Zenon
    <3>1. CASE j = k
      <4>1. Len(cq'[j]) = Len(cq[j]) + 1
        BY <3>1, <2>9, <2>6, Zenon
      <4> QED
        BY <4>1, <3>1, <2>2, <1>c, <1>s
    <3>2. CASE j # k
      BY <3>2, <2>8, <1>c, SMTT(60)
    <3> QED
      BY <3>1, <3>2, Zenon
  <2>11. \A j \in Ring : \A i \in DOMAIN cq'[j] :
            \/ i \in DOMAIN cq[j] /\ cq'[j][i] = cq[j][i]
            \/ cq'[j][i] = e
    <3>1. ASSUME NEW j \in Ring, j = k, NEW i \in DOMAIN cq'[j]
          PROVE  (i \in DOMAIN cq[j] /\ cq'[j][i] = cq[j][i]) \/ cq'[j][i] = e
      BY <3>1, <2>9, <2>6, Zenon
    <3>2. ASSUME NEW j \in Ring, j # k PROVE cq'[j] = cq[j]
      BY <3>2, <2>8, Zenon
    <3> QED
      BY <3>1, <3>2, Zenon
  <2> QED
    BY <2>5, <2>7, <2>8, <2>9, <2>10, <2>11, Zenon DEF Posted
<1>2. CASE ~(Owes(x) /\ ~Full(cq[x.ring]))
  <2> PICK y : y = Retired(x)
    BY Zenon
  <2>1. cq' = cq /\ route' = [route EXCEPT ![r] = y]
    BY <1>2, Zenon DEF post_pending
  <2>2. y \in RouteRec /\ y.ring = x.ring /\ y.raised = x.raised /\ y.acked = x.acked
        /\ y.allocated = x.allocated
    BY <1>s DEF Retired, RouteRec
  <2>3. ASSUME NEW k \in Ring, x.ring = k, x.raised # x.acked
        PROVE  y.ev > 0 \/ Len(cq[k]) >= Slots
    <3>1. x.ring # Nil
      BY <2>3, IrqAssumption, Zenon
    <3>2. y.ev = NoEvent => Len(cq[k]) >= Slots
      BY <1>2, <2>3, <3>1, Zenon DEF Owes, Full
    <3>3. y.ev # NoEvent => y.ev > 0
      BY <1>s, <2>2 DEF Retired, RouteRec
    <3> QED
      BY <3>2, <3>3, Zenon
  <2>4. route' \in [Route -> RouteRec] /\ route'[r] = y /\ \A q \in Route : q # r => route'[q] = route[q]
    BY <2>1, <2>2, <1>c, Zenon
  <2> QED
    BY <2>1, <2>2, <2>3, <2>4, <1>c DEF Posted
<1> QED
  BY <1>1, <1>2, Zenon

\* What a step may do to the drain in progress while route r is handled: nothing,
\* end its execution, or take r off the replay.
Handles(r) ==
    \/ umem' = umem
    \/ umem.at = "exec" /\ umem' = [umem EXCEPT !.at = "complete"]
    \/ umem.at = "replay" /\ umem' = [umem EXCEPT !.left = @ \ {r}]

\* Handling a route keeps the drain a drain of the same ring.
LEMMA HandlesFacts ==
    ASSUME Control, NEW r, Handles(r), client' = client, grant' = grant
    PROVE  /\ Control'
           /\ umem'.at \in Drains <=> umem.at \in Drains
           /\ umem.at \in Drains => umem'.ring = umem.ring
           /\ umem'.at = "replay" => umem.at = "replay" /\ umem.left \ {r} \subseteq umem'.left
           /\ umem'.at = "destroy" <=> umem.at = "destroy"
           /\ umem'.at \in {"exec", "destroy"} => umem' = umem
<1>1. CASE umem' = umem
  BY <1>1, Zenon DEF Control, Doing, Draining, Drains
<1>2. CASE umem.at = "exec" /\ umem' = [umem EXCEPT !.at = "complete"]
  <2>1. Draining
    BY <1>2 DEF Control, Idle
  <2>2. /\ umem'.at = "complete" /\ umem'.ring = umem.ring /\ umem'.cmd = umem.cmd
        /\ umem'.left = umem.left
        /\ umem' = [at |-> umem'.at, ring |-> umem'.ring, cmd |-> umem'.cmd, left |-> umem'.left]
    BY <1>2, <2>1, Zenon DEF Draining
  <2>3. Draining'
    BY <2>1, <2>2, <1>2, Zenon DEF Draining, Drains
  <2>4. \A k \in Ring : Doing(k, client[k])'
    BY <2>2, <1>2, Zenon DEF Control, Doing, Drains
  <2> QED
    BY <2>2, <2>3, <2>4, <1>2, Zenon DEF Control, Drains
<1>3. CASE umem.at = "replay" /\ umem' = [umem EXCEPT !.left = @ \ {r}]
  <2>1. Draining
    BY <1>3 DEF Control, Idle
  <2>2. /\ umem'.at = "replay" /\ umem'.ring = umem.ring /\ umem'.cmd = umem.cmd
        /\ umem'.left = umem.left \ {r}
        /\ umem' = [at |-> umem'.at, ring |-> umem'.ring, cmd |-> umem'.cmd, left |-> umem'.left]
    BY <1>3, <2>1, Zenon DEF Draining
  <2>3. Draining'
    BY <2>1, <2>2, <1>3, Zenon DEF Draining, Drains
  <2>4. \A k \in Ring : Doing(k, client[k])'
    BY <2>2, <1>3, Zenon DEF Control, Doing, Drains
  <2> QED
    BY <2>2, <2>3, <2>4, <1>3, Zenon DEF Control, Drains
<1> QED
  BY <1>1, <1>2, <1>3, Zenon DEF Handles

\* A step that posts for route r (a delivery, an ack, a turn of the replay) keeps
\* the invariant of the rings.
LEMMA PostStep ==
    ASSUME Typed, Control, Freed, Announced, Numbered, NEW r \in Route, NEW x \in RouteRec,
           post_pending(r, x), Handles(r), UNCHANGED <<client, rung, grant, line, raises>>,
           irr' \in [Route -> BOOLEAN], masked' \in [Pin -> BOOLEAN],
           \A q \in Pin : q # r => masked'[q] = masked[q],
           x.ring = route[r].ring, x.allocated = route[r].allocated,
           route[r].raised <= x.raised,
           \A k \in Ring \ Careless :
              r \in Pin /\ route[r].ring = k /\ client[k] # Gone =>
                 x.acked <= x.raised /\ (r \in Level /\ masked'[r] => x.raised # x.acked)
    PROVE  Typed' /\ Control' /\ Freed' /\ Announced' /\ Numbered'
<1>p. Posted(r, x)
  BY PostFacts, Zenon
<1>h. /\ Control'
      /\ umem'.at \in Drains <=> umem.at \in Drains
      /\ umem.at \in Drains => umem'.ring = umem.ring
      /\ umem'.at = "replay" => umem.at = "replay" /\ umem.left \ {r} \subseteq umem'.left
      /\ umem'.at = "destroy" <=> umem.at = "destroy"
      /\ umem'.at \in {"exec", "destroy"} => umem' = umem
  BY HandlesFacts, Zenon
<1>u. client' = client /\ rung' = rung /\ grant' = grant
  BY Zenon
<1>r. \A q \in Route : route'[q].ring = route[q].ring /\ route'[q].allocated = route[q].allocated
  BY <1>p, Zenon DEF Posted
<1>c. \A k \in Ring : Claims(k)' = Claims(k)
  BY <1>r, Zenon DEF Claims, Route
<1>1. Typed'
  BY <1>p, <1>r, Zenon DEF Typed, Posted, Route
<1>2. Freed'
  <2> SUFFICES ASSUME NEW k \in Ring, client[k] = Gone
               PROVE  \/ umem'.at = "destroy" /\ umem'.ring = k /\ Claims(k)' \subseteq umem'.left
                      \/ Claims(k)' = {} /\ cq'[k] = <<>>
    BY <1>u, Zenon DEF Freed
  <2>1. CASE umem.at = "destroy" /\ umem.ring = k /\ Claims(k) \subseteq umem.left
    BY <2>1, <1>h, <1>c, Zenon
  <2>2. CASE Claims(k) = {} /\ cq[k] = <<>>
    <3>1. x.ring # k
      BY <2>2, Zenon DEF Claims
    <3> QED
      BY <2>2, <3>1, <1>c, <1>p, Zenon DEF Posted
  <2> QED
    BY <2>1, <2>2, Zenon DEF Freed
<1>3. Announced'
  <2> SUFFICES ASSUME NEW q \in Route, NEW k \in Ring,
                      route'[q].ring = k, client[k] # Gone, Stuck(q, k)'
               PROVE  \/ InDrain(k)' /\ (umem'.at = "replay" => q \in umem'.left)
                      \/ ~InDrain(k)' /\ ~rung[k]
    BY <1>u DEF Announced
  <2>1. InDrain(k)' <=> InDrain(k)
    BY <1>h, Zenon DEF InDrain
  <2>2. q # r
    <3> SUFFICES ASSUME q = r PROVE FALSE
      BY Zenon
    <3>1. route'[r].ev > 0 \/ Len(cq'[k]) >= Slots
      BY <1>p, Zenon DEF Posted, Stuck
    <3>2. route'[r].ev \in Int
      BY <1>p DEF Posted, RouteRec, NoEvent
    <3> QED
      BY <3>1, <3>2, SMTT(60) DEF Stuck, Full
  <2>3. Stuck(q, k) /\ route[q].ring = k
    <3>1. route'[q] = route[q]
      BY <2>2, <1>p, Zenon DEF Posted
    <3>2. ~(Len(cq[k]) >= Slots)
      <4>1. Len(cq[k]) \in Nat /\ Len(cq'[k]) \in Nat /\ Slots \in Nat
        BY <1>p, IrqAssumption, SMTT(60) DEF Posted, Typed
      <4> QED
        BY <4>1, <1>p, SMTT(60) DEF Posted, Stuck, Full
    <3> QED
      BY <3>1, <3>2, Zenon DEF Stuck, Full
  <2>4. \/ InDrain(k) /\ (umem.at = "replay" => q \in umem.left)
        \/ ~InDrain(k) /\ ~rung[k]
    BY <2>3, Zenon DEF Announced
  <2> QED
    BY <2>1, <2>2, <2>4, <1>h, Zenon
<1>4. ASSUME NEW q \in Pin, NEW k \in Ring \ Careless, route'[q].ring = k, client[k] # Gone
      PROVE  Sequence(q, k)'
  <2>0. q \in Route /\ k \in Ring /\ route[q].ring = k
    BY <1>4, <1>r, Zenon DEF Route
  <2>1. Sequence(q, k)
    BY <1>4, <2>0, Zenon DEF Numbered
  <2>2. /\ route[q].raised \in Nat /\ route'[q].raised \in Nat /\ route[q].raised <= route'[q].raised
    <3>1. route[q].raised <= route'[q].raised
      <4>1. CASE q = r
        BY <4>1, <1>p, Zenon DEF Posted
      <4>2. CASE q # r
        <5>1. route'[q] = route[q] /\ route[q].raised \in Nat
          BY <4>2, <1>p, <2>0, Zenon DEF Posted, Typed, RouteRec
        <5>2. \A n \in Nat : n <= n
          OBVIOUS
        <5> QED
          BY <5>1, <5>2, Zenon
      <4> QED
        BY <4>1, <4>2, Zenon
    <3> QED
      BY <3>1, <1>p, <2>0, Zenon DEF Posted, Typed, RouteRec
  <2>3. /\ route'[q].acked <= route'[q].raised
        /\ q \in Level /\ masked'[q] => route'[q].raised # route'[q].acked
    <3>1. CASE q = r
      BY <3>1, <1>4, <2>0, <1>p, Zenon DEF Posted
    <3>2. CASE q # r
      BY <3>2, <2>0, <2>1, <1>p, Zenon DEF Posted, Sequence
    <3> QED
      BY <3>1, <3>2, Zenon
  <2>4. ASSUME NEW i \in DOMAIN cq'[k], EventOf(q, k, i)' PROVE cq'[k][i].seq <= route'[q].raised
    <3>1. CASE i \in DOMAIN cq[k] /\ cq'[k][i] = cq[k][i]
      <4>1. EventOf(q, k, i)
        BY <3>1, <2>4, Zenon DEF EventOf
      <4>2. cq[k][i].seq <= route[q].raised
        BY <4>1, <3>1, <2>1, Zenon DEF Sequence
      <4>3. cq[k][i].seq \in Nat
        <5>1. cq[k][i] \in EventRec
          BY <3>1, <2>0, SMTT(60) DEF Typed
        <5> QED
          BY <5>1, <4>1, SMTT(60) DEF EventRec, EventOf, Done, Event
      <4> QED
        BY <3>1, <4>2, <4>3, <2>2
    <3>2. CASE cq'[k][i] = Event("irq", r, x.gen, x.raised)
      <4>1. q = r /\ cq'[k][i].seq = x.raised
        BY <3>2, <2>4, SMTT(60) DEF EventOf, Event
      <4> QED
        BY <4>1, <2>2, <1>p, SMTT(60) DEF Posted
    <3> QED
      BY <3>1, <3>2, <1>p, <2>0, Zenon DEF Posted
  <2>5. client[k].op = "ack" /\ client[k].a = q => client[k].c <= route'[q].raised
    <3> SUFFICES ASSUME client[k].op = "ack", client[k].a = q
                 PROVE  client[k].c <= route'[q].raised
      BY Zenon
    <3>1. client[k].c <= route[q].raised
      BY <2>1, Zenon DEF Sequence
    <3>2. client[k].c \in Nat
      BY <2>0, Zenon DEF Control, Doing
    <3> QED
      BY <3>1, <3>2, <2>2
  <2> QED
    BY <2>3, <2>4, <2>5, <1>u, Zenon DEF Sequence
<1>5. ASSUME NEW k \in Ring \ Careless, umem'.at = "exec", umem'.ring = k,
             umem'.cmd.op = "claim", Unread(k, umem.cmd.a)'
      PROVE  route'[grant[umem'.cmd.a].right[1]].ring # Nil
  <2>0. umem' = umem
    BY <1>5, <1>h, Zenon
  <2> PICK g : g = umem.cmd.a
    BY Zenon
  <2>1. PICK i \in DOMAIN cq'[k] : cq'[k][i].type = "irq" /\ cq'[k][i].route = grant[g].right[1]
    BY <1>5, <2>0, <1>u, Zenon DEF Unread
  <2>2. CASE i \in DOMAIN cq[k] /\ cq'[k][i] = cq[k][i]
    <3>1. Unread(k, g)
      BY <2>1, <2>2, <1>5, <2>0, <1>u, SMTT(60) DEF Unread
    <3>2. route[grant[g].right[1]].ring # Nil
      BY <3>1, <1>5, <2>0, Zenon DEF Numbered
    <3>3. cq[k][i] \in EventRec
      <4>1. cq[k] \in Seq(EventRec)
        BY Zenon DEF Typed
      <4> QED
        BY <2>2, <4>1
    <3>4. grant[g].right[1] \in Route
      BY <3>3, <2>1, <2>2, SMTT(60) DEF EventRec, Done, Event
    <3> QED
      BY <3>2, <3>4, <1>r, <2>0, Zenon
  <2>3. CASE cq'[k][i] = Event("irq", r, x.gen, x.raised) /\ cq'[k] # cq[k]
    <3>1. grant[g].right[1] = r
      BY <2>1, <2>3 DEF Event
    <3>2. x.ring = k /\ k # Nil
      BY <2>3, <1>p, <1>5, IrqAssumption, Zenon DEF Posted
    <3> QED
      BY <3>1, <3>2, <2>0, <1>p, Zenon DEF Posted
  <2> QED
    BY <2>1, <2>2, <2>3, <1>p, Zenon DEF Posted
<1>6. Numbered'
  BY <1>4, <1>5, <1>u, Zenon DEF Numbered
<1> QED
  BY <1>1, <1>2, <1>3, <1>6, <1>h, Zenon

\* A step that claims, releases or detaches route r, which becomes y, keeps it too:
\* a route that is claimed starts with nothing raised, unmasked, and with no event
\* or ack of an earlier claim on its way.
LEMMA RouteStep ==
    ASSUME Typed, Control, Freed, Announced, Numbered, NEW r \in Route, NEW y \in RouteRec,
           route' = [route EXCEPT ![r] = y],
           UNCHANGED <<cq, client, rung, line, irr, raises>>,
           masked' \in [Pin -> BOOLEAN], \A q \in Pin : q # r => masked'[q] = masked[q],
           r \in Msi /\ y.ring # Nil => y.allocated,
           \/ umem.at = "exec" /\ umem' = [umem EXCEPT !.at = "complete"]
           \/ umem.at = "destroy" /\ umem' = [umem EXCEPT !.left = @ \ {r}] /\ y.ring = Nil,
           y.ring # Nil =>
              /\ y.ring = umem.ring /\ y.raised = 0 /\ y.acked = 0 /\ route[r].ring = Nil
              /\ r \in Pin => ~masked'[r]
              /\ r \in Pin /\ y.ring \notin Careless =>
                    /\ \A i \in DOMAIN cq[y.ring] : ~EventOf(r, y.ring, i)
                    /\ client[y.ring].op # "ack"
    PROVE  Typed' /\ Control' /\ Freed' /\ Announced' /\ Numbered'
<1>u. cq' = cq /\ client' = client /\ rung' = rung
  BY Zenon
<1>r. /\ route' \in [Route -> RouteRec] /\ route'[r] = y
      /\ \A q \in Route : q # r => route'[q] = route[q]
  BY Zenon DEF Typed
<1>d. Draining
  BY DEF Control, Idle
<1>h. /\ umem'.ring = umem.ring /\ umem'.cmd = umem.cmd /\ umem'.at # "replay" /\ umem'.at # "exec"
      /\ umem' = [at |-> umem'.at, ring |-> umem'.ring, cmd |-> umem'.cmd, left |-> umem'.left]
      /\ umem.at \in Drains => umem'.at = "complete" /\ umem'.left = umem.left
      /\ umem'.at \in Drains => umem.at \in Drains
      /\ umem.at = "destroy" => umem'.at = "destroy" /\ umem'.left = umem.left \ {r} /\ y.ring = Nil
      /\ umem.at \in {"exec", "destroy"}
  BY <1>d, Zenon DEF Draining, Drains
<1>1. Typed'
  BY <1>r, <1>u, Zenon DEF Typed, Route
<1>2. Control'
  <2>1. Draining'
    BY <1>d, <1>h, <1>u, Zenon DEF Draining, Drains
  <2>2. \A k \in Ring : Doing(k, client[k])'
    BY <1>h, <1>u, Zenon DEF Control, Doing, Drains
  <2> QED
    BY <2>1, <2>2, Zenon DEF Control
<1>3. Freed'
  <2> SUFFICES ASSUME NEW k \in Ring, client[k] = Gone
               PROVE  \/ umem'.at = "destroy" /\ umem'.ring = k /\ Claims(k)' \subseteq umem'.left
                      \/ Claims(k)' = {} /\ cq[k] = <<>>
    BY <1>u, Zenon DEF Freed
  <2>0. y.ring # k
    <3>1. y.ring = k => k # Nil /\ umem.ring = k /\ umem.at = "exec"
      BY <1>h, IrqAssumption, Zenon
    <3>2. umem.ring = k /\ umem.at = "exec" => client[k].op \in Ops
      BY <1>d, Zenon DEF Draining, Drains
    <3> QED
      BY <3>1, <3>2 DEF Gone, Cmd, Ops, Owing
  <2>1. Claims(k)' \subseteq Claims(k) \ {r}
    BY <2>0, <1>r, Zenon DEF Claims, Route
  <2>2. CASE umem.at = "destroy" /\ umem.ring = k /\ Claims(k) \subseteq umem.left
    BY <2>1, <2>2, <1>h, Zenon
  <2>3. CASE Claims(k) = {} /\ cq[k] = <<>>
    BY <2>1, <2>3, Zenon
  <2> QED
    BY <2>2, <2>3, Zenon DEF Freed
<1>4. Announced'
  <2> SUFFICES ASSUME NEW q \in Route, NEW k \in Ring,
                      route'[q].ring = k, client[k] # Gone, Stuck(q, k)'
               PROVE  \/ InDrain(k)' /\ (umem'.at = "replay" => q \in umem'.left)
                      \/ ~InDrain(k)' /\ ~rung[k]
    BY <1>u DEF Announced
  <2>1. q # r
    <3>1. k # Nil
      BY IrqAssumption, Zenon
    <3> QED
      BY <3>1, <1>r, Zenon DEF Stuck
  <2>2. route[q].ring = k /\ Stuck(q, k)
    BY <2>1, <1>r, <1>u, Zenon DEF Stuck
  <2>3. \/ InDrain(k) /\ (umem.at = "replay" => q \in umem.left)
        \/ ~InDrain(k) /\ ~rung[k]
    BY <2>2, Zenon DEF Announced
  <2>4. InDrain(k)' <=> InDrain(k)
    BY <1>h, Zenon DEF InDrain, Drains
  <2> QED
    BY <2>3, <2>4, <1>h, Zenon
<1>5. ASSUME NEW q \in Pin, NEW k \in Ring \ Careless, route'[q].ring = k, client[k] # Gone
      PROVE  Sequence(q, k)'
  <2>0. q \in Route /\ k \in Ring /\ k # Nil
    BY IrqAssumption, Zenon DEF Route
  <2>1. CASE q = r
    <3>1. y.ring = k /\ route'[q].raised = 0 /\ route'[q].acked = 0 /\ ~masked'[q]
      BY <2>0, <2>1, <1>5, <1>r, Zenon
    <3>2. (\A i \in DOMAIN cq[k] : ~EventOf(q, k, i)) /\ client[k].op # "ack"
      BY <3>1, <2>0, <2>1, <1>5, Zenon
    <3> QED
      BY <3>1, <3>2, <1>u, SMTT(60) DEF Sequence, EventOf
  <2>2. CASE q # r
    <3>1. route'[q] = route[q] /\ masked'[q] = masked[q]
      BY <2>0, <2>2, <1>r, Zenon
    <3>2. Sequence(q, k)
      BY <3>1, <1>5, ZenonT(60) DEF Numbered
    <3> QED
      BY <3>1, <3>2, <1>u, Zenon DEF Sequence, EventOf
  <2> QED
    BY <2>1, <2>2, Zenon
<1>6. Numbered'
  BY <1>5, <1>h, <1>u, SMTT(60) DEF Numbered
<1> QED
  BY <1>1, <1>2, <1>3, <1>4, <1>6, Zenon

\* A step of the drain that leaves routes and rings alone: a grant command, or one
\* that is refused.
LEMMA QuietStep ==
    ASSUME Typed, Control, Freed, Announced, Numbered,
           UNCHANGED <<routeVars, cq, client, rung, deviceVars>>,
           umem.at = "exec", umem' = [umem EXCEPT !.at = "complete"]
    PROVE  Typed' /\ Control' /\ Freed' /\ Announced' /\ Numbered'
<1>u. cq' = cq /\ client' = client /\ rung' = rung /\ route' = route /\ masked' = masked
      /\ line' = line /\ irr' = irr /\ raises' = raises
  BY Zenon DEF routeVars, deviceVars
<1>d. Draining
  BY DEF Control, Idle
<1>h. /\ umem'.at = "complete" /\ umem'.ring = umem.ring /\ umem'.cmd = umem.cmd
      /\ umem'.left = umem.left
      /\ umem' = [at |-> umem'.at, ring |-> umem'.ring, cmd |-> umem'.cmd, left |-> umem'.left]
  BY <1>d, Zenon DEF Draining, Drains
<1>1. Typed'
  BY <1>u, Zenon DEF Typed
<1>2. Draining'
  BY <1>d, <1>h, <1>u, Zenon DEF Draining, Drains
<1>3. \A k \in Ring : Doing(k, client[k])'
  BY <1>h, <1>u, Zenon DEF Control, Doing, Drains
<1>4. Freed'
  BY <1>h, <1>u DEF Freed, Claims
<1>5. Announced'
  BY <1>h, <1>u DEF Announced, Stuck, InDrain, Drains, Full
<1>6. Numbered'
  BY <1>h, <1>u, SMTT(60) DEF Numbered, Sequence, EventOf
<1> QED
  BY <1>1, <1>2, <1>3, <1>4, <1>5, <1>6, Zenon DEF Control

-----------------------------------------------------------------------------
\* The steps.

\* irq_deliver, to a claimed route and to an unclaimed one.
LEMMA DeliverStep ==
    ASSUME RingInv, NEW r \in Route, irq_deliver(r)
    PROVE  RingInv'
<1>t. /\ route \in [Route -> RouteRec] /\ masked \in [Pin -> BOOLEAN] /\ irr \in [Route -> BOOLEAN]
      /\ Level \subseteq Pin
  BY IrqAssumption, Zenon DEF RingInv, Typed
<1>i. irr' \in [Route -> BOOLEAN] /\ Handles(r) /\ UNCHANGED <<client, rung, grant, line, raises>>
  BY <1>t, Zenon DEF irq_deliver, Handles, grantVars
<1>1. CASE route[r].ring = Nil
  <2>1. route' = route /\ cq' = cq /\ masked' \in [Pin -> BOOLEAN] /\ umem' = umem
        /\ \A q \in Pin : q # r => masked'[q] = masked[q]
    BY <1>1, <1>t, Zenon DEF irq_deliver
  <2>u. client' = client /\ rung' = rung /\ grant' = grant
    BY <1>i, Zenon
  <2>2. Typed' /\ Control' /\ Freed' /\ Announced'
    BY <2>1, <1>i, <2>u, SMTT(60) DEF RingInv, Typed, Control, Doing, Draining, Freed, Claims, Announced, Stuck,
                      InDrain, Full
  <2>3. ASSUME NEW q \in Pin, NEW k \in Ring \ Careless, route'[q].ring = k, client[k] # Gone
        PROVE  Sequence(q, k)'
    <3>1. q # r
      BY <2>1, <2>3, <1>1, IrqAssumption, Zenon
    <3>2. Sequence(q, k)
      BY <2>1, <2>3, Zenon DEF RingInv, Numbered
    <3> QED
      BY <2>1, <3>1, <3>2, <2>u, Zenon DEF Sequence, EventOf
  <2>4. Numbered'
    BY <2>1, <2>3, <2>u, Zenon DEF RingInv, Numbered, Unread
  <2> QED
    BY <2>2, <2>4, Zenon DEF RingInv
<1>2. CASE route[r].ring # Nil
  <2> PICK x : x = [route[r] EXCEPT !.raised = @ + 1]
    BY Zenon
  <2>1. /\ x \in RouteRec /\ x.ring = route[r].ring /\ x.allocated = route[r].allocated
        /\ x.raised = route[r].raised + 1 /\ x.acked = route[r].acked
        /\ route[r].raised \in Nat /\ route[r].acked \in Nat
    BY <1>t DEF RouteRec
  <2>2. post_pending(r, x) /\ masked' \in [Pin -> BOOLEAN]
        /\ \A q \in Pin : q # r => masked'[q] = masked[q]
    BY <1>2, <1>t, Zenon DEF irq_deliver
  <2>3. ASSUME NEW k \in Ring \ Careless, r \in Pin, route[r].ring = k, client[k] # Gone
        PROVE  x.acked <= x.raised /\ x.raised # x.acked
    <3>1. route[r].acked <= route[r].raised
      BY <2>3, Zenon DEF RingInv, Numbered, Sequence
    <3> QED
      BY <3>1, <2>1
  <2>4. route[r].raised <= x.raised
    BY <2>1
  <2> QED
    BY <2>1, <2>2, <2>3, <2>4, <1>i, PostStep, Zenon DEF RingInv
<1> QED
  BY <1>1, <1>2, Zenon

\* What holds when a drain executes its command.
LEMMA ExecFacts ==
    ASSUME RingInv, umem.at = "exec"
    PROVE  /\ Draining /\ umem.ring \in Ring /\ umem.cmd.op \in Ops
           /\ client[umem.ring] = umem.cmd /\ client[umem.ring] # Gone
           /\ umem.cmd.op \in {"ack", "release"} => umem.cmd.a \in Route
           /\ umem.cmd.op = "ack" => umem.cmd.c \in Nat
<1>1. Draining /\ umem.ring \in Ring /\ umem.cmd.op \in Ops /\ client[umem.ring] = umem.cmd
  BY SMTT(60) DEF RingInv, Control, Idle, Draining, Drains
<1>2. client[umem.ring] # Gone
  BY <1>1 DEF Gone, Cmd, Ops, Owing
<1>3. Doing(umem.ring, umem.cmd)
  BY <1>1, Zenon DEF RingInv, Control
<1> QED
  BY <1>1, <1>2, <1>3, Zenon DEF Doing

\* A claimed route's fields.
LEMMA ClaimedFacts ==
    ASSUME NEW r, NEW k \in Ring, NEW gen \in 0 .. GenMod - 1
    PROVE  Claimed(r, k, gen) \in RouteRec
BY IrqAssumption, SMTT(60) DEF Claimed, RouteRec, NoEvent

\* KIRQ_CLAIM of a pin.
LEMMA ClaimStep ==
    ASSUME RingInv, umem.at = "exec", umem.cmd.op = "claim", NEW k, k = umem.ring,
           NEW g, g = umem.cmd.a, MayClaim(k, g), claim(k, g),
           umem' = [umem EXCEPT !.at = "complete"], UNCHANGED <<deviceVars, rung, client>>
    PROVE  RingInv'
<1> PICK r : r = grant[g].right[1]
  BY Zenon
<1>1. r \in Pin /\ r \in Route /\ r \notin Msi /\ route[r].ring = Nil /\ Current(g) /\ grant[g].right # Nil
  BY IrqAssumption, Zenon DEF MayClaim, Route, Current
<1>e. k \in Ring /\ client[k] = umem.cmd
  BY ExecFacts, Zenon
<1>t. route \in [Route -> RouteRec] /\ masked \in [Pin -> BOOLEAN]
  BY Zenon DEF RingInv, Typed
<1> PICK y : y = Claimed(r, k, route[r].gen)
  BY Zenon
<1>2. /\ y \in RouteRec /\ y.ring = k /\ y.raised = 0 /\ y.acked = 0
  <2>1. route[r].gen \in 0 .. GenMod - 1
    BY <1>1, <1>t, Zenon DEF RouteRec
  <2> QED
    BY <2>1, <1>1, <1>e, ClaimedFacts, Zenon DEF Claimed
<1>3. /\ route' = [route EXCEPT ![r] = y] /\ cq' = cq
      /\ masked' = [masked EXCEPT ![r] = FALSE]
  BY Zenon DEF claim
<1>4. masked' \in [Pin -> BOOLEAN] /\ ~masked'[r] /\ \A q \in Pin : q # r => masked'[q] = masked[q]
  BY <1>3, <1>1, <1>t, Zenon
<1>5. k \notin Careless => (\A i \in DOMAIN cq[k] : ~EventOf(r, k, i)) /\ client[k].op # "ack"
  <2> SUFFICES ASSUME k \notin Careless PROVE (\A i \in DOMAIN cq[k] : ~EventOf(r, k, i))
    BY <1>e, Zenon
  <2>1. ~Unread(k, g)
    BY <1>1, <1>e, Zenon DEF RingInv, Numbered
  <2> QED
    BY <2>1, <1>1, Zenon DEF Unread, EventOf
<1>6. UNCHANGED <<cq, client, rung, line, irr, raises>>
  BY <1>3, Zenon DEF deviceVars
<1> QED
  BY <1>1, <1>2, <1>3, <1>4, <1>5, <1>6, RouteStep, ZenonT(60) DEF RingInv

\* A generation stays a 16-bit number.
LEMMA NextGenOk ==
    ASSUME NEW n \in 0 .. GenMod - 1
    PROVE  NextGen(n) \in 0 .. GenMod - 1
<1>1. GenMod \in Nat /\ GenMod > 1 /\ n \in Nat /\ n < GenMod
  BY IrqAssumption, SMTT(60)
<1>2. n + 1 = GenMod => (n + 1) % GenMod = 0
  BY <1>1
<1> QED
  BY <1>1, <1>2 DEF NextGen

\* What a released route is.
LEMMA ReleasedFacts ==
    ASSUME Typed, NEW r \in Route
    PROVE  Released(r) \in RouteRec /\ Released(r).ring = Nil
<1>1. route[r] \in RouteRec /\ NextGen(route[r].gen) \in 0 .. GenMod - 1
  BY NextGenOk, Zenon DEF Typed, RouteRec
<1>2. NoEvent \in NoEvent .. Slots
  BY IrqAssumption DEF NoEvent
<1> QED
  BY <1>1, <1>2, Zenon DEF Released, RouteRec

\* KIRQ_RELEASE.
LEMMA ReleaseStep ==
    ASSUME RingInv, umem.at = "exec", NEW r \in Route, release(r),
           umem' = [umem EXCEPT !.at = "complete"], UNCHANGED <<deviceVars, rung, client>>
    PROVE  RingInv'
<1>t. masked \in [Pin -> BOOLEAN] /\ Typed
  BY Zenon DEF RingInv, Typed
<1>1. route' = [route EXCEPT ![r] = Released(r)] /\ cq' = cq
  BY Zenon DEF release
<1>2. masked' \in [Pin -> BOOLEAN] /\ \A q \in Pin : q # r => masked'[q] = masked[q]
  BY <1>t, Zenon DEF release
<1>3. UNCHANGED <<cq, client, rung, line, irr, raises>>
  BY <1>1, Zenon DEF deviceVars
<1>4. Released(r) \in RouteRec /\ Released(r).ring = Nil
  BY <1>t, ReleasedFacts, Zenon
<1> QED
  BY <1>1, <1>2, <1>3, <1>4, RouteStep, Zenon DEF RingInv

\* KIRQ_ACK: the number a driver sends is one its claim announced.
LEMMA AckStep ==
    ASSUME RingInv, umem.at = "exec", umem.cmd.op = "ack", NEW k, k = umem.ring,
           NEW r, r = umem.cmd.a, NEW seq, seq = umem.cmd.c, route[r].ring = k, ack(r, seq),
           umem' = [umem EXCEPT !.at = "complete"], UNCHANGED <<deviceVars, rung, client>>
    PROVE  RingInv'
<1>e. k \in Ring /\ client[k] = umem.cmd /\ client[k] # Gone /\ r \in Route /\ seq \in Nat
  BY ExecFacts, Zenon
<1>t. route \in [Route -> RouteRec] /\ masked \in [Pin -> BOOLEAN] /\ irr \in [Route -> BOOLEAN]
      /\ Level \subseteq Pin
  BY IrqAssumption, Zenon DEF RingInv, Typed
<1> PICK x : x = [route[r] EXCEPT !.acked = seq]
  BY Zenon
<1>1. /\ x \in RouteRec /\ x.ring = route[r].ring /\ x.allocated = route[r].allocated
      /\ x.raised = route[r].raised /\ x.acked = seq /\ route[r].raised \in Nat
  BY <1>t, <1>e, SMTT(60) DEF RouteRec
<1>2. post_pending(r, x) /\ grant' = grant
  BY Zenon DEF ack, grantVars
<1>3. /\ masked' \in [Pin -> BOOLEAN] /\ \A q \in Pin : q # r => masked'[q] = masked[q]
      /\ r \in Level => ~masked'[r]
  BY <1>t, Zenon DEF ack
<1>4. ASSUME k \notin Careless, r \in Pin PROVE seq <= route[r].raised
  BY <1>4, <1>e, Zenon DEF RingInv, Numbered, Sequence
<1>5. UNCHANGED <<client, rung, grant, line, raises>> /\ irr' \in [Route -> BOOLEAN]
  BY <1>2, <1>t, Zenon DEF deviceVars
<1>6. Handles(r)
  BY Zenon DEF Handles
<1> QED
  <2>1. \A j \in Ring \ Careless :
           r \in Pin /\ route[r].ring = j /\ client[j] # Gone =>
              x.acked <= x.raised /\ (r \in Level /\ masked'[r] => x.raised # x.acked)
    BY <1>1, <1>3, <1>4, Zenon
  <2>2. route[r].raised <= x.raised
    BY <1>1
  <2> QED
    BY <2>1, <2>2, <1>1, <1>2, <1>3, <1>5, <1>6, <1>e, PostStep, ZenonT(60) DEF RingInv

\* KIRQ_MSI, granted or rolled back.
LEMMA MsiStep ==
    ASSUME GrantInv, RingInv, umem.at = "exec", NEW k, k = umem.ring, NEW g,
           MayAllocate(k, g), allocate_msi_on_ring(k, g),
           umem' = [umem EXCEPT !.at = "complete"], UNCHANGED <<deviceVars, rung, client>>
    PROVE  GrantInv' /\ RingInv'
<1> PICK r \in FreeMsi :
       LET gen == NextGen(route[r].gen) IN
       IF grant[g].wild /\ MayGrant(g)
       THEN /\ route' = [route EXCEPT ![r] = Claimed(r, k, gen)]
            /\ grant_new(g, "irq", <<r, gen>>)
       ELSE /\ route' = [route EXCEPT ![r].gen = NextGen(gen)]
            /\ UNCHANGED grantVars
  BY Zenon DEF allocate_msi_on_ring
<1>e. k \in Ring
  BY ExecFacts, Zenon
<1>t. route \in [Route -> RouteRec] /\ Typed /\ masked \in [Pin -> BOOLEAN]
  BY Zenon DEF RingInv, Typed
<1>r. r \in Msi /\ r \in Route /\ r \notin Pin /\ ~route[r].allocated /\ route[r].ring = Nil
  BY <1>t, IrqAssumption, Zenon DEF FreeMsi, Route, Typed
<1>u. /\ UNCHANGED <<cq, client, rung, line, irr, raises>> /\ masked' \in [Pin -> BOOLEAN]
      /\ \A q \in Pin : masked'[q] = masked[q]
  BY <1>t, Zenon DEF allocate_msi_on_ring, deviceVars
<1> PICK gen : gen = NextGen(route[r].gen)
  BY Zenon
<1>g. gen \in 0 .. GenMod - 1 /\ NextGen(gen) \in 0 .. GenMod - 1
  BY <1>t, <1>r, NextGenOk, Zenon DEF RouteRec
<1>x. Exists(g) /\ grant[g].type = "irq"
  BY IrqAssumption, Zenon DEF MayAllocate, token_resolve
<1>1. CASE grant[g].wild /\ MayGrant(g)
  <2> PICK y : y = Claimed(r, k, gen)
    BY Zenon
  <2>1. route' = [route EXCEPT ![r] = y] /\ grant_new(g, grant[g].type, <<r, gen>>)
    BY <1>1, <1>x, Zenon
  <2>2. y \in RouteRec /\ y.ring = k /\ y.raised = 0 /\ y.acked = 0 /\ y.allocated
    BY <1>e, <1>g, <1>r, ClaimedFacts, Zenon DEF Claimed
  <2>3. RingInv'
    BY <2>1, <2>2, <1>r, <1>u, RouteStep, Zenon DEF RingInv
  <2> PICK x : x = [type |-> grant[g].type, parent |-> g, depth |-> grant[g].depth + 1,
                    wild |-> FALSE, dead |-> FALSE, right |-> <<r, gen>>]
    BY Zenon
  <2>4. Within(x, grant[g]) /\ x.type # "devmem"
    BY <1>1, <1>x, Zenon DEF Within
  <2>5. GrantInv'
    BY <2>1, <2>4, <1>1, <1>x, GrantNew, Zenon
  <2> QED
    BY <2>3, <2>5, Zenon
<1>2. CASE ~(grant[g].wild /\ MayGrant(g))
  <2> PICK y : y = [route[r] EXCEPT !.gen = NextGen(gen)]
    BY Zenon
  <2>1. route' = [route EXCEPT ![r] = y] /\ UNCHANGED grantVars
    BY <1>2, Zenon
  <2>2. y \in RouteRec /\ y.ring = Nil
    BY <1>g, <1>r, <1>t, SMTT(60) DEF RouteRec
  <2>3. RingInv'
    BY <2>1, <2>2, <1>r, <1>u, RouteStep, Zenon DEF RingInv
  <2>4. GrantInv'
    BY <2>1, ZenonT(60) DEF GrantInv, grantVars, GrantShape, Placed, Within, Range, Grant
  <2> QED
    BY <2>3, <2>4, Zenon
<1> QED
  BY <1>1, <1>2, Zenon

\* Steps that leave the grants alone.
LEMMA GrantFrame ==
    ASSUME GrantInv, UNCHANGED grantVars
    PROVE  GrantInv'
BY ZenonT(60) DEF GrantInv, grantVars, GrantShape, Placed, Within, Range, Grant

\* The commands of a drain.
LEMMA ExecStep ==
    ASSUME GrantInv, RingInv, irq_exec
    PROVE  GrantInv' /\ RingInv'
<1> PICK k, c : k = umem.ring /\ c = umem.cmd
  BY Zenon
<1>0. /\ umem.at = "exec" /\ umem' = [umem EXCEPT !.at = "complete"]
      /\ UNCHANGED <<deviceVars, rung, client>>
  BY Zenon DEF irq_exec
<1>e. /\ Draining /\ k \in Ring /\ c.op \in Ops
      /\ c.op \in {"ack", "release"} => c.a \in Route
  BY <1>0, ExecFacts, Zenon
<1>1. CASE ~Accepts(k, c)
  <2>1. UNCHANGED <<grantVars, routeVars, cq>>
    BY <1>1, Zenon DEF irq_exec
  <2> QED
    BY <2>1, <1>0, QuietStep, GrantFrame, Zenon DEF RingInv
<1>2. CASE Accepts(k, c)
  <2>0. Execute(k, c)
    BY <1>2, Zenon DEF irq_exec
  <2>1. CASE c.op = "subgrant"
    <3>1. /\ subgrant(c.a, c.req) /\ UNCHANGED <<route, masked, cq>>
          /\ Exists(c.a) /\ MayGrant(c.a)
      BY <2>0, <2>1, <1>2, Zenon DEF Execute, Accepts, token_resolve
    <3>2. c.req \in Request[grant[c.a].type]
      BY <2>1, <1>0, <1>e, Zenon DEF Draining
    <3>3. GrantInv'
      BY <3>1, <3>2, SubgrantInv, Zenon
    <3>4. UNCHANGED <<routeVars, cq>>
      BY <3>1, Zenon DEF routeVars
    <3> QED
      BY <3>3, <3>4, <1>0, QuietStep, Zenon DEF RingInv
  <2>2. CASE c.op = "revoke"
    <3>1. revoke_step(c.a) /\ UNCHANGED <<route, masked, cq>> /\ Exists(c.a)
      BY <2>0, <2>2, <1>2, Zenon DEF Execute, Accepts
    <3>2. GrantInv'
      BY <3>1, RevokeInv, Zenon
    <3>3. UNCHANGED <<routeVars, cq>>
      BY <3>1, Zenon DEF routeVars
    <3> QED
      BY <3>2, <3>3, <1>0, QuietStep, SMTT(60) DEF RingInv
  <2>3. CASE c.op = "claim"
    <3>1. claim(k, c.a) /\ MayClaim(k, c.a)
      BY <2>0, <2>3, <1>2, Zenon DEF Execute, Accepts
    <3>2. UNCHANGED grantVars
      BY <3>1, Zenon DEF claim
    <3> QED
      BY <3>1, <3>2, <2>3, <1>0, ClaimStep, GrantFrame, Zenon
  <2>4. CASE c.op = "msi"
    <3>1. allocate_msi_on_ring(k, c.a) /\ MayAllocate(k, c.a)
      BY <2>0, <2>4, <1>2, Zenon DEF Execute, Accepts
    <3> QED
      BY <3>1, <1>0, MsiStep, Zenon
  <2>5. CASE c.op = "release"
    <3>1. release(c.a) /\ c.a \in Route
      BY <2>0, <2>5, <1>e, Zenon DEF Execute
    <3>2. UNCHANGED grantVars
      BY <3>1, Zenon DEF release
    <3> QED
      BY <3>1, <3>2, <1>0, ReleaseStep, GrantFrame, Zenon
  <2>6. CASE c.op = "ack"
    <3>1. ack(c.a, c.c) /\ route[c.a].ring = k
      BY <2>0, <2>6, <1>2, Zenon DEF Execute, Accepts, MayUse
    <3>2. UNCHANGED grantVars
      BY <3>1, Zenon DEF ack
    <3> QED
      BY <3>1, <3>2, <2>6, <1>0, AckStep, GrantFrame, Zenon
  <2> QED
    BY <2>0, <2>1, <2>2, <2>3, <2>4, <2>5, <2>6, Zenon DEF Execute
<1> QED
  BY <1>1, <1>2, Zenon

\* A turn of the replay.
LEMMA ReplayStep ==
    ASSUME RingInv, irq_replay
    PROVE  RingInv'
<1>1. PICK r \in umem.left : post_pending(r, route[r]) /\ umem' = [umem EXCEPT !.left = @ \ {r}]
  BY Zenon DEF irq_replay
<1>2. umem.at = "replay" /\ UNCHANGED <<grantVars, masked, deviceVars, rung, client>>
  BY Zenon DEF irq_replay
<1>3. r \in Route
  BY <1>2 DEF RingInv, Control, Idle, Draining
<1>4. Handles(r) /\ UNCHANGED <<client, rung, grant, line, raises>> /\ masked' = masked /\ irr' = irr
  BY <1>1, <1>2, Zenon DEF Handles, grantVars, deviceVars
<1>5. route[r] \in RouteRec /\ irr' \in [Route -> BOOLEAN] /\ masked' \in [Pin -> BOOLEAN]
      /\ route[r].raised <= route[r].raised
  BY <1>3, <1>4 DEF RingInv, Typed, RouteRec
<1>6. \A k \in Ring \ Careless :
         r \in Pin /\ route[r].ring = k /\ client[k] # Gone =>
            /\ route[r].acked <= route[r].raised
            /\ r \in Level /\ masked'[r] => route[r].raised # route[r].acked
  BY <1>4, Zenon DEF RingInv, Numbered, Sequence
<1>7. \A q \in Pin : q # r => masked'[q] = masked[q]
  BY <1>4, Zenon
<1> QED
  BY <1>1, <1>3, <1>4, <1>5, <1>6, <1>7, PostStep, Zenon DEF RingInv

\* A turn of irq_endpoint_destroy.
LEMMA DetachStep ==
    ASSUME RingInv, irq_endpoint_destroy
    PROVE  RingInv'
<1>1. PICK r \in umem.left :
         /\ route' = [route EXCEPT ![r] = Detached(r)]
         /\ masked' = IF r \in Pin THEN [masked EXCEPT ![r] = TRUE] ELSE masked
         /\ umem' = [umem EXCEPT !.left = @ \ {r}]
  BY Zenon DEF irq_endpoint_destroy
<1>2. umem.at = "destroy" /\ UNCHANGED <<deviceVars, ringVars, client>>
  BY Zenon DEF irq_endpoint_destroy
<1>3. r \in Route /\ Typed /\ masked \in [Pin -> BOOLEAN]
  BY <1>2 DEF RingInv, Control, Idle, Draining, Typed
<1>4. UNCHANGED <<cq, client, rung, line, irr, raises>>
  BY <1>2, Zenon DEF deviceVars, ringVars
<1>5. Released(r) \in RouteRec /\ Released(r).ring = Nil /\ Detached(r) = Released(r)
  BY <1>3, ReleasedFacts, Zenon DEF Detached
<1>6. masked' \in [Pin -> BOOLEAN] /\ \A q \in Pin : q # r => masked'[q] = masked[q]
  BY <1>1, <1>3, Zenon
<1> QED
  BY <1>1, <1>2, <1>3, <1>4, <1>5, <1>6, RouteStep, Zenon DEF RingInv

\* The completion of a command, where the replay of the ring's claims begins.
LEMMA CompleteStep ==
    ASSUME RingInv, channel_post
    PROVE  RingInv'
<1> PICK k : k = umem.ring
  BY Zenon
<1>u. /\ umem.at = "complete" /\ umem' = [umem EXCEPT !.at = "replay", !.left = Claims(k)]
      /\ cq' = IF Full(cq[k]) THEN cq ELSE [cq EXCEPT ![k] = Append(@, Done)]
      /\ client' = client /\ rung' = rung /\ route' = route /\ masked' = masked
      /\ grant' = grant /\ line' = line /\ irr' = irr /\ raises' = raises
  BY Zenon DEF channel_post, grantVars, routeVars, deviceVars
<1>d. Draining /\ k \in Ring /\ client[k].op \in Ops /\ client[k] # Gone
  <2>1. Draining /\ k \in Ring /\ client[k].op \in Ops
    BY <1>u DEF RingInv, Control, Idle, Draining, Drains
  <2> QED
    BY <2>1, SMTT(60) DEF Gone, Cmd, Ops, Owing
<1>h. /\ umem'.at = "replay" /\ umem'.ring = k /\ umem'.cmd = umem.cmd /\ umem'.left = Claims(k)
      /\ umem' = [at |-> umem'.at, ring |-> umem'.ring, cmd |-> umem'.cmd, left |-> umem'.left]
  BY <1>d, <1>u, Zenon DEF Draining
<1>c. /\ cq' \in [Ring -> Seq(EventRec)] /\ Len(cq'[k]) <= Slots
      /\ \A j \in Ring : j # k => cq'[j] = cq[j]
      /\ \A i \in DOMAIN cq'[k] : \/ i \in DOMAIN cq[k] /\ cq'[k][i] = cq[k][i]
                                  \/ cq'[k][i].type # "irq"
  <2>1. /\ cq \in [Ring -> Seq(EventRec)] /\ cq[k] \in Seq(EventRec) /\ Len(cq[k]) <= Slots
        /\ Slots \in Nat /\ Len(cq[k]) \in Nat /\ Done \in EventRec /\ Done.type # "irq"
    <3>1. /\ cq \in [Ring -> Seq(EventRec)] /\ cq[k] \in Seq(EventRec) /\ Len(cq[k]) <= Slots
          /\ Slots \in Nat
      BY <1>d, IrqAssumption, Zenon DEF RingInv, Typed
    <3>2. Len(cq[k]) \in Nat
      BY <3>1
    <3>3. Done \in EventRec /\ Done.type # "irq"
      BY SMTT(60) DEF EventRec, Done, Event
    <3> QED
      BY <3>1, <3>2, <3>3, Zenon
  <2>2. CASE Full(cq[k])
    BY <2>1, <2>2, <1>u, Zenon
  <2>3. CASE ~Full(cq[k])
    <3>1. cq' = [cq EXCEPT ![k] = Append(cq[k], Done)] /\ Len(cq[k]) < Slots
      BY <2>3, <2>1, <1>u, SMTT(60) DEF Full
    <3>2. Append(cq[k], Done) \in Seq(EventRec) /\ Len(Append(cq[k], Done)) = Len(cq[k]) + 1
      BY <2>1, SMTT(60)
    <3>3. \A i \in 1 .. Len(cq[k]) + 1 : Append(cq[k], Done)[i] = IF i = Len(cq[k]) + 1 THEN Done ELSE cq[k][i]
      BY <2>1, SMTT(60)
    <3>4. cq'[k] = Append(cq[k], Done) /\ DOMAIN cq'[k] = 1 .. Len(cq[k]) + 1
          /\ DOMAIN cq[k] = 1 .. Len(cq[k])
      BY <3>1, <3>2, <2>1, <1>d, SMTT(60)
    <3> QED
      BY <3>1, <3>2, <3>3, <3>4, <2>1, <1>d, SMTT(60)
  <2> QED
    BY <2>2, <2>3, Zenon
<1>1. Typed'
  BY <1>c, <1>u, Zenon DEF RingInv, Typed
<1>2. Draining'
  BY <1>d, <1>h, <1>u, Zenon DEF Draining, Drains, Claims
<1>3. \A j \in Ring : Doing(j, client[j])'
  BY <1>h, <1>u, Zenon DEF RingInv, Control, Doing, Drains
<1>4. Freed'
  <2> SUFFICES ASSUME NEW j \in Ring, client[j] = Gone PROVE Claims(j)' = {} /\ cq'[j] = <<>>
    BY <1>u, Zenon DEF Freed
  <2>1. Claims(j) = {} /\ cq[j] = <<>>
    BY <1>u, Zenon DEF RingInv, Freed
  <2>2. j # k /\ cq'[j] = cq[j]
    BY <1>c, <1>d, Zenon
  <2> QED
    BY <2>1, <2>2, <1>u, Zenon DEF Claims, Route
<1>5. Announced'
  <2> SUFFICES ASSUME NEW r \in Route, NEW j \in Ring, route[r].ring = j, client[j] # Gone,
                      Stuck(r, j)', j # k
               PROVE  ~InDrain(j)' /\ ~rung[j]
    BY <1>h, <1>u, Zenon DEF Announced, InDrain, Drains, Claims
  <2> QED
    BY <1>h, <1>u, <1>c, Zenon DEF RingInv, Announced, InDrain, Drains, Stuck
<1>6. Numbered'
  <2>1. ASSUME NEW r \in Pin, NEW j \in Ring \ Careless, route[r].ring = j, client[j] # Gone
        PROVE  Sequence(r, j)'
    <3>1. Sequence(r, j)
      BY <2>1, Zenon DEF RingInv, Numbered
    <3> QED
      BY <3>1, <1>u, <1>c, SMTT(60) DEF Sequence, EventOf
  <2> QED
    BY <2>1, <1>h, <1>u, Zenon DEF Numbered
<1> QED
  BY <1>1, <1>2, <1>3, <1>4, <1>5, <1>6, Zenon DEF RingInv, Control

\* The end of a drain, with every claim replayed.
LEMMA DrainEndStep ==
    ASSUME RingInv, DrainEnd
    PROVE  RingInv'
<1> PICK k : k = umem.ring
  OBVIOUS
<1>u. /\ umem.at = "replay" /\ umem.left = {} /\ umem' = Idle
      /\ rung' = [rung EXCEPT ![k] = TRUE] /\ client' = [client EXCEPT ![k] = Ready]
      /\ cq' = cq /\ route' = route /\ masked' = masked /\ line' = line /\ irr' = irr
      /\ raises' = raises
  BY Zenon DEF DrainEnd, routeVars, deviceVars
<1>d. Draining /\ k \in Ring /\ client[k].op \in Ops /\ client[k] # Gone
  <2>1. Draining /\ k \in Ring /\ client[k].op \in Ops
    BY <1>u DEF RingInv, Control, Idle, Draining, Drains
  <2> QED
    BY <2>1 DEF Gone, Cmd, Ops, Owing
<1>h. umem'.at = "idle" /\ Ready # Gone /\ Ready.op = "ready" /\ client'[k] = Ready
      /\ \A j \in Ring : j # k => client'[j] = client[j] /\ rung'[j] = rung[j]
  BY <1>u, <1>d, Zenon DEF Idle, Ready, Gone, Cmd, RingInv, Typed
<1>1. Typed'
  BY <1>u, Zenon DEF RingInv, Typed
<1>3. \A j \in Ring : Doing(j, client[j])'
  BY <1>h, <1>u, Zenon DEF RingInv, Control, Doing, Drains
<1>4. Freed'
  BY <1>h, <1>u, Zenon DEF RingInv, Freed, Claims
<1>5. Announced'
  <2> SUFFICES ASSUME NEW r \in Route, NEW j \in Ring, route[r].ring = j, client'[j] # Gone,
                      Stuck(r, j)
               PROVE  ~rung'[j]
    BY <1>h, <1>u, Zenon DEF Announced, InDrain, Drains, Stuck
  <2> QED
    BY <1>d, <1>h, <1>u, Zenon DEF RingInv, Announced, InDrain, Drains
<1>6. Numbered'
  <2>1. ASSUME NEW r \in Pin, NEW j \in Ring \ Careless, route[r].ring = j, client'[j] # Gone
        PROVE  Sequence(r, j)'
    <3>1. Sequence(r, j)
      BY <2>1, <1>d, <1>h, Zenon DEF RingInv, Numbered
    <3> QED
      BY <3>1, <1>u, <1>h, Zenon DEF Sequence, EventOf
  <2> QED
    BY <2>1, <1>h, <1>u, Zenon DEF Numbered
<1> QED
  BY <1>1, <1>3, <1>4, <1>5, <1>6, <1>u, Zenon DEF RingInv, Control

\* The teardown of a ring takes the drain lock.
LEMMA FreeStep ==
    ASSUME RingInv, NEW k \in Ring, FreeBegin(k)
    PROVE  RingInv'
<1>u. /\ client[k] = Ready /\ umem = Idle
      /\ umem' = [at |-> "destroy", ring |-> k, cmd |-> Gone, left |-> Claims(k)]
      /\ client' = [client EXCEPT ![k] = Gone] /\ rung' = rung
      /\ cq' = cq /\ route' = route /\ masked' = masked /\ line' = line /\ irr' = irr
      /\ raises' = raises
  BY Zenon DEF FreeBegin, routeVars, deviceVars, ringVars
<1>h. /\ umem.at = "idle" /\ client'[k] = Gone /\ Gone.op = "gone"
      /\ umem'.at = "destroy" /\ umem'.ring = k /\ umem'.cmd = Gone /\ umem'.left = Claims(k)
      /\ \A j \in Ring : j # k => client'[j] = client[j]
  BY <1>u, Zenon DEF Idle, Gone, Cmd, RingInv, Typed
<1>1. Typed'
  BY <1>u, Zenon DEF RingInv, Typed
<1>2. Draining'
  BY <1>h, <1>u, Zenon DEF Draining, Drains, Claims
<1>3. \A j \in Ring : Doing(j, client[j])'
  BY <1>h, <1>u, Zenon DEF RingInv, Control, Doing, Drains
<1>4. Freed'
  BY <1>h, <1>u, Zenon DEF RingInv, Freed, Claims
<1>5. Announced'
  BY <1>h, <1>u, Zenon DEF RingInv, Announced, InDrain, Drains, Stuck
<1>6. Numbered'
  <2>1. ASSUME NEW r \in Pin, NEW j \in Ring \ Careless, route[r].ring = j, client'[j] # Gone
        PROVE  Sequence(r, j)'
    <3>1. Sequence(r, j) /\ client'[j] = client[j]
      BY <2>1, <1>h, Zenon DEF RingInv, Numbered
    <3> QED
      BY <3>1, <1>u, <1>h, Zenon DEF Sequence, EventOf
  <2> QED
    BY <2>1, <1>h, <1>u, Zenon DEF Numbered
<1> QED
  BY <1>1, <1>2, <1>3, <1>4, <1>5, <1>6, Zenon DEF RingInv, Control

\* The ring itself goes, after its last claim.
LEMMA RingDestroyStep ==
    ASSUME RingInv, channel_ring_destroy
    PROVE  RingInv'
<1> PICK k : k = umem.ring
  OBVIOUS
<1>u. /\ umem.at = "destroy" /\ umem.left = {} /\ umem' = Idle /\ cq' = [cq EXCEPT ![k] = <<>>]
      /\ client' = client /\ rung' = rung /\ route' = route /\ masked' = masked
      /\ line' = line /\ irr' = irr /\ raises' = raises
  BY Zenon DEF channel_ring_destroy, routeVars, deviceVars
<1>d. Draining /\ k \in Ring /\ client[k] = Gone
  BY <1>u DEF RingInv, Control, Idle, Draining, Drains
<1>h. umem'.at = "idle" /\ cq'[k] = <<>> /\ \A j \in Ring : j # k => cq'[j] = cq[j]
  BY <1>u, <1>d, Zenon DEF Idle, RingInv, Typed
<1>1. Typed'
  <2>1. <<>> \in Seq(EventRec) /\ Len(<<>>) <= Slots
    BY IrqAssumption
  <2>2. cq' \in [Ring -> Seq(EventRec)] /\ \A j \in Ring : Len(cq'[j]) <= Slots
    BY <2>1, <1>u, <1>h, Zenon DEF RingInv, Typed
  <2> QED
    BY <2>2, <1>u, Zenon DEF RingInv, Typed
<1>3. \A j \in Ring : Doing(j, client[j])'
  BY <1>h, <1>u, Zenon DEF RingInv, Control, Doing, Drains
<1>4. Freed'
  <2> SUFFICES ASSUME NEW j \in Ring, client[j] = Gone PROVE Claims(j)' = {} /\ cq'[j] = <<>>
    BY <1>u, Zenon DEF Freed
  <2>1. Claims(j)' = Claims(j)
    BY <1>u, Zenon DEF Claims, Route
  <2>2. CASE j = k
    <3>1. Claims(j) = {}
      BY <2>2, <1>u, Zenon DEF RingInv, Freed
    <3> QED
      BY <2>1, <2>2, <3>1, <1>h, Zenon
  <2>3. CASE j # k
    <3>1. Claims(j) = {} /\ cq[j] = <<>>
      BY <2>3, <1>u, Zenon DEF RingInv, Freed
    <3> QED
      BY <2>1, <2>3, <3>1, <1>h, Zenon
  <2> QED
    BY <2>2, <2>3, Zenon
<1>5. Announced'
  <2> SUFFICES ASSUME NEW r \in Route, NEW j \in Ring, route[r].ring = j, client[j] # Gone,
                      Stuck(r, j)'
               PROVE  ~InDrain(j)' /\ ~rung[j]
    BY <1>u, Zenon DEF Announced
  <2>1. j # k /\ Stuck(r, j)
    BY <1>d, <1>h, <1>u, Zenon DEF Stuck
  <2> QED
    BY <2>1, <1>h, <1>u, Zenon DEF RingInv, Announced, InDrain, Drains
<1>6. Numbered'
  <2>1. ASSUME NEW r \in Pin, NEW j \in Ring \ Careless, route[r].ring = j, client[j] # Gone
        PROVE  Sequence(r, j)'
    <3>1. Sequence(r, j) /\ cq'[j] = cq[j]
      BY <2>1, <1>d, <1>h, Zenon DEF RingInv, Numbered
    <3> QED
      BY <3>1, <1>u, Zenon DEF Sequence, EventOf
  <2> QED
    BY <2>1, <1>h, <1>u, Zenon DEF Numbered
<1> QED
  BY <1>1, <1>3, <1>4, <1>5, <1>6, <1>u, Zenon DEF RingInv, Control

\* A device raises an interrupt, or its level line fires again.
LEMMA DeviceStep ==
    ASSUME RingInv, NEW r \in Route, Raise(r) \/ LevelFires(r)
    PROVE  RingInv'
<1>u. /\ umem' = umem /\ cq' = cq /\ client' = client /\ rung' = rung /\ route' = route
      /\ masked' = masked /\ grant' = grant
  BY Zenon DEF Raise, LevelFires, grantVars, routeVars, ringVars
<1>t. /\ line \in [Route -> BOOLEAN] /\ irr \in [Route -> BOOLEAN] /\ raises \in [Route -> Nat]
  BY Zenon DEF RingInv, Typed
<1>1. line' \in [Route -> BOOLEAN] /\ irr' \in [Route -> BOOLEAN] /\ raises' \in [Route -> Nat]
  <2>1. CASE Raise(r)
    <3>1. raises' = [raises EXCEPT ![r] = raises[r] - 1] /\ raises[r] > 0
      BY <2>1, Zenon DEF Raise
    <3>2. raises' \in [Route -> Nat]
      BY <3>1, <1>t
    <3>3. line' \in [Route -> BOOLEAN] /\ irr' \in [Route -> BOOLEAN]
      BY <2>1, <1>t, Zenon DEF Raise
    <3> QED
      BY <3>2, <3>3, Zenon
  <2>2. CASE LevelFires(r)
    BY <2>2, <1>t, Zenon DEF LevelFires
  <2> QED
    BY <2>1, <2>2, Zenon
<1>2. Typed'
  BY <1>1, <1>u, Zenon DEF RingInv, Typed
<1>3. Control' /\ Freed' /\ Announced'
  BY <1>u DEF RingInv, Control, Doing, Draining, Freed, Claims, Announced, Stuck, InDrain, Full
<1>4. Numbered'
  BY <1>u, Zenon DEF RingInv, Numbered, Sequence, EventOf, Unread
<1> QED
  BY <1>2, <1>3, <1>4, Zenon DEF RingInv

\* A client submits what the last CQE asks for.
LEMMA SubmitStep ==
    ASSUME RingInv, NEW k \in Ring, kring_submit(k)
    PROVE  RingInv'
<1>u. /\ umem = Idle /\ client[k] \notin {Ready, Gone}
      /\ umem' = [at |-> IF client[k].op = "none" THEN "replay" ELSE "exec", ring |-> k,
                  cmd |-> client[k], left |-> Claims(k)]
      /\ cq' = cq /\ client' = client /\ rung' = rung /\ route' = route
      /\ masked' = masked /\ grant' = grant /\ line' = line /\ irr' = irr /\ raises' = raises
  BY Zenon DEF kring_submit, DrainBegin, grantVars, routeVars, ringVars, deviceVars
<1>h. /\ umem.at = "idle" /\ umem'.at \in {"replay", "exec"} /\ umem'.ring = k
      /\ umem'.cmd = client[k] /\ umem'.left = Claims(k)
      /\ umem' = [at |-> umem'.at, ring |-> umem'.ring, cmd |-> umem'.cmd, left |-> umem'.left]
  BY <1>u, Zenon DEF Idle
<1>d. client[k].op \in Owing /\ client[k] # Gone
  BY <1>h, <1>u, Zenon DEF RingInv, Control, Doing, Drains
<1>1. Typed'
  BY <1>u, Zenon DEF RingInv, Typed
<1>2. Draining'
  BY <1>d, <1>h, <1>u, Zenon DEF Draining, Drains, Claims, Ops, Owing
<1>3. \A j \in Ring : Doing(j, client[j])'
  BY <1>h, <1>u, Zenon DEF RingInv, Control, Doing, Drains
<1>4. Freed'
  <2> SUFFICES ASSUME NEW j \in Ring, client[j] = Gone PROVE Claims(j)' = {} /\ cq'[j] = <<>>
    BY <1>u, Zenon DEF Freed
  <2>1. Claims(j) = {} /\ cq[j] = <<>>
    BY <1>h, Zenon DEF RingInv, Freed
  <2> QED
    BY <2>1, <1>u, Zenon DEF Claims, Route
<1>5. Announced'
  <2> SUFFICES ASSUME NEW r \in Route, NEW j \in Ring, route[r].ring = j, client[j] # Gone,
                      Stuck(r, j), j # k
               PROVE  ~rung[j]
    BY <1>h, <1>u, Zenon DEF Announced, InDrain, Drains, Claims, Stuck
  <2> QED
    BY <1>h, Zenon DEF RingInv, Announced, InDrain, Drains
<1>6. Numbered'
  BY <1>d, <1>h, <1>u, Zenon DEF RingInv, Numbered, Sequence, EventOf, Owing
<1> QED
  BY <1>1, <1>2, <1>3, <1>4, <1>5, <1>6 DEF RingInv, Control

\* What a client may choose.
LEMMA ChoiceFacts ==
    ASSUME NEW k, NEW c \in Choices(k)
    PROVE  /\ c.op \in Ops \ Owing
           /\ c.op = "release" => c.a \in Route
           /\ c.op = "subgrant" => c.req \in Request[grant[c.a].type]
           /\ c.op = "claim" => k \in Careless \/ ~Unread(k, c.a)
<1>1. ASSUME NEW g, NEW q \in Request[grant[g].type], c = [Cmd("subgrant", g, 0, 0) EXCEPT !.req = q]
      PROVE  c.op = "subgrant" /\ c.req \in Request[grant[c.a].type]
  <2>1. c = [op |-> "subgrant", a |-> g, b |-> 0, c |-> 0, req |-> q]
    BY <1>1, Zenon DEF Cmd
  <2> QED
    BY <2>1, Zenon
<1>2. \/ \E g \in 1 .. issued : \E q \in Request[grant[g].type] :
             c = [Cmd("subgrant", g, 0, 0) EXCEPT !.req = q]
      \/ \E g \in 1 .. issued : c = Cmd("revoke", g, 0, 0)
      \/ \E g \in Grant : c = Cmd("msi", g, 0, 0)
      \/ \E g \in Grant : c = Cmd("claim", g, 0, 0) /\ (k \in Careless \/ ~Unread(k, g))
      \/ \E r \in Route : c = Cmd("release", r, route[r].gen, 0)
  <2> DEFINE Sub(g) == {[Cmd("subgrant", g, 0, 0) EXCEPT !.req = q] : q \in Request[grant[g].type]}
             Subs == UNION {Sub(g) : g \in {x \in 1 .. issued : grant[x] # NoGrant}}
             Revokes == {Cmd("revoke", g, 0, 0) : g \in 1 .. issued}
             Msis == {Cmd("msi", g, 0, 0) : g \in {x \in Grant : grant[x].type = "irq"}}
             Takes == {Cmd("claim", g, 0, 0) :
                          g \in {x \in Grant :
                                    grant[x].type = "irq" /\ (k \in Careless \/ ~Unread(k, x))}}
             Drops == {Cmd("release", r, route[r].gen, 0) : r \in Route}
  <2>1. Choices(k) = Subs \cup Revokes \cup Msis \cup Takes \cup Drops
    BY Zenon DEF Choices
  <2>2. ASSUME c \in Subs
        PROVE  \E g \in 1 .. issued : \E q \in Request[grant[g].type] :
                  c = [Cmd("subgrant", g, 0, 0) EXCEPT !.req = q]
    <3>1. PICK g \in {x \in 1 .. issued : grant[x] # NoGrant} : c \in Sub(g)
      BY <2>2, Zenon
    <3> QED
      BY <3>1, Zenon
  <2>3. c \in Takes =>
           \E g \in Grant : c = Cmd("claim", g, 0, 0) /\ (k \in Careless \/ ~Unread(k, g))
    BY Zenon
  <2>4. c \in Msis => \E g \in Grant : c = Cmd("msi", g, 0, 0)
    BY Zenon
  <2>5. c \in Revokes => \E g \in 1 .. issued : c = Cmd("revoke", g, 0, 0)
    BY Zenon
  <2>6. c \in Drops => \E r \in Route : c = Cmd("release", r, route[r].gen, 0)
    BY Zenon
  <2> HIDE DEF Subs, Revokes, Msis, Takes, Drops
  <2>7. c \in Subs \/ c \in Revokes \/ c \in Msis \/ c \in Takes \/ c \in Drops
    BY <2>1, Zenon
  <2> QED
    BY <2>2, <2>3, <2>4, <2>5, <2>6, <2>7, Zenon
<1>3. CASE \E g \in 1 .. issued : \E q \in Request[grant[g].type] :
              c = [Cmd("subgrant", g, 0, 0) EXCEPT !.req = q]
  <2>1. c.op = "subgrant" /\ c.req \in Request[grant[c.a].type]
    BY <1>1, <1>3, Zenon
  <2> QED
    BY <2>1, Zenon DEF Ops, Owing
<1>4. CASE \E g \in 1 .. issued : c = Cmd("revoke", g, 0, 0)
  BY <1>4, SMTT(60) DEF Cmd, Ops, Owing
<1>5. CASE \E g \in Grant : c = Cmd("msi", g, 0, 0)
  BY <1>5, SMTT(60) DEF Cmd, Ops, Owing
<1>6. CASE \E g \in Grant : c = Cmd("claim", g, 0, 0) /\ (k \in Careless \/ ~Unread(k, g))
  <2>1. PICK g \in Grant : c = Cmd("claim", g, 0, 0) /\ (k \in Careless \/ ~Unread(k, g))
    BY <1>6, Zenon
  <2>2. c.op = "claim" /\ c.a = g
    BY <2>1, Zenon DEF Cmd
  <2> QED
    BY <2>1, <2>2, Zenon DEF Ops, Owing
<1>7. CASE \E r \in Route : c = Cmd("release", r, route[r].gen, 0)
  BY <1>7 DEF Cmd, Ops, Owing
<1> QED
  BY <1>2, <1>3, <1>4, <1>5, <1>6, <1>7, Zenon

\* A client submits a command of its choice.
LEMMA ChooseStep ==
    ASSUME RingInv, NEW k \in Ring, Choose(k)
    PROVE  RingInv'
<1>c. PICK c \in Choices(k) : DrainBegin(k, c) /\ client' = [client EXCEPT ![k] = c]
  BY Zenon DEF Choose
<1>f. /\ c.op \in Ops \ Owing
      /\ c.op = "release" => c.a \in Route
      /\ c.op = "subgrant" => c.req \in Request[grant[c.a].type]
      /\ c.op = "claim" => k \in Careless \/ ~Unread(k, c.a)
  BY ChoiceFacts, Zenon
<1>u. /\ umem = Idle /\ client[k] = Ready
      /\ umem' = [at |-> "exec", ring |-> k, cmd |-> c, left |-> Claims(k)]
      /\ client' = [client EXCEPT ![k] = c]
      /\ cq' = cq /\ rung' = rung /\ route' = route
      /\ masked' = masked /\ grant' = grant /\ line' = line /\ irr' = irr /\ raises' = raises
  BY <1>c, <1>f, Zenon DEF Choose, DrainBegin, grantVars, routeVars, ringVars, deviceVars, Owing
<1>h. /\ umem.at = "idle" /\ umem'.at = "exec" /\ umem'.ring = k
      /\ umem'.cmd = c /\ umem'.left = Claims(k) /\ client'[k] = c /\ c # Gone /\ Ready # Gone
      /\ \A j \in Ring : j # k => client'[j] = client[j]
  BY <1>u, <1>f, SMTT(60) DEF Idle, RingInv, Typed, Gone, Ready, Cmd, Ops, Owing
<1>1. Typed'
  BY <1>u, Zenon DEF RingInv, Typed
<1>2. Draining'
  BY <1>f, <1>h, <1>u, Zenon DEF Draining, Drains, Claims, Ops
<1>3. \A j \in Ring : Doing(j, client[j])'
  <2>1. Doing(k, client[k])'
    BY <1>f, <1>h, Zenon DEF Doing, Drains, Owing
  <2>2. ASSUME NEW j \in Ring, j # k PROVE Doing(j, client[j])'
    BY <2>2, <1>h, Zenon DEF RingInv, Control, Doing, Drains
  <2> QED
    BY <2>1, <2>2, Zenon
<1>4. Freed'
  <2> SUFFICES ASSUME NEW j \in Ring, client'[j] = Gone PROVE Claims(j)' = {} /\ cq'[j] = <<>>
    BY Zenon DEF Freed
  <2>1. Claims(j) = {} /\ cq[j] = <<>>
    BY <1>h, Zenon DEF RingInv, Freed
  <2> QED
    BY <2>1, <1>u, Zenon DEF Claims, Route
<1>5. Announced'
  <2> SUFFICES ASSUME NEW r \in Route, NEW j \in Ring, route[r].ring = j, client'[j] # Gone,
                      Stuck(r, j), j # k
               PROVE  ~rung[j]
    BY <1>h, <1>u, Zenon DEF Announced, InDrain, Drains, Stuck
  <2> QED
    BY <1>h, Zenon DEF RingInv, Announced, InDrain, Drains
<1>6. Numbered'
  <2>1. ASSUME NEW r \in Pin, NEW j \in Ring \ Careless, route[r].ring = j, client'[j] # Gone
        PROVE  Sequence(r, j)'
    <3>1. Sequence(r, j)
      BY <2>1, <1>h, <1>u, Zenon DEF RingInv, Numbered
    <3>2. client'[j] = client[j] \/ client'[j].op # "ack"
      BY <1>h, <1>f, Zenon DEF Owing
    <3> QED
      BY <3>1, <3>2, <1>u, Zenon DEF Sequence, EventOf
  <2>2. Unread(k, c.a)' <=> Unread(k, c.a)
    BY <1>u, Zenon DEF Unread
  <2> QED
    BY <2>1, <2>2, <1>f, <1>h, <1>u, Zenon DEF Numbered
<1> QED
  BY <1>1, <1>2, <1>3, <1>4, <1>5, <1>6, Zenon DEF RingInv, Control

\* A client consumes a CQE.
LEMMA ConsumeStep ==
    ASSUME RingInv, NEW k \in Ring, kring_ack(k)
    PROVE  RingInv'
<1> PICK e : e = Head(cq[k])
  BY Zenon
<1>u. /\ client[k] = Ready /\ cq[k] # <<>> /\ cq' = [cq EXCEPT ![k] = Tail(cq[k])]
      /\ route' = Consumed(k) /\ rung' = [rung EXCEPT ![k] = FALSE]
      /\ line' = IF e.type = "irq" THEN [line EXCEPT ![e.route] = FALSE] ELSE line
      /\ client' = [client EXCEPT ![k] = IF e.type = "irq" THEN Cmd("ack", e.route, e.gen, e.seq)
                                         ELSE Cmd("none", 0, 0, 0)]
      /\ umem' = umem /\ masked' = masked /\ grant' = grant /\ irr' = irr /\ raises' = raises
  BY Zenon DEF kring_ack, grantVars
<1>t. /\ route \in [Route -> RouteRec] /\ cq \in [Ring -> Seq(EventRec)] /\ cq[k] \in Seq(EventRec)
      /\ line \in [Route -> BOOLEAN] /\ rung \in [Ring -> BOOLEAN] /\ Len(cq[k]) <= Slots
      /\ client = [j \in Ring |-> client[j]]
  BY Zenon DEF RingInv, Typed
<1>e. /\ e \in EventRec /\ 1 \in DOMAIN cq[k] /\ e = cq[k][1]
      /\ e.type = "irq" => e.route \in Route /\ e.seq \in Nat
  <2>1. e \in EventRec /\ 1 \in DOMAIN cq[k] /\ e = cq[k][1]
    BY <1>u, <1>t
  <2>2. Done.type # "irq"
    BY Zenon DEF Done, Event
  <2> QED
    BY <2>1, <2>2, Zenon DEF EventRec
<1>q. /\ cq' \in [Ring -> Seq(EventRec)] /\ Len(cq'[k]) <= Slots
      /\ \A j \in Ring : j # k => cq'[j] = cq[j]
      /\ \A i \in DOMAIN cq'[k] : i + 1 \in DOMAIN cq[k] /\ cq'[k][i] = cq[k][i + 1]
  <2>1. /\ Tail(cq[k]) \in Seq(EventRec) /\ Len(Tail(cq[k])) = Len(cq[k]) - 1
        /\ DOMAIN cq[k] = 1 .. Len(cq[k]) /\ Len(cq[k]) \in Nat /\ Slots \in Nat
        /\ \A i \in 1 .. Len(cq[k]) - 1 : Tail(cq[k])[i] = cq[k][i + 1]
    BY <1>u, <1>t, IrqAssumption, SMTT(60)
  <2>2. cq'[k] = Tail(cq[k])
    BY <1>u, <1>t, Zenon
  <2>3. DOMAIN cq'[k] = 1 .. Len(cq[k]) - 1
    BY <2>1, <2>2, SMTT(60)
  <2>4. cq' \in [Ring -> Seq(EventRec)] /\ \A j \in Ring : j # k => cq'[j] = cq[j]
    BY <2>1, <1>u, <1>t, Zenon
  <2> QED
    BY <2>1, <2>2, <2>3, <2>4, <1>t, SMTT(60)
<1>r. /\ route' \in [Route -> RouteRec]
      /\ \A r \in Route : /\ route'[r].ring = route[r].ring /\ route'[r].raised = route[r].raised
                          /\ route'[r].acked = route[r].acked
                          /\ route'[r].allocated = route[r].allocated
                          /\ route[r].ring # k => route'[r] = route[r]
  <2>1. route' = [r \in Route |-> IF route[r].ring = k /\ route[r].ev > 0
                                  THEN [route[r] EXCEPT !.ev = route[r].ev - 1] ELSE route[r]]
    BY <1>u, Zenon DEF Consumed
  <2>2. ASSUME NEW r \in Route, route[r].ev > 0
        PROVE  [route[r] EXCEPT !.ev = route[r].ev - 1] \in RouteRec
    <3>1. route[r] \in RouteRec /\ route[r].ev \in NoEvent .. Slots
      BY <1>t, Zenon DEF RouteRec
    <3>2. route[r].ev - 1 \in NoEvent .. Slots
      BY <2>2, <3>1, IrqAssumption DEF NoEvent
    <3> QED
      BY <3>1, <3>2, Zenon DEF RouteRec
  <2>3. route' \in [Route -> RouteRec]
    BY <2>1, <2>2, <1>t, Zenon
  <2> QED
    BY <2>1, <2>3, <1>t, Zenon DEF RouteRec
<1>h. /\ \A j \in Ring : j # k => client'[j] = client[j] /\ rung'[j] = rung[j]
      /\ ~rung'[k] /\ client'[k].op \in Owing
      /\ client'[k].op = "ack" => /\ e.type = "irq" /\ client'[k].a = e.route
                                  /\ client'[k].c = e.seq
      /\ client'[k] # Gone /\ Ready # Gone
  BY <1>u, <1>t, Zenon DEF Cmd, Owing, Gone, Ready
<1>d. umem = Idle \/ (Draining /\ umem.ring # k)
  <2>1. Ready.op = "ready" /\ Gone.op = "gone"
    BY Zenon DEF Ready, Gone, Cmd
  <2> QED
    BY <2>1, <1>u, Zenon DEF RingInv, Control, Draining, Ops, Owing
<1>i. ~InDrain(k)
  BY <1>d, SMTT(60) DEF InDrain, Idle, Drains
<1>1. Typed'
  <2>1. line' \in [Route -> BOOLEAN] /\ rung' \in [Ring -> BOOLEAN]
    BY <1>u, <1>t, <1>e, Zenon
  <2>2. client' = [j \in Ring |-> client'[j]]
    BY <1>u, <1>t, Zenon
  <2> QED
    BY <2>1, <2>2, <1>u, <1>q, <1>r, ZenonT(60) DEF RingInv, Typed, Route
<1>2. Control'
  <2>1. Doing(k, client[k])'
    BY <1>h, <1>e, Zenon DEF Doing, Owing
  <2>2. ASSUME NEW j \in Ring, j # k PROVE Doing(j, client[j])'
    BY <2>2, <1>h, <1>u, SMTT(60) DEF RingInv, Control, Doing
  <2>3. Idle' = Idle
    BY Zenon DEF Idle
  <2>4. Draining /\ umem.ring # k => Draining'
    BY <1>h, <1>u, Zenon DEF Draining
  <2> QED
    BY <2>1, <2>2, <2>3, <2>4, <1>d, <1>u, Zenon DEF Control
<1>3. Freed'
  <2> SUFFICES ASSUME NEW j \in Ring, client'[j] = Gone
               PROVE  \/ umem.at = "destroy" /\ umem.ring = j /\ Claims(j)' \subseteq umem.left
                      \/ Claims(j)' = {} /\ cq'[j] = <<>>
    BY <1>u, Zenon DEF Freed
  <2>1. j # k /\ client[j] = Gone /\ cq'[j] = cq[j]
    BY <1>h, <1>q, Zenon
  <2>2. Claims(j)' = Claims(j)
    BY <1>r, Zenon DEF Claims, Route
  <2> QED
    BY <2>1, <2>2, Zenon DEF RingInv, Freed
<1>4. Announced'
  <2> SUFFICES ASSUME NEW r \in Route, NEW j \in Ring, route'[r].ring = j, client'[j] # Gone,
                      Stuck(r, j)', j # k
               PROVE  \/ InDrain(j) /\ (umem.at = "replay" => r \in umem.left)
                      \/ ~InDrain(j) /\ ~rung'[j]
    BY <1>u, <1>h, <1>i, Zenon DEF Announced, InDrain
  <2>1. route'[r] = route[r] /\ cq'[j] = cq[j] /\ client'[j] = client[j] /\ rung'[j] = rung[j]
    BY <1>r, <1>q, <1>h, Zenon
  <2> QED
    BY <2>1, Zenon DEF RingInv, Announced, Stuck
<1>5. Numbered'
  <2>1. ASSUME NEW r \in Pin, NEW j \in Ring \ Careless, route'[r].ring = j, client'[j] # Gone
        PROVE  Sequence(r, j)'
    <3>0. r \in Route
      BY Zenon DEF Route
    <3>1. Sequence(r, j)
      <4>1. Ready # Gone
        BY DEF Ready, Gone, Cmd
      <4>2. client[j] # Gone
        BY <2>1, <4>1, <1>u, <1>h, Zenon
      <4>3. route[r].ring = j
        BY <2>1, <3>0, <1>r, Zenon
      <4> QED
        BY <2>1, <4>2, <4>3, Zenon DEF RingInv, Numbered
    <3>2. CASE j # k
      <4>1. cq'[j] = cq[j] /\ client'[j] = client[j]
        BY <3>2, <1>q, <1>h, Zenon
      <4> QED
        BY <4>1, <3>0, <3>1, <1>r, <1>u, ZenonT(60) DEF Sequence, EventOf
    <3>3. CASE j = k
      <4>1. ASSUME NEW i \in DOMAIN cq'[k], EventOf(r, k, i)' PROVE cq'[k][i].seq <= route'[r].raised
        <5>1. PICK n \in DOMAIN cq[k] : cq'[k][i] = cq[k][n]
          BY <4>1, <1>q, Zenon
        <5>2. EventOf(r, k, n)
          BY <4>1, <5>1, Zenon DEF EventOf
        <5>3. cq[k][n].seq <= route[r].raised
          BY <3>1, <3>3, <5>1, <5>2, Zenon DEF Sequence
        <5>4. route'[r].raised = route[r].raised
          BY <3>0, <1>r, Zenon
        <5> QED
          BY <5>1, <5>3, <5>4, Zenon
      <4>2. client'[k].op = "ack" /\ client'[k].a = r => client'[k].c <= route'[r].raised
        BY <3>0, <3>1, <3>3, <1>h, <1>e, <1>r, SMTT(60) DEF Sequence, EventOf
      <4>3. route'[r].acked <= route'[r].raised
            /\ (r \in Level /\ masked'[r] => route'[r].raised # route'[r].acked)
        BY <3>0, <3>1, <1>r, <1>u, Zenon DEF Sequence
      <4> QED
        BY <4>1, <4>2, <4>3, <3>3, Zenon DEF Sequence
    <3> QED
      BY <3>2, <3>3, Zenon
  <2>2. ASSUME NEW j \in Ring \ Careless, umem.at = "exec", umem.ring = j, umem.cmd.op = "claim",
               Unread(j, umem.cmd.a)'
        PROVE  route'[grant[umem.cmd.a].right[1]].ring # Nil
    <3>1. j # k /\ cq'[j] = cq[j] /\ cq[j] \in Seq(EventRec)
      BY <2>2, <1>d, <1>q, <1>t, SMTT(60) DEF Idle
    <3>2. Unread(j, umem.cmd.a)
      BY <2>2, <3>1, <1>u, Zenon DEF Unread
    <3> PICK q : q = grant[umem.cmd.a].right[1]
      BY Zenon
    <3>3. PICK i \in DOMAIN cq[j] : cq[j][i].type = "irq" /\ cq[j][i].route = q
      BY <3>2, Zenon DEF Unread
    <3>4. q \in Route
      <4>1. cq[j][i] \in EventRec
        BY <3>1, <3>3
      <4>2. Done.type # "irq"
        BY Zenon DEF Done, Event
      <4> QED
        BY <4>1, <4>2, <3>3, Zenon DEF EventRec
    <3>5. route[q].ring # Nil
      BY <2>2, <3>2, Zenon DEF RingInv, Numbered
    <3> QED
      BY <3>4, <3>5, <1>r, Zenon
  <2> QED
    BY <2>1, <2>2, <1>u, Zenon DEF Numbered
<1> QED
  BY <1>1, <1>2, <1>3, <1>4, <1>5, Zenon DEF RingInv

-----------------------------------------------------------------------------
\* The invariant, and what follows from it.

\* Boot: wildcard roots, no claims, empty rings.
LEMMA InitIInv ==
    ASSUME InitIrq
    PROVE  IInv
<1>1. GrantInv
  <2>1. PICK roots \in Roots :
           /\ grant = [g \in Grant |-> IF g \in 1 .. Len(roots)
                                       THEN [NoGrant EXCEPT !.type = roots[g], !.wild = TRUE]
                                       ELSE NoGrant]
           /\ issued = Len(roots)
    BY Zenon DEF InitIrq
  <2>2. Len(roots) \in 0 .. GrantMax /\ GrantMax \in Nat /\ MaxDepth \in Nat
        /\ \A g \in 1 .. Len(roots) : roots[g] \in Kinds
    <3>1. roots \in Seq(Kinds) /\ Len(roots) <= GrantMax
      BY RootsAssumption, Zenon DEF Kinds
    <3>2. GrantMax \in Nat /\ MaxDepth \in Nat
      BY IrqAssumption, Zenon
    <3>3. Len(roots) \in Nat /\ \A g \in 1 .. Len(roots) : roots[g] \in Kinds
      BY <3>1
    <3> QED
      BY <3>1, <3>2, <3>3, SMTT(60)
  <2>3. ASSUME NEW g \in Grant
        PROVE  /\ GrantShape(grant[g])
               /\ g > issued => grant[g] = NoGrant
               /\ grant[g] # NoGrant => Placed(grant[g])
    <3>1. CASE g \in 1 .. Len(roots)
      <4>1. grant[g] = [type |-> roots[g], parent |-> 0, depth |-> 0, wild |-> TRUE,
                        dead |-> FALSE, right |-> Nil]
        BY <3>1, <2>1, Zenon DEF NoGrant
      <4>2. ~(g > issued)
        <5> PICK n : n = Len(roots)
          BY Zenon
        <5>1. n \in 0 .. GrantMax /\ GrantMax \in Nat
          BY <2>2, Zenon
        <5>2. g \in 1 .. n /\ issued = n
          BY <3>1, <2>1, Zenon
        <5> QED
          BY <5>1, <5>2
      <4> QED
        BY <4>1, <4>2, <3>1, <2>2, SMTT(60) DEF GrantShape, Placed
    <3>2. CASE g \notin 1 .. Len(roots)
      <4>1. grant[g] = NoGrant
        BY <3>2, <2>1, Zenon
      <4> QED
        BY <4>1, <2>2 DEF GrantShape, NoGrant
    <3> QED
      BY <3>1, <3>2, Zenon
  <2> QED
    BY <2>1, <2>2, <2>3, Zenon DEF GrantInv
<1>i. /\ route = [r \in Route |-> [ring |-> Nil, raised |-> 0, acked |-> 0, ev |-> NoEvent,
                                   gen |-> 0, allocated |-> FALSE]]
      /\ masked = [r \in Pin |-> TRUE] /\ line = [r \in Route |-> FALSE]
      /\ irr = [r \in Route |-> FALSE] /\ raises = RaiseMax
      /\ cq = [k \in Ring |-> <<>>] /\ rung = [k \in Ring |-> TRUE]
      /\ client = [k \in Ring |-> Ready] /\ umem = Idle
  BY Zenon DEF InitIrq
<1>n. Nil \notin Ring /\ Slots \in Nat /\ GenMod \in Nat /\ GenMod > 1
      /\ RaiseMax \in [Route -> Nat] /\ umem.at = "idle" /\ Ready.op = "ready" /\ Ready # Gone
  BY <1>i, IrqAssumption DEF Route, Idle, Ready, Gone, Cmd
<1>2. Typed
  <2>1. [ring |-> Nil, raised |-> 0, acked |-> 0, ev |-> NoEvent, gen |-> 0, allocated |-> FALSE]
           \in RouteRec
    BY <1>n DEF RouteRec, NoEvent
  <2>2. route \in [Route -> RouteRec] /\ \A r \in Msi : route[r].ring = Nil
    BY <2>1, <1>i, Zenon DEF Route
  <2>3. cq \in [Ring -> Seq(EventRec)] /\ \A k \in Ring : Len(cq[k]) <= Slots
    BY <1>i, <1>n
  <2> QED
    BY <2>2, <2>3, <1>i, <1>n, Zenon DEF Typed
<1>3. Control
  BY <1>i, <1>n, Zenon DEF Control, Doing
<1>4. Freed
  BY <1>i, <1>n, Zenon DEF Freed
<1>5. Announced /\ Numbered
  <2>1. \A r \in Route : route[r].ring = Nil
    BY <1>i, Zenon
  <2>2. \A r \in Pin : route[r].ring = Nil
    BY <2>1, Zenon DEF Route
  <2> QED
    BY <2>1, <2>2, <1>n, Zenon DEF Announced, Numbered
<1> QED
  BY <1>1, <1>2, <1>3, <1>4, <1>5, Zenon DEF IInv, RingInv

\* Every step of the routes, the rings, the devices and the clients keeps it.
LEMMA NextIInv ==
    ASSUME IInv, [IrqNext]_irqVars
    PROVE  IInv'
<1>1. CASE irq_exec
  BY <1>1, ExecStep, Zenon DEF IInv
<1>2. CASE UNCHANGED grantVars /\ RingInv'
  BY <1>2, GrantFrame, Zenon DEF IInv
<1>3. CASE channel_post
  <2>1. UNCHANGED grantVars
    BY <1>3, Zenon DEF channel_post
  <2> QED
    BY <2>1, <1>2, <1>3, CompleteStep, Zenon DEF IInv
<1>4. CASE irq_replay
  <2>1. UNCHANGED grantVars
    BY <1>4, Zenon DEF irq_replay
  <2> QED
    BY <2>1, <1>2, <1>4, ReplayStep, SMTT(60) DEF IInv
<1>5. CASE DrainEnd
  <2>1. UNCHANGED grantVars
    BY <1>5, Zenon DEF DrainEnd
  <2> QED
    BY <2>1, <1>2, <1>5, DrainEndStep DEF IInv
<1>6. CASE irq_endpoint_destroy
  <2>1. UNCHANGED grantVars
    BY <1>6, Zenon DEF irq_endpoint_destroy
  <2> QED
    BY <2>1, <1>2, <1>6, DetachStep DEF IInv
<1>7. CASE channel_ring_destroy
  <2>1. UNCHANGED grantVars
    BY <1>7, Zenon DEF channel_ring_destroy
  <2> QED
    BY <2>1, <1>2, <1>7, RingDestroyStep DEF IInv
<1>8. ASSUME NEW r \in Route, irq_deliver(r) PROVE IInv'
  <2>1. UNCHANGED grantVars
    BY <1>8, Zenon DEF irq_deliver
  <2> QED
    BY <2>1, <1>2, <1>8, DeliverStep, Zenon DEF IInv
<1>9. ASSUME NEW r \in Route, Raise(r) \/ LevelFires(r) PROVE IInv'
  <2>1. UNCHANGED grantVars
    BY <1>9, Zenon DEF Raise, LevelFires
  <2> QED
    BY <2>1, <1>2, <1>9, DeviceStep, Zenon DEF IInv
<1>10. ASSUME NEW k \in Ring, kring_ack(k) PROVE IInv'
  <2>1. UNCHANGED grantVars
    BY <1>10, Zenon DEF kring_ack
  <2> QED
    BY <2>1, <1>2, <1>10, ConsumeStep, Zenon DEF IInv
<1>11. ASSUME NEW k \in Ring, kring_submit(k) PROVE IInv'
  <2>1. UNCHANGED grantVars
    BY <1>11, Zenon DEF kring_submit
  <2> QED
    BY <2>1, <1>2, <1>11, SubmitStep, SMTT(60) DEF IInv
<1>12. ASSUME NEW k \in Ring, Choose(k) PROVE IInv'
  <2>1. UNCHANGED grantVars
    BY <1>12, Zenon DEF Choose
  <2> QED
    BY <2>1, <1>2, <1>12, ChooseStep DEF IInv
<1>13. ASSUME NEW k \in Ring, FreeBegin(k) PROVE IInv'
  <2>1. UNCHANGED grantVars
    BY <1>13, Zenon DEF FreeBegin
  <2> QED
    BY <2>1, <1>2, <1>13, FreeStep DEF IInv
<1>14. CASE UNCHANGED irqVars
  <2>1. UNCHANGED grantVars
    BY <1>14, Zenon DEF irqVars
  <2>2. UNCHANGED <<route, masked, line, irr, raises, cq, rung, client, umem, grant>>
    BY <1>14, Zenon DEF irqVars, grantVars, routeVars, deviceVars, ringVars
  <2>3. Typed' /\ Control' /\ Freed' /\ Announced'
    BY <2>2, SMTT(60) DEF IInv, RingInv, Typed, Control, Doing, Draining, Freed, Claims, Announced, Stuck, InDrain
  <2>4. Numbered'
    BY <2>2, Zenon DEF IInv, RingInv, Numbered, Sequence, EventOf, Unread
  <2> QED
    BY <2>1, <2>3, <2>4, <1>2, Zenon DEF RingInv
<1> QED
  BY <1>1, <1>3, <1>4, <1>5, <1>6, <1>7, <1>8, <1>9, <1>10, <1>11, <1>12, <1>13, <1>14, Zenon
     DEF IrqNext, Drain

\* A step that changes the grants revives none of those that do not resolve.
LEMMA ExecRevives ==
    ASSUME IInv, IInv', irq_exec, ~UNCHANGED grantVars,
           NEW g \in 1 .. issued, ~token_resolve(g, Nil)
    PROVE  ~token_resolve(g, Nil)'
<1> PICK k, c : k = umem.ring /\ c = umem.cmd
  BY Zenon
<1>0. Accepts(k, c) /\ Execute(k, c) /\ GrantInv /\ GrantInv'
  BY Zenon DEF irq_exec, IInv
<1>1. CASE c.op = "subgrant" /\ subgrant(c.a, c.req)
  <2>0. MayGrant(c.a) /\ issued < GrantMax
    BY <1>0, <1>1, Zenon DEF Accepts, MayGrant
  <2>1. CASE Allowed(grant[c.a], c.req)
    <3>1. grant_new(c.a, grant[c.a].type, RightOf(grant[c.a], c.req))
      BY <2>1, <1>1, Zenon DEF subgrant
    <3> QED
      BY <3>1, <2>0, <1>0, NewRevives, Zenon
  <2>2. CASE ~Allowed(grant[c.a], c.req)
    <3>1. grant' = grant
      BY <2>2, <1>1, Zenon DEF subgrant
    <3>2. Chain(g)' = Chain(g)
      BY <3>1, ChainIs, Zenon
    <3>3. Exists(g)' => Exists(g)
      BY <3>1, Zenon DEF Exists
    <3>4. Alive(g)' => Alive(g)
      BY <3>1, <3>2, Zenon DEF Alive
    <3> QED
      BY <3>3, <3>4, Zenon DEF token_resolve
  <2> QED
    BY <2>1, <2>2, Zenon
<1>2. CASE c.op = "revoke" /\ revoke_step(c.a)
  <2>1. Exists(c.a)
    BY <1>0, <1>2, Zenon DEF Accepts
  <2> QED
    BY <2>1, <1>0, <1>2, RevokeRevives, Zenon
<1>3. CASE c.op = "msi" /\ allocate_msi_on_ring(k, c.a)
  <2>1. PICK r \in FreeMsi : /\ grant[c.a].wild /\ MayGrant(c.a)
                             /\ grant_new(c.a, "irq", <<r, NextGen(route[r].gen)>>)
    BY <1>3, Zenon DEF allocate_msi_on_ring
  <2>2. issued < GrantMax
    BY <2>1, Zenon DEF MayGrant
  <2> QED
    BY <2>1, <2>2, <1>0, NewRevives, Zenon
<1>4. ~(c.op = "claim" /\ claim(k, c.a)) /\ ~(c.op = "release" /\ release(c.a))
      /\ ~(c.op = "ack" /\ ack(c.a, c.c))
  BY Zenon DEF claim, release, ack
<1> QED
  BY <1>0, <1>1, <1>2, <1>3, <1>4, Zenon DEF Execute

\* The inductive invariant holds in every state.
LEMMA Invariant ==
    IrqSpec => []IInv
<1>1. InitIrq => IInv
  BY InitIInv, Zenon
<1>2. IInv /\ [IrqNext]_irqVars => IInv'
  BY NextIInv, Zenon
<1> QED
  BY <1>1, <1>2, PTL DEF IrqSpec

\* For any grant tree: no grant carries more than a grant it descends from, and no
\* memory range wraps (subgrant, capability.c).
THEOREM RightsShrink ==
    IrqSpec => []RightsOnlyShrink
<1>1. IInv => RightsOnlyShrink
  BY Shrinks, Zenon DEF IInv
<1> QED
  BY <1>1, Invariant, PTL

\* For any grant tree: a grant that stopped resolving never resolves again, because
\* ids are not used again and a dead grant outlives every grant below it (grant_new,
\* revoke_step, token_resolve).
THEOREM RevokedForGood ==
    IrqSpec => RevokedStaysRevoked
<1>1. ASSUME IInv, IInv', [IrqNext]_irqVars
      PROVE  [\A g \in 1 .. issued : ~token_resolve(g, Nil) => ~token_resolve(g, Nil)']_grantVars
  <2> SUFFICES ASSUME ~UNCHANGED grantVars, NEW g \in 1 .. issued, ~token_resolve(g, Nil)
               PROVE  ~token_resolve(g, Nil)'
    BY Zenon
  <2>1. irq_exec
    <3>1. ~UNCHANGED irqVars
      BY Zenon DEF irqVars
    <3>2. ~channel_post /\ ~irq_replay /\ ~DrainEnd /\ ~irq_endpoint_destroy
          /\ ~channel_ring_destroy
      BY Zenon DEF channel_post, irq_replay, DrainEnd, irq_endpoint_destroy, channel_ring_destroy
    <3>3. \A r \in Route : ~irq_deliver(r) /\ ~Raise(r) /\ ~LevelFires(r)
      BY Zenon DEF irq_deliver, Raise, LevelFires
    <3>4. \A k \in Ring : ~kring_ack(k) /\ ~kring_submit(k) /\ ~Choose(k) /\ ~FreeBegin(k)
      BY Zenon DEF kring_ack, kring_submit, Choose, FreeBegin
    <3> QED
      BY <1>1, <3>1, <3>2, <3>3, <3>4, Zenon DEF IrqNext, Drain
  <2> QED
    BY <2>1, <1>1, ExecRevives, Zenon
<1> QED
  BY <1>1, Invariant, PTL DEF IrqSpec, RevokedStaysRevoked

\* For any number of rings and routes: once the teardown of a ring is over no route
\* names it and no interrupt has posted to it (irq_endpoint_destroy,
\* channel_ring_destroy).
THEOREM FreedIsQuiet ==
    IrqSpec => []FreedRingQuiet
<1>1. IInv => TypeOK
  <2> SUFFICES ASSUME IInv PROVE TypeOK
    BY Zenon
  <2>1. issued \in 0 .. GrantMax
        /\ \A g \in Grant : grant[g].parent \in 0 .. GrantMax /\ grant[g].depth \in 0 .. MaxDepth
    BY Zenon DEF IInv, GrantInv, GrantShape
  <2>2. \A r \in Route : /\ route[r].ring \in Ring \cup {Nil}
                         /\ route[r].ev \in NoEvent .. Slots
                         /\ route[r].gen \in 0 .. GenMod - 1
    BY Zenon DEF IInv, RingInv, Typed, RouteRec
  <2>3. umem.at \in {"idle", "exec", "complete", "replay", "destroy"}
    BY DEF IInv, RingInv, Control, Draining, Drains, Idle
  <2>4. /\ masked \in [Pin -> BOOLEAN] /\ line \in [Route -> BOOLEAN] /\ irr \in [Route -> BOOLEAN]
        /\ rung \in [Ring -> BOOLEAN] /\ \A k \in Ring : Len(cq[k]) <= Slots
    BY Zenon DEF IInv, RingInv, Typed
  <2> QED
    BY <2>1, <2>2, <2>3, <2>4, Zenon DEF TypeOK
<1>2. IInv => \A k \in Ring : (client[k] = Gone /\ umem = Idle) => Claims(k) = {} /\ cq[k] = <<>>
  BY DEF IInv, RingInv, Freed, Idle
<1>3. IInv => FreedRingQuiet
  BY <1>1, <1>2, Zenon DEF FreedRingQuiet
<1> QED
  BY <1>3, Invariant, PTL

\* For any number of rings and routes: an interrupt that is not acked is in its CQ
\* unless that is full or its client owes a doorbell, and a level input of a client
\* that reads its ring before it claims again stays masked only for one that is not
\* acked (irq_deliver, ack, irq_replay).
THEOREM NotStranded ==
    IrqSpec => []IrqNotStranded
<1>1. IInv => IrqNotStranded
  <2> SUFFICES ASSUME IInv, NEW r \in Route, route[r].ring # Nil, client[route[r].ring] # Gone
               PROVE  /\ (route[r].raised # route[r].acked /\ rung[route[r].ring] /\ umem = Idle)
                            => route[r].ev > 0 \/ Full(cq[route[r].ring])
                      /\ (r \in Level /\ masked[r] /\ route[r].ring \notin Careless)
                            => route[r].raised # route[r].acked
    BY Zenon DEF IrqNotStranded
  <2> PICK k : k = route[r].ring
    BY Zenon
  <2>1. k \in Ring /\ route[r].ev \in Int
    <3>1. route[r] \in RouteRec /\ NoEvent .. Slots \subseteq Int
      BY IrqAssumption, SMTT(60) DEF IInv, RingInv, Typed, NoEvent
    <3> QED
      BY <3>1, Zenon DEF RouteRec
  <2>2. umem = Idle => ~InDrain(k)
    BY DEF Idle, InDrain, Drains
  <2>3. r \in Level /\ k \notin Careless => Sequence(r, k)
    BY <2>1, IrqAssumption, Zenon DEF IInv, RingInv, Numbered
  <2>4. umem = Idle /\ rung[k] => ~Stuck(r, k)
    BY <2>1, <2>2, Zenon DEF IInv, RingInv, Announced
  <2> QED
    BY <2>1, <2>3, <2>4, SMTT(60) DEF Sequence, Stuck
<1> QED
  BY <1>1, Invariant, PTL
=============================================================================
