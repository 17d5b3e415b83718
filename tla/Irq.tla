-------------------------------- MODULE Irq --------------------------------
(***************************************************************************)
(* Interrupts to user drivers: capability grants (capability.c), the IRQ   *)
(* scheme's routes (schemes/irq.c) over the IOAPIC (ioapic.c), and the     *)
(* ring client of gdoslib (kring.c).                                       *)
(*                                                                         *)
(* A drain holds g_umem for its command, the completion and the replay,    *)
(* but irq_deliver takes only the lock of its route: interrupts arrive     *)
(* between the steps of a drain.  Each section under one route lock is an  *)
(* action.  A token is a grant id; that it cannot be forged is SipHash's   *)
(* part and is taken as given.                                             *)
(***************************************************************************)
EXTENDS Integers, Sequences, FiniteSets

CONSTANTS
    Ring,       \* IRQ rings, one client each
    Careless,   \* the rings whose client may claim a pin again with events of an
                \* earlier claim of it unread
    Pin,        \* route indexes with an IOAPIC input behind them
    Level,      \* the level-triggered ones
    Msi,        \* route indexes without one
    Slots,      \* CQ slots of a ring
    Roots,      \* which of the wildcard grants made at boot the clients hold: their types
    Request,    \* subgrant requests clients make, by type
    MaxDepth,   \* KCAP_MAX_DEPTH
    GrantMax,   \* bound: grants made
    GenMod,     \* 2^16: route generations wrap
    AddrMod,    \* 2^64: addresses wrap
    RaiseMax,   \* bound: interrupts each device raises: Route -> Nat
    CmdMax,     \* bound: commands clients choose to submit
    Nil

ASSUME IrqAssumption ==
    /\ Pin \subseteq Nat /\ Msi \subseteq Nat /\ Pin \cap Msi = {} /\ Level \subseteq Pin
    /\ \A n \in {Slots, MaxDepth, GrantMax, AddrMod} : n \in Nat \ {0}
    /\ GenMod \in Nat \ {0, 1}
    /\ Careless \subseteq Ring /\ Nil \notin Ring /\ Nil # "irq"
    /\ RaiseMax \in [Pin \cup Msi -> Nat]

ASSUME RootsAssumption ==
    /\ Roots \subseteq Seq({"devmem", "irq", "iommu"})
    /\ \A roots \in Roots : Len(roots) <= GrantMax

ASSUME RequestAssumption ==
    \A q \in Request["devmem"] : /\ "p0" \in q.present => q["p0"] \in Nat
                                 /\ "p1" \in q.present => q["p1"] \in Nat

VARIABLES
    grant,      \* g_grants
    issued,     \* g_next_grant_id - 1
    route,      \* g_routes
    masked,     \* the mask bit of each pin's redirection entry
    line,       \* the device asserts its level line, or has an event to report
    irr,        \* an interrupt of this vector waits at the LAPIC
    raises,     \* bound: what each device may still raise
    cq,         \* CQEs posted and not consumed
    rung,       \* FALSE: the client has published a head and owes a doorbell
    client,     \* what each client must do next
    umem,       \* the drain that holds g_umem
    cmds

grantVars == <<grant, issued>>
routeVars == <<route, masked>>
deviceVars == <<line, irr, raises>>
ringVars == <<cq, rung>>
irqVars == <<grantVars, routeVars, deviceVars, ringVars, client, umem, cmds>>

Route == Pin \cup Msi
Grant == 1 .. GrantMax

-----------------------------------------------------------------------------
\* Capabilities.

NoGrant == [type |-> "none", parent |-> 0, depth |-> 0, wild |-> FALSE, dead |-> FALSE,
            right |-> Nil]

\* g and the grants above it: the least set that has g and the parent of each
\* member.
Upward(S) == \A x \in S : grant[x].parent # 0 => grant[x].parent \in S
Chain(g) ==
    LET closed == {S \in SUBSET Grant : g \in S /\ Upward(S)}
    IN  {a \in Grant : \A S \in closed : a \in S}
Alive(g) == \A a \in Chain(g) : ~grant[a].dead

Exists(g) == g \in 1 .. issued /\ grant[g] # NoGrant
token_resolve(g, type) ==
    /\ Exists(g)
    /\ type # Nil => grant[g].type = type
    /\ Alive(g)

\* Mutant: the ids of deleted grants are used again.
grant_new_recycled(parent, type, right) ==
    LET id == CHOOSE g \in Grant : grant[g] = NoGrant /\ \A h \in 1 .. g - 1 : grant[h] # NoGrant
    IN  /\ grant' = [grant EXCEPT ![id] =
                        [type |-> type, parent |-> parent, depth |-> grant[parent].depth + 1,
                         wild |-> FALSE, dead |-> FALSE, right |-> right]]
        /\ issued' = IF id > issued THEN id ELSE issued
grant_new(parent, type, right) ==
    /\ grant' = [grant EXCEPT ![issued + 1] =
                    [type |-> type, parent |-> parent, depth |-> grant[parent].depth + 1,
                     wild |-> FALSE, dead |-> FALSE, right |-> right]]
    /\ issued' = issued + 1

MayGrant(parent) == grant[parent].depth < MaxDepth /\ issued < GrantMax

\* The descent along first_child: grant_new puts the newest child first.
FirstChild(c, g) == grant[c].parent = g /\ \A d \in Grant : grant[d].parent = g => d <= c
Downward(S) == \A x \in S, c \in Grant : FirstChild(c, x) => c \in S
Descent(g) ==
    LET closed == {S \in SUBSET Grant : g \in S /\ Downward(S)}
    IN  {a \in Grant : \A S \in closed : a \in S}
Leaf(g) == \A c \in Grant : grant[c].parent # g

\* One KCAP_REVOKE: the target dies at once, one leaf below it is deleted;
\* SYSERR_AGAIN until that leaf is the target.
revoke_step(g) ==
    /\ \E leaf \in Descent(g) :
          /\ Leaf(leaf)
          /\ grant' = [[grant EXCEPT ![g].dead = TRUE] EXCEPT ![leaf] = NoGrant]
    /\ UNCHANGED issued

add_overflows(base, len) == len = 0 \/ base + len >= AddrMod

Param(q, name, inherited) == IF name \in q.present THEN q[name] ELSE inherited

\* What a subgrant asks for, and whether it attenuates its parent.
DevmemRight(p, q) ==
    [base |-> Param(q, "p0", IF p.wild THEN 0 ELSE p.right.base),
     len |-> Param(q, "p1", IF p.wild THEN 0 ELSE p.right.len),
     flags |-> Param(q, "p2", IF p.wild THEN {} ELSE p.right.flags)]
\* Mutant: only the base of the range is checked against the parent's.
DevmemOkBase(p, q) ==
    LET r == DevmemRight(p, q) IN
    /\ p.wild => q.present = {"p0", "p1", "p2"}
    /\ ~add_overflows(r.base, r.len)
    /\ ~p.wild => p.right.base <= r.base /\ r.flags \subseteq p.right.flags
DevmemOk(p, q) ==
    LET r == DevmemRight(p, q) IN
    /\ p.wild => q.present = {"p0", "p1", "p2"}
    /\ ~add_overflows(r.base, r.len)
    /\ ~p.wild => /\ ~add_overflows(p.right.base, p.right.len)
                  /\ p.right.base <= r.base /\ r.base + r.len <= p.right.base + p.right.len
                  /\ r.flags \subseteq p.right.flags

RouteId(r) == <<r, route[r].gen>>
IrqRight(p, q) == IF p.wild THEN RouteId(q.p0) ELSE p.right
IrqOk(p, q) ==
    /\ q.present \subseteq {"p0"}
    /\ p.wild => "p0" \in q.present /\ q.p0 \in Pin
    /\ ~p.wild /\ "p0" \in q.present => <<q.p0, 0>> = p.right

IommuRight(p, q) == Param(q, "p0", p.right)
IommuOk(p, q) ==
    /\ q.present \subseteq {"p0"}
    /\ p.wild => "p0" \in q.present
    /\ ~p.wild => IommuRight(p, q) = p.right

Allowed(p, q) ==
    \/ p.type = "devmem" /\ DevmemOk(p, q)
    \/ p.type = "irq" /\ IrqOk(p, q)
    \/ p.type = "iommu" /\ IommuOk(p, q)
RightOf(p, q) ==
    CASE p.type = "devmem" -> DevmemRight(p, q)
      [] p.type = "irq" -> IrqRight(p, q)
      [] p.type = "iommu" -> IommuRight(p, q)

\* A request that does not attenuate is refused after its id was drawn.
subgrant(g, q) ==
    IF Allowed(grant[g], q) THEN grant_new(g, grant[g].type, RightOf(grant[g], q))
    ELSE issued' = issued + 1 /\ UNCHANGED grant

-----------------------------------------------------------------------------
\* Rings.

Event(type, r, gen, seq) == [type |-> type, route |-> r, gen |-> gen, seq |-> seq]
Done == Event("done", Nil, 0, 0)
Full(q) == Len(q) >= Slots

-----------------------------------------------------------------------------
\* Routes.  "ev" is where the route's event stands in the CQ: the number of
\* CQEs up to and including it that the client has not consumed.

NoEvent == -1
NextGen(n) == IF (n + 1) % GenMod = 0 THEN 1 ELSE n + 1
Claims(k) == {r \in Route : route[r].ring = k}
Room(k) == 2 * (Cardinality(Claims(k)) + 1) <= Slots

\* Mutant: a consumed event still counts as outstanding.
RetiredNever(x) == x

\* retire_locked and post_pending_locked on a route's next state x, with the CQs
\* as they are.
Retired(x) == [x EXCEPT !.ev = IF @ = 0 THEN NoEvent ELSE @]
Owes(x) == x.ring # Nil /\ Retired(x).ev = NoEvent /\ x.raised # x.acked
post_pending(r, x) ==
    LET k == x.ring
        post == Owes(x) /\ ~Full(cq[k])
    IN  /\ cq' = IF post THEN [cq EXCEPT ![k] = Append(@, Event("irq", r, x.gen, x.raised))]
                 ELSE cq
        /\ route' = [route EXCEPT ![r] =
                        IF post THEN [x EXCEPT !.ev = Len(cq[k]) + 1] ELSE Retired(x)]

\* The vector's handler on the boot CPU.  A level line is masked until its ack;
\* an interrupt nobody claims is masked for good.
irq_deliver(r) ==
    /\ irr[r]
    /\ irr' = [irr EXCEPT ![r] = FALSE]
    /\ IF route[r].ring = Nil
       THEN /\ masked' = IF r \in Pin THEN [masked EXCEPT ![r] = TRUE] ELSE masked
            /\ UNCHANGED <<route, cq>>
       ELSE /\ masked' = IF r \in Level THEN [masked EXCEPT ![r] = TRUE] ELSE masked
            /\ post_pending(r, [route[r] EXCEPT !.raised = @ + 1])
    /\ UNCHANGED <<grantVars, line, raises, rung, client, umem, cmds>>

Claimed(r, k, gen) ==
    [ring |-> k, raised |-> 0, acked |-> 0, ev |-> NoEvent, gen |-> gen,
     allocated |-> r \in Msi]

\* cap_irq_route: the grant names this generation of its route.
Current(g) == grant[g].right # Nil /\ grant[g].right = RouteId(grant[g].right[1])

MayClaim(k, g) ==
    LET r == grant[g].right[1] IN
    token_resolve(g, "irq") /\ Current(g) /\ Room(k) /\ route[r].ring = Nil /\ r \in Pin
\* Mutant: the input of the claimed route is left masked.
claimMasked(k, g) ==
    LET r == grant[g].right[1] IN
    /\ route' = [route EXCEPT ![r] = Claimed(r, k, @.gen)]
    /\ UNCHANGED <<grantVars, masked, cq>>
claim(k, g) ==
    LET r == grant[g].right[1] IN
    /\ route' = [route EXCEPT ![r] = Claimed(r, k, @.gen)]
    /\ masked' = [masked EXCEPT ![r] = FALSE]
    /\ UNCHANGED <<grantVars, cq>>

\* A released MSI route moves to a new generation: grants and acks for the old
\* one no longer name it.
Released(r) ==
    [route[r] EXCEPT !.ring = Nil, !.ev = NoEvent, !.allocated = FALSE,
                     !.gen = IF r \in Msi THEN NextGen(@) ELSE @]

route_for_id(r, gen) ==
    r \in Pin \/ (route[r].allocated /\ route[r].gen = gen /\ gen # 0)

MayUse(k, r, gen) == route_for_id(r, gen) /\ route[r].ring = k
release(r) ==
    /\ route' = [route EXCEPT ![r] = Released(r)]
    /\ masked' = IF r \in Pin THEN [masked EXCEPT ![r] = TRUE] ELSE masked
    /\ UNCHANGED <<grantVars, cq>>

ack(r, seq) ==
    /\ masked' = IF r \in Level THEN [masked EXCEPT ![r] = FALSE] ELSE masked
    /\ post_pending(r, [route[r] EXCEPT !.acked = seq])
    /\ UNCHANGED grantVars

FreeMsi == {r \in Msi : ~route[r].allocated}
MayAllocate(k, g) == token_resolve(g, "irq") /\ Room(k) /\ FreeMsi # {}
allocate_msi_on_ring(k, g) ==
    /\ \E r \in FreeMsi :
          LET gen == NextGen(route[r].gen) IN
          /\ \A y \in FreeMsi : y <= r
          /\ IF grant[g].wild /\ MayGrant(g)
             THEN /\ route' = [route EXCEPT ![r] = Claimed(r, k, gen)]
                  /\ grant_new(g, "irq", <<r, gen>>)
             ELSE /\ route' = [route EXCEPT ![r].gen = NextGen(gen)]
                  /\ UNCHANGED grantVars
    /\ UNCHANGED <<masked, cq>>

-----------------------------------------------------------------------------
\* A drain: command, completion, replay of each claim, under one g_umem hold.

Cmd(op, a, b, c) == [op |-> op, a |-> a, b |-> b, c |-> c, req |-> Nil]
Ready == Cmd("ready", 0, 0, 0)      \* the client may do as it likes
Gone == Cmd("gone", 0, 0, 0)        \* its ring is freed
Idle == [at |-> "idle"]

DrainBegin(k, c) ==
    /\ umem = Idle
    /\ umem' = [at |-> IF c.op = "none" THEN "replay" ELSE "exec", ring |-> k, cmd |-> c,
                left |-> Claims(k)]

\* What the commands of the IRQ and capability schemes do; one that is refused
\* completes with its error.
Accepts(k, c) ==
    /\ c.op = "subgrant" => token_resolve(c.a, Nil) /\ MayGrant(c.a)
    /\ c.op = "revoke" => Exists(c.a)
    /\ c.op = "claim" => MayClaim(k, c.a)
    /\ c.op = "msi" => MayAllocate(k, c.a)
    /\ c.op \in {"release", "ack"} => MayUse(k, c.a, c.b)

Execute(k, c) ==
    \/ c.op = "subgrant" /\ subgrant(c.a, c.req) /\ UNCHANGED <<route, masked, cq>>
    \/ c.op = "revoke" /\ revoke_step(c.a) /\ UNCHANGED <<route, masked, cq>>
    \/ c.op = "claim" /\ claim(k, c.a)
    \/ c.op = "msi" /\ allocate_msi_on_ring(k, c.a)
    \/ c.op = "release" /\ release(c.a)
    \/ c.op = "ack" /\ ack(c.a, c.c)

irq_exec ==
    /\ umem.at = "exec"
    /\ IF Accepts(umem.ring, umem.cmd) THEN Execute(umem.ring, umem.cmd)
       ELSE UNCHANGED <<grantVars, routeVars, cq>>
    /\ umem' = [umem EXCEPT !.at = "complete"]
    /\ UNCHANGED <<deviceVars, rung, client, cmds>>

channel_post ==
    /\ umem.at = "complete"
    /\ cq' = IF Full(cq[umem.ring]) THEN cq ELSE [cq EXCEPT ![umem.ring] = Append(@, Done)]
    /\ umem' = [umem EXCEPT !.at = "replay", !.left = Claims(umem.ring)]
    /\ UNCHANGED <<grantVars, routeVars, deviceVars, rung, client, cmds>>

irq_replay ==
    /\ umem.at = "replay" /\ umem.left # {}
    /\ \E r \in umem.left :
          /\ post_pending(r, route[r])
          /\ umem' = [umem EXCEPT !.left = @ \ {r}]
    /\ UNCHANGED <<grantVars, masked, deviceVars, rung, client, cmds>>

DrainEnd ==
    /\ umem.at = "replay" /\ umem.left = {}
    /\ umem' = Idle
    /\ rung' = [rung EXCEPT ![umem.ring] = TRUE]
    /\ client' = [client EXCEPT ![umem.ring] = Ready]
    /\ UNCHANGED <<grantVars, routeVars, deviceVars, cq, cmds>>

\* The block of an IRQ ring is freed: the claims go one by one, each under the
\* lock of its route, and with the last one the ring.
FreeBegin(k) ==
    /\ client[k] = Ready /\ umem = Idle /\ cmds < CmdMax
    /\ umem' = [at |-> "destroy", ring |-> k, cmd |-> Gone, left |-> Claims(k)]
    /\ client' = [client EXCEPT ![k] = Gone]
    /\ cmds' = cmds + 1
    /\ UNCHANGED <<grantVars, routeVars, deviceVars, ringVars>>

\* Mutant: only the claims with an IOAPIC input are walked.
DetachedPins(r) == IF r \in Pin THEN Released(r) ELSE route[r]
Detached(r) == Released(r)

irq_endpoint_destroy ==
    /\ umem.at = "destroy" /\ umem.left # {}
    /\ \E r \in umem.left :
          /\ route' = [route EXCEPT ![r] = Detached(r)]
          /\ masked' = IF r \in Pin THEN [masked EXCEPT ![r] = TRUE] ELSE masked
          /\ umem' = [umem EXCEPT !.left = @ \ {r}]
    /\ UNCHANGED <<grantVars, deviceVars, ringVars, client, cmds>>

channel_ring_destroy ==
    /\ umem.at = "destroy" /\ umem.left = {}
    /\ umem' = Idle
    /\ cq' = [cq EXCEPT ![umem.ring] = <<>>]
    /\ UNCHANGED <<grantVars, routeVars, deviceVars, rung, client, cmds>>

-----------------------------------------------------------------------------
\* Devices.  An edge on a masked input is lost, a level stays; a device sends the
\* message of an MSI slot once the slot has been allocated, even after that.

Raise(r) ==
    /\ raises[r] > 0 /\ (r \in Msi => route[r].gen # 0)
    /\ raises' = [raises EXCEPT ![r] = @ - 1]
    /\ IF r \in Level THEN line' = [line EXCEPT ![r] = TRUE] /\ UNCHANGED irr
       ELSE /\ irr' = [irr EXCEPT ![r] = @ \/ r \in Msi \/ ~masked[r]]
            /\ UNCHANGED line
    /\ UNCHANGED <<grantVars, routeVars, ringVars, client, umem, cmds>>

LevelFires(r) ==
    /\ r \in Level /\ line[r] /\ ~masked[r] /\ ~irr[r]
    /\ irr' = [irr EXCEPT ![r] = TRUE]
    /\ UNCHANGED <<grantVars, routeVars, line, raises, ringVars, client, umem, cmds>>

-----------------------------------------------------------------------------
\* Clients.

\* The CQEs of ring k after the first: events move up by one.
Consumed(k) ==
    [r \in Route |-> IF route[r].ring = k /\ route[r].ev > 0
                     THEN [route[r] EXCEPT !.ev = @ - 1] ELSE route[r]]

\* A CQE is consumed and its head published; a driver that got an interrupt
\* quiets its device and owes an ack, any other CQE owes the doorbell.
kring_ack(k) ==
    LET e == Head(cq[k]) IN
    /\ client[k] = Ready /\ cq[k] # <<>>
    /\ cq' = [cq EXCEPT ![k] = Tail(@)]
    /\ route' = Consumed(k)
    /\ rung' = [rung EXCEPT ![k] = FALSE]
    /\ line' = IF e.type = "irq" THEN [line EXCEPT ![e.route] = FALSE] ELSE line
    /\ client' = [client EXCEPT ![k] = IF e.type = "irq" THEN Cmd("ack", e.route, e.gen, e.seq)
                                       ELSE Cmd("none", 0, 0, 0)]
    /\ UNCHANGED <<grantVars, masked, irr, raises, umem, cmds>>

kring_submit(k) ==
    /\ client[k] \notin {Ready, Gone} /\ DrainBegin(k, client[k])
    /\ UNCHANGED <<grantVars, routeVars, deviceVars, ringVars, client, cmds>>

\* A pin's events carry no generation: an unread one of an earlier claim would be
\* acked to the new claim.  A driver reads its ring before it claims a pin again.
Unread(k, g) ==
    grant[g].right # Nil
    /\ \E i \in DOMAIN cq[k] : cq[k][i].type = "irq" /\ cq[k][i].route = grant[g].right[1]

\* The other commands a client may choose: any token issued, any route.
Choices(k) ==
    (UNION {{[Cmd("subgrant", g, 0, 0) EXCEPT !.req = q] : q \in Request[grant[g].type]} :
               g \in {x \in 1 .. issued : grant[x] # NoGrant}})
    \cup {Cmd("revoke", g, 0, 0) : g \in 1 .. issued}
    \cup {Cmd("msi", g, 0, 0) : g \in {x \in Grant : grant[x].type = "irq"}}
    \cup {Cmd("claim", g, 0, 0) :
              g \in {x \in Grant : grant[x].type = "irq" /\ (k \in Careless \/ ~Unread(k, x))}}
    \cup {Cmd("release", r, route[r].gen, 0) : r \in Route}

Choose(k) ==
    /\ client[k] = Ready /\ cmds < CmdMax
    /\ \E c \in Choices(k) : DrainBegin(k, c) /\ client' = [client EXCEPT ![k] = c]
    /\ cmds' = cmds + 1
    /\ UNCHANGED <<grantVars, routeVars, deviceVars, ringVars>>

-----------------------------------------------------------------------------
InitIrq ==
    /\ \E roots \in Roots :
          /\ grant = [g \in Grant |-> IF g \in 1 .. Len(roots)
                                      THEN [NoGrant EXCEPT !.type = roots[g], !.wild = TRUE]
                                      ELSE NoGrant]
          /\ issued = Len(roots)
    /\ route = [r \in Route |-> [ring |-> Nil, raised |-> 0, acked |-> 0, ev |-> NoEvent,
                                 gen |-> 0, allocated |-> FALSE]]
    /\ masked = [r \in Pin |-> TRUE]
    /\ line = [r \in Route |-> FALSE] /\ irr = [r \in Route |-> FALSE]
    /\ raises = RaiseMax
    /\ cq = [k \in Ring |-> <<>>] /\ rung = [k \in Ring |-> TRUE]
    /\ client = [k \in Ring |-> Ready] /\ umem = Idle /\ cmds = 0

Drain ==
    \/ irq_exec \/ channel_post \/ irq_replay \/ DrainEnd
    \/ irq_endpoint_destroy \/ channel_ring_destroy

IrqNext ==
    \/ Drain
    \/ \E r \in Route : irq_deliver(r) \/ Raise(r) \/ LevelFires(r)
    \/ \E k \in Ring : kring_ack(k) \/ kring_submit(k) \/ Choose(k) \/ FreeBegin(k)

\* Interrupts are delivered, drains finish, and a driver reads its ring and
\* submits what it owes.
IrqSpec ==
    /\ InitIrq /\ [][IrqNext]_irqVars
    /\ WF_irqVars(Drain)
    /\ \A r \in Route : WF_irqVars(irq_deliver(r)) /\ WF_irqVars(LevelFires(r))
    /\ \A k \in Ring : WF_irqVars(kring_ack(k)) /\ SF_irqVars(kring_submit(k))

-----------------------------------------------------------------------------
\* Properties.

\* Grants and routes stay in their ranges, and a ring never holds more CQEs than
\* it has slots (ring_post_locked).
TypeOK ==
    /\ issued \in 0 .. GrantMax
    /\ \A g \in Grant : grant[g].parent \in 0 .. GrantMax /\ grant[g].depth \in 0 .. MaxDepth
    /\ \A r \in Route : /\ route[r].ring \in Ring \cup {Nil}
                         /\ route[r].ev \in NoEvent .. Slots
                         /\ route[r].gen \in 0 .. GenMod - 1
    /\ masked \in [Pin -> BOOLEAN]
    /\ line \in [Route -> BOOLEAN] /\ irr \in [Route -> BOOLEAN]
    /\ \A k \in Ring : Len(cq[k]) <= Slots
    /\ rung \in [Ring -> BOOLEAN]
    /\ umem.at \in {"idle", "exec", "complete", "replay", "destroy"}

\* A grant never carries more than any grant it descends from: no memory range
\* wraps around the address space, ranges nest, flags shrink, and a route or a
\* requester is inherited (subgrant).
Within(x, y) ==
    /\ x.type = y.type
    /\ ~y.wild /\ y.type = "devmem" =>
           /\ x.right.base .. x.right.base + x.right.len - 1
                  \subseteq y.right.base .. y.right.base + y.right.len - 1
           /\ x.right.flags \subseteq y.right.flags
    /\ ~y.wild /\ y.type # "devmem" => x.right = y.right
RightsOnlyShrink ==
    \A g \in Grant : grant[g] # NoGrant =>
        /\ \A a \in Chain(g) : Within(grant[g], grant[a])
        /\ grant[g].type = "devmem" /\ ~grant[g].wild
               => grant[g].right.base + grant[g].right.len <= AddrMod

\* A grant that stopped resolving, because it or one above it was revoked, never
\* resolves again, whatever is granted, revoked or deleted afterwards
\* (token_resolve, revoke_step).
RevokedStaysRevoked ==
    [][\A g \in 1 .. issued : ~token_resolve(g, Nil) => ~token_resolve(g, Nil)']_grantVars

\* No interrupt is forgotten: a claimed route with an interrupt its driver has
\* not acked has its event in the CQ, unless the CQ is full or the driver has
\* consumed events and not rung since (the drain will replay it); and, unless its
\* driver is careless, a level input stays masked only while such an interrupt is
\* outstanding.
IrqNotStranded ==
    \A r \in Route :
        LET x == route[r] IN
        (x.ring # Nil /\ client[x.ring] # Gone) =>
            /\ (x.raised # x.acked /\ rung[x.ring] /\ umem = Idle)
                   => x.ev > 0 \/ Full(cq[x.ring])
            /\ (r \in Level /\ masked[r] /\ x.ring \notin Careless) => x.raised # x.acked

\* A freed ring is out of reach: once its teardown is over no route names it and
\* no interrupt, however late, has posted to it (channel_ring_destroy).  Stated
\* with the type invariant.
FreedRingQuiet ==
    /\ TypeOK
    /\ \A k \in Ring : (client[k] = Gone /\ umem = Idle) => Claims(k) = {} /\ cq[k] = <<>>

\* A level interrupt of a route whose driver is not careless reaches it, is served
\* and is armed again, or the route is given up.
LineServed ==
    \A r \in Level :
        line[r] /\ route[r].ring \in Ring \ Careless ~> ~line[r] \/ route[r].ring = Nil
=============================================================================
