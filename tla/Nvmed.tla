------------------------------- MODULE Nvmed -------------------------------
(***************************************************************************)
(* nvmed (packages/nvmed/nvmed.c), the controller it drives and the clients *)
(* of its block service, beside the pcid of Driver.                         *)
(***************************************************************************)
EXTENDS Driver

Alive(at) == driver.alive = "run" /\ driver.pc = at
Goes(to) == driver' = [driver EXCEPT !.pc = to]
Exits == driver' = [driver EXCEPT !.alive = "dead"]

-----------------------------------------------------------------------------
\* Bringing the instance up.

\* CC is cleared and CSTS awaited.
ResetQueues ==
    /\ Alive("reset")
    /\ func' = [func EXCEPT !.cc = 0]
    /\ ctrl' = IdleController
    /\ Goes("isolate") \/ Exits
    /\ UNCHANGED <<pcidVars, setup, iommu, disk, nvmeVars, chan, shareVars>>

Stages == <<"none", "domain", "mapped", "attached">>

\* DOMAIN_CREATE, MAP_BLOCK and DEVICE_ATTACH, one after the other.
Isolate ==
    /\ Alive("isolate")
    /\ \/ \E i \in 1 .. 3 :
            /\ iommu = Stages[i]
            /\ iommu' = Stages[i + 1]
            /\ Goes(IF i = 3 THEN "route" ELSE "isolate")
       \/ Exits /\ UNCHANGED iommu
    /\ UNCHANGED <<pcidVars, setup, deviceVars, nvmeVars, chan, shareVars>>

\* KIRQ_MSI writes the token of the route into the setup page.
Route ==
    /\ Alive("route")
    /\ \/ Goes("ready") /\ setup' = [setup EXCEPT !.route = pcid.gen]
       \/ Exits /\ UNCHANGED setup
    /\ UNCHANGED <<pcidVars, iommu, deviceVars, nvmeVars, chan, shareVars>>

SignalReady ==
    /\ Alive("ready")
    /\ setup' = [setup EXCEPT !.n_irq_routes = 1, !.state = QUEUES_READY]
    /\ Goes("wait_live")
    /\ UNCHANGED <<pcidVars, iommu, deviceVars, nvmeVars, chan, shareVars>>

\* wait_state(LIVE), the admin queue's registers, CC.EN and CSTS.RDY.
Enable ==
    /\ Alive("wait_live") /\ setup.state >= LIVE
    /\ func' = [func EXCEPT !.cc = 1]
    /\ Goes("admin") \/ Exits
    /\ UNCHANGED <<pcidVars, setup, iommu, ctrl, disk, nvmeVars, chan, shareVars>>

-----------------------------------------------------------------------------
\* nvme_submit.

NextCid(cid) == IF (cid + 1) % CidMod = 0 THEN 1 ELSE (cid + 1) % CidMod

\* The command is written at the tail and the tail's doorbell rung.
Submitted(q, op, lba) ==
    LET cid == NextCid(queue[q].next_cid)
        tail == (queue[q].sq_tail + 1) % QUEUE_ENTRIES
    IN  /\ queue' = [queue EXCEPT ![q].sq[queue[q].sq_tail] = [cid |-> cid, op |-> op, lba |-> lba],
                                  ![q].sq_tail = tail, ![q].next_cid = cid]
        /\ ctrl' = [ctrl EXCEPT ![q].tail = tail]

Oldest(q) == queue[q].cq[queue[q].cq_head]
Posted(q) == Oldest(q).phase = queue[q].phase

Consumed(q) ==
    LET head == (queue[q].cq_head + 1) % QUEUE_ENTRIES
    IN  /\ queue' = [queue EXCEPT ![q].cq_head = head, ![q].phase = IF head = 0 THEN ~@ ELSE @]
        /\ ctrl' = [ctrl EXCEPT ![q].cq_head = head]

\* Mutant: a completion is taken for the command whatever its cid.
OursAny(q) == TRUE

Ours(q) == Oldest(q).cid = driver.cid

\* The spin ends with the completion at the head: consumed when it is the
\* command's own, left there when it is another's; or it runs out.
Taken(q, ok) ==
    \/ /\ Posted(q) /\ Ours(q)
       /\ Consumed(q)
       /\ ok = Oldest(q).ok
       /\ UNCHANGED spins
    \/ /\ Posted(q) /\ ~Ours(q)
       /\ ok = FALSE
       /\ UNCHANGED <<queue, ctrl, spins>>
    \/ /\ ~Posted(q) /\ spins < SpinMax
       /\ spins' = spins + 1
       /\ ok = FALSE
       /\ UNCHANGED <<queue, ctrl>>

\* discover_namespace and setup_io_queues; the first instance submits the
\* command the IOMMU must refuse and exits without its completion.
Script == IF pcid.gen = 1 THEN <<"identify", "identify", "bad_prp">>
          ELSE <<"identify", "identify", "create_cq", "create_sq">>

AdminSubmit ==
    /\ Alive("admin") /\ driver.k <= Len(Script)
    /\ Submitted("admin", Script[driver.k], 0)
    /\ IF Script[driver.k] = "bad_prp" THEN Goes("leave")
       ELSE driver' = [driver EXCEPT !.pc = "admin_poll", !.cid = NextCid(queue["admin"].next_cid)]
    /\ UNCHANGED <<pcidVars, setup, iommu, func, disk, bounce, spins, chan, shareVars>>

AdminPoll ==
    /\ Alive("admin_poll")
    /\ \E ok \in BOOLEAN :
          /\ Taken("admin", ok)
          /\ \/ ok /\ driver' = [driver EXCEPT !.pc = IF driver.k = Len(Script) THEN "shares" ELSE "admin",
                                            !.k = IF driver.k = Len(Script) THEN 1 ELSE @ + 1]
             \/ ~ok /\ Exits
    /\ UNCHANGED <<pcidVars, setup, iommu, func, disk, bounce, chan, shareVars>>

Leave ==
    /\ Alive("leave") /\ Exits
    /\ UNCHANGED <<pcidVars, setup, iommu, deviceVars, nvmeVars, chan, shareVars>>

-----------------------------------------------------------------------------
\* The service.

Knows(tab, c) == \E i \in DOMAIN tab : tab[i].chan = c

\* Mutant: a request made before the share is taken for an answered one.
add_client_late(tab, c) ==
    IF ~chan[c].want.valid \/ Knows(tab, c) \/ Len(tab) = MAX_CLIENTS THEN tab
    ELSE Append(tab, [chan |-> c, seen |-> chan[c].req])

\* A channel with a bad header is ignored and one already known is left; one
\* without room loses its view.
add_client(tab, c) ==
    IF ~chan[c].want.valid \/ Knows(tab, c) \/ Len(tab) = MAX_CLIENTS THEN tab
    ELSE Append(tab, [chan |-> c, seen |-> chan[c].resp])

Orders(S) == {s \in [1 .. Cardinality(S) -> S] : \A c \in S : \E i \in DOMAIN s : s[i] = c}

drain_shares(tab, order) ==
    LET after[i \in 0 .. Len(order)] == IF i = 0 THEN tab ELSE add_client(after[i - 1], order[i])
    IN  after[Len(order)]

\* The shares ring replays what is shared already, in any order; then the
\* service channel is added.
CreateShares ==
    /\ Alive("shares")
    /\ \/ /\ \E order \in Orders(shares) : table' = add_client(drain_shares(table, order), service)
          /\ shares' = {}
          /\ Goes("loop")
       \/ Exits /\ UNCHANGED shareVars
    /\ UNCHANGED <<pcidVars, setup, iommu, deviceVars, nvmeVars, chan>>

\* What serve_request answers without the controller.
Verdict(r) ==
    IF ~r.valid THEN "BAD_VERSION"
    ELSE IF r.op \notin {"INFO", "READ", "WRITE"} THEN "BAD_REQUEST"
    ELSE IF r.op # "INFO" /\ (r.blocks = 0 \/ r.lba >= Capacity \/ r.blocks > Capacity - r.lba) THEN "RANGE"
    ELSE "OK"

\* Entry k of the table: its request is read, and a write's data is copied
\* to the bounce buffer.
LoopStep ==
    /\ Alive("loop")
    /\ IF driver.k > Len(table)
       THEN /\ \E order \in Orders(shares) : table' = drain_shares(table, order)
            /\ shares' = {}
            /\ driver' = [driver EXCEPT !.k = 1]
            /\ UNCHANGED bounce
       ELSE LET c == table[driver.k].chan
                r == chan[c].want
            IN  /\ UNCHANGED shareVars
                /\ IF chan[c].req = table[driver.k].seen
                   THEN driver' = [driver EXCEPT !.k = @ + 1] /\ UNCHANGED bounce
                   ELSE /\ driver' = [driver EXCEPT !.want = r, !.seq = chan[c].req, !.status = Verdict(r),
                                        !.pc = IF Verdict(r) = "OK" /\ r.op # "INFO" THEN "submit" ELSE "reply"]
                        /\ bounce' = IF Verdict(r) = "OK" /\ r.op = "WRITE" THEN chan[c].arena ELSE bounce
    /\ UNCHANGED <<pcidVars, setup, iommu, deviceVars, queue, spins, chan>>

nvme_rw ==
    /\ Alive("submit")
    /\ Submitted("io", driver.want.op, driver.want.lba)
    /\ driver' = [driver EXCEPT !.pc = "poll", !.cid = NextCid(queue["io"].next_cid)]
    /\ UNCHANGED <<pcidVars, setup, iommu, func, disk, bounce, spins, chan, shareVars>>

Poll ==
    /\ Alive("poll")
    /\ \E ok \in BOOLEAN :
          /\ Taken("io", ok)
          /\ driver' = [driver EXCEPT !.pc = "reply", !.status = IF ok THEN "OK" ELSE "IO"]
    /\ UNCHANGED <<pcidVars, setup, iommu, func, disk, bounce, chan, shareVars>>

\* The end of serve_request: a read's data, the status, then response_seq.
Reply ==
    /\ Alive("reply")
    /\ LET c == table[driver.k].chan
       IN  /\ chan' = [chan EXCEPT ![c].status = driver.status, ![c].resp = driver.seq,
                         ![c].arena = IF driver.status = "OK" /\ driver.want.op = "READ" THEN bounce ELSE @]
           /\ table' = [table EXCEPT ![driver.k].seen = driver.seq]
    /\ driver' = [driver EXCEPT !.pc = "loop", !.k = @ + 1]
    /\ UNCHANGED <<pcidVars, setup, iommu, deviceVars, nvmeVars, shares>>

NvmedStep ==
    \/ ResetQueues \/ Isolate \/ Route \/ SignalReady \/ Enable \/ AdminSubmit \/ AdminPoll \/ Leave
    \/ CreateShares \/ LoopStep \/ nvme_rw \/ Poll \/ Reply

\* The driver faults or is killed from outside, between any two steps.
Die ==
    /\ driver.alive = "run" /\ Exits
    /\ UNCHANGED <<pcidVars, setup, iommu, deviceVars, nvmeVars, chan, shareVars>>

-----------------------------------------------------------------------------
\* External: the controller.  It moves memory only as a bus master, and only
\* what the IOMMU maps.

Running == func.cc = 1 /\ func.bme /\ iommu = "attached"

Fetch(q) ==
    /\ Running /\ ctrl[q].head # ctrl[q].tail
    /\ ctrl' = [ctrl EXCEPT ![q].out = @ \cup {queue[q].sq[ctrl[q].head]},
                            ![q].head = (@ + 1) % QUEUE_ENTRIES]
    /\ UNCHANGED <<pcidVars, setup, driver, iommu, func, disk, nvmeVars, chan, shareVars>>

\* One completion, with its data: posted when the queue has a free slot.
Complete(q, cmd, ok) ==
    /\ Running /\ cmd \in ctrl[q].out
    /\ (ctrl[q].cq_tail + 1) % QUEUE_ENTRIES # ctrl[q].cq_head
    /\ ok => cmd.op # "bad_prp"
    /\ queue' = [queue EXCEPT ![q].cq[ctrl[q].cq_tail] = [cid |-> cmd.cid, ok |-> ok, phase |-> ctrl[q].phase]]
    /\ ctrl' = [ctrl EXCEPT ![q].out = @ \ {cmd}, ![q].cq_tail = (@ + 1) % QUEUE_ENTRIES,
                            ![q].phase = IF ctrl[q].cq_tail = QUEUE_ENTRIES - 1 THEN ~@ ELSE @]
    /\ bounce' = IF ok /\ cmd.op = "READ" THEN disk[cmd.lba] ELSE bounce
    /\ disk' = IF ok /\ cmd.op = "WRITE" THEN [disk EXCEPT ![cmd.lba] = bounce] ELSE disk
    /\ UNCHANGED <<pcidVars, setup, driver, iommu, func, spins, chan, shareVars>>

ControllerStep ==
    \E q \in Queues : Fetch(q) \/ \E cmd \in ctrl[q].out, ok \in BOOLEAN : Complete(q, cmd, ok)

\* External: once the serving instance is spawned, a client shares its channel
\* with it and makes requests one at a time, as block_request does.
Share(c) ==
    /\ driver.alive = "run" /\ pcid.gen > 1
    /\ c \notin shares /\ ~Knows(table, c)
    /\ shares' = shares \cup {c}
    /\ UNCHANGED <<pcidVars, setup, driver, iommu, deviceVars, nvmeVars, chan, table>>

Ask(c, r) ==
    /\ pcid.gen > 1 /\ chan[c].req = chan[c].resp /\ chan[c].req < RequestMax
    /\ chan' = Published(c, r)
    /\ UNCHANGED <<pcidVars, setup, driver, iommu, deviceVars, nvmeVars, shareVars>>

ClientStep == \E c \in Client : Share(c) \/ \E r \in Request[c] : Ask(c, r)

NextDriver == PcidStep \/ NvmedStep \/ Die \/ ControllerStep \/ ClientStep

\* pcid, nvmed and the controller keep running; nothing makes a client ask or
\* a driver die.
DriverSpec ==
    /\ InitDriver /\ [][NextDriver]_driverVars
    /\ WF_driverVars(PcidStep) /\ WF_driverVars(NvmedStep) /\ WF_driverVars(ControllerStep)
-----------------------------------------------------------------------------
\* Type correctness; queue indexes stay inside their rings and the client
\* table inside clients[] whatever requests, shares and timeouts come.
TypeOK ==
    /\ pcid.gen \in 0 .. 2 /\ pcid.pid \in {0, pcid.gen} /\ pcid.held \subseteq {"bar", "setup", "service", "table"}
    /\ setup.state \in 0 .. LIVE /\ setup.route \in 0 .. pcid.gen
    /\ driver.alive \in {"none", "run", "dead"} /\ driver.k \in 1 .. MAX_CLIENTS + 4
    /\ iommu \in {"none", "domain", "mapped", "attached", "orphaned"}
    /\ func \in [mem : BOOLEAN, bme : BOOLEAN, cc : {0, 1}, msg : 0 .. 2, on : BOOLEAN]
    /\ \A q \in Queues : /\ queue[q].sq_tail \in 0 .. QUEUE_ENTRIES - 1 /\ queue[q].cq_head \in 0 .. QUEUE_ENTRIES - 1
                         /\ queue[q].next_cid \in 0 .. CidMod - 1 /\ Cardinality(ctrl[q].out) < CidMod
    /\ bounce \in Value \cup {Nil} /\ disk \in [0 .. Capacity - 1 -> Value \cup {Nil}]
    /\ \A c \in Channel : chan[c].resp <= chan[c].req /\ chan[c].req <= chan[c].resp + 1
    /\ Len(table) <= MAX_CLIENTS /\ shares \subseteq Channel /\ spins \in 0 .. SpinMax

\* "pcid never enables an incompletely isolated function": while the function
\* may master the bus, its driver's domain is attached, and its domain and
\* pages have not been destroyed; while its interrupt is unmasked and it can
\* send it, or pcid has programmed it, it carries the message of the present
\* instance's route.  This holds through every failed bring-up, every death of
\* nvmed, whether or not it can be destroyed, and the restart.
EnabledOnlyIsolated ==
    /\ func.bme => iommu = "attached" /\ driver.alive # "none"
    /\ func.on /\ (func.bme \/ func.msg # 0) => func.msg = pcid.gen /\ driver.alive # "none"

Rw(r) == r.op \in {"READ", "WRITE"}

\* What serve_request reports as done was done: when it is about to answer OK,
\* its own command is neither queued nor outstanding in the controller, even
\* when completions of commands given up earlier arrive meanwhile; and as long
\* as the instance gave none up, a read answers with the block and a write has
\* put its data there.  The rings' indexes and the command identifiers stay in
\* range throughout.
OkMeansDone ==
    /\ TypeOK
    /\ Alive("reply") /\ driver.status = "OK" /\ Rw(driver.want) =>
        /\ \A cmd \in ctrl["io"].out : cmd.cid # driver.cid
        /\ ctrl["io"].head = ctrl["io"].tail
             \/ queue["io"].sq[(queue["io"].sq_tail + QUEUE_ENTRIES - 1) % QUEUE_ENTRIES].cid # driver.cid
        /\ spins = 0 => disk[driver.want.lba] = IF driver.want.op = "READ" THEN bounce ELSE driver.want.data

\* Discovery records each function once: those that answer on the buses
\* reachable through well-formed bridges and whose capability chain ends, when
\* the table has room for them; and every function it can see is silenced
\* first, recorded or not.
DiscoveryExact ==
    pcid.pc = "discover" /\ parse_mcfg(machine.mcfg) =>
        \A i \in DOMAIN machine.mcfg :
          LET hw == machine.fns
              got == Discovered(hw, <<machine.mcfg[i]>>)
              seen == UNION {Answers(hw, b) : b \in Reached(hw, machine.mcfg[i])}
              good == {loc \in seen : WellFormed(hw[loc])}
          IN  /\ \A x, y \in DOMAIN got.functions : got.functions[x] = got.functions[y] => x = y
              /\ {got.functions[x] : x \in DOMAIN got.functions} \subseteq good
              /\ Cardinality(good) <= MAX_FUNCTIONS =>
                   /\ Len(got.functions) = Cardinality(good)
                   /\ Cardinality(good) < MAX_FUNCTIONS => got.quiet = seen

\* pcid waits for a driver that has died, or for an answer on a channel that
\* the full client table dropped: wait_state and block_request have no deadline,
\* and the death is an event of the loop they keep pcid from.
Stranded ==
    \/ pcid.pc = "wait_ready" /\ setup.state < QUEUES_READY /\ driver.alive = "dead"
    \/ /\ pcid.pc \in {"info_wait", "read_wait"} /\ chan[service].req # chan[service].resp
       /\ driver.alive = "dead" \/ (Len(table) = MAX_CLIENTS /\ ~Knows(table, service))

\* The drivers come to an answer.  A request on a channel nvmed knows is answered,
\* with the sequence number the client waits for, unless nvmed dies: none is lost
\* between the share, the scan of the table and the sequence words.  pcid comes
\* back to its event loop from the bring-up, the block test and the burial of a
\* driver, unless it is left waiting as Stranded says; and a driver whose death
\* the loop can take is buried, with what it held given up.
RequestsAnswered ==
    /\ \A c \in Channel :
         (chan[c].req # chan[c].resp /\ Knows(table, c))
           ~> (chan[c].req = chan[c].resp \/ driver.alive # "run")
    /\ (pcid.pc # "loop") ~> (pcid.pc \in {"loop", "exited"} \/ Stranded)
    /\ (pcid.pc = "loop" /\ pcid.pid # 0 /\ driver.alive = "dead") ~> (pcid.pid = 0)

=============================================================================
