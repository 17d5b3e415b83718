------------------------------- MODULE Driver -------------------------------
(***************************************************************************)
(* A hardware driver's life: pcid discovers the NVMe function, spawns       *)
(* nvmed, isolates and enables the device, tests the block service and      *)
(* buries a dead driver (packages/pcid/pcid.c); nvmed brings its queues up  *)
(* and serves block channels (packages/nvmed/nvmed.c).                      *)
(*                                                                         *)
(* The two processes, the controller and the other clients interleave; a    *)
(* driver may die between any two of its steps.  A kernel call is one step, *)
(* with the failures its caller tests for.  An instance of nvmed is named   *)
(* by the generation pcid spawned it in.  The controller is external: it    *)
(* fetches in order, completes in any order and may outlast nvmed's spin.   *)
(***************************************************************************)
EXTENDS Pci

CONSTANTS
    Hardware,       \* the machines to discover: records [fns, mcfg]
    QUEUE_ENTRIES,
    CidMod,         \* 2^16: command identifiers wrap and skip zero
    MAX_CLIENTS,
    Client,         \* channels of processes other than pcid
    Request,        \* the requests each client makes: [op, lba, blocks, data, valid]
    Capacity,       \* blocks of the namespace
    Value,          \* contents of a block
    Content,        \* what the namespace holds at first
    RequestMax,     \* bound: requests a client makes
    SpinMax,        \* bound: commands an instance gives up on
    service,        \* the channel pcid gives its driver
    Nil

ASSUME DriverAssumption ==
    /\ QUEUE_ENTRIES \in Nat \ {0, 1} /\ CidMod \in Nat \ {0, 1} /\ MAX_CLIENTS \in Nat \ {0}
    /\ Capacity \in Nat /\ Content \in [0 .. Capacity - 1 -> Value] /\ service \notin Client /\ Nil \notin Value

VARIABLES
    machine,    \* the machine, until pcid has walked it
    pcid,       \* pc, generation, blocks held, whether they are still shared with a driver it
                \* could not destroy, g_driver.pid, the capability, whether it is programmed
    setup,      \* struct pci_driver_start: state, n_irq_routes, routes[0]
    driver,     \* nvmed: alive, its pc and locals
    iommu,      \* what nvmed's domain has: "none", "domain", "mapped", "attached"; "orphaned"
                \* when the function is attached for a driver that could not be destroyed
    func,       \* the function's registers: memory decode, bus master, CC, MSI message and mask
    queue,      \* struct nvme_queue and the ring memory, per queue
    ctrl,       \* the controller's side of each queue
    bounce, disk,
    chan,       \* struct gdos_block_channel, per channel; want.valid is its header
    table,      \* nvmed's clients[]
    shares,     \* KEV_SHARE events nvmed has not drained
    spins       \* commands nvmed gave up on

pcidVars == <<machine, pcid>>
deviceVars == <<func, ctrl, disk>>
nvmeVars == <<queue, bounce, spins>>
shareVars == <<table, shares>>
driverVars == <<pcidVars, setup, driver, iommu, deviceVars, nvmeVars, chan, shareVars>>

Channel == Client \cup {service}
Queues == {"admin", "io"}
QUEUES_READY == 1
LIVE == 2

-----------------------------------------------------------------------------
\* State of one driver instance and of one channel.

NoRequest == [op |-> "none", lba |-> 0, blocks |-> 0, data |-> Nil, valid |-> TRUE]
FreshChannel == [req |-> 0, resp |-> 0, want |-> NoRequest, status |-> "none", arena |-> Nil]
FreshQueue ==
    [sq |-> [i \in 0 .. QUEUE_ENTRIES - 1 |-> Nil],
     cq |-> [i \in 0 .. QUEUE_ENTRIES - 1 |-> [cid |-> 0, ok |-> TRUE, phase |-> FALSE]],
     sq_tail |-> 0, cq_head |-> 0, next_cid |-> 0, phase |-> TRUE]
IdleController == [q \in Queues |-> [tail |-> 0, head |-> 0, out |-> {}, cq_tail |-> 0, phase |-> TRUE, cq_head |-> 0]]
NoDriver == [alive |-> "none", pc |-> "reset", k |-> 1, cid |-> 0, seq |-> 0, want |-> NoRequest, status |-> "OK"]

\* Discovery clears bus mastering; the firmware may have left an MSI enabled.
InitDriver ==
    /\ machine \in Hardware
    /\ pcid = [pc |-> "discover", gen |-> 0, held |-> {}, shared |-> FALSE, pid |-> 0, kind |-> "none", cap |-> FALSE]
    /\ setup = [state |-> 0, n_irq_routes |-> 0, route |-> 0]
    /\ driver = NoDriver
    /\ iommu = "none"
    /\ \E on \in BOOLEAN : func = [mem |-> FALSE, bme |-> FALSE, cc |-> 0, msg |-> 0, on |-> on]
    /\ queue = [q \in Queues |-> FreshQueue]
    /\ ctrl = IdleController
    /\ bounce = Nil
    /\ disk = Content
    /\ chan = [c \in Channel |-> FreshChannel]
    /\ table = <<>>
    /\ shares = {}
    /\ spins = 0

-----------------------------------------------------------------------------
\* pcid.

Pcid(at, to) == pcid.pc = at /\ pcid' = [pcid EXCEPT !.pc = to]

NvmeFound ==
    LET functions == Discovered(machine.fns, machine.mcfg).functions
    IN  {machine.fns[functions[i]] : i \in {j \in DOMAIN functions : machine.fns[functions[j]].class = "nvme"}}

\* The capability its interrupts are programmed through: MSI if there is one.
InterruptCap(f) ==
    LET caps == walk_caps(f)
    IN  IF caps.msi # NoCap THEN "msi" ELSE IF caps.msix # NoCap THEN "msix" ELSE "none"

\* _start: a bad MCFG, or a mapping or a ring that the kernel refuses, ends
\* pcid; otherwise the recorded NVMe function is prepared.  Nothing reads the
\* other functions' registers again.
Discover ==
    /\ pcid.pc = "discover"
    /\ \/ pcid' = [pcid EXCEPT !.pc = "exited"]
       \/ /\ parse_mcfg(machine.mcfg) /\ NvmeFound = {}
          /\ pcid' = [pcid EXCEPT !.pc = "loop"]
       \/ /\ parse_mcfg(machine.mcfg)
          /\ \E f \in NvmeFound : pcid' = [pcid EXCEPT !.pc = "prepare", !.kind = InterruptCap(f)]
    /\ machine' = Nil
    /\ UNCHANGED <<setup, driver, iommu, deviceVars, nvmeVars, chan, shareVars>>

\* map_device refuses a BAR that pcid has mapped already.
Mappable == "bar" \notin pcid.held

\* prepare_nvme to its spawn.  A failure leaves what was mapped and allocated
\* before it, except the pages it frees; generation counts from the setup.
PrepareFails ==
    /\ \/ Pcid("prepare", "loop")
       \/ /\ pcid.pc = "prepare" /\ Mappable
          /\ pcid' = [pcid EXCEPT !.pc = "loop", !.held = @ \cup {"bar"}]
       \/ /\ pcid.pc = "prepare" /\ Mappable
          /\ pcid' = [pcid EXCEPT !.pc = "loop", !.held = @ \cup {"bar"}, !.gen = @ + 1]
    /\ UNCHANGED <<machine, setup, driver, iommu, deviceVars, nvmeVars, chan, shareVars>>

Spawn ==
    /\ pcid.pc = "prepare" /\ Mappable
    /\ func' = [func EXCEPT !.mem = TRUE, !.bme = FALSE]
    /\ setup' = [state |-> 0, n_irq_routes |-> 0, route |-> 0]
    /\ chan' = [chan EXCEPT ![service] = FreshChannel]
    /\ \/ /\ pcid' = [pcid EXCEPT !.pc = "loop", !.gen = @ + 1, !.held = @ \cup {"bar", "setup", "service"}]
          /\ UNCHANGED <<driver, queue, bounce, shares>>
       \/ /\ pcid' = [pcid EXCEPT !.pc = "wait_ready", !.gen = @ + 1, !.pid = pcid.gen + 1, !.cap = FALSE,
                                  !.held = @ \cup {"bar", "setup", "service"}]
          /\ driver' = [NoDriver EXCEPT !.alive = "run"]
          /\ queue' = [q \in Queues |-> FreshQueue]
          /\ bounce' = Nil
          /\ shares' = {service}
    /\ UNCHANGED <<machine, iommu, ctrl, disk, table, spins>>

\* wait_state: QUEUES_READY, or any later state.
SeesReady ==
    /\ setup.state >= QUEUES_READY
    /\ Pcid("wait_ready", "query")
    /\ UNCHANGED <<machine, setup, driver, iommu, deviceVars, nvmeVars, chan, shareVars>>

\* sys_proc_kill, after a bad reply or a refused route.
Kill ==
    /\ Pcid("query", "loop")
    /\ driver' = [driver EXCEPT !.alive = "dead"]
    /\ UNCHANGED <<machine, setup, iommu, deviceVars, nvmeVars, chan, shareVars>>

\* MSI first, then MSI-X behind its own page: programmed with the source off.
program_interrupt_masked ==
    /\ func' = [func EXCEPT !.msg = setup.route, !.on = FALSE]

Program ==
    /\ pcid.pc = "query" /\ setup.n_irq_routes > 0 /\ pcid.kind # "none"
    /\ pcid' = [pcid EXCEPT !.pc = "master", !.cap = TRUE,
                            !.held = IF pcid.kind = "msix" THEN @ \cup {"table"} ELSE @]
    /\ program_interrupt_masked
    /\ UNCHANGED <<machine, setup, driver, iommu, ctrl, disk, nvmeVars, chan, shareVars>>

SetMaster ==
    /\ Pcid("master", "unmask")
    /\ func' = [func EXCEPT !.mem = TRUE, !.bme = TRUE]
    /\ UNCHANGED <<machine, setup, driver, iommu, ctrl, disk, nvmeVars, chan, shareVars>>

enable_interrupt ==
    /\ Pcid("unmask", "announce")
    /\ func' = [func EXCEPT !.on = TRUE]
    /\ UNCHANGED <<machine, setup, driver, iommu, ctrl, disk, nvmeVars, chan, shareVars>>

Announce ==
    /\ Pcid("announce", IF pcid.gen > 1 THEN "info" ELSE "loop")
    /\ setup' = [setup EXCEPT !.state = LIVE]
    /\ UNCHANGED <<machine, driver, iommu, deviceVars, nvmeVars, chan, shareVars>>

\* block_request, up to the wake: the fields, then request_seq.
Published(c, r) ==
    [chan EXCEPT ![c].want = r, ![c].req = chan[c].resp + 1, ![c].arena = r.data]

Asks == {"info", "read"}
TestRequest(op) == [op |-> IF op = "info" THEN "INFO" ELSE "READ", lba |-> 0,
                    blocks |-> IF op = "info" THEN 0 ELSE 1, data |-> Nil, valid |-> TRUE]

\* test_block_service: INFO, and READ when that succeeded.
test_block_service(op) ==
    /\ Pcid(op, IF op = "info" THEN "info_wait" ELSE "read_wait")
    /\ chan' = Published(service, TestRequest(op))
    /\ UNCHANGED <<machine, setup, driver, iommu, deviceVars, nvmeVars, shareVars>>

Answered ==
    /\ chan[service].resp = chan[service].req
    /\ \/ Pcid("info_wait", IF chan[service].status = "OK" THEN "read" ELSE "loop")
       \/ Pcid("read_wait", "loop")
    /\ UNCHANGED <<machine, setup, driver, iommu, deviceVars, nvmeVars, chan, shareVars>>

\* The loop of _start takes KEV_CHILD_DEAD of g_driver.pid; driver_died then
\* masks the interrupt, clears CC and the command bits, destroys the child
\* and frees its blocks.
ChildDead ==
    /\ pcid.pid # 0 /\ driver.alive = "dead"
    /\ Pcid("loop", "mask")
    /\ UNCHANGED <<machine, setup, driver, iommu, deviceVars, nvmeVars, chan, shareVars>>

mask_interrupt ==
    /\ Pcid("mask", "reset")
    /\ func' = IF pcid.cap THEN [func EXCEPT !.on = FALSE] ELSE func
    /\ UNCHANGED <<machine, setup, driver, iommu, ctrl, disk, nvmeVars, chan, shareVars>>

ResetController ==
    /\ Pcid("reset", "quiet")
    /\ func' = [func EXCEPT !.cc = 0]
    /\ ctrl' = IdleController
    /\ UNCHANGED <<machine, setup, driver, iommu, disk, nvmeVars, chan, shareVars>>

\* Mutant: only memory decoding is cleared.
ClearDecode ==
    /\ Pcid("quiet", "destroy")
    /\ func' = [func EXCEPT !.mem = FALSE]
    /\ UNCHANGED <<machine, setup, driver, iommu, ctrl, disk, nvmeVars, chan, shareVars>>

ClearMaster ==
    /\ Pcid("quiet", "destroy")
    /\ func' = [func EXCEPT !.mem = FALSE, !.bme = FALSE]
    /\ UNCHANGED <<machine, setup, driver, iommu, ctrl, disk, nvmeVars, chan, shareVars>>

\* What a pe_destroy that failed on its way may leave: the views, the domain.
Destroyed(views, domain) ==
    /\ pcid' = [pcid EXCEPT !.pc = "free", !.shared = views]
    /\ iommu' = IF iommu = "orphaned" \/ (domain /\ iommu = "attached") THEN "orphaned" ELSE "none"

\* pe_destroy takes the domain, the routes, the DMA pages and the views; pcid
\* goes on when it fails, and forgets the driver all the same.
destroy_child ==
    /\ pcid.pc = "destroy"
    /\ \E views, domain \in BOOLEAN : Destroyed(views, domain)
    /\ driver' = NoDriver
    /\ table' = <<>>
    /\ shares' = {}
    /\ queue' = [q \in Queues |-> FreshQueue]
    /\ bounce' = Nil
    /\ spins' = 0
    /\ UNCHANGED <<machine, setup, deviceVars, chan>>

\* A block that is still shared is not freed.
FreeBlocks ==
    /\ pcid.pc = "free"
    /\ pcid' = [pcid EXCEPT !.pc = IF pcid.gen = 1 THEN "prepare" ELSE "loop", !.pid = 0, !.cap = FALSE,
                            !.held = IF pcid.shared THEN @ \ {"table"} ELSE {}, !.shared = FALSE]
    /\ UNCHANGED <<machine, setup, driver, iommu, deviceVars, nvmeVars, chan, shareVars>>

PcidStep ==
    \/ Discover \/ PrepareFails \/ Spawn \/ SeesReady \/ Kill \/ Program \/ SetMaster \/ enable_interrupt
    \/ Announce \/ Answered \/ ChildDead \/ mask_interrupt \/ ResetController \/ ClearMaster
    \/ destroy_child \/ FreeBlocks
    \/ \E op \in Asks : test_block_service(op)
=============================================================================
