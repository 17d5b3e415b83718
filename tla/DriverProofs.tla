---------------------------- MODULE DriverProofs ----------------------------
(***************************************************************************)
(* Proof that pcid never enables a function whose isolation is incomplete   *)
(* (EnabledOnlyIsolated of Nvmed), for every machine, every queue size and   *)
(* every interleaving of pcid, nvmed, the controller and the clients.       *)
(***************************************************************************)
EXTENDS Nvmed, TLAPS

\* What makes EnabledOnlyIsolated inductive: where pcid is in the life of an
\* instance, and that nvmed reports its route only from an attached domain.
Shapes ==
    /\ {"pc", "gen", "pid", "cap"} \subseteq DOMAIN pcid
    /\ {"state", "n_irq_routes", "route"} \subseteq DOMAIN setup
    /\ {"alive", "pc"} \subseteq DOMAIN driver
    /\ {"bme", "msg", "on"} \subseteq DOMAIN func
    /\ pcid.gen \in Nat /\ pcid.pid \in {0, pcid.gen}

\* The interrupt is unmasked with a message of pcid's, not the firmware's.
Armed == func.on /\ func.msg # 0

NoInstance == driver.alive = "none" /\ ~func.bme /\ ~Armed /\ iommu \in {"none", "orphaned"}

Places ==
    /\ pcid.pc \in {"discover", "exited", "prepare"} => NoInstance /\ pcid.pid = 0
    /\ pcid.pc = "free" => NoInstance
    /\ pcid.pc \notin {"discover", "exited", "prepare", "free", "loop"} => driver.alive # "none" /\ pcid.pid # 0
    /\ pcid.pc = "loop" => (driver.alive = "none" <=> pcid.pid = 0)
    /\ pcid.pc \in {"master", "unmask"} => iommu = "attached" /\ func.msg = pcid.gen /\ pcid.cap
    /\ pcid.pc \in {"reset", "quiet", "destroy"} => ~Armed
    /\ pcid.pc = "destroy" => ~func.bme

Routes ==
    /\ driver.alive = "none" => iommu \in {"none", "orphaned"}
    /\ Armed => pcid.cap
    /\ func.bme => func.msg # 0
    /\ driver.alive # "none" /\ setup.n_irq_routes > 0 => iommu = "attached" /\ setup.route = pcid.gen
    /\ Alive("route") \/ Alive("ready") => iommu = "attached"
    /\ Alive("ready") => setup.route = pcid.gen

IsolationInv == Shapes /\ EnabledOnlyIsolated /\ Places /\ Routes

\* What the invariant reads.
isoVars == <<pcid, setup, driver, iommu, func>>

-----------------------------------------------------------------------------
\* When pcid starts the function masters nothing, and the interrupt the firmware
\* may have left enabled carries none of pcid's messages.
LEMMA InitIsolation == InitDriver => IsolationInv
BY DEF InitDriver, NoDriver, NoRequest, IsolationInv, Shapes, EnabledOnlyIsolated, Places, Routes, NoInstance, Armed, Alive

\* Steps that leave pcid, the setup page, the driver, its domain and the
\* function's registers alone: the controller's and the clients'.
LEMMA FrameIsolation == IsolationInv /\ UNCHANGED isoVars => IsolationInv'
BY DEF isoVars, IsolationInv, Shapes, EnabledOnlyIsolated, Places, Routes, NoInstance, Armed, Alive

\* _start and prepare_nvme, to the spawn of nvmed.
LEMMA PrepareIsolation ==
    ASSUME IsolationInv,
           Discover \/ PrepareFails \/ Spawn
    PROVE  IsolationInv'
<1>1. CASE Discover
  <2>1. /\ UNCHANGED <<setup, driver, iommu, func>>
        /\ pcid.pc = "discover"
        /\ pcid'.pc \in {"exited", "loop", "prepare"}
        /\ pcid'.gen = pcid.gen /\ pcid'.pid = pcid.pid /\ pcid'.cap = pcid.cap
        /\ Shapes'
    <3>1. /\ UNCHANGED <<setup, driver, iommu, func>> /\ pcid.pc = "discover"
          /\ \/ \E to \in {"exited", "loop"} : pcid' = [pcid EXCEPT !.pc = to]
             \/ \E kind : pcid' = [pcid EXCEPT !.pc = "prepare", !.kind = kind]
          /\ Shapes
      BY <1>1, Zenon DEF Discover, deviceVars, IsolationInv
    <3>2. ASSUME NEW to \in {"exited", "loop"}, pcid' = [pcid EXCEPT !.pc = to]
          PROVE  /\ pcid'.pc \in {"exited", "loop", "prepare"}
                 /\ pcid'.gen = pcid.gen /\ pcid'.pid = pcid.pid /\ pcid'.cap = pcid.cap /\ Shapes'
      BY <3>1, <3>2, Zenon DEF Shapes
    <3>3. ASSUME NEW kind, pcid' = [pcid EXCEPT !.pc = "prepare", !.kind = kind]
          PROVE  /\ pcid'.pc \in {"exited", "loop", "prepare"}
                 /\ pcid'.gen = pcid.gen /\ pcid'.pid = pcid.pid /\ pcid'.cap = pcid.cap /\ Shapes'
      BY <3>1, <3>3, Zenon DEF Shapes
    <3> QED
      BY <3>1, <3>2, <3>3, Zenon
  <2> QED
    BY <2>1 DEF IsolationInv, EnabledOnlyIsolated, Places, Routes, NoInstance, Armed, Alive
<1>2. CASE PrepareFails
  <2>1. /\ UNCHANGED <<setup, driver, iommu, func>>
        /\ pcid.pc = "prepare" /\ pcid'.pc = "loop"
        /\ pcid'.gen \in {pcid.gen, pcid.gen + 1} /\ pcid'.pid = pcid.pid /\ pcid'.cap = pcid.cap
        /\ Shapes'
    <3>1. /\ UNCHANGED <<setup, driver, iommu, func>> /\ pcid.pc = "prepare" /\ pcid.pid = 0 /\ Shapes
      BY <1>2, Zenon DEF PrepareFails, Pcid, deviceVars, IsolationInv, Places
    <3>2. CASE pcid' = [pcid EXCEPT !.pc = "loop"]
      BY <3>1, <3>2 DEF Shapes
    <3>3. CASE \E held : pcid' = [pcid EXCEPT !.pc = "loop", !.held = held]
      BY <3>1, <3>3 DEF Shapes
    <3>4. CASE \E held : pcid' = [pcid EXCEPT !.pc = "loop", !.held = held, !.gen = pcid.gen + 1]
      BY <3>1, <3>4 DEF Shapes
    <3> QED
      BY <1>2, <3>2, <3>3, <3>4, Zenon DEF PrepareFails, Pcid
  <2> QED
    BY <2>1 DEF IsolationInv, EnabledOnlyIsolated, Places, Routes, NoInstance, Armed, Alive
<1>3. CASE Spawn
  <2>1. /\ pcid.pc = "prepare"
        /\ iommu' = iommu /\ ~func'.bme /\ func'.on = func.on /\ func'.msg = func.msg
        /\ setup'.n_irq_routes = 0
        /\ \/ pcid'.pc = "loop" /\ pcid'.pid = pcid.pid /\ driver' = driver
           \/ pcid'.pc = "wait_ready" /\ pcid'.pid # 0 /\ driver'.alive = "run" /\ driver'.pc = "reset"
        /\ Shapes'
    <3>1. /\ pcid.pc = "prepare" /\ pcid.pid = 0 /\ iommu' = iommu /\ Shapes
          /\ func' = [func EXCEPT !.mem = TRUE, !.bme = FALSE]
          /\ setup' = [state |-> 0, n_irq_routes |-> 0, route |-> 0]
      BY <1>3, Zenon DEF Spawn, IsolationInv, Places
    <3>2. /\ ~func'.bme /\ func'.on = func.on /\ func'.msg = func.msg /\ setup'.n_irq_routes = 0
          /\ {"state", "n_irq_routes", "route"} \subseteq DOMAIN setup'
          /\ {"bme", "msg", "on"} \subseteq DOMAIN func'
      BY <3>1 DEF Shapes
    <3>3. CASE /\ \E held : pcid' = [pcid EXCEPT !.pc = "loop", !.gen = pcid.gen + 1, !.held = held]
               /\ driver' = driver
      BY <3>1, <3>2, <3>3 DEF Shapes
    <3>4. CASE /\ \E held : pcid' = [pcid EXCEPT !.pc = "wait_ready", !.gen = pcid.gen + 1, !.pid = pcid.gen + 1,
                                       !.cap = FALSE, !.held = held]
               /\ driver' = [NoDriver EXCEPT !.alive = "run"]
      BY <3>1, <3>2, <3>4 DEF NoDriver, Shapes
    <3> QED
      BY <1>3, <3>3, <3>4, Zenon DEF Spawn
  <2> QED
    BY <2>1 DEF IsolationInv, EnabledOnlyIsolated, Places, Routes, NoInstance, Armed, Alive
<1> QED
  BY <1>1, <1>2, <1>3

\* From the ready message to the announcement: the message is programmed from
\* the setup page, and bus mastering and the interrupt are enabled in turn.
LEMMA EnableIsolation ==
    ASSUME IsolationInv,
           SeesReady \/ Kill \/ Program \/ SetMaster \/ enable_interrupt \/ Announce
    PROVE  IsolationInv'
<1>1. CASE SeesReady
  <2>1. /\ UNCHANGED <<setup, driver, iommu, func>>
        /\ pcid.pc = "wait_ready" /\ pcid'.pc = "query"
        /\ pcid'.gen = pcid.gen /\ pcid'.pid = pcid.pid /\ pcid'.cap = pcid.cap
        /\ Shapes'
    BY <1>1 DEF SeesReady, Pcid, deviceVars, IsolationInv, Shapes
  <2> QED
    BY <2>1 DEF IsolationInv, EnabledOnlyIsolated, Places, Routes, NoInstance, Armed, Alive
<1>2. CASE Kill
  <2>1. /\ UNCHANGED <<setup, iommu, func>>
        /\ pcid.pc = "query" /\ pcid'.pc = "loop"
        /\ pcid'.gen = pcid.gen /\ pcid'.pid = pcid.pid /\ pcid'.cap = pcid.cap
        /\ driver'.alive = "dead"
        /\ Shapes'
    BY <1>2 DEF Kill, Pcid, deviceVars, IsolationInv, Shapes
  <2> QED
    BY <2>1 DEF IsolationInv, EnabledOnlyIsolated, Places, Routes, NoInstance, Armed, Alive
<1>3. CASE Program
  <2>1. /\ UNCHANGED <<setup, driver, iommu>>
        /\ pcid.pc = "query" /\ pcid'.pc = "master"
        /\ pcid'.gen = pcid.gen /\ pcid'.pid = pcid.pid /\ pcid'.cap
        /\ setup.n_irq_routes > 0
        /\ func'.bme = func.bme /\ func'.msg = setup.route /\ ~func'.on
        /\ Shapes'
    BY <1>3 DEF Program, program_interrupt_masked, IsolationInv, Shapes
  <2>2. /\ driver.alive # "none" /\ pcid.pid # 0 /\ pcid.gen # 0
        /\ iommu = "attached" /\ func'.msg = pcid.gen
    BY <2>1 DEF IsolationInv, Places, Routes, Shapes
  <2> QED
    BY <2>1, <2>2 DEF IsolationInv, EnabledOnlyIsolated, Places, Routes, NoInstance, Armed, Alive
<1>4. CASE SetMaster
  <2>1. /\ UNCHANGED <<setup, driver, iommu>>
        /\ pcid.pc = "master" /\ pcid'.pc = "unmask"
        /\ pcid'.gen = pcid.gen /\ pcid'.pid = pcid.pid /\ pcid'.cap = pcid.cap
        /\ func'.msg = func.msg /\ func'.on = func.on
        /\ Shapes'
    BY <1>4 DEF SetMaster, Pcid, IsolationInv, Shapes
  <2>2. /\ driver.alive # "none" /\ pcid.pid # 0
        /\ iommu = "attached" /\ func.msg = pcid.gen /\ pcid.cap
    BY <2>1 DEF IsolationInv, Places
  <2>3. pcid.gen # 0
    BY <2>2 DEF IsolationInv, Shapes
  <2> QED
    BY <2>1, <2>2, <2>3 DEF IsolationInv, EnabledOnlyIsolated, Places, Routes, NoInstance, Armed, Alive
<1>5. CASE enable_interrupt
  <2>1. /\ UNCHANGED <<setup, driver, iommu>>
        /\ pcid.pc = "unmask" /\ pcid'.pc = "announce"
        /\ pcid'.gen = pcid.gen /\ pcid'.pid = pcid.pid /\ pcid'.cap = pcid.cap
        /\ func'.msg = func.msg /\ func'.bme = func.bme
        /\ Shapes'
    BY <1>5 DEF enable_interrupt, Pcid, IsolationInv, Shapes
  <2> QED
    BY <2>1 DEF IsolationInv, EnabledOnlyIsolated, Places, Routes, NoInstance, Armed, Alive
<1>6. CASE Announce
  <2>1. /\ UNCHANGED <<driver, iommu, func>>
        /\ pcid.pc = "announce"
        /\ pcid'.pc \in {"info", "loop"}
        /\ pcid'.gen = pcid.gen /\ pcid'.pid = pcid.pid /\ pcid'.cap = pcid.cap
        /\ setup'.n_irq_routes = setup.n_irq_routes /\ setup'.route = setup.route
        /\ Shapes'
    BY <1>6 DEF Announce, Pcid, deviceVars, IsolationInv, Shapes
  <2> QED
    BY <2>1 DEF IsolationInv, EnabledOnlyIsolated, Places, Routes, NoInstance, Armed, Alive
<1> QED
  BY <1>1, <1>2, <1>3, <1>4, <1>5, <1>6

\* test_block_service and driver_died, to the restart.
LEMMA BuryIsolation ==
    ASSUME IsolationInv,
           \/ Answered \/ ChildDead \/ mask_interrupt \/ ResetController
           \/ ClearMaster \/ destroy_child \/ FreeBlocks \/ (\E op \in Asks : test_block_service(op))
    PROVE  IsolationInv'
<1>1. CASE Answered
  <2>1. /\ UNCHANGED <<setup, driver, iommu, func>>
        /\ pcid.pc \in {"info_wait", "read_wait"} /\ pcid'.pc \in {"read", "loop"}
        /\ pcid'.gen = pcid.gen /\ pcid'.pid = pcid.pid /\ pcid'.cap = pcid.cap
        /\ Shapes'
    BY <1>1 DEF Answered, Pcid, deviceVars, IsolationInv, Shapes
  <2> QED
    BY <2>1 DEF IsolationInv, EnabledOnlyIsolated, Places, Routes, NoInstance, Armed, Alive
<1>2. CASE ChildDead
  <2>1. /\ UNCHANGED <<setup, driver, iommu, func>>
        /\ driver.alive = "dead"
        /\ pcid.pc = "loop" /\ pcid'.pc = "mask"
        /\ pcid'.gen = pcid.gen /\ pcid'.pid = pcid.pid /\ pcid'.cap = pcid.cap
        /\ Shapes'
    BY <1>2 DEF ChildDead, Pcid, deviceVars, IsolationInv, Shapes
  <2> QED
    BY <2>1 DEF IsolationInv, EnabledOnlyIsolated, Places, Routes, NoInstance, Armed, Alive
<1>3. CASE mask_interrupt
  <2>1. /\ UNCHANGED <<setup, driver, iommu>>
        /\ pcid.pc = "mask" /\ pcid'.pc = "reset"
        /\ pcid'.gen = pcid.gen /\ pcid'.pid = pcid.pid /\ pcid'.cap = pcid.cap
        /\ func'.bme = func.bme /\ func'.msg = func.msg
        /\ func' = func \/ ~func'.on
        /\ pcid.cap => ~func'.on
        /\ Shapes'
    BY <1>3 DEF mask_interrupt, Pcid, IsolationInv, Shapes
  <2> QED
    BY <2>1 DEF IsolationInv, EnabledOnlyIsolated, Places, Routes, NoInstance, Armed, Alive
<1>4. CASE ResetController
  <2>1. /\ UNCHANGED <<setup, driver, iommu>>
        /\ pcid.pc = "reset" /\ pcid'.pc = "quiet"
        /\ pcid'.gen = pcid.gen /\ pcid'.pid = pcid.pid /\ pcid'.cap = pcid.cap
        /\ func'.bme = func.bme /\ func'.msg = func.msg /\ func'.on = func.on
        /\ Shapes'
    BY <1>4 DEF ResetController, Pcid, IsolationInv, Shapes
  <2> QED
    BY <2>1 DEF IsolationInv, EnabledOnlyIsolated, Places, Routes, NoInstance, Armed, Alive
<1>5. CASE ClearMaster
  <2>1. /\ UNCHANGED <<setup, driver, iommu>>
        /\ pcid.pc = "quiet" /\ pcid'.pc = "destroy"
        /\ pcid'.gen = pcid.gen /\ pcid'.pid = pcid.pid /\ pcid'.cap = pcid.cap
        /\ ~func'.bme /\ func'.on = func.on /\ func'.msg = func.msg
        /\ Shapes'
    BY <1>5 DEF ClearMaster, Pcid, IsolationInv, Shapes
  <2> QED
    BY <2>1 DEF IsolationInv, EnabledOnlyIsolated, Places, Routes, NoInstance, Armed, Alive
<1>6. CASE destroy_child
  <2>1. /\ UNCHANGED <<setup, func>>
        /\ pcid.pc = "destroy" /\ pcid'.pc = "free"
        /\ pcid'.gen = pcid.gen /\ pcid'.pid = pcid.pid /\ pcid'.cap = pcid.cap
        /\ iommu' \in {"none", "orphaned"} /\ driver'.alive = "none"
        /\ Shapes'
    BY <1>6, Zenon DEF destroy_child, Destroyed, NoDriver, Pcid, deviceVars, IsolationInv, Shapes
  <2> QED
    BY <2>1 DEF IsolationInv, EnabledOnlyIsolated, Places, Routes, NoInstance, Armed, Alive
<1>7. CASE FreeBlocks
  <2>1. /\ UNCHANGED <<setup, driver, iommu, func>>
        /\ pcid.pc = "free"
        /\ pcid'.pc \in {"prepare", "loop"}
        /\ pcid'.gen = pcid.gen /\ pcid'.pid = 0
        /\ Shapes'
    BY <1>7 DEF FreeBlocks, deviceVars, IsolationInv, Shapes
  <2> QED
    BY <2>1 DEF IsolationInv, EnabledOnlyIsolated, Places, Routes, NoInstance, Armed, Alive
<1>8. CASE (\E op \in Asks : test_block_service(op))
  <2>1. /\ UNCHANGED <<setup, driver, iommu, func>>
        /\ pcid.pc \in {"info", "read"} /\ pcid'.pc \in {"info_wait", "read_wait"}
        /\ pcid'.gen = pcid.gen /\ pcid'.pid = pcid.pid /\ pcid'.cap = pcid.cap
        /\ Shapes'
    BY <1>8 DEF Asks, test_block_service, Pcid, deviceVars, IsolationInv, Shapes
  <2> QED
    BY <2>1 DEF IsolationInv, EnabledOnlyIsolated, Places, Routes, NoInstance, Armed, Alive
<1> QED
  BY <1>1, <1>2, <1>3, <1>4, <1>5, <1>6, <1>7, <1>8

-----------------------------------------------------------------------------
\* nvmed attaches its domain before it asks for its route, and writes the route
\* before it says that it is ready.
LEMMA BringUpIsolation ==
    ASSUME IsolationInv,
           ResetQueues \/ Isolate \/ Route \/ SignalReady \/ Enable
    PROVE  IsolationInv'
<1>1. CASE ResetQueues
  <2>1. /\ UNCHANGED <<pcid, setup, iommu>>
        /\ func'.bme = func.bme /\ func'.msg = func.msg /\ func'.on = func.on
        /\ driver.alive = "run" /\ driver'.alive \in {"run", "dead"}
        /\ driver'.alive = "run" => driver'.pc = "isolate"
        /\ Shapes'
    BY <1>1 DEF ResetQueues, Goes, Exits, Alive, pcidVars, IsolationInv, Shapes
  <2> QED
    BY <2>1 DEF IsolationInv, EnabledOnlyIsolated, Places, Routes, NoInstance, Armed, Alive
<1>2. CASE Isolate
  <2>1. /\ UNCHANGED <<pcid, setup, func>>
        /\ driver.alive = "run" /\ driver'.alive \in {"run", "dead"}
        /\ driver'.alive = "dead" => iommu' = iommu
        /\ driver'.alive = "run" => iommu # "attached"
        /\ driver'.pc = "isolate" \/ (driver'.pc = "route" /\ iommu' = "attached")
        /\ Shapes'
    BY <1>2 DEF Isolate, Stages, Goes, Exits, Alive, pcidVars, deviceVars, IsolationInv, Shapes
  <2> QED
    BY <2>1 DEF IsolationInv, EnabledOnlyIsolated, Places, Routes, NoInstance, Armed, Alive
<1>3. CASE Route
  <2>1. /\ UNCHANGED <<pcid, iommu, func>>
        /\ Alive("route")
        /\ driver'.alive \in {"run", "dead"}
        /\ setup'.n_irq_routes = setup.n_irq_routes
        /\ \/ driver'.alive = "dead" /\ setup' = setup
           \/ driver'.pc = "ready" /\ setup'.route = pcid.gen
        /\ Shapes'
    BY <1>3 DEF Route, Goes, Exits, Alive, pcidVars, deviceVars, IsolationInv, Shapes
  <2> QED
    BY <2>1 DEF IsolationInv, EnabledOnlyIsolated, Places, Routes, NoInstance, Armed, Alive
<1>4. CASE SignalReady
  <2>1. /\ UNCHANGED <<pcid, iommu, func>>
        /\ Alive("ready")
        /\ setup'.route = setup.route
        /\ driver'.alive = "run" /\ driver'.pc = "wait_live"
        /\ Shapes'
    BY <1>4 DEF SignalReady, Goes, Alive, pcidVars, deviceVars, IsolationInv, Shapes
  <2> QED
    BY <2>1 DEF IsolationInv, EnabledOnlyIsolated, Places, Routes, NoInstance, Armed, Alive
<1>5. CASE Enable
  <2>1. /\ UNCHANGED <<pcid, setup, iommu>>
        /\ func'.bme = func.bme /\ func'.msg = func.msg /\ func'.on = func.on
        /\ driver.alive = "run" /\ driver'.alive \in {"run", "dead"}
        /\ driver'.pc \in {"wait_live", "admin"}
        /\ Shapes'
    BY <1>5 DEF Enable, Goes, Exits, Alive, pcidVars, IsolationInv, Shapes
  <2> QED
    BY <2>1 DEF IsolationInv, EnabledOnlyIsolated, Places, Routes, NoInstance, Armed, Alive
<1> QED
  BY <1>1, <1>2, <1>3, <1>4, <1>5

\* A step of the running driver that is past the bring-up, or that ends it.
Serving ==
    /\ UNCHANGED <<pcid, setup, iommu, func>>
    /\ driver.alive = "run" /\ driver'.alive \in {"run", "dead"}
    /\ driver'.alive = "run" => driver'.pc \notin {"route", "ready"}
    /\ {"alive", "pc"} \subseteq DOMAIN driver'

\* Serving requests, or dying, enables nothing.
LEMMA ServingIsolation == IsolationInv /\ Serving => IsolationInv'
BY DEF Serving, IsolationInv, Shapes, EnabledOnlyIsolated, Places, Routes, NoInstance, Armed, Alive

\* The admin commands, and a death at any point.
LEMMA AdminServes ==
    ASSUME Shapes, AdminSubmit \/ AdminPoll \/ Leave \/ Die
    PROVE  Serving
<1>1. CASE AdminSubmit
  <2>1. /\ UNCHANGED <<pcid, setup, iommu, func>> /\ driver.alive = "run"
    BY <1>1, Zenon DEF AdminSubmit, pcidVars, Alive
  <2>2. CASE driver' = [driver EXCEPT !.pc = "leave"]
    BY <2>1, <2>2 DEF Shapes, Serving
  <2>3. CASE \E cid : driver' = [driver EXCEPT !.pc = "admin_poll", !.cid = cid]
    BY <2>1, <2>3 DEF Shapes, Serving
  <2> QED
    BY <1>1, <2>2, <2>3, Zenon DEF AdminSubmit, Goes
<1>2. CASE AdminPoll
  <2>1. UNCHANGED <<pcid, setup, iommu, func>> /\ driver.alive = "run"
    BY <1>2, Zenon DEF AdminPoll, pcidVars, Alive
  <2>2. CASE Exits
    BY <2>1, <2>2 DEF Exits, Shapes, Serving
  <2>3. CASE \E k : driver' = [driver EXCEPT !.pc = "shares", !.k = k]
    BY <2>1, <2>3 DEF Shapes, Serving
  <2>4. CASE \E k : driver' = [driver EXCEPT !.pc = "admin", !.k = k]
    BY <2>1, <2>4 DEF Shapes, Serving
  <2>5. \/ driver' = [driver EXCEPT !.pc = IF driver.k = Len(Script) THEN "shares" ELSE "admin",
                                  !.k = IF driver.k = Len(Script) THEN 1 ELSE driver.k + 1]
        \/ Exits
    BY <1>2, Zenon DEF AdminPoll
  <2>6. CASE driver.k = Len(Script)
    BY <2>2, <2>3, <2>5, <2>6, Zenon
  <2>7. CASE driver.k # Len(Script)
    BY <2>2, <2>4, <2>5, <2>7, Zenon
  <2> QED
    BY <2>6, <2>7
<1>3. CASE Leave
  BY <1>3 DEF Leave, Exits, pcidVars, deviceVars, Alive, Shapes, Serving
<1>4. CASE Die
  BY <1>4 DEF Die, Exits, pcidVars, deviceVars, Shapes, Serving
<1> QED BY <1>1, <1>2, <1>3, <1>4

\* The block service.
LEMMA BlockServes ==
    ASSUME Shapes, CreateShares \/ LoopStep \/ nvme_rw \/ Poll \/ Reply
    PROVE  Serving
<1>1. CASE CreateShares
  BY <1>1 DEF CreateShares, Goes, Exits, pcidVars, deviceVars, Alive, Shapes, Serving
<1>2. CASE LoopStep
  <2>1. UNCHANGED <<pcid, setup, iommu, func>> /\ driver.alive = "run" /\ driver.pc = "loop"
    BY <1>2, Zenon DEF LoopStep, pcidVars, deviceVars, Alive
  <2>2. CASE \E k : driver' = [driver EXCEPT !.k = k]
    BY <2>1, <2>2 DEF Shapes, Serving
  <2> DEFINE r == chan[table[driver.k].chan].want
             Taking(at) == \E seq : driver' = [driver EXCEPT !.want = r, !.seq = seq, !.status = Verdict(r), !.pc = at]
  <2>3. CASE Taking("submit")
    BY <2>1, <2>3 DEF Shapes, Serving
  <2>4. CASE Taking("reply")
    BY <2>1, <2>4 DEF Shapes, Serving
  <2>5. \/ \E k : driver' = [driver EXCEPT !.k = k]
        \/ Taking(IF Verdict(r) = "OK" /\ r.op # "INFO" THEN "submit" ELSE "reply")
    BY <1>2, Zenon DEF LoopStep
  <2>6. CASE Verdict(r) = "OK" /\ r.op # "INFO"
    BY <2>2, <2>3, <2>5, <2>6, Zenon
  <2>7. CASE ~(Verdict(r) = "OK" /\ r.op # "INFO")
    BY <2>2, <2>4, <2>5, <2>7, Zenon
  <2> QED
    BY <2>6, <2>7, Zenon
<1>3. CASE nvme_rw
  BY <1>3 DEF nvme_rw, pcidVars, Alive, Shapes, Serving
<1>4. CASE Poll
  <2>1. /\ UNCHANGED <<pcid, setup, iommu, func>> /\ driver.alive = "run"
        /\ \E status : driver' = [driver EXCEPT !.pc = "reply", !.status = status]
    BY <1>4, Zenon DEF Poll, pcidVars, Alive
  <2> QED
    BY <2>1 DEF Shapes, Serving
<1>5. CASE Reply
  <2>1. /\ UNCHANGED <<pcid, setup, iommu, func>> /\ driver.alive = "run"
        /\ driver' = [driver EXCEPT !.pc = "loop", !.k = @ + 1]
    BY <1>5, Zenon DEF Reply, pcidVars, deviceVars, Alive
  <2> QED
    BY <2>1 DEF Shapes, Serving
<1> QED BY <1>1, <1>2, <1>3, <1>4, <1>5

\* The controller and the clients touch none of isoVars.
LEMMA OthersFrame == ControllerStep \/ ClientStep => UNCHANGED isoVars
<1>1. ASSUME NEW q, Fetch(q) PROVE UNCHANGED isoVars
  BY <1>1, Zenon DEF Fetch, pcidVars, isoVars
<1>2. ASSUME NEW q, NEW cmd, NEW ok, Complete(q, cmd, ok) PROVE UNCHANGED isoVars
  BY <1>2, Zenon DEF Complete, pcidVars, isoVars
<1>3. ASSUME NEW k, Share(k) PROVE UNCHANGED isoVars
  BY <1>3, Zenon DEF Share, pcidVars, deviceVars, isoVars
<1>4. ASSUME NEW k, NEW r, Ask(k, r) PROVE UNCHANGED isoVars
  BY <1>4, Zenon DEF Ask, pcidVars, deviceVars, isoVars
<1> QED
  BY <1>1, <1>2, <1>3, <1>4, Zenon DEF ControllerStep, ClientStep

\* Every step keeps the isolation invariant.
LEMMA NextIsolation == IsolationInv /\ [NextDriver]_driverVars => IsolationInv'
<1> SUFFICES ASSUME IsolationInv, [NextDriver]_driverVars PROVE IsolationInv'
  OBVIOUS
<1>s. Shapes
  BY DEF IsolationInv
<1>1. CASE PcidStep
  BY <1>1, PrepareIsolation, EnableIsolation, BuryIsolation DEF PcidStep
<1>2. CASE NvmedStep
  BY <1>2, <1>s, BringUpIsolation, AdminServes, BlockServes, ServingIsolation DEF NvmedStep
<1>3. CASE Die
  BY <1>3, <1>s, AdminServes, ServingIsolation
<1>4. CASE ControllerStep \/ ClientStep
  BY <1>4, OthersFrame, FrameIsolation
<1>5. CASE UNCHANGED driverVars
  BY <1>5, FrameIsolation DEF driverVars, pcidVars, deviceVars, isoVars
<1> QED BY <1>1, <1>2, <1>3, <1>4, <1>5 DEF NextDriver

\* pcid never lets a function master the bus, or interrupt, unless its driver's
\* domain is attached and its message is the present instance's: whatever
\* machine is discovered, wherever bring-up fails and whenever nvmed dies.
THEOREM EnabledOnlyIsolatedCorrect == DriverSpec => []EnabledOnlyIsolated
<1>1. IsolationInv => EnabledOnlyIsolated
  BY DEF IsolationInv
<1> QED BY <1>1, InitIsolation, NextIsolation, PTL DEF DriverSpec

=============================================================================
