-------------------------------- MODULE Pci --------------------------------
(***************************************************************************)
(* PCI discovery in pcid: the MCFG allocations, the depth-first walk over   *)
(* buses and bridges, and the capability chain of each function             *)
(* (packages/pcid/pcid.c).                                                  *)
(*                                                                         *)
(* The hardware is a function from the locations <<bus, dev, fn>> that      *)
(* answer to their registers: the class, the multifunction bit, a bridge's  *)
(* bus numbers and the capability list, a map from slots to [id, next].     *)
(***************************************************************************)
EXTENDS Naturals, Sequences, FiniteSets

CONSTANTS
    Bus, DevMax, FnMax,     \* bus numbers, devices a bus, functions a device
    CapSlots,               \* the capability pointers 0x40 .. 0xfc, in dwords
    MAX_FUNCTIONS, MAX_MCFG_ALLOCS

NoCap == 0

\* The chain from the capability pointer: the last MSI and MSI-X entries on
\* it, or not ok when it leaves the list's range or comes back to a slot.
walk_caps(f) ==
    LET walk[seen \in SUBSET CapSlots, p \in Nat, msi \in Nat, msix \in Nat] ==
          IF p = 0 THEN [msi |-> msi, msix |-> msix, ok |-> TRUE]
          ELSE IF p \notin CapSlots \/ p \in seen THEN [msi |-> msi, msix |-> msix, ok |-> FALSE]
          ELSE walk[seen \cup {p}, f.cap[p].next,
                    IF f.cap[p].id = "msi" THEN p ELSE msi,
                    IF f.cap[p].id = "msix" THEN p ELSE msix]
    IN  walk[{}, f.first, NoCap, NoCap]

\* A function is silenced before its capabilities are read; it is recorded
\* when they are well formed and the table has room.
record_function(st, hw, loc) ==
    IF Len(st.functions) = MAX_FUNCTIONS \/ loc \notin DOMAIN hw THEN st
    ELSE [st EXCEPT !.quiet = @ \cup {loc},
                    !.functions = IF walk_caps(hw[loc]).ok THEN Append(@, loc) ELSE @]

\* Mutant: the bus range of a bridge is trusted.
BehindAny(f, a, bus) ==
    f.class = "bridge"

Behind(f, a, bus) ==
    /\ f.class = "bridge" /\ f.sec > bus /\ f.sec <= f.sub /\ f.sub <= a.end_bus

Location == Bus \X (0 .. DevMax - 1) \X (0 .. FnMax - 1)
Progress == [functions : Seq(Location), visited : SUBSET Bus, quiet : SUBSET Location]

\* Function fn answers only through function 0 of its device.
record_slot(st, hw, bus, dev, fn) ==
    LET c0 == <<bus, dev, 0>>
    IN  IF c0 \in DOMAIN hw /\ (fn = 0 \/ hw[c0].multi) THEN record_function(st, hw, <<bus, dev, fn>>) ELSE st

\* Step 0 enters a bus once; step k visits its k-th function, and walks the
\* bus behind it at once when it is recorded and a bridge.
scan_bus(hw, a) ==
    LET scan[st \in Progress, bus \in Bus, k \in 0 .. DevMax * FnMax + 1] ==
          IF k > DevMax * FnMax THEN st
          ELSE IF k = 0
          THEN IF bus < a.start_bus \/ bus > a.end_bus \/ bus \in st.visited THEN st
               ELSE scan[[st EXCEPT !.visited = @ \cup {bus}], bus, 1]
          ELSE LET rec == record_slot(st, hw, bus, (k - 1) \div FnMax, (k - 1) % FnMax)
                   loc == rec.functions[Len(rec.functions)]
               IN  IF rec.functions # st.functions /\ Behind(hw[loc], a, bus)
                   THEN scan[scan[rec, hw[loc].sec, 0], bus, k + 1]
                   ELSE scan[rec, bus, k + 1]
    IN  scan

\* The allocations are usable: a whole, small number of them, none reversed.
parse_mcfg(mcfg) ==
    /\ Len(mcfg) \in 1 .. MAX_MCFG_ALLOCS
    /\ \A i \in DOMAIN mcfg : mcfg[i].start_bus <= mcfg[i].end_bus

\* The discovery of _start: each allocation is walked from its first bus.
Discovered(hw, mcfg) ==
    LET from[i \in 0 .. Len(mcfg)] ==
          IF i = 0 THEN [functions |-> <<>>, visited |-> {}, quiet |-> {}]
          ELSE scan_bus(hw, mcfg[i])[[from[i - 1] EXCEPT !.visited = {}], mcfg[i].start_bus, 0]
    IN  from[Len(mcfg)]

-----------------------------------------------------------------------------
\* What discovery is for, said without the walk.

\* The least set that holds x and is closed under step.
Closure(x, step(_), S) ==
    {y \in S : \A T \in SUBSET S : x \in T /\ (\A z \in T : step(z) \subseteq T) => y \in T}

WellFormed(f) ==
    LET next(p) == IF p \in CapSlots THEN {f.cap[p].next} ELSE {}
        chain == Closure(f.first, next, {f.first} \cup {f.cap[p].next : p \in CapSlots})
    IN  0 \in chain /\ chain \subseteq CapSlots \cup {0}

Answers(hw, bus) ==
    {loc \in DOMAIN hw : /\ loc[1] = bus /\ <<bus, loc[2], 0>> \in DOMAIN hw
                         /\ (loc[3] = 0 \/ hw[<<bus, loc[2], 0>>].multi)}

Reached(hw, a) ==
    LET next(b) == {hw[loc].sec : loc \in {l \in Answers(hw, b) : /\ WellFormed(hw[l]) /\ hw[l].class = "bridge"
                                                                  /\ hw[l].sec \in (b + 1) .. hw[l].sub
                                                                  /\ hw[l].sub <= a.end_bus}}
    IN  Closure(a.start_bus, next, Bus)
=============================================================================
