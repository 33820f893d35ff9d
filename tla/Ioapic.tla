------------------------------- MODULE Ioapic -------------------------------
(***************************************************************************)
(* Finding and programming the interrupt controllers of the board:         *)
(* find_madt and parse of src/madt.cpp, and init, route_irq and mask_irq   *)
(* of src/ioapic.cpp, one register access after the other.                 *)
(*                                                                         *)
(* Firmware and board are external: the ACPI tables, the entries as the    *)
(* firmware left them, and the wiring of ISA interrupts to pins, which is  *)
(* what the MADT describes.  kernel_main runs init for every chip found;   *)
(* nothing calls route_irq and mask_irq yet, and the model lets drivers    *)
(* call them in any order, one at a time.                                  *)
(***************************************************************************)
EXTENDS Integers, Sequences, FiniteSets, Functions

CONSTANTS
  MAX_IOAPICS, MAX_ISOS,
  Chips,     \* the IOAPICs of the board: chip -> number of entries
  Tables,    \* the tables firmware may present: sequences of [sig, entries]
  Calls,     \* what drivers pass to route_irq: << irq, dest, vector >>
  Off        \* a pin that sends nothing

IoEntries(entries) == { e \in Range(entries) : e.type = "ioapic" }
Gsis(e) == e.gsi_base .. e.gsi_base + Chips[e.chip] - 1

\* The MADTs firmware may present.
MadtsOf(ts) == { t \in DOMAIN ts : ts[t].sig = "APIC" }
FirmwareMadts == UNION { { ts[t].entries : t \in MadtsOf(ts) } : ts \in Tables }

\* A MADT describes the board: the chips it lists are there, and no two of them answer
\* to the same interrupt.
ASSUME BoardAssumption ==
  /\ \A c \in DOMAIN Chips : Chips[c] \in Nat
  /\ \A c \in Calls : c[1] \in Nat
  /\ \A ts \in Tables : DOMAIN ts \subseteq Nat
  /\ \A entries \in FirmwareMadts :
       /\ entries \in Seq(Range(entries))
       /\ \A e \in Range(entries) : e.type = "iso" => e.gsi \in Nat
       /\ \A e \in IoEntries(entries) : e.chip \in DOMAIN Chips /\ e.gsi_base \in Nat
       /\ \A e, f \in IoEntries(entries) : e # f => Gsis(e) \cap Gsis(f) = {}

VARIABLES
  tables,    \* the tables of this machine
  info,      \* ApicInfo: [ioapics, isos]
  g_ioapics, \* [chip, gsi_base, max_rte]
  low, high, \* the two registers of each entry: [vector, masked], and the destination
  boot,      \* where kernel_main is: [pc, i]
  driver,    \* the call a driver makes: [pc, ...]
  asked      \* history: what drivers asked each pin to send

chipVars == << low, high >>
ioapicVars == << tables, info, g_ioapics, low, high, boot, driver, asked >>

Pin == UNION { {c} \X (0 .. Chips[c] - 1) : c \in DOMAIN Chips }
IsaIrq == { c[1] : c \in Calls }
Dest == { c[2] : c \in Calls }
Vector == { c[3] : c \in Calls }
Target == [vector : Vector \cup {0}, dest : Dest \cup {0, 1}]
NoDriver == [pc |-> "idle", irq |-> 0, dest |-> 0, vector |-> 0]

IoapicInit ==
  /\ tables \in Tables
  /\ info = [ioapics |-> << >>, isos |-> << >>]
  /\ g_ioapics = << >>
  /\ \E dirty \in BOOLEAN :  \* the firmware left its entries masked, or in use
       low = [p \in Pin |-> [vector |-> 0, masked |-> ~dirty]]
  /\ high = [p \in Pin |-> 1]
  /\ boot = [pc |-> "apic", i |-> 1]
  /\ driver = NoDriver
  /\ asked = [p \in Pin |-> [on |-> FALSE, to |-> Off]]

BootAt(pc) == boot.pc = pc
BootTo(pc) == boot' = [pc |-> pc, i |-> 1]
BootOn == boot' = [boot EXCEPT !.i = @ + 1]

-----------------------------------------------------------------------------
(* madt.cpp.                                                               *)

Madts == MadtsOf(tables)

\* The first table with the signature.
find_madt == tables[CHOOSE t \in Madts : \A s \in Madts : t <= s]

\* No table panics; without the loader's answer the walk starts at a null pointer,
\* which ends in a page fault.
FindMadt ==
  /\ BootAt("find")
  /\ BootTo(IF tables # << >> /\ tables[1].sig = "none" THEN "fault"
            ELSE IF Madts = {} THEN "panic" ELSE "walk")
  /\ UNCHANGED << tables, info, g_ioapics, chipVars, driver, asked >>

\* An entry past the limit is dropped.
Add(list, limit, entry) == IF Len(list) < limit THEN Append(list, entry) ELSE list

\* One entry of the walk; other kinds are passed over.
parse ==
  /\ BootAt("walk")
  /\ LET entries == find_madt.entries
         e == entries[boot.i]
     IN  IF boot.i > Len(entries) THEN BootTo("chips") /\ UNCHANGED info
         ELSE /\ info' = CASE e.type = "ioapic" ->
                                [info EXCEPT !.ioapics = Add(@, MAX_IOAPICS, e)]
                           [] e.type = "iso" -> [info EXCEPT !.isos = Add(@, MAX_ISOS, e)]
                           [] OTHER -> info
              /\ BootOn
  /\ UNCHANGED << tables, g_ioapics, chipVars, driver, asked >>

-----------------------------------------------------------------------------
(* ioapic.cpp.                                                             *)

\* The chip at the address is mapped and its number of entries read.  More chips
\* than there is room for panic.
init ==
  /\ BootAt("chips")
  /\ IF boot.i > Len(info.ioapics) THEN BootTo("masked") /\ UNCHANGED g_ioapics
     ELSE IF Len(g_ioapics) >= MAX_IOAPICS THEN BootTo("panic") /\ UNCHANGED g_ioapics
     ELSE LET e == info.ioapics[boot.i]
          IN  /\ g_ioapics' = Append(g_ioapics, [chip |-> e.chip, gsi_base |-> e.gsi_base,
                                                 max_rte |-> Chips[e.chip]])
              /\ boot' = [pc |-> "rte_low", i |-> 0]
  /\ UNCHANGED << tables, info, chipVars, driver, asked >>

ThisChip == g_ioapics[Len(g_ioapics)]

\* Each entry in turn: masked first, then its destination cleared.
MaskEntry ==
  /\ BootAt("rte_low")
  /\ IF boot.i = ThisChip.max_rte
     THEN boot' = [pc |-> "chips", i |-> Len(g_ioapics) + 1] /\ UNCHANGED low
     ELSE /\ low' = [low EXCEPT ![<< ThisChip.chip, boot.i >>] = [vector |-> 0, masked |-> TRUE]]
          /\ boot' = [boot EXCEPT !.pc = "rte_high"]
  /\ UNCHANGED << tables, info, g_ioapics, high, driver, asked >>

ClearDest ==
  /\ BootAt("rte_high")
  /\ high' = [high EXCEPT ![<< ThisChip.chip, boot.i >>] = 0]
  /\ boot' = [pc |-> "rte_low", i |-> boot.i + 1]
  /\ UNCHANGED << tables, info, g_ioapics, low, driver, asked >>

\* Mutant: overrides are for the other bus.
MutIgnoresOverride(irq) == irq

\* The first override for the interrupt, or the interrupt itself.
isa_to_gsi(irq) ==
  LET hits == { i \in DOMAIN info.isos : info.isos[i].irq = irq }
  IN  IF hits = {} THEN irq ELSE info.isos[CHOOSE i \in hits : \A j \in hits : i <= j].gsi

\* The first chip whose range holds the interrupt.
Handling(gsi) ==
  { i \in DOMAIN g_ioapics : /\ gsi >= g_ioapics[i].gsi_base
                             /\ gsi < g_ioapics[i].gsi_base + g_ioapics[i].max_rte }
find_ioapic_for_gsi(gsi) ==
  g_ioapics[CHOOSE i \in Handling(gsi) : \A j \in Handling(gsi) : i <= j]

PinFor(irq) ==
  LET gsi == isa_to_gsi(irq)
      inst == find_ioapic_for_gsi(gsi)
  IN  << inst.chip, gsi - inst.gsi_base >>

Found(irq) == Handling(isa_to_gsi(irq)) # {}

\* What the board wires the interrupt to, by the whole of the MADT.
WiredTo(irq) ==
  LET entries == find_madt.entries
      isos == { i \in DOMAIN entries : entries[i].type = "iso" /\ entries[i].irq = irq }
      gsi == IF isos = {} THEN irq ELSE entries[CHOOSE i \in isos : \A j \in isos : i <= j].gsi
  IN  { << e.chip, gsi - e.gsi_base >> : e \in { f \in IoEntries(entries) : gsi \in Gsis(f) } }

Running == boot.pc = "up"

\* Mutant: the destination is written while the entry still sends.
MutDestFirst(irq, dest, vector) ==
  /\ Running /\ driver.pc = "idle"
  /\ driver' = IF Found(irq)
               THEN [pc |-> "dest", irq |-> irq, dest |-> dest, vector |-> vector] ELSE NoDriver
  /\ boot' = IF g_ioapics = << >> THEN [boot EXCEPT !.pc = "panic"] ELSE boot
  /\ UNCHANGED << tables, info, g_ioapics, chipVars, asked >>

\* A driver calls route_irq or mask_irq.  An interrupt no chip handles is reported
\* and nothing happens; without any chip route_irq panics.
route_irq(irq, dest, vector) ==
  /\ Running /\ driver.pc = "idle"
  /\ driver' = IF Found(irq)
               THEN [pc |-> "mask", irq |-> irq, dest |-> dest, vector |-> vector] ELSE NoDriver
  /\ boot' = IF g_ioapics = << >> THEN [boot EXCEPT !.pc = "panic"] ELSE boot
  /\ UNCHANGED << tables, info, g_ioapics, chipVars, asked >>

RouteMask ==
  /\ Running /\ driver.pc = "mask"
  /\ low' = [low EXCEPT ![PinFor(driver.irq)].masked = TRUE]
  /\ driver' = [driver EXCEPT !.pc = "dest"]
  /\ UNCHANGED << tables, info, g_ioapics, high, boot, asked >>

RouteDest ==
  /\ Running /\ driver.pc = "dest"
  /\ high' = [high EXCEPT ![PinFor(driver.irq)] = driver.dest]
  /\ driver' = [driver EXCEPT !.pc = "vector"]
  /\ UNCHANGED << tables, info, g_ioapics, low, boot, asked >>

\* The vector and the cleared mask are one write.
RouteVector ==
  /\ Running /\ driver.pc = "vector"
  /\ low' = [low EXCEPT ![PinFor(driver.irq)] = [vector |-> driver.vector, masked |-> FALSE]]
  /\ asked' = [p \in Pin |-> IF p \in WiredTo(driver.irq)
                             THEN [on |-> TRUE, to |-> [vector |-> driver.vector, dest |-> driver.dest]]
                             ELSE asked[p]]
  /\ driver' = NoDriver
  /\ UNCHANGED << tables, info, g_ioapics, high, boot >>

\* Masking keeps the rest of the entry.  Drivers unmask only what they have routed.
mask_irq(irq) ==
  /\ Running /\ driver.pc = "idle" /\ Found(irq)
  /\ low' = [low EXCEPT ![PinFor(irq)].masked = TRUE]
  /\ asked' = [p \in Pin |-> IF p \in WiredTo(irq) THEN [asked[p] EXCEPT !.on = FALSE] ELSE asked[p]]
  /\ UNCHANGED << tables, info, g_ioapics, high, boot, driver >>

Sends(p) == [vector |-> low[p].vector, dest |-> high[p]]
Live == [p \in Pin |-> IF low[p].masked THEN Off ELSE Sends(p)]

unmask_irq(irq) ==
  /\ Running /\ driver.pc = "idle" /\ Found(irq)
  /\ low[PinFor(irq)].vector # 0
  /\ low' = [low EXCEPT ![PinFor(irq)].masked = FALSE]
  /\ asked' = [p \in Pin |-> IF p \in WiredTo(irq) THEN [asked[p] EXCEPT !.on = TRUE] ELSE asked[p]]
  /\ UNCHANGED << tables, info, g_ioapics, high, boot, driver >>

BootSteps == FindMadt \/ parse \/ init \/ MaskEntry \/ ClearDest

DriverSteps ==
  \/ \E c \in Calls : route_irq(c[1], c[2], c[3])
  \/ RouteMask \/ RouteDest \/ RouteVector
  \/ \E irq \in IsaIrq : mask_irq(irq) \/ unmask_irq(irq)

-----------------------------------------------------------------------------
(* Properties.                                                             *)

IrqTableOf == INSTANCE IrqTable WITH live <- Live

\* The register accesses of init, route_irq and mask_irq implement a table of pins
\* that are turned off before they are given another target: an interrupt that comes
\* between two of them is sent where the entry pointed before or not at all.
TableSpec == IrqTableOf!Spec

\* The MADT has no more chips and overrides than ApicInfo has room for; parse drops
\* the others.
MadtFits ==
  /\ MAX_IOAPICS \in Nat /\ MAX_ISOS \in Nat
  /\ \A entries \in FirmwareMadts :
       /\ Cardinality({ i \in DOMAIN entries : entries[i].type = "ioapic" }) <= MAX_IOAPICS
       /\ Cardinality({ i \in DOMAIN entries : entries[i].type = "iso" }) <= MAX_ISOS

\* Once kernel_main has said that all interrupts are masked, a pin sends exactly what
\* a driver asked last for the interrupt the board wires to it, and nothing before
\* that, whatever the firmware left behind.  This is of the chips the MADT lists.
RoutesExact ==
  Running /\ driver.pc = "idle" =>
    \A p \in Pin : (\E e \in IoEntries(find_madt.entries) : e.chip = p[1])
                     => Live[p] = IF asked[p].on THEN asked[p].to ELSE Off
=============================================================================
