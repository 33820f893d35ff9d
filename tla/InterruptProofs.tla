---------------------------- MODULE InterruptProofs ----------------------------
(***************************************************************************)
(* For every board, every table of the firmware and every use drivers make *)
(* of them, the register accesses of src/ioapic.cpp implement IrqTable, a  *)
(* pin sends what a driver asked last, and the entry code of src/idt.cpp   *)
(* gives the interrupted code everything back.                             *)
(*                                                                         *)
(* The invariants.  TableInv: the entry a driver is routing, and the entry *)
(* init is clearing, are masked from the first write to the last, which    *)
(* needs that a driver's call is over, or the machine up, before a chip is *)
(* added, since that could change the pin an interrupt belongs to.         *)
(* FrameInv: while a handler runs the stack holds what was interrupted.    *)
(* RouteInv: at each point of the boot, what parse has read of the MADT,   *)
(* which chips init has added and which entries it has cleared; then that  *)
(* every pin but the one a driver is at does what was asked of it.         *)
(***************************************************************************)
EXTENDS Interrupts, FiniteSetTheorems, WellFoundedInduction, TLAPS

Entry == [vector : Vector \cup {0}, masked : BOOLEAN]

Registers ==
  /\ low \in [Pin -> Entry]
  /\ high \in [Pin -> Dest \cup {0, 1}]

Places ==
  /\ boot = [pc |-> boot.pc, i |-> boot.i]
  /\ driver = [pc |-> driver.pc, irq |-> driver.irq, dest |-> driver.dest, vector |-> driver.vector]
  /\ driver.pc # "idle" => boot.pc = "up"
  /\ driver.dest \in Dest \cup {0} /\ driver.vector \in Vector \cup {0}

Silent(p) == p \in Pin => low[p].masked

Routing == driver.pc \in {"dest", "vector"} => Silent(PinFor(driver.irq))
Clearing == boot.pc = "rte_high" => Silent(<< ThisChip.chip, boot.i >>)

TableInv == Registers /\ Places /\ Routing /\ Clearing

-----------------------------------------------------------------------------
(* What a write to one entry does to the pins.                             *)

Others(p) == \A q \in Pin : q # p => low'[q] = low[q]

\* Masking an entry turns its pin off, or leaves it off.
LEMMA Masking ==
  ASSUME Registers, NEW p, Others(p), high' = high, p \in Pin => low'[p].masked
  PROVE  [IrqTableOf!Next]_Live
<1>1. CASE p \notin Pin \/ low[p].masked
  <2>1. \A q \in Pin : (IF low'[q].masked THEN Off ELSE [vector |-> low'[q].vector, dest |-> high'[q]])
                       = (IF low[q].masked THEN Off ELSE [vector |-> low[q].vector, dest |-> high[q]])
    BY <1>1, Zenon DEF Others
  <2>2. Live' = Live
    BY <2>1, Zenon DEF Live, Sends
  <2> QED
    BY <2>2, Zenon
<1>2. CASE p \in Pin /\ ~low[p].masked
  <2>1. Live' = [Live EXCEPT ![p] = Off]
    BY <1>2, Zenon DEF Others, Live, Sends
  <2>2. CASE Live[p] = Off
    <3>1. Live' = Live
      BY <1>2, <2>1, <2>2, Zenon DEF Live
    <3> QED
      BY <3>1, Zenon
  <2>3. CASE Live[p] # Off
    BY <1>2, <2>1, <2>3, Zenon DEF IrqTableOf!Next, IrqTableOf!TurnOff
  <2> QED
    BY <2>2, <2>3, Zenon
<1> QED
  BY <1>1, <1>2, Zenon

\* Clearing the mask of a masked entry turns its pin on.
LEMMA Unmasking ==
  ASSUME Registers, Registers', NEW p, Others(p), high' = high,
         p \in Pin => low[p].masked /\ ~low'[p].masked
  PROVE  [IrqTableOf!Next]_Live
<1>1. CASE p \notin Pin
  <2>1. Live' = Live
    BY <1>1, Zenon DEF Others, Live, Sends
  <2> QED
    BY <2>1, Zenon
<1>2. CASE p \in Pin
  <2> DEFINE t == [vector |-> low'[p].vector, dest |-> high'[p]]
  <2>1. t \in Target
    BY <1>2, Zenon DEF Registers, Entry, Target
  <2>2. Live[p] = Off
    BY <1>2, Zenon DEF Live
  <2>3. Live' = [Live EXCEPT ![p] = t]
    BY <1>2, Zenon DEF Others, Live, Sends
  <2> HIDE DEF t
  <2> QED
    BY <1>2, <2>1, <2>2, <2>3, Zenon DEF IrqTableOf!Next, IrqTableOf!TurnOn
<1> QED
  BY <1>1, <1>2, Zenon

\* A destination written to a masked entry is seen by nobody.
LEMMA Redirecting ==
  ASSUME Registers, NEW p, Silent(p), low' = low, \A q \in Pin : q # p => high'[q] = high[q]
  PROVE  Live' = Live
<1>1. \A q \in Pin : (IF low'[q].masked THEN Off ELSE [vector |-> low'[q].vector, dest |-> high'[q]])
                     = (IF low[q].masked THEN Off ELSE [vector |-> low[q].vector, dest |-> high[q]])
  BY Zenon DEF Silent
<1> QED
  BY <1>1, Zenon DEF Live, Sends

-----------------------------------------------------------------------------
(* The steps.  Each keeps the invariant and is a step of the table.        *)

Kept == TableInv' /\ [IrqTableOf!Next]_Live

IsBoot == boot = [pc |-> boot.pc, i |-> boot.i]

\* At the start every pin is off or as the firmware left it.
LEMMA InitInv == Init => TableInv /\ IrqTableOf!Init
<1> SUFFICES ASSUME Init PROVE TableInv /\ IrqTableOf!Init
  BY Zenon
<1> USE DEF Init, IoapicInit
<1>1. PICK dirty \in BOOLEAN : low = [p \in Pin |-> [vector |-> 0, masked |-> ~dirty]]
  BY Zenon
<1>2. Registers
  BY <1>1, Zenon DEF Registers, Entry
<1>3. Places /\ Routing /\ Clearing
  BY Zenon DEF Places, Routing, Clearing, NoDriver
<1>4. \A p \in Pin : Sends(p) \in Target
  BY <1>2, Zenon DEF Registers, Entry, Sends, Target
<1>5. Live \in [Pin -> Target \cup {Off}]
  BY <1>4, Zenon DEF Live
<1> QED
  BY <1>2, <1>3, <1>5, Zenon DEF TableInv, IrqTableOf!Init

\* A step that leaves the controllers, the registers and the places alone.
LEMMA Stutter == TableInv /\ UNCHANGED ioapicVars => Kept
<1> SUFFICES ASSUME TableInv, UNCHANGED ioapicVars PROVE Kept
  BY Zenon
<1> USE DEF ioapicVars
<1>1. Live' = Live
  BY Zenon DEF Live, Sends
<1>2. PinFor(driver.irq)' = PinFor(driver.irq) /\ ThisChip' = ThisChip
  BY DEF PinFor, isa_to_gsi, find_ioapic_for_gsi, Handling, ThisChip
<1>3. TableInv'
  BY <1>2, Zenon DEF TableInv, Registers, Places, Routing, Clearing, Silent
<1> QED
  BY <1>1, <1>3, Zenon DEF Kept

\* A step of the boot code that writes no register.
LEMMA BootStep ==
  ASSUME TableInv, boot.pc # "up", IsBoot', boot'.pc # "rte_high",
         low' = low, high' = high, driver' = driver
  PROVE  Kept
<1>1. Live' = Live
  BY Zenon DEF Live, Sends
<1>2. driver.pc = "idle"
  BY Zenon DEF TableInv, Places
<1>3. Registers' /\ Places'
  BY <1>2, Zenon DEF TableInv, Registers, Places, IsBoot
<1>4. Routing' /\ Clearing'
  BY <1>2, Zenon DEF Routing, Clearing
<1> QED
  BY <1>1, <1>3, <1>4, Zenon DEF Kept, TableInv

\* Finding the MADT, reading it and adding a chip.
LEMMA MadtSteps == TableInv /\ (FindMadt \/ parse \/ init) => Kept
<1> SUFFICES ASSUME TableInv, FindMadt \/ parse \/ init PROVE Kept
  BY Zenon
<1>1. IsBoot
  BY Zenon DEF TableInv, Places, IsBoot
<1>2. CASE FindMadt
  BY <1>2, BootStep, Zenon DEF FindMadt, BootAt, BootTo, IsBoot, chipVars
<1>3. CASE parse
  BY <1>1, <1>3, BootStep DEF parse, BootAt, BootTo, BootOn, IsBoot, chipVars
<1>4. CASE init
  BY <1>4, BootStep DEF init, BootAt, BootTo, IsBoot, chipVars
<1> QED
  BY <1>2, <1>3, <1>4, Zenon

\* init writes the mask of an entry.
LEMMA MaskEntryStep == TableInv /\ MaskEntry => Kept
<1> SUFFICES ASSUME TableInv, MaskEntry PROVE Kept
  BY Zenon
<1> DEFINE p == << ThisChip.chip, boot.i >>
<1>1. boot.pc = "rte_low" /\ IsBoot /\ high' = high /\ driver' = driver /\ g_ioapics' = g_ioapics
  BY Zenon DEF MaskEntry, BootAt, TableInv, Places, IsBoot
<1>2. CASE low' = low /\ boot' = [pc |-> "chips", i |-> Len(g_ioapics) + 1]
  BY <1>1, <1>2, BootStep, Zenon DEF IsBoot
<1>3. CASE /\ low' = [low EXCEPT ![p] = [vector |-> 0, masked |-> TRUE]]
           /\ boot' = [boot EXCEPT !.pc = "rte_high"]
  <2>1. low \in [Pin -> Entry] /\ high \in [Pin -> Dest \cup {0, 1}]
    BY Zenon DEF TableInv, Registers
  <2>2. /\ Others(p)
        /\ p \in Pin => low'[p].masked
        /\ low' \in [Pin -> Entry]
    <3> HIDE DEF p
    <3> QED
      BY <1>3, <2>1, Zenon DEF Others, Entry
  <2>3. boot' = [pc |-> "rte_high", i |-> boot.i]
    BY <1>1, <1>3, Zenon DEF IsBoot
  <2>4. driver.pc = "idle"
    BY <1>1, Zenon DEF TableInv, Places
  <2>5. Registers' /\ Places' /\ Routing'
    BY <1>1, <2>1, <2>2, <2>3, <2>4, Zenon DEF Registers, Places, Routing, TableInv
  <2>6. ThisChip' = ThisChip
    BY <1>1, Zenon DEF ThisChip
  <2>7. Clearing'
    BY <2>2, <2>3, <2>6, Zenon DEF Clearing, Silent
  <2>8. [IrqTableOf!Next]_Live
    BY <1>1, <2>2, Masking, Zenon DEF TableInv
  <2> QED
    BY <2>5, <2>7, <2>8, Zenon DEF Kept, TableInv
<1> QED
  BY <1>2, <1>3, Zenon DEF MaskEntry

\* init clears the destination of the entry it has masked.
LEMMA ClearDestStep == TableInv /\ ClearDest => Kept
<1> SUFFICES ASSUME TableInv, ClearDest PROVE Kept
  BY Zenon
<1> DEFINE p == << ThisChip.chip, boot.i >>
<1>1. /\ boot.pc = "rte_high" /\ low' = low /\ driver' = driver
      /\ high' = [high EXCEPT ![p] = 0] /\ boot' = [pc |-> "rte_low", i |-> boot.i + 1]
  BY Zenon DEF ClearDest, BootAt
<1>2. Silent(p) /\ Registers
  BY <1>1, Zenon DEF TableInv, Clearing
<1>3. driver.pc = "idle"
  BY <1>1, Zenon DEF TableInv, Places
<1>4. Registers' /\ \A q \in Pin : q # p => high'[q] = high[q]
  <2> HIDE DEF p
  <2> QED
    BY <1>1, <1>2, Zenon DEF Registers
<1>5. Live' = Live
  BY <1>1, <1>2, <1>4, Redirecting, Zenon
<1>6. Places' /\ Routing' /\ Clearing'
  BY <1>1, <1>3, Zenon DEF TableInv, Places, Routing, Clearing
<1> QED
  BY <1>4, <1>5, <1>6, Zenon DEF Kept, TableInv

\* While chips and overrides stay, so does the pin of an interrupt.
LEMMA PinStays ==
  ASSUME info' = info, g_ioapics' = g_ioapics, NEW irq PROVE PinFor(irq)' = PinFor(irq)
  BY DEF PinFor, isa_to_gsi, find_ioapic_for_gsi, Handling

\* A call of route_irq has written nothing yet.
LEMMA RouteStep ==
  ASSUME TableInv, NEW c \in Calls, route_irq(c[1], c[2], c[3]) PROVE Kept
<1>1. /\ boot.pc = "up" /\ low' = low /\ high' = high
      /\ driver' = IF Found(c[1]) THEN [pc |-> "mask", irq |-> c[1], dest |-> c[2], vector |-> c[3]]
                   ELSE NoDriver
      /\ boot' = IF g_ioapics = << >> THEN [boot EXCEPT !.pc = "panic"] ELSE boot
  BY Zenon DEF route_irq, Running, chipVars
<1>2. Live' = Live
  BY <1>1, Zenon DEF Live, Sends
<1>3. c[2] \in Dest /\ c[3] \in Vector
  BY Zenon DEF Dest, Vector
<1>4. g_ioapics = << >> => ~Found(c[1])
  BY DEF Found, Handling
<1>5. IsBoot' /\ boot'.pc # "rte_high" /\ (g_ioapics # << >> => boot'.pc = "up")
  BY <1>1, Zenon DEF IsBoot, TableInv, Places
<1>6. Places'
  BY <1>1, <1>3, <1>4, <1>5, Zenon DEF Places, NoDriver, IsBoot
<1>7. Registers' /\ Routing' /\ Clearing'
  BY <1>1, <1>5, Zenon DEF Registers, TableInv, Routing, Clearing, NoDriver
<1> QED
  BY <1>2, <1>6, <1>7, Zenon DEF Kept, TableInv

\* A driver's step that leaves the boot code alone keeps what is said of it.
LEMMA DriverFacts ==
  ASSUME TableInv, boot.pc = "up", boot' = boot PROVE IsBoot' /\ boot'.pc = "up" /\ Clearing'
  BY Zenon DEF TableInv, Places, IsBoot, Clearing

\* A field of an entry is written.
LEMMA WriteMask ==
  ASSUME Registers, NEW p, NEW b \in BOOLEAN, low' = [low EXCEPT ![p].masked = b]
  PROVE  /\ low' \in [Pin -> Entry]
         /\ Others(p)
         /\ p \in Pin => low'[p].masked = b
<1>1. low \in [Pin -> Entry]
  BY Zenon DEF Registers
<1>2. p \in Pin => [low[p] EXCEPT !.masked = b] \in Entry
  BY <1>1, Zenon DEF Entry
<1> QED
  BY <1>1, <1>2, Zenon DEF Others, Entry

\* route_irq masks the entry.
LEMMA RouteMaskStep == TableInv /\ RouteMask => Kept
<1> SUFFICES ASSUME TableInv, RouteMask PROVE Kept
  BY Zenon
<1> DEFINE p == PinFor(driver.irq)
<1>1. /\ boot.pc = "up" /\ boot' = boot /\ high' = high /\ info' = info /\ g_ioapics' = g_ioapics
      /\ low' = [low EXCEPT ![p].masked = TRUE]
      /\ driver' = [driver EXCEPT !.pc = "dest"]
  BY Zenon DEF RouteMask, Running
<1>2. driver' = [pc |-> "dest", irq |-> driver.irq, dest |-> driver.dest, vector |-> driver.vector]
  BY <1>1, Zenon DEF TableInv, Places
<1>3. low' \in [Pin -> Entry] /\ Others(p) /\ (p \in Pin => low'[p].masked)
  <2> HIDE DEF p
  <2> QED
    BY <1>1, WriteMask, Zenon DEF TableInv
<1>4. PinFor(driver.irq)' = p
  BY <1>1, <1>2, PinStays, Zenon
<1>5. IsBoot' /\ boot'.pc = "up" /\ Clearing'
  BY <1>1, DriverFacts, Zenon
<1>6. Registers' /\ Places'
  BY <1>1, <1>2, <1>3, <1>5, Zenon DEF Registers, Places, TableInv, IsBoot
<1>7. Routing'
  BY <1>3, <1>4, Zenon DEF Routing, Silent
<1>8. [IrqTableOf!Next]_Live
  BY <1>1, <1>3, Masking, Zenon DEF TableInv
<1> QED
  BY <1>5, <1>6, <1>7, <1>8, Zenon DEF Kept, TableInv

\* route_irq writes the destination of the masked entry.
LEMMA RouteDestStep == TableInv /\ RouteDest => Kept
<1> SUFFICES ASSUME TableInv, RouteDest PROVE Kept
  BY Zenon
<1> DEFINE p == PinFor(driver.irq)
<1>1. /\ boot.pc = "up" /\ boot' = boot /\ low' = low /\ info' = info /\ g_ioapics' = g_ioapics
      /\ driver.pc = "dest" /\ high' = [high EXCEPT ![p] = driver.dest]
      /\ driver' = [driver EXCEPT !.pc = "vector"]
  BY Zenon DEF RouteDest, Running
<1>2. driver' = [pc |-> "vector", irq |-> driver.irq, dest |-> driver.dest, vector |-> driver.vector]
  BY <1>1, Zenon DEF TableInv, Places
<1>3. Silent(p) /\ Registers /\ driver.dest \in Dest \cup {0} /\ driver.vector \in Vector \cup {0}
  BY <1>1, Zenon DEF TableInv, Routing, Places
<1>4. Registers' /\ \A q \in Pin : q # p => high'[q] = high[q]
  <2> HIDE DEF p
  <2> QED
    BY <1>1, <1>3, Zenon DEF Registers
<1>5. Live' = Live
  BY <1>1, <1>3, <1>4, Redirecting, Zenon
<1>6. PinFor(driver.irq)' = p
  BY <1>1, <1>2, PinStays, Zenon
<1>7. IsBoot' /\ boot'.pc = "up" /\ Clearing'
  BY <1>1, DriverFacts, Zenon
<1>8. Places'
  BY <1>2, <1>3, <1>7, Zenon DEF Places, IsBoot
<1>9. Routing'
  BY <1>1, <1>3, <1>6, Zenon DEF Routing, Silent
<1> QED
  BY <1>4, <1>5, <1>7, <1>8, <1>9, Zenon DEF Kept, TableInv

\* route_irq writes the vector and clears the mask.
LEMMA RouteVectorStep == TableInv /\ RouteVector => Kept
<1> SUFFICES ASSUME TableInv, RouteVector PROVE Kept
  BY Zenon
<1> DEFINE p == PinFor(driver.irq)
<1>1. /\ boot.pc = "up" /\ boot' = boot /\ high' = high /\ driver.pc = "vector" /\ driver' = NoDriver
      /\ low' = [low EXCEPT ![p] = [vector |-> driver.vector, masked |-> FALSE]]
  BY Zenon DEF RouteVector, Running
<1>2. Silent(p) /\ Registers /\ driver.vector \in Vector \cup {0}
  BY <1>1, Zenon DEF TableInv, Routing, Places
<1>3. /\ Registers' /\ Others(p)
      /\ p \in Pin => low[p].masked /\ ~low'[p].masked
  <2> HIDE DEF p
  <2> QED
    BY <1>1, <1>2, Zenon DEF Registers, Others, Entry, Silent
<1>4. IsBoot' /\ boot'.pc = "up" /\ Clearing'
  BY <1>1, DriverFacts, Zenon
<1>5. Places' /\ Routing'
  BY <1>1, <1>4, Zenon DEF Places, Routing, NoDriver, IsBoot
<1>6. [IrqTableOf!Next]_Live
  BY <1>1, <1>2, <1>3, Unmasking, Zenon
<1> QED
  BY <1>3, <1>4, <1>5, <1>6, Zenon DEF Kept, TableInv

\* mask_irq and unmask_irq, between two calls of route_irq.
LEMMA MaskStep ==
  ASSUME TableInv, NEW irq, mask_irq(irq) \/ unmask_irq(irq) PROVE Kept
<1> DEFINE p == PinFor(irq)
<1>1. /\ boot.pc = "up" /\ boot' = boot /\ high' = high /\ driver.pc = "idle" /\ driver' = driver
      /\ Registers
  BY Zenon DEF mask_irq, unmask_irq, Running, TableInv
<1>2. PICK b \in BOOLEAN : low' = [low EXCEPT ![p].masked = b]
  BY Zenon DEF mask_irq, unmask_irq
<1>3. low' \in [Pin -> Entry] /\ Others(p) /\ (p \in Pin => low'[p].masked = b)
  <2> HIDE DEF p
  <2> QED
    BY <1>1, <1>2, WriteMask, Zenon
<1>4. IsBoot' /\ boot'.pc = "up" /\ Clearing'
  BY <1>1, DriverFacts, Zenon
<1>5. Registers' /\ Places' /\ Routing'
  BY <1>1, <1>3, <1>4, Zenon DEF Registers, Places, Routing, TableInv, IsBoot
<1>6. CASE b = TRUE
  BY <1>1, <1>3, <1>4, <1>5, <1>6, Masking, Zenon DEF Kept, TableInv
<1>7. CASE b = FALSE /\ (p \in Pin => low[p].masked)
  BY <1>1, <1>3, <1>4, <1>5, <1>7, Unmasking, Zenon DEF Kept, TableInv
<1>8. CASE b = FALSE /\ p \in Pin /\ ~low[p].masked
  <2>1. low' = low
    <3> HIDE DEF p
    <3>1. low \in [Pin -> Entry]
      BY <1>1, Zenon DEF Registers
    <3>2. [low[p] EXCEPT !.masked = FALSE] = low[p]
      BY <1>8, <3>1, Zenon DEF Entry
    <3> QED
      BY <1>2, <1>8, <3>1, <3>2, Zenon
  <2>2. Live' = Live
    BY <1>1, <2>1, Zenon DEF Live, Sends
  <2> QED
    BY <1>4, <1>5, <2>2, Zenon DEF Kept, TableInv
<1> QED
  BY <1>2, <1>6, <1>7, <1>8, Zenon

\* Starting the local APIC and its timer.
LEMMA ApicSteps == TableInv /\ (ApicInit \/ timer_init) => Kept
<1> SUFFICES ASSUME TableInv, ApicInit \/ timer_init PROVE Kept
  BY Zenon
<1>1. CASE ApicInit
  BY <1>1, BootStep DEF ApicInit, BootAt, BootTo, IsBoot, chipVars
<1>2. CASE timer_init
  BY <1>2, BootStep, Zenon DEF timer_init, BootAt, BootTo, IsBoot, chipVars
<1> QED
  BY <1>1, <1>2, Zenon

\* A step of the rest of the machine writes no entry.
LEMMA MachineSteps ==
  ASSUME \/ BootPanic \/ NullMadt \/ TimerFires \/ Spurious \/ irqHandler \/ irq_entry \/ Masks \/ Polls
         \/ UnwindFrame \/ UnwindEnd \/ UnwindFault
         \/ \E irq \in IsaIrq : DeviceRaises(irq)
         \/ \E vector \in Vector \cup {APIC_TIMER_VECTOR} : Interrupt(vector)
         \/ \E vector \in Faults : Fault(vector)
  PROVE  UNCHANGED ioapicVars
  BY Zenon DEF BootPanic, NullMadt, TimerFires, Spurious, irqHandler, irq_entry, Masks, Polls, DeviceRaises,
         Interrupt, Fault, UnwindFrame, UnwindEnd, UnwindFault

\* Every step of the machine is a step of the table.
LEMMA StepInv == TableInv /\ [Next]_vars => Kept
<1> SUFFICES ASSUME TableInv, [Next]_vars PROVE Kept
  BY Zenon
<1>1. CASE UNCHANGED vars
  BY <1>1, Stutter, Zenon DEF vars
<1>2. CASE BootSteps
  BY <1>2, MadtSteps, MaskEntryStep, ClearDestStep, Zenon DEF BootSteps
<1>3. CASE DriverSteps
  BY <1>3, RouteStep, RouteMaskStep, RouteDestStep, RouteVectorStep, MaskStep, Zenon DEF DriverSteps
<1>4. CASE ApicInit \/ timer_init
  BY <1>4, ApicSteps, Zenon
<1>5. CASE UNCHANGED ioapicVars
  BY <1>5, Stutter, Zenon
<1> QED
  BY <1>1, <1>2, <1>3, <1>4, <1>5, MachineSteps, Zenon DEF Next

\* ioapic::init, route_irq, mask_irq and unmask_irq implement IrqTable on every board:
\* between any two of their register accesses a pin sends what it was told before or
\* nothing, and is off before it is given a target.
THEOREM TableImplemented == Spec => TableSpec
<1>1. TableInv /\ [Next]_vars => TableInv' /\ [IrqTableOf!Next]_Live
  BY StepInv, Zenon DEF Kept
<1> QED
  BY InitInv, <1>1, PTL DEF Spec, TableSpec, IrqTableOf!Spec

\* An entry is masked from the first write of route_irq or init to the last.
THEOREM EntryMaskedWhileWritten == Spec => [](Routing /\ Clearing)
<1>1. TableInv /\ [Next]_vars => TableInv'
  BY StepInv, Zenon DEF Kept
<1>2. TableInv => Routing /\ Clearing
  BY Zenon DEF TableInv
<1> QED
  BY InitInv, <1>1, <1>2, PTL DEF Spec

-----------------------------------------------------------------------------
(* Entering and leaving an interrupt.                                      *)

\* Drivers route interrupts to vectors that are not exceptions: the stub of an
\* exception with an error code would take a word of the frame for one.
VectorsFree == Vector \subseteq 32 .. 255

IsCpu(c) ==
  /\ c = [regs |-> c.regs, rip |-> c.rip, if |-> c.if]
  /\ c.regs = [r \in Range(Pushed) |-> c.regs[r]]

\* What the stack of a handler holds of the code it interrupted.
Word(c) ==
  { c.regs[r] : r \in Range(Pushed) } \cup {0, 32, 33, c.rip, "cs", c.if, "rsp", "ss"}
Saved(s, c) ==
  /\ s \in Seq(Word(c)) /\ Len(s) = 22
  /\ \A i \in 1 .. 15 : s[i] = c.regs[Popped[i]]
  /\ s[18] = c.rip /\ s[20] = c.if

FrameInv ==
  /\ IsCpu(was)
  /\ pc = "run" => cpu = was /\ stack = << >>
  /\ pc \in {"irq", "return"} => Saved(stack, was)
  /\ boot.pc \notin {"up", "panic", "fault"} => pc = "run"

\* What \o puts where.
LEMMA Joined ==
  ASSUME NEW S, NEW s \in Seq(S), NEW t \in Seq(S), NEW u, u = s \o t
  PROVE  /\ u \in Seq(S) /\ Len(u) = Len(s) + Len(t)
         /\ \A i \in 1 .. Len(s) : u[i] = s[i]
         /\ \A i \in 1 .. Len(t) : u[Len(s) + i] = t[i]
  OBVIOUS

\* A function on 1 .. n is a sequence.
LEMMA FunctionIsSeq ==
  ASSUME NEW S, NEW n \in Nat, NEW f \in [1 .. n -> S]
  PROVE  f \in Seq(S) /\ Len(f) = n
  OBVIOUS

\* What SubSeq leaves of the end of a sequence.
LEMMA Rest ==
  ASSUME NEW S, NEW s \in Seq(S), NEW m \in 1 .. Len(s) + 1
  PROVE  /\ SubSeq(s, m, Len(s)) \in Seq(S)
         /\ Len(SubSeq(s, m, Len(s))) = Len(s) - m + 1
         /\ \A i \in 1 .. Len(s) - m + 1 : SubSeq(s, m, Len(s))[i] = s[m + i - 1]
  OBVIOUS

\* Only the timer and the keyboard have a gate above the exceptions.
LEMMA Gates ==
  ASSUME NEW v \in 32 .. 255, init_bsp[v] # "none"
  PROVE  init_bsp[v] = "irq" /\ v \in {32, 33}
<1> DEFINE own == [w \in 0 .. 255 |->
                     IF w \in {0, 6, 8, 9, 13, 14} THEN "own"
                     ELSE [u \in 0 .. 255 |-> IF u <= 32 THEN "generic"
                                              ELSE [x \in 0 .. 255 |-> "none"][u]][w]]
<1>1. ~(32 < 32) /\ ~(33 < 32) /\ APIC_TIMER_VECTOR = 32 /\ PS2_KEYBOARD_VECTOR = 33
  BY DEF APIC_TIMER_VECTOR, PS2_KEYBOARD_VECTOR
<1>2. init_bsp = [[own EXCEPT ![32] = "irq"] EXCEPT ![33] = "irq"]
  BY <1>1, Zenon DEF init_bsp, set_irqHandler, idtSetGate
<1>3. DOMAIN own = 0 .. 255
  BY Zenon
<1>4. v \notin {32, 33} => own[v] = "none"
  <2> SUFFICES ASSUME v \notin {32, 33} PROVE own[v] = "none"
    BY Zenon
  <2>1. v \in 0 .. 255 /\ ~(v <= 32) /\ v \notin {0, 6, 8, 9, 13, 14}
    OBVIOUS
  <2> QED
    BY <2>1, Zenon
<1> HIDE DEF own
<1> QED
  BY <1>2, <1>3, <1>4

\* The registers are popped in the opposite of the order they are pushed in.
LEMMA PopsReversed ==
  /\ Len(Pushed) = 15 /\ DOMAIN Pushed = 1 .. 15 /\ DOMAIN Popped = 1 .. 15
  /\ \A i \in 1 .. 15 : Popped[i] = Pushed[16 - i]
  BY DEF Pushed, Popped

\* No register is popped twice.
LEMMA PoppedOnce == \A i, j \in 1 .. 15 : Popped[i] = Popped[j] => i = j
  BY DEF Popped

\* The registers popped are the registers pushed.
LEMMA SameRegisters == Range(Popped) = Range(Pushed)
<1>1. \A i \in 1 .. 15 : 16 - i \in 1 .. 15 /\ 16 - (16 - i) = i
  OBVIOUS
<1>2. \A i \in 1 .. 15 : Popped[i] = Pushed[16 - i] /\ Pushed[i] = Popped[16 - i]
  BY <1>1, PopsReversed
<1>3. /\ \A x \in Range(Popped) : \E i \in 1 .. 15 : x = Popped[i]
      /\ \A x \in Range(Pushed) : \E i \in 1 .. 15 : x = Pushed[i]
      /\ \A i \in 1 .. 15 : Popped[i] \in Range(Popped) /\ Pushed[i] \in Range(Pushed)
  BY PopsReversed, Zenon DEF Range
<1>4. ASSUME NEW x \in Range(Popped) PROVE x \in Range(Pushed)
  <2>1. PICK i \in 1 .. 15 : x = Popped[i]
    BY <1>3, Zenon
  <2>2. 16 - i \in 1 .. 15 /\ x = Pushed[16 - i]
    BY <1>1, <1>2, <2>1, Zenon
  <2> QED
    BY <1>3, <2>2, Zenon
<1>5. ASSUME NEW x \in Range(Pushed) PROVE x \in Range(Popped)
  <2>1. PICK i \in 1 .. 15 : x = Pushed[i]
    BY <1>3, Zenon
  <2>2. 16 - i \in 1 .. 15 /\ x = Popped[16 - i]
    BY <1>1, <1>2, <2>1, Zenon
  <2> QED
    BY <1>3, <2>2, Zenon
<1> QED
  BY <1>4, <1>5, Zenon

\* The stub and the entry code save the interrupted code.
LEMMA PushSaves ==
  ASSUME NEW v \in {32, 33}, init_bsp[v] = "irq", IsCpu(cpu), stack = << >>
  PROVE  Saved(PushAll(Stub(v, CpuFrame)) \o stack, cpu)
<1> DEFINE W == Word(cpu)
           regs == [i \in DOMAIN Pushed |-> cpu.regs[Pushed[FromTop(i)]]]
           two == << v, 0 >>
           five == CpuFrame
<1>1. Stub(v, CpuFrame) = two \o five
  BY SMTT(30) DEF Stub, irq_stub
<1>2. DOMAIN regs = 1 .. 15 /\ \A i \in 1 .. 15 : regs[i] = cpu.regs[Popped[i]]
  <2>1. \A i \in 1 .. 15 : Pushed[FromTop(i)] = Popped[i]
    BY PopsReversed DEF FromTop
  <2> QED
    BY <2>1, PopsReversed, Zenon
<1>3. regs \in Seq(W) /\ Len(regs) = 15
  <2>1. \A i \in 1 .. 15 : cpu.regs[Popped[i]] \in W
    <3>1. \A i \in 1 .. 15 : Popped[i] \in Range(Pushed)
      BY SameRegisters, PopsReversed, Zenon DEF Range
    <3> QED
      BY <3>1, Zenon DEF Word
  <2>2. regs \in [1 .. 15 -> W]
    BY <1>2, <2>1, PopsReversed, Zenon
  <2> HIDE DEF regs, W
  <2>3. 15 \in Nat
    OBVIOUS
  <2> QED
    <3>1. \A f \in [1 .. 15 -> W] : f \in Seq(W) /\ Len(f) = 15
      BY <2>3, FunctionIsSeq, ZenonT(60)
    <3> QED
      BY <2>2, <3>1, Zenon
<1>4. two \in Seq(W) /\ Len(two) = 2
  <2>1. v \in W /\ 0 \in W
    BY Zenon DEF Word
  <2> HIDE DEF W
  <2> QED
    BY <2>1
<1>5. five \in Seq(W) /\ Len(five) = 5 /\ five[1] = cpu.rip /\ five[3] = cpu.if
  <2>1. cpu.rip \in W /\ "cs" \in W /\ cpu.if \in W /\ "rsp" \in W /\ "ss" \in W
    BY Zenon DEF Word
  <2> HIDE DEF W
  <2> QED
    BY <2>1 DEF CpuFrame
<1> DEFINE seven == two \o five
           all == regs \o seven
<1> HIDE DEF W, regs, two, five
<1>6. seven \in Seq(W) /\ Len(seven) = 7 /\ seven[3] = cpu.rip /\ seven[5] = cpu.if
  <2>1. /\ seven \in Seq(W) /\ Len(seven) = Len(two) + Len(five)
        /\ \A i \in 1 .. Len(five) : seven[Len(two) + i] = five[i]
    <3>1. two \in Seq(W) /\ five \in Seq(W) /\ seven = two \o five
      BY <1>4, <1>5, Zenon
    <3> HIDE DEF seven
    <3> QED
      BY <3>1, Joined
  <2> HIDE DEF seven
  <2>2. seven[2 + 1] = five[1] /\ seven[2 + 3] = five[3]
    BY <1>4, <1>5, <2>1
  <2> QED
    BY <1>4, <1>5, <2>1, <2>2
<1> HIDE DEF seven
<1>7. /\ all \in Seq(W) /\ Len(all) = Len(regs) + Len(seven)
      /\ \A i \in 1 .. Len(regs) : all[i] = regs[i]
      /\ \A i \in 1 .. Len(seven) : all[Len(regs) + i] = seven[i]
  <2>1. regs \in Seq(W) /\ seven \in Seq(W) /\ all = regs \o seven
    BY <1>3, <1>6, Zenon
  <2> HIDE DEF all
  <2> QED
    BY <2>1, Joined, SMTT(30)
<1> HIDE DEF all
<1>8. Len(all) = 22 /\ all[18] = seven[3] /\ all[20] = seven[5]
  BY <1>3, <1>6, <1>7, SMTT(30)
<1>9. \A i \in 1 .. 15 : all[i] = cpu.regs[Popped[i]]
  BY <1>2, <1>3, <1>7, Zenon
<1>10. Saved(all, cpu)
  BY <1>6, <1>7, <1>8, <1>9, Zenon DEF Saved, W
<1>11. PushAll(Stub(v, CpuFrame)) \o stack = all
  <2>1. PushAll(Stub(v, CpuFrame)) = all
    BY <1>1, Zenon DEF PushAll, all, seven, regs
  <2>2. all \o << >> = all
    BY <1>7
  <2> QED
    BY <2>1, <2>2
<1> QED
  BY <1>10, <1>11, Zenon

\* The registers come off in the opposite order, and iretq takes the rest.
LEMMA PopRestores ==
  ASSUME pc = "return", irq_entry, IsCpu(was), Saved(stack, was)
  PROVE  cpu' = was /\ stack' = << >>
<1> DEFINE rest == Above(stack, 2)
           W == Word(was)
<1>1. stack \in Seq(W) /\ Len(stack) = 22
  BY Zenon DEF Saved
<1>2. rest = SubSeq(stack, 18, Len(stack))
  BY PopsReversed DEF Above
<1> HIDE DEF W, rest
<1>3. /\ rest \in Seq(W) /\ Len(rest) = Len(stack) - 18 + 1
      /\ \A i \in 1 .. Len(stack) - 18 + 1 : rest[i] = stack[18 + i - 1]
  <2>1. 18 \in 1 .. Len(stack) + 1
    BY <1>1
  <2> QED
    BY <1>1, <1>2, <2>1, Rest, Zenon
<1>4. rest[1] = was.rip /\ rest[3] = was.if
  <2>1. rest[1] = stack[18] /\ rest[3] = stack[20]
    BY <1>1, <1>3
  <2> QED
    BY <2>1, Zenon DEF Saved
<1>5. SubSeq(rest, Len(CpuFrame) + 1, Len(rest)) = << >>
  <2>1. Len(CpuFrame) + 1 = 6
    BY DEF CpuFrame
  <2>2. SubSeq(rest, 6, Len(rest)) \in Seq(W) /\ Len(SubSeq(rest, 6, Len(rest))) = 0
    BY <1>1, <1>3, Rest
  <2> QED
    BY <2>1, <2>2
<1>6. PopAll(stack) = [r \in Range(Pushed) |-> was.regs[r]]
  <2> DEFINE at(r) == CHOOSE i \in DOMAIN Popped : Popped[i] = r
  <2>1. ASSUME NEW r \in Range(Popped) PROVE stack[at(r)] = was.regs[r]
    <3>1. PICK j \in 1 .. 15 : Popped[j] = r
      <4>1. \E j \in DOMAIN Popped : r = Popped[j]
        BY Zenon DEF Range
      <4> QED
        BY <4>1, PopsReversed, Zenon
    <3>2. at(r) = j
      <4>1. j \in DOMAIN Popped /\ \A i \in DOMAIN Popped : Popped[i] = r => i = j
        BY <3>1, PopsReversed, PoppedOnce, Zenon
      <4> QED
        BY <3>1, <4>1, Zenon
    <3> QED
      BY <3>1, <3>2, Zenon DEF Saved
  <2>2. PopAll(stack) = [r \in Range(Popped) |-> stack[at(r)]]
    BY Zenon DEF PopAll
  <2> HIDE DEF at
  <2>3. [r \in Range(Popped) |-> stack[at(r)]] = [r \in Range(Popped) |-> was.regs[r]]
    BY <2>1, Zenon
  <2> QED
    BY <2>2, <2>3, SameRegisters, Zenon
<1>7. cpu' = [regs |-> [r \in Range(Pushed) |-> was.regs[r]], rip |-> was.rip, if |-> was.if]
      /\ stack' = << >>
  BY <1>4, <1>5, <1>6, ZenonT(60) DEF irq_entry, rest
<1> QED
  BY <1>7, Zenon DEF IsCpu

\* The processor starts as the code it runs.
LEMMA InitFrame == Init => FrameInv
<1> SUFFICES ASSUME Init PROVE FrameInv
  BY Zenon
<1>1. /\ pc = "run" /\ was = cpu /\ stack = << >>
      /\ cpu = [regs |-> Program, rip |-> "program", if |-> FALSE]
  BY Zenon DEF Init
<1>2. IsCpu(cpu)
  BY <1>1, Zenon DEF IsCpu, Program
<1> QED
  BY <1>1, <1>2, Zenon DEF FrameInv

\* An exception does not return.
LEMMA ExceptionPanics ==
  ASSUME NEW vector, NEW err, NEW code, Exception(vector, err, code) PROVE Panicked'
  BY Zenon DEF Exception, exceptionHandler, kernel_panic, Panicked

\* The interrupt of a vector without a gate does not return; the others are saved.
LEMMA TakeFrame ==
  ASSUME FrameInv, pc = "run", NEW v \in 32 .. 255, Take(v), boot' = boot, boot.pc = "up"
  PROVE  FrameInv'
<1>1. IsCpu(cpu) /\ stack = << >> /\ cpu = was
  BY Zenon DEF FrameInv
<1>2. CASE init_bsp[v] = "none"
  <2>1. Panicked' /\ was' = was
    BY <1>2, ExceptionPanics, Zenon DEF Take
  <2> QED
    BY <2>1, Zenon DEF FrameInv, Panicked
<1>3. CASE init_bsp[v] # "none"
  <2>1. /\ stack' = PushAll(Stub(v, CpuFrame)) \o stack
        /\ was' = cpu /\ pc' = "irq"
    BY <1>3, Zenon DEF Take
  <2>2. Saved(PushAll(Stub(v, CpuFrame)) \o stack, cpu)
    BY <1>1, <1>3, Gates, PushSaves, ZenonT(60)
  <2>3. Saved(stack', was')
    BY <2>1, <2>2, Zenon
  <2>4. IsCpu(was')
    BY <1>1, <2>1, Zenon
  <2> QED
    BY <2>1, <2>3, <2>4, Zenon DEF FrameInv
<1> QED
  BY <1>2, <1>3, Zenon

\* A step that leaves the processor and the place of the boot code alone, or moves the
\* boot code while nothing is interrupted.
LEMMA FrameStays ==
  ASSUME FrameInv, UNCHANGED << pc, cpu, stack, was >>, boot' = boot \/ pc = "run"
  PROVE  FrameInv'
  BY Zenon DEF FrameInv

\* Turning interrupts on or off is the interrupted code's doing.
LEMMA FlagSet ==
  ASSUME FrameInv, pc = "run", NEW b, cpu' = [cpu EXCEPT !.if = b], was' = cpu',
         UNCHANGED << pc, stack >>
  PROVE  FrameInv'
<1>1. IsCpu(cpu) /\ stack = << >>
  BY Zenon DEF FrameInv
<1>2. cpu' = [regs |-> cpu.regs, rip |-> cpu.rip, if |-> b]
  BY <1>1, Zenon DEF IsCpu
<1>3. IsCpu(cpu')
  BY <1>1, <1>2, Zenon DEF IsCpu
<1> QED
  BY <1>1, <1>3, Zenon DEF FrameInv

\* The handler leaves the stack of the code it interrupted alone.
LEMMA HandlerFrame == FrameInv /\ irqHandler => FrameInv'
  BY Zenon DEF FrameInv, irqHandler, ioapicVars

\* irq_entry gives the interrupted code back.
LEMMA ReturnFrame == FrameInv /\ irq_entry => FrameInv'
<1> SUFFICES ASSUME FrameInv, irq_entry PROVE FrameInv'
  BY Zenon
<1>1. pc = "return" /\ pc' = "run" /\ was' = was
  BY Zenon DEF irq_entry
<1>2. IsCpu(was) /\ Saved(stack, was)
  BY <1>1, Zenon DEF FrameInv
<1>3. cpu' = was /\ stack' = << >>
  BY <1>1, <1>2, PopRestores, Zenon
<1> QED
  BY <1>1, <1>2, <1>3, Zenon DEF FrameInv

\* A processor that panics has nothing to give back.
LEMMA PanicLeaves ==
  ASSUME FrameInv, Panicked', was' = was, boot' = boot, boot.pc \in {"up", "panic", "fault"}
  PROVE  FrameInv'
  BY Zenon DEF FrameInv, Panicked

\* While the panic prints its trace, nothing is given back.
LEMMA UnwindLeaves ==
  ASSUME FrameInv, UnwindFrame \/ UnwindEnd \/ UnwindFault PROVE FrameInv'
<1>1. pc = "trace" /\ was' = was /\ boot' = boot
  BY Zenon DEF UnwindFrame, UnwindEnd, UnwindFault, ioapicVars
<1>2. boot.pc \in {"up", "panic", "fault"}
  BY <1>1, Zenon DEF FrameInv
<1>3. Panicked'
  BY ExceptionPanics, <1>1, Zenon DEF UnwindFrame, UnwindEnd, UnwindFault, Panicked
<1> QED
  BY <1>1, <1>2, <1>3, PanicLeaves, Zenon

\* Every step keeps the frame.
LEMMA StepFrame ==
  ASSUME VectorsFree, FrameInv, [Next]_vars
  PROVE  FrameInv'
<1>1. CASE UNCHANGED vars
  BY <1>1, FrameStays, Zenon DEF vars, cpuVars, ioapicVars
<1>2. CASE pc = "run" /\ (BootSteps \/ DriverSteps) /\ UNCHANGED << lapicVars, cpuVars >>
  BY <1>2, FrameStays, Zenon DEF cpuVars
<1>3. CASE ApicInit
  BY <1>3, FrameStays, Zenon DEF ApicInit, cpuVars
<1>4. CASE timer_init
  <2>1. boot.pc = "masked"
    BY <1>4, Zenon DEF timer_init, BootAt
  <2>2. pc = "run"
    BY <2>1, Zenon DEF FrameInv
  <2> QED
    BY <1>4, <2>2, FlagSet, Zenon DEF timer_init
<1>5. CASE BootPanic
  BY <1>5, PanicLeaves, Zenon DEF BootPanic, kernel_panic, BootAt, ioapicVars, Panicked
<1>6. CASE NullMadt
  BY <1>6, PanicLeaves, ExceptionPanics, Zenon DEF NullMadt, BootAt, ioapicVars
<1>7. CASE TimerFires \/ Polls \/ \E irq \in IsaIrq : DeviceRaises(irq)
  BY <1>7, FrameStays, Zenon DEF TimerFires, Polls, DeviceRaises, ioapicVars, cpuVars
<1>8. CASE Spurious
  <2>1. 255 \in 32 .. 255
    OBVIOUS
  <2> QED
    BY <1>8, <2>1, TakeFrame, Zenon DEF Spurious, SPURIOUS_VECTOR, Running, ioapicVars
<1>9. CASE irqHandler
  BY <1>9, HandlerFrame, Zenon
<1>10. CASE irq_entry
  BY <1>10, ReturnFrame, Zenon
<1>11. CASE Masks
  BY <1>11, FlagSet, Zenon DEF Masks
<1>12. CASE \E vector \in Vector \cup {APIC_TIMER_VECTOR} : Interrupt(vector)
  <2>1. PICK vector \in Vector \cup {APIC_TIMER_VECTOR} : Interrupt(vector)
    BY <1>12, Zenon
  <2>2. vector \in 32 .. 255
    BY DEF VectorsFree, APIC_TIMER_VECTOR
  <2> QED
    BY <2>1, <2>2, TakeFrame, Zenon DEF Interrupt, Running, ioapicVars
<1>13. CASE \E vector \in Faults : Fault(vector)
  BY <1>13, PanicLeaves, ExceptionPanics, Zenon DEF Fault, Running, ioapicVars
<1>14. CASE UnwindFrame \/ UnwindEnd \/ UnwindFault
  BY <1>14, UnwindLeaves, Zenon
<1> QED
  BY <1>1, <1>2, <1>3, <1>4, <1>5, <1>6, <1>7, <1>8, <1>9, <1>10, <1>11, <1>12, <1>13, <1>14, Zenon DEF Next

\* Whatever interrupts come and whatever their handlers do to the registers, the stubs,
\* irq_entry and iretq give the interrupted code its registers, its place and its flag
\* back and leave nothing on the stack, if drivers route nothing to an exception.
THEOREM InterruptsAreTransparent == VectorsFree => (Spec => []FrameRestored)
<1> SUFFICES ASSUME VectorsFree PROVE Spec => []FrameRestored
  BY Zenon
<1>1. FrameInv /\ [Next]_vars => FrameInv'
  BY StepFrame, Zenon
<1>2. FrameInv => FrameRestored
  BY Zenon DEF FrameInv, FrameRestored
<1> QED
  BY InitFrame, <1>1, <1>2, PTL DEF Spec

-----------------------------------------------------------------------------
(* The pins do what drivers ask.  What is known at each point of the boot: *)
(* the entries read so far, the chips added, the entries cleared.          *)

Entries == find_madt.entries
Kind(k, type) == { i \in 1 .. k - 1 : Entries[i].type = type }
Overrides(k, irq) == { i \in Kind(k, "iso") : Entries[i].irq = irq }
Remembered(irq) == { j \in DOMAIN info.isos : info.isos[j].irq = irq }
Lowest(S, i) == i \in S /\ \A j \in S : i <= j
SameFirst(a, b, S, T) ==
  /\ S = {} <=> T = {}
  /\ \A i \in S, j \in T : Lowest(S, i) /\ Lowest(T, j) => a[i].gsi = b[j].gsi

\* info holds what the entries before k say.
Chipped(k) ==
  /\ info.ioapics \in Seq(IoEntries(Entries))
  /\ Len(info.ioapics) <= Cardinality(Kind(k, "ioapic"))
  /\ \A i \in Kind(k, "ioapic") : \E j \in DOMAIN info.ioapics : info.ioapics[j] = Entries[i]
Overridden(k) ==
  /\ info.isos \in Seq(Range(Entries))
  /\ Len(info.isos) <= Cardinality(Kind(k, "iso"))
  /\ \A irq \in IsaIrq :
       SameFirst(Entries, info.isos, Overrides(k, irq), Remembered(irq))
Read(k) ==
  /\ info = [ioapics |-> info.ioapics, isos |-> info.isos]
  /\ Chipped(k) /\ Overridden(k)

\* The chips added are the first of those.
Instance(e) == [chip |-> e.chip, gsi_base |-> e.gsi_base, max_rte |-> Chips[e.chip]]
Added ==
  /\ g_ioapics \in Seq({ Instance(e) : e \in IoEntries(Entries) })
  /\ Len(g_ioapics) <= Len(info.ioapics)
  /\ \A j \in 1 .. Len(g_ioapics) : g_ioapics[j] = Instance(info.ioapics[j])

ClearPin(p) == p \in Pin => low[p] = [vector |-> 0, masked |-> TRUE]
ClearPins(j, n) == \A i \in 0 .. n - 1 : ClearPin(<< g_ioapics[j].chip, i >>)
ClearChips(n) == \A j \in 1 .. n : ClearPins(j, g_ioapics[j].max_rte)

NothingAsked == asked = [p \in Pin |-> [on |-> FALSE, to |-> Off]]
Empty == info = [ioapics |-> << >>, isos |-> << >>]

\* How far the boot code has come.
BootInv ==
  /\ tables \in Tables
  /\ boot.pc \notin {"up", "panic", "fault"} => NothingAsked
  /\ boot.pc \in {"apic", "find"} => Empty /\ g_ioapics = << >>
  /\ boot.pc \in {"walk", "chips", "rte_low", "rte_high", "masked", "up"} => Madts # {}
  /\ boot.pc = "walk" => /\ boot.i \in 1 .. Len(Entries) + 1 /\ Read(boot.i)
                         /\ g_ioapics = << >>
  /\ boot.pc \in {"chips", "rte_low", "rte_high", "masked", "up"} => Read(Len(Entries) + 1) /\ Added
  /\ boot.pc = "chips" => boot.i = Len(g_ioapics) + 1 /\ ClearChips(Len(g_ioapics))
  /\ boot.pc \in {"rte_low", "rte_high"} =>
       /\ Len(g_ioapics) > 0 /\ ClearChips(Len(g_ioapics) - 1)
       /\ boot.i \in 0 .. ThisChip.max_rte
       /\ ClearPins(Len(g_ioapics), boot.i + (IF boot.pc = "rte_low" THEN 0 ELSE 1))
       /\ boot.pc = "rte_high" => boot.i < ThisChip.max_rte
  /\ boot.pc \in {"masked", "up"} => Len(g_ioapics) = Len(info.ioapics)
  /\ boot.pc = "masked" => ClearChips(Len(g_ioapics))

\* The pin sends what was asked of it, and would again if it were unmasked.
Listed(p) == \E e \in IoEntries(Entries) : e.chip = p[1]
Obeys(p) ==
  /\ low[p].masked = ~asked[p].on
  /\ asked[p].on \/ low[p].vector # 0 => asked[p].to = Sends(p)

\* Every pin but the one a driver is at obeys.
DriverInv ==
  boot.pc = "up" =>
    /\ asked \in [Pin -> [on : BOOLEAN, to : Target \cup {Off}]]
    /\ driver.pc \in {"idle", "mask", "dest", "vector"}
    /\ driver.pc # "idle" => driver.irq \in IsaIrq /\ Found(driver.irq)
    /\ driver.pc = "vector" => high[PinFor(driver.irq)] = driver.dest
    /\ \A p \in Pin : Listed(p) => Obeys(p) \/ (driver.pc # "idle" /\ p = PinFor(driver.irq))

RouteInv == BootInv /\ DriverInv

\* A set of numbers has a least one.
LEMMA Least ==
  ASSUME NEW T \in SUBSET Nat, T # {}
  PROVE  \E x \in T : \A y \in T : x <= y
<1>1. PICK x \in T : \A y \in T : ~(<< y, x >> \in OpToRel(<, Nat))
  BY NatLessThanWellFounded, WFMin, Zenon
<1>2. \A a, b \in Nat : a < b => << a, b >> \in OpToRel(<, Nat)
  BY Zenon DEF OpToRel
<1>3. \A y \in T : ~(y < x)
  BY <1>1, <1>2, Zenon
<1>4. \A y \in T : x <= y
  BY <1>3
<1> QED
  BY <1>4, Zenon

\* The table found is one of the firmware's MADTs, and describes the board.
LEMMA MadtFound ==
  ASSUME tables \in Tables, Madts # {}
  PROVE  /\ Entries \in FirmwareMadts
         /\ Entries \in Seq(Range(Entries))
         /\ \A e \in Range(Entries) : e.type = "iso" => e.gsi \in Nat
         /\ \A e \in IoEntries(Entries) : /\ e.chip \in DOMAIN Chips /\ e.gsi_base \in Nat
                                          /\ Chips[e.chip] \in Nat
         /\ \A e, f \in IoEntries(Entries) : e # f => Gsis(e) \cap Gsis(f) = {}
<1>1. Madts \in SUBSET Nat
  BY BoardAssumption, Zenon DEF Madts, MadtsOf
<1>2. PICK t \in Madts : t = (CHOOSE u \in Madts : \A s \in Madts : u <= s)
  <2>1. \E u \in Madts : \A s \in Madts : u <= s
    BY <1>1, Least, Zenon
  <2> QED
    BY <2>1, Zenon
<1>3. Entries = tables[t].entries
  BY <1>2, Zenon DEF Entries, find_madt
<1>4. Entries \in FirmwareMadts
  <2>1. Entries \in { tables[u].entries : u \in MadtsOf(tables) }
    BY <1>3, Zenon DEF Madts
  <2>2. { tables[u].entries : u \in MadtsOf(tables) } \in
          { { ts[u].entries : u \in MadtsOf(ts) } : ts \in Tables }
    BY Zenon
  <2> QED
    BY <2>1, <2>2, Zenon DEF FirmwareMadts
<1> QED
  BY <1>4, BoardAssumption, Zenon DEF IoEntries

\* One more entry.
LEMMA OneMore ==
  ASSUME NEW k \in Nat \ {0}, NEW type
  PROVE  /\ Kind(k + 1, type) = IF Entries[k].type = type THEN Kind(k, type) \cup {k} ELSE Kind(k, type)
         /\ k \notin Kind(k, type)
         /\ IsFiniteSet(Kind(k, type)) /\ Cardinality(Kind(k, type)) \in Nat
         /\ Entries[k].type = type => Cardinality(Kind(k + 1, type)) = Cardinality(Kind(k, type)) + 1
<1>1. Kind(k + 1, type) = IF Entries[k].type = type THEN Kind(k, type) \cup {k} ELSE Kind(k, type)
  BY DEF Kind
<1>2. k \notin Kind(k, type)
  BY DEF Kind
<1>3. IsFiniteSet(Kind(k, type))
  <2>1. IsFiniteSet(1 .. k - 1) /\ Kind(k, type) \subseteq 1 .. k - 1
    BY FS_Interval DEF Kind
  <2> QED
    BY <2>1, FS_Subset, Zenon
<1> QED
  BY <1>1, <1>2, <1>3, FS_AddElement, FS_CardinalityType, Zenon

\* An entry read while ApicInfo holds the earlier ones finds room.
LEMMA RoomLeft ==
  ASSUME MadtFits, tables \in Tables, Madts # {}, NEW k \in 1 .. Len(Entries)
  PROVE  /\ Entries[k].type = "ioapic" => Cardinality(Kind(k, "ioapic")) < MAX_IOAPICS
         /\ Entries[k].type = "iso" => Cardinality(Kind(k, "iso")) < MAX_ISOS
<1>1. Entries \in FirmwareMadts /\ Len(Entries) \in Nat /\ DOMAIN Entries = 1 .. Len(Entries)
      /\ k \in Nat \ {0} /\ k + 1 \in Nat \ {0} /\ Len(Entries) + 1 \in Nat \ {0}
  BY MadtFound
<1>2. ASSUME NEW type, NEW max \in Nat, Entries[k].type = type,
             Cardinality({ i \in DOMAIN Entries : Entries[i].type = type }) <= max
      PROVE  Cardinality(Kind(k, type)) < max
  <2>1. { i \in DOMAIN Entries : Entries[i].type = type } = Kind(Len(Entries) + 1, type)
    BY <1>1 DEF Kind
  <2>2. Kind(k + 1, type) \subseteq Kind(Len(Entries) + 1, type)
    BY <1>1 DEF Kind
  <2>3. /\ IsFiniteSet(Kind(Len(Entries) + 1, type))
        /\ Cardinality(Kind(Len(Entries) + 1, type)) \in Nat
    BY <1>1, OneMore, Zenon
  <2>4. Cardinality(Kind(k + 1, type)) <= Cardinality(Kind(Len(Entries) + 1, type))
    BY <2>2, <2>3, FS_Subset, Zenon
  <2>5. Cardinality(Kind(k + 1, type)) = Cardinality(Kind(k, type)) + 1 /\ Cardinality(Kind(k, type)) \in Nat
    BY <1>1, <1>2, OneMore, Zenon
  <2>6. Cardinality(Kind(Len(Entries) + 1, type)) <= max
    BY <1>2, <2>1, Zenon
  <2> QED
    BY <1>2, <2>3, <2>4, <2>5, <2>6
<1>3. /\ MAX_IOAPICS \in Nat /\ MAX_ISOS \in Nat
      /\ Cardinality({ i \in DOMAIN Entries : Entries[i].type = "ioapic" }) <= MAX_IOAPICS
      /\ Cardinality({ i \in DOMAIN Entries : Entries[i].type = "iso" }) <= MAX_ISOS
  BY <1>1, Zenon DEF MadtFits
<1> QED
  BY <1>2, <1>3, Zenon

\* What is said of the table is said of it later.
LEMMA SameTable ==
  ASSUME tables' = tables
  PROVE  /\ Entries' = Entries /\ Madts' = Madts
         /\ \A k, type : Kind(k, type)' = Kind(k, type)
         /\ \A k, irq : Overrides(k, irq)' = Overrides(k, irq)
         /\ \A p : Listed(p)' = Listed(p)
         /\ \A irq : WiredTo(irq)' = WiredTo(irq)
<1>1. Entries' = Entries /\ Madts' = Madts /\ find_madt' = find_madt
  BY Zenon DEF Entries, Madts, find_madt
<1>2. ASSUME NEW k, NEW type PROVE Kind(k, type)' = Kind(k, type)
  BY <1>1 DEF Kind
<1>3. ASSUME NEW k, NEW irq PROVE Overrides(k, irq)' = Overrides(k, irq)
  BY <1>1, <1>2 DEF Overrides
<1>4. ASSUME NEW p PROVE Listed(p)' = Listed(p)
  BY <1>1, Zenon DEF Listed
<1>5. ASSUME NEW irq PROVE WiredTo(irq)' = WiredTo(irq)
  BY <1>1, ZenonT(60) DEF WiredTo
<1> QED
  BY <1>1, <1>2, <1>3, <1>4, <1>5, Zenon

\* The list of chips grows by the entry if it is one.
LEMMA ReadChip ==
  ASSUME tables \in Tables, Madts # {}, tables' = tables, NEW k \in 1 .. Len(Entries), Chipped(k),
         info'.ioapics = IF Entries[k].type = "ioapic" THEN Append(info.ioapics, Entries[k])
                         ELSE info.ioapics
  PROVE  Chipped(k + 1)'
<1>1. /\ Entries' = Entries /\ Kind(k + 1, "ioapic")' = Kind(k + 1, "ioapic")
      /\ k \in Nat \ {0} /\ Entries[k] \in Range(Entries)
  <2>1. Entries \in Seq(Range(Entries)) /\ k \in Nat \ {0}
    BY MadtFound
  <2>2. k \in DOMAIN Entries
    BY <2>1
  <2> QED
    BY <2>1, <2>2, SameTable, Zenon DEF Range
<1>2. /\ Kind(k + 1, "ioapic") = IF Entries[k].type = "ioapic" THEN Kind(k, "ioapic") \cup {k}
                                 ELSE Kind(k, "ioapic")
      /\ Cardinality(Kind(k, "ioapic")) \in Nat
      /\ Entries[k].type = "ioapic" =>
           Cardinality(Kind(k + 1, "ioapic")) = Cardinality(Kind(k, "ioapic")) + 1
  BY <1>1, OneMore, Zenon
<1>3. CASE Entries[k].type # "ioapic"
  BY <1>1, <1>2, <1>3, Zenon DEF Chipped
<1>4. CASE Entries[k].type = "ioapic"
  <2> DEFINE e == Entries[k]
             s == info.ioapics
             t == Append(s, e)
  <2>1. s \in Seq(IoEntries(Entries)) /\ e \in IoEntries(Entries)
    BY <1>1, <1>4, Zenon DEF Chipped, IoEntries
  <2> HIDE DEF s, e
  <2>2. /\ t \in Seq(IoEntries(Entries)) /\ Len(t) = Len(s) + 1 /\ t[Len(s) + 1] = e
        /\ \A j \in DOMAIN s : j \in DOMAIN t /\ t[j] = s[j]
        /\ Len(s) + 1 \in DOMAIN t /\ Len(s) \in Nat
    BY <2>1
  <2> HIDE DEF t
  <2>3. Len(t) <= Cardinality(Kind(k + 1, "ioapic"))
    <3>1. Len(s) <= Cardinality(Kind(k, "ioapic"))
      BY Zenon DEF Chipped, s
    <3>2. Cardinality(Kind(k + 1, "ioapic")) = Cardinality(Kind(k, "ioapic")) + 1
      BY <1>2, <1>4, Zenon
    <3> QED
      BY <1>2, <2>2, <3>1, <3>2
  <2>4. \A i \in Kind(k + 1, "ioapic") : \E j \in DOMAIN t : t[j] = Entries[i]
    <3>1. \A i \in Kind(k, "ioapic") : \E j \in DOMAIN s : s[j] = Entries[i]
      BY Zenon DEF Chipped, s
    <3> QED
      BY <1>2, <1>4, <2>2, <3>1, Zenon DEF e
  <2>5. info'.ioapics = t
    BY <1>4, Zenon DEF t, s, e
  <2> QED
    BY <1>1, <2>2, <2>3, <2>4, <2>5, Zenon DEF Chipped
<1> QED
  BY <1>3, <1>4, Zenon

\* The list of overrides grows by the entry if it is one, and the first for an
\* interrupt stays the first.
LEMMA ReadOverride ==
  ASSUME tables \in Tables, Madts # {}, tables' = tables, NEW k \in 1 .. Len(Entries), Overridden(k),
         info'.isos = IF Entries[k].type = "iso" THEN Append(info.isos, Entries[k]) ELSE info.isos
  PROVE  Overridden(k + 1)'
<1>1. /\ Entries' = Entries /\ Kind(k + 1, "iso")' = Kind(k + 1, "iso")
      /\ \A irq : Overrides(k + 1, irq)' = Overrides(k + 1, irq)
      /\ k \in Nat \ {0} /\ Entries[k] \in Range(Entries)
  <2>1. Entries \in Seq(Range(Entries)) /\ k \in Nat \ {0}
    BY MadtFound
  <2>2. k \in DOMAIN Entries
    BY <2>1
  <2> QED
    BY <2>1, <2>2, SameTable, Zenon DEF Range
<1>2. /\ Kind(k + 1, "iso") = IF Entries[k].type = "iso" THEN Kind(k, "iso") \cup {k} ELSE Kind(k, "iso")
      /\ Cardinality(Kind(k, "iso")) \in Nat
      /\ Entries[k].type = "iso" => Cardinality(Kind(k + 1, "iso")) = Cardinality(Kind(k, "iso")) + 1
  BY <1>1, OneMore, Zenon
<1>3. CASE Entries[k].type # "iso"
  <2>1. \A irq : Overrides(k + 1, irq) = Overrides(k, irq) /\ Remembered(irq)' = Remembered(irq)
    BY <1>2, <1>3, Zenon DEF Overrides, Remembered
  <2> QED
    BY <1>1, <1>2, <1>3, <2>1, Zenon DEF Overridden
<1>4. CASE Entries[k].type = "iso"
  <2> DEFINE e == Entries[k]
             s == info.isos
             t == Append(s, e)
             n == Len(s) + 1
  <2>1. s \in Seq(Range(Entries)) /\ e \in Range(Entries)
    BY <1>1, Zenon DEF Overridden
  <2> HIDE DEF s, e
  <2>2. /\ t \in Seq(Range(Entries)) /\ Len(t) = Len(s) + 1 /\ t[n] = e
        /\ \A j \in DOMAIN s : t[j] = s[j] /\ j \in Nat /\ j <= n /\ j # n
        /\ DOMAIN t = DOMAIN s \cup {n} /\ Len(s) \in Nat /\ n \in Nat
    BY <2>1
  <2> HIDE DEF t, n
  <2>3. info'.isos = t
    BY <1>4, Zenon DEF t, s, e
  <2>4. Len(t) <= Cardinality(Kind(k + 1, "iso"))
    <3>1. Len(s) <= Cardinality(Kind(k, "iso"))
      BY Zenon DEF Overridden, s
    <3>2. Cardinality(Kind(k + 1, "iso")) = Cardinality(Kind(k, "iso")) + 1
      BY <1>2, <1>4, Zenon
    <3> QED
      BY <1>2, <2>2, <3>1, <3>2
  <2>5. ASSUME NEW irq \in IsaIrq
        PROVE  SameFirst(Entries, t, Overrides(k + 1, irq), Remembered(irq)')
    <3> DEFINE O == Overrides(k, irq)
               R == Remembered(irq)
               P == Overrides(k + 1, irq)
               Q == Remembered(irq)'
    <3>1. SameFirst(Entries, s, O, R)
      BY Zenon DEF Overridden, s
    <3>2. Q = { j \in DOMAIN t : t[j].irq = irq } /\ R = { j \in DOMAIN s : s[j].irq = irq }
      BY <2>3, Zenon DEF Remembered, s
    <3>3. CASE e.irq # irq
      <4>1. P = O
        BY <1>2, <1>4, <3>3, Zenon DEF Overrides, e
      <4>2. Q = R /\ \A j \in R : t[j] = s[j]
        BY <2>2, <3>2, <3>3, Zenon
      <4> HIDE DEF P, Q, O, R
      <4>3. SameFirst(Entries, t, O, R)
        BY <3>1, <4>2 DEF SameFirst
      <4>4. SameFirst(Entries, t, P, Q)
        BY <4>1, <4>2, <4>3
      <4> QED
        BY <4>4, Zenon DEF P, Q
    <3>4. CASE e.irq = irq
      <4>1. P = O \cup {k}
        BY <1>2, <1>4, <3>4, Zenon DEF Overrides, e
      <4>2. Q = R \cup {n} /\ \A j \in R : t[j] = s[j]
        BY <2>2, <3>2, <3>4, Zenon
      <4>3. \A i \in O : i \in Nat /\ i < k
        BY DEF Overrides, Kind
      <4>4. \A j \in R : j \in Nat /\ j < n
        BY <2>2, <3>2
      <4> HIDE DEF P, Q, O, R
      <4>5. ASSUME NEW i \in P, NEW j \in Q, Lowest(P, i), Lowest(Q, j) PROVE Entries[i].gsi = t[j].gsi
        <5>1. CASE O = {}
          BY <2>2, <3>1, <4>1, <4>2, <5>1, Zenon DEF e, SameFirst
        <5>2. CASE O # {}
          <6>1. i \in O /\ j \in R
            <7>1. PICK a \in O : TRUE
              BY <5>2
            <7>2. PICK b \in R : TRUE
              BY <3>1, <5>2 DEF SameFirst
            <7>3. i <= a /\ j <= b
              BY <4>1, <4>2, <4>5, Zenon DEF Lowest
            <7>4. i # k /\ j # n
              BY <1>1, <2>2, <4>3, <4>4, <7>1, <7>2, <7>3, SMTT(30)
            <7> QED
              BY <4>1, <4>2, <7>4, Zenon
          <6>2. Lowest(O, i) /\ Lowest(R, j)
            BY <4>1, <4>2, <4>5, <6>1, Zenon DEF Lowest
          <6> QED
            BY <3>1, <4>2, <6>1, <6>2, Zenon DEF SameFirst
        <5> QED
          BY <5>1, <5>2, Zenon
      <4>6. P = {} <=> Q = {}
        BY <4>1, <4>2, Zenon
      <4> QED
        BY <4>5, <4>6, Zenon DEF P, Q, SameFirst
    <3> QED
      BY <3>3, <3>4, Zenon
  <2> QED
    BY <1>1, <2>2, <2>3, <2>4, <2>5, Zenon DEF Overridden
<1> QED
  BY <1>3, <1>4, Zenon

\* Finding the MADT: nothing is read yet.
LEMMA FindRoutes ==
  ASSUME BootInv, FindMadt
  PROVE  BootInv'
<1>1. /\ boot.pc = "find" /\ tables' = tables /\ info' = info /\ g_ioapics' = g_ioapics /\ asked' = asked
      /\ \E pc1 \in {"fault", "panic", "walk"} :
           boot' = [pc |-> pc1, i |-> 1] /\ (pc1 = "walk" => Madts # {})
  BY Zenon DEF FindMadt, BootAt, BootTo
<1>2. tables \in Tables /\ NothingAsked /\ Empty /\ g_ioapics = << >>
  BY <1>1 DEF BootInv
<1>3. PICK pc1 \in {"fault", "panic", "walk"} :
           boot' = [pc |-> pc1, i |-> 1] /\ (pc1 = "walk" => Madts # {})
  BY <1>1, Zenon
<1>4. CASE pc1 # "walk"
  BY <1>1, <1>2, <1>3, <1>4 DEF BootInv
<1>5. CASE pc1 = "walk"
  <2>1. Madts # {} /\ Entries' = Entries /\ Madts' = Madts /\ Entries \in Seq(Range(Entries))
    BY <1>1, <1>2, <1>3, <1>5, SameTable, MadtFound, Zenon
  <2>2. Kind(1, "ioapic")' = {} /\ Kind(1, "iso")' = {} /\ \A irq : Overrides(1, irq)' = {}
    BY DEF Kind, Overrides
  <2>3. info' = [ioapics |-> << >>, isos |-> << >>]
    BY <1>1, <1>2, Zenon DEF Empty
  <2>4. info'.ioapics = << >> /\ info'.isos = << >>
    BY <2>3, Zenon
  <2>5. \A irq : Remembered(irq)' = {}
    BY <2>4 DEF Remembered
  <2>6. Chipped(1)'
    <3>1. \A S : << >> \in Seq(S) /\ Len(<< >>) = 0
      OBVIOUS
    <3>2. Len(<< >>) <= Cardinality(Kind(1, "ioapic")')
      BY <2>2, <3>1, FS_EmptySet
    <3> QED
      BY <2>2, <2>4, <3>1, <3>2, Zenon DEF Chipped
  <2>7. Overridden(1)'
    <3>1. \A S : << >> \in Seq(S) /\ Len(<< >>) = 0
      OBVIOUS
    <3>2. Len(<< >>) <= Cardinality(Kind(1, "iso")')
      BY <2>2, <3>1, FS_EmptySet
    <3>3. \A a, b : SameFirst(a, b, {}, {})
      BY Zenon DEF SameFirst
    <3> QED
      BY <2>2, <2>4, <2>5, <3>1, <3>2, <3>3, Zenon DEF Overridden
  <2>8. Read(1)'
    BY <2>3, <2>4, <2>6, <2>7, Zenon DEF Read
  <2>9. 1 \in 1 .. Len(Entries') + 1
    BY <2>1
  <2>10. boot'.pc = "walk" /\ boot'.i = 1 /\ g_ioapics' = << >> /\ tables' \in Tables /\ NothingAsked'
    BY <1>1, <1>2, <1>3, <1>5, Zenon DEF NothingAsked
  <2> QED
    BY <2>1, <2>8, <2>9, <2>10 DEF BootInv
<1> QED
  BY <1>4, <1>5, Zenon

\* Reading an entry, or the end of the table.
LEMMA ParseRoutes ==
  ASSUME MadtFits, IsBoot, BootInv, parse
  PROVE  BootInv'
<1>0. PICK k : k = boot.i
  OBVIOUS
<1>1. /\ boot.pc = "walk" /\ tables' = tables /\ g_ioapics' = g_ioapics /\ asked' = asked /\ low' = low
  BY Zenon DEF parse, BootAt, chipVars
<1>2. /\ tables \in Tables /\ NothingAsked /\ Madts # {} /\ g_ioapics = << >>
      /\ k \in 1 .. Len(Entries) + 1 /\ Read(k)
  BY <1>0, <1>1 DEF BootInv
<1>3. Entries \in Seq(Range(Entries)) /\ Entries' = Entries /\ Madts' = Madts /\ NothingAsked'
  BY <1>1, <1>2, MadtFound, SameTable, Zenon DEF NothingAsked
<1>4. CASE k > Len(Entries)
  <2>1. boot' = [pc |-> "chips", i |-> 1] /\ info' = info /\ k = Len(Entries) + 1
    BY <1>0, <1>2, <1>3, <1>4 DEF parse, BootTo, Entries
  <2>2. Read(Len(Entries) + 1)'
    <3>1. Read(k)' = Read(k)
      <4>1. Chipped(k)' = Chipped(k) /\ Overridden(k)' = Overridden(k)
        BY <1>1, <1>3, <2>1, SameTable, Zenon DEF Chipped, Overridden, Remembered
      <4> QED
        BY <2>1, <4>1, Zenon DEF Read
    <3> QED
      BY <1>2, <1>3, <2>1, <3>1, Zenon
  <2>3. g_ioapics' = << >> /\ Len(<< >>) = 0 /\ info'.ioapics = info.ioapics
    BY <1>1, <1>2, <2>1
  <2>4. info.ioapics \in Seq(IoEntries(Entries))
    BY <1>2, Zenon DEF Read, Chipped
  <2>5. Added' /\ ClearChips(0)'
    BY <2>3, <2>4, SMTT(30) DEF Added, ClearChips
  <2> QED
    BY <1>1, <1>2, <1>3, <2>1, <2>2, <2>3, <2>5, SMTT(30) DEF BootInv
<1>5. CASE ~(k > Len(Entries))
  <2>1. k \in 1 .. Len(Entries)
    BY <1>2, <1>3, <1>5
  <2>2. boot' = [boot EXCEPT !.i = @ + 1]
        /\ info' = CASE Entries[k].type = "ioapic" ->
                          [info EXCEPT !.ioapics = Add(@, MAX_IOAPICS, Entries[k])]
                     [] Entries[k].type = "iso" -> [info EXCEPT !.isos = Add(@, MAX_ISOS, Entries[k])]
                     [] OTHER -> info
    BY <1>0, <1>5, Zenon DEF parse, BootOn, Entries
  <2>3. /\ info = [ioapics |-> info.ioapics, isos |-> info.isos] /\ Chipped(k) /\ Overridden(k)
        /\ Len(info.ioapics) <= Cardinality(Kind(k, "ioapic"))
        /\ Len(info.isos) <= Cardinality(Kind(k, "iso"))
        /\ Len(info.ioapics) \in Nat /\ Len(info.isos) \in Nat
        /\ Cardinality(Kind(k, "ioapic")) \in Nat /\ Cardinality(Kind(k, "iso")) \in Nat
    <3>1. /\ info = [ioapics |-> info.ioapics, isos |-> info.isos] /\ Chipped(k) /\ Overridden(k)
          /\ info.ioapics \in Seq(IoEntries(Entries)) /\ info.isos \in Seq(Range(Entries))
          /\ Len(info.ioapics) <= Cardinality(Kind(k, "ioapic"))
          /\ Len(info.isos) <= Cardinality(Kind(k, "iso"))
      BY <1>2, Zenon DEF Read, Chipped, Overridden
    <3>2. Len(info.ioapics) \in Nat /\ Len(info.isos) \in Nat /\ k \in Nat \ {0}
      BY <2>1, <3>1
    <3> QED
      BY <3>1, <3>2, OneMore, Zenon
  <2>4. /\ Entries[k].type = "ioapic" => Len(info.ioapics) < MAX_IOAPICS
        /\ Entries[k].type = "iso" => Len(info.isos) < MAX_ISOS
    <3>1. /\ Entries[k].type = "ioapic" => Cardinality(Kind(k, "ioapic")) < MAX_IOAPICS
          /\ Entries[k].type = "iso" => Cardinality(Kind(k, "iso")) < MAX_ISOS
          /\ MAX_IOAPICS \in Nat /\ MAX_ISOS \in Nat
      BY <1>2, <2>1, RoomLeft, Zenon DEF MadtFits
    <3> QED
      BY <2>3, <3>1
  <2>5. info' = [ioapics |-> IF Entries[k].type = "ioapic" THEN Append(info.ioapics, Entries[k])
                             ELSE info.ioapics,
                 isos |-> IF Entries[k].type = "iso" THEN Append(info.isos, Entries[k]) ELSE info.isos]
    <3> DEFINE a == info.ioapics
               b == info.isos
               e == Entries[k]
    <3>1. info = [ioapics |-> a, isos |-> b]
      BY <2>3, Zenon
    <3> HIDE DEF a, b, e
    <3>2. CASE e.type = "ioapic"
      <4>1. Len(a) < MAX_IOAPICS /\ info' = [info EXCEPT !.ioapics = Add(a, MAX_IOAPICS, e)]
            /\ "ioapic" # "iso"
        BY <2>2, <2>4, <3>2, Zenon DEF a, e
      <4>2. info' = [ioapics |-> Append(a, e), isos |-> b]
        BY <3>1, <4>1, Zenon DEF Add
      <4> QED
        BY <3>2, <4>1, <4>2, Zenon DEF a, b, e
    <3>3. CASE e.type = "iso"
      <4>1. Len(b) < MAX_ISOS /\ info' = [info EXCEPT !.isos = Add(b, MAX_ISOS, e)]
            /\ "ioapic" # "iso"
        BY <2>2, <2>4, <3>3, Zenon DEF b, e
      <4>2. info' = [ioapics |-> a, isos |-> Append(b, e)]
        BY <3>1, <4>1, Zenon DEF Add
      <4> QED
        BY <3>3, <4>1, <4>2, Zenon DEF a, b, e
    <3>4. CASE e.type # "ioapic" /\ e.type # "iso"
      BY <2>2, <2>3, <3>4, Zenon DEF e
    <3> QED
      BY <3>2, <3>3, <3>4, Zenon
  <2>6. Chipped(k + 1)'
    BY <1>1, <1>2, <2>1, <2>3, <2>5, ReadChip, Zenon
  <2>7. Overridden(k + 1)'
    BY <1>1, <1>2, <2>1, <2>3, <2>5, ReadOverride, Zenon
  <2>8. Read(k + 1)'
    BY <2>5, <2>6, <2>7, Zenon DEF Read
  <2>9. boot' = [pc |-> "walk", i |-> k + 1]
    BY <1>0, <1>1, <2>2, Zenon DEF IsBoot
  <2>10. k + 1 \in 1 .. Len(Entries) + 1
    BY <1>3, <2>1
  <2>11. boot'.pc = "walk" /\ boot'.i = k + 1 /\ g_ioapics' = << >> /\ tables' \in Tables
    BY <1>1, <1>2, <2>9, Zenon
  <2> QED
    BY <1>2, <1>3, <2>8, <2>10, <2>11 DEF BootInv
<1> QED
  BY <1>4, <1>5, Zenon

\* What was read stays read.
LEMMA ReadStays ==
  ASSUME tables' = tables, info' = info
  PROVE  \A k : Read(k) => Read(k)'
<1>1. /\ Entries' = Entries /\ \A k, type : Kind(k, type)' = Kind(k, type)
      /\ \A k, irq : Overrides(k, irq)' = Overrides(k, irq)
  BY SameTable, Zenon
<1>2. \A irq : Remembered(irq)' = Remembered(irq)
  BY DEF Remembered
<1>3. ASSUME NEW k, Chipped(k) PROVE Chipped(k)'
  BY <1>1, <1>3, Zenon DEF Chipped
<1>4. ASSUME NEW k, Overridden(k) PROVE Overridden(k)'
  BY <1>1, <1>2, <1>4, Zenon DEF Overridden
<1> QED
  BY <1>3, <1>4, Zenon DEF Read

\* So does all of the table.
LEMMA AllReadStays ==
  ASSUME tables' = tables, info' = info, Read(Len(Entries) + 1)
  PROVE  Read(Len(Entries) + 1)'
<1>1. PICK k : k = Len(Entries) + 1
  OBVIOUS
<1>2. Len(Entries)' + 1 = k
  BY <1>1, SameTable, Zenon
<1> QED
  BY <1>1, <1>2, ReadStays, Zenon

\* Cleared entries stay clear while the chips before keep their places.
LEMMA ClearStays ==
  ASSUME \A j \in 1 .. Len(g_ioapics) : g_ioapics'[j] = g_ioapics[j],
         \A q : ClearPin(q) => ClearPin(q)'
  PROVE  /\ \A j \in 1 .. Len(g_ioapics) : \A n : ClearPins(j, n) => ClearPins(j, n)'
         /\ \A n : n \in 0 .. Len(g_ioapics) /\ Len(g_ioapics) \in Nat /\ ClearChips(n) => ClearChips(n)'
<1>1. ASSUME NEW j \in 1 .. Len(g_ioapics), NEW n, ClearPins(j, n) PROVE ClearPins(j, n)'
  BY <1>1, Zenon DEF ClearPins
<1>2. ASSUME NEW n \in 0 .. Len(g_ioapics), Len(g_ioapics) \in Nat, ClearChips(n) PROVE ClearChips(n)'
  <2>1. \A j \in 1 .. n : j \in 1 .. Len(g_ioapics)
    BY <1>2
  <2> QED
    BY <1>1, <1>2, <2>1, Zenon DEF ClearChips
<1> QED
  BY <1>1, <1>2, Zenon

\* A chip of the table has a number of pins.
LEMMA ChipFacts ==
  ASSUME tables \in Tables, Madts # {}, Added
  PROVE  /\ Len(g_ioapics) \in Nat
         /\ \A j \in 1 .. Len(g_ioapics) :
              \E e \in IoEntries(Entries) : g_ioapics[j] = Instance(e) /\ g_ioapics[j].max_rte \in Nat
<1>1. g_ioapics \in Seq({ Instance(e) : e \in IoEntries(Entries) })
  BY Zenon DEF Added
<1> DEFINE S == { Instance(e) : e \in IoEntries(Entries) }
<1>2. ASSUME NEW x \in S PROVE \E e \in IoEntries(Entries) : x = Instance(e) /\ x.max_rte \in Nat
  <2>1. PICK e \in IoEntries(Entries) : x = Instance(e)
    BY Zenon
  <2>2. x.max_rte = Chips[e.chip]
    BY <2>1, Zenon DEF Instance
  <2> QED
    BY <2>1, <2>2, MadtFound, Zenon
<1> HIDE DEF S
<1>3. Len(g_ioapics) \in Nat /\ \A j \in 1 .. Len(g_ioapics) : g_ioapics[j] \in S
  BY <1>1 DEF S
<1> QED
  BY <1>2, <1>3, Zenon DEF S

\* Adding a chip.
LEMMA InitRoutes ==
  ASSUME IsBoot, BootInv, init
  PROVE  BootInv'
<1>1. /\ boot.pc = "chips" /\ tables' = tables /\ info' = info /\ asked' = asked /\ low' = low
  BY Zenon DEF init, BootAt, chipVars
<1>2. /\ tables \in Tables /\ NothingAsked /\ Madts # {} /\ Read(Len(Entries) + 1) /\ Added
      /\ boot.i = Len(g_ioapics) + 1 /\ ClearChips(Len(g_ioapics))
  BY <1>1 DEF BootInv
<1>3. /\ Entries' = Entries /\ Madts' = Madts /\ NothingAsked' /\ Read(Len(Entries) + 1)'
  BY <1>1, <1>2, SameTable, AllReadStays, Zenon DEF NothingAsked
<1>4. Len(g_ioapics) \in Nat /\ Len(g_ioapics) <= Len(info.ioapics) /\ Len(info.ioapics) \in Nat
      /\ info.ioapics \in Seq(IoEntries(Entries))
  <2>1. info.ioapics \in Seq(IoEntries(Entries)) /\ Len(g_ioapics) <= Len(info.ioapics)
    BY <1>2, Zenon DEF Read, Chipped, Added
  <2>2. Len(info.ioapics) \in Nat
    BY <2>1
  <2> QED
    BY <1>2, <2>1, <2>2, ChipFacts, Zenon
<1>5. \A q : ClearPin(q) => ClearPin(q)'
  BY <1>1, Zenon DEF ClearPin
<1>6. CASE boot.i > Len(info.ioapics)
  <2>1. boot' = [pc |-> "masked", i |-> 1] /\ g_ioapics' = g_ioapics
    BY <1>6, Zenon DEF init, BootTo
  <2>2. Len(g_ioapics) = Len(info.ioapics)
    BY <1>2, <1>4, <1>6
  <2>3. Added'
    BY <1>1, <1>2, <1>3, <2>1, Zenon DEF Added
  <2>4. ClearChips(Len(g_ioapics))'
    <3>1. PICK n : n = Len(g_ioapics)
      BY Zenon
    <3>2. n \in 0 .. Len(g_ioapics) /\ ClearChips(n)
      BY <1>2, <1>4, <3>1
    <3>3. ClearChips(n)'
      BY <1>4, <1>5, <2>1, <3>2, ClearStays, Zenon
    <3> QED
      BY <2>1, <3>1, <3>3, Zenon
  <2> QED
    BY <1>1, <1>2, <1>3, <2>1, <2>2, <2>3, <2>4, SMTT(30) DEF BootInv
<1>7. CASE ~(boot.i > Len(info.ioapics)) /\ Len(g_ioapics) >= MAX_IOAPICS
  <2>1. boot' = [pc |-> "panic", i |-> 1]
    BY <1>7, Zenon DEF init, BootTo
  <2> QED
    BY <1>1, <1>2, <2>1 DEF BootInv
<1>8. CASE ~(boot.i > Len(info.ioapics)) /\ ~(Len(g_ioapics) >= MAX_IOAPICS)
  <2> DEFINE e == info.ioapics[boot.i]
             S == { Instance(f) : f \in IoEntries(Entries) }
  <2>1. g_ioapics' = Append(g_ioapics, Instance(e)) /\ boot' = [pc |-> "rte_low", i |-> 0]
    BY <1>8, Zenon DEF init, Instance
  <2>2. PICK n \in Nat : n = Len(g_ioapics)
    BY <1>4
  <2>3. n + 1 \in 1 .. Len(info.ioapics) /\ e = info.ioapics[n + 1]
    BY <1>2, <1>4, <1>8, <2>2
  <2>4. e \in IoEntries(Entries)
    BY <1>4, <2>3
  <2>5. Instance(e) \in S /\ Instance(e).max_rte \in Nat
    BY <1>2, <2>4, MadtFound, Zenon DEF Instance
  <2>6. /\ g_ioapics' \in Seq(S) /\ Len(g_ioapics') = n + 1 /\ g_ioapics'[n + 1] = Instance(e)
        /\ \A j \in 1 .. n : g_ioapics'[j] = g_ioapics[j]
    <3>1. g_ioapics \in Seq(S)
      BY <1>2, Zenon DEF Added
    <3> HIDE DEF S, e
    <3> QED
      BY <2>1, <2>2, <2>5, <3>1
  <2>7. Added'
    <3>1. \A j \in 1 .. n + 1 : g_ioapics'[j] = Instance(info.ioapics[j])
      <4>1. \A j \in 1 .. n : g_ioapics[j] = Instance(info.ioapics[j])
        BY <1>2, <2>2, Zenon DEF Added
      <4>2. \A j \in 1 .. n + 1 : j \in 1 .. n \/ j = n + 1
        OBVIOUS
      <4> QED
        BY <2>3, <2>6, <4>1, <4>2, Zenon
    <3>2. n + 1 <= Len(info.ioapics)
      BY <1>4, <2>3
    <3> QED
      BY <1>1, <1>3, <2>6, <3>1, <3>2, Zenon DEF Added
  <2>8. ThisChip' = Instance(e)
    BY <2>6, Zenon DEF ThisChip
  <2>9. ClearChips(n)'
    <3>1. n \in 0 .. Len(g_ioapics) /\ ClearChips(n)
      BY <1>2, <2>2
    <3> QED
      BY <1>4, <1>5, <2>2, <2>6, <3>1, ClearStays, Zenon
  <2>10. Len(g_ioapics') > 0 /\ ClearChips(Len(g_ioapics) - 1)'
    <3>1. Len(g_ioapics') - 1 = n /\ Len(g_ioapics') > 0
      BY <2>6
    <3> QED
      BY <2>9, <3>1, Zenon
  <2>11. boot'.pc = "rte_low" /\ boot'.i = 0 /\ boot'.i \in 0 .. ThisChip'.max_rte
    BY <2>1, <2>5, <2>8
  <2>12. ClearPins(Len(g_ioapics), 0 + 0)'
    BY DEF ClearPins
  <2> QED
    BY <1>1, <1>2, <1>3, <2>7, <2>10, <2>11, <2>12, SMTT(30) DEF BootInv
<1> QED
  BY <1>6, <1>7, <1>8, Zenon

\* What is known while init clears the entries of a chip.
AtChip(n, i) ==
  /\ tables \in Tables /\ NothingAsked /\ Madts # {} /\ Read(Len(Entries) + 1) /\ Added
  /\ n = Len(g_ioapics) /\ n \in Nat \ {0} /\ ClearChips(n - 1)
  /\ ThisChip = g_ioapics[n] /\ ThisChip.max_rte \in Nat
  /\ i = boot.i /\ i \in 0 .. ThisChip.max_rte

\* init is at an entry of the last chip it added.
LEMMA ChipAt ==
  ASSUME BootInv, boot.pc \in {"rte_low", "rte_high"}
  PROVE  \E n, i : AtChip(n, i)
<1>1. /\ tables \in Tables /\ NothingAsked /\ Madts # {} /\ Read(Len(Entries) + 1) /\ Added
      /\ Len(g_ioapics) > 0 /\ ClearChips(Len(g_ioapics) - 1) /\ boot.i \in 0 .. ThisChip.max_rte
  BY DEF BootInv
<1>2. Len(g_ioapics) \in Nat \ {0} /\ Len(g_ioapics) \in 1 .. Len(g_ioapics)
  BY <1>1, ChipFacts
<1>3. ThisChip = g_ioapics[Len(g_ioapics)] /\ ThisChip.max_rte \in Nat
  BY <1>1, <1>2, ChipFacts, Zenon DEF ThisChip
<1> QED
  BY <1>1, <1>2, <1>3, Zenon DEF AtChip

\* What no step on the entries changes.
LEMMA ChipStays ==
  ASSUME NEW n, NEW i, AtChip(n, i), UNCHANGED << tables, info, g_ioapics, asked >>,
         \A q : ClearPin(q) => ClearPin(q)'
  PROVE  /\ tables' \in Tables /\ NothingAsked' /\ Madts' # {} /\ Read(Len(Entries) + 1)' /\ Added'
         /\ Len(g_ioapics') = n /\ Len(g_ioapics') > 0 /\ ThisChip' = ThisChip
         /\ ClearChips(n - 1)' /\ \A m : ClearPins(n, m) => ClearPins(n, m)'
<1>1. /\ tables \in Tables /\ NothingAsked /\ Madts # {} /\ Read(Len(Entries) + 1) /\ Added
      /\ n = Len(g_ioapics) /\ n \in Nat \ {0} /\ ClearChips(n - 1)
  BY Zenon DEF AtChip
<1>2. tables' \in Tables /\ NothingAsked' /\ Madts' # {} /\ Read(Len(Entries) + 1)'
  BY <1>1, SameTable, AllReadStays, Zenon DEF NothingAsked
<1>3. Added' /\ ThisChip' = ThisChip
  BY <1>1, SameTable, Zenon DEF Added, ThisChip
<1>4. n - 1 \in 0 .. Len(g_ioapics) /\ Len(g_ioapics) \in Nat /\ n \in 1 .. Len(g_ioapics) /\ n > 0
  BY <1>1
<1>5. ClearChips(n - 1)' /\ \A m : ClearPins(n, m) => ClearPins(n, m)'
  BY <1>1, <1>4, ClearStays, Zenon
<1> QED
  BY <1>1, <1>2, <1>3, <1>4, <1>5, Zenon

\* Masking an entry, or the end of a chip.
LEMMA MaskRoutes ==
  ASSUME TableInv, BootInv, MaskEntry
  PROVE  BootInv'
<1>1. /\ boot.pc = "rte_low" /\ UNCHANGED << tables, info, g_ioapics, asked >> /\ IsBoot
      /\ low \in [Pin -> Entry]
  BY Zenon DEF MaskEntry, BootAt, TableInv, Places, IsBoot, Registers
<1>2. PICK n, i : AtChip(n, i)
  BY <1>1, ChipAt, Zenon
<1>3. n \in Nat \ {0} /\ n = Len(g_ioapics) /\ i = boot.i /\ i \in 0 .. ThisChip.max_rte
      /\ ThisChip.max_rte \in Nat /\ ThisChip = g_ioapics[n] /\ ClearChips(n - 1)
  BY <1>2, Zenon DEF AtChip
<1>4. ClearPins(n, i)
  <2>1. ClearPins(Len(g_ioapics), boot.i + 0) /\ boot.i + 0 = i
    BY <1>1, <1>3, SMTT(30) DEF BootInv
  <2> QED
    BY <1>3, <2>1, Zenon
<1>5. CASE i = ThisChip.max_rte
  <2>1. boot' = [pc |-> "chips", i |-> n + 1] /\ low' = low
    BY <1>3, <1>5, Zenon DEF MaskEntry
  <2>2. \A q : ClearPin(q) => ClearPin(q)'
    BY <2>1, Zenon DEF ClearPin
  <2>3. /\ tables' \in Tables /\ NothingAsked' /\ Madts' # {} /\ Read(Len(Entries) + 1)' /\ Added'
        /\ Len(g_ioapics') = n /\ ClearChips(n - 1)' /\ \A m : ClearPins(n, m) => ClearPins(n, m)'
    BY <1>1, <1>2, <2>2, ChipStays, Zenon
  <2>4. ClearChips(n)'
    <3>1. ClearPins(n, i)' /\ g_ioapics'[n].max_rte = i
      BY <1>1, <1>3, <1>4, <1>5, <2>3, Zenon
    <3>2. \A j \in 1 .. n : j \in 1 .. n - 1 \/ j = n
      BY <1>3
    <3> QED
      BY <2>3, <3>1, <3>2, Zenon DEF ClearChips
  <2>5. ClearChips(Len(g_ioapics))' /\ boot'.pc = "chips" /\ boot'.i = Len(g_ioapics') + 1
    BY <2>1, <2>3, <2>4, Zenon
  <2> QED
    BY <2>3, <2>5 DEF BootInv
<1>6. CASE i # ThisChip.max_rte
  <2> DEFINE p == << g_ioapics[n].chip, i >>
  <2>1. /\ low' = [low EXCEPT ![p] = [vector |-> 0, masked |-> TRUE]]
        /\ boot' = [pc |-> "rte_high", i |-> i]
    BY <1>1, <1>3, <1>6, Zenon DEF MaskEntry, IsBoot
  <2>2. PICK c : c = p
    BY Zenon
  <2>3. ClearPin(c)' /\ \A q : ClearPin(q) => ClearPin(q)'
    BY <1>1, <2>1, <2>2, Zenon DEF ClearPin
  <2>4. /\ tables' \in Tables /\ NothingAsked' /\ Madts' # {} /\ Read(Len(Entries) + 1)' /\ Added'
        /\ Len(g_ioapics') = n /\ Len(g_ioapics') > 0 /\ ThisChip' = ThisChip
        /\ ClearChips(n - 1)' /\ \A m : ClearPins(n, m) => ClearPins(n, m)'
    BY <1>1, <1>2, <2>3, ChipStays, Zenon
  <2>5. ClearPins(n, i + 1)'
    <3>1. ClearPins(n, i)' /\ c = << g_ioapics'[n].chip, i >>
      BY <1>1, <1>4, <2>2, <2>4, Zenon
    <3>2. \A j \in 0 .. (i + 1) - 1 : j \in 0 .. i - 1 \/ j = i
      BY <1>3
    <3> QED
      BY <2>3, <3>1, <3>2, Zenon DEF ClearPins
  <2>6. ClearPins(Len(g_ioapics), boot.i + 1)' /\ ClearChips(Len(g_ioapics) - 1)'
        /\ boot'.pc = "rte_high" /\ boot'.i = i
    BY <2>1, <2>4, <2>5, Zenon
  <2>7. boot'.i \in 0 .. ThisChip'.max_rte /\ boot'.i < ThisChip'.max_rte
    BY <1>3, <1>6, <2>4, <2>6, SMTT(30)
  <2> QED
    BY <2>4, <2>6, <2>7 DEF BootInv
<1> QED
  BY <1>5, <1>6, Zenon

\* Clearing the destination of an entry.
LEMMA ClearRoutes ==
  ASSUME BootInv, ClearDest
  PROVE  BootInv'
<1>1. /\ boot.pc = "rte_high" /\ UNCHANGED << tables, info, g_ioapics, asked >> /\ low' = low
      /\ boot' = [pc |-> "rte_low", i |-> boot.i + 1]
  BY Zenon DEF ClearDest, BootAt
<1>2. PICK n, i : AtChip(n, i)
  BY <1>1, ChipAt, Zenon
<1>3. n \in Nat \ {0} /\ n = Len(g_ioapics) /\ i = boot.i /\ i \in 0 .. ThisChip.max_rte
      /\ ThisChip.max_rte \in Nat
  BY <1>2, Zenon DEF AtChip
<1>4. ClearPins(n, i + 1) /\ i < ThisChip.max_rte
  <2>1. ClearPins(Len(g_ioapics), boot.i + 1) /\ boot.i < ThisChip.max_rte
    BY <1>1 DEF BootInv
  <2> QED
    BY <1>3, <2>1, Zenon
<1>5. \A q : ClearPin(q) => ClearPin(q)'
  BY <1>1, Zenon DEF ClearPin
<1>6. /\ tables' \in Tables /\ NothingAsked' /\ Madts' # {} /\ Read(Len(Entries) + 1)' /\ Added'
      /\ Len(g_ioapics') = n /\ Len(g_ioapics') > 0 /\ ThisChip' = ThisChip
      /\ ClearChips(n - 1)' /\ \A m : ClearPins(n, m) => ClearPins(n, m)'
  BY <1>1, <1>2, <1>5, ChipStays, Zenon
<1>7. boot'.pc = "rte_low" /\ boot'.i = i + 1 /\ boot'.i + 0 = i + 1 /\ boot'.i \in 0 .. ThisChip'.max_rte
  <2>1. boot'.pc = "rte_low" /\ boot'.i = i + 1
    BY <1>1, <1>3, Zenon
  <2>2. i + 1 \in 0 .. ThisChip.max_rte /\ (i + 1) + 0 = i + 1
    BY <1>3, <1>4
  <2> QED
    BY <1>6, <2>1, <2>2, Zenon
<1>8. ClearPins(Len(g_ioapics), boot.i + 0)' /\ ClearChips(Len(g_ioapics) - 1)'
  BY <1>4, <1>6, <1>7, Zenon
<1> QED
  BY <1>6, <1>7, <1>8 DEF BootInv

\* The local APIC is enabled before anything is found.
LEMMA ApicRoutes ==
  ASSUME BootInv, ApicInit
  PROVE  BootInv'
<1>1. /\ boot.pc = "apic" /\ UNCHANGED << tables, info, g_ioapics, asked >>
      /\ \E pc1 \in {"find", "panic"} : boot' = [pc |-> pc1, i |-> 1]
  BY Zenon DEF ApicInit, BootAt, BootTo
<1>2. boot'.pc \in {"find", "panic"}
  <2>1. PICK pc1 \in {"find", "panic"} : boot' = [pc |-> pc1, i |-> 1]
    BY <1>1, Zenon
  <2> QED
    BY <2>1
<1>3. tables \in Tables /\ NothingAsked /\ Empty /\ g_ioapics = << >>
  BY <1>1 DEF BootInv
<1>4. NothingAsked' /\ Empty'
  BY <1>1, <1>3, Zenon DEF NothingAsked, Empty
<1> QED
  BY <1>1, <1>2, <1>3, <1>4 DEF BootInv

\* The fields of a chip's record, and a pin by its chip and number.
LEMMA InstanceFields ==
  ASSUME NEW e, NEW x, x = Instance(e)
  PROVE  x.chip = e.chip /\ x.gsi_base = e.gsi_base /\ x.max_rte = Chips[e.chip]
  BY DEF Instance

\* A pin is a chip of the board and a number below its entry count.
LEMMA PinIs ==
  /\ \A c \in DOMAIN Chips : \A i \in 0 .. Chips[c] - 1 : << c, i >> \in Pin
  /\ \A p \in Pin : \E c \in DOMAIN Chips : \E i \in 0 .. Chips[c] - 1 : p = << c, i >>
<1>1. ASSUME NEW c \in DOMAIN Chips, NEW i \in 0 .. Chips[c] - 1 PROVE << c, i >> \in Pin
  <2>1. << c, i >> \in {c} \X (0 .. Chips[c] - 1)
    OBVIOUS
  <2>2. {c} \X (0 .. Chips[c] - 1) \in { {d} \X (0 .. Chips[d] - 1) : d \in DOMAIN Chips }
    BY Zenon
  <2> QED
    BY <2>1, <2>2, Zenon DEF Pin
<1>2. ASSUME NEW p \in Pin PROVE \E c \in DOMAIN Chips : \E i \in 0 .. Chips[c] - 1 : p = << c, i >>
  <2>1. PICK c \in DOMAIN Chips : p \in {c} \X (0 .. Chips[c] - 1)
    BY Zenon DEF Pin
  <2> QED
    BY <2>1
<1> QED
  BY <1>1, <1>2, Zenon

\* When kernel_main turns interrupts on, every pin of a listed chip is masked.
LEMMA UpRoutes ==
  ASSUME TableInv, BootInv, timer_init
  PROVE  BootInv' /\ DriverInv'
<1>1. /\ boot.pc = "masked" /\ boot' = [pc |-> "up", i |-> 1]
      /\ UNCHANGED << tables, info, g_ioapics, asked, driver, low, high >>
  BY Zenon DEF timer_init, BootAt, BootTo, chipVars
<1>2. /\ tables \in Tables /\ NothingAsked /\ Madts # {} /\ Read(Len(Entries) + 1) /\ Added
      /\ Len(g_ioapics) = Len(info.ioapics) /\ ClearChips(Len(g_ioapics))
  BY <1>1 DEF BootInv
<1>3. driver.pc = "idle"
  BY <1>1, Zenon DEF TableInv, Places
<1>4. /\ Entries' = Entries /\ Madts' = Madts /\ Read(Len(Entries) + 1)' /\ Added'
  BY <1>1, <1>2, SameTable, AllReadStays, Zenon DEF Added
<1>5. BootInv'
  BY <1>1, <1>2, <1>4, SMTT(30) DEF BootInv
<1>6. ASSUME NEW p \in Pin, Listed(p) PROVE Obeys(p)'
  <2>1. PICK e \in IoEntries(Entries) : e.chip = p[1]
    BY <1>6, Zenon DEF Listed
  <2>2. Entries \in Seq(Range(Entries)) /\ info.ioapics \in Seq(IoEntries(Entries))
    BY <1>2, MadtFound, Zenon DEF Read, Chipped
  <2>3. PICK k \in DOMAIN Entries : Entries[k] = e /\ e.type = "ioapic"
    BY <2>1, Zenon DEF IoEntries, Range
  <2>4. k \in Kind(Len(Entries) + 1, "ioapic")
    BY <2>2, <2>3 DEF Kind
  <2>5. PICK j \in DOMAIN info.ioapics : info.ioapics[j] = e
    BY <1>2, <2>3, <2>4, Zenon DEF Read, Chipped
  <2>6. j \in 1 .. Len(g_ioapics)
    BY <1>2, <2>2, <2>5
  <2>7. g_ioapics[j].chip = e.chip /\ g_ioapics[j].max_rte = Chips[e.chip]
    <3>1. g_ioapics[j] = Instance(e)
      BY <1>2, <2>5, <2>6, Zenon DEF Added
    <3> QED
      BY <3>1, InstanceFields, Zenon
  <2>8. PICK c \in DOMAIN Chips : \E i \in 0 .. Chips[c] - 1 : p = << c, i >>
    BY PinIs, Zenon
  <2>9. PICK i \in 0 .. Chips[c] - 1 : p = << c, i >>
    BY <2>8, Zenon
  <2>10. low[p] = [vector |-> 0, masked |-> TRUE]
    <3>1. c = e.chip
      BY <2>1, <2>9
    <3>2. ClearPins(j, Chips[c])
      BY <1>2, <2>6, <2>7, <3>1, Zenon DEF ClearChips
    <3>3. ClearPin(<< c, i >>)
      BY <2>7, <3>1, <3>2, Zenon DEF ClearPins
    <3> QED
      BY <2>9, <3>3, Zenon DEF ClearPin
  <2>11. low'[p].masked = TRUE /\ low'[p].vector = 0 /\ asked'[p].on = FALSE
    <3>1. low' = low /\ asked' = asked /\ asked[p] = [on |-> FALSE, to |-> Off]
      BY <1>1, <1>2, Zenon DEF NothingAsked
    <3> QED
      BY <2>10, <3>1
  <2> QED
    BY <2>11, Zenon DEF Obeys
<1>7. asked' \in [Pin -> [on : BOOLEAN, to : Target \cup {Off}]]
  BY <1>1, <1>2, Zenon DEF NothingAsked
<1>8. DriverInv'
  BY <1>1, <1>3, <1>6, <1>7, SameTable, Zenon DEF DriverInv
<1> QED
  BY <1>5, <1>8, Zenon

\* The pin route_irq and mask_irq find is the one the board wires the interrupt to.
LEMMA WiredIsFound ==
  ASSUME BootInv, boot.pc = "up", NEW irq \in IsaIrq, Found(irq)
  PROVE  WiredTo(irq) = {PinFor(irq)} /\ PinFor(irq) \in Pin
<1> DEFINE O == Overrides(Len(Entries) + 1, irq)
           R == Remembered(irq)
           gsi == isa_to_gsi(irq)
           wired == IF O = {} THEN irq ELSE Entries[CHOOSE i \in O : \A j \in O : i <= j].gsi
<1>1. /\ tables \in Tables /\ Madts # {} /\ Read(Len(Entries) + 1) /\ Added
      /\ Len(g_ioapics) = Len(info.ioapics)
  BY DEF BootInv
<1>2. /\ SameFirst(Entries, info.isos, O, R) /\ info.isos \in Seq(Range(Entries))
      /\ Entries \in Seq(Range(Entries)) /\ info.ioapics \in Seq(IoEntries(Entries))
  BY <1>1, MadtFound, Zenon DEF Read, Overridden, Chipped
<1>3. O \in SUBSET Nat /\ R \in SUBSET Nat /\ irq \in Nat /\ Len(g_ioapics) \in Nat
  <2>1. O \in SUBSET Nat
    BY DEF Overrides, Kind
  <2>2. R \in SUBSET Nat
    BY <1>2 DEF Remembered
  <2>3. irq \in Nat
    BY BoardAssumption, Zenon DEF IsaIrq
  <2> QED
    BY <1>1, <2>1, <2>2, <2>3, ChipFacts, Zenon
<1>4. O = { i \in DOMAIN Entries : Entries[i].type = "iso" /\ Entries[i].irq = irq }
  BY <1>2 DEF Overrides, Kind
<1>5. gsi = wired
  <2>1. gsi = IF R = {} THEN irq ELSE info.isos[CHOOSE i \in R : \A j \in R : i <= j].gsi
    BY Zenon DEF isa_to_gsi, Remembered
  <2>2. CASE O = {}
    BY <1>2, <2>1, <2>2, Zenon DEF SameFirst
  <2>3. CASE O # {}
    <3> HIDE DEF O, R
    <3>1. R # {}
      BY <1>2, <2>3, Zenon DEF SameFirst
    <3>2. Lowest(O, CHOOSE i \in O : \A j \in O : i <= j)
      BY <1>3, <2>3, Least, Zenon DEF Lowest
    <3>3. Lowest(R, CHOOSE i \in R : \A j \in R : i <= j)
      BY <1>3, <3>1, Least, Zenon DEF Lowest
    <3>4. Entries[CHOOSE i \in O : \A j \in O : i <= j].gsi = info.isos[CHOOSE i \in R : \A j \in R : i <= j].gsi
      BY <1>2, <3>2, <3>3, Zenon DEF SameFirst, Lowest
    <3> QED
      BY <2>1, <2>3, <3>1, <3>4, Zenon
  <2> QED
    BY <2>2, <2>3, Zenon
<1>6. gsi \in Nat
  <2>1. CASE O = {}
    BY <1>3, <1>5, <2>1, Zenon
  <2>2. CASE O # {}
    <3>1. PICK i \in O : i = (CHOOSE k \in O : \A j \in O : k <= j)
      BY <1>3, <2>2, Least, Zenon
    <3>2. Entries[i].gsi \in Nat
      BY <1>1, <1>4, <3>1, MadtFound, Zenon DEF Range
    <3> QED
      BY <1>5, <2>2, <3>1, <3>2, Zenon
  <2> QED
    BY <2>1, <2>2, Zenon
<1>7. PICK n \in Handling(gsi) : find_ioapic_for_gsi(gsi) = g_ioapics[n]
  <2>1. Handling(gsi) # {}
    BY Zenon DEF Found
  <2>2. Handling(gsi) \in SUBSET Nat
    <3>1. g_ioapics \in Seq({ Instance(f) : f \in IoEntries(Entries) })
      BY <1>1, Zenon DEF Added
    <3>2. DOMAIN g_ioapics \subseteq Nat
      BY <3>1
    <3> QED
      BY <3>2, Zenon DEF Handling
  <2> QED
    BY <2>1, <2>2, Least, Zenon DEF find_ioapic_for_gsi
<1>8. n \in 1 .. Len(g_ioapics)
  <2>1. g_ioapics \in Seq({ Instance(f) : f \in IoEntries(Entries) })
    BY <1>1, Zenon DEF Added
  <2>2. DOMAIN g_ioapics = 1 .. Len(g_ioapics)
    BY <2>1
  <2> QED
    BY <1>7, <2>2, Zenon DEF Handling
<1>9. PICK e \in IoEntries(Entries) : g_ioapics[n] = Instance(e)
  BY <1>1, <1>8, ChipFacts, Zenon
<1> HIDE DEF gsi, wired, O, R
<1>10. /\ g_ioapics[n].gsi_base = e.gsi_base /\ g_ioapics[n].chip = e.chip
       /\ g_ioapics[n].max_rte = Chips[e.chip]
  BY <1>9, InstanceFields, Zenon
<1>11. e.chip \in DOMAIN Chips /\ e.gsi_base \in Nat /\ Chips[e.chip] \in Nat
  BY <1>1, <1>9, MadtFound, Zenon
<1>12. gsi >= e.gsi_base /\ gsi < e.gsi_base + Chips[e.chip]
  BY <1>7, <1>10, Zenon DEF Handling
<1>13. gsi \in Gsis(e) /\ gsi - e.gsi_base \in 0 .. Chips[e.chip] - 1
  BY <1>6, <1>11, <1>12 DEF Gsis
<1>14. PinFor(irq) = << e.chip, gsi - e.gsi_base >>
  BY <1>7, <1>10, Zenon DEF PinFor, gsi
<1>15. PinFor(irq) \in Pin
  BY <1>11, <1>13, <1>14, PinIs, Zenon
<1>16. WiredTo(irq) = { << f.chip, gsi - f.gsi_base >> : f \in { g \in IoEntries(Entries) : gsi \in Gsis(g) } }
  BY <1>4, <1>5, Zenon DEF WiredTo, Entries, wired
<1>17. { g \in IoEntries(Entries) : gsi \in Gsis(g) } = {e}
  <2>1. \A f \in IoEntries(Entries) : e # f => Gsis(e) \cap Gsis(f) = {}
    BY <1>1, MadtFound, Zenon
  <2> QED
    BY <1>13, <2>1, Zenon
<1>18. { << f.chip, gsi - f.gsi_base >> : f \in {e} } = {<< e.chip, gsi - e.gsi_base >>}
  BY Zenon
<1> QED
  BY <1>14, <1>15, <1>16, <1>17, <1>18, Zenon

\* Nothing that was found changes once the machine is up.
LEMMA UpStays ==
  ASSUME BootInv, boot.pc = "up", UNCHANGED << tables, info, g_ioapics >>, boot'.pc \in {"up", "panic"}
  PROVE  /\ BootInv'
         /\ \A irq : (Found(irq)' = Found(irq)) /\ PinFor(irq)' = PinFor(irq)
         /\ \A q : Listed(q)' = Listed(q)
<1>1. /\ tables \in Tables /\ Madts # {} /\ Read(Len(Entries) + 1) /\ Added
      /\ Len(g_ioapics) = Len(info.ioapics)
  BY DEF BootInv
<1>2. /\ Entries' = Entries /\ Madts' = Madts /\ Read(Len(Entries) + 1)' /\ Added'
      /\ \A q : Listed(q)' = Listed(q)
  BY <1>1, SameTable, AllReadStays, Zenon DEF Added
<1>3. BootInv'
  BY <1>1, <1>2, SMTT(30) DEF BootInv
<1>4. ASSUME NEW irq PROVE Found(irq)' = Found(irq)
  BY DEF Found, Handling, isa_to_gsi
<1> QED
  BY <1>2, <1>3, <1>4, PinStays, Zenon

\* A pin nobody touches goes on obeying.
LEMMA ObeysStays ==
  ASSUME NEW q, Obeys(q), low'[q] = low[q], high'[q] = high[q], asked'[q] = asked[q]
  PROVE  Obeys(q)'
  BY Zenon DEF Obeys, Sends

\* What is known between two calls of drivers, and within one.
LEMMA UpFacts ==
  ASSUME TableInv, BootInv, DriverInv, boot.pc = "up"
  PROVE  /\ asked \in [Pin -> [on : BOOLEAN, to : Target \cup {Off}]]
         /\ low \in [Pin -> Entry] /\ high \in [Pin -> Dest \cup {0, 1}]
         /\ driver.pc = "idle" => \A q \in Pin : Listed(q) => Obeys(q)
         /\ driver.pc # "idle" =>
              /\ driver.irq \in IsaIrq /\ Found(driver.irq)
              /\ WiredTo(driver.irq) = {PinFor(driver.irq)} /\ PinFor(driver.irq) \in Pin
              /\ \A q \in Pin : Listed(q) /\ q # PinFor(driver.irq) => Obeys(q)
  BY WiredIsFound, Zenon DEF DriverInv, TableInv, Registers

\* route_irq is called.
LEMMA RouteObeys ==
  ASSUME TableInv, BootInv, DriverInv, NEW c \in Calls, route_irq(c[1], c[2], c[3])
  PROVE  BootInv' /\ DriverInv'
<1>1. /\ boot.pc = "up" /\ driver.pc = "idle"
      /\ UNCHANGED << tables, info, g_ioapics, low, high, asked >>
      /\ driver' = IF Found(c[1]) THEN [pc |-> "mask", irq |-> c[1], dest |-> c[2], vector |-> c[3]]
                   ELSE NoDriver
      /\ boot' = IF g_ioapics = << >> THEN [boot EXCEPT !.pc = "panic"] ELSE boot
      /\ IsBoot
  BY Zenon DEF route_irq, Running, chipVars, TableInv, Places, IsBoot
<1>2. boot'.pc \in {"up", "panic"}
  <2>1. boot' = [pc |-> "panic", i |-> boot.i] \/ boot' = boot
    BY <1>1, Zenon DEF IsBoot
  <2> QED
    BY <1>1, <2>1, Zenon
<1>3. BootInv' /\ (\A irq : (Found(irq)' = Found(irq)) /\ PinFor(irq)' = PinFor(irq))
      /\ \A q : Listed(q)' = Listed(q)
  BY <1>1, <1>2, UpStays, Zenon
<1>4. \A q \in Pin : Listed(q)' => Obeys(q)'
  BY <1>1, <1>3, UpFacts, ObeysStays, Zenon
<1>5. c[1] \in IsaIrq
  BY Zenon DEF IsaIrq
<1>6. \/ driver'.pc = "idle"
      \/ driver'.pc = "mask" /\ driver'.irq = c[1] /\ Found(c[1])
  BY <1>1 DEF NoDriver
<1>7. CASE driver'.pc = "idle"
  BY <1>1, <1>3, <1>4, <1>7, UpFacts, Zenon DEF DriverInv
<1>8. CASE driver'.pc = "mask" /\ driver'.irq = c[1] /\ Found(c[1])
  <2>1. driver'.irq \in IsaIrq /\ Found(driver.irq)'
    BY <1>3, <1>5, <1>8, Zenon
  <2> QED
    BY <1>1, <1>3, <1>4, <1>8, <2>1, UpFacts, Zenon DEF DriverInv
<1> QED
  BY <1>6, <1>7, <1>8, Zenon

\* route_irq masks the entry and writes its destination.
LEMMA RouteWritesObey ==
  ASSUME TableInv, BootInv, DriverInv, RouteMask \/ RouteDest
  PROVE  BootInv' /\ DriverInv'
<1>1. /\ boot.pc = "up" /\ driver.pc \in {"mask", "dest"} /\ boot' = boot
      /\ UNCHANGED << tables, info, g_ioapics, asked >>
      /\ driver = [pc |-> driver.pc, irq |-> driver.irq, dest |-> driver.dest, vector |-> driver.vector]
  BY Zenon DEF RouteMask, RouteDest, Running, TableInv, Places
<1>2. BootInv' /\ (\A irq : (Found(irq)' = Found(irq)) /\ PinFor(irq)' = PinFor(irq))
      /\ \A q : Listed(q)' = Listed(q)
  BY <1>1, UpStays, Zenon
<1>3. PICK p, irq, dest : p = PinFor(irq) /\ irq = driver.irq /\ dest = driver.dest
  BY Zenon
<1>4. driver.pc # "idle"
  BY <1>1
<1>5. /\ asked \in [Pin -> [on : BOOLEAN, to : Target \cup {Off}]]
      /\ irq \in IsaIrq /\ Found(irq) /\ p \in Pin
      /\ \A q \in Pin : Listed(q) /\ q # p => Obeys(q)
      /\ low \in [Pin -> Entry] /\ high \in [Pin -> Dest \cup {0, 1}]
  BY <1>1, <1>3, <1>4, UpFacts, Zenon
<1>6. CASE RouteMask
  <2>1. /\ driver' = [pc |-> "dest", irq |-> irq, dest |-> dest, vector |-> driver.vector]
        /\ low' = [low EXCEPT ![p].masked = TRUE] /\ high' = high
    BY <1>1, <1>3, <1>6, Zenon DEF RouteMask
  <2>2. driver'.pc = "dest" /\ driver'.irq = irq
    BY <2>1
  <2>3. \A q \in Pin : q # p => low'[q] = low[q]
    BY <1>5, <2>1, Zenon
  <2>4. PinFor(driver.irq)' = p /\ Found(driver.irq)'
    BY <1>2, <1>3, <1>5, <2>2, Zenon
  <2>5. \A q \in Pin : Listed(q)' => Obeys(q)' \/ q = PinFor(driver.irq)'
    BY <1>1, <1>2, <1>5, <2>1, <2>3, <2>4, ObeysStays, Zenon
  <2> QED
    BY <1>1, <1>2, <1>5, <2>2, <2>4, <2>5, Zenon DEF DriverInv
<1>7. CASE RouteDest
  <2>1. /\ driver' = [pc |-> "vector", irq |-> irq, dest |-> dest, vector |-> driver.vector]
        /\ high' = [high EXCEPT ![p] = dest] /\ low' = low
    BY <1>1, <1>3, <1>7, Zenon DEF RouteDest
  <2>2. driver'.pc = "vector" /\ driver'.irq = irq /\ driver'.dest = dest
    BY <2>1
  <2>3. high'[p] = dest /\ \A q \in Pin : q # p => high'[q] = high[q]
    BY <1>5, <2>1, Zenon
  <2>4. PinFor(driver.irq)' = p /\ Found(driver.irq)'
    BY <1>2, <1>3, <1>5, <2>2, Zenon
  <2>5. \A q \in Pin : Listed(q)' => Obeys(q)' \/ q = PinFor(driver.irq)'
    BY <1>1, <1>2, <1>5, <2>1, <2>3, <2>4, ObeysStays, Zenon
  <2> QED
    BY <1>1, <1>2, <1>5, <2>2, <2>3, <2>4, <2>5, Zenon DEF DriverInv
<1> QED
  BY <1>6, <1>7, Zenon

\* The mask of a pin and what was asked of it change together.
Opposite(b, on) == on \in BOOLEAN /\ b = ~on
Switches(p, b, on) ==
  /\ low' = [low EXCEPT ![p].masked = b]
  /\ asked' = [q \in Pin |-> IF q \in {p} THEN [asked[q] EXCEPT !.on = on] ELSE asked[q]]

\* The fields of a written entry.
LEMMA EntryFields ==
  ASSUME NEW e, NEW x, NEW y, e = [vector |-> x, masked |-> y]
  PROVE  e.vector = x /\ e.masked = y
  OBVIOUS

\* A pin with a vector, or one that is masked, obeys after its mask has been written.
LEMMA Switched ==
  ASSUME low \in [Pin -> Entry], asked \in [Pin -> [on : BOOLEAN, to : Target \cup {Off}]],
         NEW p \in Pin, NEW b, NEW on, Listed(p) => Obeys(p), high' = high,
         Opposite(b, on), on => low[p].vector # 0, Switches(p, b, on)
  PROVE  /\ asked' \in [Pin -> [on : BOOLEAN, to : Target \cup {Off}]]
         /\ Listed(p) => Obeys(p)'
         /\ \A q \in Pin : q # p => low'[q] = low[q] /\ asked'[q] = asked[q]
<1>1. /\ low'[p] = [low[p] EXCEPT !.masked = b] /\ asked'[p] = [asked[p] EXCEPT !.on = on]
      /\ \A q \in Pin : q # p => low'[q] = low[q] /\ asked'[q] = asked[q]
  BY Zenon DEF Switches
<1>2. \E v, m : v \in Vector \cup {0} /\ low[p] = [vector |-> v, masked |-> m]
  <2>1. low[p] \in Entry
    BY Zenon
  <2> QED
    BY <2>1, Zenon DEF Entry
<1>3. \E o, t : t \in Target \cup {Off} /\ asked[p] = [on |-> o, to |-> t]
  <2>1. asked[p] \in [on : BOOLEAN, to : Target \cup {Off}]
    BY Zenon
  <2> QED
    BY <2>1, Zenon
<1>4. PICK v, m : v \in Vector \cup {0} /\ low[p] = [vector |-> v, masked |-> m]
  BY <1>2, Zenon
<1>5. PICK o, t : t \in Target \cup {Off} /\ asked[p] = [on |-> o, to |-> t]
  BY <1>3, Zenon
<1>6. low'[p] = [vector |-> v, masked |-> b] /\ asked'[p] = [on |-> on, to |-> t]
  <2>1. /\ \A x : [[vector |-> v, masked |-> m] EXCEPT !.masked = x] = [vector |-> v, masked |-> x]
        /\ \A x : [[on |-> o, to |-> t] EXCEPT !.on = x] = [on |-> x, to |-> t]
    OBVIOUS
  <2> QED
    BY <1>1, <1>4, <1>5, <2>1, Zenon
<1>7. /\ low'[p].vector = v /\ low'[p].masked = b /\ asked'[p].on = on /\ asked'[p].to = t
      /\ low[p].vector = v /\ asked[p].to = t
  <2>0. low'[p] = [vector |-> v, masked |-> b] /\ low[p] = [vector |-> v, masked |-> m]
    BY <1>4, <1>6, Zenon
  <2>1. low'[p].vector = v /\ low'[p].masked = b
    BY <2>0, EntryFields, SMTT(60)
  <2>2. asked'[p].on = on /\ asked'[p].to = t
    BY <1>6
  <2>3. low[p].vector = v
    BY <2>0, EntryFields, Zenon
  <2>4. asked[p].to = t
    BY <1>5
  <2> QED
    BY <2>1, <2>2, <2>3, <2>4, ZenonT(60)
<1>8. ASSUME Listed(p) PROVE Obeys(p)'
  <2>1. v # 0 => t = [vector |-> v, dest |-> high[p]]
    BY <1>7, <1>8, Zenon DEF Obeys, Sends
  <2>2. on \/ v # 0 => t = [vector |-> v, dest |-> high[p]]
    BY <1>7, <2>1, Zenon
  <2>3. b = ~on
    BY Zenon DEF Opposite
  <2> QED
    BY <1>7, <2>2, <2>3, Zenon DEF Obeys, Sends
<1>9. \A q \in Pin : asked'[q] \in [on : BOOLEAN, to : Target \cup {Off}]
  <2>1. \A x \in BOOLEAN : [on |-> x, to |-> t] \in [on : BOOLEAN, to : Target \cup {Off}]
    BY <1>5, Zenon
  <2>2. on \in BOOLEAN
    BY Zenon DEF Opposite
  <2>3. asked'[p] \in [on : BOOLEAN, to : Target \cup {Off}]
    BY <1>6, <2>1, <2>2, Zenon
  <2> QED
    BY <1>1, <2>3, Zenon
<1>10. asked' \in [Pin -> [on : BOOLEAN, to : Target \cup {Off}]]
  BY <1>9, Zenon DEF Switches
<1> QED
  BY <1>1, <1>8, <1>10, Zenon

\* mask_irq and unmask_irq.
LEMMA MaskObeys ==
  ASSUME TableInv, BootInv, DriverInv, NEW irq \in IsaIrq, mask_irq(irq) \/ unmask_irq(irq)
  PROVE  BootInv' /\ DriverInv'
<1>1. /\ boot.pc = "up" /\ driver.pc = "idle" /\ boot' = boot /\ driver' = driver /\ high' = high
      /\ UNCHANGED << tables, info, g_ioapics >> /\ Found(irq)
  BY Zenon DEF mask_irq, unmask_irq, Running
<1>2. BootInv' /\ \A q : Listed(q)' = Listed(q)
  BY <1>1, UpStays, Zenon
<1>3. PICK p : p = PinFor(irq)
  BY Zenon
<1>4. WiredTo(irq) = {p} /\ p \in Pin
  BY <1>1, <1>3, WiredIsFound, Zenon
<1>5. \E b, on : Opposite(b, on) /\ (on => low[p].vector # 0) /\ Switches(p, b, on)
  <2>1. CASE mask_irq(irq)
    <3>1. Switches(p, TRUE, FALSE)
      BY <1>3, <1>4, <2>1, Zenon DEF mask_irq, Switches
    <3>2. Opposite(TRUE, FALSE)
      BY Zenon DEF Opposite
    <3> QED
      BY <3>1, <3>2, Zenon
  <2>2. CASE unmask_irq(irq)
    <3>1. low[p].vector # 0 /\ Switches(p, FALSE, TRUE)
      BY <1>3, <1>4, <2>2, Zenon DEF unmask_irq, Switches
    <3>2. Opposite(FALSE, TRUE)
      BY Zenon DEF Opposite
    <3> QED
      BY <3>1, <3>2, Zenon
  <2> QED
    BY <2>1, <2>2, Zenon
<1>6. /\ asked \in [Pin -> [on : BOOLEAN, to : Target \cup {Off}]] /\ low \in [Pin -> Entry]
      /\ \A q \in Pin : Listed(q) => Obeys(q)
  BY <1>1, UpFacts, Zenon
<1>7. /\ asked' \in [Pin -> [on : BOOLEAN, to : Target \cup {Off}]]
      /\ Listed(p) => Obeys(p)'
      /\ \A q \in Pin : q # p => low'[q] = low[q] /\ asked'[q] = asked[q]
  BY <1>1, <1>4, <1>5, <1>6, Switched, Zenon
<1>8. \A q \in Pin : Listed(q)' => Obeys(q)'
  BY <1>1, <1>2, <1>6, <1>7, ObeysStays, Zenon
<1> QED
  BY <1>1, <1>2, <1>7, <1>8, Zenon DEF DriverInv

\* route_irq writes the vector: the pin obeys again.
LEMMA VectorObeys ==
  ASSUME TableInv, BootInv, DriverInv, RouteVector
  PROVE  BootInv' /\ DriverInv'
<1>1. /\ boot.pc = "up" /\ driver.pc = "vector" /\ boot' = boot /\ high' = high
      /\ UNCHANGED << tables, info, g_ioapics >> /\ driver' = NoDriver
  BY Zenon DEF RouteVector, Running
<1>2. BootInv' /\ \A q : Listed(q)' = Listed(q)
  BY <1>1, UpStays, Zenon
<1>3. driver.pc # "idle"
  BY <1>1
<1>4. PICK p, v, d : p = PinFor(driver.irq) /\ v = driver.vector /\ d = driver.dest
  BY Zenon
<1>5. /\ asked \in [Pin -> [on : BOOLEAN, to : Target \cup {Off}]]
      /\ WiredTo(driver.irq) = {p} /\ p \in Pin
      /\ \A q \in Pin : Listed(q) /\ q # p => Obeys(q)
      /\ low \in [Pin -> Entry] /\ high \in [Pin -> Dest \cup {0, 1}]
      /\ high[p] = d /\ v \in Vector \cup {0} /\ d \in Dest \cup {0}
  BY <1>1, <1>3, <1>4, UpFacts, Zenon DEF DriverInv, TableInv, Places
<1>6. /\ low' = [low EXCEPT ![p] = [vector |-> v, masked |-> FALSE]]
      /\ asked' = [q \in Pin |-> IF q \in {p} THEN [on |-> TRUE, to |-> [vector |-> v, dest |-> d]]
                                 ELSE asked[q]]
  BY <1>4, <1>5, Zenon DEF RouteVector
<1>7. /\ low'[p] = [vector |-> v, masked |-> FALSE]
      /\ asked'[p] = [on |-> TRUE, to |-> [vector |-> v, dest |-> d]]
      /\ \A q \in Pin : q # p => low'[q] = low[q] /\ asked'[q] = asked[q]
  BY <1>5, <1>6, Zenon
<1>8. Obeys(p)'
  <2>1. low'[p].vector = v /\ low'[p].masked = FALSE /\ asked'[p].on = TRUE
        /\ asked'[p].to = [vector |-> v, dest |-> d] /\ high'[p] = d /\ FALSE = ~TRUE
    <3>1. low'[p] = [vector |-> v, masked |-> FALSE]
      BY <1>7, Zenon
    <3>2. asked'[p] = [on |-> TRUE, to |-> [vector |-> v, dest |-> d]]
      BY <1>7, Zenon
    <3>3. low'[p].vector = v /\ low'[p].masked = FALSE
      BY <3>1, EntryFields, SMTT(60)
    <3>4. asked'[p].on = TRUE /\ asked'[p].to = [vector |-> v, dest |-> d]
      BY <3>2, SMTT(60)
    <3>5. high'[p] = d
      BY <1>1, <1>5, Zenon
    <3> QED
      BY <3>3, <3>4, <3>5, Zenon
  <2> QED
    BY <2>1, ZenonT(60) DEF Obeys, Sends
<1>9. asked' \in [Pin -> [on : BOOLEAN, to : Target \cup {Off}]]
  <2>1. [vector |-> v, dest |-> d] \in Target
    BY <1>5 DEF Target
  <2>2. asked'[p] \in [on : BOOLEAN, to : Target \cup {Off}]
    <3>1. \A x \in BOOLEAN, y \in Target : [on |-> x, to |-> y] \in [on : BOOLEAN, to : Target \cup {Off}]
      BY Zenon
    <3>2. TRUE \in BOOLEAN
      BY Zenon
    <3> QED
      BY <1>7, <2>1, <3>1, <3>2, Zenon
  <2>3. \A q \in Pin : asked'[q] \in [on : BOOLEAN, to : Target \cup {Off}]
    BY <1>5, <1>7, <2>2, Zenon
  <2> QED
    BY <1>6, <2>3, Zenon
<1>10. \A q \in Pin : Listed(q)' => Obeys(q)'
  BY <1>1, <1>2, <1>5, <1>7, <1>8, ObeysStays, Zenon
<1>11. driver'.pc = "idle"
  BY <1>1, ZenonT(60) DEF NoDriver
<1> QED
  BY <1>2, <1>9, <1>10, <1>11, Zenon DEF DriverInv

-----------------------------------------------------------------------------
(* Every step of the machine keeps the routes.                             *)

\* Before kernel_main has called anything the kernel knows of no table.
LEMMA InitRoute == Init => RouteInv
<1> SUFFICES ASSUME Init PROVE RouteInv
  BY Zenon
<1>1. /\ tables \in Tables /\ Empty /\ g_ioapics = << >> /\ NothingAsked
      /\ boot = [pc |-> "apic", i |-> 1]
  BY Zenon DEF Init, IoapicInit, Empty, NothingAsked
<1>2. boot.pc = "apic"
  BY <1>1
<1> QED
  BY <1>1, <1>2 DEF RouteInv, BootInv, DriverInv

\* The rest of the machine leaves them alone.
LEMMA RouteStays == RouteInv /\ UNCHANGED ioapicVars => RouteInv'
<1> SUFFICES ASSUME RouteInv, UNCHANGED ioapicVars PROVE RouteInv'
  BY Zenon
<1>1. /\ tables' = tables /\ info' = info /\ g_ioapics' = g_ioapics /\ low' = low /\ high' = high
      /\ boot' = boot /\ driver' = driver /\ asked' = asked /\ BootInv /\ DriverInv
  BY Zenon DEF ioapicVars, RouteInv
<1>2. CASE boot.pc = "up"
  <2>1. /\ BootInv' /\ \A irq : (Found(irq)' = Found(irq)) /\ PinFor(irq)' = PinFor(irq)
        /\ \A q : Listed(q)' = Listed(q)
    BY <1>1, <1>2, UpStays, Zenon
  <2>2. \A q : Obeys(q) => Obeys(q)'
    BY <1>1, ObeysStays, Zenon
  <2>3. DriverInv'
    BY <1>1, <1>2, <2>1, <2>2, Zenon DEF DriverInv
  <2> QED
    BY <2>1, <2>3, Zenon DEF RouteInv
<1>3. CASE boot.pc # "up"
  <2>1. DriverInv'
    BY <1>1, <1>3, Zenon DEF DriverInv
  <2>2. /\ Entries' = Entries /\ Madts' = Madts /\ (NothingAsked => NothingAsked') /\ (Empty => Empty')
        /\ ThisChip' = ThisChip
    BY <1>1, SameTable, Zenon DEF NothingAsked, Empty, ThisChip
  <2>3. /\ \A k : Read(k) => Read(k)'
        /\ Read(Len(Entries) + 1) => Read(Len(Entries) + 1)'
    BY <1>1, ReadStays, AllReadStays, Zenon
  <2>4. Added => Added'
    BY <1>1, <2>2, Zenon DEF Added
  <2>5. /\ \A j, n : ClearPins(j, n) => ClearPins(j, n)'
        /\ \A n : ClearChips(n) => ClearChips(n)'
    BY <1>1, Zenon DEF ClearChips, ClearPins, ClearPin
  <2>6. BootInv'
    BY <1>1, <1>3, <2>2, <2>3, <2>4, <2>5, Zenon DEF BootInv
  <2> QED
    BY <2>1, <2>6, Zenon DEF RouteInv
<1> QED
  BY <1>2, <1>3, Zenon

\* A step of the boot code before the machine is up.
LEMMA BootKeeps ==
  ASSUME BootInv', boot'.pc # "up" PROVE RouteInv'
  BY Zenon DEF RouteInv, DriverInv

\* Every step of the machine.
LEMMA StepRoute ==
  ASSUME MadtFits, TableInv, RouteInv, [Next]_vars
  PROVE  RouteInv'
<1>1. BootInv /\ DriverInv /\ IsBoot
  BY Zenon DEF RouteInv, TableInv, Places, IsBoot
<1>2. CASE UNCHANGED vars
  BY <1>2, RouteStays, Zenon DEF vars
<1>3. CASE BootSteps \/ ApicInit
  <2>1. BootInv'
    BY <1>1, <1>3, FindRoutes, ParseRoutes, InitRoutes, MaskRoutes, ClearRoutes, ApicRoutes, ZenonT(60) DEF BootSteps
  <2>2. boot'.pc # "up"
    BY <1>1, <1>3 DEF BootSteps, FindMadt, parse, init, MaskEntry, ClearDest, ApicInit, BootTo, BootOn, BootAt, IsBoot
  <2> QED
    BY <2>1, <2>2, BootKeeps, Zenon
<1>4. CASE timer_init
  BY <1>1, <1>4, UpRoutes, Zenon DEF RouteInv
<1>5. CASE DriverSteps
  <2>1. BootInv' /\ DriverInv'
    BY <1>1, <1>5, RouteObeys, RouteWritesObey, VectorObeys, MaskObeys, Zenon DEF DriverSteps
  <2> QED
    BY <2>1, Zenon DEF RouteInv
<1>6. CASE UNCHANGED ioapicVars
  BY <1>6, RouteStays, Zenon
<1> QED
  BY <1>2, <1>3, <1>4, <1>5, <1>6, MachineSteps, Zenon DEF Next

\* On every board and for every MADT that fits the arrays of include/apic/madt.h: from
\* the time kernel_main says that all interrupts are masked, a pin of a listed chip
\* sends what a driver asked last through ioapic.h for the interrupt wired to it, and
\* nothing before.
THEOREM RoutesAreExact == MadtFits => (Spec => []RoutesExact)
<1> SUFFICES ASSUME MadtFits PROVE Spec => []RoutesExact
  BY Zenon
<1>1. Init => TableInv /\ RouteInv
  BY InitInv, InitRoute, Zenon
<1>2. TableInv /\ RouteInv /\ [Next]_vars => TableInv' /\ RouteInv'
  BY StepInv, StepRoute, Zenon DEF Kept
<1>3. RouteInv => RoutesExact
  <2> SUFFICES ASSUME RouteInv, Running, driver.pc = "idle", NEW p \in Pin, Listed(p)
               PROVE  Live[p] = IF asked[p].on THEN asked[p].to ELSE Off
    BY Zenon DEF RoutesExact, Listed, Entries
  <2>1. Obeys(p)
    BY Zenon DEF RouteInv, DriverInv, Running
  <2>2. Live[p] = IF low[p].masked THEN Off ELSE Sends(p)
    BY Zenon DEF Live
  <2>3. CASE asked[p].on
    BY <2>1, <2>2, <2>3, Zenon DEF Obeys
  <2>4. CASE ~asked[p].on
    BY <2>1, <2>2, <2>4, Zenon DEF Obeys
  <2> QED
    BY <2>3, <2>4, Zenon
<1> QED
  BY <1>1, <1>2, <1>3, PTL DEF Spec
=============================================================================
