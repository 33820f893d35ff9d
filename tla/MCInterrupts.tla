---------------------------- MODULE MCInterrupts ----------------------------
(***************************************************************************)
(* Two IOAPICs, of two entries and of one.  The MADTs move the keyboard's  *)
(* interrupt to another pin, move it to the second chip, name it twice, or *)
(* fill the list of overrides; or there is no MADT, no answer of the       *)
(* loader, or no IOAPIC.                                                   *)
(***************************************************************************)
EXTENDS Interrupts, TLC

Io(chip, gsi_base) == [type |-> "ioapic", chip |-> chip, gsi_base |-> gsi_base]
Iso(irq, gsi) == [type |-> "iso", irq |-> irq, gsi |-> gsi]
Lapic == [type |-> "lapic"]
Apic(entries) == [sig |-> "APIC", entries |-> entries]
Other == [sig |-> "FACP", entries |-> << >>]

MCChips == ("a" :> 2) @@ ("b" :> 1)
MCTables == { << Other, Apic(<< Lapic, Io("a", 0), Io("b", 2), Iso(7, 7), Iso(1, 2), Lapic >>) >>,
              << Apic(<< Iso(1, 0), Iso(1, 2), Io("b", 2), Io("a", 0) >>), Apic(<< >>) >>,
              << Apic(<< Io("b", 2), Lapic, Io("a", 0), Iso(0, 3) >>) >>,
              << Apic(<< Lapic >>) >>,
              << Other >>,
              << [sig |-> "none"] >> }

\* The code that is stopped.  At boot its frames end in one below the kernel, at an odd
\* one, or at a return address of zero, lead to one that is not mapped, or go round in a
\* circle; later they are short.
Frame(ret, next) == [ret |-> ret, next |-> next]
Code(rip, rbp, mem) == [rip |-> rip, rbp |-> rbp, mem |-> mem]
MCStacks ==
  LET boot_code == { Code(112, 64, (64 :> Frame(101, 80)) @@ (80 :> Frame(110, 16))),
                     Code(99, 64, (64 :> Frame(120, 80)) @@ (80 :> Frame(99, 97))),
                     Code(100, 72, (72 :> Frame(119, 88)) @@ (88 :> Frame(0, 64)) @@ (64 :> Frame(120, 0))),
                     Code(121, 64, 64 :> Frame(100, 96)),
                     Code(130, 64, (64 :> Frame(102, 72)) @@ (72 :> Frame(121, 64))) }
      user == { Code(16, 8, 64 :> Frame(101, 0)) }
      kernel == { Code(112, 72, (72 :> Frame(111, 64)) @@ (64 :> Frame(0, 64))) }
  IN  [v \in -1 .. 31 |-> CASE v = -1 -> boot_code [] v = 14 -> kernel [] OTHER -> user]
MCPanicFrames == << 136, 128, 120, 112 >>
MCCalls == { << 1, 0, 33 >>, << 1, 1, 40 >>, << 0, 0, 40 >> }
MCSyms == << 100, 110, 120 >>
=============================================================================
