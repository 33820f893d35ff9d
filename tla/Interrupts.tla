----------------------------- MODULE Interrupts -----------------------------
(***************************************************************************)
(* The boot processor taking interrupts and exceptions: the gates, stubs,  *)
(* entry code and handlers of src/idt.cpp, the local APIC of src/apic.cpp  *)
(* with its timer, the redirection entries of Ioapic, and the report that  *)
(* src/kernelpanic.cpp and kallsyms/kallsyms.cpp make of an exception.     *)
(*                                                                         *)
(* The processor (what it pushes, when it takes an interrupt) and the      *)
(* local APIC's request and service bits are external.  The code that is   *)
(* interrupted is any code: it turns interrupts on and off, may empty the  *)
(* keyboard controller by polling, and may fault.  The scheduler returns   *)
(* to the interrupted task, which SmpBoot shows of it; the keyboard        *)
(* decoder is Keyboard's subject.                                          *)
(***************************************************************************)
EXTENDS Ioapic, FiniteSetsExt

CONSTANTS
  Elapsed, MAX_COUNT, FALLBACK, APIC_TIMER_TICK,  \* what calibration may measure, and its constants
  Faults,        \* the exceptions the interrupted code may raise
  KernelBase,    \* the lowest kernel address
  Stacks,        \* vector (or -1, at boot) -> the code that may be stopped: [rip, rbp, mem],
                 \* mem[rbp] = [ret, next]; an address outside mem is not mapped
  PanicRip, HandlerSite, EntrySite,  \* the places of getRip in kernel_panic, of the call of
                 \* kernel_panic in exceptionHandler, and of exceptionHandler's in isr_entry
  PanicFrames,   \* the addresses of the frames that panics push, two for each
  MaxTrace,      \* bound: lines of a trace
  kallsyms_syms  \* the sorted table of symbol addresses

\* The frames of a panic lie in the kernel, aligned, and over no frame of the code it stops.
ASSUME FramesAssumption ==
  \A i \in DOMAIN PanicFrames :
    /\ PanicFrames[i] >= KernelBase /\ PanicFrames[i] % 8 = 0
    /\ \A v \in DOMAIN Stacks : \A code \in Stacks[v] : PanicFrames[i] \notin DOMAIN code.mem
    /\ \A j \in DOMAIN PanicFrames : PanicFrames[i] = PanicFrames[j] => i = j

APIC_TIMER_VECTOR == 32
PS2_KEYBOARD_VECTOR == 33
SPURIOUS_VECTOR == 255
BspId == 0

VARIABLES
  apic_on,    \* the local APIC is enabled and mapped
  timer_ticks_per_ms, timer_period_ticks,
  irr, isr,   \* interrupts requested of the processor, and in service
  obf,        \* the keyboard controller holds a byte
  pc,         \* "run", "irq", "return", "trace" or "halted"
  cpu,        \* [regs, rip, if]
  stack,      \* the words of the interrupt frame, the last pushed first
  was,        \* history: the processor as it was interrupted
  raised,     \* history: the exception taken, [vector, err, chain]
  report,     \* what the panic printed: [int_no, err, trace]
  unwinding   \* the panic: its loop's rbp, its own, the frames, and how many panics there were

panicVars == << raised, report, unwinding >>
cpuVars == << pc, cpu, stack, was, panicVars >>
lapicVars == << apic_on, timer_ticks_per_ms, timer_period_ticks, irr, isr, obf >>
vars == << ioapicVars, lapicVars, cpuVars >>

\* Mutant: two of the registers are popped in the order they were pushed.
MutPopped == << "r15", "r14", "r13", "r12", "r11", "r10", "r9", "r8", "rdi", "rbp", "rsi", "rdx", "rcx", "rbx", "rax" >>

\* The registers in the order they are pushed, and in the order they are popped.
Pushed == << "rax", "rbx", "rcx", "rdx", "rsi", "rdi", "rbp", "r8", "r9", "r10", "r11", "r12", "r13", "r14", "r15" >>
Popped == << "r15", "r14", "r13", "r12", "r11", "r10", "r9", "r8", "rbp", "rdi", "rsi", "rdx", "rcx", "rbx", "rax" >>
Program == [r \in Range(Pushed) |-> << r, "program" >>]
Clobbered == [r \in Range(Pushed) |-> << r, "handler" >>]
Nothing == [int_no |-> -1, err |-> -1, trace |-> << >>]

Init ==
  /\ IoapicInit
  /\ apic_on = FALSE /\ timer_ticks_per_ms = 0 /\ timer_period_ticks = 0
  /\ irr = {} /\ isr = {} /\ obf = FALSE
  /\ pc = "run"
  /\ cpu = [regs |-> Program, rip |-> "program", if |-> FALSE] /\ was = cpu
  /\ stack = << >>
  /\ raised = [vector |-> -1, err |-> -1, chain |-> << >>]
  /\ report = Nothing
  /\ unwinding = [rbp |-> 0, own |-> 0, mem |-> << >>, panics |-> 0]

-----------------------------------------------------------------------------
(* The gates.                                                              *)

idtSetGate(idt, num, handler) == [idt EXCEPT ![num] = handler]
set_irqHandler(idt, vector, handler) ==
  IF vector < 32 THEN idt ELSE idtSetGate(idt, vector, handler)

\* The table: generic gates first, then the exceptions with stubs of their own, then
\* the two interrupts.  Every other vector has no gate.
init_bsp ==
  LET zero == [v \in 0 .. 255 |-> "none"]
      generic == [v \in 0 .. 255 |-> IF v <= 32 THEN "generic" ELSE zero[v]]
      own == [v \in 0 .. 255 |-> IF v \in {0, 6, 8, 9, 13, 14} THEN "own" ELSE generic[v]]
  IN  set_irqHandler(set_irqHandler(own, APIC_TIMER_VECTOR, "irq"), PS2_KEYBOARD_VECTOR, "irq")

\* What the processor pushes an error code for.
HasErrorCode(vector) == vector \in {8, 10, 11, 12, 13, 14, 17, 21, 29, 30}

\* The five words of an interrupt frame.
CpuFrame == << cpu.rip, "cs", cpu.if, "rsp", "ss" >>

irq_stub(vector, frame) == << vector, 0 >> \o frame

\* What the stubs push on the words of the processor: a zero where the processor
\* pushed no error code, and the vector.  The generic one always pushes the zero.
Stub(vector, frame) ==
  CASE init_bsp[vector] = "generic" -> << 255, 0 >> \o frame
    [] init_bsp[vector] = "irq" -> irq_stub(vector, frame)
    [] vector \in {13, 14} -> << vector >> \o frame
    [] OTHER -> << vector, 0 >> \o frame

\* The register pushed last lies on top.
FromTop(i) == Len(Pushed) + 1 - i

PushAll(frame) == [i \in DOMAIN Pushed |-> cpu.regs[Pushed[FromTop(i)]]] \o frame

\* What each register is given by the pops.
PopAll(frame) == [r \in Range(Popped) |-> frame[CHOOSE i \in DOMAIN Popped : Popped[i] = r]]

Above(frame, n) == SubSeq(frame, Len(Pushed) + n + 1, Len(frame))

-----------------------------------------------------------------------------
(* Panics.                                                                 *)

\* Mutant: an address between two symbols is given the one after it.
MutNextSymbol(addr) ==
  LET above == { i \in DOMAIN kallsyms_syms : kallsyms_syms[i] >= addr }
  IN  IF above = {} THEN 0 ELSE CHOOSE i \in above : \A j \in above : i <= j

\* kallsyms_lookup: the place of the symbol in the table, or 0 for none.
kallsyms_lookup(addr) ==
  LET search[l \in 0 .. Len(kallsyms_syms), r \in 0 .. Len(kallsyms_syms)] ==
        IF l < r
        THEN LET mid == l + (r - l) \div 2
                 val == kallsyms_syms[mid + 1]
             IN  IF val = addr THEN mid + 1
                 ELSE IF val < addr THEN search[mid + 1, r] ELSE search[l, mid]
        ELSE l
  IN  search[0, Len(kallsyms_syms)]

printSymbol(addr) ==
  LET i == kallsyms_lookup(addr)
  IN  IF i = 0 THEN << addr, "unknown" >> ELSE << addr, kallsyms_syms[i], addr - kallsyms_syms[i] >>

\* A call pushes where it returns to and the caller's rbp, which is then its own frame.
Call(code, ret, at) ==
  [rbp |-> at, mem |-> [a \in DOMAIN code.mem \cup {at} |->
                          IF a = at THEN [ret |-> ret, next |-> code.rbp] ELSE code.mem[a]]]

HandlerAt == PanicFrames[2 * unwinding.panics + 1]
PanicAt == PanicFrames[2 * unwinding.panics + 2]

\* The panic starts its trace at its own rip and rbp.
kernel_panic(int_no, err, own) ==
  /\ report' = [int_no |-> int_no, err |-> err, trace |-> << printSymbol(PanicRip) >>]
  /\ unwinding' = [rbp |-> own.rbp, own |-> own.rbp, mem |-> own.mem, panics |-> unwinding.panics + 1]
  /\ pc' = "trace"
  /\ cpu' = [cpu EXCEPT !.if = FALSE]

\* A panic of the boot code or of route_irq, without an exception.
BootPanic ==
  /\ BootAt("panic") /\ pc = "run"
  /\ \E code \in Stacks[-1] : /\ kernel_panic(-1, -1, Call(code, code.rip, PanicAt))
                              /\ raised' = [vector |-> -1, err |-> -1, chain |-> code]
  /\ UNCHANGED << ioapicVars, lapicVars, stack, was >>

\* The frame as the stub left it: the vector and error code are words of the stack.
exceptionHandler(frame, own) ==
  LET int_no == frame[Len(Pushed) + 1]
      error_code == frame[Len(Pushed) + 2]
  IN  kernel_panic(int_no, IF HasErrorCode(int_no) THEN error_code ELSE -1,
                   Call(own, HandlerSite, PanicAt))

\* An exception reaches exceptionHandler, which does not return.  isr_entry leaves rbp
\* to the code that is stopped.  The stub of the double fault halts without a word.
Exception(vector, err, code) ==
  LET pushed == IF HasErrorCode(vector) THEN << err >> \o CpuFrame ELSE CpuFrame
      frame == PushAll(Stub(vector, pushed))
  IN  /\ stack' = frame \o stack
      /\ raised' = [vector |-> vector, err |-> err, chain |-> code]
      /\ IF vector = 8
         THEN pc' = "halted" /\ cpu' = [cpu EXCEPT !.if = FALSE] /\ UNCHANGED << report, unwinding >>
         ELSE exceptionHandler(frame, Call(code, EntrySite, HandlerAt))

\* The interrupted code or a handler faults; so does parse without the loader's answer.
Fault(vector) ==
  /\ pc \in {"run", "irq"} /\ Running
  /\ \E code \in Stacks[vector] : Exception(vector, vector + 1, code)
  /\ UNCHANGED << ioapicVars, lapicVars, was >>

NullMadt ==
  /\ BootAt("fault") /\ pc = "run"
  /\ \E code \in Stacks[-1] : Exception(14, 0, code)
  /\ UNCHANGED << ioapicVars, lapicVars, was >>

\* The loop of printStackTrace follows a frame of the kernel's half, aligned, ...
Follows(rbp) == rbp # 0 /\ rbp >= KernelBase /\ rbp % 8 = 0

\* ... prints where it returns to and goes on to the next, which may be one it was at, ...
UnwindFrame ==
  /\ pc = "trace" /\ Follows(unwinding.rbp) /\ unwinding.rbp \in DOMAIN unwinding.mem
  /\ Len(report.trace) < MaxTrace
  /\ LET f == unwinding.mem[unwinding.rbp]
     IN  /\ f.ret # 0
         /\ report' = [report EXCEPT !.trace = Append(@, printSymbol(f.ret))]
         /\ unwinding' = [unwinding EXCEPT !.rbp = f.next]
  /\ UNCHANGED << ioapicVars, lapicVars, pc, cpu, stack, was, raised >>

\* ... and ends at the first it does not follow or that returns to zero; the panic halts.
UnwindEnd ==
  /\ pc = "trace"
  /\ Follows(unwinding.rbp) => /\ unwinding.rbp \in DOMAIN unwinding.mem
                               /\ unwinding.mem[unwinding.rbp].ret = 0
  /\ pc' = "halted"
  /\ UNCHANGED << ioapicVars, lapicVars, cpu, stack, was, panicVars >>

\* A frame that is not mapped is a page fault in the panic, and panics again.
UnwindFault ==
  /\ pc = "trace" /\ Follows(unwinding.rbp) /\ unwinding.rbp \notin DOMAIN unwinding.mem
  /\ 2 * unwinding.panics + 2 <= Len(PanicFrames)
  /\ Exception(14, 0, [rip |-> PanicRip, rbp |-> unwinding.own, mem |-> unwinding.mem])
  /\ UNCHANGED << ioapicVars, lapicVars, was >>

-----------------------------------------------------------------------------
(* The local APIC.                                                         *)

\* A processor that has panicked takes no more interrupts.
Panicked == pc \in {"trace", "halted"}

\* apic::init.  A processor without one panics.
ApicInit ==
  /\ BootAt("apic") /\ pc = "run"
  /\ \E has \in BOOLEAN : /\ apic_on' = has
                          /\ BootTo(IF has THEN "find" ELSE "panic")
  /\ UNCHANGED << tables, info, g_ioapics, chipVars, driver, asked, cpuVars >>
  /\ UNCHANGED << timer_ticks_per_ms, timer_period_ticks, irr, isr, obf >>

calibrate_timer(elapsed) ==
  IF elapsed = 0 \/ elapsed = MAX_COUNT THEN FALLBACK ELSE elapsed \div 10

\* The timer is calibrated and started, and kernel_main turns interrupts on.  A count
\* of zero leaves the timer stopped.
timer_init ==
  /\ BootAt("masked")
  /\ \E elapsed \in Elapsed : timer_ticks_per_ms' = calibrate_timer(elapsed)
  /\ timer_period_ticks' = timer_ticks_per_ms' * APIC_TIMER_TICK
  /\ BootTo("up")
  /\ cpu' = [cpu EXCEPT !.if = TRUE] /\ was' = cpu'
  /\ UNCHANGED << tables, info, g_ioapics, chipVars, driver, asked >>
  /\ UNCHANGED << apic_on, irr, isr, obf, pc, stack, panicVars >>

TimerFires ==
  /\ Running /\ timer_period_ticks > 0 /\ ~Panicked
  /\ irr' = irr \cup {APIC_TIMER_VECTOR}
  /\ UNCHANGED << ioapicVars, apic_on, timer_ticks_per_ms, timer_period_ticks, isr, obf, cpuVars >>

\* A device raises the line of an ISA interrupt; the keyboard's does with a byte.
DeviceRaises(irq) ==
  LET sent == { Live[p] : p \in { q \in WiredTo(irq) : Live[q] # Off } }
  IN  /\ Running /\ ~Panicked
      /\ irq = 1 => ~obf
      /\ obf' = (obf \/ irq = 1)
      /\ irr' = irr \cup { t.vector : t \in { u \in sent : u.dest = BspId } }
      /\ UNCHANGED << ioapicVars, apic_on, timer_ticks_per_ms, timer_period_ticks, isr, cpuVars >>

\* send_eoi ends the interrupt served; before apic::init it does nothing.
send_eoi == isr' = IF apic_on /\ isr # {} THEN isr \ {Max(isr)} ELSE isr

-----------------------------------------------------------------------------
(* Interrupts.                                                             *)

\* The processor takes the highest interrupt requested, if none of its class is in
\* service.  A vector without a gate is a general protection fault.
Take(vector) ==
  IF init_bsp[vector] = "none"
  THEN (\E code \in Stacks[13] : Exception(13, vector * 8 + 3, code)) /\ UNCHANGED was
  ELSE /\ stack' = PushAll(Stub(vector, CpuFrame)) \o stack
       /\ cpu' = [cpu EXCEPT !.if = FALSE]
       /\ was' = cpu
       /\ pc' = "irq"
       /\ UNCHANGED panicVars

Interrupt(vector) ==
  /\ Running /\ pc = "run" /\ cpu.if
  /\ vector \in irr /\ vector = Max(irr)
  /\ \A v \in isr : vector \div 16 > v \div 16
  /\ irr' = irr \ {vector} /\ isr' = isr \cup {vector}
  /\ Take(vector)
  /\ UNCHANGED << ioapicVars, apic_on, timer_ticks_per_ms, timer_period_ticks, obf >>

\* The local APIC's own spurious interrupt, which is not in service.
Spurious ==
  /\ Running /\ pc = "run" /\ cpu.if
  /\ Take(SPURIOUS_VECTOR)
  /\ UNCHANGED << ioapicVars, lapicVars >>

\* Mutant: nothing was read, so nothing is ended.
MutNoEoiIfEmpty ==
  /\ pc = "irq"
  /\ LET vector == stack[Len(Pushed) + 1]
     IN  IF vector = PS2_KEYBOARD_VECTOR
         THEN obf' = FALSE /\ IF obf THEN send_eoi ELSE UNCHANGED isr
         ELSE send_eoi /\ UNCHANGED obf
  /\ pc' = "return"
  /\ cpu' = [cpu EXCEPT !.regs = Clobbered]
  /\ UNCHANGED << ioapicVars, apic_on, timer_ticks_per_ms, timer_period_ticks, irr, stack, was, panicVars >>

\* The handler: the tick is counted, or the byte read if the controller still holds
\* one; every path ends the interrupt.  Then schedule returns.
irqHandler ==
  /\ pc = "irq"
  /\ obf' = (obf /\ stack[Len(Pushed) + 1] # PS2_KEYBOARD_VECTOR)
  /\ send_eoi
  /\ pc' = "return"
  /\ cpu' = [cpu EXCEPT !.regs = Clobbered]
  /\ UNCHANGED << ioapicVars, apic_on, timer_ticks_per_ms, timer_period_ticks, irr, stack, was, panicVars >>

\* The registers are popped, the vector and the error code dropped, and iretq takes
\* the rest.
irq_entry ==
  /\ pc = "return"
  /\ LET rest == Above(stack, 2)
     IN  /\ cpu' = [regs |-> PopAll(stack), rip |-> rest[1], if |-> rest[3]]
         /\ stack' = SubSeq(rest, Len(CpuFrame) + 1, Len(rest))
  /\ pc' = "run"
  /\ UNCHANGED << ioapicVars, lapicVars, was, panicVars >>

\* The interrupted code.
Masks ==
  /\ Running /\ pc = "run"
  /\ cpu' = [cpu EXCEPT !.if = ~@] /\ was' = cpu'
  /\ UNCHANGED << ioapicVars, lapicVars, pc, stack, panicVars >>

Polls ==
  /\ Running /\ pc = "run" /\ obf
  /\ obf' = FALSE
  /\ UNCHANGED << ioapicVars, apic_on, timer_ticks_per_ms, timer_period_ticks, irr, isr, cpuVars >>

Next ==
  \/ ApicInit \/ timer_init \/ BootPanic \/ NullMadt \/ UnwindFrame \/ UnwindEnd \/ UnwindFault
  \/ pc = "run" /\ (BootSteps \/ DriverSteps) /\ UNCHANGED << lapicVars, cpuVars >>
  \/ TimerFires \/ Spurious \/ irqHandler \/ irq_entry \/ Masks \/ Polls
  \/ \E irq \in IsaIrq : DeviceRaises(irq)
  \/ \E vector \in Vector \cup {APIC_TIMER_VECTOR} : Interrupt(vector)
  \/ \E vector \in Faults : Fault(vector)

Spec == Init /\ [][Next]_vars

\* The processor takes a request when it can, again and again if need be, and runs
\* what it has entered to its end.
LiveSpec ==
  /\ Spec
  /\ \A vector \in Vector \cup {APIC_TIMER_VECTOR} : SF_vars(Interrupt(vector))
  /\ WF_vars(irqHandler) /\ WF_vars(irq_entry) /\ WF_vars(BootPanic)

-----------------------------------------------------------------------------
(* Properties.                                                             *)

\* What the stubs and the entry code push and pop leaves the interrupted code as it
\* was, with its registers, its place, its interrupt flag and nothing on the stack,
\* whatever the handler did to the registers.
FrameRestored == pc = "run" => cpu = was /\ stack = << >>

\* As long as the interrupted code lets interrupts in again and again, a key's
\* interrupt is taken, and a timer's too unless keys never stop coming: every path of
\* irqHandler ends its interrupt, the one that finds the controller empty as well.
IrqsServed ==
  []<>(pc = "run" /\ cpu.if) =>
    /\ []<>(PS2_KEYBOARD_VECTOR \notin irr)
    /\ []<>(APIC_TIMER_VECTOR \notin irr) \/ []<>(PS2_KEYBOARD_VECTOR \in irr)

\* The symbol at or before an address: the reference.
SymbolOf(addr) ==
  LET below == { a \in Range(kallsyms_syms) : a <= addr }
  IN  IF below = {} THEN << addr, "unknown" >> ELSE << addr, Max(below), addr - Max(below) >>

\* The frames a trace shows, from the innermost outwards.
Readable(code, rbp) ==
  rbp >= KernelBase /\ rbp % 8 = 0 /\ rbp \in DOMAIN code.mem /\ code.mem[rbp].ret # 0

\* A panic on an exception that has a stub of its own names that exception, with its
\* error code if it has one.  Its trace is kernel_panic, exceptionHandler and isr_entry
\* (kernel_panic and its caller without an exception), then the callers of the code that
\* was stopped, each with the function its address is in and that function's offset; it
\* halts only where that code's frames end, however many panics came before it.  The
\* place of the exception itself is not in it.
PanicExact ==
  report # Nothing =>
    /\ LET v == raised.vector
       IN  v \in {0, 6, 9, 13, 14} =>
             report.int_no = v /\ report.err = IF HasErrorCode(v) THEN raised.err ELSE -1
    /\ LET code == raised.chain
           inner == IF raised.vector = -1 THEN << PanicRip, code.rip >>
                    ELSE << PanicRip, HandlerSite, EntrySite >>
           n == Len(report.trace) - Len(inner)
           frame[i \in 0 .. n] == IF i = 0 THEN code.rbp ELSE code.mem[frame[i - 1]].next
       IN  /\ \A i \in DOMAIN report.trace \cap DOMAIN inner : report.trace[i] = SymbolOf(inner[i])
           /\ \A i \in 1 .. n : /\ Readable(code, frame[i - 1])
                               /\ report.trace[Len(inner) + i] = SymbolOf(code.mem[frame[i - 1]].ret)
           /\ pc = "halted" => n >= 0 /\ ~Readable(code, frame[n])
=============================================================================
