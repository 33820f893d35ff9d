------------------------------ MODULE SmpBoot ------------------------------
(***************************************************************************)
(* Starting the other processors and the scheduler: kernel_main from the   *)
(* masking of interrupts to the first program, ap_entry and ap_main,       *)
(* scheduler::init_all_cpus, create_task and schedule, and the timer       *)
(* interrupt that calls it.                                                *)
(*                                                                         *)
(* The processors run concurrently.  The boot loader (external) keeps the  *)
(* others parked until their goto_address is written.  A timer, once       *)
(* armed, may raise its interrupt at any time; the interrupt stays pending *)
(* while the processor masks interrupts.  Stores become visible in program *)
(* order, as on x86.                                                       *)
(***************************************************************************)
EXTENDS Naturals, Sequences, FiniteSets

CONSTANTS
  CPUs,             \* the processors of the MP response, in its order: a sequence
  BSP,              \* the one that boots
  processor_id,     \* the identity each has in the MP response
  AP_TIMEOUT,       \* turns of the waiting loop before it gives up
  StackMemory       \* stacks and tasks the slab allocator can still supply

CPU == { CPUs[i] : i \in DOMAIN CPUs }
AP == CPU \ {BSP}

\* The entry of per_cpu_data a processor uses: init_bsp takes 0, whatever the
\* identity of the BSP; the others theirs.
slot(c) == IF c = BSP THEN 0 ELSE processor_id[c]
Slots == { slot(c) : c \in CPU }

\* No other processor has the identity 0, and no two have the same.
ASSUME CpuAssumption ==
  /\ CPUs \in Seq(CPU) /\ BSP \in CPU
  /\ \A c \in CPU : slot(c) \in Nat
  /\ \A c, d \in CPU : slot(c) = slot(d) => c = d
  /\ "none" \notin CPU
  /\ \A i, j \in DOMAIN CPUs : CPUs[i] = CPUs[j] => i = j
  /\ AP_TIMEOUT \in Nat \ {0} /\ StackMemory \in Nat

NoTask == 0
NoStack == "none"

VARIABLES
  pc,               \* where each processor is
  i,                \* loop variable of kernel_main and of init_all_cpus
  expected_aps,
  timeout,          \* AP_TIMEOUT, counted down
  memory,           \* allocations the slab can still serve
  descriptors,      \* per_cpu_data of gdt.cpp: the stack written to the TSS
  extra_argument,   \* the stack top passed to a processor
  goto_address,     \* whether a processor has been released
  stack,            \* the stack a processor runs on
  ap_online_count,
  scheduler_ready,
  initialized,
  task_list,        \* the tasks from task_list_head on; a task is a number
  state,            \* their TaskState
  saved,            \* the tasks whose context switch_context has ever saved
  current_task,     \* scheduler::per_cpu_data
  interrupts,       \* whether each processor takes interrupts (RFLAGS.IF)
  timer             \* "off", "armed", "pending"

boot == << i, expected_aps, timeout, memory >>
startup == << descriptors, extra_argument, goto_address, stack, ap_online_count >>
sched == << initialized, task_list, state, saved, current_task >>
vars == << pc, i, expected_aps, timeout, memory, descriptors, extra_argument, goto_address,
           stack, ap_online_count, scheduler_ready, initialized, task_list, state, saved,
           current_task, interrupts, timer >>

Tasks == 1 .. Len(CPUs)

\* At the cli of kernel_main: the BSP has its descriptors and its stack.
Init ==
  /\ pc = [c \in CPU |-> IF c = BSP THEN "timer_init" ELSE "parked"]
  /\ i = 1 /\ expected_aps = 0 /\ timeout = AP_TIMEOUT
  /\ memory \in 0 .. StackMemory
  /\ descriptors = [k \in Slots |-> IF k = 0 THEN BSP ELSE NoStack]
  /\ extra_argument = [c \in CPU |-> NoStack]
  /\ goto_address = [c \in CPU |-> FALSE]
  /\ stack = [c \in CPU |-> IF c = BSP THEN BSP ELSE NoStack]
  /\ ap_online_count = 0
  /\ scheduler_ready = FALSE /\ initialized = FALSE
  /\ task_list = << >> /\ state = [t \in Tasks |-> "none"] /\ saved = {}
  /\ current_task = [c \in CPU |-> NoTask]
  /\ interrupts = [c \in CPU |-> FALSE]
  /\ timer = [c \in CPU |-> "off"]

Goes(c, from, to) == pc[c] = from /\ pc' = [pc EXCEPT ![c] = to]

-----------------------------------------------------------------------------
(* kernel_main.                                                            *)

\* apic::timer_init; then, with one processor, smp_skipping.
timer_init ==
  /\ Goes(BSP, "timer_init", IF Len(CPUs) <= 1 THEN "init_all_cpus" ELSE "start")
  /\ timer' = [timer EXCEPT ![BSP] = "armed"]
  /\ UNCHANGED << boot, startup, scheduler_ready, sched, interrupts >>

\* The loop over the processors, up to the stack: the BSP is passed over.
StartNext ==
  /\ pc[BSP] = "start"
  /\ i <= Len(CPUs)
  /\ IF CPUs[i] = BSP
     THEN i' = i + 1 /\ UNCHANGED << pc, memory >>
     ELSE IF memory = 0
     THEN pc' = [pc EXCEPT ![BSP] = "panic"] /\ UNCHANGED << i, memory >>
     ELSE pc' = [pc EXCEPT ![BSP] = "setup"] /\ memory' = memory - 1 /\ UNCHANGED i
  /\ UNCHANGED << expected_aps, timeout, startup, scheduler_ready, sched, interrupts, timer >>

\* gdt::setup_descriptors for the processor to be started.
setup_descriptors ==
  /\ Goes(BSP, "setup", "pass")
  /\ descriptors' = [descriptors EXCEPT ![slot(CPUs[i])] = CPUs[i]]
  /\ UNCHANGED << boot, extra_argument, goto_address, stack, ap_online_count, scheduler_ready,
                  sched, interrupts, timer >>

\* Mutant: the processor is released before its argument is written.
MutReleaseFirst ==
  /\ Goes(BSP, "pass", "release")
  /\ goto_address' = [goto_address EXCEPT ![CPUs[i]] = TRUE]
  /\ UNCHANGED << boot, descriptors, extra_argument, stack, ap_online_count, scheduler_ready,
                  sched, interrupts, timer >>

PassArgument ==
  /\ Goes(BSP, "pass", "release")
  /\ extra_argument' = [extra_argument EXCEPT ![CPUs[i]] = CPUs[i]]
  /\ UNCHANGED << boot, descriptors, goto_address, stack, ap_online_count, scheduler_ready,
                  sched, interrupts, timer >>

Release ==
  /\ Goes(BSP, "release", "start")
  /\ goto_address' = [goto_address EXCEPT ![CPUs[i]] = TRUE]
  /\ expected_aps' = expected_aps + 1
  /\ i' = i + 1
  /\ UNCHANGED << timeout, memory, descriptors, extra_argument, stack, ap_online_count,
                  scheduler_ready, sched, interrupts, timer >>

StartDone ==
  /\ i > Len(CPUs)
  /\ Goes(BSP, "start", "wait")
  /\ i' = 1
  /\ UNCHANGED << expected_aps, timeout, memory, startup, scheduler_ready, sched, interrupts, timer >>

\* One turn of the waiting loop.
WaitOnline ==
  /\ pc[BSP] = "wait"
  /\ IF ap_online_count >= expected_aps
     THEN pc' = [pc EXCEPT ![BSP] = "init_all_cpus"] /\ UNCHANGED timeout
     ELSE /\ timeout' = timeout - 1
          /\ pc' = [pc EXCEPT ![BSP] = IF timeout = 1 THEN "panic" ELSE "wait"]
  /\ UNCHANGED << i, expected_aps, memory, startup, scheduler_ready, sched, interrupts, timer >>

-----------------------------------------------------------------------------
(* scheduler::init_all_cpus.                                               *)

\* create_task: a Task and a stack, or nothing; the task is READY and in the list.
create_task ==
  /\ pc[BSP] = "init_all_cpus"
  /\ i <= Len(CPUs)
  /\ initialized' = TRUE
  /\ IF memory < 2
     THEN pc' = [pc EXCEPT ![BSP] = "panic"] /\ UNCHANGED << memory, task_list, state >>
     ELSE /\ pc' = [pc EXCEPT ![BSP] = "assign"]
          /\ memory' = memory - 2
          /\ task_list' = << i >> \o task_list
          /\ state' = [state EXCEPT ![i] = "READY"]
  /\ UNCHANGED << i, expected_aps, timeout, startup, scheduler_ready, saved, current_task,
                  interrupts, timer >>

\* Mutant: the idle task is left as create_task made it.
MutStaysReady ==
  /\ Goes(BSP, "assign", "init_all_cpus")
  /\ current_task' = [current_task EXCEPT ![CPUs[i]] = i]
  /\ i' = i + 1
  /\ UNCHANGED << expected_aps, timeout, memory, startup, scheduler_ready, initialized,
                  task_list, state, saved, interrupts, timer >>

AssignTask ==
  /\ Goes(BSP, "assign", "init_all_cpus")
  /\ state' = [state EXCEPT ![i] = "RUNNING"]
  /\ current_task' = [current_task EXCEPT ![CPUs[i]] = i]
  /\ i' = i + 1
  /\ UNCHANGED << expected_aps, timeout, memory, startup, scheduler_ready, initialized,
                  task_list, saved, interrupts, timer >>

\* Mutant: the others are never told.
MutNotPublished ==
  /\ i > Len(CPUs)
  /\ Goes(BSP, "init_all_cpus", "sti")
  /\ UNCHANGED << boot, startup, scheduler_ready, sched, interrupts, timer >>

PublishReady ==
  /\ i > Len(CPUs)
  /\ Goes(BSP, "init_all_cpus", "sti")
  /\ scheduler_ready' = TRUE
  /\ UNCHANGED << boot, startup, sched, interrupts, timer >>

\* From sti on the BSP runs init_fs and the first program, open to its timer.
sti ==
  /\ Goes(BSP, "sti", "running")
  /\ interrupts' = [interrupts EXCEPT ![BSP] = TRUE]
  /\ UNCHANGED << boot, startup, scheduler_ready, sched, timer >>

-----------------------------------------------------------------------------
(* The other processors.                                                   *)

\* ap_entry loads the descriptors and the stack prepared for it.
ap_entry(c) ==
  /\ goto_address[c]
  /\ Goes(c, "parked", "ap_main")
  /\ stack' = [stack EXCEPT ![c] = extra_argument[c]]
  /\ UNCHANGED << boot, descriptors, extra_argument, goto_address, ap_online_count,
                  scheduler_ready, sched, interrupts, timer >>

\* gdt::init_ap writes the descriptors once more, apic::init_ap follows.
init_ap(c) ==
  /\ Goes(c, "ap_main", "online")
  /\ descriptors' = [descriptors EXCEPT ![slot(c)] = extra_argument[c]]
  /\ UNCHANGED << boot, extra_argument, goto_address, stack, ap_online_count, scheduler_ready,
                  sched, interrupts, timer >>

CountOnline(c) ==
  /\ Goes(c, "online", "spin")
  /\ ap_online_count' = ap_online_count + 1
  /\ UNCHANGED << boot, descriptors, extra_argument, goto_address, stack, scheduler_ready,
                  sched, interrupts, timer >>

\* Mutant: the processor does not wait for the scheduler.
MutNoSpin(c) ==
  /\ Goes(c, "spin", "loop")
  /\ timer' = [timer EXCEPT ![c] = "armed"]
  /\ UNCHANGED << boot, startup, scheduler_ready, sched, interrupts >>

\* The spin on scheduler_ready ends; timer_init_ap; scheduler::init has nothing to do.
SpinEnds(c) ==
  /\ scheduler_ready
  /\ Goes(c, "spin", "loop")
  /\ timer' = [timer EXCEPT ![c] = "armed"]
  /\ UNCHANGED << boot, startup, scheduler_ready, sched, interrupts >>

-----------------------------------------------------------------------------
(* schedule.                                                               *)

\* The tasks after t in the list, then those from the head, up to t.
ScanOrder(t) ==
  LET n == Len(task_list)
      at == CHOOSE k \in 1 .. n : task_list[k] = t
  IN  [k \in 1 .. n - 1 |-> task_list[((at + k - 1) % n) + 1]]

Ready(t) == { k \in DOMAIN ScanOrder(t) : state[ScanOrder(t)[k]] = "READY" }

\* The first task of the scan that is READY takes over; without one nothing
\* changes; without a current task the processor stops for good.
schedule(c, back) ==
  LET t == current_task[c]
      next == ScanOrder(t)[CHOOSE k \in Ready(t) : \A l \in Ready(t) : k <= l]
  IN  IF t = NoTask
      THEN pc' = [pc EXCEPT ![c] = "halted"] /\ UNCHANGED << state, saved, current_task >>
      ELSE /\ pc' = [pc EXCEPT ![c] = back]
           /\ IF Ready(t) = {}
              THEN UNCHANGED << state, saved, current_task >>
              ELSE /\ state' = [state EXCEPT ![next] = "RUNNING",
                                             ![t] = IF @ = "RUNNING" THEN "READY" ELSE @]
                   /\ current_task' = [current_task EXCEPT ![c] = next]
                   /\ saved' = saved \cup {t}

\* The loop of ap_main: schedule, then sti; hlt.
IdleLoop(c) ==
  /\ pc[c] = "loop"
  /\ schedule(c, "hlt")
  /\ interrupts' = [interrupts EXCEPT ![c] = current_task[c] # NoTask]
  /\ UNCHANGED << boot, startup, scheduler_ready, initialized, task_list, timer >>

TimerFires(c) ==
  /\ timer[c] = "armed"
  /\ timer' = [timer EXCEPT ![c] = "pending"]
  /\ UNCHANGED << pc, boot, startup, scheduler_ready, sched, interrupts >>

\* The timer case of irqHandler; the return restores the flags, and an interrupted
\* hlt goes on with the loop.
irqHandler(c) ==
  /\ timer[c] = "pending" /\ interrupts[c]
  /\ pc[c] \in {"running", "hlt", "loop"}
  /\ timer' = [timer EXCEPT ![c] = "armed"]
  /\ schedule(c, IF pc[c] = "hlt" THEN "loop" ELSE pc[c])
  /\ UNCHANGED << boot, startup, scheduler_ready, initialized, task_list, interrupts >>

Stopped == pc[BSP] = "panic" /\ UNCHANGED vars

Next ==
  \/ timer_init \/ StartNext \/ setup_descriptors \/ PassArgument \/ Release \/ StartDone
  \/ WaitOnline \/ create_task \/ AssignTask \/ PublishReady \/ sti
  \/ \E c \in AP : ap_entry(c) \/ init_ap(c) \/ CountOnline(c) \/ SpinEnds(c) \/ IdleLoop(c)
  \/ \E c \in CPU : TimerFires(c) \/ irqHandler(c)
  \/ Stopped

Spec == Init /\ [][Next]_vars

\* Every processor makes progress, timers keep firing and their interrupts are
\* taken: hardware does not stop a processor, and no handler waits for another.
LiveSpec ==
  /\ Spec
  /\ WF_vars(timer_init \/ StartNext \/ setup_descriptors \/ PassArgument \/ Release
             \/ StartDone \/ WaitOnline \/ create_task \/ AssignTask \/ PublishReady \/ sti)
  /\ \A c \in AP : WF_vars(ap_entry(c) \/ init_ap(c) \/ CountOnline(c) \/ SpinEnds(c) \/ IdleLoop(c))
  /\ \A c \in CPU : WF_vars(TimerFires(c)) /\ WF_vars(irqHandler(c))

-----------------------------------------------------------------------------
(* Properties.                                                             *)

\* The variables keep their types; in particular the countdown of the waiting loop
\* never goes below zero, and reaches it only when the kernel panics.
SmpTypeOK ==
  /\ pc \in [CPU -> {"timer_init", "start", "setup", "pass", "release", "wait", "init_all_cpus",
                     "assign", "sti", "running", "panic", "parked", "ap_main", "online", "spin",
                     "loop", "hlt", "halted"}]
  /\ i \in 1 .. Len(CPUs) + 1 /\ expected_aps \in Nat
  /\ timeout \in 0 .. AP_TIMEOUT /\ (timeout = 0 => pc[BSP] = "panic")
  /\ memory \in 0 .. StackMemory
  /\ descriptors \in [Slots -> CPU \cup {NoStack}] /\ extra_argument \in [CPU -> CPU \cup {NoStack}]
  /\ stack \in [CPU -> CPU \cup {NoStack}]
  /\ goto_address \in [CPU -> BOOLEAN] /\ interrupts \in [CPU -> BOOLEAN]
  /\ ap_online_count \in Nat
  /\ scheduler_ready \in BOOLEAN /\ initialized \in BOOLEAN
  /\ task_list \in Seq(Tasks) /\ saved \subseteq Tasks
  /\ state \in [Tasks -> {"none", "READY", "RUNNING"}]
  /\ current_task \in [CPU -> Tasks \cup {NoTask}]
  /\ timer \in [CPU -> {"off", "armed", "pending"}]

\* A processor that has left the boot loader runs on the stack allocated for it,
\* and the descriptors it has loaded name that stack: kernel_main writes both
\* before goto_address.
OwnStack ==
  \A c \in CPU : pc[c] # "parked" => stack[c] = c /\ descriptors[slot(c)] = c

\* schedule always finds a current task, on every processor and however early its
\* timer fires, and so none ever stops; the tasks of two processors differ, and all
\* of them are RUNNING once the scheduler is ready.
TasksAssigned ==
  /\ \A c \in CPU : pc[c] # "halted"
  /\ scheduler_ready =>
       \A c \in CPU :
         /\ current_task[c] # NoTask /\ state[current_task[c]] = "RUNNING"
         /\ \A d \in CPU \ {c} : current_task[d] # current_task[c]

\* schedule never switches to a context that switch_context has not saved:
\* create_task leaves a new one without a stack pointer.
NoUnsavedSwitch ==
  [][\A c \in CPU :
       current_task[c] # NoTask /\ current_task'[c] # current_task[c] =>
         current_task'[c] \in saved]_vars

\* Booting comes to an end: the kernel panics, or the first program runs and every
\* other processor is in its idle loop.
BootSettles ==
  <>[](\/ pc[BSP] = "panic"
       \/ pc[BSP] = "running" /\ \A c \in AP : pc[c] \in {"loop", "hlt"})
=============================================================================
