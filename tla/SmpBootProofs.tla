--------------------------- MODULE SmpBootProofs ---------------------------
(***************************************************************************)
(* Proofs about SmpBoot for any number of processors.  The invariant       *)
(* follows kernel_main: what it has prepared for a processor when it       *)
(* releases it, and how far init_all_cpus has come.                        *)
(***************************************************************************)
EXTENDS SmpBoot, TLAPS

\* Where the processors may be.  Only the BSP executes kernel_main, and one that
\* takes interrupts does so after the scheduler is ready.
Places ==
  /\ pc[BSP] \in {"timer_init", "start", "setup", "pass", "release", "wait", "init_all_cpus",
                  "assign", "sti", "running", "panic"}
  /\ \A c \in AP : pc[c] \in {"parked", "ap_main", "online", "spin", "loop", "hlt"}
  /\ scheduler_ready <=> pc[BSP] \in {"sti", "running"}
  /\ \A c \in AP : pc[c] \in {"loop", "hlt"} => scheduler_ready
  /\ \A c \in CPU : interrupts[c] => scheduler_ready

\* The loop variable.
Counting ==
  /\ pc[BSP] \in {"timer_init", "wait"} => i = 1
  /\ pc[BSP] \in {"setup", "pass", "release"} => i <= Len(CPUs) /\ CPUs[i] \in AP
  /\ pc[BSP] = "assign" => i <= Len(CPUs)
  /\ pc[BSP] # "panic" => timeout > 0

\* What is prepared for a processor before it is released, and what it has after.
Prepared ==
  /\ stack[BSP] = BSP /\ descriptors[slot(BSP)] = BSP
  /\ \A c \in AP :
       /\ goto_address[c] => descriptors[slot(c)] = c /\ extra_argument[c] = c
       /\ pc[c] # "parked" => goto_address[c] /\ stack[c] = c
  /\ pc[BSP] \in {"pass", "release"} => descriptors[slot(CPUs[i])] = CPUs[i]
  /\ pc[BSP] = "release" => extra_argument[CPUs[i]] = CPUs[i]

InList(t) == \E k \in 1 .. Len(task_list) : task_list[k] = t

\* The processors, counted from the first, that have their task.
Assigned(k) ==
  \/ scheduler_ready
  \/ pc[BSP] \in {"init_all_cpus", "assign"} /\ k < i

TasksMade ==
  /\ pc[BSP] = "assign" => InList(i)
  /\ \A k \in Tasks :
       /\ Assigned(k) => current_task[CPUs[k]] = k /\ state[k] = "RUNNING" /\ InList(k)
       /\ pc[BSP] # "panic" /\ ~Assigned(k) => current_task[CPUs[k]] = NoTask

SmpInv == SmpTypeOK /\ Places /\ Counting /\ Prepared /\ TasksMade

-----------------------------------------------------------------------------
(* Facts about the processors.                                             *)

\* The list of processors names each one once, and the BSP is not among the others.
LEMMA CpuFacts ==
  /\ Len(CPUs) \in Nat
  /\ \A k \in 1 .. Len(CPUs) : CPUs[k] \in CPU
  /\ \A c \in CPU : \E k \in 1 .. Len(CPUs) : CPUs[k] = c
  /\ \A k, l \in 1 .. Len(CPUs) : CPUs[k] = CPUs[l] => k = l
  /\ BSP \in CPU /\ BSP \notin AP /\ AP \subseteq CPU
  /\ \A c \in CPU : c # BSP => c \in AP
<1>1. Len(CPUs) \in Nat /\ DOMAIN CPUs = 1 .. Len(CPUs)
  BY CpuAssumption
<1>2. \A c \in CPU : \E k \in DOMAIN CPUs : CPUs[k] = c
  BY Zenon DEF CPU
<1>3. \A k \in DOMAIN CPUs : CPUs[k] \in CPU
  BY Zenon DEF CPU
<1>4. \A k, l \in DOMAIN CPUs : CPUs[k] = CPUs[l] => k = l
  BY CpuAssumption, Zenon
<1>5. BSP \in CPU
  BY CpuAssumption, Zenon
<1>6. BSP \notin AP /\ AP \subseteq CPU /\ \A c \in CPU : c # BSP => c \in AP
  BY Zenon DEF AP
<1> QED
  BY <1>1, <1>2, <1>3, <1>4, <1>5, <1>6, Zenon

\* Every processor has an entry of per_cpu_data of its own.
LEMMA SlotFacts ==
  /\ \A c \in CPU : slot(c) \in Slots
  /\ \A c, d \in CPU : slot(c) = slot(d) => c = d
  /\ slot(BSP) = 0
<1>1. \A c \in CPU : slot(c) \in Slots
  BY Zenon DEF Slots
<1>2. \A c, d \in CPU : slot(c) = slot(d) => c = d
  BY CpuAssumption, Zenon
<1>3. slot(BSP) = 0
  BY Zenon DEF slot
<1> QED
  BY <1>1, <1>2, <1>3, Zenon

\* Tasks are numbered like processors.
LEMMA TaskFacts == Tasks = 1 .. Len(CPUs) /\ AP_TIMEOUT \in Nat \ {0} /\ StackMemory \in Nat /\ NoTask = 0
  BY CpuAssumption, Zenon DEF Tasks, NoTask

\* Once the scheduler is ready every task is RUNNING: schedule finds no other task,
\* and the processor goes on with its own.
LEMMA NothingToSwitchTo ==
  ASSUME SmpInv, scheduler_ready, NEW c \in CPU, NEW back, schedule(c, back)
  PROVE  pc' = [pc EXCEPT ![c] = back] /\ UNCHANGED << state, saved, current_task >>
<1> DEFINE t == current_task[c]
           n == Len(task_list)
           at == CHOOSE k \in 1 .. n : task_list[k] = t
<1>1. PICK k \in 1 .. Len(CPUs) : CPUs[k] = c
  BY CpuFacts, Zenon
<1>2. t = k /\ InList(t) /\ t # NoTask
  BY <1>1, TaskFacts DEF SmpInv, TasksMade, Assigned
<1>3. \A l \in Tasks : state[l] = "RUNNING"
  BY Zenon DEF SmpInv, TasksMade, Assigned
<1>4. at \in 1 .. n
  BY <1>2, Zenon DEF InList
<1>5. n \in Nat /\ \A l \in 1 .. n : task_list[l] \in Tasks
  BY DEF SmpInv, SmpTypeOK
<1>6. ASSUME NEW l \in DOMAIN ScanOrder(t) PROVE ScanOrder(t)[l] \in Tasks
  <2>1. l \in 1 .. n - 1 /\ ScanOrder(t)[l] = task_list[((at + l - 1) % n) + 1]
    BY <1>6, Zenon DEF ScanOrder
  <2> HIDE DEF at, n
  <2>2. at + l - 1 \in Nat /\ n > 0
    BY <2>1, <1>4, <1>5
  <2>3. ((at + l - 1) % n) + 1 \in 1 .. n
    BY <2>2, <1>5
  <2> QED
    BY <2>1, <2>3, <1>5, Zenon
<1>7. Ready(t) = {}
  BY <1>3, <1>6, Zenon DEF Ready
<1> QED
  BY <1>2, <1>7, Zenon DEF schedule

-----------------------------------------------------------------------------
(* The invariant.                                                          *)

\* Before the first step of kernel_main.
LEMMA InitInv == Init => SmpInv
<1> SUFFICES ASSUME Init PROVE SmpInv
  BY Zenon
<1>1. SmpTypeOK
  <2>1. i \in 1 .. Len(CPUs) + 1 /\ expected_aps \in Nat /\ timeout \in 0 .. AP_TIMEOUT
        /\ timeout # 0 /\ memory \in 0 .. StackMemory /\ ap_online_count \in Nat
    BY CpuFacts, TaskFacts DEF Init
  <2>2. /\ descriptors \in [Slots -> CPU \cup {NoStack}]
        /\ extra_argument \in [CPU -> CPU \cup {NoStack}] /\ stack \in [CPU -> CPU \cup {NoStack}]
    BY CpuFacts, Zenon DEF Init
  <2>3. /\ goto_address \in [CPU -> BOOLEAN] /\ interrupts \in [CPU -> BOOLEAN]
        /\ scheduler_ready \in BOOLEAN /\ initialized \in BOOLEAN
    BY Zenon DEF Init
  <2>4. task_list \in Seq(Tasks) /\ saved \subseteq Tasks
    BY DEF Init
  <2>5. /\ state \in [Tasks -> {"none", "READY", "RUNNING"}]
        /\ current_task \in [CPU -> Tasks \cup {NoTask}]
        /\ timer \in [CPU -> {"off", "armed", "pending"}]
    BY Zenon DEF Init
  <2>6. pc \in [CPU -> {"timer_init", "start", "setup", "pass", "release", "wait", "init_all_cpus",
                     "assign", "sti", "running", "panic", "parked", "ap_main", "online", "spin",
                     "loop", "hlt", "halted"}]
    BY Zenon DEF Init
  <2> QED
    BY <2>1, <2>2, <2>3, <2>4, <2>5, <2>6, Zenon DEF SmpTypeOK
<1>2. Places
  BY CpuFacts, Zenon DEF Init, Places
<1>3. Counting
  BY CpuFacts, TaskFacts DEF Init, Counting
<1>4. Prepared
  BY CpuFacts, SlotFacts, Zenon DEF Init, Prepared
<1>5. TasksMade
  BY CpuFacts, TaskFacts, Zenon DEF Init, TasksMade, Assigned
<1> QED
  BY <1>1, <1>2, <1>3, <1>4, <1>5, Zenon DEF SmpInv

\* timer_init keeps the invariant.
LEMMA Keeps_timer_init == SmpInv /\ timer_init => SmpInv'
<1> SUFFICES ASSUME SmpInv, timer_init PROVE SmpInv'
  BY Zenon
<1>1. SmpTypeOK'
  BY CpuFacts, Zenon DEF SmpInv, SmpTypeOK, timer_init, Goes, boot, startup, sched
<1>2. Places'
  BY DEF SmpInv, Places, timer_init, Goes
<1>3. Counting'
  BY DEF SmpInv, Counting, timer_init, Goes, boot
<1>4. Prepared'
  BY DEF SmpInv, Prepared, timer_init, Goes, startup
<1>5. TasksMade'
  BY TaskFacts DEF SmpInv, TasksMade, Assigned, Places, Counting, timer_init, Goes, boot, sched
<1> QED
  BY <1>1, <1>2, <1>3, <1>4, <1>5, Zenon DEF SmpInv

\* StartNext keeps the invariant.
LEMMA Keeps_StartNext == SmpInv /\ StartNext => SmpInv'
<1> SUFFICES ASSUME SmpInv, StartNext PROVE SmpInv'
  BY Zenon
<1>0. /\ pc[BSP] = "start" /\ BSP \in CPU
      /\ \/ pc' = pc
         \/ pc' = [pc EXCEPT ![BSP] = "panic"]
         \/ pc' = [pc EXCEPT ![BSP] = "setup"]
      /\ i <= Len(CPUs) /\ (i' = i \/ i' = i + 1)
      /\ memory' = memory \/ (memory # 0 /\ memory' = memory - 1)
      /\ UNCHANGED << expected_aps, timeout, scheduler_ready, interrupts, timer >>
      /\ UNCHANGED << startup, sched >>
  BY CpuFacts, Zenon DEF StartNext
<1>1. SmpTypeOK'
  <2>1. i' \in 1 .. Len(CPUs) + 1 /\ memory' \in 0 .. StackMemory
    <3>1. /\ i \in 1 .. Len(CPUs) + 1 /\ memory \in 0 .. StackMemory
          /\ Len(CPUs) \in Nat /\ StackMemory \in Nat
      BY CpuFacts, TaskFacts, Zenon DEF SmpInv, SmpTypeOK
    <3> QED
      BY <1>0, <3>1
  <2>2. (timeout = 0 => pc[BSP] = "panic") /\ timeout # 0
    BY <1>0, Zenon DEF SmpInv, SmpTypeOK
  <2>3. pc' \in [CPU -> {"timer_init", "start", "setup", "pass", "release", "wait",
                         "init_all_cpus", "assign", "sti", "running", "panic", "parked",
                         "ap_main", "online", "spin", "loop", "hlt", "halted"}]
    BY <1>0 DEF SmpInv, SmpTypeOK
  <2> QED
    BY <1>0, <2>1, <2>2, <2>3, Zenon DEF SmpInv, SmpTypeOK, startup, sched
<1>2. Places'
  <2>1. pc'[BSP] \in {"start", "panic", "setup"} /\ \A c \in AP : pc'[c] = pc[c]
    BY <1>0, CpuFacts, Zenon DEF SmpInv, SmpTypeOK
  <2> QED
    BY <1>0, <2>1, Zenon DEF SmpInv, Places
<1>3. Counting'
  BY CpuFacts DEF SmpInv, SmpTypeOK, Counting, StartNext
<1>4. Prepared'
  BY CpuFacts DEF SmpInv, SmpTypeOK, Prepared, StartNext, startup
<1>5. TasksMade'
  BY DEF SmpInv, SmpTypeOK, TasksMade, Assigned, Places, StartNext, sched
<1> QED
  BY <1>1, <1>2, <1>3, <1>4, <1>5, Zenon DEF SmpInv

\* setup_descriptors keeps the invariant.
LEMMA Keeps_setup_descriptors == SmpInv /\ setup_descriptors => SmpInv'
<1> SUFFICES ASSUME SmpInv, setup_descriptors PROVE SmpInv'
  BY Zenon
<1>1. SmpTypeOK'
  BY CpuFacts, SlotFacts, Zenon DEF SmpInv, SmpTypeOK, Counting, setup_descriptors, Goes, boot, sched
<1>2. Places'
  BY DEF SmpInv, Places, setup_descriptors, Goes
<1>3. Counting'
  BY DEF SmpInv, Counting, setup_descriptors, Goes, boot
<1>4. Prepared'
  BY CpuFacts, SlotFacts, SMTT(30) DEF SmpInv, SmpTypeOK, Prepared, Counting, setup_descriptors, Goes, boot
<1>5. TasksMade'
  BY DEF SmpInv, TasksMade, Assigned, Places, setup_descriptors, Goes, sched
<1> QED
  BY <1>1, <1>2, <1>3, <1>4, <1>5, Zenon DEF SmpInv

\* PassArgument keeps the invariant.
LEMMA Keeps_PassArgument == SmpInv /\ PassArgument => SmpInv'
<1> SUFFICES ASSUME SmpInv, PassArgument PROVE SmpInv'
  BY Zenon
<1>1. SmpTypeOK'
  BY CpuFacts, Zenon DEF SmpInv, SmpTypeOK, Counting, PassArgument, Goes, boot, sched
<1>2. Places'
  BY DEF SmpInv, Places, PassArgument, Goes
<1>3. Counting'
  BY DEF SmpInv, Counting, PassArgument, Goes, boot
<1>4. Prepared'
  BY CpuFacts DEF SmpInv, SmpTypeOK, Prepared, Counting, PassArgument, Goes, boot
<1>5. TasksMade'
  BY DEF SmpInv, TasksMade, Assigned, Places, PassArgument, Goes, sched
<1> QED
  BY <1>1, <1>2, <1>3, <1>4, <1>5, Zenon DEF SmpInv

\* Release keeps the invariant.
LEMMA Keeps_Release == SmpInv /\ Release => SmpInv'
<1> SUFFICES ASSUME SmpInv, Release PROVE SmpInv'
  BY Zenon
<1>1. SmpTypeOK'
  BY CpuFacts DEF SmpInv, SmpTypeOK, Counting, Release, Goes, sched
<1>2. Places'
  BY DEF SmpInv, Places, Release, Goes
<1>3. Counting'
  BY CpuFacts, Zenon DEF SmpInv, SmpTypeOK, Counting, Release, Goes
<1>4. Prepared'
  BY CpuFacts DEF SmpInv, SmpTypeOK, Prepared, Release, Goes
<1>5. TasksMade'
  BY DEF SmpInv, TasksMade, Assigned, Places, Release, Goes, sched
<1> QED
  BY <1>1, <1>2, <1>3, <1>4, <1>5, Zenon DEF SmpInv

\* StartDone keeps the invariant.
LEMMA Keeps_StartDone == SmpInv /\ StartDone => SmpInv'
<1> SUFFICES ASSUME SmpInv, StartDone PROVE SmpInv'
  BY Zenon
<1>1. SmpTypeOK'
  BY CpuFacts DEF SmpInv, SmpTypeOK, StartDone, Goes, startup, sched
<1>2. Places'
  BY DEF SmpInv, Places, StartDone, Goes
<1>3. Counting'
  BY DEF SmpInv, Counting, StartDone, Goes
<1>4. Prepared'
  BY DEF SmpInv, Prepared, StartDone, Goes, startup
<1>5. TasksMade'
  BY DEF SmpInv, TasksMade, Assigned, Places, StartDone, Goes, sched
<1> QED
  BY <1>1, <1>2, <1>3, <1>4, <1>5, Zenon DEF SmpInv

\* WaitOnline keeps the invariant.
LEMMA Keeps_WaitOnline == SmpInv /\ WaitOnline => SmpInv'
<1> SUFFICES ASSUME SmpInv, WaitOnline PROVE SmpInv'
  BY Zenon
<1>a. pc[BSP] = "wait" /\ timeout \in 1 .. AP_TIMEOUT
  BY DEF WaitOnline, SmpInv, SmpTypeOK
<1>b. PICK to \in {"wait", "init_all_cpus", "panic"} :
        /\ pc' = [pc EXCEPT ![BSP] = to]
        /\ timeout' \in 0 .. AP_TIMEOUT /\ (timeout' = 0 => to = "panic")
  <2>1. CASE ap_online_count >= expected_aps
    BY <2>1, <1>a, TaskFacts DEF WaitOnline
  <2>2. CASE ~(ap_online_count >= expected_aps) /\ timeout = 1
    BY <2>2, <1>a, TaskFacts DEF WaitOnline
  <2>3. CASE ~(ap_online_count >= expected_aps) /\ timeout # 1
    <3>1. timeout' = timeout - 1 /\ pc' = [pc EXCEPT ![BSP] = "wait"]
      BY <2>3, Zenon DEF WaitOnline
    <3>2. timeout - 1 \in 0 .. AP_TIMEOUT /\ timeout - 1 # 0
      BY <2>3, <1>a, TaskFacts
    <3> QED
      BY <3>1, <3>2, Zenon
  <2> QED
    BY <2>1, <2>2, <2>3, Zenon
<1>c. UNCHANGED << i, expected_aps, memory, startup, scheduler_ready, sched, interrupts, timer >>
  BY Zenon DEF WaitOnline
<1>1. SmpTypeOK'
  BY <1>b, <1>c, CpuFacts, Zenon DEF SmpInv, SmpTypeOK, startup, sched
<1>2. Places'
  BY <1>a, <1>b, <1>c DEF SmpInv, Places
<1>3. Counting'
  BY CpuFacts DEF SmpInv, SmpTypeOK, Counting, WaitOnline
<1>4. Prepared'
  BY CpuFacts DEF SmpInv, SmpTypeOK, Prepared, WaitOnline, startup
<1>5. TasksMade'
  BY CpuFacts, TaskFacts
     DEF SmpInv, SmpTypeOK, TasksMade, Assigned, Places, Counting, WaitOnline, sched
<1> QED
  BY <1>1, <1>2, <1>3, <1>4, <1>5, Zenon DEF SmpInv

\* create_task keeps the invariant.
LEMMA Keeps_create_task == SmpInv /\ create_task => SmpInv'
<1> SUFFICES ASSUME SmpInv, create_task PROVE SmpInv'
  BY Zenon
<1>1. SmpTypeOK'
  <2>1. PICK to \in {"assign", "panic"} : pc' = [pc EXCEPT ![BSP] = to]
    BY Zenon DEF create_task
  <2>2. timeout' = timeout /\ (timeout = 0 => pc[BSP] = "panic") /\ pc[BSP] # "panic"
    BY Zenon DEF create_task, SmpInv, SmpTypeOK
  <2>3. memory' \in 0 .. StackMemory
    <3>1. memory \in 0 .. StackMemory /\ StackMemory \in Nat
      BY TaskFacts, Zenon DEF SmpInv, SmpTypeOK
    <3>2. memory' = memory \/ (~(memory < 2) /\ memory' = memory - 2)
      BY Zenon DEF create_task
    <3> QED
      BY <3>1, <3>2
  <2>4. task_list' \in Seq(Tasks) /\ state' \in [Tasks -> {"none", "READY", "RUNNING"}]
    <3>1. /\ i \in Tasks /\ task_list \in Seq(Tasks)
          /\ state \in [Tasks -> {"none", "READY", "RUNNING"}]
      BY TaskFacts DEF create_task, SmpInv, SmpTypeOK
    <3>2. \/ UNCHANGED << task_list, state >>
          \/ /\ task_list' = << i >> \o task_list
             /\ state' = [state EXCEPT ![i] = "READY"]
      BY Zenon DEF create_task
    <3>3. << i >> \o task_list \in Seq(Tasks)
      BY <3>1
    <3> QED
      BY <3>1, <3>2, <3>3, Zenon
  <2> QED
    BY <2>1, <2>2, <2>3, <2>4, CpuFacts, Zenon DEF create_task, SmpInv, SmpTypeOK, startup
<1>2. Places'
  BY CpuFacts, SMTT(30) DEF SmpInv, SmpTypeOK, Places, create_task, boot, startup
<1>3. Counting'
  BY CpuFacts DEF SmpInv, SmpTypeOK, Counting, create_task
<1>4. Prepared'
  BY CpuFacts DEF SmpInv, SmpTypeOK, Prepared, create_task, startup
<1>5. TasksMade'
  <2>1. CASE memory < 2
    BY <2>1, CpuFacts, SMTT(30) DEF SmpInv, SmpTypeOK, Places, TasksMade, Assigned, create_task
  <2>2. CASE ~(memory < 2)
    <3>1. task_list \in Seq(Tasks) /\ i \in Tasks
      BY TaskFacts DEF SmpInv, SmpTypeOK, create_task
    <3>2. task_list' = << i >> \o task_list /\ i' = i
      BY <2>2, Zenon DEF create_task
    <3>3. InList(i)'
      <4>1. 1 \in 1 .. Len(task_list') /\ task_list'[1] = i
        BY <3>1, <3>2
      <4> QED
        BY <4>1, <3>2, Zenon DEF InList
    <3>4. ASSUME NEW k \in Tasks, InList(k) PROVE InList(k)'
      <4>1. PICK l \in 1 .. Len(task_list) : task_list[l] = k
        BY <3>4, Zenon DEF InList
      <4>2. l + 1 \in 1 .. Len(task_list') /\ task_list'[l + 1] = k
        BY <3>1, <3>2, <4>1
      <4> QED
        BY <4>2, Zenon DEF InList
    <3>5. /\ ~scheduler_ready /\ ~scheduler_ready' /\ current_task' = current_task
          /\ pc[BSP] = "init_all_cpus" /\ pc'[BSP] = "assign"
      BY <2>2, CpuFacts DEF SmpInv, SmpTypeOK, Places, create_task
    <3>6. \A k \in Tasks : Assigned(k)' = Assigned(k) /\ (Assigned(k) => k < i)
      BY <3>2, <3>5, Zenon DEF Assigned
    <3>7. \A k \in Tasks : k # i => state'[k] = state[k]
      BY <2>2, Zenon DEF create_task, SmpInv, SmpTypeOK
    <3>8. \A k \in Tasks : Assigned(k) => k # i
      BY <3>1, <3>6, TaskFacts
    <3>9. \A k \in Tasks :
            /\ Assigned(k) => current_task[CPUs[k]] = k /\ state[k] = "RUNNING" /\ InList(k)
            /\ ~Assigned(k) => current_task[CPUs[k]] = NoTask
      BY <3>5, Zenon DEF SmpInv, TasksMade
    <3> QED
      BY <3>2, <3>3, <3>4, <3>5, <3>6, <3>7, <3>8, <3>9, Zenon DEF TasksMade
  <2> QED
    BY <2>1, <2>2, Zenon
<1> QED
  BY <1>1, <1>2, <1>3, <1>4, <1>5, Zenon DEF SmpInv

-----------------------------------------------------------------------------
(* After the tasks are made.                                               *)

\* AssignTask keeps the invariant.
LEMMA Keeps_AssignTask == SmpInv /\ AssignTask => SmpInv'
<1> SUFFICES ASSUME SmpInv, AssignTask PROVE SmpInv'
  BY Zenon
<1>1. SmpTypeOK'
  BY CpuFacts, TaskFacts DEF SmpInv, SmpTypeOK, Counting, AssignTask, Goes, startup
<1>2. Places'
  BY DEF SmpInv, Places, AssignTask, Goes
<1>3. Counting'
  BY CpuFacts, Zenon DEF SmpInv, SmpTypeOK, Counting, AssignTask, Goes
<1>4. Prepared'
  BY DEF SmpInv, Prepared, AssignTask, Goes, startup
<1>5. TasksMade'
  BY CpuFacts, TaskFacts, SMTT(30)
     DEF SmpInv, SmpTypeOK, TasksMade, Assigned, InList, Counting, AssignTask, Goes
<1> QED
  BY <1>1, <1>2, <1>3, <1>4, <1>5, Zenon DEF SmpInv

\* PublishReady keeps the invariant.
LEMMA Keeps_PublishReady == SmpInv /\ PublishReady => SmpInv'
<1> SUFFICES ASSUME SmpInv, PublishReady PROVE SmpInv'
  BY Zenon
<1>1. SmpTypeOK'
  BY CpuFacts, Zenon DEF SmpInv, SmpTypeOK, PublishReady, Goes, boot, startup, sched
<1>2. Places'
  BY CpuFacts DEF SmpInv, SmpTypeOK, Places, PublishReady, Goes
<1>3. Counting'
  BY DEF SmpInv, Counting, PublishReady, Goes, boot
<1>4. Prepared'
  BY DEF SmpInv, Prepared, PublishReady, Goes, startup
<1>5. TasksMade'
  BY TaskFacts DEF SmpInv, SmpTypeOK, TasksMade, Assigned, InList, PublishReady, Goes, sched
<1> QED
  BY <1>1, <1>2, <1>3, <1>4, <1>5, Zenon DEF SmpInv

\* sti keeps the invariant.
LEMMA Keeps_sti == SmpInv /\ sti => SmpInv'
<1> SUFFICES ASSUME SmpInv, sti PROVE SmpInv'
  BY Zenon
<1>1. SmpTypeOK'
  BY CpuFacts, Zenon DEF SmpInv, SmpTypeOK, sti, Goes, boot, startup, sched
<1>2. Places'
  BY DEF SmpInv, Places, sti, Goes
<1>3. Counting'
  BY DEF SmpInv, Counting, sti, Goes, boot
<1>4. Prepared'
  BY DEF SmpInv, Prepared, sti, Goes, startup
<1>5. TasksMade'
  BY DEF SmpInv, TasksMade, Assigned, InList, sti, Goes, sched
<1> QED
  BY <1>1, <1>2, <1>3, <1>4, <1>5, Zenon DEF SmpInv

\* A step of another processor leaves what kernel_main has counted so far.
LEMMA CountingKept ==
  ASSUME SmpInv, pc'[BSP] = pc[BSP], UNCHANGED << i, timeout >>
  PROVE  Counting'
  BY Zenon DEF SmpInv, Counting

\* A step of another processor leaves the descriptors, stacks and arguments that
\* kernel_main has prepared for the ones still parked.
LEMMA PreparedKept ==
  ASSUME SmpInv, pc'[BSP] = pc[BSP],
         UNCHANGED << i, descriptors, extra_argument, goto_address, stack >>,
         \A c \in AP : pc'[c] # "parked" => pc[c] # "parked"
  PROVE  Prepared'
  BY Zenon DEF SmpInv, Prepared

\* A step that leaves the scheduler's tables leaves the tasks kernel_main has made.
LEMMA TasksKept ==
  ASSUME SmpInv, pc'[BSP] = pc[BSP],
         UNCHANGED << i, scheduler_ready, task_list, state, current_task >>
  PROVE  TasksMade'
  BY Zenon DEF SmpInv, TasksMade, Assigned, InList

\* ap_entry keeps the invariant.
LEMMA Keeps_ap_entry ==
  ASSUME SmpInv, NEW c \in AP, ap_entry(c)
  PROVE  SmpInv'
<1>00. pc'[BSP] = pc[BSP]
  BY CpuFacts DEF SmpInv, SmpTypeOK, Places, ap_entry, Goes
<1>01. UNCHANGED << i, timeout, scheduler_ready, task_list, state, current_task >>
  BY Zenon DEF ap_entry, Goes, boot, sched
<1>1. SmpTypeOK'
  BY CpuFacts, Zenon DEF SmpInv, SmpTypeOK, ap_entry, Goes, boot, sched
<1>2. Places'
  BY DEF SmpInv, Places, ap_entry, Goes
<1>3. Counting'
  BY <1>00, <1>01, CountingKept, Zenon
<1>4. Prepared'
  BY DEF SmpInv, SmpTypeOK, Prepared, ap_entry, Goes, boot
<1>5. TasksMade'
  BY <1>00, <1>01, TasksKept, Zenon
<1> QED
  BY <1>1, <1>2, <1>3, <1>4, <1>5, Zenon DEF SmpInv

\* init_ap keeps the invariant.
LEMMA Keeps_init_ap ==
  ASSUME SmpInv, NEW c \in AP, init_ap(c)
  PROVE  SmpInv'
<1>00. pc'[BSP] = pc[BSP]
  BY CpuFacts DEF SmpInv, SmpTypeOK, Places, init_ap, Goes
<1>01. UNCHANGED << i, timeout, scheduler_ready, task_list, state, current_task >>
  BY Zenon DEF init_ap, Goes, boot, sched
<1>1. SmpTypeOK'
  BY CpuFacts, SlotFacts, SMTT(30) DEF SmpInv, SmpTypeOK, init_ap, Goes, boot, sched
<1>2. Places'
  BY DEF SmpInv, Places, init_ap, Goes
<1>3. Counting'
  BY <1>00, <1>01, CountingKept, Zenon
<1>4. Prepared'
  BY DEF SmpInv, Prepared, init_ap, Goes, boot
<1>5. TasksMade'
  BY <1>00, <1>01, TasksKept, Zenon
<1> QED
  BY <1>1, <1>2, <1>3, <1>4, <1>5, Zenon DEF SmpInv

\* CountOnline keeps the invariant.
LEMMA Keeps_CountOnline ==
  ASSUME SmpInv, NEW c \in AP, CountOnline(c)
  PROVE  SmpInv'
<1>00. /\ pc'[BSP] = pc[BSP]
       /\ \A d \in AP : pc'[d] # "parked" => pc[d] # "parked"
  BY CpuFacts DEF SmpInv, SmpTypeOK, Places, CountOnline, Goes
<1>01. UNCHANGED << i, timeout, scheduler_ready, task_list, state, current_task >>
  BY Zenon DEF CountOnline, Goes, boot, sched
<1>1. SmpTypeOK'
  BY CpuFacts DEF SmpInv, SmpTypeOK, CountOnline, Goes, boot, sched
<1>2. Places'
  BY DEF SmpInv, Places, CountOnline, Goes
<1>3. Counting'
  BY <1>00, <1>01, CountingKept, Zenon
<1>4. Prepared'
  BY <1>00, <1>01, PreparedKept, Zenon DEF CountOnline
<1>5. TasksMade'
  BY <1>00, <1>01, TasksKept, Zenon
<1> QED
  BY <1>1, <1>2, <1>3, <1>4, <1>5, Zenon DEF SmpInv

\* SpinEnds keeps the invariant.
LEMMA Keeps_SpinEnds ==
  ASSUME SmpInv, NEW c \in AP, SpinEnds(c)
  PROVE  SmpInv'
<1>00. /\ pc'[BSP] = pc[BSP]
       /\ \A d \in AP : pc'[d] # "parked" => pc[d] # "parked"
  BY CpuFacts DEF SmpInv, SmpTypeOK, Places, SpinEnds, Goes
<1>01. UNCHANGED << i, timeout, scheduler_ready, task_list, state, current_task >>
  BY Zenon DEF SpinEnds, Goes, boot, sched
<1>1. SmpTypeOK'
  BY CpuFacts, Zenon DEF SmpInv, SmpTypeOK, SpinEnds, Goes, boot, startup, sched
<1>2. Places'
  BY DEF SmpInv, Places, SpinEnds, Goes
<1>3. Counting'
  BY <1>00, <1>01, CountingKept, Zenon
<1>4. Prepared'
  BY <1>00, <1>01, PreparedKept, Zenon DEF SpinEnds, startup
<1>5. TasksMade'
  BY <1>00, <1>01, TasksKept, Zenon
<1> QED
  BY <1>1, <1>2, <1>3, <1>4, <1>5, Zenon DEF SmpInv

\* IdleLoop keeps the invariant.
LEMMA Keeps_IdleLoop ==
  ASSUME SmpInv, NEW c \in AP, IdleLoop(c)
  PROVE  SmpInv'
<1>0. /\ scheduler_ready /\ c \in CPU /\ pc' = [pc EXCEPT ![c] = "hlt"]
      /\ UNCHANGED << state, saved, current_task >>
  <2>1. scheduler_ready /\ c \in CPU
    BY CpuFacts, Zenon DEF SmpInv, Places, IdleLoop
  <2> QED
    BY <2>1, NothingToSwitchTo, Zenon DEF IdleLoop
<1>00. /\ pc'[BSP] = pc[BSP]
       /\ \A d \in AP : pc'[d] # "parked" => pc[d] # "parked"
  BY <1>0, CpuFacts, Zenon DEF SmpInv, SmpTypeOK, Places, IdleLoop
<1>01. UNCHANGED << i, timeout, scheduler_ready, task_list, state, current_task >>
  BY <1>0, Zenon DEF IdleLoop, boot
<1>1. SmpTypeOK'
  BY <1>0 DEF SmpInv, SmpTypeOK, IdleLoop, boot, startup
<1>2. Places'
  BY <1>0 DEF SmpInv, Places, IdleLoop
<1>3. Counting'
  BY <1>00, <1>01, CountingKept, Zenon
<1>4. Prepared'
  BY <1>00, <1>01, PreparedKept, Zenon DEF IdleLoop, startup
<1>5. TasksMade'
  BY <1>00, <1>01, TasksKept, Zenon
<1> QED
  BY <1>1, <1>2, <1>3, <1>4, <1>5, Zenon DEF SmpInv

\* TimerFires keeps the invariant.
LEMMA Keeps_TimerFires ==
  ASSUME SmpInv, NEW c \in CPU, TimerFires(c)
  PROVE  SmpInv'
<1>1. SmpTypeOK'
  BY Zenon DEF SmpInv, SmpTypeOK, TimerFires, boot, startup, sched
<1>2. Places'
  BY Zenon DEF SmpInv, Places, TimerFires
<1>3. Counting'
  BY Zenon DEF SmpInv, Counting, TimerFires, boot
<1>4. Prepared'
  BY Zenon DEF SmpInv, Prepared, TimerFires, boot, startup
<1>5. TasksMade'
  BY Zenon DEF SmpInv, TasksMade, Assigned, InList, TimerFires, boot, sched
<1> QED
  BY <1>1, <1>2, <1>3, <1>4, <1>5, Zenon DEF SmpInv

\* irqHandler keeps the invariant.
LEMMA Keeps_irqHandler ==
  ASSUME SmpInv, NEW c \in CPU, irqHandler(c)
  PROVE  SmpInv'
<1>0. /\ scheduler_ready /\ c \in CPU /\ pc' = [pc EXCEPT ![c] = IF pc[c] = "hlt" THEN "loop" ELSE pc[c]]
      /\ UNCHANGED << state, saved, current_task >>
  <2>1. scheduler_ready /\ c \in CPU
    BY Zenon DEF SmpInv, Places, irqHandler
  <2> QED
    BY <2>1, NothingToSwitchTo, Zenon DEF irqHandler
<1>00. /\ pc'[BSP] = pc[BSP]
       /\ \A d \in AP : pc'[d] # "parked" => pc[d] # "parked"
  BY <1>0, CpuFacts, Zenon DEF SmpInv, SmpTypeOK, Places, irqHandler
<1>01. UNCHANGED << i, timeout, scheduler_ready, task_list, state, current_task >>
  BY <1>0, Zenon DEF irqHandler, boot
<1>1. SmpTypeOK'
  BY <1>0 DEF SmpInv, SmpTypeOK, irqHandler, boot, startup
<1>2. Places'
  BY <1>0 DEF SmpInv, Places, irqHandler
<1>3. Counting'
  BY <1>00, <1>01, CountingKept, Zenon
<1>4. Prepared'
  BY <1>00, <1>01, PreparedKept, Zenon DEF irqHandler, startup
<1>5. TasksMade'
  BY <1>00, <1>01, TasksKept, Zenon
<1> QED
  BY <1>1, <1>2, <1>3, <1>4, <1>5, Zenon DEF SmpInv

\* Every step keeps the invariant.
LEMMA StepInv == SmpInv /\ [Next]_vars => SmpInv'
<1> SUFFICES ASSUME SmpInv, [Next]_vars PROVE SmpInv'
  BY Zenon
<1>1. CASE timer_init
  BY <1>1, Keeps_timer_init, Zenon
<1>2. CASE StartNext
  BY <1>2, Keeps_StartNext, Zenon
<1>3. CASE setup_descriptors
  BY <1>3, Keeps_setup_descriptors, Zenon
<1>4. CASE PassArgument
  BY <1>4, Keeps_PassArgument, Zenon
<1>5. CASE Release
  BY <1>5, Keeps_Release, Zenon
<1>6. CASE StartDone
  BY <1>6, Keeps_StartDone, Zenon
<1>7. CASE WaitOnline
  BY <1>7, Keeps_WaitOnline, Zenon
<1>8. CASE create_task
  BY <1>8, Keeps_create_task, Zenon
<1>9. CASE AssignTask
  BY <1>9, Keeps_AssignTask, Zenon
<1>10. CASE PublishReady
  BY <1>10, Keeps_PublishReady, Zenon
<1>11. CASE sti
  BY <1>11, Keeps_sti, Zenon
<1>12. ASSUME NEW c \in AP, ap_entry(c) PROVE SmpInv'
  BY <1>12, Keeps_ap_entry, Zenon
<1>13. ASSUME NEW c \in AP, init_ap(c) PROVE SmpInv'
  BY <1>13, Keeps_init_ap, Zenon
<1>14. ASSUME NEW c \in AP, CountOnline(c) PROVE SmpInv'
  BY <1>14, Keeps_CountOnline, Zenon
<1>15. ASSUME NEW c \in AP, SpinEnds(c) PROVE SmpInv'
  BY <1>15, Keeps_SpinEnds, Zenon
<1>16. ASSUME NEW c \in AP, IdleLoop(c) PROVE SmpInv'
  BY <1>16, Keeps_IdleLoop, Zenon
<1>17. ASSUME NEW c \in CPU, TimerFires(c) PROVE SmpInv'
  BY <1>17, Keeps_TimerFires, Zenon
<1>18. ASSUME NEW c \in CPU, irqHandler(c) PROVE SmpInv'
  BY <1>18, Keeps_irqHandler, Zenon
<1>19. CASE UNCHANGED vars
  <2>1. SmpTypeOK' /\ Places'
    BY <1>19, Zenon DEF SmpInv, SmpTypeOK, Places, vars
  <2>2. Counting'
    BY <1>19, Zenon DEF SmpInv, Counting, vars
  <2>3. Prepared'
    BY <1>19, Zenon DEF SmpInv, Prepared, vars
  <2>4. TasksMade'
    BY <1>19, Zenon DEF SmpInv, TasksMade, Assigned, InList, vars
  <2> QED
    BY <2>1, <2>2, <2>3, <2>4, Zenon DEF SmpInv
<1> QED
  BY <1>1, <1>2, <1>3, <1>4, <1>5, <1>6, <1>7, <1>8, <1>9, <1>10, <1>11, <1>12, <1>13, <1>14, <1>15, <1>16, <1>17, <1>18, <1>19, Zenon
     DEF Next, Stopped

\* The invariant holds throughout.
LEMMA Invariance == Spec => []SmpInv
  BY InitInv, StepInv, PTL DEF Spec

-----------------------------------------------------------------------------
(* The theorems.                                                           *)

\* The variables keep their types, and the waiting loop of kernel_main stops at zero.
THEOREM BootTyping == Spec => []SmpTypeOK
<1>1. SmpInv => SmpTypeOK
  BY Zenon DEF SmpInv
<1> QED
  BY Invariance, <1>1, PTL

\* However many processors there are and however their steps interleave, each runs
\* on the stack kernel_main allocated for it, and its descriptors name that stack.
THEOREM StacksAreOwn == Spec => []OwnStack
<1>1. SmpInv => OwnStack
  BY CpuFacts, Zenon DEF SmpInv, Prepared, OwnStack
<1> QED
  BY Invariance, <1>1, PTL

\* schedule finds a task on every processor; no two processors share one.
THEOREM EveryCpuHasATask == Spec => []TasksAssigned
<1>1. SmpInv => TasksAssigned
  <2> SUFFICES ASSUME SmpInv PROVE TasksAssigned
    BY Zenon
  <2>1. \A c \in CPU : pc[c] # "halted"
    BY CpuFacts, Zenon DEF SmpInv, Places
  <2>2. ASSUME scheduler_ready, NEW c \in CPU
        PROVE  \E k \in Tasks : CPUs[k] = c /\ current_task[c] = k /\ state[k] = "RUNNING"
    BY <2>2, CpuFacts, TaskFacts DEF SmpInv, TasksMade, Assigned
  <2>3. ASSUME scheduler_ready, NEW c \in CPU
        PROVE  current_task[c] # NoTask /\ state[current_task[c]] = "RUNNING"
    <3>1. PICK k \in Tasks : current_task[c] = k /\ state[k] = "RUNNING"
      BY <2>2, <2>3, Zenon
    <3>2. k # NoTask
      BY TaskFacts
    <3> QED
      BY <3>1, <3>2, Zenon
  <2>4. ASSUME scheduler_ready, NEW c \in CPU, NEW d \in CPU, c # d
        PROVE  current_task[d] # current_task[c]
    <3>1. PICK k \in Tasks : CPUs[k] = c /\ current_task[c] = k
      BY <2>2, <2>4, Zenon
    <3>2. PICK l \in Tasks : CPUs[l] = d /\ current_task[d] = l
      BY <2>2, <2>4, Zenon
    <3> QED
      BY <2>4, <3>1, <3>2, Zenon
  <2> QED
    BY <2>1, <2>3, <2>4, Zenon DEF TasksAssigned
<1> QED
  BY Invariance, <1>1, PTL

\* schedule never switches to a context that was never saved: a processor keeps the
\* task init_all_cpus gave it.
THEOREM NoSwitchToUnsaved == Spec => NoUnsavedSwitch
<1> DEFINE A == \A c \in CPU :
                  current_task[c] # NoTask /\ current_task'[c] # current_task[c] =>
                    current_task'[c] \in saved
<1>1. SmpInv /\ [Next]_vars => [A]_vars
  <2> SUFFICES ASSUME SmpInv, [Next]_vars PROVE A
    BY Zenon
  <2>1. CASE AssignTask
    <3>1. /\ i \in Tasks /\ CPUs[i] \in CPU /\ ~Assigned(i) /\ pc[BSP] = "assign"
          /\ current_task' = [current_task EXCEPT ![CPUs[i]] = i]
      BY <2>1, CpuFacts, TaskFacts
         DEF AssignTask, Goes, SmpInv, SmpTypeOK, Counting, Places, Assigned
    <3>2. current_task[CPUs[i]] = NoTask
      BY <3>1, Zenon DEF SmpInv, TasksMade
    <3> QED
      BY <3>1, <3>2, Zenon DEF SmpInv, SmpTypeOK
  <2>2. ASSUME NEW c \in AP, IdleLoop(c) PROVE current_task' = current_task
    <3>1. scheduler_ready /\ c \in CPU
      BY <2>2, CpuFacts, Zenon DEF SmpInv, Places, IdleLoop
    <3> QED
      BY <2>2, <3>1, NothingToSwitchTo, Zenon DEF IdleLoop
  <2>3. ASSUME NEW c \in CPU, irqHandler(c) PROVE current_task' = current_task
    <3>1. scheduler_ready
      BY <2>3, SMTT(30) DEF SmpInv, Places, irqHandler
    <3> QED
      BY <2>3, <3>1, NothingToSwitchTo, Zenon DEF irqHandler
  <2>4. ~AssignTask => current_task' = current_task
    BY <2>2, <2>3, Zenon
       DEF Next, Stopped, vars, sched, timer_init, StartNext, setup_descriptors, PassArgument,
           Release, StartDone, WaitOnline, create_task, PublishReady, sti, ap_entry, init_ap,
           CountOnline, SpinEnds, TimerFires
  <2> QED
    BY <2>1, <2>4, Zenon
<1> QED
  BY Invariance, <1>1, PTL DEF Spec, NoUnsavedSwitch
=============================================================================
