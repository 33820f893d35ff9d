# A TLA+ model of the Synx kernel

Synx is a small x86-64 kernel in C++: it boots through Limine, starts every
processor, loads a cpio archive into a file system in memory and runs one user
program at a time, on the boot processor, which may replace itself with `execve`.
This directory models the parts of it that keep state, checks them with TLC on
small instances and proves the central ones with TLAPS for every instance.

## 1. The system

| part | state | operations | what is hard about it |
|---|---|---|---|
| descriptors, files, dentries (`proc/syscall_fs.cpp`, `fs/vfs.cpp`) | `open_files`, `fd_flags`, `current_directory`, reference counts, children lists | openat, close, dup/dup2/dup3, fcntl, chdir, fchdir, stat, access, execve, exit | counts balanced over every exit of a path walk; descriptors used again; an exec that fails after it has opened its file |
| file contents and user memory (`proc/syscall_io.cpp`, `proc/syscall_fs.cpp`, `fs/vfs.cpp`, `fs/ramfs.cpp`) | offsets, user pages | read, write, readv, writev, lseek, getdents64, the calls that fill in a structure | a call stops in the middle of a chunk, a page or a vector; what it returns, what was delivered and the offset must agree |
| page allocator (`mem/kmemory.cpp`) | bitmap, `free_pages` | init, allocPage(s), freePage(s) | runs across holes; counter and bitmap after any history |
| object allocator (`mem/slab.cpp`) | slabs, free lists, large-object headers | alloc, free | objects of every size in any order; the checks that panic |
| ELF loader (`proc/elf_exec.cpp`) | page tables, CR3, buffers | load_image, activate, launch_static, terminate_current | memory running out between any two allocations; the old space must survive a failed exec and die after a successful one |
| keyboard and console input (`src/ps2_keyboard.cpp`, `src/idt.cpp`, `proc/syscall_io.cpp`) | decoder state, modifiers, event ring | interrupt handler, polling `read(0)` | two consumers of one port, codes of several bytes |
| console output (`src/ostreamk.cpp`, `include/kprint.h`) | cursor, base, prefix flag, frame buffer | printing text, numbers, pointers, log lines | two printers share the cursor without a lock; scrolling by pixel rows |
| interrupts (`src/madt.cpp`, `src/ioapic.cpp`, `src/apic.cpp`, `src/idt.cpp`) | redirection entries, local APIC, the stack of the interrupted code | parse, init, route_irq, mask_irq, the stubs and handlers | an entry is two registers and interrupts come between the writes; every path of a handler must end its interrupt |
| panic (`src/kernelpanic.cpp`, `kallsyms/kallsyms.cpp`) | the report | exceptionHandler, kernel_panic, printStackTrace, kallsyms_lookup | chains of frames that end anywhere, are not mapped or do not end; the ends of a binary search |
| processors and scheduler (`src/kernel_main.cpp`, `proc/ap_*`, `proc/sched.cpp`) | start-up arguments, descriptors, task list, current tasks, timers | release, come online, wait, create tasks, schedule | all of it concurrent, with timers that fire at any time |
| uptime clock (`src/apic.cpp`) | base, hardware counter | timer_tick, get_uptime_us | two reads that belong together |
| initial file system (`fs/initramfs.cpp`, `fs/ramfs.cpp`) | the tree | initramfs_load | entries in any order, failures half way |
| kernel page tables, dynamic linker, C library, user programs | | | not modelled, see section 7 |

The object allocator takes pages from the page allocator, as do the page tables of
the loader. Everything else takes its objects from the slab allocator, and each
model of it lets the allocation fail wherever it may. System calls run with
interrupts masked (`SYSCALL_FMASK`), and only the boot processor enters user mode,
so system calls do not interleave with one another. What does interleave is the
keyboard and its handler with `read(0)`, the timer with everything, a device's
interrupt with the routing of its line, two printers on the console, and the
processors while they start.

## 2. The modules

One module per component; `MC*` modules hold the constants of an instance,
`*Proofs` the theorems. Variables and actions have the names they have
in the code. Every definition that models code has an entry in the `map` of
`PROJECT.json` with its lines. Definitions called `Mut...` are wrong versions of the
definition that follows them; each property is shown to reject one.

* **FileTable**: `open_files`, `fd_flags`, `current_directory`; `fref` and `ref`
  are the counts of Files and dentries, `neg` the inode-less dentries a lookup
  links on a miss, `call` the system call in progress. A call that walks a path
  takes one step per turn of `path_walk`'s loop (`WalkHit`, `WalkMiss`,
  `WalkNoMemory`, `WalkDotDot`, ...), then the step of its kind (`OpenDone`,
  `ChdirDone`, `ProbeDone`, `ExecOpened`). The loops of `execve` and `exit` over the
  table take one step per descriptor. The tree is a constant.
* **FileIo**: the offsets of three Files (a regular file, a directory, and one
  open for writing only), the access of each user page, and the call in progress. One
  step is one round of the chunk loop, of the loop over an iovec array or of the loop
  over directory entries; `copy_user` moves a chunk page by page and may stop at any.
  The access of the pages is any of `Permissions` and does not change in a behaviour.
  Which descriptor holds which File is FileTable's subject and fixed here.
* **Pmm**: `used` is the bitmap as a set of pages, `free_pages` the counter, `runs`
  (history) what callers hold. The bits that `init` does not write are chosen
  freely. `scan` is the loop of `allocPages` with its counter; `allocPages` is
  specified by the first fit, and `ScanIsFirstFit` says that the two agree.
* **Slab** extends Pmm. A slab is its first page, its free list and its counter.
  `PmmSpec`, checked as a property of the slab specification, says that the
  composition only uses the page allocator as Pmm allows: every step of Slab is a
  step of Pmm or leaves its variables alone.
* **ElfExec**: physical memory as rows of cells, each a page table entry or a byte;
  four levels of tables; `load_image` as create, map segment by segment and page by
  page, relocate, build the stack, finish; `activate`; destruction of the old space.
  The byte at offset k of a file is k + 1, so misplaced bytes show.
* **Keyboard**: the keys, the wire and the controller's one-byte buffer are
  external. `decode_and_push`, `push_event` and `poll` are the code's;
  `irqHandler` and `PollPort` are the two that take bytes. `typed`, `decoded`,
  `polled`, `lost` and `output` are history. **EventQueue** is the abstract
  specification of the ring, a bounded queue that turns the newest away; `QueueSpec`
  says that Keyboard implements it, with the events between `s_tail` and `s_head`
  as the queue.
* **Console**: the frame buffer as pixel rows of cells, `cursor_x`, `cursor_y`, the
  base and the prefix flag. `__locked_kout` takes its lock once, in its constructor,
  so every store to these, and every load that a later store or test depends on, is a
  step of one of two printers (a glyph is drawn where both cursors are at once). `sent`
  is history; `raced` says that two printers have overlapped.
* **Ioapic**: what the firmware presents (`tables`), what `parse` makes of it
  (`info`), the two registers of each redirection entry (`low`, `high`), and the
  place of `kernel_main` (`boot`) and of a driver's call (`driver`), one register
  access per step. **IrqTable** is its abstract specification: a pin is off or
  sends one vector to one processor, and is turned off before it is given another
  target. `TableSpec` says that Ioapic implements it, a masked entry being an off pin.
* **Interrupts** extends Ioapic: the local APIC's request and service bits
  (external), the processor's registers and stack, the gates, the stubs, `irq_entry`,
  `irqHandler` and `exceptionHandler`, calibration of the timer, and the
  panic with its stack trace and symbol lookup. The trace starts in `kernel_panic`, whose
  frame and `exceptionHandler`'s lie on top of those of the code that was stopped
  (`Call`), and takes one step per frame: `UnwindFrame` prints, `UnwindEnd` stops, and
  `UnwindFault` meets a frame that is not mapped, a page fault that panics again.
* **SmpBoot**: `pc` for each processor; `extra_argument`, `goto_address`,
  `descriptors`, `ap_online_count`, `scheduler_ready`, `task_list`, `current_task`
  as in the code; `timer` is "off", "armed" or "pending" and `interrupts` the
  interrupt flag.
* **Clock**: the counter of each processor, which reloads, the pending interrupts,
  `g_uptime_us_base`, which every processor's `timer_tick` loads and stores, and
  `get_uptime_us` as its two reads.
* **Initramfs**: `dentries` with ordered children lists, the entry being loaded, the
  dentry in hand, and a number of allocations that still succeed.

## 3. The runs

| run | module | shows |
|---|---|---|
| `files` | MCFileTable | `RefsExact`, `CwdIsDirectory`, `NoStaleFlag`, `ExitReleases`, `CloseOnExec`: counts, flags, working directory, close-on-exec and exit are exact under every sequence of calls; `CallReturns`: every system call ends |
| `io` | MCFileIo | `ReadExact`, `WriteExact`: what was delivered, what is returned and where the offset stands agree however a call stops; `SeekExact`: lseek refuses exactly the sums that are negative or do not fit; `DirentsOnce`: directory reads pass on every child once, in order, although entries are read ahead; `StructWhole`: a structure is written whole or an error is returned |
| `memory` | MCSlab | `ObjectsDisjoint`, `RunsPartition`, `Accounted`, `FreePagesExact`: objects and pages never overlap and are never lost; `ScanIsFirstFit`; `PmmSpec`: Slab uses Pmm as Pmm allows |
| `memory_large` | MCSlab | *violation* of `NoFalseAlarm`: a large object above the limit of pages is reported as corrupt when freed, and leaks |
| `memory_hole` | MCPmm | *violation* of `FreePagesExact`: with a hole behind the filled eighth of the bitmap the count of free pages is wrong |
| `exec` | MCElfExec | `CallsReleaseAll`, `NoPageLeaks`: no page or buffer is lost however an exec ends; `SpacesIntact`: spaces in use are never freed; `ImageExact`, `EntryStack`: a loaded image and its entry stack are exact |
| `keyboard` | MCKeyboard | `DecodesInOrder`, `NoStuckModifier`: one event per press and release, in order, with the right modifiers, whoever takes the bytes; `QueueSpec`: the ring implements EventQueue; `InputAccounted`: a character is lost only where a fault is; `EnterEndsRead`: a read that waits returns once Enter is pressed |
| `console` | MCConsole | `ScreenIsTail`: messages that do not overlap, without negative numbers, leave the end of an endless sheet on the screen; `CursorRecovers`: messages that do leave the cursor on the grid |
| `interrupts` | MCInterrupts | `RoutesExact`: a pin sends what a driver asked last, and nothing before that; `TableSpec`: Ioapic implements IrqTable; `FrameRestored`: the interrupted code goes on as it was; `PanicExact`: a panic names an exception that has a stub of its own, and traces `kernel_panic`, its callers and the callers of the code that was stopped, to their end; `IrqsServed`: no interrupt waits for ever |
| `smp` | MCSmpBoot | `OwnStack`, `TasksAssigned`, `NoUnsavedSwitch`: own stacks, a task for every processor, no switch to an unsaved context; `BootSettles`: booting ends in a panic or with everybody at work |
| `clock` | MCClock | *violation* of `ClockMonotonic`: the clock steps back when the counter reloads inside a system call |
| `initramfs` | MCInitramfs | `TreeIntact`: the tree is a tree, nothing is pinned or lost; `LastEntryWins`: a path names the last entry loaded for it |

The three violations are described in the `findings` of `PROJECT.json`, with the
lines that disagree.

### Bounds

* `files`: two Files, descriptors 0 to 4, a tree of five dentries of which one lies
  deeper than the path buffer (two names) is long. Descriptors can share a File
  while another is open; the table can be full; a walk can meet a file in its way, a
  miss, `.` and `..`.
* `io`: four user pages of two bytes with ten maps of their access, a file of four
  bytes moved in chunks of two, a directory of three children read two at a time,
  offsets from -6 to 5. So a chunk may cross a page, a transfer may stop within its
  first, second or last page, both ends of the range of offsets are reached, and
  seven vectors put the array itself at, across and beyond the end of user memory.
* `memory`: twelve pages in two pieces, two size classes, one large size, four
  objects or pages alive. Slabs of both classes coexist with large objects, memory
  fills up and fragments.
* `exec`: pages of four bytes, tables of two entries, 29 pages. That is just enough
  for a second image beside a first, so that exec succeeds from some states and
  runs out of memory at every allocation from others. Nine images: shared pages,
  overlaps, relocations across a page boundary and out of the segment, overflow.
* `keyboard`: a ring of three places (two events), four presses or releases of six
  keys: codes of one to three bytes, overflow of the ring, both shift keys. The
  number of presses is bounded, so the model may stop, and deadlock is not checked.
* `console`: a screen of two lines of three columns and a spare pixel row, two
  printers, three of eight values (one once printers overlap): every line
  wraps, a message scrolls, and two printers meet at every pair of steps of newline
  and scroll. The number of values is bounded, so deadlock is not checked.
* `interrupts`: two chips, of two entries and of one; six sets of firmware tables
  (an override, two overrides of one interrupt, an interrupt no chip has a pin for, no
  IOAPIC, no MADT, no answer); three calls of `route_irq`, two of which give one
  interrupt another vector and another processor; exceptions with and without a stub
  of their own. A panic at boot, with an exception or without, finds frames that end
  below the kernel, at an odd address or at a return address of zero, that lead to one
  that is not mapped, or that go round in a circle; the frames under later ones are
  short. `PanicFrames` has room for two panics, one within the other, and `MaxTrace`
  bounds the trace of a circle, which the code prints for ever. A panic
  halts for good, so deadlock is not checked.
* `smp`: three processors, the BSP in the middle of the list, any amount of memory up
  to what is needed, a countdown of three.
* `clock`: two processors and a little more than two periods of four counts.
* `initramfs`: archives of up to three entries over five paths, any amount of memory.

### Fairness

* `files`: weak fairness of the kernel's steps within a call: the processor keeps
  executing, with interrupts masked. Nothing is assumed of the program.
* `keyboard`: the controller passes on the bytes it has, the handler runs when its
  interrupt is pending and unmasked, and the polling loop keeps turning; nothing is
  assumed of the person typing.
* `interrupts`: a handler that was entered runs to its end (weak), and an interrupt
  that can be taken again and again is taken (strong): the local APIC keeps a request
  until the processor accepts it. That the interrupted code opens interrupts again
  and again is a hypothesis of the property, since nothing forces it to.
* `smp`: each processor executes, timers fire, pending interrupts are taken when
  unmasked.

## 4. What is proved

Each theorem holds for every value of the constants that satisfies the named
assumptions, which the runs evaluate on their instances. A hypothesis in a theorem's
statement is one that the code needs and does not establish.

* **FileTableProofs**, for any tree, number of Files, table size and path buffer:
  `Typing`, `ReferencesExact` (from `FileCounts`, `DentryCounts` and
  `NegativesAreTransient`), `CwdStaysValid`, `FlagsFollowDescriptors`,
  `ExitReleasesFiles`, `ExecClosesMarked`. The counts are not inductive alone. The
  invariant `IInv` adds what each step of a call holds: which dentry, which File,
  what is left of the path and of the loop. `CwdStaysValid` needs that whatever a
  path buffer can name has a path that fits the buffer. Assumptions: the constants
  form a tree whose paths `PathOf` spells (`TreeAssumption`), paths handed in are
  sequences of names (`PathAssumption`), and the table has room behind the three
  standard descriptors (`BoundsAssumption`).
* **FileIoProofs**: `SeekIsExact`, for every width of an offset, every file and
  directory that fits in it (`WidthAssumption`) and all arguments
  (`ArgAssumption`), and `OffsetsInRange`. The result of lseek is exact only if the
  offset it starts from is in range, and that is a matter of every other call: the
  invariant `SeekInv` keeps all offsets within their width (reads stop at the end of
  the file, and getdents64, which rewinds over the entries it had read ahead, stays
  within its directory) and says that nothing moves between entering lseek and its
  step.
  Under the same assumptions `WritesAreExact`, `DirentsAreOnce` and `StructsAreWhole`:
  what a call has delivered when it returns, wherever its loops stopped. The invariant
  `IoInv` says what holds in the middle of them: how many bytes the elements before
  the one at hand come to, and that the element has been checked (`Shape`), that the
  console holds the bytes counted so far (`Writing`), that user memory holds the
  records of the entries passed on and that the offset can be taken back to the next
  (`Listing`), and that a call just entered has changed nothing (`Entered`).
  `ReadsAreExact` needs one thing more, that no vector names an address twice
  (`NamedOnce`, a hypothesis of the theorem that the vectors of run `io` meet): the
  code reads the file into each element in turn, so a later element overwrites an
  earlier one and the earlier bytes are no longer there. `Reading` is its invariant.
  What a vector names is the concatenation of its elements; the facts about it
  (`JoinPart`, `JoinStep`) are proved by taking the least index at which they fail.
* **MemoryProofs**, the page allocator, for any memory map (`MapAssumption`) whose pages
  all have a bit within the bitmap (`BitmapAssumption`, see section 6):
  `ScanIsExact`, that the one pass of `allocPages` with its counter finds the first
  fit, by induction on the loop (the least index at which the pass and its
  description differ cannot exist). If no unusable page lies behind the filled part
  of the bitmap (`HolesFilled`; `memory_hole` shows what happens without it):
  `PmmTyping`, `CounterIsExact`, `RunsArePartition` (from `RunsNeverOverlap` and
  `NothingLeaks`). Together they are inductive: the set bits of usable pages are
  exactly the disjoint union of the runs.
* **MemoryProofs**, the object allocator, for any classes, sizes and slab lengths
  (`SlabAssumption`) and any order of calls: `ObjectsNeverOverlap`;
  `UsesPageAllocator`, that Slab implements PmmSpec, so that what is proved of the page
  allocator holds under it (`PagesExactBelow`); and, if no size needs more pages than
  `free` believes (`SizesFit`; `memory_large` shows the other case),
  `NothingAllocatedIsLost` and `NoLegalFreeRefused`. The invariant `SlabInv`: slabs and
  large objects are disjoint runs of the page allocator, every free list is without
  repetition and holds slots of its slab, and the slots in use are the others.
* **ElfExecProofs**, for any number of pages, entries of a table and bytes of a page
  (`LayoutAssumption`), any images with unsigned fields (`ImageAssumption`) and any
  point at which memory runs out: `SpacesStayApart`, `NothingHeldAfterACall`,
  `NoExecLosesAPage`. The invariant `ExecInv` gives each root (in use, being built,
  retired) a set of pages closed under the entries of its tables; the sets are
  disjoint from each other and from the free pages, and what is in neither is lost,
  of which there is none. Filling in a missing level adds one zeroed page to the set
  being built, and destruction gives a closed set back as a whole.
* **KeyboardProofs**, for every ring of at least two places (`RingAssumption`),
  every set of keys whose codes are not the prefix bytes (`KeyAssumption`), any number
  of strokes and every interleaving of the handler and the polling loop:
  `RingImplementsQueue`, that the ring implements EventQueue: one lemma for what a
  push and one for what a poll does to the sequence between the two indices, modulo
  the size. `StrokesDecodeInOrder` and `ModifiersNeverStick`: `OrderInv` cuts the
  bytes sent so far into the strokes they spell (the ends of the strokes are a
  strictly increasing sequence of positions), says how many the decoder has used up
  and what its flags are after the strokes these bytes spell.
* **ConsoleProofs**: `CursorAlwaysRecovers`, for any screen of more than one line
  (`ScreenAssumption`), any number of printers and any values (`ValueAssumption`: text,
  numbers, pointers and the two manipulators). The invariant `CursorInv` says who will
  notice a cursor off the grid: while `cursor_x` is beyond the last column some
  printer is at the test that wraps or in newline, while `cursor_y` is below the last
  line some printer is at newline's test or in scroll.
* **InterruptProofs**, on every board and for every firmware, without an assumption on
  the constants: `TableImplemented`, that Ioapic implements IrqTable, and
  `EntryMaskedWhileWritten`. `TableInv` says that the entry being rewritten is masked
  from the first write to the last, by `init` (`Clearing`) and by `route_irq`
  (`Routing`). `InterruptsAreTransparent`, if drivers route nothing to the vectors of
  exceptions (`VectorsFree`; no code refuses it): `FrameInv` says what is on the stack
  between a stub and the iretq. The fifteen registers are pushed and popped in the orders
  of `irq_entry`, which `PopsReversed` shows to be opposite.
* **InterruptProofs**, `RoutesAreExact`, for every MADT that describes the board
  (`BoardAssumption`: listed chips exist and their ranges do not overlap) and fits the
  arrays of `madt.h` (`MadtFits`: further entries are dropped, and the pins they
  describe are then not found). `RouteInv` follows the boot: what `parse` has read up to entry i,
  the chips `init` has added and the entries it has cleared. From that, the pin
  `route_irq` computes is the one the MADT means, and every pin but the one a driver
  is at obeys what was asked of it.
* **SmpBootProofs**, for any number of processors with distinct entries of
  `per_cpu_data` (`CpuAssumption`): `BootTyping`, `StacksAreOwn`, `EveryCpuHasATask`,
  `NoSwitchToUnsaved`. The invariant says where each processor may be given where
  the BSP is (`Places`), what has been prepared for a processor at each step before
  its release (`Prepared`), and which processors have their task (`TasksMade`). The
  key lemma, `NothingToSwitchTo`, is that no interrupt reaches `schedule` while a
  task is READY.

## 5. What is only model-checked

* Liveness (`CallReturns`, `EnterEndsRead`, `IrqsServed`, `BootSettles`) is outside the
  prover's reach.
* `PanicExact`, `ScreenIsTail` and `ImageExact` compare a state with what a fold or a
  recursive definition computes (a binary search and a walk along frames, the endless
  sheet, the bytes of an image laid out segment by segment); `EntryStack` rests on the
  same contents of memory.
* `InputAccounted` of Keyboard has no proof.
* Initramfs and Clock have no proofs.

## 6. Abstractions to know about

* Memory is visible in program order, as on x86. Compiler reordering of the plain
  stores to `extra_argument` and `goto_address` is not modelled.
* Callers of the allocators free what they were given, with the size they asked for.
* In Keyboard, IRQ 1 may be routed or not. `ioapic::init` masks every line and
  nothing calls `route_irq`, so the kernel as it boots is the second case. In Ioapic
  drivers call `route_irq` and `mask_irq` in any order, one call at a time, but unmask
  only a line they have routed. `mask_irq` itself does not look: unmasking a line that
  was never routed would let it send vector 0.
* Every page has a bit of its own. `pmm::init` rounds `total_pages / 8` down before it
  rounds up to pages, so on a machine where that quotient is a multiple of the page size
  and leaves a remainder, the bits of up to seven last pages lie behind the bitmap's
  pages. Such machines are left out (`BitmapAssumption`).
* A negative number prints nothing: `uint_to_str` loops while the value is above zero.
  `kernel_main` prints error codes that are negative (`kernel_main.cpp:119`, `:288`), of
  which the screen shows the text around them only. Console prints such a number
  too; `ScreenIsTail` makes no claim once one was sent.
* An exception without a stub of its own comes through `isr_stub_generic` as number 255
  without an error code, so the names and the case for an error code that
  `exceptionHandler` has for 10, 11 and 12 (`idt.cpp:27`, `:50`) are out of reach.
  `PanicExact` says nothing of what such a panic is called. No panic prints the address
  an exception was raised at: the trace starts at `kernel_panic`'s own.
* The frames of a panic are those of the compiled code: `-fno-omit-frame-pointer`,
  `printStackTrace` inlined into `kernel_panic`, and `isr_entry` naked.
* The code that Interrupts interrupts is any code: it turns interrupts on and off,
  may empty the keyboard controller and may fault. What the timer's handler does with
  the scheduler is SmpBoot's subject, what the keyboard's does with a byte Keyboard's.
* In FileIo user memory is bytes of the file or the names of entries, enough to see
  which arrived; structures are `STRUCT` bytes of one kind. No element of a vector
  overlaps another or the array, so that reading the array once is reading each element
  when its turn comes.
* In Console a glyph is its character and the pixel row of it; colours are left out.
* The allocators are shared by all processors without a lock. The other processors
  never call them (their code is `ap_main` and the timer handler), so this does not
  show; SmpBoot models all that they execute.
* In Initramfs a failing allocation fails for lack of a counted resource; the
  archives the repository's Makefile builds list directories before their contents,
  the runs allow any order.

## 7. Not modelled

* **Kernel page tables** (`mem/paging.cpp`): `map_page` fills in missing levels once
  per device at boot, on one processor. The same walk for user tables is in ElfExec.
* **`proc/dynlink.cpp`**: nothing calls it, so no state it may meet can be read off
  the source. The same holds of `timer_oneshot` and `timer_stop` of the local APIC.
* **`ps2::init`**: the handshake with the controller; Keyboard starts in the state it
  leaves. The wait on the PIT is only what calibration may measure.
* **Two processors with one entry of `per_cpu_data`**: the identities Limine reports
  are taken to be distinct (`CpuAssumption`); no code checks it.
* **F_SETFL**: it sets O_APPEND, which has no effect on a file system without write.
* **cpio header arithmetic** in `fs/initramfs.cpp`: an entry is well formed or not.
* **Encodings and tables** (GDT, IDT and page-table bits other than the ones ElfExec
  needs), register moves of `syscall_entry.S`, wording of messages.
* **The C library and C++ support, user programs, Limine**: string routines and
  stubs; callers of system calls, any of which the models let them make; external.
