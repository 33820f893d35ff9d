------------------------------- MODULE ElfExec -------------------------------
(***************************************************************************)
(* Building, switching to and tearing down a user address space:           *)
(* proc/elf_exec.cpp, with its callers launch_static (the first program),  *)
(* sys_execve and sys_exit.                                                *)
(*                                                                         *)
(* Physical memory is modelled as it is used: a page is a row of cells, a  *)
(* cell is a page table entry or a byte.  A table has ENTRIES entries of   *)
(* which the lower half of the root is user space; a page has PAGE_SIZE    *)
(* bytes.  Everything is scaled down (ENTRIES is 512 in the code, and the  *)
(* page 4096 bytes), the four levels of tables are kept.  Every allocation *)
(* may fail, because memory may be exhausted at any point.                 *)
(*                                                                         *)
(* The file is abstract: its byte at offset k is the value k + 1, so that  *)
(* a byte that ends up in the wrong place is told apart, and 0 is a byte   *)
(* nobody wrote.                                                           *)
(***************************************************************************)
EXTENDS Integers, Sequences, FiniteSets

CONSTANTS
  PAGES,             \* physical pages the allocator manages: 1 .. PAGES
  ENTRIES,           \* entries of a table
  PAGE_SIZE,         \* bytes of a page
  USER_STACK_TOP,    \* the stack lies below this address,
  USER_STACK_PAGES,  \* and has this many pages
  PIE_BASE,          \* where a position-independent image is placed
  UINT64_MAX,        \* the largest address a register holds
  WORD,              \* bytes of a uint64_t
  STACK_ALIGN,       \* the alignment of the initial stack pointer
  AUX_WORDS,         \* words of the auxiliary vector
  MAX_STACK_STRINGS, \* bytes of strings the stack may hold
  NX_ENABLED,        \* cpu_has_nx()
  Images,            \* the executables of the file system
  Args               \* argument vectors: [argv, envp], sequences of string lengths

Page == 1 .. PAGES
KernelRoot == 0  \* the boot page tables, outside the allocator's pages

UserEntries == ENTRIES \div 2
USER_TOP == UserEntries * ENTRIES * ENTRIES * ENTRIES * PAGE_SIZE
StackBottom == USER_STACK_TOP - USER_STACK_PAGES * PAGE_SIZE

ASSUME LayoutAssumption ==
  /\ PAGES \in Nat /\ ENTRIES \in Nat \ {0} /\ PAGE_SIZE \in Nat \ {0}
  /\ {USER_STACK_TOP, USER_STACK_PAGES, PIE_BASE} \subseteq Nat
  /\ USER_STACK_TOP % PAGE_SIZE = 0 /\ USER_STACK_TOP <= USER_TOP
  /\ PIE_BASE % PAGE_SIZE = 0 /\ USER_TOP < UINT64_MAX
  /\ USER_STACK_TOP % STACK_ALIGN = 0

\* A program header, the fields of which are unsigned numbers.
Segment ==
  [offset : Nat, filesz : Nat, vaddr : Nat, memsz : Nat, align : Nat, w : BOOLEAN, x : BOOLEAN]

ASSUME ImageAssumption == \A img \in Images : img.segments \in Seq(Segment)

\* A cell of a page: a table entry (page 0: not present) or a byte.
Zero == [page |-> 0, w |-> FALSE, nx |-> FALSE, byte |-> 0]
Slots == 0 .. (IF ENTRIES > PAGE_SIZE THEN ENTRIES ELSE PAGE_SIZE) - 1
ZeroPage == [i \in Slots |-> Zero]
\* A page that nobody owns holds whatever was left in it: not zeros.
JunkPage == [i \in Slots |-> [Zero EXCEPT !.byte = 99]]

VARIABLES
  mem,               \* contents of the physical pages
  free,              \* the pages pmm::allocPage may return
  cr3,               \* the root the CPU translates with
  active_root_phys,  \* the user address space in use, 0 if none
  buffers,           \* slab memory held: "storage" of sys_execve, "file_data" of load_image
  running,           \* the image user code was last started from
  call               \* the exec in progress

memVars == << mem, free >>
rootVars == << cr3, active_root_phys, running >>
vars == << mem, free, cr3, active_root_phys, buffers, running, call >>

NoImage == [img |-> "none"]

Init ==
  /\ mem = [p \in Page |-> JunkPage]
  /\ free \in { 1 .. n : n \in 0 .. PAGES }
  /\ cr3 = KernelRoot /\ active_root_phys = 0
  /\ buffers = {}
  /\ running = NoImage
  /\ call = [pc |-> "boot"]

-----------------------------------------------------------------------------
(* Page tables.                                                            *)

\* pmm::allocPage takes the lowest page; the caller clears it.
LowestFree == CHOOSE p \in free : \A q \in free : p <= q

\* Mutant: the page is not cleared.
MutNotCleared(m) == m

allocate_zeroed_page(m) == [m EXCEPT ![LowestFree] = ZeroPage]

\* The bytes an entry of a table of each level stands for, the root being level 4.
Span == << PAGE_SIZE, PAGE_SIZE * ENTRIES, PAGE_SIZE * ENTRIES * ENTRIES,
           PAGE_SIZE * ENTRIES * ENTRIES * ENTRIES >>

\* The index of address a in the table of a level.
Index(a, level) == (a \div Span[level]) % ENTRIES

\* The table of a level that translates a, 0 when an entry above is missing.
Table3(m, root, a) == m[root][Index(a, 4)].page
Table2(m, root, a) ==
  IF Table3(m, root, a) = 0 THEN 0 ELSE m[Table3(m, root, a)][Index(a, 3)].page
Table1(m, root, a) ==
  IF Table2(m, root, a) = 0 THEN 0 ELSE m[Table2(m, root, a)][Index(a, 2)].page

\* Neither locate_pte nor map_user_page enters the kernel half of the root.
InUserHalf(a) == Index(a, 4) < UserEntries

locate_pte(m, root, a) ==
  IF ~InUserHalf(a) \/ Table1(m, root, a) = 0 THEN Zero
  ELSE m[Table1(m, root, a)][Index(a, 1)]

Children(m, p) == { m[p][i].page : i \in { j \in 0 .. ENTRIES - 1 : m[p][j].page # 0 } }

\* destroy_table_tree frees what a table of a level leads to, then the table.
Tree1(m, p) == {p} \cup Children(m, p)
Tree2(m, p) == {p} \cup UNION { Tree1(m, q) : q \in Children(m, p) }
Tree3(m, p) == {p} \cup UNION { Tree2(m, q) : q \in Children(m, p) }

\* destroy_address_space visits the user half of the root only.
SpacePages(m, root) ==
  IF root = 0 THEN {}
  ELSE {root} \cup UNION { Tree3(m, m[root][i].page)
                           : i \in { j \in 0 .. UserEntries - 1 : m[root][j].page # 0 } }

Release(pages) ==
  /\ free' = free \cup pages
  /\ mem' = [p \in Page |-> IF p \in pages THEN JunkPage ELSE mem[p]]

\* What the tables hold for the address a, outside the walk.
Byte(m, root, a) == m[locate_pte(m, root, a).page][a % PAGE_SIZE].byte

\* copy_to_space works while the pages are there.
Mapped(m, root, first, n) ==
  \A a \in first .. first + n - 1 : a < USER_TOP /\ locate_pte(m, root, a).page # 0

copy_to_space(m, root, first, n, bytes) ==
  [p \in Page |-> [i \in Slots |->
     LET hit == { a \in first .. first + n - 1 :
                    locate_pte(m, root, a).page = p /\ a % PAGE_SIZE = i }
     IN  IF hit = {} THEN m[p][i]
         ELSE [m[p][i] EXCEPT !.byte = bytes[(CHOOSE a \in hit : TRUE) - first]]]]

-----------------------------------------------------------------------------
(* Checks on the program headers.                                          *)

range_valid(offset, length, total) == offset <= total /\ length <= total - offset

PowersOfTwo == { 2^k : k \in 0 .. 6 }

aligned_valid(s) ==
  s.align <= 1 \/ (s.align \in PowersOfTwo /\ s.vaddr % s.align = s.offset % s.align)

bias(img) == IF img.type = "DYN" THEN PIE_BASE ELSE 0
Start(img, s) == s.vaddr + bias(img)
End(img, s) == Start(img, s) + s.memsz

segment_range(img, s) ==
  /\ s.vaddr <= UINT64_MAX - bias(img)
  /\ s.memsz <= UINT64_MAX - Start(img, s)
  /\ End(img, s) <= USER_TOP
  /\ s.memsz # 0 => Start(img, s) >= PAGE_SIZE /\ End(img, s) <= StackBottom

overlaps(img, s, t) == Start(img, s) < End(img, t) /\ Start(img, t) < End(img, s)

segment_valid(img, s) ==
  /\ s.filesz <= s.memsz
  /\ range_valid(s.offset, s.filesz, img.size)
  /\ aligned_valid(s)
  /\ segment_range(img, s)
  /\ ~(s.w /\ s.x)

\* The checks of load_image between reading the file and taking the first page:
\* header, no interpreter, dynamic section only in a position-independent image.
image_valid(img) ==
  /\ img.header
  /\ img.entry <= UINT64_MAX - bias(img)
  /\ img.segments # << >>
  /\ img.dynamic # "none" => img.type = "DYN"
  /\ \A i \in DOMAIN img.segments :
       /\ segment_valid(img, img.segments[i])
       /\ \A j \in 1 .. i - 1 :
            img.segments[i].memsz # 0 /\ img.segments[j].memsz # 0 =>
              ~overlaps(img, img.segments[i], img.segments[j])
  /\ \E i \in DOMAIN img.segments :
       LET s == img.segments[i]
       IN  /\ s.memsz # 0 /\ s.x
           /\ img.entry + bias(img) \in Start(img, s) .. End(img, s) - 1

segment_is_writable(img, a) ==
  \E i \in DOMAIN img.segments :
    LET s == img.segments[i]
    IN  s.w /\ segment_range(img, s) /\ a >= Start(img, s) /\ a + WORD <= End(img, s)

-----------------------------------------------------------------------------
(* load_image.                                                             *)

Going(pc) == call.pc = pc

Step(pc) == call' = [call EXCEPT !.pc = pc]

\* The exec ends in an error: user code goes on, or the kernel panics when there
\* is none yet.  storage is given back by sys_execve.
Fails(held) ==
  /\ buffers' = buffers \ (held \cup {"storage"})
  /\ call' = [pc |-> IF running = NoImage THEN "panic" ELSE "user"]
  /\ UNCHANGED rootVars

NewCall(pc, img, args) ==
  [pc |-> pc, img |-> img, args |-> args, root |-> 0, seg |-> 1, at |-> 0, ok |-> TRUE]

\* launch_static runs load_image directly, without arguments.
launch_static(img) ==
  /\ Going("boot")
  /\ call' = NewCall("open", img, [argv |-> << >>, envp |-> << >>])
  /\ UNCHANGED << memVars, rootVars, buffers >>

\* sys_execve takes a buffer for the argument strings first.
sys_execve(img, args) ==
  /\ Going("user")
  /\ call' = NewCall("strings", img, args)
  /\ buffers' = buffers \cup {"storage"}
  /\ UNCHANGED << memVars, rootVars >>

CopyVectors ==
  /\ Going("strings")
  /\ \/ Step("open") /\ UNCHANGED << buffers, rootVars >>
     \/ Fails({})
  /\ UNCHANGED memVars

\* The file is read into a buffer of its own; too small, too large, unreadable or
\* without memory for the buffer, it is refused.
ReadFile ==
  /\ Going("open")
  /\ \/ Step("check") /\ buffers' = buffers \cup {"file_data"} /\ UNCHANGED rootVars
     \/ Fails({})
  /\ UNCHANGED memVars

CheckHeaders ==
  /\ Going("check")
  /\ IF image_valid(call.img) THEN Step("create") /\ UNCHANGED << buffers, rootVars >>
     ELSE Fails({"file_data"})
  /\ UNCHANGED memVars

\* The root's kernel half is copied from the boot tables; those pages are never
\* reached from the user half, and the model leaves the entries out.
create_address_space ==
  /\ Going("create")
  /\ IF free = {} THEN Fails({"file_data"}) /\ UNCHANGED memVars
     ELSE /\ mem' = allocate_zeroed_page(mem)
          /\ free' = free \ {LowestFree}
          /\ call' = [call EXCEPT !.pc = "map", !.root = LowestFree,
                                  !.at = (Start(call.img, call.img.segments[1]) \div PAGE_SIZE) * PAGE_SIZE]
          /\ UNCHANGED << buffers, rootVars >>

\* Where map_user_page has to put an entry next for address a: the first table
\* that lacks one, 0 when all are there.
Missing(m, root, a) ==
  CASE Table3(m, root, a) = 0 -> [table |-> root, level |-> 4]
    [] Table3(m, root, a) # 0 /\ Table2(m, root, a) = 0 ->
         [table |-> Table3(m, root, a), level |-> 3]
    [] Table2(m, root, a) # 0 /\ Table1(m, root, a) = 0 ->
         [table |-> Table2(m, root, a), level |-> 2]
    [] OTHER -> [table |-> Table1(m, root, a), level |-> 1]

\* One turn of map_user_page: a missing table or leaf is allocated and linked, and
\* a leaf that is already there gains the flags; then the caller's loop goes on.
\* For an address of the kernel half, or out of memory, the image is given up;
\* what is linked so far stays linked.
map_user_page(a, w, nx, next) ==
  LET at == Missing(mem, call.root, a)
      i == Index(a, at.level)
      leaf == locate_pte(mem, call.root, a)
  IN  IF leaf.page # 0
      THEN /\ mem' = [mem EXCEPT ![at.table][i] = [leaf EXCEPT !.w = @ \/ w, !.nx = @ /\ nx]]
           /\ call' = next
           /\ UNCHANGED free
      ELSE IF ~InUserHalf(a) \/ free = {}
      THEN /\ call' = [call EXCEPT !.pc = "finish", !.ok = FALSE]
           /\ UNCHANGED memVars
      ELSE /\ mem' = [allocate_zeroed_page(mem) EXCEPT
                        ![at.table][i] = [page |-> LowestFree, byte |-> 0,
                                          w |-> at.level > 1 \/ w, nx |-> at.level = 1 /\ nx]]
           /\ free' = free \ {LowestFree}
           /\ call' = IF at.level = 1 THEN next ELSE call

Seg == call.img.segments[call.seg]

\* page_end: the first page boundary from the segment's end on.
PageEnd(img, s) == ((End(img, s) + PAGE_SIZE - 1) \div PAGE_SIZE) * PAGE_SIZE

\* The loop of map_segment over the pages of a segment.
MapSegment ==
  /\ Going("map")
  /\ Seg.memsz # 0 /\ call.at < PageEnd(call.img, Seg)
  /\ map_user_page(call.at, Seg.w, NX_ENABLED /\ ~Seg.x, [call EXCEPT !.at = @ + PAGE_SIZE])
  /\ UNCHANGED << rootVars, buffers >>

NextSegment ==
  IF call.seg = Len(call.img.segments)
  THEN [call EXCEPT !.pc = "relocate", !.at = 1]
  ELSE [call EXCEPT !.seg = @ + 1,
                    !.at = (Start(call.img, call.img.segments[call.seg + 1]) \div PAGE_SIZE) * PAGE_SIZE]

\* The segment's pages are there; its bytes in the file are copied in.
CopySegment ==
  /\ Going("map")
  /\ Seg.memsz = 0 \/ call.at >= PageEnd(call.img, Seg)
  /\ LET first == Start(call.img, Seg)
     IN  IF Mapped(mem, call.root, first, Seg.filesz)
         THEN /\ mem' = copy_to_space(mem, call.root, first, Seg.filesz,
                                      [k \in 0 .. Seg.filesz - 1 |-> Seg.offset + k + 1])
              /\ call' = NextSegment
         ELSE /\ call' = [call EXCEPT !.pc = "finish", !.ok = FALSE]
              /\ UNCHANGED mem
  /\ UNCHANGED << free, rootVars, buffers >>

\* One relocation, or none left and the address of the program headers is worked
\* out.  A dynamic section the loader cannot read, or a word outside the writable
\* segments, gives the image up.
RelocatedByte == 0 - 1

apply_relative_relocations ==
  /\ Going("relocate")
  /\ IF call.img.dynamic = "none" \/ (call.img.dynamic = "ok" /\ call.at > Len(call.img.relocs))
     THEN /\ call' = IF call.img.phdr > UINT64_MAX - bias(call.img)
                     THEN [call EXCEPT !.pc = "finish", !.ok = FALSE]
                     ELSE [call EXCEPT !.pc = "stack", !.at = StackBottom]
          /\ UNCHANGED mem
     ELSE LET target == call.img.relocs[call.at] + bias(call.img)
          IN  IF /\ call.img.dynamic = "ok"
                 /\ segment_is_writable(call.img, target)
                 /\ Mapped(mem, call.root, target, WORD)
              THEN /\ mem' = copy_to_space(mem, call.root, target, WORD,
                                           [k \in 0 .. WORD - 1 |-> RelocatedByte])
                   /\ call' = [call EXCEPT !.at = @ + 1]
              ELSE /\ call' = [call EXCEPT !.pc = "finish", !.ok = FALSE]
                   /\ UNCHANGED mem
  /\ UNCHANGED << free, rootVars, buffers >>

\* map_user_stack: the pages, then what user code finds on its stack.
MapStack ==
  /\ Going("stack")
  /\ call.at < USER_STACK_TOP
  /\ map_user_page(call.at, TRUE, NX_ENABLED, [call EXCEPT !.at = @ + PAGE_SIZE])
  /\ UNCHANGED << rootVars, buffers >>

\* The strings lie below the top, the last one highest: envp, argv, the path.
Strings(img, args) == << img.path >> \o args.argv \o args.envp

\* Bytes from the string numbered i up to the top of the stack.
StringBytes(lens) ==
  LET from[i \in 1 .. Len(lens) + 1] ==
        IF i = Len(lens) + 1 THEN 0 ELSE lens[i] + from[i + 1]
  IN  from

StringAt(lens, i) == USER_STACK_TOP - StringBytes(lens)[i]

StringByte(i, k) == 0 - 10 * i - k

\* argc, the two vectors with their null words, and the auxiliary vector.
VectorWords(args) == 1 + Len(args.argv) + 1 + Len(args.envp) + 1 + AUX_WORDS

\* Mutant: the auxiliary vector is not counted.
MutVectorShort(img, args) ==
  ((StringAt(Strings(img, args), 1) - (VectorWords(args) - AUX_WORDS) * WORD) \div STACK_ALIGN)
    * STACK_ALIGN

StackPointer(img, args) ==
  ((StringAt(Strings(img, args), 1) - VectorWords(args) * WORD) \div STACK_ALIGN) * STACK_ALIGN

StackFits(img, args) ==
  LET total == StringBytes(Strings(img, args))[1]
  IN  /\ total <= MAX_STACK_STRINGS /\ total <= USER_STACK_TOP - StackBottom
      /\ VectorWords(args) <= (USER_STACK_TOP - total - StackBottom) \div WORD
      /\ StackPointer(img, args) >= StackBottom

\* The word numbered i from the stack pointer: argc, then the addresses of the
\* strings (argv's are the strings 2 on).  Of the auxiliary vector the model keeps
\* the one address in it, that of the path, as its first word.
StackWord(img, args, i) ==
  LET lens == Strings(img, args)
      argc == Len(args.argv)
      envc == Len(args.envp)
  IN  CASE i = 0 -> argc
        [] i \in 1 .. argc -> StringAt(lens, i + 1)
        [] i \in argc + 2 .. argc + 1 + envc -> StringAt(lens, i)
        [] i = argc + envc + 3 -> StringAt(lens, 1)
        [] OTHER -> 0

\* The strings are copied first, the words over whatever is there.
StackByte(img, args, a) ==
  LET lens == Strings(img, args)
      sp == StackPointer(img, args)
      hit == { i \in DOMAIN lens : a \in StringAt(lens, i) .. StringAt(lens, i) + lens[i] - 1 }
      string == CHOOSE i \in hit : TRUE
  IN  IF a \in sp .. sp + VectorWords(args) * WORD - 1
      THEN IF (a - sp) % WORD = 0 THEN StackWord(img, args, (a - sp) \div WORD) ELSE 0
      ELSE IF hit # {} THEN StringByte(string, a - StringAt(lens, string)) ELSE 0

FillStack ==
  /\ Going("stack")
  /\ call.at = USER_STACK_TOP
  /\ IF StackFits(call.img, call.args)
     THEN /\ mem' = copy_to_space(mem, call.root, StackBottom, USER_STACK_TOP - StackBottom,
                                  [k \in 0 .. USER_STACK_TOP - StackBottom - 1 |->
                                     StackByte(call.img, call.args, StackBottom + k)])
          /\ Step("finish")
     ELSE /\ call' = [call EXCEPT !.pc = "finish", !.ok = FALSE]
          /\ UNCHANGED mem
  /\ UNCHANGED << free, rootVars, buffers >>

\* Mutant: the failed image's pages are not given back.
MutFinishLeaks ==
  /\ Going("finish")
  /\ IF call.ok
     THEN /\ buffers' = buffers \ {"file_data", "storage"}
          /\ Step("switch")
          /\ UNCHANGED << memVars, rootVars >>
     ELSE Fails({"file_data"}) /\ UNCHANGED memVars

\* Mutant: the file's buffer is given back on success only.
MutFinishKeepsFile ==
  /\ Going("finish")
  /\ IF call.ok
     THEN /\ buffers' = buffers \ {"file_data", "storage"}
          /\ Step("switch")
          /\ UNCHANGED << memVars, rootVars >>
     ELSE /\ Release(SpacePages(mem, call.root))
          /\ Fails({})

\* The end of load_image and, for an exec, the release of storage.
Finish ==
  /\ Going("finish")
  /\ IF call.ok
     THEN /\ buffers' = buffers \ {"file_data", "storage"}
          /\ Step("switch")
          /\ UNCHANGED << memVars, rootVars >>
     ELSE /\ Release(SpacePages(mem, call.root))
          /\ Fails({"file_data"})

-----------------------------------------------------------------------------
(* Switching.                                                              *)

\* Mutant: old_root is read after active_root_phys was overwritten.
MutOldRootLate ==
  /\ Going("switch")
  /\ cr3' = call.root
  /\ active_root_phys' = call.root
  /\ running' = [img |-> call.img, args |-> call.args]
  /\ call' = [call EXCEPT !.pc = "retire", !.at = call.root]
  /\ UNCHANGED << memVars, buffers >>

\* activate, and the end of launch_static: the new root is loaded, ...
activate ==
  /\ Going("switch")
  /\ cr3' = call.root
  /\ active_root_phys' = call.root
  /\ running' = [img |-> call.img, args |-> call.args]
  /\ call' = [call EXCEPT !.pc = "retire", !.at = active_root_phys]
  /\ UNCHANGED << memVars, buffers >>

\* ... then the old space is destroyed; launch_static has none.
Retire ==
  /\ Going("retire")
  /\ Release(SpacePages(mem, call.at))
  /\ call' = [pc |-> "user"]
  /\ UNCHANGED << rootVars, buffers >>

\* sys_exit: back to the boot tables, then the space is destroyed.
terminate_current ==
  /\ Going("user")
  /\ cr3' = KernelRoot
  /\ active_root_phys' = 0
  /\ running' = NoImage
  /\ call' = [pc |-> "exit", at |-> active_root_phys]
  /\ UNCHANGED << memVars, buffers >>

ExitRetires ==
  /\ Going("exit")
  /\ Release(SpacePages(mem, call.at))
  /\ call' = [pc |-> "halted"]
  /\ UNCHANGED << rootVars, buffers >>

Stopped == call.pc \in {"panic", "halted"} /\ UNCHANGED vars

Next ==
  \/ \E img \in Images : launch_static(img)
  \/ \E img \in Images, args \in Args : sys_execve(img, args)
  \/ CopyVectors \/ ReadFile \/ CheckHeaders \/ create_address_space
  \/ MapSegment \/ CopySegment \/ apply_relative_relocations
  \/ MapStack \/ FillStack \/ Finish
  \/ activate \/ Retire
  \/ terminate_current \/ ExitRetires
  \/ Stopped

Spec == Init /\ [][Next]_vars

-----------------------------------------------------------------------------
(* Properties.                                                             *)

Building == IF call.pc \in {"map", "relocate", "stack", "finish", "switch"} THEN call.root ELSE 0
Retiring == IF call.pc \in {"retire", "exit"} THEN call.at ELSE 0

PCs == {"boot", "strings", "open", "check", "create", "map", "relocate", "stack", "finish",
        "switch", "retire", "exit", "user", "panic", "halted"}

\* destroy_address_space never frees what is still in use: the tables and pages of
\* the space the CPU translates with, of the one being built and of the one about
\* to be destroyed are allocated, and no two of the three share a page.
SpacesIntact ==
  LET inUse == << SpacePages(mem, cr3), SpacePages(mem, Building), SpacePages(mem, Retiring) >>
  IN  \A i \in 1 .. 3 :
        /\ inUse[i] \cap free = {}
        /\ \A j \in 1 .. 3 : i # j => inUse[i] \cap inUse[j] = {}

Held == SpacePages(mem, cr3) \cup SpacePages(mem, Building) \cup SpacePages(mem, Retiring)

\* However an exec ends (out of memory half way through a page table, a refused
\* relocation, arguments that do not fit, or success) no page is lost: what is not
\* free is reachable from a space that will be destroyed.
NoPageLeaks == [][free' \cup Held' = free \cup Held]_vars

\* The slab buffers of an exec (the file's bytes, the argument strings) are back
\* by the time user code runs again, on every path, and so is every page outside
\* the running image.
CallsReleaseAll ==
  call.pc \in {"user", "panic", "halted"} => buffers = {} /\ Building = 0 /\ Retiring = 0

StackPage(v) == v * PAGE_SIZE \in StackBottom .. USER_STACK_TOP - 1

Covers(img, s, v) == s.memsz # 0 /\ Start(img, s) < (v + 1) * PAGE_SIZE /\ End(img, s) > v * PAGE_SIZE

\* The byte the file says address a holds, outside the stack.
ImageByte(img, a) ==
  LET hit == { i \in DOMAIN img.segments :
                 a \in Start(img, img.segments[i]) .. End(img, img.segments[i]) - 1 }
      s == img.segments[CHOOSE i \in hit : TRUE]
      k == a - Start(img, s)
  IN  IF img.dynamic = "ok" /\ \E r \in DOMAIN img.relocs :
           a - bias(img) \in img.relocs[r] .. img.relocs[r] + WORD - 1
      THEN RelocatedByte
      ELSE IF hit = {} \/ k >= s.filesz THEN 0 ELSE s.offset + k + 1

UserPages == 0 .. (USER_TOP \div PAGE_SIZE) - 1

\* While a program is loaded its memory is what its file describes, also after a
\* later exec has failed: a page is mapped exactly if a segment or the stack covers
\* part of it, a page that two segments share has the permissions of both, and
\* every byte is the file's, a relocated word, or zero.
ImageExact ==
  active_root_phys # 0 =>
    LET img == running.img
    IN  \A v \in UserPages :
          LET pte == locate_pte(mem, active_root_phys, v * PAGE_SIZE)
              over == { i \in DOMAIN img.segments : Covers(img, img.segments[i], v) }
          IN  /\ (pte.page # 0) <=> (over # {} \/ StackPage(v))
              /\ pte.page # 0 =>
                   /\ pte.w <=> (StackPage(v) \/ \E i \in over : img.segments[i].w)
                   /\ pte.nx <=> (NX_ENABLED /\ \A i \in over : ~img.segments[i].x)
              /\ pte.page # 0 /\ ~StackPage(v) =>
                   \A a \in v * PAGE_SIZE .. (v + 1) * PAGE_SIZE - 1 :
                     Byte(mem, active_root_phys, a) = ImageByte(img, a)

\* What user code finds at its first instruction: an aligned stack pointer within
\* the stack, argc above it, then the two vectors, each ended by a null word, whose
\* entries (and the path's in the auxiliary vector) lead to the strings, whole.
EntryStack ==
  active_root_phys # 0 =>
    LET img == running.img
        args == running.args
        lens == Strings(img, args)
        argc == Len(args.argv)
        envc == Len(args.envp)
        sp == StackPointer(img, args)
        word(i) == Byte(mem, active_root_phys, sp + i * WORD)
        leadsTo(i, string) ==
          \A k \in 0 .. lens[string] - 1 :
            /\ word(i) + k \in StackBottom .. USER_STACK_TOP - 1
            /\ Byte(mem, active_root_phys, word(i) + k) = StringByte(string, k)
    IN  /\ sp >= StackBottom /\ sp % STACK_ALIGN = 0
        /\ word(0) = argc
        /\ word(argc + 1) = 0 /\ word(argc + envc + 2) = 0
        /\ \A i \in 1 .. argc : leadsTo(i, 1 + i)
        /\ \A i \in 1 .. envc : leadsTo(argc + 1 + i, 1 + argc + i)
        /\ leadsTo(argc + envc + 3, 1)
=============================================================================
