-------------------------------- MODULE Slab ---------------------------------
(***************************************************************************)
(* The kernel's object allocator, mem/slab.cpp, on top of the page         *)
(* allocator, with the callers that take whole pages for page tables and   *)
(* user memory (proc/elf_exec.cpp) beside it.                              *)
(*                                                                         *)
(* An address is a number: page p begins at p * PAGE_SIZE.  A slab is a    *)
(* record of its first page, how many objects it has, its free list (as    *)
(* the sequence of addresses the links spell) and its free counter.        *)
(***************************************************************************)
EXTENDS Pmm

CONSTANTS
  SLAB_SIZE_MIN,          \* 16
  NUM_SLAB_CACHES,        \* 9: sizes 16, 32, ... 4096
  HEADER,                 \* sizeof(SlabHeader)
  MIN_OBJS,               \* 4: a slab has room for that many objects
  LARGE_OBJ_HEADER_SIZE,  \* sizeof(LargeObjHeader)
  MAX_LARGE_PAGES,        \* 1024: free takes a larger header for a damaged one
  Sizes,                  \* the sizes callers ask for
  MaxLive                 \* bound: objects and pages held at a time

VARIABLES
  slab_caches,  \* for every size class its slabs, newest first
  large,        \* LargeObjHeader.pages at the pages where large objects begin
  objects,      \* what callers hold: address and size
  complaint     \* what the allocator has complained of: "none", "panic" or "header"

slabVars == << slab_caches, large, objects, complaint >>
vars == << pmmVars, slabVars >>

Cache == 0 .. NUM_SLAB_CACHES - 1
index_to_size(idx) == SLAB_SIZE_MIN * 2^idx
SLAB_SIZE_MAX == index_to_size(NUM_SLAB_CACHES - 1)

\* Mutant: a size goes to the largest class that is not above it.
MutRoundDown(size) ==
  CHOOSE idx \in Cache : /\ idx = 0 \/ index_to_size(idx) <= size
                         /\ \A i \in Cache : i > idx => index_to_size(i) > size

\* The smallest class that holds size.
size_to_index(size) ==
  CHOOSE idx \in Cache : /\ size <= index_to_size(idx)
                         /\ \A i \in 0 .. idx - 1 : index_to_size(i) < size

PagesFor(bytes) == (bytes + PAGE_SIZE - 1) \div PAGE_SIZE

-----------------------------------------------------------------------------
(* Slabs.                                                                  *)

slab_pages(idx) == PagesFor(HEADER + index_to_size(idx) * MIN_OBJS)

total_objs(idx) == (slab_pages(idx) * PAGE_SIZE - HEADER) \div index_to_size(idx)

Slot(page, idx, i) == page * PAGE_SIZE + HEADER + i * index_to_size(idx)

\* The slots are pushed in order, so the last one comes off first.
create_slab(page, idx) ==
  [page |-> page, total |-> total_objs(idx), free_count |-> total_objs(idx),
   free_list |-> [k \in 1 .. total_objs(idx) |-> Slot(page, idx, total_objs(idx) - k)]]

InSlab(slab, idx, ptr) ==
  /\ ptr >= slab.page * PAGE_SIZE
  /\ ptr < slab.page * PAGE_SIZE + HEADER + slab.total * index_to_size(idx)

Pop(slab) == [slab EXCEPT !.free_list = Tail(@), !.free_count = @ - 1]

Push(slab, ptr) == [slab EXCEPT !.free_list = << ptr >> \o @, !.free_count = @ + 1]

-----------------------------------------------------------------------------
(* alloc.                                                                  *)

\* The first slab of the class with a free object.
FirstWithRoom(idx, k) ==
  /\ k \in DOMAIN slab_caches[idx] /\ slab_caches[idx][k].free_count > 0
  /\ \A j \in 1 .. k - 1 : slab_caches[idx][j].free_count = 0

\* The head of the free list is checked against the slab before it is used.
alloc_from(size, k) ==
  LET idx == size_to_index(size)
      slab == slab_caches[idx][k]
      obj == Head(slab.free_list)
      sound == /\ obj >= slab.page * PAGE_SIZE + HEADER
               /\ InSlab(slab, idx, obj)
  IN  /\ FirstWithRoom(idx, k)
      /\ IF sound
         THEN /\ slab_caches' = [slab_caches EXCEPT ![idx][k] = Pop(@)]
              /\ objects' = objects \cup {[ptr |-> obj, size |-> size]}
              /\ UNCHANGED complaint
         ELSE complaint' = "panic" /\ UNCHANGED << slab_caches, objects >>
      /\ UNCHANGED << pmmVars, large >>

\* No slab of the class has room: a new one goes to the head of the list.
alloc_new_slab(size, page) ==
  LET idx == size_to_index(size)
      slab == create_slab(page, idx)
  IN  /\ \A k \in DOMAIN slab_caches[idx] : slab_caches[idx][k].free_count = 0
      /\ allocPages(page, slab_pages(idx))
      /\ slab_caches' = [slab_caches EXCEPT ![idx] = << Pop(slab) >> \o @]
      /\ objects' = objects \cup {[ptr |-> Head(slab.free_list), size |-> size]}
      /\ UNCHANGED << large, complaint >>

large_pages(size) == PagesFor(size) + 1

\* The sizes and counts the kernel is built with; Counts has every count of pages
\* this allocator and elf_exec ask allocPages for.
ASSUME SlabAssumption ==
  /\ {NUM_SLAB_CACHES, HEADER, MIN_OBJS, LARGE_OBJ_HEADER_SIZE, MAX_LARGE_PAGES} \subseteq Nat \ {0}
  /\ LARGE_OBJ_HEADER_SIZE <= PAGE_SIZE
  /\ Sizes \subseteq Nat \ {0}
  /\ \A idx \in Cache : index_to_size(idx) \in Nat \ {0} /\ slab_pages(idx) \in Counts
  /\ \A size \in Sizes : size > SLAB_SIZE_MAX => large_pages(size) \in Counts
  /\ 1 \in Counts

\* The header goes in front of the object, in pages of its own.
alloc_large(size, page) ==
  /\ allocPages(page, large_pages(size))
  /\ large' = [large EXCEPT ![page] = large_pages(size)]
  /\ objects' = objects \cup {[ptr |-> page * PAGE_SIZE + LARGE_OBJ_HEADER_SIZE, size |-> size]}
  /\ UNCHANGED << slab_caches, complaint >>

alloc(size) ==
  /\ complaint # "panic"
  /\ IF size > SLAB_SIZE_MAX
     THEN \E page \in Page : alloc_large(size, page)
     ELSE \/ \E k \in DOMAIN slab_caches[size_to_index(size)] : alloc_from(size, k)
          \/ \E page \in Page : alloc_new_slab(size, page)

-----------------------------------------------------------------------------
(* free.                                                                   *)

\* The slab of the class the object lies in; an object already on its free list,
\* or in no slab, stops the machine.
free_small(o) ==
  LET idx == size_to_index(o.size)
      cache == slab_caches[idx]
      home == { k \in DOMAIN cache : InSlab(cache[k], idx, o.ptr) }
      k == CHOOSE j \in home : \A i \in home : j <= i
      twice == \E i \in DOMAIN cache[k].free_list : cache[k].free_list[i] = o.ptr
  IN  /\ IF home = {} \/ twice
         THEN complaint' = "panic" /\ UNCHANGED slab_caches
         ELSE /\ slab_caches' = [slab_caches EXCEPT ![idx][k] = Push(@, o.ptr)]
              /\ UNCHANGED complaint
      /\ UNCHANGED << pmmVars, large >>

\* Mutant: the largest count allowed is refused too.
MutRefusesLimit(o) ==
  LET page == (o.ptr - LARGE_OBJ_HEADER_SIZE) \div PAGE_SIZE
  IN  /\ IF large[page] = 0 \/ large[page] >= MAX_LARGE_PAGES
         THEN complaint' = "header" /\ UNCHANGED << pmmVars, large >>
         ELSE /\ freePages(page, large[page])
              /\ large' = [large EXCEPT ![page] = 0]
              /\ UNCHANGED complaint
      /\ UNCHANGED slab_caches

\* Mutant: only the pages of the payload go back.
MutFreePayloadOnly(o) ==
  LET page == (o.ptr - LARGE_OBJ_HEADER_SIZE) \div PAGE_SIZE
  IN  /\ freePages(page, large[page] - 1)
      /\ large' = [large EXCEPT ![page] = 0]
      /\ UNCHANGED << slab_caches, complaint >>

\* The header in front of the object says how many pages go back.
free_large(o) ==
  LET page == (o.ptr - LARGE_OBJ_HEADER_SIZE) \div PAGE_SIZE
  IN  /\ IF large[page] = 0 \/ large[page] > MAX_LARGE_PAGES
         THEN complaint' = "header" /\ UNCHANGED << pmmVars, large >>
         ELSE /\ freePages(page, large[page])
              /\ large' = [large EXCEPT ![page] = 0]  \* dead memory
              /\ UNCHANGED complaint
      /\ UNCHANGED slab_caches

free(o) ==
  /\ complaint # "panic"
  /\ o \in objects
  /\ objects' = objects \ {o}
  /\ IF o.size <= SLAB_SIZE_MAX THEN free_small(o) ELSE free_large(o)

-----------------------------------------------------------------------------
(* Whole pages, taken and given back one at a time by elf_exec.            *)

SlabRuns ==
  UNION { { [start |-> slab_caches[idx][k].page, count |-> slab_pages(idx)]
            : k \in DOMAIN slab_caches[idx] } : idx \in Cache }
LargeRuns == { [start |-> p, count |-> large[p]] : p \in { q \in Page : large[q] # 0 } }
PageRuns == runs \ (SlabRuns \cup LargeRuns)

allocate_zeroed_page(page) == allocPages(page, 1) /\ UNCHANGED slabVars

freePage(r) == r \in PageRuns /\ freePages(r.start, r.count) /\ UNCHANGED slabVars

-----------------------------------------------------------------------------
\* slab::init: one slab of every class, in order; a machine without the memory for
\* them stops there.
Booted == \A idx \in Cache : slab_caches[idx] # << >>

init_cache(idx, page) ==
  /\ slab_caches[idx] = << >> /\ \A i \in 0 .. idx - 1 : slab_caches[i] # << >>
  /\ allocPages(page, slab_pages(idx))
  /\ slab_caches' = [slab_caches EXCEPT ![idx] = << create_slab(page, idx) >>]
  /\ UNCHANGED << large, objects, complaint >>

SlabInit ==
  /\ PmmInit
  /\ slab_caches = [idx \in Cache |-> << >>]
  /\ large = [p \in Page |-> 0]
  /\ objects = {}
  /\ complaint = "none"

SlabNext ==
  \/ \E idx \in Cache, page \in Page : init_cache(idx, page)
  \/ /\ Booted
     /\ Cardinality(objects) + Cardinality(PageRuns) < MaxLive
     /\ \/ \E size \in Sizes : alloc(size)
        \/ \E page \in Page : allocate_zeroed_page(page)
  \/ \E o \in objects : free(o)
  \/ \E r \in PageRuns : freePage(r)

SlabSpec == SlabInit /\ [][SlabNext]_vars

-----------------------------------------------------------------------------
(* Properties.                                                             *)

Bytes(ptr, n) == ptr .. ptr + n - 1

\* No two objects in use overlap, and none reaches out of the pages it was cut
\* from, into a slab's header, a large object's header or a free slot, through
\* any sequence of allocations and frees of all sizes.
ObjectsDisjoint ==
  /\ \A o, q \in objects : o # q => Bytes(o.ptr, o.size) \cap Bytes(q.ptr, q.size) = {}
  /\ \A o \in objects : \E r \in SlabRuns \cup LargeRuns :
       Bytes(o.ptr, o.size) \subseteq
         r.start * PAGE_SIZE + (IF r \in SlabRuns THEN HEADER ELSE LARGE_OBJ_HEADER_SIZE)
           .. (r.start + r.count) * PAGE_SIZE - 1
  /\ \A idx \in Cache : \A k \in DOMAIN slab_caches[idx] :
       \A i \in DOMAIN slab_caches[idx][k].free_list, o \in objects :
         slab_caches[idx][k].free_list[i] \notin Bytes(o.ptr, o.size)

\* The addresses on a slab's list, those of the objects in it, and all it has.
IdleSlots(slab) == { slab.free_list[i] : i \in DOMAIN slab.free_list }
TakenSlots(slab, idx) == { o.ptr : o \in { x \in objects : InSlab(slab, idx, x.ptr) } }
AllSlots(slab, idx) == { Slot(slab.page, idx, i) : i \in 0 .. slab.total - 1 }

\* A slab's counter says how long its free list is, and every slot is on the
\* list once or in use: alloc never follows the end of a list.
SlotsAccounted ==
  \A idx \in Cache : \A k \in DOMAIN slab_caches[idx] :
    LET slab == slab_caches[idx][k]
    IN  /\ slab.free_count = Len(slab.free_list)
        /\ IdleSlots(slab) \cap TakenSlots(slab, idx) = {}
        /\ IdleSlots(slab) \cup TakenSlots(slab, idx) = AllSlots(slab, idx)
        /\ Cardinality(IdleSlots(slab)) = Len(slab.free_list)

\* The allocator never takes a legal free or its own free list for corrupt: none
\* of its panics and complaints is reached by callers that free what they hold.
NoFalseAlarm == complaint = "none"

\* Every run the page allocator has out belongs to a slab, a large object some
\* caller still holds, or a caller that took one page: nothing is lost.
PagesAccounted ==
  /\ SlabRuns \cap LargeRuns = {}
  /\ SlabRuns \cup LargeRuns \subseteq runs
  /\ \A r \in LargeRuns : \E o \in objects :
       o.ptr = r.start * PAGE_SIZE + LARGE_OBJ_HEADER_SIZE /\ o.size > SLAB_SIZE_MAX
  /\ \A r \in PageRuns : r.count = 1

\* Nothing that alloc took is ever lost, a slot of a slab as little as a page.
Accounted == SlotsAccounted /\ PagesAccounted
=============================================================================
