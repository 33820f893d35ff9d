---------------------------- MODULE MemoryProofs -----------------------------
(***************************************************************************)
(* Theorems about the two allocators.  The page allocator keeps its books  *)
(* for every memory map that has no hole behind the filled part of its     *)
(* bitmap, every page size and every set of run lengths.  For every memory *)
(* map and every choice of sizes, the objects of the allocator above it    *)
(* never overlap, every slot and every page is accounted for, no legal     *)
(* free is taken for a corrupt one, and the pages are used as PmmSpec says *)
(* its callers use them.                                                   *)
(*                                                                         *)
(* For the object allocator the inductive invariant is SlabInv; its facts  *)
(* come first: the arithmetic of slots and pages, what one change of the   *)
(* slabs, the objects or the runs leaves of the invariant, that every      *)
(* action keeps it, and that it separates the objects in use.              *)
(***************************************************************************)
EXTENDS Slab, FiniteSetTheorems, WellFoundedInduction, TLAPS

\* Every large object is one whose header free accepts.
SizesFit == \A size \in Sizes : size > SLAB_SIZE_MAX => large_pages(size) <= MAX_LARGE_PAGES

\* size_to_index finds a class for every size that is not large.
Classed ==
  \A size \in Sizes : size <= SLAB_SIZE_MAX =>
    size_to_index(size) \in Cache /\ size <= index_to_size(size_to_index(size))

SlabRecord == [page : Page, total : Nat, free_count : Nat, free_list : Seq(Nat)]

\* The inductive invariant is about the slabs C, the large headers L, the objects O
\* and the runs R; a step changes some of them.
Typed(C, L, O) ==
  /\ Classed
  /\ C \in [Cache -> Seq(SlabRecord)]
  /\ L \in [Page -> Nat]
  /\ O \subseteq [ptr : Nat, size : Sizes]

\* The runs of the page allocator do not overlap.
Apart(R) ==
  /\ R \subseteq [start : Page, count : Nat \ {0}]
  /\ \A r, q \in R : r # q => Run(r.start, r.count) \cap Run(q.start, q.count) = {}

SlabRun(slab, idx) == [start |-> slab.page, count |-> slab_pages(idx)]
LargeRun(L, p) == [start |-> p, count |-> L[p]]

\* Every slab has a run of its own, and so has every large object.
SlabsOwn(C, R) ==
  /\ \A idx \in Cache : \A k \in DOMAIN C[idx] : SlabRun(C[idx][k], idx) \in R
  /\ \A idx, jdx \in Cache : \A k \in DOMAIN C[idx], l \in DOMAIN C[jdx] :
       C[idx][k].page = C[jdx][l].page => idx = jdx /\ k = l
LargeOwn(C, L, R) ==
  /\ \A p \in Page : L[p] # 0 => LargeRun(L, p) \in R
  /\ \A p \in Page : L[p] # 0 =>
       \A idx \in Cache : \A k \in DOMAIN C[idx] : C[idx][k].page # p

\* A run that is neither's is one page.
SinglePages(C, L, R) ==
  \A r \in R : \/ r.count = 1
               \/ \E idx \in Cache : \E k \in DOMAIN C[idx] : r = SlabRun(C[idx][k], idx)
               \/ \E p \in Page : L[p] # 0 /\ r = LargeRun(L, p)

IsSlot(slab, idx, a) == \E i \in 0 .. total_objs(idx) - 1 : a = Slot(slab.page, idx, i)
Idle(slab, a) == \E j \in 1 .. Len(slab.free_list) : slab.free_list[j] = a
Held(O, a) == \E o \in O : o.ptr = a
LargePtr(p) == p * PAGE_SIZE + LARGE_OBJ_HEADER_SIZE

\* Where the objects are, no two at the same place.
SmallPlaced(C, o) ==
  \E k \in DOMAIN C[size_to_index(o.size)] :
    IsSlot(C[size_to_index(o.size)][k], size_to_index(o.size), o.ptr)
LargePlaced(L, o) == \E p \in Page : L[p] = large_pages(o.size) /\ o.ptr = LargePtr(p)
Placed(C, L, O) ==
  /\ \A o \in O : o.size <= SLAB_SIZE_MAX => SmallPlaced(C, o)
  /\ \A o \in O : ~(o.size <= SLAB_SIZE_MAX) => LargePlaced(L, o)
  /\ \A o, q \in O : o.ptr = q.ptr => o = q

\* A free list has slots of its slab, each once, and the counter their number.
ListOK(slab, idx) ==
  /\ slab.total = total_objs(idx)
  /\ slab.free_count = Len(slab.free_list)
  /\ \A j \in 1 .. Len(slab.free_list) : IsSlot(slab, idx, slab.free_list[j])
  /\ \A j, l \in 1 .. Len(slab.free_list) : slab.free_list[j] = slab.free_list[l] => j = l
Lists(C) == \A idx \in Cache : \A k \in DOMAIN C[idx] : ListOK(C[idx][k], idx)

\* A slot that is not on the list is in use, and none is both.
Slots(C, O) ==
  \A idx \in Cache : \A k \in DOMAIN C[idx] : \A i \in 0 .. total_objs(idx) - 1 :
    Idle(C[idx][k], Slot(C[idx][k].page, idx, i)) <=> ~Held(O, Slot(C[idx][k].page, idx, i))

Sound(C, L, O, R) ==
  /\ Typed(C, L, O)
  /\ Apart(R)
  /\ SlabsOwn(C, R)
  /\ LargeOwn(C, L, R)
  /\ SinglePages(C, L, R)
  /\ Placed(C, L, O)
  /\ Lists(C)
  /\ Slots(C, O)

\* Every large header has its object.
Headed(L, O) ==
  \A p \in Page : L[p] # 0 => \E o \in O : ~(o.size <= SLAB_SIZE_MAX) /\ o.ptr = LargePtr(p)

SlabInv ==
  /\ Sound(slab_caches, large, objects, runs)
  /\ \A r \in runs : Run(r.start, r.count) \subseteq used
  /\ complaint \in {"none", "header"}
  /\ SizesFit => complaint = "none" /\ Headed(large, objects)

-----------------------------------------------------------------------------
(* Arithmetic of sizes, pages and slots.                                   *)

\* What \div returns.
LEMMA DivFacts ==
  ASSUME NEW a \in Nat, NEW b \in Nat \ {0}
  PROVE  a \div b \in Nat /\ (a \div b) * b <= a /\ a < (a \div b) * b + b
  OBVIOUS

\* A multiple divides without a rest: how free_large finds the page of a header.
LEMMA DivMul ==
  ASSUME NEW a \in Nat, NEW b \in Nat \ {0}
  PROVE  (a * b) \div b = a
  OBVIOUS

\* Products grow with a factor.
LEMMA Monotone ==
  ASSUME NEW a \in Nat, NEW b \in Nat, NEW c \in Nat, a <= b
  PROVE  a * c <= b * c
  OBVIOUS

\* Different multiples are a whole step apart.
LEMMA Steps ==
  ASSUME NEW a \in Nat, NEW b \in Nat, NEW c \in Nat, a < b
  PROVE  a * c + c <= b * c
  OBVIOUS

\* PagesFor rounds up.
LEMMA PagesHold ==
  ASSUME NEW bytes \in Nat \ {0}
  PROVE  PagesFor(bytes) \in Nat \ {0} /\ bytes <= PagesFor(bytes) * PAGE_SIZE
<1> DEFINE q == (bytes + PAGE_SIZE - 1) \div PAGE_SIZE
<1>1. PAGE_SIZE \in Nat \ {0}
  BY MapAssumption, Zenon
<1>2. q \in Nat /\ bytes + PAGE_SIZE - 1 < q * PAGE_SIZE + PAGE_SIZE
  BY <1>1, DivFacts
<1>3. q * PAGE_SIZE \in Nat
  BY <1>1, <1>2
<1>4. bytes <= q * PAGE_SIZE
  BY <1>1, <1>2, <1>3
<1>5. q # 0
  BY <1>1, <1>4
<1> QED
  BY <1>2, <1>4, <1>5, Zenon DEF PagesFor

\* A slab has room for an object at least, and its objects for their bytes.
LEMMA ClassFacts ==
  ASSUME NEW idx \in Cache
  PROVE  /\ index_to_size(idx) \in Nat \ {0}
         /\ slab_pages(idx) \in Nat \ {0}
         /\ slab_pages(idx) \in Counts
         /\ total_objs(idx) \in Nat \ {0}
         /\ HEADER + total_objs(idx) * index_to_size(idx) <= slab_pages(idx) * PAGE_SIZE
<1> DEFINE s == index_to_size(idx)
           bytes == slab_pages(idx) * PAGE_SIZE
<1>1. s \in Nat \ {0} /\ HEADER \in Nat \ {0} /\ MIN_OBJS \in Nat \ {0} /\ PAGE_SIZE \in Nat \ {0}
  BY SlabAssumption, MapAssumption, Zenon
<1>2. slab_pages(idx) \in Counts
  BY SlabAssumption, Zenon
<1> HIDE DEF s
<1>3. s <= s * MIN_OBJS /\ s * MIN_OBJS \in Nat
  BY <1>1
<1>4. /\ slab_pages(idx) \in Nat \ {0}
      /\ HEADER + s * MIN_OBJS <= bytes
  BY <1>1, <1>3, PagesHold DEF slab_pages, s
<1>5. bytes \in Nat
  BY <1>1, <1>4
<1> HIDE DEF bytes
<1>6. bytes - HEADER \in Nat /\ s <= bytes - HEADER
  BY <1>1, <1>3, <1>4, <1>5
<1> DEFINE t == (bytes - HEADER) \div s
<1>7. t \in Nat /\ t * s <= bytes - HEADER /\ bytes - HEADER < t * s + s
  BY <1>1, <1>6, DivFacts, Zenon
<1>8. t = total_objs(idx)
  BY Zenon DEF total_objs, s, bytes
<1> HIDE DEF t
<1>9. t # 0
  BY <1>1, <1>6, <1>7
<1>10. t * s \in Nat
  BY <1>1, <1>7
<1>11. HEADER + t * s <= bytes
  BY <1>1, <1>5, <1>7, <1>10
<1> QED
  BY <1>1, <1>2, <1>4, <1>7, <1>8, <1>9, <1>11, Zenon DEF s, bytes

\* A large object fits behind its header.
LEMMA LargeFits ==
  ASSUME NEW size \in Sizes
  PROVE  /\ size \in Nat \ {0} /\ large_pages(size) \in Nat \ {0} /\ large_pages(size) > 1
         /\ LARGE_OBJ_HEADER_SIZE + size <= large_pages(size) * PAGE_SIZE
<1>1. size \in Nat \ {0} /\ PAGE_SIZE \in Nat \ {0} /\ LARGE_OBJ_HEADER_SIZE \in Nat \ {0}
      /\ LARGE_OBJ_HEADER_SIZE <= PAGE_SIZE
  BY SlabAssumption, MapAssumption, Zenon
<1>2. PagesFor(size) \in Nat \ {0} /\ size <= PagesFor(size) * PAGE_SIZE
  BY <1>1, PagesHold, Zenon
<1>3. (PagesFor(size) + 1) * PAGE_SIZE = PagesFor(size) * PAGE_SIZE + PAGE_SIZE
  BY <1>1, <1>2
<1>4. PagesFor(size) * PAGE_SIZE \in Nat
  BY <1>1, <1>2
<1> QED
  BY <1>1, <1>2, <1>3, <1>4 DEF large_pages

\* The slots of a slab lie between its header and its end.
LEMMA SlotIn ==
  ASSUME NEW p \in Nat, NEW idx \in Cache, NEW i \in 0 .. total_objs(idx) - 1
  PROVE  /\ Slot(p, idx, i) \in Nat
         /\ p * PAGE_SIZE + HEADER <= Slot(p, idx, i)
         /\ Slot(p, idx, i) + index_to_size(idx)
              <= p * PAGE_SIZE + HEADER + total_objs(idx) * index_to_size(idx)
         /\ Slot(p, idx, i) + index_to_size(idx) <= (p + slab_pages(idx)) * PAGE_SIZE
<1> DEFINE s == index_to_size(idx)
           t == total_objs(idx)
           n == slab_pages(idx)
<1>1. s \in Nat \ {0} /\ t \in Nat \ {0} /\ n \in Nat \ {0} /\ HEADER + t * s <= n * PAGE_SIZE
  BY ClassFacts, Zenon
<1>2. PAGE_SIZE \in Nat \ {0} /\ HEADER \in Nat
  BY SlabAssumption, MapAssumption, Zenon
<1> HIDE DEF s, t, n
<1>3. i \in Nat /\ i < t
  BY <1>1 DEF t
<1>4. i * s + s <= t * s
  BY <1>1, <1>3, Steps, Zenon
<1>5. i * s \in Nat /\ t * s \in Nat /\ n * PAGE_SIZE \in Nat /\ p * PAGE_SIZE \in Nat
  BY <1>1, <1>2, <1>3
<1>6. (p + n) * PAGE_SIZE = p * PAGE_SIZE + n * PAGE_SIZE
  BY <1>1, <1>2
<1> QED
  BY <1>1, <1>2, <1>4, <1>5, <1>6 DEF Slot, s, t, n

\* Different slots of a slab are the size of an object apart.
LEMMA SlotsSpaced ==
  ASSUME NEW p \in Nat, NEW idx \in Cache,
         NEW i \in 0 .. total_objs(idx) - 1, NEW j \in 0 .. total_objs(idx) - 1, i < j
  PROVE  Slot(p, idx, i) + index_to_size(idx) <= Slot(p, idx, j)
<1> DEFINE s == index_to_size(idx)
<1>1. s \in Nat /\ PAGE_SIZE \in Nat /\ HEADER \in Nat /\ i \in Nat /\ j \in Nat
  BY ClassFacts, SlabAssumption, MapAssumption
<1> HIDE DEF s
<1>2. i * s + s <= j * s
  BY <1>1, Steps, Zenon
<1>3. i * s \in Nat /\ j * s \in Nat /\ p * PAGE_SIZE \in Nat
  BY <1>1
<1> QED
  BY <1>1, <1>2, <1>3 DEF Slot, s

\* So the number of a slot is told by its address.
LEMMA SlotsDiffer ==
  ASSUME NEW p \in Nat, NEW idx \in Cache,
         NEW i \in 0 .. total_objs(idx) - 1, NEW j \in 0 .. total_objs(idx) - 1,
         Slot(p, idx, i) = Slot(p, idx, j)
  PROVE  i = j
<1>1. index_to_size(idx) \in Nat \ {0}
  BY ClassFacts, Zenon
<1>2. Slot(p, idx, i) \in Nat /\ Slot(p, idx, j) \in Nat
  BY SlotIn, Zenon
<1>3. ~(i < j) /\ ~(j < i)
  BY <1>1, <1>2, SlotsSpaced
<1> QED
  BY <1>3

\* The addresses of a run of pages.
InRun(a, r) == r.start * PAGE_SIZE <= a /\ a < (r.start + r.count) * PAGE_SIZE

\* An address lies in one run at most.
LEMMA OneRun ==
  ASSUME NEW R, Apart(R), NEW r \in R, NEW q \in R, NEW a \in Nat, InRun(a, r), InRun(a, q)
  PROVE  r = q
<1> SUFFICES ASSUME r # q PROVE FALSE
  BY Zenon
<1>1. /\ r.start \in Nat /\ r.count \in Nat \ {0} /\ q.start \in Nat /\ q.count \in Nat \ {0}
      /\ Run(r.start, r.count) \cap Run(q.start, q.count) = {}
  BY MapAssumption DEF Apart, Page
<1>2. r.start \notin Run(q.start, q.count) /\ q.start \notin Run(r.start, r.count)
  BY <1>1 DEF Run
<1>3. r.start + r.count <= q.start \/ q.start + q.count <= r.start
  BY <1>1, <1>2 DEF Run
<1>4. PAGE_SIZE \in Nat
  BY MapAssumption, Zenon
<1>5. CASE r.start + r.count <= q.start
  <2>1. (r.start + r.count) * PAGE_SIZE <= q.start * PAGE_SIZE
    BY <1>1, <1>4, <1>5, Monotone
  <2>2. (r.start + r.count) * PAGE_SIZE \in Nat /\ q.start * PAGE_SIZE \in Nat
    BY <1>1, <1>4
  <2> QED
    BY <2>1, <2>2 DEF InRun
<1>6. CASE q.start + q.count <= r.start
  <2>1. (q.start + q.count) * PAGE_SIZE <= r.start * PAGE_SIZE
    BY <1>1, <1>4, <1>6, Monotone
  <2>2. (q.start + q.count) * PAGE_SIZE \in Nat /\ r.start * PAGE_SIZE \in Nat
    BY <1>1, <1>4
  <2> QED
    BY <2>1, <2>2 DEF InRun
<1> QED
  BY <1>3, <1>5, <1>6, Zenon

\* A slot lies in its slab's run, and InSlab finds it there.
LEMMA SlotInRun ==
  ASSUME NEW idx \in Cache, NEW slab \in SlabRecord, NEW a, IsSlot(slab, idx, a)
  PROVE  /\ a \in Nat /\ InRun(a, SlabRun(slab, idx))
         /\ a >= slab.page * PAGE_SIZE + HEADER
         /\ slab.total = total_objs(idx) => InSlab(slab, idx, a)
<1>1. slab.page \in Nat /\ HEADER \in Nat /\ PAGE_SIZE \in Nat
  BY MapAssumption, SlabAssumption DEF SlabRecord, Page
<1>2. PICK i \in 0 .. total_objs(idx) - 1 : a = Slot(slab.page, idx, i)
  BY Zenon DEF IsSlot
<1>3. index_to_size(idx) \in Nat \ {0} /\ total_objs(idx) \in Nat /\ slab_pages(idx) \in Nat
  BY ClassFacts, Zenon
<1>4. /\ a \in Nat
      /\ slab.page * PAGE_SIZE + HEADER <= a
      /\ a + index_to_size(idx)
           <= slab.page * PAGE_SIZE + HEADER + total_objs(idx) * index_to_size(idx)
      /\ a + index_to_size(idx) <= (slab.page + slab_pages(idx)) * PAGE_SIZE
  BY <1>1, <1>2, SlotIn, Zenon
<1>5. /\ slab.page * PAGE_SIZE \in Nat /\ (slab.page + slab_pages(idx)) * PAGE_SIZE \in Nat
      /\ total_objs(idx) * index_to_size(idx) \in Nat
  BY <1>1, <1>3
<1>6. InRun(a, SlabRun(slab, idx))
  BY <1>1, <1>3, <1>4, <1>5 DEF InRun, SlabRun
<1>7. slab.total = total_objs(idx) => InSlab(slab, idx, a)
  BY <1>1, <1>3, <1>4, <1>5 DEF InSlab
<1> QED
  BY <1>1, <1>4, <1>5, <1>6, <1>7, Zenon

\* An address InSlab accepts is in the slab's run.
LEMMA InSlabInRun ==
  ASSUME NEW idx \in Cache, NEW slab \in SlabRecord, slab.total = total_objs(idx),
         NEW a \in Nat, InSlab(slab, idx, a)
  PROVE  InRun(a, SlabRun(slab, idx))
<1>1. slab.page \in Nat /\ PAGE_SIZE \in Nat /\ HEADER \in Nat
  BY MapAssumption, SlabAssumption DEF SlabRecord, Page
<1>2. /\ index_to_size(idx) \in Nat \ {0} /\ total_objs(idx) \in Nat /\ slab_pages(idx) \in Nat
      /\ HEADER + total_objs(idx) * index_to_size(idx) <= slab_pages(idx) * PAGE_SIZE
  BY ClassFacts, Zenon
<1>3. /\ slab.page * PAGE_SIZE \in Nat /\ slab_pages(idx) * PAGE_SIZE \in Nat
      /\ (slab.page + slab_pages(idx)) * PAGE_SIZE = slab.page * PAGE_SIZE + slab_pages(idx) * PAGE_SIZE
      /\ total_objs(idx) * index_to_size(idx) \in Nat
  BY <1>1, <1>2
<1> QED
  BY <1>1, <1>2, <1>3 DEF InRun, InSlab, SlabRun

\* A large object begins in the run of its header, which its address tells.
LEMMA LargeInRun ==
  ASSUME NEW p \in Page, NEW n \in Nat, n > 1
  PROVE  /\ LargePtr(p) \in Nat /\ InRun(LargePtr(p), [start |-> p, count |-> n])
         /\ (LargePtr(p) - LARGE_OBJ_HEADER_SIZE) \div PAGE_SIZE = p
<1>1. p \in Nat /\ PAGE_SIZE \in Nat \ {0} /\ LARGE_OBJ_HEADER_SIZE \in Nat
      /\ LARGE_OBJ_HEADER_SIZE <= PAGE_SIZE
  BY MapAssumption, SlabAssumption DEF Page
<1>2. p * PAGE_SIZE \in Nat /\ (p + n) * PAGE_SIZE = p * PAGE_SIZE + n * PAGE_SIZE
      /\ 2 * PAGE_SIZE <= n * PAGE_SIZE /\ n * PAGE_SIZE \in Nat
  BY <1>1, Monotone
<1>3. LargePtr(p) - LARGE_OBJ_HEADER_SIZE = p * PAGE_SIZE
  BY <1>1, <1>2 DEF LargePtr
<1>4. (p * PAGE_SIZE) \div PAGE_SIZE = p
  BY <1>1, DivMul, Zenon
<1> QED
  BY <1>1, <1>2, <1>3, <1>4 DEF InRun, LargePtr

-----------------------------------------------------------------------------
(* Slabs and the lists of slabs.                                           *)

\* Pop takes the head off the free list and leaves the rest.
LEMMA PopFacts ==
  ASSUME NEW idx \in Cache, NEW slab \in SlabRecord, ListOK(slab, idx), slab.free_count > 0
  PROVE  /\ Pop(slab) \in SlabRecord /\ Pop(slab).page = slab.page /\ ListOK(Pop(slab), idx)
         /\ Idle(slab, Head(slab.free_list)) /\ IsSlot(slab, idx, Head(slab.free_list))
         /\ \A a : Idle(Pop(slab), a) <=> Idle(slab, a) /\ a # Head(slab.free_list)
<1> DEFINE f == slab.free_list
           n == Len(f)
<1>1. f \in Seq(Nat) /\ n \in Nat /\ n > 0 /\ slab.free_count = n
  BY Zenon DEF SlabRecord, ListOK
<1>2. /\ Head(f) = f[1] /\ Tail(f) \in Seq(Nat) /\ Len(Tail(f)) = n - 1
      /\ \A j \in 1 .. n - 1 : Tail(f)[j] = f[j + 1]
  BY <1>1
<1>3. /\ Pop(slab).free_list = Tail(f) /\ Pop(slab).free_count = n - 1
      /\ Pop(slab).page = slab.page /\ Pop(slab).total = slab.total
      /\ Pop(slab) \in SlabRecord
  <2>1. n - 1 \in Nat
    BY <1>1
  <2>2. Pop(slab) = [slab EXCEPT !.free_list = Tail(f), !.free_count = n - 1]
    BY <1>1, Zenon DEF Pop
  <2> HIDE DEF f, n
  <2> QED
    BY <1>2, <2>1, <2>2, Zenon DEF SlabRecord
<1>4. \A b : IsSlot(Pop(slab), idx, b) <=> IsSlot(slab, idx, b)
  BY <1>3, Zenon DEF IsSlot
<1>5. /\ \A j \in 1 .. n : IsSlot(slab, idx, f[j])
      /\ \A j, l \in 1 .. n : f[j] = f[l] => j = l
      /\ slab.total = total_objs(idx)
  BY Zenon DEF ListOK
<1>6. ListOK(Pop(slab), idx)
  <2>1. \A j \in 1 .. n - 1 : IsSlot(Pop(slab), idx, Tail(f)[j])
    BY <1>1, <1>2, <1>4, <1>5
  <2>2. \A j, l \in 1 .. n - 1 : Tail(f)[j] = Tail(f)[l] => j = l
    BY <1>1, <1>2, <1>5
  <2> QED
    BY <1>2, <1>3, <1>5, <2>1, <2>2 DEF ListOK
<1>7. \A a : Idle(Pop(slab), a) <=> Idle(slab, a) /\ a # f[1]
  <2> SUFFICES ASSUME NEW a PROVE Idle(Pop(slab), a) <=> Idle(slab, a) /\ a # f[1]
    BY Zenon
  <2>1. ASSUME Idle(Pop(slab), a) PROVE Idle(slab, a) /\ a # f[1]
    <3>1. PICK j \in 1 .. n - 1 : Tail(f)[j] = a
      BY <1>2, <1>3, <2>1, Zenon DEF Idle
    <3>2. j + 1 \in 1 .. n /\ f[j + 1] = a /\ j + 1 # 1 /\ 1 \in 1 .. n
      BY <1>1, <1>2, <3>1
    <3> QED
      BY <1>5, <3>2, Zenon DEF Idle
  <2>2. ASSUME Idle(slab, a), a # f[1] PROVE Idle(Pop(slab), a)
    <3>1. PICK j \in 1 .. n : f[j] = a
      BY <2>2, Zenon DEF Idle
    <3>2. j - 1 \in 1 .. n - 1 /\ Tail(f)[j - 1] = a
      BY <1>1, <1>2, <2>2, <3>1
    <3> QED
      BY <1>2, <1>3, <3>2, Zenon DEF Idle
  <2> QED
    BY <2>1, <2>2, Zenon
<1>8. Idle(slab, f[1]) /\ IsSlot(slab, idx, f[1])
  BY <1>1, <1>5 DEF Idle
<1> QED
  BY <1>2, <1>3, <1>6, <1>7, <1>8, Zenon

\* Push puts a slot that is not on the free list at its head.
LEMMA PushFacts ==
  ASSUME NEW idx \in Cache, NEW slab \in SlabRecord, ListOK(slab, idx),
         NEW p \in Nat, IsSlot(slab, idx, p), ~Idle(slab, p)
  PROVE  /\ Push(slab, p) \in SlabRecord /\ Push(slab, p).page = slab.page
         /\ ListOK(Push(slab, p), idx)
         /\ \A a : Idle(Push(slab, p), a) <=> Idle(slab, a) \/ a = p
<1> DEFINE f == slab.free_list
           n == Len(f)
           g == << p >> \o f
<1>1. f \in Seq(Nat) /\ n \in Nat /\ slab.free_count = n
  BY Zenon DEF SlabRecord, ListOK
<1>2. /\ g \in Seq(Nat) /\ Len(g) = n + 1 /\ g[1] = p
      /\ \A j \in 1 .. n : g[j + 1] = f[j]
      /\ \A j \in 1 .. n + 1 : j # 1 => j - 1 \in 1 .. n /\ g[j] = f[j - 1]
  BY <1>1
<1>3. /\ Push(slab, p).free_list = g /\ Push(slab, p).free_count = n + 1
      /\ Push(slab, p).page = slab.page /\ Push(slab, p).total = slab.total
      /\ Push(slab, p) \in SlabRecord
  <2>1. n + 1 \in Nat
    BY <1>1
  <2>2. Push(slab, p) = [slab EXCEPT !.free_list = g, !.free_count = n + 1]
    BY <1>1, Zenon DEF Push
  <2> HIDE DEF f, n, g
  <2> QED
    BY <1>2, <2>1, <2>2, Zenon DEF SlabRecord
<1>4. \A b : IsSlot(Push(slab, p), idx, b) <=> IsSlot(slab, idx, b)
  BY <1>3, Zenon DEF IsSlot
<1>5. /\ \A j \in 1 .. n : IsSlot(slab, idx, f[j]) /\ f[j] # p
      /\ \A j, l \in 1 .. n : f[j] = f[l] => j = l
      /\ slab.total = total_objs(idx)
  BY Zenon DEF ListOK, Idle
<1> HIDE DEF f, g, n
<1>6. ListOK(Push(slab, p), idx)
  <2>1. \A j \in 1 .. n + 1 : IsSlot(Push(slab, p), idx, g[j])
    BY <1>2, <1>4, <1>5, Zenon
  <2>2. \A j, l \in 1 .. n + 1 : g[j] = g[l] => j = l
    <3> SUFFICES ASSUME NEW j \in 1 .. n + 1, NEW l \in 1 .. n + 1, g[j] = g[l] PROVE j = l
      BY Zenon
    <3>1. (j = 1) <=> (l = 1)
      BY <1>2, <1>5
    <3>2. ASSUME j # 1, l # 1 PROVE j - 1 = l - 1
      BY <1>2, <1>5, <3>2
    <3> QED
      BY <1>1, <3>1, <3>2
  <2> QED
    BY <1>2, <1>3, <1>5, <2>1, <2>2 DEF ListOK
<1>7. \A a : Idle(Push(slab, p), a) <=> Idle(slab, a) \/ a = p
  <2> SUFFICES ASSUME NEW a PROVE Idle(Push(slab, p), a) <=> Idle(slab, a) \/ a = p
    BY Zenon
  <2>1. ASSUME Idle(Push(slab, p), a) PROVE Idle(slab, a) \/ a = p
    <3>1. PICK j \in 1 .. n + 1 : g[j] = a
      BY <1>2, <1>3, <2>1, Zenon DEF Idle
    <3>2. j # 1 => j - 1 \in 1 .. n /\ f[j - 1] = a
      BY <1>2, <3>1, Zenon
    <3> QED
      BY <1>2, <3>1, <3>2, Zenon DEF Idle, f, n
  <2>2. ASSUME Idle(slab, a) PROVE Idle(Push(slab, p), a)
    <3>1. PICK j \in 1 .. n : f[j] = a
      BY <2>2, Zenon DEF Idle, f, n
    <3>2. j + 1 \in 1 .. n + 1 /\ g[j + 1] = a
      BY <1>1, <1>2, <3>1
    <3> QED
      BY <1>2, <1>3, <3>2, Zenon DEF Idle
  <2>3. Idle(Push(slab, p), p)
    <3>1. 1 \in 1 .. n + 1
      BY <1>1
    <3> QED
      BY <1>2, <1>3, <3>1, Zenon DEF Idle
  <2> QED
    BY <2>1, <2>2, <2>3, Zenon
<1> QED
  BY <1>3, <1>6, <1>7, Zenon

\* A new slab has all its slots on its free list.
LEMMA NewSlab ==
  ASSUME NEW idx \in Cache, NEW p \in Page
  PROVE  /\ create_slab(p, idx) \in SlabRecord /\ create_slab(p, idx).page = p
         /\ ListOK(create_slab(p, idx), idx)
         /\ create_slab(p, idx).free_count > 0
         /\ \A i \in 0 .. total_objs(idx) - 1 : Idle(create_slab(p, idx), Slot(p, idx, i))
<1> DEFINE t == total_objs(idx)
           S(i) == Slot(p, idx, i)
           f == [k \in 1 .. t |-> S(t - k)]
           slab == create_slab(p, idx)
<1>1. t \in Nat \ {0}
  BY ClassFacts, Zenon
<1>2. p \in Nat
  BY MapAssumption DEF Page
<1>3. \A i \in 0 .. t - 1 : S(i) \in Nat
  BY <1>2, SlotIn, Zenon
<1>4. \A i, j \in 0 .. t - 1 : S(i) = S(j) => i = j
  BY <1>2, SlotsDiffer, Zenon
<1>5. /\ slab.page = p /\ slab.total = t /\ slab.free_count = t /\ slab.free_list = f
      /\ slab = [page |-> p, total |-> t, free_count |-> t, free_list |-> f]
  BY Zenon DEF create_slab
<1> HIDE DEF S, t, slab
<1>6. \A k \in 1 .. t : t - k \in 0 .. t - 1 /\ f[k] = S(t - k)
  BY <1>1
<1>7. f \in Seq(Nat) /\ Len(f) = t
  BY <1>1, <1>3
<1>8. \A i \in 0 .. t - 1 : t - i \in 1 .. t /\ f[t - i] = S(i)
  BY <1>1
<1> HIDE DEF f
<1>9. slab \in SlabRecord
  BY <1>1, <1>5, <1>7, Zenon DEF SlabRecord
<1>10. \A k \in 1 .. t : IsSlot(slab, idx, f[k])
  BY <1>5, <1>6, Zenon DEF IsSlot, t, S
<1>11. \A k, l \in 1 .. t : f[k] = f[l] => k = l
  <2> SUFFICES ASSUME NEW k \in 1 .. t, NEW l \in 1 .. t, f[k] = f[l] PROVE k = l
    BY Zenon
  <2>1. t - k = t - l
    BY <1>4, <1>6, Zenon
  <2> QED
    BY <1>1, <2>1
<1>12. \A i \in 0 .. t - 1 : Idle(slab, S(i))
  BY <1>5, <1>7, <1>8, Zenon DEF Idle
<1>13. ListOK(slab, idx)
  BY <1>5, <1>7, <1>10, <1>11, Zenon DEF ListOK, t
<1>14. slab.free_count > 0
  BY <1>1, <1>5
<1> QED
  BY <1>5, <1>9, <1>12, <1>13, <1>14, Zenon DEF slab, t, S

\* C2 is C with v in the place of slab k of a class.
Put(C, C2, idx, k, v) ==
  /\ C2 \in [Cache -> Seq(SlabRecord)]
  /\ \A j \in Cache : DOMAIN C2[j] = DOMAIN C[j]
  /\ C2[idx][k] = v
  /\ \A j \in Cache : \A l \in DOMAIN C[j] : ~(j = idx /\ l = k) => C2[j][l] = C[j][l]

\* A slab is put in the place of one of a class.
LEMMA PutFacts ==
  ASSUME NEW C \in [Cache -> Seq(SlabRecord)], NEW idx \in Cache, NEW k \in DOMAIN C[idx],
         NEW v \in SlabRecord
  PROVE  Put(C, [C EXCEPT ![idx][k] = v], idx, k, v)
<1>1. C[idx] \in Seq(SlabRecord)
  BY Zenon
<1>2. [C[idx] EXCEPT ![k] = v] \in Seq(SlabRecord) /\ DOMAIN [C[idx] EXCEPT ![k] = v] = DOMAIN C[idx]
  BY <1>1
<1> QED
  BY <1>2, Zenon DEF Put

\* Replacing the first of a list is putting another in front of the rest.
LEMMA PutFirst ==
  ASSUME NEW S, NEW f \in Seq(S), NEW v \in S, NEW w \in S
  PROVE  [<< v >> \o f EXCEPT ![1] = w] = << w >> \o f
<1> DEFINE g == << v >> \o f
           h == << w >> \o f
           n == Len(f) + 1
<1>1. /\ g \in Seq(S) /\ DOMAIN g = 1 .. n /\ g = [i \in 1 .. n |-> g[i]]
      /\ \A i \in 1 .. n : i # 1 => g[i] = f[i - 1]
  OBVIOUS
<1>2. /\ h \in Seq(S) /\ DOMAIN h = 1 .. n /\ h = [i \in 1 .. n |-> h[i]]
      /\ h[1] = w /\ \A i \in 1 .. n : i # 1 => h[i] = f[i - 1]
  OBVIOUS
<1> HIDE DEF g, h, n
<1>3. [g EXCEPT ![1] = w] = [i \in 1 .. n |-> IF i = 1 THEN w ELSE g[i]]
  BY <1>1, Zenon
<1>4. \A i \in 1 .. n : h[i] = IF i = 1 THEN w ELSE g[i]
  BY <1>1, <1>2, Zenon
<1> QED
  BY <1>2, <1>3, <1>4, Zenon DEF g, h

\* A slab is put in front of the others of a class.
LEMMA ConsFacts ==
  ASSUME NEW C \in [Cache -> Seq(SlabRecord)], NEW idx \in Cache,
         NEW v \in SlabRecord, NEW C2, C2 = [C EXCEPT ![idx] = << v >> \o C[idx]]
  PROVE  /\ C2 \in [Cache -> Seq(SlabRecord)]
         /\ \A j \in Cache : j # idx => C2[j] = C[j]
         /\ 1 \in DOMAIN C2[idx] /\ C2[idx][1] = v
         /\ \A l \in DOMAIN C2[idx] : l # 1 => l - 1 \in DOMAIN C[idx] /\ C2[idx][l] = C[idx][l - 1]
         /\ \A l \in DOMAIN C[idx] : l + 1 \in DOMAIN C2[idx] /\ C2[idx][l + 1] = C[idx][l]
         /\ \A l, m \in DOMAIN C2[idx] : l - 1 = m - 1 => l = m
<1>1. C[idx] \in Seq(SlabRecord)
  BY Zenon
<1> DEFINE g == << v >> \o C[idx]
           n == Len(C[idx])
<1>2. /\ g \in Seq(SlabRecord) /\ Len(g) = n + 1 /\ n \in Nat /\ DOMAIN C[idx] = 1 .. n
      /\ DOMAIN g = 1 .. n + 1 /\ g[1] = v
      /\ \A j \in 1 .. n : g[j + 1] = C[idx][j]
      /\ \A j \in 1 .. n + 1 : j # 1 => g[j] = C[idx][j - 1]
  BY <1>1
<1>3. C2[idx] = g /\ C2 \in [Cache -> Seq(SlabRecord)] /\ \A j \in Cache : j # idx => C2[j] = C[j]
  BY <1>2, Zenon
<1> HIDE DEF g
<1> QED
  BY <1>2, <1>3

\* An address lies in one slab at most.
LEMMA OneSlab ==
  ASSUME NEW C, NEW R, Apart(R), SlabsOwn(C, R),
         NEW idx \in Cache, NEW k \in DOMAIN C[idx], NEW jdx \in Cache, NEW l \in DOMAIN C[jdx],
         NEW a \in Nat, InRun(a, SlabRun(C[idx][k], idx)), InRun(a, SlabRun(C[jdx][l], jdx))
  PROVE  idx = jdx /\ k = l
<1>1. SlabRun(C[idx][k], idx) = SlabRun(C[jdx][l], jdx)
  <2>1. SlabRun(C[idx][k], idx) \in R /\ SlabRun(C[jdx][l], jdx) \in R
    BY Zenon DEF SlabsOwn
  <2> QED
    BY <2>1, OneRun, Zenon
<1>2. C[idx][k].page = C[jdx][l].page
  BY <1>1, Zenon DEF SlabRun
<1> QED
  BY <1>2, Zenon DEF SlabsOwn

\* No address is in a slab and behind a large header.
LEMMA NotBoth ==
  ASSUME NEW C, NEW L, NEW R, Apart(R), SlabsOwn(C, R), LargeOwn(C, L, R),
         NEW idx \in Cache, NEW k \in DOMAIN C[idx], NEW p \in Page, L[p] # 0,
         NEW a \in Nat, InRun(a, SlabRun(C[idx][k], idx)), InRun(a, LargeRun(L, p))
  PROVE  FALSE
<1>1. SlabRun(C[idx][k], idx) = LargeRun(L, p)
  <2>1. SlabRun(C[idx][k], idx) \in R /\ LargeRun(L, p) \in R
    BY Zenon DEF SlabsOwn, LargeOwn
  <2> QED
    BY <2>1, OneRun, Zenon
<1>2. C[idx][k].page = p
  BY <1>1, Zenon DEF SlabRun, LargeRun
<1> QED
  BY <1>2, Zenon DEF LargeOwn

\* A small object is at a slot of a slab of its class.
LEMMA SmallAt ==
  ASSUME NEW C, NEW L, NEW O, Typed(C, L, O), Placed(C, L, O), NEW o \in O,
         o.size <= SLAB_SIZE_MAX
  PROVE  /\ size_to_index(o.size) \in Cache /\ o.ptr \in Nat
         /\ \E k \in DOMAIN C[size_to_index(o.size)] :
              /\ IsSlot(C[size_to_index(o.size)][k], size_to_index(o.size), o.ptr)
              /\ C[size_to_index(o.size)][k] \in SlabRecord
              /\ InRun(o.ptr, SlabRun(C[size_to_index(o.size)][k], size_to_index(o.size)))
<1> DEFINE idx == size_to_index(o.size)
<1>1. o.size \in Sizes /\ o.ptr \in Nat
  BY Zenon DEF Typed
<1>2. idx \in Cache
  BY <1>1, Zenon DEF Typed, Classed
<1>3. PICK k \in DOMAIN C[idx] : IsSlot(C[idx][k], idx, o.ptr)
  BY Zenon DEF Placed, SmallPlaced
<1>4. C[idx][k] \in SlabRecord
  BY <1>2 DEF Typed
<1>5. InRun(o.ptr, SlabRun(C[idx][k], idx))
  BY <1>2, <1>3, <1>4, SlotInRun, Zenon
<1> QED
  BY <1>1, <1>2, <1>3, <1>4, <1>5, Zenon

\* A large object is behind the header in its run.
LEMMA LargeAt ==
  ASSUME NEW C, NEW L, NEW O, Typed(C, L, O), Placed(C, L, O), NEW o \in O,
         ~(o.size <= SLAB_SIZE_MAX)
  PROVE  \E p \in Page : /\ L[p] = large_pages(o.size) /\ o.ptr = LargePtr(p) /\ L[p] # 0
                         /\ InRun(o.ptr, LargeRun(L, p))
                         /\ (o.ptr - LARGE_OBJ_HEADER_SIZE) \div PAGE_SIZE = p
<1>1. o.size \in Sizes /\ o.ptr \in Nat
  BY Zenon DEF Typed
<1>2. PICK p \in Page : L[p] = large_pages(o.size) /\ o.ptr = LargePtr(p)
  BY Zenon DEF Placed, LargePlaced
<1>3. L[p] \in Nat /\ L[p] # 0 /\ L[p] > 1
  BY <1>1, <1>2, LargeFits, Zenon
<1>4. InRun(o.ptr, LargeRun(L, p)) /\ (o.ptr - LARGE_OBJ_HEADER_SIZE) \div PAGE_SIZE = p
  BY <1>2, <1>3, LargeInRun, Zenon DEF LargeRun
<1> QED
  BY <1>2, <1>3, <1>4, Zenon

\* Every object is in a run that belongs to its slab or its header.
LEMMA ObjectRun ==
  ASSUME NEW C, NEW L, NEW O, NEW R, Typed(C, L, O), SlabsOwn(C, R), LargeOwn(C, L, R),
         Placed(C, L, O), NEW o \in O
  PROVE  o.ptr \in Nat /\ \E r \in R : InRun(o.ptr, r)
<1>1. o.ptr \in Nat
  BY Zenon DEF Typed
<1>2. CASE o.size <= SLAB_SIZE_MAX
  <2> DEFINE idx == size_to_index(o.size)
  <2>1. idx \in Cache
    BY <1>2, SmallAt, Zenon
  <2>2. PICK k \in DOMAIN C[idx] : InRun(o.ptr, SlabRun(C[idx][k], idx))
    BY <1>2, SmallAt, Zenon
  <2>3. SlabRun(C[idx][k], idx) \in R
    BY <2>1, Zenon DEF SlabsOwn
  <2> QED
    BY <1>1, <2>2, <2>3, Zenon
<1>3. CASE ~(o.size <= SLAB_SIZE_MAX)
  BY <1>1, <1>3, LargeAt, Zenon DEF LargeOwn
<1> QED
  BY <1>2, <1>3, Zenon

-----------------------------------------------------------------------------
(* What the steps do to slabs, headers, objects and runs.                  *)

\* The slabs of C2 are where those of C are.
Repaged(C, C2) ==
  /\ \A j \in Cache : DOMAIN C2[j] = DOMAIN C[j]
  /\ \A j \in Cache : \A l \in DOMAIN C[j] : C2[j][l].page = C[j][l].page

\* Slabs that keep their pages keep their runs.
LEMMA SamePages ==
  ASSUME NEW C, NEW C2, NEW L, NEW R, SlabsOwn(C, R), LargeOwn(C, L, R), SinglePages(C, L, R),
         Repaged(C, C2)
  PROVE  /\ SlabsOwn(C2, R) /\ LargeOwn(C2, L, R) /\ SinglePages(C2, L, R)
         /\ \A j \in Cache : \A l \in DOMAIN C[j] : \A a : IsSlot(C2[j][l], j, a) <=> IsSlot(C[j][l], j, a)
         /\ \A o : size_to_index(o.size) \in Cache /\ SmallPlaced(C, o) => SmallPlaced(C2, o)
<1>0. /\ \A j \in Cache : DOMAIN C2[j] = DOMAIN C[j]
      /\ \A j \in Cache : \A l \in DOMAIN C[j] : C2[j][l].page = C[j][l].page
  BY Zenon DEF Repaged
<1>1. \A j \in Cache : \A l \in DOMAIN C[j] : SlabRun(C2[j][l], j) = SlabRun(C[j][l], j)
  BY <1>0, Zenon DEF SlabRun
<1>2. \A j \in Cache : \A l \in DOMAIN C[j] : \A a : IsSlot(C2[j][l], j, a) <=> IsSlot(C[j][l], j, a)
  BY <1>0, Zenon DEF IsSlot
<1>3. SlabsOwn(C2, R)
  <2>1. \A idx \in Cache : \A k \in DOMAIN C2[idx] : SlabRun(C2[idx][k], idx) \in R
    BY <1>0, <1>1, Zenon DEF SlabsOwn
  <2>2. \A idx, jdx \in Cache : \A k \in DOMAIN C2[idx], l \in DOMAIN C2[jdx] :
          C2[idx][k].page = C2[jdx][l].page => idx = jdx /\ k = l
    <3> SUFFICES ASSUME NEW idx \in Cache, NEW jdx \in Cache,
                        NEW k \in DOMAIN C[idx], NEW l \in DOMAIN C[jdx],
                        C2[idx][k].page = C2[jdx][l].page
                 PROVE  idx = jdx /\ k = l
      BY <1>0
    <3>1. C2[idx][k].page = C[idx][k].page /\ C2[jdx][l].page = C[jdx][l].page
      BY <1>0, Zenon
    <3>2. C[idx][k].page = C[jdx][l].page
      BY <3>1, Zenon
    <3> QED
      BY <3>2 DEF SlabsOwn
  <2> QED
    BY <2>1, <2>2, Zenon DEF SlabsOwn
<1>4. LargeOwn(C2, L, R)
  BY <1>0, Zenon DEF LargeOwn
<1>5. SinglePages(C2, L, R)
  BY <1>0, <1>1, Zenon DEF SinglePages
<1>6. \A o : size_to_index(o.size) \in Cache /\ SmallPlaced(C, o) => SmallPlaced(C2, o)
  BY <1>0, <1>2, Zenon DEF SmallPlaced
<1> QED
  BY <1>2, <1>3, <1>4, <1>5, <1>6, Zenon

\* alloc takes the head of a free list: the object it returns is nobody's.
LEMMA TakeSlot ==
  ASSUME NEW C, NEW L, NEW O, NEW R, Sound(C, L, O, R), NEW size \in Sizes, size <= SLAB_SIZE_MAX,
         NEW idx, idx = size_to_index(size),
         NEW k \in DOMAIN C[idx], C[idx][k].free_count > 0,
         NEW a, a = Head(C[idx][k].free_list)
  PROVE  /\ Sound([C EXCEPT ![idx][k] = Pop(C[idx][k])], L, O \cup {[ptr |-> a, size |-> size]}, R)
         /\ a >= C[idx][k].page * PAGE_SIZE + HEADER /\ InSlab(C[idx][k], idx, a)
<1> DEFINE slab == C[idx][k]
           C2 == [C EXCEPT ![idx][k] = Pop(slab)]
           new == [ptr |-> a, size |-> size]
           O2 == O \cup {new}
<1>1. idx \in Cache
  BY Zenon DEF Sound, Typed, Classed
<1>2. C \in [Cache -> Seq(SlabRecord)] /\ slab \in SlabRecord
  BY <1>1 DEF Sound, Typed
<1>3. ListOK(slab, idx)
  BY <1>1, Zenon DEF Sound, Lists
<1>4. /\ Pop(slab) \in SlabRecord /\ Pop(slab).page = slab.page /\ ListOK(Pop(slab), idx)
      /\ Idle(slab, a) /\ IsSlot(slab, idx, a)
      /\ \A b : Idle(Pop(slab), b) <=> Idle(slab, b) /\ b # a
  BY <1>1, <1>2, <1>3, PopFacts, Zenon
<1>5. /\ a \in Nat /\ InRun(a, SlabRun(slab, idx))
      /\ a >= slab.page * PAGE_SIZE + HEADER /\ InSlab(slab, idx, a)
  BY <1>1, <1>2, <1>3, <1>4, SlotInRun, Zenon DEF ListOK
<1>6. /\ C2 \in [Cache -> Seq(SlabRecord)]
      /\ \A j \in Cache : DOMAIN C2[j] = DOMAIN C[j]
      /\ C2[idx][k] = Pop(slab)
      /\ \A j \in Cache : \A l \in DOMAIN C[j] : ~(j = idx /\ l = k) => C2[j][l] = C[j][l]
  <2>1. Put(C, C2, idx, k, Pop(slab))
    BY <1>1, <1>2, <1>4, PutFacts, Zenon
  <2> QED
    BY <2>1, Zenon DEF Put
<1> HIDE DEF C2
<1>7. \A j \in Cache : \A l \in DOMAIN C[j] : C2[j][l].page = C[j][l].page
  BY <1>4, <1>6, Zenon
<1>71. Repaged(C, C2)
  BY <1>6, <1>7, Zenon DEF Repaged
<1>8. /\ SlabsOwn(C2, R) /\ LargeOwn(C2, L, R) /\ SinglePages(C2, L, R)
      /\ \A o : size_to_index(o.size) \in Cache /\ SmallPlaced(C, o) => SmallPlaced(C2, o)
      /\ \A j \in Cache : \A l \in DOMAIN C[j] : \A b : IsSlot(C2[j][l], j, b) <=> IsSlot(C[j][l], j, b)
  BY <1>71, SamePages, Zenon DEF Sound
<1>9. ~Held(O, a)
  BY <1>1, <1>4, Zenon DEF Sound, Slots, IsSlot
<1>10. new.ptr = a /\ new.size = size /\ new \in [ptr : Nat, size : Sizes]
  BY <1>5, Zenon
<1>11. \A b : Held(O2, b) <=> Held(O, b) \/ b = a
  BY <1>10, Zenon DEF Held
<1> HIDE DEF new
<1>12. Typed(C2, L, O2)
  BY <1>6, <1>10, Zenon DEF Sound, Typed
<1>13. Placed(C2, L, O2)
  <2>1. SmallPlaced(C2, new)
    <3>1. IsSlot(C2[idx][k], idx, a) /\ k \in DOMAIN C2[idx]
      BY <1>1, <1>4, <1>6, <1>8, Zenon
    <3> QED
      BY <1>10, <3>1, Zenon DEF SmallPlaced
  <2>2. \A o \in O : o.size <= SLAB_SIZE_MAX => SmallPlaced(C2, o)
    BY <1>8, SmallAt, Zenon DEF Sound, Placed
  <2>3. \A o, q \in O2 : o.ptr = q.ptr => o = q
    BY <1>9, <1>10, Zenon DEF Sound, Placed, Held
  <2> QED
    BY <1>10, <2>1, <2>2, <2>3, Zenon DEF Sound, Placed
<1>14. Lists(C2)
  BY <1>4, <1>6, Zenon DEF Sound, Lists
<1>15. Slots(C2, O2)
  <2> SUFFICES ASSUME NEW j \in Cache, NEW l \in DOMAIN C[j], NEW i \in 0 .. total_objs(j) - 1,
                      NEW b, b = Slot(C[j][l].page, j, i)
               PROVE  Idle(C2[j][l], b) <=> ~Held(O2, b)
    BY <1>6, <1>7, Zenon DEF Slots
  <2>1. Idle(C[j][l], b) <=> ~Held(O, b)
    BY Zenon DEF Sound, Slots
  <2>2. CASE j = idx /\ l = k
    BY <1>4, <1>6, <1>11, <2>1, <2>2, Zenon
  <2>3. CASE ~(j = idx /\ l = k)
    <3>1. b # a
      <4> SUFFICES ASSUME b = a PROVE FALSE
        BY Zenon
      <4>1. C[j][l] \in SlabRecord
        BY <1>2
      <4>2. IsSlot(C[j][l], j, a)
        BY Zenon DEF IsSlot
      <4>3. InRun(a, SlabRun(C[j][l], j))
        BY <4>1, <4>2, SlotInRun, Zenon
      <4>4. Apart(R) /\ SlabsOwn(C, R)
        BY Zenon DEF Sound
      <4>5. j = idx /\ l = k
        BY <1>1, <1>5, <4>3, <4>4, OneSlab
      <4> QED
        BY <2>3, <4>5, Zenon
    <3> QED
      BY <1>6, <1>11, <2>1, <2>3, <3>1, Zenon
  <2> QED
    BY <2>2, <2>3, Zenon
<1>16. Sound(C2, L, O2, R)
  BY <1>8, <1>12, <1>13, <1>14, <1>15, Zenon DEF Sound
<1> QED
  BY <1>5, <1>16, Zenon DEF C2, new

\* free finds the slab of a small object, which is not on its list, and puts it there.
LEMMA GiveSlot ==
  ASSUME NEW C, NEW L, NEW O, NEW R, Sound(C, L, O, R), NEW o \in O, o.size <= SLAB_SIZE_MAX,
         NEW idx, idx = size_to_index(o.size)
  PROVE  \E k \in DOMAIN C[idx] :
           /\ { j \in DOMAIN C[idx] : InSlab(C[idx][j], idx, o.ptr) } = {k}
           /\ ~Idle(C[idx][k], o.ptr)
           /\ Sound([C EXCEPT ![idx][k] = Push(C[idx][k], o.ptr)], L, O \ {o}, R)
<1>1. idx \in Cache /\ o.ptr \in Nat
  BY SmallAt, Zenon DEF Sound
<1>2. PICK k \in DOMAIN C[idx] : /\ IsSlot(C[idx][k], idx, o.ptr)
                                 /\ C[idx][k] \in SlabRecord
                                 /\ InRun(o.ptr, SlabRun(C[idx][k], idx))
  BY SmallAt, Zenon DEF Sound
<1> DEFINE slab == C[idx][k]
           a == o.ptr
           C2 == [C EXCEPT ![idx][k] = Push(slab, a)]
           O2 == O \ {o}
<1>3. C \in [Cache -> Seq(SlabRecord)] /\ slab \in SlabRecord
  BY <1>2, Zenon DEF Sound, Typed
<1>4. ListOK(slab, idx)
  BY <1>1, Zenon DEF Sound, Lists
<1>5. Held(O, a)
  BY Zenon DEF Held
<1>6. ~Idle(slab, a)
  BY <1>1, <1>2, <1>5, Zenon DEF Sound, Slots, IsSlot
<1>7. { j \in DOMAIN C[idx] : InSlab(C[idx][j], idx, a) } = {k}
  <2>1. InSlab(slab, idx, a)
    BY <1>1, <1>2, <1>4, SlotInRun, Zenon DEF ListOK
  <2>2. ASSUME NEW j \in DOMAIN C[idx], InSlab(C[idx][j], idx, a) PROVE j = k
    <3>1. C[idx][j] \in SlabRecord
      BY <1>1, <1>3
    <3>2. C[idx][j].total = total_objs(idx)
      BY <1>1, Zenon DEF Sound, Lists, ListOK
    <3>3. InRun(a, SlabRun(C[idx][j], idx))
      BY <1>1, <2>2, <3>1, <3>2, InSlabInRun, Zenon
    <3>4. Apart(R) /\ SlabsOwn(C, R)
      BY Zenon DEF Sound
    <3> QED
      BY <1>1, <1>2, <3>3, <3>4, OneSlab, Zenon
  <2> QED
    BY <2>1, <2>2, Zenon
<1>8. /\ Push(slab, a) \in SlabRecord /\ Push(slab, a).page = slab.page
      /\ ListOK(Push(slab, a), idx)
      /\ \A b : Idle(Push(slab, a), b) <=> Idle(slab, b) \/ b = a
  BY <1>1, <1>2, <1>4, <1>6, PushFacts, Zenon
<1>9. /\ C2 \in [Cache -> Seq(SlabRecord)]
      /\ \A j \in Cache : DOMAIN C2[j] = DOMAIN C[j]
      /\ C2[idx][k] = Push(slab, a)
      /\ \A j \in Cache : \A l \in DOMAIN C[j] : ~(j = idx /\ l = k) => C2[j][l] = C[j][l]
  <2>1. Put(C, C2, idx, k, Push(slab, a))
    BY <1>1, <1>3, <1>8, PutFacts, Zenon
  <2> QED
    BY <2>1, Zenon DEF Put
<1> HIDE DEF C2
<1>10. \A j \in Cache : \A l \in DOMAIN C[j] : C2[j][l].page = C[j][l].page
  BY <1>8, <1>9, Zenon
<1>11. Repaged(C, C2)
  BY <1>9, <1>10, Zenon DEF Repaged
<1>12. /\ SlabsOwn(C2, R) /\ LargeOwn(C2, L, R) /\ SinglePages(C2, L, R)
       /\ \A q : size_to_index(q.size) \in Cache /\ SmallPlaced(C, q) => SmallPlaced(C2, q)
  BY <1>11, SamePages, Zenon DEF Sound
<1>13. \A b : Held(O2, b) <=> Held(O, b) /\ b # a
  BY Zenon DEF Held, Sound, Placed
<1>14. Typed(C2, L, O2)
  BY <1>9, Zenon DEF Sound, Typed
<1>15. Placed(C2, L, O2)
  BY <1>12, SmallAt, ZenonT(40) DEF Sound, Placed
<1>16. Lists(C2)
  BY <1>8, <1>9, Zenon DEF Sound, Lists
<1>17. Slots(C2, O2)
  <2> SUFFICES ASSUME NEW j \in Cache, NEW l \in DOMAIN C[j], NEW i \in 0 .. total_objs(j) - 1,
                      NEW b, b = Slot(C[j][l].page, j, i)
               PROVE  Idle(C2[j][l], b) <=> ~Held(O2, b)
    BY <1>9, <1>10, Zenon DEF Slots
  <2>1. Idle(C[j][l], b) <=> ~Held(O, b)
    BY Zenon DEF Sound, Slots
  <2>2. CASE j = idx /\ l = k
    BY <1>8, <1>9, <1>13, <2>1, <2>2, Zenon
  <2>3. CASE ~(j = idx /\ l = k)
    <3>1. b # a
      <4> SUFFICES ASSUME b = a PROVE FALSE
        BY Zenon
      <4>1. C[j][l] \in SlabRecord
        BY <1>3
      <4>2. IsSlot(C[j][l], j, a)
        BY Zenon DEF IsSlot
      <4>3. InRun(a, SlabRun(C[j][l], j))
        BY <4>1, <4>2, SlotInRun, Zenon
      <4>4. Apart(R) /\ SlabsOwn(C, R)
        BY Zenon DEF Sound
      <4>5. j = idx /\ l = k
        BY <1>1, <1>2, <4>3, <4>4, OneSlab, Zenon
      <4> QED
        BY <2>3, <4>5, Zenon
    <3> QED
      BY <1>9, <1>13, <2>1, <2>3, <3>1, Zenon
  <2> QED
    BY <2>2, <2>3, Zenon
<1>18. Sound(C2, L, O2, R)
  BY <1>12, <1>14, <1>15, <1>16, <1>17, Zenon DEF Sound
<1> QED
  BY <1>6, <1>7, <1>18, Zenon DEF C2

\* A new slab, on pages nobody has, goes to the head of its class.
LEMMA AddSlab ==
  ASSUME NEW C, NEW L, NEW O, NEW R, Sound(C, L, O, R), NEW idx \in Cache, NEW p \in Page,
         \A r \in R : r.start # p,
         NEW R2, R2 = R \cup {[start |-> p, count |-> slab_pages(idx)]}, Apart(R2)
  PROVE  Sound([C EXCEPT ![idx] = << create_slab(p, idx) >> \o C[idx]], L, O, R2)
<1> DEFINE v == create_slab(p, idx)
           C2 == [C EXCEPT ![idx] = << v >> \o C[idx]]
           run == [start |-> p, count |-> slab_pages(idx)]
<1>1. C \in [Cache -> Seq(SlabRecord)]
  BY Zenon DEF Sound, Typed
<1>2. /\ v \in SlabRecord /\ v.page = p /\ ListOK(v, idx)
      /\ \A i \in 0 .. total_objs(idx) - 1 : Idle(v, Slot(p, idx, i))
  BY NewSlab, Zenon
<1>3. /\ C2 \in [Cache -> Seq(SlabRecord)]
      /\ \A j \in Cache : j # idx => C2[j] = C[j]
      /\ 1 \in DOMAIN C2[idx] /\ C2[idx][1] = v
      /\ \A l \in DOMAIN C2[idx] : l # 1 => l - 1 \in DOMAIN C[idx] /\ C2[idx][l] = C[idx][l - 1]
      /\ \A l \in DOMAIN C[idx] : l + 1 \in DOMAIN C2[idx] /\ C2[idx][l + 1] = C[idx][l]
      /\ \A l, m \in DOMAIN C2[idx] : l - 1 = m - 1 => l = m
  <2>1. C2 = [C EXCEPT ![idx] = << v >> \o C[idx]]
    BY Zenon
  <2> HIDE DEF C2, v
  <2> QED
    BY <1>1, <1>2, <2>1, ConsFacts
<1>4. SlabRun(v, idx) = run /\ run.start = p /\ run \in R2
  BY <1>2, Zenon DEF SlabRun
<1> HIDE DEF C2, v, run
<1>5. ASSUME NEW j \in Cache, NEW l \in DOMAIN C2[j], ~(j = idx /\ l = 1)
      PROVE  \E m \in DOMAIN C[j] : C2[j][l] = C[j][m] /\ m = IF j = idx THEN l - 1 ELSE l
  BY <1>3, <1>5, Zenon
<1>6. \A j \in Cache : \A m \in DOMAIN C[j] : \E l \in DOMAIN C2[j] : C2[j][l] = C[j][m]
  BY <1>3, Zenon
<1>7. \A j \in Cache : \A m \in DOMAIN C[j] : C[j][m].page # p /\ SlabRun(C[j][m], j) \in R
  <2> SUFFICES ASSUME NEW j \in Cache, NEW m \in DOMAIN C[j]
               PROVE  C[j][m].page # p /\ SlabRun(C[j][m], j) \in R
    BY Zenon
  <2>1. SlabRun(C[j][m], j) \in R
    BY Zenon DEF Sound, SlabsOwn
  <2>2. SlabRun(C[j][m], j).start = C[j][m].page
    BY Zenon DEF SlabRun
  <2> QED
    BY <2>1, <2>2, Zenon
<1>8. SlabsOwn(C2, R2)
  <2>1. ASSUME NEW j \in Cache, NEW l \in DOMAIN C2[j] PROVE SlabRun(C2[j][l], j) \in R2
    <3>1. CASE j = idx /\ l = 1
      BY <1>3, <1>4, <3>1, Zenon
    <3>2. CASE ~(j = idx /\ l = 1)
      BY <1>5, <1>7, <3>2, ZenonT(40)
    <3> QED
      BY <3>1, <3>2, Zenon
  <2>2. ASSUME NEW i \in Cache, NEW j \in Cache, NEW l \in DOMAIN C2[i], NEW m \in DOMAIN C2[j],
               C2[i][l].page = C2[j][m].page
        PROVE  i = j /\ l = m
    <3>1. CASE (i = idx /\ l = 1) /\ (j = idx /\ m = 1)
      BY <3>1, Zenon
    <3>2. CASE (i = idx /\ l = 1) /\ ~(j = idx /\ m = 1)
      BY <1>2, <1>3, <1>5, <1>7, <2>2, <3>2
    <3>3. CASE ~(i = idx /\ l = 1) /\ (j = idx /\ m = 1)
      BY <1>2, <1>3, <1>5, <1>7, <2>2, <3>3
    <3>4. CASE ~(i = idx /\ l = 1) /\ ~(j = idx /\ m = 1)
      <4>1. PICK x \in DOMAIN C[i] : C2[i][l] = C[i][x] /\ x = IF i = idx THEN l - 1 ELSE l
        BY <1>5, <3>4, Zenon
      <4>2. PICK y \in DOMAIN C[j] : C2[j][m] = C[j][y] /\ y = IF j = idx THEN m - 1 ELSE m
        BY <1>5, <3>4, Zenon
      <4>3. C[i][x].page = C[j][y].page
        BY <2>2, <4>1, <4>2, Zenon
      <4>4. i = j /\ x = y
        BY <4>3 DEF Sound, SlabsOwn
      <4> QED
        BY <1>3, <4>1, <4>2, <4>4, Zenon
    <3> QED
      BY <3>1, <3>2, <3>3, <3>4, Zenon
  <2> QED
    BY <2>1, <2>2, Zenon DEF SlabsOwn
<1>9. LargeOwn(C2, L, R2)
  <2>1. ASSUME NEW q \in Page, L[q] # 0 PROVE q # p /\ LargeRun(L, q) \in R2
    <3>1. LargeRun(L, q) \in R /\ LargeRun(L, q).start = q
      BY <2>1, Zenon DEF Sound, LargeOwn, LargeRun
    <3> QED
      BY <3>1, Zenon
  <2>2. ASSUME NEW q \in Page, L[q] # 0, NEW j \in Cache, NEW l \in DOMAIN C2[j]
        PROVE  C2[j][l].page # q
    <3>1. CASE j = idx /\ l = 1
      BY <1>2, <1>3, <2>1, <2>2, <3>1, Zenon
    <3>2. CASE ~(j = idx /\ l = 1)
      <4>1. PICK m \in DOMAIN C[j] : C2[j][l] = C[j][m]
        BY <1>5, <3>2, Zenon
      <4>2. C[j][m].page # q
        BY <2>2, Zenon DEF Sound, LargeOwn
      <4> QED
        BY <4>1, <4>2, Zenon
    <3> QED
      BY <3>1, <3>2, Zenon
  <2> QED
    BY <2>1, <2>2, Zenon DEF LargeOwn
<1>10. SinglePages(C2, L, R2)
  <2> SUFFICES ASSUME NEW r \in R2
               PROVE  \/ r.count = 1
                      \/ \E j \in Cache : \E l \in DOMAIN C2[j] : r = SlabRun(C2[j][l], j)
                      \/ \E q \in Page : L[q] # 0 /\ r = LargeRun(L, q)
    BY Zenon DEF SinglePages
  <2>1. CASE r = run
    BY <1>3, <1>4, <2>1, Zenon
  <2>2. CASE r \in R
    <3>1. CASE \E j \in Cache : \E m \in DOMAIN C[j] : r = SlabRun(C[j][m], j)
      BY <1>6, <3>1, ZenonT(40)
    <3> QED
      BY <2>2, <3>1, Zenon DEF Sound, SinglePages
  <2> QED
    BY <2>1, <2>2, Zenon DEF run
<1>11. Placed(C2, L, O)
  <2>1. ASSUME NEW o \in O, o.size <= SLAB_SIZE_MAX PROVE SmallPlaced(C2, o)
    <3>1. size_to_index(o.size) \in Cache /\ SmallPlaced(C, o)
      BY <2>1, SmallAt, Zenon DEF Sound, Placed
    <3> QED
      BY <1>6, <3>1, Zenon DEF SmallPlaced
  <2> QED
    BY <2>1, Zenon DEF Sound, Placed
<1>12. ASSUME NEW j \in Cache, NEW l \in DOMAIN C2[j] PROVE ListOK(C2[j][l], j)
  <2>1. CASE j = idx /\ l = 1
    BY <1>2, <1>3, <2>1, Zenon
  <2>2. CASE ~(j = idx /\ l = 1)
    <3>1. PICK m \in DOMAIN C[j] : C2[j][l] = C[j][m]
      BY <1>5, <2>2, Zenon
    <3>2. ListOK(C[j][m], j)
      BY Zenon DEF Sound, Lists
    <3> QED
      BY <3>1, <3>2, Zenon
  <2> QED
    BY <2>1, <2>2, Zenon
<1>13. ASSUME NEW j \in Cache, NEW l \in DOMAIN C2[j], NEW i \in 0 .. total_objs(j) - 1
       PROVE  Idle(C2[j][l], Slot(C2[j][l].page, j, i)) <=> ~Held(O, Slot(C2[j][l].page, j, i))
  <2>1. CASE j = idx /\ l = 1
    <3> DEFINE b == Slot(p, idx, i)
    <3>1. i \in 0 .. total_objs(idx) - 1 /\ C2[j][l] = v /\ v.page = p
      BY <1>2, <1>3, <2>1, Zenon
    <3>2. Idle(v, b)
      BY <1>2, <3>1, Zenon
    <3>3. IsSlot(v, idx, b)
      BY <3>1, Zenon DEF IsSlot
    <3>4. b \in Nat /\ InRun(b, run)
      BY <1>2, <1>4, <3>3, SlotInRun, Zenon
    <3> HIDE DEF b
    <3>5. ~Held(O, b)
      <4> SUFFICES ASSUME NEW o \in O, o.ptr = b PROVE FALSE
        BY Zenon DEF Held
      <4>1. PICK r \in R : InRun(b, r)
        BY ObjectRun, Zenon DEF Sound
      <4>2. r \in R2
        BY Zenon
      <4>3. r = run
        BY <1>4, <3>4, <4>1, <4>2, OneRun, Zenon
      <4> QED
        BY <1>4, <4>3, Zenon
    <3> QED
      BY <2>1, <3>1, <3>2, <3>5, Zenon DEF b
  <2>2. CASE ~(j = idx /\ l = 1)
    <3>1. PICK m \in DOMAIN C[j] : C2[j][l] = C[j][m]
      BY <1>5, <2>2, Zenon
    <3>2. Idle(C[j][m], Slot(C[j][m].page, j, i)) <=> ~Held(O, Slot(C[j][m].page, j, i))
      BY Zenon DEF Sound, Slots
    <3> QED
      BY <3>1, <3>2, Zenon
  <2> QED
    BY <2>1, <2>2, Zenon
<1>14. Typed(C2, L, O)
  BY <1>3, Zenon DEF Sound, Typed
<1>15. Lists(C2) /\ Slots(C2, O)
  BY <1>12, <1>13, Zenon DEF Lists, Slots
<1>16. Sound(C2, L, O, R2)
  BY <1>8, <1>9, <1>10, <1>11, <1>14, <1>15, Zenon DEF Sound
<1> QED
  BY <1>16, Zenon DEF C2, v

\* The place behind a header that nobody has yet is no slot and no object's.
LEMMA AddLarge ==
  ASSUME NEW C, NEW L, NEW O, NEW R, Sound(C, L, O, R), NEW size \in Sizes,
         ~(size <= SLAB_SIZE_MAX), NEW p \in Page, \A r \in R : r.start # p,
         NEW R2, R2 = R \cup {[start |-> p, count |-> large_pages(size)]}, Apart(R2)
  PROVE  Sound(C, [L EXCEPT ![p] = large_pages(size)],
               O \cup {[ptr |-> LargePtr(p), size |-> size]}, R2)
<1> DEFINE n == large_pages(size)
           run == [start |-> p, count |-> n]
           L2 == [L EXCEPT ![p] = n]
           new == [ptr |-> LargePtr(p), size |-> size]
           O2 == O \cup {new}
<1>1. L \in [Page -> Nat] /\ C \in [Cache -> Seq(SlabRecord)] /\ O \subseteq [ptr : Nat, size : Sizes]
  BY Zenon DEF Sound, Typed
<1>2. n \in Nat /\ n > 1 /\ n # 0
  BY LargeFits, Zenon
<1>3. LargePtr(p) \in Nat /\ InRun(LargePtr(p), run)
  BY <1>2, LargeInRun, Zenon
<1>4. run.start = p /\ run \in R2 /\ R \subseteq R2
  BY Zenon DEF run
<1>5. L2 \in [Page -> Nat] /\ L2[p] = n /\ \A q \in Page : q # p => L2[q] = L[q]
  BY <1>1, <1>2, Zenon
<1>6. new.ptr = LargePtr(p) /\ new.size = size /\ new \in [ptr : Nat, size : Sizes]
  BY <1>3, Zenon
<1> HIDE DEF n, run, L2, new
<1>7. L[p] = 0
  <2> SUFFICES ASSUME L[p] # 0 PROVE FALSE
    BY Zenon
  <2>1. LargeRun(L, p) \in R /\ LargeRun(L, p).start = p
    BY Zenon DEF Sound, LargeOwn, LargeRun
  <2> QED
    BY <2>1, Zenon
<1>8. LargeRun(L2, p) = run /\ \A q \in Page : q # p => LargeRun(L2, q) = LargeRun(L, q)
  BY <1>5, Zenon DEF LargeRun, run
<1>9. \A q \in Page : L[q] # 0 => q # p
  BY <1>7, Zenon
<1>10. \A j \in Cache : \A m \in DOMAIN C[j] : C[j][m].page # p /\ SlabRun(C[j][m], j) \in R
  <2> SUFFICES ASSUME NEW j \in Cache, NEW m \in DOMAIN C[j]
               PROVE  C[j][m].page # p /\ SlabRun(C[j][m], j) \in R
    BY Zenon
  <2>1. SlabRun(C[j][m], j) \in R
    BY Zenon DEF Sound, SlabsOwn
  <2>2. SlabRun(C[j][m], j).start = C[j][m].page
    BY Zenon DEF SlabRun
  <2> QED
    BY <2>1, <2>2, Zenon
<1>11. ASSUME NEW r \in R, InRun(LargePtr(p), r) PROVE FALSE
  <2>1. r = run
    BY <1>3, <1>4, <1>11, OneRun, Zenon
  <2> QED
    BY <1>4, <2>1, Zenon
<1>12. ~Held(O, LargePtr(p))
  <2> SUFFICES ASSUME NEW o \in O, o.ptr = LargePtr(p) PROVE FALSE
    BY Zenon DEF Held
  <2>1. \E r \in R : InRun(o.ptr, r)
    BY ObjectRun, Zenon DEF Sound
  <2> QED
    BY <1>11, <2>1, Zenon
<1>13. \A b : Held(O2, b) <=> Held(O, b) \/ b = LargePtr(p)
  BY <1>6, Zenon DEF Held
<1>14. Typed(C, L2, O2)
  BY <1>1, <1>5, <1>6 DEF Sound, Typed
<1>15. SlabsOwn(C, R2)
  BY <1>4, Zenon DEF Sound, SlabsOwn
<1>16. LargeOwn(C, L2, R2)
  <2>1. ASSUME NEW q \in Page, L2[q] # 0 PROVE LargeRun(L2, q) \in R2
    <3>1. CASE q = p
      BY <1>4, <1>8, <3>1, Zenon
    <3>2. CASE q # p
      BY <1>4, <1>5, <1>8, <2>1, <3>2, Zenon DEF Sound, LargeOwn
    <3> QED
      BY <3>1, <3>2, Zenon
  <2>2. ASSUME NEW q \in Page, L2[q] # 0, NEW j \in Cache, NEW l \in DOMAIN C[j]
        PROVE  C[j][l].page # q
    <3>1. CASE q = p
      BY <1>10, <3>1, Zenon
    <3>2. CASE q # p
      <4>1. L[q] # 0
        BY <1>5, <2>2, <3>2, Zenon
      <4> QED
        BY <4>1, Zenon DEF Sound, LargeOwn
    <3> QED
      BY <3>1, <3>2, Zenon
  <2> QED
    BY <2>1, <2>2, Zenon DEF LargeOwn
<1>17. SinglePages(C, L2, R2)
  <2> SUFFICES ASSUME NEW r \in R2
               PROVE  \/ r.count = 1
                      \/ \E j \in Cache : \E l \in DOMAIN C[j] : r = SlabRun(C[j][l], j)
                      \/ \E q \in Page : L2[q] # 0 /\ r = LargeRun(L2, q)
    BY Zenon DEF SinglePages
  <2>1. CASE r = run
    BY <1>2, <1>5, <1>8, <2>1, Zenon
  <2>2. CASE r \in R
    <3>1. CASE \E q \in Page : L[q] # 0 /\ r = LargeRun(L, q)
      BY <1>5, <1>8, <1>9, <3>1, Zenon
    <3> QED
      BY <2>2, <3>1, Zenon DEF Sound, SinglePages
  <2> QED
    BY <2>1, <2>2, Zenon DEF run, n
<1>18. Placed(C, L2, O2)
  <2>1. LargePlaced(L2, new)
    BY <1>5, <1>6, Zenon DEF LargePlaced, n
  <2>2. ASSUME NEW o \in O, ~(o.size <= SLAB_SIZE_MAX) PROVE LargePlaced(L2, o)
    <3>1. PICK q \in Page : L[q] = large_pages(o.size) /\ o.ptr = LargePtr(q) /\ L[q] # 0
      <4>1. Typed(C, L, O) /\ Placed(C, L, O)
        BY Zenon DEF Sound
      <4> QED
        BY <2>2, <4>1, LargeAt
    <3>2. L2[q] = L[q]
      BY <1>5, <1>9, <3>1, Zenon
    <3> QED
      BY <3>1, <3>2, Zenon DEF LargePlaced
  <2>3. \A o, q \in O2 : o.ptr = q.ptr => o = q
    BY <1>6, <1>12, Zenon DEF Sound, Placed, Held
  <2>4. \A o \in O : o.size <= SLAB_SIZE_MAX => SmallPlaced(C, o)
    BY Zenon DEF Sound, Placed
  <2> QED
    BY <1>6, <2>1, <2>2, <2>3, <2>4, Zenon DEF Placed
<1>19. Slots(C, O2)
  <2> SUFFICES ASSUME NEW j \in Cache, NEW l \in DOMAIN C[j], NEW i \in 0 .. total_objs(j) - 1,
                      NEW b, b = Slot(C[j][l].page, j, i)
               PROVE  Idle(C[j][l], b) <=> ~Held(O2, b)
    BY Zenon DEF Slots
  <2>1. Idle(C[j][l], b) <=> ~Held(O, b)
    BY Zenon DEF Sound, Slots
  <2>2. IsSlot(C[j][l], j, b) /\ C[j][l] \in SlabRecord
    BY <1>1 DEF IsSlot
  <2>3. InRun(b, SlabRun(C[j][l], j))
    BY <2>2, SlotInRun, Zenon
  <2>4. b # LargePtr(p)
    BY <1>10, <1>11, <2>3, Zenon
  <2> QED
    BY <1>13, <2>1, <2>4, Zenon
<1>20. Sound(C, L2, O2, R2)
  BY <1>14, <1>15, <1>16, <1>17, <1>18, <1>19, Zenon DEF Sound
<1> QED
  BY <1>20, Zenon DEF L2, n, new

\* A large object is no slot of a slab: the slabs do not see it go.
LEMMA ForgetLarge ==
  ASSUME NEW C, NEW L, NEW O, NEW R, Sound(C, L, O, R), NEW o \in O, ~(o.size <= SLAB_SIZE_MAX)
  PROVE  Sound(C, L, O \ {o}, R)
<1>1. PICK p \in Page : L[p] # 0 /\ InRun(o.ptr, LargeRun(L, p))
  BY LargeAt, Zenon DEF Sound
<1>2. o.ptr \in Nat /\ C \in [Cache -> Seq(SlabRecord)]
  BY Zenon DEF Sound, Typed
<1>3. \A b : Held(O \ {o}, b) <=> Held(O, b) /\ b # o.ptr
  BY Zenon DEF Held, Sound, Placed
<1>4. Typed(C, L, O \ {o}) /\ Placed(C, L, O \ {o})
  BY Zenon DEF Sound, Typed, Placed
<1>5. Slots(C, O \ {o})
  <2> SUFFICES ASSUME NEW j \in Cache, NEW l \in DOMAIN C[j], NEW i \in 0 .. total_objs(j) - 1,
                      NEW b, b = Slot(C[j][l].page, j, i)
               PROVE  Idle(C[j][l], b) <=> ~Held(O \ {o}, b)
    BY Zenon DEF Slots
  <2>1. Idle(C[j][l], b) <=> ~Held(O, b)
    BY Zenon DEF Sound, Slots
  <2>2. IsSlot(C[j][l], j, b) /\ C[j][l] \in SlabRecord
    BY <1>2 DEF IsSlot
  <2>3. InRun(b, SlabRun(C[j][l], j))
    BY <2>2, SlotInRun, Zenon
  <2>4. b # o.ptr
    BY <1>1, <1>2, <2>3, NotBoth, Zenon DEF Sound
  <2> QED
    BY <1>3, <2>1, <2>4, Zenon
<1> QED
  BY <1>4, <1>5, Zenon DEF Sound

\* A header without an object goes with its run.
LEMMA DropHeader ==
  ASSUME NEW C, NEW L, NEW O, NEW R, Sound(C, L, O, R), NEW p \in Page, L[p] # 0,
         ~Held(O, LargePtr(p))
  PROVE  Sound(C, [L EXCEPT ![p] = 0], O, R \ {LargeRun(L, p)})
<1> DEFINE L2 == [L EXCEPT ![p] = 0]
           run == LargeRun(L, p)
           R2 == R \ {run}
<1>1. L \in [Page -> Nat] /\ C \in [Cache -> Seq(SlabRecord)] /\ O \subseteq [ptr : Nat, size : Sizes]
  BY Zenon DEF Sound, Typed
<1>2. L2 \in [Page -> Nat] /\ L2[p] = 0 /\ \A q \in Page : q # p => L2[q] = L[q]
  BY <1>1, Zenon
<1>3. run.start = p
  BY Zenon DEF LargeRun
<1> HIDE DEF L2, run
<1>4. \A q \in Page : L2[q] # 0 => q # p /\ L[q] # 0 /\ L2[q] = L[q] /\ LargeRun(L2, q) = LargeRun(L, q)
  BY <1>2, Zenon DEF LargeRun
<1>5. \A j \in Cache : \A m \in DOMAIN C[j] : SlabRun(C[j][m], j) \in R2
  <2> SUFFICES ASSUME NEW j \in Cache, NEW m \in DOMAIN C[j] PROVE SlabRun(C[j][m], j) \in R2
    BY Zenon
  <2>1. SlabRun(C[j][m], j) \in R /\ C[j][m].page # p
    BY Zenon DEF Sound, SlabsOwn, LargeOwn
  <2>2. SlabRun(C[j][m], j).start = C[j][m].page
    BY Zenon DEF SlabRun
  <2> QED
    BY <1>3, <2>1, <2>2, Zenon
<1>6. Apart(R2) /\ Typed(C, L2, O)
  BY <1>1, <1>2, Zenon DEF Sound, Apart, Typed
<1>7. SlabsOwn(C, R2)
  BY <1>5, Zenon DEF Sound, SlabsOwn
<1>8. LargeOwn(C, L2, R2)
  <2>1. ASSUME NEW q \in Page, L2[q] # 0 PROVE LargeRun(L2, q) \in R2
    <3>1. LargeRun(L, q) \in R /\ LargeRun(L, q).start = q
      BY <1>4, <2>1, Zenon DEF Sound, LargeOwn, LargeRun
    <3> QED
      BY <1>3, <1>4, <2>1, <3>1, Zenon
  <2> QED
    BY <1>4, <2>1, Zenon DEF Sound, LargeOwn
<1>9. SinglePages(C, L2, R2)
  <2> SUFFICES ASSUME NEW r \in R2
               PROVE  \/ r.count = 1
                      \/ \E j \in Cache : \E l \in DOMAIN C[j] : r = SlabRun(C[j][l], j)
                      \/ \E q \in Page : L2[q] # 0 /\ r = LargeRun(L2, q)
    BY Zenon DEF SinglePages
  <2>1. ASSUME NEW q \in Page, L[q] # 0, r = LargeRun(L, q) PROVE L2[q] # 0 /\ r = LargeRun(L2, q)
    <3>1. q # p
      BY <2>1, Zenon DEF run
    <3> QED
      BY <1>2, <1>4, <2>1, <3>1, Zenon
  <2> QED
    BY <2>1, Zenon DEF Sound, SinglePages
<1>10. Placed(C, L2, O)
  <2>1. ASSUME NEW o \in O, ~(o.size <= SLAB_SIZE_MAX) PROVE LargePlaced(L2, o)
    <3>1. PICK q \in Page : L[q] = large_pages(o.size) /\ o.ptr = LargePtr(q)
      <4>1. Typed(C, L, O) /\ Placed(C, L, O)
        BY Zenon DEF Sound
      <4> QED
        BY <2>1, <4>1, LargeAt
    <3>2. q # p
      BY <3>1, Zenon DEF Held
    <3> QED
      BY <1>2, <3>1, <3>2, Zenon DEF LargePlaced
  <2> QED
    BY <2>1, Zenon DEF Sound, Placed
<1>11. Sound(C, L2, O, R2)
  BY <1>6, <1>7, <1>8, <1>9, <1>10, Zenon DEF Sound
<1> QED
  BY <1>11, Zenon DEF L2, run

\* A caller takes a page.
LEMMA AddPage ==
  ASSUME NEW C, NEW L, NEW O, NEW R, Sound(C, L, O, R), NEW p,
         NEW R2, R2 = R \cup {[start |-> p, count |-> 1]}, Apart(R2)
  PROVE  Sound(C, L, O, R2)
<1>1. [start |-> p, count |-> 1].count = 1 /\ R \subseteq R2
  BY Zenon
<1>2. SlabsOwn(C, R2) /\ LargeOwn(C, L, R2)
  BY <1>1, Zenon DEF Sound, SlabsOwn, LargeOwn
<1>3. SinglePages(C, L, R2)
  BY <1>1, Zenon DEF Sound, SinglePages
<1> QED
  BY <1>2, <1>3, Zenon DEF Sound

\* A run that is no slab's and behind no header goes.
LEMMA DropPage ==
  ASSUME NEW C, NEW L, NEW O, NEW R, Sound(C, L, O, R), NEW r,
         \A idx \in Cache : \A k \in DOMAIN C[idx] : r # SlabRun(C[idx][k], idx),
         \A p \in Page : L[p] # 0 => r # LargeRun(L, p)
  PROVE  Sound(C, L, O, R \ {r})
<1>1. Apart(R \ {r})
  BY Zenon DEF Sound, Apart
<1>2. SlabsOwn(C, R \ {r}) /\ LargeOwn(C, L, R \ {r})
  BY Zenon DEF Sound, SlabsOwn, LargeOwn
<1>3. SinglePages(C, L, R \ {r})
  BY Zenon DEF Sound, SinglePages
<1> QED
  BY <1>1, <1>2, <1>3, Zenon DEF Sound

-----------------------------------------------------------------------------
(* Every step of the allocator keeps the invariant.                        *)

\* The limit between small and large is a number.
LEMMA MaxIsNat == SLAB_SIZE_MAX \in Nat
<1>1. NUM_SLAB_CACHES - 1 \in Cache
  BY SlabAssumption DEF Cache
<1> QED
  BY <1>1, ClassFacts, Zenon DEF SLAB_SIZE_MAX

\* allocPages returns pages that no run has.
LEMMA AllocRuns ==
  ASSUME Apart(runs), \A r \in runs : Run(r.start, r.count) \subseteq used,
         NEW s \in Page, NEW n \in Nat \ {0}, allocPages(s, n)
  PROVE  /\ Apart(runs') /\ \A r \in runs' : Run(r.start, r.count) \subseteq used'
         /\ \A r \in runs : r.start # s
         /\ runs' = runs \cup {[start |-> s, count |-> n]}
<1> DEFINE new == [start |-> s, count |-> n]
<1>1. /\ Run(s, n) \cap used = {} /\ used' = used \cup Run(s, n)
      /\ runs' = runs \cup {new}
  BY Zenon DEF allocPages, FirstFit, Clear
<1>2. new.start = s /\ new.count = n /\ new \in [start : Page, count : Nat \ {0}]
  BY Zenon
<1>3. ASSUME NEW r \in runs PROVE r.start \in Run(r.start, r.count)
  <2>1. r.start \in Nat /\ r.count \in Nat \ {0}
    BY MapAssumption DEF Apart, Page
  <2> QED
    BY <2>1 DEF Run
<1>4. s \in Run(s, n)
  BY MapAssumption DEF Page, Run
<1> HIDE DEF new
<1>5. \A r \in runs : r.start # s
  BY <1>1, <1>3, <1>4, Zenon
<1>6. \A r \in runs' : Run(r.start, r.count) \subseteq used'
  BY <1>1, <1>2, Zenon
<1>7. Apart(runs')
  <2>1. runs' \subseteq [start : Page, count : Nat \ {0}]
    BY <1>1, <1>2, Zenon DEF Apart
  <2>2. \A r \in runs : Run(r.start, r.count) \cap Run(new.start, new.count) = {}
    BY <1>1, <1>2, Zenon
  <2>3. ASSUME NEW r \in runs', NEW q \in runs', r # q
        PROVE  Run(r.start, r.count) \cap Run(q.start, q.count) = {}
    <3>1. CASE r \in runs /\ q \in runs
      BY <2>3, <3>1, Zenon DEF Apart
    <3>2. CASE r \in runs /\ q = new
      BY <2>2, <3>2, Zenon
    <3>3. CASE r = new /\ q \in runs
      <4>1. Run(q.start, q.count) \cap Run(r.start, r.count) = {}
        BY <2>2, <3>3, Zenon
      <4> QED
        BY <4>1, Zenon
    <3> QED
      BY <1>1, <2>3, <3>1, <3>2, <3>3, Zenon
  <2> QED
    BY <2>1, <2>3, Zenon DEF Apart
<1> QED
  BY <1>1, <1>5, <1>6, <1>7, Zenon DEF new

\* freePages leaves the bits of the other runs.
LEMMA FreeRuns ==
  ASSUME Apart(runs), \A r \in runs : Run(r.start, r.count) \subseteq used,
         NEW s, NEW n, [start |-> s, count |-> n] \in runs, freePages(s, n)
  PROVE  /\ runs' = runs \ {[start |-> s, count |-> n]}
         /\ \A r \in runs' : Run(r.start, r.count) \subseteq used'
<1> DEFINE old == [start |-> s, count |-> n]
<1>1. runs' = runs \ {old} /\ used' = used \ Run(s, n) /\ old.start = s /\ old.count = n
  BY Zenon DEF freePages
<1> HIDE DEF old
<1>2. ASSUME NEW r \in runs' PROVE Run(r.start, r.count) \subseteq used'
  <2>1. r \in runs /\ old \in runs /\ r # old
    BY <1>1, Zenon DEF old
  <2>2. Run(r.start, r.count) \cap Run(s, n) = {} /\ Run(r.start, r.count) \subseteq used
    BY <1>1, <2>1, Zenon DEF Apart
  <2> QED
    BY <1>1, <2>2, Zenon
<1> QED
  BY <1>1, <1>2, Zenon DEF old

\* The invariant holds when nothing is allocated yet.
LEMMA InitSlabInv ==
  ASSUME Classed, SlabInit
  PROVE  SlabInv
<1>1. slab_caches = [idx \in Cache |-> << >>] /\ large = [p \in Page |-> 0] /\ objects = {} /\ runs = {}
      /\ complaint = "none"
  BY Zenon DEF SlabInit, PmmInit
<1>2. Typed(slab_caches, large, objects)
  BY <1>1 DEF Typed
<1>3. \A idx \in Cache : DOMAIN slab_caches[idx] = {}
  BY <1>1
<1>4. \A p \in Page : large[p] = 0
  BY <1>1, Zenon
<1>5. Apart(runs) /\ SlabsOwn(slab_caches, runs) /\ LargeOwn(slab_caches, large, runs)
  BY <1>1, <1>3, <1>4, Zenon DEF Apart, SlabsOwn, LargeOwn
<1>6. SinglePages(slab_caches, large, runs) /\ Placed(slab_caches, large, objects)
  BY <1>1, Zenon DEF SinglePages, Placed
<1>7. Lists(slab_caches) /\ Slots(slab_caches, objects)
  BY <1>3, Zenon DEF Lists, Slots
<1>8. Headed(large, objects)
  BY <1>4, Zenon DEF Headed
<1> QED
  BY <1>1, <1>2, <1>5, <1>6, <1>7, <1>8, Zenon DEF SlabInv, Sound

\* A step the page allocator allows its callers, or one it does not see.
PmmStep == PmmNext \/ UNCHANGED pmmVars

\* init_cache keeps the invariant.
LEMMA Keeps_init_cache ==
  ASSUME SlabInv, NEW idx \in Cache, NEW page \in Page, init_cache(idx, page)
  PROVE  SlabInv' /\ PmmStep
<1> DEFINE v == create_slab(page, idx)
<1>1. /\ slab_caches[idx] = << >> /\ allocPages(page, slab_pages(idx))
      /\ slab_caches' = [slab_caches EXCEPT ![idx] = << v >>]
      /\ large' = large /\ objects' = objects /\ complaint' = complaint
  BY Zenon DEF init_cache
<1>2. slab_pages(idx) \in Nat \ {0} /\ slab_pages(idx) \in Counts
  BY ClassFacts, Zenon
<1>3. /\ Apart(runs') /\ \A r \in runs' : Run(r.start, r.count) \subseteq used'
      /\ \A r \in runs : r.start # page
      /\ runs' = runs \cup {[start |-> page, count |-> slab_pages(idx)]}
  BY <1>1, <1>2, AllocRuns, Zenon DEF SlabInv, Sound
<1>4. << v >> = << v >> \o slab_caches[idx]
  BY <1>1
<1>5. slab_caches' = [slab_caches EXCEPT ![idx] = << v >> \o slab_caches[idx]]
  BY <1>1, <1>4, Zenon
<1>6. Sound(slab_caches', large', objects', runs')
  <2>1. Sound([slab_caches EXCEPT ![idx] = << v >> \o slab_caches[idx]], large, objects, runs')
    BY <1>3, AddSlab, Zenon DEF SlabInv
  <2> QED
    BY <1>1, <1>5, <2>1, Zenon
<1>7. PmmStep
  BY <1>1, <1>2, Zenon DEF PmmStep, PmmNext
<1> QED
  BY <1>1, <1>3, <1>6, <1>7, Zenon DEF SlabInv

\* An object more leaves the headers their objects.
LEMMA HeadedGrows ==
  ASSUME NEW L, NEW O, Headed(L, O), NEW new
  PROVE  Headed(L, O \cup {new})
  BY Zenon DEF Headed

\* alloc from a slab that has room keeps the invariant, and never finds its list
\* corrupt.
LEMMA Keeps_alloc_from ==
  ASSUME SlabInv, NEW size \in Sizes, size <= SLAB_SIZE_MAX,
         NEW k \in DOMAIN slab_caches[size_to_index(size)], alloc_from(size, k)
  PROVE  SlabInv' /\ PmmStep
<1> DEFINE idx == size_to_index(size)
           slab == slab_caches[idx][k]
           a == Head(slab.free_list)
           new == [ptr |-> a, size |-> size]
           C2 == [slab_caches EXCEPT ![idx][k] = Pop(slab)]
<1>1. slab.free_count > 0 /\ UNCHANGED << pmmVars, large >>
  BY Zenon DEF alloc_from, FirstWithRoom
<1>2. /\ Sound(C2, large, objects \cup {new}, runs)
      /\ a >= slab.page * PAGE_SIZE + HEADER /\ InSlab(slab, idx, a)
  BY <1>1, TakeSlot, Zenon DEF SlabInv
<1>3. slab_caches' = C2 /\ objects' = objects \cup {new} /\ complaint' = complaint
  BY <1>2, Zenon DEF alloc_from
<1>4. runs' = runs /\ used' = used /\ large' = large
  BY <1>1, Zenon DEF pmmVars
<1> HIDE DEF idx, slab, a, new, C2
<1>5. Headed(large, objects) => Headed(large', objects')
  BY <1>3, <1>4, HeadedGrows, Zenon
<1> QED
  BY <1>1, <1>2, <1>3, <1>4, <1>5, Zenon DEF SlabInv, PmmStep

\* alloc with a new slab keeps the invariant.
LEMMA Keeps_alloc_new_slab ==
  ASSUME SlabInv, NEW size \in Sizes, size <= SLAB_SIZE_MAX, NEW page \in Page,
         alloc_new_slab(size, page)
  PROVE  SlabInv' /\ PmmStep
<1> DEFINE idx == size_to_index(size)
           v == create_slab(page, idx)
           C1 == [slab_caches EXCEPT ![idx] = << v >> \o slab_caches[idx]]
           C2 == [slab_caches EXCEPT ![idx] = << Pop(v) >> \o slab_caches[idx]]
           new == [ptr |-> Head(v.free_list), size |-> size]
<1>1. /\ allocPages(page, slab_pages(idx))
      /\ slab_caches' = C2
      /\ objects' = objects \cup {new} /\ large' = large /\ complaint' = complaint
  BY Zenon DEF alloc_new_slab
<1>2. idx \in Cache
  BY Zenon DEF SlabInv, Sound, Typed, Classed
<1>3. slab_pages(idx) \in Nat \ {0} /\ slab_pages(idx) \in Counts
  BY <1>2, ClassFacts, Zenon
<1>4. /\ Apart(runs') /\ \A r \in runs' : Run(r.start, r.count) \subseteq used'
      /\ \A r \in runs : r.start # page
      /\ runs' = runs \cup {[start |-> page, count |-> slab_pages(idx)]}
  BY <1>1, <1>3, AllocRuns, Zenon DEF SlabInv, Sound
<1>5. Sound(C1, large, objects, runs')
  BY <1>2, <1>4, AddSlab, Zenon DEF SlabInv
<1>6. /\ v \in SlabRecord /\ ListOK(v, idx) /\ v.free_count > 0
  BY <1>2, NewSlab, Zenon
<1>7. Pop(v) \in SlabRecord
  BY <1>2, <1>6, PopFacts, Zenon
<1>8. slab_caches \in [Cache -> Seq(SlabRecord)]
  BY Zenon DEF SlabInv, Sound, Typed
<1> HIDE DEF v, idx
<1>9. 1 \in DOMAIN C1[idx] /\ C1[idx][1] = v
  BY <1>2, <1>6, <1>8, ConsFacts
<1>10. [C1 EXCEPT ![idx][1] = Pop(v)] = C2
  <2>1. [<< v >> \o slab_caches[idx] EXCEPT ![1] = Pop(v)] = << Pop(v) >> \o slab_caches[idx]
    BY <1>2, <1>6, <1>7, <1>8, PutFirst
  <2> QED
    BY <1>2, <1>8, <2>1, Zenon
<1> HIDE DEF C1, C2, new
<1>11. Sound([C1 EXCEPT ![idx][1] = Pop(v)], large, objects \cup {new}, runs')
  BY <1>5, <1>6, <1>9, TakeSlot, Zenon DEF new, idx
<1>12. Sound(slab_caches', large', objects', runs')
  BY <1>1, <1>10, <1>11, Zenon
<1>13. Headed(large, objects) => Headed(large', objects')
  BY <1>1, HeadedGrows, Zenon
<1>14. PmmStep
  BY <1>1, <1>3, Zenon DEF PmmStep, PmmNext
<1> QED
  BY <1>1, <1>4, <1>12, <1>13, <1>14, Zenon DEF SlabInv

\* alloc of a large object keeps the invariant.
LEMMA Keeps_alloc_large ==
  ASSUME SlabInv, NEW size \in Sizes, size > SLAB_SIZE_MAX, NEW page \in Page,
         alloc_large(size, page)
  PROVE  SlabInv' /\ PmmStep
<1> DEFINE n == large_pages(size)
           new == [ptr |-> LargePtr(page), size |-> size]
<1>1. /\ allocPages(page, n) /\ large' = [large EXCEPT ![page] = n]
      /\ objects' = objects \cup {new} /\ slab_caches' = slab_caches /\ complaint' = complaint
  BY Zenon DEF alloc_large, LargePtr
<1>2. n \in Nat \ {0} /\ n \in Counts /\ size \in Nat
  BY LargeFits, SlabAssumption, Zenon
<1>3. ~(size <= SLAB_SIZE_MAX)
  BY <1>2, MaxIsNat
<1>4. /\ Apart(runs') /\ \A r \in runs' : Run(r.start, r.count) \subseteq used'
      /\ \A r \in runs : r.start # page
      /\ runs' = runs \cup {[start |-> page, count |-> n]}
  BY <1>1, <1>2, AllocRuns, Zenon DEF SlabInv, Sound
<1>5. Sound(slab_caches, [large EXCEPT ![page] = n], objects \cup {new}, runs')
  BY <1>3, <1>4, AddLarge, Zenon DEF SlabInv
<1>6. Sound(slab_caches', large', objects', runs')
  BY <1>1, <1>5, Zenon
<1>7. ASSUME Headed(large, objects) PROVE Headed(large', objects')
  <2>1. large \in [Page -> Nat]
    BY Zenon DEF SlabInv, Sound, Typed
  <2>2. \A p \in Page : p # page => large'[p] = large[p]
    BY <1>1, <2>1, Zenon
  <2>3. new.size = size /\ new.ptr = LargePtr(page) /\ new \in objects'
    BY <1>1, Zenon
  <2> HIDE DEF new
  <2>4. ASSUME NEW p \in Page, large'[p] # 0
        PROVE  \E o \in objects' : ~(o.size <= SLAB_SIZE_MAX) /\ o.ptr = LargePtr(p)
    <3>1. CASE p = page
      BY <1>3, <2>3, <3>1, Zenon
    <3>2. CASE p # page
      BY <1>1, <1>7, <2>2, <2>4, <3>2, Zenon DEF Headed
    <3> QED
      BY <3>1, <3>2, Zenon
  <2> QED
    BY <2>4, Zenon DEF Headed
<1>8. PmmStep
  BY <1>1, <1>2, Zenon DEF PmmStep, PmmNext
<1> QED
  BY <1>1, <1>4, <1>6, <1>7, <1>8, Zenon DEF SlabInv

\* free of a small object keeps the invariant: its slab is found, and it is not on
\* the free list already.
LEMMA Keeps_free_small ==
  ASSUME SlabInv, NEW o \in objects, o.size <= SLAB_SIZE_MAX, objects' = objects \ {o}, free_small(o)
  PROVE  SlabInv' /\ PmmStep
<1> DEFINE idx == size_to_index(o.size)
           home == { j \in DOMAIN slab_caches[idx] : InSlab(slab_caches[idx][j], idx, o.ptr) }
           first == CHOOSE j \in home : \A i \in home : j <= i
           twice == \E i \in DOMAIN slab_caches[idx][first].free_list :
                      slab_caches[idx][first].free_list[i] = o.ptr
<1>1. /\ IF home = {} \/ twice
         THEN complaint' = "panic" /\ UNCHANGED slab_caches
         ELSE /\ slab_caches' = [slab_caches EXCEPT ![idx][first] = Push(slab_caches[idx][first], o.ptr)]
              /\ UNCHANGED complaint
      /\ UNCHANGED << pmmVars, large >>
  BY Zenon DEF free_small
<1>2. PICK k \in DOMAIN slab_caches[idx] :
        /\ home = {k} /\ ~Idle(slab_caches[idx][k], o.ptr)
        /\ Sound([slab_caches EXCEPT ![idx][k] = Push(slab_caches[idx][k], o.ptr)], large, objects \ {o}, runs)
  BY GiveSlot, Zenon DEF SlabInv
<1>3. idx \in Cache
  BY SmallAt, Zenon DEF SlabInv, Sound
<1>4. slab_caches \in [Cache -> Seq(SlabRecord)]
  BY Zenon DEF SlabInv, Sound, Typed
<1> HIDE DEF idx
<1>5. k \in Nat /\ slab_caches[idx][k] \in SlabRecord
  BY <1>3, <1>4
<1>6. first = k
  <2> HIDE DEF home
  <2> QED
    BY <1>2, <1>5
<1>7. ~twice /\ home # {}
  <2>1. DOMAIN slab_caches[idx][k].free_list = 1 .. Len(slab_caches[idx][k].free_list)
    BY <1>5 DEF SlabRecord
  <2> HIDE DEF home, first
  <2> QED
    BY <1>2, <1>6, <2>1, Zenon DEF Idle
<1> HIDE DEF home, first, twice
<1>8. /\ slab_caches' = [slab_caches EXCEPT ![idx][k] = Push(slab_caches[idx][k], o.ptr)]
      /\ complaint' = complaint /\ large' = large
  BY <1>1, <1>6, <1>7, Zenon
<1>9. used' = used /\ runs' = runs
  BY <1>1, Zenon DEF pmmVars
<1>10. Sound(slab_caches', large', objects', runs')
  BY <1>2, <1>8, <1>9, Zenon
<1>11. Headed(large, objects) => Headed(large', objects')
  BY <1>8, Zenon DEF Headed
<1> QED
  BY <1>1, <1>8, <1>9, <1>10, <1>11, Zenon DEF SlabInv, PmmStep

\* free of a large object keeps the invariant; a header that counts more pages than
\* free accepts loses its object and stays.
LEMMA Keeps_free_large ==
  ASSUME SlabInv, NEW o \in objects, ~(o.size <= SLAB_SIZE_MAX), objects' = objects \ {o}, free_large(o)
  PROVE  SlabInv' /\ PmmStep
<1> DEFINE page == (o.ptr - LARGE_OBJ_HEADER_SIZE) \div PAGE_SIZE
<1>1. /\ IF large[page] = 0 \/ large[page] > MAX_LARGE_PAGES
         THEN complaint' = "header" /\ UNCHANGED << pmmVars, large >>
         ELSE /\ freePages(page, large[page])
              /\ large' = [large EXCEPT ![page] = 0]
              /\ UNCHANGED complaint
      /\ slab_caches' = slab_caches
  BY Zenon DEF free_large
<1>2. /\ Typed(slab_caches, large, objects) /\ Placed(slab_caches, large, objects)
      /\ LargeOwn(slab_caches, large, runs) /\ Apart(runs)
      /\ large \in [Page -> Nat] /\ objects \subseteq [ptr : Nat, size : Sizes]
  BY Zenon DEF SlabInv, Sound, Typed
<1>3. PICK p \in Page : /\ large[p] = large_pages(o.size) /\ o.ptr = LargePtr(p) /\ large[p] # 0
                        /\ page = p
  BY <1>2, LargeAt
<1> HIDE DEF page
<1>4. Sound(slab_caches, large, objects \ {o}, runs)
  BY ForgetLarge, Zenon DEF SlabInv
<1>5. CASE large[p] > MAX_LARGE_PAGES
  <2>1. complaint' = "header" /\ UNCHANGED << pmmVars, large >>
    BY <1>1, <1>3, <1>5, Zenon
  <2>2. used' = used /\ runs' = runs /\ large' = large
    BY <2>1, Zenon DEF pmmVars
  <2>3. ~SizesFit
    <3>1. o.size \in Sizes
      BY <1>2, Zenon
    <3>2. o.size > SLAB_SIZE_MAX /\ large_pages(o.size) \in Nat
      BY <3>1, LargeFits, MaxIsNat
    <3>3. ~(large_pages(o.size) <= MAX_LARGE_PAGES)
      BY <1>3, <1>5, <3>2, SlabAssumption
    <3> QED
      BY <3>1, <3>2, <3>3, Zenon DEF SizesFit
  <2>4. Sound(slab_caches', large', objects', runs')
    BY <1>1, <1>4, <2>2, Zenon
  <2> QED
    BY <2>1, <2>2, <2>3, <2>4, Zenon DEF SlabInv, PmmStep
<1>6. CASE ~(large[p] > MAX_LARGE_PAGES)
  <2>1. freePages(p, large[p]) /\ large' = [large EXCEPT ![p] = 0] /\ complaint' = complaint
    BY <1>1, <1>3, <1>6, Zenon
  <2>2. LargeRun(large, p) \in runs /\ LargeRun(large, p).start = p /\ LargeRun(large, p).count = large[p]
    BY <1>2, <1>3, Zenon DEF LargeOwn, LargeRun
  <2>3. runs' = runs \ {LargeRun(large, p)} /\ \A r \in runs' : Run(r.start, r.count) \subseteq used'
    BY <1>2, <2>1, <2>2, FreeRuns, Zenon DEF SlabInv, LargeRun
  <2>4. ~Held(objects \ {o}, LargePtr(p))
    BY <1>2, <1>3, Zenon DEF Held, Placed
  <2>5. Sound(slab_caches, [large EXCEPT ![p] = 0], objects \ {o}, runs \ {LargeRun(large, p)})
    BY <1>3, <1>4, <2>4, DropHeader, Zenon
  <2>6. Sound(slab_caches', large', objects', runs')
    BY <1>1, <2>1, <2>3, <2>5, Zenon
  <2>7. ASSUME Headed(large, objects), NEW q \in Page, large'[q] # 0
        PROVE  \E x \in objects' : ~(x.size <= SLAB_SIZE_MAX) /\ x.ptr = LargePtr(q)
    <3>1. q # p /\ large[q] # 0
      BY <1>2, <2>1, <2>7, Zenon
    <3>2. PICK x \in objects : ~(x.size <= SLAB_SIZE_MAX) /\ x.ptr = LargePtr(q)
      BY <2>7, <3>1, Zenon DEF Headed
    <3>3. LargePtr(p) # LargePtr(q)
      <4>0. 2 \in Nat /\ 2 > 1
        OBVIOUS
      <4>1. (LargePtr(p) - LARGE_OBJ_HEADER_SIZE) \div PAGE_SIZE = p
        BY <4>0, LargeInRun, Zenon
      <4>2. (LargePtr(q) - LARGE_OBJ_HEADER_SIZE) \div PAGE_SIZE = q
        BY <4>0, LargeInRun, Zenon
      <4> QED
        BY <3>1, <4>1, <4>2, Zenon
    <3>4. x # o
      BY <1>3, <3>2, <3>3, Zenon
    <3> QED
      BY <3>2, <3>4, Zenon
  <2>8. Headed(large, objects) => Headed(large', objects')
    BY <2>7, Zenon DEF Headed
  <2>9. PmmStep
    BY <2>1, <2>2, Zenon DEF PmmStep, PmmNext
  <2> QED
    BY <2>1, <2>3, <2>6, <2>8, <2>9, Zenon DEF SlabInv
<1> QED
  BY <1>5, <1>6, Zenon

\* A page more for elf_exec keeps the invariant.
LEMMA Keeps_allocate_zeroed_page ==
  ASSUME SlabInv, NEW page \in Page, allocate_zeroed_page(page)
  PROVE  SlabInv' /\ PmmStep
<1>1. /\ allocPages(page, 1) /\ slab_caches' = slab_caches /\ large' = large
      /\ objects' = objects /\ complaint' = complaint
  BY Zenon DEF allocate_zeroed_page, slabVars
<1>2. 1 \in Counts /\ 1 \in Nat \ {0}
  BY SlabAssumption
<1>3. /\ Apart(runs') /\ \A r \in runs' : Run(r.start, r.count) \subseteq used'
      /\ runs' = runs \cup {[start |-> page, count |-> 1]}
  BY <1>1, <1>2, AllocRuns, Zenon DEF SlabInv, Sound
<1>4. Sound(slab_caches, large, objects, runs')
  BY <1>3, AddPage, Zenon DEF SlabInv
<1>5. PmmStep
  BY <1>1, <1>2, Zenon DEF PmmStep, PmmNext
<1> QED
  BY <1>1, <1>3, <1>4, <1>5, Zenon DEF SlabInv

\* The runs of slabs and large objects.
LEMMA RunsOf ==
  ASSUME NEW r
  PROVE  /\ r \in SlabRuns <=> \E idx \in Cache : \E k \in DOMAIN slab_caches[idx] :
                                 r = SlabRun(slab_caches[idx][k], idx)
         /\ r \in LargeRuns <=> \E p \in Page : large[p] # 0 /\ r = LargeRun(large, p)
<1>1. r \in SlabRuns <=> \E idx \in Cache : \E k \in DOMAIN slab_caches[idx] :
                          r = SlabRun(slab_caches[idx][k], idx)
  BY DEF SlabRuns, SlabRun
<1>2. r \in LargeRuns <=> \E p \in Page : large[p] # 0 /\ r = LargeRun(large, p)
  BY Zenon DEF LargeRuns, LargeRun
<1> QED
  BY <1>1, <1>2, Zenon

\* A page that elf_exec gives back keeps the invariant.
LEMMA Keeps_freePage ==
  ASSUME SlabInv, NEW r \in PageRuns, freePage(r)
  PROVE  SlabInv' /\ PmmStep
<1>1. /\ freePages(r.start, r.count) /\ slab_caches' = slab_caches /\ large' = large
      /\ objects' = objects /\ complaint' = complaint
  BY Zenon DEF freePage, slabVars
<1>2. r \in runs /\ r \notin SlabRuns /\ r \notin LargeRuns
  BY Zenon DEF PageRuns
<1>3. [start |-> r.start, count |-> r.count] = r
  BY <1>2, Zenon DEF SlabInv, Sound, Apart
<1>4. runs' = runs \ {r} /\ \A q \in runs' : Run(q.start, q.count) \subseteq used'
  BY <1>1, <1>2, <1>3, FreeRuns, Zenon DEF SlabInv, Sound
<1>5. /\ \A idx \in Cache : \A k \in DOMAIN slab_caches[idx] : r # SlabRun(slab_caches[idx][k], idx)
      /\ \A p \in Page : large[p] # 0 => r # LargeRun(large, p)
  BY <1>2, RunsOf, Zenon
<1>6. Sound(slab_caches, large, objects, runs \ {r})
  BY <1>5, DropPage, Zenon DEF SlabInv
<1>7. PmmStep
  BY <1>1, <1>2, Zenon DEF PmmStep, PmmNext
<1> QED
  BY <1>1, <1>4, <1>6, <1>7, Zenon DEF SlabInv

\* Every step keeps the invariant and is a step of the page allocator.
LEMMA StepSlabInv ==
  ASSUME SlabInv, [SlabNext]_vars
  PROVE  SlabInv' /\ PmmStep
<1>1. CASE UNCHANGED vars
  BY <1>1, Zenon DEF vars, slabVars, pmmVars, SlabInv, PmmStep
<1>2. ASSUME NEW idx \in Cache, NEW page \in Page, init_cache(idx, page) PROVE SlabInv' /\ PmmStep
  BY <1>2, Keeps_init_cache, Zenon
<1>3. ASSUME NEW size \in Sizes, alloc(size) PROVE SlabInv' /\ PmmStep
  <2>1. size \in Nat /\ SLAB_SIZE_MAX \in Nat
    BY SlabAssumption, MaxIsNat, Zenon
  <2>2. ~(size > SLAB_SIZE_MAX) => size <= SLAB_SIZE_MAX
    BY <2>1
  <2> QED
    BY <1>3, <2>2, Keeps_alloc_large, Keeps_alloc_from, Keeps_alloc_new_slab, Zenon DEF alloc
<1>4. ASSUME NEW page \in Page, allocate_zeroed_page(page) PROVE SlabInv' /\ PmmStep
  BY <1>4, Keeps_allocate_zeroed_page, Zenon
<1>5. ASSUME NEW o \in objects, free(o) PROVE SlabInv' /\ PmmStep
  BY <1>5, Keeps_free_small, Keeps_free_large, Zenon DEF free
<1>6. ASSUME NEW r \in PageRuns, freePage(r) PROVE SlabInv' /\ PmmStep
  BY <1>6, Keeps_freePage, Zenon
<1> QED
  BY <1>1, <1>2, <1>3, <1>4, <1>5, <1>6, Zenon DEF SlabNext

-----------------------------------------------------------------------------
(* What the invariant says of objects.                                     *)

\* The bytes of a small object are those of a slot.
LEMMA SmallExtent ==
  ASSUME SlabInv, NEW o \in objects, o.size <= SLAB_SIZE_MAX, NEW idx, idx = size_to_index(o.size)
  PROVE  /\ idx \in Cache /\ index_to_size(idx) \in Nat
         /\ \E k \in DOMAIN slab_caches[idx] : \E i \in 0 .. total_objs(idx) - 1 :
              /\ slab_caches[idx][k].page \in Nat
              /\ o.ptr = Slot(slab_caches[idx][k].page, idx, i)
              /\ \A x \in Bytes(o.ptr, o.size) :
                   /\ x \in Nat /\ o.ptr <= x /\ x < o.ptr + index_to_size(idx)
                   /\ InRun(x, SlabRun(slab_caches[idx][k], idx))
                   /\ x >= slab_caches[idx][k].page * PAGE_SIZE + HEADER
<1>1. /\ Typed(slab_caches, large, objects) /\ Placed(slab_caches, large, objects)
      /\ objects \subseteq [ptr : Nat, size : Sizes]
  BY Zenon DEF SlabInv, Sound, Typed
<1>2. o.size \in Sizes /\ o.size \in Nat
  BY <1>1, SlabAssumption, Zenon
<1>3. idx \in Cache /\ o.size <= index_to_size(idx) /\ index_to_size(idx) \in Nat
  <2>1. idx \in Cache /\ o.size <= index_to_size(idx)
    BY <1>1, <1>2, Zenon DEF Typed, Classed
  <2> QED
    BY <2>1, ClassFacts, Zenon
<1>4. PICK k \in DOMAIN slab_caches[idx] :
        IsSlot(slab_caches[idx][k], idx, o.ptr) /\ slab_caches[idx][k] \in SlabRecord
  BY <1>1, SmallAt, Zenon
<1>5. PICK i \in 0 .. total_objs(idx) - 1 : o.ptr = Slot(slab_caches[idx][k].page, idx, i)
  BY <1>4, Zenon DEF IsSlot
<1> DEFINE p == slab_caches[idx][k].page
<1>6. p \in Nat /\ PAGE_SIZE \in Nat /\ HEADER \in Nat /\ slab_pages(idx) \in Nat
  <2>1. p \in Page
    BY <1>4 DEF SlabRecord
  <2>2. Page \subseteq Nat
    BY DEF Page
  <2>3. PAGE_SIZE \in Nat /\ HEADER \in Nat
    BY MapAssumption, SlabAssumption
  <2>4. slab_pages(idx) \in Nat
    BY <1>3, ClassFacts, Zenon
  <2> QED
    BY <2>1, <2>2, <2>3, <2>4, Zenon
<1> HIDE DEF p
<1>7. /\ o.ptr \in Nat /\ p * PAGE_SIZE + HEADER <= o.ptr
      /\ o.ptr + index_to_size(idx) <= (p + slab_pages(idx)) * PAGE_SIZE
  BY <1>3, <1>5, <1>6, SlotIn DEF p
<1>8. p * PAGE_SIZE \in Nat /\ (p + slab_pages(idx)) * PAGE_SIZE \in Nat
  BY <1>6
<1>9. \A x \in Bytes(o.ptr, o.size) :
        /\ x \in Nat /\ o.ptr <= x /\ x < o.ptr + index_to_size(idx)
        /\ p * PAGE_SIZE <= x /\ x < (p + slab_pages(idx)) * PAGE_SIZE /\ x >= p * PAGE_SIZE + HEADER
  BY <1>2, <1>3, <1>6, <1>7, <1>8 DEF Bytes
<1>10. SlabRun(slab_caches[idx][k], idx).start = p /\ SlabRun(slab_caches[idx][k], idx).count = slab_pages(idx)
  BY Zenon DEF SlabRun, p
<1>11. \A x \in Bytes(o.ptr, o.size) : InRun(x, SlabRun(slab_caches[idx][k], idx))
  BY <1>9, <1>10, Zenon DEF InRun
<1> QED
  BY <1>3, <1>5, <1>6, <1>9, <1>11, Zenon DEF p

\* The bytes of a large object are in its run, behind the header.
LEMMA LargeExtent ==
  ASSUME SlabInv, NEW o \in objects, ~(o.size <= SLAB_SIZE_MAX)
  PROVE  \E p \in Page :
           /\ large[p] # 0 /\ o.ptr = LargePtr(p)
           /\ \A x \in Bytes(o.ptr, o.size) :
                x \in Nat /\ InRun(x, LargeRun(large, p)) /\ x >= p * PAGE_SIZE + LARGE_OBJ_HEADER_SIZE
<1>1. /\ Typed(slab_caches, large, objects) /\ Placed(slab_caches, large, objects)
      /\ objects \subseteq [ptr : Nat, size : Sizes]
  BY Zenon DEF SlabInv, Sound, Typed
<1>2. PICK p \in Page : large[p] = large_pages(o.size) /\ o.ptr = LargePtr(p) /\ large[p] # 0
  BY <1>1, LargeAt
<1> DEFINE n == large[p]
<1>3. /\ o.size \in Nat /\ n \in Nat /\ LARGE_OBJ_HEADER_SIZE + o.size <= n * PAGE_SIZE
  BY <1>1, <1>2, LargeFits, Zenon
<1>4. p \in Nat /\ PAGE_SIZE \in Nat /\ LARGE_OBJ_HEADER_SIZE \in Nat
  BY MapAssumption, SlabAssumption DEF Page
<1>5. LargeRun(large, p).start = p /\ LargeRun(large, p).count = n
  BY Zenon DEF LargeRun
<1> HIDE DEF n
<1>6. /\ p * PAGE_SIZE \in Nat /\ n * PAGE_SIZE \in Nat
      /\ (p + n) * PAGE_SIZE = p * PAGE_SIZE + n * PAGE_SIZE
  BY <1>3, <1>4
<1>7. \A x \in Bytes(o.ptr, o.size) :
        /\ x \in Nat /\ p * PAGE_SIZE <= x /\ x < (p + n) * PAGE_SIZE
        /\ x >= p * PAGE_SIZE + LARGE_OBJ_HEADER_SIZE
  BY <1>2, <1>3, <1>4, <1>6 DEF Bytes, LargePtr
<1>8. \A x \in Bytes(o.ptr, o.size) : InRun(x, LargeRun(large, p))
  BY <1>5, <1>7, Zenon DEF InRun
<1> QED
  BY <1>2, <1>7, <1>8, Zenon

\* Two objects that share a byte are one.
LEMMA ShareNoByte ==
  ASSUME SlabInv, NEW o \in objects, NEW q \in objects, o # q,
         NEW x \in Bytes(o.ptr, o.size), x \in Bytes(q.ptr, q.size)
  PROVE  FALSE
<1>1. /\ Apart(runs) /\ SlabsOwn(slab_caches, runs) /\ LargeOwn(slab_caches, large, runs)
      /\ o.ptr # q.ptr
  BY Zenon DEF SlabInv, Sound, Placed
<1>2. CASE o.size <= SLAB_SIZE_MAX /\ q.size <= SLAB_SIZE_MAX
  <2> DEFINE idx == size_to_index(o.size)
             jdx == size_to_index(q.size)
  <2>1. PICK k \in DOMAIN slab_caches[idx], i \in 0 .. total_objs(idx) - 1 :
          /\ slab_caches[idx][k].page \in Nat
          /\ o.ptr = Slot(slab_caches[idx][k].page, idx, i)
          /\ x \in Nat /\ o.ptr <= x /\ x < o.ptr + index_to_size(idx)
          /\ InRun(x, SlabRun(slab_caches[idx][k], idx))
    BY <1>2, SmallExtent, Zenon
  <2>2. PICK l \in DOMAIN slab_caches[jdx], j \in 0 .. total_objs(jdx) - 1 :
          /\ q.ptr = Slot(slab_caches[jdx][l].page, jdx, j)
          /\ q.ptr <= x /\ x < q.ptr + index_to_size(jdx)
          /\ InRun(x, SlabRun(slab_caches[jdx][l], jdx))
    BY <1>2, SmallExtent, Zenon
  <2>3. idx \in Cache /\ jdx \in Cache /\ index_to_size(idx) \in Nat
    BY <1>2, SmallExtent, Zenon
  <2> HIDE DEF idx, jdx
  <2>4. idx = jdx /\ k = l
    BY <1>1, <2>1, <2>2, <2>3, OneSlab
  <2> DEFINE p == slab_caches[idx][k].page
  <2>5. /\ o.ptr = Slot(p, idx, i) /\ q.ptr = Slot(p, idx, j) /\ i # j /\ p \in Nat
        /\ j \in 0 .. total_objs(idx) - 1
        /\ q.ptr <= x /\ x < q.ptr + index_to_size(idx)
    BY <1>1, <2>1, <2>2, <2>4, Zenon
  <2> HIDE DEF p
  <2>6. o.ptr + index_to_size(idx) <= q.ptr \/ q.ptr + index_to_size(idx) <= o.ptr
    BY <2>3, <2>5, SlotsSpaced
  <2>7. o.ptr \in Nat /\ q.ptr \in Nat
    BY <2>3, <2>5, SlotIn, Zenon
  <2> QED
    BY <2>1, <2>3, <2>5, <2>6, <2>7
<1>3. CASE o.size <= SLAB_SIZE_MAX /\ ~(q.size <= SLAB_SIZE_MAX)
  <2> DEFINE idx == size_to_index(o.size)
  <2>1. idx \in Cache
    BY <1>3, SmallExtent, Zenon
  <2>2. PICK k \in DOMAIN slab_caches[idx] : x \in Nat /\ InRun(x, SlabRun(slab_caches[idx][k], idx))
    BY <1>3, SmallExtent, Zenon
  <2>3. PICK p \in Page : large[p] # 0 /\ InRun(x, LargeRun(large, p))
    BY <1>3, LargeExtent, Zenon
  <2> QED
    BY <1>1, <2>1, <2>2, <2>3, NotBoth, Zenon
<1>4. CASE ~(o.size <= SLAB_SIZE_MAX) /\ q.size <= SLAB_SIZE_MAX
  <2> DEFINE idx == size_to_index(q.size)
  <2>1. idx \in Cache
    BY <1>4, SmallExtent, Zenon
  <2>2. PICK k \in DOMAIN slab_caches[idx] : x \in Nat /\ InRun(x, SlabRun(slab_caches[idx][k], idx))
    BY <1>4, SmallExtent, Zenon
  <2>3. PICK p \in Page : large[p] # 0 /\ InRun(x, LargeRun(large, p))
    BY <1>4, LargeExtent, Zenon
  <2> QED
    BY <1>1, <2>1, <2>2, <2>3, NotBoth, Zenon
<1>5. CASE ~(o.size <= SLAB_SIZE_MAX) /\ ~(q.size <= SLAB_SIZE_MAX)
  <2>1. PICK p \in Page : large[p] # 0 /\ o.ptr = LargePtr(p) /\ x \in Nat /\ InRun(x, LargeRun(large, p))
    BY <1>5, LargeExtent, Zenon
  <2>2. PICK s \in Page : large[s] # 0 /\ q.ptr = LargePtr(s) /\ InRun(x, LargeRun(large, s))
    BY <1>5, LargeExtent, Zenon
  <2>3. LargeRun(large, p) \in runs /\ LargeRun(large, s) \in runs
    BY <1>1, <2>1, <2>2, Zenon DEF LargeOwn
  <2>4. LargeRun(large, p) = LargeRun(large, s)
    BY <1>1, <2>1, <2>2, <2>3, OneRun, Zenon
  <2>5. p = s
    BY <2>4, Zenon DEF LargeRun
  <2> QED
    BY <1>1, <2>1, <2>2, <2>5, Zenon
<1> QED
  BY <1>2, <1>3, <1>4, <1>5, Zenon

\* No object reaches into a slot that is free.
LEMMA SparesIdle ==
  ASSUME SlabInv, NEW idx \in Cache, NEW k \in DOMAIN slab_caches[idx],
         NEW n \in DOMAIN slab_caches[idx][k].free_list, NEW o \in objects,
         slab_caches[idx][k].free_list[n] \in Bytes(o.ptr, o.size)
  PROVE  FALSE
<1> DEFINE slab == slab_caches[idx][k]
           x == slab.free_list[n]
<1>1. /\ Apart(runs) /\ SlabsOwn(slab_caches, runs) /\ LargeOwn(slab_caches, large, runs)
      /\ slab_caches \in [Cache -> Seq(SlabRecord)] /\ ListOK(slab, idx)
  BY Zenon DEF SlabInv, Sound, Typed, Lists
<1>2. slab \in SlabRecord
  BY <1>1
<1>3. n \in 1 .. Len(slab.free_list)
  BY <1>2 DEF SlabRecord
<1>4. IsSlot(slab, idx, x) /\ Idle(slab, x)
  BY <1>1, <1>3, Zenon DEF ListOK, Idle
<1>5. x \in Nat /\ InRun(x, SlabRun(slab, idx))
  BY <1>2, <1>4, SlotInRun, Zenon
<1>6. ~Held(objects, x)
  BY <1>4, Zenon DEF SlabInv, Sound, Slots, IsSlot
<1>7. o.ptr # x
  BY <1>6, Zenon DEF Held
<1> HIDE DEF x
<1>8. CASE o.size <= SLAB_SIZE_MAX
  <2> DEFINE jdx == size_to_index(o.size)
  <2>1. PICK l \in DOMAIN slab_caches[jdx], j \in 0 .. total_objs(jdx) - 1 :
          /\ slab_caches[jdx][l].page \in Nat
          /\ o.ptr = Slot(slab_caches[jdx][l].page, jdx, j)
          /\ o.ptr <= x /\ x < o.ptr + index_to_size(jdx)
          /\ InRun(x, SlabRun(slab_caches[jdx][l], jdx))
    BY <1>8, SmallExtent, Zenon DEF x
  <2>2. jdx \in Cache /\ index_to_size(jdx) \in Nat
    BY <1>8, SmallExtent, Zenon
  <2> HIDE DEF jdx
  <2>3. idx = jdx /\ k = l
    BY <1>1, <1>5, <2>1, <2>2, OneSlab, Zenon
  <2>4. PICK i \in 0 .. total_objs(idx) - 1 : x = Slot(slab.page, idx, i)
    BY <1>4, Zenon DEF IsSlot
  <2> DEFINE p == slab.page
  <2>5. /\ o.ptr = Slot(p, idx, j) /\ x = Slot(p, idx, i) /\ i # j /\ p \in Nat
        /\ j \in 0 .. total_objs(idx) - 1 /\ index_to_size(idx) \in Nat
        /\ o.ptr <= x /\ x < o.ptr + index_to_size(idx)
    BY <1>7, <2>1, <2>2, <2>3, <2>4, Zenon
  <2> HIDE DEF p
  <2>6. o.ptr + index_to_size(idx) <= x \/ x + index_to_size(idx) <= o.ptr
    BY <2>5, SlotsSpaced
  <2>7. o.ptr \in Nat /\ index_to_size(idx) # 0
    BY <2>5, SlotIn, ClassFacts, Zenon
  <2> QED
    BY <1>5, <2>5, <2>6, <2>7
<1>9. CASE ~(o.size <= SLAB_SIZE_MAX)
  <2>1. PICK p \in Page : large[p] # 0 /\ InRun(x, LargeRun(large, p))
    BY <1>9, LargeExtent, Zenon DEF x
  <2> QED
    BY <1>1, <1>5, <2>1, NotBoth, Zenon
<1> QED
  BY <1>8, <1>9, Zenon

\* Under the invariant no two objects share a byte, and none leaves its run.
LEMMA NoOverlap ==
  ASSUME SlabInv
  PROVE  ObjectsDisjoint
<1>1. \A o, q \in objects : o # q => Bytes(o.ptr, o.size) \cap Bytes(q.ptr, q.size) = {}
  BY ShareNoByte, Zenon
<1>2. ASSUME NEW o \in objects
      PROVE  \E r \in SlabRuns \cup LargeRuns :
               Bytes(o.ptr, o.size) \subseteq
                 r.start * PAGE_SIZE + (IF r \in SlabRuns THEN HEADER ELSE LARGE_OBJ_HEADER_SIZE)
                   .. (r.start + r.count) * PAGE_SIZE - 1
  <2>1. CASE o.size <= SLAB_SIZE_MAX
    <3> DEFINE idx == size_to_index(o.size)
    <3>1. idx \in Cache /\ index_to_size(idx) \in Nat
      BY <2>1, SmallExtent
    <3>2. PICK k \in DOMAIN slab_caches[idx] :
            /\ slab_caches[idx][k].page \in Nat
            /\ \A x \in Bytes(o.ptr, o.size) :
                 /\ x \in Nat /\ InRun(x, SlabRun(slab_caches[idx][k], idx))
                 /\ x >= slab_caches[idx][k].page * PAGE_SIZE + HEADER
      BY <2>1, SmallExtent
    <3> DEFINE r == SlabRun(slab_caches[idx][k], idx)
               p == slab_caches[idx][k].page
               n == slab_pages(idx)
    <3>3. r \in SlabRuns
      BY <3>1, RunsOf, Zenon
    <3>4. r.start = p /\ r.count = n /\ p \in Nat /\ n \in Nat
      BY <3>1, <3>2, ClassFacts DEF SlabRun
    <3>5. \A x \in Bytes(o.ptr, o.size) :
            x \in Nat /\ x >= p * PAGE_SIZE + HEADER /\ x < (p + n) * PAGE_SIZE
      BY <3>2, <3>4, Zenon DEF InRun
    <3> HIDE DEF r, p, n
    <3>6. PAGE_SIZE \in Nat /\ HEADER \in Nat
      BY MapAssumption, SlabAssumption
    <3>7. p * PAGE_SIZE \in Nat /\ (p + n) * PAGE_SIZE \in Nat
      BY <3>4, <3>6
    <3>8. Bytes(o.ptr, o.size) \subseteq p * PAGE_SIZE + HEADER .. (p + n) * PAGE_SIZE - 1
      BY <3>5, <3>6, <3>7
    <3> QED
      BY <3>3, <3>4, <3>8
  <2>2. CASE ~(o.size <= SLAB_SIZE_MAX)
    <3>1. PICK p \in Page :
            /\ large[p] # 0
            /\ \A x \in Bytes(o.ptr, o.size) :
                 x \in Nat /\ InRun(x, LargeRun(large, p)) /\ x >= p * PAGE_SIZE + LARGE_OBJ_HEADER_SIZE
      BY <2>2, LargeExtent
    <3> DEFINE r == LargeRun(large, p)
               n == large[p]
    <3>2. r \in LargeRuns
      BY <3>1, RunsOf, Zenon
    <3>3. r \notin SlabRuns
      <4> SUFFICES ASSUME NEW idx \in Cache, NEW k \in DOMAIN slab_caches[idx],
                          r = SlabRun(slab_caches[idx][k], idx)
                   PROVE  FALSE
        BY RunsOf, Zenon
      <4>1. slab_caches[idx][k].page = p
        BY DEF SlabRun, LargeRun
      <4> QED
        BY <3>1, <4>1, Zenon DEF SlabInv, Sound, LargeOwn
    <3>4. r.start = p /\ r.count = n /\ p \in Nat /\ n \in Nat
      BY MapAssumption DEF LargeRun, Page, SlabInv, Sound, Typed
    <3>5. \A x \in Bytes(o.ptr, o.size) :
            x \in Nat /\ x >= p * PAGE_SIZE + LARGE_OBJ_HEADER_SIZE /\ x < (p + n) * PAGE_SIZE
      BY <3>1, <3>4, Zenon DEF InRun
    <3> HIDE DEF r, n
    <3>6. PAGE_SIZE \in Nat /\ LARGE_OBJ_HEADER_SIZE \in Nat
      BY MapAssumption, SlabAssumption
    <3>7. p * PAGE_SIZE \in Nat /\ (p + n) * PAGE_SIZE \in Nat
      BY <3>4, <3>6
    <3>8. Bytes(o.ptr, o.size) \subseteq p * PAGE_SIZE + LARGE_OBJ_HEADER_SIZE .. (p + n) * PAGE_SIZE - 1
      BY <3>5, <3>6, <3>7
    <3> QED
      BY <3>2, <3>3, <3>4, <3>8
  <2> QED
    BY <2>1, <2>2, Zenon
<1>3. \A idx \in Cache : \A k \in DOMAIN slab_caches[idx] :
        \A i \in DOMAIN slab_caches[idx][k].free_list, o \in objects :
          slab_caches[idx][k].free_list[i] \notin Bytes(o.ptr, o.size)
  BY SparesIdle, Zenon
<1> QED
  BY <1>1, <1>2, <1>3, Zenon DEF ObjectsDisjoint

\* Each slot of a slab is on its list, once, or in use.
LEMMA SlotsSplit ==
  ASSUME SlabInv, NEW idx \in Cache, NEW k \in DOMAIN slab_caches[idx], NEW slab,
         slab = slab_caches[idx][k]
  PROVE  /\ slab.free_count = Len(slab.free_list)
         /\ IdleSlots(slab) \cap TakenSlots(slab, idx) = {}
         /\ IdleSlots(slab) \cup TakenSlots(slab, idx) = AllSlots(slab, idx)
         /\ slab.free_list \in Seq(Nat)
         /\ \A j, l \in 1 .. Len(slab.free_list) : slab.free_list[j] = slab.free_list[l] => j = l
<1> DEFINE idle == IdleSlots(slab)
           taken == TakenSlots(slab, idx)
           slots == AllSlots(slab, idx)
<1>1. /\ Apart(runs) /\ SlabsOwn(slab_caches, runs) /\ LargeOwn(slab_caches, large, runs)
      /\ slab_caches \in [Cache -> Seq(SlabRecord)] /\ ListOK(slab, idx)
      /\ Typed(slab_caches, large, objects) /\ Placed(slab_caches, large, objects)
  BY Zenon DEF SlabInv, Sound, Typed, Lists
<1>2. slab \in SlabRecord
  BY <1>1
<1>3. slab.free_list \in Seq(Nat) /\ DOMAIN slab.free_list = 1 .. Len(slab.free_list)
  BY <1>2 DEF SlabRecord
<1>4. \A b : b \in idle <=> Idle(slab, b)
  BY <1>3, Zenon DEF Idle, IdleSlots
<1>5. \A b : b \in slots <=> IsSlot(slab, idx, b)
  BY <1>1, Zenon DEF IsSlot, ListOK, AllSlots
<1>6. ASSUME NEW o \in objects, InSlab(slab, idx, o.ptr) PROVE IsSlot(slab, idx, o.ptr)
  <2>1. o.ptr \in Nat /\ InRun(o.ptr, SlabRun(slab, idx))
    BY <1>1, <1>2, <1>6, InSlabInRun, Zenon DEF Typed, ListOK
  <2>2. CASE o.size <= SLAB_SIZE_MAX
    <3> DEFINE jdx == size_to_index(o.size)
    <3>1. jdx \in Cache
      BY <1>1, <2>2, SmallAt, Zenon
    <3>2. PICK l \in DOMAIN slab_caches[jdx] :
            /\ IsSlot(slab_caches[jdx][l], jdx, o.ptr)
            /\ InRun(o.ptr, SlabRun(slab_caches[jdx][l], jdx))
      BY <1>1, <2>2, SmallAt, Zenon
    <3> HIDE DEF jdx
    <3>3. idx = jdx /\ k = l
      BY <1>1, <2>1, <3>1, <3>2, OneSlab
    <3> QED
      BY <3>2, <3>3
  <2>3. CASE ~(o.size <= SLAB_SIZE_MAX)
    <3>1. PICK p \in Page : large[p] # 0 /\ InRun(o.ptr, LargeRun(large, p))
      BY <1>1, <2>3, LargeAt, Zenon
    <3> QED
      BY <1>1, <2>1, <3>1, NotBoth, Zenon
  <2> QED
    BY <2>2, <2>3, Zenon
<1>7. \A b : IsSlot(slab, idx, b) => InSlab(slab, idx, b)
  BY <1>1, <1>2, SlotInRun, Zenon DEF ListOK
<1>8. \A b : b \in taken <=> IsSlot(slab, idx, b) /\ Held(objects, b)
  BY <1>6, <1>7, Zenon DEF Held, TakenSlots
<1>9. \A b : IsSlot(slab, idx, b) => (Idle(slab, b) <=> ~Held(objects, b))
  BY Zenon DEF SlabInv, Sound, Slots, IsSlot
<1>10. \A b : Idle(slab, b) => IsSlot(slab, idx, b)
  BY <1>1, Zenon DEF Idle, ListOK
<1>11. /\ slab.free_count = Len(slab.free_list)
       /\ \A j, l \in 1 .. Len(slab.free_list) : slab.free_list[j] = slab.free_list[l] => j = l
  BY <1>1, Zenon DEF ListOK
<1> HIDE DEF idle, taken, slots
<1>12. idle \cap taken = {}
  BY <1>4, <1>8, <1>9, Zenon
<1>13. idle \cup taken = slots
  <2>1. \A b : b \in idle \cup taken <=> b \in slots
    BY <1>4, <1>5, <1>8, <1>9, <1>10, Zenon
  <2> QED
    BY <2>1, Zenon
<1> QED
  BY <1>3, <1>11, <1>12, <1>13, Zenon DEF idle, taken, slots

\* Each run is a slab's, that of a large object somebody holds, or one page.
LEMMA PagesAdd ==
  ASSUME SlabInv, SizesFit
  PROVE  PagesAccounted
<1>1. /\ SlabsOwn(slab_caches, runs) /\ LargeOwn(slab_caches, large, runs)
      /\ SinglePages(slab_caches, large, runs) /\ Headed(large, objects)
      /\ objects \subseteq [ptr : Nat, size : Sizes]
  BY Zenon DEF SlabInv, Sound, Typed
<1>2. SlabRuns \cap LargeRuns = {}
  <2> SUFFICES ASSUME NEW r, r \in SlabRuns, r \in LargeRuns PROVE FALSE
    BY Zenon
  <2>1. PICK idx \in Cache : \E k \in DOMAIN slab_caches[idx] : r = SlabRun(slab_caches[idx][k], idx)
    BY RunsOf, Zenon
  <2>2. PICK k \in DOMAIN slab_caches[idx] : r = SlabRun(slab_caches[idx][k], idx)
    BY <2>1, Zenon
  <2>3. PICK p \in Page : large[p] # 0 /\ r = LargeRun(large, p)
    BY RunsOf, Zenon
  <2>4. slab_caches[idx][k].page = p
    BY <2>2, <2>3 DEF SlabRun, LargeRun
  <2> QED
    BY <1>1, <2>3, <2>4, Zenon DEF LargeOwn
<1>3. SlabRuns \cup LargeRuns \subseteq runs
  <2>1. SlabRuns \subseteq runs
    <3> SUFFICES ASSUME NEW r \in SlabRuns PROVE r \in runs
      BY Zenon
    <3>1. \E idx \in Cache : \E k \in DOMAIN slab_caches[idx] : r = SlabRun(slab_caches[idx][k], idx)
      BY RunsOf, Zenon
    <3>2. PICK idx \in Cache : \E k \in DOMAIN slab_caches[idx] : r = SlabRun(slab_caches[idx][k], idx)
      BY <3>1, Zenon
    <3>3. PICK k \in DOMAIN slab_caches[idx] : r = SlabRun(slab_caches[idx][k], idx)
      BY <3>2, Zenon
    <3>4. SlabRun(slab_caches[idx][k], idx) \in runs
      BY <1>1, Zenon DEF SlabsOwn
    <3> QED
      BY <3>3, <3>4, Zenon
  <2>2. LargeRuns \subseteq runs
    <3> SUFFICES ASSUME NEW r \in LargeRuns PROVE r \in runs
      BY Zenon
    <3>1. \E p \in Page : large[p] # 0 /\ r = LargeRun(large, p)
      BY RunsOf, Zenon
    <3> QED
      BY <1>1, <3>1, Zenon DEF LargeOwn
  <2> QED
    BY <2>1, <2>2, Zenon
<1>4. ASSUME NEW r \in LargeRuns
      PROVE  \E o \in objects : o.ptr = r.start * PAGE_SIZE + LARGE_OBJ_HEADER_SIZE /\ o.size > SLAB_SIZE_MAX
  <2>1. PICK p \in Page : large[p] # 0 /\ r = LargeRun(large, p)
    BY <1>4, RunsOf, Zenon
  <2>2. PICK o \in objects : ~(o.size <= SLAB_SIZE_MAX) /\ o.ptr = LargePtr(p)
    BY <1>1, <2>1, Zenon DEF Headed
  <2>3. r.start = p
    BY <2>1, Zenon DEF LargeRun
  <2>4. o.size \in Nat
    BY <1>1, SlabAssumption, Zenon
  <2>5. o.size > SLAB_SIZE_MAX
    BY <2>2, <2>4, MaxIsNat
  <2> QED
    BY <2>2, <2>3, <2>5, Zenon DEF LargePtr
<1>5. \A r \in PageRuns : r.count = 1
  BY <1>1, RunsOf, Zenon DEF PageRuns, SinglePages
<1> QED
  BY <1>2, <1>3, <1>4, <1>5, Zenon DEF PagesAccounted

-----------------------------------------------------------------------------
(* The page allocator.                                                     *)

\* The invariant that is inductive.  Its last conjunct ties the bitmap to the
\* memory map: without it a run of clear bits need not be usable memory.
Inv ==
  /\ PmmTypeOK
  /\ FreePagesExact
  /\ RunsDisjoint
  /\ NoPageLost
  /\ Page \ Allocatable \subseteq used

\* The constants' facts the proofs use.
LEMMA MapFacts ==
  /\ total_pages \in Nat
  /\ Allocatable \subseteq Page
  /\ Counts \subseteq Nat \ {0}
  BY MapAssumption, Zenon DEF Allocatable

\* The bitmap is finite.
LEMMA PageFinite == IsFiniteSet(Page)
  BY MapFacts, FS_Interval DEF Page

\* A run of n pages has n pages.
LEMMA RunSize ==
  ASSUME NEW s \in Nat, NEW n \in Nat
  PROVE  IsFiniteSet(Run(s, n)) /\ Cardinality(Run(s, n)) = n
  <1>1. s \in Int /\ s + n - 1 \in Int OBVIOUS
  <1>2. /\ IsFiniteSet(s .. s + n - 1)
        /\ Cardinality(s .. s + n - 1) = IF s > s + n - 1 THEN 0 ELSE (s + n - 1) - s + 1
    BY <1>1, FS_Interval, Zenon
  <1>3. CASE n = 0 BY <1>2, <1>3 DEF Run
  <1>4. CASE n # 0 BY <1>2, <1>4 DEF Run
  <1> QED BY <1>3, <1>4, Zenon

\* With the whole map covered by the fill, the bits start out as the map says.
LEMMA InitInv == HolesFilled /\ PmmInit => Inv
  <1> SUFFICES ASSUME HolesFilled, PmmInit PROVE Inv
    BY Zenon
  <1>1. Filled \subseteq Page BY Zenon DEF Filled
  <1>2. PICK junk \in SUBSET (Page \ Filled) : used = (Filled \cup junk) \ Allocatable
    BY Zenon DEF PmmInit
  <1>3. used = Page \ Allocatable
    BY <1>1, <1>2, Zenon DEF HolesFilled
  <1>4. runs = {} /\ free_pages = Cardinality(Allocatable)
    BY Zenon DEF PmmInit
  <1>5. Page \ used = Allocatable
    BY <1>3, MapFacts, Zenon
  <1>6. Cardinality(Allocatable) \in Nat
    <2>1. IsFiniteSet(Allocatable)
      BY MapFacts, PageFinite, FS_Subset, Zenon
    <2> QED BY <2>1, FS_CardinalityType, Zenon
  <1>7. PmmTypeOK
    BY <1>3, <1>4, <1>6 DEF PmmTypeOK
  <1>8. FreePagesExact
    <2>1. Cardinality(Page \ used) = Cardinality(Allocatable)
      BY <1>5, Zenon
    <2> QED
      BY <1>4, <2>1, Zenon DEF FreePagesExact
  <1>9. RunsDisjoint /\ NoPageLost
    BY <1>3, <1>4, Zenon DEF RunsDisjoint, NoPageLost
  <1> QED
    BY <1>3, <1>7, <1>8, <1>9, Zenon DEF Inv

\* allocPages: the pages it takes were clear, so they are usable and nobody's.
LEMMA AllocInv ==
  ASSUME Inv, NEW n \in Counts, NEW s \in Page, allocPages(s, n)
  PROVE  Inv'
  <1> DEFINE R == Run(s, n)
             new == [start |-> s, count |-> n]
  <1>1. n \in Nat /\ n # 0 /\ s \in Nat
    BY MapFacts DEF Page
  <1>2. R \subseteq Page /\ R \cap used = {}
    BY Zenon DEF allocPages, FirstFit, Clear
  <1>3. /\ used' = used \cup R
        /\ free_pages' = free_pages - n
        /\ runs' = runs \cup {new}
    BY Zenon DEF allocPages
  <1>4. R \subseteq Allocatable
    BY <1>2, Zenon DEF Inv
  <1>5. IsFiniteSet(R) /\ Cardinality(R) = n
    BY <1>1, RunSize, Zenon
  <1> HIDE DEF R
  <1>6. PmmTypeOK'
    BY <1>1, <1>2, <1>3 DEF Inv, PmmTypeOK
  <1>7. FreePagesExact'
    <2>1. IsFiniteSet(Page \ used)
      BY PageFinite, FS_Subset, Zenon
    <2>2. Cardinality((Page \ used) \ R) = Cardinality(Page \ used) - Cardinality((Page \ used) \cap R)
      BY <2>1, FS_Difference, Zenon
    <2>3. (Page \ used) \cap R = R /\ (Page \ used) \ R = Page \ used'
      BY <1>2, <1>3, Zenon
    <2>4. Cardinality(Page \ used') = Cardinality(Page \ used) - n
      BY <1>5, <2>2, <2>3, Zenon
    <2> QED
      BY <1>3, <2>4, Zenon DEF Inv, FreePagesExact
  <1>8. RunsDisjoint'
    <2>1. Run(new.start, new.count) = R
      BY Zenon DEF R
    <2>2. \A r \in runs : Run(r.start, r.count) \subseteq used \cap Allocatable
      BY Zenon DEF Inv, RunsDisjoint
    <2>3. \A r, q \in runs : r # q => Run(r.start, r.count) \cap Run(q.start, q.count) = {}
      BY Zenon DEF Inv, RunsDisjoint
    <2> HIDE DEF new
    <2>4. \A r \in runs' : Run(r.start, r.count) \subseteq used' \cap Allocatable
      BY <1>3, <1>4, <2>1, <2>2, Zenon
    <2>5. \A r, q \in runs' : r # q => Run(r.start, r.count) \cap Run(q.start, q.count) = {}
      BY <1>2, <1>3, <2>1, <2>2, <2>3, Zenon
    <2> QED
      BY <2>4, <2>5, Zenon DEF RunsDisjoint
  <1>9. NoPageLost'
    <2>1. Run(new.start, new.count) = R
      BY Zenon DEF R
    <2> HIDE DEF new
    <2> SUFFICES ASSUME NEW p \in used' \cap Allocatable
                 PROVE  \E r \in runs' : p \in Run(r.start, r.count)
      BY Zenon DEF NoPageLost
    <2>2. CASE p \in R
      BY <1>3, <2>1, <2>2, Zenon
    <2>3. CASE p \notin R
      BY <1>3, <2>3, Zenon DEF Inv, NoPageLost
    <2> QED BY <2>2, <2>3, Zenon
  <1>10. Page \ Allocatable \subseteq used'
    BY <1>3, Zenon DEF Inv
  <1> QED
    BY <1>6, <1>7, <1>8, <1>9, <1>10, Zenon DEF Inv, Page, Allocatable

\* freePages: the run it clears was wholly set, and in nobody else's hands.
LEMMA FreeInv ==
  ASSUME Inv, NEW r0 \in runs, freePages(r0.start, r0.count)
  PROVE  Inv'
  <1> DEFINE R == Run(r0.start, r0.count)
  <1>1. r0.start \in Nat /\ r0.count \in Nat /\ r0 = [start |-> r0.start, count |-> r0.count]
    BY MapFacts DEF Inv, PmmTypeOK, Page
  <1>2. R \subseteq used /\ R \subseteq Allocatable
    BY Zenon DEF Inv, RunsDisjoint
  <1>3. /\ used' = used \ R
        /\ free_pages' = free_pages + Cardinality(R \cap used)
        /\ runs' = runs \ {r0}
    BY <1>1, Zenon DEF freePages
  <1>4. \A r \in runs' : Run(r.start, r.count) \cap R = {}
    BY <1>3, Zenon DEF Inv, RunsDisjoint
  <1>5. IsFiniteSet(R)
    BY <1>1, RunSize, Zenon
  <1> HIDE DEF R
  <1>6. Cardinality(R) \in Nat /\ R \cap used = R
    BY <1>2, <1>5, FS_CardinalityType, Zenon
  <1>7. PmmTypeOK'
    BY <1>3, <1>6 DEF Inv, PmmTypeOK
  <1>8. FreePagesExact'
    <2>1. IsFiniteSet(Page \ used)
      BY PageFinite, FS_Subset, Zenon
    <2>2. Cardinality((Page \ used) \cup R)
            = Cardinality(Page \ used) + Cardinality(R) - Cardinality((Page \ used) \cap R)
      BY <1>5, <2>1, FS_Union, Zenon
    <2>3. (Page \ used) \cap R = {} /\ (Page \ used) \cup R = Page \ used'
      BY <1>2, <1>3, MapFacts, Zenon
    <2>4. Cardinality(Page \ used) \in Nat
      BY <2>1, FS_CardinalityType, Zenon
    <2>5. Cardinality((Page \ used) \cap R) = 0
      BY <2>3, FS_EmptySet, Zenon
    <2>6. free_pages' = Cardinality(Page \ used) + Cardinality(R)
      BY <1>3, <1>6, Zenon DEF Inv, FreePagesExact
    <2>7. Cardinality((Page \ used) \cup R) = Cardinality(Page \ used) + Cardinality(R)
      BY <1>6, <2>2, <2>4, <2>5
    <2>8. free_pages' = Cardinality(Page \ used')
      BY <2>3, <2>6, <2>7, Zenon
    <2> QED
      BY <2>8, Zenon DEF FreePagesExact, Page, total_pages, Entry
  <1>9. RunsDisjoint'
    BY <1>3, <1>4, Zenon DEF Inv, RunsDisjoint
  <1>10. NoPageLost'
    <2> SUFFICES ASSUME NEW p \in used' \cap Allocatable
                 PROVE  \E r \in runs' : p \in Run(r.start, r.count)
      BY Zenon DEF NoPageLost
    <2>1. p \in used /\ p \notin R
      BY <1>3, Zenon
    <2>2. PICK r \in runs : p \in Run(r.start, r.count)
      BY <2>1, Zenon DEF Inv, NoPageLost
    <2>3. r # r0
      BY <2>1, <2>2, Zenon DEF R
    <2> QED BY <1>3, <2>2, <2>3, Zenon
  <1>11. Page \ Allocatable \subseteq used'
    BY <1>2, <1>3, Zenon DEF Inv
  <1> QED
    BY <1>7, <1>8, <1>9, <1>10, <1>11, Zenon DEF Inv

\* Every step keeps the invariant.
LEMMA StepInv == Inv /\ [PmmNext]_pmmVars => Inv'
  <1> SUFFICES ASSUME Inv, [PmmNext]_pmmVars PROVE Inv'
    BY Zenon
  <1>1. CASE \E n \in Counts, s \in Page : allocPages(s, n)
    BY <1>1, AllocInv, Zenon
  <1>2. CASE \E r \in runs : freePages(r.start, r.count)
    BY <1>2, FreeInv, Zenon
  <1>3. CASE UNCHANGED pmmVars
    BY <1>3, Zenon DEF pmmVars, Inv, PmmTypeOK, FreePagesExact, RunsDisjoint, NoPageLost
  <1> QED BY <1>1, <1>2, <1>3, Zenon DEF PmmNext

\* The invariant holds throughout.
LEMMA Invariance == HolesFilled => (PmmSpec => []Inv)
  <1> SUFFICES ASSUME HolesFilled PROVE PmmSpec => []Inv
    BY Zenon
  <1>1. PmmInit => Inv BY InitInv, Zenon
  <1> QED BY <1>1, StepInv, PTL DEF PmmSpec

\* The bitmap, the counter and the runs handed out keep their types.
THEOREM PmmTyping == HolesFilled => (PmmSpec => []PmmTypeOK)
  <1>1. Inv => PmmTypeOK BY Zenon DEF Inv
  <1> QED BY <1>1, Invariance, PTL

\* The counter of free pages that allocPages and freePages keep is the number of
\* clear bits, for every memory map whose holes init marks.
THEOREM CounterIsExact == HolesFilled => (PmmSpec => []FreePagesExact)
  <1>1. Inv => FreePagesExact BY Zenon DEF Inv
  <1> QED BY <1>1, Invariance, PTL

\* allocPages never hands out a page that somebody has, that is not usable or
\* that holds the bitmap.
THEOREM RunsNeverOverlap == HolesFilled => (PmmSpec => []RunsDisjoint)
  <1>1. Inv => RunsDisjoint BY Zenon DEF Inv
  <1> QED BY <1>1, Invariance, PTL

\* A usable page is clear or in somebody's run: freePages gives all of it back.
THEOREM NothingLeaks == HolesFilled => (PmmSpec => []NoPageLost)
  <1>1. Inv => NoPageLost BY Zenon DEF Inv
  <1> QED BY <1>1, Invariance, PTL

\* The runs handed out by allocPages and not given back by freePages partition the
\* usable pages whose bits are set.
THEOREM RunsArePartition == HolesFilled => (PmmSpec => []RunsPartition)
  <1>1. RunsDisjoint /\ NoPageLost => RunsPartition BY Zenon DEF RunsPartition
  <1> QED BY <1>1, RunsNeverOverlap, NothingLeaks, PTL

-----------------------------------------------------------------------------
(* The loop of allocPages.  The counter of the loop is the length of the   *)
(* streak of clear bits that ends where it is; a least counterexample      *)
(* takes the place of induction over the bitmap.                           *)

\* A set of numbers has a least one.
LEMMA Least ==
  ASSUME NEW T \in SUBSET Nat, T # {}
  PROVE  \E x \in T : \A y \in T : x <= y
<1>1. PICK x \in T : \A y \in T : ~(<< y, x >> \in OpToRel(<, Nat))
  BY NatLessThanWellFounded, WFMin, Zenon
<1>2. \A a, b \in Nat : a < b => << a, b >> \in OpToRel(<, Nat)
  BY Zenon DEF OpToRel
<1>3. \A y \in T : ~(y < x)
  BY <1>1, <1>2, Zenon
<1>4. \A y \in T : x <= y
  BY <1>3
<1> QED
  BY <1>4, Zenon

\* The k bits up to bit i are clear, and the one below them, if any, is set.
Streak(i, k) ==
  /\ k \in 0 .. i + 1
  /\ \A j \in i - k + 1 .. i : j \notin used
  /\ k = i + 1 \/ i - k \in used

\* Every bit ends a streak, possibly of no bits.
LEMMA StreakExists ==
  ASSUME NEW i \in Nat
  PROVE  \E k \in Nat : Streak(i, k)
<1> DEFINE T == { k \in Nat : k = i + 1 \/ (k <= i /\ i - k \in used) }
<1>1. T \in SUBSET Nat /\ T # {}
  <2>1. i + 1 \in T
    OBVIOUS
  <2> QED
    BY <2>1, Zenon
<1>2. PICK k \in T : \A l \in T : k <= l
  BY <1>1, Least, Zenon
<1>3. k \in Nat /\ k <= i + 1 /\ (k = i + 1 \/ i - k \in used)
  BY <1>2
<1>4. ASSUME NEW j \in i - k + 1 .. i, j \in used PROVE FALSE
  <2>1. j \in Int /\ i - j \in Nat /\ i - j < k /\ i - (i - j) = j /\ i - j <= i
    BY <1>3, <1>4
  <2>2. i - j \in T
    BY <1>4, <2>1
  <2> QED
    BY <1>2, <1>3, <2>1, <2>2
<1> QED
  BY <1>3, <1>4 DEF Streak

\* Its length is determined.
LEMMA StreakUnique ==
  ASSUME NEW i \in Nat, NEW k, NEW l, Streak(i, k), Streak(i, l)
  PROVE  k = l
<1>1. k \in Int /\ l \in Int /\ k <= i + 1 /\ l <= i + 1
  BY DEF Streak
<1>2. ASSUME NEW a \in Int, NEW b \in Int, Streak(i, a), Streak(i, b), a < b PROVE FALSE
  <2>1. i - a \in i - b + 1 .. i /\ a # i + 1
    BY <1>2 DEF Streak
  <2> QED
    BY <1>2, <2>1 DEF Streak
<1> QED
  BY <1>1, <1>2

\* The loop's counter follows the streaks.
LEMMA StreakStep ==
  ASSUME NEW i \in Nat
  PROVE  /\ i \in used => Streak(i, 0)
         /\ i \notin used /\ i = 0 => Streak(i, 1)
         /\ \A k : i \notin used /\ i # 0 /\ Streak(i - 1, k) => Streak(i, k + 1)
BY DEF Streak

\* Both sides of the definition of consecutive.
Counted(f, i) == IF i \in used THEN 0 ELSE IF i = 0 THEN 1 ELSE f[i - 1] + 1

\* The counter is what its definition says.
LEMMA ConsecutiveIs ==
  ASSUME total_pages \in Nat
  PROVE  consecutive = [i \in Page |-> Counted(consecutive, i)]
<1> DEFINE g == [i \in Page |-> CHOOSE k \in Nat : Streak(i, k)]
<1>1. ASSUME NEW i \in Page PROVE g[i] \in Nat /\ Streak(i, g[i])
  <2>1. i \in Nat
    BY DEF Page
  <2> QED
    BY <2>1, StreakExists, Zenon
<1> HIDE DEF g
<1>2. ASSUME NEW i \in Page PROVE g[i] = Counted(g, i)
  <2>1. i \in Nat /\ (i # 0 => i - 1 \in Page)
    BY DEF Page
  <2>2. Streak(i, Counted(g, i))
    BY <1>1, <2>1, StreakStep, Zenon DEF Counted
  <2> QED
    BY <1>1, <2>1, <2>2, StreakUnique, Zenon
<1>3. g = [i \in Page |-> Counted(g, i)]
  <2>1. g = [i \in Page |-> g[i]]
    BY DEF g
  <2> QED
    BY <1>2, <2>1, Zenon
<1>4. consecutive = CHOOSE f : f = [i \in Page |-> Counted(f, i)]
  BY Zenon DEF consecutive, Counted
<1> QED
  BY <1>3, <1>4, Zenon

\* The counter is the length of the streak.
LEMMA CounterIsStreak ==
  ASSUME total_pages \in Nat, NEW i \in Page
  PROVE  Streak(i, consecutive[i])
<1> DEFINE Bad == { j \in Page : ~Streak(j, consecutive[j]) }
<1> SUFFICES ASSUME Bad # {} PROVE FALSE
  BY Zenon
<1>1. Bad \in SUBSET Nat
  BY DEF Page
<1>2. PICK j \in Bad : \A k \in Bad : j <= k
  BY <1>1, Least, Zenon
<1>3. j \in Page /\ j \in Nat /\ ~Streak(j, consecutive[j])
  BY <1>1, <1>2, Zenon
<1>4. consecutive[j] = Counted(consecutive, j)
  BY <1>3, ConsecutiveIs, Zenon
<1>5. j # 0 => Streak(j - 1, consecutive[j - 1])
  <2>1. j # 0 => j - 1 \in Page /\ ~(j <= j - 1)
    BY <1>3 DEF Page
  <2> QED
    BY <1>2, <2>1, Zenon
<1>6. Streak(j, Counted(consecutive, j))
  BY <1>3, <1>5, StreakStep, Zenon DEF Counted
<1> QED
  BY <1>3, <1>4, <1>6, Zenon

\* Where the counter reaches n, n clear bits end.
LEMMA HitIsClear ==
  ASSUME total_pages \in Nat, NEW n \in Nat \ {0}, NEW i \in Page, Streak(i, n)
  PROVE  i - n + 1 \in Page /\ Clear(i - n + 1, n)
BY DEF Streak, Page, Clear, Run

\* The counter reaches n in every run of n clear bits, or before it.
LEMMA ClearHasHit ==
  ASSUME total_pages \in Nat, NEW n \in Nat \ {0}, NEW s \in Nat, Clear(s, n)
  PROVE  \E i \in Page : Streak(i, n) /\ i <= s + n - 1
<1> DEFINE e == s + n - 1
<1>1. e \in Page /\ e \in Nat /\ \A j \in s .. e : j \notin used
  BY DEF Clear, Run, Page
<1>2. PICK k \in Nat : Streak(e, k)
  BY <1>1, StreakExists, Zenon
<1>3. k <= e + 1 /\ (\A j \in e - k + 1 .. e : j \notin used) /\ (k = e + 1 \/ e - k \in used)
  BY <1>2 DEF Streak
<1> HIDE DEF e
<1>4. k >= n
  <2>1. SUFFICES ASSUME k < n PROVE FALSE
    OBVIOUS
  <2>2. e - k \in s .. e /\ k # e + 1
    BY <1>1, <1>3, <2>1 DEF e
  <2> QED
    BY <1>1, <1>3, <2>2
<1>5. e - k + n \in Page /\ e - k + n <= e
  BY <1>1, <1>3, <1>4 DEF Page
<1>6. Streak(e - k + n, n)
  <2>1. n \in 0 .. (e - k + n) + 1
    BY <1>1, <1>3
  <2>2. (e - k + n) - n = e - k
    BY <1>1
  <2>3. ASSUME NEW j \in (e - k + n) - n + 1 .. e - k + n PROVE j \notin used
    <3>1. j \in e - k + 1 .. e
      BY <1>1, <1>5, <2>2
    <3> QED
      BY <1>3, <3>1, Zenon
  <2>4. n = (e - k + n) + 1 \/ (e - k + n) - n \in used
    BY <1>1, <1>3, <2>2
  <2> QED
    BY <2>1, <2>3, <2>4, Zenon DEF Streak
<1> QED
  BY <1>5, <1>6, Zenon DEF e

\* The scan of allocPages settles on the lowest run.
LEMMA ScanFinds ==
  ASSUME total_pages \in Nat, Counts \subseteq Nat \ {0}
  PROVE  ScanIsFirstFit
<1> SUFFICES ASSUME NEW n \in Counts
             PROVE  IF \E s \in Page : FirstFit(s, n) THEN FirstFit(scan(n), n) ELSE scan(n) = 0
  BY Zenon DEF ScanIsFirstFit
<1> DEFINE hits == { i \in Page : consecutive[i] = n }
           low == CHOOSE i \in hits : \A j \in hits : i <= j
<1>1. n \in Nat \ {0}
  BY Zenon
<1>2. \A i \in Page : i \in hits <=> Streak(i, n)
  <2> SUFFICES ASSUME NEW i \in Page PROVE consecutive[i] = n <=> Streak(i, n)
    BY Zenon
  <2>1. Streak(i, consecutive[i]) /\ i \in Nat
    BY CounterIsStreak DEF Page
  <2> QED
    BY <2>1, StreakUnique, Zenon
<1>3. scan(n) = IF hits = {} THEN 0 ELSE low - n + 1
  BY Zenon DEF scan
<1>4. hits \in SUBSET Nat /\ hits \subseteq Page
  BY DEF Page
<1>5. ASSUME hits # {}
      PROVE  low - n + 1 \in Page /\ FirstFit(low - n + 1, n)
  <2>1. low \in hits /\ \A j \in hits : low <= j
    BY <1>4, <1>5, Least, Zenon
  <2>2. low \in Page /\ Streak(low, n)
    BY <1>2, <1>4, <2>1, Zenon
  <2> HIDE DEF low, hits
  <2>3. low - n + 1 \in Page /\ Clear(low - n + 1, n)
    BY <1>1, <2>2, HitIsClear, Zenon
  <2>4. ASSUME NEW t \in 0 .. (low - n + 1) - 1, Clear(t, n) PROVE FALSE
    <3>1. t \in Nat /\ t + n - 1 < low
      BY <1>1, <2>2, <2>4 DEF Page
    <3>2. PICK i \in Page : Streak(i, n) /\ i <= t + n - 1
      BY <1>1, <2>4, <3>1, ClearHasHit, Zenon
    <3>3. low <= i
      BY <1>2, <2>1, <3>2, Zenon
    <3> QED
      BY <1>1, <2>2, <3>1, <3>2, <3>3 DEF Page
  <2> QED
    BY <2>3, <2>4, Zenon DEF FirstFit
<1>6. ASSUME NEW s \in Page, FirstFit(s, n) PROVE hits # {}
  <2>1. s \in Nat /\ Clear(s, n)
    BY <1>6 DEF FirstFit, Page
  <2> QED
    BY <1>1, <1>2, <2>1, ClearHasHit, Zenon
<1> HIDE DEF hits, low
<1>7. CASE hits = {}
  BY <1>3, <1>6, <1>7, Zenon
<1>8. CASE hits # {}
  BY <1>3, <1>5, <1>8, Zenon
<1> QED
  BY <1>7, <1>8, Zenon

\* The single pass of allocPages with its counter settles on the lowest run of clear
\* bits that is long enough, and on none only when there is none, in every state.
THEOREM ScanIsExact == PmmSpec => []ScanIsFirstFit
<1>1. ScanIsFirstFit
  BY ScanFinds, MapFacts, Zenon
<1> QED
  BY <1>1, PTL

-----------------------------------------------------------------------------
(* The object allocator.                                                   *)

\* size_to_index finds a class for every size that is not large.
LEMMA SizeClass ==
  ASSUME NEW size \in Sizes, size <= SLAB_SIZE_MAX
  PROVE  size_to_index(size) \in Cache /\ size <= index_to_size(size_to_index(size))
<1> DEFINE T == { idx \in Cache : size <= index_to_size(idx) }
<1>1. NUM_SLAB_CACHES - 1 \in T
  BY SlabAssumption DEF Cache, SLAB_SIZE_MAX
<1>2. T \subseteq Nat
  BY DEF Cache
<1>3. PICK m \in T : \A y \in T : ~(<< y, m >> \in OpToRel(<, Nat))
  BY <1>1, <1>2, NatLessThanWellFounded, WFMin, Zenon
<1>4. \A i \in 0 .. m - 1 : index_to_size(i) < size
  <2> SUFFICES ASSUME NEW i \in 0 .. m - 1 PROVE index_to_size(i) < size
    BY Zenon
  <2>1. i \in Cache /\ i < m /\ i \in Nat /\ m \in Nat
    BY SlabAssumption DEF Cache
  <2>2. << i, m >> \in OpToRel(<, Nat)
    BY <2>1, Zenon DEF OpToRel
  <2>3. i \notin T
    BY <1>3, <2>2, Zenon
  <2>4. ~(size <= index_to_size(i))
    BY <2>1, <2>3, Zenon
  <2>5. index_to_size(i) \in Nat /\ size \in Nat
    BY <2>1, ClassFacts, SlabAssumption, Zenon
  <2> HIDE DEF T
  <2> QED
    BY <2>4, <2>5
<1>5. \E idx \in Cache : size <= index_to_size(idx) /\ \A i \in 0 .. idx - 1 : index_to_size(i) < size
  BY <1>4, Zenon
<1> QED
  BY <1>5, Zenon DEF size_to_index

\* The invariant holds throughout.
LEMMA SlabInvariance == SlabSpec => []SlabInv
<1>1. SlabInit => SlabInv
  BY SizeClass, InitSlabInv, Zenon DEF Classed
<1>2. SlabInv /\ [SlabNext]_vars => SlabInv'
  BY StepSlabInv, Zenon
<1> QED
  BY <1>1, <1>2, PTL DEF SlabSpec

\* The object allocator, with elf_exec beside it, is a caller of the page allocator
\* as that one expects: it asks for the counts it says and gives back the runs it
\* was given, with their counts, so whatever holds of kmemory.cpp alone holds here.
THEOREM UsesPageAllocator == SlabSpec => PmmSpec
<1>1. SlabInit => PmmInit
  BY Zenon DEF SlabInit
<1>2. SlabInv /\ [SlabNext]_vars => [PmmNext]_pmmVars
  BY StepSlabInv DEF PmmStep
<1> QED
  BY SlabInvariance, <1>1, <1>2, PTL DEF SlabSpec, PmmSpec

\* No two objects in use overlap, none reaches out of its pages or into a header or
\* a free slot, whatever is allocated and freed in whatever order.
THEOREM ObjectsNeverOverlap == SlabSpec => []ObjectsDisjoint
<1>1. SlabInv => ObjectsDisjoint
  BY NoOverlap, Zenon
<1> QED
  BY SlabInvariance, <1>1, PTL

\* A sequence without repetition has as many elements as its length.
LEMMA CountOnce ==
  ASSUME NEW f \in Seq(Nat), \A j, l \in 1 .. Len(f) : f[j] = f[l] => j = l
  PROVE  Cardinality({ f[i] : i \in DOMAIN f }) = Len(f)
<1> DEFINE S == { f[i] : i \in DOMAIN f }
           n == Len(f)
<1>1. n \in Nat /\ DOMAIN f = 1 .. n /\ f = [i \in 1 .. n |-> f[i]]
  OBVIOUS
<1>2. f \in [1 .. n -> S]
  BY <1>1, Zenon
<1>3. \A t \in S : \E s \in 1 .. n : f[s] = t
  BY <1>1, Zenon
<1>4. f \in Bijection(1 .. n, S)
  BY <1>1, <1>2, <1>3, Zenon DEF Bijection, Injection, IsInjective, Surjection
<1>5. ExistsBijection(1 .. n, S)
  BY <1>4, Zenon DEF ExistsBijection
<1> QED
  BY <1>1, <1>5, FS_CountingElements, Zenon

\* The counters and the lists of the slabs are right.
LEMMA SlotsAdd ==
  ASSUME SlabInv
  PROVE  SlotsAccounted
<1> SUFFICES ASSUME NEW idx \in Cache, NEW k \in DOMAIN slab_caches[idx]
             PROVE  LET slab == slab_caches[idx][k]
                    IN  /\ slab.free_count = Len(slab.free_list)
                        /\ IdleSlots(slab) \cap TakenSlots(slab, idx) = {}
                        /\ IdleSlots(slab) \cup TakenSlots(slab, idx) = AllSlots(slab, idx)
                        /\ Cardinality(IdleSlots(slab)) = Len(slab.free_list)
  BY Zenon DEF SlotsAccounted
<1> DEFINE slab == slab_caches[idx][k]
<1>1. /\ slab.free_list \in Seq(Nat)
      /\ \A j, l \in 1 .. Len(slab.free_list) : slab.free_list[j] = slab.free_list[l] => j = l
  BY SlotsSplit, Zenon
<1>2. Cardinality(IdleSlots(slab)) = Len(slab.free_list)
  BY <1>1, CountOnce, Zenon DEF IdleSlots
<1> QED
  BY <1>2, SlotsSplit, Zenon

\* Nothing alloc took is lost, when free accepts every header alloc writes: each
\* slot is on its slab's list once or in use, each run is a slab's, that of a large
\* object somebody holds, or one page.
THEOREM NothingAllocatedIsLost == SizesFit => (SlabSpec => []Accounted)
<1> SUFFICES ASSUME SizesFit PROVE SlabSpec => []Accounted
  BY Zenon
<1>1. SlabInv => Accounted
  BY SlotsAdd, PagesAdd, Zenon DEF Accounted
<1> QED
  BY SlabInvariance, <1>1, PTL

\* free and alloc never complain of callers that free what they hold, when free
\* accepts every header alloc writes.
THEOREM NoLegalFreeRefused == SizesFit => (SlabSpec => []NoFalseAlarm)
<1> SUFFICES ASSUME SizesFit PROVE SlabSpec => []NoFalseAlarm
  BY Zenon
<1>1. SlabInv => NoFalseAlarm
  BY Zenon DEF SlabInv, NoFalseAlarm
<1> QED
  BY SlabInvariance, <1>1, PTL

\* With the object allocator on top, the counter of free pages still is exact and
\* the runs still partition the usable pages whose bits are set.
THEOREM PagesExactBelow == HolesFilled => (SlabSpec => [](FreePagesExact /\ RunsPartition))
  BY UsesPageAllocator, CounterIsExact, RunsArePartition, PTL
=============================================================================
