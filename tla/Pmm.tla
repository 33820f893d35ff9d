--------------------------------- MODULE Pmm ---------------------------------
(***************************************************************************)
(* The physical page allocator, mem/kmemory.cpp: a bitmap with one bit per *)
(* page of the machine, a counter of the free ones, first-fit allocation.  *)
(*                                                                         *)
(* Addresses are page numbers.  The bitmap is the set of pages whose bit   *)
(* is 1.  Every caller frees exactly the runs it was given (slab.cpp,      *)
(* elf_exec.cpp); the variable runs records them.                          *)
(***************************************************************************)
EXTENDS Integers, Sequences, FiniteSets

CONSTANTS
  Entries,    \* the boot loader's memory map: records of base, length, usable
  PAGE_SIZE,  \* bytes of a page, so 8 * PAGE_SIZE bits of the bitmap
  Counts      \* how many pages callers ask for at once

Entry == { Entries[i] : i \in DOMAIN Entries }
PagesOf(e) == e.base .. e.base + e.length - 1

\* init: the pages below the highest address of the map.
total_pages ==
  CHOOSE n \in { e.base + e.length : e \in Entry } : \A e \in Entry : e.base + e.length <= n
Page == 0 .. total_pages - 1
Usable == UNION { PagesOf(e) : e \in { x \in Entry : x.usable } }

\* The bitmap's bytes, rounded up to whole pages, in the first usable entry that
\* has room for them.
bitmap_size == ((total_pages \div 8 + PAGE_SIZE - 1) \div PAGE_SIZE) * PAGE_SIZE
Roomy(e) == e.usable /\ e.length * PAGE_SIZE >= bitmap_size
bitmap_phys ==
  LET first == CHOOSE i \in DOMAIN Entries :
                 Roomy(Entries[i]) /\ \A j \in 1 .. i - 1 : ~Roomy(Entries[j])
  IN  Entries[first].base
BitmapPages == bitmap_phys .. bitmap_phys + bitmap_size \div PAGE_SIZE - 1

\* The loop that marks everything used first covers bitmap_size / 8 bytes.
Filled == { p \in Page : p \div 8 < bitmap_size \div 8 }

\* What the allocator may hand out.
Allocatable == Usable \ BitmapPages

\* The boot loader's map: entries do not overlap, page 0 is not usable, and the
\* bitmap has a place (init stops the machine otherwise).
ASSUME MapAssumption ==
  /\ PAGE_SIZE \in Nat \ {0}
  /\ Counts \subseteq Nat \ {0}
  /\ Entries \in Seq([base : Nat, length : Nat \ {0}, usable : BOOLEAN])
  /\ \A i, j \in DOMAIN Entries : i # j => PagesOf(Entries[i]) \cap PagesOf(Entries[j]) = {}
  /\ total_pages \in Nat
  /\ Usable \subseteq Page \ {0}
  /\ IsFiniteSet(Usable)
  /\ \E e \in Entry : Roomy(e)
  /\ BitmapPages \subseteq Usable

\* The bitmap's pages hold a bit for every page.  init rounds total_pages / 8 down, so a
\* machine on which that is a multiple of PAGE_SIZE and total_pages none of 8 is left
\* out: the bits of its last pages lie behind the bitmap, in memory that is handed out.
ASSUME BitmapAssumption == total_pages <= 8 * bitmap_size

VARIABLES
  used,        \* the pages whose bit is set
  free_pages,  \* the counter
  runs         \* the runs handed out and not yet given back

pmmVars == << used, free_pages, runs >>

\* Bits behind the filled part keep what the memory held before.
PmmInit ==
  /\ \E junk \in SUBSET (Page \ Filled) : used = (Filled \cup junk) \ Allocatable
  /\ free_pages = Cardinality(Allocatable)
  /\ runs = {}

-----------------------------------------------------------------------------
Run(s, n) == s .. s + n - 1

\* n clear bits from s on.
Clear(s, n) == Run(s, n) \subseteq Page /\ Run(s, n) \cap used = {}

\* Mutant: only the first bit of a run is looked at.
MutFirstBitOnly(s, n) ==
  /\ Run(s, n) \subseteq Page /\ s \notin used
  /\ \A t \in 0 .. s - 1 : ~Clear(t, n)

\* The run the scan settles on: the lowest.
FirstFit(s, n) == Clear(s, n) /\ \A t \in 0 .. s - 1 : ~Clear(t, n)

\* Mutant: a run is counted as one page.
MutCountOne(s, n) ==
  /\ FirstFit(s, n)
  /\ used' = used \cup Run(s, n)
  /\ free_pages' = free_pages - 1
  /\ runs' = runs \cup {[start |-> s, count |-> n]}

\* allocPages, and allocPage for n = 1.  Without n clear bits in a row it returns
\* 0 and changes nothing.
allocPages(s, n) ==
  /\ FirstFit(s, n)
  /\ used' = used \cup Run(s, n)
  /\ free_pages' = free_pages - n
  /\ runs' = runs \cup {[start |-> s, count |-> n]}

\* freePages, and freePage for n = 1: bits already clear are passed over.
freePages(s, n) ==
  /\ used' = used \ Run(s, n)
  /\ free_pages' = free_pages + Cardinality(Run(s, n) \cap used)
  /\ runs' = runs \ {[start |-> s, count |-> n]}

PmmNext ==
  \/ \E n \in Counts, s \in Page : allocPages(s, n)
  \/ \E r \in runs : freePages(r.start, r.count)

PmmSpec == PmmInit /\ [][PmmNext]_pmmVars

-----------------------------------------------------------------------------
(* The loop of allocPages, as it is written.                               *)

\* consecutive after bit i has been looked at.
consecutive[i \in Page] ==
  IF i \in used THEN 0 ELSE IF i = 0 THEN 1 ELSE consecutive[i - 1] + 1

\* Mutant: the loop returns one bit late.
MutScanLate(n) ==
  LET hits == { i \in Page : consecutive[i] = n + 1 }
  IN  IF hits = {} THEN 0 ELSE (CHOOSE i \in hits : \A j \in hits : i <= j) - n + 1

\* start_page when the loop returns, 0 when it runs out.
scan(n) ==
  LET hits == { i \in Page : consecutive[i] = n }
  IN  IF hits = {} THEN 0 ELSE (CHOOSE i \in hits : \A j \in hits : i <= j) - n + 1

-----------------------------------------------------------------------------
(* Properties.                                                             *)

\* The variables keep their types: allocPages and freePages never touch a bit
\* beyond total_pages.
PmmTypeOK ==
  /\ used \subseteq Page
  /\ free_pages \in Int
  /\ runs \subseteq [start : Page, count : Nat \ {0}]

\* The memory map leaves no hole behind the filled part of the bitmap.
HolesFilled == Page \ Allocatable \subseteq Filled

\* free_pages, which the kernel prints as "Free pages", is the number of clear
\* bits, after any sequence of allocations and frees.
FreePagesExact == free_pages = Cardinality(Page \ used)

\* A page that is handed out is usable memory outside the bitmap itself, its bit
\* is set, and no other caller has it: the run allocPages finds never reaches
\* into somebody's.
RunsDisjoint ==
  /\ \A r \in runs : Run(r.start, r.count) \subseteq used \cap Allocatable
  /\ \A r, q \in runs : r # q => Run(r.start, r.count) \cap Run(q.start, q.count) = {}

\* Nothing leaks: a page of usable memory whose bit is set is in somebody's run.
NoPageLost ==
  \A p \in used \cap Allocatable : \E r \in runs : p \in Run(r.start, r.count)

\* The runs handed out are exactly the usable pages whose bits are set, each in one:
\* allocPages takes nobody's page and freePages gives back all of a run.
RunsPartition == RunsDisjoint /\ NoPageLost

\* The scan with its counter finds the lowest run, whatever holes there are.
ScanIsFirstFit ==
  \A n \in Counts :
    IF \E s \in Page : FirstFit(s, n) THEN FirstFit(scan(n), n) ELSE scan(n) = 0
=============================================================================
