----------------------------- MODULE MCElfExec -----------------------------
(***************************************************************************)
(* A machine of pages of four bytes and tables of two entries: eight user  *)
(* pages, of which the stack has three (bytes 16 .. 27) and images may use *)
(* the pages 1 to 3.                                                       *)
(***************************************************************************)
EXTENDS ElfExec

Text == [offset |-> 0, filesz |-> 3, vaddr |-> 4, memsz |-> 3, align |-> 4, w |-> FALSE, x |-> TRUE]
Data == [offset |-> 3, filesz |-> 2, vaddr |-> 7, memsz |-> 6, align |-> 4, w |-> TRUE, x |-> FALSE]
Bss  == [offset |-> 0, filesz |-> 0, vaddr |-> 13, memsz |-> 3, align |-> 1, w |-> TRUE, x |-> FALSE]

Static(segs) ==
  [type |-> "EXEC", header |-> TRUE, size |-> 6, entry |-> 4, phdr |-> 0, path |-> 1,
   dynamic |-> "none", relocs |-> << >>, segments |-> segs]

PieText == [Text EXCEPT !.vaddr = 0]
PieData == [Data EXCEPT !.vaddr = 5, !.offset = 1, !.filesz = 4]

Pie(relocs, dyn) ==
  [Static(<< PieText, PieData >>) EXCEPT
     !.type = "DYN", !.entry = 2, !.dynamic = dyn, !.relocs = relocs, !.path = 2]

MCImages ==
  { Static(<< Text, Data, Bss >>),                  \* text and data share a page
    Static(<< Text >>),
    Pie(<< 7, 9 >>, "ok"),                          \* the first word spans two pages
    Pie(<< 9, 10 >>, "ok"),                         \* the second word leaves the segment
    Pie(<< 0 >>, "bad"),
    [Pie(<< >>, "none") EXCEPT !.phdr = 62],        \* header address overflows
    Static(<< Text, [Data EXCEPT !.vaddr = 6, !.align = 1] >>),  \* overlap
    Static(<< Text, [Bss EXCEPT !.memsz = 4] >>),   \* reaches into the stack
    Static(<< Data >>) }                            \* entry not executable

MCArgs ==
  { [argv |-> << >>, envp |-> << >>],
    [argv |-> << 1 >>, envp |-> << >>],
    [argv |-> << >>, envp |-> << 2 >>] }

=============================================================================
