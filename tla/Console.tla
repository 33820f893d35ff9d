------------------------------ MODULE Console -------------------------------
(***************************************************************************)
(* The console of src/ostreamk.cpp and include/kprint.h: text and numbers  *)
(* to glyphs in the frame buffer, wrapping, scrolling, and the prefix of   *)
(* log lines.                                                              *)
(*                                                                         *)
(* __locked_kout acquires its lock once, when it is constructed, and no    *)
(* message takes it again.  So two printers may be in the middle of a      *)
(* message at once (another processor, or an interrupt handler over what   *)
(* it interrupted), and they share the cursor, the base and the prefix     *)
(* flag without protection: every store to these, and every load that a    *)
(* later store or test depends on, is a step.                              *)
(*                                                                         *)
(* The screen is an array of pixel rows; a column of cells stands for      *)
(* FONT_WIDTH columns of pixels.                                           *)
(***************************************************************************)
EXTENDS Integers, Sequences, FiniteSets, SequencesExt

CONSTANTS
  FONT_HEIGHT,  \* pixel rows of a glyph
  HEIGHT,       \* pixel rows of the frame buffer
  COLS,         \* width / FONT_WIDTH
  TAB,          \* distance of tab stops
  PTR_DIGITS,   \* digits of a pointer
  SIZE_MAX,     \* the largest size_t
  Printer,
  BSP,          \* the printer that also writes for user programs
  Char,         \* characters, "nl" and the like among them
  Values,       \* what may be printed
  RaceValues,   \* bound: what is printed while or after two printers are at work
  MaxValues     \* bound: values printed in a behaviour

\* The boot loader offers a screen of at least one line of text and one cell.
ASSUME ScreenAssumption ==
  /\ {HEIGHT, FONT_HEIGHT, COLS, TAB, PTR_DIGITS, SIZE_MAX} \subseteq Nat
  /\ HEIGHT > FONT_HEIGHT /\ FONT_HEIGHT > 0 /\ COLS > 0 /\ TAB > 0
  /\ BSP \in Printer

\* Strings, numbers and pointers are printed; hex and dec are the only manipulators.
ASSUME ValueAssumption ==
  /\ {"0", "1", "2", "3", "4", "5", "6", "7", "8", "9", "a", "b", "c", "d", "e", "f",
      "x", "[", "set", "clear"} \subseteq Char
  /\ \A val \in Values :
       \/ val.kind = "str" /\ val.text \in Seq(Char)
       \/ val.kind = "num" /\ val.v \in Int
       \/ val.kind = "ptr" /\ val.v \in Nat
       \/ val.kind = "manip" /\ val.v \in {10, 16}

Rows == 0 .. HEIGHT - 1
Cols == 0 .. COLS - 1
Blank == << " ", 0 >>

VARIABLES
  fb,                  \* the frame buffer: a glyph's row in each cell of each pixel row
  cursor_x, cursor_y,
  max_cols, max_rows,  \* 0 until the first glyph is drawn
  base,                \* manip_state.base
  prefix_printed,
  printer,             \* [pc, todo, tmp] of each printer
  begun,               \* values begun so far
  raced,               \* history: two printers were at work at once
  sent                 \* history: until then, the values and how they were sent

cursor == << cursor_x, cursor_y >>
grid == << max_cols, max_rows >>
history == << begun, raced, sent >>
vars == << fb, cursor_x, cursor_y, max_cols, max_rows, base, prefix_printed, printer,
           begun, raced, sent >>

Idle == [pc |-> "idle", todo |-> << >>, tmp |-> 0]

\* The boot loader hands the screen over cleared.
Init ==
  /\ fb = [y \in Rows |-> [x \in Cols |-> Blank]]
  /\ cursor_x = 0 /\ cursor_y = 0
  /\ max_cols = 0 /\ max_rows = 0
  /\ base = 10
  /\ prefix_printed = FALSE
  /\ printer = [p \in Printer |-> Idle]
  /\ begun = 0 /\ raced = FALSE /\ sent = << >>

-----------------------------------------------------------------------------
(* Values to characters.                                                   *)

Digit(d) == << "0", "1", "2", "3", "4", "5", "6", "7", "8", "9", "a", "b", "c", "d", "e", "f" >>[d + 1]

\* The digits are found lowest first and turned round.  Nothing comes out of a
\* negative number: the loop does not start.
uint_to_str(v, b) ==
  LET LowFirst[n \in 0 .. v] == IF n = 0 THEN << >> ELSE << Digit(n % b) >> \o LowFirst[n \div b]
  IN  IF v < 0 THEN << >> ELSE IF v = 0 THEN << "0" >> ELSE Reverse(LowFirst[v])

ptr_to_str(v) ==
  << "0", "x" >> \o [i \in 1 .. PTR_DIGITS |-> Digit((v \div 16^(PTR_DIGITS - i)) % 16)]

\* operator<< of a string, a number or a pointer.
Text(val, b) ==
  CASE val.kind = "str" -> val.text
    [] val.kind = "num" -> uint_to_str(val.v, b)
    [] val.kind = "ptr" -> ptr_to_str(val.v)

\* The time of a log line, as one character.
log_prefix == << "[" >>

\* __kprint_locked::operator<<: the prefix and the flag around the text.  "set" and
\* "clear" stand for the two stores to the flag.
locked_text(val) ==
  LET text == Text(val, base)
  IN  (IF prefix_printed THEN << >> ELSE log_prefix \o << "set" >>)
      \o text
      \o (IF val.kind = "str" /\ text[Len(text)] = "nl" THEN << "clear" >> ELSE << >>)

-----------------------------------------------------------------------------
(* Printing.                                                               *)

At(p, pc) == printer[p].pc = pc
Moves(p, pc) == printer' = [printer EXCEPT ![p].pc = pc]

\* The character is done.
NextChar(p) == printer' = [printer EXCEPT ![p].pc = "char", ![p].todo = Tail(@)]

\* A printer begins a value: through kout, or as sys_write does without the prefix.
\* kernel_main has printed long before it starts processors and user programs.
Begin(p, val, log) ==
  /\ At(p, "idle")
  /\ begun < MaxValues
  /\ max_cols = 0 => p = BSP /\ log
  /\ ~log => p = BSP /\ val.kind = "str"
  /\ begun' = begun + 1
  /\ raced' = (raced \/ \E q \in Printer \ {p} : ~At(q, "idle"))
  /\ raced' => val \in RaceValues
  /\ sent' = IF raced' THEN << >> ELSE Append(sent, [val |-> val, log |-> log])
  /\ IF val.kind = "manip"
     THEN base' = val.v /\ UNCHANGED printer
     ELSE /\ printer' = [printer EXCEPT ![p] = [pc |-> "char", tmp |-> 0, todo |->
                            IF log THEN locked_text(val) ELSE Text(val, base)]]
          /\ UNCHANGED base
  /\ UNCHANGED << fb, cursor, grid, prefix_printed >>

\* getframebuffer works the grid out when the first glyph is drawn.
cols == IF max_cols = 0 THEN COLS ELSE max_cols

\* A glyph that is not wholly on the screen is not drawn.
drawChar(c, x, y) ==
  IF (y + 1) * FONT_HEIGHT > HEIGHT \/ x + 1 > COLS THEN UNCHANGED fb
  ELSE fb' = [r \in Rows |-> IF r \div FONT_HEIGHT = y
                             THEN [fb[r] EXCEPT ![x] = << c, r % FONT_HEIGHT >>] ELSE fb[r]]

Ends(p) ==
  /\ At(p, "char") /\ printer[p].todo = << >>
  /\ Moves(p, "idle")
  /\ UNCHANGED << fb, cursor, grid, base, prefix_printed, history >>

SetFlag(p) ==
  /\ At(p, "char") /\ printer[p].todo # << >> /\ Head(printer[p].todo) \in {"set", "clear"}
  /\ prefix_printed' = (Head(printer[p].todo) = "set")
  /\ NextChar(p)
  /\ UNCHANGED << fb, cursor, grid, base, history >>

\* write: a glyph is drawn at the cursor; a control character is not.
write(p) ==
  /\ At(p, "char") /\ printer[p].todo # << >> /\ Head(printer[p].todo) \notin {"set", "clear"}
  /\ LET c == Head(printer[p].todo)
     IN  CASE c = "nl" -> Moves(p, "newline") /\ UNCHANGED << fb, cursor_x, grid >>
           [] c = "cr" -> cursor_x' = 0 /\ NextChar(p) /\ UNCHANGED << fb, grid >>
           [] c = "tab" -> /\ printer' = [printer EXCEPT ![p].pc = "tab", ![p].tmp = cursor_x]
                           /\ UNCHANGED << fb, cursor_x, grid >>
           [] OTHER -> /\ drawChar(c, cursor_x, cursor_y)
                       /\ max_cols' = cols
                       /\ max_rows' = IF max_cols = 0 THEN HEIGHT \div FONT_HEIGHT ELSE max_rows
                       /\ printer' = [printer EXCEPT ![p].pc = "inc"]
                       /\ UNCHANGED cursor_x
  /\ UNCHANGED << cursor_y, base, prefix_printed, history >>

\* cursor_x++, a load and a store.
LoadX(p) ==
  /\ At(p, "inc")
  /\ printer' = [printer EXCEPT ![p].pc = "stored_x", ![p].tmp = cursor_x]
  /\ UNCHANGED << fb, cursor, grid, base, prefix_printed, history >>

StoreX(p) ==
  /\ At(p, "stored_x") \/ At(p, "tab")
  /\ cursor_x' = IF At(p, "tab") THEN ((printer[p].tmp + TAB) \div TAB) * TAB ELSE printer[p].tmp + 1
  /\ Moves(p, "wrap")
  /\ UNCHANGED << fb, cursor_y, grid, base, prefix_printed, history >>

Wrap(p) ==
  /\ At(p, "wrap")
  /\ IF cursor_x >= max_cols THEN Moves(p, "newline") ELSE NextChar(p)
  /\ UNCHANGED << fb, cursor, grid, base, prefix_printed, history >>

\* newline: the start of a line, and cursor_y++, a load and a store.
newline(p) ==
  /\ At(p, "newline")
  /\ cursor_x' = 0
  /\ Moves(p, "load_y")
  /\ UNCHANGED << fb, cursor_y, grid, base, prefix_printed, history >>

LoadY(p) ==
  /\ At(p, "load_y")
  /\ printer' = [printer EXCEPT ![p].pc = "inc_y", ![p].tmp = cursor_y]
  /\ UNCHANGED << fb, cursor, grid, base, prefix_printed, history >>

StoreY(p) ==
  /\ At(p, "inc_y")
  /\ cursor_y' = (printer[p].tmp + 1) % (SIZE_MAX + 1)
  /\ Moves(p, "bottom")
  /\ UNCHANGED << fb, cursor_x, grid, base, prefix_printed, history >>

\* Mutant: only the first row below the screen is noticed.
MutBottomExact(p) ==
  /\ At(p, "bottom")
  /\ IF cursor_y = max_rows THEN Moves(p, "scroll") ELSE NextChar(p)
  /\ UNCHANGED << fb, cursor, grid, base, prefix_printed, history >>

Bottom(p) ==
  /\ At(p, "bottom")
  /\ IF cursor_y >= max_rows THEN Moves(p, "scroll") ELSE NextChar(p)
  /\ UNCHANGED << fb, cursor, grid, base, prefix_printed, history >>

\* Mutant: one pixel row too few is cleared.
MutClearsLess(p) ==
  /\ At(p, "scroll")
  /\ fb' = [y \in Rows |-> IF y < (max_rows - 1) * FONT_HEIGHT THEN fb[y + FONT_HEIGHT]
                           ELSE IF y < max_rows * FONT_HEIGHT - 1 THEN [x \in Cols |-> Blank]
                           ELSE fb[y]]
  /\ Moves(p, "last_row")
  /\ UNCHANGED << cursor, grid, base, prefix_printed, history >>

\* Pixel rows move up by a line of text and the last FONT_HEIGHT rows are cleared,
\* whether or not the screen is a whole number of lines.
scroll(p) ==
  /\ At(p, "scroll")
  /\ fb' = [y \in Rows |-> IF y < HEIGHT - FONT_HEIGHT THEN fb[y + FONT_HEIGHT]
                           ELSE [x \in Cols |-> Blank]]
  /\ Moves(p, "last_row")
  /\ UNCHANGED << cursor, grid, base, prefix_printed, history >>

LastRow(p) ==
  /\ At(p, "last_row")
  /\ cursor_y' = (max_rows - 1) % (SIZE_MAX + 1)
  /\ NextChar(p)
  /\ UNCHANGED << fb, cursor_x, grid, base, prefix_printed, history >>

Next ==
  \E p \in Printer :
    \/ \E val \in Values, log \in BOOLEAN : Begin(p, val, log)
    \/ Ends(p) \/ SetFlag(p) \/ write(p)
    \/ LoadX(p) \/ StoreX(p) \/ Wrap(p)
    \/ newline(p) \/ LoadY(p) \/ StoreY(p) \/ Bottom(p) \/ scroll(p) \/ LastRow(p)

Spec == Init /\ [][Next]_vars

-----------------------------------------------------------------------------
(* Properties.                                                             *)

Quiet == \A p \in Printer : At(p, "idle")

\* However two printers' messages interleave, in the middle of newline and scroll
\* too, the cursor is back on the grid when they are done: text that came out mixed
\* is the only damage, and what is printed later can be seen.
CursorRecovers ==
  Quiet /\ max_cols # 0 => cursor_x < COLS /\ cursor_y < HEIGHT \div FONT_HEIGHT

\* The digits of n in base b, by what they mean.
Means(d, b) == FoldLeft(LAMBDA n, c : n * b + (CHOOSE k \in 0 .. 15 : Digit(k) = c), 0, d)
Numeral(n, b) ==
  CHOOSE d \in UNION { [1 .. k -> { Digit(i) : i \in 0 .. b - 1 }] : k \in 1 .. 2 } :
    Means(d, b) = n /\ (Len(d) = 1 \/ d[1] # "0")

\* An endless sheet: the row and column of the next character, the lines so far,
\* the base, and whether a log line is open.
Typed(sheet, c) ==
  LET Line(y) == IF y \in DOMAIN sheet.lines THEN sheet.lines[y] ELSE [x \in Cols |-> " "]
      To(x) == IF x >= COLS THEN [sheet EXCEPT !.x = 0, !.y = @ + 1] ELSE [sheet EXCEPT !.x = x]
  IN  CASE c = "nl" -> [sheet EXCEPT !.x = 0, !.y = @ + 1]
        [] c = "cr" -> [sheet EXCEPT !.x = 0]
        [] c = "tab" -> To(CHOOSE x \in sheet.x + 1 .. sheet.x + TAB : x % TAB = 0)
        [] OTHER -> [To(sheet.x + 1) EXCEPT !.lines = [y \in DOMAIN sheet.lines \cup {sheet.y} |->
                       IF y = sheet.y THEN [Line(y) EXCEPT ![sheet.x] = c] ELSE Line(y)]]

Sent(sheet, s) ==
  LET text == CASE s.val.kind = "str" -> s.val.text
                [] s.val.kind = "num" -> Numeral(s.val.v, sheet.base)
                [] s.val.kind = "ptr" -> << "0", "x" >> \o
                     (CHOOSE d \in [1 .. PTR_DIGITS -> { Digit(i) : i \in 0 .. 15 }] : Means(d, 16) = s.val.v)
      prefix == IF s.log /\ ~sheet.open THEN << "[" >> ELSE << >>
  IN  IF s.val.kind = "manip" THEN [sheet EXCEPT !.base = s.val.v]
      ELSE [FoldLeft(Typed, sheet, prefix \o text) EXCEPT
              !.open = IF s.log THEN s.val.kind # "str" \/ Last(text) # "nl" ELSE @]

Sheet == FoldLeft(Sent, [x |-> 0, y |-> 0, lines |-> << >>, base |-> 10, open |-> FALSE], sent)

\* No negative number was printed: uint_to_str makes no characters of one, so that
\* kernel_main's negative error codes leave nothing on the screen.
NonNegative == \A i \in DOMAIN sent : sent[i].val.kind = "num" => sent[i].val.v >= 0

\* Messages that do not overlap, without negative numbers: the screen shows the end of
\* an endless sheet on which everything sent was typed, numbers in their base and
\* pointers in full, and the cursor stands where typing goes on, although only pixel
\* rows are moved and the screen need not be a whole number of lines.
ScreenIsTail ==
  Quiet /\ ~raced /\ NonNegative /\ max_cols # 0 =>
    LET sheet == Sheet
        top == sheet.y - cursor_y
    IN  /\ cursor_x = sheet.x
        /\ top >= 0 /\ (top > 0 => cursor_y = HEIGHT \div FONT_HEIGHT - 1)
        /\ \A r \in Rows, x \in Cols :
             LET y == top + r \div FONT_HEIGHT
                 c == IF y \in DOMAIN sheet.lines THEN sheet.lines[y][x] ELSE " "
             IN  fb[r][x] = IF c = " " THEN Blank ELSE << c, r % FONT_HEIGHT >>
=============================================================================
