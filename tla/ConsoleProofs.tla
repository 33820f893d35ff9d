---------------------------- MODULE ConsoleProofs ---------------------------
(***************************************************************************)
(* Proof that the console's cursor recovers from any interleaving of any   *)
(* number of printers, on a screen of any size and for all values printed. *)
(*                                                                         *)
(* The invariant says who will notice a cursor off the grid: as long as    *)
(* cursor_x is beyond the last column some printer is at the test that     *)
(* wraps or in newline, and as long as cursor_y is below the last row some *)
(* printer is at newline's test or in scroll.  Before the first glyph the  *)
(* grid is not known; then the only text on its way is the prefix of the   *)
(* first log line, which is why the characters of a message matter here.   *)
(***************************************************************************)
EXTENDS Console, WellFoundedInduction, TLAPS

-----------------------------------------------------------------------------
(* Values to characters.                                                   *)

\* A set of numbers has a least one.
LEMMA Least ==
  ASSUME NEW T \in SUBSET Nat, T # {}
  PROVE  \E x \in T : \A y \in T : x <= y
<1>1. PICK x \in T : \A y \in T : ~(<< y, x >> \in OpToRel(<, Nat))
  BY NatLessThanWellFounded, WFMin, Zenon
<1>2. \A a, b \in Nat : a < b => << a, b >> \in OpToRel(<, Nat)
  BY Zenon DEF OpToRel
<1>3. \A y \in T : ~(y < x)
  BY <1>1, <1>2, Zenon
<1>4. \A y \in T : x <= y
  BY <1>3
<1> QED
  BY <1>4, Zenon

\* The characters the kernel itself prints.
LEMMA KernelChars ==
  {"0", "1", "2", "3", "4", "5", "6", "7", "8", "9", "a", "b", "c", "d", "e", "f",
   "x", "[", "set", "clear"} \subseteq Char
BY ValueAssumption, Zenon

\* A digit is a character.
LEMMA Digits ==
  ASSUME NEW n \in 0 .. 15
  PROVE  Digit(n) \in Char
<1> DEFINE s == << "0", "1", "2", "3", "4", "5", "6", "7", "8", "9", "a", "b", "c", "d", "e", "f" >>
<1>1. s \in Seq(Char) /\ Len(s) = 16
  BY KernelChars
<1>2. Digit(n) = s[n + 1]
  BY Zenon DEF Digit
<1>3. PICK t \in Seq(Char) : Len(t) = 16 /\ Digit(n) = t[n + 1]
  BY <1>1, <1>2, Zenon
<1>4. \A k \in 1 .. Len(t) : t[k] \in Char
  OBVIOUS
<1>5. n + 1 \in 1 .. Len(t)
  BY <1>3
<1> QED
  BY <1>3, <1>4, <1>5, Zenon

\* The digits of the numbers up to v, lowest first, as the loop of uint_to_str finds
\* them.
LowFirstOf(f, b, n) == IF n = 0 THEN << >> ELSE << Digit(n % b) >> \o f[n \div b]

\* The loop ends: the quotient is smaller.
LEMMA Quotient ==
  ASSUME NEW n \in Nat, n # 0, NEW b \in {10, 16}
  PROVE  n \div b \in 0 .. n - 1 /\ n % b \in 0 .. 15
<1>1. CASE b = 10
  BY <1>1
<1>2. CASE b = 16
  BY <1>2
<1> QED
  BY <1>1, <1>2

\* There is a table of digits up to any number.
LEMMA DigitsExist ==
  ASSUME NEW b \in {10, 16}, NEW v \in Nat
  PROVE  \E f \in [0 .. v -> Seq(Char)] : \A n \in 0 .. v : f[n] = LowFirstOf(f, b, n)
<1> DEFINE Table(f, m) == f \in [0 .. m -> Seq(Char)] /\ \A n \in 0 .. m : f[n] = LowFirstOf(f, b, n)
           Bad == { m \in Nat : ~\E f : Table(f, m) }
<1> SUFFICES ASSUME Bad # {} PROVE FALSE
  BY Zenon
<1>1. PICK m \in Bad : \A k \in Bad : m <= k
  <2>1. Bad \in SUBSET Nat
    BY Zenon
  <2> QED
    BY <2>1, Least, Zenon
<1>2. m \in Nat /\ ~\E f : Table(f, m)
  BY Zenon
<1>3. CASE m = 0
  <2> DEFINE f == [n \in 0 .. 0 |-> << >>]
  <2>1. f \in [0 .. 0 -> Seq(Char)] /\ \A n \in 0 .. 0 : f[n] = << >> /\ n = 0
    OBVIOUS
  <2>2. Table(f, 0)
    BY <2>1, Zenon DEF LowFirstOf
  <2> QED
    BY <1>2, <1>3, <2>2, Zenon
<1>4. CASE m # 0
  <2>1. m - 1 \in Nat /\ ~(m <= m - 1) /\ 0 .. m = (0 .. m - 1) \cup {m} /\ m \notin 0 .. m - 1
    BY <1>2, <1>4
  <2>2. PICK f : Table(f, m - 1)
    BY <1>1, <2>1, Zenon
  <2>3. m \div b \in 0 .. m - 1 /\ m % b \in 0 .. 15
    BY <1>2, <1>4, Quotient, Zenon
  <2> DEFINE top == << Digit(m % b) >> \o f[m \div b]
             g == [n \in 0 .. m |-> IF n = m THEN top ELSE f[n]]
  <2>4. top \in Seq(Char)
    <3>1. Digit(m % b) \in Char /\ f[m \div b] \in Seq(Char)
      BY <2>2, <2>3, Digits, Zenon
    <3> QED
      BY <3>1
  <2> HIDE DEF top
  <2>5. \A n \in 0 .. m - 1 : f[n] \in Seq(Char)
    BY <2>2, Zenon
  <2>6. g \in [0 .. m -> Seq(Char)]
    BY <2>1, <2>4, <2>5, Zenon
  <2>7. g[m] = top /\ \A n \in 0 .. m - 1 : g[n] = f[n]
    BY <2>1, Zenon
  <2> HIDE DEF g
  <2>8. g[m] = LowFirstOf(g, b, m)
    BY <1>4, <2>3, <2>7, Zenon DEF LowFirstOf, top
  <2>9. ASSUME NEW n \in 0 .. m - 1 PROVE g[n] = LowFirstOf(g, b, n)
    <3>1. f[n] = LowFirstOf(f, b, n)
      BY <2>2, Zenon
    <3>2. n # 0 => n \div b \in 0 .. m - 1
      <4>1. n \in Nat
        OBVIOUS
      <4>2. n # 0 => n \div b \in 0 .. n - 1
        BY <4>1, Quotient, Zenon
      <4> QED
        BY <1>2, <4>2
    <3> QED
      BY <2>7, <3>1, <3>2, Zenon DEF LowFirstOf
  <2>10. Table(g, m)
    BY <2>1, <2>6, <2>8, <2>9, Zenon
  <2> QED
    BY <1>2, <2>10, Zenon
<1> QED
  BY <1>3, <1>4, Zenon

\* What uint_to_str makes of a number is a string.
LEMMA NumbersAreText ==
  ASSUME NEW v \in Int, NEW b \in {10, 16}
  PROVE  uint_to_str(v, b) \in Seq(Char)
<1>1. CASE v < 0 \/ v = 0
  <2>1. uint_to_str(v, b) = << >> \/ uint_to_str(v, b) = << "0" >>
    BY <1>1, Zenon DEF uint_to_str
  <2>2. << >> \in Seq(Char) /\ << "0" >> \in Seq(Char)
    BY KernelChars
  <2> QED
    BY <2>1, <2>2, Zenon
<1>2. CASE v > 0
  <2> DEFINE L == CHOOSE f : f = [n \in 0 .. v |-> LowFirstOf(f, b, n)]
  <2>1. v \in Nat /\ ~(v < 0) /\ v # 0
    BY <1>2
  <2>2. uint_to_str(v, b) = Reverse(L[v])
    BY <2>1, Zenon DEF uint_to_str, LowFirstOf
  <2>3. L = [n \in 0 .. v |-> LowFirstOf(L, b, n)]
    <3>1. PICK f \in [0 .. v -> Seq(Char)] : \A n \in 0 .. v : f[n] = LowFirstOf(f, b, n)
      BY <2>1, DigitsExist, Zenon
    <3>2. f = [n \in 0 .. v |-> LowFirstOf(f, b, n)]
      BY <3>1, Zenon
    <3> QED
      BY <3>2, Zenon
  <2> HIDE DEF L
  <2> DEFINE Bad == { n \in 0 .. v : L[n] \notin Seq(Char) }
  <2>4. ASSUME Bad # {} PROVE FALSE
    <3>1. Bad \in SUBSET Nat
      <4>1. \A n \in 0 .. v : n \in Nat
        BY <2>1
      <4> QED
        BY <4>1, Zenon
    <3>2. PICK n \in Bad : \A k \in Bad : n <= k
      BY <2>4, <3>1, Least, Zenon
    <3>3. n \in 0 .. v /\ n \in Nat /\ L[n] \notin Seq(Char) /\ L[n] = LowFirstOf(L, b, n)
      BY <2>3, <3>1, <3>2, Zenon
    <3>4. n # 0
      BY <3>3 DEF LowFirstOf
    <3>5. n \div b \in 0 .. n - 1 /\ n % b \in 0 .. 15
      BY <3>3, <3>4, Quotient, Zenon
    <3>6. n \div b \in 0 .. v /\ ~(n <= n \div b)
      BY <2>1, <3>3, <3>5, SMTT(30)
    <3>7. L[n \div b] \in Seq(Char) /\ Digit(n % b) \in Char
      BY <3>2, <3>5, <3>6, Digits, Zenon
    <3> DEFINE rest == L[n \div b]
               d == Digit(n % b)
    <3>8. L[n] = << d >> \o rest
      BY <3>3, <3>4, Zenon DEF LowFirstOf
    <3> HIDE DEF rest, d
    <3>9. << d >> \o rest \in Seq(Char)
      BY <3>7 DEF rest, d
    <3> QED
      BY <3>3, <3>8, <3>9, Zenon
  <2>5. L[v] \in Seq(Char)
    <3>1. v \in 0 .. v
      BY <2>1
    <3> QED
      BY <2>4, <3>1, Zenon
  <2> DEFINE s == L[v]
  <2>6. s \in Seq(Char) /\ uint_to_str(v, b) = [i \in 1 .. Len(s) |-> s[(Len(s) - i) + 1]]
    BY <2>2, <2>5, Zenon DEF Reverse
  <2> HIDE DEF s
  <2> QED
    BY <2>6
<1> QED
  BY <1>1, <1>2

\* What operator<< prints is a string, whatever is printed.
LEMMA TextIsString ==
  ASSUME NEW val \in Values, val.kind # "manip", NEW b \in {10, 16}
  PROVE  \E S : Char \subseteq S /\ Text(val, b) \in Seq(S)
<1>1. CASE val.kind = "str"
  BY <1>1, ValueAssumption, Zenon DEF Text
<1>2. CASE val.kind = "num"
  <2>1. val.v \in Int /\ Text(val, b) = uint_to_str(val.v, b)
    BY <1>2, ValueAssumption DEF Text
  <2> QED
    BY <2>1, NumbersAreText, Zenon
<1>3. CASE val.kind = "ptr"
  <2> DEFINE digit(i) == Digit((val.v \div 16^(PTR_DIGITS - i)) % 16)
             S == Char \cup { digit(i) : i \in 1 .. PTR_DIGITS }
             digits == [i \in 1 .. PTR_DIGITS |-> digit(i)]
  <2>1. Text(val, b) = << "0", "x" >> \o digits
    BY <1>3, Zenon DEF Text, ptr_to_str
  <2>2. PTR_DIGITS \in Nat
    BY ScreenAssumption
  <2>3. digits \in [1 .. PTR_DIGITS -> S]
    BY Zenon
  <2>4. "0" \in S /\ "x" \in S /\ Char \subseteq S
    BY KernelChars, Zenon
  <2> HIDE DEF digits, S
  <2>5. << "0", "x" >> \o digits \in Seq(S)
    BY <2>2, <2>3, <2>4
  <2> QED
    BY <2>1, <2>4, <2>5, Zenon
<1> QED
  BY <1>1, <1>2, <1>3, ValueAssumption, Zenon

\* The prefix of a log line comes first.
LEMMA PrefixFirst ==
  ASSUME NEW val \in Values, val.kind # "manip", base \in {10, 16}, ~prefix_printed
  PROVE  locked_text(val) # << >> /\ Head(locked_text(val)) = "["
<1> DEFINE text == Text(val, base)
           end == IF val.kind = "str" /\ text[Len(text)] = "nl" THEN << "clear" >> ELSE << >>
<1>1. PICK S : Char \subseteq S /\ text \in Seq(S)
  BY TextIsString, Zenon
<1>2. locked_text(val) = (<< "[" >> \o << "set" >>) \o text \o end
  BY Zenon DEF locked_text, log_prefix
<1>3. "[" \in S /\ "set" \in S /\ "clear" \in S
  BY <1>1, KernelChars, Zenon
<1>4. end \in Seq(S)
  BY <1>3
<1> HIDE DEF text, end
<1>5. ((<< "[" >> \o << "set" >>) \o text) \in Seq(S)
  BY <1>1, <1>3, SMTT(30)
<1> DEFINE front == (<< "[" >> \o << "set" >>) \o text
<1>6. front \in Seq(S) /\ Len(front) > 0 /\ front[1] = "["
  BY <1>1, <1>3, SMTT(30)
<1> HIDE DEF front
<1>7. front \o end # << >> /\ Head(front \o end) = "["
  BY <1>4, <1>6, SMTT(30)
<1> QED
  BY <1>2, <1>7, Zenon DEF front

-----------------------------------------------------------------------------
(* The invariant.                                                          *)

\* What a printer's record looks like.
Place(r) == r = [pc |-> r.pc, todo |-> r.todo, tmp |-> r.tmp] /\ r.tmp \in Nat

PlacesOK == printer = [p \in Printer |-> printer[p]] /\ \A p \in Printer : Place(printer[p])

\* getframebuffer has worked the grid out, or nothing was drawn.
GridOK ==
  \/ max_cols = 0 /\ max_rows = 0
  \/ max_cols = COLS /\ max_rows = HEIGHT \div FONT_HEIGHT

\* Before the first glyph at most the first processor is at work, about to print the
\* prefix of the first log line.
FirstLine ==
  max_cols = 0 =>
    /\ ~prefix_printed /\ cursor_x = 0 /\ cursor_y = 0
    /\ \A p \in Printer :
         \/ At(p, "idle")
         \/ At(p, "char") /\ printer[p].todo # << >> /\ Head(printer[p].todo) = "["

\* A cursor off the grid has a printer that is about to notice, or has noticed.
OnGrid ==
  /\ cursor_x \in Nat /\ cursor_y \in Nat
  /\ cursor_x >= COLS => \E p \in Printer : printer[p].pc \in {"wrap", "newline"}
  /\ max_cols # 0 /\ cursor_y >= HEIGHT \div FONT_HEIGHT =>
       \E p \in Printer : printer[p].pc \in {"bottom", "scroll", "last_row"}

CursorInv == PlacesOK /\ base \in {10, 16} /\ GridOK /\ FirstLine /\ OnGrid

\* Printer p went to pc, the others stayed.
Went(p, pc) ==
  /\ PlacesOK' /\ printer'[p].pc = pc
  /\ \A q \in Printer \ {p} : printer'[q] = printer[q]

\* A place with other contents is a place.
LEMMA PlaceChanged ==
  ASSUME NEW r, Place(r), NEW pc
  PROVE  /\ Place([r EXCEPT !.pc = pc]) /\ [r EXCEPT !.pc = pc].pc = pc
         /\ \A todo : /\ Place([r EXCEPT !.pc = pc, !.todo = todo])
                      /\ [r EXCEPT !.pc = pc, !.todo = todo].pc = pc
         /\ \A tmp \in Nat : /\ Place([r EXCEPT !.pc = pc, !.tmp = tmp])
                             /\ [r EXCEPT !.pc = pc, !.tmp = tmp].pc = pc
<1>1. PICK a, b, c : r = [pc |-> a, todo |-> b, tmp |-> c] /\ c \in Nat
  BY Zenon DEF Place
<1> DEFINE d == [r EXCEPT !.pc = pc]
<1>2. d = [pc |-> pc, todo |-> b, tmp |-> c]
  BY <1>1
<1>3. /\ \A todo : [r EXCEPT !.pc = pc, !.todo = todo] = [d EXCEPT !.todo = todo]
      /\ \A tmp : [r EXCEPT !.pc = pc, !.tmp = tmp] = [d EXCEPT !.tmp = tmp]
  OBVIOUS
<1>4. \A x : \A n \in Nat : /\ Place([pc |-> pc, todo |-> x, tmp |-> n])
                            /\ [pc |-> pc, todo |-> x, tmp |-> n].pc = pc
  BY Zenon DEF Place
<1> HIDE DEF d
<1>5. /\ \A todo : [d EXCEPT !.todo = todo] = [pc |-> pc, todo |-> todo, tmp |-> c]
      /\ \A tmp : [d EXCEPT !.tmp = tmp] = [pc |-> pc, todo |-> b, tmp |-> tmp]
  BY <1>2
<1>6. Place(d) /\ d.pc = pc
  BY <1>1, <1>2, <1>4, Zenon
<1>7. ASSUME NEW todo PROVE Place([d EXCEPT !.todo = todo]) /\ [d EXCEPT !.todo = todo].pc = pc
  <2>1. /\ Place([pc |-> pc, todo |-> todo, tmp |-> c])
        /\ [pc |-> pc, todo |-> todo, tmp |-> c].pc = pc
    BY <1>1, <1>4, Zenon
  <2>2. [d EXCEPT !.todo = todo] = [pc |-> pc, todo |-> todo, tmp |-> c]
    BY <1>5, Zenon
  <2> QED
    BY <2>1, <2>2, Zenon
<1>8. ASSUME NEW tmp \in Nat PROVE Place([d EXCEPT !.tmp = tmp]) /\ [d EXCEPT !.tmp = tmp].pc = pc
  <2>1. /\ Place([pc |-> pc, todo |-> b, tmp |-> tmp])
        /\ [pc |-> pc, todo |-> b, tmp |-> tmp].pc = pc
    BY <1>4, Zenon
  <2>2. [d EXCEPT !.tmp = tmp] = [pc |-> pc, todo |-> b, tmp |-> tmp]
    BY <1>5, Zenon
  <2> QED
    BY <2>1, <2>2, Zenon
<1>9. Place([r EXCEPT !.pc = pc]) /\ [r EXCEPT !.pc = pc].pc = pc
  BY <1>6, Zenon DEF d
<1> QED
  BY <1>3, <1>7, <1>8, <1>9, ZenonT(60)

\* The ways a printer moves.
LEMMA Movements ==
  ASSUME PlacesOK, NEW p \in Printer
  PROVE  /\ \A pc : Moves(p, pc) => Went(p, pc)
         /\ NextChar(p) => Went(p, "char")
         /\ \A pc : \A tmp \in Nat :
              printer' = [printer EXCEPT ![p].pc = pc, ![p].tmp = tmp] => Went(p, pc)
         /\ \A r : printer' = [printer EXCEPT ![p] = r] /\ Place(r) => Went(p, r.pc)
<1>1. printer = [q \in Printer |-> printer[q]] /\ \A q \in Printer : Place(printer[q])
  BY Zenon DEF PlacesOK
<1>2. ASSUME NEW r, printer' = [printer EXCEPT ![p] = r], Place(r) PROVE Went(p, r.pc)
  <2>1. printer' = [q \in Printer |-> IF q = p THEN r ELSE printer[q]]
    BY <1>1, <1>2, Zenon
  <2>2. printer'[p] = r /\ \A q \in Printer \ {p} : printer'[q] = printer[q]
    BY <2>1, Zenon
  <2>3. printer' = [q \in Printer |-> printer'[q]]
    BY <2>1, <2>2, Zenon
  <2> QED
    BY <1>1, <1>2, <2>2, <2>3, Zenon DEF Went, PlacesOK
<1>3. ASSUME NEW pc, Moves(p, pc) PROVE Went(p, pc)
  <2> DEFINE r == [printer[p] EXCEPT !.pc = pc]
  <2>1. Place(r) /\ r.pc = pc
    BY <1>1, PlaceChanged, Zenon
  <2>2. printer' = [printer EXCEPT ![p] = r]
    BY <1>3, Zenon DEF Moves
  <2> QED
    BY <1>2, <2>1, <2>2, Zenon
<1>4. ASSUME NextChar(p) PROVE Went(p, "char")
  <2> DEFINE r == [printer[p] EXCEPT !.pc = "char", !.todo = Tail(printer[p].todo)]
  <2>1. Place(r) /\ r.pc = "char"
    <3>1. \A todo : /\ Place([printer[p] EXCEPT !.pc = "char", !.todo = todo])
                   /\ [printer[p] EXCEPT !.pc = "char", !.todo = todo].pc = "char"
      BY <1>1, PlaceChanged, ZenonT(60)
    <3> QED
      BY <3>1, Zenon
  <2>2. printer' = [printer EXCEPT ![p] = r]
    BY <1>1, <1>4, Zenon DEF NextChar
  <2> HIDE DEF r
  <2> QED
    BY <1>2, <2>1, <2>2, Zenon
<1>5. ASSUME NEW pc, NEW tmp \in Nat, printer' = [printer EXCEPT ![p].pc = pc, ![p].tmp = tmp]
      PROVE  Went(p, pc)
  <2> DEFINE r == [printer[p] EXCEPT !.pc = pc, !.tmp = tmp]
  <2>1. Place(r) /\ r.pc = pc
    <3>1. \A n \in Nat : /\ Place([printer[p] EXCEPT !.pc = pc, !.tmp = n])
                        /\ [printer[p] EXCEPT !.pc = pc, !.tmp = n].pc = pc
      BY <1>1, PlaceChanged, ZenonT(60)
    <3> QED
      BY <3>1, Zenon
  <2>2. printer' = [printer EXCEPT ![p] = r]
    BY <1>1, <1>5, Zenon
  <2> HIDE DEF r
  <2> QED
    BY <1>2, <2>1, <2>2, Zenon
<1> QED
  BY <1>2, <1>3, <1>4, <1>5, Zenon

\* A step of one printer after the first glyph: it suffices that the cursor stays on
\* the grid, or the printer is about to look, or neither it nor the cursor mattered.
LEMMA PrinterStep ==
  ASSUME CursorInv, NEW p \in Printer, NEW pc, Went(p, pc), max_cols # 0,
         max_cols' = max_cols, max_rows' = max_rows, base' = base,
         cursor_x' \in Nat, cursor_y' \in Nat,
         \/ cursor_x' < COLS
         \/ pc \in {"wrap", "newline"}
         \/ cursor_x' = cursor_x /\ printer[p].pc \notin {"wrap", "newline"},
         \/ cursor_y' < HEIGHT \div FONT_HEIGHT
         \/ pc \in {"bottom", "scroll", "last_row"}
         \/ cursor_y' = cursor_y /\ printer[p].pc \notin {"bottom", "scroll", "last_row"}
  PROVE  CursorInv'
<1>1. PlacesOK' /\ base' \in {10, 16} /\ GridOK' /\ FirstLine'
  BY Zenon DEF CursorInv, Went, GridOK, FirstLine
<1>2. COLS \in Nat /\ HEIGHT \div FONT_HEIGHT \in Nat
  BY ScreenAssumption
<1>3. printer'[p].pc = pc /\ \A q \in Printer : q # p => printer'[q] = printer[q]
  BY Zenon DEF Went
<1>4. ASSUME cursor_x' >= COLS PROVE \E q \in Printer : printer'[q].pc \in {"wrap", "newline"}
  <2>1. ~(cursor_x' < COLS)
    BY <1>2, <1>4
  <2>2. CASE pc \in {"wrap", "newline"}
    BY <1>3, <2>2, Zenon
  <2>3. CASE cursor_x' = cursor_x /\ printer[p].pc \notin {"wrap", "newline"}
    BY <1>3, <1>4, <2>3, Zenon DEF CursorInv, OnGrid
  <2> QED
    BY <2>1, <2>2, <2>3, Zenon
<1>5. ASSUME cursor_y' >= HEIGHT \div FONT_HEIGHT
      PROVE  \E q \in Printer : printer'[q].pc \in {"bottom", "scroll", "last_row"}
  <2>1. ~(cursor_y' < HEIGHT \div FONT_HEIGHT)
    BY <1>2, <1>5
  <2>2. CASE pc \in {"bottom", "scroll", "last_row"}
    BY <1>3, <2>2, Zenon
  <2>3. CASE cursor_y' = cursor_y /\ printer[p].pc \notin {"bottom", "scroll", "last_row"}
    BY <1>3, <1>5, <2>3, Zenon DEF CursorInv, OnGrid
  <2> QED
    BY <2>1, <2>2, <2>3, Zenon
<1>6. OnGrid'
  BY <1>4, <1>5, Zenon DEF OnGrid
<1> QED
  BY <1>1, <1>6, Zenon DEF CursorInv

-----------------------------------------------------------------------------
(* The steps.                                                              *)

\* The screen has a line and a cell, and the arithmetic of the cursor stays natural.
LEMMA ScreenFacts ==
  /\ COLS \in Nat /\ 0 < COLS /\ HEIGHT \div FONT_HEIGHT \in Nat /\ 0 < HEIGHT \div FONT_HEIGHT
  /\ \A n \in Nat : n + 1 \in Nat /\ ((n + TAB) \div TAB) * TAB \in Nat
  /\ \A n \in Nat : (n + 1) % (SIZE_MAX + 1) \in Nat
  /\ LET last == (HEIGHT \div FONT_HEIGHT - 1) % (SIZE_MAX + 1)
     IN  last \in Nat /\ last < HEIGHT \div FONT_HEIGHT
<1>1. COLS \in Nat /\ 0 < COLS /\ HEIGHT \in Nat /\ FONT_HEIGHT \in Nat /\ FONT_HEIGHT > 0
      /\ HEIGHT > FONT_HEIGHT /\ TAB \in Nat /\ TAB > 0 /\ SIZE_MAX \in Nat
  BY ScreenAssumption
<1>2. HEIGHT \div FONT_HEIGHT \in Nat /\ 0 < HEIGHT \div FONT_HEIGHT
  BY <1>1
<1>3. ASSUME NEW n \in Nat PROVE n + 1 \in Nat /\ ((n + TAB) \div TAB) * TAB \in Nat
  BY <1>1
<1>4. \A n \in Nat : n % (SIZE_MAX + 1) \in Nat /\ n % (SIZE_MAX + 1) <= n
  BY <1>1
<1> DEFINE rows == HEIGHT \div FONT_HEIGHT
<1> HIDE DEF rows
<1>5. rows - 1 \in Nat /\ rows \in Nat
  BY <1>2 DEF rows
<1>6. (rows - 1) % (SIZE_MAX + 1) \in Nat /\ (rows - 1) % (SIZE_MAX + 1) < rows
  <2>1. (rows - 1) % (SIZE_MAX + 1) \in Nat /\ (rows - 1) % (SIZE_MAX + 1) <= rows - 1
    BY <1>4, <1>5, Zenon
  <2> QED
    BY <1>5, <2>1, SMTT(30)
<1> QED
  BY <1>1, <1>2, <1>3, <1>4, <1>6, ZenonT(60) DEF rows

\* A printer that is neither idle nor at a character has drawn the first glyph.
LEMMA Drawn ==
  ASSUME CursorInv, NEW p \in Printer, ~At(p, "idle"), ~At(p, "char")
  PROVE  max_cols = COLS /\ max_cols # 0 /\ max_rows = HEIGHT \div FONT_HEIGHT
BY Zenon DEF CursorInv, FirstLine, GridOK

\* A value is begun: nobody has moved yet, and the very first is a log line.
LEMMA BeginStep ==
  ASSUME CursorInv, NEW p \in Printer, NEW val \in Values, NEW log \in BOOLEAN, Begin(p, val, log)
  PROVE  CursorInv'
<1>1. /\ At(p, "idle") /\ cursor_x' = cursor_x /\ cursor_y' = cursor_y
      /\ max_cols' = max_cols /\ max_rows' = max_rows /\ prefix_printed' = prefix_printed
      /\ max_cols = 0 => log
  BY Zenon DEF Begin, cursor, grid
<1>2. CASE val.kind = "manip"
  <2>1. base' = val.v /\ printer' = printer
    BY <1>2, Zenon DEF Begin
  <2>2. base' \in {10, 16}
    BY <1>2, <2>1, ValueAssumption, Zenon
  <2> QED
    BY <1>1, <2>1, <2>2, Zenon DEF CursorInv, PlacesOK, GridOK, FirstLine, OnGrid, At
<1>3. CASE val.kind # "manip"
  <2> DEFINE todo == IF log THEN locked_text(val) ELSE Text(val, base)
             r == [pc |-> "char", tmp |-> 0, todo |-> todo]
  <2>1. base' = base /\ printer' = [printer EXCEPT ![p] = r]
    BY <1>3, Zenon DEF Begin
  <2>2. Place(r) /\ r.pc = "char" /\ r.todo = todo
    <3> HIDE DEF todo
    <3> QED
      BY DEF Place
  <2> HIDE DEF r
  <2>3. Went(p, "char")
    BY <2>1, <2>2, Movements, Zenon DEF CursorInv
  <2>4. CASE max_cols # 0
    <3>1. printer[p].pc \notin {"wrap", "newline"} /\ printer[p].pc \notin {"bottom", "scroll", "last_row"}
      BY <1>1 DEF At
    <3>2. cursor_x' \in Nat /\ cursor_y' \in Nat
      BY <1>1, Zenon DEF CursorInv, OnGrid
    <3> QED
      BY <1>1, <2>1, <2>3, <2>4, <3>1, <3>2, PrinterStep, ZenonT(60)
  <2>5. CASE max_cols = 0
    <3>1. log /\ ~prefix_printed /\ base \in {10, 16} /\ cursor_x = 0 /\ cursor_y = 0
      BY <1>1, <2>5, Zenon DEF CursorInv, FirstLine
    <3>2. todo # << >> /\ Head(todo) = "["
      BY <1>3, <3>1, PrefixFirst, Zenon
    <3>3. printer'[p] = r /\ \A q \in Printer \ {p} : printer'[q] = printer[q]
      BY <2>1, <2>3, Zenon DEF CursorInv, PlacesOK, Went
    <3>4. At(p, "char")' /\ printer'[p].todo # << >> /\ Head(printer'[p].todo) = "["
      BY <2>2, <3>2, <3>3, Zenon DEF At
    <3>5. FirstLine'
      BY <1>1, <2>5, <3>3, <3>4, Zenon DEF FirstLine, CursorInv, At
    <3>6. OnGrid'
      <4>1. cursor_x' = 0 /\ cursor_y' = 0 /\ ~(0 >= COLS) /\ 0 \in Nat /\ max_cols' = 0
        BY <1>1, <2>5, <3>1, ScreenFacts, SMTT(30)
      <4> QED
        BY <4>1, Zenon DEF OnGrid
    <3>7. PlacesOK' /\ base' \in {10, 16} /\ GridOK'
      BY <1>1, <2>1, <2>3, Zenon DEF CursorInv, Went, GridOK
    <3> QED
      BY <3>5, <3>6, <3>7, Zenon DEF CursorInv
  <2> QED
    BY <2>4, <2>5, Zenon
<1> QED
  BY <1>2, <1>3, Zenon

\* The end of a message, and the flag of the prefix.
LEMMA EndsFlagStep ==
  ASSUME CursorInv, NEW p \in Printer, Ends(p) \/ SetFlag(p)
  PROVE  CursorInv'
<1>1. /\ At(p, "char") /\ cursor_x' = cursor_x /\ cursor_y' = cursor_y
      /\ max_cols' = max_cols /\ max_rows' = max_rows /\ base' = base
  BY Zenon DEF Ends, SetFlag, cursor, grid
<1>2. max_cols # 0
  <2>1. printer[p].todo = << >> \/ Head(printer[p].todo) \in {"set", "clear"}
    BY Zenon DEF Ends, SetFlag
  <2>2. ~At(p, "idle") /\ "[" \notin {"set", "clear"}
    BY <1>1 DEF At
  <2> QED
    BY <2>1, <2>2, Zenon DEF CursorInv, FirstLine
<1>3. PICK pc : Went(p, pc)
  BY Movements, Zenon DEF Ends, SetFlag, CursorInv
<1>4. printer[p].pc \notin {"wrap", "newline"} /\ printer[p].pc \notin {"bottom", "scroll", "last_row"}
  BY <1>1 DEF At
<1>5. cursor_x' \in Nat /\ cursor_y' \in Nat
  BY <1>1, Zenon DEF CursorInv, OnGrid
<1> QED
  BY <1>1, <1>2, <1>3, <1>4, <1>5, PrinterStep, ZenonT(60)

\* A character: a control character waits for the first glyph, and the first glyph
\* works the grid out with the cursor in its first cell.
LEMMA WriteStep ==
  ASSUME CursorInv, NEW p \in Printer, write(p)
  PROVE  CursorInv'
<1> DEFINE c == Head(printer[p].todo)
<1>1. /\ At(p, "char") /\ cursor_y' = cursor_y /\ base' = base
      /\ cursor_x \in Nat /\ cursor_y \in Nat /\ PlacesOK
  BY Zenon DEF write, CursorInv, OnGrid
<1>2. printer[p].pc \notin {"wrap", "newline"} /\ printer[p].pc \notin {"bottom", "scroll", "last_row"}
      /\ ~At(p, "idle")
  BY <1>1 DEF At
<1>3. CASE c \in {"nl", "cr", "tab"}
  <2>1. max_cols # 0
    <3>1. "[" \notin {"nl", "cr", "tab"}
      OBVIOUS
    <3> QED
      BY <1>2, <1>3, <3>1, Zenon DEF CursorInv, FirstLine
  <2>2. max_cols' = max_cols /\ max_rows' = max_rows /\ (cursor_x' = cursor_x \/ cursor_x' = 0)
    BY <1>3 DEF write, grid
  <2>3. PICK pc : Went(p, pc)
    <3>1. \/ Moves(p, "newline") \/ NextChar(p)
          \/ printer' = [printer EXCEPT ![p].pc = "tab", ![p].tmp = cursor_x]
      BY <1>3 DEF write
    <3> QED
      BY <1>1, <3>1, Movements, ZenonT(60)
  <2>4. cursor_x' \in Nat /\ (cursor_x' < COLS \/ cursor_x' = cursor_x)
    BY <1>1, <2>2, ScreenFacts, SMTT(30)
  <2> QED
    BY <1>1, <1>2, <2>1, <2>2, <2>3, <2>4, PrinterStep, ZenonT(60)
<1>4. CASE c \notin {"nl", "cr", "tab"}
  <2>1. /\ max_cols' = cols /\ max_rows' = IF max_cols = 0 THEN HEIGHT \div FONT_HEIGHT ELSE max_rows
        /\ Moves(p, "inc") /\ cursor_x' = cursor_x
    BY <1>4 DEF write, Moves
  <2>2. Went(p, "inc")
    BY <1>1, <2>1, Movements, Zenon
  <2>3. CASE max_cols # 0
    <3>1. max_cols' = max_cols /\ max_rows' = max_rows
      BY <2>1, <2>3, Zenon DEF cols
    <3> QED
      BY <1>1, <1>2, <2>1, <2>2, <2>3, <3>1, PrinterStep, ZenonT(60)
  <2>4. CASE max_cols = 0
    <3>1. max_cols' = COLS /\ max_rows' = HEIGHT \div FONT_HEIGHT
      BY <2>1, <2>4, Zenon DEF cols
    <3>2. cursor_x' = 0 /\ cursor_y' = 0
      BY <1>1, <2>1, <2>4, Zenon DEF CursorInv, FirstLine
    <3>3. COLS # 0 /\ ~(0 >= COLS) /\ ~(0 >= HEIGHT \div FONT_HEIGHT) /\ 0 \in Nat
      BY ScreenFacts
    <3>4. OnGrid'
      BY <3>2, <3>3, Zenon DEF OnGrid
    <3> QED
      BY <1>1, <2>2, <3>1, <3>3, <3>4, Zenon DEF CursorInv, Went, GridOK, FirstLine
  <2> QED
    BY <2>3, <2>4, Zenon
<1> QED
  BY <1>3, <1>4, Zenon

\* cursor_x++ and the tab: whoever stores goes on to look.
LEMMA ColumnStep ==
  ASSUME CursorInv, NEW p \in Printer, LoadX(p) \/ StoreX(p) \/ Wrap(p)
  PROVE  CursorInv'
<1>1. /\ cursor_x \in Nat /\ cursor_y \in Nat /\ PlacesOK /\ Place(printer[p])
      /\ cursor_y' = cursor_y /\ max_cols' = max_cols /\ max_rows' = max_rows /\ base' = base
  BY Zenon DEF LoadX, StoreX, Wrap, CursorInv, OnGrid, PlacesOK, cursor, grid
<1>2. printer[p].pc \in {"inc", "stored_x", "tab", "wrap"}
  BY Zenon DEF LoadX, StoreX, Wrap, At
<1>3. /\ ~At(p, "idle") /\ ~At(p, "char") /\ printer[p].pc \notin {"bottom", "scroll", "last_row"}
  BY <1>2 DEF At
<1>4. max_cols # 0 /\ max_cols = COLS
  BY <1>3, Drawn, Zenon
<1>5. CASE LoadX(p)
  <2>1. Went(p, "stored_x") /\ cursor_x' = cursor_x
    BY <1>1, <1>5, Movements, Zenon DEF LoadX, cursor
  <2>2. printer[p].pc \notin {"wrap", "newline"}
    BY <1>5 DEF LoadX, At
  <2> QED
    BY <1>1, <1>3, <1>4, <2>1, <2>2, PrinterStep, ZenonT(60)
<1>6. CASE StoreX(p)
  <2>1. Went(p, "wrap")
    BY <1>1, <1>6, Movements, Zenon DEF StoreX
  <2>2. cursor_x' \in Nat
    BY <1>1, <1>6, ScreenFacts, Zenon DEF StoreX, Place
  <2> QED
    BY <1>1, <1>3, <1>4, <2>1, <2>2, PrinterStep, ZenonT(60)
<1>7. CASE Wrap(p)
  <2>1. cursor_x' = cursor_x
    BY <1>7, Zenon DEF Wrap, cursor
  <2>2. CASE cursor_x >= max_cols
    <3>1. Went(p, "newline")
      BY <1>1, <1>7, <2>2, Movements, ZenonT(60) DEF Wrap
    <3> QED
      BY <1>1, <1>3, <1>4, <2>1, <3>1, PrinterStep, ZenonT(60)
  <2>3. CASE ~(cursor_x >= max_cols)
    <3>1. Went(p, "char")
      BY <1>1, <1>7, <2>3, Movements, ZenonT(60) DEF Wrap
    <3>2. cursor_x' < COLS
      BY <1>1, <1>4, <2>1, <2>3, ScreenFacts, SMTT(30)
    <3> QED
      BY <1>1, <1>3, <1>4, <2>1, <3>1, <3>2, PrinterStep, ZenonT(60)
  <2> QED
    BY <2>2, <2>3, Zenon
<1> QED
  BY <1>5, <1>6, <1>7, Zenon

\* newline and scroll: whoever stores the row goes on to look, and the last row is a row.
LEMMA RowStep ==
  ASSUME CursorInv, NEW p \in Printer,
         newline(p) \/ LoadY(p) \/ StoreY(p) \/ Bottom(p) \/ scroll(p) \/ LastRow(p)
  PROVE  CursorInv'
<1>1. /\ cursor_x \in Nat /\ cursor_y \in Nat /\ PlacesOK /\ Place(printer[p])
      /\ max_cols' = max_cols /\ max_rows' = max_rows /\ base' = base
  BY Zenon DEF newline, LoadY, StoreY, Bottom, scroll, LastRow, CursorInv, OnGrid, PlacesOK, cursor, grid
<1>2. printer[p].pc \in {"newline", "load_y", "inc_y", "bottom", "scroll", "last_row"}
  BY Zenon DEF newline, LoadY, StoreY, Bottom, scroll, LastRow, At
<1>3. ~At(p, "idle") /\ ~At(p, "char")
  BY <1>2 DEF At
<1>4. max_cols # 0 /\ max_rows = HEIGHT \div FONT_HEIGHT
  BY <1>3, Drawn, Zenon
<1>5. CASE newline(p)
  <2>1. Went(p, "load_y") /\ cursor_x' = 0 /\ cursor_y' = cursor_y
    BY <1>1, <1>5, Movements, Zenon DEF newline
  <2>2. printer[p].pc \notin {"bottom", "scroll", "last_row"}
    BY <1>5 DEF newline, At
  <2>3. cursor_x' \in Nat /\ cursor_x' < COLS
    BY <2>1, ScreenFacts, SMTT(30)
  <2> QED
    BY <1>1, <1>4, <2>1, <2>2, <2>3, PrinterStep, ZenonT(60)
<1>6. ASSUME ~newline(p) PROVE cursor_x' = cursor_x /\ printer[p].pc \notin {"wrap", "newline"}
  <2>1. cursor_x' = cursor_x
    BY <1>6, Zenon DEF LoadY, StoreY, Bottom, scroll, LastRow, cursor
  <2>2. printer[p].pc \in {"load_y", "inc_y", "bottom", "scroll", "last_row"}
    BY <1>6, Zenon DEF LoadY, StoreY, Bottom, scroll, LastRow, At
  <2>3. printer[p].pc \notin {"wrap", "newline"}
    BY <2>2
  <2> QED
    BY <2>1, <2>3
<1>7. CASE ~newline(p) /\ LoadY(p)
  <2>1. Went(p, "inc_y") /\ cursor_y' = cursor_y
    BY <1>1, <1>7, Movements, Zenon DEF LoadY, cursor
  <2>2. printer[p].pc \notin {"bottom", "scroll", "last_row"}
    BY <1>7 DEF LoadY, At
  <2> QED
    BY <1>1, <1>4, <1>6, <1>7, <2>1, <2>2, PrinterStep, ZenonT(60)
<1>8. CASE ~newline(p) /\ StoreY(p)
  <2>1. Went(p, "bottom") /\ cursor_y' = (printer[p].tmp + 1) % (SIZE_MAX + 1)
    BY <1>1, <1>8, Movements, Zenon DEF StoreY
  <2>2. cursor_y' \in Nat
    BY <1>1, <2>1, ScreenFacts, Zenon DEF Place
  <2> QED
    BY <1>1, <1>4, <1>6, <1>8, <2>1, <2>2, PrinterStep, ZenonT(60)
<1>9. CASE ~newline(p) /\ Bottom(p)
  <2>1. cursor_y' = cursor_y
    BY <1>9, Zenon DEF Bottom, cursor
  <2>2. CASE cursor_y >= max_rows
    <3>1. Went(p, "scroll")
      BY <1>1, <1>9, <2>2, Movements, ZenonT(60) DEF Bottom
    <3> QED
      BY <1>1, <1>4, <1>6, <1>9, <2>1, <3>1, PrinterStep, ZenonT(60)
  <2>3. CASE ~(cursor_y >= max_rows)
    <3>1. Went(p, "char")
      BY <1>1, <1>9, <2>3, Movements, ZenonT(60) DEF Bottom
    <3>2. cursor_y' < HEIGHT \div FONT_HEIGHT
      BY <1>1, <1>4, <2>1, <2>3, ScreenFacts, SMTT(30)
    <3> QED
      BY <1>1, <1>4, <1>6, <1>9, <2>1, <3>1, <3>2, PrinterStep, ZenonT(60)
  <2> QED
    BY <2>2, <2>3, Zenon
<1>10. CASE ~newline(p) /\ scroll(p)
  <2>1. Went(p, "last_row") /\ cursor_y' = cursor_y
    BY <1>1, <1>10, Movements, Zenon DEF scroll, cursor
  <2> QED
    BY <1>1, <1>4, <1>6, <1>10, <2>1, PrinterStep, ZenonT(60)
<1>11. CASE ~newline(p) /\ LastRow(p)
  <2>1. Went(p, "char") /\ cursor_y' = (max_rows - 1) % (SIZE_MAX + 1)
    BY <1>1, <1>11, Movements, Zenon DEF LastRow
  <2>2. cursor_y' \in Nat /\ cursor_y' < HEIGHT \div FONT_HEIGHT
    BY <1>4, <2>1, ScreenFacts, Zenon
  <2> QED
    BY <1>1, <1>4, <1>6, <1>11, <2>1, <2>2, PrinterStep, ZenonT(60)
<1> QED
  BY <1>5, <1>7, <1>8, <1>9, <1>10, <1>11, ZenonT(60)

\* The cleared screen.
LEMMA InitCursor == Init => CursorInv
<1> SUFFICES ASSUME Init PROVE CursorInv
  OBVIOUS
<1>1. cursor_x = 0 /\ cursor_y = 0 /\ max_cols = 0 /\ max_rows = 0 /\ base = 10 /\ ~prefix_printed
      /\ printer = [p \in Printer |-> Idle]
  BY DEF Init
<1>2. \A p \in Printer : printer[p] = Idle
  BY <1>1, Zenon
<1>3. Place(Idle) /\ Idle.pc = "idle"
  BY DEF Idle, Place
<1>4. PlacesOK
  BY <1>1, <1>2, <1>3, Zenon DEF PlacesOK
<1>5. FirstLine
  BY <1>1, <1>2, <1>3, Zenon DEF FirstLine, At
<1>6. OnGrid
  <2>1. 0 \in Nat /\ ~(0 >= COLS)
    BY ScreenFacts
  <2> QED
    BY <1>1, <2>1, Zenon DEF OnGrid
<1> QED
  BY <1>1, <1>4, <1>5, <1>6, SMTT(30) DEF CursorInv, GridOK

\* Every step keeps the invariant.
LEMMA CursorStep == CursorInv /\ [Next]_vars => CursorInv'
<1> SUFFICES ASSUME CursorInv, [Next]_vars PROVE CursorInv'
  OBVIOUS
<1>1. CASE UNCHANGED vars
  <2>1. cursor_x' = cursor_x /\ cursor_y' = cursor_y /\ max_cols' = max_cols /\ max_rows' = max_rows
        /\ base' = base /\ prefix_printed' = prefix_printed /\ printer' = printer
    BY <1>1 DEF vars
  <2> QED
    BY <2>1, Zenon DEF CursorInv, PlacesOK, GridOK, FirstLine, OnGrid, At
<1>2. CASE Next
  <2>1. PICK p \in Printer :
          \/ \E val \in Values, log \in BOOLEAN : Begin(p, val, log)
          \/ Ends(p) \/ SetFlag(p) \/ write(p)
          \/ LoadX(p) \/ StoreX(p) \/ Wrap(p)
          \/ newline(p) \/ LoadY(p) \/ StoreY(p) \/ Bottom(p) \/ scroll(p) \/ LastRow(p)
    BY <1>2, Zenon DEF Next
  <2>2. CASE \E val \in Values, log \in BOOLEAN : Begin(p, val, log)
    BY <2>2, BeginStep, Zenon
  <2>3. CASE Ends(p) \/ SetFlag(p)
    BY <2>3, EndsFlagStep, Zenon
  <2>4. CASE write(p)
    BY <2>4, WriteStep, Zenon
  <2>5. CASE LoadX(p) \/ StoreX(p) \/ Wrap(p)
    BY <2>5, ColumnStep, Zenon
  <2>6. CASE newline(p) \/ LoadY(p) \/ StoreY(p) \/ Bottom(p) \/ scroll(p) \/ LastRow(p)
    BY <2>6, RowStep, Zenon
  <2> QED
    BY <2>1, <2>2, <2>3, <2>4, <2>5, <2>6, ZenonT(60)
<1> QED
  BY <1>1, <1>2, Zenon

\* However the loads and stores of any number of printers interleave, on any screen
\* and whatever is printed, the cursor is back on the grid once they are done:
\* newline and scroll of ostreamk.cpp look at the shared cursor after every store.
THEOREM CursorAlwaysRecovers == Spec => []CursorRecovers
<1>1. CursorInv => CursorRecovers
  <2> SUFFICES ASSUME CursorInv, Quiet, max_cols # 0
               PROVE  cursor_x < COLS /\ cursor_y < HEIGHT \div FONT_HEIGHT
    BY Zenon DEF CursorRecovers
  <2>1. \A p \in Printer : printer[p].pc = "idle"
    BY Zenon DEF Quiet, At
  <2>2. \A p \in Printer : /\ printer[p].pc \notin {"wrap", "newline"}
                           /\ printer[p].pc \notin {"bottom", "scroll", "last_row"}
    BY <2>1
  <2>3. /\ cursor_x \in Nat /\ cursor_y \in Nat
        /\ ~(cursor_x >= COLS) /\ ~(cursor_y >= HEIGHT \div FONT_HEIGHT)
    BY <2>2, Zenon DEF CursorInv, OnGrid
  <2> QED
    BY <2>3, ScreenFacts
<1> QED
  BY <1>1, InitCursor, CursorStep, PTL DEF Spec
=============================================================================
