------------------------------ MODULE Keyboard ------------------------------
(***************************************************************************)
(* Keyboard input, from the keys to read(0, ...): the scan code decoder    *)
(* and the event ring of src/ps2_keyboard.cpp, the interrupt handler of    *)
(* src/idt.cpp and the polling loop of sys_read.                           *)
(*                                                                         *)
(* The keyboard and its controller (the 8042) are external: a key puts its *)
(* bytes on the wire, the controller holds one byte at a time in its       *)
(* output buffer, and each byte that enters the buffer latches IRQ 1 if    *)
(* the line is routed.  ioapic::init masks every line and nothing calls    *)
(* route_irq, so that as booted the handler never runs and sys_read does   *)
(* all the decoding; the handler is installed and the model covers both.   *)
(*                                                                         *)
(* System calls run with interrupts masked (SYSCALL_FMASK), so that the    *)
(* handler runs between them only.                                         *)
(***************************************************************************)
EXTENDS Integers, Sequences, FiniteSets

CONSTANTS
  KEY_BUF_SIZE,  \* places of the ring; one stays empty
  Keys,          \* the keys in use: records [base, ext]
  MaxTyped,      \* bound: presses and releases of a behaviour
  Counts         \* lengths user code reads

NoByte == "none"

ASSUME RingAssumption == KEY_BUF_SIZE \in Nat \ {0, 1}

\* The code of a key is not one of the two prefixes.
ASSUME KeyAssumption ==
  \A k \in Keys : /\ k = [base |-> k.base, ext |-> k.ext]
                  /\ k.base \notin {"E0", "F0", NoByte} /\ k.ext \in BOOLEAN

NoChar == "0"
Newline == "nl"

VARIABLES
  routed,        \* whether IRQ 1 reaches the CPU
  down,          \* keys held
  wire,          \* bytes the keyboard has not yet handed over
  obf,           \* the controller's output buffer
  irq,           \* IRQ 1 latched
  s_state,       \* DecoderState
  s_shift, s_ctrl, s_alt, s_caps_lock,
  s_key_buf, s_head, s_tail,
  reader,        \* sys_read(0, ...): [pc, count, read_count]
  typed,         \* history: the presses and releases so far
  decoded,       \* history: the events the decoder made
  polled,        \* history: the events taken out of the ring
  output,        \* history: the characters user code got
  lost           \* history: which of the characters polled did not arrive

device == << routed, down, wire, obf, irq, typed >>
flags == << s_shift, s_ctrl, s_alt, s_caps_lock >>
ring == << s_key_buf, s_head, s_tail >>
taken == << reader, polled, output, lost >>
vars == << routed, down, wire, obf, irq, typed, s_state, s_shift, s_ctrl, s_alt, s_caps_lock,
           s_key_buf, s_head, s_tail, decoded, reader, polled, output, lost >>

NoEvent == [base |-> "none", ext |-> FALSE, pressed |-> FALSE, ascii |-> NoChar,
            shift |-> FALSE, ctrl |-> FALSE, alt |-> FALSE, caps_lock |-> FALSE]

\* After ps2::init has emptied the controller and reset the keyboard.
Init ==
  /\ routed \in BOOLEAN
  /\ down = {} /\ wire = << >> /\ obf = NoByte /\ irq = FALSE /\ typed = << >>
  /\ s_state = "NORMAL"
  /\ s_shift = FALSE /\ s_ctrl = FALSE /\ s_alt = FALSE /\ s_caps_lock = FALSE
  /\ s_key_buf = [i \in 0 .. KEY_BUF_SIZE - 1 |-> NoEvent]
  /\ s_head = 0 /\ s_tail = 0
  /\ reader = [pc |-> "user", count |-> 0, read_count |-> 0]
  /\ decoded = << >> /\ polled = << >> /\ output = << >> /\ lost = {}

-----------------------------------------------------------------------------
(* The keyboard and the controller.                                        *)

MakeCode(k) == IF k.ext THEN << "E0", k.base >> ELSE << k.base >>
BreakCode(k) == IF k.ext THEN << "E0", "F0", k.base >> ELSE << "F0", k.base >>

\* A key goes down; held, it repeats its make code.
Press(k) ==
  /\ Len(typed) < MaxTyped
  /\ down' = down \cup {k}
  /\ wire' = wire \o MakeCode(k)
  /\ typed' = Append(typed, [key |-> k, pressed |-> TRUE])
  /\ UNCHANGED << routed, obf, irq, s_state, flags, ring, decoded, taken >>

LetGo(k) ==
  /\ Len(typed) < MaxTyped
  /\ k \in down
  /\ down' = down \ {k}
  /\ wire' = wire \o BreakCode(k)
  /\ typed' = Append(typed, [key |-> k, pressed |-> FALSE])
  /\ UNCHANGED << routed, obf, irq, s_state, flags, ring, decoded, taken >>

\* The next byte enters the output buffer.
Transfer ==
  /\ obf = NoByte
  /\ wire # << >>
  /\ obf' = Head(wire)
  /\ wire' = Tail(wire)
  /\ irq' = routed
  /\ UNCHANGED << routed, down, typed, s_state, flags, ring, decoded, taken >>

-----------------------------------------------------------------------------
(* ps2_keyboard.cpp.                                                       *)

\* One letter, one key with a second character and one without stand for the
\* table; the modifiers have no character.
sc2_ascii(base) ==
  CASE base = "A" -> "a" [] base = "ONE" -> "1" [] base = "ENTER" -> Newline [] OTHER -> NoChar

\* Letters follow shift and caps lock, other characters shift alone.
translate(base, shift, caps) ==
  LET c == sc2_ascii(base)
  IN  CASE c = "a" /\ shift # caps -> "A"
        [] c = "1" /\ shift -> "!"
        [] OTHER -> c

\* Mutant: the place before the tail is used too.
MutNeverFull(ev) ==
  /\ s_key_buf' = [s_key_buf EXCEPT ![s_head] = ev]
  /\ s_head' = (s_head + 1) % KEY_BUF_SIZE
  /\ decoded' = Append(decoded, ev)

\* The newest event is dropped when the ring is full.
push_event(ev) ==
  LET next == (s_head + 1) % KEY_BUF_SIZE
  IN  /\ decoded' = Append(decoded, ev)
      /\ IF next # s_tail
         THEN /\ s_key_buf' = [s_key_buf EXCEPT ![s_head] = ev]
              /\ s_head' = next
         ELSE UNCHANGED << s_key_buf, s_head >>

\* The end of decode_and_push: a whole code has arrived.
key_event(base, ext, pressed) ==
  /\ s_state' = "NORMAL"
  /\ s_shift' = IF ~ext /\ base \in {"LSHIFT", "RSHIFT"} THEN pressed ELSE s_shift
  /\ s_ctrl' = IF base = "CTRL" THEN pressed ELSE s_ctrl
  /\ s_alt' = IF base = "ALT" THEN pressed ELSE s_alt
  /\ s_caps_lock' = IF ~ext /\ base = "CAPS" /\ pressed THEN ~s_caps_lock ELSE s_caps_lock
  /\ push_event([base |-> base, ext |-> ext, pressed |-> pressed,
                 shift |-> s_shift', ctrl |-> s_ctrl', alt |-> s_alt', caps_lock |-> s_caps_lock',
                 ascii |-> IF pressed THEN translate(base, s_shift', s_caps_lock') ELSE NoChar])

Prefix(state) ==
  /\ s_state' = state
  /\ UNCHANGED << flags, s_key_buf, s_head, decoded >>

\* Mutant: the release of an extended key is taken for its press.
MutExtendedRelease(raw) ==
  CASE s_state = "NORMAL" /\ raw = "E0" -> Prefix("GOT_E0")
    [] s_state = "NORMAL" /\ raw = "F0" -> Prefix("GOT_F0")
    [] s_state = "GOT_E0" /\ raw = "F0" -> Prefix("GOT_E0")
    [] OTHER -> key_event(raw, s_state \in {"GOT_E0", "GOT_E0_F0"},
                          s_state \in {"NORMAL", "GOT_E0"})

decode_and_push(raw) ==
  CASE s_state = "NORMAL" /\ raw = "E0" -> Prefix("GOT_E0")
    [] s_state = "NORMAL" /\ raw = "F0" -> Prefix("GOT_F0")
    [] s_state = "GOT_E0" /\ raw = "F0" -> Prefix("GOT_E0_F0")
    [] OTHER -> key_event(raw, s_state \in {"GOT_E0", "GOT_E0_F0"},
                          s_state \in {"NORMAL", "GOT_E0"})

-----------------------------------------------------------------------------
(* The interrupt handler.                                                  *)

\* Mutant: the status is not looked at; an empty buffer gives its last byte again.
MutNoStatusCheck ==
  /\ irq /\ reader.pc = "user"
  /\ irq' = FALSE
  /\ decode_and_push(IF obf = NoByte THEN "A" ELSE obf)
  /\ obf' = NoByte
  /\ UNCHANGED << routed, down, wire, typed, s_tail, taken >>

\* The keyboard case.  The byte may be gone: sys_read took it by polling after the
\* interrupt was latched, and the interrupt is spurious.
irqHandler ==
  /\ irq /\ reader.pc = "user"
  /\ irq' = FALSE
  /\ IF obf = NoByte
     THEN UNCHANGED << obf, s_state, flags, s_key_buf, s_head, decoded >>
     ELSE decode_and_push(obf) /\ obf' = NoByte
  /\ UNCHANGED << routed, down, wire, typed, s_tail, taken >>

-----------------------------------------------------------------------------
(* read(0, buffer, count).                                                 *)

\* The first byte of the buffer is tried before anything is taken; without it the
\* call is refused and nothing happens.
sys_read(count) ==
  /\ reader.pc = "user"
  /\ reader' = [pc |-> "loop", count |-> count, read_count |-> 0]
  /\ UNCHANGED << device, s_state, flags, ring, decoded, polled, output, lost >>

\* The ring is empty: the port is polled.
PollPort ==
  /\ reader.pc = "loop"
  /\ s_head = s_tail
  /\ obf # NoByte
  /\ decode_and_push(obf)
  /\ obf' = NoByte
  /\ UNCHANGED << routed, down, wire, irq, typed, s_tail, taken >>

Return == reader' = [reader EXCEPT !.pc = "user"]

CharsPolled == { i \in DOMAIN polled : polled[i].pressed /\ polled[i].ascii # NoChar }

\* Mutant: nothing was tried before, and the first byte may fault too.
MutNoProbe(ev) ==
  \/ /\ output' = Append(output, ev.ascii)
     /\ reader' = [reader EXCEPT !.read_count = @ + 1,
                                 !.pc = IF ev.ascii = Newline
                                           \/ reader.read_count + 1 = reader.count
                                        THEN "user" ELSE "loop"]
     /\ UNCHANGED lost
  \/ /\ Return
     /\ lost' = lost \cup {Cardinality(CharsPolled) + 1}
     /\ UNCHANGED output

\* Mutant: only a full buffer ends the loop.
MutIgnoresNewline(ev) ==
  \/ /\ output' = Append(output, ev.ascii)
     /\ reader' = [reader EXCEPT !.read_count = @ + 1,
                                 !.pc = IF reader.read_count + 1 = reader.count THEN "user" ELSE "loop"]
     /\ UNCHANGED lost
  \/ /\ reader.read_count > 0
     /\ Return
     /\ lost' = lost \cup {Cardinality(CharsPolled) + 1}
     /\ UNCHANGED output

\* A character goes to the buffer, whose second byte or a later one may be outside
\* user memory: the call then returns what it has and the character is lost.
deliver(ev) ==
  \/ /\ output' = Append(output, ev.ascii)
     /\ reader' = [reader EXCEPT !.read_count = @ + 1,
                                 !.pc = IF ev.ascii = Newline
                                           \/ reader.read_count + 1 = reader.count
                                        THEN "user" ELSE "loop"]
     /\ UNCHANGED lost
  \/ /\ reader.read_count > 0
     /\ Return
     /\ lost' = lost \cup {Cardinality(CharsPolled) + 1}
     /\ UNCHANGED output

poll ==
  /\ reader.pc = "loop"
  /\ s_head # s_tail
  /\ s_tail' = (s_tail + 1) % KEY_BUF_SIZE
  /\ LET ev == s_key_buf[s_tail]
     IN  /\ polled' = Append(polled, ev)
         /\ IF ~ev.pressed \/ ev.ascii = NoChar
            THEN UNCHANGED << reader, output, lost >>
            ELSE deliver(ev)
  /\ UNCHANGED << device, s_state, flags, s_key_buf, s_head, decoded >>

Next ==
  \/ \E k \in Keys : Press(k) \/ LetGo(k)
  \/ Transfer
  \/ irqHandler
  \/ \E count \in Counts : sys_read(count)
  \/ PollPort
  \/ poll

Spec == Init /\ [][Next]_vars

\* The controller hands bytes over, a latched interrupt is taken, and the polling
\* loop runs: it is not preempted, interrupts being masked.
Fairness ==
  /\ WF_vars(Transfer)
  /\ WF_vars(irqHandler)
  /\ WF_vars(PollPort)
  /\ WF_vars(poll)

LiveSpec == Spec /\ Fairness

-----------------------------------------------------------------------------
(* Properties.                                                             *)

EventOf(k, pressed, shift, ctrl, alt, caps) ==
  [base |-> k.base, ext |-> k.ext, pressed |-> pressed,
   shift |-> shift, ctrl |-> ctrl, alt |-> alt, caps_lock |-> caps,
   ascii |-> IF pressed THEN translate(k.base, shift, caps) ELSE NoChar]

\* What the decoder may make of any bytes, a prefix in the wrong place included.
Byte == { k.base : k \in Keys } \cup {"E0", "F0"}
Event ==
  { EventOf(k, m[1], m[2], m[3], m[4], m[5]) : k \in [base : Byte, ext : BOOLEAN], m \in [1 .. 5 -> BOOLEAN] }

\* The keys of each modifier; the extended codes of the shift keys are not keys.
ShiftKeys == { k \in Keys : ~k.ext /\ k.base \in {"LSHIFT", "RSHIFT"} }
CtrlKeys == { k \in Keys : k.base = "CTRL" }
AltKeys == { k \in Keys : k.base = "ALT" }
CapsKeys == { k \in Keys : ~k.ext /\ k.base = "CAPS" }

\* The value of a modifier after the first i presses and releases: that of the
\* last of them that concerned one of its keys.
HeldAfter(i, keys) ==
  \E j \in 1 .. i :
    /\ typed[j].key \in keys /\ typed[j].pressed
    /\ \A k \in j + 1 .. i : typed[k].key \notin keys

CapsAfter(i) ==
  Cardinality({ j \in 1 .. i : typed[j].key \in CapsKeys /\ typed[j].pressed }) % 2 = 1

\* Whoever takes the bytes from the controller, the handler or the polling loop, and
\* however they alternate in the middle of a code: the decoder makes one event per
\* press or release, in the order of the keys, with the modifiers and the character
\* of that moment.
DecodesInOrder ==
  /\ Len(decoded) <= Len(typed)
  /\ \A i \in 1 .. Len(decoded) :
    decoded[i] = EventOf(typed[i].key, typed[i].pressed, HeldAfter(i, ShiftKeys),
                         HeldAfter(i, CtrlKeys), HeldAfter(i, AltKeys), CapsAfter(i))

InRing ==
  [i \in 1 .. (s_head - s_tail + KEY_BUF_SIZE) % KEY_BUF_SIZE |->
     s_key_buf[(s_tail + i - 1) % KEY_BUF_SIZE]]

Queue == INSTANCE EventQueue
           WITH Capacity <- KEY_BUF_SIZE - 1, made <- decoded, queue <- InRing, taken <- polled

\* push_event and poll implement a bounded queue that drops the newest: events leave
\* in the order they were made, none twice and none overwritten, and one is turned
\* away only when the ring is full.
QueueSpec == Queue!Spec

ModifierKeys == ShiftKeys \cup CtrlKeys \cup AltKeys

\* No modifier sticks: once all bytes are decoded and no modifier key is held, the
\* flags of decode_and_push are clear and it is between codes.
NoStuckModifier ==
  wire = << >> /\ obf = NoByte /\ down \cap ModifierKeys = {} =>
    ~s_shift /\ ~s_ctrl /\ ~s_alt /\ s_state = "NORMAL"

\* The characters taken out of the ring reach user code in order, one or more to
\* every call that takes any.  A fault costs the call that meets it one character,
\* and never two calls in a row come back without any: the first byte was tried.
InputAccounted ==
  LET chars == CharsPolled
      nth(n) == polled[CHOOSE i \in chars : Cardinality({ j \in chars : j <= i }) = n].ascii
      arrived == 1 .. Cardinality(chars) \ lost
  IN  /\ Len(output) = Cardinality(arrived)
      /\ \A n \in arrived : output[Cardinality({ m \in arrived : m <= n })] = nth(n)
      /\ \A n \in lost : n - 1 \in arrived /\ nth(n - 1) # Newline

EnterOnTheWay ==
  \E i \in Len(decoded) + 1 .. Len(typed) :
    typed[i].pressed /\ typed[i].key.base = "ENTER"

\* A read that waits while Enter is on its way returns.
EnterEndsRead == (reader.pc = "loop" /\ EnterOnTheWay) ~> (reader.pc = "user")
=============================================================================
