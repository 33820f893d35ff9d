--------------------------- MODULE KeyboardProofs ---------------------------
(***************************************************************************)
(* For every size of the ring, every set of keys, any number of strokes    *)
(* and every interleaving of the handler with the polling loop:            *)
(*   push_event and poll implement the bounded queue of EventQueue;        *)
(*   decode_and_push makes one event per press or release, in their order; *)
(*   no modifier sticks.                                                   *)
(*                                                                         *)
(* The indices of the ring wrap around, so the first argument is about the *)
(* place of the i-th event waiting: pushing fills the place after the last *)
(* and disturbs none of the others, taking moves each event one nearer.    *)
(* The other two are about the bytes sent so far: which of them spell      *)
(* which stroke, how many the decoder has used up, and what its flags are  *)
(* after the strokes these bytes spell.                                    *)
(***************************************************************************)
EXTENDS Keyboard, FiniteSetTheorems, TLAPS

K == KEY_BUF_SIZE
Slots == [0 .. K - 1 -> Event \cup {NoEvent}]

RingOK ==
  /\ s_head \in 0 .. K - 1 /\ s_tail \in 0 .. K - 1
  /\ s_key_buf \in Slots
  /\ decoded \in Seq(Event)

DecoderOK ==
  /\ wire \in Seq(Byte) /\ obf \in Byte \cup {NoByte}
  /\ s_shift \in BOOLEAN /\ s_ctrl \in BOOLEAN /\ s_alt \in BOOLEAN /\ s_caps_lock \in BOOLEAN

QueueInv == RingOK /\ DecoderOK

-----------------------------------------------------------------------------
(* The ring.                                                               *)

\* Indices wrap around once.
LEMMA Wraps ==
  ASSUME NEW n \in Nat \ {0}, NEW x \in 0 .. 2 * n - 1
  PROVE  x % n = IF x < n THEN x ELSE x - n
<1>1. CASE x \in 0 .. n - 1
  BY <1>1
<1>2. CASE x \in n .. 2 * n - 1
  BY <1>2
<1> QED
  BY <1>1, <1>2

Waiting(h, t) == IF h >= t THEN h - t ELSE h - t + K
Wrap(x) == IF x < K THEN x ELSE x - K
Place(t, i) == Wrap(t + i - 1)
After(p) == IF p + 1 = K THEN 0 ELSE p + 1

\* The events waiting, without remainders.
LEMMA RingForm ==
  ASSUME NEW h \in 0 .. K - 1, NEW t \in 0 .. K - 1
  PROVE  /\ (h - t + K) % K = Waiting(h, t) /\ Waiting(h, t) \in 0 .. K - 1
         /\ (h + 1) % K = After(h) /\ After(h) \in 0 .. K - 1
         /\ \A i \in 1 .. Waiting(h, t) : (t + i - 1) % K = Place(t, i) /\ Place(t, i) \in 0 .. K - 1
<1>1. K \in Nat \ {0, 1}
  BY RingAssumption, Zenon DEF K
<1> HIDE DEF K
<1>2. \A x \in 0 .. 2 * K - 1 : x % K = IF x < K THEN x ELSE x - K
  BY <1>1, Wraps, Zenon
<1>3. (h - t + K) % K = Waiting(h, t) /\ Waiting(h, t) \in 0 .. K - 1
  <2> DEFINE x == h - t + K
  <2>1. x \in 0 .. 2 * K - 1 /\ Waiting(h, t) = (IF x < K THEN x ELSE x - K)
    BY <1>1 DEF Waiting
  <2>2. Waiting(h, t) \in 0 .. K - 1
    BY <1>1 DEF Waiting
  <2> HIDE DEF x
  <2>3. x % K = Waiting(h, t)
    BY <1>2, <2>1, Zenon
  <2> QED
    BY <2>2, <2>3, Zenon DEF x
<1>4. (h + 1) % K = After(h) /\ After(h) \in 0 .. K - 1
  <2> DEFINE x == h + 1
  <2>1. x \in 0 .. 2 * K - 1 /\ After(h) = (IF x < K THEN x ELSE x - K)
    BY <1>1 DEF After
  <2>2. After(h) \in 0 .. K - 1
    BY <1>1 DEF After
  <2> HIDE DEF x
  <2>3. x % K = After(h)
    BY <1>2, <2>1, Zenon
  <2> QED
    BY <2>2, <2>3, Zenon DEF x
<1>5. ASSUME NEW i \in 1 .. Waiting(h, t)
      PROVE  (t + i - 1) % K = Place(t, i) /\ Place(t, i) \in 0 .. K - 1
  <2> DEFINE x == t + i - 1
  <2>0. Waiting(h, t) \in 0 .. K - 1
    BY <1>3, Zenon
  <2>1. x \in 0 .. 2 * K - 1
    <3> DEFINE w == Waiting(h, t)
    <3>1. w \in 0 .. K - 1 /\ i \in 1 .. w
      BY <2>0, Zenon
    <3> HIDE DEF w
    <3> QED
      BY <1>1, <3>1
  <2>2. Place(t, i) = Wrap(x)
    BY Zenon DEF Place
  <2> HIDE DEF x
  <2>3. x % K = Place(t, i)
    BY <1>2, <2>1, <2>2, Zenon DEF Wrap
  <2>4. Place(t, i) \in 0 .. K - 1
    BY <1>1, <2>1, <2>2 DEF Wrap
  <2> QED
    BY <2>3, <2>4, Zenon DEF x
<1> QED
  BY <1>3, <1>4, <1>5, Zenon

\* Pushing: the places waiting are followed by the head, and the head is none of them.
LEMMA PushPlaces ==
  ASSUME NEW h \in 0 .. K - 1, NEW t \in 0 .. K - 1
  PROVE  /\ After(h) # t <=> Waiting(h, t) < K - 1
         /\ After(h) # t => /\ Waiting(After(h), t) = Waiting(h, t) + 1
                            /\ Place(t, Waiting(h, t) + 1) = h
         /\ \A i \in 1 .. Waiting(h, t) : Place(t, i) # h
<1>1. K \in Nat \ {0, 1}
  BY RingAssumption, Zenon DEF K
<1> HIDE DEF K
<1> QED
  BY <1>1 DEF After, Waiting, Place, Wrap

\* Taking: what was the second place is the first.
LEMMA TakePlaces ==
  ASSUME NEW h \in 0 .. K - 1, NEW t \in 0 .. K - 1, h # t
  PROVE  /\ Waiting(h, After(t)) = Waiting(h, t) - 1 /\ Waiting(h, t) > 0
         /\ Place(t, 1) = t
         /\ \A i \in 1 .. Waiting(h, t) - 1 : Place(After(t), i) = Place(t, i + 1)
<1>1. K \in Nat \ {0, 1}
  BY RingAssumption, Zenon DEF K
<1> HIDE DEF K
<1> QED
  BY <1>1 DEF After, Waiting, Place, Wrap

RingSeq(buf, h, t) == [i \in 1 .. (h - t + K) % K |-> buf[(t + i - 1) % K]]

\* The events waiting, by their places.
LEMMA RingIs ==
  ASSUME NEW h \in 0 .. K - 1, NEW t \in 0 .. K - 1, NEW buf \in Slots
  PROVE  /\ RingSeq(buf, h, t) = [i \in 1 .. Waiting(h, t) |-> buf[Place(t, i)]]
         /\ RingSeq(buf, h, t) \in Seq(Event \cup {NoEvent})
         /\ Len(RingSeq(buf, h, t)) = Waiting(h, t)
<1> DEFINE n == Waiting(h, t)
           seq == RingSeq(buf, h, t)
<1>1. /\ (h - t + K) % K = n /\ n \in 0 .. K - 1
      /\ \A i \in 1 .. n : (t + i - 1) % K = Place(t, i) /\ Place(t, i) \in 0 .. K - 1
  BY RingForm, Zenon
<1>2. n \in Nat
  BY <1>1, RingAssumption DEF K
<1>3. seq = [i \in 1 .. n |-> buf[Place(t, i)]]
  <2> HIDE DEF n, K
  <2> QED
    BY <1>1, Zenon DEF RingSeq
<1>4. \A i \in 1 .. n : buf[Place(t, i)] \in Event \cup {NoEvent}
  BY <1>1, Zenon DEF Slots
<1> HIDE DEF n, seq
<1>5. seq \in Seq(Event \cup {NoEvent}) /\ Len(seq) = n
  BY <1>2, <1>3, <1>4
<1> QED
  BY <1>3, <1>5, Zenon DEF n, seq

\* push_event is Offer.
LEMMA PushIsOffer ==
  ASSUME RingOK, NEW ev \in Event, push_event(ev), s_tail' = s_tail, polled' = polled
  PROVE  RingOK' /\ Queue!Offer(ev) /\ decoded' # decoded
<1> DEFINE n == Waiting(s_head, s_tail)
<1>1. s_head \in 0 .. K - 1 /\ s_tail \in 0 .. K - 1
  BY Zenon DEF RingOK
<1>2. (s_head + 1) % KEY_BUF_SIZE = After(s_head) /\ After(s_head) \in 0 .. K - 1 /\ n \in 0 .. K - 1
  BY <1>1, RingForm, Zenon DEF K
<1>3. /\ After(s_head) # s_tail <=> n < K - 1
      /\ After(s_head) # s_tail => /\ Waiting(After(s_head), s_tail) = n + 1
                                   /\ Place(s_tail, n + 1) = s_head
      /\ \A i \in 1 .. n : Place(s_tail, i) # s_head
  BY <1>1, PushPlaces, Zenon
<1>4. /\ InRing = [i \in 1 .. n |-> s_key_buf[Place(s_tail, i)]]
      /\ Len(InRing) = n
  <2>1. InRing = RingSeq(s_key_buf, s_head, s_tail)
    BY Zenon DEF InRing, RingSeq, K
  <2>2. s_key_buf \in Slots
    BY Zenon DEF RingOK
  <2> QED
    BY <1>1, <2>1, <2>2, RingIs, Zenon
<1>5. decoded' = Append(decoded, ev) /\ decoded' \in Seq(Event) /\ decoded' # decoded
  <2>1. decoded' = Append(decoded, ev) /\ decoded \in Seq(Event)
    BY Zenon DEF push_event, RingOK
  <2> QED
    BY <2>1
<1>6. CASE After(s_head) # s_tail
  <2>1. s_key_buf' = [s_key_buf EXCEPT ![s_head] = ev] /\ s_head' = After(s_head)
    BY <1>2, <1>6, Zenon DEF push_event
  <2>2. RingOK'
    BY <1>1, <1>2, <1>5, <2>1, Zenon DEF RingOK, Slots
  <2>3. InRing' = [i \in 1 .. n + 1 |-> s_key_buf'[Place(s_tail, i)]]
    <3>1. /\ s_head' \in 0 .. K - 1 /\ s_tail' \in 0 .. K - 1
          /\ s_key_buf' \in Slots
      BY <2>2, Zenon DEF RingOK
    <3>2. InRing' = [i \in 1 .. Waiting(s_head', s_tail') |-> s_key_buf'[Place(s_tail', i)]]
      <4>1. InRing' = RingSeq(s_key_buf', s_head', s_tail')
        BY Zenon DEF InRing, RingSeq, K
      <4> QED
        BY <3>1, <4>1, RingIs
    <3> QED
      BY <1>3, <1>6, <2>1, <3>2
  <2>4. s_key_buf'[s_head] = ev /\ \A i \in 1 .. n : s_key_buf'[Place(s_tail, i)] = s_key_buf[Place(s_tail, i)]
    <3>1. \A i \in 1 .. n : Place(s_tail, i) \in 0 .. K - 1
      BY <1>1, RingForm, Zenon
    <3> QED
      BY <1>1, <1>3, <2>1, <3>1, Zenon DEF RingOK, Slots
  <2>5. InRing' = Append(InRing, ev)
    <3>1. n \in Nat
      BY <1>2, RingAssumption DEF K
    <3> HIDE DEF n
    <3> QED
      BY <1>3, <1>4, <1>6, <2>3, <2>4, <3>1
  <2>6. Len(InRing) < KEY_BUF_SIZE - 1
    BY <1>3, <1>4, <1>6, Zenon DEF K
  <2> QED
    BY <1>5, <2>2, <2>5, <2>6, Zenon DEF Queue!Offer
<1>7. CASE After(s_head) = s_tail
  <2>1. s_key_buf' = s_key_buf /\ s_head' = s_head
    BY <1>2, <1>7, Zenon DEF push_event
  <2>2. RingOK' /\ InRing' = InRing
    BY <1>5, <2>1, Zenon DEF RingOK, InRing
  <2>3. ~(Len(InRing) < KEY_BUF_SIZE - 1)
    BY <1>3, <1>4, <1>7, Zenon DEF K
  <2> QED
    BY <1>5, <2>2, <2>3, Zenon DEF Queue!Offer
<1> QED
  BY <1>6, <1>7, Zenon

\* poll is Take.
LEMMA PollIsTake == RingOK /\ poll => RingOK' /\ Queue!Take
<1> SUFFICES ASSUME RingOK, poll PROVE RingOK' /\ Queue!Take
  BY Zenon
<1> DEFINE n == Waiting(s_head, s_tail)
<1>1. s_head \in 0 .. K - 1 /\ s_tail \in 0 .. K - 1 /\ s_key_buf \in Slots
  BY Zenon DEF RingOK
<1>2. /\ s_head # s_tail /\ s_head' = s_head /\ s_key_buf' = s_key_buf /\ decoded' = decoded
      /\ s_tail' = (s_tail + 1) % K /\ polled' = Append(polled, s_key_buf[s_tail])
  BY Zenon DEF poll, K
<1>3. s_tail' = After(s_tail) /\ After(s_tail) \in 0 .. K - 1
  BY <1>1, <1>2, RingForm, Zenon
<1>4. RingOK'
  BY <1>1, <1>2, <1>3, Zenon DEF RingOK
<1>5. /\ Waiting(s_head, After(s_tail)) = n - 1 /\ n > 0
      /\ Place(s_tail, 1) = s_tail
      /\ \A i \in 1 .. n - 1 : Place(After(s_tail), i) = Place(s_tail, i + 1)
  BY <1>1, <1>2, TakePlaces, Zenon
<1>6. /\ InRing = [i \in 1 .. n |-> s_key_buf[Place(s_tail, i)]]
      /\ InRing \in Seq(Event \cup {NoEvent}) /\ Len(InRing) = n
  <2>1. InRing = RingSeq(s_key_buf, s_head, s_tail)
    BY Zenon DEF InRing, RingSeq, K
  <2> QED
    BY <1>1, <2>1, RingIs, Zenon
<1>7. InRing' = [i \in 1 .. n - 1 |-> s_key_buf[Place(After(s_tail), i)]]
  <2>1. InRing' = RingSeq(s_key_buf, s_head, After(s_tail))
    BY <1>2, <1>3, Zenon DEF InRing, RingSeq, K
  <2>2. InRing' = [i \in 1 .. Waiting(s_head, After(s_tail)) |-> s_key_buf[Place(After(s_tail), i)]]
    BY <1>1, <1>3, <2>1, RingIs, ZenonT(20)
  <2> QED
    BY <1>5, <2>2, Zenon
<1>8. n \in Nat
  BY <1>1, RingForm, RingAssumption DEF K
<1> HIDE DEF n
<1>9. InRing # << >> /\ Head(InRing) = s_key_buf[s_tail]
  BY <1>5, <1>6, <1>8
<1>10. InRing' = Tail(InRing)
  BY <1>5, <1>6, <1>7, <1>8
<1> QED
  BY <1>2, <1>4, <1>9, <1>10, Zenon DEF Queue!Take

-----------------------------------------------------------------------------
(* The decoder.                                                            *)

\* Whatever the byte, a whole code makes one event.
LEMMA KeyEvent ==
  ASSUME QueueInv, NEW raw \in Byte, NEW ext \in BOOLEAN, NEW pressed \in BOOLEAN,
         key_event(raw, ext, pressed), s_tail' = s_tail, polled' = polled
  PROVE  /\ RingOK' /\ decoded' # decoded /\ \E ev \in Event : Queue!Offer(ev)
         /\ s_shift' \in BOOLEAN /\ s_ctrl' \in BOOLEAN /\ s_alt' \in BOOLEAN /\ s_caps_lock' \in BOOLEAN
<1> DEFINE ev == EventOf([base |-> raw, ext |-> ext], pressed, s_shift', s_ctrl', s_alt', s_caps_lock')
<1>1. s_shift' \in BOOLEAN /\ s_ctrl' \in BOOLEAN /\ s_alt' \in BOOLEAN /\ s_caps_lock' \in BOOLEAN
  BY Zenon DEF key_event, QueueInv, DecoderOK
<1>2. ev \in Event
  <2> DEFINE k == [base |-> raw, ext |-> ext]
             m == << pressed, s_shift', s_ctrl', s_alt', s_caps_lock' >>
  <2>1. k \in [base : Byte, ext : BOOLEAN]
    BY Zenon
  <2>2. m \in [1 .. 5 -> BOOLEAN]
    BY <1>1
  <2>3. ev = EventOf(k, m[1], m[2], m[3], m[4], m[5])
    BY Zenon
  <2> HIDE DEF k, m, ev
  <2> QED
    BY <2>1, <2>2, <2>3 DEF Event
<1>3. push_event(ev)
  BY Zenon DEF key_event, EventOf
<1> HIDE DEF ev
<1> QED
  BY <1>1, <1>2, <1>3, PushIsOffer, Zenon DEF QueueInv

\* A byte is a prefix or completes a code.
LEMMA Decode ==
  ASSUME QueueInv, obf \in Byte, decode_and_push(obf), s_tail' = s_tail, polled' = polled,
         wire' = wire, obf' = NoByte
  PROVE  QueueInv' /\ [Queue!Next]_<< decoded, InRing, polled >>
<1>1. CASE \E state : Prefix(state)
  <2>1. UNCHANGED << s_shift, s_ctrl, s_alt, s_caps_lock, s_key_buf, s_head, decoded >>
    BY <1>1, Zenon DEF Prefix, flags
  <2>2. InRing' = InRing
    BY <2>1, Zenon DEF InRing
  <2>3. QueueInv'
    BY <2>1, Zenon DEF QueueInv, RingOK, DecoderOK
  <2> QED
    BY <2>1, <2>2, <2>3, Zenon
<1>2. CASE \E ext, pressed \in BOOLEAN : key_event(obf, ext, pressed)
  <2>1. /\ RingOK' /\ decoded' # decoded /\ \E ev \in Event : Queue!Offer(ev)
        /\ s_shift' \in BOOLEAN /\ s_ctrl' \in BOOLEAN /\ s_alt' \in BOOLEAN /\ s_caps_lock' \in BOOLEAN
    BY <1>2, KeyEvent, Zenon
  <2>2. DecoderOK'
    BY <2>1, Zenon DEF QueueInv, DecoderOK
  <2> QED
    BY <2>1, <2>2, Zenon DEF QueueInv, Queue!Next
<1>3. (\E state : Prefix(state)) \/ \E ext, pressed \in BOOLEAN : key_event(obf, ext, pressed)
  <2> DEFINE e == s_state \in {"GOT_E0", "GOT_E0_F0"}
             p == s_state \in {"NORMAL", "GOT_E0"}
  <2>1. e \in BOOLEAN /\ p \in BOOLEAN
    OBVIOUS
  <2>2. Prefix("GOT_E0") \/ Prefix("GOT_F0") \/ Prefix("GOT_E0_F0") \/ key_event(obf, e, p)
    BY Zenon DEF decode_and_push
  <2> HIDE DEF e, p
  <2> QED
    BY <2>1, <2>2, Zenon
<1> QED
  BY <1>1, <1>2, <1>3, Zenon

\* The bytes of a key.
LEMMA Codes ==
  ASSUME NEW k \in Keys PROVE MakeCode(k) \in Seq(Byte) /\ BreakCode(k) \in Seq(Byte)
<1>1. k.base \in Byte /\ "E0" \in Byte /\ "F0" \in Byte
  BY Zenon DEF Byte
<1> QED
  BY <1>1 DEF MakeCode, BreakCode

-----------------------------------------------------------------------------
(* The steps.                                                              *)

queueVars == << decoded, InRing, polled >>

\* A step that leaves the decoder and the ring alone.
LEMMA Elsewhere ==
  ASSUME QueueInv, UNCHANGED << flags, ring, decoded, polled >>,
         wire' \in Seq(Byte), obf' \in Byte \cup {NoByte}
  PROVE  QueueInv' /\ UNCHANGED queueVars
  BY Zenon DEF QueueInv, RingOK, DecoderOK, flags, ring, queueVars, InRing

\* Every step keeps the invariant and is a step of the queue.
LEMMA StepInv == QueueInv /\ [Next]_vars => QueueInv' /\ [Queue!Next]_queueVars
<1> SUFFICES ASSUME QueueInv, [Next]_vars PROVE QueueInv' /\ [Queue!Next]_queueVars
  BY Zenon
<1>0. wire \in Seq(Byte) /\ obf \in Byte \cup {NoByte}
  BY Zenon DEF QueueInv, DecoderOK
<1>1. CASE UNCHANGED vars
  BY <1>0, <1>1, Elsewhere, Zenon DEF vars, flags, ring
<1>2. CASE \E k \in Keys : Press(k) \/ LetGo(k)
  <2>1. PICK k \in Keys : Press(k) \/ LetGo(k)
    BY <1>2, Zenon
  <2>2. wire' \in Seq(Byte)
    <3>1. PICK code \in Seq(Byte) : wire' = wire \o code
      BY <2>1, Codes, Zenon DEF Press, LetGo
    <3> QED
      BY <1>0, <3>1
  <2>3. obf' = obf /\ UNCHANGED << flags, ring, decoded, polled >>
    BY <2>1, Zenon DEF Press, LetGo, taken
  <2> QED
    BY <1>0, <2>2, <2>3, Elsewhere, Zenon
<1>3. CASE Transfer
  <2>1. wire' \in Seq(Byte) /\ obf' \in Byte
    BY <1>0, <1>3 DEF Transfer
  <2>2. UNCHANGED << flags, ring, decoded, polled >>
    BY <1>3, Zenon DEF Transfer, taken
  <2> QED
    BY <2>1, <2>2, Elsewhere, Zenon
<1>4. CASE irqHandler
  <2>1. CASE obf = NoByte
    BY <1>0, <1>4, <2>1, Elsewhere, Zenon DEF irqHandler, flags, ring, taken
  <2>2. CASE obf # NoByte
    BY <1>0, <1>4, <2>2, Decode, Zenon DEF irqHandler, taken, queueVars
  <2> QED
    BY <2>1, <2>2, Zenon
<1>5. CASE \E count \in Counts : sys_read(count)
  BY <1>0, <1>5, Elsewhere, Zenon DEF sys_read, device
<1>6. CASE PollPort
  BY <1>0, <1>6, Decode, Zenon DEF PollPort, taken, queueVars
<1>7. CASE poll
  <2>1. RingOK' /\ Queue!Take
    BY <1>7, PollIsTake, Zenon DEF QueueInv
  <2>2. DecoderOK'
    BY <1>7, Zenon DEF poll, device, flags, QueueInv, DecoderOK
  <2> QED
    BY <2>1, <2>2, Zenon DEF QueueInv, Queue!Next
<1> QED
  BY <1>1, <1>2, <1>3, <1>4, <1>5, <1>6, <1>7, Zenon DEF Next

\* At the start the ring is empty.
LEMMA InitInv == Init => QueueInv /\ Queue!Init
<1> SUFFICES ASSUME Init PROVE QueueInv /\ Queue!Init
  BY Zenon
<1>1. K \in Nat \ {0, 1}
  BY RingAssumption, Zenon DEF K
<1>2. RingOK
  BY <1>1 DEF Init, RingOK, Slots, K
<1>3. DecoderOK
  <2>1. wire \in Seq(Byte) /\ obf \in Byte \cup {NoByte}
    BY DEF Init
  <2>2. s_shift \in BOOLEAN /\ s_ctrl \in BOOLEAN /\ s_alt \in BOOLEAN /\ s_caps_lock \in BOOLEAN
    BY Zenon DEF Init
  <2> QED
    BY <2>1, <2>2, Zenon DEF DecoderOK
<1>4. InRing = << >>
  <2>1. InRing = RingSeq(s_key_buf, 0, 0)
    BY DEF Init, InRing, RingSeq, K
  <2>2. Len(InRing) = 0 /\ InRing \in Seq(Event \cup {NoEvent})
    <3>1. 0 \in 0 .. K - 1 /\ s_key_buf \in Slots
      BY <1>1, <1>2 DEF RingOK
    <3>2. Waiting(0, 0) = 0
      BY <1>1 DEF Waiting
    <3> QED
      BY <2>1, <3>1, <3>2, RingIs, ZenonT(60)
  <2> QED
    BY <2>2
<1> QED
  BY <1>2, <1>3, <1>4, Zenon DEF Init, QueueInv, Queue!Init

\* push_event and poll implement the queue of EventQueue for every size of the ring:
\* events leave in the order they were made, none is overwritten, and one is turned
\* away only when all places but one are taken.
THEOREM RingImplementsQueue == Spec => QueueSpec
<1> QED
  BY InitInv, StepInv, PTL DEF Spec, QueueSpec, Queue!Spec, queueVars

-----------------------------------------------------------------------------
(* The bytes of the keys and the decoder's place in them.                  *)
(*                                                                         *)
(* bytes is everything the keyboard ever sent and ends[i] the length of    *)
(* the codes of the first i presses and releases.  The decoder has used up *)
(* the first `used` bytes: whole codes, one for each event, and the prefix *)
(* of the next that s_state stands for.  The other bytes are in the output *)
(* buffer and on the wire.                                                 *)

Stroke == [key : Keys, pressed : BOOLEAN]
Code(e) == IF e.pressed THEN MakeCode(e.key) ELSE BreakCode(e.key)

\* The state of the decoder after the first n bytes of a code.
StateAfter(code, n) ==
  IF n = 0 THEN "NORMAL"
  ELSE IF n = 2 THEN "GOT_E0_F0"
  ELSE IF code[1] = "E0" THEN "GOT_E0" ELSE "GOT_F0"

Ends(ends, strokes) ==
  /\ ends \in [0 .. Len(strokes) -> Nat]
  /\ \A i \in 1 .. Len(strokes) : ends[i] = ends[i - 1] + Len(Code(strokes[i]))
  /\ \A i \in 0 .. Len(strokes) : ends[i] <= ends[Len(strokes)]

Spells(bytes, ends, strokes) ==
  /\ bytes \in Seq(Byte) /\ Len(bytes) = ends[Len(strokes)]
  /\ \A i \in 1 .. Len(strokes) : \A j \in 1 .. Len(Code(strokes[i])) :
       bytes[ends[i - 1] + j] = Code(strokes[i])[j]

Remain(bytes, used, queue) ==
  /\ used + Len(queue) = Len(bytes)
  /\ \A x \in 1 .. Len(queue) : queue[x] = bytes[used + x]

Within(ends, used, strokes, events, state) ==
  /\ events \in 0 .. Len(strokes)
  /\ events = Len(strokes) => used = ends[events] /\ state = "NORMAL"
  /\ events < Len(strokes) =>
       /\ used - ends[events] \in 0 .. Len(Code(strokes[events + 1])) - 1
       /\ state = StateAfter(Code(strokes[events + 1]), used - ends[events])

Stream(strokes, events, state, held, queue) ==
  \E bytes, ends : \E used \in Nat :
    /\ Ends(ends, strokes) /\ Spells(bytes, ends, strokes)
    /\ Within(ends, used, strokes, events, state)
    /\ held = NoByte => Remain(bytes, used, queue)
    /\ held # NoByte => /\ used < Len(bytes) /\ held = bytes[used + 1]
                        /\ Remain(bytes, used + 1, queue)

\* A code has one to three bytes.
LEMMA CodeLength ==
  ASSUME NEW e \in Stroke
  PROVE  Code(e) \in Seq(Byte) /\ Len(Code(e)) \in 1 .. 3
<1>1. e.key \in Keys
  BY Zenon DEF Stroke
<1>2. Code(e) \in Seq(Byte)
  BY <1>1, Codes, Zenon DEF Code
<1>3. Len(Code(e)) \in 1 .. 3
  BY DEF Code, MakeCode, BreakCode
<1> QED
  BY <1>2, <1>3, Zenon

\* What a concatenation is, by its elements.
Concat(both, front, back) ==
  /\ both \in Seq(Byte) /\ Len(both) = Len(front) + Len(back)
  /\ \A x \in 1 .. Len(front) : both[x] = front[x]
  /\ \A x \in 1 .. Len(back) : both[Len(front) + x] = back[x]

\* What a sequence with one more element is, by its elements.
Longer(more, strokes, e) ==
  /\ more \in Seq(Stroke) /\ Len(more) = Len(strokes) + 1 /\ more[Len(strokes) + 1] = e
  /\ \A i \in 1 .. Len(strokes) : more[i] = strokes[i]

\* Sequences put together are such a concatenation.
LEMMA Joined ==
  ASSUME NEW front \in Seq(Byte), NEW back \in Seq(Byte), NEW both, both = front \o back
  PROVE  Concat(both, front, back)
  BY DEF Concat

\* At the start nothing was sent.
LEMMA StreamEmpty == Stream(<< >>, 0, "NORMAL", NoByte, << >>)
<1> DEFINE ends == [i \in 0 .. 0 |-> 0]
<1>1. Ends(ends, << >>)
  BY DEF Ends
<1>2. Spells(<< >>, ends, << >>)
  BY DEF Spells
<1>3. Within(ends, 0, << >>, 0, "NORMAL")
  BY DEF Within
<1>4. Remain(<< >>, 0, << >>)
  BY DEF Remain
<1> HIDE DEF ends
<1> QED
  BY <1>1, <1>2, <1>3, <1>4, Zenon DEF Stream

\* A key adds its code behind all others.
LEMMA StreamSent ==
  ASSUME NEW strokes \in Seq(Stroke), NEW events, NEW state, NEW held, NEW queue \in Seq(Byte),
         Stream(strokes, events, state, held, queue), NEW e \in Stroke,
         NEW more, Longer(more, strokes, e),
         NEW code, code = Code(e), NEW longer, Concat(longer, queue, code)
  PROVE  Stream(more, events, state, held, longer)
<1> DEFINE n == Len(strokes)
           m == Len(code)
<1>1. PICK bytes, ends : \E used \in Nat :
    /\ Ends(ends, strokes) /\ Spells(bytes, ends, strokes)
    /\ Within(ends, used, strokes, events, state)
    /\ held = NoByte => Remain(bytes, used, queue)
    /\ held # NoByte => /\ used < Len(bytes) /\ held = bytes[used + 1]
                        /\ Remain(bytes, used + 1, queue)
  BY Zenon DEF Stream
<1>2. PICK used \in Nat :
    /\ Ends(ends, strokes) /\ Spells(bytes, ends, strokes)
    /\ Within(ends, used, strokes, events, state)
    /\ held = NoByte => Remain(bytes, used, queue)
    /\ held # NoByte => /\ used < Len(bytes) /\ held = bytes[used + 1]
                        /\ Remain(bytes, used + 1, queue)
  BY <1>1, Zenon
<1>3. code \in Seq(Byte) /\ m \in 1 .. 3
  BY CodeLength, Zenon
<1>4. /\ n \in Nat /\ Len(more) = n + 1 /\ more[n + 1] = e
      /\ \A i \in 1 .. n : more[i] = strokes[i]
  <2>1. n \in Nat
    OBVIOUS
  <2> QED
    BY <2>1, Zenon DEF Longer
<1> DEFINE grown == [i \in 0 .. n + 1 |-> IF i = n + 1 THEN ends[n] + m ELSE ends[i]]
<1>5. ends[n] \in Nat /\ \A i \in 0 .. n : ends[i] \in Nat /\ ends[i] <= ends[n]
  <2>1. \A i \in 0 .. n : ends[i] \in Nat /\ ends[i] <= ends[n]
    BY <1>2, Zenon DEF Ends
  <2>2. n \in 0 .. n
    BY <1>4
  <2> QED
    BY <2>1, <2>2, Zenon
<1>6. Ends(grown, more)
  <2>1. \A i \in 0 .. n : grown[i] = ends[i]
    BY <1>4
  <2>2. grown[n + 1] = ends[n] + m /\ grown \in [0 .. n + 1 -> Nat]
    BY <1>3, <1>4, <1>5
  <2>3. \A i \in 1 .. n : ends[i] = ends[i - 1] + Len(Code(strokes[i]))
    BY <1>2, Zenon DEF Ends
  <2> HIDE DEF grown, n, m
  <2>4. ASSUME NEW i \in 1 .. n + 1 PROVE grown[i] = grown[i - 1] + Len(Code(more[i]))
    <3>1. CASE i = n + 1
      BY <1>4, <2>1, <2>2, <3>1 DEF m
    <3>2. CASE i \in 1 .. n
      <4>1. i - 1 \in 0 .. n /\ i \in 0 .. n
        BY <1>4, <3>2
      <4> QED
        BY <1>4, <2>1, <2>3, <3>2, <4>1, Zenon
    <3> QED
      BY <1>4, <3>1, <3>2
  <2>5. ASSUME NEW i \in 0 .. n + 1 PROVE grown[i] <= grown[n + 1]
    <3>1. PICK top : top = ends[n]
      BY Zenon
    <3>2. PICK at : at = grown[i]
      BY Zenon
    <3>3. top \in Nat /\ m \in 1 .. 3 /\ grown[n + 1] = top + m
      BY <1>3, <1>5, <2>2, <3>1, Zenon
    <3>4. at \in Nat /\ at <= top + m
      <4>1. CASE i = n + 1
        BY <3>2, <3>3, <4>1
      <4>2. CASE i \in 0 .. n
        <5>1. at \in Nat /\ at <= top
          BY <1>5, <2>1, <3>1, <3>2, <4>2, Zenon
        <5> QED
          BY <3>3, <5>1
      <4>3. i = n + 1 \/ i \in 0 .. n
        BY <1>4
      <4> QED
        BY <4>1, <4>2, <4>3, Zenon
    <3> QED
      BY <3>2, <3>3, <3>4, Zenon
  <2> QED
    BY <1>4, <2>2, <2>4, <2>5, Zenon DEF Ends
<1>7. bytes \in Seq(Byte) /\ Len(bytes) = ends[n]
  BY <1>2, Zenon DEF Spells
<1>0. PICK all : Concat(all, bytes, code)
  BY <1>3, <1>7, Joined, Zenon
<1>8. /\ all \in Seq(Byte) /\ Len(all) = Len(bytes) + m
      /\ \A x \in 1 .. Len(bytes) : all[x] = bytes[x]
      /\ \A x \in 1 .. m : all[Len(bytes) + x] = code[x]
  BY <1>0, Zenon DEF Concat, m
<1>9. \A i \in 0 .. n : grown[i] = ends[i]
  BY <1>4
<1>10. grown[n + 1] = ends[n] + m
  BY <1>4
<1> HIDE DEF grown, n, m
<1>11. Spells(all, grown, more)
  <2>1. ASSUME NEW i \in 1 .. n, NEW j \in 1 .. Len(Code(strokes[i]))
        PROVE  all[grown[i - 1] + j] = Code(strokes[i])[j]
    <3>1. bytes[ends[i - 1] + j] = Code(strokes[i])[j]
      BY <1>2, Zenon DEF Spells, n
    <3>2. ends[i] = ends[i - 1] + Len(Code(strokes[i]))
      BY <1>2, Zenon DEF Ends, n
    <3>3. i - 1 \in 0 .. n /\ i \in 0 .. n
      BY <1>4
    <3>4. Len(Code(strokes[i])) \in Nat
      <4>1. strokes[i] \in Stroke
        BY DEF n
      <4> QED
        BY <4>1, CodeLength
    <3>5. ends[i - 1] + j \in 1 .. Len(bytes)
      <4>1. PICK a, b, l, top : a = ends[i - 1] /\ b = ends[i] /\ l = Len(Code(strokes[i])) /\ top = ends[n]
        BY Zenon
      <4>2. /\ a \in Nat /\ b \in Nat /\ l \in Nat /\ top \in Nat /\ b = a + l /\ b <= top
            /\ j \in 1 .. l /\ Len(bytes) = top
        BY <1>5, <1>7, <3>2, <3>3, <3>4, <4>1, Zenon
      <4>3. a + j \in 1 .. top
        BY <4>2
      <4> QED
        BY <4>1, <4>2, <4>3, Zenon
    <3> QED
      BY <1>8, <1>9, <3>1, <3>3, <3>5, Zenon
  <2>2. ASSUME NEW j \in 1 .. m PROVE all[grown[n] + j] = code[j]
    <3>1. n \in 0 .. n
      BY <1>4
    <3> QED
      BY <1>7, <1>8, <1>9, <3>1, Zenon
  <2>3. ASSUME NEW i \in 1 .. n + 1, NEW j \in 1 .. Len(Code(more[i]))
        PROVE  all[grown[i - 1] + j] = Code(more[i])[j]
    <3>1. CASE i \in 1 .. n
      BY <1>4, <2>1, <3>1, Zenon
    <3>2. CASE i = n + 1
      <4>1. i - 1 = n
        BY <1>4, <3>2
      <4> QED
        BY <1>4, <2>2, <3>2, <4>1, Zenon DEF m
    <3> QED
      BY <1>4, <3>1, <3>2
  <2>4. Len(all) = grown[n + 1]
    BY <1>7, <1>8, <1>10, Zenon
  <2> QED
    BY <1>4, <1>8, <2>3, <2>4, Zenon DEF Spells
<1>12. Within(grown, used, more, events, state)
  <2>1. events \in 0 .. n /\ grown[events] = ends[events]
    BY <1>2, <1>9, Zenon DEF Within, n
  <2>2. events \in 0 .. n + 1 /\ events # n + 1
    BY <1>4, <2>1
  <2>3. /\ used - grown[events] \in 0 .. Len(Code(more[events + 1])) - 1
        /\ state = StateAfter(Code(more[events + 1]), used - grown[events])
    <3>1. CASE events < n
      <4>1. events + 1 \in 1 .. n
        BY <1>4, <2>1, <3>1
      <4> QED
        BY <1>2, <1>4, <2>1, <3>1, <4>1, Zenon DEF Within, n
    <3>2. CASE events = n
      <4>1. used = ends[events] /\ state = "NORMAL"
        BY <1>2, <3>2, Zenon DEF Within, n
      <4>2. used - grown[events] = 0
        BY <2>1, <4>1
      <4>3. more[events + 1] = e
        BY <1>4, <3>2, Zenon
      <4>4. 0 \in 0 .. m - 1
        BY <1>3
      <4> QED
        BY <4>1, <4>2, <4>3, <4>4, Zenon DEF StateAfter, m
    <3> QED
      BY <1>4, <2>1, <3>1, <3>2
  <2> QED
    BY <1>4, <2>2, <2>3, Zenon DEF Within
<1>13. ASSUME NEW from \in Nat, Remain(bytes, from, queue) PROVE Remain(all, from, longer)
  <2>1. /\ Len(longer) = Len(queue) + m
        /\ \A x \in 1 .. Len(queue) : longer[x] = queue[x]
        /\ \A x \in 1 .. m : longer[Len(queue) + x] = code[x]
    BY Zenon DEF Concat, m
  <2>2. /\ Len(queue) \in Nat /\ m \in Nat /\ from + Len(queue) = Len(bytes)
        /\ \A x \in 1 .. Len(queue) : queue[x] = bytes[from + x]
    BY <1>3, <1>13 DEF Remain
  <2> DEFINE l == Len(queue)
             b == Len(bytes)
  <2>0. /\ l \in Nat /\ b \in Nat /\ m \in Nat /\ from + l = b
        /\ Len(longer) = l + m /\ Len(all) = b + m
    <3>1. b \in Nat
      BY <1>7
    <3> QED
      BY <1>8, <2>1, <2>2, <3>1, Zenon
  <2> HIDE DEF l, b
  <2>3. from + Len(longer) = Len(all)
    BY <2>0
  <2>4. ASSUME NEW x \in 1 .. Len(longer) PROVE longer[x] = all[from + x]
    <3>1. CASE x \in 1 .. l
      <4>1. from + x \in 1 .. b
        BY <2>0, <3>1
      <4> QED
        BY <1>8, <2>1, <2>2, <3>1, <4>1, Zenon DEF l, b
    <3>2. CASE x \in l + 1 .. l + m
      <4> DEFINE y == x - l
      <4>1. y \in 1 .. m /\ x = l + y /\ from + x = b + y
        BY <2>0, <3>2
      <4> HIDE DEF y
      <4> QED
        BY <1>8, <2>1, <4>1, Zenon DEF l, b
    <3> QED
      BY <2>0, <3>1, <3>2
  <2> QED
    BY <2>3, <2>4, Zenon DEF Remain
<1>14. used < Len(bytes) => used < Len(all) /\ all[used + 1] = bytes[used + 1]
  <2>1. used < Len(bytes) => used + 1 \in 1 .. Len(bytes) /\ used < Len(all)
    <3>1. PICK b : b = Len(bytes)
      BY Zenon
    <3>2. b \in Nat
      BY <1>7, <3>1
    <3>3. m \in 1 .. 3 /\ Len(all) = b + m
      BY <1>3, <1>8, <3>1, Zenon
    <3>4. used < b => used + 1 \in 1 .. b /\ used < b + m
      BY <3>2, <3>3
    <3> QED
      BY <3>1, <3>3, <3>4, Zenon
  <2> QED
    BY <1>8, <2>1, Zenon
<1>15. used + 1 \in Nat
  OBVIOUS
<1> QED
  BY <1>2, <1>6, <1>11, <1>12, <1>13, <1>14, <1>15, Zenon DEF Stream

\* The first element of a sequence and the others.
Split(queue, held, rest) ==
  /\ Len(queue) \in Nat /\ Len(queue) > 0 /\ Len(rest) = Len(queue) - 1 /\ held = queue[1]
  /\ \A x \in 1 .. Len(queue) - 1 : rest[x] = queue[x + 1]

\* Taking the head leaves the other bytes, each one place nearer.
LEMMA HeadAndTail ==
  ASSUME NEW queue \in Seq(Byte), queue # << >>
  PROVE  Split(queue, Head(queue), Tail(queue))
  BY DEF Split

\* The controller takes over the next byte.
LEMMA StreamMoved ==
  ASSUME NEW strokes \in Seq(Stroke), NEW events, NEW state, NEW queue \in Seq(Byte),
         Stream(strokes, events, state, NoByte, queue), NEW rest \in Seq(Byte),
         NEW held, Split(queue, held, rest), held # NoByte
  PROVE  Stream(strokes, events, state, held, rest)
<1>1. PICK bytes, ends : \E used \in Nat :
    /\ Ends(ends, strokes) /\ Spells(bytes, ends, strokes)
    /\ Within(ends, used, strokes, events, state) /\ Remain(bytes, used, queue)
  BY Zenon DEF Stream
<1>2. PICK used \in Nat :
    /\ Ends(ends, strokes) /\ Spells(bytes, ends, strokes)
    /\ Within(ends, used, strokes, events, state) /\ Remain(bytes, used, queue)
  BY <1>1, Zenon
<1> DEFINE n == Len(queue)
           b == Len(bytes)
<1>3. /\ n \in Nat /\ n > 0 /\ Len(rest) = n - 1 /\ held = queue[1]
      /\ \A x \in 1 .. n - 1 : rest[x] = queue[x + 1]
  BY Zenon DEF Split
<1>4. b \in Nat
  BY <1>2 DEF Spells
<1>5. used + n = b /\ \A x \in 1 .. n : queue[x] = bytes[used + x]
  BY <1>2, Zenon DEF Remain
<1> HIDE DEF n, b
<1>6. used < b /\ used + 1 + Len(rest) = b /\ 1 \in 1 .. n
  <2>1. n \in Nat /\ n > 0 /\ b \in Nat /\ used + n = b
    BY <1>3, <1>4, <1>5, Zenon
  <2>2. used < b /\ used + 1 + (n - 1) = b /\ 1 \in 1 .. n
    BY <2>1
  <2> QED
    BY <1>3, <2>2, Zenon
<1>7. ASSUME NEW x \in 1 .. Len(rest) PROVE rest[x] = bytes[used + 1 + x]
  <2>1. x \in 1 .. n - 1 /\ x + 1 \in 1 .. n /\ used + (x + 1) = used + 1 + x
    BY <1>3
  <2> QED
    BY <1>3, <1>5, <2>1, Zenon
<1>8. Remain(bytes, used + 1, rest)
  BY <1>6, <1>7, Zenon DEF Remain, b
<1>9. held = bytes[used + 1]
  BY <1>3, <1>5, <1>6, Zenon
<1> QED
  BY <1>2, <1>6, <1>8, <1>9, Zenon DEF Stream, b

\* held is the next byte of the code of the first press or release without an event;
\* either more of the code follow or the event is complete.
NextOfCode(strokes, events, state, held, queue) ==
  LET code == Code(strokes[events + 1])
  IN  /\ events \in 0 .. Len(strokes) - 1
      /\ \E n \in 0 .. Len(code) - 1 :
           /\ held = code[n + 1] /\ state = StateAfter(code, n)
           /\ n + 1 < Len(code) => Stream(strokes, events, StateAfter(code, n + 1), NoByte, queue)
           /\ n + 1 = Len(code) => Stream(strokes, events + 1, "NORMAL", NoByte, queue)

\* The decoder takes the byte.
LEMMA StreamTaken ==
  ASSUME NEW strokes \in Seq(Stroke), NEW events, NEW state, NEW held, NEW queue,
         Stream(strokes, events, state, held, queue), held # NoByte
  PROVE  NextOfCode(strokes, events, state, held, queue)
<1>1. PICK bytes, ends : \E used \in Nat :
    /\ Ends(ends, strokes) /\ Spells(bytes, ends, strokes)
    /\ Within(ends, used, strokes, events, state)
    /\ used < Len(bytes) /\ held = bytes[used + 1] /\ Remain(bytes, used + 1, queue)
  BY Zenon DEF Stream
<1>2. PICK used \in Nat :
    /\ Ends(ends, strokes) /\ Spells(bytes, ends, strokes)
    /\ Within(ends, used, strokes, events, state)
    /\ used < Len(bytes) /\ held = bytes[used + 1] /\ Remain(bytes, used + 1, queue)
  BY <1>1, Zenon
<1> DEFINE s == Len(strokes)
<1>3. s \in Nat
  OBVIOUS
<1>4. /\ events \in 0 .. s /\ Len(bytes) = ends[s]
      /\ events = s => used = ends[events]
      /\ \A i \in 0 .. s : ends[i] \in Nat
  BY <1>2, Zenon DEF Within, Spells, Ends
<1>5. events \in 0 .. s - 1
  <2>1. s \in 0 .. s
    BY <1>3
  <2>2. ends[s] \in Nat
    BY <1>4, <2>1, Zenon
  <2>3. events # s
    <3> SUFFICES ASSUME events = s PROVE FALSE
      BY Zenon
    <3>1. used = ends[s] /\ used < ends[s]
      BY <1>2, <1>4, Zenon
    <3> QED
      BY <2>2, <3>1
  <2> HIDE DEF s
  <2> QED
    BY <1>3, <1>4, <2>3
<1> DEFINE e == strokes[events + 1]
<1>6. PICK code : code = Code(e)
  BY Zenon
<1>7. PICK m : m = Len(code)
  BY Zenon
<1>8. PICK n : n = used - ends[events]
  BY Zenon
<1>9. m \in 1 .. 3
  <2>1. e \in Stroke
    BY <1>3, <1>5
  <2> HIDE DEF e
  <2> QED
    BY <1>6, <1>7, <2>1, CodeLength, Zenon
<1>10. events \in 0 .. s /\ events + 1 \in 1 .. s /\ events + 1 \in 0 .. s /\ events < s
       /\ (events + 1) - 1 = events
  <2> HIDE DEF s
  <2> QED
    BY <1>3, <1>5
<1> HIDE DEF s, e
<1>11. n \in 0 .. m - 1 /\ state = StateAfter(code, n)
  BY <1>2, <1>6, <1>7, <1>8, <1>10, Zenon DEF Within, s, e
<1>12. ends[events] \in Nat /\ ends[events + 1] = ends[events] + m
  BY <1>2, <1>4, <1>6, <1>7, <1>10, Zenon DEF Ends, s, e
<1>13. n + 1 \in 1 .. m /\ used + 1 = ends[events] + (n + 1) /\ (used + 1) - ends[events] = n + 1
  <2>1. PICK z : z = ends[events]
    BY Zenon
  <2>2. z \in Nat /\ n \in 0 .. m - 1 /\ n = used - z /\ m \in 1 .. 3
    BY <1>8, <1>9, <1>11, <1>12, <2>1, Zenon
  <2>3. n + 1 \in 1 .. m /\ used + 1 = z + (n + 1) /\ (used + 1) - z = n + 1
    BY <2>2
  <2> QED
    BY <2>1, <2>3, Zenon
<1>14. held = code[n + 1]
  <2>1. \A j \in 1 .. m : bytes[ends[(events + 1) - 1] + j] = code[j]
    BY <1>2, <1>6, <1>7, <1>10, Zenon DEF Spells, s, e
  <2> QED
    BY <1>2, <1>10, <1>13, <2>1, Zenon
<1>15. ASSUME n + 1 < m PROVE Stream(strokes, events, StateAfter(code, n + 1), NoByte, queue)
  <2>1. n + 1 \in 0 .. m - 1 /\ events # s
    BY <1>3, <1>9, <1>10, <1>11, <1>15
  <2>2. Within(ends, used + 1, strokes, events, StateAfter(code, n + 1))
    BY <1>6, <1>7, <1>10, <1>13, <2>1, Zenon DEF Within, s, e
  <2>3. used + 1 \in Nat
    OBVIOUS
  <2> QED
    BY <1>2, <2>2, <2>3, Zenon DEF Stream
<1>16. ASSUME n + 1 = m PROVE Stream(strokes, events + 1, "NORMAL", NoByte, queue)
  <2>1. used + 1 = ends[events + 1] /\ used + 1 \in Nat
    BY <1>12, <1>13, <1>16
  <2>2. ASSUME events + 1 < s
        PROVE  /\ (used + 1) - ends[events + 1] \in 0 .. Len(Code(strokes[events + 1 + 1])) - 1
               /\ "NORMAL" = StateAfter(Code(strokes[events + 1 + 1]), (used + 1) - ends[events + 1])
    <3>1. (used + 1) - ends[events + 1] = 0
      BY <2>1
    <3>2. PICK l : l = Len(Code(strokes[events + 1 + 1]))
      BY Zenon
    <3>3. l \in 1 .. 3
      <4>1. events + 1 + 1 \in 1 .. s
        BY <1>3, <1>10, <2>2
      <4>2. strokes[events + 1 + 1] \in Stroke
        BY <4>1 DEF s
      <4> QED
        BY <3>2, <4>2, CodeLength, Zenon
    <3>4. 0 \in 0 .. l - 1
      BY <3>3
    <3> QED
      BY <3>1, <3>2, <3>4, Zenon DEF StateAfter
  <2>3. Within(ends, used + 1, strokes, events + 1, "NORMAL")
    BY <1>10, <2>1, <2>2, Zenon DEF Within, s
  <2> QED
    BY <1>2, <2>1, <2>3, Zenon DEF Stream
<1> QED
  BY <1>5, <1>6, <1>7, <1>11, <1>14, <1>15, <1>16, Zenon DEF NextOfCode, s, e

-----------------------------------------------------------------------------
(* The modifiers.                                                          *)

Held(strokes, i, keys) ==
  \E j \in 1 .. i :
    /\ strokes[j].key \in keys /\ strokes[j].pressed
    /\ \A k \in j + 1 .. i : strokes[k].key \notin keys

CapsPresses(strokes, i) == { j \in 1 .. i : strokes[j].key \in CapsKeys /\ strokes[j].pressed }
Caps(strokes, i) == Cardinality(CapsPresses(strokes, i)) % 2 = 1

\* One more press or release: only its own modifier changes.
LEMMA HeldNext ==
  ASSUME NEW strokes, NEW i \in Nat, NEW keys
  PROVE  Held(strokes, i + 1, keys) <=>
           IF strokes[i + 1].key \in keys THEN strokes[i + 1].pressed ELSE Held(strokes, i, keys)
<1>1. i + 1 \in 1 .. i + 1 /\ \A k \in (i + 1) + 1 .. i + 1 : FALSE
  OBVIOUS
<1>2. \A j \in 1 .. i : j \in 1 .. i + 1 /\ i + 1 \in j + 1 .. i + 1
  OBVIOUS
<1>3. \A j \in 1 .. i + 1 : j \in 1 .. i \/ j = i + 1
  OBVIOUS
<1>4. \A j \in 1 .. i : \A k : k \in j + 1 .. i + 1 <=> k \in j + 1 .. i \/ k = i + 1
  OBVIOUS
<1>5. CASE strokes[i + 1].key \in keys
  <2>1. ASSUME Held(strokes, i + 1, keys) PROVE strokes[i + 1].pressed
    BY <1>2, <1>3, <1>5, <2>1, Zenon DEF Held
  <2>2. ASSUME strokes[i + 1].pressed PROVE Held(strokes, i + 1, keys)
    BY <1>1, <1>5, <2>2, Zenon DEF Held
  <2> QED
    BY <1>5, <2>1, <2>2, Zenon
<1>6. CASE strokes[i + 1].key \notin keys
  <2>1. ASSUME Held(strokes, i + 1, keys) PROVE Held(strokes, i, keys)
    BY <1>3, <1>4, <1>6, <2>1, Zenon DEF Held
  <2>2. ASSUME Held(strokes, i, keys) PROVE Held(strokes, i + 1, keys)
    BY <1>2, <1>4, <1>6, <2>2, Zenon DEF Held
  <2> QED
    BY <1>6, <2>1, <2>2, Zenon
<1> QED
  BY <1>5, <1>6, Zenon

\* Caps lock changes with each press of its key.
LEMMA CapsNext ==
  ASSUME NEW strokes, NEW i \in Nat
  PROVE  Caps(strokes, i + 1) <=>
           IF strokes[i + 1].key \in CapsKeys /\ strokes[i + 1].pressed
           THEN ~Caps(strokes, i) ELSE Caps(strokes, i)
<1> DEFINE S == CapsPresses(strokes, i)
           T == CapsPresses(strokes, i + 1)
<1>1. IsFiniteSet(S)
  <2>1. IsFiniteSet(1 .. i)
    BY FS_Interval
  <2>2. S \subseteq 1 .. i
    BY Zenon DEF CapsPresses
  <2> QED
    BY <2>1, <2>2, FS_Subset, Zenon
<1>2. Cardinality(S) \in Nat
  BY <1>1, FS_CardinalityType, Zenon
<1>3. i + 1 \notin 1 .. i /\ \A j : j \in 1 .. i + 1 <=> j \in 1 .. i \/ j = i + 1
  OBVIOUS
<1>4. i + 1 \notin S
  BY <1>3, Zenon DEF CapsPresses
<1>5. CASE strokes[i + 1].key \in CapsKeys /\ strokes[i + 1].pressed
  <2>1. T = S \cup {i + 1}
    BY <1>3, <1>5, Zenon DEF CapsPresses
  <2>2. Cardinality(T) = Cardinality(S) + 1
    BY <1>1, <1>4, <2>1, FS_AddElement, Zenon
  <2> DEFINE c == Cardinality(S)
  <2>3. c \in Nat /\ Cardinality(T) = c + 1
    BY <1>2, <2>2, Zenon
  <2> HIDE DEF c
  <2>4. (c + 1) % 2 = 1 <=> ~(c % 2 = 1)
    BY <2>3
  <2> QED
    BY <1>5, <2>3, <2>4, Zenon DEF Caps, c
<1>6. CASE ~(strokes[i + 1].key \in CapsKeys /\ strokes[i + 1].pressed)
  <2>1. T = S
    BY <1>3, <1>6, Zenon DEF CapsPresses
  <2> QED
    BY <1>6, <2>1, Zenon DEF Caps
<1> QED
  BY <1>5, <1>6, Zenon

\* Later presses and releases change nothing.
LEMMA ModifiersStay ==
  ASSUME NEW strokes, NEW more, NEW i \in Nat, \A j \in 1 .. i : more[j] = strokes[j]
  PROVE  /\ \A keys : Held(more, i, keys) <=> Held(strokes, i, keys)
         /\ Caps(more, i) <=> Caps(strokes, i)
<1>1. \A j \in 1 .. i : \A k \in j + 1 .. i : k \in 1 .. i
  OBVIOUS
<1>2. \A keys : Held(more, i, keys) <=> Held(strokes, i, keys)
  BY <1>1, Zenon DEF Held
<1>3. CapsPresses(more, i) = CapsPresses(strokes, i)
  BY Zenon DEF CapsPresses
<1> QED
  BY <1>2, <1>3, Zenon DEF Caps

\* Before the first of them all are off.
LEMMA ModifiersOff ==
  ASSUME NEW strokes PROVE ~Caps(strokes, 0) /\ \A keys : ~Held(strokes, 0, keys)
<1>1. \A j : j \notin 1 .. 0
  OBVIOUS
<1>2. CapsPresses(strokes, 0) = {}
  BY <1>1, Zenon DEF CapsPresses
<1>3. Cardinality({}) = 0
  BY FS_EmptySet, Zenon
<1>4. 0 % 2 # 1
  OBVIOUS
<1> QED
  BY <1>1, <1>2, <1>3, <1>4, Zenon DEF Caps, Held

-----------------------------------------------------------------------------
(* One event for each press and release.                                   *)

\* What decode_and_push does with byte n + 1 of a code after the first n.
LEMMA NextByte ==
  ASSUME NEW e \in Stroke, NEW n \in 0 .. Len(Code(e)) - 1,
         s_state = StateAfter(Code(e), n), NEW raw, raw = Code(e)[n + 1], decode_and_push(raw)
  PROVE  \/ n + 1 < Len(Code(e)) /\ Prefix(StateAfter(Code(e), n + 1))
         \/ n + 1 = Len(Code(e)) /\ key_event(e.key.base, e.key.ext, e.pressed)
<1> DEFINE k == e.key
           code == Code(e)
           x == s_state \in {"GOT_E0", "GOT_E0_F0"}
           p == s_state \in {"NORMAL", "GOT_E0"}
<1>1. /\ k \in Keys /\ e.pressed \in BOOLEAN
      /\ k.base \notin {"E0", "F0"} /\ k.ext \in BOOLEAN
  BY KeyAssumption, Zenon DEF Stroke
<1>2. ASSUME s_state \in {"NORMAL", "GOT_F0", "GOT_E0", "GOT_E0_F0"}, raw = k.base,
             k.ext <=> x, e.pressed <=> p
      PROVE  key_event(k.base, k.ext, e.pressed)
  <2>1. k.ext = x /\ e.pressed = p
    <3>1. x \in BOOLEAN /\ p \in BOOLEAN
      OBVIOUS
    <3> HIDE DEF x, p
    <3> QED
      BY <1>1, <1>2, <3>1, Zenon
  <2>2. key_event(raw, x, p)
    <3>1. raw # "E0" /\ raw # "F0"
      BY <1>1, <1>2, Zenon
    <3> HIDE DEF x, p
    <3>2. decode_and_push(raw) <=>
            CASE s_state = "NORMAL" /\ raw = "E0" -> Prefix("GOT_E0")
              [] s_state = "NORMAL" /\ raw = "F0" -> Prefix("GOT_F0")
              [] s_state = "GOT_E0" /\ raw = "F0" -> Prefix("GOT_E0_F0")
              [] OTHER -> key_event(raw, x, p)
      BY Zenon DEF decode_and_push, x, p
    <3> QED
      BY <3>1, <3>2, Zenon
  <2> HIDE DEF x, p
  <2> QED
    BY <1>2, <2>1, <2>2, Zenon
<1>3. CASE e.pressed /\ ~k.ext
  <2>1. code = << k.base >>
    BY <1>3, Zenon DEF Code, MakeCode
  <2> HIDE DEF code, k
  <2>2. Len(code) = 1 /\ n = 0 /\ raw = k.base
    BY <2>1 DEF code
  <2>3. s_state = "NORMAL"
    BY <2>2, Zenon DEF StateAfter
  <2>4. n + 1 = Len(code)
    BY <2>2
  <2> QED
    BY <1>2, <1>3, <2>2, <2>3, <2>4, Zenon DEF code, k
<1>4. CASE e.pressed /\ k.ext
  <2>1. code = << "E0", k.base >>
    BY <1>4, Zenon DEF Code, MakeCode
  <2> HIDE DEF code, k
  <2>2. Len(code) = 2 /\ code[1] = "E0" /\ code[2] = k.base /\ n \in {0, 1}
    BY <2>1 DEF code
  <2>3. CASE n = 0
    <3>1. n + 1 = 1 /\ n + 1 < Len(code)
      BY <2>2, <2>3
    <3>2. s_state = "NORMAL" /\ raw = "E0" /\ StateAfter(code, 1) = "GOT_E0"
      BY <2>2, <2>3, <3>1 DEF StateAfter, code
    <3> QED
      BY <3>1, <3>2, Zenon DEF decode_and_push, code
  <2>4. CASE n = 1
    <3>1. n + 1 = 2 /\ n + 1 = Len(code)
      BY <2>2, <2>4
    <3>2. s_state = "GOT_E0" /\ raw = k.base
      BY <2>2, <2>4, <3>1 DEF StateAfter, code
    <3> QED
      BY <1>2, <1>4, <3>1, <3>2, Zenon DEF code, k
  <2> QED
    BY <2>2, <2>3, <2>4, Zenon
<1>5. CASE ~e.pressed /\ ~k.ext
  <2>1. code = << "F0", k.base >>
    BY <1>5, Zenon DEF Code, BreakCode
  <2> HIDE DEF code, k
  <2>2. Len(code) = 2 /\ code[1] = "F0" /\ code[2] = k.base /\ n \in {0, 1}
    BY <2>1 DEF code
  <2>3. CASE n = 0
    <3>1. n + 1 = 1 /\ n + 1 < Len(code)
      BY <2>2, <2>3
    <3>2. s_state = "NORMAL" /\ raw = "F0" /\ StateAfter(code, 1) = "GOT_F0"
      BY <2>2, <2>3, <3>1 DEF StateAfter, code
    <3> QED
      BY <3>1, <3>2, Zenon DEF decode_and_push, code
  <2>4. CASE n = 1
    <3>1. n + 1 = 2 /\ n + 1 = Len(code)
      BY <2>2, <2>4
    <3>2. s_state = "GOT_F0" /\ raw = k.base
      BY <2>2, <2>4, <3>1 DEF StateAfter, code
    <3> QED
      BY <1>2, <1>5, <3>1, <3>2, Zenon DEF code, k
  <2> QED
    BY <2>2, <2>3, <2>4, Zenon
<1>6. CASE ~e.pressed /\ k.ext
  <2>1. code = << "E0", "F0", k.base >>
    BY <1>6, Zenon DEF Code, BreakCode
  <2> HIDE DEF code, k
  <2>2. Len(code) = 3 /\ code[1] = "E0" /\ code[2] = "F0" /\ code[3] = k.base /\ n \in {0, 1, 2}
    BY <2>1 DEF code
  <2>3. CASE n = 0
    <3>1. n + 1 = 1 /\ n + 1 < Len(code)
      BY <2>2, <2>3
    <3>2. s_state = "NORMAL" /\ raw = "E0" /\ StateAfter(code, 1) = "GOT_E0"
      BY <2>2, <2>3, <3>1, Zenon DEF StateAfter, code
    <3> QED
      BY <3>1, <3>2, Zenon DEF decode_and_push, code
  <2>4. CASE n = 1
    <3>1. n + 1 = 2 /\ n + 1 < Len(code)
      BY <2>2, <2>4
    <3>2. s_state = "GOT_E0" /\ raw = "F0" /\ StateAfter(code, 2) = "GOT_E0_F0"
      BY <2>2, <2>4, <3>1 DEF StateAfter, code
    <3> QED
      BY <3>1, <3>2, Zenon DEF decode_and_push, code
  <2>5. CASE n = 2
    <3>1. n + 1 = 3 /\ n + 1 = Len(code)
      BY <2>2, <2>5
    <3>2. s_state = "GOT_E0_F0" /\ raw = k.base
      BY <2>2, <2>5, <3>1 DEF StateAfter, code
    <3> QED
      BY <1>2, <1>6, <3>1, <3>2, Zenon DEF code, k
  <2> QED
    BY <2>2, <2>3, <2>4, <2>5, Zenon
<1> QED
  BY <1>1, <1>3, <1>4, <1>5, <1>6, Zenon

Flags(strokes, i, shift, ctrl, alt, caps_lock) ==
  /\ shift <=> Held(strokes, i, ShiftKeys)
  /\ ctrl <=> Held(strokes, i, CtrlKeys)
  /\ alt <=> Held(strokes, i, AltKeys)
  /\ caps_lock <=> Caps(strokes, i)

\* A key whose last stroke was a press is held.
DownExact ==
  \A j \in 1 .. Len(typed) :
    typed[j].pressed /\ (\A k \in j + 1 .. Len(typed) : typed[k].key # typed[j].key) => typed[j].key \in down

OrderInv ==
  /\ QueueInv
  /\ typed \in Seq(Stroke)
  /\ Stream(typed, Len(decoded), s_state, obf, wire)
  /\ Flags(typed, Len(decoded), s_shift, s_ctrl, s_alt, s_caps_lock)
  /\ DecodesInOrder
  /\ DownExact

\* The event of a stroke, as DecodesInOrder wants it.
Expected(strokes, i) ==
  EventOf(strokes[i].key, strokes[i].pressed, Held(strokes, i, ShiftKeys),
          Held(strokes, i, CtrlKeys), Held(strokes, i, AltKeys), Caps(strokes, i))

Ordered(strokes, events) ==
  /\ Len(events) <= Len(strokes)
  /\ \A i \in 1 .. Len(events) : events[i] = Expected(strokes, i)

\* The invariant in terms of the operators above.
LEMMA OrderForm == /\ DecodesInOrder <=> Ordered(typed, decoded)
                   /\ DecodesInOrder' <=> Ordered(typed', decoded')
  BY Zenon DEF DecodesInOrder, Ordered, Expected, HeldAfter, Held, CapsAfter, Caps, CapsPresses

\* A later stroke changes nothing about the events before it.
LEMMA ExpectedStays ==
  ASSUME NEW strokes, NEW more, NEW i \in Nat \ {0}, \A j \in 1 .. i : more[j] = strokes[j]
  PROVE  Expected(more, i) = Expected(strokes, i)
<1>1. i \in Nat /\ i \in 1 .. i
  OBVIOUS
<1>2. /\ more[i] = strokes[i]
      /\ \A keys : Held(more, i, keys) <=> Held(strokes, i, keys)
      /\ Caps(more, i) <=> Caps(strokes, i)
  BY <1>1, ModifiersStay, Zenon
<1>3. ASSUME NEW keys PROVE Held(more, i, keys) = Held(strokes, i, keys)
  <2> DEFINE a == Held(more, i, keys)
             b == Held(strokes, i, keys)
  <2>1. a \in BOOLEAN /\ b \in BOOLEAN
    BY Zenon DEF Held
  <2>2. a <=> b
    BY <1>2, Zenon
  <2> HIDE DEF a, b
  <2>3. a = b
    BY <2>1, <2>2, Zenon
  <2> QED
    BY <2>3, Zenon DEF a, b
<1>4. Caps(more, i) = Caps(strokes, i)
  BY <1>2, Zenon DEF Caps
<1>5. /\ Held(more, i, ShiftKeys) = Held(strokes, i, ShiftKeys)
      /\ Held(more, i, CtrlKeys) = Held(strokes, i, CtrlKeys)
      /\ Held(more, i, AltKeys) = Held(strokes, i, AltKeys)
  BY <1>3, Zenon
<1> QED
  BY <1>2, <1>4, <1>5, Zenon DEF Expected

\* A whole code makes the event of its stroke.
LEMMA EventMade ==
  ASSUME OrderInv, Len(decoded) + 1 \in 1 .. Len(typed), typed' = typed,
         LET e == typed[Len(decoded) + 1] IN key_event(e.key.base, e.key.ext, e.pressed)
  PROVE  /\ Len(decoded') = Len(decoded) + 1 /\ DecodesInOrder' /\ s_state' = "NORMAL"
         /\ Flags(typed', Len(decoded'), s_shift', s_ctrl', s_alt', s_caps_lock')
<1> DEFINE d == Len(decoded)
           e == typed[d + 1]
           k == e.key
           ev == EventOf(k, e.pressed, s_shift', s_ctrl', s_alt', s_caps_lock')
<1>1. /\ d \in Nat /\ decoded \in Seq(Event) /\ e \in Stroke
  BY DEF OrderInv, QueueInv, RingOK
<1>2. k \in Keys /\ e.pressed \in BOOLEAN
  BY <1>1, Zenon DEF Stroke
<1>3. /\ k \in ShiftKeys <=> ~k.ext /\ k.base \in {"LSHIFT", "RSHIFT"}
      /\ k \in CtrlKeys <=> k.base = "CTRL"
      /\ k \in AltKeys <=> k.base = "ALT"
      /\ k \in CapsKeys <=> ~k.ext /\ k.base = "CAPS"
  BY <1>2, Zenon DEF ShiftKeys, CtrlKeys, AltKeys, CapsKeys
<1>4. /\ s_state' = "NORMAL"
      /\ s_shift' = IF k \in ShiftKeys THEN e.pressed ELSE s_shift
      /\ s_ctrl' = IF k \in CtrlKeys THEN e.pressed ELSE s_ctrl
      /\ s_alt' = IF k \in AltKeys THEN e.pressed ELSE s_alt
      /\ s_caps_lock' = IF k \in CapsKeys /\ e.pressed THEN ~s_caps_lock ELSE s_caps_lock
      /\ push_event(ev)
  BY <1>3, Zenon DEF key_event, EventOf
<1>5. s_shift \in BOOLEAN /\ s_ctrl \in BOOLEAN /\ s_alt \in BOOLEAN /\ s_caps_lock \in BOOLEAN
  BY Zenon DEF OrderInv, QueueInv, DecoderOK
<1> HIDE DEF d, k, e, ev
<1>6. decoded' = Append(decoded, ev)
  BY <1>4, Zenon DEF push_event
<1>7. /\ Len(decoded') = d + 1 /\ decoded'[d + 1] = ev
      /\ \A i \in 1 .. d : decoded'[i] = decoded[i]
  BY <1>1, <1>6 DEF d
<1>8. /\ s_shift' <=> Held(typed, d + 1, ShiftKeys)
      /\ s_ctrl' <=> Held(typed, d + 1, CtrlKeys)
      /\ s_alt' <=> Held(typed, d + 1, AltKeys)
      /\ s_caps_lock' <=> Caps(typed, d + 1)
  <2>1. Flags(typed, d, s_shift, s_ctrl, s_alt, s_caps_lock)
    BY Zenon DEF OrderInv, d
  <2>2. \A keys : Held(typed, d + 1, keys) <=> IF k \in keys THEN e.pressed ELSE Held(typed, d, keys)
    BY <1>1, HeldNext, Zenon DEF k, e
  <2>3. Caps(typed, d + 1) <=> IF k \in CapsKeys /\ e.pressed THEN ~Caps(typed, d) ELSE Caps(typed, d)
    BY <1>1, CapsNext, Zenon DEF k, e
  <2>4. s_caps_lock' <=> Caps(typed, d + 1)
    BY <1>4, <2>1, <2>3, Zenon DEF Flags
  <2>5. s_shift' <=> Held(typed, d + 1, ShiftKeys)
    BY <1>4, <2>1, <2>2, Zenon DEF Flags
  <2>6. s_ctrl' <=> Held(typed, d + 1, CtrlKeys)
    BY <1>4, <2>1, <2>2, Zenon DEF Flags
  <2>7. s_alt' <=> Held(typed, d + 1, AltKeys)
    BY <1>4, <2>1, <2>2, Zenon DEF Flags
  <2> QED
    BY <2>4, <2>5, <2>6, <2>7, Zenon
<1>9. ev = Expected(typed, d + 1)
  <2>1. /\ s_shift' \in BOOLEAN /\ s_ctrl' \in BOOLEAN /\ s_alt' \in BOOLEAN /\ s_caps_lock' \in BOOLEAN
    BY <1>2, <1>4, <1>5, Zenon
  <2>2. /\ s_shift' = Held(typed, d + 1, ShiftKeys)
        /\ s_ctrl' = Held(typed, d + 1, CtrlKeys)
        /\ s_alt' = Held(typed, d + 1, AltKeys)
        /\ s_caps_lock' = Caps(typed, d + 1)
    BY <1>8, <2>1, Zenon DEF Held, Caps
  <2> QED
    BY <2>2, Zenon DEF Expected, ev, k, e
<1>10. DecodesInOrder'
  <2>1. d + 1 <= Len(typed)
    BY <1>1 DEF OrderInv, d
  <2>2. \A i \in 1 .. d : decoded[i] = Expected(typed, i)
    BY OrderForm, Zenon DEF OrderInv, Ordered, d
  <2>3. \A i \in 1 .. d + 1 : i \in 1 .. d \/ i = d + 1
    BY <1>1
  <2>4. \A i \in 1 .. d + 1 : decoded'[i] = Expected(typed', i)
    BY <1>7, <1>9, <2>2, <2>3, Zenon
  <2> QED
    BY <1>7, <2>1, <2>4, OrderForm, Zenon DEF Ordered
<1>11. Flags(typed', d + 1, s_shift', s_ctrl', s_alt', s_caps_lock')
  BY <1>8, Zenon DEF Flags
<1> QED
  BY <1>4, <1>7, <1>10, <1>11, Zenon DEF d

\* A byte taken by the handler or by the polling loop.
LEMMA ByteTaken ==
  ASSUME OrderInv, QueueInv', obf # NoByte, decode_and_push(obf), obf' = NoByte,
         UNCHANGED << down, wire, typed >>
  PROVE  OrderInv'
<1> DEFINE d == Len(decoded)
           e == typed[d + 1]
           code == Code(e)
<1>1. typed \in Seq(Stroke) /\ Stream(typed, d, s_state, obf, wire)
  BY Zenon DEF OrderInv
<1>2. /\ d \in 0 .. Len(typed) - 1
      /\ \E n \in 0 .. Len(code) - 1 :
           /\ obf = code[n + 1] /\ s_state = StateAfter(code, n)
           /\ n + 1 < Len(code) => Stream(typed, d, StateAfter(code, n + 1), NoByte, wire)
           /\ n + 1 = Len(code) => Stream(typed, d + 1, "NORMAL", NoByte, wire)
  <2>1. NextOfCode(typed, d, s_state, obf, wire)
    BY <1>1, StreamTaken, Zenon
  <2> QED
    BY <2>1, Zenon DEF NextOfCode
<1>3. PICK n \in 0 .. Len(code) - 1 :
           /\ obf = code[n + 1] /\ s_state = StateAfter(code, n)
           /\ n + 1 < Len(code) => Stream(typed, d, StateAfter(code, n + 1), NoByte, wire)
           /\ n + 1 = Len(code) => Stream(typed, d + 1, "NORMAL", NoByte, wire)
  BY <1>2, Zenon
<1>4. d + 1 \in 1 .. Len(typed) /\ e \in Stroke
  BY <1>1, <1>2
<1>5. \/ n + 1 < Len(code) /\ Prefix(StateAfter(code, n + 1))
      \/ n + 1 = Len(code) /\ key_event(e.key.base, e.key.ext, e.pressed)
  BY <1>3, <1>4, NextByte, Zenon
<1>6. DownExact'
  BY Zenon DEF OrderInv, DownExact
<1> HIDE DEF code
<1>7. CASE n + 1 < Len(code) /\ Prefix(StateAfter(code, n + 1))
  <2>1. /\ s_state' = StateAfter(code, n + 1)
        /\ UNCHANGED << s_shift, s_ctrl, s_alt, s_caps_lock, decoded >>
    BY <1>7, Zenon DEF Prefix, flags
  <2>2. Stream(typed', Len(decoded'), s_state', obf', wire')
    BY <1>3, <1>7, <2>1, Zenon
  <2>3. DecodesInOrder'
    BY <2>1, OrderForm, Zenon DEF OrderInv
  <2>4. Flags(typed', Len(decoded'), s_shift', s_ctrl', s_alt', s_caps_lock')
    BY <2>1, Zenon DEF OrderInv
  <2> QED
    BY <1>1, <1>6, <2>2, <2>3, <2>4, Zenon DEF OrderInv
<1>8. CASE n + 1 = Len(code) /\ key_event(e.key.base, e.key.ext, e.pressed)
  <2>1. /\ Len(decoded') = d + 1 /\ DecodesInOrder' /\ s_state' = "NORMAL"
        /\ Flags(typed', Len(decoded'), s_shift', s_ctrl', s_alt', s_caps_lock')
    BY <1>4, <1>8, EventMade, Zenon
  <2>2. Stream(typed', Len(decoded'), s_state', obf', wire')
    BY <1>3, <1>8, <2>1, Zenon
  <2> QED
    BY <1>1, <1>6, <2>1, <2>2, Zenon DEF OrderInv
<1> QED
  BY <1>5, <1>7, <1>8, Zenon

\* A key goes down or up.
LEMMA KeyMoved ==
  ASSUME OrderInv, QueueInv', NEW e \in Stroke, typed' = Append(typed, e), wire' = wire \o Code(e),
         IF e.pressed THEN down' = down \cup {e.key} ELSE down' = down \ {e.key},
         UNCHANGED << obf, s_state, s_shift, s_ctrl, s_alt, s_caps_lock, decoded >>
  PROVE  OrderInv'
<1> DEFINE n == Len(typed)
           d == Len(decoded)
<1>1. /\ typed \in Seq(Stroke) /\ wire \in Seq(Byte) /\ Stream(typed, d, s_state, obf, wire)
      /\ decoded \in Seq(Event)
  BY Zenon DEF OrderInv, QueueInv, DecoderOK, RingOK
<1>2. /\ typed' \in Seq(Stroke) /\ n \in Nat /\ Len(typed') = n + 1 /\ typed'[n + 1] = e
      /\ \A i \in 1 .. n : typed'[i] = typed[i]
  BY <1>1
<1>3. Stream(typed', d, s_state, obf, wire')
  <2>1. PICK code : code = Code(e) /\ wire' = wire \o code
    BY Zenon
  <2>2. code \in Seq(Byte)
    BY <2>1, CodeLength, Zenon
  <2>3. Concat(wire', wire, code)
    BY <1>1, <2>1, <2>2, Joined, Zenon
  <2>4. Longer(typed', typed, e)
    BY <1>2, Zenon DEF Longer
  <2> QED
    BY <1>1, <2>1, <2>3, <2>4, StreamSent, Zenon
<1>4. d \in Nat /\ d <= n /\ \A i \in 1 .. d : decoded[i] = Expected(typed, i)
  <2>1. d \in Nat
    BY <1>1
  <2> QED
    BY <2>1, OrderForm, Zenon DEF OrderInv, Ordered
<1> HIDE DEF n, d
<1>5. \A i \in 1 .. d : typed'[i] = typed[i]
  <2>1. \A i \in 1 .. d : i \in 1 .. n
    BY <1>2, <1>4
  <2> QED
    BY <1>2, <2>1, Zenon
<1>6. DecodesInOrder'
  <2>1. ASSUME NEW i \in 1 .. d PROVE decoded[i] = Expected(typed', i)
    <3>1. i \in Nat \ {0} /\ \A j \in 1 .. i : j \in 1 .. d
      BY <1>4
    <3>2. Expected(typed', i) = Expected(typed, i)
      <4>1. \A j \in 1 .. i : typed'[j] = typed[j]
        BY <1>5, <3>1, Zenon
      <4> QED
        BY <3>1, <4>1, ExpectedStays, Zenon
    <3> QED
      BY <1>4, <3>2, Zenon
  <2>2. d <= n + 1
    BY <1>2, <1>4
  <2> QED
    BY <1>2, <2>1, <2>2, OrderForm, Zenon DEF Ordered, d
<1>7. Flags(typed', Len(decoded'), s_shift', s_ctrl', s_alt', s_caps_lock')
  <2>1. Flags(typed, d, s_shift, s_ctrl, s_alt, s_caps_lock)
    BY Zenon DEF OrderInv, d
  <2>2. /\ \A keys : Held(typed', d, keys) <=> Held(typed, d, keys)
        /\ Caps(typed', d) <=> Caps(typed, d)
    BY <1>4, <1>5, ModifiersStay, Zenon
  <2> QED
    BY <2>1, <2>2, Zenon DEF Flags, d
<1>8. DownExact'
  <2> SUFFICES ASSUME NEW j \in 1 .. n + 1, typed'[j].pressed,
                      \A k \in j + 1 .. n + 1 : typed'[k].key # typed'[j].key
               PROVE  typed'[j].key \in down'
    BY <1>2, Zenon DEF DownExact
  <2>1. CASE j = n + 1
    BY <1>2, <2>1, Zenon
  <2>2. CASE j \in 1 .. n
    <3>1. n + 1 \in j + 1 .. n + 1 /\ \A k \in j + 1 .. n : k \in j + 1 .. n + 1 /\ k \in 1 .. n
      BY <1>2, <2>2
    <3>2. typed[j].pressed /\ \A k \in j + 1 .. n : typed[k].key # typed[j].key
      BY <1>2, <2>2, <3>1, Zenon
    <3>3. typed[j].key \in down
      BY <2>2, <3>2, Zenon DEF OrderInv, DownExact, n
    <3>4. e.key # typed'[j].key
      BY <1>2, <3>1, Zenon
    <3> QED
      BY <1>2, <2>2, <3>3, <3>4, Zenon
  <2> QED
    BY <1>2, <2>1, <2>2
<1> QED
  BY <1>2, <1>3, <1>6, <1>7, <1>8, Zenon DEF OrderInv, d

\* At the start nothing was typed.
LEMMA InitOrder == Init => OrderInv
<1> SUFFICES ASSUME Init PROVE OrderInv
  BY Zenon
<1>1. QueueInv
  BY InitInv, Zenon
<1>2. /\ typed = << >> /\ decoded = << >> /\ wire = << >> /\ obf = NoByte /\ s_state = "NORMAL"
      /\ s_shift = FALSE /\ s_ctrl = FALSE /\ s_alt = FALSE /\ s_caps_lock = FALSE
  BY Zenon DEF Init
<1>3. Len(typed) = 0 /\ Len(decoded) = 0 /\ typed \in Seq(Stroke) /\ (\A i : i \notin 1 .. 0) /\ 0 <= 0
  BY <1>2
<1>4. Stream(typed, Len(decoded), s_state, obf, wire)
  BY <1>2, <1>3, StreamEmpty, Zenon
<1>5. Flags(typed, Len(decoded), s_shift, s_ctrl, s_alt, s_caps_lock)
  BY <1>2, <1>3, ModifiersOff, Zenon DEF Flags
<1>6. DecodesInOrder /\ DownExact
  BY <1>3, Zenon DEF DecodesInOrder, DownExact
<1> QED
  BY <1>1, <1>3, <1>4, <1>5, <1>6, Zenon DEF OrderInv

\* A step that leaves the keys, the bytes and the decoder alone.
LEMMA OrderElsewhere ==
  ASSUME OrderInv, QueueInv',
         UNCHANGED << typed, down, wire, obf, s_state, s_shift, s_ctrl, s_alt, s_caps_lock, decoded >>
  PROVE  OrderInv'
<1>1. DecodesInOrder'
  BY OrderForm, Zenon DEF OrderInv
<1>2. DownExact'
  BY Zenon DEF OrderInv, DownExact
<1> QED
  BY <1>1, <1>2, Zenon DEF OrderInv

\* Every step keeps the invariant.
LEMMA StepOrder == OrderInv /\ [Next]_vars => OrderInv'
<1> SUFFICES ASSUME OrderInv, [Next]_vars PROVE OrderInv'
  BY Zenon
<1>0. QueueInv'
  BY StepInv, Zenon DEF OrderInv
<1>1. CASE UNCHANGED vars
  BY <1>0, <1>1, OrderElsewhere, Zenon DEF vars
<1>2. CASE \E k \in Keys : Press(k) \/ LetGo(k)
  <2>1. PICK k \in Keys : Press(k) \/ LetGo(k)
    BY <1>2, Zenon
  <2>2. PICK e \in Stroke : /\ typed' = Append(typed, e) /\ wire' = wire \o Code(e)
                            /\ IF e.pressed THEN down' = down \cup {e.key} ELSE down' = down \ {e.key}
    <3> DEFINE up == [key |-> k, pressed |-> FALSE]
               dn == [key |-> k, pressed |-> TRUE]
    <3>1. /\ up \in Stroke /\ up.key = k /\ ~up.pressed /\ Code(up) = BreakCode(k)
          /\ dn \in Stroke /\ dn.key = k /\ dn.pressed /\ Code(dn) = MakeCode(k)
      BY Zenon DEF Stroke, Code
    <3>2. CASE Press(k)
      BY <3>1, <3>2, Zenon DEF Press
    <3>3. CASE LetGo(k)
      BY <3>1, <3>3, Zenon DEF LetGo
    <3> QED
      BY <2>1, <3>2, <3>3, Zenon
  <2>3. UNCHANGED << obf, s_state, s_shift, s_ctrl, s_alt, s_caps_lock, decoded >>
    BY <2>1, Zenon DEF Press, LetGo, flags
  <2> QED
    BY <1>0, <2>2, <2>3, KeyMoved, Zenon
<1>3. CASE Transfer
  <2>1. /\ UNCHANGED << down, typed, s_state, s_shift, s_ctrl, s_alt, s_caps_lock, decoded >>
        /\ obf = NoByte /\ wire # << >> /\ obf' = Head(wire) /\ wire' = Tail(wire)
    BY <1>3, Zenon DEF Transfer, flags
  <2>2. /\ typed \in Seq(Stroke) /\ wire \in Seq(Byte)
        /\ Stream(typed, Len(decoded), s_state, NoByte, wire)
    BY <2>1, Zenon DEF OrderInv, QueueInv, DecoderOK
  <2>3. wire' \in Seq(Byte) /\ obf' \in Byte
    BY <2>1, <2>2
  <2>4. obf' # NoByte
    <3>1. NoByte \notin {"E0", "F0"}
      BY Zenon DEF NoByte
    <3>2. NoByte \notin Byte
      BY <3>1, KeyAssumption, Zenon DEF Byte
    <3> QED
      BY <2>3, <3>2, Zenon
  <2>5. Stream(typed, Len(decoded), s_state, obf', wire')
    <3>1. Split(wire, obf', wire')
      BY <2>1, <2>2, HeadAndTail, Zenon
    <3> QED
      BY <2>2, <2>3, <2>4, <3>1, StreamMoved, Zenon
  <2>6. DecodesInOrder'
    BY <2>1, OrderForm, Zenon DEF OrderInv
  <2>7. DownExact'
    BY <2>1, Zenon DEF OrderInv, DownExact
  <2> QED
    BY <1>0, <2>1, <2>5, <2>6, <2>7, Zenon DEF OrderInv
<1>4. CASE irqHandler
  <2>1. CASE obf = NoByte
    BY <1>0, <1>4, <2>1, OrderElsewhere, Zenon DEF irqHandler, flags
  <2>2. CASE obf # NoByte
    BY <1>0, <1>4, <2>2, ByteTaken, Zenon DEF irqHandler
  <2> QED
    BY <2>1, <2>2, Zenon
<1>5. CASE \E count \in Counts : sys_read(count)
  BY <1>0, <1>5, OrderElsewhere, Zenon DEF sys_read, device, flags
<1>6. CASE PollPort
  BY <1>0, <1>6, ByteTaken, Zenon DEF PollPort
<1>7. CASE poll
  BY <1>0, <1>7, OrderElsewhere, Zenon DEF poll, device, flags
<1> QED
  BY <1>1, <1>2, <1>3, <1>4, <1>5, <1>6, <1>7, Zenon DEF Next

\* Whoever takes the bytes from the controller and however the handler and the polling
\* loop alternate in the middle of a code, decode_and_push makes one event for each
\* press and release, in their order, with the modifiers and the character of that
\* moment: for every set of keys and any number of strokes.
THEOREM StrokesDecodeInOrder == Spec => []DecodesInOrder
<1>1. OrderInv => DecodesInOrder
  BY Zenon DEF OrderInv
<1> QED
  BY <1>1, InitOrder, StepOrder, PTL DEF Spec

\* With no byte on its way every stroke has its event.
LEMMA AllDecoded ==
  ASSUME NEW strokes \in Seq(Stroke), NEW events, NEW state, Stream(strokes, events, state, NoByte, << >>)
  PROVE  events = Len(strokes) /\ state = "NORMAL"
<1>1. PICK bytes, ends : \E used \in Nat :
    /\ Ends(ends, strokes) /\ Spells(bytes, ends, strokes)
    /\ Within(ends, used, strokes, events, state) /\ Remain(bytes, used, << >>)
  BY Zenon DEF Stream
<1>2. PICK used \in Nat :
    /\ Ends(ends, strokes) /\ Spells(bytes, ends, strokes)
    /\ Within(ends, used, strokes, events, state) /\ Remain(bytes, used, << >>)
  BY <1>1, Zenon
<1> DEFINE n == Len(strokes)
<1>3. n \in Nat
  OBVIOUS
<1>4. PICK l : l = Len(bytes)
  BY Zenon
<1>5. used = l /\ l = ends[n]
  <2>1. used + Len(<< >>) = l /\ Len(<< >>) = 0
    BY <1>2, <1>4, Zenon DEF Remain
  <2>2. l = ends[n]
    BY <1>2, <1>4, Zenon DEF Spells
  <2> QED
    BY <2>1, <2>2
<1>6. events \in 0 .. n
  BY <1>2, Zenon DEF Within
<1>7. ASSUME events < n PROVE FALSE
  <2>1. events + 1 \in 1 .. n /\ events + 1 \in 0 .. n /\ (events + 1) - 1 = events
    <3> HIDE DEF n
    <3> QED
      BY <1>3, <1>6, <1>7
  <2>2. PICK m : m = Len(Code(strokes[events + 1]))
    BY Zenon
  <2>3. m \in 1 .. 3
    <3>1. strokes[events + 1] \in Stroke
      BY <2>1
    <3> QED
      BY <2>2, <3>1, CodeLength, Zenon
  <2>4. used - ends[events] \in 0 .. m - 1
    BY <1>2, <1>7, <2>2, Zenon DEF Within
  <2>5. /\ ends[events + 1] = ends[events] + m /\ ends[events + 1] <= ends[n]
        /\ ends[events] \in Nat
    BY <1>2, <1>6, <2>1, <2>2, Zenon DEF Ends
  <2>6. PICK z : z = ends[events]
    BY Zenon
  <2>7. z \in Nat /\ z + m <= used /\ used - z \in 0 .. m - 1
    BY <1>5, <2>4, <2>5, <2>6, Zenon
  <2> QED
    BY <2>3, <2>7
<1>8. events = n
  <2> HIDE DEF n
  <2> QED
    BY <1>3, <1>6, <1>7
<1> QED
  BY <1>2, <1>8, Zenon DEF Within

\* No modifier sticks: with all bytes decoded and no modifier key held, the flags are
\* clear and the decoder is between codes.
THEOREM ModifiersNeverStick == Spec => []NoStuckModifier
<1>1. OrderInv => NoStuckModifier
  <2> SUFFICES ASSUME OrderInv, wire = << >>, obf = NoByte, down \cap ModifierKeys = {}
               PROVE  ~s_shift /\ ~s_ctrl /\ ~s_alt /\ s_state = "NORMAL"
    BY Zenon DEF NoStuckModifier
  <2> DEFINE n == Len(typed)
  <2>1. typed \in Seq(Stroke) /\ Stream(typed, Len(decoded), s_state, NoByte, << >>)
    BY Zenon DEF OrderInv
  <2>2. Len(decoded) = n /\ s_state = "NORMAL"
    BY <2>1, AllDecoded, Zenon
  <2>3. ASSUME NEW keys, keys \subseteq ModifierKeys, Held(typed, n, keys) PROVE FALSE
    <3>1. PICK j \in 1 .. n : /\ typed[j].key \in keys /\ typed[j].pressed
                              /\ \A k \in j + 1 .. n : typed[k].key \notin keys
      BY <2>3, Zenon DEF Held
    <3>2. typed[j].key \in down
      BY <3>1, Zenon DEF OrderInv, DownExact
    <3> QED
      BY <2>3, <3>1, <3>2, Zenon
  <2>4. ShiftKeys \subseteq ModifierKeys /\ CtrlKeys \subseteq ModifierKeys /\ AltKeys \subseteq ModifierKeys
    BY Zenon DEF ModifierKeys
  <2>5. Flags(typed, n, s_shift, s_ctrl, s_alt, s_caps_lock)
    BY <2>2, Zenon DEF OrderInv
  <2> QED
    BY <2>2, <2>3, <2>4, <2>5, Zenon DEF Flags
<1> QED
  BY <1>1, InitOrder, StepOrder, PTL DEF Spec
=============================================================================
