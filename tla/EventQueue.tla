----------------------------- MODULE EventQueue -----------------------------
(***************************************************************************)
(* What the keyboard's event ring promises: a queue of at most Capacity    *)
(* events, first in first out, that turns the newest away when it is full. *)
(***************************************************************************)
EXTENDS Naturals, Sequences

CONSTANTS Event, Capacity

VARIABLES
  made,   \* the events offered so far
  queue,  \* the events waiting
  taken   \* the events handed on so far

Init == made = << >> /\ queue = << >> /\ taken = << >>

Offer(e) ==
  /\ made' = Append(made, e)
  /\ queue' = IF Len(queue) < Capacity THEN Append(queue, e) ELSE queue
  /\ UNCHANGED taken

Take ==
  /\ queue # << >>
  /\ taken' = Append(taken, Head(queue))
  /\ queue' = Tail(queue)
  /\ UNCHANGED made

\* Every offer is recorded, a refused one too.
Next == (made' # made /\ \E e \in Event : Offer(e)) \/ Take

Spec == Init /\ [][Next]_<< made, queue, taken >>
=============================================================================
