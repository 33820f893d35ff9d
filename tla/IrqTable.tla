------------------------------ MODULE IrqTable ------------------------------
(***************************************************************************)
(* What programming the redirection entries of an IOAPIC promises: every   *)
(* interrupt pin is off or sends one vector to one processor, and it is    *)
(* turned off before it is given another target, so that no interrupt is   *)
(* ever sent to a mixture of an old target and a new one.                  *)
(***************************************************************************)
CONSTANTS Pin, Target, Off

VARIABLE live  \* what each pin sends: Off or a target

Init == live \in [Pin -> Target \cup {Off}]

TurnOff(p) == live[p] # Off /\ live' = [live EXCEPT ![p] = Off]

TurnOn(p, t) == live[p] = Off /\ live' = [live EXCEPT ![p] = t]

Next == \E p \in Pin : TurnOff(p) \/ \E t \in Target : TurnOn(p, t)

Spec == Init /\ [][Next]_live
=============================================================================
