------------------------------ MODULE MCClock ------------------------------
(***************************************************************************)
(* Two processors; a period of four counts, two to the millisecond.        *)
(***************************************************************************)
EXTENDS Clock

=============================================================================
