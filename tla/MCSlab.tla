------------------------------- MODULE MCSlab --------------------------------
(***************************************************************************)
(* Twelve pages of eight units.  Pages 0 and 6 are not usable, so memory   *)
(* comes in two pieces and a run must not cross the hole; page 1 holds the *)
(* bitmap.  Two size classes, of 2 and of 4 units: a slab of the first is  *)
(* one page with two objects, of the second two pages with three.  A large *)
(* object of 9 units takes three pages, as many as free accepts.           *)
(***************************************************************************)
EXTENDS Slab

MCEntries ==
  << [base |-> 0, length |-> 1, usable |-> FALSE],
     [base |-> 1, length |-> 5, usable |-> TRUE],
     [base |-> 6, length |-> 1, usable |-> FALSE],
     [base |-> 7, length |-> 5, usable |-> TRUE] >>
=============================================================================
