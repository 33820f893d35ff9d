----------------------------- MODULE MCConsole ------------------------------
(***************************************************************************)
(* Console on a screen of two lines of three cells and a row of pixels     *)
(* that is part of none, with two printers.                                *)
(***************************************************************************)
EXTENDS Console

Str(text) == [kind |-> "str", text |-> text]

MCChar ==
  {"0", "1", "2", "3", "4", "5", "6", "7", "8", "9", "a", "b", "c", "d", "e", "f",
   "x", "[", "set", "clear", "nl", "cr", "tab", "q", "r", "s"}

MCValues ==
  { Str(<< "q", "nl" >>), Str(<< "nl" >>), Str(<< "tab", "r" >>), Str(<< "cr", "s" >>),
    [kind |-> "num", v |-> 26], [kind |-> "num", v |-> -1], [kind |-> "ptr", v |-> 45],
    [kind |-> "manip", v |-> 16] }

MCRaceValues == { Str(<< "nl" >>) }
=============================================================================
