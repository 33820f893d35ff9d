----------------------------- MODULE MCKeyboard -----------------------------
(***************************************************************************)
(* A ring of three places and a few keys: a letter, Enter, the two shift   *)
(* keys, caps lock and the right (extended) control key.                   *)
(***************************************************************************)
EXTENDS Keyboard

Key(base) == [base |-> base, ext |-> FALSE]

MCKeys == { Key("A"), Key("ENTER"), Key("LSHIFT"), Key("RSHIFT"), Key("CAPS"),
            [base |-> "CTRL", ext |-> TRUE] }
=============================================================================
