----------------------------- MODULE MCFileTable -----------------------------
(***************************************************************************)
(* "/" holds the file "f" and the directory "a", "a" holds "b" and "b"     *)
(* holds "c".  A path buffer holds two names, so "c" lies one name too     *)
(* deep.  User code passes the descriptors 2, 3, 4 and the invalid 5.      *)
(***************************************************************************)
EXTENDS FileTable

MCDentry == {"root", "a", "f", "b", "c"}
MCParent == [d \in MCDentry \ {"root"} |-> CASE d \in {"a", "f"} -> "root" [] d = "b" -> "a" [] d = "c" -> "b"]
MCName == [d \in MCDentry |-> IF d = "root" THEN "/" ELSE d]
MCDirectory == {"root", "a", "b", "c"}
MCPathOf ==
  [d \in MCDentry |->
     CASE d = "root" -> << >>
       [] d \in {"a", "f"} -> << d >>
       [] d = "b" -> << "a", "b" >>
       [] d = "c" -> << "a", "b", "c" >>]

Absolute(dir, last) == [abs |-> TRUE, dir |-> dir, last |-> last]
Relative(dir, last) == [abs |-> FALSE, dir |-> dir, last |-> last]

MCUserPath ==
  { Absolute(<< >>, ""), Absolute(<< >>, "a"), Absolute(<< >>, "f"),
    Absolute(<< "a" >>, "b"), Absolute(<< "f" >>, "b"), Absolute(<< "." >>, "a"),
    Relative(<< >>, "f"), Relative(<< >>, "c"), Relative(<< >>, "..") }

MCFdArg == {2, 3, 4, 5}
=============================================================================
