---------------------------- MODULE MCInitramfs ----------------------------
(***************************************************************************)
(* Archives of up to three entries over two names, in any order: entries   *)
(* before their directories, paths listed twice, files where a directory   *)
(* is needed, the root itself, a link and a malformed header.              *)
(***************************************************************************)
EXTENDS Initramfs

Paths == { <<"a">>, <<"b">>, <<"a", "a">>, <<"a", "b">>, <<"a", "b", "a">> }

Entries ==
  { [path |-> p, type |-> "dir", bytes |-> FALSE] : p \in { <<"a">>, <<"a", "b">> } }
  \cup { [path |-> p, type |-> "file", bytes |-> TRUE] : p \in Paths }
  \cup { [path |-> <<"a">>, type |-> "file", bytes |-> FALSE],
         [path |-> <<"a", "b">>, type |-> "link", bytes |-> FALSE],
         [path |-> << >>, type |-> "dir", bytes |-> FALSE],
         [path |-> <<"b">>, type |-> "bad", bytes |-> FALSE] }

MCArchives == UNION { [1 .. n -> Entries] : n \in 0 .. 3 }

=============================================================================
