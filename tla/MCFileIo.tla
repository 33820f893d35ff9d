------------------------------ MODULE MCFileIo ------------------------------
(***************************************************************************)
(* FileIo over four pages of two bytes, a file of four bytes read in      *)
(* chunks of two, and a directory of three children read two at a time.    *)
(***************************************************************************)
EXTENDS FileIo, TLC

MCRegular == << 1, 2, 3, 4 >>
MCChildren == << [len |-> 1, dir |-> TRUE], [len |-> 2, dir |-> FALSE], [len |-> 1, dir |-> FALSE] >>

\* All pages writable, or one absent or read only, or all but one.
MCPermissions ==
  { p \in [0 .. 3 -> {"none", "ro", "rw"}] :
      \/ Cardinality({ i \in 0 .. 3 : p[i] # "rw" }) <= 1
      \/ p = (0 :> "ro" @@ 1 :> "rw" @@ 2 :> "none" @@ 3 :> "ro") }

\* Arrays at either end of user memory or outside it, with empty elements, one
\* too many elements, and lengths whose sum is over the limit; no element
\* overlaps another or the array itself.
MCIoVectors ==
  LET V(iov, iovs) == [iov |-> iov, iovs |-> iovs]
      B(base, length) == [base |-> base, length |-> length]
  IN  { V(0, << B(3, 1), B(0, 0), B(4, 3) >>), V(6, << B(0, 3), B(4, 1) >>),
        V(7, << B(1, 2), B(3, 1) >>), V(0, << B(2, 3), B(5, 2) >>),
        V(8, << B(0, 1) >>), V(8, << >>), V(0, << B(4, 1), B(5, 1), B(6, 1), B(7, 1) >>) }

MCOffsets == -6 .. 5
=============================================================================
