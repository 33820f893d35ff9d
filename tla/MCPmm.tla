-------------------------------- MODULE MCPmm --------------------------------
(***************************************************************************)
(* A machine of twelve pages whose map has a hole at page 9, behind the    *)
(* eight bits that the marking loop of init covers.                        *)
(***************************************************************************)
EXTENDS Pmm

MCEntries ==
  << [base |-> 0, length |-> 1, usable |-> FALSE],
     [base |-> 1, length |-> 8, usable |-> TRUE],
     [base |-> 10, length |-> 2, usable |-> TRUE] >>
=============================================================================
