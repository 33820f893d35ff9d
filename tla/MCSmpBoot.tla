---------------------------- MODULE MCSmpBoot ----------------------------
(***************************************************************************)
(* Three processors, the one that boots in the middle of the list.         *)
(***************************************************************************)
EXTENDS SmpBoot

MCCpus == << "ap1", "bsp", "ap2" >>
MCProcessorId == [c \in {"ap1", "bsp", "ap2"} |-> IF c = "bsp" THEN 0 ELSE IF c = "ap1" THEN 1 ELSE 2]

=============================================================================
