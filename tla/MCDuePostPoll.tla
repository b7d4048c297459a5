---------------------------- MODULE MCDuePostPoll ----------------------------
(***************************************************************************)
(* DuePostPoll on small instances: the first posts stay due and fill a     *)
(* whole batch.                                                            *)
(***************************************************************************)
EXTENDS DuePostPoll

FirstTwo == 1..2
===============================================================================
