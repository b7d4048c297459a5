-------------------------- MODULE MCOwnerMutationLock --------------------------
(***************************************************************************)
(* Two owners, each with a deletion, the first with a request too, and two *)
(* transfers that name both.                                               *)
(***************************************************************************)
EXTENDS OwnerMutationLock

CONSTANTS r1, t1, t2, d1, d2

MCOwnersOf == [h \in Handlers |->
    IF h \in Transfers THEN {1, 2} ELSE IF h = d2 THEN {2} ELSE {1}]
===============================================================================
