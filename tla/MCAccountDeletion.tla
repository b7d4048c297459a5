-------------------------- MODULE MCAccountDeletion --------------------------
(***************************************************************************)
(* Two processes, each with an operation and a deletion run of its own.    *)
(***************************************************************************)
EXTENDS AccountDeletion

CONSTANTS o1, o2, r1, r2, api, worker

MCProcessOf == [x \in Ops \cup Runs |-> IF x \in {o1, r1} THEN api ELSE worker]
===============================================================================
