----------------------------- MODULE OwnerBarrier -----------------------------
(***************************************************************************)
(* What the coordination of account deletion promises: an owner's work is  *)
(* only let in while the account is open, and cleanup only runs while no   *)
(* work is in progress and no outcome is in doubt.                         *)
(***************************************************************************)
CONSTANTS Ops

VARIABLES phase,       \* "open" | "sealed" | "cleaning" | "gone"
          unresolved   \* work in progress, or ended with an unknown outcome

Let(op)     == phase = "open" /\ unresolved' = unresolved \cup {op} /\ UNCHANGED phase
Resolve(op) == unresolved' = unresolved \ {op} /\ UNCHANGED phase
Seal        == phase = "open" /\ phase' = "sealed" /\ UNCHANGED unresolved
Clean       == phase \in {"sealed", "gone"} /\ unresolved = {}
               /\ phase' = "cleaning" /\ UNCHANGED unresolved
Pause       == phase = "cleaning" /\ phase' \in {"sealed", "gone"} /\ UNCHANGED unresolved

BarrierInit == phase = "open" /\ unresolved = {}
BarrierNext == Seal \/ Clean \/ Pause \/ \E op \in Ops : Let(op) \/ Resolve(op)
BarrierSpec == BarrierInit /\ [][BarrierNext]_<<phase, unresolved>>
===============================================================================
