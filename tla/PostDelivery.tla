------------------------------ MODULE PostDelivery ------------------------------
(***************************************************************************)
(* What publishing promises, whoever runs it: a post is open to its owner  *)
(* until a worker takes it; only a taken post is handed to a provider, at  *)
(* most once for each platform; once anything was handed over the post     *)
(* never opens again.                                                      *)
(***************************************************************************)
EXTENDS Naturals

CONSTANTS Posts, Platforms

VARIABLES phase, delivered

Phases == {"open", "taken", "closed", "gone"}
Touched(p) == \E f \in Platforms : delivered[p][f] # 0

DeliveryInit ==
    /\ phase = [p \in Posts |-> "open"]
    /\ delivered = [p \in Posts |-> [f \in Platforms |-> 0]]

Move(p, next) == phase' = [phase EXCEPT ![p] = next] /\ UNCHANGED delivered

Take(p)  == phase[p] = "open" /\ Move(p, "taken")
Close(p) == phase[p] # "gone" /\ Move(p, "closed")
Reopen(p) == phase[p] \in {"taken", "closed"} /\ ~Touched(p) /\ Move(p, "open")
Withdraw(p) == phase[p] = "open" /\ Move(p, "gone")

Deliver(p, f) ==
    /\ phase[p] = "taken" /\ delivered[p][f] = 0
    /\ delivered' = [delivered EXCEPT ![p][f] = 1]
    /\ UNCHANGED phase

\* Account deletion removes every post, and start-up recovery closes several, at once.
CloseMany == phase' \in [Posts -> Phases] /\ UNCHANGED delivered
             /\ \A p \in Posts : phase'[p] = phase[p] \/ (phase[p] = "taken" /\ phase'[p] = "closed")
Purge == phase' = [p \in Posts |-> "gone"] /\ UNCHANGED delivered

DeliveryNext ==
    \/ \E p \in Posts : Take(p) \/ Close(p) \/ Reopen(p) \/ Withdraw(p) \/ \E f \in Platforms : Deliver(p, f)
    \/ CloseMany \/ Purge

DeliverySpec == DeliveryInit /\ [][DeliveryNext]_<<phase, delivered>>
=================================================================================
