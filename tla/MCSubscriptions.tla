--------------------------- MODULE MCSubscriptions ---------------------------
(***************************************************************************)
(* Subscriptions on small instances: two owners who may pass a purchase on *)
(* to each other, and two requests at a time.                              *)
(***************************************************************************)
EXTENDS Subscriptions, TLC

CONSTANTS ann, bob, h1, h2

TwoOwners == {ann, bob}
TwoHandlers == {h1, h2}
ProAndBusiness == {"PRO", "BUSINESS"}

Symmetric == Permutations(TwoOwners) \cup Permutations(TwoHandlers)
===============================================================================
