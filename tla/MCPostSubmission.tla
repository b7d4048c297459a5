--------------------------- MODULE MCPostSubmission ---------------------------
(***************************************************************************)
(* Two requests with one key, the second a retry, and one without a key.   *)
(* The key's post takes three units and is scheduled, the other takes one.   *)
(***************************************************************************)
EXTENDS PostSubmission, TLC

CONSTANTS r1, r2, r3, k1, p1, BASIC, PRO, threePlatforms, onePlatform

Retries == Permutations({r1, r2})

MCKeyOf     == (r1 :> k1) @@ (r2 :> k1) @@ (r3 :> None)
MCIntentOf  == (r1 :> threePlatforms) @@ (r2 :> threePlatforms) @@ (r3 :> onePlatform)
MCUnits     == (threePlatforms :> 3) @@ (onePlatform :> 1)
MCPlanLimit == (BASIC :> 1) @@ (PRO :> 2)
===============================================================================
