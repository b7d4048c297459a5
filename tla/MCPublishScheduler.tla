--------------------------- MODULE MCPublishScheduler ---------------------------
(***************************************************************************)
(* PublishScheduler on small instances.  The posts of one owner are        *)
(* interchangeable; the runs of liveness properties do not use Symmetry.   *)
(***************************************************************************)
EXTENDS PublishScheduler, TLC

Symmetry == Permutations(Posts)
===============================================================================
