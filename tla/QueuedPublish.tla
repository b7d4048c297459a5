----------------------------- MODULE QueuedPublish -----------------------------
(***************************************************************************)
(* Publishing over BullMQ (BullMqPublish) under names that leave those of  *)
(* PublishScheduler free: the store of the posts is the same, and the two  *)
(* modes of publishing are reasoned about side by side.                    *)
(***************************************************************************)
EXTENDS PostStore

CONSTANTS Attempts, StallLimit, MaxPosts, QueueFaults, QueueExits

VARIABLES record, job, made, request, work, doubt, claimer, time, errors, ends

Queue == INSTANCE BullMqPublish WITH
    MaxFaults <- QueueFaults, MaxExits <- QueueExits, row <- record, delivered <- made,
    req <- request, now <- time, faults <- errors, exits <- ends

ASSUME QueueAssumption == Queue!BullMqAssumption

QueueSpec == Queue!FairSpec

\* While the post is PUBLISHING, the job that took it stays in Redis (publishWorkerRunnerPolicy.ts:46).
QueueKeepsEvidence == Queue!KeepsEvidence

\* An accepted post that is due is claimed, or its job ends as failed, or its owner asks anew.
QueuedIsTaken == Queue!AcceptedIsTaken

\* The mode over BullMQ keeps the promise of PostDelivery (modules/workers/publishWorker.ts:440).
QueueImplementsDelivery == Queue!ImplementsDelivery

\* A job and its post hold what Redis and PostgreSQL can hold; failures stay below the limit.
QueueTypes == Queue!TypeOK
===============================================================================
