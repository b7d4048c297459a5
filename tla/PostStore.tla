------------------------------ MODULE PostStore ------------------------------
(***************************************************************************)
(* The Post row and the conditional writes of the post store               *)
(* (modules/posts/prismaPostRepository.ts), as operators on one row.  Each *)
(* write of the store is one SQL statement or one Serializable             *)
(* transaction, so a module that uses them takes each in one step.         *)
(***************************************************************************)
EXTENDS Integers, FiniteSets

CONSTANTS
    MaxTime,    \* the clock runs over 0..MaxTime
    MaxEdits    \* captions are numbered by the edit that wrote them, 0..MaxEdits

ASSUME TimeAssumption == MaxTime \in Nat \ {0} /\ MaxEdits \in Nat

NoSchedule == 0                       \* scheduledAt is null: publish now
RunTimes   == 0..MaxTime
Captions   == 0..MaxEdits

Settled == {"PUBLISHED", "PARTIAL_PUBLISHED", "FAILED"}
PostStatus == {"QUEUED", "PUBLISHING", "REMOVED"} \cup Settled

Row == [status : PostStatus, scheduledAt : RunTimes, caption : Captions]

(***************************************************************************)
(* Reads.                                                                  *)
(***************************************************************************)
IsDue(row, now) == row.status = "QUEUED" /\ row.scheduledAt <= now

\* The caption edit window closes before the scheduled time.
EditWindowOpen(row, now) == row.scheduledAt # NoSchedule /\ now < row.scheduledAt

(***************************************************************************)
(* Compare-and-set writes: the guard is the WHERE clause.                  *)
(***************************************************************************)
ClaimableAtAnyTime(row, expectedRunAt) == row.status = "QUEUED"
ClaimableOnTimeOnly(row, expectedRunAt) ==
    row.status = "QUEUED" /\ row.scheduledAt = expectedRunAt
Claimable(row, expectedRunAt) ==
    row.status = "QUEUED" /\ row.scheduledAt \in {NoSchedule, expectedRunAt}

MatchesSchedule(row, expectedScheduledAt) ==
    row.status = "QUEUED" /\ row.scheduledAt = expectedScheduledAt

CanEditCaption(row, now) == row.status = "QUEUED" /\ EditWindowOpen(row, now)

WithStatus(row, status)  == [row EXCEPT !.status = status]
WithSchedule(row, time)  == [row EXCEPT !.scheduledAt = time]
WithCaption(row, edit)   == [row EXCEPT !.caption = edit]

(***************************************************************************)
(* The post status that a set of per-platform outcomes maps to: the worker *)
(* computes it from its results, recovery from the saved receipts.         *)
(***************************************************************************)
SummaryStatus(outcomes) ==
    IF \A f \in DOMAIN outcomes : outcomes[f] = "PUBLISHED" THEN "PUBLISHED"
    ELSE IF \E f \in DOMAIN outcomes : outcomes[f] = "PUBLISHED"
         THEN "PARTIAL_PUBLISHED" ELSE "FAILED"

\* Every platform has a saved terminal receipt.
Complete(receipts) == \A f \in DOMAIN receipts : receipts[f] \in {"PUBLISHED", "FAILED"}
=============================================================================
