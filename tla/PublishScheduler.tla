--------------------------- MODULE PublishScheduler ---------------------------
(***************************************************************************)
(* The in-process publish scheduler (workers/publishScheduler.ts), the     *)
(* worker it calls for each due post (workers/publishWorker.ts) and the    *)
(* start-up recovery (workers/interruptedPublishRecovery.ts), together     *)
(* with what runs beside them: the post routes of the owner, the social    *)
(* provider, the owner's account deletion, database faults and exits.    *)
(*                                                                         *)
(* Every await of the code is a step boundary.  A database call that       *)
(* reports an error may or may not have been applied.  One API process     *)
(* runs the scheduler; all posts belong to one owner.                      *)
(***************************************************************************)
EXTENDS PostStore

CONSTANTS
    Posts, Platforms,
    DirectTikTok,      \* platforms published with explicit TikTok Direct settings
    ServerErrors,      \* platforms whose create call may be answered 5xx
    Retrying,          \* platforms whose publisher may throw RetryablePublishError
    AttemptLimit,      \* maxPrePublishAttempts
    CallLimit,         \* maxPublishAttempts of one provider call
    Concurrency,       \* maxConcurrentPublishes
    MaxFaults,         \* bound: database calls that report an error
    MaxExits           \* bound: process exits, orderly or not

ASSUME SchedulerAssumption ==
    /\ AttemptLimit \in Nat \ {0} /\ CallLimit \in Nat \ {0}
    /\ Concurrency \in Nat \ {0} /\ MaxFaults \in Nat /\ MaxExits \in Nat

VARIABLES
    (* durable: PostgreSQL *)
    row,            \* the Post rows
    receipt,        \* the PlatformPublish rows: saved outcome of each platform
    retained,       \* a ManagedOwnerOperation row outlives its operation
    owner,          \* managedUploadOwner status; CLEANUP: a deletion run holds it
    plan,           \* the owner's effective plan
    (* external: the social provider *)
    accepted,       \* how many provider posts were created
    sentCaption,    \* the caption the provider was given
    (* the process *)
    proc,           \* "up" | "draining" | "down"
    polling, snap, snapCaption, pollFailed, pollHealthy, needsReconciliation,
    (* the worker of one post *)
    pc, attempt, runAt, planEnded, refused, started, calls, result, keep,
    (* environment *)
    now, faults, exits

store   == <<row, receipt, retained, owner, plan>>
extern  == <<accepted, sentCaption>>
poll    == <<proc, polling, snap, snapCaption, pollFailed, pollHealthy, needsReconciliation>>
local   == <<attempt, runAt, planEnded, refused, started, calls, result, keep>>
env     == <<now, exits>>
vars    == <<store, extern, poll, pc, local, env, faults>>

NotInBatch == -1
Steps == {"idle", "plan", "assert", "claim", "recheck", "reread", "publish",
          "record", "settle", "fail", "caught", "finish"}
Outcomes == {"none", "PUBLISHED", "FAILED", "UNKNOWN"}

\* Types: attempts, call retries and saved outcomes stay in the ranges the code counts in.
TypeOK ==
    /\ row \in [Posts -> Row]
    /\ receipt \in [Posts -> [Platforms -> {"none", "PUBLISHED", "FAILED"}]]
    /\ retained \in [Posts -> BOOLEAN]
    /\ owner \in {"ACTIVE", "DELETING", "CLEANUP"}
    /\ plan \in {"PAID", "BASIC"}
    /\ accepted \in [Posts -> [Platforms -> Nat]]
    /\ sentCaption \in [Posts -> Captions]
    /\ proc \in {"up", "draining", "down"}
    /\ polling \in BOOLEAN /\ pollFailed \in BOOLEAN /\ pollHealthy \in BOOLEAN
    /\ needsReconciliation \in BOOLEAN
    /\ snap \in [Posts -> RunTimes \cup {NotInBatch}]
    /\ snapCaption \in [Posts -> Captions]
    /\ pc \in [Posts -> Steps]
    /\ attempt \in [Posts -> 0..AttemptLimit]
    /\ runAt \in [Posts -> RunTimes]
    /\ planEnded \in [Posts -> BOOLEAN] /\ refused \in [Posts -> BOOLEAN]
    /\ started \in [Posts -> BOOLEAN] /\ keep \in [Posts -> BOOLEAN]
    /\ calls \in [Posts -> [Platforms -> 0..CallLimit]]
    /\ result \in [Posts -> [Platforms -> Outcomes]]
    /\ now \in RunTimes /\ faults \in 0..MaxFaults /\ exits \in 0..MaxExits

NoResults == [f \in Platforms |-> "none"]
NoCalls   == [f \in Platforms |-> 0]

Init ==
    /\ row \in [Posts -> {[status |-> "QUEUED", scheduledAt |-> t, caption |-> 0] : t \in RunTimes}]
    /\ receipt = [p \in Posts |-> NoResults]
    /\ retained = [p \in Posts |-> FALSE]
    /\ owner = "ACTIVE" /\ plan = "PAID"
    /\ accepted = [p \in Posts |-> NoCalls]
    /\ sentCaption = [p \in Posts |-> 0]
    /\ proc = "up" /\ polling = FALSE /\ pollFailed = FALSE
    /\ pollHealthy = TRUE /\ needsReconciliation = FALSE
    /\ snap = [p \in Posts |-> NotInBatch] /\ snapCaption = [p \in Posts |-> 0]
    /\ pc = [p \in Posts |-> "idle"]
    /\ attempt = [p \in Posts |-> 0] /\ runAt = [p \in Posts |-> 0]
    /\ planEnded = [p \in Posts |-> FALSE] /\ refused = [p \in Posts |-> FALSE]
    /\ started = [p \in Posts |-> FALSE] /\ keep = [p \in Posts |-> FALSE]
    /\ calls = [p \in Posts |-> NoCalls] /\ result = [p \in Posts |-> NoResults]
    /\ now = 0 /\ faults = 0 /\ exits = 0

-------------------------------------------------------------------------------
(***************************************************************************)
(* Database faults.  An operation either succeeds or is one of at most     *)
(* MaxFaults that report an error.                                         *)
(***************************************************************************)
NoFault == faults' = faults
Fault   == faults < MaxFaults /\ faults' = faults + 1

Goto(p, step)  == pc' = [pc EXCEPT ![p] = step]
SetRow(p, r)   == row' = [row EXCEPT ![p] = r]
MaySetRow(p, r) == row' = row \/ SetRow(p, r)

\* Prisma's update by id: fails when the row is gone.
UpdateSucceeds(p, status) ==
    NoFault /\ row[p].status # "REMOVED" /\ SetRow(p, WithStatus(row[p], status))
UpdateFails(p, status) ==
    \/ Fault /\ row[p].status # "REMOVED" /\ MaySetRow(p, WithStatus(row[p], status))
    \/ NoFault /\ row[p].status = "REMOVED" /\ row' = row

\* An exception that leaves the nested owner lifetime: the parent keeps its ticket.
ThrowNested(p) == Goto(p, "caught") /\ keep' = [keep EXCEPT ![p] = TRUE]

-------------------------------------------------------------------------------
(***************************************************************************)
(* The poll (runOnce).  One poll at a time.                                *)
(***************************************************************************)
LeaveBatch(p) ==
    /\ snap' = [snap EXCEPT ![p] = NotInBatch]
    /\ snapCaption' = [snapCaption EXCEPT ![p] = 0]
ClearBatch ==
    /\ snap' = [p \in Posts |-> NotInBatch]
    /\ snapCaption' = [p \in Posts |-> 0]

StartPoll ==
    /\ proc = "up" /\ ~polling
    /\ polling' = TRUE /\ pollFailed' = FALSE /\ NoFault
    /\ snap' = [p \in Posts |-> IF IsDue(row[p], now) THEN row[p].scheduledAt ELSE NotInBatch]
    /\ snapCaption' = [p \in Posts |-> IF IsDue(row[p], now) THEN row[p].caption ELSE 0]
    /\ UNCHANGED <<store, extern, proc, pollHealthy, needsReconciliation, pc, local, env>>

PollReadFails ==
    /\ proc = "up" /\ ~polling /\ Fault
    /\ pollHealthy' = FALSE
    /\ UNCHANGED <<store, extern, proc, polling, snap, snapCaption, pollFailed,
                   needsReconciliation, pc, local, env>>

\* The pool has run dry, or was told to stop.
EndPoll ==
    /\ polling
    /\ \A p \in Posts : pc[p] = "idle" /\ (proc = "up" => snap[p] = NotInBatch)
    /\ polling' = FALSE /\ pollHealthy' = ~pollFailed
    /\ ClearBatch
    /\ UNCHANGED <<store, extern, proc, pollFailed, needsReconciliation, pc, local, env, faults>>

\* What every attempt begins with: a post with no schedule runs now, unchecked.
BeginAttempt(p, n) ==
    /\ Goto(p, IF snap[p] = NoSchedule THEN "assert" ELSE "plan")
    /\ attempt' = [attempt EXCEPT ![p] = n]
    /\ runAt' = [runAt EXCEPT ![p] = IF snap[p] = NoSchedule THEN now ELSE snap[p]]
    /\ planEnded' = [planEnded EXCEPT ![p] = FALSE]

\* The pool takes the next post and admits one owner operation for it.
Admit(p) ==
    /\ polling /\ proc = "up" /\ snap[p] # NotInBatch /\ pc[p] = "idle"
    /\ Cardinality({q \in Posts : pc[q] # "idle"}) < Concurrency
    /\ owner = "ACTIVE" /\ NoFault
    /\ BeginAttempt(p, 1)
    /\ UNCHANGED <<store, extern, poll, refused, started, calls, result, keep, env>>

\* A sealed owner or a failed admission leaves the post for a later poll.
AdmitFails(p) ==
    /\ polling /\ proc = "up" /\ snap[p] # NotInBatch /\ pc[p] = "idle"
    /\ Cardinality({q \in Posts : pc[q] # "idle"}) < Concurrency
    /\ \/ owner # "ACTIVE" /\ NoFault /\ UNCHANGED retained
       \/ owner = "ACTIVE" /\ Fault /\ \E b \in {retained[p], TRUE} : retained' = [retained EXCEPT ![p] = b]
    /\ pollFailed' = TRUE
    /\ LeaveBatch(p)
    /\ UNCHANGED <<row, receipt, owner, plan, extern, proc, polling, pollHealthy,
                   needsReconciliation, pc, local, env>>

-------------------------------------------------------------------------------
(***************************************************************************)
(* The worker of one post (processPublishJobForPost).                      *)
(***************************************************************************)
\* Read before the nested owner lifetime: a failure keeps no ticket.
ReadPlan(p) ==
    /\ pc[p] = "plan"
    /\ \/ NoFault /\ Goto(p, "assert") /\ planEnded' = [planEnded EXCEPT ![p] = (plan = "BASIC")]
       \/ Fault /\ Goto(p, "caught") /\ UNCHANGED planEnded
    /\ UNCHANGED <<store, extern, poll, attempt, runAt, refused, started, calls, result, keep, env>>

AssertOwnerActive(p) ==
    /\ pc[p] = "assert"
    /\ \/ owner = "ACTIVE" /\ NoFault /\ Goto(p, "claim") /\ UNCHANGED keep
       \/ owner # "ACTIVE" /\ NoFault /\ ThrowNested(p)
       \/ owner = "ACTIVE" /\ Fault /\ ThrowNested(p)
    /\ UNCHANGED <<store, extern, poll, attempt, runAt, planEnded, refused, started, calls, result, env>>

\* The claim reports whether the row was still scheduled; the plan only matters then.
RefusedNever(p) == FALSE
Refused(p) == planEnded[p] /\ row[p].scheduledAt # NoSchedule

\* claimForPublish, or claimForPublishWithSchedule when the plan has ended.
Claim(p) ==
    /\ pc[p] = "claim"
    /\ LET claimable == Claimable(row[p], runAt[p])
           claimed   == WithStatus(row[p], "PUBLISHING")
       IN  \/ /\ claimable /\ NoFault /\ SetRow(p, claimed) /\ Goto(p, "recheck")
              /\ refused' = [refused EXCEPT ![p] = Refused(p)]
              /\ UNCHANGED keep
           \/ ~claimable /\ NoFault /\ Goto(p, "finish") /\ UNCHANGED <<row, refused, keep>>
           \/ claimable /\ Fault /\ MaySetRow(p, claimed) /\ ThrowNested(p) /\ UNCHANGED refused
           \/ ~claimable /\ Fault /\ ThrowNested(p) /\ UNCHANGED <<row, refused>>
    /\ UNCHANGED <<receipt, retained, owner, plan, extern, poll, attempt, runAt, planEnded,
                   started, calls, result, env>>

\* The second owner check.  A post refused for its plan is failed without any call.
Recheck(p) ==
    /\ pc[p] = "recheck"
    /\ \/ owner # "ACTIVE" /\ NoFault /\ Goto(p, "fail") /\ UNCHANGED result
       \/ owner = "ACTIVE" /\ Fault /\ Goto(p, "fail") /\ UNCHANGED result
       \/ owner = "ACTIVE" /\ NoFault /\ ~refused[p] /\ Goto(p, "reread") /\ UNCHANGED result
       \/ /\ owner = "ACTIVE" /\ NoFault /\ refused[p] /\ Goto(p, "record")
          /\ result' = [result EXCEPT ![p] = [f \in Platforms |-> "FAILED"]]
    /\ UNCHANGED <<store, extern, poll, attempt, runAt, planEnded, refused, started, calls, keep, env>>

\* The content sent is the claimed row's, never the poll's snapshot.
PolledContent(p) == snapCaption[p]
Content(p) == row[p].caption

Reread(p) ==
    /\ pc[p] = "reread"
    /\ \/ /\ NoFault /\ row[p].status = "PUBLISHING" /\ Goto(p, "publish")
          /\ sentCaption' = [sentCaption EXCEPT ![p] = Content(p)]
       \/ NoFault /\ row[p].status # "PUBLISHING" /\ Goto(p, "fail") /\ UNCHANGED sentCaption
       \/ Fault /\ Goto(p, "fail") /\ UNCHANGED sentCaption
    /\ UNCHANGED <<store, accepted, poll, local, env>>

\* One call of the publisher for one platform, with its answer.
Answer(p, f, n, outcome) ==
    /\ accepted' = [accepted EXCEPT ![p][f] = @ + n]
    /\ result' = [result EXCEPT ![p][f] = outcome]
    /\ UNCHANGED calls

RetriesSpentLate(p, f) == calls[p][f] = CallLimit
RetriesSpent(p, f) == calls[p][f] + 1 = CallLimit

CallProvider(p, f) ==
    /\ pc[p] = "publish" /\ result[p][f] = "none"
    /\ started' = [started EXCEPT ![p] = TRUE]
    /\ \/ Answer(p, f, 1, "PUBLISHED")
       \/ Answer(p, f, 0, "FAILED")                                 \* known rejection
       \/ \E n \in {0, 1} : Answer(p, f, n, "UNKNOWN")              \* PublishOutcomeUnknownError
       \/ /\ f \in ServerErrors                                     \* create answered 5xx
          /\ \E n \in {0, 1} : Answer(p, f, n, IF f \in DirectTikTok THEN "UNKNOWN" ELSE "FAILED")
       \/ /\ f \in Retrying                                         \* RetryablePublishError
          /\ calls' = [calls EXCEPT ![p][f] = @ + 1]
          /\ result' = [result EXCEPT ![p][f] = IF RetriesSpent(p, f) THEN "FAILED" ELSE "none"]
          /\ UNCHANGED accepted
    /\ UNCHANGED <<store, sentCaption, poll, pc, attempt, runAt, planEnded, refused, keep, env, faults>>

\* requiresReconciliation of the worker's result
Uncertain(p) == \E f \in Platforms : result[p][f] = "UNKNOWN"

Saved(outcome) == IF outcome = "PUBLISHED" THEN "PUBLISHED" ELSE "FAILED"

\* All answers are in.
Answered(p) ==
    /\ pc[p] = "publish" /\ \A f \in Platforms : result[p][f] # "none"
    /\ Goto(p, "record")
    /\ UNCHANGED <<store, extern, poll, local, env, faults>>

OnReceiptFaultIgnored == "settle"
OnReceiptFault == "fail"

\* recordResults upserts one row per platform, concurrently.
RecordResults(p) ==
    /\ pc[p] = "record"
    /\ LET upsert(S) == receipt' = [receipt EXCEPT ![p] =
               [f \in Platforms |-> IF f \in S THEN Saved(result[p][f]) ELSE receipt[p][f]]]
       IN  \/ /\ NoFault /\ upsert(Platforms) /\ Goto(p, "settle")
              /\ keep' = [keep EXCEPT ![p] = @ \/ Uncertain(p)]
           \/ /\ Fault /\ Goto(p, OnReceiptFault) /\ UNCHANGED keep
              /\ \E S \in SUBSET Platforms : upsert(S)
    /\ UNCHANGED <<row, retained, owner, plan, extern, poll, attempt, runAt, planEnded,
                   refused, started, calls, result, env>>

SettleStatus(p) ==
    /\ pc[p] = "settle"
    /\ LET status == SummaryStatus(result[p])
       IN  \/ /\ UpdateSucceeds(p, status) /\ Goto(p, "finish")
              /\ needsReconciliation' = (needsReconciliation \/ Uncertain(p))
           \/ UpdateFails(p, status) /\ Goto(p, "fail") /\ UNCHANGED needsReconciliation
    /\ UNCHANGED <<receipt, retained, owner, plan, extern, proc, polling, snap, snapCaption, pollFailed,
                   pollHealthy, local, env>>

\* The worker's catch: fail the post closed and rethrow.
FailClosed(p) ==
    /\ pc[p] = "fail"
    /\ UpdateSucceeds(p, "FAILED") \/ UpdateFails(p, "FAILED")
    /\ ThrowNested(p)
    /\ UNCHANGED <<receipt, retained, owner, plan, extern, poll, attempt, runAt, planEnded,
                   refused, started, calls, result, env>>

-------------------------------------------------------------------------------
(***************************************************************************)
(* The scheduler's catch (publishDuePostWork).                             *)
(***************************************************************************)
RetryableAlways(p) == TRUE
Retryable(p) == ~started[p]

SameAttempt(p) == attempt[p]
NextAttempt(p) == attempt[p] + 1

\* A provider call started: its outcome may be ambiguous, never try again.
CatchAfterCall(p) ==
    /\ pc[p] = "caught" /\ ~Retryable(p)
    /\ needsReconciliation' = TRUE /\ Goto(p, "finish")
    /\ UNCHANGED <<store, extern, proc, polling, snap, snapCaption, pollFailed, pollHealthy, local, env, faults>>

\* The status write of the catch itself failed: the exception reaches the poll.
CatchWriteFails(p, status) ==
    /\ UpdateFails(p, status)
    /\ pollFailed' = TRUE /\ Goto(p, "finish")
    /\ keep' = [keep EXCEPT ![p] = TRUE]
    /\ UNCHANGED <<attempt, runAt, planEnded>>

Requeue(p) ==
    /\ pc[p] = "caught" /\ Retryable(p) /\ attempt[p] < AttemptLimit
    /\ \/ /\ UpdateSucceeds(p, "QUEUED") /\ BeginAttempt(p, NextAttempt(p))
          /\ UNCHANGED <<keep, pollFailed>>
       \/ CatchWriteFails(p, "QUEUED")
    /\ refused' = [refused EXCEPT ![p] = FALSE]
    /\ result' = [result EXCEPT ![p] = NoResults]
    /\ UNCHANGED <<receipt, retained, owner, plan, extern, proc, polling, snap, snapCaption, pollHealthy,
                   needsReconciliation, started, calls, env>>

GiveUp(p) ==
    /\ pc[p] = "caught" /\ Retryable(p) /\ attempt[p] = AttemptLimit
    /\ \/ /\ UpdateSucceeds(p, "FAILED") /\ Goto(p, "finish")
          /\ UNCHANGED <<keep, pollFailed, attempt, runAt, planEnded>>
       \/ CatchWriteFails(p, "FAILED")
    /\ UNCHANGED <<receipt, retained, owner, plan, extern, proc, polling, snap, snapCaption, pollHealthy,
                   needsReconciliation, refused, started, calls, result, env>>

\* The owner operation ends: its ticket is released unless it must be kept.
ForgetWorker(p) ==
    /\ pc' = [pc EXCEPT ![p] = "idle"]
    /\ attempt' = [attempt EXCEPT ![p] = 0] /\ runAt' = [runAt EXCEPT ![p] = 0]
    /\ planEnded' = [planEnded EXCEPT ![p] = FALSE] /\ refused' = [refused EXCEPT ![p] = FALSE]
    /\ started' = [started EXCEPT ![p] = FALSE] /\ keep' = [keep EXCEPT ![p] = FALSE]
    /\ calls' = [calls EXCEPT ![p] = NoCalls] /\ result' = [result EXCEPT ![p] = NoResults]

Finish(p) ==
    /\ pc[p] = "finish"
    /\ \/ NoFault /\ retained' = [retained EXCEPT ![p] = @ \/ keep[p]]
       \/ ~keep[p] /\ Fault /\ retained' = [retained EXCEPT ![p] = TRUE]
    /\ ForgetWorker(p)
    /\ LeaveBatch(p)
    /\ UNCHANGED <<row, receipt, owner, plan, extern, proc, polling, pollFailed, pollHealthy,
                   needsReconciliation, env>>

Worker(p) ==
    \/ Admit(p) \/ AdmitFails(p) \/ ReadPlan(p) \/ AssertOwnerActive(p) \/ Claim(p)
    \/ Recheck(p) \/ Reread(p) \/ (\E f \in Platforms : CallProvider(p, f)) \/ Answered(p)
    \/ RecordResults(p) \/ SettleStatus(p) \/ FailClosed(p) \/ CatchAfterCall(p)
    \/ Requeue(p) \/ GiveUp(p) \/ Finish(p)

-------------------------------------------------------------------------------
(***************************************************************************)
(* Process lifetime.                                                       *)
(***************************************************************************)
Stop ==
    /\ proc = "up" /\ proc' = "draining" /\ exits < MaxExits /\ exits' = exits + 1
    /\ UNCHANGED <<store, extern, polling, snap, snapCaption, pollFailed, pollHealthy, needsReconciliation,
                   pc, local, now, faults>>

Drained ==
    /\ proc = "draining" /\ ~polling /\ proc' = "down"
    /\ UNCHANGED <<store, extern, polling, snap, snapCaption, pollFailed, pollHealthy, needsReconciliation,
                   pc, local, env, faults>>

\* Memory is lost; the tickets of running operations stay behind.
Crash ==
    /\ proc # "down" /\ exits < MaxExits /\ exits' = exits + 1
    /\ proc' = "down" /\ polling' = FALSE
    /\ retained' = [p \in Posts |-> retained[p] \/ pc[p] # "idle"]
    /\ ClearBatch
    /\ pc' = [p \in Posts |-> "idle"]
    /\ attempt' = [p \in Posts |-> 0] /\ runAt' = [p \in Posts |-> 0]
    /\ planEnded' = [p \in Posts |-> FALSE] /\ refused' = [p \in Posts |-> FALSE]
    /\ started' = [p \in Posts |-> FALSE] /\ keep' = [p \in Posts |-> FALSE]
    /\ calls' = [p \in Posts |-> NoCalls] /\ result' = [p \in Posts |-> NoResults]
    /\ UNCHANGED <<row, receipt, owner, plan, extern, pollFailed, pollHealthy,
                   needsReconciliation, now, faults>>

\* start(): finalise interrupted posts from their saved receipts before polling.
Interrupted(p) == row[p].status = "PUBLISHING"

NeedsOperatorIfRecorded(p) ==
    Interrupted(p) /\ ~Complete(receipt[p]) /\ \E f \in Platforms : receipt[p][f] # "none"
NeedsOperator(p) == Interrupted(p) /\ ~Complete(receipt[p])

RecoveredOrQueued(p) ==
    IF SummaryStatus(receipt[p]) = "FAILED" THEN "QUEUED" ELSE SummaryStatus(receipt[p])
RecoveredStatus(p) == SummaryStatus(receipt[p])

Recover(P) ==
    row' = [p \in Posts |-> IF p \in P /\ Interrupted(p) /\ Complete(receipt[p])
                            THEN WithStatus(row[p], RecoveredStatus(p)) ELSE row[p]]

Start ==
    /\ proc = "down"
    /\ \/ /\ NoFault /\ Recover(Posts) /\ proc' = "up"
          /\ needsReconciliation' = \E p \in Posts : NeedsOperator(p)
          /\ pollHealthy' = TRUE /\ pollFailed' = FALSE
       \/ /\ Fault /\ (\E P \in SUBSET Posts : Recover(P))
          /\ UNCHANGED <<proc, needsReconciliation, pollHealthy, pollFailed>>
    /\ UNCHANGED <<receipt, retained, owner, plan, extern, polling, snap, snapCaption, pc, local, env>>

\* checkReady
Ready == proc = "up" /\ pollHealthy /\ ~needsReconciliation

-------------------------------------------------------------------------------
(***************************************************************************)
(* The owner's requests (postRoutes.ts).  They are serialized per owner,   *)
(* so only the store's compare-and-set meets the scheduler.                *)
(***************************************************************************)
OwnerRequest(p) == proc = "up" /\ owner = "ACTIVE"
OnlyRow == UNCHANGED <<receipt, retained, owner, plan, extern, poll, pc, local, env, faults>>

Reschedule(p, t) ==
    /\ OwnerRequest(p) /\ plan = "PAID" /\ t > now /\ t # row[p].scheduledAt
    /\ MatchesSchedule(row[p], row[p].scheduledAt)
    /\ SetRow(p, WithSchedule(row[p], t)) /\ OnlyRow

PublishNow(p) ==
    /\ OwnerRequest(p) /\ row[p].scheduledAt # NoSchedule
    /\ MatchesSchedule(row[p], row[p].scheduledAt)
    /\ SetRow(p, WithSchedule(row[p], NoSchedule)) /\ OnlyRow

EditCaption(p) ==
    /\ OwnerRequest(p) /\ CanEditCaption(row[p], now) /\ row[p].caption < MaxEdits
    /\ SetRow(p, WithCaption(row[p], row[p].caption + 1)) /\ OnlyRow

RemovePost(p) ==
    /\ OwnerRequest(p) /\ row[p].status = "QUEUED"
    /\ SetRow(p, WithStatus(row[p], "REMOVED")) /\ OnlyRow

OwnerRequests == \E p \in Posts :
    PublishNow(p) \/ EditCaption(p) \/ RemovePost(p) \/ \E t \in 1..MaxTime : Reschedule(p, t)

(***************************************************************************)
(* Account deletion as this module sees it: sealing, then a deletion run   *)
(* once no operation ticket is left (OwnerLifecycle has the protocol).     *)
(***************************************************************************)
Seal ==
    /\ proc = "up" /\ owner = "ACTIVE" /\ owner' = "DELETING"
    /\ UNCHANGED <<row, receipt, retained, plan, extern, poll, pc, local, env, faults>>

BeginCleanup ==
    /\ proc = "up" /\ owner = "DELETING"
    /\ \A p \in Posts : pc[p] = "idle" /\ ~retained[p]
    /\ owner' = "CLEANUP"
    /\ UNCHANGED <<row, receipt, retained, plan, extern, poll, pc, local, env, faults>>

\* The user cascade removes the posts.
PurgePosts ==
    /\ owner = "CLEANUP" /\ \E p \in Posts : row[p].status # "REMOVED"
    /\ row' = [p \in Posts |-> WithStatus(row[p], "REMOVED")]
    /\ OnlyRow

Tick ==
    /\ now < MaxTime /\ now' = now + 1
    /\ UNCHANGED <<store, extern, poll, pc, local, exits, faults>>

PlanChanges ==
    /\ plan' = IF plan = "PAID" THEN "BASIC" ELSE "PAID"
    /\ UNCHANGED <<row, receipt, retained, owner, extern, poll, pc, local, env, faults>>

System == StartPoll \/ PollReadFails \/ EndPoll \/ (\E p \in Posts : Worker(p))
Lifetime == Stop \/ Drained \/ Crash \/ Start
Environment == OwnerRequests \/ Seal \/ BeginCleanup \/ PurgePosts \/ Tick \/ PlanChanges

Next == System \/ Lifetime \/ Environment

Spec == Init /\ [][Next]_vars

(***************************************************************************)
(* Fairness: timers fire and awaits return, so the poll, each worker, the  *)
(* drain and the restart go on.  Nothing else is assumed.                  *)
(***************************************************************************)
Fairness ==
    /\ WF_vars(StartPoll) /\ WF_vars(EndPoll)
    /\ \A p \in Posts : WF_vars(Worker(p))
    /\ WF_vars(Drained) /\ WF_vars(Start)

FairSpec == Spec /\ Fairness

-------------------------------------------------------------------------------
(***************************************************************************)
(* Safety.                                                                 *)
(***************************************************************************)
Idle(p) == pc[p] = "idle"
Sent(p) == \E f \in Platforms : accepted[p][f] > 0

\* No platform ever gets a second provider post, whatever mixture of call retries, pre-publish
\* retries, failed writes, crashes, restarts and owner requests happens.
AtMostOnce == \A p \in Posts, f \in Platforms : accepted[p][f] <= 1

\* Nothing is sent before the time the owner last asked for, even when the poll's snapshot of
\* the schedule was overtaken by a reschedule.
NeverEarly == \A p \in Posts : Sent(p) /\ row[p].status # "REMOVED" => row[p].scheduledAt <= now

\* A post shown as (partly) published has a saved receipt for every platform that says exactly
\* that, and a provider post behind each PUBLISHED receipt.
StatusBackedByReceipts == \A p \in Posts :
    row[p].status \in {"PUBLISHED", "PARTIAL_PUBLISHED"} =>
        /\ Complete(receipt[p]) /\ SummaryStatus(receipt[p]) = row[p].status
        /\ \A f \in Platforms : receipt[p][f] = "PUBLISHED" => accepted[p][f] = 1

\* The provider was given the caption the row still has: no edit slips in between the claim and
\* the call, and no stale snapshot is sent.
SentIsCurrent == \A p \in Posts :
    Sent(p) /\ row[p].status # "REMOVED" => sentCaption[p] = row[p].caption

\* A worker that read an ended plan calls a provider only for a post its owner has meanwhile
\* switched to publish now.
EndedPlanNotSent == \A p \in Posts :
    planEnded[p] /\ started[p] => row[p].scheduledAt = NoSchedule

\* When account cleanup starts no worker is running, and every provider post is one the saved
\* receipts know of: uncertain outcomes and crashed workers have left a ticket that blocks it.
CleanupSeesEveryDelivery == owner = "CLEANUP" =>
    \A p \in Posts : Idle(p) /\ \A f \in Platforms : accepted[p][f] > 0 => receipt[p][f] = "PUBLISHED"

\* A post left PUBLISHING with a provider post behind it keeps the scheduler unready, across
\* later healthy polls and restarts.
UncertainBlocksReadiness == Ready =>
    \A p \in Posts : Idle(p) /\ row[p].status = "PUBLISHING" => ~Sent(p)

\* What reached a provider without a receipt is never forgotten: it keeps the deletion of its owner
\* waiting and the scheduler unready.
UncertainBlocks == CleanupSeesEveryDelivery /\ UncertainBlocksReadiness

(***************************************************************************)
(* Liveness.                                                               *)
(***************************************************************************)
Awaiting(p) == IsDue(row[p], now) /\ owner = "ACTIVE"

\* A post that is due and stays due is eventually claimed or settled, through faults, shutdowns
\* and crashes.
DuePostsAreTaken == \A p \in Posts : Awaiting(p) ~> ~Awaiting(p)

\* Every worker ends, so the poll it belongs to ends and the next one can start.
WorkersEnd == \A p \in Posts : ~Idle(p) ~> Idle(p)

(***************************************************************************)
(* What comments and tests of the repository say, and the code does not do *)
(* (see the findings of the README).                                       *)
(***************************************************************************)
\* publishScheduler.ts:170-171: readiness stays away until the saved receipts were examined.
ReadyMeansExamined == Ready =>
    \A p \in Posts : Idle(p) /\ row[p].status = "FAILED" => \E f \in Platforms : receipt[p][f] # "PUBLISHED"

\* publishScheduler.test.ts:410: future posts are left QUEUED.
FuturePostsStayQueued == [][\A p \in Posts :
    row[p].status = "QUEUED" /\ row[p].scheduledAt > now => row'[p].status \in {"QUEUED", "REMOVED"}]_vars

(***************************************************************************)
(* Refinement: the scheduler keeps the promise of PostDelivery.            *)
(***************************************************************************)
PhaseOf(status) == CASE status = "QUEUED" -> "open"
                     [] status = "PUBLISHING" -> "taken"
                     [] status = "REMOVED" -> "gone"
                     [] OTHER -> "closed"

Delivery == INSTANCE PostDelivery WITH
    phase <- [p \in Posts |-> PhaseOf(row[p].status)], delivered <- accepted

\* Every step of polls, workers, recovery, owner and deletion is a step of PostDelivery or changes
\* neither a post's phase nor what was delivered.
ImplementsDelivery == Delivery!DeliverySpec
===============================================================================
