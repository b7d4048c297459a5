---------------------------- MODULE BullMqPublish ----------------------------
(***************************************************************************)
(* Publishing over BullMQ (modules/queue/bullMqPublishQueue.ts, workers/   *)
(* publishWorkerRunner.ts): a separate worker process runs the jobs that   *)
(* the post routes keep in Redis beside the Post row.  Nothing polls the   *)
(* rows in this mode, so a row without a job is never published.           *)
(*                                                                         *)
(* One post of one active owner.  The routes hold the owner's lock         *)
(* exclusively, so one request is at work at a time, and the worker        *)
(* process runs one job at a time; the two meet in PostgreSQL and Redis.   *)
(* A database or Redis call that reports an error may have been applied.   *)
(***************************************************************************)
EXTENDS PostStore

CONSTANTS
    Attempts,               \* publishJobMaxAttempts
    StallLimit,             \* BullMQ's maxStalledCount
    MaxPosts,               \* bound: how often the post is created with its key
    MaxFaults,              \* bound: calls that report an error
    MaxExits                \* bound: exits of the API or the worker process

BullMqAssumption ==
    /\ Attempts \in Nat \ {0} /\ StallLimit \in Nat
    /\ MaxPosts \in Nat \ {0} /\ MaxFaults \in Nat /\ MaxExits \in Nat

VARIABLES
    row,        \* PostgreSQL: the Post row; created counts its creations
    job,        \* Redis: the jobs of the post by id
    delivered,  \* the provider: posts made for each creation
    req,        \* the owner's request at work
    work,       \* the worker process
    doubt,      \* history: a request broke off, or a job failed, since a job was last added
    claimer,    \* history: the job an attempt of which took the post and did not settle it, or 0
    now, faults, exits

vars == <<row, job, delivered, req, work, doubt, claimer, now, faults, exits>>

(***************************************************************************)
(* The id of a job is a hash of the post's id and the time it runs at:     *)
(* scheduledAt, or createdAt for a post without a schedule.  No schedule   *)
(* equals a creation time: the n-th creation is the number -n.             *)
(***************************************************************************)
Creations == 1..MaxPosts
JobIds    == (1..MaxTime) \cup {-n : n \in Creations}
RunAt(r)  == IF r.scheduledAt = NoSchedule THEN -r.created ELSE r.scheduledAt
RunsNow(id) == id < 0                          \* job status READY
DueJob(id, time) == RunsNow(id) \/ id <= time

\* waiting and delayed are one state: due tells them apart
JobState == {"none", "pending", "active", "failed"}
Job == [state : JobState, failures : 0..Attempts, stalls : 0..StallLimit]
NoJob  == [state |-> "none", failures |-> 0, stalls |-> 0]
NewJob == [NoJob EXCEPT !.state = "pending"]
NoJobs == [id \in JobIds |-> NoJob]

NoRequest == [kind |-> "none", step |-> "none", orig |-> NoSchedule]
Request == [kind : {"none", "create", "replay", "patch", "now", "delete"},
            step : {"none", "add", "clear", "rollback"}, orig : RunTimes]
Idle == [id |-> 0, step |-> "idle", refused |-> FALSE, outcome |-> "none"]
Work == [id : JobIds \cup {0}, step : {"idle", "begin", "claim", "deliver", "settle", "fail", "done"},
         refused : BOOLEAN, outcome : {"none", "ok", "skipped", "error"}]

\* Types: the attempts and stalls of a job stay within BullMQ's limits.
TypeOK ==
    /\ row \in [status : PostStatus, scheduledAt : RunTimes, created : 0..MaxPosts]
    /\ job \in [JobIds -> Job] /\ req \in Request /\ work \in Work
    /\ delivered \in [Creations -> Nat]
    /\ doubt \in BOOLEAN /\ claimer \in JobIds \cup {0}
    /\ now \in RunTimes /\ faults \in 0..MaxFaults /\ exits \in 0..MaxExits

\* A cancelled earlier post of the key may have left its job behind: its removal failed.
Orphaned == {NoJobs} \cup {[NoJobs EXCEPT ![t] = NewJob] : t \in 1..MaxTime}

Init ==
    /\ row = [status |-> "REMOVED", scheduledAt |-> NoSchedule, created |-> 0]
    /\ job \in Orphaned
    /\ delivered = [n \in Creations |-> 0]
    /\ req = NoRequest /\ work = Idle
    /\ doubt = FALSE /\ claimer = 0
    /\ now = 0 /\ faults = 0 /\ exits = 0

NoFault == faults' = faults
Fault   == faults < MaxFaults /\ faults' = faults + 1

\* A write of the row that succeeds, or that reports an error and may have been applied.
Written(r)   == NoFault /\ row' = r
MayBeWritten(r) == Fault /\ row' \in {row, r}

-------------------------------------------------------------------------------
(***************************************************************************)
(* The owner's requests (postRoutes.ts): first the row, then the queue.    *)
(***************************************************************************)
Goto(step)  == req' = [req EXCEPT !.step = step]
Answer      == req' = NoRequest
BreakOff    == req' = NoRequest /\ doubt' = TRUE

\* The first write of a request: r is the new row, orig the schedule
\* a roll-back restores; the queue follows at step.
Begin(kind, r, orig, step) ==
    /\ req = NoRequest
    /\ \/ /\ Written(r) /\ req' = [kind |-> kind, step |-> step, orig |-> orig]
          /\ UNCHANGED doubt
       \/ MayBeWritten(r) /\ doubt' = TRUE /\ UNCHANGED req
    /\ UNCHANGED <<job, delivered, work, claimer, now, exits>>

\* POST /posts whose key has no row (PostSubmission has its checks and charges).
Create(t) ==
    /\ row.status = "REMOVED" /\ row.created < MaxPosts /\ (t = NoSchedule \/ t > now)
    /\ Begin("create", [status |-> "QUEUED", scheduledAt |-> t, created |-> row.created + 1],
             NoSchedule, "add")

\* POST /posts whose key has a row
Replay ==
    /\ req = NoRequest /\ row.status = "QUEUED"
    /\ req' = [NoRequest EXCEPT !.kind = "replay", !.step = "clear"]
    /\ UNCHANGED <<row, job, delivered, work, doubt, claimer, now, faults, exits>>

\* The row is read and compared-and-set under the owner's lock: only the worker's claim races.
Patch(t) ==
    /\ MatchesSchedule(row, row.scheduledAt) /\ t > now
    /\ Begin("patch", WithSchedule(row, t), row.scheduledAt, "add")

PublishNow ==
    /\ MatchesSchedule(row, row.scheduledAt) /\ row.scheduledAt # NoSchedule
    /\ Begin("now", WithSchedule(row, NoSchedule), row.scheduledAt, "add")

Delete ==
    /\ row.status = "QUEUED"
    /\ Begin("delete", WithSchedule(WithStatus(row, "REMOVED"), NoSchedule), NoSchedule, "clear")

(***************************************************************************)
(* The queue operations of a request.                                      *)
(***************************************************************************)
Expected == RunAt(row)

\* An add whose id exists returns the job there is, in whatever state.
AddTo(id) == IF job[id].state = "none" THEN [job EXCEPT ![id] = NewJob] ELSE job

\* What an error of the queue makes the request do.
OnQueueError ==
    IF req.kind \in {"patch", "now"} THEN Goto("rollback") /\ UNCHANGED <<doubt>>
    ELSE BreakOff

Add ==
    /\ req.step = "add"
    /\ \/ /\ NoFault /\ job' = AddTo(Expected)
          /\ doubt' = (doubt /\ job[Expected].state # "none")
          /\ IF req.kind \in {"patch", "now"} THEN Goto("clear") ELSE Answer
       \/ Fault /\ job' \in {job, AddTo(Expected)} /\ OnQueueError
    /\ UNCHANGED <<row, delivered, work, claimer, now, exits>>

Listed == {id \in JobIds : job[id].state # "none"}
Healthy == {"pending", "active"}
\* reschedule spares the replacement job, remove and ensureEnqueued spare none
Spared == IF req.kind \in {"patch", "now"} THEN {Expected} ELSE {}
Without(S) == [id \in JobIds |-> IF id \in S THEN NoJob ELSE job[id]]

\* getJobs, then every remove at once.  Only requests add jobs, and a failed job stays failed,
\* so the list cannot be stale.  BullMQ refuses to remove a job a worker holds.
Clear ==
    /\ req.step = "clear"
    /\ LET stale  == Listed \ Spared
           locked == {id \in stale : job[id].state = "active"}
           healthy == req.kind = "replay" /\ job[Expected].state \in Healthy
       IN  \/ healthy /\ NoFault /\ Answer /\ UNCHANGED <<job, doubt>>
           \/ /\ ~healthy /\ NoFault /\ job' = Without(stale \ locked)
              /\ IF locked # {} THEN OnQueueError
                 ELSE IF req.kind = "replay" THEN Goto("add") /\ UNCHANGED <<doubt>>
                 ELSE Answer /\ UNCHANGED doubt
           \/ /\ Fault /\ OnQueueError
              /\ \E S \in SUBSET (stale \ locked) : job' = Without(IF healthy THEN {} ELSE S)
    /\ claimer' = IF \E id \in JobIds \cap {claimer} : job'[id].state # "none" THEN claimer ELSE 0
    /\ UNCHANGED <<row, delivered, work, now, exits>>

\* The conditional roll-back: only while the row still has the schedule of this request.
Rollback ==
    /\ req.step = "rollback" /\ BreakOff
    /\ LET old == WithSchedule(row, req.orig)
       IN  IF row.status = "QUEUED" THEN Written(old) \/ MayBeWritten(old) ELSE Written(row)
    /\ UNCHANGED <<job, delivered, work, claimer, now, exits>>

RequestSteps == Add \/ Clear \/ Rollback
Requests ==
    \/ \E t \in RunTimes : Create(t) \/ Patch(t)
    \/ Replay \/ PublishNow \/ Delete

-------------------------------------------------------------------------------
(***************************************************************************)
(* The worker process: BullMQ takes a due job, the worker claims the row.  *)
(***************************************************************************)
Step(step) == work' = [work EXCEPT !.step = step]
Done(outcome) == work' = [work EXCEPT !.step = "done", !.outcome = outcome]
OnlyWork == UNCHANGED <<req, doubt, now, exits>>

Take(id) ==
    /\ work.step = "idle" /\ job[id].state = "pending" /\ DueJob(id, now)
    /\ job' = [job EXCEPT ![id].state = "active"]
    /\ work' = [Idle EXCEPT !.id = id, !.step = "begin"]
    /\ OnlyWork /\ UNCHANGED <<row, delivered, claimer, faults>>

\* The plan of a SCHEDULED job is read, then the owner checked; an ended plan may show up.
BeginWork ==
    /\ work.step = "begin"
    /\ \/ \E ended \in (IF RunsNow(work.id) THEN {FALSE} ELSE BOOLEAN) :
             NoFault /\ work' = [work EXCEPT !.step = "claim", !.refused = ended]
       \/ Fault /\ Done("error")
    /\ OnlyWork /\ UNCHANGED <<row, job, delivered, claimer>>

Claim ==
    /\ work.step = "claim"
    /\ LET claimed == WithStatus(row, "PUBLISHING")
       IN  \/ /\ Claimable(row, work.id) /\ Written(claimed)
              /\ Step(IF work.refused /\ row.scheduledAt # NoSchedule THEN "settle" ELSE "deliver")
           \/ Claimable(row, work.id) /\ MayBeWritten(claimed) /\ Done("error")
           \/ ~Claimable(row, work.id) /\ Written(row) /\ Done("skipped")
           \/ ~Claimable(row, work.id) /\ MayBeWritten(row) /\ Done("error")
    /\ claimer' = IF row' # row THEN work.id ELSE claimer
    /\ OnlyWork /\ UNCHANGED <<job, delivered>>

\* The second owner check, the re-read of the row, and the provider.
Deliver ==
    /\ work.step = "deliver" /\ NoFault
    /\ \/ Step("settle") /\ delivered' \in {delivered, [delivered EXCEPT ![row.created] = @ + 1]}
       \/ Step("fail") /\ UNCHANGED delivered
    /\ OnlyWork /\ UNCHANGED <<row, job, claimer>>

\* Results and status are saved.  A refused post fails without a delivery.
Settle ==
    /\ work.step = "settle"
    /\ \E status \in (IF delivered[row.created] = 0 THEN {"FAILED"} ELSE Settled) :
          \/ Written(WithStatus(row, status)) /\ Done("ok")
          \/ MayBeWritten(WithStatus(row, status)) /\ Step("fail")
    /\ claimer' = IF row' # row THEN 0 ELSE claimer
    /\ OnlyWork /\ UNCHANGED <<job, delivered>>

RetriedStatus == "QUEUED"
ErrorStatus == "FAILED"
FailClosed ==
    /\ work.step = "fail"
    /\ LET failed == WithStatus(row, ErrorStatus) IN Written(failed) \/ MayBeWritten(failed)
    /\ Done("error")
    /\ claimer' = IF row' # row THEN 0 ELSE claimer
    /\ OnlyWork /\ UNCHANGED <<job, delivered>>

\* A retry that finds its post taken is kept as failed, for the operator.
KeepNever(j) == FALSE
KeepSkipped(j) == j.failures > 0 \/ j.stalls > 0          \* attemptsStarted > 1

Ended(j, outcome) ==
    IF outcome = "ok" \/ (outcome = "skipped" /\ ~KeepSkipped(j)) THEN NoJob    \* removeOnComplete
    ELSE IF outcome = "error" /\ j.failures + 1 < Attempts
         THEN [j EXCEPT !.state = "pending", !.failures = @ + 1]
         ELSE [j EXCEPT !.state = "failed", !.failures = IF outcome = "error" THEN @ + 1 ELSE @]

\* BullMQ moves the job on.  Without an answer of Redis it stays active, held by nobody.
EndJob ==
    /\ work.step = "done" /\ work' = Idle
    /\ LET j == Ended(job[work.id], work.outcome)
       IN  \/ NoFault /\ job' = [job EXCEPT ![work.id] = j] /\ doubt' = (doubt \/ j.state = "failed")
           \/ Fault /\ UNCHANGED <<job, doubt>>
    /\ UNCHANGED <<row, delivered, req, claimer, now, exits>>

\* The lock of a job nobody holds ends, and the stalled check takes the job up.
RecoverStalled(id) ==
    /\ job[id].state = "active" /\ work.id # id
    /\ IF job[id].stalls < StallLimit
       THEN job' = [job EXCEPT ![id].state = "pending", ![id].stalls = @ + 1] /\ UNCHANGED doubt
       ELSE job' = [job EXCEPT ![id].state = "failed"] /\ doubt' = TRUE
    /\ UNCHANGED <<row, delivered, req, work, claimer, now, faults, exits>>

WorkerSteps ==
    \/ \E id \in JobIds : Take(id) \/ RecoverStalled(id)
    \/ BeginWork \/ Claim \/ Deliver \/ Settle \/ FailClosed \/ EndJob

-------------------------------------------------------------------------------
(***************************************************************************)
(* Either process may exit at any point; both are started again at once.   *)
(***************************************************************************)
ApiExits ==
    /\ req # NoRequest /\ exits < MaxExits /\ exits' = exits + 1
    /\ BreakOff
    /\ UNCHANGED <<row, job, delivered, work, claimer, now, faults>>

WorkerExits ==
    /\ work # Idle /\ exits < MaxExits /\ exits' = exits + 1
    /\ work' = Idle
    /\ UNCHANGED <<row, job, delivered, req, doubt, claimer, now, faults>>

Tick ==
    /\ now < MaxTime /\ now' = now + 1
    /\ UNCHANGED <<row, job, delivered, req, work, doubt, claimer, faults, exits>>

Next == Requests \/ RequestSteps \/ WorkerSteps \/ ApiExits \/ WorkerExits \/ Tick

Spec == Init /\ [][Next]_vars

\* Awaits return, and BullMQ goes on with due and with stalled jobs.  Owners and clocks need not.
FairSpec == Spec /\ WF_vars(RequestSteps)
                 /\ \A id \in JobIds : WF_vars(Take(id)) /\ WF_vars(RecoverStalled(id))
                 /\ WF_vars(BeginWork \/ Claim \/ Deliver \/ Settle \/ FailClosed \/ EndJob)

-------------------------------------------------------------------------------
(***************************************************************************)
(* Correctness.                                                            *)
(***************************************************************************)
Skipping(id) == work.id = id /\ work.step = "done"
WillClaim(id) ==
    /\ job[id].state \in {"pending", "active"} /\ ~Skipping(id)
    /\ row.scheduledAt \in {NoSchedule, id}

\* Nothing is published before the time the owner last asked for, although the job of an earlier
\* schedule can outlive a failed removal, a crash, or a cancelled post made anew with its key.
NeverEarly == row.created # 0 /\ delivered[row.created] > 0 => row.scheduledAt <= now

\* publishWorkerRunnerPolicy.ts:46: the worker and BullMQ never drop the job that took a post
\* while the post is PUBLISHING: after crashes, stalls and failed writes it is left for the
\* operator.
KeepsEvidence == [][row.status = "PUBLISHING" /\ claimer # 0 /\ req' = req
                      => job'[claimer].state # "none" \/ row'.status # "PUBLISHING"]_vars

\* An accepted post that is due is claimed, or its job ends as failed, or its owner asks for
\* something else: attempts, stalls and exits never leave it waiting for ever, no removal takes
\* the replacement along and no add picks up a job of another time.  Excepted are posts whose
\* requests broke off, or whose job used up its attempts, with no new job since.
Awaiting == req = NoRequest /\ ~doubt /\ IsDue(row, now)
AcceptedIsTaken == Awaiting ~> ~Awaiting

\* ARCHITECTURE.md:3141: no schedule roll-back strands the row without a job.
RollbackKeepsJob == [][Rollback /\ NoFault /\ row'.status = "QUEUED" =>
                          \E id \in JobIds : WillClaim(id)']_vars

(***************************************************************************)
(* Refinement: this mode keeps the promise of PostDelivery as well, with   *)
(* each creation of the post as a post of its own.                         *)
(***************************************************************************)
CurrentPhase == CASE row.status = "REMOVED" -> "gone"
                  [] row.status = "QUEUED" -> "open"
                  [] row.status = "PUBLISHING" -> "taken"
                  [] OTHER -> "closed"
PhaseOf(n) == IF n > row.created THEN "open" ELSE IF n < row.created THEN "gone" ELSE CurrentPhase

Delivery == INSTANCE PostDelivery WITH
    Posts <- Creations, Platforms <- {"any"},
    phase <- [n \in Creations |-> PhaseOf(n)],
    delivered <- [n \in Creations |-> [f \in {"any"} |-> delivered[n]]]

ImplementsDelivery == Delivery!DeliverySpec
===============================================================================
