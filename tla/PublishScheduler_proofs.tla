------------------------ MODULE PublishScheduler_proofs ------------------------
(***************************************************************************)
(* For every set of posts and platforms, every limit and every number of   *)
(* faults and exits: type correctness of the scheduler, at most one        *)
(* provider post for each platform, what is sent and when, what is saved   *)
(* of it, what is kept while it is uncertain, and that all of it keeps the *)
(* promise of PostDelivery.  The same promise, and the job that is kept as *)
(* evidence, for publishing over BullMQ (QueuedPublish).                   *)
(***************************************************************************)
EXTENDS PublishScheduler, QueuedPublish, TLAPS

\* The writes of the store keep a row a row.
LEMMA RowWrites ==
  ASSUME NEW r \in Row
  PROVE  /\ \A s \in PostStatus : WithStatus(r, s) \in Row
         /\ \A t \in RunTimes : WithSchedule(r, t) \in Row
         /\ \A e \in Captions : WithCaption(r, e) \in Row
  BY DEF Row, WithStatus, WithSchedule, WithCaption

\* What a worker or recovery settles a post with is a settled status.
LEMMA SummaryIsSettled == \A outcomes : SummaryStatus(outcomes) \in Settled
  BY DEF SummaryStatus, Settled

LEMMA TimesAreNaturals == RunTimes \subseteq Nat /\ NoSchedule \in RunTimes /\ 0 \in Captions
  BY TimeAssumption DEF RunTimes, NoSchedule, Captions

\* The store's update by id changes one row to a given status, or nothing.
LEMMA UpdateEffect ==
  ASSUME TypeOK, NEW p \in Posts, NEW s \in PostStatus,
         UpdateSucceeds(p, s) \/ UpdateFails(p, s)
  PROVE  /\ row' \in [Posts -> Row]
         /\ faults' \in 0..MaxFaults
         /\ \A q \in Posts \ {p} : row'[q] = row[q]
         /\ row'[p] = row[p] \/ row'[p] = WithStatus(row[p], s)
<1>1. WithStatus(row[p], s) \in Row
  BY RowWrites DEF TypeOK
<1>2. faults' \in 0..MaxFaults
  BY SchedulerAssumption DEF UpdateSucceeds, UpdateFails, NoFault, Fault, TypeOK
<1>. QED BY <1>1, <1>2 DEF UpdateSucceeds, UpdateFails, MaySetRow, SetRow, TypeOK

LEMMA RowFields == TypeOK => \A p \in Posts :
    row[p].status \in PostStatus /\ row[p].scheduledAt \in RunTimes /\ row[p].caption \in Captions
  BY DEF TypeOK, Row

LEMMA FaultsBounded == TypeOK /\ (NoFault \/ Fault) => faults' \in 0..MaxFaults
  BY SchedulerAssumption DEF NoFault, Fault, TypeOK

-------------------------------------------------------------------------------
(***************************************************************************)
(* Type correctness.  The retries of a provider call are counted only      *)
(* while it has no result, and only in a worker that made a call.          *)
(***************************************************************************)
CallsCounted == \A p \in Posts :
    /\ ~started[p] => calls[p] = NoCalls
    /\ \A f \in Platforms : result[p][f] = "none" => calls[p][f] < CallLimit

TypeInv == TypeOK /\ CallsCounted

\* A worker belongs to the batch of the running poll, in a process that is not down.
WorkersInBatch == \A p \in Posts :
    /\ pc[p] # "idle" => snap[p] # NotInBatch /\ proc # "down"
    /\ snap[p] # NotInBatch => polling

LEMMA TypeInit == Init => TypeInv
<1> SUFFICES ASSUME Init PROVE TypeInv
  OBVIOUS
<1>1. row \in [Posts -> Row]
  <2>1. \A t \in RunTimes : [status |-> "QUEUED", scheduledAt |-> t, caption |-> 0] \in Row
    BY TimesAreNaturals DEF Row, PostStatus
  <2> DEFINE Fresh == {[status |-> "QUEUED", scheduledAt |-> t, caption |-> 0] : t \in RunTimes}
  <2>2. Fresh \subseteq Row
    BY <2>1
  <2>3. row \in [Posts -> Fresh]
    BY DEF Init
  <2>4. \A p \in Posts : row[p] \in Fresh
    BY <2>3
  <2>5. row = [p \in Posts |-> row[p]]
    BY <2>3
  <2> HIDE DEF Fresh
  <2>6. \A p \in Posts : row[p] \in Row
    BY <2>2, <2>4
  <2>. QED BY <2>5, <2>6
<1>2. NoResults \in [Platforms -> Outcomes] /\ NoCalls \in [Platforms -> 0..CallLimit]
  BY SchedulerAssumption DEF NoResults, NoCalls, Outcomes
<1>4. /\ receipt \in [Posts -> [Platforms -> {"none", "PUBLISHED", "FAILED"}]]
      /\ accepted \in [Posts -> [Platforms -> Nat]]
  BY DEF Init, NoResults, NoCalls
<1>5. TypeOK
  <2>1. /\ retained \in [Posts -> BOOLEAN] /\ owner = "ACTIVE" /\ plan = "PAID"
        /\ sentCaption \in [Posts -> Captions] /\ proc = "up" /\ polling = FALSE
        /\ pollFailed = FALSE /\ pollHealthy = TRUE /\ needsReconciliation = FALSE
    BY TimesAreNaturals DEF Init
  <2>2. /\ snap \in [Posts -> RunTimes \cup {NotInBatch}] /\ snapCaption \in [Posts -> Captions]
        /\ pc \in [Posts -> Steps] /\ runAt \in [Posts -> RunTimes]
    BY TimesAreNaturals DEF Init, Steps, NoSchedule
  <2>3. /\ planEnded \in [Posts -> BOOLEAN] /\ refused \in [Posts -> BOOLEAN]
        /\ started \in [Posts -> BOOLEAN] /\ keep \in [Posts -> BOOLEAN]
        /\ calls \in [Posts -> [Platforms -> 0..CallLimit]]
        /\ result \in [Posts -> [Platforms -> Outcomes]]
    BY <1>2 DEF Init
  <2>4. /\ attempt \in [Posts -> 0..AttemptLimit]
        /\ now \in RunTimes /\ faults \in 0..MaxFaults /\ exits \in 0..MaxExits
    BY SchedulerAssumption, TimesAreNaturals DEF Init, NoSchedule
  <2>. QED BY <1>1, <1>4, <2>1, <2>2, <2>3, <2>4 DEF TypeOK
<1>3. CallsCounted
  BY SchedulerAssumption DEF Init, CallsCounted, NoCalls, NoResults
<1>. QED BY <1>3, <1>5 DEF TypeInv

LEMMA PollKeepsType ==
  ASSUME TypeInv, StartPoll \/ PollReadFails \/ EndPoll PROVE TypeInv'
<1> USE FaultsBounded DEF TypeInv, TypeOK, CallsCounted, store, extern, poll, local, env
<1>1. CASE StartPoll
  BY <1>1, TimesAreNaturals, RowFields DEF StartPoll
<1>2. CASE PollReadFails
  BY <1>2 DEF PollReadFails
<1>3. CASE EndPoll
  BY <1>3, TimesAreNaturals DEF EndPoll, ClearBatch
<1>. QED BY <1>1, <1>2, <1>3

LEMMA AdmissionKeepsType ==
  ASSUME TypeInv, NEW p \in Posts, Admit(p) \/ AdmitFails(p) PROVE TypeInv'
<1> USE FaultsBounded, TimesAreNaturals
    DEF TypeInv, TypeOK, CallsCounted, store, extern, poll, local, env
<1>1. CASE Admit(p)
  BY <1>1, SchedulerAssumption DEF Admit, BeginAttempt, Goto, Steps, NotInBatch
<1>2. CASE AdmitFails(p)
  BY ZenonT(60), <1>2 DEF AdmitFails, LeaveBatch, NotInBatch
<1>. QED BY <1>1, <1>2

LEMMA ReadsKeepType ==
  ASSUME TypeInv, NEW p \in Posts, ReadPlan(p) \/ AssertOwnerActive(p) \/ Recheck(p) \/ Reread(p)
  PROVE  TypeInv'
<1> USE FaultsBounded
    DEF TypeInv, TypeOK, CallsCounted, store, extern, poll, local, env, Goto, ThrowNested, Steps
<1>1. CASE ReadPlan(p)
  BY ZenonT(60), <1>1 DEF ReadPlan
<1>2. CASE AssertOwnerActive(p)
  BY ZenonT(60), <1>2 DEF AssertOwnerActive
<1>3. CASE Recheck(p)
  <2>1. /\ UNCHANGED <<row, receipt, retained, owner, plan>> /\ UNCHANGED <<accepted, sentCaption>>
        /\ UNCHANGED <<proc, polling, snap, snapCaption, pollFailed, pollHealthy, needsReconciliation>>
        /\ UNCHANGED <<attempt, runAt, planEnded, refused, started, calls, keep, now, exits>>
    BY <1>3 DEF Recheck
  <2>2. faults' \in 0..MaxFaults
    BY <1>3 DEF Recheck
  <2>3. pc' \in [Posts -> Steps]
    BY ZenonT(60), <1>3 DEF Recheck
  <2>4. /\ result' \in [Posts -> [Platforms -> Outcomes]]
        /\ \A q \in Posts, f \in Platforms : result'[q][f] = "none" => result[q][f] = "none"
    <3>1. result' = result \/ result' = [result EXCEPT ![p] = [f \in Platforms |-> "FAILED"]]
      BY <1>3 DEF Recheck
    <3>2. [f \in Platforms |-> "FAILED"] \in [Platforms -> Outcomes]
      BY DEF Outcomes
    <3>. QED BY ONLY <3>1, <3>2, result \in [Posts -> [Platforms -> Outcomes]]
  <2>5. TypeOK'
    BY <2>1, <2>2, <2>3, <2>4
  <2>6. CallsCounted'
    BY <2>1, <2>4
  <2>. QED BY <2>5, <2>6
<1>4. CASE Reread(p)
  <2>1. Content(p) \in Captions
    BY RowFields DEF Content
  <2>2. sentCaption' \in [Posts -> Captions]
    BY ZenonT(60), <1>4, <2>1 DEF Reread
  <2>3. faults' \in 0..MaxFaults /\ pc' \in [Posts -> Steps]
    BY <1>4 DEF Reread
  <2>. QED BY <1>4, <2>2, <2>3 DEF Reread
<1>. QED BY <1>1, <1>2, <1>3, <1>4

LEMMA ClaimKeepsType ==
  ASSUME TypeInv, NEW p \in Posts, Claim(p) PROVE TypeInv'
<1>1. row' \in [Posts -> Row]
  <2>1. WithStatus(row[p], "PUBLISHING") \in Row
    BY RowWrites DEF TypeInv, TypeOK, PostStatus
  <2>2. row' = row \/ row' = [row EXCEPT ![p] = WithStatus(row[p], "PUBLISHING")]
    BY DEF Claim, SetRow, MaySetRow
  <2>3. row \in [Posts -> Row]
    BY DEF TypeInv, TypeOK
  <2>. QED BY <2>1, <2>2, <2>3
<1>2. /\ UNCHANGED <<receipt, retained, owner, plan, accepted, sentCaption>>
      /\ UNCHANGED <<proc, polling, snap, snapCaption, pollFailed, pollHealthy, needsReconciliation>>
      /\ UNCHANGED <<attempt, runAt, planEnded, started, calls, result, now, exits>>
  BY DEF Claim, extern, poll, env
<1>3. faults' \in 0..MaxFaults
  BY FaultsBounded DEF Claim, TypeInv
<1>4. /\ pc' \in [Posts -> Steps] /\ refused' \in [Posts -> BOOLEAN]
      /\ keep' \in [Posts -> BOOLEAN]
  BY DEF Claim, Goto, ThrowNested, Steps, Refused, TypeInv, TypeOK
<1>5. TypeOK'
  BY <1>1, <1>2, <1>3, <1>4 DEF TypeInv, TypeOK
<1>6. CallsCounted'
  BY <1>2 DEF TypeInv, CallsCounted
<1>. QED BY <1>5, <1>6 DEF TypeInv

LEMMA CallKeepsType ==
  ASSUME TypeInv, NEW p \in Posts, NEW f \in Platforms, CallProvider(p, f) PROVE TypeInv'
<1> USE DEF TypeInv, TypeOK
<1>1. UNCHANGED <<store, sentCaption, poll, pc, attempt, runAt, planEnded, refused, keep, env, faults>>
      /\ started' = [started EXCEPT ![p] = TRUE] /\ result[p][f] = "none"
  BY DEF CallProvider
<1>2. ASSUME NEW n \in {0, 1}, NEW o \in Outcomes \ {"none"}, Answer(p, f, n, o) PROVE TypeInv'
  <2>1. accepted[p][f] + n \in Nat
    OBVIOUS
  <2>2. accepted' \in [Posts -> [Platforms -> Nat]]
    BY <2>1, <1>2 DEF Answer
  <2>3. result' \in [Posts -> [Platforms -> Outcomes]] /\ calls' = calls
    BY <1>2 DEF Answer
  <2>4. TypeOK'
    BY <1>1, <2>2, <2>3 DEF store, poll, env
  <2>5. CallsCounted'
    BY <1>1, <1>2, <2>3 DEF CallsCounted, Answer
  <2>. QED BY <2>4, <2>5
<1>3. ASSUME calls' = [calls EXCEPT ![p][f] = @ + 1], UNCHANGED accepted,
             result' = [result EXCEPT ![p][f] = IF RetriesSpent(p, f) THEN "FAILED" ELSE "none"]
      PROVE  TypeInv'
  <2>1. calls[p][f] < CallLimit
    BY <1>1 DEF CallsCounted
  <2>2. calls[p][f] + 1 \in 0..CallLimit
    BY <2>1, SchedulerAssumption
  <2>3. calls' \in [Posts -> [Platforms -> 0..CallLimit]]
    BY <1>3, <2>2
  <2>4. result' \in [Posts -> [Platforms -> Outcomes]]
    BY <1>3 DEF Outcomes
  <2>5. TypeOK'
    BY <1>1, <1>3, <2>3, <2>4 DEF store, poll, env
  <2>6. CallsCounted'
    BY <1>1, <1>3, <2>2, SchedulerAssumption DEF CallsCounted, RetriesSpent
  <2>. QED BY <2>5, <2>6
<1>. QED BY <1>2, <1>3 DEF CallProvider, Outcomes

LEMMA AnsweredKeepsType ==
  ASSUME TypeInv, NEW p \in Posts, Answered(p) PROVE TypeInv'
  BY DEF TypeInv, TypeOK, CallsCounted, store, extern, poll, local, env, Goto, Steps, Answered

LEMMA SettlingKeepsType ==
  ASSUME TypeInv, NEW p \in Posts,
         RecordResults(p) \/ SettleStatus(p) \/ FailClosed(p) \/ CatchAfterCall(p)
  PROVE  TypeInv'
<1> USE DEF TypeInv, TypeOK, CallsCounted, store, extern, poll, local, env, Goto, ThrowNested, Steps
<1>1. CASE RecordResults(p)
  <2>1. receipt' \in [Posts -> [Platforms -> {"none", "PUBLISHED", "FAILED"}]]
    <3>1. \A S \in SUBSET Platforms :
             [f \in Platforms |-> IF f \in S THEN Saved(result[p][f]) ELSE receipt[p][f]]
               \in [Platforms -> {"none", "PUBLISHED", "FAILED"}]
      BY DEF Saved
    <3>2. \E S \in SUBSET Platforms : receipt' = [receipt EXCEPT ![p] =
             [f \in Platforms |-> IF f \in S THEN Saved(result[p][f]) ELSE receipt[p][f]]]
      BY <1>1 DEF RecordResults
    <3>. QED BY ONLY <3>1, <3>2,
                receipt \in [Posts -> [Platforms -> {"none", "PUBLISHED", "FAILED"}]]
  <2>2. keep' \in [Posts -> BOOLEAN]
    BY <1>1 DEF RecordResults, Uncertain
  <2>3. faults' \in 0..MaxFaults /\ pc' \in [Posts -> Steps]
    BY <1>1, FaultsBounded DEF RecordResults, OnReceiptFault
  <2>. QED BY <1>1, <2>1, <2>2, <2>3 DEF RecordResults
<1>2. CASE SettleStatus(p)
  <2>1. SummaryStatus(result[p]) \in PostStatus
    BY SummaryIsSettled DEF PostStatus
  <2>2. row' \in [Posts -> Row] /\ faults' \in 0..MaxFaults
    BY <1>2, <2>1, UpdateEffect DEF SettleStatus
  <2>. QED BY <1>2, <2>2 DEF SettleStatus, Uncertain
<1>3. CASE FailClosed(p)
  <2>1. row' \in [Posts -> Row] /\ faults' \in 0..MaxFaults
    BY <1>3, UpdateEffect DEF FailClosed, PostStatus, Settled
  <2>. QED BY <1>3, <2>1 DEF FailClosed
<1>4. CASE CatchAfterCall(p)
  BY <1>4 DEF CatchAfterCall
<1>. QED BY <1>1, <1>2, <1>3, <1>4

LEMMA CatchKeepsType ==
  ASSUME TypeInv, WorkersInBatch, NEW p \in Posts, Requeue(p) \/ GiveUp(p) PROVE TypeInv'
<1> USE SchedulerAssumption, TimesAreNaturals
    DEF TypeInv, TypeOK, store, extern, poll, local, env, Goto, Steps
<1>1. CASE Requeue(p)
  <2>1. row' \in [Posts -> Row] /\ faults' \in 0..MaxFaults
    BY <1>1, UpdateEffect DEF Requeue, CatchWriteFails, PostStatus
  <2>2. /\ attempt' \in [Posts -> 0..AttemptLimit] /\ runAt' \in [Posts -> RunTimes]
        /\ planEnded' \in [Posts -> BOOLEAN] /\ pc' \in [Posts -> Steps]
        /\ keep' \in [Posts -> BOOLEAN] /\ pollFailed' \in BOOLEAN
    <3>1. attempt[p] < AttemptLimit => NextAttempt(p) \in 0..AttemptLimit
      BY DEF NextAttempt
    <3>2. CASE BeginAttempt(p, NextAttempt(p)) /\ UNCHANGED <<keep, pollFailed>>
      <4>1. snap[p] \in RunTimes
        BY <1>1 DEF Requeue, WorkersInBatch
      <4>. QED BY <1>1, <3>1, <3>2, <4>1 DEF Requeue, BeginAttempt
    <3>3. CASE CatchWriteFails(p, "QUEUED")
      BY <3>3 DEF CatchWriteFails
    <3>. QED BY <1>1, <3>2, <3>3 DEF Requeue
  <2>3. NoResults \in [Platforms -> Outcomes]
    BY DEF NoResults, Outcomes
  <2>4. TypeOK'
    BY <1>1, <2>1, <2>2, <2>3 DEF Requeue
  <2>5. CallsCounted'
    BY <1>1 DEF Requeue, Retryable, CallsCounted, NoCalls, NoResults
  <2>. QED BY <2>4, <2>5
<1>2. CASE GiveUp(p)
  <2>1. row' \in [Posts -> Row] /\ faults' \in 0..MaxFaults
    BY <1>2, UpdateEffect DEF GiveUp, CatchWriteFails, PostStatus, Settled
  <2>. QED BY <1>2, <2>1 DEF GiveUp, CatchWriteFails, CallsCounted
<1>. QED BY <1>1, <1>2

LEMMA EmptyResults ==
  /\ NoResults \in [Platforms -> Outcomes] /\ NoCalls \in [Platforms -> 0..CallLimit]
  /\ \A f \in Platforms : NoCalls[f] < CallLimit
  BY SchedulerAssumption DEF NoResults, NoCalls, Outcomes

LEMMA FinishKeepsType ==
  ASSUME TypeInv, NEW p \in Posts, Finish(p) PROVE TypeInv'
<1> USE SchedulerAssumption, TimesAreNaturals
    DEF TypeInv, TypeOK, CallsCounted, store, extern, poll, local, env, Finish, ForgetWorker,
        LeaveBatch
<1>1. faults' \in 0..MaxFaults /\ retained' \in [Posts -> BOOLEAN]
  BY FaultsBounded
<1>2. /\ pc' \in [Posts -> Steps] /\ attempt' \in [Posts -> 0..AttemptLimit]
      /\ runAt' \in [Posts -> RunTimes] /\ planEnded' \in [Posts -> BOOLEAN]
      /\ refused' \in [Posts -> BOOLEAN] /\ started' \in [Posts -> BOOLEAN]
      /\ keep' \in [Posts -> BOOLEAN] /\ snap' \in [Posts -> RunTimes \cup {NotInBatch}]
      /\ snapCaption' \in [Posts -> Captions]
  BY DEF Steps, NoSchedule
<1>3. /\ calls' \in [Posts -> [Platforms -> 0..CallLimit]]
      /\ result' \in [Posts -> [Platforms -> Outcomes]]
  BY EmptyResults
<1>4. TypeOK'
  BY <1>1, <1>2, <1>3
<1>5. CallsCounted'
  BY EmptyResults
<1>. QED BY <1>4, <1>5

LEMMA LifetimeKeepsType ==
  ASSUME TypeInv, Stop \/ Drained \/ Crash \/ Start PROVE TypeInv'
<1> USE SchedulerAssumption, TimesAreNaturals
    DEF TypeInv, TypeOK, store, extern, poll, local, env
<1>1. CASE Stop
  BY <1>1 DEF Stop, CallsCounted
<1>2. CASE Drained
  BY <1>2 DEF Drained, CallsCounted
<1>3. CASE Crash
  <2>1. /\ calls' \in [Posts -> [Platforms -> 0..CallLimit]]
        /\ result' \in [Posts -> [Platforms -> Outcomes]]
    BY <1>3, EmptyResults DEF Crash
  <2>2. /\ pc' \in [Posts -> Steps] /\ attempt' \in [Posts -> 0..AttemptLimit]
        /\ runAt' \in [Posts -> RunTimes] /\ planEnded' \in [Posts -> BOOLEAN]
        /\ refused' \in [Posts -> BOOLEAN] /\ started' \in [Posts -> BOOLEAN]
        /\ keep' \in [Posts -> BOOLEAN] /\ retained' \in [Posts -> BOOLEAN]
    BY <1>3 DEF Crash, Steps, NoSchedule
  <2>3. /\ snap' \in [Posts -> RunTimes \cup {NotInBatch}] /\ snapCaption' \in [Posts -> Captions]
        /\ exits' \in 0..MaxExits
    BY <1>3 DEF Crash, ClearBatch
  <2>4. TypeOK'
    BY <1>3, <2>1, <2>2, <2>3 DEF Crash
  <2>5. CallsCounted'
    BY <1>3, EmptyResults DEF Crash, CallsCounted
  <2>. QED BY <2>4, <2>5
<1>4. CASE Start
  <2>1. ASSUME NEW P \in SUBSET Posts, Recover(P) PROVE row' \in [Posts -> Row]
    <3>1. \A p \in Posts : WithStatus(row[p], RecoveredStatus(p)) \in Row
      BY RowWrites, SummaryIsSettled DEF RecoveredStatus, PostStatus
    <3>. QED BY <2>1, <3>1 DEF Recover
  <2>2. row' \in [Posts -> Row] /\ faults' \in 0..MaxFaults
    BY <1>4, <2>1, FaultsBounded DEF Start
  <2>3. needsReconciliation' \in BOOLEAN
    BY <1>4 DEF Start
  <2>4. TypeOK'
    BY <1>4, <2>2, <2>3 DEF Start
  <2>5. CallsCounted'
    BY <1>4 DEF Start, CallsCounted
  <2>. QED BY <2>4, <2>5
<1>. QED BY <1>1, <1>2, <1>3, <1>4

LEMMA EnvironmentKeepsType ==
  ASSUME TypeInv, Environment PROVE TypeInv'
<1> USE DEF TypeInv, TypeOK, CallsCounted, store, extern, poll, local, env, OnlyRow
<1>1. ASSUME NEW p \in Posts, NEW r \in Row, SetRow(p, r), OnlyRow PROVE TypeInv'
  BY <1>1 DEF SetRow
<1>2. ASSUME NEW p \in Posts, NEW t \in 1..MaxTime, Reschedule(p, t) PROVE TypeInv'
  <2>1. WithSchedule(row[p], t) \in Row
    BY RowWrites, TimeAssumption DEF RunTimes
  <2>. QED BY <1>1, <1>2, <2>1 DEF Reschedule
<1>3. ASSUME NEW p \in Posts, PublishNow(p) PROVE TypeInv'
  <2>1. WithSchedule(row[p], NoSchedule) \in Row
    BY RowWrites, TimesAreNaturals
  <2>. QED BY <1>1, <1>3, <2>1 DEF PublishNow
<1>4. ASSUME NEW p \in Posts, EditCaption(p) PROVE TypeInv'
  <2>1. row[p].caption + 1 \in Captions
    BY <1>4, TimeAssumption, RowFields DEF EditCaption, Captions
  <2>2. WithCaption(row[p], row[p].caption + 1) \in Row
    BY <2>1, RowWrites
  <2>. QED BY <1>1, <1>4, <2>2 DEF EditCaption
<1>5. ASSUME NEW p \in Posts, RemovePost(p) PROVE TypeInv'
  <2>1. WithStatus(row[p], "REMOVED") \in Row
    BY RowWrites DEF PostStatus
  <2>. QED BY <1>1, <1>5, <2>1 DEF RemovePost
<1>6. CASE Seal \/ BeginCleanup \/ PlanChanges
  BY <1>6 DEF Seal, BeginCleanup, PlanChanges
<1>7. CASE PurgePosts
  <2>1. \A p \in Posts : WithStatus(row[p], "REMOVED") \in Row
    BY RowWrites DEF PostStatus
  <2>. QED BY <1>7, <2>1 DEF PurgePosts
<1>8. CASE Tick
  <2>1. now' \in RunTimes
    BY <1>8, TimeAssumption DEF Tick, RunTimes
  <2>. QED BY <1>8, <2>1 DEF Tick
<1>. QED BY <1>2, <1>3, <1>4, <1>5, <1>6, <1>7, <1>8 DEF Environment, OwnerRequests

LEMMA BatchPreserved ==
  ASSUME TypeInv, WorkersInBatch, [Next]_vars PROVE WorkersInBatch'
<1> USE DEF TypeInv, TypeOK, WorkersInBatch, store, extern, poll, local, env, vars, Goto, ThrowNested
<1>1. ASSUME NEW p \in Posts, Worker(p) PROVE WorkersInBatch'
  <2>1. CASE Admit(p) \/ AdmitFails(p)
    BY <2>1 DEF Admit, AdmitFails, BeginAttempt, LeaveBatch
  <2>2. CASE Finish(p)
    BY <2>2 DEF Finish, ForgetWorker, LeaveBatch
  <2>3. CASE ReadPlan(p) \/ AssertOwnerActive(p) \/ Claim(p) \/ Recheck(p) \/ Reread(p)
    BY <2>3 DEF ReadPlan, AssertOwnerActive, Claim, Recheck, Reread
  <2>4. CASE (\E f \in Platforms : CallProvider(p, f)) \/ Answered(p) \/ RecordResults(p)
    BY <2>4 DEF CallProvider, Answered, RecordResults
  <2>5. CASE SettleStatus(p) \/ FailClosed(p) \/ CatchAfterCall(p)
    BY <2>5 DEF SettleStatus, FailClosed, CatchAfterCall
  <2>6. CASE Requeue(p) \/ GiveUp(p)
    BY <2>6 DEF Requeue, GiveUp, BeginAttempt, CatchWriteFails
  <2>. QED BY <1>1, <2>1, <2>2, <2>3, <2>4, <2>5, <2>6 DEF Worker
<1>2. CASE StartPoll \/ PollReadFails \/ EndPoll
  BY <1>2 DEF StartPoll, PollReadFails, EndPoll, ClearBatch
<1>3. CASE Lifetime
  BY <1>3 DEF Lifetime, Stop, Drained, Crash, Start, ClearBatch
<1>4. CASE Environment
  BY <1>4 DEF Environment, OwnerRequests, PublishNow, EditCaption, RemovePost, Reschedule, OnlyRow,
              Seal, BeginCleanup, PurgePosts, Tick, PlanChanges
<1>5. CASE UNCHANGED vars
  BY <1>5
<1>. QED BY <1>1, <1>2, <1>3, <1>4, <1>5 DEF Next, System

LEMMA TypePreserved == TypeInv /\ WorkersInBatch /\ [Next]_vars => TypeInv'
<1> SUFFICES ASSUME TypeInv, WorkersInBatch, [Next]_vars PROVE TypeInv'
  OBVIOUS
<1>1. CASE System
  BY <1>1, PollKeepsType, AdmissionKeepsType, ReadsKeepType, ClaimKeepsType, CallKeepsType,
     AnsweredKeepsType, SettlingKeepsType, CatchKeepsType, FinishKeepsType DEF System, Worker
<1>2. CASE Lifetime
  BY <1>2, LifetimeKeepsType DEF Lifetime
<1>3. CASE Environment
  BY <1>3, EnvironmentKeepsType
<1>4. CASE UNCHANGED vars
  BY <1>4 DEF TypeInv, TypeOK, CallsCounted, vars, store, extern, poll, local, env
<1>. QED BY <1>1, <1>2, <1>3, <1>4 DEF Next

\* The type invariant of the posts, the receipts, the poll and the workers holds in every
\* reachable state; provider calls and attempts stay within their limits.
THEOREM TypeCorrect == Spec => []TypeOK
<1>1. Init => TypeInv /\ WorkersInBatch
  BY TypeInit DEF Init, WorkersInBatch
<1>2. TypeInv /\ WorkersInBatch /\ [Next]_vars => (TypeInv /\ WorkersInBatch)'
  BY TypePreserved, BatchPreserved
<1>3. TypeInv => TypeOK
  BY DEF TypeInv
<1>. QED BY <1>1, <1>2, <1>3, PTL DEF Spec

-------------------------------------------------------------------------------
(***************************************************************************)
(* At most one provider post for each platform.  A worker may only call    *)
(* for a platform while it has no answer from it; a post can only be       *)
(* claimed again while nothing was sent at all, which is so as long as its *)
(* worker made no call.                                                    *)
(***************************************************************************)
Unsent(p) == \A f \in Platforms : accepted[p][f] = 0
Called == {"publish", "record", "settle", "fail", "caught", "finish"}

PostInv(p) ==
    /\ row[p].status = "QUEUED" => Unsent(p)
    /\ snap[p] # NotInBatch /\ ~started[p] => Unsent(p)
    /\ started[p] => pc[p] \in Called
    /\ started[p] \/ pc[p] \in {"recheck", "reread", "publish"} => row[p].status # "QUEUED"
    /\ pc[p] = "publish" => \A f \in Platforms : result[p][f] = "none" => accepted[p][f] = 0
    /\ \A f \in Platforms : accepted[p][f] <= 1

DeliveryInv == \A p \in Posts : PostInv(p)

SInv == TypeInv /\ WorkersInBatch /\ DeliveryInv

LEMMA RowEdits ==
  \A r \in Row : /\ \A t : WithSchedule(r, t).status = r.status
                /\ \A e : WithCaption(r, e).status = r.status
  BY DEF Row, WithSchedule, WithCaption

LEMMA NewStatus == \A r \in Row, s \in PostStatus : WithStatus(r, s).status = s
  BY DEF Row, WithStatus

LEMMA DeliveryInit == Init => DeliveryInv
  BY DEF Init, DeliveryInv, PostInv, Unsent, NoCalls

\* A step of one worker leaves the invariant of the other posts alone.
Others(p) == \A q \in Posts \ {p} :
    /\ row'[q] = row[q] /\ snap'[q] = snap[q] /\ started'[q] = started[q]
    /\ pc'[q] = pc[q] /\ result'[q] = result[q] /\ accepted'[q] = accepted[q]

LEMMA OnlyOnePost ==
  ASSUME DeliveryInv, NEW p \in Posts, PostInv(p)', Others(p) PROVE DeliveryInv'
  BY DEF DeliveryInv, PostInv, Unsent, Others

LEMMA CallDelivers ==
  ASSUME SInv, NEW p \in Posts, NEW f \in Platforms, CallProvider(p, f) PROVE DeliveryInv'
<1> USE DEF SInv, TypeInv, TypeOK
<1>1. /\ UNCHANGED <<row, snap, pc>> /\ started' = [started EXCEPT ![p] = TRUE]
      /\ pc[p] = "publish" /\ result[p][f] = "none" /\ accepted[p][f] = 0
  BY DEF CallProvider, DeliveryInv, PostInv, store, poll
<1>2. ASSUME NEW n \in {0, 1}, NEW o \in Outcomes \ {"none"}, Answer(p, f, n, o)
      PROVE  DeliveryInv'
  <2>1. /\ accepted' = [accepted EXCEPT ![p] = [accepted[p] EXCEPT ![f] = n]]
        /\ result' = [result EXCEPT ![p] = [result[p] EXCEPT ![f] = o]]
    BY <1>1, <1>2 DEF Answer
  <2>. QED BY <1>1, <2>1 DEF DeliveryInv, PostInv, Unsent, Called
<1>3. ASSUME UNCHANGED accepted, NEW o \in Outcomes,
             result' = [result EXCEPT ![p][f] = o]
      PROVE  DeliveryInv'
  BY <1>1, <1>3 DEF DeliveryInv, PostInv, Unsent, Called
<1>4. (IF RetriesSpent(p, f) THEN "FAILED" ELSE "none") \in Outcomes
  BY DEF Outcomes
<1>. QED BY <1>2, <1>3, <1>4 DEF CallProvider, Outcomes

\* The worker's other steps send nothing.
LEMMA WorkerDelivers ==
  ASSUME SInv, NEW p \in Posts, Worker(p) PROVE DeliveryInv'
<1> USE DEF SInv, TypeInv, TypeOK, WorkersInBatch, DeliveryInv, PostInv, store, extern, poll, local, env, Goto,
            ThrowNested
<1>1. CASE Admit(p) \/ AdmitFails(p)
  <2>1. UNCHANGED <<row, accepted, started, result>> /\ pc[p] = "idle" /\ snap[p] # NotInBatch
    BY <1>1 DEF Admit, AdmitFails
  <2>2. /\ pc' \in {pc, [pc EXCEPT ![p] = "plan"], [pc EXCEPT ![p] = "assert"]}
        /\ snap' \in {snap, [snap EXCEPT ![p] = NotInBatch]}
    BY <1>1 DEF Admit, AdmitFails, BeginAttempt, LeaveBatch
  <2>3. ~started[p] /\ Unsent(p)
    BY <2>1 DEF Called
  <2>4. PostInv(p)'
    BY <2>1, <2>2, <2>3 DEF Unsent
  <2>8. Others(p)
    BY <2>1, <2>2 DEF Others
  <2>. QED BY ONLY <2>8, <2>4, DeliveryInv, OnlyOnePost, p \in Posts
<1>2. CASE ReadPlan(p) \/ AssertOwnerActive(p)
  <2>1. UNCHANGED <<row, accepted, snap, started, result>> /\ pc[p] \in {"plan", "assert"}
    BY <1>2 DEF ReadPlan, AssertOwnerActive
  <2>2. pc' \in {[pc EXCEPT ![p] = "assert"], [pc EXCEPT ![p] = "claim"], [pc EXCEPT ![p] = "caught"]}
    BY <1>2 DEF ReadPlan, AssertOwnerActive
  <2>3. ~started[p] /\ Unsent(p)
    BY <2>1 DEF Called
  <2>4. PostInv(p)'
    BY <2>1, <2>2, <2>3 DEF Unsent
  <2>8. Others(p)
    BY <2>1, <2>2 DEF Others
  <2>. QED BY ONLY <2>8, <2>4, DeliveryInv, OnlyOnePost, p \in Posts
<1>3. CASE Claim(p)
  <2>1. UNCHANGED <<accepted, snap, started, result>> /\ pc[p] = "claim" /\ ~started[p]
    BY <1>3 DEF Claim, Called
  <2>2. /\ \/ row' = row /\ pc' \in {[pc EXCEPT ![p] = "finish"], [pc EXCEPT ![p] = "caught"]}
           \/ row' = [row EXCEPT ![p] = WithStatus(row[p], "PUBLISHING")]
              /\ pc' \in {[pc EXCEPT ![p] = "recheck"], [pc EXCEPT ![p] = "caught"]}
    BY <1>3 DEF Claim, SetRow, MaySetRow
  <2>3. WithStatus(row[p], "PUBLISHING").status = "PUBLISHING"
    BY NewStatus DEF PostStatus
  <2>. QED BY <2>1, <2>2, <2>3 DEF Unsent
<1>4. CASE Recheck(p)
  <2>1. UNCHANGED <<row, accepted, snap, started>> /\ pc[p] = "recheck" /\ ~started[p]
    BY <1>4 DEF Recheck, Called
  <2>2. /\ pc' \in {[pc EXCEPT ![p] = "fail"], [pc EXCEPT ![p] = "reread"], [pc EXCEPT ![p] = "record"]}
        /\ \A q \in Posts \ {p} : result'[q] = result[q]
    BY <1>4 DEF Recheck
  <2>. QED BY <2>1, <2>2 DEF Unsent
<1>5. CASE Reread(p)
  BY <1>5 DEF Reread, Unsent, Called
<1>6. CASE \E f \in Platforms : CallProvider(p, f)
  BY <1>6, CallDelivers
<1>7. CASE Answered(p) \/ RecordResults(p)
  BY <1>7 DEF Answered, RecordResults, OnReceiptFault, Unsent, Called
<1>8. CASE SettleStatus(p) \/ FailClosed(p)
  <2>1. /\ UNCHANGED <<accepted, snap, started, result>>
        /\ pc' \in {[pc EXCEPT ![p] = "finish"], [pc EXCEPT ![p] = "fail"], [pc EXCEPT ![p] = "caught"]}
    BY <1>8 DEF SettleStatus, FailClosed
  <2>2. PICK s \in Settled : UpdateSucceeds(p, s) \/ UpdateFails(p, s)
    BY <1>8, SummaryIsSettled DEF SettleStatus, FailClosed, Settled
  <2>3. s \in PostStatus /\ s # "QUEUED"
    BY DEF PostStatus, Settled
  <2>4. /\ \A q \in Posts \ {p} : row'[q] = row[q]
        /\ row'[p] = row[p] \/ row'[p] = WithStatus(row[p], s)
    BY <2>2, <2>3, UpdateEffect
  <2>5. row'[p].status = "QUEUED" => row[p].status = "QUEUED"
    BY <2>3, <2>4, NewStatus
  <2>6. pc[p] \in {"settle", "fail"}
    BY <1>8 DEF SettleStatus, FailClosed
  <2>7. PostInv(p)'
    BY <2>1, <2>5, <2>6 DEF Unsent, Called
  <2>8. Others(p)
    BY <2>1, <2>4 DEF Others
  <2>. QED BY ONLY <2>8, <2>7, DeliveryInv, OnlyOnePost, p \in Posts
<1>9. CASE CatchAfterCall(p)
  BY <1>9 DEF CatchAfterCall, Unsent, Called
<1>10. CASE Requeue(p)
  <2>1. UNCHANGED <<accepted, snap, started>> /\ pc[p] = "caught" /\ ~started[p]
    BY <1>10 DEF Requeue, Retryable
  <2>2. pc' \in {[pc EXCEPT ![p] = "assert"], [pc EXCEPT ![p] = "plan"], [pc EXCEPT ![p] = "finish"]}
    BY <1>10 DEF Requeue, BeginAttempt, CatchWriteFails
  <2>3. \A q \in Posts \ {p} : row'[q] = row[q] /\ result'[q] = result[q]
    BY <1>10, UpdateEffect DEF Requeue, CatchWriteFails, PostStatus
  <2>4. Unsent(p) /\ Unsent(p)'
    BY <2>1 DEF Unsent
  <2>5. PostInv(p)'
    BY <2>1, <2>2, <2>4
  <2>8. Others(p)
    BY <2>1, <2>2, <2>3 DEF Others
  <2>. QED BY ONLY <2>8, <2>5, DeliveryInv, OnlyOnePost, p \in Posts
<1>11. CASE GiveUp(p)
  <2>1. UNCHANGED <<accepted, snap, started, result>> /\ pc[p] = "caught" /\ ~started[p]
    BY <1>11 DEF GiveUp, Retryable, CatchWriteFails
  <2>2. pc' = [pc EXCEPT ![p] = "finish"]
    BY <1>11 DEF GiveUp, CatchWriteFails
  <2>3. \A q \in Posts \ {p} : row'[q] = row[q]
    BY <1>11, UpdateEffect DEF GiveUp, CatchWriteFails, PostStatus, Settled
  <2>4. Unsent(p) /\ Unsent(p)'
    BY <2>1 DEF Unsent
  <2>5. PostInv(p)'
    BY <2>1, <2>2, <2>4
  <2>8. Others(p)
    BY <2>1, <2>2, <2>3 DEF Others
  <2>. QED BY ONLY <2>8, <2>5, DeliveryInv, OnlyOnePost, p \in Posts
<1>12. CASE Finish(p)
  BY <1>12 DEF Finish, ForgetWorker, LeaveBatch, Unsent
<1>. QED BY <1>1, <1>2, <1>3, <1>4, <1>5, <1>6, <1>7, <1>8, <1>9, <1>10, <1>11, <1>12 DEF Worker

\* Neither does the poll, the lifetime of the process or anything the owner does; no one but a
\* worker that made no call ever opens a post again.
LEMMA OthersDeliverNothing ==
  ASSUME SInv, StartPoll \/ PollReadFails \/ EndPoll \/ Lifetime \/ Environment \/ UNCHANGED vars
  PROVE  DeliveryInv'
<1> USE DEF SInv, TypeInv, TypeOK, WorkersInBatch, DeliveryInv, PostInv, store, extern, poll, local, env, vars
<1>1. CASE StartPoll \/ PollReadFails \/ EndPoll
  BY <1>1 DEF StartPoll, PollReadFails, EndPoll, ClearBatch, IsDue, Unsent
<1>2. CASE Stop \/ Drained
  BY <1>2 DEF Stop, Drained, Unsent
<1>3. CASE Crash
  BY <1>3 DEF Crash, ClearBatch, Unsent
<1>4. CASE Start
  <2>1. ASSUME NEW P \in SUBSET Posts, Recover(P), NEW p \in Posts, row'[p].status = "QUEUED"
        PROVE  row[p].status = "QUEUED"
    <3>1. RecoveredStatus(p) \in PostStatus \ {"QUEUED"}
      BY SummaryIsSettled DEF RecoveredStatus, PostStatus, Settled
    <3>. QED BY <2>1, <3>1, NewStatus DEF Recover
  <2>2. \A p \in Posts : row'[p].status = "QUEUED" => row[p].status = "QUEUED"
    BY <1>4, <2>1 DEF Start
  <2>. QED BY <1>4, <2>2 DEF Start, Unsent
<1>5. CASE OwnerRequests \/ PurgePosts
  <2>1. UNCHANGED <<accepted, snap, started, pc, result>>
    BY <1>5 DEF OwnerRequests, PublishNow, EditCaption, RemovePost, Reschedule, PurgePosts, OnlyRow
  <2>2. CASE PurgePosts
    <3>1. \A p \in Posts : row'[p].status = "REMOVED"
      BY <2>2, NewStatus DEF PurgePosts, PostStatus
    <3>. QED BY <2>1, <3>1 DEF Unsent
  <2>3. ASSUME NEW p \in Posts, row[p].status = "QUEUED", NEW r, SetRow(p, r) PROVE DeliveryInv'
    <3>1. /\ \A q \in Posts \ {p} : row'[q] = row[q]
          /\ ~started[p] /\ Unsent(p)
      BY <2>3 DEF SetRow
    <3>2. PostInv(p)'
      BY <2>1, <2>3, <3>1 DEF Unsent
    <3>3. Others(p)
      BY <2>1, <3>1 DEF Others
    <3>. QED BY ONLY <3>3, <3>2, DeliveryInv, OnlyOnePost, p \in Posts
  <2>. QED BY <1>5, <2>2, <2>3
           DEF OwnerRequests, PublishNow, EditCaption, RemovePost, Reschedule, MatchesSchedule,
               CanEditCaption
<1>6. CASE Seal \/ BeginCleanup \/ PlanChanges \/ Tick
  BY <1>6 DEF Seal, BeginCleanup, PlanChanges, Tick, Unsent
<1>7. CASE UNCHANGED vars
  BY <1>7 DEF Unsent
<1>. QED BY <1>1, <1>2, <1>3, <1>4, <1>5, <1>6, <1>7 DEF Lifetime, Environment

LEMMA SInvPreserved == SInv /\ [Next]_vars => SInv'
  BY TypePreserved, BatchPreserved, WorkerDelivers, OthersDeliverNothing DEF SInv, Next, System

\* The inductive invariant of delivery holds in every reachable state of the scheduler.
THEOREM Invariance == Spec => []SInv
<1>1. Init => SInv
  BY TypeInit, DeliveryInit DEF Init, SInv, WorkersInBatch
<1>. QED BY <1>1, SInvPreserved, PTL DEF Spec

\* No platform ever gets a second provider post, however many posts, platforms, faults, exits,
\* call retries and pre-publish attempts there are.
THEOREM DeliveredAtMostOnce == Spec => []AtMostOnce
<1>1. SInv => AtMostOnce
  BY DEF SInv, DeliveryInv, PostInv, AtMostOnce
<1>. QED BY <1>1, Invariance, PTL

-------------------------------------------------------------------------------
(***************************************************************************)
(* What is sent, and when.  From the claim on nobody but the worker writes *)
(* the row, so what was checked and read then is still so when the post is *)
(* sent, and for ever after.                                               *)
(***************************************************************************)
Claimed == {"recheck", "reread", "publish"}

SendInv(p) ==
    /\ snap[p] <= now /\ runAt[p] <= now
    /\ pc[p] \in Claimed \/ ~Unsent(p) => row[p].scheduledAt <= now
    /\ pc[p] = "publish" \/ ~Unsent(p) => sentCaption[p] = row[p].caption

SendsInv == \A p \in Posts : SendInv(p)

\* A new status leaves the time and the content alone.
LEMMA StatusEdits ==
  \A r \in Row : \A s : WithStatus(r, s).scheduledAt = r.scheduledAt /\ WithStatus(r, s).caption = r.caption
  BY DEF Row, WithStatus

LEMMA UpdateKeepsContent ==
  ASSUME TypeOK, NEW p \in Posts, NEW s \in PostStatus, UpdateSucceeds(p, s) \/ UpdateFails(p, s)
  PROVE  \A q \in Posts : row'[q].scheduledAt = row[q].scheduledAt /\ row'[q].caption = row[q].caption
<1>1. row[p] \in Row
  BY DEF TypeOK
<1>. QED BY <1>1, UpdateEffect, StatusEdits

LEMMA TimesAreIntegers == TypeInv => now \in Nat /\ \A p \in Posts :
    row[p] \in Row /\ row[p].scheduledAt \in Nat /\ runAt[p] \in Nat /\ snap[p] \in Nat \cup {-1}
  BY TimesAreNaturals, RowFields DEF TypeInv, TypeOK, NotInBatch

LEMMA SendInit == Init => SendsInv
  BY TimesAreNaturals DEF Init, SendsInv, SendInv, Unsent, NoCalls, NotInBatch, Claimed

\* What the invariant of a post speaks of, apart from what the row says.
SameSending(p) ==
    /\ snap'[p] \in {snap[p], NotInBatch} /\ runAt'[p] = runAt[p] /\ now' = now
    /\ accepted'[p] = accepted[p] /\ sentCaption'[p] = sentCaption[p]
    /\ row'[p].scheduledAt = row[p].scheduledAt /\ row'[p].caption = row[p].caption
    /\ pc'[p] \in Claimed => pc[p] \in Claimed /\ (pc'[p] = "publish" => pc[p] = "publish")

LEMMA SameSendingKeeps ==
  ASSUME TypeInv, NEW p \in Posts, SendInv(p), SameSending(p) PROVE SendInv(p)'
<1>1. now \in Nat
  BY TimesAreIntegers
<1>2. Unsent(p)' <=> Unsent(p)
  BY DEF SameSending, Unsent
<1>3. snap'[p] <= now' /\ runAt'[p] <= now'
  BY <1>1 DEF SendInv, SameSending, NotInBatch
<1>. QED BY <1>2, <1>3 DEF SendInv, SameSending, Claimed

LEMMA WorkerSends ==
  ASSUME SInv, SendsInv, NEW p \in Posts, Worker(p) PROVE SendsInv'
<1> USE DEF SInv, TypeInv, TypeOK, store, extern, poll, local, env, Goto, ThrowNested
<1>0. now \in Nat /\ \A q \in Posts :
         row[q] \in Row /\ row[q].scheduledAt \in Nat /\ runAt[q] \in Nat /\ snap[q] \in Nat \cup {-1}
  BY TimesAreIntegers
<1>1. ASSUME \A q \in Posts : SameSending(q) PROVE SendsInv'
  BY <1>1, SameSendingKeeps DEF SendsInv
<1>2. CASE Admit(p) \/ AdmitFails(p)
  <2>1. UNCHANGED <<row, accepted, sentCaption, now>>
    BY <1>2 DEF Admit, AdmitFails
  <2>2. CASE Admit(p)
    <3>1. pc[p] = "idle" /\ snap[p] # NotInBatch /\ snap' = snap
      BY <2>2 DEF Admit
    <3>2. /\ runAt' = [runAt EXCEPT ![p] = IF snap[p] = NoSchedule THEN now ELSE snap[p]]
          /\ pc' \in {[pc EXCEPT ![p] = "plan"], [pc EXCEPT ![p] = "assert"]}
      BY <2>2 DEF Admit, BeginAttempt
    <3>. QED BY <1>0, <2>1, <3>1, <3>2 DEF SendsInv, SendInv, Unsent, Claimed
  <2>3. CASE AdmitFails(p)
    BY <1>1, <2>1, <2>3 DEF AdmitFails, LeaveBatch, SameSending, Claimed
  <2>. QED BY <1>2, <2>2, <2>3
<1>3. CASE ReadPlan(p) \/ AssertOwnerActive(p) \/ Recheck(p)
  <2>1. \A q \in Posts : SameSending(q)
    BY <1>3 DEF ReadPlan, AssertOwnerActive, Recheck, SameSending, Claimed
  <2>. QED BY <1>1, <2>1
<1>4. CASE Claim(p)
  <2>1. UNCHANGED <<accepted, sentCaption, now, snap, runAt>> /\ pc[p] = "claim"
    BY <1>4 DEF Claim
  <2>2. CASE row' = row /\ pc' \in {[pc EXCEPT ![p] = "finish"], [pc EXCEPT ![p] = "caught"]}
    BY <1>1, <2>1, <2>2 DEF SameSending, Claimed
  <2>3. CASE /\ Claimable(row[p], runAt[p]) /\ row' = [row EXCEPT ![p] = WithStatus(row[p], "PUBLISHING")]
             /\ pc' \in {[pc EXCEPT ![p] = "recheck"], [pc EXCEPT ![p] = "caught"]}
    <3>1. row[p].scheduledAt <= now
      BY <1>0, <2>3 DEF Claimable, NoSchedule, SendsInv, SendInv
    <3>2. \A q \in Posts : row'[q].scheduledAt = row[q].scheduledAt /\ row'[q].caption = row[q].caption
      BY <1>0, <2>3, StatusEdits
    <3>. QED BY <2>1, <2>3, <3>1, <3>2 DEF SendsInv, SendInv, Unsent, Claimed
  <2>. QED BY <1>4, <2>2, <2>3 DEF Claim, SetRow, MaySetRow
<1>5. CASE Reread(p)
  <2>1. UNCHANGED <<row, accepted, now, snap, runAt>> /\ pc[p] = "reread" /\ Unsent(p)
    BY <1>5 DEF Reread, WorkersInBatch, DeliveryInv, PostInv, Called
  <2>2. \/ sentCaption' = sentCaption /\ pc' = [pc EXCEPT ![p] = "fail"]
        \/ sentCaption' = [sentCaption EXCEPT ![p] = row[p].caption] /\ pc' = [pc EXCEPT ![p] = "publish"]
    BY <1>5 DEF Reread, Content
  <2>. QED BY <2>1, <2>2 DEF SendsInv, SendInv, Unsent, Claimed
<1>6. CASE \E f \in Platforms : CallProvider(p, f)
  <2>1. UNCHANGED <<row, sentCaption, now, snap, runAt, pc>> /\ pc[p] = "publish"
    BY <1>6 DEF CallProvider
  <2>2. \A q \in Posts \ {p} : accepted'[q] = accepted[q]
    BY <1>6 DEF CallProvider, Answer
  <2>. QED BY <2>1, <2>2 DEF SendsInv, SendInv, Unsent, Claimed
<1>7. CASE Answered(p) \/ RecordResults(p)
  <2>1. \A q \in Posts : SameSending(q)
    BY <1>7 DEF Answered, RecordResults, OnReceiptFault, SameSending, Claimed
  <2>. QED BY <1>1, <2>1
<1>8. CASE SettleStatus(p) \/ FailClosed(p) \/ GiveUp(p)
  <2>1. UNCHANGED <<accepted, sentCaption, now, snap, runAt>>
    BY <1>8 DEF SettleStatus, FailClosed, GiveUp, CatchWriteFails
  <2>2. PICK s \in PostStatus : UpdateSucceeds(p, s) \/ UpdateFails(p, s)
    BY <1>8, SummaryIsSettled DEF SettleStatus, FailClosed, GiveUp, CatchWriteFails, PostStatus, Settled
  <2>3. \A q \in Posts : row'[q].scheduledAt = row[q].scheduledAt /\ row'[q].caption = row[q].caption
    BY <2>2, UpdateKeepsContent
  <2>4. pc' \in {[pc EXCEPT ![p] = "finish"], [pc EXCEPT ![p] = "fail"], [pc EXCEPT ![p] = "caught"]}
    BY <1>8 DEF SettleStatus, FailClosed, GiveUp, CatchWriteFails
  <2>. QED BY <1>1, <2>1, <2>3, <2>4 DEF SameSending, Claimed
<1>9. CASE CatchAfterCall(p)
  BY <1>1, <1>9 DEF CatchAfterCall, SameSending, Claimed
<1>10. CASE Requeue(p)
  <2>1. UNCHANGED <<accepted, sentCaption, now, snap>> /\ pc[p] = "caught" /\ snap[p] # NotInBatch
    BY <1>10 DEF Requeue, WorkersInBatch
  <2>2. \A q \in Posts : row'[q].scheduledAt = row[q].scheduledAt /\ row'[q].caption = row[q].caption
    BY <1>10, UpdateKeepsContent DEF Requeue, CatchWriteFails, PostStatus
  <2>3. /\ runAt' \in {runAt, [runAt EXCEPT ![p] = now], [runAt EXCEPT ![p] = snap[p]]}
        /\ pc' \in {[pc EXCEPT ![p] = "plan"], [pc EXCEPT ![p] = "assert"], [pc EXCEPT ![p] = "finish"]}
    BY <1>10 DEF Requeue, BeginAttempt, CatchWriteFails
  <2>4. \A q \in Posts : runAt'[q] <= now
    <3>1. now' = now /\ snap[p] <= now /\ \A q \in Posts : runAt[q] <= now
      BY <2>1 DEF SendsInv, SendInv
    <3>. QED BY ONLY <1>0, <2>3, <3>1, p \in Posts, runAt \in [Posts -> RunTimes]
  <2>5. \A q \in Posts : pc'[q] \in Claimed => pc'[q] = pc[q]
    BY <2>3 DEF Claimed
  <2>. QED BY <2>1, <2>2, <2>4, <2>5 DEF SendsInv, SendInv, Unsent, Claimed
<1>12. CASE Finish(p)
  BY <1>12, <1>0 DEF Finish, ForgetWorker, LeaveBatch, SendsInv, SendInv, Unsent, Claimed, NotInBatch
<1>. QED BY <1>2, <1>3, <1>4, <1>5, <1>6, <1>7, <1>8, <1>9, <1>10, <1>12 DEF Worker

\* Only posts that may still be edited are, and they were never sent; the clock goes forward.
LEMMA OthersSendNothing ==
  ASSUME SInv, SendsInv, StartPoll \/ PollReadFails \/ EndPoll \/ Lifetime \/ Environment \/ UNCHANGED vars
  PROVE  SendsInv'
<1> USE DEF SInv, TypeInv, TypeOK, store, extern, poll, local, env
<1>0. now \in Nat /\ \A q \in Posts :
         row[q] \in Row /\ row[q].scheduledAt \in Nat /\ runAt[q] \in Nat /\ snap[q] \in Nat \cup {-1}
  BY TimesAreIntegers
<1>1. ASSUME \A q \in Posts : SameSending(q) PROVE SendsInv'
  BY <1>1, SameSendingKeeps DEF SendsInv
<1>2. CASE StartPoll
  BY <1>0, <1>2 DEF StartPoll, IsDue, SendsInv, SendInv, Unsent, NotInBatch
<1>3. CASE PollReadFails \/ EndPoll \/ Stop \/ Drained \/ Seal \/ BeginCleanup \/ PlanChanges \/ UNCHANGED vars
  <2>1. \A q \in Posts : SameSending(q)
    BY <1>3 DEF PollReadFails, EndPoll, ClearBatch, Stop, Drained, Seal, BeginCleanup, PlanChanges, vars, SameSending
  <2>. QED BY <1>1, <2>1
<1>4. CASE Crash
  BY <1>0, <1>4 DEF Crash, ClearBatch, SendsInv, SendInv, Unsent, NotInBatch, Claimed
<1>5. CASE Start
  <2>1. \A q \in Posts : row'[q].scheduledAt = row[q].scheduledAt /\ row'[q].caption = row[q].caption
    <3>1. ASSUME NEW P \in SUBSET Posts, Recover(P), NEW q \in Posts
          PROVE  row'[q].scheduledAt = row[q].scheduledAt /\ row'[q].caption = row[q].caption
      BY <1>0, <3>1, StatusEdits DEF Recover
    <3>. QED BY <1>5, <3>1 DEF Start
  <2>. QED BY <1>1, <1>5, <2>1 DEF Start, SameSending
<1>6. CASE PurgePosts
  <2>1. \A q \in Posts : row'[q].scheduledAt = row[q].scheduledAt /\ row'[q].caption = row[q].caption
    BY <1>0, <1>6, StatusEdits DEF PurgePosts
  <2>. QED BY <1>1, <1>6, <2>1 DEF PurgePosts, OnlyRow, SameSending
<1>7. CASE OwnerRequests
  <2>1. UNCHANGED <<accepted, sentCaption, now, snap, runAt, pc>>
    BY <1>7 DEF OwnerRequests, PublishNow, EditCaption, RemovePost, Reschedule, OnlyRow
  <2>2. PICK p \in Posts : row[p].status = "QUEUED" /\ \A q \in Posts \ {p} : row'[q] = row[q]
    BY <1>7 DEF OwnerRequests, PublishNow, EditCaption, RemovePost, Reschedule, SetRow, MatchesSchedule, CanEditCaption
  <2>3. pc[p] \notin Claimed /\ Unsent(p)
    BY <2>2 DEF DeliveryInv, PostInv, Claimed
  <2>. QED BY <2>1, <2>2, <2>3 DEF SendsInv, SendInv, Unsent, Claimed
<1>8. CASE Tick
  <2>1. now' = now + 1 /\ UNCHANGED <<row, accepted, sentCaption, snap, runAt, pc>>
    BY <1>8 DEF Tick
  <2>. QED BY ONLY <1>0, <2>1, SendsInv DEF SendsInv, SendInv, Unsent, Claimed
<1>. QED BY <1>2, <1>3, <1>4, <1>5, <1>6, <1>7, <1>8 DEF Lifetime, Environment

LEMMA SendsPreserved == SInv /\ SendsInv /\ [Next]_vars => SendsInv'
  BY WorkerSends, OthersSendNothing DEF Next, System

\* Nothing is sent before the time its owner asked for last, whatever the poll had read of it.
THEOREM SentOnTime == Spec => []NeverEarly
<1>1. Init => SendsInv
  BY SendInit
<1>2. SendsInv => NeverEarly
  BY DEF SendsInv, SendInv, NeverEarly, Sent, Unsent
<1>. QED BY <1>1, <1>2, SendsPreserved, Invariance, PTL DEF Spec

\* What is sent is what the row says, then and for ever after.
THEOREM SentAsWritten == Spec => []SentIsCurrent
<1>1. Init => SendsInv
  BY SendInit
<1>2. SendsInv => SentIsCurrent
  BY DEF SendsInv, SendInv, SentIsCurrent, Sent, Unsent
<1>. QED BY <1>1, <1>2, SendsPreserved, Invariance, PTL DEF Spec

-------------------------------------------------------------------------------
(***************************************************************************)
(* Receipts.  A worker holds its row PUBLISHING until it settles it, its   *)
(* results tell what the provider has, and it settles only when all of     *)
(* them are saved.                                                         *)
(***************************************************************************)
Holding == {"recheck", "reread", "publish", "record", "settle"}
Shown == {"PUBLISHED", "PARTIAL_PUBLISHED"}

ReceiptInv(p) ==
    /\ pc[p] \in Holding => row[p].status = "PUBLISHING"
    /\ pc[p] \in {"record", "settle"} => \A f \in Platforms : result[p][f] # "none"
    /\ pc[p] = "settle" => \A f \in Platforms : receipt[p][f] = Saved(result[p][f])
    /\ \A f \in Platforms :
          /\ result[p][f] = "PUBLISHED" => accepted[p][f] = 1
          /\ receipt[p][f] = "PUBLISHED" => accepted[p][f] = 1
    /\ row[p].status \in Shown => Complete(receipt[p]) /\ SummaryStatus(receipt[p]) = row[p].status
    /\ owner = "CLEANUP" => pc[p] = "idle" /\ ~retained[p]

ReceiptsInv == \A p \in Posts : ReceiptInv(p)

\* What recovery concludes from the saved results is what the worker concludes from its own.
LEMMA SavedSummary ==
  ASSUME NEW results \in [Platforms -> Outcomes], \A f \in Platforms : results[f] # "none",
         NEW saved \in [Platforms -> {"none", "PUBLISHED", "FAILED"}],
         \A f \in Platforms : saved[f] = Saved(results[f])
  PROVE  Complete(saved) /\ SummaryStatus(saved) = SummaryStatus(results)
  BY DEF Complete, SummaryStatus, Saved

LEMMA UpdateStatus ==
  ASSUME TypeOK, NEW p \in Posts, NEW s \in PostStatus, UpdateSucceeds(p, s) \/ UpdateFails(p, s)
  PROVE  /\ \A q \in Posts \ {p} : row'[q] = row[q]
         /\ row'[p] = row[p] \/ row'[p].status = s
<1>1. row[p] \in Row
  BY DEF TypeOK
<1>2. WithStatus(row[p], s).status = s
  BY <1>1, NewStatus
<1>. QED BY <1>2, UpdateEffect

LEMMA ReceiptInit == Init => ReceiptsInv
<1> SUFFICES ASSUME Init, NEW p \in Posts PROVE ReceiptInv(p)
  BY DEF ReceiptsInv
<1>1. row[p].status = "QUEUED"
  BY DEF Init
<1>. QED BY <1>1 DEF Init, ReceiptInv, NoResults, NoCalls, Holding, Shown

\* What is told of a post of which only its status, or nothing, changes.
SameReceipts(p) ==
    /\ accepted'[p] = accepted[p] /\ receipt'[p] = receipt[p]
    /\ result'[p] \in {result[p], NoResults} /\ retained'[p] = retained[p] /\ owner' = owner

OtherReceipts(p) == \A q \in Posts \ {p} :
    SameReceipts(q) /\ result'[q] = result[q] /\ row'[q].status = row[q].status /\ pc'[q] = pc[q]

LEMMA OtherReceiptsKeep ==
  ASSUME ReceiptsInv, NEW p \in Posts, OtherReceipts(p), ReceiptInv(p)' PROVE ReceiptsInv'
<1>1. ASSUME NEW q \in Posts \ {p} PROVE ReceiptInv(q)'
  BY DEF OtherReceipts, SameReceipts, ReceiptsInv, ReceiptInv
<1>. QED BY <1>1 DEF ReceiptsInv

LEMMA MoveKeepsReceipts ==
  ASSUME NEW p \in Posts, ReceiptInv(p), SameReceipts(p), pc'[p] \notin Holding, owner # "CLEANUP",
         row'[p].status \in Shown => row'[p].status = row[p].status
  PROVE  ReceiptInv(p)'
<1>1. \A f \in Platforms : result'[p][f] = "PUBLISHED" => result[p][f] = "PUBLISHED"
  BY DEF SameReceipts, NoResults
<1>. QED BY <1>1 DEF ReceiptInv, SameReceipts, Holding

LEMMA WorkerSaves ==
  ASSUME SInv, ReceiptsInv, NEW p \in Posts, Worker(p) PROVE ReceiptsInv'
<1> USE DEF SInv, TypeInv, TypeOK, store, extern, poll, local, env, Goto, ThrowNested
<1>0. row[p] \in Row /\ ReceiptInv(p) /\ PostInv(p)
  BY DEF ReceiptsInv, DeliveryInv
<1>1. CASE Admit(p) \/ AdmitFails(p)
  <2>1. CASE Admit(p)
    <3>1. /\ owner = "ACTIVE" /\ UNCHANGED <<row, accepted, receipt, result, retained, owner>>
          /\ pc' \in {[pc EXCEPT ![p] = "plan"], [pc EXCEPT ![p] = "assert"]}
      BY <2>1 DEF Admit, BeginAttempt
    <3>2. ReceiptInv(p)'
      BY <1>0, <3>1, MoveKeepsReceipts DEF SameReceipts, Holding
    <3>. QED BY <3>1, <3>2, OtherReceiptsKeep DEF OtherReceipts, SameReceipts
  <2>2. CASE AdmitFails(p)
    <3>1. /\ UNCHANGED <<row, accepted, receipt, result, owner, pc>> /\ pc[p] = "idle"
          /\ retained' = retained \/ (owner = "ACTIVE" /\ \E b \in BOOLEAN : retained' = [retained EXCEPT ![p] = b])
      BY <2>2 DEF AdmitFails
    <3>. QED BY <3>1 DEF ReceiptsInv, ReceiptInv
  <2>. QED BY <1>1, <2>1, <2>2
<1>2. CASE ReadPlan(p) \/ AssertOwnerActive(p)
  <2>1. UNCHANGED <<row, accepted, receipt, result, retained, owner>> /\ pc[p] # "idle"
    BY <1>2 DEF ReadPlan, AssertOwnerActive
  <2>2. pc' \in {[pc EXCEPT ![p] = "assert"], [pc EXCEPT ![p] = "claim"], [pc EXCEPT ![p] = "caught"]}
    BY <1>2 DEF ReadPlan, AssertOwnerActive
  <2>3. ReceiptInv(p)'
    BY <1>0, <2>1, <2>2, MoveKeepsReceipts DEF SameReceipts, Holding, ReceiptInv
  <2>. QED BY <2>1, <2>2, <2>3, OtherReceiptsKeep DEF OtherReceipts, SameReceipts
<1>3. CASE Claim(p)
  <2>1. UNCHANGED <<accepted, receipt, result, retained, owner>> /\ pc[p] = "claim"
    BY <1>3 DEF Claim
  <2>2. \/ row' = row /\ pc' \in {[pc EXCEPT ![p] = "finish"], [pc EXCEPT ![p] = "caught"]}
        \/ row' = [row EXCEPT ![p] = WithStatus(row[p], "PUBLISHING")]
           /\ pc' \in {[pc EXCEPT ![p] = "recheck"], [pc EXCEPT ![p] = "caught"]}
    BY <1>3 DEF Claim, SetRow, MaySetRow
  <2>3. row' = row \/ (row'[p].status = "PUBLISHING" /\ \A q \in Posts \ {p} : row'[q] = row[q])
    BY <1>0, <2>2, NewStatus DEF PostStatus
  <2>4. ReceiptInv(p)'
    <3>1. CASE row' = row /\ pc'[p] \in {"finish", "caught"}
      BY <1>0, <2>1, <3>1 DEF ReceiptInv, Holding
    <3>2. CASE row'[p].status = "PUBLISHING" /\ pc'[p] \in {"recheck", "caught"}
      BY <1>0, <2>1, <3>2 DEF ReceiptInv, Shown
    <3>. QED BY <1>0, <2>2, <3>1, <3>2, NewStatus DEF PostStatus
  <2>. QED BY <2>1, <2>2, <2>3, <2>4, OtherReceiptsKeep DEF OtherReceipts, SameReceipts
<1>4. CASE Recheck(p)
  <2>1. UNCHANGED <<row, accepted, receipt, retained, owner>> /\ pc[p] = "recheck"
    BY <1>4 DEF Recheck
  <2>2. \/ result' = result /\ pc' \in {[pc EXCEPT ![p] = "fail"], [pc EXCEPT ![p] = "reread"]}
        \/ result' = [result EXCEPT ![p] = [f \in Platforms |-> "FAILED"]] /\ pc' = [pc EXCEPT ![p] = "record"]
    BY <1>4 DEF Recheck
  <2>3. ReceiptInv(p)'
    BY <1>0, <2>1, <2>2 DEF ReceiptInv, Holding
  <2>. QED BY <2>1, <2>2, <2>3, OtherReceiptsKeep DEF OtherReceipts, SameReceipts
<1>5. CASE Reread(p) \/ Answered(p)
  <2>1. UNCHANGED <<row, accepted, receipt, result, retained, owner>> /\ pc[p] \in {"reread", "publish"}
    BY <1>5 DEF Reread, Answered
  <2>2. \/ pc' \in {[pc EXCEPT ![p] = "fail"], [pc EXCEPT ![p] = "publish"]}
        \/ pc' = [pc EXCEPT ![p] = "record"] /\ \A f \in Platforms : result[p][f] # "none"
    BY <1>5 DEF Reread, Answered
  <2>3. ReceiptInv(p)'
    BY <1>0, <2>1, <2>2 DEF ReceiptInv, Holding
  <2>. QED BY <2>1, <2>2, <2>3, OtherReceiptsKeep DEF OtherReceipts, SameReceipts
<1>6. ASSUME NEW f \in Platforms, CallProvider(p, f) PROVE ReceiptsInv'
  <2>1. UNCHANGED <<row, receipt, retained, owner, pc>> /\ pc[p] = "publish" /\ result[p][f] = "none" /\ accepted[p][f] = 0
    BY <1>0, <1>6 DEF CallProvider, PostInv
  <2>2. /\ \A q \in Posts \ {p} : accepted'[q] = accepted[q] /\ result'[q] = result[q]
        /\ \A g \in Platforms \ {f} : accepted'[p][g] = accepted[p][g] /\ result'[p][g] = result[p][g]
    BY <1>6 DEF CallProvider, Answer
  <2>3. result'[p][f] = "PUBLISHED" => accepted'[p][f] = 1
    BY <1>6, <2>1 DEF CallProvider, Answer
  <2>4. receipt[p][f] # "PUBLISHED"
    BY <1>0, <2>1 DEF ReceiptInv
  <2>5. ReceiptInv(p)'
    BY ZenonT(60), <1>0, <2>1, <2>2, <2>3, <2>4 DEF ReceiptInv, Holding
  <2>. QED BY <2>1, <2>2, <2>5, OtherReceiptsKeep DEF OtherReceipts, SameReceipts
<1>7. CASE RecordResults(p)
  <2>1. UNCHANGED <<row, accepted, result, retained, owner>> /\ pc[p] = "record" /\ row[p].status = "PUBLISHING"
    BY <1>0, <1>7 DEF RecordResults, ReceiptInv, Holding
  <2>2. PICK S \in SUBSET Platforms :
           /\ receipt' = [receipt EXCEPT ![p] =
                 [f \in Platforms |-> IF f \in S THEN Saved(result[p][f]) ELSE receipt[p][f]]]
           /\ pc' = [pc EXCEPT ![p] = "fail"] \/ (S = Platforms /\ pc' = [pc EXCEPT ![p] = "settle"])
    BY <1>7 DEF RecordResults, OnReceiptFault
  <2>3. /\ \A q \in Posts \ {p} : receipt'[q] = receipt[q]
        /\ \A f \in Platforms : receipt'[p][f] = IF f \in S THEN Saved(result[p][f]) ELSE receipt[p][f]
    BY <2>2
  <2>4. \A f \in Platforms : receipt'[p][f] = "PUBLISHED" => accepted[p][f] = 1
    BY <1>0, <2>3 DEF ReceiptInv, Saved
  <2>5. ReceiptInv(p)'
    BY <1>0, <2>1, <2>2, <2>3, <2>4 DEF ReceiptInv, Holding, Shown
  <2>. QED BY <2>1, <2>2, <2>3, <2>5, OtherReceiptsKeep DEF OtherReceipts, SameReceipts
<1>8. CASE SettleStatus(p)
  <2>1. /\ UNCHANGED <<accepted, receipt, result, retained, owner>> /\ pc[p] = "settle"
        /\ pc' \in {[pc EXCEPT ![p] = "finish"], [pc EXCEPT ![p] = "fail"]}
    BY <1>8 DEF SettleStatus
  <2>2. /\ \A q \in Posts \ {p} : row'[q] = row[q]
        /\ row'[p] = row[p] \/ row'[p].status = SummaryStatus(result[p])
    <3>1. SummaryStatus(result[p]) \in PostStatus
      BY SummaryIsSettled DEF PostStatus
    <3>. QED BY <1>8, <3>1, UpdateStatus DEF SettleStatus
  <2>3. Complete(receipt[p]) /\ SummaryStatus(receipt[p]) = SummaryStatus(result[p])
    <3>1. \A f \in Platforms : result[p][f] # "none" /\ receipt[p][f] = Saved(result[p][f])
      BY <1>0, <2>1 DEF ReceiptInv
    <3>. QED BY <3>1, SavedSummary
  <2>4. ReceiptInv(p)'
    BY <1>0, <2>1, <2>2, <2>3 DEF ReceiptInv, Holding, Shown
  <2>. QED BY <2>1, <2>2, <2>4, OtherReceiptsKeep DEF OtherReceipts, SameReceipts
<1>9. CASE FailClosed(p) \/ CatchAfterCall(p) \/ Requeue(p) \/ GiveUp(p)
  <2>1. /\ UNCHANGED <<accepted, receipt, retained, owner>> /\ pc[p] # "idle"
        /\ result' \in {result, [result EXCEPT ![p] = NoResults]}
    BY <1>9 DEF FailClosed, CatchAfterCall, Requeue, GiveUp
  <2>2. pc' \in {[pc EXCEPT ![p] = "caught"], [pc EXCEPT ![p] = "finish"], [pc EXCEPT ![p] = "plan"], [pc EXCEPT ![p] = "assert"]}
    BY <1>9 DEF FailClosed, CatchAfterCall, Requeue, GiveUp, BeginAttempt, CatchWriteFails
  <2>3. /\ \A q \in Posts \ {p} : row'[q] = row[q]
        /\ row'[p].status \in Shown => row'[p].status = row[p].status
    <3>1. CASE CatchAfterCall(p)
      BY <3>1 DEF CatchAfterCall
    <3>2. CASE ~CatchAfterCall(p)
      <4>1. PICK s \in {"FAILED", "QUEUED"} : UpdateSucceeds(p, s) \/ UpdateFails(p, s)
        BY <1>9, <3>2 DEF FailClosed, Requeue, GiveUp, CatchWriteFails
      <4>2. s \in PostStatus
        BY DEF PostStatus, Settled
      <4>. QED BY <4>1, <4>2, UpdateStatus DEF Shown
    <3>. QED BY <3>1, <3>2
  <2>4. ReceiptInv(p)'
    BY <1>0, <2>1, <2>2, <2>3, MoveKeepsReceipts DEF SameReceipts, Holding, ReceiptInv
  <2>. QED BY <2>1, <2>2, <2>3, <2>4, OtherReceiptsKeep DEF OtherReceipts, SameReceipts
<1>10. CASE Finish(p)
  <2>1. /\ UNCHANGED <<row, accepted, receipt, owner>> /\ owner # "CLEANUP"
        /\ pc' = [pc EXCEPT ![p] = "idle"] /\ result' = [result EXCEPT ![p] = NoResults]
        /\ \A q \in Posts \ {p} : retained'[q] = retained[q]
    BY <1>0, <1>10 DEF Finish, ForgetWorker, ReceiptInv
  <2>2. ReceiptInv(p)'
    BY <1>0, <2>1 DEF ReceiptInv, Holding, NoResults
  <2>. QED BY <2>1, <2>2, OtherReceiptsKeep DEF OtherReceipts, SameReceipts
<1>. QED BY <1>1, <1>2, <1>3, <1>4, <1>5, <1>6, <1>7, <1>8, <1>9, <1>10 DEF Worker

\* Recovery settles a post as its receipts tell; owners cannot touch one that is shown as published.
LEMMA OthersSaveNothing ==
  ASSUME SInv, ReceiptsInv, StartPoll \/ PollReadFails \/ EndPoll \/ Lifetime \/ Environment \/ UNCHANGED vars
  PROVE  ReceiptsInv'
<1> USE DEF SInv, TypeInv, TypeOK, store, extern, poll, local, env
<1>0. \A q \in Posts : row[q] \in Row
  OBVIOUS
<1>1. CASE StartPoll \/ PollReadFails \/ EndPoll \/ Stop \/ Drained \/ PlanChanges \/ Tick \/ UNCHANGED vars
  BY <1>1 DEF StartPoll, PollReadFails, EndPoll, Stop, Drained, PlanChanges, Tick, vars, ReceiptsInv, ReceiptInv
<1>2. CASE Crash
  <2>1. /\ UNCHANGED <<row, receipt, accepted, owner>> /\ pc' = [p \in Posts |-> "idle"]
        /\ result' = [p \in Posts |-> NoResults]
        /\ retained' = [p \in Posts |-> retained[p] \/ pc[p] # "idle"]
    BY <1>2 DEF Crash
  <2>. QED BY <2>1 DEF ReceiptsInv, ReceiptInv, NoResults, Holding
<1>3. CASE Start
  <2>1. /\ UNCHANGED <<receipt, accepted, owner, result, retained, pc>> /\ \A p \in Posts : pc[p] = "idle"
    BY <1>3 DEF Start, WorkersInBatch
  <2>2. ASSUME NEW p \in Posts
        PROVE  \/ row'[p] = row[p]
               \/ Complete(receipt[p]) /\ row'[p].status = SummaryStatus(receipt[p])
    <3>1. PICK P \in SUBSET Posts : Recover(P)
      BY <1>3 DEF Start
    <3>2. SummaryStatus(receipt[p]) \in PostStatus
      BY SummaryIsSettled DEF PostStatus
    <3>. QED BY <1>0, <3>1, <3>2, NewStatus DEF Recover, RecoveredStatus
  <2>. QED BY <2>1, <2>2 DEF ReceiptsInv, ReceiptInv, Holding
<1>4. CASE PurgePosts
  <2>1. /\ UNCHANGED <<receipt, accepted, owner, result, retained, pc>> /\ owner = "CLEANUP"
        /\ \A p \in Posts : row'[p].status = "REMOVED"
    BY <1>0, <1>4, NewStatus DEF PurgePosts, OnlyRow, PostStatus
  <2>. QED BY <2>1 DEF ReceiptsInv, ReceiptInv, Holding, Shown
<1>5. CASE OwnerRequests
  <2>1. UNCHANGED <<receipt, accepted, owner, result, retained, pc>>
    BY <1>5 DEF OwnerRequests, PublishNow, EditCaption, RemovePost, Reschedule, OnlyRow
  <2>2. PICK p \in Posts : /\ row[p].status = "QUEUED" /\ \A q \in Posts \ {p} : row'[q] = row[q]
                           /\ row'[p].status \in {"QUEUED", "REMOVED"}
    <3>1. PICK p \in Posts : /\ row[p].status = "QUEUED"
                             /\ \/ \E t : SetRow(p, WithSchedule(row[p], t))
                                \/ \E e : SetRow(p, WithCaption(row[p], e))
                                \/ SetRow(p, WithStatus(row[p], "REMOVED"))
      BY <1>5 DEF OwnerRequests, PublishNow, EditCaption, RemovePost, Reschedule, MatchesSchedule, CanEditCaption
    <3>2. WithStatus(row[p], "REMOVED").status = "REMOVED"
      BY <1>0, NewStatus DEF PostStatus
    <3>. QED BY <1>0, <3>1, <3>2, RowEdits DEF SetRow
  <2>3. pc[p] \notin Holding
    BY <2>2 DEF ReceiptsInv, ReceiptInv
  <2>. QED BY ZenonT(60), <2>1, <2>2, <2>3 DEF ReceiptsInv, ReceiptInv, Shown
<1>6. CASE Seal \/ BeginCleanup
  BY <1>6 DEF Seal, BeginCleanup, ReceiptsInv, ReceiptInv
<1>. QED BY <1>1, <1>2, <1>3, <1>4, <1>5, <1>6 DEF Lifetime, Environment

LEMMA ReceiptsPreserved == SInv /\ ReceiptsInv /\ [Next]_vars => ReceiptsInv'
  BY WorkerSaves, OthersSaveNothing DEF Next, System

\* So does that of the receipts, beside it.
THEOREM ReceiptsInvariant == Spec => [](SInv /\ ReceiptsInv)
<1>1. Init => ReceiptsInv
  BY ReceiptInit
<1>. QED BY <1>1, ReceiptsPreserved, Invariance, PTL DEF Spec

\* Whatever fails, exits or is recovered: a post shown as published, or partly, has all its receipts,
\* they say exactly that, and there is a provider post behind each that says so.
THEOREM ShownAsSaved == Spec => []StatusBackedByReceipts
<1>1. SInv /\ ReceiptsInv => StatusBackedByReceipts
  BY DEF ReceiptsInv, ReceiptInv, StatusBackedByReceipts, Shown
<1>. QED BY <1>1, ReceiptsInvariant, PTL

-------------------------------------------------------------------------------
(***************************************************************************)
(* What is not known for certain.  It keeps the ticket of its worker, or   *)
(* the worker itself, and the flag of the scheduler.                       *)
(***************************************************************************)
Known(p) == \A f \in Platforms : accepted[p][f] > 0 => receipt[p][f] = "PUBLISHED"

UncertainInv(p) ==
    /\ \A f \in Platforms : result[p][f] = "FAILED" => accepted[p][f] = 0
    /\ pc[p] = "idle" /\ ~retained[p] => Known(p)
    /\ pc[p] \in {"settle", "caught", "finish"} /\ ~keep[p] => Known(p)
    /\ proc # "down" /\ ~needsReconciliation /\ pc[p] \in {"finish", "idle"} /\ row[p].status = "PUBLISHING" =>
          Unsent(p)

UncertainsInv == \A p \in Posts : UncertainInv(p)

\* What the invariant of a post speaks of is the same.
SameCertainty(p) ==
    /\ accepted'[p] = accepted[p] /\ receipt'[p] = receipt[p] /\ result'[p] = result[p]
    /\ retained'[p] = retained[p] /\ keep'[p] = keep[p] /\ pc'[p] = pc[p]
    /\ row'[p].status = "PUBLISHING" => row[p].status = "PUBLISHING"
    /\ needsReconciliation' = needsReconciliation \/ needsReconciliation' = TRUE
    /\ proc' # "down" => proc # "down"

LEMMA SameCertaintyKeeps ==
  ASSUME NEW p \in Posts, UncertainInv(p), SameCertainty(p) PROVE UncertainInv(p)'
<1>1. Unsent(p)' <=> Unsent(p)
  BY DEF SameCertainty, Unsent
<1>2. Known(p)' <=> Known(p)
  BY DEF SameCertainty, Known
<1>. QED BY <1>1, <1>2 DEF UncertainInv, SameCertainty

\* While nothing was sent there is nothing to know.
LEMMA UnsentIsKnown ==
  ASSUME TypeOK, NEW p \in Posts, Unsent(p), accepted'[p] = accepted[p],
         \A f \in Platforms : result'[p][f] \in Outcomes
  PROVE  UncertainInv(p)'
<1>1. Unsent(p)' /\ Known(p)' /\ \A f \in Platforms : accepted'[p][f] = 0
  BY DEF Unsent, Known
<1>. QED BY <1>1 DEF UncertainInv

LEMMA UncertainInit == Init => UncertainsInv
  BY DEF Init, UncertainsInv, UncertainInv, NoResults, NoCalls, Unsent, Known

Elsewhere(p) == \A q \in Posts \ {p} : SameCertainty(q)

LEMMA ElsewhereKeeps ==
  ASSUME UncertainsInv, NEW p \in Posts, Elsewhere(p), UncertainInv(p)' PROVE UncertainsInv'
<1>1. \A q \in Posts \ {p} : UncertainInv(q)'
  BY SameCertaintyKeeps DEF Elsewhere, UncertainsInv
<1>. QED BY <1>1 DEF UncertainsInv

\* Until it makes a call a worker has sent nothing.
LEMMA BeforeTheCall ==
  ASSUME SInv, ReceiptsInv, UncertainsInv, NEW p \in Posts,
         \/ Admit(p) \/ AdmitFails(p) \/ ReadPlan(p) \/ AssertOwnerActive(p) \/ Claim(p) \/ Recheck(p)
         \/ Reread(p) \/ Requeue(p) \/ GiveUp(p)
  PROVE  UncertainsInv'
<1> USE DEF SInv, TypeInv, TypeOK, store, extern, poll, local, env, Goto, ThrowNested
<1>1. UncertainInv(p)'
  <2>1. TypeOK'
    BY AdmissionKeepsType, ReadsKeepType, ClaimKeepsType, CatchKeepsType
  <2>2. accepted' = accepted /\ ~started[p] /\ snap[p] # NotInBatch
    BY DEF Admit, AdmitFails, ReadPlan, AssertOwnerActive, Claim, Recheck, Reread, Requeue, GiveUp, Retryable,
           WorkersInBatch, DeliveryInv, PostInv, Called
  <2>3. Unsent(p)
    BY <2>2 DEF DeliveryInv, PostInv
  <2>. QED BY <2>1, <2>2, <2>3, UnsentIsKnown
<1>2. Elsewhere(p)
  <2>1. \A q \in Posts \ {p} : row'[q] = row[q]
    <3>1. CASE Requeue(p) \/ GiveUp(p)
      BY <3>1, UpdateEffect DEF Requeue, GiveUp, CatchWriteFails, PostStatus, Settled
    <3>2. CASE ~(Requeue(p) \/ GiveUp(p))
      BY <3>2 DEF Admit, AdmitFails, ReadPlan, AssertOwnerActive, Claim, Recheck, Reread, SetRow, MaySetRow
    <3>. QED BY <3>1, <3>2
  <2>2. UNCHANGED <<accepted, receipt, proc, needsReconciliation>>
    BY DEF Admit, AdmitFails, ReadPlan, AssertOwnerActive, Claim, Recheck, Reread, Requeue, GiveUp
  <2>3. \A q \in Posts \ {p} : result'[q] = result[q] /\ retained'[q] = retained[q]
    BY DEF Admit, AdmitFails, ReadPlan, AssertOwnerActive, Claim, Recheck, Reread, Requeue, GiveUp
  <2>4. \A q \in Posts \ {p} : keep'[q] = keep[q] /\ pc'[q] = pc[q]
    BY DEF Admit, AdmitFails, ReadPlan, AssertOwnerActive, Claim, Recheck, Reread, Requeue, GiveUp, BeginAttempt,
           CatchWriteFails
  <2>. QED BY <2>1, <2>2, <2>3, <2>4 DEF Elsewhere, SameCertainty
<1>. QED BY <1>1, <1>2, ElsewhereKeeps

LEMMA CallKeepsCertainty ==
  ASSUME ServerErrors \subseteq DirectTikTok, SInv, UncertainsInv,
         NEW p \in Posts, NEW f \in Platforms, CallProvider(p, f)
  PROVE  UncertainsInv'
<1> USE DEF SInv, TypeInv, TypeOK, store, poll
<1>1. /\ UNCHANGED <<row, receipt, retained, keep, pc, proc, needsReconciliation>>
      /\ pc[p] = "publish" /\ accepted[p][f] = 0
  BY DEF CallProvider, DeliveryInv, PostInv
<1>2. /\ \A q \in Posts \ {p} : accepted'[q] = accepted[q] /\ result'[q] = result[q]
      /\ \A g \in Platforms \ {f} : accepted'[p][g] = accepted[p][g] /\ result'[p][g] = result[p][g]
  BY DEF CallProvider, Answer
<1>3. result'[p][f] = "FAILED" => accepted'[p][f] = 0
  BY <1>1 DEF CallProvider, Answer
<1>4. UncertainInv(p)'
  BY <1>1, <1>2, <1>3 DEF UncertainsInv, UncertainInv
<1>5. Elsewhere(p)
  BY <1>1, <1>2 DEF Elsewhere, SameCertainty
<1>. QED BY <1>4, <1>5, ElsewhereKeeps

\* What an answer left open keeps the ticket once the results are saved, and any failure after that does.
LEMMA AfterTheCall ==
  ASSUME SInv, ReceiptsInv, UncertainsInv, NEW p \in Posts,
         Answered(p) \/ RecordResults(p) \/ SettleStatus(p) \/ FailClosed(p) \/ CatchAfterCall(p) \/ Finish(p)
  PROVE  UncertainsInv'
<1> USE DEF SInv, TypeInv, TypeOK, store, extern, poll, local, env, Goto, ThrowNested
<1>0. UncertainInv(p) /\ ReceiptInv(p) /\ row[p] \in Row
  BY DEF UncertainsInv, ReceiptsInv
<1>1. CASE Answered(p)
  <2>1. /\ UNCHANGED <<row, receipt, retained, keep, proc, needsReconciliation, accepted, result>>
        /\ pc' = [pc EXCEPT ![p] = "record"]
    BY <1>1 DEF Answered
  <2>2. UncertainInv(p)'
    BY <1>0, <2>1 DEF UncertainInv
  <2>. QED BY <2>1, <2>2, ElsewhereKeeps DEF Elsewhere, SameCertainty
<1>2. CASE RecordResults(p)
  <2>1. /\ UNCHANGED <<row, retained, proc, needsReconciliation, accepted, result>>
        /\ \A q \in Posts \ {p} : receipt'[q] = receipt[q] /\ keep'[q] = keep[q] /\ pc'[q] = pc[q]
    BY <1>2 DEF RecordResults
  <2>2. pc'[p] \in {"settle", "fail"}
    BY <1>2 DEF RecordResults, OnReceiptFault
  <2>3. ASSUME pc'[p] = "settle", ~keep'[p] PROVE Known(p)'
    <3>1. /\ keep' = [keep EXCEPT ![p] = keep[p] \/ Uncertain(p)]
          /\ receipt' = [receipt EXCEPT ![p] =
                [f \in Platforms |-> IF f \in Platforms THEN Saved(result[p][f]) ELSE receipt[p][f]]]
      BY <1>2, <2>3 DEF RecordResults, OnReceiptFault
    <3>2. ASSUME NEW f \in Platforms, accepted[p][f] > 0 PROVE receipt'[p][f] = "PUBLISHED"
      <4>1. result[p][f] # "UNKNOWN"
        BY <2>3, <3>1 DEF Uncertain
      <4>2. result[p][f] # "none"
        BY <1>0, <1>2 DEF ReceiptInv, RecordResults
      <4>3. result[p][f] # "FAILED"
        BY <1>0, <3>2 DEF UncertainInv
      <4>4. result[p][f] = "PUBLISHED"
        BY <4>1, <4>2, <4>3 DEF Outcomes
      <4>. QED BY <3>1, <4>4 DEF Saved
    <3>. QED BY <2>1, <3>2 DEF Known
  <2>4. UncertainInv(p)'
    BY <1>0, <2>1, <2>2, <2>3 DEF UncertainInv
  <2>. QED BY <2>1, <2>4, ElsewhereKeeps DEF Elsewhere, SameCertainty
<1>3. CASE SettleStatus(p)
  <2>1. /\ UNCHANGED <<receipt, retained, proc, keep, accepted, result>> /\ pc[p] = "settle"
        /\ \A q \in Posts \ {p} : pc'[q] = pc[q]
        /\ needsReconciliation' \in {needsReconciliation, TRUE}
    BY <1>3 DEF SettleStatus, Uncertain
  <2>2. SummaryStatus(result[p]) \in PostStatus \ {"PUBLISHING"}
    BY SummaryIsSettled DEF PostStatus, Settled
  <2>3. \A q \in Posts \ {p} : row'[q] = row[q]
    BY <1>3, <2>2, UpdateEffect DEF SettleStatus
  <2>4. \/ pc'[p] = "fail"
        \/ pc'[p] = "finish" /\ row'[p].status # "PUBLISHING"
    BY <1>0, <1>3, <2>2, NewStatus DEF SettleStatus, UpdateSucceeds, SetRow
  <2>5. UncertainInv(p)'
    BY <1>0, <2>1, <2>4 DEF UncertainInv, Known
  <2>. QED BY <2>1, <2>3, <2>5, ElsewhereKeeps DEF Elsewhere, SameCertainty
<1>4. CASE FailClosed(p)
  <2>1. /\ UNCHANGED <<receipt, retained, proc, accepted, result, needsReconciliation>>
        /\ pc' = [pc EXCEPT ![p] = "caught"] /\ keep' = [keep EXCEPT ![p] = TRUE]
    BY <1>4 DEF FailClosed
  <2>2. \A q \in Posts \ {p} : row'[q] = row[q]
    BY <1>4, UpdateEffect DEF FailClosed, PostStatus, Settled
  <2>3. UncertainInv(p)'
    BY <1>0, <2>1 DEF UncertainInv
  <2>. QED BY <2>1, <2>2, <2>3, ElsewhereKeeps DEF Elsewhere, SameCertainty
<1>5. CASE CatchAfterCall(p)
  <2>1. /\ UNCHANGED <<row, receipt, retained, keep, proc, accepted, result>> /\ needsReconciliation' = TRUE
        /\ pc[p] = "caught" /\ pc' = [pc EXCEPT ![p] = "finish"]
    BY <1>5 DEF CatchAfterCall
  <2>2. UncertainInv(p)'
    BY <1>0, <2>1 DEF UncertainInv, Known
  <2>. QED BY <2>1, <2>2, ElsewhereKeeps DEF Elsewhere, SameCertainty
<1>6. CASE Finish(p)
  <2>1. /\ UNCHANGED <<row, receipt, proc, accepted, needsReconciliation>> /\ pc[p] = "finish"
        /\ pc' = [pc EXCEPT ![p] = "idle"] /\ keep' = [keep EXCEPT ![p] = FALSE]
        /\ result' = [result EXCEPT ![p] = NoResults]
        /\ \A q \in Posts \ {p} : retained'[q] = retained[q]
        /\ keep[p] => retained'[p]
    BY <1>6 DEF Finish, ForgetWorker
  <2>2. UncertainInv(p)'
    BY <1>0, <2>1 DEF UncertainInv, Known, Unsent, NoResults
  <2>. QED BY <2>1, <2>2, ElsewhereKeeps DEF Elsewhere, SameCertainty
<1>. QED BY <1>1, <1>2, <1>3, <1>4, <1>5, <1>6

\* An exit keeps the tickets of all workers, and recovery looks at every post that was left.
LEMMA OthersForgetNothing ==
  ASSUME SInv, ReceiptsInv, UncertainsInv,
         StartPoll \/ PollReadFails \/ EndPoll \/ Lifetime \/ Environment \/ UNCHANGED vars
  PROVE  UncertainsInv'
<1> USE DEF SInv, TypeInv, TypeOK, store, extern, poll, local, env
<1>0. \A q \in Posts : row[q] \in Row
  OBVIOUS
<1>1. CASE StartPoll \/ PollReadFails \/ EndPoll \/ Stop \/ Drained \/ PlanChanges \/ Tick \/ Seal \/ BeginCleanup
           \/ UNCHANGED vars
  <2>1. \A p \in Posts : SameCertainty(p)
    BY <1>1 DEF StartPoll, PollReadFails, EndPoll, Stop, Drained, PlanChanges, Tick, Seal, BeginCleanup, vars,
                SameCertainty
  <2>. QED BY <2>1, SameCertaintyKeeps DEF UncertainsInv
<1>2. CASE OwnerRequests \/ PurgePosts
  <2>1. UNCHANGED <<receipt, accepted, result, retained, pc, keep, proc, needsReconciliation>>
    BY <1>2 DEF OwnerRequests, PublishNow, EditCaption, RemovePost, Reschedule, PurgePosts, OnlyRow
  <2>2. CASE PurgePosts
    <3>1. \A p \in Posts : row'[p].status # "PUBLISHING"
      BY <1>0, <2>2, NewStatus DEF PurgePosts, PostStatus
    <3>. QED BY <2>1, <3>1, SameCertaintyKeeps DEF UncertainsInv, SameCertainty
  <2>3. CASE OwnerRequests
    <3>1. PICK p \in Posts : /\ row[p].status = "QUEUED" /\ \A q \in Posts \ {p} : row'[q] = row[q]
      BY <2>3 DEF OwnerRequests, PublishNow, EditCaption, RemovePost, Reschedule, SetRow, MatchesSchedule,
                  CanEditCaption
    <3>2. Unsent(p) /\ TypeOK'
      BY <3>1, <2>3, EnvironmentKeepsType DEF DeliveryInv, PostInv, Environment
    <3>3. UncertainInv(p)'
      BY <2>1, <3>2, UnsentIsKnown
    <3>. QED BY <2>1, <3>1, <3>3, ElsewhereKeeps DEF Elsewhere, SameCertainty
  <2>. QED BY <1>2, <2>2, <2>3
<1>3. CASE Crash
  <2>1. /\ UNCHANGED <<row, receipt, accepted>> /\ pc' = [p \in Posts |-> "idle"] /\ proc' = "down"
        /\ result' = [p \in Posts |-> NoResults]
        /\ retained' = [p \in Posts |-> retained[p] \/ pc[p] # "idle"]
    BY <1>3 DEF Crash
  <2>. QED BY <2>1 DEF UncertainsInv, UncertainInv, NoResults, Known
<1>4. CASE Start
  <2>1. /\ UNCHANGED <<receipt, accepted, result, retained, pc, keep>> /\ \A p \in Posts : pc[p] = "idle"
    BY <1>4 DEF Start, WorkersInBatch
  <2>2. CASE proc' = "down"
    BY <2>1, <2>2 DEF UncertainsInv, UncertainInv, Known
  <2>3. CASE Recover(Posts) /\ needsReconciliation' = \E p \in Posts : NeedsOperator(p)
    <3>1. ASSUME NEW p \in Posts, row'[p].status = "PUBLISHING" PROVE NeedsOperator(p)
      <4>1. RecoveredStatus(p) \in PostStatus \ {"PUBLISHING"}
        BY SummaryIsSettled DEF RecoveredStatus, PostStatus, Settled
      <4>. QED BY <1>0, <2>3, <3>1, <4>1, NewStatus DEF Recover, NeedsOperator, Interrupted
    <3>. QED BY <2>1, <2>3, <3>1 DEF UncertainsInv, UncertainInv, Known
  <2>. QED BY <1>4, <2>2, <2>3 DEF Start
<1>. QED BY <1>1, <1>2, <1>3, <1>4 DEF Lifetime, Environment

LEMMA UncertainsPreserved ==
  ASSUME ServerErrors \subseteq DirectTikTok PROVE SInv /\ ReceiptsInv /\ UncertainsInv /\ [Next]_vars => UncertainsInv'
  BY BeforeTheCall, CallKeepsCertainty, AfterTheCall, OthersForgetNothing DEF Next, System, Worker

\* Where only Direct posts may be answered 5xx: whatever reached a provider without a receipt keeps the
\* deletion of its owner waiting and, while its post is PUBLISHING, the scheduler unready.
THEOREM UncertainIsKept == ASSUME ServerErrors \subseteq DirectTikTok PROVE Spec => []UncertainBlocks
<1>1. Init => UncertainsInv
  BY UncertainInit
<1>2. ReceiptsInv /\ UncertainsInv => UncertainBlocks
  <2> SUFFICES ASSUME ReceiptsInv, UncertainsInv PROVE UncertainBlocks
    OBVIOUS
  <2>1. CleanupSeesEveryDelivery
    BY DEF ReceiptsInv, ReceiptInv, UncertainsInv, UncertainInv, Known, CleanupSeesEveryDelivery, Idle
  <2>2. UncertainBlocksReadiness
    BY DEF UncertainsInv, UncertainInv, UncertainBlocksReadiness, Ready, Idle, Sent, Unsent
  <2>. QED BY <2>1, <2>2 DEF UncertainBlocks
<1>. QED BY <1>1, <1>2, UncertainsPreserved, ReceiptsInvariant, PTL DEF Spec

-------------------------------------------------------------------------------
(***************************************************************************)
(* The abstract promise.  A post's phase is read off its status; most      *)
(* steps keep it, and a step that moves it is a step of PostDelivery.      *)
(***************************************************************************)
Phase == [p \in Posts |-> PhaseOf(row[p].status)]

\* One post gets a new status, which moves its phase.
Moves(p, status) == Phase' = [Phase EXCEPT ![p] = PhaseOf(status)]

LEMMA StatusMoves ==
  ASSUME NEW p \in Posts, \A q \in Posts \ {p} : row'[q].status = row[q].status PROVE Moves(p, row'[p].status)
<1>1. \A q \in Posts : PhaseOf(row'[q].status) = IF q = p THEN PhaseOf(row'[p].status) ELSE Phase[q]
  BY DEF Phase
<1>2. Phase' = [q \in Posts |-> PhaseOf(row'[q].status)]
  BY DEF Phase
<1>3. [Phase EXCEPT ![p] = PhaseOf(row'[p].status)] =
         [q \in Posts |-> IF q = p THEN PhaseOf(row'[p].status) ELSE Phase[q]]
  BY DEF Phase
<1>. QED BY ONLY <1>1, <1>2, <1>3 DEF Moves

LEMMA RowSet ==
  ASSUME TypeOK, NEW p \in Posts, NEW r, row' = [row EXCEPT ![p] = r]
  PROVE  row'[p] = r /\ \A q \in Posts \ {p} : row'[q] = row[q]
  BY DEF TypeOK

LEMMA SameStatuses ==
  ASSUME \A q \in Posts : row'[q].status = row[q].status PROVE Phase' = Phase
<1>1. Phase' = [q \in Posts |-> PhaseOf(row'[q].status)]
  BY DEF Phase
<1>. QED BY <1>1 DEF Phase

LEMMA UpdateMoves ==
  ASSUME TypeOK, NEW p \in Posts, NEW s \in PostStatus, UpdateSucceeds(p, s) \/ UpdateFails(p, s)
  PROVE  Phase' = Phase \/ (Moves(p, s) /\ row[p].status # "REMOVED")
<1>1. CASE row' = row
  BY <1>1 DEF Phase
<1>2. CASE row' # row
  <2>1. row[p].status # "REMOVED" /\ row' = [row EXCEPT ![p] = WithStatus(row[p], s)]
    BY <1>2 DEF UpdateSucceeds, UpdateFails, MaySetRow, SetRow
  <2>2. WithStatus(row[p], s).status = s
    BY NewStatus DEF TypeOK
  <2>3. row'[p].status = s /\ \A q \in Posts \ {p} : row'[q] = row[q]
    BY <2>1, <2>2 DEF TypeOK
  <2>. QED BY <2>1, <2>3, StatusMoves
<1>. QED BY <1>1, <1>2

LEMMA PhaseValues ==
  /\ \A s \in PostStatus : PhaseOf(s) \in {"open", "taken", "closed", "gone"}
  /\ \A s \in PostStatus : PhaseOf(s) = "gone" <=> s = "REMOVED"
  /\ \A s \in PostStatus : PhaseOf(s) = "open" <=> s = "QUEUED"
  /\ \A s \in PostStatus : PhaseOf(s) = "taken" <=> s = "PUBLISHING"
  /\ \A s \in Settled : PhaseOf(s) = "closed"
  BY DEF PostStatus, Settled, PhaseOf

LEMMA InitMaps == Init => Delivery!DeliveryInit
<1> SUFFICES ASSUME Init PROVE Delivery!DeliveryInit
  OBVIOUS
<1>1. \A p \in Posts : PhaseOf(row[p].status) = "open"
  BY PhaseValues DEF Init, PhaseOf
<1>. QED BY <1>1 DEF Init, NoCalls, Delivery!DeliveryInit

Promise == Delivery!DeliveryNext \/ (Phase' = Phase /\ accepted' = accepted)

LEMMA WorkerMaps ==
  ASSUME SInv, ReceiptsInv, NEW p \in Posts, Worker(p) PROVE Promise
<1> USE DEF SInv, TypeInv, store, extern, poll, local, env, Goto, ThrowNested
<1>0. /\ row[p] \in Row /\ row[p].status \in PostStatus /\ Phase[p] = PhaseOf(row[p].status)
      /\ ReceiptInv(p) /\ PostInv(p)
  BY RowFields DEF TypeOK, ReceiptsInv, DeliveryInv, Phase
<1>1. CASE Admit(p) \/ AdmitFails(p) \/ ReadPlan(p) \/ AssertOwnerActive(p) \/ Recheck(p) \/ Reread(p)
           \/ Answered(p) \/ RecordResults(p) \/ CatchAfterCall(p) \/ Finish(p)
  <2>1. row' = row /\ accepted' = accepted
    BY <1>1 DEF Admit, AdmitFails, ReadPlan, AssertOwnerActive, Recheck, Reread, Answered, RecordResults,
                CatchAfterCall, Finish
  <2>. QED BY <2>1 DEF Promise, Phase
<1>2. CASE Claim(p)
  <2>1. accepted' = accepted
    BY <1>2 DEF Claim
  <2>2. CASE row' = row
    BY <2>1, <2>2 DEF Promise, Phase
  <2>3. CASE row[p].status = "QUEUED" /\ row' = [row EXCEPT ![p] = WithStatus(row[p], "PUBLISHING")]
    <3>0. WithStatus(row[p], "PUBLISHING").status = "PUBLISHING"
      BY <1>0, NewStatus DEF PostStatus
    <3>1. row'[p].status = "PUBLISHING" /\ \A q \in Posts \ {p} : row'[q] = row[q]
      BY <2>3, <3>0, RowSet
    <3>2. Moves(p, "PUBLISHING")
      BY <3>1, StatusMoves
    <3>3. Phase[p] = "open" /\ Phase' = [Phase EXCEPT ![p] = "taken"]
      BY <1>0, <2>3, <3>2 DEF Moves, PhaseOf
    <3>4. Delivery!Take(p)
      BY <2>1, <3>3 DEF Phase, Delivery!Take, Delivery!Move
    <3>. QED BY <3>4 DEF Promise, Delivery!DeliveryNext
  <2>. QED BY <1>2, <2>2, <2>3 DEF Claim, SetRow, MaySetRow, Claimable
<1>3. ASSUME NEW f \in Platforms, CallProvider(p, f) PROVE Promise
  <2>1. row' = row /\ pc[p] = "publish" /\ accepted[p][f] = 0 /\ row[p].status = "PUBLISHING"
    BY <1>0, <1>3 DEF CallProvider, PostInv, ReceiptInv, Holding
  <2>2. CASE accepted' = accepted
    BY <2>1, <2>2 DEF Promise, Phase
  <2>3. CASE accepted' = [accepted EXCEPT ![p][f] = 1]
    <3>1. Delivery!Deliver(p, f)
      BY <2>1, <2>3 DEF Phase, PhaseOf, Delivery!Deliver
    <3>. QED BY <3>1 DEF Promise, Delivery!DeliveryNext
  <2>4. accepted' = accepted \/ accepted' = [accepted EXCEPT ![p][f] = 1]
    <3>1. CASE accepted' = accepted
      BY <3>1
    <3>2. ASSUME NEW n \in {0, 1}, accepted' = [accepted EXCEPT ![p][f] = @ + n]
          PROVE  accepted' = accepted \/ accepted' = [accepted EXCEPT ![p][f] = 1]
      <4>1. accepted[p][f] + n = n
        BY <2>1
      <4>2. accepted' = [accepted EXCEPT ![p][f] = n]
        BY <3>2, <4>1
      <4>3. CASE n = 0
        <5>1. accepted[p] \in [Platforms -> Nat] /\ accepted \in [Posts -> [Platforms -> Nat]]
          BY DEF TypeOK
        <5>2. accepted' = [accepted EXCEPT ![p] = [accepted[p] EXCEPT ![f] = 0]]
          BY <4>2, <4>3
        <5>3. [accepted[p] EXCEPT ![f] = 0] = accepted[p]
          BY ONLY <2>1, <5>1
        <5>. QED BY ONLY <5>1, <5>2, <5>3
      <4>. QED BY <4>2, <4>3
    <3>. QED BY <1>3, <3>1, <3>2 DEF CallProvider, Answer
  <2>. QED BY <2>2, <2>3, <2>4
<1>4. CASE SettleStatus(p) \/ FailClosed(p) \/ GiveUp(p)
  <2>1. accepted' = accepted
    BY <1>4 DEF SettleStatus, FailClosed, GiveUp
  <2>2. PICK s \in Settled : UpdateSucceeds(p, s) \/ UpdateFails(p, s)
    BY <1>4, SummaryIsSettled DEF SettleStatus, FailClosed, GiveUp, CatchWriteFails, Settled
  <2>3. CASE Phase' = Phase
    BY <2>1, <2>3 DEF Promise
  <2>4. CASE Moves(p, s) /\ row[p].status # "REMOVED"
    <3>1. PhaseOf(s) = "closed" /\ Phase[p] # "gone"
      BY <1>0, <2>4, PhaseValues
    <3>2. Delivery!Close(p)
      BY <2>1, <2>4, <3>1 DEF Moves, Phase, Delivery!Close, Delivery!Move
    <3>. QED BY <3>2 DEF Promise, Delivery!DeliveryNext
  <2>5. s \in PostStatus
    BY DEF PostStatus
  <2>. QED BY <2>2, <2>3, <2>4, <2>5, UpdateMoves
<1>5. CASE Requeue(p)
  <2>1. accepted' = accepted /\ ~started[p] /\ pc[p] = "caught"
    BY <1>5 DEF Requeue, Retryable
  <2>2. Unsent(p)
    BY <1>0, <2>1 DEF PostInv, WorkersInBatch
  <2>3. UpdateSucceeds(p, "QUEUED") \/ UpdateFails(p, "QUEUED")
    BY <1>5 DEF Requeue, CatchWriteFails
  <2>4. CASE Phase' = Phase
    BY <2>1, <2>4 DEF Promise
  <2>5. CASE Moves(p, "QUEUED") /\ row[p].status # "REMOVED" /\ Phase' # Phase
    <3>1. Phase' = [Phase EXCEPT ![p] = "open"]
      BY <2>5 DEF Moves, PhaseOf
    <3>2. Phase[p] # "open"
      BY <2>5, <3>1 DEF Phase
    <3>3. Phase[p] \in {"taken", "closed"}
      BY <1>0, <2>5, <3>2, PhaseValues
    <3>4. Delivery!Reopen(p)
      BY <2>1, <2>2, <3>1, <3>3 DEF Phase, Unsent, Delivery!Reopen, Delivery!Move, Delivery!Touched
    <3>. QED BY <3>4 DEF Promise, Delivery!DeliveryNext
  <2>. QED BY <2>3, <2>4, <2>5, UpdateMoves DEF PostStatus
<1>. QED BY <1>1, <1>2, <1>3, <1>4, <1>5 DEF Worker

LEMMA OthersMap ==
  ASSUME SInv, StartPoll \/ PollReadFails \/ EndPoll \/ Lifetime \/ Environment \/ UNCHANGED vars PROVE Promise
<1> USE DEF SInv, TypeInv, store, extern, poll, local, env
<1>0. \A q \in Posts : row[q] \in Row /\ row[q].status \in PostStatus
  BY RowFields DEF TypeOK
<1>1. CASE StartPoll \/ PollReadFails \/ EndPoll \/ Stop \/ Drained \/ Crash \/ Seal \/ BeginCleanup
           \/ PlanChanges \/ Tick \/ UNCHANGED vars
  <2>1. row' = row /\ accepted' = accepted
    BY <1>1 DEF StartPoll, PollReadFails, EndPoll, Stop, Drained, Crash, Seal, BeginCleanup, PlanChanges, Tick, vars
  <2>. QED BY <2>1 DEF Promise, Phase
<1>2. CASE Start
  <2>1. accepted' = accepted
    BY <1>2 DEF Start
  <2>2. PICK P \in SUBSET Posts : Recover(P)
    BY <1>2 DEF Start
  <2>3. ASSUME NEW q \in Posts
        PROVE  row'[q] = row[q] \/ (row[q].status = "PUBLISHING" /\ row'[q].status \in Settled)
    <3>1. RecoveredStatus(q) \in Settled /\ RecoveredStatus(q) \in PostStatus
      BY SummaryIsSettled DEF RecoveredStatus, PostStatus
    <3>. QED BY <1>0, <2>2, <3>1, NewStatus DEF Recover, Interrupted
  <2>4. \A q \in Posts : /\ PhaseOf(row'[q].status) \in {"open", "taken", "closed", "gone"}
                         /\ \/ PhaseOf(row'[q].status) = Phase[q]
                            \/ Phase[q] = "taken" /\ PhaseOf(row'[q].status) = "closed"
    BY <1>0, <2>3, PhaseValues DEF Phase
  <2>5. Phase' = [q \in Posts |-> PhaseOf(row'[q].status)]
    BY DEF Phase
  <2>6. Delivery!CloseMany
    BY <2>1, <2>4, <2>5 DEF Phase, Delivery!CloseMany, Delivery!Phases
  <2>. QED BY <2>6 DEF Promise, Delivery!DeliveryNext
<1>3. CASE PurgePosts
  <2>1. accepted' = accepted /\ \A q \in Posts : row'[q].status = "REMOVED"
    BY <1>0, <1>3, NewStatus DEF PurgePosts, OnlyRow, PostStatus
  <2>2. Phase' = [q \in Posts |-> PhaseOf(row'[q].status)]
    BY DEF Phase
  <2>3. Phase' = [q \in Posts |-> "gone"]
    BY <2>1, <2>2 DEF PhaseOf
  <2>4. Delivery!Purge
    BY <2>1, <2>3 DEF Phase, Delivery!Purge
  <2>. QED BY <2>4 DEF Promise, Delivery!DeliveryNext
<1>4. CASE OwnerRequests
  <2>1. accepted' = accepted
    BY <1>4 DEF OwnerRequests, PublishNow, EditCaption, RemovePost, Reschedule, OnlyRow
  <2>2. PICK p \in Posts : /\ row[p].status = "QUEUED"
                           /\ \/ \E t : SetRow(p, WithSchedule(row[p], t))
                              \/ \E e : SetRow(p, WithCaption(row[p], e))
                              \/ SetRow(p, WithStatus(row[p], "REMOVED"))
    BY <1>4 DEF OwnerRequests, PublishNow, EditCaption, RemovePost, Reschedule, MatchesSchedule, CanEditCaption
  <2>3. CASE \A q \in Posts : row'[q].status = row[q].status
    BY <2>1, <2>3, SameStatuses DEF Promise
  <2>4. CASE row'[p].status = "REMOVED" /\ \A q \in Posts \ {p} : row'[q] = row[q]
    <3>1. Moves(p, "REMOVED")
      BY <2>4, StatusMoves
    <3>2. Delivery!Withdraw(p)
      BY <2>1, <2>2, <3>1 DEF Moves, PhaseOf, Phase, Delivery!Withdraw, Delivery!Move
    <3>. QED BY <3>2 DEF Promise, Delivery!DeliveryNext
  <2>5. WithStatus(row[p], "REMOVED").status = "REMOVED"
    BY <1>0, NewStatus DEF PostStatus
  <2>6. ASSUME NEW t, SetRow(p, WithSchedule(row[p], t)) PROVE \A q \in Posts : row'[q].status = row[q].status
    <3>1. row'[p] = WithSchedule(row[p], t) /\ \A q \in Posts \ {p} : row'[q] = row[q]
      BY <2>6, RowSet DEF SetRow
    <3>. QED BY <1>0, <3>1, RowEdits
  <2>7. ASSUME NEW e, SetRow(p, WithCaption(row[p], e)) PROVE \A q \in Posts : row'[q].status = row[q].status
    <3>1. row'[p] = WithCaption(row[p], e) /\ \A q \in Posts \ {p} : row'[q] = row[q]
      BY <2>7, RowSet DEF SetRow
    <3>. QED BY <1>0, <3>1, RowEdits
  <2>8. CASE SetRow(p, WithStatus(row[p], "REMOVED"))
    <3>1. row'[p] = WithStatus(row[p], "REMOVED") /\ \A q \in Posts \ {p} : row'[q] = row[q]
      BY <2>8, RowSet DEF SetRow
    <3>. QED BY <2>4, <2>5, <3>1
  <2>. QED BY <2>2, <2>3, <2>6, <2>7, <2>8
<1>. QED BY <1>1, <1>2, <1>3, <1>4 DEF Lifetime, Environment

\* The scheduler keeps the promise of publishing: for every set of posts and platforms and every number
\* of faults and exits, its polls, workers, recovery, owners and deletions only take, deliver, close,
\* reopen and withdraw posts as PostDelivery allows.
THEOREM Refinement == Spec => ImplementsDelivery
<1>1. SInv /\ ReceiptsInv /\ [Next]_vars => [Delivery!DeliveryNext]_<<Phase, accepted>>
  BY WorkerMaps, OthersMap DEF Next, System, Promise
<1>. QED BY <1>1, InitMaps, ReceiptsInvariant, PTL
         DEF Spec, ImplementsDelivery, Delivery!DeliverySpec, Phase
-------------------------------------------------------------------------------
(***************************************************************************)
(* Publishing over BullMQ.  The worker at a job holds it in Redis, and     *)
(* from its claim on holds the row.                                        *)
(***************************************************************************)
JobsCounted == \A id \in Queue!JobIds :
    /\ job[id].state = "none" => job[id] = Queue!NoJob
    /\ job[id].state # "failed" => job[id].failures < Attempts

WorksOnAJob ==
    /\ work.step = "idle" => work.id = 0
    /\ work.step # "idle" =>
          work.id \in Queue!JobIds /\ job[work.id].state = "active" /\ Queue!DueJob(work.id, time)

HoldsTheRow ==
    /\ work.step \in {"deliver", "settle"} => record.status = "PUBLISHING" /\ claimer = work.id
    /\ work.step = "fail" =>
          \/ record.status = "PUBLISHING" /\ claimer = work.id
          \/ record.status \in Queue!Settled
    /\ work.step = "done" => work.outcome # "none"
    /\ work.step = "done" /\ work.outcome = "ok" => record.status \in Queue!Settled

\* A job whose retry is kept as failed: it failed or stalled before.
Retried(j) == j.failures > 0 \/ j.stalls > 0 \/ j.state = "failed"

\* Of the job that took the post and did not settle it: it is there, and was tried before, or it is
\* held by nobody, or at a step after which it counts as tried.
KeepsTheTrace == record.status = "PUBLISHING" /\ claimer # 0 =>
    /\ job[claimer].state # "none"
    /\ \/ Retried(job[claimer])
       \/ /\ job[claimer].state = "active"
          /\ work.id = claimer =>
                \/ work.step \in {"deliver", "settle", "fail"}
                \/ work.step = "done" /\ work.outcome = "error"

\* What is delivered for a creation of the post, and when.
Open == {"QUEUED", "REMOVED"}
Undelivered ==
    /\ record.created = 0 => record.status = "REMOVED"
    /\ \A n \in Queue!Creations : n > record.created => made[n] = 0
    /\ record.created # 0 /\ (record.status \in Open \/ work.step = "deliver") => made[record.created] = 0
    /\ record.status \notin Open => record.scheduledAt <= time

JobInv == Queue!TypeOK /\ JobsCounted /\ WorksOnAJob /\ HoldsTheRow /\ KeepsTheTrace /\ Undelivered

RowType == [status : Queue!PostStatus, scheduledAt : Queue!RunTimes, created : 0..MaxPosts]

LEMMA QueueValues ==
  /\ Attempts \in Nat \ {0} /\ StallLimit \in Nat
  /\ MaxPosts \in Nat \ {0} /\ QueueFaults \in Nat /\ QueueExits \in Nat
  /\ Queue!RunTimes \subseteq Nat /\ Queue!NoSchedule \in Queue!RunTimes /\ MaxTime \in Nat
  /\ Queue!JobIds \subseteq Int /\ 0 \notin Queue!JobIds
  /\ Queue!NoJob \in Queue!Job /\ Queue!NewJob \in Queue!Job
  /\ Queue!NoJob.state = "none" /\ Queue!NewJob.state = "pending"
  /\ Queue!NoJob.failures = 0 /\ Queue!NewJob.failures = 0
<1>1. /\ Attempts \in Nat \ {0} /\ StallLimit \in Nat
      /\ MaxPosts \in Nat \ {0} /\ QueueFaults \in Nat /\ QueueExits \in Nat
  BY QueueAssumption DEF Queue!BullMqAssumption
<1>2. Queue!RunTimes \subseteq Nat /\ Queue!NoSchedule \in Queue!RunTimes /\ MaxTime \in Nat
  BY TimeAssumption DEF Queue!RunTimes, Queue!NoSchedule
<1>3. Queue!JobIds \subseteq Int /\ 0 \notin Queue!JobIds
  BY <1>1, <1>2 DEF Queue!JobIds, Queue!Creations
<1>4. /\ Queue!NoJob \in Queue!Job /\ Queue!NewJob \in Queue!Job
      /\ Queue!NoJob.state = "none" /\ Queue!NewJob.state = "pending"
      /\ Queue!NoJob.failures = 0 /\ Queue!NewJob.failures = 0
  BY <1>1 DEF Queue!NoJob, Queue!NewJob, Queue!Job, Queue!JobState
<1>. QED BY <1>1, <1>2, <1>3, <1>4

LEMMA QueueInit == Queue!Init => JobInv
<1>. SUFFICES ASSUME Queue!Init PROVE JobInv
  OBVIOUS
<1>1. \A id \in Queue!JobIds : job[id] \in {Queue!NoJob, Queue!NewJob}
  BY DEF Queue!Init, Queue!Orphaned, Queue!NoJobs
<1>2. job \in [Queue!JobIds -> Queue!Job]
  BY QueueValues DEF Queue!Init, Queue!Orphaned, Queue!NoJobs
<1>3. Queue!TypeOK
  <2>1. [status |-> "REMOVED", scheduledAt |-> Queue!NoSchedule, created |-> 0] \in RowType
    BY QueueValues DEF RowType, Queue!PostStatus
  <2>2. Queue!NoRequest \in Queue!Request /\ Queue!Idle \in Queue!Work
    BY QueueValues DEF Queue!Request, Queue!NoRequest, Queue!Work, Queue!Idle
  <2>3. 0 \in Queue!RunTimes
    BY QueueValues DEF Queue!NoSchedule
  <2>4. made \in [Queue!Creations -> Nat]
    BY DEF Queue!Init
  <2>5. claimer \in Queue!JobIds \cup {0} /\ doubt \in BOOLEAN
    BY DEF Queue!Init
  <2>6. errors \in 0..QueueFaults /\ ends \in 0..QueueExits
    BY QueueValues DEF Queue!Init
  <2>. QED BY <1>2, <2>1, <2>2, <2>3, <2>4, <2>5, <2>6 DEF Queue!Init, Queue!TypeOK, RowType
<1>4. JobsCounted
  BY <1>1, QueueValues DEF JobsCounted
<1>. QED
  BY <1>3, <1>4 DEF JobInv, Queue!Init, WorksOnAJob, HoldsTheRow, KeepsTheTrace, Undelivered, Queue!Idle,
     Queue!Creations, Open

-------------------------------------------------------------------------------
\* The owner's requests change an open row only, and leave it open.
LEMMA OpenRow ==
  ASSUME JobInv, record.status \in Open, record' \in RowType, record'.status \in Open,
         record'.created \in {record.created, record.created + 1},
         record'.created = 0 => record'.status = "REMOVED",
         UNCHANGED <<job, made, work, claimer, time>>
  PROVE  JobsCounted' /\ WorksOnAJob' /\ HoldsTheRow' /\ KeepsTheTrace' /\ Undelivered'
<1>1. record \in RowType /\ made \in [Queue!Creations -> Nat]
  BY DEF JobInv, Queue!TypeOK, RowType
<1>2. /\ record.status \notin Queue!Settled \cup {"PUBLISHING"}
      /\ record'.status \notin Queue!Settled \cup {"PUBLISHING"}
  BY DEF Open, Queue!Settled
<1>3. JobsCounted' /\ WorksOnAJob'
  BY DEF JobInv, JobsCounted, WorksOnAJob, Queue!DueJob, Queue!RunsNow
<1>4. HoldsTheRow' /\ KeepsTheTrace'
  BY <1>2 DEF JobInv, HoldsTheRow, KeepsTheTrace
<1>5. Undelivered'
  <2>1. record.created \in Nat /\ record'.created \in 0..MaxPosts
    BY <1>1 DEF RowType
  <2>2. work.step # "deliver"
    BY <1>2 DEF JobInv, HoldsTheRow
  <2>3. \A n \in Queue!Creations : n > record'.created => made[n] = 0
    BY <2>1, QueueValues DEF JobInv, Undelivered, Queue!Creations
  <2>4. record'.created # 0 => made[record'.created] = 0
    BY <2>1, QueueValues DEF JobInv, Undelivered, Queue!Creations
  <2>. QED BY <2>2, <2>3, <2>4 DEF Undelivered
<1>. QED BY <1>3, <1>4, <1>5

LEMMA BeginsOpen ==
  ASSUME JobInv, NEW kind \in {"create", "patch", "now", "delete"}, NEW r \in RowType,
         NEW orig \in Queue!RunTimes, NEW step \in {"add", "clear"},
         Queue!Begin(kind, r, orig, step), record.status \in Open, r.status \in Open,
         r.created \in {record.created, record.created + 1}, r.created # 0
  PROVE  JobInv'
<1>1. record \in RowType
  BY DEF JobInv, Queue!TypeOK, RowType
<1>2. record' \in {record, r} /\ errors' \in 0..QueueFaults
  BY QueueValues DEF Queue!Begin, Queue!Written, Queue!MayBeWritten, Queue!NoFault, Queue!Fault, JobInv,
     Queue!TypeOK
<1>7. request' \in Queue!Request
  <2>1. [kind |-> kind, step |-> step, orig |-> orig] \in Queue!Request
    BY DEF Queue!Request
  <2>. QED BY <2>1 DEF Queue!Begin, JobInv, Queue!TypeOK
<1>8. doubt' \in BOOLEAN
  BY DEF Queue!Begin, JobInv, Queue!TypeOK
<1>3. UNCHANGED <<job, made, work, claimer, time>>
  BY DEF Queue!Begin
<1>4. Queue!TypeOK'
  BY <1>1, <1>2, <1>7, <1>8 DEF Queue!Begin, JobInv, Queue!TypeOK, RowType
<1>5. record'.created = 0 => record'.status = "REMOVED"
  BY <1>2 DEF JobInv, Undelivered
<1>6. record' \in RowType /\ record'.status \in Open /\ record'.created \in {record.created, record.created + 1}
  BY <1>1, <1>2
<1>. QED BY <1>3, <1>4, <1>5, <1>6, OpenRow DEF JobInv

LEMMA RequestsKeep == JobInv /\ Queue!Requests => JobInv'
<1>. SUFFICES ASSUME JobInv, Queue!Requests PROVE JobInv'
  OBVIOUS
<1>1. record \in RowType /\ record.created \in 0..MaxPosts /\ record.scheduledAt \in Queue!RunTimes
  BY DEF JobInv, Queue!TypeOK, RowType
<1>2. record.status = "QUEUED" => record.created # 0
  BY DEF JobInv, Undelivered
<1>3. ASSUME NEW t \in Queue!RunTimes, Queue!Create(t) PROVE JobInv'
  <2>. DEFINE r == [status |-> "QUEUED", scheduledAt |-> t, created |-> record.created + 1]
  <2>1. r \in RowType /\ r.status \in Open /\ r.created # 0 /\ r.created = record.created + 1
    BY <1>1, <1>3, QueueValues DEF RowType, Queue!PostStatus, Open, Queue!Create
  <2>2. Queue!Begin("create", r, Queue!NoSchedule, "add") /\ record.status \in Open
    BY <1>3 DEF Queue!Create, Open
  <2>. HIDE DEF r
  <2>. QED BY <2>1, <2>2, BeginsOpen, QueueValues
<1>4. ASSUME NEW t \in Queue!RunTimes, Queue!Patch(t) PROVE JobInv'
  <2>. DEFINE r == Queue!WithSchedule(record, t)
  <2>1. r \in RowType /\ r.status = record.status /\ r.created = record.created
    BY <1>1 DEF RowType, Queue!WithSchedule
  <2>2. Queue!Begin("patch", r, record.scheduledAt, "add") /\ record.status = "QUEUED"
    BY <1>4 DEF Queue!Patch, Queue!MatchesSchedule
  <2>. HIDE DEF r
  <2>. QED BY <1>1, <1>2, <2>1, <2>2, BeginsOpen DEF Open
<1>5. ASSUME Queue!PublishNow PROVE JobInv'
  <2>. DEFINE r == Queue!WithSchedule(record, Queue!NoSchedule)
  <2>1. r \in RowType /\ r.status = record.status /\ r.created = record.created
    BY <1>1, QueueValues DEF RowType, Queue!WithSchedule
  <2>2. Queue!Begin("now", r, record.scheduledAt, "add") /\ record.status = "QUEUED"
    BY <1>5 DEF Queue!PublishNow, Queue!MatchesSchedule
  <2>. HIDE DEF r
  <2>. QED BY <1>1, <1>2, <2>1, <2>2, BeginsOpen DEF Open
<1>6. ASSUME Queue!Delete PROVE JobInv'
  <2>. DEFINE r == Queue!WithSchedule(Queue!WithStatus(record, "REMOVED"), Queue!NoSchedule)
  <2>1. r \in RowType /\ r.status = "REMOVED" /\ r.created = record.created
    BY <1>1, QueueValues DEF RowType, Queue!WithSchedule, Queue!WithStatus, Queue!PostStatus
  <2>2. Queue!Begin("delete", r, Queue!NoSchedule, "clear") /\ record.status = "QUEUED"
    BY <1>6 DEF Queue!Delete
  <2>. HIDE DEF r
  <2>. QED BY <1>1, <1>2, <2>1, <2>2, BeginsOpen, QueueValues DEF Open
<1>7. ASSUME Queue!Replay PROVE JobInv'
  <2>1. request' \in Queue!Request
    BY <1>7, QueueValues DEF Queue!Replay, Queue!NoRequest, Queue!Request
  <2>2. Queue!TypeOK' /\ UNCHANGED <<record, job, made, work, claimer, time>>
    BY <1>7, <2>1 DEF Queue!Replay, JobInv, Queue!TypeOK
  <2>3. record.status \in Open
    BY <1>7 DEF Queue!Replay, Open
  <2>. QED BY <1>1, <1>2, <1>7, <2>2, <2>3, OpenRow DEF JobInv, Queue!Replay
<1>. QED BY <1>3, <1>4, <1>5, <1>6, <1>7 DEF Queue!Requests

-------------------------------------------------------------------------------
(***************************************************************************)
(* What a request does to the jobs: it adds one where there is none, and   *)
(* removes those that no worker holds.                                     *)
(***************************************************************************)
LEMMA NextStepOfARequest ==
  ASSUME JobInv, Queue!OnQueueError \/ Queue!Answer \/ Queue!BreakOff \/ Queue!Goto("add") \/ Queue!Goto("clear")
  PROVE  request' \in Queue!Request
<1>1. request \in Queue!Request /\ Queue!NoRequest \in Queue!Request
  BY QueueValues DEF JobInv, Queue!TypeOK, Queue!NoRequest, Queue!Request
<1>2. \A step \in {"add", "clear", "rollback"} : [request EXCEPT !.step = step] \in Queue!Request
  BY <1>1 DEF Queue!Request
<1>. QED BY <1>1, <1>2 DEF Queue!OnQueueError, Queue!Answer, Queue!BreakOff, Queue!Goto

LEMMA FreeJobs ==
  ASSUME JobInv, job' \in [Queue!JobIds -> Queue!Job], UNCHANGED <<record, made, work, time>>,
         \A id \in Queue!JobIds :
            job'[id] = job[id] \/ (job[id].state # "active" /\ job'[id] \in {Queue!NoJob, Queue!NewJob}),
         claimer' = claimer \/ (claimer' = 0 /\ job[claimer].state # "active"),
         record.status = "PUBLISHING" /\ claimer' # 0 => job'[claimer] = job[claimer]
  PROVE  JobsCounted' /\ WorksOnAJob' /\ HoldsTheRow' /\ KeepsTheTrace' /\ Undelivered'
<1>1. JobsCounted'
  BY QueueValues DEF JobInv, JobsCounted
<1>2. work.step # "idle" => work.id \in Queue!JobIds /\ job'[work.id] = job[work.id]
  BY DEF JobInv, WorksOnAJob
<1>3. WorksOnAJob'
  BY <1>2 DEF JobInv, WorksOnAJob, Queue!DueJob, Queue!RunsNow
<1>4. HoldsTheRow'
  BY <1>2 DEF JobInv, HoldsTheRow, WorksOnAJob
<1>5. KeepsTheTrace'
  BY DEF JobInv, KeepsTheTrace
<1>6. Undelivered'
  BY DEF JobInv, Undelivered
<1>. QED BY <1>1, <1>3, <1>4, <1>5, <1>6

LEMMA AddKeeps == JobInv /\ Queue!Add => JobInv'
<1>. SUFFICES ASSUME JobInv, Queue!Add PROVE JobInv'
  OBVIOUS
<1>. DEFINE new == Queue!AddTo(Queue!Expected)
<1>1. job \in [Queue!JobIds -> Queue!Job]
  BY DEF JobInv, Queue!TypeOK
<1>2. /\ new \in [Queue!JobIds -> Queue!Job]
      /\ \A id \in Queue!JobIds : new[id] = job[id] \/ (job[id].state = "none" /\ new[id] = Queue!NewJob)
  BY <1>1, QueueValues DEF Queue!AddTo
<1>. HIDE DEF new
<1>3. job' \in {job, new} /\ UNCHANGED <<record, made, work, claimer, time, ends>>
  BY DEF Queue!Add, new
<1>4. errors' \in 0..QueueFaults
  BY QueueValues DEF Queue!Add, Queue!NoFault, Queue!Fault, JobInv, Queue!TypeOK
<1>5. request' \in Queue!Request
  <2>1. Queue!OnQueueError \/ Queue!Answer \/ Queue!BreakOff \/ Queue!Goto("add") \/ Queue!Goto("clear")
    BY DEF Queue!Add
  <2>. QED BY <2>1, NextStepOfARequest
<1>6. doubt' \in BOOLEAN
  BY DEF Queue!Add, Queue!OnQueueError, Queue!BreakOff, JobInv, Queue!TypeOK
<1>7. Queue!TypeOK'
  BY <1>1, <1>2, <1>3, <1>4, <1>5, <1>6 DEF JobInv, Queue!TypeOK
<1>8. \A id \in Queue!JobIds : job'[id] = job[id] \/ (job[id].state = "none" /\ job'[id] = Queue!NewJob)
  BY <1>2, <1>3
<1>9. claimer \in Queue!JobIds \cup {0}
  BY DEF JobInv, Queue!TypeOK
<1>10. record.status = "PUBLISHING" /\ claimer' # 0 => job'[claimer] = job[claimer]
  BY <1>3, <1>8, <1>9 DEF JobInv, KeepsTheTrace
<1>11. job' \in [Queue!JobIds -> Queue!Job]
  BY <1>1, <1>2, <1>3
<1>. QED BY <1>3, <1>7, <1>8, <1>10, <1>11, FreeJobs DEF JobInv

LEMMA ClearRemoves ==
  ASSUME JobInv, Queue!Clear
  PROVE  /\ job' \in [Queue!JobIds -> Queue!Job]
         /\ \A id \in Queue!JobIds : job'[id] = job[id] \/ (job[id].state # "active" /\ job'[id] = Queue!NoJob)
<1>1. job \in [Queue!JobIds -> Queue!Job]
  BY DEF JobInv, Queue!TypeOK
<1>. DEFINE locked == {id \in Queue!Listed \ Queue!Spared : job[id].state = "active"}
<1>2. \A S \in SUBSET ((Queue!Listed \ Queue!Spared) \ locked) :
         /\ Queue!Without(S) \in [Queue!JobIds -> Queue!Job]
         /\ \A id \in Queue!JobIds :
               Queue!Without(S)[id] = job[id] \/ (job[id].state # "active" /\ Queue!Without(S)[id] = Queue!NoJob)
  BY <1>1, QueueValues DEF Queue!Without
<1>3. \/ job' = job
      \/ \E S \in SUBSET ((Queue!Listed \ Queue!Spared) \ locked) : job' = Queue!Without(S)
  <2>1. {} \in SUBSET ((Queue!Listed \ Queue!Spared) \ locked)
        /\ (Queue!Listed \ Queue!Spared) \ locked \in SUBSET ((Queue!Listed \ Queue!Spared) \ locked)
    OBVIOUS
  <2>. QED BY <2>1 DEF Queue!Clear
<1>. QED BY <1>1, <1>2, <1>3

\* The list of jobs is answered, or the request goes on or breaks off.
LEMMA ClearMovesOn ==
  ASSUME JobInv, Queue!Clear
  PROVE  request' # request /\ request' \in Queue!Request /\ doubt' \in BOOLEAN /\ errors' \in 0..QueueFaults
<1>1. Queue!Answer \/ Queue!OnQueueError \/ Queue!Goto("add")
  BY DEF Queue!Clear
<1>2. request.step = "clear" /\ request \in Queue!Request
  BY DEF Queue!Clear, JobInv, Queue!TypeOK
<1>3. request' # request
  BY <1>1, <1>2 DEF Queue!Answer, Queue!OnQueueError, Queue!BreakOff, Queue!Goto, Queue!NoRequest, Queue!Request
<1>4. request' \in Queue!Request
  BY <1>1, NextStepOfARequest
<1>5. doubt' \in BOOLEAN
  BY DEF Queue!Clear, Queue!OnQueueError, Queue!BreakOff, JobInv, Queue!TypeOK
<1>6. errors' \in 0..QueueFaults
  BY QueueValues DEF Queue!Clear, Queue!NoFault, Queue!Fault, JobInv, Queue!TypeOK
<1>. QED BY <1>3, <1>4, <1>5, <1>6

LEMMA ClearKeeps == JobInv /\ Queue!Clear => JobInv'
<1>. SUFFICES ASSUME JobInv, Queue!Clear PROVE JobInv'
  OBVIOUS
<1>1. UNCHANGED <<record, made, work, time, ends>>
  BY DEF Queue!Clear
<1>2. claimer \in Queue!JobIds \cup {0}
  BY DEF JobInv, Queue!TypeOK
<1>3. /\ claimer \in Queue!JobIds /\ job'[claimer].state # "none" => claimer' = claimer
      /\ ~(claimer \in Queue!JobIds /\ job'[claimer].state # "none") => claimer' = 0
  BY DEF Queue!Clear
<1>4. claimer' = claimer \/ (claimer' = 0 /\ job[claimer].state # "active")
  BY <1>2, <1>3, ClearRemoves
<1>5. record.status = "PUBLISHING" /\ claimer' # 0 => job'[claimer] = job[claimer]
  BY <1>2, <1>3, ClearRemoves, QueueValues
<1>6. Queue!TypeOK'
  BY <1>1, <1>2, <1>4, ClearRemoves, ClearMovesOn DEF JobInv, Queue!TypeOK
<1>. QED BY <1>1, <1>4, <1>5, <1>6, ClearRemoves, FreeJobs DEF JobInv

LEMMA RollbackKeeps == JobInv /\ Queue!Rollback => JobInv'
<1>. SUFFICES ASSUME JobInv, Queue!Rollback PROVE JobInv'
  OBVIOUS
<1>. DEFINE old == Queue!WithSchedule(record, request.orig)
<1>1. record \in RowType /\ request.orig \in Queue!RunTimes
  BY DEF JobInv, Queue!TypeOK, RowType, Queue!Request
<1>2. old \in RowType /\ old.status = record.status /\ old.created = record.created
  BY <1>1 DEF Queue!WithSchedule, RowType
<1>. HIDE DEF old
<1>3. UNCHANGED <<job, made, work, claimer, time, ends>>
  BY DEF Queue!Rollback
<1>4. record' = record \/ (record.status = "QUEUED" /\ record' = old)
  BY DEF Queue!Rollback, Queue!Written, Queue!MayBeWritten, old
<1>5. errors' \in 0..QueueFaults
  BY QueueValues DEF Queue!Rollback, Queue!Written, Queue!MayBeWritten, Queue!NoFault, Queue!Fault, JobInv,
     Queue!TypeOK
<1>6. request' \in Queue!Request /\ doubt' \in BOOLEAN
  BY NextStepOfARequest DEF Queue!Rollback, Queue!BreakOff
<1>7. Queue!TypeOK'
  BY <1>1, <1>2, <1>3, <1>4, <1>5, <1>6 DEF JobInv, Queue!TypeOK, RowType
<1>8. CASE record' = record
  BY <1>3, <1>7, <1>8 DEF JobInv, JobsCounted, WorksOnAJob, HoldsTheRow, KeepsTheTrace, Undelivered,
     Queue!DueJob, Queue!RunsNow
<1>9. CASE record.status = "QUEUED" /\ record' = old
  BY <1>1, <1>2, <1>3, <1>7, <1>9, OpenRow DEF JobInv, Open, Undelivered
<1>. QED BY <1>4, <1>8, <1>9

-------------------------------------------------------------------------------
(***************************************************************************)
(* The worker at its job.                                                  *)
(***************************************************************************)
LEMMA JobFields ==
  ASSUME JobInv, NEW id \in Queue!JobIds
  PROVE  /\ job[id] \in Queue!Job /\ job[id].failures \in Nat /\ job[id].stalls \in Nat
         /\ \A state \in Queue!JobState : [job EXCEPT ![id].state = state] \in [Queue!JobIds -> Queue!Job]
<1>1. job \in [Queue!JobIds -> Queue!Job] /\ job[id] \in Queue!Job
  BY DEF JobInv, Queue!TypeOK
<1>2. \A state \in Queue!JobState : [job[id] EXCEPT !.state = state] \in Queue!Job
  BY <1>1 DEF Queue!Job
<1>. QED BY <1>1, <1>2, QueueValues DEF Queue!Job

LEMMA WorkSteps ==
  ASSUME JobInv
  PROVE  /\ \A step \in {"settle", "fail", "deliver"} : LET w == [work EXCEPT !.step = step] IN
               w \in Queue!Work /\ w.id = work.id /\ w.step = step
         /\ \A outcome \in {"ok", "skipped", "error"} :
               LET w == [work EXCEPT !.step = "done", !.outcome = outcome] IN
               w \in Queue!Work /\ w.id = work.id /\ w.step = "done" /\ w.outcome = outcome
         /\ \A ended \in BOOLEAN : [work EXCEPT !.step = "claim", !.refused = ended] \in Queue!Work
         /\ work \in Queue!Work /\ work.id \in Queue!JobIds \cup {0} /\ Queue!Idle \in Queue!Work
<1>1. work \in Queue!Work
  BY DEF JobInv, Queue!TypeOK
<1>2. Queue!Idle \in Queue!Work
  BY DEF Queue!Idle, Queue!Work
<1>. QED BY <1>1, <1>2 DEF Queue!Work

LEMMA TakeKeeps == ASSUME JobInv, NEW id \in Queue!JobIds, Queue!Take(id) PROVE JobInv'
<1>1. /\ job[id].state = "pending" /\ Queue!DueJob(id, time) /\ work.step = "idle"
      /\ UNCHANGED <<record, made, request, doubt, claimer, time, errors, ends>>
  BY DEF Queue!Take, Queue!OnlyWork
<1>2. job' = [job EXCEPT ![id].state = "active"] /\ job \in [Queue!JobIds -> Queue!Job]
  BY DEF Queue!Take, JobInv, Queue!TypeOK
<1>3. job' \in [Queue!JobIds -> Queue!Job]
  BY <1>2, JobFields DEF Queue!JobState
<1>4. /\ \A other \in Queue!JobIds \ {id} : job'[other] = job[other]
      /\ job'[id] = [job[id] EXCEPT !.state = "active"]
  BY <1>2
<1>5. /\ job'[id].state = "active" /\ job'[id].failures = job[id].failures
      /\ job'[id].stalls = job[id].stalls
  BY <1>4, JobFields DEF Queue!Job
<1>6. work' = [id |-> id, step |-> "begin", refused |-> FALSE, outcome |-> "none"]
  BY DEF Queue!Take, Queue!Idle
<1>7. work' \in Queue!Work /\ work'.id = id /\ work'.step = "begin"
  BY <1>6 DEF Queue!Work
<1>8. Queue!TypeOK'
  BY <1>1, <1>3, <1>7 DEF JobInv, Queue!TypeOK
<1>9. JobsCounted'
  BY <1>1, <1>4, <1>5, QueueValues DEF JobInv, JobsCounted
<1>10. WorksOnAJob'
  BY <1>1, <1>5, <1>7 DEF WorksOnAJob, Queue!DueJob, Queue!RunsNow
<1>11. HoldsTheRow'
  BY <1>7 DEF HoldsTheRow
<1>12. KeepsTheTrace'
  <2>. SUFFICES ASSUME record.status = "PUBLISHING", claimer # 0 PROVE KeepsTheTrace'
    BY <1>1 DEF KeepsTheTrace
  <2>1. claimer \in Queue!JobIds /\ claimer' = claimer
    BY <1>1 DEF JobInv, Queue!TypeOK
  <2>2. CASE claimer = id
    BY <1>1, <1>5, <2>1, <2>2 DEF JobInv, KeepsTheTrace, Retried
  <2>3. CASE claimer # id
    BY <1>1, <1>4, <1>7, <2>1, <2>3 DEF JobInv, KeepsTheTrace
  <2>. QED BY <2>2, <2>3
<1>13. Undelivered'
  BY <1>1, <1>7 DEF JobInv, Undelivered
<1>. QED BY <1>8, <1>9, <1>10, <1>11, <1>12, <1>13 DEF JobInv

LEMMA BeginWorkKeeps == JobInv /\ Queue!BeginWork => JobInv'
<1>. SUFFICES ASSUME JobInv, Queue!BeginWork PROVE JobInv'
  OBVIOUS
<1>1. work.step = "begin" /\ UNCHANGED <<record, job, made, request, doubt, claimer, time, ends>>
  BY DEF Queue!BeginWork, Queue!OnlyWork
<1>2. errors' \in 0..QueueFaults
  <2>1. Queue!NoFault \/ Queue!Fault
    BY DEF Queue!BeginWork
  <2>. QED BY <2>1, QueueValues DEF Queue!NoFault, Queue!Fault, JobInv, Queue!TypeOK
<1>3. \/ \E ended \in BOOLEAN : work' = [work EXCEPT !.step = "claim", !.refused = ended]
      \/ work' = [work EXCEPT !.step = "done", !.outcome = "error"]
  BY DEF Queue!BeginWork, Queue!Done
<1>4. work' \in Queue!Work
  BY <1>3, WorkSteps
<1>5. /\ work'.id = work.id
      /\ work'.step = "claim" \/ (work'.step = "done" /\ work'.outcome = "error")
  <2>1. work \in Queue!Work
    BY DEF JobInv, Queue!TypeOK
  <2>. QED BY <1>3, <2>1 DEF Queue!Work
<1>6. Queue!TypeOK'
  BY <1>1, <1>2, <1>4 DEF JobInv, Queue!TypeOK
<1>7. JobsCounted' /\ WorksOnAJob'
  BY <1>1, <1>5 DEF JobInv, JobsCounted, WorksOnAJob, Queue!DueJob, Queue!RunsNow
<1>8. HoldsTheRow' /\ KeepsTheTrace'
  BY <1>1, <1>5 DEF JobInv, HoldsTheRow, KeepsTheTrace
<1>9. Undelivered'
  BY <1>1, <1>5 DEF JobInv, Undelivered
<1>. QED BY <1>6, <1>7, <1>8, <1>9 DEF JobInv

\* A job claims a post at the time of its schedule or later.
LEMMA ClaimedOnTime ==
  ASSUME JobInv, work.step = "claim", Queue!Claimable(record, work.id)
  PROVE  record.status = "QUEUED" /\ record.scheduledAt <= time
<1>1. record.status = "QUEUED" /\ record.scheduledAt \in {0, work.id} /\ record.scheduledAt \in Nat
      /\ time \in Nat
  BY QueueValues DEF Queue!Claimable, Queue!NoSchedule, JobInv, Queue!TypeOK
<1>2. work.id < 0 \/ work.id <= time
  BY DEF JobInv, WorksOnAJob, Queue!DueJob, Queue!RunsNow
<1>. QED BY <1>1, <1>2

LEMMA ClaimKeeps == JobInv /\ Queue!Claim => JobInv'
<1>. SUFFICES ASSUME JobInv, Queue!Claim PROVE JobInv'
  OBVIOUS
<1>. DEFINE claimed == Queue!WithStatus(record, "PUBLISHING")
<1>1. record \in RowType /\ work \in Queue!Work /\ work.step = "claim" /\ made \in [Queue!Creations -> Nat]
  BY DEF JobInv, Queue!TypeOK, RowType, Queue!Claim
<1>2. /\ claimed \in RowType /\ claimed.status = "PUBLISHING" /\ claimed.created = record.created
      /\ claimed.scheduledAt = record.scheduledAt
  BY <1>1 DEF Queue!WithStatus, RowType, Queue!PostStatus
<1>3. UNCHANGED <<job, made, request, doubt, time, ends>>
  BY DEF Queue!Claim, Queue!OnlyWork
<1>. HIDE DEF claimed
<1>4. errors' \in 0..QueueFaults
  BY QueueValues DEF Queue!Claim, Queue!Written, Queue!MayBeWritten, Queue!NoFault, Queue!Fault, JobInv,
     Queue!TypeOK
<1>5. claimer' = IF record' # record THEN work.id ELSE claimer
  BY DEF Queue!Claim
<1>6. \/ /\ Queue!Claimable(record, work.id) /\ record' = claimed
         /\ \E step \in {"settle", "deliver"} : work' = [work EXCEPT !.step = step]
      \/ /\ record' = record \/ (Queue!Claimable(record, work.id) /\ record' = claimed)
         /\ work' = [work EXCEPT !.step = "done", !.outcome = "error"]
      \/ record' = record /\ work' = [work EXCEPT !.step = "done", !.outcome = "skipped"]
  BY DEF Queue!Claim, Queue!Written, Queue!MayBeWritten, Queue!Step, Queue!Done, claimed
<1>7. /\ work' \in Queue!Work /\ work'.id = work.id
      /\ work'.step \in {"settle", "deliver", "done"}
      /\ work'.step # "done" => record' = claimed
      /\ work'.step = "done" =>
            work'.outcome = "error" \/ (work'.outcome = "skipped" /\ record' = record)
  <2>1. work' \in Queue!Work
    BY <1>6, WorkSteps
  <2>. QED BY <1>1, <1>6, <2>1 DEF Queue!Work
<1>8. \/ record' = record /\ work'.step = "done"
      \/ record' = claimed /\ record.status = "QUEUED" /\ record.scheduledAt <= time /\ record' # record
  <2>1. Queue!Claimable(record, work.id) => record.status = "QUEUED" /\ record.scheduledAt <= time /\ claimed # record
    BY <1>1, <1>2, ClaimedOnTime
  <2>. QED BY <1>1, <1>6, <2>1 DEF Queue!Work
<1>9. work.id \in Queue!JobIds /\ job[work.id].state = "active" /\ Queue!DueJob(work.id, time)
  BY <1>1 DEF JobInv, WorksOnAJob
<1>10. claimer' \in Queue!JobIds \cup {0} /\ claimer \in Queue!JobIds \cup {0}
  BY <1>5, <1>9 DEF JobInv, Queue!TypeOK
<1>11. Queue!TypeOK'
  BY <1>1, <1>2, <1>3, <1>4, <1>7, <1>8, <1>10 DEF JobInv, Queue!TypeOK, RowType
<1>12. JobsCounted' /\ WorksOnAJob'
  BY <1>3, <1>7, <1>9 DEF JobInv, JobsCounted, WorksOnAJob, Queue!DueJob, Queue!RunsNow
<1>13. HoldsTheRow'
  BY <1>1, <1>2, <1>5, <1>7, <1>8 DEF HoldsTheRow
<1>14. KeepsTheTrace'
  <2>1. CASE record' = record
    BY <1>1, <1>3, <1>5, <1>7, <2>1 DEF JobInv, KeepsTheTrace, Retried
  <2>2. CASE record' # record
    BY <1>3, <1>5, <1>7, <1>8, <1>9, <2>2 DEF KeepsTheTrace
  <2>. QED BY <2>1, <2>2
<1>15. Undelivered'
  <2>1. CASE record' = record /\ work'.step = "done"
    BY <1>3, <2>1 DEF JobInv, Undelivered
  <2>2. CASE record' = claimed /\ record.status = "QUEUED" /\ record.scheduledAt <= time /\ record' # record
    BY <1>2, <1>3, <2>2 DEF JobInv, Undelivered, Open
  <2>. QED BY <1>8, <2>1, <2>2
<1>. QED BY <1>11, <1>12, <1>13, <1>14, <1>15 DEF JobInv

LEMMA DeliverKeeps == JobInv /\ Queue!Deliver => JobInv'
<1>. SUFFICES ASSUME JobInv, Queue!Deliver PROVE JobInv'
  OBVIOUS
<1>1. work.step = "deliver" /\ UNCHANGED <<record, job, request, doubt, claimer, time, errors, ends>>
  BY DEF Queue!Deliver, Queue!OnlyWork, Queue!NoFault
<1>2. /\ work \in Queue!Work /\ record \in RowType /\ made \in [Queue!Creations -> Nat]
      /\ record.status = "PUBLISHING" /\ claimer = work.id
  BY <1>1 DEF JobInv, Queue!TypeOK, RowType, HoldsTheRow
<1>3. PICK step \in {"settle", "fail"} : work' = [work EXCEPT !.step = step]
  BY DEF Queue!Deliver, Queue!Step
<1>4. work' \in Queue!Work /\ work'.id = work.id /\ work'.step \in {"settle", "fail"}
  BY <1>3, WorkSteps
<1>5. made' = made \/ made' = [made EXCEPT ![record.created] = @ + 1]
  BY DEF Queue!Deliver
<1>6. made' \in [Queue!Creations -> Nat]
  BY <1>2, <1>5
<1>7. Queue!TypeOK'
  BY <1>1, <1>4, <1>6 DEF JobInv, Queue!TypeOK
<1>8. JobsCounted' /\ WorksOnAJob' /\ HoldsTheRow' /\ KeepsTheTrace'
  BY <1>1, <1>2, <1>4 DEF JobInv, JobsCounted, WorksOnAJob, HoldsTheRow, KeepsTheTrace, Retried,
     Queue!DueJob, Queue!RunsNow
<1>9. Undelivered'
  <2>1. record.created \in Nat
    BY <1>2 DEF RowType
  <2>2. \A n \in Queue!Creations : n > record.created => made'[n] = made[n]
    <3>1. \A n \in Queue!Creations : n \in Nat
      BY DEF Queue!Creations
    <3>. QED BY <1>2, <1>5, <2>1, <3>1
  <2>. QED BY <1>1, <1>2, <1>4, <2>2 DEF JobInv, Undelivered, Open
<1>. QED BY <1>7, <1>8, <1>9 DEF JobInv

\* The row of the worker gets a settled status, or stays; if it changes, no job is left to account for.
LEMMA SettledRow ==
  ASSUME JobInv, NEW status \in Queue!Settled, work.step \in {"settle", "fail"},
         record' \in {record, Queue!WithStatus(record, status)},
         work' \in Queue!Work, work'.id = work.id,
         \/ work'.step = "fail"
         \/ work'.step = "done" /\ work'.outcome = "error"
         \/ work'.step = "done" /\ work'.outcome = "ok" /\ record' = Queue!WithStatus(record, status),
         claimer' = IF record' # record THEN 0 ELSE claimer, errors' \in 0..QueueFaults,
         UNCHANGED <<job, made, request, doubt, time, ends>>
  PROVE  JobInv'
<1>1. record \in RowType /\ record.created \in 0..MaxPosts
  BY DEF JobInv, Queue!TypeOK, RowType
<1>2. \/ record.status = "PUBLISHING" /\ claimer = work.id
      \/ record.status \in Queue!Settled
  BY DEF JobInv, HoldsTheRow
<1>3. record.status \notin Open
  BY <1>2 DEF Open, Queue!Settled
<1>. DEFINE r == Queue!WithStatus(record, status)
<1>4. r \in RowType /\ r.status = status /\ r.created = record.created /\ r.scheduledAt = record.scheduledAt
  BY <1>1 DEF Queue!WithStatus, RowType, Queue!PostStatus
<1>. HIDE DEF r
<1>5. record' = record \/ record' = r
  BY DEF r
<1>6. Queue!TypeOK'
  BY <1>1, <1>4, <1>5 DEF JobInv, Queue!TypeOK, RowType
<1>7. JobsCounted' /\ WorksOnAJob'
  BY DEF JobInv, JobsCounted, WorksOnAJob, Queue!DueJob, Queue!RunsNow
<1>8. HoldsTheRow'
  <2>1. CASE record' = r /\ record' # record
    BY <1>4, <2>1 DEF HoldsTheRow, r
  <2>2. CASE record' = record /\ work'.step = "fail"
    BY <1>2, <2>2 DEF HoldsTheRow
  <2>3. CASE record' = record /\ work'.step = "done"
    BY <1>4, <2>3 DEF HoldsTheRow, r
  <2>. QED BY <1>5, <2>1, <2>2, <2>3
<1>9. KeepsTheTrace'
  <2>1. CASE record' # record
    BY <2>1 DEF KeepsTheTrace
  <2>2. CASE record' = record /\ record.status = "PUBLISHING"
    <3>1. work'.step = "fail" \/ (work'.step = "done" /\ work'.outcome = "error")
      BY <1>4, <2>2 DEF r, Queue!Settled
    <3>2. claimer' = claimer /\ job' = job /\ work'.id = work.id
      BY <2>2
    <3>. QED BY <2>2, <3>1, <3>2 DEF JobInv, KeepsTheTrace, Retried
  <2>3. CASE record' = record /\ record.status # "PUBLISHING"
    BY <2>3 DEF KeepsTheTrace
  <2>. QED BY <2>1, <2>2, <2>3
<1>10. Undelivered'
  BY <1>3, <1>4, <1>5 DEF JobInv, Undelivered, Open, Queue!Settled
<1>. QED BY <1>6, <1>7, <1>8, <1>9, <1>10 DEF JobInv

LEMMA SettleKeeps == JobInv /\ Queue!Settle => JobInv'
<1>. SUFFICES ASSUME JobInv, Queue!Settle PROVE JobInv'
  OBVIOUS
<1>1. work.step = "settle" /\ work \in Queue!Work
  BY DEF Queue!Settle, JobInv, Queue!TypeOK
<1>2. PICK status \in Queue!Settled :
         \/ Queue!Written(Queue!WithStatus(record, status)) /\ Queue!Done("ok")
         \/ Queue!MayBeWritten(Queue!WithStatus(record, status)) /\ Queue!Step("fail")
  BY DEF Queue!Settle, Queue!Settled
<1>3. record' \in {record, Queue!WithStatus(record, status)} /\ errors' \in 0..QueueFaults
  BY <1>2, QueueValues DEF Queue!Written, Queue!MayBeWritten, Queue!NoFault, Queue!Fault, JobInv, Queue!TypeOK
<1>4. /\ work' \in Queue!Work /\ work'.id = work.id
      /\ \/ work'.step = "fail"
         \/ work'.step = "done" /\ work'.outcome = "ok" /\ record' = Queue!WithStatus(record, status)
  BY <1>2, WorkSteps DEF Queue!Written, Queue!Done, Queue!Step
<1>5. /\ claimer' = IF record' # record THEN 0 ELSE claimer
      /\ UNCHANGED <<job, made, request, doubt, time, ends>>
  BY DEF Queue!Settle, Queue!OnlyWork
<1>. QED BY <1>1, <1>3, <1>4, <1>5, SettledRow

LEMMA FailClosedKeeps == JobInv /\ Queue!FailClosed => JobInv'
<1>. SUFFICES ASSUME JobInv, Queue!FailClosed PROVE JobInv'
  OBVIOUS
<1>1. work.step = "fail" /\ work \in Queue!Work
  BY DEF Queue!FailClosed, JobInv, Queue!TypeOK
<1>2. Queue!ErrorStatus \in Queue!Settled
  BY DEF Queue!ErrorStatus, Queue!Settled
<1>3. record' \in {record, Queue!WithStatus(record, Queue!ErrorStatus)} /\ errors' \in 0..QueueFaults
  BY QueueValues DEF Queue!FailClosed, Queue!Written, Queue!MayBeWritten, Queue!NoFault, Queue!Fault, JobInv,
     Queue!TypeOK
<1>4. work' \in Queue!Work /\ work'.id = work.id /\ work'.step = "done" /\ work'.outcome = "error"
  BY WorkSteps DEF Queue!FailClosed, Queue!Done
<1>5. /\ claimer' = IF record' # record THEN 0 ELSE claimer
      /\ UNCHANGED <<job, made, request, doubt, time, ends>>
  BY DEF Queue!FailClosed, Queue!OnlyWork
<1>. QED BY <1>1, <1>2, <1>3, <1>4, <1>5, SettledRow

-------------------------------------------------------------------------------
(***************************************************************************)
(* BullMQ at the end of a job.                                             *)
(***************************************************************************)
LEMMA EndedJob ==
  ASSUME NEW j \in Queue!Job, j.failures < Attempts, j.state = "active",
         NEW outcome \in {"none", "ok", "skipped", "error"}
  PROVE  /\ Queue!Ended(j, outcome) \in Queue!Job
         /\ Queue!Ended(j, outcome).state = "none" => Queue!Ended(j, outcome) = Queue!NoJob
         /\ Queue!Ended(j, outcome).state # "failed" => Queue!Ended(j, outcome).failures < Attempts
         /\ outcome = "error" \/ (outcome = "skipped" /\ Retried(j))
              => Queue!Ended(j, outcome).state # "none" /\ Retried(Queue!Ended(j, outcome))
<1>1. /\ j.failures \in Nat /\ j.failures + 1 \in 0..Attempts /\ j.stalls \in 0..StallLimit
      /\ Attempts \in Nat
  BY QueueValues DEF Queue!Job
<1>2. CASE outcome = "ok" \/ (outcome = "skipped" /\ ~Queue!KeepSkipped(j))
  <2>1. Queue!Ended(j, outcome) = Queue!NoJob
    BY <1>2 DEF Queue!Ended
  <2>2. ~(outcome = "error" \/ (outcome = "skipped" /\ Retried(j)))
    BY <1>2 DEF Queue!KeepSkipped, Retried
  <2>. QED BY <2>1, <2>2, QueueValues
<1>3. CASE outcome = "error" /\ j.failures + 1 < Attempts
  <2>. DEFINE k == [j EXCEPT !.state = "pending", !.failures = @ + 1]
  <2>1. Queue!Ended(j, outcome) = k
    BY <1>3 DEF Queue!Ended
  <2>2. k \in Queue!Job /\ k.state = "pending" /\ k.failures = j.failures + 1
    BY <1>1 DEF Queue!Job, Queue!JobState
  <2>3. k.failures > 0 /\ k.failures < Attempts
    BY <1>1, <1>3, <2>2
  <2>. HIDE DEF k
  <2>4. Retried(k) /\ k.state # "none" /\ k \in Queue!Job
    BY <2>2, <2>3 DEF Retried
  <2>. QED BY <2>1, <2>3, <2>4
<1>4. CASE ~(outcome = "ok" \/ (outcome = "skipped" /\ ~Queue!KeepSkipped(j)))
           /\ ~(outcome = "error" /\ j.failures + 1 < Attempts)
  <2>. DEFINE k == [j EXCEPT !.state = "failed", !.failures = IF outcome = "error" THEN @ + 1 ELSE @]
  <2>1. Queue!Ended(j, outcome) = k
    BY <1>4 DEF Queue!Ended
  <2>2. k \in Queue!Job /\ k.state = "failed"
    BY <1>1 DEF Queue!Job, Queue!JobState
  <2>. QED BY <2>1, <2>2 DEF Retried
<1>. QED BY <1>2, <1>3, <1>4

LEMMA EndJobKeeps == JobInv /\ Queue!EndJob => JobInv'
<1>. SUFFICES ASSUME JobInv, Queue!EndJob PROVE JobInv'
  OBVIOUS
<1>0. PICK j : j = Queue!Ended(job[work.id], work.outcome)
  OBVIOUS
<1>1. /\ work.step = "done" /\ work' = Queue!Idle
      /\ UNCHANGED <<record, made, request, claimer, time, ends>>
  BY DEF Queue!EndJob
<1>2. /\ work.id \in Queue!JobIds /\ job[work.id].state = "active" /\ job[work.id].failures < Attempts
      /\ job \in [Queue!JobIds -> Queue!Job] /\ work.outcome \in {"none", "ok", "skipped", "error"}
  BY <1>1 DEF JobInv, Queue!TypeOK, Queue!Work, WorksOnAJob, JobsCounted
<1>3. /\ j \in Queue!Job
      /\ j.state = "none" => j = Queue!NoJob
      /\ j.state # "failed" => j.failures < Attempts
      /\ work.outcome = "error" \/ (work.outcome = "skipped" /\ Retried(job[work.id]))
           => j.state # "none" /\ Retried(j)
  BY <1>0, <1>2, EndedJob
<1>4. job' = [job EXCEPT ![work.id] = j] \/ job' = job
  BY <1>0 DEF Queue!EndJob
<1>5. Queue!NoFault \/ Queue!Fault
  BY DEF Queue!EndJob
<1>6. doubt' \in BOOLEAN
  BY DEF Queue!EndJob, JobInv, Queue!TypeOK
<1>7. errors' \in 0..QueueFaults
  BY <1>5, QueueValues DEF Queue!NoFault, Queue!Fault, JobInv, Queue!TypeOK
<1>8. /\ job' \in [Queue!JobIds -> Queue!Job] /\ \A id \in Queue!JobIds \ {work.id} : job'[id] = job[id]
      /\ job'[work.id] = job[work.id] \/ job'[work.id] = j
  <2>1. CASE job' = job
    BY <1>2, <2>1
  <2>2. CASE job' = [job EXCEPT ![work.id] = j]
    <3>1. work.id \in Queue!JobIds /\ job \in [Queue!JobIds -> Queue!Job] /\ j \in Queue!Job
      BY <1>2, <1>3
    <3>2. job' \in [Queue!JobIds -> Queue!Job]
      BY <2>2, <3>1
    <3>3. job'[work.id] = j
      BY <2>2, <3>1
    <3>4. \A id \in Queue!JobIds \ {work.id} : job'[id] = job[id]
      BY <2>2, <3>1
    <3>. QED BY <3>2, <3>3, <3>4
  <2>. QED BY <1>4, <2>1, <2>2
<1>9. work' \in Queue!Work /\ work'.id = 0 /\ work'.step = "idle"
  BY <1>1, WorkSteps DEF Queue!Idle
<1>10. Queue!TypeOK'
  BY <1>1, <1>6, <1>7, <1>8, <1>9 DEF JobInv, Queue!TypeOK
<1>11. JobsCounted'
  BY <1>2, <1>3, <1>8 DEF JobInv, JobsCounted
<1>12. WorksOnAJob' /\ HoldsTheRow'
  BY <1>9 DEF WorksOnAJob, HoldsTheRow
<1>13. KeepsTheTrace'
  <2>. SUFFICES ASSUME record.status = "PUBLISHING", claimer # 0 PROVE KeepsTheTrace'
    BY <1>1 DEF KeepsTheTrace
  <2>1. claimer \in Queue!JobIds /\ claimer' = claimer
    BY <1>1 DEF JobInv, Queue!TypeOK
  <2>2. CASE claimer = work.id /\ job'[work.id] = j
    <3>1. work.outcome # "ok"
      BY <1>1 DEF JobInv, HoldsTheRow, Queue!Settled
    <3>2. Retried(job[work.id]) \/ work.outcome = "error"
      BY <1>1, <1>2, <2>2 DEF JobInv, KeepsTheTrace
    <3>3. work.outcome # "none"
      BY <1>1 DEF JobInv, HoldsTheRow
    <3>4. work.outcome \in {"skipped", "error"}
      BY <1>2, <3>1, <3>3
    <3>5. j.state # "none" /\ Retried(j)
      BY <1>3, <3>2, <3>4
    <3>. QED BY <2>1, <2>2, <3>5 DEF KeepsTheTrace, Retried
  <2>3. CASE ~(claimer = work.id /\ job'[work.id] = j)
    <3>1. job'[claimer] = job[claimer]
      BY <1>8, <2>1, <2>3
    <3>2. job[claimer].state = "active" \/ Retried(job[claimer])
      BY DEF JobInv, KeepsTheTrace
    <3>. QED BY <1>2, <1>9, <2>1, <3>1, <3>2, QueueValues DEF JobInv, KeepsTheTrace, Retried
  <2>. QED BY <2>2, <2>3
<1>14. Undelivered'
  BY <1>1, <1>9 DEF JobInv, Undelivered
<1>. QED BY <1>10, <1>11, <1>12, <1>13, <1>14 DEF JobInv

LEMMA RecoverStalledKeeps == ASSUME JobInv, NEW id \in Queue!JobIds, Queue!RecoverStalled(id) PROVE JobInv'
<1>1. /\ job[id].state = "active" /\ work.id # id
      /\ UNCHANGED <<record, made, request, work, claimer, time, errors, ends>>
  BY DEF Queue!RecoverStalled
<1>2. job \in [Queue!JobIds -> Queue!Job] /\ job[id] \in Queue!Job /\ job[id].failures < Attempts
  BY <1>1 DEF JobInv, Queue!TypeOK, JobsCounted
<1>3. PICK j : /\ job' = [job EXCEPT ![id] = j]
               /\ \/ job[id].stalls < StallLimit
                     /\ j = [job[id] EXCEPT !.state = "pending", !.stalls = @ + 1]
                  \/ j = [job[id] EXCEPT !.state = "failed"]
  BY <1>2 DEF Queue!RecoverStalled
<1>4. j \in Queue!Job /\ j.failures < Attempts /\ Retried(j) /\ j.state \in {"pending", "failed"}
  <2>1. job[id].stalls \in 0..StallLimit /\ job[id].failures \in Nat
    BY <1>2, QueueValues DEF Queue!Job
  <2>2. CASE job[id].stalls < StallLimit /\ j = [job[id] EXCEPT !.state = "pending", !.stalls = @ + 1]
    <3>1. job[id].stalls + 1 \in 0..StallLimit /\ job[id].stalls + 1 > 0
      BY <2>1, <2>2, QueueValues
    <3>2. j.state = "pending" /\ j.stalls = job[id].stalls + 1 /\ j.failures = job[id].failures
      BY <1>2, <2>2 DEF Queue!Job
    <3>3. j \in Queue!Job
      BY <1>2, <2>2, <3>1 DEF Queue!Job, Queue!JobState
    <3>. QED BY <1>2, <3>1, <3>2, <3>3 DEF Retried
  <2>3. CASE j = [job[id] EXCEPT !.state = "failed"]
    BY <1>2, <2>3 DEF Queue!Job, Queue!JobState, Retried
  <2>. QED BY <1>3, <2>2, <2>3
<1>5. /\ job' \in [Queue!JobIds -> Queue!Job] /\ job'[id] = j
      /\ \A other \in Queue!JobIds \ {id} : job'[other] = job[other]
  BY <1>2, <1>3, <1>4
<1>6. doubt' \in BOOLEAN
  BY DEF Queue!RecoverStalled, JobInv, Queue!TypeOK
<1>7. Queue!TypeOK'
  BY <1>1, <1>5, <1>6 DEF JobInv, Queue!TypeOK
<1>8. JobsCounted'
  BY <1>4, <1>5 DEF JobInv, JobsCounted
<1>9. WorksOnAJob' /\ HoldsTheRow'
  BY <1>1, <1>5 DEF JobInv, WorksOnAJob, HoldsTheRow, Queue!DueJob, Queue!RunsNow
<1>10. KeepsTheTrace'
  <2>1. claimer \in Queue!JobIds \cup {0}
    BY DEF JobInv, Queue!TypeOK
  <2>2. CASE claimer = id
    BY <1>1, <1>4, <1>5, <2>2 DEF KeepsTheTrace
  <2>3. CASE claimer # id
    <3>1. claimer # 0 => job'[claimer] = job[claimer]
      BY <1>5, <2>1, <2>3
    <3>. QED BY <1>1, <3>1 DEF JobInv, KeepsTheTrace, Retried
  <2>. QED BY <2>2, <2>3
<1>11. Undelivered'
  BY <1>1 DEF JobInv, Undelivered
<1>. QED BY <1>7, <1>8, <1>9, <1>10, <1>11 DEF JobInv

LEMMA ExitsKeep == JobInv /\ (Queue!ApiExits \/ Queue!WorkerExits \/ Queue!Tick) => JobInv'
<1>. SUFFICES ASSUME JobInv, Queue!ApiExits \/ Queue!WorkerExits \/ Queue!Tick PROVE JobInv'
  OBVIOUS
<1>1. UNCHANGED <<record, job, made, claimer, errors>>
  BY DEF Queue!ApiExits, Queue!WorkerExits, Queue!Tick
<1>2. request' \in Queue!Request /\ doubt' \in BOOLEAN
  BY NextStepOfARequest DEF Queue!ApiExits, Queue!WorkerExits, Queue!Tick, Queue!BreakOff, JobInv, Queue!TypeOK
<1>3. work' = work \/ work' = Queue!Idle
  BY DEF Queue!ApiExits, Queue!WorkerExits, Queue!Tick
<1>4. ends' \in 0..QueueExits
  BY QueueValues DEF Queue!ApiExits, Queue!WorkerExits, Queue!Tick, JobInv, Queue!TypeOK
<1>5. time \in Nat /\ time' \in Nat /\ time' \in Queue!RunTimes /\ time' >= time
  <2>1. time \in Queue!RunTimes
    BY DEF JobInv, Queue!TypeOK
  <2>2. time \in Nat /\ time \in 0..MaxTime
    BY <2>1, QueueValues DEF Queue!RunTimes
  <2>. QED BY <2>2, QueueValues DEF Queue!ApiExits, Queue!WorkerExits, Queue!Tick, Queue!RunTimes
<1>6. work' \in Queue!Work
  BY <1>3, WorkSteps
<1>7. Queue!TypeOK'
  BY <1>1, <1>2, <1>4, <1>5, <1>6 DEF JobInv, Queue!TypeOK
<1>8. JobsCounted'
  BY <1>1 DEF JobInv, JobsCounted
<1>9. record.scheduledAt \in Nat
  BY QueueValues DEF JobInv, Queue!TypeOK
<1>10. work.step # "idle" => work.id \in Int
  BY QueueValues DEF JobInv, WorksOnAJob
<1>11. CASE work' = work
  <2>1. WorksOnAJob'
    BY <1>1, <1>5, <1>10, <1>11 DEF JobInv, WorksOnAJob, Queue!DueJob, Queue!RunsNow
  <2>2. HoldsTheRow' /\ KeepsTheTrace'
    BY <1>1, <1>11 DEF JobInv, HoldsTheRow, KeepsTheTrace, Retried
  <2>3. Undelivered'
    BY <1>1, <1>5, <1>9, <1>11 DEF JobInv, Undelivered
  <2>. QED BY <1>7, <1>8, <2>1, <2>2, <2>3 DEF JobInv
<1>12. CASE work' = Queue!Idle
  <2>1. WorksOnAJob' /\ HoldsTheRow'
    BY <1>12 DEF WorksOnAJob, HoldsTheRow, Queue!Idle
  <2>2. KeepsTheTrace'
    <3>1. claimer # 0 => claimer \in Queue!JobIds
      BY DEF JobInv, Queue!TypeOK
    <3>. QED BY <1>1, <1>12, <3>1, QueueValues DEF JobInv, KeepsTheTrace, Retried, Queue!Idle
  <2>3. Undelivered'
    BY <1>1, <1>5, <1>9, <1>12 DEF JobInv, Undelivered, Queue!Idle
  <2>. QED BY <1>7, <1>8, <2>1, <2>2, <2>3 DEF JobInv
<1>. QED BY <1>3, <1>11, <1>12

LEMMA QueueStep == JobInv /\ [Queue!Next]_(Queue!vars) => JobInv'
<1>. SUFFICES ASSUME JobInv, [Queue!Next]_(Queue!vars) PROVE JobInv'
  OBVIOUS
<1>1. CASE Queue!Requests \/ Queue!RequestSteps
  BY <1>1, RequestsKeep, AddKeeps, ClearKeeps, RollbackKeeps DEF Queue!RequestSteps
<1>2. CASE Queue!WorkerSteps
  BY <1>2, TakeKeeps, RecoverStalledKeeps, BeginWorkKeeps, ClaimKeeps, DeliverKeeps, SettleKeeps,
     FailClosedKeeps, EndJobKeeps DEF Queue!WorkerSteps
<1>3. CASE UNCHANGED Queue!vars
  <2>1. UNCHANGED <<record, job, made, request, work, doubt, claimer, time, errors, ends>>
    BY <1>3 DEF Queue!vars
  <2>2. Queue!TypeOK' /\ JobsCounted' /\ WorksOnAJob'
    BY <2>1 DEF JobInv, Queue!TypeOK, JobsCounted, WorksOnAJob, Queue!DueJob, Queue!RunsNow
  <2>3. HoldsTheRow' /\ KeepsTheTrace' /\ Undelivered'
    BY <2>1 DEF JobInv, HoldsTheRow, KeepsTheTrace, Undelivered, Retried
  <2>. QED BY <2>2, <2>3 DEF JobInv
<1>. QED BY <1>1, <1>2, <1>3, ExitsKeep DEF Queue!Next

LEMMA QueueInvariant == Queue!Spec => []JobInv
<1>. QED BY QueueInit, QueueStep, PTL DEF Queue!Spec

\* Over BullMQ, every variable keeps its type, and no job counts more failures or stalls than BullMQ
\* allows it (publishQueue.ts, publishWorkerRunner.ts).
THEOREM QueueTypeCorrect == Queue!Spec => []QueueTypes
<1>1. JobInv => Queue!TypeOK
  BY DEF JobInv
<1>. QED BY <1>1, QueueInvariant, PTL DEF QueueTypes

\* Over BullMQ nothing is published before the time the owner last asked for, whichever job, of which
\* schedule and which creation of the post, is at work (prismaPostRepository.ts: the claim's WHERE).
THEOREM QueueNeverEarly == Queue!Spec => []Queue!NeverEarly
<1>1. JobInv => Queue!NeverEarly
  BY DEF JobInv, Undelivered, Queue!NeverEarly, Open
<1>. QED BY <1>1, QueueInvariant, PTL

\* While a post is PUBLISHING, neither the worker nor BullMQ drops the job that took it: it fails,
\* stalls and is kept as failed (publishWorkerRunnerPolicy.ts:46).
THEOREM TheTraceIsKept == Queue!Spec => QueueKeepsEvidence
<1>. DEFINE Kept == record.status = "PUBLISHING" /\ claimer # 0 /\ request' = request
                      => job'[claimer].state # "none" \/ record'.status # "PUBLISHING"
<1>1. ASSUME JobInv, JobInv', [Queue!Next]_(Queue!vars) PROVE Kept
  <2>. SUFFICES ASSUME record.status = "PUBLISHING", claimer # 0, request' = request, record'.status = "PUBLISHING"
                PROVE job'[claimer].state # "none"
    OBVIOUS
  <2>1. claimer' = claimer => job'[claimer].state # "none"
    BY <1>1 DEF JobInv, KeepsTheTrace
  <2>2. claimer' # claimer => Queue!Clear \/ (Queue!Claim \/ Queue!Settle \/ Queue!FailClosed)
    BY <1>1 DEF Queue!Next, Queue!vars, Queue!Requests, Queue!RequestSteps, Queue!WorkerSteps,
       Queue!Create, Queue!Patch, Queue!PublishNow, Queue!Delete,
       Queue!Begin, Queue!Replay, Queue!Add, Queue!Rollback, Queue!Take,
       Queue!BeginWork, Queue!Deliver, Queue!EndJob, Queue!RecoverStalled, Queue!OnlyWork,
       Queue!ApiExits, Queue!WorkerExits, Queue!Tick
  <2>3. ~Queue!Clear
    BY <1>1, ClearMovesOn
  <2>4. Queue!Claim => record' = record /\ claimer' = claimer
    BY DEF Queue!Claim, Queue!Claimable, Queue!Written, Queue!MayBeWritten
  <2>5. \A status \in Queue!Settled : Queue!WithStatus(record, status).status # "PUBLISHING"
    <3>1. record \in RowType
      BY <1>1 DEF JobInv, Queue!TypeOK, RowType
    <3>. QED BY <3>1 DEF Queue!WithStatus, RowType, Queue!Settled
  <2>6. Queue!Settle => claimer' = claimer
    <3>1. ASSUME Queue!Settle PROVE record' = record
      <4>1. PICK status \in Queue!Settled : record' = record \/ record' = Queue!WithStatus(record, status)
        BY <3>1 DEF Queue!Settle, Queue!Written, Queue!MayBeWritten, Queue!Settled
      <4>. QED BY <2>5, <4>1
    <3>. QED BY <3>1 DEF Queue!Settle
  <2>7. Queue!FailClosed => claimer' = claimer
    <3>1. Queue!ErrorStatus \in Queue!Settled
      BY DEF Queue!ErrorStatus, Queue!Settled
    <3>2. Queue!FailClosed => record' = record \/ record' = Queue!WithStatus(record, Queue!ErrorStatus)
      BY DEF Queue!FailClosed, Queue!Written, Queue!MayBeWritten
    <3>. QED BY <2>5, <3>1, <3>2 DEF Queue!FailClosed
  <2>. QED BY <2>1, <2>2, <2>3, <2>4, <2>6, <2>7
<1>. QED BY <1>1, QueueInvariant, PTL DEF Queue!Spec, QueueKeepsEvidence, Queue!KeepsEvidence

-------------------------------------------------------------------------------
(***************************************************************************)
(* The abstract promise over BullMQ: each creation of the post is a post   *)
(* of its own, and its phase is read off the row.                          *)
(***************************************************************************)
CreationPhase == [n \in Queue!Creations |-> Queue!PhaseOf(n)]
CreationDelivered == [n \in Queue!Creations |-> [f \in {"any"} |-> made[n]]]
QueuePromise == \/ Queue!Delivery!DeliveryNext
                \/ UNCHANGED <<CreationPhase, CreationDelivered>>

LEMMA CreationValues == \A n \in Queue!Creations : n \in Nat
  BY DEF Queue!Creations

\* A row that stays at its creation, with a status of the same phase, moves no phase.
LEMMA SamePhase ==
  ASSUME record'.created = record.created, Queue!CurrentPhase' = Queue!CurrentPhase
  PROVE  CreationPhase' = CreationPhase
  BY DEF CreationPhase, Queue!PhaseOf

\* Otherwise the phase of this creation moves, and no other.
LEMMA PhaseMoves ==
  ASSUME record'.created = record.created, record.created \in Queue!Creations
  PROVE  /\ CreationPhase[record.created] = Queue!CurrentPhase
         /\ CreationPhase' = [CreationPhase EXCEPT ![record.created] = Queue!CurrentPhase']
<1>1. record.created \in Nat /\ \A n \in Queue!Creations : n \in Nat
  BY CreationValues
<1>2. Queue!PhaseOf(record.created) = Queue!CurrentPhase /\ Queue!PhaseOf(record.created)' = Queue!CurrentPhase'
  BY <1>1 DEF Queue!PhaseOf
<1>3. \A n \in Queue!Creations : n # record.created => Queue!PhaseOf(n)' = Queue!PhaseOf(n)
  <2>1. \A n \in Queue!Creations : n # record.created => n > record.created \/ n < record.created
    BY <1>1
  <2>. QED BY <2>1 DEF Queue!PhaseOf
<1>. QED BY <1>2, <1>3 DEF CreationPhase

LEMMA RequestsPromise ==
  ASSUME JobInv, Queue!Requests \/ Queue!RequestSteps PROVE QueuePromise
<1>1. record \in RowType /\ record.created \in 0..MaxPosts /\ made \in [Queue!Creations -> Nat]
  BY DEF JobInv, Queue!TypeOK, RowType
<1>2. made' = made
  BY DEF Queue!Requests, Queue!RequestSteps, Queue!Create, Queue!Patch, Queue!PublishNow, Queue!Delete,
     Queue!Replay, Queue!Begin, Queue!Add, Queue!Clear, Queue!Rollback
<1>3. CreationDelivered' = CreationDelivered
  BY <1>2 DEF CreationDelivered
<1>4. ASSUME record' = record PROVE QueuePromise
  <2>1. Queue!CurrentPhase' = Queue!CurrentPhase
    BY <1>4 DEF Queue!CurrentPhase
  <2>. QED BY <1>3, <1>4, <2>1, SamePhase DEF QueuePromise
<1>5. ASSUME NEW t \in Queue!RunTimes, record.status = "QUEUED", record' = Queue!WithSchedule(record, t)
      PROVE QueuePromise
  <2>1. record'.created = record.created /\ record'.status = record.status
    BY <1>1, <1>5 DEF Queue!WithSchedule, RowType
  <2>2. Queue!CurrentPhase' = Queue!CurrentPhase
    BY <2>1 DEF Queue!CurrentPhase
  <2>. QED BY <1>3, <2>1, <2>2, SamePhase DEF QueuePromise
<1>6. CASE Queue!Replay \/ Queue!Add \/ Queue!Clear
  BY <1>4, <1>6 DEF Queue!Replay, Queue!Add, Queue!Clear
<1>7. ASSUME NEW t \in Queue!RunTimes, Queue!Create(t) PROVE QueuePromise
  <2>. DEFINE r == [status |-> "QUEUED", scheduledAt |-> t, created |-> record.created + 1]
  <2>1. record' = record \/ record' = r
    BY <1>7 DEF Queue!Create, Queue!Begin, Queue!Written, Queue!MayBeWritten
  <2>2. CASE record' = r
    <3>1. \A n \in Queue!Creations : Queue!PhaseOf(n)' = Queue!PhaseOf(n)
      <4>1. record.status = "REMOVED" /\ record.created \in Nat
        BY <1>1, <1>7 DEF Queue!Create
      <4>2. record'.created = record.created + 1 /\ record'.status = "QUEUED"
        BY <2>2
      <4>3. Queue!CurrentPhase = "gone" /\ Queue!CurrentPhase' = "open"
        BY <4>1, <4>2 DEF Queue!CurrentPhase
      <4>4. \A n \in Queue!Creations : \/ n > record.created + 1
                                 \/ n = record.created + 1
                                 \/ n = record.created
                                 \/ n < record.created
        BY <4>1, CreationValues
      <4>. QED BY <4>1, <4>2, <4>3, <4>4, CreationValues DEF Queue!PhaseOf
    <3>. QED BY <1>3, <3>1 DEF QueuePromise, CreationPhase
  <2>. QED BY <1>4, <2>1, <2>2
<1>8. ASSUME NEW t \in Queue!RunTimes, Queue!Patch(t) PROVE QueuePromise
  BY <1>4, <1>5, <1>8 DEF Queue!Patch, Queue!MatchesSchedule, Queue!Begin, Queue!Written, Queue!MayBeWritten
<1>9. ASSUME Queue!PublishNow PROVE QueuePromise
  BY <1>4, <1>5, <1>9, QueueValues DEF Queue!PublishNow, Queue!MatchesSchedule, Queue!Begin, Queue!Written,
     Queue!MayBeWritten
<1>10. ASSUME Queue!Rollback PROVE QueuePromise
  <2>1. request.orig \in Queue!RunTimes
    BY DEF JobInv, Queue!TypeOK, Queue!Request
  <2>. QED BY <1>4, <1>5, <1>10, <2>1 DEF Queue!Rollback, Queue!Written, Queue!MayBeWritten
<1>11. ASSUME Queue!Delete PROVE QueuePromise
  <2>. DEFINE r == Queue!WithSchedule(Queue!WithStatus(record, "REMOVED"), Queue!NoSchedule)
  <2>1. record' = record \/ record' = r
    BY <1>11 DEF Queue!Delete, Queue!Begin, Queue!Written, Queue!MayBeWritten
  <2>2. CASE record' = r
    <3>1. record'.status = "REMOVED" /\ record'.created = record.created /\ record.status = "QUEUED"
      BY <1>1, <1>11, <2>2 DEF Queue!Delete, RowType, Queue!WithSchedule, Queue!WithStatus
    <3>2. record.created \in Queue!Creations
      BY <1>1, <3>1, QueueValues DEF JobInv, Undelivered, Queue!Creations
    <3>3. Queue!CurrentPhase = "open" /\ Queue!CurrentPhase' = "gone"
      BY <3>1 DEF Queue!CurrentPhase
    <3>4. Queue!Delivery!Withdraw(record.created)
      BY <1>3, <3>1, <3>2, <3>3, PhaseMoves
      DEF Queue!Delivery!Withdraw, Queue!Delivery!Move, CreationPhase, CreationDelivered
    <3>. QED BY <3>2, <3>4 DEF QueuePromise, Queue!Delivery!DeliveryNext
  <2>. QED BY <1>4, <2>1, <2>2
<1>. QED BY <1>6, <1>7, <1>8, <1>9, <1>10, <1>11 DEF Queue!Requests, Queue!RequestSteps

LEMMA WorkerPromise == ASSUME JobInv, Queue!WorkerSteps PROVE QueuePromise
<1>1. record \in RowType /\ record.created \in 0..MaxPosts /\ made \in [Queue!Creations -> Nat]
  BY DEF JobInv, Queue!TypeOK, RowType
<1>2. record.status \in Queue!Settled \cup {"QUEUED", "PUBLISHING"} => record.created \in Queue!Creations
  BY <1>1, QueueValues DEF JobInv, Undelivered, Queue!Creations, Queue!Settled
<1>3. ASSUME made' = made, record' = record PROVE QueuePromise
  <2>1. Queue!CurrentPhase' = Queue!CurrentPhase
    BY <1>3 DEF Queue!CurrentPhase
  <2>. QED BY <1>3, <2>1, SamePhase DEF QueuePromise, CreationDelivered
<1>4. ASSUME NEW status \in {"PUBLISHING"} \cup Queue!Settled
      PROVE  /\ Queue!WithStatus(record, status).created = record.created
             /\ Queue!WithStatus(record, status).status = status
  BY <1>1 DEF Queue!WithStatus, RowType
<1>5. CASE \/ \E id \in Queue!JobIds : Queue!Take(id) \/ Queue!RecoverStalled(id)
           \/ Queue!BeginWork \/ Queue!EndJob
  BY <1>3, <1>5 DEF Queue!Take, Queue!RecoverStalled, Queue!BeginWork, Queue!EndJob
<1>6. ASSUME Queue!Claim PROVE QueuePromise
  <2>1. made' = made
    BY <1>6 DEF Queue!Claim
  <2>2. record' = record \/ (record.status = "QUEUED" /\ record' = Queue!WithStatus(record, "PUBLISHING"))
    BY <1>6 DEF Queue!Claim, Queue!Written, Queue!MayBeWritten, Queue!Claimable
  <2>3. CASE record.status = "QUEUED" /\ record' = Queue!WithStatus(record, "PUBLISHING")
    <3>1. record'.status = "PUBLISHING" /\ record'.created = record.created
      BY <1>4, <2>3
    <3>2. Queue!CurrentPhase = "open" /\ Queue!CurrentPhase' = "taken"
      BY <2>3, <3>1 DEF Queue!CurrentPhase
    <3>3. Queue!Delivery!Take(record.created)
      BY <1>2, <2>1, <2>3, <3>1, <3>2, PhaseMoves
      DEF Queue!Delivery!Take, Queue!Delivery!Move, CreationPhase, CreationDelivered
    <3>. QED BY <1>2, <2>3, <3>3 DEF QueuePromise, Queue!Delivery!DeliveryNext
  <2>. QED BY <1>3, <2>1, <2>2, <2>3
<1>7. ASSUME NEW status \in Queue!Settled, record' = Queue!WithStatus(record, status), made' = made,
             record.status = "PUBLISHING" \/ record.status \in Queue!Settled
      PROVE  QueuePromise
  <2>1. record'.status = status /\ record'.created = record.created
    BY <1>4, <1>7
  <2>2. Queue!CurrentPhase' = "closed" /\ Queue!CurrentPhase \in {"taken", "closed"}
    BY <1>7, <2>1 DEF Queue!CurrentPhase, Queue!Settled
  <2>3. Queue!Delivery!Close(record.created)
    BY <1>2, <1>7, <2>1, <2>2, PhaseMoves
    DEF Queue!Delivery!Close, Queue!Delivery!Move, CreationPhase, CreationDelivered
  <2>. QED BY <1>2, <1>7, <2>3 DEF QueuePromise, Queue!Delivery!DeliveryNext
<1>8. ASSUME Queue!Settle PROVE QueuePromise
  <2>1. record.status = "PUBLISHING" /\ made' = made
    BY <1>8 DEF Queue!Settle, JobInv, HoldsTheRow
  <2>2. record' = record \/ \E status \in Queue!Settled : record' = Queue!WithStatus(record, status)
    BY <1>8 DEF Queue!Settle, Queue!Written, Queue!MayBeWritten, Queue!Settled
  <2>. QED BY <1>3, <1>7, <2>1, <2>2
<1>9. ASSUME Queue!FailClosed PROVE QueuePromise
  <2>1. (record.status = "PUBLISHING" \/ record.status \in Queue!Settled) /\ made' = made
    BY <1>9 DEF Queue!FailClosed, JobInv, HoldsTheRow
  <2>2. record' = record \/ record' = Queue!WithStatus(record, Queue!ErrorStatus)
    BY <1>9 DEF Queue!FailClosed, Queue!Written, Queue!MayBeWritten
  <2>. QED BY <1>3, <1>7, <2>1, <2>2 DEF Queue!ErrorStatus, Queue!Settled
<1>10. ASSUME Queue!Deliver PROVE QueuePromise
  <2>1. record' = record /\ record.status = "PUBLISHING" /\ made[record.created] = 0
        /\ record.created \in Queue!Creations
    BY <1>2, <1>10 DEF Queue!Deliver, JobInv, HoldsTheRow, Undelivered
  <2>2. made' = made \/ made' = [made EXCEPT ![record.created] = @ + 1]
    BY <1>10 DEF Queue!Deliver
  <2>3. CASE made' = [made EXCEPT ![record.created] = @ + 1]
    <3>1. Queue!CurrentPhase = "taken" /\ Queue!CurrentPhase' = Queue!CurrentPhase
      BY <2>1 DEF Queue!CurrentPhase
    <3>2. CreationPhase' = CreationPhase /\ CreationPhase[record.created] = "taken"
      BY <2>1, <3>1, SamePhase, PhaseMoves
    <3>3. /\ made' \in [Queue!Creations -> Nat] /\ made'[record.created] = 1
          /\ \A n \in Queue!Creations : n # record.created => made'[n] = made[n]
      BY <1>1, <2>1, <2>3
    <3>4. CreationDelivered' = [CreationDelivered EXCEPT ![record.created]["any"] = 1]
      BY <2>1, <3>3 DEF CreationDelivered
    <3>5. PICK n \in Queue!Creations : n = record.created
      BY <2>1
    <3>6. Queue!Delivery!Deliver(n, "any")
      BY <2>1, <3>2, <3>4, <3>5 DEF Queue!Delivery!Deliver, CreationPhase, CreationDelivered
    <3>7. \E f \in {"any"} : Queue!Delivery!Deliver(n, f)
      BY <3>6
    <3>8. Queue!Delivery!DeliveryNext
      BY <3>7 DEF Queue!Delivery!DeliveryNext
    <3>. QED BY <3>8 DEF QueuePromise
  <2>. QED BY <1>3, <2>1, <2>2, <2>3
<1>. QED BY <1>5, <1>6, <1>8, <1>9, <1>10 DEF Queue!WorkerSteps

\* Publishing over BullMQ keeps the promise of publishing too, for every number of creations, jobs,
\* attempts, stalls, faults and exits: a creation is taken once and handed to the provider at most once.
THEOREM QueueRefinement == Queue!Spec => QueueImplementsDelivery
<1>1. Queue!Init => Queue!Delivery!DeliveryInit
  <2>. SUFFICES ASSUME Queue!Init PROVE Queue!Delivery!DeliveryInit
    OBVIOUS
  <2>1. \A n \in Queue!Creations : n > record.created
    BY CreationValues DEF Queue!Init, Queue!Creations
  <2>. QED BY <2>1 DEF Queue!Init, Queue!PhaseOf, Queue!Delivery!DeliveryInit
<1>2. JobInv /\ [Queue!Next]_(Queue!vars) => [Queue!Delivery!DeliveryNext]_<<CreationPhase, CreationDelivered>>
  <2>. SUFFICES ASSUME JobInv, [Queue!Next]_(Queue!vars) PROVE QueuePromise
    BY DEF QueuePromise
  <2>1. CASE Queue!Requests \/ Queue!RequestSteps
    BY <2>1, RequestsPromise
  <2>2. CASE Queue!WorkerSteps
    BY <2>2, WorkerPromise
  <2>3. CASE Queue!ApiExits \/ Queue!WorkerExits \/ Queue!Tick \/ UNCHANGED Queue!vars
    <3>1. record' = record /\ made' = made
      BY <2>3 DEF Queue!ApiExits, Queue!WorkerExits, Queue!Tick, Queue!vars
    <3>2. Queue!CurrentPhase' = Queue!CurrentPhase
      BY <3>1 DEF Queue!CurrentPhase
    <3>. QED BY <3>1, <3>2, SamePhase DEF QueuePromise, CreationDelivered
  <2>. QED BY <2>1, <2>2, <2>3 DEF Queue!Next
<1>. QED BY <1>1, <1>2, QueueInvariant, PTL
     DEF Queue!Spec, QueueImplementsDelivery, Queue!ImplementsDelivery, Queue!Delivery!DeliverySpec, CreationPhase,
         CreationDelivered
===============================================================================
