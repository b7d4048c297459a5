---------------------------- MODULE PostSubmission ----------------------------
(***************************************************************************)
(* POST /posts of one owner (modules/posts/postRoutes.ts): what a request  *)
(* that may be sent again, at any time and more than once, creates and     *)
(* charges, next to the publisher, the owner's other calls, and a plan, a  *)
(* balance of purchased units and a month that change underneath it.       *)
(*                                                                         *)
(* A request with a clientRequestId works on the post whose id is made of  *)
(* that key, any other on a post of its own.  Each read and each           *)
(* transaction of the stores is one step of the request.  The shared side  *)
(* of the owner lock excludes only a deletion (see OwnerMutationLock) and  *)
(* is left out, as is the job that a post is handed to the queue with.     *)
(***************************************************************************)
EXTENDS Integers, FiniteSets, FiniteSetsExt

CONSTANTS
    Requests, Keys,
    KeyOf,         \* the clientRequestId of a request, or None
    Intents,
    IntentOf,      \* what a request wants to publish: all that a replay is compared by
    Units,         \* the platforms of an intent, one post unit each
    Scheduled,     \* the intents with a scheduledAt
    Plans, Basic,
    PlanLimit,     \* monthlyPostUnitLimits
    Packs,         \* purchases of add-on units
    PackUnits,
    MaxMonth,      \* bound: the months are 0..MaxMonth
    MaxChanges,    \* bound: changes of plan
    MaxFaults,     \* bound: failing calls and exits of the process
    None, Edited   \* no key; the intent of a post that was rescheduled or edited

ASSUME SubmissionAssumption ==
    /\ IsFiniteSet(Requests) /\ IsFiniteSet(Keys) /\ IsFiniteSet(Packs)
    /\ Requests \cap Keys = {} /\ None \notin Keys /\ Edited \notin Intents
    /\ KeyOf \in [Requests -> Keys \cup {None}]
    /\ IntentOf \in [Requests -> Intents]
    /\ Units \in [Intents -> Nat \ {0}]
    /\ Scheduled \subseteq Intents
    /\ Basic \in Plans /\ PlanLimit \in [Plans -> Nat] /\ PackUnits \in Nat
    /\ {MaxMonth, MaxChanges, MaxFaults} \subseteq Nat

VARIABLES
    (* durable *)
    post,       \* the row of each post id
    plan, packs,
    (* the publisher *)
    attempt,    \* of each post
    (* requests *)
    pc, local, answer,
    (* environment *)
    month, changes, faults,
    (* history *)
    handed,     \* how often the provider was asked to publish each post
    cancelled,  \* the posts whose owner cancelled them
    plansHeld

request == <<pc, local, answer>>
account == <<plan, packs, changes, plansHeld>>
history == <<handed, cancelled>>
vars    == <<post, account, request, attempt, month, faults, history>>

Months  == 0..MaxMonth
PostIds == Keys \cup {r \in Requests : KeyOf[r] = None}
\* PUBLISHED stands for PARTIAL_PUBLISHED, too.
Status  == {"NONE", "QUEUED", "PUBLISHING", "PUBLISHED", "FAILED"}

\* createdIn is the month of createdAt, which the database sets.
Row == [status : Status, intent : Intents \cup {Edited}, units : Nat, addon : Nat,
        createdIn : Months, checkedFor : Months]
NoRow == [status |-> "NONE", intent |-> Edited, units |-> 0, addon |-> 0,
          createdIn |-> 0, checkedFor |-> 0]

\* The local state of a handler: the plan and the time as it read them (the month for which its
\* quota is checked), and createResult.created.
Local   == [plan : Plans, asOf : Months, mine : BOOLEAN]
NoLocal == [plan |-> Basic, asOf |-> 0, mine |-> FALSE]

Creating == {"locked", "rechecked", "planned", "stamped", "enqueue", "rollback"}
Steps    == {"idle", "replay", "ensure", "checks", "locking", "answered"} \cup Creating
Answers  == {"none", "ok", "reused", "failed", "refused", "limit", "unavailable", "error"}

\* Types: rows, requests and the account are in the states the code knows.
TypeOK ==
    /\ post \in [PostIds -> Row]
    /\ plan \in Plans /\ packs \in [Packs -> {"none", "granted", "revoked"}]
    /\ pc \in [Requests -> Steps] /\ local \in [Requests -> Local]
    /\ answer \in [Requests -> Answers]
    /\ month \in Months /\ changes \in 0..MaxChanges /\ faults \in 0..MaxFaults
    /\ attempt \in [PostIds -> {"none", "claimed", "started"}]
    /\ handed \in [PostIds -> Nat] /\ cancelled \subseteq PostIds
    /\ plansHeld \subseteq Plans

Init ==
    /\ post = [p \in PostIds |-> NoRow]
    /\ plan = Basic /\ packs = [k \in Packs |-> "none"]
    /\ pc = [r \in Requests |-> "idle"] /\ local = [r \in Requests |-> NoLocal]
    /\ answer = [r \in Requests |-> "none"]
    /\ attempt = [p \in PostIds |-> "none"]
    /\ month = 0 /\ changes = 0 /\ faults = 0
    /\ handed = [p \in PostIds |-> 0] /\ cancelled = {} /\ plansHeld = {Basic}

-------------------------------------------------------------------------------
Keyed(r) == KeyOf[r] # None
PostOf(r) == IF Keyed(r) THEN KeyOf[r] ELSE r
RowOf(r)  == post[PostOf(r)]

\* findIdempotent, isMatchingIdempotentIntent
Found(r) == Keyed(r) /\ RowOf(r).status # "NONE"
Matches(r) == RowOf(r).intent = IntentOf[r]

IsScheduled(r) == IntentOf[r] \in Scheduled
CanSchedule(p) == p # Basic

\* The request goes on, with what it now knows; or it is answered.
GoesWith(r, step, l) ==
    pc' = [pc EXCEPT ![r] = step] /\ local' = [local EXCEPT ![r] = l] /\ UNCHANGED answer
Goes(r, step) == GoesWith(r, step, local[r])
Answer(r, a)  ==
    /\ pc' = [pc EXCEPT ![r] = "answered"] /\ local' = [local EXCEPT ![r] = NoLocal]
    /\ answer' = [answer EXCEPT ![r] = a]

Fault == faults < MaxFaults /\ faults' = faults + 1

\* What a request does about a post that its key has already.
AnswerReplay(r) ==
    \/ ~Matches(r) /\ Answer(r, "reused")
    \/ Matches(r) /\ RowOf(r).status = "FAILED" /\ Answer(r, "failed")
    \/ Matches(r) /\ RowOf(r).status = "QUEUED" /\ Goes(r, "ensure")
    \/ Matches(r) /\ RowOf(r).status \in {"PUBLISHING", "PUBLISHED"} /\ Answer(r, "ok")

-------------------------------------------------------------------------------
(***************************************************************************)
(* The request: first the replay of an accepted one, without quota work.   *)
(***************************************************************************)
Lookup(r) ==
    /\ pc[r] = "idle"
    /\ \/ ~Found(r) /\ Goes(r, "checks")
       \/ Found(r) /\ Matches(r) /\ Goes(r, "replay")
       \/ Found(r) /\ ~Matches(r) /\ Answer(r, "reused")
    /\ UNCHANGED <<post, account, attempt, month, faults, history>>

\* The row is read again after the wait for the owner lock.
Replay(r) ==
    /\ pc[r] = "replay"
    /\ \/ ~Found(r) /\ Goes(r, "checks")
       \/ Found(r) /\ AnswerReplay(r)
    /\ UNCHANGED <<post, account, attempt, month, faults, history>>

\* A check of the input, the media, the plan, the platform targets, the clock or the owner's
\* life fails.
Refuse(r) ==
    /\ pc[r] \in {"replay", "checks", "locked", "rechecked", "planned"}
    /\ Answer(r, "refused")
    /\ UNCHANGED <<post, account, attempt, month, faults, history>>

ReadPlan(r) ==
    /\ pc[r] = "checks"
    /\ IsScheduled(r) => CanSchedule(plan)
    /\ GoesWith(r, "locking", [local[r] EXCEPT !.plan = plan])
    /\ UNCHANGED <<post, account, attempt, month, faults, history>>

\* creationLocks: one request at a time creates the post of a key.
CreationLocked(r) == \E q \in Requests : PostOf(q) = PostOf(r) /\ pc[q] \in Creating

AcquireCreation(r) ==
    /\ pc[r] = "locking" /\ ~CreationLocked(r)
    /\ Goes(r, "locked")
    /\ UNCHANGED <<post, account, attempt, month, faults, history>>

\* An explicit TikTok Direct intent looks once more for its post, before the creator checks.
\* Which intents are Direct is left open.
RecheckDirect(r) ==
    /\ pc[r] = "locked"
    /\ \/ Found(r) /\ AnswerReplay(r)
       \/ Goes(r, "rechecked")
    /\ UNCHANGED <<post, account, attempt, month, faults, history>>

\* A new schedule needs the plan as it is now.
RecheckPlan(r) ==
    /\ pc[r] = "rechecked"
    /\ LET isNew == IsScheduled(r) /\ ~Found(r) IN
       /\ isNew => CanSchedule(plan)
       /\ GoesWith(r, "planned", [local[r] EXCEPT !.plan = IF isNew THEN plan ELSE @])
    /\ UNCHANGED <<post, account, attempt, month, faults, history>>

\* After userStore.ensure the clock is read for the quota.
Stamp(r) ==
    /\ pc[r] = "planned"
    /\ GoesWith(r, "stamped", [local[r] EXCEPT !.asOf = month])
    /\ UNCHANGED <<post, account, attempt, month, faults, history>>

-------------------------------------------------------------------------------
(***************************************************************************)
(* createWithinMonthlyLimit: one serializable transaction.                 *)
(***************************************************************************)
AnyNumber(n) == n
AtLeastZero(n) == IF n < 0 THEN 0 ELSE n

IncludedUnits(S) == SumFunctionOnSet([p \in PostIds |-> post[p].units - post[p].addon], S)
AddonUnits == SumFunctionOnSet([p \in PostIds |-> post[p].addon], PostIds)
Granted    == PackUnits * Cardinality({k \in Packs : packs[k] = "granted"})

PublishedIn(m) ==
    {p \in PostIds : post[p].status = "PUBLISHED" /\ post[p].createdIn = m}
CreatedIn(m) == {p \in PostIds : post[p].status # "NONE" /\ post[p].createdIn = m}

\* The units that the month's allowance of the plan leaves to purchased units.
NeededAddon(r) ==
    AtLeastZero(Units[IntentOf[r]]
                  - AtLeastZero(PlanLimit[local[r].plan] - IncludedUnits(CreatedIn(local[r].asOf))))
AvailableAddon(r) == IF local[r].plan = Basic THEN 0 ELSE AtLeastZero(Granted - AddonUnits)
Affordable(r) == NeededAddon(r) <= AvailableAddon(r)

NewRow(r) == [status |-> "QUEUED", intent |-> IntentOf[r],
              units |-> Units[IntentOf[r]], addon |-> NeededAddon(r),
              createdIn |-> month, checkedFor |-> local[r].asOf]
Insert(r) == post' = [post EXCEPT ![PostOf(r)] = NewRow(r)]

Create(r) ==
    /\ pc[r] = "stamped"
    /\ \/ /\ Found(r) /\ AnswerReplay(r) /\ UNCHANGED post
       \/ /\ ~Found(r) /\ ~Affordable(r) /\ Answer(r, "limit") /\ UNCHANGED post
       \/ /\ ~Found(r) /\ Affordable(r) /\ Insert(r)
          /\ GoesWith(r, "enqueue", [local[r] EXCEPT !.mine = TRUE])
    /\ UNCHANGED <<account, attempt, month, faults, history>>

\* The transaction ends with an error: it was rolled back, or only its answer is lost.
CreateFails(r) ==
    /\ pc[r] = "stamped" /\ Fault
    /\ \/ UNCHANGED post
       \/ ~Found(r) /\ Affordable(r) /\ Insert(r)
    /\ Answer(r, "error")
    /\ UNCHANGED <<account, attempt, month, history>>

-------------------------------------------------------------------------------
(***************************************************************************)
(* The hand-over to the queue.                                             *)
(***************************************************************************)
Enqueue(r) ==
    /\ pc[r] \in {"enqueue", "ensure"} /\ Answer(r, "ok")
    /\ UNCHANGED <<post, account, attempt, month, faults, history>>

RollsBackAny(r) == local[r].mine
RollsBack(r) == local[r].mine /\ ~Keyed(r)

EnqueueFails(r) ==
    /\ pc[r] \in {"enqueue", "ensure"} /\ Fault
    /\ \/ RollsBack(r) /\ Goes(r, "rollback")
       \/ ~RollsBack(r) /\ Answer(r, "unavailable")
    /\ UNCHANGED <<post, account, attempt, month, history>>

RemovableInFlight(p) == post[p].status \in {"QUEUED", "PUBLISHING"}
Removable(p) == post[p].status = "QUEUED"
RemovedAnyway(p) == [post EXCEPT ![p] = NoRow]
Removed(p) == IF Removable(p) THEN [post EXCEPT ![p] = NoRow] ELSE post

\* A post without a key is taken back; when that fails, too, it only logs.
Rollback(r) ==
    /\ pc[r] = "rollback" /\ Answer(r, "unavailable")
    /\ post' \in {post, Removed(PostOf(r))}
    /\ UNCHANGED <<account, attempt, month, faults, history>>

\* The process exits: its requests end without an answer, its attempts without a result.
Exit ==
    /\ Fault
    /\ \E r \in Requests : pc[r] \notin {"idle", "answered"}
    /\ pc' = [r \in Requests |-> IF pc[r] = "idle" THEN "idle" ELSE "answered"]
    /\ local' = [r \in Requests |-> NoLocal]
    /\ attempt' = [p \in PostIds |-> IF attempt[p] = "claimed" THEN "none" ELSE attempt[p]]
    /\ UNCHANGED <<post, account, answer, month, history>>

-------------------------------------------------------------------------------
(***************************************************************************)
(* The rest of the system: the publisher (see PublishScheduler), the       *)
(* owner's other calls, billing, the calendar.                             *)
(***************************************************************************)
SetStatus(p, status) == post' = [post EXCEPT ![p].status = status]

SetAttempt(p, a) == attempt' = [attempt EXCEPT ![p] = a]

\* claimForPublishWithSchedule
Claim(p) ==
    /\ post[p].status = "QUEUED" /\ SetStatus(p, "PUBLISHING")
    /\ SetAttempt(p, "claimed")
    /\ UNCHANGED <<account, request, month, faults, history>>

\* The provider is asked to publish.
Start(p) ==
    /\ attempt[p] = "claimed" /\ SetAttempt(p, "started")
    /\ handed' = [handed EXCEPT ![p] = @ + 1]
    /\ UNCHANGED <<post, account, request, month, faults, cancelled>>

\* An attempt that failed before it asked the provider is put back.
PutBack(p) ==
    /\ attempt[p] = "claimed" /\ SetStatus(p, "QUEUED") /\ SetAttempt(p, "none")
    /\ UNCHANGED <<account, request, month, faults, history>>

\* The result of a publish, also found after an exit; or the scheduler gave up before it asked.
Settle(p) ==
    /\ \/ post[p].status = "PUBLISHING" /\ attempt[p] = "started" /\ SetStatus(p, "PUBLISHED")
       \/ post[p].status \in {"QUEUED", "PUBLISHING"} /\ SetStatus(p, "FAILED")
    /\ SetAttempt(p, "none")
    /\ UNCHANGED <<account, request, month, faults, history>>

\* DELETE /posts/:id
Cancel(p) ==
    /\ Removable(p) /\ post' = Removed(p)
    /\ cancelled' = cancelled \cup {p}
    /\ UNCHANGED <<account, request, attempt, month, faults, handed>>

\* PATCH /posts/:id, PATCH /posts/:id/caption, POST /posts/:id/publish-now
Edit(p) ==
    /\ post[p].status = "QUEUED" /\ post[p].intent # Edited
    /\ post' = [post EXCEPT ![p].intent = Edited]
    /\ UNCHANGED <<account, request, attempt, month, faults, history>>

ChangePlan(p) ==
    /\ p # plan /\ changes < MaxChanges
    /\ plan' = p /\ changes' = changes + 1 /\ plansHeld' = plansHeld \cup {p}
    /\ UNCHANGED <<post, packs, request, attempt, month, faults, history>>

\* applyPurchase, revokePurchase; a revocation may come first.
Purchase(k) ==
    /\ \/ packs[k] = "none" /\ packs' = [packs EXCEPT ![k] = "granted"]
       \/ packs[k] # "revoked" /\ packs' = [packs EXCEPT ![k] = "revoked"]
    /\ UNCHANGED <<post, plan, changes, plansHeld, request, attempt, month, faults, history>>

NextMonth ==
    /\ month < MaxMonth /\ month' = month + 1
    /\ UNCHANGED <<post, account, request, attempt, faults, history>>

-------------------------------------------------------------------------------
Handle(r) ==
    \/ Replay(r) \/ Refuse(r) \/ ReadPlan(r) \/ AcquireCreation(r) \/ RecheckDirect(r)
    \/ RecheckPlan(r) \/ Stamp(r) \/ Create(r) \/ Enqueue(r) \/ Rollback(r)

Next ==
    \/ \E r \in Requests : Lookup(r) \/ Handle(r) \/ CreateFails(r) \/ EnqueueFails(r)
    \/ \E p \in PostIds : Claim(p) \/ Start(p) \/ PutBack(p) \/ Settle(p)
                        \/ Cancel(p) \/ Edit(p)
    \/ \E p \in Plans : ChangePlan(p)
    \/ \E k \in Packs : Purchase(k)
    \/ Exit \/ NextMonth

Spec == Init /\ [][Next]_vars

-------------------------------------------------------------------------------
(***************************************************************************)
(* Properties.                                                             *)
(***************************************************************************)
MostIncluded == CHOOSE n \in {PlanLimit[p] : p \in plansHeld} :
                    \A p \in plansHeld : PlanLimit[p] <= n

\* Concurrent requests, replays and cancellations cannot spend more than the month's allowance
\* of a plan the owner has held, among the posts that were checked for the month they count in.
WithinLimit ==
    \A m \in Months :
        LET countIn == {p \in PostIds : post[p].createdIn = m /\ post[p].checkedFor = m}
        IN  IncludedUnits(countIn) <= MostIncluded

\* "Basic is limited to 3 post units per month", "Starter is limited to 120": every post that
\* counts in a month, whatever month it was checked for.
WithinMonthlyLimit ==
    \A m \in Months : IncludedUnits({p \in PostIds : post[p].createdIn = m}) <= MostIncluded

\* However often a request is sent, and whatever fails or is cancelled in between, the provider
\* is asked at most once to publish the post of a key.
HandedOnce == \A p \in PostIds : handed[p] <= 1

\* What a post costs is fixed when it is accepted, and is given back only by taking back a post
\* that no publisher has: not by a late roll-back, not by a change of plan or month.
Cost(p) == <<post[p].units, post[p].addon, post[p].createdIn>>
CostIsFixed ==
    [][\A p \in PostIds :
        \/ post[p].status = "NONE" \/ Cost(p)' = Cost(p)
        \/ post[p].status = "QUEUED" /\ post'[p].status = "NONE"]_vars

\* A post that was reported as accepted is there until its owner cancels it; in particular the
\* failure of another request with the same key does not take it back.
AcceptedStays ==
    \A r \in Requests :
        answer[r] = "ok" => RowOf(r).status # "NONE" \/ PostOf(r) \in cancelled
===============================================================================
