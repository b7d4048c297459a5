# PostDee: a formal model of the API

PostDee is a mobile app that publishes one short video to several social platforms. The Flutter app
(`apps/mobile`) is a client; the state lives in the TypeScript API (`apps/api`), in PostgreSQL, in Redis, in
an object store and in the social provider PostPeer. This directory holds TLA+ modules for the parts of
the API where the order of events decides whether a user's post is sent twice, sent early, lost, or
still on a platform after the account was deleted; whether credits are charged for nothing, a purchase
is lost, a linked account disappears; and for the algorithms that decide what an AI edit removes from
a clip. TLC checks them on small instances, TLAPS proves the main results for every value of the
constants.

## 1. The system

| Part | State | Operations | Modelled |
|---|---|---|---|
| Publish scheduler (`workers/publishScheduler.ts`) | poll flags, health, reconciliation flag, attempts of running workers | poll, pool, attempt, back-off, stop, drain, start, readiness | `PublishScheduler` |
| Due list (`runOnce`, `listDue`) | the cursor between polls | read a batch, walk it with a pool | `DuePostPoll` |
| Publish worker (`workers/publishWorker.ts`) | the locals of one attempt | claim, checks, provider calls, receipts, status | `PublishScheduler` |
| Provider client (`workers/postPeerPublisher.ts`) | the locals of one call | check the target, ask for the post, read answers, poll | `PostPeerPublish` |
| Start-up recovery (`workers/interruptedPublishRecovery.ts`) | none | finalise interrupted posts from saved receipts | `PublishScheduler` |
| Post store (`modules/posts`) | `Post` and `PlatformPublish` rows | conditional writes: claim, reschedule, publish now, caption, remove | `PostStore` |
| Submission (`modules/posts/postRoutes.ts`, `prismaPostRepository.ts`) | rows, units charged, the locals of a request | create once per key, quota, roll-back, cancel | `PostSubmission` |
| BullMQ queue (`modules/queue`, `workers/publishWorkerRunner*.ts`) | Redis jobs beside the rows | enqueue, replay, reschedule, publish now, remove, run, stall | `BullMqPublish` |
| Owner lock (`modules/account/ownerMutationLock.ts`) | per owner: readers, deletion, queue | acquire (shared, exclusive), release, marks | `OwnerMutationLock` |
| Owner operations (`modules/account/prismaOwnerOperationCoordinator.ts`) | tickets, deletion claim, owner marker | admit, nest, retain, release, seal, claim, finish | `OwnerLifecycle` |
| Account deletion (`modules/account/accountRoutes.ts`) | everything an account has, in all stores | authorise, seal, claim, the cleanup steps, finish, release | `AccountDeletion` |
| Managed uploads (`modules/uploads`) | session rows, the store's uploads and objects, the sweeper's list | create, complete, reconcile, abort, sweep, clean up | `ManagedUpload` |
| AI usage (`modules/captions`, `modules/aiEdits`) | usage rows, add-on ledger, places for media | reserve, work, refund, time out | `AiUsage` |
| Captions (`modules/captions`) | the locals of one request | hear and see, write, audit, repeat, fall back | `CaptionWriting` |
| AI edits (`modules/aiEdits`) | one request with its media; its recipe | transcribe parts, place sounds, watch, plan cuts, find repeats, build, make subtitles, delete what is temporary | `AiEditRequest`, `AiEditRecipe`, `EditPlan`, `SpeechReduction`, `Transcription`, `SubtitleCues` |
| Billing (`modules/billing`, `modules/subscriptions`) | one subscription row and cursor per owner, add-ons | webhook, transfer, resync, purchase, refund, confirmation | `Subscriptions`, `AddonPurchases`; what is spent of packs in `PostSubmission` and `AiUsage`; locks of a transfer in `OwnerMutationLock` |
| Social connections (`modules/socialConnections`) | PostPeer's integrations, profile row, saved connection, connect attempt | connect, refresh, disconnect | `SocialConnections` |
| Link in bio (`modules/linkInBio`) | one page per owner, reserved names, images with their pins | publish, unpublish, upload, protect a draft, prune | `LinkInBioPages`, `LinkInBioImages` |
| Support chat and bot, notifications and devices, admin console, templates, analytics, service status, authentication, rate limit, configuration, mobile app | single rows, caches | requests of one transaction each | no |

How the parts meet:

* **Requests and deletion, in one process.** Every mutation takes the shared side of its owner's lock
  in a middleware; deletion takes the exclusive side. A RevenueCat transfer takes the shared side of
  several owners, one after the other, in sorted order.
* **Work and deletion, across processes.** Every piece of work (HTTP handler, upload, worker run) holds
  a ticket row. Deletion first seals the owner, so that no ticket is admitted any more, and only cleans
  up when no ticket is left. Work whose outcome is unknown keeps its ticket for ever: an operator has
  to look the outcome up. A crash leaves the ticket too.
* **Cleanup and what points to what.** A deletion removes uploads, jobs, linked accounts, the social
  profile, media, rows, the sign-in, in that order. Each step may fail or be cut off, and a retry starts
  from the first one: what a later step needs to find its object must outlive the object.
* **Scheduler and owner.** A poll reads the due posts, then publishes them minutes later, while the
  owner reschedules, edits, publishes now or removes. Only the WHERE clauses of the store decide who
  wins. The worker reads the content again after its claim.
* **Scheduler and provider.** A create call may be accepted although its answer says otherwise or never
  comes. The receipts of the platforms are saved before the status of the post. After a crash, recovery
  settles a post only when all its receipts were saved.
* **Provider client and PostPeer.** The client asks once, and then decides from answers that may lack anything, or
  never come, whether the worker hears published, refused or unknown. Meanwhile the account may be linked again.
* **Rows and jobs.** With BullMQ nothing polls the rows: a row without a job is never published. The job's
  id is a hash of the post and the time it runs at, and an `add` of an id that exists adds nothing. The
  routes write the row first and the job second, and roll the row back when the second write fails.
* **Clients and posts.** A client that got no answer sends its request again, with the same key. The id of
  the post is made of the key, so the store decides which request creates and charges it; the scheduler
  publishes the row whether or not a request has an answer yet.
* **Sessions and the object store.** An upload exists in the store before its session row, and an object
  before its row says COMPLETED. Requests, the sweeper and a deletion move the two in different orders;
  conditional row updates decide between a completion and an abort, a grace period keeps the sweeper
  away from completions, and the tickets keep a deletion away from requests.
* **Requests and credits.** A caption request looks at the quota early, waits for a place, and reserves
  its credits much later, in a transaction of its own; what the provider then does decides whether the
  credits are given back, while the deadline may abort the request at any await.
* **RevenueCat and plans.** Events of all plans of an owner move one row, behind a cursor that only moves
  forward; a lookup at the provider may be older or newer than the event that asked for it.
* **Packs and the ledger.** A pack is written by a webhook of its purchase, by the app's confirmation, or as refunded by
  a webhook that came first; a row says whose it is, for ever, whoever the store lists it under by then.
* **PostPeer and connections.** The owner authorises in a browser, without the API. A refresh imports what
  appeared since the attempt's baseline, while other requests clean up leftovers or disconnect.
* **Names and pages.** A claim reads who holds a name and then who has it reserved, while the holder renames; the unique
  index and the conditions of the writes decide.
* **Page, draft and images.** A prune deletes what neither the page nor a pin names. Publications pin an image before
  they name it; the app pins before it saves a draft on the device, and gives pins up after it has.
* **Two tellings of a clip.** Segments and words of a transcript are checked against each other; the better one makes the
  subtitles, and both decide what may be cut.
* **Plan and cleanup of an edit.** A model, or the rules, choose what to keep of a clip; repeated words
  and fillers are cut as well; the recipe is the union of the two.

What is hard: awaits between a check and the write that relies on it; retries around a call that
must not be repeated; a database error for a write that was applied; crashes between the provider's
answer and the saved receipt; nested callbacks that outlive their parent; waiters that nobody wakes;
events in any order and twice; cursors that starve; windows at the edge of a cue.
`PROJECT.json` lists these hazards at their lines, with the property that would catch each.

## 2. The modules

`MC*.tla` and the `.cfg` files give the instances, `*_proofs.tla` the proofs. In all of them a database or
provider call that reports an error may or may not have been applied; each error costs one of
`MaxFaults`, each exit of a process one of `MaxExits`.

### Publishing

**`PostStore`** has the row of a post and the conditional writes as operators: a guard is the WHERE
clause of the statement. `MaxTime` bounds the clock, captions are numbered by the edit that wrote them.
The one-minute edit window before the scheduled time is the last step of the clock before it.

**`PublishScheduler`** extends it with one action for each stretch of code between two awaits:

| Code | Actions |
|---|---|
| `runOnce` | `StartPoll`, `PollReadFails`, `Admit`, `AdmitFails`, `EndPoll` |
| `processPublishJobForPost` | `ReadPlan`, `AssertOwnerActive`, `Claim`, `Recheck`, `Reread`, `CallProvider`, `Answered`, `RecordResults`, `SettleStatus`, `FailClosed` |
| catch of `publishDuePostWork` | `CatchAfterCall`, `Requeue`, `GiveUp` |
| end of the owner operation | `Finish` |
| `stop`, `drain`, `start`, a crash | `Stop`, `Drained`, `Crash`, `Start` |
| post routes | `Reschedule`, `PublishNow`, `EditCaption`, `RemovePost` |
| account deletion, as seen from here | `Seal`, `BeginCleanup`, `PurgePosts` |
| outside | `Tick`, `PlanChanges` |

`Crash` forgets the process's variables and leaves the ticket of each running worker. `accepted` counts
the posts the provider really created, `result` what the worker was told, `receipt` what was saved.

**`PostDelivery`** is the promise: a post is open until it is taken, only a taken post is handed to a
platform, once, and a post of which anything was handed over never opens again. `ImplementsDelivery`
says that `PublishScheduler` implements it, with the phase read off the status of the row, and so does
`BullMqPublish`, with each creation of the post as a post of its own. Both refinements are proved.

**`DuePostPoll`** has what `PublishScheduler` leaves out of a poll: the batches in the order of ids, the pool
within a batch and the cursor that outlives the poll (`StartPoll`, `ReadBatch`, `ReadFails`, `Take`,
`EndAttempt`, `EndWalk`, `EndPoll`, `Stop`, `Restart`; `BecomesDue`, `Withdrawn` outside). Of a post only whether
it leaves the due list is known; posts in `Stuck` belong to an owner being deleted and never do.

**`BullMqPublish`** extends `PostStore` with the jobs of one post by id:

| Code | Actions |
|---|---|
| post routes | `Create`, `Replay`, `Patch`, `PublishNow`, `Delete` |
| `enqueue`, `ensureEnqueued`, `reschedule`, `remove` | `Add`, `Clear`, `OnQueueError`, `Rollback` |
| `publishWorkerRunner`, `publishWorker` | `Take`, `BeginWork`, `Claim`, `Deliver`, `Settle`, `FailClosed`, `KeepSkipped`, `EndJob` |
| BullMQ, processes, clock | `RecoverStalled`, `ApiExits`, `WorkerExits`, `Tick` |

`doubt` and `claimer` are history: whether a request broke off or a job failed since a job was last added,
and the job that took the post. What happens on the platforms is `PublishScheduler`'s. **`QueuedPublish`** is the
model under names that `PublishScheduler` does not use (`record`, `made`, `work`, `errors`), so that both modes of publishing stand in one
module; `bullmq` runs it.

**`PostPeerPublish`** is one call of the provider client, which `PublishScheduler` takes as one step with any answer:

| Code | Actions |
|---|---|
| `readPostPeerAccountId`, `getCreatorInfo`, media, second look | `ReadTarget`, `ReadCreator`, `ResolveMedia`, `RecheckTarget`, `AssertOwnerActive` |
| create request | `CreateUnanswered`, `CreateRejected`, `CreateServerError`, `CreateUnreadable`, `CreateAnswered` |
| status checks | `PollFails`, `PollAnswered` |
| PostPeer | `Arrives`, `Progresses` |
| the owner's other requests | `Reconnects`, `Refreshes`, `Disconnects`, `Seal` |

`Evaluate` is `evaluatePostPeerPayload`, by kind of post: TikTok Direct with explicit settings, TikTok Inbox draft,
TikTok of before those settings, Facebook page draft, any other. `made` is what really became of the post,
`travels` a request whose client gave up but which may still arrive; `lost` is history: the await at which the
connection stopped being the one the post was meant for, and has not been it since.

**`PostSubmission`** has `POST /posts` of one owner: the post of each key, requests that may be repeated,
the plan, purchases of units and the month. Each read and each transaction is one step of a request:

| Code | Actions |
|---|---|
| first lookup, replay under the owner lock | `Lookup`, `Replay` |
| checks of the request and the plan | `Refuse`, `ReadPlan` |
| `creationLocks`, second lookup, second look at the plan, the clock | `AcquireCreation`, `RecheckDirect`, `RecheckPlan`, `Stamp` |
| `createWithinMonthlyLimit` | `Create`, `CreateFails` |
| queue, roll-back | `Enqueue`, `EnqueueFails`, `Rollback` |
| publisher, as seen from here | `Claim`, `Start`, `PutBack`, `Settle` |
| owner, billing, calendar, process | `Cancel`, `Edit`, `ChangePlan`, `Purchase`, `NextMonth`, `Exit` |

An intent is a value with a number of units; two requests match when their intents are equal, and an edited
post matches none. `createdIn` is the month of `createdAt`; `checkedFor`, the month whose quota was checked,
is history, as are `handed`, `cancelled` and `plansHeld`.

### Owners

**`OwnerMutationLock`** has the lock state of each owner and the handlers that use it. `drain` is an
operator, `Drained`, applied in the same step as the call that triggers it, because the code runs it
in the same turn of the event loop. The handlers are requests (whose release closure runs from
`response.end` and again from the finish event), transfers and deletions.

**`OwnerLifecycle`** has the durable tickets, the deletion claim and the owner marker, operations with
nested calls, deletion runs, crashes of any process and the operator. Each Serializable transaction
locks the owner's marker row first, so it is one step. `unknown` is the set of operations whose remote
outcome nobody knows. **`OwnerBarrier`** is what it implements: work is let in only while the owner is
open, cleanup runs only when nothing is unresolved.

**`AccountDeletion`** extends `OwnerLifecycle`: `data` is the set of what there is of the account, in all stores.

| Code | Actions |
|---|---|
| `DELETE /account`, an operator's retry | `Authorise`, `Claim`, `ReadScope` |
| uploads, jobs, linked accounts | `StopUploads`, `RemoveJobs`, `Disconnect` |
| profile and the row that names it | `DeleteProfile`, `DropMapping` |
| media, rows, sign-in | `DeleteMedia`, `DeleteRows`, `DeleteIdentity` |
| end | `FinishSessions`, `FinishDeletion`, `Releases` |
| failures and processes | `Fails`, `Stops` |
| the owner's work, a browser | `Works`, `Links` |

`Works` is what an operation may leave behind at any moment it runs, or later when its outcome is unknown:
an upload, a row with or without its job, a job without a row, a profile with or without its mapping.

### Uploads

**`ManagedUpload`** has the session rows of one owner next to the state of each upload in the store. A
statement and a store call are one step each.

| Code | Actions |
|---|---|
| `create` | `CreateUpload`, `Insert`, `Undo` |
| `complete` | `Complete`, `BeginCompletion`, `Assemble`, `MarkCompleted` |
| `get`, `reconcileCompletion` | `Get`, `Head`, `MarkCompleted` |
| `abort` | `Abort`, `BeginAbort`, `Discard` |
| `sweepExpiredSessions` | `Sweep`, `SweepAbort`, `SweepRetire` |
| account deletion | `Seal`, `BeginCleanup`, `Reconcile`, `AbortOpen`, `AbortOrphans`, `DeleteMedia`, `Finish` |
| outside | `Tick`, `Crash`, `ReconcileTickets` |

`time` is the moment a request read from its clock, which its transaction uses later; `kept` says that a
ticket or a claim outlived its operation, which is all of `OwnerLifecycle` that uploads depend on. No
request runs during a cleanup, so a loop of the cleanup over the sessions is one step, which an error may
stop anywhere; the sweeper does run, between the loops.

### Credits, plans and connections

**`AiUsage`** has the AI requests of one owner over the usage tables. `pc` is the await a handler is at,
`held` the records of its reservation, `told` what its answer says was charged: most errors say nothing of it
(`Silent`). `unrefunded` is history: the last refund could not be written.

| Code | Actions |
|---|---|
| start, early look at the quota, place for media | `Begin`, `EarlyRead`, `Admit` |
| reservation of a caption | `EnsureUser`, `Reserve`, `ReserveFails` |
| provider part, on the Gemini, the legacy and the local path | `Works`, `Fails`, `MediaFails`, `BreaksOff` |
| refunds | `Refund`, `FallbackRefund`, `FailureRefund`, `Refuse`, `Interrupt`, `AnswerCaption` |
| edits: transcription and preparation, minutes | `EditWorks`, `EditFails`, `EditUseless`, `ReserveMinutes`, `MinutesFail` |
| deadline, client, billing, process | `TimesOut`, `Disconnects`, `ApplyPurchase`, `RevokePurchase`, `Crash` |

**`Subscriptions`** has RevenueCat's truth (`paid`, as a history over `clock`), the webhooks it has to deliver,
and the rows the API keeps. `Pays`, `Expires`, `Cancels` and `Transfers` change the truth and emit an event;
a handler goes through `Receive` (or `Resync`), `ReadPlan`, `LookUp` or `LookUpFails`, and `WriteEvent`,
`WriteView` or `WriteFails`; `Passes` is time without a change. A lookup sees the truth of the moment of its step or, at
the price of an extra (`MaxExtras`), of the one before. `users` has the owners with an account: none at first, and `Ensure`, which any
route of the owner's may do and which a resync waits for before it writes, makes one at any moment. A webhook of an owner without an account is
acknowledged and changes nothing (`Ignore`; a transfer leaves that owner out). `newest` is history: the newest
thing told of each account. So is `missed`: the newest change that was told of an owner without an account, until a lookup is
applied that is as new as it and as every webhook outstanding.

**`AddonPurchases`** has what the provider lists (`Buys`, `Refunds`, `Moves` to another login), the ledger's row of each pack,
and requests at three awaits:

| Code | Actions |
|---|---|
| webhook | `Receive`, `WriteEvent`, `EventFails` |
| `POST /billing/addons/confirm` | `Ask`, `LookUp`, `LookUpFails`, `ReadReceipt`, `Write`, `WriteFails` |
| process, deletion | `Restart`, `Deletes` |

A row that is there is never given to another owner and never un-revoked (`Recorded`). `missed` is history: packs of which a webhook was
acknowledged although it found no account or no such product; `told` is history too: whom a pack was promised to.

**`SocialConnections`** has the user's profile and integrations at PostPeer beside the saved row and attempt.

| Code | Actions |
|---|---|
| connect: the profile | `StartConnect`, `EnsureProfile`, `FindProfile`, `MakeProfile`, `SaveProfile` |
| connect: leftovers, attempt, URL | `ListIntegrations`, `ReadSaved`, `CleanUp`, `Begin`, `CreateUrl`, `Cancel` |
| refresh | `StartRefresh`, `ReadRow`, `Poll`, `Complete`, `Reconcile` |
| disconnect | `StartDisconnect`, `Delete`, `Drop` |
| browser, PostPeer, clock, process | `Authorise`, `Revoke`, `Relabel`, `Expire`, `Exit` |

The id of an integration is an account and a number; PostPeer gives an account that reconnects its old id
(`ReusesIds`), which is why an attempt's baseline must be taken after the leftovers are gone. An integration is also
listed under a platform user, its own or, after `Relabel`, another or none, and a row is saved with both (`row`, `external`): a refresh keeps a
row only if its list has that id under that user. `back` is history of a request: the connection it read was not listed so
at some moment since, and then was again.

### Link in bio

**`LinkInBioPages`** has the page and the reserved names of each owner, and publish requests statement by statement.

| Code | Actions |
|---|---|
| handler: paid plan, the page as it was | `Ask`, `ReadPrevious` |
| `publish`: snapshot and style, holder, reservation | `Begin`, `ReadHolder`, `ReadReservation`, `RemoveReservation` |
| upsert, release of the old name, commit | `Write`, `Fails` |
| other writes, clock | `Unpublish`, `DeleteAll`, `Tick` |

A style is free, premium, or premium and unknown to old apps (`Newer`). `stale` is what makes a serializable transaction
fail, `barred` is history: whose the name has been ever since the transaction began.

**`LinkInBioImages`** has the images of one owner with one slot, call by call, and the draft on the device.

| Code | Actions |
|---|---|
| `pruneUnlocked` | `List`, `Examine`, `Claim`, `Verify`, `Cancel`, `Erase`, `Drop`, `Pruned` |
| `upload` | `StartUpload`, `Save` |
| publication: `validateImages`, write, release | `StartPublish`, `Validate`, `Pin`, `Write`, `Unpin` |
| `protectDraft` | `StartProtect`, `Review`, `Add`, `Release` |
| app (`_persistDraft`) | `SaveDraft`, `GivesUp` |
| failures, time | `Fails`, `Ages` |

The lock of the image service keeps apart the requests of one process, so each request here is a process of its own. A
message of the app stays in `sent` until a server takes it, however late; `left` counts pins that nobody will remove.

### Captions and AI edits

**`CaptionWriting`** is one caption at one provider: every model is asked for evidence, a draft and an audit
(`ReadEvidence`, `Write`, `Audit`, `AuditFails`; `WriteFromKeywords`), a call is repeated (`Retry`), a model that fails is
followed by the next or ends it all (`ModelFails`, `KeyRejected`), and a deadline cuts it short (`Abort`, `GivesUp`).
A text is what the checks tell apart: letters, whether the clip says it, emoji.

**`AiEditRequest`** is one request for an edit with its media:

| Code | Actions |
|---|---|
| checks of the body | `Refuse`, `RefusePlan`, `Begin` |
| `transcribeMedia`, merging parts | `TranscribePart`, `Transcribed`, `RefuseTimes`, `Prepare` |
| sound effects | `PlaceEffects` |
| visual planner | `ReadSegments`, `Upload`, `Poll`, `Watched`, `WatchFails`, `Forget` |
| answer, deletion of temporary media | `AnswerRecipe`, `Fails`, `Delete`, `Answer`, `CleanUp` |

**`SpeechReduction`** is the pass of `buildReadySpeechReduction` over the timed words (`FindRepeat`, `CountOccurrence`,
`CloseRepeat`, `NoRepeat`): words and short phrases said again at once, of which all but the last are cut.
**`EditPlan`** has the planners of `editPlanProvider.ts` as operators on ranges: normalising and complementing
cuts, trimming to a target, the windows of a coherent highlight with their scores and snapping, styles and
prompts. **`AiEditRecipe`** is the request around them: timing that is not proven (`RefuseTiming`), the plan of a model that
may answer anything or of the rules (`ModelPlans`, `RulesPlan`, `NoPlanAsked`), the cleanup (`BeginScan`, `ScanStep`) and
the recipe (`BuildScanned`, `BuildUnproven`, `BuildListed`, `BuildPlain`). Properties compare the range arithmetic with
sets of seconds.

**`SubtitleCues`** is the part of `buildAiEditRecipe` that makes subtitles. A transcript says the same thing twice, as
segments and as timed words, and either may be incomplete, in doubt or cut inside a Thai word. `WordsValid`, `Fragmented`
and `Repaired` decide what is trusted (`ReadEvidence`, `JudgeEvidence`); cues are estimated, made of words or read off the
segments (`LineEstimated`, `LineWords`, `LineReadable`), short ones are joined (`Merge`) and the rest added (`Finish`); `Exact` rebuilds Thai words for the search for repeats, and `Silences` are the gaps. The model also
has what was really said (`heard.said`), which the code never sees and the properties compare with.
The transcripts are what **`Transcription`** makes of the answers of either provider: it drops what has no time or is out of
order (`Audit`), makes segments of the events of ElevenLabs (`SegmentsOf`), and decides whether the times may be relied
on. `TimedRanges` has what these modules ask of parts of a clip.

**`AiFeatures`** puts `AiUsage`, `CaptionWriting`, `AiEditRequest` and `AiEditRecipe` side by side as instances under names of
their own, gives their properties a name and leaves their constants open; `MCAi` extends it, and so do the proofs.

## 3. What the runs check

| Run | Instance | Shows |
|---|---|---|
| `publish_platforms` | 1 post, 2 platforms, 2 attempts, 2 calls, clock 0..2, 1 edit, 1 fault, 1 exit, fair | the safety of publishing, that due posts are taken, and the refinement of `PostDelivery` |
| `postpeer` | 1 call, 5 kinds of posts, 2 status checks, 2 rows of the connection; or 2 accounts, one linked elsewhere, 2 requests, 2 connects, 1 fault (also a revocation, or a relabelled integration), 1 exit | published is said of what was published; a refused Direct post is nowhere; posts go where they were meant to; imports are new, what is removed is not listed as it was saved (`LinksFollowPostPeer`), leftovers do not block, the newest attempt is not cancelled by others |
| `due_posts` | 5 posts in batches of 2, 2 batches a poll, pool of 2, the first two stuck, 1 exit, fair | no post starves behind posts that stay due |
| `bullmq` | 1 post, clock 0..2, 2 attempts, 1 stall, 1 fault, 1 exit, fair | a post that waits is taken; a job that took a post is kept; refinement of `PostDelivery` |
| `submissions` | 2 requests with one key, 1 without, 2 plans, 1 purchase, 2 months, 2 plan changes, 1 fault | nothing is charged or published twice, no accepted post is taken back |
| `owner_lock` | 2 owners, 1 request, 2 transfers over both, 2 deletions, fair | a checked owner stays active, no deadlock, every ask granted |
| `account_deletion` | 2 operations, nesting, 2 deletion requests, 2 processes | what is left can be found again, nothing is left at the end; refinement of `OwnerBarrier` |
| `uploads` | 1 session, 2 requests, 2 faults, 1 exit, clock 0..3, fair | completion, abort, sweep and deletion against each other and the store; no session stays open for ever |
| `ai` | 2 requests of any kind on any path, limit 2, 1 credit bought, 1 place, 1 fault, 1 exit, fair; or one caption, 6 kinds of texts, 2 platforms, 2 models, 2 attempts; or one edit request over 4 keys, 2 parts, 1 effect, 1 poll; or all clips of at most 5 words, 2 texts, a price, sentence ends, lengths 1, 2, 4, pauses, targets 2..4, and of 3 words of 1 or 7 seconds around a target of 6; or clips of 4 or 5 letters or of 3 parts of one or two, told by either provider, 1 or 3 words a line | reservations take what is there, no answer tells a wrong charge, clip requests end; captions rest on what one model found and audited; what was uploaded for an edit goes with it, effects and plans are at what was heard; repeats are still said, a plan leaves what was asked for; subtitles say what was heard, silences are silent |
| `subscriptions` | 2 owners, Pro and Business, 2 handlers, 3 changes, 1 extra | the newest news stands, settled rows agree with what was paid unless it was told before the account, a transfer takes before it gives |
| `page_names` | 2 owners, 3 names, 2 requests, 1 reservation each, clock 0..1 | no name is taken from its holder or out of a reservation, no premium style without a membership |
| `kept` | 2 owners, 2 packs, one of a product that is given up, 2 requests, 3 changes; or 2 images, 2 requests, 2 references an image, 2 revisions of the draft | packs count for one owner until they are refunded; what the page or the saved draft shows is not deleted |

`MCAi` (on `AiFeatures`), `MCPostPeer` and `MCKept` put models side by side that do not interact, five, two and three (`page_names` runs the
third of `MCKept` by itself, with nothing to buy or upload; `kept` the other two, with no names): every
behaviour is one of one of them, with the state of the others standing still.

Why the bounds are enough to be interesting. Two platforms give partial success and two separate
unknown outcomes; two attempts give one pre-publish retry and one give-up; two calls give one retry of
a call and its limit; one fault can hit any database call of any attempt, applied or not, and one exit
any point between two calls; a clock with three values gives a schedule in the past, now and in the
future and a reschedule between them. Posts meet only through the poll and the pool, which is what
`due_posts` is for: its two stuck posts fill a batch, so a list that always begins at the front never sees the
rest, and two batches do not reach the fifth post. In `bullmq` a schedule may be in either step of the clock or
absent, which gives three ids, and a job of a cancelled post may lie under any of them from the start.
In the lock, two transfers over two owners with a deletion waiting on each is the smallest instance in
which an unsorted order deadlocks. In `account_deletion` one request is
overtaken by a retry, by the owner or an operator, in either process; an operation that nests
gives a callback that outlives its parent.
For uploads, two requests race on one session; a lifetime and a grace of one
step let the clock reach every side of both deadlines, and two faults hit an abort and the row update that
follows it, or the repetition of either. A session is only created early enough to expire within the clock.
Sessions meet only in the limit, which the proofs cover for any number.
For submissions, the post with a key needs more units than either plan leaves, so that the allowance, the
purchase and their order all matter; the third request takes the last unit, and only it is rolled back.
One fault is a lost answer, a failing queue or an exit; two changes of plan take it away and give it back.
In `ai` a request for two units takes one of the month and one that was bought; one place makes the second clip
wait or be refused. Three changes at RevenueCat give purchase, purchase and loss, or a transfer and its
reversal, with either account made before, between or after; two handlers hold two of their events at once. In `kept` three changes at the store buy two packs and refund one, or buy,
refund and move one, while each pack's id at the provider reads like the store's id of the other. In `postpeer` two connects give a newer
attempt that an older one could cancel, and an account that another user has cannot be imported.
In `ai` phrases of at most two words (three in the code) overlap and chain in five; lengths of 1, 2 and 4
seconds fall below, at and above targets of 2 to 4; between cues of 7 seconds a target of 6 has windows that no cue begins or ends,
and clips in which no window at an edge keeps enough in whole cues. For subtitles,
a letter of 0.6 s is short of the shortest cue (0.7 s) and two are not; pauses of none, 0.1 and 0.6 s lie around the limits for
gaps; two words or three letters fill a Thai line (five and 20 in the code), and one letter missing of five
is what `readValidTranscriptWords` just lets pass. OpenAI cuts segments anywhere, and leaves a part out of its words, or of words
and segments; ElevenLabs leaves out a part or its time, hears a sound, or sends no text. In `page_names` three names let one owner hold a name, release
another and claim the third, of which only one reservation is kept; a reservation lasts one step of the clock. In
`kept` one request prunes while the other publishes, pins or gives up; with two revisions a late release meets a
newer pin. Interchangeable requests, handlers and accounts are
`SYMMETRY` sets in the runs without liveness.

`CHECK_DEADLOCK FALSE` is used where the instance runs out of work: `bullmq` when the post is settled and the clock is
at its bound, `uploads` when the clock is, `submissions` and `ai` when all requests were answered, `subscriptions`
when the bounded events were delivered, `ai` with its recipe, `page_names` and
`kept` when names, changes, images and revisions are used up. The other runs check for deadlock: polls, owners,
operators and handlers always have something left that they may do.

### Fairness

`PublishScheduler!Fairness` assumes that the timer of the poll fires, that a poll and each step of a
worker that was started goes on (its awaits settle, every client has a timeout), and that a process
that was stopped or died is restarted. It assumes nothing of the owner, the clock or the plan.
`DuePostPoll!Fairness` assumes the same of its timer, walks and attempts; that reads of the list do not fail
for ever (strong, as a failing read ends the poll), and that attempts of a post that is not stuck succeed
in leaving the list if they are made again and again (strong; the code gives up and marks the post FAILED).
`BullMqPublish!FairSpec` (`QueueSpec` in the run) assumes that requests and the worker go on and that BullMQ takes due jobs and finds stalled
ones; nothing of owners or clocks. `OwnerMutationLock!Fairness` assumes that a handler that was started goes on
to its end, where it releases (in a `finally`, or in `response.end`); it does not assume that anyone asks.
`ManagedUpload!Fairness` assumes that time passes, that the sweeper's timer fires and that a request that
was started goes on; nothing of the client or the deletion. `AiUsage!FairSpec` assumes that the handler's own steps
go on and that its deadline fires; it assumes nothing of the provider or the storage. All but the two are weak.

### Assumptions of the publish runs

* One API process runs the scheduler: `render.yaml:7` demands it for the memory queue.
* In the run only the TikTok Direct platform may be answered 5xx (`ServerErrors = {tt}`). What
  happens otherwise is in section 6, not an assumption of the code.
* The worker handles `RetryablePublishError`; no publisher of the repository throws it now. The model
  keeps the branch for the platforms in `Retrying` (one of the two in the run), with the meaning its comment gives it:
  the provider created nothing.
* Owner requests are serialised per owner in the code, so each is one compare-and-set here.
* All posts belong to one owner; owners share nothing but the poll, the pool and the process.

### Assumptions of the provider run

* PostPeer's answers about a post may lack any field, but name no status the post does not have, with two exceptions that the
  client's comments describe: a TikTok summary may say published early, and TikTok names a receipt before it is done.
* A record of another post may be answered instead; it may say anything.
* A client error (4xx) means that nothing was made.
* TikTok posts of before the explicit settings have no proof to ask for: of them only that something was made is stated.

### Assumptions of the BullMQ run

* The post routes hold their own exclusive lock (`createOwnerMutationLock` in `postRoutes.ts`), so one request of
  an owner is at work at a time.
* That a job is stalled is found by BullMQ's own check (an external library), which counts to its limit.
* A job carries a copy of the content; the worker reads the row again, which is `PublishScheduler`'s `Reread`.
* A replay is answered 200 as soon as the expected job exists; if that job is active but has already skipped the
  post, the post waits for the next request. `doubt` is set then, and in the two cases below, which the
  properties except: a job that used up its attempts, and a request that broke off.
* A publish-now whose job has the id of one that is kept as failed gets that one back (`README.md:2563` tells
  the operator what to do with such jobs).

### Assumptions of the deletion run

* Owners signed in by Firebase; the mock sign-in of development has no identity to delete.
* PostPeer either refuses to delete a profile that has channels, or deletes it with them.
* A profile that was made but never saved may stay: no row and no URL names it.
* What an operation of unknown outcome does late happens while its ticket is there; the operator
  clears the ticket after the outcome is known.

### Assumptions of the upload run

* A begin-completion transaction is over, its retries included, within the grace period (`TransactionsAreShort`).
  The defaults leave much room: its own timeout and retries stay under a minute, the grace is 300 seconds.
* The store lists an upload as soon as it was created, and refuses to complete one that was aborted.
* The operator clears the ticket of a request only after the request has ended.

### Assumptions of the submission run

* `creationLocks` is the memory of one process (see `render.yaml:7`); the store alone would keep `HandedOnce`.
* The shared side of the owner lock and a deletion are left to `OwnerMutationLock` and `OwnerLifecycle`.
* A failing hand-over to the queue leaves nothing in it; what a job may do is in `BullMqPublish`.

### Assumptions of the other runs

* `AiUsage` is one month of one owner. Refusals before any state changes, the clean-up of media files and an
  acknowledgement lost after a commit are left out: a write that fails was not done. An answer tells a charge as `chargedCredits`, as a
  caption it was asked for with (local captions say `charged`), or, of edits, in `usedMinutes`; `told` is what it comes to.
* `Subscriptions`: a store replaces Starter by Pro, so an owner has at most one of them (`OneTier`; see section 6). Two
  events never have the same time; a repeat of the event last applied is ignored although its lookup is newer. The two
  looks of a transfer for an account (`revenueCatTransfer.ts:100`, `:153`) are one step; accounts are made and not deleted here.
  Periods that end without an event, trials and the raw notifications of the stores are not modelled; deletions of accounts are
  `AccountDeletion`'s, and that a deleted owner is not written `OwnerLifecycle`'s.
* `AddonPurchases`: a store's transaction is one pack; the two namespaces of ids are told apart by what they look like (`TextAs`). A refund
  webhook that finds no account is acknowledged and leaves nothing, so a later purchase webhook would grant the pack; and a refund told under
  the login a pack moved to conflicts with the row (409) and is delivered again for ever. The first is a case of `missed`.
* `CaptionWriting`: one request; keyword captions are taken as they come. `AiEditRequest`: one request; what its calls cost is
  `AiUsage`'s, what its plan cuts `AiEditRecipe`'s; storage and the model's file store do what they say or fail.
* `SocialConnections`: one platform, one user, one API process, one page of integrations. An account that another
  user has linked is refused and the attempt is kept. When PostPeer fails to answer the POST of a profile, the search that follows
  finds what was made or ends the request.
* `LinkInBioPages`: the other checks of a publication (its fields, the number of links) come before any write. A name
  that `isReservedLinkInBioSlug` excludes is none of the model's. The image service's lock is left to one process.
* `LinkInBioImages`: the transaction of a publication is one step, whose parts are in `LinkInBioPages`. The bytes of an image
  whose row could not be saved are named by nobody. Images of apps that name no draft are never pruned.
* `AiEditRecipe`: one word is one cue and one segment; times are whole seconds, and every tolerance of the code is
  shorter. Words put together from Thai fragments enter only as `exact`.
* `SubtitleCues`: spaces, punctuation and numbers are left out; the dictionary of `Intl.Segmenter` is a fixed division of
  what was said into words, and a rest of a word is a word of its own. One preset of silences.

## 4. What is proved

The proofs hold for every number of posts, platforms, attempts, faults, exits, owners, requests, operations,
runs and processes, from the named assumptions of the modules. Where an instance of a model lives in the same module as
another (`Social` in `PostPeer_proofs`), its assumption is a hypothesis of the theorem, and the run that hosts it assumes it too.

**`PublishScheduler_proofs`**: seven theorems, in the order in which they rest on each other.

* `TypeCorrect`, `DeliveredAtMostOnce`. `TypeInv` adds to the types that the retries of a call are counted only while it
  has no result and only in a worker that made a call (`CallsCounted`), which keeps the counter in its range. `WorkersInBatch`
  says that a worker's post is in the batch of the running poll of a process that is not down, so an
  attempt starts from a schedule that the poll has read. `DeliveryInv` carries the argument that nothing is
  sent twice: a `QUEUED` post has no provider post; neither has a post of the batch whose worker has made
  no call; once a worker has called, or is about to, its row is not `QUEUED`, and only a worker that has
  made no call puts it back; a platform that a publishing worker has no answer from has no provider post.
* `SentOnTime`, `SentAsWritten`. `SendsInv`: from its claim on, nobody but the worker writes a row; the claim was made at
  or after the time the row names, and the content that is called with was read after the claim.
* `ShownAsSaved`. `ReceiptsInv` relates what a worker was told, what it saved of it and the status it settles, in the worker, over
  a crash, and in the recovery that only has the receipts.
* `UncertainIsKept`. `UncertainsInv`: whatever reached a provider and has no receipt is in the hands of a worker or has its ticket.
  The hypothesis `ServerErrors \subseteq DirectTikTok` is needed: of any other platform a 5xx is recorded as a refusal though a
  post may exist (section 6).
* `Refinement` of `PostDelivery`: the phase of a post is read off its row; every step of a poll, a worker, the
  recovery, an owner or a deletion is a step of the promise or a stutter.
* Over BullMQ: `QueueTypeCorrect`, `QueueNeverEarly`, `TheTraceIsKept` and `QueueRefinement`, for any numbers of attempts, stalls, creations and
  faults. `JobInv`: the worker holds an active job that is due (`WorksOnAJob`), and from its claim on the row (`HoldsTheRow`); the job
  that took a post it has not settled is there, was tried before, or is in the hands of its worker at a step after which it counts as
  tried (`KeepsTheTrace`), so that nobody removes it; and an open post has not been delivered since it was created (`Undelivered`).

**`AccountDeletion_proofs`**: the coordination (`OwnerLifecycle`) first: `TypeCorrect`, `CleanupIsSafe`, `DeletionIsQuiet`, and
`Refinement` of `OwnerBarrier`. The invariant says that whatever is running or in doubt still
has its ticket (`UnresolvedKeepsTicket`), that a cleaning run holds the claim over a sealed owner with no
tickets (`CleaningHoldsClaim`), and that a deleted owner has no tickets (`DeletedHasNoTicket`). The first
holds over a crash because a crash deletes no row; the others because a sealed owner admits nobody. The account
on top of it: `AccountTypeCorrect`, `AccountRefinement`, `RetryIsPossible` and `NothingComesBack`. The coordination keeps its invariant
under the account's own steps, so a cleanup works alone and what its earlier steps removed stays removed; each step of a cleanup
has a conjunct that names what is gone before it. `WorkInv` is what admitted work leaves: a connect URL only
while the mapping that names its profile is there.

**`OwnerMutationLock_proofs`**: `TypeCorrect`, `LockIsExclusive`, `CheckedIsKept`. A queue holds each waiting handler once,
under the owner it asked for last; `Drained` lets in either the mutations before the first deletion or one deletion, into an owner nobody
holds; that the mutations before the first deletion are as many as the handlers taken off the queue is a lemma on
the cardinality of an interval. The counters are the numbers of handlers inside, so a deletion cannot begin while a handler
that found its owner active is between its check and its write.

**`ManagedUpload_proofs`**: seven safety properties of sessions (of which `uploads` runs two), for any number of
sessions and requests and any limits, from one inductive invariant. `CallInv` says what a request may rely on between two of its
steps (a creation's id is known to nobody else; a request about to mark has seen the object; one about
to discard has aborted the row; one about to begin read its clock less than a grace ago). `RowInv` and
`ActiveInv` relate each row to the store, `SweepInv` says that whatever the sweeper has in hand expired a grace
ago and is not completing, `CleanInv` what each step of a cleanup leaves behind, and `LeakInv` who answers for
an open upload. That the sweeper never meets a completion is the arithmetic of the two clocks: a session
in its hand has `expiresAt <= now - Grace`, a request that may begin has `expiresAt > time >= now - Grace`.

**`Requests_proofs`**: what requests may cost and bring about, in six parts.

* Sums. `SumFunctionOnSet` is a fold over a set, that is, a recursive function on its finite subsets. `SubsetInduction`, which comes of
  `<` being well founded on `Nat`, shows that there is exactly one function with that recursion (`SumExists`, `SumUnique`), so a sum without
  one element is the sum less that element (`SumRemove`). What the models need follows:
  a sum in which one summand changes (`SumChange`), in which all grow (`SumMonotone`), over part of a set (`SumOfPart`).
* `PostSubmission`: `HandedAtMostOnce`, `AcceptanceStays`, `CostsAreFixed` and `PostsWithinLimit`, for any number of
  requests, keys, plans, months and faults. `HandedInv` says that no post which is `NONE` or `QUEUED`, or whose
  attempt is about to ask the provider, was asked for before; `OwnInv` that a request without a key owns its
  post, so that nobody else creates it and a roll-back takes back only what its request made; `ThereInv` that
  what is about to be reported as accepted is there or was cancelled. Every action is brought to one of three
  forms (a request reads, a request inserts, a post changes), each with one lemma. The limit needs `CostInv`: a request goes by a plan
  the owner has held (`HeldInv`), a post takes of packs at most its units and a post that is not there takes nothing (`PaidInv`), and
  the shares of every month are within the largest allowance held (`Within`), which only a creation adds to.
* `AiUsage`: `AnswersTellCharge`, `TakesOnlyCredits` and `PlacesAreHeld`, for any requests, limits, purchases and faults.
  `UsageInv` says of each request, whatever await it is at, that the tables hold what the handler has a record of
  until it has given it back (`Holds`), that a request ended without naming a charge was never charged, was refunded, or is `unrefunded`, of how much a reservation can be (`Fit`), and that the counter of places is the number of
  requests that have one. That credits are there when they are taken is about sums over all requests.
* `CaptionWriting`: `CaptionsGrounded`. `WritingInv`: each stage has what the one before it left, of the same model; a doubt ends the request.
* `AiEditRequest`: `UploadsServe`. `EditInv` says at which await which kind of request can be, that refusals come before anything
  was touched, that parts are heard in order and completely before anything is planned on them (`HearsFirst`), that effects are at
  anchors (`OnAnchors`), and that only what the app uploaded is gone (`OnlyTemporary`). That ranges of several parts do not run into one another
  rests on lemmas about the operators: `FlattenSeq` has the members of its sequences (`FlattenedSet`, by induction over their number),
  shifting a range keeps it in its part (`ShiftedKeeps`), merged parts stay in order (`MergedKeeps`), and temporary keys are
  keys the request names (`TemporaryIsNamed`).
* `AiEditRecipe`: `EditsKeep`, for any words, cues, targets and answers of the model, from three theorems.
  `CutsAreSaidAgain`: a repeat that the scan has closed or is following has occurrences of the same words, apart from one another, with
  nothing between that would part them (`IsRepeat`, in `ScanInv`); those closed end before the place the scan has reached, and no two
  share a word (`Apart`). So the last occurrence of a repeat is cut by none.
  `TrimsKeepTheStart` and `TargetsLeaveAStory` have short invariants (`TrimInv`, `StoryInv`: the cuts of a plan are what the operators make
  of the request) and are about what the operators of `EditPlan` compute, compared with sets of seconds: a sorted set lists its members in order
  (`RankedIs`, for any order on a finite set: the place of an element is the number of those before it), merged cuts are apart and cover what the cuts cover within
  the clip (`NormalizeIs`), the complement is the rest (`ComplementIs`), a trim leaves the first seconds (`TrimIs`), a window brought to cue
  boundaries stays there when it is brought to them again (`SnapIs`), the preferred one of candidates is one of them (`BestIs`), and the
  window that is chosen keeps half of the target in whole cues or no window at an edge does (`WindowIs`). Where they fold, the lemma is an induction over
  the number of elements, carried out on a set of naturals that contains 0 and each successor (`NatSet`). From the requests they need that times are
  numbers, that cues made of strict segments are strict, and that a target is positive (`AiEditRecipeAssumption`).

**`Subscriptions_proofs`**: `TypeCorrect`, `NewestAccess`, `SourceIsEnded`, `SettledIsRight`. `StoreInv` says that the cursor of a row is the time
of the newest thing told of its owner and that the row says what that thing said; a handler's view is no older than its event; a transfer
that has left its source has moved the source's cursor. `SettledIsRight` has an argument of its own: what is paid for changes only with
an event, every acknowledged event is behind the cursor, and while webhooks come in order the row holds what was paid at the time
of the cursor; between the cursor and the next event nothing changes, and when all were acknowledged the next event is
now. An account that `missed` something is left out until it catches up: from then on every event that its cursor is behind of is outstanding, as
for one that was there from the start. It needs `OneTier`; without it the statement is false (section 6).

**`PostPeer_proofs`**: two parts. One call (`TypeCorrect`, `ToldTruly`, `SentToTarget`): lemmas on the operators that read an answer say
what its words, references and links can say of a post that is pending, failed, live or a draft, for each kind; the invariant adds that a request
only travels after its call has ended, and that the connection is the intended one until `lost` says when it stopped. Connections
(`NewestStaysOpen`, `LinksAreTrue`): `NumbersInv` says that an attempt which is not the newest stored one was handed to nobody
or is over; `BaselinesInv` that PostPeer's integrations are in the baseline of the stored attempt or came
since, also while the baseline is being taken; `ReadingsInv` that the connection a refresh or a disconnect found is in the
request's own list as it was saved, or PostPeer does not list it so now, or `back` says that it was listed again in between: a step that takes an integration out of
the list, or lists it under another user, gives the second, and one that lists it (`NotedFields`) the third. The hypothesis is that `"none"`, which stands for no account, is none.

**`Kept_proofs`**: three parts. The images of a page (`ImagesTypeCorrect`, `ShownIsKept`): `RowsInv` says that an image whose row is not claimed
has its bytes, and a claimed one no pins; `HoldInv` that one request at most deletes an image, and not the one of the page once it has looked; `WriteInv`
that a publication pins what it is about to name. With those the page is safe. The draft needs `ReplaceInv` and `DraftInv`: each image the
app believes to be pinned has a pin of some revision (`Rests`) that no replacement, on its way or being answered, gives up, because each of them is of an
earlier revision, or is of this image and no later; a replacement is sent only for a draft that is saved, so none
is as new as an answer the app waits for. The pin that an image rests on changes when a replacement adds a newer one. Packs of
credits (`PacksAreSafe`): what the provider lists it has told or still tells; a pack whose webhook was acknowledged stands in the ledger or is
in `missed`; only a refund revokes, and a row keeps its owner. Names and styles of pages (`PagesTypeCorrect`, `NamesAreSafe`, `StyleIsEarned`):
`BarredInv` says what `barred` remembers is so now, that a request which has looked at the holder is not up against one, and that one about to
write is up against nobody: a name that was found free was free at that moment, so whoever has it now took it since. `TakesInv`
says that a reservation a request has deleted is still there for the others, and is its own or expired; it is what the row lock
keeps. `StyleInv` says that a transaction which checks the style and is not `stale` still sees the style it asks for: every commit on its page makes it stale. The
hypotheses are those that `MCKept` states: finitely many requests, no owner called "nobody", distinct texts of ids, `None` apart from
owners, names and styles, and of what is asked for that only paid styles are looked up as a member's and old apps show a free one.

`PostPeer_proofs` and `Kept_proofs` extend `MCPostPeer` and `MCKept`, which put the same models side by side and give their properties a name: the
constants of the models are left open there, and only the `.cfg` gives them values, so the theorems hold for all of them. `AiFeatures` and
`QueuedPublish` are the same for `Requests_proofs` and the second part of `PublishScheduler_proofs`.

The proofs corrected the models. The phase of a post over BullMQ was a CASE with overlapping arms; that a body names
one source was a count of non-empty sequences, where the code counts fields; a range that is cut to its part was an update of an update; and the
assumptions on the requests of an edit left out which fields each kind has. `OneWholeStory` said that a cue is cut in two only where no window at all
keeps half of the target in whole cues. The proof needs windows that begin or end with a cue, a keep or the clip, because `candidateWindowStarts`
(`editPlanProvider.ts:493-516`) proposes no others; with cues of 7, 1 and 7 seconds, a second apart, and a target of 6, TLC found a clip in
which a window in between keeps half of the target around the short cue while the one chosen cuts a cue in two. The property now speaks of windows at an edge, without an exception for
clips that say little, and those clips are among the instances.

## 5. What is only model-checked, and what is not modelled

Only model-checked, because the provers cannot reach it:

* all liveness, and everything that speaks of `ENABLED`: `DuePostsAreTaken`, `QueuedIsTaken`, `NoStarvation`, `EveryAskIsGranted`,
  `AbandonedIsSwept`, `ClipEnds`;
* `SubtitlesAreTrue`: what `SubtitleCues` computes is a chain of folds over words and segments (evidence, cues, lines), each of which would need
  an induction of its own; and it is not true of every transcript (section 6, a silence in which the words speak), so a theorem
  would have to assume much of what `MCTranscripts` builds in;
* `SocialConnections!TypeOK` (an attempt number is at most the number of connects), which no run states.

Abstracted: notifications, media clean-up after a publish, the in-memory list of jobs next to the rows, the texts of captions and prompts, the wording of refusals.

Not modelled:

* Of AI edits: overlays and other hints for rendering, the wording of prompts, local templates. They compute presentation
  from the same words and change no state.
* Of billing: the stores' receipts and raw notifications, which the code keeps dormant beside RevenueCat.
* Of link in bio: rendering and localisation, the generated catalogues (a fifth of all lines), whether a page is
  published, the number of links of a plan.
* Support chat and bot, notifications and devices: threads that only grow, and pushes sent at best effort.
* Admin console, templates, analytics, service status: reports and edits of single rows.
* Authentication, rate limit, configuration: checks in front of the modelled handlers, without state that
  outlives a request except counters.
* The mobile app: it reaches the modelled state only through the API. Its retries are in `PostSubmission` and
  `SocialConnections`, its drafts in `LinkInBioImages`.

## 6. Findings

Read off the code while modelling. The passing runs except each of them by a named constant, a history variable or the
antecedent of a property.

* **Receipts nobody examines.** The scheduler's comment says that readiness
  stays away until a restart examines the saved receipts. When only the status write fails, the worker
  stores `FAILED`, and recovery lists `PUBLISHING` posts only: after the restart the post says `FAILED`,
  each receipt says `PUBLISHED`, and the process is ready.
* **A future post is failed.** During the back-off before the last attempt the post
  is `QUEUED` and its owner may reschedule it. When the last attempt then fails before its claim, the
  give-up writes `FAILED` by id and the rescheduled post is never published.
* **An unknown outcome that keeps no blocker.** A 5xx answer of a create call counts as
  unknown for TikTok Direct only. For any other platform it is a plain failure: the ticket is released
  and an account cleanup may start with a provider post that no receipt knows of.
* **Made but refused** (`postPeerPublisher.ts:710-745`). What holds of TikTok Direct (`DirectRefusalIsTrue`) does not hold of other posts: an
  answer of 5xx, one of another shape, a published one without link or id (`:404-408`), or a draft (`:396-400`) is
  a plain failure, although a post exists that may be, or become, public.
* **A silence in which the words speak** (`aiEditRecipe.ts:1942-1952`). `API.md:4225-4226` says that a complete segment timeline
  is used when safe word evidence is not available. The code asks that no segment was dropped, not that the segments
  say everything: when they leave speech out in the middle and end before the words do, the words
  are set aside, although the times are trusted because of them, and the hole is offered as silent (the app checks it
  with the waveform, `API.md:4135-4137`) and missing from the subtitles. In `MCTranscripts` segments leave out
  only what the words leave out too.
* **A push before the last word** (`publishWorker.ts:533`). The worker announces FAILED in its catch; the scheduler's next
  attempt may publish the post.
* **A charge nobody tells** (`captionRoutes.ts:134-140`, `:692-706`). When a clip cannot be read and its credits cannot be given back
  (`:112-113` logs that), the owner stays charged for nothing, and the answer, 413 or 502, does not say so; that of a
  timeout would (`:534-536`). `AnswerTellsCharge` excepts what `unrefunded` remembers.
* **A month that is not checked.** The API says that a plan is limited to so many units per
  month. The quota is counted for the month of the handler's clock, but the database dates the row, so a
  request in flight over the end of a month is charged to a month it was not checked for. `WithinLimit`
  is the limit over the posts that were.
* **A cancelled post is made again** (`postRoutes.ts:754`). A delayed retry that arrives after its post was cancelled finds
  nothing, creates the post once more and charges it.
* **A roll-back may strand a row** (`bullMqPublishQueue.ts:224`, `postRoutes.ts:1451`, `postRoutes.ts:1547`). `ARCHITECTURE.md:3141` says that no
  schedule roll-back strands the row without a job. When the removal of the old job was applied but reported as failed,
  the new job is removed, the row goes back to the old time, and neither job is left (`RollbackKeepsJob`
  in `BullMqPublish` states it).
* **A refused completion stays** (`managedUploadService.ts:356`). When the store refuses the parts, the session remains
  COMPLETING: it can be neither completed nor aborted by its owner until a deletion.
* **Two tiers at once** (`revenueCatWebhookRoutes.ts:361-363`). The comment promises that a strong plan is not replaced by a weak
  one, but only Business is looked up: with Starter and Pro both paid for, an event of either decides.
* **A purchase before the account** (`revenueCatWebhookRoutes.ts:395-402`, `:357-360`, `revenueCatTransfer.ts:100`). A webhook about a user without an
  account is acknowledged with 202, its message says that the user no longer exists, and it is not delivered again. When the account is made later, it has no plan
  although one is paid for, until a resync or a webhook that needs a lookup. `SettledIsPaid` speaks of
  accounts that `missed` nothing or have caught up.
* **A purchase behind the cursor.** A webhook of a Business purchase that arrives after a newer event of a lower tier is
  dropped as old, and nothing looks the purchase up until the next event or resync.
* **A waiting disconnect takes the newer connection.** `isExpectedSocialConnection` (`socialConnectionStore.ts:116-125`) compares ids,
  and PostPeer reuses ids when the same account reconnects (`socialConnectionRoutes.ts:235-236`): a disconnect that waits for PostPeer while
  its owner reconnects removes the new row, against the comment at `socialConnectionRoutes.ts:460-461`. A refresh does the same: with a list from before the account
  was authorised again, under the id it had, it removes the connection that was completed since, although the comment at
  `:408-410` says that an older refresh cannot remove a newer connection. `RemovedIsUnlisted` excepts both by `back`.
* **A list without the platform user** (`socialConnectionRoutes.ts:403-407`). A refresh keeps a connection only if PostPeer lists its id
  under the platform user it was saved with. That another user is a reason to remove it is meant (`socialConnectionLinkingSecurity.test.ts:441-454`);
  but a list that leaves the user out, which the readiness check accepts (`publishingReadinessRoutes.ts:71-72`), removes a connection that works.
* **A deletion that cannot go on** (`accountRoutes.ts:445-484`). When the profile was deleted at PostPeer and the row that names it
  was not, a retry first lists the integrations of a profile that is gone; if PostPeer refuses that, it never passes.
  After the sign-in was deleted, an operator without an earlier record of the request gets ADMIN_MEMBER_NOT_FOUND (`adminRoutes.ts:325-327`).
* **The last occurrence may go too.** `API.md:4258-4260` says that the cleanup keeps the final occurrence of what is repeated; it does, but
  the recipe is the union with the plan, whose window may leave that occurrence out. A model's plan for a style or a prompt may
  also cut the whole clip; only targets are bounded from below.
* **A name released without a reservation** (`prismaLinkInBioRepository.ts:150-162`). The name to reserve is the one read at the
  start of the transaction. Two overlapping publications of one owner in two processes rename the page twice: the
  name between is free at once, and the first one is reserved twice, over a reservation another owner may have by then.
* **Changes of hands within a claim** (`prismaLinkInBioRepository.ts:87-103`). A name that is claimed and released again, by another
  owner, within the claim may be taken: the holder is read before, the reservation after. `NamesStayTaken`
  speaks of one holder, or one reservation, that stood all the time.
* **An image nobody can use** (`linkInBioImageService.ts:108-110`). A prune that is cut off keeps its claim, and nothing takes it
  up again: the row counts towards the limit of images and its bytes are not served.
* **Pins that stay** (`linkInBioRoutes.ts:236-238`). The pins of a publication that fails stay, also when it was refused
  (a name that is taken), and count towards the 32 references of the image.

## 7. What is left

1. Proofs about the folds of `SubtitleCues`, in the way of those of `EditPlan` in `Requests_proofs`. A model joins an existing proof module
   as a named instance, as `SocialConnections` does.
2. AI edits: the retries of the transcription provider.
3. Support threads, the admin's role edits: small state machines over single rows.
4. Larger instances where memory allows: two platforms in `BullMqPublish`, two owners in `DuePostPoll`, two replicas of the API in
   `SocialConnections`.
