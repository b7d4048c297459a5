----------------------------- MODULE ManagedUpload -----------------------------
(***************************************************************************)
(* Managed multipart uploads of one owner: the session rows                *)
(* (modules/uploads/prismaUploadSessionRepository.ts) against the object   *)
(* store, moved by the upload requests, the sweeper and the upload part of *)
(* account deletion (modules/uploads/managedUploadService.ts).             *)
(*                                                                         *)
(* A statement of the repository is one step, so is a call of the store.   *)
(* Either may report an error although it was applied.  A request that     *)
(* ends with such an error, or dies, keeps its operation ticket, and no    *)
(* cleanup starts before an operator has looked (see OwnerLifecycle).      *)
(***************************************************************************)
EXTENDS Integers, FiniteSets

CONSTANTS
    Sessions, Calls,
    OpenLimit,     \* maxOpenUploadSessionsPerOwner
    Lifetime,      \* sessionExpiresSeconds
    Grace,         \* expiredSessionGraceSeconds
    Drain,         \* completionDrainSeconds
    SweepLimit,    \* defaultExpiredUploadSweepLimit
    MaxTime,       \* bound: the clock runs over 0..MaxTime
    MaxFaults,     \* bound: calls of the database or the store that report an error
    MaxExits,      \* bound: exits of the process
    None

ASSUME UploadAssumption ==
    /\ IsFiniteSet(Sessions) /\ None \notin Sessions
    /\ {OpenLimit, Lifetime, Grace, Drain, SweepLimit} \subseteq Nat \ {0}
    /\ {MaxTime, MaxFaults, MaxExits} \subseteq Nat

VARIABLES
    (* durable *)
    row,          \* status of each session; "none" before it is created and after it is purged
    expiresAt, startedAt,
    owner, kept,  \* the owner marker; a ticket or a claim that outlived its operation
    (* the object store *)
    store,        \* each upload: "none" | "open" | "object" | "gone"
    (* requests of the owner: the client knows the ids that were returned to it *)
    known, pc, on, time, threw,
    (* the sweeper and the cleanup of a deletion *)
    listed, retiring, cleanup,
    (* environment *)
    now, faults, exits

session == <<row, expiresAt, startedAt>>
request == <<known, pc, on, time, threw>>
sweeper == <<listed, retiring>>
env     == <<now, exits>>
vars    == <<session, owner, kept, store, request, sweeper, cleanup, env, faults>>

Times == 0..MaxTime
Status == {"none", "UPLOADING", "COMPLETING", "COMPLETED", "ABORTED"}
Steps == {"idle", "insert", "undo", "begin", "assemble", "mark", "head", "abort", "discard"}

\* Types: the steps of requests, of the sweeper and of a cleanup are those of the code.
TypeOK ==
    /\ row \in [Sessions -> Status]
    /\ expiresAt \in [Sessions -> Nat] /\ startedAt \in [Sessions -> Times]
    /\ owner \in {"ACTIVE", "DELETING", "DELETED"} /\ kept \in BOOLEAN
    /\ store \in [Sessions -> {"none", "open", "object", "gone"}]
    /\ known \subseteq Sessions
    /\ pc \in [Calls -> Steps] /\ on \in [Calls -> Sessions \cup {None}]
    /\ time \in [Calls -> Times] /\ threw \in [Calls -> BOOLEAN]
    /\ \A c \in Calls : pc[c] # "idle" => on[c] \in Sessions
    /\ listed \subseteq Sessions /\ retiring \in Sessions \cup {None}
    /\ cleanup \in {"no", "reconcile", "abort", "orphans", "media", "finish"}
    /\ now \in Times /\ faults \in 0..MaxFaults /\ exits \in 0..MaxExits

Init ==
    /\ row = [s \in Sessions |-> "none"]
    /\ expiresAt = [s \in Sessions |-> 0] /\ startedAt = [s \in Sessions |-> 0]
    /\ owner = "ACTIVE" /\ kept = FALSE
    /\ store = [s \in Sessions |-> "none"]
    /\ known = {}
    /\ pc = [c \in Calls |-> "idle"] /\ on = [c \in Calls |-> None]
    /\ time = [c \in Calls |-> 0] /\ threw = [c \in Calls |-> FALSE]
    /\ listed = {} /\ retiring = None /\ cleanup = "no"
    /\ now = 0 /\ faults = 0 /\ exits = 0

-------------------------------------------------------------------------------
NoFault == faults' = faults
Fault   == faults < MaxFaults /\ faults' = faults + 1

SetRow(s, status) == row' = [row EXCEPT ![s] = status]
Aborted(S) == [s \in Sessions |-> IF s \in S /\ store[s] = "open" THEN "gone" ELSE store[s]]

\* abortUpload: an upload that is not there any more is no error.
AbortUpload(s) ==
    \/ NoFault /\ store' = Aborted({s})
    \/ Fault /\ store' \in {store, Aborted({s})}

Goes(c, step) == pc' = [pc EXCEPT ![c] = step] /\ UNCHANGED <<on, time, threw, kept>>

EndsInPlace(c, error) ==
    /\ on' = [on EXCEPT ![c] = None] /\ kept' = (kept \/ error) /\ UNCHANGED <<pc, time, threw>>

\* The request answers; its ticket is kept when it ends with an error nobody expected.
Ends(c, error) ==
    /\ pc' = [pc EXCEPT ![c] = "idle"] /\ on' = [on EXCEPT ![c] = None]
    /\ time' = [time EXCEPT ![c] = 0] /\ threw' = [threw EXCEPT ![c] = FALSE]
    /\ kept' = (kept \/ error)
Returns(c) == Ends(c, FALSE)
Throws(c)  == Ends(c, TRUE)

\* An admitted request: the lifetime ticket needs an active owner.
Starts(c, s, step) ==
    /\ pc[c] = "idle" /\ owner = "ACTIVE"
    /\ pc' = [pc EXCEPT ![c] = step] /\ on' = [on EXCEPT ![c] = s]
    /\ time' = [time EXCEPT ![c] = now]
    /\ UNCHANGED <<threw, kept>>

-------------------------------------------------------------------------------
(***************************************************************************)
(* create                                                                  *)
(***************************************************************************)
CreateUpload(c, s) ==
    /\ row[s] = "none" /\ store[s] = "none" /\ now + Lifetime + Grace <= MaxTime
    /\ \/ /\ NoFault /\ Starts(c, s, "insert")
          /\ store' = [store EXCEPT ![s] = "open"]
       \/ /\ Fault /\ pc[c] = "idle" /\ owner = "ACTIVE"
          /\ kept' = TRUE /\ store' \in {store, [store EXCEPT ![s] = "open"]}
          /\ UNCHANGED <<pc, on, time, threw>>
    /\ UNCHANGED <<session, owner, known, sweeper, cleanup, env>>

OpenSessions == {s \in Sessions : row[s] = "UPLOADING" /\ expiresAt[s] > now}
MayCreate == owner = "ACTIVE" /\ Cardinality(OpenSessions) < OpenLimit

\* createForActiveOwner
Insert(c) ==
    LET s == on[c]
        inserted == /\ SetRow(s, "UPLOADING")
                    /\ expiresAt' = [expiresAt EXCEPT ![s] = time[c] + Lifetime]
                    /\ UNCHANGED startedAt
        fails(error) == /\ pc' = [pc EXCEPT ![c] = "undo"] /\ UNCHANGED <<on, time, kept, known>>
                        /\ threw' = [threw EXCEPT ![c] = error]
    IN  /\ pc[c] = "insert"
        /\ \/ MayCreate /\ NoFault /\ inserted /\ Returns(c) /\ known' = known \cup {s}
           \/ ~MayCreate /\ NoFault /\ fails(FALSE) /\ UNCHANGED session
           \/ MayCreate /\ Fault /\ fails(TRUE) /\ (inserted \/ UNCHANGED session)
        /\ UNCHANGED <<owner, store, sweeper, cleanup, env>>

RefuseOnly(c) ==
    /\ pc[c] = "undo" /\ NoFault /\ Ends(c, threw[c])
    /\ UNCHANGED <<session, owner, known, store, sweeper, cleanup, env>>

\* The storage upload of a refused session is aborted; a failure of that is swallowed.
Undo(c) ==
    /\ pc[c] = "undo" /\ AbortUpload(on[c]) /\ Ends(c, threw[c])
    /\ UNCHANGED <<session, owner, known, sweeper, cleanup, env>>

-------------------------------------------------------------------------------
(***************************************************************************)
(* complete, get                                                           *)
(***************************************************************************)
Complete(c, s) ==
    /\ s \in known /\ row[s] # "COMPLETED"
    /\ Starts(c, s, IF row[s] = "COMPLETING" THEN "head" ELSE "begin")
    /\ UNCHANGED <<session, owner, store, known, sweeper, cleanup, env, faults>>

Get(c, s) ==
    /\ s \in known /\ row[s] = "COMPLETING" /\ Starts(c, s, "head")
    /\ UNCHANGED <<session, owner, store, known, sweeper, cleanup, env, faults>>

Completable(c, s) == owner = "ACTIVE" /\ row[s] = "UPLOADING" /\ expiresAt[s] > time[c]

BeginCompletion(c) ==
    LET s == on[c]
        begun == /\ SetRow(s, "COMPLETING") /\ startedAt' = [startedAt EXCEPT ![s] = time[c]]
                 /\ UNCHANGED expiresAt
    IN  /\ pc[c] = "begin"
        /\ \/ Completable(c, s) /\ NoFault /\ begun /\ Goes(c, "assemble")
           \/ owner = "ACTIVE" /\ row[s] = "COMPLETED" /\ NoFault /\ Goes(c, "assemble") /\ UNCHANGED session
           \/ ~Completable(c, s) /\ row[s] # "COMPLETED" /\ NoFault /\ Returns(c) /\ UNCHANGED session
           \/ owner # "ACTIVE" /\ NoFault /\ Returns(c) /\ UNCHANGED session
           \/ Completable(c, s) /\ Fault /\ Throws(c) /\ (begun \/ UNCHANGED session)
        /\ UNCHANGED <<owner, store, known, sweeper, cleanup, env>>

\* completeUpload: the store refuses an upload that is not open, or parts it does not have.
Assemble(c) ==
    LET assembled == [store EXCEPT ![on[c]] = "object"]
    IN  /\ pc[c] = "assemble"
        /\ \/ store[on[c]] = "open" /\ NoFault /\ store' = assembled /\ Goes(c, "mark")
           \/ NoFault /\ Throws(c) /\ UNCHANGED store
           \/ store[on[c]] = "open" /\ Fault /\ Throws(c) /\ store' = assembled
        /\ UNCHANGED <<session, owner, known, sweeper, cleanup, env>>

Markable(s) == row[s] = "COMPLETING"

MarkCompleted(c) ==
    LET s == on[c]
    IN  /\ pc[c] = "mark"
        /\ \/ Markable(s) /\ NoFault /\ SetRow(s, "COMPLETED") /\ Returns(c)
           \/ ~Markable(s) /\ NoFault /\ Returns(c) /\ UNCHANGED row
           \/ Markable(s) /\ Fault /\ Throws(c) /\ (SetRow(s, "COMPLETED") \/ UNCHANGED row)
        /\ UNCHANGED <<expiresAt, startedAt, owner, store, known, sweeper, cleanup, env>>

AssumedWhole(s) == TRUE
Whole(s) == store[s] = "object"

\* reconcileCompletion: does the object exist with the size of the session?
Head(c) ==
    /\ pc[c] = "head"
    /\ \/ Whole(on[c]) /\ NoFault /\ Goes(c, "mark")
       \/ ~Whole(on[c]) /\ NoFault /\ Returns(c)
       \/ Fault /\ Throws(c)
    /\ UNCHANGED <<session, owner, store, known, sweeper, cleanup, env>>

-------------------------------------------------------------------------------
(***************************************************************************)
(* abort                                                                   *)
(***************************************************************************)
Abort(c, s) ==
    /\ s \in known /\ row[s] \in {"UPLOADING", "ABORTED"} /\ Starts(c, s, "abort")
    /\ UNCHANGED <<session, owner, store, known, sweeper, cleanup, env, faults>>

Abortable(s) == owner = "ACTIVE" /\ row[s] \in {"UPLOADING", "ABORTED"}

BeginAbort(c) ==
    LET s == on[c]
    IN  /\ pc[c] = "abort"
        /\ \/ Abortable(s) /\ NoFault /\ SetRow(s, "ABORTED") /\ Goes(c, "discard")
           \/ ~Abortable(s) /\ NoFault /\ Returns(c) /\ UNCHANGED row
           \/ Abortable(s) /\ Fault /\ Throws(c) /\ (SetRow(s, "ABORTED") \/ UNCHANGED row)
        /\ UNCHANGED <<expiresAt, startedAt, owner, store, known, sweeper, cleanup, env>>

Discard(c) ==
    /\ pc[c] = "discard"
    /\ \/ NoFault /\ store' = Aborted({on[c]}) /\ Returns(c)
       \/ Fault /\ store' \in {store, Aborted({on[c]})} /\ Throws(c)
    /\ UNCHANGED <<session, owner, known, sweeper, cleanup, env>>

-------------------------------------------------------------------------------
(***************************************************************************)
(* sweepExpiredSessions                                                    *)
(***************************************************************************)
ExpiredAtOnce(s) == row[s] = "UPLOADING" /\ expiresAt[s] <= now
ExpiredAnswered(s) == s \in known /\ row[s] = "UPLOADING" /\ expiresAt[s] <= now - Grace
Expired(s) == row[s] = "UPLOADING" /\ expiresAt[s] <= now - Grace

\* The oldest first, at most SweepLimit.
Sweep ==
    /\ listed = {} /\ retiring = None
    /\ \E S \in SUBSET {s \in Sessions : Expired(s)} :
        /\ S # {} /\ Cardinality(S) <= SweepLimit
        /\ \A s \in {x \in Sessions : Expired(x)} \ S :
            Cardinality(S) = SweepLimit /\ \A x \in S : expiresAt[x] <= expiresAt[s]
        /\ listed' = S
    /\ UNCHANGED <<session, owner, kept, store, request, retiring, cleanup, env, faults>>

SweepAbortIgnoringErrors(s) ==
    /\ s \in listed /\ retiring = None /\ listed' = listed \ {s} /\ retiring' = s
    /\ AbortUpload(s)
    /\ UNCHANGED <<session, owner, kept, request, cleanup, env>>

SweepAbort(s) ==
    /\ s \in listed /\ retiring = None /\ listed' = listed \ {s}
    /\ \/ NoFault /\ store' = Aborted({s}) /\ retiring' = s
       \/ Fault /\ store' \in {store, Aborted({s})} /\ UNCHANGED retiring
    /\ UNCHANGED <<session, owner, kept, request, cleanup, env>>

\* retireExpired: expiresAt never changes, so the row is still expired.
SweepRetire ==
    LET retired == IF row[retiring] = "UPLOADING" THEN [row EXCEPT ![retiring] = "ABORTED"] ELSE row
    IN  /\ retiring # None /\ retiring' = None
        /\ \/ NoFault /\ row' = retired
           \/ Fault /\ row' \in {row, retired}
        /\ UNCHANGED <<expiresAt, startedAt, owner, kept, store, request, listed, cleanup, env>>

-------------------------------------------------------------------------------
(***************************************************************************)
(* Account deletion: the marker, and the steps of a cleanup that touch     *)
(* uploads.  No request runs during a cleanup, only the sweeper does, so a *)
(* loop over sessions is one step; an error may stop it anywhere.          *)
(***************************************************************************)
Seal ==
    /\ owner = "ACTIVE" /\ owner' = "DELETING"
    /\ UNCHANGED <<session, kept, store, request, sweeper, cleanup, env, faults>>

Drained == ~kept /\ \A c \in Calls : pc[c] = "idle"

BeginCleanup ==
    /\ cleanup = "no" /\ owner = "DELETING" /\ Drained /\ cleanup' = "reconcile"
    /\ UNCHANGED <<session, owner, kept, store, request, sweeper, env, faults>>

Open == {s \in Sessions : row[s] \in {"UPLOADING", "COMPLETING"}}
Fresh(s) == row[s] = "COMPLETING" /\ now - startedAt[s] < Drain
UploadsWithSession == {s \in Open : store[s] = "open"}
Uploads == {s \in Sessions : store[s] = "open"}
Objects == {s \in Sessions : store[s] = "object"}

Becomes(f, S, value) == [s \in Sessions |-> IF s \in S THEN value ELSE f[s]]

\* A step of the cleanup got through, and goes on to the next one, or has failed.
Cleans(step, next) ==
    /\ cleanup = step /\ NoFault /\ cleanup' = next
    /\ UNCHANGED <<expiresAt, startedAt, owner, kept, request, sweeper, env>>
CleaningFails(step) ==
    /\ cleanup = step /\ Fault /\ cleanup' = "no"
    /\ UNCHANGED <<expiresAt, startedAt, owner, kept, request, sweeper, env>>

Reconcile ==
    LET whole == {s \in Sessions : Markable(s) /\ Whole(s)}
        next  == IF \E s \in Sessions \ whole : Fresh(s) THEN "no" ELSE "abort"
    IN  /\ \/ Cleans("reconcile", next) /\ row' = Becomes(row, whole, "COMPLETED")
           \/ CleaningFails("reconcile") /\ \E S \in SUBSET whole : row' = Becomes(row, S, "COMPLETED")
        /\ UNCHANGED store

\* The upload first, then the row: a failure may leave the one without the other.
AbortOpen ==
    \/ /\ Cleans("abort", "orphans")
       /\ store' = Aborted(Open) /\ row' = Becomes(row, Open, "ABORTED")
    \/ /\ CleaningFails("abort")
       /\ \E S \in SUBSET Open : \E T \in SUBSET S :
            /\ Cardinality(S \ T) <= 1
            /\ store' = Aborted(S) /\ row' = Becomes(row, T, "ABORTED")

AbortOrphans ==
    /\ \/ Cleans("orphans", "media") /\ store' = Aborted(Uploads)
       \/ CleaningFails("orphans") /\ \E S \in SUBSET Uploads : store' = Aborted(S)
    /\ UNCHANGED row

DeleteMedia ==
    /\ \/ Cleans("media", "finish") /\ store' = Becomes(store, Objects, "gone")
       \/ CleaningFails("media") /\ \E S \in SUBSET Objects : store' = Becomes(store, S, "gone")
    /\ UNCHANGED row

\* finishOwnerDeletion; an error that nobody expected leaves the marker as it is, or not.
Finish ==
    LET purged == owner' = "DELETED" /\ row' = [s \in Sessions |-> "none"]
    IN  /\ cleanup = "finish" /\ cleanup' = "no"
        /\ \/ NoFault /\ purged
           \/ Fault /\ (purged \/ UNCHANGED <<owner, row>>)
        /\ UNCHANGED <<expiresAt, startedAt, kept, store, request, sweeper, env>>

-------------------------------------------------------------------------------
(***************************************************************************)
(* Environment.                                                            *)
(***************************************************************************)
\* A transaction is over, retries included, within the grace of the sweeper.
TransactionsAreShort == \A c \in Calls : pc[c] = "begin" => now - time[c] < Grace

Tick ==
    /\ now < MaxTime /\ TransactionsAreShort /\ now' = now + 1
    /\ UNCHANGED <<session, owner, kept, store, request, sweeper, cleanup, exits, faults>>

Crash ==
    /\ exits < MaxExits /\ exits' = exits + 1
    /\ kept' = (kept \/ cleanup # "no" \/ \E c \in Calls : pc[c] # "idle")
    /\ pc' = [c \in Calls |-> "idle"] /\ on' = [c \in Calls |-> None]
    /\ time' = [c \in Calls |-> 0] /\ threw' = [c \in Calls |-> FALSE]
    /\ listed' = {} /\ retiring' = None /\ cleanup' = "no"
    /\ UNCHANGED <<session, owner, store, known, now, faults>>

\* The operator has looked the outcomes up and deletes the tickets of what has ended.
ReconcileTickets ==
    /\ kept /\ kept' = FALSE
    /\ UNCHANGED <<session, owner, store, request, sweeper, cleanup, env, faults>>

Client == \E c \in Calls, s \in Sessions :
    CreateUpload(c, s) \/ Complete(c, s) \/ Get(c, s) \/ Abort(c, s)

Request(c) ==
    \/ Insert(c) \/ Undo(c) \/ BeginCompletion(c) \/ Assemble(c) \/ MarkCompleted(c)
    \/ Head(c) \/ BeginAbort(c) \/ Discard(c)

Sweeping == Sweep \/ (\E s \in Sessions : SweepAbort(s)) \/ SweepRetire

Deletion ==
    \/ Seal \/ BeginCleanup \/ Reconcile \/ AbortOpen \/ AbortOrphans \/ DeleteMedia \/ Finish

Next ==
    \/ Client \/ (\E c \in Calls : Request(c)) \/ Sweeping \/ Deletion
    \/ Tick \/ Crash \/ ReconcileTickets

Spec == Init /\ [][Next]_vars

\* Time passes, started requests go on, and the sweeper's timer fires.
Fairness == WF_vars(Tick) /\ WF_vars(Sweeping) /\ \A c \in Calls : WF_vars(Request(c))

FairSpec == Spec /\ Fairness

-------------------------------------------------------------------------------
(***************************************************************************)
(* Properties.                                                             *)
(***************************************************************************)
\* What says it is completed can be used: its object is in the store, until the owner leaves.
CompletedHasObject == owner = "ACTIVE" =>
    \A s \in Sessions : row[s] = "COMPLETED" => store[s] = "object"

\* The sweeper never takes the storage away from a session that is being completed.
CompletionKeepsUpload == owner = "ACTIVE" =>
    \A s \in Sessions : row[s] = "COMPLETING" => store[s] \in {"open", "object"}

\* Completion and abort never overwrite each other.
KeepsTerminal == \A s \in Sessions :
    row[s] \in {"COMPLETED", "ABORTED"} => row'[s] \in {row[s], "none"}
TerminalStays == [][KeepsTerminal]_vars

\* A session that the sweeper or a cleanup retires has no open upload left: a failure
\* between the two repeats the abort and never strands an upload without a session.
DiscardsRetired == \A s \in Sessions :
    /\ row[s] # "ABORTED" /\ row'[s] = "ABORTED"
    /\ ~\E c \in Calls : pc[c] = "abort" /\ on[c] = s
    => store'[s] # "open"
RetiredIsDiscarded == [][DiscardsRetired]_vars

\* As long as no call fails and no process exits, an open upload has an open session or
\* a request that still works on it: refusals, aborts and sweeps leak nothing.
LeaksNeedAFault == faults = 0 /\ exits = 0 =>
    \A s \in Sessions : store[s] = "open" => s \in Open \/ \E c \in Calls : on[c] = s

\* A deleted owner leaves no upload open and no object behind, rows or not.
DeletedLeavesNothing == owner = "DELETED" =>
    \A s \in Sessions : store[s] \notin {"open", "object"}

Abandoned(s) == row[s] = "UPLOADING" /\ owner = "ACTIVE"

\* A session does not stay open for ever: it is completed, aborted or swept.
AbandonedIsSwept == \A s \in Sessions : []<>~Abandoned(s)
===============================================================================
