--------------------------- MODULE AccountDeletion ---------------------------
(***************************************************************************)
(* The deletion of one account (modules/account/accountRoutes.ts): what    *)
(* each cleanup step removes, between the claim and the release of the     *)
(* request, composed with the owner's work and the coordination of both    *)
(* (OwnerLifecycle).  Any step may fail, having done a part of its work or *)
(* all of it, and any process may stop; the owner, or an operator in the   *)
(* owner's place, then sends the request again, from its beginning.        *)
(***************************************************************************)
EXTENDS OwnerLifecycle

VARIABLES
    data,       \* what there is of the account, in all stores
    proof,      \* ManagedUploadOwner.deletionAuthorizedAt
    scope,      \* postPeerProfileId of each request: is there a profile to clean up
    at          \* the next cleanup step of each request

accountVars == <<data, proof, scope, at>>
allVars == <<vars, accountVars>>

(***************************************************************************)
(* upload: a multipart upload in the object store; row, job: a post and    *)
(* its job in Redis; profile, channel: PostPeer's profile and an account   *)
(* linked to it; mapping: PostPeerProfile, our row that names the profile; *)
(* url: an unused connect URL, open in a browser.                          *)
(***************************************************************************)
Items == {"upload", "media", "row", "job", "profile", "channel", "mapping", "url", "user", "identity"}
Steps == {"scope", "uploads", "jobs", "channels", "profile", "mapping", "media", "rows",
          "identity", "sessions", "finish"}

\* Types of the account's part.
AccountTypeOK ==
    /\ TypeOK
    /\ data \subseteq Items /\ proof \in BOOLEAN
    /\ scope \in [Runs -> BOOLEAN] /\ at \in [Runs -> Steps]

AccountInit ==
    /\ Init
    /\ data = {"user", "identity"} /\ proof = FALSE
    /\ scope = [r \in Runs |-> FALSE] /\ at = [r \in Runs |-> "scope"]

-------------------------------------------------------------------------------
(***************************************************************************)
(* The owner's work, and what it leaves.                                   *)
(***************************************************************************)
\* A row that is gone may leave its job behind; a profile that was made may not be saved.
Results ==
    {data \cup {"upload"}, (data \ {"upload"}) \cup {"media"},
     data \cup {"row"}, data \cup {"row", "job"}, data \ {"row"}, data \ {"row", "job"},
     data \cup {"profile"}}
    \cup {data \cup {"mapping", "url"} : i \in data \cap {"profile"}}

\* While an operation runs, or when the outcome of one comes late.
Works(op) ==
    /\ Running(op) \/ op \in unknown
    /\ data' \in Results
    /\ UNCHANGED <<vars, proof, scope, at>>

\* The browser: an account is linked with a URL that was handed out some time ago.
Links ==
    /\ {"url", "profile"} \subseteq data
    /\ data' = data \cup {"channel"}
    /\ UNCHANGED <<vars, proof, scope, at>>

-------------------------------------------------------------------------------
(***************************************************************************)
(* DELETE /account up to the claim.                                        *)
(***************************************************************************)
\* A recent sign-in of an identity that exists, an earlier proof, or an operator.
MayDelete(recent, operator) == proof \/ (recent /\ "identity" \in data) \/ operator

\* The profile is read for the first time, then proof and marker are written at once.
Authorise(r, recent, operator) ==
    /\ MayDelete(recent, operator) /\ Seal(r)
    /\ proof' = TRUE /\ scope' = [scope EXCEPT ![r] = "mapping" \in data]
    /\ UNCHANGED <<data, at>>

Claim(r) == Acquire(r) /\ UNCHANGED accountVars
ClaimFails(r) == AcquireFails(r) /\ UNCHANGED accountVars

-------------------------------------------------------------------------------
(***************************************************************************)
(* The cleanup, in the order of the code.                                  *)
(***************************************************************************)
Reaches(r, step) == Cleaning(r) /\ at[r] = step
GoesTo(r, step) == at' = [at EXCEPT ![r] = step] /\ UNCHANGED vars

\* What a step removes.
Removes(r, step, S, next) ==
    /\ Reaches(r, step) /\ data' = data \ S /\ GoesTo(r, next)
    /\ UNCHANGED <<proof, scope>>

ScopeBefore(r) == scope[r]
ScopeNow(r) == "mapping" \in data

\* The profile is read again: one admitted before the seal may have been saved meanwhile.
ReadScope(r) ==
    /\ Reaches(r, "scope") /\ GoesTo(r, "uploads")
    /\ scope' = [scope EXCEPT ![r] = ScopeNow(r)]
    /\ UNCHANGED <<data, proof>>

\* prepareOwnerDeletion: an upload is aborted, or found to be completed (ManagedUpload).
StopUploads(r) ==
    /\ Reaches(r, "uploads") /\ GoesTo(r, "jobs")
    /\ data' \in {data \ {"upload"}} \cup {(data \ {"upload"}) \cup {"media"} : i \in data \cap {"upload"}}
    /\ UNCHANGED <<proof, scope>>

JobsOfRows == IF "row" \in data THEN {"job"} ELSE {}
JobsFound == {"job"}

\* Of the posts there are, and of the jobs that name the owner.
RemoveJobs(r) == Removes(r, "jobs", JobsFound, IF scope[r] THEN "channels" ELSE "media")

\* Each integration that PostPeer lists now.
Disconnect(r) == Removes(r, "channels", {"channel"}, "profile")

KeepProfile(r) == Removes(r, "profile", {}, "mapping")

\* An account linked since then goes with the profile, if PostPeer deletes it at all.
DeleteProfile(r) == Removes(r, "profile", {"profile", "channel"}, "mapping")

DropMapping(r) == Removes(r, "mapping", {"mapping"}, "media")
DeleteMedia(r) == Removes(r, "media", {"media"}, "rows")

\* The receipts, the deleters of the stores, and the user row with all its children.
Rows == {"row", "mapping", "user"}
DeleteRows(r) == Removes(r, "rows", Rows, "identity")

DeleteIdentity(r) == Removes(r, "identity", {"identity"}, "sessions")

\* managedUploadService.finishOwnerDeletion: the tombstone is written here first.
FinishSessions(r) ==
    /\ Reaches(r, "sessions") /\ tickets = {}
    /\ owner' = "DELETED" /\ at' = [at EXCEPT ![r] = "finish"]
    /\ UNCHANGED <<tickets, claim, pc, pending, retained, run, unknown, data, proof, scope>>

FinishDeletion(r) == Reaches(r, "finish") /\ Finish(r) /\ UNCHANGED accountVars

\* What a step may have removed when it fails, or when the process stops under it.
Reached(r) ==
    CASE at[r] = "uploads" -> {"upload"}   [] at[r] = "jobs" -> {"job"}
      [] at[r] = "channels" -> {"channel"} [] at[r] = "profile" -> {"profile", "channel"}
      [] at[r] = "mapping" -> {"mapping"}  [] at[r] = "media" -> {"media"}
      [] at[r] = "rows" -> Rows            [] at[r] = "identity" -> {"identity"}
      [] OTHER -> {}

\* PostPeer deletes no profile without its channels; the user row goes last, with its children.
Partly(r) ==
    {S \in SUBSET Reached(r) : /\ "profile" \in S => "channel" \in S
                               /\ "user" \in S => S = Rows}

Fails(r) ==
    /\ CleanupFails(r) /\ \E S \in Partly(r) : data' = data \ S
    /\ UNCHANGED <<proof, scope, at>>

Releases(r) == ReleaseRun(r) /\ UNCHANGED accountVars

\* A run that is cleaning up in the process may have got a part of its step done.
Stops(q) ==
    /\ Crash(q)
    /\ \/ UNCHANGED data
       \/ \E r \in Runs : /\ ProcessOf[r] = q /\ Cleaning(r)
                          /\ \E S \in Partly(r) : data' = data \ S
    /\ UNCHANGED <<proof, scope, at>>

DeletionStep(r) ==
    \/ \E recent, operator \in BOOLEAN : Authorise(r, recent, operator)
    \/ Claim(r) \/ ClaimFails(r) \/ ReadScope(r) \/ StopUploads(r) \/ RemoveJobs(r)
    \/ Disconnect(r) \/ DeleteProfile(r) \/ DropMapping(r) \/ DeleteMedia(r) \/ DeleteRows(r)
    \/ DeleteIdentity(r) \/ FinishSessions(r) \/ FinishDeletion(r) \/ Fails(r) \/ Releases(r)

AccountNext ==
    \/ \E op \in Ops : OpStep(op) /\ UNCHANGED accountVars
    \/ \E op \in Ops : Works(op)
    \/ \E r \in Runs : DeletionStep(r)
    \/ \E q \in Processes : Stops(q)
    \/ ReconcileClaim /\ UNCHANGED accountVars
    \/ Links

AccountSpec == AccountInit /\ [][AccountNext]_allVars

-------------------------------------------------------------------------------
(***************************************************************************)
(* Correctness.                                                            *)
(***************************************************************************)
\* accountRoutes.ts:462-463, 481-482: as long as the provider has an account that is linked, or that an
\* open browser may still link, the mapping is kept which a retry needs to find it: whatever
\* step failed, was applied without an answer, or was interrupted.
RetryFindsChannels ==
    "channel" \in data \/ {"url", "profile"} \subseteq data => "mapping" \in data

\* Who cannot sign in any more, and so cannot ask again, has nothing left anywhere, and nothing
\* comes back: neither late work, nor a job without a post, nor a browser.  Excepted is an empty
\* profile at the provider which no row and no URL ever named.
NothingIsLeft ==
    owner = "DELETED" \/ "identity" \notin data => data \subseteq {"url"} \/ data \subseteq {"profile"}
===============================================================================
