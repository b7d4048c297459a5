--------------------------- MODULE PostPeerPublish ---------------------------
(***************************************************************************)
(* One publish call of the worker: a post for one platform through         *)
(* PostPeer (workers/postPeerPublisher.ts).  The client checks the target, *)
(* asks for the post once, and then decides from answers that may lack     *)
(* anything, or never come, what it may tell the worker.                   *)
(***************************************************************************)
EXTENDS Integers, FiniteSets

CONSTANTS
    Kinds,       \* of the kinds of posts below
    MaxPolls,    \* maxPollAttempts
    MaxRows      \* bound: rows of the connection, one after the other

(***************************************************************************)
(* direct: TikTok Direct Post with its explicit settings; inbox: a TikTok  *)
(* Inbox draft; legacy: TikTok of before those settings; page: a draft on  *)
(* a Facebook page; plain: any other post.                                 *)
(***************************************************************************)
AllKinds == {"direct", "inbox", "legacy", "page", "plain"}
TikTok == {"direct", "inbox", "legacy"}

ASSUME PostPeerAssumption == Kinds \subseteq AllKinds /\ MaxPolls \in Nat \ {0} /\ MaxRows \in Nat \ {0}

VARIABLES
    kind,      \* requestedDeliveryOutcome, and whether TikTok Direct must be proven
    intended,  \* platformTargets: the connection when the post was made
    target,    \* SocialConnection: the connection now; row 0 is none
    sealed,    \* the owner is being deleted
    made,      \* PostPeer: what became of the post
    travels,   \* a create request whose client has given up waiting
    pc,        \* the await the call is at
    known,     \* providerPostId
    polls,     \* status checks made
    outcome,   \* what the worker is told
    lost       \* history: the await at which the connection stopped being the intended one

vars == <<kind, intended, target, sealed, made, travels, pc, known, polls, outcome, lost>>

\* A row stands for postPeerAccountId and connectedAt; the platform's own id of the account may be unknown.
Targets == [row : 0..MaxRows, account : {"none", "own", "other"}]

Awaits == {"target", "creator", "media", "recheck", "owner", "create", "poll"}
Outcomes == {"none", "published", "refused", "unknown"}
Fates == {"none", "pending", "live", "inbox", "draft", "failed"}
Ids == {"none", "own", "other", "receipt"}

\* Types; only a call that asked for its post polls.
TypeOK ==
    /\ kind \in Kinds /\ intended \in Targets /\ target \in Targets /\ sealed \in BOOLEAN
    /\ made \in Fates /\ travels \in BOOLEAN
    /\ pc \in Awaits \cup {"end"} /\ known \in Ids /\ polls \in 0..MaxPolls
    /\ outcome \in Outcomes /\ lost \in Awaits \cup {"end", "never"}

Init ==
    /\ kind \in Kinds /\ intended \in [row : {1}, account : {"none", "own"}] /\ target = intended /\ sealed = FALSE
    /\ made = "none" /\ travels = FALSE
    /\ pc = "target" /\ known = "none" /\ polls = 0 /\ outcome = "none" /\ lost = "never"

-------------------------------------------------------------------------------
(***************************************************************************)
(* What PostPeer may answer.  A record that is not finished may be called  *)
(* published for TikTok, in a summary without its platform's status, and   *)
(* TikTok names a receipt before it is done.  Otherwise any field may be   *)
(* missing, but none is wrong, and a draft is called one.                  *)
(***************************************************************************)
Payload == [ok : BOOLEAN,                                            \* success
            top : {"none", "pending", "published", "draft", "failed"},  \* status
            sub : {"none", "pending", "published", "draft", "failed"},  \* the platform's status
            subOk : {"none", "true", "false"},                       \* the platform's success
            ref : {"none", "inbox", "receipt", "video"},             \* platformPostId
            url : {"none", "messages", "video"},                     \* platformPostUrl
            id : Ids]                                                \* postId, or id

DraftWords == IF kind = "page" THEN {"draft", "published"} ELSE {"draft"}
Words(fate) ==
    CASE fate = "pending" -> {"pending"}
      [] fate \in {"live", "inbox"} -> {"published"}
      [] fate = "draft" -> DraftWords
      [] fate = "failed" -> {"failed"}
TopWords(fate) == Words(fate) \cup (IF fate = "pending" /\ kind \in TikTok THEN {"published"} ELSE {})

References(fate) ==
    CASE kind \in TikTok /\ fate = "live" -> {"none", "receipt", "video"}
      [] (kind \in TikTok /\ fate = "inbox") \/ (kind = "inbox" /\ fate \in {"pending", "failed"}) -> {"none", "inbox"}
      [] kind \in {"direct", "legacy"} /\ fate \in {"pending", "failed"} -> {"none", "receipt"}
      [] (kind \notin TikTok /\ fate = "live") \/ fate = "draft" -> {"none", "video"}
      [] OTHER -> {"none"}
Links(fate) ==
    CASE fate \in {"live", "draft"} -> {"none", "video"}
      [] fate = "inbox" -> {"none", "messages"}
      [] OTHER -> {"none"}

Truthful(fate) ==
    {p \in [ok : {TRUE} \cup {fate /= "failed"}, top : {"none"} \cup TopWords(fate), sub : {"none"} \cup Words(fate),
            subOk : {"none", IF fate = "failed" THEN "false" ELSE "true"},
            ref : References(fate), url : Links(fate),
            id : {"none", "own"} \cup (IF kind \in TikTok THEN {"receipt"} ELSE {})] :
        fate = "draft" => p.top /= "none" \/ p.sub /= "none"}

\* The record of another post: nothing is known of it, but whose it is.
OfAnother == [ok : BOOLEAN, top : {"none", "published"}, sub : {"none", "published"}, subOk : {"none", "true"},
              ref : {"none", "receipt"}, url : {"none", "video"}, id : {"other"}]

-------------------------------------------------------------------------------
(***************************************************************************)
(* evaluatePostPeerPayload.                                                *)
(***************************************************************************)
ProviderId(p, id) == IF id /= "none" THEN id ELSE p.id
Genuine(id) == id \notin {"none", "receipt"}

\* A TikTok receipt is no id of PostPeer's.  Who has no id may be given the platform's.
PollId(p, id) ==
    CASE kind = "direct" -> IF Genuine(ProviderId(p, id)) THEN ProviderId(p, id) ELSE "none"
      [] kind /= "direct" /\ ProviderId(p, id) /= "none" -> ProviderId(p, id)
      [] OTHER -> IF p.ref \in {"receipt", "video"} THEN "receipt" ELSE "none"

AnotherRecord(p, id) == id /= "none" /\ p.id \notin {"none", id}
SaysFailed(p)  == ~p.ok \/ p.top = "failed" \/ p.sub = "failed" \/ p.subOk = "false"
SaysPending(p) == p.top = "pending" \/ p.sub = "pending"
SaysDraft(p)   == p.top = "draft" \/ p.sub = "draft"

\* requireTikTokDirectProof.
ProofByStatus(p, id) ==
    /\ Genuine(ProviderId(p, id)) /\ "published" \in {p.top, p.sub}
    /\ p.url = "video" \/ p.ref \in {"video", "receipt"}
DirectProof(p, id) ==
    /\ Genuine(ProviderId(p, id)) /\ p.sub = "published" /\ ~SaysDraft(p)
    /\ p.url = "video" \/ p.ref \in {"video", "receipt"}

\* The summary that CREATE documents for a hand-over to the Inbox.
InboxSummary(p, id) ==
    /\ p.ref = "none" /\ p.top = "published" /\ p.sub = "none" /\ p.subOk = "true"
    /\ Genuine(ProviderId(p, id))
InboxProof(p, id) ==
    \/ p.ref = "inbox" /\ p.sub = "published" /\ ProviderId(p, id) /= "none"
    \/ ~(p.ref = "inbox" /\ p.sub = "published") /\ SaysDraft(p) /\ PollId(p, id) /= "none"

PageProof(p, id) == (SaysDraft(p) \/ "published" \in {p.top, p.sub}) /\ PollId(p, id) /= "none"

PlainProof(p) ==
    /\ ~SaysDraft(p) /\ p.ref /= "inbox" /\ (p.url /= "none" \/ p.ref /= "none")
    /\ "published" \in {p.top, p.sub} \/ p.top = "none"

Delivered(p, id) ==
    CASE kind = "direct" -> DirectProof(p, id)
      [] kind = "inbox"  -> InboxProof(p, id)
      [] kind = "page"   -> PageProof(p, id)
      [] OTHER           -> PlainProof(p)

\* What is neither failed nor proven goes on only for TikTok, where it can be read again.
Unproven(p, id) == kind = "direct" \/ (kind = "inbox" /\ InboxSummary(p, id))

Evaluate(p, id) ==
    CASE AnotherRecord(p, id) -> "publishing"
      [] ~AnotherRecord(p, id) /\ SaysFailed(p) -> "failed"
      [] ~AnotherRecord(p, id) /\ ~SaysFailed(p) /\ SaysPending(p) -> "publishing"
      [] OTHER -> IF Delivered(p, id) THEN "published" ELSE IF Unproven(p, id) THEN "publishing" ELSE "failed"

-------------------------------------------------------------------------------
(***************************************************************************)
(* Before the post is asked for.                                           *)
(***************************************************************************)
Ends(result) == pc' = "end" /\ outcome' = result
Goes(next)   == pc' = next /\ outcome' = outcome
Asked == <<made, travels, known, polls>>
Around == <<kind, intended, target, sealed, lost>>

SamePlatformTarget(connection) ==
    /\ connection.row = intended.row
    /\ "none" \in {connection.account, intended.account} \/ connection.account = intended.account

\* Direct also needs the revision that its creator information was read for.  Posts of before
\* targets were saved take the account that is connected.
Meant(connection) ==
    CASE kind = "direct" -> SamePlatformTarget(connection) /\ connection = intended
      [] kind = "legacy" -> connection.row /= 0
      [] OTHER -> SamePlatformTarget(connection)

ReadTarget ==
    /\ pc = "target"
    /\ IF ~Meant(target) THEN Ends("refused") ELSE Goes(IF kind = "direct" THEN "creator" ELSE "media")
    /\ UNCHANGED <<Around, Asked>>

\* getCreatorInfo and validateTikTokDirectSettings: the settings may not be allowed any more.
ReadCreator ==
    /\ pc = "creator" /\ (Goes("media") \/ Ends("refused"))
    /\ UNCHANGED <<Around, Asked>>

ResolveMedia ==
    /\ pc = "media" /\ (Goes(IF kind = "direct" THEN "recheck" ELSE "create") \/ Ends("refused"))
    /\ UNCHANGED <<Around, Asked>>

RecheckSkipped == TRUE
RecheckHolds == Meant(target)
RecheckTarget ==
    /\ pc = "recheck"
    /\ IF RecheckHolds THEN Goes("owner") ELSE Ends("refused")
    /\ UNCHANGED <<Around, Asked>>

AssertOwnerActive ==
    /\ pc = "owner"
    /\ IF sealed THEN Ends("refused") ELSE Goes("create")
    /\ UNCHANGED <<Around, Asked>>

-------------------------------------------------------------------------------
(***************************************************************************)
(* CREATE, once.                                                           *)
(***************************************************************************)
Results == CASE kind = "inbox" -> {"inbox", "failed"}
             [] kind \in {"direct", "legacy"} -> {"live", "inbox", "failed"}
             [] kind = "page" -> {"draft", "failed"}
             [] OTHER -> {"live", "draft", "failed"}

\* The network failed, or the answer did not come in time; the request may still arrive.
CreateUnanswered ==
    /\ pc = "create" /\ Ends("unknown")
    /\ made' \in {"none", "pending"} /\ travels' = (made' = "none")
    /\ UNCHANGED <<Around, known, polls>>

\* A client error: nothing was made.
CreateRejected ==
    /\ pc = "create" /\ Ends("refused") /\ UNCHANGED <<Around, Asked>>

\* A server error, or an answer that cannot be read.
IfUncertain == IF kind = "direct" THEN "unknown" ELSE "refused"
CreateServerError ==
    /\ pc = "create" /\ Ends(IfUncertain)
    /\ made' \in {"none", "pending"} /\ travels' \in {FALSE, made' = "none"}
    /\ UNCHANGED <<Around, known, polls>>
CreateUnreadable ==
    /\ pc = "create" /\ made' = "pending"
    /\ Ends("unknown") \/ Ends(IfUncertain)      \* no JSON, or JSON of another shape
    /\ UNCHANGED <<Around, travels, known, polls>>

CreateAnswered ==
    /\ pc = "create" /\ made' \in {"pending"} \cup Results
    /\ \E p \in Truthful(made') :
          LET said == Evaluate(p, "none")
              id   == PollId(p, "none")
          IN  \/ said = "failed" /\ Ends("refused") /\ known' = known
              \/ said = "published" /\ Ends("published") /\ known' = known
              \/ said = "publishing" /\ id = "none" /\ Ends("unknown") /\ known' = known
              \/ said = "publishing" /\ id /= "none" /\ Goes("poll") /\ known' = id
    /\ UNCHANGED <<Around, travels, polls>>

-------------------------------------------------------------------------------
(***************************************************************************)
(* The status checks.                                                      *)
(***************************************************************************)
PollsOrGivesUp == IF polls + 1 < MaxPolls THEN Goes("poll") ELSE Ends("unknown")

PollFails ==
    /\ pc = "poll" /\ polls' = polls + 1 /\ PollsOrGivesUp
    /\ UNCHANGED <<Around, made, travels, known>>

PollAnswered ==
    /\ pc = "poll" /\ polls' = polls + 1
    /\ \E p \in Truthful(made) \cup OfAnother :
          LET said == Evaluate(p, known)
          IN  \/ said = "failed" /\ Ends("refused")
              \/ said = "published" /\ Ends("published")
              \/ said = "publishing" /\ PollsOrGivesUp
    /\ UNCHANGED <<Around, made, travels, known>>

Call == \/ ReadTarget \/ ReadCreator \/ ResolveMedia \/ RecheckTarget \/ AssertOwnerActive
        \/ CreateUnanswered \/ CreateRejected \/ CreateServerError \/ CreateUnreadable \/ CreateAnswered
        \/ PollFails \/ PollAnswered

-------------------------------------------------------------------------------
(***************************************************************************)
(* Meanwhile: PostPeer, and other requests of the owner.                   *)
(***************************************************************************)
Arrives ==
    /\ travels /\ made' = "pending" /\ travels' = FALSE
    /\ UNCHANGED <<Around, pc, known, polls, outcome>>

Progresses ==
    /\ made = "pending" /\ made' \in Results
    /\ UNCHANGED <<Around, travels, pc, known, polls, outcome>>

Becomes(next) ==
    /\ target' = next
    /\ lost' = CASE Meant(next) -> "never" [] ~Meant(next) /\ Meant(target) -> pc [] OTHER -> lost
    /\ UNCHANGED <<kind, intended, sealed, made, travels, pc, known, polls, outcome>>

\* upsertConnection, with or without a row before; reconcileExistingConnection; disconnect.
Reconnects  == \E row \in 2..MaxRows, account \in {"none", "own", "other"} :
                  Becomes([row |-> row, account |-> account])
Refreshes   == target.row /= 0 /\ \E account \in {"none", "own", "other"} : Becomes([target EXCEPT !.account = account])
Disconnects == target.row /= 0 /\ Becomes([row |-> 0, account |-> "none"])

Seal ==
    /\ ~sealed /\ sealed' = TRUE
    /\ UNCHANGED <<kind, intended, target, made, travels, pc, known, polls, outcome, lost>>

Next == Call \/ Arrives \/ Progresses \/ Reconnects \/ Refreshes \/ Disconnects \/ Seal

Spec == Init /\ [][Next]_vars

-------------------------------------------------------------------------------
(***************************************************************************)
(* Correctness.                                                            *)
(***************************************************************************)
\* ARCHITECTURE.md:1514-1516, 1559-1561: the worker is told PUBLISHED only of a post that became what was
\* asked for: no receipt, summary, messages link or record of another post stands in for it.
PublishedIsTrue ==
    outcome = "published" =>
        CASE kind \in {"direct", "plain"} -> made = "live"
          [] kind = "inbox" -> made = "inbox"
          [] kind = "page" -> made = "draft"
          [] OTHER -> made /= "none"

\* postPeerPublisher.ts:702-704, 736-740: a refusal of a Direct post is final.  Whatever was lost, late or
\* unreadable, nothing is or will be on TikTok, so that the post can be made again and the ticket go.
DirectRefusalIsTrue ==
    kind = "direct" /\ outcome = "refused" => made \in {"none", "failed"} /\ ~travels

\* Both: what the worker is told of a post is so, and it may act on it.
OutcomeIsTrue == PublishedIsTrue /\ DirectRefusalIsTrue

\* postPeerPublisher.ts:656-657: a Direct post is not asked for when the connection stopped being the
\* intended one while anything was read or fetched before the last look at the owner; any other post,
\* when it did before its target was read.
LastSafe == IF kind = "direct" THEN {"target", "creator", "media", "recheck"} ELSE {"target"}
SentWhereMeant ==
    kind /= "legacy" /\ (made /= "none" \/ travels) => lost \notin LastSafe
===============================================================================
