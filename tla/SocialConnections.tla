--------------------------- MODULE SocialConnections ---------------------------
(***************************************************************************)
(* The account one user has linked on one platform: PostPeer keeps the     *)
(* integrations of the user's profile, the API saves one of them, and the  *)
(* requests connect, refresh and disconnect (socialConnectionRoutes.ts)    *)
(* overlap: each waits for PostPeer between its reads and its writes. An   *)
(* integration is identified by its id and by the platform user it is      *)
(* listed with, which PostPeer may change or leave out.                    *)
(***************************************************************************)
EXTENDS Integers, FiniteSets

CONSTANTS
    Accounts,      \* accounts of the user on the platform
    Linked,        \* those another user of the app has linked
    Requests,      \* requests handled at the same time, by one API process
    ReusesIds,     \* PostPeer gives an account that reconnects its old integration id
    MaxConnects,   \* bound: connect requests
    MaxIds,        \* bound: integration ids given to an account, if they are not reused
    MaxFaults,     \* bound: failed calls, integrations that PostPeer drops or lists under another user
    MaxExits       \* bound: exits of the process

\* Assumed by who instantiates the model (MCPostPeer).
SocialConnectionsAssumption ==
    /\ "none" \notin Accounts /\ Linked \subseteq Accounts /\ ReusesIds \in BOOLEAN
    /\ MaxConnects \in Nat /\ MaxIds \in Nat /\ MaxFaults \in Nat /\ MaxExits \in Nat

VARIABLES
    profiles,      \* PostPeer's profiles with the user's name: how many
    integrations,  \* the integrations of the profile
    platformUser,  \* whom PostPeer lists them under: the account that authorised them, or another or none
    urls,          \* connect URLs not used yet, by the number of their attempt
    profile,       \* PostPeerProfile: is it saved
    row,           \* SocialConnection: the integration that is saved, postPeerAccountId
    external,      \* SocialConnection: the platform user it is saved with, externalAccountId
    attempt,       \* SocialConnectAttempt
    expired,       \* the attempts whose ten minutes are over
    work,          \* the requests in the process
    connects,      \* connect requests that have started
    begun,         \* the attempts so far
    given,         \* integration ids so far
    handed,        \* history: attempts whose nonce the app has got
    over,          \* history: attempts that were completed, or that a disconnect found
    faults, exits

vars == <<profiles, integrations, platformUser, urls, profile, row, external, attempt, expired,
          work, connects, begun, given, handed, over, faults, exits>>

None == [account |-> "none", made |-> 0]
Numbers == 0..MaxConnects
Ids == [account : Accounts, made : 0..MaxIds]
SavedIds == Ids \cup {None}
Users == {"own", "other"}

\* fresh: history, the integrations authorised since the list that the baseline was taken from;
\* clean: history, nothing of that list was being deleted; kept: the saved one that was left alone.
NoAttempt == [n |-> 0, baseline |-> {}, fresh |-> {}, clean |-> TRUE, kept |-> None]
Attempt == [n : Numbers, baseline : SUBSET Ids, fresh : SUBSET Ids, clean : BOOLEAN, kept : SavedIds]

\* view, users: what PostPeer listed, and under whom; found, under: the connection read before;
\* on: the integration being deleted; back: history, PostPeer did not list that connection and then
\* listed it again, since it was read.
Idle == [pc |-> "idle", view |-> {}, users |-> [i \in Ids |-> "own"], todo |-> {}, found |-> None,
         under |-> "own", on |-> None, as |-> NoAttempt, back |-> FALSE]
Creating == {"find", "make", "save"}
Connecting == {"ensure", "join", "list", "saved", "cleanup", "begin", "url"} \cup Creating
Refreshing == {"read", "poll", "complete", "reconcile"}
Work == [pc : Connecting \cup Refreshing \cup {"idle", "delete", "drop", "cancel"},
         view : SUBSET Ids, users : [Ids -> Users], todo : SUBSET Ids, found : SavedIds,
         under : Users, on : SavedIds, as : Attempt, back : BOOLEAN]

\* Types; double taps never make PostPeer keep two profiles of one user, which no later
\* request could tell apart (postPeerConnectClient.ts:373-375).
TypeOK ==
    /\ profiles \in 0..1 /\ integrations \subseteq Ids /\ urls \subseteq Numbers
    /\ platformUser \in [Ids -> Users] /\ external \in Users
    /\ profile \in BOOLEAN /\ row \in SavedIds /\ attempt \in Attempt /\ expired \subseteq Numbers
    /\ work \in [Requests -> Work]
    /\ connects \in Numbers /\ begun \in Numbers /\ given \in [Accounts -> 0..MaxIds]
    /\ handed \subseteq Numbers /\ over \subseteq Numbers
    /\ faults \in 0..MaxFaults /\ exits \in 0..MaxExits
    /\ profile => profiles > 0

Init ==
    /\ profiles \in 0..1 /\ integrations = {} /\ urls = {}
    /\ platformUser = [i \in Ids |-> "own"] /\ external = "own"
    /\ profile = FALSE /\ row = None /\ attempt = NoAttempt /\ expired = {}
    /\ work = [h \in Requests |-> Idle]
    /\ connects = 0 /\ begun = 0 /\ given = [a \in Accounts |-> 0]
    /\ handed = {} /\ over = {} /\ faults = 0 /\ exits = 0

-------------------------------------------------------------------------------
(***************************************************************************)
(* Steps of a request.                                                     *)
(***************************************************************************)
At(h, pc) == work[h].pc = pc
Becomes(h, new) == work' = [work EXCEPT ![h] = new]
Goto(h, pc) == Becomes(h, [work[h] EXCEPT !.pc = pc])
Answer(h) == Becomes(h, Idle)

NoFault == UNCHANGED faults
Fault == faults < MaxFaults /\ faults' = faults + 1

Store == <<profile, row, external, attempt>>
Rest == <<platformUser, urls, given, expired, connects, begun, handed, over, exits>>

\* integrationDeletesInFlight.
Deleting == {work[h].on : h \in Requests} \ {None}

\* The list holds i, under the platform user u.
ListedAs(list, users, i, u) == i \in list /\ users[i] = u
Lists(i, u) == ListedAs(integrations, platformUser, i, u)

\* PostPeer lists so from now on: the requests in hand remember whose connection is there again.
Again(w, list, users) ==
    w.found /= None /\ ~Lists(w.found, w.under) /\ ListedAs(list, users, w.found, w.under)
Noted(now, list, users) ==
    [h \in Requests |-> [now[h] EXCEPT !.back = @ \/ Again(now[h], list, users)]]
PostPeerLists(list, users, now) ==
    integrations' = list /\ platformUser' = users /\ work' = Noted(now, list, users)

\* DELETE of an integration; an error leaves open whether it was done.
Deletes(h, next) ==
    integrations' = integrations \ {work[h].on} /\ NoFault /\ Becomes(h, next)
DeleteFails(h) ==
    /\ Fault /\ Answer(h)
    /\ integrations' \in {integrations, integrations \ {work[h].on}}

-------------------------------------------------------------------------------
(***************************************************************************)
(* POST /social-connections/:platform/connect.                             *)
(***************************************************************************)
StartConnect(h) ==
    /\ At(h, "idle") /\ connects < MaxConnects /\ connects' = connects + 1
    /\ Becomes(h, [Idle EXCEPT !.pc = "ensure"])
    /\ UNCHANGED <<profiles, integrations, platformUser, Store, urls, given, expired, begun, handed,
                   over, faults, exits>>

\* inFlightProfileCreations: the first request creates the profile, the others await it.
NobodyElse(h) == {}
Creators(h) == {g \in Requests : work[g].pc \in Creating}

EnsureProfile(h) ==
    /\ At(h, "ensure")
    /\ Goto(h, IF profile THEN "list" ELSE IF Creators(h) = {} THEN "find" ELSE "join")
    /\ UNCHANGED <<profiles, integrations, Store, Rest, faults>>

\* The creation has an outcome, for those who await it too.
Created(h, pc) ==
    work' = [g \in Requests |->
        IF g = h \/ At(g, "join")
        THEN IF pc = "idle" THEN Idle ELSE [work[g] EXCEPT !.pc = pc]
        ELSE work[g]]

FindProfile(h) ==
    /\ At(h, "find")
    /\ \/ NoFault /\ IF profiles = 0 THEN Goto(h, "make") ELSE Goto(h, "save")
       \/ Fault /\ Created(h, "idle")
    /\ UNCHANGED <<profiles, integrations, Store, Rest>>

\* An error of the POST is followed by another search.
MakeProfile(h) ==
    /\ At(h, "make")
    /\ \/ NoFault /\ profiles' = profiles + 1
       \/ Fault /\ profiles' \in {profiles, profiles + 1}
    /\ IF profiles' = 1 THEN Goto(h, "save") ELSE Created(h, "idle")
    /\ UNCHANGED <<integrations, Store, Rest>>

SaveProfile(h) ==
    /\ At(h, "save") /\ profile' = TRUE /\ Created(h, "list")
    /\ UNCHANGED <<profiles, integrations, row, external, attempt, Rest, faults>>

ListIntegrations(h) ==
    /\ At(h, "list")
    /\ \/ NoFault /\ Becomes(h, [work[h] EXCEPT !.pc = "saved", !.view = integrations])
       \/ Fault /\ Answer(h)
    /\ UNCHANGED <<profiles, integrations, Store, Rest>>

Leftovers(view) == view \ ({row} \cup Deleting)

\* One delete after the other, then the baseline.
CleansUp(w, todo) ==
    IF todo = {} THEN {[w EXCEPT !.pc = "begin", !.on = None, !.todo = {}]}
    ELSE {[w EXCEPT !.pc = "cleanup", !.on = i, !.todo = todo \ {i}] : i \in todo}

\* getAccountId, and the filter right after it.
ReadSaved(h) ==
    /\ At(h, "saved")
    /\ LET todo == Leftovers(work[h].view)
           next == [work[h] EXCEPT !.view = @ \ todo, !.as.clean = (Deleting \cap work[h].view = {}),
                                   !.as.kept = row]
       IN  \E w \in CleansUp(next, todo) : Becomes(h, w)
    /\ UNCHANGED <<profiles, integrations, Store, Rest, faults>>

CleanUp(h) ==
    /\ At(h, "cleanup")
    /\ \/ \E w \in CleansUp(work[h], work[h].todo) : Deletes(h, w)
       \/ DeleteFails(h)
    /\ UNCHANGED <<profiles, Store, Rest>>

\* beginConnectAttempt replaces the attempt there is.
Begin(h) ==
    /\ At(h, "begin") /\ begun' = begun + 1
    /\ attempt' = [work[h].as EXCEPT !.n = begun + 1, !.baseline = work[h].view]
    /\ Becomes(h, [Idle EXCEPT !.pc = "url", !.as.n = begun + 1])
    /\ UNCHANGED <<profiles, integrations, platformUser, profile, row, external, urls, given, expired,
                   connects, handed, over, faults, exits>>

CreateUrl(h) ==
    /\ At(h, "url")
    /\ \/ /\ NoFault /\ Answer(h)
          /\ urls' = urls \cup {work[h].as.n} /\ handed' = handed \cup {work[h].as.n}
       \/ Fault /\ Goto(h, "cancel") /\ UNCHANGED <<urls, handed>>
    /\ UNCHANGED <<profiles, integrations, platformUser, Store, given, expired, connects, begun, over, exits>>

\* cancelConnectAttempt: of this nonce.
AnyNonce(h) == attempt.n /= 0
SameNonce(h) == attempt.n = work[h].as.n

Cancel(h) ==
    /\ At(h, "cancel") /\ Answer(h)
    /\ attempt' = IF SameNonce(h) THEN NoAttempt ELSE attempt
    /\ UNCHANGED <<profiles, integrations, profile, row, external, Rest, faults>>

-------------------------------------------------------------------------------
(***************************************************************************)
(* POST /social-connections/refresh: n is 0 without a nonce.               *)
(***************************************************************************)
Available(n) == attempt.n = n /\ n \notin expired

StartRefresh(h, n) ==
    /\ At(h, "idle") /\ n \in handed \cup {0} /\ (n /= 0 => Available(n))
    /\ Becomes(h, [Idle EXCEPT !.pc = "read", !.as = IF n = 0 THEN NoAttempt ELSE attempt])
    /\ UNCHANGED <<profiles, integrations, Store, Rest, faults>>

\* A profile that was made and not saved is found again; without one nothing is read.
ReadRow(h) ==
    /\ At(h, "read")
    /\ \/ /\ NoFault /\ profile' = (profiles > 0)
          /\ IF profile' THEN Becomes(h, [work[h] EXCEPT !.pc = "poll", !.found = row, !.under = external])
             ELSE Answer(h)
       \/ ~profile /\ Fault /\ Answer(h) /\ UNCHANGED profile
    /\ UNCHANGED <<profiles, integrations, row, external, attempt, Rest>>

Candidates(as, view) == view \ as.baseline

Poll(h) ==
    /\ At(h, "poll")
    /\ \/ /\ NoFault
          /\ LET as  == work[h].as
                 new == IF as.n = 0 THEN {} ELSE Candidates(as, integrations)
             IN  IF Cardinality(new) > 1 THEN Answer(h)
                 ELSE Becomes(h, [work[h] EXCEPT !.view = integrations, !.users = platformUser, !.todo = new,
                                                 !.pc = IF new = {} THEN "reconcile" ELSE "complete"])
       \/ Fault /\ Answer(h)
    /\ UNCHANGED <<profiles, integrations, Store, Rest>>

\* Another user of the app has linked the account.
Taken(i, u) == i.account \in Linked /\ u = "own"

\* completeConnectAttempt: the attempt is consumed with the upsert, or an account of another user keeps it.
Complete(h) ==
    /\ At(h, "complete")
    /\ LET i == CHOOSE x \in work[h].todo : TRUE
           u == work[h].users[i]
       IN  IF Available(work[h].as.n) /\ i \in Candidates(attempt, work[h].todo) /\ ~Taken(i, u)
           THEN /\ row' = i /\ external' = u /\ attempt' = NoAttempt /\ over' = over \cup {attempt.n}
                /\ Answer(h)
           ELSE Answer(h) /\ UNCHANGED <<row, external, attempt, over>>
    /\ UNCHANGED <<profiles, integrations, platformUser, profile, urls, given, expired, connects, begun, handed, faults, exits>>

\* isExpectedSocialConnection: the saved connection is still the one that was read, user and all.
Whatever(h) == row /= None
Expected(h) == row /= None /\ row = work[h].found /\ external = work[h].under

Keeps == UNCHANGED <<row, external>>
Removes == row' = None /\ external' = "own"

\* reconcileExistingConnection: what PostPeer listed, under the user it was saved with, is saved
\* again; the rest is removed. A connection that is no longer the one read is left alone.
Reconcile(h) ==
    /\ At(h, "reconcile") /\ Answer(h)
    /\ IF Expected(h) /\ ~ListedAs(work[h].view, work[h].users, work[h].found, work[h].under)
       THEN Removes ELSE Keeps
    /\ UNCHANGED <<profiles, integrations, profile, attempt, Rest, faults>>

-------------------------------------------------------------------------------
(***************************************************************************)
(* DELETE /social-connections/:platform.                                   *)
(***************************************************************************)
DeleteFirst(found) == IF found = None THEN "cancel" ELSE "delete"

\* getDisconnectSnapshot.
StartDisconnect(h) ==
    /\ At(h, "idle")
    /\ row /= None \/ attempt.n /= 0
    /\ Becomes(h, [Idle EXCEPT !.pc = DeleteFirst(row), !.found = row, !.under = external,
                            !.on = row, !.as.n = attempt.n])
    /\ over' = over \cup {attempt.n}
    /\ UNCHANGED <<profiles, integrations, platformUser, Store, urls, given, expired, connects, begun, handed, faults, exits>>

Delete(h) ==
    /\ At(h, "delete")
    /\ Deletes(h, [work[h] EXCEPT !.pc = "drop", !.on = None]) \/ DeleteFails(h)
    /\ UNCHANGED <<profiles, Store, Rest>>

Drop(h) ==
    /\ At(h, "drop") /\ IF Expected(h) THEN Removes ELSE Keeps
    /\ IF work[h].as.n = 0 THEN Answer(h) ELSE Goto(h, "cancel")
    /\ UNCHANGED <<profiles, integrations, profile, attempt, Rest, faults>>

-------------------------------------------------------------------------------
(***************************************************************************)
(* The user, PostPeer and the process.                                     *)
(***************************************************************************)
\* The integration a gets: the one it has, the one it had, or a new one.
NewId(a) ==
    IF \E i \in integrations : i.account = a THEN CHOOSE i \in integrations : i.account = a
    ELSE [account |-> a, made |-> IF ReusesIds THEN 0 ELSE given[a]]

\* The user opens a connect URL, once, and allows the account, which is listed as itself.
Authorise(n, a) ==
    LET i   == NewId(a)
        old == {j \in integrations : j.account = a}
        now == [h \in Requests |-> IF work[h].pc \in {"saved", "cleanup", "begin"}
                                   THEN [work[h] EXCEPT !.as.fresh = @ \cup {i}] ELSE work[h]]
    IN  /\ n \in urls /\ n \notin expired /\ urls' = urls \ {n}
        /\ ReusesIds \/ old /= {} \/ given[a] < MaxIds
        /\ given' = IF ReusesIds \/ old /= {} THEN given ELSE [given EXCEPT ![a] = @ + 1]
        /\ PostPeerLists(integrations \cup {i}, [platformUser EXCEPT ![i] = "own"], now)
        /\ attempt' = IF attempt.n = 0 THEN attempt ELSE [attempt EXCEPT !.fresh = @ \cup {i}]
        /\ UNCHANGED <<profiles, profile, row, external, expired, connects, begun, handed, over, faults, exits>>

\* The user takes the permission back at the platform.
Revoke(i) ==
    /\ i \in integrations /\ Fault /\ integrations' = integrations \ {i}
    /\ UNCHANGED <<profiles, Store, work, Rest>>

\* PostPeer lists i under another platform user, or under none; or under its own again.
Relabel(i) ==
    /\ i \in integrations /\ Fault
    /\ \E u \in Users \ {platformUser[i]} : PostPeerLists(integrations, [platformUser EXCEPT ![i] = u], work)
    /\ UNCHANGED <<profiles, Store, urls, given, expired, connects, begun, handed, over, exits>>

Expire ==
    /\ attempt.n \notin expired \cup {0} /\ expired' = expired \cup {attempt.n}
    /\ UNCHANGED <<profiles, integrations, platformUser, Store, urls, given, work, connects, begun, handed,
                   over, faults, exits>>

\* A call that was under way may still be done.
Exit ==
    /\ exits < MaxExits /\ exits' = exits + 1 /\ work' = [h \in Requests |-> Idle]
    /\ profiles' \in {profiles} \cup IF \E h \in Requests : At(h, "make") THEN {profiles + 1} ELSE {}
    /\ \E S \in SUBSET Deleting : integrations' = integrations \ S
    /\ UNCHANGED <<platformUser, Store, urls, given, expired, connects, begun, handed, over, faults>>

Step(h) ==
    \/ EnsureProfile(h) \/ FindProfile(h) \/ MakeProfile(h) \/ SaveProfile(h)
    \/ ListIntegrations(h) \/ ReadSaved(h) \/ CleanUp(h) \/ Begin(h) \/ CreateUrl(h) \/ Cancel(h)
    \/ ReadRow(h) \/ Poll(h) \/ Complete(h) \/ Reconcile(h) \/ Delete(h) \/ Drop(h)

Next ==
    \/ \E h \in Requests :
          \/ StartConnect(h) \/ StartDisconnect(h) \/ \E n \in Numbers : StartRefresh(h, n)
          \/ Step(h)
    \/ \E n \in Numbers, a \in Accounts : Authorise(n, a)
    \/ \E i \in Ids : Revoke(i) \/ Relabel(i)
    \/ Expire \/ Exit

Spec == Init /\ [][Next]_vars

-------------------------------------------------------------------------------
(***************************************************************************)
(* Correctness.                                                            *)
(***************************************************************************)
\* socialConnectionRoutes.ts:231-232: an integration that was there before cannot prove that this
\* attempt was completed: what is imported was authorised after the baseline of the attempt.
ImportedIsNew ==
    [][row' /= row /\ row' /= None => row' \in attempt.fresh /\ attempt.n \notin expired]_vars

\* socialConnectionRoutes.ts:352-354, 408-410: no stale list, unconfirmed delete or older refresh takes
\* a newer connection away. A request removes one only while PostPeer does not list it under the
\* platform user it was saved with. The exception is the one the stored identity cannot tell apart: the
\* same account got its id again, and may have been completed again, after the request had read it.
RemovedIsUnlisted ==
    [][row /= None /\ row' = None =>
         \/ ~Lists(row, external)
         \/ \E h \in Requests : work'[h] /= work[h] /\ work[h].back
                                /\ work[h].found = row /\ work[h].under = external]_vars

\* Both: the saved connection follows PostPeer, whatever requests overlap.
LinksFollowPostPeer == ImportedIsNew /\ RemovedIsUnlisted

\* socialConnectionRoutes.ts:281: nobody else's failure cancels the newest attempt: the nonce
\* that the app got stays good until it is used, or a disconnect finds it.
HandedStays == begun \in handed \ over /\ begun /= 0 => attempt.n = begun

\* socialConnectionRoutes.ts:235-239: a leftover of an abandoned attempt does not block its account:
\* what is authorised for an attempt can be imported, unless it was saved or being deleted before.
LeftoversNeverBlock == attempt.clean => attempt.fresh \cap attempt.baseline \subseteq {attempt.kept}

\* Both: the user can complete the newest attempt, whatever was left behind by others before or is now.
NewestCanComplete == HandedStays /\ LeftoversNeverBlock
===============================================================================
