--------------------------- MODULE LinkInBioImages ---------------------------
(***************************************************************************)
(* The images of one owner's page (linkInBioImageService.ts, its store):   *)
(* uploads, the pins of drafts and of publications, and the pruning that   *)
(* deletes what nothing names.  The lock of the owner's images keeps apart *)
(* the requests of one process; here each process handles one.             *)
(*                                                                         *)
(* One slot (a logo).  Images are numbered in order of creation; 0 is none.*)
(* Those of apps that name no draft are never pruned, and left out.        *)
(* Every await is a step; any call may fail, and any process may exit.     *)
(* The transaction of a publication is one step (LinkInBioPages).  The app *)
(* saves its draft as link_in_bio_screen.dart does.                        *)
(***************************************************************************)
EXTENDS Integers, FiniteSets, FiniteSetsExt

CONSTANTS
    Requests,        \* one in each process
    MaxImages,       \* bound: uploads
    Limit,           \* images of an owner
    MaxReferences,   \* references to an image
    MaxRevision      \* bound: revisions of the draft

ASSUME ImagesAssumption ==
    /\ IsFiniteSet(Requests) /\ MaxImages \in Nat /\ Limit \in Nat /\ MaxReferences \in Nat /\ MaxRevision \in Nat

VARIABLES
    rows,      \* the LinkInBioImage rows
    stored,    \* the objects in the bucket
    made,      \* images made so far
    aged,      \* those of them that are older than a day
    page,      \* the image the page names
    draft,     \* the image the draft saved on the device names
    device,    \* what the app keeps of its pins, and the answer it waits for
    sent,      \* requests of the app on their way, late ones included
    work       \* the requests in the processes

vars == <<rows, stored, made, aged, page, draft, device, sent, work>>
Device == <<draft, device, sent>>

Images == 1..MaxImages
Names == 0..MaxImages
Revisions == 1..MaxRevision
NoRow == [drafts |-> {}, pins |-> {}, left |-> 0, claimed |-> TRUE]

\* drafts: revisions that pin the image; pins: publications that do; left: pins that nobody will remove.
Rows == [drafts : SUBSET Revisions, pins : SUBSET Requests, left : 0..MaxReferences,
         claimed : BOOLEAN]
Messages == [revision : Revisions, image : Names, replace : BOOLEAN]

Idle == [pc |-> "idle", job |-> "none", image |-> 0, revision |-> 0, todo |-> {}, old |-> {}]
Pruning == {"list", "next", "claim", "verify", "cancel", "erase", "drop"}
Work == [pc : Pruning \cup {"idle", "validate", "pin", "write", "unpin", "save", "review", "add", "release"},
         job : {"none", "publish", "update", "upload", "add", "replace"},
         image : Names, revision : 0..MaxRevision, todo : SUBSET Images,
         old : SUBSET (Images \X Revisions)]

References(k) == Cardinality(rows[k].drafts) + Cardinality(rows[k].pins) + rows[k].left

\* Types; an image whose deletion is claimed has no pin.
TypeOK ==
    /\ rows \in [Images -> Rows] /\ stored \subseteq Images
    /\ made \in Names /\ aged \in 0..made /\ page \in 0..made /\ draft \in 0..made
    /\ device \in [revision : 0..MaxRevision, confirmed : SUBSET Images, waits : BOOLEAN, image : Names]
    /\ sent \subseteq Messages
    /\ work \in [Requests -> Work]
    /\ \A k \in Images : rows[k].claimed => References(k) = 0

Init ==
    /\ rows = [k \in Images |-> NoRow] /\ stored = {} /\ made = 0 /\ aged = 0
    /\ page = 0 /\ draft = 0
    /\ device = [revision |-> 0, confirmed |-> {}, waits |-> FALSE, image |-> 0]
    /\ sent = {}
    /\ work = [r \in Requests |-> Idle]

Becomes(r, new) == work' = [work EXCEPT ![r] = new]
Goes(r, pc) == Becomes(r, [work[r] EXCEPT !.pc = pc])
Ends(r) == Becomes(r, Idle)
Starts(r, job, image, pc) ==
    /\ work[r].pc = "idle"
    /\ Becomes(r, [Idle EXCEPT !.pc = pc, !.job = job, !.image = image])

-------------------------------------------------------------------------------
(***************************************************************************)
(* The image store: each call is one SQL statement.                        *)
(***************************************************************************)
Exists(k) == rows[k] # NoRow
Room(k) == References(k) < MaxReferences

\* addDraftReference, of a revision or of a publication.
Pinnable(k) == Exists(k) /\ ~rows[k].claimed
PinDraft(k, n) == rows' = [rows EXCEPT ![k].drafts = @ \cup {n}]
DraftPinnable(k, n) == Pinnable(k) /\ (n \in rows[k].drafts \/ Room(k))

\* The row conditions of claimPrune.
Claimable(k) == Pinnable(k) /\ References(k) = 0
Claimed(k, is) == [rows EXCEPT ![k].claimed = is]

Latest == IF \E k \in Images : Exists(k) THEN Max({k \in Images : Exists(k)}) ELSE 0

-------------------------------------------------------------------------------
(***************************************************************************)
(* pruneUnlocked.                                                          *)
(***************************************************************************)
\* What nothing pins and the page does not name; the newest of the slot stays.
Candidates ==
    {k \in 1..aged : Exists(k) /\ References(k) = 0 /\ k \notin {page, Latest}}

\* The page and the list are read; the page is read again before each image.
List(r) ==
    /\ work[r].pc = "list"
    /\ Becomes(r, [work[r] EXCEPT !.pc = "next", !.todo = Candidates])
    /\ UNCHANGED <<rows, stored, made, aged, page, Device>>

On(r) == Max(work[r].todo)
Skip(r) == Becomes(r, [work[r] EXCEPT !.pc = "next", !.todo = @ \ {On(r)}])

\* The page is read again; so does the UPDATE of claimPrune, with the row, when it starts.
Examine(r) ==
    /\ work[r].pc = "next" /\ work[r].todo # {}
    /\ IF page = On(r) \/ ~Claimable(On(r)) THEN Skip(r) ELSE Goes(r, "claim")
    /\ UNCHANGED <<rows, stored, made, aged, page, Device>>

\* The UPDATE may have waited for the row: it looks at the row again, and at the page of before.
Claim(r) ==
    /\ work[r].pc = "claim"
    /\ IF Claimable(On(r)) THEN rows' = Claimed(On(r), TRUE) /\ Goes(r, "verify")
       ELSE UNCHANGED rows /\ Skip(r)
    /\ UNCHANGED <<stored, made, aged, page, Device>>

NeverNamed(r) == FALSE
StillNamed(r) == page = On(r)

Verify(r) ==
    /\ work[r].pc = "verify"
    /\ Goes(r, IF StillNamed(r) THEN "cancel" ELSE "erase")
    /\ UNCHANGED <<rows, stored, made, aged, page, Device>>

Cancel(r) ==
    /\ work[r].pc = "cancel"
    /\ rows' = Claimed(On(r), FALSE) /\ Skip(r)
    /\ UNCHANGED <<stored, made, aged, page, Device>>

Erase(r) ==
    /\ work[r].pc = "erase"
    /\ stored' = stored \ {On(r)} /\ Goes(r, "drop")
    /\ UNCHANGED <<rows, made, aged, page, Device>>

Drop(r) ==
    /\ work[r].pc = "drop"
    /\ rows' = [rows EXCEPT ![On(r)] = NoRow] /\ Skip(r)
    /\ UNCHANGED <<stored, made, aged, page, Device>>

Pruned(r) ==
    /\ work[r].pc = "next" /\ work[r].todo = {}
    /\ IF work[r].job = "upload" THEN Goes(r, "save") ELSE Ends(r)
    /\ UNCHANGED <<rows, stored, made, aged, page, Device>>

-------------------------------------------------------------------------------
(***************************************************************************)
(* Uploads.                                                                *)
(***************************************************************************)
StartUpload(r) ==
    /\ Starts(r, "upload", 0, "list")
    /\ UNCHANGED <<rows, stored, made, aged, page, Device>>

\* The object is put and its row saved; what fails between is named by nobody.
Save(r) ==
    /\ work[r].pc = "save"
    /\ IF Cardinality({k \in Images : Exists(k)}) >= Limit
       THEN UNCHANGED <<rows, stored, made>>
       ELSE /\ made < MaxImages
            /\ made' = made + 1
            /\ stored' = stored \cup {made + 1}
            /\ rows' = [rows EXCEPT ![made + 1] = [NoRow EXCEPT !.claimed = FALSE]]
    /\ Ends(r)
    /\ UNCHANGED <<aged, page, Device>>

Ages ==
    /\ aged < made /\ aged' = aged + 1
    /\ UNCHANGED <<rows, stored, made, page, Device, work>>

-------------------------------------------------------------------------------
(***************************************************************************)
(* Publication (linkInBioRoutes.ts): commit runs under the lock.           *)
(***************************************************************************)
\* An update leaves the appearance out: the image it reads on the page is validated and pinned.
StartPublish(r) ==
    /\ \/ \E k \in 0..made : Starts(r, "publish", k, IF k = 0 THEN "write" ELSE "validate")
       \/ Starts(r, "update", page, IF page = 0 THEN "write" ELSE "validate")
    /\ UNCHANGED <<rows, stored, made, aged, page, Device>>

Validate(r) ==
    /\ work[r].pc = "validate"
    /\ IF Pinnable(work[r].image) THEN Goes(r, "pin") ELSE Ends(r)
    /\ UNCHANGED <<rows, stored, made, aged, page, Device>>

Pin(r) ==
    LET k == work[r].image
    IN  /\ work[r].pc = "pin"
        /\ IF Pinnable(k) /\ Room(k)
           THEN rows' = [rows EXCEPT ![k].pins = @ \cup {r}] /\ Goes(r, "write")
           ELSE UNCHANGED rows /\ Ends(r)
        /\ UNCHANGED <<stored, made, aged, page, Device>>

Write(r) ==
    /\ work[r].pc = "write"
    /\ page' = IF work[r].job = "publish" THEN work[r].image ELSE page
    /\ Becomes(r, [Idle EXCEPT !.pc = "unpin"])
    /\ UNCHANGED <<rows, stored, made, aged, Device>>

\* The pins that a request forgets stay.
Forgotten(r) ==
    [k \in Images |-> IF r \in rows[k].pins THEN [rows[k] EXCEPT !.pins = @ \ {r}, !.left = @ + 1] ELSE rows[k]]
Unpinned(r) == [k \in Images |-> [rows[k] EXCEPT !.pins = @ \ {r}]]

\* After the commit: a failure is swallowed, and onPublished prunes.
Unpin(r) ==
    /\ work[r].pc = "unpin"
    /\ rows' = Unpinned(r) \/ rows' = Forgotten(r)
    /\ Goes(r, "list")
    /\ UNCHANGED <<stored, made, aged, page, Device>>

\* A call fails or is refused, or the process exits: after a pin that is a pin for ever.
Fails(r) ==
    /\ work[r].pc # "idle"
    /\ rows' = Forgotten(r) /\ Ends(r)
    /\ UNCHANGED <<stored, made, aged, page, Device>>

-------------------------------------------------------------------------------
(***************************************************************************)
(* The draft on the device (_persistDraft, _protectImages).                *)
(***************************************************************************)
Confirm(confirmed) == device' = [device EXCEPT !.confirmed = confirmed, !.waits = FALSE, !.image = 0]
Message(n, k, replace) == [revision |-> n, image |-> k, replace |-> replace]
Asked(k) == {k} \ {0}

\* The draft is saved: then, not always, its image alone is confirmed, and the other pins are given up.
Saved(n, k, messages) ==
    /\ draft' = k
    /\ \/ Confirm(device.confirmed \cup Asked(k)) /\ sent' = messages
       \/ Confirm(Asked(k)) /\ (sent' = messages \/ sent' = messages \cup {Message(n, k, TRUE)})

\* The owner edits: an image that is not confirmed as pinned is pinned before the draft is saved.
SaveDraft ==
    LET n == device.revision + 1
    IN  /\ ~device.waits /\ n <= MaxRevision
        /\ \E k \in 0..made :
             IF Asked(k) \subseteq device.confirmed
             THEN /\ draft' = k
                  /\ \E c \in {device.confirmed, Asked(k)} :
                       /\ device' = [device EXCEPT !.revision = n, !.confirmed = c]
                       /\ \/ sent' = sent
                          \/ c = Asked(k) /\ sent' = sent \cup {Message(n, k, TRUE)}
             ELSE /\ device' = [device EXCEPT !.revision = n, !.waits = TRUE, !.image = k]
                  /\ sent' = sent \cup {Message(n, k, FALSE)} /\ UNCHANGED draft
        /\ UNCHANGED <<rows, stored, made, aged, page, work>>

\* No answer, or an error: the draft is not saved, the request may still arrive.
GivesUp ==
    /\ device.waits
    /\ device' = [device EXCEPT !.waits = FALSE, !.image = 0]
    /\ UNCHANGED <<rows, stored, made, aged, page, draft, sent, work>>

-------------------------------------------------------------------------------
(***************************************************************************)
(* protectDraft.                                                           *)
(***************************************************************************)
StartProtect(r) ==
    /\ work[r].pc = "idle"
    /\ \E m \in sent :
         /\ Becomes(r, [Idle EXCEPT !.pc = "review", !.job = IF m.replace THEN "replace" ELSE "add",
                                    !.image = m.image, !.revision = m.revision])
         /\ sent' = sent \ {m}
    /\ UNCHANGED <<rows, stored, made, aged, page, draft, device>>

\* The references of this draft that are not newer than the request, its own one excepted.
Obsolete(r) ==
    {p \in Images \X Revisions : p[2] \in rows[p[1]].drafts /\ p[2] <= work[r].revision
                                 /\ p # <<work[r].image, work[r].revision>>}
Review(r) ==
    LET k == work[r].image
        old == IF work[r].job = "replace" THEN Obsolete(r) ELSE {}
    IN  /\ work[r].pc = "review"
        /\ IF k = 0 THEN Becomes(r, [work[r] EXCEPT !.pc = "release", !.old = old])
           ELSE IF DraftPinnable(k, work[r].revision) THEN Becomes(r, [work[r] EXCEPT !.pc = "add", !.old = old])
           ELSE Ends(r)
        /\ UNCHANGED <<rows, stored, made, aged, page, Device>>

\* The reference is added before any is given up.
Add(r) ==
    LET k == work[r].image
        n == work[r].revision
        Awaited == device.waits /\ device.revision = n /\ work[r].job = "add"
    IN  /\ work[r].pc = "add"
        /\ IF DraftPinnable(k, n)
           THEN /\ PinDraft(k, n)
                /\ IF work[r].job = "replace" THEN Goes(r, "release") ELSE Ends(r)
                /\ \/ Awaited /\ Saved(n, k, sent)
                   \/ UNCHANGED Device
           ELSE UNCHANGED <<rows, Device>> /\ Ends(r)
        /\ UNCHANGED <<stored, made, aged, page>>

Release(r) ==
    /\ work[r].pc = "release"
    /\ IF work[r].old = {} THEN Ends(r) /\ UNCHANGED rows
       ELSE \E p \in work[r].old :
              /\ rows' = IF Pinnable(p[1]) THEN [rows EXCEPT ![p[1]].drafts = @ \ {p[2]}] ELSE rows
              /\ Becomes(r, [work[r] EXCEPT !.old = @ \ {p}])
    /\ UNCHANGED <<stored, made, aged, page, Device>>

-------------------------------------------------------------------------------
Step(r) ==
    \/ List(r) \/ Examine(r) \/ Claim(r) \/ Verify(r) \/ Cancel(r) \/ Erase(r) \/ Drop(r) \/ Pruned(r)
    \/ StartUpload(r) \/ Save(r)
    \/ StartPublish(r) \/ Validate(r) \/ Pin(r) \/ Write(r) \/ Unpin(r) \/ Fails(r)
    \/ StartProtect(r) \/ Review(r) \/ Add(r) \/ Release(r)

Next ==
    \/ \E r \in Requests : Step(r)
    \/ Ages \/ SaveDraft \/ GivesUp

Spec == Init /\ [][Next]_vars

-------------------------------------------------------------------------------
\* The bytes of an image that the page names, or the draft last saved on the device, are never deleted:
\* whichever process prunes, and however late an answer, a request or a release arrives.
KeptImagesStay == {page, draft} \ {0} \subseteq stored
===============================================================================
