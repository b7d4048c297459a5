------------------------------ MODULE Kept_proofs ------------------------------
(***************************************************************************)
(* What an owner has and does not lose. For any number of images, pins,    *)
(* revisions and requests (LinkInBioImages): what the page or the saved    *)
(* draft shows keeps its bytes. For any number of owners, packs, old       *)
(* products, requests and changes at the provider (AddonPurchases, named   *)
(* Bought here): a pack counts for one owner until it is refunded. MCKept  *)
(* names both; its constants have any value here.                          *)
(***************************************************************************)
EXTENDS MCKept, FiniteSetTheorems, TLAPS

\* A row, with any number of forgotten pins.
ARow == [drafts : SUBSET Revisions, pins : SUBSET Requests, left : Nat, claimed : BOOLEAN]
Device3 == [revision : 0..MaxRevision, confirmed : SUBSET Images, waits : BOOLEAN, image : Names]
\* A request of the app that is being answered names a revision, and pins an image.
Asks(w) == (w.pc \in {"review", "add"} => w.revision \in Revisions) /\ (w.pc = "add" => w.image # 0)
AWork == {w \in Work : Asks(w)}

\* Types.
Shape ==
    /\ rows \in [Images -> ARow] /\ stored \subseteq Images
    /\ made \in Names /\ aged \in 0..made /\ page \in 0..made /\ draft \in 0..made
    /\ device \in Device3 /\ sent \subseteq Messages /\ work \in [Requests -> AWork]

\* A row that nobody deletes has its bytes.
RowOK(k) ==
    /\ rows[k].claimed => rows[k].drafts = {} /\ rows[k].pins = {} /\ rows[k].left = 0
    /\ ~rows[k].claimed => k \in stored /\ k <= made
    /\ References(k) <= MaxReferences
RowsInv == \A k \in Images : RowOK(k)

\* One request at most deletes an image, and none the one of the page.
Holding == {"verify", "cancel", "erase", "drop"}
Held(w, k) == w.pc \in Holding /\ k = Max(w.todo)
Holds(r, k) ==
    /\ rows[k].claimed /\ k <= made
    /\ \A s \in Requests \ {r} : ~Held(work[s], k)
    /\ work[r].pc \in {"verify", "cancel"} => k \in stored
    /\ work[r].pc \in {"erase", "drop"} => k # page
HoldInv == \A r \in Requests : \A k \in Images : Held(work[r], k) => Holds(r, k)

\* What a publication is about to name, it pins.
WriteInv == \A r \in Requests : work[r].pc = "write" /\ work[r].image # 0 => r \in rows[work[r].image].pins

\* What is asked to replace all older pins is of an earlier revision than an answer that is awaited.
Before(n) == n <= device.revision /\ (device.waits => n < device.revision)
Replacing(w) ==
    /\ w.job = "replace" => /\ Before(w.revision)
                            /\ \A p \in w.old : p[2] <= w.revision /\ p # <<w.image, w.revision>>
    /\ w.job # "replace" => w.old = {}
ReplaceInv ==
    /\ \A m \in sent : m.replace => Before(m.revision)
    /\ \A r \in Requests : Replacing(work[r])

\* A pin of a confirmed image that no replacement gives up.
SentBefore(m, k, n) == m.replace /\ m.image # k => m.revision < n
WorkBefore(w, k, n) ==
    w.job = "replace" => /\ w.image # k => w.revision < n
                         /\ w.image = k /\ w.pc = "release" => w.revision <= n
Rests(k, n) ==
    /\ \A m \in sent : SentBefore(m, k, n)
    /\ \A r \in Requests : WorkBefore(work[r], k, n)
DraftInv ==
    /\ draft # 0 => draft \in device.confirmed
    /\ \A k \in device.confirmed : \E n \in rows[k].drafts : Rests(k, n)

ImagesInv == Shape /\ RowsInv /\ HoldInv /\ WriteInv /\ (page # 0 => page \in stored) /\ ReplaceInv /\ DraftInv

---------------------------------------------------------------------------------
(***************************************************************************)
(* What is counted, and what a request becomes.                            *)
(***************************************************************************)
LEMMA Numbered == MaxImages \in Nat /\ MaxRevision \in Nat /\ MaxReferences \in Nat /\ Limit \in Nat
  BY ImagesAssumption DEF ImagesAssumption

\* The references of an image, counted.
LEMMA Counted ==
  ASSUME NEW row \in ARow
  PROVE  /\ IsFiniteSet(row.drafts) /\ IsFiniteSet(row.pins)
         /\ Cardinality(row.drafts) \in Nat /\ Cardinality(row.pins) \in Nat /\ row.left \in Nat
         /\ Cardinality(row.drafts) = 0 <=> row.drafts = {}
         /\ Cardinality(row.pins) = 0 <=> row.pins = {}
<1>1. IsFiniteSet(Revisions) /\ IsFiniteSet(Requests)
  BY Numbered, FS_Interval, ImagesAssumption DEF ImagesAssumption, Revisions
<1>2. IsFiniteSet(row.drafts) /\ IsFiniteSet(row.pins)
  BY <1>1, FS_Subset DEF ARow
<1>. QED BY <1>2, FS_CardinalityType, FS_EmptySet DEF ARow

LEMMA Unreferenced ==
  ASSUME Shape, NEW k \in Images, References(k) = 0
  PROVE  rows[k].drafts = {} /\ rows[k].pins = {} /\ rows[k].left = 0
<1>1. rows[k] \in ARow
  BY DEF Shape
<1>2. /\ Cardinality(rows[k].drafts) \in Nat /\ Cardinality(rows[k].pins) \in Nat /\ rows[k].left \in Nat
      /\ Cardinality(rows[k].drafts) = 0 <=> rows[k].drafts = {}
      /\ Cardinality(rows[k].pins) = 0 <=> rows[k].pins = {}
  BY <1>1, Counted
<1>3. Cardinality(rows[k].drafts) = 0 /\ Cardinality(rows[k].pins) = 0 /\ rows[k].left = 0
  BY <1>2 DEF References
<1>. QED BY <1>2, <1>3

LEMMA NoReferences ==
  /\ NoRow \in ARow /\ [NoRow EXCEPT !.claimed = FALSE] \in ARow
  /\ NoRow.claimed /\ NoRow.drafts = {} /\ NoRow.pins = {} /\ NoRow.left = 0
  /\ ~[NoRow EXCEPT !.claimed = FALSE].claimed /\ [NoRow EXCEPT !.claimed = FALSE].drafts = {}
  /\ [NoRow EXCEPT !.claimed = FALSE].pins = {} /\ [NoRow EXCEPT !.claimed = FALSE].left = 0
  /\ Cardinality({}) = 0
  BY FS_EmptySet DEF NoRow, ARow

LEMMA Named == Images \subseteq Names /\ 0 \in Names /\ \A n \in Names : n # 0 => n \in Images
  BY Numbered DEF Images, Names

LEMMA Idling == /\ Idle \in AWork /\ Idle.pc = "idle" /\ Idle.job = "none" /\ Idle.old = {} /\ Idle.image = 0
                /\ ~Idle.pc \in Holding
  BY Numbered, Named DEF Idle, AWork, Asks, Work, Holding

LEMMA Becoming ==
  ASSUME Shape, NEW r \in Requests, NEW new \in AWork, Becomes(r, new)
  PROVE  /\ work' \in [Requests -> AWork] /\ work'[r] = new
         /\ \A s \in Requests \ {r} : work'[s] = work[s]
  BY DEF Becomes, Shape

LEMMA Going ==
  ASSUME Shape, NEW r \in Requests,
         NEW s \in Pruning \cup {"idle", "validate", "pin", "write", "unpin", "save", "release"}
  PROVE  LET new == [work[r] EXCEPT !.pc = s]
         IN  /\ new \in AWork /\ new.pc = s /\ new.job = work[r].job /\ new.image = work[r].image
             /\ new.revision = work[r].revision /\ new.todo = work[r].todo /\ new.old = work[r].old
<1> DEFINE new == [work[r] EXCEPT !.pc = s]
<1>1. work[r] \in Work
  BY DEF Shape, AWork
<1>2. /\ new \in Work /\ new.pc = s /\ new.job = work[r].job /\ new.image = work[r].image
      /\ new.revision = work[r].revision /\ new.todo = work[r].todo /\ new.old = work[r].old
  BY <1>1 DEF Work
<1>3. s \notin {"review", "add"}
  BY DEF Pruning
<1>. HIDE DEF new
<1>4. new \in AWork
  BY <1>2, <1>3 DEF AWork, Asks
<1>. QED BY <1>2, <1>4 DEF new

\* A step of one request that leaves the page, the bytes and the claims as they are.
RowsMild(r) ==
    /\ rows' \in [Images -> ARow]
    /\ \A k \in Images : /\ rows'[k].claimed = rows[k].claimed
                         /\ rows[k].claimed => rows'[k] = rows[k]
                         /\ References(k)' <= MaxReferences
                         /\ rows[k].pins \ {r} \subseteq rows'[k].pins
Mild(r, new) ==
    /\ Becomes(r, new) /\ UNCHANGED <<stored, made, page>> /\ RowsMild(r)
    /\ new.pc = "write" /\ new.image # 0 => r \in rows'[new.image].pins
    /\ \A k \in Images : Held(new, k) =>
          /\ Held(work[r], k)
          /\ new.pc \in {"verify", "cancel"} => work[r].pc \in {"verify", "cancel"}
          /\ new.pc \in {"erase", "drop"} => k # page

LEMMA MildKeeps ==
  ASSUME ImagesInv, NEW r \in Requests, NEW new \in AWork, Mild(r, new)
  PROVE  RowsInv' /\ HoldInv' /\ WriteInv' /\ (page # 0 => page \in stored)'
<1>1. /\ work'[r] = new /\ \A s \in Requests \ {r} : work'[s] = work[s]
      /\ \A s \in Requests : work[s] \in AWork
  BY Becoming DEF ImagesInv, Mild, Shape
<1>2. RowsInv'
  BY DEF ImagesInv, RowsInv, RowOK, Mild, RowsMild
<1>3. \A s \in Requests : \A k \in Images : Held(work'[s], k) => Held(work[s], k)
  BY <1>1 DEF Mild
<1>4. HoldInv'
  <2> SUFFICES ASSUME NEW s \in Requests, NEW k \in Images, Held(work'[s], k) PROVE Holds(s, k)'
    BY DEF HoldInv
  <2>1. Held(work[s], k) /\ Holds(s, k)
    BY <1>3 DEF ImagesInv, HoldInv
  <2>2. \A q \in Requests \ {s} : ~Held(work'[q], k)
    BY <1>3, <2>1 DEF Holds
  <2>3. CASE s = r
    BY <1>1, <2>1, <2>2, <2>3 DEF Holds, Mild, RowsMild
  <2>4. CASE s # r
    BY <1>1, <2>1, <2>2, <2>4 DEF Holds, Mild, RowsMild
  <2>. QED BY <2>3, <2>4
<1>5. WriteInv'
  <2> SUFFICES ASSUME NEW s \in Requests, work'[s].pc = "write", work'[s].image # 0
               PROVE  s \in rows'[work'[s].image].pins
    BY DEF WriteInv
  <2>1. CASE s = r
    BY <1>1, <2>1 DEF Mild
  <2>2. CASE s # r
    <3>1. work'[s] = work[s] /\ work[s].image \in Images /\ s \in rows[work[s].image].pins
      BY <1>1, <2>2, Named DEF ImagesInv, WriteInv, AWork, Asks, Work
    <3>. QED BY <2>2, <3>1 DEF Mild, RowsMild
  <2>. QED BY <2>1, <2>2
<1>. QED BY <1>2, <1>4, <1>5 DEF ImagesInv, Mild

\* The rows as they are.
LEMMA Resting ==
  ASSUME ImagesInv, NEW r \in Requests,
         NEW new \in AWork, Becomes(r, new), UNCHANGED <<rows, stored, made, page>>,
         new.pc = "write" => new.image = 0,
         new.pc \notin Holding \/ (new.todo = work[r].todo /\ work[r].pc \in {"verify"}
                                   /\ (new.pc = "cancel" \/ (new.pc = "erase" /\ page # Max(work[r].todo))))
  PROVE  Mild(r, new)
<1>1. \A k \in Images : References(k)' = References(k)
  BY DEF References
<1>2. \A k \in Images : References(k) <= MaxReferences /\ rows[k].pins \ {r} \subseteq rows[k].pins
  BY DEF ImagesInv, RowsInv, RowOK
<1>. QED BY <1>1, <1>2 DEF Mild, RowsMild, Held, Holding, ImagesInv, Shape

\* What the drafts rest on is left alone: the device, what it sent, the pins of drafts.
Apart ==
    /\ UNCHANGED Device
    /\ \A k \in Images : rows'[k].drafts = rows[k].drafts
    /\ \A r \in Requests :
          \/ work'[r].job # "replace" /\ work'[r].old = {}
          \/ /\ work'[r].job = work[r].job /\ work'[r].image = work[r].image /\ work'[r].revision = work[r].revision
             /\ work'[r].old = work[r].old /\ (work'[r].pc = "release" => work[r].pc = "release")

LEMMA ApartKeeps ==
  ASSUME ImagesInv, Apart PROVE ReplaceInv' /\ DraftInv'
<1>1. ReplaceInv'
  <2>1. \A n : Before(n)' <=> Before(n)
    BY DEF Apart, Device, Before
  <2>2. \A r \in Requests : Replacing(work[r])'
    BY <2>1 DEF ImagesInv, ReplaceInv, Replacing, Apart
  <2>. QED BY <2>1, <2>2 DEF ImagesInv, ReplaceInv, Apart, Device
<1>2. ASSUME NEW k \in Images, NEW n \in Revisions, Rests(k, n) PROVE Rests(k, n)'
  BY <1>2 DEF Rests, WorkBefore, Apart, Device
<1>3. device.confirmed \subseteq Images /\ \A k \in Images : rows[k].drafts \subseteq Revisions
  BY DEF ImagesInv, Shape, Device3, ARow
<1>. QED BY <1>1, <1>2, <1>3 DEF ImagesInv, DraftInv, Apart, Device
---------------------------------------------------------------------------------
(***************************************************************************)
(* The first state, and requests that only move on.                        *)
(***************************************************************************)
LEMMA ImagesBegin == Init => ImagesInv
<1> SUFFICES ASSUME Init PROVE ImagesInv
  OBVIOUS
<1>1. /\ \A k \in Images : rows[k] = NoRow
      /\ \A r \in Requests : work[r] = Idle
  BY DEF Init
<1>2. Shape
  <2>1. rows \in [Images -> ARow] /\ work \in [Requests -> AWork]
    BY NoReferences, Idling DEF Init
  <2>2. device \in Device3
    BY Numbered, Named DEF Init, Device3
  <2>. QED BY <2>1, <2>2, Numbered, Named DEF Init, Shape
<1>3. RowsInv
  BY <1>1, NoReferences, Numbered DEF RowsInv, RowOK, References
<1>4. HoldInv /\ WriteInv
  BY <1>1, Idling DEF HoldInv, WriteInv, Held
<1>5. ReplaceInv /\ DraftInv
  BY <1>1, Idling DEF Init, ReplaceInv, Replacing, DraftInv
<1>. QED BY <1>2, <1>3, <1>4, <1>5 DEF Init, ImagesInv

\* A request moves on, and nothing else does.
LEMMA MovesKeep ==
  ASSUME ImagesInv, NEW r \in Requests, NEW new \in AWork, Becomes(r, new), Apart, Mild(r, new), aged' = aged
  PROVE  ImagesInv'
<1>1. work' \in [Requests -> AWork]
  BY Becoming DEF ImagesInv
<1>2. Shape'
  BY <1>1 DEF ImagesInv, Shape, Mild, RowsMild, Apart, Device
<1>. QED BY <1>2, MildKeeps, ApartKeeps DEF ImagesInv

\* It reads, or waits for its next turn.
LEMMA ReadsKeep ==
  ASSUME ImagesInv, NEW r \in Requests, NEW new \in AWork, Becomes(r, new),
         UNCHANGED <<rows, stored, made, aged, page, Device>>,
         new.pc = "write" => new.image = 0,
         new.pc \notin Holding \/ (new.todo = work[r].todo /\ work[r].pc = "verify"
                                   /\ (new.pc = "cancel" \/ (new.pc = "erase" /\ page # Max(work[r].todo)))),
         \/ new.job # "replace" /\ new.old = {}
         \/ new.job = work[r].job /\ new.image = work[r].image /\ new.revision = work[r].revision
            /\ new.old = work[r].old /\ new.pc # "release"
  PROVE  ImagesInv'
<1>1. Mild(r, new)
  BY Resting
<1>2. \A s \in Requests : work'[s] = IF s = r THEN new ELSE work[s]
  BY Becoming DEF ImagesInv
<1>3. Apart
  BY <1>2 DEF Apart, Device
<1>. QED BY <1>1, <1>3, MovesKeep

LEMMA GoesKeeps ==
  ASSUME ImagesInv, NEW r \in Requests,
         NEW s \in {"validate", "pin", "next", "claim", "list", "save", "idle"}, Goes(r, s),
         UNCHANGED <<rows, stored, made, aged, page, Device>>
  PROVE  ImagesInv'
<1> DEFINE new == [work[r] EXCEPT !.pc = s]
<1>1. /\ new \in AWork /\ new.pc = s /\ new.job = work[r].job /\ new.image = work[r].image
      /\ new.revision = work[r].revision /\ new.old = work[r].old
  BY Going DEF ImagesInv, Pruning
<1>2. new.pc \notin Holding /\ new.pc # "write" /\ new.pc # "release"
  BY <1>1 DEF Holding
<1>. QED BY <1>1, <1>2, ReadsKeep DEF Goes

LEMMA EndsKeeps ==
  ASSUME ImagesInv, NEW r \in Requests, Ends(r), UNCHANGED <<rows, stored, made, aged, page, Device>>
  PROVE  ImagesInv'
  BY ReadsKeep, Idling DEF Ends

LEMMA SkipKeeps ==
  ASSUME ImagesInv, NEW r \in Requests, Skip(r), UNCHANGED <<rows, stored, made, aged, page, Device>>
  PROVE  ImagesInv'
<1> DEFINE new == [work[r] EXCEPT !.pc = "next", !.todo = @ \ {On(r)}]
<1>1. work[r] \in AWork
  BY DEF ImagesInv, Shape
<1>2. /\ new \in AWork /\ new.pc = "next" /\ new.job = work[r].job /\ new.image = work[r].image
      /\ new.revision = work[r].revision /\ new.old = work[r].old
  BY <1>1 DEF AWork, Asks, Work, Pruning
<1>3. new.pc \notin Holding /\ new.pc # "write" /\ new.pc # "release"
  BY <1>2 DEF Holding
<1>. QED BY <1>2, <1>3, ReadsKeep DEF Skip

LEMMA StartsKeep ==
  ASSUME ImagesInv, NEW r \in Requests, NEW job \in {"publish", "update", "upload"}, NEW k \in 0..made,
         NEW pc \in {"list", "write", "validate"}, pc = "write" => k = 0, Starts(r, job, k, pc),
         UNCHANGED <<rows, stored, made, aged, page, Device>>
  PROVE  ImagesInv'
<1> DEFINE new == [Idle EXCEPT !.pc = pc, !.job = job, !.image = k]
<1>1. k \in Names
  BY Numbered DEF ImagesInv, Shape, Names
<1>2. /\ new \in AWork /\ new.pc = pc /\ new.job = job /\ new.image = k /\ new.old = {}
  BY <1>1, Idling DEF AWork, Asks, Work, Pruning, Idle
<1>3. new.pc \notin Holding
  BY <1>2 DEF Holding
<1>. QED BY <1>2, <1>3, ReadsKeep DEF Starts
---------------------------------------------------------------------------------
(***************************************************************************)
(* Pruning.                                                                *)
(***************************************************************************)
LEMMA ListKeeps == ASSUME ImagesInv, NEW r \in Requests, List(r) PROVE ImagesInv'
<1> DEFINE new == [work[r] EXCEPT !.pc = "next", !.todo = Candidates]
<1>1. work[r] \in AWork /\ Candidates \subseteq Images
  BY Numbered DEF ImagesInv, Shape, Candidates, Images, Names
<1>2. /\ new \in AWork /\ new.pc = "next" /\ new.job = work[r].job /\ new.image = work[r].image
      /\ new.revision = work[r].revision /\ new.old = work[r].old
  BY <1>1 DEF AWork, Asks, Work, Pruning
<1>3. new.pc \notin Holding
  BY <1>2 DEF Holding
<1>. QED BY <1>2, <1>3, ReadsKeep DEF List

LEMMA ExamineKeeps == ASSUME ImagesInv, NEW r \in Requests, Examine(r) PROVE ImagesInv'
<1>1. UNCHANGED <<rows, stored, made, aged, page, Device>> /\ (Skip(r) \/ Goes(r, "claim"))
  BY DEF Examine
<1>2. CASE Skip(r)
  BY <1>1, <1>2, SkipKeeps
<1>3. CASE Goes(r, "claim")
  BY <1>1, <1>3, GoesKeeps
<1>. QED BY <1>1, <1>2, <1>3

LEMMA VerifyKeeps == ASSUME ImagesInv, NEW r \in Requests, Verify(r) PROVE ImagesInv'
<1>1. PICK s \in {"cancel", "erase"} : Goes(r, s) /\ (s = "erase" => page # Max(work[r].todo))
  BY DEF Verify, StillNamed, On
<1> DEFINE new == [work[r] EXCEPT !.pc = s]
<1>2. /\ new \in AWork /\ new.pc = s /\ new.job = work[r].job /\ new.image = work[r].image
      /\ new.revision = work[r].revision /\ new.old = work[r].old /\ new.todo = work[r].todo
  BY Going DEF ImagesInv, Pruning
<1>3. work[r].pc = "verify" /\ Becomes(r, new) /\ UNCHANGED <<rows, stored, made, aged, page, Device>>
  BY <1>1 DEF Verify, Goes
<1>. QED BY <1>1, <1>2, <1>3, ReadsKeep

LEMMA PrunedKeeps == ASSUME ImagesInv, NEW r \in Requests, Pruned(r) PROVE ImagesInv'
  BY GoesKeeps, EndsKeeps DEF Pruned

\* The steps of a deletion, of the image k.
LEMMA DeletionKeeps ==
  ASSUME ImagesInv, NEW r \in Requests, NEW k \in Images, k = Max(work[r].todo),
         NEW new \in AWork, Becomes(r, new),
         UNCHANGED <<made, aged, page, Device>>, new.pc # "write", new.pc # "release", new.job = work[r].job,
         new.image = work[r].image, new.revision = work[r].revision, new.old = work[r].old,
         stored' \in {stored, stored \ {k}},
         \A j \in Images \ {k} : rows'[j] = rows[j] /\ ~Held(new, j),
         rows' \in [Images -> ARow], rows[k].drafts = {}, rows'[k].drafts = {}, rows'[k].pins = {}, rows'[k].left = 0,
         ~rows'[k].claimed => k \in stored' /\ k <= made,
         Held(new, k) => rows'[k].claimed /\ k <= made /\ (new.pc \in {"verify", "cancel"} => k \in stored')
                         /\ (new.pc \in {"erase", "drop"} => k # page),
         stored' # stored => k # page,
         rows[k].pins = {}, rows[k].claimed => Held(work[r], k)
  PROVE  ImagesInv'
<1>1. \A s \in Requests : work'[s] = IF s = r THEN new ELSE work[s]
  BY Becoming DEF ImagesInv
<1>2. \A s \in Requests \ {r} : ~Held(work[s], k)
  BY DEF ImagesInv, HoldInv, Holds
<1>3. Shape'
  <2>1. work' \in [Requests -> AWork]
    BY Becoming DEF ImagesInv
  <2>. QED BY <2>1 DEF ImagesInv, Shape, Device
<1>4. RowsInv'
  <2>1. References(k)' = 0
    BY NoReferences DEF References
  <2>2. \A j \in Images \ {k} : References(j)' = References(j)
    BY DEF References
  <2>3. RowOK(k)'
    BY <2>1, Numbered DEF RowOK
  <2>4. \A j \in Images \ {k} : RowOK(j)'
    BY <2>2 DEF ImagesInv, RowsInv, RowOK
  <2>. QED BY <2>3, <2>4 DEF RowsInv
<1>5. HoldInv'
  <2> SUFFICES ASSUME NEW s \in Requests, NEW j \in Images, Held(work'[s], j) PROVE Holds(s, j)'
    BY DEF HoldInv
  <2>1. CASE j = k
    <3>1. s = r
      BY <1>1, <1>2, <2>1
    <3>. QED BY <1>1, <1>2, <2>1, <3>1 DEF Holds
  <2>2. CASE j # k
    <3>1. s # r /\ work'[s] = work[s]
      BY <1>1, <2>2
    <3>2. Held(work[s], j) /\ Holds(s, j)
      BY <3>1 DEF ImagesInv, HoldInv
    <3>3. \A q \in Requests \ {s} : ~Held(work'[q], j)
      BY <1>1, <2>2, <3>2 DEF Holds
    <3>. QED BY <2>2, <3>1, <3>2, <3>3 DEF Holds
  <2>. QED BY <2>1, <2>2
<1>6. WriteInv'
  <2> SUFFICES ASSUME NEW s \in Requests, work'[s].pc = "write", work'[s].image # 0
               PROVE  s \in rows'[work'[s].image].pins
    BY DEF WriteInv
  <2>1. s # r /\ work'[s] = work[s] /\ work[s] \in AWork
    BY <1>1 DEF ImagesInv, Shape
  <2>2. work[s].image \in Images /\ s \in rows[work[s].image].pins
    BY <2>1, Named DEF ImagesInv, WriteInv, AWork, Asks, Work
  <2>. QED BY <2>1, <2>2
<1>7. Apart
  BY <1>1 DEF Apart, Device
<1>8. (page # 0 => page \in stored)'
  BY DEF ImagesInv
<1>. QED BY <1>3, <1>4, <1>5, <1>6, <1>7, <1>8, ApartKeeps DEF ImagesInv

\* Its image may be none: then nothing is there to be deleted.
LEMMA NoDeletionKeeps ==
  ASSUME ImagesInv, NEW r \in Requests, Max(work[r].todo) \notin Images, NEW new \in AWork, Becomes(r, new),
         UNCHANGED <<rows, made, aged, page, Device>>, stored' = stored, new.todo = work[r].todo \/ new.pc \notin Holding,
         new.pc # "write", new.pc # "release", new.job = work[r].job, new.image = work[r].image,
         new.revision = work[r].revision, new.old = work[r].old
  PROVE  ImagesInv'
<1>1. \A s \in Requests : work'[s] = IF s = r THEN new ELSE work[s]
  BY Becoming DEF ImagesInv
<1>2. \A k \in Images : ~Held(new, k)
  BY DEF Held
<1>3. \A k \in Images : References(k)' = References(k)
  BY DEF References
<1>4. \A k \in Images : References(k) <= MaxReferences /\ rows[k].pins \ {r} \subseteq rows[k].pins
  BY DEF ImagesInv, RowsInv, RowOK
<1>5. Mild(r, new)
  BY <1>2, <1>3, <1>4 DEF Mild, RowsMild, ImagesInv, Shape
<1>6. Apart
  BY <1>1 DEF Apart, Device
<1>. QED BY <1>5, <1>6, MovesKeep

LEMMA Skipping ==
  ASSUME Shape, NEW r \in Requests
  PROVE  LET new == [work[r] EXCEPT !.pc = "next", !.todo = @ \ {On(r)}]
         IN  /\ new \in AWork /\ new.pc = "next" /\ new.job = work[r].job /\ new.image = work[r].image
             /\ new.revision = work[r].revision /\ new.old = work[r].old /\ new.pc \notin Holding
<1>1. work[r] \in AWork
  BY DEF Shape
<1>. QED BY <1>1 DEF AWork, Asks, Work, Pruning, Holding

LEMMA ClaimKeeps == ASSUME ImagesInv, NEW r \in Requests, Claim(r) PROVE ImagesInv'
<1> DEFINE k == On(r)
<1> DEFINE new == [work[r] EXCEPT !.pc = "verify"]
<1>1. UNCHANGED <<stored, made, aged, page, Device>>
  BY DEF Claim
<1>2. CASE ~Claimable(k)
  BY <1>1, <1>2, SkipKeeps DEF Claim
<1>3. CASE Claimable(k)
  <2>1. rows' = [rows EXCEPT ![k].claimed = TRUE] /\ Becomes(r, new)
    BY <1>3 DEF Claim, Claimed, Goes
  <2>2. /\ new \in AWork /\ new.pc = "verify" /\ new.job = work[r].job /\ new.image = work[r].image
        /\ new.revision = work[r].revision /\ new.old = work[r].old /\ new.todo = work[r].todo
    BY Going DEF ImagesInv, Pruning
  <2>3. CASE k \notin Images
    <3>1. rows' = rows
      BY <2>1, <2>3 DEF ImagesInv, Shape
    <3>. QED BY <1>1, <2>1, <2>2, <2>3, <3>1, NoDeletionKeeps DEF On
  <2>4. CASE k \in Images
    <3>1. ~rows[k].claimed /\ References(k) = 0
      BY <1>3 DEF Claimable, Pinnable
    <3>2. rows[k].drafts = {} /\ rows[k].pins = {} /\ rows[k].left = 0 /\ k \in stored /\ k <= made
      BY <2>4, <3>1, Unreferenced DEF ImagesInv, RowsInv, RowOK
    <3>3. /\ rows' \in [Images -> ARow] /\ \A j \in Images \ {k} : rows'[j] = rows[j]
          /\ rows'[k].claimed /\ rows'[k].drafts = {} /\ rows'[k].pins = {} /\ rows'[k].left = 0
      BY <2>1, <2>4, <3>2 DEF ImagesInv, Shape, ARow
    <3>4. \A j \in Images \ {k} : ~Held(new, j)
      BY <2>2 DEF Held, On
    <3>. HIDE DEF new
    <3>. QED BY <1>1, <2>1, <2>2, <2>4, <3>1, <3>2, <3>3, <3>4, DeletionKeeps DEF On
  <2>. QED BY <2>3, <2>4
<1>. QED BY <1>2, <1>3

LEMMA CancelKeeps == ASSUME ImagesInv, NEW r \in Requests, Cancel(r) PROVE ImagesInv'
<1> DEFINE k == On(r)
<1> DEFINE new == [work[r] EXCEPT !.pc = "next", !.todo = @ \ {On(r)}]
<1>1. /\ UNCHANGED <<stored, made, aged, page, Device>> /\ work[r].pc = "cancel"
      /\ rows' = [rows EXCEPT ![k].claimed = FALSE] /\ Becomes(r, new)
  BY DEF Cancel, Claimed, Skip
<1>2. /\ new \in AWork /\ new.pc = "next" /\ new.job = work[r].job /\ new.image = work[r].image
      /\ new.revision = work[r].revision /\ new.old = work[r].old /\ new.pc \notin Holding
  BY Skipping DEF ImagesInv
<1>. HIDE DEF new
<1>3. CASE k \notin Images
  <2>1. rows' = rows
    BY <1>1, <1>3 DEF ImagesInv, Shape
  <2>. QED BY <1>1, <1>2, <1>3, <2>1, NoDeletionKeeps DEF On
<1>4. CASE k \in Images
  <2>1. Held(work[r], k)
    BY <1>1 DEF Held, Holding, On
  <2>2. rows[k].claimed /\ k <= made /\ k \in stored /\ RowOK(k)
    BY <1>1, <1>4, <2>1 DEF ImagesInv, HoldInv, Holds, RowsInv
  <2>3. /\ rows' \in [Images -> ARow] /\ \A j \in Images \ {k} : rows'[j] = rows[j]
        /\ ~rows'[k].claimed /\ rows'[k].drafts = {} /\ rows'[k].pins = {} /\ rows'[k].left = 0
    BY <1>1, <1>4, <2>2 DEF ImagesInv, Shape, ARow, RowOK
  <2>4. rows[k].drafts = {} /\ rows[k].pins = {}
    BY <2>2 DEF RowOK
  <2>5. \A j \in Images : ~Held(new, j)
    BY <1>2 DEF Held
  <2>. QED BY <1>1, <1>2, <1>4, <2>1, <2>2, <2>3, <2>4, <2>5, DeletionKeeps DEF On
<1>. QED BY <1>3, <1>4

LEMMA EraseKeeps == ASSUME ImagesInv, NEW r \in Requests, Erase(r) PROVE ImagesInv'
<1> DEFINE k == On(r)
<1> DEFINE new == [work[r] EXCEPT !.pc = "drop"]
<1>1. /\ UNCHANGED <<rows, made, aged, page, Device>> /\ work[r].pc = "erase"
      /\ stored' = stored \ {k} /\ Becomes(r, new)
  BY DEF Erase, Goes
<1>2. /\ new \in AWork /\ new.pc = "drop" /\ new.job = work[r].job /\ new.image = work[r].image
      /\ new.revision = work[r].revision /\ new.old = work[r].old /\ new.todo = work[r].todo
  BY Going DEF ImagesInv, Pruning
<1>. HIDE DEF new
<1>3. CASE k \notin Images
  <2>1. stored' = stored
    BY <1>1, <1>3 DEF ImagesInv, Shape
  <2>. QED BY <1>1, <1>2, <1>3, <2>1, NoDeletionKeeps DEF On
<1>4. CASE k \in Images
  <2>1. Held(work[r], k)
    BY <1>1 DEF Held, Holding, On
  <2>2. rows[k].claimed /\ k <= made /\ k # page /\ RowOK(k)
    BY <1>1, <1>4, <2>1 DEF ImagesInv, HoldInv, Holds, RowsInv
  <2>3. rows[k].drafts = {} /\ rows[k].pins = {} /\ rows[k].left = 0
    BY <2>2 DEF RowOK
  <2>4. \A j \in Images \ {k} : ~Held(new, j)
    BY <1>2 DEF Held, On
  <2>5. rows' \in [Images -> ARow]
    BY <1>1 DEF ImagesInv, Shape
  <2>. QED BY <1>1, <1>2, <1>4, <2>1, <2>2, <2>3, <2>4, <2>5, DeletionKeeps DEF On
<1>. QED BY <1>3, <1>4

LEMMA DropKeeps == ASSUME ImagesInv, NEW r \in Requests, Drop(r) PROVE ImagesInv'
<1> DEFINE k == On(r)
<1> DEFINE new == [work[r] EXCEPT !.pc = "next", !.todo = @ \ {On(r)}]
<1>1. /\ UNCHANGED <<stored, made, aged, page, Device>> /\ work[r].pc = "drop"
      /\ rows' = [rows EXCEPT ![k] = NoRow] /\ Becomes(r, new)
  BY DEF Drop, Skip
<1>2. /\ new \in AWork /\ new.pc = "next" /\ new.job = work[r].job /\ new.image = work[r].image
      /\ new.revision = work[r].revision /\ new.old = work[r].old /\ new.pc \notin Holding
  BY Skipping DEF ImagesInv
<1>. HIDE DEF new
<1>3. CASE k \notin Images
  <2>1. rows' = rows
    BY <1>1, <1>3 DEF ImagesInv, Shape
  <2>. QED BY <1>1, <1>2, <1>3, <2>1, NoDeletionKeeps DEF On
<1>4. CASE k \in Images
  <2>1. Held(work[r], k)
    BY <1>1 DEF Held, Holding, On
  <2>2. rows[k].claimed /\ k <= made /\ RowOK(k)
    BY <1>1, <1>4, <2>1 DEF ImagesInv, HoldInv, Holds, RowsInv
  <2>3. /\ rows' \in [Images -> ARow] /\ \A j \in Images \ {k} : rows'[j] = rows[j]
        /\ rows'[k] = NoRow
    BY <1>1, <1>4, NoReferences DEF ImagesInv, Shape
  <2>4. rows[k].drafts = {} /\ rows[k].pins = {}
    BY <2>2 DEF RowOK
  <2>5. \A j \in Images : ~Held(new, j)
    BY <1>2 DEF Held
  <2>. QED BY <1>1, <1>2, <1>4, <2>1, <2>2, <2>3, <2>4, <2>5, NoReferences, DeletionKeeps DEF On
<1>. QED BY <1>3, <1>4

---------------------------------------------------------------------------------
(***************************************************************************)
(* Uploads.                                                                *)
(***************************************************************************)
LEMMA StartUploadKeeps == ASSUME ImagesInv, NEW r \in Requests, StartUpload(r) PROVE ImagesInv'
<1>1. 0 \in 0..made
  BY Numbered DEF ImagesInv, Shape, Names
<1>2. Starts(r, "upload", 0, "list") /\ UNCHANGED <<rows, stored, made, aged, page, Device>>
  BY DEF StartUpload
<1>. QED BY <1>1, <1>2, StartsKeep

LEMMA SaveKeeps == ASSUME ImagesInv, NEW r \in Requests, Save(r) PROVE ImagesInv'
<1>3. PICK k \in Nat : k = made + 1
  BY Numbered DEF ImagesInv, Shape, Names
<1>1. CASE Cardinality({j \in Images : Exists(j)}) >= Limit
  BY <1>1, EndsKeeps DEF Save
<1>2. CASE ~(Cardinality({j \in Images : Exists(j)}) >= Limit)
  <2>1. /\ made < MaxImages /\ made' = k /\ stored' = stored \cup {k} /\ UNCHANGED <<aged, page, Device>>
        /\ rows' = [rows EXCEPT ![k] = [NoRow EXCEPT !.claimed = FALSE]] /\ Becomes(r, Idle)
    BY <1>2, <1>3 DEF Save, Ends
  <2>2. made \in Nat /\ k \in Images /\ ~(k <= made)
    BY <1>3, <2>1, Numbered DEF ImagesInv, Shape, Names, Images
  <2>3. \A s \in Requests : work'[s] = IF s = r THEN Idle ELSE work[s]
    BY <2>1, Becoming, Idling DEF ImagesInv
  <2>4. /\ rows' \in [Images -> ARow] /\ \A j \in Images \ {k} : rows'[j] = rows[j]
        /\ ~rows'[k].claimed /\ rows'[k].drafts = {} /\ rows'[k].pins = {} /\ rows'[k].left = 0
    BY <2>1, <2>2, NoReferences DEF ImagesInv, Shape
  <2>5. rows[k].claimed /\ rows[k].drafts = {} /\ rows[k].pins = {}
    BY <2>2 DEF ImagesInv, RowsInv, RowOK
  <2>6. \A s \in Requests : ~Held(work[s], k)
    BY <2>2 DEF ImagesInv, HoldInv, Holds
  <2>7. Shape'
    <3>1. work' \in [Requests -> AWork]
      BY <2>1, Becoming, Idling DEF ImagesInv
    <3>2. made' \in Names /\ aged' \in 0..made' /\ page' \in 0..made' /\ draft' \in 0..made'
      BY <2>1, <2>2, Numbered DEF ImagesInv, Shape, Names, Images, Device
    <3>. QED BY <2>1, <2>2, <2>4, <3>1, <3>2 DEF ImagesInv, Shape, Device
  <2>8. RowsInv'
    <3>1. RowOK(k)'
      <4>1. References(k)' = 0
        BY <2>4, NoReferences DEF References
      <4>. QED BY <2>1, <2>2, <2>4, <4>1, Numbered DEF RowOK
    <3>2. ASSUME NEW j \in Images \ {k} PROVE RowOK(j)'
      <4>1. References(j)' = References(j) /\ rows'[j] = rows[j]
        BY <2>4 DEF References
      <4>2. RowOK(j) /\ j \in Nat
        BY Numbered DEF ImagesInv, RowsInv, Images
      <4>3. j \in stored => j \in stored'
        BY <2>1
      <4>4. j <= made => j <= made'
        BY <1>3, <2>1, <2>2, <4>2
      <4>. QED BY <4>1, <4>2, <4>3, <4>4 DEF RowOK
    <3>. QED BY <3>1, <3>2 DEF RowsInv
  <2>9. HoldInv'
    <3> SUFFICES ASSUME NEW s \in Requests, NEW j \in Images, Held(work'[s], j) PROVE Holds(s, j)'
      BY DEF HoldInv
    <3>1. s # r /\ work'[s] = work[s]
      BY <2>3, Idling DEF Held
    <3>2. Held(work[s], j) /\ Holds(s, j) /\ j # k /\ j \in Nat
      BY <2>6, <3>1, Numbered DEF ImagesInv, HoldInv, Images
    <3>3. \A q \in Requests \ {s} : ~Held(work'[q], j)
      BY <2>3, <3>2, Idling DEF Holds, Held
    <3>. QED BY <2>1, <2>2, <2>4, <3>1, <3>2, <3>3 DEF Holds
  <2>10. WriteInv'
    <3> SUFFICES ASSUME NEW s \in Requests, work'[s].pc = "write", work'[s].image # 0
                 PROVE  s \in rows'[work'[s].image].pins
      BY DEF WriteInv
    <3>1. s # r /\ work'[s] = work[s] /\ work[s] \in AWork
      BY <2>3, Idling DEF ImagesInv, Shape
    <3>2. work[s].image \in Images /\ s \in rows[work[s].image].pins
      BY <3>1, Named DEF ImagesInv, WriteInv, AWork, Asks, Work
    <3>. QED BY <2>4, <2>5, <3>1, <3>2
  <2>11. Apart
    BY <2>1, <2>3, <2>4, <2>5, Idling DEF Apart, Device
  <2>12. (page # 0 => page \in stored)'
    BY <2>1 DEF ImagesInv
  <2>. QED BY <2>7, <2>8, <2>9, <2>10, <2>11, <2>12, ApartKeeps DEF ImagesInv
<1>. QED BY <1>1, <1>2
-------------------------------------------------------------------------------
(***************************************************************************)
(* The pins.                                                               *)
(***************************************************************************)
LEMMA Counting ==
  ASSUME NEW row \in ARow, NEW r, NEW n
  PROVE  /\ Cardinality(row.pins \cup {r}) \in Nat /\ Cardinality(row.pins \cup {r}) <= Cardinality(row.pins) + 1
         /\ Cardinality(row.drafts \cup {n}) \in Nat
         /\ Cardinality(row.drafts \cup {n}) <= Cardinality(row.drafts) + 1
         /\ n \in row.drafts => Cardinality(row.drafts \cup {n}) = Cardinality(row.drafts)
         /\ Cardinality(row.pins \ {r}) \in Nat /\ Cardinality(row.pins \ {r}) <= Cardinality(row.pins)
         /\ r \in row.pins => Cardinality(row.pins \ {r}) + 1 = Cardinality(row.pins)
         /\ r \notin row.pins => row.pins \ {r} = row.pins
         /\ Cardinality(row.drafts \ {n}) \in Nat /\ Cardinality(row.drafts \ {n}) <= Cardinality(row.drafts)
<1>1. /\ IsFiniteSet(row.drafts) /\ IsFiniteSet(row.pins)
      /\ Cardinality(row.drafts) \in Nat /\ Cardinality(row.pins) \in Nat
  BY Counted
<1>2. /\ Cardinality(row.pins \cup {r}) \in Nat /\ Cardinality(row.pins \cup {r}) <= Cardinality(row.pins) + 1
  <2>1. IsFiniteSet(row.pins \cup {r}) /\ Cardinality(row.pins \cup {r}) = IF r \in row.pins THEN Cardinality(row.pins)
                                                                            ELSE Cardinality(row.pins) + 1
    BY <1>1, FS_AddElement
  <2>. QED BY <1>1, <2>1
<1>3. /\ Cardinality(row.drafts \cup {n}) \in Nat /\ Cardinality(row.drafts \cup {n}) <= Cardinality(row.drafts) + 1
      /\ n \in row.drafts => Cardinality(row.drafts \cup {n}) = Cardinality(row.drafts)
  <2>1. Cardinality(row.drafts \cup {n}) = IF n \in row.drafts THEN Cardinality(row.drafts)
                                           ELSE Cardinality(row.drafts) + 1
    BY <1>1, FS_AddElement
  <2>. QED BY <1>1, <2>1
<1>4. /\ Cardinality(row.pins \ {r}) \in Nat /\ Cardinality(row.pins \ {r}) <= Cardinality(row.pins)
      /\ r \in row.pins => Cardinality(row.pins \ {r}) + 1 = Cardinality(row.pins)
  <2>1. /\ IsFiniteSet(row.pins \ {r})
        /\ Cardinality(row.pins \ {r}) = IF r \in row.pins THEN Cardinality(row.pins) - 1 ELSE Cardinality(row.pins)
    BY <1>1, FS_RemoveElement
  <2>2. Cardinality(row.pins \ {r}) \in Nat
    BY <2>1, FS_CardinalityType
  <2>. QED BY <1>1, <2>1, <2>2
<1>5. Cardinality(row.drafts \ {n}) \in Nat /\ Cardinality(row.drafts \ {n}) <= Cardinality(row.drafts)
  <2>1. /\ IsFiniteSet(row.drafts \ {n})
        /\ Cardinality(row.drafts \ {n}) = IF n \in row.drafts THEN Cardinality(row.drafts) - 1
                                           ELSE Cardinality(row.drafts)
    BY <1>1, FS_RemoveElement
  <2>2. Cardinality(row.drafts \ {n}) \in Nat
    BY <2>1, FS_CardinalityType
  <2>. QED BY <1>1, <2>1, <2>2
<1>. QED BY <1>2, <1>3, <1>4, <1>5

Count(row) == Cardinality(row.drafts) + Cardinality(row.pins) + row.left

\* A publication pins.
LEMMA PinAdds ==
  ASSUME NEW row \in ARow, NEW r \in Requests, Count(row) < MaxReferences
  PROVE  LET new == [row EXCEPT !.pins = @ \cup {r}]
         IN  /\ new \in ARow /\ Count(new) <= MaxReferences /\ new.claimed = row.claimed
             /\ new.pins = row.pins \cup {r} /\ new.drafts = row.drafts /\ new.left = row.left
<1> DEFINE new == [row EXCEPT !.pins = @ \cup {r}]
<1>1. /\ new \in ARow /\ new.claimed = row.claimed
      /\ new.pins = row.pins \cup {r} /\ new.drafts = row.drafts /\ new.left = row.left
  BY DEF ARow
<1>2. /\ Cardinality(row.drafts) \in Nat /\ Cardinality(row.pins) \in Nat /\ row.left \in Nat
      /\ MaxReferences \in Nat
  BY Counted, Numbered
<1>3. Cardinality(new.pins) \in Nat /\ Cardinality(new.pins) <= Cardinality(row.pins) + 1
  BY <1>1, Counting
<1>4. Count(new) <= MaxReferences
  <2>. HIDE DEF new
  <2>. QED BY <1>1, <1>2, <1>3 DEF Count
<1>. QED BY <1>1, <1>4

\* A draft pins.
LEMMA DraftAdds ==
  ASSUME NEW row \in ARow, NEW n \in Revisions, Count(row) <= MaxReferences,
         n \in row.drafts \/ Count(row) < MaxReferences
  PROVE  LET new == [row EXCEPT !.drafts = @ \cup {n}]
         IN  /\ new \in ARow /\ Count(new) <= MaxReferences /\ new.claimed = row.claimed
             /\ new.drafts = row.drafts \cup {n} /\ new.pins = row.pins /\ new.left = row.left
<1> DEFINE new == [row EXCEPT !.drafts = @ \cup {n}]
<1>1. /\ new \in ARow /\ new.claimed = row.claimed
      /\ new.drafts = row.drafts \cup {n} /\ new.pins = row.pins /\ new.left = row.left
  BY DEF ARow
<1>2. /\ Cardinality(row.drafts) \in Nat /\ Cardinality(row.pins) \in Nat /\ row.left \in Nat
      /\ MaxReferences \in Nat
  BY Counted, Numbered
<1>3. /\ Cardinality(new.drafts) \in Nat /\ Cardinality(new.drafts) <= Cardinality(row.drafts) + 1
      /\ n \in row.drafts => Cardinality(new.drafts) = Cardinality(row.drafts)
  BY <1>1, Counting
<1>4. Count(new) <= MaxReferences
  <2>. HIDE DEF new
  <2>. QED BY <1>1, <1>2, <1>3 DEF Count
<1>. QED BY <1>1, <1>4

\* A publication gives its pin up.
LEMMA PinLeaves ==
  ASSUME NEW row \in ARow, NEW r \in Requests, Count(row) <= MaxReferences
  PROVE  LET new == [row EXCEPT !.pins = @ \ {r}]
         IN  /\ new \in ARow /\ Count(new) <= MaxReferences /\ new.claimed = row.claimed
             /\ new.pins = row.pins \ {r} /\ new.drafts = row.drafts /\ new.left = row.left
<1> DEFINE new == [row EXCEPT !.pins = @ \ {r}]
<1>1. /\ new \in ARow /\ new.claimed = row.claimed
      /\ new.pins = row.pins \ {r} /\ new.drafts = row.drafts /\ new.left = row.left
  BY DEF ARow
<1>2. /\ Cardinality(row.drafts) \in Nat /\ Cardinality(row.pins) \in Nat /\ row.left \in Nat
      /\ MaxReferences \in Nat
  BY Counted, Numbered
<1>3. Cardinality(new.pins) \in Nat /\ Cardinality(new.pins) <= Cardinality(row.pins)
  BY <1>1, Counting
<1>4. Count(new) <= MaxReferences
  <2>. HIDE DEF new
  <2>. QED BY <1>1, <1>2, <1>3 DEF Count
<1>. QED BY <1>1, <1>4

\* It is forgotten instead.
LEMMA PinIsForgotten ==
  ASSUME NEW row \in ARow, NEW r \in Requests, r \in row.pins, Count(row) <= MaxReferences
  PROVE  LET new == [row EXCEPT !.pins = @ \ {r}, !.left = @ + 1]
         IN  /\ new \in ARow /\ Count(new) <= MaxReferences /\ new.claimed = row.claimed
             /\ new.pins = row.pins \ {r} /\ new.drafts = row.drafts /\ new.left = row.left + 1
<1> DEFINE new == [row EXCEPT !.pins = @ \ {r}, !.left = @ + 1]
<1>1. /\ new \in ARow /\ new.claimed = row.claimed
      /\ new.pins = row.pins \ {r} /\ new.drafts = row.drafts /\ new.left = row.left + 1
  <2>1. row.left + 1 \in Nat /\ row.pins \ {r} \in SUBSET Requests
    BY DEF ARow
  <2>. QED BY <2>1 DEF ARow
<1>2. /\ Cardinality(row.drafts) \in Nat /\ Cardinality(row.pins) \in Nat /\ row.left \in Nat
      /\ MaxReferences \in Nat
  BY Counted, Numbered
<1>3. Cardinality(new.pins) \in Nat /\ Cardinality(new.pins) + 1 = Cardinality(row.pins)
  BY <1>1, Counting
<1>4. Count(new) <= MaxReferences
  <2>. HIDE DEF new
  <2>. QED BY <1>1, <1>2, <1>3 DEF Count
<1>. QED BY <1>1, <1>4

\* A draft gives a pin up.
LEMMA DraftLeaves ==
  ASSUME NEW row \in ARow, NEW n \in Revisions, Count(row) <= MaxReferences
  PROVE  LET new == [row EXCEPT !.drafts = @ \ {n}]
         IN  /\ new \in ARow /\ Count(new) <= MaxReferences /\ new.claimed = row.claimed
             /\ new.drafts = row.drafts \ {n} /\ new.pins = row.pins /\ new.left = row.left
<1> DEFINE new == [row EXCEPT !.drafts = @ \ {n}]
<1>1. /\ new \in ARow /\ new.claimed = row.claimed
      /\ new.drafts = row.drafts \ {n} /\ new.pins = row.pins /\ new.left = row.left
  BY DEF ARow
<1>2. /\ Cardinality(row.drafts) \in Nat /\ Cardinality(row.pins) \in Nat /\ row.left \in Nat
      /\ MaxReferences \in Nat
  BY Counted, Numbered
<1>3. Cardinality(new.drafts) \in Nat /\ Cardinality(new.drafts) <= Cardinality(row.drafts)
  BY <1>1, Counting
<1>4. Count(new) <= MaxReferences
  <2>. HIDE DEF new
  <2>. QED BY <1>1, <1>2, <1>3 DEF Count
<1>. QED BY <1>1, <1>4

LEMMA OneRow ==
  ASSUME ImagesInv, NEW r \in Requests, NEW k \in Images, ~rows[k].claimed,
         NEW row \in ARow, rows' = [rows EXCEPT ![k] = row],
         ~row.claimed, Count(row) <= MaxReferences, rows[k].pins \ {r} \subseteq row.pins
  PROVE  RowsMild(r)
<1>1. rows' \in [Images -> ARow] /\ rows'[k] = row /\ \A j \in Images \ {k} : rows'[j] = rows[j]
  BY DEF ImagesInv, Shape
<1>2. \A j \in Images : References(j) <= MaxReferences /\ References(j)' = Count(rows'[j])
                        /\ References(j) = Count(rows[j])
  BY DEF ImagesInv, RowsInv, RowOK, References, Count
<1>3. rows[k].claimed = row.claimed
  BY DEF ImagesInv, Shape, ARow
<1>. QED BY <1>1, <1>2, <1>3 DEF RowsMild

LEMMA NoRowChanges == ASSUME ImagesInv, rows' = rows, NEW r \in Requests PROVE RowsMild(r)
<1>1. \A j \in Images : References(j) <= MaxReferences /\ References(j)' = References(j)
  BY DEF ImagesInv, RowsInv, RowOK, References
<1>. QED BY <1>1 DEF ImagesInv, Shape, RowsMild

---------------------------------------------------------------------------------
(***************************************************************************)
(* Days and publications.                                                  *)
(***************************************************************************)
LEMMA AgesKeeps == ASSUME ImagesInv, Ages PROVE ImagesInv'
<1>1. UNCHANGED <<rows, stored, made, page, Device, work>> /\ aged' \in 0..made'
  BY Numbered DEF Ages, ImagesInv, Shape, Names
<1>2. Shape'
  BY <1>1 DEF ImagesInv, Shape, Device
<1>3. RowsInv' /\ HoldInv' /\ WriteInv'
  BY <1>1 DEF ImagesInv, RowsInv, RowOK, References, HoldInv, Holds, WriteInv
<1>4. Apart
  <2>1. \A r \in Requests : \/ work[r].job # "replace" /\ work[r].old = {}
                            \/ work[r].job = "replace"
    BY DEF ImagesInv, ReplaceInv, Replacing
  <2>. QED BY <1>1, <2>1 DEF Apart
<1>. QED BY <1>1, <1>2, <1>3, <1>4, ApartKeeps DEF ImagesInv

LEMMA StartPublishKeeps == ASSUME ImagesInv, NEW r \in Requests, StartPublish(r) PROVE ImagesInv'
<1>1. PICK job \in {"publish", "update"}, k \in 0..made, pc \in {"write", "validate"} :
         Starts(r, job, k, pc) /\ (pc = "write" => k = 0)
  <2>1. CASE \E k \in 0..made : Starts(r, "publish", k, IF k = 0 THEN "write" ELSE "validate")
    BY <2>1
  <2>2. CASE Starts(r, "update", page, IF page = 0 THEN "write" ELSE "validate")
    BY <2>2 DEF ImagesInv, Shape
  <2>. QED BY <2>1, <2>2 DEF StartPublish
<1>2. UNCHANGED <<rows, stored, made, aged, page, Device>>
  BY DEF StartPublish
<1>. QED BY <1>1, <1>2, StartsKeep

LEMMA ValidateKeeps == ASSUME ImagesInv, NEW r \in Requests, Validate(r) PROVE ImagesInv'
<1>1. UNCHANGED <<rows, stored, made, aged, page, Device>> /\ (Goes(r, "pin") \/ Ends(r))
  BY DEF Validate
<1>2. CASE Goes(r, "pin")
  BY <1>1, <1>2, GoesKeeps
<1>3. CASE Ends(r)
  BY <1>1, <1>3, EndsKeeps
<1>. QED BY <1>1, <1>2, <1>3

LEMMA PinKeeps == ASSUME ImagesInv, NEW r \in Requests, Pin(r) PROVE ImagesInv'
<1> DEFINE k == work[r].image
           new == [work[r] EXCEPT !.pc = "write"]
<1>1. UNCHANGED <<stored, made, aged, page, Device>> /\ work[r].pc = "pin"
  BY DEF Pin
<1>2. CASE ~(Pinnable(k) /\ Room(k))
  BY <1>1, <1>2, EndsKeeps DEF Pin
<1>3. CASE Pinnable(k) /\ Room(k)
  <2>1. rows' = [rows EXCEPT ![k].pins = @ \cup {r}] /\ Becomes(r, new)
    BY <1>3 DEF Pin, Goes
  <2>2. /\ new \in AWork /\ new.pc = "write" /\ new.job = work[r].job /\ new.image = k
        /\ new.revision = work[r].revision /\ new.old = work[r].old
    BY Going DEF ImagesInv, Pruning
  <2>3. k \in Names /\ work[r] \in AWork
    BY DEF ImagesInv, Shape, AWork, Asks, Work
  <2>. HIDE DEF new
  <2>4. CASE k = 0
    <3>1. rows' = rows
      BY <2>1, <2>4, Numbered DEF ImagesInv, Shape, Images
    <3>. QED BY <1>1, <2>1, <2>2, <2>4, <3>1, ReadsKeep DEF Holding
  <2>5. CASE k \in Images
    <3>1. rows[k] \in ARow /\ ~rows[k].claimed /\ Count(rows[k]) < MaxReferences
      BY <1>3, <2>5 DEF ImagesInv, Shape, Pinnable, Room, Count, References
    <3> DEFINE row == [rows[k] EXCEPT !.pins = @ \cup {r}]
    <3>2. /\ row \in ARow /\ Count(row) <= MaxReferences /\ row.claimed = rows[k].claimed
          /\ row.pins = rows[k].pins \cup {r} /\ row.drafts = rows[k].drafts
      BY <3>1, PinAdds
    <3>3. rows' = [rows EXCEPT ![k] = row]
      BY <2>1
    <3>. HIDE DEF row
    <3>4. RowsMild(r)
      BY <2>5, <3>1, <3>2, <3>3, OneRow
    <3>5. rows'[k] = row /\ \A j \in Images \ {k} : rows'[j] = rows[j]
      BY <2>5, <3>3 DEF ImagesInv, Shape
    <3>6. Mild(r, new)
      BY <1>1, <2>1, <2>2, <2>5, <3>2, <3>4, <3>5 DEF Mild, Held, Holding
    <3>7. \A s \in Requests : work'[s] = IF s = r THEN new ELSE work[s]
      BY <2>1, <2>2, Becoming DEF ImagesInv
    <3>8. Apart
      BY <1>1, <2>2, <3>2, <3>5, <3>7 DEF Apart
    <3>. QED BY <1>1, <2>1, <2>2, <3>6, <3>8, MovesKeep
  <2>. QED BY <2>3, <2>4, <2>5, Named
<1>. QED BY <1>2, <1>3

\* What is written is pinned: nobody deletes it.
LEMMA WriteKeeps == ASSUME ImagesInv, NEW r \in Requests, Write(r) PROVE ImagesInv'
<1> DEFINE new == [Idle EXCEPT !.pc = "unpin"]
<1>1. /\ UNCHANGED <<rows, stored, made, aged, Device>> /\ work[r].pc = "write" /\ Becomes(r, new)
      /\ page' \in {page, work[r].image}
  BY DEF Write
<1>2. /\ new \in AWork /\ new.pc = "unpin" /\ new.job = "none" /\ new.old = {}
  BY Idling DEF AWork, Asks, Work, Idle
<1>. HIDE DEF new
<1>3. \A s \in Requests : work'[s] = IF s = r THEN new ELSE work[s]
  BY <1>1, <1>2, Becoming DEF ImagesInv
<1>4. ASSUME page' # page, page' # 0
      PROVE  page' \in Images /\ page' \in stored /\ page' <= made /\ ~rows[page'].claimed
  <2>1. work[r].image \in Images /\ r \in rows[work[r].image].pins
    BY <1>1, <1>4, Named DEF ImagesInv, Shape, WriteInv, AWork, Asks, Work
  <2>. QED BY <1>1, <1>4, <2>1 DEF ImagesInv, RowsInv, RowOK
<1>5. Shape'
  <2>1. work' \in [Requests -> AWork]
    BY <1>1, <1>2, Becoming DEF ImagesInv
  <2>2. page' \in 0..made'
    BY <1>1, <1>4, Numbered DEF ImagesInv, Shape, Images, Names
  <2>. QED BY <1>1, <2>1, <2>2 DEF ImagesInv, Shape, Device
<1>6. RowsInv'
  BY <1>1 DEF ImagesInv, RowsInv, RowOK, References
<1>7. \A k \in Images : ~Held(new, k)
  BY <1>2 DEF Held, Holding
<1>8. HoldInv'
  <2> SUFFICES ASSUME NEW s \in Requests, NEW k \in Images, Held(work'[s], k) PROVE Holds(s, k)'
    BY DEF HoldInv
  <2>1. s # r /\ work'[s] = work[s] /\ Held(work[s], k) /\ Holds(s, k)
    BY <1>3, <1>7 DEF ImagesInv, HoldInv
  <2>2. \A q \in Requests \ {s} : ~Held(work'[q], k)
    BY <1>3, <1>7, <2>1 DEF Holds
  <2>3. work[s].pc \in {"erase", "drop"} => k # page'
    <3>1. CASE page' = page
      BY <2>1, <3>1 DEF Holds
    <3>2. CASE page' = 0
      BY <3>2, Numbered DEF Images
    <3>3. CASE page' # page /\ page' # 0
      BY <1>4, <2>1, <3>3 DEF Holds
    <3>. QED BY <3>1, <3>2, <3>3
  <2>. QED BY <1>1, <2>1, <2>2, <2>3 DEF Holds
<1>9. WriteInv'
  BY <1>1, <1>2, <1>3 DEF ImagesInv, WriteInv
<1>10. Apart
  <2>1. \A s \in Requests : work[s].job # "replace" => work[s].old = {}
    BY DEF ImagesInv, ReplaceInv, Replacing
  <2>. QED BY <1>1, <1>2, <1>3, <2>1 DEF Apart
<1>11. (page # 0 => page \in stored)'
  BY <1>1, <1>4 DEF ImagesInv
<1>. QED BY <1>5, <1>6, <1>8, <1>9, <1>10, <1>11, ApartKeeps DEF ImagesInv

LEMMA UnpinsAreMild ==
  ASSUME ImagesInv, NEW r \in Requests, rows' = Unpinned(r) \/ rows' = Forgotten(r)
  PROVE  RowsMild(r) /\ \A k \in Images : rows'[k].drafts = rows[k].drafts
<1>1. DOMAIN rows' = Images
  BY DEF Unpinned, Forgotten
<1>2. ASSUME NEW k \in Images
      PROVE  /\ rows'[k] \in ARow /\ rows'[k].claimed = rows[k].claimed /\ Count(rows'[k]) <= MaxReferences
             /\ rows'[k].drafts = rows[k].drafts /\ rows[k].pins \ {r} \subseteq rows'[k].pins
             /\ r \notin rows[k].pins => rows'[k] = rows[k]
  <2>1. rows[k] \in ARow /\ Count(rows[k]) <= MaxReferences
    BY DEF ImagesInv, Shape, RowsInv, RowOK, References, Count
  <2>2. CASE r \notin rows[k].pins
    <3>1. [rows[k] EXCEPT !.pins = @ \ {r}] = rows[k]
      <4>1. rows[k].pins \ {r} = rows[k].pins
        BY <2>2
      <4>. QED BY <2>1, <4>1 DEF ARow
    <3>2. rows'[k] = rows[k]
      BY <2>2, <3>1 DEF Unpinned, Forgotten
    <3>. QED BY <2>1, <3>2
  <2>3. CASE r \in rows[k].pins
    <3>1. rows'[k] = [rows[k] EXCEPT !.pins = @ \ {r}] \/ rows'[k] = [rows[k] EXCEPT !.pins = @ \ {r}, !.left = @ + 1]
      BY <2>3 DEF Unpinned, Forgotten
    <3>2. CASE rows'[k] = [rows[k] EXCEPT !.pins = @ \ {r}]
      BY <2>1, <2>3, <3>2, PinLeaves
    <3>3. CASE rows'[k] = [rows[k] EXCEPT !.pins = @ \ {r}, !.left = @ + 1]
      <4> DEFINE new == [rows[k] EXCEPT !.pins = @ \ {r}, !.left = @ + 1]
      <4>1. /\ new \in ARow /\ Count(new) <= MaxReferences /\ new.claimed = rows[k].claimed
            /\ new.pins = rows[k].pins \ {r} /\ new.drafts = rows[k].drafts
        BY <2>1, <2>3, PinIsForgotten
      <4>2. rows'[k] = new
        BY <3>3
      <4>. HIDE DEF new
      <4>. QED BY <2>3, <4>1, <4>2
    <3>. QED BY <3>1, <3>2, <3>3
  <2>. QED BY <2>2, <2>3
<1>3. rows' \in [Images -> ARow]
  <2>1. rows' = [k \in Images |-> rows'[k]]
    BY DEF Unpinned, Forgotten
  <2>. QED BY <1>2, <2>1
<1>4. \A k \in Images : rows[k].claimed => r \notin rows[k].pins
  BY DEF ImagesInv, RowsInv, RowOK
<1>5. \A k \in Images : References(k)' = Count(rows'[k])
  BY DEF References, Count
<1>. QED BY <1>2, <1>3, <1>4, <1>5 DEF RowsMild

\* A request gives its pins up, or forgets them, and goes on or ends.
LEMMA UnpinningKeeps ==
  ASSUME ImagesInv, NEW r \in Requests, rows' = Unpinned(r) \/ rows' = Forgotten(r),
         NEW new \in AWork, Becomes(r, new),
         UNCHANGED <<stored, made, aged, page, Device>>, new.pc \in {"idle", "list"},
         new = Idle \/ (new.job = work[r].job /\ new.image = work[r].image /\ new.revision = work[r].revision
                        /\ new.old = work[r].old)
  PROVE  ImagesInv'
<1>1. RowsMild(r) /\ \A k \in Images : rows'[k].drafts = rows[k].drafts
  BY UnpinsAreMild
<1>2. Mild(r, new)
  BY <1>1 DEF Mild, Held, Holding
<1>3. \A s \in Requests : work'[s] = IF s = r THEN new ELSE work[s]
  BY Becoming DEF ImagesInv
<1>4. Apart
  <2>1. \A s \in Requests : work[s].job # "replace" => work[s].old = {}
    BY DEF ImagesInv, ReplaceInv, Replacing
  <2>. QED BY <1>1, <1>3, <2>1, Idling DEF Apart
<1>. QED BY <1>2, <1>4, MovesKeep

LEMMA UnpinKeeps == ASSUME ImagesInv, NEW r \in Requests, Unpin(r) PROVE ImagesInv'
<1> DEFINE new == [work[r] EXCEPT !.pc = "list"]
<1>1. /\ new \in AWork /\ new.pc = "list" /\ new.job = work[r].job /\ new.image = work[r].image
      /\ new.revision = work[r].revision /\ new.old = work[r].old
  BY Going DEF ImagesInv, Pruning
<1>2. Becomes(r, new) /\ UNCHANGED <<stored, made, aged, page, Device>> /\ (rows' = Unpinned(r) \/ rows' = Forgotten(r))
  BY DEF Unpin, Goes
<1>. HIDE DEF new
<1>. QED BY <1>1, <1>2, UnpinningKeeps

LEMMA FailsKeeps == ASSUME ImagesInv, NEW r \in Requests, Fails(r) PROVE ImagesInv'
  BY UnpinningKeeps, Idling DEF Fails, Ends

-------------------------------------------------------------------------------
(***************************************************************************)
(* The draft.                                                              *)
(***************************************************************************)
LEMMA DeviceKeeps ==
  ASSUME ImagesInv, UNCHANGED <<rows, stored, made, aged, page, work>>, draft' \in 0..made, device' \in Device3,
         sent' \subseteq Messages, ReplaceInv', DraftInv'
  PROVE  ImagesInv'
<1>1. Shape'
  BY DEF ImagesInv, Shape
<1>2. RowsInv' /\ HoldInv' /\ WriteInv'
  BY DEF ImagesInv, RowsInv, RowOK, References, HoldInv, Holds, WriteInv
<1>. QED BY <1>1, <1>2 DEF ImagesInv

\* The app saves the draft of revision n, with an image that is confirmed or that n just pinned.
LEMMA SavingKeeps ==
  ASSUME ImagesInv, NEW n \in Revisions,
         NEW k \in 0..made, device'.revision = n, ~device'.waits, device.revision <= n,
         draft' = k,
         \/ device'.confirmed = device.confirmed \cup Asked(k) /\ sent' = sent
         \/ device'.confirmed = Asked(k) /\ (sent' = sent \/ sent' = sent \cup {Message(n, k, TRUE)}),
         \A j \in Images : rows[j].drafts \subseteq rows'[j].drafts,
         \/ Asked(k) \subseteq device.confirmed
         \/ /\ n \in rows'[k].drafts
            /\ \A m \in sent : m.replace => m.revision < n
            /\ \A r \in Requests : work[r].job = "replace" => work[r].revision < n,
         \A r \in Requests : work'[r] = work[r] \/ (work'[r].job # "replace" /\ work'[r].old = {})
  PROVE  ReplaceInv' /\ DraftInv'
<1>1. /\ device.revision \in Nat /\ n \in Nat /\ \A m \in sent : m.revision \in Nat
      /\ \A r \in Requests : work[r] \in AWork /\ work[r].revision \in Nat
      /\ device.confirmed \subseteq Images /\ k \in Names
      /\ \A j \in Images : rows[j].drafts \subseteq Revisions
  BY Numbered DEF ImagesInv, Shape, Device3, Messages, AWork, Asks, Work, Revisions, ARow, Names
<1>2. \A i \in Nat : Before(i) => Before(i)'
  BY <1>1 DEF Before
<1>3. Before(n)'
  BY <1>1 DEF Before
<1>4. LET m == Message(n, k, TRUE) IN m.revision = n /\ m.image = k /\ m.replace
  BY DEF Message
<1>5. \A m \in sent' : m \in sent \/ (m.revision = n /\ m.image = k /\ m.replace /\ device'.confirmed = Asked(k))
  BY <1>4
<1>6. ReplaceInv'
  <2>1. \A m \in sent' : m.replace => Before(m.revision)'
    BY <1>1, <1>2, <1>3, <1>5 DEF ImagesInv, ReplaceInv
  <2>2. \A r \in Requests : Replacing(work[r])'
    BY <1>1, <1>2 DEF ImagesInv, ReplaceInv, Replacing
  <2>. QED BY <2>1, <2>2 DEF ReplaceInv
<1>7. ASSUME NEW j \in device'.confirmed PROVE \E i \in rows'[j].drafts : Rests(j, i)'
  <2>1. j \in Images
    BY <1>1, <1>7, Named DEF Asked
  <2>2. ASSUME NEW i, Rests(j, i) PROVE Rests(j, i)'
    <3>1. \A m \in sent' : SentBefore(m, j, i)
      <4>1. \A m \in sent' : m \in sent \/ m.image = j
        BY <1>5, <1>7 DEF Asked
      <4>. QED BY <2>2, <4>1 DEF Rests, SentBefore
    <3>2. \A r \in Requests : WorkBefore(work'[r], j, i)
      BY <2>2 DEF Rests, WorkBefore
    <3>. QED BY <3>1, <3>2 DEF Rests
  <2>3. CASE j \in device.confirmed
    <3>1. PICK i \in rows[j].drafts : Rests(j, i)
      BY <2>3 DEF ImagesInv, DraftInv
    <3>. QED BY <2>1, <2>2, <3>1
  <2>4. CASE j \notin device.confirmed
    <3>1. /\ j = k /\ n \in rows'[k].drafts
          /\ \A m \in sent : m.replace => m.revision < n
          /\ \A r \in Requests : work[r].job = "replace" => work[r].revision < n
      BY <1>7, <2>4 DEF Asked
    <3>2. Rests(j, n)
      BY <1>1, <3>1 DEF Rests, SentBefore, WorkBefore
    <3>. QED BY <2>2, <3>1, <3>2
  <2>. QED BY <2>3, <2>4
<1>8. draft' # 0 => draft' \in device'.confirmed
  BY DEF Asked
<1>. QED BY <1>6, <1>7, <1>8 DEF DraftInv

LEMMA SaveDraftKeeps == ASSUME ImagesInv, SaveDraft PROVE ImagesInv'
<1>1. UNCHANGED <<rows, stored, made, aged, page, work>> /\ ~device.waits
  BY DEF SaveDraft
<1>2. PICK n \in Revisions : n = device.revision + 1 /\ n <= MaxRevision
  <2>1. device.revision + 1 <= MaxRevision /\ device.revision \in Nat
    BY Numbered DEF SaveDraft, ImagesInv, Shape, Device3
  <2>. QED BY <2>1, Numbered DEF Revisions
<1>3. PICK k \in 0..made :
         IF Asked(k) \subseteq device.confirmed
         THEN /\ draft' = k
              /\ \E c \in {device.confirmed, Asked(k)} :
                   /\ device' = [device EXCEPT !.revision = n, !.confirmed = c]
                   /\ \/ sent' = sent
                      \/ c = Asked(k) /\ sent' = sent \cup {Message(n, k, TRUE)}
         ELSE /\ device' = [device EXCEPT !.revision = n, !.waits = TRUE, !.image = k]
              /\ sent' = sent \cup {Message(n, k, FALSE)} /\ UNCHANGED draft
  BY <1>2 DEF SaveDraft
<1>4. /\ device \in Device3 /\ k \in Names /\ device.revision \in Nat /\ n \in Nat /\ n \in 0..MaxRevision
      /\ sent \subseteq Messages
  BY Numbered DEF ImagesInv, Shape, Device3, Revisions, Names
<1>5. \A b \in BOOLEAN : Message(n, k, b) \in Messages
  BY <1>4 DEF Message, Messages
<1>6. Asked(k) \subseteq Images
  BY <1>4, Named DEF Asked
<1>7. CASE Asked(k) \subseteq device.confirmed
  <2>1. PICK c \in {device.confirmed, Asked(k)} :
                   /\ device' = [device EXCEPT !.revision = n, !.confirmed = c]
                   /\ \/ sent' = sent
                      \/ c = Asked(k) /\ sent' = sent \cup {Message(n, k, TRUE)}
    BY <1>3, <1>7
  <2>2. c \subseteq Images
    BY <1>4, <1>6 DEF Device3
  <2>3. device' \in Device3 /\ device'.revision = n /\ device'.confirmed = c /\ device'.waits = device.waits
    BY <1>4, <2>1, <2>2 DEF Device3
  <2>4. draft' = k /\ sent' \subseteq Messages
    BY <1>3, <1>4, <1>5, <1>7, <2>1
  <2>5. device.confirmed \cup Asked(k) = device.confirmed
    BY <1>7
  <2>6. ReplaceInv' /\ DraftInv'
    <3>1. device'.revision = n /\ ~device'.waits /\ device.revision <= n
      BY <1>1, <1>2, <1>4, <2>3
    <3>2. \/ device'.confirmed = device.confirmed \cup Asked(k) /\ sent' = sent
          \/ device'.confirmed = Asked(k) /\ (sent' = sent \/ sent' = sent \cup {Message(n, k, TRUE)})
      BY <2>1, <2>3, <2>5
    <3>3. /\ \A j \in Images : rows[j].drafts \subseteq rows'[j].drafts
          /\ \A r \in Requests : work'[r] = work[r]
      BY <1>1
    <3>. QED BY <1>7, <2>4, <3>1, <3>2, <3>3, SavingKeeps
  <2>. QED BY <1>1, <2>3, <2>4, <2>6, DeviceKeeps
<1>8. CASE ~(Asked(k) \subseteq device.confirmed)
  <2>1. /\ device' = [device EXCEPT !.revision = n, !.waits = TRUE, !.image = k]
        /\ sent' = sent \cup {Message(n, k, FALSE)} /\ draft' = draft
    BY <1>3, <1>8
  <2>2. device' \in Device3 /\ device'.revision = n /\ device'.confirmed = device.confirmed /\ device'.waits
    BY <1>4, <2>1 DEF Device3
  <2>3. ~Message(n, k, FALSE).replace
    BY DEF Message
  <2>4. \A i \in Nat : Before(i) => Before(i)'
    BY <1>1, <1>2, <1>4, <2>2 DEF Before
  <2>5. ReplaceInv'
    <3>1. \A m \in sent' : m.replace => m \in sent /\ m.revision \in Nat
      <4>1. \A m \in sent : m.revision \in Nat
        BY <1>4, Numbered DEF Messages, Revisions
      <4>2. \A m \in sent' : m \in sent \/ m = Message(n, k, FALSE)
        BY <2>1
      <4>. QED BY <2>3, <4>1, <4>2
    <3>2. \A r \in Requests : work[r].revision \in Nat
      BY Numbered DEF ImagesInv, Shape, AWork, Asks, Work
    <3>3. \A r \in Requests : Replacing(work[r])'
      BY <1>1, <2>4, <3>2 DEF ImagesInv, ReplaceInv, Replacing
    <3>. QED BY <2>4, <3>1, <3>3 DEF ImagesInv, ReplaceInv
  <2>6. \A j, i : Rests(j, i) => Rests(j, i)'
    BY <1>1, <2>1, <2>3 DEF Rests, SentBefore
  <2>7. DraftInv'
    BY <1>1, <2>1, <2>2, <2>6 DEF ImagesInv, DraftInv
  <2>8. sent' \subseteq Messages /\ draft' \in 0..made
    BY <1>4, <1>5, <2>1 DEF ImagesInv, Shape
  <2>. QED BY <1>1, <2>2, <2>5, <2>7, <2>8, DeviceKeeps
<1>. QED BY <1>7, <1>8

LEMMA GivesUpKeeps == ASSUME ImagesInv, GivesUp PROVE ImagesInv'
<1>1. /\ UNCHANGED <<rows, stored, made, aged, page, draft, sent, work>> /\ device \in Device3
      /\ device' = [device EXCEPT !.waits = FALSE, !.image = 0]
  BY DEF GivesUp, ImagesInv, Shape
<1>2. device' \in Device3 /\ device'.revision = device.revision /\ device'.confirmed = device.confirmed /\ ~device'.waits
  BY <1>1, Named DEF Device3
<1>3. \A i : Before(i) => Before(i)'
  BY <1>2 DEF Before
<1>4. ReplaceInv'
  <2>1. \A r \in Requests : Replacing(work[r])'
    BY <1>1, <1>3 DEF ImagesInv, ReplaceInv, Replacing
  <2>. QED BY <1>1, <1>3, <2>1 DEF ImagesInv, ReplaceInv
<1>5. \A j, i : Rests(j, i) => Rests(j, i)'
  BY <1>1 DEF Rests
<1>6. DraftInv'
  BY <1>1, <1>2, <1>5 DEF ImagesInv, DraftInv
<1>7. draft' \in 0..made /\ sent' \subseteq Messages
  BY <1>1 DEF ImagesInv, Shape
<1>. QED BY <1>1, <1>2, <1>4, <1>6, <1>7, DeviceKeeps

LEMMA StartProtectKeeps == ASSUME ImagesInv, NEW r \in Requests, StartProtect(r) PROVE ImagesInv'
<1>1. PICK m \in sent :
         /\ Becomes(r, [Idle EXCEPT !.pc = "review", !.job = IF m.replace THEN "replace" ELSE "add",
                                    !.image = m.image, !.revision = m.revision])
         /\ sent' = sent \ {m}
  BY DEF StartProtect
<1> DEFINE new == [Idle EXCEPT !.pc = "review", !.job = IF m.replace THEN "replace" ELSE "add",
                               !.image = m.image, !.revision = m.revision]
<1>2. UNCHANGED <<rows, stored, made, aged, page, draft, device>>
  BY DEF StartProtect
<1>3. m \in Messages /\ m.revision \in 0..MaxRevision /\ m.image \in Names /\ m.revision \in Nat
  BY Numbered DEF ImagesInv, Shape, Messages, Revisions
<1>4. /\ new \in AWork /\ new.pc = "review" /\ (new.job = "replace" <=> m.replace) /\ new.image = m.image
      /\ new.revision = m.revision /\ new.old = {}
  BY <1>3, Idling DEF AWork, Asks, Work, Idle, Messages
<1>5. Becomes(r, new)
  BY <1>1
<1>. HIDE DEF new
<1>6. Mild(r, new)
  BY <1>2, <1>4, <1>5, NoRowChanges DEF Mild, Held, Holding
<1>7. \A s \in Requests : work'[s] = IF s = r THEN new ELSE work[s]
  BY <1>4, <1>5, Becoming DEF ImagesInv
<1>8. Shape'
  <2>1. work' \in [Requests -> AWork]
    BY <1>4, <1>5, Becoming DEF ImagesInv
  <2>. QED BY <1>1, <1>2, <2>1 DEF ImagesInv, Shape
<1>9. ReplaceInv'
  <2>1. \A i : Before(i)' <=> Before(i)
    BY <1>2 DEF Before
  <2>2. \A i \in sent : i.replace => Before(i.revision)
    BY DEF ImagesInv, ReplaceInv
  <2>3. ASSUME NEW s \in Requests PROVE Replacing(work[s])'
    <3>1. CASE s = r
      BY <1>4, <1>7, <2>1, <2>2, <3>1 DEF Replacing
    <3>2. CASE s # r
      <4>1. Replacing(work[s])
        BY DEF ImagesInv, ReplaceInv
      <4>. QED BY <1>7, <2>1, <3>2, <4>1 DEF Replacing
    <3>. QED BY <3>1, <3>2
  <2>. QED BY <1>1, <2>1, <2>2, <2>3 DEF ReplaceInv
<1>10. ASSUME NEW j, NEW i, Rests(j, i) PROVE Rests(j, i)'
  <2>1. WorkBefore(new, j, i)
    BY <1>4, <1>10 DEF Rests, SentBefore, WorkBefore
  <2>2. \A s \in Requests : WorkBefore(work'[s], j, i)
    BY <1>7, <1>10, <2>1 DEF Rests
  <2>3. \A l \in sent' : SentBefore(l, j, i)
    BY <1>1, <1>10 DEF Rests
  <2>. QED BY <2>2, <2>3 DEF Rests
<1>11. DraftInv'
  BY <1>2, <1>10 DEF ImagesInv, DraftInv
<1>. QED BY <1>4, <1>6, <1>8, <1>9, <1>11, MildKeeps DEF ImagesInv

\* The request knows which pins it is to give up; its revision is that of the draft which asked.
LEMMA ReviewKeeps == ASSUME ImagesInv, NEW r \in Requests, Review(r) PROVE ImagesInv'
<1> DEFINE old == IF work[r].job = "replace" THEN Obsolete(r) ELSE {}
<1>1. UNCHANGED <<rows, stored, made, aged, page, Device>> /\ work[r].pc = "review"
  BY DEF Review
<1>2. CASE Ends(r)
  BY <1>1, <1>2, EndsKeeps
<1>3. CASE \E pc \in {"add", "release"} :
             Becomes(r, [work[r] EXCEPT !.pc = pc, !.old = old]) /\ (pc = "release" <=> work[r].image = 0)
  <2>1. PICK pc \in {"add", "release"} :
             Becomes(r, [work[r] EXCEPT !.pc = pc, !.old = old]) /\ (pc = "release" <=> work[r].image = 0)
    BY <1>3
  <2> DEFINE new == [work[r] EXCEPT !.pc = pc, !.old = old]
  <2>2. work[r] \in AWork /\ old \in SUBSET (Images \X Revisions)
    BY DEF ImagesInv, Shape, Obsolete
  <2>3. /\ new \in AWork /\ new.pc = pc /\ new.job = work[r].job /\ new.image = work[r].image
        /\ new.revision = work[r].revision /\ new.old = old
    <3>1. work[r] \in Work /\ work[r].revision \in Revisions
      BY <1>1, <2>2 DEF AWork, Asks
    <3>2. /\ new \in Work /\ new.pc = pc /\ new.job = work[r].job /\ new.image = work[r].image
          /\ new.revision = work[r].revision /\ new.old = old
      BY <2>2, <3>1 DEF Work
    <3>. HIDE DEF new
    <3>. QED BY <2>1, <3>1, <3>2 DEF AWork, Asks
  <2>4. Becomes(r, new)
    BY <2>1
  <2>5. \A p \in old : p[2] <= work[r].revision /\ p # <<work[r].image, work[r].revision>>
    BY DEF Obsolete
  <2>6. work[r].job # "replace" => old = {}
    OBVIOUS
  <2>. HIDE DEF new, old
  <2>7. Mild(r, new)
    BY <1>1, <2>3, <2>4, NoRowChanges DEF Mild, Held, Holding
  <2>8. \A s \in Requests : work'[s] = IF s = r THEN new ELSE work[s]
    BY <2>3, <2>4, Becoming DEF ImagesInv
  <2>9. Shape'
    <3>1. work' \in [Requests -> AWork]
      BY <2>3, <2>4, Becoming DEF ImagesInv
    <3>. QED BY <1>1, <3>1 DEF ImagesInv, Shape, Device
  <2>10. ReplaceInv'
    <3>1. \A i : Before(i)' <=> Before(i)
      BY <1>1 DEF Before, Device
    <3>2. Replacing(work[r])
      BY DEF ImagesInv, ReplaceInv
    <3>3. ASSUME NEW s \in Requests PROVE Replacing(work[s])'
      <4>1. CASE s = r
        BY <2>3, <2>5, <2>6, <2>8, <3>1, <3>2, <4>1 DEF Replacing
      <4>2. CASE s # r
        <5>1. Replacing(work[s])
          BY DEF ImagesInv, ReplaceInv
        <5>. QED BY <2>8, <3>1, <4>2, <5>1 DEF Replacing
      <4>. QED BY <4>1, <4>2
    <3>. QED BY <1>1, <3>1, <3>3 DEF ImagesInv, ReplaceInv, Device
  <2>11. ASSUME NEW j \in Images, NEW i, Rests(j, i) PROVE Rests(j, i)'
    <3>1. j # 0
      BY Numbered DEF Images
    <3>2. WorkBefore(new, j, i)
      BY <2>1, <2>3, <2>11, <3>1 DEF Rests, WorkBefore
    <3>. QED BY <1>1, <2>8, <2>11, <3>2 DEF Rests, Device
  <2>12. DraftInv'
    BY <1>1, <2>11 DEF ImagesInv, Shape, Device3, DraftInv, Device
  <2>. QED BY <1>1, <2>3, <2>7, <2>9, <2>10, <2>12, MildKeeps DEF ImagesInv
<1>. QED BY <1>2, <1>3 DEF Review

\* A pin is added: it may be the one that a draft is about to be saved with, and it outlives older replacements.
LEMMA AddKeeps == ASSUME ImagesInv, NEW r \in Requests, Add(r) PROVE ImagesInv'
<1>1. UNCHANGED <<stored, made, aged, page>> /\ work[r].pc = "add"
  BY DEF Add
<1>4. PICK k \in Images, n \in Revisions : k = work[r].image /\ n = work[r].revision
  BY <1>1, Named DEF ImagesInv, Shape, AWork, Asks, Work
<1>2. CASE ~DraftPinnable(k, n)
  BY <1>1, <1>2, <1>4, EndsKeeps DEF Add
<1>3. CASE DraftPinnable(k, n)
  <2> DEFINE released == [work[r] EXCEPT !.pc = "release"]
  <2>a. /\ released \in AWork /\ released.pc = "release" /\ released.job = work[r].job /\ released.image = k
        /\ released.revision = n /\ released.old = work[r].old
    BY <1>4, Going DEF ImagesInv
  <2>b. Becomes(r, Idle) \/ (Becomes(r, released) /\ work[r].job = "replace")
    BY <1>3, <1>4 DEF Add, Ends, Goes
  <2>. HIDE DEF released
  <2>1. PICK new \in {Idle, released} : Becomes(r, new) /\ (new = Idle \/ work[r].job = "replace")
    BY <2>b
  <2>2. \/ new = Idle
        \/ /\ new.pc = "release" /\ new.job = work[r].job /\ new.image = k /\ new.revision = n
           /\ new.old = work[r].old
    BY <2>1, <2>a
  <2>3. new \in AWork
    BY <2>1, <2>a, Idling
  <2>4. rows[k] \in ARow /\ ~rows[k].claimed /\ Count(rows[k]) <= MaxReferences
        /\ (n \in rows[k].drafts \/ Count(rows[k]) < MaxReferences)
    BY <1>3 DEF ImagesInv, Shape, RowsInv, RowOK, DraftPinnable, Pinnable, Room, References, Count
  <2> DEFINE row == [rows[k] EXCEPT !.drafts = @ \cup {n}]
  <2>5. /\ row \in ARow /\ Count(row) <= MaxReferences /\ row.claimed = rows[k].claimed
        /\ row.drafts = rows[k].drafts \cup {n} /\ row.pins = rows[k].pins
    BY <1>3, <2>4, DraftAdds
  <2>6. rows' = [rows EXCEPT ![k] = row]
    BY <1>3, <1>4 DEF Add, PinDraft
  <2>. HIDE DEF row
  <2>7. RowsMild(r)
    BY <1>3, <2>4, <2>5, <2>6, OneRow
  <2>8. rows'[k] = row /\ \A j \in Images \ {k} : rows'[j] = rows[j]
    BY <1>3, <2>6 DEF ImagesInv, Shape
  <2>9. Mild(r, new)
    <3>1. new.pc \in {"idle", "release"}
      BY <2>2, Idling
    <3>. QED BY <1>1, <2>1, <2>7, <3>1 DEF Mild, Held, Holding
  <2>10. \A s \in Requests : work'[s] = IF s = r THEN new ELSE work[s]
    BY <2>1, <2>3, Becoming DEF ImagesInv
  <2>11. work' \in [Requests -> AWork] /\ rows' \in [Images -> ARow]
    BY <2>1, <2>3, <2>7, Becoming DEF ImagesInv, RowsMild
  <2>12. CASE UNCHANGED Device
    <3>1. Shape'
      BY <1>1, <2>11, <2>12 DEF ImagesInv, Shape, Device
    <3>2. ReplaceInv'
      <4>1. \A i : Before(i)' <=> Before(i)
        BY <2>12 DEF Before, Device
      <4>2. ASSUME NEW s \in Requests PROVE Replacing(work[s])'
        <5>1. Replacing(work[s])
          BY DEF ImagesInv, ReplaceInv
        <5>2. CASE new = Idle /\ s = r
          BY <2>10, <5>2, Idling DEF Replacing
        <5>3. CASE new # Idle /\ s = r
          <6>1. /\ work'[s] = new /\ new.job = work[s].job /\ new.image = work[s].image
                /\ new.revision = work[s].revision /\ new.old = work[s].old
            BY <1>4, <2>2, <2>10, <5>3
          <6>. QED BY <4>1, <5>1, <6>1 DEF Replacing
        <5>4. CASE s # r
          BY <2>10, <4>1, <5>1, <5>4 DEF Replacing
        <5>. QED BY <5>2, <5>3, <5>4
      <4>. QED BY <2>12, <4>1, <4>2 DEF ImagesInv, ReplaceInv, Device
    <3>3. ASSUME NEW j \in device.confirmed PROVE \E i \in rows'[j].drafts : Rests(j, i)'
      <4>1. PICK i \in rows[j].drafts : Rests(j, i)
        BY <3>3 DEF ImagesInv, DraftInv
      <4>2. /\ j \in Images /\ i \in Nat /\ n \in Nat /\ \A m \in sent : m.revision \in Nat
            /\ \A s \in Requests : work[s].revision \in Nat
        BY Numbered DEF ImagesInv, Shape, Device3, ARow, Revisions, Messages, AWork, Asks, Work
      <4>3. i \in rows'[j].drafts
        BY <2>5, <2>8, <4>1, <4>2
      <4>4. CASE new.pc = "release" /\ j = k /\ n > i
        <5>1. n \in rows'[j].drafts
          BY <2>5, <2>8, <4>4
        <5>2. \A m \in sent' : SentBefore(m, j, n)
          BY <2>12, <4>1, <4>2, <4>4 DEF Rests, SentBefore, Device
        <5>3. ASSUME NEW s \in Requests PROVE WorkBefore(work'[s], j, n)
          <6>1. WorkBefore(work[s], j, n)
            BY <4>1, <4>2, <4>4 DEF Rests, WorkBefore
          <6>2. CASE s = r
            BY <2>2, <2>10, <4>2, <4>4, <6>2, Idling DEF WorkBefore
          <6>. QED BY <2>10, <6>1, <6>2
        <5>4. Rests(j, n)'
          BY <5>2, <5>3 DEF Rests
        <5>. QED BY <5>1, <5>4
      <4>5. CASE ~(new.pc = "release" /\ j = k /\ n > i)
        <5>1. \A m \in sent' : SentBefore(m, j, i)
          BY <2>12, <4>1 DEF Rests, Device
        <5>2. ASSUME NEW s \in Requests PROVE WorkBefore(work'[s], j, i)
          <6>1. WorkBefore(work[s], j, i)
            BY <4>1 DEF Rests
          <6>2. CASE s = r
            <7>1. new = Idle => WorkBefore(new, j, i)
              BY Idling DEF WorkBefore
            <7>2. CASE new # Idle
              <8>1. /\ new.pc = "release" /\ new.job = work[s].job /\ new.image = work[s].image
                    /\ new.revision = work[s].revision /\ new.image = k /\ new.revision = n
                BY <1>4, <2>2, <6>2, <7>2
              <8>2. j = k => n <= i
                BY <4>2, <4>5, <8>1
              <8>. QED BY <2>10, <6>1, <6>2, <8>1, <8>2 DEF WorkBefore
            <7>. QED BY <2>10, <6>2, <7>1, <7>2
          <6>. QED BY <2>10, <6>1, <6>2
        <5>3. Rests(j, i)'
          BY <5>1, <5>2 DEF Rests
        <5>. QED BY <4>3, <5>3
      <4>. QED BY <4>4, <4>5
    <3>4. DraftInv'
      BY <2>12, <3>3 DEF ImagesInv, DraftInv, Device
    <3>. QED BY <2>3, <2>9, <3>1, <3>2, <3>4, MildKeeps DEF ImagesInv
  <2>13. CASE device.waits /\ device.revision = n /\ work[r].job = "add" /\ Saved(n, k, sent)
    <3>1. new = Idle
      BY <2>1, <2>13
    <3>2. \A m \in sent : m.replace => m.revision < n
      BY <2>13 DEF ImagesInv, ReplaceInv, Before
    <3>3. \A s \in Requests : work[s].job = "replace" => work[s].revision < n
      BY <2>13 DEF ImagesInv, ReplaceInv, Replacing, Before
    <3>4. PICK c \in {device.confirmed \cup Asked(k), Asked(k)} :
             /\ draft' = k /\ Confirm(c)
             /\ \/ c = device.confirmed \cup Asked(k) /\ sent' = sent
                \/ c = Asked(k) /\ (sent' = sent \/ sent' = sent \cup {Message(n, k, TRUE)})
      BY <2>13 DEF Saved
    <3>5. c \subseteq Images /\ device \in Device3 /\ sent \subseteq Messages
      BY <1>3 DEF ImagesInv, Shape, Device3, Asked
    <3>6. device' \in Device3 /\ device'.revision = n /\ device'.confirmed = c /\ ~device'.waits
      BY <2>13, <3>4, <3>5, Named DEF Confirm, Device3
    <3>7. Message(n, k, TRUE) \in Messages
      BY <1>3, Named DEF Message, Messages
    <3>8. k \in 0..made /\ device.revision \in Nat
      BY <1>3, <2>4, <3>5, Numbered DEF ImagesInv, Shape, RowsInv, RowOK, Images, Names, Device3
    <3>9. Shape'
      BY <1>1, <2>11, <3>4, <3>5, <3>6, <3>7, <3>8 DEF ImagesInv, Shape
    <3>10. \A j \in Images : rows[j].drafts \subseteq rows'[j].drafts
      BY <2>5, <2>8
    <3>11. n \in rows'[k].drafts
      BY <2>5, <2>8
    <3>12. \A s \in Requests : work'[s] = work[s] \/ (work'[s].job # "replace" /\ work'[s].old = {})
      BY <2>10, <3>1, Idling
    <3>13. device.revision <= n
      BY <2>13, <3>8
    <3>14. \/ device'.confirmed = device.confirmed \cup Asked(k) /\ sent' = sent
           \/ device'.confirmed = Asked(k) /\ (sent' = sent \/ sent' = sent \cup {Message(n, k, TRUE)})
      BY <3>4, <3>6
    <3>15. PICK i \in Revisions : i = n
      BY <1>3
    <3>16. PICK j \in 0..made : j = k
      BY <3>8
    <3>17. ReplaceInv' /\ DraftInv'
      BY <3>2, <3>3, <3>4, <3>6, <3>10, <3>11, <3>12, <3>13, <3>14, <3>15, <3>16, SavingKeeps
    <3>. QED BY <2>3, <2>9, <3>9, <3>17, MildKeeps DEF ImagesInv
  <2>. QED BY <1>3, <1>4, <2>12, <2>13 DEF Add
<1>. QED BY <1>2, <1>3

\* A replacement gives up older pins of its draft: none that a confirmed image rests on.
LEMMA ReleaseKeeps == ASSUME ImagesInv, NEW r \in Requests, Release(r) PROVE ImagesInv'
<1>1. UNCHANGED <<stored, made, aged, page, Device>> /\ work[r].pc = "release"
  BY DEF Release
<1>2. CASE work[r].old = {}
  BY <1>1, <1>2, EndsKeeps DEF Release
<1>3. CASE work[r].old # {}
  <2>1. PICK p \in work[r].old :
              /\ rows' = IF Pinnable(p[1]) THEN [rows EXCEPT ![p[1]].drafts = @ \ {p[2]}] ELSE rows
              /\ Becomes(r, [work[r] EXCEPT !.old = @ \ {p}])
    BY <1>3 DEF Release
  <2> DEFINE new == [work[r] EXCEPT !.old = @ \ {p}]
  <2>2. work[r] \in AWork /\ p \in Images \X Revisions
    BY DEF ImagesInv, Shape, AWork, Asks, Work
  <2>3. /\ new \in AWork /\ new.pc = "release" /\ new.job = work[r].job /\ new.image = work[r].image
        /\ new.revision = work[r].revision /\ new.old = work[r].old \ {p}
    BY <1>1, <2>2 DEF AWork, Asks, Work
  <2>4. Becomes(r, new)
    BY <2>1
  <2>. HIDE DEF new
  <2>5. PICK k \in Images, n \in Revisions : p = <<k, n>> /\ p[1] = k /\ p[2] = n
    BY <2>2
  <2>6. work[r].job = "replace" /\ n <= work[r].revision /\ p # <<work[r].image, work[r].revision>>
    BY <1>3, <2>5 DEF ImagesInv, ReplaceInv, Replacing
  <2>7. /\ RowsMild(r)
        /\ \A j \in Images : \A i \in rows[j].drafts : <<j, i>> # p => i \in rows'[j].drafts
    <3>1. CASE rows' = rows
      BY <3>1, NoRowChanges
    <3>2. CASE Pinnable(k)
      <4>1. rows[k] \in ARow /\ ~rows[k].claimed /\ Count(rows[k]) <= MaxReferences
        BY <3>2 DEF ImagesInv, Shape, RowsInv, RowOK, Pinnable, References, Count
      <4> DEFINE row == [rows[k] EXCEPT !.drafts = @ \ {n}]
      <4>2. /\ row \in ARow /\ Count(row) <= MaxReferences /\ row.claimed = rows[k].claimed
            /\ row.drafts = rows[k].drafts \ {n} /\ row.pins = rows[k].pins
        BY <4>1, DraftLeaves
      <4>3. rows' = [rows EXCEPT ![k] = row]
        BY <2>1, <2>5, <3>2
      <4>. HIDE DEF row
      <4>4. RowsMild(r)
        BY <4>1, <4>2, <4>3, OneRow
      <4>5. rows'[k] = row /\ \A j \in Images \ {k} : rows'[j] = rows[j]
        BY <4>3 DEF ImagesInv, Shape
      <4>. QED BY <2>5, <4>2, <4>4, <4>5
    <3>. QED BY <2>1, <2>5, <3>1, <3>2
  <2>8. Mild(r, new)
    BY <1>1, <2>3, <2>4, <2>7 DEF Mild, Held, Holding
  <2>9. \A s \in Requests : work'[s] = IF s = r THEN new ELSE work[s]
    BY <2>3, <2>4, Becoming DEF ImagesInv
  <2>10. Shape'
    <3>1. work' \in [Requests -> AWork] /\ rows' \in [Images -> ARow]
      BY <2>3, <2>4, <2>7, Becoming DEF ImagesInv, RowsMild
    <3>. QED BY <1>1, <3>1 DEF ImagesInv, Shape, Device
  <2>11. ReplaceInv'
    <3>1. \A i : Before(i)' <=> Before(i)
      BY <1>1 DEF Before, Device
    <3>2. ASSUME NEW s \in Requests PROVE Replacing(work[s])'
      <4>1. Replacing(work[s])
        BY DEF ImagesInv, ReplaceInv
      <4>. QED BY <2>3, <2>9, <3>1, <4>1 DEF Replacing
    <3>. QED BY <1>1, <3>1, <3>2 DEF ImagesInv, ReplaceInv, Device
  <2>12. ASSUME NEW j \in device.confirmed PROVE \E i \in rows'[j].drafts : Rests(j, i)'
    <3>1. PICK i \in rows[j].drafts : Rests(j, i)
      BY <2>12 DEF ImagesInv, DraftInv
    <3>2. j \in Images /\ i \in Nat /\ n \in Nat /\ work[r].revision \in Nat
      BY Numbered DEF ImagesInv, Shape, Device3, ARow, Revisions, AWork, Asks, Work
    <3>3. <<j, i>> # p
      <4>1. WorkBefore(work[r], j, i)
        BY <3>1 DEF Rests
      <4>2. CASE work[r].image # j
        <5>1. n < i
          BY <2>6, <3>2, <4>1, <4>2 DEF WorkBefore
        <5>. QED BY <2>5, <3>2, <5>1
      <4>3. CASE work[r].image = j
        <5>1. work[r].revision <= i
          BY <1>1, <2>6, <4>1, <4>3 DEF WorkBefore
        <5>2. CASE i = n
          <6>1. i = work[r].revision
            BY <2>6, <3>2, <5>1, <5>2
          <6>. QED BY <2>6, <4>3, <6>1
        <5>. QED BY <2>5, <5>2
      <4>. QED BY <4>2, <4>3
    <3>4. i \in rows'[j].drafts
      BY <2>7, <3>1, <3>2, <3>3
    <3>5. Rests(j, i)'
      <4>1. ASSUME NEW s \in Requests PROVE WorkBefore(work'[s], j, i)
        <5>1. WorkBefore(work[s], j, i)
          BY <3>1 DEF Rests
        <5>. QED BY <1>1, <2>3, <2>9, <5>1 DEF WorkBefore
      <4>. QED BY <1>1, <3>1, <4>1 DEF Rests, Device
    <3>. QED BY <3>4, <3>5
  <2>13. DraftInv'
    BY <1>1, <2>12 DEF ImagesInv, DraftInv, Device
  <2>. QED BY <2>3, <2>8, <2>10, <2>11, <2>13, MildKeeps DEF ImagesInv
<1>. QED BY <1>2, <1>3

---------------------------------------------------------------------------------
(***************************************************************************)
(* Every step.                                                             *)
(***************************************************************************)
LEMMA ImagesKeep == ImagesInv /\ [Next]_vars => ImagesInv'
<1> SUFFICES ASSUME ImagesInv, [Next]_vars PROVE ImagesInv'
  OBVIOUS
<1>1. CASE UNCHANGED vars
  <2>1. UNCHANGED <<rows, stored, made, aged, page, Device, work>>
    BY <1>1 DEF vars, Device
  <2>2. ReplaceInv' /\ DraftInv'
    BY <2>1 DEF ImagesInv, ReplaceInv, Replacing, Before, DraftInv, Rests, Device
  <2>. QED BY <2>1, <2>2, DeviceKeeps DEF ImagesInv, Shape, Device
<1>2. ASSUME NEW r \in Requests, Step(r) PROVE ImagesInv'
  BY <1>2, ListKeeps, ExamineKeeps, ClaimKeeps, VerifyKeeps, CancelKeeps, EraseKeeps, DropKeeps, PrunedKeeps,
     StartUploadKeeps, SaveKeeps, StartPublishKeeps, ValidateKeeps, PinKeeps, WriteKeeps, UnpinKeeps, FailsKeeps,
     StartProtectKeeps, ReviewKeeps, AddKeeps, ReleaseKeeps DEF Step
<1>. QED BY <1>1, <1>2, AgesKeeps, SaveDraftKeeps, GivesUpKeeps DEF Next

\* The type invariant; an image that is being deleted has no pin.
THEOREM ImagesTypeCorrect == Spec => []TypeOK
<1>1. ASSUME ImagesInv PROVE TypeOK
  <2>1. ASSUME NEW k \in Images
        PROVE  rows[k] \in Rows /\ (rows[k].claimed => References(k) = 0)
    <3>1. /\ rows[k] \in ARow /\ RowOK(k) /\ References(k) = Count(rows[k])
      BY <1>1 DEF ImagesInv, Shape, RowsInv, References, Count
    <3>2. /\ Cardinality(rows[k].drafts) \in Nat /\ Cardinality(rows[k].pins) \in Nat /\ rows[k].left \in Nat
      BY <3>1, Counted
    <3>3. rows[k].left \in 0..MaxReferences
      BY <3>1, <3>2, Numbered DEF RowOK, Count
    <3>4. rows[k].claimed => References(k) = 0
      <4>1. CASE rows[k].claimed
        <5>1. /\ Cardinality(rows[k].drafts) = 0 /\ Cardinality(rows[k].pins) = 0 /\ rows[k].left = 0
          BY <3>1, <4>1, NoReferences DEF RowOK
        <5>. QED BY <5>1 DEF References
      <4>. QED BY <4>1
    <3>. QED BY <3>1, <3>3, <3>4 DEF ARow, Rows
  <2>2. rows \in [Images -> Rows] /\ \A k \in Images : rows[k].claimed => References(k) = 0
    BY <1>1, <2>1 DEF ImagesInv, Shape
  <2>. QED BY <1>1, <2>2 DEF ImagesInv, Shape, AWork, Device3, TypeOK
<1>. QED BY <1>1, ImagesBegin, ImagesKeep, PTL DEF Spec

\* What the page or the draft on the device shows keeps its bytes.
THEOREM ShownIsKept == Spec => []KeptImagesStay
<1>1. ASSUME ImagesInv PROVE KeptImagesStay
  <2>1. draft # 0 => draft \in stored
    <3>1. ASSUME draft # 0 PROVE draft \in Images /\ rows[draft].drafts # {}
      BY <1>1, <3>1 DEF ImagesInv, DraftInv, Shape, Device3
    <3>. QED BY <1>1, <3>1 DEF ImagesInv, RowsInv, RowOK
  <2>. QED BY <1>1, <2>1 DEF ImagesInv, KeptImagesStay
<1>. QED BY <1>1, ImagesBegin, ImagesKeep, PTL DEF Spec

---------------------------------------------------------------------------------
(***************************************************************************)
(* Packs of credits.                                                       *)
(***************************************************************************)
Purchase == [owner : Owners \cup {Bought!Nobody}, revoked : BOOLEAN]

\* What a request knows, by the await it is at.
RequestTypeOK(w) ==
    /\ w.pc \in {"idle", "event", "lookup", "receipt", "write"}
    /\ w.pc = "event" => w.event \in Bought!Event
    /\ w.pc \in {"lookup", "receipt", "write"} => w.owner \in Owners /\ w.pack \in Packs
    /\ w.pc \in {"receipt", "write"} => w.revoked \in BOOLEAN

PacksTypeOK ==
    /\ listed \in [Packs -> Owners \cup {Bought!Nobody}] /\ refunded \subseteq Packs /\ renamed \in BOOLEAN
    /\ account \in [Owners -> {"none", "there", "deleted"}] /\ ledger \in [Packs -> Purchase]
    /\ pending \subseteq Bought!Event /\ handled \subseteq Bought!Event
    /\ DOMAIN requests = Handlers /\ \A h \in Handlers : RequestTypeOK(requests[h])
    /\ missed \subseteq Packs /\ told \in [Packs -> SUBSET Owners] /\ changes \in 0..MaxChanges

\* What the provider lists it has told, and still tells until it is acknowledged; it tells nothing else.
ToldOf(type, p) == \E e \in pending \cup handled : e.type = type /\ e.pack = p
NewsInv == \A p \in Packs :
    /\ p \in refunded => listed[p] # Bought!Nobody /\ ToldOf("REFUND", p)
    /\ listed[p] # Bought!Nobody => ToldOf("PURCHASE", p)
    /\ \A e \in pending \cup handled : e.pack = p /\ e.type = "REFUND" => p \in refunded

\* A request takes for refunded only what is.
RequestInv(w, news, gone) ==
    /\ w.pc = "event" => w.event \in news
    /\ w.pc \in {"receipt", "write"} => (w.revoked => w.pack \in gone)
RequestsInv == \A h \in Handlers : RequestInv(requests[h], pending \cup handled, refunded)

\* What was acknowledged and heeded stands in the ledger, and a row is revoked only for a refund.
LedgerInv == \A p \in Packs :
    /\ ledger[p].revoked => p \in refunded /\ ledger[p].owner # Bought!Nobody
    /\ p \notin missed => \A e \in handled : e.pack = p =>
          ledger[p].owner # Bought!Nobody /\ (e.type = "REFUND" => ledger[p].revoked)

PacksInv == PacksTypeOK /\ NewsInv /\ RequestsInv /\ LedgerInv /\ Bought!PacksHaveOneOwner

LEMMA PacksBegin ==
  ASSUME Bought!AddonPurchasesAssumption PROVE Bought!Init => PacksInv
<1> SUFFICES ASSUME Bought!Init PROVE PacksInv
  OBVIOUS
<1> USE DEF Bought!AddonPurchasesAssumption, Bought!Init, Bought!Nobody
<1>1. PacksTypeOK
  <2>1. told \in [Packs -> SUBSET Owners]
    OBVIOUS
  <2>2. Bought!NoRow \in Purchase
    BY DEF Bought!NoRow, Purchase
  <2>3. ledger \in [Packs -> Purchase]
    BY <2>2
  <2>4. listed \in [Packs -> Owners \cup {Bought!Nobody}] /\ account \in [Owners -> {"none", "there", "deleted"}]
    OBVIOUS
  <2>5. RequestTypeOK(Bought!Idle)
    BY DEF RequestTypeOK, Bought!Idle
  <2>6. DOMAIN requests = Handlers /\ \A h \in Handlers : RequestTypeOK(requests[h])
    BY <2>5
  <2>7. changes \in 0..MaxChanges
    OBVIOUS
  <2>. QED BY <2>1, <2>3, <2>4, <2>6, <2>7 DEF PacksTypeOK
<1>2. NewsInv /\ RequestsInv /\ LedgerInv /\ Bought!PacksHaveOneOwner
  BY DEF NewsInv, RequestsInv, RequestInv, LedgerInv, Bought!PacksHaveOneOwner, ToldOf, Bought!NoRow,
     Bought!Idle
<1>. QED BY <1>1, <1>2 DEF PacksInv

---------------------------------------------------------------------------------
(***************************************************************************)
(* What the steps of AddonPurchases are made of.                           *)
(***************************************************************************)
\* One request goes on, the others stand still.
LEMMA OneRequest ==
  ASSUME PacksTypeOK, RequestsInv, NEW h \in Handlers, NEW new, Bought!Becomes(h, new), RequestTypeOK(new),
         refunded \subseteq refunded', pending \cup handled \subseteq pending' \cup handled',
         RequestInv(new, pending' \cup handled', refunded')
  PROVE  /\ DOMAIN requests' = Handlers /\ (\A g \in Handlers : RequestTypeOK(requests'[g]))
         /\ RequestsInv'
<1>1. DOMAIN requests' = Handlers /\ requests'[h] = new /\ \A g \in Handlers \ {h} : requests'[g] = requests[g]
  BY DEF Bought!Becomes, PacksTypeOK
<1>2. \A g \in Handlers : RequestTypeOK(requests'[g])
  BY <1>1 DEF PacksTypeOK
<1>3. ASSUME NEW g \in Handlers PROVE RequestInv(requests'[g], pending' \cup handled', refunded')
  <2>1. CASE g = h
    BY <2>1, <1>1
  <2>2. CASE g # h
    <3>1. requests'[g] = requests[g] /\ RequestInv(requests[g], pending \cup handled, refunded)
      BY <2>2, <1>1 DEF RequestsInv
    <3>. QED BY <3>1 DEF RequestInv
  <2>. QED BY <2>1, <2>2
<1>. QED BY <1>1, <1>2, <1>3 DEF RequestsInv

\* What was told stays told when a webhook is acknowledged.
LEMMA NewsStay ==
  ASSUME NewsInv, UNCHANGED <<listed, refunded>>, pending' \cup handled' = pending \cup handled
  PROVE  NewsInv'
  BY DEF NewsInv, ToldOf

\* A write to the ledger: the pack is the owner's, who had it or nobody, and stays revoked.
LEMMA Applied ==
  ASSUME Bought!AddonPurchasesAssumption, PacksTypeOK, LedgerInv, NEW o \in Owners, NEW p \in Packs,
         NEW revoke \in BOOLEAN,
         Bought!Apply(o, p, revoke)
  PROVE  /\ ledger' \in [Packs -> Purchase] /\ \A q \in Packs \ {p} : ledger'[q] = ledger[q]
         /\ ledger'[p].owner = o /\ ledger[p].owner \in {Bought!Nobody, o} /\ o # Bought!Nobody
         /\ ledger'[p].revoked <=> ledger[p].revoked \/ revoke
<1>1. /\ ledger \in [Packs -> Purchase] /\ ledger[p] \in Purchase
      /\ ledger[p].owner \in {Bought!Nobody, o} /\ o # Bought!Nobody
      /\ ledger' = [ledger EXCEPT ![p] = Bought!Recorded(o, p, revoke)]
      /\ ledger[p].revoked => ledger[p].owner # Bought!Nobody
  BY DEF Bought!AddonPurchasesAssumption, Bought!Apply, Bought!Conflict, PacksTypeOK, LedgerInv, Bought!Nobody
<1>2. /\ Bought!Recorded(o, p, revoke) \in Purchase /\ Bought!Recorded(o, p, revoke).owner = o
      /\ Bought!Recorded(o, p, revoke).revoked <=> ledger[p].revoked \/ revoke
  <2>1. CASE ledger[p] = Bought!NoRow
    BY <2>1 DEF Bought!Recorded, Bought!Granted, Purchase, Bought!NoRow
  <2>2. CASE ledger[p] # Bought!NoRow
    <3>1. ledger[p].owner = o
      BY <1>1, <2>2 DEF Purchase, Bought!NoRow
    <3>2. Bought!Recorded(o, p, revoke) = [ledger[p] EXCEPT !.revoked = @ \/ revoke]
      BY <2>2 DEF Bought!Recorded
    <3>. QED BY <1>1, <3>1, <3>2 DEF Purchase
  <2>. QED BY <2>1, <2>2
<1>. QED BY <1>1, <1>2

\* It keeps what the ledger says of acknowledged webhooks and of whom a pack was promised to.
LEMMA AppliedKeeps ==
  ASSUME Bought!AddonPurchasesAssumption, PacksInv, NEW o \in Owners, NEW p \in Packs, NEW revoke \in BOOLEAN,
         Bought!Apply(o, p, revoke), revoke => p \in refunded, UNCHANGED <<refunded, missed>>,
         \A e \in handled' : e \in handled \/ (e.pack = p /\ (e.type = "REFUND" => revoke))
  PROVE  /\ ledger' \in [Packs -> Purchase] /\ LedgerInv'
         /\ told' \in {told, [told EXCEPT ![p] = @ \cup {o}]} => 
               told' \in [Packs -> SUBSET Owners] /\ Bought!PacksHaveOneOwner'
<1>1. PacksTypeOK /\ LedgerInv /\ Bought!PacksHaveOneOwner
  BY DEF PacksInv
<1>2. /\ ledger' \in [Packs -> Purchase] /\ \A q \in Packs \ {p} : ledger'[q] = ledger[q]
      /\ ledger'[p].owner = o /\ ledger[p].owner \in {Bought!Nobody, o} /\ o # Bought!Nobody
      /\ ledger'[p].revoked <=> ledger[p].revoked \/ revoke
  BY <1>1, Applied
<1>3. LedgerInv'
  BY <1>1, <1>2 DEF LedgerInv
<1>4. told \in [Packs -> SUBSET Owners]
  BY <1>1 DEF PacksTypeOK
<1>5. ASSUME told' \in {told, [told EXCEPT ![p] = @ \cup {o}]}
      PROVE  told' \in [Packs -> SUBSET Owners] /\ Bought!PacksHaveOneOwner'
  <2>1. /\ \A q \in Packs \ {p} : told'[q] = told[q]
        /\ told'[p] \subseteq told[p] \cup {o} /\ told' \in [Packs -> SUBSET Owners]
    BY <1>4, <1>5
  <2>. QED BY <2>1, <1>1, <1>2 DEF Bought!PacksHaveOneOwner
<1>. QED BY <1>2, <1>3, <1>5

---------------------------------------------------------------------------------
(***************************************************************************)
(* The steps of AddonPurchases.                                            *)
(***************************************************************************)
LEMMA OneMore ==
  ASSUME NEW type, NEW p, NEW o, Bought!Tell(type, p, o), handled' = handled
  PROVE  /\ ToldOf(type, p)' /\ pending \cup handled \subseteq pending' \cup handled'
         /\ \A e \in pending' \cup handled' : e \in pending \cup handled \/ (e.type = type /\ e.pack = p)
<1> DEFINE e == [type |-> type, pack |-> p, owner |-> o]
<1>1. pending' = pending \cup {e} /\ e.type = type /\ e.pack = p
  BY DEF Bought!Tell
<1>. HIDE DEF e
<1>. QED BY <1>1 DEF ToldOf

LEMMA StillTold ==
  ASSUME pending \cup handled \subseteq pending' \cup handled', NEW type, NEW p, ToldOf(type, p)
  PROVE  ToldOf(type, p)'
  BY DEF ToldOf

LEMMA ProviderPreserves ==
  ASSUME Bought!AddonPurchasesAssumption, PacksInv, NEW p \in Packs,
         Bought!Refunds(p) \/ \E o \in Owners : Bought!Buys(o, p) \/ Bought!Moves(p, o)
  PROVE  PacksInv'
<1> USE DEF Bought!Nobody
<1>1. PacksTypeOK /\ NewsInv /\ RequestsInv /\ LedgerInv /\ Bought!PacksHaveOneOwner
  BY DEF PacksInv
<1>2. /\ UNCHANGED <<renamed, account, ledger, handled, requests, missed, told>> /\ changes' \in 0..MaxChanges
      /\ refunded \subseteq refunded' /\ pending \subseteq pending'
  BY <1>1 DEF Bought!AddonPurchasesAssumption, Bought!Refunds, Bought!Buys, Bought!Moves, Bought!Api,
     Bought!Changes, Bought!Tell, PacksTypeOK
<1>3. /\ listed' \in [Packs -> Owners \cup {Bought!Nobody}] /\ refunded' \subseteq Packs /\ pending' \subseteq Bought!Event
      /\ NewsInv'
  <2>1. CASE Bought!Refunds(p)
    <3>1. /\ listed[p] # Bought!Nobody /\ listed' = listed /\ refunded' = refunded \cup {p} /\ handled' = handled
          /\ pending' = pending \cup {[type |-> "REFUND", pack |-> p, owner |-> listed[p]]}
      BY <2>1 DEF Bought!Refunds, Bought!Tell, Bought!Api
    <3>2. [type |-> "REFUND", pack |-> p, owner |-> listed[p]] \in Bought!Event
      BY <1>1, <3>1 DEF PacksTypeOK, Bought!Event
    <3>3. /\ ToldOf("REFUND", p)' /\ pending \cup handled \subseteq pending' \cup handled'
          /\ \A e \in pending' \cup handled' : e \in pending \cup handled \/ e.pack = p
      BY <2>1, <3>1, OneMore DEF Bought!Refunds
    <3>4. NewsInv'
      BY <1>1, <3>1, <3>3, StillTold DEF NewsInv
    <3>. QED BY <1>1, <3>1, <3>2, <3>4 DEF PacksTypeOK
  <2>2. ASSUME NEW o \in Owners, Bought!Buys(o, p)
        PROVE  /\ listed' \in [Packs -> Owners \cup {Bought!Nobody}]
               /\ refunded' \subseteq Packs /\ pending' \subseteq Bought!Event
               /\ NewsInv'
    <3>1. /\ listed' = [listed EXCEPT ![p] = o] /\ refunded' = refunded /\ handled' = handled
          /\ pending' = pending \cup {[type |-> "PURCHASE", pack |-> p, owner |-> o]}
      BY <2>2 DEF Bought!Buys, Bought!Tell, Bought!Api
    <3>2. [type |-> "PURCHASE", pack |-> p, owner |-> o] \in Bought!Event
      BY DEF Bought!Event
    <3>3. o # Bought!Nobody /\ listed \in [Packs -> Owners \cup {Bought!Nobody}]
      BY <1>1 DEF Bought!AddonPurchasesAssumption, PacksTypeOK
    <3>4. listed'[p] # Bought!Nobody /\ \A q \in Packs \ {p} : listed'[q] = listed[q]
      BY <3>1, <3>3
    <3>5. /\ ToldOf("PURCHASE", p)' /\ pending \cup handled \subseteq pending' \cup handled'
          /\ \A e \in pending' \cup handled' : e \in pending \cup handled \/ e.type = "PURCHASE"
      BY <2>2, <3>1, OneMore DEF Bought!Buys
    <3>6. NewsInv'
      <4>1. \A q \in Packs : q \in refunded => listed'[q] # Bought!Nobody
        BY <1>1, <3>4 DEF NewsInv
      <4>2. \A q \in Packs : listed'[q] # Bought!Nobody => ToldOf("PURCHASE", q)'
        BY <1>1, <3>4, <3>5, StillTold DEF NewsInv
      <4>3. \A q \in Packs : \A e \in pending' \cup handled' : e.pack = q /\ e.type = "REFUND" => q \in refunded
        BY <1>1, <3>5 DEF NewsInv
      <4>4. \A q \in Packs : q \in refunded => ToldOf("REFUND", q)'
        BY <1>1, <3>5, StillTold DEF NewsInv
      <4>. QED BY <3>1, <4>1, <4>2, <4>3, <4>4 DEF NewsInv
    <3>. QED BY <1>1, <3>1, <3>2, <3>3, <3>6 DEF PacksTypeOK
  <2>3. ASSUME NEW o \in Owners, Bought!Moves(p, o)
        PROVE  /\ listed' \in [Packs -> Owners \cup {Bought!Nobody}]
               /\ refunded' \subseteq Packs /\ pending' \subseteq Bought!Event
               /\ NewsInv'
    <3>1. /\ listed' = [listed EXCEPT ![p] = o] /\ UNCHANGED <<refunded, pending, handled>> /\ listed[p] # Bought!Nobody
      BY <2>3 DEF Bought!Moves, Bought!Api
    <3>2. listed \in [Packs -> Owners \cup {Bought!Nobody}] /\ o # Bought!Nobody
      BY <1>1 DEF Bought!AddonPurchasesAssumption, PacksTypeOK
    <3>3. listed'[p] # Bought!Nobody /\ \A q \in Packs \ {p} : listed'[q] = listed[q]
      BY <3>1, <3>2
    <3>4. NewsInv'
      BY <1>1, <3>1, <3>3 DEF NewsInv, ToldOf
    <3>. QED BY <1>1, <3>1, <3>2, <3>4 DEF PacksTypeOK
  <2>. QED BY <2>1, <2>2, <2>3
<1>4. PacksTypeOK'
  BY <1>1, <1>2, <1>3 DEF PacksTypeOK
<1>5. RequestsInv'
  BY <1>1, <1>2 DEF RequestsInv, RequestInv
<1>6. LedgerInv' /\ Bought!PacksHaveOneOwner'
  BY <1>1, <1>2 DEF LedgerInv, Bought!PacksHaveOneOwner
<1>. QED BY <1>3, <1>4, <1>5, <1>6 DEF PacksInv

\* A request that only looks: it goes on or gives up, and promises at most what the ledger says.
Quiet(h) ==
    /\ UNCHANGED <<listed, refunded, changes, renamed, ledger, pending, handled, missed>>
    /\ account' \in [Owners -> {"none", "there", "deleted"}]
    /\ \/ UNCHANGED requests
       \/ \E new : Bought!Becomes(h, new) /\ RequestTypeOK(new) /\ RequestInv(new, pending \cup handled, refunded)
    /\ \/ UNCHANGED told
       \/ \E o \in Owners, p \in Packs : ledger[p].owner = o /\ Bought!Confirmed(o, p)

LEMMA QuietPreserves ==
  ASSUME Bought!AddonPurchasesAssumption, PacksInv, NEW h \in Handlers, Quiet(h) PROVE PacksInv'
<1>1. PacksTypeOK /\ NewsInv /\ RequestsInv /\ LedgerInv /\ Bought!PacksHaveOneOwner
  BY DEF PacksInv
<1>2. /\ UNCHANGED <<listed, refunded, changes, renamed, ledger, pending, handled, missed>>
      /\ account' \in [Owners -> {"none", "there", "deleted"}]
  BY DEF Quiet
<1>3. DOMAIN requests' = Handlers /\ (\A g \in Handlers : RequestTypeOK(requests'[g])) /\ RequestsInv'
  <2>1. CASE UNCHANGED requests
    BY <1>1, <1>2, <2>1 DEF PacksTypeOK, RequestsInv
  <2>2. ASSUME NEW new, Bought!Becomes(h, new), RequestTypeOK(new), RequestInv(new, pending \cup handled, refunded)
        PROVE  DOMAIN requests' = Handlers /\ (\A g \in Handlers : RequestTypeOK(requests'[g])) /\ RequestsInv'
    BY <1>1, <1>2, <2>2, OneRequest
  <2>. QED BY <2>1, <2>2 DEF Quiet
<1>4. told' \in [Packs -> SUBSET Owners] /\ Bought!PacksHaveOneOwner'
  <2>1. CASE UNCHANGED told
    BY <1>1, <1>2, <2>1 DEF PacksTypeOK, Bought!PacksHaveOneOwner
  <2>2. ASSUME NEW o \in Owners, NEW p \in Packs, ledger[p].owner = o, Bought!Confirmed(o, p)
        PROVE  told' \in [Packs -> SUBSET Owners] /\ Bought!PacksHaveOneOwner'
    <3>1. told \in [Packs -> SUBSET Owners] /\ o # Bought!Nobody
      BY <1>1 DEF Bought!AddonPurchasesAssumption, PacksTypeOK, Bought!Nobody
    <3>2. /\ told' \in [Packs -> SUBSET Owners] /\ told'[p] = told[p] \cup {o}
          /\ \A q \in Packs \ {p} : told'[q] = told[q]
      BY <2>2, <3>1 DEF Bought!Confirmed
    <3>. QED BY <1>1, <1>2, <2>2, <3>1, <3>2 DEF Bought!PacksHaveOneOwner
  <2>. QED BY <2>1, <2>2 DEF Quiet
<1>5. PacksTypeOK'
  BY <1>1, <1>2, <1>3, <1>4 DEF PacksTypeOK
<1>6. NewsInv' /\ LedgerInv'
  BY <1>1, <1>2 DEF NewsInv, ToldOf, LedgerInv
<1>. QED BY <1>3, <1>4, <1>5, <1>6 DEF PacksInv

LEMMA IdleFits == RequestTypeOK(Bought!Idle) /\ \A news, gone : RequestInv(Bought!Idle, news, gone)
  BY DEF RequestTypeOK, RequestInv, Bought!Idle

LEMMA LookedUp ==
  ASSUME NEW w, NEW pc, NEW o, NEW p, NEW gone,
         w = [pc |-> pc, owner |-> o, pack |-> p, revoked |-> p \in gone]
  PROVE  w.revoked \in BOOLEAN /\ (w.revoked => p \in gone)
<1>1. w.revoked = (p \in gone)
  BY Zenon
<1>2. w.revoked \in BOOLEAN
  BY <1>1
<1>. QED BY <1>1, <1>2

LEMMA LooksAreQuiet ==
  ASSUME PacksInv, NEW h \in Handlers,
         Bought!EventFails(h) \/ Bought!LookUp(h) \/ Bought!LookUpFails(h)
         \/ Bought!ReadReceipt(h) \/ Bought!WriteFails(h)
  PROVE  Quiet(h)
<1>1. PacksTypeOK /\ RequestTypeOK(requests[h]) /\ RequestInv(requests[h], pending \cup handled, refunded)
  BY DEF PacksInv, PacksTypeOK, RequestsInv
<1>2. /\ UNCHANGED <<listed, refunded, changes, renamed, ledger, pending, handled, missed>>
      /\ account' \in [Owners -> {"none", "there", "deleted"}]
  BY <1>1 DEF Bought!EventFails, Bought!LookUp, Bought!LookUpFails, Bought!ReadReceipt, Bought!WriteFails,
     Bought!Provider, Bought!Webhooks, PacksTypeOK
<1>3. CASE Bought!EventFails(h) \/ Bought!LookUpFails(h) \/ Bought!WriteFails(h)
  <2>1. Bought!Becomes(h, Bought!Idle) /\ UNCHANGED told
    BY <1>3 DEF Bought!EventFails, Bought!LookUpFails, Bought!WriteFails
  <2>. QED BY <1>2, <2>1, IdleFits DEF Quiet
<1>4. CASE Bought!LookUp(h)
  <2> DEFINE new == [pc |-> IF Bought!Known(requests[h].pack) THEN "write" ELSE "receipt", owner |-> requests[h].owner,
                     pack |-> requests[h].pack, revoked |-> requests[h].pack \in refunded]
  <2>1. Bought!Becomes(h, new) /\ UNCHANGED told /\ requests[h].pc = "lookup"
    BY <1>4 DEF Bought!LookUp
  <2>2. RequestTypeOK(new) /\ RequestInv(new, pending \cup handled, refunded)
    <3>1. new.pc \in {"write", "receipt"} /\ new.owner = requests[h].owner /\ new.pack = requests[h].pack
      OBVIOUS
    <3>2. new.revoked \in BOOLEAN /\ (new.revoked => requests[h].pack \in refunded)
      BY LookedUp
    <3>3. requests[h].owner \in Owners /\ requests[h].pack \in Packs
      BY <1>1, <2>1 DEF RequestTypeOK
    <3>. HIDE DEF new
    <3>. QED BY <3>1, <3>2, <3>3 DEF RequestTypeOK, RequestInv
  <2>. QED BY <1>2, <2>1, <2>2 DEF Quiet
<1>5. CASE Bought!ReadReceipt(h)
  <2>1. /\ requests[h].pc = "receipt" /\ requests[h].owner \in Owners /\ requests[h].pack \in Packs
        /\ requests[h].revoked \in BOOLEAN
    BY <1>1, <1>5 DEF Bought!ReadReceipt, RequestTypeOK
  <2>2. CASE Bought!Becomes(h, Bought!Idle) /\ UNCHANGED told
    BY <1>2, <2>2, IdleFits DEF Quiet
  <2>3. CASE requests[h].revoked /\ Bought!Becomes(h, [requests[h] EXCEPT !.pc = "write"]) /\ UNCHANGED told
    <3> DEFINE new == [requests[h] EXCEPT !.pc = "write"]
    <3>1. /\ new.pc \in {"write", "receipt"}
          /\ new.owner = requests[h].owner /\ new.pack = requests[h].pack /\ new.revoked = requests[h].revoked
      OBVIOUS
    <3>2. RequestTypeOK(new) /\ RequestInv(new, pending \cup handled, refunded)
      BY <1>1, <2>1, <3>1 DEF RequestTypeOK, RequestInv
    <3>. QED BY <1>2, <2>3, <3>2 DEF Quiet
  <2>4. CASE /\ Bought!Becomes(h, Bought!Idle) /\ Bought!Receipt(requests[h].owner, requests[h].pack)
             /\ UNCHANGED told \/ Bought!Confirmed(requests[h].owner, requests[h].pack)
    BY <1>2, <2>1, <2>4, IdleFits DEF Quiet, Bought!Receipt
  <2>. QED BY <1>5, <2>2, <2>3, <2>4 DEF Bought!ReadReceipt
<1>. QED BY <1>3, <1>4, <1>5

LEMMA AskIsQuiet ==
  ASSUME Bought!AddonPurchasesAssumption, PacksInv, NEW h \in Handlers, NEW o \in Owners,
         NEW text \in Packs, NEW kind \in Bought!Kinds,
         Bought!Ask(h, o, text, kind)
  PROVE  Quiet(h)
<1>1. PacksTypeOK
  BY DEF PacksInv
<1>2. /\ UNCHANGED <<listed, refunded, changes, renamed, ledger, pending, handled, missed>>
      /\ account' \in [Owners -> {"none", "there", "deleted"}]
  BY <1>1 DEF Bought!Ask, Bought!Provider, Bought!Webhooks, PacksTypeOK
<1>3. Bought!Meant(text, kind) \in Packs /\ (kind = "STORE" => Bought!Meant(text, kind) = text)
  BY DEF Bought!AddonPurchasesAssumption, Bought!Meant
<1>4. CASE Bought!Shortcut(o, text, kind)
  <2>1. UNCHANGED requests /\ (UNCHANGED told \/ Bought!Confirmed(o, text)) /\ ledger[text].owner = o
    BY <1>3, <1>4 DEF Bought!Ask, Bought!Shortcut, Bought!Receipt
  <2>. QED BY <1>2, <2>1 DEF Quiet
<1>5. CASE ~Bought!Shortcut(o, text, kind)
  <2> DEFINE new == [pc |-> "lookup", owner |-> o, pack |-> Bought!Meant(text, kind)]
  <2>1. UNCHANGED told /\ (Bought!Becomes(h, new) \/ UNCHANGED requests)
    BY <1>5 DEF Bought!Ask
  <2>2. RequestTypeOK(new) /\ RequestInv(new, pending \cup handled, refunded)
    BY <1>3 DEF RequestTypeOK, RequestInv
  <2>. QED BY <1>2, <2>1, <2>2 DEF Quiet
<1>. QED BY <1>4, <1>5

\* A webhook is taken up, or acknowledged although it is not heeded: then its pack is missed.
LEMMA ReceivePreserves ==
  ASSUME Bought!AddonPurchasesAssumption, PacksInv, NEW h \in Handlers,
         NEW e \in pending \cup handled, Bought!Receive(h, e)
  PROVE  PacksInv'
<1>1. PacksTypeOK /\ NewsInv /\ RequestsInv /\ LedgerInv /\ Bought!PacksHaveOneOwner /\ e \in Bought!Event
  BY DEF PacksInv, PacksTypeOK
<1>2. CASE Bought!Heeded(e)
  <2> DEFINE new == [pc |-> "event", event |-> e]
  <2>1. /\ UNCHANGED <<listed, refunded, changes, renamed, ledger, pending, handled, missed, told>>
        /\ account' \in [Owners -> {"none", "there", "deleted"}] /\ Bought!Becomes(h, new)
    BY <1>1, <1>2 DEF Bought!Receive, Bought!Provider, PacksTypeOK
  <2>2. RequestTypeOK(new) /\ RequestInv(new, pending \cup handled, refunded)
    BY <1>1 DEF RequestTypeOK, RequestInv
  <2>3. Quiet(h)
    BY <2>1, <2>2 DEF Quiet
  <2>. QED BY <2>3, QuietPreserves
<1>3. CASE ~Bought!Heeded(e)
  <2>1. /\ UNCHANGED <<listed, refunded, changes, renamed, account, ledger, told, requests>>
        /\ pending' = pending \ {e} /\ handled' = handled \cup {e}
        /\ missed' = IF e \in pending THEN missed \cup {e.pack} ELSE missed
    BY <1>3 DEF Bought!Receive, Bought!Provider, Bought!Acknowledged
  <2>2. pending' \cup handled' = pending \cup handled /\ pending' \subseteq Bought!Event /\ handled' \subseteq Bought!Event
    BY <1>1, <2>1 DEF PacksTypeOK
  <2>3. e.pack \in Packs
    BY <1>1 DEF Bought!Event
  <2>4. PacksTypeOK'
    BY <1>1, <2>1, <2>2, <2>3 DEF PacksTypeOK
  <2>5. NewsInv' /\ RequestsInv'
    BY <1>1, <2>1, <2>2, NewsStay DEF RequestsInv, RequestInv
  <2>6. LedgerInv' /\ Bought!PacksHaveOneOwner'
    BY <1>1, <2>1 DEF LedgerInv, Bought!PacksHaveOneOwner
  <2>. QED BY <2>4, <2>5, <2>6 DEF PacksInv
<1>. QED BY <1>2, <1>3

LEMMA WriteEventPreserves ==
  ASSUME Bought!AddonPurchasesAssumption, PacksInv, NEW h \in Handlers, Bought!WriteEvent(h) PROVE PacksInv'
<1> DEFINE e == requests[h].event  revoke == e.type = "REFUND"
<1>1. PacksTypeOK /\ NewsInv /\ RequestsInv /\ LedgerInv /\ Bought!PacksHaveOneOwner
  BY DEF PacksInv
<1>2. e \in Bought!Event /\ e \in pending \cup handled /\ e.owner \in Owners /\ e.pack \in Packs
  BY <1>1 DEF Bought!WriteEvent, PacksTypeOK, RequestTypeOK, RequestsInv, RequestInv, Bought!Event
<1>3. /\ Bought!Apply(e.owner, e.pack, revoke) /\ Bought!Becomes(h, Bought!Idle)
      /\ pending' = pending \ {e} /\ handled' = handled \cup {e}
      /\ UNCHANGED <<listed, refunded, changes, renamed, account, missed, told>>
  BY DEF Bought!WriteEvent, Bought!Acknowledged, Bought!Provider
<1>4. pending' \cup handled' = pending \cup handled /\ pending' \subseteq Bought!Event /\ handled' \subseteq Bought!Event
  BY <1>1, <1>2, <1>3 DEF PacksTypeOK
<1>5. revoke => e.pack \in refunded
  BY <1>1, <1>2 DEF NewsInv
<1>6. revoke \in BOOLEAN
  OBVIOUS
<1>7. \A f \in handled' : f \in handled \/ (f.pack = e.pack /\ (f.type = "REFUND" => revoke))
  BY <1>3
<1>. HIDE DEF e, revoke
<1>8. ledger' \in [Packs -> Purchase] /\ LedgerInv' /\ told' \in [Packs -> SUBSET Owners] /\ Bought!PacksHaveOneOwner'
  BY <1>2, <1>3, <1>5, <1>6, <1>7, AppliedKeeps
<1>9. DOMAIN requests' = Handlers /\ (\A g \in Handlers : RequestTypeOK(requests'[g])) /\ RequestsInv'
  BY <1>1, <1>3, <1>4, IdleFits, OneRequest
<1>10. PacksTypeOK' /\ NewsInv'
  BY <1>1, <1>3, <1>4, <1>8, <1>9, NewsStay DEF PacksTypeOK
<1>. QED BY <1>8, <1>9, <1>10 DEF PacksInv

LEMMA WritePreserves ==
  ASSUME Bought!AddonPurchasesAssumption, PacksInv, NEW h \in Handlers, Bought!Write(h) PROVE PacksInv'
<1> DEFINE w == requests[h]
<1>1. PacksTypeOK /\ NewsInv /\ RequestsInv /\ LedgerInv /\ Bought!PacksHaveOneOwner
  BY DEF PacksInv
<1>2. w.owner \in Owners /\ w.pack \in Packs /\ w.revoked \in BOOLEAN /\ (w.revoked => w.pack \in refunded)
  BY <1>1 DEF Bought!Write, PacksTypeOK, RequestTypeOK, RequestsInv, RequestInv
<1>3. /\ Bought!Apply(w.owner, w.pack, w.revoked) /\ Bought!Becomes(h, Bought!Idle)
      /\ told' \in {told, [told EXCEPT ![w.pack] = @ \cup {w.owner}]}
      /\ UNCHANGED <<listed, refunded, changes, renamed, account, missed, pending, handled>>
  BY DEF Bought!Write, Bought!Confirmed, Bought!Provider, Bought!Webhooks
<1>. HIDE DEF w
<1>4. ledger' \in [Packs -> Purchase] /\ LedgerInv' /\ told' \in [Packs -> SUBSET Owners] /\ Bought!PacksHaveOneOwner'
  BY <1>2, <1>3, AppliedKeeps
<1>5. DOMAIN requests' = Handlers /\ (\A g \in Handlers : RequestTypeOK(requests'[g])) /\ RequestsInv'
  BY <1>1, <1>3, IdleFits, OneRequest
<1>6. PacksTypeOK' /\ NewsInv'
  BY <1>1, <1>3, <1>4, <1>5, NewsStay DEF PacksTypeOK
<1>. QED BY <1>4, <1>5, <1>6 DEF PacksInv

LEMMA RestPreserves ==
  ASSUME PacksInv,
         Bought!Restart \/ (\E o \in Owners : Bought!Deletes(o)) \/ UNCHANGED Bought!vars PROVE PacksInv'
<1>1. PacksTypeOK /\ NewsInv /\ RequestsInv /\ LedgerInv /\ Bought!PacksHaveOneOwner
  BY DEF PacksInv
<1>2. /\ UNCHANGED <<listed, refunded, changes, ledger, pending, handled, missed, told>>
      /\ renamed' \in BOOLEAN /\ account' \in [Owners -> {"none", "there", "deleted"}]
  BY <1>1 DEF Bought!Restart, Bought!Deletes, Bought!Provider, Bought!Webhooks, Bought!vars, PacksTypeOK
<1>3. UNCHANGED requests \/ requests' = [h \in Handlers |-> Bought!Idle]
  BY DEF Bought!Restart, Bought!Deletes, Bought!vars
<1>4. DOMAIN requests' = Handlers /\ (\A g \in Handlers : RequestTypeOK(requests'[g])) /\ RequestsInv'
  BY <1>1, <1>2, <1>3, IdleFits DEF PacksTypeOK, RequestsInv
<1>5. PacksTypeOK' /\ NewsInv'
  BY <1>1, <1>2, <1>4, NewsStay DEF PacksTypeOK
<1>6. LedgerInv' /\ Bought!PacksHaveOneOwner'
  BY <1>1, <1>2 DEF LedgerInv, Bought!PacksHaveOneOwner
<1>. QED BY <1>4, <1>5, <1>6 DEF PacksInv

LEMMA PacksKeep ==
  ASSUME Bought!AddonPurchasesAssumption PROVE PacksInv /\ [Bought!Next]_(Bought!vars) => PacksInv'
<1> SUFFICES ASSUME PacksInv, [Bought!Next]_(Bought!vars) PROVE PacksInv'
  OBVIOUS
<1>1. ASSUME NEW p \in Packs, Bought!Refunds(p) \/ \E o \in Owners : Bought!Buys(o, p) \/ Bought!Moves(p,
             o) PROVE PacksInv'
  BY <1>1, ProviderPreserves
<1>2. ASSUME NEW h \in Handlers, NEW e \in pending \cup handled, Bought!Receive(h, e) PROVE PacksInv'
  BY <1>2, ReceivePreserves
<1>3. ASSUME NEW h \in Handlers,
             Bought!EventFails(h) \/ Bought!LookUp(h) \/ Bought!LookUpFails(h)
         \/ Bought!ReadReceipt(h) \/ Bought!WriteFails(h)
      PROVE  PacksInv'
  BY <1>3, LooksAreQuiet, QuietPreserves
<1>4. ASSUME NEW h \in Handlers, NEW o \in Owners, NEW text \in Packs,
             NEW kind \in Bought!Kinds, Bought!Ask(h, o, text, kind)
      PROVE  PacksInv'
  BY <1>4, AskIsQuiet, QuietPreserves
<1>5. ASSUME NEW h \in Handlers, Bought!WriteEvent(h) \/ Bought!Write(h) PROVE PacksInv'
  BY <1>5, WriteEventPreserves, WritePreserves
<1>6. CASE Bought!Restart \/ (\E o \in Owners : Bought!Deletes(o)) \/ UNCHANGED Bought!vars
  BY <1>6, RestPreserves
<1>. QED BY <1>1, <1>2, <1>3, <1>4, <1>5, <1>6 DEF Bought!Next

\* The inductive invariant: what the provider lists it has told or tells still; what was acknowledged
\* stands in the ledger, unless its pack was missed; and nothing but a refund revokes a row.
THEOREM PacksInvariance ==
  ASSUME Bought!AddonPurchasesAssumption PROVE Bought!Spec => []PacksInv
<1>1. Bought!Init => PacksInv
  BY PacksBegin
<1>2. PacksInv /\ [Bought!Next]_(Bought!vars) => PacksInv'
  BY PacksKeep
<1>. QED BY <1>1, <1>2, PTL DEF Bought!Spec

\* A pack counts for one owner for as long as it is not refunded, and is promised to no second one:
\* however webhooks are lost, repeated and reordered, whoever asks for it under which id, and whatever
\* store account or owner it is passed on from.
THEOREM PacksAreSafe ==
  ASSUME Bought!AddonPurchasesAssumption PROVE Bought!Spec => []PacksAreAccounted
<1>1. ASSUME PacksInv PROVE PacksAreAccounted
  <2> USE DEF PacksInv
  <2> SUFFICES ASSUME NEW p \in Packs \ missed
               PROVE  /\ \A e \in handled : e.pack = p /\ e.type = "REFUND" => ~Bought!Counts(p)
                      /\ Bought!Settled /\ listed[p] # Bought!Nobody =>
                            ledger[p] # Bought!NoRow /\ (Bought!Linked(p) => (Bought!Counts(p) <=> p \notin refunded))
    BY <1>1 DEF PacksAreAccounted, Bought!PacksAreAccounted, Bought!CreditsFollowPurchases
  <2>1. \A e \in handled : e.pack = p /\ e.type = "REFUND" => ~Bought!Counts(p)
    BY <1>1 DEF LedgerInv, Bought!Counts
  <2>2. ASSUME Bought!Settled, listed[p] # Bought!Nobody
        PROVE  ledger[p] # Bought!NoRow /\ (Bought!Linked(p) => (Bought!Counts(p) <=> p \notin refunded))
    <3>1. \E e \in handled : e.pack = p /\ (p \in refunded => \E f \in handled : f.pack = p /\ f.type = "REFUND")
      BY <1>1, <2>2 DEF NewsInv, ToldOf, Bought!Settled
    <3>2. ledger[p].owner # Bought!Nobody /\ (p \in refunded <=> ledger[p].revoked)
      BY <1>1, <3>1 DEF LedgerInv
    <3>. QED BY <3>2 DEF Bought!Counts, Bought!NoRow
  <2>. QED BY <2>1, <2>2
<1>2. PacksInv => PacksAreAccounted
  BY <1>1
<1>. QED BY <1>2, PacksInvariance, PTL

-------------------------------------------------------------------------------
(***************************************************************************)
(* The names and styles of pages.                                          *)
(***************************************************************************)
\* What a request knows of its owner's page and of its name, while its transaction is open.
AskedInv(w) == w.pc # "idle" => w.by \in Owners /\ w.slug \in Slugs
StyleInv(w, pages) ==
    w.pc \in Pages!Open /\ Pages!Checks(w) /\ ~w.stale =>
        w.style = IF pages[w.by] = None THEN Free ELSE pages[w.by].style
BarredInv(w, pages, taken) ==
    /\ w.pc \in Pages!Open /\ w.barred # "nobody" => Pages!Standing(w.by, w.slug, w.at, pages, taken) = w.barred
    /\ w.pc = "reservation" => w.barred # "held"
    /\ w.pc \in {"remove", "write"} => w.barred = "nobody"

\* The reservation that a request has deleted, and that others still see until it commits.
TakesInv(w, taken) ==
    w.removes => /\ w.pc = "write" /\ taken[w.slug] # None
                 /\ taken[w.slug].by = w.by \/ Pages!Expired(taken[w.slug], w.at)

ClaimInv(w, pages, taken) == AskedInv(w) /\ StyleInv(w, pages) /\ BarredInv(w, pages, taken) /\ TakesInv(w, taken)
PagesInv == Pages!TypeOK /\ \A h \in Publishers : ClaimInv(claims[h], profile, reserved)

NamesApart(pages) == \A o, p \in Owners : o # p /\ pages[o] # None /\ pages[p] # None => pages[o].slug # pages[p].slug

-----------------------------------------------------------------------------
LEMMA PagesNumbered ==
  ASSUME Pages!PagesAssumption
  PROVE  /\ MaxTime \in Nat /\ 0 \in Pages!Times /\ Pages!Times \subseteq Nat
         /\ None \notin Owners /\ None \notin Slugs /\ None \notin Pages!Styles /\ Free \notin Premium
  BY DEF Pages!PagesAssumption, Pages!Times, Pages!Styles

LEMMA NoClaimFits ==
  ASSUME Pages!PagesAssumption
  PROVE  /\ Pages!Idle \in Pages!Work /\ Pages!Idle.pc = "idle" /\ ~Pages!Idle.removes
         /\ \A pages, taken : ClaimInv(Pages!Idle, pages, taken)
  BY PagesNumbered DEF Pages!Idle, Pages!Work, Pages!Open, ClaimInv, AskedInv, StyleInv, BarredInv, TakesInv

LEMMA StandingIs ==
  ASSUME NEW o, NEW s, NEW t, NEW pages, NEW taken
  PROVE  Pages!Standing(o, s, t, pages, taken) \in {"nobody", "held", "reserved"}
  BY DEF Pages!Standing

\* One request goes on, and no row changes.
LEMMA ClaimMoves ==
  ASSUME PagesInv, NEW h \in Publishers, NEW new \in Pages!Work, Pages!Becomes(h, new),
         UNCHANGED <<profile, reserved>>, clock' \in Pages!Times, ClaimInv(new, profile, reserved)
  PROVE  PagesInv'
<1>1. /\ claims' \in [Publishers -> Pages!Work] /\ claims'[h] = new
      /\ \A g \in Publishers \ {h} : claims'[g] = claims[g]
  BY DEF Pages!Becomes, PagesInv, Pages!TypeOK
<1>2. Pages!TypeOK'
  BY <1>1 DEF PagesInv, Pages!TypeOK
<1>3. \A g \in Publishers : ClaimInv(claims'[g], profile, reserved)
  BY <1>1 DEF PagesInv
<1>. QED BY <1>2, <1>3 DEF PagesInv

LEMMA RefusedKeeps ==
  ASSUME Pages!PagesAssumption, PagesInv, NEW h \in Publishers, Pages!Refused(h),
         UNCHANGED <<profile, reserved>>, clock' \in Pages!Times
  PROVE  PagesInv'
  BY ClaimMoves, NoClaimFits DEF Pages!Refused

\* What a request is told of a commit of somebody else.
LEMMA OvertakenIs ==
  ASSUME NEW w \in Pages!Work, NEW o, NEW pages, NEW taken, w.pc \in Pages!Open
  PROVE  LET new == Pages!Overtaken(w, o, pages, taken)
             now == Pages!Standing(w.by, w.slug, w.at, pages, taken)
         IN  /\ new \in Pages!Work /\ new.pc = w.pc /\ new.by = w.by /\ new.slug = w.slug /\ new.style = w.style
             /\ new.member = w.member /\ new.at = w.at /\ new.removes = w.removes
             /\ Pages!Checks(w) /\ w.by = o => new.stale
             /\ w.stale => new.stale
             /\ new.barred = IF w.barred = "nobody" \/ (w.barred = "reserved" /\ now = "held") THEN "nobody" ELSE now
<1> DEFINE now == Pages!Standing(w.by, w.slug, w.at, pages, taken)
           stale == w.stale \/ (Pages!Checks(w) /\ (w.by = o \/ (w.pc = "remove" /\ w.slug \in Pages!Changed(taken))))
           barred == IF w.barred = "nobody" \/ (w.barred = "reserved" /\ now = "held") THEN "nobody" ELSE now
<1>1. Pages!Overtaken(w, o, pages, taken) = [w EXCEPT !.stale = stale, !.barred = barred]
  BY DEF Pages!Overtaken
<1>2. stale \in BOOLEAN /\ barred \in {"nobody", "held", "reserved"}
  BY StandingIs
<1>3. (Pages!Checks(w) /\ w.by = o => stale) /\ (w.stale => stale)
  OBVIOUS
<1>4. barred = IF w.barred = "nobody" \/ (w.barred = "reserved" /\ now = "held") THEN "nobody" ELSE now
  OBVIOUS
<1>. HIDE DEF stale, barred, now
<1>5. [w EXCEPT !.stale = stale, !.barred = barred] \in Pages!Work
  BY <1>2 DEF Pages!Work
<1>6. /\ [w EXCEPT !.stale = stale, !.barred = barred].stale = stale
      /\ [w EXCEPT !.stale = stale, !.barred = barred].barred = barred
  BY DEF Pages!Work
<1>7. LET new == [w EXCEPT !.stale = stale, !.barred = barred]
      IN  /\ new.pc = w.pc /\ new.by = w.by /\ new.slug = w.slug /\ new.style = w.style
          /\ new.member = w.member /\ new.at = w.at /\ new.removes = w.removes
  BY DEF Pages!Work
<1>. QED BY <1>1, <1>3, <1>4, <1>5, <1>6, <1>7 DEF now

\* The rows become others, on the page of o alone, and those that a request has deleted stay.
LEMMA CommitsKeep ==
  ASSUME Pages!PagesAssumption, PagesInv, NEW o \in Owners, NEW pages \in [Owners -> Pages!Pages \cup {None}],
         NEW taken \in [Slugs -> Pages!Reservations \cup {None}], NEW works \in [Publishers -> Pages!Work],
         Pages!Commits(o, pages, taken, works), clock' \in Pages!Times, NamesApart(pages),
         \A p \in Owners \ {o} : pages[p] = profile[p],
         \A g \in Publishers :
            \/ works[g] = Pages!Idle
            \/ works[g] = claims[g] /\ (claims[g].removes => taken[claims[g].slug] = reserved[claims[g].slug])
  PROVE  PagesInv'
<1>1. profile' = pages /\ reserved' = taken /\ claims' = [g \in Publishers |-> Pages!Overtaken(works[g], o, pages, taken)]
  BY DEF Pages!Commits
<1>2. ASSUME NEW g \in Publishers
      PROVE  /\ Pages!Overtaken(works[g], o, pages, taken) \in Pages!Work
             /\ ClaimInv(Pages!Overtaken(works[g], o, pages, taken), pages, taken)
  <2>1. CASE works[g].pc \notin Pages!Open
    <3>1. Pages!Overtaken(works[g], o, pages, taken) = works[g] /\ works[g] \in Pages!Work
      BY <2>1 DEF Pages!Overtaken
    <3>2. CASE works[g] = Pages!Idle
      BY <3>1, <3>2, NoClaimFits
    <3>3. CASE works[g] = claims[g]
      <4>1. ClaimInv(claims[g], profile, reserved)
        BY DEF PagesInv
      <4>. QED BY <2>1, <3>1, <3>3, <4>1 DEF ClaimInv, AskedInv, StyleInv, BarredInv, TakesInv, Pages!Open
    <3>. QED BY <3>1, <3>2, <3>3
  <2>2. CASE works[g].pc \in Pages!Open
    <3>1. /\ works[g] = claims[g] /\ claims[g] \in Pages!Work
          /\ (claims[g].removes => taken[claims[g].slug] = reserved[claims[g].slug])
      BY <2>2, NoClaimFits DEF Pages!Open
    <3>2. PICK w \in Pages!Work : w = claims[g]
      BY <3>1
    <3>3. PICK new : new = Pages!Overtaken(w, o, pages, taken)
      OBVIOUS
    <3>4. PICK now : now = Pages!Standing(w.by, w.slug, w.at, pages, taken)
      OBVIOUS
    <3>5. w.pc \in Pages!Open /\ ClaimInv(w, profile, reserved) /\ (w.removes => taken[w.slug] = reserved[w.slug])
      BY <2>2, <3>1, <3>2 DEF PagesInv
    <3>6. /\ new \in Pages!Work /\ new.pc = w.pc /\ new.by = w.by /\ new.slug = w.slug /\ new.style = w.style
          /\ new.member = w.member /\ new.at = w.at /\ new.removes = w.removes
          /\ Pages!Checks(w) /\ w.by = o => new.stale
          /\ w.stale => new.stale
          /\ new.barred = IF w.barred = "nobody" \/ (w.barred = "reserved" /\ now = "held") THEN "nobody" ELSE now
      BY <3>3, <3>4, <3>5, OvertakenIs
    <3>7. AskedInv(new) /\ TakesInv(new, taken)
      BY <3>5, <3>6 DEF ClaimInv, AskedInv, TakesInv
    <3>8. StyleInv(new, pages)
      BY <3>5, <3>6 DEF ClaimInv, AskedInv, StyleInv, Pages!Checks, Pages!Open
    <3>9. BarredInv(new, pages, taken)
      BY <3>4, <3>5, <3>6, StandingIs DEF ClaimInv, BarredInv, Pages!Open
    <3>. QED BY <3>1, <3>2, <3>3, <3>6, <3>7, <3>8, <3>9 DEF ClaimInv
  <2>. QED BY <2>1, <2>2
<1>3. Pages!TypeOK'
  BY <1>1, <1>2 DEF Pages!TypeOK, NamesApart
<1>. QED BY <1>1, <1>2, <1>3 DEF PagesInv

-----------------------------------------------------------------------------
LEMMA PagesBegin ==
  ASSUME Pages!PagesAssumption PROVE Pages!Init => PagesInv
<1> SUFFICES ASSUME Pages!Init PROVE PagesInv
  OBVIOUS
<1>1. Pages!TypeOK
  BY NoClaimFits, PagesNumbered DEF Pages!Init, Pages!TypeOK
<1>. QED BY <1>1, NoClaimFits DEF Pages!Init, PagesInv

LEMMA AskKeeps ==
  ASSUME Pages!PagesAssumption, PagesInv, NEW h \in Publishers, Pages!Ask(h) PROVE PagesInv'
<1>1. PICK w \in Wishes :
         Pages!Becomes(h, [Pages!Idle EXCEPT !.by = w.by, !.slug = w.slug, !.style = w.style, !.member = w.member,
                                 !.old = w.old, !.pc = IF w.old \/ Pages!Checks(w) THEN "previous" ELSE "publish"])
  BY DEF Pages!Ask
<1> DEFINE new == [Pages!Idle EXCEPT !.by = w.by, !.slug = w.slug, !.style = w.style, !.member = w.member,
                               !.old = w.old, !.pc = IF w.old \/ Pages!Checks(w) THEN "previous" ELSE "publish"]
<1>2. /\ w.by \in Owners /\ w.slug \in Slugs /\ w.style \in Pages!Styles \cup {None} /\ w.member \in BOOLEAN /\ w.old \in BOOLEAN
  BY DEF Pages!PagesAssumption, Pages!Styles
<1>3. /\ new \in Pages!Work /\ new.by = w.by /\ new.slug = w.slug /\ new.pc \in {"previous", "publish"} /\ ~new.removes
  BY <1>2, PagesNumbered DEF Pages!Idle, Pages!Work
<1>4. Pages!Becomes(h, new)
  BY <1>1
<1>. HIDE DEF new
<1>5. ClaimInv(new, profile, reserved)
  BY <1>2, <1>3 DEF ClaimInv, AskedInv, StyleInv, BarredInv, TakesInv, Pages!Open
<1>. QED BY <1>3, <1>4, <1>5, ClaimMoves DEF Pages!Ask, PagesInv, Pages!TypeOK

LEMMA ReadPreviousKeeps ==
  ASSUME Pages!PagesAssumption, PagesInv, NEW h \in Publishers, Pages!ReadPrevious(h) PROVE PagesInv'
<1>1. claims[h] \in Pages!Work /\ ClaimInv(claims[h], profile, reserved) /\ claims[h].pc = "previous"
      /\ UNCHANGED <<profile, reserved>> /\ clock' \in Pages!Times
  BY DEF PagesInv, Pages!TypeOK, Pages!ReadPrevious
<1>2. CASE Pages!Refused(h)
  BY <1>1, <1>2, RefusedKeeps
<1>3. ASSUME NEW style \in {None, claims[h].style}, Pages!Publishes(h, style) PROVE PagesInv'
  <2> DEFINE new == [claims[h] EXCEPT !.pc = "publish", !.style = style, !.old = FALSE]
  <2>1. /\ new \in Pages!Work /\ new.pc = "publish" /\ new.by = claims[h].by
        /\ new.slug = claims[h].slug /\ new.removes = claims[h].removes
    BY <1>1 DEF Pages!Work
  <2>2. Pages!Becomes(h, new)
    BY <1>3 DEF Pages!Publishes
  <2>. HIDE DEF new
  <2>3. ClaimInv(new, profile, reserved)
    BY <1>1, <2>1 DEF ClaimInv, AskedInv, StyleInv, BarredInv, TakesInv, Pages!Open
  <2>. QED BY <1>1, <2>1, <2>2, <2>3, ClaimMoves
<1>. QED BY <1>2, <1>3 DEF Pages!ReadPrevious

\* A name that nobody holds, or whose reservation is none, the owner's or expired, is nobody's.
LEMMA NameClaimable ==
  ASSUME NEW w \in Pages!Work, NEW taken, w.slug \in Slugs, Pages!AfterReservation(w, w.by, taken) # "idle"
  PROVE  /\ Pages!AfterReservation(w, w.by, taken) \in {"remove", "write"}
         /\ Pages!Standing(w.by, w.slug, w.at, profile, taken) # "reserved"
  BY DEF Pages!AfterReservation, Pages!Standing

LEMMA NotHeld ==
  ASSUME NEW o, NEW s, NEW t, NEW taken, ~Pages!Held(s)
  PROVE  Pages!Standing(o, s, t, profile, taken) # "held"
  BY DEF Pages!Standing, Pages!Held

LEMMA BeginKeeps ==
  ASSUME Pages!PagesAssumption, PagesInv, NEW h \in Publishers, Pages!Begin(h) PROVE PagesInv'
<1> DEFINE w == [claims[h] EXCEPT !.at = clock, !.was = Pages!NameOf(claims[h].by),
                                !.barred = Pages!Standing(claims[h].by, claims[h].slug, clock, profile, reserved)]
<1>1. claims[h] \in Pages!Work /\ ClaimInv(claims[h], profile, reserved) /\ claims[h].pc = "publish"
      /\ UNCHANGED <<profile, reserved>> /\ clock' \in Pages!Times /\ clock \in Pages!Times
  BY DEF PagesInv, Pages!TypeOK, Pages!Begin
<1>2. claims[h].by \in Owners /\ claims[h].slug \in Slugs /\ ~claims[h].removes
  BY <1>1 DEF ClaimInv, AskedInv, TakesInv
<1>3. Pages!NameOf(claims[h].by) \in Slugs \cup {None}
  BY <1>2 DEF Pages!NameOf, PagesInv, Pages!TypeOK, Pages!Pages
<1>4. /\ w \in Pages!Work /\ w.by = claims[h].by /\ w.slug = claims[h].slug /\ w.style = claims[h].style
      /\ w.member = claims[h].member
      /\ w.at = clock /\ w.barred = Pages!Standing(claims[h].by, claims[h].slug, clock, profile, reserved)
      /\ w.removes = claims[h].removes
  BY <1>1, <1>3, StandingIs DEF Pages!Work
<1> DEFINE next == IF Pages!Has(claims[h].by, w.slug, profile) THEN "write"
                   ELSE IF ~Pages!Checks(w) THEN "holder"
                   ELSE IF Pages!Held(w.slug) THEN "idle" ELSE Pages!AfterReservation(w, claims[h].by, reserved)
<1>5. (Pages!StyleStands(h) /\ next # "idle" /\ Pages!Becomes(h, [w EXCEPT !.pc = next])) \/ Pages!Refused(h)
  BY DEF Pages!Begin
<1>6. CASE Pages!Refused(h)
  BY <1>1, <1>6, RefusedKeeps
<1>7. CASE Pages!StyleStands(h) /\ next # "idle" /\ Pages!Becomes(h, [w EXCEPT !.pc = next])
  <2>1. PICK v \in Pages!Work : v = w
    BY <1>4
  <2>2. PICK pc : pc = next
    OBVIOUS
  <2>3. /\ pc \in {"write", "holder", "remove"} /\ pc # "reservation"
        /\ pc # "holder" => Pages!Standing(v.by, v.slug, v.at, profile, reserved) = "nobody"
    <3>1. CASE Pages!Has(v.by, v.slug, profile)
      <4>1. \A p \in Owners \ {v.by} : ~Pages!Has(p, v.slug, profile)
        BY <1>2, <1>4, <2>1, <3>1 DEF Pages!Has, PagesInv, Pages!TypeOK
      <4>. QED BY <1>4, <2>1, <2>2, <3>1, <4>1 DEF Pages!Standing
    <3>2. CASE ~Pages!Has(v.by, v.slug, profile) /\ ~Pages!Checks(v)
      BY <1>4, <2>1, <2>2, <3>2
    <3>3. CASE ~Pages!Has(v.by, v.slug, profile) /\ Pages!Checks(v)
      <4>1. ~Pages!Held(v.slug) /\ pc = Pages!AfterReservation(v, v.by, reserved) /\ pc # "idle"
        BY <1>4, <1>7, <2>1, <2>2, <3>3
      <4>2. Pages!Standing(v.by, v.slug, v.at, profile, reserved) \in {"nobody", "held", "reserved"}
        BY StandingIs
      <4>3. Pages!Standing(v.by, v.slug, v.at, profile, reserved) # "held"
        BY <4>1, NotHeld
      <4>4. v.slug \in Slugs
        BY <1>2, <1>4, <2>1
      <4>5. /\ Pages!AfterReservation(v, v.by, reserved) \in {"remove", "write"}
            /\ Pages!Standing(v.by, v.slug, v.at, profile, reserved) # "reserved"
        BY <4>1, <4>4, NameClaimable
      <4>. QED BY <4>1, <4>2, <4>3, <4>5
    <3>. QED BY <3>1, <3>2, <3>3
  <2>4. Pages!Checks(v) => Pages!SavedStyle(v.by) = v.style
    BY <1>4, <1>7, <2>1 DEF Pages!StyleStands, Pages!Checks
  <2>5. PICK new : new = [v EXCEPT !.pc = pc]
    OBVIOUS
  <2>6. Pages!Becomes(h, new)
    BY <1>7, <2>1, <2>2, <2>5
  <2>7. v.by \in Owners /\ v.slug \in Slugs /\ ~v.removes /\ v.barred = Pages!Standing(v.by, v.slug, v.at, profile, reserved)
    BY <1>2, <1>4, <2>1
  <2>. HIDE DEF w, next
  <2>8. /\ new \in Pages!Work /\ new.pc = pc /\ new.by = v.by /\ new.slug = v.slug /\ new.style = v.style /\ new.member = v.member
        /\ new.at = v.at /\ new.barred = v.barred /\ new.removes = v.removes
    BY <2>1, <2>3, <2>5 DEF Pages!Work, Pages!Open
  <2>9. ClaimInv(new, profile, reserved)
    BY <2>3, <2>4, <2>7, <2>8 DEF ClaimInv, AskedInv, StyleInv, BarredInv, TakesInv, Pages!Open, Pages!Checks, Pages!SavedStyle
  <2>. QED BY <1>1, <2>6, <2>8, <2>9, ClaimMoves
<1>. QED BY <1>5, <1>6, <1>7

LEMMA ReadHolderKeeps ==
  ASSUME Pages!PagesAssumption, PagesInv, NEW h \in Publishers, Pages!ReadHolder(h) PROVE PagesInv'
<1>1. claims[h] \in Pages!Work /\ ClaimInv(claims[h], profile, reserved) /\ claims[h].pc = "holder"
      /\ UNCHANGED <<profile, reserved>> /\ clock' \in Pages!Times
  BY DEF PagesInv, Pages!TypeOK, Pages!ReadHolder
<1>2. CASE Pages!Refused(h)
  BY <1>1, <1>2, RefusedKeeps
<1>3. CASE ~Pages!Held(claims[h].slug) /\ Pages!Goes(h, "reservation")
  <2>1. PICK new : new = [claims[h] EXCEPT !.pc = "reservation"]
    OBVIOUS
  <2>2. /\ new \in Pages!Work /\ new.pc = "reservation" /\ new.by = claims[h].by /\ new.slug = claims[h].slug
        /\ new.style = claims[h].style /\ new.member = claims[h].member /\ new.stale = claims[h].stale
        /\ new.at = claims[h].at /\ new.barred = claims[h].barred /\ new.removes = claims[h].removes
    BY <1>1, <2>1 DEF Pages!Work, Pages!Open
  <2>3. claims[h].barred # "held"
    BY <1>1, <1>3, NotHeld DEF ClaimInv, BarredInv, Pages!Open
  <2>4. ClaimInv(new, profile, reserved)
    BY <1>1, <2>2, <2>3 DEF ClaimInv, AskedInv, StyleInv, BarredInv, TakesInv, Pages!Open, Pages!Checks
  <2>. QED BY <1>1, <1>3, <2>1, <2>2, <2>4, ClaimMoves DEF Pages!Goes
<1>. QED BY <1>2, <1>3 DEF Pages!ReadHolder

LEMMA ReadReservationKeeps ==
  ASSUME Pages!PagesAssumption, PagesInv, NEW h \in Publishers, Pages!ReadReservation(h) PROVE PagesInv'
<1>1. claims[h] \in Pages!Work /\ ClaimInv(claims[h], profile, reserved) /\ claims[h].pc = "reservation"
      /\ UNCHANGED <<profile, reserved>> /\ clock' \in Pages!Times
  BY DEF PagesInv, Pages!TypeOK, Pages!ReadReservation
<1>2. CASE Pages!Refused(h)
  BY <1>1, <1>2, RefusedKeeps
<1>3. CASE ~Pages!Refused(h)
  <2>1. PICK pc : pc = Pages!AfterReservation(claims[h], claims[h].by, reserved) /\ pc # "idle" /\ Pages!Goes(h, pc)
    BY <1>3 DEF Pages!ReadReservation
  <2>2. claims[h].slug \in Slugs
    BY <1>1 DEF ClaimInv, AskedInv
  <2>3. pc \in {"remove", "write"} /\ Pages!Standing(claims[h].by, claims[h].slug, claims[h].at, profile, reserved) # "reserved"
    BY <1>1, <2>1, <2>2, NameClaimable
  <2>4. PICK new : new = [claims[h] EXCEPT !.pc = pc]
    OBVIOUS
  <2>5. /\ new \in Pages!Work /\ new.pc = pc /\ new.by = claims[h].by /\ new.slug = claims[h].slug
        /\ new.style = claims[h].style /\ new.member = claims[h].member /\ new.stale = claims[h].stale
        /\ new.at = claims[h].at /\ new.barred = claims[h].barred /\ new.removes = claims[h].removes
    BY <1>1, <2>3, <2>4 DEF Pages!Work, Pages!Open
  <2>6. claims[h].barred = "nobody"
    BY <1>1, <2>3 DEF ClaimInv, BarredInv, Pages!Open, Pages!Work
  <2>7. ClaimInv(new, profile, reserved)
    BY <1>1, <2>3, <2>5, <2>6 DEF ClaimInv, AskedInv, StyleInv, BarredInv, TakesInv, Pages!Open, Pages!Checks
  <2>. QED BY <1>1, <2>1, <2>4, <2>5, <2>7, ClaimMoves DEF Pages!Goes
<1>. QED BY <1>2, <1>3

LEMMA RemoveReservationKeeps ==
  ASSUME Pages!PagesAssumption, PagesInv, NEW h \in Publishers, Pages!RemoveReservation(h) PROVE PagesInv'
<1>1. claims[h] \in Pages!Work /\ ClaimInv(claims[h], profile, reserved) /\ claims[h].pc = "remove"
      /\ UNCHANGED <<profile, reserved>> /\ clock' \in Pages!Times
  BY DEF PagesInv, Pages!TypeOK, Pages!RemoveReservation
<1>2. CASE Pages!Refused(h)
  BY <1>1, <1>2, RefusedKeeps
<1>3. CASE Pages!Removable(h) /\ Pages!Becomes(h, [claims[h] EXCEPT !.pc = "write", !.removes = TRUE])
  <2>1. PICK new : new = [claims[h] EXCEPT !.pc = "write", !.removes = TRUE]
    OBVIOUS
  <2>2. /\ new \in Pages!Work /\ new.pc = "write" /\ new.by = claims[h].by /\ new.slug = claims[h].slug
        /\ new.style = claims[h].style /\ new.member = claims[h].member /\ new.stale = claims[h].stale
        /\ new.at = claims[h].at /\ new.barred = claims[h].barred
    BY <1>1, <2>1 DEF Pages!Work, Pages!Open
  <2>3. ClaimInv(new, profile, reserved)
    BY <1>1, <1>3, <2>2 DEF ClaimInv, AskedInv, StyleInv, BarredInv, TakesInv, Pages!Open, Pages!Checks, Pages!Removable
  <2>. QED BY <1>1, <1>3, <2>1, <2>2, <2>3, ClaimMoves
<1>. QED BY <1>2, <1>3 DEF Pages!RemoveReservation

LEMMA ReserveTypes ==
  ASSUME NEW s \in Slugs, NEW o \in Owners \cup {None}, NEW t \in Pages!Times,
         NEW taken \in [Slugs -> Pages!Reservations \cup {None}],
         NEW r \in Pages!Reserve(s, o, t, taken)
  PROVE  r \in [Slugs -> Pages!Reservations \cup {None}]
<1> DEFINE added == [taken EXCEPT ![s] = [by |-> o, at |-> t]]
           own == Pages!RowsOf(o, added)
<1>1. added \in [Slugs -> Pages!Reservations \cup {None}]
  BY DEF Pages!Reservations
<1>. HIDE DEF added
<1>2. r = added \/ \E kept : r = [d \in Slugs |-> IF d \in own \ kept THEN None ELSE added[d]]
  BY DEF Pages!Reserve, added
<1>. QED BY <1>1, <1>2

\* The rows and the page of a publication.
LEMMA ClaimWriteKeeps ==
  ASSUME Pages!PagesAssumption, PagesInv, NEW h \in Publishers, Pages!Write(h) PROVE PagesInv'
<1>1. /\ claims[h] \in Pages!Work /\ ClaimInv(claims[h], profile, reserved) /\ claims[h].pc = "write"
      /\ clock' = clock /\ clock \in Pages!Times
  BY DEF PagesInv, Pages!TypeOK, Pages!Write
<1>2. claims[h].by \in Owners /\ claims[h].slug \in Slugs
  BY <1>1 DEF ClaimInv, AskedInv
<1>3. CASE Pages!Refused(h) /\ UNCHANGED <<profile, reserved>>
  BY <1>1, <1>3, RefusedKeeps
<1>4. CASE ~(Pages!Refused(h) /\ UNCHANGED <<profile, reserved>>)
  <2> DEFINE left  == IF claims[h].removes THEN [reserved EXCEPT ![claims[h].slug] = None] ELSE reserved
             taken  == IF claims[h].was # None /\ claims[h].was # claims[h].slug
                      THEN Pages!Reserve(claims[h].was, claims[h].by, claims[h].at, left) ELSE {left}
             style == IF claims[h].style = None THEN Pages!SavedStyle(claims[h].by) ELSE claims[h].style
             row   == [slug |-> claims[h].slug, style |-> style]
  <2>1. PICK r \in taken :
          /\ \A p \in Owners \ {claims[h].by} : ~Pages!Has(p, claims[h].slug, profile)
          /\ Pages!Changed(r) \cap Pages!Locked(h) = {}
          /\ Pages!Commits(claims[h].by, [profile EXCEPT ![claims[h].by] = row], r, [claims EXCEPT ![h] = Pages!Idle])
    BY <1>4 DEF Pages!Write
  <2>2. left \in [Slugs -> Pages!Reservations \cup {None}]
    BY DEF PagesInv, Pages!TypeOK
  <2>3. r \in [Slugs -> Pages!Reservations \cup {None}]
    <3>1. claims[h].was \in Slugs \cup {None} /\ claims[h].at \in Pages!Times
      BY <1>1 DEF Pages!Work
    <3>. HIDE DEF left
    <3>. QED BY <1>2, <2>1, <2>2, <3>1, ReserveTypes
  <2>4. style \in Pages!Styles
    BY <1>1, <1>2 DEF Pages!SavedStyle, PagesInv, Pages!TypeOK, Pages!Pages, Pages!Work, Pages!Styles
  <2>. HIDE DEF left, taken, style
  <2>5. row \in Pages!Pages /\ row.slug = claims[h].slug
    BY <1>2, <2>4 DEF Pages!Pages
  <2>. HIDE DEF row
  <2>6. PICK o \in Owners, pages \in [Owners -> Pages!Pages \cup {None}], works \in [Publishers -> Pages!Work] :
          /\ o = claims[h].by /\ pages = [profile EXCEPT ![claims[h].by] = row] /\ works = [claims EXCEPT ![h] = Pages!Idle]
    BY <1>2, <2>5, NoClaimFits DEF PagesInv, Pages!TypeOK
  <2>7. pages[o] = row /\ \A p \in Owners \ {o} : pages[p] = profile[p]
    BY <2>6 DEF PagesInv, Pages!TypeOK
  <2>8. NamesApart(pages)
    BY <2>1, <2>5, <2>6, <2>7, PagesNumbered DEF PagesInv, Pages!TypeOK, NamesApart, Pages!Has
  <2>9. ASSUME NEW g \in Publishers
        PROVE  \/ works[g] = Pages!Idle
               \/ works[g] = claims[g] /\ (claims[g].removes => r[claims[g].slug] = reserved[claims[g].slug])
    <3>1. CASE g = h
      BY <2>6, <3>1 DEF PagesInv, Pages!TypeOK
    <3>2. CASE g # h
      <4>1. works[g] = claims[g]
        BY <2>6, <3>2 DEF PagesInv, Pages!TypeOK
      <4>2. ASSUME claims[g].removes PROVE r[claims[g].slug] = reserved[claims[g].slug]
        <5>1. claims[g].slug \in Slugs
          BY <4>2 DEF PagesInv, ClaimInv, TakesInv, AskedInv
        <5>2. claims[g].slug \notin Pages!Changed(r)
          BY <2>1, <3>2, <4>2 DEF Pages!Locked
        <5>. QED BY <5>1, <5>2 DEF Pages!Changed
      <4>. QED BY <4>1, <4>2
    <3>. QED BY <3>1, <3>2
  <2>10. Pages!Commits(o, pages, r, works)
    BY <2>1, <2>6
  <2>. QED BY <1>1, <2>3, <2>7, <2>8, <2>9, <2>10, CommitsKeep
<1>. QED BY <1>3, <1>4

LEMMA ClaimFailsKeeps ==
  ASSUME Pages!PagesAssumption, PagesInv, NEW h \in Publishers, Pages!Fails(h) PROVE PagesInv'
  BY RefusedKeeps DEF Pages!Fails, PagesInv, Pages!TypeOK

LEMMA UnpublishKeeps ==
  ASSUME Pages!PagesAssumption, PagesInv, NEW o \in Owners, Pages!Unpublish(o) PROVE PagesInv'
<1>1. Pages!Commits(o, profile, reserved, claims) /\ clock' \in Pages!Times
  BY DEF Pages!Unpublish, PagesInv, Pages!TypeOK
<1>2. PICK pages \in [Owners -> Pages!Pages \cup {None}], taken \in [Slugs -> Pages!Reservations \cup {None}],
           works \in [Publishers -> Pages!Work] : pages = profile /\ taken = reserved /\ works = claims
  BY DEF PagesInv, Pages!TypeOK
<1>3. NamesApart(pages)
  BY <1>2 DEF PagesInv, Pages!TypeOK, NamesApart
<1>. QED BY <1>1, <1>2, <1>3, CommitsKeep

LEMMA DeleteAllKeeps ==
  ASSUME Pages!PagesAssumption, PagesInv, NEW o \in Owners, Pages!DeleteAll(o) PROVE PagesInv'
<1> DEFINE anonymous == [s \in Slugs |->
                        IF s \in Pages!RowsOf(o, reserved) THEN [reserved[s] EXCEPT !.by = None] ELSE reserved[s]]
<1>1. PICK r \in IF profile[o] = None THEN {anonymous} ELSE Pages!Reserve(profile[o].slug, None, clock, anonymous) :
             /\ \A h \in Publishers : claims[h].removes => claims[h].slug \notin Pages!Changed(r)
             /\ Pages!Commits(o, [profile EXCEPT ![o] = None], r, claims)
  BY DEF Pages!DeleteAll
<1>2. anonymous \in [Slugs -> Pages!Reservations \cup {None}]
  <2>1. ASSUME NEW s \in Slugs PROVE anonymous[s] \in Pages!Reservations \cup {None}
    BY DEF PagesInv, Pages!TypeOK, Pages!RowsOf, Pages!Reservations
  <2>. QED BY <2>1
<1>. HIDE DEF anonymous
<1>3. r \in [Slugs -> Pages!Reservations \cup {None}]
  <2>1. profile[o] = None \/ profile[o].slug \in Slugs
    BY DEF PagesInv, Pages!TypeOK, Pages!Pages
  <2>2. clock \in Pages!Times
    BY DEF PagesInv, Pages!TypeOK
  <2>. QED BY <1>1, <1>2, <2>1, <2>2, ReserveTypes
<1>4. PICK pages \in [Owners -> Pages!Pages \cup {None}], works \in [Publishers -> Pages!Work] :
        pages = [profile EXCEPT ![o] = None] /\ works = claims
  BY DEF PagesInv, Pages!TypeOK
<1>5. pages[o] = None /\ \A p \in Owners \ {o} : pages[p] = profile[p]
  BY <1>4 DEF PagesInv, Pages!TypeOK
<1>6. NamesApart(pages)
  BY <1>5 DEF PagesInv, Pages!TypeOK, NamesApart
<1>7. ASSUME NEW g \in Publishers, claims[g].removes PROVE r[claims[g].slug] = reserved[claims[g].slug]
  <2>1. claims[g].slug \in Slugs
    BY <1>7 DEF PagesInv, ClaimInv, TakesInv, AskedInv
  <2>. QED BY <1>1, <1>7, <2>1 DEF Pages!Changed
<1>8. clock' \in Pages!Times /\ Pages!Commits(o, pages, r, works)
  BY <1>1, <1>4 DEF Pages!DeleteAll, PagesInv, Pages!TypeOK
<1>9. \A g \in Publishers :
         \/ works[g] = Pages!Idle
         \/ works[g] = claims[g] /\ (claims[g].removes => r[claims[g].slug] = reserved[claims[g].slug])
  BY <1>4, <1>7
<1>10. PICK taken \in [Slugs -> Pages!Reservations \cup {None}] : taken = r
  BY <1>3
<1>. QED BY <1>5, <1>6, <1>8, <1>9, <1>10, CommitsKeep

LEMMA PagesKeep ==
  ASSUME Pages!PagesAssumption PROVE PagesInv /\ [Pages!Next]_(Pages!vars) => PagesInv'
<1> SUFFICES ASSUME PagesInv, [Pages!Next]_(Pages!vars) PROVE PagesInv'
  OBVIOUS
<1>1. CASE Pages!Tick \/ UNCHANGED Pages!vars
  <2>1. UNCHANGED <<profile, reserved, claims>> /\ clock' \in Pages!Times
    BY <1>1, PagesNumbered DEF Pages!Tick, Pages!vars, PagesInv, Pages!TypeOK, Pages!Times
  <2>. QED BY <2>1 DEF PagesInv, Pages!TypeOK
<1>2. ASSUME NEW h \in Publishers, Pages!Step(h) PROVE PagesInv'
  BY <1>2, AskKeeps, ReadPreviousKeeps, BeginKeeps, ReadHolderKeeps, ReadReservationKeeps, RemoveReservationKeeps,
     ClaimWriteKeeps, ClaimFailsKeeps DEF Pages!Step
<1>3. ASSUME NEW o \in Owners, Pages!Unpublish(o) \/ Pages!DeleteAll(o) PROVE PagesInv'
  BY <1>3, UnpublishKeeps, DeleteAllKeeps
<1>. QED BY <1>1, <1>2, <1>3 DEF Pages!Next

\* Types; two pages never have one name.
THEOREM PagesTypeCorrect ==
  ASSUME Pages!PagesAssumption PROVE Pages!Spec => []Pages!TypeOK
<1>1. PagesInv => Pages!TypeOK
  BY DEF PagesInv
<1>. QED BY <1>1, PagesBegin, PagesKeep, PTL DEF Pages!Spec

\* A name is not taken from who has held it, or has it reserved, since before the claim began.
THEOREM NamesAreSafe ==
  ASSUME Pages!PagesAssumption PROVE Pages!Spec => NamesStayTaken
<1>1. PagesInv => \A h \in Publishers : Pages!Renames(h) =>
         /\ claims[h].barred = "nobody"
         /\ LET row == reserved[claims[h].slug]
            IN  claims[h].removes => row.by = claims[h].by \/ Pages!Expired(row, claims[h].at)
  BY DEF PagesInv, ClaimInv, BarredInv, TakesInv, Pages!Renames
<1>. QED BY <1>1, PagesBegin, PagesKeep, PTL DEF Pages!Spec, NamesStayTaken, Pages!NamesStayTaken

\* What a page shows is free, was saved before, or was asked for by a member.
THEOREM StyleIsEarned ==
  ASSUME Pages!PagesAssumption PROVE Pages!Spec => StyleIsPaid
<1> DEFINE Earned(o) ==
         profile[o] # profile'[o] /\ profile'[o] # None =>
         \/ profile'[o].style \in {Free, Pages!SavedStyle(o)}
         \/ \E h \in Publishers : claims[h].by = o /\ claims[h].pc = "write" /\ claims[h].member
<1>1. ASSUME PagesInv, Pages!Next, NEW o \in Owners, profile[o] # profile'[o], profile'[o] # None
      PROVE  Earned(o)
  <2>1. PICK h \in Publishers : Pages!Write(h) /\ profile' # profile
    <3>1. \/ \E h \in Publishers : Pages!Write(h)
          \/ \E p \in Owners : Pages!Unpublish(p) \/ Pages!DeleteAll(p)
      BY <1>1 DEF Pages!Next, Pages!Step, Pages!Ask, Pages!ReadPrevious, Pages!Begin, Pages!ReadHolder,
                    Pages!ReadReservation, Pages!RemoveReservation, Pages!Fails, Pages!Tick
    <3>2. ASSUME NEW p \in Owners, Pages!Unpublish(p) \/ Pages!DeleteAll(p) PROVE FALSE
      BY <1>1, <3>2 DEF Pages!Unpublish, Pages!DeleteAll, Pages!Commits, PagesInv, Pages!TypeOK
    <3>. QED BY <1>1, <3>1, <3>2
  <2>2. /\ claims[h].pc = "write" /\ ~claims[h].stale /\ claims[h] \in Pages!Work /\ claims[h].by \in Owners
        /\ profile' = [profile EXCEPT ![claims[h].by] = [slug |-> claims[h].slug,
              style |-> IF claims[h].style = None THEN Pages!SavedStyle(claims[h].by) ELSE claims[h].style]]
    BY <1>1, <2>1 DEF Pages!Write, Pages!Commits, PagesInv, Pages!TypeOK, ClaimInv, AskedInv
  <2>3. claims[h].by = o /\ profile'[o].style = IF claims[h].style = None THEN Pages!SavedStyle(o) ELSE claims[h].style
    BY <1>1, <2>2 DEF PagesInv, Pages!TypeOK
  <2>4. Pages!Checks(claims[h]) => claims[h].style = Pages!SavedStyle(o)
    BY <1>1, <2>2, <2>3 DEF PagesInv, ClaimInv, StyleInv, Pages!Open, Pages!SavedStyle
  <2>5. claims[h].style \in {None, Free} \cup Premium
    BY <2>2 DEF Pages!Work, Pages!Styles
  <2>. QED BY <2>2, <2>3, <2>4, <2>5 DEF Pages!Checks
<1>2. PagesInv /\ [Pages!Next]_(Pages!vars) => [\A o \in Owners : Earned(o)]_(Pages!vars)
  BY <1>1
<1>. QED BY <1>2, PagesBegin, PagesKeep, PTL DEF Pages!Spec, StyleIsPaid, Pages!StyleIsPaid
===============================================================================
