--------------------------- MODULE LinkInBioPages ---------------------------
(***************************************************************************)
(* The name and the style of a shop's page: the publish handler            *)
(* (linkInBioRoutes.ts) and the transactions of the repository             *)
(* (prismaLinkInBioRepository.ts), which run statement by statement beside *)
(* those of other owners and of the owner's other API processes.           *)
(*                                                                         *)
(* A request holds the image lock of its owner in its process: two of one  *)
(* owner are requests to two processes.  Transactions are Read Committed;  *)
(* those that check the saved style are Serializable: they read one        *)
(* snapshot, and fail on a row that another transaction has changed since. *)
(* Slugs are those that a claim may use at all; an upsert and what follows *)
(* it to the commit is one step.                                           *)
(***************************************************************************)
EXTENDS Integers, FiniteSets

CONSTANTS
    Owners, Slugs,
    Free, Premium,     \* the style of everyone, and those for paying members
    Newer,             \* styles that an old app does not know
    Requests,          \* requests handled at the same time
    Wishes,            \* what they may ask for
    None,
    MaxKept,           \* maxLinkInBioSlugReservationsPerOwner
    Period,            \* linkInBioSlugReservationMs, in ticks of the clock
    MaxTime            \* bound: the clock

\* What is assumed of the constants.
PagesAssumption ==
    /\ Free \notin Premium /\ Newer \subseteq Premium
    /\ Wishes \subseteq [by : Owners, slug : Slugs, style : {Free, None} \cup Premium, member : BOOLEAN, old : BOOLEAN]
    /\ \A w \in Wishes : (w.member => w.style \in Premium) /\ (w.old => w.style = Free)
    /\ None \notin Owners \cup Slugs \cup Premium \cup {Free}
    /\ MaxKept \in Nat /\ Period \in Nat /\ MaxTime \in Nat

VARIABLES
    page,       \* the LinkInBioProfile rows, by owner
    reserved,   \* the LinkInBioSlugReservation rows, by slug
    work,       \* the requests
    clock

vars == <<page, reserved, work, clock>>

Styles == {Free} \cup Premium
Times == 0..MaxTime
Pages == [slug : Slugs, style : Styles]     \* isPublished, which no claim reads, is left out
Reservations == [by : Owners \cup {None}, at : Times]

\* style: as asked, or None if omitted; was: the name of the owner's page, read first; removes: has deleted the reservation;
\* stale: a row was changed that a serializable transaction has read and will write;
\* barred: history, whose the name has been all the time since the transaction began.
Idle == [pc |-> "idle", by |-> None, slug |-> None, style |-> None, old |-> FALSE, member |-> FALSE, at |-> 0,
         was |-> None, removes |-> FALSE, stale |-> FALSE, barred |-> "nobody"]
Open == {"holder", "reservation", "remove", "write"}
Work == [pc : Open \cup {"idle", "previous", "publish"}, by : Owners \cup {None}, slug : Slugs \cup {None},
         style : Styles \cup {None}, old : BOOLEAN, member : BOOLEAN, at : Times,
         was : Slugs \cup {None}, removes : BOOLEAN, stale : BOOLEAN,
         barred : {"nobody", "held", "reserved"}]

\* Types; the unique index keeps the names of two pages apart.
TypeOK ==
    /\ page \in [Owners -> Pages \cup {None}]
    /\ reserved \in [Slugs -> Reservations \cup {None}]
    /\ work \in [Requests -> Work]
    /\ clock \in Times
    /\ \A o, p \in Owners : o # p /\ page[o] # None /\ page[p] # None => page[o].slug # page[p].slug

Init ==
    /\ page = [o \in Owners |-> None]
    /\ reserved = [s \in Slugs |-> None]
    /\ work = [h \in Requests |-> Idle]
    /\ clock = 0

Becomes(h, new) == work' = [work EXCEPT ![h] = new]
Refused(h) == Becomes(h, Idle)          \* also: rolled back
Goes(h, pc) == Becomes(h, [work[h] EXCEPT !.pc = pc])

Has(o, s, pages) == pages[o] # None /\ pages[o].slug = s
Held(s) == \E o \in Owners : Has(o, s, page)
NameOf(o) == IF page[o] = None THEN None ELSE page[o].slug
Expired(row, t) == row.at + Period <= t

\* history: whose the name s is for owner o at time t, with these rows.
Standing(o, s, t, pages, rows) ==
    IF \E p \in Owners \ {o} : Has(p, s, pages) THEN "held"
    ELSE IF ~Has(o, s, pages) /\ rows[s] # None /\ rows[s].by # o /\ ~Expired(rows[s], t) THEN "reserved"
    ELSE "nobody"

Checks(w) == w.style \in Premium /\ ~w.member

-------------------------------------------------------------------------------
(***************************************************************************)
(* The publish handler until its write.                                    *)
(***************************************************************************)
\* A request has the lock; a failed or missing read of the paid plan is no membership.
Ask(h) ==
    /\ work[h].pc = "idle"
    /\ \E w \in Wishes :
         Becomes(h, [Idle EXCEPT !.by = w.by, !.slug = w.slug, !.style = w.style, !.member = w.member,
                                 !.old = w.old, !.pc = IF w.old \/ Checks(w) THEN "previous" ELSE "publish"])
    /\ UNCHANGED <<page, reserved, clock>>

SavedStyle(o) == IF page[o] = None THEN Free ELSE page[o].style

Publishes(h, style) == Becomes(h, [work[h] EXCEPT !.pc = "publish", !.style = style, !.old = FALSE])

\* An old app that shows a newer style as a plain one sends back what it was shown, or is refused.
ReadPrevious(h) ==
    LET w == work[h]
        saved == SavedStyle(work[h].by)
    IN  /\ w.pc = "previous"
        /\ IF w.old THEN IF saved \in Newer THEN Refused(h) \/ Publishes(h, None) ELSE Publishes(h, w.style)
           ELSE IF saved = w.style THEN Publishes(h, w.style) ELSE Refused(h)
        /\ UNCHANGED <<page, reserved, clock>>

-------------------------------------------------------------------------------
(***************************************************************************)
(* The transaction (store.publish).                                        *)
(***************************************************************************)
AfterReservation(w, o, rows) ==
    IF rows[w.slug] = None THEN "write"
    ELSE IF rows[w.slug].by # o /\ ~Expired(rows[w.slug], w.at) THEN "idle" ELSE "remove"

StyleStandsUnread(h) == TRUE

\* validateCurrentAppearance, against the row that is about to change.
StyleStands(h) == Checks(work[h]) => SavedStyle(work[h].by) = work[h].style

\* The time is read, and then the owner's row; a serializable transaction sees all rows as they are now.
Begin(h) ==
    LET o == work[h].by
        w == [work[h] EXCEPT !.at = clock, !.was = NameOf(o),
                             !.barred = Standing(o, work[h].slug, clock, page, reserved)]
        next == IF Has(o, w.slug, page) THEN "write"
                ELSE IF ~Checks(w) THEN "holder"
                ELSE IF Held(w.slug) THEN "idle" ELSE AfterReservation(w, o, reserved)
    IN  /\ work[h].pc = "publish"
        /\ IF StyleStands(h) /\ next # "idle" THEN Becomes(h, [w EXCEPT !.pc = next]) ELSE Refused(h)
        /\ UNCHANGED <<page, reserved, clock>>

\* assertSlugClaimable: the holder is read before the reservation.
ReadHolder(h) ==
    /\ work[h].pc = "holder"
    /\ IF Held(work[h].slug) THEN Refused(h) ELSE Goes(h, "reservation")
    /\ UNCHANGED <<page, reserved, clock>>

ReadReservation(h) ==
    LET next == AfterReservation(work[h], work[h].by, reserved)
    IN  /\ work[h].pc = "reservation"
        /\ IF next = "idle" THEN Refused(h) ELSE Goes(h, next)
        /\ UNCHANGED <<page, reserved, clock>>

\* Rows that another open transaction has deleted: a write to them waits for it.
Locked(h) == {work[g].slug : g \in {i \in Requests \ {h} : work[i].removes}}

RemovableAnyway(h) == reserved[work[h].slug] # None

\* Only a row still expired, or the owner's own, is deleted.
Removable(h) ==
    LET row == reserved[work[h].slug]
    IN  row # None /\ (Expired(row, work[h].at) \/ row.by = work[h].by)

RemoveReservation(h) ==
    /\ work[h].pc = "remove" /\ work[h].slug \notin Locked(h)
    /\ IF Removable(h) /\ ~work[h].stale THEN Becomes(h, [work[h] EXCEPT !.pc = "write", !.removes = TRUE])
       ELSE Refused(h)
    /\ UNCHANGED <<page, reserved, clock>>

RowsOf(o, rows) == {s \in Slugs : rows[s] # None /\ rows[s].by = o}

\* reserveReleasedSlug: the rows left may be any MaxKept of the newest.
Reserve(s, o, t, rows) ==
    LET added == [rows EXCEPT ![s] = [by |-> o, at |-> t]]
        own   == RowsOf(o, added)
        Newest(kept) == /\ Cardinality(kept) = IF Cardinality(own) > MaxKept THEN MaxKept ELSE Cardinality(own)
                        /\ \A k \in kept, d \in own \ kept : added[k].at >= added[d].at
    IN  IF o = None THEN {added}
        ELSE {[r \in Slugs |-> IF r \in own \ kept THEN None ELSE added[r]] : kept \in {k \in SUBSET own : Newest(k)}}

Changed(rows) == {s \in Slugs : rows[s] # reserved[s]}

\* What the handlers meet when the rows become these: o is the owner whose page changed.
Overtaken(w, o, pages, rows) ==
    IF w.pc \notin Open THEN w
    ELSE LET now == Standing(w.by, w.slug, w.at, pages, rows)
         IN  [w EXCEPT !.stale = @ \/ (Checks(w) /\ (w.by = o \/ (w.pc = "remove" /\ w.slug \in Changed(rows)))),
                       !.barred = IF @ = "nobody" \/ (@ = "reserved" /\ now = "held") THEN "nobody" ELSE now]
Commits(o, pages, rows, works) ==
    /\ page' = pages /\ reserved' = rows
    /\ work' = [h \in Requests |-> Overtaken(works[h], o, pages, rows)]

\* The upsert, which the unique index may refuse; then the old name is reserved.
Write(h) ==
    LET o == work[h].by
        w == work[h]
        left  == IF w.removes THEN [reserved EXCEPT ![w.slug] = None] ELSE reserved
        rows  == IF w.was # None /\ w.was # w.slug THEN Reserve(w.was, o, w.at, left) ELSE {left}
        style == IF w.style = None THEN SavedStyle(o) ELSE w.style
        new   == [slug |-> w.slug, style |-> style]
    IN  /\ w.pc = "write"
        /\ \/ /\ w.stale \/ \E p \in Owners \ {o} : Has(p, w.slug, page)
              /\ Refused(h) /\ UNCHANGED <<page, reserved>>
           \/ /\ ~w.stale /\ \A p \in Owners \ {o} : ~Has(p, w.slug, page)
              /\ \E r \in rows :
                   /\ Changed(r) \cap Locked(h) = {}
                   /\ Commits(o, [page EXCEPT ![o] = new], r, [work EXCEPT ![h] = Idle])
        /\ UNCHANGED clock

\* A read or a statement fails, or the process exits.
Fails(h) ==
    /\ work[h].pc # "idle" /\ Refused(h)
    /\ UNCHANGED <<page, reserved, clock>>

-------------------------------------------------------------------------------
(***************************************************************************)
(* The other writes, and time.                                             *)
(***************************************************************************)
\* An unpublished page keeps its name and style; the row changes.
Unpublish(o) ==
    /\ page[o] # None
    /\ Commits(o, page, reserved, work)
    /\ UNCHANGED clock

\* deleteAllForUser: the account's deletion waits for the owner's requests (OwnerLifecycle).
DeleteAll(o) ==
    LET anonymous == [s \in Slugs |-> IF s \in RowsOf(o, reserved) THEN [reserved[s] EXCEPT !.by = None] ELSE reserved[s]]
    IN  /\ page[o] # None \/ RowsOf(o, reserved) # {}
        /\ \A h \in Requests : work[h].by = o => work[h].pc = "idle"
        /\ \E r \in IF page[o] = None THEN {anonymous} ELSE Reserve(page[o].slug, None, clock, anonymous) :
             /\ \A h \in Requests : work[h].removes => work[h].slug \notin Changed(r)
             /\ Commits(o, [page EXCEPT ![o] = None], r, work)
        /\ UNCHANGED clock

Tick == clock < MaxTime /\ clock' = clock + 1 /\ UNCHANGED <<page, reserved, work>>

Step(h) ==
    \/ Ask(h) \/ ReadPrevious(h) \/ Begin(h) \/ ReadHolder(h) \/ ReadReservation(h)
    \/ RemoveReservation(h) \/ Write(h) \/ Fails(h)

Next ==
    \/ \E h \in Requests : Step(h)
    \/ \E o \in Owners : Unpublish(o) \/ DeleteAll(o)
    \/ Tick

Spec == Init /\ [][Next]_vars

-------------------------------------------------------------------------------
Renames(h) ==
    /\ work[h].pc = "write"
    /\ Has(work[h].by, work[h].slug, page') /\ ~Has(work[h].by, work[h].slug, page)

\* A name that somebody else has held or kept reserved all the time since a transaction began is not
\* taken by it, and a claim never deletes somebody else's fresh reservation: however the statements of
\* a rename, a claim and a deletion fall.
NamesStayTaken ==
    [][\A h \in Requests : Renames(h) =>
         /\ work[h].barred = "nobody"
         /\ LET row == reserved[work[h].slug]
            IN  work[h].removes => row.by = work[h].by \/ Expired(row, work[h].at)]_vars

\* A page gets another style that needs a membership only from a request that found a paid plan: what a
\* lapsed member may keep is the style the page has when the write commits.
StyleIsPaid ==
    [][\A o \in Owners : page[o] # page'[o] /\ page'[o] # None =>
         \/ page'[o].style \in {Free, SavedStyle(o)}
         \/ \E h \in Requests : work[h].by = o /\ work[h].pc = "write" /\ work[h].member]_vars
==============================================================================
