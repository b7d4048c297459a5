---------------------------- MODULE Subscriptions ----------------------------
(***************************************************************************)
(* Purchased plans: RevenueCat knows what each owner has paid for, tells   *)
(* the API with webhooks (revenueCatWebhookRoutes, revenueCatTransfer) and *)
(* answers lookups; the owner may ask for a resync (revenueCatRestore-     *)
(* Routes).  All plans of an owner share one subscription row, written     *)
(* behind a cursor that only moves forward (prismaSubscriptionRepository). *)
(* Handlers hold the shared side of the owner's lock, so they overlap.     *)
(***************************************************************************)
EXTENDS Integers, FiniteSets

CONSTANTS
    Owners,
    Plans,         \* of "STARTER", "PRO", "BUSINESS"
    OneTier,       \* an owner has at most one of Starter and Pro: the stores replace one by the other
    Handlers,      \* requests handled at the same time
    MaxClock,      \* bound: changes at the provider
    MaxExtras      \* bound: failed or stale lookups, failed writes, resyncs, and deliveries of an
                   \* event after its acknowledgement

ASSUME SubscriptionsAssumption ==
    /\ Plans \subseteq {"STARTER", "PRO", "BUSINESS"} /\ OneTier \in BOOLEAN
    /\ MaxClock \in Nat /\ MaxExtras \in Nat

VARIABLES
    clock,     \* the provider's time: it differs for any two changes
    paid,      \* what each owner has paid for, at each time until now
    users,     \* the owners with an account; deletions are AccountDeletion's
    row,       \* Subscription: the plan and the status of each owner
    cursor,    \* lastRevenueCatEventTimestampMs and lastRevenueCatEventId
    pending,   \* webhooks the provider still has to deliver
    handled,   \* webhooks it has had an acknowledgement for
    work,      \* the requests in the process
    orderly,   \* history: every owner's webhooks came one after another, in their order
    newest,    \* history: the newest thing told of each account, and the access it gives
    missed,    \* history: the newest change a webhook told of while the owner had no account
    extras

vars == <<clock, paid, users, row, cursor, pending, handled, work, orderly, newest, missed, extras>>
Provider == <<clock, paid>>

None == "none"
Tier == {"STARTER", "PRO"}
Times == 0..MaxClock
Types == {"ACTIVE", "EXPIRATION", "CANCELLATION", "TRANSFER", "RESYNC"}

\* from and to differ in a transfer only; ts is unique, and the event's id.
Event == [type : Types, plan : Plans \cup {None}, from : Owners, to : Owners, ts : Times]

NoView == [at |-> 0, plan |-> None]
NoEvent == [type |-> None, plan |-> None, from |-> None, to |-> None, ts |-> 0]
Idle == [pc |-> "idle", event |-> NoEvent, views |-> [o \in Owners |-> NoView], left |-> {}]
Busy == [pc : {"plan", "lookup", "direct", "write"}, event : Event,
         views : [Owners -> [at : Times, plan : Plans \cup {None}]], left : SUBSET Owners]

\* Types; a handler that writes has an owner left to write.
TypeOK ==
    /\ clock \in Times /\ paid \in [Times -> [Owners -> SUBSET Plans]] /\ users \subseteq Owners
    /\ row \in [Owners -> [plan : Plans \cup {None}, status : {"ACTIVE", "CANCELED"}]]
    /\ cursor \in [Owners -> [ts : Times, by : {None, "event", "reconcile", "transfer", "resync"}, of : Times]]
    /\ pending \subseteq Event /\ handled \subseteq Event
    /\ work \in [Handlers -> Busy \cup {Idle}] /\ orderly \in BOOLEAN
    /\ newest \in [Owners -> [ts : Times, plan : Plans \cup {None}]] /\ missed \in [Owners -> Times]
    /\ extras \in 0..MaxExtras
    /\ \A h \in Handlers : work[h].pc = "write" => work[h].left /= {}

Init ==
    /\ clock = 0 /\ paid = [t \in Times |-> [o \in Owners |-> {}]] /\ users = {}
    /\ row = [o \in Owners |-> [plan |-> None, status |-> "CANCELED"]]
    /\ cursor = [o \in Owners |-> [ts |-> 0, by |-> None, of |-> 0]]
    /\ pending = {} /\ handled = {} /\ work = [h \in Handlers |-> Idle]
    /\ orderly = TRUE /\ newest = [o \in Owners |-> [ts |-> 0, plan |-> None]]
    /\ missed = [o \in Owners |-> 0] /\ extras = 0

-------------------------------------------------------------------------------
(***************************************************************************)
(* The provider.                                                           *)
(***************************************************************************)
Has(o) == paid[clock][o]

\* At a new time, with the event that tells of it, if there is one.
Changes(now, event) ==
    /\ clock < MaxClock /\ clock' = clock + 1
    /\ paid' = [paid EXCEPT ![clock + 1] = now]
    /\ pending' = pending \cup event
    /\ UNCHANGED <<users, row, cursor, handled, work, orderly, newest, missed, extras>>

Tell(type, plan, o) == {[type |-> type, plan |-> plan, from |-> o, to |-> o, ts |-> clock + 1]}
Together(plans, p) == IF OneTier /\ p \in Tier THEN (plans \ Tier) \cup {p} ELSE plans \cup {p}

\* INITIAL_PURCHASE, RENEWAL, PRODUCT_CHANGE, UNCANCELLATION.
Pays(o, p) ==
    Changes([paid[clock] EXCEPT ![o] = Together(@, p)], Tell("ACTIVE", p, o))

Expires(o, p) ==
    p \in Has(o) /\ Changes([paid[clock] EXCEPT ![o] = @ \ {p}], Tell("EXPIRATION", p, o))

\* CANCELLATION: of the renewal; or a refund of Business (that of a tier ends with EXPIRATION).
Cancels(o, p, refund) ==
    /\ p \in Has(o) /\ (refund => p = "BUSINESS")
    /\ Changes([paid[clock] EXCEPT ![o] = IF refund THEN @ \ {p} ELSE @], Tell("CANCELLATION", p, o))

\* The store account of a is used under b's login from now on.
Transfers(a, b) ==
    /\ a /= b /\ Has(a) /= {}
    /\ LET tiers == (Has(a) \cup Has(b)) \cap Tier
           all   == (Has(a) \cup Has(b)) \ IF OneTier /\ tiers = Tier THEN {"STARTER"} ELSE {}
       IN  Changes([paid[clock] EXCEPT ![a] = {}, ![b] = all],
                   {[type |-> "TRANSFER", plan |-> None, from |-> a, to |-> b, ts |-> clock + 1]})

\* Time passes: a lookup may be of a later time than the last change.
Passes == Changes(paid[clock], {})

-------------------------------------------------------------------------------
(***************************************************************************)
(* The subscription store.                                                 *)
(***************************************************************************)
\* getPlan: what the owner can use.
Access(o) == IF row[o].status = "ACTIVE" THEN row[o].plan ELSE None

\* selectRevenueCatPaidEntitlement.
Strongest(plans) ==
    IF "BUSINESS" \in plans THEN "BUSINESS"
    ELSE IF "PRO" \in plans THEN "PRO"
    ELSE IF "STARTER" \in plans THEN "STARTER" ELSE None

\* The last thing applied is not applied again, nor is anything that is not newer.
IsNews(o, by, of) == ~(cursor[o].by = by /\ cursor[o].of = of)
AnyTime(o, ts, by, of) == IsNews(o, by, of)
Newer(o, ts, by, of) == IsNews(o, by, of) /\ ts > cursor[o].ts

\* applyRevenueCatEvent, one serializable transaction: plan None for a status other than ACTIVE.
Apply(o, plan, ts, by, of) ==
    /\ IF Newer(o, ts, by, of)
       THEN /\ cursor' = [cursor EXCEPT ![o] = [ts |-> ts, by |-> by, of |-> of]]
            /\ row' = [row EXCEPT ![o] = IF plan = None THEN [@ EXCEPT !.status = "CANCELED"]
                                         ELSE [plan |-> plan, status |-> "ACTIVE"]]
       ELSE UNCHANGED <<cursor, row>>
    /\ newest' = IF IsNews(o, by, of) /\ ts > newest[o].ts THEN [newest EXCEPT ![o] = [ts |-> ts, plan |-> plan]]
                 ELSE newest

-------------------------------------------------------------------------------
(***************************************************************************)
(* Requests.                                                               *)
(***************************************************************************)
Concerns(e) == {e.from, e.to}
Becomes(h, new) == work' = [work EXCEPT ![h] = new]
Extra == extras < MaxExtras /\ extras' = extras + 1

\* The answer: 2xx is an acknowledgement, after anything else the provider delivers again.
Acknowledge(h, e) ==
    /\ Becomes(h, Idle)
    /\ IF e.type = "RESYNC" THEN UNCHANGED <<pending, handled>>
       ELSE pending' = pending \ {e} /\ handled' = handled \cup {e}
Refuse(h) == Becomes(h, Idle) /\ UNCHANGED <<pending, handled>>

\* The event comes while an earlier one is outstanding, or another one of the owner is in hand.
Disorder(e) ==
    \/ \E f \in pending : Concerns(f) \cap Concerns(e) /= {} /\ f.ts < e.ts
    \/ \E h \in Handlers : /\ work[h] /= Idle /\ work[h].event \in pending \ {e}
                           /\ Concerns(work[h].event) \cap Concerns(e) /= {}

Actionable(e) == e.type /= "CANCELLATION" \/ e.plan = "BUSINESS"

\* userStore.ensure: any route the owner uses makes the account, a resync before its write too.
Ensure(o) ==
    /\ o \notin users /\ users' = users \cup {o}
    /\ UNCHANGED <<Provider, row, cursor, pending, handled, work, orderly, newest, missed, extras>>

\* History: a webhook told of a change while these owners had no account.
Misses(absent, e) ==
    missed' = [o \in Owners |-> IF o \in absent /\ e.ts > missed[o] THEN e.ts ELSE missed[o]]

\* A webhook arrives; a transfer goes on with the owners who have an account.
Receive(h, e) ==
    /\ work[h] = Idle
    /\ \/ e \in pending /\ UNCHANGED extras
       \/ e \in handled /\ Extra
    /\ orderly' = (orderly /\ (e \in pending => ~Disorder(e)))
    /\ IF e.type = "TRANSFER" THEN Misses(Concerns(e) \ users, e) ELSE UNCHANGED missed
    /\ IF ~Actionable(e) \/ (e.type = "TRANSFER" /\ Concerns(e) \cap users = {}) THEN Acknowledge(h, e)
       ELSE /\ Becomes(h, [Idle EXCEPT !.pc = IF e.type = "TRANSFER" THEN "lookup" ELSE "plan", !.event = e,
                              !.left = IF e.type = "TRANSFER" THEN Concerns(e) \cap users ELSE {e.to}])
            /\ UNCHANGED <<pending, handled>>
    /\ UNCHANGED <<Provider, users, row, cursor, newest>>

\* Only the provider can say what is left beside, or after, a Business subscription.
OnlyBusinessNeeds(current, e) == e.plan = "BUSINESS" /\ e.type \in {"EXPIRATION", "CANCELLATION"}
NeedsLookup(current, e) ==
    \/ current = "BUSINESS" /\ e.plan /= "BUSINESS"
    \/ e.plan = "BUSINESS" /\ e.type \in {"EXPIRATION", "CANCELLATION"}

ReadPlan(h) ==
    /\ work[h].pc = "plan"
    /\ LET e == work[h].event
       IN  Becomes(h, [work[h] EXCEPT !.pc = IF NeedsLookup(Access(e.to), e) THEN "lookup" ELSE "direct"])
    /\ UNCHANGED <<Provider, users, row, cursor, pending, handled, orderly, newest, missed, extras>>

\* The owner of a webhook has no account: it is acknowledged and changes nothing.
Ignore(h) ==
    /\ work[h].pc \in {"lookup", "direct"} /\ work[h].event.type \notin {"TRANSFER", "RESYNC"}
    /\ work[h].event.to \notin users
    /\ Acknowledge(h, work[h].event) /\ Misses({work[h].event.to}, work[h].event)
    /\ UNCHANGED <<Provider, users, row, cursor, orderly, newest, extras>>

\* The owner asks for a resync, perhaps before there is an account.
Resync(h, o) ==
    /\ work[h] = Idle /\ Extra
    /\ LET asked == [type |-> "RESYNC", plan |-> None, from |-> o, to |-> o, ts |-> 0]
       IN  Becomes(h, [Idle EXCEPT !.pc = "lookup", !.event = asked, !.left = {o}])
    /\ UNCHANGED <<Provider, users, row, cursor, pending, handled, orderly, newest, missed>>

LookedUp(e, views) == {o \in Concerns(e) : views[o].at >= e.ts}

\* The provider's answer, with the time it is of; one from before the event is not used.
LookUp(h, o, at) ==
    /\ work[h].pc = "lookup" /\ o \in work[h].left /\ at \in 0..clock
    /\ work[h].event.type = "RESYNC" \/ o \in users
    /\ \/ at = clock /\ UNCHANGED extras
       \/ at = clock - 1 /\ Extra
    /\ LET e    == work[h].event
           view == [at |-> at, plan |-> Strongest(paid[at][o])]
           views == [work[h].views EXCEPT ![o] = view]
           rest == work[h].left \ {o}
       IN  IF at < e.ts THEN Refuse(h)
           ELSE /\ Becomes(h, [work[h] EXCEPT !.views = views,
                                 !.pc = IF rest = {} THEN "write" ELSE "lookup",
                                 !.left = IF rest = {} THEN LookedUp(e, views) ELSE rest])
                /\ UNCHANGED <<pending, handled>>
    /\ UNCHANGED <<Provider, users, row, cursor, orderly, newest, missed>>

LookUpFails(h) ==
    /\ work[h].pc = "lookup" /\ Extra /\ Refuse(h)
    /\ UNCHANGED <<Provider, users, row, cursor, orderly, newest, missed>>

\* A purchase or an expiration as the event tells it.
WriteEvent(h) ==
    /\ work[h].pc = "direct"
    /\ LET e == work[h].event
       IN  /\ e.to \in users
           /\ Apply(e.to, IF e.type = "ACTIVE" THEN e.plan ELSE None, e.ts, "event", e.ts)
           /\ Acknowledge(h, e)
    /\ UNCHANGED <<Provider, users, orderly, missed, extras>>

DestinationFirst(h) == IF work[h].event.to \in work[h].left THEN work[h].event.to ELSE work[h].event.from
SourceFirst(h) == IF work[h].event.from \in work[h].left THEN work[h].event.from ELSE work[h].event.to

By(e) == CASE e.type = "TRANSFER" -> "transfer" [] e.type = "RESYNC" -> "resync" [] OTHER -> "reconcile"

\* History: the lookup applied is newer than what was missed, and than anything outstanding.
CatchesUp(o, at) == at >= missed[o] /\ \A f \in pending : o \in Concerns(f) => f.ts <= at

\* What the provider answered, one owner after the other.
WriteView(h) ==
    /\ work[h].pc = "write"
    /\ LET e == work[h].event
           o == SourceFirst(h)
           view == work[h].views[o]
           rest == work[h].left \ {o}
           of == IF e.type = "RESYNC" THEN view.at ELSE e.ts
       IN  /\ o \in users
           /\ Apply(o, view.plan, view.at, By(e), of)
           /\ missed' = IF Newer(o, view.at, By(e), of) /\ CatchesUp(o, view.at)
                        THEN [missed EXCEPT ![o] = 0] ELSE missed
           /\ IF rest = {} THEN Acknowledge(h, e)
              ELSE Becomes(h, [work[h] EXCEPT !.left = rest]) /\ UNCHANGED <<pending, handled>>
    /\ UNCHANGED <<Provider, users, orderly, extras>>

\* A write fails, between two of them or before the first: the request ends with 5xx.
WriteFails(h) ==
    /\ work[h].pc \in {"direct", "write"} /\ Extra /\ Refuse(h)
    /\ UNCHANGED <<Provider, users, row, cursor, orderly, newest, missed>>

Next ==
    \/ \E o \in Owners, p \in Plans :
          Pays(o, p) \/ Expires(o, p) \/ \E refund \in BOOLEAN : Cancels(o, p, refund)
    \/ Passes \/ \E a, b \in Owners : Transfers(a, b)
    \/ \E o \in Owners : Ensure(o)
    \/ \E h \in Handlers :
          \/ \E e \in pending \cup handled : Receive(h, e)
          \/ ReadPlan(h) \/ Ignore(h) \/ LookUpFails(h) \/ WriteEvent(h) \/ WriteView(h) \/ WriteFails(h)
          \/ \E o \in Owners : Resync(h, o) \/ \E at \in Times : LookUp(h, o, at)

Spec == Init /\ [][Next]_vars

-------------------------------------------------------------------------------
(***************************************************************************)
(* Correctness.                                                            *)
(***************************************************************************)
\* README.md:2760-2761: retries and older events cannot overwrite newer state, nor can lookups: the
\* access is that of the newest thing the API was told, in whatever order it was told.
NewestStands == \A o \in users : Access(o) = newest[o].plan

\* A transfer that found the account of its source takes its access before it gives any to the
\* destination, in every delivery and through failures: a webhook lets no two accounts use a purchase.
SourceEndsFirst ==
    [][\A h \in Handlers : LET e == work[h].event IN
          work[h].pc = "write" /\ work'[h] /= work[h] /\ e.type = "TRANSFER" /\ e.from \in LookedUp(e, work[h].views)
          /\ row'[e.to] /= row[e.to] => cursor[e.from].ts >= e.ts]_vars

\* revenueCatWebhookRoutes.ts:361-363: once the webhooks, delivered one after another in their order
\* but perhaps repeatedly and beside resyncs, are acknowledged, every account has the strongest plan
\* that is paid for.  Not an account made after a webhook about it was acknowledged (:395-402): it
\* has what was told later, until a resync, or a webhook that needs a lookup, catches up.
SettledIsPaid ==
    orderly /\ pending = {} /\ work = [h \in Handlers |-> Idle] =>
        \A o \in users : missed[o] = 0 => Access(o) = Strongest(Has(o))
===============================================================================
