-------------------------- MODULE Subscriptions_proofs --------------------------
(***************************************************************************)
(* For every set of owners, plans and requests, and every number of        *)
(* changes, faults and repeats: type correctness, the access of an owner   *)
(* is that of the newest thing the API was told, a transfer ends the       *)
(* access of its source first, and what is settled is what is paid for.    *)
(***************************************************************************)
EXTENDS Subscriptions, TLAPS

(***************************************************************************)
(* The inductive invariant.  The cursor of a row is the time of the newest *)
(* thing told, and never behind the event it names; a request knows, of    *)
(* each owner it looked up, a view that is no older than its event; and a  *)
(* transfer that has left its source behind has moved the source's cursor. *)
(***************************************************************************)
StoreInv(o) ==
    /\ cursor[o].ts = newest[o].ts /\ Access(o) = newest[o].plan
    /\ cursor[o].of <= cursor[o].ts

Moved(e) == e.type = "TRANSFER" => e.from /= e.to

WorkInv(h) == work[h] /= Idle =>
    LET e == work[h].event IN
    /\ work[h].pc \in {"plan", "direct"} => e.type /= "TRANSFER"
    /\ Moved(e)
    /\ work[h].left \subseteq Concerns(e)
    /\ work[h].pc = "write" => \A o \in work[h].left : work[h].views[o].at >= e.ts
    /\ work[h].pc = "write" /\ e.type = "TRANSFER" /\ e.from \in LookedUp(e, work[h].views) \ work[h].left =>
          cursor[e.from].ts >= e.ts

IInv ==
    /\ TypeOK
    /\ \A o \in Owners : StoreInv(o)
    /\ \A e \in pending \cup handled : Moved(e)
    /\ \A h \in Handlers : WorkInv(h)

LEMMA Constants == /\ None \notin Plans /\ 0 \in Times /\ Times \subseteq Nat
                   /\ \A S \in SUBSET Plans : Strongest(S) \in Plans \cup {None}
  BY SubscriptionsAssumption DEF None, Times, Strongest

LEMMA Busyness == /\ \A w \in Busy : w /= Idle /\ w.pc /= "idle"
                  /\ Idle.pc = "idle" /\ Idle.left = {} /\ Idle.event = NoEvent
                  /\ Idle.views = [o \in Owners |-> NoView]
  BY DEF Busy, Idle

\* A request that begins.
Begun(s, e, S) == [Idle EXCEPT !.pc = s, !.event = e, !.left = S]

LEMMA Begins ==
  ASSUME NEW s \in {"plan", "lookup", "direct", "write"}, NEW e \in Event, NEW S \in SUBSET Owners
  PROVE  /\ Begun(s, e, S) \in Busy
         /\ Begun(s, e, S).pc = s /\ Begun(s, e, S).event = e /\ Begun(s, e, S).left = S
<1>1. Idle \in [pc : {"idle"}, event : {NoEvent}, views : [Owners -> [at : Times, plan : Plans \cup {None}]],
                left : SUBSET Owners]
  BY Constants DEF Idle, NoView
<1>. QED BY <1>1 DEF Busy, Begun

LEMMA Working ==
  ASSUME TypeOK, NEW h \in Handlers, work[h] /= Idle \/ work[h].pc /= "idle"
  PROVE  /\ work[h] \in Busy /\ work[h] /= Idle
         /\ work[h].pc \in {"plan", "lookup", "direct", "write"} /\ work[h].left \in SUBSET Owners
         /\ work[h].views \in [Owners -> [at : Times, plan : Plans \cup {None}]]
         /\ work[h].event \in Event /\ work[h].event.ts \in Times /\ work[h].event.plan \in Plans \cup {None}
         /\ work[h].event.from \in Owners /\ work[h].event.to \in Owners /\ work[h].event.type \in Types
<1>1. work[h] \in Busy
  BY Busyness DEF TypeOK
<1>. QED BY <1>1, Busyness DEF Busy, Event

LEMMA Initially == Init => IInv
<1> SUFFICES ASSUME Init PROVE IInv
  OBVIOUS
<1>1. TypeOK
  BY Constants, Busyness, SubscriptionsAssumption DEF Init, TypeOK
<1>2. ASSUME NEW o \in Owners PROVE StoreInv(o)
  BY Constants DEF Init, StoreInv, Access, None
<1>3. ASSUME NEW h \in Handlers PROVE WorkInv(h)
  BY DEF Init, WorkInv
<1>. QED BY <1>1, <1>2, <1>3 DEF Init, IInv

\* The provider only adds what it has to tell.
LEMMA ChangesKeep ==
  ASSUME IInv, NEW now \in [Owners -> SUBSET Plans], NEW E \in SUBSET Event, \A e \in E : Moved(e), Changes(now, E)
  PROVE  IInv'
<1>1. clock \in Times /\ clock' = clock + 1 /\ clock < MaxClock /\ clock' \in Times
  BY SubscriptionsAssumption DEF IInv, TypeOK, Changes, Times
<1>2. UNCHANGED <<users, row, cursor, handled, work, orderly, newest, missed, extras>>
  BY DEF Changes
<1>3. paid' \in [Times -> [Owners -> SUBSET Plans]]
  BY <1>1 DEF Changes, IInv, TypeOK
<1>4. TypeOK'
  BY <1>1, <1>2, <1>3 DEF IInv, TypeOK, Changes
<1>5. \A o \in Owners : StoreInv(o)'
  BY <1>2 DEF IInv, StoreInv, Access
<1>6. \A h \in Handlers : WorkInv(h)'
  BY <1>2 DEF IInv, WorkInv
<1>7. \A f \in pending' \cup handled' : Moved(f)
  BY <1>2 DEF IInv, Changes
<1>. QED BY <1>4, <1>5, <1>6, <1>7 DEF IInv, Moved

LEMMA ProviderKeeps ==
  ASSUME IInv,
         \/ \E o \in Owners, p \in Plans :
               Pays(o, p) \/ Expires(o, p) \/ \E refund \in BOOLEAN : Cancels(o, p, refund)
         \/ Passes \/ \E a, b \in Owners : Transfers(a, b)
  PROVE  IInv'
<1>1. clock \in Times /\ paid[clock] \in [Owners -> SUBSET Plans]
  BY DEF IInv, TypeOK
<1>2. ASSUME clock < MaxClock PROVE clock + 1 \in Times
  BY <1>1, <1>2, SubscriptionsAssumption DEF Times
<1>3. ASSUME NEW o \in Owners, NEW p \in Plans, NEW type \in {"ACTIVE", "EXPIRATION", "CANCELLATION"}, clock < MaxClock
      PROVE  Tell(type, p, o) \in SUBSET Event /\ \A e \in Tell(type, p, o) : Moved(e)
  BY <1>2, <1>3 DEF Tell, Event, Types, Moved
<1>4. ASSUME NEW o \in Owners, NEW p \in Plans, Pays(o, p) PROVE IInv'
  <2>1. [paid[clock] EXCEPT ![o] = Together(@, p)] \in [Owners -> SUBSET Plans]
    BY <1>1 DEF Together
  <2>. QED BY <1>3, <1>4, <2>1, ChangesKeep DEF Pays, Changes
<1>5. ASSUME NEW o \in Owners, NEW p \in Plans, Expires(o, p) PROVE IInv'
  <2>1. [paid[clock] EXCEPT ![o] = @ \ {p}] \in [Owners -> SUBSET Plans]
    BY <1>1
  <2>. QED BY <1>3, <1>5, <2>1, ChangesKeep DEF Expires, Changes
<1>6. ASSUME NEW o \in Owners, NEW p \in Plans, NEW refund \in BOOLEAN, Cancels(o, p, refund) PROVE IInv'
  <2>1. [paid[clock] EXCEPT ![o] = IF refund THEN @ \ {p} ELSE @] \in [Owners -> SUBSET Plans]
    BY <1>1
  <2>. QED BY <1>3, <1>6, <2>1, ChangesKeep DEF Cancels, Changes
<1>7. ASSUME NEW a \in Owners, NEW b \in Owners, Transfers(a, b) PROVE IInv'
  <2> DEFINE e == [type |-> "TRANSFER", plan |-> None, from |-> a, to |-> b, ts |-> clock + 1]
  <2>1. a /= b /\ clock < MaxClock
    BY <1>7 DEF Transfers, Changes
  <2>2. e \in Event /\ Moved(e)
    BY <1>2, <2>1 DEF Event, Types, Moved
  <2>3. \A all \in SUBSET Plans : [paid[clock] EXCEPT ![a] = {}, ![b] = all] \in [Owners -> SUBSET Plans]
    BY <1>1
  <2>4. PICK all \in SUBSET Plans : Changes([paid[clock] EXCEPT ![a] = {}, ![b] = all], {e})
    BY <1>1, <1>7 DEF Transfers, Has
  <2>. QED BY <2>2, <2>3, <2>4, ChangesKeep
<1>8. CASE Passes
  BY <1>1, <1>8, ChangesKeep DEF Passes
<1>. QED BY <1>4, <1>5, <1>6, <1>7, <1>8

\* A write of the store: the row follows the newest thing told, and its cursor never goes back.
LEMMA ApplyEffect ==
  ASSUME IInv, NEW o \in Owners, NEW plan \in Plans \cup {None}, NEW ts \in Times,
         NEW by \in {"event", "reconcile", "transfer", "resync"}, NEW of \in Times, of <= ts,
         Apply(o, plan, ts, by, of)
  PROVE  /\ row' \in [Owners -> [plan : Plans \cup {None}, status : {"ACTIVE", "CANCELED"}]]
         /\ cursor' \in [Owners -> [ts : Times, by : {None, "event", "reconcile", "transfer", "resync"}, of : Times]]
         /\ newest' \in [Owners -> [ts : Times, plan : Plans \cup {None}]]
         /\ \A q \in Owners : StoreInv(q)' /\ cursor'[q].ts >= cursor[q].ts
         /\ \A q \in Owners \ {o} : row'[q] = row[q] /\ cursor'[q] = cursor[q]
         /\ cursor'[o].ts >= of
<1> DEFINE Rows == [plan : Plans \cup {None}, status : {"ACTIVE", "CANCELED"}]
           Cursors == [ts : Times, by : {None, "event", "reconcile", "transfer", "resync"}, of : Times]
<1>1. /\ row \in [Owners -> Rows] /\ cursor \in [Owners -> Cursors]
      /\ newest \in [Owners -> [ts : Times, plan : Plans \cup {None}]]
      /\ \A q \in Owners : StoreInv(q) /\ cursor[q].ts \in Times /\ cursor[q].of \in Times
  BY DEF IInv, TypeOK
<1>2. ts \in Nat /\ of \in Nat /\ \A q \in Owners : cursor[q].ts \in Nat /\ cursor[q].of \in Nat
  BY <1>1, Constants
<1>3. newest[o].ts = cursor[o].ts
  BY <1>1 DEF StoreInv
<1>4. CASE Newer(o, ts, by, of)
  <2>1. /\ cursor' = [cursor EXCEPT ![o] = [ts |-> ts, by |-> by, of |-> of]]
        /\ newest' = [newest EXCEPT ![o] = [ts |-> ts, plan |-> plan]]
        /\ row' = [row EXCEPT ![o] = IF plan = None THEN [@ EXCEPT !.status = "CANCELED"]
                                     ELSE [plan |-> plan, status |-> "ACTIVE"]]
    BY <1>3, <1>4 DEF Apply, Newer
  <2>2. ts > cursor[o].ts
    BY <1>4 DEF Newer
  <2>3. cursor'[o] = [ts |-> ts, by |-> by, of |-> of] /\ \A q \in Owners \ {o} : cursor'[q] = cursor[q]
    BY <1>1, <2>1
  <2>4. newest'[o] = [ts |-> ts, plan |-> plan] /\ \A q \in Owners \ {o} : newest'[q] = newest[q]
    BY <1>1, <2>1
  <2>5. /\ row'[o] = IF plan = None THEN [row[o] EXCEPT !.status = "CANCELED"] ELSE [plan |-> plan, status |-> "ACTIVE"]
        /\ \A q \in Owners \ {o} : row'[q] = row[q]
    BY <1>1, <2>1
  <2>6. row[o] \in Rows
    BY <1>1
  <2>7. Access(o)' = plan /\ row'[o] \in Rows
    BY <2>5, <2>6 DEF Access
  <2>8. StoreInv(o)'
    BY <2>3, <2>4, <2>7 DEF StoreInv
  <2>9. \A q \in Owners \ {o} : StoreInv(q)' /\ cursor'[q].ts >= cursor[q].ts
    BY <1>1, <1>2, <2>3, <2>4, <2>5 DEF StoreInv, Access
  <2>10. /\ row' \in [Owners -> Rows] /\ cursor' \in [Owners -> Cursors]
         /\ newest' \in [Owners -> [ts : Times, plan : Plans \cup {None}]]
    BY <1>1, <2>1, <2>5, <2>7
  <2>. QED BY <1>2, <2>2, <2>3, <2>5, <2>8, <2>9, <2>10
<1>5. CASE ~Newer(o, ts, by, of)
  <2>1. UNCHANGED <<row, cursor, newest>>
    BY <1>2, <1>3, <1>5 DEF Apply, Newer
  <2>2. cursor[o].ts >= of
    BY <1>1, <1>2, <1>5 DEF Newer, IsNews, StoreInv
  <2>. QED BY <1>1, <1>2, <2>1, <2>2 DEF StoreInv, Access
<1>. QED BY <1>4, <1>5

\* A request that moves on leaves the others' knowledge alone.
LEMMA RequestKeeps ==
  ASSUME IInv, NEW h \in Handlers, NEW w \in Busy \cup {Idle}, Becomes(h, w), WorkInv(h)',
         w.pc = "write" => w.left /= {},
         \A q \in Owners : cursor'[q].ts >= cursor[q].ts, \A q \in Owners : cursor'[q].ts \in Nat
  PROVE  /\ work' \in [Handlers -> Busy \cup {Idle}]
         /\ \A g \in Handlers : WorkInv(g)' /\ (work'[g].pc = "write" => work'[g].left /= {})
<1>1. work \in [Handlers -> Busy \cup {Idle}] /\ \A g \in Handlers : work[g].pc = "write" => work[g].left /= {}
  BY DEF IInv, TypeOK
<1>2. work'[h] = w /\ \A g \in Handlers \ {h} : work'[g] = work[g]
  BY <1>1 DEF Becomes
<1>3. ASSUME NEW g \in Handlers \ {h} PROVE WorkInv(g)'
  <2>1. CASE work[g] = Idle
    BY <1>2, <2>1 DEF WorkInv
  <2>2. CASE work[g] /= Idle
    <3>1. work[g].event.from \in Owners /\ work[g].event.ts \in Nat /\ WorkInv(g)
      BY <2>2, Working, Constants DEF IInv
    <3>2. cursor[work[g].event.from].ts \in Nat /\ cursor'[work[g].event.from].ts >= cursor[work[g].event.from].ts
          /\ cursor'[work[g].event.from].ts \in Nat
      BY <3>1, Constants DEF IInv, TypeOK
    <3>3. cursor[work[g].event.from].ts >= work[g].event.ts => cursor'[work[g].event.from].ts >= work[g].event.ts
      BY <3>1, <3>2
    <3>. QED BY <1>2, <2>2, <3>1, <3>3 DEF WorkInv
  <2>. QED BY <2>1, <2>2
<1>. QED BY <1>1, <1>2, <1>3 DEF Becomes

\* Its end, with any answer.
LEMMA EndKeeps ==
  ASSUME IInv, NEW h \in Handlers,
         \/ Refuse(h)
         \/ \E e \in pending \cup handled \cup {work[h].event} : e \in Event /\ Moved(e) /\ Acknowledge(h, e),
         \A q \in Owners : cursor'[q].ts >= cursor[q].ts /\ cursor'[q].ts \in Nat
  PROVE  /\ work' \in [Handlers -> Busy \cup {Idle}]
         /\ \A g \in Handlers : WorkInv(g)' /\ (work'[g].pc = "write" => work'[g].left /= {})
         /\ pending' \subseteq Event /\ handled' \subseteq Event /\ \A f \in pending' \cup handled' : Moved(f)
<1>1. Becomes(h, Idle)
  BY DEF Refuse, Acknowledge
<1>2. work'[h] = Idle
  BY <1>1 DEF Becomes, IInv, TypeOK
<1>3. WorkInv(h)' /\ Idle.pc /= "write"
  BY <1>2 DEF WorkInv, Idle
<1>4. pending' \subseteq Event /\ handled' \subseteq Event /\ \A f \in pending' \cup handled' : Moved(f)
  BY DEF Refuse, Acknowledge, IInv, TypeOK
<1>. QED BY <1>1, <1>3, <1>4, RequestKeeps

\* The cursors and rows of a step that writes nothing.
Still == UNCHANGED <<clock, paid, users, row, cursor, newest>>

LEMMA StillKeeps ==
  ASSUME IInv, Still, work' \in [Handlers -> Busy \cup {Idle}], orderly' \in BOOLEAN,
         missed' \in [Owners -> Times], extras' \in 0..MaxExtras,
         pending' \subseteq Event, handled' \subseteq Event, \A f \in pending' \cup handled' : Moved(f),
         \A g \in Handlers : WorkInv(g)' /\ (work'[g].pc = "write" => work'[g].left /= {})
  PROVE  IInv'
<1>1. TypeOK'
  BY DEF IInv, TypeOK, Still
<1>2. \A o \in Owners : StoreInv(o)'
  BY DEF IInv, Still, StoreInv, Access
<1>3. \A f \in (pending \cup handled)' : Moved(f)
  OBVIOUS
<1>. QED BY <1>1, <1>2, <1>3 DEF IInv, Moved

LEMMA StillCursors ==
  ASSUME IInv, Still PROVE \A q \in Owners : cursor'[q].ts >= cursor[q].ts /\ cursor'[q].ts \in Nat
<1>1. \A q \in Owners : cursor[q].ts \in Nat
  BY Constants DEF IInv, TypeOK
<1>. QED BY <1>1 DEF Still

LEMMA BudgetsKeep == IInv /\ (extras' = extras \/ Extra) => extras' \in 0..MaxExtras
  BY SubscriptionsAssumption DEF IInv, TypeOK, Extra

LEMMA MissesKeep ==
  ASSUME IInv, NEW absent, NEW e \in Event, Misses(absent, e)
  PROVE  /\ missed' \in [Owners -> Times]
         /\ \A o \in Owners : missed'[o] >= missed[o] /\ missed'[o] \in Nat /\ (o \in absent => missed'[o] >= e.ts)
<1>1. missed \in [Owners -> Times] /\ e.ts \in Times
  BY DEF IInv, TypeOK, Event
<1>2. missed' \in [Owners -> Times]
  BY <1>1 DEF Misses
<1>3. ASSUME NEW o \in Owners PROVE missed'[o] >= missed[o] /\ missed'[o] \in Nat /\ (o \in absent => missed'[o] >= e.ts)
  <2>1. missed'[o] = IF o \in absent /\ e.ts > missed[o] THEN e.ts ELSE missed[o]
    BY DEF Misses
  <2>2. missed[o] \in Nat /\ e.ts \in Nat
    BY <1>1, Constants
  <2>. QED BY <2>1, <2>2
<1>. QED BY <1>2, <1>3

LEMMA StillStep ==
  ASSUME IInv, NEW h \in Handlers, NEW w \in Busy \cup {Idle}, Becomes(h, w), WorkInv(h)',
         w.pc = "write" => w.left /= {}, Still, orderly' \in BOOLEAN,
         missed' \in [Owners -> Times], extras' \in 0..MaxExtras, UNCHANGED <<pending, handled>>
  PROVE  IInv'
<1>1. (\A q \in Owners : cursor'[q].ts >= cursor[q].ts) /\ \A q \in Owners : cursor'[q].ts \in Nat
  BY StillCursors
<1>2. /\ work' \in [Handlers -> Busy \cup {Idle}]
      /\ \A g \in Handlers : WorkInv(g)' /\ (work'[g].pc = "write" => work'[g].left /= {})
  BY <1>1, RequestKeeps
<1>3. pending' \subseteq Event /\ handled' \subseteq Event /\ \A f \in pending' \cup handled' : Moved(f)
  BY DEF IInv, TypeOK
<1>. QED BY <1>2, <1>3, StillKeeps

\* The two ways in which a webhook is received.
LEMMA Received ==
  ASSUME NEW h \in Handlers, NEW e, Receive(h, e)
  PROVE  LET s == IF e.type = "TRANSFER" THEN "lookup" ELSE "plan"
             S == IF e.type = "TRANSFER" THEN Concerns(e) \cap users ELSE {e.to}
         IN  \/ Acknowledge(h, e) /\ (~Actionable(e) \/ (e.type = "TRANSFER" /\ Concerns(e) \cap users = {}))
             \/ Becomes(h, Begun(s, e, S)) /\ UNCHANGED <<pending, handled>> /\ Actionable(e)
  BY DEF Receive, Begun

LEMMA ReceiveKeeps ==
  ASSUME IInv, NEW h \in Handlers, NEW e \in pending \cup handled, Receive(h, e) PROVE IInv'
<1>1. e \in Event /\ Moved(e) /\ e.from \in Owners /\ e.to \in Owners
  BY DEF IInv, TypeOK, Event
<1>2. Still
  BY DEF Receive, Still, Provider
<1>3. orderly' \in BOOLEAN /\ extras' \in 0..MaxExtras
  BY BudgetsKeep DEF Receive, IInv, TypeOK
<1>4. missed' \in [Owners -> Times]
  <2>1. CASE UNCHANGED missed
    BY <2>1 DEF IInv, TypeOK
  <2>2. CASE Misses(Concerns(e) \ users, e)
    BY <1>1, <2>2, MissesKeep
  <2>. QED BY <2>1, <2>2 DEF Receive
<1> DEFINE s == IF e.type = "TRANSFER" THEN "lookup" ELSE "plan"
           S == IF e.type = "TRANSFER" THEN Concerns(e) \cap users ELSE {e.to}
           w == Begun(s, e, S)
<1>5. CASE Acknowledge(h, e)
  <2>1. \A q \in Owners : cursor'[q].ts >= cursor[q].ts /\ cursor'[q].ts \in Nat
    BY <1>2, StillCursors
  <2>. QED BY <1>1, <1>2, <1>3, <1>4, <1>5, <2>1, EndKeeps, StillKeeps
<1>6. CASE Becomes(h, w) /\ UNCHANGED <<pending, handled>>
  <2>1. w \in Busy /\ w.event = e /\ w.left = S /\ w.pc = s /\ S \subseteq Concerns(e)
    <3>1. s \in {"plan", "lookup", "direct", "write"} /\ S \in SUBSET Owners /\ S \subseteq Concerns(e)
      BY <1>1 DEF Concerns
    <3>. QED BY <1>1, <3>1, Begins
  <2>2. work'[h] = w
    BY <1>6 DEF Becomes, IInv, TypeOK
  <2> HIDE DEF w
  <2>3. WorkInv(h)'
    BY <1>1, <2>1, <2>2 DEF WorkInv, Moved, Concerns
  <2>4. w.pc /= "write"
    BY <2>1
  <2>. QED BY <1>2, <1>3, <1>4, <1>6, <2>1, <2>3, <2>4, StillStep
<1>. QED BY <1>5, <1>6, Received

LEMMA ReadKeeps ==
  ASSUME IInv, NEW h \in Handlers, ReadPlan(h) \/ \E o \in Owners : Resync(h, o) PROVE IInv'
<1>1. Still /\ orderly' = orderly /\ pending' = pending /\ handled' = handled /\ missed' = missed
  BY DEF ReadPlan, Resync, Still, Provider
<1>2. missed' \in [Owners -> Times] /\ extras' \in 0..MaxExtras /\ orderly' \in BOOLEAN
  BY <1>1, BudgetsKeep DEF ReadPlan, Resync, IInv, TypeOK
<1>3. CASE ReadPlan(h)
  <2>1. work[h] \in Busy /\ work[h].pc = "plan" /\ work[h] /= Idle /\ WorkInv(h)
    BY <1>3, Working, Busyness DEF ReadPlan, IInv
  <2>2. PICK s \in {"lookup", "direct"} : Becomes(h, [work[h] EXCEPT !.pc = s])
    BY <1>3 DEF ReadPlan
  <2> DEFINE w == [work[h] EXCEPT !.pc = s]
  <2>3. w \in Busy /\ w.pc = s /\ w.event = work[h].event /\ w.left = work[h].left
    BY <2>1 DEF Busy
  <2>4. work'[h] = w
    BY <2>2 DEF Becomes, IInv, TypeOK
  <2> HIDE DEF w
  <2>5. WorkInv(h)'
    BY <2>1, <2>3, <2>4 DEF WorkInv, Moved, Concerns
  <2>. QED BY <1>1, <1>2, <2>2, <2>3, <2>5, StillStep DEF w
<1>4. ASSUME NEW o \in Owners, Resync(h, o) PROVE IInv'
  <2> DEFINE e == [type |-> "RESYNC", plan |-> None, from |-> o, to |-> o, ts |-> 0]
             w == Begun("lookup", e, {o})
  <2>1. Becomes(h, w)
    BY <1>4 DEF Resync, Begun
  <2>2. w \in Busy /\ w.event = e /\ w.left = {o} /\ w.pc = "lookup"
    <3>1. e \in Event /\ {o} \in SUBSET Owners
      BY Constants DEF Event, Types
    <3>. QED BY <3>1, Begins
  <2>3. work'[h] = w
    BY <2>1 DEF Becomes, IInv, TypeOK
  <2> HIDE DEF w
  <2>4. WorkInv(h)'
    BY <2>2, <2>3 DEF WorkInv, Concerns, Moved
  <2>5. w.pc /= "write"
    BY <2>2
  <2>. QED BY <1>1, <1>2, <2>1, <2>2, <2>4, <2>5, StillStep
<1>. QED BY <1>3, <1>4

\* A new account has nothing, and a webhook without one changes nothing.
LEMMA EnsureKeeps == ASSUME IInv, \E o \in Owners : Ensure(o) PROVE IInv'
<1>1. UNCHANGED <<clock, paid, row, cursor, pending, handled, work, orderly, newest, missed, extras>> /\ users' \subseteq Owners
  BY DEF Ensure, Provider, IInv, TypeOK
<1>. QED BY <1>1 DEF IInv, TypeOK, StoreInv, Access, WorkInv, Moved, Concerns

LEMMA IgnoreKeeps == ASSUME IInv, NEW h \in Handlers, Ignore(h) PROVE IInv'
<1> DEFINE e == work[h].event
<1>1. Still /\ orderly' = orderly /\ extras' = extras /\ Acknowledge(h, e) /\ Misses({e.to}, e)
  BY DEF Ignore, Still, Provider
<1>2. e \in Event /\ Moved(e)
  BY Working DEF Ignore, IInv, WorkInv
<1>3. missed' \in [Owners -> Times] /\ extras' \in 0..MaxExtras /\ orderly' \in BOOLEAN
  BY <1>1, <1>2, MissesKeep DEF IInv, TypeOK
<1>4. \A q \in Owners : cursor'[q].ts >= cursor[q].ts /\ cursor'[q].ts \in Nat
  BY <1>1, StillCursors
<1>. QED BY <1>1, <1>2, <1>3, <1>4, EndKeeps, StillKeeps

\* A request that has its answer for one owner.
Seen(h, o, view, s, S) ==
    [work[h] EXCEPT !.views = [work[h].views EXCEPT ![o] = view], !.pc = s, !.left = S]

LEMMA Sees ==
  ASSUME NEW h \in Handlers, work[h] \in Busy, NEW o \in Owners, NEW view \in [at : Times, plan : Plans \cup {None}],
         NEW s \in {"lookup", "write"}, NEW S \in SUBSET Owners
  PROVE  LET w == Seen(h, o, view, s, S)
         IN  /\ w \in Busy /\ w.pc = s /\ w.left = S /\ w.event = work[h].event
             /\ w.views = [work[h].views EXCEPT ![o] = view]
             /\ w.views[o] = view /\ \A q \in Owners \ {o} : w.views[q] = work[h].views[q]
<1>1. work[h].views \in [Owners -> [at : Times, plan : Plans \cup {None}]]
  BY DEF Busy
<1>2. [work[h].views EXCEPT ![o] = view] \in [Owners -> [at : Times, plan : Plans \cup {None}]]
  BY <1>1
<1> DEFINE w == Seen(h, o, view, s, S)
<1>3. w = [work[h] EXCEPT !.views = [work[h].views EXCEPT ![o] = view], !.pc = s, !.left = S]
  BY DEF Seen
<1>4. w \in Busy /\ w.pc = s /\ w.left = S /\ w.event = work[h].event /\ w.views = [work[h].views EXCEPT ![o] = view]
  BY <1>2, <1>3 DEF Busy
<1>. QED BY <1>1, <1>4

LEMMA LookUpKeeps ==
  ASSUME IInv, NEW h \in Handlers, LookUpFails(h) \/ \E o \in Owners, at \in Times : LookUp(h, o, at) PROVE IInv'
<1>1. Still /\ orderly' = orderly /\ missed' = missed /\ work[h].pc = "lookup"
  BY DEF LookUpFails, LookUp, Still, Provider
<1>2. missed' \in [Owners -> Times] /\ extras' \in 0..MaxExtras /\ orderly' \in BOOLEAN
  BY <1>1, BudgetsKeep DEF LookUpFails, LookUp, IInv, TypeOK
<1>3. /\ work[h] \in Busy /\ work[h] /= Idle /\ WorkInv(h) /\ work[h].left \in SUBSET Owners
      /\ work[h].event.from \in Owners /\ work[h].event.to \in Owners /\ work[h].event.ts \in Nat
  BY <1>1, Working, Busyness, Constants DEF IInv
<1>4. CASE Refuse(h)
  <2>1. \A q \in Owners : cursor'[q].ts >= cursor[q].ts /\ cursor'[q].ts \in Nat
    BY <1>1, StillCursors
  <2>. QED BY <1>1, <1>2, <1>4, <2>1, EndKeeps, StillKeeps DEF Still
<1>5. ASSUME NEW o \in Owners, NEW at \in Times, LookUp(h, o, at), ~Refuse(h) PROVE IInv'
  <2> DEFINE view == [at |-> at, plan |-> Strongest(paid[at][o])]
             rest == work[h].left \ {o}
             views == [work[h].views EXCEPT ![o] = view]
             seen == LookedUp(work[h].event, views)
             w == Seen(h, o, view, IF rest = {} THEN "write" ELSE "lookup", IF rest = {} THEN seen ELSE rest)
  <2>1. ~(at < work[h].event.ts) /\ Becomes(h, w) /\ UNCHANGED <<pending, handled>> /\ o \in work[h].left
    BY <1>5 DEF LookUp, Seen
  <2>2. paid[at][o] \in SUBSET Plans
    BY DEF IInv, TypeOK
  <2>3. view \in [at : Times, plan : Plans \cup {None}]
    BY <2>2, Constants
  <2>4. /\ seen \in SUBSET Owners /\ seen \subseteq Concerns(work[h].event) /\ rest \in SUBSET Owners
        /\ (IF rest = {} THEN "write" ELSE "lookup") \in {"lookup", "write"}
        /\ (IF rest = {} THEN seen ELSE rest) \in SUBSET Owners
    BY <1>3 DEF Concerns, LookedUp
  <2>5. at >= work[h].event.ts /\ view.at = at
    BY <1>3, <2>1, Constants
  <2>6. o \in Concerns(work[h].event) /\ work[h].left \subseteq Concerns(work[h].event)
    BY <1>3, <2>1 DEF WorkInv
  <2>7. views[o] = view
    BY <1>3, <2>1 DEF Busy
  <2>8. o \in seen /\ \A q \in seen : views[q].at >= work[h].event.ts
    BY <2>5, <2>6, <2>7 DEF LookedUp
  <2>9. /\ w \in Busy /\ w.pc = (IF rest = {} THEN "write" ELSE "lookup") /\ w.event = work[h].event
        /\ w.left = (IF rest = {} THEN seen ELSE rest) /\ w.views = views
    BY <1>3, <2>3, <2>4, Sees
  <2>10. work'[h] = w
    BY <2>1 DEF Becomes, IInv, TypeOK
  <2>11. w.pc = "write" => w.left /= {}
    BY <2>8, <2>9
  <2> HIDE DEF w, view, views, seen
  <2>12. WorkInv(h)'
    <3>1. w.pc \in {"lookup", "write"} /\ w.event = work[h].event /\ Moved(w.event) /\ w.left \subseteq Concerns(w.event)
      BY <1>3, <2>4, <2>6, <2>9 DEF WorkInv
    <3>2. w.pc = "write" => w.left = seen /\ w.left = LookedUp(w.event, w.views)
      BY <2>9 DEF seen
    <3>. QED BY <2>8, <2>9, <2>10, <3>1, <3>2 DEF WorkInv, Moved, Concerns, LookedUp
  <2>. QED BY <1>1, <1>2, <2>1, <2>9, <2>11, <2>12, StillStep
<1>. QED BY <1>4, <1>5 DEF LookUpFails

\* What the store holds after a write.
Stored == /\ row' \in [Owners -> [plan : Plans \cup {None}, status : {"ACTIVE", "CANCELED"}]]
          /\ cursor' \in [Owners -> [ts : Times, by : {None, "event", "reconcile", "transfer", "resync"}, of : Times]]
          /\ newest' \in [Owners -> [ts : Times, plan : Plans \cup {None}]]
          /\ \A q \in Owners : StoreInv(q)' /\ cursor'[q].ts >= cursor[q].ts /\ cursor'[q].ts \in Nat

LEMMA StoredKeeps ==
  ASSUME IInv, Stored, UNCHANGED <<clock, paid, users, orderly, extras>>, missed' \in [Owners -> Times],
         work' \in [Handlers -> Busy \cup {Idle}],
         pending' \subseteq Event, handled' \subseteq Event, \A f \in pending' \cup handled' : Moved(f),
         \A g \in Handlers : WorkInv(g)' /\ (work'[g].pc = "write" => work'[g].left /= {})
  PROVE  IInv'
<1>1. TypeOK'
  BY DEF IInv, TypeOK, Stored
<1>2. \A f \in (pending \cup handled)' : Moved(f)
  OBVIOUS
<1>. QED BY <1>1, <1>2 DEF IInv, Moved, Stored

\* The write of a view, and that it ends the source's access before it touches the destination's.
LEMMA ViewWritten ==
  ASSUME IInv, NEW h \in Handlers, WriteView(h)
  PROVE  LET e == work[h].event
             o == SourceFirst(h)
         IN  /\ Stored /\ o \in work[h].left /\ o \in Owners
             /\ \A q \in Owners \ {o} : row'[q] = row[q] /\ cursor'[q] = cursor[q]
             /\ cursor'[o].ts >= e.ts
<1> DEFINE e == work[h].event
           o == SourceFirst(h)
           view == work[h].views[o]
<1>1. work[h].pc = "write" /\ Apply(o, view.plan, view.at, By(e), IF e.type = "RESYNC" THEN view.at ELSE e.ts)
  BY DEF WriteView
<1>2. /\ work[h] \in Busy /\ work[h] /= Idle /\ WorkInv(h) /\ work[h].left \in SUBSET Owners /\ work[h].left /= {}
      /\ e.from \in Owners /\ e.to \in Owners /\ e.ts \in Times /\ e.type \in Types
      /\ work[h].views \in [Owners -> [at : Times, plan : Plans \cup {None}]]
  BY <1>1, Working, Busyness DEF IInv, TypeOK
<1>3. work[h].left \subseteq {e.from, e.to} /\ \A q \in work[h].left : work[h].views[q].at >= e.ts
  BY <1>1, <1>2 DEF WorkInv, Concerns
<1>4. o \in work[h].left /\ o \in Owners
  BY <1>2, <1>3 DEF SourceFirst
<1>5. view.at \in Times /\ view.plan \in Plans \cup {None} /\ view.at >= e.ts /\ view.at \in Nat /\ e.ts \in Nat
  BY <1>2, <1>3, <1>4, Constants
<1>6. By(e) \in {"event", "reconcile", "transfer", "resync"}
  BY DEF By
<1>7. PICK of \in Times : of <= view.at /\ of >= e.ts /\ Apply(o, view.plan, view.at, By(e), of)
  BY <1>1, <1>2, <1>5
<1> HIDE DEF o, view, e
<1>8. /\ row' \in [Owners -> [plan : Plans \cup {None}, status : {"ACTIVE", "CANCELED"}]]
      /\ cursor' \in [Owners -> [ts : Times, by : {None, "event", "reconcile", "transfer", "resync"}, of : Times]]
      /\ newest' \in [Owners -> [ts : Times, plan : Plans \cup {None}]]
      /\ \A q \in Owners : StoreInv(q)' /\ cursor'[q].ts >= cursor[q].ts
      /\ \A q \in Owners \ {o} : row'[q] = row[q] /\ cursor'[q] = cursor[q]
      /\ cursor'[o].ts >= of
  BY <1>4, <1>5, <1>6, <1>7, ApplyEffect
<1>9. \A q \in Owners : cursor'[q].ts \in Nat
  BY <1>8, Constants
<1>10. cursor'[o].ts >= e.ts
  BY <1>4, <1>5, <1>7, <1>8, <1>9, Constants
<1>. QED BY <1>4, <1>8, <1>9, <1>10 DEF Stored, o, e

LEMMA WritesKeep ==
  ASSUME IInv, NEW h \in Handlers, WriteEvent(h) \/ WriteView(h) \/ WriteFails(h) PROVE IInv'
<1> DEFINE e == work[h].event
<1>1. work[h].pc \in {"direct", "write"}
  BY DEF WriteEvent, WriteView, WriteFails
<1>2. /\ work[h] \in Busy /\ work[h] /= Idle /\ WorkInv(h) /\ work[h].left \in SUBSET Owners
      /\ e \in Event /\ e.from \in Owners /\ e.to \in Owners /\ e.ts \in Times /\ e.type \in Types
      /\ e.plan \in Plans \cup {None} /\ Moved(e)
  BY <1>1, Working, Busyness DEF IInv, WorkInv
<1>3. CASE WriteFails(h)
  <2>1. Still /\ orderly' = orderly /\ missed' = missed /\ Refuse(h)
    BY <1>3 DEF WriteFails, Still, Provider
  <2>2. missed' \in [Owners -> Times] /\ extras' \in 0..MaxExtras /\ orderly' \in BOOLEAN
    BY <1>3, <2>1, BudgetsKeep DEF WriteFails, IInv, TypeOK
  <2>3. \A q \in Owners : cursor'[q].ts >= cursor[q].ts /\ cursor'[q].ts \in Nat
    BY <2>1, StillCursors
  <2>. QED BY <2>1, <2>2, <2>3, EndKeeps, StillKeeps DEF Still
<1>4. CASE WriteEvent(h)
  <2>1. /\ Apply(e.to, IF e.type = "ACTIVE" THEN e.plan ELSE None, e.ts, "event", e.ts)
        /\ Acknowledge(h, e) /\ UNCHANGED <<clock, paid, users, orderly, missed, extras>>
    BY <1>4 DEF WriteEvent, Provider
  <2>2. PICK plan \in Plans \cup {None} : Apply(e.to, plan, e.ts, "event", e.ts)
    BY <1>2, <2>1
  <2>3. e.ts <= e.ts
    <3>1. e.ts \in Nat
      BY <1>2, Constants
    <3>. QED BY ONLY <3>1
  <2>4. Stored
    BY <1>2, <2>2, <2>3, ApplyEffect, Constants DEF Stored
  <2>5. missed' \in [Owners -> Times]
    BY <2>1 DEF IInv, TypeOK
  <2>. QED BY <1>2, <2>1, <2>4, <2>5, EndKeeps, StoredKeeps DEF Stored
<1>5. CASE WriteView(h)
  <2> DEFINE o == SourceFirst(h)
             rest == work[h].left \ {o}
  <2>1. /\ Stored /\ o \in work[h].left /\ o \in Owners
        /\ \A q \in Owners \ {o} : cursor'[q] = cursor[q]
        /\ cursor'[o].ts >= e.ts
    BY <1>5, ViewWritten
  <2>2. UNCHANGED <<clock, paid, users, orderly, extras>> /\ work[h].pc = "write" /\ missed' \in [Owners -> Times]
    <3>1. missed \in [Owners -> Times] /\ 0 \in Times
      BY Constants DEF IInv, TypeOK
    <3>2. [missed EXCEPT ![o] = 0] \in [Owners -> Times]
      BY <3>1
    <3>. QED BY <1>5, <3>1, <3>2 DEF WriteView, Provider
  <2>3. CASE Acknowledge(h, e)
    BY <1>2, <2>1, <2>2, <2>3, EndKeeps, StoredKeeps DEF Stored
  <2>4. CASE rest /= {} /\ Becomes(h, [work[h] EXCEPT !.left = rest]) /\ UNCHANGED <<pending, handled>>
    <3> DEFINE w == [work[h] EXCEPT !.left = rest]
    <3>1. /\ w \in Busy /\ w.left = rest /\ w.pc = "write" /\ w.event = e /\ w.views = work[h].views
      BY <1>2, <2>2 DEF Busy
    <3>2. work'[h] = w
      BY <2>4 DEF Becomes, IInv, TypeOK
    <3>3. e.type = "TRANSFER" /\ e.from \in LookedUp(e, work[h].views) \ rest => cursor'[e.from].ts >= e.ts
      <4>1. CASE e.from = o
        BY <2>1, <4>1
      <4>2. CASE e.from /= o
        BY <1>2, <2>1, <2>2, <4>2 DEF WorkInv
      <4>. QED BY <4>1, <4>2
    <3> HIDE DEF w
    <3>4. WorkInv(h)'
      BY <1>2, <2>2, <3>1, <3>2, <3>3 DEF WorkInv, Moved, Concerns, LookedUp
    <3>5. /\ work' \in [Handlers -> Busy \cup {Idle}]
          /\ \A g \in Handlers : WorkInv(g)' /\ (work'[g].pc = "write" => work'[g].left /= {})
      BY <2>1, <2>2, <2>4, <3>1, <3>4, RequestKeeps DEF Stored, w
    <3>6. pending' \subseteq Event /\ handled' \subseteq Event /\ \A f \in pending' \cup handled' : Moved(f)
      BY <2>4 DEF IInv, TypeOK
    <3>. QED BY <2>1, <2>2, <3>5, <3>6, StoredKeeps
  <2>. QED BY <1>5, <2>3, <2>4 DEF WriteView
<1>. QED BY <1>3, <1>4, <1>5

LEMMA IInvPreserved == IInv /\ [Next]_vars => IInv'
<1>1. CASE UNCHANGED vars
  BY <1>1 DEF vars, IInv, TypeOK, StoreInv, Access, WorkInv, Moved, Concerns, LookedUp
<1>. QED BY <1>1, ProviderKeeps, EnsureKeeps, ReceiveKeeps, ReadKeeps, IgnoreKeeps, LookUpKeeps, WritesKeep DEF Next

\* A step of one request.
RequestStep(h) ==
    \/ \E e \in pending \cup handled : Receive(h, e)
    \/ ReadPlan(h) \/ Ignore(h) \/ LookUpFails(h) \/ WriteEvent(h) \/ WriteView(h) \/ WriteFails(h)
    \/ \E o \in Owners : Resync(h, o) \/ \E at \in Times : LookUp(h, o, at)

LEMMA OneRequest ==
  ASSUME NEW g \in Handlers, RequestStep(g), work \in [Handlers -> Busy \cup {Idle}]
  PROVE  \A h \in Handlers \ {g} : work'[h] = work[h]
<1>1. \E w : Becomes(g, w)
  BY DEF RequestStep, Receive, ReadPlan, Ignore, LookUp, LookUpFails, Resync, WriteEvent, WriteView, WriteFails,
         Acknowledge, Refuse
<1>. QED BY <1>1 DEF Becomes

\* The invariant holds in every reachable state.
THEOREM Invariance == Spec => []IInv
  BY Initially, IInvPreserved, PTL DEF Spec

\* Types: every plan, status, cursor and request stays what the code can hold.
THEOREM TypeCorrect == Spec => []TypeOK
<1>1. IInv => TypeOK
  BY DEF IInv
<1>. QED BY <1>1, Invariance, PTL

\* However webhooks are lost, repeated and reordered, and whatever requests overlap: what an owner may
\* use is what the newest thing told says.
THEOREM NewestAccess == Spec => []NewestStands
<1>1. IInv => NewestStands
  BY DEF IInv, TypeOK, StoreInv, NewestStands
<1>. QED BY <1>1, Invariance, PTL

\* No delivery of a transfer, and no failure in one, touches its destination before its source has ended.
THEOREM SourceIsEnded == Spec => SourceEndsFirst
<1> DEFINE Ended(h) ==
      LET e == work[h].event IN
         work[h].pc = "write" /\ work'[h] /= work[h] /\ e.type = "TRANSFER" /\ e.from \in LookedUp(e, work[h].views)
         /\ row'[e.to] /= row[e.to] => cursor[e.from].ts >= e.ts
<1>1. ASSUME IInv, Next, NEW h \in Handlers PROVE Ended(h)
  <2> SUFFICES ASSUME work[h].pc = "write", work'[h] /= work[h], work[h].event.type = "TRANSFER",
                      work[h].event.from \in LookedUp(work[h].event, work[h].views), row'[work[h].event.to] /= row[work[h].event.to]
               PROVE  cursor[work[h].event.from].ts >= work[h].event.ts
    OBVIOUS
  <2>1. WriteView(h)
    <3>1. ~ \/ \E o \in Owners, p \in Plans :
                  Pays(o, p) \/ Expires(o, p) \/ \E refund \in BOOLEAN : Cancels(o, p, refund)
            \/ Passes \/ (\E a, b \in Owners : Transfers(a, b)) \/ \E o \in Owners : Ensure(o)
      BY DEF Pays, Expires, Cancels, Transfers, Passes, Changes, Ensure
    <3>2. PICK g \in Handlers : RequestStep(g)
      BY <1>1, <3>1 DEF Next, RequestStep
    <3>3. g = h
      BY <1>1, <3>2, OneRequest DEF IInv, TypeOK
    <3>4. WriteView(h) \/ UNCHANGED row
      BY <3>2, <3>3 DEF RequestStep, Receive, ReadPlan, Ignore, LookUp, LookUpFails, Resync, WriteEvent, WriteFails
    <3>. QED BY <3>4
  <2>2. Moved(work[h].event) /\ work[h] /= Idle /\ WorkInv(h)
        /\ work[h].event.to \in Owners /\ work[h].event.from \in Owners
    BY <1>1, Working DEF IInv, WorkInv
  <2>3. CASE work[h].event.from \in work[h].left
    <3>1. SourceFirst(h) = work[h].event.from
      BY <2>3 DEF SourceFirst
    <3>2. row'[work[h].event.to] = row[work[h].event.to]
      BY <1>1, <2>1, <2>2, <3>1, ViewWritten DEF Moved
    <3>. QED BY <3>2
  <2>4. CASE work[h].event.from \notin work[h].left
    BY <2>2, <2>4 DEF WorkInv, Concerns
  <2>. QED BY <2>3, <2>4
<1>2. IInv /\ [Next]_vars => [\A h \in Handlers : Ended(h)]_vars
  BY <1>1
<1>. QED BY <1>2, Invariance, PTL DEF Spec, SourceEndsFirst
-------------------------------------------------------------------------------
(***************************************************************************)
(* What is settled is what is paid for, where a store has one tier.  The   *)
(* cursor of a row names a time, and while webhooks come in their order    *)
(* the row has what was paid for at that time.  What is paid for changes   *)
(* only with an event; every event acknowledged is behind the cursor of    *)
(* whom it concerns, or was missed; so from the cursor of an owner who     *)
(* missed nothing up to the next event, or up to now if there is none,     *)
(* nothing has changed.                                                    *)
(***************************************************************************)
Tells(e, o) == o \in Concerns(e) /\ Actionable(e)

\* After t and until u nothing was told of o.
Steady(o, t, u) == \A e \in pending \cup handled : Tells(e, o) => ~(t < e.ts /\ e.ts <= u)
TimesInv == \A o \in Owners : \A t, u \in 0..clock : t <= u /\ Steady(o, t, u) => paid[t][o] = paid[u][o]

PaidInv == \A o \in Owners : paid[0][o] = {} /\ \A t \in 0..clock : ~(Tier \subseteq paid[t][o])

\* What an event says of the time before it and its own.
EventInv(e) ==
    LET before == paid[e.ts - 1][e.to]
        after  == paid[e.ts][e.to]
    IN  /\ e.type /= "RESYNC" /\ e.ts \in 1..clock
        /\ e.type /= "TRANSFER" => e.from = e.to
        /\ e.type = "ACTIVE" => e.plan \in after /\ ("BUSINESS" \in after \ {e.plan} => "BUSINESS" \in before)
        /\ e.type = "EXPIRATION" => e.plan \in before /\ after = before \ {e.plan}
EventsInv == \A e \in pending \cup handled : EventInv(e)

\* The row of o is past time t, or o missed something of that time or later.
Past(o, t) == cursor[o].ts >= t \/ missed[o] >= t
PastAfter(o, t) == cursor'[o].ts >= t \/ missed'[o] >= t
AckInv == \A e \in handled : \A o \in Owners : Tells(e, o) => Past(o, e.ts)

RowInv(o) ==
    /\ cursor[o].ts \in 0..clock
    /\ orderly /\ missed[o] = 0 => Access(o) = Strongest(paid[cursor[o].ts][o])

Told(e) == IF e.type = "ACTIVE" THEN e.plan ELSE None

\* No earlier event of the same owner is outstanding.
First(e) == \A f \in pending : f.ts < e.ts => Concerns(f) \cap Concerns(e) = {}

HandInv(h) ==
    LET w == work[h]
        e == work[h].event
    IN  /\ \A o \in Owners : w.views[o].at \in 0..clock /\ w.views[o].plan = Strongest(paid[w.views[o].at][o])
        /\ w /= Idle => (e.type = "RESYNC" \/ (e \in pending \cup handled /\ Actionable(e)))
        /\ w.pc \in {"plan", "direct"} => e.type /= "RESYNC" /\ e.to \in w.left
        /\ w /= Idle /\ orderly /\ e \in pending => First(e)
        /\ w.pc = "lookup" => \A o \in Concerns(e) \ w.left : w.views[o].at >= e.ts \/ Past(o, e.ts)
        /\ w.pc = "write" => \A o \in Concerns(e) \ w.left : Past(o, e.ts)
        /\ w.pc = "direct" /\ orderly /\ missed[e.to] = 0 /\ cursor[e.to].ts < e.ts =>
              Told(e) = Strongest(paid[e.ts][e.to])

SettledInv ==
    /\ TimesInv /\ PaidInv /\ EventsInv /\ AckInv
    /\ (\A o \in Owners : RowInv(o)) /\ \A h \in Handlers : HandInv(h)

LEMMA SettledInit == Init => SettledInv
<1> SUFFICES ASSUME Init PROVE SettledInv
  OBVIOUS
<1>1. clock = 0 /\ 0..clock = {0} /\ pending \cup handled = {} /\ 0 \in Times
  BY Constants DEF Init
<1>2. \A o \in Owners : paid[0][o] = {} /\ Strongest(paid[0][o]) = None
  BY <1>1 DEF Init, Strongest
<1>3. \A h \in Handlers : /\ work[h] = Idle /\ \A o \in Owners : Idle.views[o] = NoView
  BY Busyness DEF Init
<1>4. TimesInv /\ PaidInv /\ EventsInv /\ AckInv
  BY <1>1, <1>2 DEF Init, TimesInv, PaidInv, EventsInv, AckInv, Tier
<1>5. \A o \in Owners : RowInv(o)
  BY <1>1, <1>2 DEF Init, RowInv, Access
<1>6. \A h \in Handlers : HandInv(h)
  BY <1>1, <1>2, <1>3, Busyness DEF HandInv, NoView
<1>. QED BY <1>4, <1>5, <1>6 DEF SettledInv

-------------------------------------------------------------------------------
(***************************************************************************)
(* The provider.                                                           *)
(***************************************************************************)
\* A change that its event tells of, or no change.
LEMMA ChangeSettles ==
  ASSUME IInv, SettledInv, NEW now \in [Owners -> SUBSET Plans], NEW E \in SUBSET Event, Changes(now, E),
         \A o \in Owners : ~(Tier \subseteq now[o]) /\ ((\A e \in E : ~Tells(e, o)) => now[o] = paid[clock][o]),
         \A e \in E :
            /\ e.ts = clock + 1 /\ e.type /= "RESYNC" /\ (e.type /= "TRANSFER" => e.from = e.to)
            /\ e.type = "ACTIVE" =>
                  e.plan \in now[e.to] /\ ("BUSINESS" \in now[e.to] \ {e.plan} => "BUSINESS" \in paid[clock][e.to])
            /\ e.type = "EXPIRATION" => e.plan \in paid[clock][e.to] /\ now[e.to] = paid[clock][e.to] \ {e.plan}
  PROVE  SettledInv'
<1>1. /\ clock \in Nat /\ clock' = clock + 1 /\ clock + 1 \in Times /\ pending' = pending \cup E
      /\ UNCHANGED <<row, cursor, handled, work, orderly, missed>>
  BY SubscriptionsAssumption DEF Changes, IInv, TypeOK, Times
<1>2. 0..clock' = 0..clock \cup {clock + 1} /\ 0..clock \subseteq Times /\ clock + 1 \notin 0..clock
  BY <1>1, SubscriptionsAssumption DEF Times
<1>3. /\ \A t \in 0..clock : paid'[t] = paid[t]
      /\ paid'[clock + 1] = now
  BY <1>1, <1>2 DEF Changes, IInv, TypeOK
<1>4. \A f \in pending \cup handled : EventInv(f) /\ f.ts \in 1..clock
  BY DEF SettledInv, EventsInv, EventInv
<1>5. TimesInv'
  <2> SUFFICES ASSUME NEW o \in Owners, NEW t \in 0..clock', NEW u \in 0..clock', t <= u, Steady(o, t, u)'
               PROVE  paid'[t][o] = paid'[u][o]
    BY DEF TimesInv
  <2>1. CASE u \in 0..clock
    <3>1. t \in 0..clock
      BY <1>1, <2>1
    <3>2. Steady(o, t, u)
      BY <1>1 DEF Steady, Tells, Concerns, Actionable
    <3>. QED BY <1>3, <2>1, <3>1, <3>2 DEF SettledInv, TimesInv
  <2>2. CASE u = clock + 1 /\ t \in 0..clock
    <3>1. clock \in 0..clock /\ t <= clock /\ \A e \in E : t < e.ts /\ e.ts <= u
      BY <1>1, <2>2
    <3>2. \A e \in E : ~Tells(e, o)
      BY <1>1, <3>1 DEF Steady, Tells, Concerns, Actionable
    <3>3. Steady(o, t, clock)
      <4>1. \A f \in pending \cup handled : f.ts \in Nat /\ (f.ts <= clock => f.ts <= u)
        BY <1>1, <1>4, <2>2
      <4>. QED BY <1>1, <4>1 DEF Steady, Tells, Concerns, Actionable
    <3>4. paid[t][o] = paid[clock][o]
      BY <2>2, <3>1, <3>3 DEF SettledInv, TimesInv
    <3>. QED BY <1>3, <2>2, <3>2, <3>4
  <2>3. CASE u = clock + 1 /\ t = clock + 1
    BY <2>3
  <2>. QED BY <1>2, <2>1, <2>2, <2>3
<1>6. PaidInv'
  <2>1. 0 \in 0..clock
    BY <1>1
  <2>. QED BY <1>2, <1>3, <2>1 DEF SettledInv, PaidInv
<1>7. EventsInv'
  <2>1. ASSUME NEW e \in E PROVE EventInv(e)'
    <3>1. clock + 1 \in 1..clock' /\ e.ts - 1 = clock /\ clock \in 0..clock
      BY <1>1
    <3>. QED BY <1>3, <3>1 DEF EventInv
  <2>2. ASSUME NEW f \in pending \cup handled PROVE EventInv(f)'
    <3>1. f.ts \in 1..clock' /\ f.ts \in 0..clock /\ f.ts - 1 \in 0..clock
      BY <1>1, <1>4
    <3>2. paid'[f.ts] = paid[f.ts] /\ paid'[f.ts - 1] = paid[f.ts - 1]
      BY <1>3, <3>1
    <3>. QED BY <1>4, <3>1, <3>2 DEF EventInv
  <2>. QED BY <1>1, <2>1, <2>2 DEF EventsInv
<1>8. AckInv'
  BY <1>1 DEF SettledInv, AckInv, Past, Tells, Concerns, Actionable
<1>9. ASSUME NEW o \in Owners PROVE RowInv(o)'
  BY <1>1, <1>2, <1>3 DEF SettledInv, RowInv, Access
<1>10. ASSUME NEW h \in Handlers PROVE HandInv(h)'
  <2>1. HandInv(h) /\ work'[h] = work[h]
    BY <1>1 DEF SettledInv
  <2>2. \A o \in Owners : /\ work[h].views[o].at \in 0..clock'
                          /\ work[h].views[o].plan = Strongest(paid'[work[h].views[o].at][o])
    BY <1>2, <1>3, <2>1 DEF HandInv
  <2>3. ASSUME work[h] /= Idle, orderly, work[h].event \in pending' PROVE First(work[h].event)'
    <3>1. CASE work[h].event \in pending
      <4>1. work[h].event.ts \in 1..clock /\ \A e \in E : ~(e.ts < work[h].event.ts)
        BY <1>1, <1>4, <3>1
      <4>. QED BY <1>1, <2>1, <2>3, <3>1, <4>1 DEF HandInv, First, Concerns
    <3>2. CASE work[h].event \in E
      <4>1. work[h].event \in pending \cup handled
        BY <2>1, <2>3, <3>2 DEF HandInv
      <4>. QED BY <1>1, <1>4, <3>2, <4>1
    <3>. QED BY <1>1, <2>3, <3>1, <3>2
  <2>4. work[h].pc = "direct" => paid'[work[h].event.ts] = paid[work[h].event.ts]
    <3>1. ASSUME work[h].pc = "direct" PROVE work[h].event.ts \in 0..clock
      <4>1. work[h] /= Idle /\ work[h].event.type /= "RESYNC"
        BY <2>1, <3>1, Busyness DEF HandInv
      <4>2. work[h].event \in pending \cup handled
        BY <2>1, <4>1 DEF HandInv
      <4>. QED BY <1>1, <1>4, <4>2
    <3>. QED BY <1>3, <3>1
  <2>. QED BY <1>1, <2>1, <2>2, <2>3, <2>4 DEF HandInv, Past, Told, Concerns, Actionable
<1>. QED BY <1>1, <1>5, <1>6, <1>7, <1>8, <1>9, <1>10 DEF SettledInv

\* What the provider tells of one owner.
News(type, plan, o) == [type |-> type, plan |-> plan, from |-> o, to |-> o, ts |-> clock + 1]

LEMMA ProviderSettles ==
  ASSUME OneTier, IInv, SettledInv,
         \/ \E o \in Owners, p \in Plans :
               Pays(o, p) \/ Expires(o, p) \/ \E refund \in BOOLEAN : Cancels(o, p, refund)
         \/ Passes \/ \E a, b \in Owners : Transfers(a, b)
  PROVE  SettledInv'
<1>1. clock \in Times /\ paid[clock] \in [Owners -> SUBSET Plans] /\ clock \in 0..clock
  BY Constants DEF IInv, TypeOK
<1>2. \A o \in Owners : ~(Tier \subseteq paid[clock][o])
  BY <1>1 DEF SettledInv, PaidInv
<1>3. clock < MaxClock => clock + 1 \in Times
  BY <1>1, SubscriptionsAssumption DEF Times
<1>4. ASSUME NEW o \in Owners, NEW p \in Plans, NEW type \in {"ACTIVE", "EXPIRATION", "CANCELLATION"}, clock < MaxClock
      PROVE  LET e == News(type, p, o)
             IN  /\ Tell(type, p, o) = {e}
                 /\ e \in Event /\ e.type = type /\ e.plan = p /\ e.from = o /\ e.to = o /\ e.ts = clock + 1
                 /\ \A q \in Owners : Tells(e, q) <=> q = o /\ (type /= "CANCELLATION" \/ p = "BUSINESS")
  BY <1>3, <1>4 DEF Tell, News, Event, Types, Tells, Concerns, Actionable
<1>5. ASSUME NEW o \in Owners, NEW p \in Plans, Pays(o, p) PROVE SettledInv'
  <2> DEFINE now == [paid[clock] EXCEPT ![o] = Together(@, p)]
             e == News("ACTIVE", p, o)
  <2>1. clock < MaxClock /\ Changes(now, Tell("ACTIVE", p, o))
    BY <1>5 DEF Pays, Changes
  <2>2. now \in [Owners -> SUBSET Plans]
    BY <1>1 DEF Together
  <2>3. now[o] = Together(paid[clock][o], p) /\ \A q \in Owners \ {o} : now[q] = paid[clock][q]
    BY <1>1
  <2>4. ~(Tier \subseteq now[o]) /\ p \in now[o] /\ ("BUSINESS" \in now[o] \ {p} => "BUSINESS" \in paid[clock][o])
    BY <1>2, <2>3 DEF Together, Tier
  <2>5. \A q \in Owners : ~(Tier \subseteq now[q])
    BY <1>2, <2>3, <2>4
  <2>6. /\ Tell("ACTIVE", p, o) = {e}
        /\ e \in Event /\ e.type = "ACTIVE" /\ e.plan = p /\ e.from = o /\ e.to = o /\ e.ts = clock + 1
        /\ \A q \in Owners : Tells(e, q) <=> q = o
    BY <1>4, <2>1
  <2> HIDE DEF now, e
  <2>. QED BY <2>1, <2>2, <2>3, <2>4, <2>5, <2>6, ChangeSettles
<1>6. ASSUME NEW o \in Owners, NEW p \in Plans, Expires(o, p) PROVE SettledInv'
  <2> DEFINE now == [paid[clock] EXCEPT ![o] = @ \ {p}]
             e == News("EXPIRATION", p, o)
  <2>1. clock < MaxClock /\ Changes(now, Tell("EXPIRATION", p, o)) /\ p \in paid[clock][o]
    BY <1>6 DEF Expires, Changes, Has
  <2>2. now \in [Owners -> SUBSET Plans]
    BY <1>1
  <2>3. now[o] = paid[clock][o] \ {p} /\ \A q \in Owners \ {o} : now[q] = paid[clock][q]
    BY <1>1
  <2>4. \A q \in Owners : ~(Tier \subseteq now[q])
    BY <1>2, <2>3
  <2>5. /\ Tell("EXPIRATION", p, o) = {e}
        /\ e \in Event /\ e.type = "EXPIRATION" /\ e.plan = p /\ e.from = o /\ e.to = o /\ e.ts = clock + 1
        /\ \A q \in Owners : Tells(e, q) <=> q = o
    BY <1>4, <2>1
  <2> HIDE DEF now, e
  <2>. QED BY <2>1, <2>2, <2>3, <2>4, <2>5, ChangeSettles
<1>7. ASSUME NEW o \in Owners, NEW p \in Plans, NEW refund \in BOOLEAN, Cancels(o, p, refund) PROVE SettledInv'
  <2> DEFINE now == [paid[clock] EXCEPT ![o] = IF refund THEN @ \ {p} ELSE @]
             e == News("CANCELLATION", p, o)
  <2>1. clock < MaxClock /\ Changes(now, Tell("CANCELLATION", p, o)) /\ (refund => p = "BUSINESS")
    BY <1>7 DEF Cancels, Changes
  <2>2. now \in [Owners -> SUBSET Plans]
    BY <1>1
  <2>3. /\ now[o] = IF refund THEN paid[clock][o] \ {p} ELSE paid[clock][o]
        /\ \A q \in Owners \ {o} : now[q] = paid[clock][q]
    BY <1>1
  <2>4. \A q \in Owners : ~(Tier \subseteq now[q])
    BY <1>2, <2>3
  <2>5. p /= "BUSINESS" => now[o] = paid[clock][o]
    BY <2>1, <2>3
  <2>6. /\ Tell("CANCELLATION", p, o) = {e}
        /\ e \in Event /\ e.type = "CANCELLATION" /\ e.plan = p /\ e.from = o /\ e.to = o /\ e.ts = clock + 1
        /\ \A q \in Owners : Tells(e, q) <=> q = o /\ p = "BUSINESS"
    BY <1>4, <2>1
  <2> HIDE DEF now, e
  <2>. QED BY <2>1, <2>2, <2>3, <2>4, <2>5, <2>6, ChangeSettles
<1>8. ASSUME NEW a \in Owners, NEW b \in Owners, Transfers(a, b) PROVE SettledInv'
  <2> DEFINE e == [type |-> "TRANSFER", plan |-> None, from |-> a, to |-> b, ts |-> clock + 1]
             tiers == (paid[clock][a] \cup paid[clock][b]) \cap Tier
             all == (paid[clock][a] \cup paid[clock][b]) \ IF OneTier /\ tiers = Tier THEN {"STARTER"} ELSE {}
             now == [paid[clock] EXCEPT ![a] = {}, ![b] = all]
  <2>1. a /= b /\ clock < MaxClock /\ Changes(now, {e})
    BY <1>8 DEF Transfers, Changes, Has
  <2>2. now \in [Owners -> SUBSET Plans]
    BY <1>1
  <2>3. now[a] = {} /\ now[b] = all /\ \A q \in Owners \ {a, b} : now[q] = paid[clock][q]
    BY <1>1, <2>1
  <2>4. ~(Tier \subseteq all)
    BY DEF Tier
  <2>5. \A q \in Owners : ~(Tier \subseteq now[q])
    BY <1>2, <2>3, <2>4 DEF Tier
  <2>6. /\ e \in Event /\ e.type = "TRANSFER" /\ e.ts = clock + 1
        /\ \A q \in Owners : Tells(e, q) <=> q \in {a, b}
    BY <1>3, <2>1 DEF Event, Types, Tells, Concerns, Actionable
  <2> HIDE DEF now, e
  <2>. QED BY <2>1, <2>2, <2>3, <2>5, <2>6, ChangeSettles
<1>9. CASE Passes
  BY <1>1, <1>2, <1>9, ChangeSettles DEF Passes
<1>. QED BY <1>5, <1>6, <1>7, <1>8, <1>9

-------------------------------------------------------------------------------
(***************************************************************************)
(* Requests.                                                               *)
(***************************************************************************)
\* A lookup applied is newer than what q missed, and than all that is outstanding of q.
CaughtUp(q) == cursor'[q].ts >= missed[q] /\ \A f \in pending : q \in Concerns(f) => f.ts <= cursor'[q].ts

\* What a step of a request leaves as it was.
Standing ==
    /\ UNCHANGED <<clock, paid>> /\ (orderly' => orderly)
    /\ pending' \subseteq pending /\ pending' \cup handled' = pending \cup handled
    /\ \A q \in Owners : cursor'[q].ts >= cursor[q].ts /\ cursor'[q].ts \in Nat
    /\ \A q \in Owners : missed'[q] >= missed[q] \/ CaughtUp(q)

LEMMA Counts ==
  ASSUME IInv PROVE \A q \in Owners : cursor[q].ts \in Nat /\ missed[q] \in Nat
  BY Constants DEF IInv, TypeOK

\* Whoever is past a time stays so.
LEMMA PastStands ==
  ASSUME IInv, Standing, missed' \in [Owners -> Times], NEW o \in Owners, NEW t \in Nat, Past(o, t)
  PROVE  PastAfter(o, t)
<1>1. cursor[o].ts \in Nat /\ missed[o] \in Nat /\ cursor'[o].ts \in Nat /\ missed'[o] \in Nat
  BY Counts, Constants DEF Standing
<1>2. cursor'[o].ts >= cursor[o].ts /\ (missed'[o] >= missed[o] \/ cursor'[o].ts >= missed[o])
  BY DEF Standing, CaughtUp
<1>. QED BY <1>1, <1>2 DEF Past, PastAfter

LEMMA StepSettles ==
  ASSUME IInv, SettledInv, Standing, missed' \in [Owners -> Times], NEW h \in Handlers, HandInv(h)',
         \A g \in Handlers \ {h} : work'[g] = work[g], AckInv', \A o \in Owners : RowInv(o)'
  PROVE  SettledInv'
<1>1. TimesInv' /\ PaidInv' /\ EventsInv'
  BY DEF Standing, SettledInv, TimesInv, Steady, Tells, Concerns, Actionable, PaidInv, EventsInv, EventInv
<1>2. ASSUME NEW g \in Handlers \ {h} PROVE HandInv(g)'
  <2>1. work'[g] = work[g] /\ HandInv(g)
    BY DEF SettledInv
  <2>2. CASE work[g] = Idle
    BY <2>1, <2>2, Busyness DEF HandInv, Standing
  <2>3. CASE work[g] /= Idle
    <3> DEFINE e == work[g].event
    <3>1. e.ts \in Nat /\ e.to \in Owners /\ e.from \in Owners
      BY <2>3, Working, Constants DEF IInv
    <3>2. First(e) => First(e)'
      BY <2>1 DEF First, Standing, Concerns
    <3>3. Concerns(e) \subseteq Owners
      BY <3>1 DEF Concerns
    <3>4. \A q \in Owners : Past(q, e.ts) => PastAfter(q, e.ts)
      BY <3>1, PastStands
    <3>5. ASSUME work[g].pc = "direct", orderly, missed'[e.to] = 0, cursor'[e.to].ts < e.ts
          PROVE  missed[e.to] = 0 /\ cursor[e.to].ts < e.ts
      <4>1. /\ cursor[e.to].ts \in Nat /\ missed[e.to] \in Nat /\ cursor'[e.to].ts \in Nat
            /\ cursor'[e.to].ts >= cursor[e.to].ts /\ (missed'[e.to] >= missed[e.to] \/ CaughtUp(e.to))
        BY <3>1, Counts DEF Standing
      <4>2. e \in pending \cup handled /\ Tells(e, e.to)
        BY <2>1, <2>3, <3>5 DEF HandInv, Tells, Concerns
      <4>3. ASSUME CaughtUp(e.to) PROVE FALSE
        <5>1. CASE e \in pending
          BY <3>1, <3>5, <4>1, <4>2, <4>3, <5>1 DEF CaughtUp, Tells
        <5>2. CASE e \in handled
          <6>1. Past(e.to, e.ts)
            BY <3>1, <4>2, <5>2 DEF SettledInv, AckInv
          <6>. QED BY <3>1, <3>5, <4>1, <4>3, <6>1 DEF CaughtUp, Past
        <5>. QED BY <4>2, <5>1, <5>2
      <4>. QED BY <3>1, <3>5, <4>1, <4>3
    <3>. QED BY <2>1, <3>1, <3>2, <3>3, <3>4, <3>5 DEF HandInv, Standing, Told, Concerns, Actionable, Past, PastAfter
  <2>. QED BY <2>2, <2>3
<1>. QED BY <1>1, <1>2 DEF SettledInv, Standing

\* A request that has ended knows nothing.
LEMMA IdleSettles ==
  ASSUME SettledInv, clock \in Nat, UNCHANGED <<clock, paid>>, NEW h \in Handlers, work'[h] = Idle PROVE HandInv(h)'
<1>1. \A o \in Owners : Idle.views[o] = NoView /\ Strongest(paid[0][o]) = None
  BY Busyness DEF SettledInv, PaidInv, Strongest
<1>2. 0 \in 0..clock
  OBVIOUS
<1>. QED BY <1>1, <1>2, Busyness DEF HandInv, NoView

\* Rows and cursors that nobody writes.
LEMMA StillSettles ==
  ASSUME IInv, SettledInv, Still, orderly' => orderly, UNCHANGED <<pending, handled, missed>>
  PROVE  Standing /\ missed' \in [Owners -> Times] /\ AckInv' /\ \A o \in Owners : RowInv(o)'
<1>1. Standing /\ missed' \in [Owners -> Times]
  <2>1. \A q \in Owners : missed'[q] >= missed[q]
    BY Counts
  <2>. QED BY <2>1, StillCursors DEF Standing, Still, IInv, TypeOK
<1>2. AckInv'
  BY DEF SettledInv, AckInv, Past, Still, Tells, Concerns, Actionable
<1>. QED BY <1>1, <1>2 DEF SettledInv, RowInv, Access, Still

\* What an owner without an account misses.
LEMMA MissesSettle ==
  ASSUME IInv, SettledInv, Still, orderly' => orderly, NEW absent, NEW e \in Event, e.ts \in 1..clock, Misses(absent, e),
         pending' \subseteq pending, pending' \cup handled' = pending \cup handled,
         \A f \in handled' \ handled : \A o \in Owners : Tells(f, o) => f = e /\ o \in absent
  PROVE  Standing /\ missed' \in [Owners -> Times] /\ AckInv' /\ \A o \in Owners : RowInv(o)'
<1>1. /\ missed' \in [Owners -> Times]
      /\ \A o \in Owners : missed'[o] >= missed[o] /\ missed'[o] \in Nat /\ (o \in absent => missed'[o] >= e.ts)
  BY MissesKeep
<1>2. Standing
  BY <1>1, StillCursors DEF Standing, Still
<1>3. AckInv'
  <2> SUFFICES ASSUME NEW f \in handled', NEW o \in Owners, Tells(f, o) PROVE PastAfter(o, f.ts)
    BY DEF AckInv, Tells, Concerns, Actionable, Past, PastAfter
  <2>1. CASE f \in handled
    <3>1. f.ts \in Nat /\ Past(o, f.ts)
      BY <2>1, Constants DEF SettledInv, AckInv, IInv, TypeOK, Event
    <3>. QED BY <1>1, <1>2, <3>1, PastStands
  <2>2. CASE f \notin handled
    BY <1>1, <2>2 DEF PastAfter
  <2>. QED BY <2>1, <2>2
<1>4. ASSUME NEW o \in Owners PROVE RowInv(o)'
  <2>1. missed'[o] = 0 => missed[o] = 0
    BY <1>1, Counts
  <2>. QED BY <2>1 DEF SettledInv, RowInv, Access, Still
<1>. QED BY <1>1, <1>2, <1>3, <1>4


LEMMA Events ==
  ASSUME IInv, SettledInv, NEW e \in pending \cup handled
  PROVE  /\ e \in Event /\ EventInv(e) /\ e.from \in Owners /\ e.to \in Owners /\ Concerns(e) \subseteq Owners
         /\ e.ts \in 1..clock /\ e.ts \in Nat /\ clock \in Nat /\ e.plan \in Plans \cup {None} /\ e.type \in Types
<1>1. e \in Event /\ EventInv(e) /\ clock \in Nat
  BY Constants DEF IInv, TypeOK, SettledInv, EventsInv
<1>. QED BY <1>1 DEF Event, EventInv, Concerns

\* An acknowledgement at once is of nothing an account could learn from, or was missed by all.
LEMMA ReceiveSettles ==
  ASSUME IInv, SettledInv, NEW h \in Handlers, NEW e \in pending \cup handled, Receive(h, e) PROVE SettledInv'
<1>1. /\ e \in Event /\ EventInv(e) /\ e.from \in Owners /\ e.to \in Owners /\ Concerns(e) \subseteq Owners
      /\ clock \in Nat /\ e.ts \in 1..clock /\ e.ts \in Nat
  BY Events
<1>2. Still /\ (orderly' => orderly) /\ (orderly' /\ e \in pending => ~Disorder(e))
  BY DEF Receive, Still, Provider
<1> DEFINE s == IF e.type = "TRANSFER" THEN "lookup" ELSE "plan"
           S == IF e.type = "TRANSFER" THEN Concerns(e) \cap users ELSE {e.to}
           w == Begun(s, e, S)
<1>3. \/ e.type /= "TRANSFER" /\ UNCHANGED missed
      \/ e.type = "TRANSFER" /\ Misses(Concerns(e) \ users, e)
  BY DEF Receive
<1>4. CASE Acknowledge(h, e) /\ (~Actionable(e) \/ (e.type = "TRANSFER" /\ Concerns(e) \cap users = {}))
  <2>1. pending' = pending \ {e} /\ handled' = handled \cup {e} /\ work' = [work EXCEPT ![h] = Idle]
    BY <1>1, <1>4 DEF Acknowledge, Becomes, EventInv
  <2>2. work'[h] = Idle /\ \A g \in Handlers \ {h} : work'[g] = work[g]
    BY <2>1 DEF IInv, TypeOK
  <2>3. HandInv(h)'
    BY <1>1, <1>2, <2>2, IdleSettles DEF Still
  <2>4. PICK absent : Misses(absent, e) /\ \A o \in Owners : Tells(e, o) => o \in absent
    <3>1. CASE e.type = "TRANSFER" /\ Misses(Concerns(e) \ users, e)
      BY <1>4, <3>1 DEF Tells
    <3>2. CASE e.type /= "TRANSFER" /\ UNCHANGED missed
      <4>1. Misses({}, e)
        BY <3>2 DEF Misses, IInv, TypeOK
      <4>. QED BY <1>4, <3>2, <4>1 DEF Tells
    <3>. QED BY <1>3, <3>1, <3>2
  <2>5. Standing /\ missed' \in [Owners -> Times] /\ AckInv' /\ \A o \in Owners : RowInv(o)'
    BY <1>1, <1>2, <2>1, <2>4, MissesSettle
  <2>. QED BY <2>2, <2>3, <2>5, StepSettles
<1>5. CASE Becomes(h, w) /\ UNCHANGED <<pending, handled>> /\ Actionable(e)
  <2>1. work'[h] = w /\ \A g \in Handlers \ {h} : work'[g] = work[g]
    BY <1>5 DEF Becomes, IInv, TypeOK
  <2>2. w \in Busy /\ w.event = e /\ w.pc = s /\ w.left = S /\ w.views = [o \in Owners |-> NoView]
    <3>1. s \in {"plan", "lookup", "direct", "write"} /\ S \in SUBSET Owners
      BY <1>1
    <3>2. w.views = Idle.views
      BY DEF Begun, Idle
    <3>. QED BY <1>1, <3>1, <3>2, Begins, Busyness
  <2>3. \A o \in Owners : w.views[o].at = 0 /\ w.views[o].plan = None /\ Strongest(paid[0][o]) = None
    BY <2>2 DEF NoView, SettledInv, PaidInv, Strongest
  <2>4. orderly' /\ e \in pending => First(e)
    BY <1>2 DEF Disorder, First
  <2>5. Standing /\ missed' \in [Owners -> Times] /\ AckInv' /\ \A o \in Owners : RowInv(o)'
    BY <1>1, <1>2, <1>3, <1>5, StillSettles, MissesSettle
  <2>6. s = "lookup" => \A o \in Concerns(e) \ S : PastAfter(o, e.ts)
    <3>1. ASSUME s = "lookup", NEW o \in Concerns(e) \ S PROVE PastAfter(o, e.ts)
      <4>1. Misses(Concerns(e) \ users, e) /\ o \in Concerns(e) \ users /\ o \in Owners
        BY <1>1, <1>3, <3>1
      <4>2. missed'[o] >= e.ts
        BY <1>1, <4>1, MissesKeep
      <4>. QED BY <4>2 DEF PastAfter
    <3>. QED BY <3>1
  <2>7. 0 \in 0..clock
    BY <1>1
  <2> HIDE DEF w, S
  <2>8. HandInv(h)'
    BY <1>1, <1>2, <1>5, <2>1, <2>2, <2>3, <2>4, <2>6, <2>7
       DEF HandInv, Still, First, Concerns, Actionable, EventInv, Past, PastAfter, S
  <2>. QED BY <2>1, <2>5, <2>8, StepSettles
<1>. QED BY <1>4, <1>5, Received

\* A webhook of an owner without an account is missed.
LEMMA IgnoreSettles == ASSUME IInv, SettledInv, NEW h \in Handlers, Ignore(h) PROVE SettledInv'
<1> DEFINE e == work[h].event
<1>1. /\ Still /\ orderly' = orderly /\ Acknowledge(h, e) /\ Misses({e.to}, e)
      /\ e.type \notin {"TRANSFER", "RESYNC"} /\ work[h].pc \in {"lookup", "direct"}
  BY DEF Ignore, Still, Provider
<1>2. e \in pending \cup handled
  BY <1>1, Working DEF SettledInv, HandInv, IInv
<1>3. e \in Event /\ EventInv(e) /\ e.ts \in 1..clock /\ clock \in Nat /\ e.from = e.to
  BY <1>1, <1>2, Events DEF EventInv
<1>4. pending' \subseteq pending /\ pending' \cup handled' = pending \cup handled /\ handled' \subseteq handled \cup {e}
  BY <1>1, <1>2 DEF Acknowledge
<1>5. \A o \in Owners : Tells(e, o) => o \in {e.to}
  BY <1>3 DEF Tells, Concerns
<1>6. Standing /\ missed' \in [Owners -> Times] /\ AckInv' /\ \A o \in Owners : RowInv(o)'
  BY <1>1, <1>3, <1>4, <1>5, MissesSettle
<1>7. work'[h] = Idle /\ \A g \in Handlers \ {h} : work'[g] = work[g]
  BY <1>1 DEF Acknowledge, Becomes, IInv, TypeOK
<1>8. HandInv(h)'
  BY <1>1, <1>3, <1>7, IdleSettles DEF Still
<1>. QED BY <1>6, <1>7, <1>8, StepSettles

LEMMA EnsureSettles == ASSUME SettledInv, \E o \in Owners : Ensure(o) PROVE SettledInv'
<1>1. UNCHANGED <<clock, paid, row, cursor, pending, handled, work, orderly, missed>>
  BY DEF Ensure, Provider
<1>. QED BY <1>1 DEF SettledInv, TimesInv, Steady, PaidInv, EventsInv, EventInv, AckInv, Past, Tells, Concerns, Actionable,
                     RowInv, Access, HandInv, First, Told

\* From a row's cursor to the event in hand nothing has changed, and the event tells the rest.
LEMMA DirectIsRight ==
  ASSUME OneTier, IInv, SettledInv, NEW e \in pending \cup handled, e.type /= "TRANSFER",
         Actionable(e), orderly, missed[e.to] = 0, e \in pending => First(e), ~NeedsLookup(Access(e.to), e), cursor[e.to].ts < e.ts
  PROVE  Told(e) = Strongest(paid[e.ts][e.to])
<1> DEFINE o == e.to
           c == cursor[o].ts
           before == paid[e.ts - 1][o]
           after == paid[e.ts][o]
<1>1. /\ EventInv(e) /\ o \in Owners /\ o \in Concerns(e) /\ e.ts \in 1..clock /\ clock \in Nat
      /\ e.plan \in Plans \cup {None} /\ e.type \in Types
  BY Events DEF Concerns
<1>2. c \in 0..clock /\ c <= e.ts - 1 /\ e.ts - 1 \in 0..clock /\ e.ts \in 0..clock
  BY <1>1 DEF SettledInv, RowInv
<1>3. Steady(o, c, e.ts - 1)
  <2> SUFFICES ASSUME NEW f \in pending \cup handled, Tells(f, o), c < f.ts, f.ts <= e.ts - 1 PROVE FALSE
    BY DEF Steady
  <2>1. f.ts \in Nat
    BY Events
  <2>2. ~(c >= f.ts) /\ ~(c >= e.ts) /\ f.ts < e.ts
    BY <1>1, <1>2, <2>1
  <2>3. f \in pending /\ e \in pending
    <3>1. f.ts \in 1..clock
      BY Events
    <3>2. ~Past(o, f.ts) /\ ~Past(o, e.ts)
      BY <1>1, <2>2, <3>1 DEF Past
    <3>. QED BY <1>1, <3>2 DEF SettledInv, AckInv, Tells
  <2>. QED BY <1>1, <2>2, <2>3 DEF First, Tells
<1>4. paid[c][o] = before
  BY <1>1, <1>2, <1>3 DEF SettledInv, TimesInv
<1>5. Access(o) = Strongest(before)
  BY <1>1, <1>4 DEF SettledInv, RowInv
<1>6. ~(Tier \subseteq before) /\ ~(Tier \subseteq after)
  BY <1>1, <1>2 DEF SettledInv, PaidInv
<1>7. after \subseteq {"STARTER", "PRO", "BUSINESS"} /\ before \subseteq {"STARTER", "PRO", "BUSINESS"}
  <2>1. e.ts \in Times /\ e.ts - 1 \in Times
    BY <1>1, SubscriptionsAssumption DEF IInv, TypeOK, Times
  <2>2. \A t \in Times : \A q \in Owners : paid[t][q] \subseteq Plans
    BY DEF IInv, TypeOK
  <2>3. after \subseteq Plans /\ before \subseteq Plans
    BY <1>1, <2>1, <2>2
  <2>. QED BY <2>3, SubscriptionsAssumption
<1>8. e.type \in {"ACTIVE", "EXPIRATION"} /\ (e.plan = "BUSINESS" => e.type = "ACTIVE")
  BY <1>1 DEF EventInv, Types, Actionable, NeedsLookup
<1>9. e.plan /= "BUSINESS" => Strongest(before) /= "BUSINESS"
  BY <1>5 DEF NeedsLookup
<1>10. /\ e.type = "ACTIVE" => e.plan \in after /\ ("BUSINESS" \in after \ {e.plan} => "BUSINESS" \in before)
       /\ e.type = "EXPIRATION" => e.plan \in before /\ after = before \ {e.plan}
  BY <1>1 DEF EventInv
<1> HIDE DEF before, after
<1>11. Told(e) = Strongest(after)
  BY <1>6, <1>7, <1>8, <1>9, <1>10 DEF Told, Strongest, Tier, None
<1>. QED BY <1>11 DEF after

LEMMA ReadSettles ==
  ASSUME OneTier, IInv, SettledInv, NEW h \in Handlers, ReadPlan(h) \/ \E o \in Owners : Resync(h, o) PROVE SettledInv'
<1>1. /\ Still /\ orderly' = orderly /\ pending' = pending /\ handled' = handled /\ missed' = missed
  BY DEF ReadPlan, Resync, Still, Provider
<1>2. Standing /\ missed' \in [Owners -> Times] /\ AckInv' /\ \A o \in Owners : RowInv(o)'
  BY <1>1, StillSettles
<1>3. HandInv(h)
  BY DEF SettledInv
<1>4. CASE ReadPlan(h)
  <2> DEFINE e == work[h].event
             s == IF NeedsLookup(Access(e.to), e) THEN "lookup" ELSE "direct"
             w == [work[h] EXCEPT !.pc = s]
  <2>1. work[h] \in Busy /\ work[h] /= Idle /\ work[h].pc = "plan" /\ e.type /= "TRANSFER"
    BY <1>4, Working, Busyness DEF ReadPlan, IInv, WorkInv
  <2>2. work'[h] = w /\ \A g \in Handlers \ {h} : work'[g] = work[g]
    BY <1>4 DEF ReadPlan, Becomes, IInv, TypeOK
  <2>3. w \in Busy /\ w.pc = s /\ w.event = e /\ w.views = work[h].views
    BY <2>1 DEF Busy
  <2>4. e \in pending \cup handled /\ Actionable(e) /\ e.type /= "RESYNC"
        /\ (orderly /\ e \in pending => First(e)) /\ w.left = work[h].left
    BY <1>3, <2>1 DEF HandInv, Busy
  <2>5. s = "direct" /\ orderly /\ missed[e.to] = 0 /\ cursor[e.to].ts < e.ts => Told(e) = Strongest(paid[e.ts][e.to])
    BY <2>1, <2>4, DirectIsRight
  <2>6. s = "lookup" => Concerns(e) \ w.left = {}
    <3>1. e.from = e.to /\ e.to \in w.left
      BY <1>3, <2>1, <2>4, Events DEF EventInv, HandInv
    <3>. QED BY <3>1 DEF Concerns
  <2> HIDE DEF w
  <2>7. HandInv(h)'
    BY <1>1, <1>3, <2>1, <2>2, <2>3, <2>4, <2>5, <2>6 DEF HandInv, Still, First, Concerns, Actionable, Told
  <2>. QED BY <1>2, <2>2, <2>7, StepSettles
<1>5. ASSUME NEW o \in Owners, Resync(h, o) PROVE SettledInv'
  <2> DEFINE e == [type |-> "RESYNC", plan |-> None, from |-> o, to |-> o, ts |-> 0]
             w == Begun("lookup", e, {o})
  <2>1. work'[h] = w /\ \A g \in Handlers \ {h} : work'[g] = work[g]
    BY <1>5 DEF Resync, Begun, Becomes, IInv, TypeOK
  <2>2. w.event = e /\ e.type = "RESYNC" /\ w.pc = "lookup" /\ w.views = [q \in Owners |-> NoView]
        /\ Concerns(e) \ w.left = {}
    <3>1. e \in Event /\ {o} \in SUBSET Owners /\ e.type = "RESYNC"
      BY Constants DEF Event, Types
    <3>2. w.views = Idle.views
      BY DEF Begun, Idle
    <3>3. w.left = {o} /\ Concerns(e) = {o}
      BY <3>1, Begins DEF Concerns
    <3>. QED BY <3>1, <3>2, <3>3, Begins, Busyness
  <2>3. e \notin pending
    BY <2>2 DEF SettledInv, EventsInv, EventInv
  <2>4. \A q \in Owners : w.views[q].at = 0 /\ w.views[q].plan = None /\ Strongest(paid[0][q]) = None
    BY <2>2 DEF NoView, SettledInv, PaidInv, Strongest
  <2>5. 0 \in 0..clock
    BY Constants DEF IInv, TypeOK
  <2> HIDE DEF w, e
  <2>6. HandInv(h)'
    BY <1>1, <2>1, <2>2, <2>3, <2>4, <2>5 DEF HandInv, Still, Concerns
  <2>. QED BY <1>2, <2>1, <2>6, StepSettles
<1>. QED BY <1>4, <1>5

\* A view is what was paid for at its time.
LEMMA LookUpSettles ==
  ASSUME IInv, SettledInv, NEW h \in Handlers, LookUpFails(h) \/ \E o \in Owners, at \in Times : LookUp(h, o, at)
  PROVE  SettledInv'
<1>1. Still /\ orderly' = orderly /\ work[h].pc = "lookup" /\ UNCHANGED <<pending, handled, missed>>
  BY DEF LookUpFails, LookUp, Still, Provider, Refuse
<1>2. Standing /\ missed' \in [Owners -> Times] /\ AckInv' /\ \A o \in Owners : RowInv(o)'
  BY <1>1, StillSettles
<1>3. HandInv(h) /\ work[h] \in Busy /\ work[h] /= Idle /\ work[h].left \in SUBSET Owners
      /\ work[h].event.from \in Owners /\ work[h].event.to \in Owners /\ work[h].event.ts \in Nat
  BY <1>1, Working, Busyness, Constants DEF SettledInv, IInv
<1>4. CASE Refuse(h)
  <2>1. work'[h] = Idle /\ \A g \in Handlers \ {h} : work'[g] = work[g]
    BY <1>4 DEF Refuse, Becomes, IInv, TypeOK
  <2>2. clock \in Nat
    BY Constants DEF IInv, TypeOK
  <2>3. HandInv(h)'
    BY <1>1, <2>1, <2>2, IdleSettles DEF Still
  <2>. QED BY <1>2, <2>1, <2>3, StepSettles
<1>5. ASSUME NEW o \in Owners, NEW at \in Times, LookUp(h, o, at), ~Refuse(h) PROVE SettledInv'
  <2> DEFINE view == [at |-> at, plan |-> Strongest(paid[at][o])]
             rest == work[h].left \ {o}
             views == [work[h].views EXCEPT ![o] = view]
             seen == LookedUp(work[h].event, views)
             s == IF rest = {} THEN "write" ELSE "lookup"
             S == IF rest = {} THEN seen ELSE rest
             w == Seen(h, o, view, s, S)
  <2>1. at \in 0..clock /\ Becomes(h, w) /\ ~(at < work[h].event.ts) /\ o \in work[h].left
    BY <1>5 DEF LookUp, Seen
  <2>2. work'[h] = w /\ \A g \in Handlers \ {h} : work'[g] = work[g]
    BY <2>1 DEF Becomes, IInv, TypeOK
  <2>3. paid[at][o] \in SUBSET Plans
    BY DEF IInv, TypeOK
  <2>4. view \in [at : Times, plan : Plans \cup {None}] /\ s \in {"lookup", "write"} /\ S \in SUBSET Owners
    BY <1>3, <2>3, Constants DEF Concerns, LookedUp
  <2>5. /\ w \in Busy /\ w.pc = s /\ w.left = S /\ w.event = work[h].event
        /\ w.views = views /\ w.views[o] = view /\ \A q \in Owners \ {o} : w.views[q] = work[h].views[q]
    BY <1>3, <2>4, Sees
  <2>6. \A q \in Owners : w.views[q].at \in 0..clock /\ w.views[q].plan = Strongest(paid[w.views[q].at][q])
    <3>1. w.views[o].at = at /\ w.views[o].plan = Strongest(paid[at][o])
      BY <2>5
    <3>2. \A q \in Owners :
             work[h].views[q].at \in 0..clock /\ work[h].views[q].plan = Strongest(paid[work[h].views[q].at][q])
      BY <1>3 DEF HandInv
    <3> HIDE DEF w
    <3>3. ASSUME NEW q \in Owners \ {o} PROVE w.views[q].at \in 0..clock /\ w.views[q].plan = Strongest(paid[w.views[q].at][q])
      <4>1. w.views[q] = work[h].views[q]
        BY <2>5
      <4>. QED BY <3>2, <4>1
    <3>. QED BY <2>1, <3>1, <3>3
  <2>7. \A q \in Concerns(w.event) \ rest : w.views[q].at >= w.event.ts \/ Past(q, w.event.ts)
    <3>1. at >= work[h].event.ts
      BY <1>3, <2>1, Constants
    <3>2. \A q \in Concerns(work[h].event) \ work[h].left : work[h].views[q].at >= work[h].event.ts \/ Past(q, work[h].event.ts)
      BY <1>1, <1>3 DEF HandInv
    <3> HIDE DEF w
    <3>3. w.event = work[h].event /\ w.views[o].at = at /\ \A q \in Owners \ {o} : w.views[q] = work[h].views[q]
      BY <2>5
    <3>4. Concerns(work[h].event) \subseteq Owners
      BY <1>3 DEF Concerns
    <3>. QED BY <3>1, <3>2, <3>3, <3>4
  <2>8. /\ w.pc = "lookup" => w.left = rest
        /\ w.pc = "write" => rest = {} /\ w.left = LookedUp(w.event, w.views)
    <3> HIDE DEF w, views
    <3>. QED BY <2>5
  <2>9. w.pc = "write" => \A q \in Concerns(w.event) \ w.left : Past(q, w.event.ts)
    <3> HIDE DEF w
    <3>. QED BY <2>7, <2>8 DEF LookedUp
  <2>10. w.pc \in {"write", "lookup"}
    BY <2>4, <2>5
  <2> HIDE DEF w
  <2>11. HandInv(h)'
    BY <1>1, <1>3, <2>2, <2>5, <2>6, <2>7, <2>8, <2>9, <2>10 DEF HandInv, Past, Still, First, Concerns, Actionable
  <2>. QED BY <1>2, <2>2, <2>11, StepSettles
<1>. QED BY <1>4, <1>5 DEF LookUpFails

\* A write of the store moves the cursor to its time and the access to its plan, or neither.
LEMMA ApplyTells ==
  ASSUME IInv, NEW o \in Owners, NEW plan \in Plans \cup {None}, NEW ts \in Times, NEW by, NEW of,
         Apply(o, plan, ts, by, of)
  PROVE  \/ ts > cursor[o].ts /\ cursor'[o].ts = ts /\ Access(o)' = plan
         \/ cursor'[o] = cursor[o] /\ Access(o)' = Access(o)
<1>1. row \in [Owners -> [plan : Plans \cup {None}, status : {"ACTIVE", "CANCELED"}]] /\ o \in DOMAIN cursor
  BY DEF IInv, TypeOK
<1>2. CASE Newer(o, ts, by, of)
  <2>1. cursor'[o].ts = ts /\ ts > cursor[o].ts
    BY <1>1, <1>2 DEF Apply, Newer
  <2>2. row'[o] = IF plan = None THEN [row[o] EXCEPT !.status = "CANCELED"] ELSE [plan |-> plan, status |-> "ACTIVE"]
    BY <1>1, <1>2 DEF Apply
  <2>3. row[o] \in [plan : Plans \cup {None}, status : {"ACTIVE", "CANCELED"}]
    BY <1>1
  <2>4. Access(o)' = plan
    BY <2>2, <2>3 DEF Access
  <2>. QED BY <2>1, <2>4
<1>3. CASE ~Newer(o, ts, by, of)
  BY <1>3 DEF Apply, Access
<1>. QED BY <1>2, <1>3

\* The row of an owner after a write of what was paid for at some time.
LEMMA RowWritten ==
  ASSUME IInv, SettledInv, UNCHANGED <<clock, paid>>, orderly' => orderly,
         NEW o \in Owners, NEW plan \in Plans \cup {None}, NEW ts \in Times, NEW by, NEW of, Apply(o, plan, ts, by, of),
         ts \in 0..clock, orderly /\ missed'[o] = 0 /\ cursor[o].ts < ts => plan = Strongest(paid[ts][o]),
         missed'[o] = 0 => missed[o] = 0 \/ Newer(o, ts, by, of),
         \A q \in Owners \ {o} : row'[q] = row[q] /\ cursor'[q] = cursor[q] /\ missed'[q] = missed[q]
  PROVE  \A q \in Owners : RowInv(q)'
<1>1. RowInv(o)'
  <2>1. RowInv(o) /\ cursor[o].ts \in Nat /\ ts \in Nat
    BY Constants, Counts DEF SettledInv
  <2>2. CASE ts > cursor[o].ts /\ cursor'[o].ts = ts /\ Access(o)' = plan
    <3>1. cursor[o].ts < ts
      BY <2>1, <2>2
    <3>. QED BY <2>2, <3>1 DEF RowInv
  <2>3. CASE cursor'[o] = cursor[o] /\ Access(o)' = Access(o)
    <3>1. CASE Newer(o, ts, by, of)
      <4>1. cursor'[o].ts = ts /\ ts > cursor[o].ts
        BY <3>1 DEF Apply, Newer, IInv, TypeOK
      <4>. QED BY <2>1, <2>3, <4>1
    <3>2. CASE ~Newer(o, ts, by, of)
      BY <2>1, <2>3, <3>2 DEF RowInv
    <3>. QED BY <3>1, <3>2
  <2>. QED BY <2>2, <2>3, ApplyTells
<1>2. ASSUME NEW q \in Owners \ {o} PROVE RowInv(q)'
  BY DEF SettledInv, RowInv, Access
<1>. QED BY <1>1, <1>2

\* An event is acknowledged when everyone it tells something of is past it.
LEMMA AckSettles ==
  ASSUME IInv, SettledInv, NEW h \in Handlers, work[h] /= Idle, Acknowledge(h, work[h].event),
         UNCHANGED <<clock, paid, orderly>>, missed' \in [Owners -> Times],
         \A q \in Owners : cursor'[q].ts >= cursor[q].ts /\ cursor'[q].ts \in Nat,
         \A q \in Owners : missed'[q] >= missed[q] \/ CaughtUp(q),
         \A q \in Owners : Tells(work[h].event, q) => PastAfter(q, work[h].event.ts),
         \A q \in Owners : RowInv(q)'
  PROVE  SettledInv'
<1> DEFINE e == work[h].event
<1>1. e.type = "RESYNC" \/ e \in pending \cup handled
  BY DEF SettledInv, HandInv
<1>2. /\ pending' \subseteq pending /\ pending' \cup handled' = pending \cup handled
      /\ handled' \subseteq handled \cup {e}
  BY <1>1 DEF Acknowledge
<1>3. Standing
  BY <1>2 DEF Standing
<1>4. work'[h] = Idle /\ \A g \in Handlers \ {h} : work'[g] = work[g]
  BY DEF Acknowledge, Becomes, IInv, TypeOK
<1>5. HandInv(h)'
  <2>1. clock \in Nat
    BY Constants DEF IInv, TypeOK
  <2>. QED BY <1>4, <2>1, IdleSettles
<1>6. AckInv'
  <2> SUFFICES ASSUME NEW f \in handled', NEW o \in Owners, Tells(f, o) PROVE PastAfter(o, f.ts)
    BY DEF AckInv, Tells, Concerns, Actionable, Past, PastAfter
  <2>1. CASE f = e
    BY <2>1 DEF e
  <2>2. CASE f \in handled
    <3>1. Past(o, f.ts) /\ f.ts \in Nat
      BY <2>2, Events DEF SettledInv, AckInv
    <3>. QED BY <1>3, <3>1, PastStands
  <2>. QED BY <1>2, <2>1, <2>2
<1>. QED BY <1>3, <1>4, <1>5, <1>6, StepSettles

LEMMA WriteEventSettles ==
  ASSUME IInv, SettledInv, NEW h \in Handlers, WriteEvent(h) PROVE SettledInv'
<1> DEFINE e == work[h].event
           o == work[h].event.to
<1>1. /\ work[h].pc = "direct" /\ Apply(o, Told(e), e.ts, "event", e.ts) /\ Acknowledge(h, e)
      /\ UNCHANGED <<clock, paid, orderly, missed>>
  BY DEF WriteEvent, Provider, Told
<1>2. work[h] /= Idle /\ e.type /= "TRANSFER" /\ HandInv(h)
  BY <1>1, Working, Busyness DEF IInv, WorkInv, SettledInv
<1>3. e \in pending \cup handled /\ missed' \in [Owners -> Times]
  BY <1>1, <1>2 DEF HandInv, IInv, TypeOK
<1>4. /\ EventInv(e) /\ o \in Owners /\ e.ts \in 1..clock /\ e.ts \in Nat /\ clock \in Nat /\ e.plan \in Plans \cup {None}
      /\ e.from = o
  BY <1>2, <1>3, Events DEF EventInv
<1>5. e.ts \in Times /\ e.ts \in 0..clock /\ Told(e) \in Plans \cup {None} /\ e.ts <= e.ts
  BY <1>2, <1>3, <1>4, Working DEF IInv, Told
<1>6. orderly /\ missed[o] = 0 /\ cursor[o].ts < e.ts => Told(e) = Strongest(paid[e.ts][o])
  BY <1>1, <1>2 DEF HandInv
<1> HIDE DEF e, o
<1>7. /\ \A q \in Owners : StoreInv(q)' /\ cursor'[q].ts >= cursor[q].ts
      /\ cursor' \in [Owners -> [ts : Times, by : {None, "event", "reconcile", "transfer", "resync"}, of : Times]]
      /\ \A q \in Owners \ {o} : row'[q] = row[q] /\ cursor'[q] = cursor[q]
      /\ cursor'[o].ts >= e.ts
  BY <1>1, <1>4, <1>5, ApplyEffect
<1>8. \A q \in Owners : cursor'[q].ts >= cursor[q].ts /\ cursor'[q].ts \in Nat
  BY <1>7, Constants
<1>9. \A q \in Owners : RowInv(q)'
  BY <1>1, <1>3, <1>4, <1>5, <1>6, <1>7, RowWritten
<1>10. \A q \in Owners : Tells(e, q) => PastAfter(q, e.ts)
  BY <1>4, <1>7 DEF Tells, Concerns, PastAfter, o, e
<1>11. \A q \in Owners : missed'[q] >= missed[q]
  BY <1>1, Counts
<1>. QED BY <1>1, <1>2, <1>3, <1>8, <1>9, <1>10, <1>11, AckSettles DEF e

LEMMA WriteViewSettles ==
  ASSUME IInv, SettledInv, NEW h \in Handlers, WriteView(h) PROVE SettledInv'
<1> DEFINE e == work[h].event
           o == SourceFirst(h)
           view == work[h].views[o]
           rest == work[h].left \ {o}
           of == IF e.type = "RESYNC" THEN view.at ELSE e.ts
           caught == Newer(o, view.at, By(e), of) /\ CatchesUp(o, view.at)
<1>1. /\ work[h].pc = "write" /\ Apply(o, view.plan, view.at, By(e), of)
      /\ UNCHANGED <<clock, paid, orderly>> /\ missed' = IF caught THEN [missed EXCEPT ![o] = 0] ELSE missed
      /\ \/ rest = {} /\ Acknowledge(h, e)
         \/ rest /= {} /\ Becomes(h, [work[h] EXCEPT !.left = rest]) /\ UNCHANGED <<pending, handled>>
  BY DEF WriteView, Provider
<1>2. /\ work[h] \in Busy /\ work[h] /= Idle /\ work[h].left \subseteq Concerns(e) /\ HandInv(h)
      /\ e.ts \in Nat /\ e.from \in Owners /\ e.to \in Owners
      /\ work[h].views \in [Owners -> [at : Times, plan : Plans \cup {None}]]
  <2>1. work[h] \in Busy /\ work[h] /= Idle /\ e.ts \in Times
    BY <1>1, Working, Busyness DEF IInv
  <2>2. WorkInv(h) /\ HandInv(h)
    BY DEF IInv, SettledInv
  <2>. QED BY <1>1, <2>1, <2>2, Working, Busyness, Constants DEF IInv, WorkInv
<1>3. /\ Stored /\ o \in work[h].left /\ o \in Owners
      /\ \A q \in Owners \ {o} : row'[q] = row[q] /\ cursor'[q] = cursor[q]
      /\ cursor'[o].ts >= e.ts
  BY ViewWritten
<1>4. view.at \in Times /\ view.plan \in Plans \cup {None}
  BY <1>2, <1>3
<1>5. view.at \in 0..clock /\ view.plan = Strongest(paid[view.at][o])
  BY <1>2, <1>3 DEF HandInv
<1>6. \A q \in Owners : cursor'[q].ts >= cursor[q].ts /\ cursor'[q].ts \in Nat
  BY <1>3 DEF Stored
<1>7. missed' \in [Owners -> Times] /\ (\A q \in Owners \ {o} : missed'[q] = missed[q]) /\ (~caught => missed' = missed)
  <2>1. missed \in [Owners -> Times] /\ 0 \in Times
    BY Constants DEF IInv, TypeOK
  <2> HIDE DEF caught
  <2>. QED BY <1>1, <2>1
<1>8. \A q \in Owners : missed'[q] >= missed[q] \/ CaughtUp(q)
  <2>1. CASE caught
    <3>1. cursor'[o].ts = view.at
      BY <1>1, <1>3, <2>1 DEF Apply, IInv, TypeOK
    <3>2. CaughtUp(o)
      BY <2>1, <3>1 DEF CatchesUp, CaughtUp
    <3>3. \A q \in Owners \ {o} : missed'[q] >= missed[q]
      BY <1>7, Counts
    <3>. QED BY <3>2, <3>3
  <2>2. CASE ~caught
    <3>1. missed' = missed
      BY <1>7, <2>2
    <3>. QED BY <3>1, Counts
  <2>. QED BY <2>1, <2>2
<1>9. \A q \in Owners : RowInv(q)'
  <2>1. missed'[o] = 0 => missed[o] = 0 \/ Newer(o, view.at, By(e), of)
    BY <1>7
  <2> HIDE DEF o, view, e, of, caught
  <2>. QED BY <1>1, <1>3, <1>4, <1>5, <1>7, <2>1, RowWritten
<1>10. Standing
  <2>1. pending' \subseteq pending /\ pending' \cup handled' = pending \cup handled
    BY <1>1, <1>2 DEF Acknowledge, HandInv
  <2>. QED BY <1>1, <1>6, <1>8, <2>1 DEF Standing
<1>11. \A q \in Concerns(e) \ rest : PastAfter(q, e.ts)
  <2> SUFFICES ASSUME NEW q \in Concerns(e) \ rest PROVE PastAfter(q, e.ts)
    BY DEF Concerns
  <2>1. CASE q = o
    BY <1>3, <2>1 DEF PastAfter
  <2>2. CASE q /= o
    <3>1. q \in Owners /\ Past(q, e.ts)
      BY <1>1, <1>2, <2>2 DEF HandInv, Concerns
    <3>. QED BY <1>2, <1>7, <1>10, <3>1, PastStands
  <2>. QED BY <2>1, <2>2
<1> HIDE DEF caught
<1>12. CASE rest = {} /\ Acknowledge(h, e)
  <2>1. \A q \in Owners : Tells(e, q) => PastAfter(q, e.ts)
    BY <1>11, <1>12 DEF Tells
  <2>. QED BY <1>1, <1>2, <1>6, <1>7, <1>8, <1>9, <1>12, <2>1, AckSettles
<1>13. CASE rest /= {} /\ Becomes(h, [work[h] EXCEPT !.left = rest]) /\ UNCHANGED <<pending, handled>>
  <2> DEFINE w == [work[h] EXCEPT !.left = rest]
  <2>1. work'[h] = w /\ \A g \in Handlers \ {h} : work'[g] = work[g]
    BY <1>13 DEF Becomes, IInv, TypeOK
  <2>2. w.pc = "write" /\ w.event = e /\ w.views = work[h].views /\ w.left = rest /\ w /= Idle
    <3>1. w.pc = "write" /\ w.event = e /\ w.views = work[h].views /\ w.left = rest
      BY <1>1, <1>2 DEF Busy
    <3>. QED BY <3>1, Busyness
  <2>3. AckInv'
    <3> SUFFICES ASSUME NEW f \in handled, NEW q \in Owners, Tells(f, q) PROVE PastAfter(q, f.ts)
      BY <1>1, <1>13 DEF AckInv, Tells, Concerns, Actionable, Past, PastAfter
    <3>1. Past(q, f.ts) /\ f.ts \in Nat
      BY Events DEF SettledInv, AckInv
    <3>. QED BY <1>7, <1>10, <3>1, PastStands
  <2> HIDE DEF w
  <2>4. HandInv(h)'
    BY <1>1, <1>2, <1>11, <1>13, <2>1, <2>2 DEF HandInv, First, Concerns, Actionable, Past, PastAfter
  <2>. QED BY <1>7, <1>9, <1>10, <2>1, <2>3, <2>4, StepSettles
<1>. QED BY <1>1, <1>12, <1>13

LEMMA FailureSettles ==
  ASSUME IInv, SettledInv, NEW h \in Handlers, WriteFails(h) PROVE SettledInv'
<1>1. Still /\ orderly' = orderly /\ UNCHANGED <<pending, handled, missed>> /\ Refuse(h)
  BY DEF WriteFails, Still, Provider, Refuse
<1>2. Standing /\ missed' \in [Owners -> Times] /\ AckInv' /\ \A o \in Owners : RowInv(o)'
  BY <1>1, StillSettles
<1>3. work'[h] = Idle /\ \A g \in Handlers \ {h} : work'[g] = work[g]
  BY <1>1 DEF Refuse, Becomes, IInv, TypeOK
<1>4. HandInv(h)'
  <2>1. clock \in Nat
    BY Constants DEF IInv, TypeOK
  <2>. QED BY <1>1, <1>3, <2>1, IdleSettles DEF Still
<1>. QED BY <1>2, <1>3, <1>4, StepSettles

LEMMA NextSettles == ASSUME OneTier PROVE IInv /\ SettledInv /\ [Next]_vars => SettledInv'
<1> SUFFICES ASSUME IInv, SettledInv, [Next]_vars PROVE SettledInv'
  OBVIOUS
<1>1. CASE UNCHANGED vars
  BY <1>1 DEF vars, SettledInv, TimesInv, Steady, PaidInv, EventsInv, EventInv, AckInv, Past, Tells, Concerns, Actionable,
              RowInv, Access, HandInv, First, Told
<1>. QED BY <1>1, ProviderSettles, EnsureSettles, ReceiveSettles, IgnoreSettles, ReadSettles, LookUpSettles,
            WriteEventSettles, WriteViewSettles, FailureSettles DEF Next

\* With nothing outstanding, nothing has changed since the time of a row's cursor.
LEMMA SettledPays == IInv /\ SettledInv => SettledIsPaid
<1> SUFFICES ASSUME IInv, SettledInv, orderly, pending = {}, NEW o \in users, missed[o] = 0 PROVE Access(o) = Strongest(paid[clock][o])
  BY DEF SettledIsPaid, Has
<1>1. o \in Owners /\ clock \in Nat /\ cursor[o].ts \in 0..clock /\ Access(o) = Strongest(paid[cursor[o].ts][o])
  BY Constants DEF IInv, TypeOK, SettledInv, RowInv
<1>2. Steady(o, cursor[o].ts, clock)
  <2> SUFFICES ASSUME NEW f \in handled, Tells(f, o), cursor[o].ts < f.ts PROVE FALSE
    BY DEF Steady
  <2>1. Past(o, f.ts) /\ f.ts \in 1..clock
    BY <1>1, Events DEF SettledInv, AckInv
  <2>. QED BY <1>1, <2>1 DEF Past
<1>3. paid[cursor[o].ts][o] = paid[clock][o]
  BY <1>1, <1>2 DEF SettledInv, TimesInv
<1>. QED BY <1>1, <1>3

\* In a store with one tier: once the webhooks, in their order, are acknowledged, every account that was
\* there for them, or that a lookup has caught up since, has the strongest plan that is paid for,
\* whatever was repeated, refused or looked up late on the way.
THEOREM SettledIsRight == ASSUME OneTier PROVE Spec => []SettledIsPaid
<1>1. Init => IInv /\ SettledInv
  BY Initially, SettledInit
<1>2. (IInv /\ SettledInv) /\ [Next]_vars => (IInv /\ SettledInv)'
  BY IInvPreserved, NextSettles
<1>. QED BY <1>1, <1>2, SettledPays, PTL DEF Spec

=================================================================================
