---------------------------- MODULE AddonPurchases ----------------------------
(***************************************************************************)
(* Packs of credits, bought once in a store.  The provider lists each pack *)
(* under an owner and tells the API of its purchase and of its refund with *)
(* webhooks (revenueCatWebhookRoutes), in any order and more than once;    *)
(* the app asks for a pack to be confirmed (addonRoutes), which looks it   *)
(* up.  Both write the ledger (prismaMonthlyAddonRepository): a row of a   *)
(* pack says whose it is and whether it was refunded, for ever.  What is   *)
(* spent of the credits is AiUsage's and PostSubmission's.                 *)
(***************************************************************************)
EXTENDS Integers, FiniteSets

CONSTANTS
    Owners,
    Packs,       \* what may be bought: a store's transaction each
    Old,         \* those of a product that the next configuration does not know any more
    TextAs,      \* the pack whose id at the provider reads like the store's id of this one
    Handlers,    \* requests handled at the same time
    MaxChanges   \* bound: changes at the provider

AddonPurchasesAssumption ==
    /\ "nobody" \notin Owners /\ Old \subseteq Packs /\ TextAs \in [Packs -> Packs]
    /\ \A p, q \in Packs : TextAs[p] = TextAs[q] => p = q
    /\ MaxChanges \in Nat

VARIABLES
    listed,      \* the owner the provider lists each pack under, once it is bought
    refunded,    \* the packs that were refunded
    renamed,     \* the API runs with the next configuration
    account,     \* User and its owner marker: "none", "there", "deleted"
    ledger,      \* MonthlyAddonPurchase of each pack, if there is one
    pending,     \* webhooks the provider still has to deliver
    handled,     \* those it has had an acknowledgement for
    work,        \* the requests in the process
    missed,      \* history: packs of which a webhook was acknowledged and not heeded
    told,        \* history: the owners who were told that a pack is theirs
    changes

vars == <<listed, refunded, renamed, account, ledger, pending, handled, work, missed, told, changes>>
Provider == <<listed, refunded, changes>>

Nobody == "nobody"
NoRow  == [owner |-> Nobody, revoked |-> FALSE]

Event == [type : {"PURCHASE", "REFUND"}, pack : Packs, owner : Owners]
Idle  == [pc |-> "idle"]

Init ==
    /\ listed = [p \in Packs |-> Nobody] /\ refunded = {} /\ renamed = FALSE
    /\ account \in [Owners -> {"none", "there"}] /\ ledger = [p \in Packs |-> NoRow]
    /\ pending = {} /\ handled = {} /\ work = [h \in Handlers |-> Idle]
    /\ missed = {} /\ told = [p \in Packs |-> {}] /\ changes = 0

-------------------------------------------------------------------------------
(***************************************************************************)
(* The provider.                                                           *)
(***************************************************************************)
Tell(type, p, o) == pending' = pending \cup {[type |-> type, pack |-> p, owner |-> o]}
Changes == changes < MaxChanges /\ changes' = changes + 1
Api == <<renamed, account, ledger, handled, work, missed, told>>

Buys(o, p) ==
    /\ Changes /\ listed[p] = Nobody /\ account[o] /= "deleted"
    /\ listed' = [listed EXCEPT ![p] = o] /\ Tell("PURCHASE", p, o)
    /\ UNCHANGED <<refunded, Api>>

Refunds(p) ==
    /\ Changes /\ listed[p] /= Nobody /\ p \notin refunded
    /\ refunded' = refunded \cup {p} /\ Tell("REFUND", p, listed[p])
    /\ UNCHANGED <<listed, Api>>

\* The store account is used under another login, and its history moves there.
Moves(p, o) ==
    /\ Changes /\ listed[p] \notin {Nobody, o}
    /\ listed' = [listed EXCEPT ![p] = o]
    /\ UNCHANGED <<refunded, pending, Api>>

-------------------------------------------------------------------------------
(***************************************************************************)
(* The ledger.                                                             *)
(***************************************************************************)
Known(p) == ~(renamed /\ p \in Old)

\* The userId of a row goes with the user, its ownerHash stays.
Linked(p) == ledger[p].owner /= Nobody /\ account[ledger[p].owner] = "there"

\* readCredits: the pack counts for its owner.
Counts(p) == Linked(p) /\ ~ledger[p].revoked

\* findPurchaseConfirmation.
Receipt(o, p) == ledger[p].owner = o /\ Linked(p)

Conflict(o, p) == ledger[p].owner \notin {Nobody, o}

\* applyPurchase and revokePurchase, one serializable transaction under the marker of the owner; a refund of
\* a pack without a row leaves one.
Granted(o, p, revoke)  == [owner |-> o, revoked |-> revoke]
RecordedIfAny(o, p, revoke) ==
    IF ledger[p] /= NoRow THEN [ledger[p] EXCEPT !.revoked = @ \/ revoke] ELSE IF revoke THEN NoRow ELSE Granted(o, p, revoke)
Recorded(o, p, revoke) == IF ledger[p] = NoRow THEN Granted(o, p, revoke) ELSE [ledger[p] EXCEPT !.revoked = @ \/ revoke]

Apply(o, p, revoke) ==
    /\ account[o] = "there" /\ ~Conflict(o, p)
    /\ ledger' = [ledger EXCEPT ![p] = Recorded(o, p, revoke)]

-------------------------------------------------------------------------------
(***************************************************************************)
(* Webhooks.                                                               *)
(***************************************************************************)
Becomes(h, new) == work' = [work EXCEPT ![h] = new]
Acknowledged(e) == pending' = pending \ {e} /\ handled' = handled \cup {e}

\* A purchase of a product that is not known is none; a refund of one needs a receipt.
Ours(e)   == Known(e.pack) \/ (e.type = "REFUND" /\ Receipt(e.owner, e.pack))
Heeded(e) == Ours(e) /\ account[e.owner] = "there"

\* The receipt, the lock of the owner, the account.
Receive(h, e) ==
    /\ work[h] = Idle /\ e \in pending \cup handled
    /\ IF Heeded(e)
       THEN Becomes(h, [pc |-> "event", event |-> e]) /\ UNCHANGED <<pending, handled, missed>>
       ELSE /\ Acknowledged(e) /\ UNCHANGED work
            /\ missed' = IF e \in pending THEN missed \cup {e.pack} ELSE missed
    /\ UNCHANGED <<Provider, renamed, account, ledger, told>>

WriteEvent(h) ==
    /\ work[h].pc = "event"
    /\ LET e == work[h].event
       IN  Apply(e.owner, e.pack, e.type = "REFUND") /\ Acknowledged(e)
    /\ Becomes(h, Idle)
    /\ UNCHANGED <<Provider, renamed, account, missed, told>>

\* 409, as the pack is another owner's, or 5xx: the webhook comes again.
EventFails(h) ==
    /\ work[h].pc = "event" /\ Becomes(h, Idle)
    /\ UNCHANGED <<Provider, renamed, account, ledger, pending, handled, missed, told>>

-------------------------------------------------------------------------------
(***************************************************************************)
(* POST /billing/addons/confirm: a pack by the store's id, or by that of   *)
(* the provider, which may read like the store's id of another pack.       *)
(***************************************************************************)
Kinds == {"STORE", "REVENUECAT"}
Webhooks == <<pending, handled, missed>>

Meant(text, kind) == IF kind = "STORE" THEN text ELSE TextAs[text]

Shortcut(o, text, kind) == kind = "STORE" /\ Receipt(o, text)

Confirmed(o, p) == told' = [told EXCEPT ![p] = @ \cup {o}]

\* ensure, and the receipt if there is one; nothing else can be said of a product that is not known.
Ask(h, o, text, kind) ==
    /\ work[h] = Idle /\ account[o] /= "deleted" /\ account' = [account EXCEPT ![o] = "there"]
    /\ LET p == Meant(text, kind)
       IN  IF Shortcut(o, text, kind)
           THEN /\ UNCHANGED work
                /\ IF ledger[text].revoked THEN UNCHANGED told ELSE Confirmed(o, p)
           ELSE /\ UNCHANGED told
                /\ IF Known(p) \/ kind = "REVENUECAT"
                   THEN Becomes(h, [pc |-> "lookup", owner |-> o, pack |-> p])
                   ELSE UNCHANGED work
    /\ UNCHANGED <<Provider, renamed, ledger, Webhooks>>

\* findPurchase: what the provider lists under this owner.
LookUp(h) ==
    /\ work[h].pc = "lookup"
    /\ LET w == work[h]
       IN  /\ listed[w.pack] = w.owner
           /\ Becomes(h, [pc |-> IF Known(w.pack) THEN "write" ELSE "receipt", owner |-> w.owner, pack |-> w.pack,
                          revoked |-> w.pack \in refunded])
    /\ UNCHANGED <<Provider, renamed, account, ledger, Webhooks, told>>

\* 202: no answer, nothing listed or not yet, or without the store's id; the app asks again.
LookUpFails(h) ==
    /\ work[h].pc = "lookup" /\ Becomes(h, Idle)
    /\ UNCHANGED <<Provider, renamed, account, ledger, Webhooks, told>>

\* A product that is not known grants nothing new.
ReadReceipt(h) ==
    /\ work[h].pc = "receipt"
    /\ LET w == work[h]
       IN  IF ~Receipt(w.owner, w.pack) THEN Becomes(h, Idle) /\ UNCHANGED told
           ELSE IF w.revoked THEN Becomes(h, [w EXCEPT !.pc = "write"]) /\ UNCHANGED told
           ELSE /\ Becomes(h, Idle)
                /\ IF ledger[w.pack].revoked THEN UNCHANGED told ELSE Confirmed(w.owner, w.pack)
    /\ UNCHANGED <<Provider, renamed, account, ledger, Webhooks>>

Write(h) ==
    /\ work[h].pc = "write"
    /\ LET w == work[h]
       IN  /\ Apply(w.owner, w.pack, w.revoked)
           /\ IF ledger'[w.pack].revoked THEN UNCHANGED told ELSE Confirmed(w.owner, w.pack)
    /\ Becomes(h, Idle)
    /\ UNCHANGED <<Provider, renamed, account, Webhooks>>

\* 409 PURCHASE_ALREADY_LINKED, or 5xx.
WriteFails(h) ==
    /\ work[h].pc = "write" /\ Becomes(h, Idle)
    /\ UNCHANGED <<Provider, renamed, account, ledger, Webhooks, told>>

-------------------------------------------------------------------------------
\* The process is replaced, by one that does not know the old products.
Restart ==
    /\ ~renamed /\ renamed' = TRUE /\ work' = [h \in Handlers |-> Idle]
    /\ UNCHANGED <<Provider, account, ledger, Webhooks, told>>

Holds(h, o) ==
    \/ work[h].pc = "event" /\ work[h].event.owner = o
    \/ work[h].pc \in {"lookup", "receipt", "write"} /\ work[h].owner = o

\* Deletion waits for the owner's requests (OwnerMutationLock).
Deletes(o) ==
    /\ account[o] = "there" /\ ~\E h \in Handlers : Holds(h, o)
    /\ account' = [account EXCEPT ![o] = "deleted"]
    /\ UNCHANGED <<Provider, renamed, ledger, work, Webhooks, told>>

Next ==
    \/ \E o \in Owners, p \in Packs : Buys(o, p) \/ Moves(p, o)
    \/ \E p \in Packs : Refunds(p)
    \/ \E h \in Handlers :
          \/ \E e \in pending \cup handled : Receive(h, e)
          \/ WriteEvent(h) \/ EventFails(h)
          \/ \E o \in Owners, text \in Packs, kind \in Kinds : Ask(h, o, text, kind)
          \/ LookUp(h) \/ LookUpFails(h) \/ ReadReceipt(h) \/ Write(h) \/ WriteFails(h)
    \/ Restart \/ \E o \in Owners : Deletes(o)

Spec == Init /\ [][Next]_vars

-------------------------------------------------------------------------------
(***************************************************************************)
(* Correctness.                                                            *)
(***************************************************************************)
Settled == pending = {} /\ \A h \in Handlers : work[h] = Idle

\* ARCHITECTURE.md:3320-3322: no replay after a refund, a switch of accounts or a deletion, and none lost.  A
\* pack whose refund was acknowledged does not count from then on; and when all webhooks are acknowledged and
\* nothing is in hand, every pack that was bought is somebody's, and counts for him exactly if it was not
\* refunded.  Apart are packs of which a webhook found no account or no such product.
CreditsFollowPurchases ==
    \A p \in Packs \ missed :
       /\ \A e \in handled : e.pack = p /\ e.type = "REFUND" => ~Counts(p)
       /\ Settled /\ listed[p] /= Nobody =>
             /\ ledger[p] /= NoRow
             /\ Linked(p) => (Counts(p) <=> p \notin refunded)

\* A pack is never promised to two owners, not even after the first one is gone or the store account was
\* passed on; and it is promised only to one who has it in the ledger.
PacksHaveOneOwner ==
    \A p \in Packs : told[p] \subseteq {ledger[p].owner} \ {Nobody}

PacksAreAccounted == CreditsFollowPurchases /\ PacksHaveOneOwner
===============================================================================
