--------------------------- MODULE OwnerMutationLock ---------------------------
(***************************************************************************)
(* The in-process lock of each owner (modules/account/ownerMutationLock.ts)*)
(* and the handlers that take it.  The shared side is taken by the HTTP    *)
(* mutations of the owner (the account-aware middleware of app.ts) and by  *)
(* the RevenueCat webhooks; the exclusive side by account deletion.  A     *)
(* RevenueCat transfer takes the shared side of several owners, one after  *)
(* the other (modules/billing/revenueCatTransfer.ts).                      *)
(*                                                                         *)
(* acquire, acquireMutation and a release run to completion in one turn of *)
(* the event loop, drain included.  A promise resolved there resumes its   *)
(* handler in a later turn.                                                *)
(***************************************************************************)
EXTENDS Integers, Sequences, FiniteSets

CONSTANTS
    Owners,      \* owner ids; numbers, for the order that sort() gives them
    Requests,    \* handlers that take the shared side of one owner
    Transfers,   \* handlers that take the shared side of several owners
    Deletions,   \* handlers that take the exclusive side of one owner
    OwnersOf     \* the owners of each handler

Handlers == Requests \cup Transfers \cup Deletions
Mutators == Requests \cup Transfers

ASSUME OwnersAssumption == Owners \subseteq Nat
ASSUME HandlersAssumption ==
    /\ IsFiniteSet(Handlers)
    /\ Mutators \cap Deletions = {} /\ Requests \cap Transfers = {}
    /\ OwnersOf \in [Handlers -> SUBSET Owners]
    /\ \A h \in Requests \cup Deletions : \E o \in Owners : OwnersOf[h] = {o}

VARIABLES
    lock,       \* OwnerState of each owner
    tracked,    \* the keys of stateByOwner
    inactive,   \* inactiveOwners: "no" | "DELETING" | "DELETED"
    pc, at,     \* where each handler is, the owner it last asked for
    todo,       \* the owners a handler has still to ask for
    held        \* the owners whose release closure has not run

vars == <<lock, tracked, inactive, pc, at, todo, held>>

OwnerState == [activeMutations : Nat, deletionActive : BOOLEAN, waiters : Seq(Handlers)]
IdleState == [activeMutations |-> 0, deletionActive |-> FALSE, waiters |-> <<>>]

\* Types: counters never go below zero, and a handler is in one of the states of its code.
TypeOK ==
    /\ lock \in [Owners -> OwnerState]
    /\ tracked \subseteq Owners
    /\ inactive \in [Owners -> {"no", "DELETING", "DELETED"}]
    /\ pc \in [Handlers -> {"idle", "waiting", "granted", "next", "running", "ended"}]
    /\ at \in [Handlers -> Owners]
    /\ todo \in [Handlers -> SUBSET Owners]
    /\ held \in [Handlers -> SUBSET Owners]

Init ==
    /\ lock = [o \in Owners |-> IdleState]
    /\ tracked = {}
    /\ inactive = [o \in Owners |-> "no"]
    /\ pc = [h \in Handlers |-> "idle"]
    /\ at \in [Handlers -> Owners]
    /\ \A h \in Handlers : at[h] \in OwnersOf[h]
    /\ todo = OwnersOf
    /\ held = [h \in Handlers |-> {}]

-------------------------------------------------------------------------------
(***************************************************************************)
(* drain: whom a lock state lets in, and the state that leaves.            *)
(***************************************************************************)
\* The positions of the mutations that no deletion waits before.
MutationPrefix(q) == {i \in DOMAIN q : \A j \in 1..i : q[j] \notin Deletions}

AdmissibleAmongReaders(s) ==
    IF s.deletionActive \/ s.waiters = <<>> THEN 0
    ELSE IF Head(s.waiters) \in Deletions THEN 1 ELSE Cardinality(MutationPrefix(s.waiters))
Admissible(s) ==
    IF s.deletionActive \/ s.waiters = <<>> THEN 0
    ELSE IF Head(s.waiters) \in Deletions THEN (IF s.activeMutations > 0 THEN 0 ELSE 1)
    ELSE Cardinality(MutationPrefix(s.waiters))

Granted(s) == {s.waiters[i] : i \in 1..Admissible(s)}

Drained(s) ==
    [activeMutations |-> s.activeMutations + Cardinality(Granted(s) \cap Mutators),
     deletionActive  |-> s.deletionActive \/ Granted(s) \cap Deletions # {},
     waiters         |-> SubSeq(s.waiters, Admissible(s) + 1, Len(s.waiters))]

Queued(s, h) == [s EXCEPT !.waiters = Append(@, h)]

ReleasedSilently(s, h) == [s EXCEPT !.deletionActive = FALSE]
Released(s, h) == IF h \in Deletions THEN [s EXCEPT !.deletionActive = FALSE]
                                     ELSE [s EXCEPT !.activeMutations = @ - 1]

NeverIdle(s) == FALSE
Idle(s) == s = IdleState

\* Apply the states s to the locks of the owners in O and drain those; handler h goes on to step.
DrainOwners(O, s, h, step) ==
    LET in(d) == {o \in O : d \in Granted(s[o])}
    IN  /\ lock' = [o \in Owners |-> IF o \in O THEN Drained(s[o]) ELSE lock[o]]
        /\ pc' = [d \in Handlers |-> IF in(d) # {} THEN "granted" ELSE IF d = h THEN step ELSE pc[d]]
        /\ tracked' = (tracked \cup O) \ {o \in O : Idle(s[o])}

\* A release closure that has already run does nothing.
UnguardedReleases(h, O) == O
Unreleased(h, O) == O \cap held[h]

\* Handler h calls the release closures of the owners in O, and goes on to step.
Release(h, O, step) ==
    LET R == Unreleased(h, O)
        s == [o \in R |-> Released(lock[o], h)]
    IN  /\ DrainOwners(R, s, h, step)
        /\ held' = [d \in Handlers |->
              (IF d = h THEN held[d] \ R ELSE held[d]) \cup {o \in R : d \in Granted(s[o])}]

-------------------------------------------------------------------------------
(***************************************************************************)
(* The handlers.                                                           *)
(***************************************************************************)
AnyOrder(o, S) == TRUE
SortedOrder(o, S) == \A p \in S : o <= p

Ask(h) ==
    /\ pc[h] \in {"idle", "next"}
    /\ \E o \in todo[h] :
        /\ SortedOrder(o, todo[h])
        /\ LET s == [p \in {o} |-> Queued(lock[o], h)]
           IN  /\ DrainOwners({o}, s, h, "waiting")
               /\ held' = [d \in Handlers |-> IF d \in Granted(s[o]) THEN held[d] \cup {o} ELSE held[d]]
        /\ at' = [at EXCEPT ![h] = o]
        /\ todo' = [todo EXCEPT ![h] = @ \ {o}]
    /\ UNCHANGED inactive

IsActive(o) == inactive[o] = "no"

\* The handler checks the owner.  The durable check may refuse an owner that is active here.
Admitted(h) ==
    /\ h \in Mutators /\ pc[h] = "granted" /\ IsActive(at[h])
    /\ pc' = [pc EXCEPT ![h] = IF h \in Requests THEN "running" ELSE "next"]
    /\ UNCHANGED <<lock, tracked, inactive, at, todo, held>>

Turned(h) == IF h \in Transfers THEN "next" ELSE "idle"

Refused(h) ==
    /\ pc[h] = "granted"
    /\ Release(h, {at[h]}, Turned(h))
    /\ todo' = IF h \in Transfers THEN todo ELSE [todo EXCEPT ![h] = OwnersOf[h]]
    /\ UNCHANGED <<inactive, at>>

\* All owners of a transfer were visited.
Resolve(h) ==
    /\ h \in Transfers /\ pc[h] = "next" /\ todo[h] = {}
    /\ pc' = [pc EXCEPT ![h] = IF held[h] = {} THEN "idle" ELSE "running"]
    /\ todo' = IF held[h] = {} THEN [todo EXCEPT ![h] = OwnersOf[h]] ELSE todo
    /\ UNCHANGED <<lock, tracked, inactive, at, held>>

\* The transfer's finally, and the response.end of a request.
End(h) ==
    /\ h \in Mutators /\ pc[h] = "running"
    /\ Release(h, OwnersOf[h], IF h \in Requests THEN "ended" ELSE "idle")
    /\ todo' = [todo EXCEPT ![h] = OwnersOf[h]]
    /\ UNCHANGED <<inactive, at>>

\* The finish event of a request calls the same closure again.
FinishEvent(h) ==
    /\ pc[h] = "ended"
    /\ Release(h, {at[h]}, "idle")
    /\ UNCHANGED <<inactive, at, todo>>

MarkDeleting(o) == IF inactive[o] = "DELETED" THEN "DELETED" ELSE "DELETING"

Seal(h) ==
    /\ h \in Deletions /\ pc[h] = "granted"
    /\ inactive' = [inactive EXCEPT ![at[h]] = MarkDeleting(at[h])]
    /\ pc' = [pc EXCEPT ![h] = "running"]
    /\ UNCHANGED <<lock, tracked, at, todo, held>>

\* Deletion completes (markDeleted) or stops with a 503; either way it releases in its finally.
EndDeletion(h) ==
    /\ h \in Deletions /\ pc[h] = "running"
    /\ inactive' \in {inactive, [inactive EXCEPT ![at[h]] = "DELETED"]}
    /\ Release(h, {at[h]}, "idle")
    /\ todo' = [todo EXCEPT ![h] = OwnersOf[h]]
    /\ UNCHANGED at

Continue(h) ==
    \/ pc[h] = "next" /\ Ask(h)
    \/ Admitted(h) \/ Refused(h) \/ Resolve(h) \/ End(h) \/ FinishEvent(h) \/ Seal(h) \/ EndDeletion(h)

Next == \E h \in Handlers : Ask(h) \/ Continue(h)

Spec == Init /\ [][Next]_vars

\* A handler that was started goes on and ends: its awaits settle, and it releases in a finally.
Fairness == \A h \in Handlers : WF_vars(Continue(h))

FairSpec == Spec /\ Fairness

-------------------------------------------------------------------------------
(***************************************************************************)
(* Safety.                                                                 *)
(***************************************************************************)
Holds(h, o) == o \in held[h]

\* While a deletion holds an owner, no other handler holds it.
Exclusion == \A d \in Deletions, h \in Handlers, o \in Owners :
    Holds(d, o) /\ Holds(h, o) => h = d

\* The counters say who is inside: nothing is counted twice or released twice.
CountsMatch == \A o \in Owners :
    /\ lock[o].activeMutations = Cardinality({h \in Mutators : Holds(h, o)})
    /\ lock[o].deletionActive <=> \E d \in Deletions : Holds(d, o)

\* A mutation that passed its check keeps an active owner until it releases: the owner is marked
\* for deletion neither under a running request nor under a transfer still waiting for others.
CheckedStaysActive == \A h \in Mutators, o \in Owners :
    Holds(h, o) /\ ~(pc[h] = "granted" /\ at[h] = o) => inactive[o] = "no"

\* The map keeps an entry for the owners in use and for no other.
NoIdleEntries == \A o \in Owners : o \in tracked <=> ~(lock[o] = IdleState)

\* No lost wake-up and no deadlock among transfers and deletions: nobody waits for ever, and a
\* handler only stops waiting when it is let in.
EveryAskIsGranted == \A h \in Handlers : []<>(pc[h] # "waiting")
===============================================================================
