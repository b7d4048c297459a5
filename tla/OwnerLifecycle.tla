---------------------------- MODULE OwnerLifecycle ----------------------------
(***************************************************************************)
(* The durable coordination of one owner's work with the deletion of the   *)
(* account: operation tickets and the claim of a deletion run              *)
(* (modules/account/prismaOwnerOperationCoordinator.ts), the owner marker  *)
(* (modules/account/ownerLifecycle.ts, prismaUploadSessionRepository.ts)   *)
(* and the frame of the deletion request (modules/account/accountRoutes.ts)*)
(* in several processes that may stop at any moment.                       *)
(*                                                                         *)
(* An admission, a seal, a claim and a finish are Serializable             *)
(* transactions that first lock the owner row: one step each.  Tickets and *)
(* claims carry random ids, so an operation or a run is used once.         *)
(***************************************************************************)
EXTENDS Naturals, FiniteSets

CONSTANTS Ops, Runs, Processes, ProcessOf, None, MaxNested

ASSUME LifecycleAssumption ==
    /\ Ops \cap Runs = {} /\ None \notin Runs
    /\ ProcessOf \in [Ops \cup Runs -> Processes]
    /\ MaxNested \in Nat

VARIABLES
    (* durable *)
    owner,      \* ManagedUploadOwner.status
    tickets,    \* the ManagedOwnerOperation rows, by operation
    claim,      \* the run of the ManagedOwnerDeletionRun row, or None
    (* the context of an operation *)
    pc, pending, retained,
    (* a deletion request *)
    run,
    (* the world outside *)
    unknown     \* operations with a remote outcome that nobody knows

vars == <<owner, tickets, claim, pc, pending, retained, run, unknown>>

\* Types: the pending count of an operation never goes below zero.
TypeOK ==
    /\ owner \in {"ACTIVE", "DELETING", "DELETED"}
    /\ tickets \subseteq Ops
    /\ claim \in Runs \cup {None}
    /\ pc \in [Ops -> {"new", "open", "closed", "done"}]
    /\ pending \in [Ops -> 0..MaxNested]
    /\ retained \in [Ops -> BOOLEAN]
    /\ run \in [Runs -> {"new", "waiting", "cleaning", "releasing", "done"}]
    /\ unknown \subseteq Ops

Init ==
    /\ owner = "ACTIVE" /\ tickets = {} /\ claim = None
    /\ pc = [op \in Ops |-> "new"]
    /\ pending = [op \in Ops |-> 0]
    /\ retained = [op \in Ops |-> FALSE]
    /\ run = [r \in Runs |-> "new"]
    /\ unknown = {}

OpGoes(op, step) == pc' = [pc EXCEPT ![op] = step]
RunGoes(r, step) == run' = [run EXCEPT ![r] = step]

-------------------------------------------------------------------------------
(***************************************************************************)
(* An operation of the owner (createOwnerOperationRunner): an HTTP handler,*)
(* a managed upload, a queue admission or the publish of a due post.       *)
(***************************************************************************)
AdmissibleUntilDeleted == owner # "DELETED"
Admissible == owner = "ACTIVE"

\* lockActiveOwner and the ticket, in one transaction.
Admit(op) ==
    /\ pc[op] = "new" /\ Admissible
    /\ tickets' = tickets \cup {op}
    /\ OpGoes(op, "open") \/ OpGoes(op, "done")        \* done: committed, but not confirmed
    /\ UNCHANGED <<owner, claim, pending, retained, run, unknown>>

\* A call for the same owner inside an open operation joins it.
StartNested(op) ==
    /\ pc[op] = "open" /\ pending[op] < MaxNested
    /\ pending' = [pending EXCEPT ![op] = @ + 1]
    /\ UNCHANGED <<owner, tickets, claim, pc, retained, run, unknown>>

KeepNothing(op) == retained
Keep(op) == [retained EXCEPT ![op] = TRUE]

ForgottenTwice(op) == [pending EXCEPT ![op] = @ - 2]
Forgotten(op) == [pending EXCEPT ![op] = @ - 1]

NestedReturns(op) ==
    /\ pending[op] > 0
    /\ pending' = Forgotten(op)
    /\ UNCHANGED <<owner, tickets, claim, pc, retained, run, unknown>>

NestedThrows(op) ==
    /\ pending[op] > 0
    /\ pending' = Forgotten(op)
    /\ retained' = Keep(op) /\ unknown' = unknown \cup {op}
    /\ UNCHANGED <<owner, tickets, claim, pc, run>>

Running(op) == pc[op] = "open" \/ pending[op] > 0

\* retainCurrentOwnerOperation: an outcome is known to be unknown, or a response was a 5xx.
OutcomeUnknown(op) ==
    /\ Running(op)
    /\ retained' = Keep(op) /\ unknown' = unknown \cup {op}
    /\ UNCHANGED <<owner, tickets, claim, pc, pending, run>>

\* The callback returns, or throws; nested calls may still be pending.
Returns(op) ==
    /\ pc[op] = "open" /\ OpGoes(op, "closed")
    /\ UNCHANGED <<owner, tickets, claim, pending, retained, run, unknown>>

Throws(op) ==
    /\ pc[op] = "open" /\ OpGoes(op, "closed")
    /\ retained' = Keep(op) /\ unknown' = unknown \cup {op}
    /\ UNCHANGED <<owner, tickets, claim, pending, run>>

AllSettled(op) == pending[op] = 0

\* releaseIfConfirmed: a failed release is swallowed, whether or not it was applied.
Release(op) ==
    /\ pc[op] = "closed" /\ AllSettled(op) /\ OpGoes(op, "done")
    /\ IF retained[op] THEN UNCHANGED tickets ELSE tickets' \in {tickets, tickets \ {op}}
    /\ UNCHANGED <<owner, claim, pending, retained, run, unknown>>

-------------------------------------------------------------------------------
(***************************************************************************)
(* A deletion request (runAccountDeletion, acquireOwnerDeletion).          *)
(***************************************************************************)
\* authorizeOwnerDeletion and beginOwnerDeletion: a tombstone is not revived.
Seal(r) ==
    /\ run[r] = "new" /\ RunGoes(r, "waiting")
    /\ owner' = IF owner = "DELETED" THEN "DELETED" ELSE "DELETING"
    /\ UNCHANGED <<tickets, claim, pc, pending, retained, unknown>>

Claimable == owner # "ACTIVE" /\ tickets = {} /\ claim = None

Acquire(r) ==
    /\ run[r] = "waiting" /\ Claimable
    /\ claim' = r
    /\ RunGoes(r, "cleaning") \/ RunGoes(r, "done")    \* done: committed, but not confirmed
    /\ UNCHANGED <<owner, tickets, pc, pending, retained, unknown>>

\* The deadline passes, or the database fails.
AcquireFails(r) ==
    /\ run[r] = "waiting" /\ RunGoes(r, "done")
    /\ UNCHANGED <<owner, tickets, claim, pc, pending, retained, unknown>>

\* Any cleanup step may fail; the request answers 503 and releases its claim.
CleanupFails(r) ==
    /\ run[r] = "cleaning" /\ RunGoes(r, "releasing")
    /\ UNCHANGED <<owner, tickets, claim, pc, pending, retained, unknown>>

Finish(r) ==
    /\ run[r] = "cleaning" /\ owner # "ACTIVE" /\ tickets = {}
    /\ owner' = "DELETED" /\ RunGoes(r, "releasing")
    /\ UNCHANGED <<tickets, claim, pc, pending, retained, unknown>>

\* By owner and run id; an unconfirmed release may or may not have been applied.
ReleasedClaim(r) == IF claim = r THEN None ELSE claim

ReleaseRun(r) ==
    /\ run[r] = "releasing" /\ RunGoes(r, "done")
    /\ claim' \in {claim, ReleasedClaim(r)}
    /\ UNCHANGED <<owner, tickets, pc, pending, retained, unknown>>

-------------------------------------------------------------------------------
(***************************************************************************)
(* Outside: a process stops, an operator reconciles what it left behind.   *)
(***************************************************************************)
Crash(q) ==
    LET here == {op \in Ops : ProcessOf[op] = q /\ Running(op)}
    IN  /\ pc' = [op \in Ops |-> IF ProcessOf[op] = q /\ pc[op] # "new" THEN "done" ELSE pc[op]]
        /\ pending' = [op \in Ops |-> IF ProcessOf[op] = q THEN 0 ELSE pending[op]]
        /\ run' = [r \in Runs |-> IF ProcessOf[r] = q /\ run[r] # "new" THEN "done" ELSE run[r]]
        /\ unknown' = unknown \cup here
        /\ UNCHANGED <<owner, tickets, claim, retained>>

\* The outcome of an operation that has ended was looked up, and its ticket deleted.
ReconcileTicket(op) ==
    /\ op \in tickets /\ pc[op] = "done" /\ ~Running(op)
    /\ tickets' = tickets \ {op} /\ unknown' = unknown \ {op}
    /\ UNCHANGED <<owner, claim, pc, pending, retained, run>>

ReconcileClaim ==
    /\ claim # None /\ run[claim] = "done" /\ claim' = None
    /\ UNCHANGED <<owner, tickets, pc, pending, retained, run, unknown>>

OpStep(op) ==
    \/ Admit(op) \/ StartNested(op) \/ NestedReturns(op) \/ NestedThrows(op)
    \/ OutcomeUnknown(op) \/ Returns(op) \/ Throws(op) \/ Release(op) \/ ReconcileTicket(op)

RunStep(r) ==
    \/ Seal(r) \/ Acquire(r) \/ AcquireFails(r) \/ CleanupFails(r) \/ Finish(r) \/ ReleaseRun(r)

Next ==
    \/ \E op \in Ops : OpStep(op)
    \/ \E r \in Runs : RunStep(r)
    \/ \E q \in Processes : Crash(q)
    \/ ReconcileClaim

Spec == Init /\ [][Next]_vars

-------------------------------------------------------------------------------
(***************************************************************************)
(* Properties.                                                             *)
(***************************************************************************)
Unresolved == {op \in Ops : Running(op)} \cup unknown
Cleaning(r) == run[r] = "cleaning"

\* Cleanup runs alone: it holds the only claim, no callback of the owner runs in any process,
\* and no remote outcome of earlier work is in doubt.
CleanupRunsAlone == \A r \in Runs : Cleaning(r) => claim = r /\ Unresolved = {}

\* Nothing of a deleted owner is left running or in doubt.
DeletedIsQuiet == owner = "DELETED" => Unresolved = {}

Phase == IF \E r \in Runs : Cleaning(r) THEN "cleaning"
         ELSE CASE owner = "ACTIVE" -> "open" [] owner = "DELETING" -> "sealed" [] OTHER -> "gone"

\* The tickets, the claim and the marker together implement the barrier that the deletion of an
\* account relies on, whatever process stops when.
Barrier == INSTANCE OwnerBarrier WITH phase <- Phase, unresolved <- Unresolved
ImplementsBarrier == Barrier!BarrierSpec
===============================================================================
