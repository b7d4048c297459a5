------------------------ MODULE AccountDeletion_proofs ------------------------
(***************************************************************************)
(* For every set of operations, deletion requests and processes.  First    *)
(* the coordination alone (OwnerLifecycle): type correctness, the cleanup  *)
(* barrier and the refinement of OwnerBarrier, by the argument that an     *)
(* operation keeps its ticket for as long as its work is unresolved, and   *)
(* that tickets only disappear once the owner is sealed.  Then the account *)
(* (AccountDeletion): a retry finds what the provider still has, and of an *)
(* account that is gone nothing is left or comes back.  The coordination   *)
(* keeps its own invariant under the account's steps; given that, a        *)
(* cleanup works alone, so that what its earlier steps removed stays       *)
(* removed.                                                                *)
(***************************************************************************)
EXTENDS AccountDeletion, TLAPS

-------------------------------------------------------------------------------
(***************************************************************************)
(* The coordination of operations and deletions.                           *)
(***************************************************************************)
LEMMA TypePreserved == TypeOK /\ [Next]_vars => TypeOK'
<1> SUFFICES ASSUME TypeOK, [Next]_vars PROVE TypeOK'
  OBVIOUS
<1> USE LifecycleAssumption DEF TypeOK
<1>1. ASSUME NEW op \in Ops, Admit(op) PROVE TypeOK'
  BY <1>1 DEF Admit, OpGoes
<1>2. ASSUME NEW op \in Ops, StartNested(op) PROVE TypeOK'
  <2>1. pending[op] + 1 \in 0..MaxNested
    BY <1>2 DEF StartNested
  <2>. QED BY <2>1, <1>2 DEF StartNested
<1>9. ASSUME NEW op \in Ops, NestedReturns(op) \/ NestedThrows(op) PROVE TypeOK'
  <2>1. pending[op] - 1 \in 0..MaxNested
    BY <1>9 DEF NestedReturns, NestedThrows
  <2>2. pending' \in [Ops -> 0..MaxNested]
    BY <2>1, <1>9 DEF NestedReturns, NestedThrows, Forgotten
  <2>. QED BY <2>2, <1>9 DEF NestedReturns, NestedThrows, Keep
<1>3. ASSUME NEW op \in Ops, OutcomeUnknown(op) \/ Returns(op) \/ Throws(op) PROVE TypeOK'
  BY <1>3 DEF OutcomeUnknown, Returns, Throws, OpGoes, Keep
<1>4. ASSUME NEW op \in Ops, Release(op) \/ ReconcileTicket(op) PROVE TypeOK'
  BY <1>4 DEF Release, ReconcileTicket, OpGoes
<1>5. ASSUME NEW r \in Runs, RunStep(r) PROVE TypeOK'
  BY <1>5 DEF RunStep, Seal, Acquire, AcquireFails, CleanupFails, Finish, ReleaseRun,
              ReleasedClaim, RunGoes
<1>6. ASSUME NEW q \in Processes, Crash(q) PROVE TypeOK'
  BY <1>6 DEF Crash
<1>7. CASE ReconcileClaim
  BY <1>7 DEF ReconcileClaim
<1>8. CASE UNCHANGED vars
  BY <1>8 DEF vars
<1>. QED BY <1>1, <1>2, <1>3, <1>4, <1>5, <1>6, <1>7, <1>8, <1>9 DEF Next, OpStep

\* The type invariant of the tickets, the claim, the operation contexts and the deletion runs
\* holds in every reachable state.
THEOREM TypeCorrect == Spec => []TypeOK
<1>1. Init => TypeOK
  BY LifecycleAssumption DEF Init, TypeOK
<1>. QED BY <1>1, TypePreserved, PTL DEF Spec

-------------------------------------------------------------------------------
(***************************************************************************)
(* The inductive invariant.                                                *)
(***************************************************************************)
\* Work in progress, and work whose outcome is in doubt, has a ticket; while the operation can
\* still release it, the doubt is written down in its context.
UnresolvedKeepsTicket == \A op \in Ops :
    /\ Running(op) => op \in tickets /\ pc[op] \in {"open", "closed"}
    /\ op \in unknown => op \in tickets /\ (pc[op] = "done" \/ retained[op])
    /\ pc[op] = "new" => op \notin tickets

\* A cleaning run holds the claim of a sealed owner that has no ticket left.
CleaningHoldsClaim == \A r \in Runs :
    Cleaning(r) => claim = r /\ owner # "ACTIVE" /\ tickets = {}

DeletedHasNoTicket == owner = "DELETED" => tickets = {}

IInv == TypeOK /\ UnresolvedKeepsTicket /\ CleaningHoldsClaim /\ DeletedHasNoTicket

LEMMA InitInv == Init => IInv
  BY LifecycleAssumption
     DEF Init, IInv, TypeOK, UnresolvedKeepsTicket, CleaningHoldsClaim, DeletedHasNoTicket,
         Running, Cleaning

\* Whatever an operation does, its unresolved work keeps the ticket, and no ticket is added to a
\* sealed owner.
LEMMA OpPreserves ==
  ASSUME IInv, TypeOK', NEW op \in Ops, OpStep(op) PROVE IInv'
<1> USE DEF IInv, TypeOK
<1>1. UnresolvedKeepsTicket'
  <2> USE DEF UnresolvedKeepsTicket, Running
  <2>1. CASE Admit(op)
    BY <2>1 DEF Admit, OpGoes
  <2>2. CASE StartNested(op)
    BY <2>2 DEF StartNested
  <2>3. CASE NestedReturns(op)
    BY <2>3 DEF NestedReturns, Forgotten
  <2>4. CASE NestedThrows(op)
    BY <2>4 DEF NestedThrows, Forgotten, Keep
  <2>5. CASE OutcomeUnknown(op)
    BY <2>5 DEF OutcomeUnknown, Keep
  <2>6. CASE Returns(op) \/ Throws(op)
    BY <2>6 DEF Returns, Throws, OpGoes, Keep
  <2>7. CASE Release(op)
    BY <2>7 DEF Release, OpGoes, AllSettled
  <2>8. CASE ReconcileTicket(op)
    BY <2>8 DEF ReconcileTicket
  <2>. QED BY <2>1, <2>2, <2>3, <2>4, <2>5, <2>6, <2>7, <2>8 DEF OpStep
<1>2. /\ UNCHANGED <<owner, claim, run>>
      /\ owner # "ACTIVE" => tickets' \subseteq tickets
  BY DEF OpStep, Admit, Admissible, StartNested, NestedReturns, NestedThrows, OutcomeUnknown,
         Returns, Throws, Release, ReconcileTicket
<1>3. CleaningHoldsClaim' /\ DeletedHasNoTicket'
  BY <1>2 DEF CleaningHoldsClaim, DeletedHasNoTicket, Cleaning
<1>. QED BY <1>1, <1>3

LEMMA RunPreserves ==
  ASSUME IInv, TypeOK', NEW r \in Runs, RunStep(r) PROVE IInv'
<1> USE LifecycleAssumption DEF IInv, TypeOK, RunStep, Seal, Acquire, Claimable, AcquireFails, CleanupFails,
        Finish, ReleaseRun, ReleasedClaim, RunGoes
<1>1. UNCHANGED <<tickets, pc, pending, retained, unknown>>
  OBVIOUS
<1>2. UnresolvedKeepsTicket'
  BY <1>1 DEF UnresolvedKeepsTicket, Running
<1>3. CleaningHoldsClaim'
  BY DEF CleaningHoldsClaim, Cleaning
<1>4. DeletedHasNoTicket'
  BY DEF DeletedHasNoTicket
<1>. QED BY <1>2, <1>3, <1>4

LEMMA OutsidePreserves ==
  ASSUME IInv, TypeOK', (\E q \in Processes : Crash(q)) \/ ReconcileClaim \/ UNCHANGED vars
  PROVE  IInv'
<1> USE DEF IInv, TypeOK
<1>1. ASSUME NEW q \in Processes, Crash(q) PROVE IInv'
  <2>1. UnresolvedKeepsTicket'
    BY <1>1, LifecycleAssumption DEF Crash, UnresolvedKeepsTicket, Running
  <2>2. CleaningHoldsClaim' /\ DeletedHasNoTicket'
    BY <1>1, LifecycleAssumption DEF Crash, CleaningHoldsClaim, DeletedHasNoTicket, Cleaning
  <2>. QED BY <2>1, <2>2
<1>2. CASE ReconcileClaim
  BY <1>2, LifecycleAssumption
     DEF ReconcileClaim, UnresolvedKeepsTicket, Running, CleaningHoldsClaim, DeletedHasNoTicket, Cleaning
<1>3. CASE UNCHANGED vars
  BY <1>3 DEF vars, UnresolvedKeepsTicket, Running, CleaningHoldsClaim, DeletedHasNoTicket, Cleaning
<1>. QED BY <1>1, <1>2, <1>3

LEMMA NextPreserves == IInv /\ [Next]_vars => IInv'
<1>1. IInv /\ [Next]_vars => TypeOK'
  BY TypePreserved DEF IInv
<1>. QED BY <1>1, OpPreserves, RunPreserves, OutsidePreserves DEF Next

\* OwnerLifecycle: the inductive invariant holds of the operations and the deletion runs.
THEOREM Invariance == Spec => []IInv
  BY NextPreserves, InitInv, PTL DEF Spec

\* While a run cleans up, it alone holds the claim, no callback of the owner runs in any process
\* and no remote outcome is in doubt, whatever crashed, failed or was only half confirmed before.
THEOREM CleanupIsSafe == Spec => []CleanupRunsAlone
<1>1. IInv => CleanupRunsAlone
  BY DEF IInv, UnresolvedKeepsTicket, CleaningHoldsClaim, CleanupRunsAlone, Unresolved, TypeOK
<1>. QED BY <1>1, Invariance, PTL

\* A deleted owner has no work left, running or in doubt.
THEOREM DeletionIsQuiet == Spec => []DeletedIsQuiet
<1>1. IInv => DeletedIsQuiet
  BY DEF IInv, UnresolvedKeepsTicket, DeletedHasNoTicket, DeletedIsQuiet, Unresolved, TypeOK
<1>. QED BY <1>1, Invariance, PTL

-------------------------------------------------------------------------------
(***************************************************************************)
(* The refinement of OwnerBarrier.                                         *)
(***************************************************************************)
LEMMA NoTicketNothingUnresolved == IInv /\ tickets = {} => Unresolved = {}
  BY DEF IInv, UnresolvedKeepsTicket, Unresolved, TypeOK

\* A step of an operation lets its own work in while the account is open, or resolves it.
LEMMA OpStepMaps ==
  ASSUME IInv, NEW op \in Ops, OpStep(op)
  PROVE  Barrier!Let(op) \/ Barrier!Resolve(op) \/ UNCHANGED <<Phase, Unresolved>>
<1> USE DEF IInv, TypeOK
<1>1. Phase' = Phase
  BY DEF OpStep, Admit, StartNested, NestedReturns, NestedThrows, OutcomeUnknown, Returns,
         Throws, Release, ReconcileTicket, Phase, Cleaning
<1>2. ASSUME NEW o \in Ops, o # op PROVE o \in Unresolved' <=> o \in Unresolved
  BY <1>2 DEF OpStep, Admit, StartNested, NestedReturns, NestedThrows, OutcomeUnknown, Returns,
         Throws, Release, ReconcileTicket, Unresolved, Running, OpGoes, Forgotten
<1>3. Unresolved \subseteq Ops /\ Unresolved' \subseteq Ops
  BY DEF OpStep, Admit, StartNested, NestedReturns, NestedThrows, OutcomeUnknown, Returns,
         Throws, Release, ReconcileTicket, Unresolved
<1>4. ASSUME op \in Unresolved', op \notin Unresolved PROVE Phase = "open"
  <2>1. Admit(op)
    BY <1>4 DEF OpStep, StartNested, NestedReturns, NestedThrows, OutcomeUnknown, Returns,
         Throws, Release, ReconcileTicket, Unresolved, Running, OpGoes, Forgotten
  <2>. QED BY <2>1 DEF Admit, Admissible, Phase, CleaningHoldsClaim
<1>5. CASE op \in Unresolved' /\ op \notin Unresolved
  BY <1>1, <1>2, <1>3, <1>4, <1>5 DEF Barrier!Let
<1>6. CASE op \notin Unresolved'
  BY <1>1, <1>2, <1>3, <1>6 DEF Barrier!Resolve
<1>7. CASE op \in Unresolved' /\ op \in Unresolved
  <2>1. \A o \in Ops : o \in Unresolved' <=> o \in Unresolved
    BY <1>2, <1>7
  <2>2. Unresolved' = Unresolved
    BY <1>3, <2>1
  <2>. QED BY <1>1, <2>2
<1>. QED BY <1>5, <1>6, <1>7

\* A step of a deletion request seals the account, starts a cleanup when nothing is unresolved,
\* or ends one.
LEMMA RunStepMaps ==
  ASSUME IInv, IInv', NEW r \in Runs, RunStep(r)
  PROVE  Barrier!Seal \/ Barrier!Clean \/ Barrier!Pause \/ UNCHANGED <<Phase, Unresolved>>
<1> USE LifecycleAssumption DEF IInv, TypeOK
<1>1. Unresolved' = Unresolved
  BY DEF RunStep, Seal, Acquire, AcquireFails, CleanupFails, Finish, ReleaseRun, Unresolved, Running
<1>2. CASE Seal(r)
  BY <1>1, <1>2 DEF Seal, RunGoes, Phase, Cleaning, CleaningHoldsClaim, Barrier!Seal
<1>3. CASE Acquire(r)
  BY <1>1, <1>3, NoTicketNothingUnresolved
     DEF Acquire, Claimable, RunGoes, Phase, Cleaning, CleaningHoldsClaim, Barrier!Clean
<1>4. CASE AcquireFails(r) \/ ReleaseRun(r)
  BY <1>1, <1>4 DEF AcquireFails, ReleaseRun, RunGoes, Phase, Cleaning
<1>5. CASE CleanupFails(r) \/ Finish(r)
  BY <1>1, <1>5
     DEF CleanupFails, Finish, RunGoes, Phase, Cleaning, CleaningHoldsClaim, Barrier!Pause
<1>. QED BY <1>2, <1>3, <1>4, <1>5 DEF RunStep

\* What is outside the protocol at most ends a cleanup: a crash turns running work into doubt.
LEMMA OutsideMaps ==
  ASSUME IInv, (\E q \in Processes : Crash(q)) \/ ReconcileClaim \/ UNCHANGED vars
  PROVE  Barrier!Pause \/ UNCHANGED <<Phase, Unresolved>>
<1> USE LifecycleAssumption DEF IInv, TypeOK
<1>1. ASSUME NEW q \in Processes, Crash(q)
      PROVE  Barrier!Pause \/ UNCHANGED <<Phase, Unresolved>>
  <2>1. Unresolved' = Unresolved
    BY <1>1 DEF Crash, Unresolved, Running
  <2>2. owner' = owner /\ \A r \in Runs : Cleaning(r)' => Cleaning(r)
    BY <1>1 DEF Crash, Cleaning
  <2>. QED BY <2>1, <2>2 DEF Phase, CleaningHoldsClaim, Barrier!Pause
<1>2. CASE ReconcileClaim \/ UNCHANGED vars
  BY <1>2 DEF ReconcileClaim, vars, Phase, Cleaning, Unresolved, Running
<1>. QED BY <1>1, <1>2

LEMMA StepMaps ==
  IInv /\ IInv' /\ [Next]_vars => [Barrier!BarrierNext]_<<Phase, Unresolved>>
  BY OpStepMaps, RunStepMaps, OutsideMaps DEF Next, Barrier!BarrierNext

LEMMA InitMaps == Init => Barrier!BarrierInit
  BY LifecycleAssumption DEF Init, Barrier!BarrierInit, Phase, Unresolved, Cleaning, Running

\* The durable coordination implements the barrier of account deletion: work of an owner is let
\* in only while the account is open, cleanup starts only when no work is unresolved.
THEOREM Refinement == Spec => ImplementsBarrier
  BY InitMaps, StepMaps, Invariance, PTL DEF Spec, ImplementsBarrier, Barrier!BarrierSpec

-------------------------------------------------------------------------------
(***************************************************************************)
(* The coordination under the account's steps.                             *)
(***************************************************************************)
\* The one step of an account that is not one of the coordination: the tombstone before the last step.
Tombstone == \E r \in Runs : FinishSessions(r)

LEMMA StepsOfLifecycle == [AccountNext]_allVars => [Next]_vars \/ Tombstone
<1>1. ASSUME NEW r \in Runs, DeletionStep(r) PROVE [Next]_vars \/ Tombstone
  BY <1>1 DEF DeletionStep, Authorise, Claim, ClaimFails, ReadScope, StopUploads, RemoveJobs,
     Disconnect, DeleteProfile, DropMapping, DeleteMedia, DeleteRows, DeleteIdentity, Removes,
     GoesTo, FinishDeletion, Fails, Releases, Tombstone, Next, RunStep
<1>2. ASSUME NEW q \in Processes, Stops(q) PROVE Next
  BY <1>2 DEF Stops, Next
<1>. QED BY <1>1, <1>2 DEF AccountNext, allVars, Works, Links, Next

LEMMA TombstoneKeepsLifecycle == IInv /\ Tombstone => IInv'
<1> SUFFICES ASSUME IInv, NEW r \in Runs, FinishSessions(r) PROVE IInv'
  BY DEF Tombstone
<1> USE DEF FinishSessions, IInv
<1>1. TypeOK'
  BY DEF TypeOK
<1>2. UnresolvedKeepsTicket'
  BY DEF UnresolvedKeepsTicket, Running
<1>3. CleaningHoldsClaim' /\ DeletedHasNoTicket'
  BY DEF CleaningHoldsClaim, DeletedHasNoTicket, Cleaning
<1>. QED BY <1>1, <1>2, <1>3

LEMMA AccountKeepsLifecycle == IInv /\ [AccountNext]_allVars => IInv'
  BY StepsOfLifecycle, NextPreserves, TombstoneKeepsLifecycle

\* It also holds when they run with the rest of the account.
THEOREM AccountLifecycle == AccountSpec => []IInv
<1>1. AccountInit => IInv
  BY InitInv DEF AccountInit
<1>. QED BY <1>1, AccountKeepsLifecycle, PTL DEF AccountSpec

LEMMA TombstoneIsSilent ==
  ASSUME IInv, Tombstone PROVE UNCHANGED <<Phase, Unresolved>>
<1> PICK r \in Runs : FinishSessions(r)
  BY DEF Tombstone
<1>1. Unresolved' = Unresolved
  BY DEF FinishSessions, Unresolved, Running
<1>2. run' = run /\ Cleaning(r)
  BY DEF FinishSessions, Reaches
<1>. QED BY <1>1, <1>2 DEF Phase, Cleaning

\* The deletion of an account, with every cleanup step, failure and stop, and with the tombstone
\* written before the last step, still implements the barrier between it and the owner's work.
THEOREM AccountRefinement == AccountSpec => ImplementsBarrier
<1>1. AccountInit => Barrier!BarrierInit
  BY InitMaps DEF AccountInit
<1>2. IInv /\ IInv' /\ [AccountNext]_allVars => [Barrier!BarrierNext]_<<Phase, Unresolved>>
  BY StepsOfLifecycle, StepMaps, TombstoneIsSilent
<1>. QED BY <1>1, <1>2, AccountLifecycle, PTL DEF AccountSpec, ImplementsBarrier, Barrier!BarrierSpec

\* The type invariant of the account's data, its proof and the requests' scopes and next steps
\* holds in every reachable state.
THEOREM AccountTypeCorrect == AccountSpec => []AccountTypeOK
<1>1. AccountInit => AccountTypeOK
  BY InitInv DEF AccountInit, AccountTypeOK, IInv, Items, Steps
<1>2. IInv' /\ AccountTypeOK /\ [AccountNext]_allVars => AccountTypeOK'
  <2> SUFFICES ASSUME TypeOK', AccountTypeOK, [AccountNext]_allVars PROVE AccountTypeOK'
    BY DEF IInv
  <2> USE DEF AccountTypeOK
  <2>1. ASSUME NEW r \in Runs, DeletionStep(r) PROVE AccountTypeOK'
    <3> USE DEF accountVars, Removes, GoesTo
    <3>1. ASSUME NEW recent, NEW operator, Authorise(r, recent, operator) PROVE AccountTypeOK'
      BY <3>1 DEF Authorise
    <3>2. CASE Claim(r) \/ ClaimFails(r) \/ FinishDeletion(r) \/ Releases(r)
      BY <3>2 DEF Claim, ClaimFails, FinishDeletion, Releases
    <3>3. CASE ReadScope(r)
      BY <3>3 DEF ReadScope, ScopeNow, Steps
    <3>4. CASE StopUploads(r)
      BY <3>4 DEF StopUploads, Steps, Items
    <3>5. CASE RemoveJobs(r) \/ Disconnect(r) \/ DeleteProfile(r)
      BY <3>5 DEF RemoveJobs, Disconnect, DeleteProfile, Steps
    <3>6. CASE DropMapping(r) \/ DeleteMedia(r) \/ DeleteRows(r) \/ DeleteIdentity(r)
      BY <3>6 DEF DropMapping, DeleteMedia, DeleteRows, DeleteIdentity, Steps
    <3>7. CASE FinishSessions(r)
      BY <3>7 DEF FinishSessions, Steps
    <3>8. CASE Fails(r)
      BY <3>8 DEF Fails
    <3>. QED BY <2>1, <3>1, <3>2, <3>3, <3>4, <3>5, <3>6, <3>7, <3>8 DEF DeletionStep
  <2>2. ASSUME NEW op \in Ops, Works(op) PROVE AccountTypeOK'
    BY <2>2 DEF Works, Results, Items
  <2>3. ASSUME NEW q \in Processes, Stops(q) PROVE AccountTypeOK'
    BY <2>3 DEF Stops
  <2>4. CASE Links
    BY <2>4 DEF Links, Items
  <2>5. CASE UNCHANGED accountVars
    BY <2>5 DEF accountVars
  <2>. QED BY <2>1, <2>2, <2>3, <2>4, <2>5 DEF AccountNext, allVars
<1>. QED BY <1>1, <1>2, AccountLifecycle, PTL DEF AccountSpec

-------------------------------------------------------------------------------
(***************************************************************************)
(* The inductive invariant of the account's data.                          *)
(***************************************************************************)
\* A cleanup has come to one of the steps S.
Past(r, S) == Cleaning(r) /\ at[r] \in S

ToMedia == {"media", "rows", "identity", "sessions", "finish"}

\* What is gone once a cleanup has come to a step; it works alone, so it stays gone.
CleanupInv(r) ==
    /\ run[r] \in {"new", "waiting"} => at[r] = "scope"
    /\ Past(r, {"uploads", "jobs"}) => (scope[r] <=> "mapping" \in data)
    /\ Past(r, Steps \ {"scope", "uploads"}) => "upload" \notin data
    /\ Past(r, Steps \ {"scope", "uploads", "jobs"}) => "job" \notin data
    /\ Past(r, {"mapping"}) => "channel" \notin data /\ "profile" \notin data
    /\ Past(r, ToMedia) => "mapping" \notin data
    /\ Past(r, ToMedia \ {"media"}) => "media" \notin data
    /\ Past(r, {"identity", "sessions", "finish"}) => "row" \notin data /\ "user" \notin data
    /\ Past(r, {"sessions", "finish"}) => "identity" \notin data

\* While the owner's work may go on, a connect URL has its mapping; who is gone has no work.
WorkInv ==
    /\ owner = "ACTIVE" \/ tickets # {} => ("url" \in data => "mapping" \in data)
    /\ owner = "DELETED" \/ "identity" \notin data => owner # "ACTIVE" /\ tickets = {}

DataInv == WorkInv /\ RetryFindsChannels /\ NothingIsLeft

CleanupsInv == \A r \in Runs : CleanupInv(r)

AInv == AccountTypeOK /\ DataInv /\ CleanupsInv

LEMMA AccountInitInv == AccountInit => DataInv /\ CleanupsInv
  BY DEF AccountInit, Init, DataInv, WorkInv, RetryFindsChannels, NothingIsLeft, CleanupsInv,
         CleanupInv, Past, Cleaning

\* A cleanup is the only one, of a sealed owner without work.
LEMMA CleansAlone ==
  ASSUME IInv, NEW r \in Runs, Cleaning(r)
  PROVE  /\ owner # "ACTIVE" /\ tickets = {} /\ Unresolved = {}
         /\ \A s \in Runs : Cleaning(s) => s = r
  BY NoTicketNothingUnresolved DEF IInv, CleaningHoldsClaim

\* The steps that leave the account's data alone: the coordination's own.
LEMMA CoordinationPreserves ==
  ASSUME IInv, AInv, UNCHANGED accountVars,
         \/ \E op \in Ops : OpStep(op)
         \/ \E r \in Runs : Acquire(r) \/ AcquireFails(r) \/ ReleaseRun(r)
         \/ ReconcileClaim \/ UNCHANGED vars
  PROVE  DataInv' /\ CleanupsInv'
<1> USE DEF accountVars
<1>1. owner' = owner /\ (owner # "ACTIVE" => tickets' \subseteq tickets)
  BY DEF OpStep, Admit, Admissible, StartNested, NestedReturns, NestedThrows, OutcomeUnknown,
         Returns, Throws, Release, ReconcileTicket, Acquire, AcquireFails, ReleaseRun,
         ReconcileClaim, vars
<1>2. DataInv'
  BY <1>1 DEF AInv, DataInv, WorkInv, RetryFindsChannels, NothingIsLeft
<1>3. ASSUME NEW r \in Runs PROVE CleanupInv(r)'
  <2>1. /\ run'[r] \in {"new", "waiting"} => run[r] \in {"new", "waiting"}
        /\ Cleaning(r)' => Cleaning(r) \/ run[r] = "waiting"
    BY DEF OpStep, Admit, StartNested, NestedReturns, NestedThrows, OutcomeUnknown, Returns,
           Throws, Release, ReconcileTicket, Acquire, AcquireFails, ReleaseRun, ReconcileClaim,
           vars, RunGoes, Cleaning, IInv, TypeOK
  <2>. QED BY <2>1 DEF AInv, CleanupsInv, CleanupInv, Past, Cleaning, ToMedia
<1>. QED BY <1>2, <1>3 DEF CleanupsInv

\* Late work still has its ticket, so that no cleanup is under way.
LEMMA WorkPreserves ==
  ASSUME IInv, AInv, NEW op \in Ops, Works(op) PROVE DataInv' /\ CleanupsInv'
<1>1. tickets # {} /\ UNCHANGED vars
  BY DEF Works, IInv, UnresolvedKeepsTicket
<1>2. \A r \in Runs : ~Cleaning(r)
  BY <1>1, CleansAlone
<1>3. owner # "DELETED" /\ "identity" \in data
  BY <1>1 DEF AInv, DataInv, WorkInv
<1>4. /\ "identity" \in data' /\ ("mapping" \in data => "mapping" \in data')
      /\ "url" \in data' => "url" \in data \/ "mapping" \in data'
      /\ "channel" \in data' => "channel" \in data
  BY <1>3 DEF Works, Results
<1>5. DataInv'
  BY <1>1, <1>3, <1>4 DEF AInv, DataInv, WorkInv, RetryFindsChannels, NothingIsLeft, vars
<1>6. CleanupsInv'
  BY <1>1, <1>2 DEF AInv, CleanupsInv, CleanupInv, Past, Cleaning, vars, Works
<1>. QED BY <1>5, <1>6

LEMMA LinkPreserves == ASSUME IInv, AInv, Links PROVE DataInv' /\ CleanupsInv'
<1>1. "mapping" \in data /\ "profile" \in data /\ "url" \in data
  BY DEF AInv, DataInv, RetryFindsChannels, Links
<1>2. data' = data \cup {"channel"} /\ UNCHANGED <<vars, scope, at>>
  BY DEF Links
<1>3. owner # "DELETED" /\ "identity" \in data
  BY <1>1 DEF AInv, DataInv, NothingIsLeft
<1>4. DataInv'
  BY <1>1, <1>2, <1>3 DEF AInv, DataInv, WorkInv, RetryFindsChannels, NothingIsLeft, vars
<1>5. CleanupsInv'
  BY <1>1, <1>2 DEF AInv, CleanupsInv, CleanupInv, Past, Cleaning, vars
<1>. QED BY <1>4, <1>5

LEMMA AuthorisePreserves ==
  ASSUME IInv, AInv, NEW r \in Runs, NEW recent, NEW operator, Authorise(r, recent, operator)
  PROVE  DataInv' /\ CleanupsInv'
<1>1. /\ run[r] = "new" /\ run' = [run EXCEPT ![r] = "waiting"]
      /\ data' = data /\ at' = at /\ tickets' = tickets
      /\ owner' # "ACTIVE" /\ (owner' = "DELETED" <=> owner = "DELETED")
      /\ \A s \in Runs : s # r => scope'[s] = scope[s]
  BY DEF Authorise, Seal, RunGoes, AInv, AccountTypeOK
<1>2. DataInv'
  BY <1>1 DEF AInv, DataInv, WorkInv, RetryFindsChannels, NothingIsLeft
<1>3. ASSUME NEW s \in Runs PROVE CleanupInv(s)'
  BY <1>1 DEF AInv, CleanupsInv, CleanupInv, Past, Cleaning, IInv, TypeOK
<1>. QED BY <1>2, <1>3 DEF CleanupsInv

-------------------------------------------------------------------------------
(***************************************************************************)
(* The steps of a cleanup.                                                 *)
(***************************************************************************)
LEMMA ReachedAt ==
  ASSUME NEW r \in Runs
  PROVE  /\ at[r] = "uploads" => Reached(r) = {"upload"}
         /\ at[r] = "jobs" => Reached(r) = {"job"}
         /\ at[r] = "channels" => Reached(r) = {"channel"}
         /\ at[r] = "profile" => Reached(r) = {"profile", "channel"}
         /\ at[r] = "media" => Reached(r) = {"media"}
         /\ at[r] = "identity" => Reached(r) = {"identity"}
         /\ at[r] \in {"scope", "sessions", "finish"} => Reached(r) = {}
  BY DEF Reached

\* Taking away a part of what the step is about, or all of it, keeps what a retry needs, and
\* adds nothing.
LEMMA RemovalKeepsData ==
  ASSUME IInv, AInv, NEW r \in Runs, Cleaning(r), NEW S \in Partly(r), data' = data \ S,
         UNCHANGED <<owner, tickets>>
  PROVE  DataInv'
<1> USE DEF AInv, DataInv
<1>1. owner # "ACTIVE" /\ tickets = {} /\ CleanupInv(r)
  BY CleansAlone DEF CleanupsInv
<1>2. at[r] \in Steps /\ (\A i \in S : i \in Reached(r)) /\ ("profile" \in S => "channel" \in S)
  BY DEF AccountTypeOK, Partly
<1>3. "mapping" \in S /\ "mapping" \in data => "channel" \notin data /\ "profile" \notin data
  <2> HAVE "mapping" \in S /\ "mapping" \in data
  <2>1. "mapping" \in Reached(r)
    BY <1>2
  <2>4. at[r] \in {"mapping", "rows"}
    BY <1>2, <2>1, ReachedAt DEF Rows, Steps
  <2>2. CASE at[r] = "mapping"
    BY <2>2, <1>1 DEF CleanupInv, Past
  <2>3. CASE at[r] = "rows"
    BY <2>3, <1>1 DEF CleanupInv, Past, ToMedia
  <2>. QED BY <2>4, <2>2, <2>3
<1>4. RetryFindsChannels'
  BY <1>2, <1>3 DEF RetryFindsChannels
<1>5. ASSUME "identity" \in data, "identity" \in S
      PROVE  data \subseteq {"url", "identity"} \/ data \subseteq {"profile", "identity"}
  <2>1. at[r] = "identity"
    BY <1>2, <1>5 DEF Reached, Rows, Steps
  <2>2. data \subseteq {"url", "profile", "channel", "identity"} /\ "mapping" \notin data
    BY <1>1, <2>1 DEF CleanupInv, Past, ToMedia, Steps, AccountTypeOK, Items
  <2>. QED BY <2>2 DEF RetryFindsChannels
<1>6. NothingIsLeft'
  BY <1>5 DEF NothingIsLeft
<1>7. WorkInv'
  BY <1>1 DEF WorkInv
<1>. QED BY <1>4, <1>6, <1>7

\* As long as a cleanup goes on, what its earlier steps removed stays removed, and the next step
\* finds gone what this one removes.
LEMMA OneCleanup ==
  ASSUME IInv, AInv, NEW r \in Runs, Cleaning(r), UNCHANGED run, CleanupInv(r)',
         \A s \in Runs : s # r => at'[s] = at[s]
  PROVE  CleanupsInv'
<1> SUFFICES ASSUME NEW s \in Runs, s # r PROVE CleanupInv(s)'
  BY DEF CleanupsInv
<1>1. ~Cleaning(s)
  BY CleansAlone
<1>. QED BY <1>1 DEF AInv, CleanupsInv, CleanupInv, Past, Cleaning

\* What a step that removes S leaves, where the next one finds it gone if this one did.
Removed(r, step, S, next) ==
    /\ DataInv' /\ (CleanupInv(r)' => CleanupsInv')
    /\ at[r] = step /\ at'[r] = next /\ scope' = scope /\ run' = run /\ data' = data \ S
    /\ Cleaning(r) /\ Cleaning(r)' /\ CleanupInv(r)

LEMMA RemovesPreserves ==
  ASSUME IInv, AInv, NEW r \in Runs, NEW step \in Steps, NEW next \in Steps, NEW S \in Partly(r),
         Removes(r, step, S, next)
  PROVE  Removed(r, step, S, next)
<1>1. /\ at[r] = step /\ at' = [at EXCEPT ![r] = next] /\ scope' = scope /\ data' = data \ S
      /\ Cleaning(r) /\ UNCHANGED <<owner, tickets, run>>
  BY DEF Removes, Reaches, GoesTo, vars
<1>2. DataInv'
  BY <1>1, RemovalKeepsData
<1>3. CleanupInv(r)' => CleanupsInv'
  BY <1>1, OneCleanup DEF AInv, AccountTypeOK
<1>. QED BY <1>1, <1>2, <1>3 DEF Removed, AInv, AccountTypeOK, CleanupsInv, Cleaning

LEMMA CleanupStepPreserves ==
  ASSUME IInv, AInv, NEW r \in Runs,
         \/ ReadScope(r) \/ StopUploads(r) \/ RemoveJobs(r) \/ Disconnect(r) \/ DeleteProfile(r)
         \/ DropMapping(r) \/ DeleteMedia(r) \/ DeleteRows(r) \/ DeleteIdentity(r)
  PROVE  DataInv' /\ CleanupsInv'
<1>1. CASE ReadScope(r)
  <2> USE DEF CleanupInv, Past, ToMedia
  <2>1. /\ Cleaning(r) /\ at' = [at EXCEPT ![r] = "uploads"] /\ data' = data
        /\ scope' = [scope EXCEPT ![r] = "mapping" \in data]
        /\ UNCHANGED <<owner, tickets, run>>
    BY <1>1 DEF ReadScope, ScopeNow, Reaches, GoesTo, vars
  <2>2. DataInv'
    BY <2>1 DEF AInv, DataInv, WorkInv, RetryFindsChannels, NothingIsLeft
  <2>3. at'[r] = "uploads" /\ (scope'[r] <=> "mapping" \in data) /\ Cleaning(r)'
    BY <2>1 DEF AInv, AccountTypeOK, Cleaning
  <2>4. CleanupInv(r)'
    BY <2>1, <2>3 DEF Cleaning
  <2>. QED BY <2>1, <2>2, <2>4, OneCleanup DEF AInv, AccountTypeOK
<1>2. CASE StopUploads(r)
  <2> USE DEF CleanupInv, Past, ToMedia
  <2>1. /\ Cleaning(r) /\ at[r] = "uploads" /\ at' = [at EXCEPT ![r] = "jobs"] /\ scope' = scope
        /\ UNCHANGED <<owner, tickets, run>>
        /\ \A i \in data' : i = "media" \/ i \in data
        /\ "upload" \notin data' /\ data \ {"upload"} \subseteq data'
        /\ "media" \in data' => "media" \in data \/ "upload" \in data
    BY <1>2 DEF StopUploads, Reaches, GoesTo, vars
  <2>2. owner # "ACTIVE" /\ tickets = {}
    BY <2>1, CleansAlone
  <2>3. DataInv'
    BY <2>1, <2>2 DEF AInv, DataInv, WorkInv, RetryFindsChannels, NothingIsLeft
  <2>4. at'[r] = "jobs" /\ ("mapping" \in data' <=> "mapping" \in data) /\ Cleaning(r)'
    BY <2>1 DEF AInv, AccountTypeOK, Cleaning
  <2>5. CleanupInv(r)'
    BY <2>1, <2>4 DEF AInv, CleanupsInv, Cleaning
  <2>. QED BY <2>1, <2>3, <2>5, OneCleanup DEF AInv, AccountTypeOK
<1>3. CASE RemoveJobs(r)
  <2>1. {"job"} \in Partly(r) /\ at[r] = "jobs"
    BY <1>3 DEF RemoveJobs, Removes, Reaches, Partly, Reached
  <2>2. CASE scope[r]
    <3>1. Removes(r, "jobs", {"job"}, "channels")
      BY <1>3, <2>2 DEF RemoveJobs, JobsFound
    <3>2. Removed(r, "jobs", {"job"}, "channels")
      BY <3>1, <2>1, RemovesPreserves DEF Steps
    <3>. QED BY <3>2 DEF Removed, CleanupInv, Past, ToMedia, Steps
  <2>3. CASE ~scope[r]
    <3>1. Removes(r, "jobs", {"job"}, "media")
      BY <1>3, <2>3 DEF RemoveJobs, JobsFound
    <3>2. Removed(r, "jobs", {"job"}, "media")
      BY <3>1, <2>1, <2>3, RemovesPreserves DEF Steps
    <3>. QED BY <2>3, <3>2 DEF Removed, CleanupInv, Past, ToMedia, Steps
  <2>. QED BY <2>2, <2>3
<1>4. CASE Disconnect(r)
  <2>1. Removes(r, "channels", {"channel"}, "profile") /\ {"channel"} \in Partly(r)
    BY <1>4 DEF Disconnect, Removes, Reaches, Partly, Reached
  <2>2. Removed(r, "channels", {"channel"}, "profile")
    BY <2>1, RemovesPreserves DEF Steps
  <2>. QED BY <2>2 DEF Removed, CleanupInv, Past, ToMedia, Steps
<1>5. CASE DeleteProfile(r)
  <2>1. Removes(r, "profile", {"profile", "channel"}, "mapping") /\ {"profile", "channel"} \in Partly(r)
    BY <1>5 DEF DeleteProfile, Removes, Reaches, Partly, Reached
  <2>2. Removed(r, "profile", {"profile", "channel"}, "mapping")
    BY <2>1, RemovesPreserves DEF Steps
  <2>. QED BY <2>2 DEF Removed, CleanupInv, Past, ToMedia, Steps
<1>6. CASE DropMapping(r)
  <2>1. Removes(r, "mapping", {"mapping"}, "media") /\ {"mapping"} \in Partly(r)
    BY <1>6 DEF DropMapping, Removes, Reaches, Partly, Reached
  <2>2. Removed(r, "mapping", {"mapping"}, "media")
    BY <2>1, RemovesPreserves DEF Steps
  <2>. QED BY <2>2 DEF Removed, CleanupInv, Past, ToMedia, Steps
<1>7. CASE DeleteMedia(r)
  <2>1. Removes(r, "media", {"media"}, "rows") /\ {"media"} \in Partly(r)
    BY <1>7 DEF DeleteMedia, Removes, Reaches, Partly, Reached
  <2>2. Removed(r, "media", {"media"}, "rows")
    BY <2>1, RemovesPreserves DEF Steps
  <2>. QED BY <2>2 DEF Removed, CleanupInv, Past, ToMedia, Steps
<1>8. CASE DeleteRows(r)
  <2>1. Removes(r, "rows", Rows, "identity") /\ Rows \in Partly(r)
    BY <1>8 DEF DeleteRows, Removes, Reaches, Partly, Reached, Rows
  <2>2. Removed(r, "rows", Rows, "identity")
    BY <2>1, RemovesPreserves DEF Steps, Rows
  <2>. QED BY <2>2 DEF Removed, CleanupInv, Past, ToMedia, Steps, Rows
<1>9. CASE DeleteIdentity(r)
  <2>1. Removes(r, "identity", {"identity"}, "sessions") /\ {"identity"} \in Partly(r)
    BY <1>9 DEF DeleteIdentity, Removes, Reaches, Partly, Reached
  <2>2. Removed(r, "identity", {"identity"}, "sessions")
    BY <2>1, RemovesPreserves DEF Steps
  <2>. QED BY <2>2 DEF Removed, CleanupInv, Past, ToMedia, Steps
<1>. QED BY <1>1, <1>2, <1>3, <1>4, <1>5, <1>6, <1>7, <1>8, <1>9

\* The tombstone is written when nothing is left.
LEMMA EndPreserves ==
  ASSUME IInv, AInv, NEW r \in Runs, FinishSessions(r) \/ FinishDeletion(r)
  PROVE  DataInv' /\ CleanupsInv'
<1>1. /\ Cleaning(r) /\ at[r] \in {"sessions", "finish"}
      /\ owner' = "DELETED" /\ tickets' = tickets /\ data' = data /\ scope' = scope
      /\ \A s \in Runs : s # r => at'[s] = at[s] /\ run'[s] = run[s]
      /\ Cleaning(r)' => at'[r] = "finish"
      /\ run'[r] \notin {"new", "waiting"}
  BY DEF FinishSessions, FinishDeletion, Finish, Reaches, RunGoes, accountVars, AInv,
         AccountTypeOK, Cleaning, IInv, TypeOK
<1>2. tickets = {} /\ CleanupInv(r) /\ \A s \in Runs : Cleaning(s) => s = r
  BY <1>1, CleansAlone DEF AInv, CleanupsInv
<1>3. data \subseteq {"url", "profile", "channel"} /\ "mapping" \notin data
  BY <1>1, <1>2 DEF CleanupInv, Past, ToMedia, Steps, AInv, AccountTypeOK, Items
<1>4. DataInv'
  BY <1>1, <1>2, <1>3 DEF AInv, DataInv, WorkInv, RetryFindsChannels, NothingIsLeft
<1>5. CleanupInv(r)'
  BY <1>1, <1>2, <1>3 DEF CleanupInv, Past, ToMedia, Cleaning, Steps
<1>6. ASSUME NEW s \in Runs, s # r PROVE CleanupInv(s)'
  BY <1>1, <1>2, <1>6 DEF AInv, CleanupsInv, CleanupInv, Past, Cleaning
<1>. QED BY <1>4, <1>5, <1>6 DEF CleanupsInv

\* A step that fails, and a process that stops under it, end the cleanup.
LEMMA FailurePreserves ==
  ASSUME IInv, AInv, (\E r \in Runs : Fails(r)) \/ (\E q \in Processes : Stops(q))
  PROVE  DataInv' /\ CleanupsInv'
<1>1. ASSUME NEW r \in Runs, Fails(r) PROVE DataInv' /\ CleanupsInv'
  <2>1. /\ Cleaning(r) /\ UNCHANGED <<owner, tickets, scope, at>>
        /\ run' = [run EXCEPT ![r] = "releasing"]
    BY <1>1 DEF Fails, CleanupFails, RunGoes, Cleaning
  <2>2. DataInv'
    BY <1>1, <2>1, RemovalKeepsData DEF Fails
  <2>3. ASSUME NEW s \in Runs PROVE ~Cleaning(s)' /\ (run'[s] \in {"new", "waiting"} => run[s] = run'[s])
    BY <2>1, CleansAlone DEF Cleaning, IInv, TypeOK
  <2>4. CleanupsInv'
    BY <2>1, <2>3 DEF AInv, CleanupsInv, CleanupInv, Past
  <2>. QED BY <2>2, <2>4
<1>2. ASSUME NEW q \in Processes, Stops(q) PROVE DataInv' /\ CleanupsInv'
  <2>1. /\ UNCHANGED <<owner, tickets, scope, at>>
        /\ run' = [r \in Runs |-> IF ProcessOf[r] = q /\ run[r] # "new" THEN "done" ELSE run[r]]
    BY <1>2 DEF Stops, Crash
  <2>2. \A s \in Runs : /\ Cleaning(s)' => Cleaning(s) /\ ProcessOf[s] # q
                        /\ run'[s] \in {"new", "waiting"} => run[s] = run'[s]
    BY <2>1 DEF Cleaning
  <2>3. CASE UNCHANGED data
    BY <2>1, <2>2, <2>3 DEF AInv, DataInv, WorkInv, RetryFindsChannels, NothingIsLeft, CleanupsInv,
                            CleanupInv, Past
  <2>4. ASSUME NEW r \in Runs, ProcessOf[r] = q, Cleaning(r), NEW S \in Partly(r), data' = data \ S
        PROVE  DataInv' /\ CleanupsInv'
    <3>1. DataInv'
      BY <2>1, <2>4, RemovalKeepsData
    <3>2. \A s \in Runs : ~Cleaning(s)'
      BY <2>2, <2>4, CleansAlone
    <3>3. CleanupsInv'
      BY <2>1, <2>2, <3>2 DEF AInv, CleanupsInv, CleanupInv, Past
    <3>. QED BY <3>1, <3>3
  <2>. QED BY <1>2, <2>3, <2>4 DEF Stops
<1>. QED BY <1>1, <1>2

LEMMA AccountPreserves == IInv /\ AInv /\ [AccountNext]_allVars => DataInv' /\ CleanupsInv'
<1> SUFFICES ASSUME IInv, AInv, [AccountNext]_allVars PROVE DataInv' /\ CleanupsInv'
  OBVIOUS
<1>1. ASSUME NEW r \in Runs, DeletionStep(r) PROVE DataInv' /\ CleanupsInv'
  BY <1>1, AuthorisePreserves, CoordinationPreserves, CleanupStepPreserves, EndPreserves,
     FailurePreserves DEF DeletionStep, Claim, ClaimFails, Releases
<1>2. CASE \/ \E op \in Ops : OpStep(op) /\ UNCHANGED accountVars
           \/ ReconcileClaim /\ UNCHANGED accountVars
           \/ UNCHANGED allVars
  BY <1>2, CoordinationPreserves DEF allVars
<1>. QED BY <1>1, <1>2, WorkPreserves, LinkPreserves, FailurePreserves DEF AccountNext

\* The inductive invariant: every step of a cleanup finds gone what the earlier steps removed,
\* and the owner's work, while it goes on, leaves a connect URL only together with its mapping.
THEOREM AccountInvariance == AccountSpec => [](DataInv /\ CleanupsInv)
<1>1. IInv /\ AccountTypeOK /\ DataInv /\ CleanupsInv /\ [AccountNext]_allVars
        => (DataInv /\ CleanupsInv)'
  BY AccountPreserves DEF AInv
<1>. QED BY <1>1, AccountInitInv, AccountLifecycle, AccountTypeCorrect, PTL DEF AccountSpec

\* As long as the provider has a channel of the account, or an open browser may still link one,
\* our row that names the profile is kept: a retry finds it, whatever failed or stopped before.
THEOREM RetryIsPossible == AccountSpec => []RetryFindsChannels
<1>1. DataInv => RetryFindsChannels
  BY DEF DataInv
<1>. QED BY <1>1, AccountInvariance, PTL

\* Of an owner who is deleted, or who cannot sign in to ask again, nothing is left in any store
\* and nothing comes back.
THEOREM NothingComesBack == AccountSpec => []NothingIsLeft
<1>1. DataInv => NothingIsLeft
  BY DEF DataInv
<1>. QED BY <1>1, AccountInvariance, PTL
=========================================================================
