----------------------------- MODULE DuePostPoll -----------------------------
(***************************************************************************)
(* How the scheduler walks the due posts of all owners (runOnce and        *)
(* listDue): batches in id order, a bounded pool within a batch, and a     *)
(* cursor that outlives the poll.  What happens to one post is abstracted  *)
(* to whether it leaves the due list (PublishScheduler has that part): the *)
(* post of an owner who is being deleted, or whose attempt fails before    *)
(* the provider, stays.                                                    *)
(***************************************************************************)
EXTENDS Integers, FiniteSets, FiniteSetsExt

CONSTANTS
    LastId,       \* posts are 1..LastId, in the order of their ids
    BatchSize,    \* maxDuePostsPerPoll
    MaxBatches,   \* maxDueBatchesPerPoll
    Pool,         \* maxConcurrentPublishes
    Stuck,        \* posts whose owner is being deleted: they stay due
    MaxExits      \* bound: exits of the process

Ids == 1..LastId

ASSUME PollAssumption ==
    /\ LastId \in Nat \ {0} /\ BatchSize \in Nat \ {0} /\ MaxBatches \in Nat \ {0}
    /\ Pool \in Nat \ {0} /\ Stuck \subseteq Ids /\ MaxExits \in Nat

VARIABLES
    due,        \* PostgreSQL: the posts listDue can return
    cursor,     \* dueCursor, 0 for undefined
    polling,    \* activeRun
    atNow,      \* the posts this poll can see: due at pollNow, or created since to run now
    batches,    \* batches begun in this poll
    list,       \* duePosts from nextIndex on
    whole,      \* the batch was a full one
    busy,       \* posts the pool is working on
    stopped,
    exits

vars == <<due, cursor, polling, atNow, batches, list, whole, busy, stopped, exits>>

\* Types: a poll begins at most MaxBatches batches, the pool is never exceeded.
TypeOK ==
    /\ due \subseteq Ids /\ cursor \in 0..LastId /\ polling \in BOOLEAN
    /\ atNow \subseteq Ids /\ batches \in 0..MaxBatches
    /\ list \subseteq Ids /\ Cardinality(list) <= BatchSize /\ whole \in BOOLEAN
    /\ busy \subseteq Ids /\ Cardinality(busy) <= Pool
    /\ stopped \in BOOLEAN
    /\ exits \in 0..MaxExits

Init ==
    /\ due \in SUBSET Ids
    /\ cursor = 0 /\ polling = FALSE /\ atNow = {} /\ batches = 0
    /\ list = {} /\ whole = FALSE /\ busy = {} /\ stopped = FALSE
    /\ exits = 0

-------------------------------------------------------------------------------
StartPoll ==
    /\ ~stopped /\ ~polling
    /\ polling' = TRUE /\ atNow' = due /\ batches' = 0 /\ list' = {} /\ whole' = TRUE
    /\ UNCHANGED <<due, cursor, busy, stopped, exits>>

FromStart == 0
ResumeAfter == cursor

\* The BatchSize first ones of the posts behind the cursor.
After(c, S)  == {p \in S : p > c}
Batch(S)     == {p \in S : Cardinality({q \in S : q < p}) < BatchSize}

\* Between two batches: the last one was full, the pool is done with it.
ReadBatch ==
    /\ polling /\ list = {} /\ busy = {} /\ whole /\ batches < MaxBatches /\ ~stopped
    /\ LET found == Batch(After(ResumeAfter, due \cap atNow))
       IN  /\ list' = found
           /\ whole' = (Cardinality(found) = BatchSize)
    /\ batches' = batches + 1
    /\ UNCHANGED <<due, cursor, polling, atNow, busy, stopped, exits>>

\* The read throws: the poll ends, the cursor stays.
ReadFails ==
    /\ polling /\ list = {} /\ busy = {} /\ whole /\ batches < MaxBatches /\ ~stopped
    /\ polling' = FALSE /\ atNow' = {} /\ batches' = 0 /\ whole' = FALSE
    /\ UNCHANGED <<due, cursor, list, busy, stopped, exits>>

\* A free place of the pool takes the next post of the batch, in order.
Take(p) ==
    /\ ~stopped /\ p \in list /\ p = Min(list) /\ Cardinality(busy) < Pool
    /\ list' = list \ {p} /\ busy' = busy \cup {p} /\ cursor' = p
    /\ UNCHANGED <<due, polling, atNow, batches, whole, stopped, exits>>

\* The attempt ends.  A post that could not be attempted, or was put back, is still due.
EndAttempt(p, stays) ==
    /\ p \in busy /\ busy' = busy \ {p}
    /\ (p \in Stuck => stays)
    /\ due' = IF stays THEN due ELSE due \ {p}
    /\ UNCHANGED <<cursor, polling, atNow, batches, list, whole, stopped, exits>>

\* The batch was short: the walk begins anew at the next poll.
EndWalk ==
    /\ polling /\ busy = {} /\ (list = {} \/ stopped) /\ batches > 0 /\ ~whole
    /\ polling' = FALSE /\ cursor' = 0 /\ list' = {} /\ atNow' = {} /\ batches' = 0
    /\ UNCHANGED <<due, whole, busy, stopped, exits>>

\* The last batch of a poll was full, or the scheduler was stopped: the walk goes on later.
EndPoll ==
    /\ polling /\ busy = {} /\ (list = {} \/ stopped) /\ whole
    /\ batches = MaxBatches \/ stopped
    /\ polling' = FALSE /\ list' = {} /\ whole' = FALSE /\ atNow' = {} /\ batches' = 0
    /\ UNCHANGED <<due, cursor, busy, stopped, exits>>

Poll == StartPoll \/ ReadBatch \/ EndWalk \/ EndPoll \/ \E p \in Ids : Take(p)

-------------------------------------------------------------------------------
\* Owners: a post is created, comes due, is put off or cancelled, also while the poll has it listed.
BecomesDue(p) ==
    /\ p \notin due /\ due' = due \cup {p}
    /\ atNow' \in (IF polling THEN {atNow, atNow \cup {p}} ELSE {atNow})
    /\ UNCHANGED <<cursor, polling, batches, list, whole, busy, stopped, exits>>

Withdrawn(p) ==
    /\ p \in due \ busy /\ due' = due \ {p}
    /\ UNCHANGED <<cursor, polling, atNow, batches, list, whole, busy, stopped, exits>>

\* stop(): the pool takes nothing more; the process ends once it has drained.
Stop ==
    /\ ~stopped /\ exits < MaxExits /\ stopped' = TRUE /\ exits' = exits + 1
    /\ UNCHANGED <<due, cursor, polling, atNow, batches, list, whole, busy>>

\* A new process begins the walk anew, after an orderly exit or a crash.
Restart ==
    /\ \/ stopped /\ ~polling /\ exits' = exits
       \/ exits < MaxExits /\ exits' = exits + 1
    /\ stopped' = FALSE /\ polling' = FALSE /\ cursor' = 0 /\ atNow' = {} /\ batches' = 0
    /\ list' = {} /\ whole' = FALSE /\ busy' = {}
    /\ UNCHANGED due

Next ==
    \/ Poll \/ ReadFails \/ Stop \/ Restart
    \/ \E p \in Ids : BecomesDue(p) \/ Withdrawn(p) \/ \E stays \in BOOLEAN : EndAttempt(p, stays)

Spec == Init /\ [][Next]_vars

\* The poll timer fires, awaits return, the process manager restarts, and the database does not
\* fail every read of a walk.  A post whose owner is not being deleted can be attempted: among the
\* attempts of a post one in the end does not put it back.
Fairness ==
    /\ WF_vars(StartPoll) /\ SF_vars(ReadBatch) /\ WF_vars(EndWalk) /\ WF_vars(EndPoll)
    /\ WF_vars(stopped /\ Restart)
    /\ \A p \in Ids : /\ WF_vars(Take(p)) /\ WF_vars(\E stays \in BOOLEAN : EndAttempt(p, stays))
                      /\ p \notin Stuck => SF_vars(EndAttempt(p, FALSE))

FairSpec == Spec /\ Fairness

-------------------------------------------------------------------------------
(***************************************************************************)
(* Correctness.                                                            *)
(***************************************************************************)
\* A post that can be attempted does not wait for ever behind posts that stay due.
NoStarvation == \A p \in Ids \ Stuck : p \in due ~> p \notin due
===============================================================================
