-------------------------- MODULE ManagedUpload_proofs -------------------------
(***************************************************************************)
(* The safety of ManagedUpload, from one inductive invariant.              *)
(***************************************************************************)
EXTENDS ManagedUpload, TLAPS

Creating == {"insert", "undo"}
Serving  == Steps \ {"idle", "insert", "undo"}

\* What a request may rely on between two of its steps.
CallInv == \A c \in Calls :
    /\ pc[c] \in Creating => on[c] \notin known /\ store[on[c]] # "none"
    /\ pc[c] = "insert" => row[on[c]] = "none"
    /\ pc[c] = "insert" /\ owner = "ACTIVE" => store[on[c]] = "open"
    /\ pc[c] \in Serving => on[c] \in known
    /\ pc[c] = "mark" => store[on[c]] = "object"
    /\ pc[c] = "discard" /\ owner = "ACTIVE" => row[on[c]] = "ABORTED"
    /\ pc[c] = "begin" => time[c] >= now - Grace

\* Two creations never work on the same upload.
PairInv == \A c, d \in Calls :
    c # d /\ pc[c] \in Creating /\ pc[d] \in Creating => on[c] # on[d]

\* A session has an upload, and only an answered one is completed.
RowInv == \A s \in Sessions :
    /\ row[s] # "none" \/ s \in known => store[s] # "none"
    /\ row[s] \in {"COMPLETING", "COMPLETED"} => s \in known

\* The rows of an active owner against the store.
ActiveInv == owner = "ACTIVE" => \A s \in Sessions :
    /\ row[s] = "COMPLETED" => store[s] = "object"
    /\ row[s] = "COMPLETING" => store[s] \in {"open", "object"}
    /\ row[s] = "UPLOADING" /\ s \in known /\ expiresAt[s] > now - Grace
         => store[s] \in {"open", "object"}

\* What the sweeper has in hand expired a grace ago and is not being completed.
SweepInv == \A s \in Sessions : s \in listed \/ s = retiring =>
    /\ store[s] # "none" /\ expiresAt[s] <= now - Grace
    /\ owner = "ACTIVE" => row[s] \in {"UPLOADING", "ABORTED"}
    /\ s = retiring => store[s] # "open"

\* A cleanup runs alone; what each of its steps has left behind.
CleanInv ==
    /\ cleanup # "no" => owner = "DELETING"
    /\ cleanup # "no" \/ owner = "DELETED" => \A c \in Calls : pc[c] = "idle"
    /\ cleanup \in {"media", "finish"} \/ owner = "DELETED" => \A s \in Sessions : store[s] # "open"
    /\ cleanup = "finish" \/ owner = "DELETED" => \A s \in Sessions : store[s] # "object"

\* Who answers for an open upload.
LeakInv == faults = 0 /\ exits = 0 => \A s \in Sessions : store[s] = "open" =>
    \/ row[s] \in {"UPLOADING", "COMPLETING"}
    \/ \E c \in Calls : pc[c] \in {"insert", "undo", "discard"} /\ on[c] = s

\* The inductive invariant.
IInv == TypeOK /\ CallInv /\ PairInv /\ RowInv /\ ActiveInv /\ SweepInv /\ CleanInv /\ LeakInv

-------------------------------------------------------------------------------
(***************************************************************************)
(* The types of a request at each of its steps.                            *)
(***************************************************************************)
RequestTypes ==
    /\ pc \in [Calls -> Steps] /\ on \in [Calls -> Sessions \cup {None}]
    /\ time \in [Calls -> Times] /\ threw \in [Calls -> BOOLEAN] /\ kept \in BOOLEAN
    /\ \A c \in Calls : pc[c] # "idle" => on[c] \in Sessions

\* A request that answers keeps the types.
LEMMA EndsTypes == ASSUME TypeOK, NEW c \in Calls, NEW error \in BOOLEAN, Ends(c, error) PROVE RequestTypes'
  BY UploadAssumption DEF TypeOK, RequestTypes, Ends, Steps, Times

\* So does one that goes on to a next step.
LEMMA GoesTypes == ASSUME TypeOK, NEW c \in Calls, pc[c] # "idle", NEW step \in Steps, Goes(c, step)
                  PROVE RequestTypes'
  BY DEF TypeOK, RequestTypes, Goes

\* So does one that starts.
LEMMA StartsTypes == ASSUME TypeOK, NEW c \in Calls, NEW s \in Sessions, NEW step \in Steps, Starts(c, s, step)
                     PROVE RequestTypes'
  BY DEF TypeOK, RequestTypes, Starts

-------------------------------------------------------------------------------
(***************************************************************************)
(* Each action keeps the invariant.                                        *)
(***************************************************************************)
\* A creation starts with an upload that nobody else works on.
LEMMA CreateUploadKeeps == ASSUME NEW c \in Calls, NEW s \in Sessions, IInv, CreateUpload(c, s)
                        PROVE IInv'
<1>1. TypeOK'
  <2>1. RequestTypes'
    BY StartsTypes DEF IInv, TypeOK, CreateUpload, RequestTypes, Steps
  <2> QED BY <2>1, UploadAssumption DEF IInv, TypeOK, RequestTypes, CreateUpload, session, sweeper,
         env, NoFault, Fault
<1>2. CallInv'
  BY DEF IInv, TypeOK, CallInv, RowInv, CreateUpload, Starts, session, env, Creating, Serving
<1>3. PairInv'
  BY DEF IInv, TypeOK, CallInv, PairInv, CreateUpload, Starts
<1>4. RowInv'
  BY DEF IInv, TypeOK, RowInv, CreateUpload, session
<1>5. ActiveInv'
  BY DEF IInv, TypeOK, ActiveInv, CreateUpload, session, env
<1>6. SweepInv'
  BY DEF IInv, TypeOK, SweepInv, CreateUpload, session, sweeper, env
<1>7. CleanInv'
  BY DEF IInv, CleanInv, CreateUpload, Starts
<1>8. LeakInv'
  BY DEF IInv, TypeOK, LeakInv, CreateUpload, Starts, session, env, NoFault, Fault
<1> QED BY <1>1, <1>2, <1>3, <1>4, <1>5, <1>6, <1>7, <1>8 DEF IInv

\* The row is inserted under an id that no other request, no client and no sweep knows.
LEMMA InsertKeeps == ASSUME NEW c \in Calls, IInv, Insert(c) PROVE IInv'
<1>1. TypeOK'
  <2>1. RequestTypes'
    BY EndsTypes DEF IInv, TypeOK, Insert, Returns, RequestTypes, Steps
  <2> QED BY <2>1, UploadAssumption DEF IInv, TypeOK, RequestTypes, Insert, SetRow, Status, Times,
         session, sweeper, env, NoFault, Fault
<1>2. CallInv'
  BY DEF IInv, TypeOK, CallInv, PairInv, Insert, SetRow, Ends, Returns, session, env, Creating,
         Serving
<1>3. PairInv'
  BY DEF IInv, TypeOK, PairInv, Insert, Ends, Returns, Creating
<1>4. RowInv'
  BY DEF IInv, TypeOK, CallInv, RowInv, Insert, SetRow, MayCreate, session
<1>5. ActiveInv'
  BY DEF IInv, TypeOK, CallInv, ActiveInv, Insert, SetRow, session, env
<1>6. SweepInv'
  BY DEF IInv, TypeOK, CallInv, SweepInv, Insert, SetRow, MayCreate, session, sweeper, env
<1>7. CleanInv'
  BY DEF IInv, CleanInv, Insert
<1>8. LeakInv'
  BY DEF IInv, TypeOK, LeakInv, Insert, SetRow, Ends, Returns, session, env, NoFault, Fault
<1> QED BY <1>1, <1>2, <1>3, <1>4, <1>5, <1>6, <1>7, <1>8 DEF IInv

\* Only the creation itself answers for the upload of a refused session.
LEMMA UndoKeeps == ASSUME NEW c \in Calls, IInv, Undo(c) PROVE IInv'
<1>1. TypeOK'
  BY UploadAssumption DEF IInv, TypeOK, Undo, AbortUpload, Aborted, Ends, session, sweeper, env,
         NoFault, Fault, Steps, Times
<1>2. CallInv'
  BY DEF IInv, TypeOK, CallInv, PairInv, Undo, AbortUpload, Aborted, Ends, session, env, Creating,
         Serving
<1>3. PairInv'
  BY DEF IInv, TypeOK, PairInv, Undo, Ends, Creating
<1>4. RowInv'
  BY DEF IInv, RowInv, Undo, AbortUpload, Aborted, session
<1>5. ActiveInv'
  BY DEF IInv, CallInv, RowInv, ActiveInv, Undo, AbortUpload, Aborted, session, env, Creating
<1>6. SweepInv'
  BY DEF IInv, SweepInv, Undo, AbortUpload, Aborted, session, sweeper, env
<1>7. CleanInv'
  BY DEF IInv, CleanInv, Undo
<1>8. LeakInv'
  BY DEF IInv, TypeOK, LeakInv, Undo, AbortUpload, Aborted, Ends, session, env, NoFault, Fault
<1> QED BY <1>1, <1>2, <1>3, <1>4, <1>5, <1>6, <1>7, <1>8 DEF IInv

\* A completion starts with what the row said.
LEMMA CompleteKeeps == ASSUME NEW c \in Calls, NEW s \in Sessions, IInv, Complete(c, s) PROVE IInv'
<1>1. TypeOK'
  BY DEF IInv, TypeOK, Complete, Starts, session, sweeper, env, Steps
<1>2. CallInv'
  BY UploadAssumption DEF IInv, TypeOK, CallInv, Complete, Starts, session, env, Times, Creating
<1>3. PairInv'
  BY DEF IInv, PairInv, Complete, Starts, Creating
<1>4. RowInv'
  BY DEF IInv, RowInv, Complete, session
<1>5. ActiveInv'
  BY DEF IInv, ActiveInv, Complete, session, env
<1>6. SweepInv'
  BY DEF IInv, SweepInv, Complete, session, sweeper, env
<1>7. CleanInv'
  BY DEF IInv, CleanInv, Complete, Starts
<1>8. LeakInv'
  BY DEF IInv, LeakInv, Complete, Starts, session, env
<1> QED BY <1>1, <1>2, <1>3, <1>4, <1>5, <1>6, <1>7, <1>8 DEF IInv

\* So does a read.
LEMMA GetKeeps == ASSUME NEW c \in Calls, NEW s \in Sessions, IInv, Get(c, s) PROVE IInv'
<1>1. TypeOK'
  BY DEF IInv, TypeOK, Get, Starts, session, sweeper, env, Steps
<1>2. CallInv'
  BY DEF IInv, TypeOK, CallInv, Get, Starts, session, env, Creating
<1>3. PairInv'
  BY DEF IInv, PairInv, Get, Starts, Creating
<1>4. RowInv'
  BY DEF IInv, RowInv, Get, session
<1>5. ActiveInv'
  BY DEF IInv, ActiveInv, Get, session, env
<1>6. SweepInv'
  BY DEF IInv, SweepInv, Get, session, sweeper, env
<1>7. CleanInv'
  BY DEF IInv, CleanInv, Get, Starts
<1>8. LeakInv'
  BY DEF IInv, LeakInv, Get, Starts, session, env
<1> QED BY <1>1, <1>2, <1>3, <1>4, <1>5, <1>6, <1>7, <1>8 DEF IInv

\* The row that begins is not expired by the request's clock, so no sweep has it in hand.
LEMMA BeginCompletionKeeps == ASSUME NEW c \in Calls, IInv, BeginCompletion(c) PROVE IInv'
<1>1. TypeOK'
  <2>1. RequestTypes'
    BY EndsTypes, GoesTypes DEF IInv, BeginCompletion, Returns, Throws, Steps
  <2> QED BY <2>1, UploadAssumption DEF IInv, TypeOK, RequestTypes, BeginCompletion, Completable,
         SetRow, Status, Times, session, sweeper, env, NoFault, Fault
<1>2. CallInv'
  BY DEF IInv, TypeOK, CallInv, BeginCompletion, Completable, SetRow, Goes, Ends, Returns, Throws,
         session, env, Creating, Serving
<1>3. PairInv'
  BY DEF IInv, TypeOK, PairInv, BeginCompletion, Goes, Ends, Returns, Throws, Creating
<1>4. RowInv'
  BY DEF IInv, TypeOK, CallInv, RowInv, BeginCompletion, SetRow, session, Serving
<1>5. ActiveInv'
  BY UploadAssumption DEF IInv, TypeOK, CallInv, ActiveInv, BeginCompletion, Completable, SetRow,
         Ends, session, env, Times, Serving
<1>6. SweepInv'
  BY UploadAssumption DEF IInv, TypeOK, CallInv, SweepInv, BeginCompletion, Completable, SetRow,
         Ends, session, sweeper, env, Times
<1>7. CleanInv'
  BY DEF IInv, CleanInv, BeginCompletion
<1>8. LeakInv'
  BY DEF IInv, TypeOK, LeakInv, BeginCompletion, SetRow, Goes, Ends, Returns, session, env, NoFault,
         Fault
<1> QED BY <1>1, <1>2, <1>3, <1>4, <1>5, <1>6, <1>7, <1>8 DEF IInv

\* Only a completion turns an upload into an object.
LEMMA AssembleKeeps == ASSUME NEW c \in Calls, IInv, Assemble(c) PROVE IInv'
<1>1. TypeOK'
  <2>1. RequestTypes'
    BY EndsTypes, GoesTypes DEF IInv, Assemble, Throws, Steps
  <2> QED BY <2>1, UploadAssumption DEF IInv, TypeOK, RequestTypes, Assemble, session, sweeper, env,
         NoFault, Fault
<1>2. CallInv'
  BY DEF IInv, TypeOK, CallInv, Assemble, Goes, Ends, Throws, session, env, Creating, Serving
<1>3. PairInv'
  BY DEF IInv, TypeOK, PairInv, Assemble, Goes, Ends, Throws, Creating
<1>4. RowInv'
  BY DEF IInv, TypeOK, RowInv, Assemble, session
<1>5. ActiveInv'
  BY DEF IInv, TypeOK, ActiveInv, Assemble, session, env
<1>6. SweepInv'
  BY DEF IInv, TypeOK, SweepInv, Assemble, session, sweeper, env
<1>7. CleanInv'
  BY DEF IInv, CleanInv, Assemble
<1>8. LeakInv'
  BY DEF IInv, TypeOK, LeakInv, Assemble, Goes, Ends, Throws, session, env, NoFault, Fault
<1> QED BY <1>1, <1>2, <1>3, <1>4, <1>5, <1>6, <1>7, <1>8 DEF IInv

\* A request that marks has seen the object, and nobody takes objects from an active owner.
LEMMA MarkCompletedKeeps == ASSUME NEW c \in Calls, IInv, MarkCompleted(c) PROVE IInv'
<1>1. TypeOK'
  <2>1. RequestTypes'
    BY EndsTypes, GoesTypes DEF IInv, MarkCompleted, Returns, Throws, Steps
  <2> QED BY <2>1, UploadAssumption DEF IInv, TypeOK, RequestTypes, MarkCompleted, SetRow, Status,
         session, sweeper, env, NoFault, Fault
<1>2. CallInv'
  BY DEF IInv, TypeOK, CallInv, MarkCompleted, Markable, SetRow, Ends, Returns, Throws, env,
         Creating, Serving
<1>3. PairInv'
  BY DEF IInv, TypeOK, PairInv, MarkCompleted, Ends, Returns, Throws, Creating
<1>4. RowInv'
  BY DEF IInv, TypeOK, RowInv, MarkCompleted, Markable, SetRow
<1>5. ActiveInv'
  BY DEF IInv, TypeOK, CallInv, ActiveInv, MarkCompleted, SetRow, env
<1>6. SweepInv'
  BY DEF IInv, TypeOK, SweepInv, MarkCompleted, Markable, SetRow, sweeper, env
<1>7. CleanInv'
  BY DEF IInv, CleanInv, MarkCompleted
<1>8. LeakInv'
  BY DEF IInv, TypeOK, CallInv, LeakInv, MarkCompleted, SetRow, Ends, Returns, env, NoFault, Fault
<1> QED BY <1>1, <1>2, <1>3, <1>4, <1>5, <1>6, <1>7, <1>8 DEF IInv

\* A request goes on to mark only when it sees the object.
LEMMA HeadKeeps == ASSUME NEW c \in Calls, IInv, Head(c) PROVE IInv'
<1>1. TypeOK'
  <2>1. RequestTypes'
    BY EndsTypes, GoesTypes DEF IInv, Head, Returns, Throws, Steps
  <2> QED BY <2>1, UploadAssumption DEF IInv, TypeOK, RequestTypes, Head, session, sweeper, env,
         NoFault, Fault
<1>2. CallInv'
  BY DEF IInv, TypeOK, CallInv, Head, Whole, Goes, Ends, Returns, Throws, session, env, Creating,
         Serving
<1>3. PairInv'
  BY DEF IInv, TypeOK, PairInv, Head, Goes, Ends, Returns, Throws, Creating
<1>4. RowInv'
  BY DEF IInv, RowInv, Head, session
<1>5. ActiveInv'
  BY DEF IInv, ActiveInv, Head, session, env
<1>6. SweepInv'
  BY DEF IInv, SweepInv, Head, session, sweeper, env
<1>7. CleanInv'
  BY DEF IInv, CleanInv, Head
<1>8. LeakInv'
  BY DEF IInv, TypeOK, LeakInv, Head, Goes, Ends, Returns, session, env, NoFault, Fault
<1> QED BY <1>1, <1>2, <1>3, <1>4, <1>5, <1>6, <1>7, <1>8 DEF IInv

\* An abort starts with what the row said.
LEMMA AbortKeeps == ASSUME NEW c \in Calls, NEW s \in Sessions, IInv, Abort(c, s) PROVE IInv'
<1>1. TypeOK'
  BY DEF IInv, TypeOK, Abort, Starts, session, sweeper, env, Steps
<1>2. CallInv'
  BY DEF IInv, TypeOK, CallInv, Abort, Starts, session, env, Creating
<1>3. PairInv'
  BY DEF IInv, PairInv, Abort, Starts, Creating
<1>4. RowInv'
  BY DEF IInv, RowInv, Abort, session
<1>5. ActiveInv'
  BY DEF IInv, ActiveInv, Abort, session, env
<1>6. SweepInv'
  BY DEF IInv, SweepInv, Abort, session, sweeper, env
<1>7. CleanInv'
  BY DEF IInv, CleanInv, Abort, Starts
<1>8. LeakInv'
  BY DEF IInv, LeakInv, Abort, Starts, session, env
<1> QED BY <1>1, <1>2, <1>3, <1>4, <1>5, <1>6, <1>7, <1>8 DEF IInv

\* The row decides again: what is completing or completed is not aborted.
LEMMA BeginAbortKeeps == ASSUME NEW c \in Calls, IInv, BeginAbort(c) PROVE IInv'
<1>1. TypeOK'
  <2>1. RequestTypes'
    BY EndsTypes, GoesTypes DEF IInv, BeginAbort, Returns, Throws, Steps
  <2> QED BY <2>1, UploadAssumption DEF IInv, TypeOK, RequestTypes, BeginAbort, SetRow, Status,
         session, sweeper, env, NoFault, Fault
<1>2. CallInv'
  BY DEF IInv, TypeOK, CallInv, BeginAbort, SetRow, Goes, Ends, Returns, Throws, env, Creating,
         Serving
<1>3. PairInv'
  BY DEF IInv, TypeOK, PairInv, BeginAbort, Goes, Ends, Returns, Throws, Creating
<1>4. RowInv'
  BY DEF IInv, TypeOK, RowInv, BeginAbort, Abortable, SetRow
<1>5. ActiveInv'
  BY DEF IInv, TypeOK, ActiveInv, BeginAbort, SetRow, env
<1>6. SweepInv'
  BY DEF IInv, TypeOK, SweepInv, BeginAbort, SetRow, sweeper, env
<1>7. CleanInv'
  BY DEF IInv, CleanInv, BeginAbort
<1>8. LeakInv'
  BY DEF IInv, TypeOK, LeakInv, BeginAbort, SetRow, Goes, Ends, Returns, env, NoFault, Fault
<1> QED BY <1>1, <1>2, <1>3, <1>4, <1>5, <1>6, <1>7, <1>8 DEF IInv

\* A request discards only the upload of a row that it found aborted.
LEMMA DiscardKeeps == ASSUME NEW c \in Calls, IInv, Discard(c) PROVE IInv'
<1>1. TypeOK'
  <2>1. RequestTypes'
    BY EndsTypes, GoesTypes DEF IInv, Discard, Returns, Throws, Steps
  <2> QED BY <2>1, UploadAssumption DEF IInv, TypeOK, RequestTypes, Discard, Aborted, session,
         sweeper, env, NoFault, Fault
<1>2. CallInv'
  BY DEF IInv, TypeOK, CallInv, Discard, Aborted, Ends, Returns, Throws, session, env, Creating,
         Serving
<1>3. PairInv'
  BY DEF IInv, TypeOK, PairInv, Discard, Ends, Returns, Throws, Creating
<1>4. RowInv'
  BY DEF IInv, RowInv, Discard, Aborted, session
<1>5. ActiveInv'
  BY DEF IInv, CallInv, ActiveInv, Discard, Aborted, session, env
<1>6. SweepInv'
  BY DEF IInv, SweepInv, Discard, Aborted, session, sweeper, env
<1>7. CleanInv'
  BY DEF IInv, CleanInv, Discard
<1>8. LeakInv'
  BY DEF IInv, TypeOK, LeakInv, Discard, Aborted, Ends, Returns, session, env, NoFault, Fault
<1> QED BY <1>1, <1>2, <1>3, <1>4, <1>5, <1>6, <1>7, <1>8 DEF IInv

\* The sweeper lists what is open and expired a grace ago.
LEMMA SweepKeeps == ASSUME IInv, Sweep PROVE IInv'
<1>1. TypeOK'
  BY DEF IInv, TypeOK, Sweep, session, request, env
<1>2. CallInv'
  BY DEF IInv, CallInv, Sweep, session, request, env
<1>3. PairInv'
  BY DEF IInv, PairInv, Sweep, request
<1>4. RowInv'
  BY DEF IInv, RowInv, Sweep, session, request
<1>5. ActiveInv'
  BY DEF IInv, ActiveInv, Sweep, session, request, env
<1>6. SweepInv'
  BY DEF IInv, RowInv, SweepInv, Sweep, Expired, session, env
<1>7. CleanInv'
  BY DEF IInv, CleanInv, Sweep, request
<1>8. LeakInv'
  BY DEF IInv, LeakInv, Sweep, session, request, env
<1> QED BY <1>1, <1>2, <1>3, <1>4, <1>5, <1>6, <1>7, <1>8 DEF IInv

\* The upload that a sweep aborts belongs to no completion.
LEMMA SweepAbortKeeps == ASSUME NEW s \in Sessions, IInv, SweepAbort(s) PROVE IInv'
<1>1. TypeOK'
  BY UploadAssumption DEF IInv, TypeOK, SweepAbort, Aborted, session, request, env, NoFault, Fault
<1>2. CallInv'
  BY DEF IInv, TypeOK, CallInv, SweepInv, SweepAbort, Aborted, session, request, env, Creating
<1>3. PairInv'
  BY DEF IInv, PairInv, SweepAbort, request
<1>4. RowInv'
  BY DEF IInv, RowInv, SweepAbort, Aborted, session, request
<1>5. ActiveInv'
  BY UploadAssumption DEF IInv, TypeOK, ActiveInv, SweepInv, SweepAbort, Aborted, session, request,
         env, Times
<1>6. SweepInv'
  BY DEF IInv, SweepInv, SweepAbort, Aborted, session, env
<1>7. CleanInv'
  BY DEF IInv, CleanInv, SweepAbort, Aborted, request
<1>8. LeakInv'
  BY DEF IInv, TypeOK, LeakInv, SweepAbort, Aborted, session, request, env, NoFault, Fault
<1> QED BY <1>1, <1>2, <1>3, <1>4, <1>5, <1>6, <1>7, <1>8 DEF IInv

\* The row that a sweep retires has lost its upload already.
LEMMA SweepRetireKeeps == ASSUME IInv, SweepRetire PROVE IInv'
<1>1. TypeOK'
  BY UploadAssumption DEF IInv, TypeOK, SweepRetire, request, env, NoFault, Fault, Status
<1>2. CallInv'
  BY DEF IInv, TypeOK, CallInv, SweepRetire, request, env
<1>3. PairInv'
  BY DEF IInv, PairInv, SweepRetire, request
<1>4. RowInv'
  BY DEF IInv, TypeOK, RowInv, SweepRetire, request
<1>5. ActiveInv'
  BY DEF IInv, TypeOK, ActiveInv, SweepRetire, request, env
<1>6. SweepInv'
  BY UploadAssumption DEF IInv, TypeOK, SweepInv, SweepRetire, env
<1>7. CleanInv'
  BY DEF IInv, CleanInv, SweepRetire, request
<1>8. LeakInv'
  BY DEF IInv, TypeOK, SweepInv, LeakInv, SweepRetire, request, env, NoFault, Fault
<1> QED BY <1>1, <1>2, <1>3, <1>4, <1>5, <1>6, <1>7, <1>8 DEF IInv

\* A sealed owner needs less of the invariant.
LEMMA SealKeeps == ASSUME IInv, Seal PROVE IInv'
<1>1. TypeOK'
  BY DEF IInv, TypeOK, Seal, session, request, sweeper, env
<1>2. CallInv'
  BY DEF IInv, CallInv, Seal, session, request, env
<1>3. PairInv'
  BY DEF IInv, PairInv, Seal, request
<1>4. RowInv'
  BY DEF IInv, RowInv, Seal, session, request
<1>5. ActiveInv'
  BY DEF IInv, ActiveInv, Seal
<1>6. SweepInv'
  BY DEF IInv, SweepInv, Seal, session, sweeper, env
<1>7. CleanInv'
  BY DEF IInv, CleanInv, Seal
<1>8. LeakInv'
  BY DEF IInv, LeakInv, Seal, session, request, env
<1> QED BY <1>1, <1>2, <1>3, <1>4, <1>5, <1>6, <1>7, <1>8 DEF IInv

\* A cleanup starts when no request is left.
LEMMA BeginCleanupKeeps == ASSUME IInv, BeginCleanup PROVE IInv'
<1>1. TypeOK'
  BY DEF IInv, TypeOK, BeginCleanup, session, request, sweeper, env
<1>2. CallInv'
  BY DEF IInv, CallInv, BeginCleanup, Drained, request
<1>3. PairInv'
  BY DEF IInv, PairInv, BeginCleanup, request
<1>4. RowInv'
  BY DEF IInv, RowInv, BeginCleanup, session, request
<1>5. ActiveInv'
  BY DEF IInv, ActiveInv, BeginCleanup
<1>6. SweepInv'
  BY DEF IInv, SweepInv, BeginCleanup, session, sweeper, env
<1>7. CleanInv'
  BY DEF IInv, CleanInv, BeginCleanup, Drained, request
<1>8. LeakInv'
  BY DEF IInv, LeakInv, BeginCleanup, Drained, session, env
<1> QED BY <1>1, <1>2, <1>3, <1>4, <1>5, <1>6, <1>7, <1>8 DEF IInv

\* A cleanup completes what has its object.
LEMMA ReconcileKeeps == ASSUME IInv, Reconcile PROVE IInv'
<1>1. TypeOK'
  BY UploadAssumption DEF IInv, TypeOK, Reconcile, Cleans, CleaningFails, Becomes, request, sweeper,
         env, NoFault, Fault, Status
<1>2. CallInv'
  BY DEF IInv, TypeOK, CallInv, Reconcile, Cleans, CleaningFails, Becomes, Markable, request, env
<1>3. PairInv'
  BY DEF IInv, PairInv, Reconcile, Cleans, CleaningFails, request
<1>4. RowInv'
  BY DEF IInv, RowInv, Reconcile, Cleans, CleaningFails, Becomes, Markable, request
<1>5. ActiveInv'
  BY DEF IInv, ActiveInv, Reconcile, Cleans, CleaningFails, Becomes, Whole, request, env
<1>6. SweepInv'
  BY DEF IInv, SweepInv, Reconcile, Cleans, CleaningFails, Becomes, Markable, sweeper, env
<1>7. CleanInv'
  BY DEF IInv, CleanInv, Reconcile, Cleans, CleaningFails, request
<1>8. LeakInv'
  BY DEF IInv, TypeOK, LeakInv, Reconcile, Cleans, CleaningFails, Becomes, Whole, request, env,
         NoFault, Fault
<1> QED BY <1>1, <1>2, <1>3, <1>4, <1>5, <1>6, <1>7, <1>8 DEF IInv

\* A cleanup aborts uploads before rows, and may fail between the two.
LEMMA AbortOpenKeeps == ASSUME IInv, AbortOpen PROVE IInv'
<1>1. PICK S \in SUBSET Sessions, T \in SUBSET Open :
        row' = Becomes(row, T, "ABORTED") /\ store' = Aborted(S) /\ T \subseteq S
  BY DEF AbortOpen, Open
<1>2. T \subseteq Sessions /\ \A s \in T : row[s] \in {"UPLOADING", "COMPLETING"}
  BY DEF Open
<1>3. owner = "DELETING" /\ cleanup' \in {"orphans", "no"} /\ faults' \in 0..MaxFaults
      /\ UNCHANGED <<expiresAt, startedAt, owner, kept, request, sweeper, env>>
  BY UploadAssumption DEF IInv, TypeOK, CleanInv, AbortOpen, Cleans, CleaningFails, NoFault, Fault
<1>4. TypeOK'
  BY <1>1, <1>2, <1>3 DEF IInv, TypeOK, Becomes, Aborted, Status, request, sweeper, env
<1>5. CallInv'
  BY DEF IInv, CallInv, CleanInv, AbortOpen, Cleans, CleaningFails, request, Creating
<1>6. PairInv'
  BY DEF IInv, PairInv, AbortOpen, Cleans, CleaningFails, request
<1>7. RowInv'
  BY <1>1, <1>2, <1>3 DEF IInv, TypeOK, RowInv, Becomes, Aborted, request
<1>8. ActiveInv'
  BY DEF IInv, ActiveInv, CleanInv, AbortOpen, Cleans, CleaningFails
<1>9. SweepInv'
  BY <1>1, <1>2, <1>3 DEF IInv, TypeOK, SweepInv, Becomes, Aborted, sweeper, env
<1>10. CleanInv'
  BY DEF IInv, CleanInv, AbortOpen, Cleans, CleaningFails, request
<1>11. LeakInv'
  BY DEF IInv, TypeOK, LeakInv, AbortOpen, Cleans, CleaningFails, Aborted, Open, request, env,
         NoFault, Fault
<1> QED BY <1>4, <1>5, <1>6, <1>7, <1>8, <1>9, <1>10, <1>11 DEF IInv

\* After the second loop no upload is open.
LEMMA AbortOrphansKeeps == ASSUME IInv, AbortOrphans PROVE IInv'
<1>1. TypeOK'
  BY UploadAssumption DEF IInv, TypeOK, AbortOrphans, Cleans, CleaningFails, Aborted, request,
         sweeper, env, NoFault, Fault
<1>2. CallInv'
  BY DEF IInv, CallInv, CleanInv, AbortOrphans, Cleans, CleaningFails, request, Creating
<1>3. PairInv'
  BY DEF IInv, PairInv, AbortOrphans, Cleans, CleaningFails, request
<1>4. RowInv'
  BY DEF IInv, RowInv, AbortOrphans, Cleans, CleaningFails, Aborted, request
<1>5. ActiveInv'
  BY DEF IInv, ActiveInv, CleanInv, AbortOrphans, Cleans, CleaningFails
<1>6. SweepInv'
  BY DEF IInv, SweepInv, AbortOrphans, Cleans, CleaningFails, Aborted, sweeper, env
<1>7. CleanInv'
  BY DEF IInv, CleanInv, AbortOrphans, Cleans, CleaningFails, Aborted, Uploads, request
<1>8. LeakInv'
  BY DEF IInv, TypeOK, LeakInv, AbortOrphans, CleaningFails, Aborted, Uploads, Fault
<1> QED BY <1>1, <1>2, <1>3, <1>4, <1>5, <1>6, <1>7, <1>8 DEF IInv

\* After the third no object is left.
LEMMA DeleteMediaKeeps == ASSUME IInv, DeleteMedia PROVE IInv'
<1>1. TypeOK'
  BY UploadAssumption DEF IInv, TypeOK, DeleteMedia, Cleans, CleaningFails, Becomes, request,
         sweeper, env, NoFault, Fault
<1>2. CallInv'
  BY DEF IInv, CallInv, CleanInv, DeleteMedia, Cleans, CleaningFails, request, Creating
<1>3. PairInv'
  BY DEF IInv, PairInv, DeleteMedia, Cleans, CleaningFails, request
<1>4. RowInv'
  BY DEF IInv, RowInv, DeleteMedia, Cleans, CleaningFails, Becomes, request
<1>5. ActiveInv'
  BY DEF IInv, ActiveInv, CleanInv, DeleteMedia, Cleans, CleaningFails
<1>6. SweepInv'
  BY DEF IInv, SweepInv, DeleteMedia, Cleans, CleaningFails, Becomes, sweeper, env
<1>7. CleanInv'
  BY DEF IInv, CleanInv, DeleteMedia, Cleans, CleaningFails, Becomes, Objects, request
<1>8. LeakInv'
  BY DEF IInv, TypeOK, LeakInv, DeleteMedia, Cleans, CleaningFails, Becomes, request, env, NoFault,
         Fault
<1> QED BY <1>1, <1>2, <1>3, <1>4, <1>5, <1>6, <1>7, <1>8 DEF IInv

\* Nothing is left when the rows are purged.
LEMMA FinishKeeps == ASSUME IInv, Finish PROVE IInv'
<1>1. TypeOK'
  BY UploadAssumption DEF IInv, TypeOK, Finish, request, sweeper, env, NoFault, Fault, Status
<1>2. CallInv'
  BY DEF IInv, TypeOK, CallInv, Finish, request, env
<1>3. PairInv'
  BY DEF IInv, PairInv, Finish, request
<1>4. RowInv'
  BY DEF IInv, RowInv, Finish, request
<1>5. ActiveInv'
  BY DEF IInv, ActiveInv, Finish, request, env
<1>6. SweepInv'
  BY DEF IInv, SweepInv, Finish, sweeper, env
<1>7. CleanInv'
  BY DEF IInv, CleanInv, Finish, request
<1>8. LeakInv'
  BY DEF IInv, CleanInv, LeakInv, Finish
<1> QED BY <1>1, <1>2, <1>3, <1>4, <1>5, <1>6, <1>7, <1>8 DEF IInv

\* The clock does not leave a transaction behind by more than a grace.
LEMMA TickKeeps == ASSUME IInv, Tick PROVE IInv'
<1>1. TypeOK'
  BY UploadAssumption DEF IInv, TypeOK, Tick, session, request, sweeper, Times
<1>2. CallInv'
  BY UploadAssumption DEF IInv, TypeOK, CallInv, Tick, TransactionsAreShort, session, request, Times
<1>3. PairInv'
  BY DEF IInv, PairInv, Tick, request
<1>4. RowInv'
  BY DEF IInv, RowInv, Tick, session, request
<1>5. ActiveInv'
  BY UploadAssumption DEF IInv, TypeOK, ActiveInv, Tick, session, request, Times
<1>6. SweepInv'
  BY UploadAssumption DEF IInv, TypeOK, SweepInv, Tick, session, sweeper, Times
<1>7. CleanInv'
  BY DEF IInv, CleanInv, Tick, request
<1>8. LeakInv'
  BY DEF IInv, LeakInv, Tick, session, request
<1> QED BY <1>1, <1>2, <1>3, <1>4, <1>5, <1>6, <1>7, <1>8 DEF IInv

\* A crash forgets requests, the sweep and the cleanup, and it ends the claim about leaks.
LEMMA CrashKeeps == ASSUME IInv, Crash PROVE IInv'
<1>1. TypeOK'
  BY UploadAssumption DEF IInv, TypeOK, Crash, session, Steps, Times
<1>2. CallInv'
  BY DEF IInv, CallInv, Crash, Creating, Serving
<1>3. PairInv'
  BY DEF IInv, PairInv, Crash, Creating
<1>4. RowInv'
  BY DEF IInv, RowInv, Crash, session
<1>5. ActiveInv'
  BY DEF IInv, ActiveInv, Crash, session
<1>6. SweepInv'
  BY UploadAssumption DEF IInv, SweepInv, Crash
<1>7. CleanInv'
  BY DEF IInv, CleanInv, Crash
<1>8. LeakInv'
  BY DEF IInv, TypeOK, LeakInv, Crash
<1> QED BY <1>1, <1>2, <1>3, <1>4, <1>5, <1>6, <1>7, <1>8 DEF IInv

\* The operator touches no session and no upload.
LEMMA ReconcileTicketsKeeps == ASSUME IInv, ReconcileTickets PROVE IInv'
<1>1. TypeOK'
  BY DEF IInv, TypeOK, ReconcileTickets, session, request, sweeper, env
<1>2. CallInv'
  BY DEF IInv, CallInv, ReconcileTickets, session, request, env
<1>3. PairInv'
  BY DEF IInv, PairInv, ReconcileTickets, request
<1>4. RowInv'
  BY DEF IInv, RowInv, ReconcileTickets, session, request
<1>5. ActiveInv'
  BY DEF IInv, ActiveInv, ReconcileTickets, session, request, env
<1>6. SweepInv'
  BY DEF IInv, SweepInv, ReconcileTickets, session, sweeper, env
<1>7. CleanInv'
  BY DEF IInv, CleanInv, ReconcileTickets, request
<1>8. LeakInv'
  BY DEF IInv, LeakInv, ReconcileTickets, session, request, env
<1> QED BY <1>1, <1>2, <1>3, <1>4, <1>5, <1>6, <1>7, <1>8 DEF IInv

-------------------------------------------------------------------------------
(***************************************************************************)
(* The theorems.                                                           *)
(***************************************************************************)
\* The invariant holds of the initial states.
LEMMA InitEstablishes == Init => IInv
<1> SUFFICES ASSUME Init PROVE IInv
  OBVIOUS
<1>1. TypeOK
  <2>1. 0 \in Times /\ 0 \in 0..MaxFaults /\ 0 \in 0..MaxExits
    BY UploadAssumption DEF Times
  <2> QED BY <2>1 DEF Init, TypeOK, Steps, Status
<1>2. CallInv /\ PairInv
  BY DEF Init, CallInv, PairInv, Creating, Serving
<1>3. RowInv /\ ActiveInv
  BY DEF Init, RowInv, ActiveInv
<1>4. SweepInv
  BY UploadAssumption DEF Init, SweepInv
<1>5. CleanInv /\ LeakInv
  BY DEF Init, CleanInv, LeakInv
<1> QED BY <1>1, <1>2, <1>3, <1>4, <1>5 DEF IInv

\* A stuttering step changes nothing.
LEMMA StutterKeeps == IInv /\ UNCHANGED vars => IInv'
<1> SUFFICES ASSUME IInv, UNCHANGED vars PROVE IInv'
  OBVIOUS
<1> USE DEF vars, session, request, sweeper, env
<1>1. TypeOK'
  BY DEF IInv, TypeOK, Status, Times
<1>2. CallInv' /\ PairInv'
  BY DEF IInv, CallInv, PairInv
<1>3. RowInv' /\ ActiveInv'
  BY DEF IInv, RowInv, ActiveInv
<1>4. SweepInv' /\ CleanInv' /\ LeakInv'
  BY DEF IInv, SweepInv, CleanInv, LeakInv
<1> QED BY <1>1, <1>2, <1>3, <1>4 DEF IInv

\* Every step keeps the invariant.
LEMMA NextKeeps == IInv /\ [Next]_vars => IInv'
<1> SUFFICES ASSUME IInv, [Next]_vars PROVE IInv'
  OBVIOUS
<1>1. CASE Client
  BY <1>1, CreateUploadKeeps, CompleteKeeps, GetKeeps, AbortKeeps DEF Client
<1>2. CASE \E c \in Calls : Request(c)
  BY <1>2, InsertKeeps, UndoKeeps, BeginCompletionKeeps, AssembleKeeps, MarkCompletedKeeps, HeadKeeps,
     BeginAbortKeeps, DiscardKeeps DEF Request
<1>3. CASE Sweeping
  BY <1>3, SweepKeeps, SweepAbortKeeps, SweepRetireKeeps DEF Sweeping
<1>4. CASE Deletion
  BY <1>4, SealKeeps, BeginCleanupKeeps, ReconcileKeeps, AbortOpenKeeps, AbortOrphansKeeps, DeleteMediaKeeps,
     FinishKeeps DEF Deletion
<1>5. CASE Tick \/ Crash \/ ReconcileTickets
  BY <1>5, TickKeeps, CrashKeeps, ReconcileTicketsKeeps
<1>6. CASE UNCHANGED vars
  BY <1>6, StutterKeeps
<1> QED BY <1>1, <1>2, <1>3, <1>4, <1>5, <1>6 DEF Next

\* The inductive invariant is invariant.
THEOREM Invariance == Spec => []IInv
  BY InitEstablishes, NextKeeps, PTL DEF Spec

\* Types: the steps of requests, of the sweeper and of a cleanup are those of the code.
THEOREM TypeCorrect == Spec => []TypeOK
<1>1. IInv => TypeOK
  BY DEF IInv
<1> QED BY <1>1, Invariance, PTL

\* A session that is COMPLETED has its object, as long as its owner is active.
THEOREM CompletedIsStored == Spec => []CompletedHasObject
<1>1. IInv => CompletedHasObject
  BY DEF IInv, ActiveInv, CompletedHasObject
<1> QED BY <1>1, Invariance, PTL

\* Nobody takes the upload from a session that is being completed.
THEOREM CompletionIsKept == Spec => []CompletionKeepsUpload
<1>1. IInv => CompletionKeepsUpload
  BY DEF IInv, ActiveInv, CompletionKeepsUpload
<1> QED BY <1>1, Invariance, PTL

\* Without a failing call and without an exit, no upload is left to nobody.
THEOREM NothingIsLeaked == Spec => []LeaksNeedAFault
<1>1. IInv => LeaksNeedAFault
  BY DEF IInv, LeakInv, LeaksNeedAFault, Open
<1> QED BY <1>1, Invariance, PTL

\* A deleted owner has no upload open and no object left.
THEOREM DeletionIsComplete == Spec => []DeletedLeavesNothing
<1>1. IInv => DeletedLeavesNothing
  BY DEF IInv, CleanInv, DeletedLeavesNothing
<1> QED BY <1>1, Invariance, PTL

\* Only eight actions write a row.
LEMMA RowWriters == ASSUME Next PROVE
    \/ UNCHANGED row
    \/ \E c \in Calls : Insert(c) \/ BeginCompletion(c) \/ MarkCompleted(c) \/ BeginAbort(c)
    \/ SweepRetire \/ Reconcile \/ AbortOpen \/ Finish
<1>1. CASE Client
  BY <1>1 DEF Client, CreateUpload, Complete, Get, Abort, session
<1>2. CASE \E c \in Calls : Request(c)
  BY <1>2 DEF Request, Undo, Assemble, Head, Discard, session
<1>3. CASE Sweeping
  BY <1>3 DEF Sweeping, Sweep, SweepAbort, session
<1>4. CASE Deletion
  BY <1>4 DEF Deletion, Seal, BeginCleanup, AbortOrphans, DeleteMedia, session
<1>5. CASE Tick \/ Crash \/ ReconcileTickets
  BY <1>5 DEF Tick, Crash, ReconcileTickets, session
<1> QED BY <1>1, <1>2, <1>3, <1>4, <1>5 DEF Next

\* Each of them leaves a terminal row alone, and aborts the upload of a row that it retires.
LEMMA RowSteps == ASSUME IInv, [Next]_vars PROVE KeepsTerminal /\ DiscardsRetired
<1>1. CASE UNCHANGED row
  BY <1>1 DEF KeepsTerminal, DiscardsRetired
<1>2. ASSUME NEW c \in Calls, Insert(c) PROVE KeepsTerminal /\ DiscardsRetired
  BY <1>2 DEF IInv, TypeOK, CallInv, Insert, SetRow, session, KeepsTerminal, DiscardsRetired
<1>3. ASSUME NEW c \in Calls, BeginCompletion(c) PROVE KeepsTerminal /\ DiscardsRetired
  BY <1>3 DEF IInv, TypeOK, BeginCompletion, Completable, SetRow, session, KeepsTerminal, DiscardsRetired
<1>4. ASSUME NEW c \in Calls, MarkCompleted(c) PROVE KeepsTerminal /\ DiscardsRetired
  BY <1>4 DEF IInv, TypeOK, MarkCompleted, Markable, SetRow, KeepsTerminal, DiscardsRetired
<1>5. ASSUME NEW c \in Calls, BeginAbort(c) PROVE KeepsTerminal /\ DiscardsRetired
  BY <1>5 DEF IInv, TypeOK, BeginAbort, Abortable, SetRow, KeepsTerminal, DiscardsRetired
<1>6. CASE SweepRetire
  BY <1>6 DEF IInv, TypeOK, SweepInv, SweepRetire, KeepsTerminal, DiscardsRetired
<1>7. CASE Reconcile
  BY <1>7 DEF IInv, TypeOK, Reconcile, Markable, Becomes, KeepsTerminal, DiscardsRetired
<1>8. CASE AbortOpen
  <2>1. PICK S \in SUBSET Sessions, T \in SUBSET Open :
          row' = Becomes(row, T, "ABORTED") /\ store' = Aborted(S) /\ T \subseteq S
    BY <1>8 DEF AbortOpen, Open
  <2> QED BY <2>1 DEF Open, Becomes, Aborted, KeepsTerminal, DiscardsRetired
<1>9. CASE Finish
  BY <1>9 DEF IInv, TypeOK, Finish, KeepsTerminal, DiscardsRetired
<1>10. CASE UNCHANGED vars
  BY <1>1, <1>10 DEF vars, session
<1> QED BY <1>1, <1>2, <1>3, <1>4, <1>5, <1>6, <1>7, <1>8, <1>9, <1>10, RowWriters

\* COMPLETED and ABORTED are final until the owner is deleted.
THEOREM TerminalIsFinal == Spec => TerminalStays
<1>1. IInv /\ [Next]_vars => [KeepsTerminal]_vars
  BY RowSteps
<1> QED BY <1>1, Invariance, PTL DEF Spec, TerminalStays

\* A row that the sweeper or a cleanup retires has no open upload left.
THEOREM RetirementDiscards == Spec => RetiredIsDiscarded
<1>1. IInv /\ [Next]_vars => [DiscardsRetired]_vars
  BY RowSteps
<1> QED BY <1>1, Invariance, PTL DEF Spec, RetiredIsDiscarded
===============================================================================
