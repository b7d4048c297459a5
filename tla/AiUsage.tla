------------------------------- MODULE AiUsage -------------------------------
(***************************************************************************)
(* What the AI features of one owner cost in one month: caption requests   *)
(* from keywords and from a clip (captionRoutes) and AI edits              *)
(* (aiEditRoutes), running concurrently in one process over the usage      *)
(* tables.  A caption reserves its credits before the provider works and   *)
(* gives them back when the owner gets no AI caption; an edit reserves its *)
(* minutes after everything that can fail.  A clip request runs under a    *)
(* deadline, and holds one of a few places for media in memory.            *)
(***************************************************************************)
EXTENDS Integers, FiniteSets, FiniteSetsExt

CONSTANTS
    Requests,
    Kinds,        \* of "keyword", "clip", "edit": the requests that may come
    Paths,        \* of "gemini", "legacy", "local": how the process may be configured
    Limit,        \* monthlyAiCaptionGenerationLimits of the owner's plan
    Bought,       \* captions of one add-on purchase
    MaxUnits,     \* channels of one clip request
    Places,       \* maxConcurrentMediaRequests
    EditLimit,    \* aiEditMonthlyMinuteLimit
    MaxMinutes,   \* of one edit
    MaxExits,     \* bound: exits of the process
    MaxFaults     \* bound: failed writes

\* Assumed by who instantiates the model (AiFeatures).
AiUsageAssumption ==
    /\ IsFiniteSet(Requests)
    /\ Kinds \subseteq {"keyword", "clip", "edit"} /\ Paths \subseteq {"gemini", "legacy", "local"}
    /\ Limit \in Nat /\ Bought \in Nat /\ MaxUnits \in Nat \ {0} /\ Places \in Nat \ {0}
    /\ EditLimit \in Nat /\ MaxMinutes \in Nat \ {0} /\ MaxExits \in Nat /\ MaxFaults \in Nat

VARIABLES
    usage,     \* RealClipCaptionUsage: the rows of each reservation, by what they use up
    minutes,   \* AiEditUsage: the minutes of each edit
    ledger,    \* MonthlyAddonPurchase: the one purchase there may be
    path,      \* which providers the process has
    req,       \* the requests
    places,    \* activeMediaRequests
    exits, faults

vars == <<usage, minutes, ledger, path, req, places, exits, faults>>

NoRows == [monthly |-> 0, addon |-> 0]
Rows   == [monthly : 0..MaxUnits, addon : 0..MaxUnits]
Size(rows) == rows.monthly + rows.addon

\* pc: the await the handler is at.  held: the records of `reservation`.  cut: the deadline has
\* aborted, for the time or for the client.  caught: the handler is in the catch of the provider part, or has
\* left it with the local caption.  told: what the answer says was charged; most errors say nothing of it.
\* unrefunded: history, the last refund could not be written.
Silent == -1
NotStarted == [pc |-> "none", kind |-> "keyword", units |-> 1, held |-> NoRows, released |-> FALSE,
               unrefunded |-> FALSE, place |-> FALSE, cut |-> FALSE, caught |-> FALSE,
               told |-> Silent, answer |-> "none"]

Request == [pc : {"none", "early", "admit", "ensure", "reserve", "work", "refund", "media",
                  "refused", "interrupted", "final", "end"},
            kind : {"keyword", "clip", "edit"}, units : 1..Max({MaxUnits, MaxMinutes}), held : Rows,
            released : BOOLEAN, unrefunded : BOOLEAN, place : BOOLEAN, cut : BOOLEAN, caught : BOOLEAN,
            told : 0..Max({MaxUnits, MaxMinutes}) \cup {Silent},
            answer : {"none", "ok", "error"}]

\* Types, and the places taken never exceed what the process admits.
TypeOK ==
    /\ usage \in [Requests -> Rows] /\ minutes \in [Requests -> 0..MaxMinutes]
    /\ ledger \in {"none", "granted", "revoked"} /\ path \in Paths /\ req \in [Requests -> Request]
    /\ places \in 0..Places /\ exits \in 0..MaxExits /\ faults \in 0..MaxFaults

Init ==
    /\ usage = [r \in Requests |-> NoRows] /\ minutes = [r \in Requests |-> 0]
    /\ ledger = "none" /\ path \in Paths /\ req = [r \in Requests |-> NotStarted]
    /\ places = 0 /\ exits = 0 /\ faults = 0

-------------------------------------------------------------------------------
(***************************************************************************)
(* The usage tables.                                                       *)
(***************************************************************************)
UsedThisMonth == SumFunctionOnSet([r \in Requests |-> usage[r].monthly], Requests)
UsedAddon     == SumFunctionOnSet([r \in Requests |-> usage[r].addon], Requests)
UsedMinutes   == SumFunctionOnSet(minutes, Requests)

Grants         == IF ledger = "granted" THEN Bought ELSE 0
AddonRemaining == Max({0, Grants - UsedAddon})

\* reserveWithClient: the month's own credits first, the purchased ones for the rest.
Split(units) ==
    LET monthly == Min({units, Max({0, Limit - UsedThisMonth})})
    IN  [monthly |-> monthly, addon |-> units - monthly]

CoveredEarlier(units) == TRUE
Covered(units) == Split(units).addon <= AddonRemaining

Enough(units) == Max({0, Limit - UsedThisMonth}) + AddonRemaining >= units

-------------------------------------------------------------------------------
(***************************************************************************)
(* Steps of a handler.                                                     *)
(***************************************************************************)
Becomes(r, new) == req' = [req EXCEPT ![r] = new]
At(r, pc)       == req[r].pc = pc
Goto(r, pc)     == Becomes(r, [req[r] EXCEPT !.pc = pc])
IsClip(r)       == req[r].kind = "clip"
Cut(r)          == req[r].cut
Fault           == faults < MaxFaults /\ faults' = faults + 1

\* The finally of the inner try: the place is free when the handler leaves the provider part.
Leave(q) == [q EXCEPT !.place = FALSE]
KeepPlace(r) == places' = places
FreePlace(r) == places' = IF req[r].place THEN places - 1 ELSE places

\* The answer, and what it says was charged; the handler's variables are gone.
End(r, q, answer, told) ==
    /\ Becomes(r, [NotStarted EXCEPT !.pc = "end", !.answer = answer, !.told = told,
                                     !.unrefunded = q.unrefunded])
    /\ FreePlace(r)

\* The answers to a quota used up (429, 402), busy media (503), unusable media (413, 422, 502) and what
\* the handler throws (500): none says what was charged.
Refused(r) == End(r, req[r], "error", Silent)

\* A deadline seen in the provider part is handled there, one seen in its catch outside it.
Interrupted(r) ==
    LET q == [req[r] EXCEPT !.pc = "interrupted"]
    IN  /\ Becomes(r, IF q.caught THEN Leave(q) ELSE q)
        /\ IF q.caught THEN FreePlace(r) ELSE places' = places

Begin(r, kind, units) ==
    /\ At(r, "none") /\ kind \in Kinds
    /\ (kind = "clip" => units <= MaxUnits) /\ (kind = "keyword" => units = 1)
    /\ (kind = "edit" => units <= MaxMinutes)
    /\ Becomes(r, [NotStarted EXCEPT !.pc = IF kind = "keyword" THEN "reserve" ELSE "early",
                                     !.kind = kind, !.units = units])
    /\ UNCHANGED <<usage, minutes, ledger, path, places, exits, faults>>

\* The inexpensive read before any work; the reservation decides.
EarlyRead(r) ==
    /\ At(r, "early")
    /\ LET enough == IF IsClip(r) THEN Enough(req[r].units)
                                  ELSE UsedMinutes + req[r].units <= EditLimit
       IN  IF enough
           THEN Goto(r, IF IsClip(r) THEN "admit" ELSE "work") /\ places' = places
           ELSE Refused(r)
    /\ UNCHANGED <<usage, minutes, ledger, path, exits, faults>>

\* acquireMediaSlot; a local template needs no media.
Admit(r) ==
    /\ At(r, "admit")
    /\ IF path = "local" THEN Goto(r, "ensure") /\ places' = places
       ELSE IF places < Places
       THEN /\ Becomes(r, [req[r] EXCEPT !.pc = "ensure", !.place = TRUE])
            /\ places' = places + 1
       ELSE Goto(r, "refused") /\ places' = places
    /\ UNCHANGED <<usage, minutes, ledger, path, exits, faults>>

\* reserveUsageOrRespond looks at the deadline before it writes anything.
EnsureUser(r) ==
    /\ At(r, "ensure")
    /\ IF Cut(r) THEN Interrupted(r) ELSE Goto(r, "reserve") /\ places' = places
    /\ UNCHANGED <<usage, minutes, ledger, path, exits, faults>>

\* The reservation is kept also when the deadline has passed meanwhile.
HeldInTime(r, rows) == IF Cut(r) THEN NoRows ELSE rows
Held(r, rows) == rows

\* Meanwhile the deadline may have passed: then the handler goes no further.
Reserve(r) ==
    /\ At(r, "reserve") /\ req[r].kind /= "edit"
    /\ IF Covered(req[r].units)
       THEN LET rows == Split(req[r].units)
                q    == [req[r] EXCEPT !.held = Held(r, rows),
                                       !.pc = IF Cut(r) THEN "interrupted"
                                              ELSE IF req[r].caught THEN "refund" ELSE "work"]
            IN  usage' = [usage EXCEPT ![r] = rows] /\ Becomes(r, q) /\ places' = places
       ELSE /\ usage' = usage
            /\ IF req[r].kind = "keyword" THEN Refused(r)
               ELSE IF Cut(r) THEN Interrupted(r)
               ELSE /\ Goto(r, "refused")
                    /\ places' = places
    /\ UNCHANGED <<minutes, ledger, path, exits, faults>>

\* The database fails: Gemini's path tries once more on its way to the local caption.
ReserveFails(r) ==
    /\ req[r].pc \in {"ensure", "reserve"} /\ req[r].kind /= "edit" /\ Fault
    /\ IF IsClip(r) /\ path = "gemini" /\ ~req[r].caught
       THEN Becomes(r, [req[r] EXCEPT !.pc = "ensure", !.caught = TRUE]) /\ places' = places
       ELSE IF IsClip(r) /\ path = "legacy"
       THEN /\ Becomes(r, [req[r] EXCEPT !.pc = "refused", !.caught = TRUE])
            /\ places' = places
       ELSE Refused(r)
    /\ UNCHANGED <<usage, minutes, ledger, path, exits>>

\* The media and the provider: an AI caption.  Without Gemini it is the local template, which is free.
Works(r) ==
    /\ At(r, "work") /\ req[r].kind /= "edit" /\ ~Cut(r)
    /\ IF IsClip(r) /\ path /= "gemini"
       THEN Becomes(r, [Leave(req[r]) EXCEPT !.pc = "refund", !.caught = TRUE])
       ELSE Becomes(r, [Leave(req[r]) EXCEPT !.pc = "final"])
    /\ FreePlace(r)
    /\ UNCHANGED <<usage, minutes, ledger, path, exits, faults>>

\* The provider fails or sees no evidence.
Fails(r) ==
    /\ At(r, "work") /\ req[r].kind /= "edit" /\ ~Cut(r) /\ (IsClip(r) => path /= "local")
    /\ Becomes(r, [req[r] EXCEPT !.pc = IF IsClip(r) /\ path = "legacy" THEN "media" ELSE "refund",
                                 !.caught = TRUE])
    /\ UNCHANGED <<usage, minutes, ledger, path, places, exits, faults>>

\* The clip cannot be read: no caption at all.
MediaFails(r) ==
    /\ At(r, "work") /\ IsClip(r) /\ ~Cut(r) /\ path /= "local"
    /\ Becomes(r, [req[r] EXCEPT !.pc = "media", !.caught = TRUE])
    /\ UNCHANGED <<usage, minutes, ledger, path, places, exits, faults>>

\* deadline.run: a provider that never answers does not keep the request.
AwaitsOfMedia == {"refused", "final"}
Awaits == {"work", "refused", "final"}
BreaksOff(r) ==
    /\ IsClip(r) /\ req[r].pc \in Awaits /\ Cut(r) /\ Interrupted(r)
    /\ UNCHANGED <<usage, minutes, ledger, path, exits, faults>>

-------------------------------------------------------------------------------
\* releaseFailedCaptionUsage: the records of this reservation, or none of them.
Refunded(r) == [usage EXCEPT ![r] = NoRows]
Kept == usage

Refund(r, released) ==
    \/ Size(req[r].held) = 0 /\ ~released /\ UNCHANGED <<usage, faults>>
    \/ Size(req[r].held) > 0 /\ released /\ usage' = Refunded(r) /\ UNCHANGED faults
    \/ Size(req[r].held) > 0 /\ ~released /\ usage' = Kept /\ Fault

Tried(q, released) == [q EXCEPT !.released = released, !.unrefunded = ~released /\ Size(q.held) > 0]

\* What an answer calls charged, if it says so.
ToldCharge(q) == IF q.released THEN 0 ELSE Size(q.held)

\* Both kinds of captions: the local one is given, without charge if the refund succeeds.
FallbackRefund(r) ==
    /\ At(r, "refund")
    /\ IF req[r].place /\ Cut(r)
       THEN Interrupted(r) /\ UNCHANGED <<usage, faults>>
       ELSE \E released \in BOOLEAN :
              /\ Becomes(r, [Leave(Tried(req[r], released)) EXCEPT !.pc = "final"])
              /\ FreePlace(r) /\ Refund(r, released)
    /\ UNCHANGED <<minutes, ledger, path, exits>>

\* No caption: the refund, then the media are cleaned up under the deadline.
FailureRefund(r) ==
    /\ At(r, "media")
    /\ \E released \in BOOLEAN :
          /\ Becomes(r, [Tried(req[r], released) EXCEPT !.pc = "refused"])
          /\ Refund(r, released)
    /\ UNCHANGED <<minutes, ledger, path, places, exits>>

\* Once the media are cleaned up; also a refund that has failed is not mentioned.
Refuse(r) ==
    /\ At(r, "refused") /\ ~Cut(r)
    /\ Refused(r)
    /\ UNCHANGED <<usage, minutes, ledger, path, exits, faults>>

\* handleInterruption: the handler ends only after the refund has settled; a client that has gone
\* is told nothing.
EndsInterrupted(r, q) == \E told \in {ToldCharge(q), Silent} : End(r, q, "error", told)

Interrupt(r) ==
    /\ At(r, "interrupted")
    /\ IF req[r].released
       THEN EndsInterrupted(r, req[r]) /\ UNCHANGED <<usage, faults>>
       ELSE \E released \in BOOLEAN :
              EndsInterrupted(r, Tried(req[r], released)) /\ Refund(r, released)
    /\ UNCHANGED <<minutes, ledger, path, exits>>

\* The answer with the caption, which costs what was asked for unless it is a local one that says
\* it was not charged.
AnswerCaption(r) ==
    /\ At(r, "final") /\ req[r].kind /= "edit" /\ ~Cut(r)
    /\ End(r, req[r], "ok", ToldCharge(req[r]))
    /\ UNCHANGED <<usage, minutes, ledger, path, exits, faults>>

-------------------------------------------------------------------------------
(***************************************************************************)
(* AI edits: transcribe and prepare.                                       *)
(***************************************************************************)
\* The transcript and the recipe; the transcript may be longer than the client said.
EditWorks(r, billed) ==
    /\ At(r, "work") /\ req[r].kind = "edit" /\ billed \in req[r].units..MaxMinutes
    /\ Becomes(r, [req[r] EXCEPT !.pc = "reserve", !.units = billed])
    /\ UNCHANGED <<usage, minutes, ledger, path, places, exits, faults>>

\* The media, the transcription, the timing evidence or a plan fails.
EditFails(r) ==
    /\ At(r, "work") /\ req[r].kind = "edit"
    /\ Refused(r)
    /\ UNCHANGED <<usage, minutes, ledger, path, exits, faults>>

\* No analysis has a usable result: nothing is metered, and usedMinutes stays.
EditUseless(r) ==
    /\ At(r, "work") /\ req[r].kind = "edit"
    /\ End(r, req[r], "ok", 0)
    /\ UNCHANGED <<usage, minutes, ledger, path, exits, faults>>

FitsEarlier(r) == UsedMinutes <= EditLimit
FitsMinutes(r) == UsedMinutes + req[r].units <= EditLimit

ReserveMinutes(r) ==
    /\ At(r, "reserve") /\ req[r].kind = "edit"
    /\ IF FitsMinutes(r)
       THEN minutes' = [minutes EXCEPT ![r] = req[r].units] /\ End(r, req[r], "ok", req[r].units)
       ELSE minutes' = minutes /\ Refused(r)
    /\ UNCHANGED <<usage, ledger, path, exits, faults>>

MinutesFail(r) ==
    /\ At(r, "reserve") /\ req[r].kind = "edit" /\ Fault
    /\ Refused(r)
    /\ UNCHANGED <<usage, minutes, ledger, path, exits>>

-------------------------------------------------------------------------------
(***************************************************************************)
(* The surroundings: time, clients, purchases, the process.                *)
(***************************************************************************)
UnderDeadline(r) == IsClip(r) /\ req[r].pc \notin {"none", "early", "end"} /\ ~Cut(r)

\* The 90 seconds are over.
TimesOut(r) ==
    /\ UnderDeadline(r) /\ Becomes(r, [req[r] EXCEPT !.cut = TRUE])
    /\ UNCHANGED <<usage, minutes, ledger, path, places, exits, faults>>

\* The client's connection closes before the answer is written.
Disconnects(r) ==
    /\ UnderDeadline(r) /\ Becomes(r, [req[r] EXCEPT !.cut = TRUE])
    /\ UNCHANGED <<usage, minutes, ledger, path, places, exits, faults>>

\* The webhook of the purchase, or the app's confirmation, any number of times.
ApplyPurchase ==
    /\ ledger = "none" /\ ledger' = "granted"
    /\ UNCHANGED <<usage, minutes, path, req, places, exits, faults>>

\* The webhook of its refund; it may come before that of the purchase.
RevokePurchase ==
    /\ ledger /= "revoked" /\ ledger' = "revoked"
    /\ UNCHANGED <<usage, minutes, path, req, places, exits, faults>>

\* What was reserved stays reserved.
Crash ==
    /\ exits < MaxExits /\ exits' = exits + 1
    /\ req' = [r \in Requests |-> IF req[r].pc \in {"none", "end"} THEN req[r]
                                  ELSE [NotStarted EXCEPT !.pc = "end"]]
    /\ places' = 0
    /\ UNCHANGED <<usage, minutes, ledger, path, faults>>

\* The steps that depend on the process and its database only.
OwnStep(r) ==
    \/ EarlyRead(r) \/ Admit(r) \/ EnsureUser(r) \/ Reserve(r) \/ ReserveFails(r) \/ BreaksOff(r)
    \/ FallbackRefund(r) \/ FailureRefund(r) \/ Refuse(r) \/ Interrupt(r) \/ AnswerCaption(r)
    \/ ReserveMinutes(r) \/ MinutesFail(r)

Provider(r) ==
    \/ Works(r) \/ Fails(r) \/ MediaFails(r) \/ EditFails(r) \/ EditUseless(r)
    \/ \E billed \in 1..MaxMinutes : EditWorks(r, billed)

Next ==
    \/ \E r \in Requests :
          \/ OwnStep(r) \/ Provider(r) \/ TimesOut(r) \/ Disconnects(r)
          \/ \E kind \in Kinds, units \in 1..Max({MaxUnits, MaxMinutes}) : Begin(r, kind, units)
    \/ ApplyPurchase \/ RevokePurchase \/ Crash

Spec == Init /\ [][Next]_vars

\* The process runs, the database answers, the deadline's timer fires.  Nothing is assumed of the
\* provider, the storage or the client.
FairSpec == Spec /\ \A r \in Requests : WF_vars(OwnStep(r)) /\ WF_vars(TimesOut(r))

-------------------------------------------------------------------------------
(***************************************************************************)
(* Correctness.                                                            *)
(***************************************************************************)
\* Of the credits a reservation takes the owner has each at that moment, whatever runs beside it.
TakesOnlyCredit ==
    [][/\ UsedThisMonth' > UsedThisMonth => UsedThisMonth' <= Limit
       /\ UsedAddon' > UsedAddon => UsedAddon' <= Grants
       /\ UsedMinutes' > UsedMinutes => UsedMinutes' <= EditLimit]_vars

\* An answer that says what was charged says what the tables hold for the request, whenever the
\* deadline, a failure or the client cut it; and one that says nothing of it is of a request that
\* holds nothing any more: only a refund that could not be written leaves a charge untold.
Charged(r) == Size(usage[r]) + minutes[r]
AnswerTellsCharge ==
    \A r \in Requests : At(r, "end") /\ req[r].answer /= "none" =>
        \/ req[r].told = Charged(r)
        \/ req[r].told = Silent /\ (Charged(r) = 0 \/ req[r].unrefunded)

\* Every place taken belongs to a request that is still in its provider part.
PlacesHeld ==
    /\ places = Cardinality({r \in Requests : req[r].place})
    /\ \A r \in Requests : req[r].place => req[r].pc \notin {"none", "early", "admit", "final", "end"}

\* A clip request ends also when the provider or the storage never answers.
ClipEnds == \A r \in Requests : IsClip(r) /\ req[r].pc /= "none" ~> At(r, "end")
===============================================================================
