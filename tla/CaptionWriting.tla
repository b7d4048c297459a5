---------------------------- MODULE CaptionWriting ----------------------------
(***************************************************************************)
(* How one caption is asked of the models of a provider                    *)
(* (realClipCaptionProvider; captionGeneratorFactory for keywords).  For a *)
(* clip every model is asked three times: for the evidence it hears and    *)
(* sees, for a draft written from that evidence, and for the draft audited *)
(* against the same evidence.  A call that fails is repeated, a model that *)
(* fails is followed by the next, and all of it is under one deadline.     *)
(***************************************************************************)
EXTENDS Integers, FiniteSets

CONSTANTS
    Requests,     \* what may be asked for
    Texts,        \* what a model may write (see Text)
    MaxModels,    \* the model of the configuration and its fallbacks
    MaxAttempts   \* maxAttempts: calls per stage

Languages == {"th", "en", "fr"}   \* two with a check of their own beside the script, and one without

\* By what the checks tell apart: how much of it is Thai and Latin letters, whether the evidence says the
\* same words, whether it is short, unpunctuated and capitalised, and what is left without its emoji.
Text == [thai : Nat, latin : Nat, quoted : BOOLEAN, name : BOOLEAN, emoji : BOOLEAN, only : BOOLEAN]

\* What the validation lets through: visual tells that there is more than sound, plain that no emoji is wanted.
Admitted == [kind : {"clip", "keyword"}, language : Languages \cup {"auto"}, plain : BOOLEAN,
             platforms : SUBSET {"first", "second"}, visual : BOOLEAN]

CaptionWritingAssumption ==
    Texts \subseteq Text /\ Requests \subseteq Admitted /\ MaxModels \in Nat \ {0} /\ MaxAttempts \in Nat \ {0}

VARIABLES
    request,
    model,     \* candidateModel
    stage,     \* "evidence", "writing", "audit" of a clip; "keyword"; "done"
    attempt,
    evidence,  \* ClipEvidence
    draft,     \* the model that wrote the candidate
    outcome,   \* what generate returns or throws
    caption,   \* what it returns
    cut,       \* the deadline or the route's signal has aborted
    doubted    \* some model found the evidence too thin, or its own draft wrong

vars == <<request, model, stage, attempt, evidence, draft, outcome, caption, cut, doubted>>

NoEvidence == [by |-> 0, heard |-> FALSE, spoken |-> "und", seen |-> FALSE]
NoCaption  == [label |-> "none"]

First(kind) == IF kind = "clip" THEN "evidence" ELSE "keyword"

Init ==
    /\ request \in Requests /\ model = 1 /\ stage = First(request.kind) /\ attempt = 1
    /\ evidence = NoEvidence /\ draft = 0 /\ outcome = "none" /\ caption = NoCaption
    /\ cut = FALSE /\ doubted = FALSE

-------------------------------------------------------------------------------
(***************************************************************************)
(* What becomes of a call.                                                 *)
(***************************************************************************)
Asking == stage /= "done" /\ ~cut

End(o) == stage' = "done" /\ outcome' = o

\* The catch around one model: the next model, unless this error is final.
FinalByStatus == {"denied"}
Final == {"insufficient", "ungrounded", "denied"}

FailsWith(error) ==
    /\ IF error \notin Final /\ model < MaxModels
       THEN /\ model' = model + 1 /\ stage' = First(request.kind) /\ attempt' = 1
            /\ evidence' = NoEvidence /\ draft' = 0 /\ UNCHANGED outcome
       ELSE End(error) /\ UNCHANGED <<model, attempt, evidence, draft>>
    /\ doubted' = (doubted \/ error \in {"insufficient", "ungrounded"})
    /\ UNCHANGED <<request, caption, cut>>

\* The network fails, or the status is 429, 500, 502, 503 or 504: after a pause the same again.
Retry ==
    /\ Asking /\ attempt < MaxAttempts /\ attempt' = attempt + 1
    /\ UNCHANGED <<request, model, stage, evidence, draft, outcome, caption, cut, doubted>>

\* The same at the last attempt; another status; an answer without text or that is not understood.
ModelFails == Asking /\ FailsWith("failed")

\* 401 or 403.
KeyRejected == Asking /\ FailsWith("denied")

Proceed(next) == stage' = next /\ attempt' = 1 /\ UNCHANGED <<request, model, outcome, caption, cut, doubted>>

-------------------------------------------------------------------------------
(***************************************************************************)
(* The three stages of a clip.                                             *)
(***************************************************************************)
\* readEvidence: what is seen counts only if there was something to see.
Enough(heard, seen) == heard \/ (seen /\ request.visual)

\* The language, if known, of what is heard.
ReadEvidence ==
    /\ Asking /\ stage = "evidence"
    /\ \E heard, seen, enough \in BOOLEAN, spoken \in Languages \cup {"und"} :
          IF enough /\ Enough(heard, seen)
          THEN /\ evidence' = [by |-> model, heard |-> heard, spoken |-> IF heard THEN spoken ELSE "und",
                               seen |-> seen /\ request.visual]
               /\ Proceed("writing") /\ UNCHANGED draft
          ELSE FailsWith("insufficient")

\* mapResult of the draft, written from the evidence; what it says is for the audit.
Write ==
    /\ Asking /\ stage = "writing" /\ draft' = model
    /\ Proceed("audit") /\ UNCHANGED evidence

\* The language all texts have to be in, if any.
Requested == request.language /= "auto"
Language  == IF Requested THEN request.language ELSE evidence.spoken

Lettered(t) == t.thai + t.latin > 0
InScript(t) == IF Language = "th" THEN t.thai > 0 ELSE t.latin > 0

\* What the evidence says in these words may stay as it is; a translation only keeps names, as labels.
MayStay(t, label) == t.quoted /\ (~Requested \/ (label /\ t.name))

Misfit(t, label) ==
    /\ ~(Requested /\ ~Lettered(t)) /\ ~MayStay(t, label)
    /\ \/ Requested /\ ~InScript(t)
       \/ Language = "en" /\ t.thai > t.latin
       \/ Language = "th" /\ t.thai = 0 /\ t.latin > 4

\* withoutEmoji.
Stripped(t)   == IF request.plain THEN [t EXCEPT !.emoji = FALSE] ELSE t
Vanishes(t)   == request.plain /\ t.only

\* A reply: its caption, a label, the captions of platforms, those of them that the platform would not
\* take or that are missing, and the language it says it is in.
Reply == [text : Texts, label : Texts, platforms : [request.platforms -> Texts],
          unfit : SUBSET request.platforms, language : Languages]

\* readRealClipPlatformCaptions.
EveryPlatform(r) == r.unfit = {}

\* mapResult and enforceGeneratedPreferences.
Acceptable(r) ==
    /\ EveryPlatform(r)
    /\ Language /= "und" => r.language = Language
    /\ \A t \in {r.text} \cup {r.platforms[p] : p \in request.platforms} : ~Misfit(t, FALSE) /\ ~Vanishes(t)
    /\ ~Misfit(r.label, TRUE)

Audit ==
    /\ Asking /\ stage = "audit"
    /\ \E r \in Reply :
          /\ Acceptable(r) /\ End("given")
          /\ caption' = [text |-> Stripped(r.text), label |-> r.label,
                         platforms |-> [p \in request.platforms \ r.unfit |-> Stripped(r.platforms[p])]]
    /\ UNCHANGED <<request, model, attempt, evidence, draft, cut, doubted>>

\* Any fault of the audited reply, also that it is not JSON, is a failed audit.
AuditFails == Asking /\ stage = "audit" /\ FailsWith("ungrounded")

-------------------------------------------------------------------------------
\* A caption from keywords is one call: whatever text comes is taken.
WriteFromKeywords ==
    /\ Asking /\ stage = "keyword" /\ End("given")
    /\ \E t \in Texts : caption' = [text |-> t]
    /\ UNCHANGED <<request, model, attempt, evidence, draft, cut, doubted>>

\* requestTimeoutMs, or the signal of the route; keywords are under no deadline.
Abort ==
    /\ request.kind = "clip" /\ Asking /\ cut' = TRUE
    /\ UNCHANGED <<request, model, stage, attempt, evidence, draft, outcome, caption, doubted>>

\* withSignal: the call and the pause are given up, no further model is asked.
GivesUp ==
    /\ stage /= "done" /\ cut /\ End("timeout")
    /\ UNCHANGED <<request, model, attempt, evidence, draft, caption, cut, doubted>>

Provider == Retry \/ ModelFails \/ KeyRejected \/ ReadEvidence \/ Write \/ Audit \/ AuditFails \/ WriteFromKeywords
Next == Provider \/ Abort \/ GivesUp

Spec == Init /\ [][Next]_vars

-------------------------------------------------------------------------------
(***************************************************************************)
(* Correctness.                                                            *)
(***************************************************************************)
\* What is given of a clip was found, written and audited by one model, and no model before it had
\* found the clip to show too little.  It has a caption of its own for every platform asked for.  No
\* caption is in the other script than the language asked for, or spoken if none was: only when none was
\* may it repeat the clip's own words; and none has emoji if none were wanted.  Sound alone shows nothing.
CaptionsAreGrounded ==
    outcome = "given" /\ request.kind = "clip" =>
        LET own == {caption.text} \cup {caption.platforms[p] : p \in DOMAIN caption.platforms}
        IN  /\ evidence.by = model /\ draft = model /\ ~doubted /\ ~cut
            /\ evidence.heard \/ (evidence.seen /\ request.visual)
            /\ DOMAIN caption.platforms = request.platforms
            /\ \A t \in own :
                  /\ request.plain => ~t.emoji /\ ~t.only
                  /\ \/ request.language = "auto" /\ t.quoted
                     \/ /\ (Language = "th" /\ t.latin > 4) => t.thai > 0
                        /\ Language = "en" => t.latin >= t.thai
===============================================================================
