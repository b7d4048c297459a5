---------------------------- MODULE AiEditRequest ----------------------------
(***************************************************************************)
(* One request for an AI edit (aiEditRoutes) from its body to its answer:  *)
(* the media it names, the transcripts of their parts put together to one, *)
(* the sound effects a model places on it (soundEffectPlanProvider), the   *)
(* plan a model makes of a small video (visualEditPlanProvider), and the   *)
(* deletion of what the app uploaded for this request only.  What a plan   *)
(* cuts is AiEditRecipe's, what the request costs AiUsage's.               *)
(***************************************************************************)
EXTENDS TimedRanges, SequencesExt

CONSTANTS
    Requests,    \* kind, the media fields of the body, and what is asked for
    Keys,        \* of the storage
    Sounds,      \* those that end in .m4a; the others end in .mp4
    Own,         \* those of the user
    Answers,     \* what the transcription of a part may be
    MaxChunks, MaxEffects, MaxPolls

None == "none"
Media == [audio : Keys \cup {None}, chunks : Seq([key : Keys, start : Int]), video : Keys \cup {None}]
NoMedia == [audio |-> None, chunks |-> <<>>, video |-> None]
Request ==
    [kind : {"transcribe", "prepare", "plan"}, body : Media, proxy : Keys \cup {None},
     plan : BOOLEAN, effects : BOOLEAN, duration : Int]
Heard == [ranges : Seq([start : Int, end : Int, sure : BOOLEAN]), length : Int, trusted : BOOLEAN]

\* A plan is made of the app's own transcript: it names no media but the small video.
AiEditRequestAssumption ==
    /\ Sounds \subseteq Keys /\ Own \subseteq Keys /\ None \notin Keys
    /\ MaxChunks \in Nat \ {0} /\ MaxEffects \in Nat /\ MaxPolls \in Nat
    /\ Requests \subseteq Request /\ Answers \subseteq Heard
    /\ \A r \in Requests : IF r.kind = "plan" THEN r.body = NoMedia ELSE r.proxy = None

VARIABLES
    request,
    pc,        \* the await the handler is at
    heard,     \* chunks of transcribeMedia
    answer,    \* the status it will answer with
    effects,   \* soundEffectPlan: the times of its effects
    planner,   \* who made the plan: "none", "visual", "audio"
    polls,
    remote,    \* the file at the model's provider: "none", "there", "lost" (its deletion failed), "gone"
    stored,    \* the keys that are in the storage
    kept       \* those whose deletion failed

vars == <<request, pc, heard, answer, effects, planner, polls, remote, stored, kept>>

-------------------------------------------------------------------------------
(***************************************************************************)
(* readAiEditMedia: one key, or the ordered chunks of one sound, or a      *)
(* video that is not temporary.                                            *)
(***************************************************************************)
Part(key, start) == [key |-> key, start |-> start]

Chunked(body) == body.chunks /= <<>>
Given(body) ==
    {field \in {"audio", "video"} : body[field] /= None} \cup (IF Chunked(body) THEN {"chunks"} ELSE {})

ChunksFit(chunks) ==
    /\ Len(chunks) \in 1..MaxChunks /\ chunks[1].start = 0
    /\ \A i \in DOMAIN chunks :
          /\ chunks[i].key \in Sounds
          /\ \A j \in 1..i - 1 : chunks[j].key /= chunks[i].key /\ chunks[j].start < chunks[i].start

MediaFit(body) ==
    /\ \E field \in {"audio", "video", "chunks"} : Given(body) = {field}
    /\ body.audio /= None => body.audio \in Sounds
    /\ Chunked(body) => ChunksFit(body.chunks)

Parts(body) ==
    IF Chunked(body) THEN body.chunks ELSE <<Part(IF body.audio /= None THEN body.audio ELSE body.video, 0)>>

\* deleteAfterUse: what is deleted at the end, whatever comes of the request.
Uploaded(parts) == [i \in DOMAIN parts |-> parts[i].key]
Temporary(r) ==
    IF r.kind = "plan" THEN IF r.proxy = None THEN <<>> ELSE <<r.proxy>>
    ELSE IF r.body.video /= None THEN <<>> ELSE Uploaded(Parts(r.body))

-------------------------------------------------------------------------------
Init ==
    /\ request \in Requests /\ pc = "read" /\ heard = <<>> /\ answer = None
    /\ effects = <<>> /\ planner = None /\ polls = 0 /\ remote = None
    /\ stored = Keys /\ kept = {}

Goto(next) == pc' = next
Ends(status) == Goto("finally") /\ answer' = status
Stored == <<stored, kept>>
Model == <<polls, remote>>

\* 400 and 403: before the try, so that nothing is deleted.
Refused(r) ==
    IF r.kind = "plan" THEN r.proxy /= None /\ (r.proxy \in Sounds \/ r.proxy \notin Own)
    ELSE ~(MediaFit(r.body) /\ \A p \in ToSet(Parts(r.body)) : p.key \in Own)

Refuse ==
    /\ pc = "read" /\ Refused(request) /\ Goto("end") /\ answer' = "refused"
    /\ UNCHANGED <<request, heard, effects, planner, Stored, Model>>

\* For a plan also the membership and the fields are read before the try.
Begin ==
    /\ pc = "read" /\ ~Refused(request)
    /\ Goto(IF request.kind = "plan" THEN "segments" ELSE "transcribe")
    /\ UNCHANGED <<request, heard, answer, effects, planner, Stored, Model>>
RefusePlan ==
    /\ pc = "read" /\ request.kind = "plan" /\ Goto("end") /\ answer' = "refused"
    /\ UNCHANGED <<request, heard, effects, planner, Stored, Model>>

\* Inside the try: no membership (402), no analysis or wrong settings (400), no minutes left (402),
\* no transcript (413, 502), and every error.
Fails ==
    /\ pc \in {"transcribe", "judge", "effects", "segments", "recipe"} /\ Ends("failed")
    /\ UNCHANGED <<request, heard, effects, planner, Stored, Model>>

-------------------------------------------------------------------------------
(***************************************************************************)
(* transcribeMedia: one part after the other.                              *)
(***************************************************************************)
TranscribePart ==
    LET parts == Parts(request.body)
    IN  /\ pc = "transcribe" /\ parts[Len(heard) + 1].key \in stored
        /\ \E a \in Answers : heard' = Append(heard, a)
        /\ Goto(IF Len(heard) + 1 = Len(parts) THEN "judge" ELSE "transcribe")
        /\ UNCHANGED <<request, answer, effects, planner, Stored, Model>>

\* shiftTranscriptionResult: onto the time of the clip, and not beyond the next part.
Shift(r, from) == [start |-> from + r.start, end |-> from + r.end, sure |-> r.sure]
Clip(r, until) == [r EXCEPT !.end = IF @ <= until THEN @ ELSE until]
Fits(r, from, until) == from <= r.start /\ r.start < Clip(r, until).end

\* The times are preserved if nothing was left out and nothing clipped.
Shifted(a, from, until) ==
    LET moved == [i \in DOMAIN a.ranges |-> Shift(a.ranges[i], from)]
        Pushed(r) == IF Fits(r, from, until) THEN <<Clip(r, until)>> ELSE <<>>
    IN  [ranges  |-> FlattenSeq([i \in DOMAIN moved |-> Pushed(moved[i])]),
         trusted |-> /\ a.trusted /\ from + a.length <= until
                     /\ \A i \in DOMAIN moved : Fits(moved[i], from, until) /\ moved[i].end <= until]

\* mergeChunkedTranscriptions: the last part ends where it ends.
Untouched(parts) == Len(parts) = 1

Until(parts, answers, i) ==
    IF i < Len(parts) THEN parts[i + 1].start
    ELSE parts[i].start + Max({answers[i].length} \cup {r.end : r \in ToSet(answers[i].ranges)})

WholeLength(parts, answers) == parts[Len(parts)].start + answers[Len(parts)].length

Merged(parts, answers) ==
    IF Untouched(parts) THEN answers[1]
    ELSE LET all == [i \in DOMAIN parts |-> Shifted(answers[i], parts[i].start, Until(parts, answers, i))]
         IN  [ranges  |-> FlattenSeq([i \in DOMAIN all |-> all[i].ranges]),
              length  |-> WholeLength(parts, answers),
              trusted |-> \A i \in DOMAIN all : all[i].trusted]

Transcript == Merged(Parts(request.body), heard)

\* resolveTimelineDurationSeconds: the longer of what the app and what the transcript says.
Duration == IF request.duration >= Transcript.length THEN request.duration ELSE Transcript.length

TimesProven == Transcript.trusted /\ StrictEvidence(Transcript.ranges, Duration)

\* POST /transcribe gives the transcript as it is.
Transcribed ==
    /\ pc = "judge" /\ request.kind = "transcribe" /\ Ends("ok")
    /\ UNCHANGED <<request, heard, effects, planner, Stored, Model>>

\* 422: a plan or effects are asked for, and the times are not proven.
Timed(r) == r.plan \/ r.effects
RefuseTimes ==
    /\ pc = "judge" /\ request.kind = "prepare" /\ Timed(request) /\ ~TimesProven /\ Ends("untimed")
    /\ UNCHANGED <<request, heard, effects, planner, Stored, Model>>

\* The plan, by words (editPlanProvider).
Prepare ==
    /\ pc = "judge" /\ request.kind = "prepare" /\ (Timed(request) => TimesProven)
    /\ planner' = IF request.plan THEN "audio" ELSE None
    /\ Goto(IF request.effects THEN "effects" ELSE "recipe")
    /\ UNCHANGED <<request, heard, answer, effects, Stored, Model>>

-------------------------------------------------------------------------------
(***************************************************************************)
(* Sound effects.                                                          *)
(***************************************************************************)
Sure(ranges) == {r \in ToSet(ranges) : r.sure}

\* buildSoundEffectTimingAnchors.
Anchors(ranges, duration) ==
    LET InClip(r) == 0 <= r.start /\ r.start < r.end /\ r.end <= duration
    IN  {t \in UNION {{r.start, r.end} : r \in {s \in ranges : InClip(s)}} : t < duration}

\* parseLlmSoundEffectPlan: the whole answer, or nothing of it.
EffectsFitSomehow(times, anchors) ==
    /\ Len(times) <= MaxEffects /\ (times /= <<>> => ToSet(times) \cap anchors /= {})
EffectsFit(times, anchors) ==
    /\ Len(times) <= MaxEffects /\ IsInjective(times) /\ ToSet(times) \subseteq anchors

Sorted(times) ==
    {placed \in [DOMAIN times -> ToSet(times)] :
        /\ \A i, j \in DOMAIN placed : i < j => placed[i] <= placed[j]
        /\ \E p \in [DOMAIN times -> DOMAIN times] :
              IsInjective(p) /\ \A i \in DOMAIN placed : placed[i] = times[p[i]]}

\* What the provider may answer: times anywhere in the clip and past its end.
Suggested == UNION {[1..n -> 0..Duration] : n \in 0..MaxEffects + 1}

PlaceEffects ==
    /\ pc = "effects" /\ Goto("recipe")
    /\ LET anchors == Anchors(Sure(Transcript.ranges), Duration)
       IN  \/ /\ anchors /= {}
              /\ \E times \in Suggested : EffectsFit(times, anchors) /\ effects' \in Sorted(times)
           \* No anchor, no answer, or one that is not taken: the edit goes on without.
           \/ UNCHANGED effects
    /\ UNCHANGED <<request, heard, answer, planner, Stored, Model>>

AnswerRecipe ==
    /\ pc = "recipe" /\ Ends("ok")
    /\ UNCHANGED <<request, heard, effects, planner, Stored, Model>>

-------------------------------------------------------------------------------
(***************************************************************************)
(* POST /plan: from the app's own transcript, and from a video if there is *)
(* one and a length is asked for.                                          *)
(***************************************************************************)
ReadSegments ==
    /\ pc = "segments"
    /\ \/ Ends("untimed") /\ UNCHANGED planner
       \/ /\ Goto(IF request.proxy /= None /\ request.plan THEN "upload" ELSE "recipe")
          /\ planner' = IF request.proxy /= None /\ request.plan THEN None ELSE "audio"
          /\ UNCHANGED answer
    /\ UNCHANGED <<request, heard, effects, Stored, Model>>

\* fetchVisualMedia, filesClient.upload.
Upload ==
    /\ pc = "upload" /\ request.proxy \in stored
    /\ remote' = "there" /\ Goto("poll") /\ polls' = 0
    /\ UNCHANGED <<request, heard, answer, effects, planner, Stored>>

Poll ==
    /\ pc = "poll" /\ polls < MaxPolls /\ polls' = polls + 1
    /\ UNCHANGED <<request, pc, heard, answer, effects, planner, remote, Stored>>

\* The answer holds one plan, perhaps more than once.
Watched ==
    /\ pc = "poll" /\ planner' = "visual" /\ Goto("forget")
    /\ UNCHANGED <<request, heard, answer, effects, Model, Stored>>

\* The upload, the processing or the model fails, the processing takes too long, or the answer holds no
\* plan or two different ones: the plan is made from the words.
WatchFails ==
    /\ pc \in {"upload", "poll"} /\ planner' = "audio"
    /\ Goto("forget")
    /\ UNCHANGED <<request, heard, answer, effects, Model, Stored>>

\* The finally of the visual planner; the file expires anyway.
Forget ==
    /\ pc = "forget" /\ Goto("recipe")
    /\ remote' \in IF remote = "there" THEN {"gone", "lost"} ELSE {remote}
    /\ UNCHANGED <<request, heard, answer, effects, planner, polls, Stored>>

-------------------------------------------------------------------------------
(***************************************************************************)
(* cleanupTemporaryAudio; the deletion of the proxy.  A failed deletion is *)
(* followed by that of the next.                                           *)
(***************************************************************************)
Left == {i \in DOMAIN Temporary(request) : Temporary(request)[i] \in stored \ kept}

Delete(key) ==
    /\ pc = "finally" /\ Left /= {} /\ key = Temporary(request)[Min(Left)]
    /\ \/ stored' = stored \ {key} /\ UNCHANGED kept
       \/ kept' = kept \cup {key} /\ UNCHANGED stored
    /\ UNCHANGED <<request, pc, heard, answer, effects, planner, Model>>

Answer ==
    /\ pc = "finally" /\ Left = {} /\ Goto("end")
    /\ UNCHANGED <<request, heard, answer, effects, planner, Model, Stored>>

\* POST /audio/cleanup and /visual-proxy/cleanup: the app gives up, before, while or after it is answered.
Named(r) == ({r.proxy, r.body.audio} \cup {c.key : c \in ToSet(r.body.chunks)}) \ {None}

CleanUp(key) ==
    /\ key \in Named(request) \cap Own /\ stored' = stored \ {key}
    /\ UNCHANGED <<request, pc, heard, answer, effects, planner, kept, Model>>

Next ==
    \/ Refuse \/ RefusePlan \/ Begin \/ Fails \/ TranscribePart \/ Transcribed \/ RefuseTimes \/ Prepare
    \/ PlaceEffects \/ AnswerRecipe \/ ReadSegments \/ Upload \/ Poll \/ Watched \/ WatchFails \/ Forget
    \/ \E key \in Keys : Delete(key) \/ CleanUp(key)
    \/ Answer

Spec == Init /\ [][Next]_vars

-------------------------------------------------------------------------------
(***************************************************************************)
(* Correctness.                                                            *)
(***************************************************************************)
\* The handler has entered its try.
Entered == answer /= "refused" /\ pc /= "read"

\* What the app uploaded for one request is gone when it is answered, as far as the storage lets go of
\* it, also when the request failed; nothing else is ever deleted, nothing of another user, and no video
\* that stays; and no copy is left with the model's provider that one could have deleted.
TemporaryMediaGo ==
    /\ pc = "end" /\ Entered => Named(request) \cap stored \subseteq kept /\ remote /= "there"
    /\ Keys \ stored \subseteq Named(request) \cap Own

\* Where the i-th part puts what was heard in it.
Where(i) == {Shift(r, Parts(request.body)[i].start) : r \in ToSet(heard[i].ranges)}

\* Every effect is at the start or the end of something that was surely heard, none two at once; and what
\* is planned from a clip of several parts is planned on the times of the parts, none of which runs into
\* the next.
EffectsAtWords ==
    /\ IsInjective(effects) /\ Len(effects) <= MaxEffects
    /\ \A t \in ToSet(effects) : \E i \in DOMAIN heard : \E r \in Where(i) : r.sure /\ t \in {r.start, r.end}
    /\ request.kind = "prepare" /\ (planner /= None \/ effects /= <<>>) =>
          /\ ToSet(Transcript.ranges) = UNION {Where(i) : i \in DOMAIN heard}
          /\ \A i, j \in DOMAIN heard : i < j =>
                \A r \in Where(i), s \in Where(j) : r.end <= s.start
===============================================================================
