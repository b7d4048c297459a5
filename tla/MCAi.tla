--------------------------------- MODULE MCAi ---------------------------------
(***************************************************************************)
(* Five questions about the AI features, each on small instances and       *)
(* apart: what requests cost (AiUsage), where one place and two monthly    *)
(* credits are too few for two requests; how a caption is written          *)
(* (CaptionWriting); what becomes of the media of an edit (AiEditRequest); *)
(* what an edit removes (AiEditRecipe), from clips in which every word is  *)
(* a cue and a segment of its own, a second long or two, spoken at once or *)
(* after a pause of a second; and what its subtitles say (SubtitleCues).   *)
(***************************************************************************)
EXTENDS AiFeatures, FiniteSets, SequencesExt, MCTranscripts

CONSTANTS r1, r2, s1, s2, v1, foreign

VARIABLES heard, limit, stage, evidence, lines, made
requests == <<usage, minutes, ledger, path, req, places, exits, lost>>
edits   == <<tokens, index, repeat, groups, filmed, want, editing, cutting, recipe>>
titles  == <<heard, limit, stage, evidence, lines, made>>
media   == <<asked, at, parts, reply, effects, planner, polls, remote, stored, kept>>
writing == <<written, model, step, call, grounds, draft, outcome, caption, cut, doubted>>

TwoRequests == {r1, r2}
AllKinds == {"keyword", "clip", "edit"}
AllPaths == {"gemini", "legacy", "local"}

-------------------------------------------------------------------------------
(***************************************************************************)
(* What is asked of CaptionWriting: captions of a clip or from keywords,   *)
(* for platforms and with texts of every kind the checks tell apart.       *)
(***************************************************************************)
Written(thai, latin, quoted, name, emoji, only) ==
    [thai |-> thai, latin |-> latin, quoted |-> quoted, name |-> name, emoji |-> emoji, only |-> only]
Sentence == Written(9, 0, FALSE, FALSE, TRUE, FALSE)
English  == Written(0, 9, FALSE, FALSE, FALSE, FALSE)
Foreign  == Written(0, 9, TRUE, FALSE, FALSE, FALSE)
Brand    == Written(0, 9, TRUE, TRUE, FALSE, FALSE)
Price    == Written(0, 0, FALSE, FALSE, FALSE, FALSE)
Smile    == Written(0, 0, FALSE, FALSE, TRUE, TRUE)
SomeTexts == {Sentence, English, Foreign, Brand, Price, Smile}

Ask(kind, language, plain, platforms, visual) ==
    [kind |-> kind, language |-> language, plain |-> plain, platforms |-> platforms, visual |-> visual]
AnyCaption == Ask("keyword", "auto", FALSE, {}, FALSE)
Captions ==
    {Ask("clip", language, plain, {"first"}, visual) :
        language \in {"auto", "th", "en", "fr"}, plain \in BOOLEAN, visual \in BOOLEAN}
    \cup {Ask("clip", "auto", FALSE, {"first", "second"}, TRUE), Ask("clip", "th", TRUE, {}, FALSE), AnyCaption}

-------------------------------------------------------------------------------
(***************************************************************************)
(* What is asked of AiEditRequest: an edit of a video, a sound or two      *)
(* chunks of one, among keys that are not the user's or of the wrong kind. *)
(***************************************************************************)
SoundKeys == {s1, s2}
UserKeys  == {s1, s2, v1}
AllKeys   == UserKeys \cup {foreign}

Body(audio, chunks, video) == [audio |-> audio, chunks |-> chunks, video |-> video]
Chunk(key, start) == [key |-> key, start |-> start]
Nothing == Body("none", <<>>, "none")
Chunks(first, second) == Body("none", <<first, second>>, "none")
Bodies ==
    {Body(s1, <<>>, "none"), Body(v1, <<>>, "none"), Body(foreign, <<>>, "none"), Body("none", <<>>, v1),
     Body(s1, <<>>, v1), Nothing, Chunks(Chunk(s1, 0), Chunk(s2, 3)), Chunks(Chunk(s1, 0), Chunk(s1, 3)),
     Chunks(Chunk(s1, 1), Chunk(s2, 3)), Chunks(Chunk(s1, 0), Chunk(foreign, 2)), Chunks(Chunk(s1, 0), Chunk(s2, 0))}

EditOf(kind, body, proxy, planned, sounds) ==
    [kind |-> kind, body |-> body, proxy |-> proxy, plan |-> planned, effects |-> sounds, duration |-> 4]
AnyAiEdit == EditOf("transcribe", Nothing, "none", FALSE, FALSE)
AiEdits ==
    {EditOf("prepare", body, "none", planned, sounds) : body \in Bodies, planned \in BOOLEAN, sounds \in BOOLEAN}
    \cup {EditOf("transcribe", body, "none", FALSE, FALSE) : body \in Bodies}
    \cup {EditOf("plan", Nothing, proxy, planned, FALSE) : proxy \in {"none", v1, s1, foreign}, planned \in BOOLEAN}

Part(start, end, sure) == [start |-> start, end |-> end, sure |-> sure]
Transcripts ==
    {[ranges |-> ranges, length |-> length, trusted |-> trusted] :
        ranges \in {<<>>, <<Part(0, 2, TRUE)>>, <<Part(1, 2, FALSE), Part(2, 4, TRUE)>>,
                    <<Part(0, 3, TRUE), Part(2, 3, TRUE)>>, <<Part(2, 2, TRUE)>>, <<Part(-1, 1, TRUE)>>},
        length \in {3, 4}, trusted \in BOOLEAN}

-------------------------------------------------------------------------------
(***************************************************************************)
(* What is asked of AiEditRecipe.                                          *)
(***************************************************************************)
Style(signal, weak, clear, hook, stops, key, rude) ==
    [signal |-> signal, weak |-> weak, clear |-> clear, hook |-> hook, stops |-> stops,
     ends |-> stops, key |-> key, rude |-> rude]
Plain == Style(0, FALSE, FALSE, FALSE, FALSE, FALSE, FALSE)

\* What may be said: two words, one of them also at the end of a sentence, and a price.
Spoken == {"a", "b", "a.", "price"}
TextOf(kind)  == IF kind = "a." THEN "a" ELSE kind
StyleOf(kind) ==
    CASE kind = "a"  -> [Plain EXCEPT !.weak = TRUE]
      [] kind = "b"  -> [Plain EXCEPT !.clear = TRUE, !.rude = TRUE]
      [] kind = "a." -> [Plain EXCEPT !.stops = TRUE, !.ends = TRUE]
      [] OTHER       -> [Plain EXCEPT !.signal = 4, !.key = TRUE]

Said(kind, pause, length) == [kind |-> kind, pause |-> pause, length |-> length]

\* When the i-th of what is said begins.
StartOf(said, i) == MapThenSumSet(LAMBDA j : said[j].pause + (IF j < i THEN said[j].length ELSE 0), 1..i)

\* The clip in which this is said; the segment unreliable, if any, is not trusted.
ClipOf(said, unreliable, trusted, duration) ==
    LET Segment(i) == [start |-> StartOf(said, i), end |-> StartOf(said, i) + said[i].length,
                       style |-> StyleOf(said[i].kind), reliable |-> i /= unreliable]
        segments   == [i \in DOMAIN said |-> Segment(i)]
    IN  [words    |-> [i \in DOMAIN said |-> [text |-> TextOf(said[i].kind), ends |-> said[i].kind = "a.",
                                              start |-> Segment(i).start, end |-> Segment(i).end]],
         segments |-> segments, cues |-> SelectSeq(segments, LAMBDA s : s.reliable),
         duration |-> duration, trusted |-> trusted, events |-> FALSE, exact |-> TRUE]
EndOf(said) == StartOf(said, Len(said)) + said[Len(said)].length
Clean(said) == ClipOf(said, 0, TRUE, EndOf(said) + 1)

\* The first is said at once.
Speeches(n, kinds, lengths) ==
    {said \in [1..n -> {Said(kind, pause, length) : kind \in kinds, pause \in {0, 1}, length \in lengths}] :
        said[1].pause = 0}

Want(kind, target, tells, clean, follow, filler) ==
    [plan |-> kind, target |-> target, tells |-> tells, clean |-> clean, follow |-> follow, filler |-> filler]
Target(t)   == Want("target", t, 0, FALSE, FALSE, "off")
Repeats2    == Want("none", 0, 0, FALSE, FALSE, "auto")
Instruct    == {Want("prompt", 0, 2, TRUE, FALSE, "off"), Want("prompt", 3, 0, TRUE, FALSE, "auto"),
                Want("style", 2, 0, FALSE, TRUE, "listed")}
Doubtful    == {Want("none", 0, 0, FALSE, FALSE, "listed"), Repeats2, Target(2)}

Pairs(clips, wants) == {[clip |-> c, want |-> w] : c \in clips, w \in wants}

\* Cues longer than the target, and silences; openings of every kind; repeats; instructions; times in doubt.
LongCues == Pairs({ClipOf(s, 0, TRUE, EndOf(s) + d) : s \in Speeches(3, {"a"}, {1, 7}), d \in {1, 3}}, {Target(6)})
Openings == Pairs({Clean(s) : s \in Speeches(3, Spoken, {1, 2})}, {Target(3)})
Prices   == Pairs({Clean(s) : s \in Speeches(3, {"a", "price"}, {1, 2, 4})}, {Target(4)})
Repeated == Pairs({Clean(s) : s \in Speeches(5, {"a", "b", "a."}, {1})}, {Repeats2})
Told     == Pairs({Clean(s) : s \in Speeches(3, {"a", "b", "price"}, {1, 2})}, Instruct)
InDoubt  == Pairs({ClipOf(s, u, t, EndOf(s) - d) : s \in Speeches(2, {"a", "b"}, {1}), u \in 0..1, t \in BOOLEAN,
                                                  d \in 0..1}, Doubtful)
Edits == LongCues \cup (Openings \cup (Prices \cup (Repeated \cup (Told \cup InDoubt))))

MCFillers == {"b"}
Seconds(start, end) == [start |-> start, end |-> end]
MCSuggestions == {{}, {Seconds(-1, 2)}, {Seconds(2, 4), Seconds(3, 9)}}

Subtitles == INSTANCE SubtitleCues WITH Transcripts <- Clips, Limits <- {1, 3}, MaxWords <- 2,
                                        MaxLetters <- 3, EstimatedWords <- 2

-------------------------------------------------------------------------------
(***************************************************************************)
(* One of the five.                                                        *)
(***************************************************************************)
NoEdit == [clip |-> Clean(<<Said("a", 0, 1)>>), want |-> Repeats2]

NoEditYet ==
    /\ filmed = NoEdit.clip /\ want = NoEdit.want /\ editing = "none"
    /\ cutting = Recipe!NoPlan /\ recipe = Recipe!NoRecipe
    /\ tokens = <<>> /\ index = 1 /\ repeat = Recipe!NoRun /\ groups = {}
NoTitles == /\ heard = AnyClip /\ limit = 0 /\ stage = "none" /\ lines = <<>>
            /\ evidence = Subtitles!NoEvidence /\ made = Subtitles!NotMade
NoRequests == path = "local" /\ Usage!Init
NoMedia   == asked = AnyAiEdit /\ Prepared!Init
NoCaption == written = AnyCaption /\ Writing!Init

MCInit ==
    \/ Usage!Init /\ NoEditYet /\ NoTitles /\ NoMedia /\ NoCaption
    \/ NoRequests /\ Recipe!Init /\ NoTitles /\ NoMedia /\ NoCaption
    \/ NoRequests /\ NoEditYet /\ Subtitles!Init /\ NoMedia /\ NoCaption
    \/ NoRequests /\ NoEditYet /\ NoTitles /\ Prepared!Init /\ asked /= AnyAiEdit /\ NoCaption
    \/ NoRequests /\ NoEditYet /\ NoTitles /\ NoMedia /\ Writing!Init /\ written /= AnyCaption

Idle == editing = "none" /\ stage = "none" /\ asked = AnyAiEdit /\ written = AnyCaption
Asks  == Idle /\ Usage!Next /\ UNCHANGED <<edits, titles, media, writing>>
Edit  == editing /= "none" /\ Recipe!Next /\ UNCHANGED <<requests, titles, media, writing>>
Title == stage /= "none" /\ Subtitles!Next /\ UNCHANGED <<requests, edits, media, writing>>
Heed  == asked /= AnyAiEdit /\ Prepared!Next /\ UNCHANGED <<requests, edits, titles, writing>>
Write == written /= AnyCaption /\ Writing!Next /\ UNCHANGED <<requests, edits, titles, media>>
MCNext == Asks \/ Edit \/ Title \/ Heed \/ Write

MCSpec == MCInit /\ [][MCNext]_<<requests, edits, titles, media, writing>>
          /\ \A r \in UsageRequests : WF_requests(Usage!OwnStep(r)) /\ WF_requests(Usage!TimesOut(r))

\* SubtitleCues: nothing of what was heard is lost, torn or put where it does not fit, and where the clip may
\* be cut as silent nobody speaks.
SubtitlesAreTrue == Subtitles!SubtitlesSayWhatWasHeard /\ Subtitles!SilencesAreSilent
===============================================================================
