---------------------------- MODULE MCTranscripts ----------------------------
(***************************************************************************)
(* Small clips for SubtitleCues, as Transcription makes them of answers:   *)
(* three to five things are said one after the other, each letter of which *)
(* takes 0.6 s, at once or after a pause.                                  *)
(***************************************************************************)
LOCAL INSTANCE Integers
LOCAL INSTANCE Sequences
LOCAL INSTANCE FiniteSetsExt
LOCAL INSTANCE SequencesExt

Read == INSTANCE Transcription WITH
            Label <- 0, SegmentTime <- 150, SegmentLetters <- 3, LongestTime <- 240, LongestLetters <- 4

\* The sum of f over 1..i.
LOCAL Sum(f, i) == MapThenSumSet(LAMBDA j : f[j], 1..i)

\* What is said: its lengths in letters, and the pause before each part.
LOCAL Speech(lengths, pauses) ==
    LET Time(i) == 60 * Sum(lengths, i - 1) + Sum(pauses, i)
    IN  [i \in DOMAIN lengths |-> [text |-> [k \in 1..lengths[i] |-> Sum(lengths, i - 1) + k],
                                  start |-> Time(i), end |-> Time(i) + 60 * lengths[i]]]

LOCAL Heard(said, starts, thai, result) ==
    [said |-> said, starts |-> starts, thai |-> thai, text |-> result.text, duration |-> result.duration,
     segments |-> result.segments, words |-> result.words, trusted |-> result.trusted, events |-> result.events]

LOCAL These(n, S) == SelectSeq([i \in 1..n |-> i], LAMBDA i : i \in S)

\* OpenAI: the parts after which it begins a segment, the segment it is not sure of, the parts that its
\* words leave out and those that its segments do, and the streams that it sends.
LOCAL Segment(said, first, last, reliable) ==
    [text |-> Read!Text(SubSeq(said, first, last)), start |-> said[first].start, end |-> said[last].end,
     reliable |-> reliable]
LOCAL Streams(said, cuts, unreliable, missing, holes, given) ==
    LET n     == Len(said)
        ends  == These(n, cuts \cup {n})
        timed == These(n, (1..n) \ missing)
        First(s) == IF s = 1 THEN 1 ELSE ends[s - 1] + 1
        told  == SelectSeq([s \in DOMAIN ends |-> s], LAMBDA s : ~(First(s)..ends[s] \subseteq holes))
    IN  [text |-> Read!Text(said), duration |-> said[n].end + 30, given |-> given,
         words |-> IF "words" \in given THEN [k \in DOMAIN timed |-> said[timed[k]]] ELSE <<>>,
         segments |-> IF "segments" \in given
                      THEN [k \in DOMAIN told |-> Segment(said, First(told[k]), ends[told[k]], told[k] /= unreliable)]
                      ELSE <<>>]
LOCAL ByOpenAi(said, starts, thai, answer) == Heard(said, starts, thai, Read!OpenAi(answer))

\* ElevenLabs: a part whose time is lost, one that is left out, one after which there is a sound, one that
\* ends a sentence; and the text, or not.
LOCAL Events(said, lost, gone, sound, stop, told) ==
    LET Event(i) == [kind |-> "word", text |-> said[i].text, start |-> said[i].start,
                     end |-> IF i = lost THEN said[i].start ELSE said[i].end, stops |-> i = stop]
        Sound(i) == [kind |-> "audio_event", text |-> <<0>>, start |-> said[i].end, end |-> said[i].end + 5,
                     stops |-> FALSE]
        With(i)  == IF i = sound THEN <<Event(i), Sound(i)>> ELSE <<Event(i)>>
        all      == FlattenSeq([i \in DOMAIN said |-> With(i)])
    IN  [told |-> told, text |-> Read!Text(all),
         events |-> IF gone = 0 THEN all ELSE SelectSeq(all, LAMBDA e : e.text /= said[gone].text)]
LOCAL ByElevenLabs(said, starts, thai, answer) == Heard(said, starts, thai, Read!ElevenLabs(answer, starts))

LOCAL Pauses(n, P) == {p \in [1..n -> P \cup {0}] : p[1] = 0}
LOCAL WordStarts(n) == {S \cup {1} : S \in SUBSET (2..n)}
LOCAL Ones(n) == [i \in 1..n |-> 1]
LOCAL Both == {"segments", "words"}

\* The first segment of a Thai clip is in doubt, or none is.
LOCAL Doubts == {[doubtful |-> 0, thai |-> t] : t \in BOOLEAN} \cup {[doubtful |-> 1, thai |-> TRUE]}

\* Words cut anywhere; words of two letters and of three; missing and doubtful parts; one stream or none;
\* events out of which segments are made.
CutWords ==
    {ByOpenAi(Speech(Ones(4), p), w, TRUE, Streams(Speech(Ones(4), p), c, 0, {}, {}, Both)) :
        p \in Pauses(4, {10, 60}), w \in WordStarts(4), c \in SUBSET (1..3)}
LongWords ==
    {ByOpenAi(Speech(l, p), w, TRUE, Streams(Speech(l, p), c, 0, {}, {}, Both)) :
        l \in [1..3 -> {1, 2}], p \in Pauses(3, {10}), w \in {{1}, {1, 3}, {1, 4}, {1, 2, 5}, 1..6},
        c \in SUBSET (1..2)}
Missing ==
    {ByOpenAi(Speech(Ones(5), p), IF d.thai THEN {1, 3, 4} ELSE 1..5, d.thai,
              Streams(Speech(Ones(5), p), c, d.doubtful, m, {}, Both)) :
        p \in Pauses(5, {60}), c \in SUBSET (1..4), m \in {{}, {3}, {5}}, d \in Doubts}
OneStream ==
    {ByOpenAi(Speech(Ones(5), p), 1..5, t, Streams(Speech(Ones(5), p), {2, 3}, 0, m, m, given)) :
        p \in Pauses(5, {60}), t \in BOOLEAN, m \in {{}, {3}, {5}}, given \in SUBSET Both}
Lost ==
    {ByElevenLabs(Speech(Ones(5), p), w, TRUE, Events(Speech(Ones(5), p), f[1], f[2], f[3], stop, told)) :
        p \in Pauses(5, {60}), w \in {{1}, {1, 3}, {1, 4}, 1..5}, stop \in {0, 2}, told \in BOOLEAN,
        f \in {<<0, 0, 0>>, <<3, 0, 0>>, <<3, 0, 2>>, <<0, 0, 2>>}}
LeftOut ==
    {ByElevenLabs(Speech(Ones(5), p), {1, 3}, TRUE, Events(Speech(Ones(5), p), 0, gone, sound, 0, TRUE)) :
        p \in Pauses(5, {60}), gone \in {3, 5}, sound \in {0, 2}}
Clips == CutWords \cup (LongWords \cup (Missing \cup (OneStream \cup (Lost \cup LeftOut))))

AnyClip == ByOpenAi(Speech(Ones(2), <<0, 60>>), {1, 2}, TRUE, Streams(Speech(Ones(2), <<0, 60>>), {1}, 0, {}, {}, Both))
===============================================================================
