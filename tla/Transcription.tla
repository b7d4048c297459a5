---------------------------- MODULE Transcription ----------------------------
(***************************************************************************)
(* What transcriptionProvider.ts makes of a provider's answer: a           *)
(* transcript, and whether its times may be relied on.  OpenAI sends       *)
(* segments and words, ElevenLabs a list of events, of which the segments  *)
(* are made here.  An item with a missing or impossible time ends before   *)
(* it begins.  A text is a sequence of letters, as in SubtitleCues; Label  *)
(* stands in it for the name of a sound.                                   *)
(***************************************************************************)
EXTENDS TimedRanges, SequencesExt

CONSTANTS
    Label,
    SegmentTime, SegmentLetters,   \* elevenLabsMaxSegmentSeconds, ...Graphemes
    LongestTime, LongestLetters    \* elevenLabsEmergencyMaxSegmentSeconds, ...Graphemes

PauseBoundary == 55       \* elevenLabsPauseBoundarySeconds
EmergencyPause == 200     \* elevenLabsEmergencyPauseBoundarySeconds

\* hasValidTimedBounds; no limit is known if it is zero.
Timed(item, limit) ==
    0 <= item.start /\ item.start < item.end /\ (limit > 0 => item.end <= limit)

\* readOpenAiSegments, readOpenAiWords, auditElevenLabsEvents: what is out of order is dropped, and
\* nothing is relied on then.
Audit(items, limit) ==
    LET Add(audit, item) ==
            IF Timed(item, limit) /\ item.start >= audit.end
            THEN [audit EXCEPT !.items = Append(@, item), !.end = item.end]
            ELSE [audit EXCEPT !.trusted = FALSE]
    IN  FoldLeft(Add, [items |-> <<>>, end |-> 0, trusted |-> TRUE], items)

Result(text, duration, segments, words, trusted, events) ==
    [text |-> text, duration |-> duration, segments |-> segments, words |-> words,
     trusted |-> trusted, events |-> events]

-------------------------------------------------------------------------------
\* normalizeOpenAiCompatibleTranscription: one of the streams says all that the text says.
Says(audit, text) == audit.items /= <<>> /\ Text(audit.items) = text
Complete(text, segments, words) == text = <<>> \/ Says(segments, text) \/ Says(words, text)
OfStreams(answer, segments, words) ==
    Result(answer.text, answer.duration, segments.items, words.items,
           /\ answer.duration > 0 /\ answer.given /= {}
           /\ "segments" \in answer.given => segments.trusted
           /\ "words" \in answer.given => words.trusted
           /\ Complete(answer.text, segments, words),
           FALSE)
OpenAi(answer) ==
    OfStreams(answer, Audit(answer.segments, answer.duration), Audit(answer.words, answer.duration))

-------------------------------------------------------------------------------
\* readElevenLabsProviderSpeechCoverage: without one label for each sound that has its time.
IsSpeech(letter) == letter /= Label
IsLabel(letter) == letter = Label
SpeechIn(text, sounds) ==
    IF Len(SelectSeq(text, IsLabel)) <= sounds THEN SelectSeq(text, IsSpeech) ELSE text

IsWord(event) == event.kind = "word"

\* readElevenLabsSemanticBoundaryOffsets: a word of the language, of which starts has the first letters,
\* begins with the i-th timed one, or the text ends before it.
Starts(words, i, starts) ==
    \/ i \in {1, Len(words) + 1} \/ words[i].text[1] \in starts
    \/ words[i].text[1] /= Last(words[i - 1].text) + 1

\* buildElevenLabsSegments: one ends at a pause or when it is long, but inside a word only if it must.
Breaks(current, words, i, starts) ==
    LET pause == words[i].start - current.end
    IN  pause >= PauseBoundary /\ (Starts(words, i, starts) \/ pause >= EmergencyPause)
Reaches(part, time, letters) == part.end - part.start >= time \/ Len(part.text) >= letters
Ends(part, words, i, starts) ==
    \/ words[i].stops
    \/ Reaches(part, LongestTime, LongestLetters)
    \/ Reaches(part, SegmentTime, SegmentLetters) /\ Starts(words, i + 1, starts)
SegmentsOf(words, starts) ==
    LET Grown(part, word) == [part EXCEPT !.text = @ \o word.text, !.end = word.end]
        Begun(word) == [text |-> word.text, start |-> word.start, end |-> word.end, reliable |-> TRUE]
        Put(done, part, i) == [done |-> Append(done, part), open |-> ~Ends(part, words, i, starts)]
        Add(state, i) ==
            IF state.open /\ ~Breaks(Last(state.done), words, i, starts)
            THEN Put(Front(state.done), Grown(Last(state.done), words[i]), i)
            ELSE Put(state.done, Begun(words[i]), i)
    IN  FoldLeftDomain(Add, [done |-> <<>>, open |-> FALSE], words).done

\* normalizeElevenLabsTranscription: the text may be missing, then it is what the words say.
OfEvents(answer, audit, words, sounds, starts) ==
    Result(IF answer.told THEN answer.text ELSE Text(words), audit.end, SegmentsOf(words, starts), words,
           audit.trusted /\ (answer.told => SpeechIn(answer.text, sounds) = Text(words)), sounds > 0)
ElevenLabs(answer, starts) ==
    LET audit == Audit(answer.events, 0)
        words == SelectSeq(audit.items, IsWord)
    IN  OfEvents(answer, audit, words, Len(audit.items) - Len(words), starts)
===============================================================================
