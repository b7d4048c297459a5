----------------------------- MODULE SubtitleCues -----------------------------
(***************************************************************************)
(* What buildAiEditRecipe makes of a transcript: the cues of the subtitles *)
(* with so many words per line, and where the clip may be silent.  A       *)
(* provider tells what was said twice, as segments and as timed words, and *)
(* either may be incomplete or cut a Thai word, which is written without   *)
(* spaces, in two.                                                         *)
(*                                                                         *)
(* A text is a sequence of positions in what was said, one per letter;     *)
(* spaces and punctuation are left out.  Times are in hundredths of a      *)
(* second; an estimated time is rounded down to one.                       *)
(***************************************************************************)
EXTENDS TimedRanges, SequencesExt, FiniteSets

CONSTANTS
    Transcripts,     \* what may have been said, and what a provider makes of it
    Limits,          \* wordsPerLine
    MaxWords,        \* maximumThaiSemanticWordsPerCue
    MaxLetters,      \* maximumThaiGraphemesPerCue
    EstimatedWords   \* maximumEstimatedThaiWordsPerCue

TightGap == 8        \* fragmentedFillerBoundarySeconds
RepairGap == 12      \* maximumThaiFragmentGapSeconds
WordGap == 15        \* maximumFragmentGapSeconds
CueGap == 50         \* maximumGapSeconds
ShortCue == 70       \* minimumEstimatedSubtitleDurationSeconds
EdgeTolerance == 100 \* wordTimingCoverageToleranceSeconds
SilenceGap == 60     \* silenceMinGapSeconds.balanced

VARIABLES
    heard,      \* the transcript: see Transcripts in the module that instantiates this one
    limit,
    stage,      \* "read", "judge", "line", "merge", "finish" or "done"
    evidence,   \* the segments and words whose times are proven, and what is made of them
    lines,      \* the cues so far
    made        \* the recipe's subtitles, silenceRanges, and the exact words that repeats are found in

NoEvidence == [segments |-> <<>>, words |-> <<>>, reliable |-> <<>>, spoken |-> <<>>, repaired |-> <<>>,
               valid |-> FALSE, fragmented |-> FALSE]
NotMade == [cues |-> <<>>, silences |-> {}, exact |-> <<>>]

Init == /\ heard \in Transcripts /\ limit \in Limits
        /\ stage = "read" /\ evidence = NoEvidence /\ lines = <<>> /\ made = NotMade

-------------------------------------------------------------------------------
(***************************************************************************)
(* Texts.                                                                  *)
(***************************************************************************)
Within(a, b) == \E i \in 0..Len(b) - Len(a) : SubSeq(b, i + 1, i + Len(a)) = a
Gap(a, b) == b.start - a.end
Duration(a) == a.end - a.start

\* readThaiSubtitleWordBoundaryOffsets: the dictionary finds the words of what it is given.
StartsWord(text, i) == i = 1 \/ text[i] \in heard.starts \/ text[i] /= text[i - 1] + 1
Pieces(text) ==
    LET Add(pieces, i) == IF StartsWord(text, i) THEN Append(pieces, <<text[i]>>)
                          ELSE [pieces EXCEPT ![Len(pieces)] = Append(@, text[i])]
    IN  FoldLeftDomain(Add, <<>>, text)

\* rebuildThaiWordsFromSegment and rebuildNonThaiWordsFromSegment: as if all letters took the same time.
Spread(part) ==
    LET pieces == Pieces(part.text)
        At(i)  == part.start + (Duration(part) * Len(FlattenSeq(SubSeq(pieces, 1, i)))) \div Len(part.text)
    IN  [i \in DOMAIN pieces |-> [text |-> pieces[i], start |-> At(i - 1), end |-> At(i)]]

Hull(parts) == [text |-> Text(parts), start |-> parts[1].start, end |-> Last(parts).end]

\* isWithinThaiSubtitleCueLimits.
FitsThai(text) == heard.thai => Len(Pieces(text)) <= MaxWords /\ Len(text) <= MaxLetters

-------------------------------------------------------------------------------
(***************************************************************************)
(* The evidence.                                                           *)
(***************************************************************************)
Proven == /\ heard.trusted
          /\ StrictEvidence(heard.segments, heard.duration) /\ StrictEvidence(heard.words, heard.duration)
Segments == evidence.segments
Words    == evidence.words
IsReliable(segment) == segment.reliable
Unreliable == {s \in ToSet(Segments) : ~s.reliable}
IsSpoken(word) == \A s \in Unreliable : ~Overlap(word, s)
Reliable == evidence.reliable
ReliableWords == evidence.spoken

ReadEvidence ==
    /\ stage = "read" /\ stage' = "judge"
    /\ evidence' = IF Proven THEN [evidence EXCEPT !.segments = heard.segments, !.words = heard.words,
                                                   !.reliable = SelectSeq(heard.segments, IsReliable)]
                   ELSE evidence
    /\ UNCHANGED <<heard, limit, lines, made>>

Reference == IF Reliable /= <<>> THEN Text(Reliable) ELSE heard.text

\* coversTranscriptText: most of it, and nothing is missing in between.
CoversMost(text) == 10 * Len(text) >= 8 * Len(heard.text)
CoversText(text) == CoversMost(text) /\ Within(text, heard.text)

\* readValidTranscriptWords is defined.
WordsValid ==
    /\ Words /= <<>> /\ CoversText(Text(Words))
    /\ Segments /= <<>> =>
          /\ Words[1].start - Segments[1].start \in 0..EdgeTolerance
          /\ Last(Segments).end - Last(Words).end \in 0..EdgeTolerance

\* hasFragmentedThaiWordTimings.
SplitAt(words, i) == ~StartsWord(Text(words), Len(Text(SubSeq(words, 1, i))) + 1)
Tight(words) == {i \in 1..Len(words) - 1 : Gap(words[i], words[i + 1]) \in 0..TightGap}
Fragmented(words, reference) ==
    /\ heard.thai /\ Len(words) >= 2 /\ Within(Text(words), reference)
    /\ \/ \E i \in Tight(words) : SplitAt(words, i)
       \/ /\ Len(words) >= 4 /\ 2 * Cardinality(Tight(words)) >= Len(words) - 1
          /\ Pieces(reference) /= [i \in DOMAIN words |-> words[i].text]

\* repairThaiSubtitleSegmentBoundaries: put together what was cut inside a word.
SplitsNothing(segments, i) == FALSE
SplitsWord(segments, i) ==
    heard.thai /\ ~StartsWord(Text(segments), Len(Text(SubSeq(segments, 1, i - 1))) + 1)
Repaired(segments) ==
    LET Add(done, i) ==
            IF i > 1 /\ SplitsWord(segments, i) /\ Gap(Last(done), segments[i]) <= RepairGap
            THEN [done EXCEPT ![Len(done)] = Hull(<<@, segments[i]>>)]
            ELSE Append(done, Hull(<<segments[i]>>))
    IN  FoldLeftDomain(Add, <<>>, segments)

\* validTranscriptWords, fragmentedThaiWordTimings, subtitleTranscriptSegments.
JudgeEvidence ==
    /\ stage = "judge" /\ stage' = "line"
    /\ LET spoken == SelectSeq(Words, IsSpoken)
           valid  == WordsValid
       IN  evidence' = [evidence EXCEPT !.spoken = spoken, !.valid = valid, !.repaired = Repaired(Reliable),
                                        !.fragmented = valid /\ Fragmented(spoken, Reference)]
    /\ UNCHANGED <<heard, limit, lines, made>>

-------------------------------------------------------------------------------
(***************************************************************************)
(* The cues.                                                               *)
(***************************************************************************)
\* Into the last of the groups a word goes if it fits; a word that is too long by itself stands alone.
Grouped(words, per) ==
    LET Full(group) == Len(group) >= per \/ (Len(group) = 1 /\ ~FitsThai(group[1].text))
        Add(groups, word) ==
            IF groups /= <<>> /\ ~Full(Last(groups)) /\ FitsThai(Text(Append(Last(groups), word)))
            THEN [groups EXCEPT ![Len(groups)] = Append(@, word)]
            ELSE Append(groups, <<word>>)
    IN  FoldLeft(Add, <<>>, words)

\* buildSubtitleSegments: of at most per words; a short rest goes into the last line where it fits.
Settled(groups, per, shortest) ==
    LET n      == Len(groups)
        both   == groups[n - 1] \o groups[n]
        merges == /\ n > 1 /\ Duration(Hull(groups[n])) < shortest
                  /\ Len(both) <= per /\ FitsThai(Text(both))
    IN  IF merges THEN Append(SubSeq(groups, 1, n - 2), both) ELSE groups
Hulls(groups) == [i \in DOMAIN groups |-> Hull(groups[i])]
Lines(words, per, shortest) ==
    Hulls(Settled(Grouped(FlattenSeq([i \in DOMAIN words |-> Spread(words[i])]), per), per, shortest))

\* buildEstimatedThaiSubtitleSegments, and its like for other languages.
Smaller(a, b) == IF a < b THEN a ELSE b
Estimated(segment, per) ==
    Lines(Spread(segment), IF heard.thai THEN Smaller(per, EstimatedWords) ELSE per, ShortCue)

\* buildReadableFallbackSubtitleSegments.
IfSeveral(cues, segment) == IF Len(cues) > 1 THEN cues ELSE <<segment>>
Readable(segment, per) == IfSeveral(Estimated(segment, per), segment)

\* mergeShortSubtitleSegments: a short cue takes in the next; a short last one goes into its predecessor.
Joins(a, b, per) ==
    LET text == a.text \o b.text
    IN  Gap(a, b) \in 0..CueGap /\ Len(Pieces(text)) <= per /\ FitsThai(text)
MergeShort(cues, per) ==
    LET Join(done, cue) == Append(Front(done), Hull(<<Last(done), cue>>))
        Add(done, cue) ==
            IF done /= <<>> /\ Duration(Last(done)) < ShortCue /\ Joins(Last(done), cue, per)
            THEN Join(done, cue) ELSE Append(done, cue)
        merged == FoldLeft(Add, <<>>, cues)
        n      == Len(merged)
    IN  IF n > 1 /\ Duration(merged[n]) < ShortCue /\ Joins(merged[n - 1], merged[n], per)
        THEN Join(Front(merged), merged[n]) ELSE merged

\* attachValidatedSubtitleWords: the words that a renderer may light up, if they are the cue's own.
AttachWords(cue) ==
    LET own == SelectSeq(ReliableWords, LAMBDA w : Overlap(w, cue))
    IN  IF /\ evidence.valid /\ ~evidence.fragmented /\ Text(own) = cue.text
           /\ \A i \in DOMAIN own : cue.start <= own[i].start /\ own[i].end <= cue.end
        THEN own ELSE <<>>

\* subtitleWords is defined.
FromWords == \/ evidence.valid /\ ~evidence.fragmented
             \/ Segments = <<>> /\ ReliableWords /= <<>>
FromEstimate == evidence.fragmented /\ evidence.repaired /= <<>>

\* buildSubtitleSegmentsForWordLimit: the lines, and short ones joined.
Lined(cues) == stage = "line" /\ stage' = "merge" /\ lines' = cues /\ UNCHANGED <<heard, limit, evidence, made>>

LineEstimated ==
    /\ FromEstimate
    /\ Lined(FlattenSeq([i \in DOMAIN evidence.repaired |-> Estimated(evidence.repaired[i], limit)]))
LineWords ==
    /\ ~FromEstimate /\ FromWords
    /\ Lined(Lines(ReliableWords, limit, 0))
LineReadable ==
    /\ ~FromEstimate /\ ~FromWords
    /\ Lined(FlattenSeq([i \in DOMAIN evidence.repaired |-> Readable(evidence.repaired[i], limit)]))

Merge ==
    /\ stage = "merge" /\ stage' = "finish"
    /\ lines' = MergeShort(lines, limit)
    /\ UNCHANGED <<heard, limit, evidence, made>>

-------------------------------------------------------------------------------
(***************************************************************************)
(* Silences, and exact words.                                              *)
(***************************************************************************)
\* hasReliableSilenceTimeline and findInternalSilenceCandidates.
SilenceProven == Proven /\ (Segments /= <<>> \/ (evidence.valid /\ Text(Words) = heard.text))
Silences ==
    LET sounds == IF evidence.valid THEN Words ELSE Segments
        before == {i \in 1..Len(sounds) - 1 : Gap(sounds[i], sounds[i + 1]) >= SilenceGap}
    IN  IF SilenceProven THEN {[start |-> sounds[i].end, end |-> sounds[i + 1].start] : i \in before} ELSE {}

\* reconstructThaiTimedWords: every word of a segment is made of the words at hand, in the segment and
\* without a pause, and none is left; or there are no exact words.
None == <<>>
Rebuild(segment, state, piece) ==
    LET Run(k)  == SubSeq(Words, state.at, state.at + k - 1)
        spells  == {k \in 1..Len(Words) - state.at + 1 : Text(Run(k)) = piece}
        run     == Run(CHOOSE k \in spells : TRUE)
        unbroken == \A i \in 2..Len(run) : Gap(run[i - 1], run[i]) <= WordGap
        inside  == segment.start <= run[1].start /\ Last(run).end <= segment.end
    IN  IF state.ok /\ spells /= {} /\ unbroken /\ inside
        THEN [state EXCEPT !.at = @ + Len(run), !.made = Append(@, Hull(run))]
        ELSE [state EXCEPT !.ok = FALSE]
Exact ==
    LET Of(state, segment) ==
            FoldLeft(LAMBDA st, piece : Rebuild(segment, st, piece), state, Pieces(segment.text))
        all == FoldLeft(Of, [at |-> 1, made |-> <<>>, ok |-> TRUE], Segments)
    IN  IF Segments = <<>> \/ Unreliable /= {} \/ heard.events THEN None
        ELSE IF ~heard.thai THEN Words
        ELSE IF all.ok /\ all.at > Len(Words) THEN all.made ELSE None

-------------------------------------------------------------------------------
Finish ==
    /\ stage = "finish" /\ stage' = "done"
    /\ made' = [cues |-> [i \in DOMAIN lines |-> [cue |-> lines[i], words |-> AttachWords(lines[i])]],
                silences |-> Silences, exact |-> Exact]
    /\ UNCHANGED <<heard, limit, evidence, lines>>

Next == ReadEvidence \/ JudgeEvidence \/ LineEstimated \/ LineWords \/ LineReadable \/ Merge \/ Finish

vars == <<heard, limit, stage, evidence, lines, made>>
Spec == Init /\ [][Next]_vars

-------------------------------------------------------------------------------
(***************************************************************************)
(* Correctness.                                                            *)
(***************************************************************************)
Shown == [i \in DOMAIN made.cues |-> made.cues[i].cue]

\* Nothing that was heard is missing between two cues, shown twice or out of its order, whichever way
\* the cues were made, and they do not overlap; of a clip heard well most is shown.
NothingIsMissing ==
    /\ StrictEvidence(Shown, heard.duration)
    /\ Segments /= <<>> => Within(Text(Shown), Text(Reliable))
    /\ Segments /= <<>> /\ Unreliable = {} => CoversMost(Text(Shown))

\* A Thai word is divided between two cues only where the speaker paused inside it.
SaidAt(letter) == CHOOSE i \in DOMAIN heard.said : letter \in ToSet(heard.said[i].text)
WordsStayWhole ==
    heard.thai /\ Segments /= <<>> =>
       \A i \in 1..Len(Shown) - 1 :
          LET ends == Last(Shown[i].text)
          IN  /\ Shown[i + 1].text[1] = ends + 1 /\ ends + 1 \notin heard.starts
              => Gap(heard.said[SaidAt(ends)], heard.said[SaidAt(ends + 1)]) > TightGap

\* A cue has no more words than asked for, and is no longer than a line unless it is one word.
CuesFit ==
    \A i \in DOMAIN Shown : LET words == Len(Pieces(Shown[i].text))
                            IN  words <= limit /\ (FitsThai(Shown[i].text) \/ words = 1)

\* Repeats are looked for in a Thai clip only if every word that was said has its place.
ExactIsComplete == heard.thai /\ made.exact /= None => Text(made.exact) = heard.text

SubtitlesSayWhatWasHeard ==
    stage = "done" => NothingIsMissing /\ WordsStayWhole /\ CuesFit /\ ExactIsComplete

\* No part of the clip that is offered as silent has speech in it, told or not.
SilencesAreSilent ==
    \A silence \in made.silences : \A i \in DOMAIN heard.said : ~Overlap(heard.said[i], silence)
===============================================================================
