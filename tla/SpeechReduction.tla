--------------------------- MODULE SpeechReduction ---------------------------
(***************************************************************************)
(* buildReadySpeechReduction of aiEditRecipe: one pass over the timed      *)
(* words of a clip finds words and short phrases that are said again at    *)
(* once, and cuts every occurrence but the last.  Times are in units in    *)
(* which a repeat may follow after at most MaxGap.                         *)
(***************************************************************************)
EXTENDS Integers, Sequences

CONSTANTS
    MaxPhrase,   \* maximumRepeatedPhraseWords
    MaxGap,      \* maximumAdjacentRepeatGapSeconds
    Protected    \* words never suggested: negation, prices, numbers, repetition marks, other scripts

\* Assumed with AiEditRecipe's own.
SpeechReductionAssumption == MaxPhrase \in Nat \ {0} /\ MaxGap \in Nat

VARIABLES
    tokens,   \* SpeechReductionToken[]: text, start, end, ends (of a sentence)
    index,    \* startIndex
    run,      \* the repeat being counted: its size, and where each, the first and the last start
    groups    \* the repeats found; their words are consumedTokenIndexes

scanVars == <<tokens, index, run, groups>>

NoRun == [size |-> 0, at |-> {}, first |-> 0, last |-> 0]

Words(g)   == {i \in 1..Len(tokens) : \E s \in g.at : s <= i /\ i < s + g.size}
Consumed   == UNION {Words(g) : g \in groups}
CanSuggest(i) == tokens[i].text \notin Protected

\* hasSafeAdjacentSpeechBoundary, between a word and the next: no sentence ends and nobody pauses.
SafeAfter(i) ==
    /\ ~tokens[i].ends
    /\ tokens[i].end <= tokens[i + 1].start /\ tokens[i + 1].start <= tokens[i].end + MaxGap

\* matchesPhraseAt: the phrase of size words at base is said again at at, right after what precedes it.
SameWords(base, size, at) ==
    /\ at + size - 1 <= Len(tokens)
    /\ \A k \in 0..size - 1 :
          at + k \notin Consumed /\ CanSuggest(at + k) /\ tokens[at + k].text = tokens[base + k].text
MatchesPhrase(base, size, at) ==
    SameWords(base, size, at) /\ \A k \in 0..size - 1 : SafeAfter(at + k - 1)

\* A phrase of one word said many times is left to the shorter sizes.
Repeats(base, size) ==
    /\ base + 2 * size - 1 <= Len(tokens)
    /\ \A k \in 0..size - 1 : CanSuggest(base + k) /\ (k > 0 => SafeAfter(base + k - 1))
    /\ size > 1 => \E k \in 1..size - 1 : tokens[base + k].text /= tokens[base].text
    /\ MatchesPhrase(base, size, base + size)

Scanning == run = NoRun /\ index <= Len(tokens)

\* The longest phrase that repeats here.
FindRepeat(size) ==
    /\ Scanning /\ size \in 1..MaxPhrase /\ Repeats(index, size)
    /\ \A longer \in size + 1..MaxPhrase : ~Repeats(index, longer)
    /\ run' = [size |-> size, at |-> {index, index + size}, first |-> index, last |-> index + size]
    /\ UNCHANGED <<tokens, index, groups>>

\* One occurrence more.
Following(g) == g.last + g.size
CountOccurrence ==
    /\ run /= NoRun /\ MatchesPhrase(run.first, run.size, Following(run))
    /\ run' = [run EXCEPT !.at = @ \union {Following(run)}, !.last = Following(run)]
    /\ UNCHANGED <<tokens, index, groups>>

CloseRepeat ==
    /\ run /= NoRun /\ ~MatchesPhrase(run.first, run.size, Following(run))
    /\ groups' = groups \union {run} /\ run' = NoRun /\ index' = Following(run)
    /\ UNCHANGED tokens

NoRepeat ==
    /\ Scanning /\ \A size \in 1..MaxPhrase : ~Repeats(index, size)
    /\ index' = index + 1 /\ UNCHANGED <<tokens, run, groups>>

Scan == (\E size \in 1..MaxPhrase : FindRepeat(size)) \/ CountOccurrence \/ CloseRepeat \/ NoRepeat

Scanned == run = NoRun /\ index > Len(tokens)

\* The anchor is the occurrence that is kept: the last.
Anchor(g) == g.last

\* defaultCutRanges, by their words.
CutWords(g) == {i \in 1..Len(tokens) : \E s \in g.at \ {Anchor(g)} : s <= i /\ i < s + g.size}
SpeechCuts  == UNION {CutWords(g) : g \in groups}

\* Whatever is cut is said again, in the words that are kept, before the sentence ends or the
\* speaker pauses; a protected word is never cut.
SaidAgain ==
    \A i \in SpeechCuts :
       /\ CanSuggest(i)
       /\ \E j \in i + 1..Len(tokens) :
             /\ j \notin SpeechCuts /\ tokens[j].text = tokens[i].text
             /\ \A k \in i..j - 1 : SafeAfter(k)
===============================================================================
