------------------------------ MODULE EditPlan ------------------------------
(***************************************************************************)
(* The cut plans of editPlanProvider: what a request for a target length,  *)
(* a style or a prompt removes from a clip.  Times are whole seconds, so   *)
(* that the tolerances of the code, all shorter, distinguish nothing; the  *)
(* cues are in order and do not overlap, which the timing evidence proves. *)
(* A cue has a start, an end, and what its text says to the planner: the   *)
(* signal (weight of its keywords), how it opens (weak, clear, hook), and  *)
(* whether it ends a sentence, as it is spoken or by punctuation (stops).  *)
(***************************************************************************)
EXTENDS Integers, SequencesExt, FiniteSetsExt

Part(start, end) == [start |-> start, end |-> end]
Length(range)     == range.end - range.start
Covers(range, t)  == range.start <= t /\ t < range.end
\* The seconds a set of ranges covers: what the definitions below are checked against.
Seconds(ranges)   == UNION {r.start..r.end - 1 : r \in ranges}

Clamp(x, duration) == Min({Max({x, 0}), duration})
Sorted(S, Less(_, _)) == [i \in 1..Cardinality(S) |-> CHOOSE x \in S : Cardinality({y \in S : Less(y, x)}) = i - 1]
InOrder(a, b) == a.start < b.start \/ (a.start = b.start /\ a.end < b.end)

\* normalizeCuts: clamped, sorted, and merged where they touch.
NormalizeCuts(cuts, duration) ==
    LET clamped == {Part(Clamp(c.start, duration), Clamp(c.end, duration)) : c \in cuts}
        Merge(merged, cut) ==
            IF merged /= <<>> /\ cut.start <= Last(merged).end
            THEN [merged EXCEPT ![Len(merged)].end = Max({@, cut.end})]
            ELSE Append(merged, cut)
    IN  FoldLeft(Merge, <<>>, Sorted({c \in clamped : c.start < c.end}, InOrder))

\* complement and cutsOutsideKeptRanges: the gaps between normalized ranges.
Complement(cuts, duration) ==
    LET sorted == NormalizeCuts(cuts, duration)
        Gap(i) == Part(IF i = 1 THEN 0 ELSE sorted[i - 1].end,
                       IF i > Len(sorted) THEN duration ELSE sorted[i].start)
        gaps   == {Gap(i) : i \in 1..Len(sorted) + 1}
    IN  Sorted({gap \in gaps : gap.start < gap.end}, InOrder)

\* trimToTarget: a cut of the tail, from where the target is reached.
KeptBefore(kept, i) == FoldLeft(LAMBDA sum, r : sum + Length(r), 0, SubSeq(kept, 1, i - 1))
TailFrom(kept, i, target) == kept[i].start + target - KeptBefore(kept, i)
TrimToTarget(cuts, duration, target) ==
    LET kept   == Complement(cuts, duration)
        full   == {i \in DOMAIN kept : KeptBefore(kept, i) + Length(kept[i]) >= target}
        until  == TailFrom(kept, Min(full), target)
    IN  IF target <= 0 \/ duration <= 0 THEN cuts
        ELSE IF full = {} THEN ToSet(NormalizeCuts(cuts, duration))
        ELSE ToSet(NormalizeCuts(cuts \union {Part(until, duration)}, duration))

\* buildKeywordKeepCuts: what matches (and what follows it) is kept, unless nothing matches.
KeywordKeepCuts(cues, duration, matches, following) ==
    LET keep == {i \in DOMAIN cues : i \in matches \/ (following /\ i - 1 \in matches)}
    IN  IF matches = {} THEN {} ELSE ToSet(Complement({Part(cues[i].start, cues[i].end) : i \in keep}, duration))

-------------------------------------------------------------------------------
(***************************************************************************)
(* buildCoherentHighlightCuts: one window of about the target's length.    *)
(***************************************************************************)
OpeningContext == 3                              \* MAXIMUM_OPENING_CONTEXT_SECONDS
Comparable(target) == Min({3, Max({1, target \div 10})})
WeakOpeningPenalty == 80

\* opensDuringContinuousSpeech, of the i-th cue: the speaker is in the middle of a sentence.
OpensMidSpeech(cues, i) ==
    /\ i > 1 /\ ~cues[i].style.stops /\ ~cues[i].style.hook
    /\ Length(cues[i]) <= 2                      \* MAXIMUM_FRAGMENT_OPENING_SECONDS
    /\ cues[i - 1].end = cues[i].start /\ ~cues[i - 1].style.ends

\* The cue a range opens with, or 0.
Opening(cues, range) ==
    LET met == {i \in DOMAIN cues : cues[i].end > range.start /\ cues[i].start < range.end}
    IN  IF met = {} THEN 0 ELSE Min(met)

ContinuousOpening(cues, range) ==
    LET i == Opening(cues, range)
    IN  /\ i /= 0 /\ OpensMidSpeech(cues, i)
        /\ ~ /\ cues[i].style.clear
             /\ \E j \in 1..i - 1 : cues[j].style.weak /\ cues[i].start - cues[j].start <= OpeningContext

WeakOpening(cues, range) == LET i == Opening(cues, range) IN i /= 0 /\ cues[i].style.weak

\* startsAfterNaturalSpeechPause.
OpensAfterPause(cues, range) ==
    LET i == Opening(cues, range) IN i > 1 /\ cues[i - 1].end < cues[i].start

\* scoreHighlightSegment and scoreRange: what each second is worth, less the price of a bad opening.
Signal(cues, i) == cues[i].style.signal + (IF i = 1 THEN 1 ELSE IF i = Len(cues) THEN 2 ELSE 0)
Spoken(cues, range) == Cardinality({t \in range.start..range.end - 1 : \E i \in DOMAIN cues : Covers(cues[i], t)})
Score(cues, keeps, range) ==
    LET Worth(t) == (IF \E i \in DOMAIN keeps : Covers(keeps[i], t) THEN 100 ELSE 0)
                    + MapThenSumSet(LAMBDA i : 5 + Signal(cues, i), {i \in DOMAIN cues : Covers(cues[i], t)})
    IN  MapThenSumSet(Worth, range.start..range.end - 1)
        - (IF WeakOpening(cues, range) \/ ContinuousOpening(cues, range) THEN WeakOpeningPenalty ELSE 0)

\* candidateWindowStarts, in order.
StartsAt(edges, latest) == Sorted({0, latest} \union {Clamp(x, latest) : x \in edges}, <)
WindowStarts(cues, keeps, duration, target) ==
    StartsAt(UNION {{r.start, r.end - target} : r \in ToSet(keeps) \union ToSet(cues)}, duration - target)

\* Enough of a range is speech: a tenth of it, within half a second and three.
EnoughSpeech(cues, range) ==
    cues = <<>> \/ Spoken(cues, range) >= Min({3, Max({1, (Length(range) + 9) \div 10})})

\* snapKeptRangeToCueBoundaries: both edges move inward, out of the cue they are in.
Snap(cues, range) ==
    LET In(x) == {i \in DOMAIN cues : cues[i].start < x /\ x < cues[i].end}
        Forward(x)  == IF In(x) = {} THEN x ELSE cues[Min(In(x))].end
        Backward(x) == IF In(x) = {} THEN x ELSE cues[Min(In(x))].start
    IN  Part(Forward(range.start), Backward(range.end))

\* A candidate that is clearly nearer to the target, or about as near and better, is preferred.
NoCandidate == [range |-> Part(0, 0), gap |-> 0, score |-> 0]
Prefer(target, best, candidate) ==
    IF \/ best = NoCandidate
       \/ candidate.gap < best.gap - Comparable(target)
       \/ /\ candidate.gap - best.gap \in -Comparable(target)..Comparable(target)
          /\ candidate.score > best.score
    THEN candidate ELSE best
\* Of the candidates in I, in order.
Best(target, candidates, I) ==
    MapThenFoldSet(LAMBDA c, best : Prefer(target, best, c), NoCandidate, LAMBDA i : candidates[i], Max, I)

\* The best whole cues with enough speech, else whole cues, else the target as it is.
Chosen(target, snapped, spoken, whole, raw) ==
    IF spoken /= {} THEN Best(target, snapped, spoken)
    ELSE IF whole /= {} THEN Best(target, snapped, whole)
    ELSE Best(target, raw, DOMAIN raw)

\* The window.  An opening in the middle of speech moves to a natural one nearby: back, or forward
\* past a pause.
HighlightWindow(cues, keeps, duration, target) ==
    LET starts  == WindowStarts(cues, keeps, duration, target)
        Candidate(range) == [range |-> range, gap |-> target - Length(range), score |-> Score(cues, keeps, range)]
        raw     == [i \in DOMAIN starts |-> Candidate(Part(starts[i], starts[i] + target))]
        Cut(i)  == Snap(cues, Part(starts[i], starts[i] + target))
        snapped == [i \in DOMAIN starts |-> Candidate(Cut(i))]
        whole   == {i \in DOMAIN starts : Length(Cut(i)) >= 1 /\ 2 * Length(Cut(i)) >= target}
        spoken  == {i \in whole : EnoughSpeech(cues, Cut(i))}
        natural == {i \in spoken : ~ContinuousOpening(cues, Cut(i)) /\ target - Length(Cut(i)) <= Comparable(target)}
        chosen  == Chosen(target, snapped, spoken, whole, raw).range
        earlier == {i \in natural : chosen.start - Cut(i).start \in 1..OpeningContext}
        clean   == {i \in earlier : ~WeakOpening(cues, Cut(i))}
        paused  == {i \in natural : /\ Cut(i).start - chosen.start \in 1..OpeningContext
                                    /\ ~WeakOpening(cues, Cut(i)) /\ OpensAfterPause(cues, Cut(i))}
        Latest(I)   == Cut(Min({i \in I : \A j \in I : Cut(j).start <= Cut(i).start}))
        Earliest(I) == Cut(Min({i \in I : \A j \in I : Cut(i).start <= Cut(j).start}))
    IN  IF ~ContinuousOpening(cues, chosen) THEN chosen
        ELSE IF clean /= {} THEN Latest(clean)
        ELSE IF earlier /= {} THEN Latest(earlier)
        ELSE IF paused /= {} THEN Earliest(paused)
        ELSE chosen

HighlightCuts(cues, suggested, duration, target) ==
    IF duration <= 0 \/ target <= 0 \/ target >= duration THEN {}
    ELSE ToSet(Complement({HighlightWindow(cues, Complement(suggested, duration), duration, target)}, duration))
=============================================================================
