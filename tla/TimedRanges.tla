----------------------------- MODULE TimedRanges -----------------------------
(***************************************************************************)
(* Parts of a clip, with a start and an end and often a text, as           *)
(* transcripts have them.                                                  *)
(***************************************************************************)
EXTENDS Integers, SequencesExt

\* readStrictTranscriptEvidence: in the clip, in order, without overlaps.
StrictEvidence(ranges, duration) ==
    \A i \in DOMAIN ranges :
       /\ 0 <= ranges[i].start /\ ranges[i].start < ranges[i].end /\ ranges[i].end <= duration
       /\ i > 1 => ranges[i - 1].end <= ranges[i].start

Overlap(a, b) == a.start < b.end /\ a.end > b.start

Text(parts) == FlattenSeq([i \in DOMAIN parts |-> parts[i].text])
===============================================================================
