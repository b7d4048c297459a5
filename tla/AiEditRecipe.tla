----------------------------- MODULE AiEditRecipe -----------------------------
(***************************************************************************)
(* What one AI edit (POST /ai-edits/prepare) removes from a clip: the plan *)
(* of the request, made by a model that may answer anything or by the      *)
(* rules, and the cleanup of repeated or filler words, put together in     *)
(* buildAiEditRecipe.  Nothing is removed on times that are not proven.    *)
(***************************************************************************)
EXTENDS SpeechReduction, EditPlan, TimedRanges

CONSTANTS
    Requests,      \* each a clip (the transcript, with the cues buildAiEditPlanningSegments makes of it)
                   \* and what is wanted of it
    Fillers,       \* settings.fillerWords
    Suggestions    \* sets of cuts a model may answer

\* What is said comes one after the other, times are numbers, the cues are as sure as the segments they are
\* made of, and a target is positive (readPositiveNumber).
AiEditRecipeAssumption ==
    /\ SpeechReductionAssumption
    /\ \A r \in Requests :
          /\ r.clip.words \in Seq(ToSet(r.clip.words))
          /\ \A timed \in {r.clip.segments, r.clip.cues} :
                timed \in Seq(ToSet(timed)) /\ \A s \in ToSet(timed) : s.start \in Int /\ s.end \in Int
          /\ StrictEvidence(r.clip.segments, r.clip.duration) => StrictEvidence(r.clip.cues, r.clip.duration)
          /\ r.clip.duration \in Nat /\ r.want.target \in Int /\ r.want.tells \in Int
          /\ r.want.plan = "target" => r.want.target > 0
    /\ \A suggested \in Suggestions : IsFiniteSet(suggested) /\ \A c \in suggested : c \in [start : Int, end : Int]

VARIABLES
    clip, want,
    pc,       \* the handler: "plan", "clean", "scan", "done", "refused"
    plan,     \* by whom; the cuts before and after they were brought to the goal, in seconds
    recipe    \* cutRanges, and whether some analysis has a usable result (which is then metered)

vars == <<scanVars, clip, want, pc, plan, recipe>>

NoPlan   == [by |-> "none", before |-> {}, goal |-> 0, cuts |-> {}]
NoRecipe == [cuts |-> {}, usable |-> FALSE]

Init ==
    /\ \E r \in Requests : clip = r.clip /\ want = r.want
    /\ pc = "plan" /\ plan = NoPlan /\ recipe = NoRecipe
    /\ tokens = <<>> /\ index = 1 /\ run = NoRun /\ groups = {}

-------------------------------------------------------------------------------
Proven == /\ clip.trusted
          /\ StrictEvidence(clip.segments, clip.duration) /\ StrictEvidence(clip.words, clip.duration)

\* hasCompleteRepeatTimeline, and words reconstructed exactly (reconstructThaiTimedWords).
RepeatsProven ==
    /\ Proven /\ ~clip.events /\ clip.segments /= <<>>
    /\ \A i \in DOMAIN clip.segments : clip.segments[i].reliable
    /\ clip.exact /\ clip.words /= <<>>

\* reliableSafeTranscriptWords that are on the list of fillers.
FillerWords ==
    {i \in DOMAIN clip.words :
       /\ Proven /\ clip.words[i].text \in Fillers
       /\ \A j \in DOMAIN clip.segments :
             Overlap(clip.words[i], clip.segments[j]) => clip.segments[j].reliable}

-------------------------------------------------------------------------------
(***************************************************************************)
(* The plan.                                                               *)
(***************************************************************************)
ForTarget == want.plan = "target"
Asked     == want.plan /= "none"

\* 422: the times are not proven.
RefuseTiming ==
    /\ pc = "plan" /\ Asked /\ ~Proven /\ pc' = "refused"
    /\ UNCHANGED <<scanVars, clip, want, plan, recipe>>

Planned(by, before, goal, cuts) ==
    /\ pc = "plan" /\ Asked /\ Proven /\ pc' = "clean"
    /\ plan' = [by |-> by, before |-> before, goal |-> goal, cuts |-> cuts]
    /\ UNCHANGED <<scanVars, clip, want, recipe>>

\* parseLlmEditPlan, and what a target makes of the answer.
ModelPlans(suggested) ==
    LET cuts == ToSet(NormalizeCuts(suggested, clip.duration))
    IN  IF ForTarget
        THEN Planned("model", cuts, 0, HighlightCuts(clip.cues, cuts, clip.duration, want.target))
        ELSE Planned("model", cuts, want.target, TrimToTarget(cuts, clip.duration, want.target))

\* createMockEditPlanProvider: without a model, or when it fails.
RulesPlan ==
    LET Those(P(_)) == {i \in DOMAIN clip.segments : P(clip.segments[i].style)}
        rude == {clip.segments[i] : i \in Those(LAMBDA style : style.rude)}
        cuts == IF want.clean THEN {Part(s.start, s.end) : s \in rude} ELSE {}
    IN  \/ /\ ForTarget
           /\ IF clip.cues = <<>>
              THEN Planned("rules", {}, want.target, TrimToTarget({}, clip.duration, want.target))
              ELSE Planned("rules", {}, 0, HighlightCuts(clip.cues, {}, clip.duration, want.target))
        \/ /\ want.plan = "prompt"
           /\ Planned("rules", cuts, want.tells, TrimToTarget(cuts, clip.duration, want.tells))
        \/ /\ want.plan = "style"
           /\ LET kept == KeywordKeepCuts(clip.segments, clip.duration, Those(LAMBDA style : style.key), want.follow)
              IN  Planned("rules", kept, 0, kept)

NoPlanAsked ==
    /\ pc = "plan" /\ ~Asked /\ pc' = "clean"
    /\ UNCHANGED <<scanVars, clip, want, plan, recipe>>

-------------------------------------------------------------------------------
(***************************************************************************)
(* The cleanup, and the recipe.                                            *)
(***************************************************************************)
WordRanges(S) == {Part(clip.words[i].start, clip.words[i].end) : i \in S}

\* buildSpeechReduction: the times of the words are proven, or nothing is cut.
BeginScan ==
    /\ pc = "clean" /\ want.filler = "auto" /\ RepeatsProven
    /\ pc' = "scan" /\ tokens' = clip.words
    /\ UNCHANGED <<index, run, groups, clip, want, plan, recipe>>

ScanStep == pc = "scan" /\ Scan /\ UNCHANGED <<clip, want, pc, plan, recipe>>

\* cutRanges: the plan and the cleanup, each on its own grounds.
Build(cleanup, ready) ==
    /\ pc' = "done"
    /\ recipe' = [cuts |-> (IF Proven THEN plan.cuts ELSE {}) \union cleanup,
                  usable |-> plan.by /= "none" \/ ready]
    /\ UNCHANGED <<scanVars, clip, want, plan>>

BuildScanned  == pc = "scan" /\ Scanned /\ Build(WordRanges(SpeechCuts), TRUE)
BuildUnproven == pc = "clean" /\ want.filler = "auto" /\ ~RepeatsProven /\ Build({}, FALSE)
BuildListed   == pc = "clean" /\ want.filler = "listed" /\ Build(WordRanges(FillerWords), FillerWords /= {})
BuildPlain    == pc = "clean" /\ want.filler = "off" /\ Build({}, FALSE)

Next ==
    \/ RefuseTiming \/ (\E suggested \in Suggestions : ModelPlans(suggested)) \/ RulesPlan \/ NoPlanAsked
    \/ BeginScan \/ ScanStep \/ BuildScanned \/ BuildUnproven \/ BuildListed \/ BuildPlain

Spec == Init /\ [][Next]_vars

-------------------------------------------------------------------------------
(***************************************************************************)
(* Correctness, and reference definitions: sets of seconds.                *)
(***************************************************************************)
Kept(cuts) == (0..clip.duration - 1) \ Seconds(cuts)

\* Of what the plan would leave, a trim leaves exactly the first seconds of the goal.
TrimKeepsTheStart ==
    plan.goal > 0 =>
       LET before == Kept(plan.before)
       IN  Kept(plan.cuts) = {t \in before : Cardinality({u \in before : u < t}) < plan.goal}

\* A target leaves one window of the clip, no longer than the target and no shorter than half of it;
\* a cue is cut in two only where no window that begins with a cue or ends with one, or with the clip,
\* keeps half of the target in whole cues.
OneWholeStory ==
    plan.by /= "none" /\ ForTarget /\ want.target < clip.duration =>
       LET kept  == Kept(plan.cuts)
           story == Part(Min(kept), Max(kept) + 1)
           AtAnEdge(start) == \/ start = 0 \/ start + want.target = clip.duration
                              \/ \E i \in DOMAIN clip.cues : \/ clip.cues[i].start = start
                                                            \/ clip.cues[i].end = start + want.target
       IN  /\ kept /= {} /\ kept = Seconds({story})
           /\ Length(story) <= want.target /\ 2 * Length(story) >= want.target
           /\ Snap(clip.cues, story) /= story =>
                 \A start \in 0..clip.duration - want.target :
                    AtAnEdge(start) =>
                       2 * Length(Snap(clip.cues, Part(start, start + want.target))) < want.target

\* Whatever the model suggests, and wherever cues and earlier cuts fall, a plan leaves what it was asked
\* to: the start of the rest for a length that was told, one whole story for a target.
PlanLeavesWhatWasAsked == TrimKeepsTheStart /\ OneWholeStory
===============================================================================
