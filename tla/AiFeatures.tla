------------------------------ MODULE AiFeatures ------------------------------
(***************************************************************************)
(* The AI features side by side, each an instance of its own module: what  *)
(* requests cost (AiUsage), how a caption is written (CaptionWriting),     *)
(* what becomes of the media of an edit (AiEditRequest) and what an edit   *)
(* removes (AiEditRecipe).  They share no state; MCAi runs each of them by *)
(* itself.                                                                 *)
(***************************************************************************)
LOCAL INSTANCE Integers

CONSTANTS
    UsageRequests, Kinds, Paths, Limit, Bought, MaxUnits, Places, EditLimit, MaxMinutes, MaxExits, MaxLostWrites,
    CaptionRequests, Texts, MaxModels, MaxAttempts,
    EditRequests, MediaKeys, Sounds, OwnKeys, Replies, MaxChunks, MaxEffects, MaxPolls,
    RecipeRequests, Fillers, Suggestions, MaxPhrase, MaxGap, Protected

VARIABLES
    usage, minutes, ledger, path, req, places, exits, lost,
    written, model, step, call, grounds, draft, outcome, caption, cut, doubted,
    asked, at, parts, reply, effects, planner, polls, remote, stored, kept,
    tokens, index, repeat, groups, filmed, want, editing, cutting, recipe

Usage == INSTANCE AiUsage WITH Requests <- UsageRequests, MaxFaults <- MaxLostWrites, faults <- lost
Writing == INSTANCE CaptionWriting WITH
    Requests <- CaptionRequests, request <- written, stage <- step, attempt <- call, evidence <- grounds
Prepared == INSTANCE AiEditRequest WITH
    Requests <- EditRequests, Keys <- MediaKeys, Own <- OwnKeys, Answers <- Replies,
    request <- asked, pc <- at, heard <- parts, answer <- reply
Recipe == INSTANCE AiEditRecipe WITH
    Requests <- RecipeRequests, run <- repeat, clip <- filmed, pc <- editing, plan <- cutting

ASSUME UsageAssumption   == Usage!AiUsageAssumption
ASSUME WritingAssumption == Writing!CaptionWritingAssumption
ASSUME EditsAssumption   == Prepared!AiEditRequestAssumption
ASSUME RecipeAssumption  == Recipe!AiEditRecipeAssumption

\* AiUsage: what an answer says was charged is what the tables hold for the request.
AnswerTellsCharge == Usage!AnswerTellsCharge
\* AiUsage: of the credits a reservation takes the owner has each at that moment.
TakesOnlyCredit == Usage!TakesOnlyCredit
\* AiUsage: a clip request ends also when the provider or the storage never answers.
ClipEnds == Usage!ClipEnds
\* AiEditRequest: what was uploaded for a request goes with it; effects and plans are put on what was heard.
UploadsServeTheirEdit == Prepared!TemporaryMediaGo /\ Prepared!EffectsAtWords
\* AiEditRecipe: a word that is cut as a repeat is still said, and what a plan leaves is what was asked for.
EditsKeepWhatCounts == Recipe!SaidAgain /\ Recipe!PlanLeavesWhatWasAsked
\* CaptionWriting: what is given of a clip was found, written and audited by one model.
CaptionsAreGrounded == Writing!CaptionsAreGrounded
===============================================================================
