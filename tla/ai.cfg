SPECIFICATION MCSpec
CONSTANTS
    r1 = r1
    r2 = r2
    s1 = s1
    s2 = s2
    v1 = v1
    foreign = foreign
    UsageRequests <- TwoRequests
    Kinds <- AllKinds
    Paths <- AllPaths
    Limit = 2
    Bought = 1
    MaxUnits = 2
    Places = 1
    EditLimit = 2
    MaxMinutes = 2
    MaxExits = 1
    MaxLostWrites = 1
    CaptionRequests <- Captions
    Texts <- SomeTexts
    MaxModels = 2
    MaxAttempts = 2
    EditRequests <- AiEdits
    MediaKeys <- AllKeys
    Sounds <- SoundKeys
    OwnKeys <- UserKeys
    Replies <- Transcripts
    MaxChunks = 2
    MaxEffects = 2
    MaxPolls = 1
    RecipeRequests <- Edits
    Fillers <- MCFillers
    Suggestions <- MCSuggestions
    MaxPhrase = 2
    MaxGap = 0
    Protected = {"price"}
INVARIANTS AnswerTellsCharge EditsKeepWhatCounts SubtitlesAreTrue UploadsServeTheirEdit CaptionsAreGrounded
PROPERTIES TakesOnlyCredit ClipEnds
CHECK_DEADLOCK FALSE
