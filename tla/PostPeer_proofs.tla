---------------------------- MODULE PostPeer_proofs ----------------------------
(***************************************************************************)
(* The two sides of PostPeer that the API talks to. For every set of kinds *)
(* of posts, every number of status checks and of rows of the connection:  *)
(* what the worker is told of a post is true, and a post is only asked for *)
(* where it was meant to go. For any number of accounts, requests and      *)
(* connect attempts (SocialConnections, named Social here): the newest     *)
(* attempt stays the user's, what is imported is new, and what is removed  *)
(* is not listed. MCPostPeer names both; its constants have any value here.     *)
(***************************************************************************)
EXTENDS MCPostPeer, TLAPS

-------------------------------------------------------------------------------
(***************************************************************************)
(* Reading an answer.                                                      *)
(***************************************************************************)
\* What a delivery of this kind makes of a post.
Right(fate) ==
    CASE kind \in {"direct", "plain"} -> fate = "live"
      [] kind = "inbox" -> fate = "inbox"
      [] kind = "page" -> fate = "draft"
      [] OTHER -> fate # "none"

Told == {"published", "failed", "publishing"}

LEMMA KindCases ==
  ASSUME PostPeerAssumption, TypeOK
  PROVE  kind = "direct" \/ kind = "inbox" \/ kind = "legacy" \/ kind = "page" \/ kind = "plain"
  BY DEF PostPeerAssumption, TypeOK, AllKinds

\* What the words of an answer say of the post.
LEMMA WordsAreTrue ==
  ASSUME PostPeerAssumption, TypeOK, NEW fate \in Fates \ {"none"}, NEW p \in Truthful(fate)
  PROVE  /\ p.id \in {"none", "own", "receipt"}
         /\ SaysFailed(p) => fate = "failed"
         /\ fate # "failed" => p.subOk # "false"
         /\ fate = "failed" => p.subOk # "true"
         /\ SaysDraft(p) => fate = "draft"
         /\ fate = "draft" /\ kind # "page" => SaysDraft(p)
         /\ p.sub = "published" => fate \in {"live", "inbox"} \/ (fate = "draft" /\ kind = "page")
         /\ p.top = "published" => \/ fate \in {"live", "inbox"} \/ (fate = "draft" /\ kind = "page")
                                   \/ fate = "pending" /\ kind \in TikTok
         /\ fate = "pending" => p.top \in {"none", "pending", "published"} /\ p.sub \in {"none", "pending"}
<1> USE DEF TypeOK
<1>1. /\ p.id \in {"none", "own"} \cup (IF kind \in TikTok THEN {"receipt"} ELSE {})
      /\ p.ok \in {TRUE} \cup {fate /= "failed"}
      /\ p.top \in {"none"} \cup TopWords(fate)
      /\ p.sub \in {"none"} \cup Words(fate)
      /\ p.subOk \in {"none", IF fate = "failed" THEN "false" ELSE "true"}
      /\ fate = "draft" => p.top /= "none" \/ p.sub /= "none"
  BY DEF Truthful
<1>2. TopWords(fate) \subseteq Words(fate) \cup {"published"} /\ (kind \notin TikTok \/ fate # "pending" => TopWords(fate) = Words(fate))
  BY DEF TopWords
<1>3. CASE fate = "pending"
  <2>1. Words(fate) = {"pending"}
    BY <1>3 DEF Words
  <2>. QED BY <1>1, <1>2, <1>3, <2>1 DEF SaysFailed, SaysDraft
<1>4. CASE fate \in {"live", "inbox"}
  <2>1. Words(fate) = {"published"}
    BY <1>4 DEF Words
  <2>. QED BY <1>1, <1>2, <1>4, <2>1 DEF SaysFailed, SaysDraft
<1>5. CASE fate = "draft"
  <2>1. Words(fate) = DraftWords
    BY <1>5 DEF Words
  <2>. QED BY <1>1, <1>2, <1>5, <2>1 DEF SaysFailed, SaysDraft, DraftWords
<1>6. CASE fate = "failed"
  <2>1. Words(fate) = {"failed"}
    BY <1>6 DEF Words
  <2>. QED BY <1>1, <1>2, <1>6, <2>1 DEF SaysFailed, SaysDraft
<1>. QED BY <1>3, <1>4, <1>5, <1>6 DEF Fates

\* What a reference or a link to the platform says of the post.
LEMMA ReferencesAreTrue ==
  ASSUME PostPeerAssumption, TypeOK, NEW fate \in Fates \ {"none"}, NEW p \in Truthful(fate)
  PROVE  /\ p.ref = "video" => fate \in {"live", "draft"}
         /\ p.ref = "inbox" => kind \in TikTok /\ fate \in {"pending", "failed", "inbox"}
         /\ p.ref = "inbox" /\ kind # "inbox" => fate = "inbox"
         /\ p.ref = "receipt" => kind \in TikTok /\ fate \in {"live", "pending", "failed"}
         /\ p.ref \in {"none", "inbox", "receipt", "video"}
         /\ p.url = "video" => fate \in {"live", "draft"}
         /\ p.url = "messages" => fate = "inbox"
         /\ p.url \in {"none", "messages", "video"}
<1> USE DEF TypeOK
<1>1. p.ref \in References(fate) /\ p.url \in Links(fate)
  BY DEF Truthful
<1>2. /\ fate \in {"live", "draft"} => Links(fate) = {"none", "video"}
      /\ fate = "inbox" => Links(fate) = {"none", "messages"}
      /\ fate \in {"pending", "failed"} => Links(fate) = {"none"}
  BY DEF Links
<1>3. /\ kind \in TikTok /\ fate = "live" => References(fate) = {"none", "receipt", "video"}
      /\ kind \notin TikTok /\ fate = "live" => References(fate) = {"none", "video"}
      /\ fate = "draft" => References(fate) = {"none", "video"}
      /\ kind \in TikTok /\ fate = "inbox" => References(fate) = {"none", "inbox"}
      /\ kind \notin TikTok /\ fate \in {"inbox", "pending", "failed"} => References(fate) = {"none"}
      /\ kind = "inbox" /\ fate \in {"pending", "failed"} => References(fate) = {"none", "inbox"}
      /\ kind \in {"direct", "legacy"} /\ fate \in {"pending", "failed"} => References(fate) = {"none", "receipt"}
  BY DEF References, TikTok
<1>4. fate \in {"pending", "live", "inbox", "draft", "failed"}
  BY DEF Fates
<1>. QED BY <1>1, <1>2, <1>3, <1>4, KindCases DEF TikTok

PossibleFates == {"pending"} \cup Results

LEMMA PossibleAre ==
  ASSUME PostPeerAssumption, TypeOK
  PROVE  /\ PossibleFates \subseteq Fates \ {"none"}
         /\ kind = "inbox" => PossibleFates = {"pending", "inbox", "failed"}
         /\ kind \in {"direct", "legacy"} => PossibleFates = {"pending", "live", "inbox", "failed"}
         /\ kind = "page" => PossibleFates = {"pending", "draft", "failed"}
         /\ kind = "plain" => PossibleFates = {"pending", "live", "draft", "failed"}
<1>1. /\ kind = "inbox" => Results = {"inbox", "failed"}
      /\ kind \in {"direct", "legacy"} => Results = {"live", "inbox", "failed"}
      /\ kind = "page" => Results = {"draft", "failed"}
      /\ kind = "plain" => Results = {"live", "draft", "failed"}
  BY DEF Results
<1>. QED BY <1>1, KindCases DEF PossibleFates, Fates

\* The proof that is asked for of each kind of post is none of another outcome.
LEMMA ProofIsProof ==
  ASSUME PostPeerAssumption, TypeOK, NEW fate \in PossibleFates, NEW p \in Truthful(fate), NEW id,
         Delivered(p, id)
  PROVE  Right(fate)
<1>0. fate \in Fates \ {"none"}
  BY PossibleAre
<1>1. CASE kind = "direct"
  <2>1. DirectProof(p, id)
    BY <1>1 DEF Delivered
  <2>2. p.sub = "published" /\ (p.url = "video" \/ p.ref \in {"video", "receipt"})
    BY <2>1 DEF DirectProof
  <2>3. fate \in {"live", "inbox"}
    BY <1>0, <1>1, <2>2, WordsAreTrue
  <2>4. fate # "inbox"
    BY <1>0, <2>2, ReferencesAreTrue
  <2>. QED BY <1>1, <2>3, <2>4 DEF Right
<1>2. CASE kind = "inbox"
  <2>1. InboxProof(p, id)
    BY <1>2 DEF Delivered
  <2>2. (p.ref = "inbox" /\ p.sub = "published") \/ SaysDraft(p)
    BY <2>1 DEF InboxProof
  <2>3. fate \in {"pending", "inbox", "failed"}
    BY <1>2, PossibleAre
  <2>4. fate = "inbox"
    BY <1>0, <1>2, <2>2, <2>3, WordsAreTrue
  <2>. QED BY <1>2, <2>4 DEF Right
<1>3. CASE kind = "page"
  <2>1. PageProof(p, id)
    BY <1>3 DEF Delivered
  <2>2. SaysDraft(p) \/ p.top = "published" \/ p.sub = "published"
    BY <2>1 DEF PageProof
  <2>3. fate \in {"pending", "draft", "failed"} /\ kind \notin TikTok
    BY <1>3, PossibleAre DEF TikTok
  <2>4. fate = "draft"
    BY <1>0, <2>2, <2>3, WordsAreTrue
  <2>. QED BY <1>3, <2>4 DEF Right
<1>4. CASE kind = "plain"
  <2>1. PlainProof(p)
    BY <1>4 DEF Delivered
  <2>2. ~SaysDraft(p) /\ (p.url # "none" \/ p.ref # "none")
    BY <2>1 DEF PlainProof
  <2>3. fate \in {"pending", "live", "draft", "failed"} /\ kind \notin TikTok
    BY <1>4, PossibleAre DEF TikTok
  <2>4. fate \in {"live", "draft", "inbox"}
    BY <1>0, <2>2, <2>3, ReferencesAreTrue
  <2>5. fate = "live"
    BY <1>0, <1>4, <2>2, <2>3, <2>4, WordsAreTrue
  <2>. QED BY <1>4, <2>5 DEF Right
<1>5. CASE kind = "legacy"
  BY <1>0, <1>5 DEF Right
<1>. QED BY <1>1, <1>2, <1>3, <1>4, <1>5, KindCases

\* No answer about the post itself is read as a delivery that did not happen or, for a Direct post,
\* as a failure that did not: whatever is missing in it, and whichever id it is read with.
LEMMA AnswersAreReadRight ==
  ASSUME PostPeerAssumption, TypeOK, NEW fate \in PossibleFates, NEW p \in Truthful(fate), NEW id
  PROVE  /\ Evaluate(p, id) = "published" => Right(fate)
         /\ Evaluate(p, id) = "failed" /\ kind = "direct" => fate = "failed"
<1>1. Evaluate(p, id) = "published" => Delivered(p, id)
  BY DEF Evaluate
<1>2. Evaluate(p, id) = "failed" /\ kind = "direct" => SaysFailed(p)
  BY DEF Evaluate, Unproven
<1>3. SaysFailed(p) => fate = "failed"
  BY PossibleAre, WordsAreTrue
<1>. QED BY <1>1, <1>2, <1>3, ProofIsProof

\* The id that a call polls with is PostPeer's own, or the platform's receipt.
LEMMA PollIdIs ==
  ASSUME PostPeerAssumption, TypeOK, NEW fate \in PossibleFates, NEW p \in Truthful(fate)
  PROVE  PollId(p, "none") \in {"none", "own", "receipt"}
<1>1. p.id \in {"none", "own", "receipt"}
  BY PossibleAre, WordsAreTrue
<1>2. ProviderId(p, "none") \in {"none", "own", "receipt"}
  BY <1>1 DEF ProviderId
<1>3. CASE kind = "direct"
  BY <1>2, <1>3 DEF PollId
<1>4. CASE kind # "direct" /\ ProviderId(p, "none") # "none"
  <2>1. PollId(p, "none") = ProviderId(p, "none")
    BY <1>4 DEF PollId
  <2>. QED BY <1>2, <2>1
<1>5. CASE kind # "direct" /\ ProviderId(p, "none") = "none"
  <2>1. PollId(p, "none") = IF p.ref \in {"receipt", "video"} THEN "receipt" ELSE "none"
    BY <1>5 DEF PollId
  <2>. QED BY <2>1
<1>. QED BY <1>3, <1>4, <1>5

\* The record of another post is not read at all.
LEMMA AnotherIsNotRead ==
  ASSUME NEW p \in OfAnother, NEW id \in {"own", "receipt"} PROVE Evaluate(p, id) = "publishing"
<1>1. AnotherRecord(p, id)
  BY DEF OfAnother, AnotherRecord
<1>. QED BY <1>1 DEF Evaluate

-------------------------------------------------------------------------------
(***************************************************************************)
(* The inductive invariant.                                                *)
(***************************************************************************)
\* Nothing is made before it is asked for; a call that polls has an id and a post.
CallInv ==
    /\ pc \in {"target", "creator", "media", "recheck", "owner", "create"} => made = "none" /\ ~travels /\ polls = 0
    /\ pc = "poll" => /\ polls < MaxPolls /\ made \in PossibleFates /\ ~travels /\ known \in {"own", "receipt"}
    /\ pc # "end" => outcome = "none"
    /\ made # "none" => made \in PossibleFates
    /\ travels => pc = "end" /\ outcome # "published"
    /\ pc \in {"creator", "recheck", "owner"} => kind = "direct"

\* The connection is the intended one, or it stopped being it at a certain await.
LostInv == kind # "legacy" => (lost = "never" <=> Meant(target))

\* A post that was asked for: its connection was the intended one when the last look was taken.
AskedInv ==
    pc \in {"owner", "create", "poll"} \/ (pc = "media" /\ kind # "direct") \/ made # "none" \/ travels
        => (kind # "legacy" => lost \notin LastSafe)

IInv == TypeOK /\ CallInv /\ OutcomeIsTrue /\ LostInv /\ AskedInv

LEMMA InitInv == PostPeerAssumption /\ Init => IInv
<1> SUFFICES ASSUME PostPeerAssumption, Init PROVE IInv
  OBVIOUS
<1> USE DEF Init
<1>1. TypeOK
  <2>1. intended \in Targets /\ target \in Targets
    <3>1. 1 \in 0..MaxRows
      BY DEF PostPeerAssumption
    <3>. QED BY <3>1 DEF Targets
  <2>2. 0 \in 0..MaxPolls
    BY DEF PostPeerAssumption
  <2>. QED BY <2>1, <2>2 DEF TypeOK, Awaits, Outcomes, Fates, Ids
<1>2. CallInv /\ OutcomeIsTrue
  BY DEF CallInv, OutcomeIsTrue, PublishedIsTrue, DirectRefusalIsTrue
<1>3. LostInv
  BY DEF LostInv, Meant, SamePlatformTarget
<1>4. AskedInv
  BY DEF AskedInv, LastSafe
<1>. QED BY <1>1, <1>2, <1>3, <1>4 DEF IInv

\* The steps of the call leave its surroundings alone, those of the surroundings the call.
LEMMA BeforePreserves ==
  ASSUME PostPeerAssumption, IInv,
         ReadTarget \/ ReadCreator \/ ResolveMedia \/ RecheckTarget \/ AssertOwnerActive
  PROVE  IInv'
<1> USE DEF Around, Asked, Ends, Goes
<1>1. /\ pc \in {"target", "creator", "media", "recheck", "owner"}
      /\ UNCHANGED <<kind, intended, target, sealed, lost, made, travels, known, polls>>
      /\ \/ pc' = "end" /\ outcome' = "refused"
         \/ pc' \in {"creator", "media", "recheck", "owner", "create"} /\ outcome' = outcome
      /\ pc' \in {"creator", "recheck", "owner"} => kind = "direct"
  BY DEF ReadTarget, ReadCreator, ResolveMedia, RecheckTarget, AssertOwnerActive, IInv, CallInv
<1>2. made = "none" /\ ~travels /\ outcome = "none" /\ polls = 0
  BY <1>1 DEF IInv, CallInv
<1>3. TypeOK'
  BY <1>1 DEF IInv, TypeOK, Awaits, Outcomes
<1>4. CallInv' /\ OutcomeIsTrue'
  BY <1>1, <1>2 DEF CallInv, OutcomeIsTrue, PublishedIsTrue, DirectRefusalIsTrue
<1>5. LostInv'
  BY <1>1 DEF IInv, LostInv, Meant, SamePlatformTarget
<1>6. AskedInv'
  <2> SUFFICES ASSUME kind # "legacy",
                      pc' \in {"owner", "create"} \/ (pc' = "media" /\ kind # "direct")
               PROVE  lost \notin LastSafe
    BY <1>1, <1>2 DEF AskedInv, LastSafe
  <2>1. CASE ReadTarget \/ RecheckTarget
    <3>1. Meant(target)
      BY <1>1, <2>1 DEF ReadTarget, RecheckTarget, RecheckHolds
    <3>. QED BY <3>1 DEF IInv, LostInv, LastSafe
  <2>2. CASE ReadCreator
    BY <1>1, <2>2 DEF ReadCreator, IInv, CallInv
  <2>3. CASE ResolveMedia
    BY <1>1, <2>3 DEF ResolveMedia, IInv, AskedInv
  <2>4. CASE AssertOwnerActive
    BY <1>1, <2>4 DEF AssertOwnerActive, IInv, AskedInv
  <2>. QED BY <2>1, <2>2, <2>3, <2>4
<1>. QED BY <1>3, <1>4, <1>5, <1>6 DEF IInv

\* What is common to the steps that ask for a post or check on it.
LEMMA CallPreserves ==
  ASSUME PostPeerAssumption, IInv, UNCHANGED <<kind, intended, target, sealed, lost>>,
         pc \in {"create", "poll"}, TypeOK', CallInv', OutcomeIsTrue'
  PROVE  IInv'
<1>1. LostInv'
  BY DEF IInv, LostInv, Meant, SamePlatformTarget
<1>2. AskedInv'
  BY DEF IInv, AskedInv, LastSafe
<1>. QED BY <1>1, <1>2 DEF IInv

LEMMA ResultsStay ==
  ASSUME kind' = kind PROVE PossibleFates' = PossibleFates
  BY DEF PossibleFates, Results

LEMMA CreatePreserves ==
  ASSUME PostPeerAssumption, IInv,
         CreateUnanswered \/ CreateRejected \/ CreateServerError \/ CreateUnreadable \/ CreateAnswered
  PROVE  IInv'
<1> USE DEF Around, Asked, Ends, Goes
<1>1. pc = "create" /\ UNCHANGED <<kind, intended, target, sealed, lost, polls>>
  BY DEF CreateUnanswered, CreateRejected, CreateServerError, CreateUnreadable, CreateAnswered
<1>2. made = "none" /\ ~travels /\ outcome = "none" /\ TypeOK
  BY <1>1 DEF IInv, CallInv
<1>3. PossibleFates' = PossibleFates /\ "pending" \in PossibleFates /\ PossibleFates \subseteq Fates \ {"none"}
  BY <1>1, <1>2, ResultsStay, PossibleAre DEF PossibleFates
<1>4. CASE CreateUnanswered \/ CreateRejected \/ CreateServerError \/ CreateUnreadable
  <2>1. /\ pc' = "end" /\ outcome' \in {"unknown", "refused"} /\ known' = known
        /\ made' \in {"none", "pending"} /\ travels' \in BOOLEAN
        /\ kind = "direct" /\ outcome' = "refused" => made' = "none" /\ ~travels'
    <3>1. CASE CreateUnanswered
      BY <3>1 DEF CreateUnanswered
    <3>2. CASE CreateRejected
      BY <1>2, <3>2 DEF CreateRejected, TypeOK
    <3>3. CASE CreateServerError
      <4>1. IfUncertain \in {"unknown", "refused"} /\ (kind = "direct" => IfUncertain = "unknown")
        BY DEF IfUncertain
      <4>. QED BY <3>3, <4>1 DEF CreateServerError
    <3>4. CASE CreateUnreadable
      <4>1. IfUncertain \in {"unknown", "refused"} /\ (kind = "direct" => IfUncertain = "unknown")
        BY DEF IfUncertain
      <4>. QED BY <1>2, <3>4, <4>1 DEF CreateUnreadable, TypeOK
    <3>. QED BY <1>4, <3>1, <3>2, <3>3, <3>4
  <2>2. TypeOK'
    BY <1>1, <1>2, <2>1 DEF TypeOK, Outcomes, Fates
  <2>3. CallInv'
    BY <1>3, <2>1 DEF CallInv
  <2>4. OutcomeIsTrue'
    BY <1>1, <2>1 DEF OutcomeIsTrue, PublishedIsTrue, DirectRefusalIsTrue
  <2>. QED BY <1>1, <2>2, <2>3, <2>4, CallPreserves
<1>5. CASE CreateAnswered
  <2>1. made' \in PossibleFates /\ travels' = travels
    BY <1>5 DEF CreateAnswered, PossibleFates
  <2>2. PICK p \in Truthful(made') :
           \/ Evaluate(p, "none") = "failed" /\ pc' = "end" /\ outcome' = "refused" /\ known' = known
           \/ Evaluate(p, "none") = "published" /\ pc' = "end" /\ outcome' = "published" /\ known' = known
           \/ PollId(p, "none") = "none" /\ pc' = "end" /\ outcome' = "unknown" /\ known' = known
           \/ PollId(p, "none") # "none" /\ pc' = "poll" /\ outcome' = outcome /\ known' = PollId(p, "none")
    BY <1>5 DEF CreateAnswered
  <2>3. /\ Evaluate(p, "none") = "published" => Right(made')
        /\ Evaluate(p, "none") = "failed" /\ kind = "direct" => made' = "failed"
        /\ PollId(p, "none") \in {"none", "own", "receipt"}
    <3> HIDE DEF Around
    <3>. QED BY <1>2, <2>1, AnswersAreReadRight, PollIdIs
  <2>4. TypeOK'
    BY <1>1, <1>2, <1>3, <2>1, <2>2, <2>3 DEF TypeOK, Outcomes, Awaits, Ids
  <2>7. 0 < MaxPolls /\ polls = 0
    BY <1>1 DEF PostPeerAssumption, IInv, CallInv
  <2>5. CallInv'
    BY <1>1, <1>2, <1>3, <2>7, <2>1, <2>2, <2>3 DEF CallInv
  <2>6. OutcomeIsTrue'
    BY <1>1, <1>2, <2>1, <2>2, <2>3 DEF OutcomeIsTrue, PublishedIsTrue, DirectRefusalIsTrue, Right
  <2>. QED BY <1>1, <2>4, <2>5, <2>6, CallPreserves
<1>. QED BY <1>4, <1>5

LEMMA PollPreserves ==
  ASSUME PostPeerAssumption, IInv, PollFails \/ PollAnswered PROVE IInv'
<1> USE DEF Around, Ends, Goes
<1>1. pc = "poll" /\ UNCHANGED <<kind, intended, target, sealed, lost, made, travels, known>> /\ polls' = polls + 1
  BY DEF PollFails, PollAnswered
<1>2. made \in PossibleFates /\ ~travels /\ outcome = "none" /\ TypeOK /\ known \in {"own", "receipt"}
  BY <1>1 DEF IInv, CallInv
<1>3. PossibleFates' = PossibleFates
  BY <1>1, ResultsStay
<1>4. \/ pc' = "poll" /\ outcome' = "none" /\ polls + 1 < MaxPolls
      \/ pc' = "end" /\ outcome' = "unknown"
      \/ pc' = "end" /\ outcome' = "published" /\ Right(made)
      \/ pc' = "end" /\ outcome' = "refused" /\ (kind = "direct" => made = "failed")
  <2>1. CASE PollFails
    BY <1>2, <2>1 DEF PollFails, PollsOrGivesUp
  <2>2. CASE PollAnswered
    <3>1. PICK p \in Truthful(made) \cup OfAnother :
             \/ Evaluate(p, known) = "failed" /\ pc' = "end" /\ outcome' = "refused"
             \/ Evaluate(p, known) = "published" /\ pc' = "end" /\ outcome' = "published"
             \/ Evaluate(p, known) = "publishing" /\ PollsOrGivesUp
      BY <2>2 DEF PollAnswered
    <3>2. CASE p \in Truthful(made)
      <4>1. /\ Evaluate(p, known) = "published" => Right(made)
            /\ Evaluate(p, known) = "failed" /\ kind = "direct" => made = "failed"
        BY <1>2, <3>2, AnswersAreReadRight
      <4>. QED BY <1>2, <3>1, <4>1 DEF PollsOrGivesUp
    <3>3. CASE p \in OfAnother
      <4>1. Evaluate(p, known) = "publishing"
        BY <1>2, <3>3, AnotherIsNotRead
      <4>. QED BY <1>2, <3>1, <4>1 DEF PollsOrGivesUp
    <3>. QED BY <3>2, <3>3
  <2>. QED BY <2>1, <2>2
<1>5. TypeOK'
  <2>1. polls + 1 \in 0..MaxPolls
    BY <1>1, <1>2 DEF IInv, CallInv, TypeOK, PostPeerAssumption
  <2>. QED BY <1>1, <1>2, <1>4, <2>1 DEF TypeOK, Outcomes, Awaits
<1>6. CallInv'
  BY <1>1, <1>2, <1>3, <1>4 DEF CallInv
<1>7. OutcomeIsTrue'
  BY <1>1, <1>2, <1>4 DEF OutcomeIsTrue, PublishedIsTrue, DirectRefusalIsTrue, Right
<1>. QED BY <1>1, <1>5, <1>6, <1>7, CallPreserves

\* The post goes on at PostPeer, and other requests change the connection or seal the owner.
LEMMA MeanwhilePreserves ==
  ASSUME PostPeerAssumption, IInv,
         Arrives \/ Progresses \/ Reconnects \/ Refreshes \/ Disconnects \/ Seal \/ UNCHANGED vars
  PROVE  IInv'
<1> USE DEF IInv
<1>1. UNCHANGED <<kind, intended, pc, known, polls, outcome>>
  BY DEF Arrives, Progresses, Reconnects, Refreshes, Disconnects, Becomes, Seal, Around, vars
<1>2. PossibleFates' = PossibleFates /\ "pending" \in PossibleFates /\ PossibleFates \subseteq Fates \ {"none"}
  BY <1>1, ResultsStay, PossibleAre DEF PossibleFates
<1>3. CASE Arrives \/ Progresses
  <2>1. /\ UNCHANGED <<target, sealed, lost>> /\ made' \in PossibleFates /\ travels' \in BOOLEAN
        /\ travels' => travels
        /\ travels \/ made = "pending"
        /\ outcome = "published" => made = "pending" /\ travels' = travels
        /\ travels \/ made # "none"
    <3>1. CASE Arrives
      BY <1>2, <3>1 DEF Arrives, Around, CallInv, TypeOK
    <3>2. CASE Progresses
      <4>1. made' \in PossibleFates
        BY <3>2 DEF Progresses, PossibleFates
      <4>. QED BY <3>2, <4>1 DEF Progresses, Around, CallInv, TypeOK
    <3>. QED BY <1>3, <3>1, <3>2
  <2>2. TypeOK'
    BY <1>1, <1>2, <2>1 DEF TypeOK
  <2>3. CallInv'
    BY <1>1, <1>2, <2>1 DEF CallInv
  <2>4. OutcomeIsTrue'
    BY <1>1, <1>2, <2>1, KindCases DEF OutcomeIsTrue, PublishedIsTrue, DirectRefusalIsTrue, TypeOK
  <2>5. LostInv'
    BY <1>1, <2>1 DEF LostInv, Meant, SamePlatformTarget
  <2>6. AskedInv'
    BY <1>1, <2>1 DEF AskedInv, LastSafe
  <2>. QED BY <2>2, <2>3, <2>4, <2>5, <2>6
<1>4. CASE Reconnects \/ Refreshes \/ Disconnects
  <2>1. PICK next \in Targets : Becomes(next)
    <3>1. CASE Reconnects
      <4>1. PICK place \in 2..MaxRows, account \in {"none", "own", "other"} :
                Becomes([row |-> place, account |-> account])
        BY <3>1 DEF Reconnects
      <4>2. [row |-> place, account |-> account] \in Targets
        BY DEF Targets, PostPeerAssumption
      <4>. QED BY <4>1, <4>2
    <3>2. CASE Refreshes
      <4>1. PICK account \in {"none", "own", "other"} : Becomes([target EXCEPT !.account = account])
        BY <3>2 DEF Refreshes
      <4>2. [target EXCEPT !.account = account] \in Targets
        BY DEF Targets, TypeOK
      <4>. QED BY <4>1, <4>2
    <3>3. CASE Disconnects
      <4>1. [row |-> 0, account |-> "none"] \in Targets
        BY DEF Targets, PostPeerAssumption
      <4>. QED BY <3>3, <4>1 DEF Disconnects
    <3>. QED BY <1>4, <3>1, <3>2, <3>3
  <2>2. target' = next /\ UNCHANGED <<sealed, made, travels>>
    BY <2>1 DEF Becomes
  <2>3. Meant(target)' <=> Meant(next)
    BY <1>1, <2>2 DEF Meant, SamePlatformTarget
  <2>4. /\ Meant(next) => lost' = "never"
        /\ ~Meant(next) /\ Meant(target) => lost' = pc
        /\ ~Meant(next) /\ ~Meant(target) => lost' = lost
    BY <2>1 DEF Becomes
  <2>5. pc \in Awaits \cup {"end"}
    BY DEF TypeOK
  <2>6. TypeOK'
    BY <1>1, <2>2, <2>4, <2>5 DEF TypeOK
  <2>7. CallInv' /\ OutcomeIsTrue'
    BY <1>1, <1>2, <2>2 DEF CallInv, OutcomeIsTrue, PublishedIsTrue, DirectRefusalIsTrue
  <2>8. LostInv'
    BY <1>1, <2>3, <2>4, <2>5 DEF LostInv, Awaits
  <2>9. AskedInv'
    <3> SUFFICES ASSUME kind # "legacy",
                        pc \in {"owner", "create", "poll"} \/ (pc = "media" /\ kind # "direct") \/ made # "none" \/ travels
                 PROVE  lost' \notin LastSafe
      BY <1>1, <2>2 DEF AskedInv, LastSafe
    <3>1. lost \notin LastSafe
      BY DEF AskedInv
    <3>2. pc \in {"owner", "create", "poll", "end"} \/ (pc = "media" /\ kind # "direct")
      BY <2>5 DEF CallInv, Awaits
    <3>3. pc \notin LastSafe
      BY <3>2 DEF LastSafe
    <3>. QED BY <2>4, <3>1, <3>3 DEF LastSafe
  <2>. QED BY <2>6, <2>7, <2>8, <2>9
<1>5. CASE Seal \/ UNCHANGED vars
  <2>1. UNCHANGED <<target, made, travels, lost>> /\ sealed' \in BOOLEAN
    BY <1>5 DEF Seal, vars, TypeOK
  <2>2. TypeOK' /\ CallInv' /\ OutcomeIsTrue'
    BY <1>1, <1>2, <2>1 DEF TypeOK, CallInv, OutcomeIsTrue, PublishedIsTrue, DirectRefusalIsTrue
  <2>3. LostInv' /\ AskedInv'
    BY <1>1, <2>1 DEF LostInv, Meant, SamePlatformTarget, AskedInv, LastSafe
  <2>. QED BY <2>2, <2>3
<1>. QED BY <1>3, <1>4, <1>5

LEMMA NextPreserves == PostPeerAssumption /\ IInv /\ [Next]_vars => IInv'
  BY BeforePreserves, CreatePreserves, PollPreserves, MeanwhilePreserves DEF Next, Call

\* The inductive invariant: what was asked for goes its way at PostPeer, the connection is known to
\* be the intended one or since when it is not, and only a post asked for where it was meant exists.
THEOREM Invariance == Spec => []IInv
  BY PostPeerAssumption, InitInv, NextPreserves, PTL DEF Spec

\* The type invariant; a call makes at most MaxPolls status checks.
THEOREM TypeCorrect == Spec => []TypeOK
<1>1. IInv => TypeOK
  BY DEF IInv
<1>. QED BY <1>1, Invariance, PTL

\* The worker is told PUBLISHED only of a post that became what was asked for, and a refusal of a
\* Direct post is final, whatever was missing, late, lost or about another post in the answers.
THEOREM ToldTruly == Spec => []OutcomeIsTrue
<1>1. IInv => OutcomeIsTrue
  BY DEF IInv
<1>. QED BY <1>1, Invariance, PTL

\* A post that was asked for was asked for while its connection was the intended one, or after the
\* last look at it.
THEOREM SentToTarget == Spec => []SentWhereMeant
<1>1. IInv => SentWhereMeant
  BY DEF IInv, AskedInv, SentWhereMeant
<1>. QED BY <1>1, Invariance, PTL

-------------------------------------------------------------------------------
(***************************************************************************)
(* The accounts of a user (SocialConnections): the numbers of attempts,    *)
(* the baselines they are compared with, and what a refresh or a           *)
(* disconnect knows.                                                       *)
(***************************************************************************)
\* The records, with any number of attempts.
AnAttempt == [n : Nat, baseline : SUBSET Social!Ids, fresh : SUBSET Social!Ids, clean : BOOLEAN,
              kept : Social!SavedIds]
Stages == Social!Connecting \cup Social!Refreshing \cup {"idle", "delete", "drop", "cancel"}
Listing == [Social!Ids -> Social!Users]
AWork == [pc : Stages, view : SUBSET Social!Ids, users : Listing, todo : SUBSET Social!Ids,
          found : Social!SavedIds, under : Social!Users, on : Social!SavedIds, as : AnAttempt, back : BOOLEAN]

SavedRow == row \in Social!SavedIds /\ external \in Social!Users
Shape ==
    /\ integrations \subseteq Social!Ids /\ platformUser \in Listing /\ SavedRow /\ attempt \in AnAttempt /\ begun \in Nat
    /\ work \in [Requests -> AWork] /\ given \in [Accounts -> 0..MaxIds]

\* The numbers of attempts: one whose nonce nobody got, or that is over.
Unsent(n) == n \notin handed /\ \A g \in Requests : Social!At(g, "url") => work[g].as.n /= n
Lost(n) == n \in over \/ Unsent(n)

Numbering(h) ==
    /\ work[h].as.n <= begun
    /\ Social!At(h, "url") => /\ work[h].as.n /= 0 /\ work[h].as.n \notin handed
                       /\ \A g \in Requests \ {h} : Social!At(g, "url") => work[g].as.n /= work[h].as.n
    /\ Social!At(h, "cancel") => Lost(work[h].as.n)
    /\ work[h].pc \in {"delete", "drop"} => work[h].as.n \in over
NumbersInv ==
    /\ attempt.n <= begun /\ handed \subseteq 1..begun
    /\ \A h \in Requests : Numbering(h)
    /\ begun /= 0 /\ attempt.n /= begun => Lost(begun)

\* Baselines: what a request that connects left of the list, and what came since.
Baseline(w) ==
    /\ w.pc \in {"cleanup", "begin"} /\ w.as.clean => w.view \subseteq {w.as.kept}
    /\ w.pc \in {"saved", "begin"} => integrations \subseteq w.view \cup w.as.fresh
    /\ w.pc = "cleanup" => integrations \subseteq w.view \cup w.todo \cup {w.on} \cup w.as.fresh
BaselinesInv ==
    /\ attempt.clean => attempt.baseline \subseteq {attempt.kept}
    /\ attempt.n /= 0 => integrations \subseteq attempt.baseline \cup attempt.fresh
    /\ \A h \in Requests : Baseline(work[h])

\* What a refresh may import, and what it or a disconnect may remove.
Missed(w) == w.back \/ ~(w.found \in integrations /\ platformUser[w.found] = w.under)
Reading(w) ==
    /\ w.pc = "complete" => /\ w.as.n /= 0
                            /\ attempt.n = w.as.n => w.todo \subseteq attempt.baseline \cup attempt.fresh
    /\ w.pc = "reconcile" /\ w.found /= Social!None =>
         (w.found \in w.view /\ w.users[w.found] = w.under) \/ Missed(w)
    /\ w.pc = "delete" => w.found = w.on
    /\ w.pc = "drop" => Missed(w)
ReadingsInv == \A h \in Requests : Reading(work[h])

LinkInv == Shape /\ NumbersInv /\ BaselinesInv /\ ReadingsInv

-----------------------------------------------------------------------------
LEMMA Nothing == /\ Social!NoAttempt \in AnAttempt /\ Social!NoAttempt.n = 0 /\ Social!NoAttempt.clean
                 /\ Social!NoAttempt.baseline = {}
                 /\ Social!Idle \in AWork /\ Social!Idle.pc = "idle" /\ Social!Idle.as = Social!NoAttempt
  BY DEF Social!NoAttempt, AnAttempt, Social!SavedIds, Social!Idle, AWork, Stages, Listing, Social!Users

LEMMA Steps == /\ {"ensure", "join", "list", "saved", "cleanup", "begin", "url", "find", "make", "save",
                   "read", "poll", "complete", "reconcile", "idle", "delete", "drop", "cancel"} = Stages
  BY DEF Stages, Social!Connecting, Social!Creating, Social!Refreshing

\* A request that goes on to another await.
LEMMA Moved ==
  ASSUME NEW w \in AWork, NEW s \in Stages
  PROVE  LET v == [w EXCEPT !.pc = s]
         IN  /\ v \in AWork /\ v.pc = s /\ v.as = w.as /\ v.view = w.view /\ v.todo = w.todo /\ v.found = w.found
             /\ v.on = w.on
  BY DEF AWork

LEMMA Becoming ==
  ASSUME NEW h \in Requests, NEW w \in AWork, Shape, Social!Becomes(h, w)
  PROVE  /\ work' \in [Requests -> AWork] /\ work'[h] = w
         /\ \A g \in Requests \ {h} : work'[g] = work[g]
  BY DEF Social!Becomes, Shape

LEMMA LinksBegin ==
  ASSUME Social!SocialConnectionsAssumption PROVE Social!Init => LinkInv
<1> SUFFICES ASSUME Social!Init PROVE LinkInv
  OBVIOUS
<1>1. Shape
  <2>1. \A h \in Requests : work[h] \in AWork
    BY Nothing DEF Social!Init
  <2>2. given \in [Accounts -> 0..MaxIds]
    BY DEF Social!SocialConnectionsAssumption, Social!Init
  <2>. QED BY <2>1, <2>2, Nothing DEF Social!Init, Shape, Social!SavedIds, SavedRow, Listing, Social!Users
<1>2. \A h \in Requests : work[h] = Social!Idle
  BY DEF Social!Init
<1>3. NumbersInv
  BY <1>2, Nothing DEF Social!Init, NumbersInv, Numbering, Social!At
<1>4. BaselinesInv
  BY <1>2, Nothing DEF Social!Init, BaselinesInv, Baseline
<1>5. ReadingsInv
  BY <1>2, Nothing DEF Social!Init, ReadingsInv, Reading
<1>. QED BY <1>1, <1>3, <1>4, <1>5 DEF LinkInv

\* No attempt begins, is handed out or ends.
SameNumber(v, w) ==
    /\ v.as.n = w.as.n
    /\ \/ v.pc = w.pc
       \/ w.pc \in {"delete", "drop"} /\ v.pc \in {"drop", "cancel"}
       \/ w.pc = "url" /\ v.pc = "cancel"
LEMMA NumbersStand ==
  ASSUME LinkInv, attempt' \in AnAttempt, attempt'.n = attempt.n, UNCHANGED <<begun, handed, over>>,
         work' \in [Requests -> AWork],
         \A g \in Requests : \/ SameNumber(work'[g], work[g])
                             \/ work'[g].as.n <= begun /\ work'[g].pc \notin {"url", "cancel", "delete", "drop"}
  PROVE  NumbersInv'
<1>1. \A g \in Requests : Social!At(g, "url")' => Social!At(g, "url") /\ work'[g].as.n = work[g].as.n
  BY DEF Social!At, SameNumber
<1>2. \A n : Lost(n) => Lost(n)'
  BY <1>1 DEF Lost, Unsent
<1>3. ASSUME NEW h \in Requests PROVE Numbering(h)'
  <2>1. Numbering(h)
    BY DEF LinkInv, NumbersInv
  <2>2. CASE work'[h].as.n <= begun /\ work'[h].pc \notin {"url", "cancel", "delete", "drop"}
    BY <2>2 DEF Numbering, Social!At
  <2>3. CASE work'[h].as.n = work[h].as.n /\ work'[h].pc = work[h].pc
    BY <1>1, <1>2, <2>1, <2>3 DEF Numbering, Social!At
  <2>4. CASE work'[h].as.n = work[h].as.n /\ work[h].pc \in {"delete", "drop"} /\ work'[h].pc \in {"drop", "cancel"}
    BY <2>1, <2>4 DEF Numbering, Social!At, Lost
  <2>5. CASE work'[h].as.n = work[h].as.n /\ work[h].pc = "url" /\ work'[h].pc = "cancel"
    <3>1. Unsent(work[h].as.n)'
      BY <1>1, <2>1, <2>5 DEF Numbering, Social!At, Unsent
    <3>. QED BY <2>1, <2>5, <3>1 DEF Numbering, Social!At, Lost
  <2>. QED BY <2>2, <2>3, <2>4, <2>5 DEF SameNumber
<1>. QED BY <1>2, <1>3 DEF LinkInv, NumbersInv

\* Steps that only move requests on, to where they know nothing wrong.
Harmless(w) == /\ w.as.n <= begun /\ w.pc \notin {"url", "cancel", "delete", "drop"}
               /\ Baseline(w) /\ Reading(w)
Early == {"idle", "ensure", "join", "list", "find", "make", "save", "read"}
Unlinked == UNCHANGED <<integrations, platformUser, attempt, begun, handed, over, given>>

LEMMA EarlyIsHarmless == \A w : w.pc \in Early /\ w.as.n <= begun => Harmless(w)
  BY DEF Early, Harmless, Baseline, Reading

LEMMA IdleIsHarmless == ASSUME LinkInv PROVE Harmless(Social!Idle)
<1>1. Social!Idle.as.n <= begun
  BY Nothing DEF LinkInv, Shape
<1>. QED BY <1>1, Nothing, EarlyIsHarmless DEF Early

LEMMA HarmlessKeeps ==
  ASSUME LinkInv, Unlinked, SavedRow', work' \in [Requests -> AWork],
         \A g \in Requests : work'[g] = work[g] \/ Harmless(work'[g])
  PROVE  LinkInv'
<1>1. Shape'
  BY DEF LinkInv, Shape, Unlinked
<1>2. NumbersInv'
  <2>1. attempt' \in AnAttempt /\ attempt'.n = attempt.n /\ UNCHANGED <<begun, handed, over>>
    BY DEF LinkInv, Shape, Unlinked
  <2>2. \A g \in Requests : \/ SameNumber(work'[g], work[g])
                            \/ work'[g].as.n <= begun /\ work'[g].pc \notin {"url", "cancel", "delete", "drop"}
    <3> SUFFICES ASSUME NEW g \in Requests
                 PROVE  \/ SameNumber(work'[g], work[g])
                        \/ work'[g].as.n <= begun /\ work'[g].pc \notin {"url", "cancel", "delete", "drop"}
      OBVIOUS
    <3>1. CASE work'[g] = work[g]
      BY ONLY <3>1 DEF SameNumber
    <3>2. CASE Harmless(work'[g])
      BY ONLY <3>2 DEF Harmless
    <3>. QED BY <3>1, <3>2
  <2>. QED BY <2>1, <2>2, NumbersStand
<1>3. \A g \in Requests : (Baseline(work[g]) /\ Reading(work[g]))'
  <2> SUFFICES ASSUME NEW g \in Requests PROVE (Baseline(work[g]) /\ Reading(work[g]))'
    OBVIOUS
  <2>1. Baseline(work'[g]) /\ Reading(work'[g])
    <3>1. Baseline(work[g]) /\ Reading(work[g])
      BY DEF LinkInv, BaselinesInv, ReadingsInv
    <3>2. CASE work'[g] = work[g]
      BY ONLY <3>1, <3>2
    <3>3. CASE Harmless(work'[g])
      BY ONLY <3>3 DEF Harmless
    <3>. QED BY <3>2, <3>3
  <2>. QED BY <2>1 DEF Baseline, Reading, Missed, Unlinked
<1>4. BaselinesInv' /\ ReadingsInv'
  BY <1>3 DEF LinkInv, BaselinesInv, ReadingsInv, Unlinked
<1>. QED BY <1>1, <1>2, <1>4 DEF LinkInv

LEMMA OneHarmless ==
  ASSUME LinkInv, Unlinked, SavedRow', NEW h \in Requests, NEW w \in AWork,
         Social!Becomes(h, w), Harmless(w)
  PROVE  LinkInv'
  BY Becoming, HarmlessKeeps DEF LinkInv

LEMMA LinkKnown ==
  ASSUME LinkInv, NEW h \in Requests
  PROVE  /\ work[h] \in AWork /\ work[h].as \in AnAttempt /\ work[h].as.n \in Nat /\ work[h].as.n <= begun
         /\ work[h].view \subseteq Social!Ids /\ work[h].todo \subseteq Social!Ids
         /\ work[h].users \in Listing /\ work[h].under \in Social!Users /\ work[h].back \in BOOLEAN
         /\ platformUser \in Listing /\ SavedRow
         /\ work[h].found \in Social!SavedIds /\ work[h].on \in Social!SavedIds
         /\ row \in Social!SavedIds /\ attempt \in AnAttempt /\ attempt.n \in Nat /\ begun \in Nat /\ integrations \subseteq Social!Ids
         /\ Numbering(h) /\ Baseline(work[h]) /\ Reading(work[h])
<1>1. work[h] \in AWork /\ attempt \in AnAttempt /\ Numbering(h)
  BY DEF LinkInv, Shape, NumbersInv
<1>. QED BY <1>1 DEF LinkInv, Shape, NumbersInv, BaselinesInv, ReadingsInv, Numbering, AWork, AnAttempt, SavedRow

LEMMA GoesEarly ==
  ASSUME LinkInv, Unlinked, UNCHANGED <<row, external>>, NEW h \in Requests, NEW s \in Early, Social!Goto(h, s)
  PROVE  LinkInv'
<1>1. s \in Stages
  BY Steps DEF Early
<1> DEFINE w == [work[h] EXCEPT !.pc = s]
<1>2. w \in AWork /\ w.pc = s /\ w.as = work[h].as
  BY <1>1, LinkKnown, Moved
<1>3. Harmless(w)
  BY <1>2, LinkKnown, EarlyIsHarmless
<1>4. SavedRow'
  BY LinkKnown DEF SavedRow
<1>. QED BY <1>2, <1>3, <1>4, OneHarmless DEF Social!Goto

LEMMA AnswersKeep ==
  ASSUME LinkInv, Unlinked, SavedRow', NEW h \in Requests, Social!Answer(h)
  PROVE  LinkInv'
  BY Nothing, IdleIsHarmless, OneHarmless DEF Social!Answer

LEMMA CreatedKeeps ==
  ASSUME LinkInv, Unlinked, UNCHANGED <<row, external>>, NEW h \in Requests,
         Social!Created(h, "idle") \/ Social!Created(h, "list")
  PROVE  LinkInv'
<1>1. ASSUME NEW g \in Requests
      PROVE  work'[g] \in AWork /\ (work'[g] = work[g] \/ Harmless(work'[g]))
  <2>1. work'[g] = work[g] \/ work'[g] = Social!Idle \/ work'[g] = [work[g] EXCEPT !.pc = "list"]
    BY DEF Social!Created
  <2>2. [work[g] EXCEPT !.pc = "list"] \in AWork /\ Harmless([work[g] EXCEPT !.pc = "list"])
    <3> DEFINE w == [work[g] EXCEPT !.pc = "list"]
    <3>1. "list" \in Stages /\ work[g] \in AWork /\ work[g].as.n <= begun
      BY Steps, LinkKnown
    <3>2. w \in AWork /\ w.pc = "list" /\ w.as = work[g].as
      BY <3>1, Moved
    <3> HIDE DEF w
    <3>3. Harmless(w)
      BY <3>1, <3>2, EarlyIsHarmless DEF Early
    <3>. QED BY <3>2, <3>3 DEF w
  <2>. QED BY <2>1, <2>2, LinkKnown, Nothing, IdleIsHarmless
<1>2. work' \in [Requests -> AWork] /\ SavedRow'
  BY <1>1 DEF Social!Created, LinkInv, Shape, SavedRow
<1>. QED BY <1>1, <1>2, HarmlessKeeps

-----------------------------------------------------------------------------
(***************************************************************************)
(* The requests, one lemma for those that leave PostPeer and attempts be.  *)
(***************************************************************************)
LEMMA ConnectKeeps ==
  ASSUME LinkInv, NEW h \in Requests,
         Social!StartConnect(h) \/ Social!EnsureProfile(h) \/ Social!FindProfile(h) \/ Social!MakeProfile(h) \/ Social!SaveProfile(h)
  PROVE  LinkInv'
<1>1. Unlinked /\ UNCHANGED <<row, external>>
  BY DEF Social!StartConnect, Social!EnsureProfile, Social!FindProfile, Social!MakeProfile,
     Social!SaveProfile, Unlinked, Social!Store, Social!Rest
<1>2. CASE Social!StartConnect(h)
  <2> DEFINE w == [Social!Idle EXCEPT !.pc = "ensure"]
  <2>1. w \in AWork /\ w.pc = "ensure" /\ w.as = Social!NoAttempt
    BY Nothing, Moved, Steps
  <2>2. Harmless(w)
    <3>1. w.as.n <= begun
      BY <2>1, Nothing DEF LinkInv, Shape
    <3>. QED BY <2>1, <3>1, EarlyIsHarmless DEF Early
  <2>3. Social!Becomes(h, w) /\ SavedRow'
    BY <1>1, <1>2, LinkKnown DEF Social!StartConnect, SavedRow
  <2>. QED BY <1>1, <2>1, <2>2, <2>3, OneHarmless
<1>3. CASE Social!EnsureProfile(h)
  <2>1. PICK s \in Early : Social!Goto(h, s)
    BY <1>3 DEF Social!EnsureProfile, Early
  <2>. QED BY <1>1, <2>1, GoesEarly
<1>4. CASE Social!FindProfile(h)
  <2>1. (\E s \in Early : Social!Goto(h, s)) \/ Social!Created(h, "idle")
    BY <1>4 DEF Social!FindProfile, Early
  <2>. QED BY <1>1, <2>1, GoesEarly, CreatedKeeps
<1>5. CASE Social!MakeProfile(h)
  <2>1. (\E s \in Early : Social!Goto(h, s)) \/ Social!Created(h, "idle")
    BY <1>5 DEF Social!MakeProfile, Early
  <2>. QED BY <1>1, <2>1, GoesEarly, CreatedKeeps
<1>6. CASE Social!SaveProfile(h)
  BY <1>1, <1>6, CreatedKeeps DEF Social!SaveProfile
<1>. QED BY <1>2, <1>3, <1>4, <1>5, <1>6

LEMMA ListKeeps == ASSUME LinkInv, NEW h \in Requests, Social!ListIntegrations(h) PROVE LinkInv'
<1>1. Unlinked /\ UNCHANGED <<row, external>> /\ SavedRow'
  BY LinkKnown DEF Social!ListIntegrations, Unlinked, Social!Store, Social!Rest, SavedRow
<1>2. CASE Social!Answer(h)
  BY <1>1, <1>2, AnswersKeep
<1>3. CASE Social!Becomes(h, [work[h] EXCEPT !.pc = "saved", !.view = integrations])
  <2> DEFINE w == [work[h] EXCEPT !.pc = "saved", !.view = integrations]
  <2>1. w \in AWork /\ w.pc = "saved" /\ w.view = integrations /\ w.as = work[h].as
    BY LinkKnown, Steps DEF AWork
  <2>2. Harmless(w)
    BY <2>1, LinkKnown DEF Harmless, Baseline, Reading
  <2>. QED BY <1>1, <1>3, <2>1, <2>2, OneHarmless
<1>. QED BY <1>2, <1>3 DEF Social!ListIntegrations

\* Of the list stay the saved integration and those being deleted.
LEMMA SavedKeeps == ASSUME LinkInv, NEW h \in Requests, Social!ReadSaved(h) PROVE LinkInv'
<1>1. Unlinked /\ UNCHANGED <<row, external>> /\ SavedRow' /\ work[h].pc = "saved"
  BY LinkKnown DEF Social!ReadSaved, Unlinked, Social!Store, Social!Rest, Social!At, SavedRow
<1> DEFINE todo == Social!Leftovers(work[h].view)
           clean == (Social!Deleting \cap work[h].view = {})
           next == [work[h] EXCEPT !.view = @ \ todo, !.as.clean = clean, !.as.kept = row]
<1>2. /\ next \in AWork /\ next.pc = "saved" /\ next.view = work[h].view \ todo /\ next.as.clean = clean
      /\ next.as.kept = row /\ next.as.fresh = work[h].as.fresh /\ next.as.n = work[h].as.n
  <2> DEFINE b == [work[h].as EXCEPT !.clean = clean, !.kept = row]
  <2>1. \A c \in BOOLEAN : LET a == [work[h].as EXCEPT !.clean = c, !.kept = row]
                           IN  /\ a \in AnAttempt /\ a.clean = c /\ a.kept = row
                               /\ a.fresh = work[h].as.fresh /\ a.n = work[h].as.n
    BY LinkKnown DEF AnAttempt
  <2>2. /\ b \in AnAttempt /\ b.clean = clean /\ b.kept = row /\ b.fresh = work[h].as.fresh /\ b.n = work[h].as.n
    BY <2>1
  <2>3. next = [work[h] EXCEPT !.view = work[h].view \ todo, !.as = b]
    BY LinkKnown DEF AWork, AnAttempt
  <2> HIDE DEF b, clean
  <2>4. work[h] \in AWork /\ work[h].view \ todo \in SUBSET Social!Ids
    BY LinkKnown
  <2>. QED BY <1>1, <2>2, <2>3, <2>4 DEF AWork
<1>3. todo \subseteq Social!Ids /\ (clean => next.view \subseteq {row}) /\ integrations \subseteq next.view \cup todo \cup next.as.fresh
  BY <1>1, <1>2, LinkKnown DEF Social!Leftovers, Baseline
<1>4. PICK w \in Social!CleansUp(next, todo) : Social!Becomes(h, w)
  BY DEF Social!ReadSaved
<1> HIDE DEF next, todo, clean
<1>5. /\ w \in AWork /\ w.as = next.as /\ w.view = next.view
      /\ \/ todo = {} /\ w.pc = "begin"
         \/ w.pc = "cleanup" /\ w.todo \cup {w.on} = todo
  <2>1. CASE todo = {}
    <3>1. w = [next EXCEPT !.pc = "begin", !.on = Social!None, !.todo = {}]
      BY <1>4, <2>1 DEF Social!CleansUp
    <3>. QED BY <1>2, <2>1, <3>1, Steps DEF AWork, Social!SavedIds
  <2>2. CASE todo /= {}
    <3>1. PICK i \in todo : w = [next EXCEPT !.pc = "cleanup", !.on = i, !.todo = todo \ {i}]
      BY <1>4, <2>2 DEF Social!CleansUp
    <3>2. i \in Social!SavedIds /\ todo \ {i} \in SUBSET Social!Ids /\ (todo \ {i}) \cup {i} = todo
      BY <1>3, <3>1 DEF Social!SavedIds
    <3>. QED BY <1>2, <3>1, <3>2, Steps DEF AWork
  <2>. QED BY <2>1, <2>2
<1>6. Harmless(w)
  BY <1>2, <1>3, <1>5, LinkKnown DEF Harmless, Baseline, Reading
<1>. QED BY <1>1, <1>4, <1>5, <1>6, OneHarmless

LEMMA RefreshKeeps ==
  ASSUME LinkInv, NEW h \in Requests,
         (\E n \in Social!Numbers : Social!StartRefresh(h, n)) \/ Social!ReadRow(h) \/ Social!Poll(h) \/ Social!Reconcile(h)
  PROVE  LinkInv'
<1>1. Unlinked /\ SavedRow'
  <2>1. UNCHANGED <<row, external>> \/ Social!Removes
    BY DEF Social!StartRefresh, Social!ReadRow, Social!Poll, Social!Reconcile, Social!Store, Social!Rest, Social!Keeps
  <2>. QED BY <2>1, LinkKnown DEF Social!StartRefresh, Social!ReadRow, Social!Poll, Social!Reconcile,
              Unlinked, Social!Store, Social!Rest, Social!SavedIds, SavedRow, Social!Removes, Social!Users
<1>2. CASE \E n \in Social!Numbers : Social!StartRefresh(h, n)
  <2>1. PICK a \in {Social!NoAttempt, attempt} : Social!Becomes(h, [Social!Idle EXCEPT !.pc = "read", !.as = a])
    BY <1>2 DEF Social!StartRefresh
  <2> DEFINE w == [Social!Idle EXCEPT !.pc = "read", !.as = a]
  <2>2. a \in AnAttempt /\ a.n <= begun
    BY Nothing, LinkKnown DEF LinkInv, NumbersInv
  <2>3. w \in AWork /\ w.pc = "read" /\ w.as = a
    BY <2>2, Nothing, Steps DEF AWork
  <2> HIDE DEF w
  <2>4. Harmless(w)
    BY <2>2, <2>3, EarlyIsHarmless DEF Early
  <2>. QED BY <1>1, <2>1, <2>3, <2>4, OneHarmless DEF w
<1>3. CASE Social!ReadRow(h)
  <2>1. CASE Social!Answer(h)
    BY <1>1, <2>1, AnswersKeep
  <2>2. CASE Social!Becomes(h, [work[h] EXCEPT !.pc = "poll", !.found = row, !.under = external])
    <3> DEFINE w == [work[h] EXCEPT !.pc = "poll", !.found = row, !.under = external]
    <3>1. w \in AWork /\ w.pc = "poll" /\ w.as = work[h].as /\ w.found = row
      BY LinkKnown, Steps DEF AWork, SavedRow
    <3>2. Harmless(w)
      BY <3>1, LinkKnown DEF Harmless, Baseline, Reading
    <3>. QED BY <1>1, <2>2, <3>1, <3>2, OneHarmless
  <2>. QED BY <1>3, <2>1, <2>2 DEF Social!ReadRow
<1>4. CASE Social!Poll(h)
  <2>1. CASE Social!Answer(h)
    BY <1>1, <2>1, AnswersKeep
  <2>2. CASE ~Social!Answer(h)
    <3> DEFINE new == IF work[h].as.n = 0 THEN {} ELSE Social!Candidates(work[h].as, integrations)
               s == IF new = {} THEN "reconcile" ELSE "complete"
               w == [work[h] EXCEPT !.view = integrations, !.users = platformUser, !.todo = new, !.pc = s]
    <3>1. Social!At(h, "poll") /\ Social!Becomes(h, w)
      BY <1>4, <2>2 DEF Social!Poll
    <3>2. new \subseteq integrations
      BY DEF Social!Candidates
    <3>3. /\ w \in AWork /\ w.pc = s /\ w.view = integrations /\ w.users = platformUser /\ w.todo = new
          /\ w.as = work[h].as
      BY <3>2, LinkKnown, Steps DEF AWork
    <3>4. s = "complete" => work[h].as.n /= 0
      OBVIOUS
    <3>5. attempt.n /= 0 => integrations \subseteq attempt.baseline \cup attempt.fresh
      BY DEF LinkInv, BaselinesInv
    <3> HIDE DEF w, new
    <3>7. Harmless(w)
      BY <3>2, <3>3, <3>4, <3>5, LinkKnown DEF Harmless, Baseline, Reading, Missed
    <3>. QED BY <1>1, <3>1, <3>3, <3>7, OneHarmless
  <2>. QED BY <2>1, <2>2
<1>5. CASE Social!Reconcile(h)
  BY <1>1, <1>5, AnswersKeep DEF Social!Reconcile
<1>. QED BY <1>2, <1>3, <1>4, <1>5

-----------------------------------------------------------------------------
(***************************************************************************)
(* What PostPeer loses.                                                    *)
(***************************************************************************)
LEMMA LessKeeps ==
  ASSUME LinkInv, integrations' \subseteq integrations,
         UNCHANGED <<platformUser, row, external, attempt, begun, handed, over, given>>,
         work' \in [Requests -> AWork],
         \A g \in Requests : \/ SameNumber(work'[g], work[g])
                             \/ work'[g].as.n <= begun /\ work'[g].pc \notin {"url", "cancel", "delete", "drop"},
         \A g \in Requests : Baseline(work[g])' /\ Reading(work[g])'
  PROVE  LinkInv'
<1>1. Shape'
  BY DEF LinkInv, Shape, SavedRow
<1>2. NumbersInv'
  BY NumbersStand DEF LinkInv, Shape
<1>3. BaselinesInv' /\ ReadingsInv'
  BY DEF LinkInv, BaselinesInv, ReadingsInv
<1>. QED BY <1>1, <1>2, <1>3 DEF LinkInv

\* A request that waits knows nothing wrong of what is left.
LEMMA LessStays ==
  ASSUME LinkInv, integrations' \subseteq integrations, UNCHANGED <<platformUser, attempt>>, NEW g \in Requests,
         work'[g] = work[g]
  PROVE  SameNumber(work'[g], work[g]) /\ Baseline(work[g])' /\ Reading(work[g])'
<1>1. Baseline(work[g]) /\ Reading(work[g])
  BY LinkKnown
<1>. QED BY <1>1 DEF Baseline, Reading, Missed, SameNumber

\* A DELETE, with what its request does next.
LEMMA DeletesKeep ==
  ASSUME LinkInv, NEW h \in Requests, NEW i \in Social!SavedIds, NEW next \in AWork, integrations' = integrations \ {i},
         UNCHANGED <<platformUser, row, external, attempt, begun, handed, over, given>>, Social!Becomes(h, next),
         \/ SameNumber(next, work[h]) \/ next = Social!Idle
         \/ next.as.n <= begun /\ next.pc \notin {"url", "cancel", "delete", "drop"},
         next.pc \notin {"saved", "complete", "poll", "reconcile", "delete"},
         next.pc \in {"cleanup", "begin"} /\ next.as.clean => next.view \subseteq {next.as.kept},
         next.pc = "begin" => integrations \ {i} \subseteq next.view \cup next.as.fresh,
         next.pc = "cleanup" => integrations \ {i} \subseteq next.view \cup next.todo \cup {next.on} \cup next.as.fresh,
         next.pc = "drop" => next.found = i
  PROVE  LinkInv'
<1>1. work' \in [Requests -> AWork] /\ work'[h] = next /\ \A g \in Requests \ {h} : work'[g] = work[g]
  BY Becoming DEF LinkInv
<1>2. Baseline(work[h])' /\ Reading(work[h])'
  BY <1>1 DEF Baseline, Reading, Missed
<1>3. \A g \in Requests \ {h} : SameNumber(work'[g], work[g]) /\ Baseline(work[g])' /\ Reading(work[g])'
  BY <1>1, LessStays
<1>4. \/ SameNumber(work'[h], work[h])
      \/ work'[h].as.n <= begun /\ work'[h].pc \notin {"url", "cancel", "delete", "drop"}
  <2>1. next = Social!Idle => next.as.n <= begun /\ next.pc = "idle"
    BY Nothing, IdleIsHarmless DEF Harmless
  <2>. QED BY <1>1, <2>1
<1>5. integrations' \subseteq integrations
  OBVIOUS
<1>. QED BY <1>1, <1>2, <1>3, <1>4, <1>5, LessKeeps

LEMMA FailedDeleteKeeps ==
  ASSUME LinkInv, NEW h \in Requests, Social!DeleteFails(h),
         UNCHANGED <<platformUser, row, external, attempt, begun, handed, over, given>>
  PROVE  LinkInv'
<1>1. CASE UNCHANGED integrations
  <2>1. Unlinked /\ SavedRow'
    BY <1>1, LinkKnown DEF Unlinked, SavedRow
  <2>. QED BY <2>1, AnswersKeep DEF Social!DeleteFails
<1>2. CASE integrations' = integrations \ {work[h].on}
  <2>1. Social!Idle.pc = "idle" /\ Social!Idle \in AWork /\ work[h].on \in Social!SavedIds
    BY Nothing, LinkKnown
  <2>2. /\ Social!Idle.pc \notin {"saved", "complete", "poll", "reconcile", "delete"}
        /\ Social!Idle.pc \notin {"cleanup", "begin", "drop"}
    BY <2>1
  <2>3. Social!Becomes(h, Social!Idle)
    BY DEF Social!DeleteFails, Social!Answer
  <2>. QED BY <1>2, <2>1, <2>2, <2>3, DeletesKeep
<1>. QED BY <1>1, <1>2 DEF Social!DeleteFails

LEMMA CleanUpKeeps == ASSUME LinkInv, NEW h \in Requests, Social!CleanUp(h) PROVE LinkInv'
<1>1. UNCHANGED <<platformUser, row, external, attempt, begun, handed, over, given>> /\ work[h].pc = "cleanup"
  BY DEF Social!CleanUp, Social!Store, Social!Rest, Social!At
<1>2. ASSUME NEW w \in Social!CleansUp(work[h], work[h].todo), Social!Deletes(h, w) PROVE LinkInv'
  <2> DEFINE i == work[h].on
             todo == work[h].todo
  <2>1. /\ integrations' = integrations \ {i} /\ Social!Becomes(h, w)
    BY <1>2 DEF Social!Deletes
  <2>2. /\ work[h].as.clean => work[h].view \subseteq {work[h].as.kept}
        /\ integrations \ {i} \subseteq work[h].view \cup todo \cup work[h].as.fresh
    BY <1>1, LinkKnown DEF Baseline
  <2>3. /\ w \in AWork /\ w.as = work[h].as /\ w.view = work[h].view
        /\ \/ todo = {} /\ w.pc = "begin"
           \/ w.pc = "cleanup" /\ w.todo \cup {w.on} = todo
    <3>1. CASE todo = {}
      <4>1. w = [work[h] EXCEPT !.pc = "begin", !.on = Social!None, !.todo = {}]
        BY <1>2, <3>1 DEF Social!CleansUp
      <4>. QED BY <3>1, <4>1, LinkKnown, Steps DEF AWork, Social!SavedIds
    <3>2. CASE todo /= {}
      <4>1. PICK j \in todo : w = [work[h] EXCEPT !.pc = "cleanup", !.on = j, !.todo = todo \ {j}]
        BY <1>2, <3>2 DEF Social!CleansUp
      <4>2. j \in Social!SavedIds /\ todo \ {j} \in SUBSET Social!Ids /\ (todo \ {j}) \cup {j} = todo
        BY <4>1, LinkKnown DEF Social!SavedIds
      <4>. QED BY <4>1, <4>2, LinkKnown, Steps DEF AWork
    <3>. QED BY <3>1, <3>2
  <2>4. w.as.n <= begun /\ i \in Social!SavedIds /\ w.pc \in {"begin", "cleanup"}
    BY <2>3, LinkKnown
  <2> HIDE DEF i, todo
  <2>5. /\ w.as.clean => w.view \subseteq {w.as.kept}
        /\ w.pc = "begin" => integrations \ {i} \subseteq w.view \cup w.as.fresh
        /\ w.pc = "cleanup" => integrations \ {i} \subseteq w.view \cup w.todo \cup {w.on} \cup w.as.fresh
    BY <2>2, <2>3
  <2>. QED BY <1>1, <2>1, <2>3, <2>4, <2>5, DeletesKeep
<1>. QED BY <1>1, <1>2, FailedDeleteKeeps DEF Social!CleanUp

LEMMA DeleteKeeps == ASSUME LinkInv, NEW h \in Requests, Social!Delete(h) PROVE LinkInv'
<1>1. UNCHANGED <<platformUser, row, external, attempt, begun, handed, over, given>> /\ work[h].pc = "delete"
  BY DEF Social!Delete, Social!Store, Social!Rest, Social!At
<1> DEFINE w == [work[h] EXCEPT !.pc = "drop", !.on = Social!None]
<1>2. CASE Social!Deletes(h, w)
  <2>1. integrations' = integrations \ {work[h].on} /\ Social!Becomes(h, w)
    BY <1>2 DEF Social!Deletes
  <2>2. w \in AWork /\ w.pc = "drop" /\ w.as = work[h].as /\ w.found = work[h].found /\ work[h].on \in Social!SavedIds
    BY LinkKnown, Steps DEF AWork, Social!SavedIds
  <2>3. w.found = work[h].on
    BY <1>1, <2>2, LinkKnown DEF Reading
  <2> HIDE DEF w
  <2>4. SameNumber(w, work[h])
    BY <1>1, <2>2 DEF SameNumber
  <2>5. w.pc \notin {"saved", "complete", "poll", "reconcile", "delete", "cleanup", "begin"}
    BY <2>2
  <2>. QED BY <1>1, <2>1, <2>2, <2>3, <2>4, <2>5, DeletesKeep
<1>. QED BY <1>1, <1>2, FailedDeleteKeeps DEF Social!Delete

LEMMA RevokeKeeps == ASSUME LinkInv, NEW i \in Social!Ids, Social!Revoke(i) PROVE LinkInv'
<1>1. /\ integrations' = integrations \ {i} /\ work' = work
      /\ UNCHANGED <<platformUser, row, external, attempt, begun, handed, over, given>>
  BY DEF Social!Revoke, Social!Store, Social!Rest
<1>2. \A g \in Requests : SameNumber(work'[g], work[g]) /\ Baseline(work[g])' /\ Reading(work[g])'
  BY <1>1, LessStays
<1>3. work' \in [Requests -> AWork]
  BY <1>1 DEF LinkInv, Shape
<1>. QED BY <1>1, <1>2, <1>3, LessKeeps

LEMMA ExitKeeps == ASSUME LinkInv, Social!Exit PROVE LinkInv'
<1>1. /\ work' = [h \in Requests |-> Social!Idle] /\ integrations' \subseteq integrations
      /\ UNCHANGED <<platformUser, row, external, attempt, begun, handed, over, given>>
  BY DEF Social!Exit, Social!Store
<1>2. \A g \in Requests : work'[g] = Social!Idle /\ Social!Idle.as.n <= begun /\ Social!Idle.pc = "idle"
  BY <1>1, Nothing, IdleIsHarmless DEF Harmless
<1>3. \A g \in Requests : Baseline(work[g])' /\ Reading(work[g])'
  BY <1>2 DEF Baseline, Reading
<1>4. work' \in [Requests -> AWork]
  BY <1>1, Nothing
<1>. QED BY <1>1, <1>2, <1>3, <1>4, LessKeeps

-----------------------------------------------------------------------------
(***************************************************************************)
(* What PostPeer gets.                                                     *)
(***************************************************************************)
\* A request that remembers what PostPeer lists from now on.
NotedOne(w, list, users) == [w EXCEPT !.back = @ \/ Social!Again(w, list, users)]

LEMMA NotedFields ==
  ASSUME NEW w \in AWork, NEW list, NEW users
  PROVE  LET v == NotedOne(w, list, users)
         IN  /\ v \in AWork /\ v.pc = w.pc /\ v.as = w.as /\ v.view = w.view /\ v.users = w.users /\ v.todo = w.todo
             /\ v.found = w.found /\ v.under = w.under /\ v.on = w.on
             /\ v.back <=> w.back \/ Social!Again(w, list, users)
<1>1. (w.back \/ Social!Again(w, list, users)) \in BOOLEAN
  OBVIOUS
<1>2. \A b \in BOOLEAN : LET v == [w EXCEPT !.back = b]
                         IN  /\ v \in AWork /\ v.pc = w.pc /\ v.as = w.as /\ v.view = w.view /\ v.users = w.users
                             /\ v.todo = w.todo /\ v.found = w.found /\ v.under = w.under /\ v.on = w.on /\ v.back = b
  BY DEF AWork
<1>. QED BY <1>1, <1>2 DEF NotedOne

\* What was missed stays so, or is noted to be back.
LEMMA NotedMissed ==
  ASSUME Social!SocialConnectionsAssumption, NEW w \in AWork, Missed(w), integrations' \subseteq Social!Ids, NEW v,
         v.found = w.found, v.under = w.under, v.back <=> w.back \/ Social!Again(w, integrations', platformUser')
  PROVE  v.back \/ ~(v.found \in integrations' /\ platformUser'[v.found] = v.under)
<1>1. Social!None \notin Social!Ids
  BY DEF Social!SocialConnectionsAssumption, Social!Ids, Social!None
<1>. QED BY <1>1 DEF Missed, Social!Again, Social!Lists, Social!ListedAs

LEMMA RelabelKeeps ==
  ASSUME Social!SocialConnectionsAssumption, LinkInv, NEW i \in Social!Ids, Social!Relabel(i) PROVE LinkInv'
<1>1. PICK u \in Social!Users \ {platformUser[i]} :
         Social!PostPeerLists(integrations, [platformUser EXCEPT ![i] = u], work)
  BY DEF Social!Relabel
<1>2. /\ integrations' = integrations /\ platformUser' = [platformUser EXCEPT ![i] = u]
      /\ work' = [h \in Requests |-> NotedOne(work[h], integrations', platformUser')]
      /\ UNCHANGED <<row, external, attempt, begun, handed, over, given>>
  BY <1>1 DEF Social!Relabel, Social!PostPeerLists, Social!Noted, NotedOne, Social!Store
<1>3. platformUser' \in Listing /\ integrations' \subseteq Social!Ids
  BY <1>2 DEF LinkInv, Shape, Listing
<1>4. ASSUME NEW g \in Requests
      PROVE  work'[g] \in AWork /\ SameNumber(work'[g], work[g]) /\ Baseline(work[g])' /\ Reading(work[g])'
  <2>1. work[g] \in AWork /\ Baseline(work[g]) /\ Reading(work[g]) /\ work'[g] = NotedOne(work[g], integrations', platformUser')
    BY <1>2, LinkKnown
  <2>2. /\ work'[g] \in AWork /\ work'[g].pc = work[g].pc /\ work'[g].as = work[g].as /\ work'[g].view = work[g].view
        /\ work'[g].users = work[g].users /\ work'[g].todo = work[g].todo /\ work'[g].found = work[g].found
        /\ work'[g].under = work[g].under /\ work'[g].on = work[g].on
        /\ work'[g].back <=> work[g].back \/ Social!Again(work[g], integrations', platformUser')
    BY <2>1, NotedFields
  <2>3. Missed(work[g]) => Missed(work[g])'
    BY <1>3, <2>1, <2>2, NotedMissed DEF Missed
  <2>4. Baseline(work[g])'
    BY <1>2, <2>1, <2>2 DEF Baseline
  <2>5. Reading(work[g])'
    BY <1>2, <2>1, <2>2, <2>3 DEF Reading
  <2>. QED BY <2>2, <2>4, <2>5 DEF SameNumber
<1>5. work' \in [Requests -> AWork]
  BY <1>2, <1>4
<1>6. Shape'
  BY <1>2, <1>3, <1>5 DEF LinkInv, Shape, SavedRow
<1>7. NumbersInv'
  BY <1>2, <1>4, <1>5, NumbersStand DEF LinkInv, Shape
<1>8. BaselinesInv' /\ ReadingsInv'
  BY <1>2, <1>4 DEF LinkInv, BaselinesInv, ReadingsInv
<1>. QED BY <1>6, <1>7, <1>8 DEF LinkInv

LEMMA AuthoriseKeeps ==
  ASSUME Social!SocialConnectionsAssumption, LinkInv, NEW n \in Social!Numbers, NEW a \in Accounts,
         Social!Authorise(n, a)
  PROVE  LinkInv'
<1> DEFINE i == Social!NewId(a)
           now == [h \in Requests |-> IF work[h].pc \in {"saved", "cleanup", "begin"}
                                      THEN [work[h] EXCEPT !.as.fresh = @ \cup {i}] ELSE work[h]]
<1>1. /\ integrations' = integrations \cup {i} /\ platformUser' = [platformUser EXCEPT ![i] = "own"]
      /\ attempt' = IF attempt.n = 0 THEN attempt ELSE [attempt EXCEPT !.fresh = @ \cup {i}]
      /\ work' = [h \in Requests |-> NotedOne(now[h], integrations', platformUser')]
      /\ UNCHANGED <<row, external, begun, handed, over>>
  BY DEF Social!Authorise, Social!PostPeerLists, Social!Noted, NotedOne
<1>2. i \in Social!Ids
  <2>1. CASE \E j \in integrations : j.account = a
    <3>1. i = CHOOSE j \in integrations : j.account = a
      BY <2>1 DEF Social!NewId
    <3>. QED BY <2>1, <3>1, LinkKnown DEF LinkInv, Shape
  <2>2. CASE ~\E j \in integrations : j.account = a
    <3>1. given[a] \in 0..MaxIds /\ 0 \in 0..MaxIds
      BY DEF Social!SocialConnectionsAssumption, LinkInv, Shape
    <3>. QED BY <2>2, <3>1 DEF Social!NewId, Social!Ids
  <2>. QED BY <2>1, <2>2
<1>3. given' \in [Accounts -> 0..MaxIds]
  <2>1. given \in [Accounts -> 0..MaxIds] /\ MaxIds \in Nat
    BY DEF Social!SocialConnectionsAssumption, LinkInv, Shape
  <2>2. \/ given' = given
        \/ given' = [given EXCEPT ![a] = @ + 1] /\ given[a] < MaxIds
    BY DEF Social!Authorise
  <2>. QED BY <2>1, <2>2
<1> HIDE DEF i
<1>4. /\ attempt' \in AnAttempt /\ attempt'.n = attempt.n /\ attempt'.baseline = attempt.baseline
      /\ attempt'.clean = attempt.clean /\ attempt'.kept = attempt.kept /\ attempt.fresh \subseteq attempt'.fresh
      /\ attempt.n /= 0 => i \in attempt'.fresh
  <2>1. attempt \in AnAttempt
    BY DEF LinkInv, Shape
  <2>. QED BY <1>1, <1>2, <2>1 DEF AnAttempt
<1>5. platformUser' \in Listing /\ integrations' \subseteq Social!Ids
  BY <1>1, <1>2 DEF LinkInv, Shape, Listing, Social!Users
<1>6. ASSUME NEW g \in Requests
      PROVE  /\ work'[g] \in AWork /\ SameNumber(work'[g], work[g])
             /\ Baseline(work[g])' /\ Reading(work[g])'
  <2>1. Baseline(work[g]) /\ Reading(work[g]) /\ work[g] \in AWork /\ work[g].as \in AnAttempt
    BY LinkKnown
  <2> DEFINE connecting == work[g].pc \in {"saved", "cleanup", "begin"}
  <2>2. /\ now[g] \in AWork /\ now[g].pc = work[g].pc /\ now[g].view = work[g].view /\ now[g].users = work[g].users
        /\ now[g].todo = work[g].todo /\ now[g].on = work[g].on /\ now[g].found = work[g].found
        /\ now[g].under = work[g].under /\ now[g].back = work[g].back /\ now[g].as.n = work[g].as.n
        /\ now[g].as.clean = work[g].as.clean /\ now[g].as.kept = work[g].as.kept
        /\ connecting => now[g].as.fresh = work[g].as.fresh \cup {i}
    <3>1. CASE connecting
      <4>1. now[g] = [work[g] EXCEPT !.as = [work[g].as EXCEPT !.fresh = work[g].as.fresh \cup {i}]]
        BY <2>1, <3>1 DEF AWork, AnAttempt
      <4>2. LET b == [work[g].as EXCEPT !.fresh = work[g].as.fresh \cup {i}]
            IN  /\ b \in AnAttempt /\ b.n = work[g].as.n /\ b.clean = work[g].as.clean /\ b.kept = work[g].as.kept
                /\ b.fresh = work[g].as.fresh \cup {i}
        BY <1>2, <2>1 DEF AnAttempt
      <4> HIDE DEF now
      <4>. QED BY <2>1, <4>1, <4>2 DEF AWork
    <3>2. CASE ~connecting
      <4>1. now[g] = work[g]
        BY <3>2
      <4> HIDE DEF now
      <4>. QED BY <2>1, <3>2, <4>1
    <3>. QED BY <3>1, <3>2
  <2>3. work'[g] = NotedOne(now[g], integrations', platformUser')
    BY <1>1
  <2> HIDE DEF now
  <2>4. /\ work'[g] \in AWork /\ work'[g].pc = now[g].pc /\ work'[g].as = now[g].as /\ work'[g].view = now[g].view
        /\ work'[g].users = now[g].users /\ work'[g].todo = now[g].todo /\ work'[g].found = now[g].found
        /\ work'[g].under = now[g].under /\ work'[g].on = now[g].on
        /\ work'[g].back <=> now[g].back \/ Social!Again(now[g], integrations', platformUser')
    BY <2>2, <2>3, NotedFields
  <2>5. Missed(work[g]) => Missed(work[g])'
    <3>1. Missed(work[g]) => Missed(now[g])
      BY <2>2 DEF Missed
    <3>. QED BY <1>5, <2>2, <2>4, <3>1, NotedMissed DEF Missed
  <2>6. /\ work'[g].pc = work[g].pc /\ work'[g].view = work[g].view /\ work'[g].users = work[g].users
        /\ work'[g].todo = work[g].todo /\ work'[g].on = work[g].on /\ work'[g].found = work[g].found
        /\ work'[g].under = work[g].under /\ work'[g].as.n = work[g].as.n
        /\ work'[g].as.clean = work[g].as.clean /\ work'[g].as.kept = work[g].as.kept
        /\ connecting => work'[g].as.fresh = work[g].as.fresh \cup {i}
    BY <2>2, <2>4
  <2>7. integrations' = integrations \cup {i}
    BY <1>1
  <2>8. Baseline(work[g])'
    BY <2>1, <2>6, <2>7 DEF Baseline
  <2>9. Reading(work[g])'
    BY <1>4, <2>1, <2>5, <2>6 DEF Reading
  <2>. QED BY <2>4, <2>6, <2>8, <2>9 DEF SameNumber
<1> HIDE DEF now
<1>7. work' \in [Requests -> AWork]
  BY <1>1, <1>6
<1>8. Shape'
  BY <1>1, <1>3, <1>4, <1>5, <1>7 DEF LinkInv, Shape, SavedRow
<1>9. NumbersInv'
  BY <1>1, <1>4, <1>6, <1>7, NumbersStand
<1>10. BaselinesInv' /\ ReadingsInv'
  BY <1>1, <1>4, <1>6 DEF LinkInv, BaselinesInv, ReadingsInv
<1>. QED BY <1>8, <1>9, <1>10 DEF LinkInv

-----------------------------------------------------------------------------
(***************************************************************************)
(* Attempts.                                                               *)
(***************************************************************************)
LEMMA AttemptKeeps ==
  ASSUME LinkInv, UNCHANGED <<integrations, platformUser, given>>, NEW h \in Requests, NEW w \in AWork, Social!Becomes(h, w),
         w.pc \in Early \cup {"url", "delete", "cancel"}, w.pc = "delete" => w.found = w.on,
         SavedRow', begun' \in Nat, NumbersInv',
         \/ attempt' = attempt \/ attempt' = Social!NoAttempt
         \/ /\ attempt' \in AnAttempt /\ attempt'.n > begun
            /\ attempt'.clean => attempt'.baseline \subseteq {attempt'.kept}
            /\ integrations \subseteq attempt'.baseline \cup attempt'.fresh
  PROVE  LinkInv'
<1>1. work' \in [Requests -> AWork] /\ work'[h] = w /\ \A g \in Requests \ {h} : work'[g] = work[g]
  BY Becoming DEF LinkInv
<1>2. /\ attempt' \in AnAttempt /\ (attempt'.clean => attempt'.baseline \subseteq {attempt'.kept})
      /\ attempt'.n /= 0 => integrations \subseteq attempt'.baseline \cup attempt'.fresh
  BY Nothing DEF LinkInv, Shape, BaselinesInv
<1>3. Shape'
  BY <1>1, <1>2 DEF LinkInv, Shape
<1>4. ASSUME NEW g \in Requests PROVE Baseline(work[g])' /\ Reading(work[g])'
  <2>1. CASE g = h
    BY <1>1, <2>1 DEF Baseline, Reading, Early
  <2>2. CASE g /= h
    <3>1. work'[g] = work[g] /\ Baseline(work[g]) /\ Reading(work[g]) /\ work[g].as.n <= begun /\ work[g].as.n \in Nat
      BY <1>1, <2>2, LinkKnown
    <3>2. ASSUME work[g].pc = "complete", attempt'.n = work[g].as.n
          PROVE  work[g].todo \subseteq attempt'.baseline \cup attempt'.fresh
      <4>1. work[g].as.n /= 0 /\ Social!NoAttempt.n = 0 /\ begun \in Nat
        BY <3>1, <3>2, Nothing, LinkKnown DEF Reading
      <4>2. attempt' = attempt
        BY <3>1, <3>2, <4>1, <1>2 DEF AnAttempt
      <4>. QED BY <3>1, <3>2, <4>2 DEF Reading
    <3>. QED BY <3>1, <3>2 DEF Baseline, Reading, Missed
  <2>. QED BY <2>1, <2>2
<1>5. BaselinesInv' /\ ReadingsInv'
  BY <1>2, <1>4 DEF BaselinesInv, ReadingsInv
<1>. QED BY <1>3, <1>5 DEF LinkInv

\* A new attempt has a new number.
LEMMA BeginKeeps == ASSUME LinkInv, NEW h \in Requests, Social!Begin(h) PROVE LinkInv'
<1> DEFINE w == [Social!Idle EXCEPT !.pc = "url", !.as.n = begun + 1]
<1>1. /\ work[h].pc = "begin" /\ begun' = begun + 1 /\ Social!Becomes(h, w)
      /\ attempt' = [work[h].as EXCEPT !.n = begun + 1, !.baseline = work[h].view]
      /\ UNCHANGED <<integrations, platformUser, given, row, external, handed, over>>
  BY DEF Social!Begin, Social!At
<1>2. w \in AWork /\ w.pc = "url" /\ w.as.n = begun + 1
  <2>1. [Social!NoAttempt EXCEPT !.n = begun + 1] \in AnAttempt /\ [Social!NoAttempt EXCEPT !.n = begun + 1].n = begun + 1
    BY Nothing, LinkKnown DEF AnAttempt
  <2>2. w = [Social!Idle EXCEPT !.pc = "url", !.as = [Social!NoAttempt EXCEPT !.n = begun + 1]]
    BY Nothing DEF AWork
  <2>. QED BY <2>1, <2>2, Nothing, Steps DEF AWork
<1>3. /\ attempt' \in AnAttempt /\ attempt'.n = begun + 1 /\ attempt'.baseline = work[h].view
      /\ attempt'.clean = work[h].as.clean /\ attempt'.kept = work[h].as.kept /\ attempt'.fresh = work[h].as.fresh
  <2>1. work[h].as \in AnAttempt /\ work[h].view \in SUBSET Social!Ids /\ begun + 1 \in Nat
    BY LinkKnown
  <2>. QED BY <1>1, <2>1 DEF AnAttempt
<1>4. /\ attempt'.clean => attempt'.baseline \subseteq {attempt'.kept}
      /\ integrations \subseteq attempt'.baseline \cup attempt'.fresh
  BY <1>1, <1>3, LinkKnown DEF Baseline
<1> HIDE DEF w
<1>5. work' \in [Requests -> AWork] /\ work'[h] = w /\ \A g \in Requests \ {h} : work'[g] = work[g]
  BY <1>1, <1>2, Becoming DEF LinkInv
<1>6. NumbersInv'
  <2>1. begun \in Nat /\ handed \subseteq 1..begun /\ handed \subseteq 1..begun' /\ begun + 1 \notin handed
    BY <1>1, LinkKnown DEF LinkInv, NumbersInv
  <2>2. \A g \in Requests \ {h} : /\ work'[g] = work[g] /\ Numbering(g) /\ work[g].as.n \in Nat /\ work[g].as.n <= begun
                                  /\ work[g].as.n /= begun + 1
    BY <1>5, <2>1, LinkKnown
  <2>3. Numbering(h)'
    BY <1>1, <1>2, <1>5, <2>1, <2>2 DEF Numbering, Social!At
  <2>4. ASSUME NEW g \in Requests \ {h} PROVE Numbering(g)'
    <3>1. Lost(work[g].as.n) => Lost(work[g].as.n)'
      BY <1>1, <1>2, <1>5, <2>2 DEF Lost, Unsent, Social!At
    <3>2. Social!At(g, "url") => \A f \in Requests \ {g} : Social!At(f, "url")' => work'[f].as.n /= work[g].as.n
      BY <1>2, <1>5, <2>2 DEF Numbering, Social!At
    <3>. QED BY <1>1, <2>1, <2>2, <3>1, <3>2 DEF Numbering, Social!At
  <2>5. attempt'.n = begun'
    BY <1>1, <1>3
  <2>6. attempt'.n <= begun'
    BY <1>1, <2>1, <2>5
  <2>7. handed' \subseteq 1..begun'
    BY <1>1, <2>1
  <2>8. \A g \in Requests : Numbering(g)'
    BY <2>3, <2>4
  <2>. QED BY <2>5, <2>6, <2>7, <2>8 DEF NumbersInv
<1>7. attempt'.n > begun /\ begun' \in Nat /\ SavedRow'
  BY <1>1, <1>3, LinkKnown DEF SavedRow
<1>. QED BY <1>1, <1>2, <1>3, <1>4, <1>6, <1>7, AttemptKeeps

\* The nonce goes out once, or its request turns to cancel.
LEMMA UrlKeeps == ASSUME LinkInv, NEW h \in Requests, Social!CreateUrl(h) PROVE LinkInv'
<1>1. /\ work[h].pc = "url" /\ UNCHANGED <<integrations, platformUser, given, row, external, attempt, begun, over>>
  BY DEF Social!CreateUrl, Social!Store, Social!At
<1>2. SavedRow' /\ begun' \in Nat
  BY <1>1, LinkKnown DEF SavedRow
<1>3. CASE Social!Answer(h) /\ handed' = handed \cup {work[h].as.n}
  <2>1. work' \in [Requests -> AWork] /\ work'[h] = Social!Idle /\ \A g \in Requests \ {h} : work'[g] = work[g]
    BY <1>3, Nothing, Becoming DEF Social!Answer, LinkInv
  <2>2. Numbering(h) /\ work[h].as.n \in Nat /\ begun \in Nat
    BY LinkKnown
  <2>3. work[h].as.n /= 0 /\ work[h].as.n <= begun /\ handed' \subseteq 1..begun
    <3>1. work[h].as.n /= 0 /\ work[h].as.n <= begun
      BY <1>1, <2>2 DEF Numbering, Social!At
    <3>2. handed \subseteq 1..begun /\ work[h].as.n \in 1..begun
      BY <2>2, <3>1 DEF LinkInv, NumbersInv
    <3>. QED BY <1>3, <3>1, <3>2
  <2>4. \A n : Lost(n) => Lost(n)'
    BY <1>1, <1>3, <2>1, Nothing DEF Lost, Unsent, Social!At
  <2>5. ASSUME NEW g \in Requests PROVE Numbering(g)'
    <3>1. CASE g = h
      BY <1>1, <2>1, <3>1, Nothing, IdleIsHarmless DEF Numbering, Social!At, Harmless
    <3>2. CASE g /= h
      <4>1. Numbering(g) /\ work'[g] = work[g]
        BY <2>1, <3>2, LinkKnown
      <4>2. Social!At(g, "url") => work[g].as.n /= work[h].as.n
        BY <1>1, <2>2, <3>2 DEF Numbering, Social!At
      <4>3. \A f \in Requests : Social!At(f, "url")' => Social!At(f, "url") /\ work'[f] = work[f]
        BY <2>1, Nothing DEF Social!At
      <4>4. Social!At(g, "url") => \A f \in Requests \ {g} : Social!At(f, "url")' => work'[f].as.n /= work[g].as.n
        BY <4>1, <4>3 DEF Numbering
      <4>. QED BY <1>1, <1>3, <2>4, <4>1, <4>2, <4>4 DEF Numbering, Social!At
    <3>. QED BY <3>1, <3>2
  <2>6. NumbersInv'
    BY <1>1, <2>3, <2>4, <2>5 DEF LinkInv, NumbersInv
  <2>7. Social!Idle.pc \in Early /\ Social!Idle.pc /= "delete" /\ Social!Becomes(h, Social!Idle)
    BY <1>3, Nothing DEF Early, Social!Answer
  <2>. QED BY <1>1, <1>2, <2>6, <2>7, Nothing, AttemptKeeps
<1>4. CASE Social!Goto(h, "cancel") /\ UNCHANGED handed
  <2> DEFINE w == [work[h] EXCEPT !.pc = "cancel"]
  <2>1. w \in AWork /\ w.pc = "cancel" /\ w.as = work[h].as /\ Social!Becomes(h, w)
    BY <1>4, LinkKnown, Moved, Steps DEF Social!Goto
  <2>2. work' \in [Requests -> AWork] /\ work'[h] = w /\ \A g \in Requests \ {h} : work'[g] = work[g]
    BY <2>1, Becoming DEF LinkInv
  <2>3. \A g \in Requests : SameNumber(work'[g], work[g])
    BY <1>1, <2>1, <2>2 DEF SameNumber
  <2>4. attempt' \in AnAttempt /\ attempt'.n = attempt.n
    BY <1>1, LinkKnown
  <2>5. NumbersInv'
    BY <1>1, <1>4, <2>2, <2>3, <2>4, NumbersStand
  <2>. QED BY <1>1, <1>2, <2>1, <2>5, AttemptKeeps
<1>. QED BY <1>3, <1>4 DEF Social!CreateUrl

\* The attempt that is given up is the request's own, and nobody has it or it is over; or it is used.
LEMMA EndedNumbers ==
  ASSUME LinkInv, NEW h \in Requests, attempt' \in {attempt, Social!NoAttempt}, UNCHANGED <<begun, handed>>, over \subseteq over',
         work' \in [Requests -> AWork], \A g \in Requests \ {h} : work'[g] = work[g],
         work'[h].as.n <= begun, work'[h].pc /= "url", Social!At(h, "url") = FALSE,
         work'[h].pc \in {"delete", "drop", "cancel"} => work'[h].as.n \in over',
         begun /= 0 /\ attempt.n = begun /\ attempt'.n /= begun => begun \in over' \/ Unsent(begun)
  PROVE  NumbersInv'
<1>1. \A g \in Requests : Social!At(g, "url")' => Social!At(g, "url") /\ work'[g] = work[g]
  BY DEF Social!At
<1>2. \A n : Unsent(n) => Unsent(n)'
  BY <1>1 DEF Unsent
<1>3. \A n : Lost(n) => Lost(n)'
  BY <1>2 DEF Lost
<1>4. ASSUME NEW g \in Requests PROVE Numbering(g)'
  <2>1. CASE g = h
    BY <2>1 DEF Numbering, Social!At, Lost
  <2>2. CASE g /= h
    <3>1. Numbering(g) /\ work'[g] = work[g]
      BY <2>2, LinkKnown
    <3>. QED BY <1>1, <1>3, <3>1 DEF Numbering, Social!At
  <2>. QED BY <2>1, <2>2
<1>5. attempt'.n <= begun
  BY Nothing, LinkKnown DEF LinkInv, NumbersInv
<1>6. begun /= 0 /\ attempt'.n /= begun => Lost(begun)'
  <2>1. CASE attempt.n = begun
    BY <1>2, <2>1 DEF Lost
  <2>2. CASE attempt.n /= begun
    BY <1>3, <2>2 DEF LinkInv, NumbersInv
  <2>. QED BY <2>1, <2>2
<1>. QED BY <1>4, <1>5, <1>6 DEF LinkInv, NumbersInv

LEMMA CancelKeeps == ASSUME LinkInv, NEW h \in Requests, Social!Cancel(h) PROVE LinkInv'
<1>1. /\ work[h].pc = "cancel" /\ UNCHANGED <<integrations, platformUser, given, row, external, begun, handed, over>>
      /\ Social!Becomes(h, Social!Idle) /\ attempt' = IF attempt.n = work[h].as.n THEN Social!NoAttempt ELSE attempt
  BY DEF Social!Cancel, Social!Answer, Social!SameNonce, Social!Rest, Social!At
<1>2. SavedRow' /\ begun' \in Nat
  BY <1>1, LinkKnown DEF SavedRow
<1>3. work' \in [Requests -> AWork] /\ work'[h] = Social!Idle /\ \A g \in Requests \ {h} : work'[g] = work[g]
  BY <1>1, Nothing, Becoming DEF LinkInv
<1>4. begun /= 0 /\ attempt.n = begun /\ attempt'.n /= begun => begun \in over' \/ Unsent(begun)
  <2>1. Lost(work[h].as.n)
    BY <1>1, LinkKnown DEF Numbering, Social!At
  <2>. QED BY <1>1, <2>1 DEF Lost
<1>5. Social!Idle.as.n <= begun /\ Social!Idle.pc = "idle" /\ Social!Idle.pc \in Early
  BY Nothing, IdleIsHarmless DEF Harmless, Early
<1>6. Social!At(h, "url") = FALSE /\ attempt' \in {attempt, Social!NoAttempt}
  BY <1>1 DEF Social!At
<1>7. NumbersInv'
  BY <1>1, <1>3, <1>4, <1>5, <1>6, EndedNumbers
<1>. QED BY <1>1, <1>2, <1>5, <1>7, Nothing, AttemptKeeps

\* What an import takes is new since the baseline.
LEMMA CompleteImports ==
  ASSUME LinkInv, NEW h \in Requests, Social!Complete(h)
  PROVE  \/ Unlinked /\ UNCHANGED <<row, external>>
         \/ /\ row' \in Social!Ids /\ external' \in Social!Users /\ row' \in attempt.fresh /\ attempt.n \notin expired /\ attempt.n /= 0
            /\ attempt' = Social!NoAttempt /\ over' = over \cup {attempt.n}
            /\ UNCHANGED <<integrations, platformUser, begun, handed, given>>
<1> DEFINE i == CHOOSE x \in work[h].todo : TRUE
<1>1. work[h].pc = "complete" /\ UNCHANGED <<integrations, platformUser, begun, handed, given>>
  BY DEF Social!Complete, Social!At
<1>2. CASE Social!Available(work[h].as.n) /\ i \in Social!Candidates(attempt, work[h].todo) /\ ~Social!Taken(i, work[h].users[i])
  <2>1. row' = i /\ external' = work[h].users[i] /\ attempt' = Social!NoAttempt /\ over' = over \cup {attempt.n}
    BY <1>2 DEF Social!Complete
  <2>2. attempt.n = work[h].as.n /\ attempt.n \notin expired /\ i \in work[h].todo /\ i \notin attempt.baseline
    BY <1>2 DEF Social!Available, Social!Candidates
  <2>3. work[h].as.n /= 0 /\ work[h].todo \subseteq attempt.baseline \cup attempt.fresh /\ work[h].todo \subseteq Social!Ids
    BY <1>1, <2>2, LinkKnown DEF Reading
  <2>4. work[h].users \in [Social!Ids -> Social!Users]
    BY LinkKnown DEF Listing
  <2> HIDE DEF i
  <2>5. i \in Social!Ids /\ work[h].users[i] \in Social!Users
    BY <2>2, <2>3, <2>4
  <2>. QED BY <1>1, <2>1, <2>2, <2>3, <2>5
<1>3. CASE ~(Social!Available(work[h].as.n) /\ i \in Social!Candidates(attempt, work[h].todo) /\ ~Social!Taken(i, work[h].users[i]))
  BY <1>1, <1>3 DEF Social!Complete, Unlinked
<1>. QED BY <1>2, <1>3

LEMMA CompleteKeeps == ASSUME LinkInv, NEW h \in Requests, Social!Complete(h) PROVE LinkInv'
<1>1. work[h].pc = "complete" /\ Social!Answer(h) /\ Social!Becomes(h, Social!Idle)
  BY DEF Social!Complete, Social!At, Social!Answer
<1>2. CASE Unlinked /\ UNCHANGED <<row, external>>
  BY <1>1, <1>2, LinkKnown, AnswersKeep DEF SavedRow
<1>3. CASE /\ row' \in Social!Ids /\ external' \in Social!Users /\ attempt' = Social!NoAttempt /\ over' = over \cup {attempt.n}
           /\ UNCHANGED <<integrations, platformUser, begun, handed, given>>
  <2>1. work' \in [Requests -> AWork] /\ work'[h] = Social!Idle /\ \A g \in Requests \ {h} : work'[g] = work[g]
    BY <1>1, Nothing, Becoming DEF LinkInv
  <2>2. Social!Idle.as.n <= begun /\ Social!Idle.pc = "idle" /\ Social!Idle.pc \in Early /\ Social!At(h, "url") = FALSE
    BY <1>1, Nothing, IdleIsHarmless DEF Harmless, Early, Social!At
  <2>3. NumbersInv'
    BY <1>3, <2>1, <2>2, EndedNumbers
  <2>4. SavedRow' /\ begun' \in Nat
    BY <1>3, LinkKnown DEF Social!SavedIds, SavedRow
  <2>. QED BY <1>1, <1>3, <2>2, <2>3, <2>4, Nothing, AttemptKeeps
<1>. QED BY <1>2, <1>3, CompleteImports

LEMMA DisconnectKeeps == ASSUME LinkInv, NEW h \in Requests, Social!StartDisconnect(h) PROVE LinkInv'
<1> DEFINE s == Social!DeleteFirst(row)
           w == [Social!Idle EXCEPT !.pc = s, !.found = row, !.under = external, !.on = row, !.as.n = attempt.n]
<1>1. /\ work[h].pc = "idle" /\ Social!Becomes(h, w) /\ over' = over \cup {attempt.n}
      /\ UNCHANGED <<integrations, platformUser, given, row, external, attempt, begun, handed>>
  BY DEF Social!StartDisconnect, Social!Store, Social!At
<1>2. w \in AWork /\ w.pc = s /\ w.as.n = attempt.n /\ w.found = row /\ w.on = row /\ s \in {"delete", "cancel"}
  <2>1. [Social!NoAttempt EXCEPT !.n = attempt.n] \in AnAttempt /\ [Social!NoAttempt EXCEPT !.n = attempt.n].n = attempt.n
    BY Nothing, LinkKnown DEF AnAttempt
  <2>2. w = [Social!Idle EXCEPT !.pc = s, !.found = row, !.under = external, !.on = row, !.as = [Social!NoAttempt EXCEPT !.n = attempt.n]]
    BY Nothing DEF AWork
  <2>3. s \in {"delete", "cancel"}
    BY DEF Social!DeleteFirst
  <2>. QED BY <2>1, <2>2, <2>3, Nothing, LinkKnown, Steps DEF AWork, SavedRow
<1> HIDE DEF w, s
<1>3. work' \in [Requests -> AWork] /\ work'[h] = w /\ \A g \in Requests \ {h} : work'[g] = work[g]
  BY <1>1, <1>2, Becoming DEF LinkInv
<1>4. attempt.n <= begun /\ Social!At(h, "url") = FALSE
  BY <1>1 DEF LinkInv, NumbersInv, Social!At
<1>5. NumbersInv'
  BY <1>1, <1>2, <1>3, <1>4, EndedNumbers
<1>6. SavedRow' /\ begun' \in Nat /\ w.pc \in Early \cup {"url", "delete", "cancel"}
  BY <1>1, <1>2, LinkKnown DEF SavedRow
<1>. QED BY <1>1, <1>2, <1>5, <1>6, AttemptKeeps

LEMMA DropKeeps == ASSUME LinkInv, NEW h \in Requests, Social!Drop(h) PROVE LinkInv'
<1>1. /\ work[h].pc = "drop" /\ UNCHANGED <<integrations, platformUser, given, attempt, begun, handed, over>>
      /\ UNCHANGED <<row, external>> \/ Social!Removes
  BY DEF Social!Drop, Social!Rest, Social!At, Social!Keeps
<1>2. SavedRow' /\ begun' \in Nat
  BY <1>1, LinkKnown DEF Social!SavedIds, SavedRow, Social!Removes, Social!Users
<1>3. CASE Social!Answer(h)
  <2>1. Unlinked
    BY <1>1 DEF Unlinked
  <2>. QED BY <1>2, <1>3, <2>1, AnswersKeep
<1>4. CASE Social!Goto(h, "cancel")
  <2> DEFINE w == [work[h] EXCEPT !.pc = "cancel"]
  <2>1. w \in AWork /\ w.pc = "cancel" /\ w.as = work[h].as /\ Social!Becomes(h, w)
    BY <1>4, LinkKnown, Moved, Steps DEF Social!Goto
  <2> HIDE DEF w
  <2>2. work' \in [Requests -> AWork] /\ work'[h] = w /\ \A g \in Requests \ {h} : work'[g] = work[g]
    BY <2>1, Becoming DEF LinkInv
  <2>3. \A g \in Requests : SameNumber(work'[g], work[g])
    BY <1>1, <2>1, <2>2 DEF SameNumber
  <2>4. attempt' \in AnAttempt /\ attempt'.n = attempt.n
    BY <1>1, LinkKnown
  <2>5. NumbersInv'
    BY <1>1, <2>2, <2>3, <2>4, NumbersStand
  <2>. QED BY <1>1, <1>2, <2>1, <2>5, AttemptKeeps
<1>. QED BY <1>3, <1>4 DEF Social!Drop

LEMMA ExpireKeeps == ASSUME LinkInv, Social!Expire PROVE LinkInv'
<1>1. Unlinked /\ UNCHANGED <<row, external>> /\ work' = work
  BY DEF Social!Expire, Unlinked, Social!Store
<1>2. SavedRow' /\ work' \in [Requests -> AWork]
  BY <1>1 DEF LinkInv, Shape, SavedRow
<1>. QED BY <1>1, <1>2, HarmlessKeeps

LEMMA LinksKeep ==
  ASSUME Social!SocialConnectionsAssumption PROVE LinkInv /\ [Social!Next]_(Social!vars) => LinkInv'
<1> SUFFICES ASSUME LinkInv, [Social!Next]_(Social!vars) PROVE LinkInv'
  OBVIOUS
<1>1. CASE UNCHANGED Social!vars
  <2>1. Unlinked /\ UNCHANGED <<row, external>> /\ work' = work
    BY <1>1 DEF Social!vars, Unlinked
  <2>2. SavedRow' /\ work' \in [Requests -> AWork]
    BY <2>1 DEF LinkInv, Shape, SavedRow
  <2>. QED BY <2>1, <2>2, HarmlessKeeps
<1>2. ASSUME NEW h \in Requests, Social!Step(h) PROVE LinkInv'
  BY <1>2, ConnectKeeps, ListKeeps, SavedKeeps, CleanUpKeeps, BeginKeeps, UrlKeeps, CancelKeeps,
     RefreshKeeps,
     CompleteKeeps, DeleteKeeps, DropKeeps DEF Social!Step
<1>. QED BY <1>1, <1>2, ConnectKeeps, DisconnectKeeps, RefreshKeeps, AuthoriseKeeps, RevokeKeeps, RelabelKeeps,
            ExpireKeeps, ExitKeeps
         DEF Social!Next

-----------------------------------------------------------------------------
\* The newest attempt stays the user's to complete, and no leftover keeps an account out.
THEOREM NewestStaysOpen ==
  ASSUME Social!SocialConnectionsAssumption
  PROVE  Social!Spec => []NewestCanComplete
<1>1. LinkInv => NewestCanComplete
  BY DEF LinkInv, NumbersInv, BaselinesInv, Lost, Unsent, NewestCanComplete, Social!NewestCanComplete, Social!HandedStays,
     Social!LeftoversNeverBlock
<1>. QED BY <1>1, LinksBegin, LinksKeep, PTL DEF Social!Spec

\* What changes the saved connection.
LEMMA RowChanges ==
  ASSUME LinkInv, Social!Next, row' /= row
  PROVE  \E h \in Requests : Social!Complete(h) \/ Social!Reconcile(h) \/ Social!Drop(h)
BY DEF Social!Next, Social!Step, Social!StartConnect, Social!StartDisconnect, Social!StartRefresh,
   Social!EnsureProfile, Social!FindProfile, Social!MakeProfile, Social!SaveProfile,
       Social!ListIntegrations, Social!ReadSaved, Social!CleanUp, Social!Begin, Social!CreateUrl, Social!Cancel,
       Social!ReadRow, Social!Poll, Social!Delete, Social!Authorise, Social!Revoke, Social!Relabel, Social!PostPeerLists, Social!Expire,
       Social!Exit, Social!Store, Social!Rest

\* What is imported was authorised after the baseline of its attempt, in time.
THEOREM OnlyNewImported ==
  ASSUME Social!SocialConnectionsAssumption
  PROVE  Social!Spec => Social!ImportedIsNew
<1>1. ASSUME LinkInv, Social!Next, row' /= row, row' /= Social!None
      PROVE  row' \in attempt.fresh /\ attempt.n \notin expired
  <2>1. PICK h \in Requests : Social!Complete(h) \/ Social!Reconcile(h) \/ Social!Drop(h)
    BY <1>1, RowChanges
  <2>2. Social!Complete(h)
    BY <1>1, <2>1 DEF Social!Reconcile, Social!Drop, Social!Keeps, Social!Removes
  <2>. QED BY <1>1, <2>2, CompleteImports
<1>2. LinkInv /\ [Social!Next]_(Social!vars) =>
        [row' /= row /\ row' /= Social!None => row' \in attempt.fresh /\ attempt.n \notin expired]_(Social!vars)
  BY <1>1 DEF Social!vars
<1>. QED BY <1>2, LinksBegin, LinksKeep, PTL DEF Social!Spec, Social!ImportedIsNew

\* What is removed is not listed as it was saved, or has come back since its request read it.
THEOREM OnlyUnlistedRemoved ==
  ASSUME Social!SocialConnectionsAssumption
  PROVE  Social!Spec => Social!RemovedIsUnlisted
<1> DEFINE Justified == \/ ~Social!Lists(row, external)
                     \/ \E h \in Requests : work'[h] /= work[h] /\ work[h].back
                                            /\ work[h].found = row /\ work[h].under = external
<1>1. ASSUME LinkInv, Social!Next, row /= Social!None, row' = Social!None
      PROVE  Justified
  <2>1. PICK h \in Requests : Social!Complete(h) \/ Social!Reconcile(h) \/ Social!Drop(h)
    BY <1>1, RowChanges
  <2>2. ~Social!Complete(h)
    <3>1. Social!None \notin Social!Ids
      BY DEF Social!SocialConnectionsAssumption, Social!Ids, Social!None
    <3>. QED BY <1>1, <3>1, CompleteImports
  <2>3. /\ Social!Expected(h) /\ work[h].pc \in {"reconcile", "drop"}
        /\ work[h].pc = "reconcile" => ~(work[h].found \in work[h].view /\ work[h].users[work[h].found] = work[h].under)
    BY <1>1, <2>1, <2>2 DEF Social!Reconcile, Social!Drop, Social!At, Social!Keeps, Social!ListedAs
  <2>4. row = work[h].found /\ external = work[h].under /\ Missed(work[h])
    BY <1>1, <2>3, LinkKnown DEF Social!Expected, Reading
  <2>5. work'[h].pc \in {"idle", "cancel"}
    <3>1. Social!Becomes(h, Social!Idle) \/ Social!Becomes(h, [work[h] EXCEPT !.pc = "cancel"])
      BY <2>1, <2>2 DEF Social!Reconcile, Social!Drop, Social!Answer, Social!Goto
    <3>2. work'[h] = Social!Idle \/ work'[h] = [work[h] EXCEPT !.pc = "cancel"]
      BY <1>1, <3>1 DEF Social!Becomes, LinkInv, Shape
    <3>3. [work[h] EXCEPT !.pc = "cancel"].pc = "cancel"
      BY <1>1, LinkKnown, Moved, Steps
    <3>. QED BY <3>2, <3>3, Nothing
  <2>. QED BY <2>3, <2>4, <2>5 DEF Missed, Social!Lists, Social!ListedAs
<1>2. LinkInv /\ [Social!Next]_(Social!vars) => [row /= Social!None /\ row' = Social!None => Justified]_(Social!vars)
  BY <1>1 DEF Social!vars
<1>. QED BY <1>2, LinksBegin, LinksKeep, PTL DEF Social!Spec, Social!RemovedIsUnlisted

\* The saved connection follows PostPeer: only what is new is imported, only what is not listed removed.
THEOREM LinksAreTrue ==
  ASSUME Social!SocialConnectionsAssumption
  PROVE  Social!Spec => LinksFollowPostPeer
  BY OnlyNewImported, OnlyUnlistedRemoved, PTL DEF LinksFollowPostPeer, Social!LinksFollowPostPeer
===============================================================================
