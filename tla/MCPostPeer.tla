------------------------------ MODULE MCPostPeer ------------------------------
(***************************************************************************)
(* Two questions about PostPeer, each on small instances and apart: what   *)
(* one publish call tells the worker (PostPeerPublish), with every kind of *)
(* post; and the account a user links (SocialConnections), with two        *)
(* accounts and two requests.                                              *)
(***************************************************************************)
EXTENDS PostPeerPublish, TLC

CONSTANTS a1, a2, h1, h2, Accounts, Linked, Requests, ReusesIds, MaxConnects, MaxIds, MaxFaults, MaxExits

VARIABLES profiles, integrations, platformUser, urls, profile, row, external, attempt, expired,
          work, connects, begun, given, handed, over, faults, exits
linking == <<profiles, integrations, platformUser, urls, profile, row, external, attempt, expired,
             work, connects, begun, given, handed, over, faults, exits>>

EveryKind == AllKinds
TwoAccounts == {a1, a2}
TwoRequests == {h1, h2}
Symmetric == Permutations(TwoRequests)

Social == INSTANCE SocialConnections

ASSUME Social!SocialConnectionsAssumption

\* A post is published, or an account is linked: then there is no call.
MCInit ==
    \/ Init /\ Social!Init /\ profiles = 0
    \/ /\ Social!Init
       /\ kind = "plain" /\ intended = [row |-> 1, account |-> "none"] /\ target = intended /\ sealed = FALSE
       /\ made = "none" /\ travels = FALSE /\ pc = "none" /\ known = "none" /\ polls = 0
       /\ outcome = "none" /\ lost = "never"

Publish == pc /= "none" /\ Next /\ UNCHANGED linking
Link    == pc = "none" /\ Social!Next /\ UNCHANGED vars
MCNext == Publish \/ Link

MCSpec == MCInit /\ [][MCNext]_<<vars, linking>>

\* The properties of SocialConnections, stated there: the user can complete the newest attempt.
NewestCanComplete == Social!NewestCanComplete
\* What is imported was authorised after the baseline of its attempt, and a request removes only what
\* PostPeer does not list as it was saved, or has listed again since the request read it.
LinksFollowPostPeer == Social!LinksFollowPostPeer
===============================================================================
