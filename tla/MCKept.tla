-------------------------------- MODULE MCKept --------------------------------
(***************************************************************************)
(* What an owner has and is not to lose, on small instances and apart: the *)
(* images of a page (LinkInBioImages), two of them; packs of credits       *)
(* (AddonPurchases), two of them, one of a product that is given up, with  *)
(* two owners; and the name and style of a page (LinkInBioPages), where    *)
(* one owner asks for any name and style, as a member, as none or from an  *)
(* old app, and the other for a name only.  Two requests at a time.        *)
(***************************************************************************)
EXTENDS LinkInBioImages, TLC

CONSTANTS
    ann, bob, h1, h2, p1, p2, s1, s2, s3, free, gold,
    Owners,
    Handlers, Packs, Old, TextAs, MaxChanges,                                          \* AddonPurchases
    Publishers, Slugs, Free, Premium, Newer, Wishes, None, MaxKept, Period, MaxTime    \* LinkInBioPages

VARIABLES
    part,
    listed, refunded, renamed, account, ledger, pending, handled, requests, missed, told, changes,
    profile, reserved, claims, clock
packs == <<listed, refunded, renamed, account, ledger, pending, handled, requests, missed, told, changes>>
names == <<profile, reserved, claims, clock>>

TwoOwners == {ann, bob}
TwoRequests == {h1, h2}
TwoPacks == {p1, p2}
OnePack == {p1}
ThreeNames == {s1, s2, s3}
OnePremium == {gold}

\* The id of each pack at the provider reads like the store's id of the other.
Other == [p \in Packs |-> IF p = p1 THEN p2 ELSE p1]

AnyName(by, style, member, old) == [by : {by}, slug : ThreeNames, style : {style}, member : {member}, old : {old}]
AnyPage ==
    UNION {AnyName(ann, gold, TRUE, FALSE), AnyName(ann, gold, FALSE, FALSE),
           AnyName(ann, free, FALSE, TRUE), AnyName(ann, free, FALSE, FALSE), AnyName(bob, None, FALSE, FALSE)}

SameRequests == Permutations(TwoRequests)
SameNames == SameRequests \cup Permutations(ThreeNames)

Bought == INSTANCE AddonPurchases WITH work <- requests
Pages == INSTANCE LinkInBioPages WITH Requests <- Publishers, page <- profile, work <- claims

ASSUME Bought!AddonPurchasesAssumption
ASSUME Pages!PagesAssumption

\* Images are uploaded, packs are bought, or names are taken: then nothing is known of the others.
Alone(p) == part = p /\ Init /\ Bought!Init /\ Pages!Init /\ (p # "packs" => account = [o \in Owners |-> "none"])

Image == part = "images" /\ Next /\ UNCHANGED <<part, packs, names>>
Pack  == part = "packs" /\ Bought!Next /\ UNCHANGED <<part, vars, names>>
Page  == part = "names" /\ Pages!Next /\ UNCHANGED <<part, vars, packs>>

MCSpec == (Alone("images") \/ Alone("packs")) /\ [][Image \/ Pack]_<<part, vars, packs, names>>
PageSpec == Alone("names") /\ [][Page]_<<part, vars, packs, names>>

\* AddonPurchases: a pack counts for one owner for as long as it is not refunded.
PacksAreAccounted == Bought!PacksAreAccounted

\* LinkInBioPages: nobody takes a name that another has, or has reserved, since before the claim began.
NamesStayTaken == Pages!NamesStayTaken

\* LinkInBioPages: no page gets a style that needs a membership without one.
StyleIsPaid == Pages!StyleIsPaid
===============================================================================
