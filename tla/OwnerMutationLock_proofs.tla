----------------------- MODULE OwnerMutationLock_proofs -----------------------
(***************************************************************************)
(* For every set of owners, requests, transfers and deletions: the lock    *)
(* excludes, its counters are those of the handlers inside, and a mutation *)
(* that passed its check keeps its owner active.  The argument: a queue    *)
(* holds each waiting handler once, under the owner it last asked for, and *)
(* drain, which decides from the state of one owner alone, lets in either  *)
(* the mutations before the first deletion or one deletion into an owner   *)
(* that nobody holds.                                                      *)
(***************************************************************************)
EXTENDS OwnerMutationLock, FiniteSetTheorems, SequenceTheorems, TLAPS

-------------------------------------------------------------------------------
(***************************************************************************)
(* Whom drain lets in.                                                     *)
(***************************************************************************)
\* A downward closed set of positions is an interval: what is before one of them is one of them.
LEMMA ClosedIsInterval ==
  ASSUME NEW n \in Nat, NEW P \in SUBSET (1..n), \A i \in P : 1..i \subseteq P
  PROVE  Cardinality(P) \in 0..n /\ P = 1..Cardinality(P)
<1>1. IsFiniteSet(1..n) /\ Cardinality(1..n) = n
  BY FS_Interval
<1>2. IsFiniteSet(P) /\ Cardinality(P) \in Nat /\ Cardinality(P) <= n
  BY <1>1, FS_Subset, FS_CardinalityType
<1>3. ASSUME NEW i \in P PROVE i <= Cardinality(P)
  <2>1. i \in Nat /\ i >= 1
    OBVIOUS
  <2>2. Cardinality(1..i) = i
    BY <2>1, FS_Interval
  <2>3. Cardinality(1..i) <= Cardinality(P)
    BY <1>2, FS_Subset
  <2>. QED BY <2>2, <2>3
<1>4. P \subseteq 1..Cardinality(P)
  BY <1>2, <1>3
<1>5. IsFiniteSet(1..Cardinality(P)) /\ Cardinality(1..Cardinality(P)) = Cardinality(P)
  BY <1>2, FS_Interval
<1>6. P = 1..Cardinality(P)
  BY <1>4, <1>5, FS_Subset
<1>. QED BY <1>2, <1>6

LEMMA HandlersApart ==
  \A h \in Handlers : (h \in Mutators <=> h \notin Deletions)
  BY HandlersAssumption DEF Handlers, Mutators

LEMMA AdmissibleIs ==
  ASSUME NEW s \in OwnerState
  PROVE  /\ Admissible(s) \in 0..Len(s.waiters)
         /\ Admissible(s) > 0 => ~s.deletionActive
         /\ \/ \A i \in 1..Admissible(s) : s.waiters[i] \notin Deletions
            \/ Admissible(s) = 1 /\ s.waiters[1] \in Deletions /\ s.activeMutations = 0
<1> DEFINE q == s.waiters
           P == MutationPrefix(q)
<1>1. q \in Seq(Handlers) /\ Len(q) \in Nat /\ DOMAIN q = 1..Len(q) /\ s.activeMutations \in Nat
  BY LenProperties DEF OwnerState
<1>2. P \subseteq 1..Len(q) /\ (\A i \in P : 1..i \subseteq P)
  BY <1>1 DEF MutationPrefix
<1>3. Cardinality(P) \in 0..Len(q) /\ P = 1..Cardinality(P)
  BY <1>1, <1>2, ClosedIsInterval
<1>4. \A i \in P : q[i] \notin Deletions
  BY <1>1 DEF MutationPrefix
<1>5. q # <<>> => Len(q) > 0 /\ Head(q) = q[1]
  BY <1>1, EmptySeq
<1>. HIDE DEF P
<1>. QED BY <1>1, <1>3, <1>4, <1>5 DEF Admissible, P

Distinct(q) == \A i, j \in DOMAIN q : q[i] = q[j] => i = j

\* What drain does to the state of one owner.
LEMMA DrainedIs ==
  ASSUME NEW s \in OwnerState, Distinct(s.waiters)
  PROVE  /\ Granted(s) \subseteq Handlers /\ IsFiniteSet(Granted(s))
         /\ \A g \in Granted(s) : \E i \in DOMAIN s.waiters : s.waiters[i] = g
         /\ Granted(s) # {} => ~s.deletionActive
         /\ \/ Granted(s) \cap Deletions = {}
            \/ \E d \in Deletions : Granted(s) = {d} /\ s.activeMutations = 0
         /\ Drained(s) \in OwnerState
         /\ Drained(s).activeMutations = s.activeMutations + Cardinality(Granted(s) \cap Mutators)
         /\ Drained(s).deletionActive <=> s.deletionActive \/ Granted(s) \cap Deletions # {}
         /\ \A i \in DOMAIN Drained(s).waiters :
                /\ Drained(s).waiters[i] \notin Granted(s)
                /\ \E j \in DOMAIN s.waiters : Drained(s).waiters[i] = s.waiters[j]
         /\ Distinct(Drained(s).waiters)
<1> DEFINE q == s.waiters
           n == Admissible(s)
           w == SubSeq(q, n + 1, Len(q))
<1>1. /\ q \in Seq(Handlers) /\ Len(q) \in Nat /\ DOMAIN q = 1..Len(q)
      /\ \A i \in 1..Len(q) : q[i] \in Handlers
  BY LenProperties, ElementOfSeq DEF OwnerState
<1>2. n \in 0..Len(q)
  BY AdmissibleIs
<1>3. /\ w \in Seq(Handlers) /\ DOMAIN w = 1..(Len(q) - n)
      /\ \A i \in DOMAIN w : w[i] = q[n + i]
  <2>1. /\ w \in Seq(Handlers) /\ Len(w) = IF n + 1 <= Len(q) THEN Len(q) - (n + 1) + 1 ELSE 0
        /\ \A i \in 1..(Len(q) - (n + 1) + 1) : w[i] = q[n + 1 + i - 1]
    BY <1>1, <1>2, SubSeqProperties
  <2>2. DOMAIN w = 1..Len(w)
    BY <2>1, LenProperties
  <2>. QED BY <1>1, <1>2, <2>1, <2>2
<1>4. Granted(s) = {q[i] : i \in 1..n}
  BY DEF Granted
<1>5. Granted(s) \subseteq Handlers /\ IsFiniteSet(Granted(s))
  <2>1. Granted(s) \subseteq Handlers
    BY <1>1, <1>2, <1>4
  <2>. QED BY <2>1, HandlersAssumption, FS_Subset
<1>6. Cardinality(Granted(s) \cap Mutators) \in Nat
  BY <1>5, FS_Intersection, FS_CardinalityType
<1>13. s.activeMutations \in Nat /\ s.deletionActive \in BOOLEAN
  BY DEF OwnerState
<1>14. s.activeMutations + Cardinality(Granted(s) \cap Mutators) \in Nat
  BY <1>6, <1>13
<1>16. Drained(s) = [activeMutations |-> s.activeMutations + Cardinality(Granted(s) \cap Mutators),
                     deletionActive |-> s.deletionActive \/ Granted(s) \cap Deletions # {},
                     waiters |-> w]
  BY DEF Drained
<1>. HIDE DEF n, w, q
<1>7. /\ Drained(s) \in OwnerState /\ Drained(s).waiters = w
      /\ Drained(s).activeMutations = s.activeMutations + Cardinality(Granted(s) \cap Mutators)
      /\ Drained(s).deletionActive <=> s.deletionActive \/ Granted(s) \cap Deletions # {}
  <2> DEFINE m == s.activeMutations + Cardinality(Granted(s) \cap Mutators)
             b == s.deletionActive \/ Granted(s) \cap Deletions # {}
  <2>1. m \in Nat /\ b \in BOOLEAN /\ w \in Seq(Handlers)
    BY <1>3, <1>14
  <2>2. Drained(s) = [activeMutations |-> m, deletionActive |-> b, waiters |-> w]
    BY <1>16
  <2>3. Drained(s).deletionActive <=> b
    <3> HIDE DEF m, b
    <3>. QED BY ONLY <2>2
  <2>4. Drained(s) \in OwnerState /\ Drained(s).waiters = w /\ Drained(s).activeMutations = m
    <3> HIDE DEF m, b
    <3>. QED BY <2>1, <2>2 DEF OwnerState
  <2>. QED BY <2>3, <2>4
<1>17. \A i \in DOMAIN w : n + i \in DOMAIN q /\ n + i \notin 1..n
  BY <1>1, <1>2, <1>3
<1>18. \A i, j \in DOMAIN q : q[i] = q[j] => i = j
  BY DEF q, Distinct
<1>8. \A i \in DOMAIN w : w[i] \notin Granted(s)
  <2> SUFFICES ASSUME NEW i \in DOMAIN w, NEW j \in 1..n, w[i] = q[j] PROVE FALSE
    BY <1>4
  <2>1. j \in DOMAIN q /\ n + i \in DOMAIN q /\ q[n + i] = q[j]
    BY <1>1, <1>2, <1>3, <1>17
  <2>. QED BY <2>1, <1>17, <1>18
<1>9. ASSUME NEW i \in DOMAIN w, NEW j \in DOMAIN w, w[i] = w[j] PROVE i = j
  <2>1. n + i = n + j
    BY <1>3, <1>9, <1>17, <1>18
  <2>. QED BY <2>1, <1>2, <1>3
<1>10. Granted(s) # {} => ~s.deletionActive
  <2>1. Granted(s) # {} => n > 0
    BY <1>2, <1>4
  <2>. QED BY <2>1, AdmissibleIs DEF n
<1>11. \/ Granted(s) \cap Deletions = {}
       \/ \E d \in Deletions : Granted(s) = {d} /\ s.activeMutations = 0
  <2>1. CASE \A i \in 1..n : q[i] \notin Deletions
    BY <2>1, <1>4
  <2>2. CASE n = 1 /\ q[1] \in Deletions /\ s.activeMutations = 0
    BY <2>2, <1>4
  <2>. QED BY <2>1, <2>2, AdmissibleIs DEF n, q
<1>12. \A g \in Granted(s) : \E i \in DOMAIN q : q[i] = g
  BY <1>1, <1>2, <1>4
<1>. QED BY <1>3, <1>5, <1>7, <1>8, <1>9, <1>17, <1>10, <1>11, <1>12 DEF q, Distinct

LEMMA GrantedWaits ==
  ASSUME NEW s \in OwnerState, Distinct(s.waiters)
  PROVE  \A h \in Granted(s) : h \in Handlers /\ \E i \in DOMAIN s.waiters : s.waiters[i] = h
  BY DrainedIs

LEMMA CardinalityApart ==
  ASSUME NEW S, NEW T, IsFiniteSet(S), IsFiniteSet(T), S \cap T = {}
  PROVE  Cardinality(S \cup T) = Cardinality(S) + Cardinality(T)
<1>1. Cardinality(S \cup T) = Cardinality(S) + Cardinality(T) - Cardinality({})
  BY FS_Union
<1>2. Cardinality({}) = 0 /\ Cardinality(S) \in Nat /\ Cardinality(T) \in Nat
  BY FS_EmptySet, FS_CardinalityType
<1>. QED BY <1>1, <1>2

-------------------------------------------------------------------------------
(***************************************************************************)
(* The inductive invariant, of locks L, program counters P, owners last    *)
(* asked for A and owners held H: the lock is drained in the middle of a   *)
(* step, when none of the four has its final value.                        *)
(***************************************************************************)
Inside(o, H) == {h \in Mutators : o \in H[h]}

\* The counters are those of the handlers inside, and a deletion is inside alone.
CountInv(L, H, o) ==
    /\ L[o].activeMutations = Cardinality(Inside(o, H))
    /\ L[o].deletionActive <=> \E d \in Deletions : o \in H[d]
    /\ \A d \in Deletions, h \in Handlers : o \in H[d] /\ o \in H[h] => h = d

\* A queue holds handlers that wait, once each, and under the owner they last asked for.
QueueInv(L, P, A, H, o) ==
    /\ \A i \in DOMAIN L[o].waiters : LET h == L[o].waiters[i]
                                      IN  P[h] = "waiting" /\ A[h] = o /\ o \notin H[h]
    /\ Distinct(L[o].waiters)

LockInv(L, P, A, H) == \A o \in Owners : CountInv(L, H, o) /\ QueueInv(L, P, A, H, o)

\* What a handler holds and has still to ask for, at each of its steps.
HandlerInv(h) ==
    /\ at[h] \in OwnersOf[h] /\ todo[h] \subseteq OwnersOf[h] /\ held[h] \subseteq OwnersOf[h]
    /\ todo[h] \cap held[h] = {}
    /\ pc[h] \in {"idle", "ended"} => held[h] = {} /\ todo[h] = OwnersOf[h]
    /\ pc[h] \in {"waiting", "granted"} => at[h] \notin todo[h]
    /\ pc[h] = "waiting" => at[h] \notin held[h]
    /\ pc[h] = "granted" => at[h] \in held[h]
    /\ pc[h] = "running" /\ h \in Deletions => at[h] \in held[h]
    /\ pc[h] = "next" => h \in Transfers
    /\ pc[h] = "ended" => h \in Requests

HandlersInv == \A h \in Handlers : HandlerInv(h)

IInv == TypeOK /\ LockInv(lock, pc, at, held) /\ HandlersInv /\ CheckedStaysActive

LEMMA InitInv == Init => IInv
<1> SUFFICES ASSUME Init PROVE IInv
  OBVIOUS
<1> USE OwnersAssumption, HandlersAssumption DEF Init
<1>1. TypeOK
  <2>1. IdleState \in OwnerState
    BY EmptySeq DEF IdleState, OwnerState
  <2>. QED BY <2>1 DEF TypeOK
<1>2. LockInv(lock, pc, at, held)
  <2> SUFFICES ASSUME NEW o \in Owners PROVE CountInv(lock, held, o) /\ QueueInv(lock, pc, at, held, o)
    BY DEF LockInv
  <2>1. lock[o] = IdleState /\ \A h \in Handlers : held[h] = {}
    OBVIOUS
  <2>2. Inside(o, held) = {}
    BY <2>1 DEF Inside, Handlers, Mutators
  <2>3. DOMAIN IdleState.waiters = {}
    BY DEF IdleState
  <2>4. QueueInv(lock, pc, at, held, o)
    BY <2>1, <2>3 DEF QueueInv, Distinct
  <2>5. CountInv(lock, held, o)
    BY <2>1, <2>2, FS_EmptySet DEF CountInv, IdleState, Handlers
  <2>. QED BY <2>4, <2>5
<1>3. HandlersInv
  BY DEF HandlersInv, HandlerInv
<1>4. CheckedStaysActive
  BY DEF CheckedStaysActive, Holds, Handlers, Mutators
<1>. QED BY <1>1, <1>2, <1>3, <1>4 DEF IInv

\* Draining the locks of the owners in O keeps the invariant; it lets in handlers that waited,
\* each under the owner it last asked for.
LetIn(L, O, h) == {o \in O : h \in Granted(L[o])}

Drains(L, P, H, O, L2, P2, H2) ==
    /\ L2 = [o \in Owners |-> IF o \in O THEN Drained(L[o]) ELSE L[o]]
    /\ P2 = [h \in Handlers |-> IF LetIn(L, O, h) # {} THEN "granted" ELSE P[h]]
    /\ H2 = [h \in Handlers |-> H[h] \cup LetIn(L, O, h)]

\* What a handler sees of it: nothing, or that it is let in.
LetsIn(P, A, H, P2, H2) == \A h \in Handlers :
    \/ P2[h] = P[h] /\ H2[h] = H[h]
    \/ /\ P[h] = "waiting" /\ P2[h] = "granted"
       /\ A[h] \in Owners /\ A[h] \notin H[h] /\ H2[h] = H[h] \cup {A[h]}

LEMMA DrainKeeps ==
  ASSUME NEW L \in [Owners -> OwnerState], NEW P, NEW A, NEW H \in [Handlers -> SUBSET Owners],
         LockInv(L, P, A, H), NEW O \in SUBSET Owners,
         NEW L2, NEW P2, NEW H2, Drains(L, P, H, O, L2, P2, H2)
  PROVE  /\ L2 \in [Owners -> OwnerState] /\ H2 \in [Handlers -> SUBSET Owners]
         /\ LockInv(L2, P2, A, H2) /\ LetsIn(P, A, H, P2, H2)
<1> DEFINE G(o) == Granted(L[o])
<1> USE DEF Drains
<1>1. ASSUME NEW o \in Owners
      PROVE  /\ L[o] \in OwnerState
             /\ Distinct(L[o].waiters)
             /\ \A i \in DOMAIN L[o].waiters :
                    LET h == L[o].waiters[i] IN P[h] = "waiting" /\ A[h] = o /\ o \notin H[h]
  BY DEF LockInv, QueueInv
<1>2. ASSUME NEW o \in Owners, NEW h \in G(o)
      PROVE  h \in Handlers /\ P[h] = "waiting" /\ A[h] = o /\ o \notin H[h]
  <2>1. L[o] \in OwnerState /\ Distinct(L[o].waiters)
    BY <1>1
  <2>2. \A g \in Granted(L[o]) : g \in Handlers /\ \E i \in DOMAIN L[o].waiters : L[o].waiters[i] = g
    BY <2>1, GrantedWaits
  <2>3. h \in Handlers /\ \E i \in DOMAIN L[o].waiters : L[o].waiters[i] = h
    BY <2>2
  <2>. QED BY <2>3, <1>1
<1>3. ASSUME NEW h \in Handlers
      PROVE  \/ LetIn(L, O, h) = {}
             \/ LetIn(L, O, h) = {A[h]} /\ P[h] = "waiting" /\ A[h] \in O /\ A[h] \notin H[h]
  BY <1>2 DEF LetIn
<1>4. L2 \in [Owners -> OwnerState]
  BY <1>1, DrainedIs
<1>5. H2 \in [Handlers -> SUBSET Owners]
  BY DEF LetIn
<1>6. ASSUME NEW h \in Handlers
      PROVE  \/ P2[h] = P[h] /\ H2[h] = H[h]
             \/ /\ P[h] = "waiting" /\ P2[h] = "granted"
                /\ A[h] \in Owners /\ A[h] \notin H[h] /\ H2[h] = H[h] \cup {A[h]}
  BY <1>3
<1>7. ASSUME NEW o \in Owners PROVE QueueInv(L2, P2, A, H2, o)
  <2>1. ASSUME NEW h \in Handlers, P[h] = "waiting", A[h] = o, o \notin H[h],
               o \in O => h \notin G(o)
        PROVE  P2[h] = "waiting" /\ o \notin H2[h]
    BY <2>1, <1>3 DEF LetIn
  <2>2. \A i \in DOMAIN L[o].waiters : L[o].waiters[i] \in Handlers
    BY <1>1, ElementOfSeq, LenProperties DEF OwnerState
  <2>3. CASE o \in O
    <3>1. L2[o] = Drained(L[o])
      BY <2>3
    <3>2. \A i \in DOMAIN L2[o].waiters :
             /\ L2[o].waiters[i] \notin G(o)
             /\ \E j \in DOMAIN L[o].waiters : L2[o].waiters[i] = L[o].waiters[j]
      <4>1. L[o] \in OwnerState /\ Distinct(L[o].waiters)
        BY <1>1
      <4>2. \A i \in DOMAIN Drained(L[o]).waiters :
               /\ Drained(L[o]).waiters[i] \notin G(o)
               /\ \E j \in DOMAIN L[o].waiters : Drained(L[o]).waiters[i] = L[o].waiters[j]
        BY <4>1, DrainedIs
      <4>. QED BY <3>1, <4>2
    <3>3. Distinct(L2[o].waiters)
      BY <1>1, <3>1, DrainedIs
    <3>. HIDE DEF G
    <3>4. ASSUME NEW i \in DOMAIN L2[o].waiters
          PROVE  LET h == L2[o].waiters[i] IN P2[h] = "waiting" /\ A[h] = o /\ o \notin H2[h]
      <4>1. PICK j \in DOMAIN L[o].waiters : L2[o].waiters[i] = L[o].waiters[j]
        BY <3>2
      <4>. QED BY <3>2, <4>1, <1>1, <2>1, <2>2
    <3>. QED BY <3>3, <3>4 DEF QueueInv
  <2>4. CASE o \notin O
    <3>1. L2[o] = L[o]
      BY <2>4
    <3>. QED BY <3>1, <2>1, <2>2, <2>4, <1>1 DEF QueueInv
  <2>. QED BY <2>3, <2>4
<1>8. ASSUME NEW o \in Owners PROVE CountInv(L2, H2, o)
  <2>1. CASE o \notin O
    <3>1. L2[o] = L[o] /\ \A h \in Handlers : o \in H2[h] <=> o \in H[h]
      BY <2>1 DEF LetIn
    <3>2. Inside(o, H2) = Inside(o, H)
      BY <3>1 DEF Inside, Handlers, Mutators
    <3>. QED BY <3>1, <3>2 DEF LockInv, CountInv, Handlers
  <2>2. CASE o \in O
    <3>1. /\ \A h \in Handlers : o \in H2[h] <=> o \in H[h] \/ h \in G(o)
          /\ \A h \in Handlers : ~(o \in H[h] /\ h \in G(o))
          /\ G(o) \subseteq Handlers
      BY <2>2, <1>2 DEF LetIn
    <3>2. /\ L2[o] = Drained(L[o]) /\ CountInv(L, H, o)
      BY <2>2 DEF LockInv
    <3>3. /\ G(o) # {} => ~L[o].deletionActive
          /\ \/ G(o) \cap Deletions = {}
             \/ \E d \in Deletions : G(o) = {d} /\ L[o].activeMutations = 0
          /\ Drained(L[o]).activeMutations = L[o].activeMutations + Cardinality(G(o) \cap Mutators)
          /\ Drained(L[o]).deletionActive <=> L[o].deletionActive \/ G(o) \cap Deletions # {}
      BY <1>1, DrainedIs
    <3>. HIDE DEF G
    <3>4. Mutators \subseteq Handlers /\ Deletions \subseteq Handlers
      BY DEF Handlers, Mutators
    <3>5. Inside(o, H) \subseteq Handlers /\ IsFiniteSet(Inside(o, H)) /\ IsFiniteSet(G(o) \cap Mutators)
      <4>1. Inside(o, H) \subseteq Handlers
        BY <3>4 DEF Inside
      <4>. QED BY <4>1, <3>4, HandlersAssumption, FS_Subset
    <3>6. L2[o].activeMutations = Cardinality(Inside(o, H2))
      <4>1. Inside(o, H2) = Inside(o, H) \cup (G(o) \cap Mutators)
        BY <3>1, <3>4 DEF Inside
      <4>2. Inside(o, H) \cap (G(o) \cap Mutators) = {}
        BY <3>1, <3>4 DEF Inside
      <4>4. Cardinality(Inside(o, H) \cup (G(o) \cap Mutators)) =
                 Cardinality(Inside(o, H)) + Cardinality(G(o) \cap Mutators)
        BY <3>5, <4>2, CardinalityApart
      <4>. QED BY <4>1, <4>4, <3>2, <3>3 DEF CountInv
    <3>7. L2[o].deletionActive <=> \E d \in Deletions : o \in H2[d]
      BY <3>1, <3>2, <3>3, <3>4 DEF CountInv
    <3>8. L[o].activeMutations = 0 => Inside(o, H) = {}
      BY <3>2, <3>5, FS_EmptySet DEF CountInv
    <3>9. ASSUME NEW d \in Deletions, NEW h \in Handlers, o \in H2[d], o \in H2[h] PROVE h = d
      <4>1. CASE G(o) = {}
        BY <3>1, <3>2, <3>4, <3>9, <4>1 DEF CountInv
      <4>2. CASE G(o) # {} /\ G(o) \cap Deletions = {}
        BY <3>1, <3>2, <3>3, <3>4, <3>9, <4>2 DEF CountInv
      <4>3. ASSUME NEW e \in Deletions, G(o) = {e}, L[o].activeMutations = 0 PROVE h = d
        <5>1. \A g \in Handlers : o \notin H[g]
          BY <3>2, <3>3, <3>8, <4>3, HandlersApart DEF CountInv, Inside
        <5>. QED BY <5>1, <3>1, <3>4, <3>9, <4>3
      <4>. QED BY <3>3, <4>1, <4>2, <4>3
    <3>. QED BY <3>6, <3>7, <3>9 DEF CountInv
  <2>. QED BY <2>1, <2>2
<1>. QED BY <1>4, <1>5, <1>6, <1>7, <1>8 DEF LockInv, LetsIn

-------------------------------------------------------------------------------
(***************************************************************************)
(* The steps: one handler joins a queue or releases, and others are let in.*)
(***************************************************************************)
\* What any other handler sees of a step: nothing, or that it is let in.
Seen(d) ==
    \/ pc'[d] = pc[d] /\ held'[d] = held[d]
    \/ /\ pc[d] = "waiting" /\ pc'[d] = "granted"
       /\ at[d] \in Owners /\ at[d] \notin held[d] /\ held'[d] = held[d] \cup {at[d]}

\* The locks before drain, when h has given the owners in R back.
LEMMA GivenBack ==
  ASSUME IInv, NEW h \in Handlers, NEW step, NEW R \in SUBSET Owners, R \subseteq held[h],
         pc[h] # "waiting",
         NEW L, L = [o \in Owners |-> IF o \in R THEN Released(lock[o], h) ELSE lock[o]],
         NEW P, P = [pc EXCEPT ![h] = step],
         NEW H, H = [held EXCEPT ![h] = @ \ R]
  PROVE  L \in [Owners -> OwnerState] /\ H \in [Handlers -> SUBSET Owners] /\ LockInv(L, P, at, H)
<1> USE DEF IInv, TypeOK
<1>1. H \in [Handlers -> SUBSET Owners] /\ H[h] = held[h] \ R /\ \A d \in Handlers : d # h => H[d] = held[d]
  OBVIOUS
<1>2. ASSUME NEW o \in Owners PROVE QueueInv(lock, pc, at, held, o) /\ CountInv(lock, held, o)
  BY DEF LockInv
<1>3. ASSUME NEW o \in Owners
      PROVE  /\ IsFiniteSet(Inside(o, held)) /\ Cardinality(Inside(o, held)) \in Nat
             /\ Cardinality(Inside(o, held)) = 0 <=> Inside(o, held) = {}
  <2>1. Inside(o, held) \subseteq Handlers
    BY DEF Inside, Handlers, Mutators
  <2>. QED BY <2>1, HandlersAssumption, FS_Subset, FS_CardinalityType, FS_EmptySet
<1>4. ASSUME NEW o \in R
      PROVE  /\ L[o] \in OwnerState /\ L[o].waiters = lock[o].waiters
             /\ h \in Deletions => L[o].activeMutations = lock[o].activeMutations /\ ~L[o].deletionActive
             /\ h \in Mutators => /\ L[o].activeMutations = lock[o].activeMutations - 1
                                  /\ L[o].deletionActive = lock[o].deletionActive
  <2>1. lock[o] \in OwnerState /\ L[o] = Released(lock[o], h)
    OBVIOUS
  <2>2. CASE h \in Deletions
    BY <2>1, <2>2, HandlersApart DEF Released, OwnerState
  <2>3. CASE h \in Mutators
    <3>1. h \in Inside(o, held)
      BY <2>3 DEF Inside
    <3>2. lock[o].activeMutations \in Nat /\ lock[o].activeMutations > 0
      BY <1>2, <1>3, <3>1 DEF CountInv
    <3>3. lock[o].activeMutations - 1 \in Nat
      BY <3>2
    <3>. QED BY <2>1, <2>3, <3>3, HandlersApart DEF Released, OwnerState
  <2>. QED BY <2>2, <2>3, HandlersApart
<1>5. L \in [Owners -> OwnerState]
  BY <1>4
<1>6. ASSUME NEW o \in Owners PROVE QueueInv(L, P, at, H, o)
  <2>1. L[o].waiters = lock[o].waiters
    BY <1>4
  <2>2. \A i \in DOMAIN lock[o].waiters : lock[o].waiters[i] \in Handlers
    BY ElementOfSeq, LenProperties DEF OwnerState
  <2>3. \A d \in Handlers : pc[d] = "waiting" => P[d] = "waiting" /\ H[d] = held[d]
    BY <1>1
  <2>. QED BY <1>2, <2>1, <2>2, <2>3 DEF QueueInv
<1>7. ASSUME NEW o \in Owners PROVE CountInv(L, H, o)
  <2>1. CASE o \notin R
    <3>1. L[o] = lock[o] /\ \A d \in Handlers : o \in H[d] <=> o \in held[d]
      BY <1>1, <2>1
    <3>2. Inside(o, H) = Inside(o, held)
      BY <3>1 DEF Inside, Handlers, Mutators
    <3>. QED BY <1>2, <3>1, <3>2 DEF CountInv, Handlers
  <2>2. CASE o \in R
    <3>1. /\ o \in held[h] /\ o \notin H[h]
          /\ \A d \in Handlers : d # h => (o \in H[d] <=> o \in held[d])
      BY <1>1, <2>2
    <3>2. CASE h \in Deletions
      <4>1. \A d \in Handlers : o \notin H[d]
        BY <1>2, <3>1, <3>2 DEF CountInv
      <4>2. Inside(o, held) = {} /\ Inside(o, H) = {}
        BY <1>2, <3>1, <3>2, <4>1, HandlersApart DEF CountInv, Inside, Handlers, Mutators
      <4>3. L[o].activeMutations = Cardinality(Inside(o, H))
        <5>1. lock[o].activeMutations = Cardinality({})
          BY <1>2, <4>2 DEF CountInv
        <5>2. L[o].activeMutations = lock[o].activeMutations
          BY <1>4, <2>2, <3>2
        <5>. QED BY <4>2, <5>1, <5>2
      <4>4. ~L[o].deletionActive
        BY <1>4, <2>2, <3>2
      <4>. QED BY <4>1, <4>3, <4>4 DEF CountInv, Handlers
    <3>3. CASE h \in Mutators
      <4>1. Inside(o, H) = Inside(o, held) \ {h} /\ h \in Inside(o, held)
        BY <3>1, <3>3 DEF Inside, Handlers, Mutators
      <4>2. Cardinality(Inside(o, H)) = Cardinality(Inside(o, held)) - 1
        <5>1. IsFiniteSet(Inside(o, held))
          BY <1>3
        <5>2. Cardinality(Inside(o, held) \ {h}) = Cardinality(Inside(o, held)) - 1
          BY <5>1, <4>1, FS_RemoveElement
        <5>. QED BY <4>1, <5>2
      <4>3. \A d \in Deletions : o \in H[d] <=> o \in held[d]
        BY <3>1, <3>3, HandlersApart DEF Handlers
      <4>4. L[o].activeMutations = Cardinality(Inside(o, H))
        BY <1>2, <1>4, <2>2, <3>3, <4>2 DEF CountInv
      <4>5. L[o].deletionActive <=> \E d \in Deletions : o \in H[d]
        BY <1>2, <1>4, <2>2, <3>3, <4>3 DEF CountInv
      <4>6. \A d \in Deletions, e \in Handlers : o \in H[d] /\ o \in H[e] => e = d
        BY <1>2, <3>1, <4>3 DEF CountInv
      <4>. QED BY <4>4, <4>5, <4>6 DEF CountInv
    <3>. QED BY <3>2, <3>3, HandlersApart
  <2>. QED BY <2>1, <2>2
<1>. QED BY <1>1, <1>5, <1>6, <1>7 DEF LockInv

LEMMA ReleaseKeeps ==
  ASSUME IInv, NEW h \in Handlers, NEW step, NEW O \in SUBSET Owners, Release(h, O, step),
         pc[h] # "waiting", step # "waiting"
  PROVE  /\ lock' \in [Owners -> OwnerState] /\ held' \in [Handlers -> SUBSET Owners]
         /\ tracked' \subseteq Owners
         /\ LockInv(lock', pc', at, held')
         /\ pc' = [d \in Handlers |-> pc'[d]] /\ pc'[h] = step /\ held'[h] = held[h] \ O
         /\ \A d \in Handlers : d # h => Seen(d)
<1> DEFINE R == O \cap held[h]
           s == [o \in R |-> Released(lock[o], h)]
           L == [o \in Owners |-> IF o \in R THEN Released(lock[o], h) ELSE lock[o]]
           P == [pc EXCEPT ![h] = step]
           H == [held EXCEPT ![h] = @ \ R]
<1> USE DEF IInv, TypeOK
<1>1. L \in [Owners -> OwnerState] /\ H \in [Handlers -> SUBSET Owners] /\ LockInv(L, P, at, H)
  <2>1. R \in SUBSET Owners /\ R \subseteq held[h]
    OBVIOUS
  <2>. HIDE DEF R
  <2>. QED BY <2>1, GivenBack
<1>2. /\ DrainOwners(R, s, h, step)
      /\ held' = [d \in Handlers |->
            (IF d = h THEN held[d] \ R ELSE held[d]) \cup {o \in R : d \in Granted(s[o])}]
  BY DEF Release, Unreleased
<1>3. R \in SUBSET Owners /\ \A o \in R : s[o] = L[o]
  OBVIOUS
<1>4. \A o \in Owners \ R : L[o] = lock[o]
  OBVIOUS
<1>5. \A d \in Handlers : LetIn(L, R, d) = {o \in R : d \in Granted(s[o])}
  BY <1>3 DEF LetIn
<1>6. P[h] = step /\ H[h] = held[h] \ O /\ \A d \in Handlers : d # h => P[d] = pc[d] /\ H[d] = held[d]
  OBVIOUS
<1>7. \A d \in Handlers : H[d] = IF d = h THEN held[d] \ R ELSE held[d]
  OBVIOUS
<1>8. P \in [Handlers -> {step} \cup {pc[d] : d \in Handlers}]
  OBVIOUS
<1>. HIDE DEF L, P, H, s, R
<1>9. lock' = [o \in Owners |-> IF o \in R THEN Drained(L[o]) ELSE L[o]]
  BY <1>2, <1>3, <1>4 DEF DrainOwners
<1>10. pc' = [d \in Handlers |-> IF LetIn(L, R, d) # {} THEN "granted" ELSE P[d]]
  BY <1>2, <1>5, <1>6 DEF DrainOwners
<1>11. held' = [d \in Handlers |-> H[d] \cup LetIn(L, R, d)]
  BY <1>2, <1>5, <1>7
<1>12. tracked' \subseteq Owners
  BY <1>2, <1>3 DEF DrainOwners
<1>14. Drains(L, P, H, R, lock', pc', held')
  BY <1>9, <1>10, <1>11 DEF Drains
<1>13. /\ lock' \in [Owners -> OwnerState] /\ held' \in [Handlers -> SUBSET Owners]
       /\ LockInv(lock', pc', at, held') /\ LetsIn(P, at, H, pc', held')
  BY ONLY <1>1, <1>3, <1>14, DrainKeeps
<1>. QED BY <1>6, <1>10, <1>12, <1>13 DEF Seen, LetsIn

LEMMA AskKeeps ==
  ASSUME IInv, NEW h \in Handlers, NEW o \in Owners, o \in todo[h], pc[h] \in {"idle", "next"},
         DrainOwners({o}, [p \in {o} |-> Queued(lock[p], h)], h, "waiting"),
         held' = [d \in Handlers |-> IF d \in Granted(Queued(lock[o], h)) THEN held[d] \cup {o} ELSE held[d]],
         at' = [at EXCEPT ![h] = o]
  PROVE  /\ lock' \in [Owners -> OwnerState] /\ held' \in [Handlers -> SUBSET Owners]
         /\ tracked' \subseteq Owners
         /\ LockInv(lock', pc', at', held')
         /\ pc' = [d \in Handlers |-> pc'[d]]
         /\ \/ pc'[h] = "waiting" /\ held'[h] = held[h]
            \/ pc'[h] = "granted" /\ held'[h] = held[h] \cup {o}
         /\ \A d \in Handlers : d # h => Seen(d)
<1> DEFINE L == [p \in Owners |-> IF p = o THEN Queued(lock[p], h) ELSE lock[p]]
           P == [pc EXCEPT ![h] = "waiting"]
<1> USE DEF IInv, TypeOK
<1>1. ASSUME NEW p \in Owners
      PROVE  /\ QueueInv(lock, pc, at, held, p) /\ CountInv(lock, held, p)
             /\ lock[p] \in OwnerState /\ lock[p].waiters \in Seq(Handlers)
             /\ \A i \in DOMAIN lock[p].waiters : lock[p].waiters[i] \in Handlers
  <2>1. lock[p] \in OwnerState /\ lock[p].waiters \in Seq(Handlers)
    BY DEF OwnerState
  <2>. QED BY <2>1, ElementOfSeq, LenProperties DEF LockInv
<1>2. /\ Queued(lock[o], h) \in OwnerState
      /\ Queued(lock[o], h).activeMutations = lock[o].activeMutations
      /\ Queued(lock[o], h).deletionActive = lock[o].deletionActive
      /\ Queued(lock[o], h).waiters = Append(lock[o].waiters, h)
  <2>1. Append(lock[o].waiters, h) \in Seq(Handlers)
    BY <1>1, AppendProperties
  <2>. QED BY <1>1, <2>1 DEF Queued, OwnerState
<1>3. L \in [Owners -> OwnerState] /\ L[o] = Queued(lock[o], h) /\ \A p \in Owners \ {o} : L[p] = lock[p]
  BY <1>1, <1>2
<1>4. /\ P[h] = "waiting" /\ at'[h] = o /\ o \notin held[h]
      /\ \A d \in Handlers : d # h => P[d] = pc[d] /\ at'[d] = at[d]
  BY DEF HandlersInv, HandlerInv
<1>. HIDE DEF L, P
<1>5. ASSUME NEW p \in Owners PROVE CountInv(L, held, p)
  <2>1. L[p].activeMutations = lock[p].activeMutations /\ L[p].deletionActive = lock[p].deletionActive
    BY <1>2, <1>3
  <2>. QED BY <1>1, <2>1 DEF CountInv
<1>6. ASSUME NEW p \in Owners PROVE QueueInv(L, P, at', held, p)
  <2>1. \A i \in DOMAIN lock[p].waiters : LET d == lock[p].waiters[i] IN
             /\ d \in Handlers /\ d # h
             /\ P[d] = "waiting" /\ at'[d] = p /\ p \notin held[d]
    BY <1>1, <1>4 DEF QueueInv
  <2>2. CASE p # o
    BY <1>1, <1>3, <2>1, <2>2 DEF QueueInv
  <2>3. CASE p = o
    <3> DEFINE w == lock[o].waiters
    <3>1. /\ w \in Seq(Handlers) /\ Len(w) \in Nat /\ DOMAIN w = 1..Len(w)
          /\ DOMAIN Append(w, h) = 1..(Len(w) + 1)
          /\ \A i \in 1..Len(w) : Append(w, h)[i] = w[i]
          /\ Append(w, h)[Len(w) + 1] = h
      <4>1. w \in Seq(Handlers)
        BY <1>1
      <4>2. Append(w, h) \in Seq(Handlers) /\ Len(Append(w, h)) = Len(w) + 1
        BY <4>1, AppendProperties
      <4>. QED BY <4>1, <4>2, AppendProperties, LenProperties
    <3>2. L[o].waiters = Append(w, h)
      BY <1>2, <1>3
    <3>3. Distinct(w)
      BY <1>1 DEF QueueInv
    <3>4. \A i \in 1..Len(w) : /\ w[i] # h /\ P[w[i]] = "waiting" /\ at'[w[i]] = o
                               /\ o \notin held[w[i]]
      BY <2>1, <2>3, <3>1
    <3>. HIDE DEF w
    <3>5. ASSUME NEW i \in 1..(Len(w) + 1) PROVE i \in 1..Len(w) \/ i = Len(w) + 1
      BY <3>1
    <3>6. Distinct(Append(w, h))
      BY <3>1, <3>3, <3>4, <3>5 DEF Distinct
    <3>7. \A i \in DOMAIN Append(w, h) : LET d == Append(w, h)[i] IN
             P[d] = "waiting" /\ at'[d] = o /\ o \notin held[d]
      BY <1>4, <3>1, <3>4, <3>5
    <3>. QED BY <2>3, <3>2, <3>6, <3>7 DEF QueueInv
  <2>. QED BY <2>2, <2>3
<1>7. LockInv(L, P, at', held)
  BY <1>5, <1>6 DEF LockInv
<1>8. \A d \in Handlers : LetIn(L, {o}, d) = IF d \in Granted(Queued(lock[o], h)) THEN {o} ELSE {}
  BY <1>3 DEF LetIn
<1>9. Drains(L, P, held, {o}, lock', pc', held')
  <2>1. lock' = [p \in Owners |-> IF p \in {o} THEN Drained(L[p]) ELSE L[p]]
    BY <1>3 DEF DrainOwners
  <2>2. pc' = [d \in Handlers |-> IF LetIn(L, {o}, d) # {} THEN "granted" ELSE P[d]]
    BY <1>4, <1>8 DEF DrainOwners
  <2>3. held' = [d \in Handlers |-> held[d] \cup LetIn(L, {o}, d)]
    BY <1>8
  <2>. QED BY <2>1, <2>2, <2>3 DEF Drains
<1>10. /\ lock' \in [Owners -> OwnerState] /\ held' \in [Handlers -> SUBSET Owners]
       /\ LockInv(lock', pc', at', held') /\ LetsIn(P, at', held, pc', held')
  <2>1. {o} \in SUBSET Owners /\ held \in [Handlers -> SUBSET Owners]
    OBVIOUS
  <2>. QED BY ONLY <1>3, <1>7, <1>9, <2>1, DrainKeeps
<1>11. tracked' \subseteq Owners /\ pc' = [d \in Handlers |-> pc'[d]]
  BY DEF DrainOwners
<1>12. \A d \in Handlers : d # h => Seen(d)
  BY <1>4, <1>10 DEF Seen, LetsIn
<1>13. \/ pc'[h] = "waiting" /\ held'[h] = held[h]
       \/ pc'[h] = "granted" /\ held'[h] = held[h] \cup {o}
  BY <1>4, <1>10 DEF LetsIn
<1>. QED BY <1>10, <1>11, <1>12, <1>13

-------------------------------------------------------------------------------
(***************************************************************************)
(* Invariance.                                                             *)
(***************************************************************************)
\* The invariant of the others, in a step of h.
LEMMA OthersKeep ==
  ASSUME IInv, NEW h \in Handlers,
         \A d \in Handlers : d # h => Seen(d) /\ at'[d] = at[d] /\ todo'[d] = todo[d]
  PROVE  /\ HandlerInv(h)' => HandlersInv'
         /\ \A d \in Handlers : d # h => pc'[d] = pc[d] \/ pc'[d] = "granted"
         /\ \A d \in Mutators, o \in Owners :
               d # h /\ o \in held'[d] /\ ~(pc'[d] = "granted" /\ at'[d] = o)
                  => o \in held[d] /\ inactive[o] = "no"
<1> USE DEF IInv
<1>1. ASSUME NEW d \in Handlers, d # h PROVE HandlerInv(d)'
  BY <1>1 DEF HandlersInv, HandlerInv, Seen
<1>2. ASSUME NEW d \in Mutators, NEW o \in Owners, d # h, o \in held'[d],
             ~(pc'[d] = "granted" /\ at'[d] = o)
      PROVE  o \in held[d] /\ inactive[o] = "no"
  <2>1. d \in Handlers
    BY DEF Handlers, Mutators
  <2>. QED BY <1>2, <2>1 DEF Seen, CheckedStaysActive, Holds
<1>. QED BY <1>1, <1>2 DEF HandlersInv, Seen

\* Who holds the exclusive side holds it alone.
LEMMA DeletionAlone ==
  ASSUME IInv, NEW h \in Deletions, NEW o \in Owners, o \in held[h], NEW d \in Mutators
  PROVE  o \notin held[d] /\ d # h
<1>1. CountInv(lock, held, o) /\ h \in Handlers /\ d \in Handlers
  BY DEF IInv, LockInv, Handlers, Mutators
<1>. QED BY <1>1, HandlersApart DEF CountInv

Steps == {"idle", "waiting", "granted", "next", "running", "ended"}

LEMMA AskPreserves == ASSUME IInv, NEW h \in Handlers, Ask(h) PROVE IInv'
<1>1. pc[h] \in {"idle", "next"} /\ inactive' = inactive
  BY DEF Ask
<1>2. PICK o \in todo[h] :
         /\ DrainOwners({o}, [p \in {o} |-> Queued(lock[p], h)], h, "waiting")
         /\ held' = [d \in Handlers |-> IF d \in Granted(Queued(lock[o], h)) THEN held[d] \cup {o} ELSE held[d]]
         /\ at' = [at EXCEPT ![h] = o] /\ todo' = [todo EXCEPT ![h] = @ \ {o}]
  BY DEF Ask
<1>3. o \in Owners /\ TypeOK /\ HandlerInv(h)
  BY DEF IInv, TypeOK, HandlersInv
<1>4. /\ lock' \in [Owners -> OwnerState] /\ held' \in [Handlers -> SUBSET Owners]
      /\ tracked' \subseteq Owners
      /\ LockInv(lock', pc', at', held')
      /\ pc' = [d \in Handlers |-> pc'[d]]
      /\ \/ pc'[h] = "waiting" /\ held'[h] = held[h]
         \/ pc'[h] = "granted" /\ held'[h] = held[h] \cup {o}
      /\ \A d \in Handlers : d # h => Seen(d)
  BY <1>1, <1>2, <1>3, AskKeeps
<1>5. /\ at'[h] = o /\ todo'[h] = todo[h] \ {o}
      /\ at' \in [Handlers -> Owners] /\ todo' \in [Handlers -> SUBSET Owners]
      /\ \A d \in Handlers : d # h => at'[d] = at[d] /\ todo'[d] = todo[d]
  BY <1>2, <1>3 DEF TypeOK
<1>6. HandlerInv(h)'
  BY <1>1, <1>3, <1>4, <1>5 DEF HandlerInv
<1>7. /\ HandlersInv'
      /\ \A d \in Handlers : d # h => pc'[d] = pc[d] \/ pc'[d] = "granted"
      /\ \A d \in Mutators, p \in Owners :
            d # h /\ p \in held'[d] /\ ~(pc'[d] = "granted" /\ at'[d] = p) => inactive[p] = "no"
  BY <1>4, <1>5, <1>6, OthersKeep
<1>8. TypeOK'
  <2>1. \A d \in Handlers : pc'[d] \in Steps
    BY <1>3, <1>4, <1>7 DEF TypeOK, Steps
  <2>. QED BY <1>1, <1>3, <1>4, <1>5, <2>1 DEF TypeOK, Steps
<1>9. CheckedStaysActive'
  <2>1. ASSUME NEW p \in Owners, h \in Mutators, p \in held'[h], ~(pc'[h] = "granted" /\ at'[h] = p)
        PROVE  inactive[p] = "no"
    <3>1. p \in held[h] /\ pc[h] # "granted"
      BY <1>1, <1>4, <1>5, <2>1
    <3>. QED BY <2>1, <3>1 DEF IInv, CheckedStaysActive, Holds
  <2>. QED BY <1>1, <1>7, <2>1 DEF CheckedStaysActive, Holds
<1>. QED BY <1>4, <1>6, <1>7, <1>8, <1>9 DEF IInv

\* The steps that leave the locks alone.
LEMMA QuietPreserves ==
  ASSUME IInv, NEW h \in Handlers, Admitted(h) \/ Resolve(h) \/ Seal(h) PROVE IInv'
<1> USE DEF IInv, TypeOK
<1>1. /\ UNCHANGED <<lock, tracked, at, held>> /\ pc[h] # "waiting"
      /\ pc' = [pc EXCEPT ![h] = pc'[h]] /\ pc'[h] \in {"idle", "running", "next"}
      /\ \A d \in Handlers : d # h => pc'[d] = pc[d] /\ todo'[d] = todo[d]
      /\ todo' \in [Handlers -> SUBSET Owners]
      /\ pc[h] \in {"granted", "next"}
  BY HandlersAssumption DEF Admitted, Resolve, Seal
<1>2. LockInv(lock', pc', at', held')
  <2>1. ASSUME NEW o \in Owners PROVE QueueInv(lock, pc', at, held, o)
    <3>1. \A i \in DOMAIN lock[o].waiters : lock[o].waiters[i] \in Handlers
      BY ElementOfSeq, LenProperties DEF OwnerState
    <3>. QED BY <1>1, <3>1 DEF LockInv, QueueInv
  <2>. QED BY <1>1, <2>1 DEF LockInv
<1>3. HandlersInv' /\ TypeOK'
  <2>1. HandlerInv(h)'
    <3>1. HandlerInv(h)
      BY DEF HandlersInv
    <3>2. CASE Admitted(h)
      BY <1>1, <3>1, <3>2, HandlersApart DEF Admitted, HandlerInv, Mutators
    <3>3. CASE Resolve(h)
      BY <1>1, <3>1, <3>3, HandlersApart DEF Resolve, HandlerInv, Mutators
    <3>4. CASE Seal(h)
      BY <1>1, <3>1, <3>4 DEF Seal, HandlerInv
    <3>. QED BY <3>2, <3>3, <3>4
  <2>2. \A d \in Handlers : d # h => HandlerInv(d)'
    BY <1>1 DEF HandlersInv, HandlerInv
  <2>3. inactive' \in [Owners -> {"no", "DELETING", "DELETED"}]
    BY DEF Admitted, Resolve, Seal, MarkDeleting
  <2>. QED BY <1>1, <2>1, <2>2, <2>3 DEF HandlersInv
<1>4. CheckedStaysActive'
  <2>1. ASSUME NEW d \in Mutators, NEW o \in Owners, o \in held[d],
               ~(pc'[d] = "granted" /\ at[d] = o)
        PROVE  inactive'[o] = "no"
    <3>1. d \in Handlers
      BY DEF Handlers, Mutators
    <3>2. CASE Admitted(h)
      BY <1>1, <2>1, <3>1, <3>2 DEF Admitted, IsActive, CheckedStaysActive, Holds
    <3>3. CASE Resolve(h)
      BY <1>1, <2>1, <3>1, <3>3 DEF Resolve, CheckedStaysActive, Holds
    <3>4. CASE Seal(h)
      <4>1. at[h] \in held[h] /\ at[h] \in Owners /\ h \in Deletions
        BY <3>4 DEF Seal, HandlersInv, HandlerInv
      <4>2. o # at[h] /\ d # h
        BY <2>1, <4>1, DeletionAlone
      <4>. QED BY <1>1, <2>1, <3>1, <3>4, <4>2 DEF Seal, CheckedStaysActive, Holds
    <3>. QED BY <3>2, <3>3, <3>4
  <2>. QED BY <1>1, <2>1 DEF CheckedStaysActive, Holds
<1>. QED BY <1>2, <1>3, <1>4

LEMMA ReleasePreserves ==
  ASSUME IInv, NEW h \in Handlers, Refused(h) \/ End(h) \/ FinishEvent(h) \/ EndDeletion(h)
  PROVE  IInv'
<1>1. TypeOK /\ HandlerInv(h) /\ at[h] \in Owners /\ at' = at
  BY DEF IInv, TypeOK, HandlersInv, Refused, End, FinishEvent, EndDeletion
<1>2. /\ OwnersOf[h] \in SUBSET Owners /\ {at[h]} \in SUBSET Owners
      /\ h \notin Transfers => OwnersOf[h] = {at[h]}
  BY <1>1, HandlersAssumption DEF HandlerInv, Handlers, Mutators
<1>3. PICK O \in SUBSET Owners, step \in Steps \ {"waiting", "granted", "running"} :
         /\ Release(h, O, step) /\ pc[h] # "waiting"
         /\ \/ O = {at[h]} /\ Refused(h) /\ step = Turned(h)
            \/ O = {at[h]} /\ (FinishEvent(h) \/ EndDeletion(h)) /\ step = "idle"
            \/ O = OwnersOf[h] /\ End(h) /\ step = IF h \in Requests THEN "ended" ELSE "idle"
  <2>1. Turned(h) \in {"next", "idle"} /\ (IF h \in Requests THEN "ended" ELSE "idle") \in {"ended", "idle"}
    BY DEF Turned
  <2>2. CASE Refused(h)
    <3>1. Release(h, {at[h]}, Turned(h)) /\ pc[h] = "granted"
      BY <2>2 DEF Refused
    <3>. QED BY <1>2, <2>1, <2>2, <3>1 DEF Steps
  <2>3. CASE End(h)
    BY <1>2, <2>1, <2>3 DEF End, Steps
  <2>4. CASE FinishEvent(h)
    BY <1>2, <2>4 DEF FinishEvent, Steps
  <2>5. CASE EndDeletion(h)
    BY <1>2, <2>5 DEF EndDeletion, Steps
  <2>. QED BY <2>2, <2>3, <2>4, <2>5
<1>4. /\ lock' \in [Owners -> OwnerState] /\ held' \in [Handlers -> SUBSET Owners]
      /\ tracked' \subseteq Owners
      /\ LockInv(lock', pc', at, held')
      /\ pc' = [d \in Handlers |-> pc'[d]] /\ pc'[h] = step /\ held'[h] = held[h] \ O
      /\ \A d \in Handlers : d # h => Seen(d)
  BY <1>3, ReleaseKeeps DEF Steps
<1>5. /\ todo' \in [Handlers -> SUBSET Owners]
      /\ \A d \in Handlers : d # h => todo'[d] = todo[d]
      /\ todo'[h] = IF Refused(h) /\ h \in Transfers THEN todo[h] ELSE OwnersOf[h]
  BY <1>1, <1>2, <1>3 DEF Refused, End, FinishEvent, EndDeletion, TypeOK, HandlerInv, Mutators, Turned
<1>6. HandlerInv(h)'
  BY <1>1, <1>2, <1>3, <1>4, <1>5, HandlersApart
     DEF HandlerInv, Refused, End, FinishEvent, EndDeletion, Turned, Handlers, Mutators, Steps
<1>7. /\ HandlersInv'
      /\ \A d \in Handlers : d # h => pc'[d] = pc[d] \/ pc'[d] = "granted"
      /\ \A d \in Mutators, o \in Owners :
            d # h /\ o \in held'[d] /\ ~(pc'[d] = "granted" /\ at'[d] = o)
               => o \in held[d] /\ inactive[o] = "no"
  BY <1>1, <1>4, <1>5, <1>6, OthersKeep
<1>8. /\ inactive' \in [Owners -> {"no", "DELETING", "DELETED"}]
      /\ \A o \in Owners : inactive'[o] = inactive[o] \/ (EndDeletion(h) /\ o = at[h])
  BY <1>1, <1>3 DEF Refused, End, FinishEvent, EndDeletion, TypeOK
<1>9. TypeOK'
  <2>1. \A d \in Handlers : pc'[d] \in Steps
    BY <1>1, <1>3, <1>4, <1>7 DEF TypeOK, Steps
  <2>. QED BY <1>1, <1>4, <1>5, <1>8, <2>1 DEF TypeOK, Steps
<1>10. CheckedStaysActive'
  <2>1. ASSUME NEW d \in Mutators, NEW o \in Owners, o \in held'[d],
               ~(pc'[d] = "granted" /\ at[d] = o)
        PROVE  inactive'[o] = "no"
    <3>1. o \in held[d] /\ inactive[o] = "no"
      <4>1. CASE d = h
        <5>1. o \in held[h] /\ o \notin O
          BY <1>4, <2>1, <4>1
        <5>2. pc[h] = "granted" => Refused(h)
          BY <1>3 DEF End, FinishEvent, EndDeletion
        <5>3. ~(pc[h] = "granted" /\ at[h] = o)
          BY <1>3, <5>1, <5>2 DEF End
        <5>. QED BY <4>1, <5>1, <5>3 DEF IInv, CheckedStaysActive, Holds
      <4>. QED BY <4>1, <1>1, <1>7, <2>1
    <3>2. ~(EndDeletion(h) /\ o = at[h])
      <4> SUFFICES ASSUME EndDeletion(h), o = at[h] PROVE FALSE
        OBVIOUS
      <4>1. h \in Deletions /\ at[h] \in held[h]
        BY <1>1 DEF EndDeletion, HandlerInv
      <4>. QED BY <3>1, <4>1, DeletionAlone
    <3>. QED BY <1>8, <3>1, <3>2
  <2>. QED BY <1>1, <2>1 DEF CheckedStaysActive, Holds
<1>. QED BY <1>1, <1>4, <1>7, <1>9, <1>10 DEF IInv

LEMMA NextPreserves == IInv /\ [Next]_vars => IInv'
<1>1. IInv /\ UNCHANGED vars => IInv'
  <2> SUFFICES ASSUME IInv, UNCHANGED vars PROVE IInv'
    OBVIOUS
  <2> USE DEF vars
  <2>1. TypeOK' /\ HandlersInv' /\ CheckedStaysActive'
    BY DEF IInv, TypeOK, HandlersInv, HandlerInv, CheckedStaysActive, Holds
  <2>. QED BY <2>1 DEF IInv
<1>. QED BY <1>1, AskPreserves, QuietPreserves, ReleasePreserves DEF Next, Continue

\* The inductive invariant: the counters are those of the handlers inside, a queue holds each
\* waiting handler once, and what was asked for, is held and remains to be asked for never overlap.
THEOREM Invariance == Spec => []IInv
  BY InitInv, NextPreserves, PTL DEF Spec

\* The type invariant: the count of mutations inside an owner never goes below zero.
THEOREM TypeCorrect == Spec => []TypeOK
<1>1. IInv => TypeOK
  BY DEF IInv
<1>. QED BY <1>1, Invariance, PTL

\* While account deletion holds an owner, no other handler holds it, and what the lock counts is
\* exactly what is inside: no release is lost or counted twice.
THEOREM LockIsExclusive == Spec => [](Exclusion /\ CountsMatch)
<1>1. IInv => Exclusion /\ CountsMatch
  BY DEF IInv, LockInv, CountInv, Inside, Exclusion, CountsMatch, Holds
<1>. QED BY <1>1, Invariance, PTL

\* An owner is marked for deletion neither under a request that passed its check nor under a
\* transfer that holds it and still waits for others.
THEOREM CheckedIsKept == Spec => []CheckedStaysActive
<1>1. IInv => CheckedStaysActive
  BY DEF IInv
<1>. QED BY <1>1, Invariance, PTL
===============================================================================
