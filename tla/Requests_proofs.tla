---------------------------- MODULE Requests_proofs ----------------------------
(***************************************************************************)
(* The safety of what requests may cost and bring about: POST /posts       *)
(* (PostSubmission) and the AI features (AiFeatures: AiUsage,              *)
(* CaptionWriting, AiEditRequest and AiEditRecipe), each from an inductive *)
(* invariant.  The sums over finite sets of posts or requests that the     *)
(* first two need are in the first part.                                   *)
(***************************************************************************)
EXTENDS PostSubmission, AiFeatures, Sequences, FiniteSetTheorems, WellFoundedInduction, TLAPS

-------------------------------------------------------------------------------
(***************************************************************************)
(* Induction over the finite subsets of a set, and sums over them.         *)
(***************************************************************************)
LEMMA LeastNat ==
  ASSUME NEW T \in SUBSET Nat, T # {} PROVE \E x \in T : \A y \in T : x <= y
<1> DEFINE R == {s \in Nat \X Nat : s[1] < s[2]}
<1>1. IsWellFoundedOn(R, Nat)
  BY NatLessThanWellFounded DEF OpToRel
<1>2. \A x, y \in Nat : y < x => <<y, x>> \in R
  OBVIOUS
<1>. HIDE DEF R
<1>3. \E x \in T : \A y \in T : ~ (<<y, x>> \in R)
  BY <1>1, WFMin
<1>4. PICK x \in T : \A y \in T : ~ (<<y, x>> \in R)
  BY <1>3
<1>5. \A y \in T : x <= y
  <2> SUFFICES ASSUME NEW y \in T PROVE x <= y
    OBVIOUS
  <2>1. x \in Nat /\ y \in Nat /\ ~ (y < x)
    BY <1>4, <1>2
  <2>. QED BY <2>1
<1>. QED BY <1>5

LEMMA NatSet ==
  ASSUME NEW T \in SUBSET Nat, 0 \in T, \A n \in T : n + 1 \in T PROVE T = Nat
<1>1. SUFFICES ASSUME Nat \ T # {} PROVE FALSE
  OBVIOUS
<1>2. PICK x \in Nat \ T : \A y \in Nat \ T : x <= y
  BY <1>1, LeastNat
<1>3. x - 1 \in Nat /\ x - 1 \notin T
  BY <1>2
<1>. QED BY <1>2, <1>3

LEMMA SubsetInduction ==
  ASSUME NEW S, IsFiniteSet(S), NEW G,
         \A T \in SUBSET S : (\A x \in T : T \ {x} \in G) => T \in G
  PROVE  SUBSET S \subseteq G
<1>1. SUFFICES ASSUME NEW B \in SUBSET S, B \notin G PROVE FALSE
  OBVIOUS
<1>. DEFINE Bad == {n \in Nat : \E T \in SUBSET S : T \notin G /\ Cardinality(T) = n}
<1>2. \A T \in SUBSET S : IsFiniteSet(T) /\ Cardinality(T) \in Nat
  BY FS_Subset, FS_CardinalityType
<1>3. Cardinality(B) \in Bad
  BY <1>1, <1>2
<1>4. PICK n \in Bad : \A m \in Bad : n <= m
  <2>1. Bad \in SUBSET Nat /\ Bad # {}
    BY <1>3
  <2>. HIDE DEF Bad
  <2>. QED BY <2>1, LeastNat
<1>5. PICK T \in SUBSET S : T \notin G /\ Cardinality(T) = n
  BY <1>4
<1>6. PICK x \in T : T \ {x} \notin G
  BY <1>5
<1>7. Cardinality(T \ {x}) = n - 1 /\ Cardinality(T \ {x}) \in Nat
  BY <1>2, <1>5, <1>6, FS_RemoveElement
<1>8. Cardinality(T \ {x}) \in Bad
  BY <1>6, <1>7
<1>9. n \in Nat
  BY <1>4
<1>. HIDE DEF Bad
<1>10. n <= Cardinality(T \ {x})
  BY <1>4, <1>8
<1>. QED BY <1>7, <1>9, <1>10

Step(f, g, T) == IF T = {} THEN 0 ELSE LET x == CHOOSE x \in T : TRUE IN f[x] + g[T \ {x}]
Adds(f, g, S) == \A T \in SUBSET S : g[T] = Step(f, g, T)

\* g gives the sum over every part of S.
Sums(f, g, S) ==
    g \in [SUBSET S -> Int] /\ Adds(f, g, S) /\ \A T \in SUBSET S : SumFunctionOnSet(f, T) = g[T]

LEMMA SumExists ==
  ASSUME NEW S, IsFiniteSet(S), NEW f \in [S -> Int]
  PROVE  \E g \in [SUBSET S -> Int] : Adds(f, g, S)
<1>. DEFINE Few(n) == {T \in SUBSET S : Cardinality(T) <= n}
            Good(n) == \E g \in [Few(n) -> Int] : \A T \in Few(n) : g[T] = Step(f, g, T)
            G == {n \in Nat : Good(n)}
<1>1. \A T \in SUBSET S : IsFiniteSet(T) /\ Cardinality(T) \in Nat /\ (Cardinality(T) = 0 <=> T = {})
  BY FS_Subset, FS_CardinalityType, FS_EmptySet
<1>2. Few(0) = {{}}
  BY <1>1
<1>3. 0 \in G
  <2>. DEFINE g == [T \in Few(0) |-> 0]
  <2>1. \A T \in Few(0) : g[T] = Step(f, g, T)
    BY <1>2 DEF Step
  <2>2. g \in [Few(0) -> Int]
    OBVIOUS
  <2>. HIDE DEF g
  <2>3. Good(0)
    BY <2>1, <2>2
  <2>. QED BY <2>3
<1>4. ASSUME NEW n \in G PROVE n + 1 \in G
  <2>1. PICK g \in [Few(n) -> Int] : \A T \in Few(n) : g[T] = Step(f, g, T)
    OBVIOUS
  <2>. DEFINE h == [T \in Few(n + 1) |-> Step(f, g, T)]
  <2>2. ASSUME NEW T \in Few(n + 1), T # {} PROVE T \ {CHOOSE x \in T : TRUE} \in Few(n)
    <3>1. (CHOOSE x \in T : TRUE) \in T
      BY <2>2
    <3>2. Cardinality(T \ {CHOOSE x \in T : TRUE}) = Cardinality(T) - 1
      BY <1>1, <3>1, FS_RemoveElement
    <3>. QED BY <1>1, <3>2
  <2>3. ASSUME NEW T \in Few(n + 1) PROVE Step(f, g, T) \in Int
    <3>1. CASE T = {}
      BY <3>1 DEF Step
    <3>2. CASE T # {}
      <4>1. (CHOOSE x \in T : TRUE) \in S
        BY <3>2
      <4>2. f[CHOOSE x \in T : TRUE] \in Int /\ g[T \ {CHOOSE x \in T : TRUE}] \in Int
        BY <2>1, <2>2, <3>2, <4>1
      <4>. QED BY <3>2, <4>2 DEF Step
    <3>. QED BY <3>1, <3>2
  <2>4. h \in [Few(n + 1) -> Int]
    BY <2>3
  <2>5. \A T \in Few(n) : T \in Few(n + 1) /\ h[T] = g[T]
    <3>1. \A T \in Few(n) : T \in Few(n + 1)
      BY <1>1
    <3>. QED BY <3>1, <2>1
  <2>6. \A T \in Few(n + 1) : h[T] = Step(f, h, T)
    <3> SUFFICES ASSUME NEW T \in Few(n + 1) PROVE h[T] = Step(f, h, T)
      OBVIOUS
    <3>1. h[T] = Step(f, g, T)
      OBVIOUS
    <3>. HIDE DEF h
    <3>2. CASE T = {}
      BY <3>1, <3>2 DEF Step
    <3>3. CASE T # {}
      BY <3>1, <3>3, <2>2, <2>5 DEF Step
    <3>. QED BY <3>2, <3>3
  <2>. HIDE DEF h
  <2>7. Good(n + 1)
    BY <2>4, <2>6
  <2>8. n + 1 \in Nat
    BY <1>4
  <2>. QED BY <2>7, <2>8
<1>5. G = Nat
  <2>. HIDE DEF G
  <2>0. G \in SUBSET Nat
    BY DEF G
  <2>. QED BY <1>3, <1>4, <2>0, NatSet
<1>6. Good(Cardinality(S))
  BY <1>1, <1>5
<1>7. Few(Cardinality(S)) = SUBSET S
  BY FS_Subset
<1>. QED BY <1>6, <1>7 DEF Adds

LEMMA SumUnique ==
  ASSUME NEW S, IsFiniteSet(S), NEW f, NEW g, NEW h, Adds(f, g, S), Adds(f, h, S)
  PROVE  g[S] = h[S]
<1>. DEFINE G == {T \in SUBSET S : g[T] = h[T]}
<1>1. ASSUME NEW T \in SUBSET S, \A x \in T : T \ {x} \in G PROVE T \in G
  <2>1. Step(f, g, T) = Step(f, h, T)
    <3>1. CASE T = {}
      BY <3>1 DEF Step
    <3>2. CASE T # {}
      <4>1. (CHOOSE x \in T : TRUE) \in T
        BY <3>2
      <4>. QED BY <3>2, <4>1, <1>1 DEF Step
    <3>. QED BY <3>1, <3>2
  <2>. QED BY <2>1 DEF Adds
<1>. HIDE DEF G
<1>2. SUBSET S \subseteq G
  BY <1>1, SubsetInduction
<1>. QED BY <1>2 DEF G

LEMMA SumIs ==
  ASSUME NEW S, IsFiniteSet(S), NEW f \in [S -> Int], NEW g \in [SUBSET S -> Int], Adds(f, g, S),
         NEW T \in SUBSET S
  PROVE  SumFunctionOnSet(f, T) = g[T]
<1>. DEFINE iter == CHOOSE h : h = [U \in SUBSET T |-> Step(f, h, U)]
<1>1. SumFunctionOnSet(f, T) = iter[T]
  BY DEF SumFunctionOnSet, FoldFunctionOnSet, MapThenFoldSet, Step
<1>2. \E h : h = [U \in SUBSET T |-> Step(f, h, U)]
  <2>. DEFINE h == [U \in SUBSET T |-> g[U]]
  <2>1. h = [U \in SUBSET T |-> Step(f, h, U)]
    <3>. SUFFICES ASSUME NEW U \in SUBSET T PROVE g[U] = Step(f, h, U)
      OBVIOUS
    <3>1. g[U] = Step(f, g, U)
      BY DEF Adds
    <3>. QED BY <3>1 DEF Step
  <2>. QED BY <2>1
<1>3. iter = [U \in SUBSET T |-> Step(f, iter, U)]
  BY <1>2
<1>. HIDE DEF iter
<1>4. Adds(f, iter, T)
  BY <1>3 DEF Adds
<1>5. Adds(f, g, T)
  BY DEF Adds
<1>6. IsFiniteSet(T)
  BY FS_Subset
<1>. QED BY <1>1, <1>4, <1>5, <1>6, SumUnique

\* The sum over a finite set, its parts included, as one function of them.
LEMMA SumWitness ==
  ASSUME NEW S, IsFiniteSet(S), NEW f \in [S -> Int]
  PROVE  \E g : Sums(f, g, S)
<1>1. PICK g \in [SUBSET S -> Int] : Adds(f, g, S)
  BY SumExists
<1>2. \A T \in SUBSET S : SumFunctionOnSet(f, T) = g[T]
  BY <1>1, SumIs
<1>. QED BY <1>1, <1>2 DEF Sums

LEMMA SumType ==
  ASSUME NEW S, IsFiniteSet(S), NEW f \in [S -> Int], NEW V \in SUBSET S
  PROVE  SumFunctionOnSet(f, V) \in Int
<1>1. PICK g : Sums(f, g, S)
  BY SumWitness
<1>. QED BY <1>1 DEF Sums

LEMMA SumEmpty ==
  ASSUME NEW S, IsFiniteSet(S), NEW f \in [S -> Int]
  PROVE  SumFunctionOnSet(f, {}) = 0
<1>1. PICK g : Sums(f, g, S)
  BY SumWitness
<1>2. {} \in SUBSET S
  OBVIOUS
<1>. QED BY <1>1, <1>2 DEF Sums, Adds, Step

LEMMA SumRemove ==
  ASSUME NEW S, IsFiniteSet(S), NEW f \in [S -> Int], NEW V \in SUBSET S, NEW e \in V
  PROVE  SumFunctionOnSet(f, V) = f[e] + SumFunctionOnSet(f, V \ {e})
<1>1. PICK g : Sums(f, g, S)
  BY SumWitness
<1>. DEFINE G == {U \in SUBSET S : \A y \in U : g[U] = f[y] + g[U \ {y}]}
<1>2. ASSUME NEW U \in SUBSET S, \A y \in U : U \ {y} \in G PROVE U \in G
  <2> SUFFICES ASSUME NEW y \in U PROVE g[U] = f[y] + g[U \ {y}]
    OBVIOUS
  <2>. DEFINE c == CHOOSE z \in U : TRUE
  <2>1. c \in U
    OBVIOUS
  <2>2. g[U] = f[c] + g[U \ {c}]
    BY <1>1 DEF Sums, Adds, Step
  <2>. HIDE DEF c
  <2>3. CASE y = c
    BY <2>2, <2>3
  <2>4. CASE y # c
    <3>1. y \in U \ {c} /\ c \in U \ {y}
      BY <2>1, <2>4
    <3>. DEFINE W == (U \ {y}) \ {c}
    <3>2. g[U \ {c}] = f[y] + g[(U \ {c}) \ {y}]
      BY <1>2, <2>1, <3>1
    <3>3. g[U \ {y}] = f[c] + g[W]
      BY <1>2, <3>1
    <3>4. (U \ {c}) \ {y} = W
      OBVIOUS
    <3>5. f[c] \in Int /\ f[y] \in Int /\ g[W] \in Int
      BY <1>1, <2>1 DEF Sums
    <3>. HIDE DEF G, W
    <3>6. g[U \ {c}] = f[y] + g[W]
      BY <3>2, <3>4, Zenon
    <3>7. g[U] = f[c] + (f[y] + g[W])
      BY <2>2, <3>6, Zenon
    <3>8. f[y] + (f[c] + g[W]) = f[c] + (f[y] + g[W])
      BY <3>5
    <3>9. g[U] = f[y] + (f[c] + g[W])
      BY <3>7, <3>8, Zenon
    <3>. QED BY <3>3, <3>9, Zenon
  <2>. QED BY <2>3, <2>4
<1>. HIDE DEF G
<1>3. SUBSET S \subseteq G
  BY <1>2, SubsetInduction
<1>4. g[V] = f[e] + g[V \ {e}]
  BY <1>3 DEF G
<1>5. V \ {e} \in SUBSET S
  OBVIOUS
<1>. QED BY <1>1, <1>4, <1>5 DEF Sums

LEMMA SumAgree ==
  ASSUME NEW S, IsFiniteSet(S), NEW f \in [S -> Int], NEW h \in [S -> Int],
         NEW V \in SUBSET S, \A x \in V : f[x] = h[x]
  PROVE  SumFunctionOnSet(f, V) = SumFunctionOnSet(h, V)
<1>. DEFINE G == {U \in SUBSET V : SumFunctionOnSet(f, U) = SumFunctionOnSet(h, U)}
<1>1. ASSUME NEW U \in SUBSET V, \A x \in U : U \ {x} \in G PROVE U \in G
  <2>1. CASE U = {}
    BY <2>1, SumEmpty
  <2>2. CASE U # {}
    <3>1. PICK x \in U : TRUE
      BY <2>2
    <3>2. SumFunctionOnSet(f, U) = f[x] + SumFunctionOnSet(f, U \ {x})
      BY SumRemove
    <3>3. SumFunctionOnSet(h, U) = h[x] + SumFunctionOnSet(h, U \ {x})
      BY SumRemove
    <3>. QED BY <1>1, <3>2, <3>3
  <2>. QED BY <2>1, <2>2
<1>. HIDE DEF G
<1>2. IsFiniteSet(V)
  BY FS_Subset
<1>3. SUBSET V \subseteq G
  BY <1>1, <1>2, SubsetInduction
<1>. QED BY <1>3 DEF G

LEMMA SumMonotone ==
  ASSUME NEW S, IsFiniteSet(S), NEW f \in [S -> Int], NEW h \in [S -> Int],
         NEW V \in SUBSET S, \A x \in V : f[x] <= h[x]
  PROVE  SumFunctionOnSet(f, V) <= SumFunctionOnSet(h, V)
<1>. DEFINE G == {U \in SUBSET V : SumFunctionOnSet(f, U) <= SumFunctionOnSet(h, U)}
<1>1. ASSUME NEW U \in SUBSET V, \A x \in U : U \ {x} \in G PROVE U \in G
  <2>1. CASE U = {}
    BY <2>1, SumEmpty
  <2>2. CASE U # {}
    <3>1. PICK x \in U : TRUE
      BY <2>2
    <3>2. SumFunctionOnSet(f, U) = f[x] + SumFunctionOnSet(f, U \ {x})
      BY SumRemove
    <3>3. SumFunctionOnSet(h, U) = h[x] + SumFunctionOnSet(h, U \ {x})
      BY SumRemove
    <3>4. f[x] \in Int /\ h[x] \in Int /\ f[x] <= h[x]
      OBVIOUS
    <3>5. SumFunctionOnSet(f, U \ {x}) \in Int /\ SumFunctionOnSet(h, U \ {x}) \in Int
      BY SumType
    <3>6. SumFunctionOnSet(f, U \ {x}) <= SumFunctionOnSet(h, U \ {x})
      BY <1>1
    <3>. QED BY <3>2, <3>3, <3>4, <3>5, <3>6
  <2>. QED BY <2>1, <2>2
<1>. HIDE DEF G
<1>2. IsFiniteSet(V)
  BY FS_Subset
<1>3. SUBSET V \subseteq G
  BY <1>1, <1>2, SubsetInduction
<1>. QED BY <1>3 DEF G

LEMMA SumChange ==
  ASSUME NEW S, IsFiniteSet(S), NEW f \in [S -> Int], NEW h \in [S -> Int], NEW x \in S,
         \A y \in S \ {x} : f[y] = h[y]
  PROVE  SumFunctionOnSet(h, S) = SumFunctionOnSet(f, S) + h[x] - f[x]
<1>1. SumFunctionOnSet(f, S) = f[x] + SumFunctionOnSet(f, S \ {x})
  BY SumRemove
<1>2. SumFunctionOnSet(h, S) = h[x] + SumFunctionOnSet(h, S \ {x})
  BY SumRemove
<1>3. SumFunctionOnSet(f, S \ {x}) = SumFunctionOnSet(h, S \ {x})
  BY SumAgree
<1>4. f[x] \in Int /\ h[x] \in Int
  OBVIOUS
<1>5. SumFunctionOnSet(f, S \ {x}) \in Int
  BY SumType
<1>. QED BY <1>1, <1>2, <1>3, <1>4, <1>5

-------------------------------------------------------------------------------
(***************************************************************************)
(* PostSubmission: what does not depend on sums of units, from one         *)
(* inductive invariant.                                                    *)
(***************************************************************************)
\* The shape of the state, without the values that come from sums.
IsRow(row) ==
    /\ row = [status |-> row.status, intent |-> row.intent, units |-> row.units,
              addon |-> row.addon, createdIn |-> row.createdIn, checkedFor |-> row.checkedFor]
    /\ row.status \in Status
ShapeInv ==
    /\ post = [p \in PostIds |-> post[p]] /\ \A p \in PostIds : IsRow(post[p])
    /\ pc \in [Requests -> Steps] /\ answer \in [Requests -> Answers]
    /\ attempt \in [PostIds -> {"none", "claimed", "started"}]
    /\ handed \in [PostIds -> Nat] /\ cancelled \subseteq PostIds

\* The provider was asked once, and only by an attempt that was not put back: none that is
\* about to ask follows it, and no post that was asked for is NONE or QUEUED again.
HandedInv == \A p \in PostIds :
    /\ handed[p] <= 1
    /\ post[p].status \in {"NONE", "QUEUED"} \/ attempt[p] = "claimed" => handed[p] = 0
    /\ attempt[p] = "claimed" => post[p].status = "PUBLISHING"

\* A request without a key owns its post: nobody else creates it.
BeforeCreate == {"idle", "replay", "checks", "locking", "locked", "rechecked", "planned",
                 "stamped"}
OwnInv == \A r \in Requests :
    /\ ~Keyed(r) /\ pc[r] \in BeforeCreate => post[r].status = "NONE"
    /\ pc[r] = "rollback" => ~Keyed(r)

\* The post that a request is about to report as accepted, or has reported, is there.
ThereInv == \A r \in Requests :
    /\ answer[r] # "none" => pc[r] = "answered"
    /\ pc[r] \in {"enqueue", "ensure"} \/ answer[r] = "ok"
         => RowOf(r).status # "NONE" \/ PostOf(r) \in cancelled

IInv == ShapeInv /\ HandedInv /\ OwnInv /\ ThereInv

-------------------------------------------------------------------------------
(***************************************************************************)
(* What the steps have in common.                                          *)
(***************************************************************************)
LEMMA WithStatus == ASSUME NEW row, IsRow(row), NEW s \in Status
    PROVE  /\ IsRow([row EXCEPT !.status = s])
           /\ [row EXCEPT !.status = s].status = s
  BY DEF IsRow

LEMMA WithIntent == ASSUME NEW row, IsRow(row), NEW i
    PROVE  /\ IsRow([row EXCEPT !.intent = i])
           /\ [row EXCEPT !.intent = i].status = row.status
  BY DEF IsRow

LEMMA NewIsRow == ASSUME NEW r PROVE IsRow(NewRow(r)) /\ NewRow(r).status = "QUEUED"
  BY DEF IsRow, NewRow, Status

LEMMA NoRowIsRow == IsRow(NoRow) /\ NoRow.status = "NONE"
  BY DEF IsRow, NoRow, Status

\* One row is written.
Writes(p, row) == IsRow(row) /\ post' = [post EXCEPT ![p] = row]

LEMMA Written == ASSUME ShapeInv, NEW p \in PostIds, NEW row, Writes(p, row)
    PROVE  /\ post' = [q \in PostIds |-> post'[q]] /\ \A q \in PostIds : IsRow(post'[q])
           /\ post'[p] = row /\ \A q \in PostIds : q # p => post'[q] = post[q]
<1>1. post' = [q \in PostIds |-> IF q = p THEN row ELSE post[q]]
  BY DEF ShapeInv, Writes
<1> QED BY <1>1 DEF ShapeInv, Writes

\* The posts of requests.
LEMMA PostOfType ==
    /\ \A r \in Requests : PostOf(r) \in PostIds
    /\ \A r, q \in Requests : ~Keyed(r) /\ PostOf(q) = r => q = r
    /\ \A r \in Requests : ~Keyed(r) => PostOf(r) = r
  BY SubmissionAssumption DEF PostOf, Keyed, PostIds

\* A request reads the store before it creates anything.
Reads(r) ==
    /\ pc[r] \in BeforeCreate /\ UNCHANGED <<post, attempt, history>>
    /\ \/ \E s \in BeforeCreate \cup {"ensure"} :
            /\ pc' = [pc EXCEPT ![r] = s] /\ UNCHANGED answer
            /\ s = "ensure" => RowOf(r).status # "NONE"
       \/ \E a \in Answers :
            /\ pc' = [pc EXCEPT ![r] = "answered"] /\ answer' = [answer EXCEPT ![r] = a]
            /\ a = "ok" => RowOf(r).status # "NONE"

LEMMA ReadsKeeps == ASSUME IInv, NEW r \in Requests, Reads(r) PROVE IInv'
<1>1. ShapeInv'
  BY DEF IInv, ShapeInv, Reads, history, BeforeCreate, Steps, Creating, IsRow
<1>2. HandedInv'
  BY DEF IInv, HandedInv, Reads, history
<1>3. OwnInv'
  BY DEF IInv, ShapeInv, OwnInv, Reads, BeforeCreate, Keyed
<1>4. ThereInv'
  BY DEF IInv, ShapeInv, ThereInv, Reads, history, BeforeCreate, RowOf, PostOf, Keyed
<1> QED BY <1>1, <1>2, <1>3, <1>4 DEF IInv

\* A request inserts its post.
Inserts(r) ==
    /\ pc[r] = "stamped" /\ ~Found(r) /\ Insert(r) /\ UNCHANGED <<attempt, history>>
    /\ \/ pc' = [pc EXCEPT ![r] = "enqueue"] /\ UNCHANGED answer
       \/ pc' = [pc EXCEPT ![r] = "answered"] /\ answer' = [answer EXCEPT ![r] = "error"]

LEMMA InsertsNew == ASSUME IInv, NEW r \in Requests, Inserts(r)
    PROVE  RowOf(r).status = "NONE" /\ Writes(PostOf(r), NewRow(r))
  BY PostOfType, NewIsRow DEF IInv, OwnInv, Inserts, Insert, Found, Writes, RowOf, BeforeCreate

LEMMA InsertsKeeps == ASSUME IInv, NEW r \in Requests, Inserts(r) PROVE IInv'
<1> USE InsertsNew, PostOfType, NewIsRow
<1>0. /\ post' = [q \in PostIds |-> post'[q]] /\ \A q \in PostIds : IsRow(post'[q])
      /\ post'[PostOf(r)].status = "QUEUED"
      /\ \A q \in PostIds : q # PostOf(r) => post'[q] = post[q]
  BY Written DEF IInv
<1>1. ShapeInv'
  BY <1>0 DEF IInv, ShapeInv, Inserts, history, Steps, Creating, Answers, IsRow
<1>2. HandedInv'
  BY <1>0 DEF IInv, HandedInv, Inserts, history, RowOf
<1>3. OwnInv'
  <2>1. ASSUME NEW q \in Requests, ~Keyed(q), pc'[q] \in BeforeCreate
        PROVE  post'[q].status = "NONE"
    <3>1. q # r /\ pc[q] \in BeforeCreate
      BY <2>1 DEF IInv, ShapeInv, Inserts, BeforeCreate
    <3>2. q \in PostIds /\ q # PostOf(r)
      BY <2>1, <3>1
    <3> QED BY <1>0, <2>1, <3>1, <3>2 DEF IInv, OwnInv
  <2>2. ASSUME NEW q \in Requests, pc'[q] = "rollback" PROVE ~Keyed(q)
    BY <2>2 DEF IInv, ShapeInv, OwnInv, Inserts
  <2> QED BY <2>1, <2>2 DEF OwnInv, Keyed
<1>4. ThereInv'
  BY <1>0 DEF IInv, ShapeInv, ThereInv, Inserts, history, RowOf, PostOf, Keyed
<1> QED BY <1>1, <1>2, <1>3, <1>4 DEF IInv

\* The publisher or the owner changes a post that is there, or the owner cancels it.
Changes(p, row) ==
    /\ post[p].status # "NONE" /\ UNCHANGED <<pc, answer, handed>>
    /\ Writes(p, row)
    /\ \/ row.status # "NONE" /\ cancelled' = cancelled
       \/ row.status = "NONE" /\ cancelled' = cancelled \cup {p}
    /\ row.status \in {"NONE", "QUEUED"} => post[p].status = "QUEUED" \/ attempt[p] = "claimed"
    /\ \/ attempt' = [attempt EXCEPT ![p] = "none"]
       \/ attempt' = attempt /\ post[p].status = "QUEUED"
       \/ /\ attempt' = [attempt EXCEPT ![p] = "claimed"]
          /\ post[p].status = "QUEUED" /\ row.status = "PUBLISHING"

LEMMA ChangesKeeps == ASSUME IInv, NEW p \in PostIds, NEW row, Changes(p, row) PROVE IInv'
<1> USE PostOfType
<1>0. /\ post' = [q \in PostIds |-> post'[q]] /\ \A q \in PostIds : IsRow(post'[q])
      /\ post'[p] = row /\ \A q \in PostIds : q # p => post'[q] = post[q]
  BY Written DEF IInv, Changes
<1>1. ShapeInv'
  BY <1>0 DEF IInv, ShapeInv, Changes
<1>2. HandedInv'
  BY <1>0 DEF IInv, ShapeInv, HandedInv, Changes
<1>3. OwnInv'
  BY <1>0 DEF IInv, OwnInv, Changes, Keyed, PostIds
<1>4. ThereInv'
  BY <1>0 DEF IInv, ThereInv, Changes, RowOf, PostOf, Keyed
<1> QED BY <1>1, <1>2, <1>3, <1>4 DEF IInv

-------------------------------------------------------------------------------
(***************************************************************************)
(* The actions.                                                            *)
(***************************************************************************)
LEMMA RepliesRead == ASSUME NEW r \in Requests, Found(r), AnswerReplay(r)
    PROVE  \/ pc' = [pc EXCEPT ![r] = "ensure"] /\ UNCHANGED answer /\ RowOf(r).status # "NONE"
           \/ \E a \in Answers :
                /\ pc' = [pc EXCEPT ![r] = "answered"] /\ answer' = [answer EXCEPT ![r] = a]
                /\ a = "ok" => RowOf(r).status # "NONE"
  BY DEF AnswerReplay, Found, Goes, GoesWith, Answer, Answers

LEMMA ReadersKeep ==
    ASSUME IInv, NEW r \in Requests,
           \/ Lookup(r) \/ Replay(r) \/ Refuse(r) \/ ReadPlan(r) \/ AcquireCreation(r)
           \/ RecheckDirect(r) \/ RecheckPlan(r) \/ Stamp(r)
    PROVE  IInv'
<1>1. CASE Lookup(r)
  <2>1. Reads(r)
    BY <1>1 DEF Lookup, Reads, Goes, GoesWith, Answer, Answers, BeforeCreate, Found
  <2> QED BY <2>1, ReadsKeeps
<1>2. CASE Replay(r)
  <2>1. Reads(r)
    BY <1>2, RepliesRead DEF Replay, Reads, Goes, GoesWith, BeforeCreate
  <2> QED BY <2>1, ReadsKeeps
<1>3. CASE Refuse(r) \/ ReadPlan(r) \/ AcquireCreation(r) \/ RecheckPlan(r) \/ Stamp(r)
  <2>1. Reads(r)
    BY <1>3 DEF Refuse, ReadPlan, AcquireCreation, RecheckPlan, Stamp, Reads, Goes, GoesWith,
                Answer, Answers, BeforeCreate
  <2> QED BY <2>1, ReadsKeeps
<1>4. CASE RecheckDirect(r)
  <2>1. Reads(r)
    BY <1>4, RepliesRead DEF RecheckDirect, Reads, Goes, GoesWith, BeforeCreate
  <2> QED BY <2>1, ReadsKeeps
<1> QED BY <1>1, <1>2, <1>3, <1>4

LEMMA CreatorsKeep ==
    ASSUME IInv, NEW r \in Requests, Create(r) \/ CreateFails(r)
    PROVE  IInv'
<1>1. Reads(r) \/ Inserts(r)
  <2>1. CASE Create(r)
    BY <2>1, RepliesRead
       DEF Create, Reads, Inserts, Goes, GoesWith, Answer, Answers, BeforeCreate
  <2>2. CASE CreateFails(r)
    BY <2>2 DEF CreateFails, Reads, Inserts, Answer, Answers, BeforeCreate
  <2> QED BY <2>1, <2>2
<1> QED BY <1>1, ReadsKeeps, InsertsKeeps

LEMMA EnqueueKeeps ==
    ASSUME IInv, NEW r \in Requests, Enqueue(r) \/ EnqueueFails(r)
    PROVE  IInv'
<1>0. /\ pc[r] \in {"enqueue", "ensure"} /\ UNCHANGED <<post, attempt, handed, cancelled>>
      /\ \/ /\ pc' = [pc EXCEPT ![r] = "rollback"] /\ UNCHANGED answer /\ ~Keyed(r)
         \/ \E a \in Answers : /\ pc' = [pc EXCEPT ![r] = "answered"]
                              /\ answer' = [answer EXCEPT ![r] = a]
  BY DEF Enqueue, EnqueueFails, RollsBack, Goes, GoesWith, Answer, Answers, history
<1>1. ShapeInv'
  BY <1>0 DEF IInv, ShapeInv, Steps, Creating, IsRow
<1>2. HandedInv'
  BY <1>0 DEF IInv, HandedInv
<1>3. OwnInv'
  BY <1>0 DEF IInv, ShapeInv, OwnInv, BeforeCreate, Keyed
<1>4. ThereInv'
  BY <1>0 DEF IInv, ShapeInv, ThereInv, RowOf, PostOf, Keyed
<1> QED BY <1>1, <1>2, <1>3, <1>4 DEF IInv

LEMMA RollbackKeeps == ASSUME IInv, NEW r \in Requests, Rollback(r) PROVE IInv'
<1> USE PostOfType, NoRowIsRow
<1>0. /\ post' = [q \in PostIds |-> post'[q]] /\ \A q \in PostIds : IsRow(post'[q])
      /\ \A q \in PostIds : q # r => post'[q] = post[q]
      /\ post'[r] = post[r] \/ (post[r].status = "QUEUED" /\ post'[r].status = "NONE")
      /\ ~Keyed(r) /\ r \in PostIds
  <2>1. ~Keyed(r) /\ PostOf(r) = r /\ r \in PostIds
    BY DEF IInv, OwnInv, Rollback
  <2>2. post' = post \/ (post[r].status = "QUEUED" /\ Writes(r, NoRow))
    BY <2>1 DEF Rollback, Removed, Removable, Writes
  <2> QED BY <2>1, <2>2, Written DEF IInv, ShapeInv
<1>1. ShapeInv'
  BY <1>0 DEF IInv, ShapeInv, Rollback, Answer, history, Steps, Answers, IsRow
<1>2. HandedInv'
  BY <1>0 DEF IInv, HandedInv, Rollback, history
<1>3. OwnInv'
  BY <1>0 DEF IInv, ShapeInv, OwnInv, Rollback, Answer, BeforeCreate, Keyed, PostIds
<1>4. ThereInv'
  BY <1>0 DEF IInv, ShapeInv, ThereInv, Rollback, Answer, history, RowOf, Keyed
<1> QED BY <1>1, <1>2, <1>3, <1>4 DEF IInv

LEMMA ExitKeeps == ASSUME IInv, Exit PROVE IInv'
<1>1. ShapeInv'
  BY DEF IInv, ShapeInv, Exit, history, Steps, IsRow
<1>2. HandedInv'
  BY DEF IInv, HandedInv, Exit, history
<1>3. OwnInv'
  BY DEF IInv, OwnInv, Exit, BeforeCreate, Keyed
<1>4. ThereInv'
  BY DEF IInv, ThereInv, Exit, history, RowOf, PostOf, Keyed
<1> QED BY <1>1, <1>2, <1>3, <1>4 DEF IInv

LEMMA PostsKeep ==
    ASSUME IInv, NEW p \in PostIds,
           Claim(p) \/ PutBack(p) \/ Settle(p) \/ Cancel(p) \/ Edit(p)
    PROVE  IInv'
<1>1. IsRow(post[p])
  BY DEF IInv, ShapeInv
<1>2. \E row : Changes(p, row)
  <2>1. CASE Claim(p)
    <3>1. Changes(p, [post[p] EXCEPT !.status = "PUBLISHING"])
      BY <1>1, <2>1, WithStatus
         DEF Claim, SetStatus, SetAttempt, Changes, Writes, request, history, Status
    <3> QED BY <3>1
  <2>2. CASE Settle(p)
    <3>1. PICK s \in {"PUBLISHED", "FAILED"} : SetStatus(p, s)
      BY <2>2 DEF Settle
    <3>2. Changes(p, [post[p] EXCEPT !.status = s])
      BY <1>1, <2>2, <3>1, WithStatus
         DEF Settle, SetStatus, SetAttempt, Changes, Writes, request, history, Status
    <3> QED BY <3>2
  <2>5. CASE PutBack(p)
    <3>1. post[p].status = "PUBLISHING"
      BY <2>5 DEF PutBack, IInv, HandedInv
    <3>2. Changes(p, [post[p] EXCEPT !.status = "QUEUED"])
      BY <1>1, <2>5, <3>1, WithStatus
         DEF PutBack, SetStatus, SetAttempt, Changes, Writes, request, history, Status
    <3> QED BY <3>2
  <2>3. CASE Cancel(p)
    <3>1. Changes(p, NoRow)
      BY <2>3, NoRowIsRow DEF Cancel, Removed, Removable, Changes, Writes, request
    <3> QED BY <3>1
  <2>4. CASE Edit(p)
    <3>1. Changes(p, [post[p] EXCEPT !.intent = Edited])
      BY <1>1, <2>4, WithIntent DEF Edit, Changes, Writes, request, history
    <3> QED BY <3>1
  <2> QED BY <2>1, <2>2, <2>3, <2>4, <2>5
<1> QED BY <1>2, ChangesKeeps

LEMMA StartKeeps == ASSUME IInv, NEW p \in PostIds, Start(p) PROVE IInv'
<1>1. ShapeInv'
  BY DEF IInv, ShapeInv, Start, SetAttempt, request, IsRow
<1>2. HandedInv'
  BY DEF IInv, ShapeInv, HandedInv, Start, SetAttempt
<1>3. OwnInv' /\ ThereInv'
  BY DEF IInv, OwnInv, ThereInv, Start, request, RowOf, PostOf, Keyed
<1> QED BY <1>1, <1>2, <1>3 DEF IInv

LEMMA OthersKeep ==
    ASSUME IInv, UNCHANGED <<post, request, attempt, history>>
    PROVE  IInv'
  BY DEF IInv, ShapeInv, HandedInv, OwnInv, ThereInv, request, history, RowOf, PostOf, Keyed, IsRow

-------------------------------------------------------------------------------
(***************************************************************************)
(* The invariant, and what follows from it.                                *)
(***************************************************************************)
LEMMA InitInv == Init => IInv
<1> SUFFICES ASSUME Init PROVE IInv
  OBVIOUS
<1>1. ShapeInv
  BY NoRowIsRow DEF Init, ShapeInv, Steps, Answers
<1>2. HandedInv
  BY NoRowIsRow DEF Init, HandedInv
<1>3. OwnInv
  BY NoRowIsRow DEF Init, OwnInv, PostIds, Keyed
<1>4. ThereInv
  BY DEF Init, ThereInv
<1> QED BY <1>1, <1>2, <1>3, <1>4 DEF IInv

LEMMA NextInv == IInv /\ [Next]_vars => IInv'
<1> SUFFICES ASSUME IInv, [Next]_vars PROVE IInv'
  OBVIOUS
<1>1. CASE \E r \in Requests : Lookup(r) \/ Handle(r) \/ CreateFails(r) \/ EnqueueFails(r)
  BY <1>1, ReadersKeep, CreatorsKeep, EnqueueKeeps, RollbackKeeps DEF Handle
<1>2. CASE \E p \in PostIds : \/ Claim(p) \/ Start(p) \/ PutBack(p) \/ Settle(p)
                             \/ Cancel(p) \/ Edit(p)
  BY <1>2, PostsKeep, StartKeeps
<1>3. CASE Exit
  BY <1>3, ExitKeeps
<1>4. CASE (\E p \in Plans : ChangePlan(p)) \/ (\E k \in Packs : Purchase(k)) \/ NextMonth
  BY <1>4, OthersKeep DEF ChangePlan, Purchase, NextMonth
<1>5. CASE UNCHANGED vars
  BY <1>5, OthersKeep DEF vars
<1> QED BY <1>1, <1>2, <1>3, <1>4, <1>5 DEF Next

\* PostSubmission: the invariant the theorems on its requests rest on holds of every submission.
THEOREM Invariance == Spec => []IInv
<1> QED BY InitInv, NextInv, PTL DEF Spec

\* However often a request is sent, the provider is asked at most once to publish its post.
THEOREM HandedAtMostOnce == Spec => []HandedOnce
<1>1. IInv => HandedOnce
  BY DEF IInv, HandedInv, HandedOnce
<1> QED BY <1>1, Invariance, PTL

\* A post that was reported as accepted is there until its owner cancels it.
THEOREM AcceptanceStays == Spec => []AcceptedStays
<1>1. IInv => AcceptedStays
  BY DEF IInv, ThereInv, AcceptedStays
<1> QED BY <1>1, Invariance, PTL

-------------------------------------------------------------------------------
(***************************************************************************)
(* What a post costs.                                                      *)
(***************************************************************************)
SameCost(row, other) ==
    row.units = other.units /\ row.addon = other.addon /\ row.createdIn = other.createdIn
\* Every row keeps its cost, is new, or is taken back before a publisher has it.
CostStep == \A p \in PostIds :
    \/ post[p].status = "NONE" \/ SameCost(post'[p], post[p])
    \/ post[p].status = "QUEUED" /\ post'[p].status = "NONE"

LEMMA OneWriteIsCostStep ==
    ASSUME IInv, NEW p \in PostIds, NEW row, Writes(p, row),
           \/ post[p].status = "NONE" \/ SameCost(row, post[p])
           \/ (post[p].status = "QUEUED" /\ row.status = "NONE")
    PROVE  CostStep
<1>1. post'[p] = row /\ \A q \in PostIds : q # p => post'[q] = post[q]
  BY Written DEF IInv
<1>2. ASSUME NEW q \in PostIds
      PROVE  \/ post[q].status = "NONE" \/ SameCost(post'[q], post[q])
             \/ (post[q].status = "QUEUED" /\ post'[q].status = "NONE")
  BY <1>1 DEF SameCost
<1> QED BY <1>2 DEF CostStep

LEMMA OneChangeSameCost == ASSUME NEW row, IsRow(row), NEW v
    PROVE  /\ SameCost([row EXCEPT !.status = v], row)
           /\ SameCost([row EXCEPT !.intent = v], row)
  BY DEF IsRow, SameCost

LEMMA RequestsKeepCosts ==
    ASSUME IInv, NEW r \in Requests, Create(r) \/ CreateFails(r) \/ Rollback(r)
    PROVE  post' = post \/ CostStep
<1> USE PostOfType
<1>1. CASE Create(r) \/ CreateFails(r)
  <2>1. UNCHANGED post \/ (pc[r] = "stamped" /\ ~Found(r) /\ Insert(r))
    BY <1>1 DEF Create, CreateFails
  <2>2. CASE pc[r] = "stamped" /\ ~Found(r) /\ Insert(r)
    <3>1. RowOf(r).status = "NONE"
      BY <2>2 DEF IInv, OwnInv, Found, RowOf, BeforeCreate
    <3>2. Writes(PostOf(r), NewRow(r))
      BY <2>2, NewIsRow DEF Insert, Writes
    <3> QED BY <3>1, <3>2, OneWriteIsCostStep DEF RowOf
  <2> QED BY <2>1, <2>2
<1>2. CASE Rollback(r)
  <2>1. post' = post \/ (post[PostOf(r)].status = "QUEUED" /\ Writes(PostOf(r), NoRow))
    BY <1>2, NoRowIsRow DEF Rollback, Removed, Removable, Writes
  <2> QED BY <2>1, NoRowIsRow, OneWriteIsCostStep
<1> QED BY <1>1, <1>2

LEMMA PublisherAndOwnerKeepCosts ==
    ASSUME IInv, NEW p \in PostIds,
           Claim(p) \/ Start(p) \/ PutBack(p) \/ Settle(p) \/ Cancel(p) \/ Edit(p)
    PROVE  post' = post \/ CostStep
<1>1. IsRow(post[p])
  BY DEF IInv, ShapeInv
<1>2. CASE Claim(p) \/ PutBack(p) \/ Settle(p)
  <2>1. PICK s \in {"QUEUED", "PUBLISHING", "PUBLISHED", "FAILED"} : SetStatus(p, s)
    BY <1>2 DEF Claim, PutBack, Settle
  <2>2. Writes(p, [post[p] EXCEPT !.status = s])
    BY <1>1, <2>1, WithStatus DEF SetStatus, Writes, Status
  <2> QED BY <1>1, <2>2, OneChangeSameCost, OneWriteIsCostStep
<1>3. CASE Cancel(p)
  <2>1. post[p].status = "QUEUED" /\ Writes(p, NoRow)
    BY <1>3, NoRowIsRow DEF Cancel, Removed, Removable, Writes
  <2> QED BY <2>1, NoRowIsRow, OneWriteIsCostStep
<1>4. CASE Edit(p)
  <2>1. Writes(p, [post[p] EXCEPT !.intent = Edited])
    BY <1>1, <1>4, WithIntent DEF Edit, Writes
  <2> QED BY <1>1, <2>1, OneChangeSameCost, OneWriteIsCostStep
<1>5. CASE Start(p)
  BY <1>5 DEF Start
<1> QED BY <1>2, <1>3, <1>4, <1>5

LEMMA NextKeepsCosts == IInv /\ [Next]_vars => post' = post \/ CostStep
<1> SUFFICES ASSUME IInv, [Next]_vars PROVE post' = post \/ CostStep
  OBVIOUS
<1>1. ASSUME NEW r \in Requests,
             Lookup(r) \/ Handle(r) \/ CreateFails(r) \/ EnqueueFails(r)
      PROVE  \/ post' = post \/ Create(r) \/ CreateFails(r) \/ Rollback(r)
  BY <1>1 DEF Lookup, Handle, Replay, Refuse, ReadPlan, AcquireCreation, RecheckDirect,
              RecheckPlan, Stamp, Enqueue, EnqueueFails
<1>2. CASE Exit \/ (\E p \in Plans : ChangePlan(p)) \/ (\E k \in Packs : Purchase(k))
           \/ NextMonth \/ UNCHANGED vars
  BY <1>2 DEF Exit, ChangePlan, Purchase, NextMonth, vars
<1> QED BY <1>1, <1>2, RequestsKeepCosts, PublisherAndOwnerKeepCosts DEF Next

\* What a post costs is fixed when it is accepted, and is given back only with the post, before
\* a publisher has it.
THEOREM CostsAreFixed == Spec => CostIsFixed
<1>1. IInv /\ [Next]_vars =>
        [\A p \in PostIds :
            \/ post[p].status = "NONE" \/ Cost(p)' = Cost(p)
            \/ post[p].status = "QUEUED" /\ post'[p].status = "NONE"]_vars
  <2> SUFFICES ASSUME IInv, [Next]_vars, NEW p \in PostIds
               PROVE  \/ post[p].status = "NONE" \/ Cost(p)' = Cost(p)
                      \/ (post[p].status = "QUEUED" /\ post'[p].status = "NONE")
    OBVIOUS
  <2>1. CASE post' = post
    BY <2>1 DEF Cost
  <2>2. CASE CostStep
    BY <2>2 DEF CostStep, SameCost, Cost
  <2> QED BY <2>1, <2>2, NextKeepsCosts
<1> QED BY <1>1, Invariance, PTL DEF Spec, CostIsFixed

-------------------------------------------------------------------------------
(***************************************************************************)
(* PostSubmission: what posts take together of a month.                    *)
(***************************************************************************)
\* What is known of a set of values for which a function is a number: one of them is the largest.
LEMMA LargestExists ==
  ASSUME NEW S, IsFiniteSet(S), S # {}, NEW f, \A x \in S : f[x] \in Int
  PROVE  \E x \in S : \A y \in S : f[y] <= f[x]
<1>. DEFINE Top(T) == \E x \in T : \A y \in T : f[y] <= f[x]
            G == {T \in SUBSET S : T = {} \/ Top(T)}
<1>1. ASSUME NEW T \in SUBSET S, \A x \in T : T \ {x} \in G PROVE T \in G
  <2>1. SUFFICES ASSUME NEW e \in T PROVE Top(T)
    OBVIOUS
  <2>2. CASE T \ {e} = {}
    BY <2>2
  <2>3. CASE T \ {e} # {}
    <3>1. PICK x \in T \ {e} : \A y \in T \ {e} : f[y] <= f[x]
      BY <1>1, <2>3
    <3>2. f[e] \in Int /\ \A y \in T : f[y] \in Int
      OBVIOUS
    <3>3. CASE f[e] <= f[x]
      BY <3>1, <3>3
    <3>4. CASE ~(f[e] <= f[x])
      BY <3>1, <3>2, <3>4
    <3>. QED BY <3>3, <3>4
  <2>. QED BY <2>2, <2>3
<1>. HIDE DEF G
<1>2. SUBSET S \subseteq G
  BY <1>1, SubsetInduction
<1>. QED BY <1>2 DEF G

\* What is added for a part of a set is added for the whole with nothing for the rest.
LEMMA SumOfPart ==
  ASSUME NEW S, IsFiniteSet(S), NEW f \in [S -> Int], NEW V \in SUBSET S, NEW g \in [S -> Int],
         \A x \in S : g[x] = IF x \in V THEN f[x] ELSE 0
  PROVE  SumFunctionOnSet(f, V) = SumFunctionOnSet(g, S)
<1>. DEFINE G == {U \in SUBSET S : SumFunctionOnSet(f, U \cap V) = SumFunctionOnSet(g, U)}
<1>1. ASSUME NEW U \in SUBSET S, \A x \in U : U \ {x} \in G PROVE U \in G
  <2>1. CASE U = {}
    <3>1. U \cap V = {}
      BY <2>1
    <3>. QED BY <2>1, <3>1, SumEmpty
  <2>2. ASSUME NEW x \in U PROVE U \in G
    <3>1. SumFunctionOnSet(g, U) = g[x] + SumFunctionOnSet(g, U \ {x})
      BY SumRemove
    <3>2. SumFunctionOnSet(g, U \ {x}) = SumFunctionOnSet(f, (U \ {x}) \cap V)
      BY <1>1
    <3>3. SumFunctionOnSet(f, (U \ {x}) \cap V) \in Int
      BY SumType
    <3>4. CASE x \in V
      <4>1. x \in U \cap V /\ (U \cap V) \ {x} = (U \ {x}) \cap V /\ U \cap V \in SUBSET S
        BY <3>4
      <4>2. SumFunctionOnSet(f, U \cap V) = f[x] + SumFunctionOnSet(f, (U \cap V) \ {x})
        BY <4>1, SumRemove
      <4>3. g[x] = f[x]
        BY <3>4
      <4>4. SumFunctionOnSet(f, U \cap V) = SumFunctionOnSet(g, U)
        BY <3>1, <3>2, <4>1, <4>2, <4>3, Zenon
      <4>. QED BY <4>4
    <3>5. CASE x \notin V
      <4>1. U \cap V = (U \ {x}) \cap V /\ g[x] = 0
        BY <3>5
      <4>2. SumFunctionOnSet(g, U) = SumFunctionOnSet(g, U \ {x})
        BY <3>1, <3>2, <3>3, <4>1
      <4>3. SumFunctionOnSet(f, U \cap V) = SumFunctionOnSet(g, U)
        BY <3>2, <4>1, <4>2, Zenon
      <4>. QED BY <4>3
    <3>. QED BY <3>4, <3>5
  <2>. QED BY <2>1, <2>2
<1>. HIDE DEF G
<1>2. SUBSET S \subseteq G
  BY <1>1, SubsetInduction
<1>3. S \cap V = V
  OBVIOUS
<1>. QED BY <1>2, <1>3 DEF G

LEMMA FewPosts == IsFiniteSet(PostIds)
<1>1. IsFiniteSet({r \in Requests : KeyOf[r] = None}) /\ IsFiniteSet(Keys)
  BY SubmissionAssumption, FS_Subset
<1>. QED BY <1>1, FS_Union DEF PostIds

\* What a post takes of the allowance of a month it was checked for.
Share(row, m) == IF row.createdIn = m /\ row.checkedFor = m THEN row.units - row.addon ELSE 0
Shares(m) == [p \in PostIds |-> Share(post[p], m)]

Paid(row) ==
    /\ row.units \in Nat /\ row.addon \in Nat /\ row.addon <= row.units
    /\ row.status = "NONE" => row.units = 0 /\ row.addon = 0

\* The plan that a request goes by is one the owner has held.
HeldInv ==
    /\ IsFiniteSet(plansHeld) /\ plansHeld \subseteq Plans /\ Basic \in plansHeld /\ plan \in plansHeld
    /\ month \in Months
    /\ local \in [Requests -> [plan : plansHeld, asOf : Months, mine : BOOLEAN]]
PaidInv == \A p \in PostIds : Paid(post[p])
Within == \A m \in Months : SumFunctionOnSet(Shares(m), PostIds) <= MostIncluded
CostInv == HeldInv /\ PaidInv /\ Within

LEMMA SharesType == ASSUME PaidInv, NEW m PROVE Shares(m) \in [PostIds -> Int]
  BY DEF PaidInv, Paid, Shares, Share

CountIn(m) == {p \in PostIds : post[p].createdIn = m /\ post[p].checkedFor = m}

LEMMA IncludedIs == ASSUME PaidInv, NEW m PROVE IncludedUnits(CountIn(m)) = SumFunctionOnSet(Shares(m), PostIds)
<1>1. PICK f : f = [p \in PostIds |-> post[p].units - post[p].addon]
  OBVIOUS
<1>2. f \in [PostIds -> Int] /\ \A x \in PostIds : Shares(m)[x] = IF x \in CountIn(m) THEN f[x] ELSE 0
  BY <1>1 DEF PaidInv, Paid, Shares, Share, CountIn
<1>3. CountIn(m) \in SUBSET PostIds
  BY DEF CountIn
<1>4. SumFunctionOnSet(f, CountIn(m)) = SumFunctionOnSet(Shares(m), PostIds)
  BY <1>2, <1>3, FewPosts, SharesType, SumOfPart
<1>. QED BY <1>1, <1>4 DEF IncludedUnits

LEMMA MostIncludedIs == ASSUME HeldInv
    PROVE  MostIncluded \in Nat /\ \A p \in plansHeld : PlanLimit[p] <= MostIncluded
<1>1. \A p \in plansHeld : PlanLimit[p] \in Nat
  BY SubmissionAssumption DEF HeldInv
<1>2. PICK x \in plansHeld : \A y \in plansHeld : PlanLimit[y] <= PlanLimit[x]
  BY <1>1, LargestExists DEF HeldInv
<1>. DEFINE Largest(n) == n \in {PlanLimit[p] : p \in plansHeld} /\ \A p \in plansHeld : PlanLimit[p] <= n
<1>3. Largest(PlanLimit[x])
  BY <1>2
<1>4. MostIncluded = CHOOSE n \in {PlanLimit[p] : p \in plansHeld} : \A p \in plansHeld : PlanLimit[p] <= n
  BY DEF MostIncluded
<1>5. Largest(MostIncluded)
  BY <1>3, <1>4
<1>. QED BY <1>1, <1>5

\* What is left of the month's allowance covers what is not paid otherwise.
LEMMA NeededIs ==
  ASSUME CostInv, NEW r \in Requests
  PROVE  /\ NeededAddon(r) \in 0..Units[IntentOf[r]]
         /\ LET m == local[r].asOf
            IN  SumFunctionOnSet(Shares(m), PostIds) + (Units[IntentOf[r]] - NeededAddon(r)) <= MostIncluded
<1>. DEFINE m == local[r].asOf
<1>1. PICK f, h : /\ f = [p \in PostIds |-> post[p].units - post[p].addon]
                  /\ h = [p \in PostIds |-> IF p \in CreatedIn(m) THEN f[p] ELSE 0]
  OBVIOUS
<1>2. /\ f \in [PostIds -> Int] /\ h \in [PostIds -> Int]
      /\ \A p \in PostIds : h[p] = IF p \in CreatedIn(m) THEN f[p] ELSE 0
  BY <1>1 DEF CostInv, PaidInv, Paid
<1>3. CreatedIn(m) \in SUBSET PostIds /\ m \in Months
  BY DEF CreatedIn, CostInv, HeldInv
<1>4. IncludedUnits(CreatedIn(m)) = SumFunctionOnSet(h, PostIds)
  <2>1. SumFunctionOnSet(f, CreatedIn(m)) = SumFunctionOnSet(h, PostIds)
    BY <1>2, <1>3, FewPosts, SumOfPart
  <2>. QED BY <1>1, <2>1 DEF IncludedUnits
<1>5. \A p \in PostIds : Shares(m)[p] <= h[p]
  BY <1>1 DEF CostInv, PaidInv, Paid, Shares, Share, CreatedIn
<1>6. Shares(m) \in [PostIds -> Int]
  BY SharesType DEF CostInv
<1>7. SumFunctionOnSet(Shares(m), PostIds) <= SumFunctionOnSet(h, PostIds)
  BY <1>2, <1>5, <1>6, FewPosts, SumMonotone
<1>8. SumFunctionOnSet(Shares(m), PostIds) \in Int /\ SumFunctionOnSet(h, PostIds) \in Int
  BY <1>2, <1>6, FewPosts, SumType
<1>9. local[r].plan \in plansHeld /\ PlanLimit[local[r].plan] \in Nat /\ Units[IntentOf[r]] \in Nat
  BY SubmissionAssumption DEF CostInv, HeldInv
<1>10. MostIncluded \in Nat /\ PlanLimit[local[r].plan] <= MostIncluded
  BY <1>9, MostIncludedIs DEF CostInv
<1>11. SumFunctionOnSet(Shares(m), PostIds) <= MostIncluded
  BY <1>3 DEF CostInv, Within
<1>12. PICK a \in Int, b \in Int, u \in Nat, l \in Nat :
         /\ a = SumFunctionOnSet(Shares(m), PostIds) /\ b = IncludedUnits(CreatedIn(m))
         /\ u = Units[IntentOf[r]] /\ l = PlanLimit[local[r].plan]
  BY <1>4, <1>8, <1>9
<1>13. NeededAddon(r) = AtLeastZero(u - AtLeastZero(l - b))
  BY <1>12 DEF NeededAddon
<1>14. a <= b /\ l <= MostIncluded /\ a <= MostIncluded
  BY <1>4, <1>7, <1>10, <1>11, <1>12
<1>15. NeededAddon(r) \in 0..u /\ a + (u - NeededAddon(r)) <= MostIncluded
  BY <1>10, <1>13, <1>14 DEF AtLeastZero
<1>. QED BY <1>12, <1>15

\* One row is written: nothing of what the month's allowance bears, or what it still bears.
LEMMA RowKeeps ==
  ASSUME IInv, CostInv, HeldInv', plansHeld' = plansHeld, NEW p \in PostIds, NEW row, Writes(p, row), Paid(row),
         \A m \in Months : \/ Share(row, m) <= Share(post[p], m)
                           \/ /\ Share(post[p], m) = 0
                              /\ SumFunctionOnSet(Shares(m), PostIds) + Share(row, m) <= MostIncluded
  PROVE  CostInv'
<1>1. post'[p] = row /\ \A q \in PostIds : q # p => post'[q] = post[q]
  BY Written DEF IInv
<1>2. PaidInv'
  BY <1>1 DEF CostInv, PaidInv
<1>3. MostIncluded' = MostIncluded /\ MostIncluded \in Nat
  BY MostIncludedIs DEF MostIncluded, CostInv
<1>4. ASSUME NEW m \in Months PROVE SumFunctionOnSet(Shares(m)', PostIds) <= MostIncluded
  <2>1. PICK f, h : f = Shares(m) /\ h = Shares(m)'
    OBVIOUS
  <2>2. f \in [PostIds -> Int] /\ h \in [PostIds -> Int]
    <3>1. Shares(m)' = [q \in PostIds |-> Share(post'[q], m)] /\ \A q \in PostIds : Share(post'[q], m) \in Int
      BY <1>2 DEF Shares, Share, PaidInv, Paid
    <3>. QED BY <2>1, <3>1, SharesType DEF CostInv
  <2>3. f[p] = Share(post[p], m) /\ h[p] = Share(row, m) /\ \A q \in PostIds \ {p} : f[q] = h[q]
    BY <1>1, <2>1 DEF Shares
  <2>4. SumFunctionOnSet(h, PostIds) = SumFunctionOnSet(f, PostIds) + h[p] - f[p]
    BY <2>2, <2>3, FewPosts, SumChange
  <2>5. SumFunctionOnSet(f, PostIds) \in Int /\ f[p] \in Int /\ h[p] \in Int
    BY <2>2, FewPosts, SumType
  <2>6. SumFunctionOnSet(f, PostIds) <= MostIncluded
    BY <2>1 DEF CostInv, Within
  <2>7. \/ h[p] <= f[p]
        \/ f[p] = 0 /\ SumFunctionOnSet(f, PostIds) + h[p] <= MostIncluded
    BY <2>1, <2>3
  <2>8. SumFunctionOnSet(h, PostIds) <= MostIncluded
    BY <1>3, <2>4, <2>5, <2>6, <2>7
  <2>. QED BY <2>1, <2>8
<1>5. Within'
  BY <1>3, <1>4 DEF Within, Months
<1>. QED BY <1>2, <1>5 DEF CostInv

\* No row is written: plans are only added to those that were held.
LEMMA RowsKeep ==
  ASSUME CostInv, HeldInv', UNCHANGED post, plansHeld \subseteq plansHeld'
  PROVE  CostInv'
<1>1. PaidInv'
  BY DEF CostInv, PaidInv
<1>2. MostIncluded \in Nat /\ MostIncluded \in {PlanLimit[p] : p \in plansHeld}
  <2>1. \E p \in plansHeld : \A q \in plansHeld : PlanLimit[q] <= PlanLimit[p]
    <3>1. \A p \in plansHeld : PlanLimit[p] \in Int
      BY SubmissionAssumption DEF CostInv, HeldInv
    <3>. QED BY <3>1, LargestExists DEF CostInv, HeldInv
  <2>. QED BY <2>1, MostIncludedIs DEF MostIncluded, CostInv
<1>3. MostIncluded' \in Nat /\ \A p \in plansHeld' : PlanLimit[p] <= MostIncluded'
  <2>1. \A p \in plansHeld' : PlanLimit[p] \in Int
    BY SubmissionAssumption DEF HeldInv
  <2>2. PICK held : held = plansHeld'
    OBVIOUS
  <2>3. \E p \in held : \A q \in held : PlanLimit[q] <= PlanLimit[p]
    BY <2>1, <2>2, LargestExists DEF HeldInv
  <2>4. MostIncluded' = CHOOSE n \in {PlanLimit[p] : p \in held} : \A p \in held : PlanLimit[p] <= n
    BY <2>2 DEF MostIncluded
  <2>5. held \subseteq Plans
    BY <2>2 DEF HeldInv
  <2>. QED BY <2>2, <2>3, <2>4, <2>5, SubmissionAssumption
<1>4. MostIncluded <= MostIncluded'
  BY <1>2, <1>3
<1>5. ASSUME NEW m \in Months PROVE SumFunctionOnSet(Shares(m)', PostIds) <= MostIncluded'
  <2>1. Shares(m)' = Shares(m)
    BY DEF Shares
  <2>2. SumFunctionOnSet(Shares(m), PostIds) \in Int /\ SumFunctionOnSet(Shares(m), PostIds) <= MostIncluded
    BY SharesType, FewPosts, SumType DEF CostInv, Within
  <2>. QED BY <1>2, <1>3, <1>4, <2>1, <2>2
<1>6. Within'
  BY <1>5 DEF Within, Months
<1>. QED BY <1>1, <1>6 DEF CostInv

LocalType == [plan : plansHeld, asOf : Months, mine : BOOLEAN]

\* What a request knows is what it knew, or the plan or the month as they are.
LEMMA LocalKeeps ==
  ASSUME HeldInv, NEW r \in Requests, NEW l \in LocalType, local' = [local EXCEPT ![r] = l],
         UNCHANGED <<plan, plansHeld, month>>
  PROVE  HeldInv'
<1>1. local' \in [Requests -> LocalType]
  BY DEF HeldInv, LocalType
<1>. QED BY <1>1 DEF HeldInv, LocalType

LEMMA NoLocalIs == ASSUME HeldInv PROVE NoLocal \in LocalType
<1>1. MaxMonth \in Nat
  BY SubmissionAssumption
<1>. QED BY <1>1 DEF HeldInv, LocalType, NoLocal, Months

LEMMA AnswersKeep ==
  ASSUME HeldInv, NEW r \in Requests, NEW a, NEW s, Answer(r, a) \/ Goes(r, s), UNCHANGED <<plan, plansHeld, month>>
  PROVE  HeldInv'
<1>1. PICK l \in LocalType : local' = [local EXCEPT ![r] = l]
  BY NoLocalIs DEF HeldInv, LocalType, Answer, Goes, GoesWith
<1>. QED BY <1>1, LocalKeeps

LEMMA RepliesKeep ==
  ASSUME HeldInv, NEW r \in Requests, AnswerReplay(r), UNCHANGED <<plan, plansHeld, month>>
  PROVE  HeldInv'
<1>1. \E a, s : Answer(r, a) \/ Goes(r, s)
  BY DEF AnswerReplay
<1>. QED BY <1>1, AnswersKeep

LEMMA ReadersCost ==
  ASSUME CostInv, NEW r \in Requests,
         \/ Lookup(r) \/ Replay(r) \/ Refuse(r) \/ ReadPlan(r) \/ AcquireCreation(r)
         \/ RecheckDirect(r) \/ RecheckPlan(r) \/ Stamp(r) \/ Enqueue(r) \/ EnqueueFails(r)
  PROVE  CostInv'
<1>0. UNCHANGED <<post, plan, plansHeld, month>>
  BY DEF Lookup, Replay, Refuse, ReadPlan, AcquireCreation, RecheckDirect, RecheckPlan, Stamp, Enqueue,
     EnqueueFails, account
<1>1. CASE AnswerReplay(r)
  BY <1>0, <1>1, RepliesKeep, RowsKeep DEF CostInv
<1>2. CASE \E a, s : Answer(r, a) \/ Goes(r, s)
  BY <1>0, <1>2, AnswersKeep, RowsKeep DEF CostInv
<1>3. ASSUME NEW l \in LocalType, NEW s, GoesWith(r, s, l) PROVE CostInv'
  BY <1>0, <1>3, LocalKeeps, RowsKeep DEF CostInv, GoesWith
<1>4. local[r] \in LocalType /\ plan \in plansHeld /\ month \in Months
  BY DEF CostInv, HeldInv, LocalType
<1>5. CASE ReadPlan(r)
  <2>1. [local[r] EXCEPT !.plan = plan] \in LocalType
    BY <1>4 DEF LocalType
  <2>. QED BY <1>3, <1>5, <2>1 DEF ReadPlan
<1>6. CASE RecheckPlan(r)
  <2>1. PICK q : /\ q = (IF IsScheduled(r) /\ ~Found(r) THEN plan ELSE local[r].plan)
                 /\ GoesWith(r, "planned", [local[r] EXCEPT !.plan = q])
    BY <1>6 DEF RecheckPlan
  <2>2. [local[r] EXCEPT !.plan = q] \in LocalType
    BY <1>4, <2>1 DEF LocalType
  <2>. QED BY <1>3, <2>1, <2>2
<1>7. CASE Stamp(r)
  <2>1. [local[r] EXCEPT !.asOf = month] \in LocalType
    BY <1>4 DEF LocalType
  <2>. QED BY <1>3, <1>7, <2>1 DEF Stamp
<1>. QED BY <1>1, <1>2, <1>5, <1>6, <1>7
     DEF Lookup, Replay, Refuse, AcquireCreation, RecheckDirect, Enqueue, EnqueueFails

\* A new row takes of the allowance no more than is left of it, and of no other month's.
LEMMA InsertsCost ==
  ASSUME IInv, CostInv, HeldInv', UNCHANGED <<plansHeld, month>>, NEW r \in Requests, Inserts(r)
  PROVE  CostInv'
<1>1. RowOf(r).status = "NONE" /\ Writes(PostOf(r), NewRow(r)) /\ PostOf(r) \in PostIds
  BY InsertsNew, PostOfType
<1>2. Units[IntentOf[r]] \in Nat
  BY SubmissionAssumption
<1>3. NeededAddon(r) \in 0..Units[IntentOf[r]]
  BY NeededIs
<1>4. PICK row : row = NewRow(r)
  OBVIOUS
<1>5. /\ row.units = Units[IntentOf[r]] /\ row.addon = NeededAddon(r) /\ row.status = "QUEUED"
      /\ row.createdIn = month /\ row.checkedFor = local[r].asOf
  BY <1>4 DEF NewRow
<1>6. Writes(PostOf(r), row)
  BY <1>1, <1>4
<1>. HIDE <1>4
<1>7. Paid(row)
  BY <1>2, <1>3, <1>5 DEF Paid
<1>8. \A m \in Months : Share(post[PostOf(r)], m) = 0
  BY <1>1 DEF CostInv, PaidInv, Paid, Share, RowOf
<1>9. ASSUME NEW m \in Months PROVE SumFunctionOnSet(Shares(m), PostIds) + Share(row, m) <= MostIncluded
  <2>1. CASE m = month /\ m = local[r].asOf
    BY <1>5, <2>1, NeededIs DEF Share
  <2>2. CASE ~(m = month /\ m = local[r].asOf)
    <3>1. Share(row, m) = 0
      BY <1>5, <2>2 DEF Share
    <3>2. SumFunctionOnSet(Shares(m), PostIds) \in Int /\ SumFunctionOnSet(Shares(m), PostIds) <= MostIncluded
      BY SharesType, FewPosts, SumType DEF CostInv, Within
    <3>. QED BY <3>1, <3>2
  <2>. QED BY <2>1, <2>2
<1>. QED BY <1>1, <1>6, <1>7, <1>8, <1>9, RowKeeps

LEMMA CreatorsCost ==
  ASSUME IInv, CostInv, NEW r \in Requests, Create(r) \/ CreateFails(r)
  PROVE  CostInv'
<1>0. UNCHANGED <<plan, plansHeld, month>>
  BY DEF Create, CreateFails, account
<1>1. HeldInv'
  <2>1. CASE GoesWith(r, "enqueue", [local[r] EXCEPT !.mine = TRUE])
    <3>1. local[r] \in LocalType /\ [local[r] EXCEPT !.mine = TRUE] \in LocalType
      BY DEF CostInv, HeldInv, LocalType
    <3>. QED BY <1>0, <2>1, <3>1, LocalKeeps DEF CostInv, GoesWith
  <2>2. CASE AnswerReplay(r)
    BY <1>0, <2>2, RepliesKeep DEF CostInv
  <2>3. CASE \E a : Answer(r, a)
    BY <1>0, <2>3, AnswersKeep DEF CostInv
  <2>. QED BY <2>1, <2>2, <2>3 DEF Create, CreateFails
<1>2. CASE UNCHANGED post
  BY <1>0, <1>1, <1>2, RowsKeep
<1>3. CASE Inserts(r)
  BY <1>0, <1>1, <1>3, InsertsCost
<1>4. UNCHANGED post \/ Inserts(r)
  BY DEF Create, CreateFails, Inserts, GoesWith, Answer, history
<1>. QED BY <1>2, <1>3, <1>4

\* A row that changes its status, its intent or goes away takes no more than it did.
LEMMA SameShare ==
  ASSUME NEW row, IsRow(row), Paid(row), NEW s \in Status \ {"NONE"}, row.status # "NONE"
  PROVE  Paid([row EXCEPT !.status = s]) /\ \A m : Share([row EXCEPT !.status = s], m) = Share(row, m)
  BY DEF IsRow, Paid, Share

LEMMA SameShareEdited ==
  ASSUME NEW row, IsRow(row), Paid(row), row.status # "NONE"
  PROVE  Paid([row EXCEPT !.intent = Edited]) /\ \A m : Share([row EXCEPT !.intent = Edited], m) = Share(row, m)
  BY DEF IsRow, Paid, Share

LEMMA NoShare ==
  ASSUME NEW row, Paid(row)
  PROVE  Paid(NoRow) /\ \A m : Share(NoRow, m) <= Share(row, m)
  BY DEF Paid, Share, NoRow

LEMMA PostsCost ==
  ASSUME IInv, CostInv, NEW p \in PostIds, Claim(p) \/ PutBack(p) \/ Settle(p) \/ Cancel(p) \/ Edit(p)
  PROVE  CostInv'
<1>0. UNCHANGED <<plan, plansHeld, month, local>>
  BY DEF Claim, PutBack, Settle, Cancel, Edit, account, request
<1>1. HeldInv'
  BY <1>0 DEF CostInv, HeldInv
<1>2. IsRow(post[p]) /\ Paid(post[p])
  BY DEF IInv, ShapeInv, CostInv, PaidInv
<1>3. ASSUME NEW row, Writes(p, row), Paid(row), \A m : Share(row, m) <= Share(post[p], m) PROVE CostInv'
  BY <1>0, <1>1, <1>3, RowKeeps
<1>4. \A m : Share(post[p], m) \in Int
  BY <1>2 DEF Paid, Share
<1>5. ASSUME NEW s \in Status \ {"NONE"}, post[p].status # "NONE", SetStatus(p, s) PROVE CostInv'
  <2>1. PICK row : row = [post[p] EXCEPT !.status = s]
    OBVIOUS
  <2>2. Paid(row) /\ (\A m : Share(row, m) = Share(post[p], m)) /\ IsRow(row)
    BY <1>2, <1>5, <2>1, SameShare, WithStatus
  <2>3. Writes(p, row)
    BY <1>5, <2>1, <2>2 DEF SetStatus, Writes
  <2>. QED BY <1>3, <1>4, <2>2, <2>3
<1>6. CASE Claim(p) \/ PutBack(p) \/ Settle(p)
  <2>1. attempt[p] = "claimed" => post[p].status = "PUBLISHING"
    BY DEF IInv, HandedInv
  <2>2. post[p].status # "NONE" /\ \E s \in Status \ {"NONE"} : SetStatus(p, s)
    BY <1>6, <2>1 DEF Claim, PutBack, Settle, Status
  <2>. QED BY <1>5, <2>2
<1>7. CASE Cancel(p)
  <2>1. Writes(p, NoRow)
    BY <1>7, NoRowIsRow DEF Cancel, Removed, Removable, Writes
  <2>. QED BY <1>2, <1>3, <2>1, NoShare
<1>8. CASE Edit(p)
  <2>1. PICK row : row = [post[p] EXCEPT !.intent = Edited]
    OBVIOUS
  <2>2. post[p].status # "NONE"
    BY <1>8 DEF Edit
  <2>3. Paid(row) /\ (\A m : Share(row, m) = Share(post[p], m)) /\ IsRow(row)
    BY <1>2, <2>1, <2>2, SameShareEdited, WithIntent
  <2>4. Writes(p, row)
    BY <1>8, <2>1, <2>3 DEF Edit, Writes
  <2>. QED BY <1>3, <1>4, <2>3, <2>4
<1>. QED BY <1>6, <1>7, <1>8

LEMMA RollbackCost == ASSUME IInv, CostInv, NEW r \in Requests, Rollback(r) PROVE CostInv'
<1>0. UNCHANGED <<plan, plansHeld, month>> /\ Answer(r, "unavailable") /\ PostOf(r) \in PostIds
  BY PostOfType DEF Rollback, account
<1>1. HeldInv'
  BY <1>0, AnswersKeep DEF CostInv
<1>2. CASE UNCHANGED post
  BY <1>0, <1>1, <1>2, RowsKeep
<1>3. CASE post' # post
  <2>1. Writes(PostOf(r), NoRow)
    BY <1>3, NoRowIsRow DEF Rollback, Removed, Writes
  <2>2. Paid(post[PostOf(r)])
    BY <1>0 DEF CostInv, PaidInv
  <2>. QED BY <1>0, <1>1, <2>1, <2>2, NoShare, RowKeeps
<1>. QED BY <1>2, <1>3

LEMMA OthersCost ==
  ASSUME CostInv,
         \/ Exit \/ NextMonth \/ (\E k \in Packs : Purchase(k)) \/ (\E p \in PostIds : Start(p))
         \/ (\E p \in Plans : ChangePlan(p)) \/ UNCHANGED vars
  PROVE  CostInv'
<1>0. UNCHANGED post /\ HeldInv
  BY DEF Exit, NextMonth, Purchase, Start, ChangePlan, vars, CostInv
<1>1. CASE UNCHANGED <<plan, plansHeld, month, local>>
  <2>1. HeldInv'
    BY <1>0, <1>1 DEF HeldInv
  <2>. QED BY <1>0, <1>1, <2>1, RowsKeep
<1>2. CASE Exit
  <2>1. local' = [r \in Requests |-> NoLocal] /\ UNCHANGED <<plan, plansHeld, month>>
    BY <1>2 DEF Exit, account
  <2>2. local' \in [Requests -> LocalType]
    BY <1>0, <2>1, NoLocalIs
  <2>3. HeldInv'
    BY <1>0, <2>1, <2>2 DEF HeldInv, LocalType
  <2>. QED BY <1>0, <2>1, <2>3, RowsKeep
<1>3. CASE NextMonth
  <2>1. month' \in Months /\ UNCHANGED <<plan, plansHeld, local>>
    BY <1>0, <1>3, SubmissionAssumption DEF NextMonth, HeldInv, Months, account, request
  <2>2. HeldInv'
    BY <1>0, <2>1 DEF HeldInv, Months
  <2>. QED BY <1>0, <2>1, <2>2, RowsKeep
<1>4. ASSUME NEW p \in Plans, ChangePlan(p) PROVE CostInv'
  <2>1. plan' = p /\ plansHeld' = plansHeld \cup {p} /\ UNCHANGED <<local, month>>
    BY <1>4 DEF ChangePlan, request
  <2>2. IsFiniteSet(plansHeld \cup {p})
    BY <1>0, FS_AddElement DEF HeldInv
  <2>3. local' \in [Requests -> [plan : plansHeld', asOf : Months, mine : BOOLEAN]]
    BY <1>0, <2>1 DEF HeldInv
  <2>4. HeldInv'
    BY <1>0, <2>1, <2>2, <2>3 DEF HeldInv, Months
  <2>. QED BY <1>0, <2>1, <2>4, RowsKeep
<1>. QED BY <1>1, <1>2, <1>3, <1>4 DEF Purchase, Start, vars, account, request

LEMMA CostInit == Init => CostInv
<1>. SUFFICES ASSUME Init PROVE CostInv
  OBVIOUS
<1>1. plansHeld = {Basic} /\ plan = Basic /\ Basic \in Plans /\ month = 0 /\ MaxMonth \in Nat
  BY SubmissionAssumption DEF Init
<1>2. IsFiniteSet(plansHeld)
  BY <1>1, FS_Singleton
<1>3. local \in [Requests -> [plan : plansHeld, asOf : Months, mine : BOOLEAN]]
  BY <1>1 DEF Init, NoLocal, Months
<1>4. HeldInv
  BY <1>1, <1>2, <1>3 DEF HeldInv, Months
<1>5. PaidInv
  BY DEF Init, PaidInv, Paid, NoRow
<1>6. ASSUME NEW m \in Months PROVE SumFunctionOnSet(Shares(m), PostIds) <= MostIncluded
  <2>1. PICK g : g = [p \in PostIds |-> 0]
    OBVIOUS
  <2>2. g \in [PostIds -> Int] /\ {} \in SUBSET PostIds /\ \A p \in PostIds : g[p] = 0
    BY <2>1
  <2>3. Shares(m) = g
    BY <2>1 DEF Init, Shares, Share, NoRow
  <2>4. \A p \in PostIds : g[p] = IF p \in {} THEN g[p] ELSE 0
    BY <2>2
  <2>5. SumFunctionOnSet(g, {}) = SumFunctionOnSet(g, PostIds)
    BY <2>2, <2>4, FewPosts, SumOfPart
  <2>6. SumFunctionOnSet(g, {}) = 0
    BY <2>2, FewPosts, SumEmpty
  <2>7. MostIncluded \in Nat
    BY <1>4, MostIncludedIs
  <2>. QED BY <2>3, <2>5, <2>6, <2>7
<1>. QED BY <1>4, <1>5, <1>6 DEF CostInv, Within

LEMMA CostNext == IInv /\ CostInv /\ [Next]_vars => CostInv'
<1>. SUFFICES ASSUME IInv, CostInv, [Next]_vars PROVE CostInv'
  OBVIOUS
<1>1. CASE \E r \in Requests : Lookup(r) \/ Handle(r) \/ CreateFails(r) \/ EnqueueFails(r)
  BY <1>1, ReadersCost, CreatorsCost, RollbackCost DEF Handle
<1>2. CASE \E p \in PostIds : \/ Claim(p) \/ Start(p) \/ PutBack(p) \/ Settle(p)
                             \/ Cancel(p) \/ Edit(p)
  BY <1>2, PostsCost, OthersCost
<1>3. CASE \/ Exit \/ NextMonth \/ (\E p \in Plans : ChangePlan(p)) \/ (\E k \in Packs : Purchase(k))
           \/ UNCHANGED vars
  BY <1>3, OthersCost
<1>. QED BY <1>1, <1>2, <1>3 DEF Next

\* PostSubmission: what posts hold and have paid is as the ledger of CostInv says.
THEOREM Costs == Spec => []CostInv
<1>1. IInv /\ CostInv /\ [Next]_vars => CostInv'
  BY CostNext
<1>. QED BY <1>1, CostInit, Invariance, PTL DEF Spec

\* WithinLimit, for any number of requests, keys, plans and purchases: what posts take of a month's
\* allowance is within that of a plan the owner has held.
THEOREM PostsWithinLimit == Spec => []WithinLimit
<1>1. CostInv => WithinLimit
  <2>. SUFFICES ASSUME CostInv, NEW m \in Months
                PROVE  IncludedUnits({p \in PostIds : post[p].createdIn = m /\ post[p].checkedFor = m})
                         <= MostIncluded
    BY DEF WithinLimit
  <2>1. IncludedUnits(CountIn(m)) <= MostIncluded
    BY IncludedIs DEF CostInv, Within
  <2>. QED BY <2>1 DEF CountIn
<1>. QED BY <1>1, Costs, PTL

-------------------------------------------------------------------------------
(***************************************************************************)
(* AiUsage: the inductive invariant, and the steps that keep it.           *)
(***************************************************************************)
-----------------------------------------------------------------------------
\* The instance has its own copies of the library's operators.
LEMMA FewRequests == IsFiniteSet(UsageRequests)
  BY UsageAssumption DEF Usage!AiUsageAssumption, Usage!IsFiniteSet, IsFiniteSet

LEMMA SameSum == ASSUME NEW f, NEW S PROVE Usage!SumFunctionOnSet(f, S) = SumFunctionOnSet(f, S)
  BY DEF Usage!SumFunctionOnSet, SumFunctionOnSet, Usage!FoldFunctionOnSet, FoldFunctionOnSet,
     Usage!MapThenFoldSet, MapThenFoldSet

Most == Usage!Max({MaxUnits, MaxMinutes})
Unreserved == {"none", "early", "admit", "ensure", "reserve"}

\* The tables hold what the handler has a record of, until it has given it back; what is not yet
\* reserved, or is not a caption, holds nothing; what a refused request holds is of a failed refund; and an
\* answer has told what is held, or nothing.
Tells(told, charged, unrefunded) ==
    \/ told = charged
    \/ told = Usage!Silent /\ (charged = 0 \/ unrefunded)
Holds(q, rows, n) ==
    /\ q.pc # "end" => rows = (IF q.released THEN Usage!NoRows ELSE q.held) /\ n = 0
    /\ q.pc \in Unreserved => q.held = Usage!NoRows
    /\ q.pc \in Unreserved \cup {"work", "refund", "media"} => ~q.released
    /\ q.kind = "edit" => /\ q.held = Usage!NoRows /\ ~q.released
                          /\ q.pc \in {"early", "work", "reserve", "end"}
    /\ q.pc = "refused" => Usage!Size(rows) = 0 \/ q.unrefunded
    /\ q.pc = "end" /\ q.answer # "none" => Tells(q.told, Usage!Size(rows) + n, q.unrefunded)

\* Units are channels of a caption or minutes of an edit; a reservation is of no more; a place is held
\* in the provider part only.
Fit(q) ==
    /\ q.kind # "edit" => q.units <= MaxUnits
    /\ q.kind = "edit" => q.units <= MaxMinutes
    /\ Usage!Size(q.held) <= MaxUnits
    /\ q.place => q.pc \notin {"none", "early", "admit", "final", "end"}

Right(q, rows, n) ==
    q \in Usage!Request /\ rows \in Usage!Rows /\ n \in 0..MaxMinutes /\ Fit(q) /\ Holds(q, rows, n)

UsageInv ==
    /\ usage \in [UsageRequests -> Usage!Rows] /\ minutes \in [UsageRequests -> 0..MaxMinutes]
    /\ req \in [UsageRequests -> Usage!Request]
    /\ \A r \in UsageRequests : Right(req[r], usage[r], minutes[r])
    /\ places \in 0..Places /\ places = Cardinality({r \in UsageRequests : req[r].place})
    /\ ledger \in {"none", "granted", "revoked"} /\ path \in Paths
    /\ exits \in 0..MaxExits /\ lost \in 0..MaxLostWrites

One(q) == IF q.place THEN 1 ELSE 0
Surroundings ==
    /\ ledger' \in {"none", "granted", "revoked"} /\ path' \in Paths
    /\ exits' \in 0..MaxExits /\ lost' \in 0..MaxLostWrites

\* One request moves, with what the tables hold for it.
Moves(r, q, rows, n) ==
    /\ req' = [req EXCEPT ![r] = q] /\ usage' = [usage EXCEPT ![r] = rows]
    /\ minutes' = [minutes EXCEPT ![r] = n]
    /\ places' = places + One(q) - One(req[r])

LEMMA MovesKeeps ==
  ASSUME UsageInv, NEW r \in UsageRequests, NEW q, NEW rows, NEW n, Right(q, rows, n),
         Moves(r, q, rows, n), places' <= Places, Surroundings
  PROVE  UsageInv'
<1>1. q \in Usage!Request /\ rows \in Usage!Rows /\ n \in 0..MaxMinutes
  BY DEF Right
<1>2. /\ usage' \in [UsageRequests -> Usage!Rows] /\ minutes' \in [UsageRequests -> 0..MaxMinutes]
      /\ req' \in [UsageRequests -> Usage!Request]
  BY <1>1 DEF UsageInv, Moves
<1>3. /\ req'[r] = q /\ usage'[r] = rows /\ minutes'[r] = n
      /\ \A s \in UsageRequests \ {r} : req'[s] = req[s] /\ usage'[s] = usage[s] /\ minutes'[s] = minutes[s]
  BY DEF UsageInv, Moves
<1>4. \A s \in UsageRequests : Right(req'[s], usage'[s], minutes'[s])
  BY <1>3 DEF UsageInv
<1>. DEFINE H == {s \in UsageRequests : req[s].place}
            K == {s \in UsageRequests : req'[s].place}
<1>5. IsFiniteSet(H) /\ places = Cardinality(H) /\ places \in Nat
  <2>1. IsFiniteSet(UsageRequests)
    BY FewRequests
  <2>2. H \subseteq UsageRequests
    OBVIOUS
  <2>. HIDE DEF H
  <2>3. IsFiniteSet(H)
    BY <2>1, <2>2, FS_Subset
  <2>. QED BY <2>3 DEF UsageInv, H
<1>6. q.place \in BOOLEAN /\ req[r].place \in BOOLEAN
  BY <1>1 DEF UsageInv, Usage!Request
<1>7. K = IF q.place THEN H \cup {r} ELSE H \ {r}
  BY <1>3
<1>8. r \in H <=> req[r].place
  OBVIOUS
<1>. HIDE DEF H, K
<1>9. Cardinality(K) = places + One(q) - One(req[r])
  <2>1. CASE q.place /\ req[r].place
    <3>1. K = H
      BY <1>7, <1>8, <2>1
    <3>. QED BY <1>5, <2>1, <3>1 DEF One
  <2>2. CASE q.place /\ ~req[r].place
    <3>1. Cardinality(K) = Cardinality(H) + 1
      BY <1>5, <1>7, <1>8, <2>2, FS_AddElement
    <3>. QED BY <1>5, <2>2, <3>1 DEF One
  <2>3. CASE ~q.place /\ req[r].place
    <3>1. Cardinality(K) = Cardinality(H) - 1
      BY <1>5, <1>7, <1>8, <2>3, FS_RemoveElement
    <3>. QED BY <1>5, <2>3, <3>1 DEF One
  <2>4. CASE ~q.place /\ ~req[r].place
    <3>1. K = H
      BY <1>7, <1>8, <2>4
    <3>. QED BY <1>5, <2>4, <3>1 DEF One
  <2>. QED BY <1>6, <2>1, <2>2, <2>3, <2>4
<1>10. places' = Cardinality(K)
  BY <1>9 DEF Moves
<1>11. places' \in Nat
  <2>1. IsFiniteSet(K)
    BY <1>5, <1>7, FS_AddElement, FS_RemoveElement
  <2>. QED BY <1>10, <2>1, FS_CardinalityType
<1>12. Places \in Nat
  BY UsageAssumption DEF Usage!AiUsageAssumption
<1>13. places' \in 0..Places
  BY <1>11, <1>12
<1>14. places' = Cardinality({s \in UsageRequests : req'[s].place})
  BY <1>10 DEF K
<1>. QED BY <1>2, <1>4, <1>13, <1>14 DEF UsageInv, Surroundings

-----------------------------------------------------------------------------
LEMMA MostIs == Most \in Nat /\ MaxUnits \in Nat /\ MaxMinutes \in Nat /\ MaxUnits <= Most /\ MaxMinutes <= Most
                /\ MaxUnits >= 1
<1>1. MaxUnits \in Nat /\ MaxMinutes \in Nat /\ MaxUnits >= 1
  BY UsageAssumption DEF Usage!AiUsageAssumption
<1>2. Most = CHOOSE x \in {MaxUnits, MaxMinutes} : \A y \in {MaxUnits, MaxMinutes} : x >= y
  BY DEF Most, Usage!Max
<1>3. \E x \in {MaxUnits, MaxMinutes} : \A y \in {MaxUnits, MaxMinutes} : x >= y
  BY <1>1
<1>4. Most \in {MaxUnits, MaxMinutes} /\ \A y \in {MaxUnits, MaxMinutes} : Most >= y
  BY <1>2, <1>3
<1>. QED BY <1>1, <1>4

LEMMA NoRowsIs == Usage!NoRows \in Usage!Rows /\ Usage!Size(Usage!NoRows) = 0
  BY MostIs DEF Usage!NoRows, Usage!Rows, Usage!Size

LEMMA SizeType == ASSUME NEW rows \in Usage!Rows PROVE Usage!Size(rows) \in Nat
  BY MostIs DEF Usage!Rows, Usage!Size

\* What the tables hold in sum are numbers.
LEMMA SumsAre == ASSUME UsageInv
    PROVE  /\ Usage!UsedThisMonth \in Int /\ Usage!UsedAddon \in Int /\ Usage!UsedMinutes \in Int
           /\ Usage!Grants \in Nat
<1>1. IsFiniteSet(UsageRequests) /\ Bought \in Nat
  BY FewRequests, UsageAssumption DEF Usage!AiUsageAssumption
<1>2. /\ [r \in UsageRequests |-> usage[r].monthly] \in [UsageRequests -> Int]
      /\ [r \in UsageRequests |-> usage[r].addon] \in [UsageRequests -> Int]
      /\ minutes \in [UsageRequests -> Int]
  BY MostIs DEF UsageInv, Usage!Rows
<1>3. /\ SumFunctionOnSet([r \in UsageRequests |-> usage[r].monthly], UsageRequests) \in Int
      /\ SumFunctionOnSet([r \in UsageRequests |-> usage[r].addon], UsageRequests) \in Int
      /\ SumFunctionOnSet(minutes, UsageRequests) \in Int
  BY <1>1, <1>2, SumType
<1>4. /\ Usage!UsedThisMonth \in Int /\ Usage!UsedAddon \in Int /\ Usage!UsedMinutes \in Int
  BY <1>3, SameSum DEF Usage!UsedThisMonth, Usage!UsedAddon, Usage!UsedMinutes
<1>. QED BY <1>1, <1>4 DEF Usage!Grants

LEMMA RequestIs == ASSUME UsageInv, NEW r \in UsageRequests
    PROVE  /\ req[r] \in Usage!Request /\ Right(req[r], usage[r], minutes[r])
           /\ usage[r] \in Usage!Rows /\ minutes[r] \in 0..MaxMinutes
           /\ usage = [usage EXCEPT ![r] = usage[r]] /\ minutes = [minutes EXCEPT ![r] = minutes[r]]
           /\ places \in Nat /\ Places \in Nat /\ places <= Places
<1>1. Places \in Nat
  BY UsageAssumption DEF Usage!AiUsageAssumption
<1>. QED BY <1>1 DEF UsageInv

\* A step that leaves the tables alone.
LEMMA AloneKeeps ==
  ASSUME UsageInv, NEW r \in UsageRequests, NEW q, Usage!Becomes(r, q), UNCHANGED <<usage, minutes>>,
         Right(q, usage[r], minutes[r]), places' = places + One(q) - One(req[r]), places' <= Places, Surroundings
  PROVE  UsageInv'
<1>1. Moves(r, q, usage[r], minutes[r])
  BY RequestIs DEF Moves, Usage!Becomes
<1>. QED BY <1>1, MovesKeeps

\* What the tables hold for one request changes.
Tables(r, rows, n) == usage' = [usage EXCEPT ![r] = rows] /\ minutes' = [minutes EXCEPT ![r] = n]

\* A request that has not started, as it is in the model.
LEMMA NotStartedIs ==
    /\ Usage!NotStarted \in Usage!Request /\ Usage!NotStarted.pc = "none" /\ Usage!NotStarted.answer = "none"
    /\ Usage!NotStarted.held = Usage!NoRows /\ Usage!NotStarted.released = FALSE
    /\ Usage!NotStarted.place = FALSE /\ Usage!NotStarted.kind = "keyword" /\ Usage!NotStarted.units = 1
<1>1. 1 \in 1..Most /\ Most \in Nat
  BY MostIs, UsageAssumption DEF Usage!AiUsageAssumption
<1>. QED BY <1>1, NoRowsIs DEF Usage!NotStarted, Usage!Request, Most

\* The last step of a request: the answer is right about what is held.
LEMMA EndKeeps ==
  ASSUME UsageInv, NEW r \in UsageRequests, NEW q \in Usage!Request, q.place = req[r].place,
         NEW a \in {"ok", "error"}, NEW t \in 0..Most \cup {Usage!Silent}, Usage!End(r, q, a, t),
         NEW rows \in Usage!Rows, NEW n \in 0..MaxMinutes, Tells(t, Usage!Size(rows) + n, q.unrefunded),
         Tables(r, rows, n), Surroundings
  PROVE  UsageInv'
<1>1. PICK p, e : p = Usage!NotStarted /\ e = [p EXCEPT !.pc = "end", !.answer = a, !.told = t,
                                                         !.unrefunded = q.unrefunded]
  OBVIOUS
<1>2. /\ e \in Usage!Request /\ e.pc = "end" /\ e.answer = a /\ e.told = t /\ ~e.place
      /\ e.kind = "keyword" /\ e.units = 1 /\ e.held = Usage!NoRows /\ ~e.released
      /\ e.unrefunded = q.unrefunded
  BY <1>1, NotStartedIs DEF Usage!Request, Most
<1>3. req' = [req EXCEPT ![r] = e] /\ Usage!FreePlace(r)
  BY <1>1 DEF Usage!End, Usage!Becomes
<1>. HIDE <1>1
<1>4. Right(e, rows, n)
  BY <1>2, MostIs, NoRowsIs DEF Right, Fit, Holds, Unreserved
<1>5. places' = places + One(e) - One(req[r]) /\ places' <= Places
  BY <1>2, <1>3, RequestIs DEF One, Usage!FreePlace
<1>6. Moves(r, e, rows, n)
  BY <1>3, <1>5 DEF Moves, Tables
<1>. QED BY <1>4, <1>5, <1>6, MovesKeeps

\* A deadline ends the provider part; the reservation is kept for handleInterruption.
LEMMA InterruptedKeeps ==
  ASSUME UsageInv, NEW r \in UsageRequests, Usage!Interrupted(r), UNCHANGED <<usage, minutes>>, Surroundings,
         req[r].kind # "edit", req[r].pc # "end"
  PROVE  UsageInv'
<1>0. req[r] \in Usage!Request /\ Right(req[r], usage[r], minutes[r])
  BY RequestIs
<1>1. PICK q : q = (IF req[r].caught THEN Usage!Leave([req[r] EXCEPT !.pc = "interrupted"])
                    ELSE [req[r] EXCEPT !.pc = "interrupted"])
  OBVIOUS
<1>2. /\ q \in Usage!Request /\ q.pc = "interrupted" /\ q.kind = req[r].kind /\ q.units = req[r].units
      /\ q.held = req[r].held /\ q.released = req[r].released
      /\ q.place = (IF req[r].caught THEN FALSE ELSE req[r].place)
  BY <1>0, <1>1 DEF Usage!Leave, Usage!Request
<1>3. Usage!Becomes(r, q) /\ places' = IF req[r].caught THEN (IF req[r].place THEN places - 1 ELSE places) ELSE places
  BY <1>0, <1>1 DEF Usage!Interrupted, Usage!FreePlace, Usage!Request
<1>. HIDE <1>1
<1>4. Right(q, usage[r], minutes[r])
  BY <1>0, <1>2 DEF Right, Fit, Holds, Unreserved
<1>5. places' = places + One(q) - One(req[r]) /\ places' <= Places
  BY <1>2, <1>3, RequestIs DEF One
<1>. QED BY <1>3, <1>4, <1>5, AloneKeeps

\* What an answer calls charged is what the tables hold, if they hold what the handler has a record of.
LEMMA ToldIs ==
  ASSUME NEW q \in Usage!Request, Fit(q), NEW rows \in Usage!Rows,
         rows = IF q.released THEN Usage!NoRows ELSE q.held
  PROVE  /\ Usage!ToldCharge(q) \in 0..Most
         /\ Usage!ToldCharge(q) = Usage!Size(rows) + 0
<1>1. q.held \in Usage!Rows
  BY DEF Usage!Request
<1>2. Usage!Size(rows) \in Nat
  BY SizeType
<1>. QED BY <1>1, <1>2, MostIs, NoRowsIs, SizeType DEF Usage!ToldCharge, Fit

\* Of two numbers.
LEMMA LeastIs == ASSUME NEW a \in Int, NEW b \in Int
    PROVE  Usage!Min({a, b}) = IF a <= b THEN a ELSE b
<1>1. Usage!Min({a, b}) = CHOOSE x \in {a, b} : \A y \in {a, b} : x <= y
  BY DEF Usage!Min
<1>2. \E x \in {a, b} : \A y \in {a, b} : x <= y
  OBVIOUS
<1>3. Usage!Min({a, b}) \in {a, b} /\ \A y \in {a, b} : Usage!Min({a, b}) <= y
  BY <1>1, <1>2
<1>. QED BY <1>3

LEMMA LargestIs == ASSUME NEW a \in Int, NEW b \in Int
    PROVE  Usage!Max({a, b}) = IF a >= b THEN a ELSE b
<1>1. Usage!Max({a, b}) = CHOOSE x \in {a, b} : \A y \in {a, b} : x >= y
  BY DEF Usage!Max
<1>2. \E x \in {a, b} : \A y \in {a, b} : x >= y
  OBVIOUS
<1>3. Usage!Max({a, b}) \in {a, b} /\ \A y \in {a, b} : Usage!Max({a, b}) >= y
  BY <1>1, <1>2
<1>. QED BY <1>3

\* reserveWithClient: the two parts are the units asked for, and the first is within what is left.
LEMMA SplitIs == ASSUME UsageInv, NEW n \in 1..MaxUnits
    PROVE  LET rows == Usage!Split(n)
           IN  /\ rows \in Usage!Rows /\ Usage!Size(rows) = n
               /\ rows.monthly > 0 => Usage!UsedThisMonth + rows.monthly <= Limit
<1>1. Usage!UsedThisMonth \in Int /\ Limit \in Nat /\ MaxUnits \in Nat
  BY SumsAre, UsageAssumption DEF Usage!AiUsageAssumption
<1>2. PICK left \in Int : left = Limit - Usage!UsedThisMonth
  BY <1>1
<1>3. Usage!Max({0, left}) = IF 0 >= left THEN 0 ELSE left
  BY LargestIs
<1>4. PICK most \in Nat : most = Usage!Max({0, left}) /\ most = IF 0 >= left THEN 0 ELSE left
  BY <1>3
<1>5. Usage!Min({n, most}) = IF n <= most THEN n ELSE most
  BY LeastIs
<1>6. PICK monthly \in 0..n : monthly = Usage!Min({n, most}) /\ monthly <= most
  BY <1>5
<1>7. Usage!Split(n) = [monthly |-> monthly, addon |-> n - monthly]
  BY <1>2, <1>4, <1>6 DEF Usage!Split
<1>8. [monthly |-> monthly, addon |-> n - monthly] \in Usage!Rows
  BY <1>1 DEF Usage!Rows
<1>9. monthly > 0 => Usage!UsedThisMonth + monthly <= Limit
  BY <1>1, <1>2, <1>4, <1>6
<1>. QED BY <1>7, <1>8, <1>9 DEF Usage!Size

\* One lemma for the steps that keep a request's rows, its reservation and its place.
LEMMA GoesKeeps ==
  ASSUME UsageInv, NEW r \in UsageRequests, NEW q \in Usage!Request, Usage!Becomes(r, q),
         UNCHANGED <<usage, minutes, places>>, Surroundings,
         q.place = req[r].place, Right(q, usage[r], minutes[r])
  PROVE  UsageInv'
<1>1. places' = places + One(q) - One(req[r]) /\ places' <= Places
  BY RequestIs DEF One
<1>. QED BY <1>1, AloneKeeps

\* q is the request as it was, but for where it is.
Alike(q, p) ==
    /\ q \in Usage!Request /\ q.kind = p.kind /\ q.units = p.units
    /\ q.held = p.held /\ q.released = p.released /\ q.unrefunded = p.unrefunded

LEMMA BeginKeeps ==
  ASSUME UsageInv, NEW r \in UsageRequests, NEW kind \in Kinds, NEW n \in 1..Most, Usage!Begin(r, kind, n)
  PROVE  UsageInv'
<1>0. Right(req[r], usage[r], minutes[r]) /\ req[r].pc = "none" /\ req[r] \in Usage!Request
  BY RequestIs DEF Usage!Begin, Usage!At
<1>1. kind \in {"keyword", "clip", "edit"}
  BY UsageAssumption DEF Usage!AiUsageAssumption
<1>2. PICK p : p = Usage!NotStarted
  OBVIOUS
<1>3. p \in Usage!Request /\ p.held = Usage!NoRows /\ p.released = FALSE /\ p.place = FALSE
  BY <1>2, NotStartedIs
<1>. DEFINE first == IF kind = "keyword" THEN "reserve" ELSE "early"
<1>a. PICK q : q = [p EXCEPT !.pc = first, !.kind = kind, !.units = n]
  OBVIOUS
<1>4. /\ q \in Usage!Request /\ q.pc = (IF kind = "keyword" THEN "reserve" ELSE "early") /\ q.kind = kind
      /\ q.units = n /\ q.held = Usage!NoRows /\ ~q.released /\ q.place = FALSE
  BY <1>1, <1>3, <1>a DEF Usage!Request, Most
<1>5. Usage!Becomes(r, q) /\ UNCHANGED <<usage, minutes, ledger, path, places, exits, lost>>
  BY <1>2, <1>a DEF Usage!Begin
<1>. HIDE <1>2, <1>a
<1>6. n <= MaxUnits \/ kind = "edit"
  BY <1>1, UsageAssumption DEF Usage!Begin, Usage!AiUsageAssumption
<1>7. Fit(q)
  BY <1>4, <1>6, NoRowsIs, MostIs DEF Fit, Usage!Begin
<1>8. req[r].place = FALSE
  BY <1>0 DEF Right, Fit, Usage!Request
<1>9. Right(q, usage[r], minutes[r])
  BY <1>0, <1>1, <1>4, <1>7 DEF Right, Holds, Unreserved
<1>10. Surroundings
  BY <1>5 DEF Surroundings, UsageInv
<1>. QED BY <1>4, <1>5, <1>8, <1>9, <1>10, GoesKeeps

\* What surrounds the requests stays as it is.
LEMMA StaysAround == ASSUME UsageInv, UNCHANGED <<ledger, path, exits, lost>> PROVE Surroundings
  BY DEF Surroundings, UsageInv

LEMMA FaultIs == ASSUME UsageInv, UNCHANGED <<ledger, path, exits>>, Usage!Fault PROVE Surroundings
<1>1. MaxLostWrites \in Nat
  BY UsageAssumption DEF Usage!AiUsageAssumption
<1>. QED BY <1>1 DEF Surroundings, UsageInv, Usage!Fault

\* Some requests end as they are, without having taken anything.
LEMMA EndsFree ==
  ASSUME UsageInv, NEW r \in UsageRequests, NEW a \in {"ok", "error"}, NEW t \in {0, Usage!Silent},
         Usage!End(r, req[r], a, t), UNCHANGED <<usage, minutes>>, Surroundings,
         req[r].pc # "end", req[r].held = Usage!NoRows, ~req[r].released
  PROVE  UsageInv'
<1>1. /\ req[r] \in Usage!Request /\ usage[r] = Usage!NoRows /\ minutes[r] = 0
      /\ Tables(r, Usage!NoRows, 0)
  BY RequestIs DEF Right, Holds, Tables
<1>2. /\ t \in 0..Most \cup {Usage!Silent} /\ 0 \in 0..MaxMinutes /\ Usage!NoRows \in Usage!Rows
      /\ Usage!Size(Usage!NoRows) + 0 = 0
  BY MostIs, NoRowsIs
<1>3. Tells(t, Usage!Size(Usage!NoRows) + 0, req[r].unrefunded)
  BY <1>2 DEF Tells
<1>. QED BY <1>1, <1>2, <1>3, EndKeeps

\* An error that says nothing of the charge.
LEMMA RefusedFree ==
  ASSUME UsageInv, NEW r \in UsageRequests, Usage!Refused(r), UNCHANGED <<usage, minutes>>, Surroundings,
         req[r].pc # "end", req[r].held = Usage!NoRows, ~req[r].released
  PROVE  UsageInv'
  BY EndsFree DEF Usage!Refused

\* A request that holds nothing is refused once its media are cleaned up.
LEMMA ToRefusedKeeps ==
  ASSUME UsageInv, NEW r \in UsageRequests, NEW q \in Usage!Request, Alike(q, req[r]), q.pc = "refused",
         q.place = req[r].place, Usage!Becomes(r, q), UNCHANGED <<usage, minutes, places>>, Surroundings,
         req[r].pc # "end", req[r].kind # "edit", req[r].held = Usage!NoRows, ~req[r].released
  PROVE  UsageInv'
<1>1. Right(req[r], usage[r], minutes[r]) /\ usage[r] = Usage!NoRows
  BY RequestIs DEF Right, Holds
<1>2. Usage!Size(usage[r]) = 0
  BY <1>1, NoRowsIs
<1>3. Right(q, usage[r], minutes[r])
  BY <1>1, <1>2 DEF Alike, Right, Fit, Holds, Unreserved
<1>. QED BY <1>3, GoesKeeps

LEMMA EarlyReadKeeps == ASSUME UsageInv, NEW r \in UsageRequests, Usage!EarlyRead(r) PROVE UsageInv'
<1>0. Right(req[r], usage[r], minutes[r]) /\ req[r].pc = "early" /\ req[r] \in Usage!Request
  BY RequestIs DEF Usage!EarlyRead, Usage!At
<1>1. UNCHANGED <<usage, minutes, ledger, path, exits, lost>> /\ Surroundings
  BY StaysAround DEF Usage!EarlyRead
<1>2. req[r].held = Usage!NoRows /\ ~req[r].released
  BY <1>0 DEF Right, Holds, Unreserved
<1>3. CASE Usage!Refused(r)
  BY <1>0, <1>1, <1>2, <1>3, RefusedFree
<1>4. CASE Usage!Goto(r, IF Usage!IsClip(r) THEN "admit" ELSE "work") /\ places' = places
  <2>. DEFINE next == IF Usage!IsClip(r) THEN "admit" ELSE "work"
  <2>1. PICK q : q = [req[r] EXCEPT !.pc = next]
    OBVIOUS
  <2>2. Alike(q, req[r]) /\ q.pc = next /\ q.place = req[r].place /\ Usage!Becomes(r, q)
    BY <1>0, <1>4, <2>1 DEF Alike, Usage!Request, Usage!Goto
  <2>. HIDE <2>1
  <2>3. Right(q, usage[r], minutes[r])
    BY <1>0, <2>2 DEF Alike, Right, Fit, Holds, Unreserved, Usage!IsClip
  <2>. QED BY <1>1, <1>4, <2>2, <2>3, GoesKeeps DEF Alike
<1>. QED BY <1>3, <1>4 DEF Usage!EarlyRead

LEMMA AdmitKeeps == ASSUME UsageInv, NEW r \in UsageRequests, Usage!Admit(r) PROVE UsageInv'
<1>0. Right(req[r], usage[r], minutes[r]) /\ req[r].pc = "admit" /\ req[r] \in Usage!Request
  BY RequestIs DEF Usage!Admit, Usage!At
<1>1. UNCHANGED <<usage, minutes, ledger, path, exits, lost>> /\ Surroundings
  BY StaysAround DEF Usage!Admit
<1>2. req[r].place = FALSE
  BY <1>0 DEF Right, Fit, Usage!Request
<1>3. CASE Usage!Goto(r, "ensure") /\ places' = places
  <2>1. PICK q : q = [req[r] EXCEPT !.pc = "ensure"]
    OBVIOUS
  <2>2. Alike(q, req[r]) /\ q.pc = "ensure" /\ q.place = req[r].place /\ Usage!Becomes(r, q)
    BY <1>0, <1>3, <2>1 DEF Alike, Usage!Request, Usage!Goto
  <2>. HIDE <2>1
  <2>3. Right(q, usage[r], minutes[r])
    BY <1>0, <2>2 DEF Alike, Right, Fit, Holds, Unreserved
  <2>. QED BY <1>1, <1>3, <2>2, <2>3, GoesKeeps DEF Alike
<1>4. CASE /\ places < Places /\ Usage!Becomes(r, [req[r] EXCEPT !.pc = "ensure", !.place = TRUE])
           /\ places' = places + 1
  <2>1. PICK q : q = [req[r] EXCEPT !.pc = "ensure", !.place = TRUE]
    OBVIOUS
  <2>2. Alike(q, req[r]) /\ q.pc = "ensure" /\ q.place = TRUE /\ Usage!Becomes(r, q)
    BY <1>0, <1>4, <2>1 DEF Alike, Usage!Request
  <2>. HIDE <2>1
  <2>3. Right(q, usage[r], minutes[r])
    BY <1>0, <2>2 DEF Alike, Right, Fit, Holds, Unreserved
  <2>4. places' = places + One(q) - One(req[r]) /\ places' <= Places
    BY <1>2, <1>4, <2>2, RequestIs DEF One
  <2>. QED BY <1>1, <2>2, <2>3, <2>4, AloneKeeps
<1>5. CASE Usage!Goto(r, "refused") /\ places' = places
  <2>1. PICK q : q = [req[r] EXCEPT !.pc = "refused"]
    OBVIOUS
  <2>2. Alike(q, req[r]) /\ q.pc = "refused" /\ q.place = req[r].place /\ Usage!Becomes(r, q)
    BY <1>0, <1>5, <2>1 DEF Alike, Usage!Request, Usage!Goto
  <2>. HIDE <2>1
  <2>3. req[r].kind # "edit" /\ req[r].held = Usage!NoRows /\ ~req[r].released
    BY <1>0 DEF Right, Holds, Unreserved
  <2>. QED BY <1>0, <1>1, <1>5, <2>2, <2>3, ToRefusedKeeps DEF Alike
<1>. QED BY <1>3, <1>4, <1>5 DEF Usage!Admit

LEMMA EnsureUserKeeps == ASSUME UsageInv, NEW r \in UsageRequests, Usage!EnsureUser(r) PROVE UsageInv'
<1>0. Right(req[r], usage[r], minutes[r]) /\ req[r].pc = "ensure" /\ req[r] \in Usage!Request
  BY RequestIs DEF Usage!EnsureUser, Usage!At
<1>1. UNCHANGED <<usage, minutes, ledger, path, exits, lost>> /\ Surroundings
  BY StaysAround DEF Usage!EnsureUser
<1>2. req[r].kind # "edit" /\ req[r].pc # "end"
  BY <1>0 DEF Right, Holds
<1>3. CASE Usage!Interrupted(r)
  BY <1>1, <1>2, <1>3, InterruptedKeeps
<1>4. CASE Usage!Goto(r, "reserve") /\ places' = places
  <2>1. PICK q : q = [req[r] EXCEPT !.pc = "reserve"]
    OBVIOUS
  <2>2. Alike(q, req[r]) /\ q.pc = "reserve" /\ q.place = req[r].place /\ Usage!Becomes(r, q)
    BY <1>0, <1>4, <2>1 DEF Alike, Usage!Request, Usage!Goto
  <2>. HIDE <2>1
  <2>3. Right(q, usage[r], minutes[r])
    BY <1>0, <2>2 DEF Alike, Right, Fit, Holds, Unreserved
  <2>. QED BY <1>1, <1>4, <2>2, <2>3, GoesKeeps DEF Alike
<1>. QED BY <1>3, <1>4 DEF Usage!EnsureUser

\* What is reserved is what the split gives, and the handler has a record of it, whenever it is cut.
LEMMA ReserveKeeps == ASSUME UsageInv, NEW r \in UsageRequests, Usage!Reserve(r) PROVE UsageInv'
<1>0. /\ Right(req[r], usage[r], minutes[r]) /\ req[r].pc = "reserve" /\ req[r] \in Usage!Request
      /\ req[r].kind # "edit" /\ minutes[r] \in 0..MaxMinutes
  BY RequestIs DEF Usage!Reserve, Usage!At
<1>1. UNCHANGED <<minutes, ledger, path, exits, lost>> /\ Surroundings
  BY StaysAround DEF Usage!Reserve
<1>2. req[r].held = Usage!NoRows /\ ~req[r].released /\ minutes[r] = 0
  BY <1>0 DEF Right, Holds, Unreserved
<1>3. CASE Usage!Covered(req[r].units)
  <2>1. req[r].units \in 1..MaxUnits
    BY <1>0, MostIs DEF Right, Fit, Usage!Request
  <2>2. PICK rows \in Usage!Rows : rows = Usage!Split(req[r].units) /\ Usage!Size(rows) = req[r].units
    BY <2>1, SplitIs
  <2>. DEFINE next == IF Usage!Cut(r) THEN "interrupted" ELSE IF req[r].caught THEN "refund" ELSE "work"
  <2>3. PICK q : q = [req[r] EXCEPT !.held = rows, !.pc = next]
    OBVIOUS
  <2>4. /\ q \in Usage!Request /\ q.pc = next /\ q.held = rows /\ q.kind = req[r].kind
        /\ q.units = req[r].units /\ q.released = req[r].released /\ q.place = req[r].place
    BY <1>0, <2>3 DEF Usage!Request
  <2>5. Usage!Becomes(r, q) /\ usage' = [usage EXCEPT ![r] = rows] /\ places' = places
    BY <1>3, <2>2, <2>3 DEF Usage!Reserve, Usage!Held
  <2>. HIDE <2>3
  <2>6. Right(q, rows, minutes[r])
    BY <1>0, <1>2, <2>1, <2>2, <2>4 DEF Right, Fit, Holds, Unreserved
  <2>7. Moves(r, q, rows, minutes[r])
    BY <1>1, <2>4, <2>5, RequestIs DEF Moves, One, Usage!Becomes
  <2>8. places' <= Places
    BY <2>5, RequestIs
  <2>. QED BY <1>1, <2>6, <2>7, <2>8, MovesKeeps
<1>4. CASE ~Usage!Covered(req[r].units)
  <2>1. usage' = usage
    BY <1>4 DEF Usage!Reserve
  <2>2. CASE Usage!Refused(r)
    BY <1>0, <1>1, <1>2, <2>1, <2>2, RefusedFree
  <2>3. CASE Usage!Interrupted(r)
    BY <1>0, <1>1, <2>1, <2>3, InterruptedKeeps
  <2>4. CASE Usage!Goto(r, "refused") /\ places' = places
    <3>1. PICK q : q = [req[r] EXCEPT !.pc = "refused"]
      OBVIOUS
    <3>2. Alike(q, req[r]) /\ q.pc = "refused" /\ q.place = req[r].place /\ Usage!Becomes(r, q)
      BY <1>0, <2>4, <3>1 DEF Alike, Usage!Request, Usage!Goto
    <3>. HIDE <3>1
    <3>. QED BY <1>0, <1>1, <1>2, <2>1, <2>4, <3>2, ToRefusedKeeps DEF Alike
  <2>. QED BY <1>4, <2>2, <2>3, <2>4 DEF Usage!Reserve
<1>. QED BY <1>3, <1>4

LEMMA ReserveFailsKeeps == ASSUME UsageInv, NEW r \in UsageRequests, Usage!ReserveFails(r) PROVE UsageInv'
<1>0. /\ Right(req[r], usage[r], minutes[r]) /\ req[r].pc \in {"ensure", "reserve"} /\ req[r] \in Usage!Request
      /\ req[r].kind # "edit"
  BY RequestIs DEF Usage!ReserveFails
<1>1. UNCHANGED <<usage, minutes, ledger, path, exits>> /\ Surroundings
  BY FaultIs DEF Usage!ReserveFails
<1>2. req[r].held = Usage!NoRows /\ ~req[r].released
  BY <1>0 DEF Right, Holds, Unreserved
<1>3. CASE Usage!Becomes(r, [req[r] EXCEPT !.pc = "ensure", !.caught = TRUE]) /\ places' = places
  <2>1. PICK q : q = [req[r] EXCEPT !.pc = "ensure", !.caught = TRUE]
    OBVIOUS
  <2>2. Alike(q, req[r]) /\ q.pc = "ensure" /\ q.place = req[r].place /\ Usage!Becomes(r, q)
    BY <1>0, <1>3, <2>1 DEF Alike, Usage!Request
  <2>. HIDE <2>1
  <2>3. Right(q, usage[r], minutes[r])
    BY <1>0, <2>2 DEF Alike, Right, Fit, Holds, Unreserved
  <2>. QED BY <1>1, <1>3, <2>2, <2>3, GoesKeeps DEF Alike
<1>4. CASE Usage!Becomes(r, [req[r] EXCEPT !.pc = "refused", !.caught = TRUE]) /\ places' = places
  <2>1. PICK q : q = [req[r] EXCEPT !.pc = "refused", !.caught = TRUE]
    OBVIOUS
  <2>2. Alike(q, req[r]) /\ q.pc = "refused" /\ q.place = req[r].place /\ Usage!Becomes(r, q)
    BY <1>0, <1>4, <2>1 DEF Alike, Usage!Request
  <2>. HIDE <2>1
  <2>. QED BY <1>0, <1>1, <1>2, <1>4, <2>2, ToRefusedKeeps DEF Alike
<1>5. CASE Usage!Refused(r)
  BY <1>0, <1>1, <1>2, <1>5, RefusedFree
<1>. QED BY <1>3, <1>4, <1>5 DEF Usage!ReserveFails

LEMMA WorksKeeps == ASSUME UsageInv, NEW r \in UsageRequests, Usage!Works(r) PROVE UsageInv'
<1>0. /\ Right(req[r], usage[r], minutes[r]) /\ req[r].pc = "work" /\ req[r] \in Usage!Request
      /\ req[r].kind # "edit"
  BY RequestIs DEF Usage!Works, Usage!At
<1>1. UNCHANGED <<usage, minutes, ledger, path, exits, lost>> /\ Surroundings /\ Usage!FreePlace(r)
  BY StaysAround DEF Usage!Works
<1>2. PICK q : /\ Usage!Becomes(r, q)
               /\ \/ q = [Usage!Leave(req[r]) EXCEPT !.pc = "refund", !.caught = TRUE]
                  \/ q = [Usage!Leave(req[r]) EXCEPT !.pc = "final"]
  BY DEF Usage!Works
<1>3. Alike(q, req[r]) /\ q.pc \in {"refund", "final"} /\ q.place = FALSE
  BY <1>0, <1>2 DEF Alike, Usage!Leave, Usage!Request
<1>4. Right(q, usage[r], minutes[r])
  BY <1>0, <1>3 DEF Alike, Right, Fit, Holds, Unreserved
<1>5. places' = places + One(q) - One(req[r]) /\ places' <= Places
  BY <1>1, <1>3, RequestIs DEF One, Usage!FreePlace
<1>. QED BY <1>1, <1>2, <1>4, <1>5, AloneKeeps

\* The provider or the media fail; the transcript of an edit comes.
LEMMA FailsKeeps ==
  ASSUME UsageInv, NEW r \in UsageRequests, Usage!Fails(r) \/ Usage!MediaFails(r)
  PROVE  UsageInv'
<1>0. /\ Right(req[r], usage[r], minutes[r]) /\ req[r].pc = "work" /\ req[r] \in Usage!Request
      /\ req[r].kind # "edit"
  BY RequestIs DEF Usage!Fails, Usage!MediaFails, Usage!At, Usage!IsClip
<1>1. UNCHANGED <<usage, minutes, ledger, path, places, exits, lost>> /\ Surroundings
  BY StaysAround DEF Usage!Fails, Usage!MediaFails
<1>2. PICK next \in {"media", "refund"} : Usage!Becomes(r, [req[r] EXCEPT !.pc = next, !.caught = TRUE])
  BY DEF Usage!Fails, Usage!MediaFails
<1>3. PICK q : q = [req[r] EXCEPT !.pc = next, !.caught = TRUE]
  OBVIOUS
<1>4. Alike(q, req[r]) /\ q.pc = next /\ q.place = req[r].place /\ Usage!Becomes(r, q)
  BY <1>0, <1>2, <1>3 DEF Alike, Usage!Request
<1>. HIDE <1>3
<1>5. Right(q, usage[r], minutes[r])
  BY <1>0, <1>4 DEF Alike, Right, Fit, Holds, Unreserved
<1>. QED BY <1>1, <1>4, <1>5, GoesKeeps DEF Alike

LEMMA BreaksOffKeeps == ASSUME UsageInv, NEW r \in UsageRequests, Usage!BreaksOff(r) PROVE UsageInv'
<1>1. req[r].kind # "edit" /\ req[r].pc # "end" /\ Usage!Interrupted(r)
  BY DEF Usage!BreaksOff, Usage!IsClip, Usage!Awaits
<1>2. UNCHANGED <<usage, minutes, ledger, path, exits, lost>> /\ Surroundings
  BY StaysAround DEF Usage!BreaksOff
<1>. QED BY <1>1, <1>2, InterruptedKeeps

\* A refund gives everything back, or nothing, and the handler knows which.
LEMMA RefundIs ==
  ASSUME UsageInv, NEW r \in UsageRequests, req[r].pc # "end", ~req[r].released,
         NEW released \in BOOLEAN, Usage!Refund(r, released), UNCHANGED <<minutes, ledger, path, exits>>
  PROVE  /\ \E rows \in Usage!Rows : /\ Tables(r, rows, 0)
                                     /\ rows = IF released THEN Usage!NoRows ELSE req[r].held
         /\ Surroundings
<1>1. usage[r] = req[r].held /\ minutes[r] = 0 /\ usage[r] \in Usage!Rows
  BY RequestIs DEF Right, Holds
<1>2. PICK rows \in Usage!Rows : rows = IF released THEN Usage!NoRows ELSE req[r].held
  BY <1>1, NoRowsIs
<1>3. usage' = [usage EXCEPT ![r] = rows]
  BY <1>1, <1>2, RequestIs DEF Usage!Refund, Usage!Refunded, Usage!Kept
<1>4. minutes' = [minutes EXCEPT ![r] = 0]
  BY <1>1, RequestIs
<1>5. Surroundings
  BY StaysAround, FaultIs DEF Usage!Refund
<1>. QED BY <1>2, <1>3, <1>4, <1>5 DEF Tables

LEMMA FallbackRefundKeeps == ASSUME UsageInv, NEW r \in UsageRequests, Usage!FallbackRefund(r) PROVE UsageInv'
<1>0. Right(req[r], usage[r], minutes[r]) /\ req[r].pc = "refund" /\ req[r] \in Usage!Request
  BY RequestIs DEF Usage!FallbackRefund, Usage!At
<1>1. UNCHANGED <<minutes, ledger, path, exits>> /\ req[r].kind # "edit" /\ ~req[r].released
  BY <1>0 DEF Usage!FallbackRefund, Right, Holds
<1>2. CASE Usage!Interrupted(r) /\ UNCHANGED <<usage, lost>>
  BY <1>0, <1>1, <1>2, StaysAround, InterruptedKeeps
<1>3. CASE \E released \in BOOLEAN :
             /\ Usage!Becomes(r, [Usage!Leave(Usage!Tried(req[r], released)) EXCEPT !.pc = "final"])
             /\ Usage!FreePlace(r) /\ Usage!Refund(r, released)
  <2>1. PICK released \in BOOLEAN :
             /\ Usage!Becomes(r, [Usage!Leave(Usage!Tried(req[r], released)) EXCEPT !.pc = "final"])
             /\ Usage!FreePlace(r) /\ Usage!Refund(r, released)
    BY <1>3
  <2>2. PICK rows \in Usage!Rows : Tables(r, rows, 0) /\ rows = IF released THEN Usage!NoRows ELSE req[r].held
    BY <1>0, <1>1, <2>1, RefundIs
  <2>3. Surroundings
    BY <1>0, <1>1, <2>1, RefundIs
  <2>4. PICK q : q = [Usage!Leave(Usage!Tried(req[r], released)) EXCEPT !.pc = "final"]
    OBVIOUS
  <2>5. /\ q \in Usage!Request /\ q.pc = "final" /\ q.held = req[r].held /\ q.kind = req[r].kind
        /\ q.units = req[r].units /\ q.released = released /\ q.place = FALSE /\ Usage!Becomes(r, q)
    BY <1>0, <2>1, <2>4 DEF Usage!Request, Usage!Leave, Usage!Tried
  <2>. HIDE <2>4
  <2>6. Right(q, rows, 0)
    BY <1>0, <1>1, <2>2, <2>5, MostIs DEF Right, Fit, Holds, Unreserved
  <2>7. places' = places + One(q) - One(req[r]) /\ places' <= Places
    BY <2>1, <2>5, RequestIs DEF One, Usage!FreePlace
  <2>8. Moves(r, q, rows, 0)
    BY <2>2, <2>5, <2>7 DEF Moves, Tables, Usage!Becomes
  <2>. QED BY <2>3, <2>6, <2>7, <2>8, MovesKeeps
<1>. QED BY <1>2, <1>3 DEF Usage!FallbackRefund

LEMMA FailureRefundKeeps == ASSUME UsageInv, NEW r \in UsageRequests, Usage!FailureRefund(r) PROVE UsageInv'
<1>0. Right(req[r], usage[r], minutes[r]) /\ req[r].pc = "media" /\ req[r] \in Usage!Request
  BY RequestIs DEF Usage!FailureRefund, Usage!At
<1>1. UNCHANGED <<minutes, ledger, path, places, exits>> /\ req[r].kind # "edit" /\ ~req[r].released
  BY <1>0 DEF Usage!FailureRefund, Right, Holds
<1>2. PICK released \in BOOLEAN :
          /\ Usage!Becomes(r, [Usage!Tried(req[r], released) EXCEPT !.pc = "refused"])
          /\ Usage!Refund(r, released)
  BY DEF Usage!FailureRefund
<1>3. PICK rows \in Usage!Rows : Tables(r, rows, 0) /\ rows = IF released THEN Usage!NoRows ELSE req[r].held
  BY <1>0, <1>1, <1>2, RefundIs
<1>4. Surroundings
  BY <1>0, <1>1, <1>2, RefundIs
<1>5. PICK q : q = [Usage!Tried(req[r], released) EXCEPT !.pc = "refused"]
  OBVIOUS
<1>6. /\ q \in Usage!Request /\ q.pc = "refused" /\ q.held = req[r].held /\ q.kind = req[r].kind
      /\ q.units = req[r].units /\ q.released = released /\ q.place = req[r].place /\ Usage!Becomes(r, q)
      /\ q.unrefunded = (~released /\ Usage!Size(req[r].held) > 0)
  BY <1>0, <1>2, <1>5 DEF Usage!Request, Usage!Tried
<1>. HIDE <1>5
<1>a. Usage!Size(rows) = 0 \/ q.unrefunded
  <2>1. CASE released
    BY <1>3, <2>1, NoRowsIs
  <2>2. CASE ~released
    <3>1. rows = req[r].held
      BY <1>3, <2>2
    <3>2. Usage!Size(rows) = 0 \/ Usage!Size(rows) > 0
      BY SizeType
    <3>. QED BY <1>6, <2>2, <3>1, <3>2, Zenon
  <2>. QED BY <2>1, <2>2
<1>7. Right(q, rows, 0)
  BY <1>0, <1>1, <1>3, <1>6, <1>a, MostIs DEF Right, Fit, Holds, Unreserved
<1>8. places' = places + One(q) - One(req[r]) /\ places' <= Places
  BY <1>1, <1>6, RequestIs DEF One
<1>9. Moves(r, q, rows, 0)
  BY <1>3, <1>6, <1>8 DEF Moves, Tables, Usage!Becomes
<1>. QED BY <1>4, <1>7, <1>8, <1>9, MovesKeeps

\* An answer that tells what the record says, or nothing, without touching the tables.
LEMMA ToldKeeps ==
  ASSUME UsageInv, NEW r \in UsageRequests, NEW a \in {"ok", "error"},
         NEW t \in {Usage!ToldCharge(req[r]), Usage!Silent},
         t = Usage!Silent => Usage!Size(usage[r]) = 0 \/ req[r].unrefunded,
         Usage!End(r, req[r], a, t), UNCHANGED <<usage, minutes>>, Surroundings,
         req[r].pc # "end"
  PROVE  UsageInv'
<1>1. /\ req[r] \in Usage!Request /\ Fit(req[r]) /\ minutes[r] = 0 /\ usage[r] \in Usage!Rows
      /\ usage[r] = (IF req[r].released THEN Usage!NoRows ELSE req[r].held)
  BY RequestIs DEF Right, Holds
<1>2. Tables(r, usage[r], 0)
  BY <1>1, RequestIs DEF Tables
<1>3. Usage!ToldCharge(req[r]) \in 0..Most /\ Usage!ToldCharge(req[r]) = Usage!Size(usage[r]) + 0
  BY <1>1, ToldIs
<1>4. Usage!Size(usage[r]) \in Nat
  BY <1>1, SizeType
<1>5. t \in 0..Most \cup {Usage!Silent} /\ 0 \in 0..MaxMinutes
  BY <1>3, MostIs
<1>6. Tells(t, Usage!Size(usage[r]) + 0, req[r].unrefunded)
  BY <1>3, <1>4 DEF Tells
<1>. QED BY <1>1, <1>2, <1>5, <1>6, EndKeeps

LEMMA RefuseKeeps == ASSUME UsageInv, NEW r \in UsageRequests, Usage!Refuse(r) PROVE UsageInv'
<1>0. Right(req[r], usage[r], minutes[r]) /\ req[r].pc = "refused"
  BY RequestIs DEF Usage!Refuse, Usage!At
<1>1. req[r].pc # "end" /\ (Usage!Size(usage[r]) = 0 \/ req[r].unrefunded)
  BY <1>0 DEF Right, Holds
<1>2. UNCHANGED <<usage, minutes, ledger, path, exits, lost>> /\ Surroundings
  BY StaysAround DEF Usage!Refuse
<1>3. Usage!End(r, req[r], "error", Usage!Silent)
  BY DEF Usage!Refuse, Usage!Refused
<1>. QED BY <1>1, <1>2, <1>3, ToldKeeps

LEMMA AnswerCaptionKeeps == ASSUME UsageInv, NEW r \in UsageRequests, Usage!AnswerCaption(r) PROVE UsageInv'
<1>0. req[r] \in Usage!Request /\ Right(req[r], usage[r], minutes[r])
  BY RequestIs
<1>1. req[r].pc # "end" /\ Usage!End(r, req[r], "ok", Usage!ToldCharge(req[r]))
  BY DEF Usage!AnswerCaption, Usage!At
<1>2. UNCHANGED <<usage, minutes, ledger, path, exits, lost>> /\ Surroundings
  BY StaysAround DEF Usage!AnswerCaption
<1>3. /\ Fit(req[r]) /\ usage[r] \in Usage!Rows
      /\ usage[r] = (IF req[r].released THEN Usage!NoRows ELSE req[r].held)
  BY <1>0, <1>1 DEF Right, Holds
<1>4. Usage!ToldCharge(req[r]) \in Nat /\ Usage!ToldCharge(req[r]) # Usage!Silent
  BY <1>0, <1>3, ToldIs, MostIs DEF Usage!Silent
<1>. QED BY <1>1, <1>2, <1>4, ToldKeeps

LEMMA InterruptKeeps == ASSUME UsageInv, NEW r \in UsageRequests, Usage!Interrupt(r) PROVE UsageInv'
<1>0. Right(req[r], usage[r], minutes[r]) /\ req[r].pc = "interrupted" /\ req[r] \in Usage!Request
  BY RequestIs DEF Usage!Interrupt, Usage!At
<1>1. UNCHANGED <<minutes, ledger, path, exits>> /\ req[r].kind # "edit"
  BY <1>0 DEF Usage!Interrupt, Right, Holds
<1>2. CASE req[r].released
  <2>1. UNCHANGED <<usage, lost>>
    BY <1>2 DEF Usage!Interrupt
  <2>2. PICK t \in {Usage!ToldCharge(req[r]), Usage!Silent} : Usage!End(r, req[r], "error", t)
    BY <1>2 DEF Usage!Interrupt, Usage!EndsInterrupted
  <2>3. Usage!Size(usage[r]) = 0
    BY <1>0, <1>2, NoRowsIs DEF Right, Holds
  <2>. QED BY <1>0, <1>1, <2>1, <2>2, <2>3, StaysAround, ToldKeeps
<1>3. CASE ~req[r].released
  <2>1. PICK released \in BOOLEAN :
          Usage!EndsInterrupted(r, Usage!Tried(req[r], released)) /\ Usage!Refund(r, released)
    BY <1>3 DEF Usage!Interrupt
  <2>2. PICK rows \in Usage!Rows : Tables(r, rows, 0) /\ rows = IF released THEN Usage!NoRows ELSE req[r].held
    BY <1>0, <1>1, <1>3, <2>1, RefundIs
  <2>3. Surroundings
    BY <1>0, <1>1, <1>3, <2>1, RefundIs
  <2>4. PICK q : q = Usage!Tried(req[r], released)
    OBVIOUS
  <2>5. /\ q \in Usage!Request /\ q.released = released /\ q.place = req[r].place
        /\ q.kind = req[r].kind /\ q.units = req[r].units /\ q.held = req[r].held /\ q.pc = req[r].pc
        /\ q.unrefunded = (~released /\ Usage!Size(req[r].held) > 0)
    BY <1>0, <2>4 DEF Usage!Request, Usage!Tried
  <2>6. PICK t \in {Usage!ToldCharge(q), Usage!Silent} : Usage!End(r, q, "error", t)
    BY <2>1, <2>4 DEF Usage!EndsInterrupted
  <2>. HIDE <2>4
  <2>7. Fit(q)
    BY <1>0, <2>5 DEF Right, Fit
  <2>8. Usage!ToldCharge(q) \in 0..Most /\ Usage!ToldCharge(q) = Usage!Size(rows) + 0
    BY <2>2, <2>5, <2>7, ToldIs
  <2>9. Usage!Size(rows) = 0 \/ q.unrefunded
    <3>1. CASE released
      BY <2>2, <3>1, NoRowsIs
    <3>2. CASE ~released
      <4>1. rows = req[r].held
        BY <2>2, <3>2
      <4>2. Usage!Size(rows) = 0 \/ Usage!Size(rows) > 0
        BY SizeType
      <4>. QED BY <2>5, <3>2, <4>1, <4>2, Zenon
    <3>. QED BY <3>1, <3>2
  <2>10. t \in 0..Most \cup {Usage!Silent} /\ 0 \in 0..MaxMinutes
    BY <2>6, <2>8, MostIs
  <2>11. Tells(t, Usage!Size(rows) + 0, q.unrefunded)
    BY <2>6, <2>8, <2>9 DEF Tells
  <2>. QED BY <2>2, <2>3, <2>5, <2>6, <2>10, <2>11, EndKeeps
<1>. QED BY <1>2, <1>3

\* The transcript says how many minutes the edit is billed.
LEMMA EditWorksKeeps ==
  ASSUME UsageInv, NEW r \in UsageRequests, NEW billed \in 1..MaxMinutes, Usage!EditWorks(r, billed)
  PROVE  UsageInv'
<1>0. /\ Right(req[r], usage[r], minutes[r]) /\ req[r].pc = "work" /\ req[r].kind = "edit"
      /\ req[r] \in Usage!Request
  BY RequestIs DEF Usage!EditWorks, Usage!At
<1>1. UNCHANGED <<usage, minutes, ledger, path, places, exits, lost>> /\ Surroundings
  BY StaysAround DEF Usage!EditWorks
<1>a. billed \in 1..Most
  BY MostIs
<1>2. PICK q : q = [req[r] EXCEPT !.pc = "reserve", !.units = billed]
  OBVIOUS
<1>3. /\ q \in Usage!Request /\ q.pc = "reserve" /\ q.units = billed /\ q.kind = "edit"
      /\ q.held = req[r].held /\ q.released = req[r].released /\ q.place = req[r].place /\ Usage!Becomes(r, q)
  BY <1>0, <1>2, <1>a DEF Usage!Request, Usage!EditWorks, Most
<1>. HIDE <1>2
<1>4. Right(q, usage[r], minutes[r])
  BY <1>0, <1>3, MostIs DEF Right, Fit, Holds, Unreserved
<1>. QED BY <1>1, <1>3, <1>4, GoesKeeps

LEMMA EditEndsKeeps ==
  ASSUME UsageInv, NEW r \in UsageRequests,
         Usage!EditFails(r) \/ Usage!EditUseless(r) \/ Usage!MinutesFail(r)
  PROVE  UsageInv'
<1>1. PICK a \in {"ok", "error"}, t \in {0, Usage!Silent} : Usage!End(r, req[r], a, t)
  BY DEF Usage!EditFails, Usage!EditUseless, Usage!MinutesFail, Usage!Refused
<1>2. UNCHANGED <<usage, minutes>> /\ Surroundings
  BY StaysAround, FaultIs DEF Usage!EditFails, Usage!EditUseless, Usage!MinutesFail
<1>3. req[r].pc # "end" /\ req[r].kind = "edit" /\ Right(req[r], usage[r], minutes[r])
  BY RequestIs DEF Usage!EditFails, Usage!EditUseless, Usage!MinutesFail, Usage!At
<1>4. req[r].held = Usage!NoRows /\ ~req[r].released
  BY <1>3 DEF Right, Holds
<1>. QED BY <1>1, <1>2, <1>3, <1>4, EndsFree

\* The minutes of an edit are its own row, and what the answer says.
LEMMA ReserveMinutesKeeps == ASSUME UsageInv, NEW r \in UsageRequests, Usage!ReserveMinutes(r) PROVE UsageInv'
<1>0. /\ Right(req[r], usage[r], minutes[r]) /\ req[r].pc = "reserve" /\ req[r].kind = "edit"
      /\ req[r] \in Usage!Request /\ usage[r] \in Usage!Rows
  BY RequestIs DEF Usage!ReserveMinutes, Usage!At
<1>1. UNCHANGED <<usage, ledger, path, exits, lost>> /\ Surroundings
  BY StaysAround DEF Usage!ReserveMinutes
<1>2. req[r].held = Usage!NoRows /\ ~req[r].released /\ usage[r] = Usage!NoRows /\ Fit(req[r])
  BY <1>0 DEF Right, Holds
<1>3. CASE Usage!FitsMinutes(r)
  <2>1. PICK n \in 0..MaxMinutes : n = req[r].units
    BY <1>0, <1>2, MostIs DEF Fit, Usage!Request
  <2>2. minutes' = [minutes EXCEPT ![r] = n] /\ Usage!End(r, req[r], "ok", n)
    BY <1>3, <2>1 DEF Usage!ReserveMinutes
  <2>3. Tables(r, Usage!NoRows, n)
    BY <1>1, <1>2, <2>2, RequestIs DEF Tables
  <2>4. n \in 0..Most \cup {Usage!Silent} /\ Usage!Size(Usage!NoRows) + n = n /\ Usage!NoRows \in Usage!Rows
    BY MostIs, NoRowsIs
  <2>5. Tells(n, Usage!Size(Usage!NoRows) + n, req[r].unrefunded)
    BY <2>4 DEF Tells
  <2>. QED BY <2>5, <1>0, <1>1, <1>2, <2>2, <2>3, <2>4, EndKeeps
<1>4. CASE minutes' = minutes /\ Usage!Refused(r)
  BY <1>0, <1>1, <1>2, <1>4, RefusedFree
<1>. QED BY <1>3, <1>4 DEF Usage!ReserveMinutes

\* The deadline aborts what it runs under, for the time or for the client.
LEMMA CutKeeps ==
  ASSUME UsageInv, NEW r \in UsageRequests, Usage!TimesOut(r) \/ Usage!Disconnects(r)
  PROVE  UsageInv'
<1>0. Right(req[r], usage[r], minutes[r]) /\ req[r] \in Usage!Request
  BY RequestIs
<1>1. UNCHANGED <<usage, minutes, ledger, path, places, exits, lost>> /\ Surroundings
  BY StaysAround DEF Usage!TimesOut, Usage!Disconnects
<1>2. PICK q : q = [req[r] EXCEPT !.cut = TRUE]
  OBVIOUS
<1>3. /\ Alike(q, req[r]) /\ q.pc = req[r].pc /\ q.answer = req[r].answer /\ q.told = req[r].told
      /\ q.place = req[r].place /\ Usage!Becomes(r, q)
  BY <1>0, <1>2 DEF Alike, Usage!Request, Usage!TimesOut, Usage!Disconnects
<1>. HIDE <1>2
<1>4. Right(q, usage[r], minutes[r])
  BY <1>0, <1>3 DEF Alike, Right, Fit, Holds, Unreserved
<1>. QED BY <1>1, <1>3, <1>4, GoesKeeps DEF Alike

LEMMA PurchaseKeeps == ASSUME UsageInv, Usage!ApplyPurchase \/ Usage!RevokePurchase PROVE UsageInv'
<1>1. /\ UNCHANGED <<usage, minutes, path, req, places, exits, lost>> /\ ledger' \in {"granted", "revoked"}
  BY DEF Usage!ApplyPurchase, Usage!RevokePurchase
<1>. QED BY <1>1 DEF UsageInv

\* What was reserved stays reserved, and no answer says anything of it.
LEMMA CrashKeeps == ASSUME UsageInv, Usage!Crash PROVE UsageInv'
<1>1. UNCHANGED <<usage, minutes, ledger, path, lost>> /\ places' = 0 /\ exits' \in 0..MaxExits
  <2>1. exits \in Nat /\ exits <= MaxExits /\ MaxExits \in Nat
    BY UsageAssumption DEF UsageInv, Usage!AiUsageAssumption
  <2>2. UNCHANGED <<usage, minutes, ledger, path, lost>> /\ places' = 0 /\ exits < MaxExits /\ exits' = exits + 1
    BY DEF Usage!Crash
  <2>. QED BY <2>1, <2>2
<1>2. /\ DOMAIN req' = UsageRequests /\ req' = [r \in UsageRequests |-> req'[r]]
      /\ \A r \in UsageRequests :
            req'[r] = IF req[r].pc \in {"none", "end"} THEN req[r]
                      ELSE [Usage!NotStarted EXCEPT !.pc = "end"]
  BY DEF Usage!Crash
<1>3. ASSUME NEW r \in UsageRequests
      PROVE  Right(req'[r], usage[r], minutes[r]) /\ req'[r].place = FALSE
  <2>0. Right(req[r], usage[r], minutes[r]) /\ req[r] \in Usage!Request
    BY RequestIs
  <2>1. CASE req[r].pc \in {"none", "end"}
    BY <1>2, <2>0, <2>1 DEF Right, Fit, Usage!Request
  <2>2. CASE req[r].pc \notin {"none", "end"}
    <3>1. PICK p, q : p = Usage!NotStarted /\ q = [p EXCEPT !.pc = "end"]
      OBVIOUS
    <3>2. /\ q \in Usage!Request /\ q.pc = "end" /\ q.answer = "none" /\ q.place = FALSE
          /\ q.kind = "keyword" /\ q.units = 1 /\ q.held = Usage!NoRows /\ ~q.released
      BY <3>1, NotStartedIs DEF Usage!Request
    <3>3. req'[r] = q
      BY <1>2, <2>2, <3>1
    <3>. HIDE <3>1
    <3>4. Right(q, usage[r], minutes[r])
      BY <2>0, <3>2, MostIs, NoRowsIs DEF Right, Fit, Holds, Unreserved
    <3>. QED BY <3>2, <3>3, <3>4
  <2>. QED BY <2>1, <2>2
<1>4. req' \in [UsageRequests -> Usage!Request] /\ \A r \in UsageRequests : Right(req'[r], usage'[r], minutes'[r])
  BY <1>1, <1>2, <1>3 DEF Right
<1>5. {r \in UsageRequests : req'[r].place} = {}
  BY <1>3
<1>6. places' \in 0..Places /\ places' = Cardinality({r \in UsageRequests : req'[r].place})
  BY <1>1, <1>5, FS_EmptySet, RequestIs, UsageAssumption DEF Usage!AiUsageAssumption
<1>. QED BY <1>1, <1>4, <1>6 DEF UsageInv

LEMMA UsageInit == Usage!Init => UsageInv
<1>. SUFFICES ASSUME Usage!Init PROVE UsageInv
  OBVIOUS
<1>0. 0 \in 0..Most /\ 1 \in 1..Most /\ MaxUnits >= 1
  BY MostIs, UsageAssumption DEF Usage!AiUsageAssumption
<1>1. PICK p : p = Usage!NotStarted
  OBVIOUS
<1>2. p \in Usage!Request /\ p.held = Usage!NoRows /\ ~p.released /\ p.place = FALSE /\ p.pc = "none" /\ p.kind = "keyword"
      /\ p.units = 1
  BY <1>1, NotStartedIs
<1>3. req = [r \in UsageRequests |-> p]
  BY <1>1 DEF Usage!Init
<1>. HIDE <1>1
<1>4. MaxUnits >= 1 /\ Places \in Nat /\ MaxExits \in Nat /\ MaxLostWrites \in Nat
  BY UsageAssumption, MostIs DEF Usage!AiUsageAssumption
<1>5. Right(p, Usage!NoRows, 0)
  BY <1>2, <1>4, NoRowsIs, MostIs DEF Right, Fit, Holds
<1>6. {r \in UsageRequests : req[r].place} = {}
  BY <1>2, <1>3
<1>7. places = Cardinality({r \in UsageRequests : req[r].place}) /\ places \in 0..Places
  <2>1. Cardinality({r \in UsageRequests : req[r].place}) = 0
    BY <1>6, FS_EmptySet
  <2>2. places = 0 /\ 0 \in 0..Places
    BY <1>4 DEF Usage!Init
  <2>. QED BY <2>1, <2>2
<1>. QED BY <1>2, <1>3, <1>4, <1>5, <1>7, NoRowsIs, MostIs DEF UsageInv, Usage!Init

LEMMA UsageNext == UsageInv /\ [Usage!Next]_(Usage!vars) => UsageInv'
<1>. SUFFICES ASSUME UsageInv, [Usage!Next]_(Usage!vars) PROVE UsageInv'
  OBVIOUS
<1>1. CASE UNCHANGED Usage!vars
  BY <1>1 DEF UsageInv, Usage!vars
<1>2. ASSUME NEW r \in UsageRequests, Usage!OwnStep(r) PROVE UsageInv'
  BY <1>2, EarlyReadKeeps, AdmitKeeps, EnsureUserKeeps, ReserveKeeps, ReserveFailsKeeps, BreaksOffKeeps,
     FallbackRefundKeeps, FailureRefundKeeps, RefuseKeeps, InterruptKeeps, AnswerCaptionKeeps,
     ReserveMinutesKeeps, EditEndsKeeps DEF Usage!OwnStep
<1>3. ASSUME NEW r \in UsageRequests, Usage!Provider(r) PROVE UsageInv'
  BY <1>3, WorksKeeps, FailsKeeps, EditEndsKeeps, EditWorksKeeps DEF Usage!Provider
<1>4. ASSUME NEW r \in UsageRequests, Usage!TimesOut(r) \/ Usage!Disconnects(r) PROVE UsageInv'
  BY <1>4, CutKeeps
<1>5. ASSUME NEW r \in UsageRequests, NEW kind \in Kinds, NEW n \in 1..Most, Usage!Begin(r, kind, n)
      PROVE  UsageInv'
  BY <1>5, BeginKeeps
<1>6. CASE Usage!ApplyPurchase \/ Usage!RevokePurchase
  BY <1>6, PurchaseKeeps
<1>7. CASE Usage!Crash
  BY <1>7, CrashKeeps
<1>. QED BY <1>1, <1>2, <1>3, <1>4, <1>5, <1>6, <1>7 DEF Usage!Next, Most

\* In every behaviour of the usage tables: types and places, and what is held for a request.
THEOREM UsageInvariant == Usage!Spec => []UsageInv
  BY UsageInit, UsageNext, PTL DEF Usage!Spec

\* AnswerTellsCharge, for any number of requests, any plan and any purchase: an answer that says what was
\* charged says what the tables hold for its request; one that says nothing is of a request that holds
\* nothing, or whose refund could not be written.
THEOREM AnswersTellCharge == Usage!Spec => []AnswerTellsCharge
<1>1. UsageInv => AnswerTellsCharge
  BY DEF UsageInv, Right, Holds, Tells, AnswerTellsCharge, Usage!AnswerTellsCharge, Usage!Charged, Usage!At
<1>. QED BY <1>1, UsageInvariant, PTL

\* AiUsage: its variables keep their types whatever requests run together.
THEOREM UsageTypes == Usage!Spec => []Usage!TypeOK
<1>1. UsageInv => Usage!TypeOK
  BY DEF UsageInv, Usage!TypeOK
<1>. QED BY <1>1, UsageInvariant, PTL

LEMMA SameCardinality == ASSUME NEW S PROVE Usage!Cardinality(S) = Cardinality(S)
  BY Zenon DEF Usage!Cardinality, Cardinality

\* PlacesHeld: every place taken belongs to a request that is still in its provider part.
THEOREM PlacesAreHeld == Usage!Spec => []Usage!PlacesHeld
<1>1. UsageInv => Usage!PlacesHeld
  BY SameCardinality DEF UsageInv, Right, Fit, Usage!PlacesHeld
<1>. QED BY <1>1, UsageInvariant, PTL


-------------------------------------------------------------------------------
(***************************************************************************)
(* AiUsage: what a step takes.                                             *)
(***************************************************************************)
\* The sums move by what the tables hold for the one request that moves.
LEMMA SumsMove ==
  ASSUME UsageInv, NEW r \in UsageRequests, NEW rows \in Usage!Rows, NEW n \in 0..MaxMinutes, Tables(r, rows, n)
  PROVE  /\ Usage!UsedThisMonth' = Usage!UsedThisMonth + rows.monthly - usage[r].monthly
         /\ Usage!UsedAddon' = Usage!UsedAddon + rows.addon - usage[r].addon
         /\ Usage!UsedMinutes' = Usage!UsedMinutes + n - minutes[r]
<1>0. IsFiniteSet(UsageRequests)
  BY FewRequests
<1>a. /\ usage' = [usage EXCEPT ![r] = rows] /\ minutes' = [minutes EXCEPT ![r] = n]
      /\ usage \in [UsageRequests -> Usage!Rows] /\ usage' \in [UsageRequests -> Usage!Rows]
      /\ minutes \in [UsageRequests -> Int] /\ minutes' \in [UsageRequests -> Int]
  BY MostIs DEF UsageInv, Tables
<1>b. \A row \in Usage!Rows : row.monthly \in Int /\ row.addon \in Int
  BY MostIs DEF Usage!Rows
<1>1. PICK f, h : f = [s \in UsageRequests |-> usage[s].monthly] /\ h = [s \in UsageRequests |-> usage'[s].monthly]
  OBVIOUS
<1>2. PICK g, k : g = [s \in UsageRequests |-> usage[s].addon] /\ k = [s \in UsageRequests |-> usage'[s].addon]
  OBVIOUS
<1>3. PICK m, p : m = minutes /\ p = minutes'
  OBVIOUS
<1>c. /\ f \in [UsageRequests -> Int] /\ h \in [UsageRequests -> Int] /\ g \in [UsageRequests -> Int]
      /\ k \in [UsageRequests -> Int] /\ m \in [UsageRequests -> Int] /\ p \in [UsageRequests -> Int]
  BY <1>1, <1>2, <1>3, <1>a, <1>b
<1>d. /\ f[r] = usage[r].monthly /\ h[r] = rows.monthly /\ \A s \in UsageRequests \ {r} : f[s] = h[s]
      /\ g[r] = usage[r].addon /\ k[r] = rows.addon /\ \A s \in UsageRequests \ {r} : g[s] = k[s]
      /\ m[r] = minutes[r] /\ p[r] = n /\ \A s \in UsageRequests \ {r} : m[s] = p[s]
  BY <1>1, <1>2, <1>3, <1>a
<1>4. SumFunctionOnSet(h, UsageRequests) = SumFunctionOnSet(f, UsageRequests) + h[r] - f[r]
  BY <1>0, <1>c, <1>d, SumChange
<1>5. SumFunctionOnSet(k, UsageRequests) = SumFunctionOnSet(g, UsageRequests) + k[r] - g[r]
  BY <1>0, <1>c, <1>d, SumChange
<1>6. SumFunctionOnSet(p, UsageRequests) = SumFunctionOnSet(m, UsageRequests) + p[r] - m[r]
  BY <1>0, <1>c, <1>d, SumChange
<1>7. /\ Usage!UsedThisMonth = SumFunctionOnSet(f, UsageRequests)
      /\ Usage!UsedAddon = SumFunctionOnSet(g, UsageRequests)
      /\ Usage!UsedMinutes = SumFunctionOnSet(m, UsageRequests)
  BY <1>1, <1>2, <1>3, SameSum DEF Usage!UsedThisMonth, Usage!UsedAddon, Usage!UsedMinutes
<1>8. /\ Usage!UsedThisMonth' = SumFunctionOnSet(h, UsageRequests)
      /\ Usage!UsedAddon' = SumFunctionOnSet(k, UsageRequests)
      /\ Usage!UsedMinutes' = SumFunctionOnSet(p, UsageRequests)
  BY <1>1, <1>2, <1>3, SameSum DEF Usage!UsedThisMonth, Usage!UsedAddon, Usage!UsedMinutes
<1>. QED BY <1>d, <1>4, <1>5, <1>6, <1>7, <1>8

Taken ==
    /\ Usage!UsedThisMonth' > Usage!UsedThisMonth => Usage!UsedThisMonth' <= Limit
    /\ Usage!UsedAddon' > Usage!UsedAddon => Usage!UsedAddon' <= Usage!Grants
    /\ Usage!UsedMinutes' > Usage!UsedMinutes => Usage!UsedMinutes' <= EditLimit

\* A step that leaves the tables alone takes nothing.
LEMMA NothingTaken == ASSUME UsageInv, UNCHANGED <<usage, minutes>> PROVE Taken
<1>1. /\ Usage!UsedThisMonth' = Usage!UsedThisMonth /\ Usage!UsedAddon' = Usage!UsedAddon
      /\ Usage!UsedMinutes' = Usage!UsedMinutes
  BY DEF Usage!UsedThisMonth, Usage!UsedAddon, Usage!UsedMinutes
<1>. QED BY <1>1, SumsAre DEF Taken

\* A reservation takes of each kind no more than is left of it.
LEMMA ReserveTakes == ASSUME UsageInv, NEW r \in UsageRequests, Usage!Reserve(r) PROVE Taken
<1>0. /\ Right(req[r], usage[r], minutes[r]) /\ req[r].pc = "reserve" /\ req[r] \in Usage!Request
      /\ req[r].kind # "edit" /\ minutes[r] \in 0..MaxMinutes
  BY RequestIs DEF Usage!Reserve, Usage!At
<1>1. UNCHANGED <<minutes, ledger>>
  BY DEF Usage!Reserve
<1>2. usage[r] = Usage!NoRows /\ minutes[r] = 0
  BY <1>0 DEF Right, Holds, Unreserved
<1>3. CASE Usage!Covered(req[r].units)
  <2>1. req[r].units \in 1..MaxUnits
    BY <1>0, MostIs DEF Right, Fit, Usage!Request
  <2>2. PICK rows \in Usage!Rows :
          rows = Usage!Split(req[r].units) /\ (rows.monthly > 0 => Usage!UsedThisMonth + rows.monthly <= Limit)
    BY <2>1, SplitIs
  <2>3. Tables(r, rows, 0)
    BY <1>1, <1>2, <1>3, <2>2, RequestIs DEF Tables, Usage!Reserve
  <2>4. 0 \in 0..MaxMinutes /\ rows.monthly \in Nat /\ rows.addon \in Nat
    BY MostIs DEF Usage!Rows
  <2>5. /\ Usage!UsedThisMonth' = Usage!UsedThisMonth + rows.monthly - Usage!NoRows.monthly
        /\ Usage!UsedAddon' = Usage!UsedAddon + rows.addon - Usage!NoRows.addon
        /\ Usage!UsedMinutes' = Usage!UsedMinutes + 0 - 0
    BY <1>2, <2>3, <2>4, SumsMove
  <2>6. Usage!NoRows.monthly = 0 /\ Usage!NoRows.addon = 0
    BY DEF Usage!NoRows
  <2>7. rows.addon > 0 => Usage!UsedAddon + rows.addon <= Usage!Grants
    <3>1. rows.addon <= Usage!AddonRemaining
      BY <1>3, <2>2 DEF Usage!Covered
    <3>2. PICK left \in Int : left = Usage!Grants - Usage!UsedAddon
      BY SumsAre
    <3>3. Usage!Max({0, left}) = IF 0 >= left THEN 0 ELSE left
      BY LargestIs
    <3>. QED BY <2>4, <3>1, <3>2, <3>3, SumsAre DEF Usage!AddonRemaining
  <2>. QED BY <2>2, <2>4, <2>5, <2>6, <2>7, SumsAre DEF Taken
<1>4. CASE ~Usage!Covered(req[r].units)
  <2>1. usage' = usage
    BY <1>4 DEF Usage!Reserve
  <2>. QED BY <1>1, <2>1, NothingTaken
<1>. QED BY <1>3, <1>4

\* A refund takes nothing.
LEMMA RefundTakes ==
  ASSUME UsageInv, NEW r \in UsageRequests, NEW released \in BOOLEAN, Usage!Refund(r, released),
         UNCHANGED minutes
  PROVE  Taken
<1>1. CASE usage' = Usage!Refunded(r)
  <2>1. Tables(r, Usage!NoRows, minutes[r]) /\ minutes[r] \in 0..MaxMinutes /\ usage[r] \in Usage!Rows
    BY <1>1, RequestIs DEF Tables, Usage!Refunded
  <2>2. /\ Usage!UsedThisMonth' = Usage!UsedThisMonth + Usage!NoRows.monthly - usage[r].monthly
        /\ Usage!UsedAddon' = Usage!UsedAddon + Usage!NoRows.addon - usage[r].addon
        /\ Usage!UsedMinutes' = Usage!UsedMinutes + minutes[r] - minutes[r]
    BY <2>1, NoRowsIs, SumsMove
  <2>3. usage[r].monthly \in Nat /\ usage[r].addon \in Nat /\ minutes[r] \in Nat
    BY <2>1, MostIs DEF Usage!Rows
  <2>4. Usage!NoRows.monthly = 0 /\ Usage!NoRows.addon = 0
    BY DEF Usage!NoRows
  <2>. QED BY <2>2, <2>3, <2>4, SumsAre DEF Taken
<1>2. CASE usage' = usage
  BY <1>2, NothingTaken
<1>. QED BY <1>1, <1>2 DEF Usage!Refund, Usage!Kept

LEMMA MinutesTake == ASSUME UsageInv, NEW r \in UsageRequests, Usage!ReserveMinutes(r) PROVE Taken
<1>0. /\ Right(req[r], usage[r], minutes[r]) /\ req[r].pc = "reserve" /\ req[r].kind = "edit"
      /\ req[r] \in Usage!Request /\ usage[r] \in Usage!Rows /\ usage' = usage
  BY RequestIs DEF Usage!ReserveMinutes, Usage!At
<1>1. CASE Usage!FitsMinutes(r)
  <2>1. PICK n \in 0..MaxMinutes : n = req[r].units
    BY <1>0, MostIs DEF Right, Fit, Usage!Request
  <2>2. Tables(r, usage[r], n)
    BY <1>0, <1>1, <2>1, RequestIs DEF Tables, Usage!ReserveMinutes
  <2>3. /\ Usage!UsedThisMonth' = Usage!UsedThisMonth + usage[r].monthly - usage[r].monthly
        /\ Usage!UsedAddon' = Usage!UsedAddon + usage[r].addon - usage[r].addon
        /\ Usage!UsedMinutes' = Usage!UsedMinutes + n - minutes[r]
    BY <1>0, <2>2, SumsMove
  <2>4. minutes[r] = 0 /\ usage[r].monthly \in Nat /\ usage[r].addon \in Nat
    BY <1>0, MostIs DEF Right, Holds, Usage!Rows
  <2>5. Usage!UsedMinutes + n <= EditLimit
    BY <1>1, <2>1 DEF Usage!FitsMinutes
  <2>. QED BY <2>1, <2>3, <2>4, <2>5, SumsAre DEF Taken
<1>2. CASE minutes' = minutes
  BY <1>0, <1>2, NothingTaken
<1>. QED BY <1>1, <1>2 DEF Usage!ReserveMinutes

LEMMA StepTakes == ASSUME UsageInv, Usage!Next PROVE Taken
<1>1. CASE UNCHANGED <<usage, minutes>>
  BY <1>1, NothingTaken
<1>2. ASSUME NEW r \in UsageRequests, Usage!FallbackRefund(r) \/ Usage!FailureRefund(r) \/ Usage!Interrupt(r)
      PROVE  Taken
  <2>1. UNCHANGED minutes
    BY <1>2 DEF Usage!FallbackRefund, Usage!FailureRefund, Usage!Interrupt
  <2>2. UNCHANGED <<usage, minutes>> \/ \E released \in BOOLEAN : Usage!Refund(r, released)
    BY <1>2, <2>1 DEF Usage!FallbackRefund, Usage!FailureRefund, Usage!Interrupt
  <2>. QED BY <2>1, <2>2, NothingTaken, RefundTakes
<1>3. ASSUME NEW r \in UsageRequests, Usage!OwnStep(r)
      PROVE  \/ UNCHANGED <<usage, minutes>> \/ Usage!Reserve(r) \/ Usage!ReserveMinutes(r)
             \/ Usage!FallbackRefund(r) \/ Usage!FailureRefund(r) \/ Usage!Interrupt(r)
  BY <1>3 DEF Usage!OwnStep, Usage!EarlyRead, Usage!Admit, Usage!EnsureUser, Usage!ReserveFails,
     Usage!BreaksOff, Usage!Refuse, Usage!AnswerCaption, Usage!MinutesFail
<1>4. ASSUME NEW r \in UsageRequests, Usage!Provider(r) PROVE UNCHANGED <<usage, minutes>>
  BY <1>4 DEF Usage!Provider, Usage!Works, Usage!Fails, Usage!MediaFails, Usage!EditFails,
     Usage!EditUseless, Usage!EditWorks
<1>5. ASSUME NEW r \in UsageRequests, NEW kind, NEW n,
             Usage!TimesOut(r) \/ Usage!Disconnects(r) \/ Usage!Begin(r, kind, n)
      PROVE  UNCHANGED <<usage, minutes>>
  BY <1>5 DEF Usage!TimesOut, Usage!Disconnects, Usage!Begin
<1>6. Usage!ApplyPurchase \/ Usage!RevokePurchase \/ Usage!Crash => UNCHANGED <<usage, minutes>>
  BY DEF Usage!ApplyPurchase, Usage!RevokePurchase, Usage!Crash
<1>7. ASSUME NEW r \in UsageRequests, Usage!OwnStep(r) PROVE Taken
  BY <1>2, <1>3, <1>7, NothingTaken, ReserveTakes, MinutesTake
<1>. QED BY <1>1, <1>4, <1>5, <1>6, <1>7 DEF Usage!Next

\* TakesOnlyCredit, for any number of requests at once: of the month's credits, the purchased ones and the
\* minutes, no reservation takes any that the owner does not have.
THEOREM TakesOnlyCredits == Usage!Spec => TakesOnlyCredit
<1>1. UsageInv /\ [Usage!Next]_(Usage!vars) => [Taken]_(Usage!vars)
  BY StepTakes
<1>2. Usage!Spec => [][Taken]_(Usage!vars)
  BY <1>1, UsageInvariant, PTL DEF Usage!Spec
<1>3. [][Taken]_(Usage!vars) => TakesOnlyCredit
  BY PTL DEF Taken, TakesOnlyCredit, Usage!TakesOnlyCredit
<1>. QED BY <1>2, <1>3, PTL

-------------------------------------------------------------------------------
(***************************************************************************)
(* CaptionWriting.                                                         *)
(***************************************************************************)
\* A caption's text, or that of a platform, fits what was asked for.
Fits(t) ==
    /\ written.plain => ~t.emoji /\ ~t.only
    /\ \/ written.language = "auto" /\ t.quoted
       \/ /\ (Writing!Language = "th" /\ t.latin > 4) => t.thai > 0
          /\ Writing!Language = "en" => t.latin >= t.thai

\* Each stage has what the one before it left, of this model; a doubt ends the request.
WritingInv ==
    /\ written \in Writing!Admitted
    /\ step \in {"evidence", "writing", "audit", "keyword", "done"}
    /\ step \in {"evidence", "writing", "audit"} => written.kind = "clip"
    /\ step = "keyword" => written.kind = "keyword"
    /\ step # "done" => outcome = "none"
    /\ step \in {"writing", "audit"} =>
          grounds.by = model /\ (grounds.heard \/ (grounds.seen /\ written.visual))
    /\ step = "audit" => draft = model
    /\ doubted => step = "done" /\ outcome # "given"
    /\ CaptionsAreGrounded

LEMMA WritingInit == Writing!Init => WritingInv
<1>1. SUFFICES ASSUME Writing!Init PROVE WritingInv
  OBVIOUS
<1>2. written \in Writing!Admitted
  BY <1>1, WritingAssumption DEF Writing!Init, Writing!CaptionWritingAssumption
<1>3. CaptionsAreGrounded
  BY <1>1 DEF Writing!Init, CaptionsAreGrounded, Writing!CaptionsAreGrounded
<1>4. written.kind \in {"clip", "keyword"}
  BY <1>2 DEF Writing!Admitted
<1> QED BY <1>1, <1>2, <1>3, <1>4 DEF Writing!Init, WritingInv, Writing!First

\* A model that fails is followed by the next, from its first stage, or the request ends without a caption.
LEMMA FailingKeeps == ASSUME WritingInv, Writing!Asking, NEW e, e # "given", Writing!FailsWith(e)
    PROVE WritingInv'
<1>1. written' = written /\ caption' = caption /\ cut' = cut
  BY DEF Writing!FailsWith
<1>2. written.kind \in {"clip", "keyword"}
  BY DEF WritingInv, Writing!Admitted
<1>3. step # "done" /\ outcome = "none" /\ ~doubted
  BY DEF WritingInv, Writing!Asking
<1>4. CASE e \notin Writing!Final /\ model < MaxModels
  <2>1. step' = Writing!First(written.kind) /\ outcome' = outcome /\ doubted' = FALSE
    BY <1>3, <1>4 DEF Writing!FailsWith, Writing!Final
  <2>2. CaptionsAreGrounded'
    BY <1>3, <2>1 DEF CaptionsAreGrounded, Writing!CaptionsAreGrounded
  <2> QED BY <1>1, <1>2, <1>3, <2>1, <2>2 DEF WritingInv, Writing!First
<1>5. CASE ~ (e \notin Writing!Final /\ model < MaxModels)
  <2>1. step' = "done" /\ outcome' = e
    BY <1>5 DEF Writing!FailsWith, Writing!End
  <2>2. CaptionsAreGrounded'
    BY <2>1 DEF CaptionsAreGrounded, Writing!CaptionsAreGrounded
  <2> QED BY <1>1, <2>1, <2>2 DEF WritingInv
<1> QED BY <1>4, <1>5

\* What passes the checks of the audit fits, once its emoji are taken out.
LEMMA CheckedFits ==
  ASSUME NEW t \in Writing!Text, ~Writing!Misfit(t, FALSE), ~Writing!Vanishes(t)
  PROVE  Fits(Writing!Stripped(t))
<1>1. t.thai \in Nat /\ t.latin \in Nat
  BY DEF Writing!Text
<1>2. PICK s : s = Writing!Stripped(t)
  OBVIOUS
<1>3. /\ s.thai = t.thai /\ s.latin = t.latin /\ s.quoted = t.quoted /\ s.only = t.only
      /\ written.plain => ~s.emoji
  BY <1>2 DEF Writing!Stripped, Writing!Text
<1>4. \/ written.language = "auto" /\ t.quoted
      \/ /\ (Writing!Language = "th" /\ t.latin > 4) => t.thai > 0
         /\ Writing!Language = "en" => t.latin >= t.thai
  BY <1>1 DEF Writing!Misfit, Writing!Lettered, Writing!MayStay, Writing!Requested
<1> QED BY <1>2, <1>3, <1>4 DEF Fits, Writing!Vanishes

LEMMA AuditKeeps == ASSUME WritingInv, Writing!Audit PROVE WritingInv'
<1>1. PICK r \in Writing!Reply :
         /\ Writing!Acceptable(r) /\ Writing!End("given")
         /\ caption' = [text |-> Writing!Stripped(r.text), label |-> r.label,
                        platforms |-> [p \in written.platforms \ r.unfit |-> Writing!Stripped(r.platforms[p])]]
  BY DEF Writing!Audit
<1>2. UNCHANGED <<written, model, call, grounds, draft, cut, doubted>> /\ step = "audit" /\ ~cut
  BY DEF Writing!Audit, Writing!Asking
<1>3. step' = "done" /\ outcome' = "given"
  BY <1>1 DEF Writing!End
<1>4. \A t \in {r.text} \cup {r.platforms[p] : p \in written.platforms} :
         t \in Writing!Text /\ Fits(Writing!Stripped(t))
  <2> SUFFICES ASSUME NEW t \in {r.text} \cup {r.platforms[p] : p \in written.platforms}
               PROVE  t \in Writing!Text /\ Fits(Writing!Stripped(t))
    OBVIOUS
  <2>1. ~Writing!Misfit(t, FALSE) /\ ~Writing!Vanishes(t)
    BY <1>1 DEF Writing!Acceptable
  <2>2. t \in Writing!Text
    BY WritingAssumption DEF Writing!CaptionWritingAssumption, Writing!Reply
  <2> QED BY <2>1, <2>2, CheckedFits
<1>5. written.platforms \ r.unfit = written.platforms
  BY <1>1 DEF Writing!Acceptable, Writing!EveryPlatform
<1>6. PICK c : c = caption'
  OBVIOUS
<1>7. /\ c.text = Writing!Stripped(r.text)
      /\ c.platforms = [p \in written.platforms |-> Writing!Stripped(r.platforms[p])]
  BY <1>1, <1>5, <1>6
<1>8. \A t \in {c.text} \cup {c.platforms[p] : p \in DOMAIN c.platforms} : Fits(t)
  BY <1>4, <1>7
<1>9. DOMAIN c.platforms = written.platforms
  BY <1>7
<1>10. Writing!Language' = Writing!Language
  BY <1>2 DEF Writing!Language, Writing!Requested
<1>11. CaptionsAreGrounded'
  <2>1. grounds.by = model /\ draft = model /\ ~doubted /\ (grounds.heard \/ (grounds.seen /\ written.visual))
    BY <1>2 DEF WritingInv
  <2> QED BY <1>2, <1>6, <1>8, <1>9, <1>10, <2>1 DEF CaptionsAreGrounded, Writing!CaptionsAreGrounded, Fits
<1> QED BY <1>2, <1>3, <1>11 DEF WritingInv

LEMMA WritingNext == WritingInv /\ [Writing!Next]_(Writing!vars) => WritingInv'
<1> SUFFICES ASSUME WritingInv, [Writing!Next]_(Writing!vars) PROVE WritingInv'
  OBVIOUS
<1>0. outcome' # "given" => CaptionsAreGrounded'
  BY DEF CaptionsAreGrounded, Writing!CaptionsAreGrounded
<1>1. CASE Writing!Retry
  BY <1>0, <1>1 DEF WritingInv, Writing!Retry, Writing!Asking
<1>2. CASE Writing!ModelFails
  BY <1>2, FailingKeeps DEF Writing!ModelFails
<1>3. CASE Writing!KeyRejected
  BY <1>3, FailingKeeps DEF Writing!KeyRejected
<1>4. CASE Writing!ReadEvidence
  <2>1. PICK heard, seen, enough \in BOOLEAN, spoken \in Writing!Languages \cup {"und"} :
           IF enough /\ Writing!Enough(heard, seen)
           THEN /\ grounds' = [by |-> model, heard |-> heard, spoken |-> IF heard THEN spoken ELSE "und",
                               seen |-> seen /\ written.visual]
                /\ Writing!Proceed("writing") /\ UNCHANGED draft
           ELSE Writing!FailsWith("insufficient")
    BY <1>4 DEF Writing!ReadEvidence
  <2>2. CASE enough /\ Writing!Enough(heard, seen)
    <3>1. grounds'.by = model /\ (grounds'.heard \/ (grounds'.seen /\ written.visual))
      BY <2>1, <2>2 DEF Writing!Enough
    <3> QED BY <1>0, <1>4, <2>1, <2>2, <3>1 DEF WritingInv, Writing!ReadEvidence, Writing!Asking, Writing!Proceed
  <2>3. CASE ~ (enough /\ Writing!Enough(heard, seen))
    BY <1>4, <2>1, <2>3, FailingKeeps DEF Writing!ReadEvidence
  <2> QED BY <2>2, <2>3
<1>5. CASE Writing!Write
  BY <1>0, <1>5 DEF WritingInv, Writing!Write, Writing!Asking, Writing!Proceed
<1>6. CASE Writing!Audit
  BY <1>6, AuditKeeps
<1>7. CASE Writing!AuditFails
  BY <1>7, FailingKeeps DEF Writing!AuditFails
<1>8. CASE Writing!WriteFromKeywords
  BY <1>8 DEF WritingInv, Writing!WriteFromKeywords, Writing!Asking, Writing!End,
     CaptionsAreGrounded, Writing!CaptionsAreGrounded
<1>9. CASE Writing!Abort
  BY <1>0, <1>9 DEF WritingInv, Writing!Abort, Writing!Asking
<1>10. CASE Writing!GivesUp
  BY <1>0, <1>10 DEF WritingInv, Writing!GivesUp, Writing!End
<1>11. CASE UNCHANGED Writing!vars
  BY <1>11 DEF Writing!vars, WritingInv, CaptionsAreGrounded, Writing!CaptionsAreGrounded, Writing!Language,
     Writing!Requested
<1> QED BY <1>1, <1>2, <1>3, <1>4, <1>5, <1>6, <1>7, <1>8, <1>9, <1>10, <1>11 DEF Writing!Next, Writing!Provider

\* CaptionWriting: what is given of a clip was found, written and audited by one model of the chain.
THEOREM CaptionsGrounded == Writing!Spec => []CaptionsAreGrounded
<1>1. WritingInv => CaptionsAreGrounded
  BY DEF WritingInv
<1> QED BY <1>1, WritingInit, WritingNext, PTL DEF Writing!Spec

-------------------------------------------------------------------------------
(***************************************************************************)
(* What is in a sequence that is put together of others.                   *)
(***************************************************************************)
LEMMA ConcatSet ==
  ASSUME NEW S, NEW s \in Seq(S), NEW t \in Seq(S)
  PROVE  s \o t \in Seq(S) /\ Prepared!ToSet(s \o t) = Prepared!ToSet(s) \cup Prepared!ToSet(t)
<1>1. s \o t \in Seq(S) /\ Len(s) \in Nat /\ Len(t) \in Nat /\ Len(s \o t) = Len(s) + Len(t)
  OBVIOUS
<1>2. \A i \in 1..Len(s) + Len(t) :
         (s \o t)[i] = IF i <= Len(s) THEN s[i] ELSE t[i - Len(s)]
  BY <1>1
<1>3. ASSUME NEW x \in Prepared!ToSet(s \o t) PROVE x \in Prepared!ToSet(s) \cup Prepared!ToSet(t)
  <2>1. PICK i \in 1..Len(s) + Len(t) : x = (s \o t)[i]
    BY <1>1, <1>3 DEF Prepared!ToSet
  <2>2. CASE i <= Len(s)
    BY <1>1, <1>2, <2>1, <2>2 DEF Prepared!ToSet
  <2>3. CASE ~(i <= Len(s))
    <3>1. i - Len(s) \in 1..Len(t) /\ x = t[i - Len(s)]
      BY <1>1, <1>2, <2>1, <2>3
    <3>. QED BY <3>1 DEF Prepared!ToSet
  <2>. QED BY <2>2, <2>3
<1>4. ASSUME NEW x \in Prepared!ToSet(s) PROVE x \in Prepared!ToSet(s \o t)
  <2>1. PICK i \in 1..Len(s) : x = s[i]
    BY <1>4 DEF Prepared!ToSet
  <2>2. i \in 1..Len(s) + Len(t) /\ x = (s \o t)[i]
    BY <1>1, <1>2, <2>1
  <2>. QED BY <1>1, <2>2 DEF Prepared!ToSet
<1>5. ASSUME NEW x \in Prepared!ToSet(t) PROVE x \in Prepared!ToSet(s \o t)
  <2>1. PICK i \in 1..Len(t) : x = t[i]
    BY <1>5 DEF Prepared!ToSet
  <2>2. i + Len(s) \in 1..Len(s) + Len(t) /\ ~(i + Len(s) <= Len(s)) /\ (i + Len(s)) - Len(s) = i
    BY <1>1
  <2>3. x = (s \o t)[i + Len(s)]
    BY <1>2, <2>1, <2>2
  <2>. QED BY <1>1, <2>2, <2>3 DEF Prepared!ToSet
<1>. QED BY <1>1, <1>3, <1>4, <1>5

\* f[i] is the first i of the sequences, one after the other.
Joins(f, seqs, n) ==
    \A i \in 1..n : f[i] = IF i = 1 THEN seqs[i] ELSE f[i - 1] \o seqs[i]

LEMMA JoinExists ==
  ASSUME NEW S, NEW seqs \in Seq(Seq(S))
  PROVE  \E f \in [1..Len(seqs) -> Seq(S)] : Joins(f, seqs, Len(seqs))
<1>. DEFINE Good(n) == n <= Len(seqs) => \E f \in [1..n -> Seq(S)] : Joins(f, seqs, n)
            G == {n \in Nat : Good(n)}
<1>1. 0 \in G
  <2>1. [i \in 1..0 |-> <<>>] \in [1..0 -> Seq(S)] /\ Joins([i \in 1..0 |-> <<>>], seqs, 0)
    BY DEF Joins
  <2>. QED BY <2>1
<1>2. ASSUME NEW n \in G PROVE n + 1 \in G
  <2>. SUFFICES ASSUME n + 1 <= Len(seqs) PROVE \E f \in [1..n + 1 -> Seq(S)] : Joins(f, seqs, n + 1)
    OBVIOUS
  <2>1. n \in Nat /\ n <= Len(seqs) /\ seqs[n + 1] \in Seq(S)
    OBVIOUS
  <2>2. PICK f \in [1..n -> Seq(S)] : Joins(f, seqs, n)
    BY <1>2, <2>1
  <2>3. PICK last \in Seq(S) : last = IF n + 1 = 1 THEN seqs[n + 1] ELSE f[n] \o seqs[n + 1]
    <3>1. CASE n = 0
      BY <2>1, <3>1
    <3>2. CASE n # 0
      <4>1. f[n] \in Seq(S) /\ n + 1 # 1
        BY <2>1, <2>2, <3>2
      <4>2. f[n] \o seqs[n + 1] \in Seq(S)
        BY <2>1, <4>1
      <4>. QED BY <4>1, <4>2
    <3>. QED BY <3>1, <3>2
  <2>. DEFINE h == [i \in 1..n + 1 |-> IF i = n + 1 THEN last ELSE f[i]]
  <2>4. h \in [1..n + 1 -> Seq(S)]
    BY <2>1, <2>2
  <2>5. h[n + 1] = last /\ \A i \in 1..n : h[i] = f[i]
    BY <2>1
  <2>. HIDE DEF h
  <2>6. Joins(h, seqs, n + 1)
    <3>. SUFFICES ASSUME NEW i \in 1..n + 1 PROVE h[i] = IF i = 1 THEN seqs[i] ELSE h[i - 1] \o seqs[i]
      BY DEF Joins
    <3>1. CASE i = n + 1
      <4>1. i # 1 => i - 1 = n /\ n \in 1..n
        BY <2>1, <3>1
      <4>. QED BY <2>3, <2>5, <3>1, <4>1
    <3>2. CASE i # n + 1
      <4>1. i \in 1..n /\ (i # 1 => i - 1 \in 1..n)
        BY <2>1, <3>2
      <4>. QED BY <2>2, <2>5, <4>1 DEF Joins
    <3>. QED BY <3>1, <3>2
  <2>. QED BY <2>4, <2>6
<1>3. G = Nat
  <2>. HIDE DEF G
  <2>0. G \in SUBSET Nat
    BY DEF G
  <2>. QED BY <1>1, <1>2, <2>0, NatSet
<1>4. Len(seqs) \in Nat
  OBVIOUS
<1>. QED BY <1>3, <1>4

LEMMA JoinSet ==
  ASSUME NEW S, NEW seqs \in Seq(Seq(S)), NEW f, Joins(f, seqs, Len(seqs)), Len(seqs) # 0
  PROVE  /\ f[Len(seqs)] \in Seq(S)
         /\ Prepared!ToSet(f[Len(seqs)]) = UNION {Prepared!ToSet(seqs[i]) : i \in DOMAIN seqs}
<1>. DEFINE Good(n) == n + 1 <= Len(seqs) =>
                /\ f[n + 1] \in Seq(S)
                /\ Prepared!ToSet(f[n + 1]) = UNION {Prepared!ToSet(seqs[i]) : i \in 1..n + 1}
            G == {n \in Nat : Good(n)}
<1>1. 0 \in G
  <2>1. Good(0)
    <3>. SUFFICES ASSUME 1 <= Len(seqs)
                  PROVE  f[1] \in Seq(S) /\ Prepared!ToSet(f[1]) = UNION {Prepared!ToSet(seqs[i]) : i \in 1..1}
      OBVIOUS
    <3>1. f[1] = seqs[1] /\ seqs[1] \in Seq(S)
      BY DEF Joins
    <3>. QED BY <3>1
  <2>. QED BY <2>1
<1>2. ASSUME NEW n \in G PROVE n + 1 \in G
  <2>0. n \in Nat /\ Good(n)
    OBVIOUS
  <2>. SUFFICES ASSUME (n + 1) + 1 <= Len(seqs)
                PROVE  /\ f[(n + 1) + 1] \in Seq(S)
                       /\ Prepared!ToSet(f[(n + 1) + 1]) = UNION {Prepared!ToSet(seqs[i]) : i \in 1..(n + 1) + 1}
    BY <2>0
  <2>1. n + 1 <= Len(seqs) /\ (n + 1) + 1 \in 1..Len(seqs) /\ (n + 1) + 1 # 1
    BY <2>0
  <2>2. f[(n + 1) + 1] = f[n + 1] \o seqs[(n + 1) + 1]
    <3>1. \A i \in 1..Len(seqs) : i # 1 => f[i] = f[i - 1] \o seqs[i]
      BY DEF Joins
    <3>2. ((n + 1) + 1) - 1 = n + 1
      BY <2>0
    <3>3. f[(n + 1) + 1] = f[((n + 1) + 1) - 1] \o seqs[(n + 1) + 1]
      BY <2>1, <3>1, Zenon
    <3>. QED BY <3>2, <3>3
  <2>3. /\ f[n + 1] \in Seq(S) /\ seqs[(n + 1) + 1] \in Seq(S)
        /\ Prepared!ToSet(f[n + 1]) = UNION {Prepared!ToSet(seqs[i]) : i \in 1..n + 1}
    BY <2>0, <2>1
  <2>4. /\ f[(n + 1) + 1] \in Seq(S)
        /\ Prepared!ToSet(f[(n + 1) + 1]) = Prepared!ToSet(f[n + 1]) \cup Prepared!ToSet(seqs[(n + 1) + 1])
    BY <2>2, <2>3, ConcatSet
  <2>5. 1..(n + 1) + 1 = (1..n + 1) \cup {(n + 1) + 1}
    BY <2>0
  <2>6. UNION {Prepared!ToSet(seqs[i]) : i \in 1..(n + 1) + 1}
           = (UNION {Prepared!ToSet(seqs[i]) : i \in 1..n + 1}) \cup Prepared!ToSet(seqs[(n + 1) + 1])
    BY <2>5, Zenon
  <2>7. Prepared!ToSet(f[(n + 1) + 1]) = UNION {Prepared!ToSet(seqs[i]) : i \in 1..(n + 1) + 1}
    BY <2>3, <2>4, <2>6, Zenon
  <2>. QED BY <2>4, <2>7, Zenon
<1>3. G = Nat
  <2>. HIDE DEF G
  <2>0. G \in SUBSET Nat
    BY DEF G
  <2>. QED BY <1>1, <1>2, <2>0, NatSet
<1>4. Len(seqs) \in Nat /\ Len(seqs) - 1 \in Nat /\ (Len(seqs) - 1) + 1 = Len(seqs)
      /\ DOMAIN seqs = 1..Len(seqs)
  OBVIOUS
<1>5. Good(Len(seqs) - 1)
  BY <1>3, <1>4
<1>. HIDE DEF G
<1>. QED BY <1>4, <1>5

LEMMA FlattenedSet ==
  ASSUME NEW S, NEW seqs \in Seq(Seq(S))
  PROVE  /\ Prepared!FlattenSeq(seqs) \in Seq(S)
         /\ Prepared!ToSet(Prepared!FlattenSeq(seqs)) = UNION {Prepared!ToSet(seqs[i]) : i \in DOMAIN seqs}
<1>1. CASE Len(seqs) = 0
  <2>1. Prepared!FlattenSeq(seqs) = seqs /\ seqs = <<>>
    BY <1>1 DEF Prepared!FlattenSeq
  <2>. QED BY <2>1 DEF Prepared!ToSet
<1>2. CASE Len(seqs) # 0
  <2>. DEFINE flatten == CHOOSE f : f = [i \in 1..Len(seqs) |->
                            IF i = 1 THEN seqs[i] ELSE f[i - 1] \o seqs[i]]
  <2>1. Prepared!FlattenSeq(seqs) = flatten[Len(seqs)]
    BY <1>2 DEF Prepared!FlattenSeq
  <2>2. PICK h \in [1..Len(seqs) -> Seq(S)] : Joins(h, seqs, Len(seqs))
    BY JoinExists
  <2>3. h = [i \in 1..Len(seqs) |-> IF i = 1 THEN seqs[i] ELSE h[i - 1] \o seqs[i]]
    BY <2>2 DEF Joins
  <2>4. flatten = [i \in 1..Len(seqs) |-> IF i = 1 THEN seqs[i] ELSE flatten[i - 1] \o seqs[i]]
    BY <2>3
  <2>. HIDE DEF flatten
  <2>5. Joins(flatten, seqs, Len(seqs))
    BY <2>4 DEF Joins
  <2>. QED BY <1>2, <2>1, <2>5, JoinSet
<1>. QED BY <1>1, <1>2
-------------------------------------------------------------------------------
(***************************************************************************)
(* Where what was heard in the parts of a clip is in its transcript.       *)
(***************************************************************************)
Ranges == [start : Int, end : Int, sure : BOOLEAN]
MovedTo(ps, hs, i) == {Prepared!Shift(r, ps[i].start) : r \in Prepared!ToSet(hs[i].ranges)}
InOrder(ps) == \A i, j \in DOMAIN ps : i < j => ps[i].start < ps[j].start
PartsAt == [key : MediaKeys, start : Int]

LEMMA ShiftedRange ==
  ASSUME NEW r \in Ranges, NEW from \in Int
  PROVE  /\ Prepared!Shift(r, from) \in Ranges /\ Prepared!Shift(r, from).start = from + r.start
         /\ Prepared!Shift(r, from).end = from + r.end /\ Prepared!Shift(r, from).sure = r.sure
BY DEF Ranges, Prepared!Shift

LEMMA ClippedNot ==
  ASSUME NEW r \in Ranges, NEW until, r.end <= until
  PROVE  Prepared!Clip(r, until) = r
BY DEF Ranges, Prepared!Clip

\* A part whose times are preserved is in the transcript as it was heard, on the time of the clip.
LEMMA ShiftedKeeps ==
  ASSUME NEW a \in Prepared!Heard, NEW from \in Int, NEW until, Prepared!Shifted(a, from, until).trusted
  PROVE  /\ Prepared!Shifted(a, from, until).ranges \in Seq(Ranges)
         /\ Prepared!ToSet(Prepared!Shifted(a, from, until).ranges)
                = {Prepared!Shift(r, from) : r \in Prepared!ToSet(a.ranges)}
         /\ \A r \in Prepared!ToSet(a.ranges) :
               from <= Prepared!Shift(r, from).start /\ Prepared!Shift(r, from).end <= until
<1>. DEFINE moved == [i \in DOMAIN a.ranges |-> Prepared!Shift(a.ranges[i], from)]
            Pushed(r) == IF Prepared!Fits(r, from, until) THEN <<Prepared!Clip(r, until)>> ELSE <<>>
            pushed == [i \in DOMAIN moved |-> Pushed(moved[i])]
<1>1. /\ Prepared!Shifted(a, from, until).ranges = Prepared!FlattenSeq(pushed)
      /\ \A i \in DOMAIN moved : Prepared!Fits(moved[i], from, until) /\ moved[i].end <= until
  BY DEF Prepared!Shifted
<1>2. a.ranges \in Seq(Ranges)
  BY DEF Prepared!Heard, Ranges
<1>3. DOMAIN moved = DOMAIN a.ranges /\ DOMAIN pushed = DOMAIN a.ranges
  OBVIOUS
<1>4. \A i \in DOMAIN a.ranges : a.ranges[i] \in Ranges
  BY <1>2
<1>5. \A i \in DOMAIN a.ranges : moved[i] = Prepared!Shift(a.ranges[i], from) /\ moved[i] \in Ranges
  BY <1>4, ShiftedRange
<1>6. \A i \in DOMAIN a.ranges : pushed[i] = <<moved[i]>>
  <2>. SUFFICES ASSUME NEW i \in DOMAIN a.ranges PROVE pushed[i] = <<moved[i]>>
    OBVIOUS
  <2>1. Prepared!Clip(moved[i], until) = moved[i] /\ Prepared!Fits(moved[i], from, until)
    BY <1>1, <1>3, <1>5, ClippedNot
  <2>2. pushed[i] = Pushed(moved[i])
    BY <1>3
  <2>. QED BY <2>1, <2>2
<1>. HIDE DEF moved, pushed
<1>7. pushed \in Seq(Seq(Ranges))
  <2>1. DOMAIN pushed = 1..Len(a.ranges) /\ Len(a.ranges) \in Nat
    BY <1>2, <1>3
  <2>2. pushed = [i \in 1..Len(a.ranges) |-> <<moved[i]>>]
    <3>1. pushed = [i \in DOMAIN pushed |-> pushed[i]]
      BY DEF pushed
    <3>. QED BY <1>3, <1>6, <2>1, <3>1
  <2>3. \A i \in 1..Len(a.ranges) : <<moved[i]>> \in Seq(Ranges)
    BY <1>3, <1>5, <2>1
  <2>. QED BY <2>1, <2>2, <2>3
<1>8. Prepared!ToSet(Prepared!FlattenSeq(pushed)) = UNION {Prepared!ToSet(pushed[i]) : i \in DOMAIN pushed}
      /\ Prepared!FlattenSeq(pushed) \in Seq(Ranges)
  BY <1>7, FlattenedSet
<1>9. \A i \in DOMAIN a.ranges : Prepared!ToSet(pushed[i]) = {Prepared!Shift(a.ranges[i], from)}
  <2>. SUFFICES ASSUME NEW i \in DOMAIN a.ranges PROVE Prepared!ToSet(pushed[i]) = {Prepared!Shift(a.ranges[i], from)}
    OBVIOUS
  <2>1. pushed[i] = <<Prepared!Shift(a.ranges[i], from)>>
    BY <1>5, <1>6
  <2>2. \A x : Prepared!ToSet(<<x>>) = {x}
    BY DEF Prepared!ToSet
  <2>. QED BY <2>1, <2>2
<1>10. Prepared!ToSet(a.ranges) = {a.ranges[i] : i \in DOMAIN a.ranges}
  BY DEF Prepared!ToSet
<1>11. Prepared!ToSet(Prepared!FlattenSeq(pushed)) = {Prepared!Shift(r, from) : r \in Prepared!ToSet(a.ranges)}
  <2>1. ASSUME NEW x \in Prepared!ToSet(Prepared!FlattenSeq(pushed))
        PROVE  x \in {Prepared!Shift(r, from) : r \in Prepared!ToSet(a.ranges)}
    <3>1. PICK i \in DOMAIN pushed : x \in Prepared!ToSet(pushed[i])
      BY <1>8, <2>1
    <3>2. x = Prepared!Shift(a.ranges[i], from) /\ a.ranges[i] \in Prepared!ToSet(a.ranges)
      BY <1>3, <1>9, <1>10, <3>1
    <3>. QED BY <3>2
  <2>2. ASSUME NEW r \in Prepared!ToSet(a.ranges)
        PROVE  Prepared!Shift(r, from) \in Prepared!ToSet(Prepared!FlattenSeq(pushed))
    <3>1. PICK i \in DOMAIN a.ranges : r = a.ranges[i]
      BY <1>10, <2>2
    <3>2. Prepared!Shift(r, from) \in Prepared!ToSet(pushed[i]) /\ i \in DOMAIN pushed
      BY <1>3, <1>9, <3>1
    <3>. QED BY <1>8, <3>2
  <2>. QED BY <2>1, <2>2
<1>12. ASSUME NEW r \in Prepared!ToSet(a.ranges)
       PROVE  from <= Prepared!Shift(r, from).start /\ Prepared!Shift(r, from).end <= until
  <2>1. PICK i \in DOMAIN a.ranges : r = a.ranges[i]
    BY <1>10, <1>12
  <2>2. Prepared!Fits(moved[i], from, until) /\ moved[i].end <= until /\ moved[i] = Prepared!Shift(r, from)
    BY <1>1, <1>3, <1>5, <2>1
  <2>. QED BY <2>2 DEF Prepared!Fits
<1>. QED BY <1>1, <1>8, <1>11, <1>12

\* A transcript whose times are preserved holds what was heard where it was heard, part after part.
LEMMA MergedKeeps ==
  ASSUME NEW ps \in Seq(PartsAt), NEW hs \in Seq(Prepared!Heard), Len(hs) = Len(ps), Len(ps) # 0,
         InOrder(ps), ps[1].start = 0, Prepared!Merged(ps, hs).trusted
  PROVE  /\ Prepared!ToSet(Prepared!Merged(ps, hs).ranges) = UNION {MovedTo(ps, hs, i) : i \in DOMAIN hs}
         /\ \A i, j \in DOMAIN hs : i < j =>
               \A r \in MovedTo(ps, hs, i), s \in MovedTo(ps, hs, j) : r.end <= s.start
<1>1. /\ Len(ps) \in Nat /\ DOMAIN ps = 1..Len(ps) /\ DOMAIN hs = 1..Len(ps)
      /\ \A i \in 1..Len(ps) : ps[i].start \in Int /\ hs[i] \in Prepared!Heard
  <2>1. Len(ps) \in Nat /\ DOMAIN ps = 1..Len(ps) /\ DOMAIN hs = 1..Len(ps)
    OBVIOUS
  <2>2. \A i \in 1..Len(ps) : ps[i] \in PartsAt /\ hs[i] \in Prepared!Heard
    OBVIOUS
  <2>3. \A p \in PartsAt : p.start \in Int
    BY DEF PartsAt
  <2>. QED BY <2>1, <2>2, <2>3
<1>2. CASE Len(ps) = 1
  <2>1. Prepared!Merged(ps, hs) = hs[1] /\ hs[1].ranges \in Seq(Ranges) /\ DOMAIN hs = {1}
    BY <1>1, <1>2 DEF Prepared!Merged, Prepared!Untouched, Prepared!Heard, Ranges
  <2>2. \A r \in Prepared!ToSet(hs[1].ranges) : Prepared!Shift(r, ps[1].start) = r
    <3>1. \A r \in Prepared!ToSet(hs[1].ranges) : r \in Ranges
      BY <2>1 DEF Prepared!ToSet
    <3>2. \A r \in Ranges : Prepared!Shift(r, 0) = r
      BY DEF Prepared!Shift, Ranges
    <3>. QED BY <3>1, <3>2
  <2>3. MovedTo(ps, hs, 1) = Prepared!ToSet(hs[1].ranges)
    BY <2>2 DEF MovedTo
  <2>4. UNION {MovedTo(ps, hs, i) : i \in DOMAIN hs} = MovedTo(ps, hs, 1)
    BY <2>1
  <2>5. \A i, j \in DOMAIN hs : ~ (i < j)
    BY <2>1
  <2>. QED BY <2>1, <2>3, <2>4, <2>5
<1>3. CASE Len(ps) # 1
  <2>. DEFINE all == [i \in DOMAIN ps |-> Prepared!Shifted(hs[i], ps[i].start, Prepared!Until(ps, hs, i))]
              pieces == [i \in DOMAIN all |-> all[i].ranges]
  <2>1. Prepared!Merged(ps, hs).ranges = Prepared!FlattenSeq(pieces) /\ \A i \in DOMAIN all : all[i].trusted
    BY <1>3 DEF Prepared!Merged, Prepared!Untouched
  <2>2. /\ DOMAIN all = 1..Len(ps)
        /\ \A i \in 1..Len(ps) : all[i] = Prepared!Shifted(hs[i], ps[i].start, Prepared!Until(ps, hs, i))
    BY <1>1
  <2>3. pieces = [i \in 1..Len(ps) |-> all[i].ranges]
    BY <2>2
  <2>. HIDE DEF all
  <2>4. ASSUME NEW i \in 1..Len(ps)
        PROVE  /\ all[i].ranges \in Seq(Ranges) /\ Prepared!ToSet(all[i].ranges) = MovedTo(ps, hs, i)
               /\ \A r \in Prepared!ToSet(hs[i].ranges) :
                     /\ ps[i].start <= Prepared!Shift(r, ps[i].start).start
                     /\ Prepared!Shift(r, ps[i].start).end <= Prepared!Until(ps, hs, i)
    <3>1. /\ Prepared!Shifted(hs[i], ps[i].start, Prepared!Until(ps, hs, i)).trusted
          /\ hs[i] \in Prepared!Heard /\ ps[i].start \in Int
      BY <1>1, <2>1, <2>2
    <3>2. all[i].ranges = Prepared!Shifted(hs[i], ps[i].start, Prepared!Until(ps, hs, i)).ranges
      BY <2>2
    <3>. QED BY <3>1, <3>2, ShiftedKeeps DEF MovedTo
  <2>5. pieces \in Seq(Seq(Ranges)) /\ DOMAIN pieces = 1..Len(ps) /\ \A i \in 1..Len(ps) : pieces[i] = all[i].ranges
    BY <1>1, <2>3, <2>4
  <2>. HIDE DEF pieces
  <2>6. Prepared!ToSet(Prepared!FlattenSeq(pieces)) = UNION {Prepared!ToSet(pieces[i]) : i \in DOMAIN pieces}
    BY <2>5, FlattenedSet
  <2>7. \A i \in 1..Len(ps) : Prepared!ToSet(pieces[i]) = MovedTo(ps, hs, i)
    BY <2>4, <2>5
  <2>8. {Prepared!ToSet(pieces[i]) : i \in DOMAIN pieces} = {MovedTo(ps, hs, i) : i \in DOMAIN hs}
    BY <1>1, <2>5, <2>7
  <2>9. ASSUME NEW i \in DOMAIN hs, NEW j \in DOMAIN hs, i < j,
               NEW r \in MovedTo(ps, hs, i), NEW s \in MovedTo(ps, hs, j)
        PROVE  r.end <= s.start
    <3>1. PICK q \in Prepared!ToSet(hs[i].ranges), t \in Prepared!ToSet(hs[j].ranges) :
             r = Prepared!Shift(q, ps[i].start) /\ s = Prepared!Shift(t, ps[j].start)
      BY DEF MovedTo
    <3>2. i \in 1..Len(ps) /\ j \in 1..Len(ps) /\ i + 1 \in 1..Len(ps) /\ i < Len(ps)
      BY <1>1, <2>9
    <3>3. Prepared!Until(ps, hs, i) = ps[i + 1].start
      BY <3>2 DEF Prepared!Until
    <3>4. r.end <= ps[i + 1].start /\ ps[j].start <= s.start
      BY <2>4, <3>1, <3>2, <3>3
    <3>5. ps[i + 1].start <= ps[j].start
      BY <1>1, <2>9, <3>2 DEF InOrder
    <3>6. q \in Ranges /\ t \in Ranges
      <4>1. hs[i].ranges \in Seq(Ranges) /\ hs[j].ranges \in Seq(Ranges)
        BY <1>1, <3>2 DEF Prepared!Heard, Ranges
      <4>. QED BY <3>1, <4>1 DEF Prepared!ToSet
    <3>7. r.end \in Int /\ s.start \in Int
      BY <1>1, <3>1, <3>2, <3>6, ShiftedRange DEF Ranges
    <3>. QED BY <1>1, <3>2, <3>4, <3>5, <3>7
  <2>. QED BY <2>1, <2>6, <2>8, <2>9
<1>. QED BY <1>2, <1>3
-------------------------------------------------------------------------------
(***************************************************************************)
(* The media of a request for an AI edit, and what is put on its times.    *)
(***************************************************************************)
\* What is heard is complete before anything is planned on it.
Complete == Len(parts) = Len(Prepared!Parts(asked.body))

\* The awaits of the three kinds of requests.
AtItsAwait ==
    /\ at \in {"transcribe", "judge"} => asked.kind \in {"transcribe", "prepare"}
    /\ at = "effects" => asked.kind = "prepare"
    /\ at \in {"segments", "upload", "poll", "forget"} => asked.kind = "plan"
    /\ remote = "there" => at \in {"poll", "forget"}

\* A refused request is over, and none other is.
RefusedAtOnce ==
    /\ reply = "refused" => at = "end" /\ planner = Prepared!None /\ effects = <<>>
    /\ at = "read" \/ reply = "refused" \/ ~Prepared!Refused(asked)

\* Parts are transcribed in turn, and nothing is planned before they all are.
HearsFirst ==
    /\ at = "read" => parts = <<>>
    /\ at = "transcribe" => Len(parts) < Len(Prepared!Parts(asked.body))
    /\ at = "judge" => Complete
    /\ at \in {"read", "transcribe", "judge"} => planner = Prepared!None /\ effects = <<>>
    /\ effects /= <<>> => asked.kind = "prepare"
    /\ asked.kind = "prepare" /\ (planner /= Prepared!None \/ effects /= <<>> \/ at = "effects") =>
          Complete /\ Prepared!TimesProven

\* Effects are at the anchors.
OnAnchors ==
    /\ Prepared!IsInjective(effects) /\ Len(effects) <= MaxEffects
    /\ \A t \in Prepared!ToSet(effects) :
          t \in Prepared!Anchors(Prepared!Sure(Prepared!Transcript.ranges), Prepared!Duration)

\* Only what the app uploaded is gone, and when the request is over all of it is that the storage let go.
OnlyTemporary ==
    /\ stored \subseteq MediaKeys /\ MediaKeys \ stored \subseteq Prepared!Named(asked) \cap OwnKeys
    /\ at = "end" /\ reply /= "refused" => Prepared!Left = {}

EditInv ==
    /\ asked \in EditRequests /\ parts \in Seq(Replies)
    /\ AtItsAwait /\ RefusedAtOnce /\ HearsFirst /\ OnAnchors /\ OnlyTemporary

LEMMA EditRequestIs ==
  ASSUME NEW r \in EditRequests
  PROVE  /\ r \in Prepared!Request /\ r.kind \in {"transcribe", "prepare", "plan"}
         /\ r.proxy \in MediaKeys \cup {Prepared!None} /\ r.body \in Prepared!Media
         /\ r.kind = "plan" => r.body = Prepared!NoMedia
         /\ r.kind # "plan" => r.proxy = Prepared!None
<1>1. r \in Prepared!Request /\ IF r.kind = "plan" THEN r.body = Prepared!NoMedia ELSE r.proxy = Prepared!None
  BY EditsAssumption, Zenon DEF Prepared!AiEditRequestAssumption
<1>. QED BY <1>1 DEF Prepared!Request

LEMMA MediaIs ==
  ASSUME NEW body \in Prepared!Media
  PROVE  /\ body.audio \in MediaKeys \cup {Prepared!None} /\ body.video \in MediaKeys \cup {Prepared!None}
         /\ body.chunks \in Seq(PartsAt)
BY DEF Prepared!Media, PartsAt

\* One field of the body names the media.
LEMMA OneGiven ==
  ASSUME NEW body \in Prepared!Media, Prepared!MediaFit(body)
  PROVE  \/ body.chunks # <<>> /\ body.audio = Prepared!None /\ body.video = Prepared!None
         \/ body.chunks = <<>> /\ body.audio # Prepared!None /\ body.video = Prepared!None
         \/ body.chunks = <<>> /\ body.audio = Prepared!None /\ body.video # Prepared!None
<1>1. PICK field \in {"audio", "video", "chunks"} : Prepared!Given(body) = {field}
  BY DEF Prepared!MediaFit
<1>2. body.audio # Prepared!None <=> "audio" \in Prepared!Given(body)
  BY DEF Prepared!Given
<1>3. body.video # Prepared!None <=> "video" \in Prepared!Given(body)
  BY DEF Prepared!Given
<1>4. body.chunks # <<>> <=> "chunks" \in Prepared!Given(body)
  BY DEF Prepared!Given, Prepared!Chunked
<1>. QED BY <1>1, <1>2, <1>3, <1>4

\* The parts of a request that is not refused begin with the clip and follow each other.
LEMMA PartsFollow ==
  ASSUME NEW r \in EditRequests, r.kind # "plan", ~Prepared!Refused(r)
  PROVE  /\ Prepared!Parts(r.body) \in Seq(PartsAt) /\ Len(Prepared!Parts(r.body)) # 0
         /\ InOrder(Prepared!Parts(r.body)) /\ Prepared!Parts(r.body)[1].start = 0
         /\ \A i \in DOMAIN Prepared!Parts(r.body) : Prepared!Parts(r.body)[i].key \in OwnKeys
<1>1. /\ r.body \in Prepared!Media /\ Prepared!MediaFit(r.body)
      /\ \A p \in Prepared!ToSet(Prepared!Parts(r.body)) : p.key \in OwnKeys
  BY EditRequestIs DEF Prepared!Refused
<1>2. \A i \in DOMAIN Prepared!Parts(r.body) : Prepared!Parts(r.body)[i].key \in OwnKeys
  BY <1>1 DEF Prepared!ToSet
<1>3. CASE r.body.chunks # <<>>
  <2>1. Prepared!Parts(r.body) = r.body.chunks /\ r.body.chunks \in Seq(PartsAt) /\ Prepared!ChunksFit(r.body.chunks)
    BY <1>1, <1>3, MediaIs DEF Prepared!Parts, Prepared!Chunked, Prepared!MediaFit
  <2>. DEFINE c == r.body.chunks
  <2>. HIDE DEF c
  <2>2. c \in Seq(PartsAt) /\ Prepared!ChunksFit(c) /\ Prepared!Parts(r.body) = c
    BY <2>1 DEF c
  <2>3. Len(c) \in Nat /\ Len(c) # 0 /\ c[1].start = 0 /\ DOMAIN c = 1..Len(c)
    BY <2>2, EditsAssumption DEF Prepared!ChunksFit, Prepared!AiEditRequestAssumption
  <2>4. InOrder(c)
    <3>. SUFFICES ASSUME NEW i \in DOMAIN c, NEW j \in DOMAIN c, i < j PROVE c[i].start < c[j].start
      BY DEF InOrder
    <3>1. i \in 1..j - 1
      BY <2>3
    <3>. QED BY <2>2, <3>1 DEF Prepared!ChunksFit
  <2>. QED BY <1>2, <2>2, <2>3, <2>4
<1>4. CASE r.body.chunks = <<>>
  <2>1. PICK k \in MediaKeys : Prepared!Parts(r.body) = <<[key |-> k, start |-> 0]>>
    BY <1>1, <1>4, MediaIs, OneGiven DEF Prepared!Parts, Prepared!Chunked, Prepared!Part
  <2>2. [key |-> k, start |-> 0] \in PartsAt
    BY DEF PartsAt
  <2>3. Prepared!Parts(r.body) \in Seq(PartsAt) /\ Len(Prepared!Parts(r.body)) = 1 /\ Prepared!Parts(r.body)[1].start = 0
    BY <2>1, <2>2
  <2>4. InOrder(Prepared!Parts(r.body))
    BY <2>3 DEF InOrder
  <2>. QED BY <1>2, <2>3, <2>4
<1>. QED BY <1>3, <1>4

\* What is deleted after a request that is not refused is what it names, and is the user's.
LEMMA TemporaryIsNamed ==
  ASSUME NEW r \in EditRequests, ~Prepared!Refused(r)
  PROVE  /\ DOMAIN Prepared!Temporary(r) \subseteq Nat
         /\ {Prepared!Temporary(r)[i] : i \in DOMAIN Prepared!Temporary(r)} = Prepared!Named(r)
         /\ Prepared!Named(r) \subseteq OwnKeys
<1>1. CASE r.kind = "plan"
  <2>1. Prepared!Named(r) = {r.proxy} \ {Prepared!None}
    <3>1. r.body.audio = Prepared!None /\ r.body.chunks = <<>>
      BY <1>1, EditRequestIs DEF Prepared!NoMedia
    <3>2. {c.key : c \in Prepared!ToSet(r.body.chunks)} = {}
      BY <3>1 DEF Prepared!ToSet
    <3>. QED BY <3>1, <3>2 DEF Prepared!Named
  <2>2. r.proxy # Prepared!None => r.proxy \in OwnKeys
    BY <1>1 DEF Prepared!Refused
  <2>3. CASE r.proxy = Prepared!None
    BY <1>1, <2>1, <2>3 DEF Prepared!Temporary
  <2>4. CASE r.proxy # Prepared!None
    <3>1. Prepared!Temporary(r) = <<r.proxy>>
      BY <1>1, <2>4 DEF Prepared!Temporary
    <3>. QED BY <2>1, <2>2, <2>4, <3>1
  <2>. QED BY <2>3, <2>4
<1>2. CASE r.kind # "plan"
  <2>0. r.body \in Prepared!Media /\ Prepared!MediaFit(r.body) /\ r.proxy = Prepared!None
    BY <1>2, EditRequestIs DEF Prepared!Refused
  <2>1. CASE r.body.video # Prepared!None
    <3>1. r.body.audio = Prepared!None /\ r.body.chunks = <<>>
      BY <2>0, <2>1, OneGiven
    <3>2. Prepared!Named(r) = {}
      BY <2>0, <3>1 DEF Prepared!Named, Prepared!ToSet
    <3>3. Prepared!Temporary(r) = <<>>
      BY <1>2, <2>1 DEF Prepared!Temporary
    <3>. QED BY <3>2, <3>3
  <2>2. CASE r.body.video = Prepared!None
    <3>. DEFINE ps == Prepared!Parts(r.body)
    <3>1. /\ ps \in Seq(PartsAt)
          /\ \A i \in DOMAIN ps : ps[i].key \in OwnKeys
      BY <1>2, PartsFollow
    <3>2. Prepared!Temporary(r) = [i \in DOMAIN ps |-> ps[i].key]
      BY <1>2, <2>2 DEF Prepared!Temporary, Prepared!Uploaded
    <3>3. Prepared!Named(r) = {p.key : p \in Prepared!ToSet(ps)}
      <4>1. CASE r.body.chunks # <<>>
        <5>1. r.body.audio = Prepared!None /\ ps = r.body.chunks
          BY <2>0, <4>1, OneGiven DEF Prepared!Parts, Prepared!Chunked
        <5>2. Prepared!None \notin {p.key : p \in Prepared!ToSet(ps)}
          <6>1. ASSUME NEW p \in Prepared!ToSet(ps) PROVE p.key \in MediaKeys
            <7>1. p \in PartsAt
              BY <3>1 DEF Prepared!ToSet
            <7>. QED BY <7>1 DEF PartsAt
          <6>. QED BY <6>1, EditsAssumption DEF Prepared!AiEditRequestAssumption
        <5>. QED BY <2>0, <5>1, <5>2 DEF Prepared!Named
      <4>2. CASE r.body.chunks = <<>>
        <5>1. r.body.audio # Prepared!None /\ ps = <<[key |-> r.body.audio, start |-> 0]>>
          BY <2>0, <2>2, <4>2, OneGiven DEF Prepared!Parts, Prepared!Chunked, Prepared!Part
        <5>2. Prepared!ToSet(ps) = {[key |-> r.body.audio, start |-> 0]}
          BY <5>1 DEF Prepared!ToSet
        <5>3. {c.key : c \in Prepared!ToSet(r.body.chunks)} = {}
          BY <4>2 DEF Prepared!ToSet
        <5>. QED BY <2>0, <5>1, <5>2, <5>3 DEF Prepared!Named
      <4>. QED BY <4>1, <4>2
    <3>. HIDE DEF ps
    <3>4. Prepared!ToSet(ps) = {ps[i] : i \in DOMAIN ps} /\ DOMAIN ps \subseteq Nat
      BY <3>1 DEF Prepared!ToSet
    <3>. QED BY <3>1, <3>2, <3>3, <3>4
  <2>. QED BY <2>1, <2>2
<1>. QED BY <1>1, <1>2

\* A step keeps what it does not touch.
LEMMA DeletedIsNamed ==
  ASSUME asked \in EditRequests, ~Prepared!Refused(asked), Prepared!Left # {}
  PROVE  Prepared!Temporary(asked)[Prepared!Min(Prepared!Left)] \in Prepared!Named(asked) \cap OwnKeys
<1>1. Prepared!Left \subseteq DOMAIN Prepared!Temporary(asked)
  BY DEF Prepared!Left
<1>2. Prepared!Left \subseteq Nat
  BY <1>1, TemporaryIsNamed
<1>3. \E i \in Prepared!Left : \A j \in Prepared!Left : i <= j
  BY <1>2, LeastNat
<1>4. Prepared!Min(Prepared!Left) \in Prepared!Left
  BY <1>3 DEF Prepared!Min
<1>. QED BY <1>1, <1>4, TemporaryIsNamed

\* What a step says of the transcript holds as long as the request and what was heard of it stay.
LEMMA SameTranscript ==
  ASSUME UNCHANGED <<asked, parts>>
  PROVE  /\ Prepared!Transcript' = Prepared!Transcript /\ Prepared!Duration' = Prepared!Duration
         /\ Complete' = Complete /\ Prepared!TimesProven' = Prepared!TimesProven
BY DEF Prepared!Transcript, Prepared!Duration, Complete, Prepared!TimesProven

LEMMA SameMedia ==
  ASSUME UNCHANGED <<asked, stored, kept>> PROVE Prepared!Left' = Prepared!Left
BY DEF Prepared!Left

LEMMA EditInit == Prepared!Init => EditInv
<1>. SUFFICES ASSUME Prepared!Init PROVE EditInv
  OBVIOUS
<1>1. /\ asked \in EditRequests /\ at = "read" /\ parts = <<>> /\ reply = Prepared!None
      /\ effects = <<>> /\ planner = Prepared!None /\ remote = Prepared!None /\ stored = MediaKeys
  BY DEF Prepared!Init
<1>2. AtItsAwait /\ RefusedAtOnce
  BY <1>1 DEF AtItsAwait, RefusedAtOnce, Prepared!None
<1>3. HearsFirst
  BY <1>1 DEF HearsFirst
<1>4. OnAnchors
  <2>1. Prepared!IsInjective(<<>>) /\ Len(<<>>) = 0 /\ Prepared!ToSet(<<>>) = {}
    BY DEF Prepared!IsInjective, Prepared!ToSet
  <2>. QED BY <1>1, <2>1, EditsAssumption DEF OnAnchors, Prepared!AiEditRequestAssumption
<1>5. OnlyTemporary
  BY <1>1 DEF OnlyTemporary
<1>6. parts \in Seq(Replies)
  BY <1>1
<1>. QED BY <1>1, <1>2, <1>3, <1>4, <1>5, <1>6 DEF EditInv

\* OnAnchors and OnlyTemporary where neither the effects, what was heard nor the storage change.
LEMMA KeepsAnchors ==
  ASSUME EditInv, UNCHANGED <<asked, parts, effects>> PROVE OnAnchors'
BY SameTranscript DEF EditInv, OnAnchors

LEMMA KeepsMedia ==
  ASSUME EditInv, UNCHANGED <<asked, Prepared!Stored>>, at' = "end" => reply' = "refused" \/ Prepared!Left = {}
  PROVE  OnlyTemporary'
<1>1. UNCHANGED <<asked, stored, kept>>
  BY DEF Prepared!Stored
<1>2. Prepared!Left' = Prepared!Left
  BY <1>1, SameMedia
<1>. QED BY <1>1, <1>2 DEF EditInv, OnlyTemporary

LEMMA EditRefuses ==
  ASSUME EditInv, Prepared!Refuse \/ Prepared!RefusePlan PROVE EditInv'
<1>1. /\ at = "read" /\ at' = "end" /\ reply' = "refused"
      /\ UNCHANGED <<asked, parts, effects, planner, Prepared!Stored, Prepared!Model>>
  BY DEF Prepared!Refuse, Prepared!RefusePlan, Prepared!Goto
<1>2. UNCHANGED <<asked, parts, effects, planner, remote>>
  BY <1>1 DEF Prepared!Model
<1>3. AtItsAwait' /\ RefusedAtOnce'
  BY <1>1, <1>2 DEF EditInv, AtItsAwait, RefusedAtOnce, HearsFirst
<1>4. HearsFirst'
  BY <1>1, <1>2, SameTranscript DEF EditInv, HearsFirst
<1>5. OnAnchors' /\ OnlyTemporary'
  BY <1>1, <1>2, KeepsAnchors, KeepsMedia
<1>. QED BY <1>2, <1>3, <1>4, <1>5 DEF EditInv

LEMMA EditBegins ==
  ASSUME EditInv, Prepared!Begin PROVE EditInv'
<1>1. /\ at = "read" /\ ~Prepared!Refused(asked)
      /\ at' = IF asked.kind = "plan" THEN "segments" ELSE "transcribe"
      /\ UNCHANGED <<asked, parts, reply, effects, planner, Prepared!Stored, Prepared!Model>>
  BY DEF Prepared!Begin, Prepared!Goto
<1>2. UNCHANGED <<asked, parts, reply, effects, planner, remote>> /\ asked \in EditRequests
  BY <1>1 DEF Prepared!Model, EditInv
<1>3. AtItsAwait' /\ RefusedAtOnce'
  BY <1>1, <1>2, EditRequestIs DEF EditInv, AtItsAwait, RefusedAtOnce
<1>4. HearsFirst'
  <2>1. parts = <<>> /\ planner = Prepared!None /\ effects = <<>>
    BY <1>1 DEF EditInv, HearsFirst
  <2>2. at' = "transcribe" => Len(parts) < Len(Prepared!Parts(asked.body))
    <3>. SUFFICES ASSUME asked.kind # "plan" PROVE Len(parts) < Len(Prepared!Parts(asked.body))
      BY <1>1
    <3>1. Prepared!Parts(asked.body) \in Seq(PartsAt) /\ Len(Prepared!Parts(asked.body)) # 0
      BY <1>1, <1>2, PartsFollow
    <3>2. Len(Prepared!Parts(asked.body)) \in Nat
      BY <3>1
    <3>. QED BY <2>1, <3>1, <3>2
  <2>. QED BY <1>1, <1>2, <2>1, <2>2 DEF HearsFirst
<1>5. OnAnchors' /\ OnlyTemporary'
  BY <1>1, <1>2, KeepsAnchors, KeepsMedia
<1>. QED BY <1>2, <1>3, <1>4, <1>5 DEF EditInv

\* The steps that end the try, and those between two awaits that hear, place and plan nothing.
LEMMA EditGoesOn ==
  ASSUME EditInv,
         \/ Prepared!Fails \/ Prepared!Transcribed \/ Prepared!RefuseTimes
         \/ Prepared!AnswerRecipe \/ Prepared!Poll \/ Prepared!Answer
  PROVE  EditInv'
<1>1. /\ UNCHANGED <<asked, parts, effects, planner, remote, Prepared!Stored>>
      /\ at # "read" /\ at' \in {"finally", "end", "poll"}
      /\ at' = "end" => Prepared!Left = {}
      /\ at' = "poll" => at = "poll"
      /\ reply' \in {reply, "failed", "ok", "untimed"}
      /\ at' = "poll" \/ remote # "there"
  BY DEF EditInv, AtItsAwait, Prepared!Fails, Prepared!Transcribed, Prepared!RefuseTimes,
     Prepared!AnswerRecipe, Prepared!Poll, Prepared!Answer, Prepared!Ends, Prepared!Goto, Prepared!Model
<1>2. UNCHANGED <<asked, parts, effects, planner, remote>> /\ asked \in EditRequests
  BY <1>1 DEF EditInv
<1>3. AtItsAwait'
  BY <1>1, <1>2 DEF EditInv, AtItsAwait
<1>4. RefusedAtOnce'
  <2>1. reply' = "refused" => reply = "refused"
    BY <1>1
  <2>2. reply = "refused" => at = "end"
    BY DEF EditInv, RefusedAtOnce
  <2>3. at # "end"
    BY DEF Prepared!Fails, Prepared!Transcribed, Prepared!RefuseTimes, Prepared!AnswerRecipe, Prepared!Poll,
       Prepared!Answer
  <2>4. ~Prepared!Refused(asked)
    BY <1>1, <2>2, <2>3 DEF EditInv, RefusedAtOnce
  <2>. QED BY <1>2, <2>1, <2>2, <2>3, <2>4 DEF RefusedAtOnce
<1>5. HearsFirst'
  BY <1>1, <1>2, SameTranscript DEF EditInv, HearsFirst
<1>6. OnAnchors' /\ OnlyTemporary'
  BY <1>1, <1>2, KeepsAnchors, KeepsMedia
<1>. QED BY <1>2, <1>3, <1>4, <1>5, <1>6 DEF EditInv

LEMMA EditTranscribes ==
  ASSUME EditInv, Prepared!TranscribePart PROVE EditInv'
<1>. DEFINE ps == Prepared!Parts(asked.body)
<1>1. /\ at = "transcribe" /\ at' = IF Len(parts) + 1 = Len(ps) THEN "judge" ELSE "transcribe"
      /\ \E a \in Replies : parts' = Append(parts, a)
      /\ UNCHANGED <<asked, reply, effects, planner, Prepared!Stored, Prepared!Model>>
  BY DEF Prepared!TranscribePart, Prepared!Goto
<1>2. /\ UNCHANGED <<asked, reply, effects, planner, remote>> /\ asked \in EditRequests
      /\ parts \in Seq(Replies) /\ asked.kind \in {"transcribe", "prepare"}
      /\ ~Prepared!Refused(asked) /\ Len(parts) < Len(ps) /\ planner = Prepared!None /\ effects = <<>>
  BY <1>1 DEF Prepared!Model, EditInv, AtItsAwait, RefusedAtOnce, HearsFirst
<1>3. Len(ps) \in Nat
  <2>1. ps \in Seq(PartsAt)
    BY <1>2, PartsFollow
  <2>. QED BY <2>1
<1>. HIDE DEF ps
<1>4. parts' \in Seq(Replies) /\ Len(parts') = Len(parts) + 1 /\ Len(parts) \in Nat
  BY <1>1, <1>2
<1>5. AtItsAwait' /\ RefusedAtOnce'
  BY <1>1, <1>2 DEF EditInv, AtItsAwait, RefusedAtOnce
<1>6. HearsFirst'
  <2>1. at' = "transcribe" => Len(parts') < Len(ps)
    BY <1>1, <1>2, <1>3, <1>4
  <2>2. at' = "judge" => Len(parts') = Len(ps)
    BY <1>1, <1>4
  <2>. QED BY <1>1, <1>2, <2>1, <2>2 DEF HearsFirst, Complete, ps
<1>7. OnAnchors'
  BY <1>2 DEF EditInv, OnAnchors, Prepared!ToSet
<1>8. OnlyTemporary'
  BY <1>1, <1>2, KeepsMedia
<1>. QED BY <1>2, <1>4, <1>5, <1>6, <1>7, <1>8 DEF EditInv

LEMMA EditPrepares ==
  ASSUME EditInv, Prepared!Prepare PROVE EditInv'
<1>1. /\ at = "judge" /\ asked.kind = "prepare" /\ (asked.plan \/ asked.effects => Prepared!TimesProven)
      /\ planner' = IF asked.plan THEN "audio" ELSE Prepared!None
      /\ at' = IF asked.effects THEN "effects" ELSE "recipe"
      /\ UNCHANGED <<asked, parts, reply, effects, Prepared!Stored, Prepared!Model>>
  BY DEF Prepared!Prepare, Prepared!Goto, Prepared!Timed
<1>2. UNCHANGED <<asked, parts, reply, effects, remote>> /\ asked \in EditRequests
  BY <1>1 DEF Prepared!Model, EditInv
<1>3. AtItsAwait' /\ RefusedAtOnce'
  BY <1>1, <1>2 DEF EditInv, AtItsAwait, RefusedAtOnce
<1>4. HearsFirst'
  <2>1. Complete /\ effects = <<>>
    BY <1>1 DEF EditInv, HearsFirst
  <2>2. planner' # Prepared!None \/ at' = "effects" => Prepared!TimesProven
    BY <1>1
  <2>. QED BY <1>1, <1>2, <2>1, <2>2, SameTranscript DEF HearsFirst
<1>5. OnAnchors' /\ OnlyTemporary'
  BY <1>1, <1>2, KeepsAnchors, KeepsMedia
<1>. QED BY <1>2, <1>3, <1>4, <1>5 DEF EditInv

\* The times of effects are sorted, not changed.
LEMMA SortedTimes ==
  ASSUME NEW n \in Nat, NEW T, NEW times \in [1..n -> T],
         Prepared!IsInjective(times), NEW placed \in Prepared!Sorted(times)
  PROVE  /\ Prepared!IsInjective(placed) /\ Len(placed) = n /\ Len(times) = n
         /\ Prepared!ToSet(placed) \subseteq Prepared!ToSet(times)
<1>1. placed \in [1..n -> Prepared!ToSet(times)]
  BY DEF Prepared!Sorted
<1>2. PICK p \in [1..n -> 1..n] : Prepared!IsInjective(p) /\ \A i \in 1..n : placed[i] = times[p[i]]
  BY <1>1 DEF Prepared!Sorted
<1>3. Prepared!IsInjective(placed)
  <2>. SUFFICES ASSUME NEW i \in 1..n, NEW j \in 1..n, placed[i] = placed[j] PROVE i = j
    BY <1>1 DEF Prepared!IsInjective
  <2>1. times[p[i]] = times[p[j]] /\ p[i] \in 1..n /\ p[j] \in 1..n
    BY <1>2
  <2>2. p[i] = p[j]
    BY <2>1 DEF Prepared!IsInjective
  <2>. QED BY <1>2, <2>2 DEF Prepared!IsInjective
<1>4. Prepared!ToSet(placed) \subseteq Prepared!ToSet(times)
  BY <1>1 DEF Prepared!ToSet
<1>. QED BY <1>1, <1>3, <1>4

LEMMA EditPlaces ==
  ASSUME EditInv, Prepared!PlaceEffects PROVE EditInv'
<1>. DEFINE anchors == Prepared!Anchors(Prepared!Sure(Prepared!Transcript.ranges), Prepared!Duration)
<1>1. /\ at = "effects" /\ at' = "recipe" /\ UNCHANGED <<asked, parts, reply, planner, Prepared!Stored, Prepared!Model>>
      /\ \/ \E times \in Prepared!Suggested : Prepared!EffectsFit(times, anchors) /\ effects' \in Prepared!Sorted(times)
         \/ UNCHANGED effects
  BY DEF Prepared!PlaceEffects, Prepared!Goto
<1>2. /\ UNCHANGED <<asked, parts, reply, planner, remote>> /\ asked \in EditRequests
      /\ asked.kind = "prepare" /\ Complete /\ Prepared!TimesProven /\ reply # "refused"
  BY <1>1 DEF Prepared!Model, EditInv, AtItsAwait, HearsFirst, RefusedAtOnce
<1>3. AtItsAwait' /\ RefusedAtOnce'
  BY <1>1, <1>2 DEF EditInv, AtItsAwait, RefusedAtOnce
<1>4. HearsFirst'
  BY <1>1, <1>2, SameTranscript DEF HearsFirst
<1>. HIDE DEF anchors
<1>5. OnAnchors'
  <2>1. CASE UNCHANGED effects
    BY <1>2, <2>1, KeepsAnchors
  <2>2. CASE \E times \in Prepared!Suggested : Prepared!EffectsFit(times, anchors) /\ effects' \in Prepared!Sorted(times)
    <3>1. PICK times \in Prepared!Suggested : Prepared!EffectsFit(times, anchors) /\ effects' \in Prepared!Sorted(times)
      BY <2>2
    <3>2. PICK n \in 0..MaxEffects + 1 : times \in [1..n -> 0..Prepared!Duration]
      BY <3>1 DEF Prepared!Suggested
    <3>3. n \in Nat /\ Prepared!IsInjective(times) /\ Len(times) <= MaxEffects /\ Prepared!ToSet(times) \subseteq anchors
      BY <3>1, <3>2, EditsAssumption DEF Prepared!EffectsFit, Prepared!AiEditRequestAssumption
    <3>4. Prepared!IsInjective(effects') /\ Len(effects') <= MaxEffects /\ Prepared!ToSet(effects') \subseteq anchors
      BY <3>1, <3>2, <3>3, SortedTimes
    <3>5. Prepared!Anchors(Prepared!Sure(Prepared!Transcript.ranges), Prepared!Duration)' = anchors
      BY <1>2, SameTranscript DEF anchors
    <3>. QED BY <3>4, <3>5 DEF OnAnchors
  <2>. QED BY <1>1, <2>1, <2>2
<1>6. OnlyTemporary'
  BY <1>1, <1>2, KeepsMedia
<1>. QED BY <1>2, <1>3, <1>4, <1>5, <1>6 DEF EditInv

\* The steps of POST /plan, which neither hear nor place anything.
LEMMA EditWatches ==
  ASSUME EditInv,
         Prepared!ReadSegments \/ Prepared!Upload \/ Prepared!Watched \/ Prepared!WatchFails \/ Prepared!Forget
  PROVE  EditInv'
<1>1. /\ at \in {"segments", "upload", "poll", "forget"}
      /\ at' \in {"upload", "poll", "forget", "recipe", "finally"}
      /\ reply' \in {reply, "untimed"}
      /\ UNCHANGED <<asked, parts, effects, Prepared!Stored>>
      /\ remote' = "there" => at' \in {"poll", "forget"}
  BY DEF EditInv, AtItsAwait, Prepared!ReadSegments, Prepared!Upload, Prepared!Watched, Prepared!WatchFails,
     Prepared!Forget, Prepared!Ends, Prepared!Goto, Prepared!Model
<1>2. /\ UNCHANGED <<asked, parts, effects>> /\ asked \in EditRequests /\ asked.kind = "plan"
      /\ reply # "refused" /\ ~Prepared!Refused(asked) /\ effects = <<>>
  BY <1>1 DEF EditInv, AtItsAwait, RefusedAtOnce, HearsFirst
<1>3. AtItsAwait' /\ RefusedAtOnce'
  BY <1>1, <1>2 DEF AtItsAwait, RefusedAtOnce
<1>4. HearsFirst'
  BY <1>1, <1>2 DEF HearsFirst
<1>5. OnAnchors' /\ OnlyTemporary'
  BY <1>1, <1>2, KeepsAnchors, KeepsMedia
<1>. QED BY <1>2, <1>3, <1>4, <1>5 DEF EditInv

LEMMA EditDeletes ==
  ASSUME EditInv, NEW key \in MediaKeys, Prepared!Delete(key) \/ Prepared!CleanUp(key) PROVE EditInv'
<1>1. /\ UNCHANGED <<asked, at, parts, reply, effects, planner, remote>> /\ asked \in EditRequests
      /\ stored' = stored \/ stored' = stored \ {key}
      /\ kept' = kept \/ kept' = kept \cup {key}
  BY DEF EditInv, Prepared!Delete, Prepared!CleanUp, Prepared!Model
<1>2. key \in Prepared!Named(asked) \cap OwnKeys
  <2>1. CASE Prepared!CleanUp(key)
    BY <2>1 DEF Prepared!CleanUp
  <2>2. CASE Prepared!Delete(key)
    <3>1. at = "finally" /\ Prepared!Left # {} /\ key = Prepared!Temporary(asked)[Prepared!Min(Prepared!Left)]
      BY <2>2 DEF Prepared!Delete
    <3>2. ~Prepared!Refused(asked)
      BY <3>1 DEF EditInv, RefusedAtOnce
    <3>. QED BY <1>1, <3>1, <3>2, DeletedIsNamed
  <2>. QED BY <2>1, <2>2
<1>3. AtItsAwait' /\ RefusedAtOnce'
  BY <1>1 DEF EditInv, AtItsAwait, RefusedAtOnce
<1>4. HearsFirst'
  BY <1>1, SameTranscript DEF EditInv, HearsFirst
<1>5. OnAnchors'
  BY <1>1, KeepsAnchors
<1>6. OnlyTemporary'
  <2>1. Prepared!Left' \subseteq Prepared!Left
    BY <1>1 DEF Prepared!Left
  <2>2. stored' \subseteq MediaKeys /\ MediaKeys \ stored' \subseteq Prepared!Named(asked) \cap OwnKeys
    BY <1>1, <1>2 DEF EditInv, OnlyTemporary
  <2>. QED BY <1>1, <2>1, <2>2 DEF EditInv, OnlyTemporary
<1>. QED BY <1>1, <1>3, <1>4, <1>5, <1>6 DEF EditInv

LEMMA EditStutters ==
  ASSUME EditInv, UNCHANGED Prepared!vars PROVE EditInv'
<1>1. UNCHANGED <<asked, at, parts, reply, effects, planner, remote, stored, kept>>
  BY DEF Prepared!vars
<1>2. AtItsAwait' /\ RefusedAtOnce'
  BY <1>1 DEF EditInv, AtItsAwait, RefusedAtOnce
<1>3. HearsFirst'
  BY <1>1, SameTranscript DEF EditInv, HearsFirst
<1>4. OnAnchors'
  BY <1>1, KeepsAnchors
<1>5. OnlyTemporary'
  BY <1>1, SameMedia DEF EditInv, OnlyTemporary
<1>. QED BY <1>1, <1>2, <1>3, <1>4, <1>5 DEF EditInv

LEMMA EditSteps == EditInv /\ [Prepared!Next]_(Prepared!vars) => EditInv'
<1>. SUFFICES ASSUME EditInv, [Prepared!Next]_(Prepared!vars) PROVE EditInv'
  OBVIOUS
<1>1. CASE Prepared!Refuse \/ Prepared!RefusePlan
  BY <1>1, EditRefuses
<1>2. CASE Prepared!Begin
  BY <1>2, EditBegins
<1>3. CASE \/ Prepared!Fails \/ Prepared!Transcribed \/ Prepared!RefuseTimes
           \/ Prepared!AnswerRecipe \/ Prepared!Poll \/ Prepared!Answer
  BY <1>3, EditGoesOn
<1>4. CASE Prepared!TranscribePart
  BY <1>4, EditTranscribes
<1>5. CASE Prepared!Prepare
  BY <1>5, EditPrepares
<1>6. CASE Prepared!PlaceEffects
  BY <1>6, EditPlaces
<1>7. CASE Prepared!ReadSegments \/ Prepared!Upload \/ Prepared!Watched \/ Prepared!WatchFails \/ Prepared!Forget
  BY <1>7, EditWatches
<1>8. CASE \E key \in MediaKeys : Prepared!Delete(key) \/ Prepared!CleanUp(key)
  BY <1>8, EditDeletes
<1>9. CASE UNCHANGED Prepared!vars
  BY <1>9, EditStutters
<1>. QED BY <1>1, <1>2, <1>3, <1>4, <1>5, <1>6, <1>7, <1>8, <1>9 DEF Prepared!Next

\* The inductive invariant gives the property.
LEMMA EditServes == EditInv => UploadsServeTheirEdit
<1>. SUFFICES ASSUME EditInv PROVE Prepared!TemporaryMediaGo /\ Prepared!EffectsAtWords
  BY DEF UploadsServeTheirEdit
<1>0. asked \in EditRequests /\ parts \in Seq(Replies)
  BY DEF EditInv
<1>1. Prepared!TemporaryMediaGo
  <2>1. ASSUME at = "end", Prepared!Entered
        PROVE  Prepared!Named(asked) \cap stored \subseteq kept /\ remote # "there"
    <3>1. ~Prepared!Refused(asked) /\ Prepared!Left = {} /\ remote # "there"
      BY <2>1 DEF EditInv, Prepared!Entered, RefusedAtOnce, OnlyTemporary, AtItsAwait
    <3>2. ASSUME NEW k \in Prepared!Named(asked), k \in stored PROVE k \in kept
      <4>1. PICK i \in DOMAIN Prepared!Temporary(asked) : k = Prepared!Temporary(asked)[i]
        BY <1>0, <3>1, <3>2, TemporaryIsNamed
      <4>2. i \notin Prepared!Left
        BY <3>1
      <4>. QED BY <3>2, <4>1, <4>2 DEF Prepared!Left
    <3>. QED BY <3>1, <3>2
  <2>. QED BY <2>1 DEF EditInv, OnlyTemporary, Prepared!TemporaryMediaGo
<1>2. ASSUME asked.kind = "prepare", planner # Prepared!None \/ effects # <<>>
      PROVE  /\ Prepared!ToSet(Prepared!Transcript.ranges) = UNION {Prepared!Where(i) : i \in DOMAIN parts}
             /\ \A i, j \in DOMAIN parts : i < j =>
                   \A r \in Prepared!Where(i), s \in Prepared!Where(j) : r.end <= s.start
  <2>. DEFINE ps == Prepared!Parts(asked.body)
  <2>1. Len(parts) = Len(ps) /\ Prepared!Transcript.trusted
    BY <1>2 DEF EditInv, HearsFirst, Complete, Prepared!TimesProven
  <2>2. ~Prepared!Refused(asked)
    BY <1>2 DEF EditInv, HearsFirst, RefusedAtOnce
  <2>3. ps \in Seq(PartsAt) /\ Len(ps) # 0 /\ InOrder(ps) /\ ps[1].start = 0
    BY <1>0, <1>2, <2>2, PartsFollow
  <2>4. parts \in Seq(Prepared!Heard)
    <3>1. Replies \subseteq Prepared!Heard
      BY EditsAssumption, Zenon DEF Prepared!AiEditRequestAssumption
    <3>. QED BY <1>0, <3>1
  <2>5. Prepared!Transcript = Prepared!Merged(ps, parts)
    BY DEF Prepared!Transcript
  <2>6. \A i : Prepared!Where(i) = MovedTo(ps, parts, i)
    BY DEF Prepared!Where, MovedTo
  <2>. HIDE DEF ps
  <2>. QED BY <2>1, <2>3, <2>4, <2>5, <2>6, MergedKeeps
<1>3. ASSUME NEW t \in Prepared!ToSet(effects)
      PROVE  \E i \in DOMAIN parts : \E r \in Prepared!Where(i) : r.sure /\ t \in {r.start, r.end}
  <2>1. effects # <<>>
    BY <1>3 DEF Prepared!ToSet
  <2>2. asked.kind = "prepare"
    BY <2>1 DEF EditInv, HearsFirst
  <2>3. PICK r \in Prepared!Sure(Prepared!Transcript.ranges) : t \in {r.start, r.end}
    BY <1>3 DEF EditInv, OnAnchors, Prepared!Anchors
  <2>4. r \in Prepared!ToSet(Prepared!Transcript.ranges) /\ r.sure
    BY <2>3 DEF Prepared!Sure
  <2>5. PICK i \in DOMAIN parts : r \in Prepared!Where(i)
    BY <1>2, <2>1, <2>2, <2>4
  <2>. QED BY <2>3, <2>4, <2>5
<1>4. Prepared!IsInjective(effects) /\ Len(effects) <= MaxEffects
  BY DEF EditInv, OnAnchors
<1>5. Prepared!EffectsAtWords
  BY <1>2, <1>3, <1>4 DEF Prepared!EffectsAtWords
<1>. QED BY <1>1, <1>5

\* Whatever the requests and transcripts: what was uploaded for a request goes with it and nothing else
\* does; effects are at the ends of what was surely heard; and what is planned on several parts is planned
\* on their times, part after part.
THEOREM UploadsServe == Prepared!Spec => []UploadsServeTheirEdit
<1>1. Prepared!Init => EditInv
  BY EditInit
<1>2. EditInv /\ [Prepared!Next]_(Prepared!vars) => EditInv'
  BY EditSteps
<1>3. EditInv => UploadsServeTheirEdit
  BY EditServes
<1>. QED BY <1>1, <1>2, <1>3, PTL DEF Prepared!Spec

-------------------------------------------------------------------------------
(***************************************************************************)
(* The repeats of a scan, and what is cut of them.                         *)
(***************************************************************************)
\* A repeat ends before n: its occurrences follow one another, each with the words of the last, all of
\* which may be suggested, and nothing parts them.
Behind(g) == g.last + g.size
IsRepeat(g) ==
    /\ DOMAIN g = {"size", "at", "first", "last"}
    /\ g.size \in Nat \ {0} /\ g.first \in Nat \ {0} /\ g.last \in Nat
    /\ g.first < g.last /\ Behind(g) - 1 <= Len(tokens)
    /\ g.at \subseteq Nat /\ g.first \in g.at /\ g.last \in g.at
    /\ \A s \in g.at : g.first <= s /\ (s = g.last \/ s + g.size <= g.last)
    /\ \A s \in g.at : \A k \in 0..g.size - 1 :
          Recipe!CanSuggest(s + k) /\ tokens[s + k].text = tokens[g.first + k].text
    /\ \A k \in g.first..Behind(g) - 2 : Recipe!SafeAfter(k)

Apart(g, h) == Behind(g) <= h.first \/ Behind(h) <= g.first

RepeatsInv ==
    /\ Len(tokens) \in Nat /\ index \in Nat \ {0}
    /\ repeat # Recipe!NoRun => IsRepeat(repeat) /\ repeat.first = index
    /\ \A g \in groups : IsRepeat(g) /\ Behind(g) <= index
    /\ \A g, h \in groups : g = h \/ Apart(g, h)

ScanInv ==
    /\ \E r \in RecipeRequests : filmed = r.clip
    /\ editing \in {"plan", "clean"} => index = 1 /\ repeat = Recipe!NoRun /\ groups = {}
    /\ RepeatsInv

LEMMA RepeatTypes ==
  ASSUME NEW g, IsRepeat(g)
  PROVE  /\ g.size \in Nat \ {0} /\ g.first \in Nat \ {0} /\ g.last \in Nat /\ g.first < g.last
         /\ Behind(g) = g.last + g.size /\ Behind(g) \in Nat /\ g.last < Behind(g)
<1>1. g.size \in Nat \ {0} /\ g.first \in Nat \ {0} /\ g.last \in Nat /\ g.first < g.last
  BY DEF IsRepeat
<1>. QED BY <1>1 DEF Behind

LEMMA ScanInit == Recipe!Init => ScanInv
<1>. SUFFICES ASSUME Recipe!Init PROVE ScanInv
  OBVIOUS
<1>1. /\ \E r \in RecipeRequests : filmed = r.clip
      /\ tokens = <<>> /\ index = 1 /\ repeat = Recipe!NoRun /\ groups = {}
  BY DEF Recipe!Init
<1>2. Len(tokens) \in Nat
  BY <1>1
<1>. QED BY <1>1, <1>2 DEF ScanInv, RepeatsInv

\* The same words and the same repeats.
LEMMA ScanStays ==
  ASSUME ScanInv, UNCHANGED <<Recipe!scanVars, filmed>>, editing' \in {"plan", "clean"} => editing \in {"plan", "clean"}
  PROVE  ScanInv'
<1>1. UNCHANGED <<tokens, index, repeat, groups, filmed>>
  BY DEF Recipe!scanVars
<1>2. \A g : IsRepeat(g)' <=> IsRepeat(g)
  BY <1>1 DEF IsRepeat, Recipe!SafeAfter, Recipe!CanSuggest, Behind
<1>3. RepeatsInv'
  BY <1>1, <1>2 DEF ScanInv, RepeatsInv, Behind, Apart
<1>. QED BY <1>1, <1>3 DEF ScanInv

LEMMA ScanBegins == ASSUME ScanInv, Recipe!BeginScan PROVE ScanInv'
<1>1. /\ editing = "clean" /\ editing' = "scan" /\ tokens' = filmed.words
      /\ UNCHANGED <<index, repeat, groups, filmed>>
  BY DEF Recipe!BeginScan
<1>2. index = 1 /\ repeat = Recipe!NoRun /\ groups = {}
  BY <1>1 DEF ScanInv
<1>3. Len(filmed.words) \in Nat
  <2>1. PICK r \in RecipeRequests : filmed = r.clip
    BY DEF ScanInv
  <2>2. filmed.words \in Seq(Recipe!ToSet(filmed.words))
    <3>1. \A q \in RecipeRequests : q.clip.words \in Seq(Recipe!ToSet(q.clip.words))
      BY RecipeAssumption, Zenon DEF Recipe!AiEditRecipeAssumption
    <3>2. r.clip.words \in Seq(Recipe!ToSet(r.clip.words))
      BY <3>1, Zenon
    <3>. QED BY <2>1, <3>2, Zenon
  <2>. QED BY <2>2
<1>4. RepeatsInv'
  BY <1>1, <1>2, <1>3 DEF RepeatsInv
<1>. QED BY <1>1, <1>4 DEF ScanInv

\* A phrase that is said twice is a repeat.
LEMMA FoundIsRepeat ==
  ASSUME RepeatsInv, NEW size \in Nat \ {0}, Recipe!Repeats(index, size),
         NEW g, g = [size |-> size, at |-> {index, index + size}, first |-> index, last |-> index + size]
  PROVE  IsRepeat(g)
<1>1. /\ index + 2 * size - 1 <= Len(tokens)
      /\ \A k \in 0..size - 1 : Recipe!CanSuggest(index + k) /\ (k > 0 => Recipe!SafeAfter(index + k - 1))
      /\ Recipe!SameWords(index, size, index + size) /\ \A k \in 0..size - 1 : Recipe!SafeAfter((index + size) + k - 1)
  BY DEF Recipe!Repeats, Recipe!MatchesPhrase
<1>2. \A k \in 0..size - 1 :
         Recipe!CanSuggest((index + size) + k) /\ tokens[(index + size) + k].text = tokens[index + k].text
  BY <1>1 DEF Recipe!SameWords
<1>3. index \in Nat \ {0} /\ Len(tokens) \in Nat
  BY DEF RepeatsInv
<1>4. g.size = size /\ g.at = {index, index + size} /\ g.first = index /\ g.last = index + size
  OBVIOUS
<1>5. Behind(g) - 1 <= Len(tokens)
  BY <1>1, <1>3, <1>4 DEF Behind
<1>6. ASSUME NEW k \in index..index + size + size - 2 PROVE Recipe!SafeAfter(k)
  <2>1. CASE k < index + size - 1
    <3>1. (k - index) + 1 \in 0..size - 1 /\ (k - index) + 1 > 0 /\ index + ((k - index) + 1) - 1 = k
      BY <1>3, <2>1
    <3>. QED BY <1>1, <3>1
  <2>2. CASE ~(k < index + size - 1)
    <3>1. (k - (index + size)) + 1 \in 0..size - 1 /\ (index + size) + ((k - (index + size)) + 1) - 1 = k
      BY <1>3, <2>2
    <3>. QED BY <1>1, <3>1
  <2>. QED BY <2>1, <2>2
<1>7. \A k \in g.first..Behind(g) - 2 : Recipe!SafeAfter(k)
  BY <1>3, <1>4, <1>6 DEF Behind
<1>8. \A s \in g.at : \A k \in 0..g.size - 1 :
         Recipe!CanSuggest(s + k) /\ tokens[s + k].text = tokens[g.first + k].text
  BY <1>1, <1>2, <1>4
<1>9. /\ g.size \in Nat \ {0} /\ g.first \in Nat \ {0} /\ g.last \in Nat /\ g.first < g.last
      /\ g.at \subseteq Nat /\ g.first \in g.at /\ g.last \in g.at
      /\ \A s \in g.at : g.first <= s /\ (s = g.last \/ s + g.size <= g.last)
  BY <1>3, <1>4
<1>10. DOMAIN g = {"size", "at", "first", "last"}
  BY <1>4
<1>. QED BY <1>5, <1>7, <1>8, <1>9, <1>10 DEF IsRepeat

\* It stays one with the next occurrence.
LEMMA CountedIsRepeat ==
  ASSUME RepeatsInv, NEW g, IsRepeat(g), Recipe!MatchesPhrase(g.first, g.size, Recipe!Following(g)),
         NEW h, h = [g EXCEPT !.at = g.at \cup {Recipe!Following(g)}, !.last = Recipe!Following(g)]
  PROVE  IsRepeat(h)
<1>. DEFINE n == g.last + g.size
<1>0. Recipe!Following(g) = n /\ n \in Nat /\ g.size \in Nat \ {0} /\ g.first \in Nat \ {0} /\ g.last \in Nat
  BY DEF IsRepeat, Recipe!Following
<1>1. /\ n + g.size - 1 <= Len(tokens)
      /\ \A k \in 0..g.size - 1 : Recipe!CanSuggest(n + k) /\ tokens[n + k].text = tokens[g.first + k].text
      /\ \A k \in 0..g.size - 1 : Recipe!SafeAfter(n + k - 1)
  BY <1>0 DEF Recipe!MatchesPhrase, Recipe!SameWords
<1>11. /\ h.at = g.at \cup {n} /\ h.last = n /\ h.size = g.size /\ h.first = g.first
       /\ DOMAIN h = {"size", "at", "first", "last"}
  BY <1>0 DEF IsRepeat
<1>2. h.size = g.size /\ h.at = g.at \cup {n} /\ h.first = g.first /\ h.last = n /\ Behind(h) = n + g.size
  BY <1>0, <1>11 DEF Behind
<1>. HIDE DEF n
<1>3. n = g.last + g.size
  BY DEF n
<1>4. ASSUME NEW s \in h.at PROVE h.first <= s /\ (s = h.last \/ s + h.size <= h.last)
  <2>1. CASE s = n
    BY <1>0, <1>2, <1>3, <2>1 DEF IsRepeat
  <2>2. CASE s \in g.at
    <3>1. s \in Nat /\ g.first <= s /\ (s = g.last \/ s + g.size <= g.last)
      BY <2>2 DEF IsRepeat
    <3>. QED BY <1>0, <1>2, <1>3, <3>1
  <2>. QED BY <1>2, <2>1, <2>2
<1>5. \A s \in h.at : \A k \in 0..h.size - 1 :
         Recipe!CanSuggest(s + k) /\ tokens[s + k].text = tokens[h.first + k].text
  BY <1>1, <1>2 DEF IsRepeat
<1>6. ASSUME NEW k \in h.first..Behind(h) - 2 PROVE Recipe!SafeAfter(k)
  <2>1. CASE k <= n - 2
    <3>1. k \in g.first..Behind(g) - 2
      BY <1>0, <1>2, <1>3, <2>1 DEF Behind
    <3>. QED BY <3>1 DEF IsRepeat
  <2>2. CASE ~(k <= n - 2)
    <3>1. (k - n) + 1 \in 0..g.size - 1 /\ n + ((k - n) + 1) - 1 = k
      BY <1>0, <1>2, <2>2
    <3>. QED BY <1>1, <3>1
  <2>. QED BY <2>1, <2>2
<1>7. /\ h.size \in Nat \ {0} /\ h.first \in Nat \ {0} /\ h.last \in Nat /\ h.first < h.last
      /\ h.at \subseteq Nat /\ h.first \in h.at /\ h.last \in h.at
  <2>1. g.first < g.last /\ g.at \subseteq Nat /\ g.first \in g.at
    BY DEF IsRepeat
  <2>2. g.first < n
    BY <1>0, <1>3, <2>1
  <2>. QED BY <1>0, <1>2, <2>1, <2>2
<1>8. Behind(h) - 1 <= Len(tokens)
  BY <1>0, <1>1, <1>2
<1>9. DOMAIN h = {"size", "at", "first", "last"}
  BY <1>11
<1>10. \A k \in h.first..Behind(h) - 2 : Recipe!SafeAfter(k)
  BY <1>6
<1>. QED BY <1>4, <1>5, <1>7, <1>8, <1>9, <1>10 DEF IsRepeat

LEMMA ScanGoesOn == ASSUME ScanInv, Recipe!ScanStep PROVE ScanInv'
<1>0. /\ editing = "scan" /\ UNCHANGED <<filmed, editing, tokens>> /\ Recipe!Scan /\ RepeatsInv
      /\ index \in Nat \ {0} /\ Len(tokens) \in Nat
  BY DEF Recipe!ScanStep, Recipe!Scan, Recipe!FindRepeat, Recipe!CountOccurrence, Recipe!CloseRepeat,
     Recipe!NoRepeat, ScanInv, RepeatsInv
<1>1. \A g : IsRepeat(g)' <=> IsRepeat(g)
  BY <1>0 DEF IsRepeat, Recipe!SafeAfter, Recipe!CanSuggest, Behind
<1>2. RepeatsInv'
  <2>1. ASSUME NEW size \in 1..MaxPhrase, Recipe!FindRepeat(size) PROVE RepeatsInv'
    <3>1. /\ Recipe!Repeats(index, size) /\ UNCHANGED <<index, groups>>
          /\ repeat' = [size |-> size, at |-> {index, index + size}, first |-> index, last |-> index + size]
      BY <2>1 DEF Recipe!FindRepeat
    <3>2. size \in Nat \ {0}
      BY RecipeAssumption DEF Recipe!AiEditRecipeAssumption, Recipe!SpeechReductionAssumption
    <3>3. IsRepeat(repeat') /\ repeat'.first = index
      BY <1>0, <3>1, <3>2, FoundIsRepeat
    <3>4. IsRepeat(repeat)'
      BY <1>0, <3>3 DEF IsRepeat, Recipe!SafeAfter, Recipe!CanSuggest, Behind
    <3>. QED BY <1>0, <1>1, <3>1, <3>3, <3>4 DEF RepeatsInv
  <2>2. ASSUME Recipe!CountOccurrence PROVE RepeatsInv'
    <3>1. /\ repeat # Recipe!NoRun /\ UNCHANGED <<index, groups>>
          /\ Recipe!MatchesPhrase(repeat.first, repeat.size, Recipe!Following(repeat))
          /\ repeat' = [repeat EXCEPT !.at = repeat.at \cup {Recipe!Following(repeat)},
                                   !.last = Recipe!Following(repeat)]
      BY <2>2 DEF Recipe!CountOccurrence
    <3>2. IsRepeat(repeat) /\ repeat.first = index
      BY <1>0, <3>1 DEF RepeatsInv
    <3>3. IsRepeat(repeat')
      BY <1>0, <3>1, <3>2, CountedIsRepeat
    <3>4. IsRepeat(repeat)'
      BY <1>0, <3>3 DEF IsRepeat, Recipe!SafeAfter, Recipe!CanSuggest, Behind
    <3>5. repeat'.first = index
      BY <3>1, <3>2 DEF IsRepeat
    <3>. QED BY <1>0, <1>1, <3>1, <3>4, <3>5 DEF RepeatsInv
  <2>3. ASSUME Recipe!CloseRepeat PROVE RepeatsInv'
    <3>1. repeat # Recipe!NoRun /\ groups' = groups \cup {repeat} /\ repeat' = Recipe!NoRun /\ index' = Behind(repeat)
      BY <2>3 DEF Recipe!CloseRepeat, Recipe!Following, Behind
    <3>2. IsRepeat(repeat) /\ repeat.first = index
      BY <1>0, <3>1 DEF RepeatsInv
    <3>3. index' \in Nat \ {0} /\ index <= index'
      BY <1>0, <3>1, <3>2, RepeatTypes
    <3>4. \A g \in groups' : IsRepeat(g) /\ Behind(g) <= index'
      <4>1. \A g \in groups : IsRepeat(g) /\ Behind(g) <= index /\ Behind(g) \in Int
        BY <1>0, RepeatTypes DEF RepeatsInv
      <4>. QED BY <1>0, <3>1, <3>2, <3>3, <4>1
    <3>5. \A g, h \in groups' : g = h \/ Apart(g, h)
      BY <1>0, <3>1, <3>2 DEF RepeatsInv, Apart
    <3>. QED BY <1>0, <1>1, <3>1, <3>3, <3>4, <3>5 DEF RepeatsInv, Behind, Apart
  <2>4. ASSUME Recipe!NoRepeat PROVE RepeatsInv'
    <3>1. index' = index + 1 /\ UNCHANGED <<repeat, groups>> /\ repeat = Recipe!NoRun
      BY <2>4 DEF Recipe!NoRepeat, Recipe!Scanning
    <3>2. \A g \in groups : IsRepeat(g) /\ Behind(g) <= index + 1
      <4>1. \A g \in groups : IsRepeat(g) /\ Behind(g) <= index /\ Behind(g) \in Int
        BY <1>0, RepeatTypes DEF RepeatsInv
      <4>. QED BY <1>0, <4>1
    <3>. QED BY <1>0, <1>1, <3>1, <3>2 DEF RepeatsInv, Behind, Apart
  <2>. QED BY <1>0, <2>1, <2>2, <2>3, <2>4 DEF Recipe!Scan
<1>. QED BY <1>0, <1>2 DEF ScanInv

LEMMA ScanNext == ScanInv /\ [Recipe!Next]_(Recipe!vars) => ScanInv'
<1>. SUFFICES ASSUME ScanInv, [Recipe!Next]_(Recipe!vars) PROVE ScanInv'
  OBVIOUS
<1>1. CASE Recipe!BeginScan
  BY <1>1, ScanBegins
<1>2. CASE Recipe!ScanStep
  BY <1>2, ScanGoesOn
<1>3. CASE \/ Recipe!RefuseTiming \/ Recipe!RulesPlan \/ Recipe!NoPlanAsked
           \/ \E suggested \in Suggestions : Recipe!ModelPlans(suggested)
  <2>1. editing = "plan" /\ UNCHANGED <<Recipe!scanVars, filmed>>
    BY <1>3 DEF Recipe!RefuseTiming, Recipe!ModelPlans, Recipe!RulesPlan, Recipe!NoPlanAsked, Recipe!Planned
  <2>. QED BY <2>1, ScanStays
<1>4. CASE Recipe!BuildScanned \/ Recipe!BuildUnproven \/ Recipe!BuildListed \/ Recipe!BuildPlain
  <2>1. editing' = "done" /\ UNCHANGED <<Recipe!scanVars, filmed>>
    BY <1>4 DEF Recipe!BuildScanned, Recipe!BuildUnproven, Recipe!BuildListed, Recipe!BuildPlain, Recipe!Build
  <2>. QED BY <2>1, ScanStays
<1>5. CASE UNCHANGED Recipe!vars
  BY <1>5, ScanStays DEF Recipe!vars
<1>. QED BY <1>1, <1>2, <1>3, <1>4, <1>5 DEF Recipe!Next

\* The words that are cut of a repeat are those before its last occurrence.
LEMMA CutBefore ==
  ASSUME NEW g, IsRepeat(g), NEW i \in Recipe!CutWords(g)
  PROVE  \E s \in g.at, k \in 0..g.size - 1 : i = s + k /\ s + g.size <= g.last
<1>1. PICK s \in g.at \ {g.last} : s <= i /\ i < s + g.size
  BY DEF Recipe!CutWords, Recipe!Anchor
<1>2. i \in Nat /\ s \in Nat /\ g.size \in Nat
  BY <1>1 DEF Recipe!CutWords, IsRepeat
<1>3. i - s \in 0..g.size - 1 /\ i = s + (i - s)
  BY <1>1, <1>2
<1>. QED BY <1>1, <1>3 DEF IsRepeat

LEMMA RepeatsAreSaid == RepeatsInv => Recipe!SaidAgain
<1>. SUFFICES ASSUME RepeatsInv, NEW i \in Recipe!SpeechCuts
              PROVE  /\ Recipe!CanSuggest(i)
                     /\ \E j \in i + 1..Len(tokens) :
                           /\ j \notin Recipe!SpeechCuts /\ tokens[j].text = tokens[i].text
                           /\ \A k \in i..j - 1 : Recipe!SafeAfter(k)
  BY DEF Recipe!SaidAgain
<1>1. PICK g \in groups : i \in Recipe!CutWords(g)
  BY DEF Recipe!SpeechCuts
<1>2. IsRepeat(g) /\ Len(tokens) \in Nat
  BY DEF RepeatsInv
<1>3. PICK s \in g.at, n \in 0..g.size - 1 : i = s + n /\ s + g.size <= g.last
  BY <1>1, <1>2, CutBefore
<1>4. PICK size \in Nat \ {0}, first \in Nat \ {0}, last \in Nat :
         size = g.size /\ first = g.first /\ last = g.last
  BY <1>2, RepeatTypes
<1>5. /\ s \in Nat /\ n \in 0..size - 1 /\ i = s + n /\ s + size <= last /\ first <= s
      /\ last \in g.at /\ last + size - 1 <= Len(tokens) /\ Behind(g) = last + size
      /\ \A k \in first..last + size - 2 : Recipe!SafeAfter(k)
      /\ \A t \in g.at : Recipe!CanSuggest(t + n) /\ tokens[t + n].text = tokens[first + n].text
  <2>1. Behind(g) = last + size /\ n \in 0..size - 1 /\ i = s + n /\ s + size <= last
    BY <1>3, <1>4 DEF Behind
  <2>2. /\ g.at \subseteq Nat /\ g.last \in g.at /\ Behind(g) - 1 <= Len(tokens)
        /\ \A t \in g.at : g.first <= t
        /\ \A k \in g.first..Behind(g) - 2 : Recipe!SafeAfter(k)
        /\ \A t \in g.at : \A k \in 0..g.size - 1 :
              Recipe!CanSuggest(t + k) /\ tokens[t + k].text = tokens[g.first + k].text
    BY <1>2 DEF IsRepeat
  <2>3. s \in Nat /\ first <= s /\ last \in g.at /\ last + size - 1 <= Len(tokens)
    BY <1>3, <1>4, <2>1, <2>2
  <2>4. \A k \in first..last + size - 2 : Recipe!SafeAfter(k)
    BY <1>4, <2>1, <2>2
  <2>5. ASSUME NEW t \in g.at PROVE Recipe!CanSuggest(t + n) /\ tokens[t + n].text = tokens[first + n].text
    BY <1>3, <1>4, <2>2
  <2>. QED BY <2>1, <2>3, <2>4, <2>5
<1>. DEFINE j == last + n
<1>6. j \in i + 1..Len(tokens) /\ j \in last..last + size - 1 /\ i \in first..j - 1
  BY <1>2, <1>5
<1>7. Recipe!CanSuggest(i) /\ tokens[j].text = tokens[i].text
  BY <1>3, <1>5
<1>8. \A k \in i..j - 1 : Recipe!SafeAfter(k)
  BY <1>5, <1>6
<1>. HIDE DEF j
<1>9. j \notin Recipe!SpeechCuts
  <2>. SUFFICES ASSUME NEW h \in groups, j \in Recipe!CutWords(h) PROVE FALSE
    BY DEF Recipe!SpeechCuts
  <2>1. IsRepeat(h)
    BY DEF RepeatsInv
  <2>2. PICK t \in h.at, m \in 0..h.size - 1 : j = t + m /\ t + h.size <= h.last
    BY <2>1, CutBefore
  <2>3. PICK z \in Nat \ {0}, a \in Nat \ {0}, b \in Nat :
           z = h.size /\ a = h.first /\ b = h.last /\ Behind(h) = b + z
    BY <2>1, RepeatTypes
  <2>4. t \in Nat /\ a <= t
    BY <2>1, <2>2, <2>3 DEF IsRepeat
  <2>5. a <= j /\ j < b
    BY <2>2, <2>3, <2>4
  <2>6. CASE h = g
    BY <1>4, <1>6, <2>3, <2>5, <2>6
  <2>7. CASE h # g
    <3>1. last + size <= a \/ b + z <= first
      BY <1>4, <1>5, <2>3, <2>7 DEF RepeatsInv, Apart
    <3>2. first < last
      BY <1>2, <1>4, RepeatTypes
    <3>. QED BY <1>6, <2>5, <3>1, <3>2
  <2>. QED BY <2>6, <2>7
<1>. QED BY <1>6, <1>7, <1>8, <1>9

\* Whatever is said, and however repeats chain, touch and cross: every word that is cut as a repeat is
\* said again in the words that stay, with neither the end of a sentence nor a pause in between.
THEOREM CutsAreSaidAgain == Recipe!Spec => []Recipe!SaidAgain
<1>1. Recipe!Init => ScanInv
  BY ScanInit
<1>2. ScanInv /\ [Recipe!Next]_(Recipe!vars) => ScanInv'
  BY ScanNext
<1>3. ScanInv => Recipe!SaidAgain
  BY RepeatsAreSaid DEF ScanInv
<1>. QED BY <1>1, <1>2, <1>3, PTL DEF Recipe!Spec
-------------------------------------------------------------------------------
(***************************************************************************)
(* What is left of a clip when a plan has been brought to a length.        *)
(***************************************************************************)
Stretch == [start : Int, end : Int]

LEMMA SizesAgree == \A S : Recipe!Cardinality(S) = Cardinality(S)
  BY DEF Recipe!Cardinality, Cardinality

LEMMA PartsAre ==
  /\ \A a, b \in Int : Recipe!Part(a, b) \in Stretch /\ Recipe!Part(a, b).start = a /\ Recipe!Part(a, b).end = b
  /\ \A r \in Stretch : r.start \in Int /\ r.end \in Int /\ r = Recipe!Part(r.start, r.end)
  BY DEF Recipe!Part, Stretch

LEMMA OrderIsTotal ==
  ASSUME NEW x \in Stretch, NEW y \in Stretch
  PROVE  /\ ~ Recipe!InOrder(x, x)
         /\ x # y => Recipe!InOrder(x, y) \/ Recipe!InOrder(y, x)
         /\ Recipe!InOrder(x, y) => x.start <= y.start /\ ~ Recipe!InOrder(y, x)
         /\ \A z \in Stretch : Recipe!InOrder(x, y) /\ Recipe!InOrder(y, z) => Recipe!InOrder(x, z)
<1>1. x.start \in Int /\ x.end \in Int /\ y.start \in Int /\ y.end \in Int
  BY PartsAre
<1>2. x.start = y.start /\ x.end = y.end => x = y
  BY PartsAre
<1>3. \A z \in Stretch : z.start \in Int /\ z.end \in Int
  BY PartsAre
<1>. QED BY <1>1, <1>2, <1>3 DEF Recipe!InOrder

\* The place of an element in an order is the number of those before it.
LEMMA RanksRise ==
  ASSUME NEW S, IsFiniteSet(S), NEW lower \in [S -> SUBSET S], \A x \in S : x \notin lower[x],
         \A x, y \in S : x \in lower[y] => lower[x] \subseteq lower[y],
         NEW x \in S
  PROVE  /\ Cardinality(lower[x]) \in 0..Cardinality(S) - 1
         /\ \A y \in S : x \in lower[y] => Cardinality(lower[x]) < Cardinality(lower[y])
<1>1. \A T \in SUBSET S : IsFiniteSet(T) /\ Cardinality(T) \in Nat /\ Cardinality(T) <= Cardinality(S)
                          /\ (Cardinality(T) = Cardinality(S) => T = S)
  <2>. SUFFICES ASSUME NEW T \in SUBSET S
                PROVE IsFiniteSet(T) /\ Cardinality(T) \in Nat /\ Cardinality(T) <= Cardinality(S)
                      /\ (Cardinality(T) = Cardinality(S) => T = S)
    OBVIOUS
  <2>. QED BY FS_Subset, FS_CardinalityType
<1>2. Cardinality(S) \in Nat
  BY <1>1
<1>3. \A y \in S : lower[y] \in SUBSET S /\ y \notin lower[y]
  OBVIOUS
<1>4. Cardinality(lower[x]) # Cardinality(S)
  BY <1>1, <1>3
<1>5. ASSUME NEW y \in S, x \in lower[y] PROVE Cardinality(lower[x]) < Cardinality(lower[y])
  <2>1. lower[x] \cup {x} \subseteq lower[y]
    BY <1>5
  <2>2. IsFiniteSet(lower[x]) /\ Cardinality(lower[x]) \in Nat /\ x \notin lower[x]
    BY <1>1, <1>3
  <2>3. Cardinality(lower[x] \cup {x}) = Cardinality(lower[x]) + 1
    BY <2>2, FS_AddElement
  <2>4. IsFiniteSet(lower[y]) /\ Cardinality(lower[y]) \in Nat
    BY <1>1, <1>3
  <2>5. Cardinality(lower[x] \cup {x}) <= Cardinality(lower[y])
    BY <2>1, <2>4, FS_Subset
  <2>. QED BY <2>2, <2>3, <2>4, <2>5
<1>6. Cardinality(lower[x]) \in Nat /\ Cardinality(lower[x]) <= Cardinality(S)
  BY <1>1, <1>3
<1>. QED BY <1>2, <1>4, <1>5, <1>6

\* lower is an order of S, of each element those before it; s has each element at its place.
IsOrder(S, lower) ==
    /\ lower \in [S -> SUBSET S] /\ \A x \in S : x \notin lower[x]
    /\ \A x, y \in S : x \in lower[y] => lower[x] \subseteq lower[y]
    /\ \A x, y \in S : x # y => x \in lower[y] \/ y \in lower[x]
InPlace(S, lower, s) ==
    /\ \E T : s \in [1..Cardinality(S) -> T]
    /\ \A i \in 1..Cardinality(S) :
          (\E x \in S : Cardinality(lower[x]) = i - 1) => s[i] \in S /\ Cardinality(lower[s[i]]) = i - 1

LEMMA RankedIs ==
  ASSUME NEW S, IsFiniteSet(S), NEW lower, IsOrder(S, lower), NEW s, InPlace(S, lower, s)
  PROVE  /\ s \in Seq(S) /\ Len(s) = Cardinality(S) /\ Cardinality(S) \in Nat
         /\ DOMAIN s = 1..Cardinality(S) /\ Recipe!ToSet(s) = S
         /\ \A i, j \in 1..Cardinality(S) : i < j => s[i] \in lower[s[j]]
<1>. USE DEF IsOrder
<1>. DEFINE n == Cardinality(S)
            rank == [x \in S |-> Cardinality(lower[x]) + 1]
<1>1. n \in Nat
  BY FS_CardinalityType
<1>0. \A x \in S : Cardinality(lower[x]) \in 0..n - 1
  BY RanksRise
<1>2. rank \in [S -> 1..n]
  BY <1>0, <1>1
<1>3. \A x, y \in S : x \in lower[y] => rank[x] < rank[y]
  <2>. SUFFICES ASSUME NEW x \in S, NEW y \in S, x \in lower[y] PROVE rank[x] < rank[y]
    OBVIOUS
  <2>1. Cardinality(lower[x]) < Cardinality(lower[y])
    BY RanksRise
  <2>. QED BY <1>0, <2>1
<1>. HIDE DEF n
<1>4. \A x \in S : rank[x] - 1 = Cardinality(lower[x])
  BY <1>0, <1>1
<1>. HIDE DEF rank
<1>5. rank \in Injection(S, 1..n)
  <2>1. \A x, y \in S : x # y => rank[x] # rank[y]
    <3>. SUFFICES ASSUME NEW x \in S, NEW y \in S, x # y PROVE rank[x] # rank[y]
      OBVIOUS
    <3>1. x \in lower[y] \/ y \in lower[x]
      OBVIOUS
    <3>2. rank[x] \in Int /\ rank[y] \in Int
      BY <1>1, <1>2
    <3>. QED BY <1>3, <3>1, <3>2
  <2>. QED BY <1>2, <2>1 DEF Injection, IsInjective
<1>6. IsFiniteSet(1..n) /\ Cardinality(1..n) = n
  BY <1>1, FS_Interval
<1>7. rank \in Surjection(S, 1..n)
  BY <1>5, <1>6, FS_Injection DEF n
<1>8. \A i \in 1..n : \E x \in S : rank[x] = i
  BY <1>7 DEF Surjection
<1>10. ASSUME NEW i \in 1..n PROVE s[i] \in S /\ rank[s[i]] = i
  <2>1. PICK x \in S : rank[x] = i
    BY <1>8
  <2>2. Cardinality(lower[x]) = i - 1
    BY <1>4, <2>1
  <2>3. s[i] \in S /\ Cardinality(lower[s[i]]) = i - 1
    BY <2>2 DEF InPlace, n
  <2>4. rank[s[i]] - 1 = i - 1
    BY <1>4, <2>3
  <2>5. rank[s[i]] \in 1..n
    BY <1>2, <2>3
  <2>. QED BY <1>1, <2>3, <2>4, <2>5
<1>11. s \in Seq(S) /\ Len(s) = n /\ DOMAIN s = 1..n
  <2>1. PICK T : s \in [1..n -> T]
    BY DEF InPlace, n
  <2>2. s \in [1..n -> S]
    BY <1>10, <2>1
  <2>. QED BY <1>1, <2>2
<1>12. Recipe!ToSet(s) = S
  <2>1. \A x \in S : rank[x] \in 1..n /\ s[rank[x]] = x
    <3>. SUFFICES ASSUME NEW x \in S PROVE rank[x] \in 1..n /\ s[rank[x]] = x
      OBVIOUS
    <3>1. rank[x] \in 1..n
      BY <1>2
    <3>2. s[rank[x]] \in S /\ rank[s[rank[x]]] = rank[x]
      BY <1>10, <3>1
    <3>. QED BY <1>5, <3>1, <3>2 DEF Injection, IsInjective
  <2>2. \A x \in S : \E i \in 1..n : x = s[i]
    BY <2>1, Zenon
  <2>. QED BY <1>10, <1>11, <2>2 DEF Recipe!ToSet
<1>13. ASSUME NEW i \in 1..n, NEW j \in 1..n, i < j PROVE s[i] \in lower[s[j]]
  <2>1. s[i] \in S /\ s[j] \in S /\ rank[s[i]] = i /\ rank[s[j]] = j
    BY <1>10
  <2>2. s[i] # s[j]
    BY <1>13, <2>1
  <2>3. s[j] \notin lower[s[i]]
    BY <1>3, <1>13, <2>1
  <2>. QED BY <2>1, <2>2, <2>3
<1>. QED BY <1>1, <1>11, <1>12, <1>13 DEF n

\* Ranges in order, and numbers in order.
LEMMA SortedIs ==
  ASSUME NEW S, IsFiniteSet(S), S \subseteq Stretch
  PROVE  /\ Recipe!Sorted(S, Recipe!InOrder) \in Seq(S) /\ Len(Recipe!Sorted(S, Recipe!InOrder)) = Cardinality(S)
         /\ Cardinality(S) \in Nat
         /\ Recipe!ToSet(Recipe!Sorted(S, Recipe!InOrder)) = S
         /\ \A i, j \in 1..Cardinality(S) :
               i < j => Recipe!InOrder(Recipe!Sorted(S, Recipe!InOrder)[i], Recipe!Sorted(S, Recipe!InOrder)[j])
<1>. DEFINE n == Cardinality(S)
            s == Recipe!Sorted(S, Recipe!InOrder)
            lower == [x \in S |-> {y \in S : Recipe!InOrder(y, x)}]
            nth(i) == CHOOSE x \in S : Recipe!Cardinality({y \in S : Recipe!InOrder(y, x)}) = i - 1
<1>1. s = [i \in 1..n |-> nth(i)]
  <2>1. n = Recipe!Cardinality(S)
    BY SizesAgree
  <2>. HIDE DEF n
  <2>. QED BY <2>1, Zenon DEF Recipe!Sorted
<1>. HIDE DEF n, s
<1>2. lower \in [S -> SUBSET S]
  OBVIOUS
<1>3. \A x, y \in S : x \in lower[y] <=> Recipe!InOrder(x, y)
  OBVIOUS
<1>4. \A i \in 1..n : (\E x \in S : Cardinality(lower[x]) = i - 1) =>
                         s[i] \in S /\ Cardinality(lower[s[i]]) = i - 1
  <2>. SUFFICES ASSUME NEW i \in 1..n, NEW x \in S, Cardinality(lower[x]) = i - 1
                PROVE  s[i] \in S /\ Cardinality(lower[s[i]]) = i - 1
    OBVIOUS
  <2>1. Recipe!Cardinality({y \in S : Recipe!InOrder(y, x)}) = i - 1
    BY SizesAgree
  <2>2. nth(i) \in S /\ Recipe!Cardinality({y \in S : Recipe!InOrder(y, nth(i))}) = i - 1
    BY <2>1, Zenon
  <2>. HIDE DEF nth
  <2>3. s[i] = nth(i)
    BY <1>1
  <2>. QED BY <2>2, <2>3, SizesAgree
<1>. DEFINE T == {nth(i) : i \in 1..n}
<1>5. s \in [1..n -> T]
  <2>. HIDE DEF nth
  <2>. QED BY <1>1
<1>. HIDE DEF nth, lower, T
<1>6. \A x \in S : x \notin lower[x]
  BY <1>3, OrderIsTotal
<1>7. \A x, y \in S : x # y => x \in lower[y] \/ y \in lower[x]
  BY <1>3, OrderIsTotal
<1>8. \A x, y \in S : x \in lower[y] => lower[x] \subseteq lower[y]
  <2>. SUFFICES ASSUME NEW x \in S, NEW y \in S, x \in lower[y], NEW z \in lower[x] PROVE z \in lower[y]
    OBVIOUS
  <2>1. z \in S /\ Recipe!InOrder(z, x) /\ Recipe!InOrder(x, y)
    BY <1>2, <1>3
  <2>. QED BY <1>3, <2>1, OrderIsTotal
<1>9. /\ s \in Seq(S) /\ Len(s) = n /\ n \in Nat /\ Recipe!ToSet(s) = S
      /\ \A i, j \in 1..n : i < j => s[i] \in lower[s[j]]
  <2>1. IsOrder(S, lower)
    BY <1>2, <1>6, <1>7, <1>8 DEF IsOrder
  <2>2. InPlace(S, lower, s)
    BY <1>4, <1>5, Zenon DEF InPlace, n
  <2>. QED BY <2>1, <2>2, RankedIs DEF n
<1>10. \A i, j \in 1..n : i < j => Recipe!InOrder(s[i], s[j])
  <2>1. \A i \in 1..n : s[i] \in S
    BY <1>9
  <2>. QED BY <1>3, <1>9, <2>1
<1>. QED BY <1>9, <1>10 DEF n, s

LEMMA NumbersAre ==
  ASSUME NEW S, IsFiniteSet(S), S \subseteq Int
  PROVE  /\ Recipe!Sorted(S, <) \in Seq(S) /\ DOMAIN Recipe!Sorted(S, <) = 1..Cardinality(S)
         /\ Cardinality(S) \in Nat /\ Recipe!ToSet(Recipe!Sorted(S, <)) = S
<1>. DEFINE n == Cardinality(S)
            s == Recipe!Sorted(S, <)
            lower == [x \in S |-> {y \in S : y < x}]
            nth(i) == CHOOSE x \in S : Recipe!Cardinality({y \in S : y < x}) = i - 1
<1>1. s = [i \in 1..n |-> nth(i)]
  <2>1. n = Recipe!Cardinality(S)
    BY SizesAgree
  <2>. HIDE DEF n
  <2>. QED BY <2>1, Zenon DEF Recipe!Sorted
<1>. HIDE DEF n, s
<1>2. lower \in [S -> SUBSET S]
  OBVIOUS
<1>3. \A x, y \in S : x \in lower[y] <=> x < y
  OBVIOUS
<1>4. \A i \in 1..n : (\E x \in S : Cardinality(lower[x]) = i - 1) =>
                         s[i] \in S /\ Cardinality(lower[s[i]]) = i - 1
  <2>. SUFFICES ASSUME NEW i \in 1..n, NEW x \in S, Cardinality(lower[x]) = i - 1
                PROVE  s[i] \in S /\ Cardinality(lower[s[i]]) = i - 1
    OBVIOUS
  <2>1. Recipe!Cardinality({y \in S : y < x}) = i - 1
    BY SizesAgree
  <2>2. nth(i) \in S /\ Recipe!Cardinality({y \in S : y < nth(i)}) = i - 1
    BY <2>1, Zenon
  <2>. HIDE DEF nth
  <2>3. s[i] = nth(i)
    BY <1>1
  <2>. QED BY <2>2, <2>3, SizesAgree
<1>. DEFINE T == {nth(i) : i \in 1..n}
<1>5. s \in [1..n -> T]
  <2>. HIDE DEF nth
  <2>. QED BY <1>1
<1>. HIDE DEF nth, lower, T
<1>6. \A x \in S : x \notin lower[x]
  BY <1>3
<1>7. \A x, y \in S : x # y => x \in lower[y] \/ y \in lower[x]
  BY <1>3
<1>8. \A x, y \in S : x \in lower[y] => lower[x] \subseteq lower[y]
  <2>. SUFFICES ASSUME NEW x \in S, NEW y \in S, x \in lower[y], NEW z \in lower[x] PROVE z \in lower[y]
    OBVIOUS
  <2>1. z \in S /\ z < x /\ x < y
    BY <1>2, <1>3
  <2>. QED BY <1>3, <2>1
<1>9. s \in Seq(S) /\ DOMAIN s = 1..n /\ n \in Nat /\ Recipe!ToSet(s) = S
  <2>1. IsOrder(S, lower)
    BY <1>2, <1>6, <1>7, <1>8 DEF IsOrder
  <2>2. InPlace(S, lower, s)
    BY <1>4, <1>5, Zenon DEF InPlace, n
  <2>. QED BY <2>1, <2>2, RankedIs DEF n
<1>. QED BY <1>9, Zenon DEF n, s

-------------------------------------------------------------------------------
\* A fold over a sequence goes through the functions on the parts of its domain.
LEMMA GreatestIs ==
  ASSUME NEW n \in Nat, NEW T \in SUBSET (1..n), T # {}
  PROVE  Recipe!Max(T) \in T /\ \A y \in T : y <= Recipe!Max(T)
<1>. DEFINE U == {k \in Nat : n - k \in T}
<1>1. PICK x \in T : TRUE
  OBVIOUS
<1>2. n - x \in U /\ U \in SUBSET Nat
  <2>1. x \in 1..n
    OBVIOUS
  <2>2. n - x \in Nat /\ n - (n - x) = x
    BY <2>1
  <2>. QED BY <1>1, <2>2
<1>3. PICK k \in U : \A j \in U : k <= j
  <2>. HIDE DEF U
  <2>1. U # {}
    BY <1>2
  <2>. QED BY <1>2, <2>1, LeastNat
<1>4. n - k \in T /\ k \in Nat
  OBVIOUS
<1>5. \A y \in T : y <= n - k
  <2>. SUFFICES ASSUME NEW y \in T PROVE y <= n - k
    OBVIOUS
  <2>1. y \in 1..n
    OBVIOUS
  <2>2. n - y \in Nat /\ n - (n - y) = y
    BY <2>1
  <2>3. n - y \in U
    BY <2>2
  <2>. HIDE DEF U
  <2>4. k <= n - y
    BY <1>3, <2>3
  <2>. QED BY <1>4, <2>1, <2>4
<1>6. \E z \in T : \A y \in T : z >= y
  <2>1. \A y \in T : y \in Int /\ n - k \in Int
    BY <1>4
  <2>2. \A y \in T : n - k >= y
    BY <1>5, <2>1
  <2>. QED BY <1>4, <2>2
<1>7. Recipe!Max(T) \in T /\ \A y \in T : Recipe!Max(T) >= y
  BY <1>6 DEF Recipe!Max
<1>8. \A y \in T : y \in Int
  OBVIOUS
<1>. QED BY <1>7, <1>8

Folded(move, base, f, T) == IF T = {} THEN base ELSE move[<<Recipe!Max(T), f[T \ {Recipe!Max(T)}]>>]

\* f[T] is the fold of the part T of a sequence of n.
IsFold(f, n, V, move, base) ==
    f \in [SUBSET (1..n) -> V] /\ \A T \in SUBSET (1..n) : f[T] = Folded(move, base, f, T)

LEMMA FoldExists ==
  ASSUME NEW n \in Nat, NEW V, NEW base \in V, NEW move \in [(1..n) \X V -> V]
  PROVE  \E f : IsFold(f, n, V, move, base)
<1>. DEFINE Good(m) == m <= n => \E f \in [SUBSET (1..m) -> V] :
                                   \A T \in SUBSET (1..m) : f[T] = Folded(move, base, f, T)
            G == {m \in Nat : Good(m)}
<1>1. 0 \in G
  <2>. DEFINE f == [T \in SUBSET (1..0) |-> base]
  <2>1. \A T \in SUBSET (1..0) : T = {}
    OBVIOUS
  <2>2. \A T \in SUBSET (1..0) : f[T] = Folded(move, base, f, T)
    BY <2>1 DEF Folded
  <2>3. f \in [SUBSET (1..0) -> V]
    OBVIOUS
  <2>. HIDE DEF f
  <2>4. Good(0)
    BY <2>2, <2>3
  <2>. QED BY <2>4
<1>2. ASSUME NEW m \in G PROVE m + 1 \in G
  <2>0. m \in Nat /\ m + 1 \in Nat
    OBVIOUS
  <2>. SUFFICES ASSUME m + 1 <= n
                PROVE  \E f \in [SUBSET (1..m + 1) -> V] :
                          \A T \in SUBSET (1..m + 1) : f[T] = Folded(move, base, f, T)
    BY <2>0, Zenon
  <2>1. m \in Nat /\ m <= n /\ m + 1 \in 1..n /\ m + 1 \in Nat
    OBVIOUS
  <2>2. PICK f \in [SUBSET (1..m) -> V] : \A T \in SUBSET (1..m) : f[T] = Folded(move, base, f, T)
    BY <1>2, <2>1
  <2>. DEFINE h == [T \in SUBSET (1..m + 1) |->
                       IF m + 1 \in T THEN move[<<m + 1, f[T \ {m + 1}]>>] ELSE f[T]]
  <2>3. \A T \in SUBSET (1..m + 1) :
           /\ m + 1 \in T => T \ {m + 1} \in SUBSET (1..m)
           /\ m + 1 \notin T => T \in SUBSET (1..m)
    BY <2>1
  <2>4. h \in [SUBSET (1..m + 1) -> V]
    BY <2>1, <2>2, <2>3
  <2>5. \A T \in SUBSET (1..m) : T \in SUBSET (1..m + 1) /\ h[T] = f[T]
    <3>1. \A T \in SUBSET (1..m) : T \in SUBSET (1..m + 1) /\ m + 1 \notin T
      BY <2>1
    <3>. QED BY <3>1
  <2>6. \A T \in SUBSET (1..m + 1) :
           h[T] = IF m + 1 \in T THEN move[<<m + 1, f[T \ {m + 1}]>>] ELSE f[T]
    OBVIOUS
  <2>. HIDE DEF h
  <2>7. \A T \in SUBSET (1..m + 1) : h[T] = Folded(move, base, h, T)
    <3>. SUFFICES ASSUME NEW T \in SUBSET (1..m + 1) PROVE h[T] = Folded(move, base, h, T)
      OBVIOUS
    <3>1. CASE m + 1 \in T
      <4>1. Recipe!Max(T) \in T /\ m + 1 <= Recipe!Max(T)
        BY <2>1, <3>1, GreatestIs
      <4>2. Recipe!Max(T) = m + 1
        <5>1. Recipe!Max(T) \in 1..m + 1
          BY <4>1
        <5>. QED BY <2>1, <4>1, <5>1
      <4>3. f[T \ {m + 1}] = h[T \ {m + 1}]
        BY <2>3, <2>5, <3>1
      <4>. QED BY <2>6, <3>1, <4>2, <4>3 DEF Folded
    <3>2. CASE m + 1 \notin T
      <4>1. T \in SUBSET (1..m) /\ h[T] = Folded(move, base, f, T)
        BY <2>2, <2>3, <2>5, <3>2
      <4>2. T # {} => f[T \ {Recipe!Max(T)}] = h[T \ {Recipe!Max(T)}]
        BY <2>5, <4>1
      <4>. QED BY <4>1, <4>2 DEF Folded
    <3>. QED BY <3>1, <3>2
  <2>. QED BY <2>4, <2>7
<1>3. G = Nat
  <2>. HIDE DEF G
  <2>0. G \in SUBSET Nat
    BY DEF G
  <2>. QED BY <1>1, <1>2, <2>0, NatSet
<1>4. Good(n)
  BY <1>3
<1>5. n <= n
  OBVIOUS
<1>. QED BY <1>4, <1>5, Zenon DEF IsFold

-------------------------------------------------------------------------------
\* Seconds of ranges, and ranges that are apart.
Covered(r, t) == r.start <= t /\ t < r.end
Inside(s, t) == \E i \in 1..Len(s) : Covered(s[i], t)
Parted(s, length) ==
    /\ s \in Seq(Stretch)
    /\ \A i \in 1..Len(s) : 0 <= s[i].start /\ s[i].start < s[i].end /\ s[i].end <= length
    /\ \A i, j \in 1..Len(s) : i < j => s[i].end < s[j].start

LEMMA SecondsAre ==
  ASSUME NEW S \in SUBSET Stretch, NEW t
  PROVE  t \in Recipe!Seconds(S) <=> t \in Int /\ \E r \in S : Covered(r, t)
<1>1. \A r \in S : r.start \in Int /\ r.end \in Int
  BY PartsAre
<1>2. \A r \in S : t \in r.start..r.end - 1 <=> t \in Int /\ Covered(r, t)
  BY <1>1 DEF Covered
<1>3. t \in Recipe!Seconds(S) <=> \E r \in S : t \in r.start..r.end - 1
  BY DEF Recipe!Seconds
<1>. QED BY <1>2, <1>3

LEMMA SecondsOfParts ==
  ASSUME NEW s \in Seq(Stretch), NEW t
  PROVE  t \in Recipe!Seconds(Recipe!ToSet(s)) <=> t \in Int /\ Inside(s, t)
<1>1. Recipe!ToSet(s) \in SUBSET Stretch /\ DOMAIN s = 1..Len(s)
  BY DEF Recipe!ToSet
<1>2. \A r : r \in Recipe!ToSet(s) <=> \E i \in 1..Len(s) : r = s[i]
  BY <1>1 DEF Recipe!ToSet
<1>. QED BY <1>1, <1>2, SecondsAre DEF Inside

LEMMA PairIs ==
  ASSUME NEW a \in Int, NEW b \in Int
  PROVE  Recipe!Max({a, b}) = (IF a >= b THEN a ELSE b) /\ Recipe!Min({a, b}) = (IF a <= b THEN a ELSE b)
<1>1. \E x \in {a, b} : \A y \in {a, b} : x >= y
  OBVIOUS
<1>2. \E x \in {a, b} : \A y \in {a, b} : x <= y
  OBVIOUS
<1>3. Recipe!Max({a, b}) \in {a, b} /\ \A y \in {a, b} : Recipe!Max({a, b}) >= y
  BY <1>1 DEF Recipe!Max
<1>4. Recipe!Min({a, b}) \in {a, b} /\ \A y \in {a, b} : Recipe!Min({a, b}) <= y
  BY <1>2 DEF Recipe!Min
<1>. QED BY <1>3, <1>4

LEMMA ClampIs ==
  ASSUME NEW length \in Nat, NEW x \in Int
  PROVE  Recipe!Clamp(x, length) = IF x < 0 THEN 0 ELSE IF x > length THEN length ELSE x
  BY PairIs DEF Recipe!Clamp

\* What normalizeCuts sorts.
Clamped(cuts, length) ==
    {c \in {Recipe!Part(Recipe!Clamp(c.start, length), Recipe!Clamp(c.end, length)) : c \in cuts} : c.start < c.end}

LEMMA ClampedIs ==
  ASSUME NEW length \in Nat, NEW cuts \in SUBSET Stretch, IsFiniteSet(cuts)
  PROVE  /\ IsFiniteSet(Clamped(cuts, length)) /\ Clamped(cuts, length) \in SUBSET Stretch
         /\ \A c \in Clamped(cuts, length) : 0 <= c.start /\ c.start < c.end /\ c.end <= length
         /\ Recipe!Seconds(Clamped(cuts, length)) = Recipe!Seconds(cuts) \cap (0..length - 1)
<1>. DEFINE Cut(c) == Recipe!Part(Recipe!Clamp(c.start, length), Recipe!Clamp(c.end, length))
            f == [c \in cuts |-> Cut(c)]
            T == {Cut(c) : c \in cuts}
<1>1. \A c \in cuts : c.start \in Int /\ c.end \in Int
  BY PartsAre
<1>2. ASSUME NEW c \in cuts
      PROVE  /\ Cut(c) \in Stretch
             /\ Cut(c).start = (IF c.start < 0 THEN 0 ELSE IF c.start > length THEN length ELSE c.start)
             /\ Cut(c).end = (IF c.end < 0 THEN 0 ELSE IF c.end > length THEN length ELSE c.end)
  <2>1. /\ Recipe!Clamp(c.start, length) = (IF c.start < 0 THEN 0 ELSE IF c.start > length THEN length ELSE c.start)
        /\ Recipe!Clamp(c.end, length) = (IF c.end < 0 THEN 0 ELSE IF c.end > length THEN length ELSE c.end)
    BY <1>1, ClampIs
  <2>2. Recipe!Clamp(c.start, length) \in Int /\ Recipe!Clamp(c.end, length) \in Int
    BY <1>1, <2>1
  <2>. QED BY <2>1, <2>2, PartsAre
<1>. HIDE DEF Cut
<1>3. IsFiniteSet(T)
  <2>1. f \in Surjection(cuts, T)
    BY DEF Surjection
  <2>. QED BY <2>1, FS_Surjection
<1>4. Clamped(cuts, length) = {c \in T : c.start < c.end}
  BY DEF Clamped, Cut
<1>5. IsFiniteSet(Clamped(cuts, length))
  BY <1>3, <1>4, FS_Subset
<1>6. \A c \in T : c \in Stretch /\ 0 <= c.start /\ c.end <= length
  BY <1>1, <1>2
<1>7. Clamped(cuts, length) \in SUBSET Stretch
  BY <1>4, <1>6
<1>8. ASSUME NEW t
      PROVE  t \in Recipe!Seconds(Clamped(cuts, length)) <=> t \in Recipe!Seconds(cuts) /\ t \in 0..length - 1
  <2>1. t \in Recipe!Seconds(cuts) <=> t \in Int /\ \E c \in cuts : Covered(c, t)
    BY SecondsAre
  <2>2. t \in Recipe!Seconds(Clamped(cuts, length)) <=> t \in Int /\ \E c \in Clamped(cuts, length) : Covered(c, t)
    BY <1>7, SecondsAre
  <2>3. ASSUME NEW c \in cuts, t \in Int, t \in 0..length - 1, Covered(c, t)
        PROVE  \E e \in Clamped(cuts, length) : Covered(e, t)
    <3>1. Cut(c).start <= t /\ t < Cut(c).end
      BY <1>1, <1>2, <2>3 DEF Covered
    <3>2. Cut(c).start < Cut(c).end
      BY <1>1, <1>2, <2>3, <3>1
    <3>. QED BY <1>4, <3>1, <3>2 DEF Covered
  <2>4. ASSUME NEW e \in Clamped(cuts, length), t \in Int, Covered(e, t)
        PROVE  t \in 0..length - 1 /\ \E c \in cuts : Covered(c, t)
    <3>1. PICK c \in cuts : e = Cut(c)
      BY <1>4
    <3>2. Cut(c).start <= t /\ t < Cut(c).end
      BY <2>4, <3>1 DEF Covered
    <3>3. 0 <= t /\ t < length /\ c.start <= t /\ t < c.end
      BY <1>1, <1>2, <2>4, <3>2
    <3>. QED BY <2>4, <3>3 DEF Covered
  <2>. QED BY <2>1, <2>2, <2>3, <2>4
<1>. QED BY <1>4, <1>5, <1>6, <1>7, <1>8

-------------------------------------------------------------------------------
\* One turn of the loop of normalizeCuts.
MergeIn(m, c) ==
    IF m /= <<>> /\ c.start <= Recipe!Last(m).end
    THEN [m EXCEPT ![Len(m)].end = Recipe!Max({@, c.end})]
    ELSE Append(m, c)

LEMMA MergeIs ==
  ASSUME NEW m \in Seq(Stretch), NEW c \in Stretch
  PROVE  /\ MergeIn(m, c) \in Seq(Stretch)
         /\ m = <<>> \/ ~ (c.start <= m[Len(m)].end) =>
               /\ Len(MergeIn(m, c)) = Len(m) + 1 /\ MergeIn(m, c)[Len(m) + 1] = c
               /\ \A i \in 1..Len(m) : MergeIn(m, c)[i] = m[i]
         /\ m /= <<>> /\ c.start <= m[Len(m)].end =>
               /\ Len(MergeIn(m, c)) = Len(m) /\ \A i \in 1..Len(m) - 1 : MergeIn(m, c)[i] = m[i]
               /\ MergeIn(m, c)[Len(m)].start = m[Len(m)].start
               /\ MergeIn(m, c)[Len(m)].end = IF m[Len(m)].end >= c.end THEN m[Len(m)].end ELSE c.end
<1>1. c.start \in Int /\ c.end \in Int
  BY PartsAre
<1>2. CASE m = <<>> \/ ~ (c.start <= m[Len(m)].end)
  <2>1. MergeIn(m, c) = Append(m, c)
    BY <1>2 DEF MergeIn, Recipe!Last
  <2>. QED BY <1>2, <2>1
<1>3. CASE m /= <<>> /\ c.start <= m[Len(m)].end
  <2>1. Len(m) \in 1..Len(m) /\ m[Len(m)] \in Stretch /\ Len(m) \in Nat
    BY <1>3
  <2>2. PICK last \in Stretch : last = m[Len(m)]
    BY <2>1
  <2>3. last.start \in Int /\ last.end \in Int
    BY PartsAre
  <2>4. Recipe!Max({last.end, c.end}) = IF last.end >= c.end THEN last.end ELSE c.end
    BY <1>1, <2>3, PairIs
  <2>5. PICK e \in Int : e = Recipe!Max({last.end, c.end})
    BY <1>1, <2>3, <2>4
  <2>6. MergeIn(m, c) = [m EXCEPT ![Len(m)] = [last EXCEPT !.end = e]]
    BY <1>3, <2>2, <2>5 DEF MergeIn, Recipe!Last
  <2>7. PICK new : new = [last EXCEPT !.end = e]
    OBVIOUS
  <2>8. new \in Stretch /\ new.start = last.start /\ new.end = e
    BY <2>3, <2>7 DEF Stretch
  <2>9. MergeIn(m, c) = [m EXCEPT ![Len(m)] = new]
    BY <2>6, <2>7
  <2>10. /\ MergeIn(m, c) \in Seq(Stretch) /\ Len(MergeIn(m, c)) = Len(m)
         /\ MergeIn(m, c)[Len(m)] = new /\ \A i \in 1..Len(m) - 1 : MergeIn(m, c)[i] = m[i]
    BY <2>1, <2>8, <2>9
  <2>. QED BY <1>3, <2>2, <2>4, <2>5, <2>8, <2>10
<1>. QED BY <1>2, <1>3

LEMMA MergeKeeps ==
  ASSUME NEW length \in Nat, NEW m \in Seq(Stretch), Parted(m, length), NEW c \in Stretch,
         0 <= c.start, c.start < c.end, c.end <= length,
         m # <<>> => m[Len(m)].start <= c.start
  PROVE  LET to == MergeIn(m, c)
         IN  /\ Parted(to, length) /\ to # <<>> /\ to[Len(to)].start <= c.start
             /\ \A t \in Int : Inside(to, t) <=> Inside(m, t) \/ Covered(c, t)
<1>. DEFINE to == MergeIn(m, c)
<1>1. to \in Seq(Stretch)
  BY MergeIs
<1>2. c.start \in Int /\ c.end \in Int
  BY PartsAre
<1>3. \A i \in 1..Len(m) : m[i] \in Stretch /\ m[i].start \in Int /\ m[i].end \in Int
  <2>1. \A i \in 1..Len(m) : m[i] \in Stretch
    OBVIOUS
  <2>. QED BY <2>1, PartsAre
<1>4. /\ \A i \in 1..Len(m) : 0 <= m[i].start /\ m[i].start < m[i].end /\ m[i].end <= length
      /\ \A i, j \in 1..Len(m) : i < j => m[i].end < m[j].start
  BY DEF Parted
<1>5. Len(m) \in Nat
  OBVIOUS
<1>6. CASE m = <<>> \/ ~ (c.start <= m[Len(m)].end)
  <2>1. /\ Len(to) = Len(m) + 1 /\ to[Len(m) + 1] = c
        /\ \A i \in 1..Len(m) : to[i] = m[i]
    BY <1>6, MergeIs
  <2>. HIDE DEF to
  <2>2. \A i \in 1..Len(m) : m[i].end < c.start
    <3>. SUFFICES ASSUME NEW i \in 1..Len(m) PROVE m[i].end < c.start
      OBVIOUS
    <3>1. m # <<>> /\ Len(m) \in 1..Len(m)
      OBVIOUS
    <3>2. m[Len(m)].end < c.start
      BY <1>2, <1>3, <1>6, <3>1
    <3>3. i < Len(m) => m[i].end < m[Len(m)].start
      BY <1>4, <3>1
    <3>4. m[Len(m)].start < m[Len(m)].end
      BY <1>4, <3>1
    <3>5. i = Len(m) \/ i < Len(m)
      BY <1>5
    <3>. QED BY <1>2, <1>3, <3>1, <3>2, <3>3, <3>4, <3>5
  <2>3. \A i \in 1..Len(to) : i \in 1..Len(m) \/ i = Len(m) + 1
    BY <1>5, <2>1
  <2>4. \A i \in 1..Len(to) : 0 <= to[i].start /\ to[i].start < to[i].end /\ to[i].end <= length
    BY <1>4, <2>1, <2>3
  <2>5. \A i, j \in 1..Len(to) : i < j => to[i].end < to[j].start
    <3>. SUFFICES ASSUME NEW i \in 1..Len(to), NEW j \in 1..Len(to), i < j PROVE to[i].end < to[j].start
      OBVIOUS
    <3>1. i \in 1..Len(m)
      BY <1>5, <2>1
    <3>. QED BY <1>4, <2>1, <2>2, <2>3, <3>1
  <2>6. Parted(to, length)
    BY <1>1, <2>4, <2>5 DEF Parted
  <2>7. to # <<>> /\ to[Len(to)].start <= c.start
    BY <1>1, <1>2, <1>5, <2>1
  <2>8. \A t : Inside(to, t) <=> Inside(m, t) \/ Covered(c, t)
    <3>1. 1..Len(to) = 1..Len(m) \cup {Len(m) + 1}
      BY <1>5, <2>1
    <3>. QED BY <2>1, <3>1 DEF Inside
  <2>. QED BY <2>6, <2>7, <2>8 DEF to
<1>7. CASE m # <<>> /\ c.start <= m[Len(m)].end
  <2>0. Len(m) \in 1..Len(m) /\ Len(m) - 1 \in Nat
    BY <1>7
  <2>1. /\ Len(to) = Len(m) /\ \A i \in 1..Len(m) - 1 : to[i] = m[i]
        /\ to[Len(m)].start = m[Len(m)].start
        /\ to[Len(m)].end = IF m[Len(m)].end >= c.end THEN m[Len(m)].end ELSE c.end
    BY <1>7, MergeIs
  <2>. HIDE DEF to
  <2>2. PICK n \in Nat : n = Len(m)
    BY <1>5
  <2>3. n \in 1..n /\ \A i \in 1..n : i \in 1..n - 1 \/ i = n
    BY <2>0, <2>2
  <2>4. /\ 0 <= to[n].start /\ to[n].start < to[n].end /\ to[n].end <= length
        /\ to[n].start \in Int /\ to[n].end \in Int
    BY <1>2, <1>3, <1>4, <2>1, <2>2, <2>3
  <2>5. \A i \in 1..n - 1 : i \in 1..n /\ to[i] = m[i]
    BY <2>1, <2>2
  <2>6. \A i \in 1..n : 0 <= to[i].start /\ to[i].start < to[i].end /\ to[i].end <= length
    BY <1>4, <2>2, <2>3, <2>4, <2>5
  <2>7. \A i, j \in 1..n : i < j => to[i].end < to[j].start
    <3>. SUFFICES ASSUME NEW i \in 1..n, NEW j \in 1..n, i < j PROVE to[i].end < to[j].start
      OBVIOUS
    <3>1. i \in 1..n - 1
      OBVIOUS
    <3>2. m[i].end < m[j].start
      BY <1>4, <2>2
    <3>3. to[i] = m[i] /\ to[j].start = m[j].start
      BY <2>1, <2>2, <2>3, <2>5, <3>1
    <3>. QED BY <3>2, <3>3
  <2>8. Parted(to, length)
    BY <1>1, <2>1, <2>2, <2>6, <2>7 DEF Parted
  <2>9. to # <<>> /\ to[Len(to)].start <= c.start
    BY <1>7, <2>0, <2>1
  <2>10. ASSUME NEW t \in Int PROVE Inside(to, t) <=> Inside(m, t) \/ Covered(c, t)
    <3>1. 1..n = (1..n - 1) \cup {n}
      BY <2>3
    <3>2. Inside(to, t) <=> (\E i \in 1..n - 1 : Covered(to[i], t)) \/ Covered(to[n], t)
      BY <2>1, <2>2, <3>1 DEF Inside
    <3>3. Inside(m, t) <=> (\E i \in 1..n - 1 : Covered(m[i], t)) \/ Covered(m[n], t)
      BY <2>2, <3>1 DEF Inside
    <3>4. Covered(to[n], t) <=> Covered(m[n], t) \/ Covered(c, t)
      <4>1. m[n].start \in Int /\ m[n].end \in Int /\ m[n].start <= c.start /\ c.start <= m[n].end
        BY <1>3, <1>7, <2>2, <2>3
      <4>2. to[n].start = m[n].start /\ to[n].end = (IF m[n].end >= c.end THEN m[n].end ELSE c.end)
        BY <2>1, <2>2
      <4>. QED BY <1>2, <4>1, <4>2 DEF Covered
    <3>. QED BY <2>5, <3>2, <3>3, <3>4
  <2>. QED BY <2>8, <2>9, <2>10 DEF to
<1>. QED BY <1>6, <1>7

\* normalizeCuts: ranges in the clip, in order and apart, that cover what the cuts cover of it.
LEMMA NormalizeIs ==
  ASSUME NEW length \in Nat, NEW cuts \in SUBSET Stretch, IsFiniteSet(cuts)
  PROVE  /\ Parted(Recipe!NormalizeCuts(cuts, length), length)
         /\ \A t \in Int :
               Inside(Recipe!NormalizeCuts(cuts, length), t) <=> t \in Recipe!Seconds(cuts) /\ t \in 0..length - 1
<1>. DEFINE seq == Recipe!Sorted(Clamped(cuts, length), Recipe!InOrder)
            n == Cardinality(Clamped(cuts, length))
            move == [p \in (1..n) \X Seq(Stretch) |-> MergeIn(p[2], seq[p[1]])]
            fold == CHOOSE g : g = [T \in SUBSET DOMAIN seq |->
                       IF T = {} THEN <<>> ELSE MergeIn(g[T \ {Recipe!Max(T)}], seq[Recipe!Max(T)])]
<1>1. Recipe!NormalizeCuts(cuts, length) = fold[DOMAIN seq]
  BY Zenon DEF Recipe!NormalizeCuts, Recipe!FoldLeft, Recipe!MapThenFoldSet, MergeIn, Clamped
<1>2. /\ IsFiniteSet(Clamped(cuts, length)) /\ Clamped(cuts, length) \in SUBSET Stretch
      /\ \A c \in Clamped(cuts, length) : 0 <= c.start /\ c.start < c.end /\ c.end <= length
      /\ Recipe!Seconds(Clamped(cuts, length)) = Recipe!Seconds(cuts) \cap (0..length - 1)
  BY ClampedIs
<1>3. /\ seq \in Seq(Clamped(cuts, length)) /\ Len(seq) = n /\ n \in Nat
      /\ Recipe!ToSet(seq) = Clamped(cuts, length)
      /\ \A i, j \in 1..n : i < j => Recipe!InOrder(seq[i], seq[j])
  BY <1>2, SortedIs
<1>. HIDE DEF seq, n
<1>4. seq \in Seq(Stretch) /\ DOMAIN seq = 1..n
  BY <1>2, <1>3
<1>5. \A k \in 1..n : seq[k] \in Stretch
  <2>1. Len(seq) = n
    BY <1>3
  <2>. QED BY <1>4, <2>1
<1>6. move \in [(1..n) \X Seq(Stretch) -> Seq(Stretch)]
  <2>1. \A p \in (1..n) \X Seq(Stretch) : MergeIn(p[2], seq[p[1]]) \in Seq(Stretch)
    BY <1>5, MergeIs
  <2>. QED BY <2>1
<1>7. \A k \in 1..n, m \in Seq(Stretch) : move[<<k, m>>] = MergeIn(m, seq[k])
  OBVIOUS
<1>. HIDE DEF move
<1>8. \A T \in SUBSET (1..n) : T # {} => Recipe!Max(T) \in 1..n /\ T \ {Recipe!Max(T)} \in SUBSET (1..n)
  BY <1>3, GreatestIs
<1>9. PICK g : IsFold(g, n, Seq(Stretch), move, <<>>)
  <2>1. <<>> \in Seq(Stretch)
    OBVIOUS
  <2>2. n \in Nat
    BY <1>3
  <2>. QED BY <1>6, <2>1, <2>2, FoldExists
<1>10. g = [T \in SUBSET DOMAIN seq |->
                       IF T = {} THEN <<>> ELSE MergeIn(g[T \ {Recipe!Max(T)}], seq[Recipe!Max(T)])]
  <2>1. \A T \in SUBSET (1..n) : g[T] = IF T = {} THEN <<>> ELSE MergeIn(g[T \ {Recipe!Max(T)}], seq[Recipe!Max(T)])
    <3>. SUFFICES ASSUME NEW T \in SUBSET (1..n)
                  PROVE  g[T] = IF T = {} THEN <<>> ELSE MergeIn(g[T \ {Recipe!Max(T)}], seq[Recipe!Max(T)])
      OBVIOUS
    <3>1. g[T] = Folded(move, <<>>, g, T)
      BY <1>9 DEF IsFold
    <3>2. T # {} => g[T \ {Recipe!Max(T)}] \in Seq(Stretch)
      BY <1>8, <1>9 DEF IsFold
    <3>. QED BY <1>7, <1>8, <3>1, <3>2 DEF Folded
  <2>. QED BY <1>4, <1>9, <2>1 DEF IsFold
<1>11. fold = [T \in SUBSET DOMAIN seq |->
                       IF T = {} THEN <<>> ELSE MergeIn(fold[T \ {Recipe!Max(T)}], seq[Recipe!Max(T)])]
  BY <1>10
<1>. HIDE DEF fold
<1>. DEFINE Good(k) == k <= n =>
               /\ Parted(fold[1..k], length)
               /\ k = 0 <=> fold[1..k] = <<>>
               /\ k # 0 => fold[1..k][Len(fold[1..k])].start <= seq[k].start
               /\ \A t \in Int : Inside(fold[1..k], t) <=> \E i \in 1..k : Covered(seq[i], t)
            G == {k \in Nat : Good(k)}
<1>12. 0 \in G
  <2>1. 1..0 = {} /\ 1..0 \in SUBSET DOMAIN seq
    OBVIOUS
  <2>2. fold[1..0] = <<>>
    BY <1>11, <2>1
  <2>3. Parted(<<>>, length) /\ \A t : ~ Inside(<<>>, t)
    BY DEF Parted, Inside
  <2>4. Good(0)
    BY <2>1, <2>2, <2>3
  <2>. QED BY <2>4
<1>13. ASSUME NEW k \in G PROVE k + 1 \in G
  <2>0. k \in Nat /\ k + 1 \in Nat /\ Good(k)
    OBVIOUS
  <2>1. ASSUME k + 1 <= n
        PROVE  /\ Parted(fold[1..k + 1], length)
               /\ fold[1..k + 1] # <<>>
               /\ fold[1..k + 1][Len(fold[1..k + 1])].start <= seq[k + 1].start
               /\ \A t \in Int : Inside(fold[1..k + 1], t) <=> \E i \in 1..k + 1 : Covered(seq[i], t)
    <3>1. k <= n /\ k + 1 \in 1..n /\ 1..k + 1 \in SUBSET (1..n) /\ 1..k + 1 # {}
      BY <1>3, <2>0, <2>1
    <3>2. Recipe!Max(1..k + 1) = k + 1
      <4>0. k + 1 \in 1..k + 1 /\ n \in Nat
        BY <1>3, <2>0
      <4>1. Recipe!Max(1..k + 1) \in 1..k + 1 /\ k + 1 <= Recipe!Max(1..k + 1)
        BY <3>1, <4>0, GreatestIs
      <4>. QED BY <2>0, <4>1
    <3>3. (1..k + 1) \ {k + 1} = 1..k
      BY <2>0
    <3>4. fold[1..k + 1] = MergeIn(fold[1..k], seq[k + 1])
      BY <1>4, <1>11, <3>1, <3>2, <3>3
    <3>5. /\ Parted(fold[1..k], length) /\ fold[1..k] \in Seq(Stretch)
          /\ k = 0 <=> fold[1..k] = <<>>
          /\ k # 0 => fold[1..k][Len(fold[1..k])].start <= seq[k].start
          /\ \A t \in Int : Inside(fold[1..k], t) <=> \E i \in 1..k : Covered(seq[i], t)
      BY <2>0, <3>1 DEF Parted
    <3>6. seq[k + 1] \in Clamped(cuts, length)
      BY <1>3, <3>1
    <3>7. /\ seq[k + 1] \in Stretch
          /\ 0 <= seq[k + 1].start /\ seq[k + 1].start < seq[k + 1].end /\ seq[k + 1].end <= length
      BY <1>2, <3>6
    <3>8. fold[1..k] # <<>> => fold[1..k][Len(fold[1..k])].start <= seq[k + 1].start
      <4>. SUFFICES ASSUME k # 0 PROVE fold[1..k][Len(fold[1..k])].start <= seq[k + 1].start
        BY <3>5
      <4>1. k \in 1..n /\ k < k + 1
        BY <2>0, <3>1
      <4>2. Recipe!InOrder(seq[k], seq[k + 1])
        BY <1>3, <3>1, <4>1
      <4>3. seq[k].start <= seq[k + 1].start /\ seq[k].start \in Int /\ seq[k + 1].start \in Int
        <5>1. seq[k] \in Stretch /\ seq[k + 1] \in Stretch
          BY <1>5, <3>1, <4>1
        <5>. QED BY <4>2, <5>1, OrderIsTotal, PartsAre
      <4>4. PICK m \in Seq(Stretch) : m = fold[1..k]
        BY <3>5
      <4>5. m[Len(m)].start \in Int
        <5>1. m # <<>>
          BY <3>5, <4>4
        <5>2. m[Len(m)] \in Stretch
          BY <5>1
        <5>. QED BY <5>2, PartsAre
      <4>. QED BY <3>5, <4>3, <4>4, <4>5
    <3>9. LET to == MergeIn(fold[1..k], seq[k + 1])
          IN  /\ Parted(to, length) /\ to # <<>> /\ to[Len(to)].start <= seq[k + 1].start
              /\ \A t \in Int : Inside(to, t) <=> Inside(fold[1..k], t) \/ Covered(seq[k + 1], t)
      BY <3>5, <3>7, <3>8, MergeKeeps
    <3>10. \A t : (\E i \in 1..k + 1 : Covered(seq[i], t))
                     <=> (\E i \in 1..k : Covered(seq[i], t)) \/ Covered(seq[k + 1], t)
      <4>1. 1..k + 1 = (1..k) \cup {k + 1}
        BY <2>0
      <4>. QED BY <4>1
    <3>. QED BY <3>4, <3>5, <3>9, <3>10
  <2>2. Good(k + 1)
    BY <2>0, <2>1
  <2>. QED BY <2>0, <2>2
<1>14. G = Nat
  <2>. HIDE DEF G
  <2>0. G \in SUBSET Nat
    BY DEF G
  <2>. QED BY <1>12, <1>13, <2>0, NatSet
<1>15. Good(n)
  BY <1>3, <1>14
<1>16. /\ Parted(fold[1..n], length)
       /\ \A t \in Int : Inside(fold[1..n], t) <=> \E i \in 1..n : Covered(seq[i], t)
  <2>1. n <= n
    BY <1>3
  <2>. QED BY <1>15, <2>1, Zenon
<1>17. ASSUME NEW t \in Int
       PROVE  (\E i \in 1..n : Covered(seq[i], t)) <=> t \in Recipe!Seconds(cuts) /\ t \in 0..length - 1
  <2>1. t \in Recipe!Seconds(Recipe!ToSet(seq)) <=> Inside(seq, t)
    BY <1>4, SecondsOfParts
  <2>2. Inside(seq, t) <=> \E i \in 1..n : Covered(seq[i], t)
    BY <1>3 DEF Inside
  <2>. QED BY <1>2, <1>3, <2>1, <2>2
<1>. QED BY <1>1, <1>4, <1>16, <1>17

-------------------------------------------------------------------------------
\* The gaps between ranges that are apart.
Gap(s, length, i) ==
    Recipe!Part(IF i = 1 THEN 0 ELSE s[i - 1].end, IF i > Len(s) THEN length ELSE s[i].start)
Gaps(s, length) == {g \in {Gap(s, length, i) : i \in 1..Len(s) + 1} : g.start < g.end}

LEMMA GapIs ==
  ASSUME NEW length \in Nat, NEW s, Parted(s, length), NEW i \in 1..Len(s) + 1
  PROVE  /\ Gap(s, length, i) \in Stretch
         /\ Gap(s, length, i).start = (IF i = 1 THEN 0 ELSE s[i - 1].end)
         /\ Gap(s, length, i).end = (IF i > Len(s) THEN length ELSE s[i].start)
         /\ 0 <= Gap(s, length, i).start /\ Gap(s, length, i).end <= length
         /\ Len(s) \in Nat
         /\ \A j \in 1..Len(s) : s[j].start \in Int /\ s[j].end \in Int
<1>1. s \in Seq(Stretch) /\ Len(s) \in Nat
  BY DEF Parted
<1>2. \A j \in 1..Len(s) : s[j].start \in Int /\ s[j].end \in Int
  <2>1. \A j \in 1..Len(s) : s[j] \in Stretch
    BY <1>1
  <2>. QED BY <2>1, PartsAre
<1>3. \A j \in 1..Len(s) : 0 <= s[j].start /\ s[j].start < s[j].end /\ s[j].end <= length
  BY DEF Parted
<1>4. (i # 1 => i - 1 \in 1..Len(s)) /\ (~ (i > Len(s)) => i \in 1..Len(s))
  BY <1>1
<1>5. PICK a \in Int : a = (IF i = 1 THEN 0 ELSE s[i - 1].end) /\ 0 <= a
  BY <1>2, <1>3, <1>4
<1>6. PICK b \in Int : b = (IF i > Len(s) THEN length ELSE s[i].start) /\ b <= length
  BY <1>2, <1>3, <1>4
<1>7. Gap(s, length, i) = Recipe!Part(a, b)
  BY <1>5, <1>6 DEF Gap
<1>8. Gap(s, length, i) \in Stretch /\ Gap(s, length, i).start = a /\ Gap(s, length, i).end = b
  BY <1>7, PartsAre
<1>. QED BY <1>1, <1>2, <1>5, <1>6, <1>8, Zenon

LEMMA GapsAre ==
  ASSUME NEW length \in Nat, NEW s, Parted(s, length)
  PROVE  /\ IsFiniteSet(Gaps(s, length)) /\ Gaps(s, length) \in SUBSET Stretch
         /\ \A g \in Gaps(s, length) : 0 <= g.start /\ g.start < g.end /\ g.end <= length
         /\ \A g, h \in Gaps(s, length) : g = h \/ g.end < h.start \/ h.end < g.start
         /\ \A t \in Int : (\E g \in Gaps(s, length) : Covered(g, t)) <=> t \in 0..length - 1 /\ ~ Inside(s, t)
<1>. DEFINE n == Len(s)
            T == {Gap(s, length, i) : i \in 1..n + 1}
            f == [i \in 1..n + 1 |-> Gap(s, length, i)]
<1>1. n \in Nat /\ \A j \in 1..n : s[j].start \in Int /\ s[j].end \in Int
  <2>1. 1 \in 1..Len(s) + 1
    BY DEF Parted
  <2>. QED BY <2>1, GapIs
<1>2. IsFiniteSet(T)
  <2>1. IsFiniteSet(1..n + 1)
    BY <1>1, FS_Interval
  <2>2. f \in Surjection(1..n + 1, T)
    BY DEF Surjection
  <2>. QED BY <2>1, <2>2, FS_Surjection
<1>3. Gaps(s, length) = {g \in T : g.start < g.end}
  BY DEF Gaps
<1>4. IsFiniteSet(Gaps(s, length))
  BY <1>2, <1>3, FS_Subset
<1>5. \A i \in 1..n + 1 :
         /\ Gap(s, length, i) \in Stretch
         /\ Gap(s, length, i).start = (IF i = 1 THEN 0 ELSE s[i - 1].end)
         /\ Gap(s, length, i).end = (IF i > n THEN length ELSE s[i].start)
         /\ 0 <= Gap(s, length, i).start /\ Gap(s, length, i).end <= length
  BY GapIs
<1>6. Gaps(s, length) \in SUBSET Stretch
  BY <1>3, <1>5
<1>7. \A g \in Gaps(s, length) : 0 <= g.start /\ g.start < g.end /\ g.end <= length
  BY <1>3, <1>5
<1>8. /\ \A i \in 1..n : 0 <= s[i].start /\ s[i].start < s[i].end /\ s[i].end <= length
      /\ \A i, j \in 1..n : i < j => s[i].end < s[j].start
  BY DEF Parted
<1>9. ASSUME NEW i \in 1..n + 1, NEW j \in 1..n + 1, i < j
      PROVE  Gap(s, length, i).end < Gap(s, length, j).start
  <2>1. i \in 1..n /\ j - 1 \in 1..n /\ j # 1 /\ ~ (i > n) /\ (i = j - 1 \/ i < j - 1)
    BY <1>1, <1>9
  <2>2. Gap(s, length, i).end = s[i].start /\ Gap(s, length, j).start = s[j - 1].end
    BY <1>5, <2>1
  <2>3. s[i].start < s[i].end /\ s[j - 1].start < s[j - 1].end
    BY <1>8, <2>1
  <2>4. i < j - 1 => s[i].end < s[j - 1].start
    BY <1>8, <2>1
  <2>. QED BY <1>1, <2>1, <2>2, <2>3, <2>4
<1>10. \A g, h \in Gaps(s, length) : g = h \/ g.end < h.start \/ h.end < g.start
  <2>. SUFFICES ASSUME NEW g \in Gaps(s, length), NEW h \in Gaps(s, length)
                PROVE  g = h \/ g.end < h.start \/ h.end < g.start
    OBVIOUS
  <2>1. PICK i \in 1..n + 1 : g = Gap(s, length, i)
    BY <1>3
  <2>2. PICK j \in 1..n + 1 : h = Gap(s, length, j)
    BY <1>3
  <2>3. i = j \/ i < j \/ j < i
    BY <1>1
  <2>. QED BY <1>9, <2>1, <2>2, <2>3
<1>11. ASSUME NEW t \in Int, NEW g \in Gaps(s, length), Covered(g, t)
       PROVE  t \in 0..length - 1 /\ ~ Inside(s, t)
  <2>1. PICK i \in 1..n + 1 : g = Gap(s, length, i)
    BY <1>3
  <2>2. g.start <= t /\ t < g.end
    BY <1>11 DEF Covered
  <2>3. g.start \in Int /\ g.end \in Int
    BY <1>6, PartsAre
  <2>4. t \in 0..length - 1
    BY <1>7, <2>2, <2>3
  <2>5. ASSUME NEW j \in 1..n, Covered(s[j], t) PROVE FALSE
    <3>1. s[j].start <= t /\ t < s[j].end
      BY <2>5 DEF Covered
    <3>2. CASE j >= i
      <4>1. i \in 1..n /\ ~ (i > n) /\ (i = j \/ i < j)
        BY <1>1, <3>2
      <4>2. g.end = s[i].start
        BY <1>5, <2>1, <4>1
      <4>3. i < j => s[i].end < s[j].start
        BY <1>8, <4>1
      <4>4. s[i].start < s[i].end
        BY <1>8, <4>1
      <4>. QED BY <1>1, <2>2, <2>3, <3>1, <4>1, <4>2, <4>3, <4>4
    <3>3. CASE ~ (j >= i)
      <4>1. i - 1 \in 1..n /\ i # 1 /\ (j = i - 1 \/ j < i - 1)
        BY <1>1, <3>3
      <4>2. g.start = s[i - 1].end
        BY <1>5, <2>1, <4>1
      <4>3. j < i - 1 => s[j].end < s[i - 1].start
        BY <1>8, <4>1
      <4>4. s[i - 1].start < s[i - 1].end
        BY <1>8, <4>1
      <4>. QED BY <1>1, <2>2, <2>3, <3>1, <4>1, <4>2, <4>3, <4>4
    <3>. QED BY <3>2, <3>3
  <2>. QED BY <2>4, <2>5 DEF Inside
<1>12. ASSUME NEW t \in 0..length - 1, ~ Inside(s, t)
       PROVE  \E g \in Gaps(s, length) : Covered(g, t)
  <2>. DEFINE U == {i \in 1..n + 1 : i = n + 1 \/ t < s[i].start}
  <2>1. n + 1 \in U /\ U \in SUBSET Nat /\ U # {}
    BY <1>1
  <2>2. PICK i \in U : \A j \in U : i <= j
    BY <2>1, LeastNat
  <2>3. i \in 1..n + 1 /\ (i = n + 1 \/ t < s[i].start)
    OBVIOUS
  <2>4. i # 1 => i - 1 \in 1..n /\ s[i - 1].start <= t
    <3>. SUFFICES ASSUME i # 1 PROVE i - 1 \in 1..n /\ s[i - 1].start <= t
      OBVIOUS
    <3>1. i - 1 \in 1..n /\ i - 1 \in 1..n + 1 /\ ~ (i <= i - 1) /\ i - 1 # n + 1
      BY <1>1, <2>3
    <3>2. i - 1 \notin U
      BY <2>2, <3>1
    <3>3. ~ (t < s[i - 1].start)
      BY <3>1, <3>2
    <3>. QED BY <1>1, <3>1, <3>3
  <2>. HIDE DEF U
  <2>5. i # 1 => s[i - 1].end <= t
    <3>. SUFFICES ASSUME i # 1 PROVE s[i - 1].end <= t
      OBVIOUS
    <3>1. ~ Covered(s[i - 1], t)
      BY <1>12, <2>4 DEF Inside
    <3>. QED BY <1>1, <2>4, <3>1 DEF Covered
  <2>6. Gap(s, length, i).start <= t
    BY <1>5, <2>3, <2>5
  <2>7. t < Gap(s, length, i).end
    BY <1>1, <1>5, <2>3
  <2>8. Gap(s, length, i).start \in Int /\ Gap(s, length, i).end \in Int
    BY <1>5, <2>3, PartsAre
  <2>9. Gap(s, length, i) \in Gaps(s, length)
    BY <1>3, <2>3, <2>6, <2>7, <2>8
  <2>. QED BY <2>6, <2>7, <2>9 DEF Covered
<1>. QED BY <1>4, <1>6, <1>7, <1>10, <1>11, <1>12

\* complement: what the cuts leave, as ranges in order and apart.
LEMMA ComplementIs ==
  ASSUME NEW length \in Nat, NEW cuts \in SUBSET Stretch, IsFiniteSet(cuts)
  PROVE  /\ Parted(Recipe!Complement(cuts, length), length)
         /\ \A t \in Int :
               Inside(Recipe!Complement(cuts, length), t) <=> t \in 0..length - 1 /\ t \notin Recipe!Seconds(cuts)
<1>. DEFINE s == Recipe!NormalizeCuts(cuts, length)
            k == Recipe!Complement(cuts, length)
            S == Gaps(s, length)
            n == Cardinality(S)
<1>1. k = Recipe!Sorted(S, Recipe!InOrder)
  BY Zenon DEF Recipe!Complement, Gaps, Gap
<1>2. /\ Parted(s, length)
      /\ \A t \in Int : Inside(s, t) <=> t \in Recipe!Seconds(cuts) /\ t \in 0..length - 1
  BY NormalizeIs
<1>. HIDE DEF k, s
<1>3. /\ IsFiniteSet(S) /\ S \in SUBSET Stretch
      /\ \A g \in S : 0 <= g.start /\ g.start < g.end /\ g.end <= length
      /\ \A g, h \in S : g = h \/ g.end < h.start \/ h.end < g.start
      /\ \A t \in Int : (\E g \in S : Covered(g, t)) <=> t \in 0..length - 1 /\ ~ Inside(s, t)
  BY <1>2, GapsAre
<1>. HIDE DEF S
<1>4. /\ k \in Seq(S) /\ Len(k) = n /\ n \in Nat /\ Recipe!ToSet(k) = S
      /\ \A i, j \in 1..n : i < j => Recipe!InOrder(k[i], k[j])
  BY <1>1, <1>3, SortedIs
<1>. HIDE DEF n
<1>5. \A i \in 1..n : k[i] \in S
  BY <1>4
<1>6. k \in Seq(Stretch)
  BY <1>3, <1>4
<1>7. ASSUME NEW i \in 1..n, NEW j \in 1..n, i < j PROVE k[i].end < k[j].start
  <2>1. Recipe!InOrder(k[i], k[j]) /\ k[i] \in S /\ k[j] \in S
    BY <1>4, <1>5, <1>7
  <2>2. k[i] \in Stretch /\ k[j] \in Stretch
    BY <1>3, <2>1
  <2>3. k[i] # k[j] /\ k[i].start <= k[j].start
    BY <2>1, <2>2, OrderIsTotal
  <2>4. k[i].end < k[j].start \/ k[j].end < k[i].start
    BY <1>3, <2>1, <2>3
  <2>5. k[j].start < k[j].end
    BY <1>3, <2>1
  <2>6. k[i].start \in Int /\ k[i].end \in Int /\ k[j].start \in Int /\ k[j].end \in Int
    BY <2>2, PartsAre
  <2>. QED BY <2>3, <2>4, <2>5, <2>6
<1>8. Parted(k, length)
  <2>1. \A i \in 1..Len(k) : 0 <= k[i].start /\ k[i].start < k[i].end /\ k[i].end <= length
    BY <1>3, <1>4, <1>5
  <2>2. \A i, j \in 1..Len(k) : i < j => k[i].end < k[j].start
    BY <1>4, <1>7
  <2>. QED BY <1>6, <2>1, <2>2 DEF Parted
<1>9. ASSUME NEW t \in Int PROVE Inside(k, t) <=> t \in 0..length - 1 /\ t \notin Recipe!Seconds(cuts)
  <2>1. Inside(k, t) <=> t \in Recipe!Seconds(S)
    BY <1>4, <1>6, SecondsOfParts
  <2>2. t \in Recipe!Seconds(S) <=> \E g \in S : Covered(g, t)
    BY <1>3, SecondsAre
  <2>. QED BY <1>2, <1>3, <2>1, <2>2
<1>. QED BY <1>8, <1>9 DEF k

-------------------------------------------------------------------------------
\* What the first ranges cover, and how much that is.
Upto(k, m) == {t \in Int : \E j \in 1..m : Covered(k[j], t)}

LEMMA PartedIs ==
  ASSUME NEW length \in Nat, NEW k, Parted(k, length)
  PROVE  /\ Len(k) \in Nat /\ k \in Seq(Stretch)
         /\ \A j \in 1..Len(k) : k[j].start \in Int /\ k[j].end \in Int
<1>1. k \in Seq(Stretch)
  BY DEF Parted
<1>2. \A j \in 1..Len(k) : k[j] \in Stretch
  BY <1>1
<1>. QED BY <1>1, <1>2, PartsAre

LEMMA UptoGrows ==
  ASSUME NEW length \in Nat, NEW k, Parted(k, length), NEW m \in Nat, m + 1 <= Len(k),
         IsFiniteSet(Upto(k, m)), NEW u \in Int, k[m + 1].start <= u, u <= k[m + 1].end
  PROVE  LET more == Upto(k, m) \cup (k[m + 1].start..u - 1)
         IN  /\ IsFiniteSet(more)
             /\ Cardinality(more) = Cardinality(Upto(k, m)) + (u - k[m + 1].start)
<1>1. Len(k) \in Nat /\ m + 1 \in 1..Len(k) /\ \A j \in 1..m : j \in 1..Len(k) /\ j < m + 1
  BY DEF Parted
<1>2. \A j \in 1..Len(k) : k[j].start \in Int /\ k[j].end \in Int
  BY PartedIs
<1>3. \A j \in 1..m : k[j].end < k[m + 1].start
  BY <1>1 DEF Parted
<1>4. Upto(k, m) \cap (k[m + 1].start..u - 1) = {}
  <2>. SUFFICES ASSUME NEW t \in Upto(k, m), t \in k[m + 1].start..u - 1 PROVE FALSE
    OBVIOUS
  <2>1. PICK j \in 1..m : k[j].start <= t /\ t < k[j].end
    BY DEF Upto, Covered
  <2>2. t \in Int
    BY DEF Upto
  <2>. QED BY <1>1, <1>2, <1>3, <2>1, <2>2
<1>5. /\ IsFiniteSet(k[m + 1].start..u - 1)
      /\ Cardinality(k[m + 1].start..u - 1) = u - k[m + 1].start
  <2>1. PICK a \in Int : a = k[m + 1].start
    BY <1>1, <1>2
  <2>2. IsFiniteSet(a..u - 1) /\ Cardinality(a..u - 1) = IF a > u - 1 THEN 0 ELSE (u - 1) - a + 1
    BY FS_Interval
  <2>. QED BY <2>1, <2>2
<1>6. Cardinality(Upto(k, m)) \in Nat /\ Cardinality({}) = 0
  BY FS_CardinalityType, FS_EmptySet
<1>7. PICK T : T = k[m + 1].start..u - 1
  OBVIOUS
<1>8. /\ IsFiniteSet(Upto(k, m) \cup T)
      /\ Cardinality(Upto(k, m) \cup T) = Cardinality(Upto(k, m)) + Cardinality(T) - Cardinality(Upto(k, m) \cap T)
  BY <1>5, <1>7, FS_Union
<1>9. k[m + 1].start \in Int
  BY <1>1, <1>2
<1>10. PICK a \in Int : a = k[m + 1].start
  BY <1>9
<1>11. PICK c \in Nat : c = Cardinality(Upto(k, m))
  BY <1>6
<1>12. Cardinality(Upto(k, m) \cup T) = c + (u - a)
  <2>1. Cardinality(T) = u - a /\ Cardinality(Upto(k, m) \cap T) = 0
    BY <1>4, <1>5, <1>6, <1>7, <1>10
  <2>. QED BY <1>8, <1>10, <1>11, <2>1
<1>. QED BY <1>7, <1>8, <1>10, <1>11, <1>12

LEMMA UptoNext ==
  ASSUME NEW length \in Nat, NEW k, Parted(k, length), NEW m \in Nat, m + 1 <= Len(k)
  PROVE  Upto(k, m + 1) = Upto(k, m) \cup (k[m + 1].start..k[m + 1].end - 1)
<1>1. m + 1 \in 1..Len(k)
  BY DEF Parted
<1>2. k[m + 1].start \in Int /\ k[m + 1].end \in Int
  BY PartedIs, <1>1
<1>3. 1..m + 1 = (1..m) \cup {m + 1}
  OBVIOUS
<1>4. \A t \in Int : Covered(k[m + 1], t) <=> t \in k[m + 1].start..k[m + 1].end - 1
  BY <1>2 DEF Covered
<1>5. \A t \in Int : t \in Upto(k, m + 1) <=> t \in Upto(k, m) \/ Covered(k[m + 1], t)
  BY <1>3 DEF Upto
<1>6. \A t : t \in Upto(k, m + 1) \/ t \in Upto(k, m) \/ t \in k[m + 1].start..k[m + 1].end - 1 => t \in Int
  BY DEF Upto
<1>. QED BY <1>4, <1>5, <1>6

LEMMA UptoNone == ASSUME NEW k PROVE Upto(k, 0) = {}
  BY DEF Upto

\* trimToTarget: how much the first ranges are is a sum.
LEMMA KeptBeforeIs ==
  ASSUME NEW length \in Nat, NEW k, Parted(k, length), NEW i \in 1..Len(k) + 1
  PROVE  /\ IsFiniteSet(Upto(k, i - 1))
         /\ Recipe!KeptBefore(k, i) = Cardinality(Upto(k, i - 1)) /\ Recipe!KeptBefore(k, i) \in Nat
<1>. DEFINE n == i - 1
            seq == SubSeq(k, 1, n)
            move == [p \in (1..n) \X Int |-> p[2] + Recipe!Length(seq[p[1]])]
            fold == CHOOSE g : g = [T \in SUBSET DOMAIN seq |->
                       IF T = {} THEN 0 ELSE g[T \ {Recipe!Max(T)}] + Recipe!Length(seq[Recipe!Max(T)])]
<1>1. Recipe!KeptBefore(k, i) = fold[DOMAIN seq]
  BY Zenon DEF Recipe!KeptBefore, Recipe!FoldLeft, Recipe!MapThenFoldSet
<1>2. /\ Len(k) \in Nat /\ n \in Nat /\ n <= Len(k) /\ k \in Seq(Stretch)
      /\ \A j \in 1..Len(k) : k[j].start \in Int /\ k[j].end \in Int
  <2>1. /\ Len(k) \in Nat /\ k \in Seq(Stretch)
        /\ \A j \in 1..Len(k) : k[j].start \in Int /\ k[j].end \in Int
    BY PartedIs
  <2>. QED BY <2>1
<1>3. Len(seq) = n /\ DOMAIN seq = 1..n /\ \A j \in 1..n : seq[j] = k[j]
  <2>1. k \in Seq(Stretch) /\ Len(k) \in Nat /\ n \in Nat /\ n <= Len(k)
    BY <1>2
  <2>. HIDE DEF n
  <2>2. Len(seq) = n
    BY <2>1
  <2>3. DOMAIN seq = 1..n
    BY <2>1
  <2>4. ASSUME NEW j \in 1..n PROVE seq[j] = k[j]
    BY <2>1
  <2>. QED BY <2>2, <2>3, <2>4
<1>. HIDE DEF seq, n
<1>4. \A j \in 1..n : j \in 1..Len(k)
  BY <1>2
<1>5. ASSUME NEW j \in 1..n PROVE Recipe!Length(seq[j]) \in Int /\ Recipe!Length(seq[j]) = k[j].end - k[j].start
  <2>1. k[j].start \in Int /\ k[j].end \in Int /\ seq[j] = k[j]
    BY <1>2, <1>3, <1>4
  <2>. QED BY <2>1 DEF Recipe!Length
<1>6. move \in [(1..n) \X Int -> Int]
  <2>1. \A p \in (1..n) \X Int : p[2] + Recipe!Length(seq[p[1]]) \in Int
    BY <1>5
  <2>. QED BY <2>1
<1>7. \A j \in 1..n, x \in Int : move[<<j, x>>] = x + Recipe!Length(seq[j])
  OBVIOUS
<1>. HIDE DEF move
<1>8. \A T \in SUBSET (1..n) : T # {} => Recipe!Max(T) \in 1..n /\ T \ {Recipe!Max(T)} \in SUBSET (1..n)
  BY <1>2, GreatestIs
<1>9. PICK g : IsFold(g, n, Int, move, 0)
  <2>1. 0 \in Int /\ n \in Nat
    BY <1>2
  <2>. QED BY <1>6, <2>1, FoldExists
<1>10. g = [T \in SUBSET DOMAIN seq |->
               IF T = {} THEN 0 ELSE g[T \ {Recipe!Max(T)}] + Recipe!Length(seq[Recipe!Max(T)])]
  <2>1. \A T \in SUBSET (1..n) : g[T] = IF T = {} THEN 0 ELSE g[T \ {Recipe!Max(T)}] + Recipe!Length(seq[Recipe!Max(T)])
    <3>. SUFFICES ASSUME NEW T \in SUBSET (1..n)
                  PROVE  g[T] = IF T = {} THEN 0 ELSE g[T \ {Recipe!Max(T)}] + Recipe!Length(seq[Recipe!Max(T)])
      OBVIOUS
    <3>1. g[T] = Folded(move, 0, g, T)
      BY <1>9 DEF IsFold
    <3>2. T # {} => g[T \ {Recipe!Max(T)}] \in Int
      BY <1>8, <1>9 DEF IsFold
    <3>. QED BY <1>7, <1>8, <3>1, <3>2 DEF Folded
  <2>. QED BY <1>3, <1>9, <2>1 DEF IsFold
<1>11. fold = [T \in SUBSET DOMAIN seq |->
                  IF T = {} THEN 0 ELSE fold[T \ {Recipe!Max(T)}] + Recipe!Length(seq[Recipe!Max(T)])]
  BY <1>10
<1>. HIDE DEF fold
<1>. DEFINE Good(m) == m <= n => IsFiniteSet(Upto(k, m)) /\ fold[1..m] = Cardinality(Upto(k, m))
            G == {m \in Nat : Good(m)}
<1>12. 0 \in G
  <2>1. 1..0 = {} /\ 1..0 \in SUBSET DOMAIN seq
    OBVIOUS
  <2>2. fold[1..0] = 0
    BY <1>11, <2>1
  <2>3. Good(0)
    BY <2>2, UptoNone, FS_EmptySet
  <2>. QED BY <2>3
<1>13. ASSUME NEW m \in G PROVE m + 1 \in G
  <2>0. m \in Nat /\ m + 1 \in Nat /\ Good(m)
    OBVIOUS
  <2>1. ASSUME m + 1 <= n
        PROVE  IsFiniteSet(Upto(k, m + 1)) /\ fold[1..m + 1] = Cardinality(Upto(k, m + 1))
    <3>1. m <= n /\ m + 1 \in 1..n /\ 1..m + 1 \in SUBSET (1..n) /\ 1..m + 1 # {} /\ m + 1 <= Len(k)
      <4>1. m \in Nat /\ m + 1 <= n /\ n \in Nat /\ Len(k) \in Nat /\ n <= Len(k)
        BY <1>2, <2>0, <2>1
      <4>2. m <= n /\ m + 1 \in 1..n /\ m + 1 \in 1..m + 1 /\ m + 1 <= Len(k)
        BY <4>1
      <4>3. \A j \in 1..m + 1 : j \in 1..n
        BY <4>1
      <4>. QED BY <4>2, <4>3
    <3>2. Recipe!Max(1..m + 1) = m + 1
      <4>0. m + 1 \in 1..m + 1 /\ n \in Nat
        BY <1>2, <2>0
      <4>1. Recipe!Max(1..m + 1) \in 1..m + 1 /\ m + 1 <= Recipe!Max(1..m + 1)
        BY <3>1, <4>0, GreatestIs
      <4>. QED BY <2>0, <4>1
    <3>3. (1..m + 1) \ {m + 1} = 1..m
      BY <2>0
    <3>4. fold[1..m + 1] = fold[1..m] + Recipe!Length(seq[m + 1])
      BY <1>3, <1>11, <3>1, <3>2, <3>3
    <3>5. IsFiniteSet(Upto(k, m)) /\ fold[1..m] = Cardinality(Upto(k, m))
      BY <2>0, <3>1
    <3>6. k[m + 1].start \in Int /\ k[m + 1].end \in Int /\ k[m + 1].start <= k[m + 1].end
      BY <1>2, <1>4, <3>1 DEF Parted
    <3>7. Upto(k, m + 1) = Upto(k, m) \cup (k[m + 1].start..k[m + 1].end - 1)
      BY <2>0, <3>1, UptoNext
    <3>8. /\ IsFiniteSet(Upto(k, m + 1))
          /\ Cardinality(Upto(k, m + 1)) = Cardinality(Upto(k, m)) + (k[m + 1].end - k[m + 1].start)
      <4>1. LET more == Upto(k, m) \cup (k[m + 1].start..k[m + 1].end - 1)
            IN  /\ IsFiniteSet(more)
                /\ Cardinality(more) = Cardinality(Upto(k, m)) + (k[m + 1].end - k[m + 1].start)
        <5>1. k[m + 1].end <= k[m + 1].end
          BY <3>6
        <5>2. m \in Nat /\ m + 1 <= Len(k) /\ IsFiniteSet(Upto(k, m)) /\ k[m + 1].end \in Int
          BY <2>0, <3>1, <3>5, <3>6
        <5>3. k[m + 1].start <= k[m + 1].end
          BY <3>6
        <5>. QED BY <5>1, <5>2, <5>3, UptoGrows, Zenon
      <4>. QED BY <3>7, <4>1, Zenon
    <3>9. Recipe!Length(seq[m + 1]) = k[m + 1].end - k[m + 1].start
      BY <1>5, <3>1
    <3>. QED BY <3>4, <3>5, <3>8, <3>9
  <2>2. Good(m + 1)
    BY <2>0, <2>1
  <2>. QED BY <2>0, <2>2
<1>14. G = Nat
  <2>. HIDE DEF G
  <2>0. G \in SUBSET Nat
    BY DEF G
  <2>. QED BY <1>12, <1>13, <2>0, NatSet
<1>15. Good(n)
  BY <1>2, <1>14
<1>16. IsFiniteSet(Upto(k, n)) /\ fold[1..n] = Cardinality(Upto(k, n))
  <2>1. n <= n
    BY <1>2
  <2>. QED BY <1>15, <2>1, Zenon
<1>17. Cardinality(Upto(k, n)) \in Nat
  BY <1>16, FS_CardinalityType
<1>. QED BY <1>1, <1>3, <1>16, <1>17 DEF n

\* So much is kept before a range, or in the first ranges.
LEMMA KeptBeforeGrows ==
  ASSUME NEW length \in Nat, NEW k, Parted(k, length), NEW i \in 1..Len(k)
  PROVE  /\ Recipe!KeptBefore(k, i) \in Nat /\ Recipe!KeptBefore(k, 1) = 0
         /\ Recipe!KeptBefore(k, i + 1) = Recipe!KeptBefore(k, i) + Recipe!Length(k[i])
         /\ \A j \in 1..Len(k) : i < j => Recipe!KeptBefore(k, i + 1) <= Recipe!KeptBefore(k, j)
<1>1. Len(k) \in Nat /\ k[i].start \in Int /\ k[i].end \in Int
  BY PartedIs
<1>2. \A j \in 1..Len(k) + 1 :
         /\ IsFiniteSet(Upto(k, j - 1))
         /\ Recipe!KeptBefore(k, j) = Cardinality(Upto(k, j - 1)) /\ Recipe!KeptBefore(k, j) \in Nat
  BY KeptBeforeIs
<1>3. i \in 1..Len(k) + 1 /\ i + 1 \in 1..Len(k) + 1 /\ 1 \in 1..Len(k) + 1
  BY <1>1
<1>4. Recipe!KeptBefore(k, i) \in Nat
  BY <1>2, <1>3
<1>5. Recipe!KeptBefore(k, 1) = 0
  <2>1. Recipe!KeptBefore(k, 1) = Cardinality(Upto(k, 1 - 1))
    BY <1>2, <1>3
  <2>2. 1 - 1 = 0
    OBVIOUS
  <2>. QED BY <2>1, <2>2, UptoNone, FS_EmptySet
<1>6. Recipe!KeptBefore(k, i + 1) = Recipe!KeptBefore(k, i) + Recipe!Length(k[i])
  <2>1. PICK m \in Nat : m = i - 1 /\ m + 1 = i /\ m + 1 <= Len(k)
    BY <1>1
  <2>2. IsFiniteSet(Upto(k, m)) /\ Recipe!KeptBefore(k, i) = Cardinality(Upto(k, m))
    BY <1>2, <1>3, <2>1
  <2>3. Recipe!KeptBefore(k, i + 1) = Cardinality(Upto(k, m + 1))
    <3>1. (i + 1) - 1 = m + 1
      BY <2>1
    <3>2. Recipe!KeptBefore(k, i + 1) = Cardinality(Upto(k, (i + 1) - 1))
      BY <1>2, <1>3
    <3>. QED BY <3>1, <3>2
  <2>4. k[i].start <= k[i].end /\ k[i].end <= k[i].end
    BY <1>1 DEF Parted
  <2>5. Cardinality(Upto(k, m) \cup (k[m + 1].start..k[i].end - 1))
           = Cardinality(Upto(k, m)) + (k[i].end - k[m + 1].start)
    BY <1>1, <2>1, <2>2, <2>4, UptoGrows
  <2>6. Upto(k, m + 1) = Upto(k, m) \cup (k[m + 1].start..k[i].end - 1)
    BY <2>1, UptoNext
  <2>. QED BY <2>1, <2>2, <2>3, <2>5, <2>6 DEF Recipe!Length
<1>7. ASSUME NEW j \in 1..Len(k), i < j PROVE Recipe!KeptBefore(k, i + 1) <= Recipe!KeptBefore(k, j)
  <2>1. j \in 1..Len(k) + 1 /\ \A x \in 1..i : x \in 1..j - 1
    BY <1>1, <1>7
  <2>2. (i + 1) - 1 = i
    OBVIOUS
  <2>3. Upto(k, i) \subseteq Upto(k, j - 1)
    BY <2>1 DEF Upto
  <2>4. Cardinality(Upto(k, i)) <= Cardinality(Upto(k, j - 1))
    BY <1>2, <2>1, <2>3, FS_Subset
  <2>5. /\ Recipe!KeptBefore(k, i + 1) = Cardinality(Upto(k, (i + 1) - 1))
        /\ Recipe!KeptBefore(k, j) = Cardinality(Upto(k, j - 1))
    BY <1>2, <1>3, <2>1
  <2>. QED BY <2>2, <2>4, <2>5
<1>. QED BY <1>4, <1>5, <1>6, <1>7

\* The place of a second among the seconds the ranges cover.
LEMMA PlaceIs ==
  ASSUME NEW length \in Nat, NEW k, Parted(k, length), NEW j \in 1..Len(k),
         NEW t \in Int, Covered(k[j], t), NEW B, \A x : x \in B <=> x \in Int /\ Inside(k, x)
  PROVE  Cardinality({u \in B : u < t}) = Recipe!KeptBefore(k, j) + (t - k[j].start)
<1>1. Len(k) \in Nat /\ \A i \in 1..Len(k) : k[i].start \in Int /\ k[i].end \in Int
  BY PartedIs
<1>2. PICK m \in Nat : m = j - 1 /\ m + 1 = j /\ m + 1 <= Len(k)
  BY <1>1
<1>3. IsFiniteSet(Upto(k, m)) /\ Recipe!KeptBefore(k, j) = Cardinality(Upto(k, m))
  <2>1. j \in 1..Len(k) + 1
    BY <1>1
  <2>. QED BY <1>2, <2>1, KeptBeforeIs
<1>4. k[j].start <= t /\ t < k[j].end /\ t <= k[j].end
  BY <1>1 DEF Covered
<1>5. \A i \in 1..Len(k) : k[i].start < k[i].end
  BY DEF Parted
<1>6. \A i, h \in 1..Len(k) : i < h => k[i].end < k[h].start
  BY DEF Parted
<1>7. Cardinality(Upto(k, m) \cup (k[m + 1].start..t - 1)) = Cardinality(Upto(k, m)) + (t - k[m + 1].start)
  BY <1>2, <1>3, <1>4, UptoGrows
<1>8. ASSUME NEW u \in Int PROVE Inside(k, u) /\ u < t <=> u \in Upto(k, m) \/ u \in k[j].start..t - 1
  <2>1. ASSUME NEW i \in 1..Len(k), Covered(k[i], u), u < t
        PROVE  u \in Upto(k, m) \/ u \in k[j].start..t - 1
    <3>1. k[i].start <= u /\ u < k[i].end
      BY <2>1 DEF Covered
    <3>2. CASE i < j
      <4>1. i \in 1..m
        BY <1>1, <1>2, <3>2
      <4>. QED BY <2>1, <4>1 DEF Upto
    <3>3. CASE i = j
      BY <1>1, <1>4, <2>1, <3>1, <3>3
    <3>4. CASE j < i
      <4>1. k[j].end < k[i].start
        BY <1>6, <3>4
      <4>. QED BY <1>1, <1>4, <2>1, <3>1, <4>1
    <3>. QED BY <1>1, <3>2, <3>3, <3>4
  <2>2. ASSUME u \in Upto(k, m) PROVE Inside(k, u) /\ u < t
    <3>1. PICK i \in 1..m : Covered(k[i], u)
      BY <2>2 DEF Upto
    <3>2. i \in 1..Len(k) /\ i < j
      BY <1>1, <1>2
    <3>3. k[i].end < k[j].start /\ u < k[i].end
      BY <1>6, <3>1, <3>2 DEF Covered
    <3>. QED BY <1>1, <1>4, <3>1, <3>2, <3>3 DEF Inside
  <2>3. ASSUME u \in k[j].start..t - 1 PROVE Inside(k, u) /\ u < t
    <3>1. k[j].start <= u /\ u < t /\ u < k[j].end
      BY <1>1, <1>4, <2>3
    <3>. QED BY <3>1 DEF Inside, Covered
  <2>. QED BY <2>1, <2>2, <2>3 DEF Inside
<1>9. \A u : u \in Upto(k, m) \/ u \in k[j].start..t - 1 => u \in Int
  BY DEF Upto
<1>10. {u \in B : u < t} = Upto(k, m) \cup (k[j].start..t - 1)
  BY <1>8, <1>9
<1>. QED BY <1>2, <1>3, <1>7, <1>10

LEMMA LeastOf == ASSUME NEW T \in SUBSET Nat, T # {} PROVE Recipe!Min(T) \in T /\ \A y \in T : Recipe!Min(T) <= y
<1>1. \E x \in T : \A y \in T : x <= y
  BY LeastNat
<1>. QED BY <1>1 DEF Recipe!Min

\* Normalized, the cuts leave the same seconds.
LEMMA NormalLeaves ==
  ASSUME NEW length \in Nat, NEW cuts \in SUBSET Stretch, IsFiniteSet(cuts)
  PROVE  (0..length - 1) \ Recipe!Seconds(Recipe!ToSet(Recipe!NormalizeCuts(cuts, length)))
            = (0..length - 1) \ Recipe!Seconds(cuts)
<1>. DEFINE s == Recipe!NormalizeCuts(cuts, length)
<1>1. /\ Parted(s, length)
      /\ \A t \in Int : Inside(s, t) <=> t \in Recipe!Seconds(cuts) /\ t \in 0..length - 1
  BY NormalizeIs
<1>2. s \in Seq(Stretch)
  BY <1>1 DEF Parted
<1>. HIDE DEF s
<1>3. \A t \in Int : t \in Recipe!Seconds(Recipe!ToSet(s)) <=> Inside(s, t)
  BY <1>2, SecondsOfParts
<1>4. \A t \in 0..length - 1 : t \in Recipe!Seconds(Recipe!ToSet(s)) <=> t \in Recipe!Seconds(cuts)
  BY <1>1, <1>3
<1>. QED BY <1>4 DEF s

-------------------------------------------------------------------------------
\* trimToTarget: of what the cuts leave, exactly the first seconds of the target.
LEMMA TrimIs ==
  ASSUME NEW length \in Int, NEW cuts \in SUBSET Stretch, IsFiniteSet(cuts), NEW target \in Int, target > 0,
         NEW B, B = (0..length - 1) \ Recipe!Seconds(cuts)
  PROVE  (0..length - 1) \ Recipe!Seconds(Recipe!TrimToTarget(cuts, length, target))
            = {t \in B : Cardinality({u \in B : u < t}) < target}
<1>1. CASE length <= 0
  <2>1. 0..length - 1 = {}
    BY <1>1
  <2>. QED BY <2>1
<1>2. CASE length > 0
  <2>. DEFINE k == Recipe!Complement(cuts, length)
              full == {i \in DOMAIN k : Recipe!KeptBefore(k, i) + Recipe!Length(k[i]) >= target}
              until == Recipe!TailFrom(k, Recipe!Min(full), target)
              more == cuts \cup {Recipe!Part(until, length)}
  <2>0. length \in Nat
    BY <1>2
  <2>1. Recipe!TrimToTarget(cuts, length, target) =
           IF full = {} THEN Recipe!ToSet(Recipe!NormalizeCuts(cuts, length))
           ELSE Recipe!ToSet(Recipe!NormalizeCuts(more, length))
    <3>1. ~ (target <= 0 \/ length <= 0)
      BY <1>2
    <3>. QED BY <3>1, Zenon DEF Recipe!TrimToTarget
  <2>2. /\ Parted(k, length)
        /\ \A t \in Int : Inside(k, t) <=> t \in 0..length - 1 /\ t \notin Recipe!Seconds(cuts)
    BY <2>0, ComplementIs
  <2>. HIDE DEF k
  <2>3. /\ Len(k) \in Nat /\ DOMAIN k = 1..Len(k)
        /\ \A j \in 1..Len(k) : k[j].start \in Int /\ k[j].end \in Int
    BY <2>0, <2>2, PartedIs
  <2>4. \A x : x \in B <=> x \in Int /\ Inside(k, x)
    BY <2>2
  <2>5. \A j \in 1..Len(k) :
           /\ Recipe!KeptBefore(k, j) \in Nat /\ Recipe!KeptBefore(k, 1) = 0
           /\ Recipe!KeptBefore(k, j + 1) = Recipe!KeptBefore(k, j) + Recipe!Length(k[j])
           /\ \A h \in 1..Len(k) : j < h => Recipe!KeptBefore(k, j + 1) <= Recipe!KeptBefore(k, h)
    BY <2>0, <2>2, KeptBeforeGrows
  <2>6. \A j \in 1..Len(k), t \in Int :
           Covered(k[j], t) => Cardinality({u \in B : u < t}) = Recipe!KeptBefore(k, j) + (t - k[j].start)
    BY <2>0, <2>2, <2>4, PlaceIs
  <2>7. \A t \in B : t \in Int /\ \E j \in 1..Len(k) : Covered(k[j], t)
    BY <2>4 DEF Inside
  <2>8. ASSUME NEW j \in 1..Len(k), Recipe!KeptBefore(k, j) + Recipe!Length(k[j]) < target,
               NEW t \in Int, Covered(k[j], t)
        PROVE  Cardinality({u \in B : u < t}) < target
    <3>1. Cardinality({u \in B : u < t}) = Recipe!KeptBefore(k, j) + (t - k[j].start)
      BY <2>6, <2>8
    <3>2. t < k[j].end /\ k[j].start \in Int /\ k[j].end \in Int /\ Recipe!KeptBefore(k, j) \in Int
      BY <2>3, <2>5, <2>8 DEF Covered
    <3>3. Recipe!KeptBefore(k, j) + (k[j].end - k[j].start) < target
      BY <2>8 DEF Recipe!Length
    <3>. QED BY <3>1, <3>2, <3>3
  <2>9. \A j \in 1..Len(k) : j \notin full => Recipe!KeptBefore(k, j) + Recipe!Length(k[j]) < target
    <3>. SUFFICES ASSUME NEW j \in 1..Len(k), j \notin full PROVE Recipe!KeptBefore(k, j) + Recipe!Length(k[j]) < target
      OBVIOUS
    <3>1. Recipe!KeptBefore(k, j) + Recipe!Length(k[j]) \in Int
      BY <2>3, <2>5 DEF Recipe!Length
    <3>2. ~ (Recipe!KeptBefore(k, j) + Recipe!Length(k[j]) >= target)
      BY <2>3
    <3>. QED BY <3>1, <3>2
  <2>10. full \in SUBSET (1..Len(k)) /\ \A j \in full : Recipe!KeptBefore(k, j) + Recipe!Length(k[j]) >= target
    BY <2>3
  <2>. HIDE DEF full
  <2>11. CASE full = {}
    <3>1. \A t \in B : Cardinality({u \in B : u < t}) < target
      BY <2>7, <2>8, <2>9, <2>11
    <3>2. (0..length - 1) \ Recipe!Seconds(Recipe!TrimToTarget(cuts, length, target)) = B
      BY <2>0, <2>1, <2>11, NormalLeaves
    <3>. QED BY <3>1, <3>2
  <2>12. CASE full # {}
    <3>. DEFINE i == Recipe!Min(full)
    <3>1. i \in full /\ \A j \in full : i <= j
      <4>1. full \in SUBSET Nat
        BY <2>10
      <4>. QED BY <2>12, <4>1, LeastOf
    <3>. HIDE DEF i
    <3>2. i \in 1..Len(k) /\ Recipe!KeptBefore(k, i) + Recipe!Length(k[i]) >= target
      BY <2>10, <3>1
    <3>3. \A j \in 1..Len(k) : j < i => Recipe!KeptBefore(k, j) + Recipe!Length(k[j]) < target
      <4>. SUFFICES ASSUME NEW j \in 1..Len(k), j < i PROVE j \notin full
        BY <2>9
      <4>. QED BY <3>1, <3>2
    <3>4. Recipe!KeptBefore(k, i) < target /\ Recipe!KeptBefore(k, i) \in Nat
      <4>1. CASE i = 1
        BY <2>5, <3>2, <4>1
      <4>2. CASE i # 1
        <5>1. i - 1 \in 1..Len(k) /\ i - 1 < i /\ (i - 1) + 1 = i
          BY <2>3, <3>2, <4>2
        <5>2. Recipe!KeptBefore(k, (i - 1) + 1) = Recipe!KeptBefore(k, i - 1) + Recipe!Length(k[i - 1])
          BY <2>5, <5>1
        <5>. QED BY <2>5, <3>2, <3>3, <5>1, <5>2
      <4>. QED BY <4>1, <4>2
    <3>5. PICK a \in Int, b \in Int, c \in Nat : a = k[i].start /\ b = k[i].end /\ c = Recipe!KeptBefore(k, i)
      BY <2>3, <3>2, <3>4
    <3>6. until = a + target - c
      BY <3>5 DEF i, Recipe!TailFrom
    <3>. HIDE DEF until
    <3>7. until \in Int /\ a < until /\ until <= b
      <4>1. c + (b - a) >= target
        BY <3>2, <3>5 DEF Recipe!Length
      <4>2. c < target
        BY <3>4, <3>5
      <4>. QED BY <3>6, <4>1, <4>2
    <3>8. ASSUME NEW t \in B PROVE Cardinality({u \in B : u < t}) < target <=> t < until
      <4>1. PICK j \in 1..Len(k) : Covered(k[j], t)
        BY <2>7
      <4>2. t \in Int /\ k[j].start <= t /\ t < k[j].end /\ k[j].start \in Int /\ k[j].end \in Int
        BY <2>3, <2>7, <4>1 DEF Covered
      <4>3. CASE j < i
        <5>1. k[j].end < a
          BY <2>2, <3>2, <3>5, <4>3 DEF Parted
        <5>2. Cardinality({u \in B : u < t}) < target
          BY <2>8, <3>3, <4>1, <4>2, <4>3
        <5>. QED BY <3>7, <4>2, <5>1, <5>2
      <4>4. CASE j = i
        <5>1. Cardinality({u \in B : u < t}) = c + (t - a)
          BY <2>6, <3>5, <4>1, <4>2, <4>4
        <5>. QED BY <3>6, <4>2, <5>1
      <4>5. CASE i < j
        <5>1. b < k[j].start
          BY <2>2, <3>2, <3>5, <4>5 DEF Parted
        <5>2. /\ Recipe!KeptBefore(k, j) \in Nat
              /\ Recipe!KeptBefore(k, i + 1) = Recipe!KeptBefore(k, i) + Recipe!Length(k[i])
              /\ Recipe!KeptBefore(k, i + 1) <= Recipe!KeptBefore(k, j)
          BY <2>5, <3>2, <4>5
        <5>3. Recipe!KeptBefore(k, j) >= target
          <6>1. Recipe!KeptBefore(k, i + 1) >= target
            BY <3>2, <5>2
          <6>2. Recipe!KeptBefore(k, i + 1) \in Int
            BY <3>4, <3>5, <5>2 DEF Recipe!Length
          <6>. QED BY <5>2, <6>1, <6>2
        <5>4. Cardinality({u \in B : u < t}) = Recipe!KeptBefore(k, j) + (t - k[j].start)
          BY <2>6, <4>1, <4>2
        <5>. QED BY <3>7, <4>2, <5>1, <5>2, <5>3, <5>4
      <4>6. j < i \/ j = i \/ i < j
        BY <2>3, <3>2
      <4>. QED BY <4>3, <4>4, <4>5, <4>6
    <3>9. more \in SUBSET Stretch /\ IsFiniteSet(more)
      <4>1. Recipe!Part(until, length) \in Stretch
        BY <3>7, PartsAre
      <4>. QED BY <4>1, FS_AddElement
    <3>10. \A t \in 0..length - 1 : t \in Recipe!Seconds(more) <=> t \in Recipe!Seconds(cuts) \/ ~ (t < until)
      <4>. SUFFICES ASSUME NEW t \in 0..length - 1
                    PROVE  t \in Recipe!Seconds(more) <=> t \in Recipe!Seconds(cuts) \/ ~ (t < until)
        OBVIOUS
      <4>0. t \in Int /\ t < length
        BY <2>0
      <4>1. Covered(Recipe!Part(until, length), t) <=> ~ (t < until)
        <5>1. Recipe!Part(until, length).start = until /\ Recipe!Part(until, length).end = length
          BY <3>7, PartsAre
        <5>. QED BY <3>7, <4>0, <5>1 DEF Covered
      <4>2. t \in Recipe!Seconds(more) <=> \E r \in more : Covered(r, t)
        BY <3>9, <4>0, SecondsAre
      <4>3. t \in Recipe!Seconds(cuts) <=> \E r \in cuts : Covered(r, t)
        BY <4>0, SecondsAre
      <4>. QED BY <4>1, <4>2, <4>3
    <3>11. (0..length - 1) \ Recipe!Seconds(Recipe!TrimToTarget(cuts, length, target))
              = (0..length - 1) \ Recipe!Seconds(more)
      <4>. HIDE DEF more
      <4>1. Recipe!TrimToTarget(cuts, length, target) = Recipe!ToSet(Recipe!NormalizeCuts(more, length))
        BY <2>1, <2>12
      <4>. QED BY <2>0, <3>9, <4>1, NormalLeaves
    <3>12. (0..length - 1) \ Recipe!Seconds(more) = {t \in B : t < until}
      BY <3>10
    <3>. HIDE DEF more
    <3>. QED BY <3>8, <3>11, <3>12
  <2>. QED BY <2>11, <2>12
<1>. QED BY <1>1, <1>2

\* A plan that was brought to a length is a trim of what it was before.
TrimInv ==
    /\ \E r \in RecipeRequests : filmed = r.clip /\ want = r.want
    /\ cutting.goal > 0 =>
          /\ cutting.before \in SUBSET Stretch /\ IsFiniteSet(cutting.before) /\ cutting.goal \in Int
          /\ cutting.cuts = Recipe!TrimToTarget(cutting.before, filmed.duration, cutting.goal)

LEMMA ClipIs ==
  ASSUME TrimInv
  PROVE  /\ filmed.duration \in Nat /\ want.target \in Int /\ want.tells \in Int
         /\ filmed.segments \in Seq(Recipe!ToSet(filmed.segments))
         /\ \A s \in Recipe!ToSet(filmed.segments) : s.start \in Int /\ s.end \in Int
<1>1. PICK r \in RecipeRequests : filmed = r.clip /\ want = r.want
  BY DEF TrimInv
<1>2. /\ r.clip.segments \in Seq(Recipe!ToSet(r.clip.segments))
      /\ \A s \in Recipe!ToSet(r.clip.segments) : s.start \in Int /\ s.end \in Int
      /\ r.clip.duration \in Nat /\ r.want.target \in Int /\ r.want.tells \in Int
  BY RecipeAssumption, Zenon DEF Recipe!AiEditRecipeAssumption
<1>. QED BY <1>1, <1>2

LEMMA SuggestedAre == \A S \in Suggestions : IsFiniteSet(S) /\ S \in SUBSET Stretch
<1>1. \A S \in Suggestions : Recipe!IsFiniteSet(S) /\ \A c \in S : c \in [start : Int, end : Int]
  BY RecipeAssumption, Zenon DEF Recipe!AiEditRecipeAssumption
<1>2. \A S : Recipe!IsFiniteSet(S) <=> IsFiniteSet(S)
  BY DEF Recipe!IsFiniteSet, IsFiniteSet
<1>. QED BY <1>1, <1>2 DEF Stretch

LEMMA ToSetIs == ASSUME NEW T, NEW s \in Seq(T) PROVE IsFiniteSet(Recipe!ToSet(s)) /\ Recipe!ToSet(s) \in SUBSET T
<1>1. Len(s) \in Nat /\ DOMAIN s = 1..Len(s) /\ \A i \in 1..Len(s) : s[i] \in T
  OBVIOUS
<1>2. IsFiniteSet(1..Len(s))
  BY <1>1, FS_Interval
<1>3. s \in Surjection(1..Len(s), Recipe!ToSet(s))
  BY <1>1 DEF Surjection, Recipe!ToSet
<1>. QED BY <1>1, <1>2, <1>3, FS_Surjection DEF Recipe!ToSet

\* What is removed of rude segments.
LEMMA RudeAre ==
  ASSUME TrimInv, NEW S, S \subseteq {Recipe!Part(s.start, s.end) : s \in Recipe!ToSet(filmed.segments)}
  PROVE  IsFiniteSet(S) /\ S \in SUBSET Stretch
<1>. DEFINE T == Recipe!ToSet(filmed.segments)
            f == [s \in T |-> Recipe!Part(s.start, s.end)]
            U == {Recipe!Part(s.start, s.end) : s \in T}
<1>1. IsFiniteSet(T) /\ \A s \in T : s.start \in Int /\ s.end \in Int
  BY ClipIs, ToSetIs
<1>. HIDE DEF T
<1>2. f \in Surjection(T, U)
  BY DEF Surjection
<1>3. IsFiniteSet(U)
  BY <1>1, <1>2, FS_Surjection
<1>4. U \in SUBSET Stretch
  BY <1>1, PartsAre
<1>. QED BY <1>3, <1>4, FS_Subset DEF T

LEMMA TrimStays ==
  ASSUME TrimInv, UNCHANGED <<filmed, want, cutting>> PROVE TrimInv'
  BY DEF TrimInv

LEMMA TrimPlanned ==
  ASSUME TrimInv, NEW by, NEW before, NEW goal, NEW cuts, Recipe!Planned(by, before, goal, cuts),
         goal > 0 => /\ before \in SUBSET Stretch /\ IsFiniteSet(before) /\ goal \in Int
                     /\ cuts = Recipe!TrimToTarget(before, filmed.duration, goal)
  PROVE  TrimInv'
<1>1. UNCHANGED <<filmed, want>> /\ cutting' = [by |-> by, before |-> before, goal |-> goal, cuts |-> cuts]
  BY DEF Recipe!Planned
<1>2. cutting'.before = before /\ cutting'.goal = goal /\ cutting'.cuts = cuts
  BY <1>1
<1>. QED BY <1>1, <1>2 DEF TrimInv

LEMMA TrimByModel == ASSUME TrimInv, NEW suggested \in Suggestions, Recipe!ModelPlans(suggested) PROVE TrimInv'
<1>. DEFINE cuts == Recipe!ToSet(Recipe!NormalizeCuts(suggested, filmed.duration))
<1>1. \/ Recipe!Planned("model", cuts, 0, Recipe!HighlightCuts(filmed.cues, cuts, filmed.duration, want.target))
      \/ Recipe!Planned("model", cuts, want.target, Recipe!TrimToTarget(cuts, filmed.duration, want.target))
  BY Zenon DEF Recipe!ModelPlans
<1>2. cuts \in SUBSET Stretch /\ IsFiniteSet(cuts)
  <2>1. Recipe!NormalizeCuts(suggested, filmed.duration) \in Seq(Stretch)
    BY ClipIs, SuggestedAre, NormalizeIs DEF Parted
  <2>. QED BY <2>1, ToSetIs
<1>3. want.target \in Int
  BY ClipIs
<1>. HIDE DEF cuts
<1>4. ~ (0 > 0)
  OBVIOUS
<1>. QED BY <1>1, <1>2, <1>3, <1>4, TrimPlanned

LEMMA TrimByRules == ASSUME TrimInv, Recipe!RulesPlan PROVE TrimInv'
<1>0. ~ (0 > 0) /\ want.target \in Int /\ want.tells \in Int
  BY ClipIs
<1>1. \A S : S \subseteq {Recipe!Part(s.start, s.end) : s \in Recipe!ToSet(filmed.segments)} =>
                IsFiniteSet(S) /\ S \in SUBSET Stretch
  BY RudeAre
<1>2. IsFiniteSet({}) /\ {} \in SUBSET Stretch
  BY FS_EmptySet
<1>. DEFINE Those(P(_)) == {i \in DOMAIN filmed.segments : P(filmed.segments[i].style)}
            rude == {filmed.segments[i] : i \in Those(LAMBDA style : style.rude)}
            cuts == IF want.clean THEN {Recipe!Part(s.start, s.end) : s \in rude} ELSE {}
            matched == Recipe!KeywordKeepCuts(filmed.segments, filmed.duration, Those(LAMBDA style : style.key),
                                       want.follow)
<1>3. \/ Recipe!Planned("rules", {}, want.target, Recipe!TrimToTarget({}, filmed.duration, want.target))
      \/ Recipe!Planned("rules", {}, 0, Recipe!HighlightCuts(filmed.cues, {}, filmed.duration, want.target))
      \/ Recipe!Planned("rules", cuts, want.tells, Recipe!TrimToTarget(cuts, filmed.duration, want.tells))
      \/ Recipe!Planned("rules", matched, 0, matched)
  BY Zenon DEF Recipe!RulesPlan
<1>4. cuts \subseteq {Recipe!Part(s.start, s.end) : s \in Recipe!ToSet(filmed.segments)}
  BY DEF Recipe!ToSet
<1>. HIDE DEF cuts, matched
<1>. QED BY <1>0, <1>1, <1>2, <1>3, <1>4, TrimPlanned

LEMMA TrimNext == TrimInv /\ [Recipe!Next]_(Recipe!vars) => TrimInv'
<1>. SUFFICES ASSUME TrimInv, [Recipe!Next]_(Recipe!vars) PROVE TrimInv'
  OBVIOUS
<1>1. CASE \E suggested \in Suggestions : Recipe!ModelPlans(suggested)
  BY <1>1, TrimByModel
<1>2. CASE Recipe!RulesPlan
  BY <1>2, TrimByRules
<1>3. CASE Recipe!RefuseTiming \/ Recipe!NoPlanAsked \/ Recipe!BeginScan \/ Recipe!ScanStep
  <2>1. UNCHANGED <<filmed, want, cutting>>
    BY <1>3 DEF Recipe!RefuseTiming, Recipe!NoPlanAsked, Recipe!BeginScan, Recipe!ScanStep
  <2>. QED BY <2>1, TrimStays
<1>4. CASE Recipe!BuildScanned \/ Recipe!BuildUnproven \/ Recipe!BuildListed \/ Recipe!BuildPlain
  <2>1. UNCHANGED <<filmed, want, cutting>>
    BY <1>4 DEF Recipe!BuildScanned, Recipe!BuildUnproven, Recipe!BuildListed, Recipe!BuildPlain, Recipe!Build
  <2>. QED BY <2>1, TrimStays
<1>5. CASE UNCHANGED Recipe!vars
  BY <1>5, TrimStays DEF Recipe!vars
<1>. QED BY <1>1, <1>2, <1>3, <1>4, <1>5 DEF Recipe!Next

LEMMA TrimInit == Recipe!Init => TrimInv
<1>. SUFFICES ASSUME Recipe!Init PROVE TrimInv
  OBVIOUS
<1>1. (\E r \in RecipeRequests : filmed = r.clip /\ want = r.want) /\ cutting.goal = 0
  BY DEF Recipe!Init, Recipe!NoPlan
<1>. QED BY <1>1 DEF TrimInv

LEMMA TrimsKeep == TrimInv => Recipe!TrimKeepsTheStart
<1>. SUFFICES ASSUME TrimInv, cutting.goal > 0
              PROVE  LET B == Recipe!Kept(cutting.before)
                     IN  Recipe!Kept(cutting.cuts) = {t \in B : Cardinality({u \in B : u < t}) < cutting.goal}
  BY Zenon, SizesAgree DEF Recipe!TrimKeepsTheStart
<1>1. PICK B : B = (0..filmed.duration - 1) \ Recipe!Seconds(cutting.before)
  OBVIOUS
<1>2. (0..filmed.duration - 1) \ Recipe!Seconds(Recipe!TrimToTarget(cutting.before, filmed.duration, cutting.goal))
         = {t \in B : Cardinality({u \in B : u < t}) < cutting.goal}
  <2>1. filmed.duration \in Int
    BY ClipIs
  <2>2. cutting.before \in SUBSET Stretch /\ IsFiniteSet(cutting.before) /\ cutting.goal \in Int
    BY DEF TrimInv
  <2>3. PICK S \in SUBSET Stretch, n \in Int, g \in Int : S = cutting.before /\ n = filmed.duration /\ g = cutting.goal
    BY <2>1, <2>2
  <2>4. IsFiniteSet(S) /\ g > 0 /\ B = (0..n - 1) \ Recipe!Seconds(S)
    BY <1>1, <2>2, <2>3
  <2>5. (0..n - 1) \ Recipe!Seconds(Recipe!TrimToTarget(S, n, g)) = {t \in B : Cardinality({u \in B : u < t}) < g}
    BY <2>4, TrimIs
  <2>. QED BY <2>3, <2>5
<1>3. Recipe!Kept(cutting.before) = B
  BY <1>1 DEF Recipe!Kept
<1>4. Recipe!Kept(cutting.cuts) = {t \in B : Cardinality({u \in B : u < t}) < cutting.goal}
  <2>1. cutting.cuts = Recipe!TrimToTarget(cutting.before, filmed.duration, cutting.goal)
    BY DEF TrimInv
  <2>. QED BY <1>2, <2>1, Zenon DEF Recipe!Kept
<1>. QED BY <1>3, <1>4

\* Whatever is cut and wherever: a plan that is brought to a length leaves, of what it left before, exactly
\* the first seconds of that length (trimToTarget with normalizeCuts and complement).
THEOREM TrimsKeepTheStart == Recipe!Spec => []Recipe!TrimKeepsTheStart
<1>1. Recipe!Init => TrimInv
  BY TrimInit
<1>2. TrimInv /\ [Recipe!Next]_(Recipe!vars) => TrimInv'
  BY TrimNext
<1>3. TrimInv => Recipe!TrimKeepsTheStart
  BY TrimsKeep
<1>. QED BY <1>1, <1>2, <1>3, PTL DEF Recipe!Spec

-------------------------------------------------------------------------------
(***************************************************************************)
(* The window of a target.                                                 *)
(***************************************************************************)
Timely(cues) == cues \in Seq(Recipe!ToSet(cues)) /\ \A s \in Recipe!ToSet(cues) : s.start \in Int /\ s.end \in Int
Sure(cues) ==
    /\ Len(cues) \in Nat /\ DOMAIN cues = 1..Len(cues)
    /\ \A i \in 1..Len(cues) : cues[i].start \in Int /\ cues[i].end \in Int /\ cues[i].start < cues[i].end
    /\ \A i, j \in 1..Len(cues) : i < j => cues[i].end <= cues[j].start

\* readStrictTranscriptEvidence looks at neighbours only.
LEMMA SureIs == ASSUME NEW cues, NEW length \in Nat, Timely(cues), Recipe!StrictEvidence(cues, length) PROVE Sure(cues)
<1>1. Len(cues) \in Nat /\ DOMAIN cues = 1..Len(cues)
  BY DEF Timely
<1>2. \A i \in 1..Len(cues) : cues[i].start \in Int /\ cues[i].end \in Int
  <2>1. \A i \in 1..Len(cues) : cues[i] \in Recipe!ToSet(cues)
    BY <1>1 DEF Recipe!ToSet
  <2>. QED BY <2>1 DEF Timely
<1>3. \A i \in 1..Len(cues) :
         cues[i].start < cues[i].end /\ (i > 1 => cues[i - 1].end <= cues[i].start)
  BY <1>1 DEF Recipe!StrictEvidence
<1>. DEFINE Good(d) == \A i, j \in 1..Len(cues) : j = i + d + 1 => cues[i].end <= cues[j].start
            G == {d \in Nat : Good(d)}
<1>4. 0 \in G
  <2>1. ASSUME NEW i \in 1..Len(cues), NEW j \in 1..Len(cues), j = i + 0 + 1 PROVE cues[i].end <= cues[j].start
    <3>1. j > 1 /\ j - 1 = i
      BY <2>1
    <3>. QED BY <1>3, <3>1
  <2>. QED BY <2>1
<1>5. ASSUME NEW d \in G PROVE d + 1 \in G
  <2>1. ASSUME NEW i \in 1..Len(cues), NEW j \in 1..Len(cues), j = i + (d + 1) + 1
        PROVE  cues[i].end <= cues[j].start
    <3>1. d \in Nat /\ j > 1 /\ j - 1 \in 1..Len(cues) /\ j - 1 = i + d + 1
      BY <1>1, <2>1
    <3>2. cues[i].end <= cues[j - 1].start
      BY <3>1
    <3>3. cues[j - 1].start < cues[j - 1].end /\ cues[j - 1].end <= cues[j].start
      BY <1>3, <3>1
    <3>. QED BY <1>2, <3>1, <3>2, <3>3
  <2>. QED BY <2>1
<1>6. G = Nat
  <2>. HIDE DEF G
  <2>0. G \in SUBSET Nat
    BY DEF G
  <2>. QED BY <1>4, <1>5, <2>0, NatSet
<1>7. ASSUME NEW i \in 1..Len(cues), NEW j \in 1..Len(cues), i < j PROVE cues[i].end <= cues[j].start
  <2>1. PICK d \in Nat : d = j - i - 1
    BY <1>7
  <2>2. Good(d)
    BY <1>6
  <2>3. j = i + d + 1
    BY <2>1
  <2>. HIDE DEF G
  <2>. QED BY <2>2, <2>3
<1>. QED BY <1>1, <1>2, <1>3, <1>7 DEF Sure

\* snapKeptRangeToCueBoundaries: inward, and no further the next time.
LEMMA SnapIs ==
  ASSUME NEW cues, Sure(cues), NEW a \in Int, NEW b \in Int
  PROVE  LET to == Recipe!Snap(cues, Recipe!Part(a, b))
         IN  to \in Stretch /\ a <= to.start /\ to.end <= b /\ Recipe!Snap(cues, to) = to
<1>. DEFINE In(x) == {i \in DOMAIN cues : cues[i].start < x /\ x < cues[i].end}
            Forward(x) == IF In(x) = {} THEN x ELSE cues[Recipe!Min(In(x))].end
            Backward(x) == IF In(x) = {} THEN x ELSE cues[Recipe!Min(In(x))].start
<1>1. \A r : Recipe!Snap(cues, r) = Recipe!Part(Forward(r.start), Backward(r.end))
  BY Zenon DEF Recipe!Snap
<1>2. ASSUME NEW x \in Int
      PROVE  /\ Forward(x) \in Int /\ x <= Forward(x) /\ In(Forward(x)) = {}
             /\ Backward(x) \in Int /\ Backward(x) <= x /\ In(Backward(x)) = {}
  <2>1. CASE In(x) = {}
    BY <2>1
  <2>2. CASE In(x) # {}
    <3>1. PICK i : i = Recipe!Min(In(x))
      OBVIOUS
    <3>2. i \in In(x)
      <4>1. In(x) \in SUBSET Nat
        BY DEF Sure
      <4>. HIDE DEF In
      <4>. QED BY <2>2, <3>1, <4>1, LeastOf
    <3>3. /\ i \in 1..Len(cues) /\ cues[i].start < x /\ x < cues[i].end
          /\ cues[i].start \in Int /\ cues[i].end \in Int
      BY <3>2 DEF Sure
    <3>4. Forward(x) = cues[i].end /\ Backward(x) = cues[i].start
      <4>. HIDE DEF In
      <4>. QED BY <2>2, <3>1
    <3>5. ASSUME NEW j \in 1..Len(cues)
          PROVE  /\ ~ (cues[j].start < cues[i].end /\ cues[i].end < cues[j].end)
                 /\ ~ (cues[j].start < cues[i].start /\ cues[i].start < cues[j].end)
      <4>1. /\ cues[j].start \in Int /\ cues[j].end \in Int
            /\ i < j => cues[i].end <= cues[j].start
            /\ j < i => cues[j].end <= cues[i].start
        BY <3>3 DEF Sure
      <4>2. i < j \/ i = j \/ j < i
        BY <3>3 DEF Sure
      <4>. QED BY <3>3, <4>1, <4>2
    <3>6. In(cues[i].end) = {} /\ In(cues[i].start) = {}
      BY <3>5 DEF Sure
    <3>. HIDE DEF In, Forward, Backward
    <3>. QED BY <3>3, <3>4, <3>6
  <2>. QED BY <2>1, <2>2
<1>3. \A x : In(x) = {} => Forward(x) = x /\ Backward(x) = x
  OBVIOUS
<1>. HIDE DEF In, Forward, Backward
<1>4. PICK c \in Int, d \in Int : c = Forward(a) /\ d = Backward(b)
  BY <1>2
<1>5. /\ Recipe!Part(a, b).start = a /\ Recipe!Part(a, b).end = b
      /\ Recipe!Part(c, d).start = c /\ Recipe!Part(c, d).end = d /\ Recipe!Part(c, d) \in Stretch
  BY PartsAre
<1>6. Recipe!Snap(cues, Recipe!Part(a, b)) = Recipe!Part(c, d)
  BY <1>1, <1>4, <1>5
<1>7. Forward(c) = c /\ Backward(d) = d
  BY <1>2, <1>3, <1>4
<1>8. Recipe!Snap(cues, Recipe!Part(c, d)) = Recipe!Part(c, d)
  BY <1>1, <1>5, <1>7
<1>. QED BY <1>2, <1>4, <1>5, <1>6, <1>8

\* Whatever is preferred, one of the candidates is chosen.
LEMMA BestIs ==
  ASSUME NEW n \in Nat, NEW c, NEW I \in SUBSET (1..n), I # {}, NEW target
  PROVE  \E i \in I : Recipe!Best(target, c, I) = c[i]
<1>. DEFINE V == {Recipe!NoCandidate} \cup {c[i] : i \in 1..n}
            move == [p \in (1..n) \X V |-> Recipe!Prefer(target, p[2], c[p[1]])]
            fold == CHOOSE g : g = [T \in SUBSET I |->
                       IF T = {} THEN Recipe!NoCandidate
                       ELSE Recipe!Prefer(target, g[T \ {Recipe!Max(T)}], c[Recipe!Max(T)])]
<1>1. Recipe!Best(target, c, I) = fold[I]
  BY Zenon DEF Recipe!Best, Recipe!MapThenFoldSet
<1>2. \A x, y : Recipe!Prefer(target, x, y) = x \/ Recipe!Prefer(target, x, y) = y
  BY DEF Recipe!Prefer
<1>3. \A y : Recipe!Prefer(target, Recipe!NoCandidate, y) = y
  BY DEF Recipe!Prefer
<1>4. Recipe!NoCandidate \in V /\ \A i \in 1..n : c[i] \in V
  OBVIOUS
<1>. HIDE DEF V
<1>5. move \in [(1..n) \X V -> V]
  <2>1. \A p \in (1..n) \X V : Recipe!Prefer(target, p[2], c[p[1]]) \in V
    BY <1>2, <1>4
  <2>. QED BY <2>1
<1>6. \A i \in 1..n, x \in V : move[<<i, x>>] = Recipe!Prefer(target, x, c[i])
  OBVIOUS
<1>. HIDE DEF move
<1>7. \A T \in SUBSET I : T # {} => Recipe!Max(T) \in T /\ Recipe!Max(T) \in 1..n /\ T \ {Recipe!Max(T)} \in SUBSET I
  BY GreatestIs
<1>8. PICK f : IsFold(f, n, V, move, Recipe!NoCandidate)
  BY <1>4, <1>5, FoldExists
<1>9. ASSUME NEW T \in SUBSET I
      PROVE  f[T] = IF T = {} THEN Recipe!NoCandidate
                    ELSE Recipe!Prefer(target, f[T \ {Recipe!Max(T)}], c[Recipe!Max(T)])
  <2>1. T \in SUBSET (1..n) /\ f[T] = Folded(move, Recipe!NoCandidate, f, T)
    BY <1>8 DEF IsFold
  <2>2. T # {} => f[T \ {Recipe!Max(T)}] \in V
    <3>1. T # {} => T \ {Recipe!Max(T)} \in SUBSET (1..n)
      BY <1>7
    <3>. QED BY <1>8, <3>1 DEF IsFold
  <2>. QED BY <1>6, <1>7, <2>1, <2>2 DEF Folded
<1>. DEFINE g == [T \in SUBSET I |-> f[T]]
<1>10. g = [T \in SUBSET I |->
               IF T = {} THEN Recipe!NoCandidate
               ELSE Recipe!Prefer(target, g[T \ {Recipe!Max(T)}], c[Recipe!Max(T)])]
  <2>1. \A T \in SUBSET I : g[T] = f[T]
    OBVIOUS
  <2>2. g = [T \in SUBSET I |-> g[T]]
    OBVIOUS
  <2>. HIDE DEF g
  <2>3. \A T \in SUBSET I :
           g[T] = IF T = {} THEN Recipe!NoCandidate
                  ELSE Recipe!Prefer(target, g[T \ {Recipe!Max(T)}], c[Recipe!Max(T)])
    BY <1>7, <1>9, <2>1
  <2>. QED BY <2>2, <2>3
<1>11. fold = [T \in SUBSET I |->
                  IF T = {} THEN Recipe!NoCandidate
                  ELSE Recipe!Prefer(target, fold[T \ {Recipe!Max(T)}], c[Recipe!Max(T)])]
  <2>. HIDE DEF g
  <2>. QED BY <1>10
<1>. HIDE DEF fold, g
<1>12. \A T \in SUBSET I :
          fold[T] = IF T = {} THEN Recipe!NoCandidate
                  ELSE Recipe!Prefer(target, fold[T \ {Recipe!Max(T)}], c[Recipe!Max(T)])
  BY <1>11
<1>. DEFINE Good(m) == \A T \in SUBSET I : T \subseteq 1..m /\ T # {} => \E i \in T : fold[T] = c[i]
            G == {m \in Nat : Good(m)}
<1>13. 0 \in G
  OBVIOUS
<1>14. ASSUME NEW m \in G PROVE m + 1 \in G
  <2>1. ASSUME NEW T \in SUBSET I, T \subseteq 1..m + 1, T # {} PROVE \E i \in T : fold[T] = c[i]
    <3>. DEFINE x == Recipe!Max(T)
                U == T \ {x}
    <3>1. x \in T /\ U \in SUBSET I /\ fold[T] = Recipe!Prefer(target, fold[U], c[x])
      BY <1>7, <1>12, <2>1
    <3>2. U \subseteq 1..m
      <4>1. \A y \in T : y <= x /\ y \in 1..m + 1
        BY <2>1, GreatestIs
      <4>2. m \in Nat
        OBVIOUS
      <4>3. ASSUME NEW y \in U PROVE y \in 1..m
        <5>1. y \in 1..m + 1 /\ x \in 1..m + 1 /\ y <= x /\ y # x
          BY <3>1, <4>1
        <5>. HIDE DEF x
        <5>. QED BY <4>2, <5>1
      <4>. QED BY <4>3
    <3>. HIDE DEF x
    <3>3. CASE U = {}
      <4>1. fold[U] = Recipe!NoCandidate
        BY <1>12, <3>1, <3>3
      <4>. QED BY <1>3, <3>1, <4>1
    <3>4. CASE U # {}
      <4>1. \E i \in U : fold[U] = c[i]
        BY <3>1, <3>2, <3>4
      <4>2. PICK i \in T : fold[U] = c[i]
        BY <4>1
      <4>3. fold[T] = fold[U] \/ fold[T] = c[x]
        BY <1>2, <3>1
      <4>. QED BY <3>1, <4>2, <4>3
    <3>. QED BY <3>3, <3>4
  <2>. QED BY <2>1
<1>15. G = Nat
  <2>. HIDE DEF G
  <2>0. G \in SUBSET Nat
    BY DEF G
  <2>. QED BY <1>13, <1>14, <2>0, NatSet
<1>16. Good(n)
  BY <1>15
<1>. QED BY <1>1, <1>16

\* candidateWindowStarts: in the clip, and at every edge.
AtEdge(cues, length, target, x) ==
    \/ x = 0 \/ x + target = length
    \/ \E i \in DOMAIN cues : cues[i].start = x \/ cues[i].end = x + target

LEMMA StartsAre ==
  ASSUME NEW cues, Timely(cues), NEW keeps \in Seq(Stretch),
         NEW length \in Int, NEW target \in Int, 0 < target, target < length
  PROVE  LET s == Recipe!WindowStarts(cues, keeps, length, target)
         IN  \E n \in Nat : /\ n # 0 /\ DOMAIN s = 1..n /\ \A i \in 1..n : s[i] \in 0..length - target
                            /\ \A x \in 0..length - target :
                                  AtEdge(cues, length, target, x) => \E i \in 1..n : s[i] = x
<1>. DEFINE latest == length - target
            R == Recipe!ToSet(keeps) \cup Recipe!ToSet(cues)
            Edges == UNION {{r.start, r.end - target} : r \in R}
            S == {0, latest} \cup {Recipe!Clamp(x, latest) : x \in Edges}
            s == Recipe!Sorted(S, <)
<1>1. Recipe!WindowStarts(cues, keeps, length, target) = s
  BY Zenon DEF Recipe!WindowStarts, Recipe!StartsAt
<1>2. latest \in Nat /\ latest > 0
  OBVIOUS
<1>3. IsFiniteSet(R) /\ \A r \in R : r.start \in Int /\ r.end \in Int
  <2>1. IsFiniteSet(Recipe!ToSet(keeps)) /\ Recipe!ToSet(keeps) \in SUBSET Stretch
    BY ToSetIs
  <2>2. IsFiniteSet(Recipe!ToSet(cues)) /\ \A r \in Recipe!ToSet(cues) : r.start \in Int /\ r.end \in Int
    BY ToSetIs DEF Timely
  <2>3. IsFiniteSet(R)
    BY <2>1, <2>2, FS_Union
  <2>. QED BY <2>1, <2>2, <2>3, PartsAre
<1>. HIDE DEF R, latest
<1>4. IsFiniteSet(Edges) /\ Edges \subseteq Int
  <2>. DEFINE first == [r \in R |-> r.start]
              last == [r \in R |-> r.end - target]
              A == {r.start : r \in R}
              B == {r.end - target : r \in R}
  <2>1. first \in Surjection(R, A) /\ last \in Surjection(R, B)
    BY DEF Surjection
  <2>2. IsFiniteSet(A) /\ IsFiniteSet(B)
    BY <1>3, <2>1, FS_Surjection
  <2>3. IsFiniteSet(A \cup B)
    BY <2>2, FS_Union
  <2>4. Edges = A \cup B
    OBVIOUS
  <2>5. A \subseteq Int /\ B \subseteq Int
    BY <1>3
  <2>. QED BY <2>3, <2>4, <2>5
<1>5. \A r \in R : r.start \in Edges /\ r.end - target \in Edges
  OBVIOUS
<1>. HIDE DEF Edges
<1>6. \A x \in Int : Recipe!Clamp(x, latest) = IF x < 0 THEN 0 ELSE IF x > latest THEN latest ELSE x
  BY <1>2, ClampIs
<1>7. S \subseteq 0..latest
  BY <1>2, <1>4, <1>6
<1>8. IsFiniteSet(S)
  <2>1. IsFiniteSet(0..latest)
    BY <1>2, FS_Interval
  <2>. QED BY <1>7, <2>1, FS_Subset
<1>9. ASSUME NEW x \in 0..latest, AtEdge(cues, length, target, x) PROVE x \in S
  <2>1. CASE x = 0
    BY <2>1
  <2>2. CASE x + target = length
    BY <1>2, <2>2 DEF latest
  <2>3. CASE \E i \in DOMAIN cues : cues[i].start = x \/ cues[i].end = x + target
    <3>1. PICK i \in DOMAIN cues : cues[i].start = x \/ cues[i].end = x + target
      BY <2>3
    <3>2. cues[i] \in R
      BY DEF R, Recipe!ToSet
    <3>3. x \in Int /\ ~ (x < 0) /\ ~ (x > latest)
      BY <1>2
    <3>4. x \in Edges
      BY <1>3, <1>5, <3>1, <3>2, <3>3
    <3>5. Recipe!Clamp(x, latest) = x
      BY <1>6, <3>3
    <3>. QED BY <3>4, <3>5
  <2>. QED BY <1>9, <2>1, <2>2, <2>3 DEF AtEdge
<1>10. 0 \in S
  OBVIOUS
<1>. HIDE DEF S
<1>11. S \subseteq Int
  BY <1>2, <1>7
<1>12. /\ s \in Seq(S) /\ DOMAIN s = 1..Cardinality(S) /\ Cardinality(S) \in Nat /\ Recipe!ToSet(s) = S
  BY <1>8, <1>11, NumbersAre
<1>. HIDE DEF s
<1>13. PICK n \in Nat : n = Cardinality(S)
  BY <1>12
<1>14. \A x : x \in S <=> \E i \in 1..n : s[i] = x
  BY <1>12, <1>13 DEF Recipe!ToSet
<1>15. n # 0
  BY <1>10, <1>14
<1>16. DOMAIN s = 1..n /\ (\A i \in 1..n : s[i] \in 0..length - target)
  BY <1>7, <1>12, <1>13, <1>14 DEF latest
<1>17. \A x \in 0..length - target : AtEdge(cues, length, target, x) => \E i \in 1..n : s[i] = x
  BY <1>9, <1>14 DEF latest
<1>. QED BY <1>1, <1>15, <1>16, <1>17

\* buildCoherentHighlightCuts: a window of whole cues of at least half of the target, or none begins at an edge.
Whole(cues, target, x) == Recipe!Snap(cues, Recipe!Part(x, x + target))

LEMMA WindowIs ==
  ASSUME NEW cues, Timely(cues), Sure(cues), NEW keeps \in Seq(Stretch),
         NEW length \in Int, NEW target \in Int, 0 < target, target < length
  PROVE  LET w == Recipe!HighlightWindow(cues, keeps, length, target)
         IN  \E x \in 0..length - target :
                \/ w = Whole(cues, target, x) /\ Recipe!Length(w) >= 1 /\ 2 * Recipe!Length(w) >= target
                \/ /\ w = Recipe!Part(x, x + target)
                   /\ \A y \in 0..length - target :
                         AtEdge(cues, length, target, y) => 2 * Recipe!Length(Whole(cues, target, y)) < target
<1>. DEFINE starts == Recipe!WindowStarts(cues, keeps, length, target)
            Candidate(range) == [range |-> range, gap |-> target - Recipe!Length(range),
                                 score |-> Recipe!Score(cues, keeps, range)]
            raw     == [i \in DOMAIN starts |-> Candidate(Recipe!Part(starts[i], starts[i] + target))]
            Cut(i) == Recipe!Snap(cues, Recipe!Part(starts[i], starts[i] + target))
            snapped == [i \in DOMAIN starts |-> Candidate(Cut(i))]
            whole   == {i \in DOMAIN starts : Recipe!Length(Cut(i)) >= 1 /\ 2 * Recipe!Length(Cut(i)) >= target}
            spoken  == {i \in whole : Recipe!EnoughSpeech(cues, Cut(i))}
            natural == {i \in spoken : /\ ~Recipe!ContinuousOpening(cues, Cut(i))
                                    /\ target - Recipe!Length(Cut(i)) <= Recipe!Comparable(target)}
            chosen  == Recipe!Chosen(target, snapped, spoken, whole, raw).range
            earlier == {i \in natural : chosen.start - Cut(i).start \in 1..Recipe!OpeningContext}
            clean   == {i \in earlier : ~Recipe!WeakOpening(cues, Cut(i))}
            paused  == {i \in natural : /\ Cut(i).start - chosen.start \in 1..Recipe!OpeningContext
                                        /\ ~Recipe!WeakOpening(cues, Cut(i)) /\ Recipe!OpensAfterPause(cues, Cut(i))}
            Latest(I)   == Cut(Recipe!Min({i \in I : \A j \in I : Cut(j).start <= Cut(i).start}))
            Earliest(I) == Cut(Recipe!Min({i \in I : \A j \in I : Cut(i).start <= Cut(j).start}))
            w == Recipe!HighlightWindow(cues, keeps, length, target)
<1>1. w = IF ~Recipe!ContinuousOpening(cues, chosen) THEN chosen
          ELSE IF clean /= {} THEN Latest(clean)
          ELSE IF earlier /= {} THEN Latest(earlier)
          ELSE IF paused /= {} THEN Earliest(paused)
          ELSE chosen
  BY Zenon DEF Recipe!HighlightWindow
<1>2. PICK n \in Nat : /\ n # 0 /\ DOMAIN starts = 1..n /\ \A i \in 1..n : starts[i] \in 0..length - target
                       /\ \A x \in 0..length - target :
                             AtEdge(cues, length, target, x) => \E i \in 1..n : starts[i] = x
  BY StartsAre
<1>. HIDE DEF starts, w
<1>3. DOMAIN raw = 1..n /\ \A i \in 1..n : raw[i].range = Recipe!Part(starts[i], starts[i] + target)
  BY <1>2
<1>. HIDE DEF raw
<1>4. \A i \in 1..n : Cut(i) = Whole(cues, target, starts[i]) /\ snapped[i].range = Cut(i)
  BY <1>2 DEF Whole
<1>. HIDE DEF snapped
<1>5. /\ whole \in SUBSET (1..n) /\ spoken \subseteq whole /\ natural \subseteq whole
      /\ clean \subseteq natural /\ earlier \subseteq natural /\ paused \subseteq natural
  BY <1>2
<1>6. \A i \in 1..n : i \in whole <=> Recipe!Length(Cut(i)) >= 1 /\ 2 * Recipe!Length(Cut(i)) >= target
  BY <1>2
<1>7. \/ \E i \in whole : chosen = Cut(i)
      \/ whole = {} /\ \E i \in 1..n : chosen = raw[i].range
  <2>. HIDE DEF whole, natural, earlier, clean, paused
  <2>1. CASE spoken # {}
    <3>1. Recipe!Chosen(target, snapped, spoken, whole, raw) = Recipe!Best(target, snapped, spoken)
      BY <2>1 DEF Recipe!Chosen
    <3>. HIDE DEF spoken
    <3>2. spoken \in SUBSET (1..n)
      BY <1>5
    <3>3. \E i \in spoken : Recipe!Best(target, snapped, spoken) = snapped[i]
      BY <2>1, <3>2, BestIs
    <3>4. PICK i \in spoken : chosen = snapped[i].range
      BY <3>1, <3>3
    <3>5. i \in whole /\ snapped[i].range = Cut(i)
      BY <1>4, <1>5
    <3>. HIDE DEF chosen, Cut
    <3>. QED BY <3>4, <3>5
  <2>2. CASE spoken = {} /\ whole # {}
    <3>1. Recipe!Chosen(target, snapped, spoken, whole, raw) = Recipe!Best(target, snapped, whole)
      BY <2>2 DEF Recipe!Chosen
    <3>2. \E i \in whole : Recipe!Best(target, snapped, whole) = snapped[i]
      BY <1>5, <2>2, BestIs
    <3>3. PICK i \in whole : chosen = snapped[i].range
      BY <3>1, <3>2
    <3>4. snapped[i].range = Cut(i)
      BY <1>4, <1>5
    <3>. HIDE DEF spoken, chosen, Cut
    <3>. QED BY <3>3, <3>4
  <2>3. CASE spoken = {} /\ whole = {}
    <3>1. Recipe!Chosen(target, snapped, spoken, whole, raw) = Recipe!Best(target, raw, DOMAIN raw)
      BY <2>3 DEF Recipe!Chosen
    <3>2. 1 \in 1..n
      <4>1. n \in Nat /\ n # 0
        BY <1>2
      <4>. QED BY <4>1
    <3>3. \E i \in 1..n : Recipe!Best(target, raw, 1..n) = raw[i]
      BY <3>2, BestIs
    <3>. HIDE DEF spoken
    <3>. QED BY <1>3, <2>3, <3>1, <3>3
  <2>. QED BY <2>1, <2>2, <2>3
<1>8. ASSUME NEW i \in whole PROVE Cut(i).start \in 0..length
  <2>1. i \in 1..n /\ Recipe!Length(Cut(i)) >= 1
    BY <1>5, <1>6
  <2>2. PICK x \in 0..length - target : x = starts[i]
    BY <1>2, <2>1
  <2>3. x \in Int /\ x + target \in Int
    OBVIOUS
  <2>4. Cut(i) = Recipe!Snap(cues, Recipe!Part(x, x + target))
    BY <1>4, <2>1, <2>2 DEF Whole
  <2>. HIDE DEF whole
  <2>5. PICK to \in Stretch : to = Cut(i) /\ x <= to.start /\ to.end <= x + target
    BY <2>3, <2>4, SnapIs
  <2>6. to.start \in Int /\ to.end \in Int /\ to.end - to.start >= 1
    BY <2>1, <2>5, PartsAre DEF Recipe!Length
  <2>. QED BY <2>5, <2>6
<1>. HIDE DEF whole, spoken, natural, earlier, clean, paused
<1>9. ASSUME NEW I, I \subseteq natural, I # {}
      PROVE  (\E i \in whole : Latest(I) = Cut(i)) /\ (\E i \in whole : Earliest(I) = Cut(i))
  <2>0. I \in SUBSET whole /\ I \in SUBSET Nat /\ length \in Nat
    BY <1>5, <1>9
  <2>. DEFINE U == {length - Cut(i).start : i \in I}
              V == {Cut(i).start : i \in I}
              last == {i \in I : \A j \in I : Cut(j).start <= Cut(i).start}
              first == {i \in I : \A j \in I : Cut(i).start <= Cut(j).start}
  <2>. HIDE DEF Cut
  <2>1. \A i \in I : Cut(i).start \in Int /\ length - Cut(i).start \in Nat /\ Cut(i).start \in Nat
    BY <1>8, <2>0
  <2>2. last # {}
    <3>1. U \in SUBSET Nat /\ U # {}
      BY <1>9, <2>1
    <3>2. PICK u \in U : \A y \in U : u <= y
      BY <3>1, LeastNat
    <3>3. PICK i \in I : u = length - Cut(i).start
      OBVIOUS
    <3>4. \A j \in I : Cut(j).start <= Cut(i).start
      <4>. SUFFICES ASSUME NEW j \in I PROVE Cut(j).start <= Cut(i).start
        OBVIOUS
      <4>1. u <= length - Cut(j).start
        BY <3>2
      <4>. QED BY <2>1, <3>3, <4>1
    <3>. QED BY <3>4
  <2>3. first # {}
    <3>1. V \in SUBSET Nat /\ V # {}
      BY <1>9, <2>1
    <3>2. PICK u \in V : \A y \in V : u <= y
      BY <3>1, LeastNat
    <3>3. PICK i \in I : u = Cut(i).start
      OBVIOUS
    <3>. QED BY <3>2, <3>3
  <2>4. last \in SUBSET Nat /\ first \in SUBSET Nat /\ last \subseteq whole /\ first \subseteq whole
    BY <2>0
  <2>5. Latest(I) = Cut(Recipe!Min(last)) /\ Earliest(I) = Cut(Recipe!Min(first))
    OBVIOUS
  <2>. HIDE DEF last, first, Latest, Earliest
  <2>6. Recipe!Min(last) \in whole /\ Recipe!Min(first) \in whole
    BY <2>2, <2>3, <2>4, LeastOf
  <2>. QED BY <2>5, <2>6
<1>10. clean # {} \/ earlier # {} \/ paused # {} => whole # {}
  BY <1>5
<1>11. \/ \E i \in whole : w = Cut(i)
       \/ whole = {} /\ \E i \in 1..n : w = raw[i].range
  <2>. HIDE DEF chosen, Cut, Latest, Earliest
  <2>1. clean # {} => \E i \in whole : Latest(clean) = Cut(i)
    BY <1>5, <1>9
  <2>2. earlier # {} => \E i \in whole : Latest(earlier) = Cut(i)
    BY <1>5, <1>9
  <2>3. paused # {} => \E i \in whole : Earliest(paused) = Cut(i)
    BY <1>5, <1>9
  <2>. QED BY <1>1, <1>7, <1>10, <2>1, <2>2, <2>3
<1>12. CASE \E i \in whole : w = Cut(i)
  <2>1. PICK i \in whole : w = Cut(i)
    BY <1>12
  <2>2. i \in 1..n
    BY <1>5
  <2>3. w = Whole(cues, target, starts[i]) /\ Recipe!Length(w) >= 1 /\ 2 * Recipe!Length(w) >= target
    <3>. HIDE DEF Cut
    <3>. QED BY <1>4, <1>6, <2>1, <2>2
  <2>4. starts[i] \in 0..length - target
    BY <1>2, <2>2
  <2>. QED BY <2>3, <2>4 DEF w
<1>13. CASE whole = {} /\ \E i \in 1..n : w = raw[i].range
  <2>1. PICK i \in 1..n : w = Recipe!Part(starts[i], starts[i] + target)
    BY <1>3, <1>13
  <2>2. ASSUME NEW y \in 0..length - target, AtEdge(cues, length, target, y)
        PROVE  2 * Recipe!Length(Whole(cues, target, y)) < target
    <3>1. PICK j \in 1..n : starts[j] = y
      BY <1>2, <2>2
    <3>2. Cut(j) = Whole(cues, target, y)
      BY <1>4, <3>1
    <3>3. ~ (Recipe!Length(Cut(j)) >= 1 /\ 2 * Recipe!Length(Cut(j)) >= target)
      BY <1>6, <1>13
    <3>4. PICK l \in Int : l = Recipe!Length(Whole(cues, target, y))
      <4>1. y \in Int /\ y + target \in Int
        OBVIOUS
      <4>2. Whole(cues, target, y) \in Stretch
        BY <4>1, SnapIs DEF Whole
      <4>. QED BY <4>2, PartsAre DEF Recipe!Length
    <3>5. ~ (l >= 1 /\ 2 * l >= target)
      BY <3>2, <3>3, <3>4
    <3>. QED BY <3>4, <3>5
  <2>3. starts[i] \in 0..length - target
    BY <1>2
  <2>. QED BY <2>1, <2>2, <2>3 DEF w
<1>. QED BY <1>11, <1>12, <1>13

-------------------------------------------------------------------------------
(***************************************************************************)
(* The story of a target.                                                  *)
(***************************************************************************)
StoryOf(cues, length, target, cuts) ==
    target < length =>
       LET rest  == (0..length - 1) \ Recipe!Seconds(cuts)
           story == Recipe!Part(Recipe!Min(rest), Recipe!Max(rest) + 1)
       IN  /\ rest /= {} /\ rest = Recipe!Seconds({story})
           /\ Recipe!Length(story) <= target /\ 2 * Recipe!Length(story) >= target
           /\ Recipe!Snap(cues, story) /= story =>
                 \A start \in 0..length - target :
                    AtEdge(cues, length, target, start) => 2 * Recipe!Length(Whole(cues, target, start)) < target

LEMMA StoryMeans ==
  Recipe!OneWholeStory <=>
     (cutting.by /= "none" /\ Recipe!ForTarget => StoryOf(filmed.cues, filmed.duration, want.target, cutting.cuts))
<1>1. \A start : AtEdge(filmed.cues, filmed.duration, want.target, start) <=>
                    \/ start = 0 \/ start + want.target = filmed.duration
                    \/ \E i \in DOMAIN filmed.cues : \/ filmed.cues[i].start = start
                                                  \/ filmed.cues[i].end = start + want.target
  BY DEF AtEdge
<1>2. \A start :
         Whole(filmed.cues, want.target, start) = Recipe!Snap(filmed.cues, Recipe!Part(start, start + want.target))
  BY DEF Whole
<1>3. Recipe!Kept(cutting.cuts) = (0..filmed.duration - 1) \ Recipe!Seconds(cutting.cuts)
  BY DEF Recipe!Kept
<1>. QED BY <1>1, <1>2, <1>3, Zenon DEF Recipe!OneWholeStory, StoryOf

LEMMA EndsAre ==
  ASSUME NEW a \in Int, NEW b \in Int, a < b
  PROVE  Recipe!Min(a..b - 1) = a /\ Recipe!Max(a..b - 1) = b - 1
<1>1. a \in a..b - 1 /\ b - 1 \in a..b - 1
  OBVIOUS
<1>2. \A y \in a..b - 1 : a <= y /\ y <= b - 1
  OBVIOUS
<1>3. \A x \in a..b - 1 : (\A y \in a..b - 1 : x <= y) => x = a
  BY <1>1
<1>4. \A x \in a..b - 1 : (\A y \in a..b - 1 : x >= y) => x = b - 1
  BY <1>1
<1>5. Recipe!Min(a..b - 1) = a
  BY <1>1, <1>2, <1>3 DEF Recipe!Min
<1>6. Recipe!Max(a..b - 1) = b - 1
  <2>1. \E x \in a..b - 1 : \A y \in a..b - 1 : x >= y
    BY <1>1, <1>2
  <2>. QED BY <1>4, <2>1 DEF Recipe!Max
<1>. QED BY <1>5, <1>6

LEMMA SpanIsStory ==
  ASSUME NEW cues, NEW length \in Int, NEW target \in Int, NEW cuts, NEW a \in Int, NEW b \in Int, a < b,
         (0..length - 1) \ Recipe!Seconds(cuts) = a..b - 1, b - a <= target, 2 * (b - a) >= target,
         \/ Recipe!Snap(cues, Recipe!Part(a, b)) = Recipe!Part(a, b)
         \/ \A start \in 0..length - target :
               AtEdge(cues, length, target, start) => 2 * Recipe!Length(Whole(cues, target, start)) < target
  PROVE  StoryOf(cues, length, target, cuts)
<1>. DEFINE rest == (0..length - 1) \ Recipe!Seconds(cuts)
            story == Recipe!Part(Recipe!Min(rest), Recipe!Max(rest) + 1)
<1>1. Recipe!Min(rest) = a /\ Recipe!Max(rest) + 1 = b
  <2>1. Recipe!Min(a..b - 1) = a /\ Recipe!Max(a..b - 1) = b - 1
    BY EndsAre
  <2>2. b - 1 + 1 = b
    OBVIOUS
  <2>. QED BY <2>1, <2>2, Zenon
<1>2. story = Recipe!Part(a, b)
  BY <1>1
<1>3. rest # {} /\ rest = a..b - 1
  OBVIOUS
<1>. HIDE DEF rest, story
<1>4. story.start = a /\ story.end = b
  BY <1>2, PartsAre
<1>5. Recipe!Seconds({story}) = a..b - 1
  BY <1>4 DEF Recipe!Seconds
<1>6. Recipe!Length(story) = b - a
  BY <1>4 DEF Recipe!Length
<1>7. Recipe!Length(story) <= target /\ 2 * Recipe!Length(story) >= target
  BY <1>6
<1>. QED BY <1>2, <1>3, <1>5, <1>7, Zenon DEF StoryOf, rest, story

LEMMA WindowLeaves ==
  ASSUME NEW length \in Nat, NEW a \in Int, NEW b \in Int, 0 <= a, a < b, b <= length
  PROVE  (0..length - 1) \ Recipe!Seconds(Recipe!ToSet(Recipe!Complement({Recipe!Part(a, b)}, length))) = a..b - 1
<1>. DEFINE w == Recipe!Part(a, b)
            k == Recipe!Complement({w}, length)
<1>1. {w} \in SUBSET Stretch /\ IsFiniteSet({w}) /\ w.start = a /\ w.end = b
  BY PartsAre, FS_Singleton
<1>2. Recipe!Seconds({w}) = a..b - 1
  BY <1>1 DEF Recipe!Seconds
<1>. HIDE DEF w
<1>3. k \in Seq(Stretch) /\ \A t \in Int : Inside(k, t) <=> t \in 0..length - 1 /\ t \notin Recipe!Seconds({w})
  BY <1>1, ComplementIs DEF Parted
<1>. HIDE DEF k
<1>4. \A t : t \in Recipe!Seconds(Recipe!ToSet(k)) <=> t \in Int /\ Inside(k, t)
  BY <1>3, SecondsOfParts
<1>5. \A t : t \in Recipe!Seconds(Recipe!ToSet(k)) <=> t \in 0..length - 1 /\ t \notin a..b - 1
  <2>. SUFFICES ASSUME NEW t
                PROVE  t \in Recipe!Seconds(Recipe!ToSet(k)) <=> t \in 0..length - 1 /\ t \notin a..b - 1
    OBVIOUS
  <2>1. t \in 0..length - 1 => t \in Int
    OBVIOUS
  <2>2. t \in Int => (Inside(k, t) <=> t \in 0..length - 1 /\ t \notin a..b - 1)
    BY <1>2, <1>3, Zenon
  <2>. QED BY <1>4, <2>1, <2>2, Zenon
<1>6. (0..length - 1) \ Recipe!Seconds(Recipe!ToSet(k)) = a..b - 1
  BY <1>5
<1>. QED BY <1>6 DEF k, w

LEMMA HighlightKeeps ==
  ASSUME NEW cues, Timely(cues), Sure(cues), NEW suggested \in SUBSET Stretch, IsFiniteSet(suggested),
         NEW length \in Nat, NEW target \in Int, 0 < target
  PROVE  StoryOf(cues, length, target, Recipe!HighlightCuts(cues, suggested, length, target))
<1>. SUFFICES ASSUME target < length
              PROVE  StoryOf(cues, length, target, Recipe!HighlightCuts(cues, suggested, length, target))
  BY DEF StoryOf
<1>. DEFINE keeps == Recipe!Complement(suggested, length)
            w == Recipe!HighlightWindow(cues, keeps, length, target)
            cuts == Recipe!HighlightCuts(cues, suggested, length, target)
<1>1. cuts = Recipe!ToSet(Recipe!Complement({w}, length))
  <2>1. ~ (length <= 0 \/ target <= 0 \/ target >= length)
    OBVIOUS
  <2>. QED BY <2>1, Zenon DEF Recipe!HighlightCuts
<1>2. keeps \in Seq(Stretch)
  BY ComplementIs DEF Parted
<1>. HIDE DEF keeps
<1>3. PICK x \in 0..length - target :
         \/ w = Whole(cues, target, x) /\ Recipe!Length(w) >= 1 /\ 2 * Recipe!Length(w) >= target
         \/ /\ w = Recipe!Part(x, x + target)
            /\ \A y \in 0..length - target :
                  AtEdge(cues, length, target, y) => 2 * Recipe!Length(Whole(cues, target, y)) < target
  <2>1. length \in Int
    OBVIOUS
  <2>. HIDE DEF w
  <2>. QED BY <1>2, <2>1, WindowIs DEF w
<1>. HIDE DEF w, cuts
<1>4. x \in Int /\ x + target \in Int /\ 0 <= x /\ x + target <= length
  OBVIOUS
<1>5. CASE w = Whole(cues, target, x) /\ Recipe!Length(w) >= 1 /\ 2 * Recipe!Length(w) >= target
  <2>1. w = Recipe!Snap(cues, Recipe!Part(x, x + target))
    BY <1>5 DEF Whole
  <2>2. w \in Stretch /\ x <= w.start /\ w.end <= x + target /\ Recipe!Snap(cues, w) = w
    BY <1>4, <2>1, SnapIs
  <2>3. PICK a \in Int, b \in Int : a = w.start /\ b = w.end /\ w = Recipe!Part(a, b)
    BY <2>2, PartsAre
  <2>4. Recipe!Length(w) = b - a
    BY <2>3 DEF Recipe!Length
  <2>5. 0 <= a /\ a < b /\ b <= length /\ b - a <= target /\ 2 * (b - a) >= target
    <3>1. x <= a /\ b <= x + target /\ b - a >= 1 /\ 2 * (b - a) >= target
      BY <1>5, <2>2, <2>3, <2>4, Zenon
    <3>. QED BY <1>4, <3>1
  <2>6. (0..length - 1) \ Recipe!Seconds(cuts) = a..b - 1
    BY <1>1, <2>3, <2>5, WindowLeaves
  <2>7. StoryOf(cues, length, target, cuts)
    BY <2>2, <2>3, <2>5, <2>6, SpanIsStory
  <2>. QED BY <2>7 DEF cuts
<1>6. CASE /\ w = Recipe!Part(x, x + target)
           /\ \A y \in 0..length - target :
                 AtEdge(cues, length, target, y) => 2 * Recipe!Length(Whole(cues, target, y)) < target
  <2>1. PICK b \in Int : b = x + target
    BY <1>4
  <2>2. 0 <= x /\ x < b /\ b <= length /\ b - x <= target /\ 2 * (b - x) >= target
    BY <1>4, <2>1
  <2>3. (0..length - 1) \ Recipe!Seconds(cuts) = x..b - 1
    <3>1. (0..length - 1) \ Recipe!Seconds(Recipe!ToSet(Recipe!Complement({Recipe!Part(x, b)}, length))) = x..b - 1
      BY <2>2, WindowLeaves
    <3>. QED BY <1>1, <1>6, <2>1, <3>1, Zenon
  <2>4. StoryOf(cues, length, target, cuts)
    <3>1. length \in Int /\ x \in Int
      OBVIOUS
    <3>. QED BY <1>6, <2>2, <2>3, <3>1, SpanIsStory
  <2>. QED BY <2>4 DEF cuts
<1>. QED BY <1>3, <1>5, <1>6

\* Nothing is heard: the start of the clip.
LEMMA StartIsStory ==
  ASSUME NEW length \in Nat, NEW target \in Int, 0 < target
  PROVE  StoryOf(<<>>, length, target, Recipe!TrimToTarget({}, length, target))
<1>. SUFFICES ASSUME target < length PROVE StoryOf(<<>>, length, target, Recipe!TrimToTarget({}, length, target))
  BY DEF StoryOf
<1>. DEFINE B == 0..length - 1
            cuts == Recipe!TrimToTarget({}, length, target)
<1>1. \A t \in B : {u \in B : u < t} = 0..t - 1 /\ Cardinality(0..t - 1) = t
  <2>. SUFFICES ASSUME NEW t \in B PROVE {u \in B : u < t} = 0..t - 1 /\ Cardinality(0..t - 1) = t
    OBVIOUS
  <2>1. t \in Int /\ 0 <= t /\ t <= length - 1
    OBVIOUS
  <2>2. {u \in B : u < t} = 0..t - 1
    BY <2>1
  <2>3. Cardinality(0..t - 1) = IF 0 > t - 1 THEN 0 ELSE t - 1 - 0 + 1
    BY <2>1, FS_Interval
  <2>. QED BY <2>1, <2>2, <2>3
<1>2. B = (0..length - 1) \ Recipe!Seconds({})
  BY DEF Recipe!Seconds
<1>3. B \ Recipe!Seconds(cuts) = {t \in B : Cardinality({u \in B : u < t}) < target}
  <2>1. IsFiniteSet({}) /\ {} \in SUBSET Stretch /\ length \in Int /\ target > 0
    BY FS_EmptySet
  <2>2. PICK C : C = 0..length - 1
    OBVIOUS
  <2>3. C = (0..length - 1) \ Recipe!Seconds({})
    BY <1>2, <2>2
  <2>4. (0..length - 1) \ Recipe!Seconds(Recipe!TrimToTarget({}, length, target))
           = {t \in C : Cardinality({u \in C : u < t}) < target}
    BY <2>1, <2>3, TrimIs
  <2>. QED BY <2>2, <2>4
<1>4. {t \in B : Cardinality({u \in B : u < t}) < target} = 0..target - 1
  <2>1. \A t \in B : Cardinality({u \in B : u < t}) = t
    BY <1>1
  <2>2. {t \in B : Cardinality({u \in B : u < t}) < target} = {t \in B : t < target}
    BY <2>1
  <2>3. {t \in B : t < target} = 0..target - 1
    OBVIOUS
  <2>. QED BY <2>2, <2>3
<1>5. Recipe!Snap(<<>>, Recipe!Part(0, target)) = Recipe!Part(0, target)
  <2>1. DOMAIN <<>> = {}
    OBVIOUS
  <2>2. Recipe!Part(0, target).start = 0 /\ Recipe!Part(0, target).end = target
    BY PartsAre
  <2>. QED BY <2>1, <2>2 DEF Recipe!Snap
<1>6. (0..length - 1) \ Recipe!Seconds(cuts) = 0..target - 1
  BY <1>3, <1>4
<1>. HIDE DEF cuts
<1>7. StoryOf(<<>>, length, target, cuts)
  BY <1>5, <1>6, SpanIsStory
<1>. QED BY <1>7 DEF cuts

\* A plan for a target leaves one story.
StoryInv == (\E r \in RecipeRequests : filmed = r.clip /\ want = r.want) /\ Recipe!OneWholeStory

LEMMA StoryClip ==
  ASSUME StoryInv
  PROVE  /\ filmed.duration \in Nat /\ want.target \in Int /\ Timely(filmed.cues)
         /\ Recipe!ForTarget => want.target > 0
         /\ Recipe!Proven => Sure(filmed.cues)
<1>1. PICK r \in RecipeRequests : filmed = r.clip /\ want = r.want
  BY DEF StoryInv
<1>2. /\ r.clip.cues \in Seq(Recipe!ToSet(r.clip.cues))
      /\ \A s \in Recipe!ToSet(r.clip.cues) : s.start \in Int /\ s.end \in Int
      /\ Recipe!StrictEvidence(r.clip.segments, r.clip.duration) => Recipe!StrictEvidence(r.clip.cues, r.clip.duration)
      /\ r.clip.duration \in Nat /\ r.want.target \in Int
      /\ r.want.plan = "target" => r.want.target > 0
  BY RecipeAssumption, Zenon DEF Recipe!AiEditRecipeAssumption
<1>3. Timely(r.clip.cues)
  BY <1>2 DEF Timely
<1>4. Recipe!StrictEvidence(r.clip.segments, r.clip.duration) => Sure(r.clip.cues)
  BY <1>2, <1>3, SureIs
<1>5. Recipe!Proven => Recipe!StrictEvidence(filmed.segments, filmed.duration)
  BY DEF Recipe!Proven
<1>6. Recipe!ForTarget => want.target > 0
  BY <1>1, <1>2 DEF Recipe!ForTarget
<1>. QED BY <1>1, <1>2, <1>3, <1>4, <1>5, <1>6

LEMMA StoryStays ==
  ASSUME StoryInv, UNCHANGED <<filmed, want, cutting>> PROVE StoryInv'
<1>1. Recipe!OneWholeStory'
  BY StoryMeans DEF StoryInv, Recipe!OneWholeStory, Recipe!ForTarget, Recipe!Kept
<1>. QED BY <1>1 DEF StoryInv

LEMMA StoryPlanned ==
  ASSUME StoryInv, NEW by, NEW before, NEW goal, NEW cuts, Recipe!Planned(by, before, goal, cuts),
         Recipe!ForTarget => StoryOf(filmed.cues, filmed.duration, want.target, cuts)
  PROVE  StoryInv'
<1>1. UNCHANGED <<filmed, want>> /\ cutting' = [by |-> by, before |-> before, goal |-> goal, cuts |-> cuts]
  BY DEF Recipe!Planned
<1>2. cutting'.cuts = cuts
  BY <1>1
<1>3. (Recipe!ForTarget => StoryOf(filmed.cues, filmed.duration, want.target, cutting.cuts))'
  BY <1>1, <1>2 DEF Recipe!ForTarget
<1>4. (Recipe!OneWholeStory <=>
          (cutting.by /= "none" /\ Recipe!ForTarget =>
              StoryOf(filmed.cues, filmed.duration, want.target, cutting.cuts)))'
  BY StoryMeans, PTL
<1>5. Recipe!OneWholeStory'
  BY <1>3, <1>4
<1>. QED BY <1>1, <1>5 DEF StoryInv

LEMMA StoryByModel == ASSUME StoryInv, NEW suggested \in Suggestions, Recipe!ModelPlans(suggested) PROVE StoryInv'
<1>. DEFINE cuts == Recipe!ToSet(Recipe!NormalizeCuts(suggested, filmed.duration))
            story == Recipe!HighlightCuts(filmed.cues, cuts, filmed.duration, want.target)
<1>1. \/ Recipe!ForTarget /\ Recipe!Planned("model", cuts, 0, story)
      \/ /\ ~Recipe!ForTarget
         /\ Recipe!Planned("model", cuts, want.target, Recipe!TrimToTarget(cuts, filmed.duration, want.target))
  BY Zenon DEF Recipe!ModelPlans
<1>2. cuts \in SUBSET Stretch /\ IsFiniteSet(cuts)
  <2>1. Recipe!NormalizeCuts(suggested, filmed.duration) \in Seq(Stretch)
    BY StoryClip, SuggestedAre, NormalizeIs DEF Parted
  <2>. QED BY <2>1, ToSetIs
<1>3. Recipe!Proven
  BY <1>1 DEF Recipe!Planned
<1>. HIDE DEF cuts
<1>4. Recipe!ForTarget => StoryOf(filmed.cues, filmed.duration, want.target, story)
  BY <1>2, <1>3, StoryClip, HighlightKeeps
<1>. HIDE DEF story
<1>. QED BY <1>1, <1>4, StoryPlanned

LEMMA StoryByRules == ASSUME StoryInv, Recipe!RulesPlan PROVE StoryInv'
<1>. DEFINE Those(P(_)) == {i \in DOMAIN filmed.segments : P(filmed.segments[i].style)}
            rude == {filmed.segments[i] : i \in Those(LAMBDA style : style.rude)}
            cuts == IF want.clean THEN {Recipe!Part(s.start, s.end) : s \in rude} ELSE {}
            matched == Recipe!KeywordKeepCuts(filmed.segments, filmed.duration, Those(LAMBDA style : style.key),
                                       want.follow)
            begin == Recipe!TrimToTarget({}, filmed.duration, want.target)
            story == Recipe!HighlightCuts(filmed.cues, {}, filmed.duration, want.target)
<1>1. \/ Recipe!ForTarget /\ filmed.cues = <<>> /\ Recipe!Planned("rules", {}, want.target, begin)
      \/ Recipe!ForTarget /\ Recipe!Planned("rules", {}, 0, story)
      \/ /\ want.plan = "prompt"
         /\ Recipe!Planned("rules", cuts, want.tells, Recipe!TrimToTarget(cuts, filmed.duration, want.tells))
      \/ want.plan = "style" /\ Recipe!Planned("rules", matched, 0, matched)
  BY Zenon DEF Recipe!RulesPlan
<1>2. {} \in SUBSET Stretch /\ IsFiniteSet({})
  BY FS_EmptySet
<1>3. Recipe!Proven
  BY DEF Recipe!RulesPlan, Recipe!Planned
<1>. HIDE DEF cuts, matched, begin, story
<1>4. Recipe!ForTarget => StoryOf(filmed.cues, filmed.duration, want.target, story)
  BY <1>2, <1>3, StoryClip, HighlightKeeps DEF story
<1>5. Recipe!ForTarget /\ filmed.cues = <<>> => StoryOf(filmed.cues, filmed.duration, want.target, begin)
  BY StoryClip, StartIsStory DEF begin
<1>6. want.plan = "prompt" \/ want.plan = "style" => ~Recipe!ForTarget
  BY DEF Recipe!ForTarget
<1>. QED BY <1>1, <1>4, <1>5, <1>6, StoryPlanned

LEMMA StoryNext == StoryInv /\ [Recipe!Next]_(Recipe!vars) => StoryInv'
<1>. SUFFICES ASSUME StoryInv, [Recipe!Next]_(Recipe!vars) PROVE StoryInv'
  OBVIOUS
<1>1. CASE \E suggested \in Suggestions : Recipe!ModelPlans(suggested)
  BY <1>1, StoryByModel
<1>2. CASE Recipe!RulesPlan
  BY <1>2, StoryByRules
<1>3. CASE Recipe!RefuseTiming \/ Recipe!NoPlanAsked \/ Recipe!BeginScan \/ Recipe!ScanStep
  <2>1. UNCHANGED <<filmed, want, cutting>>
    BY <1>3 DEF Recipe!RefuseTiming, Recipe!NoPlanAsked, Recipe!BeginScan, Recipe!ScanStep
  <2>. QED BY <2>1, StoryStays
<1>4. CASE Recipe!BuildScanned \/ Recipe!BuildUnproven \/ Recipe!BuildListed \/ Recipe!BuildPlain
  <2>1. UNCHANGED <<filmed, want, cutting>>
    BY <1>4 DEF Recipe!BuildScanned, Recipe!BuildUnproven, Recipe!BuildListed, Recipe!BuildPlain, Recipe!Build
  <2>. QED BY <2>1, StoryStays
<1>5. CASE UNCHANGED Recipe!vars
  BY <1>5, StoryStays DEF Recipe!vars
<1>. QED BY <1>1, <1>2, <1>3, <1>4, <1>5 DEF Recipe!Next

LEMMA StoryInit == Recipe!Init => StoryInv
<1>. SUFFICES ASSUME Recipe!Init PROVE StoryInv
  OBVIOUS
<1>1. (\E r \in RecipeRequests : filmed = r.clip /\ want = r.want) /\ cutting.by = "none"
  BY DEF Recipe!Init, Recipe!NoPlan
<1>2. Recipe!OneWholeStory
  BY <1>1 DEF Recipe!OneWholeStory
<1>. QED BY <1>1, <1>2 DEF StoryInv

\* Whatever a model suggests and wherever cues fall: a target leaves one window of the clip, of at most the
\* target and at least half of it, and cuts a cue in two only where no window that begins or ends with a
\* cue or the clip keeps half of the target in whole cues (buildCoherentHighlightCuts, trimToTarget).
THEOREM TargetsLeaveAStory == Recipe!Spec => []Recipe!OneWholeStory
<1>1. Recipe!Init => StoryInv
  BY StoryInit
<1>2. StoryInv /\ [Recipe!Next]_(Recipe!vars) => StoryInv'
  BY StoryNext
<1>3. StoryInv => Recipe!OneWholeStory
  BY DEF StoryInv
<1>. QED BY <1>1, <1>2, <1>3, PTL DEF Recipe!Spec

\* What an edit removes: nothing that counts, as the runs ask it (EditsKeepWhatCounts): of repeats, what is
\* said again; for a length, all but the first seconds of that length; for a target, all but one story.
THEOREM EditsKeep == Recipe!Spec => []EditsKeepWhatCounts
<1>1. Recipe!Spec => []Recipe!SaidAgain
  BY CutsAreSaidAgain
<1>2. Recipe!Spec => []Recipe!TrimKeepsTheStart
  BY TrimsKeepTheStart
<1>3. Recipe!Spec => []Recipe!OneWholeStory
  BY TargetsLeaveAStory
<1>4. Recipe!SaidAgain /\ Recipe!TrimKeepsTheStart /\ Recipe!OneWholeStory => EditsKeepWhatCounts
  BY DEF EditsKeepWhatCounts, Recipe!PlanLeavesWhatWasAsked
<1>. QED BY <1>1, <1>2, <1>3, <1>4, PTL
===============================================================================
