--------------------------- MODULE EvidenceProofs ---------------------------
(***************************************************************************)
(* What the readers of evidence tell the daemon is backed by what they     *)
(* read: Observer, Rollout and Files, for screens, rollouts and files of   *)
(* any length and any interleaving with their owners.  What a loop over    *)
(* lines or records returns is proved by induction over the set of the     *)
(* places up to which the claim holds (SetInduction), and what a filter    *)
(* returns by the ranks of the places that it keeps (Places).              *)
(***************************************************************************)
EXTENDS Observer, Rollout, Files, FiniteSetTheorems, SequenceTheorems, TLAPS

-----------------------------------------------------------------------------
(* Induction over the natural numbers, for sets.                            *)

\* A set of natural numbers has a least element.
LEMMA LeastNat ==
    ASSUME NEW S \in SUBSET Nat, S # {}
    PROVE  \E n \in S : \A m \in S : n <= m
<1>1. IsWellFoundedOn(OpToRel(<, Nat), Nat)
  BY NatLessThanWellFounded
<1>2. PICK n \in S : \A m \in S : ~(<<m, n>> \in OpToRel(<, Nat))
  BY <1>1, WFMin
<1>3. \A m \in S : ~(m < n)
  BY <1>2 DEF OpToRel
<1> QED BY <1>3

\* A set with 0 and with the successor of each of its elements has them all.
LEMMA SetInduction ==
    ASSUME NEW S \in SUBSET Nat, 0 \in S, \A n \in S : n + 1 \in S
    PROVE  S = Nat
<1>1. SUFFICES ASSUME Nat \ S # {} PROVE FALSE
  OBVIOUS
<1>2. PICK n \in Nat \ S : \A m \in Nat \ S : n <= m
  BY <1>1, LeastNat
<1>3. n # 0 
  BY <1>2
<1>4. n - 1 \in Nat /\ n - 1 \in S
  BY <1>2, <1>3
<1>5. (n - 1) + 1 \in S
  BY <1>4
<1> QED BY <1>2, <1>5

-----------------------------------------------------------------------------
(* Places: the k-th of a finite set of places, and what Pick returns.       *)

\* How many places of S are not above i.
Rank(S, i) == Cardinality({j \in S : j <= i})

\* A place's rank is a number of the set's places.
LEMMA RankRange ==
    ASSUME NEW S \in SUBSET Int, IsFiniteSet(S), NEW i \in S
    PROVE  Rank(S, i) \in 1..Cardinality(S)
<1> DEFINE B == {j \in S : j <= i}
<1>1. IsFiniteSet(B) /\ Cardinality(B) <= Cardinality(S)
  <2>1. B \in SUBSET S
    OBVIOUS
  <2> QED BY <2>1, FS_Subset
<1>2. Cardinality(B) \in Nat /\ Cardinality(S) \in Nat
  BY <1>1, FS_CardinalityType
<1>3. B # {}
  <2>1. i \in B
    OBVIOUS
  <2> QED BY <2>1
<1>4. Cardinality(B) # 0
  BY <1>1, <1>3, FS_EmptySet
<1> QED BY <1>1, <1>2, <1>4 DEF Rank

\* A higher place has a higher rank.
LEMMA RankGrows ==
    ASSUME NEW S \in SUBSET Int, IsFiniteSet(S), NEW i \in S, NEW j \in S, i < j
    PROVE  Rank(S, i) < Rank(S, j)
<1> DEFINE B(x) == {y \in S : y <= x}
<1>1. IsFiniteSet(B(i)) /\ IsFiniteSet(B(j))
  <2>1. B(i) \in SUBSET S /\ B(j) \in SUBSET S
    OBVIOUS
  <2> QED BY <2>1, FS_Subset
<1>2. B(i) \in SUBSET B(j) /\ B(i) # B(j)
  <2>1. j \in B(j) /\ j \notin B(i)
    OBVIOUS
  <2>2. \A y \in S : y <= i => y <= j
    OBVIOUS
  <2> QED BY <2>1, <2>2
<1>3. Cardinality(B(i)) <= Cardinality(B(j)) /\ Cardinality(B(i)) # Cardinality(B(j))
  <2> HIDE DEF B
  <2> QED BY <1>1, <1>2, FS_Subset
<1>4. Cardinality(B(i)) \in Nat /\ Cardinality(B(j)) \in Nat
  BY <1>1, FS_CardinalityType
<1>5. Rank(S, i) = Cardinality(B(i)) /\ Rank(S, j) = Cardinality(B(j))
  BY DEF Rank
<1> HIDE DEF B
<1> QED BY <1>3, <1>4, <1>5

\* Every number up to the size of S is the rank of a place.
LEMMA RankOnto ==
    ASSUME NEW S \in SUBSET Int, IsFiniteSet(S), NEW k \in 1..Cardinality(S)
    PROVE  \E i \in S : Rank(S, i) = k
<1> DEFINE f == [i \in S |-> Rank(S, i)]
           T == 1..Cardinality(S)
<1>1. Cardinality(S) \in Nat
  BY FS_CardinalityType
<1>2. IsFiniteSet(T) /\ Cardinality(T) = Cardinality(S)
  BY <1>1, FS_Interval
<1>3. f \in [S -> T]
  BY RankRange
<1>4. ASSUME NEW i \in S, NEW j \in S, f[i] = f[j] PROVE i = j
  <2>1. Rank(S, i) = Rank(S, j)
    BY <1>4
  <2>2. Rank(S, i) \in Int /\ Rank(S, j) \in Int
    BY RankRange, <1>1
  <2>3. ~(i < j) /\ ~(j < i)
    BY RankGrows, <2>1, <2>2
  <2> QED BY <2>3
<1>5. f \in Injection(S, T)
  <2> HIDE DEF f, T
  <2> QED BY <1>3, <1>4 DEF Injection, IsInjective
<1>6. f \in Surjection(S, T)
  <2> HIDE DEF f, T
  <2> QED BY <1>2, <1>5, FS_Injection
<1>7. \E i \in S : f[i] = k
  <2>1. k \in T
    OBVIOUS
  <2> HIDE DEF f, T
  <2> QED BY <1>6, <2>1 DEF Surjection
<1> QED BY <1>7

\* Kth enumerates the places, the lowest first.
LEMMA KthPlace ==
    ASSUME NEW S \in SUBSET Int, IsFiniteSet(S)
    PROVE  /\ Cardinality(S) \in Nat
           /\ \A k \in 1..Cardinality(S) : Kth(S, k) \in S /\ Rank(S, Kth(S, k)) = k
           /\ \A i \in S : Rank(S, i) \in 1..Cardinality(S) /\ Kth(S, Rank(S, i)) = i
           /\ \A k, l \in 1..Cardinality(S) : k < l <=> Kth(S, k) < Kth(S, l)
<1>1. Cardinality(S) \in Nat
  BY FS_CardinalityType
<1>2. ASSUME NEW k \in 1..Cardinality(S) PROVE Kth(S, k) \in S /\ Rank(S, Kth(S, k)) = k
  <2>1. \E i \in S : Rank(S, i) = k
    BY RankOnto
  <2>2. Kth(S, k) = CHOOSE i \in S : Rank(S, i) = k
    BY DEF Kth, Rank
  <2> QED BY <2>1, <2>2
<1>3. ASSUME NEW i \in S, NEW j \in S PROVE i < j <=> Rank(S, i) < Rank(S, j)
  <2>1. Rank(S, i) \in Int /\ Rank(S, j) \in Int
    BY RankRange, <1>1
  <2>2. i < j => Rank(S, i) < Rank(S, j)
    BY RankGrows
  <2>3. j < i => Rank(S, j) < Rank(S, i)
    BY RankGrows
  <2>4. i = j => Rank(S, i) = Rank(S, j)
    OBVIOUS
  <2> QED BY <2>1, <2>2, <2>3, <2>4
<1>4. ASSUME NEW i \in S PROVE Rank(S, i) \in 1..Cardinality(S) /\ Kth(S, Rank(S, i)) = i
  <2>1. Rank(S, i) \in 1..Cardinality(S)
    BY RankRange
  <2>2. Kth(S, Rank(S, i)) \in S /\ Rank(S, Kth(S, Rank(S, i))) = Rank(S, i)
    BY <1>2, <2>1
  <2> DEFINE j == Kth(S, Rank(S, i))
  <2>3. j \in S /\ Rank(S, j) = Rank(S, i) /\ i \in Int /\ j \in Int
    BY <2>2
  <2>4. Rank(S, i) \in Int
    BY <1>1, <2>1
  <2>5. (j < i <=> Rank(S, j) < Rank(S, i)) /\ (i < j <=> Rank(S, i) < Rank(S, j))
    BY <1>3, <2>3
  <2> HIDE DEF j
  <2>6. j = i
    BY <2>3, <2>4, <2>5
  <2> QED BY <2>1, <2>6 DEF j
<1>5. ASSUME NEW k \in 1..Cardinality(S), NEW l \in 1..Cardinality(S)
      PROVE  k < l <=> Kth(S, k) < Kth(S, l)
  <2>1. Kth(S, k) \in S /\ Kth(S, l) \in S /\ Rank(S, Kth(S, k)) = k /\ Rank(S, Kth(S, l)) = l
    BY <1>2
  <2>2. Kth(S, k) < Kth(S, l) <=> Rank(S, Kth(S, k)) < Rank(S, Kth(S, l))
    BY <1>3, <2>1
  <2> QED BY <2>1, <2>2
<1> QED BY <1>1, <1>2, <1>4, <1>5

\* What Pick returns: as many elements as there are places, each from its place.
LEMMA PickIs ==
    ASSUME NEW A, NEW s \in Seq(A), NEW S \in SUBSET DOMAIN s
    PROVE  /\ S \in SUBSET Int /\ IsFiniteSet(S) /\ Cardinality(S) \in Nat
           /\ Pick(s, S) \in Seq(A) /\ Len(Pick(s, S)) = Cardinality(S)
           /\ DOMAIN Pick(s, S) = 1..Cardinality(S)
           /\ \A k \in 1..Cardinality(S) : Kth(S, k) \in S /\ Pick(s, S)[k] = s[Kth(S, k)]
<1>1. DOMAIN s = 1..Len(s) /\ Len(s) \in Nat
  OBVIOUS
<1>2. IsFiniteSet(S)
  <2>1. IsFiniteSet(1..Len(s))
    BY <1>1, FS_Interval
  <2>2. S \in SUBSET (1..Len(s))
    BY <1>1
  <2> QED BY <2>1, <2>2, FS_Subset
<1>3. S \in SUBSET Int
  BY <1>1
<1>4. Cardinality(S) \in Nat /\ \A k \in 1..Cardinality(S) : Kth(S, k) \in S
  BY <1>2, <1>3, KthPlace
<1>5. \A k \in 1..Cardinality(S) : s[Kth(S, k)] \in A
  BY <1>1, <1>4
<1>6. Pick(s, S) \in [1..Cardinality(S) -> A]
  BY <1>5 DEF Pick
<1>7. Pick(s, S) \in Seq(A) /\ Len(Pick(s, S)) = Cardinality(S)
  BY <1>4, <1>6
<1> QED BY <1>2, <1>3, <1>4, <1>6, <1>7 DEF Pick

\* A growing function keeps the number of places.
LEMMA GrowingImage ==
    ASSUME NEW T \in SUBSET Int, IsFiniteSet(T), NEW f \in [T -> Int],
           \A a, b \in T : a < b => f[a] < f[b]
    PROVE  /\ IsFiniteSet({f[a] : a \in T})
           /\ Cardinality({f[a] : a \in T}) = Cardinality(T)
<1> DEFINE U == {f[a] : a \in T}
<1>1. f \in [T -> U] /\ \A u \in U : \E a \in T : f[a] = u
  OBVIOUS
<1>2. ASSUME NEW a \in T, NEW b \in T, f[a] = f[b] PROVE a = b
  <2>1. a \in Int /\ b \in Int /\ f[a] \in Int /\ f[b] \in Int
    OBVIOUS
  <2>2. ~(a < b) /\ ~(b < a)
    BY <1>2, <2>1
  <2> QED BY <2>1, <2>2
<1> HIDE DEF U
<1>3. f \in Bijection(T, U)
  BY <1>1, <1>2 DEF Bijection, Injection, Surjection, IsInjective
<1>4. ExistsBijection(T, U)
  BY <1>3 DEF ExistsBijection
<1>5. IsFiniteSet(U) /\ Cardinality(U) = Cardinality(T)
  BY <1>4, FS_Bijection
<1> QED BY <1>5 DEF U

\* The places T among the places S are places of their own.
LEMMA KthOfKth ==
    ASSUME NEW S \in SUBSET Int, IsFiniteSet(S), NEW T \in SUBSET (1..Cardinality(S)),
           NEW U, \A x : x \in U <=> \E k \in T : x = Kth(S, k)
    PROVE  /\ U \in SUBSET S /\ IsFiniteSet(U) /\ Cardinality(U) = Cardinality(T)
           /\ \A q \in 1..Cardinality(T) : Kth(T, q) \in T /\ Kth(U, q) = Kth(S, Kth(T, q))
<1>1. /\ Cardinality(S) \in Nat
      /\ \A k \in 1..Cardinality(S) : Kth(S, k) \in S /\ Kth(S, k) \in Int
      /\ \A k, l \in 1..Cardinality(S) : k < l <=> Kth(S, k) < Kth(S, l)
  BY KthPlace
<1>2. T \in SUBSET Int /\ IsFiniteSet(T)
  <2>1. IsFiniteSet(1..Cardinality(S))
    BY <1>1, FS_Interval
  <2>2. IsFiniteSet(T)
    BY <2>1, FS_Subset
  <2>3. T \in SUBSET Int
    BY <1>1
  <2> QED BY <2>2, <2>3
<1>3. ASSUME NEW V \in SUBSET T
      PROVE  /\ IsFiniteSet({Kth(S, k) : k \in V})
             /\ Cardinality({Kth(S, k) : k \in V}) = Cardinality(V)
  <2> DEFINE f == [k \in V |-> Kth(S, k)]
  <2>1. V \in SUBSET Int /\ IsFiniteSet(V)
    BY <1>2, FS_Subset
  <2>2. f \in [V -> Int] /\ \A a, b \in V : a < b => f[a] < f[b]
    BY <1>1
  <2>3. {f[k] : k \in V} = {Kth(S, k) : k \in V}
    OBVIOUS
  <2> HIDE DEF f
  <2>4. IsFiniteSet({f[k] : k \in V}) /\ Cardinality({f[k] : k \in V}) = Cardinality(V)
    BY <2>1, <2>2, GrowingImage
  <2> QED BY <2>3, <2>4
<1>4. U \in SUBSET S /\ IsFiniteSet(U) /\ Cardinality(U) = Cardinality(T)
  <2>1. U = {Kth(S, k) : k \in T}
    OBVIOUS
  <2> QED BY <1>1, <1>3, <2>1
<1>5. ASSUME NEW q \in 1..Cardinality(T) PROVE Kth(T, q) \in T /\ Kth(U, q) = Kth(S, Kth(T, q))
  <2> DEFINE x == Kth(T, q)
             i == Kth(S, x)
             V == {k \in T : k <= x}
  <2>1. x \in T /\ Rank(T, x) = q
    BY <1>2, KthPlace
  <2>2. i \in U /\ U \in SUBSET Int
    BY <2>1, <1>4
  <2>3. {j \in U : j <= i} = {Kth(S, k) : k \in V}
    <3>1. ASSUME NEW k \in T PROVE Kth(S, k) <= i <=> k <= x
      <4>1. k \in 1..Cardinality(S) /\ x \in 1..Cardinality(S) /\ k \in Int /\ x \in Int
        <5> HIDE DEF x
        <5> QED BY <1>1, <1>2, <2>1
      <4>2. Kth(S, k) \in Int /\ i \in Int /\ (x < k <=> i < Kth(S, k))
        BY <1>1, <4>1
      <4> QED BY <4>1, <4>2
    <3> HIDE DEF x, i
    <3> QED BY <3>1
  <2>4. Rank(U, i) = Cardinality(V)
    BY <1>3, <2>3 DEF Rank
  <2>5. Cardinality(V) = q
    BY <2>1 DEF Rank
  <2>6. Kth(U, Rank(U, i)) = i
    BY <1>4, <2>2, KthPlace
  <2> QED BY <2>1, <2>4, <2>5, <2>6
<1> QED BY <1>4, <1>5

\* A filter of a filtered sequence is one filter.
LEMMA PickOfPick ==
    ASSUME NEW A, NEW s \in Seq(A), NEW S \in SUBSET DOMAIN s, NEW T \in SUBSET DOMAIN Pick(s, S),
           NEW U, \A x : x \in U <=> \E k \in T : x = Kth(S, k)
    PROVE  U \in SUBSET S /\ Pick(Pick(s, S), T) = Pick(s, U)
<1>1. /\ S \in SUBSET Int /\ IsFiniteSet(S) /\ DOMAIN Pick(s, S) = 1..Cardinality(S)
      /\ \A k \in 1..Cardinality(S) : Pick(s, S)[k] = s[Kth(S, k)]
  BY PickIs
<1>2. /\ U \in SUBSET S /\ Cardinality(U) = Cardinality(T)
      /\ \A q \in 1..Cardinality(T) : Kth(T, q) \in T /\ Kth(U, q) = Kth(S, Kth(T, q))
  <2>1. T \in SUBSET (1..Cardinality(S))
    BY <1>1
  <2>2. S \in SUBSET Int /\ IsFiniteSet(S)
    BY <1>1
  <2>3. \A x : x \in U <=> \E k \in T : x = Kth(S, k)
    OBVIOUS
  <2> QED BY ONLY <2>1, <2>2, <2>3, KthOfKth
<1>3. \A q \in 1..Cardinality(T) : Pick(s, S)[Kth(T, q)] = s[Kth(U, q)]
  BY <1>1, <1>2
<1>4. Pick(Pick(s, S), T) = [q \in 1..Cardinality(T) |-> Pick(s, S)[Kth(T, q)]]
      /\ Pick(s, U) = [q \in 1..Cardinality(U) |-> s[Kth(U, q)]]
  BY DEF Pick
<1> QED BY <1>2, <1>3, <1>4

\* The ranks in the upper part of the places, and in all of them.
LEMMA RankAbove ==
    ASSUME NEW S \in SUBSET Int, IsFiniteSet(S), NEW U \in SUBSET S,
           \A i \in U, j \in S \ U : j < i
    PROVE  \A i \in U : Rank(S, i) = Cardinality(S \ U) + Rank(U, i)
<1>1. SUFFICES ASSUME NEW i \in U PROVE Rank(S, i) = Cardinality(S \ U) + Rank(U, i)
  OBVIOUS
<1> DEFINE V == {j \in U : j <= i}
<1>2. {j \in S : j <= i} = (S \ U) \cup V /\ (S \ U) \cap V = {}
  <2>1. \A j \in S \ U : j <= i
    OBVIOUS
  <2> QED BY <2>1
<1>3. IsFiniteSet(S \ U) /\ IsFiniteSet(V)
  <2>1. V \in SUBSET S /\ S \ U \in SUBSET S
    OBVIOUS
  <2> QED BY <2>1, FS_Subset
<1>4. Cardinality((S \ U) \cup V) = Cardinality(S \ U) + Cardinality(V) - Cardinality({})
  <2> HIDE DEF V
  <2> QED BY <1>2, <1>3, FS_Union
<1>5. Cardinality({}) = 0 /\ Cardinality(S \ U) \in Nat /\ Cardinality(V) \in Nat
  BY <1>3, FS_EmptySet, FS_CardinalityType
<1>6. Rank(S, i) = Cardinality((S \ U) \cup V) /\ Rank(U, i) = Cardinality(V)
  BY <1>2 DEF Rank
<1> HIDE DEF V
<1> QED BY <1>4, <1>5, <1>6

\* The highest places are above all the others.
LEMMA HighestAbove ==
    ASSUME NEW S \in SUBSET Int, IsFiniteSet(S), NEW n \in Int
    PROVE  Highest(S, n) \in SUBSET S /\ \A i \in Highest(S, n), j \in S : i < j => j \in Highest(S, n)
<1>1. Highest(S, n) \in SUBSET S
  BY DEF Highest
<1>2. ASSUME NEW i \in Highest(S, n), NEW j \in S, i < j PROVE j \in Highest(S, n)
  <2> DEFINE V(x) == {y \in S : y > x}
  <2>1. V(i) \in SUBSET S
    OBVIOUS
  <2>2. V(j) \in SUBSET V(i)
    <3>1. i \in Int /\ j \in Int
      BY <1>1
    <3>2. \A y \in S : y > j => y > i
      BY <1>2, <3>1
    <3> QED BY <3>2
  <2>3. IsFiniteSet(V(i))
    BY <2>1, FS_Subset
  <2>4. Cardinality(V(j)) <= Cardinality(V(i)) /\ IsFiniteSet(V(j))
    <3> HIDE DEF V
    <3> QED BY <2>2, <2>3, FS_Subset
  <2>5. Cardinality(V(j)) \in Nat /\ Cardinality(V(i)) \in Nat
    BY <2>3, <2>4, FS_CardinalityType
  <2>6. Cardinality(V(i)) < n
    BY DEF Highest
  <2>7. Cardinality(V(j)) < n
    <3> HIDE DEF V
    <3> QED BY <2>4, <2>5, <2>6
  <2> QED BY <2>7 DEF Highest
<1> QED BY <1>1, <1>2

-----------------------------------------------------------------------------
(* Observer.                                                                *)

ObsPcs == {"start", "hook", "codex", "candidate", "probe", "rollout", "target", "events",
           "first", "second", "done"}

\* The events that the adapters make are events.
LEMMA EventIs ==
    ASSUME NEW a \in {"none", "hook", "codex", "herdr", "process", "screen"},
           NEW b \in {"none", "failure", "usage", "session", "weekly", "overload", "model", "capacity", "limit"}
                     \cup HerdrStates,
           NEW c \in {"none", "human", "wait", "observe", "keys", "resume"}
    PROVE  /\ Event(a, b, c) \in ObserverEvents
           /\ Event(a, b, c).source = a /\ Event(a, b, c).category = b /\ Event(a, b, c).hint = c
<1>1. NoEvent \in ObserverEvents
  BY DEF NoEvent, ObserverEvents
<1> QED BY <1>1, ZenonT(40) DEF Event, ObserverEvents

\* No event asks for nothing.
LEMMA NoEventIs == NoEvent \in ObserverEvents /\ NoEvent.hint = "none" /\ NoEvent.source = "none"
                   /\ NoEvent.category = "none"
BY DEF NoEvent, ObserverEvents

\* Claude's hook never asks for keys or a resume by itself.
LEMMA HookEventIs == correlated_hook_event \in ObserverEvents /\ correlated_hook_event.hint \notin {"resume", "keys"}
<1> DEFINE class == classify_stop_failure(scene.marker)
           e == IF class = "human" THEN Event("hook", "failure", "human") ELSE Event("hook", class, "wait")
<1>1. SUFFICES ASSUME class \notin {"retry", "unknown"}
               PROVE  correlated_hook_event \in ObserverEvents
                      /\ correlated_hook_event.hint \notin {"resume", "keys"}
  BY NoEventIs DEF correlated_hook_event
<1>2. e \in ObserverEvents /\ e.hint \in {"human", "wait"}
  <2>1. class \in {"retry", "unknown", "human", "weekly", "session", "usage", "overload"}
    BY DEF classify_stop_failure
  <2> HIDE DEF class
  <2> QED BY <1>1, <2>1, EventIs
<1>3. [e EXCEPT !.reset = "reset time" \in scene.marker] \in ObserverEvents
      /\ [e EXCEPT !.reset = "reset time" \in scene.marker].hint \in {"human", "wait"}
  <2> HIDE DEF e
  <2>1. ("reset time" \in scene.marker) \in BOOLEAN
    OBVIOUS
  <2> QED BY <1>2, <2>1 DEF ObserverEvents
<1>4. correlated_hook_event \in {NoEvent, [e EXCEPT !.reset = "reset time" \in scene.marker]}
  BY DEF correlated_hook_event
<1> HIDE DEF e
<1> QED BY <1>3, <1>4, NoEventIs

\* A goal's own event speaks of capacity only when the goal is to be resumed.
LEMMA GoalEventIs ==
    ASSUME NEW g
    PROVE  /\ structured_goal_event(g) \in ObserverEvents
           /\ structured_goal_event(g).hint \notin {"resume", "keys"}
           /\ structured_goal_event(g).category = "capacity" => classify_goal_snapshot(g) = "resume"
<1>1. \/ /\ classify_goal_snapshot(g) = "resume"
         /\ structured_goal_event(g) = Event("codex", "capacity", "wait")
      \/ structured_goal_event(g) \in {Event("codex", "blocked", "human"), Event("codex", "working", "observe"),
                                       Event("codex", "idle", "observe"), NoEvent}
  BY DEF structured_goal_event
<1>2. CASE structured_goal_event(g) = Event("codex", "capacity", "wait") /\ classify_goal_snapshot(g) = "resume"
  BY <1>2, EventIs
<1>3. CASE structured_goal_event(g) = Event("codex", "blocked", "human")
  <2>1. "blocked" \in HerdrStates
    BY DEF HerdrStates
  <2> QED BY <1>3, <2>1, EventIs
<1>4. CASE structured_goal_event(g) = Event("codex", "working", "observe")
  <2>1. "working" \in HerdrStates
    BY DEF HerdrStates
  <2> QED BY <1>4, <2>1, EventIs
<1>5. CASE structured_goal_event(g) = Event("codex", "idle", "observe")
  <2>1. "idle" \in HerdrStates
    BY DEF HerdrStates
  <2> QED BY <1>5, <2>1, EventIs
<1>6. CASE structured_goal_event(g) = NoEvent
  BY <1>6, NoEventIs
<1> QED BY <1>1, <1>2, <1>3, <1>4, <1>5, <1>6

\* The rollout never asks for keys or a resume, and names capacity only with an active goal.
LEMMA RolloutEventIs ==
    /\ correlated_rollout_event \in ObserverEvents
    /\ correlated_rollout_event.hint \notin {"resume", "keys"}
    /\ correlated_rollout_event.category = "capacity" => classify_goal_snapshot(scene.goal) = "resume"
<1>1. correlated_rollout_event \in {NoEvent, structured_goal_event(scene.goal)}
  BY DEF correlated_rollout_event
<1>2. CASE correlated_rollout_event = NoEvent
  BY <1>2, NoEventIs
<1>3. CASE correlated_rollout_event = structured_goal_event(scene.goal)
  BY <1>3, GoalEventIs
<1> QED BY <1>1, <1>2, <1>3

\* Nor does a state that herdr reports.
LEMMA HerdrEventIs ==
    ASSUME scene.state \in HerdrStates
    PROVE  classify_herdr_state \in ObserverEvents /\ classify_herdr_state.hint \notin {"resume", "keys"}
<1>2. classify_herdr_state \in {Event("herdr", scene.state, "observe"), NoEvent}
  BY DEF classify_herdr_state
<1>3. CASE classify_herdr_state = NoEvent
  BY <1>3, NoEventIs
<1>4. CASE classify_herdr_state = Event("herdr", scene.state, "observe")
  BY <1>4, EventIs, ZenonT(40)
<1> QED BY <1>2, <1>3, <1>4

\* Nor does an unlabelled tail of the screen.
LEMMA TailEventIs ==
    ASSUME NEW rows
    PROVE  GenericTail(rows) \in ObserverEvents /\ GenericTail(rows).hint \notin {"resume", "keys"}
BY EventIs, NoEventIs, ZenonT(40) DEF GenericTail, HerdrStates

\* A step that ends the observation with an event that asks for no keys, and for
\* a resume only when the goal of the moment is blocked for capacity.
LEMMA FinishKeeps ==
    ASSUME ObserverInv, NEW e \in ObserverEvents, e.hint # "keys",
           e.source = "codex" /\ e.hint = "resume" => classify_goal_snapshot(scene.goal) = "resume",
           Finish(e), UNCHANGED <<watch, scene>>
    PROVE  ObserverInv'
<1>1. ObserverTypeOK'
  BY DEF ObserverInv, ObserverTypeOK, Finish
<1>2. obs'.event = e /\ obs'.truths = obs.truths
  BY DEF ObserverInv, ObserverTypeOK, Finish
<1> QED BY <1>1, <1>2 DEF ObserverInv

\* A step that goes on, or ends with an error.
LEMMA GoKeeps ==
    ASSUME ObserverInv, obs.pc # "done", NEW pc \in ObsPcs, Go(pc) \/ Err, UNCHANGED <<watch, scene>>
    PROVE  ObserverInv'
<1>1. ObserverTypeOK'
  BY DEF ObserverInv, ObserverTypeOK, Go, Err, ObsPcs
<1>2. obs'.event = obs.event /\ obs'.truths = obs.truths /\ obs'.blind = obs.blind
  BY DEF ObserverInv, ObserverTypeOK, Go, Err
<1> QED BY <1>1, <1>2 DEF ObserverInv

\* A step that says an event, unless it is none, and that asks for no keys and no resume.
LEMMA SayKeeps ==
    ASSUME ObserverInv, obs.pc # "done", NEW pc \in ObsPcs, NEW e \in ObserverEvents, e.hint \notin {"resume", "keys"},
           Say(e, pc), UNCHANGED <<watch, scene>>
    PROVE  ObserverInv'
<1>1. CASE Go(pc)
  BY <1>1, GoKeeps
<1>2. CASE Finish(e)
  BY <1>2, FinishKeeps
<1> QED BY <1>1, <1>2 DEF Say

\* The world moves while the observation is under way.
LEMMA ChangeKeeps ==
    ASSUME ObserverInv, NEW s \in Scenes, Change(s)
    PROVE  ObserverInv'
<1>1. scene' = [s EXCEPT !.changes = scene.changes + 1] /\ scene.changes \in Nat /\ watch' = watch
      /\ obs.pc # "done"
  BY DEF ObserverInv, ObserverTypeOK, Scenes, Change
<1>2. scene' \in Scenes /\ scene'.goal = s.goal /\ s.goal \in Goals
  BY <1>1 DEF Scenes
<1>3. obs' = [obs EXCEPT !.truths = obs.truths \cup {s.goal}]
  BY DEF Change
<1>4. ObserverTypeOK'
  BY <1>1, <1>2, <1>3 DEF ObserverInv, ObserverTypeOK
<1>5. /\ obs'.event = obs.event /\ obs'.blind = obs.blind
      /\ obs'.truths = obs.truths \cup {s.goal}
  BY <1>3 DEF ObserverInv, ObserverTypeOK
<1> QED BY <1>1, <1>2, <1>4, <1>5 DEF ObserverInv

\* What becomes of the agent, its files, its pane and its screen.
LEMMA WorldKeeps ==
    ASSUME ObserverInv,
           \/ \E text \in {{"limit"}, {"account"}, NoMarker} : Fail(text)
           \/ Unbind \/ Swap \/ Die
           \/ \E g \in Goals, r \in {"grown", "torn"} : MoveGoal(g, r)
           \/ \E l, a \in BOOLEAN : Turn(l, a)
           \/ \E i \in 1..MaxRows, row \in Options \cup Plain : Redraw(i, row)
           \/ \E st \in HerdrStates, ev \in SUBSET {"terminal", "progress"} : Report(st, ev)
    PROVE  ObserverInv'
<1>0. scene \in Scenes
  BY DEF ObserverInv, ObserverTypeOK
<1>1. ASSUME NEW text \in {{"limit"}, {"account"}, NoMarker}, Fail(text) PROVE ObserverInv'
  <2>1. text \in SUBSET (Features \cup NoMarker)
    BY DEF Features, NoMarker
  <2>2. [scene EXCEPT !.marker = text] \in Scenes
    BY <1>0, <2>1 DEF Scenes
  <2> QED BY <1>1, <2>2, ChangeKeeps DEF Fail
<1>2. CASE Unbind
  <2>1. [scene EXCEPT !.bound = FALSE] \in Scenes
    BY <1>0 DEF Scenes
  <2> QED BY <1>2, <2>1, ChangeKeeps DEF Unbind
<1>3. CASE Swap
  <2>1. [scene EXCEPT !.pane = ~@] \in Scenes
    BY <1>0 DEF Scenes
  <2> QED BY <1>3, <2>1, ChangeKeeps DEF Swap
<1>4. CASE Die
  <2>1. [scene EXCEPT !.alive = FALSE] \in Scenes
    BY <1>0 DEF Scenes
  <2> QED BY <1>4, <2>1, ChangeKeeps DEF Die
<1>5. ASSUME NEW g \in Goals, NEW r \in {"grown", "torn"}, MoveGoal(g, r) PROVE ObserverInv'
  <2>1. [scene EXCEPT !.goal = g, !.rollout = IF @ = "gone" THEN @ ELSE r] \in Scenes
    BY <1>0 DEF Scenes
  <2> QED BY <1>5, <2>1, ChangeKeeps DEF MoveGoal
<1>6. ASSUME NEW l \in BOOLEAN, NEW a \in BOOLEAN, Turn(l, a) PROVE ObserverInv'
  <2>1. [scene EXCEPT !.local = l, !.app = a] \in Scenes
    BY <1>0 DEF Scenes
  <2> QED BY <1>6, <2>1, ChangeKeeps DEF Turn
<1>7. ASSUME NEW i \in 1..MaxRows, NEW row \in Options \cup Plain, Redraw(i, row) PROVE ObserverInv'
  <2>1. scene.screen \in Seq(Options \cup Plain) /\ i \in DOMAIN scene.screen
    BY <1>0, <1>7 DEF Scenes, Redraw
  <2>2. [scene.screen EXCEPT ![i] = row] \in Seq(Options \cup Plain)
    BY <2>1
  <2>3. [scene EXCEPT !.screen[i] = row] \in Scenes
    BY <1>0, <2>2 DEF Scenes
  <2> QED BY <1>7, <2>3, ChangeKeeps DEF Redraw
<1>8. ASSUME NEW st \in HerdrStates, NEW ev \in SUBSET {"terminal", "progress"}, Report(st, ev)
      PROVE  ObserverInv'
  <2>1. [scene EXCEPT !.state = st, !.events = ev] \in Scenes
    BY <1>0 DEF Scenes
  <2> QED BY <1>8, <2>1, ChangeKeeps DEF Report
<1> QED BY <1>1, <1>2, <1>3, <1>4, <1>5, <1>6, <1>7, <1>8

\* The two events that ask for a resume.
LEMMA ResumeEventIs ==
    /\ Event("codex", "model", "resume") \in ObserverEvents
    /\ Event("codex", "model", "resume").hint = "resume"
    /\ Event("hook", "model", "resume") \in ObserverEvents
    /\ Event("hook", "model", "resume").hint = "resume" /\ Event("hook", "model", "resume").source = "hook"
BY EventIs

\* The hook's and the goal's questions.
LEMMA AskedKeeps ==
    ASSUME ObserverInv, observe \/ observe_hook
    PROVE  ObserverInv'
<1>0. UNCHANGED <<watch, scene>> /\ obs.pc # "done"
  BY DEF observe, observe_hook, Asks
<1>1. CASE observe
  <2>1. Finish(Event("hook", "model", "resume")) \/ Go("hook")
    BY <1>1 DEF observe
  <2>2. CASE Finish(Event("hook", "model", "resume"))
    BY <1>0, <2>2, ResumeEventIs, FinishKeeps
  <2>3. CASE Go("hook")
    BY <1>0, <2>3, GoKeeps DEF ObsPcs
  <2> QED BY <2>1, <2>2, <2>3
<1>2. CASE observe_hook
  <2>1. Say(correlated_hook_event, "codex")
    BY <1>2 DEF observe_hook
  <2> QED BY <1>0, <2>1, HookEventIs, SayKeeps DEF ObsPcs
<1> QED BY <1>1, <1>2

\* The wait for capacity is over: the goal is resumed for what it is at this
\* read, or because nothing can be read.
LEMMA CodexKeeps ==
    ASSUME ObserverInv, observe_codex_event
    PROVE  ObserverInv'
<1>0. UNCHANGED <<watch, scene>> /\ obs.pc = "codex" /\ ToPane \in ObsPcs
  BY DEF observe_codex_event, Asks, ToPane, ObsPcs
<1>1. \/ Go("probe") \/ Go("candidate")
      \/ obs' = [obs EXCEPT !.pc = "done", !.blind = TRUE, !.event = Event("codex", "model", "resume")]
      \/ /\ classify_goal_snapshot(scene.goal) = "resume"
         /\ Finish(Event("codex", "model", "resume"))
      \/ Say(structured_goal_event(scene.goal), ToPane)
  <2>1. probe_structured_source \in {"none", "rollout", "local", "app"}
    BY DEF probe_structured_source
  <2>2. codex_candidate \in BOOLEAN \/ codex_candidate \notin BOOLEAN
    OBVIOUS
  <2> QED BY <2>1 DEF observe_codex_event
<1>2. CASE Go("probe") \/ Go("candidate")
  BY <1>0, <1>2, GoKeeps DEF ObsPcs
<1>3. CASE obs' = [obs EXCEPT !.pc = "done", !.blind = TRUE, !.event = Event("codex", "model", "resume")]
  <2>1. ObserverTypeOK'
    BY <1>0, <1>3, ResumeEventIs DEF ObserverInv, ObserverTypeOK
  <2>2. obs'.event = Event("codex", "model", "resume") /\ obs'.truths = obs.truths /\ obs'.blind = TRUE
    BY <1>3 DEF ObserverInv, ObserverTypeOK
  <2> QED BY <1>0, <2>1, <2>2, ResumeEventIs DEF ObserverInv
<1>4. CASE /\ classify_goal_snapshot(scene.goal) = "resume"
           /\ Finish(Event("codex", "model", "resume"))
  BY <1>0, <1>4, ResumeEventIs, FinishKeeps
<1>5. CASE Say(structured_goal_event(scene.goal), ToPane)
  BY <1>0, <1>5, GoalEventIs, SayKeeps
<1> QED BY <1>1, <1>2, <1>3, <1>4, <1>5

\* The rollout's questions.
LEMMA FilesKeep ==
    ASSUME ObserverInv, CandidateRollout \/ ProbeAgain \/ ReadRollout
    PROVE  ObserverInv'
<1>0. UNCHANGED <<watch, scene>> /\ obs.pc # "done" /\ ToPane \in ObsPcs
  BY DEF CandidateRollout, ProbeAgain, ReadRollout, Asks, ToPane, ObsPcs
<1>1. CASE CandidateRollout
  <2>1. CASE correlated_rollout_event.category = "capacity"
    BY <1>0, <1>1, <2>1, RolloutEventIs, ResumeEventIs, FinishKeeps DEF CandidateRollout
  <2>2. CASE correlated_rollout_event.category # "capacity"
    <3>1. Say(correlated_rollout_event, "probe")
      BY <1>1, <2>2 DEF CandidateRollout
    <3> QED BY <1>0, <3>1, RolloutEventIs, SayKeeps DEF ObsPcs
  <2> QED BY <2>1, <2>2
<1>2. CASE ProbeAgain
  <2>1. Go(ToPane) \/ Go("rollout") \/ Say(structured_goal_event(scene.goal), ToPane)
    BY <1>2 DEF ProbeAgain
  <2>2. CASE Go(ToPane) \/ Go("rollout")
    BY <1>0, <2>2, GoKeeps DEF ObsPcs
  <2>3. CASE Say(structured_goal_event(scene.goal), ToPane)
    BY <1>0, <2>3, GoalEventIs, SayKeeps
  <2> QED BY <2>1, <2>2, <2>3
<1>3. CASE ReadRollout
  BY <1>0, <1>3, RolloutEventIs, SayKeeps DEF ReadRollout
<1> QED BY <1>1, <1>2, <1>3

\* The multiplexer's and the process's questions.
LEMMA PaneKeeps ==
    ASSUME ObserverInv, validate_observed_herdr_identity \/ observe_herdr \/ ObserveProcess \/ ResolveTmux
    PROVE  ObserverInv'
<1>0. UNCHANGED <<watch, scene>> /\ obs.pc # "done"
  BY DEF validate_observed_herdr_identity, observe_herdr, ObserveProcess, ResolveTmux, Asks
<1>1. CASE Err \/ Go("events") \/ Go("first")
  BY <1>0, <1>1, GoKeeps DEF ObsPcs
<1>2. CASE Finish(NoEvent)
  BY <1>0, <1>2, NoEventIs, FinishKeeps
<1>3. CASE Finish(classify_herdr_state)
  <2>1. scene.state \in HerdrStates
    BY DEF ObserverInv, ObserverTypeOK, Scenes
  <2> QED BY <1>0, <1>3, <2>1, HerdrEventIs, FinishKeeps
<1>4. CASE ObserveProcess
  <2> DEFINE c == IF scene.alive THEN "working" ELSE "terminated"
  <2>1. c \in {"none", "failure", "usage", "session", "weekly", "overload", "model", "capacity", "limit"}
              \cup HerdrStates
    BY DEF HerdrStates
  <2>2. Finish(Event("process", c, "observe"))
    BY <1>4 DEF ObserveProcess
  <2> HIDE DEF c
  <2>3. /\ Event("process", c, "observe") \in ObserverEvents
        /\ Event("process", c, "observe").hint = "observe"
    BY <2>1, EventIs
  <2> QED BY <1>0, <2>2, <2>3, FinishKeeps
<1>5. validate_observed_herdr_identity => Err \/ Finish(NoEvent) \/ Go("events")
  BY DEF validate_observed_herdr_identity
<1>6. observe_herdr => Err \/ Finish(NoEvent) \/ Finish(classify_herdr_state)
  BY DEF observe_herdr
<1>7. ResolveTmux => Err \/ Go("first")
  BY DEF ResolveTmux
<1> QED BY <1>1, <1>2, <1>3, <1>4, <1>5, <1>6, <1>7

\* The distance between two rows of a menu is a number.
LEMMA MovesAreInt ==
    ASSUME NEW first, NEW second
    PROVE  labelled_wait_menu(first, second) \subseteq Int
<1> DEFINE menu == menu_rows(first)
<1>1. DOMAIN menu \subseteq Int
  BY DEF menu_rows, Pick
<1> HIDE DEF menu
<1>2. \A t, c \in DOMAIN menu : t - c \in Int
  BY <1>1
<1> QED BY <1>2 DEF labelled_wait_menu, menu

\* The two captures of the screen.
LEMMA ScreenKeeps ==
    ASSUME ObserverInv, FirstCapture \/ SecondCapture
    PROVE  ObserverInv'
<1>0. UNCHANGED <<watch, scene>> /\ obs.pc # "done" /\ scene.screen \in Seq(Options \cup Plain)
  BY DEF FirstCapture, SecondCapture, Asks, ObserverInv, ObserverTypeOK, Scenes
<1>1. CASE Err
  BY <1>0, <1>1, GoKeeps DEF ObsPcs
<1>2. CASE FirstCapture
  <2>1. \/ Err \/ Finish(GenericTail(scene.screen))
        \/ obs' = [obs EXCEPT !.pc = "second", !.first = scene.screen]
    BY <1>2 DEF FirstCapture
  <2>2. CASE Finish(GenericTail(scene.screen))
    BY <1>0, <2>2, TailEventIs, FinishKeeps
  <2>3. CASE obs' = [obs EXCEPT !.pc = "second", !.first = scene.screen]
    <3>1. ObserverTypeOK'
      BY <1>0, <2>3 DEF ObserverInv, ObserverTypeOK
    <3>2. obs'.event = obs.event /\ obs'.truths = obs.truths /\ obs'.blind = obs.blind
      BY <2>3 DEF ObserverInv, ObserverTypeOK
    <3> QED BY <1>0, <3>1, <3>2 DEF ObserverInv
  <2> QED BY <1>1, <2>1, <2>2, <2>3
<1>3. CASE SecondCapture
  <2>1. SUFFICES ASSUME NEW e \in trusted_menu_event(scene.screen) \cup {GenericTail(obs.first)},
                        obs' = [obs EXCEPT !.pc = "done", !.event = e, !.second = scene.screen]
                 PROVE  ObserverInv'
    BY <1>1, <1>3 DEF SecondCapture
  <2>2. ASSUME e \in ObserverEvents,
               e.source = "codex" => e.hint # "resume",
               e.hint = "keys" => /\ e.source = "screen"
                                  /\ e.moves \in labelled_wait_menu(actionable_bottom(obs.first),
                                                                    actionable_bottom(scene.screen))
        PROVE  ObserverInv'
    <3>1. ObserverTypeOK'
      BY <1>0, <2>1, <2>2 DEF ObserverInv, ObserverTypeOK
    <3>2. /\ obs'.event = e /\ obs'.truths = obs.truths /\ obs'.pc = "done" /\ obs'.first = obs.first
          /\ obs'.second = scene.screen /\ scene' = scene
      BY <1>0, <2>1 DEF ObserverInv, ObserverTypeOK
    <3>3. obs'.event.hint = "keys"
            => obs'.event.moves \in labelled_wait_menu(actionable_bottom(obs.first),
                                                      actionable_bottom(scene.screen))'
      <4>1. actionable_bottom(obs.first)' = actionable_bottom(obs.first)
            /\ actionable_bottom(scene.screen)' = actionable_bottom(scene.screen)
        BY <1>0, <3>2 DEF actionable_bottom, trusted_tmux_screen
      <4>2. labelled_wait_menu(actionable_bottom(obs.first), actionable_bottom(scene.screen))'
            = labelled_wait_menu(actionable_bottom(obs.first), actionable_bottom(scene.screen))
        BY <4>1 DEF labelled_wait_menu
      <4> QED BY <2>2, <3>2, <4>2
    <3> QED BY <2>2, <3>1, <3>2, <3>3 DEF ObserverInv
  <2>3. CASE e = GenericTail(obs.first)
    BY <2>2, <2>3, TailEventIs
  <2>4. CASE e \in trusted_menu_event(scene.screen)
    <3>1. PICK m \in labelled_wait_menu(actionable_bottom(obs.first), actionable_bottom(scene.screen)) :
            e = [Event("screen", "limit", "keys") EXCEPT !.moves = m]
      BY <2>4 DEF trusted_menu_event
    <3>2. m \in Int
      BY MovesAreInt
    <3>3. /\ Event("screen", "limit", "keys") \in ObserverEvents
          /\ Event("screen", "limit", "keys").source = "screen"
      BY EventIs
    <3>4. e \in ObserverEvents /\ e.source = "screen" /\ e.moves = m
      BY <3>1, <3>2, <3>3 DEF ObserverEvents
    <3> QED BY <2>2, <3>4
  <2> QED BY <2>1, <2>3, <2>4
<1> QED BY <1>2, <1>3

\* An observation starts with nothing said.
LEMMA ObserverStarts ==
    ASSUME ObserverInit
    PROVE  ObserverInv
<1>1. watch \in Watches /\ obs = Starts(scene.goal)
  BY DEF ObserverInit
<1>2. Quiet \in Scenes
  <2>1. QuietGoal \in Goals
    BY DEF QuietGoal, Goals
  <2>2. <<>> \in Seq(Options \cup Plain)
    OBVIOUS
  <2>3. NoMarker \in SUBSET (Features \cup NoMarker)
    OBVIOUS
  <2> QED BY <2>1, <2>2, <2>3 DEF Quiet, Scenes, HerdrStates
<1>3. scene \in Scenes
  <2>1. ASSUME NEW g \in Goals, NEW l \in BOOLEAN, NEW a \in BOOLEAN, NEW r \in {"bound", "gone"}
        PROVE  [Quiet EXCEPT !.goal = g, !.local = l, !.app = a, !.rollout = r] \in Scenes
    BY <1>2 DEF Scenes
  <2>2. ASSUME NEW m \in {NoMarker} \cup {f \in SUBSET Features : Cardinality(f) <= 2}
        PROVE  [Quiet EXCEPT !.marker = m] \in Scenes
    <3>1. m \in SUBSET (Features \cup NoMarker)
      OBVIOUS
    <3> QED BY <1>2, <3>1 DEF Scenes
  <2>3. ASSUME NEW s \in Screens
        PROVE  [Quiet EXCEPT !.screen = s] \in Scenes
    <3>1. PICK n \in 0..MaxRows : s \in [1..n -> Options \cup Plain]
      BY DEF Screens
    <3>2. s \in Seq(Options \cup Plain)
      BY <3>1, RowsAssumption
    <3> QED BY <1>2, <3>2 DEF Scenes
  <2> QED BY <2>1, <2>2, <2>3 DEF ObserverInit
<1>4. scene.goal \in Goals
  BY <1>3 DEF Scenes
<1>5. ObserverTypeOK
  <2>1. <<>> \in Seq(Options \cup Plain)
    OBVIOUS
  <2> QED BY <1>1, <1>3, <1>4, <2>1, NoEventIs DEF ObserverTypeOK, Starts
<1>6. obs.event = NoEvent /\ obs.truths = {scene.goal}
  BY <1>1 DEF Starts
<1> QED BY <1>5, <1>6, NoEventIs DEF ObserverInv

\* ObserverInv is an invariant of one observation, for any screen, any number of
\* live rows and any number of changes of the world between its reads.
THEOREM ObserverSafe == ObserverSpec => []ObserverInv
<1>1. ObserverInit => ObserverInv
  BY ObserverStarts
<1>2. ObserverInv /\ [ObserverNext]_observerVars => ObserverInv'
  <2>1. SUFFICES ASSUME ObserverInv, [ObserverNext]_observerVars PROVE ObserverInv'
    OBVIOUS
  <2>2. CASE UNCHANGED observerVars
    BY <2>1, <2>2 DEF observerVars, ObserverInv, ObserverTypeOK, classify_goal_snapshot,
       labelled_wait_menu, actionable_bottom, trusted_tmux_screen
  <2>3. CASE ObserverNext
    BY <2>1, <2>3, WorldKeeps, AskedKeeps, CodexKeeps, FilesKeep, PaneKeeps, ScreenKeeps
       DEF ObserverNext
  <2> QED BY <2>1, <2>2, <2>3
<1> QED BY <1>1, <1>2, PTL DEF ObserverSpec

\* The keys of a menu are never the words that resume a goal.
LEMMA KeysAreNoResume ==
    ASSUME NEW m \in Int
    PROVE  menu_keys(m) # GoalResume
<1> DEFINE n == IF m < 0 THEN -m ELSE m
           ks == [i \in 1..n |-> IF m < 0 THEN "UP" ELSE "DOWN"]
<1>1. n \in Nat
  OBVIOUS
<1>2. ks \in Seq({"UP", "DOWN"}) /\ Len(ks) = n
  BY <1>1
<1>3. menu_keys(m) = ks \o <<"ENTER">>
  BY DEF menu_keys
<1> HIDE DEF n, ks
<1>4. Len(ks \o <<"ENTER">>) = n + 1 /\ (ks \o <<"ENTER">>)[n + 1] = "ENTER"
  BY <1>1, <1>2
<1>5. Len(GoalResume) = 1 /\ GoalResume[1] = "/goal resume"
  BY DEF GoalResume
<1>6. CASE n = 0
  BY <1>1, <1>3, <1>4, <1>5, <1>6
<1>7. CASE n # 0
  BY <1>1, <1>3, <1>4, <1>5, <1>7
<1> QED BY <1>6, <1>7

\* A Codex goal is resumed only if it was blocked for capacity at some moment of
\* the observation, or none of its files could be read (ResumeIsBacked).
THEOREM ResumeBacked == ObserverSpec => []ResumeIsBacked
<1>1. ObserverInv => ResumeIsBacked
  <2>1. SUFFICES ASSUME ObserverInv, action_for(obs.event) = GoalResume
                 PROVE  obs.event.source = "codex" /\ obs.event.hint = "resume"
    BY DEF ObserverInv, ResumeIsBacked
  <2>2. obs.event.moves \in Int
    BY <2>1 DEF ObserverInv, ObserverTypeOK, ObserverEvents
  <2>3. menu_action(obs.event) # GoalResume
    BY <2>2, KeysAreNoResume DEF menu_action
  <2>4. GoalResume # <<>> /\ wait_for_reset(obs.event) # GoalResume /\ overload_wait # GoalResume
        /\ ClaudeResume # GoalResume /\ capacity_wait # GoalResume
    BY DEF GoalResume, wait_for_reset, overload_wait, ClaudeResume, capacity_wait
  <2>5. ClaudeRecipes(obs.event) \in {menu_action(obs.event), wait_for_reset(obs.event), overload_wait,
                                      ClaudeResume, <<>>}
    BY DEF ClaudeRecipes
  <2>6. obs.event.source = "codex" /\ CodexRecipes(obs.event) = GoalResume
    BY <2>1, <2>3, <2>4, <2>5 DEF action_for
  <2> QED BY <2>4, <2>6 DEF CodexRecipes
<1> QED BY <1>1, ObserverSafe, PTL

\* Pressed on a menu of N rows from the row c, the keys of m moves end on the row
\* c + m, if there is one.
LEMMA PressMoves ==
    ASSUME NEW menu, Len(menu) \in Nat, NEW c \in 1..Len(menu), NEW m \in Int, c + m \in 1..Len(menu),
           c = CHOOSE i \in DOMAIN menu : menu[i].cursor
    PROVE  Press(menu, menu_keys(m)) = c + m
<1> DEFINE n == IF m < 0 THEN -m ELSE m
           ks == [i \in 1..n |-> IF m < 0 THEN "UP" ELSE "DOWN"]
           keys == ks \o <<"ENTER">>
           L == n + 1
           e(f) == [k \in 0..Len(keys) |-> IF k = 0 THEN c ELSE PressKey(menu, f[k - 1], keys[k])]
           g == [k \in 0..L |-> IF k > n THEN c + m ELSE IF m < 0 THEN c - k ELSE c + k]
<1>1. n \in Nat /\ (m < 0 => n = -m) /\ (m >= 0 => n = m)
  OBVIOUS
<1>2. ks \in Seq({"UP", "DOWN"}) /\ Len(ks) = n
  BY <1>1
<1>3. menu_keys(m) = keys
  BY DEF menu_keys
<1>4. Len(keys) = L /\ keys[L] = "ENTER" /\ \A k \in 1..n : keys[k] = IF m < 0 THEN "UP" ELSE "DOWN"
  <2>1. \A k \in 1..n : ks[k] = IF m < 0 THEN "UP" ELSE "DOWN"
    OBVIOUS
  <2> HIDE DEF n, ks
  <2> QED BY <1>1, <1>2, <2>1
<1>5. Press(menu, keys) = (CHOOSE f : f = e(f))[Len(keys)]
  BY DEF Press
<1>6. ASSUME NEW k \in 1..L PROVE PressKey(menu, g[k - 1], keys[k]) = g[k]
  <2>1. CASE k = L
    <3>1. g[k - 1] = c + m /\ g[k] = c + m /\ keys[k] = "ENTER"
      BY <1>1, <1>4, <2>1
    <3> HIDE DEF g, keys
    <3> QED BY <3>1 DEF PressKey
  <2>2. CASE k # L /\ m < 0
    <3>1. /\ g[k - 1] = c - (k - 1) /\ g[k] = c - k /\ keys[k] = "UP" /\ k \in 1..n /\ c - (k - 1) > 1
      BY <1>1, <1>4, <2>2
    <3> HIDE DEF g, keys, n
    <3> QED BY <3>1 DEF PressKey
  <2>3. CASE k # L /\ m >= 0
    <3>1. /\ g[k - 1] = c + (k - 1) /\ g[k] = c + k /\ keys[k] = "DOWN" /\ k \in 1..n
          /\ c + (k - 1) < Len(menu)
      BY <1>1, <1>4, <2>3
    <3> HIDE DEF g, keys, n
    <3> QED BY <3>1 DEF PressKey
  <2> QED BY <1>1, <2>1, <2>2, <2>3
<1>7. g[0] = c /\ g[L] = c + m /\ L \in Nat
  BY <1>1
<1>8. g = e(g)
  <2>1. \A k \in 0..L : g[k] = IF k = 0 THEN c ELSE PressKey(menu, g[k - 1], keys[k])
    <3>1. \A k \in 0..L : k = 0 \/ k \in 1..L
      BY <1>7
    <3> HIDE DEF g, L, keys
    <3> QED BY <1>6, <1>7, <3>1
  <2>2. g = [k \in 0..L |-> g[k]]
    OBVIOUS
  <2> HIDE DEF g, L, keys
  <2> QED BY <1>4, <2>1, <2>2
<1> DEFINE f == CHOOSE f : f = e(f)
<1>9. f = e(f)
  <2> HIDE DEF g, L, keys
  <2> QED BY <1>8
<1> HIDE DEF f, g, L, keys, n
<1>10. f[0] = c /\ \A k \in 1..L : f[k] = PressKey(menu, f[k - 1], keys[k])
  <2>1. 0 \in 0..Len(keys) /\ \A k \in 1..L : k \in 0..Len(keys) /\ k # 0
    BY <1>4, <1>7
  <2> QED BY <1>9, <2>1
<1> DEFINE T == {k \in Nat : k <= L => f[k] = g[k]}
<1>11. 0 \in T
  BY <1>7, <1>10
<1>12. ASSUME NEW k \in T PROVE k + 1 \in T
  <2>1. k \in Nat /\ k + 1 - 1 = k
    OBVIOUS
  <2>2. SUFFICES ASSUME k + 1 <= L PROVE f[k + 1] = g[k + 1]
    BY <2>1
  <2>3. k + 1 \in 1..L /\ f[k] = g[k]
    BY <1>7, <2>1, <2>2
  <2>4. f[k + 1] = PressKey(menu, f[k], keys[k + 1]) /\ g[k + 1] = PressKey(menu, g[k], keys[k + 1])
    BY <1>6, <1>10, <2>1, <2>3
  <2> QED BY <2>3, <2>4
<1>13. L \in T
  <2> HIDE DEF T
  <2>1. T \in SUBSET Nat
    BY DEF T
  <2> QED BY <1>7, <1>11, <1>12, <2>1, SetInduction
<1>14. f[L] = c + m
  BY <1>7, <1>13
<1> QED BY <1>3, <1>4, <1>5, <1>14 DEF f

\* A menu that is trusted at the bottom of a screen is the end of the menu that
\* is drawn there: the distance of two rows is the same on both.
LEMMA BottomMenu ==
    ASSUME NEW rows \in Seq(Options \cup Plain), watch \in Watches,
           NEW m \in labelled_wait_menu(actionable_bottom(rows), actionable_bottom(rows))
    PROVE  /\ MenuOf(rows) \in Seq(Options)
           /\ \E t, c \in 1..Len(MenuOf(rows)) :
                m = t - c /\ MenuOf(rows)[t].label = "wait" /\ MenuOf(rows)[c].cursor
<1> DEFINE live == trusted_tmux_screen(rows)
           H == Highest(live, Bottom)
           O == {i \in live : IsOption(rows[i])}
           b == Pick(rows, H)
           T == {k \in DOMAIN b : IsOption(b[k])}
           U == {Kth(H, k) : k \in T}
<1>1. live \in SUBSET DOMAIN rows
  <2>1. watch.live \in Nat
    BY RowsAssumption DEF Watches
  <2>2. DOMAIN rows = 1..Len(rows) /\ Len(rows) \in Nat
    OBVIOUS
  <2> QED BY <2>1, <2>2 DEF trusted_tmux_screen
<1>2. IsFiniteSet(live) /\ live \in SUBSET Int
  <2> HIDE DEF live
  <2> QED BY <1>1, PickIs
<1>3. H \in SUBSET live /\ \A i \in H, j \in live : i < j => j \in H
  <2>1. Bottom \in Int
    BY BottomAssumption
  <2> HIDE DEF live
  <2> QED BY <1>2, <2>1, HighestAbove
<1> HIDE DEF live
<1>4. H \in SUBSET DOMAIN rows /\ O \in SUBSET DOMAIN rows /\ O \in SUBSET live
  BY <1>1, <1>3
<1>5. /\ H \in SUBSET Int /\ IsFiniteSet(H) /\ b \in Seq(Options \cup Plain)
      /\ DOMAIN b = 1..Cardinality(H)
      /\ \A k \in 1..Cardinality(H) : Kth(H, k) \in H /\ b[k] = rows[Kth(H, k)]
  <2> HIDE DEF H
  <2> QED BY <1>4, PickIs
<1>6. \A i \in H : Rank(H, i) \in 1..Cardinality(H) /\ Kth(H, Rank(H, i)) = i
  <2> HIDE DEF H
  <2> QED BY <1>5, KthPlace
<1>7. U = {i \in H : IsOption(rows[i])}
  <2> HIDE DEF H, b
  <2>1. \A k \in T : Kth(H, k) \in H /\ IsOption(rows[Kth(H, k)])
    BY <1>5
  <2>2. ASSUME NEW i \in H, IsOption(rows[i]) PROVE i \in U
    <3>1. Rank(H, i) \in T
      BY <1>5, <1>6, <2>2
    <3> QED BY <1>6, <3>1
  <2> QED BY <2>1, <2>2
<1>8. U \in SUBSET DOMAIN rows /\ menu_rows(b) = Pick(rows, U)
  <2>1. menu_rows(b) = Pick(b, T)
    BY DEF menu_rows
  <2>2. T \in SUBSET DOMAIN b
    OBVIOUS
  <2> HIDE DEF H, T, U
  <2>3. U \in SUBSET H /\ Pick(b, T) = Pick(rows, U)
    <3>1. \A x : x \in U <=> \E k \in T : x = Kth(H, k)
      BY DEF U
    <3>2. T \in SUBSET DOMAIN Pick(rows, H)
      BY <2>2 DEF b
    <3>3. U \in SUBSET H /\ Pick(Pick(rows, H), T) = Pick(rows, U)
      BY <1>4, <3>1, <3>2, PickOfPick
    <3> QED BY <3>3 DEF b
  <2> QED BY <1>4, <2>1, <2>3
<1>9. actionable_bottom(rows) = b
  <2>1. actionable_bottom(rows) # <<>>
    <3>1. ASSUME actionable_bottom(rows) = <<>> PROVE FALSE
      <4>1. menu_rows(<<>>) = Pick(<<>>, {})
        BY DEF menu_rows
      <4>2. Cardinality({}) = 0
        BY FS_EmptySet
      <4>3. DOMAIN menu_rows(<<>>) = {}
        BY <4>1, <4>2 DEF Pick
      <4>4. {i \in DOMAIN menu_rows(<<>>) : menu_rows(<<>>)[i].label = "wait"} = {}
        BY <4>3
      <4>5. labelled_wait_menu(<<>>, <<>>) = {}
        BY <4>2, <4>4 DEF labelled_wait_menu
      <4> QED BY <3>1, <4>5
    <3> QED BY <3>1
  <2> QED BY <2>1 DEF actionable_bottom, live
<1> HIDE DEF H, O, T, U, b
<1>10. PICK t, c \in DOMAIN Pick(rows, U) :
         m = t - c /\ Pick(rows, U)[t].label = "wait" /\ Pick(rows, U)[c].cursor
  BY <1>8, <1>9 DEF labelled_wait_menu
<1>11. /\ U \in SUBSET Int /\ IsFiniteSet(U) /\ DOMAIN Pick(rows, U) = 1..Cardinality(U)
       /\ \A k \in 1..Cardinality(U) : Kth(U, k) \in U /\ Rank(U, Kth(U, k)) = k
                                       /\ Pick(rows, U)[k] = rows[Kth(U, k)]
  BY <1>8, PickIs, KthPlace
<1>12. /\ O \in SUBSET Int /\ IsFiniteSet(O) /\ Cardinality(O) \in Nat /\ MenuOf(rows) = Pick(rows, O)
       /\ Len(Pick(rows, O)) = Cardinality(O) /\ DOMAIN Pick(rows, O) = 1..Cardinality(O)
       /\ \A k \in 1..Cardinality(O) : Kth(O, k) \in O /\ Pick(rows, O)[k] = rows[Kth(O, k)]
       /\ \A i \in O : Rank(O, i) \in 1..Cardinality(O) /\ Kth(O, Rank(O, i)) = i
  <2>1. MenuOf(rows) = Pick(rows, O)
    BY DEF MenuOf, O, live
  <2> QED BY <1>4, <2>1, PickIs, KthPlace
<1>13. U \in SUBSET O /\ \A i \in U, j \in O \ U : j < i
  <2>1. U \in SUBSET O
    BY <1>3, <1>7 DEF O
  <2>2. ASSUME NEW i \in U, NEW j \in O \ U PROVE j < i
    <3>1. i \in H /\ j \in live /\ j \notin H /\ i \in Int /\ j \in Int
      BY <1>2, <1>5, <1>7 DEF O
    <3> QED BY <1>3, <3>1
  <2> QED BY <2>1, <2>2
<1>14. \A i \in U : Rank(O, i) = Cardinality(O \ U) + Rank(U, i)
  BY <1>12, <1>13, RankAbove
<1> DEFINE d == Cardinality(O \ U)
<1>15. d \in Nat
  BY <1>12, FS_Difference, FS_CardinalityType
<1>16. ASSUME NEW k \in 1..Cardinality(U)
       PROVE  d + k \in 1..Cardinality(O) /\ Pick(rows, O)[d + k] = Pick(rows, U)[k]
  <2>1. Kth(U, k) \in U /\ Kth(U, k) \in O /\ Rank(U, Kth(U, k)) = k
    BY <1>11, <1>13
  <2>2. Rank(O, Kth(U, k)) = d + k
    BY <1>14, <2>1
  <2>3. d + k \in 1..Cardinality(O) /\ Kth(O, d + k) = Kth(U, k)
    BY <1>12, <2>1, <2>2
  <2> QED BY <1>11, <1>12, <2>3
<1>17. Pick(rows, O) \in Seq(Options)
  <2>1. \A k \in 1..Cardinality(O) : Pick(rows, O)[k] \in Options
    BY <1>12 DEF O, IsOption
  <2>2. Pick(rows, O) = [k \in 1..Cardinality(O) |-> Pick(rows, O)[k]]
    BY DEF Pick
  <2>3. Pick(rows, O) \in [1..Cardinality(O) -> Options]
    BY <2>1, <2>2
  <2> QED BY <1>12, <2>3
<1> HIDE DEF d
<1>18. t \in 1..Cardinality(U) /\ c \in 1..Cardinality(U) /\ t \in Int /\ c \in Int
  BY <1>10, <1>11
<1>19. /\ d + t \in 1..Len(MenuOf(rows)) /\ d + c \in 1..Len(MenuOf(rows)) /\ m = (d + t) - (d + c)
       /\ MenuOf(rows)[d + t].label = "wait" /\ MenuOf(rows)[d + c].cursor
  BY <1>10, <1>12, <1>15, <1>16, <1>18
<1> QED BY <1>12, <1>17, <1>19

\* The keys that a trusted menu leads to choose the row that waits, on the menu
\* as it was drawn at the second capture (MenuKeysSelectWait).
THEOREM KeysSelectWait == ObserverSpec => []MenuKeysSelectWait
<1>1. ObserverInv => MenuKeysSelectWait
  <2> DEFINE menu == MenuOf(obs.second)
             cursors == {i \in DOMAIN menu : menu[i].cursor}
             m == obs.event.moves
  <2>1. SUFFICES ASSUME ObserverInv, obs.event.hint = "keys", Cardinality(cursors) = 1
                 PROVE  menu[Press(menu, action_for(obs.event))].label = "wait"
    BY DEF MenuKeysSelectWait
  <2>2. /\ obs.second \in Seq(Options \cup Plain) /\ watch \in Watches /\ obs.event.source = "screen"
        /\ m \in labelled_wait_menu(actionable_bottom(obs.first), actionable_bottom(obs.second))
    BY <2>1 DEF ObserverInv, ObserverTypeOK
  <2>3. m \in labelled_wait_menu(actionable_bottom(obs.second), actionable_bottom(obs.second))
    <3> DEFINE x == actionable_bottom(obs.first)
               y == actionable_bottom(obs.second)
    <3>1. m \in labelled_wait_menu(x, y)
      BY <2>2
    <3> HIDE DEF x, y
    <3>2. x = y
      BY <3>1 DEF labelled_wait_menu
    <3>3. m \in labelled_wait_menu(y, y)
      BY <3>1, <3>2
    <3> QED BY <3>3 DEF y
  <2> HIDE DEF m
  <2>4. menu \in Seq(Options)
        /\ \E t, c \in 1..Len(menu) : m = t - c /\ menu[t].label = "wait" /\ menu[c].cursor
    BY <2>2, <2>3, BottomMenu
  <2> HIDE DEF menu
  <2>5. PICK t, c \in 1..Len(menu) : m = t - c /\ menu[t].label = "wait" /\ menu[c].cursor
    BY <2>4
  <2>6. Len(menu) \in Nat /\ DOMAIN menu = 1..Len(menu) /\ m \in Int /\ c + m = t
    BY <2>4, <2>5
  <2>7. IsFiniteSet(cursors)
    <3>1. cursors \in SUBSET (1..Len(menu)) /\ IsFiniteSet(1..Len(menu))
      BY <2>6, FS_Interval
    <3> HIDE DEF cursors
    <3> QED BY <3>1, FS_Subset
  <2>8. \A i \in DOMAIN menu : menu[i].cursor => i = c
    <3>1. PICK x : cursors = {x}
      <4> HIDE DEF cursors
      <4> QED BY <2>1, <2>7, FS_Singleton
    <3>2. c \in cursors
      BY <2>5, <2>6
    <3>3. \A i \in cursors : i = c
      <4> HIDE DEF cursors
      <4> QED BY <3>1, <3>2
    <3> QED BY <3>3
  <2>9. c = CHOOSE i \in DOMAIN menu : menu[i].cursor
    BY <2>5, <2>6, <2>8
  <2>10. Press(menu, menu_keys(m)) = t
    BY <2>5, <2>6, <2>9, PressMoves
  <2>11. action_for(obs.event) = menu_keys(m)
    BY <2>1, <2>2 DEF action_for, ClaudeRecipes, menu_action, m
  <2> QED BY <2>5, <2>10, <2>11
<1> QED BY <1>1, ObserverSafe, PTL

-----------------------------------------------------------------------------
(* Rollout.                                                                 *)

\* g starts at s0 and steps from each number up to L to the next by F.
IsRun(g, F, L, s0) == g[0] = s0 /\ \A n \in 1..L : g[n] = F[n][g[n - 1]]

\* Such a function exists.
LEMMA RunExists ==
    ASSUME NEW S, NEW L \in Nat, NEW F \in [1..L -> [S -> S]], NEW s0 \in S
    PROVE  \E g \in [0..L -> S] : IsRun(g, F, L, s0)
<1> DEFINE Ok(n, g) == g[0] = s0 /\ \A i \in 1..n : g[i] = F[i][g[i - 1]]
           T == {n \in Nat : n <= L => \E g \in [0..n -> S] : Ok(n, g)}
<1>1. 0 \in T
  <2>1. [i \in 0..0 |-> s0] \in [0..0 -> S] /\ Ok(0, [i \in 0..0 |-> s0])
    OBVIOUS
  <2> QED BY <2>1
<1>2. ASSUME NEW n \in T PROVE n + 1 \in T
  <2>0. n \in Nat /\ n + 1 \in Nat
    OBVIOUS
  <2>1. SUFFICES ASSUME n + 1 <= L PROVE \E g \in [0..(n + 1) -> S] : Ok(n + 1, g)
    BY <2>0
  <2>2. PICK g \in [0..n -> S] : Ok(n, g)
    <3>1. n <= L
      BY <2>0, <2>1
    <3> QED BY <3>1
  <2> DEFINE h == [i \in 0..(n + 1) |-> IF i = n + 1 THEN F[n + 1][g[n]] ELSE g[i]]
  <2>3. n + 1 \in 1..L /\ g[n] \in S
    BY <2>0, <2>1, <2>2
  <2>4. h \in [0..(n + 1) -> S]
    <3>1. F[n + 1][g[n]] \in S
      BY <2>3
    <3>2. \A i \in 0..(n + 1) : i # n + 1 => i \in 0..n
      BY <2>0
    <3> QED BY <3>1, <3>2
  <2>5. Ok(n + 1, h)
    <3>1. h[0] = s0
      BY <2>0, <2>2
    <3>2. ASSUME NEW i \in 1..(n + 1) PROVE h[i] = F[i][h[i - 1]]
      <4>1. CASE i = n + 1
        BY <4>1, <2>0
      <4>2. CASE i # n + 1
        <5>1. i \in 1..n /\ i - 1 \in 0..n /\ i - 1 # n + 1
          BY <4>2, <2>0
        <5> QED BY <5>1, <2>2, <2>0
      <4> QED BY <4>1, <4>2
    <3> QED BY <3>1, <3>2
  <2> QED BY <2>4, <2>5
<1>3. T = Nat
  <2> HIDE DEF T
  <2>1. T \in SUBSET Nat
    BY DEF T
  <2> QED BY <1>1, <1>2, <2>1, SetInduction
<1>4. PICK g \in [0..L -> S] : Ok(L, g)
  <2>1. L \in T
    BY <1>3
  <2>2. L <= L
    OBVIOUS
  <2> QED BY <2>1, <2>2
<1> QED BY <1>4 DEF IsRun

ScanStates == [turn : Turns \cup {NoTurn}, capacity : Turns \cup {NoTurn}, terminal : BOOLEAN]

\* A record takes a state of the scan to another.
LEMMA ScanType ==
    ASSUME NEW s \in ScanStates, NEW r \in RolloutRecords
    PROVE  Scan(s, r) \in ScanStates
<1>1. r.kind \in {"started", "complete", "user", "capacity"}
      /\ (r.kind \in {"started", "complete"} => r.turn \in Turns)
  BY DEF RolloutRecords
<1> QED BY <1>1 DEF Scan, ScanStates

\* The scan of the records, step by step.
LEMMA ScanSteps ==
    ASSUME NEW rs \in Seq(RolloutRecords)
    PROVE  /\ Scanned(rs)[0] = Unscanned
           /\ \A n \in 1..Len(rs) : Scanned(rs)[n] = Scan(Scanned(rs)[n - 1], rs[n])
<1> DEFINE L == Len(rs)
           F == [n \in 1..L |-> [s \in ScanStates |-> Scan(s, rs[n])]]
           e(f) == [n \in 0..L |-> IF n = 0 THEN Unscanned ELSE Scan(f[n - 1], rs[n])]
<1>0. L \in Nat /\ Unscanned \in ScanStates /\ \A n \in 1..L : rs[n] \in RolloutRecords
  BY DEF Unscanned, ScanStates
<1>1. F \in [1..L -> [ScanStates -> ScanStates]]
  BY <1>0, ScanType
<1>2. PICK g \in [0..L -> ScanStates] : g[0] = Unscanned /\ \A n \in 1..L : g[n] = F[n][g[n - 1]]
  <2>1. \E g \in [0..L -> ScanStates] : IsRun(g, F, L, Unscanned)
    <3>1. L \in Nat /\ Unscanned \in ScanStates
      BY <1>0
    <3> HIDE DEF F, L
    <3> QED BY <1>1, <3>1, RunExists
  <2> HIDE DEF F, L
  <2> QED BY <2>1 DEF IsRun
<1>3. g = e(g)
  <2>1. ASSUME NEW n \in 0..L PROVE g[n] = IF n = 0 THEN Unscanned ELSE Scan(g[n - 1], rs[n])
    <3>1. CASE n = 0
      BY <3>1, <1>2
    <3>2. CASE n # 0
      <4>1. n \in 1..L /\ n - 1 \in 0..L
        BY <3>2, <1>0
      <4>2. g[n - 1] \in ScanStates /\ g[n] = F[n][g[n - 1]]
        BY <4>1, <1>2
      <4> QED BY <4>1, <4>2, <3>2
    <3> QED BY <3>1, <3>2
  <2> HIDE DEF L
  <2> QED BY <2>1
<1>4. Scanned(rs) = CHOOSE f : f = e(f)
  BY DEF Scanned
<1>5. Scanned(rs) = e(Scanned(rs))
  BY <1>3, <1>4
<1>6. 0 \in 0..L /\ \A n \in 1..L : n \in 0..L /\ n # 0
  BY <1>0
<1> DEFINE sc == Scanned(rs)
<1> HIDE DEF L, sc
<1>7. sc = [n \in 0..L |-> IF n = 0 THEN Unscanned ELSE Scan(sc[n - 1], rs[n])]
  BY <1>5 DEF sc
<1>8. sc[0] = Unscanned /\ \A n \in 1..L : sc[n] = Scan(sc[n - 1], rs[n])
  BY <1>6, <1>7
<1> QED BY <1>8 DEF sc, L

\* A turn t starts at b, and neither a start nor an end follows up to n.
OpenTurn(rs, b, n, t) ==
    /\ rs[b] = [kind |-> "started", turn |-> t]
    /\ \A i \in DOMAIN rs : b < i /\ i <= n => rs[i].kind \notin {"started", "complete"}
\* The message is at j, in the turn t that started at b, and neither a start nor
\* the user follows up to n.
HasMessage(rs, b, j, n, t) ==
    /\ rs[j].kind = "capacity" /\ OpenTurn(rs, b, j, t)
    /\ \A i \in DOMAIN rs : j < i /\ i <= n => rs[i].kind \notin {"started", "user"}
\* The scan's state says of the first n records what it stands for.
ScanMeans(rs, n, s) ==
    /\ s \in ScanStates
    /\ s.turn # NoTurn => \E b \in 1..n : OpenTurn(rs, b, n, s.turn)
    /\ s.capacity # NoTurn => \E j \in 1..n, b \in 1..n : b < j /\ HasMessage(rs, b, j, n, s.capacity)
    /\ s.terminal => \E j \in 1..n, b \in 1..n, k \in 1..n :
         /\ b < j /\ j < k /\ rs[k].kind = "complete" /\ HasMessage(rs, b, j, n, rs[k].turn)
         /\ \A i \in DOMAIN rs : k < i /\ i <= n => rs[i].kind # "complete"

\* One more record: the state still says what the records up to it say.
LEMMA ScanMeaning ==
    ASSUME NEW rs \in Seq(RolloutRecords), NEW n \in Nat, n + 1 <= Len(rs), NEW s, ScanMeans(rs, n, s)
    PROVE  ScanMeans(rs, n + 1, Scan(s, rs[n + 1]))
<1> DEFINE r == rs[n + 1]
           q == Scan(s, r)
<1> SUFFICES ScanMeans(rs, n + 1, q)
  OBVIOUS
<1>0. /\ DOMAIN rs = 1..Len(rs) /\ Len(rs) \in Nat /\ r \in RolloutRecords /\ s \in ScanStates
      /\ q \in ScanStates
  BY ScanType DEF ScanMeans
<1>1. r.kind \in {"started", "complete", "user", "capacity"}
      /\ (r.kind \in {"started", "complete"} => r.turn \in Turns /\ r.turn # NoTurn
                                               /\ r = [kind |-> r.kind, turn |-> r.turn])
  BY <1>0, TurnsAssumption DEF RolloutRecords
<1>2. \A i \in DOMAIN rs : i <= n + 1 => i <= n \/ i = n + 1
  BY <1>0
<1>3. 1..n \subseteq 1..(n + 1) /\ n + 1 \in 1..(n + 1) /\ \A i \in 1..n : i < n + 1
  OBVIOUS
\* What the next record leaves as it was.
<1>4. ASSUME NEW b \in 1..n, NEW t, OpenTurn(rs, b, n, t), r.kind \notin {"started", "complete"}
      PROVE  OpenTurn(rs, b, n + 1, t)
  <2> HIDE DEF r
  <2> QED BY <1>2, <1>4 DEF OpenTurn, r
<1>5. ASSUME NEW b \in 1..n, NEW j \in 1..n, NEW t, HasMessage(rs, b, j, n, t), r.kind \notin {"started", "user"}
      PROVE  HasMessage(rs, b, j, n + 1, t)
  <2> HIDE DEF r
  <2> QED BY <1>2, <1>5 DEF HasMessage, r
<1>6. CASE r.kind = "started"
  <2>1. q.turn = r.turn /\ q.capacity = NoTurn /\ q.terminal = FALSE
    BY <1>0, <1>6 DEF Scan, ScanStates
  <2>2. OpenTurn(rs, n + 1, n + 1, r.turn)
    BY <1>0, <1>1, <1>6 DEF OpenTurn
  <2> HIDE DEF q, r
  <2> QED BY <1>0, <1>3, <2>1, <2>2 DEF ScanMeans
<1>7. CASE r.kind = "complete"
  <2>1. q.turn = NoTurn /\ q.capacity = s.capacity /\ q.terminal = (r.turn = s.capacity)
    BY <1>0, <1>7 DEF Scan, ScanStates
  <2>2. ASSUME s.capacity # NoTurn
        PROVE  \E j \in 1..n, b \in 1..n : b < j /\ HasMessage(rs, b, j, n + 1, s.capacity)
    <3>1. PICK j \in 1..n, b \in 1..n : b < j /\ HasMessage(rs, b, j, n, s.capacity)
      BY <2>2 DEF ScanMeans
    <3>2. HasMessage(rs, b, j, n + 1, s.capacity)
      BY <1>5, <1>7, <3>1
    <3> QED BY <3>1, <3>2
  <2>3. ASSUME r.turn = s.capacity
        PROVE  \E j \in 1..(n + 1), b \in 1..(n + 1), k \in 1..(n + 1) :
                 /\ b < j /\ j < k /\ rs[k].kind = "complete" /\ HasMessage(rs, b, j, n + 1, rs[k].turn)
                 /\ \A i \in DOMAIN rs : k < i /\ i <= n + 1 => rs[i].kind # "complete"
    <3>1. PICK j \in 1..n, b \in 1..n : b < j /\ HasMessage(rs, b, j, n + 1, s.capacity)
      BY <1>1, <1>7, <2>2, <2>3
    <3>2. /\ j < n + 1 /\ rs[n + 1].kind = "complete" /\ rs[n + 1].turn = s.capacity
          /\ \A i \in DOMAIN rs : n + 1 < i /\ i <= n + 1 => rs[i].kind # "complete"
      BY <1>0, <1>7, <2>3
    <3> QED BY <1>3, <3>1, <3>2
  <2> HIDE DEF q, r
  <2> QED BY <1>0, <1>3, <2>1, <2>2, <2>3 DEF ScanMeans
<1>8. CASE r.kind = "user"
  <2>1. q.turn = s.turn /\ q.capacity = NoTurn /\ q.terminal = FALSE
    BY <1>0, <1>8 DEF Scan, ScanStates
  <2>2. ASSUME s.turn # NoTurn PROVE \E b \in 1..(n + 1) : OpenTurn(rs, b, n + 1, s.turn)
    <3>1. PICK b \in 1..n : OpenTurn(rs, b, n, s.turn)
      BY <2>2 DEF ScanMeans
    <3> QED BY <1>3, <1>4, <1>8, <3>1
  <2> HIDE DEF q, r
  <2> QED BY <1>0, <2>1, <2>2 DEF ScanMeans
<1>9. CASE r.kind = "capacity"
  <2>1. q.turn = s.turn /\ q.capacity = s.turn /\ q.terminal = s.terminal
    BY <1>0, <1>9 DEF Scan, ScanStates
  <2>2. ASSUME s.turn # NoTurn
        PROVE  \E b \in 1..n : OpenTurn(rs, b, n + 1, s.turn)
    <3>1. PICK b \in 1..n : OpenTurn(rs, b, n, s.turn)
      BY <2>2 DEF ScanMeans
    <3> QED BY <1>4, <1>9, <3>1
  <2>3. ASSUME s.turn # NoTurn
        PROVE  \E j \in 1..(n + 1), b \in 1..(n + 1) : b < j /\ HasMessage(rs, b, j, n + 1, s.turn)
    <3>1. PICK b \in 1..n : OpenTurn(rs, b, n + 1, s.turn)
      BY <2>2, <2>3
    <3>2. HasMessage(rs, b, n + 1, n + 1, s.turn)
      BY <1>0, <1>9, <3>1 DEF HasMessage
    <3> QED BY <1>3, <3>1, <3>2
  <2>4. ASSUME s.terminal
        PROVE  \E j \in 1..(n + 1), b \in 1..(n + 1), k \in 1..(n + 1) :
                 /\ b < j /\ j < k /\ rs[k].kind = "complete" /\ HasMessage(rs, b, j, n + 1, rs[k].turn)
                 /\ \A i \in DOMAIN rs : k < i /\ i <= n + 1 => rs[i].kind # "complete"
    <3>1. PICK j \in 1..n, b \in 1..n, k \in 1..n :
            /\ b < j /\ j < k /\ rs[k].kind = "complete" /\ HasMessage(rs, b, j, n, rs[k].turn)
            /\ \A i \in DOMAIN rs : k < i /\ i <= n => rs[i].kind # "complete"
      BY <2>4 DEF ScanMeans
    <3>2. HasMessage(rs, b, j, n + 1, rs[k].turn)
      BY <1>5, <1>9, <3>1
    <3>3. \A i \in DOMAIN rs : k < i /\ i <= n + 1 => rs[i].kind # "complete"
      BY <1>2, <1>9, <3>1
    <3> QED BY <1>3, <3>1, <3>2, <3>3
  <2> HIDE DEF q, r
  <2> QED BY <1>0, <1>3, <2>1, <2>2, <2>3, <2>4 DEF ScanMeans
<1> QED BY <1>1, <1>6, <1>7, <1>8, <1>9

\* What the scan says of a rollout that is read from its start is what
\* EndedForCapacity says of it.
LEMMA ScanIsRight ==
    ASSUME NEW rs \in Seq(RolloutRecords), latest_terminal_turn_has_capacity(rs)
    PROVE  EndedForCapacity(rs)
<1> DEFINE L == Len(rs)
           T == {n \in Nat : n <= L => ScanMeans(rs, n, Scanned(rs)[n])}
<1>0. L \in Nat /\ DOMAIN rs = 1..L
  OBVIOUS
<1>1. 0 \in T
  <2>1. Scanned(rs)[0] = Unscanned
    BY ScanSteps
  <2>2. ScanMeans(rs, 0, Unscanned)
    BY DEF ScanMeans, ScanStates, Unscanned
  <2> QED BY <2>1, <2>2
<1>2. ASSUME NEW n \in T PROVE n + 1 \in T
  <2>1. n \in Nat
    OBVIOUS
  <2>2. SUFFICES ASSUME n + 1 <= L PROVE ScanMeans(rs, n + 1, Scanned(rs)[n + 1])
    BY <2>1
  <2>3. n + 1 \in 1..L /\ (n + 1) - 1 = n /\ n <= L
    BY <1>0, <2>1, <2>2
  <2>4. Scanned(rs)[n + 1] = Scan(Scanned(rs)[n], rs[n + 1])
    BY <2>3, ScanSteps
  <2>5. ScanMeans(rs, n, Scanned(rs)[n])
    BY <2>3
  <2> QED BY <2>1, <2>2, <2>4, <2>5, ScanMeaning
<1>3. L \in T
  <2>1. T \in SUBSET Nat
    OBVIOUS
  <2> HIDE DEF T
  <2> QED BY <1>0, <1>1, <1>2, <2>1, SetInduction
<1>4. ScanMeans(rs, L, Scanned(rs)[L])
  BY <1>0, <1>3
<1>5. PICK j \in 1..L, b \in 1..L, k \in 1..L :
         /\ b < j /\ j < k /\ rs[k].kind = "complete" /\ HasMessage(rs, b, j, L, rs[k].turn)
         /\ \A i \in DOMAIN rs : k < i /\ i <= L => rs[i].kind # "complete"
  BY <1>4 DEF ScanMeans, latest_terminal_turn_has_capacity
<1>6. \A i \in DOMAIN rs : i <= L
  BY <1>0
<1> HIDE DEF L
<1> QED BY <1>0, <1>5, <1>6 DEF EndedForCapacity, HasMessage, OpenTurn

\* The tail of a rollout is a rollout.
LEMMA TailIsSeq ==
    ASSUME NEW rs \in Seq(RolloutRecords)
    PROVE  read_rollout_tail(rs) \in Seq(RolloutRecords)
<1>1. Len(rs) \in Nat /\ TailLen \in Nat \ {0}
  BY TailAssumption
<1>2. CASE Len(rs) <= TailLen
  BY <1>2 DEF read_rollout_tail
<1>3. CASE Len(rs) > TailLen
  <2>1. \A i \in (Len(rs) - TailLen + 2)..Len(rs) : rs[i] \in RolloutRecords
    BY <1>1, <1>3
  <2> QED BY <1>1, <1>3, <2>1 DEF read_rollout_tail
<1> QED BY <1>1, <1>2, <1>3

\* What holds of the end of a rollout holds of all of it.
LEMMA TailIsEnough ==
    ASSUME NEW rs \in Seq(RolloutRecords), EndedForCapacity(read_rollout_tail(rs))
    PROVE  EndedForCapacity(rs)
<1> DEFINE L == Len(rs)
           d == L - TailLen + 1
           ts == SubSeq(rs, d + 1, L)
<1>0. L \in Nat /\ TailLen \in Nat /\ TailLen > 0 /\ DOMAIN rs = 1..L
  BY TailAssumption
<1>1. CASE L <= TailLen
  BY <1>1 DEF read_rollout_tail
<1>2. CASE L > TailLen
  <2>1. read_rollout_tail(rs) = ts /\ d \in Nat /\ d <= L
    BY <1>0, <1>2 DEF read_rollout_tail
  <2>2. ts \in Seq(RolloutRecords) /\ Len(ts) = L - d /\ \A i \in 1..(L - d) : ts[i] = rs[i + d]
    BY <1>0, <2>1
  <2> HIDE DEF ts, d, L
  <2>3. DOMAIN ts = 1..(L - d)
    BY <2>2
  <2>4. PICK j, k \in DOMAIN ts :
          /\ j < k /\ ts[j].kind = "capacity" /\ ts[k].kind = "complete"
          /\ \A i \in DOMAIN ts : i > j => ts[i].kind \notin {"started", "user"}
          /\ \A i \in DOMAIN ts : i > k => ts[i].kind # "complete"
          /\ \E b \in DOMAIN ts : /\ b < j /\ ts[b] = [kind |-> "started", turn |-> ts[k].turn]
                                  /\ \A i \in DOMAIN ts : b < i /\ i < j =>
                                       ts[i].kind \notin {"started", "complete"}
    BY <2>1 DEF EndedForCapacity
  <2>5. PICK b \in DOMAIN ts : /\ b < j /\ ts[b] = [kind |-> "started", turn |-> ts[k].turn]
                               /\ \A i \in DOMAIN ts : b < i /\ i < j =>
                                    ts[i].kind \notin {"started", "complete"}
    BY <2>4
  <2>6. \A i \in 1..(L - d) : i + d \in DOMAIN rs /\ rs[i + d] = ts[i]
    BY <1>0, <2>1, <2>2, SMTT(30)
  <2>7. \A i \in DOMAIN rs : i > d => i - d \in DOMAIN ts /\ rs[i] = ts[i - d]
    BY <1>0, <2>1, <2>2, <2>3
  <2>8. b \in 1..(L - d) /\ j \in 1..(L - d) /\ k \in 1..(L - d) /\ L - d \in Nat
    BY <1>0, <2>1, <2>3
  <2>9. /\ b + d \in DOMAIN rs /\ j + d \in DOMAIN rs /\ k + d \in DOMAIN rs
        /\ rs[b + d] = ts[b] /\ rs[j + d] = ts[j] /\ rs[k + d] = ts[k]
        /\ j + d < k + d /\ b + d < j + d
    BY <2>1, <2>4, <2>5, <2>6, <2>8
  <2>10. \A i \in DOMAIN rs : i > j + d => rs[i].kind \notin {"started", "user"}
    <3>1. SUFFICES ASSUME NEW i \in DOMAIN rs, i > j + d PROVE rs[i].kind \notin {"started", "user"}
      OBVIOUS
    <3>2. i > d /\ i - d > j
      BY <1>0, <2>1, <2>8, <3>1
    <3> QED BY <2>4, <2>7, <3>2
  <2>11. \A i \in DOMAIN rs : i > k + d => rs[i].kind # "complete"
    <3>1. SUFFICES ASSUME NEW i \in DOMAIN rs, i > k + d PROVE rs[i].kind # "complete"
      OBVIOUS
    <3>2. i > d /\ i - d > k
      BY <1>0, <2>1, <2>8, <3>1
    <3> QED BY <2>4, <2>7, <3>2
  <2>12. \A i \in DOMAIN rs : b + d < i /\ i < j + d => rs[i].kind \notin {"started", "complete"}
    <3>1. SUFFICES ASSUME NEW i \in DOMAIN rs, b + d < i, i < j + d
                   PROVE  rs[i].kind \notin {"started", "complete"}
      OBVIOUS
    <3>2. i > d /\ b < i - d /\ i - d < j
      BY <1>0, <2>1, <2>8, <3>1
    <3> QED BY <2>5, <2>7, <3>2
  <2>13. EndedForCapacity(rs)
    BY <2>4, <2>5, <2>9, <2>10, <2>11, <2>12 DEF EndedForCapacity
  <2> QED BY <2>13
<1> QED BY <1>0, <1>1, <1>2

\* Codex blocked for want of capacity is reported only when the whole rollout says
\* so: RolloutInv is inductive, whatever Codex writes meanwhile.
THEOREM RolloutSafe == RolloutSpec => []RolloutInv
<1>1. RolloutInit => RolloutInv
  <2>1. <<>> \in Seq(RolloutRecords)
    OBVIOUS
  <2> QED BY <2>1 DEF RolloutInit, RolloutInv, RolloutTypeOK, CapacityIsLatest, Statuses
<1>2. RolloutInv /\ [RolloutNext]_rolloutVars => RolloutInv'
  <2>1. SUFFICES ASSUME RolloutInv, [RolloutNext]_rolloutVars PROVE RolloutInv'
    OBVIOUS
  <2>2. RolloutTypeOK /\ (look.answer = "capacity" => look.pc = "done") /\ CapacityIsLatest
    BY <2>1 DEF RolloutInv
  \* A step of Codex, which leaves the call alone.
  <2>3. ASSUME look' = look, codex' \in [file : Seq(RolloutRecords), torn : BOOLEAN, goal : Statuses, bound : BOOLEAN]
        PROVE  RolloutInv'
    <3>1. RolloutTypeOK' /\ (look'.answer = "capacity" => look'.pc = "done")
      BY <2>2, <2>3 DEF RolloutTypeOK
    <3>2. CapacityIsLatest'
      BY <2>2, <2>3 DEF CapacityIsLatest
    <3> QED BY <3>1, <3>2 DEF RolloutInv
  \* A step of the call, which gives no answer but none or quiet.
  <2>4. ASSUME codex' = codex, look.pc # "done",
               look' \in [pc : {"idle", "goal", "rollout", "read", "done"}, goal : Statuses \cup {"none"},
                          clean : BOOLEAN, file : Seq(RolloutRecords), answer : {"none", "quiet"}]
        PROVE  RolloutInv'
    BY <2>2, <2>4 DEF RolloutInv, RolloutTypeOK, CapacityIsLatest
  <2>5. ASSUME codex' = codex, look.pc # "done", Gives("none") \/ Gives("quiet")
        PROVE  RolloutInv'
    BY <2>2, <2>4, <2>5 DEF RolloutTypeOK, Gives
  <2>6. ASSUME NEW r \in RolloutRecords, Append1(r) PROVE RolloutInv'
    <3>1. Append(codex.file, r) \in Seq(RolloutRecords)
      BY <2>2 DEF RolloutTypeOK
    <3> QED BY <2>2, <2>3, <2>6, <3>1 DEF Append1, RolloutTypeOK
  <2>7. CASE Flush
    BY <2>2, <2>3, <2>7 DEF Flush, RolloutTypeOK
  <2>8. ASSUME NEW g \in Statuses, SetGoal(g) PROVE RolloutInv'
    BY <2>2, <2>3, <2>8 DEF SetGoal, RolloutTypeOK
  <2>9. CASE Rebound
    BY <2>2, <2>3, <2>9 DEF Rebound, RolloutTypeOK
  <2>10. CASE revalidate
    BY <2>2, <2>4, <2>5, <2>10 DEF revalidate, RolloutTypeOK
  <2>11. CASE read_goal
    BY <2>2, <2>4, <2>5, <2>11 DEF read_goal, RolloutTypeOK
  <2>12. CASE ReadTail
    BY <2>2, <2>4, <2>5, <2>12 DEF ReadTail, RolloutTypeOK
  <2>13. CASE observe_bound_codex_state
    <3>1. codex' = codex /\ look.pc # "done"
      BY <2>13 DEF observe_bound_codex_state
    <3>2. CASE Gives("none") \/ Gives("quiet")
      BY <2>5, <3>1, <3>2
    <3>3. CASE /\ latest_terminal_turn_has_capacity(read_rollout_tail(look.file))
               /\ Gives("capacity")
      <4>1. look.file \in Seq(RolloutRecords)
        BY <2>2 DEF RolloutTypeOK
      <4>2. read_rollout_tail(look.file) \in Seq(RolloutRecords)
        BY <4>1, TailIsSeq
      <4>3. EndedForCapacity(look.file)
        BY <3>3, <4>1, <4>2, ScanIsRight, TailIsEnough
      <4>4. look' = [look EXCEPT !.pc = "done", !.answer = "capacity"]
        BY <3>3 DEF Gives
      <4>5. RolloutTypeOK' /\ look'.pc = "done" /\ look'.file = look.file
        BY <2>2, <3>1, <4>4 DEF RolloutTypeOK
      <4> QED BY <4>3, <4>5 DEF RolloutInv, CapacityIsLatest, EndedForCapacity
    <3> QED BY <2>13, <3>2, <3>3 DEF observe_bound_codex_state
  <2>14. CASE UNCHANGED rolloutVars
    BY <2>2, <2>3, <2>14 DEF rolloutVars, RolloutTypeOK
  <2> QED BY <2>1, <2>6, <2>7, <2>8, <2>9, <2>10, <2>11, <2>12, <2>13, <2>14 DEF RolloutNext
<1> QED BY <1>1, <1>2, PTL DEF RolloutSpec

\* A goal is reported as blocked for want of capacity only when the whole rollout
\* says so at the moment it is read (CapacityIsLatest).
THEOREM CapacityLatest == RolloutSpec => []CapacityIsLatest
<1>1. RolloutInv => CapacityIsLatest
  BY DEF RolloutInv
<1> QED BY <1>1, RolloutSafe, PTL

-----------------------------------------------------------------------------
(* Files.                                                                   *)

FileRecords == 1..(MaxPens + 1)
FileLines == [items : Seq(0..(MaxPens + 1)), closed : BOOLEAN]

\* What the type invariant says of the file, pen by pen and line by line.
LEMMA FileTypes ==
    ASSUME FilesTypeOK
    PROVE  /\ MaxPens \in Nat
           /\ disk.lines \in Seq(FileLines) /\ Len(disk.lines) \in Nat
           /\ DOMAIN disk.lines = 1..Len(disk.lines)
           /\ \A i \in 1..Len(disk.lines) : disk.lines[i] \in FileLines
           /\ job.base \in Seq(FileRecords) /\ Len(job.base) \in Nat
           /\ DOMAIN job.base = 1..Len(job.base)
<1>1. disk.lines \in Seq(FileLines)
  BY DEF FilesTypeOK, FileLines
<1>2. job.base \in Seq(FileRecords)
  BY DEF FilesTypeOK, FileRecords
<1>3. ASSUME NEW i \in 1..Len(disk.lines) PROVE disk.lines[i] \in FileLines
  BY <1>1
<1>4. DOMAIN disk.lines = 1..Len(disk.lines) /\ Len(disk.lines) \in Nat
  BY <1>1
<1>5. DOMAIN job.base = 1..Len(job.base) /\ Len(job.base) \in Nat
  BY <1>2
<1> QED BY <1>1, <1>2, <1>3, <1>4, <1>5, PensAssumption

\* The element of a sequence of one.
LEMMA FirstIs == ASSUME NEW A, NEW q \in Seq(A), Len(q) = 1 PROVE q[1] \in A
OBVIOUS

\* A line of one record, and whether a reader understands it.
LEMMA LineIs ==
    ASSUME NEW r \in 0..(MaxPens + 1), NEW closed \in BOOLEAN
    PROVE  /\ Line(<<r>>, closed) \in FileLines /\ Line(<<r>>, closed).items = <<r>>
           /\ Line(<<r>>, closed).closed = closed
           /\ r # Cut => Understood(Line(<<r>>, closed)) /\ Line(<<r>>, closed).items[1] = r
           /\ r = Cut => ~Understood(Line(<<r>>, closed))
<1>1. <<r>> \in Seq(0..(MaxPens + 1)) /\ Len(<<r>>) = 1 /\ <<r>>[1] = r
  OBVIOUS
<1> QED BY <1>1 DEF Line, FileLines, Understood

\* What a line that is added to a file, or to its open end, leaves of the others.
LEMMA PutIs ==
    ASSUME FilesTypeOK, OnlyLastIsOpen, NEW r \in 0..(MaxPens + 1), NEW closed \in BOOLEAN
    PROVE  /\ Put(r, closed) \in Seq(FileLines)
           /\ Open => /\ Len(disk.lines) > 0 /\ ~disk.lines[Len(disk.lines)].closed
                      /\ Len(Put(r, closed)) = Len(disk.lines)
                      /\ \A i \in 1..(Len(disk.lines) - 1) : Put(r, closed)[i] = disk.lines[i]
                      /\ Put(r, closed)[Len(disk.lines)].closed = closed
                      /\ Put(r, closed)[Len(disk.lines)].items # <<>>
                      /\ ~Understood(Put(r, closed)[Len(disk.lines)])
           /\ ~Open => /\ \A i \in 1..Len(disk.lines) : disk.lines[i].closed
                       /\ Len(Put(r, closed)) = Len(disk.lines) + 1
                       /\ \A i \in 1..Len(disk.lines) : Put(r, closed)[i] = disk.lines[i]
                       /\ Put(r, closed)[Len(disk.lines) + 1] = Line(<<r>>, closed)
<1> DEFINE L == disk.lines
           n == Len(L)
<1>1. L \in Seq(FileLines) /\ n \in Nat /\ DOMAIN L = 1..n
  BY FileTypes
<1>2. CASE Open
  <2>1. n > 0 /\ ~L[n].closed /\ n \in 1..n
    BY <1>1, <1>2 DEF Open, Last
  <2>2. L[n] \in FileLines /\ L[n].items # <<>> /\ L[n].items \in Seq(0..(MaxPens + 1))
    <3>1. L[n] \in FileLines
      BY <2>1, FileTypes
    <3>2. L[n].items # <<>>
      BY <1>1, <2>1 DEF OnlyLastIsOpen
    <3> QED BY <3>1, <3>2 DEF FileLines
  <2> DEFINE its == Append(L[n].items, r)
  <2>3. its \in Seq(0..(MaxPens + 1)) /\ Len(its) # 1 /\ its # <<>>
    BY <2>2
  <2>4. Put(r, closed) = [L EXCEPT ![n] = Line(its, closed)]
    BY <1>2 DEF Put
  <2> HIDE DEF its
  <2>5. Line(its, closed) \in FileLines /\ Line(its, closed).items = its /\ Line(its, closed).closed = closed
    BY <2>3 DEF Line, FileLines
  <2>6. /\ Put(r, closed) \in Seq(FileLines) /\ Len(Put(r, closed)) = n
        /\ \A i \in 1..(n - 1) : Put(r, closed)[i] = L[i]
        /\ Put(r, closed)[n] = Line(its, closed)
    BY <1>1, <2>1, <2>4, <2>5
  <2> QED BY <1>2, <2>1, <2>3, <2>5, <2>6 DEF Understood
<1>3. CASE ~Open
  <2>1. \A i \in 1..n : L[i].closed
    <3>1. SUFFICES ASSUME NEW i \in 1..n, ~L[i].closed PROVE FALSE
      OBVIOUS
    <3>2. i = n /\ L # <<>>
      BY <1>1, <3>1 DEF OnlyLastIsOpen
    <3> QED BY <1>3, <3>1, <3>2 DEF Open, Last
  <2>2. Put(r, closed) = Append(L, Line(<<r>>, closed)) /\ Line(<<r>>, closed) \in FileLines
    BY <1>3, LineIs DEF Put
  <2> QED BY <1>1, <1>3, <2>1, <2>2
<1> QED BY <1>2, <1>3

\* Closing a line adds at most an empty one and changes no record.
LEMMA CloseLineIs ==
    ASSUME FilesTypeOK, OnlyLastIsOpen
    PROVE  /\ CloseLine \in Seq(FileLines) /\ Len(CloseLine) \in {Len(disk.lines), Len(disk.lines) + 1}
           /\ \A i \in 1..Len(disk.lines) : CloseLine[i].items = disk.lines[i].items
           /\ \A i \in 1..Len(CloseLine) : CloseLine[i].closed
           /\ Len(CloseLine) = Len(disk.lines) + 1 => CloseLine[Len(disk.lines) + 1].items = <<>>
<1> DEFINE L == disk.lines
           n == Len(L)
<1>1. L \in Seq(FileLines) /\ n \in Nat /\ DOMAIN L = 1..n
  BY FileTypes
<1>2. CASE Open
  <2>1. n > 0 /\ n \in 1..n /\ L[n] \in FileLines
    BY <1>1, <1>2 DEF Open, Last
  <2>2. CloseLine = [L EXCEPT ![n].closed = TRUE]
    BY <1>2 DEF CloseLine
  <2>3. [L[n] EXCEPT !.closed = TRUE] \in FileLines
    BY <2>1 DEF FileLines
  <2>4. CloseLine \in Seq(FileLines) /\ Len(CloseLine) = n
    BY <1>1, <2>1, <2>2, <2>3
  <2>5. CloseLine[n].closed /\ CloseLine[n].items = L[n].items
    BY <1>1, <2>1, <2>2 DEF FileLines
  <2>6. \A i \in 1..n : i # n => CloseLine[i] = L[i] /\ L[i].closed
    BY <1>1, <2>2 DEF OnlyLastIsOpen
  <2> QED BY <1>1, <2>4, <2>5, <2>6
<1>3. CASE ~Open
  <2>1. \A i \in 1..n : L[i].closed
    <3>1. SUFFICES ASSUME NEW i \in 1..n, ~L[i].closed PROVE FALSE
      OBVIOUS
    <3>2. i = n /\ L # <<>>
      BY <1>1, <3>1 DEF OnlyLastIsOpen
    <3> QED BY <1>3, <3>1, <3>2 DEF Open, Last
  <2>2. CloseLine = Append(L, Line(<<>>, TRUE))
    BY <1>3 DEF CloseLine
  <2>3. Line(<<>>, TRUE) \in FileLines /\ Line(<<>>, TRUE).closed /\ Line(<<>>, TRUE).items = <<>>
    BY DEF Line, FileLines
  <2>4. /\ CloseLine \in Seq(FileLines) /\ Len(CloseLine) = n + 1
        /\ \A i \in 1..n : CloseLine[i] = L[i]
        /\ CloseLine[n + 1] = Line(<<>>, TRUE)
    <3> DEFINE e == Line(<<>>, TRUE)
    <3>1. e \in FileLines /\ CloseLine = Append(L, e)
      BY <2>2, <2>3
    <3> HIDE DEF e, L
    <3>2. /\ Append(L, e) \in Seq(FileLines) /\ Len(Append(L, e)) = Len(L) + 1
          /\ \A i \in 1..Len(L) : Append(L, e)[i] = L[i]
          /\ Append(L, e)[Len(L) + 1] = e
      BY <1>1, <3>1, AppendProperties
    <3> QED BY <3>1, <3>2 DEF e
  <2>5. \A i \in 1..(n + 1) : i \in 1..n \/ i = n + 1
    BY <1>1
  <2>6. \A i \in 1..(n + 1) : CloseLine[i].closed
    BY <2>1, <2>3, <2>4, <2>5
  <2> QED BY <1>1, <2>3, <2>4, <2>6
<1> QED BY <1>2, <1>3

\* What read_all returns: the record of each line that is understood, once.
LEMMA ReadAllIs ==
    ASSUME FilesTypeOK
    PROVE  /\ read_all \in Seq(FileRecords) /\ Len(read_all) \in Nat
           /\ DOMAIN read_all = 1..Len(read_all)
           /\ \A k \in 1..Len(read_all) : \E i \in Readable : read_all[k] = RecordAt(i)
           /\ \A i \in Readable : \E k \in 1..Len(read_all) : read_all[k] = RecordAt(i)
           /\ EachOnce => IsInjective(read_all)
<1> DEFINE ls == Pick(disk.lines, Readable)
           m == Cardinality(Readable)
<1>1. Readable \in SUBSET DOMAIN disk.lines /\ disk.lines \in Seq(FileLines)
  BY FileTypes DEF Readable
<1>2. /\ Readable \in SUBSET Int /\ IsFiniteSet(Readable) /\ m \in Nat /\ DOMAIN ls = 1..m
      /\ \A k \in 1..m : Kth(Readable, k) \in Readable /\ ls[k] = disk.lines[Kth(Readable, k)]
  BY <1>1, PickIs
<1>3. read_all = [k \in DOMAIN ls |-> ls[k].items[1]]
  BY DEF read_all
<1>4. DOMAIN read_all = 1..m /\ \A k \in 1..m : read_all[k] = RecordAt(Kth(Readable, k))
  <2> HIDE DEF ls, m
  <2> QED BY <1>2, <1>3 DEF RecordAt
<1>5. \A i \in Readable : RecordAt(i) \in FileRecords
  <2>1. ASSUME NEW i \in Readable PROVE RecordAt(i) \in FileRecords
    <3>1. disk.lines[i] \in FileLines /\ Understood(disk.lines[i])
      BY <1>1, FileTypes DEF Readable
    <3>2. disk.lines[i].items \in Seq(0..(MaxPens + 1)) /\ Len(disk.lines[i].items) = 1
          /\ disk.lines[i].items[1] # 0
      BY <3>1 DEF FileLines, Understood, Cut
    <3>3. disk.lines[i].items[1] \in 0..(MaxPens + 1)
      BY <3>2, FirstIs
    <3> QED BY <3>2, <3>3, PensAssumption DEF RecordAt, FileRecords
  <2> QED BY <2>1
<1>6. read_all \in [1..m -> FileRecords]
  <2>1. \A k \in 1..m : RecordAt(Kth(Readable, k)) \in FileRecords
    BY <1>2, <1>5
  <2>2. read_all = [k \in 1..m |-> read_all[k]]
    BY <1>2, <1>3
  <2> HIDE DEF m
  <2> QED BY <1>4, <2>1, <2>2
<1>7. read_all \in Seq(FileRecords) /\ Len(read_all) = m
  BY <1>2, <1>6
<1>8. \A i \in Readable : Rank(Readable, i) \in 1..m /\ Kth(Readable, Rank(Readable, i)) = i
  BY <1>2, KthPlace
<1>9. ASSUME NEW i \in Readable PROVE \E k \in 1..m : read_all[k] = RecordAt(i)
  BY <1>4, <1>8
<1>10. ASSUME EachOnce PROVE IsInjective(read_all)
  <2>1. \A k, l \in 1..m : k < l <=> Kth(Readable, k) < Kth(Readable, l)
    BY <1>2, KthPlace
  <2>2. ASSUME NEW k \in 1..m, NEW l \in 1..m, read_all[k] = read_all[l] PROVE k = l
    <3>1. Kth(Readable, k) = Kth(Readable, l) /\ Kth(Readable, k) \in Int
      <4>1. Kth(Readable, k) \in Readable /\ Kth(Readable, l) \in Readable
        BY <1>2
      <4>2. RecordAt(Kth(Readable, k)) = RecordAt(Kth(Readable, l))
        BY <1>4, <2>2
      <4>3. \A i, j \in Readable : RecordAt(i) = RecordAt(j) => i = j
        BY <1>10 DEF EachOnce
      <4> HIDE DEF m
      <4> QED BY ONLY <1>2, <4>1, <4>2, <4>3
    <3>2. ~(k < l) /\ ~(l < k) /\ k \in Int /\ l \in Int
      BY <1>2, <2>1, <3>1
    <3> QED BY <3>2
  <2> QED BY <1>4, <2>2 DEF IsInjective
<1> QED BY <1>2, <1>4, <1>7, <1>9, <1>10

\* A line of the new file is an old one, or the one that was added.
LEMMA PutStep ==
    ASSUME FilesTypeOK, OnlyLastIsOpen, NEW r \in 0..(MaxPens + 1), NEW closed \in BOOLEAN,
           disk' = [disk EXCEPT !.lines = Put(r, closed)]
    PROVE  /\ disk' \in [kind : {disk.kind}, lines : Seq(FileLines)]
           /\ DOMAIN disk'.lines = 1..Len(disk'.lines) /\ Len(disk'.lines) >= Len(disk.lines)
           /\ OnlyLastIsOpen'
           /\ \A i \in Readable' : \/ i \in Readable /\ disk'.lines[i] = disk.lines[i]
                                   \/ i = Len(disk.lines) + 1 /\ r # Cut
           /\ \A i \in 1..Len(disk.lines) : disk.lines[i].closed =>
                i \in 1..Len(disk'.lines) /\ disk'.lines[i] = disk.lines[i]
           /\ ~Open => /\ Len(disk.lines) + 1 \in 1..Len(disk'.lines)
                       /\ disk'.lines[Len(disk.lines) + 1] = Line(<<r>>, closed)
           /\ Open => Len(disk'.lines) = Len(disk.lines)
<1> DEFINE L == disk.lines
           M == Put(r, closed)
           n == Len(L)
<1>1. L \in Seq(FileLines) /\ n \in Nat /\ DOMAIN L = 1..n
  BY FileTypes
<1>2. /\ M \in Seq(FileLines)
      /\ Open => /\ n > 0 /\ ~L[n].closed
                 /\ Len(M) = n
                 /\ \A i \in 1..(n - 1) : M[i] = L[i]
                 /\ M[n].closed = closed
                 /\ M[n].items # <<>>
                 /\ ~Understood(M[n])
      /\ ~Open => /\ \A i \in 1..n : L[i].closed
                  /\ Len(M) = n + 1
                  /\ \A i \in 1..n : M[i] = L[i]
                  /\ M[n + 1] = Line(<<r>>, closed)
  BY PutIs
<1>3. disk' \in [kind : {disk.kind}, lines : Seq(FileLines)] /\ disk'.lines = M
  BY <1>2 DEF FilesTypeOK
<1>4. /\ Line(<<r>>, closed).items # <<>> /\ Line(<<r>>, closed).closed = closed
      /\ r = Cut => ~Understood(Line(<<r>>, closed))
  <2>1. <<r>> # <<>>
    OBVIOUS
  <2> QED BY <2>1, LineIs
<1> HIDE DEF M
<1>5. DOMAIN M = 1..Len(M) /\ Len(M) \in Nat
  BY <1>2
<1>6. /\ Readable' = {i \in DOMAIN M : Understood(M[i])}
      /\ Readable = {i \in DOMAIN L : Understood(L[i])}
  BY <1>3 DEF Readable
<1>7. /\ OnlyLastIsOpen' <=> \A i \in DOMAIN M : ~M[i].closed => i = Len(M) /\ M[i].items # <<>>
      /\ \A i \in DOMAIN L : ~L[i].closed => i = Len(L) /\ L[i].items # <<>>
  BY <1>3 DEF OnlyLastIsOpen
<1> HIDE DEF L
<1>8. CASE Open
  <2>0. n \in Nat /\ n > 0 /\ Len(M) = n /\ DOMAIN M = 1..n /\ DOMAIN L = 1..n
    BY <1>1, <1>2, <1>5, <1>8
  <2>1. \A i \in 1..n : i = n \/ M[i] = L[i]
    BY <1>2, <1>8, <2>0
  <2>2. OnlyLastIsOpen'
    BY <1>2, <1>7, <1>8, <2>0, <2>1
  <2>3. \A i \in Readable' : i \in Readable /\ M[i] = L[i]
    BY <1>2, <1>6, <1>8, <2>0, <2>1
  <2>4. \A i \in 1..n : L[i].closed => M[i] = L[i]
    BY <1>2, <1>8, <2>0, <2>1
  <2> HIDE DEF n
  <2> QED BY <1>3, <1>8, <2>0, <2>2, <2>3, <2>4 DEF L, n
<1>9. CASE ~Open
  <2>0. n \in Nat /\ Len(M) = n + 1 /\ DOMAIN M = 1..(n + 1) /\ DOMAIN L = 1..n
    BY <1>1, <1>2, <1>5, <1>9
  <2>6. \A i \in 1..n : M[i] = L[i]
    <3> HIDE DEF n
    <3> QED BY ONLY <1>2, <1>9
  <2>7. M[n + 1] = Line(<<r>>, closed)
    <3> HIDE DEF n
    <3> QED BY ONLY <1>2, <1>9
  <2>1. \A i \in 1..(n + 1) : (i \in 1..n /\ M[i] = L[i]) \/ i = n + 1
    BY <2>0, <2>6
  <2>2. OnlyLastIsOpen'
    BY <1>2, <1>4, <1>7, <1>9, <2>0, <2>1
  <2>3. \A i \in Readable' : (i \in Readable /\ M[i] = L[i]) \/ (i = n + 1 /\ r # Cut)
    BY <1>2, <1>4, <1>6, <1>9, <2>0, <2>1
  <2>4. \A i \in 1..n : i \in 1..(n + 1) /\ M[i] = L[i]
    BY <2>0, <2>6
  <2>5. n + 1 \in 1..(n + 1) /\ M[n + 1] = Line(<<r>>, closed)
    BY <2>0, <2>7
  <2> HIDE DEF n
  <2> QED BY <1>3, <1>9, <2>0, <2>2, <2>3, <2>4, <2>5 DEF L, n
<1> QED BY <1>8, <1>9

FilePens == [pc : {"idle", "half", "done", "dead"}, session : 1..2, alone : BOOLEAN]

\* The type invariant, variable by variable.
LEMMA FilesTypeParts ==
    FilesTypeOK <=> /\ disk \in [kind : {"markers", "settings", "audit"}, lines : Seq(FileLines)]
                    /\ pens \in [Pens -> FilePens]
                    /\ job \in [pc : {"idle", "read", "temp", "rewrite"}, base : Seq(FileRecords), at : Nat,
                                lost : SUBSET FileRecords, jobs : Nat]
BY DEF FilesTypeOK, FileLines, FileRecords, FilePens

\* A pen writes its own record, which is neither a cut line nor the hook.
LEMMA PenIsRecord ==
    ASSUME NEW p \in Pens PROVE p \in FileRecords /\ p \in 0..(MaxPens + 1) /\ p # Cut /\ p # Hook
BY PensAssumption DEF Pens, FileRecords, Cut, Hook

\* A hook process writes its record ...
LEMMA FilesWriteRecord ==
    ASSUME FilesInv, NEW p \in Pens, WriteRecord(p)
    PROVE  FilesInv'
<1> DEFINE n == Len(disk.lines)
<1>1. /\ FilesTypeOK /\ OnlyLastIsOpen /\ EachOnce /\ MarkersInv /\ BaseInv
      /\ disk.kind = "markers" /\ job.pc = "idle" /\ job' = job
  BY DEF FilesInv, MarkersInv, WriteRecord
<1>2. /\ disk' \in [kind : {disk.kind}, lines : Seq(FileLines)]
      /\ DOMAIN disk'.lines = 1..Len(disk'.lines) /\ Len(disk'.lines) >= n
      /\ OnlyLastIsOpen'
      /\ \A i \in Readable' : (i \in Readable /\ disk'.lines[i] = disk.lines[i]) \/ i = n + 1
      /\ \A i \in 1..n : disk.lines[i].closed => i \in 1..Len(disk'.lines) /\ disk'.lines[i] = disk.lines[i]
      /\ ~Open => n + 1 \in 1..Len(disk'.lines) /\ disk'.lines[n + 1] = Line(<<p>>, FALSE)
      /\ Open => Len(disk'.lines) = n
  BY <1>1, PutStep, PenIsRecord DEF WriteRecord
<1>3. /\ pens' \in [Pens -> FilePens]
      /\ \A q \in Pens : pens[q].pc # "idle" => pens'[q].pc # "idle"
      /\ pens'[p].pc = "half" /\ pens'[p].alone = ~Open
      /\ \A q \in Pens : q # p /\ pens'[q].alone /\ pens'[q].pc \in {"half", "done"} =>
           pens[q].alone /\ pens[q].pc = "done" /\ pens'[q].pc = "done"
  <2>1. pens \in [Pens -> FilePens] /\ (~Open) \in BOOLEAN
    BY <1>1, FilesTypeParts DEF Open
  <2>2. pens' = [q \in Pens |->
                  IF q = p THEN [pens[q] EXCEPT !.pc = "half", !.alone = ~Open]
                  ELSE IF pens[q].pc \in {"half", "dead"} THEN [pens[q] EXCEPT !.alone = FALSE]
                  ELSE pens[q]]
    BY DEF WriteRecord
  <2>3. \A q \in Pens : pens'[q] \in FilePens /\ (pens[q].pc # "idle" => pens'[q].pc # "idle")
    BY <2>1, <2>2 DEF FilePens
  <2>4. pens'[p].pc = "half" /\ pens'[p].alone = ~Open
    BY <2>1, <2>2 DEF FilePens
  <2>5. ASSUME NEW q \in Pens, q # p, pens'[q].alone, pens'[q].pc \in {"half", "done"}
        PROVE  pens[q].alone /\ pens[q].pc = "done" /\ pens'[q].pc = "done"
    <3>1. pens[q].pc \notin {"half", "dead"}
      BY <2>1, <2>2, <2>5 DEF FilePens
    <3>2. pens'[q] = pens[q]
      BY <2>2, <2>5, <3>1
    <3> QED BY <2>1, <2>5, <3>1, <3>2
  <2>6. pens' \in [Pens -> FilePens]
    BY <2>2, <2>3
  <2> QED BY <2>3, <2>4, <2>5, <2>6
<1>4. n \in Nat /\ DOMAIN disk.lines = 1..n /\ Readable \in SUBSET (1..n)
  BY <1>1, FileTypes DEF Readable
<1>5. /\ Line(<<p>>, FALSE).items = <<p>> /\ Line(<<p>>, FALSE).items[1] = p
  BY PenIsRecord, LineIs
<1>6. \A i \in Readable' : \/ i \in Readable /\ RecordAt(i)' = RecordAt(i)
                           \/ i = n + 1 /\ RecordAt(i)' = p
  <2>1. \A i \in Readable' : i \in 1..Len(disk'.lines)
    BY <1>2 DEF Readable
  <2>2. ASSUME NEW i \in Readable', i = n + 1 PROVE RecordAt(i)' = p
    <3>1. ~Open
      <4>1. i \in 1..Len(disk'.lines)
        BY <2>1
      <4> HIDE DEF n
      <4> QED BY <1>2, <1>4, <2>2, <4>1
    <3> QED BY <1>2, <1>5, <2>2, <3>1 DEF RecordAt
  <2>3. ASSUME NEW i \in Readable', i # n + 1 PROVE i \in Readable /\ RecordAt(i)' = RecordAt(i)
    BY <1>2, <2>3 DEF RecordAt
  <2> QED BY <2>2, <2>3
<1>7. \A i \in Readable : RecordAt(i) # p
  BY <1>1 DEF EachOnce, WriteRecord
<1>8. FilesTypeOK'
  BY <1>1, <1>2, <1>3, FilesTypeParts DEF FilesTypeOK, FileLines, FilePens
<1>9. EachOnce'
  <2>1. ASSUME NEW i \in Readable', NEW j \in Readable', RecordAt(i)' = RecordAt(j)' PROVE i = j
    BY <1>1, <1>6, <1>7, <2>1 DEF EachOnce
  <2>2. ASSUME NEW i \in Readable', RecordAt(i)' \in Pens PROVE pens'[RecordAt(i)'].pc # "idle"
    BY <1>1, <1>3, <1>6, <2>2 DEF EachOnce
  <2> QED BY <2>1, <2>2 DEF EachOnce
<1>10. MarkersInv'
  <2>1. ASSUME NEW q \in Pens, pens'[q].alone, pens'[q].pc \in {"half", "done"}
        PROVE  \E i \in DOMAIN disk'.lines :
                 disk'.lines[i].items = <<q>> /\ (disk'.lines[i].closed \/ pens'[q].pc = "half")
    <3>1. CASE q = p
      <4>1. ~Open
        BY <1>3, <2>1, <3>1
      <4> QED BY <1>2, <1>3, <1>5, <3>1, <4>1, ZenonT(40)
    <3>2. CASE q # p
      <4>1. pens[q].alone /\ pens[q].pc = "done"
        BY <1>3, <2>1, <3>2
      <4>2. PICK i \in 1..n : disk.lines[i].items = <<q>> /\ disk.lines[i].closed
        BY <1>1, <1>4, <4>1 DEF MarkersInv
      <4> QED BY <1>2, <4>2
    <3> QED BY <3>1, <3>2
  <2> QED BY <1>1, <1>2, <2>1 DEF MarkersInv
<1>11. LinesInv' /\ RewriteInv' /\ KeptInv'
  BY <1>1, <1>2 DEF LinesInv, RewriteInv, KeptInv
<1>12. BaseInv'
  BY <1>1, <1>3 DEF BaseInv
<1> QED BY <1>2, <1>8, <1>9, <1>10, <1>11, <1>12 DEF FilesInv

\* ... and its newline.
LEMMA FilesWriteNewline ==
    ASSUME FilesInv, NEW p \in Pens, WriteNewline(p)
    PROVE  FilesInv'
<1> DEFINE n == Len(disk.lines)
           M == CloseLine
<1>1. /\ FilesTypeOK /\ OnlyLastIsOpen /\ EachOnce /\ MarkersInv /\ BaseInv
      /\ disk.kind = "markers" /\ job.pc = "idle" /\ job' = job
  BY DEF FilesInv, MarkersInv, LinesInv, WriteNewline
<1>2. /\ M \in Seq(FileLines) /\ Len(M) \in {n, n + 1}
      /\ \A i \in 1..n : M[i].items = disk.lines[i].items
      /\ \A i \in 1..Len(M) : M[i].closed
      /\ Len(M) = n + 1 => M[n + 1].items = <<>>
  BY <1>1, CloseLineIs
<1>3. disk' \in [kind : {disk.kind}, lines : Seq(FileLines)] /\ disk'.lines = M
  BY <1>1, <1>2, FilesTypeParts DEF WriteNewline
<1>4. /\ pens' \in [Pens -> FilePens]
      /\ \A q \in Pens : pens'[q].alone = pens[q].alone
      /\ \A q \in Pens : q # p => pens'[q].pc = pens[q].pc
      /\ pens[p].pc = "half" /\ pens'[p].pc = "done"
  BY <1>1, FilesTypeParts DEF WriteNewline, FilePens
<1>5. n \in Nat /\ DOMAIN disk.lines = 1..n /\ Readable \in SUBSET (1..n)
  BY <1>1, FileTypes DEF Readable
<1>6. Len(M) \in Nat /\ DOMAIN M = 1..Len(M) /\ 1..n \in SUBSET (1..Len(M))
  BY <1>2, <1>5
<1> HIDE DEF M
<1>7. Readable' = Readable /\ \A i \in Readable : RecordAt(i)' = RecordAt(i)
  <2>1. Readable' = {i \in 1..Len(M) : Understood(M[i])} /\ Readable = {i \in 1..n : Understood(disk.lines[i])}
    BY <1>3, <1>5, <1>6 DEF Readable
  <2>2. \A i \in 1..n : Understood(M[i]) <=> Understood(disk.lines[i])
    BY <1>2 DEF Understood
  <2>3. \A i \in 1..Len(M) : i \in 1..n \/ ~Understood(M[i])
    <3>1. Len(<<>>) = 0
      OBVIOUS
    <3>2. \A i \in 1..Len(M) : i \in 1..n \/ (Len(M) = n + 1 /\ i = n + 1)
      <4> HIDE DEF n
      <4> QED BY <1>2, <1>5
    <3> HIDE DEF n
    <3> QED BY <1>2, <3>1, <3>2 DEF Understood
  <2>4. Readable' = Readable
    BY <1>6, <2>1, <2>2, <2>3
  <2>5. \A i \in Readable : RecordAt(i)' = RecordAt(i)
    BY <1>2, <1>3, <1>5 DEF RecordAt
  <2> QED BY <2>4, <2>5
<1>8. FilesTypeOK'
  BY <1>1, <1>3, <1>4, FilesTypeParts DEF FilesTypeOK, FileLines, FilePens
<1>9. OnlyLastIsOpen'
  BY <1>2, <1>3, <1>6 DEF OnlyLastIsOpen
<1>10. EachOnce'
  <2>1. \A q \in Pens : pens[q].pc # "idle" => pens'[q].pc # "idle"
    BY <1>4
  <2> QED BY <1>1, <1>7, <2>1 DEF EachOnce
<1>11. MarkersInv'
  <2>1. ASSUME NEW q \in Pens, pens'[q].alone, pens'[q].pc \in {"half", "done"}
        PROVE  \E i \in DOMAIN disk'.lines :
                 disk'.lines[i].items = <<q>> /\ (disk'.lines[i].closed \/ pens'[q].pc = "half")
    <3>1. pens[q].alone /\ pens[q].pc \in {"half", "done"}
      BY <1>4, <2>1
    <3>2. PICK i \in 1..n : disk.lines[i].items = <<q>>
      BY <1>1, <1>5, <3>1 DEF MarkersInv
    <3>3. i \in 1..Len(M) /\ M[i].items = <<q>> /\ M[i].closed
      BY <1>2, <1>6, <3>2
    <3> QED BY <1>3, <1>6, <3>3
  <2> QED BY <1>1, <1>3, <2>1 DEF MarkersInv
<1>12. LinesInv' /\ RewriteInv' /\ KeptInv'
  BY <1>1, <1>3 DEF LinesInv, RewriteInv, KeptInv
<1>13. BaseInv'
  BY <1>1, <1>4 DEF BaseInv
<1> QED BY <1>8, <1>9, <1>10, <1>11, <1>12, <1>13 DEF FilesInv

\* It is killed between the two.
LEMMA FilesKillPen ==
    ASSUME FilesInv, NEW p \in Pens, KillPen(p)
    PROVE  FilesInv'
<1>1. /\ FilesTypeOK /\ OnlyLastIsOpen /\ EachOnce /\ MarkersInv /\ LinesInv /\ BaseInv /\ RewriteInv /\ KeptInv
      /\ disk.kind = "markers" /\ job.pc = "idle" /\ job' = job /\ disk' = disk
  BY DEF FilesInv, MarkersInv, LinesInv, KillPen
<1>2. /\ pens' \in [Pens -> FilePens]
      /\ \A q \in Pens : pens'[q].alone = pens[q].alone
      /\ \A q \in Pens : q # p => pens'[q].pc = pens[q].pc
      /\ pens[p].pc = "half" /\ pens'[p].pc = "dead"
  BY <1>1, FilesTypeParts DEF KillPen, FilePens
<1>3. Readable' = Readable /\ \A i : RecordAt(i)' = RecordAt(i)
  BY <1>1 DEF Readable, RecordAt
<1>4. FilesTypeOK'
  BY <1>1, <1>2 DEF FilesTypeOK, FilePens
<1>5. OnlyLastIsOpen' /\ LinesInv' /\ RewriteInv' /\ KeptInv'
  BY <1>1 DEF OnlyLastIsOpen, LinesInv, RewriteInv, KeptInv
<1>6. EachOnce'
  <2>1. \A q \in Pens : pens[q].pc # "idle" => pens'[q].pc # "idle"
    BY <1>2
  <2> QED BY <1>1, <1>3, <2>1 DEF EachOnce
<1>7. MarkersInv'
  BY <1>1, <1>2 DEF MarkersInv
<1>8. BaseInv'
  BY <1>1, <1>2 DEF BaseInv
<1> QED BY <1>4, <1>5, <1>6, <1>7, <1>8 DEF FilesInv

\* A pen that writes beside a rewrite may be lost by it, and nothing else changes.
LEMMA RisksIs ==
    ASSUME FilesTypeOK, NEW p \in Pens, Risks(p)
    PROVE  /\ job' \in [pc : {job.pc}, base : {job.base}, at : {job.at}, lost : SUBSET FileRecords, jobs : {job.jobs}]
           /\ job.lost \in SUBSET job'.lost
           /\ job.pc # "idle" => p \in job'.lost
<1>1. p \in FileRecords
  BY PenIsRecord
<1> QED BY <1>1, FilesTypeParts DEF Risks, Rewriting

\* Claude edits its settings.
LEMMA FilesEditSettings ==
    ASSUME FilesInv, NEW p \in Pens, EditSettings(p)
    PROVE  FilesInv'
<1> DEFINE n == Len(disk.lines)
<1>1. /\ FilesTypeOK /\ OnlyLastIsOpen /\ EachOnce /\ LinesInv /\ BaseInv /\ KeptInv
      /\ disk.kind = "settings" /\ pens[p].pc = "idle" /\ Risks(p) /\ job.pc # "rewrite"
  BY DEF FilesInv, LinesInv, EditSettings
<1>2. n \in Nat /\ DOMAIN disk.lines = 1..n /\ Readable \in SUBSET (1..n)
  BY <1>1, FileTypes DEF Readable
<1>3. ~Open
  <2>1. ASSUME Open PROVE FALSE
    <3>1. n \in 1..n /\ ~disk.lines[n].closed
      BY <1>2, <2>1, <1>1, FileTypes DEF Open, Last
    <3> QED BY <1>1, <1>2, <3>1 DEF LinesInv
  <2> QED BY <2>1
<1>4. /\ disk' \in [kind : {disk.kind}, lines : Seq(FileLines)]
      /\ DOMAIN disk'.lines = 1..Len(disk'.lines) /\ Len(disk'.lines) >= n
      /\ OnlyLastIsOpen'
      /\ \A i \in Readable' : (i \in Readable /\ disk'.lines[i] = disk.lines[i]) \/ i = n + 1
      /\ \A i \in 1..n : disk.lines[i].closed => i \in 1..Len(disk'.lines) /\ disk'.lines[i] = disk.lines[i]
      /\ n + 1 \in 1..Len(disk'.lines) /\ disk'.lines[n + 1] = Line(<<p>>, TRUE)
      /\ Len(disk'.lines) = n + 1
  <2>1. /\ disk' \in [kind : {disk.kind}, lines : Seq(FileLines)]
        /\ DOMAIN disk'.lines = 1..Len(disk'.lines) /\ Len(disk'.lines) >= n
        /\ OnlyLastIsOpen'
        /\ \A i \in Readable' : (i \in Readable /\ disk'.lines[i] = disk.lines[i]) \/ i = n + 1
        /\ \A i \in 1..n : disk.lines[i].closed => i \in 1..Len(disk'.lines) /\ disk'.lines[i] = disk.lines[i]
        /\ n + 1 \in 1..Len(disk'.lines) /\ disk'.lines[n + 1] = Line(<<p>>, TRUE)
    BY <1>1, <1>3, PutStep, PenIsRecord DEF EditSettings
  <2>2. disk'.lines = Put(p, TRUE)
    BY <1>1, FilesTypeParts DEF EditSettings
  <2>3. Len(Put(p, TRUE)) = n + 1
    BY <1>1, <1>3, PutIs, PenIsRecord
  <2> QED BY <2>1, <2>2, <2>3
<1>5. /\ Line(<<p>>, TRUE).closed /\ Line(<<p>>, TRUE).items[1] = p /\ Understood(Line(<<p>>, TRUE))
  BY PenIsRecord, LineIs
<1>6. /\ \E k \in Readable' : k = n + 1 /\ RecordAt(k)' = p
      /\ \A i \in Readable : i \in Readable' /\ RecordAt(i)' = RecordAt(i)
      /\ \A i \in Readable' : (i \in Readable /\ RecordAt(i)' = RecordAt(i)) \/ (i = n + 1 /\ RecordAt(i)' = p)
  <2>1. \E k \in Readable' : k = n + 1 /\ RecordAt(k)' = p
    <3>1. n + 1 \in DOMAIN disk'.lines /\ Understood(disk'.lines[n + 1]) /\ disk'.lines[n + 1].items[1] = p
      BY <1>4, <1>5
    <3> HIDE DEF n
    <3> QED BY <3>1 DEF Readable, RecordAt
  <2>2. ASSUME NEW i \in Readable PROVE i \in Readable' /\ RecordAt(i)' = RecordAt(i)
    <3>1. i \in 1..Len(disk'.lines) /\ disk'.lines[i] = disk.lines[i]
      BY <1>1, <1>2, <1>4 DEF LinesInv
    <3> QED BY <1>4, <3>1 DEF Readable, RecordAt
  <2>3. ASSUME NEW i \in Readable', i # n + 1 PROVE i \in Readable /\ RecordAt(i)' = RecordAt(i)
    BY <1>4, <2>3 DEF RecordAt
  <2> QED BY <2>1, <2>2, <2>3
<1>7. /\ pens' \in [Pens -> FilePens]
      /\ \A q \in Pens : q # p => pens'[q] = pens[q]
      /\ pens'[p].pc = "done"
  BY <1>1, FilesTypeParts DEF EditSettings, FilePens
<1>8. /\ job' \in [pc : {job.pc}, base : {job.base}, at : {job.at}, lost : SUBSET FileRecords, jobs : {job.jobs}]
      /\ job.lost \in SUBSET job'.lost
      /\ job.pc # "idle" => p \in job'.lost
  BY <1>1, RisksIs
<1>9. \A i \in Readable : RecordAt(i) # p
  BY <1>1 DEF EachOnce
<1>10. FilesTypeOK'
  <2>1. /\ disk' \in [kind : {"markers", "settings", "audit"}, lines : Seq(FileLines)]
        /\ job' \in [pc : {"idle", "read", "temp", "rewrite"}, base : Seq(FileRecords), at : Nat,
                     lost : SUBSET FileRecords, jobs : Nat]
    BY <1>1, <1>4, <1>8, FilesTypeParts
  <2> QED BY <1>7, <2>1 DEF FilesTypeOK, FileLines, FilePens, FileRecords
<1>11. EachOnce'
  <2>1. ASSUME NEW i \in Readable', NEW j \in Readable', RecordAt(i)' = RecordAt(j)' PROVE i = j
    BY <1>1, <1>6, <1>9, <2>1 DEF EachOnce
  <2>2. ASSUME NEW i \in Readable', RecordAt(i)' \in Pens PROVE pens'[RecordAt(i)'].pc # "idle"
    BY <1>1, <1>6, <1>7, <2>2 DEF EachOnce
  <2> QED BY <2>1, <2>2 DEF EachOnce
<1>12. MarkersInv' /\ RewriteInv'
  BY <1>1, <1>4, <1>8 DEF MarkersInv, RewriteInv
<1>13. LinesInv'
  <2>1. \A q \in Pens : pens'[q].pc # "half"
    BY <1>1, <1>7 DEF LinesInv
  <2>2. ASSUME NEW i \in DOMAIN disk'.lines PROVE i \in Readable' /\ disk'.lines[i].closed
    <3>1. i \in 1..n \/ i = n + 1
      BY <1>2, <1>4
    <3>2. CASE i \in 1..n
      BY <1>1, <1>2, <1>4, <1>6, <3>2 DEF LinesInv
    <3>3. CASE i = n + 1
      BY <1>4, <1>5, <1>6, <3>3
    <3> QED BY <3>1, <3>2, <3>3
  <2> QED BY <1>1, <1>4, <1>8, <2>1, <2>2 DEF LinesInv
<1>14. BaseInv'
  <2>1. IsInjective(job'.base) /\ job'.base = job.base /\ (job'.pc = "read" => job'.at = 1)
    BY <1>1, <1>8 DEF BaseInv
  <2>2. \A k \in DOMAIN job'.base : job'.base[k] \in Pens => pens'[job'.base[k]].pc # "idle"
    BY <1>1, <1>7, <2>1 DEF BaseInv
  <2>3. ASSUME job'.pc # "idle", NEW q \in Pens, pens'[q].pc = "done", pens'[q].alone
        PROVE  q \in ToSet(job'.base) \cup job'.lost
    BY <1>1, <1>7, <1>8, <2>1, <2>3 DEF BaseInv
  <2> QED BY <2>1, <2>2, <2>3 DEF BaseInv
<1>15. KeptInv'
  <2>1. ASSUME NEW q \in Pens, pens'[q].pc = "done", pens'[q].alone
        PROVE  q \in job'.lost \/ \E i \in Readable' : RecordAt(i)' = q
    <3>1. CASE q = p
      BY <1>6, <3>1
    <3>2. CASE q # p
      <4>1. q \in job.lost \/ \E i \in Readable : RecordAt(i) = q
        BY <1>1, <1>7, <2>1, <3>2 DEF KeptInv
      <4> QED BY <1>6, <1>8, <4>1
    <3> QED BY <3>1, <3>2
  <2> QED BY <2>1 DEF KeptInv
<1> QED BY <1>4, <1>10, <1>11, <1>12, <1>13, <1>14, <1>15 DEF FilesInv

\* The daemon appends to the audit.
LEMMA FilesAppend ==
    ASSUME FilesInv, NEW p \in Pens, NEW cut \in BOOLEAN, append(p, cut)
    PROVE  FilesInv'
<1> DEFINE n == Len(disk.lines)
           r == IF cut THEN Cut ELSE p
<1>1. /\ FilesTypeOK /\ OnlyLastIsOpen /\ EachOnce /\ LinesInv /\ BaseInv /\ RewriteInv /\ KeptInv
      /\ disk.kind = "audit" /\ pens[p].pc = "idle" /\ Risks(p) /\ job.pc # "temp"
  BY DEF FilesInv, LinesInv, append
<1>2. n \in Nat /\ DOMAIN disk.lines = 1..n /\ Readable \in SUBSET (1..n)
  BY <1>1, FileTypes DEF Readable
<1>3. r \in 0..(MaxPens + 1) /\ (r # Cut <=> ~cut) /\ (~cut => r = p)
  <2>1. CASE cut
    <3>1. r = 0 /\ Cut = 0
      BY <2>1 DEF Cut
    <3> QED BY <2>1, <3>1, PensAssumption
  <2>2. CASE ~cut
    <3>1. r = p
      BY <2>2
    <3> QED BY <2>2, <3>1, PenIsRecord
  <2> QED BY <2>1, <2>2
<1>4. /\ disk' \in [kind : {disk.kind}, lines : Seq(FileLines)]
      /\ DOMAIN disk'.lines = 1..Len(disk'.lines) /\ Len(disk'.lines) >= n
      /\ OnlyLastIsOpen'
      /\ \A i \in Readable' : \/ i \in Readable /\ disk'.lines[i] = disk.lines[i]
                              \/ i = n + 1 /\ r # Cut
      /\ \A i \in 1..n : disk.lines[i].closed => i \in 1..Len(disk'.lines) /\ disk'.lines[i] = disk.lines[i]
      /\ ~Open => n + 1 \in 1..Len(disk'.lines) /\ disk'.lines[n + 1] = Line(<<r>>, ~cut)
      /\ Open => Len(disk'.lines) = n
  <2>1. disk' = [disk EXCEPT !.lines = Put(r, ~cut)] /\ (~cut) \in BOOLEAN
    BY DEF append
  <2> HIDE DEF r
  <2> QED BY <1>1, <1>3, <2>1, PutStep
<1>5. /\ ~cut => Line(<<r>>, ~cut).closed /\ Line(<<r>>, ~cut).items[1] = p /\ Understood(Line(<<r>>, ~cut))
  <2> HIDE DEF r
  <2> QED BY <1>3, PenIsRecord, LineIs
<1> HIDE DEF r
<1>6. /\ ~cut /\ ~Open => \E k \in Readable' : k = n + 1 /\ RecordAt(k)' = p
      /\ \A i \in Readable : i \in Readable' /\ RecordAt(i)' = RecordAt(i) /\ disk'.lines[i].closed
      /\ \A i \in Readable' :
           \/ i \in Readable /\ RecordAt(i)' = RecordAt(i)
           \/ i = n + 1 /\ RecordAt(i)' = p /\ disk'.lines[i].closed
  <2>1. ASSUME ~cut, ~Open PROVE \E k \in Readable' : k = n + 1 /\ RecordAt(k)' = p
    <3>1. n + 1 \in DOMAIN disk'.lines /\ Understood(disk'.lines[n + 1]) /\ disk'.lines[n + 1].items[1] = p
      BY <1>4, <1>5, <2>1
    <3> HIDE DEF n
    <3> QED BY <3>1 DEF Readable, RecordAt
  <2>2. ASSUME NEW i \in Readable PROVE i \in Readable' /\ RecordAt(i)' = RecordAt(i) /\ disk'.lines[i].closed
    <3>1. i \in 1..Len(disk'.lines) /\ disk'.lines[i] = disk.lines[i] /\ disk.lines[i].closed
      BY <1>1, <1>2, <1>4 DEF LinesInv
    <3> QED BY <1>4, <3>1 DEF Readable, RecordAt
  <2>3. ASSUME NEW i \in Readable', i # n + 1 PROVE i \in Readable /\ RecordAt(i)' = RecordAt(i)
    BY <1>4, <2>3 DEF RecordAt
  <2>4. ASSUME NEW i \in Readable', i = n + 1 PROVE RecordAt(i)' = p /\ disk'.lines[i].closed
    <3>1. i \in 1..Len(disk'.lines)
      BY <1>4 DEF Readable
    <3>2. ~Open /\ ~cut
      <4>1. i \notin Readable
        BY <1>2, <2>4
      <4>2. ~cut
        BY <1>3, <1>4, <4>1
      <4>3. ~Open
        BY <1>2, <1>4, <2>4, <3>1
      <4> QED BY <4>2, <4>3
    <3>3. disk'.lines[i] = Line(<<r>>, ~cut)
      BY <1>4, <2>4, <3>2
    <3> QED BY <1>5, <3>2, <3>3 DEF RecordAt
  <2> QED BY <2>1, <2>2, <2>3, <2>4
<1>7. /\ pens' \in [Pens -> FilePens]
      /\ \A q \in Pens : q # p => pens'[q] = pens[q]
      /\ pens'[p].pc = (IF cut THEN "dead" ELSE "done") /\ pens'[p].alone = ~Open
  <2>1. pens \in [Pens -> FilePens] /\ (~Open) \in BOOLEAN
    BY <1>1, FilesTypeParts DEF Open
  <2>2. pens' = [pens EXCEPT ![p] = [pens[p] EXCEPT !.pc = IF cut THEN "dead" ELSE "done", !.alone = ~Open]]
    BY DEF append
  <2> QED BY <2>1, <2>2 DEF FilePens
<1>8. /\ job' \in [pc : {job.pc}, base : {job.base}, at : {job.at}, lost : SUBSET FileRecords, jobs : {job.jobs}]
      /\ job.lost \in SUBSET job'.lost
      /\ job.pc # "idle" => p \in job'.lost
  BY <1>1, RisksIs
<1>9. \A i \in Readable : RecordAt(i) # p
  BY <1>1 DEF EachOnce
<1>10. FilesTypeOK'
  <2>1. /\ disk' \in [kind : {"markers", "settings", "audit"}, lines : Seq(FileLines)]
        /\ job' \in [pc : {"idle", "read", "temp", "rewrite"}, base : Seq(FileRecords), at : Nat,
                     lost : SUBSET FileRecords, jobs : Nat]
    BY <1>1, <1>4, <1>8, FilesTypeParts
  <2> QED BY <1>7, <2>1 DEF FilesTypeOK, FileLines, FilePens, FileRecords
<1>11. EachOnce'
  <2>1. ASSUME NEW i \in Readable', NEW j \in Readable', RecordAt(i)' = RecordAt(j)' PROVE i = j
    BY <1>1, <1>6, <1>9, <2>1 DEF EachOnce
  <2>2. ASSUME NEW i \in Readable', RecordAt(i)' \in Pens PROVE pens'[RecordAt(i)'].pc # "idle"
    BY <1>1, <1>6, <1>7, <2>2 DEF EachOnce
  <2> QED BY <2>1, <2>2 DEF EachOnce
<1>12. MarkersInv'
  BY <1>1, <1>4 DEF MarkersInv
<1>13. LinesInv'
  <2>1. \A q \in Pens : pens'[q].pc # "half"
    BY <1>1, <1>7 DEF LinesInv
  <2>2. \A i \in Readable' : disk'.lines[i].closed
    BY <1>6
  <2> QED BY <1>1, <1>4, <1>8, <2>1, <2>2 DEF LinesInv
<1>14. BaseInv'
  <2>1. IsInjective(job'.base) /\ job'.base = job.base /\ (job'.pc = "read" => job'.at = 1)
    BY <1>1, <1>8 DEF BaseInv
  <2>2. \A k \in DOMAIN job'.base : job'.base[k] \in Pens => pens'[job'.base[k]].pc # "idle"
    BY <1>1, <1>7, <2>1 DEF BaseInv
  <2>3. ASSUME job'.pc # "idle", NEW q \in Pens, pens'[q].pc = "done", pens'[q].alone
        PROVE  q \in ToSet(job'.base) \cup job'.lost
    BY <1>1, <1>7, <1>8, <2>1, <2>3 DEF BaseInv
  <2> QED BY <2>1, <2>2, <2>3 DEF BaseInv
<1>15. RewriteInv'
  <2>1. SUFFICES ASSUME job'.pc = "rewrite" PROVE RewriteInv'
    BY DEF RewriteInv
  <2>2. /\ job.pc = "rewrite" /\ job'.base = job.base /\ job'.at = job.at
        /\ job.at \in 1..(Len(job.base) + 1) /\ job.at - 1 <= n
        /\ \A k \in 1..(job.at - 1) : disk.lines[k] = Line(<<job.base[k]>>, TRUE)
        /\ \A i \in Readable : i >= job.at => RecordAt(i) \notin ToSet(job.base)
    BY <1>1, <1>8, <2>1 DEF RewriteInv
  <2>3. job.at - 1 <= Len(disk'.lines)
    <3>1. Len(disk'.lines) \in Nat /\ job.at \in Nat
      BY <1>1, <1>4, FilesTypeParts
    <3> HIDE DEF n
    <3> QED BY <1>2, <1>4, <2>2, <3>1
  <2>4. ASSUME NEW k \in 1..(job.at - 1) PROVE disk'.lines[k] = Line(<<job.base[k]>>, TRUE)
    <3>1. k \in 1..n
      <4>1. job.at \in Nat
        BY <1>1, FilesTypeParts
      <4> HIDE DEF n
      <4> QED BY <1>2, <2>2, <4>1
    <3>2. disk.lines[k].closed
      <4>1. disk.lines[k] = Line(<<job.base[k]>>, TRUE)
        BY <2>2
      <4> QED BY <4>1 DEF Line
    <3> QED BY <1>4, <2>2, <3>1, <3>2
  <2>5. p \notin ToSet(job.base)
    BY <1>1 DEF BaseInv, ToSet
  <2>6. ASSUME NEW i \in Readable', i >= job.at PROVE RecordAt(i)' \notin ToSet(job.base)
    BY <1>6, <2>2, <2>5, <2>6
  <2> QED BY <2>1, <2>2, <2>3, <2>4, <2>6 DEF RewriteInv
<1>16. KeptInv'
  <2>1. ASSUME job.pc # "rewrite", NEW q \in Pens, pens'[q].pc = "done", pens'[q].alone
        PROVE  q \in job'.lost \/ \E i \in Readable' : RecordAt(i)' = q
    <3>1. CASE q = p
      BY <1>6, <1>7, <2>1, <3>1
    <3>2. CASE q # p
      <4>1. q \in job.lost \/ \E i \in Readable : RecordAt(i) = q
        BY <1>1, <1>7, <2>1, <3>2 DEF KeptInv
      <4> QED BY <1>6, <1>8, <4>1
    <3> QED BY <3>1, <3>2
  <2> QED BY <1>8, <2>1 DEF KeptInv
<1> QED BY <1>4, <1>10, <1>11, <1>12, <1>13, <1>14, <1>15, <1>16 DEF FilesInv

\* A rewrite starts from what it read.
LEMMA FilesStart ==
    ASSUME FilesInv, disk.kind # "markers", job.pc = "idle", UNCHANGED <<disk, pens>>,
           NEW base \in Seq(FileRecords), NEW lost \in SUBSET FileRecords,
           job' = [job EXCEPT !.pc = "read", !.base = base, !.at = 1, !.jobs = @ + 1, !.lost = lost],
           IsInjective(base), job.lost \in SUBSET lost,
           \A k \in DOMAIN base : base[k] \in ToSet(read_all) \/ base[k] = Hook,
           \A q \in Pens : q \in ToSet(read_all) => q \in ToSet(base) \cup lost
    PROVE  FilesInv'
<1>1. /\ FilesTypeOK /\ OnlyLastIsOpen /\ EachOnce /\ LinesInv /\ KeptInv
      /\ disk' = disk /\ pens' = pens
  BY DEF FilesInv
<1>2. /\ job' \in [pc : {"read"}, base : Seq(FileRecords), at : Nat, lost : SUBSET FileRecords, jobs : Nat]
      /\ job'.base = base /\ job'.at = 1 /\ job'.lost = lost
  <2>1. job \in [pc : {"idle", "read", "temp", "rewrite"}, base : Seq(FileRecords), at : Nat,
                 lost : SUBSET FileRecords, jobs : Nat]
    BY <1>1, FilesTypeParts
  <2>2. job.jobs + 1 \in Nat
    BY <2>1
  <2>3. job' = [job EXCEPT !.pc = "read", !.base = base, !.at = 1, !.jobs = job.jobs + 1, !.lost = lost]
    OBVIOUS
  <2> DEFINE j == job.jobs + 1
  <2> HIDE DEF j
  <2>4. job' = [job EXCEPT !.pc = "read", !.base = base, !.at = 1, !.jobs = j, !.lost = lost] /\ j \in Nat
    BY <2>2, <2>3 DEF j
  <2> QED BY ONLY <2>1, <2>4, base \in Seq(FileRecords), lost \in SUBSET FileRecords
<1>3. Readable' = Readable /\ \A i : RecordAt(i)' = RecordAt(i)
  BY <1>1 DEF Readable, RecordAt
<1>4. FilesTypeOK'
  BY <1>1, <1>2 DEF FilesTypeOK, FileRecords
<1>5. OnlyLastIsOpen' /\ EachOnce'
  BY <1>1, <1>3 DEF OnlyLastIsOpen, EachOnce
<1>6. MarkersInv' /\ RewriteInv'
  BY <1>1, <1>2 DEF MarkersInv, RewriteInv
<1>7. LinesInv'
  BY <1>1, <1>2, <1>3 DEF LinesInv
<1>8. KeptInv'
  BY <1>1, <1>2, <1>3 DEF KeptInv
<1>9. BaseInv'
  <2>1. ASSUME NEW k \in DOMAIN base, base[k] \in Pens PROVE pens[base[k]].pc # "idle"
    <3>1. base[k] \in ToSet(read_all)
      BY <2>1, PenIsRecord
    <3>2. \E i \in Readable : base[k] = RecordAt(i)
      BY <1>1, <3>1, ReadAllIs DEF ToSet
    <3> QED BY <1>1, <2>1, <3>2 DEF EachOnce
  <2>2. ASSUME NEW q \in Pens, pens[q].pc = "done", pens[q].alone PROVE q \in ToSet(base) \cup lost
    <3>1. q \in job.lost \/ \E i \in Readable : RecordAt(i) = q
      BY <1>1, <2>2 DEF KeptInv
    <3>2. q \in job.lost \/ q \in ToSet(read_all)
      BY <1>1, <3>1, ReadAllIs DEF ToSet
    <3> QED BY <3>2
  <2> QED BY <1>1, <1>2, <2>1, <2>2 DEF BaseInv
<1> QED BY <1>4, <1>5, <1>6, <1>7, <1>8, <1>9 DEF FilesInv

\* A job reads the settings to install the hook ...
LEMMA FilesInstall ==
    ASSUME FilesInv, install_stop_failure_hook
    PROVE  FilesInv'
<1> DEFINE base == Append(read_all, Hook)
           n == Len(read_all)
<1>1. /\ FilesTypeOK /\ EachOnce /\ disk.kind = "settings" /\ job.pc = "idle" /\ UNCHANGED <<disk, pens>>
      /\ Hook \notin ToSet(read_all)
  BY DEF FilesInv, install_stop_failure_hook, StartJob
<1>2. /\ job.lost \in SUBSET FileRecords
      /\ job' = [job EXCEPT !.pc = "read", !.base = base, !.at = 1, !.jobs = @ + 1, !.lost = job.lost]
  BY <1>1, FilesTypeParts DEF install_stop_failure_hook, StartJob
<1>3. read_all \in Seq(FileRecords) /\ n \in Nat /\ DOMAIN read_all = 1..n /\ IsInjective(read_all)
  BY <1>1, ReadAllIs
<1>4. Hook \in FileRecords
  BY PensAssumption DEF Hook, FileRecords
<1>5. /\ base \in Seq(FileRecords) /\ DOMAIN base = 1..(n + 1)
      /\ \A k \in 1..n : base[k] = read_all[k]
      /\ base[n + 1] = Hook
  <2>1. base \in Seq(FileRecords) /\ Len(base) = n + 1 
        /\ (\A k \in 1..n : base[k] = read_all[k]) /\ base[n + 1] = Hook
    BY <1>3, <1>4, AppendProperties
  <2> HIDE DEF base
  <2> QED BY <2>1
<1> HIDE DEF base
<1>6. \A k \in 1..n : read_all[k] \in ToSet(read_all)
  BY <1>3 DEF ToSet
<1> HIDE DEF n
<1>7. \A k \in 1..(n + 1) : k \in 1..n \/ k = n + 1
  BY <1>3
<1>8. \A k \in DOMAIN base : base[k] \in ToSet(read_all) \/ base[k] = Hook
  BY <1>5, <1>6, <1>7
<1>9. IsInjective(base)
  <2>1. ASSUME NEW k \in 1..(n + 1), NEW l \in 1..(n + 1), base[k] = base[l] PROVE k = l
    BY <1>1, <1>3, <1>5, <1>6, <1>7, <2>1 DEF IsInjective
  <2> QED BY <1>5, <2>1 DEF IsInjective
<1>10. \A q \in Pens : q \in ToSet(read_all) => q \in ToSet(base) \cup job.lost
  <2>1. \A k \in 1..n : k \in 1..(n + 1)
    BY <1>3
  <2> QED BY <1>3, <1>5, <2>1 DEF ToSet
<1> QED BY <1>1, <1>2, <1>5, <1>8, <1>9, <1>10, FilesStart

\* ... or to remove it.
LEMMA FilesRemove ==
    ASSUME FilesInv, remove_stop_failure_hook
    PROVE  FilesInv'
<1> DEFINE S == {i \in DOMAIN read_all : read_all[i] # Hook}
           base == Pick(read_all, S)
           m == Cardinality(S)
<1>1. FilesTypeOK /\ EachOnce /\ disk.kind = "settings" /\ job.pc = "idle" /\ UNCHANGED <<disk, pens>>
  BY DEF FilesInv, remove_stop_failure_hook, StartJob
<1>2. /\ job.lost \in SUBSET FileRecords
      /\ job' = [job EXCEPT !.pc = "read", !.base = base, !.at = 1, !.jobs = @ + 1, !.lost = job.lost]
  BY <1>1, FilesTypeParts DEF remove_stop_failure_hook, StartJob
<1>3. read_all \in Seq(FileRecords) /\ IsInjective(read_all)
  BY <1>1, ReadAllIs
<1>4. S \in SUBSET DOMAIN read_all
  OBVIOUS
<1>5. \A i \in DOMAIN read_all : i \in S <=> read_all[i] # Hook
  OBVIOUS
<1> HIDE DEF S
<1>6. /\ S \in SUBSET Int /\ IsFiniteSet(S) /\ m \in Nat
      /\ base \in Seq(FileRecords) /\ DOMAIN base = 1..m
      /\ \A k \in 1..m : Kth(S, k) \in S /\ base[k] = read_all[Kth(S, k)]
  BY <1>3, <1>4, PickIs
<1>7. /\ \A i \in S : Rank(S, i) \in 1..m /\ Kth(S, Rank(S, i)) = i
      /\ \A k, l \in 1..m : k < l <=> Kth(S, k) < Kth(S, l)
  BY <1>6, KthPlace
<1> HIDE DEF base, m
<1>8. \A k \in DOMAIN base : base[k] \in ToSet(read_all) \/ base[k] = Hook
  BY <1>4, <1>6 DEF ToSet
<1>9. IsInjective(base)
  <2>1. ASSUME NEW k \in 1..m, NEW l \in 1..m, base[k] = base[l] PROVE k = l
    <3>1. Kth(S, k) = Kth(S, l) /\ Kth(S, k) \in Int
      BY <1>3, <1>4, <1>6, <2>1 DEF IsInjective
    <3>2. ~(k < l) /\ ~(l < k) /\ k \in Int /\ l \in Int
      BY <1>6, <1>7, <3>1
    <3> QED BY <3>2
  <2> QED BY <1>6, <2>1 DEF IsInjective
<1>10. ASSUME NEW q \in Pens, q \in ToSet(read_all) PROVE q \in ToSet(base) \cup job.lost
  <2>1. PICK i \in DOMAIN read_all : read_all[i] = q
    BY <1>10 DEF ToSet
  <2>2. i \in S
    BY <1>5, <2>1, PenIsRecord
  <2>3. Rank(S, i) \in DOMAIN base /\ base[Rank(S, i)] = q
    BY <1>6, <1>7, <2>1, <2>2
  <2> QED BY <2>3 DEF ToSet
<1> QED BY <1>1, <1>2, <1>6, <1>8, <1>9, <1>10, FilesStart

\* The newest n of a sequence, where they were.
LEMMA NewestIs ==
    ASSUME NEW A, NEW rs \in Seq(A), NEW n \in Nat
    PROVE  \E d \in Nat :
             /\ d = (IF Len(rs) > n THEN Len(rs) - n ELSE 0)
             /\ Newest(rs, n) \in Seq(A) /\ DOMAIN Newest(rs, n) = 1..(Len(rs) - d)
             /\ Len(Newest(rs, n)) = Len(rs) - d
             /\ \A k \in 1..(Len(rs) - d) : k + d \in 1..Len(rs) /\ Newest(rs, n)[k] = rs[k + d]
<1>1. CASE Len(rs) > n
  <2> DEFINE d == Len(rs) - n
             t == SubSeq(rs, Len(rs) - n + 1, Len(rs))
  <2>1. Newest(rs, n) = t
    BY <1>1 DEF Newest
  <2>2. d \in Nat /\ Len(rs) - d = n
    BY <1>1
  <2>3. t \in Seq(A) /\ Len(t) = n /\ DOMAIN t = 1..n
    BY <1>1
  <2>4. \A k \in 1..n : k + d \in 1..Len(rs) /\ t[k] = rs[k + d]
    BY <1>1
  <2> QED BY <1>1, <2>1, <2>2, <2>3, <2>4
<1>2. CASE ~(Len(rs) > n)
  <2>1. Newest(rs, n) = rs
    BY <1>2 DEF Newest
  <2> QED BY <1>2, <2>1
<1> QED BY <1>1, <1>2

\* A job reads the audit for retention.
LEMMA FilesRetention ==
    ASSUME FilesInv, NEW n \in 0..MaxPens, apply_retention(n)
    PROVE  FilesInv'
<1> DEFINE rs == read_all
           base == Newest(read_all, n)
           lost == job.lost \cup (ToSet(read_all) \ ToSet(base))
<1>1. FilesTypeOK /\ EachOnce /\ disk.kind = "audit" /\ job.pc = "idle" /\ UNCHANGED <<disk, pens>>
  BY DEF FilesInv, apply_retention
<1>2. job' = [job EXCEPT !.pc = "read", !.base = base, !.at = 1, !.jobs = @ + 1, !.lost = lost]
  BY DEF apply_retention
<1>3. rs \in Seq(FileRecords) /\ Len(rs) \in Nat /\ DOMAIN rs = 1..Len(rs) /\ IsInjective(rs) /\ n \in Nat
  BY <1>1, ReadAllIs, PensAssumption
<1>4. lost \in SUBSET FileRecords /\ job.lost \in SUBSET lost
  <2>1. job.lost \in SUBSET FileRecords
    BY <1>1, FilesTypeParts
  <2>2. ToSet(read_all) \in SUBSET FileRecords
    BY <1>3 DEF ToSet
  <2> QED BY <2>1, <2>2
<1>5. \A q \in Pens : q \in ToSet(read_all) => q \in ToSet(base) \cup lost
  OBVIOUS
<1>6. PICK d \in Nat : /\ base \in Seq(FileRecords) /\ DOMAIN base = 1..(Len(rs) - d)
                       /\ \A k \in 1..(Len(rs) - d) : k + d \in 1..Len(rs) /\ base[k] = rs[k + d]
  BY <1>3, NewestIs, ZenonT(40)
<1> HIDE DEF base, rs
<1>7. \A k \in DOMAIN base : base[k] \in ToSet(rs) \/ base[k] = Hook
  BY <1>3, <1>6 DEF ToSet
<1>8. IsInjective(base)
  <2>1. ASSUME NEW k \in DOMAIN base, NEW l \in DOMAIN base, base[k] = base[l] PROVE k = l
    <3>1. k + d = l + d
      BY <1>3, <1>6, <2>1 DEF IsInjective
    <3> QED BY <1>3, <1>6, <3>1
  <2> QED BY <2>1 DEF IsInjective
<1> HIDE DEF lost
<1> QED BY <1>1, <1>2, <1>4, <1>5, <1>6, <1>7, <1>8, FilesStart DEF rs

\* It writes the temporary file ...
LEMMA FilesWriteTemp ==
    ASSUME FilesInv, WriteTemp
    PROVE  FilesInv'
<1>1. /\ FilesTypeOK /\ OnlyLastIsOpen /\ EachOnce /\ LinesInv /\ BaseInv /\ KeptInv
      /\ disk' = disk /\ pens' = pens /\ disk.kind = "settings" /\ job.pc = "read"
  BY DEF FilesInv, WriteTemp
<1>2. job' \in [pc : {"temp"}, base : {job.base}, at : {job.at}, lost : {job.lost}, jobs : {job.jobs}]
  BY <1>1, FilesTypeParts DEF WriteTemp
<1>3. Readable' = Readable /\ \A i : RecordAt(i)' = RecordAt(i)
  BY <1>1 DEF Readable, RecordAt
<1>4. FilesTypeOK'
  BY <1>1, <1>2 DEF FilesTypeOK
<1>5. OnlyLastIsOpen' /\ EachOnce'
  BY <1>1, <1>3 DEF OnlyLastIsOpen, EachOnce
<1>6. MarkersInv' /\ RewriteInv'
  BY <1>1, <1>2 DEF MarkersInv, RewriteInv
<1>7. LinesInv'
  BY <1>1, <1>2, <1>3 DEF LinesInv
<1>8. KeptInv'
  BY <1>1, <1>2, <1>3 DEF KeptInv
<1>9. BaseInv'
  BY <1>1, <1>2 DEF BaseInv
<1> QED BY <1>4, <1>5, <1>6, <1>7, <1>8, <1>9 DEF FilesInv

\* The end of a rewrite, finished or killed, when all that must be there is there.
LEMMA FilesEnd ==
    ASSUME FilesTypeOK, pens' \in [Pens -> FilePens], disk' \in [kind : {disk.kind}, lines : Seq(FileLines)],
           NEW lost \in SUBSET FileRecords,
           job' \in [pc : {"idle"}, base : {<<>>}, at : Nat, lost : {lost}, jobs : Nat],
           OnlyLastIsOpen', EachOnce', LinesInv', disk.kind # "markers",
           \A q \in Pens : pens'[q].pc = "done" /\ pens'[q].alone =>
             q \in lost \/ \E i \in Readable' : RecordAt(i)' = q
    PROVE  FilesInv'
<1>1. FilesTypeOK'
  <2>1. /\ disk' \in [kind : {"markers", "settings", "audit"}, lines : Seq(FileLines)]
        /\ job' \in [pc : {"idle", "read", "temp", "rewrite"}, base : Seq(FileRecords), at : Nat,
                     lost : SUBSET FileRecords, jobs : Nat]
    <3>1. disk.kind \in {"markers", "settings", "audit"} /\ <<>> \in Seq(FileRecords)
      BY FilesTypeParts
    <3> QED BY <3>1
  <2> QED BY <2>1 DEF FilesTypeOK, FileLines, FilePens, FileRecords
<1>2. MarkersInv' /\ RewriteInv'
  BY DEF MarkersInv, RewriteInv
<1>3. BaseInv'
  <2>1. job'.base = <<>> /\ job'.pc = "idle" /\ DOMAIN <<>> = {}
    OBVIOUS
  <2> QED BY <2>1 DEF BaseInv, IsInjective
<1>4. KeptInv'
  BY DEF KeptInv
<1> QED BY <1>1, <1>2, <1>3, <1>4 DEF FilesInv

\* ... which takes the settings' place.
LEMMA FilesRename ==
    ASSUME FilesInv, Rename
    PROVE  FilesInv'
<1> DEFINE base == job.base
           M == [i \in DOMAIN base |-> Line(<<base[i]>>, TRUE)]
<1>1. /\ FilesTypeOK /\ LinesInv /\ BaseInv /\ job.pc = "temp" /\ pens' = pens /\ disk.kind = "settings"
  BY DEF FilesInv, FilesTypeOK, MarkersInv, LinesInv, Rename
<1>2. base \in Seq(FileRecords) /\ Len(base) \in Nat /\ DOMAIN base = 1..Len(base)
  BY <1>1, FileTypes
<1>3. \A i \in 1..Len(base) : base[i] \in FileRecords
  BY <1>2
<1>4. \A i \in 1..Len(base) : /\ M[i] = Line(<<base[i]>>, TRUE) /\ M[i] \in FileLines /\ M[i].closed
                              /\ Understood(M[i]) /\ M[i].items[1] = base[i]
  <2>1. ASSUME NEW i \in 1..Len(base)
        PROVE  /\ M[i] = Line(<<base[i]>>, TRUE) /\ M[i] \in FileLines /\ M[i].closed
               /\ Understood(M[i]) /\ M[i].items[1] = base[i]
    <3>1. M[i] = Line(<<base[i]>>, TRUE)
      BY <1>2
    <3>2. base[i] \in 0..(MaxPens + 1) /\ base[i] # Cut
      BY <1>3, PensAssumption DEF FileRecords, Cut
    <3> HIDE DEF M, base
    <3> QED BY <3>1, <3>2, LineIs
  <2> QED BY <2>1
<1>5. M \in Seq(FileLines) /\ Len(M) = Len(base) /\ DOMAIN M = 1..Len(base)
  <2>1. M \in [1..Len(base) -> FileLines]
    BY <1>2, <1>4
  <2> HIDE DEF M
  <2> QED BY <1>2, <2>1
<1>6. disk' \in [kind : {disk.kind}, lines : Seq(FileLines)] /\ disk'.lines = M
  BY <1>1, <1>5, FilesTypeParts DEF Rename
<1>7. job' \in [pc : {"idle"}, base : {<<>>}, at : Nat, lost : {job.lost}, jobs : Nat]
      /\ job.lost \in SUBSET FileRecords
  BY <1>1, FilesTypeParts DEF Rename, JobEnds
<1> HIDE DEF M
<1>8. Readable' = 1..Len(base) /\ \A i \in 1..Len(base) : RecordAt(i)' = base[i]
  BY <1>4, <1>5, <1>6 DEF Readable, RecordAt
<1>9. OnlyLastIsOpen'
  BY <1>4, <1>5, <1>6 DEF OnlyLastIsOpen
<1>10. EachOnce'
  <2>1. ASSUME NEW i \in Readable', NEW j \in Readable', RecordAt(i)' = RecordAt(j)' PROVE i = j
    BY <1>1, <1>2, <1>8, <2>1 DEF BaseInv, IsInjective
  <2>2. ASSUME NEW i \in Readable', RecordAt(i)' \in Pens PROVE pens'[RecordAt(i)'].pc # "idle"
    BY <1>1, <1>2, <1>8, <2>2 DEF BaseInv
  <2> QED BY <2>1, <2>2 DEF EachOnce
<1>11. LinesInv'
  <2>1. \A i \in DOMAIN disk'.lines : i \in Readable' /\ disk'.lines[i].closed
    BY <1>4, <1>5, <1>6, <1>8
  <2> QED BY <1>1, <1>6, <1>7, <2>1 DEF LinesInv
<1>12. ASSUME NEW q \in Pens, pens'[q].pc = "done", pens'[q].alone
       PROVE  q \in job.lost \/ \E i \in Readable' : RecordAt(i)' = q
  <2>1. q \in ToSet(base) \cup job.lost
    BY <1>1, <1>12 DEF BaseInv
  <2> QED BY <1>2, <1>8, <2>1 DEF ToSet
<1>13. pens' \in [Pens -> FilePens]
  BY <1>1, FilesTypeParts
<1> QED BY <1>1, <1>6, <1>7, <1>9, <1>10, <1>11, <1>12, <1>13, FilesEnd

\* The audit is cut to nothing before it is rewritten ...
LEMMA FilesTruncate ==
    ASSUME FilesInv, Truncate
    PROVE  FilesInv'
<1>1. /\ FilesTypeOK /\ LinesInv /\ BaseInv /\ job.pc = "read" /\ job.at = 1 /\ pens' = pens /\ disk.kind = "audit"
  BY DEF FilesInv, BaseInv, Truncate
<1>2. disk' \in [kind : {disk.kind}, lines : {<<>>}] /\ disk'.lines = <<>>
  BY <1>1, FilesTypeParts DEF Truncate
<1>3. job' \in [pc : {"rewrite"}, base : {job.base}, at : {1}, lost : {job.lost}, jobs : {job.jobs}]
  BY <1>1, FilesTypeParts DEF Truncate
<1>4. DOMAIN disk'.lines = {} /\ Len(disk'.lines) = 0 /\ Readable' = {}
  <2>1. DOMAIN disk'.lines = {} /\ Len(disk'.lines) = 0
    BY <1>2
  <2> QED BY <2>1 DEF Readable
<1>5. FilesTypeOK'
  <2>1. /\ disk' \in [kind : {"markers", "settings", "audit"}, lines : Seq(FileLines)]
        /\ job' \in [pc : {"idle", "read", "temp", "rewrite"}, base : Seq(FileRecords), at : Nat,
                     lost : SUBSET FileRecords, jobs : Nat]
    <3>1. job \in [pc : {"idle", "read", "temp", "rewrite"}, base : Seq(FileRecords), at : Nat,
                   lost : SUBSET FileRecords, jobs : Nat]
      BY <1>1, FilesTypeParts
    <3>2. <<>> \in Seq(FileLines)
      OBVIOUS
    <3> QED BY <1>1, <1>2, <1>3, <3>1, <3>2
  <2> QED BY <1>1, <2>1 DEF FilesTypeOK, FileLines, FilePens, FileRecords
<1>6. OnlyLastIsOpen' /\ EachOnce' /\ MarkersInv' /\ KeptInv'
  BY <1>1, <1>2, <1>3, <1>4 DEF OnlyLastIsOpen, EachOnce, MarkersInv, KeptInv
<1>7. LinesInv'
  BY <1>1, <1>2, <1>3, <1>4 DEF LinesInv
<1>8. BaseInv'
  BY <1>1, <1>3 DEF BaseInv
<1>9. RewriteInv'
  <2>1. Len(job.base) \in Nat
    BY <1>1, FileTypes
  <2>2. job'.base = job.base /\ job'.at = 1
    BY <1>3
  <2>3. 1 \in 1..(Len(job.base) + 1) /\ 1 - 1 <= 0 /\ 1..(1 - 1) = {}
    BY <2>1
  <2> QED BY <1>4, <2>2, <2>3 DEF RewriteInv
<1> QED BY <1>5, <1>6, <1>7, <1>8, <1>9 DEF FilesInv

\* What the rewriting has put back is there to be read.
LEMMA RewrittenIsRead ==
    ASSUME FilesTypeOK, RewriteInv, job.pc = "rewrite", NEW k \in 1..(job.at - 1)
    PROVE  /\ k \in 1..Len(job.base) /\ k \in Readable /\ RecordAt(k) = job.base[k] /\ disk.lines[k].closed
<1>1. /\ job.at \in 1..(Len(job.base) + 1) /\ job.at - 1 <= Len(disk.lines)
      /\ disk.lines[k] = Line(<<job.base[k]>>, TRUE)
  BY DEF RewriteInv
<1>2. /\ Len(job.base) \in Nat /\ Len(disk.lines) \in Nat /\ DOMAIN disk.lines = 1..Len(disk.lines)
      /\ job.base \in Seq(FileRecords)
  BY FileTypes
<1>3. k \in 1..Len(job.base) /\ k \in 1..Len(disk.lines)
  BY <1>1, <1>2
<1>4. job.base[k] \in FileRecords
  BY <1>2, <1>3
<1>5. job.base[k] \in 0..(MaxPens + 1) /\ job.base[k] # Cut
  BY <1>4, PensAssumption DEF FileRecords, Cut
<1>6. /\ Line(<<job.base[k]>>, TRUE).closed /\ Understood(Line(<<job.base[k]>>, TRUE))
      /\ Line(<<job.base[k]>>, TRUE).items[1] = job.base[k]
  BY <1>5, LineIs
<1> QED BY <1>1, <1>2, <1>3, <1>6 DEF Readable, RecordAt

\* ... line by line, ...
LEMMA FilesLineWritten ==
    ASSUME FilesInv, WriteLine, ~(job.at > Len(job.base))
    PROVE  FilesInv'
<1> DEFINE base == job.base
           at == job.at
           L == disk.lines
           e == Line(<<base[at]>>, TRUE)
           M == disk'.lines
<1>1. /\ FilesTypeOK /\ OnlyLastIsOpen /\ EachOnce /\ LinesInv /\ BaseInv /\ RewriteInv
      /\ job.pc = "rewrite" /\ pens' = pens /\ disk.kind = "audit"
  BY DEF FilesInv, FilesTypeOK, MarkersInv, LinesInv, WriteLine
<1>2. /\ base \in Seq(FileRecords) /\ Len(base) \in Nat /\ DOMAIN base = 1..Len(base)
      /\ L \in Seq(FileLines) /\ Len(L) \in Nat /\ DOMAIN L = 1..Len(L)
  BY <1>1, FileTypes
<1>3. at \in 1..Len(base) /\ at - 1 <= Len(L)
  BY <1>1, <1>2 DEF RewriteInv
<1>4. base[at] \in FileRecords
  BY <1>2, <1>3
<1>5. e \in FileLines /\ e.closed /\ Understood(e) /\ e.items[1] = base[at]
  <2>1. base[at] \in 0..(MaxPens + 1) /\ base[at] # Cut
    BY <1>4, PensAssumption DEF FileRecords, Cut
  <2> QED BY <2>1, LineIs
<1>6. disk' = [disk EXCEPT !.lines = IF at > Len(L) THEN Append(L, e) ELSE [L EXCEPT ![at] = e]]
      /\ job' = [job EXCEPT !.at = at + 1]
  BY DEF WriteLine
<1> HIDE DEF e
<1>7. /\ disk' \in [kind : {disk.kind}, lines : Seq(FileLines)]
      /\ M \in Seq(FileLines) /\ at \in 1..Len(M) /\ M[at] = e
      /\ Len(M) = (IF at > Len(L) THEN at ELSE Len(L))
      /\ \A i \in 1..Len(M) : i # at => i \in 1..Len(L) /\ M[i] = L[i]
      /\ at > Len(L) => at = Len(L) + 1
  <2>1. CASE at > Len(L)
    <3>1. Append(L, e) \in Seq(FileLines) /\ Len(Append(L, e)) = Len(L) + 1 /\ Append(L, e)[Len(L) + 1] = e
          /\ \A i \in 1..Len(L) : Append(L, e)[i] = L[i]
      BY <1>2, <1>5, AppendProperties
    <3>2. at = Len(L) + 1
      BY <1>2, <1>3, <2>1
    <3>3. disk' = [disk EXCEPT !.lines = Append(L, e)]
      BY <1>6, <2>1
    <3>4. disk' \in [kind : {disk.kind}, lines : Seq(FileLines)] /\ M = Append(L, e)
      <4> HIDE DEF L
      <4> QED BY <1>1, <3>1, <3>3, FilesTypeParts
    <3> HIDE DEF L, M
    <3>5. at \in 1..Len(M) /\ M[at] = e /\ Len(M) = at
      BY <1>2, <3>1, <3>2, <3>4
    <3>6. \A i \in 1..Len(M) : i # at => i \in 1..Len(L) /\ M[i] = L[i]
      BY <1>2, <3>1, <3>2, <3>4
    <3> QED BY <2>1, <3>1, <3>2, <3>4, <3>5, <3>6
  <2>2. CASE ~(at > Len(L))
    <3>1. at \in 1..Len(L)
      BY <1>2, <1>3, <2>2
    <3> DEFINE N == [L EXCEPT ![at] = e]
    <3>2. N \in Seq(FileLines) /\ Len(N) = Len(L) /\ N[at] = e /\ \A i \in 1..Len(L) : i # at => N[i] = L[i]
      <4> HIDE DEF L
      <4> QED BY <1>2, <1>5, <3>1
    <3>3. disk' = [disk EXCEPT !.lines = N]
      BY <1>6, <2>2
    <3>4. disk' \in [kind : {disk.kind}, lines : Seq(FileLines)] /\ M = N
      <4> HIDE DEF N
      <4> QED BY <1>1, <3>2, <3>3, FilesTypeParts
    <3> HIDE DEF L, M, N
    <3> QED BY <2>2, <3>1, <3>2, <3>4
  <2> QED BY <2>1, <2>2
<1>8. job' \in [pc : {"rewrite"}, base : {base}, at : {at + 1}, lost : {job.lost}, jobs : {job.jobs}]
      /\ at \in Nat
  <2>1. job \in [pc : {"idle", "read", "temp", "rewrite"}, base : Seq(FileRecords), at : Nat,
                 lost : SUBSET FileRecords, jobs : Nat]
    BY <1>1, FilesTypeParts
  <2> QED BY <1>1, <1>6, <2>1
<1>9. DOMAIN M = 1..Len(M) /\ Len(M) \in Nat
  <2> HIDE DEF M
  <2> QED BY <1>7
<1>10. \A i \in Readable' : \/ i \in Readable /\ i # at /\ RecordAt(i)' = RecordAt(i) /\ M[i] = L[i]
                            \/ i = at /\ RecordAt(i)' = base[at]
  <2>1. ASSUME NEW i \in Readable', i # at
        PROVE  i \in Readable /\ RecordAt(i)' = RecordAt(i) /\ M[i] = L[i]
    <3>1. i \in 1..Len(M) /\ Understood(M[i])
      BY <1>9 DEF Readable
    <3>2. i \in 1..Len(L) /\ M[i] = L[i]
      BY <1>7, <2>1, <3>1
    <3> QED BY <1>2, <3>1, <3>2 DEF Readable, RecordAt
  <2>2. ASSUME NEW i \in Readable', i = at PROVE RecordAt(i)' = base[at]
    BY <1>5, <1>7, <2>2 DEF RecordAt
  <2> QED BY <2>1, <2>2
<1>11. \A i \in Readable : i # at => RecordAt(i) # base[at]
  <2>1. ASSUME NEW i \in Readable, i # at PROVE RecordAt(i) # base[at]
    <3>1. i \in 1..Len(L)
      BY <1>2 DEF Readable
    <3>2. CASE i < at
      <4>1. i \in 1..(at - 1)
        BY <1>2, <1>8, <3>1, <3>2
      <4>2. i \in 1..Len(base) /\ RecordAt(i) = base[i]
        BY <1>1, <4>1, RewrittenIsRead
      <4> QED BY <1>1, <1>2, <1>3, <2>1, <4>2 DEF BaseInv, IsInjective
    <3>3. CASE i > at
      <4>1. RecordAt(i) \notin ToSet(base)
        BY <1>1, <1>2, <1>8, <3>1, <3>3 DEF RewriteInv
      <4>2. base[at] \in ToSet(base)
        BY <1>2, <1>3 DEF ToSet
      <4> QED BY <4>1, <4>2
    <3> QED BY <1>2, <1>8, <2>1, <3>1, <3>2, <3>3
  <2> QED BY <2>1
<1>12. FilesTypeOK'
  <2>1. /\ disk' \in [kind : {"markers", "settings", "audit"}, lines : Seq(FileLines)]
        /\ job' \in [pc : {"idle", "read", "temp", "rewrite"}, base : Seq(FileRecords), at : Nat,
                     lost : SUBSET FileRecords, jobs : Nat]
    BY <1>1, <1>2, <1>7, <1>8, FilesTypeParts
  <2> QED BY <1>1, <2>1 DEF FilesTypeOK, FileLines, FilePens, FileRecords
<1>13. OnlyLastIsOpen'
  <2>1. ASSUME NEW i \in 1..Len(M), ~M[i].closed PROVE i = Len(M) /\ M[i].items # <<>>
    <3>1. i # at /\ i \in 1..Len(L) /\ M[i] = L[i]
      BY <1>5, <1>7, <2>1
    <3>2. i = Len(L) /\ L[i].items # <<>>
      BY <1>1, <1>2, <2>1, <3>1 DEF OnlyLastIsOpen
    <3>3. ~(at > Len(L))
      <4>1. SUFFICES ASSUME at > Len(L) PROVE FALSE
        OBVIOUS
      <4>2. i \in 1..(at - 1)
        BY <1>2, <1>7, <3>1, <3>2, <4>1
      <4>3. L[i].closed
        BY <1>1, <4>2, RewrittenIsRead
      <4> QED BY <2>1, <3>1, <4>3
    <3> QED BY <1>7, <3>1, <3>2, <3>3
  <2> QED BY <1>9, <2>1 DEF OnlyLastIsOpen
<1>14. EachOnce'
  <2>1. ASSUME NEW i \in Readable', NEW j \in Readable', RecordAt(i)' = RecordAt(j)' PROVE i = j
    BY <1>1, <1>10, <1>11, <2>1 DEF EachOnce
  <2>2. ASSUME NEW i \in Readable', RecordAt(i)' \in Pens PROVE pens'[RecordAt(i)'].pc # "idle"
    BY <1>1, <1>2, <1>3, <1>10, <2>2 DEF EachOnce, BaseInv
  <2> QED BY <2>1, <2>2 DEF EachOnce
<1>15. MarkersInv' /\ KeptInv'
  BY <1>1, <1>7, <1>8 DEF MarkersInv, KeptInv
<1>16. LinesInv'
  <2>1. ASSUME NEW i \in Readable' PROVE M[i].closed
    BY <1>1, <1>5, <1>7, <1>10 DEF LinesInv
  <2> QED BY <1>1, <1>7, <1>8, <2>1 DEF LinesInv
<1>17. BaseInv'
  BY <1>1, <1>8 DEF BaseInv
<1>18. RewriteInv'
  <2>1. job'.base = base /\ job'.at = at + 1
    BY <1>8
  <2>2. at + 1 \in 1..(Len(base) + 1) /\ (at + 1) - 1 <= Len(M)
    <3> HIDE DEF base, at, M, L
    <3> QED BY <1>2, <1>3, <1>7, <1>8, <1>9
  <2>3. ASSUME NEW k \in 1..((at + 1) - 1) PROVE M[k] = Line(<<base[k]>>, TRUE)
    <3>1. CASE k = at
      BY <1>7, <3>1 DEF e
    <3>2. CASE k # at
      <4>1. k \in 1..(at - 1)
        <5> HIDE DEF at
        <5> QED BY <1>8, <3>2
      <4>2. L[k] = Line(<<base[k]>>, TRUE)
        BY <1>1, <4>1 DEF RewriteInv
      <4>3. k \in 1..Len(M)
        <5> HIDE DEF at, M, L
        <5> QED BY <1>7, <1>8, <1>9, <4>1
      <4> QED BY <1>7, <3>2, <4>2, <4>3
    <3> QED BY <3>1, <3>2
  <2>4. ASSUME NEW i \in Readable', i >= at + 1 PROVE RecordAt(i)' \notin ToSet(base)
    <3>1. i \in 1..Len(M)
      BY <1>9 DEF Readable
    <3>2. i # at /\ i >= at
      <4> HIDE DEF at, M
      <4> QED BY <1>8, <1>9, <2>4, <3>1
    <3>3. i \in Readable /\ RecordAt(i)' = RecordAt(i)
      BY <1>10, <3>2
    <3> QED BY <1>1, <3>2, <3>3 DEF RewriteInv
  <2> QED BY <2>1, <2>2, <2>3, <2>4 DEF RewriteInv
<1> QED BY <1>12, <1>13, <1>14, <1>15, <1>16, <1>17, <1>18 DEF FilesInv

\* What is on disk when a rewrite ends, by itself or by a kill, stays as it is.
LEMMA FilesStop ==
    ASSUME FilesInv, UNCHANGED <<disk, pens>>, disk.kind # "markers", NEW lost \in SUBSET FileRecords,
           job' = [job EXCEPT !.pc = "idle", !.base = <<>>, !.lost = lost],
           \A q \in Pens : pens[q].pc = "done" /\ pens[q].alone =>
             q \in lost \/ \E i \in Readable : RecordAt(i) = q
    PROVE  FilesInv'
<1>1. FilesTypeOK /\ OnlyLastIsOpen /\ EachOnce /\ LinesInv /\ disk' = disk /\ pens' = pens
  BY DEF FilesInv
<1>2. Readable' = Readable /\ \A i : RecordAt(i)' = RecordAt(i)
  BY <1>1 DEF Readable, RecordAt
<1>3. /\ job' \in [pc : {"idle"}, base : {<<>>}, at : Nat, lost : {lost}, jobs : Nat]
      /\ disk' \in [kind : {disk.kind}, lines : Seq(FileLines)] /\ pens' \in [Pens -> FilePens]
  BY <1>1, FilesTypeParts
<1>4. OnlyLastIsOpen' /\ EachOnce'
  BY <1>1, <1>2 DEF OnlyLastIsOpen, EachOnce
<1>5. LinesInv'
  BY <1>1, <1>2, <1>3 DEF LinesInv
<1>6. \A q \in Pens : pens'[q].pc = "done" /\ pens'[q].alone =>
        q \in lost \/ \E i \in Readable' : RecordAt(i)' = q
  BY <1>1, <1>2
<1> QED BY <1>1, <1>3, <1>4, <1>5, <1>6, FilesEnd

\* ... to its end.
LEMMA FilesWriteLine ==
    ASSUME FilesInv, WriteLine
    PROVE  FilesInv'
<1>1. CASE ~(job.at > Len(job.base))
  BY <1>1, FilesLineWritten
<1>2. CASE job.at > Len(job.base)
  <2>1. /\ FilesTypeOK /\ BaseInv /\ RewriteInv /\ job.pc = "rewrite" /\ disk.kind # "markers"
        /\ UNCHANGED <<disk, pens>> /\ job.lost \in SUBSET FileRecords
        /\ job' = [job EXCEPT !.pc = "idle", !.base = <<>>, !.lost = job.lost]
    <3>1. FilesTypeOK /\ BaseInv /\ RewriteInv /\ job.pc = "rewrite" /\ disk.kind # "markers"
          /\ UNCHANGED <<disk, pens>> /\ JobEnds
      BY <1>2 DEF FilesInv, MarkersInv, WriteLine
    <3> QED BY <3>1, FilesTypeParts DEF JobEnds
  <2>2. ASSUME NEW q \in Pens, pens[q].pc = "done", pens[q].alone
        PROVE  q \in job.lost \/ \E i \in Readable : RecordAt(i) = q
    <3>1. q \in ToSet(job.base) \cup job.lost
      BY <2>1, <2>2 DEF BaseInv
    <3>2. ASSUME NEW k \in DOMAIN job.base PROVE k \in Readable /\ RecordAt(k) = job.base[k]
      <4>1. k \in 1..Len(job.base) /\ Len(job.base) \in Nat
        BY <2>1, FileTypes
      <4>2. k \in 1..(job.at - 1)
        BY <1>2, <2>1, <4>1 DEF RewriteInv
      <4> QED BY <2>1, <4>2, RewrittenIsRead
    <3> QED BY <3>1, <3>2 DEF ToSet
  <2> QED BY <2>1, <2>2, FilesStop
<1> QED BY <1>1, <1>2

\* What a suffix of a sequence holds.
LEMMA SubSeqEnd ==
    ASSUME NEW A, NEW q \in Seq(A), NEW a \in 1..(Len(q) + 1), NEW k \in a..Len(q)
    PROVE  q[k] \in ToSet(SubSeq(q, a, Len(q)))
<1> DEFINE t == SubSeq(q, a, Len(q))
<1>1. DOMAIN t = 1..(Len(q) - a + 1)
  OBVIOUS
<1>2. k - a + 1 \in 1..(Len(q) - a + 1)
  OBVIOUS
<1>3. t[k - a + 1] = q[(k - a + 1) + a - 1]
  BY <1>2
<1>4. (k - a + 1) + a - 1 = k
  OBVIOUS
<1> HIDE DEF t
<1>5. t[k - a + 1] = q[k]
  BY <1>3, <1>4
<1>6. q[k] \in ToSet(t)
  BY <1>1, <1>2, <1>5 DEF ToSet
<1> QED BY <1>6 DEF t

\* The job is killed at any step.
LEMMA FilesKillJob ==
    ASSUME FilesInv, KillJob
    PROVE  FilesInv'
<1> DEFINE left == Pens \cap ToSet(SubSeq(job.base, job.at, Len(job.base)))
           lost == IF disk.kind = "audit" /\ job.pc = "rewrite" THEN job.lost \cup left ELSE job.lost
<1>1. /\ FilesTypeOK /\ BaseInv /\ RewriteInv /\ KeptInv /\ LinesInv /\ job.pc # "idle" /\ disk.kind # "markers"
      /\ UNCHANGED <<disk, pens>> /\ job' = [job EXCEPT !.pc = "idle", !.base = <<>>, !.lost = lost]
  BY DEF FilesInv, MarkersInv, KillJob, Rewriting
<1>2. lost \in SUBSET FileRecords
  <2>1. job.lost \in SUBSET FileRecords
    BY <1>1, FilesTypeParts
  <2>2. left \in SUBSET FileRecords
    BY PenIsRecord
  <2> HIDE DEF left
  <2> QED BY <2>1, <2>2
<1>3. ASSUME NEW q \in Pens, pens[q].pc = "done", pens[q].alone
      PROVE  q \in lost \/ \E i \in Readable : RecordAt(i) = q
  <2>1. CASE job.pc # "rewrite"
    BY <1>1, <1>3, <2>1 DEF KeptInv
  <2>2. CASE job.pc = "rewrite"
    <3>1. disk.kind = "audit"
      BY <1>1, <2>2, FilesTypeParts DEF LinesInv
    <3>2. q \in ToSet(job.base) \cup job.lost
      BY <1>1, <1>3 DEF BaseInv
    <3>3. CASE q \in ToSet(job.base)
      <4>1. PICK k \in 1..Len(job.base) : job.base[k] = q
        BY <1>1, <3>3, FileTypes DEF ToSet
      <4>2. job.base \in Seq(FileRecords) /\ Len(job.base) \in Nat /\ job.at \in 1..(Len(job.base) + 1)
        BY <1>1, <2>2, FileTypes DEF RewriteInv
      <4>3. CASE k < job.at
        <5>1. k \in 1..(job.at - 1)
          BY <4>1, <4>2, <4>3
        <5> QED BY <1>1, <2>2, <4>1, <5>1, RewrittenIsRead
      <4>4. CASE ~(k < job.at)
        <5>1. k \in job.at..Len(job.base)
          BY <4>1, <4>2, <4>4
        <5>2. job.base[k] \in ToSet(SubSeq(job.base, job.at, Len(job.base)))
          BY <4>2, <5>1, SubSeqEnd
        <5> QED BY <2>2, <3>1, <4>1, <5>2
      <4> QED BY <4>3, <4>4
    <3> QED BY <2>2, <3>1, <3>2, <3>3
  <2> QED BY <2>1, <2>2
<1> HIDE DEF lost
<1> QED BY <1>1, <1>2, <1>3, FilesStop

\* The largest of a finite set of places.
LEMMA MaxIs ==
    ASSUME NEW n \in Nat, NEW S \in SUBSET (1..n), S # {}
    PROVE  Max(S) \in S /\ \A y \in S : Max(S) >= y
<1> DEFINE T == {k \in Nat : n - k \in S}
<1>1. T \in SUBSET Nat /\ T # {}
  <2>1. PICK y \in S : TRUE
    OBVIOUS
  <2>2. n - y \in Nat /\ n - (n - y) = y
    OBVIOUS
  <2>3. n - y \in T
    BY <2>2
  <2> QED BY <2>3
<1>2. PICK k \in T : \A m \in T : k <= m
  <2> HIDE DEF T
  <2> QED BY <1>1, LeastNat
<1>3. n - k \in S /\ k \in Nat
  BY <1>2
<1>4. ASSUME NEW y \in S PROVE n - k >= y
  <2>1. n - y \in Nat /\ n - (n - y) = y /\ y \in Int
    OBVIOUS
  <2>2. n - y \in T
    BY <2>1
  <2> HIDE DEF T
  <2>3. k <= n - y
    BY <1>2, <2>2
  <2> QED BY <1>3, <2>1, <2>3
<1>5. \E x \in S : \A y \in S : x >= y
  BY <1>3, <1>4
<1> QED BY <1>5 DEF Max

\* Each step of those who write and rewrite the three files keeps FilesInv: only
\* the open last line is ever added to, a record that is not written yet is in
\* no line and in no rewrite, and a rewrite's own part of the log is what it has
\* put back so far.
THEOREM FilesSafe == FilesSpec => []FilesInv
<1>1. FilesInit => FilesInv
  <2>1. SUFFICES ASSUME FilesInit PROVE FilesInv
    OBVIOUS
  <2>2. /\ disk.kind \in {"markers", "settings", "audit"} /\ disk.lines = <<>>
        /\ disk \in [kind : {"markers", "settings", "audit"}, lines : {<<>>}]
        /\ job = [pc |-> "idle", base |-> <<>>, at |-> 0, lost |-> {}, jobs |-> 0]
        /\ pens \in [Pens -> [pc : {"idle"}, session : 1..2, alone : {TRUE}]]
    <3>1. /\ disk \in [kind : {"markers", "settings", "audit"}, lines : {<<>>}]
          /\ job = [pc |-> "idle", base |-> <<>>, at |-> 0, lost |-> {}, jobs |-> 0]
      BY <2>1 DEF FilesInit
    <3>2. pens \in [Pens -> [pc : {"idle"}, session : 1..2, alone : {TRUE}]]
      <4> DEFINE T == IF disk.kind = "markers" THEN 1..2 ELSE {1}
      <4>1. pens \in [Pens -> [pc : {"idle"}, session : T, alone : {TRUE}]]
        BY <2>1 DEF FilesInit
      <4>2. T \in SUBSET (1..2)
        OBVIOUS
      <4> HIDE DEF T
      <4> QED BY <4>1, <4>2
    <3> QED BY <3>1, <3>2
  <2>3. DOMAIN disk.lines = {} /\ DOMAIN job.base = {} /\ Readable = {}
    BY <2>2 DEF Readable
  <2>4. FilesTypeOK
    <3>1. disk \in [kind : {"markers", "settings", "audit"}, lines : Seq(FileLines)]
      <4>1. <<>> \in Seq(FileLines)
        OBVIOUS
      <4> QED BY <2>2, <4>1
    <3>2. pens \in [Pens -> FilePens]
      BY <2>2 DEF FilePens
    <3>3. job \in [pc : {"idle", "read", "temp", "rewrite"}, base : Seq(FileRecords), at : Nat,
                   lost : SUBSET FileRecords, jobs : Nat]
      BY <2>2
    <3> QED BY <3>1, <3>2, <3>3, FilesTypeParts
  <2>5. \A p \in Pens : pens[p].pc = "idle"
    BY <2>2
  <2>6. job.pc = "idle"
    BY <2>2
  <2>7. OnlyLastIsOpen /\ EachOnce /\ MarkersInv /\ LinesInv
    BY <2>3, <2>5, <2>6 DEF OnlyLastIsOpen, EachOnce, MarkersInv, LinesInv
  <2>8. BaseInv /\ RewriteInv /\ KeptInv
    BY <2>3, <2>5, <2>6 DEF BaseInv, RewriteInv, KeptInv, IsInjective
  <2> QED BY <2>4, <2>7, <2>8 DEF FilesInv
<1>2. FilesInv /\ [FilesNext]_filesVars => FilesInv'
  <2>1. SUFFICES ASSUME FilesInv, [FilesNext]_filesVars PROVE FilesInv'
    OBVIOUS
  <2>2. CASE FilesNext
    <3>1. ASSUME NEW p \in Pens, WriteRecord(p) PROVE FilesInv'
      BY <2>1, <3>1, FilesWriteRecord
    <3>2. ASSUME NEW p \in Pens, WriteNewline(p) PROVE FilesInv'
      BY <2>1, <3>2, FilesWriteNewline
    <3>3. ASSUME NEW p \in Pens, KillPen(p) PROVE FilesInv'
      BY <2>1, <3>3, FilesKillPen
    <3>4. ASSUME NEW p \in Pens, EditSettings(p) PROVE FilesInv'
      BY <2>1, <3>4, FilesEditSettings
    <3>5. ASSUME NEW p \in Pens, NEW cut \in BOOLEAN, append(p, cut) PROVE FilesInv'
      BY <2>1, <3>5, FilesAppend
    <3>6. CASE install_stop_failure_hook
      BY <2>1, <3>6, FilesInstall
    <3>7. CASE remove_stop_failure_hook
      BY <2>1, <3>7, FilesRemove
    <3>8. CASE WriteTemp
      BY <2>1, <3>8, FilesWriteTemp
    <3>9. CASE Rename
      BY <2>1, <3>9, FilesRename
    <3>10. ASSUME NEW n \in 0..MaxPens, apply_retention(n) PROVE FilesInv'
      BY <2>1, <3>10, FilesRetention
    <3>11. CASE Truncate
      BY <2>1, <3>11, FilesTruncate
    <3>12. CASE WriteLine
      BY <2>1, <3>12, FilesWriteLine
    <3>13. CASE KillJob
      BY <2>1, <3>13, FilesKillJob
    <3> QED BY <2>2, <3>1, <3>2, <3>3, <3>4, <3>5, <3>6, <3>7, <3>8, <3>9, <3>10, <3>11, <3>12, <3>13
            DEF FilesNext
  <2>3. CASE UNCHANGED filesVars
    BY <2>1, <2>3, ZenonT(40) DEF filesVars, FilesInv, FilesTypeOK, OnlyLastIsOpen, EachOnce, MarkersInv, LinesInv,
                      BaseInv, RewriteInv, KeptInv, Readable, RecordAt
  <2> QED BY <2>1, <2>2, <2>3
<1> QED BY <1>1, <1>2, PTL DEF FilesSpec

\* The marker of a failure that was written whole, and alone, is the one that
\* the daemon finds for its session, or a later one is: in every file, for any
\* number of hooks and any bound on what is read.
THEOREM MarkerFound == FilesSpec => []MarkerIsFound
<1>1. FilesInv => MarkerIsFound
  <2> DEFINE rs == read_all
             ms == read_markers
             n == Len(rs)
             later(p) == {i \in DOMAIN rs : \E j \in DOMAIN rs : j < i /\ rs[j] = p}
             found(p) == correlate_marker(pens[p].session)
  <2>1. SUFFICES ASSUME FilesInv, NEW p \in Pens, disk.kind = "markers", pens[p].pc = "done", pens[p].alone,
                        Len(disk.lines) <= MaxLines, Cardinality(later(p)) < MaxKept
                 PROVE  found(p) = p \/ \E i \in later(p) : rs[i] = found(p)
    BY DEF MarkerIsFound
  <2>2. FilesTypeOK /\ EachOnce /\ MarkersInv
    BY <2>1 DEF FilesInv
  <2>3. rs \in Seq(FileRecords) /\ n \in Nat /\ DOMAIN rs = 1..n /\ IsInjective(rs)
    BY <2>2, ReadAllIs
  <2>4. PICK k \in 1..n : rs[k] = p
    <3>1. PICK i \in DOMAIN disk.lines : disk.lines[i].items = <<p>>
      BY <2>1, <2>2 DEF MarkersInv
    <3>2. p # Cut /\ Len(<<p>>) = 1 /\ <<p>>[1] = p
      BY PenIsRecord
    <3>3. i \in Readable /\ RecordAt(i) = p
      BY <3>1, <3>2 DEF Readable, Understood, RecordAt
    <3> QED BY <2>2, <3>3, ReadAllIs
  <2>5. MaxKept \in Nat /\ MaxLines \in Nat
    BY KeptAssumption
  <2>6. ms = Newest(rs, MaxKept)
    <3>1. ~(Len(disk.lines) > MaxLines)
      <4>1. Len(disk.lines) \in Nat
        BY <2>2, FileTypes
      <4> QED BY <2>1, <2>5, <4>1
    <3> QED BY <3>1 DEF read_markers
  <2>7. PICK d \in Nat : /\ d = (IF n > MaxKept THEN n - MaxKept ELSE 0)
                         /\ DOMAIN ms = 1..(n - d)
                         /\ \A i \in 1..(n - d) : i + d \in 1..n /\ ms[i] = rs[i + d]
    <3> HIDE DEF rs, ms
    <3> DEFINE t == Newest(rs, MaxKept)
    <3>1. \E d \in Nat :
             /\ d = (IF Len(rs) > MaxKept THEN Len(rs) - MaxKept ELSE 0)
             /\ t \in Seq(FileRecords) /\ DOMAIN t = 1..(Len(rs) - d)
             /\ Len(t) = Len(rs) - d
             /\ \A j \in 1..(Len(rs) - d) : j + d \in 1..Len(rs) /\ t[j] = rs[j + d]
      BY <2>3, <2>5, NewestIs, ZenonT(40)
    <3>2. ms = t
      BY <2>6
    <3> HIDE DEF t
    <3> QED BY <3>1, <3>2
  <2> HIDE DEF rs, ms
  <2>8. later(p) = (k + 1)..n
    <3>1. \A j \in 1..n : rs[j] = p => j = k
      BY <2>3, <2>4 DEF IsInjective
    <3>2. \A i : i \in later(p) <=> i \in 1..n /\ k < i
      BY <2>3, <2>4, <3>1
    <3> HIDE DEF n, later
    <3>3. \A i : i \in (k + 1)..n <=> i \in 1..n /\ k < i
      BY <2>3
    <3> QED BY <3>2, <3>3
  <2>9. Cardinality(later(p)) = n - k
    <3> HIDE DEF n, later
    <3>1. k \in Int /\ n \in Int /\ k <= n
      BY <2>3
    <3>2. Cardinality((k + 1)..n) = IF k + 1 > n THEN 0 ELSE n - (k + 1) + 1
      BY <3>1, FS_Interval
    <3> QED BY <2>8, <3>1, <3>2
  <2> HIDE DEF n, later
  <2>10. k - d \in 1..(n - d)
    BY <2>1, <2>3, <2>5, <2>7, <2>9
  <2>11. ms[k - d] = p
    <3>1. (k - d) + d = k
      BY <2>7
    <3> QED BY <2>4, <2>7, <2>10, <3>1
  <2> DEFINE of == {i \in DOMAIN ms : pens[ms[i]].session = pens[p].session}
  <2>12. of \in SUBSET (1..(n - d)) /\ k - d \in of /\ n - d \in Nat
    <3>1. n - d \in Nat
      BY <2>3, <2>5, <2>7
    <3> QED BY <2>7, <2>10, <2>11, <3>1
  <2>13. found(p) = ms[Max(of)]
    BY <2>12 DEF correlate_marker, ms
  <2> HIDE DEF of, found
  <2>14. Max(of) \in of /\ Max(of) >= k - d
    BY <2>12, MaxIs
  <2>15. Max(of) \in 1..(n - d)
    BY <2>12, <2>14
  <2> DEFINE x == Max(of)
  <2> HIDE DEF x
  <2>16. x \in 1..(n - d) /\ x >= k - d /\ found(p) = ms[x]
    BY <2>13, <2>14, <2>15 DEF x
  <2>17. found(p) = rs[x + d] /\ x + d \in 1..n
    BY <2>7, <2>16
  <2>18. x + d = k \/ x + d \in (k + 1)..n
    BY <2>3, <2>7, <2>16, <2>17
  <2> QED BY <2>4, <2>8, <2>17, <2>18
<1> QED BY <1>1, FilesSafe, PTL

\* No rewrite of the settings or of the audit log loses or repeats a record that
\* it should have kept, for any number of writers, cuts, kills and rewrites.
THEOREM RewritesKeep == FilesSpec => []RewriteKeeps
<1>1. FilesInv => RewriteKeeps
  <2>1. SUFFICES ASSUME FilesInv PROVE RewriteKeeps
    OBVIOUS
  <2>2. FilesTypeOK /\ EachOnce /\ KeptInv
    BY <2>1 DEF FilesInv
  <2>3. IsInjective(read_all)
    BY <2>2, ReadAllIs
  <2>4. \A i \in Readable : RecordAt(i) \in ToSet(read_all)
    BY <2>2, ReadAllIs DEF ToSet
  <2> QED BY <2>2, <2>3, <2>4 DEF RewriteKeeps, KeptInv
<1> QED BY <1>1, FilesSafe, PTL
=============================================================================
