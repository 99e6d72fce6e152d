--------------------------- MODULE RoutingProofs ---------------------------
(***************************************************************************)
(* Safety of a selection for every rule table, channel table, conversation *)
(* and number of administrators: the first rule that holds decides alone,  *)
(* what it says of models and signals is what is read of it, the probe's   *)
(* prompt is as recent as it may be, and the balancing can put any channel *)
(* of the highest priority first.                                          *)
(*                                                                         *)
(* The recursive functions of the model (Weigh, Newest, Render, Wildcard,  *)
(* Glob) are first shown to have a solution, then to do what their users   *)
(* rely on, with the induction lemmas of module SetInduction.              *)
(***************************************************************************)
EXTENDS Routing, ExprProofs

-----------------------------------------------------------------------------
(* The weights of candidates. *)

(* The recursions of the model, stated of any function that satisfies     *)
(* them: first Weigh, over the subsets of D.                               *)
Body(f, T) ==
  IF T = {} THEN 0
  ELSE LET c == CHOOSE c \in T : TRUE IN EffectiveWeight(c) + f[T \ {c}]

Sums(f, D) == f = [T \in D |-> Body(f, T)]

SubsetSums(f, S) == Sums(f, SUBSET S)

(* The subsets of at most n elements.                                      *)
UpTo(S, n) == {T \in SUBSET S : Cardinality(T) <= n}

(* The recursion of Weigh has a solution on the subsets of a finite set.   *)
LEMMA SumsExist ==
  ASSUME NEW S, IsFiniteSet(S)
  PROVE  \E f : SubsetSums(f, S)
<1> DEFINE P == {n \in Nat : \E f : Sums(f, UpTo(S, n))}
<1>0. \A T \in SUBSET S : IsFiniteSet(T) /\ Cardinality(T) \in Nat
  BY FS_Subset, FS_CardinalityType
<1>1. 0 \in P
  <2>1. UpTo(S, 0) = {{}}
    BY <1>0, FS_EmptySet DEF UpTo
  <2>2. Sums([T \in {{}} |-> 0], {{}})
    BY DEF Sums, Body
  <2> QED
    BY <2>1, <2>2
<1>2. ASSUME NEW n \in Nat, n \in P PROVE n + 1 \in P
  <2>1. PICK f : Sums(f, UpTo(S, n))
    BY <1>2
  <2> DEFINE g == [T \in UpTo(S, n + 1) |-> Body(f, T)]
  <2>2. ASSUME NEW T \in UpTo(S, n + 1), T # {}
        PROVE  T \ {CHOOSE c \in T : TRUE} \in UpTo(S, n)
    <3>1. (CHOOSE c \in T : TRUE) \in T
      BY <2>2
    <3>2. IsFiniteSet(T) /\ Cardinality(T) \in Nat /\ Cardinality(T) <= n + 1
      BY <1>0, <2>2 DEF UpTo
    <3>3. Cardinality(T \ {CHOOSE c \in T : TRUE}) = Cardinality(T) - 1
      BY <3>1, <3>2, FS_RemoveElement
    <3> QED
      BY <3>2, <3>3 DEF UpTo
  <2>3. UpTo(S, n) \subseteq UpTo(S, n + 1)
    BY <1>0 DEF UpTo
  <2>4. \A T \in UpTo(S, n) : g[T] = f[T]
    BY <2>1, <2>3 DEF Sums
  <2>5. \A T \in UpTo(S, n + 1) : Body(g, T) = Body(f, T)
    <3> HIDE DEF g
    <3> QED
      BY <2>2, <2>4 DEF Body
  <2>6. Sums(g, UpTo(S, n + 1))
    BY <2>5 DEF Sums
  <2> QED
    BY <2>6
<1>3. Nat \subseteq P
  <2> HIDE DEF P
  <2> QED
    BY <1>1, <1>2, NumberInduction
<1>4. UpTo(S, Cardinality(S)) = SUBSET S
  BY FS_Subset DEF UpTo
<1>5. Cardinality(S) \in P
  BY <1>3, FS_CardinalityType
<1> QED
  BY <1>4, <1>5 DEF SubsetSums

(* So Weigh(S) is the value at S of a function that satisfies it.          *)
LEMMA WeighSums ==
  ASSUME NEW S, IsFiniteSet(S)
  PROVE  \E f : SubsetSums(f, S) /\ Weigh(S) = f[S]
<1> DEFINE f == CHOOSE f : f = [T \in SUBSET S |->
        IF T = {} THEN 0
        ELSE LET c == CHOOSE c \in T : TRUE IN EffectiveWeight(c) + f[T \ {c}]]
<1>1. Weigh(S) = f[S]
  BY DEF Weigh
<1>2. \E g : g = [T \in SUBSET S |->
        IF T = {} THEN 0
        ELSE LET c == CHOOSE c \in T : TRUE IN EffectiveWeight(c) + g[T \ {c}]]
  BY SumsExist DEF SubsetSums, Sums, Body
<1>3. SubsetSums(f, S)
  BY <1>2 DEF SubsetSums, Sums, Body
<1> QED
  BY <1>1, <1>3

(* Solutions for a set and for a part of it agree on that part.            *)
LEMMA SumsAgree ==
  ASSUME NEW S, IsFiniteSet(S), NEW T \in SUBSET S,
         NEW f, SubsetSums(f, S), NEW g, SubsetSums(g, T)
  PROVE  \A U \in SUBSET T : f[U] = g[U]
<1> DEFINE P == {U \in SUBSET T : f[U] = g[U]}
<1>1. ASSUME NEW U \in SUBSET T, \A V \in SUBSET U : V # U => V \in P PROVE U \in P
  <2>1. f[U] = Body(f, U) /\ g[U] = Body(g, U)
    BY DEF SubsetSums, Sums
  <2>2. CASE U = {}
    BY <2>1, <2>2 DEF Body
  <2>3. CASE U # {}
    <3> DEFINE V == U \ {CHOOSE c \in U : TRUE}
    <3>1. V \in SUBSET U /\ V # U
      BY <2>3
    <3>2. f[V] = g[V]
      BY <3>1, <1>1
    <3> QED
      BY <2>1, <2>3, <3>2 DEF Body
  <2> QED
    BY <2>2, <2>3
<1>2. \A U \in SUBSET T : (\A V \in SUBSET U : V # U => V \in P) => U \in P
  BY <1>1
<1>3. IsFiniteSet(T)
  BY FS_Subset
<1>4. SUBSET T \subseteq P
  <2> HIDE DEF P
  <2> QED
    BY <1>2, <1>3, SubsetInduction
<1> QED
  BY <1>4

(* What the columns of the channels table give a candidate.                *)
Weighted(S) == \A c \in S : c.weight \in Int

(* effectiveWeight makes every weight positive.                            *)
LEMMA WeightsCount ==
  ASSUME NEW c, c.weight \in Int
  PROVE  EffectiveWeight(c) \in Nat \ {0}
BY DEF EffectiveWeight

(* A solution adds up the weights in any order, not only that of CHOOSE.   *)
LEMMA SumsRemove ==
  ASSUME NEW S, IsFiniteSet(S), Weighted(S), NEW f, SubsetSums(f, S)
  PROVE  \A T \in SUBSET S :
           f[T] \in Nat /\ \A c \in T : f[T] = EffectiveWeight(c) + f[T \ {c}]
<1> DEFINE P == {T \in SUBSET S :
           f[T] \in Nat /\ \A c \in T : f[T] = EffectiveWeight(c) + f[T \ {c}]}
<1>1. ASSUME NEW T \in SUBSET S, \A U \in SUBSET T : U # T => U \in P PROVE T \in P
  <2>1. f[T] = Body(f, T)
    BY DEF SubsetSums, Sums
  <2>2. CASE T = {}
    BY <2>1, <2>2 DEF Body
  <2>3. CASE T # {}
    <3>1. PICK d \in T : f[T] = EffectiveWeight(d) + f[T \ {d}]
      BY <2>1, <2>3 DEF Body
    <3>2. \A c \in T : T \ {c} \in SUBSET T /\ T \ {c} # T
      OBVIOUS
    <3>3. \A c \in T : T \ {c} \in P
      BY <3>2, <1>1
    <3>4. \A c \in T : EffectiveWeight(c) \in Nat
      BY WeightsCount DEF Weighted
    <3>5. f[T] \in Nat /\ f[T \ {d}] \in Nat
      <4>1. f[T \ {d}] \in Nat /\ EffectiveWeight(d) \in Nat
        BY <3>3, <3>4
      <4> HIDE DEF P
      <4> QED
        BY <3>1, <4>1
    <3>6. ASSUME NEW c \in T, c # d PROVE f[T] = EffectiveWeight(c) + f[T \ {c}]
      <4>1. f[T \ {d}] = EffectiveWeight(c) + f[(T \ {d}) \ {c}]
        BY <3>3, <3>6
      <4>2. f[T \ {c}] = EffectiveWeight(d) + f[(T \ {c}) \ {d}]
        BY <3>3, <3>6
      <4>3. (T \ {d}) \ {c} = (T \ {c}) \ {d}
        OBVIOUS
      <4>4. (T \ {d}) \ {c} \in P
        <5>1. (T \ {d}) \ {c} \in SUBSET T /\ (T \ {d}) \ {c} # T
          OBVIOUS
        <5> QED
          BY <5>1, <1>1
      <4>5. f[(T \ {d}) \ {c}] \in Nat
        BY <4>4
      <4>7. f[T \ {c}] = EffectiveWeight(d) + f[(T \ {d}) \ {c}]
        BY <4>2, <4>3
      <4>6. EffectiveWeight(c) \in Nat /\ EffectiveWeight(d) \in Nat
        BY <3>4
      <4> HIDE DEF P
      <4> QED
        BY <3>1, <4>1, <4>7, <4>5, <4>6
    <3> QED
      BY <3>1, <3>5, <3>6
  <2> QED
    BY <2>2, <2>3
<1>2. \A T \in SUBSET S : (\A U \in SUBSET T : U # T => U \in P) => T \in P
  BY <1>1
<1>3. SUBSET S \subseteq P
  <2> HIDE DEF P
  <2> QED
    BY <1>2, SubsetInduction
<1> QED
  BY <1>3

(* Weigh adds up the weights, whatever order CHOOSE takes them in.         *)
LEMMA WeighRemove ==
  ASSUME NEW S, IsFiniteSet(S), Weighted(S)
  PROVE  /\ Weigh(S) \in Nat
         /\ \A c \in S : Weigh(S) = EffectiveWeight(c) + Weigh(S \ {c})
<1>1. PICK f : SubsetSums(f, S) /\ Weigh(S) = f[S]
  BY WeighSums
<1>2. ASSUME NEW c \in S PROVE f[S \ {c}] = Weigh(S \ {c})
  <2>1. IsFiniteSet(S \ {c})
    BY FS_Subset
  <2>2. PICK g : SubsetSums(g, S \ {c}) /\ Weigh(S \ {c}) = g[S \ {c}]
    BY <2>1, WeighSums
  <2>3. S \ {c} \in SUBSET S
    OBVIOUS
  <2>4. \A U \in SUBSET (S \ {c}) : f[U] = g[U]
    BY <1>1, <2>2, <2>3, SumsAgree
  <2> QED
    BY <2>2, <2>4
<1>3. \A T \in SUBSET S :
           f[T] \in Nat /\ \A c \in T : f[T] = EffectiveWeight(c) + f[T \ {c}]
  BY <1>1, SumsRemove
<1> QED
  BY <1>1, <1>2, <1>3

(* More candidates weigh no less ...                                       *)
LEMMA WeighMonotone ==
  ASSUME NEW S, IsFiniteSet(S), Weighted(S), NEW T \in SUBSET S
  PROVE  Weigh(T) <= Weigh(S)
<1> DEFINE P == {U \in SUBSET S : \A V \in SUBSET U : Weigh(V) <= Weigh(U)}
<1>0. \A U \in SUBSET S : IsFiniteSet(U) /\ Weighted(U)
  BY FS_Subset DEF Weighted
<1>1. ASSUME NEW U \in SUBSET S, \A V \in SUBSET U : V # U => V \in P PROVE U \in P
  <2> SUFFICES ASSUME NEW V \in SUBSET U PROVE Weigh(V) <= Weigh(U)
    OBVIOUS
  <2>1. Weigh(U) \in Nat /\ Weigh(V) \in Nat
    BY <1>0, WeighRemove
  <2>2. CASE V # U
    <3>1. PICK c \in U : c \notin V
      BY <2>2
    <3>2. V \in SUBSET (U \ {c}) /\ U \ {c} \in P /\ U \ {c} \in SUBSET S
      BY <3>1, <1>1
    <3>3. Weigh(V) <= Weigh(U \ {c}) /\ Weigh(U \ {c}) \in Nat
      BY <3>2, <1>0, WeighRemove
    <3>4. Weigh(U) = EffectiveWeight(c) + Weigh(U \ {c}) /\ EffectiveWeight(c) \in Nat
      BY <1>0, WeighRemove, WeightsCount DEF Weighted
    <3> QED
      BY <2>1, <3>3, <3>4
  <2> QED
    BY <2>1, <2>2
<1>2. \A U \in SUBSET S : (\A V \in SUBSET U : V # U => V \in P) => U \in P
  BY <1>1
<1>3. SUBSET S \subseteq P
  <2> HIDE DEF P
  <2> QED
    BY <1>2, SubsetInduction
<1> QED
  BY <1>3

(* ... and more when one of them is missing.                               *)
LEMMA WeighTop ==
  ASSUME NEW S, IsFiniteSet(S), Weighted(S), NEW c \in S, NEW T \in SUBSET (S \ {c})
  PROVE  Weigh(T) \in Nat /\ Weigh(S) \in Nat /\ Weigh(T) < Weigh(S)
<1>1. IsFiniteSet(S \ {c}) /\ Weighted(S \ {c}) /\ IsFiniteSet(T) /\ Weighted(T)
  BY FS_Subset DEF Weighted
<1>2. Weigh(S) = EffectiveWeight(c) + Weigh(S \ {c}) /\ EffectiveWeight(c) \in Nat \ {0}
  BY WeighRemove, WeightsCount DEF Weighted
<1>3. Weigh(T) <= Weigh(S \ {c})
  BY <1>1, WeighMonotone
<1>4. Weigh(T) \in Nat /\ Weigh(S \ {c}) \in Nat
  BY <1>1, WeighRemove
<1> QED
  BY <1>2, <1>3, <1>4

(* A set of candidates as the pool has it: each id once.                   *)
Ballot(S) ==
  /\ IsFiniteSet(S) /\ Weighted(S)
  /\ \A c \in S : c.id \in Nat
  /\ \A c, d \in S : c.id = d.id => c = d

(* A nonempty ballot has a smallest id and a largest one.                  *)
LEMMA FirstOf ==
  ASSUME NEW S, Ballot(S), S # {}
  PROVE  \E c \in S : \A d \in S : c.id <= d.id
<1> DEFINE Ids == {c.id : c \in S}
<1>1. Ids \subseteq Nat /\ Ids # {}
  BY DEF Ballot
<1>2. PICK n \in Ids : \A k \in Ids : n <= k
  <2> HIDE DEF Ids
  <2> QED
    BY <1>1, Least
<1> QED
  BY <1>2

(* What weightedShuffle has added up when it comes to c.                   *)
UpToId(S, c) == {d \in S : d.id <= c.id}

(* The candidate of the largest id has all of them up to its id.           *)
LEMMA LastOf ==
  ASSUME NEW S, Ballot(S), S # {}
  PROVE  \E c \in S : UpToId(S, c) = S
<1> DEFINE Sizes == {Cardinality(S) - Cardinality(UpToId(S, c)) : c \in S}
<1>1. ASSUME NEW c \in S
      PROVE  /\ UpToId(S, c) \in SUBSET S /\ IsFiniteSet(UpToId(S, c))
             /\ Cardinality(UpToId(S, c)) \in Nat /\ Cardinality(S) \in Nat
             /\ Cardinality(UpToId(S, c)) <= Cardinality(S)
  <2>1. UpToId(S, c) \in SUBSET S
    BY DEF UpToId
  <2> QED
    BY <2>1, FS_Subset, FS_CardinalityType DEF Ballot
<1>2. Sizes \subseteq Nat /\ Sizes # {}
  BY <1>1
<1>3. PICK n \in Sizes : \A k \in Sizes : n <= k
  <2> HIDE DEF Sizes
  <2> QED
    BY <1>2, Least
<1>4. PICK c \in S : n = Cardinality(S) - Cardinality(UpToId(S, c))
  BY <1>3
<1>5. \A d \in S : Cardinality(UpToId(S, d)) <= Cardinality(UpToId(S, c))
  <2> TAKE d \in S
  <2>1. n <= Cardinality(S) - Cardinality(UpToId(S, d))
    BY <1>3
  <2> QED
    BY <1>1, <1>4, <2>1
<1>6. ASSUME NEW d \in S, ~ (d.id <= c.id) PROVE FALSE
  <2>1. UpToId(S, c) \in SUBSET UpToId(S, d) /\ d \in UpToId(S, d) /\ d \notin UpToId(S, c)
    BY <1>6 DEF UpToId, Ballot
  <2>2. IsFiniteSet(UpToId(S, d)) /\ Cardinality(UpToId(S, d)) \in Nat
        /\ Cardinality(UpToId(S, c)) \in Nat
        /\ Cardinality(UpToId(S, d)) <= Cardinality(UpToId(S, c))
    BY <1>1, <1>5
  <2>3. /\ Cardinality(UpToId(S, c)) <= Cardinality(UpToId(S, d))
        /\ Cardinality(UpToId(S, d)) = Cardinality(UpToId(S, c)) => UpToId(S, d) = UpToId(S, c)
    BY <2>1, <2>2, FS_Subset
  <2>4. UpToId(S, d) = UpToId(S, c)
    BY <2>2, <2>3
  <2> QED
    BY <2>1, <2>4
<1> QED
  BY <1>6 DEF UpToId

(* weightedShuffle: whatever the number drawn, it finds a candidate; and   *)
(* for each candidate there is a number that finds it.                     *)
LEMMA DrawnAreAll ==
  ASSUME NEW S, Ballot(S), S # {}
  PROVE  {Drawn(S, n) : n \in Numbers(S)} = S
<1> DEFINE Over(n) == {c \in S : n < Weigh(UpToId(S, c))}
<1>0. \A n : Drawn(S, n) = CHOOSE c \in Over(n) : \A d \in Over(n) : c.id <= d.id
  BY DEF Drawn, UpToId
<1>1. ASSUME NEW c \in S
      PROVE  IsFiniteSet(UpToId(S, c)) /\ Weighted(UpToId(S, c)) /\ c \in UpToId(S, c)
  <2>1. UpToId(S, c) \in SUBSET S
    BY DEF UpToId
  <2> QED
    BY <2>1, FS_Subset DEF Ballot, Weighted, UpToId
<1>2. Weigh(S) \in Nat
  BY WeighRemove DEF Ballot
<1>3. ASSUME NEW n \in Numbers(S) PROVE Drawn(S, n) \in S
  <2>1. n \in Nat /\ n < Weigh(S)
    BY <1>2 DEF Numbers
  <2>2. Over(n) # {}
    BY <2>1, LastOf
  <2>3. Ballot(Over(n))
    <3>1. Over(n) \in SUBSET S
      OBVIOUS
    <3>2. IsFiniteSet(Over(n))
      BY <3>1, FS_Subset DEF Ballot
    <3> HIDE DEF Over
    <3> QED
      BY <3>1, <3>2 DEF Ballot, Weighted
  <2>4. \E c \in Over(n) : \A d \in Over(n) : c.id <= d.id
    <3> HIDE DEF Over
    <3> QED
      BY <2>2, <2>3, FirstOf
  <2>5. Drawn(S, n) \in Over(n)
    <3> HIDE DEF Over
    <3> QED
      BY <1>0, <2>4
  <2> QED
    BY <2>5
<1>4. ASSUME NEW c \in S PROVE \E n \in Numbers(S) : Drawn(S, n) = c
  <2> DEFINE n == Weigh(UpToId(S, c)) - 1
  <2>1. n \in Nat /\ n < Weigh(UpToId(S, c)) /\ Weigh(UpToId(S, c)) \in Nat
    <3>1. {} \in SUBSET (UpToId(S, c) \ {c})
      OBVIOUS
    <3>2. Weigh({}) \in Nat /\ Weigh(UpToId(S, c)) \in Nat /\ Weigh({}) < Weigh(UpToId(S, c))
      BY <1>1, <3>1, WeighTop
    <3> QED
      BY <3>2
  <2>2. n \in Numbers(S)
    <3>1. UpToId(S, c) \in SUBSET S
      BY DEF UpToId
    <3>2. Weigh(UpToId(S, c)) <= Weigh(S)
      BY <3>1, WeighMonotone DEF Ballot
    <3> QED
      BY <1>2, <2>1, <3>2 DEF Numbers
  <2>3. c \in Over(n)
    BY <2>1
  <2>4. ASSUME NEW d \in Over(n) PROVE c.id <= d.id
    <3> SUFFICES ASSUME ~ (c.id <= d.id) PROVE FALSE
      OBVIOUS
    <3>1. d \in S /\ n < Weigh(UpToId(S, d))
      OBVIOUS
    <3>2. UpToId(S, d) \in SUBSET (UpToId(S, c) \ {c})
      BY <3>1 DEF UpToId, Ballot
    <3>3. Weigh(UpToId(S, d)) < Weigh(UpToId(S, c))
          /\ Weigh(UpToId(S, d)) \in Nat /\ Weigh(UpToId(S, c)) \in Nat
      BY <1>1, <3>2, WeighTop
    <3> QED
      BY <3>1, <3>3
  <2>5. \A e \in Over(n) : (\A d \in Over(n) : e.id <= d.id) => e = c
    BY <2>3, <2>4 DEF Ballot
  <2>6. Drawn(S, n) = c
    <3> HIDE DEF Over, n
    <3> QED
      BY <1>0, <2>3, <2>4, <2>5
  <2> QED
    BY <2>2, <2>6
<1> QED
  BY <1>3, <1>4

-----------------------------------------------------------------------------
(* The prompt of the probe. *)

(* Newest, over the first n numbers.                                       *)
Adds(f, turns, n) ==
  f = [k \in 0 .. n |-> IF k = 0 THEN 0
                         ELSE f[k - 1] + Rendered(turns[Len(turns) - k + 1])]

(* The recursion of Newest has a solution.                                 *)
LEMMA AddsExist ==
  ASSUME NEW turns
  PROVE  \A n \in Nat : \E f : Adds(f, turns, n)
<1> DEFINE P == {n \in Nat : \E f : Adds(f, turns, n)}
<1>1. 0 \in P
  <2>1. Adds([k \in 0 .. 0 |-> 0], turns, 0)
    BY DEF Adds
  <2> QED
    BY <2>1
<1>2. ASSUME NEW n \in Nat, n \in P PROVE n + 1 \in P
  <2>1. PICK f : Adds(f, turns, n)
    BY <1>2
  <2> DEFINE g == [k \in 0 .. n + 1 |->
                     IF k = 0 THEN 0
                     ELSE f[k - 1] + Rendered(turns[Len(turns) - k + 1])]
  <2>2. \A k \in 0 .. n : g[k] = f[k]
    BY <2>1 DEF Adds
  <2>3. \A k \in 0 .. n + 1 : k # 0 => k - 1 \in 0 .. n
    OBVIOUS
  <2>4. Adds(g, turns, n + 1)
    BY <2>2, <2>3 DEF Adds
  <2> QED
    BY <2>4
<1>3. \A n \in Nat : n \in P => n + 1 \in P
  BY <1>2
<1>4. Nat \subseteq P
  <2> HIDE DEF P
  <2> QED
    BY <1>1, <1>3, NumberInduction
<1> QED
  BY <1>4

(* So Newest is the value of a function that satisfies it.                 *)
LEMMA NewestAdds ==
  ASSUME NEW turns, NEW n \in Nat
  PROVE  \E f : Adds(f, turns, n) /\ Newest(turns, n) = f[n]
<1> DEFINE f == CHOOSE f : f = [k \in 0 .. n |-> IF k = 0 THEN 0
                         ELSE f[k - 1] + Rendered(turns[Len(turns) - k + 1])]
<1>1. Newest(turns, n) = f[n]
  BY DEF Newest
<1>2. \E g : g = [k \in 0 .. n |-> IF k = 0 THEN 0
                         ELSE g[k - 1] + Rendered(turns[Len(turns) - k + 1])]
  BY AddsExist DEF Adds
<1>3. Adds(f, turns, n)
  BY <1>2 DEF Adds
<1> QED
  BY <1>1, <1>3

(* The bytes of the newest turns are a number, of no turns 0.              *)
LEMMA NewestCounts ==
  ASSUME NEW turns \in Seq(Turns), NEW n \in 0 .. Len(turns), Overhead \in Nat, TurnMax \in Nat
  PROVE  Newest(turns, n) \in Nat /\ (n = 0 => Newest(turns, n) = 0)
<1>1. PICK f : Adds(f, turns, n) /\ Newest(turns, n) = f[n]
  BY NewestAdds
<1> DEFINE P == {k \in Nat : k <= n => f[k] \in Nat}
<1>2. f[0] = 0
  BY <1>1 DEF Adds
<1>3. ASSUME NEW k \in Nat, k \in P PROVE k + 1 \in P
  <2> SUFFICES ASSUME k + 1 <= n PROVE f[k + 1] \in Nat
    OBVIOUS
  <2>1. f[k + 1] = f[k] + Rendered(turns[Len(turns) - (k + 1) + 1])
    BY <1>1 DEF Adds
  <2>2. turns[Len(turns) - (k + 1) + 1] \in Turns
    OBVIOUS
  <2>3. \A x \in Turns : Rendered(x) \in Nat
    <3>1. \A x \in Turns : x.width \in Nat /\ SmallerOf(x.chars, TurnMax) \in Nat
      BY DEF Turns, SmallerOf
    <3>2. \A i, j \in Nat : Overhead + i * j \in Nat
      OBVIOUS
    <3> QED
      BY <3>1, <3>2 DEF Rendered
  <2>4. f[k] \in Nat
    BY <1>3
  <2> HIDE DEF P
  <2> QED
    BY <2>1, <2>2, <2>3, <2>4
<1>4. \A k \in Nat : k \in P => k + 1 \in P
  BY <1>3
<1>5. 0 \in P
  BY <1>2
<1>6. Nat \subseteq P
  <2> HIDE DEF P
  <2> QED
    BY <1>4, <1>5, NumberInduction
<1>7. n \in P
  BY <1>6
<1> QED
  BY <1>1, <1>2, <1>7

(* RenderProbePrompt stops at k turns: there are no more, or one more      *)
(* would not fit.                                                          *)
Stops(turns, k) ==
  k = Len(turns) \/ (k > 0 /\ Newest(turns, k + 1) > PromptMax)

(* The recursion of Render, over the last m numbers of turns.              *)
Keeps(f, turns, m) ==
  f = [k \in Len(turns) - m .. Len(turns) |-> IF Stops(turns, k) THEN k ELSE f[k + 1]]

(* The recursion of Render has a solution.                                 *)
LEMMA KeepsExist ==
  ASSUME NEW turns \in Seq(Turns)
  PROVE  \E f : Keeps(f, turns, Len(turns))
<1> DEFINE P == {m \in Nat : m <= Len(turns) => \E f : Keeps(f, turns, m)}
<1>1. 0 \in P
  <2>1. Keeps([k \in Len(turns) - 0 .. Len(turns) |-> k], turns, 0)
    BY DEF Keeps, Stops
  <2> QED
    BY <2>1
<1>2. ASSUME NEW m \in Nat, m \in P PROVE m + 1 \in P
  <2> SUFFICES ASSUME m + 1 <= Len(turns) PROVE \E f : Keeps(f, turns, m + 1)
    OBVIOUS
  <2>1. PICK f : Keeps(f, turns, m)
    BY <1>2
  <2> DEFINE g == [k \in Len(turns) - (m + 1) .. Len(turns) |->
                     IF Stops(turns, k) THEN k ELSE f[k + 1]]
  <2>2. \A k \in Len(turns) - m .. Len(turns) : g[k] = f[k]
    BY <2>1 DEF Keeps
  <2>3. ASSUME NEW k \in Len(turns) - (m + 1) .. Len(turns), ~ Stops(turns, k)
        PROVE  k + 1 \in Len(turns) - m .. Len(turns)
    BY <2>3 DEF Stops
  <2>4. Keeps(g, turns, m + 1)
    BY <2>2, <2>3 DEF Keeps
  <2> QED
    BY <2>4
<1>3. \A m \in Nat : m \in P => m + 1 \in P
  BY <1>2
<1>4. Nat \subseteq P
  <2> HIDE DEF P
  <2> QED
    BY <1>1, <1>3, NumberInduction
<1>5. Len(turns) \in P
  BY <1>4
<1> QED
  BY <1>5

(* The recursion ends at the first number of turns it stops at.            *)
LEMMA KeepsStop ==
  ASSUME NEW turns \in Seq(Turns), NEW f, Keeps(f, turns, Len(turns))
  PROVE  /\ f[0] \in 0 .. Len(turns)
         /\ Stops(turns, f[0])
         /\ \A k \in 0 .. f[0] - 1 : ~ Stops(turns, k)
<1> DEFINE First(k, j) == /\ j \in k .. Len(turns) /\ Stops(turns, j)
                          /\ \A i \in k .. j - 1 : ~ Stops(turns, i)
           P == {m \in Nat : m <= Len(turns) => First(Len(turns) - m, f[Len(turns) - m])}
<1>0. \A k \in 0 .. Len(turns) : f[k] = IF Stops(turns, k) THEN k ELSE f[k + 1]
  BY DEF Keeps
<1>1. 0 \in P
  BY <1>0 DEF Stops
<1>2. ASSUME NEW m \in Nat, m \in P PROVE m + 1 \in P
  <2> DEFINE k == Len(turns) - (m + 1)
  <2> SUFFICES ASSUME m + 1 <= Len(turns) PROVE First(k, f[k])
    OBVIOUS
  <2>1. k \in 0 .. Len(turns) /\ k + 1 = Len(turns) - m /\ k # Len(turns)
    OBVIOUS
  <2>2. First(k + 1, f[k + 1])
    <3>1. First(Len(turns) - m, f[Len(turns) - m])
      BY <1>2
    <3> HIDE DEF First, k
    <3> QED
      BY <2>1, <3>1
  <2>3. CASE Stops(turns, k)
    <3>1. f[k] = k
      BY <1>0, <2>1, <2>3
    <3> HIDE DEF k
    <3> QED
      BY <2>1, <2>3, <3>1
  <2>4. CASE ~ Stops(turns, k)
    <3>1. f[k] = f[k + 1]
      BY <1>0, <2>1, <2>4
    <3> HIDE DEF k
    <3> QED
      BY <2>1, <2>2, <2>4, <3>1
  <2> QED
    BY <2>3, <2>4
<1>3. \A m \in Nat : m \in P => m + 1 \in P
  BY <1>2
<1>4. Nat \subseteq P
  <2> HIDE DEF P
  <2> QED
    BY <1>1, <1>3, NumberInduction
<1>5. Len(turns) \in P
  BY <1>4
<1>6. First(0, f[0])
  BY <1>5
<1> QED
  BY <1>6

(* What Render keeps, without its recursion.                               *)
LEMMA RenderKeeps ==
  ASSUME NEW turns \in Seq(Turns), NEW system \in Nat,
         {TurnMax, PromptMax, Overhead} \subseteq Nat
  PROVE  LET p == Render(turns, system)
             head == Overhead + SmallerOf(system, TurnMax)
         IN /\ p.kept \in 0 .. Len(turns) /\ p.size \in Nat /\ p.system \in BOOLEAN
            /\ p.size <= PromptMax \/ (p.kept = 1 /\ ~ p.system)
            /\ p.size = Newest(turns, p.kept) + (IF p.system THEN head ELSE 0)
            /\ p.kept < Len(turns) =>
                 p.kept > 0 /\ Newest(turns, p.kept + 1) > PromptMax
<1> DEFINE keep == CHOOSE f : f = [k \in 0 .. Len(turns) |->
                IF k = Len(turns) \/ (k > 0 /\ Newest(turns, k + 1) > PromptMax)
                THEN k ELSE f[k + 1]]
           K == keep[0]
           head == Overhead + SmallerOf(system, TurnMax)
           used == Newest(turns, K)
           fits == system > 0 /\ used + head <= PromptMax
<1>1. Render(turns, system) =
        [kept |-> K, system |-> fits, size |-> IF fits THEN used + head ELSE used]
  BY DEF Render
<1>2. \E g : g = [k \in 0 .. Len(turns) |->
                IF k = Len(turns) \/ (k > 0 /\ Newest(turns, k + 1) > PromptMax)
                THEN k ELSE g[k + 1]]
  <2>1. PICK g : Keeps(g, turns, Len(turns))
    BY KeepsExist
  <2>2. Len(turns) - Len(turns) = 0
    OBVIOUS
  <2> QED
    BY <2>1, <2>2 DEF Keeps, Stops
<1>3. Keeps(keep, turns, Len(turns))
  <2>1. Len(turns) - Len(turns) = 0
    OBVIOUS
  <2> QED
    BY <1>2, <2>1 DEF Keeps, Stops
<1> HIDE DEF keep
<1>4. /\ K \in 0 .. Len(turns) /\ Stops(turns, K)
      /\ \A k \in 0 .. K - 1 : ~ Stops(turns, k)
  BY <1>3, KeepsStop
<1> HIDE DEF K
<1>5. used \in Nat /\ (K = 0 => used = 0)
  BY <1>4, NewestCounts
<1>6. K > 1 => used <= PromptMax
  <2> SUFFICES ASSUME K > 1 PROVE used <= PromptMax
    OBVIOUS
  <2>1. K - 1 \in 0 .. K - 1 /\ K - 1 > 0 /\ K - 1 + 1 = K
    BY <1>4
  <2>2. ~ (Newest(turns, K - 1 + 1) > PromptMax)
    BY <1>4, <2>1 DEF Stops
  <2>3. ~ (used > PromptMax)
    BY <2>1, <2>2
  <2> HIDE DEF used
  <2> QED
    BY <2>3, <1>5
<1>7. head \in Nat
  BY DEF SmallerOf
<1> HIDE DEF used, head
<1>8. used + head \in Nat
  BY <1>5, <1>7
<1>9. used <= PromptMax \/ (K = 1 /\ ~ fits)
  BY <1>4, <1>5, <1>6, <1>7
<1>10. K < Len(turns) => K > 0 /\ Newest(turns, K + 1) > PromptMax
  BY <1>4 DEF Stops
<1> DEFINE p == Render(turns, system)
<1>11. p.kept = K /\ (p.system <=> fits) /\ p.system \in BOOLEAN
       /\ p.size = IF fits THEN used + head ELSE used
  <2>1. fits \in BOOLEAN
    OBVIOUS
  <2> HIDE DEF fits
  <2>2. p.kept = K /\ p.system = fits /\ p.size = IF fits THEN used + head ELSE used
    BY <1>1
  <2> QED
    BY <2>1, <2>2
<1> HIDE DEF p, fits
<1>12. p.kept \in 0 .. Len(turns) /\ p.size \in Nat /\ p.system \in BOOLEAN
  BY <1>4, <1>5, <1>8, <1>11
<1>13. p.size <= PromptMax \/ (p.kept = 1 /\ ~ p.system)
  BY <1>5, <1>8, <1>9, <1>11 DEF fits
<1>14. p.size = used + (IF p.system THEN head ELSE 0)
  BY <1>5, <1>11
<1> QED
  BY <1>4, <1>10, <1>11, <1>12, <1>13, <1>14 DEF used, head, p

-----------------------------------------------------------------------------
(* Patterns of model names. *)

(* Patterns and names, with nothing but their length known of them.        *)
Sized(p) == Len(p) \in Nat /\ DOMAIN p = 1 .. Len(p)

(* The stars of a pattern, in order.                                       *)
LEMMA StarsOrdered ==
  ASSUME NEW p, Sized(p), Stars(p) # {}
  PROVE  /\ Stars(p) \subseteq 1 .. Len(p)
         /\ FirstStar(p) \in Stars(p) /\ \A x \in 1 .. FirstStar(p) - 1 : p[x] # "*"
         /\ LastStar(p) \in Stars(p) /\ \A x \in LastStar(p) + 1 .. Len(p) : p[x] # "*"
<1>1. Stars(p) \subseteq 1 .. Len(p) /\ \A x \in 1 .. Len(p) : p[x] = "*" => x \in Stars(p)
  BY DEF Stars, Sized
<1>2. \E i \in Stars(p) : \A j \in Stars(p) : i <= j
  <2>1. Stars(p) \subseteq Nat
    BY <1>1
  <2> QED
    BY <2>1, Least
<1>3. FirstStar(p) \in Stars(p) /\ \A j \in Stars(p) : FirstStar(p) <= j
  BY <1>2 DEF FirstStar
<1>4. \E i \in Stars(p) : \A j \in Stars(p) : j <= i
  <2>1. Stars(p) \subseteq 0 .. Len(p) /\ Len(p) \in Nat
    BY <1>1 DEF Sized
  <2> QED
    BY <2>1, Greatest
<1>5. LastStar(p) \in Stars(p) /\ \A j \in Stars(p) : j <= LastStar(p)
  BY <1>4 DEF LastStar
<1>6. Len(p) \in Nat
  BY DEF Sized
<1>7. ASSUME NEW x \in 1 .. FirstStar(p) - 1 PROVE p[x] # "*"
  BY <1>1, <1>3, <1>6
<1>8. ASSUME NEW x \in LastStar(p) + 1 .. Len(p) PROVE p[x] # "*"
  BY <1>1, <1>5, <1>6
<1> QED
  BY <1>1, <1>3, <1>5, <1>7, <1>8

(* Between a star and the next there are letters only.                     *)
LEMMA NextStars ==
  ASSUME NEW p, Sized(p), NEW i \in Stars(p), i # LastStar(p)
  PROVE  /\ NextStar(p, i) \in Stars(p) /\ i < NextStar(p, i)
         /\ \A x \in i + 1 .. NextStar(p, i) - 1 : p[x] # "*"
<1>0. Len(p) \in Nat
  BY DEF Sized
<1>1. Stars(p) \subseteq 1 .. Len(p) /\ \A x \in 1 .. Len(p) : p[x] = "*" => x \in Stars(p)
  BY DEF Stars, Sized
<1> DEFINE Later == {j \in Stars(p) : i < j}
<1>2. Later # {}
  <2>1. LastStar(p) \in Stars(p) /\ \A x \in LastStar(p) + 1 .. Len(p) : p[x] # "*"
    BY StarsOrdered
  <2>2. p[i] = "*" /\ i \in 1 .. Len(p)
    BY <1>1 DEF Stars
  <2>3. LastStar(p) \in 1 .. Len(p)
    BY <1>1, <2>1
  <2>4. ~ (LastStar(p) < i)
    BY <1>0, <2>1, <2>2, <2>3
  <2> QED
    BY <2>1, <2>2, <2>3, <2>4
<1>3. \E j \in Later : \A k \in Later : j <= k
  <2>1. Later \subseteq Nat
    BY <1>1
  <2> HIDE DEF Later
  <2> QED
    BY <1>2, <2>1, Least
<1>4. \E j \in Stars(p) : i < j /\ \A k \in Stars(p) : i < k => j <= k
  BY <1>3
<1>5. /\ NextStar(p, i) \in Stars(p) /\ i < NextStar(p, i)
      /\ \A k \in Stars(p) : i < k => NextStar(p, i) <= k
  BY <1>4 DEF NextStar
<1>6. ASSUME NEW x \in i + 1 .. NextStar(p, i) - 1 PROVE p[x] # "*"
  <2>1. NextStar(p, i) \in 1 .. Len(p) /\ i \in 1 .. Len(p)
    BY <1>1, <1>5
  <2>2. x \in 1 .. Len(p) /\ i < x /\ x < NextStar(p, i)
    BY <1>0, <2>1
  <2>3. x \in Stars(p) => NextStar(p, i) <= x
    BY <1>5, <2>2
  <2> QED
    BY <1>1, <2>1, <2>2, <2>3
<1> QED
  BY <1>5, <1>6

(* The letter-by-letter reading is well defined: it looks only further     *)
(* into the pattern.                                                       *)
Globs(g, p, s) ==
  \A i \in 0 .. Len(p), j \in 0 .. Len(s) : g[<<i, j>>] = GlobStep(g, p, s, i, j)

(* The places less than n letters from the end of the pattern.             *)
Cells(p, s, n) == {q \in (0 .. Len(p)) \X (0 .. Len(s)) : Len(p) - q[1] < n}

(* g and h say the same one letter further into the pattern.               *)
AgreeAfter(g, h, p, s, i) ==
  i < Len(p) => \A k \in 0 .. Len(s) : h[<<i + 1, k>>] = g[<<i + 1, k>>]

(* Then they say the same of the letter before.                            *)
LEMMA GlobStepAgrees ==
  ASSUME NEW p, Sized(p), NEW s, Sized(s), NEW i \in 0 .. Len(p), NEW j \in 0 .. Len(s),
         NEW g, NEW h, AgreeAfter(g, h, p, s, i)
  PROVE  GlobStep(h, p, s, i, j) = GlobStep(g, p, s, i, j)
<1>0. Len(p) \in Nat /\ Len(s) \in Nat
  BY DEF Sized
<1>1. CASE i = Len(p)
  BY <1>1 DEF GlobStep
<1>2. CASE i # Len(p)
  <2>1. \A k \in 0 .. Len(s) : h[<<i + 1, k>>] = g[<<i + 1, k>>]
    BY <1>0, <1>2 DEF AgreeAfter
  <2>2. CASE p[i + 1] = "*"
    <3>1. \A k \in j .. Len(s) : h[<<i + 1, k>>] = g[<<i + 1, k>>]
      BY <1>0, <2>1
    <3>2. (\E k \in j .. Len(s) : h[<<i + 1, k>>]) = (\E k \in j .. Len(s) : g[<<i + 1, k>>])
      BY <3>1
    <3> QED
      BY <1>2, <2>2, <3>2 DEF GlobStep
  <2>3. CASE p[i + 1] # "*"
    <3>1. j < Len(s) => h[<<i + 1, j + 1>>] = g[<<i + 1, j + 1>>]
      BY <1>0, <2>1
    <3> QED
      BY <1>2, <2>3, <3>1 DEF GlobStep
  <2> QED
    BY <2>2, <2>3
<1> QED
  BY <1>1, <1>2

(* So the recursion of Glob has a solution, ...                            *)
LEMMA GlobExists ==
  ASSUME NEW p, Sized(p), NEW s, Sized(s)
  PROVE  \E g : g = [q \in (0 .. Len(p)) \X (0 .. Len(s)) |-> GlobStep(g, p, s, q[1], q[2])]
<1>0. Len(p) \in Nat /\ Len(s) \in Nat
  BY DEF Sized
<1> DEFINE Solves(g, n) == g = [q \in Cells(p, s, n) |-> GlobStep(g, p, s, q[1], q[2])]
           P == {n \in Nat : \E g : Solves(g, n)}
<1>1. 0 \in P
  <2>1. Cells(p, s, 0) = {}
    BY <1>0 DEF Cells
  <2>2. Solves([q \in {} |-> FALSE], 0)
    BY <2>1
  <2> QED
    BY <2>2
<1>2. ASSUME NEW n \in Nat, n \in P PROVE n + 1 \in P
  <2>1. PICK g : Solves(g, n)
    BY <1>2
  <2> DEFINE h == [q \in Cells(p, s, n + 1) |-> GlobStep(g, p, s, q[1], q[2])]
  <2>2. ASSUME NEW q \in Cells(p, s, n) PROVE h[q] = g[q]
    <3>1. q \in Cells(p, s, n + 1)
      BY <1>0 DEF Cells
    <3> QED
      BY <2>1, <3>1
  <2> HIDE DEF h
  <2>3. ASSUME NEW q \in Cells(p, s, n + 1)
        PROVE  GlobStep(h, p, s, q[1], q[2]) = GlobStep(g, p, s, q[1], q[2])
    <3>1. q[1] \in 0 .. Len(p) /\ q[2] \in 0 .. Len(s) /\ Len(p) - q[1] < n + 1
      BY DEF Cells
    <3>2. ASSUME NEW k \in 0 .. Len(s), q[1] < Len(p)
          PROVE  h[<<q[1] + 1, k>>] = g[<<q[1] + 1, k>>]
      <4>1. q[1] + 1 \in 0 .. Len(p) /\ Len(p) - (q[1] + 1) < n
        BY <1>0, <3>1, <3>2
      <4>2. <<q[1] + 1, k>> \in Cells(p, s, n)
        BY <4>1 DEF Cells
      <4> QED
        BY <2>2, <4>2
    <3>3. AgreeAfter(g, h, p, s, q[1])
      BY <3>2 DEF AgreeAfter
    <3> QED
      BY <3>1, <3>3, GlobStepAgrees
  <2>4. Solves(h, n + 1)
    BY <2>3 DEF h
  <2> QED
    BY <2>4
<1>3. Nat \subseteq P
  <2>1. \A n \in Nat : n \in P => n + 1 \in P
    BY <1>2
  <2> HIDE DEF P
  <2> QED
    BY <1>1, <2>1, NumberInduction
<1>4. Len(p) + 1 \in P
  BY <1>0, <1>3
<1>5. Cells(p, s, Len(p) + 1) = (0 .. Len(p)) \X (0 .. Len(s))
  <2>1. \A q \in (0 .. Len(p)) \X (0 .. Len(s)) : Len(p) - q[1] < Len(p) + 1
    <3>1. \A q \in (0 .. Len(p)) \X (0 .. Len(s)) : q[1] \in 0 .. Len(p)
      OBVIOUS
    <3>2. \A i \in 0 .. Len(p) : Len(p) - i < Len(p) + 1
      BY <1>0
    <3> QED
      BY <3>1, <3>2
  <2> QED
    BY <2>1 DEF Cells
<1> QED
  BY <1>4, <1>5

(* ... and Glob is its value.                                              *)
LEMMA GlobReads ==
  ASSUME NEW p, Sized(p), NEW s, Sized(s)
  PROVE  \E g : Globs(g, p, s) /\ Glob(p, s) = g[<<0, 0>>]
<1> DEFINE g == CHOOSE g : g = [q \in (0 .. Len(p)) \X (0 .. Len(s)) |->
                                  GlobStep(g, p, s, q[1], q[2])]
<1>1. Glob(p, s) = g[<<0, 0>>]
  BY DEF Glob
<1>2. g = [q \in (0 .. Len(p)) \X (0 .. Len(s)) |-> GlobStep(g, p, s, q[1], q[2])]
  BY GlobExists
<1> HIDE DEF g
<1>3. ASSUME NEW i \in 0 .. Len(p), NEW j \in 0 .. Len(s)
      PROVE  g[<<i, j>>] = GlobStep(g, p, s, i, j)
  <2>1. <<i, j>> \in (0 .. Len(p)) \X (0 .. Len(s)) /\ <<i, j>>[1] = i /\ <<i, j>>[2] = j
    OBVIOUS
  <2> QED
    BY <1>2, <2>1
<1> QED
  BY <1>1, <1>3 DEF Globs

(* Looking for the parts is well defined, too: from a star on, only later  *)
(* ones are looked at.                                                     *)
Founds(f, p, s, end) ==
  \A i \in Stars(p), k \in 0 .. end : f[<<i, k>>] = FindParts(f, p, s, end, i, k)

(* The stars less than n letters from the end of the pattern.              *)
Starts(p, end, n) == {q \in Stars(p) \X (0 .. end) : Len(p) - q[1] < n}

(* f and h say the same of the stars after the i-th letter.                *)
AgreeLater(f, h, p, end, i) ==
  \A j \in Stars(p), k \in 0 .. end : i < j => h[<<j, k>>] = f[<<j, k>>]

(* Where a part is found, the next is looked for within the name.          *)
Places(p, s, end, i, k) ==
  LET len == NextStar(p, i) - 1 - i
  IN {n \in k .. end - len : LettersAt(p, i, i + len, s, n)}

(* Where it is found at all, there is a first place, and room after it.    *)
LEMMA FirstPlace ==
  ASSUME NEW p, Sized(p), NEW s, NEW end \in Nat,
         NEW i \in Stars(p), i # LastStar(p), NEW k \in 0 .. end,
         Places(p, s, end, i, k) # {}
  PROVE  LET len == NextStar(p, i) - 1 - i
             n == CHOOSE n \in Places(p, s, end, i, k) :
                    \A m \in Places(p, s, end, i, k) : n <= m
         IN /\ n \in Places(p, s, end, i, k) /\ \A m \in Places(p, s, end, i, k) : n <= m
            /\ n + len \in 0 .. end
<1> DEFINE S == Places(p, s, end, i, k)
           len == NextStar(p, i) - 1 - i
           n == CHOOSE n \in S : \A m \in S : n <= m
<1>0. Len(p) \in Nat /\ Stars(p) \subseteq 1 .. Len(p)
  BY DEF Sized, Stars
<1>1. NextStar(p, i) \in Stars(p) /\ i < NextStar(p, i)
  BY NextStars
<1>2. len \in Nat
  BY <1>0, <1>1
<1>3. S \subseteq k .. end - len
  BY DEF Places
<1>4. S \subseteq Nat
  BY <1>2, <1>3
<1>5. \E x \in S : \A m \in S : x <= m
  <2>1. S # {}
    OBVIOUS
  <2> HIDE DEF S
  <2> QED
    BY <1>4, <2>1, Least
<1>6. n \in S /\ \A m \in S : n <= m
  <2> HIDE DEF S
  <2> QED
    BY <1>5
<1> HIDE DEF S, n, len
<1>7. n + len \in 0 .. end
  BY <1>2, <1>3, <1>6
<1> QED
  BY <1>6, <1>7 DEF S, n, len

(* FindParts in these terms: nothing to find, or found and gone on.        *)
LEMMA FindPartsDefined ==
  ASSUME NEW p, NEW s, NEW end, NEW i, NEW k, NEW f
  PROVE  FindParts(f, p, s, end, i, k) =
           \/ i = LastStar(p)
           \/ /\ Places(p, s, end, i, k) # {}
              /\ f[<<NextStar(p, i),
                     (CHOOSE n \in Places(p, s, end, i, k) :
                        \A m \in Places(p, s, end, i, k) : n <= m) + (NextStar(p, i) - 1 - i)>>]
BY DEF FindParts, Places

(* It looks at later stars only.                                           *)
LEMMA FindPartsAgrees ==
  ASSUME NEW p, Sized(p), NEW s, NEW end \in Nat, NEW i \in Stars(p), NEW k \in 0 .. end,
         NEW f, NEW h, AgreeLater(f, h, p, end, i)
  PROVE  FindParts(h, p, s, end, i, k) = FindParts(f, p, s, end, i, k)
<1> DEFINE S == Places(p, s, end, i, k)
           n == (CHOOSE n \in S : \A m \in S : n <= m) + (NextStar(p, i) - 1 - i)
<1>1. CASE i # LastStar(p) /\ S # {}
  <2>1. n \in 0 .. end
    BY <1>1, FirstPlace
  <2>2. NextStar(p, i) \in Stars(p) /\ i < NextStar(p, i)
    BY <1>1, NextStars
  <2> HIDE DEF n
  <2>3. h[<<NextStar(p, i), n>>] = f[<<NextStar(p, i), n>>]
    BY <2>1, <2>2 DEF AgreeLater
  <2> QED
    BY <2>3, FindPartsDefined DEF n
<1>2. CASE ~ (i # LastStar(p) /\ S # {})
  BY <1>2, FindPartsDefined
<1> QED
  BY <1>1, <1>2

(* So the recursion of the search has a solution, ...                      *)
LEMMA FindsExist ==
  ASSUME NEW p, Sized(p), NEW s, NEW end \in Nat
  PROVE  \E f : f = [q \in Stars(p) \X (0 .. end) |-> FindParts(f, p, s, end, q[1], q[2])]
<1>0. Len(p) \in Nat /\ Stars(p) \subseteq 1 .. Len(p)
  BY DEF Sized, Stars
<1> DEFINE Solves(f, n) == f = [q \in Starts(p, end, n) |-> FindParts(f, p, s, end, q[1], q[2])]
           P == {n \in Nat : \E f : Solves(f, n)}
<1>1. 0 \in P
  <2>1. \A q \in Stars(p) \X (0 .. end) : q[1] \in 1 .. Len(p)
    BY <1>0
  <2>2. Starts(p, end, 0) = {}
    BY <1>0, <2>1 DEF Starts
  <2>3. Solves([q \in {} |-> FALSE], 0)
    BY <2>2
  <2> QED
    BY <2>3
<1>2. ASSUME NEW n \in Nat, n \in P PROVE n + 1 \in P
  <2>1. PICK f : Solves(f, n)
    BY <1>2
  <2> DEFINE h == [q \in Starts(p, end, n + 1) |-> FindParts(f, p, s, end, q[1], q[2])]
  <2>2. ASSUME NEW q \in Starts(p, end, n) PROVE h[q] = f[q]
    <3>1. q[1] \in 1 .. Len(p)
      BY <1>0 DEF Starts
    <3>2. q \in Starts(p, end, n + 1)
      BY <1>0, <3>1 DEF Starts
    <3> QED
      BY <2>1, <3>2
  <2> HIDE DEF h
  <2>3. ASSUME NEW q \in Starts(p, end, n + 1)
        PROVE  FindParts(h, p, s, end, q[1], q[2]) = FindParts(f, p, s, end, q[1], q[2])
    <3>1. q[1] \in Stars(p) /\ q[1] \in 1 .. Len(p) /\ q[2] \in 0 .. end /\ Len(p) - q[1] < n + 1
      BY <1>0 DEF Starts
    <3>2. ASSUME NEW j \in Stars(p), NEW k \in 0 .. end, q[1] < j
          PROVE  h[<<j, k>>] = f[<<j, k>>]
      <4>1. j \in 1 .. Len(p) /\ Len(p) - j < n
        BY <1>0, <3>1, <3>2
      <4>2. <<j, k>> \in Starts(p, end, n)
        BY <4>1 DEF Starts
      <4> QED
        BY <2>2, <4>2
    <3>3. AgreeLater(f, h, p, end, q[1])
      BY <3>2 DEF AgreeLater
    <3> QED
      BY <3>1, <3>3, FindPartsAgrees
  <2>4. Solves(h, n + 1)
    BY <2>3 DEF h
  <2> QED
    BY <2>4
<1>3. Nat \subseteq P
  <2>1. \A n \in Nat : n \in P => n + 1 \in P
    BY <1>2
  <2> HIDE DEF P
  <2> QED
    BY <1>1, <2>1, NumberInduction
<1>4. Len(p) + 1 \in P
  BY <1>0, <1>3
<1>5. Starts(p, end, Len(p) + 1) = Stars(p) \X (0 .. end)
  <2>1. \A q \in Stars(p) \X (0 .. end) : q[1] \in 1 .. Len(p)
    BY <1>0
  <2>2. \A i \in 1 .. Len(p) : Len(p) - i < Len(p) + 1
    BY <1>0
  <2> QED
    BY <2>1, <2>2 DEF Starts
<1> QED
  BY <1>4, <1>5

(* ... and Wildcard is decided by it, when there is room for the search.   *)
LEMMA WildcardFinds ==
  ASSUME NEW p, Sized(p), NEW s, Sized(s), Stars(p) # {}
  PROVE  LET end == Len(s) - (Len(p) - LastStar(p))
             head == FirstStar(p) - 1
         IN head <= end =>
            \E f : /\ Founds(f, p, s, end)
                   /\ Wildcard(p, s) <=> /\ LettersAt(p, 0, head, s, 0)
                                         /\ LettersAt(p, LastStar(p), Len(p), s, end)
                                         /\ f[<<FirstStar(p), head>>]
<1> DEFINE end == Len(s) - (Len(p) - LastStar(p))
           head == FirstStar(p) - 1
           f == CHOOSE f : f = [q \in Stars(p) \X (0 .. end) |-> FindParts(f, p, s, end, q[1], q[2])]
<1> SUFFICES ASSUME head <= end
             PROVE  /\ Founds(f, p, s, end)
                    /\ Wildcard(p, s) <=> /\ LettersAt(p, 0, head, s, 0)
                                          /\ LettersAt(p, LastStar(p), Len(p), s, end)
                                          /\ f[<<FirstStar(p), head>>]
  OBVIOUS
<1>1. Wildcard(p, s) <=> /\ LettersAt(p, 0, head, s, 0)
                         /\ LettersAt(p, LastStar(p), Len(p), s, end)
                         /\ f[<<FirstStar(p), head>>]
  BY DEF Wildcard
<1>2. end \in Nat
  <2>1. FirstStar(p) \in 1 .. Len(p) /\ LastStar(p) \in 1 .. Len(p)
    BY StarsOrdered
  <2> QED
    BY <2>1 DEF Sized
<1> HIDE DEF end, head
<1>3. f = [q \in Stars(p) \X (0 .. end) |-> FindParts(f, p, s, end, q[1], q[2])]
  BY <1>2, FindsExist
<1> HIDE DEF f
<1>4. ASSUME NEW i \in Stars(p), NEW k \in 0 .. end
      PROVE  f[<<i, k>>] = FindParts(f, p, s, end, i, k)
  <2>1. <<i, k>> \in Stars(p) \X (0 .. end) /\ <<i, k>>[1] = i /\ <<i, k>>[2] = k
    OBVIOUS
  <2> QED
    BY <1>3, <2>1
<1> QED
  BY <1>1, <1>4 DEF Founds

(* The reading, cell by cell: at the end of the pattern, at a letter, at a *)
(* star, where it goes on from any later letter of the name.               *)
Onward(g, s, i, j) == \E k \in j .. Len(s) : g[<<i, k>>]

(* At the end of the pattern the name must have ended.                     *)
LEMMA GlobEnd ==
  ASSUME NEW p, Sized(p), NEW s, Sized(s), NEW g, Globs(g, p, s), NEW j \in 0 .. Len(s)
  PROVE  g[<<Len(p), j>>] <=> j = Len(s)
<1>1. Len(p) \in 0 .. Len(p)
  BY DEF Sized
<1>2. g[<<Len(p), j>>] = GlobStep(g, p, s, Len(p), j)
  BY <1>1 DEF Globs
<1> QED
  BY <1>2 DEF GlobStep

(* A letter is one of the name.                                            *)
LEMMA GlobLetter ==
  ASSUME NEW p, Sized(p), NEW s, Sized(s), NEW g, Globs(g, p, s), NEW j \in 0 .. Len(s),
         NEW i \in 0 .. Len(p) - 1, p[i + 1] # "*"
  PROVE  g[<<i, j>>] <=> j < Len(s) /\ p[i + 1] = s[j + 1] /\ g[<<i + 1, j + 1>>]
<1>0. Len(p) \in Nat
  BY DEF Sized
<1>1. i \in 0 .. Len(p) /\ i # Len(p)
  BY <1>0
<1>2. g[<<i, j>>] = GlobStep(g, p, s, i, j)
  BY <1>1 DEF Globs
<1> QED
  BY <1>1, <1>2 DEF GlobStep

(* A star takes any number of them.                                        *)
LEMMA GlobStar ==
  ASSUME NEW p, Sized(p), NEW s, Sized(s), NEW g, Globs(g, p, s), NEW j \in 0 .. Len(s),
         NEW i \in 0 .. Len(p) - 1, p[i + 1] = "*"
  PROVE  g[<<i, j>>] <=> Onward(g, s, i + 1, j)
<1>0. Len(p) \in Nat
  BY DEF Sized
<1>1. i \in 0 .. Len(p) /\ i # Len(p)
  BY <1>0
<1>2. g[<<i, j>>] = GlobStep(g, p, s, i, j)
  BY <1>1 DEF Globs
<1> QED
  BY <1>1, <1>2 DEF GlobStep, Onward

(* A run of letters matches when the name has them and the rest matches.   *)
Lettered(p, i, e) == \A x \in i + 1 .. e : p[x] # "*"

(* A run that is one longer has one letter more.                           *)
LEMMA LettersGrow ==
  ASSUME NEW p, NEW s, Sized(s), NEW i \in Nat, NEW j \in Nat, NEW l \in Nat
  PROVE  LettersAt(p, i, i + (l + 1), s, j) <=>
           LettersAt(p, i, i + l, s, j) /\ j + l < Len(s) /\ p[i + l + 1] = s[j + l + 1]
<1>0. Len(s) \in Nat
  BY DEF Sized
<1>1. i + (l + 1) - i = l + 1 /\ i + l - i = l /\ j + (i + (l + 1)) - i = j + l + 1
      /\ j + (i + l) - i = j + l /\ i + (l + 1) = i + l + 1 /\ j + (l + 1) = j + l + 1
  OBVIOUS
<1>2. \A x \in 1 .. l + 1 : x \in 1 .. l \/ x = l + 1
  OBVIOUS
<1>3. l + 1 \in 1 .. l + 1 /\ 1 .. l \subseteq 1 .. l + 1
  OBVIOUS
<1>4. (\A x \in 1 .. l + 1 : p[i + x] = s[j + x]) <=>
        (\A x \in 1 .. l : p[i + x] = s[j + x]) /\ p[i + l + 1] = s[j + l + 1]
  BY <1>1, <1>2, <1>3
<1>5. j + l + 1 <= Len(s) <=> j + l <= Len(s) /\ j + l < Len(s)
  BY <1>0
<1>6. LettersAt(p, i, i + (l + 1), s, j) <=>
        j + l + 1 <= Len(s) /\ \A x \in 1 .. l + 1 : p[i + x] = s[j + x]
  BY <1>1 DEF LettersAt
<1>7. LettersAt(p, i, i + l, s, j) <=>
        j + l <= Len(s) /\ \A x \in 1 .. l : p[i + x] = s[j + x]
  BY <1>1 DEF LettersAt
<1> QED
  BY <1>4, <1>5, <1>6, <1>7

(* So a run of letters of the pattern is read at once.                     *)
LEMMA GlobRun ==
  ASSUME NEW p, Sized(p), NEW s, Sized(s), NEW g, Globs(g, p, s),
         NEW i \in 0 .. Len(p), NEW e \in i .. Len(p), NEW j \in 0 .. Len(s), Lettered(p, i, e)
  PROVE  g[<<i, j>>] <=> LettersAt(p, i, e, s, j) /\ g[<<e, j + (e - i)>>]
<1>0. Len(p) \in Nat /\ Len(s) \in Nat /\ i \in Nat /\ j \in Nat /\ e - i \in Nat
  BY DEF Sized
<1> DEFINE Run(l) == g[<<i, j>>] <=> LettersAt(p, i, i + l, s, j) /\ g[<<i + l, j + l>>]
           P == {l \in Nat : l <= e - i => Run(l)}
<1>1. 0 \in P
  <2>1. LettersAt(p, i, i + 0, s, j)
    BY <1>0 DEF LettersAt
  <2>2. i + 0 = i /\ j + 0 = j
    BY <1>0
  <2>3. Run(0)
    BY <2>1, <2>2
  <2> QED
    BY <2>3
<1>2. ASSUME NEW l \in Nat, l \in P PROVE l + 1 \in P
  <2> SUFFICES ASSUME l + 1 <= e - i PROVE Run(l + 1)
    OBVIOUS
  <2>1. Run(l)
    BY <1>0, <1>2
  <2>2. i + l \in 0 .. Len(p) - 1 /\ i + l + 1 \in i + 1 .. e
    BY <1>0
  <2>3. p[i + l + 1] # "*"
    BY <2>2 DEF Lettered
  <2>4. ASSUME j + l <= Len(s)
        PROVE  g[<<i + l, j + l>>] <=>
                 j + l < Len(s) /\ p[i + l + 1] = s[j + l + 1] /\ g[<<i + l + 1, j + l + 1>>]
    <3>1. j + l \in 0 .. Len(s)
      BY <1>0, <2>4
    <3> QED
      BY <2>2, <2>3, <3>1, GlobLetter
  <2>5. LettersAt(p, i, i + l, s, j) => j + l <= Len(s)
    <3>1. j + (i + l) - i = j + l
      BY <1>0
    <3> QED
      BY <3>1 DEF LettersAt
  <2>6. LettersAt(p, i, i + (l + 1), s, j) <=>
          LettersAt(p, i, i + l, s, j) /\ j + l < Len(s) /\ p[i + l + 1] = s[j + l + 1]
    BY <1>0, LettersGrow
  <2>7. i + (l + 1) = i + l + 1 /\ j + (l + 1) = j + l + 1
    BY <1>0
  <2> QED
    BY <2>1, <2>4, <2>5, <2>6, <2>7
<1>3. Nat \subseteq P
  <2>1. \A l \in Nat : l \in P => l + 1 \in P
    BY <1>2
  <2> HIDE DEF P
  <2> QED
    BY <1>1, <2>1, NumberInduction
<1>4. Run(e - i)
  <2>1. e - i \in P
    <3> HIDE DEF P
    <3> QED
      BY <1>0, <1>3
  <2>2. e - i <= e - i
    BY <1>0
  <2> QED
    BY <2>1, <2>2
<1>5. i + (e - i) = e
  BY <1>0
<1> QED
  BY <1>4, <1>5

(* Up to the last star, the letters after it are left for the end.         *)
LEMMA GlobLeavesRoom ==
  ASSUME NEW p, Sized(p), NEW s, Sized(s), NEW g, Globs(g, p, s), Stars(p) # {},
         NEW i \in 0 .. LastStar(p), NEW j \in 0 .. Len(s), g[<<i, j>>]
  PROVE  j <= Len(s) - (Len(p) - LastStar(p))
<1>0. Len(p) \in Nat /\ Len(s) \in Nat /\ LastStar(p) \in 1 .. Len(p)
  BY StarsOrdered DEF Sized
<1> DEFINE Last == LastStar(p)
           Ends(a, b) == \E m \in b .. Len(s) : g[<<Last, m>>]
           P == {n \in Nat : n <= Last => \A b \in 0 .. Len(s) :
                   g[<<Last - n, b>>] => Ends(Last - n, b)}
<1>1. 0 \in P
  <2>1. Last - 0 = Last
    BY <1>0
  <2>2. \A b \in 0 .. Len(s) : b \in b .. Len(s)
    BY <1>0
  <2> QED
    BY <2>1, <2>2
<1>2. ASSUME NEW n \in Nat, n \in P PROVE n + 1 \in P
  <2> SUFFICES ASSUME n + 1 <= Last, NEW b \in 0 .. Len(s), g[<<Last - (n + 1), b>>]
               PROVE  Ends(Last - (n + 1), b)
    OBVIOUS
  <2> DEFINE a == Last - (n + 1)
  <2>1. a \in 0 .. Len(p) - 1 /\ a + 1 = Last - n
    BY <1>0
  <2>2. \E k \in b .. Len(s) : g[<<a + 1, k>>]
    <3>0. g[<<a, b>>]
      OBVIOUS
    <3> HIDE DEF a, P
    <3>1. CASE p[a + 1] = "*"
      <4>1. Onward(g, s, a + 1, b)
        BY <2>1, <3>0, <3>1, GlobStar
      <4> QED
        BY <4>1 DEF Onward
    <3>2. CASE p[a + 1] # "*"
      <4>1. b < Len(s) /\ g[<<a + 1, b + 1>>]
        BY <2>1, <3>0, <3>2, GlobLetter
      <4>2. b + 1 \in b .. Len(s)
        BY <1>0, <4>1
      <4> QED
        BY <4>1, <4>2
    <3> QED
      BY <3>1, <3>2
  <2>3. PICK k \in b .. Len(s) : g[<<Last - n, k>>]
    BY <2>1, <2>2
  <2>4. k \in 0 .. Len(s) /\ n <= Last
    BY <1>0
  <2>5. \E m \in k .. Len(s) : g[<<Last, m>>]
    BY <1>2, <2>3, <2>4
  <2> QED
    BY <1>0, <2>5
<1>3. Nat \subseteq P
  <2>1. \A n \in Nat : n \in P => n + 1 \in P
    BY <1>2
  <2> HIDE DEF P
  <2> QED
    BY <1>1, <2>1, NumberInduction
<1>4. \E m \in j .. Len(s) : g[<<Last, m>>]
  <2>1. Last - i \in Nat /\ Last - i <= Last /\ Last - (Last - i) = i
    BY <1>0
  <2>2. Last - i \in P
    BY <1>3, <2>1
  <2> QED
    BY <2>1, <2>2
<1>5. PICK m \in j .. Len(s) : g[<<Last, m>>]
  BY <1>4
<1>6. Last \in 0 .. Len(p) /\ Len(p) \in Last .. Len(p) /\ m \in 0 .. Len(s)
  BY <1>0
<1>7. Lettered(p, Last, Len(p))
  BY StarsOrdered DEF Lettered
<1>8. LettersAt(p, Last, Len(p), s, m)
  <2> HIDE DEF Last
  <2> QED
    BY <1>5, <1>6, <1>7, GlobRun
<1>9. m + Len(p) - Last <= Len(s)
  BY <1>8 DEF LettersAt
<1> QED
  BY <1>0, <1>9

(* The search finds the parts from star i on, and the tail at the end.     *)
FoundFrom(p, s, f, i, k) ==
  LET end == Len(s) - (Len(p) - LastStar(p))
  IN k <= end /\ LettersAt(p, LastStar(p), Len(p), s, end) /\ f[<<i, k>>]

(* The letters after the last star match at the very end of the name only. *)
LEMMA TailFits ==
  ASSUME NEW p, Sized(p), NEW s, Sized(s), NEW g, Globs(g, p, s), Stars(p) # {},
         NEW m \in 0 .. Len(s)
  PROVE  g[<<LastStar(p), m>>] <=>
           /\ m = Len(s) - (Len(p) - LastStar(p))
           /\ LettersAt(p, LastStar(p), Len(p), s, m)
<1> DEFINE Last == LastStar(p)
<1>0. Len(p) \in Nat /\ Len(s) \in Nat /\ Last \in 1 .. Len(p)
  BY StarsOrdered DEF Sized
<1>1. Last \in 0 .. Len(p) /\ Len(p) \in Last .. Len(p)
  BY <1>0
<1>2. Lettered(p, Last, Len(p))
  BY StarsOrdered DEF Lettered
<1>3. g[<<Last, m>>] <=> LettersAt(p, Last, Len(p), s, m) /\ g[<<Len(p), m + (Len(p) - Last)>>]
  <2> HIDE DEF Last
  <2> QED
    BY <1>1, <1>2, GlobRun
<1>4. ASSUME LettersAt(p, Last, Len(p), s, m)
      PROVE  g[<<Len(p), m + (Len(p) - Last)>>] <=> m = Len(s) - (Len(p) - Last)
  <2>1. m + Len(p) - Last <= Len(s)
    BY <1>4 DEF LettersAt
  <2>2. m + (Len(p) - Last) \in 0 .. Len(s)
    BY <1>0, <2>1
  <2>3. g[<<Len(p), m + (Len(p) - Last)>>] <=> m + (Len(p) - Last) = Len(s)
    <3> HIDE DEF Last
    <3> QED
      BY <2>2, GlobEnd
  <2> QED
    BY <1>0, <2>3
<1> QED
  BY <1>3, <1>4

(* The part after a star that is not the last is a run of letters.         *)
LEMMA PartRuns ==
  ASSUME NEW p, Sized(p), NEW s, Sized(s), NEW g, Globs(g, p, s),
         NEW i \in Stars(p), i # LastStar(p), NEW m \in 0 .. Len(s)
  PROVE  LET len == NextStar(p, i) - 1 - i
         IN g[<<i, m>>] <=> LettersAt(p, i, i + len, s, m) /\ g[<<NextStar(p, i) - 1, m + len>>]
<1> DEFINE e == NextStar(p, i) - 1
<1>0. Len(p) \in Nat /\ i \in 1 .. Len(p) /\ NextStar(p, i) \in 1 .. Len(p) /\ i < NextStar(p, i)
  <2>1. Stars(p) \subseteq 1 .. Len(p)
    BY DEF Stars, Sized
  <2> QED
    BY <2>1, NextStars DEF Sized
<1>1. i \in 0 .. Len(p) /\ e \in i .. Len(p)
  BY <1>0
<1>2. Lettered(p, i, e)
  BY NextStars DEF Lettered
<1>3. i + (e - i) = e /\ e - i = NextStar(p, i) - 1 - i
  BY <1>0
<1> HIDE DEF e
<1>4. g[<<i, m>>] <=> LettersAt(p, i, e, s, m) /\ g[<<e, m + (e - i)>>]
  BY <1>1, <1>2, GlobRun
<1> QED
  BY <1>3, <1>4 DEF e

(* From star i on, the reading letter by letter and the search for the     *)
(* parts agree.                                                            *)
AgreeFrom(g, f, p, s, i) ==
  \A k \in 0 .. Len(s) : g[<<i - 1, k>>] <=> FoundFrom(p, s, f, i, k)

(* A star may take any letters.                                            *)
LEMMA StarStep ==
  ASSUME NEW p, Sized(p), NEW s, Sized(s), NEW g, Globs(g, p, s), NEW i \in Stars(p),
         NEW k \in 0 .. Len(s)
  PROVE  g[<<i - 1, k>>] <=> Onward(g, s, i, k)
<1>1. Len(p) \in Nat /\ i \in 1 .. Len(p) /\ p[i] = "*"
  BY DEF Stars, Sized
<1> DEFINE h == i - 1
<1>2. h \in 0 .. Len(p) - 1 /\ h + 1 = i
  BY <1>1
<1>3. p[h + 1] = "*"
  BY <1>1, <1>2
<1> HIDE DEF h
<1>4. g[<<h, k>>] <=> Onward(g, s, h + 1, k)
  BY <1>2, <1>3, GlobStar
<1> QED
  BY <1>2, <1>4 DEF h

(* They agree from the last star on: the tail is at the end.               *)
LEMMA LastAgrees ==
  ASSUME NEW p, Sized(p), NEW s, Sized(s), NEW g, Globs(g, p, s), Stars(p) # {},
         Len(s) - (Len(p) - LastStar(p)) \in Nat,
         NEW f, Founds(f, p, s, Len(s) - (Len(p) - LastStar(p)))
  PROVE  AgreeFrom(g, f, p, s, LastStar(p))
<1> DEFINE Last == LastStar(p)
           end == Len(s) - (Len(p) - LastStar(p))
<1>0. Len(p) \in Nat /\ Len(s) \in Nat /\ Last \in 1 .. Len(p) /\ Last \in Stars(p)
  BY StarsOrdered DEF Sized
<1>1. end \in 0 .. Len(s)
  BY <1>0
<1> SUFFICES ASSUME NEW k \in 0 .. Len(s)
             PROVE  g[<<Last - 1, k>>] <=> FoundFrom(p, s, f, Last, k)
  BY DEF AgreeFrom
<1>2. g[<<Last - 1, k>>] <=> Onward(g, s, Last, k)
  BY <1>0, StarStep
<1>3. \A m \in 0 .. Len(s) : g[<<Last, m>>] <=> m = end /\ LettersAt(p, Last, Len(p), s, m)
  BY TailFits
<1>4. k <= end => f[<<Last, k>>]
  <2> SUFFICES ASSUME k <= end PROVE f[<<Last, k>>]
    OBVIOUS
  <2>1. k \in 0 .. end
    BY <1>1
  <2>2. f[<<Last, k>>] = FindParts(f, p, s, end, Last, k)
    BY <1>0, <2>1 DEF Founds
  <2>3. FindParts(f, p, s, end, Last, k)
    BY DEF FindParts
  <2> QED
    BY <2>2, <2>3
<1>5. FoundFrom(p, s, f, Last, k) <=> k <= end /\ LettersAt(p, Last, Len(p), s, end)
  BY <1>4 DEF FoundFrom
<1> HIDE DEF Last, end
<1>6. Onward(g, s, Last, k) <=> k <= end /\ LettersAt(p, Last, Len(p), s, end)
  <2>1. ASSUME NEW m \in k .. Len(s), g[<<Last, m>>]
        PROVE  k <= end /\ LettersAt(p, Last, Len(p), s, end)
    <3>1. m \in 0 .. Len(s) /\ k <= m
      BY <1>0
    <3> QED
      BY <1>3, <2>1, <3>1
  <2>2. ASSUME k <= end, LettersAt(p, Last, Len(p), s, end)
        PROVE  end \in k .. Len(s) /\ g[<<Last, end>>]
    <3>1. end \in k .. Len(s)
      BY <1>0, <1>1, <2>2
    <3> QED
      BY <1>1, <1>3, <2>2, <3>1
  <2> QED
    BY <2>1, <2>2 DEF Onward
<1> QED
  BY <1>2, <1>5, <1>6

(* They agree from an earlier one, if they do from the next: where its     *)
(* part fits at all, the first place leaves the rest the most of the name. *)
LEMMA EarlierAgrees ==
  ASSUME NEW p, Sized(p), NEW s, Sized(s), NEW g, Globs(g, p, s),
         NEW i \in Stars(p), i # LastStar(p),
         Len(s) - (Len(p) - LastStar(p)) \in Nat,
         NEW f, Founds(f, p, s, Len(s) - (Len(p) - LastStar(p))),
         AgreeFrom(g, f, p, s, NextStar(p, i))
  PROVE  AgreeFrom(g, f, p, s, i)
<1> DEFINE next == NextStar(p, i)
           len == next - 1 - i
           end == Len(s) - (Len(p) - LastStar(p))
           T == LettersAt(p, LastStar(p), Len(p), s, end)
<1>0. /\ Len(p) \in Nat /\ Len(s) \in Nat /\ i \in 1 .. Len(p) /\ next \in 1 .. Len(p) /\ i < next
      /\ next \in Stars(p) /\ LastStar(p) \in 1 .. Len(p)
  <2>1. Stars(p) \subseteq 1 .. Len(p)
    BY DEF Stars, Sized
  <2> QED
    BY <2>1, NextStars, StarsOrdered DEF Sized
<1>1. end \in 0 .. Len(s) /\ end \in Nat /\ len \in Nat
  BY <1>0
<1> SUFFICES ASSUME NEW k \in 0 .. Len(s)
             PROVE  g[<<i - 1, k>>] <=> FoundFrom(p, s, f, i, k)
  BY DEF AgreeFrom
<1> DEFINE S == Places(p, s, end, i, k)
           n == CHOOSE n \in S : \A m \in S : n <= m
<1>2. g[<<i - 1, k>>] <=> Onward(g, s, i, k)
  BY StarStep
<1>3. \A m \in 0 .. Len(s) : g[<<i, m>>] <=> LettersAt(p, i, i + len, s, m) /\ g[<<next - 1, m + len>>]
  BY PartRuns
<1>4. \A m \in 0 .. Len(s) : g[<<next - 1, m>>] <=> m <= end /\ T /\ f[<<next, m>>]
  BY DEF AgreeFrom, FoundFrom
<1>5. \A a, b \in 0 .. Len(s) : a <= b /\ g[<<next - 1, b>>] => g[<<next - 1, a>>]
  <2> HIDE DEF next
  <2> SUFFICES ASSUME NEW a \in 0 .. Len(s), NEW b \in 0 .. Len(s), a <= b, g[<<next - 1, b>>]
               PROVE  g[<<next - 1, a>>]
    OBVIOUS
  <2>1. Onward(g, s, next, b)
    BY <1>0, StarStep
  <2>2. Onward(g, s, next, a)
    <3>1. b .. Len(s) \subseteq a .. Len(s)
      BY <1>0
    <3> QED
      BY <2>1, <3>1 DEF Onward
  <2> QED
    BY <1>0, <2>2, StarStep
<1>6. S # {} => k <= end
  BY <1>0, <1>1 DEF Places
<1>7. k <= end => (f[<<i, k>>] <=> S # {} /\ f[<<next, n + len>>])
  <2> SUFFICES ASSUME k <= end PROVE f[<<i, k>>] <=> S # {} /\ f[<<next, n + len>>]
    OBVIOUS
  <2>1. k \in 0 .. end
    BY <1>1
  <2>2. f[<<i, k>>] = FindParts(f, p, s, end, i, k)
    BY <2>1 DEF Founds
  <2> QED
    BY <2>2, FindPartsDefined
<1>8. S # {} => /\ n \in S /\ \A m \in S : n <= m
                /\ n + len \in 0 .. end
  <2> SUFFICES ASSUME S # {} PROVE n \in S /\ (\A m \in S : n <= m) /\ n + len \in 0 .. end
    OBVIOUS
  <2>1. k \in 0 .. end
    BY <1>1, <1>6
  <2> QED
    BY <1>1, <2>1, FirstPlace
<1>9. \A m : m \in S <=> m \in k .. end - len /\ LettersAt(p, i, i + len, s, m)
  BY DEF Places
<1>10. FoundFrom(p, s, f, i, k) <=> S # {} /\ T /\ f[<<next, n + len>>]
  BY <1>6, <1>7 DEF FoundFrom
<1> HIDE DEF next, len, end, T, S, n
<1>11. Onward(g, s, i, k) => S # {} /\ T /\ f[<<next, n + len>>]
  <2> SUFFICES ASSUME NEW m \in k .. Len(s), g[<<i, m>>]
               PROVE  S # {} /\ T /\ f[<<next, n + len>>]
    BY DEF Onward
  <2>1. m \in 0 .. Len(s) /\ LettersAt(p, i, i + len, s, m) /\ g[<<next - 1, m + len>>]
    BY <1>0, <1>3
  <2>2. m + len \in 0 .. Len(s)
    <3>1. m + (i + len) - i <= Len(s)
      BY <2>1 DEF LettersAt
    <3> QED
      BY <1>0, <1>1, <2>1, <3>1
  <2>3. m + len <= end /\ T
    BY <1>4, <2>1, <2>2
  <2>4. m \in S
    BY <1>0, <1>1, <1>9, <2>1, <2>3
  <2>5. n \in k .. end - len /\ n <= m /\ n + len \in 0 .. end
    BY <1>8, <1>9, <2>4
  <2>6. n + len \in 0 .. Len(s) /\ n + len <= m + len
    BY <1>0, <1>1, <2>1, <2>5
  <2>7. g[<<next - 1, n + len>>]
    BY <1>5, <2>1, <2>2, <2>6
  <2> QED
    BY <1>4, <2>3, <2>4, <2>6, <2>7
<1>12. S # {} /\ T /\ f[<<next, n + len>>] => Onward(g, s, i, k)
  <2> SUFFICES ASSUME S # {}, T, f[<<next, n + len>>] PROVE Onward(g, s, i, k)
    OBVIOUS
  <2>1. n \in k .. end - len /\ LettersAt(p, i, i + len, s, n) /\ n + len \in 0 .. end
    BY <1>8, <1>9
  <2>2. n + len \in 0 .. Len(s) /\ n + len <= end /\ n \in 0 .. Len(s) /\ n \in k .. Len(s)
    BY <1>0, <1>1, <2>1
  <2>3. g[<<next - 1, n + len>>]
    BY <1>4, <2>2
  <2>4. g[<<i, n>>]
    BY <1>3, <2>1, <2>2, <2>3
  <2> QED
    BY <2>2, <2>4 DEF Onward
<1> QED
  BY <1>2, <1>10, <1>11, <1>12

(* So they agree from every star on.                                       *)
LEMMA StarsAgree ==
  ASSUME NEW p, Sized(p), NEW s, Sized(s), NEW g, Globs(g, p, s), Stars(p) # {},
         Len(s) - (Len(p) - LastStar(p)) \in Nat,
         NEW f, Founds(f, p, s, Len(s) - (Len(p) - LastStar(p)))
  PROVE  \A i \in Stars(p) : AgreeFrom(g, f, p, s, i)
<1>0. Len(p) \in Nat /\ Stars(p) \subseteq 1 .. Len(p)
  BY DEF Sized, Stars
<1> DEFINE P == {n \in Nat : \A i \in Stars(p) : Len(p) - i < n => AgreeFrom(g, f, p, s, i)}
<1>1. 0 \in P
  BY <1>0
<1>2. ASSUME NEW n \in Nat, n \in P PROVE n + 1 \in P
  <2> SUFFICES ASSUME NEW i \in Stars(p), Len(p) - i < n + 1 PROVE AgreeFrom(g, f, p, s, i)
    OBVIOUS
  <2>1. CASE i = LastStar(p)
    BY <2>1, LastAgrees
  <2>2. CASE i # LastStar(p)
    <3>1. NextStar(p, i) \in Stars(p) /\ i < NextStar(p, i)
      BY <2>2, NextStars
    <3>2. Len(p) - NextStar(p, i) < n
      BY <1>0, <3>1
    <3>3. AgreeFrom(g, f, p, s, NextStar(p, i))
      BY <1>2, <3>1, <3>2
    <3> HIDE DEF P
    <3> QED
      BY <2>2, <3>3, EarlierAgrees
  <2> QED
    BY <2>1, <2>2
<1>3. Nat \subseteq P
  <2>1. \A n \in Nat : n \in P => n + 1 \in P
    BY <1>2
  <2> HIDE DEF P
  <2> QED
    BY <1>1, <2>1, NumberInduction
<1>4. Len(p) \in P
  BY <1>0, <1>3
<1> QED
  BY <1>0, <1>4

(* The search decides what the reading letter by letter does.              *)
LEMMA WildcardIsGlob ==
  ASSUME NEW p, Sized(p), NEW s, Sized(s), Stars(p) # {}
  PROVE  Wildcard(p, s) <=> Glob(p, s)
<1> DEFINE First == FirstStar(p)
           head == First - 1
           end == Len(s) - (Len(p) - LastStar(p))
<1>0. /\ Len(p) \in Nat /\ Len(s) \in Nat /\ First \in 1 .. Len(p) /\ LastStar(p) \in 1 .. Len(p)
      /\ First \in Stars(p) /\ LastStar(p) \in Stars(p)
  BY StarsOrdered DEF Sized
<1>1. First <= LastStar(p)
  <2>1. p[LastStar(p)] = "*"
    BY <1>0 DEF Stars
  <2>2. \A x \in 1 .. First - 1 : p[x] # "*"
    BY StarsOrdered
  <2>3. LastStar(p) \notin 1 .. First - 1
    BY <2>1, <2>2
  <2> QED
    BY <1>0, <2>3
<1>2. PICK g : Globs(g, p, s) /\ Glob(p, s) = g[<<0, 0>>]
  BY GlobReads
<1>3. g[<<0, 0>>] <=> LettersAt(p, 0, head, s, 0) /\ g[<<head, head>>]
  <2>1. 0 \in 0 .. Len(p) /\ 0 \in 0 .. Len(s) /\ head \in 0 .. Len(p) /\ 0 + (head - 0) = head
    BY <1>0
  <2>2. Lettered(p, 0, head)
    <3>1. \A x \in 1 .. First - 1 : p[x] # "*"
      BY StarsOrdered
    <3>2. 0 + 1 = 1
      OBVIOUS
    <3> QED
      BY <3>1, <3>2 DEF Lettered
  <2> HIDE DEF head
  <2> QED
    BY <1>2, <2>1, <2>2, GlobRun
<1>4. LettersAt(p, 0, head, s, 0) => head \in 0 .. Len(s)
  <2>1. 0 + head - 0 = head
    BY <1>0
  <2> QED
    BY <1>0, <2>1 DEF LettersAt
<1>5. CASE head <= end
  <2>1. end \in Nat
    BY <1>0, <1>5
  <2>2. \E f : /\ Founds(f, p, s, end)
               /\ Wildcard(p, s) <=> /\ LettersAt(p, 0, head, s, 0)
                                     /\ LettersAt(p, LastStar(p), Len(p), s, end)
                                     /\ f[<<First, head>>]
    BY <1>5, WildcardFinds
  <2>3. PICK f : /\ Founds(f, p, s, end)
                 /\ Wildcard(p, s) <=> /\ LettersAt(p, 0, head, s, 0)
                                       /\ LettersAt(p, LastStar(p), Len(p), s, end)
                                       /\ f[<<First, head>>]
    BY <2>2
  <2>4. AgreeFrom(g, f, p, s, First)
    BY <1>0, <1>2, <2>1, <2>3, StarsAgree
  <2>5. head \in 0 .. Len(s) =>
          (g[<<head, head>>] <=> LettersAt(p, LastStar(p), Len(p), s, end) /\ f[<<First, head>>])
    BY <1>5, <2>4 DEF AgreeFrom, FoundFrom
  <2> QED
    BY <1>2, <1>3, <1>4, <2>3, <2>5
<1>6. CASE ~ (head <= end)
  <2>1. ~ Wildcard(p, s)
    BY <1>6 DEF Wildcard
  <2>2. head \in 0 .. LastStar(p)
    BY <1>0, <1>1
  <2>3. head \in 0 .. Len(s) => ~ g[<<head, head>>]
    <3> HIDE DEF head
    <3> SUFFICES ASSUME head \in 0 .. Len(s), g[<<head, head>>] PROVE FALSE
      OBVIOUS
    <3>1. head <= Len(s) - (Len(p) - LastStar(p))
      BY <1>2, <2>2, GlobLeavesRoom
    <3> QED
      BY <1>6, <3>1
  <2> QED
    BY <1>2, <1>3, <1>4, <2>1, <2>3
<1> QED
  BY <1>5, <1>6

(* A pattern without stars matches itself only; any pattern, itself.       *)
LEMMA GlobOfLetters ==
  ASSUME NEW p \in Seq(STRING), NEW s \in Seq(STRING), Stars(p) = {}
  PROVE  Glob(p, s) => p = s
<1>0. Sized(p) /\ Sized(s)
  BY DEF Sized
<1>1. PICK g : Globs(g, p, s) /\ Glob(p, s) = g[<<0, 0>>]
  BY <1>0, GlobReads
<1>2. Lettered(p, 0, Len(p))
  BY DEF Stars, Lettered
<1>3. 0 \in 0 .. Len(p) /\ Len(p) \in 0 .. Len(p) /\ 0 \in 0 .. Len(s)
      /\ 0 + (Len(p) - 0) = Len(p) /\ 0 + Len(p) - 0 = Len(p) /\ Len(p) - 0 = Len(p)
  OBVIOUS
<1> SUFFICES ASSUME Glob(p, s) PROVE p = s
  OBVIOUS
<1>4. LettersAt(p, 0, Len(p), s, 0) /\ g[<<Len(p), Len(p)>>]
  BY <1>0, <1>1, <1>2, <1>3, GlobRun
<1>5. Len(p) <= Len(s) /\ \A x \in 1 .. Len(p) : p[0 + x] = s[0 + x]
  BY <1>3, <1>4 DEF LettersAt
<1>6. Len(p) \in 0 .. Len(s)
  BY <1>5
<1>7. Len(p) = Len(s)
  BY <1>0, <1>1, <1>4, <1>6, GlobEnd
<1>8. \A x \in 1 .. Len(p) : p[x] = s[x]
  BY <1>5
<1> QED
  BY <1>7, <1>8

(* ... as each letter is the same and a star can take one.                 *)
LEMMA GlobOfItself ==
  ASSUME NEW p \in Seq(STRING)
  PROVE  Glob(p, p)
<1>0. Sized(p) /\ Len(p) \in Nat
  BY DEF Sized
<1>1. PICK g : Globs(g, p, p) /\ Glob(p, p) = g[<<0, 0>>]
  BY <1>0, GlobReads
<1> DEFINE N == Len(p)
           P == {n \in Nat : n <= N => g[<<N - n, N - n>>]}
<1>2. 0 \in P
  <2>1. N - 0 = N /\ N \in 0 .. Len(p)
    BY <1>0
  <2>2. g[<<N, N>>]
    BY <1>0, <1>1, <2>1, GlobEnd
  <2> QED
    BY <2>1, <2>2
<1>3. ASSUME NEW n \in Nat, n \in P PROVE n + 1 \in P
  <2> SUFFICES ASSUME n + 1 <= N PROVE g[<<N - (n + 1), N - (n + 1)>>]
    OBVIOUS
  <2> DEFINE i == N - (n + 1)
  <2>1. i \in 0 .. Len(p) - 1 /\ i \in 0 .. Len(p) /\ i + 1 = N - n /\ i + 1 \in i .. Len(p)
        /\ i < Len(p)
    BY <1>0
  <2>2. g[<<i + 1, i + 1>>]
    BY <1>0, <1>3, <2>1
  <2> HIDE DEF i, P, N
  <2>3. CASE p[i + 1] = "*"
    <3>1. Onward(g, p, i + 1, i)
      BY <2>1, <2>2 DEF Onward
    <3> QED
      BY <1>0, <1>1, <2>1, <2>3, <3>1, GlobStar DEF i
  <2>4. CASE p[i + 1] # "*"
    BY <1>0, <1>1, <2>1, <2>2, <2>4, GlobLetter DEF i
  <2> QED
    BY <2>3, <2>4 DEF i
<1>4. Nat \subseteq P
  <2>1. \A n \in Nat : n \in P => n + 1 \in P
    BY <1>3
  <2> HIDE DEF P
  <2> QED
    BY <1>2, <2>1, NumberInduction
<1>5. N \in P /\ N <= N /\ N - N = 0
  BY <1>0, <1>4
<1> QED
  BY <1>1, <1>5

(* What a pattern matches is what its stars can be filled in to, for every *)
(* pattern and every name (wildcardMatch).                                 *)
THEOREM PatternsMeanWhatTheySay ==
  ASSUME NEW p \in Seq(STRING), NEW s \in Seq(STRING)
  PROVE  ModelMatches(p, s) <=> Glob(p, s)
<1>1. Sized(p) /\ Sized(s)
  BY DEF Sized
<1>2. Stars(p) # {} => (Wildcard(p, s) <=> Glob(p, s))
  BY <1>1, WildcardIsGlob
<1>3. p = s => Glob(p, s)
  BY GlobOfItself
<1>4. Stars(p) = {} => (Glob(p, s) => p = s)
  BY GlobOfLetters
<1> QED
  BY <1>2, <1>3, <1>4 DEF ModelMatches

-----------------------------------------------------------------------------
(* The inductive invariant. *)

(* A rule as the editor stores it: "validated on save", its expression     *)
(* compiles.                                                               *)
Stored(r) == IsRule(r) /\ Compiles(r.expr)

(* The tables hold what their columns allow.                               *)
TableInv ==
  /\ DOMAIN rules = RuleIds
  /\ \A id \in RuleIds : rules[id] = NoRow \/ Stored(rules[id])
  /\ channels \in [ChannelIds -> Channels]
  /\ options \in [mock : {"", "true", "false"}, url : {"", "http"}, retries : {0, 1}]
  /\ edits \in 0..MaxEdits

(* A row about to be inserted or saved has been validated, and has a place.*)
Held(x) ==
  /\ DOMAIN x = DOMAIN IdleEditor
  /\ x.at \in {"idle", "refused", "insert", "disable", "save", "url"}
  /\ x.at \in {"insert", "save"} => Stored(x.row)
  /\ x.source \in Seq(STRING)
  /\ x.at \in {"disable", "save"} => x.id \in RuleIds
  /\ x.at = "url" => x.url \in {"", "http"}

(* Every administrator's request in progress is well formed.               *)
EditorInv ==
  DOMAIN editor = Editors /\ \A e \in Editors : Held(editor[e])

(* The rules read are finitely many, each once.                            *)
SnapInv ==
  /\ IsFiniteSet(snap)
  /\ \A r \in snap : /\ r.id \in RuleIds /\ r.enabled /\ r.priority \in Int
                     /\ r.expr \in Seq(STRING)
  /\ \A r, q \in snap : r.id = q.id => r = q

(* The control of the selection; what it knows comes from what it read.    *)
SelectionInv ==
  /\ at \in {"rules", "mock", "url", "channels", "balance"} \cup Done
  /\ storeErrors \in 0..MaxStoreErrors
  /\ req \in Requests
  /\ prompt \in {NoPrompt, Render(req.turns, req.system)}
  /\ probe \in {"none", "mock", "http", "failed"} /\ w \in Int /\ t \in Int
  /\ matched = NoRow \/ matched \in snap
  /\ at = "rules" => matched = NoRow
  /\ cap \in Nat /\ (at = "selected" <=> cap > 0)

(* A channel as the balancing sees it.                                     *)
Candidate == [id : ChannelIds, priority : Int, weight : Int]

(* What is still to be drawn comes after what is drawn, and is not in it.  *)
OrderInv ==
  /\ at \in {"rules", "mock", "url", "channels"} => order = <<>>
  /\ IsFiniteSet(pool) /\ pool \subseteq Candidate
  /\ \A c, d \in pool : c.id = d.id => c = d
  /\ order \in Seq(Candidate)
  /\ \A i, j \in DOMAIN order : i < j =>
       order[i].id # order[j].id /\ order[i].priority >= order[j].priority
  /\ \A i \in DOMAIN order, c \in pool :
       order[i].id # c.id /\ order[i].priority >= c.priority

(* What was decided is what the rules read and the signals still decide.   *)
DecisionInv ==
  at \in {"balance", "nocandidate", "selected"} => matched = Match(snap, w, t)

IInv == TableInv /\ EditorInv /\ SnapInv /\ SelectionInv /\ DecisionInv /\ OrderInv

(* Changing submitted fields of a rule leaves a rule, and a valid          *)
(* expression one that compiles.                                           *)
LEMMA InputKeepsRule ==
  ASSUME NEW row, Stored(row), NEW in, Fits(in), Valid(in)
  PROVE  Stored(ApplyInput(row, in))
<1>1. IsRule(ApplyInput(row, in))
  BY DEF Stored, IsRule, Fits, ApplyInput
<1>2. "expr" \in DOMAIN row
  BY DEF Stored, IsRule, Columns
<1>3. ApplyInput(row, in).expr = IF "expr" \in DOMAIN in THEN in.expr ELSE row.expr
  BY <1>2 DEF ApplyInput
<1>4. Compiles(ApplyInput(row, in).expr)
  BY <1>3 DEF Valid, Stored
<1> QED
  BY <1>1, <1>4 DEF Stored

(* What is submitted is a list of words.                                   *)
LEMMA SourceIsWords ==
  ASSUME NEW in, Fits(in)
  PROVE  Source(in) \in Seq(STRING)
<1>1. Columns["expr"] = Seq(STRING)
  BY DEF Columns
<1>2. "expr" \in DOMAIN in => in["expr"] \in Seq(STRING)
  BY <1>1 DEF Fits
<1>3. <<>> \in Seq(STRING)
  OBVIOUS
<1> QED
  BY <1>2, <1>3 DEF Source

(* Create starts from a rule.                                              *)
LEMMA DefaultIsRule == IsRule(DefaultRule)
<1>1. /\ DOMAIN DefaultRule = DOMAIN Columns
      /\ DOMAIN Columns = {"name", "enabled", "priority", "groups", "patterns", "min", "max",
                            "ids", "group", "expr", "target"}
  BY DEF DefaultRule, Columns
<1>2. /\ DefaultRule["name"] = "rule"
      /\ DefaultRule["enabled"] = TRUE
      /\ DefaultRule["priority"] = 0
      /\ DefaultRule["groups"] = {}
      /\ DefaultRule["patterns"] = {}
      /\ DefaultRule["min"] = 0
      /\ DefaultRule["max"] = 0
      /\ DefaultRule["ids"] = {}
      /\ DefaultRule["group"] = 0
      /\ DefaultRule["expr"] = <<>>
      /\ DefaultRule["target"] = <<>>
  BY DEF DefaultRule, NoGroup, NoModel
<1>3. /\ Columns["name"] = {"", "rule", "new"}
      /\ Columns["enabled"] = BOOLEAN
      /\ Columns["priority"] = Int
      /\ Columns["groups"] = SUBSET Nat
      /\ Columns["patterns"] = SUBSET Seq(STRING)
      /\ Columns["min"] = Int
      /\ Columns["max"] = Int
      /\ Columns["ids"] = SUBSET Nat
      /\ Columns["group"] = Nat
      /\ Columns["expr"] = Seq(STRING)
      /\ Columns["target"] = Seq(STRING)
  BY DEF Columns
<1>4. /\ "rule" \in {"", "rule", "new"} /\ TRUE \in BOOLEAN /\ 0 \in Int /\ 0 \in Nat
      /\ {} \in SUBSET Nat /\ {} \in SUBSET Seq(STRING) /\ <<>> \in Seq(STRING)
  OBVIOUS
<1>5. /\ DefaultRule["name"] \in Columns["name"]
      /\ DefaultRule["enabled"] \in Columns["enabled"]
      /\ DefaultRule["priority"] \in Columns["priority"]
      /\ DefaultRule["groups"] \in Columns["groups"]
      /\ DefaultRule["patterns"] \in Columns["patterns"]
      /\ DefaultRule["min"] \in Columns["min"]
      /\ DefaultRule["max"] \in Columns["max"]
      /\ DefaultRule["ids"] \in Columns["ids"]
      /\ DefaultRule["group"] \in Columns["group"]
      /\ DefaultRule["expr"] \in Columns["expr"]
      /\ DefaultRule["target"] \in Columns["target"]
  BY <1>2, <1>3, <1>4, Zenon
<1>6. \A f \in DOMAIN Columns : DefaultRule[f] \in Columns[f]
  BY <1>1, <1>5
<1> QED
  BY <1>1, <1>6 DEF IsRule, Fits

(* The blank expression is always true.                                    *)
LEMMA DefaultIsStored == Stored(DefaultRule)
<1>1. DefaultRule.expr = <<>>
  BY DEF DefaultRule
<1>2. Compiles(<<>>)
  BY DEF Compiles, Compile, Node
<1> QED
  BY <1>1, <1>2, DefaultIsRule DEF Stored

(* Enabling or disabling a rule leaves a rule.                             *)
LEMMA EnabledKeepsRule ==
  ASSUME NEW r, Stored(r), NEW b \in BOOLEAN
  PROVE  Stored([r EXCEPT !.enabled = b])
<1>1. "enabled" \in DOMAIN Columns /\ Columns["enabled"] = BOOLEAN
  BY DEF Columns
<1>2. IsRule([r EXCEPT !.enabled = b])
  BY <1>1 DEF Stored, IsRule, Fits
<1>3. [r EXCEPT !.enabled = b].expr = r.expr
  BY DEF Stored, IsRule, Columns
<1> QED
  BY <1>2, <1>3 DEF Stored

(* What the engine reads of a rule; no rule is the missing row.            *)
LEMMA RulesAreTyped ==
  ASSUME NEW r, IsRule(r)
  PROVE  /\ r.priority \in Int /\ r.enabled \in BOOLEAN /\ r.expr \in Seq(STRING)
         /\ r # NoRow
<1>1. /\ {"priority", "enabled", "expr"} \subseteq DOMAIN Columns
      /\ Columns["priority"] = Int /\ Columns["enabled"] = BOOLEAN
      /\ Columns["expr"] = Seq(STRING)
  BY DEF Columns
<1>2. "enabled" \notin DOMAIN NoRow
  BY DEF NoRow
<1> QED
  BY <1>1, <1>2 DEF IsRule, Fits

(* The limits are numbers.                                                 *)
LEMMA BoundsAreNumbers ==
  /\ MaxEdits \in Nat /\ MaxStoreErrors \in Nat
  /\ TurnMax \in Nat /\ PromptMax \in Nat /\ Overhead \in Nat
  /\ MockFloor \in Nat /\ MockCap \in Nat
BY RoutingAssumption

(* A blank source has no words.                                            *)
LEMMA NothingIsWords == <<>> \in Seq(STRING)
OBVIOUS

(* An administrator without a request in progress is well formed, ...      *)
LEMMA IdleHeld ==
  Held(IdleEditor)
BY NothingIsWords DEF Held, IdleEditor

(* The invariant holds at the start.                                       *)
LEMMA InitInv == Init => IInv
<1> SUFFICES ASSUME Init PROVE IInv
  OBVIOUS
<1>1. TableInv
  <2>1. DOMAIN rules = RuleIds /\ \A id \in RuleIds : rules[id] = NoRow \/ Stored(rules[id])
    BY InputAssumption DEF Init, Stored
  <2>2. channels \in [ChannelIds -> Channels]
    BY InputAssumption DEF Init
  <2>3. options \in [mock : {"", "true", "false"}, url : {"", "http"}, retries : {0, 1}]
    <3>1. CASE options = [mock |-> "", url |-> "", retries |-> 0]
      BY <3>1
    <3>2. CASE options = [mock |-> "false", url |-> "http", retries |-> 0]
      BY <3>2
    <3> QED
      BY <3>1, <3>2 DEF Init
  <2>4. edits \in 0..MaxEdits
    <3>1. edits = 0
      BY DEF Init
    <3> QED
      BY <3>1, BoundsAreNumbers
  <2> QED
    BY <2>1, <2>2, <2>3, <2>4 DEF TableInv
<1>2. EditorInv
  BY IdleHeld DEF Init, EditorInv
<1>3. SnapInv
  BY FS_EmptySet DEF Init, SnapInv
<1>4. SelectionInv
  <2>1. storeErrors \in 0..MaxStoreErrors /\ at = "rules"
    <3>1. storeErrors = 0 /\ at = "rules"
      BY DEF Init
    <3> QED
      BY <3>1, BoundsAreNumbers
  <2>2. cap = 0 /\ prompt = NoPrompt /\ probe = "none" /\ w = 0 /\ t = 0 /\ matched = NoRow
        /\ req \in Requests
    BY DEF Init
  <2> QED
    BY <2>1, <2>2 DEF SelectionInv
<1>5. OrderInv
  <2>1. order = <<>> /\ pool = {}
    BY DEF Init
  <2>2. <<>> \in Seq(Candidate) /\ DOMAIN <<>> = {}
    OBVIOUS
  <2> QED
    BY <2>1, <2>2, FS_EmptySet DEF OrderInv
<1>6. DecisionInv
  BY DEF Init, DecisionInv
<1> QED
  BY <1>1, <1>2, <1>3, <1>4, <1>5, <1>6 DEF IInv

-----------------------------------------------------------------------------
(* The administrators' steps. *)

(* An edit is counted within its bound.                                    *)
LEMMA BeginCounts ==
  ASSUME IInv, NEW e, Begin(e)
  PROVE  edits' \in 0..MaxEdits
<1>1. edits \in 0..MaxEdits /\ edits < MaxEdits /\ edits' = edits + 1
  BY DEF Begin, IInv, TableInv
<1> QED
  BY <1>1, BoundsAreNumbers

(* An administrator's request is replaced by one that is well formed.      *)
LEMMA EditorSet ==
  ASSUME EditorInv, NEW e \in Editors, NEW x, Held(x), editor' = [editor EXCEPT ![e] = x]
  PROVE  EditorInv'
BY DEF EditorInv

(* A refused request is, ...                                               *)
LEMMA RefusedHeld ==
  ASSUME NEW in, Fits(in)
  PROVE  Held([IdleEditor EXCEPT !.at = "refused", !.source = Source(in)])
BY SourceIsWords DEF Held, IdleEditor

(* ... and one that holds a rule.                                          *)
LEMMA GoingHeld ==
  ASSUME NEW l \in {"insert", "save"}, NEW id, l = "save" => id \in RuleIds,
         NEW row, Stored(row), NEW in, Fits(in)
  PROVE  Held([IdleEditor EXCEPT !.at = l, !.id = id, !.row = row, !.source = Source(in)])
BY SourceIsWords DEF Held, IdleEditor

(* Create and Update only ever hold a rule that they have validated.       *)
LEMMA SubmitKeeps ==
  ASSUME IInv, NEW e \in Editors, NEW in \in Inputs,
         SubmitCreate(e, in) \/ \E id \in RuleIds : SubmitUpdate(e, id, in)
  PROVE  EditorInv' /\ UNCHANGED <<rules, channels, options>> /\ edits' \in 0..MaxEdits
<1>1. Fits(in)
  BY InputAssumption
<1>2. edits' \in 0..MaxEdits
  <2>1. Begin(e)
    BY DEF SubmitCreate, SubmitUpdate
  <2> QED
    BY <2>1, BeginCounts
<1>3. UNCHANGED <<rules, channels, options>>
  BY DEF SubmitCreate, SubmitUpdate
<1>4. ASSUME Refuse(e, in) PROVE EditorInv'
  BY <1>1, <1>4, RefusedHeld, EditorSet DEF Refuse, IInv
<1>5. ASSUME NEW l \in {"insert", "save"}, NEW id, l = "save" => id \in RuleIds,
             NEW row, Stored(row), Going(e, l, id, row, in)
      PROVE  EditorInv'
  BY <1>1, <1>5, GoingHeld, EditorSet DEF Going, IInv
<1>6. ASSUME SubmitCreate(e, in) PROVE EditorInv'
  <2>1. Valid(in) => Stored(ApplyInput(DefaultRule, in))
    BY <1>1, DefaultIsStored, InputKeepsRule
  <2> QED
    BY <1>4, <1>5, <1>6, <2>1 DEF SubmitCreate
<1>7. ASSUME NEW id \in RuleIds, SubmitUpdate(e, id, in) PROVE EditorInv'
  <2>1. Stored(rules[id])
    BY <1>7 DEF SubmitUpdate, IInv, TableInv
  <2>2. Valid(in) => Stored(ApplyInput(rules[id], in))
    BY <1>1, <2>1, InputKeepsRule
  <2> QED
    BY <1>4, <1>5, <1>7, <2>2 DEF SubmitUpdate
<1> QED
  BY <1>2, <1>3, <1>6, <1>7

(* The part of TableInv about the rules, and about the settings.           *)
RulesOK == DOMAIN rules = RuleIds /\ \A id \in RuleIds : rules[id] = NoRow \/ Stored(rules[id])

(* A row is replaced by a rule or removed.                                 *)
LEMMA RowSet ==
  ASSUME RulesOK, NEW id \in RuleIds, NEW row, row = NoRow \/ Stored(row),
         rules' = [rules EXCEPT ![id] = row]
  PROVE  RulesOK'
BY DEF RulesOK

(* What is inserted, saved or deleted leaves rules in the table that       *)
(* compile.                                                                *)
LEMMA RulesKept ==
  ASSUME IInv, NEW e \in Editors,
         \/ \E id \in RuleIds : Insert(e, id) \/ Delete(e, id)
         \/ DisableInserted(e) \/ Save(e)
  PROVE  RulesOK' /\ EditorInv' /\ UNCHANGED <<channels, options>> /\ edits' \in 0..MaxEdits
<1>0. RulesOK /\ EditorInv /\ Held(editor[e]) /\ edits \in 0..MaxEdits
  BY DEF IInv, TableInv, RulesOK, EditorInv
<1>1. ASSUME NEW id \in RuleIds, Insert(e, id)
      PROVE  RulesOK' /\ EditorInv' /\ UNCHANGED <<channels, options, edits>>
  <2>1. Stored(editor[e].row)
    BY <1>0, <1>1 DEF Insert, Held
  <2>2. RulesOK'
    BY <1>0, <1>1, <2>1, EnabledKeepsRule, RowSet DEF Insert
  <2>3. Held([editor[e] EXCEPT !.at = "disable", !.id = id])
    BY <1>0 DEF Held, IdleEditor
  <2>4. EditorInv'
    BY <1>0, <1>1, <2>3, IdleHeld, EditorSet DEF Insert
  <2> QED
    BY <1>1, <2>2, <2>4 DEF Insert
<1>2. ASSUME NEW id \in RuleIds, Delete(e, id)
      PROVE  RulesOK' /\ UNCHANGED <<channels, options, editor>> /\ edits' \in 0..MaxEdits
  <2>1. RulesOK'
    BY <1>0, <1>2, RowSet DEF Delete
  <2> QED
    BY <1>2, <2>1, BeginCounts DEF Delete
<1>3. ASSUME DisableInserted(e)
      PROVE  RulesOK' /\ EditorInv' /\ UNCHANGED <<channels, options, edits>>
  <2>1. editor[e].id \in RuleIds
    BY <1>0, <1>3 DEF DisableInserted, Held
  <2>2. RulesOK'
    <3>1. CASE rules[editor[e].id] = NoRow
      BY <1>0, <1>3, <3>1 DEF DisableInserted, RulesOK
    <3>2. CASE rules[editor[e].id] # NoRow
      <4>1. Stored(rules[editor[e].id])
        BY <1>0, <2>1, <3>2 DEF RulesOK
      <4>2. rules' = [rules EXCEPT ![editor[e].id] = [@ EXCEPT !.enabled = FALSE]]
        BY <1>3, <3>2 DEF DisableInserted
      <4> QED
        BY <1>0, <2>1, <4>1, <4>2, EnabledKeepsRule, RowSet
    <3> QED
      BY <3>1, <3>2
  <2>3. EditorInv'
    BY <1>0, <1>3, IdleHeld, EditorSet DEF DisableInserted
  <2> QED
    BY <1>3, <2>2, <2>3 DEF DisableInserted
<1>4. ASSUME Save(e)
      PROVE  RulesOK' /\ EditorInv' /\ UNCHANGED <<channels, options, edits>>
  <2>1. editor[e].id \in RuleIds /\ Stored(editor[e].row)
    BY <1>0, <1>4 DEF Save, Held
  <2>2. RulesOK'
    BY <1>0, <1>4, <2>1, RowSet DEF Save
  <2>3. EditorInv'
    BY <1>0, <1>4, IdleHeld, EditorSet DEF Save
  <2> QED
    BY <1>4, <2>2, <2>3 DEF Save
<1> QED
  BY <1>0, <1>1, <1>2, <1>3, <1>4 DEF EditorInv

Settings == [mock : {"", "true", "false"}, url : {"", "http"}, retries : {0, 1}]

(* The probe's settings and the cap take the values of their forms.        *)
LEMMA SettingsKept ==
  ASSUME IInv, NEW e \in Editors,
         \/ \E mock \in {"true", "false"}, url \in {"", "http"} : PutProbe(e, mock, url)
         \/ PutURL(e) \/ SetRetries(e, 1)
  PROVE  options' \in Settings /\ EditorInv' /\ UNCHANGED <<rules, channels>>
         /\ edits' \in 0..MaxEdits
<1>0. options \in Settings /\ EditorInv /\ Held(editor[e]) /\ edits \in 0..MaxEdits
  BY DEF IInv, TableInv, Settings, EditorInv
<1>1. ASSUME NEW mock \in {"true", "false"}, NEW url \in {"", "http"}, PutProbe(e, mock, url)
      PROVE  options' \in Settings /\ EditorInv' /\ UNCHANGED <<rules, channels>>
             /\ edits' \in 0..MaxEdits
  <2>1. options' \in Settings
    BY <1>0, <1>1 DEF PutProbe, Settings
  <2>2. Held([IdleEditor EXCEPT !.at = "url", !.url = url])
    BY NothingIsWords DEF Held, IdleEditor
  <2>3. EditorInv'
    BY <1>0, <1>1, <2>2, EditorSet DEF PutProbe
  <2> QED
    BY <1>1, <2>1, <2>3, BeginCounts DEF PutProbe
<1>2. ASSUME PutURL(e)
      PROVE  options' \in Settings /\ EditorInv' /\ UNCHANGED <<rules, channels, edits>>
  <2>1. editor[e].url \in {"", "http"}
    BY <1>0, <1>2 DEF PutURL, Held
  <2>2. options' \in Settings
    BY <1>0, <1>2, <2>1 DEF PutURL, Settings
  <2>3. EditorInv'
    BY <1>0, <1>2, IdleHeld, EditorSet DEF PutURL
  <2> QED
    BY <1>2, <2>2, <2>3 DEF PutURL
<1>3. ASSUME SetRetries(e, 1)
      PROVE  options' \in Settings /\ UNCHANGED <<rules, channels, editor>>
             /\ edits' \in 0..MaxEdits
  BY <1>0, <1>3, BeginCounts DEF SetRetries, Settings
<1> QED
  BY <1>0, <1>1, <1>2, <1>3 DEF EditorInv

(* A toggled channel keeps its columns.                                    *)
LEMMA TogglesKeep ==
  ASSUME IInv, NEW e \in Editors, NEW c \in ChannelIds, Toggle(e, c)
  PROVE  channels' \in [ChannelIds -> Channels] /\ UNCHANGED <<rules, options, editor>>
         /\ edits' \in 0..MaxEdits
<1>1. channels \in [ChannelIds -> Channels]
  BY DEF IInv, TableInv
<1>2. \A x \in Channels, b \in BOOLEAN : [x EXCEPT !.enabled = b] \in Channels
  BY DEF Channels
<1>3. /\ channels' = [channels EXCEPT ![c] = [channels[c] EXCEPT !.enabled = ~ channels[c].enabled]]
      /\ (~ channels[c].enabled) \in BOOLEAN
  BY DEF Toggle
<1>4. channels' \in [ChannelIds -> Channels]
  BY <1>1, <1>2, <1>3
<1> QED
  BY <1>4, BeginCounts DEF Toggle

(* Every edit leaves tables and pending requests well formed, ...          *)
LEMMA EditsKeep ==
  ASSUME IInv, NEW e \in Editors, Edit(e)
  PROVE  TableInv' /\ EditorInv'
<1>0. RulesOK /\ channels \in [ChannelIds -> Channels] /\ options \in Settings /\ EditorInv
  BY DEF IInv, TableInv, RulesOK, Settings
<1>1. CASE \E in \in Inputs :
             SubmitCreate(e, in) \/ \E id \in RuleIds : SubmitUpdate(e, id, in)
  BY <1>0, <1>1, SubmitKeeps DEF TableInv, RulesOK, Settings
<1>2. CASE \/ \E id \in RuleIds : Insert(e, id) \/ Delete(e, id)
           \/ DisableInserted(e) \/ Save(e)
  BY <1>0, <1>2, RulesKept DEF TableInv, RulesOK, Settings
<1>3. CASE \/ \E mock \in {"true", "false"}, url \in {"", "http"} : PutProbe(e, mock, url)
           \/ PutURL(e) \/ SetRetries(e, 1)
  BY <1>0, <1>3, SettingsKept DEF TableInv, RulesOK, Settings
<1>4. CASE \E c \in ChannelIds : Toggle(e, c)
  BY <1>0, <1>4, TogglesKeep DEF TableInv, RulesOK, Settings, EditorInv
<1> QED
  BY <1>1, <1>2, <1>3, <1>4 DEF Edit

(* ... and so does one that fails.                                         *)
LEMMA EditFailureKeeps ==
  ASSUME IInv, NEW e \in Editors, EditFails(e)
  PROVE  TableInv' /\ EditorInv'
<1>1. EditorInv'
  BY IdleHeld, EditorSet DEF IInv, EditFails
<1> QED
  BY <1>1 DEF IInv, EditFails, TableInv

-----------------------------------------------------------------------------
(* Which rule governs. *)

(* A finite set of rules, each once, has a first one.                      *)
LEMMA FirstRule ==
  ASSUME SnapInv, NEW hits \in SUBSET snap, hits # {}
  PROVE  \E r \in hits : \A q \in hits \ {r} : Before(r, q)
<1> DEFINE HasFirst(T) == \E r \in T : \A q \in T \ {r} : Before(r, q)
           P == {T \in SUBSET snap : T # {} => HasFirst(T)}
<1>1. /\ \A r, q \in snap : r # q => Before(r, q) \/ Before(q, r)
      /\ \A r, q, x \in snap : Before(r, q) /\ Before(q, x) => Before(r, x)
  <2>1. \A r \in snap : r.id \in Nat /\ r.priority \in Int
    BY RoutingAssumption DEF SnapInv
  <2> QED
    BY <2>1 DEF Before, SnapInv
<1>2. ASSUME NEW T \in SUBSET snap, \A U \in SUBSET T : U # T => U \in P PROVE T \in P
  <2> SUFFICES ASSUME T # {} PROVE HasFirst(T)
    OBVIOUS
  <2>1. PICK x \in T : TRUE
    OBVIOUS
  <2>2. CASE T \ {x} = {}
    BY <2>2
  <2>3. CASE T \ {x} # {}
    <3>1. HasFirst(T \ {x})
      <4>1. T \ {x} \in SUBSET T /\ T \ {x} # T
        BY <2>1
      <4>2. T \ {x} \in P
        BY <1>2, <4>1
      <4> QED
        BY <2>3, <4>2
    <3>2. PICK m \in T \ {x} : \A q \in (T \ {x}) \ {m} : Before(m, q)
      BY <3>1
    <3>3. CASE Before(x, m)
      <4>1. \A q \in T \ {x} : Before(x, q)
        BY <1>1, <3>2, <3>3
      <4> QED
        BY <4>1
    <3>4. CASE Before(m, x)
      <4>1. \A q \in T \ {m} : Before(m, q)
        BY <3>2, <3>4
      <4> QED
        BY <4>1
    <3> QED
      BY <1>1, <3>2, <3>3, <3>4
  <2> QED
    BY <2>2, <2>3
<1>3. \A T \in SUBSET snap : (\A U \in SUBSET T : U # T => U \in P) => T \in P
  BY <1>2
<1>4. SUBSET snap \subseteq P
  <2>1. IsFiniteSet(snap)
    BY DEF SnapInv
  <2> HIDE DEF P
  <2> QED
    BY <1>3, <2>1, SubsetInduction
<1> QED
  BY <1>4

(* Match is the first of the rules that hold, if one does.                 *)
LEMMA MatchIsFirst ==
  ASSUME SnapInv, NEW ww, NEW tt
  PROVE  LET hits == {r \in snap : RuleMatches(r) /\ ExprHolds(r, ww, tt)}
             r == Match(snap, ww, tt)
         IN \/ hits = {} /\ r = NoRow
            \/ r \in hits /\ \A q \in hits \ {r} : Before(r, q)
<1> DEFINE hits == {r \in snap : RuleMatches(r) /\ ExprHolds(r, ww, tt)}
<1>1. Match(snap, ww, tt) = IF hits = {} THEN NoRow
                            ELSE CHOOSE r \in hits : \A q \in hits \ {r} : Before(r, q)
  BY DEF Match
<1>2. hits # {} => \E r \in hits : \A q \in hits \ {r} : Before(r, q)
  <2>1. hits \in SUBSET snap
    OBVIOUS
  <2> HIDE DEF hits
  <2> QED
    BY <2>1, FirstRule
<1> HIDE DEF hits
<1> QED
  BY <1>1, <1>2 DEF hits

-----------------------------------------------------------------------------
(* The steps of a selection. *)

(* The rules read are enabled rules of the table, each once.               *)
LEMMA SnapRead ==
  ASSUME IInv, LoadRules
  PROVE  SnapInv'
<1> DEFINE D == {i \in RuleIds : rules[i] # NoRow /\ rules[i].enabled}
           Read(i) == [f \in {"id"} \cup DOMAIN rules[i] |-> IF f = "id" THEN i ELSE rules[i][f]]
           S == {Read(i) : i \in D}
           F == [i \in D |-> Read(i)]
<1>1. snap' = S
  BY DEF LoadRules
<1>2. IsFiniteSet(S)
  <2>1. IsFiniteSet(D)
    BY RoutingAssumption, FS_Subset
  <2>2. F \in Surjection(D, S)
    BY DEF Surjection
  <2> HIDE DEF D, S, F
  <2> QED
    BY <2>1, <2>2, FS_Surjection
<1>3. ASSUME NEW i \in D
      PROVE  /\ Read(i).id = i /\ Read(i).enabled /\ Read(i).priority \in Int
             /\ Read(i).expr \in Seq(STRING)
  <2>1. IsRule(rules[i]) /\ rules[i].enabled
    BY DEF IInv, TableInv, Stored
  <2>2. {"enabled", "priority", "expr"} \subseteq DOMAIN rules[i]
    BY <2>1 DEF IsRule, Columns
  <2>3. rules[i].priority \in Int /\ rules[i].expr \in Seq(STRING)
    BY <2>1, RulesAreTyped
  <2>4. Read(i).id = i /\ Read(i).enabled = rules[i].enabled /\ Read(i).priority = rules[i].priority
        /\ Read(i).expr = rules[i].expr
    BY <2>2
  <2> HIDE DEF Read
  <2> QED
    BY <2>1, <2>3, <2>4
<1>4. \A r \in S : \E i \in D : r = Read(i)
  OBVIOUS
<1>5. D \subseteq RuleIds
  OBVIOUS
<1> HIDE DEF D, Read, S
<1>6. /\ \A r \in S : /\ r.id \in RuleIds /\ r.enabled /\ r.priority \in Int
                     /\ r.expr \in Seq(STRING)
      /\ \A r, q \in S : r.id = q.id => r = q
  BY <1>3, <1>4, <1>5
<1> QED
  BY <1>1, <1>2, <1>6 DEF SnapInv

(* The probe's mock predicts a number, and so does its endpoint.           *)
LEMMA MockPredicts ==
  ASSUME NEW size \in Nat
  PROVE  MockT(size) \in Int
<1>1. size \div 4 \in Nat
  OBVIOUS
<1> QED
  BY <1>1, BoundsAreNumbers DEF MockT, SmallerOf, LargerOf

(* What is found in the endpoint's answer is a pair of numbers, or absent. *)
LEMMA AnswersPredict ==
  ASSUME NEW a \in Answers, Predicted(a) # Absent
  PROVE  Predicted(a) \in Int \X Int
<1>1. {a.prediction, a.bare} \subseteq {<<>>} \cup Int \X Int
  BY InputAssumption
<1>2. \A x \in {a.raw, a.content} : Len(x) = 2 => x \in Int \X Int
  BY InputAssumption
<1> QED
  BY <1>1, <1>2 DEF Predicted, Absent, IsPrediction

(* The prompt is that of the request, or none.                             *)
LEMMA RenderTyped ==
  ASSUME NEW q \in Requests
  PROVE  /\ Render(q.turns, q.system).kept \in 0 .. Len(q.turns)
         /\ Render(q.turns, q.system).size \in Nat
<1>1. q.turns \in Seq(Turns) /\ q.system \in Nat
  BY InputAssumption
<1>2. {TurnMax, PromptMax, Overhead} \subseteq Nat
  BY BoundsAreNumbers
<1> QED
  BY <1>1, <1>2, RenderKeeps

(* A failing statement is counted within its bound.                        *)
LEMMA StoreErrorCounts ==
  ASSUME IInv, StoreError \/ UNCHANGED storeErrors
  PROVE  storeErrors' \in 0..MaxStoreErrors
<1>1. storeErrors \in 0..MaxStoreErrors
  BY DEF IInv, SelectionInv
<1> QED
  BY <1>1, BoundsAreNumbers DEF StoreError

(* Every step of the engine keeps the control of the selection.            *)
LEMMA SelectionKeeps ==
  ASSUME IInv, Select
  PROVE  SelectionInv'
<1> USE DEF Done
<1>0. SelectionInv
  BY DEF IInv
<1>1. CASE LoadRules
  <2>1. at = "rules" /\ at' \in {"mock", "channels"}
    BY <1>1 DEF LoadRules
  <2>2. UNCHANGED <<storeErrors, req, prompt, probe, w, t, matched, cap>>
    BY <1>1 DEF LoadRules
  <2> QED
    BY <1>0, <2>1, <2>2 DEF SelectionInv
<1>2. CASE AskMock
  <2>1. storeErrors' \in 0..MaxStoreErrors
    BY <1>2, StoreErrorCounts DEF AskMock
  <2>2. req \in Requests
    BY <1>0 DEF SelectionInv
  <2>3. w' \in Int /\ t' \in Int
    <3>1. w' \in {0, 1} /\ t' = MockT(Render(req.turns, req.system).size)
      BY <1>2 DEF AskMock
    <3>2. Render(req.turns, req.system).size \in Nat
      BY <2>2, RenderTyped
    <3> QED
      BY <3>1, <3>2, MockPredicts
  <2>4. prompt' = Render(req.turns, req.system) /\ probe' = "mock" /\ at = "mock" /\ at' = "channels"
        /\ UNCHANGED <<req, snap, matched, cap>>
    BY <1>2 DEF AskMock, Asked
  <2> QED
    BY <1>0, <2>1, <2>3, <2>4 DEF SelectionInv
<1>3. CASE MockOff
  BY <1>0, <1>3 DEF MockOff, SelectionInv
<1>4. CASE NoProbe
  <2>1. storeErrors' \in 0..MaxStoreErrors
    BY <1>4, StoreErrorCounts DEF NoProbe
  <2>2. at = "url" /\ at' = "channels" /\ UNCHANGED <<req, snap, prompt, probe, w, t, matched, cap>>
    BY <1>4 DEF NoProbe
  <2> QED
    BY <1>0, <2>1, <2>2 DEF SelectionInv
<1>5. CASE \E a \in Answers : AskHTTP(a)
  <2>1. PICK a \in Answers : AskHTTP(a)
    BY <1>5
  <2>2. w' \in Int /\ t' \in Int /\ probe' \in {"failed", "http"}
    <3>1. CASE Predicted(a) = Absent
      BY <1>0, <2>1, <3>1 DEF AskHTTP, SelectionInv
    <3>2. CASE Predicted(a) # Absent
      <4>1. Predicted(a) \in Int \X Int
        BY <3>2, AnswersPredict
      <4>2. probe' = "http" /\ w' = Predicted(a)[1] /\ t' = Predicted(a)[2]
        BY <2>1, <3>2 DEF AskHTTP
      <4> QED
        BY <4>1, <4>2
    <3> QED
      BY <3>1, <3>2
  <2>3. prompt' = Render(req.turns, req.system) /\ at = "url" /\ at' = "channels"
        /\ UNCHANGED <<storeErrors, req, snap, matched, cap>>
    BY <2>1 DEF AskHTTP, Asked
  <2> QED
    BY <1>0, <2>2, <2>3 DEF SelectionInv
<1>6. CASE LoadChannels
  <2>1. matched' = NoRow \/ matched' \in snap
    BY <1>6, MatchIsFirst DEF LoadChannels, IInv
  <2>2. at = "channels" /\ at' \in {"nocandidate", "balance"}
        /\ UNCHANGED <<storeErrors, req, snap, prompt, probe, w, t, cap>>
    BY <1>6 DEF LoadChannels
  <2> QED
    BY <1>0, <2>1, <2>2 DEF SelectionInv
<1>7. CASE RouteFails
  <2>1. storeErrors' \in 0..MaxStoreErrors
    BY <1>7, StoreErrorCounts DEF RouteFails
  <2>2. at \in {"rules", "channels"} /\ at' = "error"
        /\ UNCHANGED <<req, snap, prompt, probe, w, t, matched, cap>>
    BY <1>7 DEF RouteFails
  <2> QED
    BY <1>0, <2>1, <2>2 DEF SelectionInv
<1>8. CASE Draw
  <2>1. UNCHANGED <<storeErrors, req, at, snap, prompt, probe, w, t, matched, cap>>
    BY <1>8 DEF Draw
  <2> QED
    BY <1>0, <2>1 DEF SelectionInv
<1>9. CASE ReadRetries
  <2>1. storeErrors' \in 0..MaxStoreErrors
    BY <1>9, StoreErrorCounts DEF ReadRetries
  <2>2. cap' \in Nat /\ cap' > 0
    <3>1. options.retries \in {0, 1}
      BY DEF IInv, TableInv
    <3> QED
      BY <1>9, <3>1 DEF ReadRetries, DefaultMaxRetries
  <2>3. at = "balance" /\ at' = "selected" /\ UNCHANGED <<req, snap, prompt, probe, w, t, matched>>
    BY <1>9 DEF ReadRetries
  <2> QED
    BY <1>0, <2>1, <2>2, <2>3 DEF SelectionInv
<1> QED
  BY <1>1, <1>2, <1>3, <1>4, <1>5, <1>6, <1>7, <1>8, <1>9 DEF Select

(* The candidates loaded are finitely many, each once, typed.              *)
LEMMA CandidatesLoaded ==
  ASSUME IInv, LoadChannels
  PROVE  OrderInv'
<1> DEFINE found == Candidates(Match(snap, w, t))
           Row(c) == [id |-> c, priority |-> channels[c].priority, weight |-> channels[c].weight]
           F == [c \in found |-> Row(c)]
           S == {Row(c) : c \in found}
<1>1. pool' = S /\ order' = order /\ order = <<>>
  BY DEF LoadChannels, IInv, OrderInv
<1>2. found \subseteq ChannelIds
  BY DEF Candidates
<1>3. IsFiniteSet(S)
  <2>1. IsFiniteSet(found)
    BY <1>2, RoutingAssumption, FS_Subset
  <2>2. F \in Surjection(found, S)
    BY DEF Surjection
  <2> HIDE DEF found, F, S
  <2> QED
    BY <2>1, <2>2, FS_Surjection
<1>4. ASSUME NEW c \in found PROVE Row(c) \in Candidate /\ Row(c).id = c
  <2>1. channels[c] \in Channels
    BY <1>2 DEF IInv, TableInv
  <2>2. channels[c].priority \in Int /\ channels[c].weight \in Int
    BY <2>1 DEF Channels
  <2> QED
    BY <1>2, <2>2 DEF Candidate
<1> HIDE DEF found, Row
<1>5. S \subseteq Candidate /\ \A c, d \in S : c.id = d.id => c = d
  BY <1>4
<1>6. <<>> \in Seq(Candidate) /\ DOMAIN <<>> = {}
  OBVIOUS
<1> HIDE DEF S
<1> QED
  BY <1>1, <1>3, <1>5, <1>6 DEF OrderInv

(* The bucket of the pool is a ballot, and it is not empty.                *)
LEMMA BucketIsBallot ==
  ASSUME OrderInv
  PROVE  /\ Ballot(Bucket(pool)) /\ Bucket(pool) \in SUBSET pool
         /\ pool # {} => Bucket(pool) # {}
<1>1. Bucket(pool) \in SUBSET pool
  BY DEF Bucket
<1>2. \A c \in pool : c.id \in Nat /\ c.weight \in Int /\ c.priority \in Int
  BY RoutingAssumption DEF OrderInv, Candidate
<1>3. Ballot(Bucket(pool))
  <2>1. IsFiniteSet(Bucket(pool))
    BY <1>1, FS_Subset DEF OrderInv
  <2> QED
    BY <1>1, <1>2, <2>1 DEF Ballot, Weighted, OrderInv
<1>4. ASSUME pool # {} PROVE Bucket(pool) # {}
  <2> DEFINE HasTop(T) == \E c \in T : \A d \in T : d.priority <= c.priority
             P == {T \in SUBSET pool : T # {} => HasTop(T)}
  <2>1. ASSUME NEW T \in SUBSET pool, \A U \in SUBSET T : U # T => U \in P PROVE T \in P
    <3> SUFFICES ASSUME T # {} PROVE HasTop(T)
      OBVIOUS
    <3>1. PICK x \in T : TRUE
      OBVIOUS
    <3>2. CASE T \ {x} = {}
      BY <1>2, <3>2
    <3>3. CASE T \ {x} # {}
      <4>1. T \ {x} \in SUBSET T /\ T \ {x} # T
        BY <3>1
      <4>2. PICK m \in T \ {x} : \A d \in T \ {x} : d.priority <= m.priority
        BY <2>1, <3>3, <4>1
      <4>3. x.priority \in Int /\ \A d \in T : d.priority \in Int
        BY <1>2
      <4> QED
        BY <4>2, <4>3
    <3> QED
      BY <3>2, <3>3
  <2>2. \A T \in SUBSET pool : (\A U \in SUBSET T : U # T => U \in P) => T \in P
    BY <2>1
  <2>3. SUBSET pool \subseteq P
    <3>1. IsFiniteSet(pool)
      BY DEF OrderInv
    <3> HIDE DEF P
    <3> QED
      BY <2>2, <3>1, SubsetInduction
  <2>4. HasTop(pool)
    BY <1>4, <2>3
  <2> QED
    BY <2>4 DEF Bucket
<1> QED
  BY <1>1, <1>3, <1>4

(* What is drawn comes after what was drawn before it and before the rest. *)
LEMMA DrawKeepsOrder ==
  ASSUME IInv, Draw
  PROVE  OrderInv'
<1>0. OrderInv
  BY DEF IInv
<1>1. PICK n \in Numbers(Bucket(pool)) :
        /\ order' = Append(order, Drawn(Bucket(pool), n))
        /\ pool' = pool \ {Drawn(Bucket(pool), n)}
  BY DEF Draw
<1>2. at = "balance" /\ at' = "balance" /\ pool # {}
  BY DEF Draw
<1> DEFINE c == Drawn(Bucket(pool), n)
<1>3. c \in Bucket(pool)
  BY <1>0, <1>2, BucketIsBallot, DrawnAreAll
<1>4. order' = Append(order, c) /\ pool' = pool \ {c}
  BY <1>1
<1> HIDE DEF c
<1>5. c \in pool /\ \A d \in pool : d.priority <= c.priority
  BY <1>3 DEF Bucket
<1>6. pool \subseteq Candidate /\ IsFiniteSet(pool) /\ order \in Seq(Candidate)
  BY <1>0 DEF OrderInv
<1>7. order' \in Seq(Candidate) /\ IsFiniteSet(pool') /\ pool' \subseteq Candidate
  BY <1>4, <1>5, <1>6, FS_RemoveElement
<1>8. /\ Len(order') = Len(order) + 1 /\ order'[Len(order) + 1] = c
      /\ \A i \in DOMAIN order : order'[i] = order[i]
      /\ DOMAIN order' = DOMAIN order \cup {Len(order) + 1}
      /\ \A i \in DOMAIN order : i \in Nat /\ i <= Len(order)
  BY <1>4, <1>5, <1>6
<1>9. \A i, j \in DOMAIN order : i < j =>
        order[i].id # order[j].id /\ order[i].priority >= order[j].priority
  BY <1>0 DEF OrderInv
<1>10. \A i \in DOMAIN order, d \in pool :
         order[i].id # d.id /\ order[i].priority >= d.priority
  BY <1>0 DEF OrderInv
<1>11. \A i, j \in DOMAIN order' : i < j =>
         order'[i].id # order'[j].id /\ order'[i].priority >= order'[j].priority
  <2> TAKE i, j \in DOMAIN order'
  <2> HAVE i < j
  <2>1. Len(order) \in Nat
    BY <1>6
  <2>2. i \in DOMAIN order
    BY <1>8, <2>1
  <2>3. CASE j \in DOMAIN order
    BY <1>8, <1>9, <2>2, <2>3
  <2>4. CASE j = Len(order) + 1
    BY <1>5, <1>8, <1>10, <2>2, <2>4
  <2> QED
    BY <1>8, <2>3, <2>4
<1>12. \A d \in pool' : d \in pool /\ d.id # c.id /\ c.priority >= d.priority
  <2>1. \A d \in pool : d.priority \in Int
    BY <1>6 DEF Candidate
  <2> QED
    BY <1>0, <1>4, <1>5, <2>1 DEF OrderInv
<1>13. \A i \in DOMAIN order', d \in pool' :
         order'[i].id # d.id /\ order'[i].priority >= d.priority
  BY <1>8, <1>10, <1>12
<1>14. \A d, e \in pool' : d.id = e.id => d = e
  BY <1>0, <1>4 DEF OrderInv
<1> QED
  BY <1>2, <1>7, <1>11, <1>13, <1>14 DEF OrderInv

(* The decision does not change while what it was made from does not.      *)
LEMMA DecisionKept ==
  ASSUME DecisionInv, UNCHANGED <<snap, w, t, req, matched>>,
         at' \in {"balance", "nocandidate", "selected"} =>
           at \in {"balance", "nocandidate", "selected"}
  PROVE  DecisionInv'
BY DEF DecisionInv, Match, RuleMatches, ExprHolds, Env

(* It is made once, when the channels are loaded.                          *)
LEMMA DecisionMade ==
  ASSUME LoadChannels
  PROVE  DecisionInv'
BY DEF LoadChannels, DecisionInv, Match, RuleMatches, ExprHolds, Env

(* Every step of the engine keeps the whole invariant.                     *)
LEMMA SelectKeeps ==
  ASSUME IInv, Select
  PROVE  IInv'
<1>0. TableInv /\ EditorInv /\ SnapInv /\ OrderInv
  BY DEF IInv
<1>1. UNCHANGED edited
  <2>1. ASSUME NEW a \in Answers, AskHTTP(a) PROVE UNCHANGED edited
    BY <2>1 DEF AskHTTP
  <2> QED
    BY <2>1 DEF Select, LoadRules, AskMock, MockOff, NoProbe, LoadChannels, RouteFails,
                Draw, ReadRetries
<1>2. TableInv' /\ EditorInv'
  BY <1>0, <1>1 DEF edited, TableInv, EditorInv
<1>3. SnapInv'
  <2>1. ASSUME UNCHANGED snap PROVE SnapInv'
    BY <1>0, <2>1 DEF SnapInv
  <2>2. ASSUME NEW a \in Answers, AskHTTP(a) PROVE UNCHANGED snap
    BY <2>2 DEF AskHTTP
  <2>3. LoadRules \/ UNCHANGED snap
    BY <2>2 DEF Select, AskMock, MockOff, NoProbe, LoadChannels, RouteFails, Draw, ReadRetries
  <2> QED
    BY <2>1, <2>3, SnapRead
<1>4. SelectionInv'
  BY SelectionKeeps
<1>5. OrderInv'
  <2>1. ASSUME UNCHANGED <<pool, order>>,
               at \in {"rules", "mock", "url", "channels"}
               \/ at' \notin {"rules", "mock", "url", "channels"}
        PROVE  OrderInv'
    BY <1>0, <2>1 DEF OrderInv
  <2>2. CASE LoadRules
    BY <2>1, <2>2 DEF LoadRules
  <2>3. CASE AskMock
    BY <2>1, <2>3 DEF AskMock
  <2>4. CASE MockOff
    BY <2>1, <2>4 DEF MockOff
  <2>5. CASE NoProbe
    BY <2>1, <2>5 DEF NoProbe
  <2>6. CASE \E a \in Answers : AskHTTP(a)
    BY <2>1, <2>6 DEF AskHTTP
  <2>7. CASE LoadChannels
    BY <2>7, CandidatesLoaded
  <2>8. CASE RouteFails
    BY <2>1, <2>8 DEF RouteFails
  <2>9. CASE Draw
    BY <2>9, DrawKeepsOrder
  <2>10. CASE ReadRetries
    BY <2>1, <2>10 DEF ReadRetries
  <2> QED
    BY <2>2, <2>3, <2>4, <2>5, <2>6, <2>7, <2>8, <2>9, <2>10 DEF Select
<1>6. DecisionInv'
  <2>1. ASSUME NEW a \in Answers, AskHTTP(a) PROVE at' = "channels"
    BY <2>1 DEF AskHTTP
  <2>2. \/ at' \in {"mock", "url", "channels", "error"}
        \/ LoadChannels
        \/ UNCHANGED <<snap, w, t, req, matched>> /\ at = "balance"
    BY <2>1 DEF Select, LoadRules, AskMock, MockOff, NoProbe, RouteFails, Draw, ReadRetries
  <2>3. DecisionInv
    BY DEF IInv
  <2>4. CASE at' \in {"mock", "url", "channels", "error"}
    BY <2>4 DEF DecisionInv
  <2> QED
    BY <2>2, <2>3, <2>4, DecisionMade, DecisionKept
<1> QED
  BY <1>2, <1>3, <1>4, <1>5, <1>6 DEF IInv

(* An administrator's step leaves the selection in progress alone.         *)
LEMMA AdministratorsKeep ==
  ASSUME IInv, NEW e \in Editors,
         (Edit(e) /\ UNCHANGED storeErrors) \/ EditFails(e),
         UNCHANGED <<req, at, snap, prompt, probe, w, t, matched, pool, order, cap>>
  PROVE  IInv'
<1>1. TableInv' /\ EditorInv'
  BY EditsKeep, EditFailureKeeps
<1>2. SnapInv' /\ OrderInv'
  BY DEF IInv, SnapInv, OrderInv
<1>3. storeErrors' \in 0..MaxStoreErrors
  <2>1. StoreError \/ UNCHANGED storeErrors
    BY DEF EditFails, StoreError
  <2> QED
    BY <2>1, StoreErrorCounts
<1>4. SelectionInv'
  BY <1>3 DEF IInv, SelectionInv
<1>5. DecisionInv'
  BY DecisionKept DEF IInv
<1> QED
  BY <1>1, <1>2, <1>4, <1>5 DEF IInv

(* A step that changes nothing keeps it.                                   *)
LEMMA StutterKeeps ==
  ASSUME IInv, UNCHANGED vars
  PROVE  IInv'
<1>1. TableInv' /\ EditorInv'
  BY DEF vars, IInv, TableInv, EditorInv
<1>2. SnapInv' /\ SelectionInv'
  BY DEF vars, IInv, SnapInv, SelectionInv
<1>3. OrderInv'
  BY DEF vars, IInv, OrderInv
<1>4. DecisionInv'
  BY DecisionKept DEF vars, IInv
<1> QED
  BY <1>1, <1>2, <1>3, <1>4 DEF IInv

(* The invariant is inductive.                                             *)
LEMMA NextInv == IInv /\ [Next]_vars => IInv'
<1> SUFFICES ASSUME IInv, [Next]_vars PROVE IInv'
  OBVIOUS
<1>1. CASE Select
  BY <1>1, SelectKeeps
<1>2. CASE \E e \in Editors :
             /\ \/ Edit(e) /\ UNCHANGED storeErrors
                \/ EditFails(e)
             /\ UNCHANGED <<req, at, snap, prompt, probe, w, t, matched, pool, order, cap>>
  BY <1>2, AdministratorsKeep
<1>3. CASE UNCHANGED vars
  BY <1>3, StutterKeeps
<1> QED
  BY <1>1, <1>2, <1>3 DEF Next

(* The invariant holds in every state of the specification.                *)
LEMMA Invariance == Spec => []IInv
<1>1. Init => IInv
  BY InitInv
<1>2. IInv /\ [Next]_vars => IInv'
  BY NextInv
<1> QED
  BY <1>1, <1>2, PTL DEF Spec

(* Every variable of a selection keeps its type, and a finished one has a  *)
(* positive failover cap: what the relay divides its attempts by.          *)
THEOREM TypeCorrect == Spec => []TypeOK
<1>1. IInv => TypeOK
  <2> SUFFICES ASSUME IInv PROVE TypeOK
    OBVIOUS
  <2>1. /\ \A id \in RuleIds : rules[id] = NoRow \/ IsRule(rules[id])
        /\ channels \in [ChannelIds -> Channels]
        /\ options \in [mock : {"", "true", "false"}, url : {"", "http"}, retries : {0, 1}]
        /\ edits \in 0..MaxEdits
    BY DEF IInv, TableInv, Stored
  <2>2. \A e \in Editors :
          editor[e].at \in {"idle", "refused", "insert", "disable", "save", "url"}
    BY DEF IInv, EditorInv, Held
  <2>3. \A r \in snap : r.id \in RuleIds /\ r.enabled
    BY DEF IInv, SnapInv
  <2>4. {c.id : c \in pool} \subseteq ChannelIds
        /\ order \in Seq([id : ChannelIds, priority : Int, weight : Int])
    BY DEF IInv, OrderInv, Candidate
  <2>5. prompt.kept \in 0..Len(req.turns) /\ prompt.size \in Nat
    <3>1. req \in Requests /\ prompt \in {NoPrompt, Render(req.turns, req.system)}
      BY DEF IInv, SelectionInv
    <3>2. Len(req.turns) \in Nat
      BY <3>1, InputAssumption
    <3> QED
      BY <3>1, <3>2, RenderTyped DEF NoPrompt
  <2>6. /\ storeErrors \in 0..MaxStoreErrors
        /\ req \in Requests
        /\ at \in {"rules", "mock", "url", "channels", "balance"} \cup Done
        /\ probe \in {"none", "mock", "http", "failed"} /\ w \in Int /\ t \in Int
        /\ matched = NoRow \/ matched \in snap
        /\ cap \in Nat /\ (at = "selected" <=> cap > 0)
    BY DEF IInv, SelectionInv
  <2> QED
    BY <2>1, <2>2, <2>3, <2>4, <2>5, <2>6 DEF TypeOK
<1> QED
  BY <1>1, Invariance, PTL

(* RenderProbePrompt, for conversations of any length and any limits: the  *)
(* newest turns without a gap, as many as fit, the system turn last.       *)
THEOREM PromptIsRecent == Spec => []PromptKeepsRecent
<1>1. IInv => PromptKeepsRecent
  <2> SUFFICES ASSUME IInv, prompt # NoPrompt PROVE PromptKeepsRecent
    BY DEF PromptKeepsRecent
  <2>1. req \in Requests /\ prompt = Render(req.turns, req.system)
    BY DEF IInv, SelectionInv
  <2>2. req.turns \in Seq(Turns) /\ req.system \in Nat
    BY <2>1, InputAssumption
  <2>3. {TurnMax, PromptMax, Overhead} \subseteq Nat
    BY BoundsAreNumbers
  <2> QED
    BY <2>1, <2>2, <2>3, RenderKeeps DEF PromptKeepsRecent
<1> QED
  BY <1>1, Invariance, PTL

(* loadBalanceOrder and weightedShuffle, for any channels, priorities and  *)
(* weights: the order descends by priority, has each candidate once, and   *)
(* any candidate of the highest priority left can come next.               *)
THEOREM AnyCandidateMayLead == Spec => []EveryCandidateMayLead
<1>1. IInv => EveryCandidateMayLead
  <2> SUFFICES ASSUME IInv PROVE EveryCandidateMayLead
    OBVIOUS
  <2>1. OrderInv
    BY DEF IInv
  <2>2. pool # {} => {Drawn(Bucket(pool), n) : n \in Numbers(Bucket(pool))} = Bucket(pool)
    BY <2>1, BucketIsBallot, DrawnAreAll
  <2>3. \A i, j \in DOMAIN order : i < j =>
          order[i] # order[j] /\ order[i].priority >= order[j].priority
    BY <2>1 DEF OrderInv
  <2>4. \A i \in DOMAIN order, c \in pool : order[i].priority >= c.priority
    BY <2>1 DEF OrderInv
  <2> QED
    BY <2>2, <2>3, <2>4 DEF EveryCandidateMayLead
<1> QED
  BY <1>1, Invariance, PTL

(* The first enabled rule that holds decides alone which channels are the  *)
(* candidates, and an empty choice of its ends the request.                *)
THEOREM FirstRuleDecides == Spec => TargetsDecide
<1> DEFINE Decides ==
      at = "channels" /\ at' \in {"balance", "nocandidate"} =>
       LET ids == {c.id : c \in pool'}
           on == {c \in ChannelIds : channels[c].enabled}
           model == IF matched' # NoRow /\ matched'.target # NoModel
                    THEN matched'.target ELSE req.model
       IN /\ \A r \in snap : RuleMatches(r) /\ ExprHolds(r, w, t) =>
               matched' = r \/ Before(matched', r)
          /\ ids = IF matched' # NoRow /\ matched'.ids # {} THEN on \cap matched'.ids
                   ELSE IF matched' # NoRow /\ matched'.group # NoGroup
                   THEN {c \in on : channels[c].group = matched'.group}
                   ELSE {c \in on : model \in channels[c].models \cup channels[c].mapped}
          /\ at' = "nocandidate" <=> ids = {}
<1>1. IInv /\ [Next]_vars => [Decides]_vars
  <2> SUFFICES ASSUME IInv, Next, at = "channels", at' \in {"balance", "nocandidate"}
               PROVE  Decides
    OBVIOUS
  <2>1. LoadChannels
    <3>1. Select
      BY DEF Next
    <3>2. ASSUME NEW a \in Answers, AskHTTP(a) PROVE FALSE
      BY <3>2 DEF AskHTTP
    <3> QED
      BY <3>1, <3>2 DEF Select, LoadRules, AskMock, MockOff, NoProbe, RouteFails, Draw,
                        ReadRetries
  <2> DEFINE r == Match(snap, w, t)
  <2>2. /\ matched' = r
        /\ pool' = {[id |-> c, priority |-> channels[c].priority,
                     weight |-> channels[c].weight] : c \in Candidates(r)}
        /\ at' = IF Candidates(r) = {} THEN "nocandidate" ELSE "balance"
    BY <2>1 DEF LoadChannels
  <2>3. {c.id : c \in pool'} = Candidates(r)
    <3> DEFINE Row(c) == [id |-> c, priority |-> channels[c].priority,
                          weight |-> channels[c].weight]
    <3>1. pool' = {Row(c) : c \in Candidates(r)} /\ \A c : Row(c).id = c
      BY <2>2
    <3> HIDE DEF Row, r
    <3> QED
      BY <3>1
  <2>4. \A q \in snap : RuleMatches(q) /\ ExprHolds(q, w, t) =>
          matched' = q \/ Before(matched', q)
    <3>1. SnapInv
      BY DEF IInv
    <3> QED
      BY <2>2, <3>1, MatchIsFirst
  <2>5. at' = "nocandidate" <=> Candidates(r) = {}
    BY <2>2
  <2> HIDE DEF r
  <2>6. Candidates(r) =
          LET on == {c \in ChannelIds : channels[c].enabled}
              model == IF r # NoRow /\ r.target # NoModel THEN r.target ELSE req.model
          IN IF r # NoRow /\ r.ids # {} THEN on \cap r.ids
             ELSE IF r # NoRow /\ r.group # NoGroup THEN {c \in on : channels[c].group = r.group}
             ELSE {c \in on : model \in channels[c].models \cup channels[c].mapped}
    <3>1. CASE r # NoRow /\ r.ids # {}
      BY <3>1 DEF Candidates, Pinned
    <3>2. CASE r # NoRow /\ r.ids = {} /\ r.group # NoGroup
      BY <3>2 DEF Candidates, Pinned
    <3>3. CASE ~ (r # NoRow /\ (r.ids # {} \/ r.group # NoGroup))
      BY <3>3 DEF Candidates, Pinned, Serves, EffectiveModel
    <3> QED
      BY <3>1, <3>2, <3>3
  <2> QED
    BY <2>2, <2>3, <2>4, <2>5, <2>6
<1> QED
  BY <1>1, Invariance, PTL DEF Spec, TargetsDecide

(* A rule whose expression does not refer to w or t holds whatever they    *)
(* are; and so, without a rule that needs the probe, does the decision.    *)
LEMMA SignalsIgnored ==
  ASSUME SnapInv, ~ NeedsProbe(snap), NEW ww, NEW tt
  PROVE  Match(snap, ww, tt) = Match(snap, w, t)
<1>1. ASSUME NEW r \in snap PROVE ExprHolds(r, ww, tt) <=> ExprHolds(r, w, t)
  <2>1. Compiles(r.expr) => References(r.expr) \cap {"w", "t"} = {}
    BY DEF NeedsProbe
  <2>2. Len(r.expr) \in Nat
    BY DEF SnapInv
  <2>3. \A v \in Vars \ {"w", "t"} : Env(ww, tt)[v] = Env(w, t)[v]
    BY DEF Env, Vars, NumericVars
  <2>4. Compiles(r.expr) => Eval(r.expr, Env(ww, tt)) = Eval(r.expr, Env(w, t))
    <3> SUFFICES ASSUME Compiles(r.expr)
                 PROVE  Eval(r.expr, Env(ww, tt)) = Eval(r.expr, Env(w, t))
      OBVIOUS
    <3> DEFINE V == {"w", "t"}
               e1 == Env(ww, tt)
               e2 == Env(w, t)
               words == r.expr
    <3>1. Len(words) \in Nat /\ References(words) \cap V = {}
          /\ DifferIn(V, e1, e2)
      BY <2>1, <2>2, <2>3 DEF DifferIn
    <3> HIDE DEF V, e1, e2, words
    <3>2. Eval(words, e1) = Eval(words, e2)
      BY <3>1, ValuesDependOnReferences
    <3> QED
      BY <3>2 DEF words, e1, e2
  <2> QED
    BY <2>4 DEF ExprHolds
<1> DEFINE Hits(x, y) == {r \in snap : RuleMatches(r) /\ ExprHolds(r, x, y)}
<1>2. Hits(ww, tt) = Hits(w, t)
  BY <1>1
<1> DEFINE First(H) == IF H = {} THEN NoRow
                       ELSE CHOOSE r \in H : \A q \in H \ {r} : Before(r, q)
<1>3. \A x, y : Match(snap, x, y) = First(Hits(x, y))
  BY DEF Match
<1> HIDE DEF Hits, First
<1> QED
  BY <1>2, <1>3

(* SelectChannelCtx asks the probe only when some rule's expression refers *)
(* to w or t.  For every rule table and expression, when it does not ask,  *)
(* any prediction would have led to the same rule.                         *)
THEOREM ProbeOnDemandIsSafe == Spec => []ProbeSkippedSafely
<1>1. IInv => ProbeSkippedSafely
  <2> SUFFICES ASSUME IInv, at \in {"balance", "nocandidate", "selected"},
                      ~ NeedsProbe(snap), NEW ww \in {0, 1}, NEW tt \in {0, 1, 2}
               PROVE  Match(snap, ww, tt) = matched
    BY DEF ProbeSkippedSafely
  <2>1. matched = Match(snap, w, t)
    BY DEF IInv, DecisionInv
  <2> QED
    BY <2>1, SignalsIgnored DEF IInv
<1> QED
  BY <1>1, Invariance, PTL

(* An expression compiles or not, whatever the signals.                    *)
LEMMA CompilesAnywhere ==
  ASSUME NEW words, Len(words) \in Nat, NEW e1, NEW e2
  PROVE  Compile(words, e1).ok = Compile(words, e2).ok
<1> DEFINE V == Vars
<1>1. DifferIn(V, e1, e2)
  BY DEF DifferIn
<1> HIDE DEF V
<1>2. Alike(Compile(words, e1), Compile(words, e2), V)
  BY <1>1, ProgramsAlike
<1> QED
  BY <1>2 DEF Alike

(* What an administrator writes is what the engine decides by, for every   *)
(* expression and pattern: wildcardMatch reads a pattern letter by letter, *)
(* the parser a source by the grammar, and Create and Update store nothing *)
(* that the grammar does not have.                                         *)
THEOREM RulesMeanWhatTheySay == Spec => []ConditionsMeanWhatTheySay
<1>1. IInv => ConditionsMeanWhatTheySay
  <2> SUFFICES ASSUME IInv PROVE ConditionsMeanWhatTheySay
    OBVIOUS
  <2>1. ASSUME NEW e \in Editors PROVE MeansWhatItSays(editor[e].source, Env(w, t))
    <3>1. editor[e].source \in Seq(STRING)
      BY DEF IInv, EditorInv, Held
    <3> QED
      BY <3>1, SourcesMeanWhatTheySay
  <2>2. req.model \in Seq(STRING)
    BY InputAssumption DEF IInv, SelectionInv
  <2>3. ASSUME NEW id \in RuleIds, rules[id] # NoRow
        PROVE  /\ rules[id].expr \in Seq(STRING) /\ Compiles(rules[id].expr)
               /\ rules[id].patterns \subseteq Seq(STRING)
    <3>1. Stored(rules[id])
      BY <2>3 DEF IInv, TableInv
    <3>2. {"expr", "patterns"} \subseteq DOMAIN Columns /\ Columns["expr"] = Seq(STRING)
          /\ Columns["patterns"] = SUBSET Seq(STRING)
      BY DEF Columns
    <3> QED
      BY <3>1, <3>2 DEF Stored, IsRule, Fits
  <2>4. ASSUME NEW id \in RuleIds, rules[id] # NoRow, NEW p \in rules[id].patterns
        PROVE  ModelMatches(p, req.model) <=> Glob(p, req.model)
    <3>1. p \in Seq(STRING)
      BY <2>3, <2>4
    <3> QED
      BY <2>2, <3>1, PatternsMeanWhatTheySay
  <2>5. ASSUME NEW id \in RuleIds, rules[id] # NoRow
        PROVE  \E m \in Derivations(rules[id].expr, Env(w, t)) : m.typ = "bool"
    <3> DEFINE words == rules[id].expr
               env == Env(w, t)
    <3>1. words \in Seq(STRING) /\ Compile(words, ZeroEnv).ok
      BY <2>3, <2>5 DEF Compiles
    <3> HIDE DEF words, env
    <3>2. Len(words) \in Nat
      BY <3>1
    <3>3. Compile(words, env).ok
      BY <3>1, <3>2, CompilesAnywhere
    <3>4. Bools(Derivations(words, env)) # {}
      BY <3>1, <3>3, SourcesMeanWhatTheySay DEF MeansWhatItSays
    <3>5. \E m \in Derivations(words, env) : m.typ = "bool"
      BY <3>4 DEF Bools
    <3> QED
      BY <3>5 DEF words, env
  <2> QED
    BY <2>1, <2>4, <2>5 DEF ConditionsMeanWhatTheySay
<1> QED
  BY <1>1, Invariance, PTL
=============================================================================
