---------------------------- MODULE SetInduction ----------------------------
(***************************************************************************)
(* Induction over finite sets and over numbers, stated for a set of the    *)
(* things the induction is about instead of a predicate on them, so that   *)
(* the first-order provers can use it.  They follow from the theorem that  *)
(* strict inclusion is well founded on finite sets.                        *)
(***************************************************************************)
EXTENDS FiniteSetTheorems, WellFoundedInduction, TLAPS

(* Induction over the subsets of a finite set, for a set of subsets.       *)
LEMMA SubsetInduction ==
  ASSUME NEW S, IsFiniteSet(S), NEW P,
         \A T \in SUBSET S : (\A U \in SUBSET T : U # T => U \in P) => T \in P
  PROVE  SUBSET S \subseteq P
<1> DEFINE Bad == (SUBSET S) \ P
           R == StrictSubsetOrdering(S)
<1> SUFFICES ASSUME Bad # {} PROVE FALSE
  OBVIOUS
<1>1. PICK T \in Bad : \A U \in Bad : ~ (<<U, T>> \in R)
  <2> HIDE DEF R
  <2>0. IsWellFoundedOn(R, FiniteSubsetsOf(S))
    BY FS_StrictSubsetOrderingWellFounded DEF R
  <2>1. IsWellFoundedOn(R, SUBSET S)
    BY <2>0, FS_FiniteSubsetsOfFinite
  <2>2. Bad \subseteq SUBSET S
    OBVIOUS
  <2> HIDE DEF Bad
  <2> QED
    BY <2>1, <2>2, WFMin
<1>2. \A U \in SUBSET T : U # T => U \in P
  BY <1>1 DEF StrictSubsetOrdering
<1> QED
  BY <1>1, <1>2

(* Induction over the natural numbers, for a set of numbers.               *)
LEMMA NumberInduction ==
  ASSUME NEW P, 0 \in P, \A n \in Nat : n \in P => n + 1 \in P
  PROVE  Nat \subseteq P
<1> SUFFICES ASSUME NEW n \in Nat PROVE n \in P
  OBVIOUS
<1> DEFINE I == 0 .. n
           Q == {T \in SUBSET I : \A m \in 0 .. n : T = 0 .. m => m \in P}
<1>1. IsFiniteSet(I)
  BY FS_Interval
<1>2. ASSUME NEW T \in SUBSET I, \A U \in SUBSET T : U # T => U \in Q
      PROVE  T \in Q
  <2> SUFFICES ASSUME NEW m \in 0 .. n, T = 0 .. m PROVE m \in P
    OBVIOUS
  <2>1. CASE m = 0
    BY <2>1
  <2>2. CASE m # 0
    <3>1. m - 1 \in 0 .. n /\ 0 .. m - 1 \in SUBSET T /\ m \in T /\ m \notin 0 .. m - 1
      BY <2>2
    <3>2. 0 .. m - 1 \in Q
      BY <3>1, <1>2
    <3>3. m - 1 \in P
      BY <3>1, <3>2
    <3> QED
      BY <3>1, <3>3
  <2> QED
    BY <2>1, <2>2
<1>3. SUBSET I \subseteq Q
  <2>1. \A T \in SUBSET I : (\A U \in SUBSET T : U # T => U \in Q) => T \in Q
    BY <1>2
  <2> HIDE DEF I, Q
  <2> QED
    BY <1>1, <2>1, SubsetInduction
<1>4. 0 .. n \in Q
  BY <1>3
<1> QED
  BY <1>4

(* The least-number principle. *)
LEMMA Least ==
  ASSUME NEW S, S \subseteq Nat, S # {}
  PROVE  \E n \in S : \A k \in S : n <= k
<1> SUFFICES ASSUME \A n \in S : \E k \in S : k < n PROVE FALSE
  OBVIOUS
<1> DEFINE P == {n \in Nat : \A k \in S : n < k}
<1>1. 0 \in P
  OBVIOUS
<1>2. \A n \in Nat : n \in P => n + 1 \in P
  OBVIOUS
<1>3. Nat \subseteq P
  <2> HIDE DEF P
  <2> QED
    BY <1>1, <1>2, NumberInduction
<1>4. PICK n \in S : TRUE
  OBVIOUS
<1>5. n \in P
  BY <1>3
<1> QED
  BY <1>5

(* A bounded set of numbers has a greatest one. *)
LEMMA Greatest ==
  ASSUME NEW n \in Nat, NEW S, S \subseteq 0 .. n, S # {}
  PROVE  \E i \in S : \A j \in S : j <= i
<1> DEFINE T == {n - i : i \in S}
<1>1. T \subseteq Nat /\ T # {}
  <2>1. PICK i \in S : TRUE
    OBVIOUS
  <2>2. n - i \in T
    OBVIOUS
  <2>3. \A j \in S : n - j \in Nat
    OBVIOUS
  <2> QED
    BY <2>2, <2>3
<1>2. PICK m \in T : \A k \in T : m <= k
  BY <1>1, Least
<1>3. n - m \in S /\ \A j \in S : m <= n - j
  BY <1>2
<1> QED
  BY <1>1, <1>3
=============================================================================
