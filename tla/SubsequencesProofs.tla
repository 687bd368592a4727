-------------------------- MODULE SubsequencesProofs --------------------------
(***************************************************************************)
(* Proofs about Subsequences: what a comprehension with a condition        *)
(* keeps, where it comes to stand, and in which order. The places are      *)
(* distinct, in the order of the positions, and all taken.                 *)
(***************************************************************************)
EXTENDS Subsequences, Integers, Sequences, FiniteSetTheorems, TLAPS

LEMMA PlacesAmong ==
  ASSUME NEW I \in SUBSET Int, IsFiniteSet(I)
  PROVE  /\ Cardinality(I) \in Nat
         /\ \A i \in I : PlaceIn(I, i) \in 1 .. Cardinality(I)
         /\ \A i, j \in I : i < j => PlaceIn(I, i) < PlaceIn(I, j)
         /\ \A i, j \in I : PlaceIn(I, i) = PlaceIn(I, j) => i = j
         /\ \A k \in 1 .. Cardinality(I) : \E i \in I : PlaceIn(I, i) = k
<1> DEFINE upto(i) == {j \in I : j <= i}
<1>0. \A i \in I : i \in Int
  OBVIOUS
<1>1. IsFiniteSet(I) /\ Cardinality(I) \in Nat
  BY FS_CardinalityType
<1>2. ASSUME NEW i \in I PROVE PlaceIn(I, i) \in 1 .. Cardinality(I)
  <2>1. upto(i) \in SUBSET I /\ i \in upto(i)
    OBVIOUS
  <2>2. IsFiniteSet(upto(i)) /\ Cardinality(upto(i)) \in Nat
        /\ Cardinality(upto(i)) <= Cardinality(I)
    BY <1>1, <2>1, FS_Subset, FS_CardinalityType
  <2>3. Cardinality(upto(i)) # 0
    BY <2>1, <2>2, FS_EmptySet
  <2> QED  BY <1>1, <2>2, <2>3 DEF PlaceIn
<1>3. ASSUME NEW i \in I, NEW j \in I, i < j PROVE PlaceIn(I, i) < PlaceIn(I, j)
  <2>1. upto(j) \in SUBSET I /\ upto(i) \in SUBSET upto(j) /\ j \in upto(j) /\ j \notin upto(i)
    <3>1. \A x \in I : x <= i => x <= j
      BY <1>0, <1>3
    <3>2. ~(j <= i) /\ j <= j
      BY <1>0, <1>3
    <3> QED  BY <3>1, <3>2
  <2>2. IsFiniteSet(upto(j))
    BY <1>1, <2>1, FS_Subset
  <2>3. Cardinality(upto(i)) <= Cardinality(upto(j))
        /\ Cardinality(upto(i)) # Cardinality(upto(j))
    BY <2>1, <2>2, FS_Subset
  <2>4. Cardinality(upto(i)) = PlaceIn(I, i) /\ Cardinality(upto(j)) = PlaceIn(I, j)
    BY DEF PlaceIn
  <2> QED  BY <1>1, <1>2, <2>3, <2>4
<1>4. ASSUME NEW i \in I, NEW j \in I, PlaceIn(I, i) = PlaceIn(I, j) PROVE i = j
  <2>1. i \in Int /\ j \in Int /\ (i = j \/ i < j \/ j < i)
    OBVIOUS
  <2> QED  BY <1>1, <1>2, <1>3, <1>4, <2>1
<1>5. \A k \in 1 .. Cardinality(I) : \E i \in I : PlaceIn(I, i) = k
  <2> DEFINE f == [i \in I |-> PlaceIn(I, i)]
             P == 1 .. Cardinality(I)
  <2>1. f \in Injection(I, P)
    BY <1>2, <1>4 DEF Injection, IsInjective
  <2>2. IsFiniteSet(P) /\ Cardinality(P) = Cardinality(I)
    BY <1>1, FS_Interval
  <2>3. f \in Surjection(I, P)
    BY <2>1, <2>2, FS_Injection
  <2> QED  BY <2>3 DEF Surjection
<1> QED  BY <1>1, <1>2, <1>3, <1>4, <1>5

LEMMA PlacesOf ==
  ASSUME NEW n \in Nat, NEW I \in SUBSET (1 .. n)
  PROVE  /\ IsFiniteSet(I) /\ Cardinality(I) \in Nat
         /\ \A i \in I : PlaceIn(I, i) \in 1 .. Cardinality(I)
         /\ \A i, j \in I : i < j => PlaceIn(I, i) < PlaceIn(I, j)
         /\ \A i, j \in I : PlaceIn(I, i) = PlaceIn(I, j) => i = j
         /\ \A k \in 1 .. Cardinality(I) : \E i \in I : PlaceIn(I, i) = k
<1>1. I \in SUBSET Int /\ 1 \in Int /\ n \in Int
  OBVIOUS
<1>2. IsFiniteSet(1 .. n)
  BY <1>1, FS_Interval
<1>3. IsFiniteSet(I)
  BY <1>2, FS_Subset
<1> QED  BY <1>1, <1>3, PlacesAmong

\* Each element that is kept is at its place, and there is nothing else.
LEMMA SubsequenceIs ==
  ASSUME NEW S, NEW s \in Seq(S), NEW I \in SUBSET DOMAIN s
  PROVE  /\ Subsequence(s, I) \in Seq(S)
         /\ Cardinality(I) \in Nat /\ Len(Subsequence(s, I)) = Cardinality(I)
         /\ \A i \in I : /\ PlaceIn(I, i) \in 1 .. Cardinality(I)
                         /\ Subsequence(s, I)[PlaceIn(I, i)] = s[i]
         /\ \A k \in 1 .. Cardinality(I) : \E i \in I : PlaceIn(I, i) = k
         /\ \A i, j \in I : i < j => PlaceIn(I, i) < PlaceIn(I, j)
<1>1. Len(s) \in Nat /\ I \in SUBSET (1 .. Len(s)) /\ \A i \in I : s[i] \in S
  OBVIOUS
<1>2. /\ Cardinality(I) \in Nat
      /\ \A i \in I : PlaceIn(I, i) \in 1 .. Cardinality(I)
      /\ \A i, j \in I : PlaceIn(I, i) = PlaceIn(I, j) => i = j
      /\ \A k \in 1 .. Cardinality(I) : \E i \in I : PlaceIn(I, i) = k
      /\ \A i, j \in I : i < j => PlaceIn(I, i) < PlaceIn(I, j)
  BY <1>1, PlacesOf
<1> DEFINE whose(k) == CHOOSE i \in I : PlaceIn(I, i) = k
<1>3. \A k \in 1 .. Cardinality(I) : whose(k) \in I
  BY <1>2
<1>4. \A i \in I : whose(PlaceIn(I, i)) = i
  BY <1>2
<1>5. Subsequence(s, I) = [k \in 1 .. Cardinality(I) |-> s[whose(k)]]
  BY DEF Subsequence
<1> HIDE DEF whose
<1>6. Subsequence(s, I) \in [1 .. Cardinality(I) -> S]
  BY <1>1, <1>3, <1>5
<1>7. Subsequence(s, I) \in Seq(S) /\ Len(Subsequence(s, I)) = Cardinality(I)
  BY <1>2, <1>6
<1>8. \A i \in I : Subsequence(s, I)[PlaceIn(I, i)] = s[i]
  BY <1>2, <1>4, <1>5
<1> QED  BY <1>2, <1>7, <1>8

\* Neighbours stay neighbours, and a beginning that is kept stays where it is.
LEMMA NextPlace ==
  ASSUME NEW n \in Nat, NEW I \in SUBSET (1 .. n), NEW i \in I, i + 1 \in I
  PROVE  PlaceIn(I, i + 1) = PlaceIn(I, i) + 1
<1> DEFINE upto(k) == {j \in I : j <= k}
<1>0. \A j \in I : j \in Nat
  OBVIOUS
<1>1. upto(i + 1) = upto(i) \cup {i + 1} /\ i + 1 \notin upto(i)
  <2>1. \A j \in I : j <= i + 1 <=> j <= i \/ j = i + 1
    BY <1>0
  <2>2. ~(i + 1 <= i)
    BY <1>0
  <2>3. ASSUME NEW x PROVE x \in upto(i + 1) <=> x \in upto(i) \cup {i + 1}
    BY <2>1
  <2> QED  BY <2>2, <2>3
<1>2. IsFiniteSet(upto(i))
  <2>1. upto(i) \in SUBSET I
    OBVIOUS
  <2> QED  BY <2>1, PlacesOf, FS_Subset
<1>3. Cardinality(upto(i + 1)) = Cardinality(upto(i)) + 1
  BY <1>1, <1>2, FS_AddElement
<1> QED  BY <1>3 DEF PlaceIn

LEMMA SamePlace ==
  ASSUME NEW n \in Nat, NEW I \in SUBSET (1 .. n), NEW i \in I, 1 .. i \subseteq I
  PROVE  PlaceIn(I, i) = i
<1>0. i \in Nat /\ i > 0 /\ \A j \in I : j \in Nat /\ j > 0
  OBVIOUS
<1>1. {j \in I : j <= i} = 1 .. i
  <2>1. ASSUME NEW j \in I PROVE j <= i <=> j \in 1 .. i
    BY <1>0
  <2> QED  BY <2>1
<1>2. Cardinality(1 .. i) = i
  <2>1. 1 \in Int /\ i \in Int
    BY <1>0
  <2> QED  BY <1>0, <2>1, FS_Interval
<1> QED  BY <1>1, <1>2 DEF PlaceIn

LEMMA LastPlace ==
  ASSUME NEW n \in Nat, NEW I \in SUBSET (1 .. n), NEW i \in I, \A j \in I : j <= i
  PROVE  PlaceIn(I, i) = Cardinality(I)
<1>1. {j \in I : j <= i} = I
  OBVIOUS
<1> QED  BY <1>1 DEF PlaceIn

\* All of a list is the list.
LEMMA WholeSubsequence ==
  ASSUME NEW S, NEW s \in Seq(S)
  PROVE  Subsequence(s, DOMAIN s) = s
<1> DEFINE I == DOMAIN s
           u == Subsequence(s, I)
<1>1. Len(s) \in Nat /\ I = 1 .. Len(s)
  OBVIOUS
<1> HIDE DEF I
<1>2. \A i \in I : PlaceIn(I, i) = i
  <2>1. \A i \in I : 1 .. i \subseteq I
    BY <1>1
  <2> QED  BY <1>1, <2>1, SamePlace
<1>6. Cardinality(I) = Len(s)
  <2>1. 1 \in Int /\ Len(s) \in Int
    BY <1>1
  <2> QED  BY <1>1, <2>1, FS_Interval
<1>3. /\ u \in Seq(S) /\ Len(u) = Cardinality(I)
      /\ \A i \in I : u[PlaceIn(I, i)] = s[i]
  BY SubsequenceIs DEF I
<1>4. \A i \in 1 .. Len(s) : u[i] = s[i]
  BY <1>1, <1>2, <1>3
<1> HIDE DEF u
<1>5. u = s
  BY <1>1, <1>3, <1>4, <1>6
<1> QED  BY <1>5 DEF u, I

\* One list after another.
LEMMA Appended ==
  ASSUME NEW S, NEW x \in Seq(S), NEW y \in Seq(S), NEW z, z = x \o y
  PROVE  /\ z \in Seq(S) /\ Len(z) = Len(x) + Len(y)
         /\ \A i \in 1 .. Len(x) : z[i] = x[i]
         /\ \A i \in 1 .. Len(y) : z[Len(x) + i] = y[i]
OBVIOUS
=============================================================================
