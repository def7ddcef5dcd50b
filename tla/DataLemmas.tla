----------------------------- MODULE DataLemmas -----------------------------
(***************************************************************************)
(* What the proofs need to know of numbers and sequences: the least number *)
(* of a set, which stands for induction, the powers of two, and what the   *)
(* insertion and the removal at a position do to a sequence.               *)
(***************************************************************************)
EXTENDS Naturals, Sequences, SequencesExt, SequenceTheorems, FunctionTheorems,
        FiniteSetTheorems, WellFoundedInduction, TLAPS

(* A number that names the first entry, the last block or the first failing *)
(* case exists as soon as any does: each CHOOSE of a least position in      *)
(* hash_map.h's loops has a value.                                          *)
LEMMA LeastNatural ==
  ASSUME NEW T, T \subseteq Nat, T # {}
  PROVE  \E n \in T : \A m \in T : n <= m
<1>1. PICK x \in T : \A y \in T : ~ (<<y, x>> \in OpToRel(<, Nat))
  BY NatLessThanWellFounded, WFMin
<1>2. \A y \in T : ~ (y < x)
  BY <1>1 DEF OpToRel
<1>3. \A y \in T : x <= y
  BY <1>2
<1> QED  BY <1>3

(* A longest match exists as soon as there is a match. *)
LEMMA GreatestNatural ==
  ASSUME NEW T, T \subseteq Nat, T # {}, NEW n \in Nat, \A m \in T : m <= n
  PROVE  \E m \in T : \A k \in T : k <= m
<1> DEFINE D == {k \in Nat : n - k \in T}
<1>1. D # {}
  <2>1. PICK m \in T : TRUE  OBVIOUS
  <2>2. m \in Nat /\ m <= n  OBVIOUS
  <2>3. n - m \in Nat /\ n - (n - m) = m  BY <2>2
  <2>4. n - m \in D  BY <2>1, <2>3
  <2> QED  BY <2>4
<1>2. PICK d \in D : \A k \in D : d <= k
  <2>1. D \subseteq Nat  OBVIOUS
  <2> HIDE DEF D
  <2> QED  BY <1>1, <2>1, LeastNatural
<1>3. ASSUME NEW k \in T PROVE k <= n - d
  <2>1. k \in Nat /\ k <= n  OBVIOUS
  <2>2. n - k \in Nat /\ n - (n - k) = k  BY <2>1
  <2>3. n - k \in D  BY <2>2
  <2>4. d <= n - k /\ d \in Nat  BY <1>2, <2>3
  <2> QED  BY <2>1, <2>4
<1> QED  BY <1>2, <1>3

(* The masks of the resize test (hash_map.h:141-143) are of consecutive     *)
(* powers of two.                                                           *)
LEMMA PowerOfTwo ==
  ASSUME NEW n \in Nat
  PROVE  /\ 2^n \in Nat \ {0}
         /\ 2^(n + 1) = 2 * 2^n
<1> DEFINE S == 1 .. n
           A == SUBSET S
           B == {T \union {n + 1} : T \in A}
           add == [T \in A |-> T \union {n + 1}]
<1>1. IsFiniteSet(S) /\ Cardinality(S) = n
  BY FS_Interval
<1>2. IsFiniteSet(A) /\ Cardinality(A) = 2^n
  BY <1>1, FS_SUBSET
<1>3. add \in Bijection(A, B)
  <2>1. add \in [A -> B]  OBVIOUS
  <2>2. \A T, U \in A : add[T] = add[U] => T = U
    <3>1. SUFFICES ASSUME NEW T \in A, NEW U \in A, T \union {n + 1} = U \union {n + 1}
                   PROVE  T = U
      OBVIOUS
    <3>2. n + 1 \notin T /\ n + 1 \notin U  OBVIOUS
    <3> QED  BY <3>1, <3>2
  <2>3. \A T \in B : \E U \in A : add[U] = T  OBVIOUS
  <2> QED  BY <2>1, <2>2, <2>3, Fun_IsBij
<1>4. IsFiniteSet(B) /\ Cardinality(B) = 2^n
  <2>1. ExistsBijection(A, B)  BY <1>3 DEF ExistsBijection
  <2> QED  BY <1>2, <2>1, FS_Bijection
<1>5. A \intersect B = {}
  <2>1. ASSUME NEW T \in A, T \in B PROVE FALSE
    <3>1. n + 1 \in T  BY <2>1
    <3> QED  BY <3>1
  <2> QED  BY <2>1
<1>6. SUBSET (1 .. n + 1) = A \union B
  <2>1. ASSUME NEW T \in SUBSET (1 .. n + 1) PROVE T \in A \union B
    <3>1. CASE n + 1 \in T
      <4>1. T \ {n + 1} \in A  OBVIOUS
      <4>2. T = (T \ {n + 1}) \union {n + 1}  BY <3>1
      <4> QED  BY <4>1, <4>2
    <3>2. CASE n + 1 \notin T
      <4>1. T \subseteq S  BY <3>2
      <4> QED  BY <4>1
    <3> QED  BY <3>1, <3>2
  <2>2. ASSUME NEW T \in A \union B PROVE T \subseteq 1 .. n + 1
    <3>1. S \subseteq 1 .. n + 1 /\ n + 1 \in 1 .. n + 1  OBVIOUS
    <3>2. CASE T \in A  BY <3>1, <3>2
    <3>3. CASE T \in B
      <4>1. PICK U \in A : T = U \union {n + 1}  BY <3>3
      <4> QED  BY <3>1, <4>1
    <3> QED  BY <3>2, <3>3
  <2> QED  BY <2>1, <2>2
<1>7. 2^(n + 1) = Cardinality(A \union B)
  <2>1. n + 1 \in Nat /\ IsFiniteSet(1 .. n + 1) /\ Cardinality(1 .. n + 1) = n + 1
    BY FS_Interval
  <2> QED  BY <1>6, <2>1, FS_SUBSET
<1>8. Cardinality(A \union B) = Cardinality(A) + Cardinality(B)
  <2>1. Cardinality(A \intersect B) = 0  BY <1>5, FS_EmptySet
  <2>2. Cardinality(A) \in Nat /\ Cardinality(B) \in Nat
    BY <1>2, <1>4, FS_CardinalityType
  <2>3. Cardinality(A \union B)
          = Cardinality(A) + Cardinality(B) - Cardinality(A \intersect B)
    BY <1>2, <1>4, FS_Union
  <2> HIDE DEF A, B
  <2> QED  BY <2>1, <2>2, <2>3
<1>9. 2^n \in Nat /\ 2^n # 0
  <2>1. {} \in A  OBVIOUS
  <2> QED  BY <1>2, <2>1, FS_CardinalityType, FS_EmptySet
<1> HIDE DEF A, B
<1> QED  BY <1>2, <1>4, <1>7, <1>8, <1>9

----------------------------------------------------------------------------
(* Unlinking one entry of a list (hash_map.h:72-101, compiler.c:47-49): the  *)
(* entries before it keep their place and those after it move up by one.    *)
LEMMA RemoveAtProperties ==
  ASSUME NEW S, NEW s \in Seq(S), NEW n \in 1 .. Len(s)
  PROVE  /\ RemoveAt(s, n) \in Seq(S)
         /\ Len(RemoveAt(s, n)) = Len(s) - 1
         /\ \A m \in 1 .. Len(s) - 1 :
              RemoveAt(s, n)[m] = IF m < n THEN s[m] ELSE s[m + 1]
<1> DEFINE front == SubSeq(s, 1, n - 1)
           back == SubSeq(s, n + 1, Len(s))
<1>1. RemoveAt(s, n) = front \o back
  BY DEF RemoveAt
<1>2. front \in Seq(S) /\ Len(front) = n - 1
  BY SubSeqProperties
<1>3. \A m \in 1 .. n - 1 : front[m] = s[m]
  BY SubSeqProperties
<1>4. back \in Seq(S) /\ Len(back) = Len(s) - n
  BY SubSeqProperties
<1>5. \A m \in 1 .. Len(s) - n : back[m] = s[n + m]
  BY SubSeqProperties
<1> HIDE DEF front, back
<1>6. /\ front \o back \in Seq(S)
      /\ Len(front \o back) = Len(s) - 1
      /\ \A m \in 1 .. Len(s) - 1 :
           (front \o back)[m] = IF m <= n - 1 THEN front[m] ELSE back[m - (n - 1)]
  <2>1. /\ front \o back \in Seq(S)
        /\ Len(front \o back) = Len(front) + Len(back)
        /\ \A m \in 1 .. Len(front) + Len(back) :
             (front \o back)[m] = IF m <= Len(front) THEN front[m]
                                  ELSE back[m - Len(front)]
    BY <1>2, <1>4, ConcatProperties
  <2>2. Len(front) + Len(back) = Len(s) - 1  BY <1>2, <1>4
  <2> QED  BY <2>1, <2>2, <1>2
<1>7. ASSUME NEW m \in 1 .. Len(s) - 1
      PROVE  (front \o back)[m] = IF m < n THEN s[m] ELSE s[m + 1]
  <2>1. CASE m < n
    BY <1>6, <1>3, <2>1
  <2>2. CASE ~ (m < n)
    <3>1. m - (n - 1) \in 1 .. Len(s) - n  BY <2>2
    <3>2. back[m - (n - 1)] = s[m + 1]  BY <3>1, <1>5
    <3> QED  BY <3>2, <1>6, <2>2
  <2> QED  BY <2>1, <2>2
<1> QED  BY <1>1, <1>6, <1>7

(* An element put into a list (array_list.h:52-55): those before it keep    *)
(* their place and those from there on move up by one.                      *)
LEMMA InsertAtProperties ==
  ASSUME NEW S, NEW s \in Seq(S), NEW n \in 1 .. Len(s) + 1, NEW e \in S
  PROVE  /\ InsertAt(s, n, e) \in Seq(S)
         /\ Len(InsertAt(s, n, e)) = Len(s) + 1
         /\ \A m \in 1 .. Len(s) + 1 :
              InsertAt(s, n, e)[m] = IF m < n THEN s[m] ELSE IF m = n THEN e ELSE s[m - 1]
<1> DEFINE front == SubSeq(s, 1, n - 1)
           back == SubSeq(s, n, Len(s))
           middle == front \o <<e>>
<1>1. InsertAt(s, n, e) = middle \o back
  BY DEF InsertAt
<1>2. /\ front \in Seq(S) /\ Len(front) = n - 1
      /\ \A m \in 1 .. n - 1 : front[m] = s[m]
  BY SubSeqProperties
<1>3. /\ back \in Seq(S) /\ Len(back) = Len(s) - n + 1
      /\ \A m \in 1 .. Len(s) - n + 1 : back[m] = s[n + m - 1]
  BY SubSeqProperties
<1> HIDE DEF front, back
<1>4. /\ middle \in Seq(S) /\ Len(middle) = n
      /\ \A m \in 1 .. n : middle[m] = IF m < n THEN s[m] ELSE e
  <2>1. <<e>> \in Seq(S) /\ Len(<<e>>) = 1 /\ <<e>>[1] = e  OBVIOUS
  <2>2. /\ front \o <<e>> \in Seq(S)
        /\ Len(front \o <<e>>) = Len(front) + Len(<<e>>)
        /\ \A m \in 1 .. Len(front) + Len(<<e>>) :
             (front \o <<e>>)[m] = IF m <= Len(front) THEN front[m] ELSE <<e>>[m - Len(front)]
    BY <1>2, <2>1, ConcatProperties
  <2>3. \A m \in 1 .. n : middle[m] = IF m <= n - 1 THEN front[m] ELSE <<e>>[m - (n - 1)]
    BY <1>2, <2>1, <2>2
  <2>4. middle[n] = e
    <3>1. n - (n - 1) = 1 /\ ~ (n <= n - 1) /\ n \in 1 .. n  OBVIOUS
    <3>2. middle[n] = <<e>>[n - (n - 1)]
      <4> HIDE DEF middle
      <4> QED  BY <2>3, <3>1
    <3> QED  BY <2>1, <3>1, <3>2
  <2>5. ASSUME NEW m \in 1 .. n PROVE middle[m] = IF m < n THEN s[m] ELSE e
    <3>1. CASE m = n
      <4>1. ~ (m < n)  BY <3>1
      <4> HIDE DEF middle
      <4> QED  BY <2>4, <3>1, <4>1
    <3>2. CASE m # n
      <4>1. m < n /\ m <= n - 1 /\ m \in 1 .. n - 1  BY <3>2
      <4> HIDE DEF middle
      <4> QED  BY <1>2, <2>3, <4>1
    <3> QED  BY <3>1, <3>2
  <2>6. middle \in Seq(S) /\ Len(middle) = n  BY <1>2, <2>1, <2>2
  <2> QED  BY <2>5, <2>6
<1> HIDE DEF middle
<1>5. /\ middle \o back \in Seq(S)
      /\ Len(middle \o back) = Len(s) + 1
      /\ \A m \in 1 .. Len(s) + 1 :
           (middle \o back)[m] = IF m <= n THEN middle[m] ELSE back[m - n]
  <2>1. /\ middle \o back \in Seq(S)
        /\ Len(middle \o back) = Len(middle) + Len(back)
        /\ \A m \in 1 .. Len(middle) + Len(back) :
             (middle \o back)[m] = IF m <= Len(middle) THEN middle[m] ELSE back[m - Len(middle)]
    BY <1>3, <1>4, ConcatProperties
  <2>2. Len(middle) + Len(back) = Len(s) + 1  BY <1>3, <1>4
  <2> QED  BY <1>4, <2>1, <2>2
<1>6. ASSUME NEW m \in 1 .. Len(s) + 1
      PROVE  (middle \o back)[m] = IF m < n THEN s[m] ELSE IF m = n THEN e ELSE s[m - 1]
  <2>1. CASE m <= n
    <3>1. (middle \o back)[m] = middle[m] /\ m \in 1 .. n  BY <1>5, <2>1
    <3>2. m < n \/ m = n  BY <2>1
    <3> QED  BY <1>4, <3>1, <3>2
  <2>2. CASE ~ (m <= n)
    <3>1. /\ m - n \in 1 .. Len(s) - n + 1 /\ n + (m - n) - 1 = m - 1
          /\ ~ (m < n) /\ m # n
      BY <2>2
    <3>2. (middle \o back)[m] = back[m - n]  BY <1>5, <2>2
    <3>3. back[m - n] = s[m - 1]  BY <1>3, <3>1
    <3> QED  BY <3>1, <3>2, <3>3
  <2> QED  BY <2>1, <2>2
<1> QED  BY <1>1, <1>5, <1>6
=============================================================================
