---------------------------- MODULE TablesProofs ----------------------------
(***************************************************************************)
(* The hash set and the void hash table, for any keys, hash and initial    *)
(* capacity: what a doubling does to the cells of the lists, element by    *)
(* element; that the table is a dictionary its lookups read; that the set  *)
(* loses nothing, and agrees with the table while it is exact.             *)
(***************************************************************************)
EXTENDS Tables, DataLemmas

(* Induction up to a bound, over a set.                                     *)
LEMMA UpToBound ==
  ASSUME NEW N \in Nat, NEW S, 0 \in S, \A n \in 1 .. N : n - 1 \in S => n \in S
  PROVE  \A n \in 0 .. N : n \in S
<1> DEFINE T == {n \in 0 .. N : n \notin S}
<1> SUFFICES ASSUME T # {} PROVE FALSE
  OBVIOUS
<1>1. PICK n \in T : \A m \in T : n <= m
  <2>1. T \subseteq Nat  OBVIOUS
  <2> HIDE DEF T
  <2> QED  BY <2>1, LeastNatural
<1>2. n \in 1 .. N /\ n - 1 \in 0 .. N /\ ~ (n <= n - 1)  OBVIOUS
<1>3. n - 1 \in S  BY <1>1, <1>2
<1> QED  BY <1>2, <1>3

(* A loop that goes N times through its body: the states it passes.         *)
Iterates(N, V, first, step, f) ==
  /\ f \in [0 .. N -> V] /\ f[0] = first
  /\ \A n \in 1 .. N : f[n] = step[n][f[n - 1]]

(* Those states exist when the body leads from states to states.            *)
LEMMA Iteration ==
  ASSUME NEW N \in Nat, NEW V, NEW first \in V, NEW step \in [1 .. N -> [V -> V]]
  PROVE  \E f : Iterates(N, V, first, step, f)
<1> DEFINE Goes(f, m) == f[0] = first /\ \A n \in 1 .. m : f[n] = step[n][f[n - 1]]
           S == {m \in 0 .. N : \E f \in [0 .. N -> V] : Goes(f, m)}
<1>1. 0 \in S
  <2>1. Goes([n \in 0 .. N |-> first], 0)  OBVIOUS
  <2>2. [n \in 0 .. N |-> first] \in [0 .. N -> V]  OBVIOUS
  <2> HIDE DEF Goes
  <2> QED  BY <2>1, <2>2
<1>2. ASSUME NEW m \in 1 .. N, m - 1 \in S PROVE m \in S
  <2>1. PICK f \in [0 .. N -> V] : Goes(f, m - 1)  BY <1>2
  <2> DEFINE g == [n \in 0 .. N |-> IF n = m THEN step[m][f[m - 1]] ELSE f[n]]
  <2>2. step[m][f[m - 1]] \in V  OBVIOUS
  <2>3. g \in [0 .. N -> V]  BY <2>2
  <2>4. g[m] = step[m][f[m - 1]] /\ \A n \in 0 .. N : n # m => g[n] = f[n]  OBVIOUS
  <2> HIDE DEF g
  <2>5. g[0] = first
    <3>1. 0 \in 0 .. N /\ 0 # m  OBVIOUS
    <3> QED  BY <2>1, <2>4, <3>1
  <2>6. ASSUME NEW n \in 1 .. m PROVE g[n] = step[n][g[n - 1]]
    <3>1. n - 1 \in 0 .. N /\ n - 1 # m /\ n \in 0 .. N  OBVIOUS
    <3>2. g[n - 1] = f[n - 1]  BY <2>4, <3>1
    <3>3. CASE n = m  BY <2>4, <3>2, <3>3
    <3>4. CASE n # m
      <4>1. n \in 1 .. m - 1  BY <3>4
      <4> QED  BY <2>1, <2>4, <3>1, <3>2, <3>4, <4>1
    <3> QED  BY <3>3, <3>4
  <2>7. Goes(g, m)  BY <2>5, <2>6
  <2> HIDE DEF Goes
  <2> QED  BY <2>3, <2>7
<1> HIDE DEF S
<1>3. N \in S
  <2>1. \A n \in 0 .. N : n \in S  BY <1>1, <1>2, UpToBound
  <2> QED  BY <2>1
<1> QED  BY <1>3 DEF S, Iterates

----------------------------------------------------------------------------
(* An array of c lists; what is in them; no element in two places.          *)
Lists(c, X) == [0 .. c - 1 -> Seq(X)]

In(B) == UNION {ToSet(B[b]) : b \in DOMAIN B}

Apart(B) ==
  \A b, d \in DOMAIN B : \A n \in DOMAIN B[b], m \in DOMAIN B[d] :
    B[b][n] = B[d][m] => b = d /\ n = m

(* The lists of an array.                                                   *)
LEMMA ListsAre ==
  ASSUME NEW c \in Nat, NEW X, NEW B \in Lists(c, X), NEW b \in 0 .. c - 1
  PROVE  /\ DOMAIN B = 0 .. c - 1 /\ B[b] \in Seq(X)
         /\ Len(B[b]) \in Nat /\ DOMAIN B[b] = 1 .. Len(B[b])
         /\ \A n \in DOMAIN B[b] : B[b][n] \in X
<1>1. DOMAIN B = 0 .. c - 1 /\ B[b] \in Seq(X)  BY DEF Lists
<1> QED  BY <1>1, LenProperties, ElementOfSeq

(* What is in the lists is at a place of one.                               *)
LEMMA InIs ==
  ASSUME NEW B, NEW x
  PROVE  x \in In(B) <=> \E b \in DOMAIN B : \E n \in DOMAIN B[b] : B[b][n] = x
BY DEF In, ToSet

(* The cells of the lists.                                                  *)
LEMMA CellsAre ==
  ASSUME NEW B, NEW p
  PROVE  p \in Cells(B) <=> \E b \in DOMAIN B : \E n \in DOMAIN B[b] : p = <<b, n>>
BY DEF Cells

(* When one list changes, the number of cells changes as its length does.   *)
LEMMA CellsChange ==
  ASSUME NEW B, NEW C, DOMAIN C = DOMAIN B, NEW b \in DOMAIN B,
         \A d \in DOMAIN B : d # b => DOMAIN C[d] = DOMAIN B[d],
         NEW k \in Nat, NEW l \in Nat, DOMAIN B[b] = 1 .. k, DOMAIN C[b] = 1 .. l,
         IsFiniteSet(Cells(B))
  PROVE  /\ IsFiniteSet(Cells(C)) /\ Cardinality(Cells(C)) \in Nat /\ Cardinality(Cells(B)) \in Nat
         /\ Cardinality(Cells(C)) + k = Cardinality(Cells(B)) + l
<1> DEFINE R == {p \in Cells(B) : p[1] # b}
<1>1. ASSUME NEW n \in Nat
      PROVE  /\ IsFiniteSet({b} \X (1 .. n)) /\ Cardinality({b} \X (1 .. n)) = n
  <2>1. IsFiniteSet({b}) /\ Cardinality({b}) = 1  BY FS_Singleton
  <2>2. IsFiniteSet(1 .. n) /\ Cardinality(1 .. n) = n  BY FS_Interval
  <2> DEFINE S == {b}
             T == 1 .. n
  <2>3. IsFiniteSet(S \X T) /\ Cardinality(S \X T) = Cardinality(S) * Cardinality(T)
    <3>1. IsFiniteSet(S) /\ IsFiniteSet(T)  BY <2>1, <2>2
    <3> HIDE DEF S, T
    <3> QED  BY <3>1, FS_Product
  <2>4. Cardinality(S) = 1 /\ Cardinality(T) = n /\ 1 * n = n  BY <2>1, <2>2
  <2> HIDE DEF S, T
  <2>5. Cardinality(S \X T) = n  BY <2>3, <2>4
  <2> QED  BY <2>3, <2>5 DEF S, T
<1>2. IsFiniteSet(R) /\ Cardinality(R) \in Nat
  <2>1. R \in SUBSET Cells(B)  OBVIOUS
  <2> HIDE DEF R
  <2> QED  BY <2>1, FS_Subset, FS_CardinalityType
<1>3. ASSUME NEW n \in Nat, NEW P, P = {b} \X (1 .. n)
      PROVE  /\ IsFiniteSet(R \union P) /\ Cardinality(R \union P) = Cardinality(R) + n
  <2>1. R \cap P = {}  BY <1>3
  <2>2. IsFiniteSet(P) /\ Cardinality(P) = n  BY <1>1, <1>3
  <2> HIDE DEF R
  <2>3. Cardinality(R \cap P) = 0  BY <2>1, FS_EmptySet
  <2>4. Cardinality(R \union P) = Cardinality(R) + Cardinality(P) - Cardinality(R \cap P)
    BY <1>2, <2>2, FS_Union
  <2>5. IsFiniteSet(R \union P)  BY <1>2, <2>2, FS_Union
  <2> QED  BY <1>2, <2>2, <2>3, <2>4, <2>5
<1>4. PICK P, Q : P = {b} \X (1 .. k) /\ Q = {b} \X (1 .. l)  OBVIOUS
<1>5. /\ \A n \in DOMAIN B[b] : <<b, n>> \in P
      /\ \A p \in P : p[2] \in DOMAIN B[b] /\ p = <<b, p[2]>>
      /\ \A n \in DOMAIN C[b] : <<b, n>> \in Q
      /\ \A p \in Q : p[2] \in DOMAIN C[b] /\ p = <<b, p[2]>>
  BY <1>4
<1>6. \A p : p \in R <=> \E d \in DOMAIN B : \E n \in DOMAIN B[d] : p = <<d, n>> /\ d # b
  <2> SUFFICES ASSUME NEW p
               PROVE  p \in R <=> \E d \in DOMAIN B : \E n \in DOMAIN B[d] : p = <<d, n>> /\ d # b
    OBVIOUS
  <2>1. p \in R <=> p \in Cells(B) /\ p[1] # b  OBVIOUS
  <2>2. \A d, n : p = <<d, n>> => p[1] = d  OBVIOUS
  <2> HIDE DEF R
  <2>3. p \in Cells(B) <=> \E d \in DOMAIN B : \E n \in DOMAIN B[d] : p = <<d, n>>
    BY CellsAre
  <2> QED  BY <2>1, <2>2, <2>3
<1> HIDE DEF R
<1>7. Cells(B) = R \union P
  <2>1. ASSUME NEW p \in Cells(B) PROVE p \in R \union P
    <3>1. PICK d \in DOMAIN B : \E n \in DOMAIN B[d] : p = <<d, n>>  BY CellsAre
    <3>2. CASE d = b  BY <1>5, <3>1, <3>2
    <3>3. CASE d # b  BY <1>6, <3>1, <3>3
    <3> QED  BY <3>2, <3>3
  <2>2. ASSUME NEW p \in R \union P PROVE p \in Cells(B)
    <3>1. CASE p \in R  BY <1>6, <3>1, CellsAre, Zenon
    <3>2. CASE p \in P
      <4>1. \E n \in DOMAIN B[b] : p = <<b, n>>  BY <1>5, <3>2, Zenon
      <4> QED  BY <4>1, CellsAre
    <3> QED  BY <2>2, <3>1, <3>2
  <2> QED  BY <2>1, <2>2
<1>8. Cells(C) = R \union Q
  <2>1. ASSUME NEW p \in Cells(C) PROVE p \in R \union Q
    <3>1. PICK d \in DOMAIN B : \E n \in DOMAIN C[d] : p = <<d, n>>  BY CellsAre
    <3>2. CASE d = b  BY <1>5, <3>1, <3>2
    <3>3. CASE d # b
      <4>1. \E n \in DOMAIN B[d] : p = <<d, n>> /\ d # b  BY <3>1, <3>3
      <4> QED  BY <1>6, <4>1
    <3> QED  BY <3>2, <3>3
  <2>2. ASSUME NEW p \in R \union Q PROVE p \in Cells(C)
    <3>1. CASE p \in R
      <4>1. PICK d \in DOMAIN B : \E n \in DOMAIN B[d] : p = <<d, n>> /\ d # b
        BY <1>6, <3>1
      <4>2. d \in DOMAIN C /\ DOMAIN C[d] = DOMAIN B[d]  BY <4>1
      <4> QED  BY <4>1, <4>2, CellsAre
    <3>2. CASE p \in Q
      <4>1. \E n \in DOMAIN C[b] : p = <<b, n>>  BY <1>5, <3>2, Zenon
      <4>2. b \in DOMAIN C  OBVIOUS
      <4> QED  BY <4>1, <4>2, CellsAre
    <3> QED  BY <2>2, <3>1, <3>2
  <2> QED  BY <2>1, <2>2
<1>9. /\ Cardinality(Cells(B)) = Cardinality(R) + k /\ Cardinality(Cells(C)) = Cardinality(R) + l
      /\ IsFiniteSet(Cells(C))
  <2>1. Cardinality(R \union P) = Cardinality(R) + k  BY <1>3, <1>4, Zenon
  <2>2. IsFiniteSet(R \union Q) /\ Cardinality(R \union Q) = Cardinality(R) + l
    BY <1>3, <1>4, Zenon
  <2> QED  BY <1>7, <1>8, <2>1, <2>2
<1> QED  BY <1>2, <1>9

(* The element x is in the array Q at the place p of the list i, and the    *)
(* rest is the array R.                                                     *)
Inserted(R, i, p, x, Q) ==
  /\ i \in DOMAIN R /\ \A d \in DOMAIN R : d # i => Q[d] = R[d]
  /\ Len(Q[i]) = Len(R[i]) + 1 /\ p \in 1 .. Len(R[i]) + 1 /\ Q[i][p] = x
  /\ \A m \in 1 .. Len(R[i]) : /\ m < p => Q[i][m] = R[i][m]
                               /\ p <= m => Q[i][m + 1] = R[i][m]

(* What the insertion of an element does to an array: the other elements,   *)
(* at whatever place, stay apart.                                           *)
LEMMA InsertedEffect ==
  ASSUME NEW c \in Nat, NEW X, NEW R \in Lists(c, X), NEW Q \in Lists(c, X),
         NEW i, NEW p, NEW x, Inserted(R, i, p, x, Q)
  PROVE  /\ In(Q) = In(R) \union {x}
         /\ Apart(Q) <=> Apart(R) /\ x \notin In(R)
<1> DEFINE Ids == 0 .. c - 1
           shift == [d \in Ids |-> [m \in Nat |-> IF d = i /\ p <= m THEN m + 1 ELSE m]]
<1>1. /\ DOMAIN R = Ids /\ DOMAIN Q = Ids /\ i \in Ids
      /\ \A d \in Ids : /\ Len(R[d]) \in Nat /\ DOMAIN R[d] = 1 .. Len(R[d])
                      /\ Len(Q[d]) \in Nat /\ DOMAIN Q[d] = 1 .. Len(Q[d])
  BY ListsAre DEF Inserted, Lists
<1>2. /\ \A d \in Ids : d # i => Q[d] = R[d]
      /\ Len(Q[i]) = Len(R[i]) + 1 /\ p \in 1 .. Len(R[i]) + 1 /\ Q[i][p] = x
      /\ \A m \in 1 .. Len(R[i]) : /\ m < p => Q[i][m] = R[i][m]
                                   /\ p <= m => Q[i][m + 1] = R[i][m]
  BY <1>1 DEF Inserted
<1>3. /\ p \in DOMAIN Q[i] /\ p \in Nat
      /\ \A d \in Ids : \A m \in DOMAIN R[d] :
           shift[d][m] \in DOMAIN Q[d] /\ Q[d][shift[d][m]] = R[d][m] /\ (d = i => shift[d][m] # p)
  <2>1. p \in DOMAIN Q[i] /\ p \in Nat  BY <1>1, <1>2
  <2> SUFFICES ASSUME NEW d \in Ids, NEW m \in DOMAIN R[d]
               PROVE  /\ shift[d][m] \in DOMAIN Q[d] /\ Q[d][shift[d][m]] = R[d][m]
                      /\ d = i => shift[d][m] # p
    BY <2>1
  <2>2. m \in 1 .. Len(R[d]) /\ m \in Nat /\ Len(R[d]) \in Nat  BY <1>1
  <2>3. CASE d # i
    <3>1. shift[d][m] = m  BY <2>2, <2>3
    <3> QED  BY <1>2, <2>3, <3>1
  <2>4. CASE d = i /\ m < p
    <3>1. shift[d][m] = m  BY <2>1, <2>2, <2>4
    <3>2. m \in 1 .. Len(R[i]) /\ m \in 1 .. Len(R[i]) + 1 /\ m # p  BY <2>1, <2>2, <2>4
    <3>3. m \in DOMAIN Q[d] /\ Q[d][m] = R[d][m]  BY <1>1, <1>2, <2>4, <3>2
    <3> QED  BY <3>1, <3>2, <3>3
  <2>5. CASE d = i /\ p <= m
    <3>1. shift[d][m] = m + 1 /\ m + 1 # p  BY <2>1, <2>2, <2>5
    <3>2. m \in 1 .. Len(R[i]) /\ m + 1 \in 1 .. Len(R[i]) + 1  BY <2>2, <2>5
    <3>3. m + 1 \in DOMAIN Q[d] /\ Q[d][m + 1] = R[d][m]  BY <1>1, <1>2, <2>5, <3>2
    <3> QED  BY <3>1, <3>3
  <2> QED  BY <2>1, <2>2, <2>3, <2>4, <2>5
<1>4. \A d \in Ids : \A m \in DOMAIN R[d], k \in DOMAIN R[d] : shift[d][m] = shift[d][k] => m = k
  <2>1. \A d \in Ids : \A m \in Nat, k \in Nat : shift[d][m] = shift[d][k] => m = k
    BY <1>3
  <2>2. \A d \in Ids : \A m \in DOMAIN R[d] : m \in Nat  BY <1>1
  <2> HIDE DEF shift
  <2> QED  BY <2>1, <2>2
<1>5. ASSUME NEW d \in Ids, NEW m \in DOMAIN Q[d], ~ (d = i /\ m = p)
      PROVE  \E k \in DOMAIN R[d] : m = shift[d][k]
  <2>1. m \in 1 .. Len(Q[d]) /\ m \in Nat /\ Len(R[d]) \in Nat  BY <1>1
  <2>2. CASE d # i
    <3>1. shift[d][m] = m /\ m \in DOMAIN R[d]  BY <1>2, <2>1, <2>2
    <3> QED  BY <3>1
  <2>3. CASE d = i /\ m < p
    <3>1. shift[d][m] = m  BY <1>3, <2>1, <2>3
    <3>2. m \in 1 .. Len(R[d])  BY <1>2, <2>1, <2>3
    <3> QED  BY <1>1, <3>1, <3>2
  <2>4. CASE d = i /\ p < m
    <3>1. m - 1 \in Nat /\ p <= m - 1 /\ m - 1 + 1 = m  BY <1>3, <2>1, <2>4
    <3>2. shift[d][m - 1] = m  BY <2>4, <3>1
    <3>3. m - 1 \in 1 .. Len(R[d])  BY <1>2, <2>1, <2>4, <3>1
    <3> QED  BY <1>1, <3>2, <3>3
  <2>5. m < p \/ m = p \/ p < m  BY <1>3, <2>1
  <2> QED  BY <1>5, <2>2, <2>3, <2>4, <2>5
<1> HIDE DEF shift
<1>6. \A y : y \in In(R) <=> \E d \in Ids : \E m \in DOMAIN R[d] : R[d][m] = y
  <2>1. \A y : y \in In(R) <=> \E d \in DOMAIN R : \E m \in DOMAIN R[d] : R[d][m] = y
    BY InIs
  <2> QED  BY <1>1, <2>1
<1>7. \A y : y \in In(Q) <=> \E d \in Ids : \E m \in DOMAIN Q[d] : Q[d][m] = y
  <2>1. \A y : y \in In(Q) <=> \E d \in DOMAIN Q : \E m \in DOMAIN Q[d] : Q[d][m] = y
    BY InIs
  <2> QED  BY <1>1, <2>1
<1>8. In(Q) = In(R) \union {x}
  <2>1. ASSUME NEW y \in In(Q) PROVE y \in In(R) \union {x}
    <3>1. PICK d \in Ids : \E m \in DOMAIN Q[d] : Q[d][m] = y  BY <1>7, <2>1
    <3>2. PICK m \in DOMAIN Q[d] : Q[d][m] = y  BY <3>1
    <3>3. CASE d = i /\ m = p  BY <1>2, <3>2, <3>3
    <3>4. CASE ~ (d = i /\ m = p)
      <4>1. PICK k \in DOMAIN R[d] : m = shift[d][k]  BY <1>5, <3>4
      <4>2. R[d][k] = y  BY <1>3, <3>2, <4>1
      <4> QED  BY <1>6, <4>2
    <3> QED  BY <3>3, <3>4
  <2>2. ASSUME NEW y \in In(R) PROVE y \in In(Q)
    <3>1. PICK d \in Ids : \E m \in DOMAIN R[d] : R[d][m] = y  BY <1>6, <2>2
    <3>2. PICK m \in DOMAIN R[d] : R[d][m] = y  BY <3>1
    <3>3. shift[d][m] \in DOMAIN Q[d] /\ Q[d][shift[d][m]] = y  BY <1>3, <3>2
    <3> QED  BY <1>7, <3>3
  <2>3. x \in In(Q)  BY <1>1, <1>2, <1>3, <1>7
  <2> QED  BY <2>1, <2>2, <2>3
<1>9. ASSUME Apart(Q) PROVE Apart(R) /\ x \notin In(R)
  <2>1. \A d \in Ids, e \in Ids : \A m \in DOMAIN Q[d], k \in DOMAIN Q[e] :
          Q[d][m] = Q[e][k] => d = e /\ m = k
    BY <1>1, <1>9 DEF Apart
  <2>2. ASSUME NEW d \in Ids, NEW e \in Ids, NEW m \in DOMAIN R[d], NEW k \in DOMAIN R[e],
               R[d][m] = R[e][k]
        PROVE  d = e /\ m = k
    <3>1. /\ shift[d][m] \in DOMAIN Q[d] /\ Q[d][shift[d][m]] = R[d][m]
          /\ shift[e][k] \in DOMAIN Q[e] /\ Q[e][shift[e][k]] = R[e][k]
      BY <1>3
    <3>2. d = e /\ shift[d][m] = shift[e][k]  BY <2>1, <2>2, <3>1
    <3> QED  BY <1>4, <3>2
  <2>3. ASSUME x \in In(R) PROVE FALSE
    <3>1. PICK d \in Ids : \E m \in DOMAIN R[d] : R[d][m] = x  BY <1>6, <2>3
    <3>2. PICK m \in DOMAIN R[d] : R[d][m] = x  BY <3>1
    <3>3. /\ shift[d][m] \in DOMAIN Q[d] /\ Q[d][shift[d][m]] = Q[i][p]
          /\ d = i => shift[d][m] # p
      BY <1>2, <1>3, <3>2
    <3> QED  BY <1>1, <1>3, <2>1, <3>3, SMTT(30)
  <2> QED  BY <1>1, <2>2, <2>3 DEF Apart
<1>10. ASSUME Apart(R), x \notin In(R) PROVE Apart(Q)
  <2>1. \A d \in Ids, e \in Ids : \A m \in DOMAIN R[d], k \in DOMAIN R[e] :
          R[d][m] = R[e][k] => d = e /\ m = k
    BY <1>1, <1>10 DEF Apart
  <2>2. ASSUME NEW d \in Ids, NEW m \in DOMAIN Q[d], ~ (d = i /\ m = p) PROVE Q[d][m] # x
    <3>1. PICK k \in DOMAIN R[d] : m = shift[d][k]  BY <1>5, <2>2
    <3>2. Q[d][m] = R[d][k]  BY <1>3, <3>1
    <3> QED  BY <1>6, <1>10, <3>2
  <2>3. ASSUME NEW d \in Ids, NEW e \in Ids, NEW m \in DOMAIN Q[d], NEW k \in DOMAIN Q[e],
               Q[d][m] = Q[e][k]
        PROVE  d = e /\ m = k
    <3>1. CASE d = i /\ m = p
      <4>1. Q[e][k] = x  BY <1>2, <2>3, <3>1
      <4> QED  BY <2>2, <3>1, <4>1
    <3>2. CASE e = i /\ k = p
      <4>1. Q[d][m] = x  BY <1>2, <2>3, <3>2
      <4> QED  BY <2>2, <3>2, <4>1
    <3>3. CASE ~ (d = i /\ m = p) /\ ~ (e = i /\ k = p)
      <4>1. PICK a \in DOMAIN R[d] : m = shift[d][a]  BY <1>5, <3>3
      <4>2. PICK b \in DOMAIN R[e] : k = shift[e][b]  BY <1>5, <3>3
      <4>3. R[d][a] = R[e][b]  BY <1>3, <2>3, <4>1, <4>2
      <4>4. d = e /\ a = b  BY <2>1, <4>3
      <4> QED  BY <4>1, <4>2, <4>4
    <3> QED  BY <3>1, <3>2, <3>3
  <2> QED  BY <1>1, <2>3 DEF Apart
<1> QED  BY <1>8, <1>9, <1>10

(* The list it is put into has it, and the others what they had.            *)
Gained(c, R, i, x, Q) ==
  /\ i \in 0 .. c - 1 /\ ToSet(Q[i]) = ToSet(R[i]) \union {x}
  /\ \A d \in 0 .. c - 1 : d # i => ToSet(Q[d]) = ToSet(R[d])

(* So does an element put into a list.                                      *)
LEMMA InsertedList ==
  ASSUME NEW c \in Nat, NEW X, NEW R \in Lists(c, X), NEW Q \in Lists(c, X),
         NEW i, NEW p, NEW x, Inserted(R, i, p, x, Q)
  PROVE  Gained(c, R, i, x, Q)
<1>1. /\ i \in 0 .. c - 1 /\ \A d \in 0 .. c - 1 : d # i => Q[d] = R[d]
      /\ Len(R[i]) \in Nat /\ DOMAIN R[i] = 1 .. Len(R[i])
      /\ Len(Q[i]) \in Nat /\ DOMAIN Q[i] = 1 .. Len(Q[i])
  BY ListsAre DEF Inserted, Lists
<1>2. /\ Len(Q[i]) = Len(R[i]) + 1 /\ p \in 1 .. Len(R[i]) + 1 /\ Q[i][p] = x
      /\ \A m \in 1 .. Len(R[i]) : /\ m < p => Q[i][m] = R[i][m]
                                   /\ p <= m => Q[i][m + 1] = R[i][m]
  BY DEF Inserted
<1>3. ASSUME NEW y \in ToSet(R[i]) PROVE y \in ToSet(Q[i])
  <2>1. PICK m \in 1 .. Len(R[i]) : R[i][m] = y  BY <1>1 DEF ToSet
  <2>2. m \in 1 .. Len(R[i]) + 1 /\ m + 1 \in 1 .. Len(R[i]) + 1 /\ (m < p \/ p <= m)
    BY <1>1, <1>2
  <2>3. CASE m < p
    <3>1. Q[i][m] = R[i][m]  BY <1>2, <2>3, Zenon
    <3>2. m \in DOMAIN Q[i] /\ Q[i][m] = y  BY <1>1, <1>2, <2>1, <2>2, <3>1
    <3> QED  BY <3>2 DEF ToSet
  <2>4. CASE p <= m
    <3>1. m + 1 \in DOMAIN Q[i] /\ Q[i][m + 1] = y  BY <1>1, <1>2, <2>1, <2>2, <2>4
    <3> QED  BY <3>1 DEF ToSet
  <2> QED  BY <2>2, <2>3, <2>4
<1>4. ASSUME NEW y \in ToSet(Q[i]), y # x PROVE y \in ToSet(R[i])
  <2>1. PICK n \in 1 .. Len(R[i]) + 1 : Q[i][n] = y  BY <1>1, <1>2 DEF ToSet
  <2>2. n # p  BY <1>2, <1>4, <2>1
  <2>3. CASE n < p
    <3>1. n \in 1 .. Len(R[i])  BY <1>1, <1>2, <2>3
    <3>2. Q[i][n] = R[i][n]  BY <1>2, <2>3, <3>1, Zenon
    <3>3. R[i][n] = y  BY <2>1, <3>2
    <3> QED  BY <1>1, <3>1, <3>3 DEF ToSet
  <2>4. CASE p < n
    <3>1. n - 1 \in 1 .. Len(R[i]) /\ p <= n - 1 /\ n - 1 + 1 = n  BY <1>1, <1>2, <2>4
    <3>2. R[i][n - 1] = y  BY <1>2, <2>1, <3>1
    <3> QED  BY <1>1, <3>1, <3>2 DEF ToSet
  <2> QED  BY <1>1, <1>2, <2>2, <2>3, <2>4
<1>5. x \in ToSet(Q[i])  BY <1>1, <1>2 DEF ToSet
<1>6. ToSet(Q[i]) = ToSet(R[i]) \union {x}  BY <1>3, <1>4, <1>5
<1> QED  BY <1>1, <1>6 DEF Gained

(* One cell more.                                                           *)
LEMMA InsertedCells ==
  ASSUME NEW c \in Nat, NEW X, NEW R \in Lists(c, X), NEW Q \in Lists(c, X),
         NEW i, NEW p, NEW x, Inserted(R, i, p, x, Q)
  PROVE  /\ IsFiniteSet(Cells(R)) <=> IsFiniteSet(Cells(Q))
         /\ IsFiniteSet(Cells(R)) => /\ Cardinality(Cells(R)) \in Nat
                                     /\ Cardinality(Cells(Q)) = Cardinality(Cells(R)) + 1
<1>1. /\ DOMAIN R = DOMAIN Q /\ i \in DOMAIN R
      /\ Len(R[i]) \in Nat /\ DOMAIN R[i] = 1 .. Len(R[i])
      /\ Len(Q[i]) \in Nat /\ DOMAIN Q[i] = 1 .. Len(Q[i])
  BY ListsAre DEF Inserted, Lists
<1>2. Len(Q[i]) = Len(R[i]) + 1 /\ \A d \in DOMAIN R : d # i => DOMAIN Q[d] = DOMAIN R[d]
  BY DEF Inserted
<1>3. PICK k \in Nat, l \in Nat : k = Len(R[i]) /\ l = Len(Q[i])  BY <1>1
<1>4. DOMAIN R[i] = 1 .. k /\ DOMAIN Q[i] = 1 .. l /\ l = k + 1  BY <1>1, <1>2, <1>3
<1>5. ASSUME IsFiniteSet(Cells(R))
      PROVE  /\ IsFiniteSet(Cells(Q)) /\ Cardinality(Cells(R)) \in Nat
             /\ Cardinality(Cells(Q)) = Cardinality(Cells(R)) + 1
  <2>1. /\ IsFiniteSet(Cells(Q)) /\ Cardinality(Cells(R)) \in Nat /\ Cardinality(Cells(Q)) \in Nat
        /\ Cardinality(Cells(Q)) + k = Cardinality(Cells(R)) + l
    BY <1>1, <1>2, <1>4, <1>5, CellsChange
  <2> QED  BY <1>4, <2>1
<1>6. ASSUME IsFiniteSet(Cells(Q)) PROVE IsFiniteSet(Cells(R))
  BY <1>1, <1>2, <1>4, <1>6, CellsChange
<1> QED  BY <1>5, <1>6

----------------------------------------------------------------------------
(* Two arrays hold the same elements in as many cells.                      *)
Kept(B, Q) ==
  /\ In(Q) = In(B)
  /\ Apart(B) <=> Apart(Q)
  /\ IsFiniteSet(Cells(B)) => /\ IsFiniteSet(Cells(Q))
                              /\ Cardinality(Cells(Q)) = Cardinality(Cells(B))

(* The array F is B without the elements of its list b from n + 1 on.       *)
Pending(B, b, n, F) ==
  LET left == n + 1 .. Len(B[b])
  IN /\ \A y : y \in In(B) <=> y \in In(F) \/ \E m \in left : B[b][m] = y
     /\ Apart(B) <=> /\ Apart(F)
                     /\ \A m \in left : B[b][m] \notin In(F)
                     /\ \A m \in left, k \in left : B[b][m] = B[b][k] => m = k
     /\ IsFiniteSet(Cells(B)) =>
          /\ IsFiniteSet(Cells(F)) /\ Cardinality(Cells(F)) \in Nat
          /\ Cardinality(Cells(F)) + (Len(B[b]) - n) = Cardinality(Cells(B))

(* A list taken off its bucket leaves all its elements to be put back,      *)
LEMMA TakenOff ==
  ASSUME NEW c \in Nat, NEW X, NEW B \in Lists(c, X), NEW b \in 0 .. c - 1,
         NEW F \in Lists(c, X), F[b] = <<>>, \A d \in 0 .. c - 1 : d # b => F[d] = B[d]
  PROVE  Pending(B, b, 0, F)
<1> DEFINE N == Len(B[b])
           left == 0 + 1 .. N
<1>1. /\ N \in Nat /\ DOMAIN B = 0 .. c - 1 /\ DOMAIN B[b] = 1 .. N /\ left = 1 .. N
      /\ B[b] \in Seq(X)
  BY ListsAre
<1>2. /\ DOMAIN F = DOMAIN B /\ F[b] = <<>> /\ DOMAIN F[b] = {} /\ 1 .. 0 = {}
      /\ \A d \in DOMAIN B : d # b => F[d] = B[d]
  BY <1>1 DEF Lists
<1> HIDE DEF N, left
<1>3. ASSUME NEW y
      PROVE  y \in In(B) <=> y \in In(F) \/ \E m \in left : B[b][m] = y
  <2>1. y \in In(B) <=> \E d \in DOMAIN B : \E n \in DOMAIN B[d] : B[d][n] = y
    BY InIs
  <2>2. y \in In(F) <=> \E d \in DOMAIN F : \E n \in DOMAIN F[d] : F[d][n] = y
    BY InIs
  <2>3. y \in In(F) <=> \E d \in DOMAIN B : d # b /\ \E n \in DOMAIN B[d] : B[d][n] = y
    BY <1>2, <2>2
  <2> QED  BY <1>1, <2>1, <2>3
<1>4. ASSUME Apart(B)
      PROVE  /\ Apart(F)
             /\ \A m \in left : B[b][m] \notin In(F)
             /\ \A m \in left, k \in left : B[b][m] = B[b][k] => m = k
  <2>1. \A d \in DOMAIN B, e \in DOMAIN B : \A n \in DOMAIN B[d], m \in DOMAIN B[e] :
          B[d][n] = B[e][m] => d = e /\ n = m
    BY <1>4 DEF Apart
  <2>2. Apart(F)
    <3> SUFFICES ASSUME NEW d \in DOMAIN B, NEW e \in DOMAIN B,
                        NEW n \in DOMAIN F[d], NEW m \in DOMAIN F[e], F[d][n] = F[e][m]
                 PROVE  d = e /\ n = m
      BY <1>2 DEF Apart
    <3>1. d # b /\ e # b  BY <1>2
    <3> QED  BY <1>2, <2>1, <3>1
  <2>3. ASSUME NEW m \in left, B[b][m] \in In(F) PROVE FALSE
    <3>1. PICK d \in DOMAIN F : \E n \in DOMAIN F[d] : F[d][n] = B[b][m]  BY <2>3, InIs
    <3>2. PICK n \in DOMAIN F[d] : F[d][n] = B[b][m]  BY <3>1
    <3>3. d # b /\ d \in DOMAIN B  BY <1>2
    <3>4. n \in DOMAIN B[d] /\ B[d][n] = B[b][m]  BY <1>2, <3>2, <3>3
    <3> QED  BY <1>1, <2>1, <3>3, <3>4
  <2> QED  BY <1>1, <2>1, <2>2, <2>3
<1>5. ASSUME Apart(F), \A m \in left : B[b][m] \notin In(F),
             \A m \in left, k \in left : B[b][m] = B[b][k] => m = k
      PROVE  Apart(B)
  <2> SUFFICES ASSUME NEW d \in DOMAIN B, NEW e \in DOMAIN B,
                      NEW n \in DOMAIN B[d], NEW m \in DOMAIN B[e], B[d][n] = B[e][m]
               PROVE  d = e /\ n = m
    BY DEF Apart
  <2>1. \A y : (\E x \in DOMAIN F : \E k \in DOMAIN F[x] : F[x][k] = y) => y \in In(F)
    BY InIs
  <2>2. CASE d = b /\ e = b  BY <1>1, <1>5, <2>2
  <2>3. CASE d # b /\ e # b  BY <1>2, <1>5, <2>3 DEF Apart
  <2>4. CASE d = b /\ e # b
    <3>1. m \in DOMAIN F[e] /\ F[e][m] = B[b][n] /\ e \in DOMAIN F /\ n \in left  BY <1>1, <1>2, <2>4
    <3> QED  BY <1>5, <2>1, <3>1
  <2>5. CASE d # b /\ e = b
    <3>1. n \in DOMAIN F[d] /\ F[d][n] = B[b][m] /\ d \in DOMAIN F /\ m \in left  BY <1>1, <1>2, <2>5
    <3> QED  BY <1>5, <2>1, <3>1
  <2> QED  BY <2>2, <2>3, <2>4, <2>5
<1>6. ASSUME IsFiniteSet(Cells(B))
      PROVE  /\ IsFiniteSet(Cells(F)) /\ Cardinality(Cells(F)) \in Nat
             /\ Cardinality(Cells(F)) + (N - 0) = Cardinality(Cells(B))
  <2>1. PICK l \in Nat : l = 0 /\ DOMAIN F[b] = 1 .. l  BY <1>2
  <2>2. \A d \in DOMAIN B : d # b => DOMAIN F[d] = DOMAIN B[d]  BY <1>2
  <2>3. /\ IsFiniteSet(Cells(F)) /\ Cardinality(Cells(F)) \in Nat /\ Cardinality(Cells(B)) \in Nat
        /\ Cardinality(Cells(F)) + N = Cardinality(Cells(B)) + l
    BY <1>1, <1>2, <1>6, <2>1, <2>2, CellsChange, SMTT(30)
  <2> QED  BY <1>1, <2>1, <2>3
<1> QED  BY <1>3, <1>4, <1>5, <1>6 DEF Pending, N, left

(* the next of which goes back into some list.                              *)
LEMMA PutBack ==
  ASSUME NEW c \in Nat, NEW X, NEW B \in Lists(c, X), NEW b \in 0 .. c - 1,
         NEW n \in 1 .. Len(B[b]), NEW F \in Lists(c, X), NEW G \in Lists(c, X),
         Pending(B, b, n - 1, F), NEW i, NEW p, Inserted(F, i, p, B[b][n], G)
  PROVE  Pending(B, b, n, G)
<1> DEFINE N == Len(B[b])
           before == n - 1 + 1 .. N
           left == n + 1 .. N
           x == B[b][n]
<1>1. N \in Nat /\ n \in Nat  BY ListsAre
<1>2. /\ n \in before /\ n \notin left /\ left \subseteq before
      /\ \A m \in before : m = n \/ m \in left
  BY <1>1
<1>3. In(G) = In(F) \union {x} /\ (Apart(G) <=> Apart(F) /\ x \notin In(F))
  BY InsertedEffect
<1>4. /\ IsFiniteSet(Cells(F)) <=> IsFiniteSet(Cells(G))
      /\ IsFiniteSet(Cells(F)) => /\ Cardinality(Cells(F)) \in Nat
                                  /\ Cardinality(Cells(G)) = Cardinality(Cells(F)) + 1
  BY InsertedCells
<1>5. /\ \A y : y \in In(B) <=> y \in In(F) \/ \E m \in before : B[b][m] = y
      /\ Apart(B) <=> /\ Apart(F)
                      /\ \A m \in before : B[b][m] \notin In(F)
                      /\ \A m \in before, k \in before : B[b][m] = B[b][k] => m = k
      /\ IsFiniteSet(Cells(B)) =>
           /\ IsFiniteSet(Cells(F)) /\ Cardinality(Cells(F)) \in Nat
           /\ Cardinality(Cells(F)) + (N - (n - 1)) = Cardinality(Cells(B))
  BY DEF Pending
<1>6. \A m : B[b][m] = x <=> B[b][m] = B[b][n]  OBVIOUS
<1> HIDE DEF before, left, N
<1>7. \A y : y \in In(B) <=> y \in In(G) \/ \E m \in left : B[b][m] = y
  BY <1>2, <1>3, <1>5
<1>8. ASSUME Apart(B)
      PROVE  /\ Apart(G)
             /\ \A m \in left : B[b][m] \notin In(G)
             /\ \A m \in left, k \in left : B[b][m] = B[b][k] => m = k
  BY <1>2, <1>3, <1>5, <1>8
<1>9. ASSUME Apart(G), \A m \in left : B[b][m] \notin In(G),
             \A m \in left, k \in left : B[b][m] = B[b][k] => m = k
      PROVE  Apart(B)
  <2>1. Apart(F) /\ x \notin In(F)  BY <1>3, <1>9
  <2>2. \A m \in left : B[b][m] \notin In(F) /\ B[b][m] # x  BY <1>3, <1>9
  <2>3. \A m \in before : B[b][m] \notin In(F)  BY <1>2, <2>1, <2>2
  <2>4. \A m \in before, k \in before : B[b][m] = B[b][k] => m = k
    BY <1>2, <1>9, <2>2
  <2> QED  BY <1>5, <2>1, <2>3, <2>4
<1>10. IsFiniteSet(Cells(B)) =>
         /\ IsFiniteSet(Cells(G)) /\ Cardinality(Cells(G)) \in Nat
         /\ Cardinality(Cells(G)) + (N - n) = Cardinality(Cells(B))
  BY <1>1, <1>4, <1>5
<1> QED  BY <1>7, <1>8, <1>9, <1>10 DEF Pending, N, left

(* When all are back the array is kept.                                     *)
LEMMA AllBack ==
  ASSUME NEW c \in Nat, NEW X, NEW B \in Lists(c, X), NEW b \in 0 .. c - 1,
         NEW F, Pending(B, b, Len(B[b]), F)
  PROVE  Kept(B, F)
<1>1. PICK N \in Nat : N = Len(B[b])  BY ListsAre
<1>2. N + 1 .. N = {} /\ N - N = 0  OBVIOUS
<1>3. /\ \A y : y \in In(B) <=> y \in In(F)
      /\ Apart(B) <=> Apart(F)
      /\ IsFiniteSet(Cells(B)) =>
           /\ IsFiniteSet(Cells(F)) /\ Cardinality(Cells(F)) \in Nat
           /\ Cardinality(Cells(F)) + 0 = Cardinality(Cells(B))
  BY <1>1, <1>2 DEF Pending
<1>4. In(F) = In(B)  BY <1>3
<1> QED  BY <1>3, <1>4 DEF Kept

----------------------------------------------------------------------------
(* An element put before a list,                                            *)
LEMMA AtTheHead ==
  ASSUME NEW c \in Nat, NEW X, NEW R \in Lists(c, X), NEW i \in 0 .. c - 1, NEW x \in X
  PROVE  LET Q == [R EXCEPT ![i] = <<x>> \o R[i]]
         IN Q \in Lists(c, X) /\ Inserted(R, i, 1, x, Q)
<1> DEFINE Q == [R EXCEPT ![i] = <<x>> \o R[i]]
<1>1. DOMAIN R = 0 .. c - 1 /\ R[i] \in Seq(X) /\ Len(R[i]) \in Nat  BY ListsAre
<1>2. <<x>> \in Seq(X) /\ Len(<<x>>) = 1 /\ <<x>>[1] = x  OBVIOUS
<1>3. PICK s : s = <<x>> \o R[i]  OBVIOUS
<1>4. /\ s \in Seq(X) /\ Len(s) = Len(<<x>>) + Len(R[i])
      /\ \A m \in 1 .. Len(<<x>>) + Len(R[i]) :
           s[m] = IF m <= Len(<<x>>) THEN <<x>>[m] ELSE R[i][m - Len(<<x>>)]
  BY <1>1, <1>2, <1>3, ConcatProperties
<1>5. Len(s) = Len(R[i]) + 1 /\ s[1] = x /\ 1 \in 1 .. Len(R[i]) + 1
  BY <1>1, <1>2, <1>4
<1>6. ASSUME NEW m \in 1 .. Len(R[i]) PROVE ~ (m < 1) /\ s[m + 1] = R[i][m]
  <2>1. /\ m + 1 \in 1 .. Len(<<x>>) + Len(R[i]) /\ ~ (m + 1 <= Len(<<x>>))
        /\ m + 1 - Len(<<x>>) = m /\ ~ (m < 1)
    BY <1>1, <1>2
  <2> QED  BY <1>4, <2>1
<1>7. /\ Q \in Lists(c, X) /\ Q[i] = s /\ i \in DOMAIN R
      /\ \A d \in DOMAIN R : d # i => Q[d] = R[d]
  BY <1>1, <1>3, <1>4 DEF Lists
<1> HIDE DEF Q
<1>8. Inserted(R, i, 1, x, Q)  BY <1>5, <1>6, <1>7 DEF Inserted
<1> QED  BY <1>7, <1>8 DEF Q

(* behind it,                                                               *)
LEMMA AtTheEnd ==
  ASSUME NEW c \in Nat, NEW X, NEW R \in Lists(c, X), NEW i \in 0 .. c - 1, NEW x \in X
  PROVE  LET Q == [R EXCEPT ![i] = Append(R[i], x)]
         IN Q \in Lists(c, X) /\ Inserted(R, i, Len(R[i]) + 1, x, Q)
<1> DEFINE Q == [R EXCEPT ![i] = Append(R[i], x)]
<1>1. DOMAIN R = 0 .. c - 1 /\ R[i] \in Seq(X) /\ Len(R[i]) \in Nat  BY ListsAre
<1>2. PICK s : s = Append(R[i], x)  OBVIOUS
<1>3. /\ s \in Seq(X) /\ Len(s) = Len(R[i]) + 1 /\ s[Len(R[i]) + 1] = x
      /\ \A m \in 1 .. Len(R[i]) : s[m] = R[i][m]
  BY <1>1, <1>2, AppendProperties
<1>4. /\ Len(R[i]) + 1 \in 1 .. Len(R[i]) + 1
      /\ \A m \in 1 .. Len(R[i]) : ~ (Len(R[i]) + 1 <= m)
  BY <1>1
<1>5. /\ Q \in Lists(c, X) /\ Q[i] = s /\ i \in DOMAIN R
      /\ \A d \in DOMAIN R : d # i => Q[d] = R[d]
  BY <1>1, <1>2, <1>3 DEF Lists
<1> HIDE DEF Q
<1>6. Inserted(R, i, Len(R[i]) + 1, x, Q)  BY <1>3, <1>4, <1>5 DEF Inserted
<1> QED  BY <1>5, <1>6 DEF Q

(* or taken out of it.                                                      *)
LEMMA TakenOut ==
  ASSUME NEW c \in Nat, NEW X, NEW R \in Lists(c, X), NEW i \in 0 .. c - 1,
         NEW p \in 1 .. Len(R[i])
  PROVE  LET Q == [R EXCEPT ![i] = RemoveAt(R[i], p)]
         IN Q \in Lists(c, X) /\ Inserted(Q, i, p, R[i][p], R)
<1> DEFINE Q == [R EXCEPT ![i] = RemoveAt(R[i], p)]
<1>1. DOMAIN R = 0 .. c - 1 /\ R[i] \in Seq(X) /\ Len(R[i]) \in Nat  BY ListsAre
<1>2. PICK s : s = RemoveAt(R[i], p)  OBVIOUS
<1>3. /\ s \in Seq(X) /\ Len(s) = Len(R[i]) - 1
      /\ \A m \in 1 .. Len(R[i]) - 1 : s[m] = IF m < p THEN R[i][m] ELSE R[i][m + 1]
  BY <1>1, <1>2, RemoveAtProperties
<1>4. /\ Len(R[i]) = Len(s) + 1 /\ p \in 1 .. Len(s) + 1
      /\ \A m \in 1 .. Len(s) : /\ m < p => R[i][m] = s[m]
                                /\ p <= m => R[i][m + 1] = s[m]
  BY <1>1, <1>3
<1>5. /\ Q \in Lists(c, X) /\ Q[i] = s /\ i \in DOMAIN Q
      /\ \A d \in DOMAIN Q : d # i => R[d] = Q[d]
  BY <1>1, <1>2, <1>3 DEF Lists
<1> HIDE DEF Q
<1>6. Inserted(Q, i, p, R[i][p], R)  BY <1>4, <1>5 DEF Inserted
<1> QED  BY <1>5, <1>6 DEF Q

(* One put in the place of another, as if that were taken out first.        *)
LEMMA Replaced ==
  ASSUME NEW c \in Nat, NEW X, NEW R \in Lists(c, X), NEW i \in 0 .. c - 1,
         NEW p \in 1 .. Len(R[i]), NEW x \in X
  PROVE  LET Q == [R EXCEPT ![i] = [R[i] EXCEPT ![p] = x]]
             W == [R EXCEPT ![i] = RemoveAt(R[i], p)]
         IN Q \in Lists(c, X) /\ W \in Lists(c, X) /\ Inserted(W, i, p, x, Q)
<1> DEFINE Q == [R EXCEPT ![i] = [R[i] EXCEPT ![p] = x]]
           W == [R EXCEPT ![i] = RemoveAt(R[i], p)]
<1>1. DOMAIN R = 0 .. c - 1 /\ R[i] \in Seq(X) /\ Len(R[i]) \in Nat  BY ListsAre
<1>2. PICK s, t : s = RemoveAt(R[i], p) /\ t = [R[i] EXCEPT ![p] = x]  OBVIOUS
<1>3. /\ s \in Seq(X) /\ Len(s) = Len(R[i]) - 1
      /\ \A m \in 1 .. Len(R[i]) - 1 : s[m] = IF m < p THEN R[i][m] ELSE R[i][m + 1]
  BY <1>1, <1>2, RemoveAtProperties
<1>4. /\ t \in Seq(X) /\ Len(t) = Len(R[i]) /\ t[p] = x
      /\ \A m \in 1 .. Len(R[i]) : m # p => t[m] = R[i][m]
  BY <1>1, <1>2, ExceptSeq
<1>5. Len(t) = Len(s) + 1 /\ p \in 1 .. Len(s) + 1  BY <1>1, <1>3, <1>4
<1>6. ASSUME NEW m \in 1 .. Len(s)
      PROVE  /\ m < p => t[m] = s[m]
             /\ p <= m => t[m + 1] = s[m]
  <2>1. m \in 1 .. Len(R[i]) /\ m \in 1 .. Len(R[i]) - 1 /\ m + 1 \in 1 .. Len(R[i])
    BY <1>1, <1>3
  <2>2. CASE m < p
    <3>1. m # p /\ ~ (p <= m)  BY <2>2
    <3>2. s[m] = R[i][m] /\ t[m] = R[i][m]  BY <1>3, <1>4, <2>1, <2>2, <3>1
    <3> QED  BY <3>1, <3>2
  <2>3. CASE p <= m
    <3>1. m + 1 # p /\ ~ (m < p)  BY <2>3
    <3>2. s[m] = R[i][m + 1] /\ t[m + 1] = R[i][m + 1]  BY <1>3, <1>4, <2>1, <3>1
    <3> QED  BY <3>1, <3>2
  <2> QED  BY <2>1, <2>2, <2>3
<1>7. W \in Lists(c, X) /\ W[i] = s /\ i \in DOMAIN W
  BY <1>1, <1>2, <1>3 DEF Lists
<1>8. Q \in Lists(c, X) /\ Q[i] = t /\ \A d \in DOMAIN W : d # i => Q[d] = W[d]
  BY <1>1, <1>2, <1>4 DEF Lists
<1> HIDE DEF Q, W
<1>9. Inserted(W, i, p, x, Q)  BY <1>4, <1>5, <1>6, <1>7, <1>8 DEF Inserted
<1> QED  BY <1>7, <1>8, <1>9 DEF Q, W

(* Twice as many lists, the new ones empty.                                 *)
LEMMA Widened ==
  ASSUME NEW c \in Nat, NEW X, NEW B \in Lists(c, X), NEW e \in Nat, c <= e
  PROVE  LET Q == [b \in 0 .. e - 1 |-> IF b < c THEN B[b] ELSE <<>>]
         IN Q \in Lists(e, X) /\ Kept(B, Q)
<1> DEFINE Q == [b \in 0 .. e - 1 |-> IF b < c THEN B[b] ELSE <<>>]
<1>1. DOMAIN B = 0 .. c - 1 /\ DOMAIN Q = 0 .. e - 1  BY DEF Lists
<1>2. /\ \A b \in 0 .. c - 1 : b \in 0 .. e - 1 /\ Q[b] = B[b]
      /\ \A b \in 0 .. e - 1 : b \in 0 .. c - 1 \/ Q[b] = <<>>
  OBVIOUS
<1>3. Q \in Lists(e, X)
  <2>1. <<>> \in Seq(X)  BY EmptySeq
  <2> QED  BY <2>1 DEF Lists
<1> HIDE DEF Q
<1>4. \A b \in DOMAIN B : b \in DOMAIN Q /\ Q[b] = B[b]  BY <1>1, <1>2
<1>5. \A b \in DOMAIN Q : \A n \in DOMAIN Q[b] : b \in DOMAIN B /\ Q[b] = B[b] /\ n \in DOMAIN B[b]
  <2>1. DOMAIN <<>> = {}  OBVIOUS
  <2> QED  BY <1>1, <1>2, <2>1
<1>6. In(Q) = In(B)
  <2>1. ASSUME NEW y PROVE y \in In(Q) <=> y \in In(B)
    <3>1. y \in In(B) <=> \E d \in DOMAIN B : \E n \in DOMAIN B[d] : B[d][n] = y
      BY InIs
    <3>2. y \in In(Q) <=> \E d \in DOMAIN Q : \E n \in DOMAIN Q[d] : Q[d][n] = y
      BY InIs
    <3>3. ASSUME y \in In(B) PROVE y \in In(Q)
      <4>1. PICK d \in DOMAIN B : \E n \in DOMAIN B[d] : B[d][n] = y  BY <3>1, <3>3
      <4>2. d \in DOMAIN Q /\ Q[d] = B[d]  BY <1>4
      <4> QED  BY <3>2, <4>1, <4>2
    <3>4. ASSUME y \in In(Q) PROVE y \in In(B)
      <4>1. PICK d \in DOMAIN Q : \E n \in DOMAIN Q[d] : Q[d][n] = y  BY <3>2, <3>4
      <4>2. d \in DOMAIN B /\ Q[d] = B[d]  BY <1>5, <4>1
      <4> QED  BY <3>1, <4>1, <4>2
    <3> QED  BY <3>3, <3>4
  <2> QED  BY <2>1
<1>7. Apart(B) <=> Apart(Q)
  <2>1. ASSUME Apart(B) PROVE Apart(Q)
    <3> SUFFICES ASSUME NEW b \in DOMAIN Q, NEW d \in DOMAIN Q,
                        NEW n \in DOMAIN Q[b], NEW m \in DOMAIN Q[d], Q[b][n] = Q[d][m]
                 PROVE  b = d /\ n = m
      BY DEF Apart
    <3>1. /\ b \in DOMAIN B /\ Q[b] = B[b] /\ n \in DOMAIN B[b]
          /\ d \in DOMAIN B /\ Q[d] = B[d] /\ m \in DOMAIN B[d]
      BY <1>5
    <3> QED  BY <2>1, <3>1 DEF Apart
  <2>2. ASSUME Apart(Q) PROVE Apart(B)
    <3> SUFFICES ASSUME NEW b \in DOMAIN B, NEW d \in DOMAIN B,
                        NEW n \in DOMAIN B[b], NEW m \in DOMAIN B[d], B[b][n] = B[d][m]
                 PROVE  b = d /\ n = m
      BY DEF Apart
    <3>1. b \in DOMAIN Q /\ Q[b] = B[b] /\ d \in DOMAIN Q /\ Q[d] = B[d]  BY <1>4
    <3> QED  BY <2>2, <3>1 DEF Apart
  <2> QED  BY <2>1, <2>2
<1>8. Cells(Q) = Cells(B)
  <2>1. ASSUME NEW p \in Cells(Q) PROVE p \in Cells(B)
    <3>1. PICK d \in DOMAIN Q : \E n \in DOMAIN Q[d] : p = <<d, n>>  BY CellsAre
    <3>2. d \in DOMAIN B /\ Q[d] = B[d]  BY <1>5, <3>1
    <3> QED  BY <3>1, <3>2, CellsAre
  <2>2. ASSUME NEW p \in Cells(B) PROVE p \in Cells(Q)
    <3>1. PICK d \in DOMAIN B : \E n \in DOMAIN B[d] : p = <<d, n>>  BY CellsAre
    <3>2. d \in DOMAIN Q /\ Q[d] = B[d]  BY <1>4
    <3> QED  BY <3>1, <3>2, CellsAre
  <2> QED  BY <2>1, <2>2
<1>9. Kept(B, Q)  BY <1>6, <1>7, <1>8 DEF Kept
<1> QED  BY <1>3, <1>9 DEF Q

(* What is kept twice is kept.                                              *)
LEMMA KeptTwice ==
  ASSUME NEW B, NEW Q, NEW R, Kept(B, Q), Kept(Q, R)
  PROVE  Kept(B, R)
BY DEF Kept

----------------------------------------------------------------------------
(* The records of both containers, with c lists of elements of X.           *)
Records(c, X) == [capacity : {c}, size : Nat, buckets : Lists(c, X)]

(* A record with one list changed: an element at its head, or none in it.   *)
WithHead(R, i, x) == [R EXCEPT !.buckets[i] = <<x>> \o @]

WithNone(R, i) == [R EXCEPT !.buckets[i] = <<>>]

(* It is a record again, and the lists are these.                           *)
HeadIs(c, X, R, i, x) ==
  /\ WithHead(R, i, x) \in Records(c, X) /\ WithHead(R, i, x).size = R.size
  /\ WithHead(R, i, x).buckets = [R.buckets EXCEPT ![i] = <<x>> \o R.buckets[i]]

NoneIs(c, X, R, i) ==
  /\ WithNone(R, i) \in Records(c, X) /\ WithNone(R, i).size = R.size
  /\ WithNone(R, i).buckets[i] = <<>>
  /\ \A d \in 0 .. c - 1 : d # i => WithNone(R, i).buckets[d] = R.buckets[d]

(* An element more at the head of a list,                                   *)
LEMMA RecordHead ==
  ASSUME NEW c \in Nat, NEW X, NEW R \in Records(c, X), NEW i \in 0 .. c - 1, NEW x \in X
  PROVE  HeadIs(c, X, R, i, x)
<1> DEFINE Q == [R.buckets EXCEPT ![i] = <<x>> \o R.buckets[i]]
<1>1. R.buckets \in Lists(c, X) /\ R.capacity = c /\ R.size \in Nat  BY DEF Records
<1>2. Q \in Lists(c, X)  BY <1>1, AtTheHead
<1> QED  BY <1>1, <1>2 DEF Records, WithHead, HeadIs

(* at its end,                                                              *)
LEMMA RecordEnd ==
  ASSUME NEW c \in Nat, NEW X, NEW R \in Records(c, X), NEW i \in 0 .. c - 1, NEW x \in X
  PROVE  LET S == [R EXCEPT !.buckets[i] = Append(@, x)]
         IN /\ S \in Records(c, X) /\ S.size = R.size
            /\ S.buckets = [R.buckets EXCEPT ![i] = Append(R.buckets[i], x)]
<1> DEFINE Q == [R.buckets EXCEPT ![i] = Append(R.buckets[i], x)]
<1>1. R.buckets \in Lists(c, X) /\ R.capacity = c /\ R.size \in Nat  BY DEF Records
<1>2. Q \in Lists(c, X)  BY <1>1, AtTheEnd
<1> QED  BY <1>1, <1>2 DEF Records

(* or the list emptied.                                                     *)
LEMMA RecordEmptied ==
  ASSUME NEW c \in Nat, NEW X, NEW R \in Records(c, X), NEW i \in 0 .. c - 1
  PROVE  NoneIs(c, X, R, i)
<1> DEFINE Q == [R.buckets EXCEPT ![i] = <<>>]
<1>1. R.buckets \in Lists(c, X) /\ R.capacity = c /\ R.size \in Nat  BY DEF Records
<1>2. /\ Q \in Lists(c, X) /\ Q[i] = <<>>
      /\ \A d \in 0 .. c - 1 : d # i => Q[d] = R.buckets[d]
  <2>1. <<>> \in Seq(X)  BY EmptySeq
  <2> QED  BY <1>1, <2>1 DEF Lists
<1> QED  BY <1>1, <1>2 DEF Records, WithNone, NoneIs

----------------------------------------------------------------------------
(* The void hash table.                                                     *)
Entry == [key : Keys, value : Values]

(* The entries of a list are where their hash says.                         *)
Fits(B, c, d) == \A e \in ToSet(B[d]) : Hash[e.key] % c = d

(* The list a hash names.                                                   *)
LEMMA IndexIs ==
  ASSUME NEW c \in Nat \ {0}, NEW k \in Keys
  PROVE  Hash[k] % c \in 0 .. c - 1
<1>1. Hash[k] \in Nat  BY SizesAssumption
<1> QED  BY <1>1

(* The states of the walk of MoveEntries, entry by entry.                   *)
Moves(c, T, b, chain, N, f) ==
  /\ f \in [0 .. N -> Records(c, Entry)]
  /\ f[0] = [T EXCEPT !.buckets[b] = <<>>]
  /\ \A n \in 1 .. N :
       f[n] = [f[n - 1] EXCEPT !.buckets[TableIndex(T, chain[n].key)] = <<chain[n]>> \o @]
  /\ MoveEntries(T, b) = f[N]

(* There are such states.                                                   *)
LEMMA MoveEntriesWalk ==
  ASSUME NEW c \in Nat \ {0}, NEW T \in Records(c, Entry), NEW b \in 0 .. c - 1,
         NEW list, list = T.buckets[b], NEW last, last = Len(list)
  PROVE  \E f : Moves(c, T, b, list, last, f)
<1> DEFINE chain == T.buckets[b]
           N == Len(chain)
           V == Records(c, Entry)
           first == [T EXCEPT !.buckets[b] = <<>>]
           after(R, n) == [R EXCEPT !.buckets[TableIndex(T, chain[n].key)] = <<chain[n]>> \o @]
           step == [n \in 1 .. N |-> [R \in V |-> after(R, n)]]
           Is(h) == h = [n \in 0 .. N |-> IF n = 0 THEN first ELSE after(h[n - 1], n)]
<1>1. T.capacity = c /\ T.buckets \in Lists(c, Entry)  BY DEF Records
<1>2. chain \in Seq(Entry) /\ N \in Nat /\ \A n \in 1 .. N : chain[n] \in Entry
  BY <1>1, ListsAre
<1>3. \A n \in 1 .. N : TableIndex(T, chain[n].key) \in 0 .. c - 1
  <2> HIDE DEF chain, N
  <2> QED  BY <1>1, <1>2, IndexIs DEF TableIndex, Entry
<1>4. first \in V
  <2>1. NoneIs(c, Entry, T, b)  BY RecordEmptied
  <2> QED  BY <2>1 DEF WithNone, NoneIs
<1>5. \A n \in 1 .. N : \A R \in V : after(R, n) \in V
  <2> SUFFICES ASSUME NEW n \in 1 .. N, NEW R \in V PROVE after(R, n) \in V
    OBVIOUS
  <2>1. PICK i \in 0 .. c - 1, x \in Entry : i = TableIndex(T, chain[n].key) /\ x = chain[n]
    BY <1>2, <1>3
  <2>2. HeadIs(c, Entry, R, i, x)  BY RecordHead
  <2> QED  BY <2>1, <2>2 DEF WithHead, HeadIs
<1>6. step \in [1 .. N -> [V -> V]]
  <2> HIDE DEF after, V, N
  <2> QED  BY <1>5
<1>7. PICK f : Iterates(N, V, first, step, f)
  <2>1. N \in Nat  BY <1>2
  <2> HIDE DEF step, first, V, N
  <2> QED  BY <1>4, <1>6, <2>1, Iteration, Zenon
<1>8. /\ f \in [0 .. N -> V] /\ f[0] = first
      /\ \A n \in 1 .. N : f[n] = step[n][f[n - 1]]
  <2> HIDE DEF step, first, V, N
  <2> QED  BY <1>7 DEF Iterates
<1>9. \A n \in 1 .. N : f[n] = after(f[n - 1], n)
  <2> SUFFICES ASSUME NEW n \in 1 .. N PROVE f[n] = after(f[n - 1], n)
    OBVIOUS
  <2>1. n - 1 \in 0 .. N  BY <1>2
  <2>2. f[n - 1] \in V
    <3> HIDE DEF V, N
    <3> QED  BY <1>8, <2>1
  <2> HIDE DEF after, V, N
  <2>3. step[n][f[n - 1]] = after(f[n - 1], n)  BY <2>2
  <2> QED  BY <1>8, <2>3
<1>10. Is(f)
  <2>1. \A n \in 0 .. N : n = 0 \/ n \in 1 .. N  BY <1>2
  <2> HIDE DEF after, first, V, N
  <2> QED  BY <1>8, <1>9, <2>1
<1>11. PICK h : h = CHOOSE k : Is(k)  OBVIOUS
<1>12. MoveEntries(T, b) = h[N]  BY <1>11, Zenon DEF MoveEntries
<1>13. Is(h)
  <2> HIDE DEF Is
  <2> QED  BY <1>10, <1>11, Zenon
<1>14. h = f
  <2> SUFFICES \A n \in 0 .. N : h[n] = f[n]
    <3> HIDE DEF after, first, V, N
    <3> QED  BY <1>10, <1>13
  <2> DEFINE S == {n \in 0 .. N : h[n] = f[n]}
  <2>1. 0 \in S
    <3>1. 0 \in 0 .. N  BY <1>2
    <3> HIDE DEF after, first, V, N
    <3> QED  BY <1>10, <1>13, <3>1
  <2>2. ASSUME NEW n \in 1 .. N, n - 1 \in S PROVE n \in S
    <3>1. n \in 0 .. N /\ n # 0  BY <1>2
    <3> HIDE DEF after, first, V, N
    <3> QED  BY <1>10, <1>13, <2>2, <3>1
  <2>3. \A n \in 0 .. N : n \in S
    <3> HIDE DEF S, N
    <3> QED  BY <1>2, <2>1, <2>2, UpToBound
  <2> QED  BY <2>3
<1> QED
  <2>1. list = chain /\ last = N  OBVIOUS
  <2> HIDE DEF first, V, N
  <2>2. \A n \in 1 .. last :
          f[n] = [f[n - 1] EXCEPT !.buckets[TableIndex(T, list[n].key)] = <<list[n]>> \o @]
    BY <1>9, <2>1
  <2>3. f[0] = [T EXCEPT !.buckets[b] = <<>>]  BY <1>8 DEF first
  <2>4. f \in [0 .. last -> Records(c, Entry)] /\ MoveEntries(T, b) = f[last]
    BY <1>8, <1>12, <1>14, <2>1 DEF V
  <2> QED  BY <2>2, <2>3, <2>4 DEF Moves

(* Moving the entries of a list keeps them, and brings them where their     *)
(* hash says; what was there before stays.                                  *)
LEMMA MoveEntriesEffect ==
  ASSUME NEW c \in Nat \ {0}, NEW T \in Records(c, Entry), NEW b \in 0 .. c - 1
  PROVE  LET M == MoveEntries(T, b)
         IN /\ M \in Records(c, Entry) /\ M.size = T.size /\ Kept(T.buckets, M.buckets)
            /\ \A d \in 0 .. c - 1 : d = b \/ Fits(T.buckets, c, d) => Fits(M.buckets, c, d)
<1>1. PICK B, chain, N : B = T.buckets /\ chain = B[b] /\ N = Len(chain)  OBVIOUS
<1>2. /\ B \in Lists(c, Entry) /\ T.capacity = c /\ N \in Nat
      /\ \A n \in 1 .. N : chain[n] \in Entry
  <2>1. B \in Lists(c, Entry) /\ T.capacity = c  BY <1>1 DEF Records
  <2> QED  BY <1>1, <2>1, ListsAre
<1>2a. PICK f : Moves(c, T, b, chain, N, f)
  <2>1. chain = T.buckets[b] /\ N = Len(chain)  BY <1>1
  <2> QED  BY <2>1, MoveEntriesWalk, Zenon
<1>3. /\ f \in [0 .. N -> Records(c, Entry)] /\ f[0] = [T EXCEPT !.buckets[b] = <<>>]
      /\ \A n \in 1 .. N :
           f[n] = [f[n - 1] EXCEPT !.buckets[TableIndex(T, chain[n].key)] = <<chain[n]>> \o @]
      /\ MoveEntries(T, b) = f[N]
  BY <1>2a DEF Moves
<1> DEFINE P(n) == /\ f[n].size = T.size /\ Pending(B, b, n, f[n].buckets)
                   /\ \A d \in 0 .. c - 1 :
                        d = b \/ Fits(B, c, d) => Fits(f[n].buckets, c, d)
<1>4. \A n \in 0 .. N : f[n] \in Records(c, Entry) /\ f[n].buckets \in Lists(c, Entry)
  BY <1>3 DEF Records
<1>5. P(0)
  <2>1. PICK F : F = f[0].buckets  OBVIOUS
  <2>2. /\ f[0].size = T.size /\ F[b] = <<>>
        /\ \A d \in 0 .. c - 1 : d # b => F[d] = B[d]
    <3>1. f[0] = WithNone(T, b)  BY <1>3 DEF WithNone
    <3>2. NoneIs(c, Entry, T, b)  BY RecordEmptied
    <3> QED  BY <1>1, <2>1, <3>1, <3>2 DEF NoneIs
  <2>3. 0 \in 0 .. N  BY <1>2
  <2>4. F \in Lists(c, Entry)  BY <1>4, <2>1, <2>3
  <2>5. Pending(B, b, 0, F)  BY <1>2, <2>2, <2>4, TakenOff
  <2>6. ToSet(F[b]) = {}  BY <2>2 DEF ToSet
  <2>7. \A d \in 0 .. c - 1 : d = b \/ Fits(B, c, d) => Fits(F, c, d)
    BY <2>2, <2>6 DEF Fits
  <2> QED  BY <2>1, <2>2, <2>5, <2>7
<1>6. ASSUME NEW n \in 1 .. N, P(n - 1) PROVE P(n)
  <2>1. n - 1 \in 0 .. N /\ n \in 0 .. N  BY <1>2
  <2>2. PICK x, i : x = chain[n] /\ i = TableIndex(T, x.key)  OBVIOUS
  <2>3. x \in Entry /\ i = Hash[x.key] % c /\ i \in 0 .. c - 1
    <3>1. x \in Entry /\ x.key \in Keys  BY <1>2, <2>2 DEF Entry
    <3> QED  BY <1>2, <2>2, <3>1, IndexIs DEF TableIndex
  <2>4. PICK R, S, F, G : /\ R = f[n - 1] /\ S = f[n] /\ F = R.buckets /\ G = S.buckets
    OBVIOUS
  <2>5. /\ R \in Records(c, Entry) /\ F \in Lists(c, Entry) /\ G \in Lists(c, Entry)
        /\ S = [R EXCEPT !.buckets[i] = <<x>> \o @]
    BY <1>3, <1>4, <2>1, <2>2, <2>4
  <2>6. S.size = R.size /\ G = [F EXCEPT ![i] = <<x>> \o F[i]]
    <3>1. S = WithHead(R, i, x)  BY <2>5 DEF WithHead
    <3>2. HeadIs(c, Entry, R, i, x)  BY <2>3, <2>5, RecordHead
    <3> QED  BY <2>4, <3>1, <3>2 DEF HeadIs
  <2>7. Inserted(F, i, 1, x, G)  BY <2>3, <2>5, <2>6, AtTheHead
  <2>8. Pending(B, b, n - 1, F) /\ R.size = T.size /\ n \in 1 .. Len(B[b]) /\ x = B[b][n]
    BY <1>1, <1>6, <2>2, <2>4
  <2>9. Pending(B, b, n, G)
    <3> HIDE <2>6
    <3> QED  BY <1>2, <2>5, <2>7, <2>8, PutBack
  <2>10. ASSUME NEW d \in 0 .. c - 1, d = b \/ Fits(B, c, d) PROVE Fits(G, c, d)
    <3>1. Fits(F, c, d)  BY <1>6, <2>4, <2>10
    <3>2. Gained(c, F, i, x, G)  BY <2>5, <2>7, InsertedList
    <3> QED  BY <2>3, <3>1, <3>2 DEF Fits, Gained
  <2> QED  BY <2>4, <2>6, <2>8, <2>9, <2>10
<1>7. P(N)
  <2> DEFINE S == {n \in 0 .. N : P(n)}
  <2>1. 0 \in S /\ \A n \in 1 .. N : n - 1 \in S => n \in S
    <3> HIDE DEF P
    <3> QED  BY <1>2, <1>5, <1>6
  <2>2. \A n \in 0 .. N : n \in S
    <3> HIDE DEF S
    <3> QED  BY <1>2, <2>1, UpToBound
  <2> QED  BY <1>2, <2>2
<1>8. Kept(B, f[N].buckets)  BY <1>1, <1>2, <1>7, AllBack
<1>9. N \in 0 .. N  BY <1>2
<1>10. PICK M : M = f[N]  OBVIOUS
<1>11. M \in Records(c, Entry) /\ M.size = T.size /\ Kept(B, M.buckets)
  BY <1>4, <1>7, <1>8, <1>9, <1>10
<1>12. \A d \in 0 .. c - 1 : d = b \/ Fits(T.buckets, c, d) => Fits(M.buckets, c, d)
  BY <1>1, <1>7, <1>10
<1>13. MoveEntries(T, b) = M  BY <1>3, <1>10
<1> QED  BY <1>1, <1>11, <1>12, <1>13

(* The states of a change of capacity, bucket by bucket.                    *)
Walks(c, e, T, f) ==
  /\ f \in [0 .. c -> Records(e, Entry)]
  /\ f[0] = WithBuckets(T, e)
  /\ \A n \in 1 .. c : f[n] = MoveEntries(f[n - 1], n - 1)
  /\ SetHashTableCapacity(T, e) = f[c]

(* More buckets, the new ones empty.                                        *)
LEMMA WithBucketsEffect ==
  ASSUME NEW c \in Nat, NEW T \in Records(c, Entry), NEW e \in Nat, c <= e
  PROVE  LET W == WithBuckets(T, e)
         IN /\ W \in Records(e, Entry) /\ W.size = T.size /\ Kept(T.buckets, W.buckets)
            /\ \A d \in 0 .. e - 1 : c <= d => W.buckets[d] = <<>>
<1> DEFINE Q == [b \in 0 .. e - 1 |-> IF b < c THEN T.buckets[b] ELSE <<>>]
<1>1. T.buckets \in Lists(c, Entry) /\ T.capacity = c /\ T.size \in Nat  BY DEF Records
<1>2. Q \in Lists(e, Entry) /\ Kept(T.buckets, Q)  BY <1>1, Widened
<1>3. \A d \in 0 .. e - 1 : c <= d => Q[d] = <<>>  OBVIOUS
<1>4. WithBuckets(T, e) = [T EXCEPT !.capacity = e, !.buckets = Q]
  BY <1>1 DEF WithBuckets
<1> HIDE DEF Q
<1>5. PICK W : W = [T EXCEPT !.capacity = e, !.buckets = Q]  OBVIOUS
<1>6. W \in Records(e, Entry) /\ W.size = T.size /\ W.buckets = Q
  BY <1>1, <1>2, <1>5 DEF Records
<1> QED  BY <1>2, <1>3, <1>4, <1>5, <1>6

(* There are such states.                                                   *)
LEMMA SetCapacityWalk ==
  ASSUME NEW c \in Nat \ {0}, NEW e \in Nat \ {0}, c <= e, NEW T \in Records(c, Entry)
  PROVE  \E f : Walks(c, e, T, f)
<1> DEFINE V == Records(e, Entry)
           first == WithBuckets(T, e)
           after(R, n) == MoveEntries(R, n - 1)
           step == [n \in 1 .. c |-> [R \in V |-> after(R, n)]]
           Is(h) == h = [n \in 0 .. c |-> IF n = 0 THEN first ELSE after(h[n - 1], n)]
<1>1. T.capacity = c  BY DEF Records
<1>2. first \in V  BY WithBucketsEffect
<1>3. \A n \in 1 .. c : \A R \in V : after(R, n) \in V
  <2> SUFFICES ASSUME NEW n \in 1 .. c, NEW R \in V PROVE after(R, n) \in V
    OBVIOUS
  <2>1. n - 1 \in 0 .. e - 1  OBVIOUS
  <2> QED  BY <2>1, MoveEntriesEffect
<1>4. step \in [1 .. c -> [V -> V]]
  <2> HIDE DEF after, V
  <2> QED  BY <1>3
<1>5. PICK f : Iterates(c, V, first, step, f)
  <2>1. c \in Nat  OBVIOUS
  <2> HIDE DEF step, first, V
  <2> QED  BY <1>2, <1>4, <2>1, Iteration, Zenon
<1>6. /\ f \in [0 .. c -> V] /\ f[0] = first
      /\ \A n \in 1 .. c : f[n] = step[n][f[n - 1]]
  <2> HIDE DEF step, first, V
  <2> QED  BY <1>5 DEF Iterates
<1>7. \A n \in 1 .. c : f[n] = after(f[n - 1], n)
  <2> SUFFICES ASSUME NEW n \in 1 .. c PROVE f[n] = after(f[n - 1], n)
    OBVIOUS
  <2>1. n - 1 \in 0 .. c  OBVIOUS
  <2>2. f[n - 1] \in V
    <3> HIDE DEF V
    <3> QED  BY <1>6, <2>1
  <2> HIDE DEF after, V
  <2>3. step[n][f[n - 1]] = after(f[n - 1], n)  BY <2>2
  <2> QED  BY <1>6, <2>3
<1>8. Is(f)
  <2>1. \A n \in 0 .. c : n = 0 \/ n \in 1 .. c  OBVIOUS
  <2> HIDE DEF after, first, V
  <2> QED  BY <1>6, <1>7, <2>1
<1>9. PICK h : h = CHOOSE k : Is(k)  OBVIOUS
<1>10. SetHashTableCapacity(T, e) = h[c]
  <2>1. SetHashTableCapacity(T, e) = h[T.capacity]
    BY <1>1, <1>9, Zenon DEF SetHashTableCapacity
  <2> QED  BY <1>1, <2>1
<1>11. Is(h)
  <2> HIDE DEF Is
  <2> QED  BY <1>8, <1>9, Zenon
<1>12. h = f
  <2> SUFFICES \A n \in 0 .. c : h[n] = f[n]
    <3> HIDE DEF after, first, V
    <3> QED  BY <1>8, <1>11
  <2> DEFINE S == {n \in 0 .. c : h[n] = f[n]}
  <2>1. 0 \in S
    <3> HIDE DEF after, first, V
    <3> QED  BY <1>8, <1>11
  <2>2. ASSUME NEW n \in 1 .. c, n - 1 \in S PROVE n \in S
    <3>1. n \in 0 .. c /\ n # 0  OBVIOUS
    <3> HIDE DEF after, first, V
    <3> QED  BY <1>8, <1>11, <2>2, <3>1
  <2>3. \A n \in 0 .. c : n \in S
    <3> HIDE DEF S
    <3> QED  BY <2>1, <2>2, UpToBound
  <2> QED  BY <2>3
<1> QED
  <2>1. f \in [0 .. c -> V] /\ SetHashTableCapacity(T, e) = f[c] /\ f[0] = first
    BY <1>6, <1>10, <1>12
  <2> HIDE DEF after, first, V
  <2>2. \A n \in 1 .. c : f[n] = MoveEntries(f[n - 1], n - 1)  BY <1>7 DEF after
  <2> QED  BY <2>1, <2>2 DEF Walks, first, V

(* A change of capacity keeps the entries and leaves each of them where its *)
(* hash says.                                                               *)
LEMMA SetCapacityEffect ==
  ASSUME NEW c \in Nat \ {0}, NEW e \in Nat \ {0}, c <= e, NEW T \in Records(c, Entry)
  PROVE  LET M == SetHashTableCapacity(T, e)
         IN /\ M \in Records(e, Entry) /\ M.size = T.size /\ Kept(T.buckets, M.buckets)
            /\ \A d \in 0 .. e - 1 : Fits(M.buckets, e, d)
<1>1. PICK f : Walks(c, e, T, f)  BY SetCapacityWalk
<1>2. /\ \A n \in 0 .. c : f[n] \in Records(e, Entry)
      /\ \A n \in 1 .. c : f[n] = MoveEntries(f[n - 1], n - 1)
      /\ f[0] = WithBuckets(T, e) /\ SetHashTableCapacity(T, e) = f[c]
  BY <1>1 DEF Walks
<1> DEFINE P(n) == /\ f[n].size = T.size /\ Kept(T.buckets, f[n].buckets)
                   /\ \A d \in 0 .. e - 1 : d < n \/ c <= d => Fits(f[n].buckets, e, d)
<1>3. P(0)
  <2>1. PICK W : W = f[0]  OBVIOUS
  <2>2. W.size = T.size /\ Kept(T.buckets, W.buckets)  BY <1>2, <2>1, WithBucketsEffect
  <2>3. \A d \in 0 .. e - 1 : c <= d => W.buckets[d] = <<>>
    BY <1>2, <2>1, WithBucketsEffect
  <2>4. ToSet(<<>>) = {}  BY DEF ToSet
  <2>5. \A d \in 0 .. e - 1 : d < 0 \/ c <= d => Fits(W.buckets, e, d)
    BY <2>3, <2>4 DEF Fits
  <2> QED  BY <2>1, <2>2, <2>5
<1>4. ASSUME NEW n \in 1 .. c, P(n - 1) PROVE P(n)
  <2>1. PICK R, S, b : R = f[n - 1] /\ S = f[n] /\ b = n - 1  OBVIOUS
  <2>2. R \in Records(e, Entry) /\ b \in 0 .. e - 1 /\ S = MoveEntries(R, b)
    <3>1. n - 1 \in 0 .. c  OBVIOUS
    <3>2. R \in Records(e, Entry)  BY <1>2, <2>1, <3>1
    <3> QED  BY <1>2, <2>1, <3>2
  <2>3. /\ S.size = R.size /\ Kept(R.buckets, S.buckets)
        /\ \A d \in 0 .. e - 1 : d = b \/ Fits(R.buckets, e, d) => Fits(S.buckets, e, d)
    BY <2>2, MoveEntriesEffect
  <2>4. /\ R.size = T.size /\ Kept(T.buckets, R.buckets)
        /\ \A d \in 0 .. e - 1 : d < b \/ c <= d => Fits(R.buckets, e, d)
    BY <1>4, <2>1
  <2>5. S.size = T.size /\ Kept(T.buckets, S.buckets)  BY <2>3, <2>4, KeptTwice
  <2>6. ASSUME NEW d \in 0 .. e - 1, d < n \/ c <= d PROVE Fits(S.buckets, e, d)
    <3>1. d = b \/ d < b \/ c <= d  BY <2>1, <2>6
    <3> QED  BY <2>3, <2>4, <3>1
  <2> QED  BY <2>1, <2>5, <2>6
<1>5. P(c)
  <2> DEFINE S == {n \in 0 .. c : P(n)}
  <2>1. 0 \in S /\ \A n \in 1 .. c : n - 1 \in S => n \in S
    <3> HIDE DEF P
    <3> QED  BY <1>3, <1>4
  <2>2. \A n \in 0 .. c : n \in S
    <3> HIDE DEF S
    <3> QED  BY <2>1, UpToBound
  <2> QED  BY <2>2
<1>6. PICK M : M = f[c]  OBVIOUS
<1>7. M \in Records(e, Entry) /\ SetHashTableCapacity(T, e) = M  BY <1>2, <1>6
<1>8. /\ M.size = T.size /\ Kept(T.buckets, M.buckets)
      /\ \A d \in 0 .. e - 1 : Fits(M.buckets, e, d)
  BY <1>5, <1>6
<1> QED  BY <1>7, <1>8

----------------------------------------------------------------------------
(* The lists of a table: the entries in them where their hash says, each    *)
(* once, a key in one of them only.                                         *)
Sound(B, c) ==
  /\ B \in Lists(c, Entry) /\ Apart(B) /\ IsFiniteSet(Cells(B))
  /\ \A d \in 0 .. c - 1 : Fits(B, c, d)
  /\ \A e \in In(B), f \in In(B) : e.key = f.key => e = f

TableIs(T, c) ==
  /\ T \in Records(c, Entry) /\ Sound(T.buckets, c)
  /\ T.size = Cardinality(Cells(T.buckets))

KeysOf(B) == {e.key : e \in In(B)}

OfOthers(B, k) == {e \in In(B) : e.key # k}

(* The table is one of this size that holds these entries.                  *)
Holds(T, c, size, entries) ==
  TableIs(T, c) /\ T.size = size /\ In(T.buckets) = entries

(* The table with one list changed: an entry more at its end, the value at  *)
(* a position another, the entry at a position out.                         *)
WithEntry(T, b, x) == [T EXCEPT !.size = @ + 1, !.buckets[b] = Append(@, x)]

WithValue(T, b, p, v) == [T EXCEPT !.buckets[b][p].value = v]

WithoutEntry(T, b, p) == [T EXCEPT !.size = @ - 1, !.buckets[b] = RemoveAt(@, p)]

(* A key that is stored is at the position found, and only there.           *)
LEMMA PositionIs ==
  ASSUME NEW c \in Nat \ {0}, NEW T \in Records(c, Entry), NEW B, B = T.buckets,
         Sound(B, c), NEW k \in Keys, NEW b, b = TableIndex(T, k)
  PROVE  /\ b = Hash[k] % c /\ b \in 0 .. c - 1
         /\ ContainsKey(T, k) <=> k \in KeysOf(B)
         /\ ContainsKey(T, k) => /\ Position(T, k) \in 1 .. Len(B[b])
                                 /\ B[b][Position(T, k)].key = k
<1>1. B \in Lists(c, Entry) /\ T.capacity = c  BY DEF Records
<1>2. b = Hash[k] % c /\ b \in 0 .. c - 1  BY <1>1, IndexIs DEF TableIndex
<1>3. DOMAIN B = 0 .. c - 1 /\ Len(B[b]) \in Nat /\ DOMAIN B[b] = 1 .. Len(B[b])
  BY <1>1, <1>2, ListsAre
<1>4. PICK places : places = {n \in DOMAIN B[b] : B[b][n].key = k}  OBVIOUS
<1>5. Position(T, k) = IF places = {} THEN 0 ELSE CHOOSE n \in places : \A m \in places : n <= m
  BY <1>4 DEF Position
<1>6. places \subseteq 1 .. Len(B[b]) /\ \A n \in places : B[b][n].key = k  BY <1>3, <1>4
<1>7. ASSUME places # {} PROVE Position(T, k) \in places
  <2>1. \E n \in places : \A m \in places : n <= m
    <3>1. places \subseteq Nat  BY <1>6
    <3> QED  BY <1>7, <3>1, LeastNatural
  <2> QED  BY <1>5, <1>7, <2>1
<1>8. ContainsKey(T, k) <=> places # {}
  <2>1. places = {} => Position(T, k) = 0  BY <1>5
  <2>2. places # {} => Position(T, k) # 0
    <3>1. 0 \notin places  BY <1>6
    <3> QED  BY <1>7, <3>1
  <2> QED  BY <2>1, <2>2 DEF ContainsKey
<1>9. ASSUME places # {} PROVE k \in KeysOf(B)
  <2>1. PICK n \in places : TRUE  BY <1>9
  <2>2. n \in DOMAIN B[b] /\ B[b][n].key = k  BY <1>4, <2>1
  <2>3. PICK e : e = B[b][n]  OBVIOUS
  <2>4. e \in In(B)  BY <1>2, <1>3, <2>2, <2>3, InIs
  <2>5. e.key = k  BY <2>2, <2>3
  <2> QED  BY <2>4, <2>5 DEF KeysOf
<1>10. ASSUME k \in KeysOf(B) PROVE places # {}
  <2>1. PICK e \in In(B) : e.key = k  BY <1>10 DEF KeysOf
  <2>2. PICK d \in DOMAIN B : \E n \in DOMAIN B[d] : B[d][n] = e  BY <2>1, InIs
  <2>3. PICK n \in DOMAIN B[d] : B[d][n] = e  BY <2>2
  <2>4. d \in 0 .. c - 1 /\ Fits(B, c, d)  BY <1>3 DEF Sound
  <2>5. e \in ToSet(B[d])  BY <2>3 DEF ToSet
  <2>6. d = b  BY <1>2, <2>1, <2>4, <2>5 DEF Fits
  <2>7. n \in places  BY <1>4, <2>1, <2>3, <2>6
  <2> QED  BY <2>7
<1> QED  BY <1>2, <1>6, <1>7, <1>8, <1>9, <1>10

(* Growing the table keeps it what it is, and it grows when three quarters  *)
(* of it are full.                                                          *)
LEMMA GrownEffect ==
  ASSUME NEW c \in Nat \ {0}, NEW T, TableIs(T, c)
  PROVE  LET e == IF 4 * T.size >= 3 * c THEN 2 * c ELSE c
         IN /\ TableIs(Grown(T), e) /\ Grown(T).size = T.size
            /\ In(Grown(T).buckets) = In(T.buckets)
<1>1. T \in Records(c, Entry) /\ T.capacity = c /\ T.size \in Nat  BY DEF TableIs, Records
<1>2. CASE ~ (4 * T.size >= 3 * c)
  <2>1. Grown(T) = T  BY <1>1, <1>2 DEF Grown
  <2> QED  BY <1>2, <2>1
<1>3. CASE 4 * T.size >= 3 * c
  <2>1. PICK e \in Nat \ {0} : e = 2 * c /\ c <= e  OBVIOUS
  <2>2. PICK M, B, Q : M = SetHashTableCapacity(T, e) /\ B = T.buckets /\ Q = M.buckets  OBVIOUS
  <2>3. /\ M \in Records(e, Entry) /\ M.size = T.size /\ Kept(B, Q)
        /\ \A d \in 0 .. e - 1 : Fits(Q, e, d)
    BY <1>1, <2>1, <2>2, SetCapacityEffect
  <2>4. Grown(T) = M  BY <1>1, <1>3, <2>1, <2>2 DEF Grown
  <2>5. /\ In(Q) = In(B) /\ Apart(Q) /\ IsFiniteSet(Cells(Q))
        /\ Cardinality(Cells(Q)) = T.size
    BY <2>2, <2>3 DEF Kept, TableIs, Sound
  <2>6. \A x \in In(Q), y \in In(Q) : x.key = y.key => x = y
    BY <2>2, <2>5 DEF TableIs, Sound
  <2>7. Q \in Lists(e, Entry)  BY <2>2, <2>3 DEF Records
  <2>8. Sound(Q, e)  BY <2>3, <2>5, <2>6, <2>7 DEF Sound
  <2>9. TableIs(M, e)  BY <2>2, <2>3, <2>5, <2>8 DEF TableIs
  <2> QED  BY <1>3, <2>1, <2>2, <2>3, <2>4, <2>5, <2>9
<1> QED  BY <1>2, <1>3

(* An entry whose key is nowhere goes to the end of its list.               *)
LEMMA AddedEntry ==
  ASSUME NEW c \in Nat \ {0}, NEW T, TableIs(T, c), NEW x \in Entry,
         x.key \notin KeysOf(T.buckets), NEW b, b = TableIndex(T, x.key)
  PROVE  LET U == WithEntry(T, b, x)
         IN /\ TableIs(U, c) /\ U.size = T.size + 1
            /\ In(U.buckets) = In(T.buckets) \union {x}
<1>1. PICK B, k : B = T.buckets /\ k = x.key  OBVIOUS
<1>2. /\ T \in Records(c, Entry) /\ T.capacity = c /\ T.size \in Nat /\ B \in Lists(c, Entry)
      /\ k \in Keys
  BY <1>1 DEF TableIs, Records, Entry
<1>3. b = Hash[k] % c /\ b \in 0 .. c - 1  BY <1>1, <1>2, IndexIs DEF TableIndex
<1>4. PICK Q : Q = [B EXCEPT ![b] = Append(B[b], x)]  OBVIOUS
<1>5. Q \in Lists(c, Entry) /\ Inserted(B, b, Len(B[b]) + 1, x, Q)
  BY <1>2, <1>3, <1>4, AtTheEnd
<1>6. Apart(B) /\ IsFiniteSet(Cells(B)) /\ T.size = Cardinality(Cells(B))
  BY <1>1 DEF TableIs, Sound
<1>7. x \notin In(B)  BY <1>1 DEF KeysOf
<1>8. In(Q) = In(B) \union {x} /\ Apart(Q)  BY <1>2, <1>5, <1>6, <1>7, InsertedEffect
<1>9. IsFiniteSet(Cells(Q)) /\ Cardinality(Cells(Q)) = T.size + 1
  BY <1>2, <1>5, <1>6, InsertedCells
<1>10. ASSUME NEW d \in 0 .. c - 1 PROVE Fits(Q, c, d)
  <2>1. Fits(B, c, d)  BY <1>1 DEF TableIs, Sound
  <2>2. Gained(c, B, b, x, Q)  BY <1>2, <1>5, InsertedList
  <2> QED  BY <1>1, <1>3, <2>1, <2>2 DEF Fits, Gained
<1>11. \A e \in In(Q), f \in In(Q) : e.key = f.key => e = f
  <2>1. \A e \in In(B), f \in In(B) : e.key = f.key => e = f  BY <1>1 DEF TableIs, Sound
  <2>2. \A e \in In(B) : e.key # x.key  BY <1>1 DEF KeysOf
  <2> QED  BY <1>8, <2>1, <2>2
<1>12. PICK U : U = WithEntry(T, b, x)  OBVIOUS
<1>13. U \in Records(c, Entry) /\ U.size = T.size + 1 /\ U.buckets = Q
  <2>1. U = [T EXCEPT !.size = T.size + 1, !.buckets = Q]
    BY <1>1, <1>2, <1>4, <1>12 DEF Records, WithEntry
  <2>2. T.size + 1 \in Nat  BY <1>2
  <2> QED  BY <1>2, <1>5, <2>1, <2>2 DEF Records
<1>14. Sound(Q, c)  BY <1>5, <1>8, <1>9, <1>10, <1>11 DEF Sound
<1>15. TableIs(U, c)  BY <1>9, <1>13, <1>14 DEF TableIs
<1> QED  BY <1>1, <1>8, <1>12, <1>13, <1>15

(* A value in the place of another.                                         *)
LEMMA ChangedEntry ==
  ASSUME NEW c \in Nat \ {0}, NEW T, TableIs(T, c), NEW b \in 0 .. c - 1,
         NEW p \in 1 .. Len(T.buckets[b]), NEW x \in Entry, T.buckets[b][p].key = x.key
  PROVE  Holds(WithValue(T, b, p, x.value), c, T.size, OfOthers(T.buckets, x.key) \union {x})
<1>1. PICK B, old, k, v : /\ B = T.buckets /\ old = B[b][p] /\ k = old.key /\ k = x.key
                          /\ v = x.value /\ x = [key |-> k, value |-> v] /\ v \in Values
  BY DEF Entry
<1>2. T \in Records(c, Entry) /\ T.capacity = c /\ T.size \in Nat /\ B \in Lists(c, Entry)
  BY <1>1 DEF TableIs, Records
<1>3. DOMAIN B = 0 .. c - 1 /\ B[b] \in Seq(Entry) /\ p \in DOMAIN B[b] /\ old \in Entry
  BY <1>1, <1>2, ListsAre
<1>4. k \in Keys /\ x \in Entry /\ [old EXCEPT !.value = v] = x  BY <1>1, <1>3 DEF Entry
<1>5. PICK Q, W : /\ Q = [B EXCEPT ![b] = [B[b] EXCEPT ![p] = x]]
                  /\ W = [B EXCEPT ![b] = RemoveAt(B[b], p)]
  OBVIOUS
<1>6. Q \in Lists(c, Entry) /\ W \in Lists(c, Entry) /\ Inserted(W, b, p, x, Q)
  BY <1>1, <1>2, <1>4, <1>5, Replaced
<1>7. Inserted(W, b, p, old, B)  BY <1>1, <1>2, <1>5, TakenOut
<1>8. /\ Apart(B) /\ IsFiniteSet(Cells(B)) /\ T.size = Cardinality(Cells(B))
      /\ \A d \in 0 .. c - 1 : Fits(B, c, d)
      /\ \A e \in In(B), f \in In(B) : e.key = f.key => e = f
  BY <1>1 DEF TableIs, Sound
<1>9. In(B) = In(W) \union {old} /\ Apart(W) /\ old \notin In(W)
  BY <1>2, <1>6, <1>7, <1>8, InsertedEffect
<1>10. \A e \in In(W) : e.key # k  BY <1>1, <1>8, <1>9
<1>11. x.key = k  BY <1>1
<1>12. In(Q) = In(W) \union {x} /\ Apart(Q)
  BY <1>2, <1>6, <1>9, <1>10, <1>11, InsertedEffect
<1>13. In(W) = OfOthers(B, k)  BY <1>1, <1>9, <1>10 DEF OfOthers
<1>14. IsFiniteSet(Cells(Q)) /\ Cardinality(Cells(Q)) = T.size
  <2>1. IsFiniteSet(Cells(W)) /\ Cardinality(Cells(B)) = Cardinality(Cells(W)) + 1
    BY <1>2, <1>6, <1>7, <1>8, InsertedCells
  <2> QED  BY <1>2, <1>6, <1>8, <2>1, InsertedCells
<1>15. ASSUME NEW d \in 0 .. c - 1 PROVE Fits(Q, c, d)
  <2>1. ToSet(W[d]) \subseteq ToSet(B[d]) /\ (d = b => old \in ToSet(B[d]))
    <3>1. Gained(c, W, b, old, B)  BY <1>2, <1>6, <1>7, InsertedList
    <3> QED  BY <3>1 DEF Gained
  <2>2. ToSet(Q[d]) = ToSet(W[d]) \/ (d = b /\ ToSet(Q[d]) = ToSet(W[d]) \union {x})
    <3>1. Gained(c, W, b, x, Q)  BY <1>6, InsertedList
    <3> QED  BY <3>1 DEF Gained
  <2>3. Fits(B, c, d)  BY <1>8
  <2> QED  BY <1>1, <1>11, <2>1, <2>2, <2>3 DEF Fits
<1>16. \A e \in In(Q), f \in In(Q) : e.key = f.key => e = f
  BY <1>8, <1>9, <1>10, <1>11, <1>12
<1>17. PICK U : U = WithValue(T, b, p, v) /\ U = WithValue(T, b, p, x.value)  BY <1>1
<1>18. U \in Records(c, Entry) /\ U.size = T.size /\ U.buckets = Q
  <2>1. U = [T EXCEPT !.buckets = Q]
    BY <1>1, <1>2, <1>3, <1>4, <1>5, <1>17 DEF Records, WithValue
  <2> QED  BY <1>2, <1>6, <2>1 DEF Records
<1>19. Sound(Q, c)  BY <1>6, <1>12, <1>14, <1>15, <1>16 DEF Sound
<1>20. TableIs(U, c)  BY <1>14, <1>18, <1>19 DEF TableIs
<1>21. In(Q) = OfOthers(T.buckets, x.key) \union {x}  BY <1>1, <1>12, <1>13
<1> QED  BY <1>17, <1>18, <1>20, <1>21 DEF Holds

(* One entry out.                                                           *)
LEMMA RemovedEntry ==
  ASSUME NEW c \in Nat \ {0}, NEW T, TableIs(T, c), NEW b \in 0 .. c - 1,
         NEW p \in 1 .. Len(T.buckets[b]), NEW k, T.buckets[b][p].key = k
  PROVE  Holds(WithoutEntry(T, b, p), c, T.size - 1, OfOthers(T.buckets, k))
<1>1. PICK B, old : B = T.buckets /\ old = B[b][p] /\ k = old.key  OBVIOUS
<1>2. T \in Records(c, Entry) /\ T.capacity = c /\ T.size \in Nat /\ B \in Lists(c, Entry)
  BY <1>1 DEF TableIs, Records
<1>3. PICK W : W = [B EXCEPT ![b] = RemoveAt(B[b], p)]  OBVIOUS
<1>4. W \in Lists(c, Entry) /\ Inserted(W, b, p, old, B)  BY <1>1, <1>2, <1>3, TakenOut
<1>5. /\ Apart(B) /\ IsFiniteSet(Cells(B)) /\ T.size = Cardinality(Cells(B))
      /\ \A d \in 0 .. c - 1 : Fits(B, c, d)
      /\ \A e \in In(B), f \in In(B) : e.key = f.key => e = f
  BY <1>1 DEF TableIs, Sound
<1>6. In(B) = In(W) \union {old} /\ Apart(W) /\ old \notin In(W)
  BY <1>2, <1>4, <1>5, InsertedEffect
<1>7. In(W) = OfOthers(B, k)  BY <1>1, <1>5, <1>6 DEF OfOthers
<1>8. IsFiniteSet(Cells(W)) /\ Cardinality(Cells(W)) \in Nat /\ T.size = Cardinality(Cells(W)) + 1
  BY <1>2, <1>4, <1>5, InsertedCells
<1>9. ASSUME NEW d \in 0 .. c - 1 PROVE Fits(W, c, d)
  <2>1. ToSet(W[d]) \subseteq ToSet(B[d])
    <3>1. Gained(c, W, b, old, B)  BY <1>2, <1>4, InsertedList
    <3> QED  BY <3>1 DEF Gained
  <2> QED  BY <1>5, <2>1 DEF Fits
<1>10. \A e \in In(W), f \in In(W) : e.key = f.key => e = f  BY <1>5, <1>6
<1>11. PICK U : U = WithoutEntry(T, b, p)  OBVIOUS
<1>12. U \in Records(c, Entry) /\ U.size = Cardinality(Cells(W)) /\ U.buckets = W
  <2>1. U = [T EXCEPT !.size = T.size - 1, !.buckets = W]
    BY <1>1, <1>2, <1>3, <1>11 DEF Records, WithoutEntry
  <2>2. T.size - 1 = Cardinality(Cells(W))  BY <1>8
  <2> QED  BY <1>2, <1>4, <1>8, <2>1, <2>2 DEF Records
<1>13. Sound(W, c)  BY <1>4, <1>6, <1>8, <1>9, <1>10 DEF Sound
<1>14. TableIs(U, c)  BY <1>12, <1>13 DEF TableIs
<1> QED  BY <1>1, <1>2, <1>7, <1>8, <1>11, <1>12, <1>14 DEF Holds

(* A put: the table grows after it when it is three quarters full.          *)
LEMMA PutEntryEffect ==
  ASSUME NEW c \in Nat \ {0}, NEW T, TableIs(T, c), NEW k \in Keys, NEW v \in Values
  PROVE  LET U == PutEntry(T, k, v)
             n == IF k \in KeysOf(T.buckets) THEN T.size ELSE T.size + 1
         IN /\ TableIs(U, IF 4 * n >= 3 * c THEN 2 * c ELSE c) /\ U.size = n
            /\ In(U.buckets) = OfOthers(T.buckets, k) \union {[key |-> k, value |-> v]}
<1>1. PICK B, b, x : B = T.buckets /\ b = TableIndex(T, k) /\ x = [key |-> k, value |-> v]
  OBVIOUS
<1>2. T \in Records(c, Entry) /\ Sound(B, c) /\ x \in Entry /\ x.key = k
  BY <1>1 DEF TableIs, Entry
<1>3. /\ b \in 0 .. c - 1 /\ (ContainsKey(T, k) <=> k \in KeysOf(B))
      /\ ContainsKey(T, k) => Position(T, k) \in 1 .. Len(B[b]) /\ B[b][Position(T, k)].key = k
  BY <1>1, <1>2, PositionIs
<1>4. PICK U : U = IF ContainsKey(T, k)
                   THEN WithValue(T, b, Position(T, k), v)
                   ELSE WithEntry(T, b, x)
  OBVIOUS
<1>5. PutEntry(T, k, v) = Grown(U)
  BY <1>1, <1>4, Zenon DEF PutEntry, WithValue, WithEntry
<1>6. CASE k \in KeysOf(B)
  <2>1. PICK p \in 1 .. Len(B[b]) : p = Position(T, k) /\ B[b][p].key = k  BY <1>3, <1>6
  <2>2. U = WithValue(T, b, p, v)  BY <1>3, <1>4, <1>6, <2>1
  <2>3. /\ TableIs(U, c) /\ U.size = T.size
        /\ In(U.buckets) = OfOthers(B, k) \union {x}
    <3>1. p \in 1 .. Len(T.buckets[b]) /\ T.buckets[b][p].key = x.key  BY <1>1, <1>2, <2>1
    <3>2. b \in 0 .. c - 1 /\ x.value = v /\ x.key = k  BY <1>1, <1>3
    <3>3. x \in Entry  BY <1>2
    <3>4. PICK W : W = WithValue(T, b, p, x.value)  OBVIOUS
    <3>5. Holds(W, c, T.size, OfOthers(T.buckets, x.key) \union {x})
      BY <3>1, <3>2, <3>3, <3>4, ChangedEntry
    <3> QED  BY <1>1, <2>2, <3>2, <3>4, <3>5 DEF Holds
  <2>4. LET e == IF 4 * U.size >= 3 * c THEN 2 * c ELSE c
        IN /\ TableIs(Grown(U), e) /\ Grown(U).size = U.size
           /\ In(Grown(U).buckets) = In(U.buckets)
    BY <2>3, GrownEffect
  <2> QED  BY <1>1, <1>5, <1>6, <2>3, <2>4
<1>7. CASE k \notin KeysOf(B)
  <2>1. U = WithEntry(T, b, x)  BY <1>3, <1>4, <1>7
  <2>2. /\ TableIs(U, c) /\ U.size = T.size + 1 /\ In(U.buckets) = In(B) \union {x}
    <3>1. b = TableIndex(T, x.key) /\ x.key \notin KeysOf(T.buckets)  BY <1>1, <1>2, <1>7
    <3>2. /\ TableIs(U, c) /\ U.size = T.size + 1
          /\ In(U.buckets) = In(T.buckets) \union {x}
      BY <1>2, <2>1, <3>1, AddedEntry
    <3> QED  BY <1>1, <3>2
  <2>3. LET e == IF 4 * U.size >= 3 * c THEN 2 * c ELSE c
        IN /\ TableIs(Grown(U), e) /\ Grown(U).size = U.size
           /\ In(Grown(U).buckets) = In(U.buckets)
    BY <2>2, GrownEffect
  <2>4. In(B) = OfOthers(B, k)  BY <1>7 DEF KeysOf, OfOthers
  <2> QED  BY <1>1, <1>5, <1>7, <2>2, <2>3, <2>4
<1> QED  BY <1>6, <1>7

(* A removal takes the entry of its key, and no other.                      *)
LEMMA RemoveKeyEffect ==
  ASSUME NEW c \in Nat \ {0}, NEW T, TableIs(T, c), NEW k \in Keys
  PROVE  LET U == RemoveKey(T, k)
         IN /\ TableIs(U, c)
            /\ T.size = IF k \in KeysOf(T.buckets) THEN U.size + 1 ELSE U.size
            /\ In(U.buckets) = OfOthers(T.buckets, k)
<1>1. PICK B, b : B = T.buckets /\ b = TableIndex(T, k)  OBVIOUS
<1>2. T \in Records(c, Entry) /\ Sound(B, c)  BY <1>1 DEF TableIs
<1>3. /\ b \in 0 .. c - 1 /\ (ContainsKey(T, k) <=> k \in KeysOf(B))
      /\ ContainsKey(T, k) => Position(T, k) \in 1 .. Len(B[b]) /\ B[b][Position(T, k)].key = k
  BY <1>1, <1>2, PositionIs
<1>4. CASE k \in KeysOf(B)
  <2>1. PICK p \in 1 .. Len(B[b]) : p = Position(T, k) /\ B[b][p].key = k  BY <1>3, <1>4
  <2>2. PICK U : U = WithoutEntry(T, b, p)  OBVIOUS
  <2>3. RemoveKey(T, k) = U  BY <1>1, <1>3, <1>4, <2>1, <2>2 DEF RemoveKey, WithoutEntry
  <2>4. /\ TableIs(U, c) /\ T.size = U.size + 1
        /\ In(U.buckets) = OfOthers(B, k)
    <3>1. p \in 1 .. Len(T.buckets[b]) /\ T.buckets[b][p].key = k  BY <1>1, <2>1
    <3>2. Holds(WithoutEntry(T, b, p), c, T.size - 1, OfOthers(T.buckets, k))
      BY <1>3, <3>1, RemovedEntry
    <3>3. T.size \in Nat  BY <1>2 DEF Records
    <3> QED  BY <1>1, <2>2, <3>2, <3>3 DEF Holds
  <2> QED  BY <1>1, <1>4, <2>3, <2>4
<1>5. CASE k \notin KeysOf(B)
  <2>1. RemoveKey(T, k) = T  BY <1>3, <1>5 DEF RemoveKey
  <2>2. In(B) = OfOthers(B, k)  BY <1>5 DEF KeysOf, OfOthers
  <2> QED  BY <1>1, <1>5, <2>1, <2>2
<1> QED  BY <1>4, <1>5

----------------------------------------------------------------------------
(* What lists say of a key.                                                 *)
ValueAt(B, k) ==
  LET b == CHOOSE b \in DOMAIN B : \E e \in ToSet(B[b]) : e.key = k
  IN (CHOOSE e \in ToSet(B[b]) : e.key = k).value

ContentsOf(B) == [k \in KeysOf(B) |-> ValueAt(B, k)]

(* In sound lists it is the value of the entry with the key.                *)
LEMMA ValueIs ==
  ASSUME NEW c \in Nat, NEW B, Sound(B, c), NEW e \in In(B)
  PROVE  ValueAt(B, e.key) = e.value
<1>1. PICK k : k = e.key  OBVIOUS
<1>2. \A d \in DOMAIN B : \A f \in ToSet(B[d]) : f \in In(B)  BY DEF In
<1>3. \E d \in DOMAIN B : \E f \in ToSet(B[d]) : f.key = k  BY <1>1 DEF In
<1>4. PICK b : b = CHOOSE d \in DOMAIN B : \E f \in ToSet(B[d]) : f.key = k  OBVIOUS
<1>5. b \in DOMAIN B /\ \E f \in ToSet(B[b]) : f.key = k  BY <1>3, <1>4
<1>6. PICK g : g = CHOOSE f \in ToSet(B[b]) : f.key = k  OBVIOUS
<1>7. g \in ToSet(B[b]) /\ g.key = k  BY <1>5, <1>6
<1>8. g = e  BY <1>1, <1>2, <1>5, <1>7 DEF Sound
<1>9. ValueAt(B, k) = g.value  BY <1>4, <1>6 DEF ValueAt
<1> QED  BY <1>1, <1>8, <1>9

(* The lists Q hold what B hold but for the key k: with the value v in Q,   *)
(* or not held in Q.                                                        *)
WithKey(B, Q, k, v) ==
  /\ KeysOf(Q) = KeysOf(B) \union {k}
  /\ ContentsOf(Q) = [x \in KeysOf(B) \union {k} |-> IF x = k THEN v ELSE ContentsOf(B)[x]]

WithoutKey(B, Q, k) ==
  /\ KeysOf(Q) = KeysOf(B) \ {k}
  /\ ContentsOf(Q) = [x \in KeysOf(B) \ {k} |-> ContentsOf(B)[x]]

(* An entry put in the place of all of its key.                             *)
LEMMA ContentsPut ==
  ASSUME NEW c \in Nat, NEW B, Sound(B, c), NEW d \in Nat, NEW Q, Sound(Q, d),
         NEW k \in Keys, NEW v \in Values,
         In(Q) = OfOthers(B, k) \union {[key |-> k, value |-> v]}
  PROVE  WithKey(B, Q, k, v)
<1>1. PICK new : new = [key |-> k, value |-> v]  OBVIOUS
<1>2. new.key = k /\ new.value = v  BY <1>1
<1>3. \A e : e \in In(Q) <=> e = new \/ (e \in In(B) /\ e.key # k)  BY <1>1 DEF OfOthers
<1>4. KeysOf(Q) = KeysOf(B) \union {k}  BY <1>2, <1>3 DEF KeysOf
<1>5. ASSUME NEW x \in KeysOf(B) \union {k}
      PROVE  ContentsOf(Q)[x] = IF x = k THEN v ELSE ContentsOf(B)[x]
  <2>1. ContentsOf(Q)[x] = ValueAt(Q, x)  BY <1>4 DEF ContentsOf
  <2>2. CASE x = k
    <3>1. ValueAt(Q, new.key) = new.value  BY <1>3, ValueIs
    <3> QED  BY <1>2, <2>1, <2>2, <3>1
  <2>3. CASE x # k
    <3>1. PICK e \in In(B) : e.key = x  BY <2>3 DEF KeysOf
    <3>2. e \in In(Q)  BY <1>3, <2>3, <3>1
    <3>3. ValueAt(Q, e.key) = e.value /\ ValueAt(B, e.key) = e.value  BY <3>2, ValueIs
    <3>4. ContentsOf(B)[x] = ValueAt(B, x)  BY <2>3 DEF ContentsOf
    <3> QED  BY <2>1, <2>3, <3>1, <3>3, <3>4
  <2> QED  BY <2>2, <2>3
<1>6. ContentsOf(Q) = [x \in KeysOf(B) \union {k} |-> ContentsOf(Q)[x]]
  BY <1>4 DEF ContentsOf
<1> QED  BY <1>4, <1>5, <1>6 DEF WithKey

(* The entries of a key out.                                                *)
LEMMA ContentsRemoved ==
  ASSUME NEW c \in Nat, NEW B, Sound(B, c), NEW d \in Nat, NEW Q, Sound(Q, d),
         NEW k \in Keys, In(Q) = OfOthers(B, k)
  PROVE  WithoutKey(B, Q, k)
<1>1. \A e : e \in In(Q) <=> (e \in In(B) /\ e.key # k)  BY DEF OfOthers
<1>2. KeysOf(Q) = KeysOf(B) \ {k}  BY <1>1 DEF KeysOf
<1>3. ASSUME NEW x \in KeysOf(B) \ {k} PROVE ContentsOf(Q)[x] = ContentsOf(B)[x]
  <2>1. ContentsOf(Q)[x] = ValueAt(Q, x) /\ ContentsOf(B)[x] = ValueAt(B, x)
    BY <1>2 DEF ContentsOf
  <2>2. PICK e \in In(B) : e.key = x  BY DEF KeysOf
  <2>3. e \in In(Q)  BY <1>1, <2>2
  <2>4. ValueAt(Q, e.key) = e.value /\ ValueAt(B, e.key) = e.value  BY <2>3, ValueIs
  <2> QED  BY <2>1, <2>2, <2>4
<1>4. ContentsOf(Q) = [x \in KeysOf(B) \ {k} |-> ContentsOf(Q)[x]]
  BY <1>2 DEF ContentsOf
<1> QED  BY <1>2, <1>3, <1>4 DEF WithoutKey

(* The table of a state, of capacity c and less than three quarters full.   *)
TableHas(c) == c \in Nat \ {0} /\ TableIs(table, c) /\ 4 * table.size < 3 * c

TableInv == \E c : TableHas(c)

(* Its keys and contents.                                                   *)
LEMMA TableLists ==
  /\ TableKeys = KeysOf(table.buckets) /\ TableKeys' = KeysOf(table'.buckets)
  /\ TableContents = ContentsOf(table.buckets) /\ TableContents' = ContentsOf(table'.buckets)
<1>1. TableKeys = KeysOf(table.buckets) /\ TableKeys' = KeysOf(table'.buckets)
  BY DEF TableKeys, KeysOf, In
<1> QED  BY <1>1 DEF TableContents, ContentsOf, ValueAt

(* A new array of lists is empty.                                           *)
LEMMA EmptyLists ==
  ASSUME NEW c \in Nat, NEW X
  PROVE  LET B == [b \in 0 .. c - 1 |-> <<>>]
         IN /\ B \in Lists(c, X) /\ Apart(B) /\ In(B) = {}
            /\ IsFiniteSet(Cells(B)) /\ Cardinality(Cells(B)) = 0
<1> DEFINE B == [b \in 0 .. c - 1 |-> <<>>]
<1>1. DOMAIN B = 0 .. c - 1 /\ \A b \in DOMAIN B : B[b] = <<>> /\ DOMAIN B[b] = {}
  OBVIOUS
<1>2. B \in Lists(c, X)
  <2>1. <<>> \in Seq(X)  BY EmptySeq
  <2> QED  BY <2>1 DEF Lists
<1> HIDE DEF B
<1>3. Cells(B) = {}  BY <1>1, CellsAre
<1>4. In(B) = {}
  <2>1. \A x : x \in In(B) <=> \E b \in DOMAIN B : \E n \in DOMAIN B[b] : B[b][n] = x
    BY InIs
  <2> QED  BY <1>1, <2>1
<1>5. Apart(B)  BY <1>1 DEF Apart
<1> QED  BY <1>2, <1>3, <1>4, <1>5, FS_EmptySet DEF B

(* The invariant at the start,                                              *)
LEMMA TableStarts ==
  ASSUME TablesInit
  PROVE  TableHas(InitialCapacity) /\ TableKeys = {}
<1>1. PICK c \in Nat \ {0} : c = InitialCapacity  BY SizesAssumption
<1>2. PICK B : B = [b \in 0 .. c - 1 |-> <<>>]  OBVIOUS
<1>3. table = [capacity |-> c, size |-> 0, buckets |-> B]
  BY <1>1, <1>2 DEF TablesInit, NewHashTable
<1>4. /\ B \in Lists(c, Entry) /\ Apart(B) /\ In(B) = {}
      /\ IsFiniteSet(Cells(B)) /\ Cardinality(Cells(B)) = 0
  BY <1>2, EmptyLists
<1>5. \A d \in 0 .. c - 1 : Fits(B, c, d)
  <2>1. \A d \in 0 .. c - 1 : B[d] = <<>>  BY <1>2
  <2>2. ToSet(<<>>) = {}  BY DEF ToSet
  <2> QED  BY <2>1, <2>2 DEF Fits
<1>6. table \in Records(c, Entry) /\ table.buckets = B /\ table.size = 0
  BY <1>3, <1>4 DEF Records
<1>7. Sound(B, c)  BY <1>4, <1>5 DEF Sound
<1>8. TableHas(c)  BY <1>4, <1>6, <1>7 DEF TableHas, TableIs
<1>9. TableKeys = {}  BY <1>4, <1>6, TableLists DEF KeysOf
<1> QED  BY <1>1, <1>8, <1>9

(* after a put,                                                             *)
LEMMA TablePut ==
  ASSUME NEW c, TableHas(c), NEW k \in Keys, NEW v \in Values, PutBoth(k, v)
  PROVE  LET n == IF k \in TableKeys THEN table.size ELSE table.size + 1
         IN /\ TableHas(IF 4 * n >= 3 * c THEN 2 * c ELSE c)' /\ table'.size = n
            /\ TableKeys' = TableKeys \union {k}
            /\ TableContents' = [x \in TableKeys \union {k} |->
                                   IF x = k THEN v ELSE TableContents[x]]
<1>1. PICK n, e, B, U : /\ n = IF k \in TableKeys THEN table.size ELSE table.size + 1
                        /\ e = IF 4 * n >= 3 * c THEN 2 * c ELSE c
                        /\ B = table.buckets /\ U = PutEntry(table, k, v)
  OBVIOUS
<1>2. /\ c \in Nat \ {0} /\ TableIs(table, c) /\ 4 * table.size < 3 * c /\ Sound(B, c)
      /\ table.size \in Nat
  BY <1>1 DEF TableHas, TableIs, Records
<1>3. table' = U  BY <1>1 DEF PutBoth
<1>4. TableKeys = KeysOf(B) /\ TableContents = ContentsOf(B)  BY <1>1, TableLists
<1>5. /\ TableIs(U, e) /\ U.size = n
      /\ In(U.buckets) = OfOthers(B, k) \union {[key |-> k, value |-> v]}
  BY <1>1, <1>2, <1>4, PutEntryEffect
<1>6. e \in Nat \ {0} /\ 4 * n < 3 * e  BY <1>1, <1>2
<1>7. Sound(U.buckets, e)  BY <1>5 DEF TableIs
<1>8. WithKey(B, U.buckets, k, v)
  <2>1. PICK Q : Q = U.buckets  OBVIOUS
  <2>2. Sound(Q, e) /\ In(Q) = OfOthers(B, k) \union {[key |-> k, value |-> v]}
    BY <1>5, <1>7, <2>1
  <2>3. WithKey(B, Q, k, v)  BY <1>2, <1>6, <2>2, ContentsPut
  <2> QED  BY <2>1, <2>3
<1>9. TableHas(e)'  BY <1>3, <1>5, <1>6 DEF TableHas, TableIs
<1>10. /\ TableKeys' = TableKeys \union {k}
       /\ TableContents' = [x \in TableKeys \union {k} |->
                              IF x = k THEN v ELSE TableContents[x]]
  BY <1>3, <1>4, <1>8, TableLists DEF WithKey
<1> QED  BY <1>1, <1>3, <1>5, <1>9, <1>10

(* and after a removal.                                                     *)
LEMMA TableRemove ==
  ASSUME NEW c, TableHas(c), NEW k \in Keys, RemoveBoth(k)
  PROVE  /\ TableHas(c)'
         /\ table.size = IF k \in TableKeys THEN table'.size + 1 ELSE table'.size
         /\ TableKeys' = TableKeys \ {k}
         /\ TableContents' = [x \in TableKeys \ {k} |-> TableContents[x]]
<1>1. PICK B, U : B = table.buckets /\ U = RemoveKey(table, k)  OBVIOUS
<1>2. /\ c \in Nat \ {0} /\ TableIs(table, c) /\ 4 * table.size < 3 * c /\ Sound(B, c)
      /\ table.size \in Nat
  BY <1>1 DEF TableHas, TableIs, Records
<1>3. table' = U  BY <1>1 DEF RemoveBoth
<1>4. TableKeys = KeysOf(B) /\ TableContents = ContentsOf(B)  BY <1>1, TableLists
<1>5. /\ TableIs(U, c) /\ In(U.buckets) = OfOthers(B, k)
      /\ table.size = IF k \in KeysOf(B) THEN U.size + 1 ELSE U.size
  BY <1>1, <1>2, RemoveKeyEffect
<1>6. Sound(U.buckets, c) /\ U.size \in Nat  BY <1>5 DEF TableIs, Records
<1>7. 4 * U.size < 3 * c  BY <1>2, <1>5, <1>6
<1>8. WithoutKey(B, U.buckets, k)
  <2>1. PICK Q : Q = U.buckets  OBVIOUS
  <2>2. c \in Nat /\ Sound(B, c) /\ Sound(Q, c) /\ In(Q) = OfOthers(B, k)
    BY <1>2, <1>5, <1>6, <2>1
  <2>3. WithoutKey(B, Q, k)  BY <2>2, ContentsRemoved
  <2> QED  BY <2>1, <2>3
<1>9. TableHas(c)'  BY <1>2, <1>3, <1>5, <1>7 DEF TableHas, TableIs
<1>10. /\ TableKeys' = TableKeys \ {k}
       /\ TableContents' = [x \in TableKeys \ {k} |-> TableContents[x]]
  BY <1>3, <1>4, <1>8, TableLists DEF WithoutKey
<1> QED  BY <1>3, <1>4, <1>5, <1>9, <1>10

(* The invariant, through every call.                                       *)
LEMMA TableCalls ==
  /\ TablesInit => TableInv
  /\ TableInv /\ [TablesNext]_tablesVars => TableInv'
<1>1. TablesInit => TableInv  BY TableStarts DEF TableInv
<1>2. TableInv /\ [TablesNext]_tablesVars => TableInv'
  <2> SUFFICES ASSUME TableInv, [TablesNext]_tablesVars PROVE TableInv'
    OBVIOUS
  <2>1. PICK c : TableHas(c)  BY DEF TableInv
  <2>2. ASSUME NEW k \in Keys, NEW v \in Values, PutBoth(k, v) PROVE TableInv'
    <3>1. \E e : TableHas(e)'  BY <2>1, <2>2, TablePut
    <3> QED  BY <3>1 DEF TableInv
  <2>3. ASSUME NEW k \in Keys, RemoveBoth(k) PROVE TableInv'
    <3>1. TableHas(c)'  BY <2>1, <2>3, TableRemove
    <3> QED  BY <3>1 DEF TableInv
  <2>4. CASE UNCHANGED tablesVars
    BY <2>4 DEF tablesVars, TableInv, TableHas, TableIs
  <2> QED  BY <2>2, <2>3, <2>4 DEF TablesNext
<1> QED  BY <1>1, <1>2

(* A lookup in such a table finds what it holds.                            *)
LEMMA TableLookup ==
  ASSUME NEW c, TableHas(c)
  PROVE  TableFinds
<1>1. PICK B : B = table.buckets  OBVIOUS
<1>2. /\ c \in Nat \ {0} /\ table \in Records(c, Entry) /\ Sound(B, c)
      /\ B \in Lists(c, Entry) /\ table.size = Cardinality(Cells(B))
  BY <1>1 DEF TableHas, TableIs, Records
<1>3. TableKeys = KeysOf(B) /\ TableContents = ContentsOf(B)  BY <1>1, TableLists
<1>4. ASSUME NEW k \in Keys
      PROVE  /\ ContainsKey(table, k) <=> k \in TableKeys
             /\ k \in TableKeys => GetValue(table, k) = TableContents[k]
  <2>1. PICK b : b = TableIndex(table, k)  OBVIOUS
  <2>2. /\ b \in 0 .. c - 1 /\ (ContainsKey(table, k) <=> k \in KeysOf(B))
        /\ ContainsKey(table, k) =>
             Position(table, k) \in 1 .. Len(B[b]) /\ B[b][Position(table, k)].key = k
    BY <1>1, <1>2, <2>1, PositionIs
  <2>3. ASSUME k \in KeysOf(B) PROVE GetValue(table, k) = TableContents[k]
    <3>1. PICK p \in 1 .. Len(B[b]) : p = Position(table, k) /\ B[b][p].key = k
      BY <2>2, <2>3
    <3>2. PICK e : e = B[b][p]  OBVIOUS
    <3>3. b \in DOMAIN B /\ p \in DOMAIN B[b]  BY <1>2, <2>2, <3>1, ListsAre
    <3>4. e \in In(B)  BY <3>2, <3>3, InIs
    <3>5. ValueAt(B, k) = e.value  BY <1>2, <3>1, <3>2, <3>4, ValueIs
    <3>6. GetValue(table, k) = e.value  BY <1>1, <2>1, <3>1, <3>2 DEF GetValue
    <3>7. TableContents[k] = ValueAt(B, k)  BY <1>3, <2>3 DEF ContentsOf
    <3> QED  BY <3>5, <3>6, <3>7
  <2> QED  BY <1>3, <2>2, <2>3
<1>5. TableKeys \subseteq Keys
  <2>1. \A e \in In(B) : e \in Entry
    <3>1. \A d \in DOMAIN B : \A n \in DOMAIN B[d] : B[d][n] \in Entry
      <4>1. DOMAIN B = 0 .. c - 1  BY <1>2 DEF Lists
      <4> QED  BY <1>2, <4>1, ListsAre
    <3> QED  BY <3>1, InIs
  <2> QED  BY <1>3, <2>1 DEF KeysOf, Entry
<1> QED  BY <1>1, <1>2, <1>4, <1>5 DEF TableFinds

(* get_value and contains_key of void_hash_table.c find exactly what the    *)
(* table holds and its size counts it, through every growth and whatever    *)
(* the hash, for a capacity that need not be a power of two.                *)
THEOREM TableFindsCorrect == TablesSpec => []TableFinds
<1>1. (TablesInit => TableInv) /\ (TableInv /\ [TablesNext]_tablesVars => TableInv')  BY TableCalls
<1>2. TableInv => TableFinds  BY TableLookup DEF TableInv
<1> QED  BY <1>1, <1>2, PTL DEF TablesSpec

(* The table is a dictionary that can delete: a put binds its key to its    *)
(* value and no other (void_hash_table.c:172-208), a removal takes its key  *)
(* and no other, and the change of capacity inside a put is not seen.       *)
THEOREM TableDictionary == TablesSpec => TableImplementsDictionary
<1> DEFINE Told == \A k \in Keys :
                     /\ \A v \in Values : PutBoth(k, v) => k \in TableKeys' /\ TableContents'[k] = v
                     /\ RemoveBoth(k) => TableKeys' = TableKeys \ {k}
           DNext == DT!Next \/ \E k \in Keys : DT!Delete(k)
<1>1. (TablesInit => TableInv) /\ (TableInv /\ [TablesNext]_tablesVars => TableInv')  BY TableCalls
<1>2. TablesInit => DT!Init
  <2> SUFFICES ASSUME TablesInit PROVE DT!Init
    OBVIOUS
  <2>1. TableKeys = {}  BY TableStarts
  <2>2. TableContents = [k \in TableKeys |-> TableContents[k]]
    BY TableLists DEF ContentsOf
  <2>3. TableContents = [k \in {} |-> 0]  BY <2>1, <2>2
  <2> QED  BY <2>3 DEF DT!Init
<1>3. ASSUME TableInv, NEW k \in Keys, NEW v \in Values, PutBoth(k, v)
      PROVE  DT!Put(k, v) /\ k \in TableKeys' /\ TableContents'[k] = v
  <2>1. PICK c : TableHas(c)  BY <1>3 DEF TableInv
  <2>2. /\ TableKeys' = TableKeys \union {k}
        /\ TableContents' = [x \in TableKeys \union {k} |->
                               IF x = k THEN v ELSE TableContents[x]]
    BY <1>3, <2>1, TablePut
  <2>3. DOMAIN TableContents = TableKeys  BY TableLists DEF ContentsOf
  <2> QED  BY <2>2, <2>3 DEF DT!Put
<1>4. ASSUME TableInv, NEW k \in Keys, RemoveBoth(k)
      PROVE  DT!Delete(k) /\ TableKeys' = TableKeys \ {k}
  <2>1. PICK c : TableHas(c)  BY <1>4 DEF TableInv
  <2>2. /\ TableKeys' = TableKeys \ {k}
        /\ TableContents' = [x \in TableKeys \ {k} |-> TableContents[x]]
    BY <1>4, <2>1, TableRemove
  <2>3. DOMAIN TableContents = TableKeys  BY TableLists DEF ContentsOf
  <2> QED  BY <2>2, <2>3 DEF DT!Delete
<1>5. TableInv /\ [TablesNext]_tablesVars => [DNext]_DT!dictVars
  <2>1. ASSUME UNCHANGED tablesVars PROVE UNCHANGED DT!dictVars
    <3>1. table' = table  BY <2>1 DEF tablesVars
    <3>2. TableContents' = TableContents  BY <3>1, TableLists
    <3> QED  BY <3>2 DEF DT!dictVars
  <2>2. ASSUME TableInv, NEW k \in Keys, NEW v \in Values, PutBoth(k, v) PROVE DT!Next
    BY <1>3, <2>2 DEF DT!Next
  <2>3. ASSUME TableInv, NEW k \in Keys, RemoveBoth(k) PROVE DNext
    BY <1>4, <2>3
  <2> QED  BY <2>1, <2>2, <2>3 DEF TablesNext
<1>6. TableInv /\ [TablesNext]_tablesVars => [Told]_tablesVars
  BY <1>3, <1>4
<1>7. TableImplementsDictionary <=> DT!DeletingSpec /\ [][Told]_tablesVars
  BY DEF TableImplementsDictionary
<1>8. DT!DeletingSpec <=> DT!Init /\ [][DNext]_DT!dictVars
  BY DEF DT!DeletingSpec
<1> HIDE DEF Told, DNext
<1> QED  BY <1>1, <1>2, <1>5, <1>6, <1>7, <1>8, PTL DEF TablesSpec

----------------------------------------------------------------------------
(* The hash set: an element more behind a list,                             *)
LEMMA StayEffect ==
  ASSUME NEW c \in Nat \ {0}, NEW R \in Records(c, Keys), NEW b \in 0 .. c - 1, NEW x \in Keys
  PROVE  LET M == Stay(R, b, x)
         IN /\ M \in Records(c, Keys) /\ M.size = R.size
            /\ \E i, p : Inserted(R.buckets, i, p, x, M.buckets)
<1>1. PICK F : F = R.buckets  OBVIOUS
<1>2. F \in Lists(c, Keys)  BY <1>1 DEF Records
<1>3. PICK M : M = [R EXCEPT !.buckets[b] = Append(@, x)]  OBVIOUS
<1>4. /\ M \in Records(c, Keys) /\ M.size = R.size
      /\ M.buckets = [R.buckets EXCEPT ![b] = Append(R.buckets[b], x)]
  BY <1>3, RecordEnd
<1>5. Inserted(F, b, Len(F[b]) + 1, x, M.buckets)
  <2>1. PICK Q : Q = [F EXCEPT ![b] = Append(F[b], x)]  OBVIOUS
  <2>2. Inserted(F, b, Len(F[b]) + 1, x, Q)  BY <1>2, <2>1, AtTheEnd
  <2>3. M.buckets = Q  BY <1>1, <1>4, <2>1
  <2> QED  BY <2>2, <2>3
<1>6. Stay(R, b, x) = M  BY <1>3 DEF Stay
<1> QED  BY <1>1, <1>4, <1>5, <1>6

(* or before the one its hash names.                                        *)
LEMMA PrependEffect ==
  ASSUME NEW c \in Nat \ {0}, NEW R \in Records(c, Keys), NEW x \in Keys
  PROVE  LET M == Prepend(R, x)
         IN /\ M \in Records(c, Keys) /\ M.size = R.size
            /\ \E i, p : Inserted(R.buckets, i, p, x, M.buckets)
<1>1. PICK F, b : F = R.buckets /\ b = SetIndex(R, x)  OBVIOUS
<1>2. F \in Lists(c, Keys) /\ R.capacity = c  BY <1>1 DEF Records
<1>3. b \in 0 .. c - 1  BY <1>1, <1>2, IndexIs DEF SetIndex
<1>4. PICK M : M = WithHead(R, b, x)  OBVIOUS
<1>5. /\ M \in Records(c, Keys) /\ M.size = R.size
      /\ M.buckets = [R.buckets EXCEPT ![b] = <<x>> \o R.buckets[b]]
  <2>1. HeadIs(c, Keys, R, b, x)  BY <1>3, RecordHead
  <2> QED  BY <1>4, <2>1 DEF HeadIs
<1>6. Inserted(F, b, 1, x, M.buckets)
  <2>1. PICK Q : Q = [F EXCEPT ![b] = <<x>> \o F[b]]  OBVIOUS
  <2>2. Inserted(F, b, 1, x, Q)  BY <1>2, <1>3, <2>1, AtTheHead
  <2>3. M.buckets = Q  BY <1>1, <1>5, <2>1
  <2> QED  BY <2>2, <2>3
<1>7. Prepend(R, x) = M  BY <1>1, <1>4 DEF Prepend, WithHead
<1> QED  BY <1>1, <1>5, <1>6, <1>7

(* The states of the walk of DoubleBucket: the set, and whether the next    *)
(* element is passed over.                                                  *)
Passing(c) == [into : Records(c, Keys), passing : BOOLEAN]

Passes(c, S, b, chain, N, f) ==
  /\ f \in [0 .. N -> Passing(c)]
  /\ f[0] = [into |-> [S EXCEPT !.buckets[b] = <<>>], passing |-> FALSE]
  /\ \A n \in 1 .. N :
       \/ f[n].into = Stay(f[n - 1].into, b, chain[n])
       \/ f[n].into = Prepend(f[n - 1].into, chain[n])
  /\ DoubleBucket(S, b) = f[N].into

(* There are such states.                                                   *)
LEMMA DoubleBucketWalk ==
  ASSUME NEW c \in Nat \ {0}, NEW S \in Records(c, Keys), NEW b \in 0 .. c - 1,
         NEW list, list = S.buckets[b], NEW last, last = Len(list)
  PROVE  \E f : Passes(c, S, b, list, last, f)
<1> DEFINE chain == S.buckets[b]
           N == Len(chain)
           V == Passing(c)
           first == [into |-> [S EXCEPT !.buckets[b] = <<>>], passing |-> FALSE]
           after(R, n) == IF R.passing \/ SetIndex(S, chain[n]) = b
                          THEN [into |-> Stay(R.into, b, chain[n]), passing |-> FALSE]
                          ELSE [into |-> Prepend(R.into, chain[n]), passing |-> TRUE]
           step == [n \in 1 .. N |-> [R \in V |-> after(R, n)]]
           Is(h) == h = [n \in 0 .. N |-> IF n = 0 THEN first ELSE after(h[n - 1], n)]
<1>1. S.capacity = c /\ S.buckets \in Lists(c, Keys)  BY DEF Records
<1>2. chain \in Seq(Keys) /\ N \in Nat /\ \A n \in 1 .. N : chain[n] \in Keys
  BY <1>1, ListsAre
<1>3. first \in V
  <2>1. NoneIs(c, Keys, S, b)  BY RecordEmptied
  <2> QED  BY <2>1 DEF Passing, WithNone, NoneIs
<1>4. \A n \in 1 .. N : \A R \in V : after(R, n) \in V
  <2> SUFFICES ASSUME NEW n \in 1 .. N, NEW R \in V PROVE after(R, n) \in V
    OBVIOUS
  <2>1. PICK x \in Keys : x = chain[n]  BY <1>2
  <2>2. R.into \in Records(c, Keys)  BY DEF Passing
  <2>3. PICK A, B : A = Stay(R.into, b, x) /\ B = Prepend(R.into, x)  OBVIOUS
  <2>4. A \in Records(c, Keys)  BY <2>2, <2>3, StayEffect
  <2>5. B \in Records(c, Keys)  BY <2>2, <2>3, PrependEffect
  <2>6. /\ [into |-> A, passing |-> FALSE] \in V
        /\ [into |-> B, passing |-> TRUE] \in V
    BY <2>4, <2>5 DEF Passing
  <2> QED  BY <2>1, <2>3, <2>6
<1>5. step \in [1 .. N -> [V -> V]]
  <2> HIDE DEF after, V, N
  <2> QED  BY <1>4
<1>6. PICK f : Iterates(N, V, first, step, f)
  <2>1. N \in Nat  BY <1>2
  <2> HIDE DEF step, first, V, N
  <2> QED  BY <1>3, <1>5, <2>1, Iteration, Zenon
<1>7. /\ f \in [0 .. N -> V] /\ f[0] = first
      /\ \A n \in 1 .. N : f[n] = step[n][f[n - 1]]
  <2> HIDE DEF step, first, V, N
  <2> QED  BY <1>6 DEF Iterates
<1>8. \A n \in 1 .. N : f[n] = after(f[n - 1], n)
  <2> SUFFICES ASSUME NEW n \in 1 .. N PROVE f[n] = after(f[n - 1], n)
    OBVIOUS
  <2>1. n - 1 \in 0 .. N  BY <1>2
  <2>2. f[n - 1] \in V
    <3> HIDE DEF V, N
    <3> QED  BY <1>7, <2>1
  <2> HIDE DEF after, V, N
  <2>3. step[n][f[n - 1]] = after(f[n - 1], n)  BY <2>2
  <2> QED  BY <1>7, <2>3
<1>9. Is(f)
  <2>1. \A n \in 0 .. N : n = 0 \/ n \in 1 .. N  BY <1>2
  <2> HIDE DEF after, first, V, N
  <2> QED  BY <1>7, <1>8, <2>1
<1>10. PICK h : h = CHOOSE k : Is(k)  OBVIOUS
<1>11. DoubleBucket(S, b) = h[N].into  BY <1>10, Zenon DEF DoubleBucket
<1>12. Is(h)
  <2> HIDE DEF Is
  <2> QED  BY <1>9, <1>10, Zenon
<1>13. h = f
  <2> SUFFICES \A n \in 0 .. N : h[n] = f[n]
    <3> HIDE DEF after, first, V, N
    <3> QED  BY <1>9, <1>12
  <2> DEFINE Same == {n \in 0 .. N : h[n] = f[n]}
  <2>1. 0 \in Same
    <3>1. 0 \in 0 .. N  BY <1>2
    <3> HIDE DEF after, first, V, N
    <3> QED  BY <1>9, <1>12, <3>1
  <2>2. ASSUME NEW n \in 1 .. N, n - 1 \in Same PROVE n \in Same
    <3>1. n \in 0 .. N /\ n # 0  BY <1>2
    <3> HIDE DEF after, first, V, N
    <3> QED  BY <1>9, <1>12, <2>2, <3>1
  <2>3. \A n \in 0 .. N : n \in Same
    <3> HIDE DEF Same, N
    <3> QED  BY <1>2, <2>1, <2>2, UpToBound
  <2> QED  BY <2>3
<1>14. ASSUME NEW n \in 1 .. N
       PROVE  \/ f[n].into = Stay(f[n - 1].into, b, chain[n])
              \/ f[n].into = Prepend(f[n - 1].into, chain[n])
  <2>1. PICK R, x : R = f[n - 1] /\ x = chain[n]  OBVIOUS
  <2>2. f[n] = after(f[n - 1], n)  BY <1>8
  <2> HIDE DEF chain, N, V, first
  <2>3. f[n] = IF R.passing \/ SetIndex(S, x) = b
               THEN [into |-> Stay(R.into, b, x), passing |-> FALSE]
               ELSE [into |-> Prepend(R.into, x), passing |-> TRUE]
    BY <2>1, <2>2
  <2> QED  BY <2>1, <2>3
<1> QED
  <2>1. list = chain /\ last = N  OBVIOUS
  <2>2. f \in [0 .. last -> Passing(c)] /\ DoubleBucket(S, b) = f[last].into
    <3> HIDE DEF chain, N
    <3> QED  BY <1>7, <1>11, <1>13, <2>1
  <2>3. f[0] = [into |-> [S EXCEPT !.buckets[b] = <<>>], passing |-> FALSE]  BY <1>7
  <2> HIDE DEF after, first, V, N
  <2>4. \A n \in 1 .. last : \/ f[n].into = Stay(f[n - 1].into, b, list[n])
                             \/ f[n].into = Prepend(f[n - 1].into, list[n])
    BY <1>14, <2>1
  <2> QED  BY <2>2, <2>3, <2>4 DEF Passes

(* Whatever the walk of a list passes over, it relinks every cell once.     *)
LEMMA DoubleBucketEffect ==
  ASSUME NEW c \in Nat \ {0}, NEW S \in Records(c, Keys), NEW b \in 0 .. c - 1
  PROVE  LET M == DoubleBucket(S, b)
         IN M \in Records(c, Keys) /\ M.size = S.size /\ Kept(S.buckets, M.buckets)
<1>1. PICK B, chain, N : B = S.buckets /\ chain = B[b] /\ N = Len(chain)  OBVIOUS
<1>2. /\ B \in Lists(c, Keys) /\ N \in Nat /\ \A n \in 1 .. N : chain[n] \in Keys
  <2>1. B \in Lists(c, Keys)  BY <1>1 DEF Records
  <2> QED  BY <1>1, <2>1, ListsAre
<1>3. PICK f : Passes(c, S, b, chain, N, f)
  <2>1. chain = S.buckets[b] /\ N = Len(chain)  BY <1>1
  <2> QED  BY <2>1, DoubleBucketWalk, Zenon
<1>4. PICK g : g = [n \in 0 .. N |-> f[n].into]  OBVIOUS
<1>5. /\ \A n \in 0 .. N : g[n] \in Records(c, Keys) /\ g[n].buckets \in Lists(c, Keys)
      /\ g[0] = [S EXCEPT !.buckets[b] = <<>>]
      /\ \A n \in 1 .. N : g[n] = Stay(g[n - 1], b, chain[n]) \/ g[n] = Prepend(g[n - 1], chain[n])
      /\ DoubleBucket(S, b) = g[N]
  <2>1. /\ \A n \in 0 .. N : f[n] \in Passing(c)
        /\ f[0] = [into |-> [S EXCEPT !.buckets[b] = <<>>], passing |-> FALSE]
        /\ DoubleBucket(S, b) = f[N].into
        /\ \A n \in 1 .. N : \/ f[n].into = Stay(f[n - 1].into, b, chain[n])
                             \/ f[n].into = Prepend(f[n - 1].into, chain[n])
    BY <1>3 DEF Passes
  <2>2. \A n \in 0 .. N : g[n] \in Records(c, Keys)  BY <1>4, <2>1 DEF Passing
  <2>3. \A n \in 0 .. N : g[n].buckets \in Lists(c, Keys)  BY <2>2 DEF Records
  <2>4. g[0] = [S EXCEPT !.buckets[b] = <<>>]
    <3>1. PICK W : W = [S EXCEPT !.buckets[b] = <<>>]  OBVIOUS
    <3>2. f[0] = [into |-> W, passing |-> FALSE]  BY <2>1, <3>1
    <3>3. f[0].into = W  BY <3>2
    <3>4. 0 \in 0 .. N  BY <1>2
    <3> QED  BY <1>4, <3>1, <3>3, <3>4
  <2>5. \A n \in 1 .. N : n \in 0 .. N /\ n - 1 \in 0 .. N  BY <1>2
  <2>6. N \in 0 .. N  BY <1>2
  <2>7. \A n \in 1 .. N : g[n] = f[n].into /\ g[n - 1] = f[n - 1].into  BY <1>4, <2>5
  <2>8. DoubleBucket(S, b) = g[N]  BY <1>4, <2>1, <2>6
  <2>9. \A n \in 1 .. N : g[n] = Stay(g[n - 1], b, chain[n]) \/ g[n] = Prepend(g[n - 1], chain[n])
    BY <2>1, <2>7
  <2> QED  BY <2>2, <2>3, <2>4, <2>8, <2>9
<1> DEFINE P(n) == g[n].size = S.size /\ Pending(B, b, n, g[n].buckets)
<1>6. P(0)
  <2>1. PICK F, W : W = g[0] /\ F = W.buckets  OBVIOUS
  <2>2. /\ W.size = S.size /\ F[b] = <<>>
        /\ \A d \in 0 .. c - 1 : d # b => F[d] = B[d]
    <3>1. W = WithNone(S, b)  BY <1>5, <2>1 DEF WithNone
    <3>2. NoneIs(c, Keys, S, b)  BY RecordEmptied
    <3> QED  BY <1>1, <2>1, <3>1, <3>2 DEF NoneIs
  <2>3. 0 \in 0 .. N  BY <1>2
  <2>4. F \in Lists(c, Keys)  BY <1>5, <2>1, <2>3
  <2>5. Pending(B, b, 0, F)  BY <1>2, <2>2, <2>4, TakenOff
  <2> QED  BY <2>1, <2>2, <2>5
<1>7. ASSUME NEW n \in 1 .. N, P(n - 1) PROVE P(n)
  <2>1. n - 1 \in 0 .. N /\ n \in 0 .. N  BY <1>2
  <2>2. PICK x, R, W, F, G : /\ x = chain[n] /\ R = g[n - 1] /\ W = g[n]
                             /\ F = R.buckets /\ G = W.buckets
    OBVIOUS
  <2>3. /\ R \in Records(c, Keys) /\ F \in Lists(c, Keys) /\ G \in Lists(c, Keys) /\ x \in Keys
        /\ W = Stay(R, b, x) \/ W = Prepend(R, x)
    BY <1>2, <1>5, <2>1, <2>2
  <2>4. W.size = R.size /\ \E i, p : Inserted(F, i, p, x, G)
    <3>1. CASE W = Stay(R, b, x)  BY <2>2, <2>3, <3>1, StayEffect
    <3>2. CASE W = Prepend(R, x)  BY <2>2, <2>3, <3>2, PrependEffect
    <3> QED  BY <2>3, <3>1, <3>2
  <2>5. PICK i, p : Inserted(F, i, p, x, G)  BY <2>4
  <2>6. Pending(B, b, n - 1, F) /\ R.size = S.size /\ n \in 1 .. Len(B[b]) /\ x = B[b][n]
    BY <1>1, <1>7, <2>2
  <2>7. Pending(B, b, n, G)  BY <1>2, <2>3, <2>5, <2>6, PutBack
  <2> QED  BY <2>2, <2>4, <2>6, <2>7
<1>8. P(N)
  <2> DEFINE Good == {n \in 0 .. N : P(n)}
  <2>1. 0 \in Good /\ \A n \in 1 .. N : n - 1 \in Good => n \in Good
    <3> HIDE DEF P
    <3> QED  BY <1>2, <1>6, <1>7
  <2>2. \A n \in 0 .. N : n \in Good
    <3> HIDE DEF Good
    <3> QED  BY <1>2, <2>1, UpToBound
  <2> QED  BY <1>2, <2>2
<1>9. PICK M : M = g[N]  OBVIOUS
<1>10. M \in Records(c, Keys)
  <2>1. N \in 0 .. N  BY <1>2
  <2> QED  BY <1>5, <1>9, <2>1
<1>11. Kept(B, M.buckets) /\ M.size = S.size  BY <1>1, <1>2, <1>8, <1>9, AllBack
<1> QED  BY <1>1, <1>5, <1>9, <1>10, <1>11

(* The states of a doubling, list by list.                                  *)
Doublings(c, S, f) ==
  /\ f \in [0 .. c -> Records(2 * c, Keys)]
  /\ f[0].size = S.size /\ Kept(S.buckets, f[0].buckets)
  /\ \A n \in 1 .. c : f[n] = DoubleBucket(f[n - 1], n - 1)
  /\ DoubleHashSetCapacity(S) = f[c]

(* There are such states.                                                   *)
LEMMA DoublingWalk ==
  ASSUME NEW c \in Nat \ {0}, NEW S \in Records(c, Keys)
  PROVE  \E f : Doublings(c, S, f)
<1> DEFINE V == Records(2 * c, Keys)
           first == [S EXCEPT !.capacity = 2 * @,
                              !.buckets = [b \in 0 .. 2 * S.capacity - 1 |->
                                             IF b < S.capacity THEN @[b] ELSE <<>>]]
           after(R, n) == DoubleBucket(R, n - 1)
           step == [n \in 1 .. c |-> [R \in V |-> after(R, n)]]
           Is(h) == h = [n \in 0 .. c |-> IF n = 0 THEN first ELSE after(h[n - 1], n)]
<1>1. S.capacity = c /\ S.buckets \in Lists(c, Keys) /\ S.size \in Nat  BY DEF Records
<1>2. first \in V /\ first.size = S.size /\ Kept(S.buckets, first.buckets)
  <2>1. PICK e, Q : e = 2 * c /\ Q = [b \in 0 .. e - 1 |-> IF b < c THEN S.buckets[b] ELSE <<>>]
    OBVIOUS
  <2>2. e \in Nat /\ c <= e  BY <2>1
  <2>3. Q \in Lists(e, Keys) /\ Kept(S.buckets, Q)  BY <1>1, <2>1, <2>2, Widened
  <2>4. first = [S EXCEPT !.capacity = e, !.buckets = Q]  BY <1>1, <2>1 DEF Records
  <2>5. PICK W : W = [S EXCEPT !.capacity = e, !.buckets = Q]  OBVIOUS
  <2>6. W \in Records(e, Keys) /\ W.size = S.size /\ W.buckets = Q
    BY <1>1, <2>3, <2>5 DEF Records
  <2> QED  BY <2>1, <2>3, <2>4, <2>5, <2>6
<1>3. \A n \in 1 .. c : \A R \in V : after(R, n) \in V
  <2> SUFFICES ASSUME NEW n \in 1 .. c, NEW R \in V PROVE after(R, n) \in V
    OBVIOUS
  <2>1. PICK e \in Nat \ {0} : e = 2 * c  OBVIOUS
  <2>2. n - 1 \in 0 .. e - 1 /\ R \in Records(e, Keys)  BY <2>1
  <2>3. DoubleBucket(R, n - 1) \in Records(e, Keys)  BY <2>2, DoubleBucketEffect
  <2> QED  BY <2>1, <2>3
<1>4. step \in [1 .. c -> [V -> V]]
  <2> HIDE DEF after, V
  <2> QED  BY <1>3
<1>5. PICK f : Iterates(c, V, first, step, f)
  <2>1. c \in Nat  OBVIOUS
  <2> HIDE DEF step, first, V
  <2> QED  BY <1>2, <1>4, <2>1, Iteration, Zenon
<1>6. /\ f \in [0 .. c -> V] /\ f[0] = first
      /\ \A n \in 1 .. c : f[n] = step[n][f[n - 1]]
  <2> HIDE DEF step, first, V
  <2> QED  BY <1>5 DEF Iterates
<1>7. \A n \in 1 .. c : f[n] = after(f[n - 1], n)
  <2> SUFFICES ASSUME NEW n \in 1 .. c PROVE f[n] = after(f[n - 1], n)
    OBVIOUS
  <2>1. n - 1 \in 0 .. c  OBVIOUS
  <2>2. f[n - 1] \in V
    <3> HIDE DEF V
    <3> QED  BY <1>6, <2>1
  <2> HIDE DEF after, V
  <2>3. step[n][f[n - 1]] = after(f[n - 1], n)  BY <2>2
  <2> QED  BY <1>6, <2>3
<1>8. Is(f)
  <2>1. \A n \in 0 .. c : n = 0 \/ n \in 1 .. c  OBVIOUS
  <2> HIDE DEF after, first, V
  <2> QED  BY <1>6, <1>7, <2>1
<1>9. PICK h : h = CHOOSE k : k = [n \in 0 .. S.capacity |->
                                     IF n = 0 THEN first ELSE after(k[n - 1], n)]
  OBVIOUS
<1>10. DoubleHashSetCapacity(S) = h[c]
  <2>1. DoubleHashSetCapacity(S) = h[S.capacity]
    BY <1>9, Zenon DEF DoubleHashSetCapacity
  <2> QED  BY <1>1, <2>1
<1>11. Is(h)
  <2>1. h = CHOOSE k : Is(k)
    <3> HIDE DEF after, first
    <3> QED  BY <1>1, <1>9
  <2> HIDE DEF Is
  <2> QED  BY <1>8, <2>1, Zenon
<1>12. h = f
  <2> SUFFICES \A n \in 0 .. c : h[n] = f[n]
    <3> HIDE DEF after, first, V
    <3> QED  BY <1>8, <1>11
  <2> DEFINE Same == {n \in 0 .. c : h[n] = f[n]}
  <2>1. 0 \in Same
    <3> HIDE DEF after, first, V
    <3> QED  BY <1>8, <1>11
  <2>2. ASSUME NEW n \in 1 .. c, n - 1 \in Same PROVE n \in Same
    <3>1. n \in 0 .. c /\ n # 0  OBVIOUS
    <3> HIDE DEF after, first, V
    <3> QED  BY <1>8, <1>11, <2>2, <3>1
  <2>3. \A n \in 0 .. c : n \in Same
    <3> HIDE DEF Same
    <3> QED  BY <2>1, <2>2, UpToBound
  <2> QED  BY <2>3
<1> QED
  <2>1. f \in [0 .. c -> V] /\ DoubleHashSetCapacity(S) = f[c] /\ f[0] = first
    BY <1>6, <1>10, <1>12
  <2> HIDE DEF after, first, V
  <2>2. \A n \in 1 .. c : f[n] = DoubleBucket(f[n - 1], n - 1)  BY <1>7 DEF after
  <2>3. f[0].size = S.size /\ Kept(S.buckets, f[0].buckets)  BY <1>2, <2>1
  <2> QED  BY <2>1, <2>2, <2>3 DEF Doublings, V

(* A doubling keeps every cell (where it leaves them is another matter).    *)
LEMMA DoublingEffect ==
  ASSUME NEW c \in Nat \ {0}, NEW S \in Records(c, Keys)
  PROVE  LET M == DoubleHashSetCapacity(S)
         IN M \in Records(2 * c, Keys) /\ M.size = S.size /\ Kept(S.buckets, M.buckets)
<1>1. PICK f : Doublings(c, S, f)  BY DoublingWalk
<1>2. PICK e \in Nat \ {0} : e = 2 * c  OBVIOUS
<1>3. /\ \A n \in 0 .. c : f[n] \in Records(e, Keys)
      /\ \A n \in 1 .. c : f[n] = DoubleBucket(f[n - 1], n - 1)
      /\ f[0].size = S.size /\ Kept(S.buckets, f[0].buckets)
      /\ DoubleHashSetCapacity(S) = f[c]
  BY <1>1, <1>2 DEF Doublings
<1> DEFINE P(n) == f[n].size = S.size /\ Kept(S.buckets, f[n].buckets)
<1>4. P(0)  BY <1>3
<1>5. ASSUME NEW n \in 1 .. c, P(n - 1) PROVE P(n)
  <2>1. PICK R, W, b : R = f[n - 1] /\ W = f[n] /\ b = n - 1  OBVIOUS
  <2>2. R \in Records(e, Keys) /\ b \in 0 .. e - 1 /\ W = DoubleBucket(R, b)
    <3>1. n - 1 \in 0 .. c  OBVIOUS
    <3>2. R \in Records(e, Keys)  BY <1>3, <2>1, <3>1
    <3> QED  BY <1>2, <1>3, <2>1, <3>2
  <2>3. W.size = R.size /\ Kept(R.buckets, W.buckets)  BY <2>2, DoubleBucketEffect
  <2>4. R.size = S.size /\ Kept(S.buckets, R.buckets)  BY <1>5, <2>1
  <2>5. Kept(S.buckets, W.buckets)  BY <2>3, <2>4, KeptTwice
  <2> QED  BY <2>1, <2>3, <2>4, <2>5
<1>6. P(c)
  <2> DEFINE Good == {n \in 0 .. c : P(n)}
  <2>1. 0 \in Good /\ \A n \in 1 .. c : n - 1 \in Good => n \in Good
    <3> HIDE DEF P
    <3> QED  BY <1>4, <1>5
  <2>2. \A n \in 0 .. c : n \in Good
    <3> HIDE DEF Good
    <3> QED  BY <2>1, UpToBound
  <2> QED  BY <2>2
<1>7. PICK M : M = f[c]  OBVIOUS
<1>8. M \in Records(e, Keys) /\ DoubleHashSetCapacity(S) = M  BY <1>3, <1>7
<1>9. M.size = S.size /\ Kept(S.buckets, M.buckets)  BY <1>6, <1>7
<1> QED  BY <1>2, <1>8, <1>9

----------------------------------------------------------------------------
(* A set of capacity c whose size is the number of its cells.               *)
SetIs(S, c) ==
  /\ S \in Records(c, Keys) /\ IsFiniteSet(Cells(S.buckets))
  /\ S.size = Cardinality(Cells(S.buckets))

(* The test of the set's resize, for small arrays, is the one of the table  *)
(* (void_hash_table.c:205), though they are written differently.            *)
LEMMA SameTest ==
  ASSUME NEW c \in Nat \ {0}, NEW s \in Nat, NEW S \in Records(c, Keys),
         S.size = s \/ S.size = s + 1, 4 * s < 3 * c
  PROVE  /\ 4 * S.size >= 3 * c /\ 2 * c <= 2^(SizeofSizeT - 2) => SetResizeNeeded(S)
         /\ 4 * S.size < 3 * c => ~ SetResizeNeeded(S)
<1>1. PICK n \in Nat : n = S.size /\ (n = s \/ n = s + 1)  BY DEF Records
<1>2. PICK m : m = SizeofSizeT - 2  OBVIOUS
<1>3. m \in Nat /\ SizeofSizeT - 1 = m + 1  BY <1>2, SizesAssumption
<1>4. PICK A, C : A = 2^m /\ C = 2^(m + 1)  OBVIOUS
<1>5. A \in Nat \ {0} /\ C = 2 * A  BY <1>3, <1>4, PowerOfTwo
<1>6. SetResizeNeeded(S) <=> /\ (n \div A) % 4 = 0
                             /\ (c \div C) % 2 = 0
                             /\ (4 * n) \div c >= 3
  <2>1. S.capacity = c  BY DEF Records
  <2> QED  BY <1>1, <1>2, <1>3, <1>4, <2>1 DEF SetResizeNeeded
<1>7. ASSUME 4 * n >= 3 * c, 2 * c <= A PROVE SetResizeNeeded(S)
  <2>1. n < A /\ c < C  BY <1>1, <1>5, <1>7
  <2>2. n \div A = 0  BY <1>5, <2>1
  <2>3. c \div C = 0
    <3>1. C \in Nat \ {0}  BY <1>5
    <3> QED  BY <2>1, <3>1
  <2>4. (4 * n) \div c >= 3
    <3>1. PICK q \in Nat : q = 4 * n  OBVIOUS
    <3>2. q >= 3 * c  BY <1>7, <3>1
    <3>3. q \div c >= 3  BY <3>2
    <3> QED  BY <3>1, <3>3
  <2>5. 0 % 4 = 0 /\ 0 % 2 = 0  OBVIOUS
  <2> QED  BY <1>6, <2>2, <2>3, <2>4, <2>5
<1>8. ASSUME 4 * n < 3 * c PROVE ~ SetResizeNeeded(S)
  <2>1. PICK q \in Nat : q = 4 * n  OBVIOUS
  <2>2. q < 3 * c  BY <1>8, <2>1
  <2>3. ~ (q \div c >= 3)  BY <2>2
  <2> QED  BY <1>6, <2>1, <2>3
<1> QED  BY <1>1, <1>2, <1>4, <1>7, <1>8

(* The end of an add.                                                       *)
LEMMA ResizedEffect ==
  ASSUME NEW c \in Nat \ {0}, NEW S, SetIs(S, c)
  PROVE  LET U == Resized(S)
         IN /\ SetIs(U, IF SetResizeNeeded(S) THEN 2 * c ELSE c) /\ U.size = S.size
            /\ In(U.buckets) = In(S.buckets) /\ (Apart(S.buckets) => Apart(U.buckets))
<1>1. CASE ~ SetResizeNeeded(S)
  <2>1. Resized(S) = S  BY <1>1 DEF Resized
  <2> QED  BY <1>1, <2>1
<1>2. CASE SetResizeNeeded(S)
  <2>1. PICK e, M, B, Q : /\ e = 2 * c /\ M = DoubleHashSetCapacity(S)
                          /\ B = S.buckets /\ Q = M.buckets
    OBVIOUS
  <2>2. S \in Records(c, Keys) /\ IsFiniteSet(Cells(B)) /\ S.size = Cardinality(Cells(B))
    BY <2>1 DEF SetIs
  <2>3. M \in Records(e, Keys) /\ M.size = S.size /\ Kept(B, Q)
    BY <2>1, <2>2, DoublingEffect
  <2>4. /\ In(Q) = In(B) /\ (Apart(B) => Apart(Q)) /\ IsFiniteSet(Cells(Q))
        /\ Cardinality(Cells(Q)) = Cardinality(Cells(B))
    BY <2>2, <2>3 DEF Kept
  <2>5. SetIs(M, e)  BY <2>1, <2>2, <2>3, <2>4 DEF SetIs
  <2>6. Resized(S) = M  BY <1>2, <2>1 DEF Resized
  <2> QED  BY <1>2, <2>1, <2>3, <2>4, <2>5, <2>6
<1> QED  BY <1>1, <1>2

(* The set with an element more at the end of its list, or with one out.    *)
WithElement(S, x) == [S EXCEPT !.size = @ + 1, !.buckets[SetIndex(S, x)] = Append(@, x)]

WithoutElement(S, b, p) == [S EXCEPT !.size = @ - 1, !.buckets[b] = RemoveAt(@, p)]

(* An element more.                                                         *)
LEMMA AddedElement ==
  ASSUME NEW c \in Nat \ {0}, NEW S, SetIs(S, c), NEW x \in Keys
  PROVE  LET U == WithElement(S, x)
         IN /\ SetIs(U, c) /\ U.size = S.size + 1
            /\ In(U.buckets) = In(S.buckets) \union {x}
            /\ Apart(S.buckets) /\ x \notin In(S.buckets) => Apart(U.buckets)
<1>1. PICK B, b : B = S.buckets /\ b = SetIndex(S, x)  OBVIOUS
<1>2. /\ S \in Records(c, Keys) /\ S.capacity = c /\ S.size \in Nat /\ B \in Lists(c, Keys)
      /\ IsFiniteSet(Cells(B)) /\ S.size = Cardinality(Cells(B))
  BY <1>1 DEF SetIs, Records
<1>3. b \in 0 .. c - 1  BY <1>1, <1>2, IndexIs DEF SetIndex
<1>4. PICK Q : Q = [B EXCEPT ![b] = Append(B[b], x)]  OBVIOUS
<1>5. Q \in Lists(c, Keys) /\ Inserted(B, b, Len(B[b]) + 1, x, Q)
  BY <1>2, <1>3, <1>4, AtTheEnd
<1>6. In(Q) = In(B) \union {x} /\ (Apart(Q) <=> Apart(B) /\ x \notin In(B))
  BY <1>2, <1>5, InsertedEffect
<1>7. IsFiniteSet(Cells(Q)) /\ Cardinality(Cells(Q)) = S.size + 1
  BY <1>2, <1>5, InsertedCells
<1>8. PICK U : U = WithElement(S, x)  OBVIOUS
<1>9. U \in Records(c, Keys) /\ U.size = S.size + 1 /\ U.buckets = Q
  <2>1. U = [S EXCEPT !.size = S.size + 1, !.buckets = Q]
    BY <1>1, <1>2, <1>4, <1>8 DEF Records, WithElement
  <2>2. S.size + 1 \in Nat  BY <1>2
  <2> QED  BY <1>2, <1>5, <2>1, <2>2 DEF Records
<1>10. SetIs(U, c)  BY <1>7, <1>9 DEF SetIs
<1> QED  BY <1>1, <1>6, <1>8, <1>9, <1>10

(* The set U is S, of capacity c, with the element x out once.              *)
Lessened(S, c, x, U) ==
  /\ SetIs(U, c) /\ S.size = U.size + 1
  /\ In(S.buckets) = In(U.buckets) \union {x}
  /\ Apart(S.buckets) => Apart(U.buckets) /\ x \notin In(U.buckets)
  /\ Placed(S) => Placed(U)

(* An element less: every other one is still there.                         *)
LEMMA RemovedElement ==
  ASSUME NEW c \in Nat \ {0}, NEW S, SetIs(S, c), NEW b \in 0 .. c - 1,
         NEW p \in 1 .. Len(S.buckets[b]), NEW x, S.buckets[b][p] = x
  PROVE  Lessened(S, c, x, WithoutElement(S, b, p))
<1>1. PICK B : B = S.buckets  OBVIOUS
<1>2. /\ S \in Records(c, Keys) /\ S.capacity = c /\ S.size \in Nat /\ B \in Lists(c, Keys)
      /\ IsFiniteSet(Cells(B)) /\ S.size = Cardinality(Cells(B))
  BY <1>1 DEF SetIs, Records
<1>3. PICK W : W = [B EXCEPT ![b] = RemoveAt(B[b], p)]  OBVIOUS
<1>4. W \in Lists(c, Keys) /\ Inserted(W, b, p, x, B)  BY <1>1, <1>2, <1>3, TakenOut
<1>5. In(B) = In(W) \union {x} /\ (Apart(B) <=> Apart(W) /\ x \notin In(W))
  BY <1>2, <1>4, InsertedEffect
<1>6. IsFiniteSet(Cells(W)) /\ Cardinality(Cells(W)) \in Nat /\ S.size = Cardinality(Cells(W)) + 1
  BY <1>2, <1>4, InsertedCells
<1>7. PICK U : U = WithoutElement(S, b, p)  OBVIOUS
<1>8. U \in Records(c, Keys) /\ U.size = Cardinality(Cells(W)) /\ U.buckets = W /\ U.capacity = c
  <2>1. U = [S EXCEPT !.size = S.size - 1, !.buckets = W]
    BY <1>1, <1>2, <1>3, <1>7 DEF Records, WithoutElement
  <2>2. S.size - 1 = Cardinality(Cells(W))  BY <1>6
  <2> QED  BY <1>2, <1>4, <1>6, <2>1, <2>2 DEF Records
<1>9. SetIs(U, c)  BY <1>6, <1>8 DEF SetIs
<1>10. ASSUME Placed(S) PROVE Placed(U)
  <2>1. DOMAIN W = 0 .. c - 1 /\ DOMAIN B = 0 .. c - 1  BY <1>2, <1>4 DEF Lists
  <2>2. \A d \in 0 .. c - 1 : ToSet(W[d]) \subseteq ToSet(B[d])
    <3>1. Gained(c, W, b, x, B)  BY <1>2, <1>4, InsertedList
    <3> QED  BY <3>1 DEF Gained
  <2>3. \A d \in 0 .. c - 1 : \A y \in ToSet(B[d]) : Hash[y] % c = d
    BY <1>1, <1>2, <1>10, <2>1 DEF Placed, SetIndex
  <2> QED  BY <1>8, <2>1, <2>2, <2>3 DEF Placed, SetIndex
<1> QED  BY <1>1, <1>5, <1>6, <1>7, <1>8, <1>9, <1>10 DEF Lessened

(* The list a walk looks through, and where it finds the element.           *)
LEMMA InSetBucketIs ==
  ASSUME NEW c \in Nat \ {0}, NEW S \in Records(c, Keys), NEW x \in Keys,
         NEW b, b = SetIndex(S, x)
  PROVE  /\ b \in 0 .. c - 1
         /\ InSetBucket(S, x) <=> \E n \in 1 .. Len(S.buckets[b]) : S.buckets[b][n] = x
         /\ InSetBucket(S, x) => x \in In(S.buckets)
         /\ Placed(S) /\ x \in In(S.buckets) => InSetBucket(S, x)
         /\ AtHead(S, x) => InSetBucket(S, x)
<1>1. PICK B : B = S.buckets  OBVIOUS
<1>2. B \in Lists(c, Keys) /\ S.capacity = c  BY <1>1 DEF Records
<1>3. b = Hash[x] % c /\ b \in 0 .. c - 1  BY <1>2, IndexIs DEF SetIndex
<1>4. /\ DOMAIN B = 0 .. c - 1 /\ Len(B[b]) \in Nat /\ DOMAIN B[b] = 1 .. Len(B[b])
      /\ B[b] \in Seq(Keys)
  BY <1>2, <1>3, ListsAre
<1>5. InSetBucket(S, x) <=> x \in ToSet(B[b])  BY <1>1 DEF InSetBucket
<1>6. x \in ToSet(B[b]) <=> \E n \in DOMAIN B[b] : B[b][n] = x  BY DEF ToSet
<1>7. x \in ToSet(B[b]) => x \in In(B)  BY <1>3, <1>4 DEF In
<1>8. ASSUME Placed(S), x \in In(B) PROVE x \in ToSet(B[b])
  <2>1. PICK d \in DOMAIN B : x \in ToSet(B[d])  BY <1>8 DEF In
  <2>2. SetIndex(S, x) = d  BY <1>1, <1>8, <2>1 DEF Placed
  <2> QED  BY <2>1, <2>2
<1>9. ASSUME AtHead(S, x) PROVE x \in ToSet(B[b])
  <2>1. B[b] # <<>> /\ B[b][1] = x  BY <1>1, <1>9 DEF AtHead
  <2>2. Len(B[b]) # 0  BY <1>4, <2>1, EmptySeq
  <2>3. 1 \in DOMAIN B[b]  BY <1>4, <2>2
  <2> QED  BY <1>6, <2>1, <2>3
<1> QED  BY <1>1, <1>3, <1>4, <1>5, <1>6, <1>7, <1>8, <1>9

(* The set U of capacity e after an add of x to S, of capacity c.           *)
Added(S, c, x, U, e) ==
  /\ e \in Nat \ {0} /\ SetIs(U, e)
  /\ U.size = IF InSetBucket(S, x) THEN S.size ELSE S.size + 1
  /\ In(U.buckets) = In(S.buckets) \union {x}
  /\ Apart(S.buckets) /\ (InSetBucket(S, x) \/ x \notin In(S.buckets)) => Apart(U.buckets)
  /\ 4 * S.size < 3 * c =>
       /\ 4 * U.size < 3 * c => e = c
       /\ 4 * U.size >= 3 * c /\ 2 * c <= 2^(SizeofSizeT - 2) => e = 2 * c

(* add_to: nothing at the head, a resize behind it, an element more else.   *)
LEMMA AddEffect ==
  ASSUME NEW c \in Nat \ {0}, NEW S, SetIs(S, c), NEW x \in Keys
  PROVE  \E e : Added(S, c, x, AddToHashSet(S, x), e)
<1>1. PICK U : U = AddToHashSet(S, x)  OBVIOUS
<1>2. S \in Records(c, Keys) /\ S.size \in Nat  BY DEF SetIs, Records
<1>3. /\ InSetBucket(S, x) => x \in In(S.buckets)
      /\ AtHead(S, x) => InSetBucket(S, x)
  BY <1>2, InSetBucketIs
<1>4. CASE AtHead(S, x)
  <2>1. U = S  BY <1>1, <1>4 DEF AddToHashSet
  <2>2. In(S.buckets) = In(S.buckets) \union {x}  BY <1>3, <1>4
  <2>3. Added(S, c, x, U, c)  BY <1>2, <1>3, <1>4, <2>1, <2>2 DEF Added
  <2> QED  BY <1>1, <2>3
<1>5. CASE ~ AtHead(S, x)
  <2>1. PICK V : V = IF InSetBucket(S, x) THEN S ELSE WithElement(S, x)  OBVIOUS
  <2>2. U = Resized(V)  BY <1>1, <1>5, <2>1 DEF AddToHashSet, WithElement
  <2>3. /\ SetIs(V, c) /\ V.size = (IF InSetBucket(S, x) THEN S.size ELSE S.size + 1)
        /\ In(V.buckets) = In(S.buckets) \union {x}
        /\ Apart(S.buckets) /\ (InSetBucket(S, x) \/ x \notin In(S.buckets)) => Apart(V.buckets)
    <3>1. CASE InSetBucket(S, x)
      <4>1. V = S  BY <2>1, <3>1
      <4>2. In(S.buckets) = In(S.buckets) \union {x}  BY <1>3, <3>1
      <4> QED  BY <3>1, <4>1, <4>2
    <3>2. CASE ~ InSetBucket(S, x)
      <4>1. V = WithElement(S, x)  BY <2>1, <3>2
      <4>2. /\ SetIs(V, c) /\ V.size = S.size + 1
            /\ In(V.buckets) = In(S.buckets) \union {x}
            /\ Apart(S.buckets) /\ x \notin In(S.buckets) => Apart(V.buckets)
        BY <4>1, AddedElement
      <4> QED  BY <3>2, <4>2
    <3> QED  BY <3>1, <3>2
  <2>4. PICK e : e = IF SetResizeNeeded(V) THEN 2 * c ELSE c  OBVIOUS
  <2>5. /\ SetIs(U, e) /\ U.size = V.size /\ In(U.buckets) = In(V.buckets)
        /\ Apart(V.buckets) => Apart(U.buckets)
    BY <2>2, <2>3, <2>4, ResizedEffect
  <2>6. ASSUME 4 * S.size < 3 * c
        PROVE  /\ 4 * V.size < 3 * c => e = c
               /\ 4 * V.size >= 3 * c /\ 2 * c <= 2^(SizeofSizeT - 2) => e = 2 * c
    <3>1. V \in Records(c, Keys)  BY <2>3 DEF SetIs
    <3>2. PICK s \in Nat : s = S.size  BY <1>2
    <3>3. (V.size = s \/ V.size = s + 1) /\ 4 * s < 3 * c  BY <2>3, <2>6, <3>2
    <3>4. /\ 4 * V.size >= 3 * c /\ 2 * c <= 2^(SizeofSizeT - 2) => SetResizeNeeded(V)
          /\ 4 * V.size < 3 * c => ~ SetResizeNeeded(V)
      BY <3>1, <3>3, SameTest
    <3> QED  BY <2>4, <3>4
  <2>7. e \in Nat \ {0}  BY <2>4
  <2>8. Added(S, c, x, U, e)  BY <2>3, <2>5, <2>6, <2>7 DEF Added
  <2> QED  BY <1>1, <2>8
<1> QED  BY <1>4, <1>5

(* The set after a removal.                                                 *)
Removed(S, c, x, U) ==
  /\ SetIs(U, c)
  /\ S.size = IF InSetBucket(S, x) THEN U.size + 1 ELSE U.size
  /\ In(S.buckets) \ {x} \subseteq In(U.buckets) /\ In(U.buckets) \subseteq In(S.buckets)
  /\ Apart(S.buckets) => Apart(U.buckets) /\ (InSetBucket(S, x) => x \notin In(U.buckets))
  /\ Placed(S) => Placed(U)

(* remove_from unlinks one cell at most.                                    *)
LEMMA RemoveEffect ==
  ASSUME NEW c \in Nat \ {0}, NEW S, SetIs(S, c), NEW x \in Keys
  PROVE  Removed(S, c, x, RemoveFromHashSet(S, x))
<1>1. PICK B, b : B = S.buckets /\ b = SetIndex(S, x)  OBVIOUS
<1>2. S \in Records(c, Keys) /\ S.size \in Nat /\ B \in Lists(c, Keys)
  BY <1>1 DEF SetIs, Records
<1>3. /\ b \in 0 .. c - 1
      /\ InSetBucket(S, x) <=> \E n \in 1 .. Len(B[b]) : B[b][n] = x
  BY <1>1, <1>2, InSetBucketIs
<1>4. CASE ~ InSetBucket(S, x)
  <2>1. RemoveFromHashSet(S, x) = S  BY <1>4 DEF RemoveFromHashSet
  <2> QED  BY <1>4, <2>1 DEF Removed
<1>5. CASE InSetBucket(S, x)
  <2>1. DOMAIN B[b] = 1 .. Len(B[b]) /\ Len(B[b]) \in Nat  BY <1>2, <1>3, ListsAre
  <2>2. PICK places : places = {n \in DOMAIN B[b] : B[b][n] = x}  OBVIOUS
  <2>3. places # {} /\ places \subseteq Nat  BY <1>3, <1>5, <2>1, <2>2
  <2>4. PICK q \in places : \A m \in places : q <= m  BY <2>3, LeastNatural
  <2>5. q \in DOMAIN B[b] /\ B[b][q] = x /\ \A m \in 1 .. q - 1 : B[b][m] # x
    <3>1. q \in 1 .. Len(B[b]) /\ B[b][q] = x  BY <2>1, <2>2
    <3>2. ASSUME NEW m \in 1 .. q - 1, B[b][m] = x PROVE FALSE
      <4>1. m \in DOMAIN B[b] /\ ~ (q <= m)  BY <2>1, <3>1
      <4>2. m \in places  BY <2>2, <3>2, <4>1
      <4> QED  BY <2>4, <4>1, <4>2
    <3> QED  BY <2>1, <3>1, <3>2
  <2>6. PICK p : p = CHOOSE n \in DOMAIN B[b] : B[b][n] = x /\ \A m \in 1 .. n - 1 : B[b][m] # x
    OBVIOUS
  <2>7. p \in DOMAIN B[b] /\ B[b][p] = x  BY <2>5, <2>6
  <2>8. PICK U : U = WithoutElement(S, b, p)  OBVIOUS
  <2>9. RemoveFromHashSet(S, x) = U
    BY <1>1, <1>5, <2>6, <2>8 DEF RemoveFromHashSet, WithoutElement
  <2>10. p \in 1 .. Len(S.buckets[b]) /\ S.buckets[b][p] = x  BY <1>1, <2>1, <2>7
  <2>11. /\ SetIs(U, c) /\ S.size = U.size + 1
         /\ In(S.buckets) = In(U.buckets) \union {x}
         /\ Apart(S.buckets) => Apart(U.buckets) /\ x \notin In(U.buckets)
         /\ Placed(S) => Placed(U)
    <3>1. Lessened(S, c, x, U)  BY <1>3, <2>8, <2>10, RemovedElement
    <3> QED  BY <3>1 DEF Lessened
  <2>12. /\ In(S.buckets) \ {x} \subseteq In(U.buckets) /\ In(U.buckets) \subseteq In(S.buckets)
    BY <2>11
  <2> QED  BY <1>5, <2>9, <2>11, <2>12 DEF Removed
<1> QED  BY <1>4, <1>5

(* What a state is: the keys of the table, of capacity c, are in the set,   *)
(* of capacity d; and while the set is exact it is the table's, key by key. *)
Matches(c, d) ==
  exact =>
    /\ In(set.buckets) = TableKeys /\ Apart(set.buckets) /\ Placed(set)
    /\ set.size = table.size
    /\ c <= 2^(SizeofSizeT - 2) => d = c

BothHave(c, d) ==
  /\ TableHas(c) /\ d \in Nat \ {0} /\ SetIs(set, d) /\ exact \in BOOLEAN
  /\ TableKeys \subseteq In(set.buckets) /\ Matches(c, d)

TablesInv == \E c, d : BothHave(c, d)

(* It holds at the start,                                                   *)
LEMMA BothStart ==
  ASSUME TablesInit
  PROVE  TablesInv
<1>1. PICK c \in Nat \ {0} : c = InitialCapacity  BY SizesAssumption
<1>2. PICK B : B = [b \in 0 .. c - 1 |-> <<>>]  OBVIOUS
<1>3. set = [capacity |-> c, size |-> 0, buckets |-> B] /\ table.size = 0 /\ exact = TRUE
  BY <1>1, <1>2 DEF TablesInit, NewHashSet, NewHashTable
<1>4. /\ B \in Lists(c, Keys) /\ Apart(B) /\ In(B) = {}
      /\ IsFiniteSet(Cells(B)) /\ Cardinality(Cells(B)) = 0
  BY <1>2, EmptyLists
<1>5. set \in Records(c, Keys) /\ set.buckets = B /\ set.size = 0  BY <1>3, <1>4 DEF Records
<1>6. SetIs(set, c)  BY <1>4, <1>5 DEF SetIs
<1>7. Placed(set)
  <2>1. \A b \in DOMAIN B : B[b] = <<>>  BY <1>2
  <2>2. ToSet(<<>>) = {}  BY DEF ToSet
  <2> QED  BY <1>5, <2>1, <2>2 DEF Placed
<1>8. TableHas(c) /\ TableKeys = {}  BY <1>1, TableStarts
<1>9. Matches(c, c)  BY <1>3, <1>4, <1>5, <1>7, <1>8 DEF Matches
<1>10. BothHave(c, c)  BY <1>3, <1>6, <1>8, <1>9 DEF BothHave
<1> QED  BY <1>10 DEF TablesInv

(* after a put,                                                             *)
LEMMA BothPut ==
  ASSUME NEW c, NEW d, BothHave(c, d), NEW k \in Keys, NEW v \in Values, PutBoth(k, v)
  PROVE  TablesInv'
<1>1. /\ TableHas(c) /\ d \in Nat \ {0} /\ SetIs(set, d) /\ exact \in BOOLEAN
      /\ TableKeys \subseteq In(set.buckets) /\ Matches(c, d)
      /\ c \in Nat \ {0} /\ table.size \in Nat /\ 4 * table.size < 3 * c
      /\ set \in Records(d, Keys)
  BY DEF BothHave, TableHas, TableIs, SetIs, Records
<1>2. PICK n, e : /\ n = IF k \in TableKeys THEN table.size ELSE table.size + 1
                  /\ e = IF 4 * n >= 3 * c THEN 2 * c ELSE c
  OBVIOUS
<1>3. TableHas(e)' /\ table'.size = n /\ TableKeys' = TableKeys \union {k}
  BY <1>1, <1>2, TablePut
<1>4. set' = AddToHashSet(set, k) /\ exact' = (exact /\ Placed(set'))  BY DEF PutBoth
<1>5. PICK f : Added(set, d, k, set', f)  BY <1>1, <1>4, AddEffect
<1>6. /\ f \in Nat \ {0} /\ SetIs(set', f)
      /\ set'.size = (IF InSetBucket(set, k) THEN set.size ELSE set.size + 1)
      /\ In(set'.buckets) = In(set.buckets) \union {k}
      /\ Apart(set.buckets) /\ (InSetBucket(set, k) \/ k \notin In(set.buckets)) => Apart(set'.buckets)
      /\ 4 * set.size < 3 * d =>
           /\ 4 * set'.size < 3 * d => f = d
           /\ 4 * set'.size >= 3 * d /\ 2 * d <= 2^(SizeofSizeT - 2) => f = 2 * d
  BY <1>5 DEF Added
<1>7. TableKeys' \subseteq In(set'.buckets)  BY <1>1, <1>3, <1>6
<1>8. ASSUME exact'
      PROVE  /\ In(set'.buckets) = TableKeys' /\ Apart(set'.buckets) /\ Placed(set')
             /\ set'.size = table'.size
             /\ e <= 2^(SizeofSizeT - 2) => f = e
  <2>1. exact /\ Placed(set')  BY <1>4, <1>8
  <2>2. /\ In(set.buckets) = TableKeys /\ Apart(set.buckets) /\ Placed(set)
        /\ set.size = table.size
        /\ c <= 2^(SizeofSizeT - 2) => d = c
    BY <1>1, <2>1 DEF Matches
  <2>3. InSetBucket(set, k) <=> k \in In(set.buckets)  BY <1>1, <2>2, InSetBucketIs
  <2>4. Apart(set'.buckets) /\ In(set'.buckets) = TableKeys'  BY <1>3, <1>6, <2>2, <2>3
  <2>5. set'.size = n  BY <1>2, <1>6, <2>2, <2>3
  <2>6. ASSUME e <= 2^(SizeofSizeT - 2) PROVE f = e
    <3>1. PICK A : A = 2^(SizeofSizeT - 2)  OBVIOUS
    <3>2. A \in Nat
      <4>1. SizeofSizeT - 2 \in Nat  BY SizesAssumption
      <4> QED  BY <3>1, <4>1, PowerOfTwo
    <3>3. n \in Nat /\ e \in Nat /\ c <= e  BY <1>1, <1>2
    <3>4. c <= A  BY <1>1, <2>6, <3>1, <3>2, <3>3
    <3>5. d = c /\ 4 * set.size < 3 * d  BY <1>1, <2>2, <3>1, <3>4
    <3>6. CASE 4 * n < 3 * c
      <4>1. e = c  BY <1>1, <1>2, <3>3, <3>6
      <4> QED  BY <1>6, <2>5, <3>5, <3>6, <4>1
    <3>7. CASE 4 * n >= 3 * c
      <4>1. e = 2 * c  BY <1>2, <3>7
      <4>2. 2 * d <= 2^(SizeofSizeT - 2)  BY <2>6, <3>5, <4>1
      <4> QED  BY <1>6, <2>5, <3>5, <3>7, <4>1, <4>2
    <3> QED  BY <1>1, <3>3, <3>6, <3>7
  <2> QED  BY <1>3, <2>1, <2>4, <2>5, <2>6
<1>9. Matches(e, f)'  BY <1>8 DEF Matches
<1>10. exact' \in BOOLEAN  BY <1>4
<1>11. BothHave(e, f)'  BY <1>3, <1>6, <1>7, <1>9, <1>10 DEF BothHave
<1> QED  BY <1>11 DEF TablesInv

(* and after a removal.                                                     *)
LEMMA BothRemove ==
  ASSUME NEW c, NEW d, BothHave(c, d), NEW k \in Keys, RemoveBoth(k)
  PROVE  TablesInv'
<1>1. /\ TableHas(c) /\ d \in Nat \ {0} /\ SetIs(set, d) /\ exact \in BOOLEAN
      /\ TableKeys \subseteq In(set.buckets) /\ Matches(c, d)
      /\ set \in Records(d, Keys)
  BY DEF BothHave, SetIs
<1>2. /\ TableHas(c)' /\ TableKeys' = TableKeys \ {k}
      /\ table.size = (IF k \in TableKeys THEN table'.size + 1 ELSE table'.size)
  BY <1>1, TableRemove
<1>3. set' = RemoveFromHashSet(set, k) /\ exact' = exact  BY DEF RemoveBoth
<1>4. Removed(set, d, k, set')  BY <1>1, <1>3, RemoveEffect
<1>5. /\ SetIs(set', d)
      /\ set.size = (IF InSetBucket(set, k) THEN set'.size + 1 ELSE set'.size)
      /\ In(set.buckets) \ {k} \subseteq In(set'.buckets)
      /\ In(set'.buckets) \subseteq In(set.buckets)
      /\ Apart(set.buckets) => /\ Apart(set'.buckets)
                               /\ InSetBucket(set, k) => k \notin In(set'.buckets)
      /\ Placed(set) => Placed(set')
  BY <1>4 DEF Removed
<1>6. TableKeys' \subseteq In(set'.buckets)  BY <1>1, <1>2, <1>5
<1>7. ASSUME exact'
      PROVE  /\ In(set'.buckets) = TableKeys' /\ Apart(set'.buckets) /\ Placed(set')
             /\ set'.size = table'.size
             /\ c <= 2^(SizeofSizeT - 2) => d = c
  <2>1. /\ In(set.buckets) = TableKeys /\ Apart(set.buckets) /\ Placed(set)
        /\ set.size = table.size
        /\ c <= 2^(SizeofSizeT - 2) => d = c
    BY <1>1, <1>3, <1>7 DEF Matches
  <2>2. InSetBucket(set, k) <=> k \in In(set.buckets)  BY <1>1, <2>1, InSetBucketIs
  <2>3. k \notin In(set'.buckets)  BY <1>5, <2>1, <2>2
  <2>4. In(set'.buckets) = TableKeys'  BY <1>2, <1>5, <2>1, <2>3
  <2>5. set'.size = table'.size
    <3>1. set'.size \in Nat /\ table'.size \in Nat
      BY <1>2, <1>5 DEF SetIs, TableHas, TableIs, Records
    <3> QED  BY <1>2, <1>5, <2>1, <2>2, <3>1
  <2> QED  BY <1>5, <2>1, <2>4, <2>5
<1>8. Matches(c, d)'  BY <1>7 DEF Matches
<1>9. BothHave(c, d)'  BY <1>1, <1>2, <1>3, <1>5, <1>6, <1>8 DEF BothHave
<1> QED  BY <1>9 DEF TablesInv

----------------------------------------------------------------------------
(* The invariant, through every call.                                       *)
LEMMA TablesCalls ==
  /\ TablesInit => TablesInv
  /\ TablesInv /\ [TablesNext]_tablesVars => TablesInv'
<1>1. TablesInit => TablesInv  BY BothStart
<1>2. TablesInv /\ [TablesNext]_tablesVars => TablesInv'
  <2> SUFFICES ASSUME TablesInv, [TablesNext]_tablesVars PROVE TablesInv'
    OBVIOUS
  <2>1. PICK c, d : BothHave(c, d)  BY DEF TablesInv
  <2>2. ASSUME NEW k \in Keys, NEW v \in Values, PutBoth(k, v) PROVE TablesInv'
    BY <2>1, <2>2, BothPut
  <2>3. ASSUME NEW k \in Keys, RemoveBoth(k) PROVE TablesInv'
    BY <2>1, <2>3, BothRemove
  <2>4. ASSUME UNCHANGED tablesVars PROVE TablesInv'
    <3>1. set' = set /\ table' = table /\ exact' = exact  BY <2>4 DEF tablesVars
    <3>2. TableKeys' = TableKeys  BY <3>1, TableLists
    <3>3. TableHas(c)' <=> TableHas(c)  BY <3>1 DEF TableHas
    <3>4. BothHave(c, d)'  BY <2>1, <3>1, <3>2, <3>3 DEF BothHave, Matches
    <3> QED  BY <3>4 DEF TablesInv
  <2> QED  BY <2>2, <2>3, <2>4 DEF TablesNext
<1> QED  BY <1>1, <1>2

(* Whether the exact set finds a key is whether the table does.             *)
LEMMA BothFind ==
  ASSUME NEW c, NEW d, BothHave(c, d), exact, NEW k \in Keys
  PROVE  InSetBucket(set, k) <=> ContainsKey(table, k)
<1>1. TableHas(c) /\ d \in Nat \ {0} /\ set \in Records(d, Keys)
  BY DEF BothHave, SetIs
<1>2. In(set.buckets) = TableKeys /\ Placed(set)  BY DEF BothHave, Matches
<1>3. InSetBucket(set, k) <=> k \in TableKeys  BY <1>1, <1>2, InSetBucketIs
<1>4. ContainsKey(table, k) <=> k \in TableKeys  BY <1>1, TableLookup DEF TableFinds
<1> QED  BY <1>3, <1>4

(* The doublings of the set pass over elements and relink all of them: what *)
(* was added and not removed is in some list, and the size counts the cells *)
(* (hash_set.h:66-90, 137-139), from every initial capacity.                *)
THEOREM NothingLostCorrect == TablesSpec => []NothingLost
<1>1. (TablesInit => TablesInv) /\ (TablesInv /\ [TablesNext]_tablesVars => TablesInv')  BY TablesCalls
<1>2. TablesInv => NothingLost
  <2> SUFFICES ASSUME NEW c, NEW d, BothHave(c, d) PROVE NothingLost
    BY DEF TablesInv
  <2>1. SetElements(set) = In(set.buckets)  BY DEF SetElements, In
  <2> QED  BY <2>1 DEF BothHave, SetIs, NothingLost
<1> QED  BY <1>1, <1>2, PTL DEF TablesSpec

(* While no doubling has passed over an element that had to move, the set   *)
(* and the table agree, whatever the hash.                                  *)
THEOREM SetAgreesCorrect == TablesSpec => []SetAgrees
<1>1. (TablesInit => TablesInv) /\ (TablesInv /\ [TablesNext]_tablesVars => TablesInv')  BY TablesCalls
<1>2. TablesInv => SetAgrees
  <2> SUFFICES ASSUME NEW c, NEW d, BothHave(c, d), exact
               PROVE  /\ SetElements(set) = TableKeys
                      /\ set.size = table.size
                      /\ table.capacity <= 2^(SizeofSizeT - 2) => set.capacity = table.capacity
                      /\ \A k \in Keys : HashSetContains(set, k) = ContainsKey(table, k)
    BY DEF TablesInv, SetAgrees
  <2>1. SetElements(set) = In(set.buckets)  BY DEF SetElements, In
  <2>2. set.capacity = d /\ table.capacity = c
    BY DEF BothHave, SetIs, TableHas, TableIs, Records
  <2>3. ASSUME NEW k \in Keys PROVE HashSetContains(set, k) = ContainsKey(table, k)
    <3>1. InSetBucket(set, k) <=> ContainsKey(table, k)  BY BothFind
    <3>2. InSetBucket(set, k) \in BOOLEAN /\ ContainsKey(table, k) \in BOOLEAN
      BY DEF InSetBucket, ContainsKey
    <3> QED  BY <3>1, <3>2 DEF HashSetContains
  <2> QED  BY <2>1, <2>2, <2>3 DEF BothHave, Matches
<1> QED  BY <1>1, <1>2, PTL DEF TablesSpec

(* As long as it is exact, what add_to tells of an element is what the      *)
(* table says of it (hash_set.h:121), and remove_from's true is only for    *)
(* one that is not there (hash_set.h:129, 143).                             *)
THEOREM AnswersCorrect == TablesSpec => Answers
<1> DEFINE Tells == \A k \in Keys :
                      exact => /\ \A v \in Values : PutBoth(k, v) => (told' <=> ~ ContainsKey(table, k))
                               /\ RemoveBoth(k) => (told' => ~ ContainsKey(table, k))
<1>1. (TablesInit => TablesInv) /\ (TablesInv /\ [TablesNext]_tablesVars => TablesInv')  BY TablesCalls
<1>2. TablesInv => Tells
  <2> SUFFICES ASSUME NEW c, NEW d, BothHave(c, d), NEW k \in Keys, exact
               PROVE  /\ \A v \in Values : PutBoth(k, v) => (told' <=> ~ ContainsKey(table, k))
                      /\ RemoveBoth(k) => (told' => ~ ContainsKey(table, k))
    BY DEF TablesInv
  <2>1. InSetBucket(set, k) <=> ContainsKey(table, k)  BY BothFind
  <2>2. ASSUME NEW v \in Values, PutBoth(k, v) PROVE told' <=> ~ ContainsKey(table, k)
    <3>1. told' = ~ InSetBucket(set, k)  BY <2>2 DEF PutBoth, AddTells
    <3> QED  BY <2>1, <3>1
  <2>3. ASSUME RemoveBoth(k), told' PROVE ~ ContainsKey(table, k)
    <3>1. told' = (set.buckets[SetIndex(set, k)] # <<>> /\ ~ InSetBucket(set, k))
      BY <2>3 DEF RemoveBoth, RemoveTells
    <3> QED  BY <2>1, <2>3, <3>1
  <2> QED  BY <2>2, <2>3
<1>3. Answers <=> [][Tells]_tablesVars  BY DEF Answers
<1>4. TablesInv /\ [TablesNext]_tablesVars => [Tells]_tablesVars  BY <1>2
<1> HIDE DEF Tells
<1> QED  BY <1>1, <1>3, <1>4, PTL DEF TablesSpec
=============================================================================
