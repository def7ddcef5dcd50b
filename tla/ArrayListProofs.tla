-------------------------- MODULE ArrayListProofs --------------------------
(***************************************************************************)
(* The list of array_list.h is a sequence, for any elements, any capacity  *)
(* it starts with and any number of doublings.  What each call leaves in   *)
(* the cells comes first; the sequences are compared by their elements.    *)
(***************************************************************************)
EXTENDS ArrayList, DataLemmas, SequenceTheorems, TLAPS

Cell == Elements \union {Unset}

(* The invariant: a list has as many cells as its capacity says. *)
ListShape(L) ==
  \E s \in Nat, c \in Nat \ {0} : \E f \in [0 .. c - 1 -> Cell] :
    L = [size |-> s, capacity |-> c, elements |-> f]

ListInv == ListShape(list)

(* What a list of that shape is made of. *)
LEMMA ShapeParts ==
  ASSUME NEW L, ListShape(L)
  PROVE  /\ L.size \in Nat
         /\ L.capacity \in Nat \ {0}
         /\ L.elements \in [0 .. L.capacity - 1 -> Cell]
         /\ L = [size |-> L.size, capacity |-> L.capacity, elements |-> L.elements]
BY DEF ListShape

(* Inside its block a list is the sequence of its cells below the size.     *)
LEMMA ContentsOf ==
  ASSUME NEW L, ListShape(L), L.size <= L.capacity
  PROVE  /\ ListContents(L) \in Seq(Cell)
         /\ Len(ListContents(L)) = L.size
         /\ \A n \in 1 .. L.size : ListContents(L)[n] = L.elements[n - 1]
<1>1. L.size \in Nat /\ L.capacity \in Nat /\ L.elements \in [0 .. L.capacity - 1 -> Cell]
  BY ShapeParts
<1>2. ListContents(L) = [n \in 1 .. L.size |-> L.elements[n - 1]]
  BY DEF ListContents
<1>3. \A n \in 1 .. L.size : L.elements[n - 1] \in Cell
  BY <1>1
<1>4. ListContents(L) \in [1 .. L.size -> Cell]
  BY <1>2, <1>3
<1>5. ListContents(L) \in Seq(Cell)
  BY <1>1, <1>2, <1>3, IsASeq
<1>6. Len(ListContents(L)) = L.size
  BY <1>1, <1>4, <1>5, LenProperties
<1> QED  BY <1>2, <1>5, <1>6

(* The test for room and the realloc (array_list.h:37-40, 47-50): there is  *)
(* a cell at the size, and the cells there were keep what they hold.        *)
LEMMA RoomEffect ==
  ASSUME NEW L, ListShape(L), L.size <= L.capacity
  PROVE  /\ ListShape(WithRoom(L))
         /\ WithRoom(L).size = L.size
         /\ L.size < WithRoom(L).capacity
         /\ \A m \in 0 .. L.size - 1 : WithRoom(L).elements[m] = L.elements[m]
<1>1. PICK s \in Nat, c \in Nat \ {0} : \E f \in [0 .. c - 1 -> Cell] :
        L = [size |-> s, capacity |-> c, elements |-> f]
  BY DEF ListShape
<1>2. PICK f \in [0 .. c - 1 -> Cell] : L = [size |-> s, capacity |-> c, elements |-> f]
  BY <1>1
<1>3. CASE s < c
  BY <1>2, <1>3 DEF WithRoom
<1>4. CASE ~ (s < c)
  <2> DEFINE g == [m \in 0 .. 2 * c - 1 |-> IF m < c THEN f[m] ELSE Unset]
  <2>1. s = c  BY <1>2, <1>4
  <2>2. WithRoom(L) = [size |-> s, capacity |-> 2 * c, elements |-> g]
    BY <1>2, <1>4 DEF WithRoom
  <2>3. g \in [0 .. 2 * c - 1 -> Cell] /\ 2 * c \in Nat \ {0} /\ s < 2 * c
    BY <2>1 DEF Cell
  <2>4. \A m \in 0 .. s - 1 : g[m] = f[m]
    BY <2>1
  <2> HIDE DEF g
  <2>5. ListShape(WithRoom(L))
    BY <2>2, <2>3 DEF ListShape
  <2> QED  BY <1>2, <2>2, <2>3, <2>4, <2>5
<1> QED  BY <1>3, <1>4

(* add_at (array_list.h:45-57): the cells from the index on move up by one. *)
LEMMA AddAtEffect ==
  ASSUME NEW L, ListShape(L), L.size <= L.capacity,
         NEW e \in Elements, NEW index \in 0 .. L.size
  PROVE  LET M == AddToListAt(L, e, index)
         IN  /\ ListShape(M)
             /\ M.size = L.size + 1 /\ M.size <= M.capacity
             /\ \A m \in 0 .. L.size :
                  M.elements[m] = IF m < index THEN L.elements[m]
                                  ELSE IF m = index THEN e ELSE L.elements[m - 1]
<1> DEFINE R == WithRoom(L)
           n == L.size - index
           cells == Memmove(R.elements, index + 1, index, n)
           M == AddToListAt(L, e, index)
<1>1. /\ R.capacity \in Nat \ {0} /\ R.elements \in [0 .. R.capacity - 1 -> Cell]
      /\ R.size = L.size /\ L.size < R.capacity /\ L.size \in Nat
      /\ R = [size |-> R.size, capacity |-> R.capacity, elements |-> R.elements]
      /\ \A m \in 0 .. L.size - 1 : R.elements[m] = L.elements[m]
  BY RoomEffect, ShapeParts
<1> HIDE DEF R
<1>2. cells = [m \in 0 .. R.capacity - 1 |->
                 IF m \in index + 1 .. L.size THEN R.elements[m - 1] ELSE R.elements[m]]
  <2>1. (index + 1) + n - 1 = L.size  BY <1>1
  <2>2. DOMAIN R.elements = 0 .. R.capacity - 1  BY <1>1
  <2>3. \A m \in 0 .. R.capacity - 1 : m - (index + 1) + index = m - 1
    BY <1>1
  <2>4. cells = [m \in DOMAIN R.elements |->
                   IF m \in index + 1 .. (index + 1) + n - 1
                     THEN R.elements[m - (index + 1) + index] ELSE R.elements[m]]
    BY DEF Memmove
  <2> HIDE DEF cells
  <2> QED  BY <2>1, <2>2, <2>3, <2>4
<1>3. cells \in [0 .. R.capacity - 1 -> Cell]
  <2>1. ASSUME NEW m \in 0 .. R.capacity - 1
        PROVE  (IF m \in index + 1 .. L.size THEN R.elements[m - 1] ELSE R.elements[m]) \in Cell
    <3>1. CASE m \in index + 1 .. L.size
      <4>1. m - 1 \in 0 .. R.capacity - 1  BY <1>1, <3>1
      <4> QED  BY <1>1, <3>1, <4>1
    <3>2. CASE m \notin index + 1 .. L.size
      BY <1>1, <3>2
    <3> QED  BY <3>1, <3>2
  <2> HIDE DEF cells
  <2> QED  BY <1>2, <2>1
<1>4. M = [size |-> L.size + 1, capacity |-> R.capacity,
           elements |-> [cells EXCEPT ![index] = e]]
  <2>1. M = [R EXCEPT !.elements = [cells EXCEPT ![index] = e], !.size = @ + 1]
    BY DEF AddToListAt, R
  <2> HIDE DEF M, cells
  <2> QED  BY <1>1, <2>1
<1>5. [cells EXCEPT ![index] = e] \in [0 .. R.capacity - 1 -> Cell]
  <2> HIDE DEF cells
  <2> QED  BY <1>3 DEF Cell
<1>6. ASSUME NEW m \in 0 .. L.size
      PROVE  [cells EXCEPT ![index] = e][m]
               = IF m < index THEN L.elements[m]
                 ELSE IF m = index THEN e ELSE L.elements[m - 1]
  <2>1. m \in 0 .. R.capacity - 1 /\ index \in 0 .. R.capacity - 1  BY <1>1
  <2>2. CASE m = index
    <3> HIDE DEF cells
    <3> QED  BY <1>3, <2>1, <2>2
  <2>3. CASE m # index
    <3>1. [cells EXCEPT ![index] = e][m] = cells[m]
      <4> HIDE DEF cells
      <4> QED  BY <1>3, <2>1, <2>3
    <3>2. cells[m] = IF m \in index + 1 .. L.size THEN R.elements[m - 1] ELSE R.elements[m]
      BY <1>2, <2>1
    <3>3. CASE m < index
      <4>1. m \notin index + 1 .. L.size /\ R.elements[m] = L.elements[m]  BY <1>1, <3>3
      <4> QED  BY <3>1, <3>2, <3>3, <4>1
    <3>4. CASE m > index
      <4>1. m \in index + 1 .. L.size /\ m - 1 \in 0 .. L.size - 1 /\ ~ (m < index)
        BY <1>1, <3>4
      <4>2. R.elements[m - 1] = L.elements[m - 1]  BY <1>1, <4>1
      <4> QED  BY <2>3, <3>1, <3>2, <4>1, <4>2
    <3>5. m < index \/ m > index  BY <1>1, <2>3
    <3> QED  BY <3>3, <3>4, <3>5
  <2> QED  BY <2>2, <2>3
<1> HIDE DEF cells, M
<1>7. ListShape(M)
  <2>1. L.size + 1 \in Nat  BY <1>1
  <2> QED  BY <1>1, <1>4, <1>5, <2>1 DEF ListShape
<1>8. M.size = L.size + 1 /\ M.size <= M.capacity /\ M.elements = [cells EXCEPT ![index] = e]
  BY <1>1, <1>4
<1> QED  BY <1>6, <1>7, <1>8 DEF M

(* add (array_list.h:35-43): the cell at the size is written.               *)
LEMMA AddEffect ==
  ASSUME NEW L, ListShape(L), L.size <= L.capacity, NEW e \in Elements
  PROVE  LET M == AddToList(L, e)
         IN  /\ ListShape(M)
             /\ M.size = L.size + 1 /\ M.size <= M.capacity
             /\ \A m \in 0 .. L.size :
                  M.elements[m] = IF m < L.size THEN L.elements[m] ELSE e
<1> DEFINE R == WithRoom(L)
           M == AddToList(L, e)
           cells == [R.elements EXCEPT ![L.size] = e]
<1>1. /\ R.capacity \in Nat \ {0} /\ R.elements \in [0 .. R.capacity - 1 -> Cell]
      /\ R.size = L.size /\ L.size < R.capacity /\ L.size \in Nat
      /\ R = [size |-> R.size, capacity |-> R.capacity, elements |-> R.elements]
      /\ \A m \in 0 .. L.size - 1 : R.elements[m] = L.elements[m]
  BY RoomEffect, ShapeParts
<1>2. M = [R EXCEPT !.elements = [@ EXCEPT ![L.size] = e], !.size = @ + 1]
  BY DEF AddToList
<1> HIDE DEF R, M
<1>3. M = [size |-> L.size + 1, capacity |-> R.capacity, elements |-> cells]
  BY <1>1, <1>2
<1>4. cells \in [0 .. R.capacity - 1 -> Cell]
  BY <1>1 DEF Cell
<1>5. \A m \in 0 .. L.size : cells[m] = IF m < L.size THEN L.elements[m] ELSE e
  BY <1>1
<1> HIDE DEF cells
<1>6. ListShape(M)
  <2>1. L.size + 1 \in Nat  BY <1>1
  <2> QED  BY <1>1, <1>3, <1>4, <2>1 DEF ListShape
<1>7. M.size = L.size + 1 /\ M.size <= M.capacity /\ M.elements = cells
  BY <1>1, <1>3
<1> QED  BY <1>5, <1>6, <1>7 DEF M

(* pop (array_list.h:60-62) of a list that is not empty leaves the cells.   *)
LEMMA PopEffect ==
  ASSUME NEW L, ListShape(L)
  PROVE  LET M == PopFromList(L)
         IN  /\ ListShape(M)
             /\ M.capacity = L.capacity /\ M.elements = L.elements
             /\ L.size > 0 => M.size = L.size - 1
<1> DEFINE M == PopFromList(L)
<1>1. L.size \in Nat /\ L.capacity \in Nat \ {0} /\ L.elements \in [0 .. L.capacity - 1 -> Cell]
  BY ShapeParts
<1>2. L = [size |-> L.size, capacity |-> L.capacity, elements |-> L.elements]
  BY ShapeParts
<1>3. M = [size |-> IF L.size = 0 THEN SizeMax ELSE L.size - 1,
           capacity |-> L.capacity, elements |-> L.elements]
  BY <1>2 DEF PopFromList
<1>4. (IF L.size = 0 THEN SizeMax ELSE L.size - 1) \in Nat
  BY <1>1, ListAssumption
<1> HIDE DEF M
<1>5. ListShape(M)
  BY <1>1, <1>3, <1>4 DEF ListShape
<1>6. M.capacity = L.capacity /\ M.elements = L.elements /\ (L.size > 0 => M.size = L.size - 1)
  BY <1>1, <1>3
<1> QED  BY <1>5, <1>6 DEF M

(* delete (array_list.h:64-71): the cells behind the index move down by one.*)
LEMMA DeleteEffect ==
  ASSUME NEW L, ListShape(L), L.size <= L.capacity, NEW index \in 0 .. L.size - 1
  PROVE  LET M == DeleteFromList(L, index)
         IN  /\ ListShape(M)
             /\ M.size = L.size - 1 /\ M.capacity = L.capacity
             /\ \A m \in 0 .. L.size - 2 :
                  M.elements[m] = IF m < index THEN L.elements[m] ELSE L.elements[m + 1]
<1> DEFINE M == DeleteFromList(L, index)
           n == L.size - (index + 1)
           cells == Memmove(L.elements, index, index + 1, n)
<1>1. L.size \in Nat /\ L.capacity \in Nat \ {0} /\ L.elements \in [0 .. L.capacity - 1 -> Cell]
  BY ShapeParts
<1>2. L = [size |-> L.size, capacity |-> L.capacity, elements |-> L.elements]
  BY ShapeParts
<1>3. cells = [m \in 0 .. L.capacity - 1 |->
                 IF m \in index .. L.size - 2 THEN L.elements[m + 1] ELSE L.elements[m]]
  <2>1. index + n - 1 = L.size - 2
    <3>1. index \in Int /\ L.size \in Int  BY <1>1
    <3> QED  BY <3>1
  <2>2. DOMAIN L.elements = 0 .. L.capacity - 1  BY <1>1
  <2>3. \A m \in 0 .. L.capacity - 1 : m - index + (index + 1) = m + 1
    BY <1>1
  <2> QED  BY <2>1, <2>2, <2>3 DEF Memmove
<1>4. cells \in [0 .. L.capacity - 1 -> Cell]
  <2>1. ASSUME NEW m \in 0 .. L.capacity - 1
        PROVE  (IF m \in index .. L.size - 2 THEN L.elements[m + 1] ELSE L.elements[m]) \in Cell
    <3>1. CASE m \in index .. L.size - 2
      <4>1. m + 1 \in 0 .. L.capacity - 1  BY <1>1, <3>1
      <4> QED  BY <1>1, <3>1, <4>1
    <3>2. CASE m \notin index .. L.size - 2
      BY <1>1, <3>2
    <3> QED  BY <3>1, <3>2
  <2> HIDE DEF cells
  <2> QED  BY <1>3, <2>1
<1>5. \A m \in 0 .. L.size - 2 :
        cells[m] = IF m < index THEN L.elements[m] ELSE L.elements[m + 1]
  <2>1. ASSUME NEW m \in 0 .. L.size - 2
        PROVE  m \in 0 .. L.capacity - 1 /\ (m \in index .. L.size - 2 <=> ~ (m < index))
    BY <1>1
  <2> HIDE DEF cells
  <2> QED  BY <1>3, <2>1
<1>6. M = [L EXCEPT !.elements = cells, !.size = @ - 1]
  BY <1>1 DEF DeleteFromList
<1> HIDE DEF cells, M
<1>7. M = [size |-> L.size - 1, capacity |-> L.capacity, elements |-> cells]
  BY <1>2, <1>6
<1>8. ListShape(M)
  <2>1. L.size - 1 \in Nat  BY <1>1
  <2> QED  BY <1>1, <1>4, <1>7, <2>1 DEF ListShape
<1>9. M.size = L.size - 1 /\ M.capacity = L.capacity /\ M.elements = cells
  BY <1>7
<1> QED  BY <1>5, <1>8, <1>9 DEF M


----------------------------------------------------------------------------
(* add makes the sequence longer by its element. *)
LEMMA AddSequence ==
  ASSUME NEW L, ListShape(L), L.size <= L.capacity, NEW e \in Elements
  PROVE  ListContents(AddToList(L, e)) = Append(ListContents(L), e)
<1> DEFINE M == AddToList(L, e)
           s == ListContents(L)
           t == ListContents(M)
           u == Append(s, e)
<1>1. s \in Seq(Cell) /\ Len(s) = L.size /\ \A n \in 1 .. L.size : s[n] = L.elements[n - 1]
  BY ContentsOf
<1>2. /\ ListShape(M) /\ M.size = L.size + 1 /\ M.size <= M.capacity
      /\ \A m \in 0 .. L.size : M.elements[m] = IF m < L.size THEN L.elements[m] ELSE e
  BY AddEffect
<1> HIDE DEF M, s
<1>3. t \in Seq(Cell) /\ Len(t) = M.size /\ \A n \in 1 .. M.size : t[n] = M.elements[n - 1]
  BY <1>2, ContentsOf
<1>4. /\ u \in Seq(Cell) /\ Len(u) = Len(s) + 1
      /\ \A n \in 1 .. Len(s) : u[n] = s[n]
      /\ u[Len(s) + 1] = e
  BY <1>1, AppendProperties DEF Cell
<1> HIDE DEF t, u
<1>5. ASSUME NEW n \in 1 .. Len(t) PROVE t[n] = u[n]
  <2>1. n - 1 \in 0 .. L.size /\ L.size \in Nat  BY <1>1, <1>2, <1>3, ShapeParts
  <2>2. t[n] = IF n - 1 < L.size THEN L.elements[n - 1] ELSE e
    BY <1>2, <1>3, <2>1
  <2>3. CASE n \in 1 .. L.size
    BY <1>1, <1>4, <2>1, <2>2, <2>3
  <2>4. CASE n = L.size + 1
    <3>1. ~ (n - 1 < L.size)  BY <2>1, <2>4
    <3> QED  BY <1>1, <1>4, <2>2, <2>4, <3>1
  <2> QED  BY <2>1, <2>3, <2>4
<1>6. Len(t) = Len(u)  BY <1>1, <1>2, <1>3, <1>4
<1>7. t = u  BY <1>3, <1>4, <1>5, <1>6, SeqEqual
<1> QED  BY <1>7 DEF t, u, M, s

(* add_at puts it before the element that was at the index. *)
LEMMA AddAtSequence ==
  ASSUME NEW L, ListShape(L), L.size <= L.capacity,
         NEW e \in Elements, NEW index \in 0 .. L.size
  PROVE  ListContents(AddToListAt(L, e, index)) = InsertAt(ListContents(L), index + 1, e)
<1> DEFINE M == AddToListAt(L, e, index)
           s == ListContents(L)
           t == ListContents(M)
           u == InsertAt(s, index + 1, e)
<1>1. s \in Seq(Cell) /\ Len(s) = L.size /\ \A n \in 1 .. L.size : s[n] = L.elements[n - 1]
  BY ContentsOf
<1>2. /\ ListShape(M) /\ M.size = L.size + 1 /\ M.size <= M.capacity
      /\ \A m \in 0 .. L.size :
           M.elements[m] = IF m < index THEN L.elements[m]
                           ELSE IF m = index THEN e ELSE L.elements[m - 1]
  BY AddAtEffect
<1> HIDE DEF M, s
<1>3. t \in Seq(Cell) /\ Len(t) = M.size /\ \A n \in 1 .. M.size : t[n] = M.elements[n - 1]
  BY <1>2, ContentsOf
<1>4. L.size \in Nat /\ index + 1 \in 1 .. Len(s) + 1  BY <1>1, ShapeParts
<1>5. /\ u \in Seq(Cell) /\ Len(u) = Len(s) + 1
      /\ \A n \in 1 .. Len(s) + 1 :
           u[n] = IF n < index + 1 THEN s[n] ELSE IF n = index + 1 THEN e ELSE s[n - 1]
  BY <1>1, <1>4, InsertAtProperties DEF Cell
<1> HIDE DEF t, u
<1>6. ASSUME NEW n \in 1 .. Len(t) PROVE t[n] = u[n]
  <2>1. n - 1 \in 0 .. L.size /\ n \in 1 .. Len(s) + 1  BY <1>1, <1>2, <1>3
  <2>2. t[n] = IF n - 1 < index THEN L.elements[n - 1]
               ELSE IF n - 1 = index THEN e ELSE L.elements[(n - 1) - 1]
    BY <1>2, <1>3, <2>1
  <2>3. CASE n < index + 1
    <3>1. n - 1 < index /\ n \in 1 .. L.size  BY <1>4, <2>1, <2>3
    <3>2. t[n] = L.elements[n - 1]  BY <2>2, <3>1
    <3>3. u[n] = s[n]  BY <1>5, <2>1, <2>3
    <3> QED  BY <1>1, <3>1, <3>2, <3>3
  <2>4. CASE n = index + 1
    BY <1>5, <2>1, <2>2, <2>4
  <2>5. CASE n > index + 1
    <3>1. n - 1 \in 1 .. L.size  BY <1>4, <2>1, <2>5
    <3>2. ~ (n - 1 < index) /\ n - 1 # index /\ ~ (n < index + 1) /\ n # index + 1
      BY <1>4, <2>1, <2>5
    <3>3. t[n] = L.elements[(n - 1) - 1]  BY <2>2, <3>2
    <3>4. u[n] = s[n - 1]  BY <1>5, <2>1, <3>2
    <3> QED  BY <1>1, <3>1, <3>3, <3>4
  <2> QED  BY <2>3, <2>4, <2>5
<1>7. Len(t) = Len(u)  BY <1>1, <1>2, <1>3, <1>5
<1>8. t = u  BY <1>3, <1>5, <1>6, <1>7, SeqEqual
<1> QED  BY <1>8 DEF t, u, M, s

(* pop takes the last element. *)
LEMMA PopSequence ==
  ASSUME NEW L, ListShape(L), L.size <= L.capacity, L.size > 0
  PROVE  ListContents(PopFromList(L)) = Front(ListContents(L))
<1> DEFINE M == PopFromList(L)
           s == ListContents(L)
           t == ListContents(M)
           u == Front(s)
<1>1. s \in Seq(Cell) /\ Len(s) = L.size /\ \A n \in 1 .. L.size : s[n] = L.elements[n - 1]
  BY ContentsOf
<1>2. /\ ListShape(M) /\ M.capacity = L.capacity /\ M.elements = L.elements
      /\ M.size = L.size - 1
  BY PopEffect
<1>3. L.size \in Nat /\ L.capacity \in Nat  BY ShapeParts
<1> HIDE DEF M, s
<1>4. t \in Seq(Cell) /\ Len(t) = M.size /\ \A n \in 1 .. M.size : t[n] = M.elements[n - 1]
  BY <1>2, <1>3, ContentsOf
<1>5. u = SubSeq(s, 1, Len(s) - 1)  BY DEF Front
<1>6. /\ u \in Seq(Cell) /\ Len(u) = Len(s) - 1
      /\ \A n \in 1 .. Len(s) - 1 : u[n] = s[n]
  <2> HIDE DEF u
  <2> QED  BY <1>1, <1>3, <1>5, SubSeqProperties
<1> HIDE DEF t, u
<1>7. \A n \in 1 .. Len(t) : t[n] = u[n]
  BY <1>1, <1>2, <1>3, <1>4, <1>6
<1>8. Len(t) = Len(u)  BY <1>1, <1>2, <1>4, <1>6
<1>9. t = u  BY <1>4, <1>6, <1>7, <1>8, SeqEqual
<1> QED  BY <1>9 DEF t, u, M, s

(* delete takes the one at the index. *)
LEMMA DeleteSequence ==
  ASSUME NEW L, ListShape(L), L.size <= L.capacity, NEW index \in 0 .. L.size - 1
  PROVE  ListContents(DeleteFromList(L, index)) = RemoveAt(ListContents(L), index + 1)
<1> DEFINE M == DeleteFromList(L, index)
           s == ListContents(L)
           t == ListContents(M)
           u == RemoveAt(s, index + 1)
<1>1. s \in Seq(Cell) /\ Len(s) = L.size /\ \A n \in 1 .. L.size : s[n] = L.elements[n - 1]
  BY ContentsOf
<1>2. /\ ListShape(M) /\ M.size = L.size - 1 /\ M.capacity = L.capacity
      /\ \A m \in 0 .. L.size - 2 :
           M.elements[m] = IF m < index THEN L.elements[m] ELSE L.elements[m + 1]
  BY DeleteEffect
<1>3. L.size \in Nat /\ L.capacity \in Nat  BY ShapeParts
<1> HIDE DEF M, s
<1>4. t \in Seq(Cell) /\ Len(t) = M.size /\ \A n \in 1 .. M.size : t[n] = M.elements[n - 1]
  BY <1>2, <1>3, ContentsOf
<1>5. index + 1 \in 1 .. Len(s)  BY <1>1, <1>3
<1>6. /\ u \in Seq(Cell) /\ Len(u) = Len(s) - 1
      /\ \A n \in 1 .. Len(s) - 1 : u[n] = IF n < index + 1 THEN s[n] ELSE s[n + 1]
  BY <1>1, <1>5, RemoveAtProperties
<1> HIDE DEF t, u
<1>7. ASSUME NEW n \in 1 .. Len(t) PROVE t[n] = u[n]
  <2>1. n - 1 \in 0 .. L.size - 2 /\ n \in 1 .. Len(s) - 1 /\ n + 1 \in 1 .. L.size
    BY <1>1, <1>2, <1>3, <1>4
  <2>2. t[n] = IF n - 1 < index THEN L.elements[n - 1] ELSE L.elements[(n - 1) + 1]
    BY <1>2, <1>4, <2>1
  <2>3. u[n] = IF n < index + 1 THEN s[n] ELSE s[n + 1]
    BY <1>6, <2>1
  <2>4. s[n + 1] = L.elements[(n + 1) - 1]
    BY <1>1, <2>1
  <2>5. n \in 1 .. L.size /\ n \in Int /\ index \in Int  BY <1>1, <1>3, <2>1
  <2>6. s[n] = L.elements[n - 1]
    BY <1>1, <2>5
  <2>7. (n - 1) + 1 = (n + 1) - 1 /\ (n - 1 < index <=> n < index + 1)  BY <2>5
  <2> QED  BY <2>2, <2>3, <2>4, <2>6, <2>7
<1>8. Len(t) = Len(u)  BY <1>1, <1>2, <1>4, <1>6
<1>9. t = u  BY <1>4, <1>6, <1>7, <1>8, SeqEqual
<1> QED  BY <1>9 DEF t, u, M, s

----------------------------------------------------------------------------
(* A new list (array_list.h:24-28) has the shape.                           *)
LEMMA ListInitInv == ListInit => ListInv
<1> SUFFICES ASSUME ListInit PROVE ListInv
  OBVIOUS
<1>1. ListCapacity \in Nat \ {0} /\ 0 \in Nat
  BY ListAssumption
<1>2. Block(ListCapacity) \in [0 .. ListCapacity - 1 -> Cell]
  BY DEF Block, Cell
<1> QED  BY <1>1, <1>2 DEF ListInit, ListInv, ListShape

(* The calls keep the shape: no memmove leaves the block or changes its     *)
(* length (array_list.h:53-54, 68-69).                                      *)
LEMMA ListNextInv ==
  ASSUME ListInv, ListNext
  PROVE  ListInv'
<1>1. ListShape(list) /\ list.size <= list.capacity /\ list.size \in Nat
  BY ShapeParts DEF ListInv, ListNext, Inside
<1>2. ASSUME NEW e \in Elements, list' = AddToList(list, e) PROVE ListInv'
  BY <1>1, <1>2, AddEffect DEF ListInv
<1>3. ASSUME NEW e \in Elements, NEW index \in 0 .. list.size, list' = AddToListAt(list, e, index)
      PROVE  ListInv'
  BY <1>1, <1>3, AddAtEffect DEF ListInv
<1>4. CASE list' = PopFromList(list)
  BY <1>1, <1>4, PopEffect DEF ListInv
<1>5. ASSUME NEW index \in 0 .. list.size, list' = DeleteFromList(list, index) PROVE ListInv'
  <2>1. CASE index = list.size
    <3>1. DeleteFromList(list, index) = list  BY <1>1, <2>1 DEF DeleteFromList
    <3> QED  BY <1>1, <1>5, <3>1 DEF ListInv
  <2>2. CASE index # list.size
    <3>1. index \in 0 .. list.size - 1  BY <1>1, <2>2
    <3> QED  BY <1>1, <1>5, <3>1, DeleteEffect DEF ListInv
  <2> QED  BY <2>1, <2>2
<1> QED  BY <1>2, <1>3, <1>4, <1>5 DEF ListNext

(* Through every doubling and every memmove the list of array_list.h is the *)
(* sequence its calls make.                                                 *)
THEOREM ListCorrect == ListSpec => ListIsSequence
<1> DEFINE A ==
     /\ \A e \in Elements :
          list' = AddToList(list, e) => ListContents(list') = Append(ListContents(list), e)
     /\ \A e \in Elements, n \in 0 .. list.size :
          list' = AddToListAt(list, e, n) =>
            ListContents(list') = InsertAt(ListContents(list), n + 1, e)
     /\ list' = PopFromList(list) /\ list.size > 0 =>
          ListContents(list') = Front(ListContents(list))
     /\ \A n \in 0 .. list.size - 1 :
          list' = DeleteFromList(list, n) =>
            ListContents(list') = RemoveAt(ListContents(list), n + 1)
<1>1. ListInit => ListInv
  BY ListInitInv
<1>2. ListInv /\ [ListNext]_list => ListInv'
  BY ListNextInv DEF ListInv
<1>3. ListInv /\ [ListNext]_list => [A]_list
  <2> SUFFICES ASSUME ListInv, ListNext PROVE A
    OBVIOUS
  <2>1. ListShape(list) /\ list.size <= list.capacity
    BY DEF ListInv, ListNext, Inside
  <2> QED  BY <2>1, AddSequence, AddAtSequence, PopSequence, DeleteSequence
<1>4. ListIsSequence <=> [][A]_list
  BY DEF ListIsSequence
<1> HIDE DEF A
<1> QED  BY <1>1, <1>2, <1>3, <1>4, PTL DEF ListSpec
=============================================================================
