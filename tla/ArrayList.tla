----------------------------- MODULE ArrayList ------------------------------
(***************************************************************************)
(* array_list.h: a list in a block of memory that doubles.  Cell n of the  *)
(* block is elements[n], n from 0, and Unset until it is written; what is  *)
(* behind the size keeps what it held.                                     *)
(***************************************************************************)
EXTENDS Naturals, Sequences, SequencesExt

CONSTANTS
  Elements,       \* the elements
  Unset,          \* what a cell holds that was never written
  ListCapacity,   \* 16 in the source
  SizeMax,        \* the greatest size_t
  MaxListSize     \* a bound of the model: adds stop there

ASSUME ListAssumption == ListCapacity \in Nat \ {0} /\ SizeMax \in Nat

VARIABLE list

Block(n) == [m \in 0 .. n - 1 |-> Unset]

ListInit == list = [size |-> 0, capacity |-> ListCapacity, elements |-> Block(ListCapacity)]

(* The test before an element is added. *)
WithRoom(L) ==
  IF L.size < L.capacity THEN L
  ELSE [L EXCEPT !.capacity = 2 * @,
                 !.elements = [m \in 0 .. 2 * L.capacity - 1 |->
                                 IF m < L.capacity THEN @[m] ELSE Unset]]

(* memmove of n cells: the cells read are those before the move. *)
Memmove(cells, destination, source, n) ==
  [m \in DOMAIN cells |-> IF m \in destination .. destination + n - 1
                          THEN cells[m - destination + source] ELSE cells[m]]

(* Mutant: the cells are copied one by one, each over the next. *)
AddToListAtMutant(L, e, index) ==
  LET M == WithRoom(L)
  IN [M EXCEPT
        !.elements = [m \in DOMAIN @ |->
                        IF m = index THEN e
                        ELSE IF m \in index + 1 .. L.size THEN M.elements[index]
                        ELSE M.elements[m]],
        !.size = @ + 1]

(* add_..._at does not look at its index (array_list.h:45-57): 0 .. size is *)
(* what a caller has to keep to, and behind the size the length of the move *)
(* would wrap around.  Nothing in the repository calls it.                  *)
AddToListAt(L, e, index) ==
  [WithRoom(L) EXCEPT
     !.elements = [Memmove(@, index + 1, index, L.size - index) EXCEPT ![index] = e],
     !.size = @ + 1]

AddToList(L, e) == [WithRoom(L) EXCEPT !.elements = [@ EXCEPT ![L.size] = e], !.size = @ + 1]

(* size-1 is computed in size_t, and is never less than 0. *)
PopFromList(L) == [L EXCEPT !.size = IF @ = 0 THEN SizeMax ELSE @ - 1]

DeleteFromList(L, index) ==
  IF index >= L.size THEN L
  ELSE [L EXCEPT !.elements = Memmove(@, index, index + 1, L.size - (index + 1)),
                 !.size = @ - 1]

(* Once the size has wrapped the next add writes outside the block. *)
Inside == list.size <= list.capacity

ListNext ==
  /\ Inside
  /\ \/ \E e \in Elements : list.size < MaxListSize /\ list' = AddToList(list, e)
     \/ \E e \in Elements, index \in 0 .. list.size :
          list.size < MaxListSize /\ list' = AddToListAt(list, e, index)
     \/ list' = PopFromList(list)
     \/ \E index \in 0 .. list.size : list' = DeleteFromList(list, index)

ListSpec == ListInit /\ [][ListNext]_list

----------------------------------------------------------------------------
ListContents(L) == [n \in 1 .. L.size |-> L.elements[n - 1]]

(* Through every doubling and every move of its cells the list is the       *)
(* sequence its calls say: an element put anywhere keeps the others in      *)
(* order, and no cell behind the size, or of the old block, comes back.     *)
(* Only the pop of an empty list is no pop (array_list.h:61).               *)
ListIsSequence ==
  [][/\ \A e \in Elements :
          list' = AddToList(list, e) => ListContents(list') = Append(ListContents(list), e)
     /\ \A e \in Elements, n \in 0 .. list.size :
          list' = AddToListAt(list, e, n) =>
            ListContents(list') = InsertAt(ListContents(list), n + 1, e)
     /\ list' = PopFromList(list) /\ list.size > 0 =>
          ListContents(list') = Front(ListContents(list))
     /\ \A n \in 0 .. list.size - 1 :
          list' = DeleteFromList(list, n) =>
            ListContents(list') = RemoveAt(ListContents(list), n + 1)]_list
=============================================================================
