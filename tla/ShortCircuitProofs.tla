------------------------- MODULE ShortCircuitProofs -------------------------
(***************************************************************************)
(* The chain of tests and jumps of a condition, for every condition        *)
(* whatever its size and shape: the operands are chained in the order of   *)
(* the source, every jump goes forward to an operand whose block the       *)
(* recursion has already made, the last operand falls through to the false *)
(* block, and running the chain evaluates the condition as C does.         *)
(***************************************************************************)
EXTENDS ShortCircuit, DataLemmas

Paths == Seq({"l", "r"})

(* The operand p is written before the operand q: where their paths part, p *)
(* goes left.                                                               *)
PartsLeft(p, q, n) ==
  /\ n \in 1 .. Len(p) /\ n \in 1 .. Len(q)
  /\ p[n] = "l" /\ q[n] = "r"
  /\ \A m \in 1 .. n - 1 : p[m] = q[m]

LeftOf(p, q) == \E n \in Nat : PartsLeft(p, q, n)

(* Paths as sequences: their elements. *)
LEMMA PathElements ==
  ASSUME NEW p \in Paths
  PROVE  Len(p) \in Nat /\ \A n \in 1 .. Len(p) : p[n] = "l" \/ p[n] = "r"
BY ElementOfSeq, LenProperties DEF Paths

(* The path of an ancestor. *)
LEMMA UpTo ==
  ASSUME NEW p \in Paths, NEW n \in 0 .. Len(p)
  PROVE  /\ SubSeq(p, 1, n) \in Paths
         /\ Len(SubSeq(p, 1, n)) = n
         /\ \A m \in 1 .. n : SubSeq(p, 1, n)[m] = p[m]
<1>1. \A m \in 1 .. n : p[m] \in {"l", "r"}
  BY PathElements
<1>2. n \in Int /\ 1 \in Int  BY PathElements
<1> QED  BY <1>1, <1>2, SubSeqProperties, PathElements DEF Paths

(* The path of a child. *)
LEMMA Down ==
  ASSUME NEW p \in Paths, NEW side \in {"l", "r"}
  PROVE  /\ Append(p, side) \in Paths
         /\ Len(Append(p, side)) = Len(p) + 1
         /\ \A m \in 1 .. Len(p) : Append(p, side)[m] = p[m]
         /\ Append(p, side)[Len(p) + 1] = side
BY AppendProperties DEF Paths

(* The order of the source as the property states it. *)
LEMMA LeftOfBefore ==
  ASSUME NEW p \in Paths, NEW q \in Paths, LeftOf(p, q)
  PROVE  Before(p, q)
<1>1. PICK n \in Nat : PartsLeft(p, q, n)  BY DEF LeftOf
<1>2. /\ n \in 1 .. Len(p) /\ n \in 1 .. Len(q) /\ p[n] = "l" /\ q[n] = "r"
      /\ \A m \in 1 .. n - 1 : p[m] = q[m]
  BY <1>1 DEF PartsLeft
<1>3. n - 1 \in 0 .. Len(p) /\ n - 1 \in 0 .. Len(q)  BY <1>2, PathElements
<1> DEFINE a == SubSeq(p, 1, n - 1)
           b == SubSeq(q, 1, n - 1)
<1>4. /\ a \in Paths /\ b \in Paths /\ Len(a) = n - 1 /\ Len(b) = n - 1
      /\ \A m \in 1 .. n - 1 : a[m] = p[m] /\ b[m] = q[m]
  BY <1>3, UpTo
<1> HIDE DEF a, b
<1>5. a = b  BY <1>2, <1>4, SeqEqual DEF Paths
<1> QED  BY <1>2, <1>5 DEF Before, a, b

(* It is transitive. *)
LEMMA LeftOfTransitive ==
  ASSUME NEW p \in Paths, NEW q \in Paths, NEW s \in Paths, LeftOf(p, q), LeftOf(q, s)
  PROVE  LeftOf(p, s)
<1>1. PICK n \in Nat : PartsLeft(p, q, n)  BY DEF LeftOf
<1>2. PICK m \in Nat : PartsLeft(q, s, m)  BY DEF LeftOf
<1>3. n # m  BY <1>1, <1>2 DEF PartsLeft
<1>4. Len(p) \in Nat /\ Len(q) \in Nat /\ Len(s) \in Nat  BY PathElements
<1>5. /\ n \in 1 .. Len(p) /\ n \in 1 .. Len(q) /\ p[n] = "l" /\ q[n] = "r"
      /\ \A j \in 1 .. n - 1 : p[j] = q[j]
  BY <1>1 DEF PartsLeft
<1>6. /\ m \in 1 .. Len(q) /\ m \in 1 .. Len(s) /\ q[m] = "l" /\ s[m] = "r"
      /\ \A j \in 1 .. m - 1 : q[j] = s[j]
  BY <1>2 DEF PartsLeft
<1>7. CASE n < m
  <2>1. n \in 1 .. m - 1 /\ n \in 1 .. Len(s) /\ \A j \in 1 .. n - 1 : j \in 1 .. m - 1
    <3>1. n \in Nat /\ m \in Nat /\ n >= 1 /\ m <= Len(s)  BY <1>4, <1>5, <1>6
    <3> QED  BY ONLY <3>1, <1>4, <1>7
  <2>2. s[n] = "r"  BY ONLY <1>5, <1>6, <2>1
  <2>3. \A j \in 1 .. n - 1 : p[j] = s[j]  BY ONLY <1>5, <1>6, <2>1
  <2>4. PartsLeft(p, s, n)  BY <1>5, <2>1, <2>2, <2>3 DEF PartsLeft
  <2> QED  BY <2>4 DEF LeftOf
<1>8. CASE m < n
  <2>1. m \in 1 .. n - 1 /\ m \in 1 .. Len(p) /\ \A j \in 1 .. m - 1 : j \in 1 .. n - 1
    <3>1. n \in Nat /\ m \in Nat /\ m >= 1 /\ n <= Len(p)  BY <1>4, <1>5, <1>6
    <3> QED  BY ONLY <3>1, <1>4, <1>8
  <2>2. p[m] = "l"  BY ONLY <1>5, <1>6, <2>1
  <2>3. \A j \in 1 .. m - 1 : p[j] = s[j]  BY ONLY <1>5, <1>6, <2>1
  <2>4. PartsLeft(p, s, m)  BY <1>6, <2>1, <2>2, <2>3 DEF PartsLeft
  <2> QED  BY <2>4 DEF LeftOf
<1> QED  BY <1>3, <1>7, <1>8

(* No operand is written before itself. *)
LEMMA LeftOfIrreflexive ==
  ASSUME NEW p, LeftOf(p, p)
  PROVE  FALSE
BY DEF LeftOf, PartsLeft

----------------------------------------------------------------------------
(* The nodes of a tree are paths, and its leaves nodes. *)
LEMMA TreeNodes ==
  ASSUME NEW t, IsTree(t)
  PROVE  /\ <<>> \in DOMAIN t /\ DOMAIN t \subseteq Paths /\ LeavesOf(t) \subseteq DOMAIN t
         /\ \A p \in DOMAIN t : t[p] = "and" \/ t[p] = "or" \/ t[p] = "leaf"
<1>1. <<>> \in DOMAIN t /\ DOMAIN t \subseteq Paths /\ t \in [DOMAIN t -> {"and", "or", "leaf"}]
  BY DEF IsTree, Paths
<1> QED  BY <1>1 DEF LeavesOf

(* What is above a node is no operand. *)
LEMMA Ancestors ==
  ASSUME NEW t, IsTree(t), NEW p \in DOMAIN t, NEW n \in 0 .. Len(p) - 1
  PROVE  SubSeq(p, 1, n) \in DOMAIN t /\ t[SubSeq(p, 1, n)] # "leaf"
<1>1. \A q \in DOMAIN t :
        /\ t[q] # "leaf" => {Append(q, "l"), Append(q, "r")} \subseteq DOMAIN t
        /\ \A m \in 0 .. Len(q) - 1 : /\ SubSeq(q, 1, m) \in DOMAIN t
                                      /\ t[SubSeq(q, 1, m)] # "leaf"
  BY DEF IsTree
<1> QED  BY <1>1

(* A node that is no operand has both its children. *)
LEMMA Children ==
  ASSUME NEW t, IsTree(t), NEW p \in DOMAIN t, t[p] # "leaf"
  PROVE  Append(p, "l") \in DOMAIN t /\ Append(p, "r") \in DOMAIN t
<1>1. \A q \in DOMAIN t :
        /\ t[q] # "leaf" => {Append(q, "l"), Append(q, "r")} \subseteq DOMAIN t
        /\ \A m \in 0 .. Len(q) - 1 : /\ SubSeq(q, 1, m) \in DOMAIN t
                                      /\ t[SubSeq(q, 1, m)] # "leaf"
  BY DEF IsTree
<1> QED  BY <1>1

(* A leaf is above no node. *)
LEMMA LeafIsLowest ==
  ASSUME NEW t, IsTree(t), NEW p \in LeavesOf(t), NEW q \in DOMAIN t,
         Len(p) < Len(q), \A m \in 1 .. Len(p) : p[m] = q[m]
  PROVE  FALSE
<1>1. p \in Paths /\ q \in Paths /\ t[p] = "leaf"  BY TreeNodes DEF LeavesOf
<1>2. Len(p) \in 0 .. Len(q) - 1 /\ Len(p) \in 0 .. Len(q)  BY <1>1, PathElements
<1> DEFINE a == SubSeq(q, 1, Len(p))
<1>3. a \in Paths /\ Len(a) = Len(p) /\ \A m \in 1 .. Len(p) : a[m] = q[m]
  BY <1>1, <1>2, UpTo
<1>4. t[a] # "leaf"  BY <1>2, Ancestors
<1> HIDE DEF a
<1>5. a = p  BY <1>1, <1>3, SeqEqual DEF Paths
<1> QED  BY <1>1, <1>4, <1>5

(* Two leaves part somewhere, so one is written before the other. *)
LEMMA LeavesPart ==
  ASSUME NEW t, IsTree(t), NEW p \in LeavesOf(t), NEW q \in LeavesOf(t), p # q
  PROVE  \E n \in Nat : /\ n \in 1 .. Len(p) /\ n \in 1 .. Len(q) /\ p[n] # q[n]
                        /\ \A m \in 1 .. n - 1 : p[m] = q[m]
<1>1. p \in Paths /\ q \in Paths /\ p \in DOMAIN t /\ q \in DOMAIN t  BY TreeNodes
<1>2. Len(p) \in Nat /\ Len(q) \in Nat  BY <1>1, PathElements
<1> DEFINE T == {n \in 1 .. Len(p) : n > Len(q) \/ p[n] # q[n]}
<1>3. T # {}
  <2> SUFFICES ASSUME T = {} PROVE FALSE
    OBVIOUS
  <2>1. \A n \in 1 .. Len(p) : n <= Len(q) /\ p[n] = q[n]  BY <1>2
  <2>2. Len(p) <= Len(q)  BY <1>2, <2>1
  <2>3. CASE Len(p) = Len(q)  BY <1>1, <2>1, <2>3, SeqEqual DEF Paths
  <2>4. CASE Len(p) < Len(q)  BY <1>1, <2>1, <2>4, LeafIsLowest
  <2> QED  BY <1>2, <2>2, <2>3, <2>4
<1>4. T \subseteq Nat  BY <1>2
<1>5. PICK n \in T : \A m \in T : n <= m  BY <1>3, <1>4, LeastNatural
<1>6. n \in 1 .. Len(p) /\ n \in Nat  BY <1>2, <1>5
<1>7. ASSUME NEW m \in 1 .. n - 1 PROVE m <= Len(q) /\ p[m] = q[m]
  <2>1. m \in 1 .. Len(p) /\ ~ (n <= m)  BY <1>2, <1>6
  <2>2. m \notin T  BY <1>5, <2>1
  <2> QED  BY <1>2, <2>1, <2>2
<1>8. CASE n > Len(q)
  <2>1. Len(q) < Len(p)  BY <1>2, <1>6, <1>8
  <2>2. \A m \in 1 .. Len(q) : q[m] = p[m]  BY <1>2, <1>6, <1>7, <1>8
  <2> QED  BY <1>1, <2>1, <2>2, LeafIsLowest
<1>9. CASE ~ (n > Len(q))
  <2>1. n \in 1 .. Len(q) /\ p[n] # q[n]  BY <1>2, <1>5, <1>6, <1>9
  <2> QED  BY <1>6, <1>7, <2>1
<1> QED  BY <1>8, <1>9

(* The order of the source is total on the operands. *)
LEMMA LeavesOrdered ==
  ASSUME NEW t, IsTree(t), NEW p \in LeavesOf(t), NEW q \in LeavesOf(t), p # q
  PROVE  LeftOf(p, q) \/ LeftOf(q, p)
<1>1. PICK n \in Nat : /\ n \in 1 .. Len(p) /\ n \in 1 .. Len(q) /\ p[n] # q[n]
                       /\ \A m \in 1 .. n - 1 : p[m] = q[m]
  BY LeavesPart
<1>2. p \in Paths /\ q \in Paths  BY TreeNodes
<1>3. (p[n] = "l" \/ p[n] = "r") /\ (q[n] = "l" \/ q[n] = "r")
  BY <1>1, <1>2, PathElements
<1> QED  BY <1>1, <1>3 DEF LeftOf, PartsLeft

----------------------------------------------------------------------------
(* most_left_non_logical_operand_node comes to an operand: going left ends. *)
LEMMA MostLeftIsLeaf ==
  ASSUME NEW t, IsTree(t), NEW p \in DOMAIN t
  PROVE  /\ MostLeft(t, p) \in LeavesOf(t)
         /\ Len(p) <= Len(MostLeft(t, p))
         /\ \A n \in 1 .. Len(p) : MostLeft(t, p)[n] = p[n]
         /\ \A n \in Len(p) + 1 .. Len(MostLeft(t, p)) : MostLeft(t, p)[n] = "l"
<1>1. PICK deepest \in DOMAIN t : \A q \in DOMAIN t : Len(q) <= Len(deepest)
  BY DEF IsTree
<1> DEFINE Lefts == {q \in DOMAIN t : /\ Len(p) <= Len(q)
                                      /\ \A n \in 1 .. Len(p) : q[n] = p[n]
                                      /\ \A n \in Len(p) + 1 .. Len(q) : q[n] = "l"}
           T == {Len(deepest) - Len(q) : q \in Lefts}
<1>2. \A q \in DOMAIN t : q \in Paths /\ Len(q) \in Nat
  BY TreeNodes, PathElements
<1>3. p \in Lefts  BY <1>2
<1>4. T \subseteq Nat /\ T # {}  BY <1>1, <1>2, <1>3
<1>5. PICK d \in T : \A e \in T : d <= e  BY <1>4, LeastNatural
<1>6. PICK q \in Lefts : d = Len(deepest) - Len(q)  BY <1>5
<1>7. /\ q \in DOMAIN t /\ Len(p) <= Len(q)
      /\ \A n \in 1 .. Len(p) : q[n] = p[n]
      /\ \A n \in Len(p) + 1 .. Len(q) : q[n] = "l"
  BY <1>6
<1>8. \A s \in Lefts : s \in DOMAIN t /\ Len(s) <= Len(q)
  <2> SUFFICES ASSUME NEW s \in Lefts PROVE s \in DOMAIN t /\ Len(s) <= Len(q)
    OBVIOUS
  <2>1. s \in DOMAIN t /\ Len(deepest) - Len(s) \in T  OBVIOUS
  <2>2. Len(deepest) - Len(q) <= Len(deepest) - Len(s)  BY <1>5, <1>6, <2>1
  <2>3. Len(deepest) \in Nat /\ Len(q) \in Nat /\ Len(s) \in Nat  BY <1>1, <1>2, <1>7, <2>1
  <2> HIDE DEF Lefts, T
  <2> QED  BY <2>1, <2>2, <2>3
<1>9. t[q] = "leaf"
  <2> SUFFICES ASSUME t[q] # "leaf" PROVE FALSE
    OBVIOUS
  <2> DEFINE c == Append(q, "l")
  <2>1. c \in DOMAIN t  BY <1>7, Children
  <2>2. Len(c) = Len(q) + 1 /\ (\A m \in 1 .. Len(q) : c[m] = q[m]) /\ c[Len(q) + 1] = "l"
    BY <1>2, <1>7, Down
  <2>3. Len(p) \in Nat /\ Len(q) \in Nat  BY <1>2, <1>7
  <2> HIDE DEF c
  <2>4. \A n \in 1 .. Len(p) : c[n] = p[n]  BY <1>7, <2>2, <2>3
  <2>5. ASSUME NEW n \in Len(p) + 1 .. Len(c) PROVE c[n] = "l"
    <3>1. CASE n = Len(q) + 1  BY <2>2, <3>1
    <3>2. CASE n # Len(q) + 1
      <4>1. n \in Len(p) + 1 .. Len(q) /\ n \in 1 .. Len(q)  BY <2>2, <2>3, <3>2
      <4> QED  BY <1>7, <2>2, <4>1
    <3> QED  BY <3>1, <3>2
  <2>6. c \in Lefts  BY <1>7, <2>1, <2>2, <2>3, <2>4, <2>5
  <2>7. Len(c) <= Len(q)  BY <1>8, <2>6
  <2> QED  BY <2>2, <2>3, <2>7
<1> DEFINE Is(s) == IsPrefix(p, s) /\ \A n \in Len(p) + 1 .. Len(s) : s[n] = "l"
<1>10. \A s \in DOMAIN t : IsPrefix(p, s) <=> Len(p) <= Len(s) /\ \A n \in 1 .. Len(p) : s[n] = p[n]
  <2> SUFFICES ASSUME NEW s \in DOMAIN t
               PROVE  IsPrefix(p, s) <=> Len(p) <= Len(s) /\ \A n \in 1 .. Len(p) : s[n] = p[n]
    OBVIOUS
  <2>1. Len(p) \in Nat /\ Len(s) \in Nat /\ p \in Paths /\ s \in Paths  BY <1>2
  <2>2. CASE ~ (Len(p) <= Len(s))  BY <2>2 DEF IsPrefix
  <2>3. CASE Len(p) <= Len(s)
    <3> DEFINE a == SubSeq(p, 1, Len(p))
               b == SubSeq(s, 1, Len(p))
    <3>1. Len(p) \in 0 .. Len(p) /\ Len(p) \in 0 .. Len(s)  BY <2>1, <2>3
    <3>2. /\ a \in Paths /\ b \in Paths /\ Len(a) = Len(p) /\ Len(b) = Len(p)
          /\ \A n \in 1 .. Len(p) : a[n] = p[n] /\ b[n] = s[n]
      BY <2>1, <3>1, UpTo
    <3>3. IsPrefix(p, s) <=> a = b  BY <2>3 DEF IsPrefix
    <3> HIDE DEF a, b
    <3>4. a = b <=> \A n \in 1 .. Len(p) : s[n] = p[n]
      <4>1. (\A n \in 1 .. Len(p) : a[n] = b[n]) => a = b
        BY <3>2, SeqEqual DEF Paths
      <4> QED  BY <3>2, <4>1
    <3> QED  BY <2>3, <3>3, <3>4
  <2> QED  BY <2>2, <2>3
<1>11. q \in LeavesOf(t) /\ Is(q)  BY <1>7, <1>9, <1>10 DEF LeavesOf
<1>12. MostLeft(t, p) = CHOOSE s \in LeavesOf(t) : Is(s)  BY DEF MostLeft
<1>13. MostLeft(t, p) \in LeavesOf(t) /\ Is(MostLeft(t, p))
  <2> HIDE DEF Is
  <2> QED  BY <1>11, <1>12
<1>14. MostLeft(t, p) \in DOMAIN t  BY <1>13, TreeNodes
<1> QED  BY <1>10, <1>13, <1>14

(* The values that are not the path of any node. *)
LEMMA NoPath ==
  /\ Null \notin Paths /\ TrueBlock \notin Paths /\ FalseBlock \notin Paths
  /\ Null # TrueBlock /\ Null # FalseBlock /\ TrueBlock # FalseBlock
<1>1. /\ Len(Null) = 1 /\ Null[1] = "null"
      /\ Len(TrueBlock) = 1 /\ TrueBlock[1] = "true_block"
      /\ Len(FalseBlock) = 1 /\ FalseBlock[1] = "false_block"
  BY DEF Null, TrueBlock, FalseBlock
<1>2. \A p \in Paths : Len(p) = 1 => p[1] = "l" \/ p[1] = "r"
  BY PathElements
<1> QED  BY <1>1, <1>2

----------------------------------------------------------------------------
(* The ancestors whose left part a node is in, by their depth; those of     *)
(* them that are op.                                                        *)
Turns(p) == {n \in 0 .. Len(p) - 1 : p[n + 1] = "l"}

TurnsAt(t, p, op) == {n \in 0 .. Len(p) - 1 : t[SubSeq(p, 1, n)] = op /\ p[n + 1] = "l"}

(* The first operand on the other side of such an ancestor. *)
Across(t, p, n) == MostLeft(t, Append(SubSeq(p, 1, n), "r"))

(* A set of numbers below a bound has a greatest. *)
LEMMA GreatestTurn ==
  ASSUME NEW k \in Nat, NEW T, T \subseteq 0 .. k - 1, T # {}
  PROVE  \E n \in T : \A m \in T : m <= n
<1> DEFINE U == {k - n : n \in T}
<1>1. U \subseteq Nat /\ U # {}  OBVIOUS
<1>2. PICK d \in U : \A e \in U : d <= e  BY <1>1, LeastNatural
<1>3. PICK n \in T : d = k - n  BY <1>2
<1>4. \A m \in T : k - n <= k - m  BY <1>2, <1>3
<1> QED  BY <1>3, <1>4

(* Every ancestor is a conjunction or a disjunction, and not both. *)
LEMMA TurnsSplit ==
  ASSUME NEW t, IsTree(t), NEW p \in DOMAIN t
  PROVE  /\ Turns(p) = TurnsAt(t, p, "and") \union TurnsAt(t, p, "or")
         /\ TurnsAt(t, p, "and") \intersect TurnsAt(t, p, "or") = {}
<1>1. \A n \in 0 .. Len(p) - 1 : t[SubSeq(p, 1, n)] = "and" \/ t[SubSeq(p, 1, n)] = "or"
  BY Ancestors, TreeNodes
<1> QED  BY <1>1 DEF Turns, TurnsAt

(* What the arguments last_and and last_or of the recursion hold.           *)
LEMMA LastOnLeftIs ==
  ASSUME NEW t, IsTree(t), NEW p \in DOMAIN t, NEW op
  PROVE  \/ TurnsAt(t, p, op) = {} /\ LastOnLeft(t, p, op) = Null
         \/ \E n \in TurnsAt(t, p, op) : /\ \A m \in TurnsAt(t, p, op) : m <= n
                                         /\ LastOnLeft(t, p, op) = SubSeq(p, 1, n)
<1> DEFINE T == TurnsAt(t, p, op)
           g == CHOOSE n \in T : \A m \in T : m <= n
<1>1. LastOnLeft(t, p, op) = IF T = {} THEN Null ELSE SubSeq(p, 1, g)
  BY DEF LastOnLeft, TurnsAt
<1>2. CASE T = {}  BY <1>1, <1>2
<1>3. CASE T # {}
  <2>1. T \subseteq 0 .. Len(p) - 1 /\ Len(p) \in Nat
    BY TreeNodes, PathElements DEF TurnsAt
  <2>2. \E n \in T : \A m \in T : m <= n  BY <1>3, <2>1, GreatestTurn
  <2>3. g \in T /\ \A m \in T : m <= g
    <3> HIDE DEF T
    <3> QED  BY <2>2
  <2> QED  BY <1>1, <1>3, <2>3
<1> QED  BY <1>2, <1>3

(* An operand on the other side is an operand, and written behind.          *)
LEMMA AcrossIs ==
  ASSUME NEW t, IsTree(t), NEW p \in DOMAIN t, NEW n \in Turns(p)
  PROVE  /\ Across(t, p, n) \in LeavesOf(t)
         /\ n + 1 <= Len(Across(t, p, n))
         /\ \A m \in 1 .. n : Across(t, p, n)[m] = p[m]
         /\ Across(t, p, n)[n + 1] = "r"
         /\ \A m \in n + 2 .. Len(Across(t, p, n)) : Across(t, p, n)[m] = "l"
<1>1. p \in Paths /\ Len(p) \in Nat  BY TreeNodes, PathElements
<1>2. n \in 0 .. Len(p) - 1 /\ n \in 0 .. Len(p) /\ n \in Nat  BY <1>1 DEF Turns
<1> DEFINE a == SubSeq(p, 1, n)
           b == Append(a, "r")
<1>3. a \in DOMAIN t /\ t[a] # "leaf"  BY <1>2, Ancestors
<1>4. a \in Paths /\ Len(a) = n /\ \A m \in 1 .. n : a[m] = p[m]
  BY <1>1, <1>2, UpTo
<1> HIDE DEF a
<1>5. b \in DOMAIN t  BY <1>3, Children
<1>6. Len(b) = n + 1 /\ (\A m \in 1 .. n : b[m] = a[m]) /\ b[n + 1] = "r"
  BY <1>4, Down
<1>7. Across(t, p, n) = MostLeft(t, b)  BY DEF Across, a
<1> HIDE DEF b
<1> DEFINE q == MostLeft(t, b)
<1>8. /\ q \in LeavesOf(t) /\ n + 1 <= Len(q)
      /\ \A m \in 1 .. n + 1 : q[m] = b[m]
      /\ \A m \in n + 1 + 1 .. Len(q) : q[m] = "l"
  BY <1>5, <1>6, MostLeftIsLeaf
<1> HIDE DEF q
<1>9. n + 1 + 1 = n + 2 /\ n + 1 \in 1 .. n + 1 /\ \A m \in 1 .. n : m \in 1 .. n + 1
  BY <1>2
<1>10. Across(t, p, n) = q  BY <1>7 DEF q
<1> QED  BY <1>4, <1>6, <1>8, <1>9, <1>10

(* What is on the other side is written behind. *)
LEMMA AcrossBehind ==
  ASSUME NEW t, IsTree(t), NEW p \in DOMAIN t, NEW n \in Turns(p)
  PROVE  LeftOf(p, Across(t, p, n))
<1>1. Len(p) \in Nat /\ n \in 0 .. Len(p) - 1 /\ p[n + 1] = "l"
  BY TreeNodes, PathElements DEF Turns
<1> DEFINE q == Across(t, p, n)
<1>2. /\ q \in LeavesOf(t) /\ n + 1 <= Len(q) /\ q[n + 1] = "r"
      /\ \A m \in 1 .. n : q[m] = p[m]
  BY AcrossIs
<1>3. Len(q) \in Nat  BY <1>2, TreeNodes, PathElements
<1> HIDE DEF q
<1>4. PartsLeft(p, q, n + 1)  BY <1>1, <1>2, <1>3 DEF PartsLeft
<1> QED  BY <1>1, <1>4 DEF LeftOf, q

(* The higher the ancestor, the farther the operand. *)
LEMMA AcrossOrdered ==
  ASSUME NEW t, IsTree(t), NEW p \in DOMAIN t, NEW n \in Turns(p), NEW m \in Turns(p), m < n
  PROVE  LeftOf(Across(t, p, n), Across(t, p, m))
<1>1. /\ Len(p) \in Nat /\ n \in 0 .. Len(p) - 1 /\ m \in 0 .. Len(p) - 1 /\ p[m + 1] = "l"
  BY TreeNodes, PathElements DEF Turns
<1> DEFINE q == Across(t, p, n)
           s == Across(t, p, m)
<1>2. /\ q \in LeavesOf(t) /\ n + 1 <= Len(q) /\ \A j \in 1 .. n : q[j] = p[j]
  BY AcrossIs
<1>3. /\ s \in LeavesOf(t) /\ m + 1 <= Len(s) /\ s[m + 1] = "r" /\ \A j \in 1 .. m : s[j] = p[j]
  BY AcrossIs
<1>4. Len(q) \in Nat /\ Len(s) \in Nat  BY <1>2, <1>3, TreeNodes, PathElements
<1> HIDE DEF q, s
<1>5. PartsLeft(q, s, m + 1)  BY <1>1, <1>2, <1>3, <1>4 DEF PartsLeft
<1> QED  BY <1>1, <1>5 DEF LeftOf, q, s

(* The operand across the lowest such ancestor is the next of the source,   *)
LEMMA NothingBetween ==
  ASSUME NEW t, IsTree(t), NEW p \in LeavesOf(t), NEW q \in LeavesOf(t), LeftOf(p, q),
         NEW n \in Turns(p), \A m \in Turns(p) : m <= n
  PROVE  q = Across(t, p, n) \/ LeftOf(Across(t, p, n), q)
<1>1. p \in DOMAIN t /\ q \in DOMAIN t /\ p \in Paths /\ q \in Paths  BY TreeNodes
<1>2. Len(p) \in Nat /\ Len(q) \in Nat /\ n \in 0 .. Len(p) - 1
  BY <1>1, PathElements DEF Turns
<1> DEFINE s == Across(t, p, n)
<1>3. /\ s \in LeavesOf(t) /\ n + 1 <= Len(s) /\ s[n + 1] = "r"
      /\ \A j \in 1 .. n : s[j] = p[j]
      /\ \A j \in n + 2 .. Len(s) : s[j] = "l"
  BY <1>1, AcrossIs
<1>4. Len(s) \in Nat /\ s \in Paths  BY <1>3, TreeNodes, PathElements
<1>5. PICK m \in Nat : PartsLeft(p, q, m)  BY DEF LeftOf
<1>6. /\ m \in 1 .. Len(p) /\ m \in 1 .. Len(q) /\ p[m] = "l" /\ q[m] = "r"
      /\ \A j \in 1 .. m - 1 : p[j] = q[j]
  BY <1>5 DEF PartsLeft
<1>7. m - 1 \in Turns(p)  BY <1>2, <1>6 DEF Turns
<1>8. m <= n + 1  BY <1>2, <1>6, <1>7
<1> HIDE DEF s
<1>9. CASE m <= n
  <2>1. PartsLeft(s, q, m)  BY <1>2, <1>3, <1>4, <1>6, <1>9 DEF PartsLeft
  <2> QED  BY <2>1 DEF LeftOf, s
<1>10. CASE m = n + 1
  <2> SUFFICES ASSUME q # s PROVE LeftOf(s, q)
    BY DEF s
  <2>1. \A j \in 1 .. n + 1 : s[j] = q[j]
    BY <1>2, <1>3, <1>6, <1>10
  <2>2. PICK k \in Nat : /\ k \in 1 .. Len(s) /\ k \in 1 .. Len(q) /\ s[k] # q[k]
                         /\ \A j \in 1 .. k - 1 : s[j] = q[j]
    BY <1>3, LeavesPart
  <2>3. ~ (k \in 1 .. n + 1)  BY <2>1, <2>2
  <2>4. k \in n + 2 .. Len(s)  BY <1>2, <1>4, <2>2, <2>3
  <2>5. s[k] = "l" /\ q[k] = "r"
    <3>1. s[k] = "l"  BY <1>3, <2>4
    <3>2. q[k] = "l" \/ q[k] = "r"  BY <1>1, <2>2, PathElements
    <3> QED  BY <2>2, <3>1, <3>2
  <2> QED  BY <2>2, <2>5 DEF LeftOf, PartsLeft
<1> QED  BY <1>2, <1>6, <1>8, <1>9, <1>10

(* and an operand on no ancestor's left is the last. *)
LEMMA NothingBehind ==
  ASSUME NEW p \in Paths, NEW q, LeftOf(p, q), Turns(p) = {}
  PROVE  FALSE
<1>1. PICK m \in Nat : PartsLeft(p, q, m)  BY DEF LeftOf
<1>2. m - 1 \in Turns(p)  BY <1>1, PathElements DEF PartsLeft, Turns
<1> QED  BY <1>2

(* The operand the compilation of a condition begins at is the first.       *)
LEMMA FirstOperand ==
  ASSUME NEW t, IsTree(t)
  PROVE  /\ MostLeft(t, <<>>) \in LeavesOf(t)
         /\ \A q \in LeavesOf(t) : q = MostLeft(t, <<>>) \/ LeftOf(MostLeft(t, <<>>), q)
<1> DEFINE s == MostLeft(t, <<>>)
<1>1. s \in LeavesOf(t) /\ \A n \in 1 .. Len(s) : s[n] = "l"
  BY TreeNodes, MostLeftIsLeaf
<1> HIDE DEF s
<1>2. ASSUME NEW q \in LeavesOf(t), q # s PROVE LeftOf(s, q)
  <2>1. PICK k \in Nat : /\ k \in 1 .. Len(s) /\ k \in 1 .. Len(q) /\ s[k] # q[k]
                         /\ \A j \in 1 .. k - 1 : s[j] = q[j]
    BY <1>1, <1>2, LeavesPart
  <2>2. q[k] = "l" \/ q[k] = "r"  BY <2>1, TreeNodes, PathElements
  <2> QED  BY <1>1, <2>1, <2>2 DEF LeftOf, PartsLeft
<1> QED  BY <1>1, <1>2 DEF s

----------------------------------------------------------------------------
(* map_condition_jumps at an operand: it is followed by the next operand of *)
(* the source, and jumps to one behind that or to a block; the last one     *)
(* jumps if it is true.                                                     *)
LEMMA JumpsAre ==
  ASSUME NEW t, IsTree(t), NEW p \in LeavesOf(t)
  PROVE  \/ /\ Turns(p) = {}
            /\ JumpInfos(t, p).jump_if = TRUE
            /\ JumpInfos(t, p).next_node = Null /\ JumpInfos(t, p).jump_node = Null
         \/ \E n \in Turns(p) :
              /\ \A m \in Turns(p) : m <= n
              /\ JumpInfos(t, p).next_node = Across(t, p, n)
              /\ \/ JumpInfos(t, p).jump_node = Null
                 \/ \E m \in Turns(p) : m < n /\ JumpInfos(t, p).jump_node = Across(t, p, m)
<1>1. p \in DOMAIN t /\ p \in Paths /\ Len(p) \in Nat  BY TreeNodes, PathElements
<1> DEFINE J == p = <<>> \/ t[Front(p)] = "or"
           near == IF J THEN "and" ELSE "or"
           far == IF J THEN "or" ELSE "and"
           c == LastOnLeft(t, p, near)
           r == LastOnLeft(t, p, far)
           A == TurnsAt(t, p, near)
           B == TurnsAt(t, p, far)
<1>2. JumpInfos(t, p) =
        IF Level(c) < Level(r) \/ (Level(c) = Level(r) /\ J)
          THEN [jump_if |-> J, jump_node |-> RightOperand(t, c), next_node |-> RightOperand(t, r)]
          ELSE [jump_if |-> ~ J, jump_node |-> RightOperand(t, r), next_node |-> RightOperand(t, c)]
  BY DEF JumpInfos
<1>3. J \in BOOLEAN  OBVIOUS
<1>4. Turns(p) = A \union B /\ A \intersect B = {}  BY <1>1, TurnsSplit
<1>5. \/ A = {} /\ c = Null
      \/ \E n \in A : (\A m \in A : m <= n) /\ c = SubSeq(p, 1, n)
  BY <1>1, LastOnLeftIs
<1>6. \/ B = {} /\ r = Null
      \/ \E n \in B : (\A m \in B : m <= n) /\ r = SubSeq(p, 1, n)
  BY <1>1, LastOnLeftIs
<1> HIDE DEF J, c, r, A, B
<1>7. Level(Null) = 0 /\ RightOperand(t, Null) = Null
  BY DEF Level, RightOperand
<1>8. ASSUME NEW n \in Turns(p)
      PROVE  /\ Level(SubSeq(p, 1, n)) = n + 1 /\ n \in Nat
             /\ RightOperand(t, SubSeq(p, 1, n)) = Across(t, p, n)
  <2>1. n \in 0 .. Len(p) /\ n \in Nat  BY <1>1 DEF Turns
  <2>2. SubSeq(p, 1, n) \in Paths /\ Len(SubSeq(p, 1, n)) = n  BY <1>1, <2>1, UpTo
  <2> QED  BY <2>1, <2>2, NoPath DEF Level, RightOperand, Across
<1>9. CASE A = {} /\ B = {}
  <2>1. c = Null /\ r = Null  BY <1>5, <1>6, <1>9
  <2>2. Turns(p) = {}  BY <1>4, <1>9
  <2>3. Level(c) = Level(r) /\ ~ (Level(c) < Level(r))  BY <1>7, <2>1
  <2>4. JumpInfos(t, p).next_node = Null /\ JumpInfos(t, p).jump_node = Null
    BY <1>2, <1>7, <2>1
  <2>5. JumpInfos(t, p).jump_if = TRUE
    <3>1. CASE J
      <4>1. J = TRUE  BY <1>3, <3>1
      <4>2. JumpInfos(t, p) = [jump_if |-> TRUE, jump_node |-> RightOperand(t, c),
                               next_node |-> RightOperand(t, r)]
        BY <1>2, <2>3, <4>1
      <4> QED  BY <4>2
    <3>2. CASE ~ J
      <4>1. (~ J) = TRUE  BY <1>3, <3>2
      <4>2. JumpInfos(t, p) = [jump_if |-> TRUE, jump_node |-> RightOperand(t, r),
                               next_node |-> RightOperand(t, c)]
        BY <1>2, <2>3, <3>2, <4>1
      <4> QED  BY <4>2
    <3> QED  BY <3>1, <3>2
  <2> QED  BY <2>2, <2>4, <2>5
<1>10. CASE A # {} /\ B = {}
  <2>1. PICK n \in A : (\A m \in A : m <= n) /\ c = SubSeq(p, 1, n)  BY <1>5, <1>10
  <2>2. r = Null  BY <1>6, <1>10
  <2>3. n \in Turns(p) /\ \A m \in Turns(p) : m <= n  BY <1>4, <1>10, <2>1
  <2>4. Level(c) = n + 1 /\ n \in Nat /\ RightOperand(t, c) = Across(t, p, n)
    BY <1>8, <2>1, <2>3
  <2>5. ~ (Level(c) < Level(r)) /\ Level(c) # Level(r)  BY <1>7, <2>2, <2>4
  <2>6. JumpInfos(t, p).next_node = Across(t, p, n) /\ JumpInfos(t, p).jump_node = Null
    BY <1>2, <1>7, <2>2, <2>4, <2>5
  <2> QED  BY <2>3, <2>6
<1>11. CASE A = {} /\ B # {}
  <2>1. PICK n \in B : (\A m \in B : m <= n) /\ r = SubSeq(p, 1, n)  BY <1>6, <1>11
  <2>2. c = Null  BY <1>5, <1>11
  <2>3. n \in Turns(p) /\ \A m \in Turns(p) : m <= n  BY <1>4, <1>11, <2>1
  <2>4. Level(r) = n + 1 /\ n \in Nat /\ RightOperand(t, r) = Across(t, p, n)
    BY <1>8, <2>1, <2>3
  <2>5. Level(c) < Level(r)  BY <1>7, <2>2, <2>4
  <2>6. JumpInfos(t, p).next_node = Across(t, p, n) /\ JumpInfos(t, p).jump_node = Null
    BY <1>2, <1>7, <2>2, <2>4, <2>5
  <2> QED  BY <2>3, <2>6
<1>12. CASE A # {} /\ B # {}
  <2>1. PICK a \in A : (\A m \in A : m <= a) /\ c = SubSeq(p, 1, a)  BY <1>5, <1>12
  <2>2. PICK b \in B : (\A m \in B : m <= b) /\ r = SubSeq(p, 1, b)  BY <1>6, <1>12
  <2>3. a \in Turns(p) /\ b \in Turns(p) /\ a # b  BY <1>4, <2>1, <2>2
  <2>4. /\ Level(c) = a + 1 /\ a \in Nat /\ RightOperand(t, c) = Across(t, p, a)
        /\ Level(r) = b + 1 /\ b \in Nat /\ RightOperand(t, r) = Across(t, p, b)
    BY <1>8, <2>1, <2>2, <2>3
  <2>5. \A m \in Turns(p) : m \in Nat  BY <1>8
  <2>6. CASE a < b
    <3>1. JumpInfos(t, p).next_node = Across(t, p, b) /\ JumpInfos(t, p).jump_node = Across(t, p, a)
      BY <1>2, <2>4, <2>6
    <3>2. \A m \in Turns(p) : m <= b  BY <1>4, <2>1, <2>2, <2>4, <2>5, <2>6
    <3> QED  BY <2>3, <2>6, <3>1, <3>2
  <2>7. CASE b < a
    <3>1. ~ (Level(c) < Level(r)) /\ Level(c) # Level(r)  BY <2>4, <2>7
    <3>2. JumpInfos(t, p).next_node = Across(t, p, a) /\ JumpInfos(t, p).jump_node = Across(t, p, b)
      BY <1>2, <2>4, <3>1
    <3>3. \A m \in Turns(p) : m <= a  BY <1>4, <2>1, <2>2, <2>4, <2>5, <2>7
    <3> QED  BY <2>3, <2>7, <3>2, <3>3
  <2>8. a < b \/ b < a  BY <2>3, <2>4
  <2> QED  BY <2>6, <2>7, <2>8, Zenon
<1> QED  BY <1>9, <1>10, <1>11, <1>12

(* The same in the order of the source. *)
LEMMA JumpsForwardOf ==
  ASSUME NEW t, IsTree(t), NEW p \in LeavesOf(t)
  PROVE  \/ /\ JumpInfos(t, p).next_node = Null /\ JumpInfos(t, p).jump_node = Null
            /\ JumpInfos(t, p).jump_if = TRUE
            /\ \A q : ~ LeftOf(p, q)
         \/ /\ JumpInfos(t, p).next_node \in LeavesOf(t)
            /\ LeftOf(p, JumpInfos(t, p).next_node)
            /\ \A q \in LeavesOf(t) :
                 LeftOf(p, q) => q = JumpInfos(t, p).next_node
                                   \/ LeftOf(JumpInfos(t, p).next_node, q)
            /\ \/ JumpInfos(t, p).jump_node = Null
               \/ /\ JumpInfos(t, p).jump_node \in LeavesOf(t)
                  /\ LeftOf(JumpInfos(t, p).next_node, JumpInfos(t, p).jump_node)
<1>1. p \in DOMAIN t /\ p \in Paths  BY TreeNodes
<1> DEFINE J == JumpInfos(t, p)
<1>2. \/ /\ Turns(p) = {}
         /\ J.jump_if = TRUE /\ J.next_node = Null /\ J.jump_node = Null
      \/ \E n \in Turns(p) :
           /\ \A m \in Turns(p) : m <= n
           /\ J.next_node = Across(t, p, n)
           /\ J.jump_node = Null \/ \E m \in Turns(p) : m < n /\ J.jump_node = Across(t, p, m)
  BY JumpsAre
<1> HIDE DEF J
<1>3. CASE Turns(p) = {}
  <2>1. \A q : ~ LeftOf(p, q)  BY <1>1, <1>3, NothingBehind
  <2>2. J.jump_if = TRUE /\ J.next_node = Null /\ J.jump_node = Null  BY <1>2, <1>3
  <2> QED  BY <2>1, <2>2 DEF J
<1>4. ASSUME NEW n \in Turns(p), \A m \in Turns(p) : m <= n,
             J.next_node = Across(t, p, n),
             J.jump_node = Null \/ \E m \in Turns(p) : m < n /\ J.jump_node = Across(t, p, m)
      PROVE  /\ J.next_node \in LeavesOf(t) /\ LeftOf(p, J.next_node)
             /\ \A q \in LeavesOf(t) : LeftOf(p, q) => q = J.next_node \/ LeftOf(J.next_node, q)
             /\ \/ J.jump_node = Null
                \/ J.jump_node \in LeavesOf(t) /\ LeftOf(J.next_node, J.jump_node)
  <2>1. Across(t, p, n) \in LeavesOf(t)  BY <1>1, AcrossIs
  <2>2. LeftOf(p, Across(t, p, n))  BY <1>1, AcrossBehind
  <2>3. \A q \in LeavesOf(t) :
          LeftOf(p, q) => q = Across(t, p, n) \/ LeftOf(Across(t, p, n), q)
    BY <1>4, NothingBetween
  <2>4. \A m \in Turns(p) :
          m < n => Across(t, p, m) \in LeavesOf(t) /\ LeftOf(Across(t, p, n), Across(t, p, m))
    BY <1>1, AcrossIs, AcrossOrdered
  <2> QED  BY <1>4, <2>1, <2>2, <2>3, <2>4
<1> QED  BY <1>2, <1>3, <1>4 DEF J

----------------------------------------------------------------------------
(* The jumps of an operand as map_conditions_instructions_block sets them.  *)
Resolved(p) ==
  LET infos == JumpInfos(tree, p)
  IN [jump_if |-> infos.jump_if,
      jump |-> IF infos.jump_node # Null THEN infos.jump_node
               ELSE IF infos.jump_if THEN TrueBlock ELSE FalseBlock,
      next |-> IF infos.next_node # Null THEN infos.next_node
               ELSE IF infos.jump_if THEN FalseBlock ELSE TrueBlock]

(* The calls made so far are of operands in the order of the source, each   *)
(* the one that follows.                                                    *)
ChainInv ==
  /\ tree \in Trees
  /\ pc \in {"descend", "link", "run", "done"}
  /\ chain \in Seq(Leaves)
  /\ \A m \in 1 .. Len(chain) : \A n \in 1 .. Len(chain) :
       m < n => LeftOf(chain[m], chain[n])
  /\ \A n \in 1 .. Len(chain) : \A m \in 1 .. Len(chain) :
       m = n + 1 => JumpInfos(tree, chain[n]).next_node = chain[m]

(* While they are made, no operand has been left out. *)
DescendInv ==
  pc = "descend" =>
    /\ at \in Leaves
    /\ \A n \in 1 .. Len(chain) : LeftOf(chain[n], at)
    /\ chain # <<>> => JumpInfos(tree, chain[Len(chain)]).next_node = at
    /\ \A q \in Leaves : q = at \/ LeftOf(at, q) \/ \E n \in 1 .. Len(chain) : chain[n] = q
    /\ DOMAIN linked = {}

(* The last call is of the last operand, and with it all have been made.    *)
ReturnInv ==
  pc # "descend" =>
    /\ Len(chain) >= 1
    /\ JumpInfos(tree, chain[Len(chain)]).next_node = Null
    /\ \A q \in Leaves : \E n \in 1 .. Len(chain) : chain[n] = q

(* The calls return from the last to the first, and the operands in the map *)
(* are those whose calls have returned.                                     *)
ReturnedTo(k) == DOMAIN linked = {chain[j] : j \in k + 1 .. Len(chain)}

LinkInv ==
  /\ pc = "link" => \E k \in 1 .. Len(chain) : at = chain[k] /\ ReturnedTo(k)
  /\ pc \in {"run", "done"} => DOMAIN linked = Leaves
  /\ \A q \in DOMAIN linked : q \in Leaves /\ linked[q] = Resolved(q)

ConditionInv == ChainInv /\ DescendInv /\ ReturnInv /\ LinkInv

(* Before the first call. *)
LEMMA InitCondition ==
  Init => ConditionInv
<1> SUFFICES ASSUME Init PROVE ConditionInv
  OBVIOUS
<1>1. /\ tree \in Trees /\ pc = "descend" /\ chain = <<>> /\ linked = <<>>
      /\ at = MostLeft(tree, <<>>)
  BY DEF Init
<1>2. IsTree(tree)  BY <1>1, TreesAssumption
<1>3. at \in Leaves /\ \A q \in Leaves : q = at \/ LeftOf(at, q)
  BY <1>1, <1>2, FirstOperand DEF Leaves
<1>4. chain \in Seq(Leaves) /\ Len(chain) = 0 /\ DOMAIN linked = {}  BY <1>1
<1> QED  BY <1>1, <1>3, <1>4 DEF ConditionInv, ChainInv, DescendInv, ReturnInv, LinkInv

(* A call either is of the last operand or calls the one that follows.      *)
LEMMA DescendKeeps ==
  ASSUME ConditionInv, Descend
  PROVE  ConditionInv'
<1>1. /\ tree \in Trees /\ pc = "descend" /\ chain \in Seq(Leaves)
      /\ \A m \in 1 .. Len(chain) : \A n \in 1 .. Len(chain) :
           m < n => LeftOf(chain[m], chain[n])
      /\ \A n \in 1 .. Len(chain) : \A m \in 1 .. Len(chain) :
           m = n + 1 => JumpInfos(tree, chain[n]).next_node = chain[m]
      /\ at \in Leaves
      /\ \A n \in 1 .. Len(chain) : LeftOf(chain[n], at)
      /\ chain # <<>> => JumpInfos(tree, chain[Len(chain)]).next_node = at
      /\ \A q \in Leaves : q = at \/ LeftOf(at, q) \/ \E n \in 1 .. Len(chain) : chain[n] = q
      /\ DOMAIN linked = {}
  BY DEF ConditionInv, ChainInv, DescendInv, Descend
<1>2. /\ chain' = Append(chain, at) /\ tree' = tree /\ linked' = linked
      /\ \/ JumpInfos(tree, at).next_node = Null /\ pc' = "link" /\ at' = at
         \/ /\ JumpInfos(tree, at).next_node # Null
            /\ at' = JumpInfos(tree, at).next_node /\ pc' = "descend"
  BY <1>1 DEF Descend
<1>3. Leaves' = Leaves  BY <1>2 DEF Leaves
<1>4. IsTree(tree) /\ Leaves = LeavesOf(tree) /\ Leaves \subseteq Paths
  BY <1>1, TreesAssumption, TreeNodes DEF Leaves
<1> DEFINE l == Len(chain)
<1>5. /\ l \in Nat /\ chain' \in Seq(Leaves) /\ Len(chain') = l + 1
      /\ \A n \in 1 .. l : chain'[n] = chain[n]
      /\ chain'[l + 1] = at
      /\ chain = <<>> <=> l = 0
      /\ \A n \in 1 .. l : chain[n] \in Leaves
  BY <1>1, <1>2, AppendProperties, LenProperties, EmptySeq, ElementOfSeq
<1>6. JumpInfos(tree, chain[l]).next_node = at \/ l = 0  BY <1>1, <1>5
<1> HIDE DEF l
<1>7. \A m \in 1 .. l + 1 : \A n \in 1 .. l + 1 : m < n => LeftOf(chain'[m], chain'[n])
  <2> SUFFICES ASSUME NEW m \in 1 .. l + 1, NEW n \in 1 .. l + 1, m < n
               PROVE  LeftOf(chain'[m], chain'[n])
    OBVIOUS
  <2>1. m \in 1 .. l /\ chain'[m] = chain[m]  BY <1>5
  <2>2. CASE n = l + 1  BY <1>1, <1>5, <2>1, <2>2 DEF l
  <2>3. CASE n # l + 1
    <3>1. n \in 1 .. l /\ chain'[n] = chain[n]  BY <1>5, <2>3
    <3> QED  BY <1>1, <2>1, <3>1 DEF l
  <2> QED  BY <2>2, <2>3
<1>8. \A n \in 1 .. l + 1 : \A m \in 1 .. l + 1 :
        m = n + 1 => JumpInfos(tree, chain'[n]).next_node = chain'[m]
  <2> SUFFICES ASSUME NEW n \in 1 .. l + 1, NEW m \in 1 .. l + 1, m = n + 1
               PROVE  JumpInfos(tree, chain'[n]).next_node = chain'[m]
    OBVIOUS
  <2>1. n \in 1 .. l /\ chain'[n] = chain[n]  BY <1>5
  <2>2. CASE n = l  BY <1>5, <1>6, <2>1, <2>2
  <2>3. CASE n # l
    <3>1. m \in 1 .. l /\ chain'[m] = chain[m]  BY <1>5, <2>1, <2>3
    <3> QED  BY <1>1, <2>1, <3>1 DEF l
  <2> QED  BY <2>2, <2>3
<1>9. ChainInv'
  BY <1>1, <1>2, <1>3, <1>5, <1>7, <1>8 DEF ChainInv
<1> DEFINE next == JumpInfos(tree, at).next_node
<1>10. \/ next = Null /\ \A q : ~ LeftOf(at, q)
       \/ /\ next \in Leaves /\ LeftOf(at, next)
          /\ \A q \in Leaves : LeftOf(at, q) => q = next \/ LeftOf(next, q)
  BY <1>1, <1>4, JumpsForwardOf
<1>11. next \in Leaves => next # Null  BY <1>4, NoPath
<1>12. \A q \in Leaves : LeftOf(at, q) \/ \E n \in 1 .. l + 1 : chain'[n] = q
  <2>1. l + 1 \in 1 .. l + 1 /\ \A n \in 1 .. l : n \in 1 .. l + 1  BY <1>5
  <2> QED  BY <1>1, <1>5, <2>1 DEF l
<1> HIDE DEF next
<1>13. CASE next = Null
  <2>1. pc' = "link" /\ at' = at  BY <1>2, <1>13 DEF next
  <2>2. \A q \in Leaves : \E n \in 1 .. l + 1 : chain'[n] = q
    BY <1>10, <1>11, <1>12, <1>13
  <2>3. l + 1 \in 1 .. l + 1 /\ l + 1 >= 1 /\ l + 1 + 1 .. l + 1 = {}  BY <1>5
  <2>4. ReturnInv'
    BY <1>2, <1>3, <1>5, <1>13, <2>1, <2>2, <2>3 DEF ReturnInv, next
  <2>5. LinkInv'
    <3>1. PICK k \in Nat : k = l + 1  BY <1>5
    <3>2. DOMAIN linked' = {} /\ k + 1 .. Len(chain') = {}  BY <1>1, <1>2, <1>5, <2>3, <3>1
    <3>3. ReturnedTo(k)'  BY <3>2 DEF ReturnedTo
    <3>4. at' = chain'[k] /\ k \in 1 .. Len(chain')  BY <1>5, <2>1, <2>3, <3>1
    <3> QED  BY <2>1, <3>2, <3>3, <3>4 DEF LinkInv
  <2>6. DescendInv'  BY <2>1 DEF DescendInv
  <2> QED  BY <1>9, <2>4, <2>5, <2>6 DEF ConditionInv
<1>14. CASE next # Null
  <2>1. pc' = "descend" /\ at' = next  BY <1>2, <1>14 DEF next
  <2>2. /\ next \in Leaves /\ LeftOf(at, next)
        /\ \A q \in Leaves : LeftOf(at, q) => q = next \/ LeftOf(next, q)
    BY <1>10, <1>14
  <2>3. \A n \in 1 .. l + 1 : LeftOf(chain'[n], next)
    <3> SUFFICES ASSUME NEW n \in 1 .. l + 1 PROVE LeftOf(chain'[n], next)
      OBVIOUS
    <3>1. CASE n = l + 1  BY <1>5, <2>2, <3>1
    <3>2. CASE n # l + 1
      <4>1. n \in 1 .. l /\ chain'[n] = chain[n] /\ chain[n] \in Leaves  BY <1>5, <3>2
      <4>2. LeftOf(chain[n], at)  BY <1>1, <4>1 DEF l
      <4> QED  BY <1>1, <1>4, <2>2, <4>1, <4>2, LeftOfTransitive
    <3> QED  BY <3>1, <3>2
  <2>4. \A q \in Leaves : q = next \/ LeftOf(next, q) \/ \E n \in 1 .. l + 1 : chain'[n] = q
    BY <1>12, <2>2
  <2>5. DescendInv'
    BY <1>1, <1>2, <1>3, <1>5, <2>1, <2>2, <2>3, <2>4 DEF DescendInv, next
  <2>6. LinkInv' /\ ReturnInv'
    BY <1>1, <1>2, <2>1 DEF LinkInv, ReturnInv
  <2> QED  BY <1>9, <2>5, <2>6 DEF ConditionInv
<1> QED  BY <1>13, <1>14

(* A return adds its operand to the map and goes back to the one before. *)
LEMMA LinkKeeps ==
  ASSUME ConditionInv, Link
  PROVE  ConditionInv'
<1>1. /\ tree \in Trees /\ pc = "link" /\ chain \in Seq(Leaves) /\ Len(chain) \in Nat
      /\ \A m \in 1 .. Len(chain) : \A n \in 1 .. Len(chain) :
           m < n => LeftOf(chain[m], chain[n])
      /\ \A n \in 1 .. Len(chain) : chain[n] \in Leaves
      /\ \A q \in Leaves : \E n \in 1 .. Len(chain) : chain[n] = q
  BY LenProperties, ElementOfSeq DEF ConditionInv, ChainInv, ReturnInv, Link
<1>2. PICK k \in 1 .. Len(chain) : at = chain[k] /\ ReturnedTo(k)
  BY <1>1 DEF ConditionInv, LinkInv
<1>3. at = chain[k] /\ DOMAIN linked = {chain[j] : j \in k + 1 .. Len(chain)}
  BY <1>2 DEF ReturnedTo
<1>4. \A q \in DOMAIN linked : q \in Leaves /\ linked[q] = Resolved(q)
  BY DEF ConditionInv, LinkInv
<1>5. /\ tree' = tree /\ chain' = chain
      /\ linked' = [p \in DOMAIN linked \union {at} |-> IF p = at THEN Resolved(at) ELSE linked[p]]
      /\ \/ at = chain[1] /\ pc' = "run" /\ at' = at
         \/ at # chain[1] /\ pc' = "link" /\ at' = Previous(at)
  BY <1>1 DEF Link, Resolved
<1>6. Leaves' = Leaves  BY <1>5 DEF Leaves
<1>7. ChainInv'
  BY <1>5, <1>6 DEF ConditionInv, ChainInv
<1>8. DescendInv'  BY <1>5 DEF DescendInv
<1>9. ReturnInv'  BY <1>1, <1>5, <1>6 DEF ConditionInv, ReturnInv
<1>10. at \in Leaves  BY <1>1, <1>3
<1>11. \A q \in DOMAIN linked' : q \in Leaves' /\ linked'[q] = Resolved(q)'
  <2>1. \A q : Resolved(q)' = Resolved(q)  BY <1>5 DEF Resolved
  <2> QED  BY <1>4, <1>5, <1>6, <1>10, <2>1
<1>12. DOMAIN linked' = {chain[j] : j \in k .. Len(chain)}
  <2>1. DOMAIN linked' = DOMAIN linked \union {at}  BY <1>5
  <2>2. /\ k \in k .. Len(chain) /\ k \in Nat
        /\ \A j \in k .. Len(chain) : j = k \/ j \in k + 1 .. Len(chain)
        /\ \A j \in k + 1 .. Len(chain) : j \in k .. Len(chain)
    BY <1>1, <1>2
  <2> QED  BY <1>3, <2>1, <2>2
<1>13. CASE at = chain[1]
  <2>1. k = 1
    <3>1. 1 \in 1 .. Len(chain) /\ 1 <= k  BY <1>1, <1>2
    <3>2. ~ (1 < k)  BY <1>1, <1>2, <1>3, <1>13, <3>1, LeftOfIrreflexive
    <3> QED  BY <1>2, <3>1, <3>2
  <2>2. DOMAIN linked' = Leaves  BY <1>1, <1>12, <2>1
  <2>3. pc' = "run"  BY <1>5, <1>13
  <2> QED  BY <1>6, <1>7, <1>8, <1>9, <1>11, <2>2, <2>3 DEF ConditionInv, LinkInv
<1>14. CASE at # chain[1]
  <2>1. k - 1 \in 1 .. Len(chain) /\ (k - 1) + 1 = k
    <3>1. Len(chain) \in Nat /\ k # 1  BY <1>1, <1>3, <1>14
    <3> QED  BY <1>2, <3>1
  <2>2. at' = chain[(CHOOSE n \in DOMAIN chain : chain[n] = at) - 1]
    BY <1>5, <1>14 DEF Previous
  <2>3. DOMAIN chain = 1 .. Len(chain)  BY <1>1, LenProperties
  <2>4. \A n \in 1 .. Len(chain) : chain[n] = at => n = k
    <3> SUFFICES ASSUME NEW n \in 1 .. Len(chain), chain[n] = at, n # k PROVE FALSE
      OBVIOUS
    <3>1. n < k \/ k < n  BY <1>1, <1>2
    <3> QED  BY <1>1, <1>2, <1>3, <3>1, LeftOfIrreflexive
  <2>5. (CHOOSE n \in DOMAIN chain : chain[n] = at) = k
    BY <1>2, <2>3, <2>4
  <2>6. PICK j \in 1 .. Len(chain) : j = k - 1  BY <2>1
  <2>7. at' = chain'[j] /\ j \in 1 .. Len(chain') /\ j + 1 = k
    BY <1>5, <2>1, <2>2, <2>5, <2>6
  <2>8. ReturnedTo(j)'  BY <1>5, <1>12, <2>7 DEF ReturnedTo
  <2>9. pc' = "link"  BY <1>5, <1>14
  <2> QED  BY <1>7, <1>8, <1>9, <1>11, <2>7, <2>8, <2>9 DEF ConditionInv, LinkInv
<1> QED  BY <1>13, <1>14

(* Running the chain leaves it as it is. *)
LEMMA RunKeeps ==
  ASSUME ConditionInv, UNCHANGED <<tree, chain, linked>>,
         \/ pc = "run" /\ pc' \in {"run", "done"}
         \/ pc' = pc /\ at' = at
  PROVE  ConditionInv'
<1>1. Leaves' = Leaves  BY DEF Leaves
<1>2. \A q : Resolved(q)' = Resolved(q)  BY DEF Resolved
<1>3. ChainInv'  BY <1>1 DEF ConditionInv, ChainInv
<1>4. DescendInv'  BY <1>1 DEF ConditionInv, DescendInv
<1>5. ReturnInv'  BY <1>1 DEF ConditionInv, ReturnInv
<1>6. \A q \in DOMAIN linked' : q \in Leaves' /\ linked'[q] = Resolved(q)'
  BY <1>1, <1>2 DEF ConditionInv, LinkInv
<1>7. pc' \in {"run", "done"} => DOMAIN linked' = Leaves'
  BY <1>1 DEF ConditionInv, LinkInv
<1>8. pc' = "link" => \E k \in 1 .. Len(chain') : at' = chain'[k] /\ ReturnedTo(k)'
  <2> SUFFICES ASSUME pc' = "link"
               PROVE  \E k \in 1 .. Len(chain') : at' = chain'[k] /\ ReturnedTo(k)'
    OBVIOUS
  <2>1. pc = "link" /\ at' = at  OBVIOUS
  <2>2. PICK k \in 1 .. Len(chain) : at = chain[k] /\ ReturnedTo(k)
    BY <2>1 DEF ConditionInv, LinkInv
  <2>3. ReturnedTo(k)'  BY <2>2 DEF ReturnedTo
  <2> QED  BY <2>1, <2>2, <2>3
<1> QED  BY <1>3, <1>4, <1>5, <1>6, <1>7, <1>8 DEF ConditionInv, LinkInv

(* Every reachable state satisfies the invariant. *)
LEMMA ConditionSafe == Spec => []ConditionInv
<1>1. Init => ConditionInv  BY InitCondition
<1>2. ConditionInv /\ [Next]_vars => ConditionInv'
  <2> SUFFICES ASSUME ConditionInv, [Next]_vars PROVE ConditionInv'
    OBVIOUS
  <2>1. CASE Descend  BY <2>1, DescendKeeps
  <2>2. CASE Link  BY <2>2, LinkKeeps
  <2>3. ASSUME NEW value \in BOOLEAN, Test(value) PROVE ConditionInv'
    BY <2>3, RunKeeps DEF Test
  <2>4. CASE PushConst  BY <2>4, RunKeeps DEF PushConst
  <2>5. CASE UNCHANGED vars  BY <2>5, RunKeeps DEF vars
  <2> QED  BY <2>1, <2>2, <2>3, <2>4, <2>5 DEF Next
<1> QED  BY <1>1, <1>2, PTL DEF Spec

----------------------------------------------------------------------------
(* Whatever the condition, the block an operand jumps to is in the map when *)
(* its call returns (compiler.c:403-404): the operand is written behind, so *)
(* its own call has returned before.                                        *)
THEOREM JumpResolvedCorrect == Spec => []JumpResolved
<1>1. ConditionInv => JumpResolved
  <2> SUFFICES ASSUME ConditionInv, pc = "link"
               PROVE  JumpInfos(tree, at).jump_node \in DOMAIN linked \union {Null}
    BY DEF JumpResolved
  <2>1. /\ tree \in Trees /\ chain \in Seq(Leaves) /\ Len(chain) \in Nat
        /\ \A m \in 1 .. Len(chain) : \A n \in 1 .. Len(chain) :
             m < n => LeftOf(chain[m], chain[n])
        /\ \A n \in 1 .. Len(chain) : chain[n] \in Leaves
        /\ \A q \in Leaves : \E n \in 1 .. Len(chain) : chain[n] = q
    BY LenProperties, ElementOfSeq DEF ConditionInv, ChainInv, ReturnInv
  <2>2. PICK k \in 1 .. Len(chain) : at = chain[k] /\ ReturnedTo(k)
    BY DEF ConditionInv, LinkInv
  <2>3. DOMAIN linked = {chain[j] : j \in k + 1 .. Len(chain)}
    BY <2>2 DEF ReturnedTo
  <2>4. IsTree(tree) /\ Leaves = LeavesOf(tree) /\ Leaves \subseteq Paths
    BY <2>1, TreesAssumption, TreeNodes DEF Leaves
  <2>5. at \in Leaves  BY <2>1, <2>2
  <2> DEFINE q == JumpInfos(tree, at).jump_node
             s == JumpInfos(tree, at).next_node
  <2>6. q = Null \/ (q \in Leaves /\ LeftOf(at, s) /\ s \in Leaves /\ LeftOf(s, q))
    BY <2>4, <2>5, JumpsForwardOf
  <2> HIDE DEF q, s
  <2>7. ASSUME q # Null PROVE q \in DOMAIN linked
    <3>1. q \in Leaves /\ LeftOf(at, q)
      BY <2>4, <2>5, <2>6, <2>7, LeftOfTransitive
    <3>2. PICK j \in 1 .. Len(chain) : chain[j] = q  BY <2>1, <3>1
    <3>3. j # k  BY <2>2, <3>1, <3>2, LeftOfIrreflexive
    <3>4. ~ (j < k)
      <4> SUFFICES ASSUME j < k PROVE FALSE
        OBVIOUS
      <4>1. LeftOf(q, at)  BY <2>1, <2>2, <3>2
      <4> QED  BY <2>4, <2>5, <3>1, <4>1, LeftOfTransitive, LeftOfIrreflexive
    <3>5. j \in k + 1 .. Len(chain)  BY <2>1, <2>2, <3>2, <3>3, <3>4
    <3> QED  BY <2>3, <3>2, <3>5
  <2> QED  BY <2>7 DEF q
<1> QED  BY <1>1, ConditionSafe, PTL

(* Whatever the condition, its jumps go forward and past the operand they   *)
(* would fall through to: the code of a condition has no loop.              *)
THEOREM JumpsForwardCorrect == Spec => []JumpsForward
<1>1. ConditionInv => JumpsForward
  <2> SUFFICES ASSUME ConditionInv, NEW p \in DOMAIN linked
               PROVE  /\ linked[p].next \in Leaves => Before(p, linked[p].next)
                      /\ linked[p].next \in Leaves /\ linked[p].jump \in Leaves
                           => Before(linked[p].next, linked[p].jump)
                      /\ linked[p].next \notin Leaves
                           => linked[p].jump \notin Leaves /\ linked[p].jump # linked[p].next
    BY DEF JumpsForward
  <2>1. tree \in Trees /\ p \in Leaves /\ linked[p] = Resolved(p)
    BY DEF ConditionInv, ChainInv, LinkInv
  <2>2. IsTree(tree) /\ Leaves = LeavesOf(tree) /\ Leaves \subseteq Paths
    BY <2>1, TreesAssumption, TreeNodes DEF Leaves
  <2> DEFINE J == JumpInfos(tree, p)
             next == linked[p].next
             jump == linked[p].jump
  <2>3. /\ next = IF J.next_node # Null THEN J.next_node
                  ELSE IF J.jump_if THEN FalseBlock ELSE TrueBlock
        /\ jump = IF J.jump_node # Null THEN J.jump_node
                  ELSE IF J.jump_if THEN TrueBlock ELSE FalseBlock
    BY <2>1 DEF Resolved
  <2>4. \/ J.next_node = Null /\ J.jump_node = Null /\ J.jump_if = TRUE
        \/ /\ J.next_node \in Leaves /\ LeftOf(p, J.next_node)
           /\ \/ J.jump_node = Null
              \/ J.jump_node \in Leaves /\ LeftOf(J.next_node, J.jump_node)
    BY <2>1, <2>2, JumpsForwardOf
  <2> HIDE DEF J, next, jump
  <2>5. /\ Null \notin Leaves /\ TrueBlock \notin Leaves /\ FalseBlock \notin Leaves
        /\ TrueBlock # FalseBlock
    BY <2>2, NoPath
  <2>6. CASE J.next_node = Null /\ J.jump_node = Null /\ J.jump_if = TRUE
    <3>1. next = FalseBlock /\ jump = TrueBlock  BY <2>3, <2>6
    <3> QED  BY <2>5, <3>1 DEF next, jump
  <2>7. CASE J.next_node \in Leaves /\ LeftOf(p, J.next_node) /\ J.jump_node = Null
    <3>1. next = J.next_node /\ (jump = TrueBlock \/ jump = FalseBlock)
      BY <2>3, <2>5, <2>7
    <3>2. next \in Leaves /\ Before(p, next) /\ jump \notin Leaves
      BY <2>1, <2>2, <2>5, <2>7, <3>1, LeftOfBefore
    <3> QED  BY <3>2 DEF next, jump
  <2>8. CASE /\ J.next_node \in Leaves /\ LeftOf(p, J.next_node)
             /\ J.jump_node \in Leaves /\ LeftOf(J.next_node, J.jump_node)
    <3>1. next = J.next_node /\ jump = J.jump_node  BY <2>3, <2>5, <2>8
    <3>2. next \in Leaves /\ Before(p, next) /\ Before(next, jump)
      BY <2>1, <2>2, <2>8, <3>1, LeftOfBefore
    <3> QED  BY <3>2 DEF next, jump
  <2> QED  BY <2>4, <2>6, <2>7, <2>8
<1> QED  BY <1>1, ConditionSafe, PTL

(* Whatever the condition, the blocks form one chain that holds every       *)
(* operand once in the order of the source and ends in the false block.     *)
THEOREM ChainCompleteCorrect == Spec => []ChainComplete
<1>1. ConditionInv => ChainComplete
  <2> SUFFICES ASSUME ConditionInv, pc \in {"run", "done"}
               PROVE  /\ Len(chain) >= 1 /\ ToSet(chain) = Leaves
                      /\ \A n \in 1 .. Len(chain) - 1 :
                           /\ Before(chain[n], chain[n + 1])
                           /\ linked[chain[n]].next = chain[n + 1]
                      /\ linked[Last(chain)].next = FalseBlock
    BY DEF ChainComplete
  <2>1. /\ tree \in Trees /\ chain \in Seq(Leaves) /\ Len(chain) \in Nat /\ Len(chain) >= 1
        /\ \A m \in 1 .. Len(chain) : \A n \in 1 .. Len(chain) :
             m < n => LeftOf(chain[m], chain[n])
        /\ \A n \in 1 .. Len(chain) : \A m \in 1 .. Len(chain) :
             m = n + 1 => JumpInfos(tree, chain[n]).next_node = chain[m]
        /\ JumpInfos(tree, chain[Len(chain)]).next_node = Null
        /\ \A n \in 1 .. Len(chain) : chain[n] \in Leaves
        /\ \A q \in Leaves : \E n \in 1 .. Len(chain) : chain[n] = q
    BY LenProperties, ElementOfSeq DEF ConditionInv, ChainInv, ReturnInv
  <2>2. IsTree(tree) /\ Leaves = LeavesOf(tree) /\ Leaves \subseteq Paths
    BY <2>1, TreesAssumption, TreeNodes DEF Leaves
  <2>3. \A q \in Leaves : linked[q] = Resolved(q)
    BY DEF ConditionInv, LinkInv
  <2> DEFINE next(q) == JumpInfos(tree, q).next_node
  <2>4. \A q \in Leaves :
          linked[q].next = IF next(q) # Null THEN next(q)
                           ELSE IF JumpInfos(tree, q).jump_if THEN FalseBlock ELSE TrueBlock
    <3>1. \A q : Resolved(q).next = IF next(q) # Null THEN next(q)
                                    ELSE IF JumpInfos(tree, q).jump_if THEN FalseBlock
                                    ELSE TrueBlock
      BY DEF Resolved
    <3> HIDE DEF next
    <3> QED  BY <2>3, <3>1
  <2>5. ToSet(chain) = Leaves
    <3>1. DOMAIN chain = 1 .. Len(chain)  BY <2>1, LenProperties
    <3> QED  BY <2>1, <3>1 DEF ToSet
  <2>6. ASSUME NEW n \in 1 .. Len(chain) - 1
        PROVE  Before(chain[n], chain[n + 1]) /\ linked[chain[n]].next = chain[n + 1]
    <3>0. Len(chain) \in Nat  BY <2>1
    <3>1. n \in 1 .. Len(chain) /\ n + 1 \in 1 .. Len(chain) /\ n < n + 1  BY <3>0
    <3>2. LeftOf(chain[n], chain[n + 1]) /\ JumpInfos(tree, chain[n]).next_node = chain[n + 1]
      BY <2>1, <3>1
    <3>3. chain[n] \in Leaves /\ chain[n + 1] \in Leaves  BY <2>1, <3>1
    <3>4. Before(chain[n], chain[n + 1])  BY <2>2, <3>2, <3>3, LeftOfBefore
    <3>5. chain[n + 1] # Null  BY <2>2, <3>3, NoPath
    <3> QED  BY <2>4, <3>2, <3>3, <3>4, <3>5
  <2>7. linked[Last(chain)].next = FalseBlock
    <3>0. Len(chain) \in 1 .. Len(chain)  BY <2>1
    <3>1. Last(chain) = chain[Len(chain)] /\ chain[Len(chain)] \in Leaves
      BY <2>1, <3>0 DEF Last
    <3>2. next(chain[Len(chain)]) = Null  BY <2>1
    <3>3. JumpInfos(tree, chain[Len(chain)]).jump_if = TRUE
      BY <2>2, <3>1, <3>2, NoPath, JumpsForwardOf
    <3> QED  BY <2>4, <3>1, <3>2, <3>3
  <2> QED  BY <2>1, <2>5, <2>6, <2>7
<1> QED  BY <1>1, ConditionSafe, PTL

----------------------------------------------------------------------------
(* Among any nodes there is one of which neither child is among them.       *)
LEMMA LowestNode ==
  ASSUME NEW t, IsTree(t), NEW S, S \subseteq DOMAIN t, S # {}
  PROVE  \E p \in S : t[p] # "leaf" => /\ Append(p, "l") \notin S /\ Append(p, "r") \notin S
<1>1. PICK deepest \in DOMAIN t : \A q \in DOMAIN t : Len(q) <= Len(deepest)
  BY DEF IsTree
<1>2. \A q \in DOMAIN t : q \in Paths /\ Len(q) \in Nat  BY TreeNodes, PathElements
<1> DEFINE T == {Len(q) : q \in S}
<1>3. T \subseteq Nat /\ T # {} /\ Len(deepest) \in Nat /\ \A n \in T : n <= Len(deepest)
  BY <1>1, <1>2
<1> HIDE DEF T
<1>4. PICK n \in T : \A m \in T : m <= n  BY <1>3, GreatestNatural
<1>5. PICK p \in S : n = Len(p)  BY <1>4 DEF T
<1>6. \A q \in S : Len(q) <= Len(p)  BY <1>4, <1>5 DEF T
<1>7. p \in Paths /\ Len(p) \in Nat  BY <1>2
<1>8. Len(Append(p, "l")) = Len(p) + 1 /\ Len(Append(p, "r")) = Len(p) + 1
  BY <1>7, Down
<1>9. ~ (Len(p) + 1 <= Len(p))  BY <1>7
<1> QED  BY <1>6, <1>8, <1>9

(* A function of a node, by what it is at the node's children.              *)
Recurses(t, V, g, f, h) ==
  /\ h \in [DOMAIN t -> V]
  /\ \A p \in DOMAIN t :
       /\ t[p] = "leaf" => h[p] = g[p]
       /\ t[p] # "leaf" => h[p] = f[p][h[Append(p, "l")]][h[Append(p, "r")]]

(* There is one.                                                            *)
LEMMA TreeRecursion ==
  ASSUME NEW t, IsTree(t), NEW V, V # {}, NEW g \in [DOMAIN t -> V],
         NEW f \in [DOMAIN t -> [V -> [V -> V]]]
  PROVE  \E h : Recurses(t, V, g, f, h)
<1>1. PICK deepest \in DOMAIN t : \A q \in DOMAIN t : Len(q) <= Len(deepest)
  BY DEF IsTree
<1>2. \A q \in DOMAIN t : q \in Paths /\ Len(q) \in Nat  BY TreeNodes, PathElements
<1> DEFINE At(h, p) ==
             h[p] = IF t[p] = "leaf" THEN g[p] ELSE f[p][h[Append(p, "l")]][h[Append(p, "r")]]
           Below(h, n) == \A p \in DOMAIN t : n <= Len(p) => At(h, p)
           T == {n \in Nat : \E h \in [DOMAIN t -> V] : Below(h, n)}
<1>3. Len(deepest) + 1 \in T
  <2>1. Len(deepest) + 1 \in Nat /\ \A q \in DOMAIN t : ~ (Len(deepest) + 1 <= Len(q))
    BY <1>1, <1>2
  <2> HIDE DEF At
  <2> QED  BY <2>1
<1>4. T \subseteq Nat  OBVIOUS
<1>5. PICK n \in T : \A m \in T : n <= m
  <2> HIDE DEF T
  <2> QED  BY <1>3, <1>4, LeastNatural
<1>6. PICK h \in [DOMAIN t -> V] : Below(h, n)
  <2> HIDE DEF Below
  <2> QED  BY <1>5
<1>7. n \in Nat  BY <1>4
<1>8. n = 0
  <2> SUFFICES ASSUME n # 0 PROVE FALSE
    OBVIOUS
  <2>1. n - 1 \in Nat /\ ~ (n <= n - 1)  BY <1>7
  <2> DEFINE k == [p \in DOMAIN t |->
                     IF Len(p) = n - 1
                     THEN IF t[p] = "leaf" THEN g[p] ELSE f[p][h[Append(p, "l")]][h[Append(p, "r")]]
                     ELSE h[p]]
  <2>2. ASSUME NEW p \in DOMAIN t, t[p] # "leaf"
        PROVE  /\ Append(p, "l") \in DOMAIN t /\ Len(Append(p, "l")) = Len(p) + 1
               /\ Append(p, "r") \in DOMAIN t /\ Len(Append(p, "r")) = Len(p) + 1
    BY <1>2, <2>2, Children, Down
  <2>3. k \in [DOMAIN t -> V]
    <3> SUFFICES ASSUME NEW p \in DOMAIN t, t[p] # "leaf"
                 PROVE  f[p][h[Append(p, "l")]][h[Append(p, "r")]] \in V
      OBVIOUS
    <3>1. h[Append(p, "l")] \in V /\ h[Append(p, "r")] \in V  BY <2>2
    <3> QED  BY <3>1
  <2>4. \A q \in DOMAIN t : Len(q) # n - 1 => k[q] = h[q]  OBVIOUS
  <2>5. \A q \in DOMAIN t : Len(q) = n - 1 =>
          k[q] = IF t[q] = "leaf" THEN g[q] ELSE f[q][h[Append(q, "l")]][h[Append(q, "r")]]
    OBVIOUS
  <2> HIDE DEF k
  <2>6. ASSUME NEW p \in DOMAIN t, n - 1 <= Len(p) PROVE At(k, p)
    <3>1. ASSUME t[p] # "leaf"
          PROVE  /\ k[Append(p, "l")] = h[Append(p, "l")]
                 /\ k[Append(p, "r")] = h[Append(p, "r")]
      <4>1. Len(p) + 1 # n - 1  BY <1>2, <1>7, <2>1, <2>6
      <4> QED  BY <2>2, <2>4, <3>1, <4>1
    <3>2. CASE Len(p) = n - 1
      <4>1. CASE t[p] = "leaf"  BY <2>5, <3>2, <4>1
      <4>2. CASE t[p] # "leaf"  BY <2>5, <3>1, <3>2, <4>2
      <4> QED  BY <4>1, <4>2
    <3>3. CASE Len(p) # n - 1
      <4>1. n <= Len(p)  BY <1>2, <1>7, <2>6, <3>3
      <4>2. k[p] = h[p] /\ At(h, p)  BY <1>6, <2>4, <3>3, <4>1
      <4>3. CASE t[p] = "leaf"  BY <4>2, <4>3
      <4>4. CASE t[p] # "leaf"  BY <3>1, <4>2, <4>4
      <4> QED  BY <4>3, <4>4
    <3> QED  BY <3>2, <3>3
  <2> HIDE DEF At
  <2>7. n - 1 \in T  BY <2>1, <2>3, <2>6
  <2> HIDE DEF T
  <2> QED  BY <1>5, <2>1, <2>7
<1>9. \A p \in DOMAIN t : At(h, p)
  <2> HIDE DEF At
  <2> QED  BY <1>2, <1>6, <1>8
<1> QED  BY <1>9 DEF Recurses

----------------------------------------------------------------------------
(* What & and | make of sets of values.                                     *)
LEMMA Combinations ==
  ASSUME NEW A, NEW B, A \subseteq BOOLEAN, B \subseteq BOOLEAN, A # {}, B # {}
  PROVE  /\ E!Conjunctions(A, B) \subseteq BOOLEAN /\ E!Conjunctions(A, B) # {}
         /\ E!Disjunctions(A, B) \subseteq BOOLEAN /\ E!Disjunctions(A, B) # {}
         /\ A = {TRUE} => E!Conjunctions(A, B) = B
         /\ A = {FALSE} => E!Conjunctions(A, B) = {FALSE}
         /\ A = {FALSE} => E!Disjunctions(A, B) = B
         /\ A = {TRUE} => E!Disjunctions(A, B) = {TRUE}
         /\ A = BOOLEAN /\ B = BOOLEAN => /\ E!Conjunctions(A, B) = BOOLEAN
                                          /\ E!Disjunctions(A, B) = BOOLEAN
<1> DEFINE C == E!Conjunctions(A, B)
           D == E!Disjunctions(A, B)
<1>1. C = {a /\ b : a \in A, b \in B} /\ D = {a \/ b : a \in A, b \in B}
  BY DEF E!Conjunctions, E!Disjunctions
<1> HIDE DEF C, D
<1>2. \A a \in A : \A b \in B : (a /\ b) \in C /\ (a \/ b) \in D  BY <1>1
<1>3. \A c \in C : \E a \in A : \E b \in B : c = (a /\ b)  BY <1>1
<1>4. \A c \in D : \E a \in A : \E b \in B : c = (a \/ b)  BY <1>1
<1>5. C \subseteq BOOLEAN /\ D \subseteq BOOLEAN  BY <1>3, <1>4
<1>6. TRUE \in C <=> TRUE \in A /\ TRUE \in B  BY <1>2, <1>3
<1>7. FALSE \in C <=> FALSE \in A \/ FALSE \in B  BY <1>2, <1>3
<1>8. TRUE \in D <=> TRUE \in A \/ TRUE \in B  BY <1>2, <1>4
<1>9. FALSE \in D <=> FALSE \in A /\ FALSE \in B  BY <1>2, <1>4
<1>10. ASSUME NEW X, NEW Y, X \subseteq BOOLEAN, Y \subseteq BOOLEAN,
              TRUE \in X <=> TRUE \in Y, FALSE \in X <=> FALSE \in Y
       PROVE  X = Y
  <2>1. \A z \in BOOLEAN : z = TRUE \/ z = FALSE  OBVIOUS
  <2>2. \A z \in BOOLEAN : z \in X <=> z \in Y  BY <1>10, <2>1, Zenon
  <2>3. \A z : z \in X <=> z \in Y  BY <1>10, <2>2, Zenon
  <2> QED  BY <2>3
<1>11. (TRUE \in A \/ FALSE \in A) /\ (TRUE \in B \/ FALSE \in B)  OBVIOUS
<1>12. C # {} /\ D # {}  BY <1>6, <1>7, <1>8, <1>9, <1>11
<1>13. (A = {TRUE} => C = B) /\ (A = {FALSE} => C = {FALSE})
  BY <1>5, <1>6, <1>7, <1>10, <1>11
<1>14. (A = {FALSE} => D = B) /\ (A = {TRUE} => D = {TRUE})
  BY <1>5, <1>8, <1>9, <1>10, <1>11
<1>15. A = BOOLEAN /\ B = BOOLEAN => C = BOOLEAN /\ D = BOOLEAN
  BY <1>5, <1>6, <1>7, <1>8, <1>9, <1>10
<1> QED  BY <1>5, <1>12, <1>13, <1>14, <1>15 DEF C, D

(* The values a node can take: one at least.                                *)
ValueSets == (SUBSET BOOLEAN) \ {{}}

(* What a formula's nodes can still be, by the nodes below.                 *)
LEMMA PossibleSteps ==
  ASSUME NEW t, IsTree(t), NEW g \in [DOMAIN t -> SUBSET BOOLEAN], NEW p \in DOMAIN t
  PROVE  LET P == E!PossibleValues(t, g)
         IN  /\ t[p] = "leaf" /\ g[p] = {} => P[p] = BOOLEAN
             /\ t[p] = "leaf" /\ g[p] # {} => P[p] = g[p]
             /\ t[p] = "and" => P[p] = E!Conjunctions(P[Append(p, "l")], P[Append(p, "r")])
             /\ t[p] = "or" => P[p] = E!Disjunctions(P[Append(p, "l")], P[Append(p, "r")])
<1> DEFINE P == E!PossibleValues(t, g)
           value(h, q) == IF t[q] = "leaf" THEN IF g[q] = {} THEN BOOLEAN ELSE g[q]
                          ELSE IF t[q] = "and"
                          THEN E!Conjunctions(h[Append(q, "l")], h[Append(q, "r")])
                          ELSE E!Disjunctions(h[Append(q, "l")], h[Append(q, "r")])
           Is(h) == h = [q \in DOMAIN t |-> value(h, q)]
           first == [q \in DOMAIN t |-> IF g[q] = {} THEN BOOLEAN ELSE g[q]]
           step == [q \in DOMAIN t |-> [a \in ValueSets |-> [b \in ValueSets |->
                      IF t[q] = "and" THEN E!Conjunctions(a, b) ELSE E!Disjunctions(a, b)]]]
<1>1. \A a, b \in ValueSets : E!Conjunctions(a, b) \in ValueSets /\ E!Disjunctions(a, b) \in ValueSets
  BY Combinations DEF ValueSets
<1>2. ValueSets # {} /\ first \in [DOMAIN t -> ValueSets]  BY DEF ValueSets
<1>3. step \in [DOMAIN t -> [ValueSets -> [ValueSets -> ValueSets]]]  BY <1>1
<1>4. PICK h : Recurses(t, ValueSets, first, step, h)
  <2> HIDE DEF first, step
  <2> QED  BY <1>2, <1>3, TreeRecursion, Zenon
<1>5. Is(h)
  <2>1. /\ h \in [DOMAIN t -> ValueSets]
        /\ \A q \in DOMAIN t :
             /\ t[q] = "leaf" => h[q] = first[q]
             /\ t[q] # "leaf" => h[q] = step[q][h[Append(q, "l")]][h[Append(q, "r")]]
    <3> HIDE DEF first, step
    <3> QED  BY <1>4 DEF Recurses
  <2>2. ASSUME NEW q \in DOMAIN t PROVE h[q] = value(h, q)
    <3>1. CASE t[q] = "leaf"
      <4>1. h[q] = first[q]  BY <2>1, <3>1
      <4> QED  BY <3>1, <4>1
    <3>2. CASE t[q] # "leaf"
      <4>1. h[Append(q, "l")] \in ValueSets /\ h[Append(q, "r")] \in ValueSets
        BY <2>1, <3>2, Children
      <4>2. h[q] = step[q][h[Append(q, "l")]][h[Append(q, "r")]]  BY <2>1, <3>2
      <4>3. PICK a \in ValueSets, b \in ValueSets : a = h[Append(q, "l")] /\ b = h[Append(q, "r")]
        BY <4>1
      <4>4. step[q][a][b] = IF t[q] = "and" THEN E!Conjunctions(a, b) ELSE E!Disjunctions(a, b)
        OBVIOUS
      <4> QED  BY <3>2, <4>2, <4>3, <4>4
    <3> QED  BY <3>1, <3>2
  <2> HIDE DEF value
  <2> QED  BY <2>1, <2>2
<1>6. P = CHOOSE k : Is(k)  BY Zenon DEF E!PossibleValues
<1>7. Is(P)
  <2> HIDE DEF Is, P
  <2> QED  BY <1>5, <1>6, Zenon
<1> HIDE DEF P
<1>8. P[p] = value(P, p)
  <2> HIDE DEF value
  <2> QED  BY <1>7
<1> QED  BY <1>8 DEF P

(* What a formula's nodes are decided to be, by the nodes below.            *)
LEMMA DecidedSteps ==
  ASSUME NEW t, IsTree(t), NEW g \in [DOMAIN t -> SUBSET BOOLEAN], NEW p \in DOMAIN t
  PROVE  LET D == E!Decided(t, g)
             left == D[Append(p, "l")]
         IN  /\ t[p] = "leaf" => D[p] = g[p]
             /\ t[p] # "leaf" /\ (left = {} \/ left = {t[p] = "or"}) => D[p] = left
             /\ t[p] # "leaf" /\ ~ (left = {} \/ left = {t[p] = "or"}) => D[p] = D[Append(p, "r")]
<1> DEFINE D == E!Decided(t, g)
           V == SUBSET BOOLEAN
           value(h, q) == IF t[q] = "leaf" THEN g[q]
                          ELSE IF h[Append(q, "l")] \in {{}, {t[q] = "or"}}
                          THEN h[Append(q, "l")] ELSE h[Append(q, "r")]
           Is(h) == h = [q \in DOMAIN t |-> value(h, q)]
           step == [q \in DOMAIN t |-> [a \in V |-> [b \in V |->
                      IF a \in {{}, {t[q] = "or"}} THEN a ELSE b]]]
<1>1. V # {} /\ g \in [DOMAIN t -> V]  OBVIOUS
<1>2. step \in [DOMAIN t -> [V -> [V -> V]]]
  <2> HIDE DEF V
  <2> QED  OBVIOUS
<1>3. PICK h : Recurses(t, V, g, step, h)
  <2> HIDE DEF step, V
  <2> QED  BY <1>1, <1>2, TreeRecursion, Zenon
<1>4. Is(h)
  <2>1. /\ h \in [DOMAIN t -> V]
        /\ \A q \in DOMAIN t :
             /\ t[q] = "leaf" => h[q] = g[q]
             /\ t[q] # "leaf" => h[q] = step[q][h[Append(q, "l")]][h[Append(q, "r")]]
    <3> HIDE DEF step, V
    <3> QED  BY <1>3 DEF Recurses
  <2> HIDE DEF V
  <2>2. ASSUME NEW q \in DOMAIN t PROVE h[q] = value(h, q)
    <3>1. CASE t[q] = "leaf"  BY <2>1, <3>1
    <3>2. CASE t[q] # "leaf"
      <4>1. h[Append(q, "l")] \in V /\ h[Append(q, "r")] \in V
        BY <2>1, <3>2, Children
      <4>2. h[q] = step[q][h[Append(q, "l")]][h[Append(q, "r")]]  BY <2>1, <3>2
      <4>3. PICK a \in V, b \in V : a = h[Append(q, "l")] /\ b = h[Append(q, "r")]
        BY <4>1
      <4>4. step[q][a][b] = IF a \in {{}, {t[q] = "or"}} THEN a ELSE b
        OBVIOUS
      <4> QED  BY <3>2, <4>2, <4>3, <4>4
    <3> QED  BY <3>1, <3>2
  <2> HIDE DEF value
  <2> QED  BY <2>1, <2>2
<1>5. D = CHOOSE k : Is(k)  BY Zenon DEF E!Decided
<1>6. Is(D)
  <2> HIDE DEF Is, D
  <2> QED  BY <1>4, <1>5, Zenon
<1> HIDE DEF D
<1>7. D[p] = value(D, p)
  <2> HIDE DEF value
  <2> QED  BY <1>6
<1> QED  BY <1>7 DEF D

(* Which leaf a formula needs next, by the nodes below.                     *)
LEMMA NeededSteps ==
  ASSUME NEW t, IsTree(t), NEW g \in [DOMAIN t -> SUBSET BOOLEAN], NEW p \in DOMAIN t
  PROVE  LET N == E!NextLeaf(t, g)
             left == E!Decided(t, g)[Append(p, "l")]
         IN  /\ t[p] = "leaf" => N[p] = p
             /\ t[p] # "leaf" /\ left = {} => N[p] = N[Append(p, "l")]
             /\ t[p] # "leaf" /\ left # {} => N[p] = N[Append(p, "r")]
<1> DEFINE N == E!NextLeaf(t, g)
           left(q) == E!Decided(t, g)[Append(q, "l")]
           V == DOMAIN t
           value(h, q) == IF t[q] = "leaf" THEN q
                          ELSE IF left(q) = {} THEN h[Append(q, "l")] ELSE h[Append(q, "r")]
           Is(h) == h = [q \in DOMAIN t |-> value(h, q)]
           first == [q \in DOMAIN t |-> q]
           step == [q \in DOMAIN t |-> [a \in V |-> [b \in V |-> IF left(q) = {} THEN a ELSE b]]]
<1>1. V # {} /\ first \in [DOMAIN t -> V]  OBVIOUS
<1>2. step \in [DOMAIN t -> [V -> [V -> V]]]
  <2> HIDE DEF V, left
  <2> QED  OBVIOUS
<1>3. PICK h : Recurses(t, V, first, step, h)
  <2> HIDE DEF first, step, V
  <2> QED  BY <1>1, <1>2, TreeRecursion, Zenon
<1>4. Is(h)
  <2>1. /\ h \in [DOMAIN t -> V]
        /\ \A q \in DOMAIN t :
             /\ t[q] = "leaf" => h[q] = first[q]
             /\ t[q] # "leaf" => h[q] = step[q][h[Append(q, "l")]][h[Append(q, "r")]]
    <3> HIDE DEF first, step, V
    <3> QED  BY <1>3 DEF Recurses
  <2> HIDE DEF left
  <2>2. ASSUME NEW q \in DOMAIN t PROVE h[q] = value(h, q)
    <3>1. CASE t[q] = "leaf"
      <4>1. h[q] = first[q]  BY <2>1, <3>1
      <4> QED  BY <3>1, <4>1
    <3>2. CASE t[q] # "leaf"
      <4>1. h[Append(q, "l")] \in V /\ h[Append(q, "r")] \in V
        BY <2>1, <3>2, Children
      <4>2. h[q] = step[q][h[Append(q, "l")]][h[Append(q, "r")]]  BY <2>1, <3>2
      <4>3. PICK a \in V, b \in V : a = h[Append(q, "l")] /\ b = h[Append(q, "r")]
        BY <4>1
      <4>4. step[q][a][b] = IF left(q) = {} THEN a ELSE b
        OBVIOUS
      <4> QED  BY <3>2, <4>2, <4>3, <4>4
    <3> QED  BY <3>1, <3>2
  <2> HIDE DEF value
  <2> QED  BY <2>1, <2>2
<1>5. N = CHOOSE k : Is(k)  BY Zenon DEF E!NextLeaf
<1>6. Is(N)
  <2> HIDE DEF Is, N
  <2> QED  BY <1>4, <1>5, Zenon
<1> HIDE DEF N
<1>7. N[p] = value(N, p)
  <2> HIDE DEF value
  <2> QED  BY <1>6
<1> QED  BY <1>7 DEF N

(* There is always a value a node can have.                                 *)
LEMMA PossibleType ==
  ASSUME NEW t, IsTree(t), NEW g \in [DOMAIN t -> SUBSET BOOLEAN], NEW p \in DOMAIN t
  PROVE  E!PossibleValues(t, g)[p] \subseteq BOOLEAN /\ E!PossibleValues(t, g)[p] # {}
<1> DEFINE P == E!PossibleValues(t, g)
           Fine(q) == P[q] \subseteq BOOLEAN /\ P[q] # {}
           S == {q \in DOMAIN t : ~ Fine(q)}
<1>1. SUFFICES ASSUME S # {} PROVE FALSE
  OBVIOUS
<1>2. PICK q \in S : t[q] # "leaf" => Append(q, "l") \notin S /\ Append(q, "r") \notin S
  <2>1. S \subseteq DOMAIN t  OBVIOUS
  <2> HIDE DEF S
  <2> QED  BY <1>1, <2>1, LowestNode
<1>3. q \in DOMAIN t /\ ~ Fine(q)  BY <1>2
<1>4. /\ t[q] = "leaf" /\ g[q] = {} => P[q] = BOOLEAN
      /\ t[q] = "leaf" /\ g[q] # {} => P[q] = g[q]
      /\ t[q] = "and" => P[q] = E!Conjunctions(P[Append(q, "l")], P[Append(q, "r")])
      /\ t[q] = "or" => P[q] = E!Disjunctions(P[Append(q, "l")], P[Append(q, "r")])
  BY <1>3, PossibleSteps
<1> HIDE DEF P
<1>5. CASE t[q] = "leaf"
  <2>1. g[q] \subseteq BOOLEAN  BY <1>3
  <2> QED  BY <1>3, <1>4, <1>5, <2>1
<1>6. CASE t[q] # "leaf"
  <2>1. Fine(Append(q, "l")) /\ Fine(Append(q, "r"))  BY <1>2, <1>3, <1>6, Children
  <2>2. t[q] = "and" \/ t[q] = "or"  BY <1>3, <1>6, TreeNodes
  <2>3. PICK A, B : A = P[Append(q, "l")] /\ B = P[Append(q, "r")]  OBVIOUS
  <2>4. A \subseteq BOOLEAN /\ A # {} /\ B \subseteq BOOLEAN /\ B # {}  BY <2>1, <2>3
  <2>5. P[q] = E!Conjunctions(A, B) \/ P[q] = E!Disjunctions(A, B)  BY <1>4, <2>2, <2>3
  <2>6. /\ E!Conjunctions(A, B) \subseteq BOOLEAN /\ E!Conjunctions(A, B) # {}
        /\ E!Disjunctions(A, B) \subseteq BOOLEAN /\ E!Disjunctions(A, B) # {}
    BY <2>4, Combinations
  <2> QED  BY <1>3, <2>5, <2>6
<1> QED  BY <1>5, <1>6

----------------------------------------------------------------------------
(* A node that has a value, and is decided to have it.                      *)
Settled(t, g, u, v) ==
  E!PossibleValues(t, g)[u] = {v} /\ E!Decided(t, g)[u] = {v}

(* A node that can have both values, of which p is the leaf to evaluate.    *)
Open(t, g, u, p) ==
  /\ E!PossibleValues(t, g)[u] = BOOLEAN /\ E!Decided(t, g)[u] = {}
  /\ E!NextLeaf(t, g)[u] = p

(* The value on the left of a node that leaves it to the right.             *)
Neutral(t, u) == t[u] = "and"

(* FALSE on the left settles an &, TRUE an |;                               *)
LEMMA SettledLeft ==
  ASSUME NEW t, IsTree(t), NEW g \in [DOMAIN t -> SUBSET BOOLEAN],
         NEW a \in DOMAIN t, t[a] # "leaf", NEW v \in BOOLEAN,
         v = (t[a] = "or"), Settled(t, g, Append(a, "l"), v)
  PROVE  Settled(t, g, a, v)
<1> DEFINE P == E!PossibleValues(t, g)
           D == E!Decided(t, g)
<1>1. Append(a, "l") \in DOMAIN t /\ Append(a, "r") \in DOMAIN t  BY Children
<1>2. PICK A, B : A = P[Append(a, "l")] /\ B = P[Append(a, "r")]  OBVIOUS
<1>3. A = {v} /\ A \subseteq BOOLEAN /\ A # {} /\ B \subseteq BOOLEAN /\ B # {}
  BY <1>1, <1>2, PossibleType DEF Settled
<1>4. D[a] = {v}  BY DecidedSteps DEF Settled
<1>5. /\ t[a] = "and" => P[a] = E!Conjunctions(A, B)
      /\ t[a] = "or" => P[a] = E!Disjunctions(A, B)
  BY <1>2, PossibleSteps
<1>6. CASE t[a] = "and"
  <2>1. v = FALSE  BY <1>6
  <2>2. E!Conjunctions(A, B) = {FALSE}  BY <1>3, <2>1, Combinations
  <2> QED  BY <1>4, <1>5, <1>6, <2>1, <2>2 DEF Settled
<1>7. CASE t[a] = "or"
  <2>1. v = TRUE  BY <1>7
  <2>2. E!Disjunctions(A, B) = {TRUE}  BY <1>3, <2>1, Combinations
  <2> QED  BY <1>4, <1>5, <1>7, <2>1, <2>2 DEF Settled
<1> QED  BY <1>6, <1>7, TreeNodes

(* the other value leaves it to the right,                                  *)
LEMMA NeutralLeft ==
  ASSUME NEW t, IsTree(t), NEW g \in [DOMAIN t -> SUBSET BOOLEAN],
         NEW a \in DOMAIN t, t[a] # "leaf", Settled(t, g, Append(a, "l"), Neutral(t, a))
  PROVE  /\ E!PossibleValues(t, g)[a] = E!PossibleValues(t, g)[Append(a, "r")]
         /\ E!Decided(t, g)[a] = E!Decided(t, g)[Append(a, "r")]
         /\ E!NextLeaf(t, g)[a] = E!NextLeaf(t, g)[Append(a, "r")]
<1> DEFINE P == E!PossibleValues(t, g)
           D == E!Decided(t, g)
<1>1. Append(a, "l") \in DOMAIN t /\ Append(a, "r") \in DOMAIN t  BY Children
<1>2. PICK A, B : A = P[Append(a, "l")] /\ B = P[Append(a, "r")]  OBVIOUS
<1>3. /\ A = {t[a] = "and"} /\ A \subseteq BOOLEAN /\ A # {} /\ B \subseteq BOOLEAN /\ B # {}
      /\ D[Append(a, "l")] = {t[a] = "and"}
  BY <1>1, <1>2, PossibleType DEF Settled, Neutral
<1>4. /\ t[a] = "and" => P[a] = E!Conjunctions(A, B)
      /\ t[a] = "or" => P[a] = E!Disjunctions(A, B)
  BY <1>2, PossibleSteps
<1>5. /\ ~ (D[Append(a, "l")] = {} \/ D[Append(a, "l")] = {t[a] = "or"})
         => D[a] = D[Append(a, "r")]
      /\ D[Append(a, "l")] # {} => E!NextLeaf(t, g)[a] = E!NextLeaf(t, g)[Append(a, "r")]
  BY DecidedSteps, NeededSteps
<1> HIDE DEF P, D
<1>6. /\ A = {TRUE} => E!Conjunctions(A, B) = B
      /\ A = {FALSE} => E!Disjunctions(A, B) = B
  <2>1. A \subseteq BOOLEAN /\ A # {} /\ B \subseteq BOOLEAN /\ B # {}  BY <1>3
  <2> QED  BY <2>1, Combinations
<1>7. CASE t[a] = "and"
  <2>1. (t[a] = "and") = TRUE /\ (t[a] = "or") = FALSE  BY <1>7
  <2>2. A = {TRUE} /\ D[Append(a, "l")] = {TRUE} /\ {TRUE} # {FALSE} /\ {TRUE} # {}
    BY <1>3, <2>1
  <2>3. E!Conjunctions(A, B) = B  BY <1>6, <2>2
  <2> QED  BY <1>2, <1>4, <1>5, <1>7, <2>1, <2>2, <2>3 DEF P, D
<1>8. CASE t[a] = "or"
  <2>1. (t[a] = "and") = FALSE /\ (t[a] = "or") = TRUE  BY <1>8
  <2>2. A = {FALSE} /\ D[Append(a, "l")] = {FALSE} /\ {FALSE} # {TRUE} /\ {FALSE} # {}
    BY <1>3, <2>1
  <2>3. E!Disjunctions(A, B) = B  BY <1>6, <2>2
  <2> QED  BY <1>2, <1>4, <1>5, <1>8, <2>1, <2>2, <2>3 DEF P, D
<1> QED  BY <1>7, <1>8, TreeNodes

(* An operator whose left operand is neutral and whose right one is settled *)
(* is settled with it.                                                      *)
LEMMA SettledRight ==
  ASSUME NEW t, IsTree(t), NEW g \in [DOMAIN t -> SUBSET BOOLEAN],
         NEW a \in DOMAIN t, t[a] # "leaf", NEW v,
         Settled(t, g, Append(a, "l"), Neutral(t, a)), Settled(t, g, Append(a, "r"), v)
  PROVE  Settled(t, g, a, v)
<1>1. /\ E!PossibleValues(t, g)[a] = E!PossibleValues(t, g)[Append(a, "r")]
      /\ E!Decided(t, g)[a] = E!Decided(t, g)[Append(a, "r")]
  BY NeutralLeft
<1> QED  BY <1>1 DEF Settled

(* and while the left is open it is.                                        *)
LEMMA OpenLeft ==
  ASSUME NEW t, IsTree(t), NEW g \in [DOMAIN t -> SUBSET BOOLEAN],
         NEW a \in DOMAIN t, t[a] # "leaf", NEW p, Open(t, g, Append(a, "l"), p),
         E!PossibleValues(t, g)[Append(a, "r")] = BOOLEAN
  PROVE  Open(t, g, a, p)
<1> DEFINE P == E!PossibleValues(t, g)
<1>1. E!Decided(t, g)[a] = {} /\ E!NextLeaf(t, g)[a] = p
  BY DecidedSteps, NeededSteps DEF Open
<1>2. PICK A, B : A = P[Append(a, "l")] /\ B = P[Append(a, "r")]  OBVIOUS
<1>3. A = BOOLEAN /\ B = BOOLEAN  BY <1>2 DEF Open
<1>4. E!Conjunctions(A, B) = BOOLEAN /\ E!Disjunctions(A, B) = BOOLEAN
  BY <1>3, Combinations
<1>5. /\ t[a] = "and" => P[a] = E!Conjunctions(A, B)
      /\ t[a] = "or" => P[a] = E!Disjunctions(A, B)
  BY <1>2, PossibleSteps
<1> QED  BY <1>1, <1>4, <1>5, TreeNodes DEF Open

----------------------------------------------------------------------------
(* The operand k is in the part of the condition below the node u.          *)
Under(u, k) == Len(u) <= Len(k) /\ \A m \in 1 .. Len(u) : k[m] = u[m]

(* What is below a child is below the node.                                 *)
LEMMA UnderChild ==
  ASSUME NEW u \in Paths, NEW k \in Paths, NEW side \in {"l", "r"}, Under(Append(u, side), k)
  PROVE  Under(u, k)
<1> DEFINE c == Append(u, side)
<1>1. Len(u) \in Nat /\ Len(k) \in Nat  BY PathElements
<1>2. Len(c) = Len(u) + 1 /\ \A m \in 1 .. Len(u) : c[m] = u[m]  BY Down
<1>3. Len(c) <= Len(k) /\ \A m \in 1 .. Len(c) : k[m] = c[m]  BY DEF Under
<1> HIDE DEF c
<1>4. Len(u) <= Len(k) /\ \A m \in 1 .. Len(u) : m \in 1 .. Len(c)  BY <1>1, <1>2, <1>3
<1>5. \A m \in 1 .. Len(u) : k[m] = u[m]  BY <1>2, <1>3, <1>4
<1> QED  BY <1>4, <1>5 DEF Under

(* An operand is below itself only.                                         *)
LEMMA UnderItself ==
  ASSUME NEW p \in Paths
  PROVE  Under(p, p)
BY PathElements DEF Under

(* What a node can be depends on the answers below it only.                 *)
LEMMA SameBelow ==
  ASSUME NEW t, IsTree(t), NEW g \in [DOMAIN t -> SUBSET BOOLEAN],
         NEW h \in [DOMAIN t -> SUBSET BOOLEAN], NEW u \in DOMAIN t,
         \A k \in LeavesOf(t) : Under(u, k) => g[k] = h[k]
  PROVE  /\ E!PossibleValues(t, g)[u] = E!PossibleValues(t, h)[u]
         /\ E!Decided(t, g)[u] = E!Decided(t, h)[u]
<1> DEFINE P(q) == E!PossibleValues(t, g)[q]
           R(q) == E!PossibleValues(t, h)[q]
           D(q) == E!Decided(t, g)[q]
           F(q) == E!Decided(t, h)[q]
           Agree(q) == \A k \in LeavesOf(t) : Under(q, k) => g[k] = h[k]
           S == {q \in DOMAIN t : Agree(q) /\ ~ (P(q) = R(q) /\ D(q) = F(q))}
<1>1. SUFFICES ASSUME S # {} PROVE FALSE
  OBVIOUS
<1>2. PICK q \in S : t[q] # "leaf" => Append(q, "l") \notin S /\ Append(q, "r") \notin S
  <2>1. S \subseteq DOMAIN t  OBVIOUS
  <2> HIDE DEF S
  <2> QED  BY <1>1, <2>1, LowestNode
<1>3. q \in DOMAIN t /\ Agree(q) /\ ~ (P(q) = R(q) /\ D(q) = F(q))  BY <1>2
<1>4. q \in Paths /\ LeavesOf(t) \subseteq Paths  BY <1>3, TreeNodes
<1>5. CASE t[q] = "leaf"
  <2>1. q \in LeavesOf(t)  BY <1>3, <1>5 DEF LeavesOf
  <2>2. g[q] = h[q]  BY <1>3, <1>4, <2>1, UnderItself
  <2>3. (g[q] = {} => P(q) = BOOLEAN) /\ (g[q] # {} => P(q) = g[q]) /\ D(q) = g[q]
    BY <1>3, <1>5, PossibleSteps, DecidedSteps
  <2>4. (h[q] = {} => R(q) = BOOLEAN) /\ (h[q] # {} => R(q) = h[q]) /\ F(q) = h[q]
    BY <1>3, <1>5, PossibleSteps, DecidedSteps
  <2> HIDE DEF P, R, D, F
  <2> QED  BY <1>3, <2>2, <2>3, <2>4
<1>6. CASE t[q] # "leaf"
  <2>1. Append(q, "l") \in DOMAIN t /\ Append(q, "r") \in DOMAIN t  BY <1>3, <1>6, Children
  <2>2. Agree(Append(q, "l")) /\ Agree(Append(q, "r"))
    <3> HIDE DEF P, R, D, F, S
    <3>1. \A k \in LeavesOf(t) : Under(Append(q, "l"), k) \/ Under(Append(q, "r"), k) => Under(q, k)
      BY <1>4, UnderChild
    <3> QED  BY <1>3, <3>1
  <2> HIDE DEF Agree
  <2>3. /\ P(Append(q, "l")) = R(Append(q, "l")) /\ D(Append(q, "l")) = F(Append(q, "l"))
        /\ P(Append(q, "r")) = R(Append(q, "r")) /\ D(Append(q, "r")) = F(Append(q, "r"))
    <3> HIDE DEF P, R, D, F
    <3> QED  BY <1>2, <1>6, <2>1, <2>2
  <2>4. P(q) = R(q)
    <3>1. /\ t[q] = "and" => P(q) = E!Conjunctions(P(Append(q, "l")), P(Append(q, "r")))
          /\ t[q] = "or" => P(q) = E!Disjunctions(P(Append(q, "l")), P(Append(q, "r")))
      BY <1>3, PossibleSteps
    <3>2. /\ t[q] = "and" => R(q) = E!Conjunctions(R(Append(q, "l")), R(Append(q, "r")))
          /\ t[q] = "or" => R(q) = E!Disjunctions(R(Append(q, "l")), R(Append(q, "r")))
      BY <1>3, PossibleSteps
    <3>3. t[q] = "and" \/ t[q] = "or"  BY <1>3, <1>6, TreeNodes
    <3> HIDE DEF P, R
    <3> QED  BY <2>3, <3>1, <3>2, <3>3
  <2>5. D(q) = F(q)
    <3> DEFINE stays(s) == s = {} \/ s = {t[q] = "or"}
    <3>1. /\ stays(D(Append(q, "l"))) => D(q) = D(Append(q, "l"))
          /\ ~ stays(D(Append(q, "l"))) => D(q) = D(Append(q, "r"))
      BY <1>3, <1>6, DecidedSteps
    <3>2. /\ stays(F(Append(q, "l"))) => F(q) = F(Append(q, "l"))
          /\ ~ stays(F(Append(q, "l"))) => F(q) = F(Append(q, "r"))
      BY <1>3, <1>6, DecidedSteps
    <3> HIDE DEF D, F, stays
    <3> QED  BY <2>3, <3>1, <3>2
  <2> HIDE DEF P, R, D, F
  <2> QED  BY <1>3, <2>4, <2>5
<1> QED  BY <1>5, <1>6

(* Where nothing is answered, both values are possible.                     *)
LEMMA Untouched ==
  ASSUME NEW t, IsTree(t), NEW g \in [DOMAIN t -> SUBSET BOOLEAN], NEW u \in DOMAIN t,
         \A k \in LeavesOf(t) : Under(u, k) => g[k] = {}
  PROVE  E!PossibleValues(t, g)[u] = BOOLEAN
<1> DEFINE P(q) == E!PossibleValues(t, g)[q]
           Free(q) == \A k \in LeavesOf(t) : Under(q, k) => g[k] = {}
           S == {q \in DOMAIN t : Free(q) /\ P(q) # BOOLEAN}
<1>1. SUFFICES ASSUME S # {} PROVE FALSE
  OBVIOUS
<1>2. PICK q \in S : t[q] # "leaf" => Append(q, "l") \notin S /\ Append(q, "r") \notin S
  <2>1. S \subseteq DOMAIN t  OBVIOUS
  <2> HIDE DEF S
  <2> QED  BY <1>1, <2>1, LowestNode
<1>3. q \in DOMAIN t /\ Free(q) /\ P(q) # BOOLEAN  BY <1>2
<1>4. q \in Paths /\ LeavesOf(t) \subseteq Paths  BY <1>3, TreeNodes
<1>5. CASE t[q] = "leaf"
  <2>1. q \in LeavesOf(t)  BY <1>3, <1>5 DEF LeavesOf
  <2>2. g[q] = {}  BY <1>3, <1>4, <2>1, UnderItself
  <2> QED  BY <1>3, <1>5, <2>2, PossibleSteps
<1>6. CASE t[q] # "leaf"
  <2>1. Append(q, "l") \in DOMAIN t /\ Append(q, "r") \in DOMAIN t  BY <1>3, <1>6, Children
  <2>2. Free(Append(q, "l")) /\ Free(Append(q, "r"))
    <3> HIDE DEF P, S
    <3>1. \A k \in LeavesOf(t) : Under(Append(q, "l"), k) \/ Under(Append(q, "r"), k) => Under(q, k)
      BY <1>4, UnderChild
    <3> QED  BY <1>3, <3>1
  <2> HIDE DEF Free
  <2>3. P(Append(q, "l")) = BOOLEAN /\ P(Append(q, "r")) = BOOLEAN
    <3> HIDE DEF P
    <3> QED  BY <1>2, <1>6, <2>1, <2>2
  <2>4. PICK A, B : A = P(Append(q, "l")) /\ B = P(Append(q, "r"))  OBVIOUS
  <2>5. E!Conjunctions(A, B) = BOOLEAN /\ E!Disjunctions(A, B) = BOOLEAN
    <3>1. A = BOOLEAN /\ B = BOOLEAN  BY <2>3, <2>4
    <3>2. A \subseteq BOOLEAN /\ B \subseteq BOOLEAN /\ A # {} /\ B # {}  BY <3>1
    <3> HIDE DEF P, S
    <3> QED  BY <3>1, <3>2, Combinations
  <2>6. /\ t[q] = "and" => P(q) = E!Conjunctions(A, B)
        /\ t[q] = "or" => P(q) = E!Disjunctions(A, B)
    BY <1>3, <2>4, PossibleSteps
  <2>7. t[q] = "and" \/ t[q] = "or"  BY <1>3, <1>6, TreeNodes
  <2> HIDE DEF P
  <2> QED  BY <1>3, <2>5, <2>6, <2>7
<1> QED  BY <1>5, <1>6

(* On the way to a node: its ancestor of depth m, and the one below.        *)
LEMMA PathStep ==
  ASSUME NEW t, IsTree(t), NEW p \in DOMAIN t, NEW m \in 0 .. Len(p) - 1
  PROVE  /\ SubSeq(p, 1, m) \in DOMAIN t /\ t[SubSeq(p, 1, m)] # "leaf"
         /\ SubSeq(p, 1, m) \in Paths /\ Len(SubSeq(p, 1, m)) = m
         /\ \A j \in 1 .. m : SubSeq(p, 1, m)[j] = p[j]
         /\ p[m + 1] = "l" \/ p[m + 1] = "r"
         /\ SubSeq(p, 1, m + 1) = Append(SubSeq(p, 1, m), p[m + 1])
         /\ SubSeq(p, 1, m + 1) \in DOMAIN t
<1>1. p \in Paths /\ Len(p) \in Nat  BY TreeNodes, PathElements
<1>2. m \in 0 .. Len(p) /\ m + 1 \in 0 .. Len(p) /\ m + 1 \in 1 .. Len(p) /\ m \in Nat  BY <1>1
<1> DEFINE a == SubSeq(p, 1, m)
           b == SubSeq(p, 1, m + 1)
<1>3. a \in DOMAIN t /\ t[a] # "leaf"  BY Ancestors
<1>4. a \in Paths /\ Len(a) = m /\ \A j \in 1 .. m : a[j] = p[j]  BY <1>1, <1>2, UpTo
<1>5. b \in Paths /\ Len(b) = m + 1 /\ \A j \in 1 .. m + 1 : b[j] = p[j]
  BY <1>1, <1>2, UpTo
<1>6. p[m + 1] = "l" \/ p[m + 1] = "r"  BY <1>1, <1>2, PathElements
<1> HIDE DEF a, b
<1> DEFINE c == Append(a, p[m + 1])
<1>7. /\ c \in Paths /\ Len(c) = Len(a) + 1 /\ \A j \in 1 .. Len(a) : c[j] = a[j]
      /\ c[Len(a) + 1] = p[m + 1]
  BY <1>4, <1>6, Down
<1>8. c \in DOMAIN t  BY <1>3, <1>6, Children
<1> HIDE DEF c
<1>9. \A j \in 1 .. m + 1 : b[j] = c[j]
  <2> SUFFICES ASSUME NEW j \in 1 .. m + 1 PROVE b[j] = c[j]
    OBVIOUS
  <2>1. CASE j = m + 1  BY <1>4, <1>5, <1>7, <2>1
  <2>2. CASE j # m + 1
    <3>1. j \in 1 .. m  BY <1>2, <2>2
    <3> QED  BY <1>4, <1>5, <1>7, <3>1
  <2> QED  BY <2>1, <2>2
<1>10. b = c  BY <1>4, <1>5, <1>7, <1>9, SeqEqual DEF Paths
<1> QED  BY <1>3, <1>4, <1>6, <1>8, <1>10 DEF a, b, c

(* What is below the right child of a node is behind what is below the left.*)
LEMMA BelowRight ==
  ASSUME NEW t, IsTree(t), NEW p \in DOMAIN t, NEW m \in 0 .. Len(p) - 1, p[m + 1] = "l",
         NEW k \in DOMAIN t, Under(Append(SubSeq(p, 1, m), "r"), k)
  PROVE  LeftOf(p, k)
<1>1. p \in Paths /\ k \in Paths /\ Len(p) \in Nat /\ Len(k) \in Nat /\ m \in Nat
  BY TreeNodes, PathElements
<1> DEFINE a == SubSeq(p, 1, m)
           c == Append(a, "r")
<1>2. a \in Paths /\ Len(a) = m /\ \A j \in 1 .. m : a[j] = p[j]  BY PathStep
<1> HIDE DEF a
<1>3. Len(c) = m + 1 /\ (\A j \in 1 .. m : c[j] = a[j]) /\ c[m + 1] = "r"  BY <1>2, Down
<1>4. Len(c) <= Len(k) /\ \A j \in 1 .. Len(c) : k[j] = c[j]  BY DEF Under, a
<1> HIDE DEF c
<1>5. m + 1 \in 1 .. Len(p) /\ m + 1 \in 1 .. Len(k) /\ m + 1 \in 1 .. Len(c) /\ m + 1 \in Nat
  BY <1>1, <1>3, <1>4
<1>6. \A j \in 1 .. m + 1 - 1 : j \in 1 .. m /\ j \in 1 .. Len(c)  BY <1>1, <1>3
<1>7. \A j \in 1 .. m + 1 - 1 : p[j] = k[j]  BY <1>2, <1>3, <1>4, <1>6
<1>8. k[m + 1] = "r"  BY <1>3, <1>4, <1>5
<1> QED  BY <1>5, <1>7, <1>8 DEF LeftOf, PartsLeft

(* What is below the left child of a node is before what is below the right.*)
LEMMA BelowLeft ==
  ASSUME NEW t, IsTree(t), NEW p \in DOMAIN t, NEW m \in 0 .. Len(p) - 1, p[m + 1] = "r",
         NEW k \in DOMAIN t, Under(Append(SubSeq(p, 1, m), "l"), k)
  PROVE  LeftOf(k, p)
<1>1. p \in Paths /\ k \in Paths /\ Len(p) \in Nat /\ Len(k) \in Nat /\ m \in Nat
  BY TreeNodes, PathElements
<1> DEFINE a == SubSeq(p, 1, m)
           c == Append(a, "l")
<1>2. a \in Paths /\ Len(a) = m /\ \A j \in 1 .. m : a[j] = p[j]  BY PathStep
<1> HIDE DEF a
<1>3. Len(c) = m + 1 /\ (\A j \in 1 .. m : c[j] = a[j]) /\ c[m + 1] = "l"  BY <1>2, Down
<1>4. Len(c) <= Len(k) /\ \A j \in 1 .. Len(c) : k[j] = c[j]  BY DEF Under, a
<1> HIDE DEF c
<1>5. m + 1 \in 1 .. Len(p) /\ m + 1 \in 1 .. Len(k) /\ m + 1 \in 1 .. Len(c) /\ m + 1 \in Nat
  BY <1>1, <1>3, <1>4
<1>6. \A j \in 1 .. m + 1 - 1 : j \in 1 .. m /\ j \in 1 .. Len(c)  BY <1>1, <1>3
<1>7. \A j \in 1 .. m + 1 - 1 : k[j] = p[j]  BY <1>2, <1>3, <1>4, <1>6
<1>8. k[m + 1] = "l"  BY <1>3, <1>4, <1>5
<1> QED  BY <1>5, <1>7, <1>8 DEF LeftOf, PartsLeft

(* The chain is rightly at the operand p: those answered are before it, and *)
(* of what is on its left nothing decides the condition.                    *)
Reached(t, g, p) ==
  /\ p \in LeavesOf(t)
  /\ \A k \in LeavesOf(t) : g[k] # {} => LeftOf(k, p)
  /\ \A m \in 0 .. Len(p) - 1 :
       p[m + 1] = "r" =>
         Settled(t, g, Append(SubSeq(p, 1, m), "l"), Neutral(t, SubSeq(p, 1, m)))

(* Then the condition has no value yet, and p is its next operand.          *)
LEMMA ReachedOpen ==
  ASSUME NEW t, IsTree(t), NEW g \in [DOMAIN t -> SUBSET BOOLEAN], NEW p, Reached(t, g, p),
         NEW n \in 0 .. Len(p)
  PROVE  Open(t, g, SubSeq(p, 1, n), p)
<1>1. p \in DOMAIN t /\ t[p] = "leaf" /\ p \in Paths /\ Len(p) \in Nat
  BY TreeNodes, PathElements DEF Reached, LeavesOf
<1> DEFINE T == {m \in 0 .. Len(p) : ~ Open(t, g, SubSeq(p, 1, m), p)}
<1>2. SUFFICES ASSUME T # {} PROVE FALSE
  OBVIOUS
<1>3. PICK m \in T : \A j \in T : j <= m
  <2>1. T \subseteq Nat /\ \A j \in T : j <= Len(p)  BY <1>1
  <2> HIDE DEF T
  <2> QED  BY <1>1, <1>2, <2>1, GreatestNatural
<1>4. m \in 0 .. Len(p) /\ ~ Open(t, g, SubSeq(p, 1, m), p)  BY <1>3
<1>5. CASE m = Len(p)
  <2>1. SubSeq(p, 1, m) = p  BY <1>1, <1>5, SubSeqFull DEF Paths
  <2>2. g[p] = {}  BY LeftOfIrreflexive DEF Reached
  <2>3. Open(t, g, p, p)
    BY <1>1, <2>2, PossibleSteps, DecidedSteps, NeededSteps DEF Open
  <2> QED  BY <1>4, <2>1, <2>3
<1>6. CASE m # Len(p)
  <2>1. m \in 0 .. Len(p) - 1 /\ m + 1 \in 0 .. Len(p) /\ ~ (m + 1 <= m)  BY <1>1, <1>4, <1>6
  <2>2. Open(t, g, SubSeq(p, 1, m + 1), p)  BY <1>3, <2>1
  <2> DEFINE a == SubSeq(p, 1, m)
  <2>3. /\ a \in DOMAIN t /\ t[a] # "leaf" /\ (p[m + 1] = "l" \/ p[m + 1] = "r")
        /\ SubSeq(p, 1, m + 1) = Append(a, p[m + 1])
    BY <1>1, <2>1, PathStep
  <2>4. CASE p[m + 1] = "l"
    <3>1. Append(a, "r") \in DOMAIN t  BY <2>3, Children
    <3>2. ASSUME NEW k \in LeavesOf(t), Under(Append(a, "r"), k), g[k] # {}
          PROVE  FALSE
      <4>1. k \in DOMAIN t /\ k \in Paths  BY TreeNodes
      <4>2. LeftOf(p, k)  BY <1>1, <2>1, <2>4, <3>2, <4>1, BelowRight
      <4>3. LeftOf(k, p)  BY <3>2 DEF Reached
      <4> QED  BY <1>1, <4>1, <4>2, <4>3, LeftOfTransitive, LeftOfIrreflexive
    <3> HIDE DEF a
    <3>3. E!PossibleValues(t, g)[Append(a, "r")] = BOOLEAN  BY <3>1, <3>2, Untouched
    <3>4. Open(t, g, a, p)  BY <2>2, <2>3, <2>4, <3>3, OpenLeft
    <3> QED  BY <1>4, <3>4 DEF a
  <2>5. CASE p[m + 1] = "r"
    <3>1. Settled(t, g, Append(a, "l"), Neutral(t, a))  BY <2>1, <2>5 DEF Reached
    <3> HIDE DEF a
    <3>2. /\ E!PossibleValues(t, g)[a] = E!PossibleValues(t, g)[Append(a, "r")]
          /\ E!Decided(t, g)[a] = E!Decided(t, g)[Append(a, "r")]
          /\ E!NextLeaf(t, g)[a] = E!NextLeaf(t, g)[Append(a, "r")]
      BY <2>3, <3>1, NeutralLeft, Zenon
    <3>3. Open(t, g, Append(a, "r"), p)  BY <2>2, <2>3, <2>5
    <3>4. Open(t, g, a, p)  BY <3>2, <3>3 DEF Open
    <3> QED  BY <1>4, <3>4 DEF a
  <2> QED  BY <2>3, <2>4, <2>5
<1> QED  BY <1>5, <1>6

(* h is g with the answer v for the operand p.                              *)
Answered(t, g, p, v, h) ==
  /\ h[p] = {v}
  /\ \A k \in LeavesOf(t) : k # p => h[k] = g[k]

(* What lies on the left of p keeps its value.                              *)
LEMMA LeftKept ==
  ASSUME NEW t, IsTree(t), NEW g \in [DOMAIN t -> SUBSET BOOLEAN],
         NEW h \in [DOMAIN t -> SUBSET BOOLEAN], NEW p, Reached(t, g, p),
         NEW v \in BOOLEAN, Answered(t, g, p, v, h),
         NEW m \in 0 .. Len(p) - 1, p[m + 1] = "r"
  PROVE  Settled(t, h, Append(SubSeq(p, 1, m), "l"), Neutral(t, SubSeq(p, 1, m)))
<1>1. p \in DOMAIN t  BY TreeNodes DEF Reached
<1> DEFINE a == SubSeq(p, 1, m)
           u == Append(a, "l")
<1>2. u \in DOMAIN t  BY <1>1, PathStep, Children
<1>3. ASSUME NEW k \in LeavesOf(t), Under(u, k) PROVE g[k] = h[k]
  <2>1. k \in DOMAIN t  BY TreeNodes
  <2>2. LeftOf(k, p)  BY <1>1, <1>3, <2>1, BelowLeft
  <2>3. k # p  BY <2>2, LeftOfIrreflexive
  <2> QED  BY <2>3 DEF Answered
<1>4. Settled(t, g, u, Neutral(t, a))  BY DEF Reached
<1> HIDE DEF a, u
<1>5. /\ E!PossibleValues(t, g)[u] = E!PossibleValues(t, h)[u]
      /\ E!Decided(t, g)[u] = E!Decided(t, h)[u]
  BY <1>2, <1>3, SameBelow
<1>6. Settled(t, h, u, Neutral(t, a))  BY <1>4, <1>5 DEF Settled
<1> QED  BY <1>6 DEF a, u

(* The answer settles every node above p up to one it does not decide.      *)
LEMMA AnswerSettles ==
  ASSUME NEW t, IsTree(t), NEW g \in [DOMAIN t -> SUBSET BOOLEAN],
         NEW h \in [DOMAIN t -> SUBSET BOOLEAN], NEW p, Reached(t, g, p),
         NEW v \in BOOLEAN, Answered(t, g, p, v, h), NEW n \in 0 .. Len(p),
         \A j \in Turns(p) : n <= j => v = (t[SubSeq(p, 1, j)] = "or")
  PROVE  Settled(t, h, SubSeq(p, 1, n), v)
<1>1. p \in DOMAIN t /\ t[p] = "leaf" /\ p \in Paths /\ Len(p) \in Nat /\ n \in Nat
  BY TreeNodes, PathElements DEF Reached, LeavesOf
<1> DEFINE T == {m \in 0 .. Len(p) : n <= m /\ ~ Settled(t, h, SubSeq(p, 1, m), v)}
<1>2. SUFFICES ASSUME T # {} PROVE FALSE
  <2>1. n <= n /\ n \notin T  BY <1>1, <1>2
  <2> QED  BY <2>1
<1>3. PICK m \in T : \A j \in T : j <= m
  <2>1. T \subseteq Nat /\ \A j \in T : j <= Len(p)  BY <1>1
  <2> HIDE DEF T
  <2> QED  BY <1>1, <1>2, <2>1, GreatestNatural
<1>4. m \in 0 .. Len(p) /\ n <= m /\ ~ Settled(t, h, SubSeq(p, 1, m), v)  BY <1>3
<1>5. CASE m = Len(p)
  <2>1. SubSeq(p, 1, m) = p  BY <1>1, <1>5, SubSeqFull DEF Paths
  <2>2. h[p] = {v} /\ {v} # {}  BY DEF Answered
  <2>3. Settled(t, h, p, v)  BY <1>1, <2>2, PossibleSteps, DecidedSteps DEF Settled
  <2> QED  BY <1>4, <2>1, <2>3
<1>6. CASE m # Len(p)
  <2>1. m \in 0 .. Len(p) - 1 /\ m + 1 \in 0 .. Len(p) /\ ~ (m + 1 <= m) /\ n <= m + 1
    BY <1>1, <1>4, <1>6
  <2>2. Settled(t, h, SubSeq(p, 1, m + 1), v)  BY <1>3, <2>1
  <2> DEFINE a == SubSeq(p, 1, m)
  <2>3. /\ a \in DOMAIN t /\ t[a] # "leaf" /\ (p[m + 1] = "l" \/ p[m + 1] = "r")
        /\ SubSeq(p, 1, m + 1) = Append(a, p[m + 1])
    BY <1>1, <2>1, PathStep
  <2>4. CASE p[m + 1] = "l"
    <3>1. m \in Turns(p)  BY <2>1, <2>4 DEF Turns
    <3>2. v = (t[a] = "or")  BY <1>4, <3>1
    <3> HIDE DEF a
    <3>3. Settled(t, h, Append(a, "l"), v)  BY <2>2, <2>3, <2>4
    <3>4. Settled(t, h, a, v)  BY <2>3, <3>2, <3>3, SettledLeft, Zenon
    <3> QED  BY <1>4, <3>4 DEF a
  <2>5. CASE p[m + 1] = "r"
    <3>1. Settled(t, h, Append(a, "l"), Neutral(t, a))  BY <2>1, <2>5, LeftKept
    <3> HIDE DEF a
    <3>2. Settled(t, h, Append(a, "r"), v)  BY <2>2, <2>3, <2>5
    <3>3. Settled(t, h, a, v)  BY <2>3, <3>1, <3>2, SettledRight
    <3> QED  BY <1>4, <3>3 DEF a
  <2> QED  BY <2>3, <2>4, <2>5
<1> QED  BY <1>5, <1>6

(* The next operand an answer leads to is rightly reached,                  *)
LEMMA NextReached ==
  ASSUME NEW t, IsTree(t), NEW g \in [DOMAIN t -> SUBSET BOOLEAN],
         NEW h \in [DOMAIN t -> SUBSET BOOLEAN], NEW p, Reached(t, g, p),
         NEW v \in BOOLEAN, Answered(t, g, p, v, h),
         NEW n \in Turns(p), v = Neutral(t, SubSeq(p, 1, n)),
         \A j \in Turns(p) : n < j => v = (t[SubSeq(p, 1, j)] = "or")
  PROVE  Reached(t, h, Across(t, p, n))
<1>1. p \in DOMAIN t /\ p \in LeavesOf(t) /\ p \in Paths /\ Len(p) \in Nat
  BY TreeNodes, PathElements DEF Reached
<1>2. n \in 0 .. Len(p) - 1 /\ n \in Nat /\ p[n + 1] = "l" /\ n + 1 \in 0 .. Len(p)
  BY <1>1 DEF Turns
<1> DEFINE q == Across(t, p, n)
<1>3. /\ q \in LeavesOf(t) /\ n + 1 <= Len(q) /\ q[n + 1] = "r"
      /\ \A m \in 1 .. n : q[m] = p[m]
      /\ \A m \in n + 2 .. Len(q) : q[m] = "l"
  BY <1>1, AcrossIs
<1>4. LeftOf(p, q)  BY <1>1, AcrossBehind
<1> HIDE DEF q
<1>5. q \in DOMAIN t /\ q \in Paths /\ Len(q) \in Nat  BY <1>3, TreeNodes, PathElements
<1>6. ASSUME NEW k \in LeavesOf(t), h[k] # {} PROVE LeftOf(k, q)
  <2>1. k \in Paths  BY TreeNodes
  <2>2. CASE k = p  BY <1>4, <2>2
  <2>3. CASE k # p
    <3>1. g[k] # {}  BY <1>6, <2>3 DEF Answered
    <3>2. LeftOf(k, p)  BY <3>1 DEF Reached
    <3> QED  BY <1>1, <1>4, <1>5, <2>1, <3>2, LeftOfTransitive
  <2> QED  BY <2>2, <2>3
<1>7. ASSUME NEW m \in 0 .. Len(q) - 1, q[m + 1] = "r"
      PROVE  Settled(t, h, Append(SubSeq(q, 1, m), "l"), Neutral(t, SubSeq(q, 1, m)))
  <2>1. m <= n
    <3>1. SUFFICES ASSUME ~ (m <= n) PROVE FALSE
      OBVIOUS
    <3>2. m + 1 \in n + 2 .. Len(q)  BY <1>2, <1>5, <3>1
    <3> QED  BY <1>3, <1>7, <3>2
  <2>2. m \in 0 .. Len(p) - 1 /\ m \in 0 .. Len(p) /\ m \in 0 .. Len(q) /\ m \in Nat
    BY <1>1, <1>2, <1>5, <2>1
  <2> DEFINE a == SubSeq(p, 1, m)
             b == SubSeq(q, 1, m)
  <2>3. a \in Paths /\ Len(a) = m /\ \A j \in 1 .. m : a[j] = p[j]  BY <1>1, <2>2, UpTo
  <2>4. b \in Paths /\ Len(b) = m /\ \A j \in 1 .. m : b[j] = q[j]  BY <1>5, <2>2, UpTo
  <2> HIDE DEF a, b
  <2>5. \A j \in 1 .. m : b[j] = a[j]
    <3>1. \A j \in 1 .. m : j \in 1 .. n  BY <1>2, <2>1, <2>2
    <3> QED  BY <1>3, <2>3, <2>4, <3>1
  <2>6. b = a  BY <2>3, <2>4, <2>5, SeqEqual DEF Paths
  <2>7. CASE m = n
    <3>1. SubSeq(p, 1, n + 1) = Append(a, "l")  BY <1>1, <1>2, <2>7, PathStep DEF a
    <3>2. \A j \in Turns(p) : n + 1 <= j => n < j  BY <1>1, <1>2 DEF Turns
    <3>3. Settled(t, h, SubSeq(p, 1, n + 1), v)  BY <1>2, <3>2, AnswerSettles
    <3>4. v = Neutral(t, a)  BY <2>7 DEF a
    <3> QED  BY <2>6, <3>1, <3>3, <3>4 DEF b
  <2>8. CASE m # n
    <3>1. m + 1 \in 1 .. n  BY <1>2, <2>1, <2>2, <2>8
    <3>2. p[m + 1] = "r"  BY <1>3, <1>7, <3>1
    <3>3. Settled(t, h, Append(a, "l"), Neutral(t, a))  BY <2>2, <3>2, LeftKept DEF a
    <3> QED  BY <2>6, <3>3 DEF b
  <2> QED  BY <2>7, <2>8
<1>8. Reached(t, h, q)  BY <1>3, <1>6, <1>7 DEF Reached
<1> QED  BY <1>8 DEF q

(* and one that leads to none settles the condition.                        *)
LEMMA ConditionSettled ==
  ASSUME NEW t, IsTree(t), NEW g \in [DOMAIN t -> SUBSET BOOLEAN],
         NEW h \in [DOMAIN t -> SUBSET BOOLEAN], NEW p, Reached(t, g, p),
         NEW v \in BOOLEAN, Answered(t, g, p, v, h),
         \A j \in Turns(p) : v = (t[SubSeq(p, 1, j)] = "or")
  PROVE  Settled(t, h, <<>>, v)
<1>1. p \in Paths /\ Len(p) \in Nat  BY TreeNodes, PathElements DEF Reached
<1>2. 0 \in 0 .. Len(p)  BY <1>1
<1>3. Settled(t, h, SubSeq(p, 1, 0), v)  BY <1>2, AnswerSettles
<1>4. SubSeq(p, 1, 0) \in Paths /\ Len(SubSeq(p, 1, 0)) = 0  BY <1>1, <1>2, UpTo
<1>5. SubSeq(p, 1, 0) = <<>>  BY <1>4, EmptySeq DEF Paths
<1> QED  BY <1>3, <1>5

(* Where the code goes when an operand has the value v: to the operand      *)
(* across the lowest & for TRUE, | for FALSE, it is on the left of.         *)
Block(v) == IF v THEN TrueBlock ELSE FalseBlock
Undecided(v) == IF v THEN "and" ELSE "or"
Goes(p, v) == IF v = Resolved(p).jump_if THEN Resolved(p).jump ELSE Resolved(p).next

(* The jump and the fall-through of an operand are those two ways.          *)
LEMMA GoesTo ==
  ASSUME IsTree(tree), NEW p \in LeavesOf(tree), NEW v \in BOOLEAN
  PROVE  \/ TurnsAt(tree, p, Undecided(v)) = {} /\ Goes(p, v) = Block(v)
         \/ \E n \in TurnsAt(tree, p, Undecided(v)) :
              /\ \A m \in TurnsAt(tree, p, Undecided(v)) : m <= n
              /\ Goes(p, v) = Across(tree, p, n)
<1>1. p \in DOMAIN tree /\ p \in Paths /\ Len(p) \in Nat  BY TreeNodes, PathElements
<1> DEFINE l == LastOnLeft(tree, p, Undecided(v))
           r == RightOperand(tree, l)
<1>2. \/ TurnsAt(tree, p, Undecided(v)) = {} /\ l = Null
      \/ \E n \in TurnsAt(tree, p, Undecided(v)) :
           (\A m \in TurnsAt(tree, p, Undecided(v)) : m <= n) /\ l = SubSeq(p, 1, n)
  BY <1>1, LastOnLeftIs
<1>3. Goes(p, v) = IF r # Null THEN r ELSE Block(v)
  <2> DEFINE J == p = <<>> \/ tree[Front(p)] = "or"
             c == LastOnLeft(tree, p, IF J THEN "and" ELSE "or")
             f == LastOnLeft(tree, p, IF J THEN "or" ELSE "and")
             I == JumpInfos(tree, p)
             A == RightOperand(tree, c)
             B == RightOperand(tree, f)
             near == Level(c) < Level(f) \/ (Level(c) = Level(f) /\ J)
  <2>1. /\ near => I.jump_if = J /\ I.jump_node = A /\ I.next_node = B
        /\ ~ near => I.jump_if = (~ J) /\ I.jump_node = B /\ I.next_node = A
    BY DEF JumpInfos
  <2>2. J \in BOOLEAN  OBVIOUS
  <2>3. v = J => l = c  BY DEF Undecided
  <2>4. v # J => l = f  BY <2>2 DEF Undecided
  <2>5. (v = J => r = A) /\ (v # J => r = B)  BY <2>3, <2>4
  <2>6. /\ Resolved(p).jump_if = I.jump_if
        /\ Resolved(p).jump = IF I.jump_node # Null THEN I.jump_node ELSE Block(I.jump_if)
        /\ Resolved(p).next = IF I.next_node # Null THEN I.next_node ELSE Block(~ I.jump_if)
    BY DEF Resolved, Block
  <2> HIDE DEF J, c, f, I, A, B, r, l, near
  <2>7. CASE near
    <3>1. I.jump_if = J /\ I.jump_node = A /\ I.next_node = B  BY <2>1, <2>7
    <3>2. CASE v = J
      <4>1. Goes(p, v) = Resolved(p).jump  BY <2>6, <3>1, <3>2 DEF Goes
      <4> QED  BY <2>5, <2>6, <3>1, <3>2, <4>1
    <3>3. CASE v # J
      <4>1. Goes(p, v) = Resolved(p).next  BY <2>6, <3>1, <3>3 DEF Goes
      <4>2. (~ J) = v  BY <2>2, <3>3
      <4> QED  BY <2>5, <2>6, <3>1, <3>3, <4>1, <4>2
    <3> QED  BY <3>2, <3>3
  <2>8. CASE ~ near
    <3>1. I.jump_if = (~ J) /\ I.jump_node = B /\ I.next_node = A  BY <2>1, <2>8
    <3>2. CASE v = J
      <4>1. v # (~ J) /\ (~ (~ J)) = v  BY <2>2, <3>2
      <4>2. Goes(p, v) = Resolved(p).next  BY <2>6, <3>1, <4>1 DEF Goes
      <4> QED  BY <2>5, <2>6, <3>1, <3>2, <4>1, <4>2
    <3>3. CASE v # J
      <4>1. v = (~ J)  BY <2>2, <3>3
      <4>2. Goes(p, v) = Resolved(p).jump  BY <2>6, <3>1, <4>1 DEF Goes
      <4> QED  BY <2>5, <2>6, <3>1, <3>3, <4>1, <4>2
    <3> QED  BY <3>2, <3>3
  <2> QED  BY <2>7, <2>8
<1> HIDE DEF l, r
<1>4. CASE TurnsAt(tree, p, Undecided(v)) = {} /\ l = Null
  <2>1. r = Null  BY <1>4 DEF r, RightOperand
  <2> QED  BY <1>3, <1>4, <2>1
<1>5. ASSUME NEW n \in TurnsAt(tree, p, Undecided(v)),
             \A m \in TurnsAt(tree, p, Undecided(v)) : m <= n, l = SubSeq(p, 1, n)
      PROVE  Goes(p, v) = Across(tree, p, n)
  <2>1. n \in Turns(p) /\ n \in 0 .. Len(p)  BY <1>1 DEF TurnsAt, Turns
  <2>2. SubSeq(p, 1, n) \in Paths  BY <1>1, <2>1, UpTo
  <2>3. r = Across(tree, p, n)  BY <1>5, <2>2, NoPath DEF r, RightOperand, Across
  <2>4. Across(tree, p, n) \in LeavesOf(tree)  BY <1>1, <2>1, AcrossIs
  <2>5. Across(tree, p, n) # Null  BY <2>4, TreeNodes, NoPath
  <2> QED  BY <1>3, <2>3, <2>5
<1> QED  BY <1>2, <1>4, <1>5

(* Of the ancestors an operand is on the left of, its value settles those   *)
(* of the other kind.                                                       *)
LEMMA TurnSense ==
  ASSUME NEW t, IsTree(t), NEW p \in DOMAIN t, NEW v \in BOOLEAN, NEW j \in Turns(p)
  PROVE  /\ j \in TurnsAt(t, p, Undecided(v)) => v = Neutral(t, SubSeq(p, 1, j))
         /\ j \notin TurnsAt(t, p, Undecided(v)) => v = (t[SubSeq(p, 1, j)] = "or")
<1>1. j \in TurnsAt(t, p, "and") \/ j \in TurnsAt(t, p, "or")  BY TurnsSplit
<1>2. j \in TurnsAt(t, p, "and") => t[SubSeq(p, 1, j)] = "and"  BY DEF TurnsAt
<1>3. j \in TurnsAt(t, p, "or") => t[SubSeq(p, 1, j)] = "or"  BY DEF TurnsAt
<1>4. CASE v = TRUE
  <2>1. Undecided(v) = "and"  BY <1>4 DEF Undecided
  <2> QED  BY <1>1, <1>2, <1>3, <1>4, <2>1 DEF Neutral
<1>5. CASE v = FALSE
  <2>1. Undecided(v) = "or"  BY <1>5 DEF Undecided
  <2> QED  BY <1>1, <1>2, <1>3, <1>5, <2>1 DEF Neutral
<1> QED  BY <1>4, <1>5

(* The answers given so far as a function of the nodes.                     *)
AnswersOf(t, a) ==
  [p \in DOMAIN t |-> {a[n].value : n \in {m \in DOMAIN a : a[m].leaf = p}}]

(* Every node has a set of Booleans as its answers.                         *)
LEMMA AnswersType ==
  ASSUME NEW t, NEW L, NEW a \in Seq([leaf : L, value : BOOLEAN])
  PROVE  AnswersOf(t, a) \in [DOMAIN t -> SUBSET BOOLEAN]
<1>1. \A n \in DOMAIN a : a[n].value \in BOOLEAN
  <2> SUFFICES ASSUME NEW n \in DOMAIN a PROVE a[n].value \in BOOLEAN
    OBVIOUS
  <2>1. a[n] \in [leaf : L, value : BOOLEAN]  BY ElementOfSeq, LenProperties
  <2> QED  BY <2>1
<1> QED  BY <1>1 DEF AnswersOf

(* Another answer.                                                          *)
LEMMA AnswerAdded ==
  ASSUME NEW t, NEW L, L \subseteq DOMAIN t, NEW a \in Seq([leaf : L, value : BOOLEAN]),
         NEW p \in L, NEW v \in BOOLEAN, AnswersOf(t, a)[p] = {}, LeavesOf(t) \subseteq DOMAIN t
  PROVE  /\ Append(a, [leaf |-> p, value |-> v]) \in Seq([leaf : L, value : BOOLEAN])
         /\ Answered(t, AnswersOf(t, a), p, v, AnswersOf(t, Append(a, [leaf |-> p, value |-> v])))
<1> DEFINE e == [leaf |-> p, value |-> v]
           b == Append(a, e)
           l == Len(a)
<1>1. e \in [leaf : L, value : BOOLEAN] /\ e.leaf = p /\ e.value = v  OBVIOUS
<1> HIDE DEF e
<1>2. /\ b \in Seq([leaf : L, value : BOOLEAN]) /\ Len(b) = l + 1 /\ l \in Nat
      /\ b[l + 1] = e /\ \A n \in 1 .. l : b[n] = a[n]
  BY <1>1, AppendProperties, LenProperties
<1>3. DOMAIN a = 1 .. l /\ DOMAIN b = 1 .. l + 1  BY <1>2, LenProperties
<1> HIDE DEF b, l
<1>4. \A q \in DOMAIN t :
        /\ AnswersOf(t, a)[q] = {a[n].value : n \in {m \in DOMAIN a : a[m].leaf = q}}
        /\ AnswersOf(t, b)[q] = {b[n].value : n \in {m \in DOMAIN b : b[m].leaf = q}}
  BY DEF AnswersOf
<1>5. l + 1 \in 1 .. l + 1 /\ \A n \in 1 .. l + 1 : n = l + 1 \/ n \in 1 .. l
  BY <1>2
<1>6. \A n \in 1 .. l : n \in 1 .. l + 1  BY <1>2
<1>7. ASSUME NEW n \in 1 .. l, a[n].leaf = p PROVE FALSE
  <2> DEFINE A == {m \in DOMAIN a : a[m].leaf = p}
  <2>1. n \in A  BY <1>3, <1>7
  <2>2. AnswersOf(t, a)[p] = {a[k].value : k \in A}
    <3>1. p \in DOMAIN t  OBVIOUS
    <3> QED  BY <1>4, <3>1
  <2> HIDE DEF A
  <2>3. a[n].value \in {a[k].value : k \in A}  BY <2>1
  <2>4. a[n].value \in AnswersOf(t, a)[p]  BY <2>2, <2>3
  <2> QED  BY <2>4
<1>8. AnswersOf(t, b)[p] = {v}
  <2>1. \A n \in DOMAIN b : b[n].leaf = p <=> n = l + 1
    BY <1>1, <1>2, <1>3, <1>5, <1>7
  <2>2. l + 1 \in DOMAIN b /\ b[l + 1].value = v  BY <1>1, <1>2, <1>3, <1>5
  <2> QED  BY <1>4, <2>1, <2>2
<1>9. ASSUME NEW q \in LeavesOf(t), q # p PROVE AnswersOf(t, b)[q] = AnswersOf(t, a)[q]
  <2>1. \A n \in DOMAIN b : b[n].leaf = q => n \in DOMAIN a /\ a[n] = b[n]
    BY <1>1, <1>2, <1>3, <1>5, <1>9
  <2>2. \A n \in DOMAIN a : n \in DOMAIN b /\ a[n] = b[n]  BY <1>2, <1>3, <1>6
  <2> DEFINE A == {m \in DOMAIN a : a[m].leaf = q}
             B == {m \in DOMAIN b : b[m].leaf = q}
  <2>3. \A n : n \in A <=> n \in B  BY <2>1, <2>2
  <2>4. A = B /\ \A n \in A : a[n] = b[n]  BY <2>2, <2>3
  <2>5. q \in DOMAIN t  OBVIOUS
  <2>6. AnswersOf(t, a)[q] = {a[n].value : n \in A} /\ AnswersOf(t, b)[q] = {b[n].value : n \in B}
    BY <1>4, <2>5
  <2> HIDE DEF A, B
  <2> QED  BY <2>4, <2>6
<1> QED  BY <1>2, <1>8, <1>9 DEF Answered, b, e

----------------------------------------------------------------------------
(* The chain begins at the first operand; while it runs it is rightly at an *)
(* operand, or at the block of the value the condition has.                 *)
FirstInv ==
  /\ asked = <<>>
  /\ chain = <<>> => pc = "descend" /\ at = MostLeft(tree, <<>>)
  /\ chain # <<>> => chain[1] = MostLeft(tree, <<>>)

RunInv ==
  \/ Reached(tree, AnswersOf(tree, asked), at)
  \/ \E v \in BOOLEAN : at = Block(v) /\ Settled(tree, AnswersOf(tree, asked), <<>>, v)

EvalInv ==
  /\ ConditionInv
  /\ asked \in Seq([leaf : Leaves, value : BOOLEAN])
  /\ pc # "done" => outcome = {}
  /\ pc \in {"descend", "link"} => FirstInv
  /\ pc = "run" => RunInv

(* The tree and its leaves in a state of the invariant.                     *)
LEMMA EvalTree ==
  ASSUME EvalInv
  PROVE  /\ IsTree(tree) /\ Leaves = LeavesOf(tree) /\ Leaves \subseteq DOMAIN tree
         /\ AnswersOf(tree, asked) \in [DOMAIN tree -> SUBSET BOOLEAN]
         /\ Null \notin Leaves /\ TrueBlock \notin Leaves /\ FalseBlock \notin Leaves
<1>1. IsTree(tree)  BY TreesAssumption DEF EvalInv, ConditionInv, ChainInv
<1>2. Leaves = LeavesOf(tree) /\ Leaves \subseteq DOMAIN tree /\ Leaves \subseteq Paths
  BY <1>1, TreeNodes DEF Leaves
<1>3. AnswersOf(tree, asked) \in [DOMAIN tree -> SUBSET BOOLEAN]
  BY AnswersType DEF EvalInv
<1> QED  BY <1>1, <1>2, <1>3, NoPath

(* Before the first operand runs nothing is answered.                       *)
LEMMA FirstReached ==
  ASSUME NEW t, IsTree(t)
  PROVE  Reached(t, AnswersOf(t, <<>>), MostLeft(t, <<>>))
<1> DEFINE p == MostLeft(t, <<>>)
<1>1. p \in LeavesOf(t) /\ \A n \in 1 .. Len(p) : p[n] = "l"
  <2>1. <<>> \in DOMAIN t /\ Len(<<>>) = 0  BY TreeNodes
  <2> QED  BY <2>1, MostLeftIsLeaf
<1>2. \A k \in LeavesOf(t) : AnswersOf(t, <<>>)[k] = {}
  <2>1. DOMAIN <<>> = {}  OBVIOUS
  <2> QED  BY <2>1, TreeNodes DEF AnswersOf
<1>3. p \in Paths /\ Len(p) \in Nat  BY <1>1, TreeNodes, PathElements
<1> HIDE DEF p
<1>4. \A m \in 0 .. Len(p) - 1 : p[m + 1] # "r"
  <2> SUFFICES ASSUME NEW m \in 0 .. Len(p) - 1 PROVE p[m + 1] # "r"
    OBVIOUS
  <2>1. m + 1 \in 1 .. Len(p)  BY <1>3
  <2> QED  BY <1>1, <2>1
<1>5. Reached(t, AnswersOf(t, <<>>), p)  BY <1>1, <1>2, <1>4 DEF Reached
<1> QED  BY <1>5 DEF p

(* An answer leads to the next operand, or to the block of the value.       *)
LEMMA TestRuns ==
  ASSUME EvalInv, NEW v \in BOOLEAN, Test(v)
  PROVE  /\ Reached(tree, AnswersOf(tree, asked), at)
         /\ RunInv'
         /\ asked' \in Seq([leaf : Leaves, value : BOOLEAN])
<1>1. /\ pc = "run" /\ at \in Leaves /\ asked' = Append(asked, [leaf |-> at, value |-> v])
      /\ at' = IF v = linked[at].jump_if THEN linked[at].jump ELSE linked[at].next
      /\ tree' = tree
  BY DEF Test
<1>2. /\ IsTree(tree) /\ Leaves = LeavesOf(tree) /\ Leaves \subseteq DOMAIN tree
      /\ AnswersOf(tree, asked) \in [DOMAIN tree -> SUBSET BOOLEAN]
      /\ TrueBlock \notin Leaves /\ FalseBlock \notin Leaves
  BY EvalTree
<1> DEFINE g == AnswersOf(tree, asked)
           next == Append(asked, [leaf |-> at, value |-> v])
           h == AnswersOf(tree, next)
<1>3. Reached(tree, g, at)
  BY <1>1, <1>2 DEF EvalInv, RunInv, Block
<1>4. asked \in Seq([leaf : Leaves, value : BOOLEAN])  BY DEF EvalInv
<1>5. g[at] = {}  BY <1>1, <1>2, <1>3, LeftOfIrreflexive DEF Reached
<1>6. /\ next \in Seq([leaf : Leaves, value : BOOLEAN])
      /\ Answered(tree, g, at, v, h)
  BY <1>1, <1>2, <1>4, <1>5, AnswerAdded
<1>7. h \in [DOMAIN tree -> SUBSET BOOLEAN]  BY <1>6, AnswersType
<1>8. linked[at] = Resolved(at)  BY <1>1 DEF EvalInv, ConditionInv, LinkInv
<1>9. at' = Goes(at, v)  BY <1>1, <1>8 DEF Goes
<1>10. RunInv' <=> \/ Reached(tree, h, at')
                   \/ \E b \in BOOLEAN : at' = Block(b) /\ Settled(tree, h, <<>>, b)
  BY <1>1 DEF RunInv
<1> HIDE DEF g, h, next
<1>11. at \in DOMAIN tree /\ at \in LeavesOf(tree)  BY <1>1, <1>2
<1>12. CASE TurnsAt(tree, at, Undecided(v)) = {} /\ Goes(at, v) = Block(v)
  <2>1. \A j \in Turns(at) : v = (tree[SubSeq(at, 1, j)] = "or")
    BY <1>2, <1>11, <1>12, TurnSense
  <2>2. Settled(tree, h, <<>>, v)
    BY <1>2, <1>3, <1>6, <1>7, <2>1, ConditionSettled DEF g
  <2> QED  BY <1>1, <1>3, <1>6, <1>9, <1>10, <1>12, <2>2 DEF g, next
<1>13. ASSUME NEW n \in TurnsAt(tree, at, Undecided(v)),
              \A m \in TurnsAt(tree, at, Undecided(v)) : m <= n, Goes(at, v) = Across(tree, at, n)
       PROVE  Reached(tree, h, at')
  <2>1. /\ TurnsAt(tree, at, Undecided(v)) \subseteq Turns(at)
        /\ \A j \in Turns(at) : j \in Nat
    BY DEF TurnsAt, Turns
  <2>2. n \in Turns(at) /\ v = Neutral(tree, SubSeq(at, 1, n))
    BY <1>2, <1>11, <2>1, TurnSense
  <2>3. ASSUME NEW j \in Turns(at), n < j PROVE v = (tree[SubSeq(at, 1, j)] = "or")
    <3>1. j \notin TurnsAt(tree, at, Undecided(v))  BY <1>13, <2>1, <2>2, <2>3
    <3> QED  BY <1>2, <1>11, <3>1, TurnSense
  <2>4. Reached(tree, h, Across(tree, at, n))
    BY <1>2, <1>3, <1>6, <1>7, <2>2, <2>3, NextReached DEF g
  <2> QED  BY <1>9, <1>13, <2>4
<1>14. \/ TurnsAt(tree, at, Undecided(v)) = {} /\ Goes(at, v) = Block(v)
       \/ \E n \in TurnsAt(tree, at, Undecided(v)) :
            /\ \A m \in TurnsAt(tree, at, Undecided(v)) : m <= n
            /\ Goes(at, v) = Across(tree, at, n)
  BY <1>2, <1>11, GoesTo
<1> QED  BY <1>1, <1>3, <1>6, <1>10, <1>12, <1>13, <1>14 DEF g, next

(* The calls only make the chain,                                           *)
LEMMA CallKeeps ==
  ASSUME EvalInv, ConditionInv', Descend \/ Link
  PROVE  EvalInv'
<1>1. /\ pc \in {"descend", "link"} /\ tree' = tree /\ asked' = asked /\ outcome' = outcome
      /\ Descend => /\ chain' = Append(chain, at) /\ pc = "descend"
                    /\ pc' \in {"descend", "link"}
      /\ Link => /\ chain' = chain /\ pc = "link"
                 /\ pc' = "link" \/ (pc' = "run" /\ at = chain[1] /\ at' = at)
  BY DEF Descend, Link
<1>2. Leaves' = Leaves  BY <1>1 DEF Leaves
<1>3. /\ asked = <<>> /\ outcome = {} /\ chain \in Seq(Leaves)
      /\ chain = <<>> => pc = "descend" /\ at = MostLeft(tree, <<>>)
      /\ chain # <<>> => chain[1] = MostLeft(tree, <<>>)
  BY <1>1 DEF EvalInv, FirstInv, ConditionInv, ChainInv
<1>4. CASE Descend
  <2>1. at \in Leaves  BY <1>1, <1>4 DEF EvalInv, ConditionInv, DescendInv
  <2>2. PICK c, e : c = chain /\ e = at  OBVIOUS
  <2>3. c \in Seq(Leaves) /\ e \in Leaves /\ Len(c) \in Nat  BY <1>3, <2>1, <2>2, LenProperties
  <2>4. /\ Len(Append(c, e)) = Len(c) + 1 /\ Append(c, e)[Len(c) + 1] = e
        /\ \A n \in 1 .. Len(c) : Append(c, e)[n] = c[n]
    BY <2>3, AppendProperties
  <2>5. Append(c, e) # <<>>  BY <2>3, <2>4
  <2>6. Append(c, e)[1] = MostLeft(tree, <<>>)
    <3>1. CASE c = <<>>
      <4>1. Len(c) + 1 = 1  BY <3>1
      <4> QED  BY <1>3, <2>2, <2>4, <3>1, <4>1
    <3>2. CASE c # <<>>
      <4>1. 1 \in 1 .. Len(c)  BY <2>3, <3>2, EmptySeq
      <4> QED  BY <1>3, <2>2, <2>4, <3>2, <4>1
    <3> QED  BY <3>1, <3>2
  <2>7. FirstInv'  BY <1>1, <1>3, <1>4, <2>2, <2>5, <2>6 DEF FirstInv
  <2>8. pc' # "run"  BY <1>1, <1>4
  <2> QED  BY <1>1, <1>2, <1>3, <2>7, <2>8 DEF EvalInv
<1>5. CASE Link
  <2>1. chain # <<>> /\ chain' = chain  BY <1>1, <1>3, <1>5
  <2>2. pc' \in {"descend", "link"} => FirstInv'  BY <1>1, <1>3, <2>1 DEF FirstInv
  <2>3. pc' = "run" => RunInv'
    <3> SUFFICES ASSUME pc' = "run" PROVE RunInv'
      OBVIOUS
    <3>1. at' = MostLeft(tree, <<>>) /\ tree' = tree /\ asked' = <<>>  BY <1>1, <1>3, <1>5, <2>1
    <3>2. Reached(tree, AnswersOf(tree, <<>>), MostLeft(tree, <<>>))  BY EvalTree, FirstReached
    <3> QED  BY <3>1, <3>2 DEF RunInv
  <2> QED  BY <1>1, <1>2, <1>3, <2>2, <2>3 DEF EvalInv
<1> QED  BY <1>1, <1>4, <1>5

(* and the end of the chain pushes the value.                               *)
LEMMA PushValue ==
  ASSUME EvalInv, PushConst
  PROVE  \E v \in BOOLEAN : /\ outcome' = {v}
                            /\ Settled(tree, AnswersOf(tree, asked), <<>>, v)
<1>1. /\ pc = "run" /\ at \in {TrueBlock, FalseBlock} /\ outcome' = {at = TrueBlock}
  BY DEF PushConst
<1>2. ~ Reached(tree, AnswersOf(tree, asked), at)  BY <1>1, EvalTree DEF Reached
<1>3. PICK v \in BOOLEAN : at = Block(v) /\ Settled(tree, AnswersOf(tree, asked), <<>>, v)
  BY <1>1, <1>2 DEF EvalInv, RunInv
<1>4. (at = TrueBlock) = v
  <2>1. CASE v = TRUE  BY <1>3, <2>1 DEF Block
  <2>2. CASE v = FALSE
    <3>1. at # TrueBlock  BY <1>3, <2>2, NoPath DEF Block
    <3> QED  BY <2>2, <3>1
  <2> QED  BY <2>1, <2>2
<1> QED  BY <1>1, <1>3, <1>4

(* Every reachable state satisfies it.                                      *)
LEMMA EvalSafe == Spec => []EvalInv
<1>1. Init => EvalInv
  <2> SUFFICES ASSUME Init PROVE EvalInv
    OBVIOUS
  <2>1. ConditionInv  BY InitCondition
  <2> QED  BY <2>1 DEF Init, EvalInv, FirstInv
<1>2. EvalInv /\ ConditionInv' /\ [Next]_vars => EvalInv'
  <2> SUFFICES ASSUME EvalInv, ConditionInv', [Next]_vars PROVE EvalInv'
    OBVIOUS
  <2>1. CASE Descend \/ Link  BY <2>1, CallKeeps
  <2>2. ASSUME NEW v \in BOOLEAN, Test(v) PROVE EvalInv'
    <3>1. /\ RunInv' /\ asked' \in Seq([leaf : Leaves, value : BOOLEAN])
          /\ pc = "run" /\ pc' = pc /\ outcome' = outcome /\ tree' = tree
      BY <2>2, TestRuns DEF Test
    <3>2. Leaves' = Leaves  BY <3>1 DEF Leaves
    <3> QED  BY <3>1, <3>2 DEF EvalInv
  <2>3. CASE PushConst
    <3>1. pc' = "done" /\ tree' = tree /\ asked' = asked  BY <2>3 DEF PushConst
    <3>2. Leaves' = Leaves  BY <3>1 DEF Leaves
    <3> QED  BY <3>1, <3>2 DEF EvalInv
  <2>4. CASE UNCHANGED vars
    <3>1. Leaves' = Leaves /\ (FirstInv' <=> FirstInv) /\ (RunInv' <=> RunInv)
      BY <2>4 DEF vars, Leaves, FirstInv, RunInv
    <3> QED  BY <2>4, <3>1 DEF vars, EvalInv
  <2> QED  BY <2>1, <2>2, <2>3, <2>4 DEF Next
<1> QED  BY <1>1, <1>2, ConditionSafe, PTL DEF Spec

(* Whatever the condition, the chain evaluates it: the operands from left   *)
(* to right, none that the ones before decide (parsing_node.c:515-548), and *)
(* the constant pushed at the end is the value of the formula.              *)
THEOREM EvaluationImplemented == Spec => ImplementsEvaluation
<1>1. Init => E!Init  BY DEF Init, E!Init
<1>2. EvalInv /\ [Next]_vars => [E!Next]_(E!evalVars)
  <2> SUFFICES ASSUME EvalInv, [Next]_vars PROVE [E!Next]_(E!evalVars)
    OBVIOUS
  <2>1. CASE Descend \/ Link
    <3>1. UNCHANGED <<tree, asked, outcome>>  BY <2>1 DEF Descend, Link
    <3> QED  BY <3>1 DEF E!evalVars
  <2>2. ASSUME NEW v \in BOOLEAN, Test(v) PROVE E!Next
    <3>1. /\ IsTree(tree) /\ AnswersOf(tree, asked) \in [DOMAIN tree -> SUBSET BOOLEAN]
      BY EvalTree
    <3>2. Reached(tree, AnswersOf(tree, asked), at)  BY <2>2, TestRuns
    <3>3. at \in Paths /\ Len(at) \in Nat  BY <3>1, <3>2, TreeNodes, PathElements DEF Reached
    <3>4. 0 \in 0 .. Len(at)  BY <3>3
    <3>5. SubSeq(at, 1, 0) = <<>>
      <4>1. SubSeq(at, 1, 0) \in Paths /\ Len(SubSeq(at, 1, 0)) = 0  BY <3>3, <3>4, UpTo
      <4> QED  BY <4>1, EmptySeq DEF Paths
    <3>6. Open(tree, AnswersOf(tree, asked), SubSeq(at, 1, 0), at)
      BY <3>1, <3>2, <3>4, ReachedOpen
    <3>7. AnswersOf(tree, asked) = E!Answers  BY DEF AnswersOf, E!Answers
    <3>8. E!Possible = BOOLEAN /\ E!Needed = at
      BY <3>5, <3>6, <3>7 DEF Open, E!Possible, E!Needed
    <3>9. outcome = {}  BY <2>2 DEF Test, EvalInv
    <3>10. E!Ask(v)  BY <2>2, <3>8, <3>9 DEF Test, E!Ask
    <3> QED  BY <3>10 DEF E!Next
  <2>3. CASE PushConst
    <3>1. PICK v \in BOOLEAN : /\ outcome' = {v}
                               /\ Settled(tree, AnswersOf(tree, asked), <<>>, v)
      BY <2>3, PushValue
    <3>2. AnswersOf(tree, asked) = E!Answers  BY DEF AnswersOf, E!Answers
    <3>3. E!Possible = {v}  BY <3>1, <3>2 DEF Settled, E!Possible
    <3>4. outcome = {} /\ UNCHANGED <<tree, asked>>  BY <2>3 DEF PushConst, EvalInv
    <3>5. E!Conclude  BY <3>1, <3>3, <3>4 DEF E!Conclude
    <3> QED  BY <3>5 DEF E!Next
  <2>4. CASE UNCHANGED vars  BY <2>4 DEF vars, E!evalVars
  <2> QED  BY <2>1, <2>2, <2>3, <2>4 DEF Next
<1>3. QED  BY <1>1, <1>2, EvalSafe, PTL DEF Spec, ImplementsEvaluation, E!Spec
=============================================================================
