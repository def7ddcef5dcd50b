---------------------------- MODULE ScopesProofs ----------------------------
(***************************************************************************)
(* The compiler's scopes, for any names, hash and capacity.  The map is    *)
(* sound in every program.  In a program that closes no block while three  *)
(* names share a bucket (NoTriples) the slots are dense and owned and the  *)
(* map is a dictionary; where besides no block opens before the first      *)
(* variable (GlobalFirst) names resolve as block scoping says.  The        *)
(* compiler sees to neither: both are hypotheses of the theorems.          *)
(***************************************************************************)
EXTENDS Scopes, HashMapProofs

(* No more names are stored than the program has, so map->size, which the   *)
(* compiler hands out as the next slot, is a size_t.                        *)
LEMMA SizeFits ==
  ASSUME CountedInv(0)
  PROVE  /\ size \in Nat /\ size <= SizeMax /\ size <= Cardinality(Keys)
         /\ Cardinality(Keys) \in Nat
         /\ \A x \in Keys : x \notin HeldKeys => size < Cardinality(Keys) /\ size \in Values
<1>1. /\ IsFiniteSet(HeldKeys) /\ size = Cardinality(HeldKeys) + 0 /\ HeldKeys \subseteq Keys
      /\ size \in Nat
  BY DEF CountedInv, Counted, HeldKeys, TypeOK
<1>2. /\ IsFiniteSet(Keys) /\ Cardinality(Keys) <= SizeMax /\ SizeMax \in Nat
      /\ 0 .. Cardinality(Keys) - 1 \subseteq Values /\ Cardinality(Keys) \in Nat
  BY NamesAssumption, ScopesAssumption, FS_CardinalityType
<1>3. size = Cardinality(HeldKeys)  BY <1>1, FS_CardinalityType
<1>4. size <= Cardinality(Keys)  BY <1>1, <1>2, <1>3, FS_Subset
<1>5. ASSUME NEW x \in Keys, x \notin HeldKeys
      PROVE  size < Cardinality(Keys) /\ size \in Values
  <2>1. size # Cardinality(Keys)  BY <1>1, <1>2, <1>3, <1>5, FS_Subset
  <2>2. size < Cardinality(Keys)  BY <1>1, <1>2, <1>4, <2>1
  <2>3. size \in 0 .. Cardinality(Keys) - 1  BY <1>1, <1>2, <2>2
  <2> QED  BY <1>2, <2>2, <2>3
<1>6. size <= SizeMax  BY <1>1, <1>2, <1>4
<1> QED  BY <1>1, <1>2, <1>4, <1>5, <1>6

(* The limit of a block's sweep, original_index - 1 in size_t               *)
(* (compiler.c:371): one less, or the largest one where that index is 0.    *)
LimitOf(b) == IF b = 0 THEN SizeMax ELSE b - 1

LEMMA LimitBelow ==
  ASSUME NEW b \in Nat, b <= SizeMax
  PROVE  /\ (b + SizeMax) % (SizeMax + 1) \in Nat
         /\ (b + SizeMax) % (SizeMax + 1) = LimitOf(b)
<1>1. SizeMax \in Nat  BY ScopesAssumption
<1>2. (b + SizeMax) % (SizeMax + 1) \in Nat  BY <1>1
<1>3. ASSUME b # 0 PROVE (b + SizeMax) % (SizeMax + 1) = b - 1
  <2>1. b - 1 \in 0 .. SizeMax /\ b + SizeMax = (SizeMax + 1) + (b - 1)  BY <1>1, <1>3
  <2>2. \A m \in 0 .. SizeMax : ((SizeMax + 1) + m) % (SizeMax + 1) = m  BY <1>1
  <2> QED  BY <2>1, <2>2
<1>4. ASSUME b = 0 PROVE (b + SizeMax) % (SizeMax + 1) = SizeMax
  <2>1. b + SizeMax = SizeMax  BY <1>1, <1>4
  <2>2. \A m \in 0 .. SizeMax : m % (SizeMax + 1) = m  BY <1>1
  <2> QED  BY <1>1, <2>1, <2>2
<1> QED  BY <1>2, <1>3, <1>4 DEF LimitOf

(* Leaving a block pops one original index off the stack. *)
LEMMA PopScope ==
  ASSUME scopes \in Seq(Nat), scopes # <<>>
  PROVE  /\ Len(scopes) \in Nat \ {0}
         /\ Last(scopes) = scopes[Len(scopes)] /\ Last(scopes) \in Nat
         /\ Front(scopes) \in Seq(Nat) /\ Len(Front(scopes)) = Len(scopes) - 1
         /\ \A n \in 1 .. Len(scopes) - 1 : Front(scopes)[n] = scopes[n]
<1>1. Len(scopes) \in Nat \ {0}  BY EmptySeq
<1>2. Last(scopes) = scopes[Len(scopes)] /\ Front(scopes) = SubSeq(scopes, 1, Len(scopes) - 1)
  BY DEF Last, Front
<1>3. scopes[Len(scopes)] \in Nat /\ \A n \in 1 .. Len(scopes) - 1 : scopes[n] \in Nat
  BY <1>1
<1>4. PICK l \in Nat \ {0} : l = Len(scopes)
  BY <1>1
<1> DEFINE front == SubSeq(scopes, 1, l - 1)
<1>5. /\ front \in Seq(Nat)
      /\ Len(front) = IF 1 <= l - 1 THEN (l - 1) - 1 + 1 ELSE 0
      /\ \A n \in 1 .. (l - 1) - 1 + 1 : front[n] = scopes[1 + n - 1]
  BY <1>3, <1>4, SubSeqProperties
<1> HIDE DEF front
<1>6. Len(front) = l - 1  BY <1>5
<1>7. \A n \in 1 .. l - 1 : front[n] = scopes[n]
  <2>1. \A n \in 1 .. l - 1 : n \in 1 .. (l - 1) - 1 + 1 /\ 1 + n - 1 = n  OBVIOUS
  <2> QED  BY <1>5, <2>1
<1>8. Front(scopes) = front  BY <1>2, <1>4 DEF front
<1> QED  BY <1>1, <1>2, <1>3, <1>4, <1>5, <1>6, <1>7, <1>8

----------------------------------------------------------------------------
(* In every program: the original indices on the stack are size_t, and the  *)
(* map keeps its invariant, since a slot is a value it may hold.            *)
StackOK == scopes \in Seq(Nat) /\ \A n \in 1 .. Len(scopes) : scopes[n] <= SizeMax

(* The compiler's names only use the map by get, put and the sweep of a     *)
(* block's end, with indices that fit size_t: its invariant is kept.        *)
LEMMA ScopesMap ==
  ASSUME CountedInv(0), StackOK, [ScopesNext]_vars
  PROVE  CountedInv(0)' /\ StackOK'
<1>1. ASSUME NEW x \in Keys, Affectation(x) PROVE CountedInv(0)' /\ StackOK'
  <2>1. CountedInv(0)'
    <3>1. CASE Found(x)  BY <1>1, <3>1, StutterInv DEF Affectation
    <3>2. CASE ~ Found(x)
      <4>1. PutTo(x, size) /\ pc = "idle"  BY <1>1, <3>2 DEF Affectation, Compiling
      <4>2. x \notin HeldKeys  BY <3>2, <4>1, FoundHeld DEF CountedInv
      <4> QED  BY <4>1, <4>2, SizeFits, PutInv
    <3> QED  BY <3>1, <3>2
  <2> QED  BY <1>1, <2>1 DEF Affectation, StackOK
<1>2. ASSUME NEW x \in Keys, VariableLoad(x) PROVE CountedInv(0)' /\ StackOK'
  BY <1>2, StutterInv DEF VariableLoad, StackOK
<1>3. CASE EnterScope
  <2>1. scopes \in Seq(Nat) /\ size \in Nat /\ size <= SizeMax /\ Len(scopes) \in Nat
    BY SizeFits DEF StackOK
  <2>2. /\ scopes' \in Seq(Nat) /\ Len(scopes') = Len(scopes) + 1
        /\ \A n \in 1 .. Len(scopes) : scopes'[n] = scopes[n]
        /\ scopes'[Len(scopes) + 1] = size
    BY <1>3, <2>1, AppendProperties DEF EnterScope
  <2>3. \A n \in 1 .. Len(scopes') : n \in 1 .. Len(scopes) \/ n = Len(scopes) + 1
    BY <2>1, <2>2
  <2> QED  BY <1>3, <2>1, <2>2, <2>3, StutterInv DEF EnterScope, StackOK
<1>4. CASE LeaveScope
  <2>1. scopes # <<>> /\ scopes' = Front(scopes)
        /\ StartSweep((Last(scopes) + SizeMax) % (SizeMax + 1))
    BY <1>4 DEF LeaveScope
  <2>2. /\ Len(scopes) \in Nat \ {0} /\ Last(scopes) = scopes[Len(scopes)]
        /\ Last(scopes) \in Nat /\ Last(scopes) <= SizeMax
        /\ scopes' \in Seq(Nat) /\ Len(scopes') = Len(scopes) - 1
        /\ \A n \in 1 .. Len(scopes) - 1 : scopes'[n] = scopes[n]
    BY <2>1, PopScope DEF StackOK
  <2>3. \A n \in 1 .. Len(scopes') : n \in 1 .. Len(scopes) /\ n \in 1 .. Len(scopes) - 1
    BY <2>2
  <2> QED  BY <2>1, <2>2, <2>3, LimitBelow, StartSweepInv DEF StackOK
<1>5. CASE MapStep
  BY <1>5, WalkInv DEF MapStep, StackOK
<1>6. CASE UNCHANGED vars
  BY <1>6, StutterInv DEF vars, StackOK
<1> QED  BY <1>1, <1>2, <1>3, <1>4, <1>5, <1>6 DEF ScopesNext

(* Whatever the program, triples in a bucket and blocks before the first    *)
(* variable included, the map the compiler keeps its variables in holds no  *)
(* name twice, has every name in its bucket, and counts them.               *)
THEOREM ScopesMapCorrect == ScopesSpec => []MapInv
<1>1. ScopesInit => CountedInv(0) /\ StackOK
  BY InitInv, EmptySeq DEF ScopesInit, StackOK
<1>2. CountedInv(0) /\ StackOK /\ [ScopesNext]_vars => CountedInv(0)' /\ StackOK'
  BY ScopesMap
<1> QED  BY <1>1, <1>2, MapInvCounts, PTL DEF ScopesSpec

----------------------------------------------------------------------------
(* In the programs of NoTriples: the slots of the names known are the       *)
(* numbers below Top, each the slot of one name and written under it; the   *)
(* original indices on the stack are at most Top and grow with the nesting. *)
(* A sweep bounded by the largest size_t removes nothing.                   *)
Sweeping == pc = "sweep" /\ limit < SizeMax

Top == IF Sweeping THEN limit + 1 ELSE size

BoundsOK ==
  /\ scopes \in Seq(Nat)
  /\ \A n \in 1 .. Len(scopes) : scopes[n] <= Top
  /\ \A n, m \in 1 .. Len(scopes) : n <= m => scopes[n] <= scopes[m]

SlotsInv ==
  /\ \A x, y \in HeldKeys : Contents[x] = Contents[y] => x = y
  /\ \A s \in 0 .. Top - 1 : \E x \in HeldKeys : Contents[x] = s
  /\ ~ Sweeping => \A x \in HeldKeys : Contents[x] < size

OwnInv ==
  \A x \in HeldKeys : Known(x) => Contents[x] \in DOMAIN mem /\ mem[Contents[x]] = x

ScopesInv == CountedInv(0) /\ Swept /\ BoundsOK /\ SlotsInv /\ OwnInv

(* The slots stored are numbers, and with them the bounds of the stack.     *)
LEMMA ContentsNat ==
  ASSUME CountedInv(0)
  PROVE  /\ \A x \in HeldKeys : x \in Keys /\ Contents[x] \in Nat
         /\ DOMAIN Contents = HeldKeys
         /\ limit \in Nat /\ size \in Nat /\ Top \in Nat
         /\ (Sweeping => pc = "sweep")
<1>1. HeldKeys \subseteq Keys /\ Contents \in [HeldKeys -> Values]
  BY ContentsFunction DEF CountedInv
<1>2. \A x \in HeldKeys : x \in Keys /\ Contents[x] \in Nat
  BY <1>1, ConstantsAssumption
<1>3. DOMAIN Contents = HeldKeys  BY DEF Contents
<1>4. limit \in Nat /\ size \in Nat  BY DEF CountedInv, TypeOK
<1> QED  BY <1>2, <1>3, <1>4 DEF Top, Sweeping

(* What leaves the map alone leaves what the proofs say of it. *)
LEMMA SameMap ==
  ASSUME UNCHANGED mapVars
  PROVE  /\ HeldKeys' = HeldKeys /\ Contents' = Contents /\ Top' = Top
         /\ size' = size /\ limit' = limit /\ pc' = pc
         /\ Swept' = Swept /\ Sweeping' = Sweeping
BY DEF mapVars, HeldKeys, Held, HasKey, Contents, Top, Sweeping, Swept, ShortChains, BucketIds

(* A store writes one slot (compile_affectation). *)
LEMMA StoreMem ==
  ASSUME NEW s, NEW x, mem' = Written(s, x)
  PROVE  /\ s \in DOMAIN mem' /\ mem'[s] = x
         /\ \A t \in DOMAIN mem : t \in DOMAIN mem' /\ (t # s => mem'[t] = mem[t])
BY DEF Written

(* A store to a name that is known goes to its slot. *)
LEMMA StoreKnown ==
  ASSUME ScopesInv, NEW x \in Keys, Affectation(x), Found(x)
  PROVE  /\ x \in HeldKeys /\ pc = "idle" /\ UNCHANGED <<mapVars, scopes, status>>
         /\ mem' = Written(Contents[x], x)
BY FoundHeld DEF ScopesInv, CountedInv, Affectation, Compiling, Slot

(* A store to a name that is not takes the next slot for it.                *)
LEMMA StoreNew ==
  ASSUME ScopesInv, NEW x \in Keys, Affectation(x), ~ Found(x)
  PROVE  /\ x \notin HeldKeys /\ size \in Values /\ PutTo(x, size)
         /\ pc = "idle" /\ pc' # "sweep" /\ size' = size + 1
         /\ HeldKeys' = HeldKeys \union {x}
         /\ Contents' = [y \in HeldKeys \union {x} |-> IF y = x THEN size ELSE Contents[y]]
         /\ mem' = Written(size, x) /\ UNCHANGED <<scopes, status>>
<1>1. CountedInv(0) /\ pc = "idle" /\ PutTo(x, size) /\ UNCHANGED <<scopes, status>>
      /\ mem' = Written(size, x)
  BY DEF ScopesInv, Affectation, Compiling, Slot
<1>2. x \notin HeldKeys
  BY <1>1, FoundHeld DEF CountedInv
<1>3. size \in Values
  BY <1>1, <1>2, SizeFits
<1> QED  BY <1>1, <1>2, <1>3, PutContents

(* Leaving a block starts the sweep of the slots from its original index    *)
(* on, or of none where that index is 0.                                    *)
LEMMA LeaveEffect ==
  ASSUME ScopesInv, LeaveScope
  PROVE  /\ Len(scopes) \in Nat \ {0} /\ scopes[Len(scopes)] \in Nat
         /\ scopes[Len(scopes)] <= size /\ size <= SizeMax /\ SizeMax \in Nat
         /\ LimitOf(scopes[Len(scopes)]) \in Values /\ LimitOf(scopes[Len(scopes)]) \in Nat
         /\ StartSweep(LimitOf(scopes[Len(scopes)]))
         /\ pc = "idle" /\ pc' = "sweep" /\ limit' = LimitOf(scopes[Len(scopes)]) /\ size' = size
         /\ HeldKeys' = HeldKeys /\ Contents' = Contents
         /\ scopes' \in Seq(Nat) /\ Len(scopes') = Len(scopes) - 1
         /\ \A n \in 1 .. Len(scopes) - 1 : scopes'[n] = scopes[n]
         /\ UNCHANGED <<status, mem>>
<1>1. /\ CountedInv(0) /\ scopes \in Seq(Nat) /\ scopes # <<>> /\ scopes' = Front(scopes)
      /\ StartSweep((Last(scopes) + SizeMax) % (SizeMax + 1))
      /\ UNCHANGED <<status, mem>>
  BY DEF ScopesInv, BoundsOK, LeaveScope
<1>2. pc = "idle" /\ pc' = "sweep" /\ size' = size
  BY <1>1 DEF StartSweep
<1>3. /\ Len(scopes) \in Nat \ {0} /\ Last(scopes) = scopes[Len(scopes)]
      /\ scopes' \in Seq(Nat) /\ Len(scopes') = Len(scopes) - 1
      /\ \A n \in 1 .. Len(scopes) - 1 : scopes'[n] = scopes[n]
      /\ Last(scopes) \in Nat
  BY <1>1, PopScope
<1>4. Last(scopes) <= size
  BY <1>2, <1>3 DEF ScopesInv, BoundsOK, Top, Sweeping
<1>5. /\ size \in Nat /\ size <= SizeMax /\ size <= Cardinality(Keys)
      /\ Cardinality(Keys) \in Nat /\ SizeMax \in Nat
  BY <1>1, SizeFits, ScopesAssumption
<1>6. (Last(scopes) + SizeMax) % (SizeMax + 1) = LimitOf(Last(scopes))
  <2>1. Last(scopes) <= SizeMax  BY <1>3, <1>4, <1>5
  <2> QED  BY <1>3, <2>1, LimitBelow
<1>7. LimitOf(Last(scopes)) \in Values /\ LimitOf(Last(scopes)) \in Nat
  <2>1. CASE Last(scopes) = 0  BY <1>5, <2>1, NamesAssumption DEF LimitOf
  <2>2. CASE Last(scopes) # 0
    <3>1. Last(scopes) - 1 \in 0 .. Cardinality(Keys) - 1  BY <1>3, <1>4, <1>5, <2>2
    <3>2. Last(scopes) - 1 \in Values /\ Last(scopes) - 1 \in Nat
      BY <3>1, NamesAssumption
    <3> QED  BY <2>2, <3>2 DEF LimitOf
  <2> QED  BY <2>1, <2>2
<1>8. StartSweep(LimitOf(Last(scopes))) /\ limit' = LimitOf(Last(scopes))
  BY <1>1, <1>6 DEF StartSweep
<1>9. HeldKeys' = HeldKeys /\ Contents' = Contents
  BY <1>1, <1>7, <1>8, StartSweepDictionary
<1> QED  BY <1>1, <1>2, <1>3, <1>4, <1>5, <1>7, <1>8, <1>9

(* A finished sweep leaves as many names as it leaves slots: map->size is   *)
(* the original index again.                                                *)
LEMMA SweptSize ==
  ASSUME CountedInv(0), SlotsInv, Sweeping, \A x \in HeldKeys : Contents[x] <= limit
  PROVE  size = limit + 1
<1>1. /\ limit \in Nat /\ size \in Nat /\ \A x \in HeldKeys : Contents[x] \in Nat
      /\ Contents = [x \in HeldKeys |-> Contents[x]]
  <2>1. Contents = [x \in HeldKeys |-> Contents[x]]  BY DEF Contents
  <2> QED  BY <2>1, ContentsNat
<1>2. Contents \in Bijection(HeldKeys, 0 .. limit)
  <2>1. \A x \in HeldKeys : Contents[x] \in 0 .. limit  BY <1>1
  <2>2. Contents \in [HeldKeys -> 0 .. limit]  BY <1>1, <2>1
  <2>3. \A x, y \in HeldKeys : Contents[x] = Contents[y] => x = y  BY DEF SlotsInv
  <2>4. \A s \in 0 .. limit : \E x \in HeldKeys : Contents[x] = s
    <3>1. 0 .. limit = 0 .. Top - 1  BY <1>1 DEF Top
    <3> QED  BY <3>1 DEF SlotsInv
  <2> QED  BY <2>2, <2>3, <2>4, Fun_IsBij
<1>3. IsFiniteSet(HeldKeys) /\ size = Cardinality(HeldKeys)
  <2>1. IsFiniteSet(HeldKeys) /\ size = Cardinality(HeldKeys) + 0
    BY DEF CountedInv, Counted
  <2> QED  BY <2>1, FS_CardinalityType
<1>4. Cardinality(0 .. limit) = Cardinality(HeldKeys)
  BY <1>2, <1>3, FS_Bijection DEF ExistsBijection
<1>5. Cardinality(0 .. limit) = limit + 1
  <2>1. limit \in Int /\ 0 \in Int /\ ~ (0 > limit) /\ limit - 0 + 1 = limit + 1  BY <1>1
  <2> QED  BY <2>1, FS_Interval
<1> QED  BY <1>3, <1>4, <1>5

----------------------------------------------------------------------------
(* Each step keeps the invariant: a store to a known name rewrites its own  *)
(* slot with its own name; *)
LEMMA StoreKnownInv ==
  ASSUME ScopesInv, NEW x \in Keys, Affectation(x), Found(x)
  PROVE  BoundsOK' /\ SlotsInv' /\ OwnInv' /\ Swept'
<1>1. /\ x \in HeldKeys /\ pc = "idle" /\ UNCHANGED <<mapVars, scopes, status>>
      /\ mem' = Written(Contents[x], x)
  BY StoreKnown
<1>2. /\ HeldKeys' = HeldKeys /\ Contents' = Contents /\ Top' = Top
      /\ size' = size /\ limit' = limit /\ pc' = pc /\ Swept' = Swept
      /\ Sweeping' = Sweeping
  BY <1>1, SameMap
<1>3. BoundsOK'  BY <1>1, <1>2 DEF ScopesInv, BoundsOK
<1>4. SlotsInv'  BY <1>2 DEF ScopesInv, SlotsInv
<1>5. Swept'  BY <1>2 DEF ScopesInv
<1>6. OwnInv'
  <2>1. SUFFICES ASSUME NEW y \in HeldKeys, Known(y)
                 PROVE  Contents[y] \in DOMAIN mem' /\ mem'[Contents[y]] = y
    BY <1>2 DEF OwnInv, Known
  <2>2. Contents[y] \in DOMAIN mem /\ mem[Contents[y]] = y
    BY <2>1 DEF ScopesInv, OwnInv
  <2>3. y # x => Contents[y] # Contents[x]
    BY <1>1 DEF ScopesInv, SlotsInv
  <2> QED  BY <1>1, <2>2, <2>3, StoreMem
<1> QED  BY <1>3, <1>4, <1>5, <1>6

(* a store to a new name writes a slot no known name has; *)
LEMMA StoreNewInv ==
  ASSUME ScopesInv, NEW x \in Keys, Affectation(x), ~ Found(x)
  PROVE  BoundsOK' /\ SlotsInv' /\ OwnInv' /\ Swept'
<1>1. /\ x \notin HeldKeys /\ size \in Values /\ PutTo(x, size)
      /\ pc = "idle" /\ pc' # "sweep" /\ size' = size + 1
      /\ HeldKeys' = HeldKeys \union {x}
      /\ Contents' = [y \in HeldKeys \union {x} |-> IF y = x THEN size ELSE Contents[y]]
      /\ mem' = Written(size, x) /\ UNCHANGED <<scopes, status>>
  BY StoreNew
<1>2. Top = size /\ Top' = size + 1 /\ ~ Sweeping
  BY <1>1 DEF Top, Sweeping
<1>3. /\ size \in Nat /\ \A y \in HeldKeys : Contents[y] \in Nat /\ Contents[y] < size
  BY <1>2, ContentsNat DEF ScopesInv, SlotsInv
<1>4. /\ Contents'[x] = size
      /\ \A y \in HeldKeys : Contents'[y] = Contents[y] /\ y # x
      /\ \A y \in HeldKeys' : y = x \/ y \in HeldKeys
  BY <1>1
<1>5. BoundsOK'
  <2>1. \A n \in 1 .. Len(scopes) : scopes[n] \in Nat /\ scopes[n] <= size
    BY <1>2 DEF ScopesInv, BoundsOK
  <2>2. \A n \in 1 .. Len(scopes) : scopes[n] <= size + 1
    BY <1>3, <2>1
  <2> QED  BY <1>1, <1>2, <2>1, <2>2 DEF ScopesInv, BoundsOK
<1>6. SlotsInv'
  <2>1. \A y, z \in HeldKeys' : Contents'[y] = Contents'[z] => y = z
    BY <1>3, <1>4 DEF ScopesInv, SlotsInv
  <2>2. ASSUME NEW s \in 0 .. Top' - 1 PROVE \E y \in HeldKeys' : Contents'[y] = s
    <3>1. CASE s = size  BY <1>1, <1>4, <3>1
    <3>2. CASE s # size
      <4>1. s \in 0 .. Top - 1  BY <1>2, <1>3, <2>2, <3>2
      <4>2. PICK y \in HeldKeys : Contents[y] = s  BY <4>1 DEF ScopesInv, SlotsInv
      <4> QED  BY <1>1, <1>4, <4>2
    <3> QED  BY <3>1, <3>2
  <2>3. \A y \in HeldKeys' : Contents'[y] < size'
    <3>1. \A y \in HeldKeys : Contents[y] < size + 1  BY <1>3
    <3>2. size < size + 1  BY <1>3
    <3> QED  BY <1>1, <1>4, <3>1, <3>2
  <2> QED  BY <2>1, <2>2, <2>3 DEF SlotsInv
<1>7. OwnInv'
  <2>1. ASSUME NEW y \in HeldKeys' PROVE Contents'[y] \in DOMAIN mem' /\ mem'[Contents'[y]] = y
    <3>1. CASE y = x  BY <1>1, <1>4, <3>1, StoreMem
    <3>2. CASE y \in HeldKeys
      <4>1. Contents[y] \in DOMAIN mem /\ mem[Contents[y]] = y
        BY <1>1, <3>2 DEF ScopesInv, OwnInv, Known
      <4>2. Contents[y] # size  BY <1>3, <3>2
      <4> QED  BY <1>1, <1>4, <3>2, <4>1, <4>2, StoreMem
    <3> QED  BY <1>4, <3>1, <3>2
  <2> QED  BY <2>1 DEF OwnInv
<1>8. Swept'  BY <1>1 DEF Swept
<1> QED  BY <1>5, <1>6, <1>7, <1>8

(* opening a block puts the size, the least slot it may declare, on the      *)
(* stack; *)
LEMMA EnterInv ==
  ASSUME ScopesInv, EnterScope
  PROVE  BoundsOK' /\ SlotsInv' /\ OwnInv' /\ Swept'
<1>1. /\ pc = "idle" /\ UNCHANGED <<mapVars, status, mem>> /\ scopes' = Append(scopes, size)
      /\ scopes \in Seq(Nat) /\ size \in Nat /\ Len(scopes) \in Nat /\ Top = size
  BY ContentsNat DEF ScopesInv, BoundsOK, EnterScope, Compiling, Top
<1>2. /\ HeldKeys' = HeldKeys /\ Contents' = Contents /\ Top' = Top
      /\ size' = size /\ limit' = limit /\ pc' = pc /\ Swept' = Swept
      /\ Sweeping' = Sweeping
  BY <1>1, SameMap
<1>3. /\ scopes' \in Seq(Nat) /\ Len(scopes') = Len(scopes) + 1
      /\ \A n \in 1 .. Len(scopes) : scopes'[n] = scopes[n]
      /\ scopes'[Len(scopes) + 1] = size
  BY <1>1, AppendProperties
<1>4. BoundsOK'
  <2>1. \A n \in 1 .. Len(scopes) : scopes[n] \in Nat /\ scopes[n] <= size
    BY <1>1 DEF ScopesInv, BoundsOK
  <2>2. \A n \in 1 .. Len(scopes') : n \in 1 .. Len(scopes) \/ n = Len(scopes')
    BY <1>1, <1>3
  <2>3. \A n, m \in 1 .. Len(scopes) : n <= m => scopes[n] <= scopes[m]
    BY DEF ScopesInv, BoundsOK
  <2>4. size <= size /\ scopes'[Len(scopes')] = size
    BY <1>1, <1>3
  <2>5. \A n \in 1 .. Len(scopes') : scopes'[n] <= Top'
    BY <1>1, <1>2, <1>3, <2>1, <2>2, <2>4
  <2>6. ASSUME NEW n \in 1 .. Len(scopes'), NEW m \in 1 .. Len(scopes'), n <= m
        PROVE  scopes'[n] <= scopes'[m]
    <3>1. CASE m = Len(scopes')
      BY <1>1, <1>2, <2>4, <2>5, <3>1
    <3>2. CASE m # Len(scopes')
      <4>1. m \in 1 .. Len(scopes) /\ n \in 1 .. Len(scopes)
        BY <1>1, <1>3, <2>6, <3>2
      <4> QED  BY <1>3, <2>3, <2>6, <4>1
    <3> QED  BY <3>1, <3>2
  <2> QED  BY <1>3, <2>5, <2>6 DEF BoundsOK
<1>5. SlotsInv'  BY <1>2 DEF ScopesInv, SlotsInv
<1>6. OwnInv'  BY <1>1, <1>2 DEF ScopesInv, OwnInv, Known
<1>7. Swept'  BY <1>2 DEF ScopesInv
<1> QED  BY <1>4, <1>5, <1>6, <1>7

(* leaving one makes its original index the bound of what is known; *)
LEMMA LeaveInv ==
  ASSUME ScopesInv, LeaveScope, ShortChains
  PROVE  BoundsOK' /\ SlotsInv' /\ OwnInv' /\ Swept'
<1> DEFINE last == scopes[Len(scopes)]
<1>1. /\ Len(scopes) \in Nat \ {0} /\ last \in Nat /\ last <= size /\ size <= SizeMax
      /\ pc = "idle" /\ pc' = "sweep" /\ limit' = LimitOf(last) /\ size' = size
      /\ HeldKeys' = HeldKeys /\ Contents' = Contents
      /\ scopes' \in Seq(Nat) /\ Len(scopes') = Len(scopes) - 1
      /\ \A n \in 1 .. Len(scopes) - 1 : scopes'[n] = scopes[n]
      /\ mem' = mem /\ StartSweep(LimitOf(last)) /\ LimitOf(last) \in Nat /\ SizeMax \in Nat
  BY LeaveEffect
<1> HIDE DEF last
<1>2. /\ Top = size /\ size \in Nat /\ ~ Sweeping
      /\ Top' = IF last = 0 THEN size ELSE last
      /\ last <= Top' /\ Top' <= size
      /\ ~ Sweeping' => Top' = size
  <2>1. size \in Nat  BY ContentsNat DEF ScopesInv
  <2>2. Top = size /\ ~ Sweeping  BY <1>1 DEF Top, Sweeping
  <2>3. CASE last = 0
    <3>1. ~ Sweeping' /\ Top' = size  BY <1>1, <2>3 DEF Top, Sweeping, LimitOf
    <3> QED  BY <1>1, <2>1, <2>2, <2>3, <3>1
  <2>4. CASE last # 0
    <3>1. limit' = last - 1 /\ last - 1 < SizeMax /\ (last - 1) + 1 = last
      BY <1>1, <2>1, <2>4 DEF LimitOf
    <3>2. Sweeping' /\ Top' = last  BY <1>1, <3>1 DEF Top, Sweeping
    <3> QED  BY <1>1, <2>1, <2>2, <2>4, <3>2
  <2> QED  BY <2>3, <2>4
<1>3. \A n \in 1 .. Len(scopes') : n \in 1 .. Len(scopes) /\ n \in 1 .. Len(scopes) - 1
  BY <1>1
<1>4. BoundsOK'
  <2>1. \A n \in 1 .. Len(scopes) :
          scopes[n] \in Nat /\ \A m \in 1 .. Len(scopes) : n <= m => scopes[n] <= scopes[m]
    BY DEF ScopesInv, BoundsOK
  <2>2. Len(scopes) \in 1 .. Len(scopes) /\ \A n \in 1 .. Len(scopes) : n <= Len(scopes)
    BY <1>1
  <2>3. \A n \in 1 .. Len(scopes) : scopes[n] <= last
    BY <2>1, <2>2 DEF last
  <2>4. \A n \in 1 .. Len(scopes') : scopes'[n] <= Top'
    <3>1. Top' \in Nat  BY <1>1, <1>2
    <3> QED  BY <1>1, <1>2, <1>3, <2>1, <2>3, <3>1
  <2>5. \A n, m \in 1 .. Len(scopes') : n <= m => scopes'[n] <= scopes'[m]
    BY <1>1, <1>3, <2>1
  <2> QED  BY <1>1, <2>4, <2>5 DEF BoundsOK
<1>5. SlotsInv'
  <2>1. \A s \in 0 .. Top' - 1 : s \in 0 .. Top - 1
    <3>1. Top' \in Nat  BY <1>1, <1>2
    <3> QED  BY <1>1, <1>2, <3>1
  <2>2. \A x \in HeldKeys : Contents[x] < size  BY <1>2 DEF ScopesInv, SlotsInv
  <2>3. \A s \in 0 .. Top' - 1 : \E x \in HeldKeys : Contents[x] = s
    BY <2>1 DEF ScopesInv, SlotsInv
  <2>4. \A x, y \in HeldKeys : Contents[x] = Contents[y] => x = y
    BY DEF ScopesInv, SlotsInv
  <2> QED  BY <1>1, <2>2, <2>3, <2>4 DEF SlotsInv
<1>6. OwnInv'  BY <1>1 DEF ScopesInv, OwnInv, Known
<1>7. Swept'  BY <1>1, StartSwept DEF ScopesInv, CountedInv
<1> QED  BY <1>4, <1>5, <1>6, <1>7

(* and a step of a walk either moves entries about or takes one above that  *)
(* bound, until map->size is the bound again. *)
LEMMA MapStepInv ==
  ASSUME ScopesInv, MapStep
  PROVE  BoundsOK' /\ SlotsInv' /\ OwnInv' /\ Swept'
<1>1. CountedInv(0) /\ Swept /\ Walk /\ UNCHANGED <<scopes, status, mem>>
  BY DEF ScopesInv, MapStep
<1>2. /\ limit \in Nat /\ size \in Nat /\ \A x \in HeldKeys : Contents[x] \in Nat
      /\ size <= SizeMax /\ SizeMax \in Nat
  BY <1>1, ContentsNat, SizeFits, ScopesAssumption
<1>3. ASSUME HeldKeys' = HeldKeys, Contents' = Contents, Top' = Top,
             ~ Sweeping' => \A x \in HeldKeys : Contents[x] < size',
             \A x \in HeldKeys : Known(x)' => Known(x)
      PROVE  BoundsOK' /\ SlotsInv' /\ OwnInv'
  <2>1. BoundsOK'  BY <1>1, <1>3 DEF ScopesInv, BoundsOK
  <2>2. SlotsInv'  BY <1>3 DEF ScopesInv, SlotsInv
  <2>3. OwnInv'  BY <1>1, <1>3 DEF ScopesInv, OwnInv
  <2> QED  BY <2>1, <2>2, <2>3
<1>4. CASE DoubleStep
  <2>1. /\ HeldKeys' = HeldKeys /\ Contents' = Contents /\ size' = size /\ limit' = limit
        /\ pc = "double" /\ pc' \in {"double", "idle"}
    BY <1>1, <1>4, DoubleContents
  <2>2. Top' = Top  BY <2>1 DEF Top, Sweeping
  <2>3. \A x \in HeldKeys : Contents[x] < size  BY <2>1 DEF ScopesInv, SlotsInv, Sweeping
  <2> QED  BY <1>1, <1>3, <2>1, <2>2, <2>3, WalkSwept DEF CountedInv, Known
<1>5. CASE SweepStep
  <2>1. pc = "sweep" /\ limit' = limit  BY <1>1, <1>5, SweepContents
  <2>2. ASSUME pc' = "sweep", size' = size - 1,
               NEW k \in HeldKeys, Contents[k] > limit, HeldKeys' = HeldKeys \ {k},
               Contents' = [x \in HeldKeys \ {k} |-> Contents[x]]
        PROVE  BoundsOK' /\ SlotsInv' /\ OwnInv'
    <3>1. Sweeping /\ Sweeping' /\ Top = limit + 1 /\ Top' = Top
      <4>1. ASSUME ~ Sweeping PROVE FALSE
        <5>1. Contents[k] < size  BY <2>2, <4>1 DEF ScopesInv, SlotsInv
        <5>2. ~ (limit < SizeMax)  BY <2>1, <4>1 DEF Sweeping
        <5>3. Contents[k] \in Nat /\ Contents[k] > limit  BY <1>2, <2>2
        <5> QED  BY <1>2, <5>1, <5>2, <5>3
      <4> QED  BY <2>1, <2>2, <4>1 DEF Top, Sweeping
    <3>2. \A x \in HeldKeys' : x \in HeldKeys /\ Contents'[x] = Contents[x]  BY <2>2
    <3>3. BoundsOK'  BY <1>1, <3>1 DEF ScopesInv, BoundsOK
    <3>4. SlotsInv'
      <4>1. ASSUME NEW s \in 0 .. Top - 1 PROVE \E x \in HeldKeys' : Contents'[x] = s
        <5>1. PICK x \in HeldKeys : Contents[x] = s  BY DEF ScopesInv, SlotsInv
        <5>2. x # k  BY <1>2, <2>2, <3>1, <4>1, <5>1
        <5> QED  BY <2>2, <5>1, <5>2
      <4> QED  BY <2>2, <3>1, <3>2, <4>1 DEF ScopesInv, SlotsInv
    <3>5. OwnInv'
      BY <1>1, <2>1, <2>2, <3>2 DEF ScopesInv, OwnInv, Known
    <3> QED  BY <3>3, <3>4, <3>5
  <2>3. ASSUME HeldKeys' = HeldKeys, Contents' = Contents, size' = size, pc' = "sweep"
        PROVE  BoundsOK' /\ SlotsInv' /\ OwnInv'
    <3>1. Top' = Top /\ Sweeping' = Sweeping  BY <2>1, <2>3 DEF Top, Sweeping
    <3>2. ~ Sweeping' => \A x \in HeldKeys : Contents[x] < size'
      BY <2>3, <3>1 DEF ScopesInv, SlotsInv
    <3> QED  BY <1>3, <2>1, <2>3, <3>1, <3>2 DEF Known
  <2>4. ASSUME HeldKeys' = HeldKeys, Contents' = Contents, size' = size, pc' = "idle",
               \A x \in HeldKeys : Contents[x] <= limit
        PROVE  BoundsOK' /\ SlotsInv' /\ OwnInv'
    <3>1. Sweeping => size = limit + 1  BY <1>1, <2>4, SweptSize DEF ScopesInv
    <3>2. Top' = Top  BY <2>1, <2>4, <3>1 DEF Top, Sweeping
    <3>3. \A x \in HeldKeys : Contents[x] < size'
      <4>1. CASE Sweeping  BY <1>2, <2>4, <3>1, <4>1
      <4>2. CASE ~ Sweeping  BY <2>4, <4>2 DEF ScopesInv, SlotsInv
      <4> QED  BY <4>1, <4>2
    <3>4. \A x \in HeldKeys : Known(x)' => Known(x)  BY <2>4 DEF Known
    <3> QED  BY <1>3, <2>4, <3>2, <3>3, <3>4
  <2>5. BoundsOK' /\ SlotsInv' /\ OwnInv'
    BY <1>1, <1>5, <2>2, <2>3, <2>4, SweepContents
  <2> QED  BY <1>1, <2>5, WalkSwept DEF CountedInv
<1> QED  BY <1>1, <1>4, <1>5 DEF Walk

(* So every program that leaves no block while three names share a bucket   *)
(* keeps it.                                                                *)
LEMMA NoTriplesInv ==
  ASSUME ScopesInv, StackOK, [ScopesNext]_vars, [LeaveScope => ShortChains]_vars
  PROVE  ScopesInv' /\ StackOK'
<1>1. CountedInv(0)' /\ StackOK'
  BY ScopesMap DEF ScopesInv
<1>2. ASSUME NEW x \in Keys, Affectation(x)
      PROVE  BoundsOK' /\ SlotsInv' /\ OwnInv' /\ Swept'
  BY <1>2, StoreKnownInv, StoreNewInv
<1>3. ASSUME UNCHANGED <<mapVars, scopes, mem>>
      PROVE  BoundsOK' /\ SlotsInv' /\ OwnInv' /\ Swept'
  <2>1. /\ HeldKeys' = HeldKeys /\ Contents' = Contents /\ Top' = Top
        /\ size' = size /\ limit' = limit /\ pc' = pc /\ Swept' = Swept
        /\ Sweeping' = Sweeping
    BY <1>3, SameMap
  <2>2. BoundsOK'  BY <1>3, <2>1 DEF ScopesInv, BoundsOK
  <2>3. SlotsInv'  BY <2>1 DEF ScopesInv, SlotsInv
  <2>4. OwnInv'  BY <1>3, <2>1 DEF ScopesInv, OwnInv, Known
  <2> QED  BY <2>1, <2>2, <2>3, <2>4 DEF ScopesInv
<1>4. ASSUME NEW x \in Keys, VariableLoad(x)
      PROVE  BoundsOK' /\ SlotsInv' /\ OwnInv' /\ Swept'
  BY <1>3, <1>4 DEF VariableLoad
<1>5. CASE EnterScope  BY <1>1, <1>5, EnterInv DEF ScopesInv
<1>6. CASE LeaveScope
  <2>1. pc = "idle" /\ pc' = "sweep"  BY <1>6, LeaveEffect
  <2>2. ShortChains  BY <1>6, <2>1 DEF vars, mapVars
  <2> QED  BY <1>1, <1>6, <2>2, LeaveInv DEF ScopesInv
<1>7. CASE MapStep  BY <1>1, <1>7, MapStepInv DEF ScopesInv
<1>8. CASE UNCHANGED vars
  <2>1. UNCHANGED <<mapVars, scopes, mem>>  BY <1>8 DEF vars
  <2> QED  BY <1>1, <1>3, <2>1 DEF ScopesInv
<1>9. CASE \E x \in Keys : Affectation(x) \/ VariableLoad(x)
  BY <1>1, <1>2, <1>4, <1>9 DEF ScopesInv
<1> QED  BY <1>1, <1>5, <1>6, <1>7, <1>8, <1>9 DEF ScopesNext

(* A program starts with no name, no block and nothing stored. *)
LEMMA ScopesStart ==
  ASSUME ScopesInit
  PROVE  ScopesInv /\ StackOK
<1>1. Init /\ scopes = <<>> /\ size = 0 /\ pc = "idle"
  BY DEF ScopesInit, Init
<1>2. HeldKeys = {}
  BY <1>1, EmptySeq DEF Init, HeldKeys, Held, HasKey, BucketIds
<1>3. CountedInv(0)  BY <1>1, InitInv
<1>4. StackOK /\ BoundsOK  BY <1>1, EmptySeq DEF StackOK, BoundsOK
<1>5. SlotsInv
  <2>1. Top = 0  BY <1>1 DEF Top, Sweeping
  <2>2. 0 .. Top - 1 = {}  BY <2>1
  <2> QED  BY <1>2, <2>2 DEF SlotsInv
<1>6. OwnInv  BY <1>2 DEF OwnInv
<1>7. Swept  BY <1>1 DEF Swept
<1> QED  BY <1>3, <1>4, <1>5, <1>6, <1>7 DEF ScopesInv

(* Every reachable state of the names satisfies the invariant.              *)
LEMMA ScopesSafe == ScopesSpec /\ NoTriples => [](ScopesInv /\ StackOK)
<1>1. ScopesInit => ScopesInv /\ StackOK
  BY ScopesStart
<1>2. ScopesInv /\ StackOK /\ [ScopesNext]_vars /\ [LeaveScope => ShortChains]_vars
        => ScopesInv' /\ StackOK'
  BY NoTriplesInv
<1> QED  BY <1>1, <1>2, PTL DEF ScopesSpec, NoTriples

(* In a program that closes no block while three names share a bucket the   *)
(* slots in use are those below map->size whenever no sweep is running, so  *)
(* the slot a new name gets (compiler.c:318) is no known name's.            *)
THEOREM SlotsDenseCorrect == ScopesSpec /\ NoTriples => []SlotsDense
<1>1. ScopesInv => SlotsDense
  <2> SUFFICES ASSUME ScopesInv, pc # "sweep"
               PROVE  {Contents[x] : x \in HeldKeys} = 0 .. size - 1
    BY DEF SlotsDense
  <2>1. size \in Nat /\ \A x \in HeldKeys : Contents[x] \in Nat /\ Contents[x] < size
    BY ContentsNat DEF ScopesInv, SlotsInv, Sweeping
  <2>2. \A x \in HeldKeys : Contents[x] \in 0 .. size - 1  BY <2>1
  <2>3. \A s \in 0 .. size - 1 : \E x \in HeldKeys : Contents[x] = s
    BY DEF ScopesInv, SlotsInv, Top, Sweeping
  <2> QED  BY <2>2, <2>3
<1> QED  BY <1>1, ScopesSafe, PTL

(* In such a program, from the store that declares a name to the end of its *)
(* block, its slot holds what was stored under it and nothing else          *)
(* (compiler.c:314-323).                                                    *)
THEOREM OwnSlotCorrect == ScopesSpec /\ NoTriples => []OwnSlot
<1>1. ScopesInv => OwnSlot
  BY DEF ScopesInv, OwnInv, OwnSlot
<1> QED  BY <1>1, ScopesSafe, PTL

----------------------------------------------------------------------------
(* The compiler's map, seen as the dictionary of the names it knows, is     *)
(* only ever extended by an absent name and shrunk by a whole sweep.        *)
LEMMA ScopesDictionary ==
  ASSUME ScopesInv, [ScopesNext]_vars
  PROVE  [D!Next]_D!dictVars
<1>1. CountedInv(0) /\ Swept  BY DEF ScopesInv
<1>2. ASSUME UNCHANGED mapVars PROVE UNCHANGED D!dictVars
  <2>1. Contents' = Contents /\ pc' = pc /\ limit' = limit  BY <1>2, SameMap
  <2> QED  BY <2>1 DEF D!dictVars
<1>3. ASSUME NEW x \in Keys, Affectation(x) PROVE [D!Next]_D!dictVars
  <2>1. CASE Found(x)  BY <1>2, <1>3, <2>1, StoreKnown
  <2>2. CASE ~ Found(x)
    <3>1. size \in Values /\ PutTo(x, size)  BY <1>3, <2>2, StoreNew
    <3>2. D!Put(x, size)  BY <1>1, <2>2, <3>1, PutDictionary
    <3> QED  BY <3>1, <3>2 DEF D!Next
  <2> QED  BY <2>1, <2>2
<1>4. ASSUME NEW x \in Keys, VariableLoad(x) PROVE UNCHANGED D!dictVars
  BY <1>2, <1>4 DEF VariableLoad
<1>5. CASE EnterScope
  BY <1>2, <1>5 DEF EnterScope
<1>6. CASE LeaveScope
  <2>1. PICK n \in Values : StartSweep(n)  BY <1>6, LeaveEffect
  <2>2. D!BeginRemoval(n)  BY <1>1, <2>1, StartSweepDictionary, ConstantsAssumption
  <2> QED  BY <2>2 DEF D!Next
<1>7. CASE MapStep
  BY <1>1, <1>7, WalkDictionary DEF MapStep
<1>8. CASE UNCHANGED vars
  BY <1>2, <1>8 DEF vars
<1> QED  BY <1>3, <1>4, <1>5, <1>6, <1>7, <1>8 DEF ScopesNext

(* In such a program the compiler's use of hash_map.h is a dictionary's: no *)
(* doubling loses, moves or changes a name's slot, and no sweep keeps one   *)
(* it should take or takes one it should keep.                              *)
THEOREM DictionaryImplemented == ScopesSpec /\ NoTriples => ImplementsDictionary
<1>1. ScopesInit => D!Init
  BY InitDictionary DEF ScopesInit
<1>2. ScopesInv /\ [ScopesNext]_vars => [D!Next]_D!dictVars
  BY ScopesDictionary
<1> QED  BY <1>1, <1>2, ScopesSafe, PTL DEF ScopesSpec, ImplementsDictionary, D!Spec

----------------------------------------------------------------------------
(* The blocks of a state: for every position n of the stack of blocks, the  *)
(* names in Frame(n), which lie between its bounds.                         *)
Frame(n) ==
  {x \in HeldKeys :
     /\ Known(x)
     /\ Contents[x] >= Bound(n - 1)
     /\ n <= Len(scopes) => Contents[x] < Bound(n)}

(* The abstract state the refinement maps to is that sequence of frames.    *)
LEMMA FramesAre ==
  ASSUME ScopesInv
  PROVE  /\ Len(scopes) \in Nat
         /\ Frames \in Seq(SUBSET Keys) /\ Len(Frames) = Len(scopes) + 1
         /\ \A n \in 1 .. Len(scopes) + 1 : Frames[n] = Frame(n)
<1>1. Len(scopes) \in Nat /\ HeldKeys \subseteq Keys
  BY DEF ScopesInv, BoundsOK, HeldKeys
<1>2. \A n \in 1 .. Len(scopes) + 1 : Frame(n) \in SUBSET Keys
  BY <1>1 DEF Frame
<1>3. Frames = [n \in 1 .. Len(scopes) + 1 |-> Frame(n)]
  BY DEF Frames, Frame
<1>4. Frames \in [1 .. Len(scopes) + 1 -> SUBSET Keys]
  BY <1>2, <1>3
<1>5. Len(scopes) + 1 \in Nat  BY <1>1
<1>6. Frames \in Seq(SUBSET Keys) /\ Len(Frames) = Len(scopes) + 1
  BY <1>4, <1>5, SeqDef, LenProperties
<1> QED  BY <1>1, <1>3, <1>6

(* Every name the compiler knows was declared by one of the open blocks:    *)
(* the innermost one its slot is not below the original index of.           *)
LEMMA VisibleIsKnown ==
  ASSUME ScopesInv, NEW x
  PROVE  L!Visible(x) <=> x \in HeldKeys /\ Known(x)
<1>1. /\ Len(scopes) \in Nat /\ DOMAIN Frames = 1 .. Len(scopes) + 1
      /\ \A n \in 1 .. Len(scopes) + 1 : Frames[n] = Frame(n)
  BY FramesAre DEF Frames
<1>2. L!Visible(x) => x \in HeldKeys /\ Known(x)
  BY <1>1 DEF L!Visible, Frame
<1>3. ASSUME x \in HeldKeys, Known(x) PROVE L!Visible(x)
  <2> DEFINE T == {n \in 1 .. Len(scopes) + 1 : n <= Len(scopes) => Contents[x] < Bound(n)}
  <2>1. Len(scopes) + 1 \in T /\ T \subseteq Nat  BY <1>1
  <2>2. PICK n \in T : \A m \in T : n <= m
    <3> HIDE DEF T
    <3> QED  BY <2>1, LeastNatural
  <2>3. n \in 1 .. Len(scopes) + 1 /\ (n <= Len(scopes) => Contents[x] < Bound(n))
    OBVIOUS
  <2>4. Contents[x] \in Nat  BY <1>3, ContentsNat DEF ScopesInv
  <2>5. Contents[x] >= Bound(n - 1)
    <3>1. CASE n = 1
      <4>1. Bound(n - 1) = 0  BY <3>1 DEF Bound
      <4> QED  BY <2>4, <4>1
    <3>2. CASE n # 1
      <4>1. n - 1 \in 1 .. Len(scopes) /\ n - 1 \in 1 .. Len(scopes) + 1 /\ ~ (n <= n - 1)
        BY <1>1, <2>3, <3>2
      <4>2. ~ (Contents[x] < Bound(n - 1))
        BY <2>2, <4>1
      <4>3. Bound(n - 1) \in Nat
        BY <4>1 DEF Bound, ScopesInv, BoundsOK
      <4> QED  BY <2>4, <4>2, <4>3
    <3> QED  BY <3>1, <3>2
  <2>6. x \in Frame(n)  BY <1>3, <2>3, <2>5 DEF Frame
  <2> QED  BY <1>1, <2>3, <2>6 DEF L!Visible
<1> QED  BY <1>2, <1>3

(* What leaves the stack and what is known leaves the blocks.               *)
LEMMA SameFrames ==
  ASSUME HeldKeys' = HeldKeys, Contents' = Contents, scopes' = scopes,
         \A x \in HeldKeys : Known(x)' <=> Known(x)
  PROVE  Frames' = Frames
BY DEF Frames, Bound

(* The original indices on the stack are at most the size: no name is below *)
(* or above all blocks.                                                     *)
LEMMA BoundsBelowTop ==
  ASSUME ScopesInv
  PROVE  /\ \A n \in 0 .. Len(scopes) : Bound(n) \in Nat /\ Bound(n) <= Top
         /\ \A n \in 1 .. Len(scopes) + 1 : n - 1 \in 0 .. Len(scopes)
         /\ \A n \in 1 .. Len(scopes) + 1 : n <= Len(scopes) \/ n = Len(scopes) + 1
         /\ \A n \in 1 .. Len(scopes) + 1 : n <= Len(scopes) => n \in 0 .. Len(scopes)
<1>1. Len(scopes) \in Nat  BY DEF ScopesInv, BoundsOK
<1>2. ASSUME NEW n \in 0 .. Len(scopes) PROVE Bound(n) \in Nat /\ Bound(n) <= Top
  <2>1. CASE n = 0  BY <2>1, ContentsNat DEF Bound, ScopesInv
  <2>2. CASE n # 0
    <3>1. n \in 1 .. Len(scopes)  BY <1>1, <1>2, <2>2
    <3> QED  BY <2>2, <3>1 DEF Bound, ScopesInv, BoundsOK
  <2> QED  BY <2>1, <2>2
<1> QED  BY <1>1, <1>2

(* A store declares an unknown name in the innermost block.                 *)
LEMMA StoreLexical ==
  ASSUME ScopesInv, NEW x \in Keys, Affectation(x)
  PROVE  L!Assign(x)
<1>1. status = "ok" /\ status' = status
  BY DEF Affectation, Compiling
<1>2. CASE Found(x)
  <2>1. x \in HeldKeys /\ pc = "idle" /\ UNCHANGED <<mapVars, scopes, status>>
    BY <1>2, StoreKnown
  <2>2. HeldKeys' = HeldKeys /\ Contents' = Contents /\ limit' = limit /\ pc' = pc
    BY <2>1, SameMap
  <2>3. Frames' = Frames  BY <2>1, <2>2, SameFrames DEF Known
  <2>4. L!Visible(x)  BY <2>1, VisibleIsKnown DEF Known
  <2> QED  BY <1>1, <2>3, <2>4 DEF L!Assign
<1>3. CASE ~ Found(x)
  <2>1. /\ x \notin HeldKeys /\ pc = "idle" /\ pc' # "sweep"
        /\ HeldKeys' = HeldKeys \union {x}
        /\ Contents' = [y \in HeldKeys \union {x} |-> IF y = x THEN size ELSE Contents[y]]
        /\ scopes' = scopes /\ Top = size
    BY <1>3, StoreNew DEF Top, Sweeping
  <2>2. /\ Contents'[x] = size /\ size \in Nat
        /\ \A y \in HeldKeys : Contents'[y] = Contents[y] /\ y # x
    BY <2>1, ContentsNat DEF ScopesInv
  <2>3. ~ L!Visible(x)  BY <2>1, VisibleIsKnown
  <2>4. /\ Len(scopes) \in Nat /\ Len(Frames) = Len(scopes) + 1
        /\ Frames \in Seq(SUBSET Keys) /\ DOMAIN Frames = 1 .. Len(scopes) + 1
        /\ \A n \in 1 .. Len(scopes) + 1 : Frames[n] = Frame(n)
    BY FramesAre DEF Frames
  <2>5. ASSUME NEW n \in 1 .. Len(scopes) + 1
        PROVE  Frame(n)' = IF n = Len(scopes) + 1 THEN Frame(n) \union {x} ELSE Frame(n)
    <3>1. n - 1 \in 0 .. Len(scopes) /\ Bound(n - 1) \in Nat /\ Bound(n - 1) <= size
      BY <2>1, BoundsBelowTop
    <3>2. n <= Len(scopes) => ~ (size < Bound(n))
      <4>1. n <= Len(scopes) => Bound(n) \in Nat /\ Bound(n) <= size
        BY <2>1, BoundsBelowTop
      <4> QED  BY <2>2, <4>1
    <3>3. n <= Len(scopes) <=> n # Len(scopes) + 1  BY <2>4
    <3>4. Bound(n)' = Bound(n) /\ Bound(n - 1)' = Bound(n - 1)  BY <2>1 DEF Bound
    <3>5. \A y \in HeldKeys' : Known(y)'  BY <2>1 DEF Known
    <3>6. \A y \in HeldKeys : Known(y)  BY <2>1 DEF Known
    <3>7. x \in Frame(n)' <=> n = Len(scopes) + 1
      BY <2>1, <2>2, <3>1, <3>2, <3>3, <3>4, <3>5 DEF Frame
    <3>8. ASSUME NEW y, y # x PROVE y \in Frame(n)' <=> y \in Frame(n)
      BY <2>1, <2>2, <3>4, <3>5, <3>6, <3>8 DEF Frame
    <3>9. x \notin Frame(n)  BY <2>1 DEF Frame
    <3> QED  BY <3>7, <3>8, <3>9
  <2>6. Frames' = [n \in 1 .. Len(scopes) + 1 |-> Frame(n)']
    BY <2>1 DEF Frames, Frame
  <2>7. Frames' = [Frames EXCEPT ![Len(Frames)] = @ \union {x}]
    <3> DEFINE F == [Frames EXCEPT ![Len(Frames)] = @ \union {x}]
    <3>1. F = [n \in 1 .. Len(scopes) + 1 |->
                 IF n = Len(scopes) + 1 THEN Frames[n] \union {x} ELSE Frames[n]]
      BY <2>4
    <3> QED  BY <2>4, <2>5, <2>6, <3>1
  <2> QED  BY <1>1, <2>3, <2>7 DEF L!Assign
<1> QED  BY <1>2, <1>3

(* A load of a name that no open block declares is the compilation error,   *)
(* and no other is.                                                         *)
LEMMA LoadLexical ==
  ASSUME ScopesInv, NEW x \in Keys, VariableLoad(x)
  PROVE  L!Load(x)
<1>1. /\ pc = "idle" /\ status = "ok" /\ UNCHANGED <<mapVars, scopes, mem>>
      /\ status' = IF Found(x) THEN "ok" ELSE "error"
  BY DEF VariableLoad, Compiling
<1>2. L!Visible(x) <=> Found(x)
  BY <1>1, VisibleIsKnown, FoundHeld DEF Known, ScopesInv, CountedInv
<1>3. Frames' = Frames
  <2>1. HeldKeys' = HeldKeys /\ Contents' = Contents /\ limit' = limit /\ pc' = pc
    BY <1>1, SameMap
  <2> QED  BY <1>1, <2>1, SameFrames DEF Known
<1> QED  BY <1>1, <1>2, <1>3 DEF L!Load

(* Entering a block opens an empty one.                                     *)
LEMMA EnterLexical ==
  ASSUME ScopesInv, EnterScope
  PROVE  L!Open
<1>1. /\ pc = "idle" /\ status = "ok" /\ status' = status /\ UNCHANGED mapVars
      /\ scopes' = Append(scopes, size) /\ scopes \in Seq(Nat) /\ size \in Nat
      /\ \A y \in HeldKeys : Contents[y] < size /\ Contents[y] \in Nat
  BY ContentsNat DEF EnterScope, Compiling, ScopesInv, BoundsOK, SlotsInv, Sweeping
<1>2. HeldKeys' = HeldKeys /\ Contents' = Contents /\ limit' = limit /\ pc' = pc
  BY <1>1, SameMap
<1>3. /\ Len(scopes) \in Nat /\ Len(Frames) = Len(scopes) + 1
      /\ Frames \in Seq(SUBSET Keys)
      /\ \A n \in 1 .. Len(scopes) + 1 : Frames[n] = Frame(n)
  BY FramesAre
<1>4. /\ Len(scopes') = Len(scopes) + 1 /\ scopes'[Len(scopes) + 1] = size
      /\ \A n \in 1 .. Len(scopes) : scopes'[n] = scopes[n]
  BY <1>1, AppendProperties
<1>5. \A y : Known(y)' <=> Known(y)
  BY <1>2 DEF Known
<1>6. \A n \in 0 .. Len(scopes) : Bound(n)' = Bound(n)
  <2>1. \A n \in 0 .. Len(scopes) : n = 0 \/ n \in 1 .. Len(scopes)  BY <1>3
  <2> QED  BY <1>4, <2>1 DEF Bound
<1>7. PICK l \in Nat : l = Len(scopes)
  BY <1>3
<1>8. Bound(l + 1)' = size /\ l + 1 # 0
  <2>1. l + 1 # 0 /\ scopes'[l + 1] = size  BY <1>4, <1>7
  <2> QED  BY <2>1 DEF Bound
<1>9. ASSUME NEW n, n = l + 2 PROVE Frame(n)' = {}
  <2>1. n - 1 = l + 1  BY <1>9
  <2>2. \A y \in HeldKeys : ~ (Contents[y] >= size)  BY <1>1
  <2>3. ASSUME NEW y \in Frame(n)' PROVE FALSE
    <3>1. y \in HeldKeys' /\ Contents'[y] >= Bound(n - 1)'
      BY <2>3 DEF Frame
    <3>2. Bound(n - 1)' = size
      BY <1>8, <2>1 DEF Bound
    <3> QED  BY <1>2, <2>2, <3>1, <3>2
  <2> QED  BY <2>3
<1>10. ASSUME NEW n \in 1 .. l + 1 PROVE Frame(n)' = Frame(n)
  <2>1. n - 1 \in 0 .. l /\ Bound(n - 1)' = Bound(n - 1)
    BY <1>6, <1>7
  <2>2. CASE n <= l
    <3>1. Bound(n)' = Bound(n) /\ n <= Len(scopes')
      BY <1>4, <1>6, <1>7, <2>2
    <3> QED  BY <1>2, <1>5, <1>7, <2>1, <2>2, <3>1 DEF Frame
  <2>3. CASE n = l + 1
    <3>1. Bound(n)' = size /\ n <= Len(scopes') /\ ~ (n <= Len(scopes))
      BY <1>4, <1>7, <1>8, <2>3
    <3> QED  BY <1>1, <1>2, <1>5, <2>1, <3>1 DEF Frame
  <2> QED  BY <2>2, <2>3
<1>11. Frames' = [n \in 1 .. l + 2 |-> Frame(n)']
  <2>1. Len(scopes') + 1 = l + 2  BY <1>4, <1>7
  <2> QED  BY <2>1 DEF Frames, Frame
<1>12. Frames' = Append(Frames, {})
  <2>1. {} \in SUBSET Keys  OBVIOUS
  <2>2. /\ Append(Frames, {}) \in Seq(SUBSET Keys)
        /\ Len(Append(Frames, {})) = l + 2
        /\ \A n \in 1 .. l + 1 : Append(Frames, {})[n] = Frame(n)
        /\ Append(Frames, {})[l + 2] = {}
    <3>1. Len(Frames) \in Nat /\ Len(Frames) = l + 1 /\ Len(Frames) + 1 = l + 2
      BY <1>3, <1>7
    <3> QED  BY <1>3, <1>7, <2>1, <3>1, AppendProperties
  <2>3. Append(Frames, {}) = [n \in 1 .. l + 2 |-> Append(Frames, {})[n]]
    BY <2>2, LenProperties
  <2>4. ASSUME NEW n \in 1 .. l + 2 PROVE Append(Frames, {})[n] = Frame(n)'
    <3>1. CASE n \in 1 .. l + 1  BY <1>10, <2>2, <3>1
    <3>2. CASE n = l + 2
      <4>1. Frame(n)' = {}  BY <1>9, <3>2
      <4>2. Append(Frames, {})[n] = {}  BY <2>2, <3>2
      <4> QED  BY <4>1, <4>2
    <3>3. n \in 1 .. l + 1 \/ n = l + 2  OBVIOUS
    <3> QED  BY <3>1, <3>2, <3>3
  <2> QED  BY <1>11, <2>3, <2>4
<1> QED  BY <1>1, <1>12 DEF L!Open

(* In the programs of GlobalFirst every open block came after a variable.   *)
BlocksAfterFirst == \A n \in 1 .. Len(scopes) : scopes[n] >= 1

(* Leaving a block forgets its names and no other's, from the first step of *)
(* the sweep on.                                                            *)
LEMMA LeaveLexical ==
  ASSUME ScopesInv, LeaveScope, BlocksAfterFirst
  PROVE  L!Close
<1> DEFINE last == scopes[Len(scopes)]
<1>1. /\ Len(scopes) \in Nat \ {0} /\ last \in Nat /\ 1 <= last
      /\ pc = "idle" /\ pc' = "sweep" /\ limit' = last - 1
      /\ HeldKeys' = HeldKeys /\ Contents' = Contents
      /\ scopes' \in Seq(Nat) /\ Len(scopes') = Len(scopes) - 1
      /\ \A n \in 1 .. Len(scopes) - 1 : scopes'[n] = scopes[n]
      /\ status' = status
  <2>1. Len(scopes) \in Nat \ {0}  BY LeaveEffect
  <2>2. Len(scopes) \in 1 .. Len(scopes)  BY <2>1
  <2>3. scopes[Len(scopes)] >= 1  BY <2>2 DEF BlocksAfterFirst
  <2>4. scopes[Len(scopes)] \in Nat  BY LeaveEffect
  <2>5. LimitOf(scopes[Len(scopes)]) = scopes[Len(scopes)] - 1 /\ 1 <= scopes[Len(scopes)]
    BY <2>3, <2>4 DEF LimitOf
  <2> QED  BY <2>5, LeaveEffect
<1>2. status = "ok"  BY DEF LeaveScope, Compiling
<1>3. /\ Len(Frames) = Len(scopes) + 1 /\ Frames \in Seq(SUBSET Keys)
      /\ \A n \in 1 .. Len(scopes) + 1 : Frames[n] = Frame(n)
  BY FramesAre
<1>4. \A n \in 1 .. Len(scopes) : scopes[n] \in Nat /\ scopes[n] <= last
  <2>1. Len(scopes) \in 1 .. Len(scopes) /\ \A n \in 1 .. Len(scopes) : n <= Len(scopes)
    BY <1>1
  <2> QED  BY <2>1 DEF ScopesInv, BoundsOK
<1> HIDE DEF last
<1>5. ASSUME NEW y \in HeldKeys
      PROVE  Known(y) /\ (Known(y)' <=> Contents[y] < last) /\ Contents[y] \in Nat
  <2>1. Contents[y] \in Nat  BY ContentsNat DEF ScopesInv
  <2>2. Contents[y] <= last - 1 <=> Contents[y] < last  BY <1>1, <2>1
  <2> QED  BY <1>1, <2>1, <2>2 DEF Known
<1>6. \A n \in 0 .. Len(scopes) - 1 : Bound(n)' = Bound(n)
  <2>1. \A n \in 0 .. Len(scopes) - 1 : n = 0 \/ n \in 1 .. Len(scopes) - 1  BY <1>1
  <2> QED  BY <1>1, <2>1 DEF Bound
<1>7. Bound(Len(scopes)) = last
  BY <1>1 DEF Bound, last
<1>8. ASSUME NEW n \in 1 .. Len(scopes) PROVE Frame(n)' = Frame(n)
  <2>1. n - 1 \in 0 .. Len(scopes) - 1 /\ Bound(n - 1)' = Bound(n - 1) /\ n <= Len(scopes)
    BY <1>1, <1>6
  <2>2. CASE n = Len(scopes)
    <3>1. ~ (n <= Len(scopes')) /\ Bound(n) = last  BY <1>1, <1>7, <2>2
    <3> QED  BY <1>1, <1>5, <2>1, <3>1 DEF Frame
  <2>3. CASE n # Len(scopes)
    <3>1. /\ n <= Len(scopes') /\ n \in 0 .. Len(scopes) - 1
          /\ Bound(n)' = Bound(n)
      BY <1>1, <1>6, <2>3
    <3>2. Bound(n) \in Nat /\ Bound(n) <= last
      BY <1>1, <1>4 DEF Bound
    <3>3. \A y \in HeldKeys : Contents[y] < Bound(n) => Contents[y] < last
      BY <1>1, <1>5, <3>2
    <3> QED  BY <1>1, <1>5, <2>1, <3>1, <3>3 DEF Frame
  <2> QED  BY <2>2, <2>3
<1>9. Frames' = [n \in 1 .. Len(scopes) |-> Frame(n)']
  <2>1. Len(scopes') + 1 = Len(scopes)  BY <1>1
  <2> QED  BY <2>1 DEF Frames, Frame
<1>10. PICK l \in Nat \ {0} : l = Len(scopes)
  BY <1>1
<1> DEFINE front == SubSeq(Frames, 1, l)
<1>11. \A n \in 1 .. l : n \in 1 .. Len(scopes) + 1 /\ Frames[n] \in SUBSET Keys
  <2>1. \A n \in 1 .. l : n \in 1 .. Len(scopes) + 1  BY <1>10
  <2> QED  BY <1>3, <2>1
<1>12. /\ front \in Seq(SUBSET Keys)
       /\ Len(front) = IF 1 <= l THEN l - 1 + 1 ELSE 0
       /\ \A n \in 1 .. l - 1 + 1 : front[n] = Frames[1 + n - 1]
  BY <1>10, <1>11, SubSeqProperties
<1> HIDE DEF front
<1>13. Len(front) = l  BY <1>12
<1>14. \A n \in 1 .. l : front[n] = Frames[n]
  <2>1. \A n \in 1 .. l : n \in 1 .. l - 1 + 1 /\ 1 + n - 1 = n  OBVIOUS
  <2> QED  BY <1>12, <2>1
<1>15. front = [n \in 1 .. l |-> front[n]]  BY <1>12, <1>13, LenProperties
<1>16. \A n \in 1 .. l : front[n] = Frame(n)'
  BY <1>3, <1>8, <1>10, <1>11, <1>14
<1>17. Frames' = front  BY <1>9, <1>10, <1>15, <1>16
<1>18. Len(Frames) > 1 /\ Len(Frames) - 1 = l  BY <1>3, <1>10
<1> QED  BY <1>1, <1>2, <1>17, <1>18 DEF L!Close, front

(* No step of a doubling or of a sweep changes what is known.               *)
LEMMA MapStepLexical ==
  ASSUME ScopesInv, MapStep
  PROVE  Frames' = Frames
<1>1. CountedInv(0) /\ Swept /\ Walk /\ scopes' = scopes
  BY DEF ScopesInv, MapStep
<1>2. limit \in Nat /\ \A x \in HeldKeys : Contents[x] \in Nat
  BY <1>1, ContentsNat
<1>3. CASE DoubleStep
  <2>1. /\ HeldKeys' = HeldKeys /\ Contents' = Contents
        /\ pc = "double" /\ pc' \in {"double", "idle"}
    BY <1>1, <1>3, DoubleContents
  <2> QED  BY <1>1, <2>1, SameFrames DEF Known
<1>4. CASE SweepStep
  <2>1. pc = "sweep" /\ limit' = limit  BY <1>1, <1>4, SweepContents
  <2>2. ASSUME pc' = "sweep", NEW k \in HeldKeys, Contents[k] > limit,
               HeldKeys' = HeldKeys \ {k},
               Contents' = [x \in HeldKeys \ {k} |-> Contents[x]]
        PROVE  Frames' = Frames
    <3>1. ~ Known(k)  BY <1>2, <2>1, <2>2 DEF Known
    <3>2. \A y \in HeldKeys' : y \in HeldKeys /\ Contents'[y] = Contents[y]  BY <2>2
    <3>3. \A y \in HeldKeys' : Known(y)' <=> Known(y)  BY <2>1, <2>2, <3>2 DEF Known
    <3>4. \A y \in HeldKeys : y = k \/ y \in HeldKeys'  BY <2>2
    <3>5. \A n : Bound(n)' = Bound(n)  BY <1>1 DEF Bound
    <3>6. \A n \in 1 .. Len(scopes) + 1 : Frame(n)' = Frame(n)
      BY <1>1, <3>1, <3>2, <3>3, <3>4, <3>5 DEF Frame
    <3>7. Frames = [n \in 1 .. Len(scopes) + 1 |-> Frame(n)]
      BY DEF Frames, Frame
    <3>8. Frames' = [n \in 1 .. Len(scopes) + 1 |-> Frame(n)']
      BY <1>1 DEF Frames, Frame
    <3> QED  BY <3>6, <3>7, <3>8
  <2>3. ASSUME HeldKeys' = HeldKeys, Contents' = Contents, pc' = "sweep"
        PROVE  Frames' = Frames
    BY <1>1, <2>1, <2>3, SameFrames DEF Known
  <2>4. ASSUME HeldKeys' = HeldKeys, Contents' = Contents, pc' = "idle",
               \A x \in HeldKeys : Contents[x] <= limit
        PROVE  Frames' = Frames
    BY <1>1, <2>1, <2>4, SameFrames DEF Known
  <2> QED  BY <1>1, <1>4, <2>2, <2>3, <2>4, SweepContents
<1> QED  BY <1>1, <1>3, <1>4 DEF Walk

(* At the start of a program only the main scope is open, and it is empty.  *)
LEMMA InitLexical ==
  ASSUME ScopesInit
  PROVE  L!Init
<1>1. Init /\ scopes = <<>> /\ status = "ok" /\ Len(scopes) = 0
  BY EmptySeq DEF ScopesInit
<1>2. HeldKeys = {}
  BY <1>1, EmptySeq DEF Init, HeldKeys, Held, HasKey, BucketIds
<1>3. Frames = [n \in 1 .. 1 |-> {}]
  <2>1. Frames = [n \in 1 .. Len(scopes) + 1 |-> Frame(n)]  BY DEF Frames, Frame
  <2>2. \A n : Frame(n) = {}  BY <1>2 DEF Frame
  <2> QED  BY <1>1, <2>1, <2>2
<1>4. Frames = <<{}>>  BY <1>3
<1> QED  BY <1>1, <1>4 DEF L!Init

(* In the programs of GlobalFirst no block of the stack has the original    *)
(* index 0.                                                                 *)
LEMMA FirstKept ==
  ASSUME ScopesInv, BlocksAfterFirst, [ScopesNext]_vars, [EnterScope => size > 0]_vars
  PROVE  BlocksAfterFirst'
<1>1. scopes \in Seq(Nat) /\ Len(scopes) \in Nat /\ size \in Nat
  BY ContentsNat DEF ScopesInv, BoundsOK
<1>2. CASE EnterScope
  <2>1. scopes' = Append(scopes, size)  BY <1>2 DEF EnterScope
  <2>2. /\ Len(scopes') = Len(scopes) + 1 /\ scopes'[Len(scopes) + 1] = size
        /\ \A n \in 1 .. Len(scopes) : scopes'[n] = scopes[n]
    BY <1>1, <2>1, AppendProperties
  <2>3. scopes' # scopes  BY <1>1, <2>2
  <2>4. size >= 1  BY <1>1, <1>2, <2>3 DEF vars
  <2>5. \A n \in 1 .. Len(scopes') : n \in 1 .. Len(scopes) \/ n = Len(scopes) + 1
    BY <1>1, <2>2
  <2> QED  BY <2>2, <2>4, <2>5 DEF BlocksAfterFirst
<1>3. CASE LeaveScope
  <2>1. /\ Len(scopes') = Len(scopes) - 1
        /\ \A n \in 1 .. Len(scopes) - 1 : scopes'[n] = scopes[n]
    BY <1>3, LeaveEffect
  <2>2. \A n \in 1 .. Len(scopes') : n \in 1 .. Len(scopes) /\ n \in 1 .. Len(scopes) - 1
    BY <1>1, <2>1
  <2> QED  BY <2>1, <2>2 DEF BlocksAfterFirst
<1>4. ASSUME scopes' = scopes PROVE BlocksAfterFirst'
  BY <1>4 DEF BlocksAfterFirst
<1>5. ASSUME NEW x \in Keys, Affectation(x) \/ VariableLoad(x) PROVE scopes' = scopes
  BY <1>5 DEF Affectation, VariableLoad
<1> QED  BY <1>2, <1>3, <1>4, <1>5 DEF ScopesNext, MapStep, vars

(* In a program that closes no block while three names share a bucket and   *)
(* opens none before the first variable the compiler resolves names as      *)
(* block scoping says, walks and all: a name is known exactly while a block *)
(* that declared it is open, and only the use of a name that is not is an   *)
(* error (compiler.c:236-250).                                              *)
THEOREM LexicalScopesImplemented ==
  ScopesSpec /\ NoTriples /\ GlobalFirst => ImplementsLexicalScopes
<1>1. ScopesInit => L!Init /\ BlocksAfterFirst
  <2>1. ScopesInit => BlocksAfterFirst
    BY EmptySeq DEF ScopesInit, BlocksAfterFirst
  <2> QED  BY <2>1, InitLexical
<1>2. ScopesInv /\ BlocksAfterFirst /\ [ScopesNext]_vars => [L!Next]_L!scopeVars
  <2> SUFFICES ASSUME ScopesInv, BlocksAfterFirst, [ScopesNext]_vars
               PROVE  [L!Next]_L!scopeVars
    OBVIOUS
  <2>1. ASSUME NEW x \in Keys, Affectation(x) PROVE L!Next
    BY <2>1, StoreLexical DEF L!Next
  <2>2. ASSUME NEW x \in Keys, VariableLoad(x) PROVE L!Next
    BY <2>2, LoadLexical DEF L!Next
  <2>3. CASE EnterScope  BY <2>3, EnterLexical DEF L!Next
  <2>4. CASE LeaveScope  BY <2>4, LeaveLexical DEF L!Next
  <2>5. CASE MapStep
    <3>1. status' = status  BY <2>5 DEF MapStep
    <3> QED  BY <2>5, <3>1, MapStepLexical DEF L!scopeVars
  <2>6. CASE UNCHANGED vars
    <3>1. UNCHANGED <<mapVars, scopes, status>>  BY <2>6 DEF vars
    <3>2. HeldKeys' = HeldKeys /\ Contents' = Contents /\ limit' = limit /\ pc' = pc
      BY <3>1, SameMap
    <3>3. Frames' = Frames  BY <3>1, <3>2, SameFrames DEF Known
    <3> QED  BY <3>1, <3>3 DEF L!scopeVars
  <2> QED  BY <2>1, <2>2, <2>3, <2>4, <2>5, <2>6 DEF ScopesNext
<1>3. ScopesInv /\ BlocksAfterFirst /\ [ScopesNext]_vars /\ [EnterScope => size > 0]_vars
        => BlocksAfterFirst'
  BY FirstKept
<1>4. ScopesSpec /\ NoTriples => []ScopesInv
  BY ScopesSafe, PTL
<1> QED  BY <1>1, <1>2, <1>3, <1>4, PTL
         DEF ScopesSpec, GlobalFirst, ImplementsLexicalScopes, L!Spec

(* The programs TLC checks these properties of meet both hypotheses.        *)
LEMMA CheckedPrograms == ShortChainsSpec => ScopesSpec /\ NoTriples /\ GlobalFirst
<1>1. [ShortChainsNext]_vars => [ScopesNext]_vars
  BY DEF ShortChainsNext, ScopesNext
<1>2. ScopesInit => CountedInv(0) /\ StackOK
  BY InitInv, EmptySeq DEF ScopesInit, StackOK
<1>3. CountedInv(0) /\ StackOK /\ [ScopesNext]_vars => CountedInv(0)' /\ StackOK'
  BY ScopesMap
<1>4. ASSUME LeaveScope PROVE pc = "idle" /\ pc' = "sweep"
  BY <1>4 DEF LeaveScope, StartSweep
<1>5. ASSUME EnterScope, StackOK PROVE pc' = "idle" /\ scopes' # scopes
  <2>1. scopes \in Seq(Nat) /\ Len(scopes) \in Nat /\ size \in Nat \union {size}
    BY <1>5 DEF StackOK
  <2>2. scopes' = Append(scopes, size) /\ pc' = "idle"
    BY <1>5 DEF EnterScope, Compiling, mapVars
  <2>3. Append(scopes, size) # scopes
    <3>1. scopes \in Seq(Nat \union {size})  BY <2>1
    <3>2. Len(Append(scopes, size)) = Len(scopes) + 1  BY <3>1, AppendProperties
    <3> QED  BY <2>1, <3>2
  <2> QED  BY <2>2, <2>3
<1>6. ASSUME NEW x \in Keys, Affectation(x) \/ VariableLoad(x)
      PROVE  scopes' = scopes /\ pc' # "sweep"
  <2>1. ASSUME PutTo(x, size) PROVE pc' # "sweep"
    BY <2>1 DEF PutTo, PutAtHead, PutBehindHead, PutNew, Resize
  <2>2. CASE Affectation(x)
    BY <2>1, <2>2 DEF Affectation, Compiling, mapVars
  <2>3. CASE VariableLoad(x)
    BY <2>3 DEF VariableLoad, Compiling, mapVars
  <2> QED  BY <1>6, <2>2, <2>3
<1>7. ASSUME MapStep PROVE pc # "idle" /\ scopes' = scopes
  BY <1>7 DEF MapStep, Walk, DoubleStep, MoveEntry, LeaveDoubledBucket,
              SweepStep, SweepHead, SweepInner, LeaveSweptBucket
<1>8. StackOK /\ [ShortChainsNext]_vars => [LeaveScope => ShortChains]_vars
  BY <1>4, <1>5, <1>6, <1>7 DEF ShortChainsNext
<1>9. StackOK /\ [ShortChainsNext]_vars => [EnterScope => size > 0]_vars
  BY <1>4, <1>5, <1>6, <1>7 DEF ShortChainsNext
<1> QED  BY <1>1, <1>2, <1>3, <1>8, <1>9, PTL
         DEF ShortChainsSpec, ScopesSpec, NoTriples, GlobalFirst
=============================================================================
