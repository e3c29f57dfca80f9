---------------------------- MODULE HashMapProofs ---------------------------
(***************************************************************************)
(* Proofs about HashMap, for every hash function, chain length and set of  *)
(* keys: the count of the entries, that every key is where a probe finds   *)
(* it and nowhere else, that the operations implement MapInterface, and    *)
(* that only a map with Chain elements, or a full one, is ever moved.      *)
(***************************************************************************)
EXTENDS HashMap, TLAPS, FiniteSetTheorems, SequenceTheorems, WellFoundedInduction

(***************************************************************************)
(* Single tables.                                                          *)
(***************************************************************************)
LEMMA InUseFinite ==
  ASSUME NEW t, Table(t)
  PROVE  /\ IsFiniteSet(InUse(t)) /\ t.size \in Nat /\ t.slots \in Nat
         /\ DOMAIN t.at = 0 .. t.slots - 1
<1>1. DOMAIN t.at = 0 .. t.slots - 1 /\ t.slots \in Nat
  BY HashMapAssumption DEF Table
<1>2. IsFiniteSet(0 .. t.slots - 1)
  BY <1>1, FS_Interval
<1>3. IsFiniteSet(InUse(t))
  BY <1>1, <1>2, FS_Subset DEF InUse
<1> QED
  BY <1>1, <1>3, FS_CardinalityType DEF Table

LEMMA BlankTable ==
  ASSUME NEW n \in 0 .. MaxSlots
  PROVE  Table(Blank(n)) /\ InUse(Blank(n)) = {}
<1>1. InUse(Blank(n)) = {}
  BY DEF Blank, InUse
<1>2. Cardinality(InUse(Blank(n))) = 0
  BY <1>1, FS_EmptySet
<1>3. Blank(n).at \in [0 .. n - 1 -> Elements \union {Free}]
  BY DEF Blank
<1> QED
  BY <1>1, <1>2, <1>3 DEF Blank, Table

LEMMA StoredTable ==
  ASSUME NEW t, Table(t), NEW i \in DOMAIN t.at, NEW x \in Elements
  PROVE  /\ Table(Stored(t, i, x))
         /\ Stored(t, i, x).slots = t.slots
         /\ Stored(t, i, x).at = [t.at EXCEPT ![i] = x]
         /\ InUse(Stored(t, i, x)) = InUse(t) \union {i}
<1> DEFINE s == Stored(t, i, x)
<1>1. /\ s = [slots |-> t.slots, at |-> [t.at EXCEPT ![i] = x],
              size |-> IF t.at[i] = Free THEN t.size + 1 ELSE t.size]
  BY DEF Stored, Table
<1> HIDE DEF s
<1>2. x # Free
  BY HashMapAssumption DEF Free, Elements
<1>3. s.at \in [0 .. s.slots - 1 -> Elements \union {Free}]
  BY <1>1 DEF Table
<1>4. InUse(s) = InUse(t) \union {i}
  BY <1>1, <1>2, <1>3 DEF InUse, Table
<1>5. i \in InUse(t) <=> t.at[i] # Free
  BY DEF InUse
<1>6. s.size = Cardinality(InUse(s))
  <2>1. /\ IsFiniteSet(InUse(t)) /\ t.size = Cardinality(InUse(t))
        /\ Cardinality(InUse(t)) \in Nat
    BY InUseFinite, FS_CardinalityType DEF Table
  <2>2. Cardinality(InUse(t) \union {i}) =
          IF i \in InUse(t) THEN Cardinality(InUse(t)) ELSE Cardinality(InUse(t)) + 1
    BY <2>1, FS_AddElement
  <2>3. s.size = IF t.at[i] = Free THEN t.size + 1 ELSE t.size
    BY <1>1
  <2> QED
    BY <1>4, <1>5, <2>1, <2>2, <2>3
<1>7. Table(s)
  BY <1>1, <1>3, <1>6 DEF Table
<1> QED
  BY <1>1, <1>4, <1>7 DEF s

LEMMA ClearedTable ==
  ASSUME NEW t, Table(t), NEW i \in InUse(t)
  PROVE  /\ Table(Cleared(t, i))
         /\ Cleared(t, i).slots = t.slots
         /\ Cleared(t, i).at = [t.at EXCEPT ![i] = Free]
         /\ InUse(Cleared(t, i)) = InUse(t) \ {i}
<1> DEFINE s == Cleared(t, i)
<1>1. /\ s = [slots |-> t.slots, at |-> [t.at EXCEPT ![i] = Free], size |-> t.size - 1]
  BY DEF Cleared, Table
<1> HIDE DEF s
<1>2. s.at \in [0 .. s.slots - 1 -> Elements \union {Free}]
  BY <1>1 DEF Table
<1>3. InUse(s) = InUse(t) \ {i}
  BY <1>1, <1>2 DEF InUse, Table
<1>4. s.size = Cardinality(InUse(s))
  <2>1. /\ IsFiniteSet(InUse(t)) /\ t.size = Cardinality(InUse(t))
        /\ Cardinality(InUse(t)) \in Nat
    BY InUseFinite, FS_CardinalityType DEF Table
  <2>2. Cardinality(InUse(t) \ {i}) = Cardinality(InUse(t)) - 1
    BY <2>1, FS_RemoveElement
  <2> QED
    BY <1>1, <1>3, <2>1, <2>2
<1>5. Table(s)
  BY <1>1, <1>2, <1>4 DEF Table
<1> QED
  BY <1>1, <1>3, <1>5 DEF s

(* A table without some of its elements, as iterate_pairs leaves it.       *)
LEMMA SweptTable ==
  ASSUME NEW t, Table(t), NEW gone \in SUBSET InUse(t)
  PROVE  /\ Table(Swept(t, gone)) /\ Swept(t, gone).slots = t.slots
         /\ InUse(Swept(t, gone)) = InUse(t) \ gone
         /\ \A i \in InUse(t) \ gone : Swept(t, gone).at[i] = t.at[i]
<1> DEFINE s == Swept(t, gone)
<1>1. s = [slots |-> t.slots, size |-> t.size - Cardinality(gone),
           at |-> [i \in DOMAIN t.at |-> IF i \in gone THEN Free ELSE t.at[i]]]
  BY DEF Swept
<1> HIDE DEF s
<1>2. s.at \in [0 .. s.slots - 1 -> Elements \union {Free}]
  BY <1>1 DEF Table
<1>3. InUse(s) = InUse(t) \ gone
  BY <1>1, <1>2 DEF InUse, Table
<1>4. InUse(t) \cap gone = gone
  OBVIOUS
<1>5. s.size = Cardinality(InUse(s))
  <2>1. Cardinality(InUse(t) \ gone) = Cardinality(InUse(t)) - Cardinality(InUse(t) \cap gone)
    BY InUseFinite, FS_Difference
  <2>2. s.size = t.size - Cardinality(gone)
    BY <1>1
  <2> QED
    BY <2>1, <2>2, <1>3, <1>4 DEF Table
<1> QED
  BY <1>1, <1>2, <1>3, <1>5 DEF Table, InUse, s

(* What hashmap_hash_helper finds: the slot of the key, or else a free one *)
(* of its window, and then the key is in none of them.                     *)
LEMMA PlacesFit ==
  ASSUME NEW t, Table(t), NEW k \in Keys, hash \in [Keys -> Hashes],
         NEW i \in Places(t, k)
  PROVE  /\ i \in DOMAIN t.at /\ i \in Window(t, k)
         /\ i \in InUse(t) => t.at[i].key = k
         /\ i \notin InUse(t) =>
              \A j \in Window(t, k) : j \in InUse(t) => t.at[j].key # k
<1>1. t.size < t.slots /\ t.slots \in Nat /\ t.slots > 0
  BY InUseFinite DEF Places
<1>2. i \in Holding(t, k) \/ (Holding(t, k) = {} /\ i \in Vacant(t, k))
  BY DEF Places, First
<1>3. i \in Window(t, k)
  BY <1>2 DEF Holding, Vacant
<1>4. PICK n \in 0 .. Chain - 1 : i = (hash[k] + n) % t.slots
  BY <1>3 DEF Window, Probe
<1>5. hash[k] + n \in Nat
  BY HashMapAssumption
<1>6. i \in 0 .. t.slots - 1
  BY <1>1, <1>4, <1>5
<1> QED
  BY <1>2, <1>3, <1>6, InUseFinite DEF Holding, Vacant, InUse

-----------------------------------------------------------------------------
(***************************************************************************)
(* The invariant.                                                          *)
(***************************************************************************)
AllTables ==
  [slots : Nat, size : Nat, at : UNION {[0 .. n - 1 -> Elements \union {Free}] : n \in Nat}]

LEMMA TableInAll ==
  ASSUME NEW t, Table(t)
  PROVE  t \in AllTables
<1>1. t.at \in UNION {[0 .. n - 1 -> Elements \union {Free}] : n \in Nat}
  BY InUseFinite DEF Table
<1> QED
  BY <1>1, InUseFinite DEF Table, AllTables

Shape ==
  /\ hash \in [Keys -> Hashes]
  /\ putting \in Elements \union {NoEntry}
  /\ result \in [key : Keys, entry : Entries \union {NoEntry, "stored", "failed"}]
               \union Walks \union {NoEntry}
  /\ tables \in Seq(AllTables)
  /\ Depth >= 1 /\ (Quiet => Depth = 1)
  /\ \A d \in Depths : Table(tables[d])

IInv == Shape /\ WithinReach /\ HeldOnce

LEMMA ShapeIsType == Shape => TypeOK
<1> SUFFICES ASSUME Shape PROVE TypeOK
  OBVIOUS
<1>1. tables = [d \in Depths |-> tables[d]]
  BY DEF Shape, Depths, Depth
<1> QED
  BY <1>1 DEF Shape, TypeOK

LEMMA InvInit == Init => IInv
<1> SUFFICES ASSUME Init PROVE IInv
  OBVIOUS
<1>1. 0 \in 0 .. MaxSlots
  BY HashMapAssumption
<1>2. Table(Blank(0)) /\ InUse(Blank(0)) = {} /\ Blank(0) \in AllTables
  BY <1>1, BlankTable, TableInAll
<1>3. tables = <<Blank(0)>> /\ tables[1] = Blank(0) /\ Len(tables) = 1
  BY DEF Init
<1>4. Shape
  BY <1>2, <1>3 DEF Init, Shape, Depths, Depth, Quiet
<1>5. \A d \in Depths : InUse(tables[d]) = {}
  BY <1>2, <1>3 DEF Depths, Depth
<1> QED
  BY <1>4, <1>5 DEF IInv, WithinReach, HeldOnce

(***************************************************************************)
(* The two safety properties, table by table.                              *)
(***************************************************************************)
Reached(t) == \A i \in InUse(t) : i \in Window(t, t.at[i].key)
Once(t) == \A i, j \in InUse(t) : t.at[i].key = t.at[j].key => i = j
Apart(s, t) == \A i \in InUse(s), j \in InUse(t) : s.at[i].key # t.at[j].key

Sound ==
  \A d \in Depths : /\ Reached(tables[d]) /\ Once(tables[d])
                    /\ \A c \in Depths \ {d} : Apart(tables[d], tables[c])

LEMMA SoundIs == Sound <=> WithinReach /\ HeldOnce
BY DEF Sound, WithinReach, HeldOnce, Reached, Once, Apart

TypedResult ==
  result \in [key : Keys, entry : Entries \union {NoEntry, "stored", "failed"}]
            \union Walks \union {NoEntry}

(* A step that leaves one table, in which all is well.                     *)
LEMMA OneTable ==
  ASSUME NEW t, Table(t), Reached(t), Once(t), tables' = <<t>>,
         IInv, UNCHANGED hash, TypedResult', putting' \in Elements \union {NoEntry}
  PROVE  IInv'
<1>1. t \in AllTables
  BY TableInAll
<1>2. tables' \in Seq(AllTables) /\ Len(tables') = 1 /\ tables'[1] = t
  BY <1>1
<1>3. Shape'
  <2>1. Depths' = {1} /\ Depth' = 1
    BY <1>2 DEF Depths, Depth
  <2>2. \A d \in Depths' : Table(tables'[d])
    BY <1>2, <2>1
  <2>3. (hash \in [Keys -> Hashes])'
    BY DEF IInv, Shape
  <2> QED
    BY <1>2, <2>1, <2>2, <2>3 DEF Shape, TypedResult
<1>4. Reached(t)'
  BY DEF Reached, Window, Probe, InUse
<1>5. Sound'
  BY <1>2, <1>4 DEF Sound, Depths, Depth, Once, InUse, Reached
<1> QED
  BY <1>3, <1>5, SoundIs, PTL DEF IInv

(* An element put where hashmap_hash_helper says.                          *)
LEMMA StoredSound ==
  ASSUME NEW t, Table(t), Reached(t), Once(t), NEW x \in Elements,
         hash \in [Keys -> Hashes], NEW i \in Places(t, x.key)
  PROVE  /\ Table(Stored(t, i, x)) /\ Reached(Stored(t, i, x)) /\ Once(Stored(t, i, x))
         /\ \A j \in InUse(Stored(t, i, x)) :
              \/ Stored(t, i, x).at[j] = x
              \/ j \in InUse(t) /\ Stored(t, i, x).at[j] = t.at[j]
<1> DEFINE s == Stored(t, i, x)
<1>1. x.key \in Keys
  BY DEF Elements
<1>2. /\ i \in DOMAIN t.at /\ i \in Window(t, x.key)
      /\ i \in InUse(t) => t.at[i].key = x.key
      /\ i \notin InUse(t) =>
           \A j \in Window(t, x.key) : j \in InUse(t) => t.at[j].key # x.key
  BY <1>1, PlacesFit
<1>3. /\ Table(s) /\ s.slots = t.slots /\ s.at = [t.at EXCEPT ![i] = x]
      /\ InUse(s) = InUse(t) \union {i}
  BY <1>2, StoredTable
<1> HIDE DEF s
<1>4. s.at[i] = x /\ \A j \in InUse(t) \ {i} : s.at[j] = t.at[j]
  BY <1>2, <1>3 DEF InUse
<1>5. \A k : Window(s, k) = Window(t, k)
  BY <1>3 DEF Window, Probe
<1>6. Reached(s)
  BY <1>2, <1>3, <1>4, <1>5 DEF Reached
<1>7. \A j \in InUse(t) \ {i} : t.at[j].key # x.key
  BY <1>2 DEF Reached, Once
<1>8. Once(s)
  BY <1>3, <1>4, <1>7 DEF Once
<1> QED
  BY <1>3, <1>4, <1>6, <1>8 DEF s

LEMMA ClearedSound ==
  ASSUME NEW t, Table(t), Reached(t), Once(t), NEW i \in InUse(t)
  PROVE  /\ Table(Cleared(t, i)) /\ Reached(Cleared(t, i)) /\ Once(Cleared(t, i))
         /\ InUse(Cleared(t, i)) = InUse(t) \ {i}
         /\ \A j \in InUse(t) \ {i} : Cleared(t, i).at[j] = t.at[j]
<1> DEFINE s == Cleared(t, i)
<1>1. /\ Table(s) /\ s.slots = t.slots /\ s.at = [t.at EXCEPT ![i] = Free]
      /\ InUse(s) = InUse(t) \ {i}
  BY ClearedTable
<1> HIDE DEF s
<1>2. \A j \in InUse(t) \ {i} : s.at[j] = t.at[j]
  BY <1>1 DEF InUse
<1>3. \A k : Window(s, k) = Window(t, k)
  BY <1>1 DEF Window, Probe
<1>4. Reached(s) /\ Once(s)
  BY <1>1, <1>2, <1>3 DEF Reached, Once
<1> QED
  BY <1>1, <1>2, <1>4 DEF s

LEMMA SweptSound ==
  ASSUME NEW t, Table(t), Reached(t), Once(t), NEW gone \in SUBSET InUse(t)
  PROVE  Reached(Swept(t, gone)) /\ Once(Swept(t, gone))
<1> DEFINE s == Swept(t, gone)
<1>1. /\ s.slots = t.slots /\ InUse(s) = InUse(t) \ gone
      /\ \A i \in InUse(s) : s.at[i] = t.at[i]
  BY SweptTable
<1> HIDE DEF s
<1>2. \A k : Window(s, k) = Window(t, k)
  BY <1>1 DEF Window, Probe
<1>3. Reached(s) /\ Once(s)
  BY <1>1, <1>2 DEF Reached, Once
<1> QED
  BY <1>3 DEF s

LEMMA BlankSound ==
  ASSUME NEW n \in 0 .. MaxSlots
  PROVE  Reached(Blank(n)) /\ Once(Blank(n))
BY BlankTable DEF Reached, Once

-----------------------------------------------------------------------------
(***************************************************************************)
(* The steps.                                                              *)
(***************************************************************************)
LEMMA TopTables ==
  ASSUME IInv
  PROVE  /\ Depth \in Nat /\ Depth \in Depths /\ 1 \in Depths
         /\ Table(Top) /\ Reached(Top) /\ Once(Top)
         /\ Table(Map) /\ Reached(Map) /\ Once(Map)
<1>1. Depth \in Nat /\ Depth >= 1
  BY DEF IInv, Shape, Depth
<1>2. Sound
  BY SoundIs DEF IInv
<1> QED
  BY <1>1, <1>2 DEF IInv, Shape, Sound, Depths, Top, Map

LEMMA BelowTable ==
  ASSUME IInv, Depth > 1
  PROVE  /\ Depth - 1 \in Depths /\ Table(Below) /\ Reached(Below) /\ Once(Below)
         /\ Apart(Below, Top)
         /\ \A m \in InUse(Below) : Below.at[m] \in Elements
         /\ Foremost(Below) \subseteq InUse(Below)
<1>1. Depth - 1 \in Depths /\ Depth \in Depths /\ Depth # Depth - 1
  BY TopTables DEF Depths
<1>2. Sound
  BY SoundIs DEF IInv
<1>3. Table(Below) /\ Reached(Below) /\ Once(Below) /\ Apart(Below, Top)
  BY <1>1, <1>2 DEF IInv, Shape, Sound, Below, Top
<1> QED
  BY <1>1, <1>3 DEF Table, InUse, Foremost

LEMMA CarriedElements ==
  ASSUME IInv
  PROVE  Carried \subseteq Elements
<1>1. CASE Depth > 1
  BY <1>1, BelowTable DEF Carried
<1>2. CASE ~(Depth > 1)
  BY <1>2 DEF Carried, IInv, Shape
<1> QED
  BY <1>1, <1>2

LEMMA NewTables ==
  ASSUME NEW n \in Nat, NEW t \in Created(n)
  PROVE  n \in 0 .. MaxSlots /\ t = Blank(n)
BY HashMapAssumption DEF Created

LEMMA StepPlace == IInv /\ Place => IInv'
<1> SUFFICES ASSUME IInv, Place PROVE IInv'
  OBVIOUS
<1>0. PICK x \in Carried : \E i \in Places(Top, x.key) : tables' = <<Stored(Top, i, x)>>
  BY DEF Place
<1>1. PICK i \in Places(Top, x.key) : tables' = <<Stored(Top, i, x)>>
  BY <1>0
<1>2. x \in Elements /\ hash \in [Keys -> Hashes]
  BY CarriedElements DEF IInv, Shape
<1>3. PICK t : t = Stored(Top, i, x)
  OBVIOUS
<1>4. Table(t) /\ Reached(t) /\ Once(t)
  BY <1>1, <1>2, <1>3, TopTables, StoredSound
<1>5. putting \in Elements
  BY <1>1, TopTables DEF Place, Carried, IInv, Shape
<1>6. TypedResult'
  BY <1>5 DEF Place, TypedResult, Element, Elements
<1>7. tables' = <<t>> /\ UNCHANGED hash /\ putting' \in Elements \union {NoEntry}
  BY <1>1, <1>3 DEF Place
<1> QED
  BY <1>4, <1>6, <1>7, OneTable

LEMMA StepMove == IInv /\ Move => IInv'
<1> SUFFICES ASSUME IInv, Move PROVE IInv'
  OBVIOUS
<1>0. PICK m \in Foremost(Below) : \E i \in Places(Top, Below.at[m].key) :
        tables' = [tables EXCEPT ![Depth] = Stored(@, i, Below.at[m]),
                                 ![Depth - 1] = Cleared(@, m)]
  BY DEF Move
<1>1. PICK i \in Places(Top, Below.at[m].key) :
        tables' = [tables EXCEPT ![Depth] = Stored(@, i, Below.at[m]),
                                 ![Depth - 1] = Cleared(@, m)]
  BY <1>0
<1>2. Depth > 1 /\ hash \in [Keys -> Hashes] /\ UNCHANGED <<hash, putting, result>>
  BY DEF Move, IInv, Shape
<1>3. PICK x : x = Below.at[m]
  OBVIOUS
<1>4. m \in InUse(Below) /\ x \in Elements
  BY <1>1, <1>2, <1>3, BelowTable
<1>5. PICK s, t : s = Cleared(Below, m) /\ t = Stored(Top, i, x)
  OBVIOUS
<1>6. /\ Table(s) /\ Reached(s) /\ Once(s)
      /\ InUse(s) = InUse(Below) \ {m}
      /\ \A j \in InUse(s) : s.at[j] = Below.at[j]
  BY <1>2, <1>4, <1>5, BelowTable, ClearedSound
<1>7. /\ Table(t) /\ Reached(t) /\ Once(t)
      /\ \A j \in InUse(t) : t.at[j] = x \/ (j \in InUse(Top) /\ t.at[j] = Top.at[j])
  BY <1>1, <1>2, <1>3, <1>4, <1>5, TopTables, StoredSound
<1>8. /\ Len(tables') = Depth /\ tables' \in Seq(AllTables)
      /\ tables'[Depth] = t /\ tables'[Depth - 1] = s
      /\ \A d \in Depths \ {Depth, Depth - 1} : tables'[d] = tables[d]
  <2>1. tables \in Seq(AllTables) /\ Len(tables) = Depth
    BY DEF IInv, Shape, Depth
  <2>2. s \in AllTables /\ t \in AllTables
    BY <1>6, <1>7, TableInAll
  <2>3. tables' = [tables EXCEPT ![Depth] = t, ![Depth - 1] = s]
    BY <1>1, <1>2, <1>3, <1>5, <2>1, TopTables, BelowTable DEF Top, Below, Depths
  <2> QED
    BY <2>1, <2>2, <2>3, <1>2, TopTables, BelowTable DEF Depths
<1>9. Depths' = Depths /\ Depth' = Depth
  BY <1>8 DEF Depths, Depth
<1>10. Shape'
  <2>1. \A d \in Depths : Table(tables'[d])
    BY <1>6, <1>7, <1>8 DEF IInv, Shape
  <2>2. (/\ hash \in [Keys -> Hashes] /\ TypedResult
         /\ putting \in Elements \union {NoEntry} /\ (Quiet => Depth = 1))'
    BY <1>2, <1>9 DEF IInv, Shape, TypedResult, Quiet
  <2> QED
    BY <1>8, <1>9, <2>1, <2>2, TopTables DEF Shape, TypedResult, Depths
<1>11. /\ \A c \in Depths \ {Depth, Depth - 1} :
            /\ Apart(tables[c], s) /\ Apart(s, tables[c])
            /\ Apart(tables[c], t) /\ Apart(t, tables[c])
       /\ Apart(s, t) /\ Apart(t, s)
  <2>1. Sound
    BY SoundIs DEF IInv
  <2>2. \A c \in Depths \ {Depth, Depth - 1} :
          /\ Apart(tables[c], Below) /\ Apart(tables[c], Top)
    BY <2>1, <1>2, TopTables, BelowTable DEF Sound, Below, Top
  <2>3. Apart(Below, Top) /\ Once(Below)
    BY <1>2, BelowTable
  <2> QED
    BY <2>2, <2>3, <1>3, <1>4, <1>6, <1>7 DEF Apart, Once
<1>12. \A d \in Depths : /\ Reached(tables'[d]) /\ Once(tables'[d])
                         /\ \A c \in Depths \ {d} : Apart(tables'[d], tables'[c])
  <2>1. Sound
    BY SoundIs DEF IInv
  <2> QED
    BY <2>1, <1>6, <1>7, <1>8, <1>11 DEF Sound
<1>13. Sound'
  <2>1. \A t1 : Reached(t1) <=> Reached(t1)'
    BY <1>2 DEF Reached, Window, Probe, InUse
  <2> QED
    BY <1>9, <1>12, <2>1 DEF Sound, Once, Apart, InUse, Reached, Window, Probe
<1> QED
  BY <1>10, <1>13, SoundIs, PTL DEF IInv

LEMMA StepMoved == IInv /\ Moved => IInv'
<1> SUFFICES ASSUME IInv, Moved PROVE IInv'
  OBVIOUS
<1>1. /\ Depth > 1 /\ UNCHANGED <<hash, putting, result>>
      /\ tables' = Append(SubSeq(tables, 1, Depth - 2), Top)
  BY DEF Moved
<1>2. tables \in Seq(AllTables) /\ Len(tables) = Depth /\ Depth \in Nat
  BY DEF IInv, Shape, Depth
<1>3. /\ Len(tables') = Depth - 1 /\ tables' \in Seq(AllTables)
      /\ tables'[Depth - 1] = Top
      /\ \A d \in 1 .. Depth - 2 : tables'[d] = tables[d]
  <2>1. SubSeq(tables, 1, Depth - 2) \in Seq(AllTables) /\ Top \in AllTables
    BY <1>1, <1>2, TopTables, TableInAll
  <2> QED
    BY <1>1, <1>2, <2>1
<1>4. Depth' = Depth - 1 /\ Depths' = 1 .. Depth - 1
  BY <1>3 DEF Depths, Depth
<1>5. Shape'
  <2>1. \A d \in Depths' : Table(tables'[d])
    <3> SUFFICES ASSUME NEW d \in Depths' PROVE Table(tables'[d])
      OBVIOUS
    <3>1. d \in 1 .. Depth - 1
      BY <1>4
    <3>2. CASE d = Depth - 1
      BY <1>1, <1>3, <3>2, TopTables
    <3>3. CASE d # Depth - 1
      <4>1. d \in 1 .. Depth - 2 /\ d \in Depths
        BY <1>2, <3>1, <3>3 DEF Depths
      <4>2. tables'[d] = tables[d]
        BY <1>3, <4>1
      <4> QED
        BY <4>1, <4>2 DEF IInv, Shape
    <3> QED
      BY <3>2, <3>3
  <2>2. ~Quiet
    BY <1>1, <1>2 DEF IInv, Shape
  <2> QED
    BY <1>1, <1>2, <1>3, <1>4, <2>1, <2>2 DEF IInv, Shape, Quiet
<1>6. \A d \in Depths' : /\ Reached(tables'[d]) /\ Once(tables'[d])
                         /\ \A c \in Depths' \ {d} : Apart(tables'[d], tables'[c])
  <2>1. Sound
    BY SoundIs DEF IInv
  <2>2. \A d \in Depths' : \E e \in Depths :
          tables'[d] = tables[e] /\ e = IF d = Depth - 1 THEN Depth ELSE d
    BY <1>1, <1>2, <1>3, <1>4 DEF Depths, Top
  <2> QED
    BY <2>1, <2>2, <1>1, <1>2, <1>4 DEF Sound, Depths
<1>7. Sound'
  <2>1. \A t : Reached(t) <=> Reached(t)'
    BY <1>1 DEF Reached, Window, Probe, InUse
  <2> QED
    BY <1>6, <2>1 DEF Sound, Once, Apart, InUse, Reached, Window, Probe
<1> QED
  BY <1>5, <1>7, SoundIs, PTL DEF IInv

LEMMA StepGrow == IInv /\ Grow => IInv'
<1> SUFFICES ASSUME IInv, Grow PROVE IInv'
  OBVIOUS
<1>1. PICK t \in Created(2 * Top.slots) : tables' = Append(tables, t)
  BY DEF Grow
<1>2. UNCHANGED <<hash, putting, result>> /\ Blocked
  BY DEF Grow
<1>3. Table(t) /\ InUse(t) = {} /\ t \in AllTables
  <2>1. 2 * Top.slots \in Nat
    BY TopTables, InUseFinite
  <2> QED
    BY <2>1, NewTables, BlankTable, TableInAll
<1>4. tables \in Seq(AllTables) /\ Len(tables) = Depth /\ Depth \in Nat /\ Depth >= 1
  BY DEF IInv, Shape, Depth
<1>5. /\ Len(tables') = Depth + 1 /\ tables' \in Seq(AllTables)
      /\ tables'[Depth + 1] = t
      /\ \A d \in Depths : tables'[d] = tables[d]
  BY <1>1, <1>3, <1>4 DEF Depths
<1>6. Depth' = Depth + 1 /\ Depths' = Depths \union {Depth + 1}
  BY <1>4, <1>5 DEF Depths, Depth
<1>7. ~Quiet
  BY <1>2, <1>4 DEF Blocked, Carried, Quiet, IInv, Shape
<1>8. Shape'
  <2>1. \A d \in Depths' : Table(tables'[d])
    BY <1>3, <1>5, <1>6 DEF IInv, Shape
  <2> QED
    BY <1>2, <1>4, <1>5, <1>6, <1>7, <2>1 DEF IInv, Shape, Quiet
<1>9. \A d \in Depths' : /\ Reached(tables'[d]) /\ Once(tables'[d])
                         /\ \A c \in Depths' \ {d} : Apart(tables'[d], tables'[c])
  <2>1. Sound
    BY SoundIs DEF IInv
  <2>2. Reached(t) /\ Once(t) /\ \A s : Apart(s, t) /\ Apart(t, s)
    BY <1>3 DEF Reached, Once, Apart
  <2> QED
    BY <2>1, <2>2, <1>5, <1>6 DEF Sound
<1>10. Sound'
  BY <1>2, <1>9 DEF Sound, Once, Apart, InUse, Reached, Window, Probe
<1> QED
  BY <1>8, <1>10, SoundIs, PTL DEF IInv

LEMMA StepQuiet ==
  ASSUME IInv, UNCHANGED <<hash, tables>>, TypedResult',
         putting' \in Elements \union {NoEntry}, Quiet' => Quiet
  PROVE  IInv'
<1>1. Depths' = Depths /\ Depth' = Depth
  BY DEF Depths, Depth
<1>2. Shape'
  <2>1. (\A d \in Depths : Table(tables[d]))'
    BY <1>1 DEF IInv, Shape, Table, InUse
  <2> QED
    BY <1>1, <2>1 DEF IInv, Shape, TypedResult
<1>3. WithinReach'
  BY <1>1 DEF IInv, WithinReach, InUse, Window, Probe
<1>4. HeldOnce'
  BY <1>1 DEF IInv, HeldOnce, InUse
<1> QED
  BY <1>2, <1>3, <1>4 DEF IInv

LEMMA StepRemove ==
  ASSUME NEW k \in Keys
  PROVE  IInv /\ Remove(k) => IInv'
<1> SUFFICES ASSUME IInv, Remove(k) PROVE IInv'
  OBVIOUS
<1>0. UNCHANGED <<hash, putting>> /\ putting \in Elements \union {NoEntry}
  BY DEF Remove, IInv, Shape
<1>1. CASE Found(k) = {} /\ result' = Element(k, NoEntry) /\ UNCHANGED tables
  <2>1. TypedResult'
    BY <1>1 DEF TypedResult, Element
  <2>2. Quiet' => Quiet
    BY <1>0 DEF Quiet
  <2> QED
    BY <1>0, <1>1, <2>1, <2>2, StepQuiet
<1>2. ASSUME NEW i \in Found(k), tables' = <<Cleared(Map, i)>>,
             result' = Element(k, Map.at[i].entry)
      PROVE  IInv'
  <2>1. i \in InUse(Map)
    <3>1. i \in Window(Map, k) /\ Map.at[i] # Free
      BY <1>2 DEF Found, First, Holding
    <3>2. PICK n \in 0 .. Chain - 1 : i = (hash[k] + n) % Map.slots
      BY <3>1 DEF Window, Probe
    <3>3. Map.slots \in Nat /\ Map.slots > 0 /\ DOMAIN Map.at = 0 .. Map.slots - 1
      BY TopTables, InUseFinite DEF Remove, Usable
    <3>4. hash[k] + n \in Nat
      BY HashMapAssumption DEF IInv, Shape
    <3> QED
      BY <3>1, <3>2, <3>3, <3>4 DEF InUse
  <2>2. PICK t : t = Cleared(Map, i)
    OBVIOUS
  <2>3. Table(t) /\ Reached(t) /\ Once(t)
    BY <2>1, <2>2, TopTables, ClearedSound
  <2>4. Map.at[i] \in Elements
    BY <2>1, TopTables DEF Table, InUse
  <2>5. TypedResult'
    BY <1>2, <2>4 DEF TypedResult, Element, Elements
  <2> QED
    BY <1>0, <1>2, <2>2, <2>3, <2>5, OneTable
<1> QED
  BY <1>1, <1>2 DEF Remove

(* The walks return what they may.                                         *)
LEMMA WalkedTyped ==
  ASSUME NEW stop \in Stops
  PROVE  /\ Cardinality(stop) \in {0, 1}
         /\ Cardinality(stop) = 0 => stop = {} /\ Shown(stop) = InUse(Map)
         /\ \A last \in {0, 1} : Walked(stop, last) \in Walks
<1>1. CASE stop = {}
  <2>1. Cardinality(stop) = 0
    BY <1>1, FS_EmptySet
  <2> QED
    BY <1>1, <2>1 DEF Shown, Walked, Walks
<1>2. ASSUME NEW i \in InUse(Map), stop = {i}
      PROVE  Cardinality(stop) = 1
  BY <1>2, FS_Singleton
<1>3. Cardinality(stop) = 0 \/ Cardinality(stop) = 1
  BY <1>1, <1>2, FS_EmptySet DEF Stops
<1> QED
  BY <1>1, <1>2, <1>3 DEF Stops, Walked, Walks

LEMMA WalksTyped ==
  /\ Iterate => \E stop \in Stops : \E last \in {0, 1} : result' = Walked(stop, last)
  /\ IteratePairs => /\ \E stop \in Stops : \E last \in {0, 1} : result' = Walked(stop, last)
                     /\ \E gone \in SUBSET InUse(Map) : tables' = <<Swept(Map, gone)>>
<1>1. ASSUME Iterate
      PROVE  \E stop \in Stops : \E last \in {0, 1} : result' = Walked(stop, last)
  <2>1. PICK stop \in Stops : result' = Walked(stop, 1 - Cardinality(stop))
    BY <1>1 DEF Iterate
  <2> QED
    BY <2>1, WalkedTyped
<1>2. ASSUME IteratePairs
      PROVE  /\ \E stop \in Stops : \E last \in {0, 1} : result' = Walked(stop, last)
             /\ \E gone \in SUBSET InUse(Map) : tables' = <<Swept(Map, gone)>>
  <2>1. PICK stop \in Stops : \E gone \in SUBSET (Shown(stop) \ stop) :
          /\ result' = Walked(stop, Cardinality(stop))
          /\ tables' = <<Swept(Map, gone)>>
    BY <1>2 DEF IteratePairs
  <2> QED
    BY <2>1, WalkedTyped DEF Shown
<1> QED
  BY <1>1, <1>2

LEMMA StepOther ==
  ASSUME IInv, Create \/ Destroy \/ NoMemory \/ IteratePairs
  PROVE  IInv'
<1>1. UNCHANGED hash
  BY DEF Create, Destroy, NoMemory, IteratePairs
<1>2. TypedResult' /\ putting' \in Elements \union {NoEntry}
  <2>1. CASE NoMemory
    <3>1. putting \in Elements
      BY <2>1 DEF NoMemory, Blocked, Carried, IInv, Shape, Quiet
    <3> QED
      BY <2>1, <3>1 DEF NoMemory, TypedResult, Element, Elements
  <2>2. CASE IteratePairs
    BY <2>2, WalksTyped, WalkedTyped DEF IteratePairs, TypedResult, IInv, Shape
  <2> QED
    BY <2>1, <2>2 DEF Create, Destroy, TypedResult, IInv, Shape
<1>3. \E t : /\ tables' = <<t>>
            /\ Table(t) /\ Reached(t) /\ Once(t)
  <2>1. CASE Create
    <3>1. PICK n \in Sizes : \E t \in Created(n) : tables' = <<t>>
      BY <2>1 DEF Create
    <3>2. PICK t \in Created(n) : tables' = <<t>>
      BY <3>1
    <3>3. n \in 0 .. MaxSlots /\ t = Blank(n)
      BY HashMapAssumption, NewTables
    <3> QED
      BY <3>2, <3>3, BlankTable, BlankSound
  <2>2. CASE Destroy
    <3>1. 0 \in 0 .. MaxSlots
      BY HashMapAssumption
    <3> QED
      BY <2>2, <3>1, BlankTable, BlankSound DEF Destroy
  <2>3. CASE NoMemory
    BY <2>3, TopTables DEF NoMemory, Map
  <2>4. CASE IteratePairs
    <3>1. PICK gone \in SUBSET InUse(Map) : tables' = <<Swept(Map, gone)>>
      BY <2>4, WalksTyped
    <3> QED
      BY <3>1, TopTables, SweptTable, SweptSound
  <2> QED
    BY <2>1, <2>2, <2>3, <2>4
<1> QED
  BY <1>1, <1>2, <1>3, OneTable

LEMMA InvNext == IInv /\ [Next]_vars => IInv'
<1> SUFFICES ASSUME IInv, [Next]_vars PROVE IInv'
  OBVIOUS
<1>1. CASE Place \/ Move \/ Moved \/ Grow
  BY <1>1, StepPlace, StepMove, StepMoved, StepGrow
<1>2. CASE Create \/ Destroy \/ NoMemory \/ IteratePairs
  BY <1>2, StepOther
<1>3. ASSUME NEW offer \in Offers, Put(offer[1], offer[2])
      PROVE  IInv'
  <2>1. putting' \in Elements
    BY <1>3, HashMapAssumption DEF Put, Element, Elements
  <2> QED
    BY <1>3, <2>1, StepQuiet DEF Put, Quiet, IInv, Shape, TypedResult
<1>4. ASSUME NEW k \in Keys, Get(k)
      PROVE  IInv'
  <2>1. TypedResult'
    <3>1. CASE Found(k) = {} /\ result' = Element(k, NoEntry)
      BY <3>1 DEF TypedResult, Element
    <3>2. ASSUME NEW i \in Found(k), result' = Element(k, Map.at[i].entry)
          PROVE  TypedResult'
      <4>1. Map.at[i].entry \in Entries
        <5>1. i \in Window(Map, k) /\ Map.at[i] # Free
          BY <3>2 DEF Found, First, Holding
        <5>2. PICK n \in 0 .. Chain - 1 : i = (hash[k] + n) % Map.slots
          BY <5>1 DEF Window, Probe
        <5>3. Map.slots \in Nat /\ Map.slots > 0
          BY <1>4, TopTables, InUseFinite DEF Get, Usable
        <5>4. hash[k] + n \in Nat
          BY HashMapAssumption DEF IInv, Shape
        <5> QED
          BY <5>1, <5>2, <5>3, <5>4, TopTables DEF Table, Elements
      <4> QED
        BY <3>2, <4>1 DEF TypedResult, Element
    <3> QED
      BY <3>1, <3>2, <1>4 DEF Get
  <2> QED
    BY <1>4, <2>1, StepQuiet DEF Get, Quiet, IInv, Shape
<1>5. ASSUME NEW k \in Keys, Remove(k)
      PROVE  IInv'
  BY <1>5, StepRemove
<1>6. CASE UNCHANGED vars
  BY <1>6, StepQuiet DEF vars, Quiet, IInv, Shape, TypedResult
<1>7. CASE Iterate
  <2>1. TypedResult'
    BY <1>7, WalksTyped, WalkedTyped DEF TypedResult
  <2> QED
    BY <1>7, <2>1, StepQuiet DEF Iterate, Quiet, IInv, Shape
<1> QED
  BY <1>1, <1>2, <1>3, <1>4, <1>5, <1>6, <1>7 DEF Next

(* Whatever the hash function, the sizes and the calls: the types, and     *)
(* that the field size counts the entries (TypeOK); that each key is where *)
(* a probe finds it (WithinReach), and in no other slot of any of the      *)
(* tables of a rehash (HeldOnce).                                          *)
THEOREM TablesSound == Spec => [](TypeOK /\ WithinReach /\ HeldOnce)
<1>1. IInv => TypeOK /\ WithinReach /\ HeldOnce
  BY ShapeIsType DEF IInv
<1> QED
  BY InvInit, InvNext, <1>1, PTL DEF Spec

-----------------------------------------------------------------------------
(***************************************************************************)
(* The refinement.                                                         *)
(***************************************************************************)
LEMMA HeldElements ==
  ASSUME IInv
  PROVE  /\ Held \subseteq Elements
         /\ \A x, y \in Held : x.key = y.key => x = y
<1>1. \A d \in Depths : \A i \in InUse(tables[d]) : tables[d].at[i] \in Elements
  BY DEF IInv, Shape, Table, InUse
<1>2. \A x, y \in Held : x.key = y.key => x = y
  BY DEF IInv, HeldOnce, Held
<1> QED
  BY <1>1, <1>2 DEF Held

(* What is in the tables decides what a key is bound to.                   *)
BoundMeans ==
  \A k : /\ \A x \in Held : x.key = k => Bound(k) = x.entry
         /\ (\A x \in Held : x.key # k) => Bound(k) = NoEntry

LEMMA BoundIs == IInv => BoundMeans
<1> SUFFICES ASSUME IInv, NEW k
             PROVE  /\ \A x \in Held : x.key = k => Bound(k) = x.entry
                    /\ (\A x \in Held : x.key # k) => Bound(k) = NoEntry
  BY DEF BoundMeans
<1>1. CASE \E x \in Held : x.key = k
  <2> DEFINE c == CHOOSE x \in {y \in Held : y.key = k} : TRUE
  <2>1. c \in Held /\ c.key = k
    BY <1>1
  <2>2. Bound(k) = c.entry
    BY <1>1 DEF Bound
  <2> HIDE DEF c
  <2> QED
    BY <2>1, <2>2, <1>1, HeldElements
<1>2. CASE ~\E x \in Held : x.key = k
  BY <1>2 DEF Bound
<1> QED
  BY <1>1, <1>2

(* What a put has moved away: all that is held, but for what is still in   *)
(* the caller's table.                                                     *)
Low(k) == \E i \in InUse(tables[1]) : tables[1].at[i].key = k

LEMMA AloftIs ==
  ASSUME IInv
  PROVE  /\ \A k : k \in Aloft <=> (\E x \in Held : x.key = k) /\ ~Low(k)
         /\ Aloft \subseteq Keys
         /\ Depth = 1 => Aloft = {}
<1>0. Depth \in Nat /\ Depth >= 1
  BY DEF IInv, Shape, Depth
<1>1. \A k : k \in Aloft <=>
         \E d \in 2 .. Depth : \E i \in InUse(tables[d]) : tables[d].at[i].key = k
  BY DEF Aloft
<1>2. \A x : x \in Held <=> \E d \in Depths : \E i \in InUse(tables[d]) : x = tables[d].at[i]
  BY DEF Held
<1>3. ASSUME NEW d \in 2 .. Depth, NEW i \in InUse(tables[d]), Low(tables[d].at[i].key)
      PROVE  FALSE
  <2>1. d \in Depths /\ 1 \in Depths /\ d # 1
    BY <1>0 DEF Depths
  <2> QED
    BY <1>3, <2>1 DEF Low, IInv, HeldOnce
<1>4. \A d \in Depths : d = 1 \/ d \in 2 .. Depth
  BY <1>0 DEF Depths
<1>5. \A k : k \in Aloft <=> (\E x \in Held : x.key = k) /\ ~Low(k)
  <2>1. 2 .. Depth \subseteq Depths
    BY <1>0 DEF Depths
  <2> QED
    BY <1>1, <1>2, <1>3, <1>4, <2>1 DEF Low
<1>6. Aloft \subseteq Keys
  BY <1>5, HeldElements DEF Elements
<1> QED
  BY <1>0, <1>1, <1>5, <1>6

LEMMA AloftSame ==
  ASSUME UNCHANGED tables
  PROVE  Held' = Held /\ Aloft' = Aloft
BY DEF Held, Aloft, Depths, Depth, InUse

(* The keys that are bound are those of what is held.                      *)
LEMMA BoundKeys ==
  ASSUME IInv
  PROVE  {k \in Keys : [j \in Keys |-> Bound(j)][k] # NoEntry} = {x.key : x \in Held}
<1>1. \A x \in Held : x.key \in Keys /\ x.entry # NoEntry
  BY HeldElements, HashMapAssumption DEF Elements
<1> QED
  BY <1>1, BoundIs DEF BoundMeans

LEMMA BoundSame ==
  ASSUME Held' = Held
  PROVE  [k \in Keys |-> Bound(k)]' = [k \in Keys |-> Bound(k)]
BY DEF Bound

(* A set of naturals has a least element: WFMin for <.                     *)
LEMMA LeastNatural ==
  ASSUME NEW S, S \subseteq Nat, S # {}
  PROVE  \E n \in S : \A m \in S : n <= m
<1> DEFINE R == {p \in Nat \X Nat : p[1] < p[2]}
<1>1. IsWellFoundedOn(R, Nat)
  BY NatLessThanWellFounded, Zenon DEF OpToRel
<1> HIDE DEF R
<1>2. \E x \in S : \A y \in S : ~ (<<y, x>> \in R)
  BY <1>1, WFMin
<1>3. PICK x \in S : \A y \in S : ~ (<<y, x>> \in R)
  BY <1>2
<1>4. ASSUME NEW y \in S PROVE x <= y
  <2>1. x \in Nat /\ y \in Nat
    OBVIOUS
  <2>2. <<y, x>> \in R <=> y < x
    BY <2>1 DEF R
  <2> QED
    BY <2>1, <2>2, <1>3
<1> QED
  BY <1>4

(* A probe that has something to find finds it.                            *)
LEMMA FindsFirst ==
  ASSUME NEW t, NEW k, NEW found, found \subseteq Window(t, k), found # {}
  PROVE  First(t, k, found) # {}
<1> DEFINE I == {i \in 0 .. Chain - 1 : Probe(t, k, i) \in found}
<1>1. I \subseteq Nat /\ I # {}
  BY HashMapAssumption DEF Window
<1>2. PICK i \in I : \A j \in I : i <= j
  BY <1>1, LeastNatural
<1>3. \A j \in 0 .. i - 1 : Probe(t, k, j) \notin found
  BY <1>2, HashMapAssumption
<1> QED
  BY <1>2, <1>3 DEF First

(* The calls that look a key up find what it is bound to.                  *)
LEMMA FoundIsBound ==
  ASSUME IInv, Usable, NEW k \in Keys
  PROVE  /\ Found(k) = {} => Bound(k) = NoEntry
         /\ \A i \in Found(k) : /\ i \in InUse(Map) /\ Map.at[i] \in Held
                               /\ Map.at[i].key = k /\ Bound(k) = Map.at[i].entry
<1>1. Depths = {1} /\ Depth = 1
  BY DEF Usable, IInv, Shape, Depths
<1>2. Held = {Map.at[i] : i \in InUse(Map)}
  BY <1>1 DEF Held, Map
<1>3. ASSUME NEW i \in Found(k)
      PROVE  i \in InUse(Map) /\ Map.at[i].key = k
  <2>1. i \in Window(Map, k) /\ Map.at[i] # Free /\ Map.at[i].key = k
    BY <1>3 DEF Found, First, Holding
  <2>2. PICK n \in 0 .. Chain - 1 : i = (hash[k] + n) % Map.slots
    BY <2>1 DEF Window, Probe
  <2>3. Map.slots \in Nat /\ Map.slots > 0 /\ DOMAIN Map.at = 0 .. Map.slots - 1
    BY TopTables, InUseFinite DEF Usable
  <2>4. hash[k] + n \in Nat
    BY HashMapAssumption DEF IInv, Shape
  <2> QED
    BY <2>1, <2>2, <2>3, <2>4 DEF InUse
<1>4. ASSUME Found(k) = {}, NEW i \in InUse(Map), Map.at[i].key = k
      PROVE  FALSE
  <2>1. i \in Holding(Map, k)
    BY <1>4, TopTables DEF Reached, Holding, InUse
  <2>2. Holding(Map, k) \subseteq Window(Map, k)
    BY DEF Holding
  <2> QED
    BY <1>4, <2>1, <2>2, FindsFirst DEF Found
<1> QED
  BY <1>2, <1>3, <1>4, BoundIs DEF BoundMeans

LEMMA RefineInit == Init => M!Init
<1> SUFFICES ASSUME Init PROVE M!Init
  OBVIOUS
<1>1. IInv
  BY InvInit
<1>2. Held = {}
  BY BlankTable, HashMapAssumption DEF Init, Held, Depths, Depth
<1>3. \A k \in Keys : Bound(k) = NoEntry
  BY <1>1, <1>2, BoundIs DEF BoundMeans
<1>4. Aloft = {}
  BY <1>1, AloftIs DEF Init, Depth
<1> QED
  BY <1>3, <1>4 DEF Init, M!Init

LEMMA RefinePlace == IInv /\ IInv' /\ Place => M!Bind
<1> SUFFICES ASSUME IInv, IInv', Place PROVE M!Bind
  OBVIOUS
<1>0. Depth = 1 /\ Depths = {1}
  BY DEF Place, Depths
<1>1. Carried = {putting} /\ putting \in Elements
  BY <1>0 DEF Place, Carried, IInv, Shape
<1>2. PICK i \in Places(Top, putting.key) : tables' = <<Stored(Top, i, putting)>>
  BY <1>1 DEF Place
<1>3. PICK s : s = Stored(Top, i, putting)
  OBVIOUS
<1>4. /\ i \in DOMAIN Top.at
      /\ i \in InUse(Top) => Top.at[i].key = putting.key
  BY <1>1, <1>2, PlacesFit, TopTables DEF IInv, Shape, Elements
<1>5. s.at = [Top.at EXCEPT ![i] = putting] /\ InUse(s) = InUse(Top) \union {i}
  BY <1>1, <1>3, <1>4, StoredTable, TopTables
<1>6. Held' = {s.at[j] : j \in InUse(s)} /\ Held = {Top.at[j] : j \in InUse(Top)}
  <2>1. tables' = <<s>> /\ Depths' = {1}
    BY <1>2, <1>3 DEF Depths, Depth
  <2> QED
    BY <2>1, <1>0 DEF Held, Top, InUse
<1>7. putting \in Held'
  BY <1>4, <1>5, <1>6
<1>8. \A x : x \in Held' /\ x.key # putting.key <=> x \in Held /\ x.key # putting.key
  BY <1>4, <1>5, <1>6 DEF InUse
<1>9. \A k \in Keys : Bound(k)' = IF k = putting.key THEN putting.entry ELSE Bound(k)
  <2>1. \A k : /\ \A x \in Held' : x.key = k => Bound(k)' = x.entry
               /\ (\A x \in Held' : x.key # k) => Bound(k)' = NoEntry
    <3>1. BoundMeans'
      BY BoundIs, PTL
    <3> QED
      BY <3>1 DEF BoundMeans
  <2>2. ASSUME NEW k \in Keys, k # putting.key
        PROVE  Bound(k)' = Bound(k)
    <3>1. CASE \E x \in Held : x.key = k
      BY <3>1, <2>1, <2>2, <1>8, BoundIs DEF BoundMeans
    <3>2. CASE ~\E x \in Held : x.key = k
      BY <3>2, <2>1, <2>2, <1>8, BoundIs DEF BoundMeans
    <3> QED
      BY <3>1, <3>2
  <2> QED
    BY <1>7, <2>1, <2>2
<1>10. [k \in Keys |-> Bound(k)]' =
         [[k \in Keys |-> Bound(k)] EXCEPT ![putting.key] = putting.entry]
  BY <1>9
<1>11. putting # NoEntry
  BY <1>1, HashMapAssumption DEF Elements
<1>12. Aloft = {} /\ Aloft' = {}
  <2>1. Depth' = 1
    BY <1>2 DEF Depth
  <2>2. (Depth = 1 => Aloft = {})'
    BY AloftIs, PTL
  <2> QED
    BY <1>0, <2>1, <2>2, AloftIs
<1> QED
  BY <1>10, <1>11, <1>12 DEF M!Bind, M!With, Place, Element

(* Elements that are taken away.                                           *)
LEMMA Narrowed ==
  ASSUME IInv, IInv', Held' \subseteq Held,
         NEW lost \in SUBSET Keys,
         \A x \in Held : x \in Held' <=> x.key \notin lost
  PROVE  [k \in Keys |-> Bound(k)]' = M!Without(lost)
<1>1. BoundMeans /\ BoundMeans'
  BY BoundIs, PTL
<1>2. ASSUME NEW k \in Keys
      PROVE  Bound(k)' = IF k \in lost THEN NoEntry ELSE Bound(k)
  <2>1. CASE \E x \in Held' : x.key = k
    BY <2>1, <1>1 DEF BoundMeans
  <2>2. CASE \A x \in Held' : x.key # k
    BY <2>2, <1>1 DEF BoundMeans
  <2> QED
    BY <2>1, <2>2
<1> QED
  BY <1>2 DEF M!Without

(* One table: what it holds is all that is held.                           *)
LEMMA HeldInOne ==
  ASSUME NEW t, tables' = <<t>>
  PROVE  Held' = {t.at[i] : i \in InUse(t)}
<1>1. Depths' = {1} /\ tables'[1] = t
  BY DEF Depths, Depth
<1> QED
  BY <1>1 DEF Held, InUse

LEMMA HeldInMap ==
  ASSUME IInv, Depth = 1
  PROVE  Held = {Map.at[i] : i \in InUse(Map)}
<1>1. Depths = {1}
  BY DEF Depths
<1> QED
  BY <1>1 DEF Held, Map

(* With one table left, nothing is on the move.                            *)
LEMMA SettledInOne ==
  ASSUME NEW t, tables' = <<t>>
  PROVE  Aloft' = {}
BY DEF Aloft, Depth

(* What is lost is what had been moved.                                    *)
LEMMA RefineNoMemory == IInv /\ IInv' /\ NoMemory => M!FailToBind
<1> SUFFICES ASSUME IInv, IInv', NoMemory PROVE M!FailToBind
  OBVIOUS
<1>1. PICK t : t = Map /\ tables' = <<t>>
  BY DEF NoMemory, Map
<1>2. Held' = {t.at[i] : i \in InUse(t)} /\ Aloft' = {}
  BY <1>1, HeldInOne, SettledInOne
<1>3. \A x : x \in Held' <=> \E i \in InUse(tables[1]) : x = tables[1].at[i]
  BY <1>1, <1>2 DEF Map
<1>4. Held' \subseteq Held
  <2>1. 1 \in Depths
    BY DEF IInv, Shape, Depths, Depth
  <2>2. \A x : x \in Held <=> \E d \in Depths : \E i \in InUse(tables[d]) : x = tables[d].at[i]
    BY DEF Held
  <2> QED
    BY <1>3, <2>1, <2>2
<1>5. \A x \in Held : x \in Held' <=> x.key \notin Aloft
  BY <1>3, <1>4, AloftIs, HeldElements DEF Low
<1>6. [k \in Keys |-> Bound(k)]' = M!Without(Aloft)
  BY <1>4, <1>5, AloftIs, Narrowed
<1>7. putting # NoEntry
  BY DEF NoMemory, Blocked, Carried, IInv, Shape, Quiet
<1> QED
  BY <1>2, <1>6, <1>7 DEF M!FailToBind, M!With, NoMemory, Element

(* A new map is empty, and so is one that is destroyed.                    *)
LEMMA RefineClear == IInv /\ IInv' /\ (Create \/ Destroy) => M!Clear
<1> SUFFICES ASSUME IInv, IInv', Create \/ Destroy PROVE M!Clear
  OBVIOUS
<1>1. Depth = 1 /\ putting = NoEntry /\ UNCHANGED <<putting, result>>
  BY DEF Create, Destroy, Quiet, IInv, Shape
<1>2. \E t : tables' = <<t>> /\ InUse(t) = {}
  <2>1. CASE Create
    <3>1. PICK n \in Sizes : \E t \in Created(n) : tables' = <<t>>
      BY <2>1 DEF Create
    <3>2. PICK t \in Created(n) : tables' = <<t>>
      BY <3>1
    <3> QED
      BY <3>2, NewTables, BlankTable, HashMapAssumption
  <2>2. CASE Destroy
    BY <2>2, BlankTable, HashMapAssumption DEF Destroy
  <2> QED
    BY <2>1, <2>2
<1>3. Held' = {} /\ Aloft' = {}
  BY <1>2, HeldInOne, SettledInOne
<1>4. \A x \in Held : x \in Held' <=> x.key \notin Keys
  BY <1>3, HeldElements DEF Elements
<1>5. PICK lost \in SUBSET Keys : lost = Keys
  OBVIOUS
<1>6. [k \in Keys |-> Bound(k)]' = M!Without(Keys)
  BY <1>3, <1>4, <1>5, Narrowed
<1> QED
  BY <1>1, <1>3, <1>6, AloftIs DEF M!Clear

(* A walk removes some of what it has seen, or nothing.                    *)
LEMMA RefineWalk == IInv /\ IInv' /\ (Iterate \/ IteratePairs) => M!Walk
<1> SUFFICES ASSUME IInv, IInv', Iterate \/ IteratePairs PROVE M!Walk
  OBVIOUS
<1>1. Depth = 1 /\ putting = NoEntry /\ UNCHANGED putting
  BY DEF Iterate, IteratePairs, Usable, Quiet, IInv, Shape
<1>2. PICK stop \in Stops : \E last \in {0, 1} : result' = Walked(stop, last)
  BY WalksTyped
<1>3. result' \in Walks /\ (result'.code = 0 => result'.all)
  <2>1. PICK last \in {0, 1} : result' = Walked(stop, last)
    BY <1>2
  <2>2. result'.code = Cardinality(stop) /\ (result'.all <=> Shown(stop) = InUse(Map))
    BY <2>1 DEF Walked
  <2> QED
    BY <2>1, <2>2, WalkedTyped
<1>4. CASE Iterate
  <2>1. Held' = Held /\ Aloft' = Aloft
    BY <1>4, AloftSame DEF Iterate
  <2>2. [k \in Keys |-> Bound(k)]' = M!Without({})
    BY <2>1, Narrowed
  <2> QED
    BY <1>1, <1>3, <2>1, <2>2 DEF M!Walk, Walks
<1>5. CASE IteratePairs
  <2>1. PICK gone \in SUBSET InUse(Map) : tables' = <<Swept(Map, gone)>>
    BY <1>5, WalksTyped
  <2>2. PICK t : t = Swept(Map, gone)
    OBVIOUS
  <2>3. InUse(t) = InUse(Map) \ gone /\ \A i \in InUse(t) : t.at[i] = Map.at[i]
    BY <2>2, TopTables, SweptTable
  <2>4. Held' = {t.at[i] : i \in InUse(t)} /\ Held = {Map.at[i] : i \in InUse(Map)}
    BY <1>1, <2>1, <2>2, HeldInOne, HeldInMap
  <2>5. Aloft = {} /\ Aloft' = {}
    BY <1>1, <2>1, AloftIs, SettledInOne
  <2>6. PICK lost : lost = {Map.at[i].key : i \in gone}
    OBVIOUS
  <2>7. lost \subseteq M!Held
    <3>1. \A i \in gone : Map.at[i] \in Held
      BY <2>4
    <3> QED
      BY <2>6, <3>1, BoundKeys DEF M!Held
  <2>8. \A i, j \in InUse(Map) : Map.at[i].key = Map.at[j].key => i = j
    BY TopTables DEF Once
  <2>9. Held' \subseteq Held /\ \A x \in Held : x \in Held' <=> x.key \notin lost
    BY <2>3, <2>4, <2>6, <2>8
  <2>10. lost \in SUBSET Keys
    BY <2>7 DEF M!Held
  <2>11. [k \in Keys |-> Bound(k)]' = M!Without(lost)
    BY <2>9, <2>10, Narrowed
  <2> QED
    BY <1>1, <1>3, <2>5, <2>7, <2>11 DEF M!Walk, Walks
<1> QED
  BY <1>4, <1>5

LEMMA RefineLookup ==
  ASSUME NEW k \in Keys, IInv, IInv'
  PROVE  (Get(k) => M!Get(k)) /\ (Remove(k) => M!Remove(k))
<1>1. ASSUME Get(k) PROVE M!Get(k)
  <2>1. result' = Element(k, Bound(k))
    BY <1>1, FoundIsBound DEF Get
  <2>2. Held' = Held /\ Aloft' = Aloft
    BY <1>1, AloftSame DEF Get
  <2> QED
    BY <1>1, <2>1, <2>2, BoundSame DEF Get, Usable, Quiet, M!Get, M!With, Element
<1>2. ASSUME Remove(k) PROVE M!Remove(k)
  <2>1. Depth = 1 /\ Usable /\ putting = NoEntry /\ UNCHANGED putting
    BY <1>2 DEF Remove, Usable, Quiet, IInv, Shape
  <2>2. CASE Found(k) = {} /\ result' = Element(k, NoEntry) /\ UNCHANGED tables
    <3>1. Bound(k) = NoEntry
      BY <2>1, <2>2, FoundIsBound
    <3>2. Held' = Held /\ Aloft' = Aloft
      BY <2>2, AloftSame
    <3>3. [j \in Keys |-> Bound(j)]' = M!Without({k})
      BY <3>1, <3>2, BoundSame DEF M!Without
    <3> QED
      BY <2>1, <2>2, <3>1, <3>2, <3>3 DEF M!Remove, M!With, Element
  <2>3. ASSUME NEW i \in Found(k), tables' = <<Cleared(Map, i)>>,
               result' = Element(k, Map.at[i].entry)
        PROVE  M!Remove(k)
    <3>1. /\ i \in InUse(Map) /\ Map.at[i] \in Held
          /\ Map.at[i].key = k /\ Bound(k) = Map.at[i].entry
      BY <2>1, FoundIsBound
    <3>2. PICK t : t = Cleared(Map, i)
      OBVIOUS
    <3>3. InUse(t) = InUse(Map) \ {i} /\ \A j \in InUse(t) : t.at[j] = Map.at[j]
      BY <3>1, <3>2, TopTables, ClearedSound
    <3>4. Held' = {t.at[j] : j \in InUse(t)} /\ Held = {Map.at[j] : j \in InUse(Map)}
      BY <2>1, <2>3, <3>2, HeldInOne, HeldInMap
    <3>5. \A j \in InUse(Map) : Map.at[j].key = k => j = i
      BY <3>1, TopTables DEF Once
    <3>6. Held' \subseteq Held /\ \A x \in Held : x \in Held' <=> x.key \notin {k}
      BY <3>1, <3>3, <3>4, <3>5
    <3>7. [j \in Keys |-> Bound(j)]' = M!Without({k})
      BY <3>6, Narrowed
    <3>8. Aloft = {} /\ Aloft' = {}
      BY <2>1, <2>3, AloftIs, SettledInOne
    <3> QED
      BY <2>1, <2>3, <3>1, <3>7, <3>8 DEF M!Remove, M!With, Element
  <2> QED
    BY <1>2, <2>2, <2>3 DEF Remove
<1> QED
  BY <1>1, <1>2

(* The steps of a rehash keep what is held.                                *)
LEMMA RehashHolds == IInv /\ IInv' /\ (Move \/ Moved \/ Grow) => Held' = Held
<1> SUFFICES ASSUME IInv, IInv', Move \/ Moved \/ Grow PROVE Held' = Held
  OBVIOUS
<1>0. tables \in Seq(AllTables) /\ Len(tables) = Depth /\ Depth \in Nat /\ Depth >= 1
  BY DEF IInv, Shape, Depth
<1>1. CASE Grow
  <2>1. PICK t \in Created(2 * Top.slots) : tables' = Append(tables, t)
    BY <1>1 DEF Grow
  <2>2. InUse(t) = {}
    BY TopTables, InUseFinite, NewTables, BlankTable
  <2>3. t \in AllTables
    BY TopTables, InUseFinite, NewTables, BlankTable, TableInAll
  <2>4. /\ Depths' = Depths \union {Depth + 1}
        /\ tables'[Depth + 1] = t /\ \A d \in Depths : tables'[d] = tables[d]
    BY <1>0, <2>1, <2>3 DEF Depths, Depth
  <2> QED
    BY <2>2, <2>4 DEF Held, InUse
<1>2. CASE Moved
  <2>1. /\ Depth > 1 /\ InUse(Below) = {}
        /\ tables' = Append(SubSeq(tables, 1, Depth - 2), Top)
    BY <1>2 DEF Moved
  <2>2. /\ Depths' = 1 .. Depth - 1 /\ tables'[Depth - 1] = tables[Depth]
        /\ \A d \in 1 .. Depth - 2 : tables'[d] = tables[d]
    <3>1. SubSeq(tables, 1, Depth - 2) \in Seq(AllTables) /\ Top \in AllTables
      BY <1>0, <2>1, TopTables, TableInAll
    <3>2. tables' = Append(SubSeq(tables, 1, Depth - 2), Top) /\ Top = tables[Depth]
      BY <2>1 DEF Top
    <3>3. PICK q \in Seq(AllTables) : q = SubSeq(tables, 1, Depth - 2)
      BY <3>1
    <3>4. Len(q) = Depth - 2 /\ \A d \in 1 .. Depth - 2 : q[d] = tables[d]
      BY <1>0, <2>1, <3>3
    <3>5. tables' = Append(q, Top)
      BY <3>2, <3>3
    <3>6. Len(tables') = Depth - 1 /\ tables'[Depth - 1] = Top
          /\ \A d \in 1 .. Depth - 2 : tables'[d] = q[d]
      BY <1>0, <2>1, <3>1, <3>4, <3>5
    <3> QED
      BY <3>2, <3>4, <3>6 DEF Depths, Depth
  <2>3. Held' = UNION {{tables'[d].at[i] : i \in InUse(tables'[d])} : d \in 1 .. Depth - 1}
    BY <2>2 DEF Held, InUse
  <2>4. \A x : x \in Held' <=> x \in Held
    <3>1. \A x : x \in Held <=> \E d \in 1 .. Depth : \E i \in InUse(tables[d]) : x = tables[d].at[i]
      BY DEF Held, Depths
    <3>2. \A x : x \in Held' <=>
             \E d \in 1 .. Depth - 1 : \E i \in InUse(tables'[d]) : x = tables'[d].at[i]
      BY <2>3
    <3>3. \A d \in 1 .. Depth : \/ d \in 1 .. Depth - 2 \/ d = Depth - 1 \/ d = Depth
      BY <1>0
    <3> QED
      BY <1>0, <2>1, <2>2, <3>1, <3>2, <3>3 DEF Below
  <2> QED
    BY <2>4
<1>3. CASE Move
  <2>0. PICK m \in Foremost(Below) : \E i \in Places(Top, Below.at[m].key) :
          tables' = [tables EXCEPT ![Depth] = Stored(@, i, Below.at[m]),
                                   ![Depth - 1] = Cleared(@, m)]
    BY <1>3 DEF Move
  <2>1. PICK i \in Places(Top, Below.at[m].key) :
          tables' = [tables EXCEPT ![Depth] = Stored(@, i, Below.at[m]),
                                   ![Depth - 1] = Cleared(@, m)]
    BY <2>0
  <2>2. Depth > 1
    BY <1>3 DEF Move
  <2>3. PICK x, s, t : x = Below.at[m] /\ s = Cleared(Below, m) /\ t = Stored(Top, i, x)
    OBVIOUS
  <2>4. m \in InUse(Below) /\ x \in Elements /\ Apart(Below, Top)
    BY <2>2, <2>3, BelowTable
  <2>5. InUse(s) = InUse(Below) \ {m} /\ \A j \in InUse(s) : s.at[j] = Below.at[j]
    BY <2>2, <2>3, <2>4, BelowTable, ClearedSound
  <2>6. i \in DOMAIN Top.at /\ (i \in InUse(Top) => Top.at[i].key = x.key)
    BY <2>1, <2>3, <2>4, PlacesFit, TopTables DEF IInv, Shape, Elements
  <2>7. i \notin InUse(Top)
    BY <2>3, <2>4, <2>6 DEF Apart
  <2>8. t.at = [Top.at EXCEPT ![i] = x] /\ InUse(t) = InUse(Top) \union {i}
    BY <2>3, <2>4, <2>6, StoredTable, TopTables
  <2>9. t.at[i] = x /\ \A j \in InUse(Top) : t.at[j] = Top.at[j]
    BY <2>6, <2>7, <2>8 DEF InUse
  <2>10. /\ Depths' = Depths
         /\ tables'[Depth] = t /\ tables'[Depth - 1] = s
         /\ \A d \in Depths \ {Depth, Depth - 1} : tables'[d] = tables[d]
    <3>1. tables' = [tables EXCEPT ![Depth] = t, ![Depth - 1] = s]
      BY <1>0, <2>1, <2>2, <2>3, TopTables, BelowTable DEF Top, Below, Depths
    <3> QED
      BY <1>0, <2>2, <3>1, TopTables, BelowTable DEF Depths, Depth
  <2>11. \A y : y \in Held <=> \E d \in Depths : \E j \in InUse(tables[d]) : y = tables[d].at[j]
    BY DEF Held
  <2>12. \A y : y \in Held' <=> \E d \in Depths : \E j \in InUse(tables'[d]) : y = tables'[d].at[j]
    BY <2>10 DEF Held, InUse
  <2>13. Depth \in Depths /\ Depth - 1 \in Depths /\ Depth # Depth - 1
    BY <1>0, <2>2 DEF Depths
  <2>14. \A y : y \in Held => y \in Held'
    <3> SUFFICES ASSUME NEW y, NEW d \in Depths, NEW j \in InUse(tables[d]),
                        y = tables[d].at[j]
                 PROVE  y \in Held'
      BY <2>11
    <3>1. CASE d = Depth
      BY <3>1, <2>8, <2>9, <2>10, <2>12, <2>13 DEF Top
    <3>2. CASE d = Depth - 1 /\ j # m
      BY <3>2, <2>5, <2>10, <2>12, <2>13 DEF Below
    <3>3. CASE d = Depth - 1 /\ j = m
      <4>1. y = x
        BY <3>3, <2>3 DEF Below
      <4> QED
        BY <4>1, <2>8, <2>9, <2>10, <2>12, <2>13
    <3>4. CASE d \notin {Depth, Depth - 1}
      BY <3>4, <2>10, <2>12
    <3> QED
      BY <3>1, <3>2, <3>3, <3>4
  <2>15. \A y : y \in Held' => y \in Held
    <3> SUFFICES ASSUME NEW y, NEW d \in Depths, NEW j \in InUse(tables'[d]),
                        y = tables'[d].at[j]
                 PROVE  y \in Held
      BY <2>12
    <3>1. CASE d = Depth
      <4>1. j \in InUse(Top) \union {i} /\ y = t.at[j]
        BY <3>1, <2>8, <2>10
      <4>2. CASE j = i
        BY <4>1, <4>2, <2>3, <2>4, <2>9, <2>11, <2>13 DEF Below
      <4>3. CASE j # i
        BY <4>1, <4>3, <2>9, <2>11, <2>13 DEF Top
      <4> QED
        BY <4>2, <4>3
    <3>2. CASE d = Depth - 1
      BY <3>2, <2>5, <2>10, <2>11, <2>13 DEF Below
    <3>3. CASE d \notin {Depth, Depth - 1}
      BY <3>3, <2>10, <2>11
    <3> QED
      BY <3>1, <3>2, <3>3
  <2> QED
    BY <2>14, <2>15
<1> QED
  BY <1>1, <1>2, <1>3

(* What the first table loses and gains in a rehash.                       *)
LEMMA RehashLow ==
  ASSUME IInv
  PROVE  /\ Grow => tables'[1] = tables[1]
         /\ Moved => \/ Depth > 2 /\ tables'[1] = tables[1]
                     \/ Depth = 2 /\ Depth' = 1 /\ InUse(tables[1]) = {}
         /\ Move => \/ Depth > 2 /\ tables'[1] = tables[1]
                    \/ \E m \in InUse(tables[1]) :
                         Depth = 2 /\ tables'[1] = Cleared(tables[1], m)
<1>0. tables \in Seq(AllTables) /\ Len(tables) = Depth /\ Depth \in Nat /\ Depth >= 1
  BY DEF IInv, Shape, Depth
<1>1. ASSUME Grow PROVE tables'[1] = tables[1]
  <2>1. PICK t \in Created(2 * Top.slots) : tables' = Append(tables, t)
    BY <1>1 DEF Grow
  <2>2. t \in AllTables
    BY TopTables, InUseFinite, NewTables, BlankTable, TableInAll
  <2> QED
    BY <1>0, <2>1, <2>2
<1>2. ASSUME Moved
      PROVE  \/ Depth > 2 /\ tables'[1] = tables[1]
             \/ Depth = 2 /\ Depth' = 1 /\ InUse(tables[1]) = {}
  <2>1. Depth > 1 /\ InUse(Below) = {} /\ tables' = Append(SubSeq(tables, 1, Depth - 2), Top)
    BY <1>2 DEF Moved
  <2>2. SubSeq(tables, 1, Depth - 2) \in Seq(AllTables) /\ Top \in AllTables
    BY <1>0, <2>1, TopTables, TableInAll
  <2>3. PICK q \in Seq(AllTables) : q = SubSeq(tables, 1, Depth - 2)
    BY <2>2
  <2>4. Len(q) = Depth - 2 /\ \A d \in 1 .. Depth - 2 : q[d] = tables[d]
    BY <1>0, <2>1, <2>3
  <2>5. Len(tables') = Depth - 1 /\ \A d \in 1 .. Depth - 2 : tables'[d] = q[d]
    BY <1>0, <2>1, <2>2, <2>3, <2>4
  <2>6. CASE Depth = 2
    BY <2>1, <2>5, <2>6 DEF Below, Depth
  <2>7. CASE Depth > 2
    BY <1>0, <2>4, <2>5, <2>7
  <2> QED
    BY <1>0, <2>1, <2>6, <2>7
<1>3. ASSUME Move
      PROVE  \/ Depth > 2 /\ tables'[1] = tables[1]
             \/ \E m \in InUse(tables[1]) :
                  Depth = 2 /\ tables'[1] = Cleared(tables[1], m)
  <2>0. PICK m \in Foremost(Below) : \E i \in Places(Top, Below.at[m].key) :
          tables' = [tables EXCEPT ![Depth] = Stored(@, i, Below.at[m]),
                                   ![Depth - 1] = Cleared(@, m)]
    BY <1>3 DEF Move
  <2>1. PICK i \in Places(Top, Below.at[m].key) :
          tables' = [tables EXCEPT ![Depth] = Stored(@, i, Below.at[m]),
                                   ![Depth - 1] = Cleared(@, m)]
    BY <2>0
  <2>2. Depth > 1 /\ m \in InUse(Below)
    BY <1>3, <2>0 DEF Move, Foremost
  <2>3. CASE Depth > 2
    BY <1>0, <2>1, <2>3
  <2>4. CASE Depth = 2
    BY <1>0, <2>1, <2>2, <2>4 DEF Below
  <2> QED
    BY <1>0, <2>2, <2>3, <2>4
<1> QED
  BY <1>1, <1>2, <1>3

(* An element that leaves the caller's table is one on the move; the last  *)
(* brings all to rest; what happens further up is not seen.                *)
LEMMA RefineRehash ==
  ASSUME IInv, IInv', Move \/ Moved \/ Grow
  PROVE  UNCHANGED M!vars \/ M!Settle \/ \E k \in Keys : M!MoveAway(k)
<1>1. Held' = Held /\ [k \in Keys |-> Bound(k)]' = [k \in Keys |-> Bound(k)]
  BY RehashHolds, BoundSame
<1>2. UNCHANGED <<putting, result>> /\ putting # NoEntry
  BY DEF Move, Moved, Grow, Blocked, Carried, IInv, Shape, Quiet
<1>3. \A k : k \in Aloft' <=> (\E x \in Held : x.key = k) /\ ~Low(k)'
  <2>1. (\A k : k \in Aloft <=> (\E x \in Held : x.key = k) /\ ~Low(k))'
    BY AloftIs, PTL
  <2> QED
    BY <1>1, <2>1
<1>4. CASE tables'[1] = tables[1]
  <2>1. \A k : Low(k)' <=> Low(k)
    BY <1>4 DEF Low, InUse
  <2>2. \A k : k \in Aloft' <=> k \in Aloft
    BY <1>3, <2>1, AloftIs
  <2>3. Aloft' = Aloft
    BY <2>2
  <2> QED
    BY <1>1, <1>2, <2>3 DEF M!vars
<1>5. CASE Depth = 2 /\ Depth' = 1 /\ InUse(tables[1]) = {}
  <2>1. Aloft' = {}
    <3>1. (Depth = 1 => Aloft = {})'
      BY AloftIs, PTL
    <3> QED
      BY <1>5, <3>1
  <2>2. \A k : k \in Aloft <=> k \in {x.key : x \in Held}
    BY <1>5, AloftIs DEF Low
  <2>3. Aloft = M!Held
    BY <2>2, BoundKeys DEF M!Held
  <2> QED
    BY <1>1, <1>2, <2>1, <2>3 DEF M!Settle
<1>6. ASSUME NEW m \in InUse(tables[1]), Depth = 2, tables'[1] = Cleared(tables[1], m)
      PROVE  \E k \in Keys : M!MoveAway(k)
  <2>1. PICK t, k : t = Cleared(tables[1], m) /\ k = tables[1].at[m].key
    OBVIOUS
  <2>2. /\ InUse(t) = InUse(tables[1]) \ {m}
        /\ \A j \in InUse(t) : t.at[j] = tables[1].at[j]
    BY <2>1, TopTables, ClearedSound DEF Map
  <2>3. \A i, j \in InUse(tables[1]) : tables[1].at[i].key = tables[1].at[j].key => i = j
    BY TopTables DEF Once, Map
  <2>4. \A j : Low(j)' <=> \E i \in InUse(t) : t.at[i].key = j
    BY <1>6, <2>1 DEF Low, InUse
  <2>5. \A j : Low(j)' <=> Low(j) /\ j # k
    BY <2>1, <2>2, <2>3, <2>4 DEF Low
  <2>6. tables[1].at[m] \in Held /\ Low(k)
    BY <2>1, TopTables DEF Held, Low, Map
  <2>7. k \in M!Held /\ k \notin Aloft
    BY <2>1, <2>6, BoundKeys, AloftIs DEF M!Held
  <2>8. \A j : j \in Aloft' <=> j \in Aloft \/ j = k
    BY <1>3, <2>1, <2>5, <2>6, AloftIs
  <2>9. Aloft' = Aloft \union {k} /\ k \in Keys
    BY <2>7, <2>8 DEF M!Held
  <2> QED
    BY <1>1, <1>2, <2>7, <2>9 DEF M!MoveAway
<1> QED
  BY <1>4, <1>5, <1>6, RehashLow

LEMMA RefineNext == IInv /\ IInv' /\ [Next]_vars => [M!Next]_(M!vars)
<1> SUFFICES ASSUME IInv, IInv', [Next]_vars PROVE [M!Next]_(M!vars)
  OBVIOUS
<1>1. CASE Move \/ Moved \/ Grow
  BY <1>1, RefineRehash DEF M!Next
<1>2. CASE Place
  BY <1>2, RefinePlace DEF M!Next
<1>3. CASE NoMemory
  BY <1>3, RefineNoMemory DEF M!Next
<1>4. CASE Create \/ Destroy \/ Iterate \/ IteratePairs
  BY <1>4, RefineClear, RefineWalk DEF M!Next
<1>5. ASSUME NEW offer \in Offers, Put(offer[1], offer[2])
      PROVE  M!Call
  <2>1. Held' = Held /\ Aloft' = Aloft
    BY <1>5, AloftSame DEF Put
  <2>2. offer[1] \in Keys /\ offer[2] \in Entries
    BY HashMapAssumption
  <2> QED
    BY <1>5, <2>1, <2>2, BoundSame DEF Put, Quiet, M!Call, M!With, Element
<1>6. ASSUME NEW k \in Keys, Get(k) \/ Remove(k)
      PROVE  M!Next
  BY <1>6, RefineLookup DEF M!Next
<1>7. CASE UNCHANGED vars
  <2>1. Held' = Held /\ Aloft' = Aloft
    BY <1>7, AloftSame DEF vars
  <2> QED
    BY <1>7, <2>1, BoundSame DEF vars, M!vars
<1> QED
  BY <1>1, <1>2, <1>3, <1>4, <1>5, <1>6, <1>7 DEF Next, M!Next

(* The hash map is a map (MapSpec): a get finds what was put last, a       *)
(* removal and a walk lose what they are told to, a rehash loses nothing,  *)
(* and a rehash that fails what it had moved by then, and nothing else.    *)
THEOREM HashMapIsMap == Spec => MapSpec
<1>1. Init => M!Init
  BY RefineInit
<1> QED
  BY <1>1, InvInit, InvNext, RefineNext, PTL DEF Spec, MapSpec, M!Spec

-----------------------------------------------------------------------------
(***************************************************************************)
(* Why a table grows.                                                      *)
(***************************************************************************)
LEMMA DivMod ==
  ASSUME NEW a \in Int, NEW n \in Nat \ {0}
  PROVE  a \div n \in Int /\ a % n \in 0 .. n - 1 /\ a = n * (a \div n) + (a % n)
OBVIOUS

LEMMA AtLeastOnce == ASSUME NEW n \in Nat, NEW k \in Int, k >= 1 PROVE n * k >= n
OBVIOUS

(* Fewer than n steps from a number, no other has its remainder.           *)
LEMMA SameRemainder ==
  ASSUME NEW a \in Int, NEW b \in Int, NEW n \in Nat \ {0},
         a <= b, b < a + n, a % n = b % n
  PROVE  a = b
<1> DEFINE p == a \div n
           q == b \div n
<1>1. p \in Int /\ q \in Int /\ a = n * p + (a % n) /\ b = n * q + (b % n)
  BY DivMod
<1>2. b - a = n * q - n * p
  BY <1>1
<1>3. n * q - n * p = n * (q - p)
  BY <1>1
<1> HIDE DEF p, q
<1>4. q - p >= 1 => n * (q - p) >= n
  BY <1>1, AtLeastOnce
<1>5. q - p <= -1 => n * (p - q) >= n /\ n * (p - q) = - (n * (q - p))
  BY <1>1, AtLeastOnce
<1>6. q - p = 0
  BY <1>1, <1>2, <1>3, <1>4, <1>5
<1> QED
  BY <1>1, <1>2, <1>3, <1>6

(* The slots a probe meets: Chain of them, or all that there are.          *)
LEMMA WindowSize ==
  ASSUME NEW t, t.slots \in Nat \ {0}, NEW k, hash[k] \in Nat
  PROVE  /\ IsFiniteSet(Window(t, k))
         /\ Cardinality(Window(t, k)) >= Chain \/ Cardinality(Window(t, k)) >= t.slots
<1>0. PICK n \in Nat \ {0} : n <= Chain /\ n <= t.slots /\ (n = Chain \/ n = t.slots)
  BY HashMapAssumption
<1> DEFINE f == [i \in 0 .. n - 1 |-> (hash[k] + i) % t.slots]
<1>1. Window(t, k) \subseteq 0 .. t.slots - 1
  BY HashMapAssumption DEF Window, Probe
<1>2. IsFiniteSet(0 .. t.slots - 1)
  <2>1. t.slots - 1 \in Int
    OBVIOUS
  <2> QED
    BY <2>1, FS_Interval
<1>3. IsFiniteSet(Window(t, k))
  BY <1>1, <1>2, FS_Subset
<1>4. f \in [0 .. n - 1 -> Window(t, k)]
  BY <1>0, HashMapAssumption DEF Window, Probe
<1>5. ASSUME NEW i \in 0 .. n - 1, NEW j \in 0 .. n - 1, f[i] = f[j]
      PROVE  i = j
  <2>1. ASSUME NEW a \in 0 .. n - 1, NEW b \in 0 .. n - 1, a <= b, f[a] = f[b]
        PROVE  a = b
    <3>1. (hash[k] + a) % t.slots = (hash[k] + b) % t.slots
      BY <2>1
    <3>2. /\ hash[k] + a \in Int /\ hash[k] + b \in Int
          /\ hash[k] + a <= hash[k] + b /\ hash[k] + b < hash[k] + a + t.slots
      BY <1>0, <2>1
    <3>3. hash[k] + a = hash[k] + b
      BY <3>1, <3>2, SameRemainder
    <3> QED
      BY <3>3
  <2> QED
    BY <1>5, <2>1
<1>6. f \in Injection(0 .. n - 1, Window(t, k))
  BY <1>4, <1>5 DEF Injection, IsInjective
<1>7. Cardinality(0 .. n - 1) <= Cardinality(Window(t, k))
  BY <1>3, <1>6, FS_Injection
<1>8. Cardinality(0 .. n - 1) = n
  BY <1>0, FS_Interval
<1>9. Cardinality(Window(t, k)) \in Nat
  BY <1>3, FS_CardinalityType
<1> QED
  BY <1>0, <1>3, <1>7, <1>8, <1>9

(* A put is refused only by a table that is full, or that holds as many    *)
(* elements as a probe meets.                                              *)
LEMMA RefusedForCause ==
  ASSUME NEW t, Table(t), NEW k \in Keys, hash \in [Keys -> Hashes], Places(t, k) = {}
  PROVE  Cardinality(InUse(t)) >= Chain \/ Cardinality(InUse(t)) >= t.slots
<1>1. /\ IsFiniteSet(InUse(t)) /\ t.slots \in Nat
      /\ DOMAIN t.at = 0 .. t.slots - 1 /\ t.size = Cardinality(InUse(t))
  BY InUseFinite DEF Table
<1>2. CASE t.size >= t.slots
  BY <1>1, <1>2
<1>3. CASE ~(t.size >= t.slots)
  <2>1. Holding(t, k) = {} /\ Vacant(t, k) = {}
    BY <1>3, FindsFirst DEF Places, Holding, Vacant
  <2>2. hash[k] \in Nat /\ t.slots \in Nat \ {0}
    BY <1>1, <1>3, InUseFinite, HashMapAssumption
  <2>3. Window(t, k) \subseteq 0 .. t.slots - 1
    BY <2>2, HashMapAssumption DEF Window, Probe
  <2>4. Window(t, k) \subseteq InUse(t)
    BY <1>1, <2>1, <2>3 DEF Vacant, InUse
  <2>5. Cardinality(Window(t, k)) <= Cardinality(InUse(t))
    BY <1>1, <2>4, FS_Subset
  <2>6. Cardinality(Window(t, k)) \in Nat /\ Cardinality(InUse(t)) \in Nat
    BY <1>1, <2>2, WindowSize, FS_CardinalityType
  <2> QED
    BY <2>2, <2>5, <2>6, WindowSize, HashMapAssumption
<1> QED
  BY <1>2, <1>3

(* The slots in use, in all tables: as many as there are elements, since   *)
(* none is held twice.                                                     *)
Taken == UNION {{<<d, i>> : i \in InUse(tables[d])} : d \in Depths}

LEMMA TakenIsHeld ==
  ASSUME IInv
  PROVE  IsFiniteSet(Held) /\ Cardinality(Taken) = Cardinality(Held)
<1>1. \A d \in Depths : InUse(tables[d]) \subseteq 0 .. MaxSlots
  <2> SUFFICES ASSUME NEW d \in Depths PROVE InUse(tables[d]) \subseteq 0 .. MaxSlots
    OBVIOUS
  <2>1. Table(tables[d])
    BY DEF IInv, Shape
  <2>2. tables[d].slots \in 0 .. MaxSlots /\ DOMAIN tables[d].at = 0 .. tables[d].slots - 1
    BY <2>1, InUseFinite DEF Table
  <2> QED
    BY <2>2, HashMapAssumption DEF InUse
<1>2. IsFiniteSet(Depths) /\ IsFiniteSet(0 .. MaxSlots)
  <2>1. Depth \in Int /\ MaxSlots \in Int
    BY TopTables, HashMapAssumption
  <2>2. IsFiniteSet(1 .. Depth) /\ IsFiniteSet(0 .. MaxSlots)
    BY <2>1, FS_Interval
  <2> QED
    BY <2>2 DEF Depths
<1>3. IsFiniteSet(Depths \X (0 .. MaxSlots))
  BY <1>2, FS_Product
<1>4. \A p : p \in Taken <=> \E d \in Depths : \E i \in InUse(tables[d]) : p = <<d, i>>
  BY DEF Taken
<1>5. Taken \subseteq Depths \X (0 .. MaxSlots)
  BY <1>1, <1>4
<1>6. IsFiniteSet(Taken)
  BY <1>3, <1>5, FS_Subset
<1> DEFINE f == [p \in Taken |-> tables[p[1]].at[p[2]]]
<1>7. \A x : x \in Held <=> \E d \in Depths : \E i \in InUse(tables[d]) : x = tables[d].at[i]
  BY DEF Held
<1>8. f \in [Taken -> Held]
  BY <1>4, <1>7
<1>9. ASSUME NEW p \in Taken, NEW q \in Taken, f[p] = f[q]
      PROVE  p = q
  <2>1. PICK d \in Depths : \E i \in InUse(tables[d]) : p = <<d, i>>
    BY <1>4
  <2>2. PICK i \in InUse(tables[d]) : p = <<d, i>>
    BY <2>1
  <2>3. PICK c \in Depths : \E j \in InUse(tables[c]) : q = <<c, j>>
    BY <1>4
  <2>4. PICK j \in InUse(tables[c]) : q = <<c, j>>
    BY <2>3
  <2>5. tables[d].at[i] = tables[c].at[j]
    BY <1>9, <2>2, <2>4
  <2> QED
    BY <2>2, <2>4, <2>5 DEF IInv, HeldOnce
<1>10. \A x \in Held : \E p \in Taken : f[p] = x
  <2> SUFFICES ASSUME NEW x \in Held PROVE \E p \in Taken : f[p] = x
    OBVIOUS
  <2>1. PICK d \in Depths : \E i \in InUse(tables[d]) : x = tables[d].at[i]
    BY <1>7
  <2>2. PICK i \in InUse(tables[d]) : x = tables[d].at[i]
    BY <2>1
  <2>3. <<d, i>> \in Taken
    BY <1>4
  <2>4. f[<<d, i>>] = x
    BY <2>2, <2>3
  <2> QED
    BY <2>3, <2>4
<1> HIDE DEF f
<1>11. ExistsBijection(Taken, Held)
  <2>1. f \in Injection(Taken, Held)
    BY <1>8, <1>9 DEF Injection, IsInjective
  <2>2. f \in Surjection(Taken, Held)
    BY <1>8, <1>10 DEF Surjection
  <2> QED
    BY <2>1, <2>2 DEF ExistsBijection, Bijection
<1> QED
  BY <1>6, <1>11, FS_Bijection

LEMMA HeldWhenAtRest ==
  ASSUME IInv, Depth = 1
  PROVE  Cardinality(Held) = Cardinality(InUse(Map))
<1>1. Depths = {1} /\ Table(Map) /\ IsFiniteSet(InUse(Map))
  BY TopTables, InUseFinite DEF Depths
<1> DEFINE f == [i \in InUse(Map) |-> Map.at[i]]
<1>2. Held = {Map.at[i] : i \in InUse(Map)}
  BY HeldInMap
<1>3. \A i, j \in InUse(Map) : f[i] = f[j] => i = j
  BY TopTables DEF Once
<1>4. f \in Bijection(InUse(Map), Held)
  BY <1>2, <1>3 DEF Bijection, Injection, Surjection, IsInjective
<1> QED
  BY <1>1, <1>4, FS_Bijection DEF ExistsBijection

(* GrowsForCause of the elements instead of the slots they are in: while a *)
(* map is being moved neither changes, and neither does the size of the    *)
(* caller's table.                                                         *)
Cause ==
  Depth > 1 => Cardinality(Held) >= Chain \/ Cardinality(Held) >= tables[1].slots

LEMMA CauseIs == IInv /\ Cause => GrowsForCause
BY TakenIsHeld DEF Cause, GrowsForCause, Taken

LEMMA CauseKept == IInv /\ IInv' /\ Cause /\ [Next]_vars => Cause'
<1> SUFFICES ASSUME IInv, IInv', Cause, [Next]_vars, Depth' > 1 PROVE Cause'
  BY DEF Cause
<1>0. tables \in Seq(AllTables) /\ Len(tables) = Depth /\ Depth \in Nat /\ Depth >= 1
  BY DEF IInv, Shape, Depth
<1>1. ASSUME Depth > 1, Held' = Held, tables'[1].slots = tables[1].slots
      PROVE  Cause'
  BY <1>1 DEF Cause
<1>2. CASE Grow
  <2>1. PICK t \in Created(2 * Top.slots) : tables' = Append(tables, t)
    BY <1>2 DEF Grow
  <2>2. tables'[1] = tables[1]
    BY <1>0, <2>1
  <2>3. Held' = Held
    BY <1>2, RehashHolds
  <2>4. CASE Depth = 1
    <3>1. PICK x \in Carried : Places(Top, x.key) = {}
      BY <1>2 DEF Grow, Blocked
    <3>2. x.key \in Keys /\ Top = Map /\ Table(Map) /\ hash \in [Keys -> Hashes]
      BY <2>4, CarriedElements, TopTables DEF Elements, Top, Map, IInv, Shape
    <3>3. Cardinality(InUse(Map)) >= Chain \/ Cardinality(InUse(Map)) >= Map.slots
      BY <3>1, <3>2, RefusedForCause
    <3>4. Cardinality(Held) >= Chain \/ Cardinality(Held) >= tables[1].slots
      BY <2>4, <3>3, HeldWhenAtRest DEF Map
    <3> QED
      BY <2>2, <2>3, <3>4 DEF Cause
  <2> QED
    BY <1>0, <1>1, <2>2, <2>3, <2>4
<1>3. CASE Moved
  <2>1. Depth > 1 /\ tables' = Append(SubSeq(tables, 1, Depth - 2), Top)
    BY <1>3 DEF Moved
  <2>2. Len(SubSeq(tables, 1, Depth - 2)) = Depth - 2
    BY <1>0, <2>1
  <2>3. Depth' = Depth - 1
    BY <1>0, <2>1, <2>2 DEF Depth
  <2>4. tables'[1] = tables[1]
    BY <1>0, <2>1, <2>3
  <2> QED
    BY <1>1, <1>3, <2>1, <2>4, RehashHolds
<1>4. CASE Move
  <2>0. PICK m \in Foremost(Below) : \E i \in Places(Top, Below.at[m].key) :
          tables' = [tables EXCEPT ![Depth] = Stored(@, i, Below.at[m]),
                                   ![Depth - 1] = Cleared(@, m)]
    BY <1>4 DEF Move
  <2>1. PICK i \in Places(Top, Below.at[m].key) :
          tables' = [tables EXCEPT ![Depth] = Stored(@, i, Below.at[m]),
                                   ![Depth - 1] = Cleared(@, m)]
    BY <2>0
  <2>2. Depth > 1
    BY <1>4 DEF Move
  <2>3. \A t : Cleared(t, m).slots = t.slots
    BY DEF Cleared
  <2>4. tables'[1] = IF Depth = 2 THEN Cleared(tables[1], m) ELSE tables[1]
    BY <1>0, <2>1, <2>2
  <2> QED
    BY <1>1, <1>4, <2>2, <2>3, <2>4, RehashHolds
<1>5. CASE UNCHANGED tables
  <2>1. Depth' = Depth /\ Held' = Held
    BY <1>5 DEF Depth, Held, Depths, InUse
  <2> QED
    BY <1>1, <1>5, <2>1
<1>6. ASSUME NEW t, tables' = <<t>> PROVE FALSE
  BY <1>6 DEF Depth
<1>7. CASE Create \/ Destroy \/ Place \/ NoMemory \/ IteratePairs
  <2>1. CASE IteratePairs
    BY <1>6, <2>1, WalksTyped
  <2> QED
    BY <1>6, <1>7, <2>1 DEF Create, Destroy, Place, NoMemory
<1>8. ASSUME NEW offer \in Offers, Put(offer[1], offer[2]) PROVE Cause'
  BY <1>5, <1>8 DEF Put
<1>9. ASSUME NEW k \in Keys, Get(k) PROVE Cause'
  BY <1>5, <1>9 DEF Get
<1>10. ASSUME NEW k \in Keys, Remove(k) PROVE Cause'
  BY <1>5, <1>6, <1>10 DEF Remove
<1>11. CASE Iterate
  BY <1>5, <1>11 DEF Iterate
<1> QED
  BY <1>11, <1>2, <1>3, <1>4, <1>5, <1>7, <1>8, <1>9, <1>10 DEF Next, vars

(* Whatever the hash function, the sizes and the calls: a map is on the    *)
(* move only if it holds HASHMAP_MAX_CHAIN_LENGTH elements or was full.    *)
THEOREM GrowsForCauseAlways == Spec => []GrowsForCause
<1>1. Init => Cause
  BY DEF Init, Cause, Depth
<1> QED
  BY InvInit, InvNext, <1>1, CauseKept, CauseIs, PTL DEF Spec
=============================================================================
