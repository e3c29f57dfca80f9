------------------------------ MODULE HashMap -------------------------------
(***************************************************************************)
(* third/hashmap.h/hashmap.h, which holds the command table: open          *)
(* addressing where a key lies within Chain slots of its hash.  A put that *)
(* finds no slot there moves all elements to a table of twice the size, by *)
(* puts of their own, one of which may find no slot in the new table and   *)
(* double that first, before the first move has been completed.            *)
(*                                                                         *)
(* A table is a record of its slots and of the field size.  The tables on  *)
(* the C stack are the sequence tables: the caller's first, and above each *)
(* the new_hash its elements are being moved to.                           *)
(***************************************************************************)
EXTENDS Integers, Sequences, FiniteSets

CONSTANTS
  Keys, Entries, NoEntry,
  Offers,      (* the pairs of key and entry that callers put               *)
  Hashes,      (* the values the hash function takes                        *)
  Chain,       (* HASHMAP_MAX_CHAIN_LENGTH                                  *)
  Sizes,       (* the initial sizes callers ask for                         *)
  MaxSlots     (* no larger table is ever allocated: a bound                *)

ASSUME HashMapAssumption ==
  /\ NoEntry \notin Entries \union [key : Keys, entry : Entries]
  /\ Offers \subseteq Keys \X Entries
  /\ Hashes \subseteq Nat
  /\ Chain \in Nat \ {0}
  /\ Sizes \subseteq Nat
  /\ MaxSlots \in Nat

VARIABLES
  hash,      (* the hash function: the same throughout                      *)
  tables,    (* the caller's map and the tables it is being moved to        *)
  putting,   (* the caller's put, or NoEntry                                *)
  result     (* what the last call returned, and for which key              *)

vars == <<hash, tables, putting, result>>

Element(k, e) == [key |-> k, entry |-> e]
Elements == [key : Keys, entry : Entries]
Free == NoEntry

(* What a zeroed table of a size looks like; a destroyed map is one of 0.  *)
Blank(slots) ==
  [slots |-> slots, size |-> 0, at |-> [i \in 0 .. slots - 1 |-> Free]]

InUse(t) == {i \in DOMAIN t.at : t.at[i] # Free}

Init ==
  /\ hash \in [Keys -> Hashes]
  /\ tables = <<Blank(0)>>
  /\ putting = NoEntry
  /\ result = NoEntry
-----------------------------------------------------------------------------
(***************************************************************************)
(* Probing.                                                                *)
(***************************************************************************)
(* The slots that may hold a key: start, start + 1, ... modulo the table   *)
(* size, and which of a set of them a probe meets first.                   *)
Probe(t, k, i) == (hash[k] + i) % t.slots
Window(t, k) == {Probe(t, k, i) : i \in 0 .. Chain - 1}
First(t, k, found) ==
  {p \in found : \E i \in 0 .. Chain - 1 :
     p = Probe(t, k, i) /\ \A j \in 0 .. i - 1 : Probe(t, k, j) \notin found}

Holding(t, k) == {i \in Window(t, k) : t.at[i] # Free /\ t.at[i].key = k}
Vacant(t, k) == {i \in Window(t, k) : t.at[i] = Free}

(* Mutant of Places: the first empty slot is taken without a look at the   *)
(* rest of the chain.                                                      *)
PlacesFirstVacant(t, k) ==
  IF t.size >= t.slots THEN {}
  ELSE IF Vacant(t, k) # {} THEN First(t, k, Vacant(t, k))
  ELSE First(t, k, Holding(t, k))

(* Mutant of Places: a chain with one empty slot left counts as full.      *)
PlacesEarlyFull(t, k) ==
  IF t.size >= t.slots THEN {}
  ELSE IF Holding(t, k) # {} THEN First(t, k, Holding(t, k))
  ELSE IF Cardinality(Vacant(t, k)) > 1 THEN First(t, k, Vacant(t, k)) ELSE {}

(* hashmap_hash_helper: the slot for a key, if there is one.  A full table *)
(* has none, not even for a key it holds.                                  *)
Places(t, k) ==
  IF t.size >= t.slots THEN {}
  ELSE IF Holding(t, k) # {} THEN First(t, k, Holding(t, k))
  ELSE First(t, k, Vacant(t, k))

(* The assignments of hashmap_put.                                         *)
Stored(t, i, element) ==
  [slots |-> t.slots,
   size |-> IF t.at[i] = Free THEN t.size + 1 ELSE t.size,
   at |-> [t.at EXCEPT ![i] = element]]

(* Mutant of Cleared: the element is blanked and size is not.              *)
ClearedOnly(t, i) ==
  [slots |-> t.slots, size |-> t.size, at |-> [t.at EXCEPT ![i] = Free]]

(* memset of an element and m->size--.                                     *)
Cleared(t, i) ==
  [slots |-> t.slots, size |-> t.size - 1, at |-> [t.at EXCEPT ![i] = Free]]
-----------------------------------------------------------------------------
(***************************************************************************)
(* hashmap_create and hashmap_destroy.                                     *)
(***************************************************************************)
Quiet == putting = NoEntry

PowerOfTwo(n) == \E e \in 0 .. n : n = 2 ^ e

(* What hashmap_create may make of a size: nothing, for a size that is not *)
(* a power of two or if calloc fails.                                      *)
Created(n) == {t \in {Blank(n)} : n <= MaxSlots /\ PowerOfTwo(n)}

Create ==
  /\ Quiet /\ tables[1].slots = 0
  /\ \E n \in Sizes : \E t \in Created(n) : tables' = <<t>>
  /\ UNCHANGED <<hash, putting, result>>

Destroy ==
  /\ Quiet
  /\ tables' = <<Blank(0)>>
  /\ UNCHANGED <<hash, putting, result>>
-----------------------------------------------------------------------------
(***************************************************************************)
(* hashmap_put.                                                            *)
(***************************************************************************)
Depth == Len(tables)
Top == tables[Depth]

Put(k, e) ==
  /\ Quiet
  /\ putting' = Element(k, e)
  /\ UNCHANGED <<hash, tables, result>>

(* hashmap_iterate_pairs shows the elements in the order of their slots.   *)
Foremost(t) == {i \in InUse(t) : \A j \in InUse(t) : i <= j}

(* What is being put into the topmost table: the element that is being     *)
(* moved there, or that of the caller.                                     *)
Below == tables[Depth - 1]
Carried ==
  IF Depth > 1 THEN {Below.at[m] : m \in Foremost(Below)}
  ELSE {putting} \ {NoEntry}

(* The caller's element has its slot.                                      *)
Place ==
  /\ Depth = 1
  /\ \E x \in Carried : \E i \in Places(Top, x.key) : tables' = <<Stored(Top, i, x)>>
  /\ putting' = NoEntry
  /\ result' = Element(putting.key, "stored")
  /\ UNCHANGED hash

(* Mutant of Move: elements keep the index of the slot they had.           *)
MoveInPlace ==
  /\ Depth > 1
  /\ \E m \in Foremost(Below) :
       tables' = [tables EXCEPT ![Depth] = Stored(@, m, Below.at[m]),
                                ![Depth - 1] = Cleared(@, m)]
  /\ UNCHANGED <<hash, putting, result>>

(* hashmap_rehash_iterator: one element is put into the new table and      *)
(* removed from the old one.                                               *)
Move ==
  /\ Depth > 1
  /\ \E m \in Foremost(Below) : \E i \in Places(Top, Below.at[m].key) :
       tables' = [tables EXCEPT ![Depth] = Stored(@, i, Below.at[m]),
                                ![Depth - 1] = Cleared(@, m)]
  /\ UNCHANGED <<hash, putting, result>>

(* All are moved: the old table is destroyed and the new one copied there. *)
Moved ==
  /\ Depth > 1 /\ InUse(Below) = {}
  /\ tables' = Append(SubSeq(tables, 1, Depth - 2), Top)
  /\ UNCHANGED <<hash, putting, result>>

(* A put, of the caller or of an element on the move, has no slot.         *)
Blocked == \E x \in Carried : Places(Top, x.key) = {}

(* Mutant of Grow: the new table has the size of the old one.              *)
GrowNot ==
  /\ Blocked
  /\ \E t \in Created(Top.slots) : tables' = Append(tables, t)
  /\ UNCHANGED <<hash, putting, result>>

Grow ==
  /\ Blocked
  /\ \E t \in Created(2 * Top.slots) : tables' = Append(tables, t)
  /\ UNCHANGED <<hash, putting, result>>

(* Mutant of NoMemory: the old table is destroyed, moved or not.           *)
NoMemoryDestroys ==
  /\ Blocked
  /\ tables' = <<Blank(0)>>
  /\ putting' = NoEntry
  /\ result' = Element(putting.key, "failed")
  /\ UNCHANGED hash

(* No memory for a new table, or its size is no power of two.  All puts    *)
(* return 1, and the tables on the stack are lost with what they hold.     *)
NoMemory ==
  /\ Blocked
  /\ tables' = <<tables[1]>>
  /\ putting' = NoEntry
  /\ result' = Element(putting.key, "failed")
  /\ UNCHANGED hash
-----------------------------------------------------------------------------
(***************************************************************************)
(* The other operations, on a map that has been created.                   *)
(***************************************************************************)
Map == tables[1]
Usable == Quiet /\ Map.slots > 0

(* Where a get or a removal finds a key.                                   *)
Found(k) == First(Map, k, Holding(Map, k))

Get(k) ==
  /\ Usable
  /\ \/ Found(k) = {} /\ result' = Element(k, NoEntry)
     \/ \E i \in Found(k) : result' = Element(k, Map.at[i].entry)
  /\ UNCHANGED <<hash, tables, putting>>

(* hashmap_remove, and hashmap_remove_and_return_key, whose result the     *)
(* entry stands for.                                                       *)
Remove(k) ==
  /\ Usable
  /\ \/ /\ Found(k) = {}
        /\ result' = Element(k, NoEntry)
        /\ UNCHANGED tables
     \/ \E i \in Found(k) :
          /\ result' = Element(k, Map.at[i].entry)
          /\ tables' = <<Cleared(Map, i)>>
  /\ UNCHANGED <<hash, putting>>

Swept(t, gone) ==
  [slots |-> t.slots, size |-> t.size - Cardinality(gone),
   at |-> [i \in DOMAIN t.at |-> IF i \in gone THEN Free ELSE t.at[i]]]

(* A walk over the slots in their order, to one at which its callback stops*)
(* it, if there is one: what is shown, and the outcome for what the        *)
(* callback returned last.                                                 *)
Stops == {{}} \union {{i} : i \in InUse(Map)}
Shown(stop) == {i \in InUse(Map) : \A j \in stop : i <= j}
Walked(stop, last) ==
  [all |-> Shown(stop) = InUse(Map), last |-> last, code |-> Cardinality(stop)]

(* hashmap_iterate stops when its callback returns 0, and then returns 1;  *)
(* hashmap.h says, of "non-zero" (156).                                    *)
Iterate ==
  /\ Usable
  /\ \E stop \in Stops : result' = Walked(stop, 1 - Cardinality(stop))
  /\ UNCHANGED <<hash, tables, putting>>

(* hashmap_iterate_pairs: -1 removes an element, 0 goes on, and for any    *)
(* other value the function stops and returns 1.                           *)
IteratePairs ==
  /\ Usable
  /\ \E stop \in Stops : \E gone \in SUBSET (Shown(stop) \ stop) :
       /\ result' = Walked(stop, Cardinality(stop))
       /\ tables' = <<Swept(Map, gone)>>
  /\ UNCHANGED <<hash, putting>>

Next ==
  \/ Create \/ Destroy
  \/ \E offer \in Offers : Put(offer[1], offer[2])
  \/ Place \/ Move \/ Moved \/ Grow \/ NoMemory
  \/ \E k \in Keys : Get(k) \/ Remove(k)
  \/ Iterate \/ IteratePairs

Spec == Init /\ [][Next]_vars
FairSpec == Spec /\ WF_vars(Place \/ Move \/ Moved \/ Grow \/ NoMemory)
-----------------------------------------------------------------------------
(***************************************************************************)
(* Properties.                                                             *)
(***************************************************************************)
Depths == 1 .. Depth

Walks == [all : BOOLEAN, last : {0, 1}, code : {0, 1}]

Table(t) ==
  /\ t.slots \in 0 .. MaxSlots
  /\ t.at \in [0 .. t.slots - 1 -> Elements \union {Free}]
  /\ t.size = Cardinality(InUse(t))
  /\ t = [slots |-> t.slots, size |-> t.size, at |-> t.at]

(* hashmap_num_entries: the field size counts the slots in use, through    *)
(* removals, moves and growth.                                             *)
TypeOK ==
  /\ hash \in [Keys -> Hashes]
  /\ putting \in Elements \union {NoEntry}
  /\ result \in [key : Keys, entry : Entries \union {NoEntry, "stored", "failed"}]
               \union Walks \union {NoEntry}
  /\ Depth >= 1 /\ (Quiet => Depth = 1)
  /\ tables = [d \in Depths |-> tables[d]]
  /\ \A d \in Depths : Table(tables[d])

(* Every element lies where a get looks for it, in every table, though     *)
(* removals leave holes in front of it.                                    *)
WithinReach ==
  \A d \in Depths : \A i \in InUse(tables[d]) :
    i \in Window(tables[d], tables[d].at[i].key)

(* No key is held twice, in one table or in two, however the moves of      *)
(* nested rehashes interleave.                                             *)
HeldOnce ==
  \A d, c \in Depths : \A i \in InUse(tables[d]), j \in InUse(tables[c]) :
    tables[d].at[i].key = tables[c].at[j].key => d = c /\ i = j

(* A map is moved only if Chain elements are in it, or all its slots are   *)
(* taken: the command table, two commands in sixteen slots and Chain 8,    *)
(* stays where serverMain created it.                                      *)
GrowsForCause ==
  Depth > 1 =>
    LET held == Cardinality(UNION {{<<d, i>> : i \in InUse(tables[d])} : d \in Depths}) IN
    held >= Chain \/ held >= tables[1].slots

(* A map of keys to entries, as MapInterface states it: what a put that    *)
(* fails takes with it is what it had moved, and no other key.             *)
Held == UNION {{tables[d].at[i] : i \in InUse(tables[d])} : d \in Depths}
Bound(k) ==
  LET found == {x \in Held : x.key = k}
  IN  IF found = {} THEN NoEntry ELSE (CHOOSE x \in found : TRUE).entry

(* What a put has moved away from the caller's table.                      *)
Aloft == UNION {{tables[d].at[i].key : i \in InUse(tables[d])} : d \in 2 .. Depth}

M == INSTANCE MapInterface WITH map <- [k \in Keys |-> Bound(k)], moved <- Aloft
MapSpec == M!Spec

(* A put returns, whatever the hash function: a table that cannot take the *)
(* element grows until it can or until there is no memory.                 *)
PutReturns == putting # NoEntry ~> putting = NoEntry
=============================================================================
