---------------------------- MODULE MapInterface ----------------------------
(***************************************************************************)
(* What a hash map of third/hashmap.h promises its caller: a map of keys   *)
(* to entries.  A put takes effect at one instant between its call and its *)
(* return.  On its way it may move what is in the map elsewhere, key by    *)
(* key.  If it fails, the entry is not there, and of what was there before *)
(* the keys that were on the move are gone, and no others.                 *)
(***************************************************************************)
EXTENDS Integers

CONSTANTS Keys, Entries, NoEntry

VARIABLES
  map,      (* what each key is bound to                                    *)
  moved,    (* the keys a put in progress would take with it, if it failed  *)
  putting,  (* the put in progress: a key and its entry, or NoEntry         *)
  result    (* what the last call returned                                  *)

vars == <<map, moved, putting, result>>

With(k, e) == [key |-> k, entry |-> e]
Bindings == [Keys -> Entries \union {NoEntry}]

Init ==
  /\ map = [k \in Keys |-> NoEntry]
  /\ moved = {}
  /\ putting = NoEntry
  /\ result = NoEntry

Call ==
  /\ putting = NoEntry
  /\ \E k \in Keys, e \in Entries : putting' = With(k, e)
  /\ UNCHANGED <<map, moved, result>>

Held == {k \in Keys : map[k] # NoEntry}

MoveAway(k) ==
  /\ putting # NoEntry
  /\ UNCHANGED <<putting, result>>
  /\ k \in Held \ moved
  /\ moved' = moved \union {k}
  /\ UNCHANGED map

(* All are where they have been moved to.                                  *)
Settle ==
  /\ putting # NoEntry
  /\ moved = Held /\ moved' = {}
  /\ UNCHANGED <<map, putting, result>>

Bind ==
  /\ putting # NoEntry /\ moved = {}
  /\ putting' = NoEntry
  /\ result' = With(putting.key, "stored")
  /\ map' = [map EXCEPT ![putting.key] = putting.entry]
  /\ UNCHANGED moved

Without(lost) == [k \in Keys |-> IF k \in lost THEN NoEntry ELSE map[k]]

FailToBind ==
  /\ putting # NoEntry
  /\ putting' = NoEntry
  /\ result' = With(putting.key, "failed")
  /\ map' = Without(moved) /\ moved' = {}

Get(k) ==
  /\ putting = NoEntry
  /\ result' = With(k, map[k])
  /\ UNCHANGED <<map, moved, putting>>

(* A removal tells what it has removed.                                    *)
Remove(k) ==
  /\ putting = NoEntry
  /\ result' = With(k, map[k])
  /\ map' = Without({k})
  /\ UNCHANGED <<moved, putting>>

(* A callback is shown bindings, and may have some of them removed.  Only  *)
(* if it has been shown all of them is the result 0.                       *)
Walk ==
  /\ putting = NoEntry
  /\ result' \in [all : BOOLEAN, last : {0, 1}, code : {0, 1}]
  /\ result'.code = 0 => result'.all
  /\ \E gone \in SUBSET Held : map' = Without(gone)
  /\ UNCHANGED <<moved, putting>>

Clear ==
  /\ putting = NoEntry
  /\ map' = Without(Keys)
  /\ UNCHANGED <<moved, putting, result>>

Next ==
  \/ Call \/ Settle \/ Bind \/ FailToBind
  \/ \E k \in Keys : MoveAway(k) \/ Get(k) \/ Remove(k)
  \/ Walk \/ Clear

Spec == Init /\ [][Next]_vars
=============================================================================
