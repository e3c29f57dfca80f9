--------------------------- MODULE StoreInterface ---------------------------
(***************************************************************************)
(* The vocabulary shared by the storage engine (src/dbEngine.h) and by the *)
(* abstract store it is meant to implement: the calls a user of the engine *)
(* makes and the results it gets back.                                     *)
(***************************************************************************)

CONSTANTS
  Keys,     (* the keys callers use                                         *)
  Values,   (* the values callers store                                     *)
  NoValue,  (* what a key that is not in the database is bound to           *)
  Ops       (* the engine functions the callers use: a subset of AllOps     *)

AllOps == {"set", "get", "remove", "drop"}

ASSUME InterfaceAssumption ==
  /\ NoValue \notin Keys \union Values
  /\ Ops \subseteq AllOps

(* What a database may hold: each key is bound to a value or to NoValue.   *)
Contents == [Keys -> Values \union {NoValue}]

Empty == [k \in Keys |-> NoValue]

(***************************************************************************)
(* The calls of src/dbEngine.h.  Only "set" carries a value, and "drop"    *)
(* works on the whole table.                                               *)
(***************************************************************************)
Calls ==
  {c \in [op : {"set"}, key : Keys, val : Values]
         \union [op : {"get", "remove"}, key : Keys, val : {NoValue}]
         \union [op : {"drop"}, key : {NoValue}, val : {NoValue}] :
     c.op \in Ops}

NoCall == [op |-> "none", key |-> NoValue, val |-> NoValue]

(* The contents after a call that succeeds.                                *)
Effect(s, c) ==
  CASE c.op = "set"    -> [s EXCEPT ![c.key] = c.val]
    [] c.op = "remove" -> [s EXCEPT ![c.key] = NoValue]
    [] c.op = "drop"   -> Empty
    [] OTHER           -> s

(* DB_OK and DB_ERR, with the value that dbEngineGet hands back.           *)
Results == [code : {"ok", "err"}, val : Values \union {NoValue}]

OK == [code |-> "ok", val |-> NoValue]
Err == [code |-> "err", val |-> NoValue]
=============================================================================
