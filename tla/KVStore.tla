------------------------------ MODULE KVStore ------------------------------
(***************************************************************************)
(* What the storage engine promises its user: a durable map.  One call is  *)
(* served at a time.  A call either takes effect in one indivisible step   *)
(* or is refused and changes nothing; a crash of the process loses the     *)
(* call in progress and never the map.  A refused call reports an error,   *)
(* unless it is one of those that report success whatever happened.        *)
(***************************************************************************)
EXTENDS StoreInterface

CONSTANT SilentOps   (* the calls whose user is not told of a refusal       *)

VARIABLES
  store,    (* the durable map                                              *)
  phase,    (* "off", "idle", "pending": called, "done": result ready       *)
  request,  (* the latest call                                              *)
  response  (* the latest result                                            *)

vars == <<store, phase, request, response>>

TypeOK ==
  /\ store \in Contents
  /\ phase \in {"off", "idle", "pending", "done"}
  /\ request \in Calls \union {NoCall}
  /\ response \in Results

Init ==
  /\ store = Empty
  /\ phase = "off"
  /\ request = NoCall
  /\ response = OK

(* The store is put into service.                                          *)
Open ==
  /\ phase = "off"
  /\ phase' = "idle"
  /\ UNCHANGED <<store, request, response>>

(* A user issues a call.                                                   *)
Request ==
  /\ phase = "idle"
  /\ request' \in Calls
  /\ phase' = "pending"
  /\ UNCHANGED <<store, response>>

(* A call succeeds.  A get succeeds only when the key is bound.            *)
Perform ==
  /\ phase = "pending"
  /\ request.op = "get" => store[request.key] # NoValue
  /\ store' = Effect(store, request)
  /\ response' = IF request.op = "get"
                 THEN [code |-> "ok", val |-> store[request.key]]
                 ELSE OK
  /\ phase' = "done"
  /\ UNCHANGED request

(* A call fails and changes nothing.                                       *)
Refuse ==
  /\ phase = "pending"
  /\ response' = IF request.op \in SilentOps THEN OK ELSE Err
  /\ phase' = "done"
  /\ UNCHANGED <<store, request>>

(* The result reaches the user.                                            *)
Respond ==
  /\ phase = "done"
  /\ phase' = "idle"
  /\ UNCHANGED <<store, request, response>>

(* The store goes out of service, in the middle of a call or between two.  *)
Stop ==
  /\ phase # "off"
  /\ phase' = "off"
  /\ UNCHANGED <<store, request, response>>

Next == Open \/ Request \/ Perform \/ Refuse \/ Respond \/ Stop

Spec == Init /\ [][Next]_vars
=============================================================================
