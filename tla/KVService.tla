----------------------------- MODULE KVService -----------------------------
(***************************************************************************)
(* What freedb promises the programs that connect to it: a durable map     *)
(* shared by all of them.  A request takes effect at one instant between   *)
(* its submission and its answer, or is refused and changes nothing; one   *)
(* that means nothing is refused.  A client may lose its connection at any *)
(* time, and with it the answer, never what was answered before.  It may   *)
(* also get adrift, and then nothing it is answered, and none of the calls *)
(* made in its name, need be what it asked for.                            *)
(***************************************************************************)
EXTENDS StoreInterface

CONSTANTS
  Clients,   (* the programs that connect                                   *)
  Nonsense   (* a request that is no call of the store                      *)

VARIABLES
  store,    (* the durable map                                              *)
  client    (* what each client is about                                    *)

vars == <<store, client>>

(* A client is out, idle, waits for the answer to a request, has left its  *)
(* request behind, has its answer before it, or is adrift.                 *)
Requests == Calls \union {Nonsense}
Out == [is |-> "out"]
Idle == [is |-> "idle"]
Pending(r) == [is |-> "pending", request |-> r]
Lost(r) == [is |-> "lost", request |-> r]
Done(a) == [is |-> "done", answer |-> a]
Adrift == [is |-> "adrift"]

Init ==
  /\ store = Empty
  /\ client = [c \in Clients |-> Out]

Join(c) ==
  /\ client[c] = Out
  /\ client' = [client EXCEPT ![c] = Idle]
  /\ UNCHANGED store

Submit(c) ==
  /\ client[c] = Idle
  /\ \E r \in Requests : client' = [client EXCEPT ![c] = Pending(r)]
  /\ UNCHANGED store

(* The answer, for a client that is still there.                           *)
Concluded(c, a) ==
  [client EXCEPT ![c] = IF @.is = "pending" THEN Done(a) ELSE Out]

(* The instant at which a request takes effect.                            *)
Perform(c) ==
  /\ client[c].is \in {"pending", "lost"}
  /\ LET r == client[c].request IN
       /\ r \in Calls
       /\ r.op = "get" => store[r.key] # NoValue
       /\ store' = Effect(store, r)
       /\ client' = Concluded(c, IF r.op = "get"
                                 THEN [code |-> "ok", val |-> store[r.key]] ELSE OK)

Refuse(c) ==
  /\ client[c].is \in {"pending", "lost"}
  /\ client' = Concluded(c, Err)
  /\ UNCHANGED store

(* The client has its answer, perhaps with the end of its connection.      *)
Answer(c) ==
  /\ client[c].is = "done"
  /\ \E next \in {Idle, Out} : client' = [client EXCEPT ![c] = next]
  /\ UNCHANGED store

(* The client goes away and its request does not.                          *)
Leave(c) ==
  /\ client[c].is = "pending"
  /\ client' = [client EXCEPT ![c] = Lost(@.request)]
  /\ UNCHANGED store

(* What the client sends is no longer taken for what it is.                *)
GoAdrift(c) ==
  /\ client[c] # Out
  /\ client' = [client EXCEPT ![c] = Adrift]
  /\ UNCHANGED store

(* A call that its client need not have asked for.                         *)
Stray(c) ==
  /\ client[c] = Adrift
  /\ \E r \in Calls : store' = Effect(store, r)
  /\ UNCHANGED client

(* A connection ends, or all of them when the server does.                 *)
Lose ==
  /\ \E gone \in SUBSET Clients :
       client' = [c \in Clients |-> IF c \in gone THEN Out ELSE client[c]]
  /\ UNCHANGED store

Next ==
  \/ \E c \in Clients : \/ Join(c) \/ Submit(c) \/ Perform(c) \/ Refuse(c)
                        \/ Answer(c) \/ Leave(c) \/ GoAdrift(c) \/ Stray(c)
  \/ Lose

Spec == Init /\ [][Next]_vars
=============================================================================
