----------------------------- MODULE EventLoop -----------------------------
(***************************************************************************)
(* The server's one thread: the event loop of src/bees (driver.c over      *)
(* kqueue.ch), the accept handler of server.c, and what the callbacks of   *)
(* client.c do to descriptors and registrations.  What a callback does     *)
(* with the bytes is the subject of Client; here it is a choice between    *)
(* the ways it can end.                                                    *)
(*                                                                         *)
(* The kernel's part (descriptors, kqueue, the listening socket) is        *)
(* modelled from how the code uses it.                                     *)
(***************************************************************************)
EXTENDS Integers, Sequences, FiniteSets

CONSTANTS
  MaxFd,       (* the largest descriptor the process may open               *)
  Size,        (* 65535: the size given to driverNew                        *)
  Slots,       (* how many ioEvents fit into the memory of driver->events   *)
  NumConns,    (* how many connections are ever made                        *)
  MaxPending,  (* the most reply bytes a connection may have waiting        *)
  RegMayFail   (* whether kevent() may refuse to add an event               *)

Fds == 0..MaxFd
Listener == 0
Conns == 1..NumConns
Server == 0        (* the data of the listening socket's event              *)
None == -1

ASSUME LoopAssumption ==
  /\ MaxFd \in Nat /\ Size \in Nat /\ Slots \in Nat \ {0} /\ Slots <= Size
  /\ NumConns \in Nat /\ MaxPending \in Nat
  /\ RegMayFail \in BOOLEAN

VARIABLES
  events,    (* driver->events: per descriptor its mask and callback data   *)
  kq,        (* the filters kqueue holds: pairs of descriptor and kind      *)
  owner,     (* the connection each open descriptor belongs to              *)
  heap,      (* each client_t: "none", "live", "freed" or "leaked"          *)
  accepted,  (* connections accepted so far                                 *)
  arrived,   (* connections the kernel has completed so far                 *)
  readable,  (* connections with input, or its end, to read                 *)
  room,      (* connections whose send buffer has room                      *)
  pending,   (* reply bytes each connection has still to write              *)
  fired,     (* driver->fired                                               *)
  i,         (* the loop counter of driverProcessEvents                     *)
  pc,        (* what the thread is doing                                    *)
  cur        (* the descriptor and the data passed to the running callback  *)

vars == <<events, kq, owner, heap, accepted, arrived, readable,
          room, pending, fired, i, pc, cur>>

socketVars == <<readable, room, pending>>
loopVars == <<fired, i>>

Kinds == {"read", "write"}

(* "stopped": a callback does not return.  Its command waits for ever in   *)
(* mdb_txn_begin, for a transaction that a get has left open, or SIGPIPE   *)
(* has ended the process.  "undefined": driver->events was exceeded.       *)
Points == {"wait", "dispatch", "accept", "read", "write", "stopped", "undefined"}

TypeOK ==
  /\ events \in [Fds -> [mask : SUBSET Kinds, data : Conns \union {Server}]]
  /\ kq \subseteq Fds \X Kinds
  /\ owner \in [Fds -> Conns \union {Server, None}]
  /\ heap \in [Conns -> {"none", "live", "freed", "leaked"}]
  /\ accepted \in 0..NumConns /\ arrived \in 0..NumConns
  /\ readable \subseteq Conns /\ room \subseteq Conns
  /\ pending \in [Conns -> 0..MaxPending]
  /\ \A n \in DOMAIN fired : fired[n] \in Fds \X Kinds
  /\ i \in Nat
  /\ pc \in Points
  /\ cur \in [fd : Fds, data : Conns \union {Server}]

(* serverMain has registered the listening socket.                         *)
Init ==
  /\ events = [f \in Fds |-> [mask |-> IF f = Listener THEN {"read"} ELSE {},
                              data |-> Server]]
  /\ kq = {<<Listener, "read">>}
  /\ owner = [f \in Fds |-> IF f = Listener THEN Server ELSE None]
  /\ heap = [c \in Conns |-> "none"]
  /\ accepted = 0 /\ arrived = 0
  /\ readable = {} /\ room = Conns
  /\ pending = [c \in Conns |-> 0]
  /\ fired = <<>> /\ i = 1
  /\ pc = "wait" /\ cur = [fd |-> Listener, data |-> Server]
-----------------------------------------------------------------------------
(***************************************************************************)
(* The peers: a connection is made, input or its end arrives, a peer reads *)
(* what blocked the server's writes.                                       *)
(***************************************************************************)
Connect ==
  /\ arrived < NumConns
  /\ arrived' = arrived + 1
  /\ UNCHANGED <<events, kq, owner, heap, accepted, socketVars, loopVars, pc, cur>>

Input ==
  /\ \E c \in Conns : heap[c] = "live" /\ readable' = readable \union {c}
  /\ UNCHANGED <<events, kq, owner, heap, accepted, arrived, room, pending, loopVars, pc, cur>>

PeerReads ==
  /\ \E c \in Conns \ room : heap[c] = "live" /\ room' = room \union {c}
  /\ UNCHANGED <<events, kq, owner, heap, accepted, arrived, readable, pending,
                 loopVars, pc, cur>>
-----------------------------------------------------------------------------
(***************************************************************************)
(* driverRegEvent and driverDelEvent, as the tables they leave.            *)
(***************************************************************************)
(* Mutants: driverRegEvent assigns the mask instead of adding to it, and   *)
(* driverDelEvent removes everything.                                      *)
RegisteredOnly(f, k, c) == [events EXCEPT ![f] = [mask |-> {k}, data |-> c]]
UnregisteredAll(f, ks) == [events EXCEPT ![f].mask = {}]

Registered(f, k, c) ==
  [events EXCEPT ![f] = [mask |-> @.mask \union {k}, data |-> c]]

Unregistered(f, ks) == [events EXCEPT ![f].mask = @ \ ks]

RegEvent(f, k, c) ==
  /\ events' = Registered(f, k, c)
  /\ kq' = kq \union {<<f, k>>}

DelEvent(f, ks) ==
  /\ events' = Unregistered(f, ks)
  /\ kq' = IF events[f].mask = {} THEN kq ELSE kq \ ({f} \X ks)

(***************************************************************************)
(* kevent() reports every registered filter whose condition holds: input,  *)
(* or a connection to accept; room to write.  Their order is the kernel's. *)
(***************************************************************************)
Ready ==
  {e \in kq :
     \/ e = <<Listener, "read">> /\ arrived > accepted
     \/ e[2] = "read" /\ owner[e[1]] \in readable
     \/ e[2] = "write" /\ owner[e[1]] \in room}

evApiPool ==
  /\ pc = "wait" /\ Ready # {}
  /\ fired' \in {s \in [1..Cardinality(Ready) -> Ready] :
                   \A a, b \in DOMAIN s : s[a] = s[b] => a = b}
  /\ i' = 1
  /\ pc' = "dispatch"
  /\ UNCHANGED <<events, kq, owner, heap, accepted, arrived, socketVars, cur>>

(* driverProcessEvents counts up to nevents, but the pointer fired stays   *)
(* at the first entry.                                                     *)
Entry == fired[1]

Callback(f, k) == IF f = Listener THEN "accept" ELSE k

Dispatch ==
  /\ pc = "dispatch" /\ i <= Len(fired)
  /\ i' = i + 1
  /\ LET f == Entry[1]  k == Entry[2] IN
       IF k \in events[f].mask
       THEN /\ pc' = Callback(f, k)
            /\ cur' = [fd |-> f, data |-> events[f].data]
       ELSE UNCHANGED <<pc, cur>>
  /\ UNCHANGED <<events, kq, owner, heap, accepted, arrived, socketVars, fired>>

BatchDone ==
  /\ pc = "dispatch" /\ i > Len(fired)
  /\ fired' = <<>> /\ i' = 1
  /\ pc' = "wait"
  /\ UNCHANGED <<events, kq, owner, heap, accepted, arrived, socketVars, cur>>
-----------------------------------------------------------------------------
(***************************************************************************)
(* acceptProcHandler: one iteration of its loop.  accept() returns the     *)
(* lowest free descriptor.  Registration fails for a descriptor beyond     *)
(* size, and when kevent() does; then the descriptor is closed and the     *)
(* client_t forgotten.                                                     *)
(***************************************************************************)
Free == {f \in Fds : owner[f] = None}

AcceptOne ==
  /\ pc = "accept" /\ arrived > accepted
  /\ accepted' = accepted + 1
  /\ \E f \in Free :
       /\ \A g \in Free : f <= g
       /\ LET c == accepted + 1 IN
            \/ /\ f < Slots
               /\ owner' = [owner EXCEPT ![f] = c]
               /\ heap' = [heap EXCEPT ![c] = "live"]
               /\ RegEvent(f, "read", c)
               /\ pc' = pc
            \/ /\ f >= Size \/ RegMayFail
               /\ heap' = [heap EXCEPT ![c] = "leaked"]
               /\ UNCHANGED <<events, kq, owner, pc>>
            \/ /\ Slots <= f /\ f < Size    (* a write beyond driver->events *)
               /\ pc' = "undefined"
               /\ UNCHANGED <<events, kq, owner, heap>>
  /\ UNCHANGED <<arrived, socketVars, loopVars, cur>>

(* Mutant of AcceptNone: out of descriptors, it stops listening.           *)
AcceptNoneForGood ==
  /\ pc = "accept" /\ (arrived = accepted \/ Free = {})
  /\ IF Free = {} THEN DelEvent(Listener, {"read"}) ELSE UNCHANGED <<events, kq>>
  /\ pc' = "dispatch"
  /\ UNCHANGED <<owner, heap, accepted, arrived, socketVars, loopVars, cur>>

(* EAGAIN, or EMFILE, which leaves the connection where it is.             *)
AcceptNone ==
  /\ pc = "accept" /\ (arrived = accepted \/ Free = {})
  /\ pc' = "dispatch"
  /\ UNCHANGED <<events, kq, owner, heap, accepted, arrived, socketVars, loopVars, cur>>

(* Mutant of clientFree: it only closes the descriptor.                    *)
clientFreeKeepsEvents ==
  /\ kq' = kq \ ({cur.fd} \X Kinds)
  /\ owner' = [owner EXCEPT ![cur.fd] = None]
  /\ heap' = [heap EXCEPT ![cur.data] = "freed"]
  /\ readable' = readable \ {cur.data}
  /\ pending' = [pending EXCEPT ![cur.data] = 0]
  /\ UNCHANGED <<events, room>>

(***************************************************************************)
(* The ways a callback of client.c ends.  clientFree takes the events out  *)
(* of the driver, and then closes the descriptor, which also takes them    *)
(* out of kqueue.                                                          *)
(***************************************************************************)
clientFree ==
  /\ events' = Unregistered(cur.fd, Kinds)
  /\ kq' = kq \ ({cur.fd} \X Kinds)
  /\ owner' = [owner EXCEPT ![cur.fd] = None]
  /\ heap' = [heap EXCEPT ![cur.data] = "freed"]
  /\ readable' = readable \ {cur.data}
  /\ pending' = [pending EXCEPT ![cur.data] = 0]
  /\ UNCHANGED room

(* reply(), with n bytes left when it returns.                             *)
replied(n) ==
  /\ pending' = [pending EXCEPT ![cur.data] = n]
  /\ IF n > 0
     THEN RegEvent(cur.fd, "write", cur.data) /\ room' = room \ {cur.data}
     ELSE DelEvent(cur.fd, {"write"}) /\ UNCHANGED room
  /\ UNCHANGED <<owner, heap>>

(* A callback that does not return.                                        *)
Stop ==
  /\ \/ pc = "read" /\ cur.data \in readable
     \/ pc = "write" /\ pending[cur.data] > 0
  /\ pc' = "stopped"
  /\ UNCHANGED <<events, kq, owner, heap, accepted, arrived, socketVars, loopVars, cur>>

(* commandParseProc reads all the input there is.  A repeated call finds   *)
(* none.  If kevent() refuses the event, the reply stays where it is.      *)
ReadCallback ==
  /\ pc = "read"
  /\ \/ /\ cur.data \notin readable
        /\ UNCHANGED <<events, kq, owner, heap, socketVars>>
     \/ cur.data \in readable /\ clientFree
     \/ /\ cur.data \in readable
        /\ readable' = readable \ {cur.data}
        /\ \/ UNCHANGED <<events, kq, owner, heap, room, pending>>
           \/ /\ cur.data \in room
              /\ \E n \in 0..MaxPending : replied(n)
           \/ /\ cur.data \notin room
              /\ \E n \in 1..MaxPending : n >= pending[cur.data] /\ replied(n)
           \/ /\ RegMayFail
              /\ \E n \in 1..MaxPending : pending' = [pending EXCEPT ![cur.data] = n]
              /\ room' = room \ {cur.data}
              /\ UNCHANGED <<events, kq, owner, heap>>
  /\ pc' = "dispatch"
  /\ UNCHANGED <<accepted, arrived, loopVars, cur>>

(* Mutant of WriteCallback: its event is taken to fire only once.          *)
WriteCallbackOnce ==
  /\ pc = "write"
  /\ \E n \in 0..MaxPending :
       /\ n < pending[cur.data]
       /\ pending' = [pending EXCEPT ![cur.data] = n]
       /\ room' = IF n > 0 THEN room \ {cur.data} ELSE room
       /\ DelEvent(cur.fd, {"write"})
  /\ pc' = "dispatch"
  /\ UNCHANGED <<owner, heap, readable, accepted, arrived, loopVars, cur>>

(* replyBufferProc.                                                        *)
WriteCallback ==
  /\ pc = "write"
  /\ \/ clientFree
     \/ /\ cur.data \in room
        /\ \E n \in 0..MaxPending : n < pending[cur.data] /\ replied(n)
        /\ UNCHANGED readable
     \/ /\ cur.data \notin room
        /\ replied(pending[cur.data])
        /\ UNCHANGED readable
  /\ pc' = "dispatch"
  /\ UNCHANGED <<accepted, arrived, loopVars, cur>>
-----------------------------------------------------------------------------
Step ==
  \/ evApiPool \/ Dispatch \/ BatchDone
  \/ AcceptOne \/ AcceptNone \/ Stop \/ ReadCallback \/ WriteCallback

Next == Connect \/ Input \/ PeerReads \/ Step

Spec == Init /\ [][Next]_vars

(* The thread runs whenever it has something to do, and peers read.  Input *)
(* may arrive for ever.                                                    *)
FairSpec == Spec /\ WF_vars(Step) /\ WF_vars(PeerReads)
-----------------------------------------------------------------------------
(***************************************************************************)
(* Properties.                                                             *)
(***************************************************************************)

(* A callback is only ever run on the client_t that owns the descriptor,   *)
(* and never on one that has been freed: not on a later entry of the batch *)
(* in which it was freed, nor after its descriptor was given to another    *)
(* connection.                                                             *)
CallbackOnLiveClient ==
  pc \in {"read", "write"} =>
    /\ cur.data \in Conns
    /\ heap[cur.data] = "live"
    /\ owner[cur.fd] = cur.data

(* The driver's table and kqueue agree on what each descriptor waits for,  *)
(* whatever the order of registrations, failures and closes; a descriptor  *)
(* that is not open waits for nothing.                                     *)
TableMatchesKernel ==
  \A f \in Fds :
    /\ \A k \in Kinds : k \in events[f].mask <=> <<f, k>> \in kq
    /\ owner[f] = None => events[f].mask = {}

(* A connection is live exactly while one descriptor is its own, and the   *)
(* loop then listens to it.                                                *)
LiveConnectionsHeard ==
  \A c \in Conns :
    heap[c] = "live" <=>
      \E f \in Fds : /\ owner[f] = c
                     /\ "read" \in events[f].mask
                     /\ \A g \in Fds : owner[g] = c => g = f

(* driver.h: size is the number of descriptors supported.  Every one of    *)
(* them has its slot in the table.                                         *)
SlotInTable == pc # "undefined"

(* accept() has a connection to return and no descriptor to give it: it    *)
(* fails with EMFILE, and the listening socket is reported again at once.  *)
Exhausted == arrived > accepted /\ Free = {}

Stopped == pc = "stopped"

(* A callback has read the input of some connection among cs.              *)
Serves(cs) == \E d \in cs : d \in readable /\ d \notin readable'

(* A batch serves only its first entry, and the kernel may report the same *)
(* connection first for as long as it has input.  So input can wait for    *)
(* ever, but in three ways only: behind input of others that never ends,   *)
(* behind a connection that there is no descriptor for and whose accept()  *)
(* fails time and again, or behind a callback that does not return.  Level *)
(* triggering brings back whatever a batch has left out, one day first.    *)
InputServed ==
  \A c \in Conns :
    \/ []<>(c \notin readable)
    \/ []<><<Serves(Conns \ {c})>>_vars
    \/ []<>(pc = "accept" /\ Exhausted)
    \/ <>Stopped

AwaitsRoom(c) ==
  pending[c] > 0 /\ \E f \in Fds : owner[f] = c /\ <<f, "write">> \in kq

(* Replies that could not be written at once, and whose event could be     *)
(* registered, are written to the last byte when there is room again, with *)
(* the same three exceptions: here input of their own connection that      *)
(* never ends may keep them waiting too.                                   *)
OutputServed ==
  \A c \in Conns :
    \/ AwaitsRoom(c) ~> pending[c] = 0
    \/ []<><<Serves(Conns)>>_vars
    \/ []<>(pc = "accept" /\ Exhausted)
    \/ <>Stopped

(* A connection waits to be accepted only while there is no descriptor for *)
(* it: a handler that gave up with EMFILE is run again, and accepts it     *)
(* when one is closed.  Again input that never ends may be served first.   *)
ConnectionsAccepted ==
  \/ []<>(arrived = accepted \/ Free = {})
  \/ []<><<Serves(Conns)>>_vars
  \/ <>(Stopped \/ pc = "undefined")
=============================================================================
