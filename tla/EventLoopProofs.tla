-------------------------- MODULE EventLoopProofs --------------------------
(***************************************************************************)
(* Proofs about EventLoop, for any number of connections and descriptors:  *)
(* the driver's table, kqueue, the descriptors and the client_t objects    *)
(* stay consistent, and no callback is run on a freed client_t.            *)
(***************************************************************************)
EXTENDS EventLoop, FiniteSetTheorems, TLAPS

(* The types the argument needs.                                           *)
Types ==
  /\ events \in [Fds -> [mask : SUBSET Kinds, data : Conns \union {Server}]]
  /\ kq \subseteq Fds \X Kinds
  /\ owner \in [Fds -> Conns \union {Server, None}]
  /\ heap \in [Conns -> {"none", "live", "freed", "leaked"}]
  /\ accepted \in Nat /\ arrived \in 0..NumConns /\ accepted <= arrived
  /\ fired \in Seq(Fds \X Kinds) /\ i \in Nat \ {0}
  /\ pc \in {"wait", "dispatch", "accept", "read", "write", "stopped", "undefined"}
  /\ cur \in [fd : Fds, data : Conns \union {Server}]

(* A descriptor of a connection carries that connection in its event and   *)
(* is listened to; a connection that is live has exactly one; one that is  *)
(* still to come has none.                                                 *)
Ownership ==
  /\ \A f \in Fds : owner[f] = Server <=> f = Listener
  /\ \A f \in Fds : owner[f] \in Conns =>
       /\ heap[owner[f]] = "live"
       /\ events[f].data = owner[f]
       /\ "read" \in events[f].mask
  /\ \A f, g \in Fds : owner[f] = owner[g] /\ owner[f] \in Conns => f = g
  /\ \A c \in Conns : heap[c] = "live" => \E f \in Fds : owner[f] = c
  /\ \A c \in Conns : c > accepted => heap[c] = "none"

IInv ==
  /\ Types
  /\ TableMatchesKernel
  /\ Ownership
  /\ CallbackOnLiveClient

LEMMA ListenerFd == Listener \in Fds /\ Server \notin Conns /\ None \notin Conns
                    /\ Server # None
BY LoopAssumption DEF Listener, Fds, Server, None, Conns

LEMMA IInvInit == Init => IInv
<1> SUFFICES ASSUME Init PROVE IInv
  OBVIOUS
<1>1. Types
  BY LoopAssumption, ListenerFd DEF Init, Types, Kinds, Listener
<1>2. TableMatchesKernel
  BY ListenerFd DEF Init, TableMatchesKernel, Kinds
<1>3. Ownership
  BY ListenerFd DEF Init, Ownership
<1> QED
  BY <1>1, <1>2, <1>3 DEF IInv, Init, CallbackOnLiveClient

(***************************************************************************)
(* What the callbacks do to the tables.                                    *)
(***************************************************************************)

(* Registering an event for a descriptor that is open.                     *)
LEMMA RegisterKeeps ==
  ASSUME IInv, pc \in {"read", "write"}, NEW k \in Kinds,
         RegEvent(cur.fd, k, cur.data)
  PROVE  /\ events' \in [Fds -> [mask : SUBSET Kinds, data : Conns \union {Server}]]
         /\ kq' \subseteq Fds \X Kinds
         /\ \A f \in Fds : events[f].mask \subseteq events'[f].mask
         /\ \A f \in Fds : events'[f].data = events[f].data
         /\ \A f \in Fds : \A m \in Kinds : m \in events'[f].mask <=> <<f, m>> \in kq'
         /\ \A f \in Fds : owner[f] = None => events'[f].mask = {}
<1> DEFINE fd == cur.fd
           new == [mask |-> events[fd].mask \union {k}, data |-> cur.data]
<1>1. /\ fd \in Fds /\ owner[fd] = cur.data /\ cur.data \in Conns
      /\ events[fd].data = cur.data
  BY DEF IInv, Types, CallbackOnLiveClient, Ownership
<1>2. events' = [events EXCEPT ![fd] = new]
  BY DEF RegEvent, Registered
<1>3. new \in [mask : SUBSET Kinds, data : Conns \union {Server}]
  BY <1>1 DEF IInv, Types
<1>4. kq' = kq \union {<<fd, k>>}
  BY DEF RegEvent
<1>5. \A f \in Fds : events'[f] = IF f = fd THEN new ELSE events[f]
  BY <1>1, <1>2 DEF IInv, Types
<1>6. new.mask = events[fd].mask \union {k} /\ new.data = cur.data
  OBVIOUS
<1>7. events' \in [Fds -> [mask : SUBSET Kinds, data : Conns \union {Server}]]
  BY <1>1, <1>2, <1>3 DEF IInv, Types
<1> HIDE DEF new, fd
<1>8. kq' \subseteq Fds \X Kinds
  BY <1>1, <1>4 DEF IInv, Types
<1>9. \A f \in Fds : \A m \in Kinds : m \in events'[f].mask <=> <<f, m>> \in kq'
  BY <1>1, <1>4, <1>5, <1>6 DEF IInv, TableMatchesKernel
<1>10. \A f \in Fds : /\ events[f].mask \subseteq events'[f].mask
                      /\ events'[f].data = events[f].data
  BY <1>1, <1>5, <1>6 DEF fd
<1>11. \A f \in Fds : owner[f] = None => events'[f].mask = {}
  <2>1. \A f \in Fds : owner[f] = None => f # fd /\ events[f].mask = {}
    BY <1>1, ListenerFd DEF IInv, TableMatchesKernel
  <2> QED BY <1>5, <2>1
<1> QED
  BY <1>7, <1>8, <1>9, <1>10, <1>11

(* Removing the interest in writing.                                       *)
LEMMA UnregisterKeeps ==
  ASSUME IInv, pc \in {"read", "write"}, DelEvent(cur.fd, {"write"})
  PROVE  /\ events' \in [Fds -> [mask : SUBSET Kinds, data : Conns \union {Server}]]
         /\ kq' \subseteq Fds \X Kinds
         /\ \A f \in Fds : "read" \in events[f].mask => "read" \in events'[f].mask
         /\ \A f \in Fds : events'[f].data = events[f].data
         /\ \A f \in Fds : \A m \in Kinds : m \in events'[f].mask <=> <<f, m>> \in kq'
         /\ \A f \in Fds : owner[f] = None => events'[f].mask = {}
<1> DEFINE fd == cur.fd
           new == [mask |-> events[fd].mask \ {"write"}, data |-> events[fd].data]
<1>1. fd \in Fds /\ owner[fd] = cur.data /\ cur.data \in Conns
  BY DEF IInv, Types, CallbackOnLiveClient
<1>2. "read" \in events[fd].mask
  BY <1>1 DEF IInv, Ownership
<1>3. events' = [events EXCEPT ![fd] = new]
  <2>1. events' = [events EXCEPT ![fd] =
                     [events[fd] EXCEPT !.mask = events[fd].mask \ {"write"}]]
    BY DEF DelEvent, Unregistered
  <2>2. events[fd] \in [mask : SUBSET Kinds, data : Conns \union {Server}]
    BY <1>1 DEF IInv, Types
  <2>3. [events[fd] EXCEPT !.mask = events[fd].mask \ {"write"}] = new
    BY <2>2
  <2> QED BY <2>1, <2>3
<1>4. kq' = kq \ ({fd} \X {"write"})
  BY <1>2 DEF DelEvent
<1>5. new \in [mask : SUBSET Kinds, data : Conns \union {Server}]
  BY <1>1 DEF IInv, Types
<1>6. \A f \in Fds : events'[f] = IF f = fd THEN new ELSE events[f]
  BY <1>1, <1>3 DEF IInv, Types
<1>7. new.mask = events[fd].mask \ {"write"} /\ new.data = events[fd].data
  OBVIOUS
<1>8. events' \in [Fds -> [mask : SUBSET Kinds, data : Conns \union {Server}]]
  BY <1>1, <1>3, <1>5 DEF IInv, Types
<1> HIDE DEF new, fd
<1>9. \A f \in Fds : \A m \in Kinds : m \in events'[f].mask <=> <<f, m>> \in kq'
  BY <1>1, <1>4, <1>6, <1>7 DEF IInv, TableMatchesKernel
<1>10. kq' \subseteq Fds \X Kinds
  BY <1>4 DEF IInv, Types
<1>11. \A f \in Fds : events'[f].mask = IF f = fd THEN events[f].mask \ {"write"}
                                                ELSE events[f].mask
  BY <1>6, <1>7
<1>12. \A f \in Fds : "read" \in events[f].mask => "read" \in events'[f].mask
  BY <1>11
<1>13. \A f \in Fds : events'[f].data = events[f].data
  BY <1>6, <1>7
<1>14. \A f \in Fds : owner[f] = None => events'[f].mask = {}
  <2>1. \A f \in Fds : owner[f] = None => events[f].mask = {}
    BY DEF IInv, TableMatchesKernel
  <2> QED BY <1>11, <2>1
<1> QED
  BY <1>8, <1>9, <1>10, <1>12, <1>13, <1>14

(* Nothing that the tables say depends on anything but these variables.    *)
LEMMA FrameKeeps ==
  ASSUME IInv, UNCHANGED <<events, kq, owner, heap, accepted>>
  PROVE  TableMatchesKernel' /\ Ownership'
BY DEF IInv, TableMatchesKernel, Ownership

(* reply() ends with the interest in writing registered or removed.        *)
LEMMA RepliedKeeps ==
  ASSUME IInv, pc \in {"read", "write"}, NEW n, replied(n), accepted' = accepted
  PROVE  /\ events' \in [Fds -> [mask : SUBSET Kinds, data : Conns \union {Server}]]
         /\ kq' \subseteq Fds \X Kinds
         /\ TableMatchesKernel' /\ Ownership'
<1>1. owner' = owner /\ heap' = heap
  BY DEF replied
<1>2. RegEvent(cur.fd, "write", cur.data) \/ DelEvent(cur.fd, {"write"})
  BY DEF replied
<1>3. /\ events' \in [Fds -> [mask : SUBSET Kinds, data : Conns \union {Server}]]
      /\ kq' \subseteq Fds \X Kinds
      /\ \A f \in Fds : "read" \in events[f].mask => "read" \in events'[f].mask
      /\ \A f \in Fds : events'[f].data = events[f].data
      /\ \A f \in Fds : \A m \in Kinds : m \in events'[f].mask <=> <<f, m>> \in kq'
      /\ \A f \in Fds : owner[f] = None => events'[f].mask = {}
  <2>1. CASE RegEvent(cur.fd, "write", cur.data)
    <3>1. "write" \in Kinds  BY DEF Kinds
    <3> QED BY <2>1, <3>1, RegisterKeeps
  <2>2. CASE DelEvent(cur.fd, {"write"})
    BY <2>2, UnregisterKeeps
  <2> QED BY <1>2, <2>1, <2>2
<1>4. TableMatchesKernel'
  BY <1>1, <1>3 DEF TableMatchesKernel
<1>5. Ownership'
  BY <1>1, <1>3 DEF IInv, Ownership
<1> QED BY <1>3, <1>4, <1>5

(* clientFree takes one descriptor, its events and its connection out of   *)
(* every table.                                                            *)
LEMMA FreeKeeps ==
  ASSUME IInv, pc \in {"read", "write"}, clientFree, accepted' = accepted
  PROVE  /\ events' \in [Fds -> [mask : SUBSET Kinds, data : Conns \union {Server}]]
         /\ kq' \subseteq Fds \X Kinds
         /\ owner' \in [Fds -> Conns \union {Server, None}]
         /\ heap' \in [Conns -> {"none", "live", "freed", "leaked"}]
         /\ TableMatchesKernel' /\ Ownership'
<1> DEFINE fd == cur.fd
           c == cur.data
           new == [mask |-> {}, data |-> events[fd].data]
<1>1. fd \in Fds /\ c \in Conns /\ owner[fd] = c /\ heap[c] = "live"
  BY DEF IInv, Types, CallbackOnLiveClient
<1>2. events' = [events EXCEPT ![fd] = new]
  <2>1. events' = [events EXCEPT ![fd] =
                     [events[fd] EXCEPT !.mask = events[fd].mask \ Kinds]]
    BY DEF clientFree, Unregistered
  <2>2. events[fd] \in [mask : SUBSET Kinds, data : Conns \union {Server}]
    BY <1>1 DEF IInv, Types
  <2>3. [events[fd] EXCEPT !.mask = events[fd].mask \ Kinds] = new
    <3>1. events[fd].mask \ Kinds = {}  BY <2>2
    <3> QED BY <2>2, <3>1
  <2> QED BY <2>1, <2>3
<1>3. new \in [mask : SUBSET Kinds, data : Conns \union {Server}]
  BY <1>1 DEF IInv, Types
<1>4. /\ events' \in [Fds -> [mask : SUBSET Kinds, data : Conns \union {Server}]]
      /\ \A f \in Fds : events'[f] = IF f = fd THEN new ELSE events[f]
  BY <1>1, <1>2, <1>3 DEF IInv, Types
<1>5. new.mask = {}
  OBVIOUS
<1>6. /\ kq' = kq \ ({fd} \X Kinds)
      /\ owner' = [owner EXCEPT ![fd] = None]
      /\ heap' = [heap EXCEPT ![c] = "freed"]
  BY DEF clientFree
<1>7. /\ owner' \in [Fds -> Conns \union {Server, None}]
      /\ \A f \in Fds : owner'[f] = IF f = fd THEN None ELSE owner[f]
      /\ heap' \in [Conns -> {"none", "live", "freed", "leaked"}]
      /\ \A d \in Conns : heap'[d] = IF d = c THEN "freed" ELSE heap[d]
  BY <1>1, <1>6 DEF IInv, Types
<1> HIDE DEF new, fd, c
<1>8. TableMatchesKernel'
  BY <1>1, <1>4, <1>5, <1>6, <1>7 DEF IInv, TableMatchesKernel
<1>9. Ownership'
  <2>1. \A f \in Fds : owner'[f] = Server <=> f = Listener
    BY <1>1, <1>7, ListenerFd DEF IInv, Ownership
  <2>2. \A f \in Fds : owner'[f] \in Conns =>
          /\ heap'[owner'[f]] = "live"
          /\ events'[f].data = owner'[f]
          /\ "read" \in events'[f].mask
    BY <1>1, <1>4, <1>7, ListenerFd DEF IInv, Ownership
  <2>3. \A f, g \in Fds : owner'[f] = owner'[g] /\ owner'[f] \in Conns => f = g
    BY <1>1, <1>7, ListenerFd DEF IInv, Ownership
  <2>4. \A d \in Conns : heap'[d] = "live" => \E f \in Fds : owner'[f] = d
    BY <1>1, <1>7 DEF IInv, Ownership
  <2>5. \A d \in Conns : d > accepted' => heap'[d] = "none"
    BY <1>1, <1>7 DEF IInv, Ownership
  <2> QED BY <2>1, <2>2, <2>3, <2>4, <2>5 DEF Ownership
<1> QED BY <1>1, <1>4, <1>6, <1>7, <1>8, <1>9 DEF IInv, Types, fd

(* accept() hands out a descriptor nothing is registered for, to a         *)
(* connection that has none yet.                                           *)
LEMMA AcceptKeeps ==
  ASSUME IInv, AcceptOne
  PROVE  IInv'
<1> DEFINE c == accepted + 1
<1>1. /\ pc = "accept" /\ accepted' = c /\ arrived' = arrived /\ cur' = cur
      /\ fired' = fired /\ i' = i
  BY DEF AcceptOne, loopVars
<1>2. c \in Conns /\ c <= arrived /\ c \in Nat /\ accepted \in Nat
  BY LoopAssumption DEF AcceptOne, IInv, Types, Conns
<1>3. heap[c] = "none"
  BY <1>2 DEF IInv, Ownership, Conns
<1>4. \A f \in Fds : owner[f] # c
  BY <1>2, <1>3 DEF IInv, Ownership
<1>5. pc' \in {"accept", "undefined"}
  BY <1>1 DEF AcceptOne
<1>6. CallbackOnLiveClient'
  BY <1>5 DEF CallbackOnLiveClient
<1>7. PICK f \in Free :
        \/ /\ owner' = [owner EXCEPT ![f] = c]
           /\ heap' = [heap EXCEPT ![c] = "live"]
           /\ RegEvent(f, "read", c)
        \/ /\ heap' = [heap EXCEPT ![c] = "leaked"]
           /\ UNCHANGED <<events, kq, owner>>
        \/ UNCHANGED <<events, kq, owner, heap>>
  BY DEF AcceptOne
<1>8. f \in Fds /\ owner[f] = None /\ events[f].mask = {} /\ f # Listener
  BY <1>7, ListenerFd DEF Free, IInv, TableMatchesKernel, Ownership
<1> HIDE DEF c
<1>9. CASE /\ owner' = [owner EXCEPT ![f] = c]
           /\ heap' = [heap EXCEPT ![c] = "live"]
           /\ RegEvent(f, "read", c)
  <2> DEFINE new == [mask |-> events[f].mask \union {"read"}, data |-> c]
  <2>1. events' = [events EXCEPT ![f] = new] /\ kq' = kq \union {<<f, "read">>}
    BY <1>9 DEF RegEvent, Registered
  <2>2. new \in [mask : SUBSET Kinds, data : Conns \union {Server}]
    BY <1>2, <1>8 DEF Kinds
  <2>3. new.mask = {"read"} /\ new.data = c
    BY <1>8
  <2> HIDE DEF new
  <2>4. /\ events' \in [Fds -> [mask : SUBSET Kinds, data : Conns \union {Server}]]
        /\ \A g \in Fds : events'[g] = IF g = f THEN new ELSE events[g]
    BY <1>8, <2>1, <2>2 DEF IInv, Types
  <2>5. /\ owner' \in [Fds -> Conns \union {Server, None}]
        /\ \A g \in Fds : owner'[g] = IF g = f THEN c ELSE owner[g]
        /\ heap' \in [Conns -> {"none", "live", "freed", "leaked"}]
        /\ \A d \in Conns : heap'[d] = IF d = c THEN "live" ELSE heap[d]
    BY <1>2, <1>8, <1>9 DEF IInv, Types
  <2>6. Types'
    <3>1. kq' \subseteq Fds \X Kinds
      BY <1>8, <2>1 DEF IInv, Types, Kinds
    <3> QED BY <1>1, <1>2, <1>5, <2>4, <2>5, <3>1 DEF IInv, Types
  <2>7. TableMatchesKernel'
    <3>1. \A g \in Fds : \A k \in Kinds : k \in events'[g].mask <=> <<g, k>> \in kq'
      <4> TAKE g \in Fds
      <4> TAKE k \in Kinds
      <4>1. k \in events[g].mask <=> <<g, k>> \in kq
        BY DEF IInv, TableMatchesKernel
      <4>2. <<g, k>> \in kq' <=> <<g, k>> \in kq \/ (g = f /\ k = "read")
        BY <2>1
      <4>3. k \in events'[g].mask <=> k \in events[g].mask \/ (g = f /\ k = "read")
        BY <1>8, <2>3, <2>4
      <4> QED BY <4>1, <4>2, <4>3
    <3>2. \A g \in Fds : owner'[g] = None => events'[g].mask = {}
      BY <1>2, <2>4, <2>5, ListenerFd DEF IInv, TableMatchesKernel
    <3> QED BY <3>1, <3>2 DEF TableMatchesKernel
  <2>8. Ownership'
    <3>1. \A g \in Fds : owner'[g] = Server <=> g = Listener
      BY <1>2, <1>8, <2>5, ListenerFd DEF IInv, Ownership
    <3>2. \A g \in Fds : owner'[g] \in Conns =>
            /\ heap'[owner'[g]] = "live"
            /\ events'[g].data = owner'[g]
            /\ "read" \in events'[g].mask
      <4> SUFFICES ASSUME NEW g \in Fds, owner'[g] \in Conns
                   PROVE  /\ heap'[owner'[g]] = "live"
                          /\ events'[g].data = owner'[g]
                          /\ "read" \in events'[g].mask
        OBVIOUS
      <4>1. CASE g = f
        BY <4>1, <1>2, <1>8, <2>3, <2>4, <2>5
      <4>2. CASE g # f
        <5>1. owner'[g] = owner[g] /\ events'[g] = events[g] /\ owner[g] # c
          BY <4>2, <1>4, <2>4, <2>5
        <5> QED BY <5>1, <2>5 DEF IInv, Ownership
      <4> QED BY <4>1, <4>2
    <3>3. \A g, h \in Fds : owner'[g] = owner'[h] /\ owner'[g] \in Conns => g = h
      BY <1>4, <2>5 DEF IInv, Ownership
    <3>4. \A d \in Conns : heap'[d] = "live" => \E g \in Fds : owner'[g] = d
      BY <1>8, <2>5, ListenerFd DEF IInv, Ownership
    <3>5. \A d \in Conns : d > accepted' => heap'[d] = "none"
      BY <1>1, <1>2, <2>5 DEF IInv, Ownership, Conns, c
    <3> QED BY <3>1, <3>2, <3>3, <3>4, <3>5 DEF Ownership
  <2> QED BY <1>6, <2>6, <2>7, <2>8 DEF IInv
<1>10. CASE /\ heap' = [heap EXCEPT ![c] = "leaked"]
            /\ UNCHANGED <<events, kq, owner>>
  <2>1. /\ heap' \in [Conns -> {"none", "live", "freed", "leaked"}]
        /\ \A d \in Conns : heap'[d] = IF d = c THEN "leaked" ELSE heap[d]
    BY <1>2, <1>10 DEF IInv, Types
  <2>2. Types'
    BY <1>1, <1>2, <1>5, <1>10, <2>1 DEF IInv, Types
  <2>3. TableMatchesKernel'
    BY <1>10 DEF IInv, TableMatchesKernel
  <2>4. \A d \in Conns : d > accepted' => heap'[d] = "none"
    BY <1>1, <1>2, <2>1 DEF IInv, Ownership, Conns, c
  <2>5. Ownership'
    BY <1>3, <1>4, <1>10, <2>1, <2>4 DEF IInv, Ownership
  <2> QED BY <1>6, <2>2, <2>3, <2>5 DEF IInv
<1>11. CASE UNCHANGED <<events, kq, owner, heap>>
  <2>1. Types'
    BY <1>1, <1>2, <1>5, <1>11 DEF IInv, Types
  <2>2. TableMatchesKernel'
    BY <1>11 DEF IInv, TableMatchesKernel
  <2>3. \A d \in Conns : d > accepted' => heap'[d] = "none"
    BY <1>1, <1>2, <1>11 DEF IInv, Ownership, Conns, c
  <2>4. Ownership'
    BY <1>11, <2>3 DEF IInv, Ownership
  <2> QED BY <1>6, <2>1, <2>2, <2>4 DEF IInv
<1> QED BY <1>7, <1>9, <1>10, <1>11

(* What kqueue reports is finite, so a batch is a sequence.                *)
LEMMA BatchType ==
  ASSUME IInv, evApiPool
  PROVE  fired' \in Seq(Fds \X Kinds)
<1>1. Ready \subseteq Fds \X Kinds
  BY DEF Ready, IInv, Types
<1>2. IsFiniteSet(Fds) /\ IsFiniteSet(Kinds)
  <2>1. IsFiniteSet(Fds)
    BY LoopAssumption, FS_Interval DEF Fds
  <2>2. IsFiniteSet({"read"}) /\ IsFiniteSet({"read"} \union {"write"})
    BY FS_Singleton, FS_AddElement, FS_EmptySet
  <2> QED BY <2>1, <2>2 DEF Kinds
<1>3. IsFiniteSet(Ready)
  BY <1>1, <1>2, FS_Product, FS_Subset
<1>4. Cardinality(Ready) \in Nat
  BY <1>3, FS_CardinalityType
<1>5. fired' \in [1..Cardinality(Ready) -> Ready]
  BY DEF evApiPool
<1>6. fired' \in [1..Cardinality(Ready) -> Fds \X Kinds]
  BY <1>1, <1>5
<1> QED BY <1>4, <1>6

(* A callback is chosen by a descriptor's entry in the driver's table.     *)
LEMMA DispatchKeeps ==
  ASSUME IInv, Dispatch
  PROVE  IInv'
<1> DEFINE f == Entry[1]
           k == Entry[2]
<1>1. f \in Fds /\ k \in Kinds
  <2>1. fired \in Seq(Fds \X Kinds) /\ 1 <= Len(fired)
    BY DEF IInv, Types, Dispatch
  <2>2. fired[1] \in Fds \X Kinds
    BY <2>1
  <2> QED BY <2>2 DEF Entry
<1>2. TableMatchesKernel' /\ Ownership'
  BY FrameKeeps DEF Dispatch
<1>3. CASE k \in events[f].mask
  <2>1. pc' = Callback(f, k) /\ cur' = [fd |-> f, data |-> events[f].data]
    BY <1>3 DEF Dispatch
  <2>2. owner[f] # None
    BY <1>1, <1>3 DEF IInv, TableMatchesKernel
  <2>3. owner[f] = Server <=> f = Listener
    BY <1>1 DEF IInv, Ownership
  <2> HIDE DEF f, k
  <2>4. pc' \in {"accept", "read", "write"} /\ (pc' = "accept" <=> f = Listener)
    BY <1>1, <2>1 DEF Callback, Kinds
  <2>5. /\ cur'.fd = f /\ cur'.data = events[f].data
        /\ cur' \in [fd : Fds, data : Conns \union {Server}]
    BY <1>1, <2>1 DEF IInv, Types
  <2>6. f # Listener => /\ owner[f] \in Conns /\ heap[owner[f]] = "live"
                       /\ events[f].data = owner[f]
    BY <1>1, <2>2, <2>3 DEF IInv, Types, Ownership
  <2>7. CallbackOnLiveClient'
    BY <2>4, <2>5, <2>6 DEF CallbackOnLiveClient, Dispatch
  <2>8. Types'
    BY <2>4, <2>5 DEF IInv, Types, Dispatch
  <2> QED BY <1>2, <2>7, <2>8 DEF IInv
<1>4. CASE k \notin events[f].mask
  <2>1. pc' = pc /\ cur' = cur /\ pc = "dispatch"
    BY <1>4 DEF Dispatch
  <2>2. Types' /\ CallbackOnLiveClient'
    BY <2>1 DEF IInv, Types, CallbackOnLiveClient, Dispatch
  <2> QED BY <1>2, <2>2 DEF IInv
<1> QED BY <1>3, <1>4

(* A callback ends and the dispatch loop goes on.                          *)
LEMMA ReadKeeps ==
  ASSUME IInv, ReadCallback
  PROVE  IInv'
<1>1. /\ pc = "read" /\ pc' = "dispatch" /\ cur' = cur /\ fired' = fired /\ i' = i
      /\ accepted' = accepted /\ arrived' = arrived
  BY DEF ReadCallback, loopVars
<1>2. CallbackOnLiveClient'
  BY <1>1 DEF CallbackOnLiveClient
<1>3. CASE UNCHANGED <<events, kq, owner, heap>>
  <2>1. Types'
    BY <1>1, <1>3 DEF IInv, Types
  <2> QED BY <1>1, <1>2, <1>3, <2>1, FrameKeeps DEF IInv
<1>4. CASE clientFree
  BY <1>1, <1>2, <1>4, FreeKeeps DEF IInv, Types
<1>5. ASSUME NEW n \in Nat, replied(n) PROVE IInv'
  <2>1. owner' = owner /\ heap' = heap
    BY <1>5 DEF replied
  <2> QED BY <1>1, <1>2, <1>5, <2>1, RepliedKeeps DEF IInv, Types
<1>6. \/ UNCHANGED <<events, kq, owner, heap>>
      \/ clientFree
      \/ \E n \in Nat : replied(n)
  <2>1. \A n \in 0..MaxPending : n \in Nat
    BY LoopAssumption
  <2>2. \A n \in 1..MaxPending : n \in Nat
    BY LoopAssumption
  <2> QED BY <2>1, <2>2 DEF ReadCallback
<1> QED BY <1>3, <1>4, <1>5, <1>6

LEMMA WriteKeeps ==
  ASSUME IInv, WriteCallback
  PROVE  IInv'
<1>1. /\ pc = "write" /\ pc' = "dispatch" /\ cur' = cur /\ fired' = fired /\ i' = i
      /\ accepted' = accepted /\ arrived' = arrived
  BY DEF WriteCallback, loopVars
<1>2. CallbackOnLiveClient'
  BY <1>1 DEF CallbackOnLiveClient
<1>3. CASE clientFree
  BY <1>1, <1>2, <1>3, FreeKeeps DEF IInv, Types
<1>4. ASSUME NEW n, replied(n) PROVE IInv'
  <2>1. owner' = owner /\ heap' = heap
    BY <1>4 DEF replied
  <2> QED BY <1>1, <1>2, <1>4, <2>1, RepliedKeeps DEF IInv, Types
<1>5. clientFree \/ \E n : replied(n)
  BY DEF WriteCallback
<1> QED BY <1>3, <1>4, <1>5

LEMMA IInvNext == IInv /\ [Next]_vars => IInv'
<1> SUFFICES ASSUME IInv, [Next]_vars PROVE IInv'
  OBVIOUS
<1>1. CASE Connect
  <2>1. arrived' \in 0..NumConns /\ accepted <= arrived'
    BY <1>1, LoopAssumption DEF Connect, IInv, Types
  <2>2. Types' /\ CallbackOnLiveClient'
    BY <1>1, <2>1 DEF Connect, loopVars, IInv, Types, CallbackOnLiveClient
  <2> QED BY <1>1, <2>2, FrameKeeps DEF Connect, IInv
<1>2. CASE Input
  <2>1. Types' /\ CallbackOnLiveClient'
    BY <1>2 DEF Input, loopVars, IInv, Types, CallbackOnLiveClient
  <2> QED BY <1>2, <2>1, FrameKeeps DEF Input, IInv
<1>3. CASE PeerReads
  <2>1. Types' /\ CallbackOnLiveClient'
    BY <1>3 DEF PeerReads, loopVars, IInv, Types, CallbackOnLiveClient
  <2> QED BY <1>3, <2>1, FrameKeeps DEF PeerReads, IInv
<1>4. CASE evApiPool
  <2>1. Types' /\ CallbackOnLiveClient'
    BY <1>4, BatchType DEF evApiPool, IInv, Types, CallbackOnLiveClient
  <2> QED BY <1>4, <2>1, FrameKeeps DEF evApiPool, IInv
<1>5. CASE Dispatch
  BY <1>5, DispatchKeeps
<1>6. CASE BatchDone
  <2>1. Types' /\ CallbackOnLiveClient'
    BY <1>6 DEF BatchDone, IInv, Types, CallbackOnLiveClient
  <2> QED BY <1>6, <2>1, FrameKeeps DEF BatchDone, IInv
<1>7. CASE AcceptOne
  BY <1>7, AcceptKeeps
<1>8. CASE AcceptNone
  <2>1. Types' /\ CallbackOnLiveClient'
    BY <1>8 DEF AcceptNone, loopVars, IInv, Types, CallbackOnLiveClient
  <2> QED BY <1>8, <2>1, FrameKeeps DEF AcceptNone, IInv
<1>9. CASE ReadCallback
  BY <1>9, ReadKeeps
<1>10. CASE WriteCallback
  BY <1>10, WriteKeeps
<1>11. CASE Stop
  <2>1. Types' /\ CallbackOnLiveClient'
    BY <1>11 DEF Stop, loopVars, IInv, Types, CallbackOnLiveClient
  <2> QED BY <1>11, <2>1, FrameKeeps DEF Stop, IInv
<1>12. CASE UNCHANGED vars
  <2>1. Types' /\ CallbackOnLiveClient'
    BY <1>12 DEF vars, loopVars, IInv, Types, CallbackOnLiveClient
  <2> QED BY <1>12, <2>1, FrameKeeps DEF vars, IInv
<1> QED
  BY <1>1, <1>2, <1>3, <1>4, <1>5, <1>6, <1>7, <1>8, <1>9, <1>10, <1>11, <1>12
     DEF Next, Step

LEMMA IInvHeard == IInv => LiveConnectionsHeard
BY DEF IInv, Ownership, LiveConnectionsHeard

(* The inductive invariant holds in every reachable state.                 *)
THEOREM Invariant == Spec => []IInv
BY IInvInit, IInvNext, PTL DEF Spec

-----------------------------------------------------------------------------
(* What Types leaves out: the sockets and the bounds of the counters.      *)
Sockets ==
  /\ readable \subseteq Conns /\ room \subseteq Conns
  /\ pending \in [Conns -> 0..MaxPending]

LEMMA SocketsInit == Init => Sockets
BY LoopAssumption DEF Init, Sockets

LEMMA CallbackSockets ==
  ASSUME Sockets, cur.data \in Conns,
         \/ clientFree
         \/ \E n \in 0..MaxPending : replied(n)
  PROVE  /\ pending' \in [Conns -> 0..MaxPending]
         /\ room' \subseteq Conns
<1>1. CASE clientFree
  BY <1>1, LoopAssumption DEF clientFree, Sockets
<1>2. CASE \E n \in 0..MaxPending : replied(n)
  BY <1>2 DEF replied, Sockets
<1> QED
  BY <1>1, <1>2

LEMMA SocketsNext == IInv /\ Sockets /\ [Next]_vars => Sockets'
<1> SUFFICES ASSUME IInv, Sockets, [Next]_vars PROVE Sockets'
  OBVIOUS
<1>1. CASE Input
  BY <1>1, LoopAssumption DEF Input, Sockets
<1>2. CASE PeerReads
  BY <1>2 DEF PeerReads, Sockets
<1>3. CASE ReadCallback
  <2>1. cur.data \in Conns
    BY <1>3 DEF ReadCallback, IInv, CallbackOnLiveClient
  <2>2. readable' \subseteq Conns
    BY <1>3 DEF ReadCallback, clientFree, Sockets, socketVars
  <2>3. \/ UNCHANGED <<room, pending>>
        \/ clientFree
        \/ \E n \in 0..MaxPending : replied(n)
        \/ /\ \E n \in 1..MaxPending : pending' = [pending EXCEPT ![cur.data] = n]
           /\ room' = room \ {cur.data}
    <3>1. \A n \in 1..MaxPending : n \in 0..MaxPending
      BY LoopAssumption
    <3> QED BY <1>3, <3>1 DEF ReadCallback, socketVars
  <2>4. pending' \in [Conns -> 0..MaxPending] /\ room' \subseteq Conns
    BY <2>1, <2>3, CallbackSockets, LoopAssumption DEF Sockets
  <2> QED BY <2>1, <2>2, <2>4 DEF Sockets
<1>4. CASE WriteCallback
  <2>1. cur.data \in Conns
    BY <1>4 DEF WriteCallback, IInv, CallbackOnLiveClient
  <2>2. readable' \subseteq Conns
    BY <1>4 DEF WriteCallback, clientFree, Sockets
  <2>3. clientFree \/ \E n \in 0..MaxPending : replied(n)
    BY <1>4, <2>1 DEF WriteCallback, Sockets
  <2>4. pending' \in [Conns -> 0..MaxPending] /\ room' \subseteq Conns
    BY <2>1, <2>3, CallbackSockets
  <2> QED BY <2>1, <2>2, <2>4 DEF Sockets
<1>5. CASE \/ Connect \/ evApiPool \/ Dispatch \/ BatchDone
           \/ AcceptOne \/ AcceptNone \/ Stop \/ UNCHANGED vars
  <2>1. UNCHANGED <<readable, room, pending>>
    BY <1>5 DEF Stop, Connect, evApiPool, Dispatch, BatchDone, AcceptOne, AcceptNone,
                vars, socketVars
  <2> QED BY <2>1 DEF Sockets
<1> QED
  BY <1>1, <1>2, <1>3, <1>4, <1>5 DEF Next, Step

LEMMA TypesAreType == IInv /\ Sockets => TypeOK
<1> SUFFICES ASSUME IInv, Sockets PROVE TypeOK
  OBVIOUS
<1>1. accepted \in 0..NumConns
  BY LoopAssumption DEF IInv, Types
<1>2. \A n \in DOMAIN fired : fired[n] \in Fds \X Kinds
  BY DEF IInv, Types
<1> QED
  BY <1>1, <1>2 DEF IInv, Types, Sockets, TypeOK, Points

(* The driver's table, the batch, the descriptors and the counters keep    *)
(* their types; no callback leaves more to write than there may be.        *)
THEOREM TypeCorrect == Spec => []TypeOK
<1>1. IInv /\ Sockets /\ [Next]_vars => Sockets'
  BY SocketsNext
<1> QED
  BY <1>1, SocketsInit, Invariant, TypesAreType, PTL DEF Spec
-----------------------------------------------------------------------------
(* No callback runs on a client_t that has been freed, whatever was freed  *)
(* or accepted earlier in the batch (driverProcessEvents, clientFree).     *)
THEOREM CallbackSafe == Spec => []CallbackOnLiveClient
<1>1. IInv => CallbackOnLiveClient
  BY DEF IInv
<1> QED BY <1>1, Invariant, PTL

(* The driver's table and kqueue's filters never disagree                  *)
(* (driverRegEvent, driverDelEvent, clientFree).                           *)
THEOREM TablesAgree == Spec => []TableMatchesKernel
<1>1. IInv => TableMatchesKernel
  BY DEF IInv
<1> QED BY <1>1, Invariant, PTL

(* A connection that is live is listened to on exactly one descriptor, and *)
(* only a live one is.                                                     *)
THEOREM ConnectionsHeard == Spec => []LiveConnectionsHeard
BY Invariant, IInvHeard, PTL
=============================================================================
