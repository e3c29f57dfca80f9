---------------------------- MODULE FreedbProofs ----------------------------
(***************************************************************************)
(* Freedb implements the service of KVService, for all sets of programs,   *)
(* items, lines, keys and values: the refinement that TLC checks on a      *)
(* small instance.                                                         *)
(***************************************************************************)
EXTENDS Freedb, TLAPS

(* The items a program can have sent.                                      *)
Sendable ==
  Items \union {LineItem(line) : line \in Lines} \union {LineItem(<<>>), Scalar}

Shapes ==
  /\ serving \in Users \union {Nobody}
  /\ link \in [Users -> {"none", "open", "shut"}]
  /\ inbox \subseteq Users
  /\ pos \in [Users -> Nat]
  /\ outbox \in [Users -> Seq(Replies)]
  /\ user \in [Users -> {"out", "idle", "waiting", "left", "stuck"}]
  /\ asked \in [Users -> Sendable]
  /\ ret \in Results
  /\ disk \in Contents

(* Of the replies to a program only the last may be the fragment that      *)
(* replyErrorAndClose sends, and then its connection is at its end.        *)
Outgoing(u) ==
  /\ Len(outbox[u]) \in 0..2
  /\ Len(outbox[u]) = 2 => outbox[u][2] = Fragment /\ link[u] # "open"
  /\ link[u] = "open" /\ outbox[u] # <<>> => HasReply(u)
  /\ user[u] = "idle" => ~HasReply(u)

(* A request the server has and did not answer: nothing else is under way  *)
(* on its connection.                                                      *)
Held(u) ==
  u \in inbox \/ serving = u =>
    user[u] \in {"waiting", "left"} /\ outbox[u] = <<>>

(* A connection, which keeps to the two above while it is not astray.      *)
Connection(u) ==
  /\ ~Astray(u) => Held(u) /\ Outgoing(u)
  /\ u \in inbox \/ serving = u => link[u] = "open"
  /\ user[u] = "out" => outbox[u] = <<>> /\ link[u] = "none" /\ pos[u] = 0

(* The engine works for the program that is being served, on its request.  *)
Working ==
  /\ serving \notin inbox
  /\ pc = "idle" <=> serving = Nobody
  /\ pc \notin {"idle", "undefined"} =>
       Accepted(asked[serving]) /\ call = Meaning(asked[serving])
  /\ pc = "op" => work = disk
  /\ pc = "commit" => call.op = "set" /\ work = Effect(disk, call)

Inv == Shapes /\ Working /\ \A u \in Users : Connection(u)

(* An accepted request is a call of the engine.                            *)
LEMMA AcceptedCalls ==
  ASSUME NEW item \in Sendable, Accepted(item)
  PROVE  Meaning(item) \in Calls
<1>1. item # Scalar
  BY DEF Accepted, Named, Scalar
<1>2. item # LineItem(<<>>)
  BY DEF Accepted, LineItem, Array
<1> QED
  BY <1>1, <1>2, ServiceAssumption DEF Sendable

LEMMA CallOps ==
  ASSUME NEW c \in Calls
  PROVE  /\ c.op \in {"set", "get"}
         /\ c.key \in Keys
         /\ c.op = "set" => c.val \in Values
BY FreedbAssumption DEF Calls

LEMMA Words ==
  /\ OK \in Results /\ Err \in Results
  /\ Fragment \notin Results
  /\ Err # Fragment /\ OK # Fragment
BY DEF OK, Err, Results, Fragment

(* Freedb, Engine and KVService share the vocabulary of StoreInterface.    *)
LEMMA Vocabulary ==
  /\ E!OK = OK /\ E!Err = Err /\ E!Calls = Calls /\ E!Empty = Empty
  /\ S!OK = OK /\ S!Err = Err /\ S!Calls = Calls /\ S!Empty = Empty
  /\ \A s, c : S!Effect(s, c) = Effect(s, c)
BY DEF E!OK, OK, E!Err, Err, E!Calls, Calls, E!Empty, S!OK, S!Err, S!Calls,
       S!Empty, Empty, S!Effect, Effect

LEMMA InvInit == Init => Inv
<1> SUFFICES ASSUME Init PROVE Inv
  OBVIOUS
<1> USE DEF Init
<1>1. Shapes
  BY Words, Vocabulary DEF Shapes, Sendable, E!Init, Empty, Contents
<1>2. Working
  BY DEF Working, E!Init
<1>3. ASSUME NEW u \in Users PROVE Connection(u)
  BY ServiceAssumption DEF Connection, Held, Outgoing, HasReply
<1> QED
  BY <1>1, <1>2, <1>3 DEF Inv

-----------------------------------------------------------------------------
(* The request in progress is a call of the engine.                        *)
LEMMA InProgress ==
  ASSUME Inv, pc \notin {"idle", "undefined"}
  PROVE  /\ serving \in Users /\ Accepted(asked[serving])
         /\ call = Meaning(asked[serving]) /\ call \in Calls
<1>1. serving \in Users /\ asked[serving] \in Sendable
  BY DEF Inv, Shapes, Working
<1> QED
  BY <1>1, AcceptedCalls DEF Inv, Working

(* What one LMDB call, and the code up to the next one, can do: nothing    *)
(* the programs see, or bring the function to its return.                  *)
Quietly == pc' # "return" /\ disk' = disk
Read == /\ call.op = "get" /\ disk[call.key] # NoValue /\ disk' = disk
          /\ ret' = [code |-> "ok", val |-> disk[call.key]]
Stored == call.op = "set" /\ disk' = Effect(disk, call) /\ ret' = OK
Failed == disk' = disk /\ ret' = Err

LEMMA EngineSteps ==
  ASSUME Engine, Inv
  PROVE  /\ UNCHANGED <<connVars, userVars>>
         /\ pc \notin {"idle", "undefined", "return"} /\ pc' # "idle" /\ call' = call
         /\ ret' \in Results /\ disk' \in Contents
         /\ pc' = "op" => work' = disk'
         /\ pc' = "commit" => call.op = "set" /\ work' = Effect(disk', call)
         /\ Quietly \/ (pc' = "return" /\ (Read \/ Stored \/ Failed))
<1>1. /\ pc # "return" /\ E!Step /\ UNCHANGED <<connVars, userVars>>
  BY DEF Engine
<1>2. pc \notin {"idle", "undefined"}
  BY <1>1 DEF E!Step, E!TxnBegin, E!OpFails, E!Put, E!Get, E!Del, E!Drop, E!Commit,
              E!Exit, E!Return
<1>3. call \in Calls /\ call.op \in {"set", "get"} /\ call.key \in Keys
      /\ (call.op = "set" => call.val \in Values)
  BY <1>2, InProgress, CallOps
<1>4. /\ pc = "op" => work = disk
      /\ pc = "commit" => call.op = "set" /\ work = Effect(disk, call)
      /\ disk \in Contents /\ ret \in Results
  BY DEF Inv, Working, Shapes
<1>5. call.op = "set" => Effect(disk, call) = [disk EXCEPT ![call.key] = call.val]
                         /\ Effect(disk, call) \in Contents
  BY <1>3, <1>4 DEF Effect, Contents
<1> USE <1>1, <1>2, <1>4 DEF Quietly, Failed
<1>6. CASE E!TxnBegin
  BY <1>6 DEF E!TxnBegin
<1>7. CASE E!OpFails
  BY <1>7 DEF E!OpFails
<1>8. CASE E!Put
  BY <1>8, <1>5 DEF E!Put
<1>9. CASE E!Get
  <2>1. disk[call.key] \in Values \union {NoValue}
    BY <1>3 DEF Contents
  <2> QED
    BY <1>9, <2>1 DEF E!Get, Read, Results
<1>10. CASE E!Del \/ E!Drop
  BY <1>10, <1>3 DEF E!Del, E!Drop
<1>11. CASE E!Commit
  BY <1>11, <1>5, Words, Vocabulary DEF E!Commit, Stored
<1>12. CASE E!Exit
  BY <1>12, <1>3, Words, Vocabulary DEF E!Exit, E!SilentOps
<1> QED
  BY <1>6, <1>7, <1>8, <1>9, <1>10, <1>11, <1>12 DEF E!Step, E!Return
-----------------------------------------------------------------------------
(* Sending to a program, and to one that has nothing to read yet.          *)
LEMMA Sends ==
  ASSUME Shapes, NEW u \in Users, NEW replies \in Seq(Replies), Sending(u, replies)
  PROVE  /\ outbox' \in [Users -> Seq(Replies)]
         /\ outbox[u] = <<>> =>
              outbox'[u] = IF user[u] = "waiting" THEN replies ELSE <<>>
         /\ user[u] = "out" => outbox' = outbox
         /\ \A v \in Users \ {u} : outbox'[v] = outbox[v]
<1>1. <<>> \o replies = replies
  OBVIOUS
<1>2. outbox[u] \o replies \in Seq(Replies)
  BY DEF Shapes
<1> QED
  BY <1>1, <1>2 DEF Shapes, Sending

(* What the parser takes moves the connection's position, and no other.    *)
LEMMA Moves ==
  ASSUME Shapes, NEW u \in Users, Parses(u)
  PROVE  /\ pos' \in [Users -> Nat]
         /\ Astray(u) => Astray(u)'
         /\ \A v \in Users \ {u} : pos'[v] = pos[v]
<1>1. PICK n \in Lengths[u] : pos' = [pos EXCEPT ![u] = @ + n]
  BY DEF Parses
<1>2. n \in Nat /\ CompactAt \in Nat
  BY FreedbAssumption
<1> QED
  BY <1>1, <1>2 DEF Shapes, Astray

(* Taking n replies.                                                       *)
LEMMA Taking ==
  ASSUME NEW s \in Seq(Replies), NEW n \in 1..Len(s)
  PROVE  LET rest == SubSeq(s, n + 1, Len(s))
         IN  /\ rest \in Seq(Replies)
             /\ Len(s) \in 0..2 /\ rest # <<>> =>
                  Len(s) = 2 /\ Len(rest) = 1 /\ rest[1] = s[2]
<1>1. SubSeq(s, n + 1, Len(s)) = [i \in 1..(Len(s) - n) |-> s[n + i]]
  BY DEF SubSeq
<1> DEFINE rest == SubSeq(s, n + 1, Len(s))
<1>2. rest \in Seq(Replies) /\ Len(rest) = Len(s) - n
  OBVIOUS
<1>3. ASSUME Len(s) \in 0..2, rest # <<>>
      PROVE  Len(s) = 2 /\ Len(rest) = 1 /\ rest[1] = s[2]
  <2>1. Len(rest) # 0
    BY <1>2, <1>3
  <2> QED
    BY <1>2, <1>3, <2>1
<1> QED
  BY <1>2, <1>3

LEMMA ReplySequences ==
  /\ \A s \in {<<Err>>, <<Err, Fragment>>, <<Fragment>>} : s \in Seq(Replies)
  /\ \A r \in Results : <<r>> \in Seq(Replies)
BY Words DEF Replies

(* Each action preserves the shapes ...                                    *)
LEMMA ShapesNext == Inv /\ [Next]_vars => Shapes'
<1> SUFFICES ASSUME Inv, [Next]_vars PROVE Shapes'
  OBVIOUS
<1>1. Shapes
  BY DEF Inv
<1> USE DEF engineVars, connVars, userVars
<1>2. CASE OpenEngine \/ Listen \/ Crash
  BY <1>1, <1>2 DEF Shapes, OpenEngine, Listen, Crash, E!Open, E!Crash
<1>3. CASE Engine
  BY <1>1, <1>3, EngineSteps DEF Shapes
<1>4. CASE Finish
  <2>1. /\ pc = "return" /\ UNCHANGED <<link, inbox, pos, user, asked, ret, disk>>
        /\ serving' = Nobody /\ Sending(serving, <<ret>>)
    BY <1>4 DEF Finish, E!Return, ReplyTo
  <2>2. serving \in Users
    BY <2>1, InProgress
  <2>3. outbox' \in [Users -> Seq(Replies)]
    BY <1>1, <2>1, <2>2, Sends, ReplySequences DEF Shapes
  <2> QED
    BY <1>1, <2>1, <2>3 DEF Shapes
<1>5. ASSUME NEW u \in Users, Connect(u) \/ Leave(u) \/ End(u) \/ TornRead(u)
      PROVE  Shapes'
  <2>1. Scalar \in Sendable /\ <<>> \in Seq(Replies)
    BY DEF Sendable
  <2>2. /\ link' \in [Users -> {"none", "open", "shut"}]
        /\ outbox' \in [Users -> Seq(Replies)]
        /\ user' \in [Users -> {"out", "idle", "waiting", "left", "stuck"}]
    BY <1>1, <1>5, <2>1 DEF Shapes, Connect, Leave, End, TornRead
  <2>4. pos' \in [Users -> Nat]
    <3>1. pos' = pos \/ pos' = [pos EXCEPT ![u] = 0]
      BY <1>5 DEF Connect, Leave, End, TornRead
    <3>2. pos \in [Users -> Nat]
      BY <1>1 DEF Shapes
    <3> QED
      BY <3>1, <3>2
  <2>3. asked' \in [Users -> Sendable]
    BY <1>1, <1>5, <2>1 DEF Shapes, Connect, Leave, End, TornRead
  <2> QED
    BY <1>1, <1>5, <2>2, <2>3, <2>4 DEF Shapes, Connect, Leave, End, TornRead
<1>6. ASSUME NEW u \in Users, Send(u) PROVE Shapes'
  <2>1. Requests(u) \subseteq Sendable
    BY DEF Requests, Sendable
  <2> QED
    BY <1>1, <1>6, <2>1 DEF Shapes, Send
<1>7. ASSUME NEW u \in Users, Receive(u) PROVE Shapes'
  <2>1. PICK n \in 1..Len(outbox[u]) :
          outbox' = [outbox EXCEPT ![u] = SubSeq(@, n + 1, Len(@))]
    BY <1>7 DEF Receive
  <2>2. outbox' \in [Users -> Seq(Replies)]
    BY <1>1, <2>1, Taking DEF Shapes
  <2> QED
    BY <1>1, <1>7, <2>2 DEF Shapes, Receive, Sendable
<1>8. ASSUME NEW u \in Users, Reject(u) \/ BadArguments(u) \/ Unreadable(u) PROVE Shapes'
  <2>1. pos' \in [Users -> Nat]
    BY <1>1, <1>8, Moves DEF Shapes, Reject, BadArguments, Takes, Unreadable
  <2>2. outbox' \in [Users -> Seq(Replies)]
    BY <1>1, <1>8, Sends, ReplySequences DEF Reject, BadArguments, Unreadable
  <2> QED
    BY <1>1, <1>8, <2>1, <2>2 DEF Shapes, Reject, BadArguments, Takes, Unreadable
<1>9. ASSUME NEW u \in Users, Derail(u) \/ CallEngine(u) \/ CutShort(u) PROVE Shapes'
  <2>1. pos' \in [Users -> Nat]
    BY <1>1, <1>9, Moves DEF Derail, CallEngine, CutShort, Takes
  <2> QED
    BY <1>1, <1>9, <2>1 DEF Shapes, Derail, CallEngine, CutShort, Takes, E!Invoke
<1>11. ASSUME NEW u \in Users, Misread(u) PROVE Shapes'
  BY <1>1, <1>11 DEF Shapes, Misread, Sendable
<1>10. CASE UNCHANGED vars
  BY <1>1, <1>10 DEF vars, Shapes
<1> QED
  BY <1>2, <1>3, <1>4, <1>5, <1>6, <1>7, <1>8, <1>9, <1>10, <1>11 DEF Next

(* ... what is said of the program being served ...                        *)
LEMMA WorkingNext == Inv /\ [Next]_vars => Working'
<1> SUFFICES ASSUME Inv, [Next]_vars PROVE Working'
  OBVIOUS
<1>1. Shapes /\ Working /\ \A u \in Users : Connection(u)
  BY DEF Inv
<1> USE DEF engineVars, connVars, userVars
<1>2. CASE OpenEngine \/ Listen
  BY <1>1, <1>2 DEF Working, OpenEngine, Listen, E!Open
<1>3. CASE Crash
  BY <1>3 DEF Working, Crash, E!Crash
<1>4. CASE Engine
  <2>1. call = Meaning(asked[serving]) /\ Accepted(asked[serving])
    BY <1>4, EngineSteps, InProgress
  <2> QED
    BY <1>1, <1>4, <2>1, EngineSteps DEF Working
<1>5. CASE Finish
  BY <1>1, <1>5, ServiceAssumption DEF Working, Finish, E!Return, Shapes
<1>6. ASSUME NEW u \in Users, Connect(u) \/ Leave(u) \/ TornRead(u) PROVE Working'
  BY <1>1, <1>6 DEF Working, Connect, Leave, TornRead
<1>7. ASSUME NEW u \in Users, Send(u) \/ Receive(u) \/ End(u) PROVE Working'
  <2>1. serving # u \/ UNCHANGED <<asked, inbox>>
    BY <1>1, <1>7, ServiceAssumption DEF Connection, Held, Send, Receive, End, HasReply
  <2>2. serving # Nobody => asked'[serving] = asked[serving]
    BY <1>1, <1>7, <2>1 DEF Shapes, Send, Receive, End
  <2>3. serving' = serving /\ serving \notin inbox'
    BY <1>1, <1>7, <2>1 DEF Working, Send, Receive, End
  <2> QED
    BY <1>1, <1>7, <2>2, <2>3 DEF Working, Send, Receive, End
<1>8. ASSUME NEW u \in Users, Reject(u) \/ BadArguments(u) \/ CutShort(u) \/ Unreadable(u)
      PROVE  Working'
  BY <1>1, <1>8 DEF Working, Reject, BadArguments, CutShort, Unreadable, Takes
<1>9. ASSUME NEW u \in Users, Derail(u) \/ CallEngine(u) PROVE Working'
  BY <1>1, <1>9, ServiceAssumption DEF Working, Derail, CallEngine, Takes, Ready, E!Invoke
<1>11. ASSUME NEW u \in Users, Misread(u) PROVE Working'
  BY <1>1, <1>11, ServiceAssumption DEF Working, Misread, Ready
<1>10. CASE UNCHANGED vars
  BY <1>1, <1>10 DEF vars, Working
<1> QED
  BY <1>2, <1>3, <1>4, <1>5, <1>6, <1>7, <1>8, <1>9, <1>10, <1>11 DEF Next

(* A connection that only loses what it has before the server.             *)
LEMMA Untouched ==
  ASSUME NEW v, Connection(v), UNCHANGED <<link[v], outbox[v], user[v], pos[v]>>,
         v \in inbox' => v \in inbox,
         serving' = v => serving = v \/ v \in inbox
  PROVE  Connection(v)'
BY DEF Connection, Astray, Held, Outgoing, HasReply

(* A request that was taken up, and not yet replied to.                    *)
LEMMA NothingToRead ==
  ASSUME NEW u \in Users, Connection(u), ~Astray(u), u \in inbox \/ serving = u
  PROVE  user[u] \in {"waiting", "left"} /\ outbox[u] = <<>>
BY DEF Connection, Held

(* ... and of each connection.                                             *)
LEMMA ConnectionsNext ==
  Inv /\ [Next]_vars => \A v \in Users : Connection(v)'
<1> SUFFICES ASSUME Inv, [Next]_vars, NEW v \in Users PROVE Connection(v)'
  OBVIOUS
<1>1. Shapes /\ Working /\ Connection(v)
  BY DEF Inv
<1>2. v # Nobody
  BY ServiceAssumption
<1> USE DEF engineVars, connVars, userVars
<1>3. CASE OpenEngine \/ Listen \/ Engine \/ UNCHANGED vars
  BY <1>1, <1>3, EngineSteps, Untouched DEF OpenEngine, Listen, vars
<1>4. CASE Crash
  BY <1>1, <1>2, <1>4 DEF Connection, Astray, Held, Outgoing, HasReply, Crash, Shapes
<1>5. CASE Finish
  <2>1. /\ pc = "return" /\ UNCHANGED <<link, inbox, pos, user>>
        /\ serving' = Nobody /\ Sending(serving, <<ret>>)
    BY <1>5 DEF Finish, E!Return, ReplyTo
  <2>2. serving \in Users /\ Connection(serving) /\ <<ret>> \in Seq(Replies)
        /\ ret # Fragment /\ serving \notin inbox
    BY <1>1, <2>1, InProgress, ReplySequences, Words DEF Inv, Shapes, Working
  <2>3. CASE v # serving
    <3>1. outbox'[v] = outbox[v]
      BY <1>1, <2>1, <2>2, <2>3, Sends
    <3> QED
      BY <1>1, <1>2, <2>1, <3>1, Untouched
  <2>4. CASE v = serving
    <3>1. CASE Astray(v)
      BY <1>1, <1>2, <2>1, <2>2, <2>4, <3>1, Sends DEF Connection, Astray
    <3>2. CASE ~Astray(v)
      <4>1. /\ outbox[v] = <<>> /\ user'[v] \in {"waiting", "left"} /\ link'[v] = "open"
            /\ v \notin inbox' /\ serving' # v
        BY <1>1, <1>2, <2>1, <2>2, <2>4, <3>2, NothingToRead DEF Connection
      <4>2. outbox'[v] \in {<<>>, <<ret>>}
        BY <1>1, <2>1, <2>2, <2>4, <4>1, Sends
      <4>3. Len(outbox'[v]) \in 0..1 /\ (outbox'[v] # <<>> => outbox'[v][1] # Fragment)
        BY <2>2, <4>2
      <4> QED
        BY <4>1, <4>3 DEF Connection, Held, Outgoing, HasReply
    <3> QED
      BY <3>1, <3>2
  <2> QED
    BY <2>3, <2>4
<1>6. ASSUME NEW u \in Users, v # u,
             \/ Connect(u) \/ Leave(u) \/ TornRead(u) \/ End(u) \/ Send(u) \/ Receive(u)
             \/ Exec(u) \/ CutShort(u) \/ Misread(u) \/ Unreadable(u)
      PROVE  Connection(v)'
  <2>1. UNCHANGED <<link[v], user[v]>> /\ (v \in inbox' => v \in inbox)
    BY <1>1, <1>6
       DEF Shapes, Connect, Leave, TornRead, End, Send, Receive, Exec, Reject, Derail,
           BadArguments, CallEngine, Takes, CutShort, Misread, Unreadable
  <2>2. pos'[v] = pos[v]
    BY <1>1, <1>6, Moves
       DEF Shapes, Connect, Leave, TornRead, End, Send, Receive, Exec, Reject, Derail,
           BadArguments, CallEngine, Takes, CutShort, Misread, Unreadable
  <2>3. outbox'[v] = outbox[v]
    BY <1>1, <1>6
       DEF Shapes, Connect, Leave, TornRead, End, Send, Receive, Exec, Reject, Derail,
           BadArguments, CallEngine, CutShort, Misread, Unreadable, Sending
  <2>4. serving' = v => serving = v
    BY <1>6
       DEF Connect, Leave, TornRead, End, Send, Receive, Exec, Reject, Derail,
           BadArguments, CallEngine, CutShort, Misread, Unreadable
  <2> QED
    BY <1>1, <2>1, <2>2, <2>3, <2>4, Untouched
<1>7. CASE Connect(v) \/ Leave(v) \/ TornRead(v) \/ End(v)
  <2> USE DEF Shapes, Connection, Astray, Held, Outgoing, HasReply
  <2>1. CASE Connect(v)
    BY <1>1, <2>1, FreedbAssumption DEF Connect
  <2>2. CASE Leave(v)
    BY <1>1, <2>2 DEF Leave
  <2>3. CASE TornRead(v)
    BY <1>1, <2>3 DEF TornRead
  <2>4. CASE End(v)
    <3>1. v \notin inbox' /\ serving' # v
      BY <1>1, <1>2, <2>4 DEF End
    <3>2. outbox'[v] = <<>> /\ link'[v] = "none" /\ pos'[v] = 0 /\ user'[v] = "out"
      BY <1>1, <2>4 DEF End
    <3> QED
      BY <3>1, <3>2
  <2> QED
    BY <1>7, <2>1, <2>2, <2>3, <2>4
<1>8. CASE Send(v)
  BY <1>1, <1>8 DEF Shapes, Connection, Astray, Held, Outgoing, HasReply, Send
<1>9. CASE Receive(v)
  <2>1. /\ user[v] = "waiting" /\ user'[v] = "idle" /\ outbox[v] # <<>>
        /\ UNCHANGED <<link, inbox, pos, serving>>
    BY <1>1, <1>9 DEF Receive, Shapes, HasReply
  <2>2. CASE Astray(v)
    BY <1>1, <2>1, <2>2 DEF Connection, Astray
  <2>3. CASE ~Astray(v)
    <3>1. Outgoing(v) /\ v \notin inbox /\ serving # v /\ outbox[v] \in Seq(Replies)
      BY <1>1, <2>1, <2>3 DEF Connection, Held, Shapes
    <3>2. PICK n \in 1..Len(outbox[v]) :
            outbox' = [outbox EXCEPT ![v] = SubSeq(@, n + 1, Len(@))]
      BY <1>9 DEF Receive
    <3>3. outbox'[v] = SubSeq(outbox[v], n + 1, Len(outbox[v]))
      BY <1>1, <3>2 DEF Shapes
    <3>4. outbox'[v] # <<>> => Len(outbox[v]) = 2 /\ Len(outbox'[v]) = 1
                               /\ outbox'[v][1] = outbox[v][2]
      BY <3>1, <3>3, Taking DEF Outgoing
    <3>5. outbox'[v] # <<>> => /\ Len(outbox'[v]) = 1
                               /\ outbox'[v][1] = Fragment /\ link'[v] # "open"
      BY <2>1, <3>1, <3>4 DEF Outgoing
    <3>6. Outgoing(v)'
      BY <3>5 DEF Outgoing, HasReply
    <3> QED
      BY <2>1, <3>1, <3>6 DEF Connection, Held
  <2> QED
    BY <2>2, <2>3
<1>10. CASE Reject(v) \/ BadArguments(v)
  <2>1. v \in inbox /\ serving = Nobody /\ UNCHANGED <<user, serving>>
        /\ inbox' = inbox \ {v} /\ Parses(v) /\ link[v] = "open" /\ user[v] # "out"
    BY <1>1, <1>10 DEF Reject, BadArguments, Takes, Ready, Connection
  <2>2. CASE Astray(v)
    BY <1>1, <1>2, <2>1, <2>2, Moves DEF Connection
  <2>3. CASE ~Astray(v)
    <3>1. outbox[v] = <<>> /\ user[v] \in {"waiting", "left"}
      BY <1>1, <2>1, <2>3, NothingToRead
    <3>2. PICK replies \in {<<Err>>, <<Err, Fragment>>} :
            /\ Sending(v, replies)
            /\ link' = [link EXCEPT ![v] = IF replies = <<Err>> THEN "open" ELSE "shut"]
      <4>1. <<Err>> # <<Err, Fragment>>
        OBVIOUS
      <4>2. BadArguments(v) => link' = [link EXCEPT ![v] = "open"]
        BY <1>1, <2>1 DEF Shapes, BadArguments
      <4> QED
        BY <1>10, <4>1, <4>2 DEF Reject, BadArguments
    <3>3. /\ outbox'[v] \in {<<>>, replies} /\ user'[v] \in {"waiting", "left"}
          /\ link'[v] = IF replies = <<Err>> THEN "open" ELSE "shut"
          /\ v \notin inbox' /\ serving' # v
      BY <1>1, <1>2, <2>1, <3>1, <3>2, Sends, ReplySequences DEF Shapes
    <3>4. /\ Len(<<>>) = 0 /\ Len(<<Err>>) = 1 /\ Len(<<Err, Fragment>>) = 2
          /\ <<Err>>[1] = Err /\ <<Err, Fragment>>[2] = Fragment
      OBVIOUS
    <3> QED
      BY <3>3, <3>4, Words DEF Connection, Held, Outgoing, HasReply
  <2> QED
    BY <2>2, <2>3
<1>11. CASE Derail(v) \/ CallEngine(v) \/ CutShort(v)
  <2>1. /\ UNCHANGED <<link, outbox, user>> /\ v \in inbox /\ v \notin inbox' /\ Parses(v)
        /\ user[v] # "out"
    BY <1>1, <1>11 DEF Derail, CallEngine, CutShort, Takes, Connection
  <2> QED
    BY <1>1, <2>1, Moves DEF Connection, Held, Outgoing, HasReply
<1>12. CASE Misread(v) \/ Unreadable(v)
  <2>1. /\ Astray(v)' /\ UNCHANGED <<user, serving>> /\ link[v] = "open" /\ user[v] # "out"
        /\ serving # v
        /\ v \in inbox' => link'[v] = "open"
    BY <1>1, <1>2, <1>12 DEF Misread, Unreadable, Connection, Ready, Astray
  <2> QED
    BY <2>1 DEF Connection
<1> QED
  BY <1>3, <1>4, <1>5, <1>6, <1>7, <1>8, <1>9, <1>10, <1>11, <1>12 DEF Next, Exec

(* The invariant that the refinement rests on.                             *)
THEOREM Invariance == Spec => []Inv
<1>1. Inv /\ [Next]_vars => Inv'
  BY ShapesNext, WorkingNext, ConnectionsNext DEF Inv
<1> QED
  BY <1>1, InvInit, PTL DEF Spec
-----------------------------------------------------------------------------
(***************************************************************************)
(* The refinement.  A step moves what one program sees, or loses some of   *)
(* the connections, or is not seen at all.                                 *)
(***************************************************************************)
LEMMA OneMoves ==
  ASSUME NEW u \in Users, NEW c, View(u)' = c,
         \A v \in Users \ {u} : View(v)' = View(v)
  PROVE  Views' = [Views EXCEPT ![u] = c]
BY DEF Views

LEMMA SomeLost ==
  ASSUME disk' = disk, \A v \in Users : View(v)' \in {View(v), S!Out}
  PROVE  S!Next
<1> DEFINE gone == {v \in Users : View(v)' = S!Out}
<1>1. Views' = [v \in Users |-> IF v \in gone THEN S!Out ELSE Views[v]]
  BY DEF Views
<1> QED
  BY <1>1 DEF S!Next, S!Lose

(* A connection gets adrift, or what is done in the name of one that is.   *)
LEMMA Drifts ==
  ASSUME disk' = disk, NEW u \in Users, View(u) # S!Out, View(u)' = S!Adrift,
         \A v \in Users \ {u} : View(v)' = View(v)
  PROVE  S!Next
<1>1. Views' = [Views EXCEPT ![u] = S!Adrift] /\ Views[u] # S!Out
  BY OneMoves DEF Views
<1> QED
  BY <1>1 DEF S!Next, S!GoAdrift

LEMMA Strays ==
  ASSUME NEW u \in Users, View(u) = S!Adrift, call \in Calls,
         disk' = Effect(disk, call), \A v \in Users : View(v)' = View(v)
  PROVE  S!Next
<1>1. Views' = Views /\ Views[u] = S!Adrift
  BY DEF Views
<1>2. S!Stray(u)
  BY <1>1, Vocabulary DEF S!Stray
<1> QED
  BY <1>2 DEF S!Next

(* What a program sees depends on its own connection, and on the server    *)
(* while it serves that program.                                           *)
LEMMA Unconcerned ==
  ASSUME NEW v, user'[v] = user[v], link'[v] = link[v], asked'[v] = asked[v],
         outbox'[v] = outbox[v], pos'[v] = pos[v], v \in inbox' <=> v \in inbox,
         \/ serving # v /\ serving' # v
         \/ serving' = serving /\ (pc' = "return" <=> pc = "return")
            /\ (pc = "return" => ret' = ret)
  PROVE  View(v)' = View(v)
BY DEF View, Sight, Astray, HasReply, Unserved

(* The view of a program, by what it waits for.                            *)
Kept(u) ==
  /\ user[u] = "waiting" =>
       /\ HasReply(u) => View(u) = S!Done(outbox[u][1])
       /\ Unserved(u) => View(u) = S!Pending(Intent(asked[u]))
       /\ ~HasReply(u) /\ ~Unserved(u) =>
            View(u) = IF serving = u /\ pc = "return" THEN S!Done(ret) ELSE S!Out
  /\ user[u] = "left" =>
       View(u) = IF Unserved(u) THEN S!Lost(Intent(asked[u])) ELSE S!Out
  /\ user[u] = "idle" => View(u) = IF link[u] = "open" THEN S!Idle ELSE S!Out
  /\ user[u] \in {"out", "stuck"} => View(u) = S!Out

Seen(u) ==
  /\ ~Astray(u) => Kept(u) /\ Held(u) /\ Outgoing(u)
  /\ Astray(u) => View(u) = S!Adrift /\ user[u] # "out"
  /\ Connection(u)

LEMMA WhatIsSeen ==
  ASSUME NEW CONSTANT u \in Users
  PROVE  Inv => Seen(u)
<1> SUFFICES ASSUME Inv PROVE Seen(u)
  OBVIOUS
<1>1. Connection(u)
  BY DEF Inv
<1>2. ASSUME Astray(u) PROVE View(u) = S!Adrift /\ user[u] # "out"
  BY <1>1, <1>2, FreedbAssumption DEF View, Astray, S!Adrift, Connection
<1>3. ASSUME ~Astray(u) PROVE Kept(u)
  <2>1. View(u) = Sight(u)
    BY <1>3 DEF View
  <2>2. Unserved(u) => ~HasReply(u) /\ ~(serving = u /\ pc = "return")
    BY <1>1, <1>3 DEF Inv, Connection, Held, Working, Unserved, HasReply
  <2> USE <2>1 DEF S!Done, S!Pending, S!Lost, S!Idle, S!Out
  <2>3. CASE user[u] = "waiting"
    <3>1. CASE HasReply(u)
      BY <2>2, <2>3, <3>1 DEF Sight, Kept
    <3>2. CASE Unserved(u)
      BY <2>2, <2>3, <3>2 DEF Sight, Kept
    <3>3. CASE ~HasReply(u) /\ ~Unserved(u)
      BY <2>3, <3>3 DEF Sight, Kept
    <3> QED
      BY <3>1, <3>2, <3>3
  <2>4. CASE user[u] = "left"
    BY <2>4 DEF Sight, Kept
  <2>5. CASE user[u] = "idle"
    BY <2>5 DEF Sight, Kept
  <2>6. CASE user[u] \in {"out", "stuck"}
    BY <2>6 DEF Sight, Kept
  <2> QED
    BY <2>3, <2>4, <2>5, <2>6 DEF Inv, Shapes
<1> QED
  BY <1>1, <1>2, <1>3 DEF Seen, Connection

LEMMA WhatIsSeenNext ==
  ASSUME NEW CONSTANT u \in Users
  PROVE  Inv' => Seen(u)'
<1>1. Inv => Seen(u)
  BY WhatIsSeen
<1> QED
  BY <1>1, PTL
-----------------------------------------------------------------------------
(* What the programs do.                                                   *)
LEMMA ProgramSteps ==
  ASSUME Inv, Inv', NEW CONSTANT u \in Users,
         Connect(u) \/ Send(u) \/ Receive(u) \/ TornRead(u) \/ Leave(u) \/ End(u)
  PROVE  S!Next
<1>1. Seen(u) /\ Seen(u)' /\ Shapes
  BY WhatIsSeen, WhatIsSeenNext DEF Inv
<1>2. u # Nobody /\ (u \in inbox => serving # u)
  BY ServiceAssumption DEF Inv, Working
<1>3. /\ UNCHANGED <<disk, pc, ret, serving>>
      /\ \A v \in Users \ {u} : View(v)' = View(v)
  <2> SUFFICES ASSUME NEW v \in Users \ {u}
               PROVE  UNCHANGED <<disk, pc, ret, serving>> /\ View(v)' = View(v)
    BY DEF Connect, Send, Receive, TornRead, Leave, End, engineVars, userVars
  <2> USE <1>1 DEF engineVars, userVars, Shapes
  <2>1. UNCHANGED <<disk, pc, ret, serving>>
    BY DEF Connect, Send, Receive, TornRead, Leave, End
  <2>2. /\ user'[v] = user[v] /\ link'[v] = link[v] /\ asked'[v] = asked[v]
        /\ outbox'[v] = outbox[v] /\ (v \in inbox' <=> v \in inbox)
        /\ pos'[v] = pos[v]
    BY DEF Connect, Send, Receive, TornRead, Leave, End
  <2> QED
    BY <2>1, <2>2, Unconcerned
<1> USE DEF engineVars, userVars
<1>4. CASE View(u)' \in {View(u), S!Out}
  BY <1>3, <1>4, SomeLost
<1>10. CASE End(u)
  <2>1. user'[u] = "out"
    BY <1>1, <1>10 DEF End, Shapes
  <2>2. View(u)' = S!Out
    BY <1>1, <2>1 DEF Seen, Kept
  <2> QED
    BY <1>4, <2>2
<1>11. ~End(u) => (Astray(u)' <=> Astray(u))
  BY DEF Astray, Connect, Send, Receive, TornRead, Leave
<1>12. CASE Astray(u) /\ ~End(u)
  BY <1>1, <1>4, <1>11, <1>12 DEF Seen
<1> SUFFICES ASSUME ~Astray(u), ~End(u) PROVE S!Next
  BY <1>10, <1>12
<1>13. Kept(u) /\ Kept(u)' /\ Held(u) /\ Outgoing(u)
  BY <1>1, <1>11 DEF Seen
<1>5. CASE Connect(u)
  <2>1. View(u) = S!Out
    BY <1>13, <1>5 DEF Kept, Connect
  <2>2. user'[u] = "idle" /\ link'[u] = "open"
    BY <1>1, <1>5 DEF Connect, Shapes
  <2>3. View(u)' = S!Idle
    BY <1>13, <2>2 DEF Kept
  <2> QED
    BY <1>3, <2>1, <2>3, OneMoves DEF S!Next, S!Join, Views
<1>6. CASE Send(u)
  <2>1. /\ user[u] = "idle" /\ user'[u] = "waiting" /\ UNCHANGED <<link, outbox>>
        /\ link[u] = "open" => u \in inbox'
    BY <1>1, <1>6 DEF Send, Shapes
  <2>2. ~HasReply(u) /\ ~HasReply(u)' /\ serving' # u
    BY <1>13, <1>3, <2>1 DEF Outgoing, Held, HasReply
  <2>3. CASE link[u] = "open"
    <3>1. Unserved(u)'
      BY <2>1, <2>3 DEF Unserved
    <3>2. View(u) = S!Idle /\ View(u)' = S!Pending(Intent(asked'[u]))
      BY <1>13, <2>1, <2>3, <3>1 DEF Kept
    <3>3. asked'[u] \in Sendable
      BY DEF Inv, Shapes
    <3>4. Intent(asked'[u]) \in S!Requests
      BY <3>3, AcceptedCalls, Vocabulary DEF Intent, S!Requests
    <3> QED
      BY <1>3, <3>2, <3>4, OneMoves DEF S!Next, S!Submit, Views
  <2>4. CASE link[u] # "open"
    <3>1. ~Unserved(u)'
      BY <2>1, <2>4 DEF Unserved
    <3>2. View(u)' = S!Out
      BY <1>13, <2>1, <2>2, <3>1 DEF Kept
    <3> QED
      BY <1>4, <3>2
  <2> QED
    BY <2>3, <2>4
<1>7. CASE Receive(u)
  <2>1. user[u] = "waiting" /\ HasReply(u) /\ user'[u] = "idle"
    BY <1>1, <1>7 DEF Receive, Shapes
  <2>2. View(u) = S!Done(outbox[u][1]) /\ View(u)' \in {S!Idle, S!Out}
    BY <1>13, <2>1 DEF Kept
  <2>3. Views[u] = S!Done(outbox[u][1]) /\ Views[u].is = "done"
    BY <2>2 DEF Views, S!Done
  <2>4. PICK c \in {S!Idle, S!Out} : View(u)' = c
    BY <2>2
  <2>5. Views' = [Views EXCEPT ![u] = c]
    BY <1>3, <2>4, OneMoves
  <2> QED
    BY <1>3, <2>3, <2>5 DEF S!Next, S!Answer
<1>8. CASE TornRead(u)
  <2>1. /\ user'[u] \in {"left", "stuck"} /\ UNCHANGED <<link, inbox>>
        /\ HasReply(u)
    BY <1>1, <1>8 DEF TornRead, Shapes
  <2>2. ~Unserved(u)'
    BY <1>13, <1>3, <2>1 DEF Held, Unserved, HasReply
  <2>3. View(u)' = S!Out
    BY <1>13, <2>1, <2>2 DEF Kept
  <2> QED
    BY <1>4, <2>3
<1>9. CASE Leave(u)
  <2>1. user'[u] = "left" /\ UNCHANGED <<link, inbox, asked>>
    BY <1>1, <1>9 DEF Leave, Shapes
  <2>2. Unserved(u)' <=> Unserved(u)
    BY <1>3, <2>1 DEF Unserved
  <2>3. CASE user[u] = "waiting" /\ Unserved(u)
    <3>1. /\ View(u) = S!Pending(Intent(asked[u]))
          /\ View(u)' = S!Lost(Intent(asked[u]))
      BY <1>13, <2>1, <2>2, <2>3 DEF Kept
    <3>2. Views[u].is = "pending" /\ Views[u].request = Intent(asked[u])
      BY <3>1 DEF Views, S!Pending
    <3>3. Views' = [Views EXCEPT ![u] = S!Lost(Intent(asked[u]))]
      BY <1>3, <3>1, OneMoves
    <3> QED
      BY <1>3, <3>2, <3>3 DEF S!Next, S!Leave
  <2>4. CASE ~(user[u] = "waiting" /\ Unserved(u))
    <3>1. user[u] \in {"idle", "waiting", "stuck"}
      BY <1>9 DEF Leave
    <3>2. ~Unserved(u)
      BY <1>13, <2>4, <3>1 DEF Held, Unserved
    <3>3. View(u)' = S!Out
      BY <1>13, <2>1, <2>2, <3>2 DEF Kept
    <3> QED
      BY <1>4, <3>3
  <2> QED
    BY <2>3, <2>4
<1> QED
  BY <1>5, <1>6, <1>7, <1>8, <1>9

(* What the server does of its own accord.                                 *)
LEMMA ServerSteps ==
  ASSUME Inv, Inv', OpenEngine \/ Listen \/ Crash
  PROVE  S!Next
<1>1. disk' = disk
  BY DEF OpenEngine, Listen, Crash, E!Open, E!Crash, engineVars
<1>2. ASSUME NEW CONSTANT v \in Users PROVE View(v)' \in {View(v), S!Out}
  <2>1. Seen(v) /\ Seen(v)' /\ Shapes /\ v # Nobody
    BY WhatIsSeen, WhatIsSeenNext, ServiceAssumption DEF Inv
  <2>2. CASE OpenEngine \/ Listen
    <3>1. UNCHANGED <<pc, ret, serving, link, inbox, pos, outbox, user, asked>>
      BY <2>2 DEF OpenEngine, Listen, E!Open, engineVars, connVars, userVars
    <3> QED
      BY <3>1, Unconcerned
  <2>3. CASE Crash
    <3>1. /\ UNCHANGED <<pos, outbox, user, asked>> /\ serving' # v
          /\ link'[v] # "open"
      BY <2>1, <2>3 DEF Crash, userVars, Shapes
    <3>2. ~Unserved(v)' /\ (HasReply(v)' <=> HasReply(v)) /\ (Astray(v)' <=> Astray(v))
      BY <3>1 DEF Unserved, HasReply, Astray
    <3>5. CASE Astray(v)
      BY <2>1, <3>2, <3>5 DEF Seen
    <3>6. CASE ~Astray(v)
      <4>1. Kept(v) /\ Kept(v)'
        BY <2>1, <3>2, <3>6 DEF Seen
      <4>2. CASE user[v] = "waiting" /\ HasReply(v)
        BY <4>1, <3>1, <3>2, <4>2 DEF Kept
      <4>3. CASE ~(user[v] = "waiting" /\ HasReply(v))
        BY <2>1, <4>1, <3>1, <3>2, <4>3 DEF Kept, Shapes
      <4> QED
        BY <4>2, <4>3
    <3> QED
      BY <3>5, <3>6
  <2> QED
    BY <2>2, <2>3
<1> QED
  BY <1>1, <1>2, SomeLost

(* A request that is refused, or takes effect: its program, if it is       *)
(* there, has its answer.                                                  *)
Concludes(u, answer) ==
  \/ View(u) = S!Pending(Intent(asked[u])) /\ View(u)' = S!Done(answer)
  \/ View(u) = S!Lost(Intent(asked[u])) /\ View(u)' = S!Out

LEMMA Conclusion ==
  ASSUME NEW u \in Users, NEW answer, Concludes(u, answer),
         \A v \in Users \ {u} : View(v)' = View(v)
  PROVE  /\ Views[u].is \in {"pending", "lost"}
         /\ Views[u].request = Intent(asked[u])
         /\ Views' = S!Concluded(u, answer)
<1> USE DEF Views, S!Pending, S!Lost, S!Concluded
<1>1. CASE View(u) = S!Pending(Intent(asked[u])) /\ View(u)' = S!Done(answer)
  <2>1. Views[u].is = "pending" /\ Views[u].request = Intent(asked[u])
    BY <1>1
  <2>2. Views' = [Views EXCEPT ![u] = S!Done(answer)]
    BY <1>1, OneMoves
  <2> QED
    BY <2>1, <2>2
<1>2. CASE View(u) = S!Lost(Intent(asked[u])) /\ View(u)' = S!Out
  <2>1. Views[u].is = "lost" /\ Views[u].request = Intent(asked[u])
    BY <1>2
  <2>2. Views' = [Views EXCEPT ![u] = S!Out]
    BY <1>2, OneMoves
  <2> QED
    BY <2>1, <2>2
<1> QED
  BY <1>1, <1>2 DEF Concludes

(* commandParseAndExec: a request is taken up, cut short or misread.       *)
LEMMA ExecSteps ==
  ASSUME Inv, Inv', NEW CONSTANT u \in Users,
         Exec(u) \/ CutShort(u) \/ Misread(u) \/ Unreadable(u)
  PROVE  S!Next
<1>1. Seen(u) /\ Seen(u)' /\ Shapes
  BY WhatIsSeen, WhatIsSeenNext DEF Inv
<1>2. /\ serving = Nobody /\ u # Nobody /\ pc = "idle"
      /\ UNCHANGED <<disk, user, ret>>
  BY ServiceAssumption
     DEF Exec, Ready, Takes, Reject, Derail, BadArguments, CallEngine, CutShort, Misread,
         Unreadable, E!Invoke, engineVars, userVars
<1>3. ASSUME NEW v \in Users \ {u} PROVE View(v)' = View(v)
  <2>1. /\ UNCHANGED <<link[v], user[v], asked[v]>> /\ (v \in inbox' <=> v \in inbox)
        /\ serving' # v
    BY <1>1, <1>2, <1>3, ServiceAssumption
       DEF Shapes, Exec, Reject, Derail, BadArguments, CallEngine, Takes, CutShort, Misread,
           Unreadable, userVars
  <2>2. pos'[v] = pos[v]
    BY <1>1, <1>3, Moves
       DEF Exec, Reject, Derail, BadArguments, CallEngine, Takes, CutShort, Misread,
           Unreadable
  <2>3. outbox'[v] = outbox[v]
    BY <1>1, <1>3
       DEF Shapes, Exec, Reject, Derail, BadArguments, CallEngine, CutShort, Misread,
           Unreadable, Sending
  <2> QED
    BY <1>2, <1>3, <2>1, <2>2, <2>3, ServiceAssumption, Unconcerned
<1>4. CASE Astray(u)
  <2>1. Astray(u)'
    BY <1>1, <1>4, Moves
       DEF Exec, Reject, Derail, BadArguments, CallEngine, Takes, CutShort, Misread,
           Unreadable, Astray
  <2>2. View(u)' = View(u)
    BY <1>1, <1>4, <2>1 DEF Seen
  <2> QED
    BY <1>2, <1>3, <2>2, SomeLost
<1> SUFFICES ASSUME ~Astray(u) PROVE S!Next
  BY <1>4
<1>5. /\ Kept(u) /\ u \in inbox /\ (Exec(u) \/ CutShort(u))
      /\ inbox' = inbox \ {u} /\ link[u] = "open" /\ outbox[u] = <<>>
      /\ user[u] \in {"waiting", "left"} /\ UNCHANGED asked
  BY <1>1, NothingToRead
     DEF Seen, Exec, Takes, Reject, Derail, BadArguments, CallEngine, CutShort, Misread,
         Unreadable, Connection, userVars
<1>6. Unserved(u) /\ ~HasReply(u)
  BY <1>5 DEF Unserved, HasReply
<1>7. CASE Astray(u)'
  <2>1. View(u)' = S!Adrift
    BY <1>1, <1>7 DEF Seen
  <2>2. View(u) # S!Out
    BY <1>5, <1>6 DEF Kept, S!Pending, S!Lost, S!Out
  <2> QED
    BY <1>2, <1>3, <2>1, <2>2, Drifts
<1> SUFFICES ASSUME ~Astray(u)' PROVE S!Next
  BY <1>7
<1>8. Kept(u)' /\ Exec(u)
  BY <1>1, <1>5 DEF Seen, CutShort
<1>9. CASE Derail(u) \/ CallEngine(u)
  <2>1. UNCHANGED <<link, outbox>> /\ serving' = u /\ pc' # "return"
    BY <1>9 DEF Derail, CallEngine, E!Invoke
  <2>2. Unserved(u)'
    BY <1>5, <2>1 DEF Unserved
  <2>3. View(u)' = View(u)
    BY <1>2, <1>5, <1>6, <1>8, <2>2 DEF Kept
  <2> QED
    BY <1>2, <1>3, <2>3, SomeLost
<1>10. CASE Reject(u) \/ BadArguments(u)
  <2>1. UNCHANGED <<pc, serving>>
    BY <1>10 DEF Reject, BadArguments, engineVars
  <2>2. PICK replies \in {<<Err>>, <<Err, Fragment>>} : Sending(u, replies)
    BY <1>10 DEF Reject, BadArguments
  <2>3. outbox'[u] = IF user[u] = "waiting" THEN replies ELSE <<>>
    BY <1>1, <1>5, <2>2, Sends, ReplySequences
  <2>4. ~Unserved(u)'
    BY <1>2, <1>5, <2>1 DEF Unserved
  <2>5. Concludes(u, Err)
    <3>1. CASE user[u] = "waiting"
      <4>1. outbox'[u] # <<>> /\ outbox'[u][1] = Err
        BY <2>2, <2>3, <3>1
      <4>2. HasReply(u)'
        BY <4>1, Words DEF HasReply
      <4> QED
        BY <1>2, <1>5, <1>6, <1>8, <3>1, <4>1, <4>2 DEF Kept, Concludes
    <3>2. CASE user[u] = "left"
      BY <1>2, <1>5, <1>6, <1>8, <2>4, <3>2 DEF Kept, Concludes
    <3> QED
      BY <1>5, <3>1, <3>2
  <2>6. Views[u].is \in {"pending", "lost"} /\ Views' = S!Concluded(u, Err)
    BY <1>3, <2>5, Conclusion
  <2> QED
    BY <1>2, <2>6, Vocabulary DEF S!Next, S!Refuse
<1> QED
  BY <1>8, <1>9, <1>10 DEF Exec

(* The engine works, or returns to the command, which replies.             *)
LEMMA ServingSteps ==
  ASSUME Inv, Inv', Engine \/ Finish
  PROVE  S!Next
<1>1. /\ UNCHANGED <<link, inbox, pos, user, asked>>
      /\ pc \notin {"idle", "undefined"}
  BY EngineSteps DEF Finish, E!Return, connVars, userVars
<1>2. PICK u \in Users : serving = u
  BY <1>1, InProgress
<1>3. /\ Seen(u) /\ Seen(u)' /\ Shapes /\ u # Nobody /\ ~(u \in inbox)
      /\ link[u] = "open" /\ (Astray(u)' <=> Astray(u))
  BY <1>1, <1>2, WhatIsSeen, WhatIsSeenNext, ServiceAssumption
     DEF Inv, Connection, Working, Astray
<1>4. Accepted(asked[u]) /\ call = Meaning(asked[u]) /\ call \in Calls
  BY <1>1, <1>2, InProgress
<1>5. ASSUME NEW v \in Users \ {u} PROVE View(v)' = View(v)
  <2>1. CASE Engine
    <3>1. UNCHANGED <<serving, outbox>>
      BY <2>1, EngineSteps DEF connVars
    <3> QED
      BY <1>1, <1>2, <1>5, <3>1, Unconcerned
  <2>2. CASE Finish
    <3>1. serving' = Nobody /\ outbox'[v] = outbox[v]
      BY <1>2, <1>3, <1>5, <2>2 DEF Finish, Sending, Shapes
    <3> QED
      BY <1>1, <1>2, <1>5, <3>1, ServiceAssumption, Unconcerned
  <2> QED
    BY <2>1, <2>2
<1>6. CASE Astray(u)
  <2>1. View(u) = S!Adrift /\ View(u)' = View(u)
    BY <1>3, <1>6 DEF Seen
  <2>2. \A v \in Users : View(v)' = View(v)
    BY <1>5, <2>1
  <2>3. disk' = disk \/ disk' = Effect(disk, call)
    BY EngineSteps DEF Quietly, Read, Stored, Failed, Finish, E!Return
  <2> QED
    BY <1>4, <2>1, <2>2, <2>3, SomeLost, Strays
<1> SUFFICES ASSUME ~Astray(u) PROVE S!Next
  BY <1>6
<1>7. /\ Kept(u) /\ Kept(u)' /\ outbox[u] = <<>> /\ user[u] \in {"waiting", "left"}
  BY <1>2, <1>3 DEF Seen, Held
<1>8. CASE Finish
  <2>1. /\ pc = "return" /\ UNCHANGED <<disk, ret>>
        /\ serving' = Nobody /\ Sending(u, <<ret>>)
    BY <1>2, <1>8 DEF Finish, E!Return, ReplyTo
  <2>2. outbox'[u] = IF user[u] = "waiting" THEN <<ret>> ELSE <<>>
    <3>1. <<ret>> \in Seq(Replies)
      BY <1>3, ReplySequences DEF Shapes
    <3> QED
      BY <1>3, <1>7, <2>1, <3>1, Sends
  <2>4. ~Unserved(u) /\ ~Unserved(u)' /\ ~HasReply(u)
    BY <1>1, <1>3, <1>7, <2>1 DEF Unserved, HasReply
  <2>5. View(u)' = View(u)
    <3>1. CASE user[u] = "waiting"
      <4>1. outbox'[u] # <<>> /\ outbox'[u][1] = ret /\ ret # Fragment
        BY <1>3, <2>2, <3>1, Words DEF Shapes
      <4>2. HasReply(u)'
        BY <4>1 DEF HasReply
      <4> QED
        BY <1>1, <1>2, <1>7, <2>1, <2>4, <3>1, <4>1, <4>2 DEF Kept
    <3>2. CASE user[u] = "left"
      BY <1>1, <1>7, <2>4, <3>2 DEF Kept
    <3> QED
      BY <1>7, <3>1, <3>2
  <2> QED
    BY <1>5, <2>1, <2>5, SomeLost
<1>9. CASE Engine
  <2>1. UNCHANGED <<serving, outbox>> /\ pc # "return"
    BY <1>9, EngineSteps DEF connVars
  <2>3. Unserved(u) /\ (Unserved(u)' <=> pc' # "return") /\ ~HasReply(u)'
    BY <1>1, <1>2, <1>3, <1>7, <2>1 DEF Unserved, HasReply
  <2>4. CASE Quietly
    <3>1. View(u)' = View(u)
      BY <1>1, <1>7, <2>3, <2>4 DEF Kept, Quietly
    <3> QED
      BY <1>5, <2>4, <3>1, SomeLost DEF Quietly
  <2>5. CASE pc' = "return"
    <3>1. Concludes(u, ret')
      <4>1. CASE user[u] = "waiting"
        BY <1>1, <1>2, <1>7, <2>1, <2>3, <2>5, <4>1 DEF Kept, Concludes
      <4>2. CASE user[u] = "left"
        BY <1>1, <1>7, <2>3, <2>5, <4>2 DEF Kept, Concludes
      <4> QED
        BY <1>7, <4>1, <4>2
    <3>2. /\ Views[u].is \in {"pending", "lost"} /\ Views[u].request = call
          /\ Views' = S!Concluded(u, ret')
      BY <1>4, <1>5, <3>1, Conclusion DEF Intent
    <3>3. CASE Failed
      BY <3>2, <3>3, Vocabulary DEF Failed, S!Next, S!Refuse
    <3>4. CASE Stored
      <4>1. S!Perform(u)
        BY <1>4, <3>2, <3>4, Vocabulary DEF Stored, S!Perform
      <4> QED
        BY <4>1 DEF S!Next
    <3>5. CASE Read
      <4>1. Effect(disk, call) = disk
        BY <3>5 DEF Read, Effect
      <4>2. S!Perform(u)
        BY <1>4, <3>2, <3>5, <4>1, Vocabulary DEF Read, S!Perform
      <4> QED
        BY <4>2 DEF S!Next
    <3> QED
      BY <1>9, <2>5, <3>3, <3>4, <3>5, EngineSteps DEF Quietly
  <2> QED
    BY <1>9, <2>4, <2>5, EngineSteps
<1> QED
  BY <1>8, <1>9

LEMMA ServiceInit == Init => S!Init
<1> SUFFICES ASSUME Init PROVE S!Init
  OBVIOUS
<1>1. \A u \in Users : View(u) = S!Out
  BY FreedbAssumption DEF Init, View, Sight, Astray, S!Out
<1> QED
  BY <1>1, Vocabulary DEF Init, E!Init, S!Init, Views

LEMMA ServiceNext == Inv /\ Inv' /\ [Next]_vars => [S!Next]_(S!vars)
<1> SUFFICES ASSUME Inv, Inv', [Next]_vars PROVE [S!Next]_(S!vars)
  OBVIOUS
<1>1. CASE Next
  BY <1>1, ServerSteps, ServingSteps, ProgramSteps, ExecSteps DEF Next, Exec
<1>2. CASE UNCHANGED vars
  BY <1>2, Unconcerned DEF vars, engineVars, connVars, userVars, Views, S!vars
<1> QED
  BY <1>1, <1>2

(* Whatever the programs, the items they send and the order of their       *)
(* requests, and however LMDB calls fail, programs go away and the server  *)
(* crashes, freedb is the shared durable map of KVService: an answer is    *)
(* the answer to its own request, and an acknowledged write is there for   *)
(* everybody afterwards.  It is so for the programs on whose connection no *)
(* more than CompactAt bytes have been parsed.                             *)
THEOREM FreedbImplementsService == Spec => ServiceSpec
<1> QED
  BY Invariance, ServiceInit, ServiceNext, PTL DEF Spec, ServiceSpec, S!Spec
-----------------------------------------------------------------------------
(***************************************************************************)
(* The sessions of freedb-cli.                                             *)
(***************************************************************************)

(* In an array of strings each word is found in its place.                 *)
LEMMA WordsFound ==
  ASSUME NEW n \in Nat, NEW argv, argv = [i \in 1..n |-> argv[i]],
         \A i \in 1..n : argv[i].type = "string"
  PROVE  \A i \in 1..n : Found(argv)[i] = argv[i].word
<1>1. Len(argv) = n
  OBVIOUS
<1> DEFINE Body(f) ==
      [i \in 1..n |-> CASE argv[i].type \in {"string", "error"} -> argv[i].word
                       [] argv[i].type = "array" -> Wild
                       [] argv[i].type = "integer" -> IF i = 1 THEN Null ELSE f[i - 1]]
<1>2. \A f : Body(f) = [i \in 1..n |-> argv[i].word]
  OBVIOUS
<1>3. Found(argv) = CHOOSE f : f = Body(f)
  BY <1>1 DEF Found
<1> HIDE DEF Body
<1> QED
  BY <1>2, <1>3

(* An empty line names no command ...                                      *)
LEMMA EmptyLine ==
  LET item == LineItem(<<>>) IN Unknown(item) /\ ~Misnamed(item) /\ ~Accepted(item)
<1> DEFINE argv == <<String(NoBytes)>>
<1>1. LineItem(<<>>) = Array(argv)
  BY DEF LineItem
<1>2. argv = [i \in 1..1 |-> argv[i]] /\ argv[1] = String(NoBytes) /\ argv # <<>>
  OBVIOUS
<1> HIDE DEF argv
<1>3. Found(argv)[1] = NoBytes
  <2>1. argv[1].type = "string" /\ argv[1].word = NoBytes
    BY <1>2 DEF String
  <2>2. \A i \in 1..1 : argv[i].type = "string"
    BY <2>1
  <2>3. \A i \in 1..1 : Found(argv)[i] = argv[i].word
    <3> DEFINE n == 1
    <3>1. n \in Nat /\ argv = [i \in 1..n |-> argv[i]] /\ \A i \in 1..n : argv[i].type = "string"
      BY <1>2, <2>2
    <3> HIDE DEF n
    <3>2. \A i \in 1..n : Found(argv)[i] = argv[i].word
      BY <3>1, WordsFound
    <3> QED
      BY <3>2 DEF n
  <2> QED
    BY <2>1, <2>3
<1>4. Name(LineItem(<<>>)) = NoBytes
  BY <1>1, <1>2, <1>3 DEF Name, Array
<1> QED
  BY <1>4, ServiceAssumption DEF Unknown, Misnamed, Accepted, Named

(* ... and no line names nothing.                                          *)
LEMMA LineNames ==
  ASSUME NEW line \in Lines
  PROVE  ~Misnamed(LineItem(line))
<1>1. CASE line = <<>>
  BY <1>1, EmptyLine
<1>2. CASE line # <<>>
  <2> DEFINE argv == [i \in DOMAIN line |-> String(line[i])]
  <2>1. line \in Seq(STRING) /\ \A i \in DOMAIN line : line[i] # Wild
    BY ServiceAssumption
  <2>2. Len(line) \in Nat \ {0} /\ DOMAIN line = 1..Len(line)
    BY <1>2, <2>1
  <2>3. /\ argv = [i \in 1..Len(line) |-> argv[i]]
        /\ \A i \in 1..Len(line) : argv[i].type = "string" /\ argv[i].word = line[i]
    BY <2>2 DEF String
  <2>4. LineItem(line) = Array(argv)
    BY <1>2 DEF LineItem
  <2> HIDE DEF argv
  <2>7. argv # <<>>
    <3>1. DOMAIN argv = 1..Len(line)
      BY <2>3
    <3> QED
      BY <2>2, <3>1
  <2>5. Found(argv)[1] = line[1]
    BY <2>2, <2>3, WordsFound
  <2>6. Name(LineItem(line)) # Wild
    BY <2>1, <2>2, <2>4, <2>5, <2>7 DEF Name, Array
  <2> QED
    BY <2>6 DEF Misnamed
<1> QED
  BY <1>1, <1>2

(* What the server holds of a session is a line of it, after the first an  *)
(* empty one, and after the first the server never gets to work on it.     *)
InSession(u) ==
  /\ sent[u] \in Nat
  /\ u \in inbox => /\ asked[u] \in {LineItem(line) : line \in Lines \union {<<>>}}
                    /\ sent[u] > 1 => asked[u] = LineItem(<<>>)
  /\ sent[u] > 1 => serving # u
  /\ sent[u] > 1 /\ HasReply(u) => outbox[u][1] = Err /\ link[u] # "open"

Session(u) == ~Astray(u) => InSession(u)

(* The handle of a transaction that a function of the engine ended is left *)
(* by a set.                                                               *)
Ended == txn = "ended" => call.op = "set"

Sessions ==
  /\ sent \in [Users -> Nat]
  /\ Ended
  /\ \A u \in Clis : Session(u)
  /\ CliNeverDerails

LEMMA SessionsInit == Init => Sessions
BY FreedbAssumption, ServiceAssumption
   DEF Init, E!Init, Sessions, Ended, Session, InSession, CliNeverDerails, HasReply

LEMMA SentNext == Sessions /\ [Next]_vars => sent' \in [Users -> Nat]
<1> SUFFICES ASSUME Sessions, [Next]_vars PROVE sent' \in [Users -> Nat]
  OBVIOUS
<1>1. CASE \E u \in Users : Send(u)
  BY <1>1 DEF Sessions, Send
<1>2. CASE UNCHANGED sent
  BY <1>2 DEF Sessions
<1>3. (\E u \in Users : Send(u)) \/ UNCHANGED sent
  BY DEF Next, OpenEngine, Listen, Crash, Engine, Finish, Connect, Receive, TornRead,
         Leave, End, Reject, Derail, BadArguments, CallEngine, CutShort, Misread,
         Unreadable, vars, userVars
<1> QED
  BY <1>1, <1>2, <1>3

LEMMA EndedNext == Inv /\ Sessions /\ [Next]_vars => Ended'
<1> SUFFICES ASSUME Inv, Ended, [Next]_vars PROVE Ended'
  BY DEF Sessions
<1> USE DEF Ended
<1>1. CASE OpenEngine \/ Crash
  BY <1>1 DEF OpenEngine, Crash, E!Open, E!Crash
<1>2. CASE Engine
  <2>1. E!Step /\ pc = "commit" => call.op = "set"
    BY <1>2 DEF Engine, Inv, Working
  <2> QED
    BY <1>2, <2>1
       DEF Engine, E!Step, E!TxnBegin, E!OpFails, E!Put, E!Get, E!Del, E!Drop,
           E!Commit, E!Exit, E!Return
<1>3. CASE Finish
  BY <1>3 DEF Finish, E!Return
<1>4. CASE \E u \in Users : CallEngine(u)
  BY <1>4 DEF CallEngine, E!Invoke
<1>5. ~OpenEngine /\ ~Crash /\ ~Engine /\ ~Finish /\ ~(\E u \in Users : CallEngine(u))
        => UNCHANGED <<txn, call>>
  BY DEF Next, Listen, Connect, Send, Receive, TornRead, Leave, End, Reject, Derail,
         BadArguments, CutShort, Misread, Unreadable, vars, engineVars
<1> QED
  BY <1>1, <1>2, <1>3, <1>4, <1>5

(* The sessions, step by step.                                             *)
LEMMA SessionNext ==
  ASSUME Inv, Inv', Sessions, [Next]_vars, sent' \in [Users -> Nat],
         NEW CONSTANT v \in Clis
  PROVE  Session(v)'
<1> SUFFICES ASSUME ~Astray(v)' PROVE InSession(v)'
  BY DEF Session
<1>0. /\ v \in Users /\ v # Nobody /\ Shapes /\ Connection(v) /\ Outgoing(v)' /\ Session(v)
      /\ sent \in [Users -> Nat] /\ sent'[v] \in Nat
  BY FreedbAssumption, ServiceAssumption DEF Inv, Sessions, Connection
<1> USE DEF engineVars, connVars, userVars
<1>10. CASE Astray(v)
  <2>1. End(v)
    <3>1. ASSUME NEW u \in Users, Parses(u) PROVE Astray(v)'
      <4>1. CASE u = v
        BY <1>0, <1>10, <3>1, <4>1, Moves
      <4>2. CASE u # v
        BY <1>0, <1>10, <3>1, <4>2, Moves DEF Astray
      <4> QED
        BY <4>1, <4>2
    <3>2. ASSUME NEW u \in Users, End(u), u # v PROVE Astray(v)'
      BY <1>0, <1>10, <3>2 DEF End, Astray, Shapes
    <3>3. UNCHANGED pos => Astray(v)'
      BY <1>10 DEF Astray
    <3>4. \/ UNCHANGED pos
          \/ \E u \in Users : Parses(u) \/ End(u)
      BY EngineSteps
         DEF Next, vars, OpenEngine, Listen, Crash, Finish, Connect, Send, Receive, TornRead,
             Leave, Reject, Derail, BadArguments, CallEngine, Takes, CutShort, Misread,
             Unreadable
    <3> QED
      BY <3>1, <3>2, <3>3, <3>4
  <2>2. outbox'[v] = <<>> /\ v \notin inbox' /\ serving' # v
    BY <1>0, <2>1 DEF End, Shapes, Connection
  <2> QED
    BY <1>0, <2>2 DEF InSession, HasReply
<1> SUFFICES ASSUME ~Astray(v) PROVE InSession(v)'
  BY <1>10
<1>1. /\ v \in Users /\ v # Nobody
      /\ Shapes /\ Held(v) /\ Outgoing(v) /\ Outgoing(v)' /\ InSession(v)
      /\ user[v] = "out" => outbox[v] = <<>> /\ link[v] = "none"
      /\ v \in inbox \/ serving = v => link[v] = "open"
      /\ sent \in [Users -> Nat] /\ sent'[v] \in Nat
  BY <1>0 DEF Connection, Session
<1>2. CASE OpenEngine \/ Listen \/ Engine \/ UNCHANGED vars
  BY <1>1, <1>2, EngineSteps DEF OpenEngine, Listen, InSession, HasReply, vars
<1>3. CASE Crash
  BY <1>1, <1>3 DEF Crash, InSession, HasReply, Shapes
<1>4. CASE Finish
  <2>1. /\ pc = "return" /\ UNCHANGED <<link, inbox, user, asked, sent>>
        /\ serving' = Nobody /\ Sending(serving, <<ret>>)
    BY <1>4 DEF Finish, E!Return, ReplyTo
  <2>2. v # serving => outbox'[v] = outbox[v]
    BY <1>1, <2>1 DEF Sending, Shapes
  <2> QED
    BY <1>1, <2>1, <2>2 DEF InSession, HasReply
<1>5. ASSUME NEW u \in Users, Connect(u) \/ Receive(u) \/ TornRead(u) \/ Leave(u) \/ End(u)
      PROVE  InSession(v)'
  <2>1. UNCHANGED <<serving, inbox, sent>>
    BY <1>5 DEF Connect, Receive, TornRead, Leave, End
  <2>2. CASE v # u
    <3>1. outbox'[v] = outbox[v] /\ link'[v] = link[v] /\ asked'[v] = asked[v]
      BY <1>1, <1>5, <2>2 DEF Connect, Receive, TornRead, Leave, End, Shapes
    <3> QED
      BY <1>1, <2>1, <3>1 DEF InSession, HasReply
  <2>3. CASE v = u
    <3>1. CASE Connect(u)
      BY <1>1, <2>1, <2>3, <3>1 DEF Connect, InSession, HasReply, Held, Outgoing
    <3>2. CASE Receive(u)
      <4>1. v \notin inbox /\ user'[v] = "idle"
        BY <1>1, <2>3, <3>2 DEF Receive, HasReply, Held, Shapes
      <4> QED
        BY <1>1, <2>1, <4>1 DEF InSession, Outgoing
    <3>3. CASE TornRead(u) \/ Leave(u)
      BY <1>1, <2>1, <2>3, <3>3 DEF TornRead, Leave, InSession, HasReply, Shapes
    <3>4. CASE End(u)
      <4>1. v \notin inbox /\ outbox'[v] = <<>>
        BY <1>1, <2>3, <3>4 DEF End, Held, Shapes
      <4> QED
        BY <1>1, <2>1, <4>1 DEF InSession, HasReply
    <3> QED
      BY <1>5, <3>1, <3>2, <3>3, <3>4
  <2> QED
    BY <2>2, <2>3
<1>6. ASSUME NEW u \in Users, Send(u) PROVE InSession(v)'
  <2>1. UNCHANGED <<serving, outbox, link>> /\ inbox' \subseteq inbox \union {u}
    BY <1>6 DEF Send
  <2>2. CASE v # u
    <3>1. asked'[v] = asked[v] /\ sent'[v] = sent[v]
      BY <1>1, <1>6, <2>2 DEF Send, Shapes
    <3> QED
      BY <1>1, <2>1, <2>2, <3>1 DEF InSession, HasReply
  <2>3. CASE v = u
    <3>1. /\ asked'[v] \in Requests(v) /\ sent'[v] = sent[v] + 1
          /\ serving # v /\ ~HasReply(v)
      BY <1>1, <1>6, <2>3 DEF Send, Held, Outgoing, Shapes
    <3>2. /\ asked'[v] \in {LineItem(line) : line \in Lines \union {<<>>}}
          /\ sent[v] # 0 => asked'[v] = LineItem(<<>>)
      BY <3>1 DEF Requests
    <3> QED
      BY <1>1, <2>1, <3>1, <3>2 DEF InSession, HasReply
  <2> QED
    BY <2>2, <2>3
<1>8. ASSUME NEW u \in Users, CutShort(u) \/ Misread(u) \/ Unreadable(u)
      PROVE  InSession(v)'
  <2>1. UNCHANGED <<serving, sent>>
    BY <1>8 DEF CutShort, Misread, Unreadable
  <2>2. CASE v # u
    <3>1. asked'[v] = asked[v] /\ (v \in inbox' => v \in inbox) /\ link'[v] = link[v]
      BY <1>1, <1>8, <2>2 DEF CutShort, Misread, Unreadable, Shapes
    <3>2. outbox'[v] = outbox[v]
      BY <1>1, <1>8, <2>2 DEF CutShort, Misread, Unreadable, Sending, Shapes
    <3> QED
      BY <1>1, <2>1, <3>1, <3>2 DEF InSession, HasReply
  <2>3. CASE v = u
    BY <1>8, <2>3 DEF CutShort, Misread, Unreadable
  <2> QED
    BY <2>2, <2>3
<1>7. ASSUME NEW u \in Users, Exec(u) PROVE InSession(v)'
  <2>1. /\ UNCHANGED <<user, asked, sent>> /\ u \in inbox /\ inbox' = inbox \ {u}
        /\ serving' \in {serving, u}
    BY <1>7 DEF Exec, Takes, Reject, Derail, BadArguments, CallEngine
  <2>2. CASE v # u
    <3>1. outbox'[v] = outbox[v] /\ link'[v] = link[v]
      BY <1>1, <1>7, <2>2 DEF Exec, Reject, Derail, BadArguments, CallEngine, Sending, Shapes
    <3> QED
      BY <1>1, <2>1, <2>2, <3>1 DEF InSession, HasReply
  <2>3. CASE v = u /\ sent[v] > 1
    <3>1. asked[u] = LineItem(<<>>)
      BY <1>1, <2>1, <2>3 DEF InSession
    <3>2. Reject(u)
      BY <1>7, <3>1, EmptyLine DEF Exec, Derail, BadArguments, CallEngine, WrongArguments
    <3>3. /\ Sending(u, <<Err, Fragment>>) /\ link'[u] = "shut" /\ UNCHANGED serving
      BY <1>1, <2>3, <3>2 DEF Reject, Takes, Shapes
    <3>4. outbox[u] = <<>>
      BY <1>1, <2>1, <2>3 DEF Held
    <3>5. outbox'[u] = IF user[u] = "waiting" THEN <<Err, Fragment>> ELSE <<>>
      BY <1>1, <3>3, <3>4, Sends, ReplySequences
    <3>6. HasReply(v)' => outbox'[v][1] = Err
      BY <2>3, <3>5 DEF HasReply
    <3> QED
      BY <1>1, <2>1, <2>3, <3>3, <3>6 DEF InSession
  <2>4. CASE v = u /\ ~(sent[v] > 1)
    BY <1>1, <2>1, <2>4 DEF InSession
  <2> QED
    BY <2>2, <2>3, <2>4
<1> QED
  BY <1>2, <1>3, <1>4, <1>5, <1>6, <1>7, <1>8 DEF Next, Exec

LEMMA DerailNext == Inv /\ Inv' /\ Sessions /\ [Next]_vars => CliNeverDerails'
<1> SUFFICES ASSUME Inv, Inv', Sessions, [Next]_vars, pc' = "undefined", serving' \in Clis,
                    ~Astray(serving)'
             PROVE  Named(asked'[serving'], "set")
  BY DEF CliNeverDerails
<1> USE DEF connVars
<1>1. serving' # Nobody /\ Shapes /\ Ended /\ CliNeverDerails
  BY FreedbAssumption, ServiceAssumption DEF Inv, Sessions
<1>2. CASE Engine
  <2>1. UNCHANGED <<serving, asked>> /\ call = Meaning(asked[serving])
        /\ Accepted(asked[serving])
    BY <1>2, EngineSteps, InProgress DEF connVars, userVars
  <2>2. E!Step /\ pc # "undefined"
    BY <1>2, EngineSteps DEF Engine
  <2>3. call.op = "set"
    BY <1>1, <2>2
       DEF Ended, E!Step, E!TxnBegin, E!OpFails, E!Put, E!Get, E!Del, E!Drop,
           E!Commit, E!Exit, E!Return
  <2> QED
    BY <2>1, <2>3 DEF Meaning
<1>3. ASSUME NEW u \in Users, Derail(u) PROVE FALSE
  <2>1. u \in inbox /\ u \in Clis /\ Misnamed(asked[u]) /\ Parses(u) /\ ~Astray(u)'
    BY <1>3 DEF Derail, Takes, Astray
  <2>2. ~Astray(u)
    BY <1>1, <2>1, Moves
  <2>3. asked[u] \in {LineItem(line) : line \in Lines \union {<<>>}}
    BY <2>1, <2>2 DEF Sessions, Session, InSession
  <2> QED
    BY <2>1, <2>3, LineNames, EmptyLine
<1>4. CASE /\ UNCHANGED <<pc, serving>>
           /\ \A v \in Users : serving = v => asked'[v] = asked[v] /\ pos'[v] = pos[v]
  BY <1>1, <1>4, FreedbAssumption DEF CliNeverDerails, Astray
<1>5. ASSUME NEW u \in Users, Send(u) \/ Receive(u) \/ End(u)
      PROVE  /\ UNCHANGED <<pc, serving>>
             /\ \A v \in Users : serving = v => asked'[v] = asked[v] /\ pos'[v] = pos[v]
  <2>1. /\ UNCHANGED <<pc, serving>>
        /\ \A v \in Users \ {u} : asked'[v] = asked[v] /\ pos'[v] = pos[v]
    BY <1>1, <1>5 DEF Send, Receive, End, engineVars, Shapes
  <2>2. serving # u \/ UNCHANGED <<asked, pos>>
    BY <1>5, ServiceAssumption
       DEF Inv, Connection, Held, Send, Receive, End, HasReply
  <2> QED
    BY <2>1, <2>2
<1>9. ASSUME NEW u \in Users,
             Reject(u) \/ BadArguments(u) \/ CutShort(u) \/ Misread(u) \/ Unreadable(u)
      PROVE  FALSE
  BY <1>1, <1>9 DEF Reject, BadArguments, CutShort, Misread, Unreadable, Takes, Ready,
                    engineVars
<1>6. ASSUME NEW u \in Users, CallEngine(u) PROVE FALSE
  BY <1>6 DEF CallEngine, E!Invoke
<1>7. ~Crash /\ ~Finish /\ ~OpenEngine
  BY <1>1 DEF Crash, Finish, E!Crash, E!Return, OpenEngine, E!Open
<1>8. CASE Listen \/ UNCHANGED vars \/ \E u \in Users :
             Connect(u) \/ TornRead(u) \/ Leave(u)
  <2>1. UNCHANGED <<pc, serving, pos, asked>>
    BY <1>8 DEF Listen, Connect, TornRead, Leave, vars, engineVars, connVars, userVars
  <2> QED
    BY <1>4, <2>1
<1> QED
  BY <1>2, <1>3, <1>4, <1>5, <1>6, <1>7, <1>8, <1>9 DEF Next

LEMMA SessionsNext == Inv /\ Inv' /\ Sessions /\ [Next]_vars => Sessions'
BY SentNext, EndedNext, SessionNext, DerailNext DEF Sessions

(* What is said of the sessions of freedb-cli always holds.                *)
THEOREM SessionsHold == Spec => []Sessions
BY Invariance, SessionsInit, SessionsNext, PTL DEF Spec

(* Whatever its user types, a session of freedb-cli has one command        *)
(* executed: every later request of it is refused with an error, and its   *)
(* connection is shut by then, while its lines fit in CompactAt bytes.     *)
THEOREM CliOneCommand == Spec => []CliRunsOneCommand
<1>1. Sessions => CliRunsOneCommand
  BY DEF Sessions, Session, InSession, CliRunsOneCommand
<1> QED
  BY <1>1, SessionsHold, PTL

(* And none brings the server into a state of which nothing is known,      *)
(* except by a set whose commit fails or a line that does not fit.         *)
THEOREM CliSafe == Spec => []CliNeverDerails
<1>1. Sessions => CliNeverDerails
  BY DEF Sessions
<1> QED
  BY <1>1, SessionsHold, PTL
=============================================================================
