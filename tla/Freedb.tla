------------------------------- MODULE Freedb -------------------------------
(***************************************************************************)
(* The whole of freedb: programs that connect, the command layer of        *)
(* src/client.c and src/command.c, and the storage engine under it, which  *)
(* is module Engine.  One of the programs is src/freedb-cli/main.c, the    *)
(* others are any program that speaks RESP and awaits the answer to one    *)
(* request before it sends the next.                                       *)
(*                                                                         *)
(* Bytes are left to Client and RespFSM: here a connection carries whole   *)
(* requests and whole replies, in order, until more bytes than CompactAt   *)
(* have been parsed on it.  The buffer is then cut and client->pos is not, *)
(* and what is parsed from there on need not be what was sent.  Memory is  *)
(* taken to suffice: Client shows what its lack does to a connection.      *)
(***************************************************************************)
EXTENDS StoreInterface, Integers, Sequences

CONSTANTS
  Users,        (* the programs that connect                                *)
  Clis,         (* those of them that are freedb-cli                        *)
  Items,        (* the RESP items the other programs send                   *)
  Lines,        (* the first lines given to freedb-cli, split at blanks     *)
  NoBytes,      (* the empty string                                         *)
  Lengths,      (* how many bytes of a program's request one call of the    *)
                (* parser takes                                             *)
  CompactAt,    (* 1024: where client.c moves what is left to the front     *)
  MaxPos,       (* up to where requests are misread: a bound                *)
  MaxRequests   (* how many requests a program sends: a bound               *)

ASSUME FreedbAssumption ==
  /\ Clis \subseteq Users
  /\ NoBytes \in Values \ Keys
  /\ Ops = {"set", "get"}
  /\ Lengths \in [Users -> SUBSET (Nat \ {0})]
  /\ {CompactAt, MaxPos, MaxRequests} \subseteq Nat

VARIABLES
  disk, up, dbi, writer, txn, work, pc, call, ret,   (* as in Engine        *)
  listening,   (* zlisten has succeeded and its event is registered         *)
  serving,     (* the program whose command is being executed               *)
  link,        (* each connection: "none", "open", "shut": by the server    *)
  inbox,       (* the programs whose request has reached the server         *)
  pos,         (* client->pos of its connection                             *)
  outbox,      (* what the server has sent and the program not yet taken    *)
  user,        (* each program: "out", "idle", "waiting", "left": it has    *)
               (* gone away, "stuck": it waits for what will never come     *)
  asked,       (* the request it awaits the answer to, as the server has it *)
  sent         (* how many requests it has sent                             *)

engineVars == <<disk, up, dbi, writer, txn, work, pc, call, ret>>
userVars == <<user, asked, sent>>
connVars == <<serving, link, inbox, pos, outbox>>
vars == <<engineVars, listening, connVars, userVars>>

E == INSTANCE Engine WITH DbiFits <- TRUE
-----------------------------------------------------------------------------
(***************************************************************************)
(* A request is an item: an array of elements, or none.  An element has a  *)
(* type and, if it is a string or an error, a word.                        *)
(***************************************************************************)
Scalar == [array |-> FALSE, argv |-> <<>>]
Array(argv) == [array |-> TRUE, argv |-> argv]
String(w) == [type |-> "string", word |-> w]

Nobody == "nobody"
Null == "null"
Wild == "wild"

(***************************************************************************)
(* What a command finds in the member string of each element.  The parser  *)
(* stores nothing for an integer, and clears all of the element it reused  *)
(* but the union; a nested array is found as a string that is not one.     *)
(***************************************************************************)
Found(argv) ==
  LET found[i \in 1..Len(argv)] ==
        CASE argv[i].type \in {"string", "error"} -> argv[i].word
          [] argv[i].type = "array"               -> Wild
          [] argv[i].type = "integer"             -> IF i = 1 THEN Null ELSE found[i - 1]
  IN  found

(* The value dbEngineSet is given.  An array's count and padding stand     *)
(* where a string has its length, so that it is empty.                     *)
ValueIn(argv) == IF Found(argv)[3] = Wild THEN NoBytes ELSE Found(argv)[3]

(* Where commandExec reads the name of the command: the first element, and *)
(* in an empty array the memory that follows it.                           *)
Name(item) == IF item.argv = <<>> THEN Wild ELSE Found(item.argv)[1]

Misnamed(item) == item.array /\ Name(item) = Wild

(* hashmap_get on commandTable.                                            *)
Named(item, name) == item.array /\ Name(item) = name
Unknown(item) == ~item.array \/ Name(item) \notin {"set", "get", Wild}

(* What setCommand and getCommand require of their arguments.              *)
Accepted(item) ==
  \/ Named(item, "set") /\ Len(item.argv) = 3 /\ item.argv[2].type = "string"
  \/ Named(item, "get") /\ Len(item.argv) = 2 /\ item.argv[2].type = "string"

(* The engine call an accepted request leads to.                           *)
Meaning(item) ==
  IF Named(item, "set")
  THEN [op |-> "set", key |-> item.argv[2].word, val |-> ValueIn(item.argv)]
  ELSE [op |-> "get", key |-> item.argv[2].word, val |-> NoValue]

(* What replyErrorAndClose sends after the reply: a '-' and nothing else.  *)
Fragment == [code |-> "fragment", val |-> NoValue]
Replies == Results \union {Fragment}

Init ==
  /\ E!Init
  /\ listening = FALSE /\ serving = Nobody
  /\ link = [u \in Users |-> "none"]
  /\ inbox = {} /\ pos = [u \in Users |-> 0]
  /\ outbox = [u \in Users |-> <<>>]
  /\ user = [u \in Users |-> "out"]
  /\ asked = [u \in Users |-> Scalar]
  /\ sent = [u \in Users |-> 0]
-----------------------------------------------------------------------------
(***************************************************************************)
(* The server comes up: serverMain.  Whatever fails there ends in DIE.     *)
(***************************************************************************)
OpenEngine ==
  /\ ~listening /\ E!Open
  /\ UNCHANGED <<listening, connVars, userVars>>

(* The command table is filled, zlisten succeeds and its event is          *)
(* registered; driverRun begins.                                           *)
Listen ==
  /\ up /\ ~listening
  /\ listening' = TRUE
  /\ UNCHANGED <<engineVars, connVars, userVars>>

(* The process ends: DIE, a kill, SIGPIPE, or after undefined behaviour.   *)
(* The kernel ends its connections.                                        *)
Crash ==
  /\ E!Crash
  /\ listening' = FALSE /\ serving' = Nobody /\ inbox' = {}
  /\ link' = [u \in Users |-> IF link[u] = "open" THEN "shut" ELSE link[u]]
  /\ UNCHANGED <<pos, outbox, userVars>>
-----------------------------------------------------------------------------
(***************************************************************************)
(* The programs.                                                           *)
(***************************************************************************)
(* The parser looks for the connection's next request where it is not.     *)
Astray(u) == pos[u] > CompactAt

Connect(u) ==
  /\ listening /\ user[u] = "out"
  /\ u \in Clis => sent[u] = 0
  /\ user' = [user EXCEPT ![u] = "idle"]
  /\ link' = [link EXCEPT ![u] = "open"]
  /\ UNCHANGED <<engineVars, listening, serving, inbox, pos, outbox, asked, sent>>

(* Mutant of LineItem: an empty line has no words.                         *)
LineItemWords(line) == Array([i \in DOMAIN line |-> String(line[i])])

(* freedb-cli splits a line at blanks; bsplit finds one, empty, string in  *)
(* an empty line.                                                          *)
LineItem(line) ==
  Array(IF line = <<>> THEN <<String(NoBytes)>>
        ELSE [i \in DOMAIN line |-> String(line[i])])

(* A request that the commands accept is a call the engine knows: there    *)
(* are no empty keys, which LMDB refuses.  The two names that stand for    *)
(* something else are no word and no program.                              *)
ASSUME ServiceAssumption ==
  /\ \A item \in Items \union {LineItem(line) : line \in Lines} :
       Accepted(item) => Meaning(item) \in Calls
  /\ NoBytes \notin {"set", "get", Wild}
  /\ \A line \in Lines : line \in Seq(STRING) /\ \A i \in DOMAIN line : line[i] # Wild
  /\ Nobody \notin Users

(* scanf("%[^\n]") leaves the newline where it is, so that all lines but   *)
(* the first are read as empty.                                            *)
Requests(u) ==
  IF u \notin Clis THEN Items
  ELSE IF sent[u] = 0 THEN {LineItem(line) : line \in Lines}
  ELSE {LineItem(<<>>)}

(* A request that the server will not find where it looks for it is not    *)
(* told from what it does find there: see Misread.                         *)
Send(u) ==
  /\ user[u] = "idle" /\ sent[u] < MaxRequests
  /\ \/ Astray(u) /\ UNCHANGED <<asked, inbox>>
     \/ /\ ~Astray(u)
        /\ \E item \in Requests(u) : asked' = [asked EXCEPT ![u] = item]
        /\ inbox' = IF link[u] = "open" THEN inbox \union {u} ELSE inbox
  /\ user' = [user EXCEPT ![u] = "waiting"]
  /\ sent' = [sent EXCEPT ![u] = @ + 1]
  /\ UNCHANGED <<engineVars, listening, serving, link, pos, outbox>>

HasReply(u) == outbox[u] # <<>> /\ outbox[u][1] # Fragment

(* The program reads its reply.  freedb-cli forgets what else has come     *)
(* with it: it parses a chunk once, from its start.                        *)
Receive(u) ==
  /\ user[u] = "waiting" /\ HasReply(u)
  /\ \E n \in 1..Len(outbox[u]) :
       /\ u \notin Clis => n = 1
       /\ outbox' = [outbox EXCEPT ![u] = SubSeq(@, n + 1, Len(@))]
  /\ asked' = IF Astray(u) THEN asked ELSE [asked EXCEPT ![u] = Scalar]
  /\ user' = [user EXCEPT ![u] = "idle"]
  /\ UNCHANGED <<engineVars, listening, serving, link, inbox, pos, sent>>

(* freedb-cli reads the reply in two chunks and parses the second from its *)
(* start too: it gives up, or waits for more.                              *)
TornRead(u) ==
  /\ u \in Clis /\ user[u] = "waiting" /\ HasReply(u)
  /\ user' \in {[user EXCEPT ![u] = s] : s \in {"left", "stuck"}}
  /\ outbox' = [outbox EXCEPT ![u] = <<>>]
  /\ UNCHANGED <<engineVars, listening, serving, link, inbox, pos, asked, sent>>

(* A program goes away.                                                    *)
Leave(u) ==
  /\ user[u] \in {"idle", "waiting", "stuck"} /\ link[u] = "open"
  /\ user' = [user EXCEPT ![u] = "left"]
  /\ outbox' = [outbox EXCEPT ![u] = <<>>]
  /\ UNCHANGED <<engineVars, listening, serving, link, inbox, pos, asked, sent>>

(* The end of a connection: the program sees that the server has closed    *)
(* it, or the server that the program has gone.                            *)
End(u) ==
  /\ \/ link[u] = "shut"
     \/ user[u] = "left" /\ listening /\ serving = Nobody /\ u \notin inbox
  /\ user' = [user EXCEPT ![u] = "out"]
  /\ link' = [link EXCEPT ![u] = "none"]
  /\ pos' = [pos EXCEPT ![u] = 0]
  /\ outbox' = [outbox EXCEPT ![u] = <<>>]
  /\ asked' = [asked EXCEPT ![u] = Scalar]
  /\ UNCHANGED <<engineVars, listening, serving, inbox, sent>>
-----------------------------------------------------------------------------
(***************************************************************************)
(* commandParseAndExec and commandExec.                                    *)
(***************************************************************************)
Ready == listening /\ pc = "idle" /\ serving = Nobody

(* The parser gets on, and client->pos with it.                            *)
Parses(u) == \E n \in Lengths[u] : pos' = [pos EXCEPT ![u] = @ + n]

(* It comes to the end of a request.                                       *)
Takes(u) ==
  /\ Ready
  /\ u \in inbox /\ inbox' = inbox \ {u}
  /\ Parses(u)

(* Mutant of CutShort: the parser forgets what it has of a request.        *)
CutShortForgotten(u) ==
  /\ Ready
  /\ u \in inbox /\ inbox' = inbox \ {u}
  /\ asked[u].argv # <<>> /\ ~Astray(u)
  /\ UNCHANGED <<engineVars, listening, serving, link, pos, outbox, userVars>>

(* The request arrives in pieces, and one that is not the last takes       *)
(* client->pos past CompactAt: the parser never gets to see the others.    *)
CutShort(u) ==
  /\ Ready
  /\ u \in inbox /\ inbox' = inbox \ {u}
  /\ asked[u].argv # <<>> /\ ~Astray(u)
  /\ Parses(u) /\ Astray(u)'
  /\ UNCHANGED <<engineVars, listening, serving, link, outbox, userVars>>

(* The parser comes upon a request where none need have been sent ...      *)
Misread(u) ==
  /\ Ready
  /\ link[u] = "open" /\ Astray(u) /\ pos[u] <= MaxPos /\ u \notin inbox
  /\ \E item \in Items : asked' = [asked EXCEPT ![u] = item]
  /\ inbox' = inbox \union {u}
  /\ UNCHANGED <<engineVars, listening, serving, link, pos, outbox, user, sent>>

Sending(u, replies) ==
  outbox' = IF user[u] = "waiting" THEN [outbox EXCEPT ![u] = @ \o replies] ELSE outbox

(* ... or upon what is no request: replyErrorAndClose.                     *)
Unreadable(u) ==
  /\ Ready
  /\ link[u] = "open" /\ Astray(u) /\ u \notin inbox
  /\ Sending(u, <<Fragment>>)
  /\ link' = [link EXCEPT ![u] = "shut"]
  /\ UNCHANGED <<engineVars, listening, serving, inbox, pos, userVars>>

(* Mutant of Reject: the connection is kept.                               *)
RejectOpen(u) ==
  /\ Takes(u)
  /\ Misnamed(asked[u]) \/ Unknown(asked[u])
  /\ Sending(u, <<Err, Fragment>>)
  /\ UNCHANGED <<engineVars, listening, serving, link, userVars>>

(* Not an array, or no known command: commandExec replies and returns -1,  *)
(* and replyErrorAndClose follows.                                         *)
Reject(u) ==
  /\ Takes(u)
  /\ Misnamed(asked[u]) \/ Unknown(asked[u])
  /\ Sending(u, <<Err, Fragment>>)
  /\ link' = [link EXCEPT ![u] = "shut"]
  /\ UNCHANGED <<engineVars, listening, serving, userVars>>

(* An empty array, or an array for a name: the test of commandExec lets it *)
(* pass, and what is read is not a string.                                 *)
Derail(u) ==
  /\ Takes(u) /\ Misnamed(asked[u])
  /\ pc' = "undefined" /\ serving' = u
  /\ UNCHANGED <<disk, up, dbi, writer, txn, work, call, ret,
                 listening, link, outbox, userVars>>

WrongArguments(item) == ~Misnamed(item) /\ ~Unknown(item) /\ ~Accepted(item)

(* setCommand and getCommand count and check their arguments.              *)
BadArguments(u) ==
  /\ Takes(u) /\ WrongArguments(asked[u])
  /\ Sending(u, <<Err>>)
  /\ UNCHANGED <<engineVars, listening, serving, link, userVars>>

CallEngine(u) ==
  /\ Takes(u) /\ Accepted(asked[u])
  /\ E!Invoke /\ call' = Meaning(asked[u])
  /\ serving' = u
  /\ UNCHANGED <<listening, link, outbox, userVars>>

Engine ==
  /\ pc # "return" /\ E!Step
  /\ UNCHANGED <<listening, connVars, userVars>>

(* Mutant of ReplyTo: addReplyOK follows a failed dbEngineSet as well.     *)
ReplyToSet(result) == IF call.op = "set" THEN OK ELSE result

(* addReplyOK, addReplyString or addReplyError.                            *)
ReplyTo(result) == result

Finish ==
  /\ E!Return
  /\ Sending(serving, <<ReplyTo(ret)>>)
  /\ serving' = Nobody
  /\ UNCHANGED <<listening, link, inbox, pos, userVars>>

Exec(u) == Reject(u) \/ Derail(u) \/ BadArguments(u) \/ CallEngine(u)

Next ==
  \/ OpenEngine \/ Listen \/ Crash \/ Engine \/ Finish
  \/ \E u \in Users : \/ Connect(u) \/ Send(u) \/ Receive(u) \/ TornRead(u)
                      \/ Leave(u) \/ End(u)
                      \/ CutShort(u) \/ Misread(u) \/ Unreadable(u)
                      \/ Reject(u) \/ Derail(u) \/ BadArguments(u) \/ CallEngine(u)

Spec == Init /\ [][Next]_vars

(* The server's thread goes on with the call it is in, and takes up every  *)
(* request in the end.  It does while the others send no more than so      *)
(* many: EventLoop shows when it does not.  Programs read, and notice the  *)
(* end of a connection.                                                    *)
FairSpec ==
  /\ Spec
  /\ WF_vars(Engine \/ Finish)
  /\ \A u \in Users : WF_vars(Exec(u)) /\ WF_vars(Receive(u)) /\ WF_vars(End(u))
-----------------------------------------------------------------------------
(***************************************************************************)
(* Properties.                                                             *)
(***************************************************************************)
(***************************************************************************)
(* The service as its programs see it.                                     *)
(***************************************************************************)
Nonsense == [op |-> "nonsense"]
Intent(item) == IF Accepted(item) THEN Meaning(item) ELSE Nonsense

Unserved(u) ==
  link[u] = "open" /\ (u \in inbox \/ (serving = u /\ pc # "return"))

Sight(u) ==
  CASE user[u] = "waiting" /\ HasReply(u) -> [is |-> "done", answer |-> outbox[u][1]]
    [] user[u] = "waiting" /\ ~HasReply(u) /\ Unserved(u) ->
         [is |-> "pending", request |-> Intent(asked[u])]
    [] user[u] = "waiting" /\ ~HasReply(u) /\ serving = u /\ pc = "return" ->
         [is |-> "done", answer |-> ret]
    [] user[u] = "left" /\ Unserved(u) -> [is |-> "lost", request |-> Intent(asked[u])]
    [] user[u] = "idle" /\ link[u] = "open" -> [is |-> "idle"]
    [] OTHER -> [is |-> "out"]

View(u) == IF Astray(u) THEN [is |-> "adrift"] ELSE Sight(u)

Views == [u \in Users |-> View(u)]

S == INSTANCE KVService WITH Clients <- Users, store <- disk, client <- Views

(* The programs share a durable map: whatever their number, the order in   *)
(* which their commands are served, failing LMDB calls, programs that go   *)
(* away and crashes of the server, each answer is the answer to its own    *)
(* request, and an acknowledged write is there for everybody afterwards.   *)
(* This holds for a program until CompactAt bytes have been parsed on its  *)
(* connection.  Past them, what it is answered and what it has stored need *)
(* not be what it asked for.                                               *)
ServiceSpec == S!Spec

(* No session of freedb-cli, whatever is typed, brings the server into a   *)
(* state of which nothing is known, except by a set whose commit fails, or *)
(* by a line that takes client->pos past CompactAt.                        *)
CliNeverDerails ==
  pc = "undefined" /\ serving \in Clis /\ ~Astray(serving) =>
    Named(asked[serving], "set")

(* A session of freedb-cli has one command of its user executed.  All it   *)
(* asks afterwards is refused, which ends the session, unless its first    *)
(* line was as long as that.                                               *)
CliRunsOneCommand ==
  \A u \in Clis : sent[u] > 1 /\ HasReply(u) /\ ~Astray(u) =>
                    outbox[u][1] = Err /\ link[u] # "open"

(* From a get that found its key on, the server serves nobody.             *)
Hung == writer = "orphan" \/ pc = "undefined"

(* The rest of its request, or all of it, is where the server never looks. *)
Forsaken(u) == Astray(u) /\ link[u] = "open" /\ ~Unserved(u)

(* Every request is answered, or its program learns that the connection is *)
(* gone, unless the server hangs, or has cut the connection's buffer and   *)
(* looks for the request in the wrong place.                               *)
RequestAnswered ==
  \A u \in Users : user[u] = "waiting" ~> user[u] # "waiting" \/ Hung \/ Forsaken(u)
=============================================================================
