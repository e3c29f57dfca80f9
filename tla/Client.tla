------------------------------- MODULE Client -------------------------------
(***************************************************************************)
(* One connection of the server: src/client.c from commandParseProc to     *)
(* reply(), clientFree included, with the kernel's socket and the peer.    *)
(*                                                                         *)
(* The two byte streams are modelled by positions.  A request byte is its  *)
(* position in what the peer sends, a reply byte its position in what the  *)
(* server produces; a bstring holds an interval of a stream.  What the     *)
(* bytes say is the parameter: ElemEnds and CmdEnds are the positions at   *)
(* which the peer's RESP elements and commands end.                        *)
(*                                                                         *)
(* The parser (resp/unmarshal.c), the commands and the engine they call    *)
(* appear by their results only; the event loop by the callback it runs.   *)
(***************************************************************************)
EXTENDS Integers, FiniteSets

CONSTANTS
  StreamLen,   (* how many bytes the peer ever sends                        *)
  ElemEnds,    (* where the elements of the peer's commands end             *)
  CmdEnds,     (* where its commands end                                    *)
  ReplyLens,   (* the lengths a marshalled reply may have                   *)
  CutLens,     (* the lengths of what is left of one without memory         *)
  CompactAt,   (* 1024: where client.c moves what is left to the front      *)
  RecvMax,     (* 1024: the most one recv() asks for                        *)
  TxCap,       (* the socket's send buffer                                  *)
  RegMayFail,  (* whether kevent() may refuse to add an event               *)
  AllocMayFail (* whether a bstring may find no memory to grow              *)

ASSUME ClientAssumption ==
  /\ StreamLen \in Nat /\ CompactAt \in Nat
  /\ RecvMax \in Nat \ {0} /\ TxCap \in Nat \ {0}
  /\ ElemEnds \subseteq 1..StreamLen
  /\ CmdEnds \subseteq ElemEnds
  /\ ReplyLens \subseteq Nat \ {0} /\ CutLens \subseteq Nat
  /\ RegMayFail \in BOOLEAN /\ AllocMayFail \in BOOLEAN

VARIABLES
  sent,         (* request bytes that have reached the server's kernel      *)
  peer,         (* "open", "closed": it has finished sending, or "reset"    *)
  read,         (* reply bytes the peer has taken                           *)
  received,     (* request bytes that recv() has returned                   *)
  buffer,       (* client->buffer, an interval [lo, hi) of the requests     *)
  pos,          (* client->pos                                              *)
  consumed,     (* request bytes the parser has taken, over all calls       *)
  replyBuffer,  (* client->replyBuffer, an interval of the replies          *)
  replyPos,     (* client->replyPos                                         *)
  written,      (* reply bytes the kernel has accepted                      *)
  ends,         (* the positions at which whole replies end                 *)
  short,        (* whether memory has ever been too short for a reply       *)
  refused,      (* whether kevent() has ever refused this connection's event*)
  mask,         (* the events registered for the descriptor                 *)
  pc,           (* where the server's thread is in this connection's code   *)
  after         (* where it goes when reply() returns                       *)

vars == <<sent, peer, read, received, buffer, pos, consumed,
          replyBuffer, replyPos, written, ends, short, refused, mask, pc, after>>

peerVars == <<sent, peer, read>>
inVars == <<received, buffer, pos, consumed>>
outVars == <<replyBuffer, replyPos, written, ends, short, refused>>

(* "poll": in kevent(); "recv": at the top of commandParseProc's loop;     *)
(* "parse" and "exec": in commandParseAndExec; "write": in reply();        *)
(* "fail": at replyErrorAndClose; "close": at clientFree; "closed": freed; *)
(* "killed": the process has died of SIGPIPE, which it does not ignore;    *)
(* "hung": command->proc waits in mdb_txn_begin for ever.                  *)
Points == {"poll", "recv", "parse", "exec", "write", "fail",
           "close", "closed", "killed", "hung"}

Buffers == [lo : Nat, hi : Nat]

TypeOK ==
  /\ sent \in 0..StreamLen
  /\ peer \in {"open", "closed", "reset"}
  /\ read \in Nat /\ received \in Nat
  /\ buffer \in Buffers /\ pos \in Nat /\ consumed \in Nat
  /\ replyBuffer \in Buffers /\ replyPos \in Nat
  /\ written \in Nat
  /\ ends \in SUBSET Nat
  /\ short \in BOOLEAN /\ refused \in BOOLEAN
  /\ mask \in SUBSET {"read", "write"}
  /\ pc \in Points
  /\ after \in {"poll", "recv", "fail", "close"}

(* clientNew, and acceptProcHandler's registration of commandParseProc.    *)
Init ==
  /\ sent = 0 /\ peer = "open" /\ read = 0 /\ received = 0
  /\ buffer = [lo |-> 0, hi |-> 0] /\ pos = 0 /\ consumed = 0
  /\ replyBuffer = [lo |-> 0, hi |-> 0] /\ replyPos = 0
  /\ written = 0 /\ ends = {} /\ short = FALSE /\ refused = FALSE
  /\ mask = {"read"}
  /\ pc = "poll" /\ after = "poll"

blength(b) == b.hi - b.lo

(* bassignblk(b, bdata(b) + n, blength(b) - n) keeps what follows the      *)
(* first n bytes; it fails, and changes nothing, when there are fewer.     *)
DropFront(b, n) == IF n <= blength(b) THEN [b EXCEPT !.lo = @ + n] ELSE b

(* Reply bytes not yet written, and the send buffer's free space.          *)
Pending == blength(replyBuffer) - replyPos
Room == TxCap - (written - read)
-----------------------------------------------------------------------------
(***************************************************************************)
(* The peer sends when it likes, reads when it likes, and may leave.       *)
(***************************************************************************)
Send ==
  /\ peer = "open"
  /\ \E n \in 1..(StreamLen - sent) : sent' = sent + n
  /\ UNCHANGED <<peer, read, inVars, outVars, mask, pc, after>>

PeerReads ==
  /\ peer # "reset"
  /\ \E n \in 1..(written - read) : read' = read + n
  /\ UNCHANGED <<sent, peer, inVars, outVars, mask, pc, after>>

PeerLeaves ==
  /\ \/ peer = "open" /\ peer' = "closed"
     \/ peer # "reset" /\ peer' = "reset"
  /\ UNCHANGED <<sent, read, inVars, outVars, mask, pc, after>>
-----------------------------------------------------------------------------
(***************************************************************************)
(* The event loop finds the descriptor ready and runs its callback,        *)
(* commandParseProc or replyBufferProc.                                    *)
(***************************************************************************)
ReadReady ==
  /\ pc = "poll" /\ "read" \in mask
  /\ sent > received \/ peer # "open"
  /\ pc' = "recv"
  /\ UNCHANGED <<peerVars, inVars, outVars, mask, after>>

WriteReady ==
  /\ pc = "poll" /\ "write" \in mask
  /\ Room > 0 \/ peer = "reset"
  /\ pc' = "write" /\ after' = "poll"
  /\ UNCHANGED <<peerVars, inVars, outVars, mask>>

(* recv() and bcatblk, whose result is ignored: without memory the bytes   *)
(* are lost.                                                               *)
RecvData ==
  /\ pc = "recv" /\ sent > received
  /\ received' = IF received + RecvMax < sent THEN received + RecvMax ELSE sent
  /\ \/ buffer' = [buffer EXCEPT !.hi = @ + (received' - received)]
     \/ AllocMayFail /\ UNCHANGED buffer
  /\ pc' = "parse"
  /\ UNCHANGED <<peerVars, pos, consumed, outVars, mask, after>>

(* EAGAIN: back to the event loop.                                         *)
RecvAgain ==
  /\ pc = "recv" /\ sent = received /\ peer = "open"
  /\ pc' = "poll"
  /\ UNCHANGED <<peerVars, inVars, outVars, mask, after>>

(* End of file, or an error such as ECONNRESET.                            *)
RecvGone ==
  /\ pc = "recv"
  /\ peer = "reset" \/ (peer = "closed" /\ sent = received)
  /\ pc' = "close"
  /\ UNCHANGED <<peerVars, inVars, outVars, mask, after>>
-----------------------------------------------------------------------------
(* What commandParseAndExec hands the parser, whether all that was         *)
(* received is in the buffer, and whether the parser has before it the     *)
(* byte it expects.                                                        *)
Avail == blength(buffer) - pos
NothingLost == buffer.hi = received
InSync == NothingLost /\ buffer.lo + pos = consumed

(* Mutant of Takes: a call stops at the first element it completes.        *)
TakesOne(end, item) ==
  /\ end = consumed \/ end \in ElemEnds
  /\ item <=> (end > consumed /\ end \in CmdEnds)
  /\ \A e \in ElemEnds : ~(consumed < e /\ e < end)

(* One call of respUnmarshal takes every complete element there is, up to  *)
(* the end of the command; item tells whether it got there.                *)
Takes(end, item) ==
  /\ end = consumed \/ end \in ElemEnds
  /\ item <=> (end > consumed /\ end \in CmdEnds)
  /\ \A c \in CmdEnds : ~(consumed < c /\ c < end)
  /\ item \/ \A e \in ElemEnds : ~(end < e /\ e <= buffer.hi)

(* Mutant of Parse: pos moves only when a whole command has been parsed.   *)
ParseKeepsPos ==
  /\ pc = "parse"
  /\ \E len \in {0} \union 1..Avail, item \in BOOLEAN :
       /\ item => len > 0
       /\ InSync /\ Avail > 0 => Takes(consumed + len, item)
       /\ pos' = IF item THEN pos + len ELSE pos
       /\ consumed' = consumed + len
       /\ pc' = IF item THEN "exec" ELSE "recv"
  /\ buffer' = IF pos' > CompactAt THEN DropFront(buffer, pos') ELSE buffer
  /\ UNCHANGED <<received, peerVars, outVars, mask, after>>

(***************************************************************************)
(* commandParseAndExec up to the execution.  A length that is not positive *)
(* makes respUnmarshal return at once.  A parser that is out of step with  *)
(* the stream may find anything in it.                                     *)
(***************************************************************************)
Parse ==
  /\ pc = "parse"
  /\ \E len \in {0} \union 1..Avail, item \in BOOLEAN :
       /\ item => len > 0
       /\ InSync /\ Avail > 0 => Takes(consumed + len, item)
       /\ pos' = pos + len
       /\ consumed' = consumed + len
       /\ pc' = IF item THEN "exec" ELSE "recv"
  /\ buffer' = IF pos' > CompactAt THEN DropFront(buffer, pos') ELSE buffer
  /\ UNCHANGED <<received, peerVars, outVars, mask, after>>

(* Mutant of ParseError: pos += len comes before the test of len.          *)
ParseErrorMovesPos ==
  /\ pc = "parse" /\ Avail > 0
  /\ pos' = pos - 1
  /\ pc' = "fail"
  /\ UNCHANGED <<peerVars, received, buffer, consumed, outVars, mask, after>>

(* The bytes are not RESP: respUnmarshal sets len to -1.                   *)
ParseError ==
  /\ pc = "parse" /\ Avail > 0
  /\ pc' = "fail"
  /\ UNCHANGED <<peerVars, inVars, outVars, mask, after>>

(* Mutant of Exec: an unknown command gets no reply of its own.            *)
ExecSilent ==
  /\ pc = "exec"
  /\ \/ /\ \E n \in ReplyLens :
             replyBuffer' = [replyBuffer EXCEPT !.hi = @ + n]
        /\ ends' = ends \union {replyBuffer'.hi}
        /\ pc' = "write" /\ after' = "recv"
     \/ pc' = "fail" /\ UNCHANGED <<replyBuffer, ends, after>>
  /\ UNCHANGED <<peerVars, inVars, replyPos, written, short, refused, mask>>

(***************************************************************************)
(* commandExec appends one reply and calls reply(), whose result every     *)
(* addReply function ignores.  It then returns 0, or, for a command it     *)
(* does not know, -1.  Nor does anybody look at the result of respMarshal, *)
(* which leaves out of the reply what finds no memory.                     *)
(***************************************************************************)
Exec ==
  /\ pc = "exec"
  /\ \/ /\ \E n \in ReplyLens :
             replyBuffer' = [replyBuffer EXCEPT !.hi = @ + n]
        /\ ends' = ends \union {replyBuffer'.hi}
        /\ UNCHANGED short
     \/ /\ AllocMayFail
        /\ \E n \in CutLens :
             replyBuffer' = [replyBuffer EXCEPT !.hi = @ + n]
        /\ short' = TRUE
        /\ UNCHANGED ends
  /\ pc' = "write" /\ after' \in {"recv", "fail"}
  /\ UNCHANGED <<peerVars, inVars, replyPos, written, refused, mask>>

(* command->proc does not return: it waits in mdb_txn_begin for a          *)
(* transaction that a get has left open, on this connection or another.    *)
Hang ==
  /\ pc = "exec"
  /\ pc' = "hung"
  /\ UNCHANGED <<peerVars, inVars, outVars, mask, after>>

(* replyErrorAndClose: client->err is never set, so that marshalling it    *)
(* appends the type byte '-' and stops.                                    *)
ReplyErrorAndClose ==
  /\ pc = "fail"
  /\ replyBuffer' = [replyBuffer EXCEPT !.hi = @ + 1]
  /\ pc' = "write" /\ after' = "close"
  /\ UNCHANGED <<peerVars, inVars, replyPos, written, ends, short, refused, mask>>

(* clientFree: pending replies go with it.                                 *)
Free ==
  /\ pc = "close"
  /\ mask' = {}
  /\ pc' = "closed"
  /\ UNCHANGED <<peerVars, inVars, outVars, after>>
-----------------------------------------------------------------------------
(***************************************************************************)
(* reply().  Each iteration of its loop is a write(), which takes what it  *)
(* can of the bytes that follow replyPos.                                  *)
(***************************************************************************)
Write ==
  /\ pc = "write" /\ peer # "reset"
  /\ \E n \in 1..Room :
       /\ n <= Pending
       /\ replyPos' = replyPos + n
       /\ written' = written + n
  /\ UNCHANGED <<peerVars, inVars, replyBuffer, ends, short, refused, mask, pc, after>>

(* Mutant of Compact: replyPos is not reset, as pos is not in the input.   *)
CompactKeepsPos ==
  /\ replyBuffer' = IF replyPos > CompactAt
                    THEN DropFront(replyBuffer, replyPos) ELSE replyBuffer
  /\ replyPos' = replyPos

(* The end of reply(), reached unless it returned -1 earlier.              *)
Compact ==
  /\ replyBuffer' = IF replyPos > CompactAt
                    THEN DropFront(replyBuffer, replyPos) ELSE replyBuffer
  /\ replyPos' = IF replyPos > CompactAt THEN 0 ELSE replyPos

(* Mutant of WriteDone: the interest in writing stays.                     *)
WriteDoneKeepsInterest ==
  /\ pc = "write" /\ Pending = 0
  /\ Compact
  /\ pc' = after
  /\ UNCHANGED <<peerVars, inVars, written, ends, short, refused, mask, after>>

(* Nothing is left to write, and the interest in writing goes.             *)
WriteDone ==
  /\ pc = "write" /\ Pending = 0
  /\ Compact
  /\ mask' = mask \ {"write"}
  /\ pc' = after
  /\ UNCHANGED <<peerVars, inVars, written, ends, short, refused, after>>

(* Mutant of WriteBlocks: it counts on the next reply to flush this one.   *)
WriteBlocksSilently ==
  /\ pc = "write" /\ Pending > 0 /\ Room <= 0 /\ peer # "reset"
  /\ Compact
  /\ pc' = after
  /\ UNCHANGED <<peerVars, inVars, written, ends, short, refused, mask, after>>

(* EAGAIN: replyBufferProc is registered for when there is room.           *)
WriteBlocks ==
  /\ pc = "write" /\ Pending > 0 /\ Room <= 0 /\ peer # "reset"
  /\ Compact
  /\ mask' = mask \union {"write"}
  /\ pc' = after
  /\ UNCHANGED <<peerVars, inVars, written, ends, short, refused, after>>

(* reply() returns -1, which only replyBufferProc heeds.                   *)
Abandoned == IF after = "poll" THEN "close" ELSE after

(* driverRegEvent fails after EAGAIN.                                      *)
RegisterFails ==
  /\ RegMayFail
  /\ pc = "write" /\ Pending > 0 /\ Room <= 0 /\ peer # "reset"
  /\ refused' = TRUE
  /\ pc' = Abandoned
  /\ UNCHANGED <<peerVars, inVars, replyBuffer, replyPos, written, ends, short, mask, after>>

(* write() to a reset connection: ECONNRESET, or EPIPE with its signal.    *)
WriteFails ==
  /\ pc = "write" /\ Pending > 0 /\ peer = "reset"
  /\ pc' \in {Abandoned, "killed"}
  /\ UNCHANGED <<peerVars, inVars, outVars, mask, after>>
-----------------------------------------------------------------------------
(* The steps of the server's one thread.                                   *)
Step ==
  \/ ReadReady \/ WriteReady
  \/ RecvData \/ RecvAgain \/ RecvGone
  \/ Parse \/ ParseError \/ Exec \/ Hang \/ ReplyErrorAndClose \/ Free
  \/ Write \/ WriteDone \/ WriteBlocks \/ RegisterFails \/ WriteFails

Next == Send \/ PeerReads \/ PeerLeaves \/ Step

Spec == Init /\ [][Next]_vars

(* The thread runs whenever a callback is due, unless a command never      *)
(* returns (Hang), and the peer reads what it is sent.                     *)
FairSpec == Spec /\ WF_vars(Step) /\ WF_vars(PeerReads)
-----------------------------------------------------------------------------
(***************************************************************************)
(* Properties.                                                             *)
(***************************************************************************)

(* reply() never loses, repeats or reorders a byte, however its writes are *)
(* cut short and whenever it moves the rest of its buffer to the front:    *)
(* the next byte it offers the kernel is the one the kernel expects.       *)
ReplyStreamIntact ==
  /\ replyBuffer.lo + replyPos = written
  /\ read <= written /\ written <= replyBuffer.hi

(* Whenever the connection waits in the event loop, it is registered for   *)
(* writing exactly if replies are pending: no reply is forgotten, and the  *)
(* loop does not spin on a descriptor with nothing to write.  Only if a    *)
(* registration has failed, which the addReply functions ignore, may the   *)
(* two differ.                                                             *)
WriteInterest ==
  pc = "poll" /\ ~refused => ("write" \in mask <=> Pending > 0)

(* What is lost with a connection that ends in an orderly way: replies are *)
(* dropped with it only if the kernel has refused them, so that the        *)
(* connection is waiting for room.  Whatever there was room for has been   *)
(* written, also for a peer that half-closes after its last command.       *)
LostOnlyBacklog ==
  pc = "close" /\ ~refused /\ peer # "reset" /\ Pending > 0 => "write" \in mask

(* The input is read in order, every byte once, up to the first time that  *)
(* the buffer is compacted or that what was received finds no memory, and  *)
(* from then on never again.                                               *)
SyncUntilCompaction == buffer.lo = 0 /\ NothingLost <=> InSync

(* The whole replies the peer has read, and the commands up to a position. *)
RepliesRead == Cardinality({e \in ends : e <= read})
CommandsUpTo(p) == Cardinality({c \in CmdEnds : c <= p})

(* The command that has been parsed and has not been replied to.           *)
Executing == IF pc \in {"exec", "hung"} THEN 1 ELSE 0

(* Up to the first compaction, and while there is memory, every command    *)
(* that was executed got exactly one whole reply.                          *)
OneReplyEach ==
  InSync /\ ~short => Cardinality(ends) = CommandsUpTo(consumed) - Executing

(* client.h: pos is the index up to which the buffer has been processed.   *)
PosIsIndex == InSync

(* client.c: when a command cannot be parsed the server replies an error   *)
(* and closes the connection.  The replies of a connection that is about   *)
(* to be closed end with a whole reply.                                    *)
ErrorIsReplied == pc = "close" => replyBuffer.hi \in ends \union {0}

Gone == pc \in {"closed", "killed"}

(* The next command, and bytes that recv() has yet to bring: its own, or   *)
(* any that follow it.  In a pipeline a command that came in the same      *)
(* recv() as its predecessor waits for such bytes.                         *)
Awaited(c) ==
  /\ InSync /\ received < sent /\ consumed < c /\ c <= sent
  /\ \A d \in CmdEnds : ~(consumed < d /\ d < c)

(* Such a command is executed and its reply reaches the peer, however its  *)
(* bytes are cut, unless the connection ends, a command never returns, the *)
(* buffer is compacted, memory runs short or a registration fails.         *)
CommandsAnswered ==
  \A c \in CmdEnds :
    Awaited(c) ~> \/ RepliesRead >= CommandsUpTo(c)
                  \/ Gone \/ pc = "hung" \/ ~InSync \/ short \/ refused

(* Whatever the server has produced reaches a peer that goes on reading:   *)
(* time and again nothing is left on the way, unless the connection ends,  *)
(* a command never returns, with it the server, or a registration fails.   *)
RepliesFlushed == []<>(read = replyBuffer.hi \/ Gone \/ pc = "hung" \/ refused)
=============================================================================
