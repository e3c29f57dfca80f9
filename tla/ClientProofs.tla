---------------------------- MODULE ClientProofs ----------------------------
(***************************************************************************)
(* Proofs about Client, for every request stream, every length of replies  *)
(* and every size of the buffers.                                          *)
(***************************************************************************)
EXTENDS Client, FiniteSetTheorems, TLAPS

LEMMA TypeInit == Init => TypeOK
<1> SUFFICES ASSUME Init PROVE TypeOK
  OBVIOUS
<1>1. buffer \in Buffers /\ replyBuffer \in Buffers
  BY DEF Init, Buffers
<1>2. refused \in BOOLEAN /\ short \in BOOLEAN
  BY DEF Init
<1> QED
  BY <1>1, <1>2, ClientAssumption DEF Init, TypeOK, Points

(* A compaction yields a buffer.                                           *)
LEMMA DropFrontType ==
  ASSUME NEW b \in Buffers, NEW n \in Nat
  PROVE  /\ DropFront(b, n) \in Buffers
         /\ DropFront(b, n).hi = b.hi
         /\ DropFront(b, n).lo = IF n <= b.hi - b.lo THEN b.lo + n ELSE b.lo
BY DEF DropFront, Buffers, blength

LEMMA CompactType ==
  ASSUME TypeOK, Compact
  PROVE  replyBuffer' \in Buffers /\ replyPos' \in Nat
BY DropFrontType DEF TypeOK, Compact

LEMMA TypeNext == TypeOK /\ [Next]_vars => TypeOK'
<1> SUFFICES ASSUME TypeOK, [Next]_vars PROVE TypeOK'
  OBVIOUS
<1> USE ClientAssumption DEF TypeOK, Points, peerVars, inVars, outVars
<1>1. CASE Send
  BY <1>1 DEF Send
<1>2. CASE PeerReads
  <2>1. read' \in Nat
    BY <1>2 DEF PeerReads
  <2> QED
    BY <1>2, <2>1 DEF PeerReads
<1>3. CASE PeerLeaves
  BY <1>3 DEF PeerLeaves
<1>4. CASE ReadReady
  BY <1>4 DEF ReadReady
<1>5. CASE WriteReady
  BY <1>5 DEF WriteReady
<1>6. CASE RecvData
  <2>0. received' \in Nat /\ received' - received \in Nat
    BY <1>6 DEF RecvData
  <2>1. buffer' \in Buffers
    BY <1>6, <2>0 DEF RecvData, Buffers
  <2> QED
    BY <1>6, <2>0, <2>1 DEF RecvData
<1>7. CASE RecvAgain
  BY <1>7 DEF RecvAgain
<1>8. CASE RecvGone
  BY <1>8 DEF RecvGone
<1>9. CASE Parse
  <2>1. pos' \in Nat /\ consumed' \in Nat /\ pc' \in {"exec", "recv"}
    BY <1>9 DEF Parse, Avail, blength, Buffers
  <2>2. buffer' \in Buffers
    BY <1>9, <2>1, DropFrontType DEF Parse
  <2> QED
    BY <1>9, <2>1, <2>2 DEF Parse
<1>10. CASE ParseError
  BY <1>10 DEF ParseError
<1>11. CASE Exec
  <2>1. replyBuffer' \in Buffers
    BY <1>11 DEF Exec, Buffers
  <2>2. ends' \in SUBSET Nat /\ short' \in BOOLEAN
    BY <1>11, <2>1 DEF Exec, Buffers
  <2> QED
    BY <1>11, <2>1, <2>2 DEF Exec
<1>12. CASE ReplyErrorAndClose
  <2>1. replyBuffer' \in Buffers
    BY <1>12 DEF ReplyErrorAndClose, Buffers
  <2> QED
    BY <1>12, <2>1 DEF ReplyErrorAndClose
<1>13. CASE Free
  BY <1>13 DEF Free
<1>14. CASE Write
  <2>1. replyPos' \in Nat /\ written' \in Nat
    BY <1>14 DEF Write, Room
  <2> QED
    BY <1>14, <2>1 DEF Write
<1>15. CASE WriteDone
  BY <1>15, CompactType DEF WriteDone
<1>16. CASE WriteBlocks
  BY <1>16, CompactType DEF WriteBlocks
<1>17. CASE RegisterFails
  BY <1>17 DEF RegisterFails, Abandoned
<1>18. CASE WriteFails
  BY <1>18 DEF WriteFails, Abandoned
<1>19. CASE Hang
  BY <1>19 DEF Hang
<1>20. CASE UNCHANGED vars
  BY <1>20 DEF vars
<1> QED
  BY <1>1, <1>2, <1>3, <1>4, <1>5, <1>6, <1>7, <1>8, <1>9, <1>10, <1>11,
     <1>12, <1>13, <1>14, <1>15, <1>16, <1>17, <1>18, <1>19, <1>20 DEF Next, Step

(* The variables of a connection always have their types.                  *)
THEOREM TypeCorrect == Spec => []TypeOK
<1> QED
  BY TypeInit, TypeNext, PTL DEF Spec
-----------------------------------------------------------------------------
(***************************************************************************)
(* The reply stream.  ReplyStreamIntact is inductive with the types.       *)
(***************************************************************************)
LEMMA CompactKeepsStream ==
  ASSUME TypeOK, ReplyStreamIntact, Compact
  PROVE  /\ replyBuffer'.lo + replyPos' = replyBuffer.lo + replyPos
         /\ replyBuffer'.hi = replyBuffer.hi
<1>1. CASE replyPos > CompactAt
  <2>1. replyPos \in Nat /\ replyPos <= replyBuffer.hi - replyBuffer.lo
    BY DEF TypeOK, ReplyStreamIntact, Buffers
  <2> QED
    BY <1>1, <2>1, DropFrontType DEF TypeOK, Compact, Buffers
<1>2. CASE ~(replyPos > CompactAt)
  BY <1>2 DEF Compact
<1> QED
  BY <1>1, <1>2

LEMMA StreamNext ==
  TypeOK /\ ReplyStreamIntact /\ [Next]_vars => ReplyStreamIntact'
<1> SUFFICES ASSUME TypeOK, ReplyStreamIntact, [Next]_vars
             PROVE  ReplyStreamIntact'
  OBVIOUS
<1> USE DEF ReplyStreamIntact, outVars, peerVars
<1>1. CASE Write
  <2>1. /\ replyBuffer.lo \in Nat /\ replyBuffer.hi \in Nat
        /\ replyPos \in Nat /\ written \in Nat /\ read \in Nat
    BY DEF TypeOK, Buffers
  <2>2. PICK n \in 1..Room : /\ n <= replyBuffer.hi - replyBuffer.lo - replyPos
                            /\ replyPos' = replyPos + n
                            /\ written' = written + n
    BY <1>1 DEF Write, Pending, blength
  <2>3. n \in Int /\ n >= 1
    BY <2>1, <2>2, ClientAssumption DEF Room
  <2> QED
    BY <1>1, <2>1, <2>2, <2>3 DEF Write
<1>2. CASE PeerReads
  <2>1. PICK n \in 1..(written - read) : read' = read + n
    BY <1>2 DEF PeerReads
  <2> QED
    BY <1>2, <2>1 DEF PeerReads, TypeOK
<1>3. CASE Exec
  <2>1. PICK n \in ReplyLens \union CutLens :
          replyBuffer' = [replyBuffer EXCEPT !.hi = @ + n]
    BY <1>3 DEF Exec
  <2>2. /\ replyBuffer'.lo = replyBuffer.lo
        /\ replyBuffer'.hi >= replyBuffer.hi
    BY <2>1, ClientAssumption DEF TypeOK, Buffers
  <2> QED
    BY <1>3, <2>1, <2>2, ClientAssumption DEF Exec, TypeOK, Buffers
<1>4. CASE ReplyErrorAndClose
  BY <1>4 DEF ReplyErrorAndClose, TypeOK, Buffers
<1>5. CASE WriteDone \/ WriteBlocks
  <2>1. /\ replyBuffer'.lo + replyPos' = replyBuffer.lo + replyPos
        /\ replyBuffer'.hi = replyBuffer.hi
    BY <1>5, CompactKeepsStream DEF WriteDone, WriteBlocks
  <2> QED
    BY <1>5, <2>1 DEF WriteDone, WriteBlocks
<1>6. CASE \/ Send \/ PeerLeaves \/ ReadReady \/ WriteReady \/ RecvData
           \/ RecvAgain \/ RecvGone \/ Parse \/ ParseError \/ Hang \/ Free
           \/ RegisterFails \/ WriteFails
  BY <1>6 DEF Hang, Send, PeerLeaves, ReadReady, WriteReady, RecvData, RecvAgain,
              RecvGone, Parse, ParseError, Free, RegisterFails, WriteFails
<1>7. CASE UNCHANGED vars
  BY <1>7 DEF vars
<1> QED
  BY <1>1, <1>2, <1>3, <1>4, <1>5, <1>6, <1>7 DEF Next, Step

(* reply() hands the kernel every reply byte once and in order, whatever   *)
(* the kernel takes of each write and whenever the buffer is compacted.    *)
THEOREM RepliesIntact == Spec => []ReplyStreamIntact
<1>1. Init => ReplyStreamIntact
  BY DEF Init, ReplyStreamIntact
<1> QED
  BY <1>1, TypeCorrect, StreamNext, PTL DEF Spec
-----------------------------------------------------------------------------
(***************************************************************************)
(* The input.  The distance from what the parser has consumed to where     *)
(* commandParseAndExec reads next is 0 until the first compaction; a       *)
(* compaction adds pos to it, and nothing ever takes from it.  Nor is what *)
(* found no memory ever made up for.                                       *)
(***************************************************************************)
Drift ==
  /\ buffer.hi <= received
  /\ buffer.lo = 0 => buffer.lo + pos = consumed
  /\ buffer.lo > 0 => buffer.lo + pos > consumed

LEMMA DriftNext == TypeOK /\ Drift /\ [Next]_vars => Drift'
<1> SUFFICES ASSUME TypeOK, Drift, [Next]_vars PROVE Drift'
  OBVIOUS
<1>0. /\ buffer \in Buffers /\ buffer.lo \in Nat /\ buffer.hi \in Nat
      /\ pos \in Nat /\ consumed \in Nat /\ received \in Nat
  BY DEF TypeOK, Buffers
<1>1. CASE Parse
  <2>0. buffer'.hi = buffer.hi /\ received' = received
    <3>1. \E len \in {0} \union 1..Avail : pos' = pos + len
      BY <1>1 DEF Parse
    <3>2. pos' \in Nat
      BY <1>0, <3>1 DEF Avail, blength
    <3> QED
      BY <1>0, <1>1, <3>2, DropFrontType DEF Parse
  <2>1. PICK len \in {0} \union 1..Avail :
          pos' = pos + len /\ consumed' = consumed + len
    BY <1>1 DEF Parse
  <2>2. len \in Nat /\ pos' \in Nat
    BY <1>0, <2>1 DEF Avail, blength
  <2>3. CASE pos' > CompactAt /\ pos' <= buffer.hi - buffer.lo
    <3>1. buffer'.lo = buffer.lo + pos'
      BY <1>0, <1>1, <2>2, <2>3, DropFrontType DEF Parse
    <3>2. pos' > 0
      BY <2>2, <2>3, ClientAssumption
    <3> QED
      BY <1>0, <2>0, <2>1, <2>2, <3>1, <3>2 DEF Drift
  <2>4. CASE ~(pos' > CompactAt /\ pos' <= buffer.hi - buffer.lo)
    <3>1. buffer'.lo = buffer.lo
      BY <1>0, <1>1, <2>2, <2>4, DropFrontType DEF Parse
    <3> QED
      BY <1>0, <2>0, <2>1, <2>2, <3>1 DEF Drift
  <2> QED
    BY <2>3, <2>4
<1>2. CASE RecvData
  <2>1. received' \in Nat /\ received' >= received
    BY <1>0, <1>2, ClientAssumption DEF RecvData, TypeOK
  <2>2. buffer'.lo = buffer.lo /\ buffer'.hi <= received'
    BY <1>0, <1>2, <2>1 DEF RecvData, Drift, Buffers
  <2> QED
    BY <1>0, <1>2, <2>2 DEF RecvData, Drift
<1>3. CASE \/ Send \/ PeerReads \/ PeerLeaves \/ ReadReady \/ WriteReady
           \/ RecvAgain \/ RecvGone \/ ParseError \/ Exec \/ Hang
           \/ ReplyErrorAndClose \/ Free \/ Write \/ WriteDone
           \/ WriteBlocks \/ RegisterFails \/ WriteFails
  BY <1>3 DEF Hang, Send, PeerReads, PeerLeaves, ReadReady, WriteReady, RecvAgain,
              RecvGone, ParseError, Exec, ReplyErrorAndClose, Free, Write,
              WriteDone, WriteBlocks, RegisterFails, WriteFails, inVars, Drift
<1>4. CASE UNCHANGED vars
  BY <1>4 DEF vars, Drift
<1> QED
  BY <1>1, <1>2, <1>3, <1>4 DEF Next, Step

(* The input is read in order, every byte once, until the buffer is first  *)
(* compacted or what was received finds no memory, and never again         *)
(* afterwards: no sequence of requests brings the connection back into     *)
(* step.                                                                   *)
THEOREM InputSync == Spec => []SyncUntilCompaction
<1>1. Init => Drift
  BY DEF Init, Drift
<1>2. TypeOK /\ Drift => SyncUntilCompaction
  BY DEF TypeOK, Buffers, Drift, SyncUntilCompaction, InSync, NothingLost
<1> QED
  BY <1>1, <1>2, TypeCorrect, DriftNext, PTL DEF Spec
-----------------------------------------------------------------------------
(***************************************************************************)
(* The interest in writing.  Outside reply() it agrees with the pending    *)
(* replies, except on a connection that reply() has found reset and that   *)
(* will be closed before the event loop waits for it again.                *)
(***************************************************************************)
Interest ==
  ~refused /\ pc \in {"poll", "recv", "parse", "exec", "fail", "close"}
    => \/ "write" \in mask <=> Pending > 0
       \/ peer = "reset" /\ pc # "poll"

LEMMA InterestNext ==
  TypeOK /\ ReplyStreamIntact /\ Interest /\ [Next]_vars => Interest'
<1> SUFFICES ASSUME TypeOK, ReplyStreamIntact, Interest, [Next]_vars
             PROVE  Interest'
  OBVIOUS
<1>1. CASE WriteDone
  <2>1. /\ replyBuffer'.lo + replyPos' = replyBuffer.lo + replyPos
        /\ replyBuffer'.hi = replyBuffer.hi
        /\ replyBuffer' \in Buffers /\ replyPos' \in Nat
    BY <1>1, CompactKeepsStream, CompactType DEF WriteDone
  <2>2. Pending' = Pending
    BY <2>1 DEF Pending, blength, TypeOK, Buffers
  <2> QED
    BY <1>1, <2>2 DEF WriteDone, Interest
<1>2. CASE WriteBlocks
  <2>1. /\ replyBuffer'.lo + replyPos' = replyBuffer.lo + replyPos
        /\ replyBuffer'.hi = replyBuffer.hi
        /\ replyBuffer' \in Buffers /\ replyPos' \in Nat
    BY <1>2, CompactKeepsStream, CompactType DEF WriteBlocks
  <2>2. Pending' = Pending
    BY <2>1 DEF Pending, blength, TypeOK, Buffers
  <2> QED
    BY <1>2, <2>2 DEF WriteBlocks, Interest
<1>3. CASE Write
  BY <1>3 DEF Write, Interest
<1>4. CASE Exec \/ ReplyErrorAndClose
  BY <1>4 DEF Exec, ReplyErrorAndClose, Interest
<1>5. CASE WriteFails \/ RegisterFails
  <2>1. after \in {"poll", "recv", "fail", "close"}
    BY DEF TypeOK
  <2>2. pc' \in {"recv", "fail", "close", "killed"}
    BY <1>5, <2>1 DEF WriteFails, RegisterFails, Abandoned
  <2>3. RegisterFails => refused'
    BY DEF RegisterFails
  <2> QED
    BY <1>5, <2>2, <2>3 DEF WriteFails, RegisterFails, Interest, peerVars
<1>6. CASE Parse \/ RecvData
  BY <1>6 DEF Parse, RecvData, Interest, Pending, outVars, peerVars
<1>7. CASE \/ Send \/ PeerReads \/ PeerLeaves \/ ReadReady \/ WriteReady
           \/ RecvAgain \/ RecvGone \/ ParseError \/ Hang \/ Free
  BY <1>7 DEF Hang, Send, PeerReads, PeerLeaves, ReadReady, WriteReady, RecvAgain,
              RecvGone, ParseError, Free, Interest, Pending, outVars, peerVars
<1>8. CASE UNCHANGED vars
  BY <1>8 DEF vars, Interest, Pending
<1> QED
  BY <1>1, <1>2, <1>3, <1>4, <1>5, <1>6, <1>7, <1>8 DEF Next, Step

(* Until one of its registrations fails, a connection that waits in the    *)
(* event loop is registered for writing exactly while it has replies to    *)
(* write.                                                                  *)
THEOREM InterestMatches == Spec => []WriteInterest
<1>1. Init => Interest
  BY DEF Init, Interest, Pending, blength
<1>2. Interest => WriteInterest
  BY DEF Interest, WriteInterest
<1> QED
  BY <1>1, <1>2, TypeCorrect, RepliesIntact, InterestNext, PTL DEF Spec

(* A connection that is freed in an orderly way takes replies with it only *)
(* if the kernel had refused them for lack of room, for any sizes of the   *)
(* buffers and of the replies and however the peer reads.                  *)
THEOREM OnlyBacklogLost == Spec => []LostOnlyBacklog
<1>1. Init => Interest
  BY DEF Init, Interest, Pending, blength
<1>2. TypeOK /\ ReplyStreamIntact /\ Interest => LostOnlyBacklog
  BY DEF Interest, LostOnlyBacklog
<1> QED
  BY <1>1, <1>2, TypeCorrect, RepliesIntact, InterestNext, PTL DEF Spec
-----------------------------------------------------------------------------
(***************************************************************************)
(* The replies and the commands.  While the parser is in step, a call of   *)
(* it passes the end of one command if it returns an item, and of none if  *)
(* it does not; the reply of that command ends behind all others.          *)
(***************************************************************************)
Passed(p) == {c \in CmdEnds : c <= p}

Counted ==
  /\ IsFiniteSet(ends)
  /\ \A e \in ends : e <= replyBuffer.hi
  /\ InSync /\ ~short => Cardinality(ends) = Cardinality(Passed(consumed)) - Executing

LEMMA PassedFinite ==
  ASSUME NEW p
  PROVE  IsFiniteSet(Passed(p)) /\ Cardinality(Passed(p)) \in Nat
<1>1. IsFiniteSet(1..StreamLen)
  BY FS_Interval, ClientAssumption
<1>2. Passed(p) \in SUBSET (1..StreamLen)
  BY ClientAssumption DEF Passed
<1> QED
  BY <1>1, <1>2, FS_Subset, FS_CardinalityType

(* What a call of the parser that is in step passes.                       *)
LEMMA TakesPasses ==
  ASSUME TypeOK, NEW len \in Nat, NEW item \in BOOLEAN, Takes(consumed + len, item)
  PROVE  Cardinality(Passed(consumed + len)) =
           Cardinality(Passed(consumed)) + (IF item THEN 1 ELSE 0)
<1> DEFINE end == consumed + len
<1>0. consumed \in Nat /\ end \in Nat /\ end >= consumed
  BY DEF TypeOK
<1>a. \A c \in CmdEnds : c \in Nat /\ ~(consumed < c /\ c < end)
  BY ClientAssumption DEF Takes
<1>1. CASE item
  <2>1. end > consumed /\ end \in CmdEnds
    BY <1>1 DEF Takes
  <2>2. Passed(end) = Passed(consumed) \union {end}
    BY <1>0, <1>a, <2>1 DEF Passed
  <2>3. end \notin Passed(consumed)
    BY <1>0, <2>1 DEF Passed
  <2> QED
    BY <1>1, <2>2, <2>3, PassedFinite, FS_AddElement
<1>2. CASE ~item
  <2>1. ~(end > consumed /\ end \in CmdEnds)
    BY <1>2 DEF Takes
  <2>2. Passed(end) = Passed(consumed)
    BY <1>0, <1>a, <2>1 DEF Passed
  <2> QED
    BY <1>2, <2>2, PassedFinite
<1> QED
  BY <1>1, <1>2

LEMMA CountedNext ==
  TypeOK /\ ReplyStreamIntact /\ Drift /\ Drift' /\ Counted /\ [Next]_vars => Counted'
<1> SUFFICES ASSUME TypeOK, ReplyStreamIntact, Drift, Drift', Counted, [Next]_vars
             PROVE  Counted'
  OBVIOUS
<1>0. /\ buffer \in Buffers /\ buffer.lo \in Nat /\ buffer.hi \in Nat
      /\ pos \in Nat /\ consumed \in Nat
      /\ replyBuffer \in Buffers /\ replyBuffer.hi \in Nat /\ ends \subseteq Nat
      /\ received \in Nat /\ short \in BOOLEAN
  BY DEF TypeOK, Buffers
<1>1. CASE Parse
  <2>1. PICK len \in {0} \union 1..Avail, item \in BOOLEAN :
          /\ item => len > 0
          /\ InSync /\ Avail > 0 => Takes(consumed + len, item)
          /\ pos' = pos + len /\ consumed' = consumed + len
          /\ pc' = IF item THEN "exec" ELSE "recv"
    BY <1>1 DEF Parse
  <2>2. len \in Nat /\ pos' \in Nat
    BY <1>0, <2>1 DEF Avail, blength
  <2>3. pc = "parse" /\ ends' = ends /\ replyBuffer' = replyBuffer /\ short' = short
    BY <1>1 DEF Parse, outVars
  <2>4. ASSUME InSync' PROVE InSync
    <3>1. buffer'.lo = buffer.lo \/ buffer'.lo = buffer.lo + pos'
      BY <1>0, <1>1, <2>2, DropFrontType DEF Parse
    <3>2. buffer'.lo \in Nat
      BY <1>0, <2>2, <3>1
    <3>3. buffer'.lo = 0
      BY <1>0, <2>1, <2>2, <2>4, <3>2 DEF Drift, InSync
    <3>4. buffer.lo = 0
      BY <1>0, <2>2, <3>1, <3>3
    <3>5. received' = received /\ buffer'.hi = buffer.hi
      BY <1>0, <1>1, <2>2, DropFrontType DEF Parse
    <3> QED
      BY <2>4, <3>4, <3>5 DEF Drift, InSync, NothingLost
  <2>5. ASSUME InSync'
        PROVE  Cardinality(Passed(consumed')) =
                 Cardinality(Passed(consumed)) + (IF item THEN 1 ELSE 0)
    <3>1. CASE Avail > 0
      BY <2>1, <2>2, <2>4, <2>5, <3>1, TakesPasses
    <3>2. CASE ~(Avail > 0)
      <4>1. len = 0 /\ ~item /\ consumed' = consumed
        BY <1>0, <2>1, <2>2, <3>2 DEF Avail, blength
      <4> QED
        BY <4>1, PassedFinite
    <3> QED
      BY <3>1, <3>2
  <2>6. Executing = 0 /\ Executing' = IF item THEN 1 ELSE 0
    BY <2>1, <2>3 DEF Executing
  <2>7. InSync' /\ ~short => Cardinality(ends') = Cardinality(Passed(consumed'))  - Executing'
    BY <2>3, <2>4, <2>5, <2>6, PassedFinite DEF Counted
  <2>8. Passed(consumed)' = Passed(consumed')
    BY DEF Passed
  <2> QED
    BY <2>3, <2>7, <2>8 DEF Counted
<1>2. CASE Exec
  <2>0. CASE /\ short' = TRUE /\ ends' = ends
             /\ \E n \in CutLens : replyBuffer' = [replyBuffer EXCEPT !.hi = @ + n]
    <3>1. PICK n \in CutLens : replyBuffer' = [replyBuffer EXCEPT !.hi = @ + n]
      BY <2>0
    <3>2. n \in Nat /\ replyBuffer'.hi = replyBuffer.hi + n
      BY <1>0, <3>1, ClientAssumption DEF Buffers
    <3>3. \A e \in ends' : e <= replyBuffer'.hi
      BY <1>0, <2>0, <3>2 DEF Counted
    <3> QED
      BY <2>0, <3>3 DEF Counted
  <2> SUFFICES ASSUME short' = short /\ ends' = ends \union {replyBuffer'.hi},
                      \E n \in ReplyLens : replyBuffer' = [replyBuffer EXCEPT !.hi = @ + n]
               PROVE  Counted'
    BY <1>2, <2>0 DEF Exec
  <2>1. PICK n \in ReplyLens : replyBuffer' = [replyBuffer EXCEPT !.hi = @ + n]
    OBVIOUS
  <2>2. n \in Nat /\ n > 0 /\ replyBuffer'.hi = replyBuffer.hi + n
    BY <1>0, <2>1, ClientAssumption DEF Buffers
  <2>3. ends' = ends \union {replyBuffer'.hi} /\ replyBuffer'.hi \notin ends
    BY <1>0, <2>2 DEF Counted
  <2>4. IsFiniteSet(ends') /\ Cardinality(ends') = Cardinality(ends) + 1
    BY <2>3, FS_AddElement DEF Counted
  <2>5. \A e \in ends' : e <= replyBuffer'.hi
    BY <1>0, <2>2, <2>3 DEF Counted
  <2>6. Executing = 1 /\ Executing' = 0
    BY <1>2 DEF Exec, Executing, TypeOK
  <2>7. (InSync' <=> InSync) /\ Passed(consumed)' = Passed(consumed)
    BY <1>2 DEF Exec, inVars, InSync, NothingLost, Passed
  <2>8. Cardinality(ends) \in Nat /\ Cardinality(Passed(consumed)) \in Nat
    BY PassedFinite, FS_CardinalityType DEF Counted
  <2> QED
    BY <2>4, <2>5, <2>6, <2>7, <2>8 DEF Counted
<1>3. CASE \/ Send \/ PeerReads \/ PeerLeaves \/ ReadReady \/ WriteReady
           \/ RecvData \/ RecvAgain \/ RecvGone \/ ParseError \/ Hang
           \/ ReplyErrorAndClose \/ Free \/ Write \/ WriteDone
           \/ WriteBlocks \/ RegisterFails \/ WriteFails \/ UNCHANGED vars
  <2>1. UNCHANGED <<ends, pos, consumed, short>>
    BY <1>3 DEF Hang, Send, PeerReads, PeerLeaves, ReadReady, WriteReady, RecvData,
                RecvAgain, RecvGone, ParseError, ReplyErrorAndClose, Free, Write,
                WriteDone, WriteBlocks, RegisterFails, WriteFails, vars,
                peerVars, inVars, outVars
  <2>2. buffer'.lo = buffer.lo /\ (InSync' => NothingLost)
    <3>1. CASE RecvData
      <4>1. received' \in Nat /\ received' >= received /\ (received' > received)
        BY <1>0, <3>1, ClientAssumption DEF RecvData, TypeOK
      <4> QED
        BY <1>0, <3>1, <4>1 DEF RecvData, Drift, InSync, NothingLost, Buffers
    <3> QED
    BY <1>0, <1>3, <3>1 DEF InSync, NothingLost, Hang, Send, PeerReads, PeerLeaves,
                ReadReady, WriteReady, RecvAgain, RecvGone, ParseError, ReplyErrorAndClose, Free, Write,
                WriteDone, WriteBlocks, RegisterFails, WriteFails, vars,
                peerVars, inVars, outVars, Buffers
  <2>3. replyBuffer'.hi >= replyBuffer.hi /\ replyBuffer'.hi \in Nat
    <3>1. CASE WriteDone \/ WriteBlocks
      BY <1>0, <3>1, CompactKeepsStream DEF WriteDone, WriteBlocks
    <3>2. CASE ReplyErrorAndClose
      BY <1>0, <3>2 DEF ReplyErrorAndClose, Buffers
    <3>3. CASE \/ Send \/ PeerReads \/ PeerLeaves \/ ReadReady \/ WriteReady
               \/ RecvData \/ RecvAgain \/ RecvGone \/ ParseError \/ Hang \/ Free \/ Write
               \/ RegisterFails \/ WriteFails \/ UNCHANGED vars
      BY <1>0, <3>3 DEF Hang, Send, PeerReads, PeerLeaves, ReadReady, WriteReady, RecvData,
                  RecvAgain, RecvGone, ParseError, Free, Write, RegisterFails,
                  WriteFails, vars, outVars
    <3> QED
      BY <1>3, <3>1, <3>2, <3>3
  <2>4. pc \in {"exec", "hung"} <=> pc' \in {"exec", "hung"}
    <3>1. after \notin {"exec", "hung"} /\ Abandoned \notin {"exec", "hung"}
      BY DEF TypeOK, Abandoned
    <3> QED
      BY <1>3, <3>1 DEF Hang, Send, PeerReads, PeerLeaves, ReadReady, WriteReady, RecvData,
                  RecvAgain, RecvGone, ParseError, ReplyErrorAndClose, Free, Write,
                  WriteDone, WriteBlocks, RegisterFails, WriteFails, vars
  <2>5. (InSync' => InSync) /\ Passed(consumed)' = Passed(consumed)
        /\ Executing' = Executing
    BY <2>1, <2>2, <2>4 DEF InSync, Passed, Executing
  <2>6. \A e \in ends' : e <= replyBuffer'.hi
    BY <1>0, <2>1, <2>3 DEF Counted
  <2> QED
    BY <2>1, <2>5, <2>6 DEF Counted
<1> QED
  BY <1>1, <1>2, <1>3 DEF Next, Step

(* Until the buffer is first compacted or memory runs short, each command  *)
(* that was executed got exactly one whole reply, however requests and     *)
(* replies are cut.                                                        *)
THEOREM RepliesCounted == Spec => []OneReplyEach
<1>1. Init => Drift
  BY DEF Init, Drift
<1>2. Init => Counted
  <2> SUFFICES ASSUME Init PROVE Counted
    OBVIOUS
  <2>1. \A c \in CmdEnds : c \in Nat /\ c > 0
    BY ClientAssumption
  <2>2. Passed(consumed) = {}
    BY <2>1 DEF Init, Passed
  <2> QED
    BY <2>2, FS_EmptySet DEF Init, Counted, Executing
<1>3. Counted => OneReplyEach
  BY DEF Counted, OneReplyEach, CommandsUpTo, Passed, Executing
<1> QED
  BY <1>1, <1>2, <1>3, TypeCorrect, RepliesIntact, DriftNext, CountedNext, PTL DEF Spec
=============================================================================
