------------------------------ MODULE RespFSM ------------------------------
(***************************************************************************)
(* The incremental parser of src/resp/unmarshal.c.  A caller appends what  *)
(* it receives to a buffer and calls respUnmarshal, which takes what it    *)
(* can; what it did not take is offered again, with more, by a later call. *)
(* Between calls everything the parser knows is in the respFSM.            *)
(*                                                                         *)
(* One action is one activation of procItem, movePreTask or moveNextTask.  *)
(* They call each other last, adding up the length they return, so that    *)
(* the call stack is the one number len.                                   *)
(***************************************************************************)
EXTENDS String2ll

CONSTANTS
  Streams,   (* the byte streams the parser may be given                    *)
  MaxDepth,  (* 16: the size of fsm->tasks                                  *)
  MaxLen,    (* 1024 * 1024: the largest length in a header                 *)
  IntMax,    (* INT_MAX                                                     *)
  SizeWrap   (* 2^60: so many respItems have a size that wraps to 0         *)

ASSUME RespAssumption ==
  /\ MaxDepth \in Nat \ {0} /\ MaxLen \in Nat /\ LLMax \in Nat
  /\ IntMax \in Nat /\ MaxLen <= IntMax /\ IntMax <= LLMax /\ MaxLen < SizeWrap
  /\ SizeWrap \in Nat \ {0} /\ SizeWrap % (2 * (IntMax + 1)) = 0
  /\ Streams \subseteq Seq(STRING)

VARIABLES
  stream,  (* all the bytes the caller will receive                         *)
  fed,     (* how many of them it has received                              *)
  base,    (* how many of them earlier calls have taken                     *)
  len,     (* how many the call in progress has taken                       *)
  ridx,    (* fsm->ridx                                                     *)
  tasks,   (* fsm->tasks                                                    *)
  got,     (* the items returned so far: fsm->value, call after call        *)
  pc       (* where the call is                                             *)

vars == <<stream, fed, base, len, ridx, tasks, got, pc>>

(* "idle": between calls; "proc", "pre", "next": entering procItem,        *)
(* movePreTask or moveNextTask; "value": returned an item, "error":        *)
(* returned -1; "died": DIE in zcalloc; "overread": blk2bstr was told to   *)
(* copy bytes that are not there, and what follows is undefined.           *)
Points == {"idle", "proc", "pre", "next", "value", "error", "died", "overread"}

BlankTask == [elementIdx |-> 0, elementCnt |-> 0, item |-> Blank]

(* respFsmRest.                                                            *)
Rest ==
  /\ ridx' = 0
  /\ tasks' = [i \in 0..(MaxDepth - 1) |-> BlankTask]

Init ==
  /\ stream \in Streams
  /\ fed = 0 /\ base = 0 /\ len = 0
  /\ ridx = 0
  /\ tasks = [i \in 0..(MaxDepth - 1) |-> BlankTask]
  /\ got = <<>>
  /\ pc = "idle"
-----------------------------------------------------------------------------
(***************************************************************************)
(* The caller: commandParseProc and commandParseAndExec.  More bytes       *)
(* arrive, and respUnmarshal is called on what has not been taken.  After  *)
(* an item the parser is reset.  The length of the buffer is an int.       *)
(***************************************************************************)
Call ==
  /\ pc = "idle"
  /\ fed' \in (fed + 1)..Len(stream)
  /\ fed' - base <= IntMax
  /\ len' = 0
  /\ pc' = "proc"
  /\ UNCHANGED <<stream, base, ridx, tasks, got>>

Reset ==
  /\ pc = "value"
  /\ Rest
  /\ pc' = "idle"
  /\ UNCHANGED <<stream, fed, base, len, got>>

(* The bytes before the caller, and the task it works on.                  *)
Buffer == SubSeq(stream, base + len + 1, fed)
Cur == tasks[ridx]

Fail ==
  /\ pc' = "error"
  /\ UNCHANGED <<stream, fed, base, len, ridx, tasks, got>>

(* Mutants of Wait: the bytes taken by outer arrays are not counted; the   *)
(* call waits for the missing bytes itself.                                *)
WaitForgets(task) ==
  /\ tasks' = [tasks EXCEPT ![ridx] = task]
  /\ len' = 0
  /\ pc' = "idle"
  /\ UNCHANGED <<stream, fed, base, ridx, got>>

WaitSpins(task) ==
  /\ tasks' = [tasks EXCEPT ![ridx] = task]
  /\ UNCHANGED <<stream, fed, base, len, ridx, got, pc>>

(* The call ends without an item, having taken len bytes.                  *)
Wait(task) ==
  /\ tasks' = [tasks EXCEPT ![ridx] = task]
  /\ base' = base + len
  /\ len' = 0
  /\ pc' = "idle"
  /\ UNCHANGED <<stream, fed, ridx, got>>

(* The current task becomes task, n bytes are taken, and control goes on.  *)
Advance(task, n, point) ==
  /\ tasks' = [tasks EXCEPT ![ridx] = task]
  /\ len' = len + n
  /\ pc' = point
  /\ UNCHANGED <<stream, fed, base, ridx, got>>
-----------------------------------------------------------------------------
(***************************************************************************)
(* procItem.  The first byte of an item gives its type, which the task     *)
(* remembers if the rest of the line has not arrived.                      *)
(***************************************************************************)
TypeOf(byte) ==
  CASE byte = "+" -> "string"
    [] byte = "$" -> "bulk"
    [] byte = ":" -> "integer"
    [] byte = "*" -> "array"
    [] byte = "-" -> "error"
    [] OTHER      -> "unknown"

ItemType == IF Cur.item.type = "unknown" THEN TypeOf(Buffer[1]) ELSE Cur.item.type

Typed == [Cur EXCEPT !.item.type = ItemType]
Holding(item) == [Cur EXCEPT !.item = item]

(* Mutant of LineEnds: end + 1 is compared with > where >= is needed.      *)
LineEndsEarly(end) ==
  /\ end \in 1..(Len(Buffer) - 1)
  /\ Buffer[end + 1] = "CR"
  /\ \A j \in 1..end : Buffer[j] # "CR"

(* The first '\r' is at index end, with at least one byte after it.        *)
LineEnds(end) ==
  /\ end \in 1..(Len(Buffer) - 2)
  /\ Buffer[end + 1] = "CR"
  /\ \A i \in 1..end : Buffer[i] # "CR"

Line(end) == SubSeq(Buffer, 2, end)

ProcEmpty ==
  /\ pc = "proc" /\ Len(Buffer) <= 0
  /\ Wait(Cur)

ProcUnknown ==
  /\ pc = "proc" /\ Len(Buffer) > 0 /\ ItemType = "unknown"
  /\ Fail

ProcNoLine ==
  /\ pc = "proc" /\ Len(Buffer) > 0 /\ ItemType # "unknown"
  /\ ~\E end \in 1..Len(Buffer) : LineEnds(end)
  /\ Wait(Typed)

(* processLineItem.  The line of an integer is skipped: nothing is stored. *)
ProcLine ==
  /\ pc = "proc" /\ Len(Buffer) > 0
  /\ ItemType \in {"string", "error", "integer"}
  /\ \E end \in 1..Len(Buffer) :
       /\ LineEnds(end)
       /\ Advance(CASE ItemType = "string"  -> Holding(String(Line(end)))
                    [] ItemType = "error"   -> Holding(Error(Line(end)))
                    [] ItemType = "integer" -> Typed,
                  end + 2, "pre")

(* The length in a header, which both kinds of header read the same way.   *)
HeaderLength(s) == Converted(s).value
BadLength(s) == ~Converted(s).ok \/ HeaderLength(s) > MaxLen

(* (int) ll.                                                               *)
Ints == (-IntMax - 1)..IntMax
Truncated(ll, n) == (ll - n) % (2 * (IntMax + 1)) = 0

(* A sum of ints.  Both ends of the content are small and positive, so     *)
(* that the sum can pass IntMax, and then wraps, but not the other end.    *)
IntSum(sum) == IF sum > IntMax THEN sum - 2 * (IntMax + 1) ELSE sum

(* The memory for so long a string may be refused too.                     *)
Overread ==
  /\ pc' \in {"overread", "error"}
  /\ UNCHANGED <<stream, fed, base, len, ridx, tasks, got>>

(* processBulkLineItem.  The content and its terminator are awaited whole; *)
(* a negative length that passes that test makes blk2bstr fail, and a      *)
(* length so large that the sum wraps passes it without its content.       *)
ProcBulk ==
  /\ pc = "proc" /\ Len(Buffer) > 0 /\ ItemType = "bulk"
  /\ \E end \in 1..Len(Buffer) :
       /\ LineEnds(end)
       /\ IF BadLength(Line(end)) THEN Fail
          ELSE \E n \in Ints :
                 /\ Truncated(HeaderLength(Line(end)), n)
                 /\ IF IntSum(n + 2 + end + 2) > Len(Buffer) THEN Wait(Typed)
                    ELSE IF n < 0 THEN Fail
                    ELSE IF n + 2 + end + 2 > Len(Buffer) THEN Overread
                    ELSE Advance(Holding(String(SubSeq(Buffer, end + 3, end + 2 + n))),
                                 n + 2 + end + 2, "pre")

(* The counts of elements that zcalloc finds memory for.  A mutant takes   *)
(* the size of an array to be signed.                                      *)
SignedCounts == (-MaxLen)..MaxLen
Counts == 0..MaxLen

(* The size of an array is computed modulo 2^64, so that a negative count  *)
(* mostly asks for more memory than there is, which ends the process.      *)
SizedAs(ll, n) == (ll - n) % SizeWrap = 0

(* processAggregateItem.                                                   *)
ProcArray ==
  /\ pc = "proc" /\ Len(Buffer) > 0 /\ ItemType = "array"
  /\ \E end \in 1..Len(Buffer) :
       /\ LineEnds(end)
       /\ IF BadLength(Line(end)) THEN Fail
          ELSE LET ll == HeaderLength(Line(end)) IN
               \/ \E n \in Counts :
                    /\ SizedAs(ll, n)
                    /\ Advance([elementIdx |-> 0, elementCnt |-> n,
                                item |-> Array([i \in 1..n |-> Blank])],
                               end + 2, IF n > 0 THEN "next" ELSE "pre")
               \/ /\ ~\E n \in Counts : SizedAs(ll, n)
                  /\ pc' = "died"
                  /\ UNCHANGED <<stream, fed, base, len, ridx, tasks, got>>
-----------------------------------------------------------------------------
(* The nesting limit, and a mutant that is off by one.                     *)
LevelExceededLate(level) == level > MaxDepth
LevelExceeded(level) == level >= MaxDepth

(* moveNextTask: down to the first or next element of an array.            *)
MoveNextTask ==
  /\ pc = "next"
  /\ ridx' = ridx + 1
  /\ pc' = IF LevelExceeded(ridx + 1) THEN "error" ELSE "proc"
  /\ UNCHANGED <<stream, fed, base, len, tasks, got>>

(* Mutant of Cleared: only the counters are cleared.                       *)
ClearedCounters(task) == [task EXCEPT !.elementIdx = 0, !.elementCnt = 0]

(* memset(cur, 0, sizeof(respItem)) in movePreTask: a respItem is as long  *)
(* as the two counters and the type, and the union keeps its contents.     *)
Cleared(task) ==
  [elementIdx |-> 0, elementCnt |-> 0, item |-> [task.item EXCEPT !.type = "unknown"]]

(* pre->item.array->argv[pre->elementIdx++] = cur->item.                   *)
Stored(task, item) ==
  [elementIdx |-> task.elementIdx + 1, elementCnt |-> task.elementCnt,
   item |-> [task.item EXCEPT !.argv = [@ EXCEPT ![task.elementIdx + 1] = item]]]

(* movePreTask at the outermost task: the item is complete.                *)
ReturnItem ==
  /\ pc = "pre" /\ ridx = 0
  /\ ridx' = -1
  /\ got' = Append(got, tasks[0].item)
  /\ tasks' = [tasks EXCEPT ![0].item = Blank]
  /\ base' = base + len
  /\ len' = 0
  /\ pc' = "value"
  /\ UNCHANGED <<stream, fed>>

(* movePreTask below: the element is stored in its array.                  *)
StoreElement ==
  /\ pc = "pre" /\ ridx > 0
  /\ LET pre == tasks[ridx - 1] IN
       /\ tasks' = [tasks EXCEPT ![ridx - 1] = Stored(pre, Cur.item),
                                 ![ridx] = Cleared(Cur)]
       /\ pc' = IF pre.elementIdx + 1 = pre.elementCnt THEN "pre" ELSE "next"
  /\ ridx' = ridx - 1
  /\ UNCHANGED <<stream, fed, base, len, got>>

(* The steps inside a call.                                                *)
Step ==
  \/ ProcEmpty \/ ProcUnknown \/ ProcNoLine \/ ProcLine \/ ProcBulk \/ ProcArray
  \/ MoveNextTask \/ ReturnItem \/ StoreElement

Next == Call \/ Reset \/ Step

Spec == Init /\ [][Next]_vars

(* A call runs on the server's thread without stopping.                    *)
FairSpec == Spec /\ WF_vars(Step)
-----------------------------------------------------------------------------
(***************************************************************************)
(* Properties.                                                             *)
(***************************************************************************)
TypeOK ==
  /\ stream \in Streams
  /\ fed \in Nat /\ base \in Nat /\ len \in Nat
  /\ ridx \in -1..MaxDepth
  /\ DOMAIN tasks = 0..(MaxDepth - 1)
  /\ \A i \in DOMAIN tasks :
       /\ tasks[i].elementIdx \in Nat /\ tasks[i].elementCnt \in Nat
       /\ tasks[i].item.type \in Types
  /\ pc \in Points

(* No activation reads or writes outside its arrays, however arrays nest   *)
(* and however the input is cut: the task it works on is one of the        *)
(* MaxDepth tasks, and an element is stored within the argv allocated for  *)
(* its array.                                                              *)
InBounds ==
  /\ pc \in {"idle", "proc", "next", "pre"} => ridx \in DOMAIN tasks
  /\ pc = "pre" /\ ridx > 0 =>
       tasks[ridx - 1].elementIdx + 1 \in DOMAIN tasks[ridx - 1].item.argv

(* The tasks above the current one are arrays that still miss an element,  *)
(* the one being read; those below it are free: an item never begins with  *)
(* a type or a count left over from another.                               *)
StackShape ==
  pc \in {"idle", "proc", "next", "pre"} =>
    \A i \in DOMAIN tasks :
      /\ i < ridx \/ (i = ridx /\ pc = "next") =>
           /\ tasks[i].item.type = "array"
           /\ tasks[i].elementIdx < tasks[i].elementCnt
           /\ DOMAIN tasks[i].item.argv = 1..tasks[i].elementCnt
      /\ i > ridx => tasks[i].item.type = "unknown"

(* A bulk string whose header makes the sum of its lengths pass IntMax.    *)
SumOverflows ==
  /\ ItemType = "bulk"
  /\ \E end \in 1..Len(Buffer), n \in Ints :
       /\ LineEnds(end) /\ ~BadLength(Line(end)) /\ Truncated(HeaderLength(Line(end)), n)
       /\ n + 2 + end + 2 > IntMax

(* A call takes no more bytes than there are, and it copies bytes that     *)
(* have not arrived in one case only: the int that holds the length of a   *)
(* bulk string with its header has overflowed (unmarshal.c:99).            *)
TakesWhatIsThere ==
  /\ base + len <= fed /\ fed <= Len(stream)
  /\ pc = "overread" => SumOverflows

(* What the comment at unmarshal.c:97 says: when the content has not all   *)
(* arrived, processBulkLineItem returns.                                   *)
ContentAwaited == pc # "overread"

(* No arithmetic of string2ll wraps around: it accepts the numerals of the *)
(* values a long long can hold, and those only, with their value.          *)
LongLong == (-LLMax - 1)..LLMax
NumbersRead ==
  fed = 0 /\ Len(stream) > 3 =>
    LET s == SubSeq(stream, 2, Len(stream) - 2)
        fits == IsNumeral(s) /\ string2ll(s) \in LongLong
    IN  Converted(s) = IF fits THEN Accepted(string2ll(s)) ELSE Refused

(* Every call of respUnmarshal ends.                                       *)
CallEnds == pc = "proc" ~> pc \notin {"proc", "pre", "next"}
=============================================================================
