----------------------------- MODULE RespProofs -----------------------------
(***************************************************************************)
(* Proofs about RespFSM, for every input, however it is cut into calls,    *)
(* and for every nesting limit: the parser's stack of tasks keeps its      *)
(* shape, so that no step leaves the bounds of tasks or argv, and a call   *)
(* never takes a byte that has not arrived.  And that string2ll, which     *)
(* reads the lengths, means what it should.                                *)
(***************************************************************************)
EXTENDS RespFSM, TLAPS, WellFoundedInduction

(* The structs of resp.h.  What argv holds is of no concern here.          *)
ItemOK(x) ==
  /\ x = [type |-> x.type, bytes |-> x.bytes, argv |-> x.argv]
  /\ x.type \in Types

TaskOK(t) ==
  /\ t = [elementIdx |-> t.elementIdx, elementCnt |-> t.elementCnt, item |-> t.item]
  /\ t.elementIdx \in Nat /\ t.elementCnt \in Nat
  /\ ItemOK(t.item)

TasksOK ==
  /\ tasks = [i \in 0..(MaxDepth - 1) |-> tasks[i]]
  /\ \A i \in 0..(MaxDepth - 1) : TaskOK(tasks[i])

Active == pc \in {"idle", "proc", "next", "pre"}

(* The inductive invariant.  StackShape speaks of the tasks only while the *)
(* parser is at work; the last conjunct says where it is then.             *)
IInv ==
  /\ stream \in Streams
  /\ fed \in Nat /\ base \in Nat /\ len \in Nat
  /\ ridx \in -1..MaxDepth
  /\ pc \in Points
  /\ TasksOK
  /\ TakesWhatIsThere
  /\ fed - base <= IntMax
  /\ StackShape
  /\ Active => ridx \in 0..(MaxDepth - 1)

LEMMA BlankOK == TaskOK(BlankTask) /\ BlankTask.item.type = "unknown"
BY DEF TaskOK, ItemOK, BlankTask, Blank, Types

LEMMA ItemsOK ==
  ASSUME NEW b
  PROVE  /\ ItemOK(String(b)) /\ String(b).type = "string"
         /\ ItemOK(Error(b)) /\ Error(b).type = "error"
         /\ ItemOK(Array(b)) /\ Array(b).type = "array" /\ Array(b).argv = b
BY DEF ItemOK, String, Error, Array, Blank, Types

LEMMA TypeOfType == ASSUME NEW b PROVE TypeOf(b) \in Types
BY DEF TypeOf, Types

(* The buffer a call works on is as long as the bytes it has not taken.    *)
LEMMA BufferLength ==
  ASSUME IInv
  PROVE  Len(Buffer) = fed - base - len /\ Len(Buffer) <= IntMax
<1>1. stream \in Seq(STRING) /\ Len(stream) \in Nat
  BY RespAssumption DEF IInv
<1>2. base + len + 1 \in 1..Len(stream) + 1 /\ fed \in 0..Len(stream)
  BY <1>1 DEF IInv, TakesWhatIsThere
<1>3. Len(Buffer) = fed - base - len
  BY <1>1, <1>2 DEF Buffer, IInv, TakesWhatIsThere
<1> QED
  BY <1>3, RespAssumption DEF IInv

(* The current task, given a type or an item, is still a task.             *)
LEMMA CurOK ==
  ASSUME IInv, pc = "proc"
  PROVE  /\ TaskOK(Cur) /\ TaskOK(Typed)
         /\ \A x : ItemOK(x) => TaskOK(Holding(x))
<1>1. TaskOK(Cur)
  BY DEF IInv, Active, TasksOK, Cur
<1>2. ItemType \in Types
  BY <1>1, TypeOfType DEF ItemType, TaskOK, ItemOK
<1>3. TaskOK(Typed)
  <2>1. Typed = [elementIdx |-> Cur.elementIdx, elementCnt |-> Cur.elementCnt,
                 item |-> [type |-> ItemType, bytes |-> Cur.item.bytes,
                           argv |-> Cur.item.argv]]
    BY <1>1 DEF Typed, TaskOK, ItemOK
  <2> QED
    BY <1>1, <1>2, <2>1 DEF TaskOK, ItemOK
<1>4. ASSUME NEW x, ItemOK(x) PROVE TaskOK(Holding(x))
  <2>1. Holding(x) = [elementIdx |-> Cur.elementIdx, elementCnt |-> Cur.elementCnt,
                      item |-> x]
    BY <1>1 DEF Holding, TaskOK
  <2> QED
    BY <1>1, <1>4, <2>1 DEF TaskOK
<1> QED
  BY <1>1, <1>3, <1>4

(***************************************************************************)
(* The four ways procItem ends.                                            *)
(***************************************************************************)
LEMMA FailKeeps == ASSUME IInv, Fail PROVE IInv'
BY DEF IInv, Fail, Points, TasksOK, TakesWhatIsThere, StackShape, Active

LEMMA WaitKeeps ==
  ASSUME IInv, pc = "proc", NEW t, TaskOK(t), Wait(t)
  PROVE  IInv'
<1> USE DEF IInv, Wait, Points, Active
<1>1. TasksOK'
  BY DEF TasksOK
<1>2. TakesWhatIsThere'
  BY DEF TakesWhatIsThere
<1>3. StackShape'
  BY DEF StackShape, TasksOK
<1>4. (fed - base <= IntMax)'
  BY RespAssumption
<1> QED
  BY <1>1, <1>2, <1>3, <1>4

LEMMA AdvanceKeeps ==
  ASSUME IInv, pc = "proc", NEW t, TaskOK(t), NEW n \in Nat, n <= Len(Buffer),
         NEW point \in {"pre", "next"}, Advance(t, n, point),
         point = "next" => /\ t.item.type = "array" /\ t.elementIdx < t.elementCnt
                           /\ DOMAIN t.item.argv = 1..t.elementCnt
  PROVE  IInv'
<1> USE DEF IInv, Advance, Points, Active
<1>1. TasksOK'
  BY DEF TasksOK
<1>2. TakesWhatIsThere'
  BY BufferLength DEF TakesWhatIsThere
<1>3. StackShape'
  BY DEF StackShape, TasksOK
<1> QED
  BY <1>1, <1>2, <1>3
-----------------------------------------------------------------------------
(***************************************************************************)
(* One lemma for each action that changes the stack.                       *)
(***************************************************************************)
LEMMA LineKeeps == ASSUME IInv, ProcLine PROVE IInv'
<1>1. pc = "proc" /\ Len(Buffer) \in Nat
  BY BufferLength DEF ProcLine, IInv, TakesWhatIsThere
<1>2. PICK end \in 1..Len(Buffer) :
        /\ LineEnds(end)
        /\ Advance(CASE ItemType = "string"  -> Holding(String(Line(end)))
                     [] ItemType = "error"   -> Holding(Error(Line(end)))
                     [] ItemType = "integer" -> Typed,
                   end + 2, "pre")
  BY DEF ProcLine
<1>3. end + 2 \in Nat /\ end + 2 <= Len(Buffer)
  BY <1>1, <1>2 DEF LineEnds
<1>4. CASE ItemType = "string"
  <2>1. TaskOK(Holding(String(Line(end))))
    BY <1>1, CurOK, ItemsOK
  <2>2. Advance(Holding(String(Line(end))), end + 2, "pre")
    BY <1>2, <1>4
  <2> QED
    BY <1>1, <1>3, <2>1, <2>2, AdvanceKeeps
<1>5. CASE ItemType = "error"
  <2>1. TaskOK(Holding(Error(Line(end))))
    BY <1>1, CurOK, ItemsOK
  <2>2. Advance(Holding(Error(Line(end))), end + 2, "pre")
    BY <1>2, <1>5
  <2> QED
    BY <1>1, <1>3, <2>1, <2>2, AdvanceKeeps
<1>6. CASE ItemType = "integer"
  <2>1. Advance(Typed, end + 2, "pre")
    BY <1>2, <1>6
  <2> QED
    BY <1>1, <1>3, <2>1, CurOK, AdvanceKeeps
<1> QED
  BY <1>4, <1>5, <1>6 DEF ProcLine

LEMMA BulkKeeps == ASSUME IInv, ProcBulk PROVE IInv'
<1>1. pc = "proc" /\ Len(Buffer) \in Nat
  BY BufferLength DEF ProcBulk, IInv, TakesWhatIsThere
<1> DEFINE content(end, n) == SubSeq(Buffer, end + 3, end + 2 + n)
           sum(end, n) == n + 2 + end + 2
           takes(end, n) ==
             /\ ~(sum(end, n) > Len(Buffer)) /\ ~(n < 0)
             /\ Advance(Holding(String(content(end, n))), sum(end, n), "pre")
           passes(end, n) ==
             /\ LineEnds(end) /\ ~BadLength(Line(end))
             /\ Truncated(HeaderLength(Line(end)), n)
             /\ ~(IntSum(sum(end, n)) > Len(Buffer)) /\ sum(end, n) > Len(Buffer)
             /\ Overread
<1>2. \/ Fail \/ Wait(Typed)
      \/ \E end \in 1..Len(Buffer), n \in Ints : takes(end, n) \/ passes(end, n)
  <2>1. PICK end \in 1..Len(Buffer) :
          \/ Fail
          \/ \E n \in Ints : Wait(Typed) \/ Fail \/ takes(end, n) \/ passes(end, n)
    BY DEF ProcBulk
  <2> HIDE DEF takes, passes
  <2> QED BY <2>1
<1>3. CASE Fail
  BY <1>3, FailKeeps
<1>4. CASE Wait(Typed)
  BY <1>1, <1>4, CurOK, WaitKeeps
<1>5. ASSUME NEW end \in 1..Len(Buffer), NEW n \in Ints, takes(end, n) PROVE IInv'
  <2>1. n \in Int
    BY RespAssumption DEF Ints
  <2>2. n + 2 + end + 2 \in Nat /\ n + 2 + end + 2 <= Len(Buffer)
    BY <1>1, <1>5, <2>1
  <2>3. TaskOK(Holding(String(content(end, n))))
    BY <1>1, CurOK, ItemsOK
  <2>4. Advance(Holding(String(content(end, n))), n + 2 + end + 2, "pre")
    BY <1>5
  <2> HIDE DEF takes, content
  <2> QED
    BY <1>1, <2>2, <2>3, <2>4, AdvanceKeeps
<1>6. ASSUME NEW end \in 1..Len(Buffer), NEW n \in Ints, passes(end, n) PROVE IInv'
  <2>1. n \in Int /\ IntMax \in Nat
    BY RespAssumption DEF Ints
  <2>2. n + 2 + end + 2 > IntMax
    BY <1>1, <1>6, <2>1 DEF IntSum
  <2>3. SumOverflows
    BY <1>1, <1>6, <2>2 DEF SumOverflows, ProcBulk
  <2>4. SumOverflows'
    BY <1>6, <2>3 DEF Overread, SumOverflows, ItemType, Cur, Buffer, LineEnds, Line
  <2> HIDE DEF passes
  <2>5. Overread
    BY <1>6 DEF passes
  <2> QED
    BY <2>4, <2>5 DEF IInv, Overread, Points, TasksOK, TakesWhatIsThere, StackShape, Active
<1> QED
  BY <1>2, <1>3, <1>4, <1>5, <1>6

LEMMA ArrayKeeps == ASSUME IInv, ProcArray PROVE IInv'
<1>1. pc = "proc" /\ Len(Buffer) \in Nat
  BY BufferLength DEF ProcArray, IInv, TakesWhatIsThere
<1> DEFINE elements(n) == Array([i \in 1..n |-> Blank])
           task(n) == [elementIdx |-> 0, elementCnt |-> n, item |-> elements(n)]
           point(n) == IF n > 0 THEN "next" ELSE "pre"
           dies == /\ pc' = "died"
                   /\ UNCHANGED <<stream, fed, base, len, ridx, tasks, got>>
<1>2. \/ Fail \/ dies
      \/ \E end \in 1..Len(Buffer), n \in Counts :
           LineEnds(end) /\ Advance(task(n), end + 2, point(n))
  <2>1. PICK end \in 1..Len(Buffer) :
          /\ LineEnds(end)
          /\ \/ Fail \/ dies
             \/ \E n \in Counts : Advance(task(n), end + 2, point(n))
    BY DEF ProcArray
  <2> HIDE DEF task, point, dies
  <2> QED BY <2>1
<1>3. CASE Fail
  BY <1>3, FailKeeps
<1>4. CASE dies
  BY <1>4 DEF IInv, Points, TasksOK, TakesWhatIsThere, StackShape, Active
<1>5. ASSUME NEW end \in 1..Len(Buffer), NEW n \in Counts,
             LineEnds(end), Advance(task(n), end + 2, point(n))
      PROVE  IInv'
  <2>1. n \in Nat
    BY RespAssumption DEF Counts
  <2>2. end + 2 \in Nat /\ end + 2 <= Len(Buffer)
    BY <1>1, <1>5 DEF LineEnds
  <2>3. /\ ItemOK(elements(n)) /\ elements(n).type = "array"
        /\ elements(n).argv = [i \in 1..n |-> Blank]
    BY ItemsOK
  <2>4. DOMAIN elements(n).argv = 1..n
    BY <2>3
  <2> HIDE DEF elements
  <2>5. /\ TaskOK(task(n))
        /\ task(n).item = elements(n)
        /\ task(n).elementIdx = 0 /\ task(n).elementCnt = n
    BY <2>1, <2>3 DEF TaskOK
  <2>6. point(n) \in {"pre", "next"}
    OBVIOUS
  <2>7. point(n) = "next" => /\ task(n).item.type = "array"
                             /\ task(n).elementIdx < task(n).elementCnt
                             /\ DOMAIN task(n).item.argv = 1..task(n).elementCnt
    BY <2>1, <2>3, <2>4, <2>5
  <2> HIDE DEF task, point
  <2> QED
    BY <1>1, <1>5, <2>2, <2>5, <2>6, <2>7, AdvanceKeeps
<1> QED
  BY <1>2, <1>3, <1>4, <1>5

LEMMA NextTaskKeeps == ASSUME IInv, MoveNextTask PROVE IInv'
<1> USE DEF IInv, MoveNextTask, LevelExceeded, Points, Active
<1>1. TasksOK' /\ TakesWhatIsThere'
  BY DEF TasksOK, TakesWhatIsThere
<1>2. ridx' \in -1..MaxDepth /\ (Active => ridx \in 0..(MaxDepth - 1))'
  BY RespAssumption
<1>3. StackShape'
  BY DEF StackShape, TasksOK
<1> QED
  BY <1>1, <1>2, <1>3

LEMMA StoreKeeps == ASSUME IInv, StoreElement PROVE IInv'
<1>1. /\ pc = "pre" /\ ridx \in 1..(MaxDepth - 1)
      /\ ridx - 1 \in 0..(MaxDepth - 1) /\ ridx - 1 # ridx
  BY RespAssumption DEF StoreElement, IInv, Active
<1> DEFINE pre == tasks[ridx - 1]
           argv == [pre.item.argv EXCEPT ![pre.elementIdx + 1] = Cur.item]
           filled == [elementIdx |-> pre.elementIdx + 1, elementCnt |-> pre.elementCnt,
                      item |-> [type |-> pre.item.type, bytes |-> pre.item.bytes,
                                argv |-> argv]]
<1>2. /\ TaskOK(pre) /\ TaskOK(Cur)
      /\ pre.item.type = "array" /\ pre.elementIdx < pre.elementCnt
      /\ DOMAIN pre.item.argv = 1..pre.elementCnt
  BY <1>1 DEF IInv, TasksOK, StackShape, Cur
<1>3. DOMAIN argv = 1..pre.elementCnt
  BY <1>2
<1>4. TaskOK(Cleared(Cur)) /\ Cleared(Cur).item.type = "unknown"
  <2>1. Cleared(Cur) = [elementIdx |-> 0, elementCnt |-> 0,
                        item |-> [type |-> "unknown", bytes |-> Cur.item.bytes,
                                  argv |-> Cur.item.argv]]
    BY <1>2 DEF Cleared, TaskOK, ItemOK
  <2> QED
    BY <2>1 DEF TaskOK, ItemOK, Types
<1>5. tasks' = [i \in 0..(MaxDepth - 1) |->
                  IF i = ridx THEN Cleared(Cur)
                  ELSE IF i = ridx - 1 THEN filled ELSE tasks[i]]
  <2>1. Stored(pre, Cur.item) = filled
    BY <1>2 DEF Stored, TaskOK, ItemOK
  <2>2. tasks' = [tasks EXCEPT ![ridx - 1] = filled, ![ridx] = Cleared(Cur)]
    BY <2>1 DEF StoreElement
  <2> HIDE DEF filled
  <2> QED
    BY <1>1, <2>2 DEF IInv, TasksOK
<1>6. TaskOK(filled)
  BY <1>2 DEF TaskOK, ItemOK
<1>7. /\ filled.elementIdx = pre.elementIdx + 1 /\ filled.elementCnt = pre.elementCnt
      /\ filled.item.type = "array" /\ DOMAIN filled.item.argv = 1..pre.elementCnt
  BY <1>2, <1>3
<1>8. ridx' = ridx - 1 /\ pc' = IF pre.elementIdx + 1 = pre.elementCnt THEN "pre" ELSE "next"
  BY DEF StoreElement
<1> HIDE DEF filled, argv
<1>9. TasksOK'
  BY <1>4, <1>5, <1>6 DEF IInv, TasksOK
<1>10. StackShape'
  <2>1. pre.elementIdx \in Nat /\ pre.elementCnt \in Nat
    BY <1>2 DEF TaskOK
  <2>2. pc' = "next" => filled.elementIdx < filled.elementCnt
    BY <1>2, <1>7, <1>8, <2>1
  <2> SUFFICES ASSUME NEW i \in 0..(MaxDepth - 1)
               PROVE  /\ i < ridx' \/ (i = ridx' /\ pc' = "next") =>
                            /\ tasks'[i].item.type = "array"
                            /\ tasks'[i].elementIdx < tasks'[i].elementCnt
                            /\ DOMAIN tasks'[i].item.argv = 1..tasks'[i].elementCnt
                      /\ i > ridx' => tasks'[i].item.type = "unknown"
    BY <1>5 DEF StackShape
  <2>3. CASE i = ridx
    BY <1>1, <1>4, <1>5, <1>8, <2>3
  <2>4. CASE i = ridx - 1
    BY <1>1, <1>5, <1>7, <1>8, <2>2, <2>4
  <2>5. CASE i # ridx /\ i # ridx - 1
    <3>1. tasks'[i] = tasks[i]
      BY <1>5, <2>5
    <3> QED
      BY <1>1, <1>8, <2>5, <3>1 DEF IInv, TasksOK, StackShape
  <2> QED
    BY <2>3, <2>4, <2>5
<1> QED
  BY <1>1, <1>8, <1>9, <1>10, RespAssumption
     DEF StoreElement, IInv, Points, Active, TakesWhatIsThere

LEMMA ReturnKeeps == ASSUME IInv, ReturnItem PROVE IInv'
<1> DEFINE emptied == [elementIdx |-> tasks[0].elementIdx,
                       elementCnt |-> tasks[0].elementCnt, item |-> Blank]
<1>0. /\ 0 \in 0..(MaxDepth - 1) /\ TaskOK(tasks[0])
      /\ tasks = [i \in 0..(MaxDepth - 1) |-> tasks[i]]
      /\ \A i \in 0..(MaxDepth - 1) : TaskOK(tasks[i])
  <2>1. TasksOK
    BY DEF IInv
  <2>2. 0 \in 0..(MaxDepth - 1)
    BY RespAssumption
  <2>3. TaskOK(tasks[0])
    BY <2>1, <2>2 DEF TasksOK
  <2> QED
    BY <2>1, <2>2, <2>3 DEF TasksOK
<1>1. tasks' = [i \in 0..(MaxDepth - 1) |-> IF i = 0 THEN emptied ELSE tasks[i]]
  <2>1. emptied = [tasks[0] EXCEPT !.item = Blank]
    BY <1>0 DEF TaskOK
  <2>2. tasks' = [tasks EXCEPT ![0].item = Blank]
    BY DEF ReturnItem
  <2>3. tasks' = [tasks EXCEPT ![0] = emptied]
    BY <2>1, <2>2
  <2> HIDE DEF emptied
  <2> QED
    BY <1>0, <2>3
<1>2. TaskOK(emptied)
  <2>1. ItemOK(Blank)
    BY DEF ItemOK, Blank, Types
  <2> QED
    BY <1>0, <2>1 DEF TaskOK
<1> HIDE DEF emptied
<1>3. TasksOK'
  BY <1>0, <1>1, <1>2 DEF TasksOK
<1>4. pc' = "value" /\ ridx' = -1 /\ base' = base + len /\ len' = 0
      /\ UNCHANGED <<stream, fed>>
  BY DEF ReturnItem
<1>5. StackShape'
  BY <1>4 DEF StackShape
<1>6. TakesWhatIsThere' /\ fed' \in Nat /\ base' \in Nat /\ len' \in Nat
  BY <1>4 DEF IInv, TakesWhatIsThere
<1>7. ridx' \in -1..MaxDepth
  BY <1>4, RespAssumption
<1>8. (fed - base <= IntMax)'
  BY <1>4, RespAssumption DEF IInv
<1> QED
  BY <1>3, <1>4, <1>5, <1>6, <1>7, <1>8 DEF IInv, Points, Active

LEMMA ResetKeeps == ASSUME IInv, Reset PROVE IInv'
<1> USE DEF IInv, Reset, Rest, Points, Active
<1>1. TasksOK' /\ StackShape'
  BY BlankOK DEF TasksOK, StackShape
<1> QED
  BY <1>1, RespAssumption DEF TakesWhatIsThere

LEMMA CallKeeps == ASSUME IInv, Call PROVE IInv'
<1>1. Len(stream) \in Nat
  BY RespAssumption DEF IInv
<1> QED
  BY <1>1 DEF IInv, Call, Points, Active, TasksOK, TakesWhatIsThere, StackShape
-----------------------------------------------------------------------------
LEMMA IInvInit == Init => IInv
<1> SUFFICES ASSUME Init PROVE IInv
  OBVIOUS
<1>1. TasksOK /\ StackShape
  BY BlankOK DEF Init, TasksOK, StackShape
<1>2. Len(stream) \in Nat
  BY RespAssumption DEF Init
<1> QED
  BY <1>1, <1>2, RespAssumption DEF Init, IInv, Points, Active, TakesWhatIsThere

LEMMA IInvNext == IInv /\ [Next]_vars => IInv'
<1> SUFFICES ASSUME IInv, [Next]_vars PROVE IInv'
  OBVIOUS
<1>1. CASE Call
  BY <1>1, CallKeeps
<1>2. CASE Reset
  BY <1>2, ResetKeeps
<1>3. CASE ProcEmpty
  <2>1. pc = "proc" /\ TaskOK(Cur) /\ Wait(Cur)
    BY <1>3, CurOK DEF ProcEmpty
  <2> QED
    BY <2>1, WaitKeeps
<1>4. CASE ProcUnknown
  BY <1>4, FailKeeps DEF ProcUnknown
<1>5. CASE ProcNoLine
  <2>1. pc = "proc" /\ TaskOK(Typed) /\ Wait(Typed)
    BY <1>5, CurOK DEF ProcNoLine
  <2> QED
    BY <2>1, WaitKeeps
<1>6. CASE ProcLine
  BY <1>6, LineKeeps
<1>7. CASE ProcBulk
  BY <1>7, BulkKeeps
<1>8. CASE ProcArray
  BY <1>8, ArrayKeeps
<1>9. CASE MoveNextTask
  BY <1>9, NextTaskKeeps
<1>10. CASE ReturnItem
  BY <1>10, ReturnKeeps
<1>11. CASE StoreElement
  BY <1>11, StoreKeeps
<1>12. CASE UNCHANGED vars
  <2>1. SumOverflows' = SumOverflows
    BY <1>12 DEF vars, SumOverflows, ItemType, Cur, Buffer, LineEnds, Line
  <2> QED
    BY <1>12, <2>1 DEF vars, IInv, TasksOK, TakesWhatIsThere, StackShape, Active
<1> QED
  BY <1>1, <1>2, <1>3, <1>4, <1>5, <1>6, <1>7, <1>8, <1>9, <1>10, <1>11, <1>12
     DEF Next, Step

THEOREM Invariant == Spec => []IInv
<1> QED
  BY IInvInit, IInvNext, PTL DEF Spec

(* The parser's variables always have their types.                         *)
THEOREM TypeCorrect == Spec => []TypeOK
<1>1. IInv => TypeOK
  BY DEF IInv, TypeOK, TasksOK, TaskOK, ItemOK
<1> QED
  BY <1>1, Invariant, PTL

(* Enclosing tasks are arrays with an element to come, and the tasks below *)
(* are free.                                                               *)
THEOREM Shape == Spec => []StackShape
<1>1. IInv => StackShape
  BY DEF IInv
<1> QED
  BY <1>1, Invariant, PTL

(* No input makes the parser leave the bounds of tasks or of an argv.      *)
THEOREM Bounds == Spec => []InBounds
<1>1. IInv => InBounds
  <2> SUFFICES ASSUME IInv PROVE InBounds
    OBVIOUS
  <2>1. DOMAIN tasks = 0..(MaxDepth - 1)
    BY DEF IInv, TasksOK
  <2>2. ASSUME pc = "pre", ridx > 0
        PROVE  tasks[ridx - 1].elementIdx + 1 \in DOMAIN tasks[ridx - 1].item.argv
    <3>1. ridx - 1 \in 0..(MaxDepth - 1) /\ ridx - 1 < ridx
      BY <2>2, RespAssumption DEF IInv, Active
    <3> QED
      BY <2>1, <2>2, <3>1 DEF IInv, StackShape, TasksOK, TaskOK
  <2> QED
    BY <2>1, <2>2 DEF InBounds, IInv, Active
<1> QED
  BY <1>1, Invariant, PTL

(* A call never takes bytes that have not arrived.                         *)
THEOREM TakesOnlyArrived == Spec => []TakesWhatIsThere
<1>1. IInv => TakesWhatIsThere
  BY DEF IInv
<1> QED
  BY <1>1, Invariant, PTL
-----------------------------------------------------------------------------
(***************************************************************************)
(* string2ll.                                                              *)
(***************************************************************************)
LEMMA DigitValues ==
  \A d \in Digits : DigitValue[d] \in 0..9
<1> DEFINE Numerals == <<"0", "1", "2", "3", "4", "5", "6", "7", "8", "9">>
<1>1. ASSUME NEW d \in Digits PROVE \E n \in 0..9 : Numerals[n + 1] = d
  <2>1. /\ Numerals[0 + 1] = "0" /\ Numerals[1 + 1] = "1" /\ Numerals[2 + 1] = "2"
        /\ Numerals[3 + 1] = "3" /\ Numerals[4 + 1] = "4" /\ Numerals[5 + 1] = "5"
        /\ Numerals[6 + 1] = "6" /\ Numerals[7 + 1] = "7" /\ Numerals[8 + 1] = "8"
        /\ Numerals[9 + 1] = "9"
    OBVIOUS
  <2> HIDE DEF Numerals
  <2> QED
    BY <2>1 DEF Digits
<1>2. \A d \in Digits : DigitValue[d] = CHOOSE n \in 0..9 : Numerals[n + 1] = d
  BY DEF DigitValue
<1> HIDE DEF Numerals
<1> QED
  BY <1>1, <1>2

(* A set of naturals has a least element: WFMin for <.                     *)
LEMMA LeastNatural ==
  ASSUME NEW S, S \subseteq Nat, S # {}
  PROVE  \E n \in S : \A m \in S : n <= m
<1> DEFINE R == {p \in Nat \X Nat : p[1] < p[2]}
<1>1. IsWellFoundedOn(R, Nat)
  BY NatLessThanWellFounded, Zenon DEF OpToRel
<1> HIDE DEF R
<1>2. \E x \in S : \A y \in S : ~ (<<y, x>> \in R)
  BY <1>1, WFMin
<1>3. PICK x \in S : \A y \in S : ~ (<<y, x>> \in R)
  BY <1>2
<1>4. ASSUME NEW y \in S PROVE x <= y
  <2>1. x \in Nat /\ y \in Nat
    OBVIOUS
  <2>2. <<y, x>> \in R <=> y < x
    BY <2>1 DEF R
  <2> QED
    BY <2>1, <2>2, <1>3
<1> QED
  BY <1>4

(* The values of the first digits, and what the loop makes of them: the    *)
(* functions that NaturalValue and Loop define by recursion.               *)
UpTo(s, n, f) ==
  f = [i \in 0..n |-> IF i = 0 THEN 0 ELSE 10 * f[i - 1] + DigitValue[s[i]]]

Looped(s, n, v) ==
  v = [i \in 1..n |->
        IF i = 1 THEN IF s[1] \in Digits \ {"0"} THEN DigitValue[s[1]] ELSE -1
        ELSE IF v[i - 1] = -1 \/ s[i] \notin Digits \/ Overflows(v[i - 1], DigitValue[s[i]])
             THEN -1
             ELSE Unsigned(10 * v[i - 1] + DigitValue[s[i]])]

LEMMA UpToExists == ASSUME NEW s PROVE \A n \in Nat : \E f : UpTo(s, n, f)
<1> DEFINE T == {n \in Nat : ~\E f : UpTo(s, n, f)}
<1> SUFFICES ASSUME T # {} PROVE FALSE
  OBVIOUS
<1>1. PICK n \in T : \A m \in T : n <= m
  BY LeastNatural
<1>2. n # 0
  <2>1. UpTo(s, 0, [i \in 0..0 |-> 0])
    BY DEF UpTo
  <2> QED
    BY <2>1
<1>3. n - 1 \in Nat /\ n - 1 \notin T
  BY <1>1, <1>2
<1>4. PICK f : UpTo(s, n - 1, f)
  BY <1>3
<1> DEFINE g == [i \in 0..n |-> IF i < n THEN f[i] ELSE 10 * f[n - 1] + DigitValue[s[n]]]
<1>5. ASSUME NEW i \in 0..n
      PROVE  g[i] = IF i = 0 THEN 0 ELSE 10 * g[i - 1] + DigitValue[s[i]]
  <2>1. f[0] = 0 /\ (i < n /\ i # 0 => f[i] = 10 * f[i - 1] + DigitValue[s[i]])
    BY <1>2, <1>3, <1>4 DEF UpTo
  <2>2. g[i] = IF i < n THEN f[i] ELSE 10 * f[n - 1] + DigitValue[s[n]]
    OBVIOUS
  <2>3. i # 0 => g[i - 1] = f[i - 1]
    BY <1>2, <1>3
  <2> HIDE DEF g
  <2> QED
    BY <1>2, <1>3, <2>1, <2>2, <2>3
<1>6. UpTo(s, n, g)
  BY <1>5 DEF UpTo
<1> QED
  BY <1>6

LEMMA LoopedExists == ASSUME NEW s PROVE \A n \in Nat : \E v : Looped(s, n, v)
<1> DEFINE T == {n \in Nat : ~\E v : Looped(s, n, v)}
<1> SUFFICES ASSUME T # {} PROVE FALSE
  OBVIOUS
<1>1. PICK n \in T : \A m \in T : n <= m
  BY LeastNatural
<1>2. n # 0
  <2>1. Looped(s, 0, [i \in 1..0 |-> 0])
    BY DEF Looped
  <2> QED
    BY <2>1
<1>3. n - 1 \in Nat /\ n - 1 \notin T
  BY <1>1, <1>2
<1>4. PICK v : Looped(s, n - 1, v)
  BY <1>3
<1> DEFINE Body(w, i) ==
      IF i = 1 THEN IF s[1] \in Digits \ {"0"} THEN DigitValue[s[1]] ELSE -1
      ELSE IF w[i - 1] = -1 \/ s[i] \notin Digits \/ Overflows(w[i - 1], DigitValue[s[i]])
           THEN -1
           ELSE Unsigned(10 * w[i - 1] + DigitValue[s[i]])
    g == [i \in 1..n |-> IF i < n THEN v[i] ELSE Body(v, n)]
<1>5. v = [i \in 1..(n - 1) |-> Body(v, i)]
  BY <1>4 DEF Looped
<1>6. ASSUME NEW i \in 1..n PROVE g[i] = Body(g, i)
  <2>1. i # 1 => g[i - 1] = v[i - 1]
    BY <1>2, <1>3
  <2>2. Body(g, i) = Body(v, i)
    BY <2>1
  <2> HIDE DEF Body
  <2>3. i < n => v[i] = Body(v, i)
    BY <1>3, <1>5
  <2> QED
    BY <1>3, <2>2, <2>3
<1>7. g = [i \in 1..n |-> Body(g, i)]
  <2> HIDE DEF Body
  <2>1. g = [i \in 1..n |-> g[i]]
    OBVIOUS
  <2> HIDE DEF g
  <2> QED
    BY <1>6, <2>1
<1> HIDE DEF g
<1>8. Looped(s, n, g)
  BY <1>7 DEF Looped
<1> QED
  BY <1>8

LEMMA NaturalValueIs ==
  ASSUME NEW s, Len(s) \in Nat
  PROVE  \E f : UpTo(s, Len(s), f) /\ NaturalValue(s) = f[Len(s)]
<1> DEFINE F == CHOOSE f : UpTo(s, Len(s), f)
<1>1. UpTo(s, Len(s), F)
  BY UpToExists
<1>2. NaturalValue(s) = F[Len(s)]
  BY DEF NaturalValue, UpTo
<1> QED
  BY <1>1, <1>2

LEMMA LoopIs ==
  ASSUME NEW s, Len(s) \in Nat, s # <<>>
  PROVE  \E v : Looped(s, Len(s), v) /\ Loop(s) = v[Len(s)]
<1> DEFINE V == CHOOSE v : Looped(s, Len(s), v)
<1>1. Looped(s, Len(s), V)
  BY LoopedExists
<1>2. Loop(s) = V[Len(s)]
  BY DEF Loop, Looped
<1> QED
  BY <1>1, <1>2

(***************************************************************************)
(* Unsigned arithmetic that does not wrap around, and the negation.        *)
(***************************************************************************)
LEMMA DivMod ==
  ASSUME NEW a \in Int, NEW n \in Nat \ {0}
  PROVE  a \div n \in Int /\ a % n \in 0 .. n - 1 /\ a = n * (a \div n) + (a % n)
OBVIOUS

LEMMA Multiples ==
  ASSUME NEW n \in Nat, NEW k \in Int
  PROVE  (k >= 1 => n * k >= n) /\ n * (-k) = -(n * k) /\ n * (k + 1) = n * k + n
OBVIOUS

LEMMA Remainder ==
  ASSUME NEW a \in Int, NEW n \in Nat \ {0}
  PROVE  /\ a \in 0 .. n - 1 => a % n = a
         /\ a \in -n .. -1 => a % n = a + n
<1> DEFINE q == a \div n
           r == a % n
<1>1. q \in Int /\ r \in 0 .. n - 1 /\ a = n * q + r
  BY DivMod
<1> HIDE DEF q, r
<1>2. q >= 1 => n * q >= n
  BY <1>1, Multiples
<1>3. -q >= 1 => n * (-q) >= n /\ n * (-q) = -(n * q)
  BY <1>1, Multiples
<1>4. -q - 1 >= 1 => n * (-q - 1) >= n /\ n * (-q - 1) = -(n * q) - n
  <2>1. n * (-(q + 1)) = -(n * (q + 1)) /\ n * (q + 1) = n * q + n
    BY <1>1, Multiples
  <2>2. -q - 1 = -(q + 1)
    BY <1>1
  <2>3. -q - 1 >= 1 => n * (-q - 1) >= n
    BY <1>1, Multiples
  <2>4. n * q \in Int
    BY <1>1
  <2> QED
    BY <2>1, <2>2, <2>3, <2>4
<1>5. n * q \in Int /\ (q = 0 => n * q = 0) /\ (q = -1 => n * q = -n)
  BY <1>1
<1>6. a \in 0 .. n - 1 => q = 0
  BY <1>1, <1>2, <1>3, <1>5
<1>7. a \in -n .. -1 => q = -1
  BY <1>1, <1>2, <1>4, <1>5
<1> QED
  BY <1>1, <1>5, <1>6, <1>7 DEF r

LEMMA UnsignedIs ==
  ASSUME NEW n \in Int
  PROVE  /\ ULLMax \in Nat
         /\ n \in 0 .. ULLMax => Unsigned(n) = n
         /\ n \in -ULLMax .. -1 => Unsigned(n) = n + ULLMax + 1
<1>1. ULLMax \in Nat /\ ULLMax + 1 \in Nat \ {0}
  BY RespAssumption DEF ULLMax
<1>2. /\ n \in 0 .. (ULLMax + 1) - 1 => n % (ULLMax + 1) = n
      /\ n \in -(ULLMax + 1) .. -1 => n % (ULLMax + 1) = n + (ULLMax + 1)
  BY <1>1, Remainder
<1> QED
  BY <1>1, <1>2 DEF Unsigned

LEMMA OverflowsIs ==
  ASSUME NEW v \in Nat, NEW d \in 0..9
  PROVE  /\ Overflows(v, d) <=> 10 * v + d > ULLMax
         /\ ~Overflows(v, d) => Unsigned(10 * v + d) = 10 * v + d
<1>0. ULLMax \in Nat
  BY UnsignedIs
<1>1. v > ULLMax \div 10 <=> 10 * v > ULLMax
  BY <1>0
<1>2. 10 * v <= ULLMax => Unsigned(10 * v) = 10 * v
  BY UnsignedIs
<1>3. Overflows(v, d) <=> 10 * v + d > ULLMax
  BY <1>0, <1>1, <1>2 DEF Overflows
<1>4. 10 * v + d <= ULLMax => Unsigned(10 * v + d) = 10 * v + d
  BY UnsignedIs
<1> QED
  BY <1>0, <1>3, <1>4

(* What the loop has after each digit.                                     *)
LEMMA LoopMeans ==
  ASSUME NEW s, Len(s) \in Nat, s # <<>>, DOMAIN s = 1..Len(s)
  PROVE  /\ IsNatural(s) => NaturalValue(s) \in Nat
         /\ Loop(s) = IF IsNatural(s) /\ (Len(s) = 1 \/ NaturalValue(s) <= ULLMax)
                      THEN NaturalValue(s) ELSE -1
<1>0. ULLMax \in Nat
  BY UnsignedIs
<1>1. PICK f : UpTo(s, Len(s), f) /\ NaturalValue(s) = f[Len(s)]
  BY NaturalValueIs
<1>2. PICK v : Looped(s, Len(s), v) /\ Loop(s) = v[Len(s)]
  BY LoopIs
<1> DEFINE Natural(i) == s[1] # "0" /\ \A j \in 1..i : s[j] \in Digits
           Good(i) == /\ Natural(i) => f[i] \in Nat
                      /\ v[i] = IF Natural(i) /\ (i = 1 \/ f[i] <= ULLMax)
                                THEN f[i] ELSE -1
           T == {i \in 1..Len(s) : ~Good(i)}
<1>3. ASSUME NEW i \in 1..Len(s)
      PROVE  /\ f[i] = 10 * f[i - 1] + DigitValue[s[i]]
             /\ f[0] = 0
             /\ i = 1 => v[i] = IF s[1] \in Digits \ {"0"} THEN DigitValue[s[1]] ELSE -1
             /\ i # 1 => v[i] =
                  IF v[i - 1] = -1 \/ s[i] \notin Digits \/ Overflows(v[i - 1], DigitValue[s[i]])
                  THEN -1
                  ELSE Unsigned(10 * v[i - 1] + DigitValue[s[i]])
  <2>1. f[0] = 0
    BY <1>1 DEF UpTo
  <2>2. f[i] = 10 * f[i - 1] + DigitValue[s[i]]
    BY <1>1 DEF UpTo
  <2>3. v[i] = IF i = 1 THEN IF s[1] \in Digits \ {"0"} THEN DigitValue[s[1]] ELSE -1
               ELSE IF v[i - 1] = -1 \/ s[i] \notin Digits
                         \/ Overflows(v[i - 1], DigitValue[s[i]])
                    THEN -1
                    ELSE Unsigned(10 * v[i - 1] + DigitValue[s[i]])
    BY <1>2 DEF Looped
  <2> QED
    BY <2>1, <2>2, <2>3
<1>4. T = {}
  <2> SUFFICES ASSUME T # {} PROVE FALSE
    OBVIOUS
  <2>0. T \subseteq Nat
    OBVIOUS
  <2>1. PICK i \in T : \A m \in T : i <= m
    <3> HIDE DEF T
    <3> QED
      BY <2>0, LeastNatural
  <2>2. i \in 1..Len(s) /\ ~Good(i)
    OBVIOUS
  <2>3. CASE i = 1
    <3>1. f[1] = DigitValue[s[1]] \/ s[1] \notin Digits
      BY <1>3, <2>2, <2>3, DigitValues
    <3>2. Natural(1) <=> s[1] # "0" /\ s[1] \in Digits
      OBVIOUS
    <3>3. v[1] = IF s[1] \in Digits \ {"0"} THEN DigitValue[s[1]] ELSE -1
      BY <1>3, <2>2, <2>3
    <3>4. Natural(1) => f[1] = DigitValue[s[1]] /\ f[1] \in Nat
      BY <3>1, <3>2, DigitValues
    <3>5. ~Natural(1) => v[1] = -1
      BY <3>2, <3>3
    <3>6. Natural(1) => v[1] = f[1]
      BY <3>2, <3>3, <3>4
    <3> HIDE DEF Natural
    <3> QED
      BY <2>2, <2>3, <3>4, <3>5, <3>6
  <2>4. CASE i # 1
    <3>1. i - 1 \in 1..Len(s) /\ i - 1 \notin T
      BY <2>1, <2>2, <2>4
    <3>2. Good(i - 1)
      BY <3>1
    <3>3. Natural(i) <=> Natural(i - 1) /\ s[i] \in Digits
      BY <2>2, <2>4
    <3>4. CASE ~Natural(i - 1)
      BY <1>3, <2>2, <2>4, <3>2, <3>3, <3>4
    <3>5. CASE Natural(i - 1) /\ s[i] \notin Digits
      BY <1>3, <2>2, <2>4, <3>2, <3>3, <3>5
    <3>6. CASE Natural(i - 1) /\ s[i] \in Digits
      <4>1. /\ f[i - 1] \in Nat /\ DigitValue[s[i]] \in 0..9
            /\ f[i] = 10 * f[i - 1] + DigitValue[s[i]] /\ Natural(i)
        BY <1>3, <2>2, <3>2, <3>3, <3>6, DigitValues
      <4>2. f[i] \in Nat /\ f[i] >= f[i - 1]
        <5>1. \A a \in Nat : \A d \in 0..9 : 10 * a + d \in Nat /\ 10 * a + d >= a
          OBVIOUS
        <5> QED
          BY <4>1, <5>1
      <4>3. CASE v[i - 1] = -1
        <5>0. f[i - 1] > ULLMax
          BY <1>0, <3>2, <3>6, <4>1, <4>3
        <5>1. f[i] > ULLMax
          BY <1>0, <4>1, <4>2, <5>0
        <5> QED
          BY <1>0, <1>3, <2>2, <2>4, <4>1, <4>2, <4>3, <5>1
      <4>4. CASE v[i - 1] # -1
        <5>1. v[i - 1] = f[i - 1]
          BY <3>2, <4>4
        <5>2. /\ Overflows(f[i - 1], DigitValue[s[i]]) <=> f[i] > ULLMax
              /\ ~Overflows(f[i - 1], DigitValue[s[i]]) =>
                   Unsigned(10 * f[i - 1] + DigitValue[s[i]]) = f[i]
          BY <4>1, OverflowsIs
        <5>3. v[i] = IF Overflows(f[i - 1], DigitValue[s[i]]) THEN -1
                     ELSE Unsigned(10 * f[i - 1] + DigitValue[s[i]])
          BY <1>3, <2>2, <2>4, <3>6, <4>4, <5>1
        <5> QED
          BY <1>0, <2>2, <2>4, <4>1, <4>2, <5>2, <5>3
      <4> QED
        BY <4>3, <4>4
    <3> QED
      BY <3>4, <3>5, <3>6
  <2> QED
    BY <2>3, <2>4
<1>5. Len(s) \in 1..Len(s)
  BY DOMAIN s = 1..Len(s)
<1>6. Good(Len(s))
  BY <1>4, <1>5
<1>7. IsNatural(s) <=> Natural(Len(s))
  BY DEF IsNatural
<1> QED
  BY <1>1, <1>2, <1>6, <1>7

Fits(s) == IsNumeral(s) /\ string2ll(s) \in LongLong

(* string2ll computes what RespBytes says it means.                        *)
LEMMA ConvertedMeans ==
  ASSUME NEW s \in Seq(STRING)
  PROVE  Converted(s) = IF Fits(s) THEN Accepted(string2ll(s)) ELSE Refused
<1>0. /\ Len(s) \in Nat /\ DOMAIN s = 1..Len(s) /\ (s = <<>> <=> Len(s) = 0)
      /\ LLMax \in Nat /\ ULLMax = 2 * LLMax + 1
  BY RespAssumption DEF ULLMax
<1>1. CASE s = <<"0">>
  <2>1. Len(s) = 1 /\ s[1] = "0" /\ s # <<>>
    BY <1>1
  <2>2. PICK f : UpTo(s, Len(s), f) /\ NaturalValue(s) = f[Len(s)]
    BY <1>0, NaturalValueIs
  <2>3. f[1] = 10 * f[0] + DigitValue["0"] /\ f[0] = 0
    BY <2>1, <2>2 DEF UpTo
  <2>4. DigitValue["0"] = 0
    <3> DEFINE Numerals == <<"0", "1", "2", "3", "4", "5", "6", "7", "8", "9">>
    <3>1. Numerals[0 + 1] = "0" /\ \A n \in 1..9 : Numerals[n + 1] # "0"
      <4>1. /\ Numerals[1 + 1] = "1" /\ Numerals[2 + 1] = "2" /\ Numerals[3 + 1] = "3"
            /\ Numerals[4 + 1] = "4" /\ Numerals[5 + 1] = "5" /\ Numerals[6 + 1] = "6"
            /\ Numerals[7 + 1] = "7" /\ Numerals[8 + 1] = "8" /\ Numerals[9 + 1] = "9"
            /\ Numerals[0 + 1] = "0"
        OBVIOUS
      <4>2. \A n \in 1..9 : n = 1 \/ n = 2 \/ n = 3 \/ n = 4 \/ n = 5 \/ n = 6
                            \/ n = 7 \/ n = 8 \/ n = 9
        OBVIOUS
      <4> HIDE DEF Numerals
      <4> QED
        BY <4>1, <4>2
    <3>2. DigitValue["0"] = CHOOSE n \in 0..9 : Numerals[n + 1] = "0"
      BY DEF DigitValue, Digits
    <3> HIDE DEF Numerals
    <3>3. \A n \in 0..9 : Numerals[n + 1] = "0" <=> n = 0
      BY <3>1
    <3> QED
      BY <3>2, <3>3
  <2>5. NaturalValue(s) = 0 /\ string2ll(s) = 0
    BY <2>1, <2>2, <2>3, <2>4 DEF string2ll
  <2>6. 0 \in LongLong
    BY <1>0 DEF LongLong
  <2>7. Fits(s)
    BY <1>1, <2>5, <2>6 DEF Fits, IsNumeral
  <2>8. Converted(s) = Accepted(0)
    BY <1>1 DEF Converted
  <2> QED
    BY <2>5, <2>7, <2>8
<1>2. CASE s # <<>> /\ s[1] = "-"
  <2> DEFINE t == Tail(s)
             v == Loop(t)
  <2>1. t \in Seq(STRING) /\ Len(t) = Len(s) - 1
    BY <1>0, <1>2
  <2>2. Len(t) \in Nat /\ DOMAIN t = 1..Len(t) /\ (t = <<>> <=> Len(t) = 0)
    <3> HIDE DEF t
    <3> QED
      BY <2>1
  <2>3. "-" \notin Digits /\ s # <<"0">>
    BY <1>2 DEF Digits
  <2>4. IsNumeral(s) <=> IsNatural(t)
    BY <1>2, <2>3 DEF IsNumeral, IsNatural
  <2>5. string2ll(s) = -NaturalValue(t)
    BY <1>2 DEF string2ll
  <2>6. Converted(s) = IF v = -1 \/ v > LLMax + 1 THEN Refused
                       ELSE Accepted(Signed(Unsigned(-v)))
    BY <1>2, <2>3 DEF Converted
  <2>7. ~IsNatural(t) => v = -1
    BY <2>2, LoopMeans DEF Loop, IsNatural
  <2> HIDE DEF t, v
  <2>8. CASE IsNatural(t)
    <3>1. t # <<>>
      BY <2>8 DEF IsNatural
    <3>2. PICK n \in Nat : n = NaturalValue(t)
      BY <2>2, <2>8, <3>1, LoopMeans
    <3>3. v = IF Len(t) = 1 \/ n <= ULLMax THEN n ELSE -1
      BY <2>2, <2>8, <3>1, <3>2, LoopMeans DEF v
    <3>4. Fits(s) <=> n <= LLMax + 1
      BY <1>0, <2>4, <2>5, <2>8, <3>2 DEF Fits, LongLong
    <3>5. CASE n > LLMax + 1
      BY <1>0, <2>6, <3>3, <3>4, <3>5
    <3>6. CASE n <= LLMax + 1
      <4>1. v = n
        BY <1>0, <3>3, <3>6
      <4>2. Unsigned(-n) = IF n = 0 THEN 0 ELSE ULLMax + 1 - n
        <5>1. -n \in Int /\ (n = 0 => -n \in 0 .. ULLMax) /\ (n # 0 => -n \in -ULLMax .. -1)
          BY <1>0, <3>6
        <5>2. /\ n = 0 => Unsigned(-n) = -n
              /\ n # 0 => Unsigned(-n) = (-n) + ULLMax + 1
          BY <5>1, UnsignedIs
        <5> QED
          BY <1>0, <5>2
      <4>3. Signed(Unsigned(-n)) = -n
        BY <1>0, <3>6, <4>2 DEF Signed
      <4> QED
        BY <1>0, <2>5, <2>6, <3>2, <3>4, <3>6, <4>1, <4>3
    <3> QED
      BY <1>0, <3>5, <3>6
  <2> QED
    BY <2>4, <2>6, <2>7, <2>8 DEF Fits
<1>3. CASE ~(s # <<>> /\ s[1] = "-") /\ s # <<"0">>
  <2> DEFINE v == Loop(s)
  <2>1. IsNumeral(s) <=> IsNatural(s)
    BY <1>3 DEF IsNumeral
  <2>2. s # <<>> => string2ll(s) = NaturalValue(s)
    BY <1>3 DEF string2ll
  <2>3. Converted(s) = IF v = -1 \/ v > LLMax THEN Refused
                       ELSE Accepted(Signed(Unsigned(v)))
    BY <1>3 DEF Converted
  <2>4. ~IsNatural(s) => v = -1
    BY <1>0, LoopMeans DEF Loop, IsNatural
  <2>5. CASE IsNatural(s)
    <3>1. s # <<>>
      BY <2>5 DEF IsNatural
    <3>2. PICK n \in Nat : n = NaturalValue(s)
      BY <1>0, <2>5, <3>1, LoopMeans
    <3>3. v = IF Len(s) = 1 \/ n <= ULLMax THEN n ELSE -1
      BY <1>0, <2>5, <3>1, <3>2, LoopMeans
    <3> HIDE DEF v
    <3>4. Fits(s) <=> n <= LLMax
      BY <1>0, <2>1, <2>2, <2>5, <3>1, <3>2 DEF Fits, LongLong
    <3>5. CASE n > LLMax
      BY <1>0, <2>3, <3>3, <3>4, <3>5
    <3>6. CASE n <= LLMax
      <4>1. v = n
        BY <1>0, <3>3, <3>6
      <4>2. n \in 0 .. ULLMax /\ n \in Int
        BY <1>0, <3>6
      <4>3. Unsigned(n) = n
        BY <4>2, UnsignedIs
      <4> QED
        BY <1>0, <2>2, <2>3, <3>1, <3>2, <3>4, <3>6, <4>1, <4>3 DEF Signed
    <3> QED
      BY <1>0, <3>5, <3>6
  <2> QED
    BY <2>1, <2>3, <2>4, <2>5 DEF Fits
<1> QED
  BY <1>1, <1>2, <1>3

(* For every stream and every size of a long long: string2ll accepts the   *)
(* numerals of the values that fit, and those only, with their value.      *)
THEOREM NumbersAlwaysRead == Spec => []NumbersRead
<1>1. stream \in Streams => NumbersRead
  <2> SUFFICES ASSUME stream \in Seq(STRING), Len(stream) > 3 PROVE
                 LET s == SubSeq(stream, 2, Len(stream) - 2)
                 IN  Converted(s) = IF Fits(s) THEN Accepted(string2ll(s)) ELSE Refused
    BY RespAssumption DEF NumbersRead, Fits
  <2>1. SubSeq(stream, 2, Len(stream) - 2) \in Seq(STRING)
    OBVIOUS
  <2> QED
    BY <2>1, ConvertedMeans
<1>2. Init => stream \in Streams
  BY DEF Init
<1>3. stream \in Streams /\ [Next]_vars => (stream \in Streams)'
  BY DEF Next, vars, Call, Reset, Rest, Step, ProcEmpty, ProcUnknown, ProcNoLine, ProcLine,
         ProcBulk, ProcArray, MoveNextTask, ReturnItem, StoreElement, Wait, Advance, Fail,
         Overread
<1> QED
  BY <1>1, <1>2, <1>3, PTL DEF Spec
=============================================================================
