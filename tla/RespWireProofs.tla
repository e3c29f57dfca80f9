--------------------------- MODULE RespWireProofs ---------------------------
(***************************************************************************)
(* A message that was written within the limits of the parser is read back *)
(* as it was sent, however its bytes are cut into calls.  An item is a     *)
(* tree and the parser's tasks are a stack, so the invariant cannot        *)
(* speak of what is left to be read by recursion: it says instead that the *)
(* tasks lie along a path of the message's layout, from the item that is   *)
(* being returned down to the node that the next byte belongs to, and      *)
(* that each array on it holds the elements before the next node and none  *)
(* of those after.                                                         *)
(***************************************************************************)
EXTENDS RespWire, RespProofs, SequenceTheorems

(* How many bytes have been taken.                                         *)
Pos == base + len

(* The task of an array x of which e elements have been read.              *)
Partial(x, e) ==
  [elementIdx |-> e, elementCnt |-> Len(x.item.argv),
   item |-> Array([j \in 1..Len(x.item.argv) |-> IF j <= e THEN x.item.argv[j] ELSE Blank])]

(* A task inside of the array x.                                           *)
Inside(x, task, m) ==
  /\ InArray(m.wire, x, m.nodes)
  /\ task.elementIdx \in 0..(Len(x.item.argv) - 1)
  /\ task = Partial(x, task.elementIdx)

(* The node that follows the first e elements of x.                        *)
ChildOf(y, x, e) ==
  /\ y.item = x.item.argv[e + 1] /\ y.level = x.level + 1
  /\ y.at = x.cuts[e] /\ y.end = x.cuts[e + 1]

(* The tasks are the nodes of a path in the layout, from the item that is  *)
(* being read down to what is being read of it.                            *)
Along(m, path) ==
  /\ path \in [0..ridx -> m.nodes]
  /\ path[0].item = m.items[Len(got) + 1]
  /\ path[0].end = m.cuts[Len(got) + 1]
  /\ \A i \in 0..ridx : path[i].level = i
  /\ \A i \in 0..(ridx - 1) :
       Inside(path[i], tasks[i], m) /\ ChildOf(path[i + 1], path[i], tasks[i].elementIdx)

(* How far the parser has come with x, the last node of the path.          *)
Here(x, m) ==
  /\ pc \in {"idle", "proc"} =>
       Pos = x.at /\ Cur.item.type \in {"unknown", TypeOf(stream[Pos + 1])}
  /\ pc = "pre" => Pos = x.end /\ Cur.item = x.item
  /\ pc = "next" => Inside(x, Cur, m) /\ Pos = x.cuts[Cur.elementIdx]

(* What is read of m, and that a call returns what is complete.            *)
Reading(m) ==
  /\ pc \notin {"error", "died", "overread"}
  /\ Len(got) <= Len(m.items) /\ got = [i \in 1..Len(got) |-> m.items[i]]
  /\ pc = "value" => Len(got) > 0 /\ base = m.cuts[Len(got)]
  /\ pc \in {"idle", "value"} => len = 0
  /\ Active /\ Len(got) < Len(m.items) =>
       /\ base < Len(stream)
       /\ \E path \in [0..ridx -> m.nodes] : Along(m, path) /\ Here(path[ridx], m)
  /\ Active /\ Len(got) = Len(m.items) => pc = "idle" /\ base = Len(stream)
  /\ Len(m.items) = 1 /\ pc = "idle" /\ got = <<>> => fed < Len(stream)

-----------------------------------------------------------------------------
(***************************************************************************)
(* The arithmetic of lengths.                                              *)
(***************************************************************************)
LEMMA NoRemainder ==
  ASSUME NEW a \in Int, NEW n \in Nat \ {0}, -n < a, a < n
  PROVE  a % n = 0 <=> a = 0
<1>1. CASE a \in 0 .. n - 1
  BY <1>1, Remainder
<1>2. CASE a \in -n .. -1
  BY <1>2, Remainder
<1> QED
  BY <1>1, <1>2

(* A length that is not too large is an int and a number of respItems.     *)
LEMMA LengthKept ==
  ASSUME NEW n \in 0..MaxLen
  PROVE  /\ \A k \in Ints : Truncated(n, k) => k = n
         /\ \A k \in Counts : SizedAs(n, k) <=> k = n
<1>1. ASSUME NEW k \in Ints, Truncated(n, k) PROVE k = n
  <2>1. /\ n - k \in Int /\ 2 * (IntMax + 1) \in Nat \ {0}
        /\ -(2 * (IntMax + 1)) < n - k /\ n - k < 2 * (IntMax + 1)
    BY RespAssumption DEF Ints
  <2>2. (n - k) % (2 * (IntMax + 1)) = 0
    BY <1>1 DEF Truncated
  <2>3. n - k = 0
    BY <2>1, <2>2, NoRemainder
  <2> QED
    BY <2>3, RespAssumption DEF Ints
<1>2. ASSUME NEW k \in Counts PROVE SizedAs(n, k) <=> k = n
  <2>1. n - k \in Int /\ -SizeWrap < n - k /\ n - k < SizeWrap
    BY RespAssumption DEF Counts
  <2>2. (n - k) % SizeWrap = 0 <=> n - k = 0
    BY <2>1, NoRemainder, RespAssumption
  <2> QED
    BY <2>2, RespAssumption DEF SizedAs, Counts
<1> QED
  BY <1>1, <1>2

(***************************************************************************)
(* What the buffer shows of the stream.                                    *)
(***************************************************************************)
LEMMA BufferIs ==
  ASSUME IInv
  PROVE  /\ stream \in Seq(STRING) /\ Len(stream) \in Nat
         /\ Pos \in Nat /\ Pos <= fed /\ fed \in Nat /\ fed <= Len(stream)
         /\ Len(Buffer) = fed - Pos
         /\ \A i \in 1..(fed - Pos) : Buffer[i] = stream[Pos + i]
         /\ \A a, b \in Nat : a >= 1 /\ b <= fed - Pos =>
              SubSeq(Buffer, a, b) = SubSeq(stream, Pos + a, Pos + b)
<1>1. /\ stream \in Seq(STRING) /\ Len(stream) \in Nat
      /\ Pos \in Nat /\ Pos <= fed /\ fed \in Nat /\ fed <= Len(stream)
  BY RespAssumption DEF IInv, TakesWhatIsThere, Pos
<1>2. Buffer = SubSeq(stream, Pos + 1, fed)
  BY DEF Buffer, Pos
<1>3. /\ Buffer \in Seq(STRING) /\ Len(Buffer) = fed - Pos
      /\ \A i \in 1..(fed - Pos) : Buffer[i] = stream[Pos + i]
  BY <1>1, <1>2
<1>4. ASSUME NEW a \in Nat, NEW b \in Nat, a >= 1, b <= fed - Pos
      PROVE  SubSeq(Buffer, a, b) = SubSeq(stream, Pos + a, Pos + b)
  <2>1. SubSeq(Buffer, a, b) = [i \in 1..(b - a + 1) |-> Buffer[a + i - 1]]
    BY <1>1, <1>3, <1>4
  <2>2. SubSeq(stream, Pos + a, Pos + b) = [i \in 1..(b - a + 1) |-> stream[Pos + a + i - 1]]
    BY <1>1, <1>4
  <2>3. \A i \in 1..(b - a + 1) : Buffer[a + i - 1] = stream[Pos + a + i - 1]
    BY <1>1, <1>3, <1>4
  <2> QED
    BY <2>1, <2>2, <2>3
<1> QED
  BY <1>1, <1>3, <1>4

(* The line at the position of the parser, once it has arrived, and only   *)
(* then, is what the parser finds.                                         *)
LEMMA LineFound ==
  ASSUME IInv, NEW to \in Nat, NEW byte, byte # "CR", NEW text, Lined(stream, Pos, to, byte, text)
  PROVE  /\ \A end \in 1..Len(Buffer) : LineEnds(end) =>
              end = to - 2 - Pos /\ to <= fed /\ Line(end) = text
         /\ to <= fed => to - 2 - Pos \in 1..Len(Buffer) /\ LineEnds(to - 2 - Pos)
         /\ stream[Pos + 1] = byte
         /\ text \in Seq(STRING)
<1>1. /\ Pos \in Nat /\ fed \in Nat /\ Pos <= fed /\ fed <= Len(stream)
      /\ stream \in Seq(STRING) /\ Len(stream) \in Nat /\ Len(Buffer) = fed - Pos
  BY BufferIs
<1>2. /\ Pos + 3 <= to /\ to <= Len(stream) /\ stream[Pos + 1] = byte
      /\ SubSeq(stream, Pos + 2, to - 2) = text /\ \A i \in DOMAIN text : text[i] # "CR"
      /\ stream[to - 1] = "CR"
  BY DEF Lined
<1>3. text \in Seq(STRING) /\ Len(text) = to - 2 - (Pos + 1)
  <2> DEFINE first == Pos + 2
             last == to - 2
  <2>1. /\ first \in Int /\ last \in Int /\ first <= last + 1
        /\ last - first + 1 = to - 2 - (Pos + 1)
        /\ \A i \in first..last : stream[i] \in STRING
    BY <1>1, <1>2
  <2>2. SubSeq(stream, first, last) = text
    BY <1>2
  <2> HIDE DEF first, last
  <2>3. /\ SubSeq(stream, first, last) \in Seq(STRING)
        /\ Len(SubSeq(stream, first, last)) = IF first <= last THEN last - first + 1 ELSE 0
    BY <2>1, SubSeqProperties
  <2> QED
    BY <2>1, <2>2, <2>3
<1>4. \A j \in 1..(to - 2 - Pos) : stream[Pos + j] # "CR"
  <2> SUFFICES ASSUME NEW j \in 1..(to - 2 - Pos) PROVE stream[Pos + j] # "CR"
    OBVIOUS
  <2>1. CASE j = 1
    BY <1>2, <2>1
  <2>2. CASE j # 1
    <3>1. j - 1 \in DOMAIN text
      BY <1>1, <1>2, <1>3, <2>2
    <3>2. text[j - 1] = stream[Pos + j]
      BY <1>1, <1>2, <1>3, <2>2
    <3> QED
      BY <1>2, <3>1, <3>2
  <2> QED
    BY <2>1, <2>2
<1>5. \A i \in 1..(fed - Pos) : Buffer[i] = stream[Pos + i]
  BY BufferIs
<1>6. ASSUME NEW end \in 1..Len(Buffer), LineEnds(end)
      PROVE  end = to - 2 - Pos /\ to <= fed /\ Line(end) = text
  <2>1. /\ end \in 1..(fed - Pos - 2) /\ end + 1 \in 1..(fed - Pos)
        /\ Buffer[end + 1] = "CR" /\ \A i \in 1..end : Buffer[i] # "CR"
    BY <1>1, <1>6 DEF LineEnds
  <2>2. stream[Pos + (end + 1)] = "CR"
    BY <1>5, <2>1
  <2>3. end + 1 > to - 2 - Pos
    BY <1>1, <1>4, <2>1, <2>2
  <2>4. CASE end > to - 2 - Pos
    <3>1. to - 1 - Pos \in 1..end /\ to - 1 - Pos \in 1..(fed - Pos)
      BY <1>1, <1>2, <2>1, <2>4
    <3>2. Buffer[to - 1 - Pos] = stream[Pos + (to - 1 - Pos)]
      BY <1>5, <3>1
    <3>3. Pos + (to - 1 - Pos) = to - 1
      BY <1>1
    <3> QED
      BY <1>2, <2>1, <3>1, <3>2, <3>3
  <2>5. CASE end = to - 2 - Pos
    <3>1. Line(end) = SubSeq(stream, Pos + 2, Pos + end)
      BY <1>1, <2>1, BufferIs DEF Line
    <3>2. Pos + end = to - 2
      BY <1>1, <2>5
    <3>3. Line(end) = text
      BY <1>2, <3>1, <3>2
    <3>4. to <= fed
      BY <1>1, <2>1, <2>5
    <3> QED
      BY <2>5, <3>3, <3>4
  <2> QED
    BY <1>1, <2>1, <2>3, <2>4, <2>5
<1>7. ASSUME to <= fed
      PROVE  to - 2 - Pos \in 1..Len(Buffer) /\ LineEnds(to - 2 - Pos)
  <2> DEFINE end == to - 2 - Pos
  <2>1. end \in 1..(Len(Buffer) - 2) /\ end + 1 \in 1..(fed - Pos)
    BY <1>1, <1>2, <1>7
  <2>2. Buffer[end + 1] = stream[Pos + (end + 1)]
    BY <1>5, <2>1
  <2>3. Pos + (end + 1) = to - 1
    BY <1>1
  <2>4. \A i \in 1..end : Buffer[i] # "CR"
    <3> SUFFICES ASSUME NEW i \in 1..end PROVE Buffer[i] # "CR"
      OBVIOUS
    <3>1. i \in 1..(fed - Pos)
      BY <1>1, <2>1
    <3> QED
      BY <1>4, <1>5, <3>1
  <2> HIDE DEF end
  <2>5. LineEnds(end) /\ end \in 1..Len(Buffer)
    BY <1>1, <1>2, <2>1, <2>2, <2>3, <2>4 DEF LineEnds
  <2> QED
    BY <2>5 DEF end
<1> QED
  BY <1>2, <1>3, <1>6, <1>7

(* So is the length in a header.                                           *)
LEMMA HeaderRead ==
  ASSUME IInv, NEW to \in Nat, NEW byte \in {"$", "*"}, NEW n \in Nat,
         Headed(stream, Pos, to, byte, n)
  PROVE  /\ n \in 0..MaxLen
         /\ \A end \in 1..Len(Buffer) : LineEnds(end) =>
              /\ end = to - 2 - Pos /\ to <= fed
              /\ ~BadLength(Line(end)) /\ HeaderLength(Line(end)) = n
         /\ to <= fed => to - 2 - Pos \in 1..Len(Buffer) /\ LineEnds(to - 2 - Pos)
         /\ stream[Pos + 1] = byte
         /\ Pos + 3 <= to
<1>1. PICK text : /\ Lined(stream, Pos, to, byte, text)
                  /\ IsNumeral(text) /\ string2ll(text) = n /\ n <= MaxLen
  BY DEF Headed
<1>2. n \in LongLong /\ n \in 0..MaxLen
  BY <1>1, RespAssumption DEF LongLong
<1>3. text \in Seq(STRING)
  BY <1>1, LineFound
<1>4. Converted(text) = Accepted(n)
  BY <1>1, <1>2, <1>3, ConvertedMeans DEF Fits
<1>5. ~BadLength(text) /\ HeaderLength(text) = n
  BY <1>1, <1>2, <1>4, RespAssumption DEF BadLength, HeaderLength, Accepted
<1> QED
  BY <1>1, <1>2, <1>5, LineFound DEF Lined

(***************************************************************************)
(* The layout.                                                             *)
(***************************************************************************)
LEMMA NodeIs ==
  ASSUME NEW m \in Sent, m.wire = stream, NEW x \in m.nodes
  PROVE  /\ x.at \in Nat /\ x.end \in Nat /\ x.at < x.end /\ x.end <= Len(stream)
         /\ x.level \in 0..(MaxDepth - 1)
         /\ OnALine(stream, x) \/ InBulk(stream, x) \/ InArray(stream, x, m.nodes)
BY SentAssumption DEF Written

LEMMA LaidOut ==
  ASSUME NEW items, NEW cuts, NEW level, NEW nodes, Laid(items, cuts, level, nodes)
  PROVE  /\ Len(items) \in Nat /\ items = [i \in 1..Len(items) |-> items[i]]
         /\ \A i \in 0..Len(items) : cuts[i] \in Nat
         /\ \A e \in 0..(Len(items) - 1) : \E y \in nodes :
              /\ y.item = items[e + 1] /\ y.level = level
              /\ y.at = cuts[e] /\ y.end = cuts[e + 1]
<1>1. items \in Seq({x.item : x \in nodes})
  BY DEF Laid
<1>2. Len(items) \in Nat /\ items = [i \in 1..Len(items) |-> items[i]]
  BY <1>1
<1>3. ASSUME NEW e \in 0..(Len(items) - 1)
      PROVE  \E y \in nodes : /\ y.item = items[e + 1] /\ y.level = level
                              /\ y.at = cuts[e] /\ y.end = cuts[e + 1]
  <2>1. e + 1 \in 1..Len(items) /\ (e + 1) - 1 = e
    BY <1>2
  <2> QED
    BY <2>1 DEF Laid
<1> QED
  BY <1>2, <1>3 DEF Laid

LEMMA ElementsOf ==
  ASSUME NEW x, NEW nodes, InArray(stream, x, nodes)
  PROVE  /\ Len(x.item.argv) \in Nat
         /\ x.item = Array([i \in 1..Len(x.item.argv) |-> x.item.argv[i]])
         /\ \A e \in 0..(Len(x.item.argv) - 1) : \E y \in nodes : ChildOf(y, x, e)
         /\ x.cuts[0] \in Nat
<1> DEFINE items == x.item.argv
<1>1. Laid(items, x.cuts, x.level + 1, nodes) /\ x.item = Array(items)
  BY DEF InArray
<1> HIDE DEF items
<1>2. /\ Len(items) \in Nat /\ items = [i \in 1..Len(items) |-> items[i]]
      /\ \A i \in 0..Len(items) : x.cuts[i] \in Nat
      /\ \A e \in 0..(Len(items) - 1) : \E y \in nodes :
           /\ y.item = items[e + 1] /\ y.level = x.level + 1
           /\ y.at = x.cuts[e] /\ y.end = x.cuts[e + 1]
  BY <1>1, LaidOut
<1>3. \A e \in 0..(Len(items) - 1) : \E y \in nodes : ChildOf(y, x, e)
  BY <1>2 DEF ChildOf, items
<1>4. x.cuts[0] \in Nat
  BY <1>2
<1> QED
  BY <1>1, <1>2, <1>3, <1>4 DEF items

LEMMA ItemsOf ==
  ASSUME NEW m \in Sent, m.wire = stream
  PROVE  /\ Len(m.items) \in Nat /\ m.items = [i \in 1..Len(m.items) |-> m.items[i]]
         /\ \A e \in 0..(Len(m.items) - 1) : \E y \in m.nodes :
              /\ y.item = m.items[e + 1] /\ y.level = 0
              /\ y.at = m.cuts[e] /\ y.end = m.cuts[e + 1]
         /\ m.cuts[0] = 0 /\ m.cuts[Len(m.items)] = Len(stream)
<1>1. /\ Laid(m.items, m.cuts, 0, m.nodes)
      /\ m.cuts[0] = 0 /\ m.cuts[Len(m.items)] = Len(stream)
  BY SentAssumption DEF Written
<1> DEFINE items == m.items
           cuts == m.cuts
           nodes == m.nodes
<1> HIDE DEF items, cuts, nodes
<1>2. Laid(items, cuts, 0, nodes)
  BY <1>1 DEF items, cuts, nodes
<1>3. /\ Len(items) \in Nat /\ items = [i \in 1..Len(items) |-> items[i]]
      /\ \A e \in 0..(Len(items) - 1) : \E y \in nodes :
           /\ y.item = items[e + 1] /\ y.level = 0
           /\ y.at = cuts[e] /\ y.end = cuts[e + 1]
  BY <1>2, LaidOut
<1> QED
  BY <1>1, <1>3 DEF items, cuts, nodes

(* What follows the items read so far is the beginning of the next one.    *)
LEMMA NextItem ==
  ASSUME NEW m \in Sent, m.wire = stream, NEW k \in Nat, k < Len(m.items)
  PROVE  /\ \E y \in m.nodes : /\ y.item = m.items[k + 1] /\ y.level = 0
                               /\ y.at = m.cuts[k] /\ y.end = m.cuts[k + 1]
         /\ m.cuts[k] \in Nat /\ m.cuts[k] < Len(stream)
<1>1. k \in 0..(Len(m.items) - 1)
  BY ItemsOf
<1>2. PICK y \in m.nodes : /\ y.item = m.items[k + 1] /\ y.level = 0
                           /\ y.at = m.cuts[k] /\ y.end = m.cuts[k + 1]
  BY <1>1, ItemsOf
<1>3. y.at \in Nat /\ y.end \in Nat /\ y.at < y.end /\ y.end <= Len(stream)
  BY NodeIs
<1>4. y.at < Len(stream)
  <2>1. m.cuts[Len(m.items)] = Len(stream) /\ Len(m.items) \in Nat
        /\ \A i \in 0..Len(m.items) : m.cuts[i] \in Nat
    BY SentAssumption, LaidOut DEF Written
  <2>2. Len(stream) \in Nat
    BY <2>1
  <2> QED
    BY <1>3, <2>2
<1> QED
  BY <1>2, <1>3, <1>4

-----------------------------------------------------------------------------
(***************************************************************************)
(* The steps.                                                              *)
(***************************************************************************)
(* The node that the parser is at.                                         *)
At(m, path, x) ==
  /\ Len(got) < Len(m.items) /\ base < Len(stream)
  /\ Along(m, path) /\ Here(x, m)
  /\ ridx \in 0..(MaxDepth - 1) /\ x = path[ridx] /\ x \in m.nodes /\ x.level = ridx

LEMMA IsAt ==
  ASSUME IInv, NEW m \in Sent, m.wire = stream, Reading(m), pc \in {"proc", "pre", "next"}
  PROVE  \E path, x : At(m, path, x)
<1>1. Len(got) < Len(m.items)
  <2>1. Len(m.items) \in Nat /\ Len(got) <= Len(m.items) /\ Len(got) # Len(m.items)
    BY ItemsOf DEF Reading, Active
  <2>2. Len(got) \in Nat
    BY DEF Reading
  <2> QED
    BY <2>1, <2>2
<1>2. base < Len(stream)
  BY <1>1 DEF Reading, Active
<1>3. PICK path \in [0..ridx -> m.nodes] : Along(m, path) /\ Here(path[ridx], m)
  BY <1>1 DEF Reading, Active
<1>4. ridx \in 0..(MaxDepth - 1) /\ ridx \in 0..ridx
  BY RespAssumption DEF IInv, Active
<1>5. path[ridx] \in m.nodes /\ path[ridx].level = ridx
  BY <1>3, <1>4 DEF Along
<1> QED
  BY <1>1, <1>2, <1>3, <1>4, <1>5 DEF At

(* A step that changes the task of x and nothing above it.                 *)
LEMMA StaysAt ==
  ASSUME IInv, IInv', NEW m \in Sent, m.wire = stream, Reading(m),
         NEW path, NEW x, At(m, path, x),
         UNCHANGED <<stream, ridx, got>>,
         NEW t, tasks' = [tasks EXCEPT ![ridx] = t],
         pc' \in {"idle", "pre", "next"},
         Here(x, m)', base' < Len(stream),
         pc' = "idle" => len' = 0 /\ fed' < Len(stream)
  PROVE  Reading(m)'
<1>1. \A i \in 0..(ridx - 1) : tasks'[i] = tasks[i]
  BY DEF IInv, TasksOK, At
<1>2. Along(m, path)'
  <2>1. \A i \in 0..(ridx - 1) :
           /\ Inside(path[i], tasks'[i], m)
           /\ ChildOf(path[i + 1], path[i], tasks'[i].elementIdx)
    BY <1>1 DEF At, Along
  <2> QED
    BY <2>1 DEF At, Along
<1>3. path \in [0..ridx' -> m.nodes] /\ Here(path[ridx], m)'
  BY DEF At, Along
<1> QED
  BY <1>2, <1>3 DEF Reading, At, Active

LEMMA CurChanged ==
  ASSUME IInv, ridx \in 0..(MaxDepth - 1), UNCHANGED ridx,
         NEW t, tasks' = [tasks EXCEPT ![ridx] = t]
  PROVE  Cur' = t
BY DEF IInv, TasksOK, Cur

LEMMA WaitReads ==
  ASSUME IInv, IInv', NEW m \in Sent, m.wire = stream, Reading(m), pc = "proc",
         NEW path, NEW x, At(m, path, x),
         NEW t, t.item.type \in {"unknown", TypeOf(stream[Pos + 1])}, Wait(t),
         fed < x.end
  PROVE  Reading(m)'
<1>1. /\ tasks' = [tasks EXCEPT ![ridx] = t]
      /\ base' = Pos /\ len' = 0 /\ pc' = "idle" /\ UNCHANGED <<stream, fed, ridx, got>>
  BY DEF Wait, Pos
<1>2. Cur' = t
  BY <1>1, CurChanged DEF At
<1>3. Pos' = Pos /\ Pos = x.at
  BY <1>1, BufferIs DEF Pos, At, Here
<1>4. Here(x, m)'
  BY <1>1, <1>2, <1>3 DEF Here
<1>5. Pos < Len(stream) /\ fed < Len(stream)
  <2>1. x.at \in Nat /\ x.end \in Nat /\ x.at < x.end /\ x.end <= Len(stream)
    BY NodeIs DEF At
  <2>2. Len(stream) \in Nat /\ fed \in Nat
    BY BufferIs
  <2> QED
    BY <1>3, <2>1, <2>2
<1> QED
  BY <1>1, <1>4, <1>5, StaysAt

LEMMA AdvanceReads ==
  ASSUME IInv, IInv', NEW m \in Sent, m.wire = stream, Reading(m), pc = "proc",
         NEW path, NEW x, At(m, path, x),
         NEW t, NEW n \in Nat, NEW point \in {"pre", "next"}, Advance(t, n, point),
         point = "pre" => Pos + n = x.end /\ t.item = x.item,
         point = "next" => Inside(x, t, m) /\ Pos + n = x.cuts[t.elementIdx]
  PROVE  Reading(m)'
<1>1. /\ tasks' = [tasks EXCEPT ![ridx] = t]
      /\ base' = base /\ len' = len + n /\ pc' = point /\ UNCHANGED <<stream, fed, ridx, got>>
  BY DEF Advance
<1>2. Cur' = t
  BY <1>1, CurChanged DEF At
<1>3. Pos' = Pos + n
  BY <1>1, BufferIs DEF Pos, IInv
<1>4. Here(x, m)'
  <2>1. CASE point = "pre"
    <3>1. Pos' = x.end /\ Cur'.item = x.item /\ pc' = "pre"
      BY <1>1, <1>2, <1>3, <2>1
    <3> QED
      BY <3>1 DEF Here
  <2>2. CASE point = "next"
    <3>1. Inside(x, Cur, m)'
      BY <1>2, <2>2
    <3>2. (Pos = x.cuts[Cur.elementIdx])'
      <4>1. Pos + n = x.cuts[t.elementIdx]
        BY <2>2
      <4> HIDE DEF Pos, Cur
      <4> QED
        BY <1>2, <1>3, <4>1
    <3>3. pc' = "next"
      BY <1>1, <2>2
    <3> QED
      BY <3>1, <3>2, <3>3 DEF Here
  <2> QED
    BY <2>1, <2>2
<1>5. base' < Len(stream)
  BY <1>1 DEF At
<1> QED
  BY <1>1, <1>4, <1>5, StaysAt

(* What procItem finds at the node it is at.                               *)
LEMMA ProcAt ==
  ASSUME IInv, NEW m \in Sent, m.wire = stream, pc = "proc",
         NEW path, NEW x, At(m, path, x)
  PROVE  /\ Pos = x.at /\ Cur.item.type \in {"unknown", TypeOf(stream[Pos + 1])}
         /\ \/ /\ x.item = String(x.item.bytes)
               /\ Lined(stream, Pos, x.end, "+", x.item.bytes)
               /\ TypeOf(stream[Pos + 1]) = "string"
            \/ /\ x.item = Error(x.item.bytes)
               /\ Lined(stream, Pos, x.end, "-", x.item.bytes)
               /\ TypeOf(stream[Pos + 1]) = "error"
            \/ /\ InBulk(stream, x) /\ TypeOf(stream[Pos + 1]) = "bulk"
               /\ Headed(stream, Pos, x.cuts[0], "$", Len(x.item.bytes))
            \/ /\ InArray(stream, x, m.nodes) /\ TypeOf(stream[Pos + 1]) = "array"
               /\ Headed(stream, Pos, x.cuts[0], "*", Len(x.item.argv))
         /\ Len(Buffer) > 0 => ItemType = TypeOf(stream[Pos + 1])
<1>1. Pos = x.at /\ Cur.item.type \in {"unknown", TypeOf(stream[Pos + 1])}
  BY DEF At, Here
<1>2. OnALine(stream, x) \/ InBulk(stream, x) \/ InArray(stream, x, m.nodes)
  BY NodeIs DEF At
<1>3. Len(Buffer) > 0 => ItemType = TypeOf(stream[Pos + 1])
  <2> SUFFICES ASSUME Len(Buffer) > 0 PROVE ItemType = TypeOf(stream[Pos + 1])
    OBVIOUS
  <2>1. 1 \in 1..(fed - Pos)
    BY BufferIs
  <2>2. Buffer[1] = stream[Pos + 1]
    BY <2>1, BufferIs
  <2> QED
    BY <1>1, <2>2 DEF ItemType
<1>4. CASE OnALine(stream, x)
  <2>1. CASE x.item = String(x.item.bytes) /\ Lined(stream, x.at, x.end, "+", x.item.bytes)
    <3>1. TypeOf(stream[Pos + 1]) = "string"
      BY <1>1, <2>1 DEF Lined, TypeOf
    <3> QED
      BY <1>1, <1>3, <2>1, <3>1
  <2>2. CASE x.item = Error(x.item.bytes) /\ Lined(stream, x.at, x.end, "-", x.item.bytes)
    <3>1. TypeOf(stream[Pos + 1]) = "error"
      BY <1>1, <2>2 DEF Lined, TypeOf
    <3> QED
      BY <1>1, <1>3, <2>2, <3>1
  <2> QED
    BY <1>4, <2>1, <2>2 DEF OnALine
<1>5. CASE InBulk(stream, x)
  <2>1. Headed(stream, Pos, x.cuts[0], "$", Len(x.item.bytes))
    BY <1>1, <1>5 DEF InBulk
  <2>2. TypeOf(stream[Pos + 1]) = "bulk"
    BY <2>1 DEF Headed, Lined, TypeOf
  <2> QED
    BY <1>1, <1>3, <1>5, <2>1, <2>2
<1>6. CASE InArray(stream, x, m.nodes)
  <2>1. Headed(stream, Pos, x.cuts[0], "*", Len(x.item.argv))
    BY <1>1, <1>6 DEF InArray
  <2>2. TypeOf(stream[Pos + 1]) = "array"
    BY <2>1 DEF Headed, Lined, TypeOf
  <2> QED
    BY <1>1, <1>3, <1>6, <2>1, <2>2
<1> QED
  BY <1>2, <1>4, <1>5, <1>6

LEMMA EmptyReads ==
  ASSUME IInv, IInv', NEW m \in Sent, m.wire = stream, Reading(m), ProcEmpty
  PROVE  Reading(m)'
<1>1. pc = "proc" /\ Len(Buffer) <= 0 /\ Wait(Cur)
  BY DEF ProcEmpty
<1>2. PICK path, x : At(m, path, x)
  BY <1>1, IsAt
<1>3. Pos = x.at /\ Cur.item.type \in {"unknown", TypeOf(stream[Pos + 1])}
  BY <1>1, <1>2, ProcAt
<1>4. fed < x.end
  <2>1. x.at \in Nat /\ x.end \in Nat /\ x.at < x.end
    BY <1>2, NodeIs DEF At
  <2>2. Pos \in Nat /\ fed \in Nat /\ Len(Buffer) = fed - Pos
    BY BufferIs
  <2> QED
    BY <1>1, <1>3, <2>1, <2>2
<1> QED
  BY <1>1, <1>2, <1>3, <1>4, WaitReads

LEMMA UnknownImpossible ==
  ASSUME IInv, NEW m \in Sent, m.wire = stream, Reading(m)
  PROVE  ~ProcUnknown
<1> SUFFICES ASSUME ProcUnknown PROVE FALSE
  OBVIOUS
<1>1. pc = "proc" /\ Len(Buffer) > 0 /\ ItemType = "unknown"
  BY DEF ProcUnknown
<1>2. PICK path, x : At(m, path, x)
  BY <1>1, IsAt
<1> QED
  BY <1>1, <1>2, ProcAt

LEMMA BytesLength ==
  ASSUME IInv, NEW m \in Sent, m.wire = stream, NEW x \in m.nodes, InBulk(stream, x)
  PROVE  /\ Len(x.item.bytes) \in Nat /\ x.cuts[0] \in Nat
         /\ x.end = x.cuts[0] + Len(x.item.bytes) + 2
         /\ SubSeq(stream, x.cuts[0] + 1, x.end - 2) = x.item.bytes
<1> DEFINE first == x.cuts[0] + 1
           last == x.end - 2
<1>1. first \in Int /\ last \in Int /\ x.item.bytes = SubSeq(stream, first, last)
  BY NodeIs DEF InBulk
<1> HIDE DEF first, last
<1>2. Len(SubSeq(stream, first, last)) \in Nat
  BY <1>1
<1> QED
  BY <1>1, <1>2 DEF InBulk

LEMMA TypedIs ==
  ASSUME IInv, pc = "proc"
  PROVE  Typed.item.type = ItemType
BY CurOK DEF Typed, TaskOK, ItemOK

(* Where the line that procItem awaits has its end.                        *)
LEMMA LineOf ==
  ASSUME IInv, NEW m \in Sent, m.wire = stream, pc = "proc",
         NEW path, NEW x, At(m, path, x)
  PROVE  \E to \in Nat :
           /\ to <= x.end
           /\ to <= fed => \E end \in 1..Len(Buffer) : LineEnds(end)
<1>1. x.at \in Nat /\ x.end \in Nat
  BY NodeIs DEF At
<1>2. CASE \E byte \in {"+", "-"} : Lined(stream, Pos, x.end, byte, x.item.bytes)
  <2>1. PICK byte \in {"+", "-"} : Lined(stream, Pos, x.end, byte, x.item.bytes)
    BY <1>2
  <2>2. x.end <= fed => \E end \in 1..Len(Buffer) : LineEnds(end)
    BY <1>1, <2>1, LineFound
  <2> QED
    BY <1>1, <2>2
<1>3. CASE \E byte \in {"$", "*"}, n \in Nat :
             /\ Headed(stream, Pos, x.cuts[0], byte, n)
             /\ x.cuts[0] \in Nat /\ x.cuts[0] <= x.end
  <2>1. PICK byte \in {"$", "*"}, n \in Nat : Headed(stream, Pos, x.cuts[0], byte, n)
    BY <1>3
  <2>2. x.cuts[0] \in Nat /\ x.cuts[0] <= x.end
    BY <1>3
  <2>3. x.cuts[0] <= fed => \E end \in 1..Len(Buffer) : LineEnds(end)
    BY <2>1, <2>2, HeaderRead
  <2> QED
    BY <2>2, <2>3
<1>4. InBulk(stream, x) => x.cuts[0] \in Nat /\ x.cuts[0] <= x.end /\ Len(x.item.bytes) \in Nat
  <2> SUFFICES ASSUME InBulk(stream, x)
               PROVE  x.cuts[0] \in Nat /\ x.cuts[0] <= x.end /\ Len(x.item.bytes) \in Nat
    OBVIOUS
  <2>1. /\ Len(x.item.bytes) \in Nat /\ x.cuts[0] \in Nat
        /\ x.end = x.cuts[0] + Len(x.item.bytes) + 2
    BY BytesLength DEF At
  <2> QED
    BY <2>1
<1>5. InArray(stream, x, m.nodes) =>
        x.cuts[0] \in Nat /\ x.cuts[0] <= x.end /\ Len(x.item.argv) \in Nat
  BY ElementsOf DEF InArray
<1> QED
  BY <1>2, <1>3, <1>4, <1>5, ProcAt

LEMMA NoLineReads ==
  ASSUME IInv, IInv', NEW m \in Sent, m.wire = stream, Reading(m), ProcNoLine
  PROVE  Reading(m)'
<1>1. /\ pc = "proc" /\ Len(Buffer) > 0 /\ Wait(Typed)
      /\ ~\E end \in 1..Len(Buffer) : LineEnds(end)
  BY DEF ProcNoLine
<1>2. PICK path, x : At(m, path, x)
  BY <1>1, IsAt
<1>3. PICK to \in Nat :
           /\ to <= x.end
           /\ to <= fed => \E end \in 1..Len(Buffer) : LineEnds(end)
  BY <1>1, <1>2, LineOf
<1>4. fed < x.end
  <2>1. x.end \in Nat /\ fed \in Nat
    BY <1>2, NodeIs, BufferIs DEF At
  <2> QED
    BY <1>1, <1>3, <2>1
<1>5. Typed.item.type = TypeOf(stream[Pos + 1])
  BY <1>1, <1>2, ProcAt, TypedIs
<1> QED
  BY <1>1, <1>2, <1>4, <1>5, WaitReads

LEMMA LineReads ==
  ASSUME IInv, IInv', NEW m \in Sent, m.wire = stream, Reading(m), ProcLine
  PROVE  Reading(m)'
<1>1. pc = "proc" /\ Len(Buffer) > 0 /\ ItemType \in {"string", "error", "integer"}
  BY DEF ProcLine
<1>2. PICK end \in 1..Len(Buffer) :
        /\ LineEnds(end)
        /\ Advance(CASE ItemType = "string"  -> Holding(String(Line(end)))
                     [] ItemType = "error"   -> Holding(Error(Line(end)))
                     [] ItemType = "integer" -> Typed,
                   end + 2, "pre")
  BY DEF ProcLine
<1>3. PICK path, x : At(m, path, x)
  BY <1>1, IsAt
<1>4. x.end \in Nat /\ Pos \in Nat /\ end \in Nat
  <2>1. x \in m.nodes
    BY <1>3 DEF At
  <2>2. x.end \in Nat
    BY <2>1, NodeIs
  <2> QED
    BY <2>2, BufferIs
<1>5. ASSUME NEW byte \in {"+", "-"}, NEW t,
             Lined(stream, Pos, x.end, byte, x.item.bytes),
             Advance(t, end + 2, "pre"), t.item = x.item
      PROVE  Reading(m)'
  <2>1. end = x.end - 2 - Pos
    BY <1>2, <1>4, <1>5, LineFound
  <2>2. Pos + (end + 2) = x.end /\ end + 2 \in Nat
    BY <1>4, <2>1
  <2> QED
    BY <1>1, <1>3, <1>5, <2>2, AdvanceReads
<1>6. \A item : Holding(item).item = item
  BY <1>1, CurOK DEF Holding, TaskOK
<1>7. CASE ItemType = "string"
  <2>1. x.item = String(x.item.bytes) /\ Lined(stream, Pos, x.end, "+", x.item.bytes)
    BY <1>1, <1>3, <1>7, ProcAt
  <2>2. Line(end) = x.item.bytes
    BY <1>2, <1>4, <2>1, LineFound
  <2>3. Advance(Holding(String(Line(end))), end + 2, "pre")
    BY <1>2, <1>7
  <2>4. Holding(String(Line(end))).item = x.item
    BY <1>6, <2>1, <2>2
  <2> QED
    BY <1>5, <2>1, <2>3, <2>4
<1>8. CASE ItemType = "error"
  <2>1. x.item = Error(x.item.bytes) /\ Lined(stream, Pos, x.end, "-", x.item.bytes)
    BY <1>1, <1>3, <1>8, ProcAt
  <2>2. Line(end) = x.item.bytes
    BY <1>2, <1>4, <2>1, LineFound
  <2>3. Advance(Holding(Error(Line(end))), end + 2, "pre")
    BY <1>2, <1>8
  <2>4. Holding(Error(Line(end))).item = x.item
    BY <1>6, <2>1, <2>2
  <2> QED
    BY <1>5, <2>1, <2>3, <2>4
<1> QED
  BY <1>1, <1>3, <1>7, <1>8, ProcAt

LEMMA BulkReads ==
  ASSUME IInv, IInv', NEW m \in Sent, m.wire = stream, Reading(m), ProcBulk
  PROVE  Reading(m)'
<1>1. pc = "proc" /\ Len(Buffer) > 0 /\ ItemType = "bulk"
  BY DEF ProcBulk
<1>2. PICK end \in 1..Len(Buffer) :
        /\ LineEnds(end)
        /\ IF BadLength(Line(end)) THEN Fail
           ELSE \E n \in Ints :
                  /\ Truncated(HeaderLength(Line(end)), n)
                  /\ IF IntSum(n + 2 + end + 2) > Len(Buffer) THEN Wait(Typed)
                     ELSE IF n < 0 THEN Fail
                     ELSE IF n + 2 + end + 2 > Len(Buffer) THEN Overread
                     ELSE Advance(Holding(String(SubSeq(Buffer, end + 3, end + 2 + n))),
                                  n + 2 + end + 2, "pre")
  BY DEF ProcBulk
<1>3. PICK path, x : At(m, path, x)
  BY <1>1, IsAt
<1>4. InBulk(stream, x) /\ Headed(stream, Pos, x.cuts[0], "$", Len(x.item.bytes))
  BY <1>1, <1>3, ProcAt
<1> DEFINE n == Len(x.item.bytes)
           to == x.cuts[0]
<1>5. /\ n \in Nat /\ to \in Nat /\ x.end = to + n + 2
      /\ SubSeq(stream, to + 1, x.end - 2) = x.item.bytes
  BY <1>3, <1>4, BytesLength DEF At
<1>6. /\ n \in 0..MaxLen /\ end = to - 2 - Pos
      /\ ~BadLength(Line(end)) /\ HeaderLength(Line(end)) = n
  BY <1>2, <1>4, <1>5, HeaderRead
<1>7. x.item = String(x.item.bytes)
  BY <1>4 DEF InBulk
<1>8. Pos \in Nat /\ fed \in Nat /\ Len(Buffer) = fed - Pos /\ end \in Nat
  BY BufferIs
<1> HIDE DEF n, to
<1>13. n + 2 + end + 2 <= IntMax /\ IntSum(n + 2 + end + 2) = n + 2 + end + 2
  <2>1. n + 2 + end + 2 = x.end - Pos /\ n + 2 + end + 2 \in Nat
    BY <1>5, <1>6, <1>8
  <2>2. x.end - Pos <= IntMax
    BY <1>1, <1>3, <1>4, ProcAt DEF InBulk
  <2> QED
    BY <2>1, <2>2, RespAssumption DEF IntSum
<1>9. IF n + 2 + end + 2 > Len(Buffer) THEN Wait(Typed)
      ELSE Advance(Holding(String(SubSeq(Buffer, end + 3, end + 2 + n))),
                   n + 2 + end + 2, "pre")
  <2>1. PICK k \in Ints :
          /\ Truncated(n, k)
          /\ IF IntSum(k + 2 + end + 2) > Len(Buffer) THEN Wait(Typed)
             ELSE IF k < 0 THEN Fail
             ELSE IF k + 2 + end + 2 > Len(Buffer) THEN Overread
             ELSE Advance(Holding(String(SubSeq(Buffer, end + 3, end + 2 + k))),
                          k + 2 + end + 2, "pre")
    BY <1>2, <1>6
  <2>2. k = n
    BY <1>6, <2>1, LengthKept
  <2>3. ~(n < 0)
    BY <1>5
  <2> QED
    BY <1>13, <2>1, <2>2, <2>3
<1>10. n + 2 + end + 2 = x.end - Pos
  BY <1>5, <1>6, <1>8
<1>11. CASE n + 2 + end + 2 > Len(Buffer)
  <2>1. fed < x.end
    BY <1>5, <1>8, <1>10, <1>11
  <2>2. Typed.item.type = TypeOf(stream[Pos + 1])
    BY <1>1, <1>3, ProcAt, TypedIs
  <2> QED
    BY <1>1, <1>3, <1>9, <1>11, <2>1, <2>2, WaitReads
<1>12. CASE ~(n + 2 + end + 2 > Len(Buffer))
  <2> DEFINE content == SubSeq(Buffer, end + 3, end + 2 + n)
  <2>1. /\ end + 3 \in Nat /\ end + 2 + n \in Nat /\ end + 3 >= 1
        /\ end + 2 + n <= fed - Pos
    BY <1>5, <1>8, <1>12
  <2>2. content = SubSeq(stream, Pos + (end + 3), Pos + (end + 2 + n))
    BY <2>1, BufferIs
  <2>3. Pos + (end + 3) = to + 1 /\ Pos + (end + 2 + n) = x.end - 2
    BY <1>5, <1>6, <1>8
  <2>4. content = x.item.bytes
    BY <1>5, <2>2, <2>3
  <2>5. Holding(String(content)).item = x.item
    <3>1. \A item : Holding(item).item = item
      BY <1>1, CurOK DEF Holding, TaskOK
    <3> QED
      BY <1>7, <2>4, <3>1
  <2>6. Advance(Holding(String(content)), n + 2 + end + 2, "pre")
    BY <1>9, <1>12
  <2>7. Pos + (n + 2 + end + 2) = x.end /\ n + 2 + end + 2 \in Nat
    BY <1>5, <1>8, <1>10
  <2> HIDE DEF content
  <2> QED
    BY <1>1, <1>3, <2>5, <2>6, <2>7, AdvanceReads
<1> QED
  BY <1>11, <1>12

LEMMA ArrayReads ==
  ASSUME IInv, IInv', NEW m \in Sent, m.wire = stream, Reading(m), ProcArray
  PROVE  Reading(m)'
<1>1. pc = "proc" /\ Len(Buffer) > 0 /\ ItemType = "array"
  BY DEF ProcArray
<1>2. PICK end \in 1..Len(Buffer) :
        /\ LineEnds(end)
        /\ IF BadLength(Line(end)) THEN Fail
           ELSE \/ \E n \in Counts :
                     /\ SizedAs(HeaderLength(Line(end)), n)
                     /\ Advance([elementIdx |-> 0, elementCnt |-> n,
                                 item |-> Array([i \in 1..n |-> Blank])],
                                end + 2, IF n > 0 THEN "next" ELSE "pre")
                \/ ~\E n \in Counts : SizedAs(HeaderLength(Line(end)), n)
  BY DEF ProcArray
<1>3. PICK path, x : At(m, path, x)
  BY <1>1, IsAt
<1>4. InArray(stream, x, m.nodes) /\ Headed(stream, Pos, x.cuts[0], "*", Len(x.item.argv))
  BY <1>1, <1>3, ProcAt
<1> DEFINE n == Len(x.item.argv)
           to == x.cuts[0]
<1>5. /\ n \in Nat /\ to \in Nat
      /\ x.item = Array([i \in 1..n |-> x.item.argv[i]])
  BY <1>4, ElementsOf
<1>6. /\ n \in 0..MaxLen /\ end = to - 2 - Pos
      /\ ~BadLength(Line(end)) /\ HeaderLength(Line(end)) = n
  BY <1>2, <1>4, <1>5, HeaderRead
<1>7. Pos \in Nat /\ end \in Nat
  BY BufferIs
<1>8. x.end = x.cuts[n]
  BY <1>4 DEF InArray
<1>9. Partial(x, 0) = [elementIdx |-> 0, elementCnt |-> n,
                       item |-> Array([i \in 1..n |-> Blank])]
  <2>1. [j \in 1..n |-> IF j <= 0 THEN x.item.argv[j] ELSE Blank] = [j \in 1..n |-> Blank]
    BY <1>5
  <2> QED
    BY <2>1 DEF Partial
<1> HIDE DEF n, to
<1>10. Advance(Partial(x, 0), end + 2, IF n > 0 THEN "next" ELSE "pre")
  <2>1. n \in Counts
    BY <1>6 DEF Counts
  <2>2. \A k \in Counts : SizedAs(n, k) <=> k = n
    BY <1>6, LengthKept
  <2>3. PICK k \in Counts :
          /\ SizedAs(n, k)
          /\ Advance([elementIdx |-> 0, elementCnt |-> k,
                      item |-> Array([i \in 1..k |-> Blank])],
                     end + 2, IF k > 0 THEN "next" ELSE "pre")
    BY <1>2, <1>6, <2>1, <2>2
  <2>4. k = n
    BY <2>2, <2>3
  <2> QED
    BY <1>9, <2>3, <2>4
<1>11. Pos + (end + 2) = to /\ end + 2 \in Nat
  BY <1>5, <1>6, <1>7
<1>12. CASE n > 0
  <2>1. Partial(x, 0).elementIdx = 0
    BY DEF Partial
  <2>2. Inside(x, Partial(x, 0), m)
    BY <1>4, <1>5, <1>12, <2>1 DEF Inside, n
  <2>3. Pos + (end + 2) = x.cuts[Partial(x, 0).elementIdx]
    BY <1>11, <2>1 DEF to
  <2>4. Advance(Partial(x, 0), end + 2, "next")
    BY <1>10, <1>12
  <2> QED
    BY <1>1, <1>3, <1>11, <2>2, <2>3, <2>4, AdvanceReads
<1>13. CASE ~(n > 0)
  <2>1. n = 0
    BY <1>5, <1>13
  <2>2. Pos + (end + 2) = x.end
    BY <1>8, <1>11, <2>1 DEF to
  <2>3. Partial(x, 0).item = x.item
    <3>1. [i \in 1..n |-> x.item.argv[i]] = [i \in 1..n |-> Blank]
      BY <2>1
    <3> QED
      BY <1>5, <1>9, <3>1
  <2>4. Advance(Partial(x, 0), end + 2, "pre")
    BY <1>10, <1>13
  <2> QED
    BY <1>1, <1>3, <1>11, <2>2, <2>3, <2>4, AdvanceReads
<1> QED
  BY <1>12, <1>13

(* A step to another node.                                                 *)
LEMMA MovesTo ==
  ASSUME IInv, IInv', NEW m \in Sent, m.wire = stream, Reading(m),
         NEW path, NEW x, At(m, path, x), UNCHANGED <<stream, fed, base, got>>,
         NEW other, NEW y, other \in [0..ridx' -> m.nodes], y = other[ridx'],
         Along(m, other)', Here(y, m)', pc' \in {"proc", "pre", "next"}
  PROVE  Reading(m)'
<1>1. Along(m, other)' /\ Here(other[ridx], m)'
  OBVIOUS
<1>2. \E p \in [0..ridx' -> m.nodes] : Along(m, p)' /\ Here(p[ridx], m)'
  BY <1>1
<1>3. /\ base' < Len(stream') /\ Len(got') < Len(m.items)
  BY DEF At
<1>4. Len(got') <= Len(m.items) /\ got' = [i \in 1..Len(got') |-> m.items[i]]
  BY DEF Reading
<1>5. Len(got') # Len(m.items)
  BY <1>3, ItemsOf
<1> QED
  BY <1>2, <1>3, <1>4, <1>5 DEF Reading, Active

(* Down to an element: the path becomes longer.                            *)
LEMMA MoveNextReads ==
  ASSUME IInv, IInv', NEW m \in Sent, m.wire = stream, Reading(m), MoveNextTask
  PROVE  Reading(m)'
<1>1. /\ pc = "next" /\ ridx' = ridx + 1
      /\ pc' = IF LevelExceeded(ridx + 1) THEN "error" ELSE "proc"
      /\ UNCHANGED <<stream, fed, base, len, tasks, got>>
  BY DEF MoveNextTask
<1>2. PICK path, x : At(m, path, x)
  BY <1>1, IsAt
<1> DEFINE e == Cur.elementIdx
<1>3. Inside(x, Cur, m) /\ Pos = x.cuts[e]
  BY <1>1, <1>2 DEF At, Here
<1>4. PICK y \in m.nodes : ChildOf(y, x, e)
  <2>1. InArray(stream, x, m.nodes) /\ e \in 0..(Len(x.item.argv) - 1)
    BY <1>3 DEF Inside
  <2> QED
    BY <2>1, ElementsOf
<1>5. y.level = ridx + 1 /\ y.level <= MaxDepth - 1 /\ y.at = Pos /\ ridx \in Nat
  BY <1>2, <1>3, <1>4, NodeIs DEF At, ChildOf
<1>6. pc' = "proc"
  BY <1>1, <1>5, RespAssumption DEF LevelExceeded
<1>7. PICK longer : longer = [i \in 0..(ridx + 1) |-> IF i = ridx + 1 THEN y ELSE path[i]]
  OBVIOUS
<1>8. /\ longer \in [0..(ridx + 1) -> m.nodes]
      /\ longer[ridx + 1] = y /\ \A i \in 0..ridx : longer[i] = path[i]
  BY <1>2, <1>5, <1>7 DEF At, Along
<1>9. path[ridx] = x /\ Cur = tasks[ridx]
  BY <1>2 DEF At, Cur
<1>10. Along(m, longer)'
  <2>1. \A i \in 0..ridx' : longer[i].level = i
    <3> SUFFICES ASSUME NEW i \in 0..(ridx + 1) PROVE longer[i].level = i
      BY <1>1
    <3>1. CASE i = ridx + 1
      BY <1>5, <1>8, <3>1
    <3>2. CASE i # ridx + 1
      <4>1. i \in 0..ridx
        BY <1>5, <3>2
      <4> QED
        BY <1>2, <1>8, <4>1 DEF At, Along
    <3> QED
      BY <3>1, <3>2
  <2>2. \A i \in 0..(ridx' - 1) :
          Inside(longer[i], tasks[i], m) /\ ChildOf(longer[i + 1], longer[i], tasks[i].elementIdx)
    <3> SUFFICES ASSUME NEW i \in 0..ridx
                 PROVE  /\ Inside(longer[i], tasks[i], m)
                        /\ ChildOf(longer[i + 1], longer[i], tasks[i].elementIdx)
      BY <1>1, <1>5
    <3>1. CASE i = ridx
      BY <1>3, <1>4, <1>5, <1>8, <1>9, <3>1
    <3>2. CASE i # ridx
      <4>1. i \in 0..(ridx - 1) /\ i + 1 \in 0..ridx
        BY <1>5, <3>2
      <4> QED
        BY <1>2, <1>8, <4>1 DEF At, Along
    <3> QED
      BY <3>1, <3>2
  <2>3. longer[0] = path[0]
    BY <1>5, <1>8
  <2>4. path[0].item = m.items[Len(got) + 1] /\ path[0].end = m.cuts[Len(got) + 1]
    BY <1>2 DEF At, Along
  <2> QED
    BY <1>1, <1>8, <2>1, <2>2, <2>3, <2>4 DEF Along
<1>11. Here(y, m)'
  <2>1. Cur'.item.type = "unknown"
    <3>1. ridx + 1 \in 0..(MaxDepth - 1) /\ ridx + 1 > ridx
      BY <1>5, RespAssumption
    <3>2. ridx + 1 \in DOMAIN tasks
      BY <3>1 DEF IInv, TasksOK
    <3>3. tasks[ridx + 1].item.type = "unknown"
      BY <1>1, <3>1, <3>2 DEF IInv, StackShape
    <3> QED
      BY <1>1, <3>3 DEF Cur
  <2>2. Pos' = y.at
    BY <1>1, <1>5 DEF Pos
  <2> QED
    BY <1>6, <2>1, <2>2 DEF Here
<1>12. longer[ridx'] = y /\ longer \in [0..ridx' -> m.nodes]
  BY <1>1, <1>8
<1> QED
  BY <1>1, <1>2, <1>6, <1>10, <1>11, <1>12, MovesTo

(* Up to the array: the path becomes shorter.                              *)
LEMMA StoredIs ==
  ASSUME NEW z, Len(z.item.argv) \in Nat, NEW e \in 0..(Len(z.item.argv) - 1)
  PROVE  Stored(Partial(z, e), z.item.argv[e + 1]) = Partial(z, e + 1)
<1> DEFINE n == Len(z.item.argv)
           so(k) == [j \in 1..n |-> IF j <= k THEN z.item.argv[j] ELSE Blank]
<1>1. [so(e) EXCEPT ![e + 1] = z.item.argv[e + 1]] = so(e + 1)
  <2> DEFINE f == [so(e) EXCEPT ![e + 1] = z.item.argv[e + 1]]
  <2>1. f = [j \in 1..n |-> f[j]] /\ so(e + 1) = [j \in 1..n |-> so(e + 1)[j]]
    OBVIOUS
  <2>2. ASSUME NEW j \in 1..n PROVE f[j] = so(e + 1)[j]
    <3>1. CASE j = e + 1
      BY <3>1
    <3>2. CASE j # e + 1
      <4>1. j <= e <=> j <= e + 1
        BY <3>2
      <4> QED
        BY <3>2, <4>1
    <3> QED
      BY <3>1, <3>2
  <2> HIDE DEF f, so, n
  <2>3. f = so(e + 1)
    BY <2>1, <2>2
  <2> QED
    BY <2>3 DEF f
<1>2. \A k : Partial(z, k) = [elementIdx |-> k, elementCnt |-> n, item |-> Array(so(k))]
  BY DEF Partial
<1> HIDE DEF n, so
<1> QED
  BY <1>1, <1>2 DEF Stored, Array

LEMMA StoreReads ==
  ASSUME IInv, IInv', NEW m \in Sent, m.wire = stream, Reading(m), StoreElement
  PROVE  Reading(m)'
<1> DEFINE pre == tasks[ridx - 1]
           e == pre.elementIdx
<1>1. /\ pc = "pre" /\ ridx > 0 /\ ridx' = ridx - 1
      /\ tasks' = [tasks EXCEPT ![ridx - 1] = Stored(pre, Cur.item), ![ridx] = Cleared(Cur)]
      /\ pc' = IF e + 1 = pre.elementCnt THEN "pre" ELSE "next"
      /\ UNCHANGED <<stream, fed, base, len, got>>
  BY DEF StoreElement
<1>2. PICK path, x : At(m, path, x)
  BY <1>1, IsAt
<1>3. ridx - 1 \in 0..(MaxDepth - 1) /\ ridx \in Nat /\ ridx - 1 \in 0..(ridx - 1)
      /\ (ridx - 1) + 1 = ridx
  BY <1>1, <1>2, RespAssumption DEF At
<1>4. PICK z : z = path[ridx - 1]
  OBVIOUS
<1>5. Inside(z, pre, m) /\ ChildOf(x, z, e)
  BY <1>2, <1>3, <1>4 DEF At, Along
<1>6. Pos = x.end /\ Cur.item = x.item
  BY <1>1, <1>2 DEF At, Here
<1> HIDE DEF pre, e
<1>7. /\ Len(z.item.argv) \in Nat /\ e \in 0..(Len(z.item.argv) - 1)
      /\ pre = Partial(z, e)
      /\ z.item = Array([i \in 1..Len(z.item.argv) |-> z.item.argv[i]])
      /\ InArray(stream, z, m.nodes)
  <2>1. InArray(stream, z, m.nodes)
    BY <1>5 DEF Inside
  <2>2. /\ Len(z.item.argv) \in Nat
        /\ z.item = Array([i \in 1..Len(z.item.argv) |-> z.item.argv[i]])
    BY <2>1, ElementsOf
  <2> QED
    BY <1>5, <2>1, <2>2 DEF Inside, e
<1>8. x.item = z.item.argv[e + 1] /\ x.end = z.cuts[e + 1]
  BY <1>5 DEF ChildOf
<1>9. Stored(pre, Cur.item) = Partial(z, e + 1)
  BY <1>6, <1>7, <1>8, StoredIs
<1>10. /\ tasks'[ridx - 1] = Partial(z, e + 1)
      /\ \A i \in 0..(ridx - 2) : tasks'[i] = tasks[i]
  <2>1. tasks = [i \in 0..(MaxDepth - 1) |-> tasks[i]]
    BY DEF IInv, TasksOK
  <2>2. ridx \in 1..(MaxDepth - 1)
    BY <1>1, <1>2 DEF At
  <2>3. tasks' = [tasks EXCEPT ![ridx - 1] = Partial(z, e + 1), ![ridx] = Cleared(Cur)]
    BY <1>1, <1>9
  <2>4. MaxDepth \in Nat
    BY RespAssumption
  <2>5. ASSUME NEW i \in 0..(ridx - 2) PROVE tasks'[i] = tasks[i]
    <3>1. i \in 0..(MaxDepth - 1) /\ i # ridx - 1 /\ i # ridx
      BY <2>2, <2>4
    <3> QED
      BY <2>1, <2>3, <3>1
  <2>6. tasks'[ridx - 1] = Partial(z, e + 1)
    <3>1. ridx - 1 \in 0..(MaxDepth - 1) /\ ridx - 1 # ridx
      BY <2>2, <2>4
    <3> QED
      BY <2>1, <2>3, <3>1
  <2> QED
    BY <2>5, <2>6
<1>11. Cur' = Partial(z, e + 1)
  BY <1>1, <1>10 DEF Cur
<1>12. pre.elementCnt = Len(z.item.argv)
  BY <1>7 DEF Partial
<1>13. Pos' = z.cuts[e + 1]
  BY <1>1, <1>6, <1>8 DEF Pos
<1>14. Here(z, m)'
  <2>1. CASE e + 1 = Len(z.item.argv)
    <3>1. pc' = "pre"
      BY <1>1, <1>12, <2>1
    <3>2. z.cuts[e + 1] = z.end
      BY <1>7, <2>1 DEF InArray
    <3>3. Partial(z, e + 1).item = z.item
      <4>1. [j \in 1..Len(z.item.argv) |->
               IF j <= e + 1 THEN z.item.argv[j] ELSE Blank]
              = [j \in 1..Len(z.item.argv) |-> z.item.argv[j]]
        BY <1>7, <2>1
      <4> QED
        BY <1>7, <4>1 DEF Partial
    <3>4. Cur'.item = z.item
      BY <1>11, <3>3
    <3> QED
      BY <1>13, <3>1, <3>2, <3>4 DEF Here
  <2>2. CASE e + 1 # Len(z.item.argv)
    <3>1. pc' = "next"
      BY <1>1, <1>12, <2>2
    <3>2. Partial(z, e + 1).elementIdx = e + 1
      BY DEF Partial
    <3>3. Inside(z, Partial(z, e + 1), m)
      BY <1>7, <2>2, <3>2 DEF Inside
    <3>4. Inside(z, Cur, m)'
      BY <1>11, <3>3
    <3>5. Cur'.elementIdx = e + 1
      BY <1>11, <3>2
    <3> QED
      BY <1>13, <3>1, <3>4, <3>5 DEF Here
  <2> QED
    BY <2>1, <2>2
<1>15. PICK shorter : shorter = [i \in 0..(ridx - 1) |-> path[i]]
  OBVIOUS
<1>16. shorter \in [0..(ridx - 1) -> m.nodes] /\ \A i \in 0..(ridx - 1) : shorter[i] = path[i]
  BY <1>2, <1>3, <1>15 DEF At, Along
<1>17. Along(m, shorter)'
  <2>1. \A i \in 0..(ridx - 1) : shorter[i].level = i
    BY <1>2, <1>3, <1>16 DEF At, Along
  <2>2. \A i \in 0..(ridx - 2) :
          /\ Inside(shorter[i], tasks'[i], m)
          /\ ChildOf(shorter[i + 1], shorter[i], tasks'[i].elementIdx)
    <3> SUFFICES ASSUME NEW i \in 0..(ridx - 2)
                 PROVE  /\ Inside(shorter[i], tasks'[i], m)
                        /\ ChildOf(shorter[i + 1], shorter[i], tasks'[i].elementIdx)
      OBVIOUS
    <3>1. i \in 0..(ridx - 1) /\ i + 1 \in 0..(ridx - 1)
      BY <1>3
    <3>2. Inside(path[i], tasks[i], m) /\ ChildOf(path[i + 1], path[i], tasks[i].elementIdx)
      BY <1>2, <3>1 DEF At, Along
    <3>3. shorter[i] = path[i] /\ shorter[i + 1] = path[i + 1]
      BY <1>16, <3>1
    <3> QED
      BY <1>10, <3>2, <3>3
  <2>3. path[0].item = m.items[Len(got) + 1] /\ path[0].end = m.cuts[Len(got) + 1]
    BY <1>2 DEF At, Along
  <2>4. shorter[0] = path[0]
    BY <1>1, <1>3, <1>16
  <2>5. ridx' - 1 = ridx - 2
    BY <1>1, <1>3
  <2> QED
    BY <1>1, <1>16, <2>1, <2>2, <2>3, <2>4, <2>5 DEF Along
<1>18. shorter[ridx'] = z /\ shorter \in [0..ridx' -> m.nodes]
  BY <1>1, <1>3, <1>16, <1>4
<1>19. pc' \in {"pre", "next"}
  BY <1>1
<1> QED
  BY <1>1, <1>2, <1>14, <1>17, <1>18, <1>19, MovesTo

LEMMA ReturnReads ==
  ASSUME IInv, IInv', NEW m \in Sent, m.wire = stream, Reading(m), ReturnItem
  PROVE  Reading(m)'
<1>1. /\ pc = "pre" /\ ridx = 0 /\ got' = Append(got, tasks[0].item)
      /\ base' = Pos /\ len' = 0 /\ pc' = "value" /\ UNCHANGED <<stream, fed>>
  BY DEF ReturnItem, Pos
<1>2. PICK path, x : At(m, path, x)
  BY <1>1, IsAt
<1> DEFINE k == Len(got)
<1>3. k \in Nat /\ k < Len(m.items) /\ Len(m.items) \in Nat /\ got = [i \in 1..k |-> m.items[i]]
  BY <1>2, ItemsOf DEF At, Reading
<1>4. Pos = x.end /\ Cur.item = x.item /\ x = path[0]
  BY <1>1, <1>2 DEF At, Here
<1>5. x.item = m.items[k + 1] /\ x.end = m.cuts[k + 1]
  BY <1>2, <1>4 DEF At, Along
<1>6. tasks[0].item = m.items[k + 1]
  BY <1>1, <1>4, <1>5 DEF Cur
<1>7. got' = [i \in 1..(k + 1) |-> m.items[i]]
  <2> HIDE DEF k
  <2>1. got = [i \in 1..k |-> m.items[i]] /\ Len(got) = k
    BY <1>3 DEF k
  <2>2. Append(got, m.items[k + 1]) = [i \in 1..(k + 1) |-> IF i = k + 1 THEN m.items[k + 1] ELSE got[i]]
    BY <1>3, <2>1
  <2>3. \A i \in 1..(k + 1) : (IF i = k + 1 THEN m.items[k + 1] ELSE got[i]) = m.items[i]
    BY <1>3, <2>1
  <2> QED
    BY <1>1, <1>6, <2>2, <2>3
<1>8. Len(got') = k + 1
  BY <1>3, <1>7
<1> HIDE DEF k
<1>9. base' = m.cuts[Len(got')] /\ Len(got') > 0 /\ Len(got') <= Len(m.items)
  BY <1>1, <1>3, <1>4, <1>5, <1>8
<1>10. got' = [i \in 1..Len(got') |-> m.items[i]]
  BY <1>7, <1>8
<1> QED
  BY <1>1, <1>9, <1>10 DEF Reading, Active

LEMMA ResetReads ==
  ASSUME IInv, IInv', NEW m \in Sent, m.wire = stream, Reading(m), Reset
  PROVE  Reading(m)'
<1>1. /\ pc = "value" /\ ridx' = 0 /\ tasks' = [i \in 0..(MaxDepth - 1) |-> BlankTask]
      /\ pc' = "idle" /\ UNCHANGED <<stream, fed, base, len, got>>
  BY DEF Reset, Rest
<1>2. /\ Len(got) > 0 /\ Len(got) <= Len(m.items) /\ base = m.cuts[Len(got)] /\ len = 0
      /\ got = [i \in 1..Len(got) |-> m.items[i]]
  BY <1>1 DEF Reading
<1>3. Len(got) \in Nat
  BY <1>2
<1>4. got # <<>>
  BY <1>2
<1>5. CASE Len(got) < Len(m.items)
  <2>1. PICK y \in m.nodes : /\ y.item = m.items[Len(got) + 1] /\ y.level = 0
                             /\ y.at = m.cuts[Len(got)] /\ y.end = m.cuts[Len(got) + 1]
    BY <1>3, <1>5, NextItem
  <2>2. base < Len(stream) /\ base \in Nat
    BY <1>2, <1>3, <1>5, NextItem
  <2>3. PICK path : path = [i \in 0..0 |-> y]
    OBVIOUS
  <2>4. path \in [0..ridx' -> m.nodes] /\ path[0] = y /\ path[ridx'] = y
    BY <1>1, <2>3
  <2>5. Along(m, path)'
    BY <1>1, <2>1, <2>4 DEF Along
  <2>6. Here(y, m)'
    <3>1. Cur' = BlankTask
      BY <1>1, RespAssumption DEF Cur
    <3>2. Cur'.item.type = "unknown"
      BY <3>1, BlankOK
    <3>3. Pos' = y.at
      BY <1>1, <1>2, <2>1, <2>2 DEF Pos
    <3> QED
      BY <1>1, <3>2, <3>3 DEF Here
  <2>7. \E p \in [0..ridx' -> m.nodes] : Along(m, p)' /\ Here(p[ridx], m)'
    BY <2>4, <2>5, <2>6
  <2>8. Len(got') # Len(m.items)
    BY <1>1, <1>3, <1>5
  <2> QED
    BY <1>1, <1>2, <1>4, <2>2, <2>7, <2>8 DEF Reading, Active
<1>6. CASE Len(got) = Len(m.items)
  <2>1. base = Len(stream)
    BY <1>2, <1>6, ItemsOf
  <2> QED
    BY <1>1, <1>2, <1>3, <1>4, <1>6, <2>1 DEF Reading, Active
<1> QED
  BY <1>2, <1>3, <1>5, <1>6, ItemsOf

LEMMA CallReads ==
  ASSUME IInv, IInv', NEW m \in Sent, m.wire = stream, Reading(m), Call
  PROVE  Reading(m)'
<1>1. /\ pc = "idle" /\ fed' \in (fed + 1)..Len(stream) /\ len' = 0 /\ pc' = "proc"
      /\ UNCHANGED <<stream, base, ridx, tasks, got>>
  BY DEF Call
<1>2. len = 0 /\ Len(got) <= Len(m.items) /\ got = [i \in 1..Len(got) |-> m.items[i]]
  BY <1>1 DEF Reading
<1>3. Len(got) < Len(m.items)
  <2>1. Len(got) # Len(m.items)
    <3> SUFFICES ASSUME Len(got) = Len(m.items) PROVE FALSE
      OBVIOUS
    <3>1. base = Len(stream)
      BY <1>1 DEF Reading, Active
    <3>2. base <= fed /\ fed \in Nat /\ base \in Nat
      BY <1>2 DEF IInv, TakesWhatIsThere
    <3> QED
      BY <1>1, <3>1, <3>2
  <2>2. Len(got) \in Nat /\ Len(m.items) \in Nat
    BY <1>2, ItemsOf
  <2> QED
    BY <1>2, <2>1, <2>2
<1>4. base < Len(stream)
  BY <1>1, <1>3 DEF Reading, Active
<1>5. PICK path \in [0..ridx -> m.nodes] : Along(m, path) /\ Here(path[ridx], m)
  BY <1>1, <1>3 DEF Reading, Active
<1>6. Along(m, path)'
  BY <1>1, <1>5 DEF Along
<1>7. Here(path[ridx], m)'
  <2>1. PICK x : x = path[ridx]
    OBVIOUS
  <2>2. Pos = x.at /\ Cur.item.type \in {"unknown", TypeOf(stream[Pos + 1])}
    BY <1>1, <1>5, <2>1 DEF Here
  <2>3. Pos' = Pos /\ Cur' = Cur
    BY <1>1, <1>2 DEF Pos, Cur
  <2>4. Here(x, m)'
    BY <1>1, <2>2, <2>3 DEF Here
  <2>5. x = path[ridx]'
    BY <1>1, <2>1
  <2> QED
    BY <2>4, <2>5
<1>8. \E p \in [0..ridx' -> m.nodes] : Along(m, p)' /\ Here(p[ridx], m)'
  BY <1>1, <1>6, <1>7
<1>9. Len(got') # Len(m.items)
  BY <1>1, <1>2, <1>3, ItemsOf
<1> QED
  BY <1>1, <1>2, <1>3, <1>4, <1>8, <1>9 DEF Reading, Active

LEMMA ReadingInit ==
  ASSUME Init, NEW m \in Sent, m.wire = stream
  PROVE  Reading(m)
<1>1. /\ fed = 0 /\ base = 0 /\ len = 0 /\ ridx = 0 /\ got = <<>> /\ pc = "idle"
      /\ tasks = [i \in 0..(MaxDepth - 1) |-> BlankTask]
  BY DEF Init
<1>2. Len(got) = 0 /\ got = [i \in 1..Len(got) |-> m.items[i]]
  BY <1>1
<1>3. Len(m.items) \in Nat
  BY ItemsOf
<1>4. CASE Len(m.items) = 0
  <2>1. Len(stream) = 0
    BY <1>4, ItemsOf
  <2> QED
    BY <1>1, <1>2, <1>4, <2>1 DEF Reading, Active
<1>5. CASE Len(m.items) > 0
  <2>1. PICK y \in m.nodes : /\ y.item = m.items[0 + 1] /\ y.level = 0
                             /\ y.at = m.cuts[0] /\ y.end = m.cuts[0 + 1]
    BY <1>5, NextItem
  <2>2. 0 < Len(stream) /\ m.cuts[0] = 0
    <3>1. m.cuts[0] = 0
      BY ItemsOf
    <3>2. m.cuts[0] < Len(stream)
      BY <1>5, NextItem
    <3> QED
      BY <3>1, <3>2
  <2>3. PICK path : path = [i \in 0..0 |-> y]
    OBVIOUS
  <2>4. path \in [0..ridx -> m.nodes] /\ path[0] = y /\ path[ridx] = y
    BY <1>1, <2>3
  <2>5. Along(m, path)
    BY <1>1, <1>2, <2>1, <2>4 DEF Along
  <2>6. Here(y, m)
    <3>1. Cur = BlankTask
      BY <1>1, RespAssumption DEF Cur
    <3>2. Cur.item.type = "unknown"
      BY <3>1, BlankOK
    <3>3. Pos = y.at
      BY <1>1, <2>1, <2>2 DEF Pos
    <3> QED
      BY <1>1, <3>2, <3>3 DEF Here
  <2>7. Len(got) # Len(m.items)
    BY <1>2, <1>5
  <2> QED
    BY <1>1, <1>2, <1>5, <2>2, <2>4, <2>5, <2>6, <2>7 DEF Reading, Active
<1> QED
  BY <1>3, <1>4, <1>5

LEMMA ReadingNext ==
  ASSUME IInv, IInv', NEW m \in Sent, m.wire = stream, Reading(m), [Next]_vars
  PROVE  Reading(m)'
<1>1. CASE UNCHANGED vars
  <2>1. UNCHANGED Pos /\ UNCHANGED Cur
    BY <1>1 DEF vars, Pos, Cur
  <2>2. \A path : Along(m, path)' <=> Along(m, path)
    BY <1>1 DEF vars, Along
  <2>3. \A x : Here(x, m)' <=> Here(x, m)
    BY <1>1, <2>1 DEF vars, Here
  <2> QED
    BY <1>1, <2>2, <2>3 DEF vars, Reading, Active
<1> QED
  BY <1>1, EmptyReads, UnknownImpossible, NoLineReads, LineReads, BulkReads, ArrayReads,
     MoveNextReads, StoreReads, ReturnReads, ResetReads, CallReads DEF Next, Step

(* Where the parser is tells what it has returned.                         *)
LEMMA ReadingMeans ==
  ASSUME IInv, NEW m \in Sent, m.wire = stream, Reading(m)
  PROVE  /\ pc \notin {"error", "died", "overread"}
         /\ Len(got) <= Len(m.items) /\ got = SubSeq(m.items, 1, Len(got))
         /\ base = Len(stream) <=> got = m.items
         /\ Len(m.items) = 1 /\ pc = "idle" /\ fed = Len(stream) => got = m.items
<1>1. /\ pc \notin {"error", "died", "overread"}
      /\ Len(got) <= Len(m.items) /\ got = [i \in 1..Len(got) |-> m.items[i]]
  BY DEF Reading
<1>2. Len(got) \in Nat /\ Len(m.items) \in Nat /\ m.items = [i \in 1..Len(m.items) |-> m.items[i]]
  BY <1>1, ItemsOf
<1>3. got = SubSeq(m.items, 1, Len(got))
  BY <1>1, <1>2
<1>4. got = m.items <=> Len(got) = Len(m.items)
  BY <1>1, <1>2
<1>5. base = Len(stream) <=> Len(got) = Len(m.items)
  <2>1. CASE Len(got) = Len(m.items)
    <3>1. CASE pc = "value"
      BY <2>1, <3>1, ItemsOf DEF Reading
    <3>2. CASE pc # "value"
      BY <1>1, <2>1, <3>2 DEF Reading, Active, IInv, Points
    <3> QED
      BY <2>1, <3>1, <3>2
  <2>2. CASE Len(got) < Len(m.items)
    <3>1. base < Len(stream)
      <4>1. CASE pc = "value"
        BY <1>2, <2>2, <4>1, NextItem DEF Reading
      <4>2. CASE pc # "value"
        BY <1>1, <2>2, <4>2 DEF Reading, Active, IInv, Points
      <4> QED
        BY <4>1, <4>2
    <3>2. base \in Nat /\ Len(stream) \in Nat
      BY BufferIs DEF IInv
    <3> QED
      BY <1>2, <2>2, <3>1, <3>2
  <2> QED
    BY <1>1, <1>2, <2>1, <2>2
<1>6. Len(m.items) = 1 /\ pc = "idle" /\ fed = Len(stream) => got = m.items
  <2> SUFFICES ASSUME Len(m.items) = 1, pc = "idle", fed = Len(stream), got # m.items
               PROVE  FALSE
    OBVIOUS
  <2>1. Len(got) = 0
    BY <1>1, <1>2, <1>4
  <2>2. got = <<>>
    BY <1>1, <2>1
  <2>3. fed < Len(stream)
    BY <2>2 DEF Reading
  <2> QED
    BY <2>3, BufferIs
<1> QED
  BY <1>1, <1>3, <1>4, <1>5, <1>6

(* For every set of messages that keep the limits of the parser, every way *)
(* to cut them into calls, and every size of the parser's tables: it       *)
(* returns the items that were sent, and takes exactly their bytes.        *)
THEOREM ReadsWhatWasSent == Spec => []RoundTrip
<1> DEFINE Reads == \A m \in Sent : m.wire = stream => Reading(m)
<1>1. Init => IInv /\ Reads
  BY IInvInit, ReadingInit
<1>2. IInv /\ Reads /\ [Next]_vars => (IInv /\ Reads)'
  <2> SUFFICES ASSUME IInv, Reads, [Next]_vars PROVE (IInv /\ Reads)'
    OBVIOUS
  <2>1. IInv'
    BY IInvNext
  <2>2. UNCHANGED stream
    BY DEF Next, vars, Call, Reset, Rest, Step, ProcEmpty, ProcUnknown, ProcNoLine, ProcLine,
           ProcBulk, ProcArray, MoveNextTask, ReturnItem, StoreElement, Wait, Advance, Fail,
           Overread
  <2>3. ASSUME NEW m \in Sent, m.wire = stream PROVE Reading(m)'
    BY <2>1, <2>3, ReadingNext
  <2> QED
    BY <2>1, <2>2, <2>3
<1>3. IInv /\ Reads => RoundTrip
  BY ReadingMeans DEF RoundTrip
<1> QED
  BY <1>1, <1>2, <1>3, PTL DEF Spec
=============================================================================
