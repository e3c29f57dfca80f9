------------------------------ MODULE RespWire ------------------------------
(***************************************************************************)
(* What the writers of the protocol send, and what the parser is to make   *)
(* of it.  A message is some items, the bytes that stand for them, and the *)
(* layout of these bytes: for each item, and for each element of an array, *)
(* a node that says which bytes it has.                                    *)
(*                                                                         *)
(* A layout can be told to be right node by node, without recursion: a     *)
(* node that is an array has nodes for its elements, one after the other.  *)
(***************************************************************************)
EXTENDS RespFSM

CONSTANT Sent   (* the messages: [items, wire, cuts, nodes]                 *)

(* A line: its type, a text, and its end.  Bytes from + 1 .. to of w.      *)
Lined(w, from, to, byte, text) ==
  /\ from + 3 <= to /\ to <= Len(w)
  /\ w[from + 1] = byte
  /\ SubSeq(w, from + 2, to - 2) = text /\ \A i \in DOMAIN text : text[i] # "CR"
  /\ w[to - 1] = "CR" /\ w[to] = "LF"

(* A header: a line with a length that the parser accepts.                 *)
Headed(w, from, to, byte, n) ==
  \E text \in {SubSeq(w, from + 2, to - 2)} :
    /\ Lined(w, from, to, byte, text)
    /\ IsNumeral(text) /\ string2ll(text) = n /\ n <= MaxLen

(* A node [item, at, end, level, cuts]: the item has the bytes at + 1 ..   *)
(* end, level arrays are around it, and cuts[0] is where its header ends.  *)
(* Strings and errors on a line, as marshalString writes errors.           *)
OnALine(w, x) ==
  \/ x.item = String(x.item.bytes) /\ Lined(w, x.at, x.end, "+", x.item.bytes)
  \/ x.item = Error(x.item.bytes) /\ Lined(w, x.at, x.end, "-", x.item.bytes)

(* marshalBulkString.  Its result is one bstring, so its length is an int. *)
InBulk(w, x) ==
  /\ x.end - x.at <= IntMax
  /\ x.item = String(x.item.bytes)
  /\ x.cuts[0] \in Nat /\ Headed(w, x.at, x.cuts[0], "$", Len(x.item.bytes))
  /\ x.end = x.cuts[0] + Len(x.item.bytes) + 2
  /\ SubSeq(w, x.cuts[0] + 1, x.end - 2) = x.item.bytes

(* Items one after the other, the i'th in the bytes cuts[i-1]+1 .. cuts[i].*)
Laid(items, cuts, level, nodes) ==
  /\ items \in Seq({x.item : x \in nodes})
  /\ cuts \in [0..Len(items) -> Nat]
  /\ \A i \in 1..Len(items) : \E x \in nodes :
       x.item = items[i] /\ x.at = cuts[i - 1] /\ x.end = cuts[i] /\ x.level = level

(* marshalArray.                                                           *)
InArray(w, x, nodes) ==
  /\ x.item = Array(x.item.argv)
  /\ Laid(x.item.argv, x.cuts, x.level + 1, nodes)
  /\ Headed(w, x.at, x.cuts[0], "*", Len(x.item.argv))
  /\ x.end = x.cuts[Len(x.item.argv)] /\ x.cuts[0] <= x.end

(* A message that keeps the limits of the parser: arrays in arrays, and    *)
(* the lengths in headers.                                                 *)
Written(m) ==
  /\ \A x \in m.nodes :
       /\ x.at \in Nat /\ x.end \in Nat /\ x.at < x.end /\ x.end <= Len(m.wire)
       /\ x.level \in 0..(MaxDepth - 1)
       /\ OnALine(m.wire, x) \/ InBulk(m.wire, x) \/ InArray(m.wire, x, m.nodes)
  /\ Laid(m.items, m.cuts, 0, m.nodes)
  /\ m.cuts[0] = 0 /\ m.cuts[Len(m.items)] = Len(m.wire)

ASSUME SentAssumption == \A m \in Sent : Written(m)

(* However the bytes are cut into calls, the parser returns the items that *)
(* were sent, in their order and nothing else, takes exactly their bytes,  *)
(* and returns an item by the call that brings its last byte.              *)
RoundTrip ==
  \A m \in Sent : m.wire = stream =>
    /\ pc \notin {"error", "died", "overread"}
    /\ Len(got) <= Len(m.items) /\ got = SubSeq(m.items, 1, Len(got))
    /\ base = Len(stream) <=> got = m.items
    /\ Len(m.items) = 1 /\ pc = "idle" /\ fed = Len(stream) => got = m.items
=============================================================================
