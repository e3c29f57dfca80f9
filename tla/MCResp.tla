------------------------------- MODULE MCResp -------------------------------
(***************************************************************************)
(* RespFSM for TLC: against the bytes that respMarshal and other writers   *)
(* of the protocol produce, and against arbitrary bytes.                   *)
(***************************************************************************)
EXTENDS RespWire, Marshal

(* The same items as other clients may write them: strings on one line.    *)
RECURSIVE inline(_)
inline(item) ==
  CASE item.type = "string"  -> <<"+">> \o item.bytes \o CRLF
    [] item.type = "error"   -> <<"-">> \o item.bytes \o CRLF
    [] item.type = "array"   ->
         <<"*">> \o Numeral(Len(item.argv)) \o CRLF
           \o FlattenSeq([i \in DOMAIN item.argv |-> inline(item.argv[i])])

(* Bytes the parser could take for something else.                         *)
Plain == {String(<<>>), String(<<"a">>), String(<<"$", "1">>), Error(<<"a">>)}
Awkward == {String(CRLF), String(<<"CR">>), String(<<"a">> \o CRLF)}
Pairs(S) == {Array(<<>>)} \union {Array(<<x, y>>) : x, y \in S}
Leaf == String(<<"a">>)
Nested == {Array(<<Array(<<Leaf, Leaf>>), Leaf>>),
           Array(<<Array(<<>>), Array(<<Leaf>>), Error(<<"a">>)>>),
           Array(<<Array(<<Array(<<>>)>>)>>)}
TooDeep == Array(<<Array(<<Array(<<Leaf>>)>>)>>)

MarshalledItems == Plain \union Awkward \union Pairs(Plain \union Awkward) \union Nested
InlineItems == Plain \union Pairs(Plain) \union Nested

(* The bytes of an item as one of the two writers writes it, and where the *)
(* items of a list end, from a start on.                                   *)
Bytes(item, writer) == IF writer = "inline" THEN inline(item) ELSE respMarshal(item)
BytesOf(items, writer) == FlattenSeq([i \in DOMAIN items |-> Bytes(items[i], writer)])
Ends(items, start, writer) ==
  [i \in 0..Len(items) |-> start + Len(BytesOf(SubSeq(items, 1, i), writer))]

(* The layout of an item and of all that it contains.                      *)
RECURSIVE Nodes(_, _, _, _)
Nodes(item, at, level, writer) ==
  LET n == Len(item.bytes) + Len(item.argv)
      cuts == Ends(item.argv, at + 3 + Len(Numeral(n)), writer)
  IN  {[item |-> item, at |-> at, end |-> at + Len(Bytes(item, writer)),
        level |-> level, cuts |-> cuts]}
        \union UNION {Nodes(item.argv[i], cuts[i - 1], level + 1, writer)
                        : i \in DOMAIN item.argv}

Message(items, writer) ==
  LET cuts == Ends(items, 0, writer) IN
  [items |-> items, wire |-> BytesOf(items, writer), cuts |-> cuts,
   nodes |-> UNION {Nodes(items[i], cuts[i - 1], 0, writer) : i \in DOMAIN items}]

Messages ==
  {Message(<<x>>, "marshal") : x \in MarshalledItems}
    \union {Message(<<x>>, "inline") : x \in InlineItems}
    \union {Message(<<Leaf, Leaf>>, "marshal"),
            Message(<<Array(<<Leaf>>), Array(<<>>), Leaf>>, "marshal")}

(* TLC keeps the value of Messages, but not that of what stands for Sent.  *)
MCSent == Messages

SentStreams == {m.wire : m \in Messages}

(* Every stream of five bytes that matter to the parser, and arrays nested *)
(* up to and beyond its tasks; negative lengths, two that wrap to 1, and   *)
(* one whose sum wraps.                                                    *)
AnyStreams ==
  [1..5 -> {"+", "$", "*", "1", "-", "CR"}]
    \union {respMarshal(x) : x \in Nested \union {TooDeep}}
    \union {<<"$", "-", "1">> \o CRLF \o <<"+">>,
            <<"*", "-", "1", "2", "7">> \o CRLF \o <<"$", "-", "1", "2", "7">> \o CRLF
              \o <<"a">> \o CRLF,
            <<"*", "1">> \o CRLF \o <<"$", "-", "6", "5">> \o CRLF \o <<"a">>}

(* Headers with every numeral at the limits of an eight bit long long.     *)
Numerals == UNION {[1..n -> {"-", "0", "1", "2", "5", "7", "8"}] : n \in 1..4}
HeaderStreams == {<<"$">> \o s \o CRLF : s \in Numerals}

AllStreams == AnyStreams \union SentStreams \union HeaderStreams
=============================================================================
