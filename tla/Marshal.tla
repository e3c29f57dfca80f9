------------------------------ MODULE Marshal ------------------------------
(***************************************************************************)
(* src/resp/marshal.c: the bytes respMarshal appends to its buffer, for    *)
(* items it can marshal (RESP_INTEGER is not one).  bformata's "%d" of a   *)
(* length is its decimal numeral.                                          *)
(***************************************************************************)
EXTENDS RespBytes, SequencesExt

Numeral(n) ==
  CHOOSE s \in UNION {[1..k -> Digits] : k \in 1..2} : IsNumeral(s) /\ string2ll(s) = n

(* marshalString, for errors.                                              *)
marshalString(item) == <<"-">> \o item.bytes \o CRLF

(* marshalBulkString.                                                      *)
marshalBulkString(item) ==
  <<"$">> \o Numeral(Len(item.bytes)) \o CRLF \o item.bytes \o CRLF

(* marshalItem and marshalArray.                                           *)
RECURSIVE marshalItem(_)
marshalItem(item) ==
  CASE item.type = "error" -> marshalString(item)
    [] item.type \in {"string", "bulk"} -> marshalBulkString(item)
    [] item.type = "array" ->
         <<"*">> \o Numeral(Len(item.argv)) \o CRLF
           \o FlattenSeq([i \in DOMAIN item.argv |-> marshalItem(item.argv[i])])

respMarshal(item) == marshalItem(item)
=============================================================================
