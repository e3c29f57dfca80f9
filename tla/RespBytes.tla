----------------------------- MODULE RespBytes -----------------------------
(***************************************************************************)
(* What the protocol of src/resp is about: bytes, the items they encode    *)
(* (resp.h), and the decimal numerals of util.c.  A byte is a string; only *)
(* the bytes the code tells apart are needed.                              *)
(***************************************************************************)
EXTENDS Integers, Sequences

Digits == {"0", "1", "2", "3", "4", "5", "6", "7", "8", "9"}
DigitValue ==
  [d \in Digits |->
     CHOOSE n \in 0..9 :
       <<"0", "1", "2", "3", "4", "5", "6", "7", "8", "9">>[n + 1] = d]

CRLF == <<"CR", "LF">>

(***************************************************************************)
(* respItem.  The union is modelled by two fields: string and err are held *)
(* in bytes, array in argv.  A field that the type does not select is what *)
(* a reader of that union member would find.                               *)
(***************************************************************************)
Types == {"unknown", "string", "bulk", "error", "integer", "array"}
Blank == [type |-> "unknown", bytes |-> <<>>, argv |-> <<>>]
String(b) == [type |-> "string", bytes |-> b, argv |-> <<>>]
Error(b) == [type |-> "error", bytes |-> b, argv |-> <<>>]
Integer(b) == [type |-> "integer", bytes |-> b, argv |-> <<>>]
Array(items) == [type |-> "array", bytes |-> <<>>, argv |-> items]

(***************************************************************************)
(* string2ll accepts 0, and digits that do not begin with 0, after an      *)
(* optional sign.  The user of string2ll says which values fit.            *)
(***************************************************************************)
IsNatural(s) ==
  /\ s # <<>> /\ \A i \in DOMAIN s : s[i] \in Digits
  /\ s[1] # "0"

IsNumeral(s) ==
  \/ s = <<"0">> \/ IsNatural(s)
  \/ s # <<>> /\ s[1] = "-" /\ IsNatural(Tail(s))

NaturalValue(s) ==
  LET upTo[i \in 0..Len(s)] ==
        IF i = 0 THEN 0 ELSE 10 * upTo[i - 1] + DigitValue[s[i]]
  IN  upTo[Len(s)]

string2ll(s) == IF s[1] = "-" THEN -NaturalValue(Tail(s)) ELSE NaturalValue(s)
=============================================================================
