----------------------------- MODULE String2ll -----------------------------
(***************************************************************************)
(* string2ll of src/util/util.c as it computes: digit by digit in an       *)
(* unsigned long long, with a test for overflow before each operation,     *)
(* and a last conversion to long long.  RespBytes says what it is to mean. *)
(***************************************************************************)
EXTENDS RespBytes

CONSTANT LLMax   (* LLONG_MAX                                               *)

ULLMax == 2 * LLMax + 1

Refused == [ok |-> FALSE, value |-> 0]
Accepted(n) == [ok |-> TRUE, value |-> n]

(* Unsigned arithmetic, and the conversion to long long.                   *)
Unsigned(n) == n % (ULLMax + 1)
Signed(v) == IF v > LLMax THEN v - (ULLMax + 1) ELSE v

(* Mutant of Overflows: the sum is not tested.                             *)
OverflowsProduct(v, d) == v > ULLMax \div 10

(* The tests before v *= 10 and before v += d.                             *)
Overflows(v, d) == v > ULLMax \div 10 \/ Unsigned(10 * v) > ULLMax - d

(* v after the first i digits: -1 if the loop has given up.                *)
Loop(s) ==
  LET v[i \in 1..Len(s)] ==
        IF i = 1 THEN IF s[1] \in Digits \ {"0"} THEN DigitValue[s[1]] ELSE -1
        ELSE IF v[i - 1] = -1 \/ s[i] \notin Digits \/ Overflows(v[i - 1], DigitValue[s[i]])
             THEN -1
             ELSE Unsigned(10 * v[i - 1] + DigitValue[s[i]])
  IN  IF s = <<>> THEN -1 ELSE v[Len(s)]

Converted(s) ==
  LET negative == s # <<>> /\ s[1] = "-"
      v == Loop(IF negative THEN Tail(s) ELSE s)
      limit == IF negative THEN LLMax + 1 ELSE LLMax
  IN  IF s = <<"0">> THEN Accepted(0)
      ELSE IF v = -1 \/ v > limit THEN Refused
      ELSE Accepted(Signed(Unsigned(IF negative THEN -v ELSE v)))
=============================================================================
