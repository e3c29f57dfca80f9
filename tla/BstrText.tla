------------------------------ MODULE BstrText ------------------------------
(***************************************************************************)
(* Characters, texts and sizes as third/bstrlib/bstrlib.c counts them: the *)
(* positions of C start at 0.                                              *)
(***************************************************************************)
EXTENDS Integers, Sequences

CONSTANTS
  IntMax,      (* INT_MAX                                                   *)
  MinAlloc,    (* the 8 of snapUpSize                                       *)
  FillChar     (* the characters that callers fill gaps with                *)

ASSUME BstrTextAssumption ==
  /\ IntMax \in Nat \ {0}
  /\ MinAlloc \in 1 .. IntMax

Byte == 0 .. 255
NUL == 0

(* A byte whose content is not known: fresh or freed memory.               *)
Any == 256

OK == 0
ERR == -1

(* At most n characters from the left, and those after the first n.        *)
Left(t, n) == SubSeq(t, 1, IF n < Len(t) THEN n ELSE Len(t))
From(t, n) == SubSeq(t, n + 1, Len(t))
Repeat(c, n) == [i \in 1 .. n |-> c]
At(t, i) == t[i + 1]
Positions(t) == 0 .. Len(t) - 1

(* The text of a string: so many of the characters of its memory.          *)
Val(m) == Left(m.data, m.slen)

(* toupper, tolower and isspace of the C locale.                           *)
upcase(c) == IF c \in 97 .. 122 THEN c - 32 ELSE c
downcase(c) == IF c \in 65 .. 90 THEN c + 32 ELSE c
wspace(c) == c \in 9 .. 13 \union {32}

Lowered(t) == [i \in DOMAIN t |-> downcase(t[i])]

(* The sum of two ints.                                                    *)
Wrap(n) == IF n > IntMax THEN n - 2 * (IntMax + 1) ELSE n

(* The least power of two above i, unless that is no int.  2 ^ i is above, *)
(* so that there is one.                                                   *)
snapUpSize(i) ==
  IF i < MinAlloc THEN MinAlloc
  ELSE LET above == CHOOSE e \in 1 .. i :
                      (\A d \in 1 .. e - 1 : 2 ^ d <= i) /\ (2 ^ e > i \/ e = i)
           j == 2 ^ above IN
       IF Wrap(j) >= i THEN j ELSE i
=============================================================================
