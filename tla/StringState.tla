---------------------------- MODULE StringState -----------------------------
(***************************************************************************)
(* The state of a program that makes one call of third/bstrlib/bstrlib.c   *)
(* after another on a string, and what its texts are searched for,         *)
(* compared with and split by.                                             *)
(***************************************************************************)
EXTENDS BstrList

CONSTANTS
  Gone,        (* the string of a program that has none                     *)
  NoCall,
  Texts,       (* what is appended, inserted, searched for ...              *)
  Numbers      (* positions, lengths and sizes                              *)

ASSUME StringStateAssumption == Texts \subseteq Seq(Byte) /\ Numbers \subseteq Int

VARIABLES
  b,           (* the string: data and slen                                 *)
  call,        (* the call the program is in                                *)
  ret,         (* what the last call returned                               *)
  events       (* what happened to memory in it                             *)

(* The texts that the program makes are what is searched, compared and     *)
(* split, each once: where its memory just fits.  Foreign has characters   *)
(* that are negative as a char, and NUL, in place of two others.           *)
Foreign(t) ==
  [i \in DOMAIN t |-> IF t[i] = FillChar THEN 200 ELSE IF t[i] = 32 THEN NUL ELSE t[i]]
Probed ==
  IF b # Gone /\ call = NoCall /\ b.slen = Len(b.data) - 1 /\ b.data \in Seq(Byte)
  THEN {Val(b), Foreign(Val(b))} ELSE {}
Probes(t) ==
  Texts \union {SubSeq(t, i, j) : i, j \in DOMAIN t} \union {t \o <<97>>, Lowered(t), <<46, 46>>}

(* The unrolled loop of binstr, the other searches and the character       *)
(* fields find the nearest occurrence on their side of the position, and   *)
(* the comparisons are orders on the texts up to a NUL and agree with the  *)
(* tests for equality.                                                     *)
SearchesAgree ==
  \A t \in Probed : \A p \in Probes(t) :
    /\ \A pos \in -1 .. Len(t) + 1 : StringsFound(t, pos, p) /\ CharactersFound(t, pos, p)
    /\ \A n \in Numbers : Compared(t, p, n)

(* The pieces that a text is split into rebuild it and hold no separator,  *)
(* but for those that a split by a string does not see (Unseen), and a     *)
(* list holds every piece for which there was memory, with room in its     *)
(* table.  Of an empty separator, and of pieces that hold the whole of one,*)
(* bstrlib.txt says what the code does not do, at 1402.                    *)
SplitsJoinBack ==
  \A t \in Probed : \A s \in Probes(t) :
    SplitByAny(t, s) /\ (s # <<>> => SplitByString(t, s) /\ ListsHold(t, s))
=============================================================================
