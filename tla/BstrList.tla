------------------------------ MODULE BstrList ------------------------------
(***************************************************************************)
(* The lists of third/bstrlib/bstrlib.c: what the functions that split a   *)
(* string show to their callback, the lists made of it, and joining them.  *)
(* A list is a record of its entries and of the field mlen; an entry is a  *)
(* text, or Null where bmidstr found no memory.                            *)
(***************************************************************************)
EXTENDS BstrQuery

CONSTANT Null

Piece(p, i) == [ofs |-> p, len |-> i - p]
Part(t, piece) == SubSeq(t, piece.ofs + 1, piece.ofs + piece.len)
-----------------------------------------------------------------------------
(***************************************************************************)
(* Splitting.  Callbacks that do not stop and leave the string alone; no   *)
(* pieces are shown where the functions refuse their arguments.            *)
(***************************************************************************)
(* The loop of bsplitcb and bsplitscb: up to the next separator, and on    *)
(* behind it as long as that is not behind the end.                        *)
Divided(t, seps, pos) ==
  LET divided[p \in 0 .. Len(t)] ==
        LET i == Min({s \in seps : s >= p} \union {Len(t)}) IN
        <<Piece(p, i)>> \o (IF i + 1 <= Len(t) THEN divided[i + 1] ELSE <<>>)
  IN  divided[pos]

bsplitcb(t, c, pos) ==
  IF pos \notin 0 .. Len(t) THEN <<>>
  ELSE Divided(t, {i \in Positions(t) : At(t, i) = c}, pos)

bsplitscb(t, s, pos) ==
  IF pos \notin 0 .. Len(t) THEN <<>>
  ELSE IF s = <<>> THEN <<Piece(0, Len(t))>>
  ELSE IF Len(s) = 1 THEN bsplitcb(t, At(s, 0), pos)
  ELSE LET cf == buildCharField(s) IN
       Divided(t, {i \in Positions(t) : testInCharField(cf, At(t, i))}, pos)

(* Mutant of Behind: the piece after a separator begins one later, where   *)
(* the loop goes on.                                                       *)
BehindNext(i, s) == i + Len(s) + 1

(* Where the piece after a separator at i begins.                          *)
Behind(i, s) == i + Len(s)

(* The loop of bsplitstrcb, whose i++ follows i += splitStr->slen.         *)
DividedByString(t, s, pos) ==
  LET divided[i \in 0 .. Len(t) + 1] ==
        [p \in 0 .. Len(t) + 1 |->
           IF i > Len(t) - Len(s) THEN <<Piece(p, Len(t))>>
           ELSE IF HeldAt(t, s, i)
           THEN <<Piece(p, i)>> \o divided[i + Len(s) + 1][Behind(i, s)]
           ELSE divided[i + 1][p]]
  IN  divided[pos][pos]

bsplitstrcb(t, s, pos) ==
  IF pos \notin 0 .. Len(t) THEN <<>>
  ELSE IF s = <<>> THEN [k \in 1 .. Len(t) - pos |-> Piece(pos + k - 1, pos + k)]
  ELSE IF Len(s) = 1 THEN bsplitcb(t, At(s, 0), pos)
  ELSE DividedByString(t, s, pos)
-----------------------------------------------------------------------------
(***************************************************************************)
(* Lists.                                                                  *)
(***************************************************************************)
bstrListCreate == [entry |-> <<>>, mlen |-> 1]

(* What a list may be after bstrListAlloc and bstrListAllocMin; it is as   *)
(* it was if they fail, and the tighter size is tried second.              *)
bstrListAlloc(sl, msz) ==
  IF msz <= 0 \/ sl.mlen >= msz THEN {sl}
  ELSE {[sl EXCEPT !.mlen = n] : n \in {sl.mlen, snapUpSize(msz), msz}}
bstrListAllocMin(sl, msz) ==
  IF msz <= 0 THEN {sl}
  ELSE {[sl EXCEPT !.mlen = n] : n \in {sl.mlen, Max({msz, Len(sl.entry)})}}

(* bscb: the table is doubled if it is full, for which there may be no     *)
(* memory, and then the whole split returns NULL.                          *)
Grown(bl) ==
  IF Len(bl.entry) < bl.mlen THEN {bl} ELSE {[bl EXCEPT !.mlen = 2 * @]}
bscb(bls, part) ==
  {[entry |-> Append(bl.entry, e), mlen |-> bl.mlen] :
     bl \in UNION {Grown(b) : b \in bls}, e \in {part, Null}}

Collected(bls, t, pieces) ==
  LET collected[k \in 0 .. Len(pieces)] ==
        IF k = 0 THEN bls ELSE bscb(collected[k - 1], Part(t, pieces[k]))
  IN  collected[Len(pieces)]

(* bsplit, bsplits and bsplitstr, by the pieces they collect.              *)
Split(t, pieces) == Collected({[entry |-> <<>>, mlen |-> 4]}, t, pieces)

(* bjoinblk, of entries that are there.                                    *)
Strung(entries, s) ==
  LET strung[k \in DOMAIN entries] ==
        IF k = 1 THEN entries[1] ELSE strung[k - 1] \o s \o entries[k]
  IN  strung[Len(entries)]
bjoinblk(entries, s) ==
  IF entries = <<>> THEN <<>>
  ELSE LET joined == Strung(entries, s) IN
       IF Len(joined) + 1 > IntMax THEN Null ELSE joined
bjoin(entries, s) == bjoinblk(entries, s)
-----------------------------------------------------------------------------
(***************************************************************************)
(* What is expected of them.                                               *)
(***************************************************************************)
Parts(t, pieces) == [k \in DOMAIN pieces |-> Part(t, pieces[k])]
Characters(s) == {s[i] : i \in DOMAIN s}

(* The pieces follow each other, a separator of the given length between   *)
(* two of them, and reach the end.                                         *)
Abutting(t, pieces, gap) ==
  /\ pieces[1].ofs = 0
  /\ \A k \in 1 .. Len(pieces) - 1 :
       pieces[k + 1].ofs = pieces[k].ofs + pieces[k].len + gap
  /\ LET last == pieces[Len(pieces)] IN last.ofs + last.len = Len(t)

SplitByAny(t, s) ==
  LET pieces == bsplitscb(t, s, 0) IN
  /\ Abutting(t, pieces, 1)
  /\ s # <<>> => \A k \in DOMAIN pieces : Characters(Part(t, pieces[k])) \cap Characters(s) = {}

(* Joining what was split by a string gives the string back, and no piece  *)
(* holds the separator, but for one of several characters that follows     *)
(* another at once: it is not seen, and the piece begins with it.          *)
Unseen(k, s) == IF k > 1 /\ Len(s) > 1 THEN {0} ELSE {}
SplitByString(t, s) ==
  LET pieces == bsplitstrcb(t, s, 0) IN
  /\ Len(t) < IntMax => bjoin(Parts(t, pieces), s) = t
  /\ \A k \in DOMAIN pieces : Occurs(Part(t, pieces[k]), s) \subseteq Unseen(k, s)

(* A list has its pieces in their order, some of them missing, and room    *)
(* for what it has.                                                        *)
ListsHold(t, s) ==
  LET pieces == bsplitstrcb(t, s, 0) IN
  \A bl \in Split(t, pieces) :
    /\ Len(bl.entry) = Len(pieces) /\ Len(bl.entry) <= bl.mlen
    /\ \A k \in DOMAIN pieces : bl.entry[k] \in {Null, Part(t, pieces[k])}
    /\ \A msz \in 0 .. 4 : \A sl \in bstrListAlloc(bl, msz) \union bstrListAllocMin(bl, msz) :
         sl.entry = bl.entry /\ Len(bl.entry) <= sl.mlen
=============================================================================
