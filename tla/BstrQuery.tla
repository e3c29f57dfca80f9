----------------------------- MODULE BstrQuery ------------------------------
(***************************************************************************)
(* The functions of third/bstrlib/bstrlib.c that search and compare, as    *)
(* their loops run, and what they are to return.  t is the string, p the   *)
(* one it is searched for or compared with.                                *)
(***************************************************************************)
EXTENDS BstrText, FiniteSetsExt

Least(s) == IF s = {} THEN ERR ELSE Min(s)
Greatest(s) == IF s = {} THEN ERR ELSE Max(s)
-----------------------------------------------------------------------------
(***************************************************************************)
(* Searching for a string.                                                 *)
(***************************************************************************)
(* Mutant of NoRoom: the last place where p fits is not looked at.         *)
NoRoomAtEnd(t, p, pos) == Len(t) - Len(p) + 1 <= pos + 1

NoRoom(t, p, pos) == Len(t) - Len(p) + 1 <= pos

(* The guards of binstr and binstrcaseless.                                *)
Forward(t, pos, p, search(_)) ==
  IF pos = Len(t) THEN IF p = <<>> THEN pos ELSE ERR
  ELSE IF pos \notin Positions(t) THEN ERR
  ELSE IF p = <<>> THEN pos
  ELSE IF NoRoom(t, p, pos) THEN ERR ELSE search(pos)

(* Those of binstrr and binstrrcaseless, which snap back to the last place *)
(* with room for p.                                                        *)
Backward(t, pos, p, search(_)) ==
  IF pos \notin 0 .. Len(t) THEN ERR
  ELSE IF p = <<>> THEN pos
  ELSE IF Len(p) > Len(t) THEN ERR ELSE search(Min({pos, Len(t) - Len(p)}))

(* The unrolled loop of binstr.  In a round it compares two characters of  *)
(* t, from i on, with character j of p, and goes on with the first that    *)
(* fits or behind both.  What was begun at start is a match if no place    *)
(* was passed over since.  scan is the rest of the loop.                   *)
Rounds(t, p) ==
  {r \in [i : 0 .. Len(t), j : Positions(p), start : -1 .. Len(t)] :
     r.j <= r.i /\ r.start + r.j <= r.i}
Round(i, j, start) == [i |-> i, j |-> j, start |-> start]

ScanRound(t, p, scan, r) ==
  LET last == Len(t) - 1
      Fits(x) == At(t, x) = At(p, r.j)
      at == IF Fits(r.i) THEN r.i ELSE r.i + 1
      from == IF r.j = 0 THEN at ELSE r.start
      Judged(end, begin, n) == IF end = begin + n THEN begin ELSE scan[Round(end - n, 0, begin)] IN
  IF r.i >= last
  THEN IF r.i = last /\ Len(p) = r.j + 1 /\ Fits(r.i) THEN Judged(r.i, r.start, r.j) ELSE ERR
  ELSE IF ~ Fits(r.i) /\ ~ Fits(r.i + 1) THEN scan[Round(r.i + 2, r.j, r.start)]
  ELSE IF r.j + 1 < Len(p) THEN scan[Round(at + 1, r.j + 1, from)]
  ELSE Judged(at + 1, from, r.j + 1)

Scan(t, p, pos) ==
  LET scan[r \in Rounds(t, p)] == ScanRound(t, p, scan, r) IN scan[Round(pos, 0, -1)]

HeldAt(t, p, i) == \A j \in Positions(p) : At(p, j) = At(t, i + j)
Places(t, p) == 0 .. Len(t) - Len(p)

Ahead(t, p, pos) ==
  LET ahead[i \in Places(t, p)] ==
        IF HeldAt(t, p, i) THEN i ELSE IF i + 1 > Len(t) - Len(p) THEN ERR ELSE ahead[i + 1]
  IN  ahead[pos]

Back(t, p, pos) ==
  LET back[i \in Places(t, p)] == IF HeldAt(t, p, i) THEN i ELSE IF i = 0 THEN ERR ELSE back[i - 1]
  IN  back[pos]

binstr(t, pos, p) ==
  LET Search(i) == IF Len(p) = 1 THEN Ahead(t, p, i) ELSE Scan(t, p, i) IN
  Forward(t, pos, p, Search)
binstrr(t, pos, p) == LET Search(i) == Back(t, p, i) IN Backward(t, pos, p, Search)

binstrcaseless(t, pos, p) ==
  LET Search(i) == Ahead(Lowered(t), Lowered(p), i) IN Forward(t, pos, p, Search)
binstrrcaseless(t, pos, p) ==
  LET Search(i) == Back(Lowered(t), Lowered(p), i) IN Backward(t, pos, p, Search)

(* What they are to return: the nearest occurrence, the empty string       *)
(* occurring everywhere.                                                   *)
Occurs(t, p) == {i \in Places(t, p) : SubSeq(t, i + 1, i + Len(p)) = p}
NextOf(s, pos, t) == IF pos \in 0 .. Len(t) THEN Least({i \in s : i >= pos}) ELSE ERR
LastOf(s, pos, t) == IF pos \in 0 .. Len(t) THEN Greatest({i \in s : i <= pos}) ELSE ERR

StringsFound(t, pos, p) ==
  LET lt == Lowered(t)  lp == Lowered(p) IN
  /\ binstr(t, pos, p) = NextOf(Occurs(t, p), pos, t)
  /\ binstrr(t, pos, p) = LastOf(Occurs(t, p), pos, t)
  /\ binstrcaseless(t, pos, p) = NextOf(Occurs(lt, lp), pos, t)
  /\ binstrrcaseless(t, pos, p) = LastOf(Occurs(lt, lp), pos, t)
-----------------------------------------------------------------------------
(***************************************************************************)
(* Searching for characters.                                               *)
(***************************************************************************)
bstrchrp(t, c, pos) ==
  IF pos \notin Positions(t) THEN ERR ELSE Least({i \in pos .. Len(t) - 1 : At(t, i) = c})
bstrrchrp(t, c, pos) ==
  IF pos \notin Positions(t) THEN ERR ELSE Greatest({i \in 0 .. pos : At(t, i) = c})

(* A set of characters as 32 bytes of 8 bits.                              *)
buildCharField(p) ==
  [byte \in 0 .. 31 |-> {At(p, i) % 8 : i \in {k \in Positions(p) : At(p, k) \div 8 = byte}}]
invertCharField(cf) == [byte \in 0 .. 31 |-> (0 .. 7) \ cf[byte]]
testInCharField(cf, c) == c % 8 \in cf[c \div 8]

binchrCF(t, pos, cf) == Least({i \in pos .. Len(t) - 1 : testInCharField(cf, At(t, i))})
binchrrCF(t, pos, cf) == Greatest({i \in 0 .. pos : testInCharField(cf, At(t, i))})

binchr(t, pos, p) ==
  IF pos \notin Positions(t) \/ p = <<>> THEN ERR
  ELSE IF Len(p) = 1 THEN bstrchrp(t, At(p, 0), pos)
  ELSE binchrCF(t, pos, buildCharField(p))
bninchr(t, pos, p) ==
  IF pos \notin Positions(t) \/ p = <<>> THEN ERR
  ELSE binchrCF(t, pos, invertCharField(buildCharField(p)))

(* Backwards, the length of t stands for its last position.                *)
LastIn(t, pos) == IF pos = Len(t) THEN pos - 1 ELSE pos
binchrr(t, pos, p) ==
  IF pos \notin 0 .. Len(t) \/ p = <<>> THEN ERR
  ELSE IF Len(p) = 1 THEN bstrrchrp(t, At(p, 0), LastIn(t, pos))
  ELSE binchrrCF(t, LastIn(t, pos), buildCharField(p))
bninchrr(t, pos, p) ==
  IF pos \notin 0 .. Len(t) \/ p = <<>> THEN ERR
  ELSE binchrrCF(t, LastIn(t, pos), invertCharField(buildCharField(p)))

CharactersFound(t, pos, p) ==
  LET members == {i \in Positions(t) : \E j \in Positions(p) : At(t, i) = At(p, j)}
      others == Positions(t) \ members IN
  /\ binchr(t, pos, p) = NextOf(members, pos, t)
  /\ binchrr(t, pos, p) = LastOf(members, pos, t)
  /\ p # <<>> => bninchr(t, pos, p) = NextOf(others, pos, t)
  /\ p # <<>> => bninchrr(t, pos, p) = LastOf(others, pos, t)
-----------------------------------------------------------------------------
(***************************************************************************)
(* Comparing.                                                              *)
(***************************************************************************)
Signed(c) == IF c > 127 THEN c - 256 ELSE c
Common(t, p) == Min({Len(t), Len(p)})

(* bstrcmp: up to the first difference, or the first NUL.                  *)
bstrcmp(t, p) ==
  LET n == Common(t, p)
      stop == Least({i \in 0 .. n - 1 : At(t, i) # At(p, i) \/ At(t, i) = NUL}) IN
  IF stop # ERR THEN Signed(At(t, stop)) - Signed(At(p, stop))
  ELSE IF Len(t) > n THEN 1 ELSE IF Len(p) > n THEN -1 ELSE OK

bstrncmp(t, p, n) ==
  LET m == Min({n, Common(t, p)})
      stop == Least({i \in 0 .. m - 1 : At(t, i) # At(p, i) \/ At(t, i) = NUL}) IN
  IF stop # ERR THEN Signed(At(t, stop)) - Signed(At(p, stop))
  ELSE IF n = m \/ Len(t) = Len(p) THEN OK ELSE IF Len(t) > m THEN 1 ELSE -1

(* The first character that the longer string has beyond n; NUL counts as  *)
(* UCHAR_MAX + 1.                                                          *)
Extra(t, n) == LET v == Signed(downcase(At(t, n))) IN IF v # 0 THEN v ELSE 256
Longer(t, p, n) ==
  IF Len(t) > n THEN Extra(t, n) ELSE IF Len(p) > n THEN - Extra(p, n) ELSE OK

bstricmp(t, p) ==
  LET n == Common(t, p)
      stop == Least({i \in 0 .. n - 1 : downcase(At(t, i)) # downcase(At(p, i))}) IN
  IF stop = ERR THEN Longer(t, p, n)
  ELSE Signed(downcase(At(t, stop))) - Signed(downcase(At(p, stop)))

(* Here the difference is that of the characters as they are.              *)
bstrnicmp(t, p, n) ==
  LET m == Min({n, Common(t, p)})
      stop == Least({i \in 0 .. m - 1 : downcase(At(t, i)) # downcase(At(p, i))}) IN
  IF n < 0 THEN -32768
  ELSE IF stop # ERR THEN At(t, stop) - At(p, stop)
  ELSE IF n = m \/ Len(t) = Len(p) THEN OK ELSE Longer(t, p, m)

biseqblk(t, p) == Len(t) = Len(p) /\ \A i \in Positions(p) : At(t, i) = At(p, i)
biseq(t, p) == biseqblk(t, p)
bisstemeqblk(t, p) == Len(t) >= Len(p) /\ \A i \in Positions(p) : At(t, i) = At(p, i)
biseqcaselessblk(t, p) ==
  /\ Len(t) = Len(p)
  /\ \A i \in Positions(p) :
       At(t, i) = At(p, i) \/ downcase(At(t, i)) = downcase(At(p, i))
biseqcaseless(t, p) == biseqcaselessblk(t, p)
bisstemeqcaselessblk(t, p) ==
  /\ Len(t) >= Len(p)
  /\ \A i \in Positions(p) :
       At(t, i) = At(p, i) \/ downcase(At(t, i)) = downcase(At(p, i))

(* A char * holds the characters of p up to a NUL of its own.              *)
cstr(p) == LET stop == Least({i \in Positions(p) : At(p, i) = NUL}) IN
           IF stop = ERR THEN p ELSE Left(p, stop)
CharAt(s, i) == IF i < Len(s) THEN At(s, i) ELSE NUL
biseqcstr(t, s) ==
  /\ \A i \in Positions(t) : CharAt(s, i) # NUL /\ At(t, i) = CharAt(s, i)
  /\ CharAt(s, Len(t)) = NUL
biseqcstrcaseless(t, s) ==
  /\ \A i \in Positions(t) :
       /\ CharAt(s, i) # NUL
       /\ At(t, i) = CharAt(s, i) \/ downcase(At(t, i)) = downcase(CharAt(s, i))
  /\ CharAt(s, Len(t)) = NUL

(* bstr2cstr: a NUL in the string becomes z.                               *)
bstr2cstr(t, z) == [i \in DOMAIN t |-> IF t[i] = NUL THEN z ELSE t[i]]

(* A NUL, once compared, hides what follows.                               *)
UpToNul(t) == LET stop == Least({i \in Positions(t) : At(t, i) = NUL}) IN
              IF stop = ERR THEN t ELSE Left(t, stop + 1)
Below(t, p) ==
  \E n \in 0 .. Common(t, p) :
    /\ Left(t, n) = Left(p, n)
    /\ n < Len(p)
    /\ n < Len(t) => Signed(At(t, n)) < Signed(At(p, n))
Ordered(v, t, p) == (v < 0 <=> Below(t, p)) /\ (v > 0 <=> Below(p, t))

Compared(t, p, n) ==
  LET lt == Lowered(t)  lp == Lowered(p) IN
  /\ Ordered(bstrcmp(t, p), UpToNul(t), UpToNul(p))
  /\ n >= 0 => Ordered(bstrncmp(t, p, n), UpToNul(Left(t, n)), UpToNul(Left(p, n)))
  /\ bstricmp(t, p) = - bstricmp(p, t)
  /\ bstricmp(t, p) = 0 <=> lt = lp
  /\ n >= 0 => (bstrnicmp(t, p, n) = 0 <=> Left(lt, n) = Left(lp, n))
  /\ biseq(t, p) <=> t = p
  /\ biseqcaseless(t, p) <=> lt = lp
  /\ bisstemeqblk(t, p) <=> Left(t, Len(p)) = p
  /\ bisstemeqcaselessblk(t, p) <=> Left(lt, Len(p)) = lp
  /\ biseqcstr(t, cstr(p)) <=> t = cstr(p)
  /\ biseqcstrcaseless(t, cstr(p)) <=> lt = Lowered(cstr(p))
  /\ cstr(bstr2cstr(t, 120)) = bstr2cstr(t, 120)
=============================================================================
