-------------------------------- MODULE Bstr --------------------------------
(***************************************************************************)
(* The functions of third/bstrlib/bstrlib.c that write to a string, with   *)
(* the memory they write to.  A function is a set of outcomes, one for     *)
(* each way its allocations may end.                                       *)
(*                                                                         *)
(* A string m is a record of data, as long as mlen, and slen.  During a    *)
(* call it also notes, in ev, what happened to its memory:                 *)
(*   "moved"    data lies elsewhere now, and what pointed into it is stale *)
(*   "short"    an allocation failed                                       *)
(*   "tight"    only the smallest allocation that is tried succeeded       *)
(*   "overrun"  a byte was written outside data                            *)
(***************************************************************************)
EXTENDS BstrQuery

CONSTANTS
  ReadStep,    (* the 16 of breada                                          *)
  BufferSize,  (* BS_BUFF_SZ                                                *)
  StartSize,   (* START_VSNBUFF                                             *)
  FindIndexes  (* INITIAL_STATIC_FIND_INDEX_COUNT                           *)

Returns(value, m) == [ret |-> value, m |-> m]
Ok(m) == {Returns(OK, m)}
Err(m) == {Returns(ERR, m)}

(* What follows where a call inside a function succeeds.                   *)
Then(outcomes, next(_)) ==
  UNION {IF o.ret = OK THEN next(o.m) ELSE {o} : o \in outcomes}

mlen(m) == Len(m.data)
Noting(m, event) == [m EXCEPT !.ev = @ \union {event}]

(* Copying a text to a position, and a terminator to the end.              *)
Write(m, at, text) ==
  [m EXCEPT
     !.data = [i \in DOMAIN @ |-> IF i - at \in DOMAIN text THEN text[i - at] ELSE @[i]],
     !.ev = IF text # <<>> /\ at + Len(text) > Len(m.data) THEN @ \union {"overrun"} ELSE @]
Sized(m, n) == [m EXCEPT !.slen = n]
Close(m, n) == Sized(Write(m, n, <<NUL>>), n)
-----------------------------------------------------------------------------
(***************************************************************************)
(* Operands: memory of their own, a part of the string's data that a       *)
(* tagbstring refers to, or the string itself.                             *)
(***************************************************************************)
Operand(kind, text, at, len) == [kind |-> kind, text |-> text, at |-> at, len |-> len]
Text(t) == Operand("text", t, 0, Len(t))
Slice(at, len) == Operand("slice", <<>>, at, len)
Self == Operand("self", <<>>, 0, 0)

Size(m, o) == IF o.kind = "self" THEN m.slen ELSE o.len
Read(m, o) ==
  IF o.kind = "text" THEN o.text
  ELSE IF o.kind = "self" THEN Val(m)
  ELSE IF "moved" \in m.ev THEN Repeat(Any, o.len)
  ELSE SubSeq(m.data, o.at + 1, o.at + o.len)

(* Mutant of Within: a string that starts at the beginning is not seen to  *)
(* be part of the data.                                                    *)
WithinLater(o, limit) == o.kind # "text" /\ 0 < o.at /\ o.at < limit

(* The tests for aliasing: where the data of the operand starts.           *)
Within(o, limit) == o.kind # "text" /\ o.at < limit

(* bstrcpy of an operand that is an alias, for which memory may be short.  *)
Copied(m, o, aliased, next(_)) ==
  IF aliased THEN Err(Noting(m, "short")) \union next(Text(Read(m, o))) ELSE next(o)
-----------------------------------------------------------------------------
(***************************************************************************)
(* Memory.                                                                 *)
(***************************************************************************)
Moved(m, size) ==
  Write([m EXCEPT !.data = Val(m) \o Repeat(Any, size - m.slen), !.ev = @ \union {"moved"}],
        m.slen, <<NUL>>)

balloc(m, n) ==
  IF n <= 0 THEN Err(m)
  ELSE IF n < mlen(m) \/ snapUpSize(n) <= mlen(m) THEN Ok(m)
  ELSE Ok(Moved(m, snapUpSize(n))) \union Ok(Noting(Moved(m, n), "tight"))
         \union Err(Noting(m, "short"))

ballocmin(m, n) ==
  LET size == Max({n, m.slen + 1}) IN
  IF m.slen >= IntMax \/ n <= 0 THEN Err(m)
  ELSE IF size = mlen(m) THEN Ok(m)
  ELSE Ok(Moved(m, size)) \union Err(Noting(m, "short"))

(* New strings: a text with its terminator in memory of a size.  One more  *)
(* than the longest text is no int: bfromcstr tests for that, the others   *)
(* do not.                                                                 *)
Fresh(text, size) ==
  Close(Write([data |-> Repeat(Any, size), slen |-> 0, ev |-> {}], 0, text), Len(text))
Snapped(t) == snapUpSize(Wrap(Len(t) + (IF t = <<>> THEN 2 ELSE 1)))

bfromcstr(s) == IF Snapped(s) <= Len(s) THEN {} ELSE {Fresh(s, Snapped(s))}
blk2bstr(t) == {Fresh(t, Snapped(t))}
bmidstr(t, left, len) ==
  LET from == Max({left, 0})
      n == Min({len + Min({left, 0}), Len(t) - from}) IN
  IF n <= 0 THEN bfromcstr(<<>>) ELSE blk2bstr(SubSeq(t, from + 1, from + n))
bstrcpy(t) ==
  LET n == Wrap(Len(t) + 1) IN {Fresh(t, size) : size \in {snapUpSize(n), n} \cap Nat}

(* The sizes that bfromcstrrangealloc tries, from the largest; there is no *)
(* memory for those that are negative.                                     *)
RECURSIVE Halved(_, _)
Halved(i, least) ==
  LET k == i \div 2 + least \div 2 IN
  {i} \union (IF i = k \/ i < least THEN {} ELSE Halved(k, least))
bfromcstrrangealloc(minl, maxl, s) ==
  LET least == IF minl < Len(s) + 1 THEN Wrap(Len(s) + 1) ELSE minl IN
  IF maxl < minl \/ minl < 0 THEN {}
  ELSE LET wanted == Max({maxl, least}) IN
       {Fresh(s, wanted)} \union
         {Noting(Fresh(s, i), "tight") : i \in (Halved(wanted, least) \ {wanted}) \cap Nat}
-----------------------------------------------------------------------------
(***************************************************************************)
(* Appending.                                                              *)
(***************************************************************************)
(* d + len + 1 may wrap, and then it is taken for room.                    *)
bconcat(m, o) ==
  LET end == m.slen + Size(m, o)
      Add(c, src) == Ok(Close(Write(c, c.slen, Read(c, src)), end))
      Resized(src) == LET F(c) == Add(c, src) IN Then(balloc(m, Wrap(end + 1)), F) IN
  IF end > IntMax THEN Err(m)
  ELSE IF mlen(m) > Wrap(end + 1) THEN Add(m, o)
  ELSE Copied(m, o, Within(o, mlen(m)), Resized)

bconchar(m, char) ==
  LET F(c) == Ok(Close(Write(c, c.slen, <<char>>), c.slen + 1)) IN
  Then(balloc(m, Wrap(m.slen + 2)), F)

bcatblk(m, o) ==
  LET end == m.slen + Size(m, o)
      F(c) == Ok(Close(Write(c, c.slen, Read(c, o)), end)) IN
  IF end > IntMax THEN Err(m)
  ELSE IF mlen(m) > end THEN F(m) ELSE Then(balloc(m, Wrap(end + 1)), F)

(* The room there is is filled first, up to the last byte.                 *)
bcatcstr(m, s) ==
  LET room == mlen(m) - m.slen IN
  IF Len(s) < room THEN Ok(Close(Write(m, m.slen, s), m.slen + Len(s)))
  ELSE bcatblk(Sized(Write(m, m.slen, Left(s, room)), mlen(m)), Text(From(s, room)))
-----------------------------------------------------------------------------
(***************************************************************************)
(* Assigning and cutting.                                                  *)
(***************************************************************************)
bassign(m, o) ==
  LET n == Size(m, o)
      F(c) == Ok(Close(Write(c, 0, Read(c, o)), n)) IN
  IF n = 0 THEN Ok(Close(m, 0)) ELSE Then(balloc(m, n), F)

bassignmidstr(m, o, left, len) ==
  LET from == Max({left, 0})
      n == Min({len + Min({left, 0}), Size(m, o) - from})
      F(c) == Ok(Close(Write(c, 0, SubSeq(Read(c, o), from + 1, from + n)), n)) IN
  IF n <= 0 THEN Ok(Close(m, 0)) ELSE Then(balloc(m, n), F)

bassigncstr(m, s) ==
  LET full == Sized(Write(m, 0, Left(s, mlen(m))), mlen(m))
      F(c) == Ok(Close(Write(c, c.slen, From(s, c.slen)), Len(s))) IN
  IF Len(s) < mlen(m) THEN Ok(Close(Write(m, 0, s), Len(s)))
  ELSE IF Len(s) + 1 > IntMax THEN Err(full)
  ELSE Then(balloc(full, Len(s) + 1), F)

bassignblk(m, o) ==
  LET n == Size(m, o)
      F(c) == Ok(Close(Write(c, 0, Read(c, o)), n)) IN
  IF n >= IntMax THEN Err(m)
  ELSE IF n + 1 > mlen(m) THEN Then(balloc(m, n + 1), F) ELSE F(m)

btrunc(m, n) ==
  IF n < 0 THEN Err(m) ELSE IF m.slen > n THEN Ok(Close(m, n)) ELSE Ok(m)

Mapped(m, to(_)) ==
  Ok([m EXCEPT !.data = [i \in DOMAIN @ |-> IF i <= m.slen THEN to(@[i]) ELSE @[i]]])
btoupper(m) == Mapped(m, upcase)
btolower(m) == Mapped(m, downcase)

(* pos + len may wrap; what is copied then lies outside the data.          *)
bdelete(m, pos, len) ==
  LET from == Max({pos, 0})
      n == len + Min({pos, 0})
      end == Wrap(from + n) IN
  IF n < 0 THEN Err(m)
  ELSE IF n = 0 \/ from >= m.slen THEN Ok(m)
  ELSE IF end >= m.slen THEN Ok(Close(m, from))
  ELSE IF end < 0 THEN Ok(Noting(m, "overrun"))
  ELSE Ok(Close(Write(m, from, SubSeq(m.data, end + 1, m.slen)), m.slen - n))

(* The characters that are no white space.                                 *)
Solid(m) == {i \in 0 .. m.slen - 1 : ~ wspace(At(m.data, i))}

bltrimws(m) ==
  IF Solid(m) = {} THEN Ok(Close(m, 0)) ELSE bdelete(m, 0, Min(Solid(m)))
brtrimws(m) ==
  IF Solid(m) = {} THEN Ok(Close(m, 0)) ELSE Ok(Close(m, Max(Solid(m)) + 1))
btrimws(m) ==
  IF Solid(m) = {} THEN Ok(Close(m, 0))
  ELSE bdelete(Close(m, Max(Solid(m)) + 1), 0, Min(Solid(m)))
-----------------------------------------------------------------------------
(***************************************************************************)
(* Overwriting and inserting at a position, which may lie behind the end.  *)
(***************************************************************************)
Filled(m, pos, fill) ==
  IF pos > m.slen THEN Write(m, m.slen, Repeat(fill, pos - m.slen)) ELSE m

bsetstr(m, pos, o, fill) ==
  LET end == Wrap(pos + Size(m, o))
      Resized(src) ==
        LET F(c) == Ok(Close(Write(Filled(c, pos, fill), pos, Read(c, src)),
                             Max({m.slen, pos, end}))) IN
        Then(balloc(m, Wrap(end + 1)), F) IN
  IF pos < 0 THEN Err(m) ELSE Copied(m, o, Within(o, mlen(m)), Resized)

binsertblk(m, pos, o) ==
  LET n == Size(m, o)
      longer == m.slen + n
      end == pos + n
      Resized(src) ==
        LET Behind(c) == Ok(Close(Write(Filled(c, pos, FillChar), pos, Read(c, src)), end))
            Amid(c) ==
              Ok(Close(Write(Write(c, end, SubSeq(c.data, pos + 1, m.slen)), pos, Read(c, src)),
                       longer)) IN
        IF end > longer THEN Then(balloc(m, Wrap(end + 1)), Behind)
        ELSE Then(balloc(m, Wrap(longer + 1)), Amid) IN
  IF pos < 0 \/ longer > IntMax \/ end > IntMax THEN Err(m)
  ELSE Copied(m, o, Within(o, mlen(m)), Resized)
binsert(m, pos, o) == binsertblk(m, pos, o)

binsertch(m, pos, len) ==
  LET longer == m.slen + len
      end == pos + len
      Behind(c) == Ok(Close(Write(c, m.slen, Repeat(FillChar, end - m.slen)), end))
      Amid(c) ==
        Ok(Close(Write(Write(c, end, SubSeq(c.data, pos + 1, m.slen)), pos, Repeat(FillChar, len)),
                 longer)) IN
  IF pos < 0 \/ len < 0 \/ longer > IntMax \/ end > IntMax THEN Err(m)
  ELSE IF end > longer THEN Then(balloc(m, Wrap(end + 1)), Behind)
  ELSE Then(balloc(m, Wrap(longer + 1)), Amid)

(* A section that reaches the end is overwritten and the rest cut off.     *)
breplace(m, pos, len, o) ==
  LET Straddling(c) ==
        LET end == pos + Size(c, o) IN IF end < c.slen THEN Ok(Close(c, end)) ELSE Ok(c)
      Replace(src) ==
        LET n == Size(m, src)
            F(c) == Ok(Close(Write(Write(c, pos + n, SubSeq(c.data, pos + len + 1, m.slen)),
                                   pos, Read(c, src)), m.slen + n - len)) IN
        IF n > len THEN Then(balloc(m, Wrap(m.slen + n - len)), F) ELSE F(m) IN
  IF pos < 0 \/ len < 0 \/ pos > IntMax - len THEN Err(m)
  ELSE IF pos + len >= m.slen THEN Then(bsetstr(m, pos, o, FillChar), Straddling)
  ELSE Copied(m, o, Within(o, m.slen), Replace)

bpattern(m, len) ==
  LET d == m.slen
      F(c) ==
        IF len > 0 /\ d = 1 THEN bsetstr(c, len, Text(<<>>), At(c.data, 0))
        ELSE Ok(Close(Write(c, 0, [i \in 1 .. len |-> At(c.data, (i - 1) % d)]), len)) IN
  IF d = 0 \/ len < 0 THEN Err(m) ELSE Then(balloc(m, Wrap(len + 1)), F)
-----------------------------------------------------------------------------
(***************************************************************************)
(* findreplaceengine.                                                      *)
(***************************************************************************)
RECURSIVE Matches(_, _, _, _)
Matches(t, pos, p, caseless) ==
  LET i == IF caseless THEN binstrcaseless(t, pos, p) ELSE binstr(t, pos, p) IN
  IF i < 0 THEN <<>> ELSE <<i>> \o Matches(t, i + Len(p), p, caseless)

(* t from a position on, the matches of n characters replaced.             *)
RECURSIVE Pasted(_, _, _, _, _)
Pasted(t, matches, n, r, from) ==
  IF matches = <<>> THEN From(t, from)
  ELSE SubSeq(t, from + 1, Head(matches)) \o r \o Pasted(t, Tail(matches), n, r, Head(matches) + n)

(* A replacement of the same length or a shorter one is pasted in place;   *)
(* for a longer one all matches are found first, in a table that may have  *)
(* to grow.                                                                *)
findreplaceengine(m, find, repl, pos, caseless) ==
  LET n == Size(m, find)  k == Size(m, repl)
      Alias(o) == o.kind # "text" /\ pos - Size(m, o) < o.at /\ o.at < m.slen
      ByFind(f) ==
        LET matches == Matches(Val(m), pos, Read(m, f), caseless)
            end == m.slen + Len(matches) * (k - n)
            New(c, r) == Write(c, 0, Pasted(Val(m), matches, n, Read(c, r), 0))
            Lengthened(r) == LET F(c) == Ok(Close(New(c, r), end)) IN
                         Then(balloc(m, Wrap(end + 1)), F)
            ByRepl(r) ==
              IF k = n THEN Ok(New(m, r))
              ELSE IF k < n THEN IF matches = <<>> THEN Ok(m) ELSE Ok(Close(New(m, r), end))
              ELSE IF end - m.slen > IntMax THEN Err(m)
              ELSE Lengthened(r) \union
                     (IF Len(matches) >= FindIndexes THEN Err(Noting(m, "short")) ELSE {}) IN
        Copied(m, repl, Alias(repl), ByRepl) IN
  IF pos < 0 \/ n = 0 THEN Err(m)
  ELSE IF pos > m.slen - n THEN Ok(m)
  ELSE Copied(m, find, Alias(find), ByFind)

bfindreplace(m, find, repl, pos) == findreplaceengine(m, find, repl, pos, FALSE)
bfindreplacecaseless(m, find, repl, pos) == findreplaceengine(m, find, repl, pos, TRUE)
-----------------------------------------------------------------------------
(***************************************************************************)
(* Reading from a source, which is given by what is left of it.            *)
(***************************************************************************)
RECURSIVE ReadOn(_, _, _)
ReadOn(m, n, rest) ==
  LET F(c) ==
        LET some == Left(rest, n - c.slen)
            d == Sized(Write(c, c.slen, some), c.slen + Len(some)) IN
        IF d.slen < n THEN Ok(Close(d, d.slen))
        ELSE ReadOn(d, n + Min({n, BufferSize}), From(rest, Len(some))) IN
  Then(balloc(m, Wrap(n + 1)), F)

breada(m, t) == ReadOn(m, m.slen + ReadStep, t)

(* The loop of bassigngets and bgetsa; e is the last position with room    *)
(* for a terminator behind it.                                             *)
RECURSIVE GetOn(_, _, _, _, _)
GetOn(m, d, e, rest, term) ==
  LET Store(c, last) ==
        LET w == Write(c, d, <<Head(rest)>>) IN
        IF Head(rest) = term THEN Ok(Close(w, d + 1))
        ELSE GetOn(w, d + 1, last, Tail(rest), term)
      Resized(c) == Store(c, mlen(c) - 2) IN
  IF rest = <<>> THEN {Returns(IF d = 0 THEN 1 ELSE OK, Close(m, d))}
  ELSE IF d > e THEN Then(balloc(Sized(m, d), Wrap(d + 2)), Resized)
  ELSE Store(m, e)

bassigngets(m, t, term) == GetOn(m, 0, mlen(m) - 2, t, term)
bgetsa(m, t, term) == GetOn(m, m.slen, mlen(m) - 2, t, term)

bread(t) == {o.m : o \in {x \in UNION {breada(n, t) : n \in bfromcstr(<<>>)} : x.ret = OK}}
bgets(t, term) ==
  {o.m : o \in {x \in UNION {bgetsa(n, t, term) : n \in bfromcstr(<<>>)} :
                  x.ret >= OK /\ x.m.slen > 0}}
-----------------------------------------------------------------------------
(***************************************************************************)
(* Formatting; t is the text that vsnprintf would print.                   *)
(***************************************************************************)
(* The loop of the bformat functions, from a buffer for n characters on,   *)
(* until one is not filled to its end.                                     *)
RECURSIVE Printed(_, _)
Printed(n, t) ==
  LET got == Left(t, n) IN
  IF Len(got) < n THEN got ELSE Printed(IF Len(t) > n THEN Len(t) ELSE 2 * n, t)

(* There may be no memory for a buffer of the size wanted at first, or for *)
(* none.                                                                   *)
Prints(fmt, t) == {Printed(Max({2 * fmt, StartSize}), t), Printed(1, t)}
bformata(m, fmt, t) ==
  Err(Noting(m, "short")) \union UNION {bconcat(m, Text(x)) : x \in Prints(fmt, t)}
bassignformat(m, fmt, t) ==
  Err(Noting(m, "short")) \union UNION {bassign(m, Text(x)) : x \in Prints(fmt, t)}
bformat(fmt, t) == {Fresh(x, Len(x) + 2) : x \in Prints(fmt, t)}

(* The bytes behind the end are printed to directly.                       *)
bvcformata(m, count, t) ==
  LET n == Wrap(m.slen + count)
      retry == IF Len(t) > count + 1 THEN Len(t)
               ELSE IF count > IntMax \div 2 THEN IntMax ELSE 2 * count
      F(c) ==
        LET w == Write(Write(c, c.slen, Append(Left(t, count + 1), NUL)),
                       c.slen + count + 2, <<NUL>>) IN
        IF Len(t) <= count THEN Ok(Sized(w, c.slen + Len(t)))
        ELSE {Returns(Min({- retry, ERR - 1}), Write(w, c.slen, <<NUL>>))} IN
  IF count <= 0 \/ count > Wrap(n + 2) THEN Err(m) ELSE Then(balloc(m, Wrap(n + 2)), F)
=============================================================================
