----------------------------- MODULE BstrStream -----------------------------
(***************************************************************************)
(* The streams of third/bstrlib/bstrlib.c, and a program that uses one.    *)
(*                                                                         *)
(* A stream s holds the text buff that it has read ahead, rest, what the   *)
(* core stream still has, and the fields eof and max (isEOF, maxBuffSz).   *)
(* The bNread function hands over any part of rest that fits.  Each call   *)
(* is a set of outcomes: what is returned, the text r that was read into,  *)
(* the stream after it, and whether an allocation failed.                  *)
(***************************************************************************)
EXTENDS BstrList

CONSTANTS
  Closed,
  Sources,     (* what core streams hold                                    *)
  Sizes,       (* lengths that are read, and of buffers                     *)
  Terms,       (* terminators and separators                                *)
  Unread,      (* what is put back                                          *)
  SplitSize,   (* BSSSC_BUFF_LEN                                            *)
  MaxStream    (* longer streams and lines are read no further: a bound     *)

VARIABLES
  stream,
  line,        (* the string that is read into                              *)
  last         (* the last call: its name and argument, what it returned,   *)
               (* whether memory was short, and what it showed a callback   *)

streamVars == <<stream, line, last>>

Outcome(ret, r, s) == [ret |-> ret, r |-> r, s |-> s, short |-> FALSE, shown |-> <<>>]
Short(ret, r, s) == [Outcome(ret, r, s) EXCEPT !.short = TRUE]

Opened(source) == [buff |-> <<>>, rest |-> source, eof |-> FALSE, max |-> 1]
bseof(s) == s.eof /\ s.buff = <<>>

Handed(s, n) ==
  IF s.rest = <<>> THEN {<<>>} ELSE {Left(s.rest, k) : k \in 1 .. Min({n, Len(s.rest)})}
After(s, got) == [s EXCEPT !.rest = From(@, Len(got))]
-----------------------------------------------------------------------------
(***************************************************************************)
(* Reading.                                                                *)
(***************************************************************************)
LineEnd(t, terms) == Least({i \in Positions(t) : At(t, i) \in terms})

(* Mutant of Over: the terminator is pushed back, too.                     *)
OverOne(got, i) == From(got, i)

(* What was read beyond the terminator at i.                               *)
Over(got, i) == From(got, i + 1)

(* BSTR_ERR & -(r->slen == rlo).                                           *)
Judged(r, r0) == IF r = r0 THEN ERR ELSE OK

(* Reads go to the line itself until one holds a terminator.               *)
RECURSIVE ReadDirect(_, _, _, _)
ReadDirect(r, s, terms, r0) ==
  LET Next(got) ==
        LET i == LineEnd(got, terms) IN
        IF got = <<>>
        THEN {Outcome(Judged(r, r0), r, [s EXCEPT !.buff = <<>>, !.eof = TRUE])}
        ELSE IF i = ERR THEN ReadDirect(r \o got, After(s, got), terms, r0)
        ELSE {Outcome(OK, r \o Left(got, i + 1), [After(s, got) EXCEPT !.buff = Over(got, i)])} IN
  {Short(ERR, r, s)} \union UNION {Next(got) : got \in Handed(s, s.max)}

ReadLine(r, s, terms) ==
  LET i == LineEnd(s.buff, terms) IN
  {Short(ERR, r, s)} \union
    IF i = ERR THEN ReadDirect(r \o s.buff, s, terms, r)
    ELSE {Outcome(OK, r \o Left(s.buff, i + 1), [s EXCEPT !.buff = Over(@, i)]), Short(OK, r, s)}

bsreadlna(r, s, term) == ReadLine(r, s, {term})
bsreadlnsa(r, s, term) ==
  IF term = <<>> THEN {Outcome(ERR, r, s)}
  ELSE IF Len(term) = 1 THEN bsreadlna(r, s, At(term, 0))
  ELSE ReadLine(r, s, {c \in Characters(term) : testInCharField(buildCharField(term), c)})

(* The loop of bsreada, n characters before its end.                       *)
RECURSIVE ReadUpTo(_, _, _, _)
ReadUpTo(r, s, n, r0) ==
  LET all == r \o s.buff
      Next(got) ==
        IF got = <<>>
        THEN {Outcome(Judged(all, r0), all, [s EXCEPT !.buff = <<>>, !.eof = TRUE])}
        ELSE ReadUpTo(all, [After(s, got) EXCEPT !.buff = got], n - Len(s.buff), r0) IN
  IF Len(s.buff) >= n
  THEN {Outcome(OK, r \o Left(s.buff, n), [s EXCEPT !.buff = From(@, n)]),
        Short(Judged(r, r0), r, s)}
  ELSE {Short(Judged(r, r0), r, [s EXCEPT !.eof = @ \/ s.buff = <<>>])}
         \union UNION {Next(got) : got \in Handed(s, Min({n - Len(s.buff), s.max}))}

(* With nothing in the buffer, and room in the line, one read fills it.    *)
bsreada(r, s, n) ==
  LET Direct(got) ==
        IF got = <<>> THEN Outcome(ERR, r, [s EXCEPT !.eof = TRUE])
        ELSE Outcome(OK, r \o got, After(s, got)) IN
  IF n <= 0 \/ bseof(s) THEN {Outcome(ERR, r, s)}
  ELSE (IF s.buff = <<>> THEN {Direct(got) : got \in Handed(s, n)} ELSE {})
         \union {Short(ERR, r, s)} \union ReadUpTo(r, s, n, r)

(* bsreadln, bsreadlns and bsread empty the line once there is a buffer.   *)
Anew(r, s, outcomes) == {Short(ERR, r, s)} \union outcomes
bsreadln(r, s, term) == Anew(r, s, bsreadlna(<<>>, s, term))
bsreadlns(r, s, term) ==
  IF term = <<>> THEN {Outcome(ERR, r, s)} ELSE Anew(r, s, bsreadlnsa(<<>>, s, term))
bsread(r, s, n) == IF n <= 0 THEN {Outcome(ERR, r, s)} ELSE Anew(r, s, bsreada(<<>>, s, n))

bsunread(r, s, t) == {Outcome(OK, r, [s EXCEPT !.buff = t \o @]), Short(ERR, r, s)}
bspeek(r, s) == {Outcome(OK, s.buff, s), Short(ERR, r, s)}
bsbufflength(r, s, sz) ==
  IF sz < 0 THEN {Outcome(ERR, r, s)}
  ELSE {Outcome(s.max, r, IF sz > 0 THEN [s EXCEPT !.max = sz] ELSE s)}
-----------------------------------------------------------------------------
(***************************************************************************)
(* Splitting: buff is what was read of the entry that starts at p, and     *)
(* shown the entries the callback has seen.  The callback may stop.        *)
(***************************************************************************)
Entry(p, text) == [ofs |-> p, text |-> text]
Shown(o, shown) == [o EXCEPT !.shown = shown]
Fails(o, outcomes) == {[x EXCEPT !.short = @ \/ o.short] : x \in outcomes}

(* Stopped by the callback, or going on.                                   *)
Show(s, shown, goOn) == {Shown(Outcome(ERR, <<>>, s), shown)} \union goOn

RECURSIVE DividedStream(_, _, _, _, _)
DividedStream(s, buff, p, seps, shown) ==
  LET i == LineEnd(buff, seps)
      back == [s EXCEPT !.buff = From(buff, i + 1) \o @]
      Seen(text) == Append(shown, Entry(p, text)) IN
  IF i # ERR
  THEN {Shown(Short(ERR, <<>>, s), shown)} \union
         Show(back, Seen(Left(buff, i)), DividedStream(back, <<>>, p + i + 1, seps, Seen(Left(buff, i))))
  ELSE UNION {Fails(o, IF o.r = buff
                       THEN Show(o.s, Seen(buff), {Shown(Outcome(OK, <<>>, o.s), Seen(buff))})
                       ELSE DividedStream(o.s, o.r, p, seps, shown)) : o \in bsreada(buff, s, SplitSize)}

RECURSIVE WholeStream(_, _)
WholeStream(s, buff) ==
  UNION {Fails(o, IF o.ret = OK THEN WholeStream(o.s, o.r)
                  ELSE {Shown(Outcome(v, <<>>, o.s), <<Entry(0, o.r)>>) : v \in {OK, ERR}})
           : o \in bsreada(buff, s, SplitSize)}

bssplitscb(s, sep) ==
  {Short(ERR, <<>>, s)} \union
    IF sep = <<>> THEN WholeStream(s, <<>>)
    ELSE DividedStream(s, <<>>, 0, Characters(sep), <<>>)

(* Chunk by chunk, for an empty separator.                                 *)
RECURSIVE Chunks(_, _)
Chunks(s, shown) ==
  UNION {Fails(o, IF o.ret # OK THEN {Shown(Outcome(OK, <<>>, o.s), shown)}
                  ELSE Show(o.s, Append(shown, Entry(0, o.r)), Chunks(o.s, Append(shown, Entry(0, o.r)))))
           : o \in bsreada(<<>>, s, SplitSize)}

(* What is read together with the end of the stream is not searched; a     *)
(* read that failed and changed nothing is tried again.                    *)
RECURSIVE DividedByText(_, _, _, _, _)
DividedByText(s, buff, p, sep, shown) ==
  LET i == binstr(buff, 0, sep)
      Seen(text) == Append(shown, Entry(p, text)) IN
  IF i >= 0
  THEN Show(s, Seen(Left(buff, i)),
            DividedByText(s, From(buff, i + Len(sep)), p + i + Len(sep), sep, Seen(Left(buff, i))))
  ELSE UNION {Fails(o, IF bseof(o.s)
                       THEN Show(o.s, Seen(o.r), {Shown(Outcome(OK, <<>>, o.s), Seen(o.r))})
                       ELSE IF o.s = s /\ o.r = buff THEN {}
                       ELSE DividedByText(o.s, o.r, p, sep, shown)) : o \in bsreada(buff, s, SplitSize)}

bssplitstrcb(s, sep) ==
  IF Len(sep) = 1 THEN bssplitscb(s, sep)
  ELSE {Short(ERR, <<>>, s)} \union
         IF sep = <<>> THEN Chunks(s, <<>>) ELSE DividedByText(s, <<>>, 0, sep, <<>>)
-----------------------------------------------------------------------------
(***************************************************************************)
(* A program: it opens a stream, calls one function after the other on it, *)
(* and closes it.                                                          *)
(***************************************************************************)
NoLast == [op |-> "bsclose", arg |-> <<>>, ret |-> OK, short |-> FALSE, shown |-> <<>>]
StreamInit == stream = Closed /\ line = <<>> /\ last = NoLast

bsopen ==
  /\ stream = Closed
  /\ \E t \in Sources : stream' = Opened(t)
  /\ UNCHANGED <<line, last>>

bsclose ==
  /\ stream # Closed
  /\ stream' = Closed /\ line' = <<>> /\ last' = NoLast

Does(op, arg, outcomes) ==
  /\ \E o \in outcomes :
       /\ stream' = o.s
       /\ line' = o.r
       /\ last' = [op |-> op, arg |-> arg, ret |-> o.ret, short |-> o.short, shown |-> o.shown]

Going == stream # Closed /\ Len(line) + Len(stream.buff) + Len(stream.rest) <= MaxStream

ReadLines ==
  /\ Going
  /\ \E t \in Terms :
       \/ t # <<>> /\ Does("bsreadln", <<At(t, 0)>>, bsreadln(line, stream, At(t, 0)))
       \/ Does("bsreadlns", t, bsreadlns(line, stream, t))
       \/ t # <<>> /\ Does("bsreadlna", <<At(t, 0)>>, bsreadlna(line, stream, At(t, 0)))
       \/ Does("bsreadlnsa", t, bsreadlnsa(line, stream, t))

ReadSome ==
  /\ Going
  /\ \E n \in Sizes :
       \/ Does("bsread", <<n>>, bsread(line, stream, n))
       \/ Does("bsreada", <<n>>, bsreada(line, stream, n))

Adjust ==
  /\ Going
  /\ \/ \E t \in Unread : Does("bsunread", t, bsunread(line, stream, t))
     \/ \E n \in Sizes : Does("bsbufflength", <<n>>, bsbufflength(line, stream, n))
     \/ Does("bspeek", <<>>, bspeek(line, stream))

Divide ==
  /\ Going
  /\ \E t \in Terms :
       \/ Does("bssplitscb", t, bssplitscb(stream, t))
       \/ Does("bssplitstrcb", t, bssplitstrcb(stream, t))

StreamNext == bsopen \/ bsclose \/ ReadLines \/ ReadSome \/ Adjust \/ Divide
-----------------------------------------------------------------------------
(***************************************************************************)
(* What is read is what the core stream holds, in its order.               *)
(***************************************************************************)
Pending(s) == s.buff \o s.rest
EndIsEnd(s) == s.eof => s.rest = <<>>
LineReads == {"bsreadln", "bsreadlns", "bsreadlna", "bsreadlnsa"}
AppendingReads == {"bsreadlna", "bsreadlnsa", "bsreada"}
Reads == LineReads \union {"bsread", "bsreada"}

(* A line ends with its first terminator or with the stream; as many       *)
(* characters as asked for are a bound; an error is nothing read.          *)
Taken(taken) ==
  LET ended == Pending(stream') = <<>> /\ stream'.eof IN
  /\ taken \o Pending(stream') = Pending(stream)
  /\ last'.op \in LineReads /\ last'.arg # <<>> =>
       LET i == LineEnd(taken, Characters(last'.arg)) IN
       IF i = ERR THEN ended ELSE i = Len(taken) - 1
  /\ last'.op \notin LineReads => Len(taken) <= last'.arg[1]
  /\ last'.ret = ERR <=> taken = <<>>

(* Without memory nothing is lost, but a line read in several parts that   *)
(* fails between two of them has put what was read ahead into the line and *)
(* keeps it read ahead: the next read hands it out a second time.          *)
Unharmed(before) == line' \o Pending(stream') = before \o Pending(stream)
HandedTwice(before) ==
  /\ last'.op \in LineReads /\ last'.ret = ERR
  /\ stream'.buff = stream.buff
  /\ line' \o stream'.rest = before \o Pending(stream)

ReadsWell ==
  LET before == IF last'.op \in AppendingReads THEN line ELSE <<>> IN
  IF last'.short
  THEN \/ Unharmed(before) \/ HandedTwice(before)
       \/ line' = line /\ Pending(stream') = Pending(stream)
  ELSE \/ /\ Left(line', Len(before)) = before
          /\ Taken(From(line', Len(before)))
       \/ last'.arg \in {<<>>, <<0>>} /\ line' = line /\ stream' = stream

(* The length of the separator that divides the stream, and whether a text *)
(* holds one.                                                              *)
Gap == IF last'.arg = <<>> THEN 0 ELSE IF last'.op = "bssplitscb" THEN 1 ELSE Len(last'.arg)
Divides(text) ==
  IF Gap = 1 THEN Characters(text) \cap Characters(last'.arg) # {}
  ELSE Occurs(text, last'.arg) # {}

(* Where the k-th entry shown ends, and where the next one begins.         *)
End(k) == IF k = 0 THEN 0 ELSE last'.shown[k].ofs + Len(last'.shown[k].text)
Begin(k) == IF k = 1 THEN 0 ELSE End(k - 1) + Gap

(* The two losses of a split that returns BSTR_ERR: bssplitscb has no      *)
(* memory to put back what it read behind a separator, and drops the entry *)
(* with it; bssplitstrcb is stopped by the callback and drops what it read *)
(* behind the separator, less than one read.                               *)
Dropped(whole) ==
  LET n == Len(last'.shown)
      from == From(whole, Begin(n + 1))
      lost == Left(from, Len(from) - Len(Pending(stream'))) IN
  /\ last'.ret = ERR
  /\ from = lost \o Pending(stream')
  /\ IF Gap = 1
     THEN /\ last'.short /\ Divides(lost)
          /\ Len(lost) - LineEnd(lost, Characters(last'.arg)) <= SplitSize
     ELSE Gap > 1 /\ n > 0 /\ Len(lost) < SplitSize

(* The entries follow each other in the stream with a separator between    *)
(* two of them; none holds one, but for the text read together with the    *)
(* end of the stream, which a split by a longer text does not search.  A   *)
(* split goes on to the end of the stream, and one that is stopped leaves  *)
(* the stream behind the last separator, unless it drops more.             *)
SplitsWell ==
  LET shown == last'.shown
      whole == Pending(stream)
      n == Len(shown)
      Remains(k) == Pending(stream') = From(whole, k) IN
  IF last'.op = "bssplitstrcb" /\ last'.arg = <<>>
  THEN bjoin([k \in DOMAIN shown |-> shown[k].text], <<>>) \o Pending(stream') = whole
  ELSE /\ \A k \in DOMAIN shown :
            /\ SubSeq(whole, shown[k].ofs + 1, End(k)) = shown[k].text
            /\ shown[k].ofs = Begin(k)
            /\ Gap > 0 => ~ Divides(shown[k].text) \/ (Gap > 1 /\ k = n /\ bseof(stream'))
       /\ last'.ret = OK => Remains(End(n)) /\ (bseof(stream') \/ last'.short)
       /\ last'.ret = ERR =>
            \/ Remains(End(n)) /\ (bseof(stream') \/ last'.short)
            \/ n > 0 /\ Gap > 0 /\ Len(whole) >= Begin(n + 1) /\ Remains(Begin(n + 1))
            \/ Dropped(whole)

(* Whatever amounts the core stream hands over, however reads of lines, of *)
(* lengths and splitting follow each other on one stream, and whichever    *)
(* allocation fails: the characters arrive in order, lines end where they  *)
(* should, and only an allocation that fails makes bsreada take a stream   *)
(* for ended that is not.  A character arrives twice only as HandedTwice   *)
(* says, and is lost only as Dropped says.                                 *)
ReadsInOrder ==
  [][stream # Closed /\ stream' # Closed =>
       /\ last'.op \in Reads => ReadsWell
       /\ last'.op \in {"bssplitscb", "bssplitstrcb"} => SplitsWell
       /\ EndIsEnd(stream) => EndIsEnd(stream') \/ last'.short]_streamVars
=============================================================================
