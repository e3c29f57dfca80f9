------------------------------ MODULE Strings -------------------------------
(***************************************************************************)
(* A program that makes one call of third/bstrlib/bstrlib.c after another  *)
(* on a string: it chooses the call, then the call returns.                *)
(***************************************************************************)
EXTENDS StringState, Bstr

CONSTANTS
  Blocks,      (* texts as long as an int can say                           *)
  Chars,       (* single characters, and terminators                        *)
  MaxText,     (* longer strings are only destroyed, and                    *)
  MaxAlloc     (* those in more memory: bounds                              *)

vars == <<b, call, ret, events>>

ASSUME StringsAssumption == Blocks \subseteq {x \in Seq(Byte) : Len(x) = IntMax}

Init == b = Gone /\ call = NoCall /\ ret = OK /\ events = {}

Terminated(s) == s.slen < Len(s.data) /\ At(s.data, s.slen) = NUL
-----------------------------------------------------------------------------
(***************************************************************************)
(* Calls.                                                                  *)
(***************************************************************************)
Call(op, src, with, pos, len) ==
  [op |-> op, src |-> src, with |-> with, pos |-> pos, len |-> len]

None == Text(<<>>)
Own == {Text(t) : t \in Texts}
Operands(s) ==
  Own \union {Self} \union
    {x \in {Slice(i, n) : i \in Positions(Val(s)), n \in 1 .. s.slen} : x.at + x.len <= s.slen}

OfContents == {"btoupper", "btolower", "bltrimws", "brtrimws", "btrimws"}
ByNone == OfContents \union {"bdestroy"}
ByNumber == {"balloc", "ballocmin", "btrunc", "bpattern"}
ByNumbers == {"bdelete", "binsertch"}
ByText == {"bcatcstr", "bassigncstr", "breada", "bassigngets", "bgetsa"}
ByTextNumber == {"bformata", "bassignformat", "bvcformata"}
ByOperand == {"bconcat", "bassign", "bcatblk", "bassignblk"}
ByBlock == ByOperand
ByOperandNumber == {"bsetstr", "binsert"}
ByOperandNumbers == {"breplace", "bassignmidstr"}
ByOperands == {"bfindreplace", "bfindreplacecaseless"}

Makes == {"bfromcstr", "bfromcstralloc", "blk2bstr", "bstrcpy", "bread", "bgets", "bformat"}
MakesOfBlock == {"bfromcstr", "bfromcstralloc", "blk2bstr", "bstrcpy"}

CallsOn(s) ==
  {Call(op, None, None, 0, 0) : op \in ByNone} \union
  {Call("bconchar", None, None, c, 0) : c \in Chars} \union
  {Call(op, None, None, 0, n) : op \in ByNumber, n \in Numbers} \union
  {Call(op, None, None, i, n) : op \in ByNumbers, i, n \in Numbers} \union
  {Call(op, t, None, 0, 0) : op \in ByText, t \in Own} \union
  {Call(op, t, None, 0, n) : op \in ByTextNumber, t \in Own, n \in Numbers} \union
  {Call(op, o, None, 0, 0) : op \in ByOperand, o \in Operands(s)} \union
  {Call(op, Text(t), None, 0, 0) : op \in ByBlock, t \in Blocks} \union
  {Call(op, o, None, i, 0) : op \in ByOperandNumber, o \in Operands(s), i \in Numbers} \union
  {Call(op, o, None, i, n) : op \in ByOperandNumbers, o \in Operands(s), i, n \in Numbers} \union
  {Call(op, f, r, i, 0) : op \in ByOperands, f, r \in Operands(s), i \in Numbers}

CallsForNew ==
  {Call(op, t, None, 0, n) : op \in Makes, t \in Own, n \in Numbers} \union
  {Call(op, Text(t), None, 0, n) : op \in MakesOfBlock, t \in Blocks, n \in Numbers} \union
  {Call("bmidstr", t, None, i, n) : t \in Own, i, n \in Numbers}

(* A string past whose end was written is only destroyed.                  *)
Choose ==
  /\ call = NoCall
  /\ call' \in IF b = Gone THEN CallsForNew
               ELSE IF b.slen > MaxText \/ Len(b.data) > MaxAlloc \/ "overrun" \in events
               THEN {Call("bdestroy", None, None, 0, 0)}
               ELSE CallsOn(b)
  /\ ret' = OK /\ events' = {}
  /\ UNCHANGED b
-----------------------------------------------------------------------------
(***************************************************************************)
(* The calls return.                                                       *)
(***************************************************************************)
M == [data |-> b.data, slen |-> b.slen, ev |-> {}]

(* Term is the terminator of the gets functions.                           *)
Term == 32

(* What lies behind the terminator is of no interest to the next call.     *)
Kept(m) ==
  [data |-> [i \in DOMAIN m.data |->
               IF i <= m.slen \/ (i = m.slen + 1 /\ m.data[i] = NUL) THEN m.data[i] ELSE Any],
   slen |-> m.slen]

Done(op, outcomes(_, _, _, _)) ==
  /\ call # NoCall /\ call.op = op
  /\ \E o \in outcomes(M, call.src, call.pos, call.len) :
       b' = Kept(o.m) /\ ret' = o.ret /\ events' = o.m.ev
  /\ call' = NoCall

(* Functions that make a string; NULL is returned for lack of memory.      *)
Made(op, strings(_, _, _)) ==
  /\ call # NoCall /\ call.op = op
  /\ \/ b' = Gone /\ ret' = ERR /\ events' = {"short"}
     \/ \E m \in strings(call.src.text, call.pos, call.len) :
          b' = Kept(m) /\ ret' = OK /\ events' = m.ev
  /\ call' = NoCall

Make ==
  \/ Made("bfromcstr", LAMBDA t, i, n : bfromcstr(t))
  \/ Made("bfromcstralloc", LAMBDA t, i, n : bfromcstrrangealloc(n, n, t))
  \/ Made("blk2bstr", LAMBDA t, i, n : blk2bstr(t))
  \/ Made("bstrcpy", LAMBDA t, i, n : bstrcpy(t))
  \/ Made("bmidstr", LAMBDA t, i, n : bmidstr(t, i, n))
  \/ Made("bread", LAMBDA t, i, n : bread(t))
  \/ Made("bgets", LAMBDA t, i, n : bgets(t, Term))
  \/ Made("bformat", LAMBDA t, i, n : bformat(n, t))

Destroy ==
  /\ call # NoCall /\ call.op = "bdestroy"
  /\ b' = Gone /\ call' = NoCall
  /\ UNCHANGED <<ret, events>>

Resize ==
  \/ Done("balloc", LAMBDA m, o, i, n : balloc(m, n))
  \/ Done("ballocmin", LAMBDA m, o, i, n : ballocmin(m, n))

Extend ==
  \/ Done("bconcat", LAMBDA m, o, i, n : bconcat(m, o))
  \/ Done("bconchar", LAMBDA m, o, i, n : bconchar(m, i))
  \/ Done("bcatcstr", LAMBDA m, o, i, n : bcatcstr(m, o.text))
  \/ Done("bcatblk", LAMBDA m, o, i, n : bcatblk(m, o))
  \/ Done("breada", LAMBDA m, o, i, n : breada(m, o.text))
  \/ Done("bgetsa", LAMBDA m, o, i, n : bgetsa(m, o.text, Term))
  \/ Done("bformata", LAMBDA m, o, i, n : bformata(m, n, o.text))
  \/ Done("bvcformata", LAMBDA m, o, i, n : bvcformata(m, n, o.text))

Assign ==
  \/ Done("bassign", LAMBDA m, o, i, n : bassign(m, o))
  \/ Done("bassignmidstr", LAMBDA m, o, i, n : bassignmidstr(m, o, i, n))
  \/ Done("bassigncstr", LAMBDA m, o, i, n : bassigncstr(m, o.text))
  \/ Done("bassignblk", LAMBDA m, o, i, n : bassignblk(m, o))
  \/ Done("bassigngets", LAMBDA m, o, i, n : bassigngets(m, o.text, Term))
  \/ Done("bassignformat", LAMBDA m, o, i, n : bassignformat(m, n, o.text))

Shorten ==
  \/ Done("btrunc", LAMBDA m, o, i, n : btrunc(m, n))
  \/ Done("bdelete", LAMBDA m, o, i, n : bdelete(m, i, n))
  \/ Done("bltrimws", LAMBDA m, o, i, n : bltrimws(m))
  \/ Done("brtrimws", LAMBDA m, o, i, n : brtrimws(m))
  \/ Done("btrimws", LAMBDA m, o, i, n : btrimws(m))

Edit ==
  \/ Done("btoupper", LAMBDA m, o, i, n : btoupper(m))
  \/ Done("btolower", LAMBDA m, o, i, n : btolower(m))
  \/ Done("bsetstr", LAMBDA m, o, i, n : bsetstr(m, i, o, FillChar))
  \/ Done("binsert", LAMBDA m, o, i, n : binsert(m, i, o))
  \/ Done("binsertch", LAMBDA m, o, i, n : binsertch(m, i, n))
  \/ Done("breplace", LAMBDA m, o, i, n : breplace(m, i, n, o))
  \/ Done("bpattern", LAMBDA m, o, i, n : bpattern(m, n))
  \/ Done("bfindreplace", LAMBDA m, o, i, n : bfindreplace(m, o, call.with, i))
  \/ Done("bfindreplacecaseless", LAMBDA m, o, i, n : bfindreplacecaseless(m, o, call.with, i))

Next == Choose \/ Make \/ Destroy \/ Resize \/ Extend \/ Assign \/ Shorten \/ Edit
Spec == Init /\ [][Next]_vars
-----------------------------------------------------------------------------
(***************************************************************************)
(* What the calls are documented to do, in terms of texts alone.           *)
(***************************************************************************)
Padded(t, n) == t \o Repeat(FillChar, n - Len(t))
Overlaid(t, pos, x) == Left(Padded(t, pos), pos) \o x \o From(t, pos + Len(x))
Inserted(t, pos, x) == Left(Padded(t, pos), pos) \o x \o From(t, pos)
Without(t, pos, n) == Left(t, Max({pos, 0})) \o From(t, Max({pos + n, 0}))
Middle(t, pos, n) == From(Left(t, Max({pos + n, 0})), Max({pos, 0}))
LineOf(t) == LET stop == Least({i \in Positions(t) : At(t, i) = Term}) IN
             IF stop = ERR THEN t ELSE Left(t, stop + 1)
TrimmedLeft(t) == From(t, Max({n \in 0 .. Len(t) : \A k \in 1 .. n : wspace(t[k])}))
TrimmedRight(t) ==
  Left(t, Min({n \in 0 .. Len(t) : \A k \in n + 1 .. Len(t) : wspace(t[k])}))

(* Leftmost occurrences first, none in what has been replaced.             *)
RECURSIVE Replaced(_, _, _, _, _)
Replaced(t, like, p, r, pos) ==
  LET i == NextOf(Occurs(like, p), pos, t) IN
  IF i = ERR THEN t
  ELSE LET rest == Replaced(t, like, p, r, i + Len(p)) IN
       Left(rest, i) \o r \o From(rest, i + Len(p))

(* The text after a call that succeeds: t is the one before, x and y are   *)
(* those of the operands.                                                  *)
Expected(t, x, y, i, n) ==
  LET op == call.op IN
  CASE op \in {"bconcat", "bcatcstr", "bcatblk", "breada", "bformata", "bvcformata"} -> t \o x
    [] op = "bgetsa" -> t \o LineOf(x)
    [] op = "bconchar" -> Append(t, i)
    [] op \in {"bassign", "bassigncstr", "bassignblk", "bassignformat", "bfromcstr",
               "bfromcstralloc", "blk2bstr", "bstrcpy", "bread", "bformat"} -> x
    [] op \in {"bassigngets", "bgets"} -> LineOf(x)
    [] op \in {"bassignmidstr", "bmidstr"} -> Middle(x, i, n)
    [] op = "btrunc" -> Left(t, n)
    [] op = "bdelete" -> Without(t, i, n)
    [] op = "bltrimws" -> TrimmedLeft(t)
    [] op = "brtrimws" -> TrimmedRight(t)
    [] op = "btrimws" -> TrimmedLeft(TrimmedRight(t))
    [] op = "btoupper" -> [k \in DOMAIN t |-> upcase(t[k])]
    [] op = "btolower" -> Lowered(t)
    [] op = "bsetstr" -> Overlaid(t, i, x)
    [] op = "binsert" -> Inserted(t, i, x)
    [] op = "binsertch" ->
         IF i > Len(t) THEN Padded(t, i + n) ELSE Inserted(t, i, Repeat(FillChar, n))
    [] op = "breplace" -> Inserted(Without(Padded(t, i), i, n), i, x)
    [] op = "bpattern" -> [k \in 1 .. n |-> At(t, (k - 1) % Len(t))]
    [] op = "bfindreplace" -> Replaced(t, t, x, y, i)
    [] op = "bfindreplacecaseless" -> Replaced(t, Lowered(t), Lowered(x), y, i)
    [] OTHER -> t

(* Calls that bstrlib.txt says return BSTR_ERR, and those among them that  *)
(* do not: the cases and the trims of an empty string (1298-1330).         *)
MustRefuse(t, x) ==
  \/ call.op \in {"balloc", "ballocmin"} /\ call.len <= 0
  \/ call.op = "btrunc" /\ call.len < 0
  \/ call.op = "bpattern" /\ t = <<>>
  \/ call.op \in OfContents /\ t = <<>>
  \/ call.op \in ByOperands /\ x = <<>>
  \/ call.op = "bvcformata" /\ Len(x) > call.len
Accepted(t) == call.op \in OfContents /\ t = <<>>

(* Calls that may be refused: with negative numbers, with nothing to work  *)
(* on, with too small a bound, or about sizes that are no int.             *)
Refusable(t, x, y) ==
  \/ call.pos < 0 \/ call.len < 0
  \/ call.op = "bvcformata" /\ call.len = 0
  \/ MustRefuse(t, x)
  \/ Len(t) + Len(x) * (1 + Len(y)) + call.pos + call.len + ReadStep > IntMax

(* Calls after whose failure the string holds part of the new text.        *)
MayBePartial == {"bcatcstr", "bassigncstr", "breada", "bassigngets", "bgetsa"}

(* Calls that do write past the end: where the least allocation leaves no  *)
(* byte for the terminator, where an append that failed has left a string  *)
(* without a terminator that fills its memory, and where pos + len, or a   *)
(* length and one more, is no int.                                         *)
MayOverrun(t, x) ==
  \/ /\ "tight" \in events'
     /\ call.op \in {"bassign", "bassignmidstr", "bassignformat", "breplace", "bvcformata",
                     "bfromcstralloc"}
  \/ b # Gone /\ Len(t) = Len(b.data)
  \/ call.op = "bdelete" /\ call.pos + call.len > IntMax
  \/ call.op = "bconcat" /\ Len(t) + Len(x) = IntMax
  \/ call.op \in {"bassign", "blk2bstr", "bstrcpy", "bfromcstralloc"} /\ Len(x) = IntMax

(* Calls that read an operand after it has been moved: part of the string  *)
(* in front of pos as the longer replacement, all of a string without a    *)
(* terminator assigned to itself, or a block of the string that is         *)
(* appended to it.                                                         *)
MayBeStale(t) ==
  /\ "moved" \in events'
  /\ \/ call.op = "bcatblk" /\ call.src.kind = "slice"
     \/ call.op \in ByOperands /\ call.with.kind = "slice"
        /\ call.with.at + call.with.len <= call.pos
     \/ call.op \in {"bassign", "bassignmidstr", "bassignblk"} /\ call.src.kind = "slice"
        /\ Len(t) = Len(b.data)

(* The memory asked for, or one byte less of an odd number: bfromcstralloc *)
(* halves what there is no memory for, and rounds it off, where bstrlib.txt*)
(* promises "at least mlen characters" (691).                              *)
RoomGiven ==
  IF call.op = "bfromcstralloc" /\ "tight" \in events' THEN call.len - (call.len % 2) ELSE call.len

(* The gets functions say whether anything was read; bgetsa does so only if*)
(* it leaves the string empty, where bstrlib.txt asks for 1 whenever       *)
(* nothing was read (1654).                                                *)
Told(t, x) ==
  IF (call.op = "bassigngets" /\ x = <<>>) \/ (call.op = "bgetsa" /\ t \o x = <<>>)
  THEN 1 ELSE OK

Succeeded(t, x, y) ==
  /\ MustRefuse(t, x) => Accepted(t)
  /\ Val(b') = Expected(t, x, y, call.pos, call.len)
  /\ b = Gone \/ Terminated(b) => Terminated(b')
  /\ ret' = Told(t, x)
  /\ call.op \in {"balloc", "ballocmin", "bfromcstralloc"} => Len(b.data') >= RoomGiven
Failed(t, x, y) ==
  /\ "short" \in events' \/ Refusable(t, x, y)
  /\ \/ call.op \in MayBePartial
     \/ b' = Gone
     \/ Val(b') = t /\ (Terminated(b) => Terminated(b'))

(* The texts of a call: before it, and of its operands.                    *)
Before == IF b = Gone THEN <<>> ELSE Val(b)
Given == IF b = Gone THEN call.src.text ELSE Read(M, call.src)
GivenToo == IF b = Gone THEN <<>> ELSE Read(M, call.with)
Working == call # NoCall /\ call.op # "bdestroy"

(* Whatever aliases a call is given and whichever of its allocations fail: *)
(* if it succeeds the string is what is documented, if it fails the string *)
(* is as it was, what is documented to be refused is refused, and it       *)
(* writes only to its own memory.  The calls that fall short of that are   *)
(* exactly those named above: Accepted, RoomGiven, Told, MayBePartial,     *)
(* MayOverrun and MayBeStale.                                              *)
CallsAsDocumented ==
  [][Working =>
       LET t == Before  x == Given  y == GivenToo IN
       IF "overrun" \in events' THEN MayOverrun(t, x)
       ELSE IF ret' < OK THEN Failed(t, x, y)
       ELSE Succeeded(t, x, y) \/ MayBeStale(t)]_vars
=============================================================================
