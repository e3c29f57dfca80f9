----------------------------- MODULE BstrProofs -----------------------------
(***************************************************************************)
(* That the searches and the comparisons of third/bstrlib/bstrlib.c return *)
(* what they are to return, and that what is split is there to be joined,  *)
(* for all texts and positions.                                            *)
(*                                                                         *)
(* The loops are recursive functions.  A function that satisfies the       *)
(* equation of one exists: the closed form does, or one is made step by    *)
(* step from where the loop ends.  Whatever satisfies it has the property  *)
(* that is to be shown: of the rounds at which it had not, take one of     *)
(* which the fewest are left.                                              *)
(***************************************************************************)
EXTENDS StringState, TLAPS, WellFoundedInduction, SequenceTheorems

LEMMA LeastNatural ==
  ASSUME NEW S, S \subseteq Nat, S # {}
  PROVE  \E n \in S : \A m \in S : n <= m
<1> DEFINE R == {p \in Nat \X Nat : p[1] < p[2]}
<1>1. IsWellFoundedOn(R, Nat)
  BY NatLessThanWellFounded, Zenon DEF OpToRel
<1> HIDE DEF R
<1>2. PICK x \in S : \A y \in S : ~ (<<y, x>> \in R)
  BY <1>1, WFMin
<1>3. ASSUME NEW y \in S PROVE x <= y
  <2>1. x \in Nat /\ y \in Nat
    OBVIOUS
  <2>2. <<y, x>> \in R <=> y < x
    BY <2>1 DEF R
  <2> QED
    BY <2>1, <2>2, <1>2
<1> QED
  BY <1>3

(***************************************************************************)
(* The first and the last of a set of positions.                           *)
(***************************************************************************)
LEMMA LeastIs ==
  ASSUME NEW S, S \subseteq Int, NEW n \in S, \A m \in S : n <= m
  PROVE  Least(S) = n
<1>1. \A x \in S : (\A y \in S : x <= y) => x = n
  <2> SUFFICES ASSUME NEW x \in S, \A y \in S : x <= y PROVE x = n
    OBVIOUS
  <2>1. x <= n /\ n <= x /\ x \in Int /\ n \in Int
    OBVIOUS
  <2> QED
    BY <2>1
<1>2. Min(S) = n
  BY <1>1 DEF Min
<1> QED
  BY <1>2 DEF Least

LEMMA GreatestIs ==
  ASSUME NEW S, S \subseteq Int, NEW n \in S, \A m \in S : n >= m
  PROVE  Greatest(S) = n
<1>1. \A x \in S : (\A y \in S : x >= y) => x = n
  <2> SUFFICES ASSUME NEW x \in S, \A y \in S : x >= y PROVE x = n
    OBVIOUS
  <2>1. x <= n /\ n <= x /\ x \in Int /\ n \in Int
    OBVIOUS
  <2> QED
    BY <2>1
<1>2. Max(S) = n
  BY <1>1 DEF Max
<1> QED
  BY <1>2 DEF Greatest

LEMMA LeastFound ==
  ASSUME NEW S, S \subseteq Nat
  PROVE  /\ S = {} => Least(S) = ERR
         /\ S # {} => Least(S) \in S /\ Least(S) # ERR /\ \A m \in S : Least(S) <= m
<1>1. CASE S = {}
  BY <1>1 DEF Least
<1>2. CASE S # {}
  <2>1. PICK n \in S : \A m \in S : n <= m
    BY <1>2, LeastNatural
  <2>2. S \subseteq Int
    OBVIOUS
  <2>3. Least(S) = n
    BY <2>1, <2>2, LeastIs
  <2> QED
    BY <1>2, <2>1, <2>3 DEF ERR
<1> QED
  BY <1>1, <1>2

LEMMA MinOfTwo ==
  ASSUME NEW a \in Int, NEW c \in Int
  PROVE  Min({a, c}) = IF a <= c THEN a ELSE c
<1> DEFINE m == IF a <= c THEN a ELSE c
           D == {a, c}
<1>1. D \subseteq Int /\ D # {} /\ m \in D /\ \A x \in D : m <= x
  OBVIOUS
<1> HIDE DEF D, m
<1>2. Least(D) = m
  BY <1>1, LeastIs
<1>3. Min(D) = m
  BY <1>1, <1>2 DEF Least
<1> QED
  BY <1>3 DEF D, m

(***************************************************************************)
(* The places where p is held in t, from one on.                           *)
(***************************************************************************)
HeldFrom(t, p, i) == {s \in Places(t, p) : s >= i /\ HeldAt(t, p, s)}
HeldUpTo(t, p, i) == {s \in Places(t, p) : s <= i /\ HeldAt(t, p, s)}

LEMMA HeldFromNext ==
  ASSUME NEW t, NEW p, Len(t) \in Nat, Len(p) \in Nat, NEW i \in Int, ~ HeldAt(t, p, i)
  PROVE  HeldFrom(t, p, i) = HeldFrom(t, p, i + 1)
<1>1. ASSUME NEW s \in Places(t, p), HeldAt(t, p, s) PROVE s >= i <=> s >= i + 1
  <2>1. s # i /\ s \in Int
    BY <1>1 DEF Places
  <2> QED
    BY <2>1
<1> QED
  BY <1>1 DEF HeldFrom

LEMMA HeldFromHere ==
  ASSUME NEW t, NEW p, Len(t) \in Nat, Len(p) \in Nat, NEW i \in Places(t, p), HeldAt(t, p, i)
  PROVE  Least(HeldFrom(t, p, i)) = i
<1>1. HeldFrom(t, p, i) \subseteq Int /\ i \in HeldFrom(t, p, i)
  BY DEF HeldFrom, Places
<1>2. \A m \in HeldFrom(t, p, i) : i <= m
  BY DEF HeldFrom, Places
<1> QED
  BY <1>1, <1>2, LeastIs

LEMMA MismatchAt ==
  ASSUME NEW t, NEW p, NEW i \in Int, NEW j \in Positions(p), At(t, i + j) # At(p, j)
  PROVE  ~ HeldAt(t, p, i)
BY DEF HeldAt

(***************************************************************************)
(* The loop of binstr.  What it has compared so far is p up to j: where    *)
(* that was found without a gap the match it has begun is the first, if p  *)
(* goes on so; otherwise no place before i - j is one, for the characters  *)
(* up to j were taken as early as they come.                               *)
(***************************************************************************)
Begun(t, p, r) ==
  /\ r.j > 0 /\ r.start + r.j = r.i
  /\ r.i + Len(p) - r.j <= Len(t)
  /\ \A k \in r.j .. Len(p) - 1 : At(p, k) = At(t, r.start + k)
Found(t, p, r) == IF Begun(t, p, r) THEN r.start ELSE Least(HeldFrom(t, p, r.i - r.j))

(* What comes later than a round: the loop ends.                           *)
Gap(p, r) == (IF r.j > 0 /\ r.start + r.j < r.i THEN Len(p) + 1 ELSE 0) + Len(p) - r.j
Later(p, q, r) ==
  \/ q.i - q.j > r.i - r.j
  \/ q.i - q.j = r.i - r.j /\ Gap(p, q) < Gap(p, r)

LEMMA RoundIs ==
  ASSUME NEW t, NEW p, Len(t) \in Nat, Len(p) \in Nat,
         NEW i \in 0 .. Len(t), NEW j \in 0 .. Len(p) - 1, NEW start \in -1 .. Len(t),
         j <= i, start + j <= i
  PROVE  /\ Round(i, j, start) \in Rounds(t, p)
         /\ Round(i, j, start).i = i /\ Round(i, j, start).j = j
         /\ Round(i, j, start).start = start
BY DEF Round, Rounds, Positions

LEMMA RoundFinds ==
  ASSUME NEW t, NEW p, Len(t) \in Nat, Len(p) \in Nat, Len(p) >= 2,
         NEW scan, NEW r \in Rounds(t, p),
         \A q \in Rounds(t, p) : Later(p, q, r) => scan[q] = Found(t, p, q)
  PROVE  ScanRound(t, p, scan, r) = Found(t, p, r)
<1> DEFINE i == r.i
           j == r.j
           start == r.start
           n == Len(p)
           last == Len(t) - 1
           fits(x) == At(t, x) = At(p, r.j)
           at == IF fits(i) THEN i ELSE i + 1
           from == IF j = 0 THEN at ELSE start
<1>1. /\ i \in 0 .. Len(t) /\ j \in 0 .. n - 1 /\ start \in -1 .. Len(t)
      /\ j <= i /\ start + j <= i /\ j \in Positions(p)
  BY DEF Rounds, Positions
<1>2. Begun(t, p, r) <=> /\ j > 0 /\ start + j = i /\ i + n - j <= Len(t)
                         /\ \A k \in j .. n - 1 : At(p, k) = At(t, start + k)
  BY DEF Begun
<1>3. Found(t, p, r) = IF Begun(t, p, r) THEN start ELSE Least(HeldFrom(t, p, i - j))
  BY DEF Found
(* Starting again, when there was a gap, and at a place that is later.     *)
<1>4. ASSUME NEW k \in 0 .. Len(t), start <= k,
             k > i - j \/ (k = i - j /\ j > 0 /\ start + j < i)
      PROVE  scan[Round(k, 0, start)] = Least(HeldFrom(t, p, k))
  <2> DEFINE q == Round(k, 0, start)
  <2>1. q \in Rounds(t, p) /\ q.i = k /\ q.j = 0 /\ q.start = start
    <3>1. /\ 0 \in 0 .. Len(p) - 1 /\ start \in -1 .. Len(t)
          /\ 0 <= k /\ start + 0 <= k
      BY <1>1, <1>4
    <3> QED
      BY <1>4, <3>1, RoundIs
  <2> HIDE DEF q
  <2>2. Later(p, q, r)
    BY <1>1, <1>4, <2>1 DEF Later, Gap
  <2>3. Found(t, p, q) = Least(HeldFrom(t, p, k))
    BY <1>4, <2>1 DEF Found, Begun
  <2> QED
    BY <2>1, <2>2, <2>3 DEF q
(* Nothing is held where character j differs.                              *)
<1>5. ASSUME ~ fits(i)
      PROVE  ~ Begun(t, p, r) /\ HeldFrom(t, p, i - j) = HeldFrom(t, p, i - j + 1)
  <2>1. At(t, (i - j) + j) # At(p, j)
    <3>1. (i - j) + j = i
      BY <1>1
    <3> QED
      BY <1>5, <3>1
  <2>2. ~ HeldAt(t, p, i - j)
    BY <1>1, <2>1, MismatchAt
  <2>3. HeldFrom(t, p, i - j) = HeldFrom(t, p, i - j + 1)
    BY <1>1, <2>2, HeldFromNext
  <2>4. ~ Begun(t, p, r)
    <3>1. j \in j .. n - 1
      BY <1>1
    <3> QED
      BY <1>2, <1>5, <3>1
  <2> QED
    BY <2>3, <2>4
<1> HIDE DEF i, j, start, n
<1>6. CASE i >= last /\ ~ (i = last /\ n = j + 1 /\ fits(i))
  <2>1. ScanRound(t, p, scan, r) = ERR
    BY <1>1, <1>6 DEF ScanRound, i, j, n
  <2>2. ~ Begun(t, p, r)
    <3> SUFFICES ASSUME Begun(t, p, r) PROVE FALSE
      OBVIOUS
    <3>1. i = last /\ n = j + 1 /\ j \in j .. n - 1
      BY <1>1, <1>2, <1>6 DEF n
    <3> QED
      BY <1>2, <1>6, <3>1 DEF i, j
  <2>3. HeldFrom(t, p, i - j) = {}
    <3> SUFFICES ASSUME NEW s \in HeldFrom(t, p, i - j) PROVE FALSE
      OBVIOUS
    <3>1. s \in 0 .. Len(t) - n /\ s >= i - j /\ HeldAt(t, p, s)
      BY DEF HeldFrom, Places, n
    <3>2. i = last /\ n = j + 1 /\ s + j = i
      BY <1>1, <1>6, <3>1 DEF n
    <3>3. At(p, j) = At(t, s + j)
      BY <1>1, <3>1 DEF HeldAt
    <3> QED
      BY <1>6, <3>2, <3>3 DEF i, j
  <2> QED
    BY <1>3, <2>1, <2>2, <2>3 DEF Least
<1>7. CASE i = last /\ n = j + 1 /\ fits(i)
  <2>1. ScanRound(t, p, scan, r) = IF i = start + j THEN start ELSE scan[Round(i - j, 0, start)]
    BY <1>1, <1>7 DEF ScanRound, i, j, n, start
  <2>2. j > 0
    BY <1>1, <1>7 DEF n
  <2>3. CASE i = start + j
    <3>1. \A k \in j .. n - 1 : At(p, k) = At(t, start + k)
      <4>1. \A k \in j .. n - 1 : k = j
        BY <1>1, <1>7 DEF n
      <4> QED
        BY <1>7, <2>3, <4>1 DEF i, j
    <3>2. Begun(t, p, r)
      BY <1>1, <1>2, <1>7, <2>2, <2>3, <3>1
    <3> QED
      BY <1>3, <2>1, <2>3, <3>2
  <2>4. CASE i # start + j
    <3>1. scan[Round(i - j, 0, start)] = Least(HeldFrom(t, p, i - j))
      BY <1>1, <1>4, <2>2, <2>4
    <3>2. ~ Begun(t, p, r)
      BY <1>2, <2>4
    <3> QED
      BY <1>3, <2>1, <2>4, <3>1, <3>2
  <2> QED
    BY <2>3, <2>4
<1>8. CASE i < last /\ ~ fits(i) /\ ~ fits(i + 1)
  <2> DEFINE q == Round(i + 2, j, start)
  <2>1. ScanRound(t, p, scan, r) = scan[q]
    BY <1>1, <1>8 DEF ScanRound, i, j, n, start
  <2>2. q \in Rounds(t, p) /\ q.i = i + 2 /\ q.j = j /\ q.start = start
    <3>1. /\ i + 2 \in 0 .. Len(t) /\ j \in 0 .. Len(p) - 1 /\ start \in -1 .. Len(t)
          /\ j <= i + 2 /\ start + j <= i + 2
      BY <1>1, <1>8 DEF n
    <3> QED
      BY <3>1, RoundIs
  <2> HIDE DEF q
  <2>3. Later(p, q, r)
    BY <1>1, <2>2 DEF Later, i, j
  <2>4. Found(t, p, q) = Least(HeldFrom(t, p, i + 2 - j))
    BY <1>1, <2>2 DEF Found, Begun
  <2>5. HeldFrom(t, p, i - j + 1) = HeldFrom(t, p, i - j + 1 + 1)
    <3>1. (i - j + 1) + j = i + 1 /\ i - j + 1 \in Int
      BY <1>1
    <3>2. At(t, (i - j + 1) + j) # At(p, j)
      BY <1>8, <3>1 DEF j
    <3>3. ~ HeldAt(t, p, i - j + 1)
      BY <1>1, <3>1, <3>2, MismatchAt
    <3> QED
      BY <3>1, <3>3, HeldFromNext
  <2>6. i - j + 1 + 1 = i + 2 - j
    BY <1>1
  <2> QED
    BY <1>3, <1>5, <1>8, <2>1, <2>2, <2>3, <2>4, <2>5, <2>6
<1>9. CASE i < last /\ (fits(i) \/ fits(i + 1)) /\ j + 1 < n
  <2> DEFINE q == Round(at + 1, j + 1, from)
  <2>1. ScanRound(t, p, scan, r) = scan[q]
    BY <1>1, <1>9 DEF ScanRound, i, j, n, start
  <2>2. at \in {i, i + 1} /\ (at = i <=> fits(i)) /\ fits(at)
    BY <1>1, <1>9
  <2>3. from = IF j = 0 THEN at ELSE start
    OBVIOUS
  <2> HIDE DEF at, from
  <2>4. q \in Rounds(t, p) /\ q.i = at + 1 /\ q.j = j + 1 /\ q.start = from
    <3>1. from \in -1 .. Len(t) /\ from + (j + 1) <= at + 1
      <4>1. CASE j = 0
        BY <1>1, <1>9, <2>2, <2>3, <4>1
      <4>2. CASE j # 0
        BY <1>1, <1>9, <2>2, <2>3, <4>2
      <4> QED
        BY <4>1, <4>2
    <3>2. at + 1 \in 0 .. Len(t) /\ j + 1 \in 0 .. Len(p) - 1 /\ j + 1 <= at + 1
      BY <1>1, <1>9, <2>2 DEF n
    <3> QED
      BY <3>1, <3>2, RoundIs
  <2> HIDE DEF q
  <2>5. Later(p, q, r)
    <3>1. CASE at = i
      <4>1. q.i - q.j = i - j
        BY <1>1, <2>4, <3>1
      <4>2. Gap(p, q) < Gap(p, r)
        <5>1. CASE j = 0
          <6>1. q.j = 1 /\ q.start = i /\ q.i = i + 1
            BY <2>3, <2>4, <3>1, <5>1
          <6>2. Gap(p, q) = n - 1 /\ Gap(p, r) = n
            BY <1>1, <5>1, <6>1 DEF Gap, i, j, start, n
          <6> QED
            BY <1>1, <6>2 DEF n
        <5>2. CASE j # 0
          <6>1. q.j = j + 1 /\ q.start = start /\ q.i = i + 1
            BY <2>3, <2>4, <3>1, <5>2
          <6>2. q.start + q.j < q.i <=> start + j < i
            BY <1>1, <6>1
          <6> QED
            BY <1>1, <5>2, <6>1, <6>2 DEF Gap, i, j, start, n
        <5> QED
          BY <5>1, <5>2
      <4> QED
        BY <4>1, <4>2 DEF Later, i, j
    <3>2. CASE at = i + 1
      BY <1>1, <2>4, <3>2 DEF Later, i, j
    <3> QED
      BY <2>2, <3>1, <3>2
  <2>6. Begun(t, p, q) <=>
          /\ from + j = at /\ at + n - j <= Len(t)
          /\ \A k \in j + 1 .. n - 1 : At(p, k) = At(t, from + k)
    BY <1>1, <2>2, <2>3, <2>4 DEF Begun, n
  <2>7. Found(t, p, q) = IF Begun(t, p, q) THEN from ELSE Least(HeldFrom(t, p, at - j))
    <3>1. (at + 1) - (j + 1) = at - j
      BY <1>1, <2>2
    <3> QED
      BY <2>4, <3>1 DEF Found
  <2>8. HeldFrom(t, p, i - j) = HeldFrom(t, p, at - j)
    <3>1. CASE at = i
      BY <3>1
    <3>2. CASE at = i + 1
      <4>1. ~ fits(i) /\ i - j + 1 = at - j
        BY <1>1, <2>2, <3>2
      <4> QED
        BY <1>5, <4>1
    <3> QED
      BY <2>2, <3>1, <3>2
  <2>9. CASE j = 0
    <3>1. ~ Begun(t, p, r)
      BY <1>2, <2>9
    <3>2. ASSUME Begun(t, p, q) PROVE Least(HeldFrom(t, p, at - j)) = from
      <4>1. from = at /\ at - j = at /\ at \in Places(t, p)
        BY <1>1, <2>2, <2>3, <2>6, <2>9, <3>2 DEF Places, n
      <4>2. HeldAt(t, p, at)
        <5> SUFFICES ASSUME NEW k \in 0 .. n - 1 PROVE At(p, k) = At(t, at + k)
          BY DEF HeldAt, Positions, n
        <5>1. CASE k = 0
          <6>1. at + k = at /\ k = r.j
            BY <1>1, <2>2, <2>9, <5>1 DEF j
          <6> QED
            BY <2>2, <6>1
        <5>2. CASE k # 0
          <6>1. k \in j + 1 .. n - 1
            BY <2>9, <5>2 DEF n
          <6> QED
            BY <2>6, <3>2, <4>1, <6>1
        <5> QED
          BY <5>1, <5>2
      <4> QED
        BY <4>1, <4>2, HeldFromHere
    <3> QED
      BY <1>3, <2>1, <2>4, <2>5, <2>7, <2>8, <3>1, <3>2
  <2>10. CASE j # 0 /\ at = i
    <3>1. Begun(t, p, q) <=> Begun(t, p, r)
      <4>1. ASSUME from + j = at, at + n - j <= Len(t),
                   \A k \in j + 1 .. n - 1 : At(p, k) = At(t, from + k)
            PROVE  \A k \in j .. n - 1 : At(p, k) = At(t, start + k)
        <5> SUFFICES ASSUME NEW k \in j .. n - 1 PROVE At(p, k) = At(t, start + k)
          OBVIOUS
        <5>1. CASE k = j
          BY <2>2, <2>3, <2>10, <4>1, <5>1 DEF j
        <5>2. CASE k # j
          <6>1. k \in j + 1 .. n - 1
            BY <1>1, <5>2 DEF n
          <6> QED
            BY <2>3, <2>10, <4>1, <6>1
        <5> QED
          BY <5>1, <5>2
      <4>2. \A k \in j + 1 .. n - 1 : k \in j .. n - 1
        BY <1>1 DEF n
      <4>3. from = start /\ j > 0
        BY <1>1, <2>3, <2>10
      <4> QED
        BY <1>2, <2>6, <2>10, <4>1, <4>2, <4>3
    <3>2. from = start
      BY <2>3, <2>10
    <3> QED
      BY <1>3, <2>1, <2>4, <2>5, <2>7, <2>8, <3>1, <3>2
  <2>11. CASE j # 0 /\ at = i + 1
    <3>1. ~ Begun(t, p, q)
      BY <1>1, <2>3, <2>6, <2>11
    <3>2. ~ fits(i)
      BY <1>1, <2>2, <2>11
    <3>3. ~ Begun(t, p, r)
      BY <1>5, <3>2
    <3> QED
      BY <1>3, <2>1, <2>4, <2>5, <2>7, <2>8, <3>1, <3>3
  <2> QED
    BY <2>2, <2>9, <2>10, <2>11
<1>10. CASE i < last /\ (fits(i) \/ fits(i + 1)) /\ ~ (j + 1 < n)
  <2>1. n = j + 1 /\ j > 0
    BY <1>1, <1>10 DEF n
  <2>2. ScanRound(t, p, scan, r) =
          IF at + 1 = start + (j + 1) THEN start ELSE scan[Round(at + 1 - (j + 1), 0, start)]
    <3> DEFINE Judged(end, begin, m) ==
                 IF end = begin + m THEN begin ELSE scan[Round(end - m, 0, begin)]
    <3>1. ScanRound(t, p, scan, r) = Judged(at + 1, from, r.j + 1)
      BY <1>1, <1>10 DEF ScanRound, i, j, n, start
    <3>2. from = start /\ r.j = j
      BY <2>1 DEF j, start
    <3>3. at \in Int /\ start \in Int /\ j \in Int
      BY <1>1
    <3> HIDE DEF at, from
    <3>4. Judged(at + 1, start, j + 1) =
            IF at + 1 = start + (j + 1) THEN start ELSE scan[Round(at + 1 - (j + 1), 0, start)]
      BY <3>3
    <3> HIDE DEF Judged
    <3> QED
      BY <3>1, <3>2, <3>4
  <2>3. at \in {i, i + 1} /\ (at = i <=> fits(i)) /\ fits(at)
    BY <1>1, <1>10
  <2> HIDE DEF at
  <2>4. CASE at = i /\ i = start + j
    <3>1. \A k \in j .. n - 1 : At(p, k) = At(t, start + k)
      <4>1. \A k \in j .. n - 1 : k = j
        BY <1>1, <2>1 DEF n
      <4> QED
        BY <2>3, <2>4, <4>1 DEF j
    <3>2. Begun(t, p, r)
      BY <1>1, <1>2, <1>10, <2>1, <2>4, <3>1
    <3>3. at + 1 = start + (j + 1)
      BY <1>1, <2>4
    <3> QED
      BY <1>3, <2>2, <3>2, <3>3
  <2>5. CASE at = i /\ i # start + j
    <3>1. scan[Round(i - j, 0, start)] = Least(HeldFrom(t, p, i - j))
      BY <1>1, <1>4, <2>1, <2>5
    <3>2. ~ Begun(t, p, r)
      BY <1>2, <2>5
    <3>3. at + 1 # start + (j + 1) /\ at + 1 - (j + 1) = i - j
      BY <1>1, <2>5
    <3> QED
      BY <1>3, <2>2, <3>1, <3>2, <3>3
  <2>6. CASE at = i + 1
    <3>1. ~ fits(i)
      BY <1>1, <2>3, <2>6
    <3>2. at + 1 # start + (j + 1) /\ at + 1 - (j + 1) = i - j + 1
      BY <1>1, <2>6
    <3>3. scan[Round(i - j + 1, 0, start)] = Least(HeldFrom(t, p, i - j + 1))
      <4>1. i - j + 1 \in 0 .. Len(t) /\ start <= i - j + 1 /\ i - j + 1 > i - j
        BY <1>1, <1>10
      <4> QED
        BY <1>4, <4>1
    <3> QED
      BY <1>3, <1>5, <2>2, <3>1, <3>2, <3>3
  <2> QED
    BY <2>3, <2>4, <2>5, <2>6
<1> QED
  BY <1>1, <1>6, <1>7, <1>8, <1>9, <1>10

(***************************************************************************)
(* So the loop finds the first place.                                      *)
(***************************************************************************)
Scanned(t, p, f) == f = [r \in Rounds(t, p) |-> ScanRound(t, p, f, r)]

LEMMA ScannedExists ==
  ASSUME NEW t, NEW p, Len(t) \in Nat, Len(p) \in Nat, Len(p) >= 2
  PROVE  \E f : Scanned(t, p, f)
<1> DEFINE f == [r \in Rounds(t, p) |-> Found(t, p, r)]
<1>1. \A q \in Rounds(t, p) : f[q] = Found(t, p, q)
  OBVIOUS
<1> HIDE DEF f
<1>2. ASSUME NEW r \in Rounds(t, p) PROVE ScanRound(t, p, f, r) = Found(t, p, r)
  BY <1>1, RoundFinds
<1>3. f = [r \in Rounds(t, p) |-> ScanRound(t, p, f, r)]
  BY <1>2 DEF f
<1> QED
  BY <1>3 DEF Scanned

LEMMA ScannedFinds ==
  ASSUME NEW t, NEW p, Len(t) \in Nat, Len(p) \in Nat, Len(p) >= 2, NEW f, Scanned(t, p, f)
  PROVE  \A r \in Rounds(t, p) : f[r] = Found(t, p, r)
<1> DEFINE Bad == {r \in Rounds(t, p) : f[r] # Found(t, p, r)}
           Room(r) == Len(t) - (r.i - r.j)
           Rooms == {Room(r) : r \in Bad}
<1> SUFFICES ASSUME Bad # {} PROVE FALSE
  OBVIOUS
<1>1. ASSUME NEW r \in Rounds(t, p)
      PROVE  r.i \in Int /\ r.j \in Int /\ Room(r) \in Nat /\ Gap(p, r) \in Nat
  <2>1. r.i \in 0 .. Len(t) /\ r.j \in 0 .. Len(p) - 1 /\ r.j <= r.i
    BY DEF Rounds, Positions
  <2> QED
    BY <2>1 DEF Gap
<1>2. PICK a \in Rooms : \A z \in Rooms : a <= z
  <2>1. Rooms \subseteq Nat /\ Rooms # {}
    BY <1>1
  <2> HIDE DEF Rooms
  <2> QED
    BY <2>1, LeastNatural
<1> DEFINE Gaps == {Gap(p, r) : r \in {x \in Bad : Room(x) = a}}
<1>3. PICK c \in Gaps : \A d \in Gaps : c <= d
  <2>1. Gaps \subseteq Nat /\ Gaps # {}
    BY <1>1, <1>2
  <2> HIDE DEF Gaps
  <2> QED
    BY <2>1, LeastNatural
<1>4. PICK r \in Bad : Room(r) = a /\ Gap(p, r) = c
  BY <1>3
<1>5. ASSUME NEW q \in Rounds(t, p), Later(p, q, r) PROVE f[q] = Found(t, p, q)
  <2> SUFFICES ASSUME q \in Bad PROVE FALSE
    OBVIOUS
  <2>1. Room(q) \in Rooms /\ a <= Room(q)
    BY <1>2
  <2>2. q.i - q.j = r.i - r.j /\ Gap(p, q) < Gap(p, r)
    <3>1. /\ q.i \in Int /\ q.j \in Int /\ r.i \in Int /\ r.j \in Int
          /\ Len(t) - (r.i - r.j) <= Len(t) - (q.i - q.j)
      BY <1>1, <1>4, <2>1
    <3> QED
      BY <1>5, <3>1 DEF Later
  <2>3. Gap(p, q) \in Gaps
    BY <1>4, <2>2
  <2>4. c <= Gap(p, q)
    BY <1>3, <2>3
  <2> QED
    BY <1>1, <1>4, <2>2, <2>4
<1>6. r \in Rounds(t, p) /\ f[r] # Found(t, p, r)
  BY <1>4
<1> HIDE DEF Bad
<1>7. ScanRound(t, p, f, r) = Found(t, p, r)
  BY <1>5, <1>6, RoundFinds
<1>8. f[r] = ScanRound(t, p, f, r)
  BY <1>6 DEF Scanned
<1> QED
  BY <1>6, <1>7, <1>8

LEMMA ScanIs ==
  ASSUME NEW t, NEW p, Len(t) \in Nat, Len(p) \in Nat, Len(p) >= 2, NEW pos \in 0 .. Len(t)
  PROVE  Scan(t, p, pos) = Least(HeldFrom(t, p, pos))
<1> DEFINE f == CHOOSE f : Scanned(t, p, f)
           r == Round(pos, 0, -1)
<1>1. Scanned(t, p, f)
  BY ScannedExists
<1>2. Scan(t, p, pos) = f[r]
  BY DEF Scan, Scanned
<1>3. r \in Rounds(t, p) /\ r.i = pos /\ r.j = 0 /\ r.start = -1
  BY RoundIs
<1> HIDE DEF f, r
<1>4. f[r] = Found(t, p, r)
  BY <1>1, <1>3, ScannedFinds
<1>5. Found(t, p, r) = Least(HeldFrom(t, p, pos))
  BY <1>3 DEF Found, Begun
<1> QED
  BY <1>2, <1>4, <1>5

(***************************************************************************)
(* The loops that try one place after the other.                           *)
(***************************************************************************)
TriesAhead(t, p, f) ==
  f = [i \in Places(t, p) |->
         IF HeldAt(t, p, i) THEN i ELSE IF i + 1 > Len(t) - Len(p) THEN ERR ELSE f[i + 1]]
TriesBack(t, p, f) ==
  f = [i \in Places(t, p) |-> IF HeldAt(t, p, i) THEN i ELSE IF i = 0 THEN ERR ELSE f[i - 1]]

LEMMA AheadRound ==
  ASSUME NEW t, NEW p, Len(t) \in Nat, Len(p) \in Nat, NEW f, NEW i \in Places(t, p),
         \A k \in Places(t, p) : k > i => f[k] = Least(HeldFrom(t, p, k))
  PROVE  (IF HeldAt(t, p, i) THEN i ELSE IF i + 1 > Len(t) - Len(p) THEN ERR ELSE f[i + 1])
           = Least(HeldFrom(t, p, i))
<1>1. CASE HeldAt(t, p, i)
  BY <1>1, HeldFromHere
<1>2. CASE ~ HeldAt(t, p, i)
  <2>1. HeldFrom(t, p, i) = HeldFrom(t, p, i + 1)
    BY <1>2, HeldFromNext DEF Places
  <2>2. CASE i + 1 > Len(t) - Len(p)
    <3>1. HeldFrom(t, p, i + 1) = {}
      BY <2>2 DEF HeldFrom, Places
    <3> QED
      BY <1>2, <2>1, <2>2, <3>1 DEF Least
  <2>3. CASE ~ (i + 1 > Len(t) - Len(p))
    <3>1. i + 1 \in Places(t, p) /\ i + 1 > i
      BY <2>3 DEF Places
    <3> QED
      BY <1>2, <2>1, <2>3, <3>1
  <2> QED
    BY <2>2, <2>3
<1> QED
  BY <1>1, <1>2

LEMMA AheadIs ==
  ASSUME NEW t, NEW p, Len(t) \in Nat, Len(p) \in Nat, NEW pos \in Places(t, p)
  PROVE  Ahead(t, p, pos) = Least(HeldFrom(t, p, pos))
<1>1. \E f : TriesAhead(t, p, f)
  <2> DEFINE f == [i \in Places(t, p) |-> Least(HeldFrom(t, p, i))]
  <2>1. \A k \in Places(t, p) : f[k] = Least(HeldFrom(t, p, k))
    OBVIOUS
  <2> HIDE DEF f
  <2>2. ASSUME NEW i \in Places(t, p)
        PROVE  (IF HeldAt(t, p, i) THEN i ELSE IF i + 1 > Len(t) - Len(p) THEN ERR ELSE f[i + 1])
                 = Least(HeldFrom(t, p, i))
    BY <2>1, AheadRound
  <2>3. TriesAhead(t, p, f)
    BY <2>2 DEF TriesAhead, f
  <2> QED
    BY <2>3
<1> DEFINE f == CHOOSE f : TriesAhead(t, p, f)
           Bad == {i \in Places(t, p) : f[i] # Least(HeldFrom(t, p, i))}
           Rooms == {Len(t) - i : i \in Bad}
<1>2. TriesAhead(t, p, f)
  BY <1>1
<1>3. Ahead(t, p, pos) = f[pos]
  BY DEF Ahead, TriesAhead
<1> HIDE DEF f
<1>4. ASSUME Bad # {} PROVE FALSE
  <2>1. Rooms \subseteq Nat /\ Rooms # {}
    BY <1>4 DEF Places
  <2> HIDE DEF Rooms
  <2>2. PICK a \in Rooms : \A z \in Rooms : a <= z
    BY <2>1, LeastNatural
  <2>3. PICK i \in Bad : a = Len(t) - i
    BY <2>2 DEF Rooms
  <2>4. ASSUME NEW k \in Places(t, p), k > i PROVE f[k] = Least(HeldFrom(t, p, k))
    <3> SUFFICES ASSUME k \in Bad PROVE FALSE
      OBVIOUS
    <3>1. a <= Len(t) - k
      BY <2>2 DEF Rooms
    <3> QED
      BY <2>3, <2>4, <3>1 DEF Places
  <2>5. i \in Places(t, p) /\ f[i] # Least(HeldFrom(t, p, i))
    BY <2>3
  <2> HIDE DEF Bad
  <2>6. f[i] = IF HeldAt(t, p, i) THEN i ELSE IF i + 1 > Len(t) - Len(p) THEN ERR ELSE f[i + 1]
    BY <1>2, <2>5 DEF TriesAhead
  <2>7. (IF HeldAt(t, p, i) THEN i ELSE IF i + 1 > Len(t) - Len(p) THEN ERR ELSE f[i + 1])
          = Least(HeldFrom(t, p, i))
    BY <2>4, <2>5, AheadRound
  <2> QED
    BY <2>5, <2>6, <2>7
<1> QED
  BY <1>3, <1>4

LEMMA BackRound ==
  ASSUME NEW t, NEW p, Len(t) \in Nat, Len(p) \in Nat, NEW f, NEW i \in Places(t, p),
         \A k \in Places(t, p) : k < i => f[k] = Greatest(HeldUpTo(t, p, k))
  PROVE  (IF HeldAt(t, p, i) THEN i ELSE IF i = 0 THEN ERR ELSE f[i - 1])
           = Greatest(HeldUpTo(t, p, i))
<1>1. CASE HeldAt(t, p, i)
  <2>1. HeldUpTo(t, p, i) \subseteq Int /\ i \in HeldUpTo(t, p, i)
    BY <1>1 DEF HeldUpTo, Places
  <2>2. \A m \in HeldUpTo(t, p, i) : i >= m
    BY DEF HeldUpTo, Places
  <2> QED
    BY <1>1, <2>1, <2>2, GreatestIs
<1>2. CASE ~ HeldAt(t, p, i)
  <2>1. ASSUME NEW s \in Places(t, p), HeldAt(t, p, s) PROVE s <= i <=> s <= i - 1
    <3>1. s # i /\ s \in Int /\ i \in Int
      BY <1>2, <2>1 DEF Places
    <3> QED
      BY <3>1
  <2>2. HeldUpTo(t, p, i) = HeldUpTo(t, p, i - 1)
    BY <2>1 DEF HeldUpTo
  <2>3. CASE i = 0
    <3>1. HeldUpTo(t, p, i - 1) = {}
      BY <2>3 DEF HeldUpTo, Places
    <3> QED
      BY <1>2, <2>2, <2>3, <3>1 DEF Greatest
  <2>4. CASE i # 0
    <3>1. i - 1 \in Places(t, p) /\ i - 1 < i
      BY <2>4 DEF Places
    <3> QED
      BY <1>2, <2>2, <2>4, <3>1
  <2> QED
    BY <2>3, <2>4
<1> QED
  BY <1>1, <1>2

LEMMA BackIs ==
  ASSUME NEW t, NEW p, Len(t) \in Nat, Len(p) \in Nat, NEW pos \in Places(t, p)
  PROVE  Back(t, p, pos) = Greatest(HeldUpTo(t, p, pos))
<1>1. \E f : TriesBack(t, p, f)
  <2> DEFINE f == [i \in Places(t, p) |-> Greatest(HeldUpTo(t, p, i))]
  <2>1. \A k \in Places(t, p) : f[k] = Greatest(HeldUpTo(t, p, k))
    OBVIOUS
  <2> HIDE DEF f
  <2>2. ASSUME NEW i \in Places(t, p)
        PROVE  (IF HeldAt(t, p, i) THEN i ELSE IF i = 0 THEN ERR ELSE f[i - 1])
                 = Greatest(HeldUpTo(t, p, i))
    BY <2>1, BackRound
  <2>3. TriesBack(t, p, f)
    BY <2>2 DEF TriesBack, f
  <2> QED
    BY <2>3
<1> DEFINE f == CHOOSE f : TriesBack(t, p, f)
           Bad == {i \in Places(t, p) : f[i] # Greatest(HeldUpTo(t, p, i))}
<1>2. TriesBack(t, p, f)
  BY <1>1
<1>3. Back(t, p, pos) = f[pos]
  BY DEF Back, TriesBack
<1> HIDE DEF f
<1>4. ASSUME Bad # {} PROVE FALSE
  <2>1. Bad \subseteq Nat
    BY DEF Places
  <2> HIDE DEF Bad
  <2>2. PICK i \in Bad : \A k \in Bad : i <= k
    BY <1>4, <2>1, LeastNatural
  <2>3. ASSUME NEW k \in Places(t, p), k < i PROVE f[k] = Greatest(HeldUpTo(t, p, k))
    <3> SUFFICES ASSUME k \in Bad PROVE FALSE
      BY DEF Bad
    <3> QED
      BY <2>1, <2>2, <2>3
  <2>4. i \in Places(t, p) /\ f[i] # Greatest(HeldUpTo(t, p, i))
    BY DEF Bad
  <2>5. f[i] = IF HeldAt(t, p, i) THEN i ELSE IF i = 0 THEN ERR ELSE f[i - 1]
    BY <1>2, <2>4 DEF TriesBack
  <2>6. (IF HeldAt(t, p, i) THEN i ELSE IF i = 0 THEN ERR ELSE f[i - 1])
          = Greatest(HeldUpTo(t, p, i))
    BY <2>3, <2>4, BackRound
  <2> QED
    BY <2>4, <2>5, <2>6
<1> QED
  BY <1>3, <1>4

(***************************************************************************)
(* The searches for a string.                                              *)
(***************************************************************************)
LEMMA OccursIs ==
  ASSUME NEW S, NEW t \in Seq(S), NEW p \in Seq(S)
  PROVE  Occurs(t, p) = {i \in Places(t, p) : HeldAt(t, p, i)}
<1> SUFFICES ASSUME NEW i \in Places(t, p)
             PROVE  SubSeq(t, i + 1, i + Len(p)) = p <=> HeldAt(t, p, i)
  BY DEF Occurs
<1>1. Len(t) \in Nat /\ Len(p) \in Nat /\ i \in 0 .. Len(t) - Len(p)
  BY DEF Places
<1>2. i + 1 \in 1 .. Len(t) + 1 /\ i + Len(p) \in i .. Len(t)
  BY <1>1
<1> DEFINE u == SubSeq(t, i + 1, i + Len(p))
<1>3. /\ u \in Seq(S) /\ Len(u) = Len(p)
      /\ \A k \in 1 .. Len(p) : u[k] = t[i + k]
  <2>1. u \in Seq(S)
    BY <1>1
  <2>2. Len(u) = Len(p)
    BY <1>1
  <2>3. \A k \in 1 .. Len(p) : u[k] = t[i + k]
    BY <1>1
  <2> QED
    BY <2>1, <2>2, <2>3
<1> HIDE DEF u
<1>4. u = p <=> \A k \in 1 .. Len(p) : u[k] = p[k]
  BY <1>3, SeqEqual
<1>5. (\A k \in 1 .. Len(p) : u[k] = p[k]) <=> HeldAt(t, p, i)
  <2>1. ASSUME \A k \in 1 .. Len(p) : u[k] = p[k] PROVE HeldAt(t, p, i)
    <3> SUFFICES ASSUME NEW j \in 0 .. Len(p) - 1 PROVE p[j + 1] = t[(i + j) + 1]
      BY DEF HeldAt, Positions, At
    <3>1. j + 1 \in 1 .. Len(p) /\ i + (j + 1) = (i + j) + 1
      BY <1>1
    <3> QED
      BY <1>3, <2>1, <3>1
  <2>2. ASSUME HeldAt(t, p, i), NEW k \in 1 .. Len(p) PROVE u[k] = p[k]
    <3>1. k - 1 \in Positions(p) /\ (k - 1) + 1 = k /\ (i + (k - 1)) + 1 = i + k
      BY <1>1 DEF Positions
    <3>2. p[(k - 1) + 1] = t[(i + (k - 1)) + 1]
      BY <2>2, <3>1 DEF HeldAt, At
    <3> QED
      BY <1>3, <3>1, <3>2
  <2> QED
    BY <2>1, <2>2
<1> QED
  BY <1>4, <1>5 DEF u

(* The empty string occurs everywhere, and the nearest place is here.      *)
LEMMA EmptyFound ==
  ASSUME NEW S, NEW t \in Seq(S), NEW pos \in 0 .. Len(t)
  PROVE  /\ NextOf(Occurs(t, <<>>), pos, t) = pos
         /\ LastOf(Occurs(t, <<>>), pos, t) = pos
<1>1. <<>> \in Seq(S) /\ Len(<<>>) = 0 /\ Len(t) \in Nat
  OBVIOUS
<1>2. Occurs(t, <<>>) = 0 .. Len(t)
  <2>1. Occurs(t, <<>>) = {i \in Places(t, <<>>) : HeldAt(t, <<>>, i)}
    BY <1>1, OccursIs
  <2>2. Places(t, <<>>) = 0 .. Len(t)
    BY <1>1 DEF Places
  <2>3. \A i : HeldAt(t, <<>>, i)
    <3>1. Positions(<<>>) = {}
      BY <1>1 DEF Positions
    <3> QED
      BY <3>1 DEF HeldAt
  <2> QED
    BY <2>1, <2>2, <2>3
<1> DEFINE N == {i \in 0 .. Len(t) : i >= pos}
           L == {i \in 0 .. Len(t) : i <= pos}
<1>3. N \subseteq Int /\ L \subseteq Int /\ pos \in N /\ pos \in L
  OBVIOUS
<1>4. (\A m \in N : pos <= m) /\ \A m \in L : pos >= m
  OBVIOUS
<1> HIDE DEF N, L
<1>5. Least(N) = pos /\ Greatest(L) = pos
  BY <1>3, <1>4, LeastIs, GreatestIs
<1> QED
  BY <1>2, <1>5 DEF NextOf, LastOf, N, L

(* What a search from a place in t finds, by where p is held.              *)
LEMMA NextIs ==
  ASSUME NEW S, NEW t \in Seq(S), NEW p \in Seq(S), NEW pos \in 0 .. Len(t)
  PROVE  /\ NextOf(Occurs(t, p), pos, t) = Least(HeldFrom(t, p, pos))
         /\ LastOf(Occurs(t, p), pos, t) = Greatest(HeldUpTo(t, p, pos))
<1>1. {i \in Occurs(t, p) : i >= pos} = HeldFrom(t, p, pos)
  BY OccursIs DEF HeldFrom
<1>2. {i \in Occurs(t, p) : i <= pos} = HeldUpTo(t, p, pos)
  BY OccursIs DEF HeldUpTo
<1> QED
  BY <1>1, <1>2 DEF NextOf, LastOf

LEMMA NothingAhead ==
  ASSUME NEW S, NEW t \in Seq(S), NEW p \in Seq(S), NEW pos \in 0 .. Len(t),
         pos > Len(t) - Len(p)
  PROVE  NextOf(Occurs(t, p), pos, t) = ERR
<1>1. HeldFrom(t, p, pos) = {}
  BY DEF HeldFrom, Places
<1> QED
  BY <1>1, NextIs DEF Least

LEMMA ForwardFinds ==
  ASSUME NEW S, NEW t \in Seq(S), NEW p \in Seq(S), NEW pos \in Int
  PROVE  /\ NextOf(Occurs(t, p), pos, t) =
              IF pos = Len(t) THEN IF p = <<>> THEN pos ELSE ERR
              ELSE IF pos \notin Positions(t) THEN ERR
              ELSE IF p = <<>> THEN pos
              ELSE IF NoRoom(t, p, pos) THEN ERR ELSE Least(HeldFrom(t, p, pos))
         /\ pos \in Positions(t) /\ p # <<>> /\ ~ NoRoom(t, p, pos) =>
              pos \in Places(t, p) /\ pos \in 0 .. Len(t)
<1>0. Len(t) \in Nat /\ Len(p) \in Nat /\ (p # <<>> => Len(p) > 0)
  BY EmptySeq
<1>1. CASE pos = Len(t)
  <2>1. CASE p = <<>>
    BY <1>0, <1>1, <2>1, EmptyFound
  <2>2. CASE p # <<>>
    <3>1. pos \in 0 .. Len(t) /\ pos > Len(t) - Len(p)
      BY <1>0, <1>1, <2>2
    <3>2. NextOf(Occurs(t, p), pos, t) = ERR
      BY <3>1, NothingAhead
    <3>3. pos \notin Positions(t)
      BY <1>0, <1>1 DEF Positions
    <3> QED
      BY <1>1, <2>2, <3>2, <3>3
  <2> QED
    BY <2>1, <2>2
<1>2. CASE pos # Len(t) /\ pos \notin Positions(t)
  <2>1. pos \notin 0 .. Len(t)
    BY <1>0, <1>2 DEF Positions
  <2> QED
    BY <1>2, <2>1 DEF NextOf
<1>3. CASE pos # Len(t) /\ pos \in Positions(t)
  <2>0. pos \in 0 .. Len(t)
    BY <1>0, <1>3 DEF Positions
  <2>1. CASE p = <<>>
    BY <1>3, <2>0, <2>1, EmptyFound
  <2>2. CASE p # <<>> /\ NoRoom(t, p, pos)
    <3>1. pos > Len(t) - Len(p)
      BY <1>0, <2>0, <2>2 DEF NoRoom
    <3>2. NextOf(Occurs(t, p), pos, t) = ERR
      BY <2>0, <3>1, NothingAhead
    <3> QED
      BY <1>3, <2>2, <3>2
  <2>3. CASE p # <<>> /\ ~ NoRoom(t, p, pos)
    <3>1. pos \in Places(t, p)
      BY <1>0, <2>0, <2>3 DEF NoRoom, Places
    <3> QED
      BY <1>3, <2>0, <2>3, <3>1, NextIs
  <2> QED
    BY <2>1, <2>2, <2>3
<1> QED
  BY <1>1, <1>2, <1>3

LEMMA LastRoom ==
  ASSUME NEW t, NEW p, Len(t) \in Nat, Len(p) \in Nat, Len(p) <= Len(t), NEW pos \in 0 .. Len(t)
  PROVE  /\ Min({pos, Len(t) - Len(p)}) \in Places(t, p)
         /\ HeldUpTo(t, p, Min({pos, Len(t) - Len(p)})) = HeldUpTo(t, p, pos)
<1> DEFINE room == Len(t) - Len(p)
           from == Min({pos, room})
<1>1. from = IF pos <= room THEN pos ELSE room
  BY MinOfTwo
<1> HIDE DEF from
<1>2. from \in Places(t, p)
  BY <1>1 DEF Places
<1>3. HeldUpTo(t, p, from) = HeldUpTo(t, p, pos)
  BY <1>1 DEF HeldUpTo, Places
<1> QED
  BY <1>2, <1>3 DEF from

LEMMA BackwardFinds ==
  ASSUME NEW S, NEW t \in Seq(S), NEW p \in Seq(S), NEW pos \in Int
  PROVE  LastOf(Occurs(t, p), pos, t) =
           IF pos \notin 0 .. Len(t) THEN ERR
           ELSE IF p = <<>> THEN pos
           ELSE IF Len(p) > Len(t) THEN ERR
           ELSE Greatest(HeldUpTo(t, p, Min({pos, Len(t) - Len(p)})))
<1>0. Len(t) \in Nat /\ Len(p) \in Nat
  OBVIOUS
<1>1. CASE pos \notin 0 .. Len(t)
  BY <1>1 DEF LastOf
<1>2. CASE pos \in 0 .. Len(t) /\ p = <<>>
  BY <1>2, EmptyFound
<1>3. CASE pos \in 0 .. Len(t) /\ p # <<>> /\ Len(p) > Len(t)
  <2>1. HeldUpTo(t, p, pos) = {}
    BY <1>0, <1>3 DEF HeldUpTo, Places
  <2> QED
    BY <1>3, <2>1, NextIs DEF Greatest
<1>4. CASE pos \in 0 .. Len(t) /\ p # <<>> /\ ~ (Len(p) > Len(t))
  <2>1. Len(p) <= Len(t)
    BY <1>0, <1>4
  <2>2. HeldUpTo(t, p, Min({pos, Len(t) - Len(p)})) = HeldUpTo(t, p, pos)
    BY <1>0, <1>4, <2>1, LastRoom
  <2>3. LastOf(Occurs(t, p), pos, t) = Greatest(HeldUpTo(t, p, pos))
    BY <1>4, NextIs
  <2> QED
    BY <1>4, <2>2, <2>3
<1> QED
  BY <1>1, <1>2, <1>3, <1>4

LEMMA BinstrFinds ==
  ASSUME NEW S, NEW t \in Seq(S), NEW p \in Seq(S), NEW pos \in Int
  PROVE  /\ binstr(t, pos, p) = NextOf(Occurs(t, p), pos, t)
         /\ binstrr(t, pos, p) = LastOf(Occurs(t, p), pos, t)
<1>0. Len(t) \in Nat /\ Len(p) \in Nat
  OBVIOUS
<1> DEFINE search == IF Len(p) = 1 THEN Ahead(t, p, pos) ELSE Scan(t, p, pos)
           last == Min({pos, Len(t) - Len(p)})
<1>1. ASSUME pos \in Positions(t), p # <<>>, ~ NoRoom(t, p, pos)
      PROVE  search = Least(HeldFrom(t, p, pos))
  <2>1. pos \in Places(t, p) /\ pos \in 0 .. Len(t)
    BY <1>1, ForwardFinds
  <2>2. CASE Len(p) = 1
    BY <1>0, <2>1, <2>2, AheadIs
  <2>3. CASE Len(p) # 1
    <3>1. Len(p) # 0
      BY <1>1, EmptySeq
    <3>2. Len(p) >= 2
      <4>1. \A n \in Nat : n # 0 /\ n # 1 => n >= 2
        OBVIOUS
      <4> QED
        BY <1>0, <2>3, <3>1, <4>1
    <3> QED
      BY <1>0, <2>1, <2>3, <3>2, ScanIs
  <2> QED
    BY <2>2, <2>3
<1>2. binstr(t, pos, p) =
        IF pos = Len(t) THEN IF p = <<>> THEN pos ELSE ERR
        ELSE IF pos \notin Positions(t) THEN ERR
        ELSE IF p = <<>> THEN pos
        ELSE IF NoRoom(t, p, pos) THEN ERR ELSE search
  BY DEF binstr, Forward
<1>3. ASSUME pos \in 0 .. Len(t), ~ (Len(p) > Len(t))
      PROVE  Back(t, p, last) = Greatest(HeldUpTo(t, p, last))
  <2>1. Len(p) <= Len(t)
    BY <1>0, <1>3
  <2>2. last \in Places(t, p)
    BY <1>0, <1>3, <2>1, LastRoom
  <2> HIDE DEF last
  <2> QED
    BY <1>0, <2>2, BackIs
<1>4. binstrr(t, pos, p) =
        IF pos \notin 0 .. Len(t) THEN ERR
        ELSE IF p = <<>> THEN pos
        ELSE IF Len(p) > Len(t) THEN ERR ELSE Back(t, p, last)
  BY DEF binstrr, Backward
<1> HIDE DEF search, last
<1>5. binstr(t, pos, p) = NextOf(Occurs(t, p), pos, t)
  BY <1>1, <1>2, ForwardFinds
<1>6. binstrr(t, pos, p) = LastOf(Occurs(t, p), pos, t)
  <2>1. LastOf(Occurs(t, p), pos, t) =
          IF pos \notin 0 .. Len(t) THEN ERR
          ELSE IF p = <<>> THEN pos
          ELSE IF Len(p) > Len(t) THEN ERR ELSE Greatest(HeldUpTo(t, p, last))
    BY BackwardFinds DEF last
  <2> QED
    BY <1>3, <1>4, <2>1
<1> QED
  BY <1>5, <1>6

LEMMA LoweredIs ==
  ASSUME NEW t \in Seq(Int)
  PROVE  /\ Lowered(t) \in Seq(Int) /\ Len(Lowered(t)) = Len(t)
         /\ \A i \in Positions(t) : At(Lowered(t), i) = downcase(At(t, i))
         /\ Positions(Lowered(t)) = Positions(t)
         /\ Lowered(t) = <<>> <=> t = <<>>
<1>1. Len(t) \in Nat /\ DOMAIN t = 1 .. Len(t)
  OBVIOUS
<1>2. \A c \in Int : downcase(c) \in Int
  BY DEF downcase
<1>3. Lowered(t) \in [1 .. Len(t) -> Int]
  BY <1>1, <1>2 DEF Lowered
<1>4. Lowered(t) \in Seq(Int) /\ Len(Lowered(t)) = Len(t)
  BY <1>1, <1>3
<1>5. ASSUME NEW i \in Positions(t) PROVE At(Lowered(t), i) = downcase(At(t, i))
  <2>1. i + 1 \in DOMAIN t
    BY <1>1 DEF Positions
  <2> QED
    BY <2>1 DEF Lowered, At
<1>6. Lowered(t) = <<>> <=> t = <<>>
  BY <1>4, EmptySeq
<1> QED
  BY <1>4, <1>5, <1>6 DEF Positions

LEMMA BinstrcaselessFinds ==
  ASSUME NEW t \in Seq(Int), NEW p \in Seq(Int), NEW pos \in Int
  PROVE  /\ binstrcaseless(t, pos, p) = NextOf(Occurs(Lowered(t), Lowered(p)), pos, Lowered(t))
         /\ binstrrcaseless(t, pos, p) = LastOf(Occurs(Lowered(t), Lowered(p)), pos, Lowered(t))
<1> DEFINE lt == Lowered(t)
           lp == Lowered(p)
           last == Min({pos, Len(t) - Len(p)})
<1>1. /\ lt \in Seq(Int) /\ Len(lt) = Len(t) /\ Positions(lt) = Positions(t)
      /\ lp \in Seq(Int) /\ Len(lp) = Len(p) /\ (lp = <<>> <=> p = <<>>)
      /\ Len(t) \in Nat /\ Len(p) \in Nat
      /\ NoRoom(lt, lp, pos) <=> NoRoom(t, p, pos)
  BY LoweredIs DEF NoRoom
<1> HIDE DEF lt, lp
<1>2. ASSUME pos \in Positions(t), p # <<>>, ~ NoRoom(t, p, pos)
      PROVE  Ahead(lt, lp, pos) = Least(HeldFrom(lt, lp, pos))
  BY <1>1, <1>2, ForwardFinds, AheadIs
<1>3. binstrcaseless(t, pos, p) =
        IF pos = Len(t) THEN IF p = <<>> THEN pos ELSE ERR
        ELSE IF pos \notin Positions(t) THEN ERR
        ELSE IF p = <<>> THEN pos
        ELSE IF NoRoom(t, p, pos) THEN ERR ELSE Ahead(lt, lp, pos)
  BY DEF binstrcaseless, Forward, lt, lp
<1>4. ASSUME pos \in 0 .. Len(t), ~ (Len(p) > Len(t))
      PROVE  Back(lt, lp, last) = Greatest(HeldUpTo(lt, lp, last))
  <2>1. Len(lp) <= Len(lt) /\ pos \in 0 .. Len(lt) /\ Len(lt) \in Nat /\ Len(lp) \in Nat
    BY <1>1, <1>4
  <2>2. last = Min({pos, Len(lt) - Len(lp)})
    BY <1>1
  <2>3. last \in Places(lt, lp)
    BY <2>1, <2>2, LastRoom
  <2> HIDE DEF last
  <2> QED
    BY <2>1, <2>3, BackIs
<1>5. binstrrcaseless(t, pos, p) =
        IF pos \notin 0 .. Len(t) THEN ERR
        ELSE IF p = <<>> THEN pos
        ELSE IF Len(p) > Len(t) THEN ERR ELSE Back(lt, lp, last)
  BY DEF binstrrcaseless, Backward, lt, lp
<1> HIDE DEF last
<1>6. binstrcaseless(t, pos, p) = NextOf(Occurs(lt, lp), pos, lt)
  BY <1>1, <1>2, <1>3, ForwardFinds
<1>7. binstrrcaseless(t, pos, p) = LastOf(Occurs(lt, lp), pos, lt)
  <2>1. LastOf(Occurs(lt, lp), pos, lt) =
           IF pos \notin 0 .. Len(t) THEN ERR
           ELSE IF p = <<>> THEN pos
           ELSE IF Len(p) > Len(t) THEN ERR
           ELSE Greatest(HeldUpTo(lt, lp, last))
    <3>1. LastOf(Occurs(lt, lp), pos, lt) =
             IF pos \notin 0 .. Len(lt) THEN ERR
             ELSE IF lp = <<>> THEN pos
             ELSE IF Len(lp) > Len(lt) THEN ERR
             ELSE Greatest(HeldUpTo(lt, lp, Min({pos, Len(lt) - Len(lp)})))
      BY <1>1, BackwardFinds
    <3>2. last = Min({pos, Len(lt) - Len(lp)})
      BY <1>1 DEF last
    <3> QED
      BY <1>1, <3>1, <3>2
  <2> QED
    BY <1>4, <1>5, <2>1
<1> QED
  BY <1>6, <1>7 DEF lt, lp

(* For all texts and positions, the four searches for a string find its    *)
(* nearest occurrence, or none where there is none.                        *)
THEOREM SearchesForStrings ==
  \A t, p \in Seq(Int) : \A pos \in Int : StringsFound(t, pos, p)
<1> SUFFICES ASSUME NEW t \in Seq(Int), NEW p \in Seq(Int), NEW pos \in Int
             PROVE  StringsFound(t, pos, p)
  OBVIOUS
<1>1. Len(Lowered(t)) = Len(t)
  BY LoweredIs
<1>2. \A s : /\ NextOf(s, pos, Lowered(t)) = NextOf(s, pos, t)
              /\ LastOf(s, pos, Lowered(t)) = LastOf(s, pos, t)
  BY <1>1 DEF NextOf, LastOf
<1> QED
  BY <1>2, BinstrFinds, BinstrcaselessFinds DEF StringsFound

(***************************************************************************)
(* The searches for characters.  A character is its byte of the field and  *)
(* its bit of the byte.                                                    *)
(***************************************************************************)
LEMMA ByteIs ==
  ASSUME NEW a \in Byte, NEW c \in Byte
  PROVE  /\ a \div 8 \in 0 .. 31 /\ (a % 8) \in 0 .. 7
         /\ a \div 8 = c \div 8 /\ (a % 8) = (c % 8) => a = c
<1>1. /\ a \div 8 \in Int /\ (a % 8) \in 0 .. 7 /\ a = 8 * (a \div 8) + (a % 8)
      /\ c \div 8 \in Int /\ (c % 8) \in 0 .. 7 /\ c = 8 * (c \div 8) + (c % 8)
  BY DEF Byte
<1> DEFINE x == a \div 8
           y == c \div 8
<1> HIDE DEF x, y
<1>2. /\ x \in Int /\ a = 8 * x + (a % 8) /\ y \in Int /\ c = 8 * y + (c % 8)
  BY <1>1 DEF x, y
<1>3. x \in 0 .. 31
  BY <1>1, <1>2 DEF Byte
<1>4. x = y /\ (a % 8) = (c % 8) => a = c
  BY <1>1, <1>2
<1> QED
  BY <1>1, <1>3, <1>4 DEF x, y

LEMMA AtIs ==
  ASSUME NEW S, NEW t \in Seq(S), NEW i \in Positions(t)
  PROVE  At(t, i) \in S
<1>1. i + 1 \in DOMAIN t
  BY DEF Positions
<1> QED
  BY <1>1 DEF At

Among(p, c) == \E j \in Positions(p) : c = At(p, j)

LEMMA FieldIs ==
  ASSUME NEW p \in Seq(Byte), NEW c \in Byte
  PROVE  /\ testInCharField(buildCharField(p), c) <=> Among(p, c)
         /\ testInCharField(invertCharField(buildCharField(p)), c) <=> ~ Among(p, c)
<1> DEFINE at == c \div 8
           bit == c % 8
           bits == {At(p, i) % 8 : i \in {k \in Positions(p) : At(p, k) \div 8 = at}}
<1>1. at \in 0 .. 31 /\ bit \in 0 .. 7
  BY ByteIs
<1>2. buildCharField(p)[at] = bits
  BY <1>1 DEF buildCharField
<1>3. invertCharField(buildCharField(p))[at] = (0 .. 7) \ bits
  BY <1>1, <1>2 DEF invertCharField
<1>4. bit \in bits <=> Among(p, c)
  <2>1. ASSUME bit \in bits PROVE Among(p, c)
    <3>1. PICK i \in Positions(p) : At(p, i) \div 8 = at /\ bit = (At(p, i) % 8)
      BY <2>1
    <3>2. At(p, i) \in Byte
      BY AtIs
    <3>3. At(p, i) = c
      BY <3>1, <3>2, ByteIs
    <3> QED
      BY <3>3 DEF Among
  <2>2. ASSUME Among(p, c) PROVE bit \in bits
    <3>1. PICK j \in Positions(p) : c = At(p, j)
      BY <2>2 DEF Among
    <3> QED
      BY <3>1
  <2> QED
    BY <2>1, <2>2
<1> HIDE DEF at, bit, bits
<1>5. \A f : testInCharField(f, c) <=> bit \in f[at]
  BY DEF testInCharField, at, bit
<1> QED
  BY <1>1, <1>2, <1>3, <1>4, <1>5

Members(t, p) == {i \in Positions(t) : Among(p, At(t, i))}
Others(t, p) == Positions(t) \ Members(t, p)

LEMMA FieldFinds ==
  ASSUME NEW t \in Seq(Byte), NEW p \in Seq(Byte), NEW pos \in Positions(t)
  PROVE  /\ binchrCF(t, pos, buildCharField(p)) = NextOf(Members(t, p), pos, t)
         /\ binchrrCF(t, pos, buildCharField(p)) = LastOf(Members(t, p), pos, t)
         /\ binchrCF(t, pos, invertCharField(buildCharField(p))) = NextOf(Others(t, p), pos, t)
         /\ binchrrCF(t, pos, invertCharField(buildCharField(p))) = LastOf(Others(t, p), pos, t)
<1> DEFINE yes(i) == testInCharField(buildCharField(p), At(t, i))
           no(i) == testInCharField(invertCharField(buildCharField(p)), At(t, i))
<1>1. \A i \in Positions(t) : /\ yes(i) <=> i \in Members(t, p)
                              /\ no(i) <=> i \in Others(t, p)
  BY AtIs, FieldIs DEF Members, Others
<1>2. pos \in 0 .. Len(t) /\ Len(t) \in Nat
  BY DEF Positions
<1>3. Members(t, p) \subseteq Positions(t) /\ Others(t, p) \subseteq Positions(t)
  BY DEF Members, Others
<1> HIDE DEF yes, no
<1>4. /\ {i \in pos .. Len(t) - 1 : yes(i)} = {i \in Members(t, p) : i >= pos}
      /\ {i \in pos .. Len(t) - 1 : no(i)} = {i \in Others(t, p) : i >= pos}
  BY <1>1, <1>2, <1>3 DEF Positions
<1>5. /\ {i \in 0 .. pos : yes(i)} = {i \in Members(t, p) : i <= pos}
      /\ {i \in 0 .. pos : no(i)} = {i \in Others(t, p) : i <= pos}
  BY <1>1, <1>2, <1>3 DEF Positions
<1> QED
  BY <1>2, <1>4, <1>5 DEF binchrCF, binchrrCF, NextOf, LastOf, yes, no

LEMMA OneFinds ==
  ASSUME NEW t \in Seq(Byte), NEW p \in Seq(Byte), Len(p) = 1, NEW pos \in Positions(t)
  PROVE  /\ bstrchrp(t, At(p, 0), pos) = NextOf(Members(t, p), pos, t)
         /\ bstrrchrp(t, At(p, 0), pos) = LastOf(Members(t, p), pos, t)
<1>1. \A c : Among(p, c) <=> c = At(p, 0)
  BY DEF Among, Positions
<1>2. pos \in 0 .. Len(t) /\ Len(t) \in Nat
  BY DEF Positions
<1>3. {i \in pos .. Len(t) - 1 : At(t, i) = At(p, 0)} = {i \in Members(t, p) : i >= pos}
  BY <1>1, <1>2 DEF Members, Positions
<1>4. {i \in 0 .. pos : At(t, i) = At(p, 0)} = {i \in Members(t, p) : i <= pos}
  BY <1>1, <1>2 DEF Members, Positions
<1> QED
  BY <1>2, <1>3, <1>4 DEF bstrchrp, bstrrchrp, NextOf, LastOf

(* There is nothing behind the end of t, and from there on backwards as    *)
(* much as from its last position.                                         *)
LEMMA AtTheEnd ==
  ASSUME NEW S, NEW t \in Seq(S), NEW s \in SUBSET Positions(t), NEW pos \in Int
  PROVE  /\ pos \notin Positions(t) => NextOf(s, pos, t) = ERR
         /\ pos \notin 0 .. Len(t) => LastOf(s, pos, t) = ERR
         /\ pos \in 0 .. Len(t) =>
              \/ LastIn(t, pos) \in Positions(t) /\ LastOf(s, pos, t) = LastOf(s, LastIn(t, pos), t)
              \/ t = <<>>
<1>0. Len(t) \in Nat /\ s \subseteq Positions(t) /\ (Len(t) = 0 => t = <<>>)
  BY EmptySeq
<1>1. ASSUME pos \notin Positions(t) PROVE NextOf(s, pos, t) = ERR
  <2>1. CASE pos \in 0 .. Len(t)
    <3>0. pos = Len(t)
      BY <1>0, <1>1, <2>1 DEF Positions
    <3>1. {i \in s : i >= pos} = {}
      <4>1. \A i \in s : ~ (i >= pos)
        BY <1>0, <3>0 DEF Positions
      <4> QED
        BY <4>1
    <3> QED
      BY <2>1, <3>1 DEF NextOf, Least
  <2>2. CASE pos \notin 0 .. Len(t)
    BY <2>2 DEF NextOf
  <2> QED
    BY <2>1, <2>2
<1>2. ASSUME pos \notin 0 .. Len(t) PROVE LastOf(s, pos, t) = ERR
  BY <1>2 DEF LastOf
<1>3. ASSUME pos \in 0 .. Len(t), t # <<>>
      PROVE  LastIn(t, pos) \in Positions(t) /\ LastOf(s, pos, t) = LastOf(s, LastIn(t, pos), t)
  <2>1. LastIn(t, pos) \in Positions(t) /\ LastIn(t, pos) \in 0 .. Len(t)
    BY <1>0, <1>3 DEF LastIn, Positions
  <2>2. {i \in s : i <= pos} = {i \in s : i <= LastIn(t, pos)}
    <3>1. \A i \in s : i <= pos <=> i <= LastIn(t, pos)
      BY <1>0, <1>3 DEF LastIn, Positions
    <3> QED
      BY <3>1
  <2> QED
    BY <1>3, <2>1, <2>2 DEF LastOf
<1> QED
  BY <1>1, <1>2, <1>3

(* For all texts of bytes and positions, the four searches for a set of    *)
(* characters, by its 32 bytes of bits, find the nearest one that is in it *)
(* or is not in it.                                                        *)
THEOREM SearchesForCharacters ==
  \A t, p \in Seq(Byte) : \A pos \in Int : CharactersFound(t, pos, p)
<1> SUFFICES ASSUME NEW t \in Seq(Byte), NEW p \in Seq(Byte), NEW pos \in Int
             PROVE  CharactersFound(t, pos, p)
  OBVIOUS
<1> DEFINE M == Members(t, p)
           O == Others(t, p)
<1>1. M \in SUBSET Positions(t) /\ O \in SUBSET Positions(t)
  BY DEF Members, Others
<1>2. CharactersFound(t, pos, p) <=>
        /\ binchr(t, pos, p) = NextOf(M, pos, t)
        /\ binchrr(t, pos, p) = LastOf(M, pos, t)
        /\ p # <<>> => bninchr(t, pos, p) = NextOf(O, pos, t)
        /\ p # <<>> => bninchrr(t, pos, p) = LastOf(O, pos, t)
  BY DEF CharactersFound, Members, Others, Among
<1>3. CASE p = <<>>
  <2>1. M = {}
    <3>1. Positions(p) = {}
      BY <1>3 DEF Positions
    <3> QED
      BY <3>1 DEF Members, Among
  <2>2. NextOf(M, pos, t) = ERR /\ LastOf(M, pos, t) = ERR
    BY <2>1 DEF NextOf, LastOf, Least, Greatest
  <2> QED
    BY <1>2, <1>3, <2>2 DEF binchr, binchrr
<1> HIDE DEF M, O
<1>4. CASE p # <<>>
  <2>1. binchr(t, pos, p) = NextOf(M, pos, t) /\ bninchr(t, pos, p) = NextOf(O, pos, t)
    <3>1. CASE pos \notin Positions(t)
      BY <1>1, <3>1, AtTheEnd DEF binchr, bninchr
    <3>2. CASE pos \in Positions(t)
      BY <1>4, <3>2, FieldFinds, OneFinds DEF binchr, bninchr, M, O
    <3> QED
      BY <3>1, <3>2
  <2>2. binchrr(t, pos, p) = LastOf(M, pos, t) /\ bninchrr(t, pos, p) = LastOf(O, pos, t)
    <3>1. CASE pos \notin 0 .. Len(t)
      BY <1>1, <3>1, AtTheEnd DEF binchrr, bninchrr
    <3>2. CASE pos \in 0 .. Len(t) /\ LastIn(t, pos) \in Positions(t)
      <4> DEFINE from == LastIn(t, pos)
      <4>1. LastOf(M, pos, t) = LastOf(M, from, t) /\ LastOf(O, pos, t) = LastOf(O, from, t)
        <5>1. t # <<>>
          BY <3>2 DEF Positions
        <5> QED
          BY <1>1, <3>2, <5>1, AtTheEnd
      <4>2. binchrr(t, pos, p) =
              IF Len(p) = 1 THEN bstrrchrp(t, At(p, 0), from)
              ELSE binchrrCF(t, from, buildCharField(p))
        BY <1>4, <3>2 DEF binchrr
      <4>3. bninchrr(t, pos, p) = binchrrCF(t, from, invertCharField(buildCharField(p)))
        BY <1>4, <3>2 DEF bninchrr
      <4>4. from \in Positions(t)
        BY <3>2
      <4> HIDE DEF from
      <4> QED
        BY <4>1, <4>2, <4>3, <4>4, FieldFinds, OneFinds DEF M, O
    <3>3. CASE pos \in 0 .. Len(t) /\ LastIn(t, pos) \notin Positions(t)
      <4>1. t = <<>>
        BY <1>1, <3>3, AtTheEnd
      <4>2. /\ Positions(t) = {} /\ pos = 0 /\ Len(t) = 0 /\ LastIn(t, pos) = -1
            /\ 0 .. LastIn(t, pos) = {}
        BY <3>3, <4>1 DEF Positions, LastIn
      <4>3. LastOf(M, pos, t) = ERR /\ LastOf(O, pos, t) = ERR
        <5>1. M = {} /\ O = {}
          BY <1>1, <4>2
        <5> QED
          BY <5>1 DEF LastOf, Greatest
      <4>4. /\ \A c : bstrrchrp(t, c, LastIn(t, pos)) = ERR
            /\ \A f : binchrrCF(t, LastIn(t, pos), f) = ERR
        <5>1. \A f : {i \in 0 .. LastIn(t, pos) : testInCharField(f, At(t, i))} = {}
          BY <4>2
        <5> QED
          BY <3>3, <5>1 DEF bstrrchrp, binchrrCF, Greatest
      <4> QED
        BY <1>4, <3>3, <4>3, <4>4 DEF binchrr, bninchrr
    <3> QED
      BY <3>1, <3>2, <3>3
  <2> QED
    BY <1>2, <2>1, <2>2
<1> QED
  BY <1>3, <1>4

(***************************************************************************)
(* The comparisons.                                                        *)
(***************************************************************************)
LEMMA CommonIs ==
  ASSUME NEW t, NEW p, Len(t) \in Nat, Len(p) \in Nat
  PROVE  /\ Common(t, p) \in Nat /\ Common(t, p) <= Len(t) /\ Common(t, p) <= Len(p)
         /\ Common(t, p) = Len(t) \/ Common(t, p) = Len(p)
         /\ Common(p, t) = Common(t, p)
BY MinOfTwo DEF Common

LEMMA SameText ==
  ASSUME NEW S, NEW t \in Seq(S), NEW p \in Seq(S)
  PROVE  t = p <=> Len(t) = Len(p) /\ \A i \in Positions(t) : At(t, i) = At(p, i)
<1>1. ASSUME Len(t) = Len(p), \A i \in Positions(t) : At(t, i) = At(p, i) PROVE t = p
  <2>1. ASSUME NEW k \in 1 .. Len(t) PROVE t[k] = p[k]
    <3>1. k - 1 \in Positions(t) /\ (k - 1) + 1 = k
      BY DEF Positions
    <3>2. t[(k - 1) + 1] = p[(k - 1) + 1]
      BY <1>1, <3>1 DEF At
    <3> QED
      BY <3>1, <3>2
  <2> QED
    BY <1>1, <2>1, SeqEqual
<1> QED
  BY <1>1

LEMMA LeftIs ==
  ASSUME NEW S, NEW t \in Seq(S), NEW n \in Nat
  PROVE  /\ Left(t, n) \in Seq(S)
         /\ Len(Left(t, n)) = IF n < Len(t) THEN n ELSE Len(t)
         /\ \A i \in Positions(Left(t, n)) : At(Left(t, n), i) = At(t, i)
<1> DEFINE k == IF n < Len(t) THEN n ELSE Len(t)
           u == SubSeq(t, 1, k)
<1>1. k \in 0 .. Len(t)
  OBVIOUS
<1> HIDE DEF k
<1>2. u \in Seq(S) /\ Len(u) = k /\ \A i \in 1 .. k : u[i] = t[i]
  BY <1>1
<1>3. \A i \in Positions(u) : i + 1 \in 1 .. k
  BY <1>1, <1>2 DEF Positions
<1>4. \A i \in Positions(u) : At(u, i) = At(t, i)
  BY <1>2, <1>3 DEF At
<1> QED
  BY <1>2, <1>4 DEF Left, k

LEMMA SignedIs ==
  ASSUME NEW a \in Byte, NEW c \in Byte
  PROVE  /\ Signed(a) \in Int /\ (Signed(a) = Signed(c) <=> a = c) /\ (Signed(a) = 0 <=> a = 0)
         /\ downcase(a) \in Byte /\ (downcase(a) = 0 <=> a = 0)
BY DEF Signed, downcase, Byte

LEMMA BytesAreInts ==
  ASSUME NEW t \in Seq(Byte)
  PROVE  t \in Seq(Int)
<1>1. t \in [1 .. Len(t) -> Byte] /\ Len(t) \in Nat
  OBVIOUS
<1>2. Byte \subseteq Int
  BY DEF Byte
<1>3. t \in [1 .. Len(t) -> Int]
  BY <1>1, <1>2
<1> QED
  BY <1>1, <1>3

LEMMA LoweredBytes ==
  ASSUME NEW t \in Seq(Byte)
  PROVE  /\ Lowered(t) \in Seq(Byte) /\ Len(Lowered(t)) = Len(t)
         /\ Positions(Lowered(t)) = Positions(t)
         /\ \A i \in Positions(t) : At(Lowered(t), i) = downcase(At(t, i))
<1>1. Len(t) \in Nat /\ DOMAIN t = 1 .. Len(t) /\ t \in Seq(Int)
  BY BytesAreInts
<1>2. \A c \in Byte : downcase(c) \in Byte
  BY SignedIs
<1>3. Lowered(t) \in [1 .. Len(t) -> Byte]
  BY <1>1, <1>2 DEF Lowered
<1>4. Lowered(t) \in Seq(Byte)
  BY <1>1, <1>3
<1> QED
  BY <1>1, <1>4, LoweredIs

(* Equality.                                                               *)
LEMMA EqualIs ==
  ASSUME NEW t \in Seq(Byte), NEW p \in Seq(Byte)
  PROVE  /\ biseq(t, p) <=> t = p
         /\ biseqcaseless(t, p) <=> Lowered(t) = Lowered(p)
<1>1. Len(t) = Len(p) => Positions(p) = Positions(t)
  BY DEF Positions
<1>2. biseq(t, p) <=> t = p
  BY <1>1, SameText DEF biseq, biseqblk
<1>3. Lowered(t) = Lowered(p) <=>
        Len(t) = Len(p) /\ \A i \in Positions(t) : downcase(At(t, i)) = downcase(At(p, i))
  <2>1. Lowered(t) = Lowered(p) <=>
          /\ Len(Lowered(t)) = Len(Lowered(p))
          /\ \A i \in Positions(Lowered(t)) : At(Lowered(t), i) = At(Lowered(p), i)
    BY LoweredBytes, SameText
  <2> QED
    BY <1>1, <2>1, LoweredBytes
<1>4. biseqcaseless(t, p) <=>
        Len(t) = Len(p) /\ \A i \in Positions(t) : downcase(At(t, i)) = downcase(At(p, i))
  BY <1>1 DEF biseqcaseless, biseqcaselessblk
<1> QED
  BY <1>2, <1>3, <1>4

LEMMA StemIs ==
  ASSUME NEW t \in Seq(Byte), NEW p \in Seq(Byte)
  PROVE  /\ bisstemeqblk(t, p) <=> Left(t, Len(p)) = p
         /\ bisstemeqcaselessblk(t, p) <=> Left(Lowered(t), Len(p)) = Lowered(p)
<1>0. Len(t) \in Nat /\ Len(p) \in Nat
  OBVIOUS
<1>1. ASSUME NEW s \in Seq(Byte), NEW q \in Seq(Byte), Len(q) = Len(p)
      PROVE  Left(s, Len(p)) = q <=>
               Len(s) >= Len(q) /\ \A i \in Positions(q) : At(s, i) = At(q, i)
  <2> DEFINE u == Left(s, Len(p))
  <2>1. /\ u \in Seq(Byte) /\ Len(u) = IF Len(p) < Len(s) THEN Len(p) ELSE Len(s)
        /\ \A i \in Positions(u) : At(u, i) = At(s, i)
    BY <1>0, LeftIs
  <2> HIDE DEF u
  <2>2. u = q <=> Len(u) = Len(q) /\ \A i \in Positions(u) : At(u, i) = At(q, i)
    BY <2>1, SameText
  <2>3. Len(s) \in Nat /\ (Len(u) = Len(q) <=> Len(s) >= Len(q))
    BY <1>0, <1>1, <2>1
  <2>4. Len(u) = Len(q) => Positions(u) = Positions(q)
    BY DEF Positions
  <2> QED
    BY <2>1, <2>2, <2>3, <2>4 DEF u
<1>2. bisstemeqblk(t, p) <=> Left(t, Len(p)) = p
  BY <1>1 DEF bisstemeqblk
<1>3. Left(Lowered(t), Len(p)) = Lowered(p) <=>
        Len(t) >= Len(p) /\ \A i \in Positions(p) : At(Lowered(t), i) = At(Lowered(p), i)
  BY <1>1, LoweredBytes
<1>4. ASSUME Len(t) >= Len(p), NEW i \in Positions(p)
      PROVE  At(Lowered(t), i) = At(Lowered(p), i) <=> downcase(At(t, i)) = downcase(At(p, i))
  <2>1. i \in Positions(t)
    BY <1>0, <1>4 DEF Positions
  <2> QED
    BY <2>1, LoweredBytes
<1>5. bisstemeqcaselessblk(t, p) <=> Left(Lowered(t), Len(p)) = Lowered(p)
  BY <1>3, <1>4 DEF bisstemeqcaselessblk
<1> QED
  BY <1>2, <1>5

(* A char * has no NUL.                                                    *)
LEMMA CstrIs ==
  ASSUME NEW p \in Seq(Byte)
  PROVE  /\ cstr(p) \in Seq(Byte)
         /\ \A i \in Positions(cstr(p)) : At(cstr(p), i) # NUL
         /\ (\A i \in Positions(p) : At(p, i) # NUL) => cstr(p) = p
<1> DEFINE S == {i \in Positions(p) : At(p, i) = NUL}
           stop == Least(S)
<1>1. S \subseteq Nat /\ Len(p) \in Nat
  BY DEF Positions
<1>2. cstr(p) = IF stop = ERR THEN p ELSE Left(p, stop)
  BY DEF cstr
<1>3. CASE S = {}
  <2>1. cstr(p) = p
    BY <1>1, <1>2, <1>3, LeastFound
  <2> QED
    BY <1>3, <2>1
<1>4. CASE S # {}
  <2> HIDE DEF S
  <2>1. stop \in S /\ stop # ERR /\ \A m \in S : stop <= m
    BY <1>1, <1>4, LeastFound
  <2>2. stop \in Nat /\ stop < Len(p) /\ At(p, stop) = NUL /\ stop \in Positions(p)
    BY <1>1, <2>1 DEF S, Positions
  <2> HIDE DEF stop
  <2> DEFINE u == Left(p, stop)
  <2>3. u \in Seq(Byte) /\ Len(u) = stop /\ \A i \in Positions(u) : At(u, i) = At(p, i)
    BY <2>2, LeftIs
  <2>4. cstr(p) = u
    BY <1>2, <2>1
  <2> HIDE DEF u
  <2>5. ASSUME NEW i \in Positions(u) PROVE At(u, i) # NUL
    <3>1. i \in Positions(p) /\ i \in Nat /\ i < stop
      BY <1>1, <2>2, <2>3 DEF Positions
    <3> SUFFICES ASSUME At(u, i) = NUL PROVE FALSE
      OBVIOUS
    <3>2. i \in S
      BY <2>3, <3>1 DEF S
    <3> QED
      BY <2>1, <2>2, <3>1, <3>2
  <2> QED
    BY <2>2, <2>3, <2>4, <2>5
<1> QED
  BY <1>3, <1>4

LEMMA CstrEqualIs ==
  ASSUME NEW t \in Seq(Byte), NEW s \in Seq(Byte), \A i \in Positions(s) : At(s, i) # NUL
  PROVE  /\ biseqcstr(t, s) <=> t = s
         /\ biseqcstrcaseless(t, s) <=> Lowered(t) = Lowered(s)
<1>0. Len(t) \in Nat /\ Len(s) \in Nat
  OBVIOUS
<1>1. \A i \in Nat : CharAt(s, i) # NUL <=> i < Len(s)
  BY <1>0 DEF CharAt, Positions
<1>2. (\A i \in Positions(t) : CharAt(s, i) # NUL) /\ CharAt(s, Len(t)) = NUL <=> Len(t) = Len(s)
  <2>1. ASSUME \A i \in Positions(t) : CharAt(s, i) # NUL, CharAt(s, Len(t)) = NUL
        PROVE  Len(t) = Len(s)
    <3>1. ~ (Len(t) < Len(s))
      BY <1>0, <1>1, <2>1
    <3>2. ~ (Len(s) < Len(t))
      <4> SUFFICES ASSUME Len(s) < Len(t) PROVE FALSE
        OBVIOUS
      <4>1. Len(s) \in Positions(t)
        BY <1>0 DEF Positions
      <4> QED
        BY <1>0, <1>1, <2>1, <4>1
    <3> QED
      BY <1>0, <3>1, <3>2
  <2>2. ASSUME Len(t) = Len(s)
        PROVE  (\A i \in Positions(t) : CharAt(s, i) # NUL) /\ CharAt(s, Len(t)) = NUL
    BY <1>0, <1>1, <2>2 DEF Positions
  <2> QED
    BY <2>1, <2>2
<1>3. ASSUME Len(t) = Len(s), NEW i \in Positions(t) PROVE CharAt(s, i) = At(s, i)
  BY <1>0, <1>3 DEF CharAt, Positions
<1>4. biseqcstr(t, s) <=> biseq(t, s)
  <2>1. Len(t) = Len(s) => Positions(s) = Positions(t)
    BY DEF Positions
  <2> QED
    BY <1>2, <1>3, <2>1 DEF biseqcstr, biseq, biseqblk
<1>5. biseqcstrcaseless(t, s) <=> biseqcaseless(t, s)
  <2>1. Len(t) = Len(s) => Positions(s) = Positions(t)
    BY DEF Positions
  <2> QED
    BY <1>2, <1>3, <2>1 DEF biseqcstrcaseless, biseqcaseless, biseqcaselessblk
<1> QED
  BY <1>4, <1>5, EqualIs

(***************************************************************************)
(* Orders.  Which of two texts is below is decided at the first place      *)
(* where they differ or one of them ends.                                  *)
(***************************************************************************)
FirstDifference(t, p, d) ==
  /\ d \in 0 .. Common(t, p)
  /\ \A i \in 0 .. d - 1 : At(t, i) = At(p, i)
  /\ d = Common(t, p) \/ At(t, d) # At(p, d)

LEMMA BelowAt ==
  ASSUME NEW t \in Seq(Byte), NEW p \in Seq(Byte), NEW d, FirstDifference(t, p, d)
  PROVE  Below(t, p) <=> d < Len(p) /\ (d < Len(t) => Signed(At(t, d)) < Signed(At(p, d)))
<1>0. /\ Len(t) \in Nat /\ Len(p) \in Nat /\ Common(t, p) \in Nat /\ d \in 0 .. Common(t, p)
      /\ Common(t, p) <= Len(t) /\ Common(t, p) <= Len(p)
  BY CommonIs DEF FirstDifference
<1>1. ASSUME NEW n \in 0 .. Common(t, p)
      PROVE  Left(t, n) = Left(p, n) <=> \A i \in 0 .. n - 1 : At(t, i) = At(p, i)
  <2> DEFINE u == Left(t, n)
             v == Left(p, n)
  <2>1. /\ u \in Seq(Byte) /\ Len(u) = n /\ \A i \in Positions(u) : At(u, i) = At(t, i)
        /\ v \in Seq(Byte) /\ Len(v) = n /\ \A i \in Positions(v) : At(v, i) = At(p, i)
    BY <1>0, LeftIs
  <2> HIDE DEF u, v
  <2>2. Positions(u) = 0 .. n - 1 /\ Positions(v) = 0 .. n - 1
    BY <2>1 DEF Positions
  <2>3. u = v <=> \A i \in 0 .. n - 1 : At(u, i) = At(v, i)
    BY <2>1, <2>2, SameText
  <2> QED
    BY <2>1, <2>2, <2>3 DEF u, v
<1>2. ASSUME Below(t, p)
      PROVE  d < Len(p) /\ (d < Len(t) => Signed(At(t, d)) < Signed(At(p, d)))
  <2>1. PICK n \in 0 .. Common(t, p) :
          /\ \A i \in 0 .. n - 1 : At(t, i) = At(p, i)
          /\ n < Len(p) /\ (n < Len(t) => Signed(At(t, n)) < Signed(At(p, n)))
    BY <1>1, <1>2 DEF Below
  <2>2. ~ (d < n)
    BY <1>0, <2>1 DEF FirstDifference
  <2>3. ~ (n < d)
    <3> SUFFICES ASSUME n < d PROVE FALSE
      OBVIOUS
    <3>1. n \in 0 .. d - 1 /\ n < Len(t) /\ n \in Positions(t)
      BY <1>0, <2>1 DEF Positions
    <3>2. At(t, n) = At(p, n) /\ At(t, n) \in Byte
      BY <3>1, AtIs DEF FirstDifference
    <3>3. Signed(At(t, n)) \in Int
      BY <3>2, SignedIs
    <3> QED
      BY <2>1, <3>1, <3>2, <3>3
  <2>4. n = d
    BY <1>0, <2>2, <2>3
  <2> QED
    BY <2>1, <2>4
<1>3. ASSUME d < Len(p), d < Len(t) => Signed(At(t, d)) < Signed(At(p, d))
      PROVE  Below(t, p)
  <2>1. Left(t, d) = Left(p, d)
    BY <1>0, <1>1 DEF FirstDifference
  <2> QED
    BY <1>0, <1>3, <2>1 DEF Below
<1> QED
  BY <1>2, <1>3

LEMMA FirstDifferenceTurned ==
  ASSUME NEW t \in Seq(Byte), NEW p \in Seq(Byte), NEW d, FirstDifference(t, p, d)
  PROVE  FirstDifference(p, t, d)
<1>1. Common(p, t) = Common(t, p)
  BY CommonIs
<1> QED
  BY <1>1 DEF FirstDifference

(* What a NUL leaves of a text.                                            *)
LEMMA UpToNulIs ==
  ASSUME NEW t \in Seq(Byte)
  PROVE  /\ UpToNul(t) \in Seq(Byte) /\ Len(UpToNul(t)) <= Len(t)
         /\ \A i \in Positions(UpToNul(t)) : At(UpToNul(t), i) = At(t, i)
         /\ \A k \in 0 .. Len(t) : (\A i \in 0 .. k - 1 : At(t, i) # NUL) =>
              /\ Len(UpToNul(t)) >= k
              /\ k < Len(t) => Len(UpToNul(t)) > k
              /\ k < Len(t) /\ At(t, k) = NUL => Len(UpToNul(t)) = k + 1
<1> DEFINE S == {i \in Positions(t) : At(t, i) = NUL}
           stop == Least(S)
           u == UpToNul(t)
<1>1. S \subseteq Nat /\ Len(t) \in Nat
  BY DEF Positions
<1>2. u = IF stop = ERR THEN t ELSE Left(t, stop + 1)
  BY DEF UpToNul
<1>3. CASE S = {}
  <2>1. u = t
    BY <1>1, <1>2, <1>3, LeastFound
  <2>2. \A k \in 0 .. Len(t) : ~ (k < Len(t) /\ At(t, k) = NUL)
    BY <1>1, <1>3 DEF Positions
  <2> HIDE DEF u, S
  <2> QED
    BY <1>1, <2>1, <2>2 DEF u
<1>4. CASE S # {}
  <2> HIDE DEF S, u
  <2>1. stop \in S /\ stop # ERR /\ \A m \in S : stop <= m
    BY <1>1, <1>4, LeastFound
  <2>2. stop \in Nat /\ stop < Len(t) /\ At(t, stop) = NUL
    BY <1>1, <2>1 DEF S, Positions
  <2> HIDE DEF stop
  <2>3. stop + 1 \in Nat
    BY <2>2
  <2>4. /\ u \in Seq(Byte) /\ Len(u) = stop + 1
        /\ \A i \in Positions(u) : At(u, i) = At(t, i)
    <3>1. /\ Left(t, stop + 1) \in Seq(Byte)
          /\ Len(Left(t, stop + 1)) = IF stop + 1 < Len(t) THEN stop + 1 ELSE Len(t)
          /\ \A i \in Positions(Left(t, stop + 1)) : At(Left(t, stop + 1), i) = At(t, i)
      BY <2>3, LeftIs
    <3>2. u = Left(t, stop + 1)
      BY <1>2, <2>1
    <3> QED
      BY <1>1, <2>2, <3>1, <3>2
  <2>5. ASSUME NEW k \in 0 .. Len(t), \A i \in 0 .. k - 1 : At(t, i) # NUL
        PROVE  /\ Len(u) >= k
               /\ k < Len(t) => Len(u) > k
               /\ k < Len(t) /\ At(t, k) = NUL => Len(u) = k + 1
    <3>1. stop >= k
      BY <2>2, <2>5
    <3>2. ASSUME k < Len(t), At(t, k) = NUL PROVE stop <= k
      <4>1. k \in S
        BY <1>1, <3>2 DEF S, Positions
      <4> QED
        BY <2>1, <4>1
    <3> QED
      BY <1>1, <2>2, <2>4, <3>1, <3>2
  <2> QED
    BY <1>1, <2>2, <2>4, <2>5 DEF u
<1> QED
  BY <1>3, <1>4

LEMMA CmpOrders ==
  ASSUME NEW t \in Seq(Byte), NEW p \in Seq(Byte)
  PROVE  Ordered(bstrcmp(t, p), UpToNul(t), UpToNul(p))
<1> DEFINE n == Common(t, p)
           S == {i \in 0 .. n - 1 : At(t, i) # At(p, i) \/ At(t, i) = NUL}
           stop == Least(S)
           v == bstrcmp(t, p)
           u == UpToNul(t)
           w == UpToNul(p)
           By(c) == /\ Below(u, w) <=> c < Len(w) /\ (c < Len(u) => Signed(At(u, c)) < Signed(At(w, c)))
                    /\ Below(w, u) <=> c < Len(u) /\ (c < Len(w) => Signed(At(w, c)) < Signed(At(u, c)))
<1>0. /\ Len(t) \in Nat /\ Len(p) \in Nat /\ n \in Nat /\ n <= Len(t) /\ n <= Len(p)
      /\ n = Len(t) \/ n = Len(p)
  BY CommonIs
<1>1. v = IF stop # ERR THEN Signed(At(t, stop)) - Signed(At(p, stop))
          ELSE IF Len(t) > n THEN 1 ELSE IF Len(p) > n THEN -1 ELSE OK
  BY DEF bstrcmp
<1> HIDE DEF n, v, u, w
<1>2. /\ u \in Seq(Byte) /\ Len(u) <= Len(t) /\ Len(u) \in Nat
      /\ \A i \in Positions(u) : At(u, i) = At(t, i)
      /\ w \in Seq(Byte) /\ Len(w) <= Len(p) /\ Len(w) \in Nat
      /\ \A i \in Positions(w) : At(w, i) = At(p, i)
  BY UpToNulIs DEF u, w
<1>3. /\ Common(u, w) \in Nat /\ Common(u, w) <= Len(u) /\ Common(u, w) <= Len(w)
      /\ Common(u, w) = Len(u) \/ Common(u, w) = Len(w)
  BY <1>2, CommonIs
<1>4. ASSUME NEW c, FirstDifference(u, w, c) PROVE By(c)
  BY <1>2, <1>4, BelowAt, FirstDifferenceTurned
<1> HIDE DEF By
<1>5. CASE S = {}
  <2>1. stop = ERR
    BY <1>5, LeastFound
  <2>2. \A i \in 0 .. n - 1 : At(t, i) = At(p, i) /\ At(t, i) # NUL /\ At(p, i) # NUL
    BY <1>5
  <2>3. /\ Len(u) >= n /\ Len(w) >= n
        /\ n < Len(t) => Len(u) > n
        /\ n < Len(p) => Len(w) > n
    <3>1. n \in 0 .. Len(t) /\ n \in 0 .. Len(p)
      BY <1>0
    <3>2. (\A i \in 0 .. n - 1 : At(t, i) # NUL) /\ \A i \in 0 .. n - 1 : At(p, i) # NUL
      BY <2>2
    <3>3. Len(u) >= n /\ (n < Len(t) => Len(u) > n)
      BY <3>1, <3>2, UpToNulIs DEF u
    <3>4. Len(w) >= n /\ (n < Len(p) => Len(w) > n)
      BY <3>1, <3>2, UpToNulIs DEF w
    <3> QED
      BY <3>3, <3>4
  <2>4. FirstDifference(u, w, n)
    <3>1. Common(u, w) = n
      BY <1>0, <1>2, <1>3, <2>3
    <3>2. \A i \in 0 .. n - 1 : i \in Positions(u) /\ i \in Positions(w)
      BY <1>0, <1>2, <2>3 DEF Positions
    <3> QED
      BY <1>0, <1>2, <2>2, <3>1, <3>2 DEF FirstDifference
  <2>5. By(n)
    BY <1>4, <2>4
  <2>6. v = IF Len(t) > n THEN 1 ELSE IF Len(p) > n THEN -1 ELSE OK
    BY <1>1, <2>1
  <2>7. ~ (Len(u) > n /\ Len(w) > n) /\ (Len(u) > n <=> Len(t) > n) /\ (Len(w) > n <=> Len(p) > n)
    BY <1>0, <1>2, <2>3
  <2>8. (v < 0 <=> Len(w) > n) /\ (v > 0 <=> Len(u) > n)
    BY <1>0, <1>2, <2>6, <2>7 DEF OK
  <2>9. (Below(u, w) <=> Len(w) > n) /\ (Below(w, u) <=> Len(u) > n)
    <3>1. Below(u, w) <=> n < Len(w) /\ (n < Len(u) => Signed(At(u, n)) < Signed(At(w, n)))
      BY <2>5 DEF By
    <3>2. Below(w, u) <=> n < Len(u) /\ (n < Len(w) => Signed(At(w, n)) < Signed(At(u, n)))
      BY <2>5 DEF By
    <3>3. (Len(w) > n <=> n < Len(w)) /\ (Len(u) > n <=> n < Len(u))
      BY <1>0, <1>2
    <3> QED
      BY <2>7, <3>1, <3>2, <3>3
  <2> QED
    BY <2>8, <2>9 DEF Ordered, u, v, w
<1>6. CASE S # {}
  <2>1. stop \in S /\ stop # ERR /\ \A m \in S : stop <= m
    <3>1. S \subseteq Nat
      OBVIOUS
    <3> HIDE DEF S
    <3> QED
      BY <1>6, <3>1, LeastFound
  <2> HIDE DEF stop
  <2>2. /\ stop \in 0 .. n - 1 /\ stop < Len(t) /\ stop < Len(p)
        /\ At(t, stop) # At(p, stop) \/ At(t, stop) = NUL
    BY <1>0, <2>1
  <2>3. \A i \in 0 .. stop - 1 : At(t, i) = At(p, i) /\ At(t, i) # NUL /\ At(p, i) # NUL
    <3> SUFFICES ASSUME NEW i \in 0 .. stop - 1 PROVE i \notin S /\ i \in 0 .. n - 1
      OBVIOUS
    <3>1. i \in 0 .. n - 1 /\ ~ (stop <= i)
      BY <1>0, <2>2
    <3> QED
      BY <2>1, <3>1
  <2> HIDE DEF S
  <2>4. /\ stop \in 0 .. Len(t) /\ stop \in 0 .. Len(p)
        /\ \A i \in 0 .. stop - 1 : At(t, i) # NUL
        /\ \A i \in 0 .. stop - 1 : At(p, i) # NUL
    BY <1>0, <2>2, <2>3
  <2>5. Len(u) > stop /\ (At(t, stop) = NUL => Len(u) = stop + 1)
    BY <2>2, <2>4, UpToNulIs DEF u
  <2>6. Len(w) > stop /\ (At(p, stop) = NUL => Len(w) = stop + 1)
    BY <2>2, <2>4, UpToNulIs DEF w
  <2>7. /\ \A i \in 0 .. stop : i \in Positions(u) /\ i \in Positions(w)
        /\ At(u, stop) = At(t, stop) /\ At(w, stop) = At(p, stop)
        /\ \A i \in 0 .. stop - 1 : At(u, i) = At(w, i)
    <3>1. \A i \in 0 .. stop : i \in Positions(u) /\ i \in Positions(w)
      BY <1>0, <1>2, <2>2, <2>5, <2>6 DEF Positions
    <3>2. stop \in 0 .. stop /\ \A i \in 0 .. stop - 1 : i \in 0 .. stop
      BY <2>2
    <3> QED
      BY <1>2, <2>3, <3>1, <3>2
  <2>8. /\ At(u, stop) \in Byte /\ At(w, stop) \in Byte
        /\ Signed(At(u, stop)) \in Int /\ Signed(At(w, stop)) \in Int
        /\ v = Signed(At(u, stop)) - Signed(At(w, stop))
    <3>1. At(u, stop) \in Byte /\ At(w, stop) \in Byte
      <4>1. stop \in 0 .. stop
        BY <2>2
      <4> QED
        BY <1>2, <2>7, <4>1, AtIs
    <3> QED
      BY <1>1, <2>1, <2>7, <3>1, SignedIs
  <2>9. CASE At(u, stop) # At(w, stop)
    <3>1. FirstDifference(u, w, stop)
      <4>1. stop \in 0 .. Common(u, w)
        BY <1>2, <1>3, <2>2, <2>5, <2>6
      <4> QED
        BY <2>7, <2>9, <4>1 DEF FirstDifference
    <3>2. By(stop)
      BY <1>4, <3>1
    <3>3. stop < Len(u) /\ stop < Len(w)
      BY <1>2, <2>2, <2>5, <2>6
    <3>4. /\ Below(u, w) <=> Signed(At(u, stop)) < Signed(At(w, stop))
          /\ Below(w, u) <=> Signed(At(w, stop)) < Signed(At(u, stop))
      BY <3>2, <3>3 DEF By
    <3>5. (v < 0 <=> Below(u, w)) /\ (v > 0 <=> Below(w, u))
      BY <2>8, <3>4
    <3> QED
      BY <3>5 DEF Ordered, u, v, w
  <2>10. CASE At(u, stop) = At(w, stop)
    <3>1. Len(u) = stop + 1 /\ Len(w) = stop + 1
      BY <2>2, <2>5, <2>6, <2>7, <2>10
    <3>2. FirstDifference(u, w, stop + 1)
      <4>1. Common(u, w) = stop + 1 /\ stop + 1 \in 0 .. Common(u, w)
        BY <1>3, <2>2, <3>1
      <4>2. \A i \in 0 .. (stop + 1) - 1 : i = stop \/ i \in 0 .. stop - 1
        BY <2>2
      <4> QED
        BY <2>7, <2>10, <4>1, <4>2 DEF FirstDifference
    <3>3. By(stop + 1)
      BY <1>4, <3>2
    <3>4. ~ (stop + 1 < Len(u)) /\ ~ (stop + 1 < Len(w))
      BY <2>2, <3>1
    <3>5. ~ Below(u, w) /\ ~ Below(w, u)
      BY <3>3, <3>4 DEF By
    <3>6. v = 0
      BY <2>8, <2>10
    <3> QED
      BY <3>5, <3>6 DEF Ordered, u, v, w
  <2> QED
    BY <2>9, <2>10
<1> QED
  BY <1>5, <1>6

(* bstrncmp compares what it may see of the two as bstrcmp does.           *)
LEMMA NcmpOrders ==
  ASSUME NEW t \in Seq(Byte), NEW p \in Seq(Byte), NEW n \in Nat
  PROVE  Ordered(bstrncmp(t, p, n), UpToNul(Left(t, n)), UpToNul(Left(p, n)))
<1> DEFINE u == Left(t, n)
           w == Left(p, n)
           m == Min({n, Common(t, p)})
           differs(x, y, i) == At(x, i) # At(y, i) \/ At(x, i) = NUL
           stop == Least({i \in 0 .. m - 1 : differs(t, p, i)})
<1>0. /\ Len(t) \in Nat /\ Len(p) \in Nat /\ Common(t, p) \in Nat
      /\ Common(t, p) <= Len(t) /\ Common(t, p) <= Len(p)
      /\ Common(t, p) = Len(t) \/ Common(t, p) = Len(p)
  BY CommonIs
<1>1. m \in Nat /\ m = IF n <= Common(t, p) THEN n ELSE Common(t, p)
  BY <1>0, MinOfTwo
<1>2. /\ u \in Seq(Byte) /\ Len(u) = (IF n < Len(t) THEN n ELSE Len(t))
      /\ \A i \in Positions(u) : At(u, i) = At(t, i)
      /\ w \in Seq(Byte) /\ Len(w) = (IF n < Len(p) THEN n ELSE Len(p))
      /\ \A i \in Positions(w) : At(w, i) = At(p, i)
  BY LeftIs
<1>3. bstrncmp(t, p, n) =
        IF stop # ERR THEN Signed(At(t, stop)) - Signed(At(p, stop))
        ELSE IF n = m \/ Len(t) = Len(p) THEN OK ELSE IF Len(t) > m THEN 1 ELSE -1
  BY DEF bstrncmp
<1>4. bstrcmp(u, w) =
        IF Least({i \in 0 .. Common(u, w) - 1 : differs(u, w, i)}) # ERR
        THEN LET s == Least({i \in 0 .. Common(u, w) - 1 : differs(u, w, i)}) IN
             Signed(At(u, s)) - Signed(At(w, s))
        ELSE IF Len(u) > Common(u, w) THEN 1 ELSE IF Len(w) > Common(u, w) THEN -1 ELSE OK
  BY DEF bstrcmp
<1> HIDE DEF u, w, m
<1>5. Common(u, w) = m
  <2>1. /\ Len(u) \in Nat /\ Len(w) \in Nat
        /\ Common(u, w) <= Len(u) /\ Common(u, w) <= Len(w)
        /\ Common(u, w) = Len(u) \/ Common(u, w) = Len(w)
    BY <1>0, <1>2, CommonIs
  <2> QED
    BY <1>0, <1>1, <1>2, <2>1
<1>6. ASSUME NEW i \in 0 .. m - 1 PROVE At(u, i) = At(t, i) /\ At(w, i) = At(p, i)
  <2>1. i \in Positions(u) /\ i \in Positions(w)
    BY <1>0, <1>1, <1>2 DEF Positions
  <2> QED
    BY <1>2, <2>1
<1>7. {i \in 0 .. m - 1 : differs(u, w, i)} = {i \in 0 .. m - 1 : differs(t, p, i)}
  BY <1>6
<1>8. stop # ERR => stop \in 0 .. m - 1
  <2> DEFINE S == {i \in 0 .. m - 1 : differs(t, p, i)}
  <2>1. S \subseteq Nat /\ S \subseteq 0 .. m - 1
    BY <1>1
  <2> HIDE DEF S
  <2>2. Least(S) # ERR => Least(S) \in 0 .. m - 1
    BY <2>1, LeastFound
  <2> QED
    BY <2>2 DEF S
<1>9. bstrcmp(u, w) =
        IF stop # ERR THEN Signed(At(u, stop)) - Signed(At(w, stop))
        ELSE IF Len(u) > m THEN 1 ELSE IF Len(w) > m THEN -1 ELSE OK
  BY <1>4, <1>5, <1>7
<1> HIDE DEF stop, differs
<1>10. bstrncmp(t, p, n) = bstrcmp(u, w)
  <2>1. CASE stop # ERR
    BY <1>3, <1>6, <1>8, <1>9, <2>1
  <2>2. CASE stop = ERR
    BY <1>0, <1>1, <1>2, <1>3, <1>9, <2>2
  <2> QED
    BY <2>1, <2>2
<1>11. Ordered(bstrcmp(u, w), UpToNul(u), UpToNul(w))
  BY <1>2, CmpOrders
<1> QED
  BY <1>10, <1>11 DEF u, w

(* The comparisons without case.                                           *)
LEMMA ExtraIs ==
  ASSUME NEW t \in Seq(Byte), NEW n \in Positions(t)
  PROVE  Extra(t, n) \in Int /\ Extra(t, n) # 0
<1>1. At(t, n) \in Byte
  BY AtIs
<1>2. downcase(At(t, n)) \in Byte
  BY <1>1, SignedIs
<1>3. Signed(downcase(At(t, n))) \in Int
  BY <1>2, SignedIs
<1> QED
  BY <1>3 DEF Extra

LEMMA LongerIs ==
  ASSUME NEW t \in Seq(Byte), NEW p \in Seq(Byte), NEW n \in Nat,
         n <= Len(t), n <= Len(p), n = Len(t) \/ n = Len(p)
  PROVE  /\ Longer(t, p, n) = - Longer(p, t, n)
         /\ Longer(t, p, n) = 0 <=> Len(t) = Len(p)
<1>0. Len(t) \in Nat /\ Len(p) \in Nat
  OBVIOUS
<1>1. CASE Len(t) > n
  <2>1. n \in Positions(t) /\ ~ (Len(p) > n) /\ Len(t) # Len(p)
    BY <1>0, <1>1 DEF Positions
  <2>2. Extra(t, n) \in Int /\ Extra(t, n) # 0
    BY <2>1, ExtraIs
  <2>3. Longer(t, p, n) = Extra(t, n) /\ Longer(p, t, n) = - Extra(t, n)
    BY <1>1, <2>1 DEF Longer
  <2> QED
    BY <2>1, <2>2, <2>3
<1>2. CASE Len(p) > n
  <2>1. n \in Positions(p) /\ ~ (Len(t) > n) /\ Len(t) # Len(p)
    BY <1>0, <1>2 DEF Positions
  <2>2. Extra(p, n) \in Int /\ Extra(p, n) # 0
    BY <2>1, ExtraIs
  <2>3. Longer(p, t, n) = Extra(p, n) /\ Longer(t, p, n) = - Extra(p, n)
    BY <1>2, <2>1 DEF Longer
  <2>4. \A x \in Int : x # 0 => -x # 0
    OBVIOUS
  <2>5. Longer(t, p, n) = - Longer(p, t, n)
    BY <2>3
  <2>6. Longer(t, p, n) # 0
    BY <2>2, <2>3, <2>4
  <2> QED
    BY <2>1, <2>5, <2>6
<1>3. CASE ~ (Len(t) > n) /\ ~ (Len(p) > n)
  <2>1. Len(t) = n /\ Len(p) = n
    BY <1>0, <1>3
  <2>2. Longer(t, p, n) = 0 /\ Longer(p, t, n) = 0
    BY <1>3 DEF Longer, OK
  <2>3. \A x, y \in Int : x + y = 0 => x = -y
    OBVIOUS
  <2>4. Longer(t, p, n) = - Longer(p, t, n)
    <3> DEFINE x == Longer(t, p, n)
               y == Longer(p, t, n)
    <3>1. x \in Int /\ y \in Int /\ x + y = 0
      BY <2>2
    <3> HIDE DEF x, y
    <3>2. x = -y
      BY <2>3, <3>1
    <3> QED
      BY <3>2 DEF x, y
  <2> QED
    BY <2>1, <2>2, <2>4
<1> QED
  BY <1>1, <1>2, <1>3

Uncased(t, p, n) == {i \in 0 .. n - 1 : downcase(At(t, i)) # downcase(At(p, i))}

LEMMA UncasedIs ==
  ASSUME NEW t \in Seq(Byte), NEW p \in Seq(Byte), NEW n \in 0 .. Common(t, p)
  PROVE  /\ Uncased(t, p, n) = Uncased(p, t, n)
         /\ Least(Uncased(t, p, n)) = ERR <=> Uncased(t, p, n) = {}
         /\ Least(Uncased(t, p, n)) # ERR =>
              LET i == Least(Uncased(t, p, n)) IN
              /\ At(t, i) \in Byte /\ At(p, i) \in Byte
              /\ downcase(At(t, i)) \in Byte /\ downcase(At(p, i)) \in Byte
              /\ downcase(At(t, i)) # downcase(At(p, i))
<1> DEFINE S == Uncased(t, p, n)
           i == Least(S)
<1>0. /\ Len(t) \in Nat /\ Len(p) \in Nat /\ Common(t, p) \in Nat
      /\ Common(t, p) <= Len(t) /\ Common(t, p) <= Len(p)
  BY CommonIs
<1>1. S \subseteq Nat /\ S \subseteq 0 .. n - 1
  BY <1>0 DEF Uncased
<1>2. S = Uncased(p, t, n)
  BY DEF Uncased
<1>3. \A k \in S : downcase(At(t, k)) # downcase(At(p, k))
  BY DEF Uncased
<1> HIDE DEF S
<1>4. (i = ERR <=> S = {}) /\ (i # ERR => i \in S)
  BY <1>1, LeastFound
<1> HIDE DEF i
<1>5. ASSUME i # ERR
      PROVE  /\ At(t, i) \in Byte /\ At(p, i) \in Byte
             /\ downcase(At(t, i)) \in Byte /\ downcase(At(p, i)) \in Byte
             /\ downcase(At(t, i)) # downcase(At(p, i))
  <2>1. i \in 0 .. n - 1 /\ i \in S
    BY <1>1, <1>4, <1>5
  <2>2. i \in Positions(t) /\ i \in Positions(p)
    BY <1>0, <2>1 DEF Positions
  <2>3. At(t, i) \in Byte /\ At(p, i) \in Byte
    BY <2>2, AtIs
  <2> QED
    BY <1>3, <2>1, <2>3, SignedIs
<1> QED
  BY <1>2, <1>4, <1>5 DEF S, i

LEMMA IcmpIs ==
  ASSUME NEW t \in Seq(Byte), NEW p \in Seq(Byte)
  PROVE  /\ bstricmp(t, p) = - bstricmp(p, t)
         /\ bstricmp(t, p) = 0 <=> Lowered(t) = Lowered(p)
<1> DEFINE n == Common(t, p)
           i == Least(Uncased(t, p, n))
<1>0. /\ Len(t) \in Nat /\ Len(p) \in Nat /\ n \in Nat /\ n <= Len(t) /\ n <= Len(p)
      /\ n = Len(t) \/ n = Len(p)
      /\ Common(p, t) = n /\ n \in 0 .. Common(t, p)
  BY CommonIs
<1>1. /\ Uncased(t, p, n) = Uncased(p, t, n)
      /\ i = ERR <=> Uncased(t, p, n) = {}
      /\ i # ERR =>
           /\ downcase(At(t, i)) \in Byte /\ downcase(At(p, i)) \in Byte
           /\ downcase(At(t, i)) # downcase(At(p, i))
  BY <1>0, UncasedIs
<1>2. bstricmp(t, p) = IF i = ERR THEN Longer(t, p, n)
                       ELSE Signed(downcase(At(t, i))) - Signed(downcase(At(p, i)))
  BY DEF bstricmp, Uncased
<1>3. bstricmp(p, t) = IF i = ERR THEN Longer(p, t, n)
                       ELSE Signed(downcase(At(p, i))) - Signed(downcase(At(t, i)))
  <2>1. bstricmp(p, t) =
          IF Least(Uncased(p, t, Common(p, t))) = ERR THEN Longer(p, t, Common(p, t))
          ELSE Signed(downcase(At(p, Least(Uncased(p, t, Common(p, t))))))
                 - Signed(downcase(At(t, Least(Uncased(p, t, Common(p, t))))))
    BY DEF bstricmp, Uncased
  <2>2. Common(p, t) = n /\ Least(Uncased(p, t, n)) = i
    BY <1>0, <1>1
  <2> HIDE DEF n, i
  <2> QED
    BY <2>1, <2>2
<1>4. Lowered(t) = Lowered(p) <=>
        Len(t) = Len(p) /\ \A k \in Positions(t) : downcase(At(t, k)) = downcase(At(p, k))
  <2>1. Lowered(t) = Lowered(p) <=>
          /\ Len(Lowered(t)) = Len(Lowered(p))
          /\ \A k \in Positions(Lowered(t)) : At(Lowered(t), k) = At(Lowered(p), k)
    BY LoweredBytes, SameText
  <2>2. Len(t) = Len(p) => Positions(p) = Positions(t)
    BY DEF Positions
  <2> QED
    BY <2>1, <2>2, LoweredBytes
<1>5. /\ Longer(t, p, n) = - Longer(p, t, n) /\ (Longer(t, p, n) = 0 <=> Len(t) = Len(p))
  BY <1>0, LongerIs
<1>6. Lowered(t) = Lowered(p) <=> Len(t) = Len(p) /\ i = ERR
  <2>1. i = ERR <=> \A k \in 0 .. n - 1 : downcase(At(t, k)) = downcase(At(p, k))
    BY <1>1 DEF Uncased
  <2>2. Len(t) = Len(p) => Positions(t) = 0 .. n - 1
    BY <1>0 DEF Positions
  <2> QED
    BY <1>4, <2>1, <2>2
<1> HIDE DEF n, i
<1>7. CASE i = ERR
  BY <1>2, <1>3, <1>5, <1>6, <1>7
<1>8. CASE i # ERR
  <2> DEFINE x == Signed(downcase(At(t, i)))
             y == Signed(downcase(At(p, i)))
  <2>1. x \in Int /\ y \in Int /\ x # y
    BY <1>1, <1>8, SignedIs
  <2>2. bstricmp(t, p) = x - y /\ bstricmp(p, t) = y - x
    BY <1>2, <1>3, <1>8
  <2> HIDE DEF x, y
  <2>3. bstricmp(t, p) = - bstricmp(p, t) /\ bstricmp(t, p) # 0
    BY <2>1, <2>2
  <2> QED
    BY <1>6, <1>8, <2>3
<1> QED
  BY <1>7, <1>8

LEMMA NicmpIs ==
  ASSUME NEW t \in Seq(Byte), NEW p \in Seq(Byte), NEW n \in Nat
  PROVE  bstrnicmp(t, p, n) = 0 <=> Left(Lowered(t), n) = Left(Lowered(p), n)
<1> DEFINE m == Min({n, Common(t, p)})
           i == Least(Uncased(t, p, m))
           u == Left(Lowered(t), n)
           w == Left(Lowered(p), n)
<1>0. /\ Len(t) \in Nat /\ Len(p) \in Nat /\ Common(t, p) \in Nat
      /\ Common(t, p) <= Len(t) /\ Common(t, p) <= Len(p)
      /\ Common(t, p) = Len(t) \/ Common(t, p) = Len(p)
  BY CommonIs
<1>1. m \in Nat /\ m = IF n <= Common(t, p) THEN n ELSE Common(t, p)
  BY <1>0, MinOfTwo
<1>2. bstrnicmp(t, p, n) = IF i # ERR THEN At(t, i) - At(p, i)
                           ELSE IF n = m \/ Len(t) = Len(p) THEN OK ELSE Longer(t, p, m)
  <2>1. ~ (n < 0)
    OBVIOUS
  <2> QED
    BY <2>1 DEF bstrnicmp, Uncased
<1>3. /\ u \in Seq(Byte) /\ Len(u) = IF n < Len(t) THEN n ELSE Len(t)
      /\ \A k \in Positions(u) : At(u, k) = At(Lowered(t), k)
      /\ w \in Seq(Byte) /\ Len(w) = IF n < Len(p) THEN n ELSE Len(p)
      /\ \A k \in Positions(w) : At(w, k) = At(Lowered(p), k)
  <2>1. /\ Lowered(t) \in Seq(Byte) /\ Lowered(p) \in Seq(Byte)
        /\ Len(Lowered(t)) = Len(t) /\ Len(Lowered(p)) = Len(p)
    BY LoweredBytes
  <2> QED
    BY <2>1, LeftIs
<1> HIDE DEF m, u, w
<1>4. m \in 0 .. Common(t, p)
  BY <1>0, <1>1
<1>5. /\ i = ERR <=> Uncased(t, p, m) = {}
      /\ i # ERR => /\ At(t, i) \in Byte /\ At(p, i) \in Byte
                    /\ downcase(At(t, i)) # downcase(At(p, i))
  BY <1>4, UncasedIs
<1> HIDE DEF i
<1>6. u = w <=> Len(u) = Len(w) /\ i = ERR
  <2>1. u = w <=> Len(u) = Len(w) /\ \A k \in Positions(u) : At(u, k) = At(w, k)
    BY <1>3, SameText
  <2>2. ASSUME Len(u) = Len(w)
        PROVE  (\A k \in Positions(u) : At(u, k) = At(w, k)) <=> i = ERR
    <3>1. Len(u) = m
      BY <1>0, <1>1, <1>3, <2>2
    <3>2. Positions(u) = 0 .. m - 1 /\ Positions(w) = 0 .. m - 1
      BY <2>2, <3>1 DEF Positions
    <3>3. \A k \in 0 .. m - 1 : k \in Positions(t) /\ k \in Positions(p)
      BY <1>0, <1>1 DEF Positions
    <3>4. \A k \in 0 .. m - 1 : At(u, k) = downcase(At(t, k)) /\ At(w, k) = downcase(At(p, k))
      BY <1>3, <3>2, <3>3, LoweredBytes
    <3> QED
      BY <1>5, <3>2, <3>4 DEF Uncased
  <2> QED
    BY <2>1, <2>2
<1>7. CASE i # ERR
  <2>1. At(t, i) # At(p, i) /\ At(t, i) \in Int /\ At(p, i) \in Int
    <3>1. At(t, i) # At(p, i)
      BY <1>5, <1>7
    <3>2. At(t, i) \in Byte /\ At(p, i) \in Byte
      BY <1>5, <1>7
    <3>3. Byte \subseteq Int
      BY DEF Byte
    <3> QED
      BY <3>1, <3>2, <3>3
  <2>2. bstrnicmp(t, p, n) # 0
    BY <1>2, <1>7, <2>1
  <2> QED
    BY <1>6, <1>7, <2>2 DEF u, w
<1>8. CASE i = ERR
  <2>1. CASE n = m \/ Len(t) = Len(p)
    <3>1. Len(u) = Len(w)
      BY <1>0, <1>1, <1>3, <2>1
    <3> QED
      BY <1>2, <1>6, <1>8, <2>1, <3>1 DEF u, w, OK
  <2>2. CASE ~ (n = m \/ Len(t) = Len(p))
    <3>1. m = Common(t, p) /\ m < n
      BY <1>0, <1>1, <2>2
    <3>2. Longer(t, p, m) = 0 <=> Len(t) = Len(p)
      BY <1>0, <1>1, <3>1, LongerIs
    <3>3. Len(u) # Len(w)
      BY <1>0, <1>1, <1>3, <2>2, <3>1
    <3> QED
      BY <1>2, <1>6, <1>8, <2>2, <3>2, <3>3 DEF u, w
  <2> QED
    BY <2>1, <2>2
<1> QED
  BY <1>7, <1>8

LEMMA Bstr2cstrIs ==
  ASSUME NEW t \in Seq(Byte), NEW z \in Byte, z # NUL
  PROVE  cstr(bstr2cstr(t, z)) = bstr2cstr(t, z)
<1> DEFINE s == bstr2cstr(t, z)
<1>1. Len(t) \in Nat /\ DOMAIN t = 1 .. Len(t)
  OBVIOUS
<1>2. \A k \in 1 .. Len(t) : s[k] \in Byte /\ s[k] # NUL
  BY <1>1 DEF bstr2cstr
<1>3. s \in [1 .. Len(t) -> Byte]
  <2>1. s = [k \in 1 .. Len(t) |-> s[k]]
    BY <1>1 DEF bstr2cstr
  <2> QED
    BY <1>2, <2>1
<1> HIDE DEF s
<1>4. s \in Seq(Byte) /\ Len(s) = Len(t)
  BY <1>1, <1>3
<1>5. \A i \in Positions(s) : At(s, i) # NUL
  <2>1. \A i \in Positions(s) : i + 1 \in 1 .. Len(t)
    BY <1>1, <1>4 DEF Positions
  <2> QED
    BY <1>2, <2>1 DEF At
<1> QED
  BY <1>4, <1>5, CstrIs DEF s

(* For all texts of bytes and all bounds, the comparisons are orders on    *)
(* what a NUL leaves of the texts and agree with the tests for equality.   *)
THEOREM Comparisons ==
  \A t, p \in Seq(Byte) : \A n \in Int : Compared(t, p, n)
<1> SUFFICES ASSUME NEW t \in Seq(Byte), NEW p \in Seq(Byte), NEW n \in Int
             PROVE  Compared(t, p, n)
  OBVIOUS
<1>1. Ordered(bstrcmp(t, p), UpToNul(t), UpToNul(p))
  BY CmpOrders
<1>2. ASSUME n >= 0
      PROVE  /\ Ordered(bstrncmp(t, p, n), UpToNul(Left(t, n)), UpToNul(Left(p, n)))
             /\ bstrnicmp(t, p, n) = 0 <=> Left(Lowered(t), n) = Left(Lowered(p), n)
  <2>1. n \in Nat
    BY <1>2
  <2> QED
    BY <2>1, NcmpOrders, NicmpIs
<1>3. bstricmp(t, p) = - bstricmp(p, t) /\ (bstricmp(t, p) = 0 <=> Lowered(t) = Lowered(p))
  BY IcmpIs
<1>4. /\ biseq(t, p) <=> t = p
      /\ biseqcaseless(t, p) <=> Lowered(t) = Lowered(p)
      /\ bisstemeqblk(t, p) <=> Left(t, Len(p)) = p
      /\ bisstemeqcaselessblk(t, p) <=> Left(Lowered(t), Len(p)) = Lowered(p)
  BY EqualIs, StemIs
<1>5. /\ biseqcstr(t, cstr(p)) <=> t = cstr(p)
      /\ biseqcstrcaseless(t, cstr(p)) <=> Lowered(t) = Lowered(cstr(p))
  BY CstrIs, CstrEqualIs
<1>6. cstr(bstr2cstr(t, 120)) = bstr2cstr(t, 120)
  <2>1. 120 \in Byte /\ 120 # NUL
    BY DEF Byte, NUL
  <2> QED
    BY <2>1, Bstr2cstrIs
<1> QED
  BY <1>1, <1>2, <1>3, <1>4, <1>5, <1>6 DEF Compared

(***************************************************************************)
(* All that the run asks of the texts that it meets.                       *)
(***************************************************************************)
LEMMA ProbedAreTexts ==
  Probed \subseteq Seq(Byte)
<1> SUFFICES ASSUME b.slen = Len(b.data) - 1, b.data \in Seq(Byte)
             PROVE  Val(b) \in Seq(Byte) /\ Foreign(Val(b)) \in Seq(Byte)
  BY DEF Probed
<1> DEFINE t == Val(b)
<1>1. t \in Seq(Byte)
  <2>1. PICK d : d = b.data
    OBVIOUS
  <2>2. d \in Seq(Byte) /\ b.slen = Len(d) - 1 /\ Len(d) \in Nat
    BY <2>1
  <2>3. t = SubSeq(d, 1, Len(d) - 1)
    BY <2>1, <2>2 DEF Val, Left
  <2>4. SubSeq(d, 1, Len(d) - 1) \in Seq(Byte)
    BY <2>2
  <2> QED
    BY <2>3, <2>4
<1> HIDE DEF t
<1>2. \A k \in 1 .. Len(t) : Foreign(t)[k] \in Byte
  <2>1. DOMAIN t = 1 .. Len(t) /\ \A k \in 1 .. Len(t) : t[k] \in Byte
    BY <1>1
  <2>2. 200 \in Byte /\ NUL \in Byte
    BY DEF Byte, NUL
  <2> QED
    BY <2>1, <2>2 DEF Foreign
<1>3. Foreign(t) \in [1 .. Len(t) -> Byte]
  <2>1. DOMAIN t = 1 .. Len(t)
    BY <1>1
  <2>2. Foreign(t) = [k \in 1 .. Len(t) |-> Foreign(t)[k]]
    BY <2>1 DEF Foreign
  <2> QED
    BY <1>2, <2>2
<1>4. Foreign(t) \in Seq(Byte)
  BY <1>1, <1>3
<1> QED
  BY <1>1, <1>4 DEF t

LEMMA ProbesAreTexts ==
  ASSUME NEW t \in Seq(Byte)
  PROVE  Probes(t) \subseteq Seq(Byte)
<1>1. Texts \subseteq Seq(Byte)
  BY StringStateAssumption
<1>2. ASSUME NEW i \in DOMAIN t, NEW j \in DOMAIN t PROVE SubSeq(t, i, j) \in Seq(Byte)
  OBVIOUS
<1>3. t \o <<97>> \in Seq(Byte) /\ <<46, 46>> \in Seq(Byte)
  <2>1. 97 \in Byte /\ 46 \in Byte
    BY DEF Byte
  <2> QED
    BY <2>1
<1>4. Lowered(t) \in Seq(Byte)
  BY LoweredBytes
<1> DEFINE parts == {SubSeq(t, i, j) : i, j \in DOMAIN t}
<1>5. parts \subseteq Seq(Byte)
  <2> SUFFICES ASSUME NEW x \in parts PROVE x \in Seq(Byte)
    OBVIOUS
  <2>1. PICK i \in DOMAIN t : \E j \in DOMAIN t : x = SubSeq(t, i, j)
    OBVIOUS
  <2> QED
    BY <1>2, <2>1
<1>6. Probes(t) = Texts \union parts \union {t \o <<97>>, Lowered(t), <<46, 46>>}
  BY DEF Probes
<1> HIDE DEF parts
<1> QED
  BY <1>1, <1>3, <1>4, <1>5, <1>6

(* In every state, whatever the texts and the numbers: the searches return *)
(* the nearest occurrence and the comparisons are the orders and           *)
(* equalities they are named for, for they do so for all texts of bytes.   *)
THEOREM SearchesAlwaysAgree == []SearchesAgree
<1>1. SearchesAgree
  <2> SUFFICES ASSUME NEW t \in Probed, NEW p \in Probes(t)
               PROVE  /\ \A pos \in -1 .. Len(t) + 1 :
                           StringsFound(t, pos, p) /\ CharactersFound(t, pos, p)
                      /\ \A n \in Numbers : Compared(t, p, n)
    BY DEF SearchesAgree
  <2>1. t \in Seq(Byte) /\ p \in Seq(Byte)
    BY ProbedAreTexts, ProbesAreTexts
  <2>2. t \in Seq(Int) /\ p \in Seq(Int)
    BY <2>1, BytesAreInts
  <2>3. \A pos \in Int : StringsFound(t, pos, p) /\ CharactersFound(t, pos, p)
    BY <2>1, <2>2, SearchesForStrings, SearchesForCharacters
  <2>4. \A n \in Numbers : Compared(t, p, n)
    BY <2>1, Comparisons, StringStateAssumption
  <2>5. Len(t) \in Nat
    BY <2>1
  <2> QED
    BY <2>3, <2>4, <2>5
<1> QED
  BY <1>1, PTL

(***************************************************************************)
(* Splitting.  The pieces of a split are a chain: they follow each other   *)
(* from p to n, with a gap behind each but the last, and in each gap there *)
(* is a separator.                                                         *)
(***************************************************************************)
Spans == [ofs : Nat, len : Nat]
End(g) == g.ofs + g.len

Chain(pieces, p, n, gap, G, H) ==
  /\ pieces \in Seq(G) /\ Len(pieces) >= 1
  /\ pieces[1].ofs = p
  /\ End(pieces[Len(pieces)]) = n
  /\ \A k \in 1 .. Len(pieces) - 1 :
       End(pieces[k]) \in H /\ pieces[k + 1].ofs = End(pieces[k]) + gap

LEMMA ChainOne ==
  ASSUME NEW G, NEW H, NEW p, NEW n, NEW gap, NEW g \in G, g.ofs = p, End(g) = n
  PROVE  Chain(<<g>>, p, n, gap, G, H)
<1>1. <<g>> \in Seq(G) /\ Len(<<g>>) = 1 /\ <<g>>[1] = g
  OBVIOUS
<1>2. 1 .. 1 - 1 = {}
  OBVIOUS
<1> QED
  BY <1>1, <1>2 DEF Chain

LEMMA ChainMore ==
  ASSUME NEW G, NEW H, NEW p, NEW n, NEW gap, NEW g \in G, g.ofs = p, End(g) \in H,
         NEW rest, Chain(rest, End(g) + gap, n, gap, G, H)
  PROVE  Chain(<<g>> \o rest, p, n, gap, G, H)
<1> DEFINE c == <<g>> \o rest
           m == Len(rest)
<1>1. /\ rest \in Seq(G) /\ m \in Nat /\ m >= 1 /\ rest[1].ofs = End(g) + gap
      /\ End(rest[m]) = n
      /\ \A k \in 1 .. m - 1 : End(rest[k]) \in H /\ rest[k + 1].ofs = End(rest[k]) + gap
  BY DEF Chain
<1>2. c \in Seq(G) /\ Len(c) = m + 1 /\ c[1] = g /\ \A k \in 1 .. m : c[k + 1] = rest[k]
  BY <1>1
<1> HIDE DEF c, m
<1>3. \A k \in 2 .. m + 1 : c[k] = rest[k - 1]
  <2> SUFFICES ASSUME NEW k \in 2 .. m + 1 PROVE c[k] = rest[k - 1]
    OBVIOUS
  <2>1. k - 1 \in 1 .. m /\ (k - 1) + 1 = k
    BY <1>1
  <2>2. c[(k - 1) + 1] = rest[k - 1]
    BY <1>2, <2>1
  <2> QED
    BY <2>1, <2>2
<1>4. End(c[m + 1]) = n
  <2>1. m + 1 \in 2 .. m + 1 /\ (m + 1) - 1 = m
    BY <1>1
  <2> QED
    BY <1>1, <1>3, <2>1
<1>5. ASSUME NEW k \in 1 .. m PROVE End(c[k]) \in H /\ c[k + 1].ofs = End(c[k]) + gap
  <2>1. CASE k = 1
    BY <1>1, <1>2, <2>1
  <2>2. CASE k # 1
    <3>1. k \in 2 .. m + 1 /\ k - 1 \in 1 .. m - 1 /\ (k - 1) + 1 = k
      BY <1>1, <2>2
    <3>2. c[k] = rest[k - 1] /\ c[k + 1] = rest[k]
      BY <1>2, <1>3, <3>1
    <3>3. End(rest[k - 1]) \in H /\ rest[(k - 1) + 1].ofs = End(rest[k - 1]) + gap
      BY <1>1, <3>1
    <3> QED
      BY <3>1, <3>2, <3>3
  <2> QED
    BY <2>1, <2>2
<1>6. Len(c) >= 1 /\ Len(c) - 1 = m
  BY <1>1, <1>2
<1>7. Chain(c, p, n, gap, G, H)
  BY <1>2, <1>4, <1>5, <1>6 DEF Chain
<1> QED
  BY <1>7 DEF c

(* The next separator, or the end.                                         *)
Stop(n, seps, p) == Min({s \in seps : s >= p} \union {n})

LEMMA StopIs ==
  ASSUME NEW n \in Nat, NEW seps, seps \subseteq 0 .. n - 1, NEW p \in 0 .. n
  PROVE  /\ Stop(n, seps, p) \in p .. n
         /\ Stop(n, seps, p) = n \/ Stop(n, seps, p) \in seps
         /\ \A s \in seps : ~ (p <= s /\ s < Stop(n, seps, p))
<1> DEFINE S == {s \in seps : s >= p} \union {n}
           i == Stop(n, seps, p)
<1>0. \A s \in seps : s \in 0 .. n - 1
  OBVIOUS
<1>1. S \subseteq p .. n /\ S # {}
  <2> SUFFICES ASSUME NEW s \in S PROVE s \in p .. n
    OBVIOUS
  <2>1. CASE s = n
    BY <2>1
  <2>2. CASE s # n
    <3>1. s \in seps /\ s >= p
      BY <2>2
    <3>2. s \in 0 .. n - 1
      BY <1>0, <3>1
    <3> QED
      BY <3>1, <3>2
  <2> QED
    BY <2>1, <2>2
<1> HIDE DEF S
<1>2. S \subseteq Nat
  BY <1>1
<1>3. Least(S) \in S /\ \A m \in S : Least(S) <= m
  BY <1>1, <1>2, LeastFound
<1>4. i \in S /\ \A m \in S : i <= m
  BY <1>1, <1>3 DEF Least, Stop, S
<1> HIDE DEF i
<1>5. i \in p .. n
  BY <1>1, <1>4
<1>6. i = n \/ i \in seps
  BY <1>4 DEF S
<1>7. ASSUME NEW s \in seps, p <= s, s < i PROVE FALSE
  <2>1. s \in S /\ s \in Int
    BY <1>7 DEF S
  <2>2. i <= s
    BY <1>4, <2>1
  <2> QED
    BY <1>1, <1>5, <1>7, <2>1, <2>2
<1> QED
  BY <1>5, <1>6, <1>7 DEF i

(***************************************************************************)
(* The loop that looks for characters.                                     *)
(***************************************************************************)
NextPiece(n, seps, f, p) ==
  LET i == Stop(n, seps, p) IN
  <<Piece(p, i)>> \o (IF i + 1 <= n THEN f[i + 1] ELSE <<>>)

Divides(n, seps, f) == f = [p \in 0 .. n |-> NextPiece(n, seps, f, p)]

(* It can be made from the end on.                                         *)
LEMMA DividesExists ==
  ASSUME NEW n \in Nat, NEW seps, seps \subseteq 0 .. n - 1
  PROVE  \E f : Divides(n, seps, f)
<1> DEFINE FromOn(f, m) == /\ f = [p \in 0 .. n |-> f[p]]
                          /\ \A p \in m .. n : f[p] = NextPiece(n, seps, f, p)
           S == {m \in 0 .. n + 1 : \E f : FromOn(f, m)}
<1>1. n + 1 \in S
  <2> DEFINE e == [p \in 0 .. n |-> 0]
  <2>1. e = [p \in 0 .. n |-> e[p]] /\ (n + 1) .. n = {}
    OBVIOUS
  <2>2. FromOn(e, n + 1)
    BY <2>1
  <2> QED
    BY <2>2
<1>2. PICK m \in S : \A k \in S : m <= k
  <2>1. S \subseteq Nat /\ S # {}
    BY <1>1
  <2> HIDE DEF S
  <2> QED
    BY <2>1, LeastNatural
<1>3. PICK f : FromOn(f, m)
  OBVIOUS
<1>4. m = 0
  <2> SUFFICES ASSUME m # 0 PROVE FALSE
    OBVIOUS
  <2> DEFINE q == m - 1
             g == [f EXCEPT ![q] = NextPiece(n, seps, f, q)]
  <2>1. q \in 0 .. n /\ q \in Nat /\ ~ m <= q
    OBVIOUS
  <2> HIDE DEF q
  <2>2. /\ g = [p \in 0 .. n |-> g[p]] /\ g[q] = NextPiece(n, seps, f, q)
        /\ \A p \in 0 .. n : p # q => g[p] = f[p]
    BY <1>3, <2>1
  <2> HIDE DEF g
  <2>3. ASSUME NEW p \in q .. n PROVE NextPiece(n, seps, g, p) = NextPiece(n, seps, f, p)
    <3> DEFINE i == Stop(n, seps, p)
    <3>1. i \in p .. n
      <4>1. p \in 0 .. n
        BY <2>1
      <4> HIDE DEF i
      <4>2. Stop(n, seps, p) \in p .. n
        BY <4>1, StopIs
      <4> QED
        BY <4>2 DEF i
    <3> HIDE DEF i
    <3>2. i + 1 <= n => i + 1 \in 0 .. n /\ i + 1 # q
      BY <2>1, <3>1
    <3>3. i + 1 <= n => g[i + 1] = f[i + 1]
      BY <2>2, <3>2
    <3> QED
      BY <3>3 DEF NextPiece, i
  <2>4. ASSUME NEW p \in q .. n PROVE g[p] = NextPiece(n, seps, g, p)
    <3>1. CASE p = q
      BY <2>2, <2>3, <3>1
    <3>2. CASE p # q
      <4>1. p \in m .. n /\ p \in 0 .. n
        BY <2>1, <3>2 DEF q
      <4> QED
        BY <1>3, <2>2, <2>3, <3>2, <4>1
    <3> QED
      BY <3>1, <3>2
  <2>5. q \in S
    BY <2>1, <2>2, <2>4
  <2> QED
    BY <1>2, <2>1, <2>5
<1>5. f = [p \in 0 .. n |-> NextPiece(n, seps, f, p)]
  BY <1>3, <1>4
<1> QED
  BY <1>5 DEF Divides

(* The spans within n places that hold no separator.                       *)
Clear(n, seps) == {g \in Spans : End(g) <= n /\ \A s \in seps : ~ (g.ofs <= s /\ s < End(g))}

LEMMA PieceIs ==
  ASSUME NEW p \in Nat, NEW i \in Nat, p <= i
  PROVE  Piece(p, i) \in Spans /\ Piece(p, i).ofs = p /\ End(Piece(p, i)) = i
BY DEF Piece, Spans, End

LEMMA DividesClear ==
  ASSUME NEW n \in Nat, NEW seps, seps \subseteq 0 .. n - 1, NEW f, Divides(n, seps, f)
  PROVE  \A p \in 0 .. n : Chain(f[p], p, n, 1, Clear(n, seps), seps)
<1> DEFINE Good(p) == Chain(f[p], p, n, 1, Clear(n, seps), seps)
           Todo == {n - p : p \in {x \in 0 .. n : ~ Good(x)}}
<1> SUFFICES ASSUME Todo # {} PROVE FALSE
  OBVIOUS
<1>1. PICK a \in Todo : \A z \in Todo : a <= z
  <2>1. Todo \subseteq Nat
    OBVIOUS
  <2> HIDE DEF Todo
  <2> QED
    BY <2>1, LeastNatural
<1>2. PICK p \in 0 .. n : ~ Good(p) /\ a = n - p
  OBVIOUS
<1>3. ASSUME NEW q \in 0 .. n, q > p PROVE Good(q)
  <2> SUFFICES ASSUME ~ Good(q) PROVE FALSE
    OBVIOUS
  <2>1. n - q \in Todo
    OBVIOUS
  <2>2. a <= n - q
    BY <1>1, <2>1
  <2> QED
    BY <1>2, <1>3, <2>2
<1> HIDE DEF Todo
<1> DEFINE i == Stop(n, seps, p)
<1>4. i \in p .. n /\ (i = n \/ i \in seps) /\ \A s \in seps : ~ (p <= s /\ s < i)
  BY StopIs
<1>5. f[p] = <<Piece(p, i)>> \o (IF i + 1 <= n THEN f[i + 1] ELSE <<>>)
  BY DEF Divides, NextPiece
<1> HIDE DEF i
<1> DEFINE g == Piece(p, i)
<1>6. g \in Spans /\ g.ofs = p /\ End(g) = i
  BY <1>4, PieceIs
<1> HIDE DEF g
<1>7. g \in Clear(n, seps)
  BY <1>4, <1>6 DEF Clear
<1>8. CASE i + 1 <= n
  <2>1. i \in seps /\ i + 1 \in 0 .. n /\ i + 1 > p
    BY <1>4, <1>8
  <2>2. Chain(f[i + 1], i + 1, n, 1, Clear(n, seps), seps)
    BY <1>3, <2>1
  <2>3. Chain(<<g>> \o f[i + 1], p, n, 1, Clear(n, seps), seps)
    BY <1>6, <1>7, <2>1, <2>2, ChainMore
  <2> QED
    BY <1>2, <1>5, <1>8, <2>3 DEF g
<1>9. CASE ~ i + 1 <= n
  <2>1. i = n
    BY <1>4, <1>9
  <2>2. f[p] = <<g>>
    BY <1>5, <1>9 DEF g
  <2>3. Chain(<<g>>, p, n, 1, Clear(n, seps), seps)
    BY <1>6, <1>7, <2>1, ChainOne
  <2> QED
    BY <1>2, <2>2, <2>3
<1> QED
  BY <1>8, <1>9

LEMMA DividedIs ==
  ASSUME NEW S, NEW t \in Seq(S), NEW seps, seps \subseteq Positions(t)
  PROVE  Chain(Divided(t, seps, 0), 0, Len(t), 1, Clear(Len(t), seps), seps)
<1> DEFINE f == CHOOSE f : Divides(Len(t), seps, f)
<1>1. Len(t) \in Nat /\ seps \subseteq 0 .. Len(t) - 1
  BY DEF Positions
<1>2. Divides(Len(t), seps, f)
  BY <1>1, DividesExists
<1>3. Divided(t, seps, 0) = f[0]
  BY DEF Divided, Divides, NextPiece, Stop
<1> HIDE DEF f
<1>4. 0 \in 0 .. Len(t)
  BY <1>1
<1> QED
  BY <1>1, <1>2, <1>3, <1>4, DividesClear

(***************************************************************************)
(* The loop that looks for a string, of at least two characters.           *)
(***************************************************************************)
NextString(t, s, f, i) ==
  [p \in 0 .. Len(t) + 1 |->
     IF i > Len(t) - Len(s) THEN <<Piece(p, Len(t))>>
     ELSE IF HeldAt(t, s, i)
     THEN <<Piece(p, i)>> \o f[i + Len(s) + 1][Behind(i, s)]
     ELSE f[i + 1][p]]

DividesByString(t, s, f) == f = [i \in 0 .. Len(t) + 1 |-> NextString(t, s, f, i)]

LEMMA DividesByStringExists ==
  ASSUME NEW t, NEW s, Len(t) \in Nat, Len(s) \in Nat, Len(s) >= 1
  PROVE  \E f : DividesByString(t, s, f)
<1> DEFINE D == 0 .. Len(t) + 1
           FromOn(f, m) == /\ f = [i \in D |-> f[i]]
                           /\ \A i \in m .. Len(t) + 1 : f[i] = NextString(t, s, f, i)
           S == {m \in 0 .. Len(t) + 2 : \E f : FromOn(f, m)}
<1>1. Len(t) + 2 \in S
  <2> DEFINE e == [p \in D |-> 0]
  <2>1. e = [p \in D |-> e[p]] /\ (Len(t) + 2) .. (Len(t) + 1) = {}
    OBVIOUS
  <2>2. FromOn(e, Len(t) + 2)
    BY <2>1
  <2> QED
    BY <2>2
<1>2. PICK m \in S : \A k \in S : m <= k
  <2>1. S \subseteq Nat /\ S # {}
    BY <1>1
  <2> HIDE DEF S
  <2> QED
    BY <2>1, LeastNatural
<1>3. PICK f : FromOn(f, m)
  OBVIOUS
<1>4. m = 0
  <2> SUFFICES ASSUME m # 0 PROVE FALSE
    OBVIOUS
  <2> DEFINE q == m - 1
             g == [f EXCEPT ![q] = NextString(t, s, f, q)]
  <2>1. q \in D /\ q \in Nat /\ ~ m <= q
    OBVIOUS
  <2> HIDE DEF q
  <2>2. /\ g = [p \in D |-> g[p]] /\ g[q] = NextString(t, s, f, q)
        /\ \A p \in D : p # q => g[p] = f[p]
    BY <1>3, <2>1
  <2> HIDE DEF g
  <2>3. ASSUME NEW i \in q .. Len(t) + 1 PROVE NextString(t, s, g, i) = NextString(t, s, f, i)
    <3>1. CASE i > Len(t) - Len(s)
      BY <3>1 DEF NextString
    <3>2. CASE ~ i > Len(t) - Len(s)
      <4>1. /\ i + Len(s) + 1 \in D /\ i + Len(s) + 1 # q
            /\ i + 1 \in D /\ i + 1 # q
        BY <2>1, <3>2
      <4>2. g[i + Len(s) + 1] = f[i + Len(s) + 1] /\ g[i + 1] = f[i + 1]
        BY <2>2, <4>1
      <4> QED
        BY <4>2 DEF NextString
    <3> QED
      BY <3>1, <3>2
  <2>4. ASSUME NEW i \in q .. Len(t) + 1 PROVE g[i] = NextString(t, s, g, i)
    <3>1. CASE i = q
      BY <2>2, <2>3, <3>1
    <3>2. CASE i # q
      <4>1. i \in m .. Len(t) + 1 /\ i \in D
        BY <2>1, <3>2 DEF q
      <4>2. g[i] = f[i] /\ f[i] = NextString(t, s, f, i)
        BY <1>3, <2>2, <3>2, <4>1
      <4> QED
        BY <2>3, <4>2
    <3> QED
      BY <3>1, <3>2
  <2>5. FromOn(g, q)
    BY <2>2, <2>4
  <2>6. q \in S
    BY <2>1, <2>5
  <2> QED
    BY <1>2, <2>1, <2>6
<1>5. f = [i \in D |-> NextString(t, s, f, i)]
  <2>1. \A i \in D : f[i] = NextString(t, s, f, i)
    BY <1>3, <1>4
  <2>2. f = [i \in D |-> f[i]]
    BY <1>3
  <2> QED
    BY <2>1, <2>2
<1> QED
  BY <1>5 DEF DividesByString

(* The spans of t that hold s at most where they begin: what follows a     *)
(* separator at once is not looked at.                                     *)
Untouched(t, s) ==
  {g \in Spans : End(g) <= Len(t) /\ \A h \in g.ofs + 1 .. End(g) - Len(s) : ~ HeldAt(t, s, h)}
HeldPlaces(t, s) == {i \in Places(t, s) : HeldAt(t, s, i)}

LEMMA DividesByStringUntouched ==
  ASSUME NEW t, NEW s, Len(t) \in Nat, Len(s) \in Nat, Len(s) >= 2,
         NEW f, DividesByString(t, s, f)
  PROVE  \A i \in 0 .. Len(t) + 1 : \A p \in 0 .. Len(t) :
           p <= i /\ (\A h \in p + 1 .. i - 1 : h <= Len(t) - Len(s) => ~ HeldAt(t, s, h))
             => Chain(f[i][p], p, Len(t), Len(s), Untouched(t, s), HeldPlaces(t, s))
<1> DEFINE n == Len(t)
           ls == Len(s)
           D == 0 .. n + 1
           Passed(i, p) ==
             p <= i /\ \A h \in p + 1 .. i - 1 : h <= n - ls => ~ HeldAt(t, s, h)
           Good(i, p) == Chain(f[i][p], p, n, ls, Untouched(t, s), HeldPlaces(t, s))
           Bad == {x \in D : \E p \in 0 .. n : Passed(x, p) /\ ~ Good(x, p)}
           Todo == {n + 1 - x : x \in Bad}
<1> SUFFICES ASSUME Bad # {} PROVE FALSE
  OBVIOUS
<1>0. n \in Nat /\ ls \in Nat /\ ls >= 2 /\ D = 0 .. n + 1
  OBVIOUS
<1>f. ASSUME NEW i \in D, NEW p \in D
      PROVE  f[i][p] = IF i > n - ls THEN <<Piece(p, n)>>
                       ELSE IF HeldAt(t, s, i) THEN <<Piece(p, i)>> \o f[i + ls + 1][i + ls]
                       ELSE f[i + 1][p]
  <2>1. f[i] = NextString(t, s, f, i)
    BY DEF DividesByString
  <2> QED
    BY <2>1 DEF NextString, Behind
<1> HIDE DEF n, ls, D
<1>1. PICK a \in Todo : \A z \in Todo : a <= z
  <2>1. Todo \subseteq Nat /\ Todo # {}
    BY <1>0
  <2> HIDE DEF Todo
  <2> QED
    BY <2>1, LeastNatural
<1>2. PICK i \in Bad : a = n + 1 - i
  OBVIOUS
<1>3. PICK p \in 0 .. n : Passed(i, p) /\ ~ Good(i, p)
  OBVIOUS
<1>4. ASSUME NEW j \in D, NEW q \in 0 .. n, j > i, Passed(j, q) PROVE Good(j, q)
  <2> SUFFICES ASSUME ~ Good(j, q) PROVE FALSE
    OBVIOUS
  <2>1. j \in Bad
    BY <1>4
  <2>2. a <= n + 1 - j
    BY <1>1, <2>1
  <2>3. i \in D
    OBVIOUS
  <2> QED
    BY <1>0, <1>2, <1>4, <2>2, <2>3
<1>5. i \in D /\ p \in D /\ i \in Nat /\ p \in Nat /\ p <= n /\ i <= n + 1 /\ p <= i
  BY <1>0, <1>3
<1>6. \A h \in p + 1 .. i - 1 : h <= n - ls => ~ HeldAt(t, s, h)
  BY <1>3
<1>7. ~ Chain(f[i][p], p, n, ls, Untouched(t, s), HeldPlaces(t, s))
  BY <1>3
<1>8. \A j \in D : \A q \in 0 .. n :
        j > i /\ q <= j /\ (\A h \in q + 1 .. j - 1 : h <= n - ls => ~ HeldAt(t, s, h))
          => Chain(f[j][q], q, n, ls, Untouched(t, s), HeldPlaces(t, s))
  BY <1>4
<1> HIDE DEF Passed, Good, Bad, Todo
<1>9. CASE i > n - ls
  <2> DEFINE g == Piece(p, n)
  <2>1. g \in Spans /\ g.ofs = p /\ End(g) = n
    BY <1>0, <1>5, PieceIs
  <2> HIDE DEF g
  <2>2. ASSUME NEW h \in p + 1 .. n - ls PROVE ~ HeldAt(t, s, h)
    <3>1. h \in p + 1 .. i - 1 /\ h <= n - ls
      BY <1>0, <1>5, <1>9
    <3> QED
      BY <1>6, <3>1
  <2>3. g \in Untouched(t, s)
    BY <1>0, <2>1, <2>2 DEF Untouched, n, ls
  <2>4. f[i][p] = <<g>>
    BY <1>5, <1>9, <1>f DEF g
  <2>5. Chain(<<g>>, p, n, ls, Untouched(t, s), HeldPlaces(t, s))
    BY <2>1, <2>3, ChainOne
  <2> QED
    BY <1>7, <2>4, <2>5
<1>10. CASE ~ i > n - ls /\ HeldAt(t, s, i)
  <2> DEFINE g == Piece(p, i)
             q == i + ls
             j == i + ls + 1
  <2>1. g \in Spans /\ g.ofs = p /\ End(g) = i
    BY <1>5, PieceIs
  <2>2. q \in 0 .. n /\ j \in D /\ j > i /\ q <= j /\ j - 1 = q /\ q = i + ls /\ i <= n
    BY <1>0, <1>5, <1>10
  <2>3. f[i][p] = <<g>> \o f[j][q]
    BY <1>5, <1>10, <1>f
  <2> HIDE DEF g, j, q
  <2>4. q + 1 .. j - 1 = {}
    BY <2>2
  <2>5. Chain(f[j][q], q, n, ls, Untouched(t, s), HeldPlaces(t, s))
    BY <1>8, <2>2, <2>4
  <2>6. ASSUME NEW h \in p + 1 .. i - ls PROVE ~ HeldAt(t, s, h)
    <3>1. h \in p + 1 .. i - 1 /\ h <= n - ls
      BY <1>0, <1>5, <1>10
    <3> QED
      BY <1>6, <3>1
  <2>7. g \in Untouched(t, s)
    BY <2>1, <2>2, <2>6 DEF Untouched, n, ls
  <2>8. i \in HeldPlaces(t, s)
    BY <1>0, <1>5, <1>10 DEF HeldPlaces, Places, n, ls
  <2>9. Chain(<<g>> \o f[j][q], p, n, ls, Untouched(t, s), HeldPlaces(t, s))
    BY <2>1, <2>2, <2>5, <2>7, <2>8, ChainMore
  <2> QED
    BY <1>7, <2>3, <2>9
<1>11. CASE ~ i > n - ls /\ ~ HeldAt(t, s, i)
  <2> DEFINE j == i + 1
  <2>1. j \in D /\ j > i /\ p <= j /\ p \in 0 .. n /\ j - 1 = i
    BY <1>0, <1>5, <1>11
  <2>2. f[i][p] = f[j][p]
    BY <1>5, <1>11, <1>f
  <2> HIDE DEF j
  <2>3. ASSUME NEW h \in p + 1 .. j - 1, h <= n - ls PROVE ~ HeldAt(t, s, h)
    <3>1. CASE h = i
      BY <1>11, <3>1
    <3>2. CASE h # i
      <4>1. h \in p + 1 .. i - 1
        BY <1>5, <2>1, <3>2
      <4> QED
        BY <1>6, <2>3, <4>1
    <3> QED
      BY <3>1, <3>2
  <2>4. Chain(f[j][p], p, n, ls, Untouched(t, s), HeldPlaces(t, s))
    BY <1>8, <2>1, <2>3
  <2> QED
    BY <1>7, <2>2, <2>4
<1> QED
  BY <1>9, <1>10, <1>11

LEMMA DividedByStringIs ==
  ASSUME NEW t, NEW s, Len(t) \in Nat, Len(s) \in Nat, Len(s) >= 2
  PROVE  Chain(DividedByString(t, s, 0), 0, Len(t), Len(s), Untouched(t, s), HeldPlaces(t, s))
<1> DEFINE f == CHOOSE f : DividesByString(t, s, f)
<1>1. DividesByString(t, s, f)
  BY DividesByStringExists
<1>2. DividedByString(t, s, 0) = f[0][0]
  BY DEF DividedByString, DividesByString, NextString
<1> HIDE DEF f
<1>3. /\ 0 \in 0 .. Len(t) + 1 /\ 0 \in 0 .. Len(t) /\ 0 <= 0
      /\ \A h \in 0 + 1 .. 0 - 1 : h <= Len(t) - Len(s) => ~ HeldAt(t, s, h)
  OBVIOUS
<1>4. Chain(f[0][0], 0, Len(t), Len(s), Untouched(t, s), HeldPlaces(t, s))
  BY <1>1, <1>3, DividesByStringUntouched
<1> QED
  BY <1>2, <1>4

(* A separator at the beginning is seen: there is an empty piece before it.*)
LEMMA FirstPieceIs ==
  ASSUME NEW t, NEW s, Len(t) \in Nat, Len(s) \in Nat, Len(s) >= 2, Len(s) <= Len(t),
         HeldAt(t, s, 0)
  PROVE  DividedByString(t, s, 0)[1] = Piece(0, 0)
<1> DEFINE f == CHOOSE f : DividesByString(t, s, f)
           n == Len(t)
           ls == Len(s)
           rest == f[ls + 1][ls]
           g == Piece(0, 0)
<1>1. DividesByString(t, s, f)
  BY DividesByStringExists
<1>2. DividedByString(t, s, 0) = f[0][0]
  BY DEF DividedByString, DividesByString, NextString
<1> HIDE DEF f
<1>3. 0 \in 0 .. n + 1 /\ ~ 0 > n - ls /\ 0 + ls + 1 = ls + 1 /\ 0 + ls = ls
  OBVIOUS
<1>4. f[0][0] = <<g>> \o rest
  <2>1. f[0] = NextString(t, s, f, 0)
    BY <1>1, <1>3 DEF DividesByString
  <2> QED
    BY <1>3, <2>1 DEF NextString, Behind
<1>5. /\ ls + 1 \in 0 .. n + 1 /\ ls \in 0 .. n /\ ls <= ls + 1
      /\ \A h \in ls + 1 .. (ls + 1) - 1 : h <= Len(t) - Len(s) => ~ HeldAt(t, s, h)
  OBVIOUS
<1>6. Chain(rest, ls, Len(t), Len(s), Untouched(t, s), HeldPlaces(t, s))
  BY <1>1, <1>5, DividesByStringUntouched
<1>7. rest \in Seq(Untouched(t, s))
  BY <1>6 DEF Chain
<1> HIDE DEF rest, g
<1>8. (<<g>> \o rest)[1] = g
  BY <1>7
<1> QED
  BY <1>2, <1>4, <1>8 DEF g

(***************************************************************************)
(* Joining.  What is joined so far is the text up to the end of a piece.   *)
(***************************************************************************)
LEMMA SpanIs ==
  ASSUME NEW g \in Spans
  PROVE  g.ofs \in Nat /\ End(g) \in Nat /\ g.ofs <= End(g)
BY DEF Spans, End

LEMMA PartIs ==
  ASSUME NEW S, NEW t \in Seq(S), NEW g \in Spans, End(g) <= Len(t)
  PROVE  /\ Part(t, g) \in Seq(S) /\ Len(Part(t, g)) = g.len
         /\ Part(t, g) = SubSeq(t, g.ofs + 1, End(g))
         /\ \A i \in 1 .. g.len : Part(t, g)[i] = t[g.ofs + i]
<1>1. g.ofs \in Nat /\ g.len \in Nat /\ End(g) = g.ofs + g.len /\ Len(t) \in Nat
  BY DEF Spans, End
<1>2. Part(t, g) = SubSeq(t, g.ofs + 1, End(g))
  BY DEF Part, End
<1> DEFINE m == g.ofs
           l == g.len
<1>3. m \in Nat /\ l \in Nat /\ m + l <= Len(t) /\ Part(t, g) = SubSeq(t, m + 1, m + l)
  BY <1>1, <1>2
<1> HIDE DEF m, l
<1>4. m + 1 \in 1 .. Len(t) + 1 /\ m + l \in m .. Len(t)
  BY <1>1, <1>3
<1> DEFINE u == SubSeq(t, m + 1, m + l)
<1>5. u \in Seq(S)
  BY <1>1, <1>3, <1>4
<1>6. Len(u) = l
  BY <1>1, <1>3, <1>4
<1>7. \A i \in 1 .. l : u[i] = t[m + i]
  BY <1>1, <1>3, <1>4
<1> QED
  BY <1>2, <1>3, <1>5, <1>6, <1>7 DEF m, l

StringsUp(entries, s, f) ==
  f = [k \in DOMAIN entries |-> IF k = 1 THEN entries[1] ELSE f[k - 1] \o s \o entries[k]]

(* The spans of a text, and where s stands in it.                          *)
Within(t) == {g \in Spans : End(g) <= Len(t)}
Separators(t, s) == {h \in Nat : h + Len(s) <= Len(t) /\ SubSeq(t, h + 1, h + Len(s)) = s}

(* The pieces are those of t between separators s.                         *)
Between(t, s, pieces) == Chain(pieces, 0, Len(t), Len(s), Within(t), Separators(t, s))

LEMMA ChainWithin ==
  ASSUME NEW S, NEW t \in Seq(S), NEW s, NEW G, NEW H, NEW pieces,
         Chain(pieces, 0, Len(t), Len(s), G, H),
         \A g \in G : g \in Within(t), \A h \in H : h \in Separators(t, s)
  PROVE  Between(t, s, pieces)
<1>1. pieces \in Seq(G) /\ Len(pieces) \in Nat /\ \A i \in 1 .. Len(pieces) : pieces[i] \in G
  BY DEF Chain
<1>2. pieces \in Seq(Within(t))
  <2> DEFINE n == Len(pieces)
  <2>1. pieces = [i \in 1 .. n |-> pieces[i]] /\ n \in Nat
        /\ \A i \in 1 .. n : pieces[i] \in Within(t)
    BY <1>1
  <2> HIDE DEF n
  <2>2. pieces \in [1 .. n -> Within(t)]
    BY <2>1
  <2> QED
    BY <2>1, <2>2
<1> QED
  BY <1>2 DEF Chain, Between

(* One more piece.                                                         *)
Continued(t, s, pieces, k) ==
  /\ k = 1 => Part(t, pieces[1]) = SubSeq(t, 1, End(pieces[1]))
  /\ k # 1 => /\ k - 1 \in DOMAIN pieces
              /\ SubSeq(t, 1, End(pieces[k - 1])) \o s \o Part(t, pieces[k])
                   = SubSeq(t, 1, End(pieces[k]))

LEMMA StrungStep ==
  ASSUME NEW S, NEW t \in Seq(S), NEW s \in Seq(S),
         NEW pieces, Between(t, s, pieces), NEW k \in DOMAIN pieces
  PROVE  Continued(t, s, pieces, k)
<1> DEFINE m == Len(pieces)
<1>1. /\ m \in Nat /\ DOMAIN pieces = 1 .. m /\ pieces[1].ofs = 0
      /\ \A i \in 1 .. m : pieces[i] \in Spans /\ End(pieces[i]) <= Len(t)
      /\ \A i \in 1 .. m - 1 :
           End(pieces[i]) \in Separators(t, s) /\ pieces[i + 1].ofs = End(pieces[i]) + Len(s)
  <2>1. pieces \in Seq(Within(t))
    BY DEF Between, Chain
  <2>2. \A i \in 1 .. m : pieces[i] \in Within(t)
    BY <2>1
  <2>3. \A i \in 1 .. m : pieces[i] \in Spans /\ End(pieces[i]) <= Len(t)
    BY <2>2 DEF Within
  <2> QED
    BY <2>1, <2>3 DEF Between, Chain
<1> HIDE DEF m
<1>2. CASE k = 1
  <2>1. 1 \in 1 .. m
    BY <1>1, <1>2
  <2>2. Part(t, pieces[1]) = SubSeq(t, pieces[1].ofs + 1, End(pieces[1]))
    BY <1>1, <2>1, PartIs
  <2>3. pieces[1].ofs + 1 = 1
    BY <1>1
  <2> QED
    BY <1>2, <2>2, <2>3 DEF Continued
<1>3. CASE k # 1
  <2> DEFINE e == End(pieces[k - 1])
             o == pieces[k].ofs
             n == End(pieces[k])
  <2>1. k - 1 \in 1 .. m - 1 /\ k - 1 \in 1 .. m /\ (k - 1) + 1 = k /\ k \in 1 .. m
    BY <1>1, <1>3
  <2>2. e \in Nat /\ o \in Nat /\ n \in Nat /\ o <= n /\ n <= Len(t) /\ e <= Len(t)
    <3>1. /\ pieces[k - 1] \in Spans /\ End(pieces[k - 1]) <= Len(t)
          /\ pieces[k] \in Spans /\ End(pieces[k]) <= Len(t)
      BY <1>1, <2>1
    <3> QED
      BY <3>1, SpanIs
  <2>3. e \in Separators(t, s) /\ o = e + Len(s)
    BY <1>1, <2>1
  <2>4. Part(t, pieces[k]) = SubSeq(t, o + 1, n)
    BY <1>1, <2>1, PartIs
  <2> HIDE DEF e, o, n
  <2>5. s = SubSeq(t, e + 1, o)
    BY <2>3 DEF Separators
  <2>6. SubSeq(t, 1, e) \o SubSeq(t, e + 1, o) = SubSeq(t, 1, o)
    <3>1. 1 \in 1 .. Len(t) + 1 /\ e \in 1 - 1 .. Len(t) /\ o \in e .. Len(t)
      BY <2>2, <2>3
    <3> QED
      BY <3>1, ConcatAdjacentSubSeq
  <2>7. SubSeq(t, 1, o) \o SubSeq(t, o + 1, n) = SubSeq(t, 1, n)
    <3>1. 1 \in 1 .. Len(t) + 1 /\ o \in 1 - 1 .. Len(t) /\ n \in o .. Len(t)
      BY <2>2
    <3> QED
      BY <3>1, ConcatAdjacentSubSeq
  <2>8. SubSeq(t, 1, e) \o s \o Part(t, pieces[k]) = SubSeq(t, 1, n)
    BY <2>4, <2>5, <2>6, <2>7
  <2> QED
    BY <1>1, <1>3, <2>1, <2>8 DEF e, n, Continued
<1> QED
  BY <1>2, <1>3

LEMMA StrungIs ==
  ASSUME NEW S, NEW t \in Seq(S), NEW s \in Seq(S),
         NEW pieces, Between(t, s, pieces)
  PROVE  Strung(Parts(t, pieces), s) = t /\ Parts(t, pieces) # <<>>
<1> DEFINE entries == Parts(t, pieces)
           Upto(k) == SubSeq(t, 1, End(pieces[k]))
           e == [k \in DOMAIN entries |-> Upto(k)]
           f == CHOOSE f : StringsUp(entries, s, f)
<1>1. /\ DOMAIN entries = DOMAIN pieces /\ DOMAIN pieces = 1 .. Len(pieces)
      /\ Len(pieces) \in Nat /\ Len(pieces) >= 1
      /\ \A k \in DOMAIN pieces : entries[k] = Part(t, pieces[k])
      /\ End(pieces[Len(pieces)]) = Len(t)
  BY DEF Parts, Between, Chain
<1>2. Len(entries) = Len(pieces)
  <2> DEFINE X == {Part(t, pieces[k]) : k \in DOMAIN pieces}
             m == Len(pieces)
  <2>1. entries \in [1 .. m -> X] /\ m \in Nat
    BY <1>1 DEF Parts
  <2> HIDE DEF entries, X, m
  <2>2. entries \in Seq(X)
    BY <2>1
  <2>3. Len(entries) = m
    BY <2>1, <2>2
  <2> QED
    BY <2>3 DEF m
<1> HIDE DEF entries
<1>3. \A k \in DOMAIN entries : /\ k = 1 => entries[1] = Upto(1)
                                /\ k # 1 => /\ k - 1 \in DOMAIN entries
                                            /\ Upto(k - 1) \o s \o entries[k] = Upto(k)
  <2> SUFFICES ASSUME NEW k \in DOMAIN pieces
               PROVE  /\ k = 1 => Part(t, pieces[1]) = Upto(1)
                      /\ k # 1 => /\ k - 1 \in DOMAIN pieces
                                  /\ Upto(k - 1) \o s \o Part(t, pieces[k]) = Upto(k)
    BY <1>1
  <2>1. Continued(t, s, pieces, k)
    BY StrungStep
  <2> QED
    BY <2>1 DEF Continued
<1> HIDE DEF Upto
<1>4. StringsUp(entries, s, e)
  <2>1. ASSUME NEW k \in DOMAIN entries
        PROVE  e[k] = IF k = 1 THEN entries[1] ELSE e[k - 1] \o s \o entries[k]
    BY <1>3
  <2>2. e = [k \in DOMAIN entries |-> e[k]]
    OBVIOUS
  <2> HIDE DEF e
  <2> QED
    BY <2>1, <2>2 DEF StringsUp
<1>5. StringsUp(entries, s, f)
  BY <1>4
<1>6. Strung(entries, s) = f[Len(entries)]
  BY DEF Strung, StringsUp
<1> HIDE DEF f, e
<1>7. \A k \in DOMAIN entries : f[k] = Upto(k)
  <2> DEFINE Bad == {k \in DOMAIN entries : f[k] # Upto(k)}
  <2> SUFFICES ASSUME Bad # {} PROVE FALSE
    OBVIOUS
  <2>1. Bad \subseteq Nat
    BY <1>1
  <2>2. PICK k \in Bad : \A z \in Bad : k <= z
    <3> HIDE DEF Bad
    <3> QED
      BY <2>1, LeastNatural
  <2>3. f[k] = IF k = 1 THEN entries[1] ELSE f[k - 1] \o s \o entries[k]
    BY <1>5 DEF StringsUp
  <2>4. k # 1
    BY <1>3, <2>3
  <2>5. k - 1 \in DOMAIN entries /\ k - 1 \notin Bad
    <3>1. k - 1 \in DOMAIN entries /\ k \in Nat
      BY <1>3, <2>1, <2>4
    <3>2. ~ k <= k - 1
      BY <3>1
    <3> QED
      BY <2>2, <3>1, <3>2
  <2>6. f[k - 1] = Upto(k - 1)
    BY <2>5
  <2> QED
    BY <1>3, <2>3, <2>4, <2>6
<1>8. Strung(entries, s) = Upto(Len(entries))
  BY <1>1, <1>2, <1>6, <1>7
<1>9. Upto(Len(entries)) = t
  BY <1>1, <1>2, SubSeqFull DEF Upto
<1>10. entries # <<>>
  BY <1>1, <1>2
<1> QED
  BY <1>8, <1>9, <1>10 DEF entries

LEMMA JoinIs ==
  ASSUME NEW S, NEW t \in Seq(S), NEW s \in Seq(S),
         NEW pieces, Between(t, s, pieces), Len(t) < IntMax
  PROVE  bjoin(Parts(t, pieces), s) = t
<1>1. Strung(Parts(t, pieces), s) = t /\ Parts(t, pieces) # <<>>
  BY StrungIs
<1>2. ~ Len(t) + 1 > IntMax
  <2>1. IntMax \in Nat /\ Len(t) \in Nat
    BY BstrTextAssumption
  <2> QED
    BY <2>1
<1> QED
  BY <1>1, <1>2 DEF bjoin, bjoinblk

LEMMA HeldSeparates ==
  ASSUME NEW S, NEW t \in Seq(S), NEW s \in Seq(S), NEW h \in HeldPlaces(t, s)
  PROVE  h \in Separators(t, s)
<1>1. h \in Occurs(t, s)
  BY OccursIs DEF HeldPlaces
<1>2. h \in Places(t, s) /\ SubSeq(t, h + 1, h + Len(s)) = s
  BY <1>1 DEF Occurs
<1>3. Len(t) \in Nat /\ Len(s) \in Nat /\ h \in 0 .. Len(t) - Len(s)
  BY <1>2 DEF Places
<1>4. h \in Nat /\ h + Len(s) <= Len(t)
  BY <1>3
<1> QED
  BY <1>2, <1>4 DEF Separators

(* What a part holds.                                                      *)
LEMMA PartHolds ==
  ASSUME NEW S, NEW t \in Seq(S), NEW s \in Seq(S), NEW g \in Within(t),
         NEW h \in Occurs(Part(t, g), s)
  PROVE  h \in Nat /\ h + Len(s) <= g.len /\ HeldAt(t, s, g.ofs + h)
<1> DEFINE u == Part(t, g)
<1>1. g \in Spans /\ End(g) <= Len(t) /\ g.ofs \in Nat /\ g.len \in Nat
  BY DEF Within, Spans
<1>2. u \in Seq(S) /\ Len(u) = g.len /\ \A i \in 1 .. g.len : u[i] = t[g.ofs + i]
  BY <1>1, PartIs
<1> HIDE DEF u
<1>3. h \in Places(u, s) /\ HeldAt(u, s, h)
  <2>1. h \in Occurs(u, s)
    BY DEF u
  <2> QED
    BY <1>2, <2>1, OccursIs
<1>4. Len(s) \in Nat /\ h \in Nat /\ h + Len(s) <= g.len
  <2>1. Len(s) \in Nat /\ h \in 0 .. g.len - Len(s)
    BY <1>2, <1>3 DEF Places
  <2> QED
    BY <1>1, <2>1
<1>5. ASSUME NEW j \in Positions(s) PROVE At(s, j) = At(t, (g.ofs + h) + j)
  <2>1. At(s, j) = u[(h + j) + 1]
    BY <1>3, <1>5 DEF HeldAt, At
  <2>2. /\ (h + j) + 1 \in 1 .. g.len
        /\ g.ofs + ((h + j) + 1) = ((g.ofs + h) + j) + 1
    <3>1. j \in 0 .. Len(s) - 1
      BY DEF Positions
    <3> DEFINE o == g.ofs
               l == g.len
    <3>2. o \in Nat /\ l \in Nat /\ h + Len(s) <= l
      BY <1>1, <1>4
    <3> HIDE DEF o, l
    <3>3. (h + j) + 1 \in 1 .. l /\ o + ((h + j) + 1) = ((o + h) + j) + 1
      BY <1>4, <3>1, <3>2
    <3> QED
      BY <3>3 DEF o, l
  <2>3. u[(h + j) + 1] = t[g.ofs + ((h + j) + 1)]
    BY <1>2, <2>2
  <2> QED
    BY <2>1, <2>2, <2>3 DEF At
<1> QED
  BY <1>4, <1>5 DEF HeldAt

(***************************************************************************)
(* The split by one character.                                             *)
(***************************************************************************)
Equal(t, c) == {i \in Positions(t) : At(t, i) = c}

LEMMA BsplitcbIs ==
  ASSUME NEW S, NEW t \in Seq(S), NEW c
  PROVE  Chain(bsplitcb(t, c, 0), 0, Len(t), 1, Clear(Len(t), Equal(t, c)), Equal(t, c))
<1>1. 0 \in 0 .. Len(t)
  OBVIOUS
<1>2. bsplitcb(t, c, 0) = Divided(t, Equal(t, c), 0)
  BY <1>1 DEF bsplitcb, Equal
<1>3. Equal(t, c) \subseteq Positions(t)
  BY DEF Equal
<1> QED
  BY <1>2, <1>3, DividedIs

LEMMA OneIsHeld ==
  ASSUME NEW t, NEW s, Len(t) \in Nat, Len(s) = 1
  PROVE  /\ Equal(t, At(s, 0)) = HeldPlaces(t, s)
         /\ \A i : HeldAt(t, s, i) <=> At(t, i + 0) = At(s, 0)
<1>1. Positions(s) = {0}
  <2>1. Positions(s) = 0 .. 0
    BY DEF Positions
  <2> QED
    BY <2>1
<1>2. ASSUME NEW i PROVE HeldAt(t, s, i) <=> At(t, i + 0) = At(s, 0)
  BY <1>1 DEF HeldAt
<1>3. Places(t, s) = Positions(t)
  BY DEF Places, Positions
<1>4. \A i \in Positions(t) : i + 0 = i
  BY DEF Positions
<1> QED
  BY <1>2, <1>3, <1>4 DEF Equal, HeldPlaces

LEMMA ClearWithin ==
  ASSUME NEW t, NEW seps
  PROVE  \A g \in Clear(Len(t), seps) : g \in Within(t)
BY DEF Clear, Within

LEMMA UntouchedWithin ==
  ASSUME NEW t, NEW s
  PROVE  \A g \in Untouched(t, s) : g \in Within(t)
BY DEF Untouched, Within

(* Split by one character, the parts do not hold it.                       *)
LEMMA ClearHoldsNone ==
  ASSUME NEW S, NEW t \in Seq(S), NEW s \in Seq(S), Len(s) = 1,
         NEW g \in Clear(Len(t), Equal(t, At(s, 0)))
  PROVE  Occurs(Part(t, g), s) = {}
<1> SUFFICES ASSUME NEW h \in Occurs(Part(t, g), s) PROVE FALSE
  OBVIOUS
<1>1. g \in Within(t)
  BY ClearWithin
<1>2. h \in Nat /\ h + 1 <= g.len /\ HeldAt(t, s, g.ofs + h)
  BY <1>1, PartHolds
<1>3. g.ofs \in Nat /\ g.len \in Nat /\ g.ofs + g.len <= Len(t)
  BY <1>1 DEF Within, Spans, End
<1> DEFINE i == g.ofs + h
<1>4. i \in Positions(t) /\ g.ofs <= i /\ i < g.ofs + g.len
  BY <1>2, <1>3 DEF Positions
<1> HIDE DEF i
<1>5. At(t, i) = At(s, 0)
  <2>1. i + 0 = i
    BY <1>4 DEF Positions
  <2> QED
    BY <1>2, <2>1, OneIsHeld DEF i
<1>6. i \in Equal(t, At(s, 0))
  BY <1>4, <1>5 DEF Equal
<1> QED
  BY <1>4, <1>6 DEF Clear, End

LEMMA UntouchedHoldsFirst ==
  ASSUME NEW S, NEW t \in Seq(S), NEW s \in Seq(S), NEW g \in Untouched(t, s)
  PROVE  Occurs(Part(t, g), s) \subseteq {0}
<1> SUFFICES ASSUME NEW h \in Occurs(Part(t, g), s), h # 0 PROVE FALSE
  OBVIOUS
<1>1. g \in Within(t)
  BY UntouchedWithin
<1>2. h \in Nat /\ h + Len(s) <= g.len /\ HeldAt(t, s, g.ofs + h)
  BY <1>1, PartHolds
<1>3. g.ofs \in Nat /\ g.len \in Nat /\ Len(s) \in Nat /\ End(g) = g.ofs + g.len
  BY <1>1 DEF Within, Spans, End
<1>4. g.ofs + h \in g.ofs + 1 .. End(g) - Len(s)
  BY <1>2, <1>3
<1> QED
  BY <1>2, <1>4 DEF Untouched

(***************************************************************************)
(* The split by a string.                                                  *)
(***************************************************************************)
LEMMA LetterByLetter ==
  ASSUME NEW S, NEW t \in Seq(S), t # <<>>, NEW pieces,
         pieces = [k \in 1 .. Len(t) |-> Piece(k - 1, k)]
  PROVE  Between(t, <<>>, pieces)
<1> DEFINE n == Len(t)
<1>1. n \in Nat /\ n >= 1
  OBVIOUS
<1>2. pieces = [k \in 1 .. n |-> Piece(k - 1, k)]
  OBVIOUS
<1>3. \A h \in 0 .. n : h \in Separators(t, <<>>)
  <2> SUFFICES ASSUME NEW h \in 0 .. n PROVE h \in Separators(t, <<>>)
    OBVIOUS
  <2>1. h \in Nat /\ Len(<<>>) = 0 /\ h + 0 <= Len(t) /\ h + 0 = h /\ h < h + 1
    OBVIOUS
  <2>2. SubSeq(t, h + 1, h) = <<>>
    BY <2>1, SubSeqEmpty
  <2> QED
    BY <2>1, <2>2 DEF Separators
<1> HIDE DEF n
<1>4. ASSUME NEW k \in 1 .. n
      PROVE  pieces[k] \in Spans /\ pieces[k].ofs = k - 1 /\ End(pieces[k]) = k
  <2>1. k - 1 \in Nat /\ k \in Nat /\ k - 1 <= k
    BY <1>1
  <2>2. pieces[k] = Piece(k - 1, k)
    BY <1>2
  <2>3. Piece(k - 1, k) \in Spans /\ Piece(k - 1, k).ofs = k - 1 /\ End(Piece(k - 1, k)) = k
    BY <2>1, PieceIs
  <2> QED
    BY <2>2, <2>3
<1>5. \A k \in 1 .. n : pieces[k] \in Within(t)
  BY <1>1, <1>4 DEF Within, n
<1>6. pieces \in Seq(Within(t)) /\ Len(pieces) = n
  <2>1. pieces \in [1 .. n -> Within(t)]
    BY <1>2, <1>5
  <2>2. pieces \in Seq(Within(t))
    BY <1>1, <2>1
  <2> QED
    BY <1>1, <2>1, <2>2
<1>7. pieces[1].ofs = 0 /\ End(pieces[n]) = n
  <2>1. 1 \in 1 .. n /\ n \in 1 .. n /\ 1 - 1 = 0
    BY <1>1
  <2> QED
    BY <1>4, <2>1
<1>8. ASSUME NEW k \in 1 .. n - 1
      PROVE  End(pieces[k]) \in Separators(t, <<>>) /\ pieces[k + 1].ofs = End(pieces[k]) + 0
  <2>1. k \in 1 .. n /\ k \in 0 .. n /\ k + 1 \in 1 .. n /\ (k + 1) - 1 = k + 0
    BY <1>1
  <2> QED
    BY <1>3, <1>4, <2>1
<1>9. Len(<<>>) = 0 /\ n = Len(t)
  BY DEF n
<1> QED
  BY <1>1, <1>6, <1>7, <1>8, <1>9 DEF Between, Chain

LEMMA LoopOf ==
  ASSUME NEW t, NEW s, 0 \in 0 .. Len(t), s # <<>>
  PROVE  bsplitstrcb(t, s, 0) = IF Len(s) = 1 THEN bsplitcb(t, At(s, 0), 0)
                                ELSE DividedByString(t, s, 0)
BY Zenon DEF bsplitstrcb

(* The pieces rebuild the text, and those of a split by a string of one    *)
(* character do not hold it, those of a longer one only where they begin,  *)
(* and the first not at all.                                               *)
LEMMA BsplitstrcbIs ==
  ASSUME NEW S, NEW t \in Seq(S), NEW s \in Seq(S),
         NEW pieces, pieces = bsplitstrcb(t, s, 0)
  PROVE  /\ Between(t, s, pieces) \/ (t = <<>> /\ pieces = <<>>)
         /\ s # <<>> =>
              \A k \in DOMAIN pieces : Occurs(Part(t, pieces[k]), s) \subseteq Unseen(k, s)
<1>1. Len(t) \in Nat /\ Len(s) \in Nat /\ 0 \in 0 .. Len(t)
  OBVIOUS
<1>2. CASE s = <<>>
  <2>1. pieces = [k \in 1 .. Len(t) |-> Piece(k - 1, k)]
    <3>1. Len(t) - 0 = Len(t) /\ \A k \in 1 .. Len(t) : (0 + k) - 1 = k - 1 /\ 0 + k = k
      BY <1>1
    <3> QED
      BY <1>1, <1>2, <3>1 DEF bsplitstrcb
  <2>2. CASE t = <<>>
    <3>1. Len(t) = 0 /\ 1 .. 0 = {}
      BY <2>2
    <3>2. pieces = <<>>
      BY <2>1, <3>1
    <3> QED
      BY <1>2, <2>2, <3>2
  <2>3. CASE t # <<>>
    <3>1. Between(t, <<>>, pieces)
      BY <2>1, <2>3, LetterByLetter
    <3> QED
      BY <1>2, <3>1
  <2> QED
    BY <2>2, <2>3
<1>3. CASE Len(s) = 1
  <2> DEFINE H == Equal(t, At(s, 0))
             G == Clear(Len(t), H)
  <2>1. pieces = bsplitcb(t, At(s, 0), 0)
    <3>1. s # <<>>
      <4>1. Len(<<>>) = 0 /\ 0 # 1
        OBVIOUS
      <4> QED
        BY <1>3, <4>1, Zenon
    <3>2. bsplitstrcb(t, s, 0) = bsplitcb(t, At(s, 0), 0)
      BY <1>1, <1>3, <3>1, LoopOf
    <3> QED
      BY <3>2, Zenon
  <2>2. Chain(pieces, 0, Len(t), Len(s), G, H)
    BY <1>3, <2>1, BsplitcbIs
  <2>3. \A h \in H : h \in Separators(t, s)
    BY <1>1, <1>3, OneIsHeld, HeldSeparates
  <2>4. \A g \in G : g \in Within(t)
    BY ClearWithin
  <2>5. \A g \in G : Occurs(Part(t, g), s) = {}
    BY <1>3, ClearHoldsNone
  <2> HIDE DEF G, H
  <2>6. Between(t, s, pieces)
    BY <2>2, <2>3, <2>4, ChainWithin
  <2>7. \A k \in DOMAIN pieces : pieces[k] \in G
    BY <2>2 DEF Chain
  <2> QED
    BY <2>5, <2>6, <2>7
<1>4. CASE Len(s) > 1
  <2>0. Len(s) # 1 /\ Len(s) >= 2 /\ s # <<>>
    <3> DEFINE n == Len(s)
    <3>1. n \in Nat /\ n > 1 /\ (s = <<>> => n = 0)
      BY <1>4
    <3> HIDE DEF n
    <3>2. n # 1 /\ n >= 2 /\ s # <<>>
      BY <3>1
    <3> QED
      BY <3>2 DEF n
  <2> DEFINE H == HeldPlaces(t, s)
             G == Untouched(t, s)
  <2>1. pieces = DividedByString(t, s, 0)
    BY <1>1, <2>0, LoopOf
  <2>2. Chain(pieces, 0, Len(t), Len(s), G, H)
    BY <1>1, <2>0, <2>1, DividedByStringIs
  <2>3. \A h \in H : h \in Separators(t, s)
    BY HeldSeparates
  <2>4. \A g \in G : g \in Within(t)
    BY UntouchedWithin
  <2>5. \A g \in G : Occurs(Part(t, g), s) \subseteq {0}
    BY UntouchedHoldsFirst
  <2> HIDE DEF G, H
  <2>6. Between(t, s, pieces)
    BY <2>2, <2>3, <2>4, ChainWithin
  <2>7. \A k \in DOMAIN pieces : pieces[k] \in G
    BY <2>2 DEF Chain
  <2>8. ASSUME NEW k \in DOMAIN pieces PROVE Occurs(Part(t, pieces[k]), s) \subseteq Unseen(k, s)
    <3>1. Occurs(Part(t, pieces[k]), s) \subseteq {0} /\ pieces[k] \in Within(t)
      BY <2>4, <2>5, <2>7
    <3>2. k \in Nat /\ k >= 1
      BY <2>2 DEF Chain
    <3>3. CASE k > 1
      BY <1>4, <3>1, <3>3 DEF Unseen
    <3>4. CASE k = 1
      <4> SUFFICES ASSUME NEW h \in Occurs(Part(t, pieces[k]), s) PROVE FALSE
        OBVIOUS
      <4>1. h = 0 /\ h \in Nat /\ h + Len(s) <= pieces[k].len /\ HeldAt(t, s, pieces[k].ofs + h)
        BY <3>1, PartHolds
      <4>2. pieces[k].ofs = 0
        BY <2>2, <3>4 DEF Chain
      <4>3. HeldAt(t, s, 0) /\ Len(s) <= pieces[k].len
        <5>1. 0 + 0 = 0 /\ 0 + Len(s) = Len(s)
          BY <1>1
        <5> QED
          BY <4>1, <4>2, <5>1
      <4>4. pieces[k].len \in Nat /\ pieces[k].len <= Len(t)
        <5>1. pieces[k] \in Spans /\ pieces[k].ofs + pieces[k].len <= Len(t)
          BY <3>1 DEF Within, End
        <5> QED
          BY <4>2, <5>1 DEF Spans
      <4>5. pieces[k] = Piece(0, 0)
        <5>1. Len(s) <= Len(t)
          BY <1>1, <4>3, <4>4
        <5> QED
          BY <1>1, <2>0, <2>1, <3>4, <4>3, <5>1, FirstPieceIs
      <4>6. pieces[k].len = 0
        BY <4>5 DEF Piece
      <4> QED
        BY <1>1, <2>0, <4>3, <4>6
    <3> QED
      BY <3>2, <3>3, <3>4
  <2> QED
    BY <2>6, <2>8
<1>5. s = <<>> \/ Len(s) = 1 \/ Len(s) > 1
  <2>1. s # <<>> => Len(s) # 0
    OBVIOUS
  <2> QED
    BY <1>1, <2>1
<1> QED
  BY <1>2, <1>3, <1>4, <1>5

(* What bsplitstrcb divides by a string that is not empty rebuilds the     *)
(* text, and no piece holds the string where it is not to (Unseen).        *)
THEOREM SplitsByStrings ==
  \A t, s \in Seq(Int) : s # <<>> => SplitByString(t, s)
<1> SUFFICES ASSUME NEW t \in Seq(Int), NEW s \in Seq(Int), s # <<>> PROVE SplitByString(t, s)
  OBVIOUS
<1> DEFINE pieces == bsplitstrcb(t, s, 0)
<1>1. /\ Between(t, s, pieces) \/ (t = <<>> /\ pieces = <<>>)
      /\ \A k \in DOMAIN pieces : Occurs(Part(t, pieces[k]), s) \subseteq Unseen(k, s)
  BY BsplitstrcbIs
<1> HIDE DEF pieces
<1>2. ASSUME Len(t) < IntMax PROVE bjoin(Parts(t, pieces), s) = t
  <2>1. CASE Between(t, s, pieces)
    BY <1>2, <2>1, JoinIs
  <2>2. CASE t = <<>> /\ pieces = <<>>
    <3>1. Parts(t, pieces) = <<>>
      BY <2>2 DEF Parts
    <3> QED
      BY <2>2, <3>1 DEF bjoin, bjoinblk
  <2> QED
    BY <1>1, <2>1, <2>2
<1> QED
  BY <1>1, <1>2 DEF SplitByString, pieces

(***************************************************************************)
(* The split by any of the characters of a string.                         *)
(***************************************************************************)
LEMMA ChainAbuts ==
  ASSUME NEW t, NEW gap, NEW G, NEW H, NEW pieces, Chain(pieces, 0, Len(t), gap, G, H)
  PROVE  Abutting(t, pieces, gap)
BY DEF Chain, Abutting, End

LEMMA MembersIs ==
  ASSUME NEW t \in Seq(Byte), NEW s \in Seq(Byte), s # <<>>
  PROVE  bsplitscb(t, s, 0) = Divided(t, Members(t, s), 0)
<1>1. 0 \in 0 .. Len(t)
  OBVIOUS
<1>2. CASE Len(s) = 1
  <2>1. Positions(s) = {0}
    <3>1. Positions(s) = 0 .. 0
      BY <1>2 DEF Positions
    <3> QED
      BY <3>1
  <2>2. \A c : Among(s, c) <=> c = At(s, 0)
    BY <2>1 DEF Among
  <2>3. Members(t, s) = {i \in Positions(t) : At(t, i) = At(s, 0)}
    BY <2>2 DEF Members
  <2> QED
    BY <1>1, <1>2, <2>3 DEF bsplitscb, bsplitcb
<1>3. CASE Len(s) # 1
  <2>1. \A i \in Positions(t) :
          testInCharField(buildCharField(s), At(t, i)) <=> Among(s, At(t, i))
    BY AtIs, FieldIs
  <2>2. Members(t, s) = {i \in Positions(t) : testInCharField(buildCharField(s), At(t, i))}
    BY <2>1 DEF Members
  <2> QED
    BY <1>1, <1>3, <2>2 DEF bsplitscb
<1> QED
  BY <1>2, <1>3

LEMMA ClearSharesNone ==
  ASSUME NEW S, NEW t \in Seq(S), NEW s \in Seq(S), NEW g \in Clear(Len(t), Members(t, s))
  PROVE  Characters(Part(t, g)) \cap Characters(s) = {}
<1> DEFINE u == Part(t, g)
<1>1. g \in Spans /\ g.ofs \in Nat /\ g.len \in Nat /\ End(g) = g.ofs + g.len /\ End(g) <= Len(t)
  BY DEF Clear, Spans, End
<1>2. DOMAIN u = 1 .. g.len /\ \A i \in 1 .. g.len : u[i] = t[g.ofs + i]
  BY <1>1, PartIs
<1> SUFFICES ASSUME NEW x \in Characters(u), x \in Characters(s) PROVE FALSE
  OBVIOUS
<1> HIDE DEF u
<1>3. PICK i \in 1 .. g.len : x = t[g.ofs + i]
  BY <1>2 DEF Characters
<1>4. PICK j \in 1 .. Len(s) : x = s[j]
  BY DEF Characters
<1> DEFINE o == g.ofs
           l == g.len
           p == (o + i) - 1
<1>5. o \in Nat /\ l \in Nat /\ o + l <= Len(t) /\ i \in 1 .. l /\ Len(t) \in Nat
  BY <1>1
<1> HIDE DEF o, l
<1>6. p \in Positions(t) /\ o <= p /\ p < o + l /\ p + 1 = o + i
  BY <1>5 DEF Positions
<1>7. j - 1 \in Positions(s) /\ (j - 1) + 1 = j
  BY DEF Positions
<1>8. At(t, p) = At(s, j - 1)
  <2>1. t[p + 1] = x
    BY <1>3, <1>6 DEF o
  <2>2. s[(j - 1) + 1] = x
    BY <1>4, <1>7
  <2> QED
    BY <2>1, <2>2 DEF At
<1>9. p \in Members(t, s)
  BY <1>6, <1>7, <1>8 DEF Members, Among
<1>10. ~ (g.ofs <= p /\ p < End(g))
  BY <1>9 DEF Clear
<1> QED
  BY <1>1, <1>6, <1>10 DEF o, l

(* What bsplitscb divides lies side by side, and no piece holds one of the *)
(* characters it was divided by.                                           *)
THEOREM SplitsByCharacters ==
  \A t, s \in Seq(Byte) : SplitByAny(t, s)
<1> SUFFICES ASSUME NEW t \in Seq(Byte), NEW s \in Seq(Byte) PROVE SplitByAny(t, s)
  OBVIOUS
<1> DEFINE pieces == bsplitscb(t, s, 0)
<1>1. CASE s = <<>>
  <2>1. pieces = <<Piece(0, Len(t))>>
    <3>1. 0 \in 0 .. Len(t)
      OBVIOUS
    <3> QED
      BY <1>1, <3>1 DEF bsplitscb
  <2>2. /\ Piece(0, Len(t)) \in Spans /\ Piece(0, Len(t)).ofs = 0
        /\ End(Piece(0, Len(t))) = Len(t)
    <3>1. 0 \in Nat /\ Len(t) \in Nat /\ 0 <= Len(t)
      OBVIOUS
    <3> QED
      BY <3>1, PieceIs
  <2> HIDE DEF pieces
  <2>3. Chain(pieces, 0, Len(t), 1, Spans, {})
    BY <2>1, <2>2, ChainOne
  <2>4. Abutting(t, pieces, 1)
    BY <2>3, ChainAbuts
  <2> QED
    BY <1>1, <2>4 DEF SplitByAny, pieces
<1>2. CASE s # <<>>
  <2> DEFINE H == Members(t, s)
             G == Clear(Len(t), H)
  <2>1. Chain(pieces, 0, Len(t), 1, G, H)
    <3>1. H \subseteq Positions(t)
      BY DEF Members
    <3>2. pieces = Divided(t, H, 0)
      BY <1>2, MembersIs
    <3> HIDE DEF pieces, H
    <3> QED
      BY <3>1, <3>2, DividedIs
  <2>2. \A g \in G : Characters(Part(t, g)) \cap Characters(s) = {}
    BY ClearSharesNone
  <2> HIDE DEF pieces, G, H
  <2>3. Abutting(t, pieces, 1)
    BY <2>1, ChainAbuts
  <2>4. \A k \in DOMAIN pieces : pieces[k] \in G
    BY <2>1 DEF Chain
  <2> QED
    BY <2>2, <2>3, <2>4 DEF SplitByAny, pieces
<1> QED
  BY <1>1, <1>2

(***************************************************************************)
(* Lists.                                                                  *)
(***************************************************************************)
LEMMA MaxOfTwo ==
  ASSUME NEW a \in Int, NEW c \in Int
  PROVE  Max({a, c}) = IF a >= c THEN a ELSE c
<1> DEFINE m == IF a >= c THEN a ELSE c
           D == {a, c}
<1>1. D \subseteq Int /\ D # {} /\ m \in D /\ \A x \in D : m >= x
  OBVIOUS
<1> HIDE DEF D, m
<1>2. Greatest(D) = m
  BY <1>1, GreatestIs
<1>3. Max(D) = m
  BY <1>1, <1>2 DEF Greatest
<1> QED
  BY <1>3 DEF D, m

(* A size is rounded up, if at all.                                        *)
LEMMA SnapIsAbove ==
  ASSUME NEW i \in Nat, i >= 1
  PROVE  snapUpSize(i) \in Int /\ snapUpSize(i) >= i
<1>1. MinAlloc \in Int /\ IntMax \in Int /\ IntMax >= 0
  BY BstrTextAssumption
<1>2. CASE i < MinAlloc
  BY <1>1, <1>2 DEF snapUpSize
<1>3. CASE ~ i < MinAlloc
  <2> DEFINE Enough(e) == 2 ^ e > i \/ e = i
             First(e) == (\A d \in 1 .. e - 1 : 2 ^ d <= i) /\ Enough(e)
             E == {e \in 1 .. i : Enough(e)}
             above == CHOOSE e \in 1 .. i : First(e)
             j == 2 ^ above
  <2>1. \E e \in 1 .. i : First(e)
    <3>1. E \subseteq Nat /\ i \in E
      OBVIOUS
    <3>2. PICK e \in E : \A d \in E : e <= d
      <4> HIDE DEF E
      <4> QED
        BY <3>1, LeastNatural
    <3>3. ASSUME NEW d \in 1 .. e - 1 PROVE 2 ^ d <= i
      <4>1. d \in 1 .. i /\ ~ e <= d /\ d \in Nat /\ 2 ^ d \in Int
        OBVIOUS
      <4>2. ~ Enough(d)
        BY <3>2, <4>1
      <4> QED
        BY <4>1, <4>2
    <3> QED
      BY <3>3
  <2>2. above \in 1 .. i
    <3> HIDE DEF First
    <3> QED
      BY <2>1
  <2>3. snapUpSize(i) = IF Wrap(j) >= i THEN j ELSE i
    BY <1>3 DEF snapUpSize
  <2> HIDE DEF above
  <2>4. j \in Int
    BY <2>2
  <2> HIDE DEF j
  <2>5. Wrap(j) >= i => j >= i
    BY <1>1, <2>4 DEF Wrap
  <2> QED
    BY <2>3, <2>4, <2>5
<1> QED
  BY <1>2, <1>3

(* The lists that hold the first k pieces, but for those that were not     *)
(* allocated, in tables of room for them.                                  *)
Holding(t, pieces, k) ==
  {bl \in [entry : Seq({Null} \union Seq(Byte)), mlen : Nat \ {0}] :
     /\ Len(bl.entry) = k /\ k <= bl.mlen
     /\ \A i \in 1 .. k : bl.entry[i] \in {Null, Part(t, pieces[i])}}

LEMMA BscbHolds ==
  ASSUME NEW t, NEW pieces, NEW k \in Nat, k >= 1, Part(t, pieces[k]) \in Seq(Byte),
         NEW bls, bls \subseteq Holding(t, pieces, k - 1)
  PROVE  bscb(bls, Part(t, pieces[k])) \subseteq Holding(t, pieces, k)
<1> DEFINE part == Part(t, pieces[k])
           X == {Null} \union Seq(Byte)
<1> SUFFICES ASSUME NEW x \in bscb(bls, part) PROVE x \in Holding(t, pieces, k)
  OBVIOUS
<1>1. part \in X /\ Null \in X
  OBVIOUS
<1> HIDE DEF part, X
<1> DEFINE B == UNION {Grown(c) : c \in bls}
           E == {part, Null}
<1>2. PICK bl \in B : \E e \in E : x = [entry |-> Append(bl.entry, e), mlen |-> bl.mlen]
  <2>1. bscb(bls, part) = {[entry |-> Append(bl.entry, e), mlen |-> bl.mlen] : bl \in B, e \in E}
    BY DEF bscb
  <2> HIDE DEF B, E
  <2> QED
    BY <2>1
<1>3. PICK e \in E : x = [entry |-> Append(bl.entry, e), mlen |-> bl.mlen]
  BY <1>2
<1>4. PICK c \in bls : bl \in Grown(c)
  OBVIOUS
<1>5. /\ c \in [entry : Seq(X), mlen : Nat \ {0}]
      /\ Len(c.entry) = k - 1 /\ k - 1 <= c.mlen
      /\ \A i \in 1 .. k - 1 : c.entry[i] \in {Null, Part(t, pieces[i])}
  BY DEF Holding, X
<1>6. bl.entry = c.entry /\ bl.mlen \in Nat \ {0} /\ k <= bl.mlen
  <2>1. c.mlen \in Nat /\ c.mlen >= 1
    BY <1>5
  <2>2. CASE Len(c.entry) < c.mlen
    BY <1>4, <1>5, <2>1, <2>2 DEF Grown
  <2>3. CASE ~ Len(c.entry) < c.mlen
    <3>1. bl = [c EXCEPT !.mlen = 2 * c.mlen]
      BY <1>4, <2>3 DEF Grown
    <3>2. bl.entry = c.entry /\ bl.mlen = 2 * c.mlen
      BY <1>5, <3>1
    <3>3. 2 * c.mlen \in Nat \ {0} /\ k <= 2 * c.mlen
      BY <1>5, <2>1
    <3> QED
      BY <3>2, <3>3
  <2> QED
    BY <2>2, <2>3
<1> DEFINE q == c.entry
           z == Append(q, e)
<1>7. q \in Seq(X) /\ Len(q) = k - 1 /\ e \in X
  BY <1>1, <1>5
<1>8. x = [entry |-> z, mlen |-> bl.mlen]
  BY <1>3, <1>6
<1>9. \A i \in 1 .. k - 1 : q[i] \in {Null, Part(t, pieces[i])}
  BY <1>5
<1> HIDE DEF q
<1>10. z \in Seq(X) /\ Len(z) = k /\ z[k] = e /\ \A i \in 1 .. k - 1 : z[i] = q[i]
  BY <1>7
<1> HIDE DEF z
<1>11. ASSUME NEW i \in 1 .. k PROVE z[i] \in {Null, Part(t, pieces[i])}
  <2>1. CASE i = k
    BY <1>10, <2>1 DEF part
  <2>2. CASE i # k
    <3>1. i \in 1 .. k - 1
      BY <2>2
    <3> QED
      BY <1>9, <1>10, <3>1
  <2> QED
    BY <2>1, <2>2
<1> QED
  BY <1>6, <1>8, <1>10, <1>11 DEF Holding, X

Collects(bls, t, pieces, f) ==
  f = [k \in 0 .. Len(pieces) |->
         IF k = 0 THEN bls ELSE bscb(f[k - 1], Part(t, pieces[k]))]

LEMMA CollectsExists ==
  ASSUME NEW bls, NEW t, NEW pieces, Len(pieces) \in Nat
  PROVE  \E f : Collects(bls, t, pieces, f)
<1> DEFINE n == Len(pieces)
           Item(f, k) == IF k = 0 THEN bls ELSE bscb(f[k - 1], Part(t, pieces[k]))
           Upto(f, m) == f = [k \in 0 .. n |-> f[k]] /\ \A k \in 0 .. m : f[k] = Item(f, k)
           None == {m \in 0 .. n : ~ \E f : Upto(f, m)}
<1>0. n \in Nat
  OBVIOUS
<1>1. None = {}
  <2> SUFFICES ASSUME None # {} PROVE FALSE
    OBVIOUS
  <2>1. PICK m \in None : \A k \in None : m <= k
    <3>1. None \subseteq Nat
      OBVIOUS
    <3> HIDE DEF None
    <3> QED
      BY <3>1, LeastNatural
  <2>2. m # 0
    <3> SUFFICES ASSUME m = 0 PROVE FALSE
      OBVIOUS
    <3> DEFINE f == [k \in 0 .. n |-> bls]
    <3>1. f = [k \in 0 .. n |-> f[k]] /\ \A k \in 0 .. 0 : f[k] = Item(f, k)
      BY <1>0
    <3> QED
      BY <3>1
  <2>3. m - 1 \in 0 .. n /\ m - 1 \notin None /\ m \in 0 .. n
    <3>1. m \in 0 .. n /\ m - 1 \in 0 .. n /\ ~ m <= m - 1
      BY <1>0, <2>2
    <3> QED
      BY <2>1, <3>1
  <2>4. PICK f : Upto(f, m - 1)
    BY <2>3
  <2> DEFINE g == [f EXCEPT ![m] = Item(f, m)]
  <2>5. /\ g = [k \in 0 .. n |-> g[k]] /\ g[m] = Item(f, m)
        /\ \A k \in 0 .. n : k # m => g[k] = f[k]
    BY <2>3, <2>4
  <2> HIDE DEF g
  <2>6. ASSUME NEW k \in 0 .. m PROVE g[k] = Item(g, k)
    <3>1. Item(g, k) = Item(f, k)
      <4>1. k # 0 => k - 1 \in 0 .. n /\ k - 1 # m
        BY <2>3
      <4> QED
        BY <2>5, <4>1
    <3>2. CASE k = m
      BY <2>5, <3>1, <3>2
    <3>3. CASE k # m
      <4>1. k \in 0 .. m - 1 /\ k \in 0 .. n
        BY <2>3, <3>3
      <4> QED
        BY <2>4, <2>5, <3>1, <3>3, <4>1
    <3> QED
      BY <3>2, <3>3
  <2>7. Upto(g, m)
    BY <2>5, <2>6
  <2> QED
    BY <2>1, <2>7
<1>2. PICK f : Upto(f, n)
  BY <1>0, <1>1
<1>3. f = [k \in 0 .. n |-> Item(f, k)]
  BY <1>2
<1> QED
  BY <1>3 DEF Collects

LEMMA SplitHolds ==
  ASSUME NEW t \in Seq(Byte), NEW pieces \in Seq(Within(t))
  PROVE  Split(t, pieces) \subseteq Holding(t, pieces, Len(pieces))
<1> DEFINE n == Len(pieces)
           bls == {[entry |-> <<>>, mlen |-> 4]}
           f == CHOOSE f : Collects(bls, t, pieces, f)
<1>1. n \in Nat /\ \A k \in 1 .. n : Part(t, pieces[k]) \in Seq(Byte)
  <2>1. \A k \in 1 .. n : pieces[k] \in Within(t)
    OBVIOUS
  <2> QED
    BY <2>1, PartIs DEF Within
<1>2. Collects(bls, t, pieces, f)
  BY <1>1, CollectsExists
<1>3. Split(t, pieces) = f[n]
  BY DEF Split, Collected, Collects
<1>4. bls \subseteq Holding(t, pieces, 0)
  <2>1. 4 \in Nat \ {0} /\ <<>> \in Seq({Null} \union Seq(Byte)) /\ Len(<<>>) = 0 /\ 1 .. 0 = {}
    OBVIOUS
  <2> QED
    BY <2>1 DEF Holding
<1> HIDE DEF f, bls
<1>5. /\ f[0] = bls
      /\ \A k \in 1 .. n : f[k] = bscb(f[k - 1], Part(t, pieces[k]))
  <2>1. \A k \in 0 .. n : f[k] = IF k = 0 THEN bls ELSE bscb(f[k - 1], Part(t, pieces[k]))
    BY <1>2, Zenon DEF Collects
  <2>2. 0 \in 0 .. n /\ \A k \in 1 .. n : k \in 0 .. n /\ k # 0
    BY <1>1
  <2> HIDE DEF n
  <2> QED
    BY <2>1, <2>2, Zenon
<1> HIDE DEF n
<1> DEFINE Bad == {k \in 0 .. n : ~ f[k] \subseteq Holding(t, pieces, k)}
<1>6. Bad = {}
  <2> SUFFICES ASSUME Bad # {} PROVE FALSE
    OBVIOUS
  <2>1. PICK k \in Bad : \A z \in Bad : k <= z
    <3>1. Bad \subseteq Nat
      BY <1>1
    <3> HIDE DEF Bad
    <3> QED
      BY <3>1, LeastNatural
  <2>2. k # 0
    BY <1>4, <1>5
  <2>3. k \in 1 .. n /\ k \in Nat /\ k >= 1 /\ k - 1 \in 0 .. n /\ k - 1 \notin Bad
    BY <1>1, <2>1, <2>2
  <2>4. f[k - 1] \subseteq Holding(t, pieces, k - 1)
    BY <2>3
  <2>5. f[k] \subseteq Holding(t, pieces, k)
    BY <1>1, <1>5, <2>3, <2>4, BscbHolds
  <2> QED
    BY <2>5
<1>7. f[n] \subseteq Holding(t, pieces, n)
  BY <1>1, <1>6
<1> QED
  BY <1>3, <1>7 DEF n

LEMMA AllocatedHolds ==
  ASSUME NEW bl, bl.mlen \in Nat, Len(bl.entry) \in Nat, Len(bl.entry) <= bl.mlen,
         bl = [entry |-> bl.entry, mlen |-> bl.mlen], NEW msz \in Nat,
         NEW sl \in bstrListAlloc(bl, msz) \union bstrListAllocMin(bl, msz)
  PROVE  sl.entry = bl.entry /\ Len(bl.entry) <= sl.mlen
<1> DEFINE l == Len(bl.entry)
           m == bl.mlen
<1>1. l \in Nat /\ m \in Nat /\ l <= m
  OBVIOUS
<1>2. \A n : LET z == [bl EXCEPT !.mlen = n] IN z.entry = bl.entry /\ z.mlen = n
  OBVIOUS
<1>3. CASE sl = bl
  BY <1>3
<1>4. CASE sl # bl /\ sl \in bstrListAlloc(bl, msz)
  <2>1. PICK n \in {m, snapUpSize(msz), msz} :
          msz >= 1 /\ m < msz /\ sl = [bl EXCEPT !.mlen = n]
    BY <1>4 DEF bstrListAlloc
  <2>2. snapUpSize(msz) \in Int /\ snapUpSize(msz) >= msz
    BY <2>1, SnapIsAbove
  <2> HIDE DEF l, m
  <2>3. l <= n
    BY <1>1, <2>1, <2>2
  <2> QED
    BY <1>2, <2>1, <2>3 DEF l
<1>5. CASE sl # bl /\ sl \in bstrListAllocMin(bl, msz)
  <2>1. PICK n \in {m, Max({msz, l})} : sl = [bl EXCEPT !.mlen = n]
    BY <1>5 DEF bstrListAllocMin
  <2>2. Max({msz, l}) = IF msz >= l THEN msz ELSE l
    BY <1>1, MaxOfTwo
  <2> HIDE DEF l, m
  <2>3. l <= n
    BY <1>1, <2>1, <2>2
  <2> QED
    BY <1>2, <2>1, <2>3 DEF l
<1> QED
  BY <1>3, <1>4, <1>5

(* A list made of the pieces of bsplitstrcb has them all, but for those    *)
(* without memory, and room for them, before and after it is resized.      *)
THEOREM ListsOfParts ==
  \A t, s \in Seq(Byte) : ListsHold(t, s)
<1> SUFFICES ASSUME NEW t \in Seq(Byte), NEW s \in Seq(Byte) PROVE ListsHold(t, s)
  OBVIOUS
<1> DEFINE pieces == bsplitstrcb(t, s, 0)
<1>1. pieces \in Seq(Within(t))
  <2>1. Between(t, s, pieces) \/ pieces = <<>>
    BY BsplitstrcbIs
  <2> HIDE DEF pieces
  <2>2. <<>> \in Seq(Within(t))
    OBVIOUS
  <2> QED
    BY <2>1, <2>2 DEF Between, Chain
<1> HIDE DEF pieces
<1> SUFFICES ASSUME NEW bl \in Split(t, pieces)
             PROVE  /\ Len(bl.entry) = Len(pieces) /\ Len(bl.entry) <= bl.mlen
                    /\ \A k \in DOMAIN pieces : bl.entry[k] \in {Null, Part(t, pieces[k])}
                    /\ \A msz \in 0 .. 4 :
                         \A sl \in bstrListAlloc(bl, msz) \union bstrListAllocMin(bl, msz) :
                           sl.entry = bl.entry /\ Len(bl.entry) <= sl.mlen
  BY DEF ListsHold, pieces
<1>2. bl \in Holding(t, pieces, Len(pieces))
  BY <1>1, SplitHolds
<1>3. /\ Len(bl.entry) = Len(pieces) /\ Len(bl.entry) <= bl.mlen
      /\ \A k \in DOMAIN pieces : bl.entry[k] \in {Null, Part(t, pieces[k])}
      /\ bl.mlen \in Nat /\ Len(bl.entry) \in Nat
      /\ bl = [entry |-> bl.entry, mlen |-> bl.mlen]
  BY <1>1, <1>2 DEF Holding
<1>4. ASSUME NEW msz \in 0 .. 4,
             NEW sl \in bstrListAlloc(bl, msz) \union bstrListAllocMin(bl, msz)
      PROVE  sl.entry = bl.entry /\ Len(bl.entry) <= sl.mlen
  <2>1. msz \in Nat
    OBVIOUS
  <2> QED
    BY <1>3, <2>1, AllocatedHolds
<1> QED
  BY <1>3, <1>4

(* In every state: what a text was split into rebuilds it, for it does so  *)
(* for all texts of bytes.                                                 *)
THEOREM SplitsAlwaysJoinBack == []SplitsJoinBack
<1>1. SplitsJoinBack
  <2> SUFFICES ASSUME NEW t \in Probed, NEW s \in Probes(t)
               PROVE  SplitByAny(t, s) /\ (s # <<>> => SplitByString(t, s) /\ ListsHold(t, s))
    BY DEF SplitsJoinBack
  <2>1. t \in Seq(Byte) /\ s \in Seq(Byte)
    BY ProbedAreTexts, ProbesAreTexts
  <2>2. t \in Seq(Int) /\ s \in Seq(Int)
    BY <2>1, BytesAreInts
  <2> QED
    BY <2>1, <2>2, SplitsByCharacters, SplitsByStrings, ListsOfParts
<1> QED
  BY <1>1, PTL
=============================================================================
