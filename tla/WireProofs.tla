----------------------------- MODULE WireProofs -----------------------------
(***************************************************************************)
(* The journey of a packet for every set of packets whose fields have the  *)
(* ranges of their bits and that fit the byte of their length, every table *)
(* the router may broadcast and every wrong checksum of a test case; and,  *)
(* for every sum of bytes, which of the packets that one program           *)
(* serialises the other accepts.                                           *)
(***************************************************************************)
EXTENDS Wire, SequenceTheorems, FiniteSetTheorems, TLAPS

-----------------------------------------------------------------------------
(* The checksums. *)

\* A sum and its two bytes.
LEMMA Bytes ==
  ASSUME NEW S \in Nat, S <= 255 * 255
  PROVE  /\ S % 256 \in 0 .. 255
         /\ S \div 256 \in 0 .. 254
         /\ S = 256 * (S \div 256) + (S % 256)
         /\ S \div 256 = 0 <=> S < 256
<1>1. S % 256 \in 0 .. 255 /\ S = 256 * (S \div 256) + (S % 256)
  BY SMT
<1>2. S \div 256 \in Int
  BY SMT
<1>3. S \div 256 >= 0 /\ S \div 256 <= 254
  BY <1>1, <1>2, SMT
<1> QED
  BY <1>1, <1>2, <1>3, SMT

\* ... and back.
LEMMA Split ==
  ASSUME NEW h \in 0 .. 255, NEW l \in 0 .. 255
  PROVE  (256 * h + l) % 256 = l /\ (256 * h + l) \div 256 = h
OBVIOUS

\* A sum without the checksum byte is one of a whole packet.
LEMMA SumsAreTotals ==
  ASSUME NEW S \in Sums
  PROVE  S \in Nat /\ S <= 255 * 255
BY SMT DEF Sums

\* is_checksum_valid() is a proper one's complement check: it accepts exactly
\* the sums that are zero in that arithmetic.  What goes wrong below goes
\* wrong in the two computations.
THEOREM CheckIsOnesComplement ==
  ASSUME NEW S \in Nat, S <= 255 * 255
  PROVE  CValid(S) <=> S > 0 /\ S % 255 = 0
<1> DEFINE h == S \div 256
           l == S % 256
<1>1. h \in 0 .. 254 /\ l \in 0 .. 255 /\ S = 256 * h + l
  BY Bytes
<1>2. CValid(S) <=> l + h = 255
  BY DEF CValid, Fold
<1> HIDE DEF h, l
<1>3. S = 255 * h + (l + h)
  BY <1>1
<1>4. S % 255 = (l + h) % 255
  BY <1>1, <1>3
<1>5. (l + h) % 255 = 0 <=> l + h \in {0, 255}
  BY <1>1
<1> QED
  BY <1>1, <1>2, <1>4, <1>5

\* packet_deserialise() accepts what packet_serialise() produced exactly if
\* the folded sum fits a byte: the carry of the fold is not added back.
THEOREM RouterReadsRouter ==
  ASSUME NEW S \in Sums
  PROVE  CValid(S + CChecksum(S)) <=> Fold(S) <= 255
<1> DEFINE h == S \div 256
           l == S % 256
<1>1. h \in 0 .. 254 /\ l \in 0 .. 255 /\ S = 256 * h + l
  BY Bytes, SumsAreTotals
<1>2. Fold(S) = l + h
  BY DEF Fold
<1> HIDE DEF h, l
<1>3. CASE l + h <= 255
  <2>1. S + CChecksum(S) = 256 * h + (255 - h)
    BY <1>1, <1>2, <1>3 DEF CChecksum
  <2>2. Fold(256 * h + (255 - h)) = 255
    BY <1>1, Split DEF Fold
  <2> QED
    BY <1>2, <1>3, <2>1, <2>2 DEF CValid
<1>4. CASE l + h > 255
  <2>1. (l + h) % 256 = l + h - 256
    BY <1>1, <1>4
  <2>2. S + CChecksum(S) = 256 * (h + 1) + (255 - h)
    BY <1>1, <1>2, <2>1 DEF CChecksum
  <2>3. Fold(256 * (h + 1) + (255 - h)) = 256
    BY <1>1, Split DEF Fold
  <2> QED
    BY <1>1, <1>2, <1>4, <2>2, <2>3 DEF CValid
<1> QED
  BY <1>1, <1>3, <1>4

\* The simulator reads all of its own packets.
THEOREM NetsimReadsNetsim ==
  ASSUME NEW S \in Sums
  PROVE  RValid(S + RChecksum(S))
<1> DEFINE h == S \div 256
           l == S % 256
<1>1. h \in 0 .. 254 /\ l \in 0 .. 255 /\ S = 256 * h + l
  BY Bytes, SumsAreTotals
<1>2. RChecksum(S) = 255 - l
  BY DEF RChecksum
<1> HIDE DEF h, l
<1>3. S + RChecksum(S) = 256 * h + 255
  BY <1>1, <1>2
<1> QED
  BY <1>1, <1>3, Split DEF RValid

\* The router accepts a packet of the simulator exactly if its bytes sum to
\* less than 256.
THEOREM RouterReadsNetsim ==
  ASSUME NEW S \in Sums
  PROVE  CValid(S + RChecksum(S)) <=> S < 256
<1> DEFINE h == S \div 256
           l == S % 256
<1>1. /\ h \in 0 .. 254 /\ l \in 0 .. 255 /\ S = 256 * h + l
      /\ h = 0 <=> S < 256
  BY Bytes, SumsAreTotals
<1>2. RChecksum(S) = 255 - l
  BY DEF RChecksum
<1> HIDE DEF h, l
<1>3. S + RChecksum(S) = 256 * h + 255
  BY <1>1, <1>2
<1>4. Fold(256 * h + 255) = 255 + h
  BY <1>1, Split DEF Fold
<1> QED
  BY <1>1, <1>3, <1>4 DEF CValid

\* ... and the simulator those of the router under the same condition.
THEOREM NetsimReadsRouter ==
  ASSUME NEW S \in Sums
  PROVE  RValid(S + CChecksum(S)) <=> S < 256
<1> DEFINE h == S \div 256
           l == S % 256
<1>1. /\ h \in 0 .. 254 /\ l \in 0 .. 255 /\ S = 256 * h + l
      /\ h = 0 <=> S < 256
  BY Bytes, SumsAreTotals
<1>2. Fold(S) = l + h
  BY DEF Fold
<1> HIDE DEF h, l
<1>4. CASE l + h <= 255
  <2>1. S + CChecksum(S) = 256 * h + (255 - h)
    BY <1>1, <1>2, <1>4 DEF CChecksum
  <2>2. (S + CChecksum(S)) % 256 = 255 - h
    BY <1>1, <2>1, Split
  <2> QED
    BY <1>1, <2>2 DEF RValid
<1>5. CASE l + h > 255
  <2>1. (l + h) % 256 = l + h - 256
    BY <1>1, <1>5
  <2>2. S + CChecksum(S) = 256 * (h + 1) + (255 - h)
    BY <1>1, <1>2, <2>1 DEF CChecksum
  <2>3. (S + CChecksum(S)) % 256 = 255 - h
    BY <1>1, <2>2, Split
  <2> QED
    BY <1>1, <1>5, <2>3 DEF RValid
<1> QED
  BY <1>1, <1>4, <1>5

-----------------------------------------------------------------------------
(* The sum of the bytes.  PartSums() is recursive, so that it is what its    *)
(* definition says has a proof of its own; what it computes is shown of a    *)
(* narrowest span for which it would be wrong.                               *)

\* Every set of numbers that is not empty has a least one.
LEMMA LeastNumber ==
  ASSUME NEW T, T \subseteq Nat, T # {}
  PROVE  \E x \in T : \A y \in T : x <= y
<1> DEFINE R     == StrictSubsetOrdering(Nat)
           Below == {1 .. x : x \in T}
<1>1. Below \subseteq FiniteSubsetsOf(Nat) /\ Below # {}
  <2>1. \A x \in T : 1 .. x \subseteq Nat /\ IsFiniteSet(1 .. x)
    BY FS_Interval
  <2> QED
    BY <2>1 DEF FiniteSubsetsOf
<1>2. PICK b \in Below : \A c \in Below : ~ (<<c, b>> \in R)
  <2>1. IsWellFoundedOn(R, FiniteSubsetsOf(Nat))
    BY FS_StrictSubsetOrderingWellFounded
  <2> HIDE DEF R, Below
  <2> QED
    BY <1>1, <2>1, WFMin
<1>3. PICK x \in T : b = 1 .. x
  BY <1>2
<1>4. ASSUME NEW y \in T, y < x PROVE FALSE
  <2>1. 1 .. y \subseteq 1 .. x /\ x \in 1 .. x /\ x \notin 1 .. y /\ 1 .. x \subseteq Nat
    BY <1>4
  <2>2. <<1 .. y, 1 .. x>> \in R
    BY <2>1 DEF StrictSubsetOrdering
  <2> QED
    BY <1>2, <1>3, <2>2
<1> QED
  BY <1>4

\* A span is as wide as its ends are apart; its halves are narrower.
Width(s) == s[2] - s[1]
Left(s)  == <<s[1], (s[1] + s[2]) \div 2>>
Right(s) == <<((s[1] + s[2]) \div 2) + 1, s[2]>>

\* The ends of a span and its width are numbers that compare as numbers do.
LEMMA SpanFacts ==
  ASSUME NEW s \in Spans
  PROVE  /\ s[1] \in 0 .. 255 /\ s[2] \in 0 .. 255
         /\ Width(s) = s[2] - s[1]
         /\ Width(s) \in Int /\ Width(s) + 255 \in Nat /\ Width(s) < 256
         /\ Width(s) < 0 => s[1] > s[2]
         /\ s[1] < s[2] => ~ s[1] > s[2] /\ s[1] # s[2]
         /\ s[1] = s[2] => ~ s[1] > s[2]
         /\ s[1] < s[2] \/ s[1] = s[2] \/ s[1] > s[2]
<1>1. s[1] \in 0 .. 255 /\ s[2] \in 0 .. 255
  BY DEF Spans
<1>2. Width(s) = s[2] - s[1]
  BY DEF Width
<1>3. \A a, b \in 0 .. 255 :
        /\ b - a \in Int /\ b - a + 255 \in Nat /\ b - a < 256
        /\ b - a < 0 => a > b
        /\ a < b => ~ a > b /\ a # b
        /\ a = b => ~ a > b
        /\ a < b \/ a = b \/ a > b
  OBVIOUS
<1>4. /\ s[2] - s[1] \in Int /\ s[2] - s[1] + 255 \in Nat /\ s[2] - s[1] < 256
      /\ s[2] - s[1] < 0 => s[1] > s[2]
      /\ s[1] < s[2] => ~ s[1] > s[2] /\ s[1] # s[2]
      /\ s[1] = s[2] => ~ s[1] > s[2]
      /\ s[1] < s[2] \/ s[1] = s[2] \/ s[1] > s[2]
  BY <1>1, <1>3, Zenon
<1> QED
  BY <1>1, <1>2, <1>4, Zenon

\* A span with more than one byte is its two halves, side by side.
LEMMA Halves ==
  ASSUME NEW s \in Spans, s[1] < s[2]
  PROVE  /\ Left(s) \in Spans /\ Right(s) \in Spans
         /\ Width(Left(s)) < Width(s) /\ Width(Right(s)) < Width(s)
         /\ Left(s)[1] = s[1] /\ Right(s)[2] = s[2]
         /\ Left(s)[1] <= Left(s)[2] /\ Right(s)[1] <= Right(s)[2]
         /\ Right(s)[1] = Left(s)[2] + 1
         /\ Width(Left(s)) + Width(Right(s)) + 1 = Width(s)
<1>1. s[1] \in 0 .. 255 /\ s[2] \in 0 .. 255
  BY DEF Spans
<1> DEFINE m == (s[1] + s[2]) \div 2
<1>2. m \in Int /\ s[1] <= m /\ m < s[2]
  <2>1. \A a, b \in 0 .. 255 :
          a < b => (a + b) \div 2 \in Int /\ a <= (a + b) \div 2 /\ (a + b) \div 2 < b
    OBVIOUS
  <2> QED
    BY <1>1, <2>1
<1> HIDE DEF m
<1>3. Left(s) = <<s[1], m>> /\ Right(s) = <<m + 1, s[2]>>
  BY DEF m, Left, Right
<1>4. m \in 0 .. 255 /\ m + 1 \in 0 .. 255
  BY <1>1, <1>2
<1>5. <<s[1], m>> \in Spans /\ <<m + 1, s[2]>> \in Spans
  BY <1>1, <1>4 DEF Spans
<1>6. /\ Width(<<s[1], m>>) = m - s[1] /\ Width(<<m + 1, s[2]>>) = s[2] - (m + 1)
      /\ Width(s) = s[2] - s[1]
  BY DEF Width
<1>7. /\ m - s[1] < s[2] - s[1] /\ s[2] - (m + 1) < s[2] - s[1]
      /\ s[1] <= m /\ m + 1 <= s[2] /\ (m - s[1]) + (s[2] - (m + 1)) + 1 = s[2] - s[1]
  <2>1. \A a, b, c \in 0 .. 255 :
          a <= c /\ c < b => /\ c - a < b - a /\ b - (c + 1) < b - a
                             /\ c + 1 <= b /\ (c - a) + (b - (c + 1)) + 1 = b - a
    OBVIOUS
  <2> QED
    BY <1>1, <1>2, <1>4, <2>1, Zenon
<1>8. /\ Left(s)[1] = s[1] /\ Left(s)[2] = m
      /\ Right(s)[1] = m + 1 /\ Right(s)[2] = s[2]
  BY <1>3
<1> QED
  BY <1>3, <1>5, <1>6, <1>7, <1>8

\* The halves of a span within the bytes are within the bytes.
LEMMA HalvesInside ==
  ASSUME NEW n \in Nat, NEW s \in Spans, s[1] < s[2], 1 <= s[1], s[2] <= n
  PROVE  1 <= Left(s)[1] /\ Left(s)[2] <= n /\ 1 <= Right(s)[1] /\ Right(s)[2] <= n
<1> DEFINE l == Left(s)
           r == Right(s)
<1>1. /\ l \in Spans /\ r \in Spans
      /\ l[1] = s[1] /\ r[2] = s[2] /\ l[1] <= l[2] /\ r[1] <= r[2] /\ r[1] = l[2] + 1
  BY Halves
<1>2. l[1] \in 0 .. 255 /\ l[2] \in 0 .. 255 /\ r[1] \in 0 .. 255 /\ r[2] \in 0 .. 255
  BY <1>1, SpanFacts
<1> HIDE DEF l, r
<1>3. 1 <= l[1] /\ r[2] <= n
  BY <1>1
<1>4. r[1] <= n
  <2>1. \A c, d \in 0 .. 255, x \in Nat : c <= d /\ d <= x => c <= x
    OBVIOUS
  <2> QED
    BY <1>1, <1>2, <1>3, <2>1, Zenon
<1>5. l[2] <= n /\ 1 <= r[1]
  <2>1. \A b \in 0 .. 255, x \in Nat : (b + 1 <= x => b <= x) /\ 1 <= b + 1
    OBVIOUS
  <2> QED
    BY <1>1, <1>2, <1>4, <2>1, Zenon
<1> QED
  BY <1>3, <1>4, <1>5 DEF l, r

\* One of the narrowest spans of a set.
LEMMA Narrowest ==
  ASSUME NEW Bad, Bad \subseteq Spans, Bad # {}
  PROVE  \E s \in Bad : \A t \in Spans : Width(t) < Width(s) => t \notin Bad
<1> DEFINE T == {Width(s) + 255 : s \in Bad}
<1>1. \A s \in Spans : Width(s) + 255 \in Nat /\ Width(s) \in Int
  BY SpanFacts
<1>2. T \subseteq Nat /\ T # {}
  BY <1>1
<1>3. PICK x \in T : \A y \in T : x <= y
  BY <1>2, LeastNumber
<1>4. PICK s \in Bad : x = Width(s) + 255
  BY <1>3
<1>5. ASSUME NEW t \in Bad PROVE Width(s) <= Width(t)
  <2>1. Width(t) + 255 \in T
    OBVIOUS
  <2>2. Width(s) + 255 <= Width(t) + 255
    BY <1>3, <1>4, <2>1
  <2> QED
    BY <1>1, <2>2
<1>6. \A t \in Spans : Width(t) < Width(s) => t \notin Bad
  BY <1>1, <1>5
<1> QED
  BY <1>6

\* What PartSums() has for a span, from what it has for others.
Part(f, bytes, s) ==
  IF s[1] > s[2] THEN 0
  ELSE IF s[1] = s[2] THEN bytes[s[1]]
  ELSE f[Left(s)] + f[Right(s)]

\* The function of the spans up to some width ...
LEMMA PartsUpTo ==
  ASSUME NEW bytes, NEW n \in Nat
  PROVE  \E f : \A s \in Spans : Width(s) < n => f[s] = Part(f, bytes, s)
<1> DEFINE Good(k) == \E f : \A s \in Spans : Width(s) < k => f[s] = Part(f, bytes, s)
           Bad     == {k \in Nat : ~Good(k)}
<1>1. \A s \in Spans : /\ Width(s) \in Int /\ Width(s) = s[2] - s[1]
                      /\ s[1] \in 0 .. 255 /\ s[2] \in 0 .. 255
  BY SpanFacts
<1>2. Good(0)
  <2> DEFINE f == [s \in Spans |-> 0]
  <2>1. ASSUME NEW s \in Spans, Width(s) < 0 PROVE f[s] = Part(f, bytes, s)
    <3>1. s[1] > s[2]
      BY <2>1, SpanFacts
    <3> QED
      BY <3>1 DEF Part
  <2> QED
    BY <2>1
<1>3. ASSUME NEW k \in Nat, Good(k) PROVE Good(k + 1)
  <2>1. PICK f : \A s \in Spans : Width(s) < k => f[s] = Part(f, bytes, s)
    BY <1>3
  <2> DEFINE g == [s \in Spans |-> IF Width(s) < k THEN f[s] ELSE Part(f, bytes, s)]
  <2>2. ASSUME NEW s \in Spans, Width(s) < k + 1 PROVE g[s] = Part(g, bytes, s)
    <3>1. g[s] = Part(f, bytes, s)
      BY <2>1
    <3>2. ASSUME s[1] < s[2]
          PROVE  g[Left(s)] = f[Left(s)] /\ g[Right(s)] = f[Right(s)]
      <4>1. /\ Left(s) \in Spans /\ Width(Left(s)) < k
            /\ Right(s) \in Spans /\ Width(Right(s)) < k
        BY <1>1, <2>2, <3>2, Halves
      <4> QED
        BY <4>1
    <3> HIDE DEF g
    <3>3. CASE s[1] < s[2]
      <4>1. ~ s[1] > s[2] /\ s[1] # s[2]
        BY <3>3, SpanFacts
      <4> QED
        BY <3>1, <3>2, <3>3, <4>1 DEF Part
    <3>4. CASE s[1] = s[2] \/ s[1] > s[2]
      BY <3>1, <3>4 DEF Part
    <3> QED
      BY <3>3, <3>4, SpanFacts
  <2> HIDE DEF g
  <2> QED
    BY <2>2
<1> HIDE DEF Good
<1>4. CASE Bad = {}
  BY <1>4 DEF Good
<1>5. CASE Bad # {}
  <2>1. PICK k \in Bad : \A y \in Bad : k <= y
    BY <1>5, LeastNumber
  <2>2. k \in Nat /\ k # 0
    BY <1>2
  <2>3. k - 1 \in Nat /\ k - 1 \notin Bad /\ (k - 1) + 1 = k
    BY <2>1, <2>2
  <2>4. Good(k - 1)
    BY <2>3
  <2>5. Good((k - 1) + 1)
    BY <1>3, <2>3, <2>4
  <2>6. Good(k)
    BY <2>3, <2>5
  <2> QED
    BY <2>6
<1> QED
  BY <1>4, <1>5

\* ... and of all of them: PartSums() is what its recursive definition says.
LEMMA PartSumsUnfolds ==
  ASSUME NEW bytes, NEW s \in Spans
  PROVE  PartSums(bytes)[s] = Part(PartSums(bytes), bytes, s)
<1>1. \A t \in Spans : Width(t) < 256 /\ t[1] \in 0 .. 255 /\ t[2] \in 0 .. 255
  BY SpanFacts
<1>2. PICK f : \A t \in Spans : Width(t) < 256 => f[t] = Part(f, bytes, t)
  BY PartsUpTo
<1> DEFINE g == [t \in Spans |-> f[t]]
<1>3. ASSUME NEW t \in Spans PROVE g[t] = Part(g, bytes, t)
  <2>1. g[t] = Part(f, bytes, t)
    BY <1>1, <1>2
  <2>2. t[1] < t[2] => g[Left(t)] = f[Left(t)] /\ g[Right(t)] = f[Right(t)]
    BY Halves
  <2> HIDE DEF g
  <2>3. CASE t[1] < t[2]
    <3>1. ~ t[1] > t[2] /\ t[1] # t[2]
      BY <2>3, SpanFacts
    <3> QED
      BY <2>1, <2>2, <2>3, <3>1 DEF Part
  <2>4. CASE t[1] = t[2] \/ t[1] > t[2]
    BY <2>1, <2>4 DEF Part
  <2> QED
    BY <2>3, <2>4, SpanFacts
<1>4. g = [t \in Spans |-> Part(g, bytes, t)]
  <2>1. g = [t \in Spans |-> g[t]]
    OBVIOUS
  <2> HIDE DEF g
  <2> QED
    BY <1>3, <2>1
<1> HIDE DEF g
<1>5. PartSums(bytes) = [t \in Spans |-> Part(PartSums(bytes), bytes, t)]
  BY <1>4 DEF PartSums, Part, Left, Right
<1> QED
  BY <1>5

\* A part is at least each of its bytes, and no more than so many times 255.
LEMMA PartBounds ==
  ASSUME NEW bytes, NEW n \in Nat, \A k \in 1 .. n : bytes[k] \in 0 .. 255,
         NEW s \in Spans, 1 <= s[1], s[2] <= n
  PROVE  /\ PartSums(bytes)[s] \in Nat
         /\ s[1] <= s[2] => PartSums(bytes)[s] <= 255 * (Width(s) + 1)
         /\ \A k \in s[1] .. s[2] : bytes[k] <= PartSums(bytes)[s]
<1> DEFINE P == PartSums(bytes)
           Inside(t)  == 1 <= t[1] /\ t[2] <= n
           Bounded(t) == /\ P[t] \in Nat
                         /\ t[1] <= t[2] => P[t] <= 255 * (Width(t) + 1)
                         /\ \A k \in t[1] .. t[2] : bytes[k] <= P[t]
           Bad == {t \in Spans : Inside(t) /\ ~Bounded(t)}
<1>1. ASSUME NEW t \in Spans, Inside(t), \A u \in Spans : Width(u) < Width(t) => u \notin Bad
      PROVE  Bounded(t)
  <2>1. P[t] = Part(P, bytes, t)
    BY PartSumsUnfolds
  <2>3. t[1] \in 0 .. 255 /\ t[2] \in 0 .. 255 /\ Width(t) = t[2] - t[1]
    BY SpanFacts
  <2> HIDE DEF P
  <2>4. CASE t[1] > t[2]
    <3>1. P[t] = 0
      BY <2>1, <2>4 DEF Part
    <3>2. \A a, b \in 0 .. 255 : a > b => a .. b = {} /\ ~ a <= b
      OBVIOUS
    <3>3. t[1] .. t[2] = {} /\ ~ t[1] <= t[2]
      BY <2>3, <2>4, <3>2, Zenon
    <3> QED
      BY <3>1, <3>3
  <2>5. CASE t[1] = t[2]
    <3>1. P[t] = bytes[t[1]] /\ t[1] \in 1 .. n
      <4>1. ~ t[1] > t[2]
        BY <2>5, SpanFacts
      <4>2. \A a \in 0 .. 255, x \in Nat : 1 <= a /\ a <= x => a \in 1 .. x
        OBVIOUS
      <4> QED
        BY <1>1, <2>1,  <2>3, <2>5, <4>1, <4>2 DEF Part
    <3>2. P[t] \in 0 .. 255
      BY <3>1
    <3>3. \A a, b \in 0 .. 255 : a = b => a .. b = {a} /\ b - a = 0
      OBVIOUS
    <3>4. t[1] .. t[2] = {t[1]} /\ Width(t) = 0
      BY <2>3, <2>5, <3>3
    <3>5. /\ P[t] \in Nat /\ P[t] <= P[t]
          /\ P[t] <= 255 * (0 + 1)
      <4>1. \A x \in 0 .. 255 : x \in Nat /\ x <= x /\ x <= 255 * (0 + 1)
        OBVIOUS
      <4> QED
        BY <3>2, <4>1
    <3>6. \A k \in t[1] .. t[2] : bytes[k] = P[t]
      BY <3>1, <3>4
    <3> QED
      BY <3>4, <3>5, <3>6, Zenon
  <2>6. CASE t[1] < t[2]
    <3> DEFINE l == Left(t)
               r == Right(t)
    <3>1. /\ l \in Spans /\ r \in Spans /\ Width(l) < Width(t) /\ Width(r) < Width(t)
          /\ l[1] = t[1] /\ r[2] = t[2] /\ l[1] <= l[2] /\ r[1] <= r[2] /\ r[1] = l[2] + 1
          /\ Width(l) + Width(r) + 1 = Width(t)
      BY <2>6, Halves
    <3>2. /\ l[1] \in 0 .. 255 /\ l[2] \in 0 .. 255 /\ r[1] \in 0 .. 255 /\ r[2] \in 0 .. 255
          /\ Width(l) \in Int /\ Width(r) \in Int /\ Width(t) \in Int
      BY <3>1, SpanFacts
    <3>3. P[t] = P[l] + P[r]
      <4>1. ~ t[1] > t[2] /\ t[1] # t[2]
        BY <2>6, SpanFacts
      <4> QED
        BY <2>1, <4>1 DEF Part
    <3>4. Inside(l) /\ Inside(r)
      BY <1>1, <2>6, HalvesInside
    <3> HIDE DEF l, r, Bounded
    <3>5. Bounded(l) /\ Bounded(r)
      BY <1>1, <3>1, <3>4
    <3>6. /\ P[l] \in Nat /\ P[l] <= 255 * (Width(l) + 1)
          /\ P[r] \in Nat /\ P[r] <= 255 * (Width(r) + 1)
      BY <3>1, <3>5 DEF Bounded
    <3>7. P[t] \in Nat /\ P[t] <= 255 * (Width(t) + 1) /\ P[l] <= P[t] /\ P[r] <= P[t]
      <4>1. \A a, b \in Nat, v, w, x \in Int :
              a <= 255 * (v + 1) /\ b <= 255 * (w + 1) /\ v + w + 1 = x =>
                a + b \in Nat /\ a + b <= 255 * (x + 1) /\ a <= a + b /\ b <= a + b
        OBVIOUS
      <4> QED
        BY <3>1, <3>2, <3>3, <3>6, <4>1
    <3>8. ASSUME NEW k \in t[1] .. t[2] PROVE bytes[k] <= P[t]
      <4>1. k \in l[1] .. l[2] \/ k \in r[1] .. r[2]
        <5>1. \A a, b, c, d \in 0 .. 255 :
                c = b + 1 => \A j \in a .. d : j \in a .. b \/ j \in c .. d
          OBVIOUS
        <5> QED
          BY <3>1, <3>2, <3>8, <5>1, Zenon
      <4>2. bytes[k] <= P[l] \/ bytes[k] <= P[r]
        BY <3>5, <4>1 DEF Bounded
      <4>3. bytes[k] \in 0 .. 255
        <5>1. t[1] \in 0 .. 255 /\ t[2] \in 0 .. 255 /\ 1 <= t[1] /\ t[2] <= n
          BY <1>1, <2>3
        <5>2. \A a, b \in 0 .. 255 : 1 <= a /\ b <= n => a .. b \subseteq 1 .. n
          OBVIOUS
        <5>3. t[1] .. t[2] \subseteq 1 .. n
          BY <5>1, <5>2, Zenon
        <5> QED
          BY <3>8, <5>3
      <4>4. \A b \in 0 .. 255, p, q \in Nat : b <= p /\ p <= q => b <= q
        OBVIOUS
      <4> QED
        BY <3>6, <3>7, <4>2, <4>3, <4>4, Zenon
    <3> QED
      BY <3>7, <3>8 DEF Bounded
  <2> QED
    BY <2>4, <2>5, <2>6, SpanFacts
<1> HIDE DEF Bounded, P
<1>2. Bad = {}
  <2>1. ASSUME Bad # {} PROVE FALSE
    <3>1. PICK t \in Bad : \A u \in Spans : Width(u) < Width(t) => u \notin Bad
      BY <2>1, Narrowest
    <3> QED
      BY <1>1, <3>1
  <2> QED
    BY <2>1
<1>3. Bounded(s)
  BY <1>2
<1> QED
  BY <1>3 DEF Bounded, P

\* Changing one byte changes the sum by as much.
LEMMA PartChange ==
  ASSUME NEW bytes, NEW other, NEW n \in Nat, NEW d \in 1 .. n,
         \A k \in 1 .. n : bytes[k] \in 0 .. 255 /\ other[k] \in 0 .. 255,
         \A k \in 1 .. n : k # d => other[k] = bytes[k],
         NEW s \in Spans, 1 <= s[1], s[2] <= n
  PROVE  s[1] <= d /\ d <= s[2] =>
           PartSums(other)[s] = PartSums(bytes)[s] + (other[d] - bytes[d])
<1> DEFINE P == PartSums(bytes)
           Q == PartSums(other)
           Inside(t)  == 1 <= t[1] /\ t[2] <= n
           Change(t)  == IF t[1] <= d /\ d <= t[2] THEN other[d] - bytes[d] ELSE 0
           Changed(t) == Q[t] = P[t] + Change(t)
           Bad == {t \in Spans : Inside(t) /\ ~Changed(t)}
<1>1. ASSUME NEW t \in Spans, Inside(t), \A u \in Spans : Width(u) < Width(t) => u \notin Bad
      PROVE  Changed(t)
  <2>1. P[t] = Part(P, bytes, t) /\ Q[t] = Part(Q, other, t)
    BY PartSumsUnfolds
  <2>2. \A u \in Spans : Inside(u) => P[u] \in Nat
    BY PartBounds
  <2>3. t[1] \in 0 .. 255 /\ t[2] \in 0 .. 255 /\ d \in Nat
    BY SpanFacts
  <2> HIDE DEF P, Q
  <2>4. CASE t[1] > t[2]
    <3>1. P[t] = 0 /\ Q[t] = 0
      BY <2>1, <2>4 DEF Part
    <3>2. ~ (t[1] <= d /\ d <= t[2])
      <4>1. \A a, b \in 0 .. 255, x \in Nat : a > b => ~ (a <= x /\ x <= b)
        OBVIOUS
      <4> QED
        BY <2>3, <2>4, <4>1, Zenon
    <3> QED
      BY <3>1, <3>2
  <2>5. CASE t[1] = t[2]
    <3>1. P[t] = bytes[t[1]] /\ Q[t] = other[t[1]]
      <4>1. ~ t[1] > t[2]
        BY <2>5, SpanFacts
      <4> QED
        BY <2>1, <2>5, <4>1 DEF Part
    <3>2. t[1] \in 1 .. n
      <4>1. \A a \in 0 .. 255, x \in Nat : 1 <= a /\ a <= x => a \in 1 .. x
        OBVIOUS
      <4>2. 1 <= t[1] /\ t[1] <= n
        BY <1>1, <2>5
      <4> QED
        BY <2>3, <4>1, <4>2, Zenon
    <3>3. t[1] <= d /\ d <= t[2] <=> t[1] = d
      <4>1. \A a \in 0 .. 255, x \in Nat : a <= x /\ x <= a <=> a = x
        OBVIOUS
      <4> QED
        BY <2>3, <2>5, <4>1, Zenon
    <3>4. other[d] = bytes[d] + (other[d] - bytes[d])
      <4>1. \A x, y \in 0 .. 255 : x = y + (x - y)
        OBVIOUS
      <4> QED
        BY <4>1, Zenon
    <3>5. CASE t[1] = d
      BY <3>1, <3>3, <3>4, <3>5
    <3>6. CASE t[1] # d
      <4>1. \A y \in 0 .. 255 : y = y + 0
        OBVIOUS
      <4>2. bytes[t[1]] = bytes[t[1]] + 0
        BY <3>2, <4>1, Zenon
      <4> QED
        BY <3>1, <3>2, <3>3, <3>6, <4>2
    <3> QED
      BY <3>5, <3>6
  <2>6. CASE t[1] < t[2]
    <3> DEFINE l == Left(t)
               r == Right(t)
    <3>1. /\ l \in Spans /\ r \in Spans /\ Width(l) < Width(t) /\ Width(r) < Width(t)
          /\ l[1] = t[1] /\ r[2] = t[2] /\ l[1] <= l[2] /\ r[1] <= r[2] /\ r[1] = l[2] + 1
      BY <2>6, Halves
    <3>2. /\ l[1] \in 0 .. 255 /\ l[2] \in 0 .. 255 /\ r[1] \in 0 .. 255 /\ r[2] \in 0 .. 255
      BY <3>1, SpanFacts
    <3>3. P[t] = P[l] + P[r] /\ Q[t] = Q[l] + Q[r]
      <4>1. ~ t[1] > t[2] /\ t[1] # t[2]
        BY <2>6, SpanFacts
      <4> QED
        BY <2>1, <4>1 DEF Part
    <3>4. Inside(l) /\ Inside(r)
      BY <1>1, <2>6, HalvesInside
    <3> HIDE DEF l, r, Changed
    <3>5. Changed(l) /\ Changed(r)
      BY <1>1, <3>1, <3>4
    <3>6. P[l] \in Nat /\ P[r] \in Nat
      BY <2>2, <3>1, <3>4
    <3>7. other[d] - bytes[d] \in Int
      <4>1. \A x, y \in 0 .. 255 : x - y \in Int
        OBVIOUS
      <4> QED
        BY <4>1, Zenon
    <3>8. /\ Change(l) \in Int /\ Change(r) \in Int
          /\ Change(t) = Change(l) + Change(r)
      <4> DEFINE a == l[1]
                 b == l[2]
                 e == r[2]
      <4>1. /\ a \in 0 .. 255 /\ b \in 0 .. 255 /\ e \in 0 .. 255 /\ d \in Nat
            /\ a <= b /\ b + 1 <= e /\ r[1] = b + 1 /\ t[1] = a /\ t[2] = e
        BY <2>3, <3>1, <3>2
      <4> HIDE DEF a, b, e
      <4>2. \/ a <= d /\ d <= b /\ ~ b + 1 <= d /\ d <= e
            \/ ~ d <= b /\ a <= d /\ b + 1 <= d /\ d <= e
            \/ ~ a <= d /\ ~ b + 1 <= d
            \/ ~ d <= e /\ ~ d <= b
        BY <4>1
      <4> USE DEF a, b, e
      <4>3. \A x \in Int : x = x + 0 /\ x = 0 + x /\ 0 = 0 + 0 /\ 0 \in Int
        OBVIOUS
      <4> QED
        BY <3>7, <4>1, <4>2, <4>3
    <3>9. Q[l] = P[l] + Change(l) /\ Q[r] = P[r] + Change(r)
      BY <3>5 DEF Changed
    <3> HIDE DEF Change
    <3>10. Q[t] = P[t] + Change(t)
      <4>1. \A a, b \in Nat, x, y \in Int : (a + x) + (b + y) = (a + b) + (x + y)
        OBVIOUS
      <4> QED
        BY <3>3, <3>6, <3>8, <3>9, <4>1
    <3> QED
      BY <3>10 DEF Changed
  <2> QED
    BY <2>4, <2>5, <2>6, SpanFacts
<1> HIDE DEF Changed, P, Q
<1>2. Bad = {}
  <2>1. ASSUME Bad # {} PROVE FALSE
    <3>1. PICK t \in Bad : \A u \in Spans : Width(u) < Width(t) => u \notin Bad
      BY <2>1, Narrowest
    <3> QED
      BY <1>1, <3>1
  <2> QED
    BY <2>1
<1>3. Changed(s)
  BY <1>2
<1> QED
  BY <1>3 DEF Changed, P, Q
\* The span of all bytes.
LEMMA Extent ==
  ASSUME NEW n \in 1 .. 255
  PROVE  /\ <<1, n>> \in Spans /\ <<1, n>>[1] = 1 /\ <<1, n>>[2] = n
         /\ Width(<<1, n>>) + 1 = n
<1>1. 1 \in 0 .. 255 /\ n \in 0 .. 255 /\ n - 1 + 1 = n
  OBVIOUS
<1> QED
  BY <1>1 DEF Spans, Width

\* So is a sum ...
LEMMA SumBounds ==
  ASSUME NEW bytes \in Seq(Octet), Len(bytes) \in 1 .. 255
  PROVE  /\ Sum(bytes) \in Nat /\ Sum(bytes) <= 255 * 255
         /\ \A k \in 1 .. Len(bytes) : bytes[k] <= Sum(bytes)
<1> DEFINE n == Len(bytes)
<1>1. n \in Nat /\ \A k \in 1 .. n : bytes[k] \in 0 .. 255
  BY LenProperties, ElementOfSeq DEF Octet
<1>2. n \in 1 .. 255
  OBVIOUS
<1>3. Sum(bytes) = PartSums(bytes)[<<1, n>>]
  BY DEF Sum
<1> HIDE DEF n
<1> DEFINE s == <<1, n>>
<1>4. s \in Spans /\ s[1] = 1 /\ s[2] = n /\ Width(s) + 1 = n
  BY <1>2, Extent
<1>5. 1 <= s[1] /\ s[2] <= n /\ s[1] <= s[2]
  BY <1>2
<1> HIDE DEF s
<1>6. /\ PartSums(bytes)[s] \in Nat
      /\ PartSums(bytes)[s] <= 255 * n
      /\ \A k \in 1 .. n : bytes[k] <= PartSums(bytes)[s]
  BY <1>1, <1>4, <1>5, PartBounds
<1>7. \A x \in Nat : x <= 255 * n => x <= 255 * 255
  BY <1>2
<1> QED
  BY <1>3, <1>6, <1>7 DEF n, s

\* ... and it changes by as much as one of its bytes does.
LEMMA SumChange ==
  ASSUME NEW bytes \in Seq(Octet), NEW other \in Seq(Octet),
         Len(bytes) \in 1 .. 255, Len(other) = Len(bytes), NEW d \in 1 .. Len(bytes),
         \A k \in 1 .. Len(bytes) : k # d => other[k] = bytes[k]
  PROVE  Sum(other) = Sum(bytes) + (other[d] - bytes[d])
<1> DEFINE n == Len(bytes)
<1>1. /\ n \in Nat /\ d \in 1 .. n
      /\ \A k \in 1 .. n : bytes[k] \in 0 .. 255 /\ other[k] \in 0 .. 255
  BY LenProperties, ElementOfSeq DEF Octet
<1>2. n \in 1 .. 255
  OBVIOUS
<1>3. Sum(bytes) = PartSums(bytes)[<<1, n>>] /\ Sum(other) = PartSums(other)[<<1, n>>]
  BY DEF Sum
<1>4. \A k \in 1 .. n : k # d => other[k] = bytes[k]
  OBVIOUS
<1> DEFINE s == <<1, n>>
<1> HIDE DEF n
<1>5. s \in Spans /\ s[1] = 1 /\ s[2] = n
  BY <1>2, Extent
<1>6. 1 <= s[1] /\ s[2] <= n /\ s[1] <= d /\ d <= s[2]
  BY <1>1, <1>2
<1> HIDE DEF s
<1>7. PartSums(other)[s] = PartSums(bytes)[s] + (other[d] - bytes[d])
  BY <1>1, <1>4, <1>5, <1>6, PartChange
<1> QED
  BY <1>3, <1>6, <1>7 DEF s

-----------------------------------------------------------------------------
(* The codecs: what is read is what was written. *)

\* Two sequences in a row.
LEMMA Concat ==
  ASSUME NEW S, NEW head \in Seq(S), NEW tail \in Seq(S)
  PROVE  /\ head \o tail \in Seq(S)
         /\ Len(head \o tail) = Len(head) + Len(tail)
         /\ Len(head) \in Nat /\ Len(tail) \in Nat
         /\ \A k \in 1 .. Len(head) : (head \o tail)[k] = head[k]
         /\ \A k \in 1 .. Len(tail) : (head \o tail)[Len(head) + k] = tail[k]
<1>1. Len(head) \in Nat /\ Len(tail) \in Nat
  BY LenProperties
<1> DEFINE m == Len(head)
           n == Len(tail)
<1>2. /\ head \o tail \in Seq(S) /\ Len(head \o tail) = m + n
      /\ \A i \in 1 .. m + n : (head \o tail)[i] = IF i <= m THEN head[i] ELSE tail[i - m]
  BY ConcatProperties
<1>3. m \in Nat /\ n \in Nat
  BY <1>1
<1> HIDE DEF m, n
<1>4. ASSUME NEW k \in 1 .. m PROVE (head \o tail)[k] = head[k]
  <2>1. k \in 1 .. m + n /\ k <= m
    BY <1>3
  <2> QED
    BY <1>2, <2>1
<1>5. ASSUME NEW k \in 1 .. n PROVE (head \o tail)[m + k] = tail[k]
  <2>1. m + k \in 1 .. m + n /\ ~ m + k <= m /\ (m + k) - m = k
    BY <1>3
  <2> QED
    BY <1>2, <2>1
<1> QED
  BY <1>2, <1>3, <1>4, <1>5 DEF m, n

\* A function of 1 .. n is a sequence of that length.
LEMMA FunctionIsSeq ==
  ASSUME NEW S, NEW n \in Nat, NEW f \in [1 .. n -> S]
  PROVE  f \in Seq(S) /\ Len(f) = n
<1>1. f \in Seq(S)
  BY SeqDef
<1>2. Len(f) \in Nat /\ DOMAIN f = 1 .. Len(f)
  BY <1>1, LenProperties
<1>3. DOMAIN f = 1 .. n
  OBVIOUS
<1>4. \A m \in Nat : 1 .. m = 1 .. n => m = n
  OBVIOUS
<1> QED
  BY <1>1, <1>2, <1>3, <1>4, Zenon

\* The entries of a command as bytes.
LEMMA EntryBytesShape ==
  ASSUME NEW entries \in Seq(Entry)
  PROVE  /\ EntryBytes(entries) \in Seq(Octet)
         /\ Len(entries) \in Nat /\ Len(EntryBytes(entries)) = 2 * Len(entries)
         /\ \A k \in 1 .. Len(entries) :
              /\ EntryBytes(entries)[2 * k - 1] = entries[k].dest_subnet
              /\ EntryBytes(entries)[2 * k] = entries[k].cost
<1> DEFINE n == Len(entries)
           e == EntryBytes(entries)
<1>1. n \in Nat /\ \A k \in 1 .. n : entries[k] \in Entry
  BY LenProperties, ElementOfSeq
<1>2. e = [k \in 1 .. 2 * n |->
             IF k % 2 = 1 THEN entries[(k + 1) \div 2].dest_subnet ELSE entries[k \div 2].cost]
  BY DEF EntryBytes
<1> HIDE DEF n, e
<1>3. \A k \in 1 .. n : entries[k].dest_subnet \in Octet /\ entries[k].cost \in Octet
  BY <1>1 DEF Entry
<1>4. ASSUME NEW k \in 1 .. 2 * n PROVE e[k] \in Octet
  <2>1. /\ k % 2 = 1 => (k + 1) \div 2 \in 1 .. n
        /\ k % 2 # 1 => k \div 2 \in 1 .. n
    BY <1>1
  <2> QED
    BY <1>2, <1>3, <2>1
<1>5. ASSUME NEW k \in 1 .. n
      PROVE  e[2 * k - 1] = entries[k].dest_subnet /\ e[2 * k] = entries[k].cost
  <2>1. /\ 2 * k - 1 \in 1 .. 2 * n /\ (2 * k - 1) % 2 = 1 /\ ((2 * k - 1) + 1) \div 2 = k
        /\ 2 * k \in 1 .. 2 * n /\ (2 * k) % 2 # 1 /\ (2 * k) \div 2 = k
    BY <1>1
  <2> QED
    BY <1>2, <2>1
<1>6. 2 * n \in Nat
  BY <1>1
<1>7. e \in [1 .. 2 * n -> Octet]
  BY <1>2, <1>4
<1>8. e \in Seq(Octet) /\ Len(e) = 2 * n
  BY <1>6, <1>7, FunctionIsSeq, Zenon
<1> QED
  BY <1>1, <1>5, <1>8 DEF n, e

\* The 20 bits of a timestamp, and the 12 of a sequence number.
LEMMA TimestampBits ==
  ASSUME NEW t \in Timestamp
  PROVE  /\ (t \div 65536) % 16 \in Octet
         /\ (t \div 256) % 256 \in Octet
         /\ t % 256 \in Octet
         /\ 65536 * (((t \div 65536) % 16) % 16) + 256 * ((t \div 256) % 256) + (t % 256) = t
<1>1. t \in Nat /\ t \div 65536 < 16
  BY SMT DEF Timestamp
<1>2. /\ (t \div 65536) % 16 \in Octet
      /\ (t \div 256) % 256 \in Octet
      /\ t % 256 \in Octet
  BY <1>1, SMT DEF Octet
<1>3. 65536 * (((t \div 65536) % 16) % 16) + 256 * ((t \div 256) % 256) + (t % 256) = t
  BY <1>1, SMT
<1> QED
  BY <1>2, <1>3, SMT

\* A command as bytes.
LEMMA CommandBytesShape ==
  ASSUME NEW cmd \in CommandType, Len(cmd.entries) <= 255
  PROVE  /\ CommandBytes(cmd) \in Seq(Octet)
         /\ Len(cmd.entries) \in Nat /\ Len(CommandBytes(cmd)) = 4 + 2 * Len(cmd.entries)
         /\ CommandBytes(cmd)[1] = Len(cmd.entries)
         /\ 65536 * (CommandBytes(cmd)[2] % 16) + 256 * CommandBytes(cmd)[3] + CommandBytes(cmd)[4]
              = cmd.timestamp
         /\ \A k \in 1 .. Len(cmd.entries) :
              /\ CommandBytes(cmd)[4 + (2 * k - 1)] = cmd.entries[k].dest_subnet
              /\ CommandBytes(cmd)[4 + 2 * k] = cmd.entries[k].cost
<1> DEFINE n == Len(cmd.entries)
           t == cmd.timestamp
           e == EntryBytes(cmd.entries)
           h == << n, (t \div 65536) % 16, (t \div 256) % 256, t % 256 >>
           w == CommandBytes(cmd)
<1>1. cmd.entries \in Seq(Entry) /\ t \in Timestamp
  BY DEF CommandType
<1>2. /\ e \in Seq(Octet) /\ n \in Nat /\ Len(e) = 2 * n /\ n <= 255
      /\ \A k \in 1 .. n : e[2 * k - 1] = cmd.entries[k].dest_subnet
                         /\ e[2 * k] = cmd.entries[k].cost
  BY <1>1, EntryBytesShape
<1>3. w = h \o e
  BY DEF CommandBytes
<1> HIDE DEF n, t, e, w
<1>4. n \in Octet
  BY <1>2 DEF Octet
<1>5. /\ (t \div 65536) % 16 \in Octet /\ (t \div 256) % 256 \in Octet
      /\ t % 256 \in Octet
      /\ 65536 * (((t \div 65536) % 16) % 16) + 256 * ((t \div 256) % 256) + (t % 256) = t
  BY <1>1, TimestampBits, SMT
<1>6. h \in Seq(Octet) /\ Len(h) = 4
  BY <1>4, <1>5, SMT
<1>7. h[1] = n /\ h[2] = (t \div 65536) % 16 /\ h[3] = (t \div 256) % 256 /\ h[4] = t % 256
  OBVIOUS
<1> HIDE DEF h
<1>8. /\ w \in Seq(Octet) /\ Len(w) = 4 + 2 * n
      /\ \A k \in 1 .. 4 : w[k] = h[k]
      /\ \A k \in 1 .. 2 * n : w[4 + k] = e[k]
  <2>1. /\ h \o e \in Seq(Octet) /\ Len(h \o e) = Len(h) + Len(e)
        /\ \A k \in 1 .. Len(h) : (h \o e)[k] = h[k]
        /\ \A k \in 1 .. Len(e) : (h \o e)[Len(h) + k] = e[k]
    <3>1. h \in Seq(Octet) /\ e \in Seq(Octet)
      BY <1>2, <1>6
    <3>2. h \o e \in Seq(Octet)
      BY <3>1, Concat
    <3>3. Len(h \o e) = Len(h) + Len(e)
      BY <3>1, Concat
    <3>4. \A k \in 1 .. Len(h) : (h \o e)[k] = h[k]
      BY <3>1, Concat, Zenon
    <3>5. \A k \in 1 .. Len(e) : (h \o e)[Len(h) + k] = e[k]
      BY <3>1, Concat
    <3> QED
      BY <3>2, <3>3, <3>4, <3>5
  <2> QED
    BY <1>2, <1>3, <1>6, <2>1
<1>9. /\ w[1] = n
      /\ 65536 * (w[2] % 16) + 256 * w[3] + w[4] = t
  <2>1. w[1] = h[1] /\ w[2] = h[2] /\ w[3] = h[3] /\ w[4] = h[4]
    BY <1>8
  <2> QED
    BY <1>5, <1>7, <2>1, SMT
<1>10. ASSUME NEW k \in 1 .. n
      PROVE  w[4 + (2 * k - 1)] = cmd.entries[k].dest_subnet /\ w[4 + 2 * k] = cmd.entries[k].cost
  <2>1. 2 * k - 1 \in 1 .. 2 * n /\ 2 * k \in 1 .. 2 * n
    BY <1>2
  <2> QED
    BY <1>2, <1>8, <2>1
<1> QED
  BY <1>2, <1>8, <1>9, <1>10, SMT DEF n, t, w

\* The fields of a packet.
LEMMA PacketFields ==
  ASSUME NEW p, IsPacket(p)
  PROVE  /\ p.src \in Octet /\ p.dest \in Octet /\ p.ttl \in Nibble /\ p.ack \in BOOLEAN
         /\ p.type \in {"data", "command"} /\ p.seq_no \in SeqNo
         /\ p = [src |-> p.src, dest |-> p.dest, ttl |-> p.ttl, ack |-> p.ack,
                 type |-> p.type, seq_no |-> p.seq_no, payload |-> p.payload]
         /\ p.type = "data" => p.payload \in Seq(Octet) /\ PayloadBytes(p) = p.payload
         /\ p.type = "command" => /\ p.payload \in CommandType
                                  /\ PayloadBytes(p) = CommandBytes(p.payload)
         /\ 8 + Len(PayloadBytes(p)) <= 255
<1>1. 8 + Len(PayloadBytes(p)) <= 255
  BY DEF IsPacket
<1>2. CASE p.type = "data" /\ p \in PacketOf("data", Seq(Octet))
  <2>1. PayloadBytes(p) = p.payload
    BY <1>2 DEF PayloadBytes
  <2> QED
    BY <1>1, <1>2, <2>1 DEF PacketOf
<1>3. CASE p.type = "command" /\ p \in PacketOf("command", CommandType)
  <2>1. PayloadBytes(p) = CommandBytes(p.payload)
    BY <1>3 DEF PayloadBytes
  <2> QED
    BY <1>1, <1>3, <2>1 DEF PacketOf
<1> QED
  BY <1>2, <1>3 DEF IsPacket

\* The length of a command, however many entries it has.
LEMMA CommandLength ==
  ASSUME NEW cmd \in CommandType
  PROVE  Len(cmd.entries) \in Nat /\ Len(CommandBytes(cmd)) = 4 + 2 * Len(cmd.entries)
<1> DEFINE t == cmd.timestamp
           n == Len(cmd.entries)
           e == EntryBytes(cmd.entries)
           h == << n, (t \div 65536) % 16, (t \div 256) % 256, t % 256 >>
<1>1. cmd.entries \in Seq(Entry) /\ t \in Timestamp
  BY DEF CommandType
<1>2. n \in Nat /\ e \in Seq(Octet) /\ Len(e) = 2 * n
  BY <1>1, EntryBytesShape
<1>3. CommandBytes(cmd) = h \o e
  BY DEF CommandBytes
<1>4. (t \div 65536) % 16 \in Nat /\ (t \div 256) % 256 \in Nat /\ t % 256 \in Nat
  <2> DEFINE x == (t \div 65536) % 16
             y == (t \div 256) % 256
             z == t % 256
  <2>1. x \in Octet /\ y \in Octet /\ z \in Octet
    BY <1>1, TimestampBits, SMT
  <2> HIDE DEF x, y, z
  <2>2. x \in Nat /\ y \in Nat /\ z \in Nat
    BY <2>1 DEF Octet
  <2> QED
    BY <2>2, SMT DEF x, y, z
<1> HIDE DEF n, t, e
<1>5. h \in Seq(Nat) /\ Len(h) = 4
  BY <1>2, <1>4, SMT
<1> HIDE DEF h
<1>6. e \in Seq(Nat)
  <2>1. Octet \subseteq Nat
    BY DEF Octet
  <2> QED
    BY <1>2, <2>1, SeqMonotonic
<1>7. Len(h \o e) = Len(h) + Len(e)
  BY <1>5, <1>6, Concat
<1> QED
  BY <1>2, <1>3, <1>5, <1>7 DEF n

\* A payload as bytes, and the most entries a packet has room for.
LEMMA PayloadBytesType ==
  ASSUME NEW p, IsPacket(p)
  PROVE  /\ PayloadBytes(p) \in Seq(Octet) /\ Len(PayloadBytes(p)) \in Nat
         /\ p.type = "command" => Len(p.payload.entries) \in 0 .. 121
<1>1. CASE p.type = "data"
  BY <1>1, PacketFields, LenProperties
<1>2. CASE p.type = "command"
  <2> DEFINE cmd == p.payload
  <2>1. /\ cmd \in CommandType /\ PayloadBytes(p) = CommandBytes(cmd)
        /\ 8 + Len(CommandBytes(cmd)) <= 255
    BY <1>2, PacketFields
  <2> HIDE DEF cmd
  <2>2. Len(cmd.entries) \in Nat /\ Len(CommandBytes(cmd)) = 4 + 2 * Len(cmd.entries)
    BY <2>1, CommandLength
  <2>3. Len(cmd.entries) \in 0 .. 121 /\ Len(cmd.entries) <= 255
    <3>1. \A n \in Nat : 8 + (4 + 2 * n) <= 255 => n \in 0 .. 121 /\ n <= 255
      OBVIOUS
    <3> QED
      BY <2>1, <2>2, <3>1
  <2>4. CommandBytes(cmd) \in Seq(Octet)
    BY <2>1, <2>3, CommandBytesShape
  <2> QED
    BY <2>1, <2>3, <2>4, LenProperties DEF cmd
<1> QED
  BY <1>1, <1>2, PacketFields

\* The 12 bits of a sequence number beside the type x, in two bytes.
LEMMA SeqNoBits ==
  ASSUME NEW x \in {4, 8}, NEW s \in SeqNo
  PROVE  /\ x * 16 + ((s \div 256) % 16) \in Octet
         /\ s % 256 \in Octet
         /\ (x * 16 + ((s \div 256) % 16)) \div 16 = x
         /\ 256 * ((x * 16 + ((s \div 256) % 16)) % 16) + (s % 256) = s
<1> DEFINE y == s \div 256
           z == s % 256
<1>1. y \in 0 .. 15 /\ z \in 0 .. 255 /\ 256 * y + z = s
  BY SMT DEF SeqNo
<1> HIDE DEF y, z
<1>2. y % 16 = y /\ x * 16 + y \in 0 .. 255 /\ (x * 16 + y) \div 16 = x /\ (x * 16 + y) % 16 = y
  BY <1>1, SMT
<1> QED
  BY <1>1, <1>2, SMT DEF y, z, Octet

\* What is where in a packet of which byte 6 is c.
LEMMA PacketBytesShape ==
  ASSUME NEW p, IsPacket(p), NEW c \in Octet
  PROVE  /\ PacketBytes(p, c) \in Seq(Octet)
         /\ Len(PacketBytes(p, c)) = 8 + Len(PayloadBytes(p))
         /\ Len(PacketBytes(p, c)) \in 8 .. 255
         /\ PacketBytes(p, c)[1] = p.src
         /\ PacketBytes(p, c)[2] = p.dest
         /\ PacketBytes(p, c)[3] = Len(PacketBytes(p, c))
         /\ PacketBytes(p, c)[4] = p.ttl + 64 * Flag(p.ack)
         /\ PacketBytes(p, c)[5] = TypeCode(p.type) * 16 + ((p.seq_no \div 256) % 16)
         /\ PacketBytes(p, c)[6] = p.seq_no % 256
         /\ PacketBytes(p, c)[7] = c
         /\ PacketBytes(p, c)[8] = 0
         /\ \A k \in 1 .. Len(PayloadBytes(p)) : PacketBytes(p, c)[8 + k] = PayloadBytes(p)[k]
<1> DEFINE b == PayloadBytes(p)
           w == PacketBytes(p, c)
           x4 == p.ttl + 64 * Flag(p.ack)
           x5 == TypeCode(p.type) * 16 + ((p.seq_no \div 256) % 16)
           x6 == p.seq_no % 256
           n  == 8 + Len(b)
           h  == << p.src, p.dest, n, x4, x5, x6, c, 0 >>
<1>1. b \in Seq(Octet) /\ Len(b) \in Nat /\ n <= 255
  BY PayloadBytesType, PacketFields
<1>2. w = h \o b
  BY DEF PacketBytes
<1>3. n \in Octet /\ n \in 8 .. 255 /\ n = 8 + Len(b)
  <2>1. \A m \in Nat : 8 + m <= 255 => 8 + m \in Octet /\ 8 + m \in 8 .. 255
    BY DEF Octet
  <2> QED
    BY <1>1, <2>1
<1>4. x4 \in Octet
  <2>1. \A y \in Nibble : y + 64 * 1 \in Octet /\ y + 64 * 0 \in Octet
    BY DEF Octet, Nibble
  <2>2. p.ttl \in Nibble /\ (Flag(p.ack) = 0 \/ Flag(p.ack) = 1)
    BY PacketFields DEF Flag
  <2> QED
    BY <2>1, <2>2
<1>5. x5 \in Octet /\ x6 \in Octet
  <2>1. TypeCode(p.type) \in {4, 8}
    BY PacketFields DEF TypeCode
  <2>2. p.seq_no \in SeqNo
    BY PacketFields
  <2>3. x5 \in Octet
    BY <2>1, <2>2, SeqNoBits, SMT
  <2>4. x6 \in Octet
    BY <2>1, <2>2, SeqNoBits, SMT
  <2> QED
    BY <2>3, <2>4
<1>6. p.src \in Octet /\ p.dest \in Octet /\ 0 \in Octet
  BY PacketFields DEF Octet
<1> HIDE DEF b, w, x4, x5, x6, n
<1>7. h \in Seq(Octet) /\ Len(h) = 8
  BY <1>3, <1>4, <1>5, <1>6
<1>8. /\ h[1] = p.src /\ h[2] = p.dest /\ h[3] = n /\ h[4] = x4
      /\ h[5] = x5 /\ h[6] = x6 /\ h[7] = c /\ h[8] = 0
  OBVIOUS
<1> HIDE DEF h
<1>9. /\ h \o b \in Seq(Octet) /\ Len(h \o b) = Len(h) + Len(b)
      /\ \A k \in 1 .. Len(h) : (h \o b)[k] = h[k]
      /\ \A k \in 1 .. Len(b) : (h \o b)[Len(h) + k] = b[k]
  <2>1. h \o b \in Seq(Octet)
    BY <1>1, <1>7, Concat
  <2>2. Len(h \o b) = Len(h) + Len(b)
    BY <1>1, <1>7, Concat
  <2>3. \A k \in 1 .. Len(h) : (h \o b)[k] = h[k]
    BY <1>1, <1>7, Concat
  <2>4. \A k \in 1 .. Len(b) : (h \o b)[Len(h) + k] = b[k]
    <3>1. h \in Seq(Octet) /\ b \in Seq(Octet)
      BY <1>1, <1>7
    <3> QED
      BY <3>1, Concat
  <2> QED
    BY <2>1, <2>2, <2>3, <2>4
<1>10. /\ w \in Seq(Octet) /\ Len(w) = n
       /\ \A k \in 1 .. 8 : w[k] = h[k]
       /\ \A k \in 1 .. Len(b) : w[8 + k] = b[k]
  BY <1>2, <1>3, <1>7, <1>9
<1>11. /\ w[1] = p.src /\ w[2] = p.dest /\ w[3] = n /\ w[4] = x4
       /\ w[5] = x5 /\ w[6] = x6 /\ w[7] = c /\ w[8] = 0
  BY <1>8, <1>10
<1> QED
  BY <1>3, <1>10, <1>11 DEF b, w, x4, x5, x6, n

\* The header is read as it was written.
LEMMA HeaderRead ==
  ASSUME NEW p, IsPacket(p), NEW c \in Octet
  PROVE  Header(PacketBytes(p, c)) =
           [src |-> p.src, dest |-> p.dest, ttl |-> p.ttl, ack |-> p.ack,
            type |-> p.type, seq_no |-> p.seq_no]
<1> DEFINE w == PacketBytes(p, c)
<1>1. /\ w[1] = p.src /\ w[2] = p.dest
      /\ w[4] = p.ttl + 64 * Flag(p.ack)
      /\ w[5] = TypeCode(p.type) * 16 + ((p.seq_no \div 256) % 16)
      /\ w[6] = p.seq_no % 256
  BY PacketBytesShape
<1> HIDE DEF w
<1>2. w[4] % 16 = p.ttl /\ ((w[4] \div 64) % 2 = 1 <=> p.ack)
  <2>1. p.ttl \in Nibble /\ p.ack \in BOOLEAN
    BY PacketFields
  <2>2. \A y \in Nibble : /\ (y + 64 * 1) % 16 = y /\ ((y + 64 * 1) \div 64) % 2 = 1
                          /\ (y + 64 * 0) % 16 = y /\ ((y + 64 * 0) \div 64) % 2 # 1
    BY DEF Nibble
  <2>3. CASE p.ack
    <3>1. w[4] = p.ttl + 64 * 1
      BY <1>1, <2>3 DEF Flag
    <3> QED
      BY <2>1, <2>2, <2>3, <3>1
  <2>4. CASE ~p.ack
    <3>1. w[4] = p.ttl + 64 * 0
      BY <1>1, <2>4 DEF Flag
    <3> QED
      BY <2>1, <2>2, <2>4, <3>1
  <2> QED
    BY <2>3, <2>4
<1>3. /\ w[5] \div 16 = TypeCode(p.type)
      /\ 256 * (w[5] % 16) + w[6] = p.seq_no
  <2>1. TypeCode(p.type) \in {4, 8} /\ p.seq_no \in SeqNo
    BY PacketFields DEF TypeCode
  <2>2. /\ (TypeCode(p.type) * 16 + ((p.seq_no \div 256) % 16)) \div 16 = TypeCode(p.type)
        /\ 256 * ((TypeCode(p.type) * 16 + ((p.seq_no \div 256) % 16)) % 16) + (p.seq_no % 256)
             = p.seq_no
    BY <2>1, SeqNoBits, SMT
  <2> QED
    BY <1>1, <2>2, Zenon
<1>4. (CASE w[5] \div 16 = 4 -> "command" [] w[5] \div 16 = 8 -> "data" [] OTHER -> "invalid") = p.type
  <2>1. CASE p.type = "command"
    <3>1. w[5] \div 16 = 4
      BY <1>3, <2>1 DEF TypeCode
    <3> QED
      BY <2>1, <3>1
  <2>2. CASE p.type = "data"
    <3>1. w[5] \div 16 = 8
      BY <1>3, <2>2 DEF TypeCode
    <3> QED
      BY <2>2, <3>1
  <2> QED
    BY <2>1, <2>2, PacketFields
<1>5. p.ack \in BOOLEAN
  BY PacketFields
<1>6. /\ Byte(w, 0) = w[1] /\ Byte(w, 1) = w[2] /\ Byte(w, 3) = w[4]
      /\ Byte(w, 4) = w[5] /\ Byte(w, 5) = w[6]
  BY DEF Byte
<1>7. ((Byte(w, 3) \div 64) % 2 = 1) = p.ack
  BY <1>2, <1>5, <1>6
<1>8. Header(w) =
        [src |-> p.src, dest |-> p.dest, ttl |-> w[4] % 16, ack |-> p.ack,
         type |-> CASE w[5] \div 16 = 4 -> "command" [] w[5] \div 16 = 8 -> "data"
                    [] OTHER -> "invalid",
         seq_no |-> 256 * (w[5] % 16) + w[6]]
  BY <1>1, <1>6, <1>7 DEF Header
<1> QED
  BY <1>2, <1>3, <1>4, <1>8 DEF w

\* So is the payload: the bytes of a data packet ...
LEMMA DataRead ==
  ASSUME NEW p, IsPacket(p), p.type = "data", NEW c \in Octet
  PROVE  SubSeq(PacketBytes(p, c), 9, PacketBytes(p, c)[3]) = p.payload
<1> DEFINE w == PacketBytes(p, c)
           b == p.payload
<1>1. b \in Seq(Octet) /\ PayloadBytes(p) = b /\ Len(b) \in Nat
  BY PacketFields, LenProperties
<1>2. w[3] = 8 + Len(b) /\ \A k \in 1 .. Len(b) : w[8 + k] = b[k]
  <2>1. w[3] = Len(w) /\ Len(w) = 8 + Len(PayloadBytes(p))
    BY PacketBytesShape
  <2>2. \A k \in 1 .. Len(PayloadBytes(p)) : w[8 + k] = PayloadBytes(p)[k]
    BY PacketBytesShape
  <2> HIDE DEF w, b
  <2> QED
    BY <1>1, <2>1, <2>2
<1> HIDE DEF w, b
<1> DEFINE n == Len(b)
           s == SubSeq(w, 9, 8 + n)
<1>3. n \in Nat /\ 9 \in Int /\ 8 + n \in Int
  BY <1>1
<1>4. \A k \in 1 .. n : w[8 + k] = b[k] /\ b[k] \in Octet
  BY <1>1, <1>2, ElementOfSeq
<1>5. \A i \in 9 .. 8 + n : w[i] \in Octet
  <2> HIDE DEF n
  <2>1. ASSUME NEW i \in 9 .. 8 + n PROVE w[i] \in Octet
    <3>1. i - 8 \in 1 .. n /\ 8 + (i - 8) = i
      BY <1>3
    <3> QED
      BY <1>4, <3>1
  <2> QED
    BY <2>1
<1>6. /\ s \in Seq(Octet)
      /\ Len(s) = IF 9 <= 8 + n THEN (8 + n) - 9 + 1 ELSE 0
      /\ \A i \in 1 .. (8 + n) - 9 + 1 : s[i] = w[9 + i - 1]
  BY <1>3, <1>5, SubSeqProperties
<1> HIDE DEF n, s
<1>7. Len(s) = n /\ (8 + n) - 9 + 1 = n
  BY <1>3, <1>6
<1>8. ASSUME NEW i \in 1 .. n PROVE s[i] = b[i]
  <2>1. 9 + i - 1 = 8 + i
    BY <1>3
  <2> QED
    BY <1>4, <1>6, <1>7, <2>1
<1>9. s = b
  BY <1>1, <1>6, <1>7, <1>8, SeqEqual DEF n
<1> QED
  BY <1>2, <1>9 DEF s, n, w, b

\* ... and the timestamp and entries of a command.
LEMMA CommandRead ==
  ASSUME NEW p, IsPacket(p), p.type = "command", NEW c \in Octet
  PROVE  /\ Command(PacketBytes(p, c)) = p.payload
         /\ PacketBytes(p, c)[9] = Len(p.payload.entries)
         /\ Len(p.payload.entries) \in Nat
         /\ Len(PacketBytes(p, c)) = 12 + 2 * Len(p.payload.entries)
<1> DEFINE w == PacketBytes(p, c)
           cmd == p.payload
           n == Len(cmd.entries)
           b == CommandBytes(cmd)
<1>1. cmd \in CommandType /\ PayloadBytes(p) = b /\ n \in 0 .. 121
  BY PacketFields, PayloadBytesType
<1>2. n \in Nat /\ n <= 255
  <2>1. \A m \in 0 .. 121 : m \in Nat /\ m <= 255
    OBVIOUS
  <2> QED
    BY <1>1, <2>1, Zenon
<1>3. /\ Len(b) = 4 + 2 * n /\ b[1] = n
      /\ 65536 * (b[2] % 16) + 256 * b[3] + b[4] = cmd.timestamp
      /\ \A k \in 1 .. n : /\ b[4 + (2 * k - 1)] = cmd.entries[k].dest_subnet
                           /\ b[4 + 2 * k] = cmd.entries[k].cost
  <2> HIDE DEF cmd
  <2> QED
    BY <1>1, <1>2, CommandBytesShape, SMT
<1>4. Len(w) = 8 + Len(b) /\ \A k \in 1 .. Len(b) : w[8 + k] = b[k]
  BY <1>1, PacketBytesShape
<1>5. cmd.entries \in Seq(Entry) /\ cmd = [timestamp |-> cmd.timestamp, entries |-> cmd.entries]
  BY <1>1 DEF CommandType
<1> HIDE DEF w, cmd, b
<1>6. DOMAIN cmd.entries = 1 .. n /\ \A k \in 1 .. n : cmd.entries[k] \in Entry
  BY <1>5, LenProperties, ElementOfSeq
<1>7. cmd.entries = [k \in 1 .. n |-> cmd.entries[k]]
  BY <1>5, <1>6, LenProperties
<1> HIDE DEF n
<1>8. /\ Len(w) = 12 + 2 * n
      /\ w[9] = b[1] /\ w[10] = b[2] /\ w[11] = b[3] /\ w[12] = b[4]
  <2>1. 1 \in 1 .. Len(b) /\ 2 \in 1 .. Len(b) /\ 3 \in 1 .. Len(b) /\ 4 \in 1 .. Len(b)
    BY <1>2, <1>3, SMT
  <2>2. w[8 + 1] = b[1] /\ w[8 + 2] = b[2] /\ w[8 + 3] = b[3] /\ w[8 + 4] = b[4]
    BY <1>4, <2>1, SMT
  <2>3. 8 + (4 + 2 * n) = 12 + 2 * n
    BY <1>2
  <2> QED
    BY <1>3, <1>4, <2>2, <2>3, SMT
<1>9. ASSUME NEW k \in 1 .. n
      PROVE  [dest_subnet |-> Byte(w, 10 + 2 * k), cost |-> Byte(w, 11 + 2 * k)] = cmd.entries[k]
  <2>1. /\ 4 + (2 * k - 1) \in 1 .. Len(b) /\ 8 + (4 + (2 * k - 1)) = (10 + 2 * k) + 1
        /\ 4 + 2 * k \in 1 .. Len(b) /\ 8 + (4 + 2 * k) = (11 + 2 * k) + 1
    BY <1>2, <1>3, SMT
  <2>2. /\ w[(10 + 2 * k) + 1] = b[4 + (2 * k - 1)]
        /\ w[(11 + 2 * k) + 1] = b[4 + 2 * k]
    BY <1>4, <2>1, SMT
  <2>3. /\ Byte(w, 10 + 2 * k) = cmd.entries[k].dest_subnet
        /\ Byte(w, 11 + 2 * k) = cmd.entries[k].cost
    BY <1>3, <2>2, SMT DEF Byte
  <2>4. cmd.entries[k] \in Entry
    BY <1>6
  <2> QED
    BY <2>3, <2>4 DEF Entry
<1>10. Byte(w, 8) = n
  BY <1>3, <1>8, SMT DEF Byte
<1>11. [k \in 1 .. Byte(w, 8) |->
          [dest_subnet |-> Byte(w, 10 + 2 * k), cost |-> Byte(w, 11 + 2 * k)]] = cmd.entries
  BY <1>7, <1>9, <1>10
<1>12. 65536 * (Byte(w, 9) % 16) + 256 * Byte(w, 10) + Byte(w, 11) = cmd.timestamp
  <2>1. Byte(w, 9) = w[10] /\ Byte(w, 10) = w[11] /\ Byte(w, 11) = w[12]
    BY DEF Byte
  <2> QED
    BY <1>3, <1>8, <2>1, SMT
<1>13. Command(w) = cmd
  BY <1>5, <1>11, <1>12, SMT DEF Command
<1> QED
  BY <1>2, <1>3, <1>8, <1>13, SMT DEF w, cmd, n

\* packet_deserialise() and RaniPacket::deserialise() read every packet that
\* packet_serialise() or RaniPacket::serialise() can write as it was, field
\* for field, whatever its checksum byte: no bit field overlaps another or is
\* cut, and no entry or byte of the payload is lost.
THEOREM RoundTrip ==
  ASSUME NEW p, IsPacket(p), NEW c \in Octet
  PROVE  Decode(PacketBytes(p, c)) = p
<1> DEFINE w == PacketBytes(p, c)
<1>1. Header(w) = [src |-> p.src, dest |-> p.dest, ttl |-> p.ttl, ack |-> p.ack,
                   type |-> p.type, seq_no |-> p.seq_no]
  BY HeaderRead
<1>2. Payload(w) = p.payload
  <2>1. CASE p.type = "data"
    <3>1. SubSeq(w, 9, w[3]) = p.payload
      BY <2>1, DataRead
    <3>2. Byte(w, 2) = w[3]
      BY DEF Byte
    <3> HIDE DEF w
    <3> QED
      BY <1>1, <2>1, <3>1, <3>2 DEF Payload
  <2>2. CASE p.type = "command"
    <3>1. Command(w) = p.payload
      BY <2>2, CommandRead
    <3> HIDE DEF w
    <3> QED
      BY <1>1, <2>2, <3>1 DEF Payload
  <2> QED
    BY <2>1, <2>2, PacketFields
<1>3. p = [src |-> p.src, dest |-> p.dest, ttl |-> p.ttl, ack |-> p.ack,
           type |-> p.type, seq_no |-> p.seq_no, payload |-> p.payload]
  BY PacketFields
<1> HIDE DEF w
<1> QED
  BY <1>1, <1>2, <1>3 DEF Decode, w

\* All that a deserialiser asks of a packet but the checksum is there.
LEMMA Complete ==
  ASSUME NEW p, IsPacket(p), NEW c \in Octet
  PROVE  /\ Len(PacketBytes(p, c)) >= 8
         /\ Len(PacketBytes(p, c)) >= Byte(PacketBytes(p, c), 2)
         /\ Header(PacketBytes(p, c)).type # "invalid"
         /\ Header(PacketBytes(p, c)).type = "command" =>
              /\ Len(PacketBytes(p, c)) >= 12
              /\ Len(PacketBytes(p, c)) >= 12 + 2 * Byte(PacketBytes(p, c), 8)
<1> DEFINE w == PacketBytes(p, c)
<1>1. Len(w) \in 8 .. 255 /\ w[3] = Len(w)
  BY PacketBytesShape
<1>2. Header(w).type = p.type
  BY HeaderRead
<1>3. ASSUME p.type = "command"
      PROVE  /\ w[9] = Len(p.payload.entries) /\ Len(p.payload.entries) \in Nat
             /\ Len(w) = 12 + 2 * Len(p.payload.entries)
  BY <1>3, CommandRead
<1>4. Byte(w, 2) = w[3] /\ Byte(w, 8) = w[9]
  BY DEF Byte
<1>5. p.type \in {"data", "command"}
  BY PacketFields
<1> HIDE DEF w
<1>6. Len(w) >= 8 /\ Len(w) >= Byte(w, 2)
  <2>1. \A n \in 8 .. 255 : n >= 8 /\ n >= n
    OBVIOUS
  <2> QED
    BY <1>1, <1>4, <2>1, Zenon
<1>7. p.type = "command" => Len(w) >= 12 /\ Len(w) >= 12 + 2 * Byte(w, 8)
  <2>1. \A n \in Nat : 12 + 2 * n >= 12 /\ 12 + 2 * n >= 12 + 2 * n
    OBVIOUS
  <2> QED
    BY <1>3, <1>4, <2>1, Zenon
<1> QED
  BY <1>2, <1>5, <1>6, <1>7 DEF w

\* So a packet is refused for its checksum only, and otherwise read as it is.
LEMMA Deserialised ==
  ASSUME NEW p, IsPacket(p), NEW c \in Octet
  PROVE  /\ CDeserialise(PacketBytes(p, c)) =
              IF CValid(Sum(PacketBytes(p, c))) THEN Some(p) ELSE None
         /\ RDeserialise(PacketBytes(p, c)) =
              IF RValid(Sum(PacketBytes(p, c))) THEN Some(p) ELSE None
<1> DEFINE w == PacketBytes(p, c)
<1>1. /\ Len(w) >= 8 /\ Len(w) >= Byte(w, 2) /\ Header(w).type # "invalid"
      /\ Header(w).type = "command" => Len(w) >= 12 /\ Len(w) >= 12 + 2 * Byte(w, 8)
  BY Complete
<1>2. Decode(w) = p
  BY RoundTrip
<1> HIDE DEF w
<1>3. CDeserialise(w) = IF CValid(Sum(w)) THEN Some(p) ELSE None
  BY <1>1, <1>2, Zenon DEF CDeserialise
<1>4. RDeserialise(w) = IF RValid(Sum(w)) THEN Some(p) ELSE None
  BY <1>1, <1>2, Zenon DEF RDeserialise
<1> QED
  BY <1>3, <1>4 DEF w

\* The sum of a packet, its checksum byte apart.
LEMMA PacketSum ==
  ASSUME NEW p, IsPacket(p), NEW c \in Octet
  PROVE  /\ Sum(PacketBytes(p, 0)) \in Sums
         /\ Sum(PacketBytes(p, c)) = Sum(PacketBytes(p, 0)) + c
         /\ Sum(PacketBytes(p, c)) \in Nat /\ Sum(PacketBytes(p, c)) <= 255 * 255
         /\ Sum(PacketBytes(p, c)) > 0
<1>1. 0 \in Octet /\ 255 \in Octet
  BY DEF Octet
<1>2. ASSUME NEW x \in Octet
      PROVE  /\ Sum(PacketBytes(p, x)) = Sum(PacketBytes(p, 0)) + (x - 0)
             /\ Sum(PacketBytes(p, x)) \in Nat /\ Sum(PacketBytes(p, x)) <= 255 * 255
             /\ Sum(PacketBytes(p, x)) > 0
  <2> DEFINE v == PacketBytes(p, 0)
             w == PacketBytes(p, x)
  <2>1. /\ v \in Seq(Octet) /\ Len(v) = 8 + Len(PayloadBytes(p)) /\ Len(v) \in 8 .. 255
        /\ v[1] = p.src /\ v[2] = p.dest /\ v[3] = Len(v) /\ v[4] = p.ttl + 64 * Flag(p.ack)
        /\ v[5] = TypeCode(p.type) * 16 + ((p.seq_no \div 256) % 16)
        /\ v[6] = p.seq_no % 256 /\ v[7] = 0 /\ v[8] = 0
        /\ \A k \in 1 .. Len(PayloadBytes(p)) : v[8 + k] = PayloadBytes(p)[k]
    BY <1>1, PacketBytesShape
  <2>2. /\ w \in Seq(Octet) /\ Len(w) = 8 + Len(PayloadBytes(p)) /\ Len(w) \in 8 .. 255
        /\ w[1] = p.src /\ w[2] = p.dest /\ w[3] = Len(w) /\ w[4] = p.ttl + 64 * Flag(p.ack)
        /\ w[5] = TypeCode(p.type) * 16 + ((p.seq_no \div 256) % 16)
        /\ w[6] = p.seq_no % 256 /\ w[7] = x /\ w[8] = 0
        /\ \A k \in 1 .. Len(PayloadBytes(p)) : w[8 + k] = PayloadBytes(p)[k]
    BY PacketBytesShape
  <2> HIDE DEF v, w
  <2>3. \A k \in 1 .. Len(v) : k # 7 => w[k] = v[k]
    <3> DEFINE n == Len(PayloadBytes(p))
    <3>1. n \in Nat /\ Len(v) = 8 + n
      BY <2>1, PayloadBytesType
    <3>2. \A k \in 1 .. n : w[8 + k] = v[8 + k]
      BY <2>1, <2>2
    <3>3. w[1] = v[1] /\ w[2] = v[2] /\ w[3] = v[3] /\ w[4] = v[4] /\ w[5] = v[5]
          /\ w[6] = v[6] /\ w[8] = v[8]
      BY <2>1, <2>2
    <3> HIDE DEF n
    <3>4. \A k \in 1 .. 8 + n : k \in 1 .. 8 \/ (k - 8 \in 1 .. n /\ 8 + (k - 8) = k)
      BY <3>1
    <3>5. ASSUME NEW k \in 1 .. 8 + n, k # 7 PROVE w[k] = v[k]
      <4>1. CASE k \in 1 .. 8
        BY <3>3, <3>5, <4>1
      <4>2. CASE k - 8 \in 1 .. n /\ 8 + (k - 8) = k
        <5>1. w[8 + (k - 8)] = v[8 + (k - 8)]
          BY <3>2, <4>2
        <5> QED
          BY <4>2, <5>1
      <4> QED
        BY <3>4, <4>1, <4>2
    <3> QED
      BY <3>1, <3>5
  <2>4. Len(v) \in 1 .. 255 /\ Len(w) = Len(v) /\ 7 \in 1 .. Len(v) /\ 3 \in 1 .. Len(w)
    <3>1. \A n \in 8 .. 255 : n \in 1 .. 255 /\ 7 \in 1 .. n /\ 3 \in 1 .. n
      OBVIOUS
    <3>2. Len(w) = Len(v)
      BY <2>1, <2>2
    <3> QED
      BY <2>1, <3>1, <3>2, Zenon
  <2>5. Sum(w) = Sum(v) + (w[7] - v[7])
    BY <2>1, <2>2, <2>3, <2>4, SumChange
  <2>6. Sum(w) \in Nat /\ Sum(w) <= 255 * 255 /\ w[3] <= Sum(w)
    BY <2>2, <2>4, SumBounds
  <2>7. Sum(w) > 0
    <3>1. \A n \in 8 .. 255, s \in Nat : n <= s => s > 0
      OBVIOUS
    <3> QED
      BY <2>2, <2>6, <3>1
  <2> QED
    BY <2>1, <2>2, <2>5, <2>6, <2>7 DEF v, w
<1> DEFINE S == Sum(PacketBytes(p, 0))
           T == Sum(PacketBytes(p, 255))
           U == Sum(PacketBytes(p, c))
<1>3. /\ S \in Nat /\ T = S + (255 - 0) /\ T \in Nat /\ T <= 255 * 255
      /\ U = S + (c - 0) /\ U \in Nat /\ U <= 255 * 255 /\ U > 0
  BY <1>1, <1>2
<1>4. c \in Nat
  BY DEF Octet
<1> HIDE DEF S, T, U
<1>5. S <= 254 * 255 /\ U = S + c
  BY <1>3, <1>4
<1>6. S \in Sums
  BY <1>3, <1>5, SMT DEF Sums
<1> QED
  BY <1>3, <1>5, <1>6 DEF S, T, U

\* What the serialisers write.
LEMMA Serialised ==
  ASSUME NEW p, IsPacket(p)
  PROVE  /\ CChecksum(Sum(PacketBytes(p, 0))) \in Octet
         /\ CSerialise(p) = PacketBytes(p, CChecksum(Sum(PacketBytes(p, 0))))
         /\ RChecksum(Sum(PacketBytes(p, 0))) \in Octet
         /\ RSerialise(p) = PacketBytes(p, RChecksum(Sum(PacketBytes(p, 0))))
<1> DEFINE S == Sum(PacketBytes(p, 0))
<1>1. S \in Nat
  <2>1. 0 \in Octet
    BY DEF Octet
  <2> QED
    BY <2>1, PacketSum
<1> HIDE DEF S
<1>2. CChecksum(S) \in Octet /\ RChecksum(S) \in Octet
  BY <1>1, SMT DEF CChecksum, RChecksum, Fold, Octet
<1> QED
  BY <1>2 DEF S, CSerialise, RSerialise

-----------------------------------------------------------------------------
(* The journey: its inductive invariant.  The properties say what was read    *)
(* of a packet; they hold because the bytes are known until it is read.      *)

\* Who has the packet.
Places == {"idle", "to_router", "at_router", "to_app", "at_app", "to_netsim", "at_netsim"}

\* What route() hands to the application.
IsQuestion(q) == IsPacket(q) /\ q.type = "data" /\ q.dest = APPLICATION_ADDR

\* Between two packets nothing is left of the first.
AtRest ==
  channel = "idle" => sent = None /\ wire = <<>> /\ got = None /\ asked = None

\* The bytes are those of the packet, up to the checksum ...
OnTheWire ==
  channel # "idle" =>
    /\ sent = Some(sent[1]) /\ IsPacket(sent[1])
    /\ \E c \in Octet : wire = PacketBytes(sent[1], c)

\* ... and with the router's checksum on the way to netsim.
FromTheRouter ==
  channel \in {"to_netsim", "at_netsim"} => wire = CSerialise(sent[1])

\* What was read is what a deserialiser made of the bytes, and a packet.
Read ==
  /\ got # None => got = Some(got[1]) /\ IsPacket(got[1])
  /\ channel \in {"at_router", "at_app"} => got = CDeserialise(wire)
  /\ channel = "at_netsim" => got = RDeserialise(wire)

\* The question is the packet the application has, and the packet that goes
\* back to the router is its answer.
Asked ==
  /\ asked # None => asked = Some(asked[1]) /\ IsQuestion(asked[1])
  /\ channel \in {"to_app", "at_app"} => asked = sent
  /\ channel \in {"to_router", "at_router"} /\ asked # None => sent = Some(Answer(asked[1]))

\* The inductive invariant.
WireInv ==
  channel \in Places /\ AtRest /\ OnTheWire /\ FromTheRouter /\ Read /\ Asked /\ AnswerIsExpected

\* What the simulator's or the router's serialiser writes, and the bytes of
\* a wrong checksum of a test case.
LEMMA WithChecksum ==
  ASSUME NEW p, IsPacket(p), NEW b \in Octet, NEW c \in Octet
  PROVE  [PacketBytes(p, b) EXCEPT ![7] = c] = PacketBytes(p, c)
<1> DEFINE v == PacketBytes(p, b)
           w == PacketBytes(p, c)
           n == Len(PayloadBytes(p))
<1>1. /\ v \in Seq(Octet) /\ Len(v) = 8 + n
      /\ v[1] = p.src /\ v[2] = p.dest /\ v[3] = Len(v) /\ v[4] = p.ttl + 64 * Flag(p.ack)
      /\ v[5] = TypeCode(p.type) * 16 + ((p.seq_no \div 256) % 16)
      /\ v[6] = p.seq_no % 256 /\ v[7] = b /\ v[8] = 0
      /\ \A k \in 1 .. n : v[8 + k] = PayloadBytes(p)[k]
  BY PacketBytesShape
<1>2. /\ w \in Seq(Octet) /\ Len(w) = 8 + n
      /\ w[1] = p.src /\ w[2] = p.dest /\ w[3] = Len(w) /\ w[4] = p.ttl + 64 * Flag(p.ack)
      /\ w[5] = TypeCode(p.type) * 16 + ((p.seq_no \div 256) % 16)
      /\ w[6] = p.seq_no % 256 /\ w[7] = c /\ w[8] = 0
      /\ \A k \in 1 .. n : w[8 + k] = PayloadBytes(p)[k]
  BY PacketBytesShape
<1>3. n \in Nat
  BY PayloadBytesType
<1> HIDE DEF v, w, n
<1>4. DOMAIN v = 1 .. 8 + n /\ DOMAIN w = 1 .. 8 + n
  BY <1>1, <1>2, LenProperties
<1>5. v = [k \in 1 .. 8 + n |-> v[k]] /\ w = [k \in 1 .. 8 + n |-> w[k]]
  <2>1. v \in [1 .. Len(v) -> Octet] /\ w \in [1 .. Len(w) -> Octet]
    BY <1>1, <1>2, LenProperties
  <2> QED
    BY <1>1, <1>2, <2>1
<1>6. ASSUME NEW k \in 1 .. 8 + n, k # 7
      PROVE  v[k] = w[k]
  <2>1. CASE k <= 8
    <3>1. v[1] = w[1] /\ v[2] = w[2] /\ v[3] = w[3] /\ v[4] = w[4] /\ v[5] = w[5]
          /\ v[6] = w[6] /\ v[8] = w[8]
      BY <1>1, <1>2, Zenon
    <3>2. k \in {1, 2, 3, 4, 5, 6, 8}
      BY <1>3, <1>6, <2>1
    <3> QED
      BY <3>1, <3>2, Zenon
  <2>2. CASE k > 8
    <3>1. PICK i \in 1 .. n : k = 8 + i
      BY <1>3, <1>6, <2>2
    <3> QED
      BY <1>1, <1>2, <3>1, Zenon
  <2> QED
    BY <1>3, <2>1, <2>2
<1>7. [v EXCEPT ![7] = c] = [k \in 1 .. 8 + n |-> IF k = 7 THEN c ELSE v[k]]
  BY <1>5, Zenon
<1>8. \A k \in 1 .. 8 + n : (IF k = 7 THEN c ELSE v[k]) = w[k]
  BY <1>2, <1>6, Zenon
<1> QED
  BY <1>5, <1>7, <1>8 DEF v, w

\* route() lowers the TTL of a packet it forwards ...
LEMMA Forwarded ==
  ASSUME NEW p, IsPacket(p), p.ttl > 1
  PROVE  IsPacket([p EXCEPT !.ttl = @ - 1])
<1> DEFINE r == [p EXCEPT !.ttl = @ - 1]
<1>1. /\ p.src \in Octet /\ p.dest \in Octet /\ p.ttl \in Nibble /\ p.ack \in BOOLEAN
      /\ p.type \in {"data", "command"} /\ p.seq_no \in SeqNo
      /\ p = [src |-> p.src, dest |-> p.dest, ttl |-> p.ttl, ack |-> p.ack,
              type |-> p.type, seq_no |-> p.seq_no, payload |-> p.payload]
      /\ p.type = "data" => p.payload \in Seq(Octet)
      /\ p.type = "command" => p.payload \in CommandType
      /\ 8 + Len(PayloadBytes(p)) <= 255
  BY PacketFields
<1>2. r = [src |-> p.src, dest |-> p.dest, ttl |-> p.ttl - 1, ack |-> p.ack,
           type |-> p.type, seq_no |-> p.seq_no, payload |-> p.payload]
  BY <1>1
<1>3. p.ttl - 1 \in Nibble
  BY <1>1 DEF Nibble
<1> HIDE DEF r
<1>4. r.type = p.type /\ r.payload = p.payload
  BY <1>2
<1>5. PayloadBytes(r) = PayloadBytes(p)
  BY <1>4, Zenon DEF PayloadBytes
<1>6. CASE p.type = "data"
  <2>1. r \in PacketOf("data", Seq(Octet))
    BY <1>1, <1>2, <1>3, <1>6 DEF PacketOf
  <2> QED
    BY <1>1, <1>4, <1>5, <1>6, <2>1, Zenon DEF IsPacket, r
<1>7. CASE p.type = "command"
  <2>1. r \in PacketOf("command", CommandType)
    BY <1>1, <1>2, <1>3, <1>7 DEF PacketOf
  <2> QED
    BY <1>1, <1>4, <1>5, <1>7, <2>1, Zenon DEF IsPacket, r
<1> QED
  BY <1>1, <1>6, <1>7

\* ... and broadcasts its own table in the packet that changed it.
LEMMA Broadcasted ==
  ASSUME NEW p, IsPacket(p), p.type = "command", NEW table \in Tables
  PROVE  IsPacket([p EXCEPT !.src = p.dest, !.dest = table.dest,
                            !.payload.entries = table.entries])
<1> DEFINE r == [p EXCEPT !.src = p.dest, !.dest = table.dest,
                          !.payload.entries = table.entries]
           cmd == [timestamp |-> p.payload.timestamp, entries |-> table.entries]
<1>1. /\ p.src \in Octet /\ p.dest \in Octet /\ p.ttl \in Nibble /\ p.ack \in BOOLEAN
      /\ p.seq_no \in SeqNo /\ p.payload \in CommandType
      /\ p = [src |-> p.src, dest |-> p.dest, ttl |-> p.ttl, ack |-> p.ack,
              type |-> p.type, seq_no |-> p.seq_no, payload |-> p.payload]
  BY PacketFields
<1>2. /\ table.dest \in Octet /\ table.entries \in Seq(Entry)
      /\ 12 + 2 * Len(table.entries) <= 255
  BY PacketsAssumption
<1>3. /\ p.payload = [timestamp |-> p.payload.timestamp, entries |-> p.payload.entries]
      /\ p.payload.timestamp \in Timestamp
  BY <1>1 DEF CommandType
<1>4. r = [src |-> p.dest, dest |-> table.dest, ttl |-> p.ttl, ack |-> p.ack,
           type |-> p.type, seq_no |-> p.seq_no,
           payload |-> [p.payload EXCEPT !.entries = table.entries]]
  <2> DEFINE p1 == [p EXCEPT !.src = p.dest]
             p2 == [p1 EXCEPT !.dest = table.dest]
  <2>1. r = [p2 EXCEPT !.payload.entries = table.entries]
    BY Zenon
  <2>2. p1 = [src |-> p.dest, dest |-> p.dest, ttl |-> p.ttl, ack |-> p.ack,
              type |-> p.type, seq_no |-> p.seq_no, payload |-> p.payload]
    BY <1>1
  <2> HIDE DEF p1, r
  <2>3. p2 = [src |-> p.dest, dest |-> table.dest, ttl |-> p.ttl, ack |-> p.ack,
              type |-> p.type, seq_no |-> p.seq_no, payload |-> p.payload]
    BY <2>2
  <2> HIDE DEF p2
  <2> QED
    BY <2>1, <2>3
<1>5. [p.payload EXCEPT !.entries = table.entries] = cmd
  BY <1>3
<1>6. cmd \in CommandType /\ cmd.entries = table.entries
  BY <1>2, <1>3 DEF CommandType
<1> HIDE DEF r, cmd
<1>7. r \in PacketOf("command", CommandType)
  BY <1>1, <1>2, <1>4, <1>5, <1>6 DEF PacketOf
<1>8. r.type = "command" /\ r.payload = cmd
  BY <1>4, <1>5
<1>9. PayloadBytes(r) = CommandBytes(cmd)
  BY <1>8, Zenon DEF PayloadBytes
<1>10. 8 + Len(PayloadBytes(r)) <= 255
  <2>1. Len(cmd.entries) \in Nat /\ Len(CommandBytes(cmd)) = 4 + 2 * Len(cmd.entries)
    BY <1>6, CommandLength
  <2>2. \A n \in Nat : 12 + 2 * n <= 255 => 8 + (4 + 2 * n) <= 255
    OBVIOUS
  <2> QED
    BY <1>2, <1>6, <1>9, <2>1, <2>2, Zenon
<1> QED
  BY <1>7, <1>8, <1>10, Zenon DEF IsPacket, r

\* The application's answer is a packet if the question left room for
\* "Hello ".
LEMMA Answered ==
  ASSUME NEW q, IsPacket(q), q.type = "data"
  PROVE  /\ 8 + Len(q.payload) <= 249 => IsPacket(Answer(q))
         /\ Answer(q).type = "data"
         /\ Answer(q) = [src |-> q.dest, dest |-> q.src, ttl |-> 15, ack |-> TRUE, type |-> "data",
                         seq_no |-> (q.seq_no + 1) % 4096, payload |-> Hello \o q.payload]
<1>1. /\ q.src \in Octet /\ q.dest \in Octet /\ q.ttl \in Nibble /\ q.ack \in BOOLEAN
      /\ q.seq_no \in SeqNo /\ q.payload \in Seq(Octet)
      /\ q = [src |-> q.src, dest |-> q.dest, ttl |-> q.ttl, ack |-> q.ack,
              type |-> q.type, seq_no |-> q.seq_no, payload |-> q.payload]
  BY PacketFields
<1> DEFINE a == Answer(q)
           b == Hello \o q.payload
           n == (q.seq_no + 1) % 4096
<1>2. n \in SeqNo /\ 15 \in Nibble
  <2>1. \A s \in SeqNo : (s + 1) % 4096 \in SeqNo
    BY SMT DEF SeqNo
  <2>2. 15 \in Nibble
    BY SMT DEF Nibble
  <2> QED
    BY <1>1, <2>1, <2>2, SMT DEF n
<1>3. Hello \in Seq(Octet) /\ Len(Hello) = 6
  BY SMT DEF Hello, Octet
<1>4. b \in Seq(Octet) /\ Len(b) = Len(Hello) + Len(q.payload) /\ Len(q.payload) \in Nat
  <2>1. Hello \o q.payload \in Seq(Octet)
    BY <1>1, <1>3, Concat
  <2>2. Len(Hello \o q.payload) = Len(Hello) + Len(q.payload)
    BY <1>1, <1>3, Concat
  <2>3. Len(q.payload) \in Nat
    BY <1>1, LenProperties
  <2> QED
    BY <2>1, <2>2, <2>3
<1> HIDE DEF n, b
<1>5. a = [src |-> q.dest, dest |-> q.src, ttl |-> 15, ack |-> TRUE, type |-> "data",
           seq_no |-> n, payload |-> b]
  <2>1. a = [q EXCEPT !.src = q.dest, !.dest = q.src, !.ttl = 15, !.ack = TRUE,
                      !.seq_no = (@ + 1) % 4096, !.payload = Hello \o @]
    BY Zenon DEF Answer
  <2> HIDE DEF a
  <2>2. a.seq_no = n /\ a.payload = b
    BY <1>1, <2>1 DEF n, b
  <2>3. a = [q EXCEPT !.src = q.dest, !.dest = q.src, !.ttl = 15, !.ack = TRUE,
                      !.seq_no = n, !.payload = b]
    BY <2>1, Zenon DEF n, b
  <2> QED
    BY <1>1, <2>3
<1> HIDE DEF a
<1>6. a \in PacketOf("data", Seq(Octet))
  BY <1>1, <1>2, <1>4, <1>5 DEF PacketOf
<1>7. a.type = "data" /\ a.payload = b
  BY <1>5
<1>8. PayloadBytes(a) = b
  BY <1>7 DEF PayloadBytes
<1>9. ASSUME 8 + Len(q.payload) <= 249
      PROVE  IsPacket(a)
  <2> DEFINE m == Len(q.payload)
  <2>1. m \in Nat /\ 8 + m <= 249 /\ Len(b) = 6 + m
    BY <1>3, <1>4, <1>9, Zenon
  <2> HIDE DEF m
  <2>2. 8 + Len(b) <= 255
    BY <2>1
  <2> QED
    BY <1>6, <1>7, <1>8, <2>2, Zenon DEF IsPacket
<1> QED
  BY <1>5, <1>7, <1>9 DEF a, n, b

\* What the test cases expect after the hop through the router.
Expected(q) ==
  [src |-> APPLICATION_ADDR, dest |-> q.src, ttl |-> 14, ack |-> TRUE, type |-> "data",
   seq_no |-> (q.seq_no + 1) % 4096, payload |-> Hello \o q.payload]

\* The answer after its hop.
LEMMA AnswerForwarded ==
  ASSUME NEW q, IsQuestion(q)
  PROVE  [Answer(q) EXCEPT !.ttl = @ - 1] = Expected(q)
<1> DEFINE n == (q.seq_no + 1) % 4096
           b == Hello \o q.payload
<1>1. Answer(q) = [src |-> q.dest, dest |-> q.src, ttl |-> 15, ack |-> TRUE, type |-> "data",
                   seq_no |-> n, payload |-> b]
  BY Answered DEF IsQuestion
<1>2. q.dest = APPLICATION_ADDR
  BY DEF IsQuestion
<1>3. Expected(q) = [src |-> APPLICATION_ADDR, dest |-> q.src, ttl |-> 14, ack |-> TRUE,
                     type |-> "data", seq_no |-> n, payload |-> b]
  BY DEF Expected
<1> HIDE DEF n, b
<1>4. [Answer(q) EXCEPT !.ttl = @ - 1]
      = [src |-> q.dest, dest |-> q.src, ttl |-> 14, ack |-> TRUE, type |-> "data",
         seq_no |-> n, payload |-> b]
  <2> DEFINE x == Answer(q)
             s == q.dest
             d == q.src
             k == TRUE
  <2>1. x = [src |-> s, dest |-> d, ttl |-> 15, ack |-> k, type |-> "data",
             seq_no |-> n, payload |-> b]
    BY <1>1, Zenon
  <2> HIDE DEF x, s, d, k
  <2>2. [x EXCEPT !.ttl = @ - 1]
        = [src |-> s, dest |-> d, ttl |-> 14, ack |-> k, type |-> "data",
           seq_no |-> n, payload |-> b]
    BY <2>1
  <2> QED
    BY <2>2, Zenon DEF x, s, d, k
<1> QED
  BY <1>2, <1>3, <1>4

\* Some packet is not none.
LEMMA Options ==
  \A x : Some(x) # None /\ Some(x)[1] = x
BY DEF Some, None

\* A deserialiser makes nothing of a packet, or the packet.
LEMMA Accepted ==
  ASSUME NEW p, IsPacket(p), NEW c \in Octet
  PROVE  /\ CDeserialise(PacketBytes(p, c)) \in {None, Some(p)}
         /\ RDeserialise(PacketBytes(p, c)) \in {None, Some(p)}
BY Deserialised, Zenon

\* The invariant holds at first ...
LEMMA WireInvInit == Init => WireInv
BY DEF Init, WireInv, Places, AtRest, OnTheWire, FromTheRouter, Read, Asked, AnswerIsExpected

\* ... and every action keeps it ...
LEMMA WireInvNext == WireInv /\ [Next]_vars => WireInv'
<1> SUFFICES ASSUME WireInv, [Next]_vars
             PROVE  WireInv'
  OBVIOUS
<1> USE Options DEF WireInv
<1>1. ASSUME NetsimSend
      PROVE  WireInv'
  <2>1. PICK p \in TestPackets :
          /\ sent' = Some(p)
          /\ \/ wire' = RSerialise(p)
             \/ \E c \in CustomChecksums : wire' = [RSerialise(p) EXCEPT ![7] = c]
    BY <1>1, Zenon DEF NetsimSend
  <2>2. channel' = "to_router" /\ channel = "idle" /\ got' = got /\ asked' = asked
    BY <1>1, Zenon DEF NetsimSend
  <2>3. IsPacket(p) /\ sent'[1] = p
    BY <2>1, PacketsAssumption, Zenon
  <2>4. \E c \in Octet : wire' = PacketBytes(p, c)
    <3>1. PICK b \in Octet : RSerialise(p) = PacketBytes(p, b)
      BY <2>3, Serialised, Zenon
    <3>2. CASE wire' = RSerialise(p)
      BY <3>1, <3>2, Zenon
    <3>3. CASE \E c \in CustomChecksums : wire' = [RSerialise(p) EXCEPT ![7] = c]
      <4>1. PICK c \in CustomChecksums : wire' = [RSerialise(p) EXCEPT ![7] = c]
        BY <3>3, Zenon
      <4>2. c \in Octet
        BY <4>1, PacketsAssumption, Zenon
      <4>3. [PacketBytes(p, b) EXCEPT ![7] = c] = PacketBytes(p, c)
        BY <2>3, <4>2, WithChecksum, Zenon
      <4> QED
        BY <3>1, <4>1, <4>2, <4>3, Zenon
    <3> QED
      BY <2>1, <3>2, <3>3, Zenon
  <2>5. got = None /\ asked = None
    BY <2>2, Zenon DEF AtRest
  <2> QED
    BY <2>1, <2>2, <2>3, <2>4, <2>5, Zenon
    DEF Places, AtRest, OnTheWire, FromTheRouter, Read, Asked, AnswerIsExpected
<1>2. ASSUME RouterReceive
      PROVE  WireInv'
  <2>1. /\ channel = "to_router" /\ channel' = "at_router" /\ got' = CDeserialise(wire)
        /\ sent' = sent /\ wire' = wire /\ asked' = asked
    BY <1>2, Zenon DEF RouterReceive
  <2>2. got' \in {None, sent}
    BY <2>1, Accepted, Zenon DEF OnTheWire
  <2>3. channel' \in Places /\ AtRest' /\ OnTheWire' /\ FromTheRouter' /\ AnswerIsExpected'
    BY <2>1, Zenon DEF Places, AtRest, OnTheWire, FromTheRouter, AnswerIsExpected
  <2>4. Read'
    BY <2>1, <2>2, Zenon DEF OnTheWire, Read
  <2>5. Asked'
    BY <2>1, Zenon DEF Asked
  <2> QED
    BY <2>3, <2>4, <2>5, Zenon
<1>3. ASSUME NetsimReceive
      PROVE  WireInv'
  <2>1. /\ channel = "to_netsim" /\ channel' = "at_netsim" /\ got' = RDeserialise(wire)
        /\ sent' = sent /\ wire' = wire /\ asked' = asked
    BY <1>3, Zenon DEF NetsimReceive
  <2>2. got' \in {None, sent}
    BY <2>1, Accepted, Zenon DEF OnTheWire
  <2>3. channel' \in Places /\ AtRest' /\ OnTheWire' /\ FromTheRouter' /\ AnswerIsExpected'
    BY <2>1, Zenon DEF Places, AtRest, OnTheWire, FromTheRouter, AnswerIsExpected
  <2>4. Read'
    BY <2>1, <2>2, Zenon DEF OnTheWire, Read
  <2>5. Asked'
    BY <2>1, Zenon DEF Asked
  <2> QED
    BY <2>3, <2>4, <2>5, Zenon
<1>4. ASSUME AppReceive
      PROVE  WireInv'
  <2>1. /\ channel = "to_app" /\ channel' = "at_app" /\ got' = CDeserialise(wire)
        /\ sent' = sent /\ wire' = wire /\ asked' = asked
    BY <1>4, Zenon DEF AppReceive
  <2>2. got' \in {None, sent}
    BY <2>1, Accepted, Zenon DEF OnTheWire
  <2>3. channel' \in Places /\ AtRest' /\ OnTheWire' /\ FromTheRouter' /\ AnswerIsExpected'
    BY <2>1, Zenon DEF Places, AtRest, OnTheWire, FromTheRouter, AnswerIsExpected
  <2>4. Read'
    BY <2>1, <2>2, Zenon DEF OnTheWire, Read
  <2>5. Asked'
    BY <2>1, Zenon DEF Asked
  <2> QED
    BY <2>3, <2>4, <2>5, Zenon
<1>5. ASSUME RouterForward
      PROVE  WireInv'
  <2> DEFINE p == [got[1] EXCEPT !.ttl = @ - 1]
  <2>1. /\ channel = "at_router" /\ channel' = "to_netsim" /\ got # None
        /\ got[1].type = "data" /\ got[1].dest # APPLICATION_ADDR /\ got[1].ttl > 1
        /\ sent' = Some(p) /\ wire' = CSerialise(sent'[1]) /\ got' = got /\ asked' = asked
    BY <1>5, Zenon DEF RouterForward
  <2>2. IsPacket(got[1]) /\ got = sent
    <3>1. got \in {None, sent}
      BY <2>1, Accepted, Zenon DEF OnTheWire, Read
    <3> QED
      BY <2>1, <3>1, Zenon DEF Read
  <2>3. IsPacket(p)
    BY <2>1, <2>2, Forwarded
  <2> HIDE DEF p
  <2>4. sent'[1] = p
    BY <2>1, Zenon
  <2>5. \E c \in Octet : wire' = PacketBytes(p, c)
    BY <2>1, <2>3, <2>4, Serialised, Zenon
  <2>6. ASSUME asked # None
        PROVE  sent' = Some(Expected(asked[1]))
    <3>1. IsQuestion(asked[1]) /\ sent = Some(Answer(asked[1]))
      BY <2>1, <2>6, Zenon DEF Asked
    <3>2. p = [Answer(asked[1]) EXCEPT !.ttl = @ - 1]
      BY <2>2, <3>1, Zenon DEF p
    <3>3. [Answer(asked[1]) EXCEPT !.ttl = @ - 1] = Expected(asked[1])
      BY <3>1, AnswerForwarded
    <3> QED
      BY <2>1, <3>2, <3>3, Zenon
  <2>7. channel' \in Places /\ AtRest' /\ OnTheWire' /\ FromTheRouter'
    BY <2>1, <2>3, <2>4, <2>5, Zenon DEF Places, AtRest, OnTheWire, FromTheRouter
  <2>8. Read' /\ Asked'
    BY <2>1, Zenon DEF Read, Asked
  <2>9. AnswerIsExpected'
    <3>1. asked' # None => sent' = Some(Expected(asked'[1]))
      BY <2>1, <2>6, Zenon
    <3> QED
      BY <3>1 DEF AnswerIsExpected, Expected
  <2> QED
    BY <2>7, <2>8, <2>9, Zenon
<1>6. ASSUME RouterBroadcast
      PROVE  WireInv'
  <2>1. /\ channel = "at_router" /\ channel' = "to_netsim" /\ got # None
        /\ got[1].type = "command"
        /\ wire' = CSerialise(sent'[1]) /\ got' = got /\ asked' = asked
    BY <1>6, Zenon DEF RouterBroadcast
  <2>2. IsPacket(got[1]) /\ got = sent
    <3>1. got \in {None, sent}
      BY <2>1, Accepted, Zenon DEF OnTheWire, Read
    <3> QED
      BY <2>1, <3>1, Zenon DEF Read
  <2>3. PICK table \in Tables :
          sent' = Some([got[1] EXCEPT !.src = got[1].dest, !.dest = table.dest,
                                      !.payload.entries = table.entries])
    BY <1>6, Zenon DEF RouterBroadcast
  <2>4. sent' = Some(sent'[1]) /\ IsPacket(sent'[1])
    <3> DEFINE p == [got[1] EXCEPT !.src = got[1].dest, !.dest = table.dest,
                                   !.payload.entries = table.entries]
    <3>1. IsPacket(p)
      BY <2>1, <2>2, Broadcasted, Zenon
    <3> HIDE DEF p
    <3>2. sent' = Some(p)
      BY <2>3, Zenon DEF p
    <3> QED
      BY <3>1, <3>2, Zenon
  <2>5. \E c \in Octet : wire' = PacketBytes(sent'[1], c)
    BY <2>1, <2>4, Serialised, Zenon
  <2>6. asked = None
    <3>1. ASSUME asked # None
          PROVE  FALSE
      <4>1. IsPacket(asked[1]) /\ asked[1].type = "data"
        BY <3>1, Zenon DEF Asked, IsQuestion
      <4>2. Answer(asked[1]).type = "data"
        BY <4>1, Answered
      <4>3. got[1] = Answer(asked[1])
        BY <2>1, <2>2, <3>1, Zenon DEF Asked
      <4> QED
        BY <2>1, <4>2, <4>3
    <3> QED
      BY <3>1
  <2>7. channel' \in Places /\ AtRest' /\ OnTheWire' /\ FromTheRouter'
    BY <2>1, <2>4, <2>5, Zenon DEF Places, AtRest, OnTheWire, FromTheRouter
  <2>8. Read' /\ Asked' /\ AnswerIsExpected'
    BY <2>1, <2>6, Zenon DEF Read, Asked, AnswerIsExpected
  <2> QED
    BY <2>7, <2>8, Zenon
<1>7. ASSUME RouterDeliver
      PROVE  WireInv'
  <2>1. /\ channel = "at_router" /\ channel' = "to_app" /\ got # None
        /\ got[1].type = "data" /\ got[1].dest = APPLICATION_ADDR
        /\ wire' = SubSeq(wire, 1, Byte(wire, 2)) /\ asked' = got
        /\ sent' = sent /\ got' = got
    BY <1>7, Zenon DEF RouterDeliver
  <2>2. IsPacket(got[1]) /\ got = sent
    <3>1. got \in {None, sent}
      BY <2>1, Accepted, Zenon DEF OnTheWire, Read
    <3> QED
      BY <2>1, <3>1, Zenon DEF Read
  <2>3. wire' = wire
    <3>1. PICK c \in Octet : wire = PacketBytes(sent[1], c)
      BY <2>1, Zenon DEF OnTheWire
    <3>2. wire \in Seq(Octet) /\ wire[3] = Len(wire)
      BY <2>2, <3>1, PacketBytesShape, Zenon
    <3>3. Byte(wire, 2) = Len(wire)
      BY <3>2 DEF Byte
    <3> QED
      BY <2>1, <3>2, <3>3, SubSeqFull
  <2>4. channel' \in Places /\ AtRest' /\ OnTheWire' /\ FromTheRouter' /\ AnswerIsExpected'
    <3>1. channel' \in Places /\ AtRest' /\ FromTheRouter' /\ AnswerIsExpected'
      BY <2>1, Zenon DEF Places, AtRest, FromTheRouter, AnswerIsExpected
    <3>2. OnTheWire'
      BY <2>1, <2>3, Zenon DEF OnTheWire
    <3> QED
      BY <3>1, <3>2
  <2>5. Read' /\ Asked'
    BY <2>1, <2>2, Zenon DEF Read, Asked, IsQuestion, OnTheWire
  <2> QED
    BY <2>4, <2>5, Zenon
<1>8. ASSUME AppAnswer
      PROVE  WireInv'
  <2>1. /\ channel = "at_app" /\ channel' = "to_router" /\ got # None
        /\ got[1].type = "data" /\ Byte(wire, 2) <= 249
        /\ sent' = Some(Answer(got[1])) /\ wire' = CSerialise(sent'[1])
        /\ got' = got /\ asked' = asked
    BY <1>8, Zenon DEF AppAnswer
  <2>2. IsPacket(got[1]) /\ got = sent /\ asked = got
    <3>1. got \in {None, sent}
      BY <2>1, Accepted, Zenon DEF OnTheWire, Read
    <3> QED
      BY <2>1, <3>1, Zenon DEF Read, Asked
  <2>3. 8 + Len(got[1].payload) <= 249
    <3>1. PICK c \in Octet : wire = PacketBytes(got[1], c)
      BY <2>1, <2>2, Zenon DEF OnTheWire
    <3>2. wire[3] = 8 + Len(PayloadBytes(got[1]))
      <4>1. wire[3] = Len(wire) /\ Len(wire) = 8 + Len(PayloadBytes(got[1]))
        BY <2>2, <3>1, PacketBytesShape, Zenon
      <4> QED
        BY <4>1, Zenon
    <3>3. Byte(wire, 2) = wire[3]
      BY DEF Byte
    <3>4. PayloadBytes(got[1]) = got[1].payload
      BY <2>1, <2>2, PacketFields
    <3> QED
      BY <2>1, <3>2, <3>3, <3>4
  <2>4. IsPacket(Answer(got[1])) /\ sent'[1] = Answer(got[1])
    BY <2>1, <2>2, <2>3, Answered
  <2>5. \E c \in Octet : wire' = PacketBytes(sent'[1], c)
    BY <2>1, <2>4, Serialised, Zenon
  <2>6. channel' \in Places /\ AtRest' /\ OnTheWire' /\ FromTheRouter' /\ AnswerIsExpected'
    <3>1. channel' \in Places /\ AtRest' /\ FromTheRouter'
      BY <2>1, Zenon DEF Places, AtRest, FromTheRouter
    <3>3. AnswerIsExpected'
      BY <2>1 DEF AnswerIsExpected
    <3>2. OnTheWire'
      BY <2>1, <2>4, <2>5, Zenon DEF OnTheWire
    <3> QED
      BY <3>1, <3>2, <3>3
  <2>7. Read' /\ Asked'
    BY <2>1, <2>2, Zenon DEF Read, Asked
  <2> QED
    BY <2>6, <2>7, Zenon
<1>9. ASSUME Done
      PROVE  WireInv'
  BY <1>9, Zenon DEF Done, Places, AtRest, OnTheWire, FromTheRouter, Read, Asked, AnswerIsExpected
<1>10. ASSUME UNCHANGED vars
       PROVE  WireInv'
  <2>1. UNCHANGED <<channel, sent, wire, got, asked>>
    BY <1>10 DEF vars
  <2> QED
    BY <2>1 DEF Places, AtRest, OnTheWire, FromTheRouter, Read, Asked, AnswerIsExpected
<1> QED
  BY <1>1, <1>2, <1>3, <1>4, <1>5, <1>6, <1>7, <1>8, <1>9, <1>10, Zenon
  DEF Next, RouterConsume, AppFail, NetsimJudge

\* ... so it always holds.
LEMMA WireInvariant == Spec => []WireInv
<1>1. Init => WireInv
  BY WireInvInit
<1>2. WireInv /\ [Next]_vars => WireInv'
  BY WireInvNext
<1> QED
  BY <1>1, <1>2, PTL DEF Spec

\* Whatever travels between the programs is a packet: fields within their
\* bits, payloads that leave the length within its byte, bytes that are bytes;
\* also after route() and application() have changed the packet in place.
THEOREM TypeCorrect == Spec => []TypeOK
<1>1. WireInv => TypeOK
  <2> SUFFICES ASSUME WireInv
               PROVE  TypeOK
    OBVIOUS
  <2>1. channel \in Places /\ (sent # None => IsPacket(sent[1])) /\ (got # None => IsPacket(got[1]))
    BY Zenon DEF WireInv, AtRest, OnTheWire, Read
  <2>2. (\A k \in DOMAIN wire : wire[k] \in Octet) /\ Len(wire) <= 255
    <3>1. CASE channel = "idle"
      <4>1. wire = <<>>
        BY <3>1, Zenon DEF WireInv, AtRest
      <4> QED
        BY <4>1
    <3>2. CASE channel # "idle"
      <4>1. PICK c \in Octet : wire = PacketBytes(sent[1], c)
        BY <3>2, Zenon DEF WireInv, OnTheWire
      <4>2. IsPacket(sent[1])
        BY <3>2, Zenon DEF WireInv, OnTheWire
      <4>3. wire \in Seq(Octet) /\ Len(wire) \in 8 .. 255
        BY <4>1, <4>2, PacketBytesShape, Zenon
      <4>4. \A n \in 8 .. 255 : n <= 255
        OBVIOUS
      <4>5. wire \in [1 .. Len(wire) -> Octet]
        BY <4>3, LenProperties
      <4> QED
        BY <4>3, <4>4, <4>5, Zenon
    <3> QED
      BY <3>1, <3>2
  <2> QED
    BY <2>1, <2>2 DEF TypeOK, Places
<1> QED
  BY <1>1, WireInvariant, PTL

\* A packet that packet_deserialise() or RaniPacket::deserialise() accepts on
\* its journey is the one that was serialised, however its checksum came about.
THEOREM AcceptedAsSent == Spec => []AcceptedIsSent
<1>1. WireInv => AcceptedIsSent
  <2> SUFFICES ASSUME WireInv, channel \in {"at_router", "at_netsim"}, got # None
               PROVE  got = sent
    BY DEF AcceptedIsSent
  <2>1. channel # "idle"
    OBVIOUS
  <2>2. sent = Some(sent[1]) /\ IsPacket(sent[1])
    BY <2>1, Zenon DEF WireInv, OnTheWire
  <2>3. PICK c \in Octet : wire = PacketBytes(sent[1], c)
    BY <2>1, Zenon DEF WireInv, OnTheWire
  <2>4. got \in {CDeserialise(wire), RDeserialise(wire)}
    BY Zenon DEF WireInv, Read
  <2> QED
    BY <2>2, <2>3, <2>4, Accepted, Zenon
<1> QED
  BY <1>1, WireInvariant, PTL

\* packet_deserialise() accepts a packet exactly if the one's complement sum of
\* its bytes is zero: it refuses for nothing else, and never forgives it.
THEOREM RouterChecksProperly == Spec => []RouterVerdict
<1>1. WireInv => RouterVerdict
  <2> SUFFICES ASSUME WireInv, channel = "at_router"
               PROVE  got # None <=> Sum(wire) % 255 = 0
    BY DEF RouterVerdict
  <2>1. sent = Some(sent[1]) /\ IsPacket(sent[1]) /\ got = CDeserialise(wire)
    BY Zenon DEF WireInv, OnTheWire, Read
  <2>2. PICK c \in Octet : wire = PacketBytes(sent[1], c)
    BY Zenon DEF WireInv, OnTheWire
  <2>3. got = IF CValid(Sum(wire)) THEN Some(sent[1]) ELSE None
    BY <2>1, <2>2, Deserialised, Zenon
  <2>4. got # None <=> CValid(Sum(wire))
    BY <2>3, Options, Zenon
  <2> DEFINE S == Sum(wire)
  <2>5. S \in Nat /\ S <= 255 * 255 /\ S > 0
    BY <2>1, <2>2, PacketSum
  <2> HIDE DEF S
  <2>6. CValid(S) <=> S > 0 /\ S % 255 = 0
    BY <2>5, CheckIsOnesComplement
  <2> QED
    BY <2>4, <2>5, <2>6, Zenon DEF S
<1> QED
  BY <1>1, WireInvariant, PTL

\* Packets whose bytes sum to less than 256 get through between
\* packet_serialise() and RaniPacket::deserialise(), and back.
THEOREM SmallPacketsGetThrough == Spec => []SmallPacketsArrive
<1>1. WireInv => SmallPacketsArrive
  <2> SUFFICES ASSUME WireInv, Sum(wire) - wire[7] < 256,
                      \/ channel = "at_router" /\ wire = RSerialise(sent[1])
                      \/ channel = "at_netsim"
               PROVE  got = sent
    BY DEF SmallPacketsArrive
  <2> DEFINE p == sent[1]
             S == Sum(PacketBytes(p, 0))
  <2>1. channel # "idle"
    OBVIOUS
  <2>2. sent = Some(p) /\ IsPacket(p)
    BY <2>1, Zenon DEF WireInv, OnTheWire
  <2>3. S \in Sums
    <3>1. 0 \in Octet
      BY DEF Octet
    <3> QED
      BY <2>2, <3>1, PacketSum
  <2>4. ASSUME NEW c \in Octet, wire = PacketBytes(p, c)
        PROVE  S < 256 /\ Sum(wire) = S + c
    <3>1. Sum(wire) = S + c
      BY <2>2, <2>4, PacketSum, Zenon
    <3>2. wire[7] = c
      BY <2>2, <2>4, PacketBytesShape, Zenon
    <3>3. S \in Nat /\ c \in Nat
      BY <2>3, SumsAreTotals DEF Octet
    <3> HIDE DEF S
    <3> QED
      BY <3>1, <3>2, <3>3
  <2>5. CASE channel = "at_router" /\ wire = RSerialise(sent[1])
    <3>1. wire = PacketBytes(p, RChecksum(S)) /\ RChecksum(S) \in Octet
      BY <2>2, <2>5, Serialised, Zenon
    <3>2. S < 256 /\ Sum(wire) = S + RChecksum(S)
      BY <2>4, <3>1, Zenon
    <3>3. CValid(Sum(wire))
      BY <2>3, <3>2, RouterReadsNetsim
    <3>4. CDeserialise(wire) = Some(p)
      BY <2>2, <3>1, <3>3, Deserialised, Zenon
    <3> QED
      BY <2>2, <2>5, <3>4, Zenon DEF WireInv, Read
  <2>6. CASE channel = "at_netsim"
    <3>1. wire = CSerialise(p)
      BY <2>6, Zenon DEF WireInv, FromTheRouter
    <3>2. wire = PacketBytes(p, CChecksum(S)) /\ CChecksum(S) \in Octet
      BY <2>2, <3>1, Serialised, Zenon
    <3>3. S < 256 /\ Sum(wire) = S + CChecksum(S)
      BY <2>4, <3>2, Zenon
    <3>4. RValid(Sum(wire))
      BY <2>3, <3>3, NetsimReadsRouter
    <3>5. RDeserialise(wire) = Some(p)
      BY <2>2, <3>2, <3>4, Deserialised, Zenon
    <3> QED
      BY <2>2, <2>6, <3>5, Zenon DEF WireInv, Read
  <2> QED
    BY <2>5, <2>6
<1> QED
  BY <1>1, WireInvariant, PTL

\* The packet route() forwards of an answer of application() has the fields
\* the test cases of netsim expect, for every question, up to the longest it
\* answers.
THEOREM AnswersAreExpected == Spec => []AnswerIsExpected
<1>1. WireInv => AnswerIsExpected
  BY DEF WireInv
<1> QED
  BY <1>1, WireInvariant, PTL
=============================================================================
