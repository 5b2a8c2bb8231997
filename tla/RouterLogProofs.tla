-------------------------- MODULE RouterLogProofs --------------------------
(***************************************************************************)
(* The log, for any threads, any entries and any number of runs of the     *)
(* program: whatever was logged before the first torn entry is read back.  *)
(***************************************************************************)
EXTENDS RouterLog, SequenceTheorems, FiniteSetTheorems, WellFoundedInduction, TLAPS

-----------------------------------------------------------------------------
(* The bytes of an entry, and the pieces in which they are written. *)

Items == Entries \cup {Mark(MAGIC_BEGIN), Mark(MAGIC_END)}

EntryCode(e) ==
  <<e.id>> \o e.args \o (IF e.id \in WithBuffer THEN <<Len(e.buf)>> \o e.buf ELSE <<>>)

Code(e) ==
  IF e = Mark(MAGIC_BEGIN) THEN MAGIC_BEGIN
  ELSE IF e = Mark(MAGIC_END) THEN MAGIC_END
  ELSE EntryCode(e)

\* What LogAssumption says of an entry.
LEMMA EntryFacts ==
  ASSUME NEW e \in Entries
  PROVE  /\ e \in [id : 1 .. 6, args : Seq(Byte), buf : Seq(Byte)]
         /\ Len(e.args) = ArgCount(e.id) /\ ArgCount(e.id) \in {0, 1, 3}
         /\ Len(e.buf) \in Byte
         /\ e.id \in WithBuffer <=> e.id \in {1, 2, 3}
         /\ e.id \notin WithBuffer => e.buf = <<>>
         /\ e.id \in Byte /\ Byte \subseteq Nat
<1>1. /\ e \in [id : LOG_SEND_TO_LINK .. LOG_PACKET_DROP, args : Seq(Byte), buf : Seq(Byte)]
      /\ Len(e.args) = ArgCount(e.id) /\ Len(e.buf) \in Byte
      /\ e.id \notin WithBuffer => e.buf = <<>>
  BY LogAssumption
<1>2. e \in [id : 1 .. 6, args : Seq(Byte), buf : Seq(Byte)]
  BY <1>1 DEF LOG_SEND_TO_LINK, LOG_PACKET_DROP
<1>3. ArgCount(e.id) \in {0, 1, 3}
  BY DEF ArgCount
<1>4. e.id \in WithBuffer <=> e.id \in {1, 2, 3}
  BY DEF WithBuffer, LOG_SEND_TO_LINK, LOG_SEND_TO_APP, LOG_SEND_TO_ROUTER
<1>5. \A id \in 1 .. 6 : id \in Byte
  BY DEF Byte
<1>6. Byte \subseteq Nat
  BY DEF Byte
<1> QED
  BY <1>1, <1>2, <1>3, <1>4, <1>5, <1>6

\* The elements of two sequences in a row.
LEMMA ConcatAt ==
  ASSUME NEW S, NEW u \in Seq(S), NEW v \in Seq(S), NEW w, w = u \o v
  PROVE  /\ w \in Seq(S) /\ Len(w) = Len(u) + Len(v)
         /\ \A i \in 1 .. Len(u) : w[i] = u[i]
         /\ \A i \in 1 .. Len(v) : w[Len(u) + i] = v[i]
<1>1. /\ w \in Seq(S) /\ Len(w) = Len(u) + Len(v)
      /\ \A i \in 1 .. Len(u) + Len(v) : w[i] = IF i <= Len(u) THEN u[i] ELSE v[i - Len(u)]
  BY ConcatProperties
<1>2. \A i \in 1 .. Len(u) : w[i] = u[i]
  BY <1>1
<1>3. ASSUME NEW i \in 1 .. Len(v) PROVE w[Len(u) + i] = v[i]
  <2>1. Len(u) + i \in 1 .. Len(u) + Len(v) /\ ~(Len(u) + i <= Len(u)) /\ (Len(u) + i) - Len(u) = i
    OBVIOUS
  <2> QED
    BY <1>1, <2>1
<1> QED
  BY <1>1, <1>2, <1>3

LEMMA CodeShape ==
  ASSUME NEW e \in Entries
  PROVE  LET c == ArgCount(e.id) IN
         /\ EntryCode(e) \in Seq(Byte)
         /\ EntryCode(e)[1] = e.id
         /\ \A i \in 1 .. c : EntryCode(e)[1 + i] = e.args[i]
         /\ e.id \in WithBuffer =>
              /\ Len(EntryCode(e)) = 2 + c + Len(e.buf)
              /\ EntryCode(e)[2 + c] = Len(e.buf)
              /\ \A i \in 1 .. Len(e.buf) : EntryCode(e)[2 + c + i] = e.buf[i]
         /\ e.id \notin WithBuffer => Len(EntryCode(e)) = 1 + c
<1> DEFINE c == ArgCount(e.id)
           l == Len(e.buf)
           a == <<e.id>>
           b == e.args
           s == <<Len(e.buf)>>
           d == e.buf
           x == a \o b
           y == s \o d
<1>1. /\ a \in Seq(Byte) /\ Len(a) = 1 /\ a[1] = e.id
      /\ b \in Seq(Byte) /\ Len(b) = c /\ c \in Nat
      /\ s \in Seq(Byte) /\ Len(s) = 1 /\ s[1] = l
      /\ d \in Seq(Byte) /\ Len(d) = l /\ l \in Nat
      /\ 1 \in Nat /\ 1 \in 1 .. 1
  BY EntryFacts
<1> HIDE DEF a, b, s, d, c, l
<1>2. /\ x \in Seq(Byte) /\ Len(x) = 1 + c
      /\ \A i \in 1 .. 1 : x[i] = a[i]
      /\ \A i \in 1 .. c : x[1 + i] = b[i]
  <2>0. x = a \o b
    OBVIOUS
  <2>m. a \in Seq(Byte) /\ b \in Seq(Byte)
    BY <1>1
  <2> HIDE DEF x
  <2>1. /\ x \in Seq(Byte) /\ Len(x) = Len(a) + Len(b)
        /\ \A i \in 1 .. Len(a) : x[i] = a[i]
        /\ \A i \in 1 .. Len(b) : x[Len(a) + i] = b[i]
    BY <2>0, <2>m, ConcatAt, SMT
  <2> QED
    BY <1>1, <2>1, Zenon
<1>3. /\ y \in Seq(Byte) /\ Len(y) = 1 + l
      /\ \A i \in 1 .. 1 : y[i] = s[i]
      /\ \A i \in 1 .. l : y[1 + i] = d[i]
  <2>0. y = s \o d
    OBVIOUS
  <2>m. s \in Seq(Byte) /\ d \in Seq(Byte)
    BY <1>1
  <2> HIDE DEF y
  <2>1. /\ y \in Seq(Byte) /\ Len(y) = Len(s) + Len(d)
        /\ \A i \in 1 .. Len(s) : y[i] = s[i]
        /\ \A i \in 1 .. Len(d) : y[Len(s) + i] = d[i]
    BY <2>0, <2>m, ConcatAt, SMT
  <2> QED
    BY <1>1, <2>1, Zenon
<1> HIDE DEF x, y
<1>4. x[1] = e.id /\ y[1] = l
  BY <1>1, <1>2, <1>3
<1>6. CASE e.id \in WithBuffer
  <2> DEFINE z == x \o y
  <2>1. EntryCode(e) = z
    BY <1>6 DEF EntryCode, x, y, a, b, s, d
  <2>2. /\ z \in Seq(Byte) /\ Len(z) = (1 + c) + (1 + l)
        /\ \A i \in 1 .. 1 + c : z[i] = x[i]
        /\ \A i \in 1 .. 1 + l : z[(1 + c) + i] = y[i]
    <3>0. z = x \o y
      OBVIOUS
    <3>m. x \in Seq(Byte) /\ y \in Seq(Byte)
      BY <1>2, <1>3
    <3> HIDE DEF z
    <3>1. /\ z \in Seq(Byte) /\ Len(z) = Len(x) + Len(y)
          /\ \A i \in 1 .. Len(x) : z[i] = x[i]
          /\ \A i \in 1 .. Len(y) : z[Len(x) + i] = y[i]
      BY <3>0, <3>m, ConcatAt, SMT
    <3> QED
      BY <1>2, <1>3, <3>1, Zenon
  <2> HIDE DEF z
  <2>3. z[1] = e.id
    BY <1>1, <1>4, <2>2
  <2>4. \A i \in 1 .. c : z[1 + i] = b[i]
    <3> TAKE i \in 1 .. c
    <3>1. 1 + i \in 1 .. 1 + c
      BY <1>1
    <3> QED
      BY <1>2, <2>2, <3>1
  <2>5. z[2 + c] = l
    <3>1. (1 + c) + 1 = 2 + c /\ 1 \in 1 .. 1 + l
      BY <1>1
    <3> QED
      BY <1>4, <2>2, <3>1
  <2>6. \A i \in 1 .. l : z[2 + c + i] = d[i]
    <3> TAKE i \in 1 .. l
    <3>1. (1 + c) + (1 + i) = 2 + c + i /\ 1 + i \in 1 .. 1 + l
      BY <1>1
    <3>2. z[(1 + c) + (1 + i)] = y[1 + i] /\ y[1 + i] = d[i]
      BY <1>3, <2>2, <3>1
    <3> QED
      BY <3>1, <3>2
  <2>7. Len(z) = 2 + c + l
    BY <1>1, <2>2
  <2> QED
    BY <1>6, <2>1, <2>2, <2>3, <2>4, <2>5, <2>6, <2>7 DEF b, c, d, l
<1>7. CASE e.id \notin WithBuffer
  <2>1. EntryCode(e) = x
    <3>1. EntryCode(e) = x \o <<>>
      BY <1>7 DEF EntryCode, x, a, b
    <3> QED
      BY <1>2, <3>1, ConcatEmptySeq
  <2> QED
    BY <1>2, <1>4, <1>7, <2>1 DEF b, c
<1> QED
  BY <1>6, <1>7

LEMMA PiecesShape ==
  ASSUME NEW e \in Entries
  PROVE  LET c == ArgCount(e.id) IN
         /\ Pieces(e) \in Seq(Seq(Byte))
         /\ Pieces(e)[1] = <<e.id>>
         /\ \A i \in 1 .. c : Pieces(e)[1 + i] = <<e.args[i]>>
         /\ e.id \in WithBuffer =>
              /\ Len(Pieces(e)) = 3 + c
              /\ Pieces(e)[2 + c] = <<Len(e.buf)>>
              /\ Pieces(e)[3 + c] = e.buf
         /\ e.id \notin WithBuffer => Len(Pieces(e)) = 1 + c
<1> DEFINE c == ArgCount(e.id)
           S == Seq(Byte)
           a == <<<<e.id>>>>
           b == Single(e.args)
           y == <<<<Len(e.buf)>>, e.buf>>
           x == a \o b
<1>1. /\ a \in Seq(S) /\ Len(a) = 1 /\ a[1] = <<e.id>> /\ c \in Nat
      /\ y \in Seq(S) /\ Len(y) = 2 /\ y[1] = <<Len(e.buf)>> /\ y[2] = e.buf
      /\ 1 \in Nat /\ 2 \in Nat /\ 1 \in 1 .. 1
  <2>1. <<e.id>> \in S /\ <<Len(e.buf)>> \in S /\ e.buf \in S /\ c \in Nat
    BY EntryFacts
  <2> HIDE DEF S, c
  <2> QED
    BY <2>1
<1>2. b \in Seq(S) /\ Len(b) = c /\ \A i \in 1 .. c : b[i] = <<e.args[i]>>
  <2>1. e.args \in Seq(Byte) /\ Len(e.args) = c /\ c \in Nat
    BY EntryFacts
  <2>2. b = [i \in 1 .. c |-> <<e.args[i]>>]
    BY <2>1 DEF Single
  <2>3. \A i \in 1 .. c : <<e.args[i]>> \in S
    <3> TAKE i \in 1 .. c
    <3>1. e.args[i] \in Byte
      BY <2>1, ElementOfSeq
    <3> QED
      BY <3>1
  <2> HIDE DEF b, c, S
  <2>4. b \in [1 .. c -> S]
    BY <2>2, <2>3
  <2> QED
    BY <2>1, <2>2, <2>4, IsASeq, LenProperties
<1> HIDE DEF a, b, y, c, S
<1>3. /\ x \in Seq(S) /\ Len(x) = 1 + c
      /\ \A i \in 1 .. 1 : x[i] = a[i]
      /\ \A i \in 1 .. c : x[1 + i] = b[i]
  <2>0. x = a \o b
    OBVIOUS
  <2>m. a \in Seq(S) /\ b \in Seq(S)
    BY <1>1, <1>2
  <2> HIDE DEF x
  <2>1. /\ x \in Seq(S) /\ Len(x) = Len(a) + Len(b)
        /\ \A i \in 1 .. Len(a) : x[i] = a[i]
        /\ \A i \in 1 .. Len(b) : x[Len(a) + i] = b[i]
    BY <2>0, <2>m, ConcatAt, SMT
  <2> QED
    BY <1>1, <1>2, <2>1, Zenon
<1> HIDE DEF x
<1>4. x[1] = <<e.id>> /\ \A i \in 1 .. c : x[1 + i] = <<e.args[i]>>
  BY <1>1, <1>2, <1>3
<1>5. CASE e.id \in WithBuffer
  <2> DEFINE z == x \o y
  <2>1. Pieces(e) = z
    BY <1>5 DEF Pieces, x, y, a, b
  <2>2. /\ z \in Seq(S) /\ Len(z) = (1 + c) + 2
        /\ \A i \in 1 .. 1 + c : z[i] = x[i]
        /\ \A i \in 1 .. 2 : z[(1 + c) + i] = y[i]
    <3>0. z = x \o y
      OBVIOUS
    <3>m. x \in Seq(S) /\ y \in Seq(S)
      BY <1>1, <1>3
    <3> HIDE DEF z
    <3>1. /\ z \in Seq(S) /\ Len(z) = Len(x) + Len(y)
          /\ \A i \in 1 .. Len(x) : z[i] = x[i]
          /\ \A i \in 1 .. Len(y) : z[Len(x) + i] = y[i]
      BY <3>0, <3>m, ConcatAt, SMT
    <3> QED
      BY <1>1, <1>3, <3>1, Zenon
  <2> HIDE DEF z
  <2>3. z[1] = <<e.id>>
    <3>1. 1 \in 1 .. 1 + c
      BY <1>1
    <3> QED
      BY <1>4, <2>2, <3>1
  <2>4. \A i \in 1 .. c : z[1 + i] = <<e.args[i]>>
    <3> TAKE i \in 1 .. c
    <3>1. 1 + i \in 1 .. 1 + c
      BY <1>1
    <3> QED
      BY <1>4, <2>2, <3>1
  <2>5. z[2 + c] = <<Len(e.buf)>> /\ z[3 + c] = e.buf
    <3>1. (1 + c) + 1 = 2 + c /\ (1 + c) + 2 = 3 + c /\ 1 \in 1 .. 2 /\ 2 \in 1 .. 2
      BY <1>1
    <3> QED
      BY <1>1, <2>2, <3>1
  <2>6. Len(z) = 3 + c
    BY <1>1, <2>2
  <2> QED
    BY <1>5, <2>1, <2>2, <2>3, <2>4, <2>5, <2>6 DEF c, S
<1>6. CASE e.id \notin WithBuffer
  <2>1. Pieces(e) = x
    <3>1. Pieces(e) = x \o <<>>
      BY <1>6 DEF Pieces, x, a, b
    <3> QED
      BY <1>3, <3>1, ConcatEmptySeq
  <2> QED
    BY <1>3, <1>4, <1>6, <2>1 DEF c, S
<1> QED
  BY <1>5, <1>6

\* Before the last, every piece is a byte; so the i-th starts with the i-th
\* byte, and the last one goes to the end.
LEMMA PieceOfCode ==
  ASSUME NEW e \in Entries, NEW i \in 1 .. Len(Pieces(e))
  PROVE  /\ Pieces(e) \in Seq(Seq(Byte)) /\ Pieces(e)[i] \in Seq(Byte)
         /\ \A k \in 1 .. Len(Pieces(e)[i]) : Pieces(e)[i][k] = EntryCode(e)[i - 1 + k]
         /\ i - 1 + Len(Pieces(e)[i]) <= Len(EntryCode(e))
         /\ i < Len(Pieces(e)) => Len(Pieces(e)[i]) = 1
         /\ i = Len(Pieces(e)) => i - 1 + Len(Pieces(e)[i]) = Len(EntryCode(e))
<1> DEFINE c == ArgCount(e.id)
           x == EntryCode(e)
           p == Pieces(e)
<1>1. c \in Nat /\ e.buf \in Seq(Byte) /\ Len(e.buf) \in Nat
  BY EntryFacts
<1>2. /\ x[1] = e.id /\ \A j \in 1 .. c : x[1 + j] = e.args[j]
      /\ e.id \in WithBuffer =>
              /\ Len(x) = 2 + c + Len(e.buf) /\ x[2 + c] = Len(e.buf)
              /\ \A j \in 1 .. Len(e.buf) : x[2 + c + j] = e.buf[j]
      /\ e.id \notin WithBuffer => Len(x) = 1 + c
  BY CodeShape
<1>3. /\ p \in Seq(Seq(Byte)) /\ p[1] = <<e.id>> /\ \A j \in 1 .. c : p[1 + j] = <<e.args[j]>>
      /\ e.id \in WithBuffer => /\ Len(p) = 3 + c
                                /\ p[2 + c] = <<Len(e.buf)>> /\ p[3 + c] = e.buf
      /\ e.id \notin WithBuffer => Len(p) = 1 + c
  BY PiecesShape
<1>4. p[i] \in Seq(Byte)
  BY <1>3, ElementOfSeq
<1> HIDE DEF c, x, p
<1>5. \A v : Len(<<v>>) = 1 /\ <<v>>[1] = v
  OBVIOUS
<1>6. Len(p) \in Nat
  BY <1>1, <1>3
<1>7. CASE e.id \in WithBuffer /\ i = 3 + c
  <2>1. i = Len(p) /\ p[i] = e.buf /\ Len(x) = 2 + c + Len(e.buf)
    BY <1>2, <1>3, <1>7
  <2>3. i - 1 = 2 + c
    BY <1>1, <1>7
  <2>2. \A k \in 1 .. Len(e.buf) : e.buf[k] = x[i - 1 + k]
    BY <1>2, <1>7, <2>3
  <2>6. i \in Nat /\ 2 + c + Len(e.buf) \in Nat /\ Len(p[i]) = Len(e.buf)
    <3> DEFINE m == Len(e.buf)
    <3>1. m \in Nat /\ c \in Nat /\ i = 3 + c /\ Len(p[i]) = m
      BY <1>1, <1>7, <2>1
    <3> HIDE DEF m
    <3>2. i \in Nat /\ 2 + c + m \in Nat
      BY <3>1
    <3> QED
      BY <3>1, <3>2 DEF m
  <2>7. i - 1 + Len(p[i]) = 2 + c + Len(e.buf) /\ ~(i < i)
    BY <2>3, <2>6
  <2>4. i - 1 + Len(p[i]) = Len(x) /\ ~(i < Len(p)) /\ Len(x) \in Nat
    BY <2>1, <2>6, <2>7
  <2>5. Len(x) <= Len(x)
    BY <2>4
  <2> QED
    BY <1>3, <1>4, <2>1, <2>2, <2>4, <2>5 DEF x, p
<1>8. CASE ~(e.id \in WithBuffer /\ i = 3 + c)
  <2>1. i \in 1 .. Len(p)
    BY DEF p
  <2>2. \/ i = 1 \/ \E j \in 1 .. c : i = 1 + j
        \/ e.id \in WithBuffer /\ i = 2 + c
    <3>1. CASE e.id \in WithBuffer
      <4>1. i \in 1 .. 3 + c /\ i # 3 + c
        BY <1>3, <1>8, <2>1, <3>1
      <4>2. i = 1 \/ i - 1 \in 1 .. c \/ i = 2 + c
        BY <1>1, <4>1
      <4>3. i = 1 + (i - 1)
        BY <1>1, <4>1
      <4> QED
        BY <3>1, <4>2, <4>3
    <3>2. CASE e.id \notin WithBuffer
      <4>1. i \in 1 .. 1 + c
        BY <1>3, <2>1, <3>2
      <4>2. i = 1 \/ i - 1 \in 1 .. c
        BY <1>1, <4>1
      <4>3. i = 1 + (i - 1)
        BY <1>1, <4>1
      <4> QED
        BY <4>2, <4>3
    <3> QED
      BY <3>1, <3>2
  <2>3. p[i] = <<x[i]>>
    BY <1>2, <1>3, <2>2
  <2>4. Len(p[i]) = 1 /\ p[i][1] = x[i]
    BY <1>5, <2>3
  <2>5. /\ i \in Nat \ {0} /\ i <= Len(x) /\ Len(x) \in Nat
        /\ i = Len(p) => i = Len(x)
    <3>1. CASE e.id \in WithBuffer
      <4>1. Len(p) = 3 + c /\ Len(x) = 2 + c + Len(e.buf) /\ i \in 1 .. 3 + c /\ i # 3 + c
        BY <1>2, <1>3, <1>8, <2>1, <3>1
      <4> DEFINE m == Len(e.buf)
      <4>2. m \in Nat /\ c \in Nat
        BY <1>1
      <4> HIDE DEF m
      <4>3. i \in Nat \ {0} /\ i <= 2 + c + m /\ 2 + c + m \in Nat
        BY <4>1, <4>2
      <4> QED
        BY <4>1, <4>3 DEF m
    <3>2. CASE e.id \notin WithBuffer
      <4>1. Len(p) = 1 + c /\ Len(x) = 1 + c /\ i \in 1 .. 1 + c
        BY <1>2, <1>3, <2>1, <3>2
      <4>2. 1 + c \in Nat
        BY <1>1
      <4> QED
        BY <4>1, <4>2
    <3> QED
      BY <3>1, <3>2
  <2>6. \A k \in 1 .. Len(p[i]) : p[i][k] = x[i - 1 + k]
    <3> TAKE k \in 1 .. Len(p[i])
    <3>1. k = 1 /\ i - 1 + k = i
      BY <2>4, <2>5
    <3> QED
      BY <2>4, <3>1
  <2>7. i - 1 + Len(p[i]) = i
    BY <2>4, <2>5
  <2> QED
    BY <1>3, <1>4, <2>4, <2>5, <2>6, <2>7 DEF x, p
<1> QED
  BY <1>7, <1>8

-----------------------------------------------------------------------------
(* Reading an entry back. *)

\* From position p on, bytes has the first w bytes of x.
Holds(bytes, p, x, w) == p + w <= Len(bytes) + 1 /\ \A k \in 1 .. w : bytes[(p - 1) + k] = x[k]

LEMMA SubSeqIs ==
  ASSUME NEW S, NEW b \in Seq(S), NEW y \in Seq(S), NEW r \in Nat, NEW n \in Int,
         n = r + Len(y), n <= Len(b), \A i \in 1 .. Len(y) : b[r + i] = y[i]
  PROVE  SubSeq(b, r + 1, n) = y
<1> DEFINE z == SubSeq(b, r + 1, n)
           l == Len(y)
<1>1. l \in Nat /\ r + 1 \in Int /\ n = r + l /\ n - (r + 1) + 1 = l
  BY LenProperties
<1>2. \A i \in r + 1 .. n : b[i] \in S
  <2> TAKE i \in r + 1 .. n
  <2>1. i \in 1 .. Len(b)
    OBVIOUS
  <2> QED
    BY <2>1, ElementOfSeq
<1>3. /\ z \in Seq(S) /\ Len(z) = IF r + 1 <= n THEN n - (r + 1) + 1 ELSE 0
      /\ \A i \in 1 .. n - (r + 1) + 1 : z[i] = b[(r + 1) + i - 1]
  BY <1>1, <1>2, SubSeqProperties
<1> HIDE DEF z
<1>4. Len(z) = Len(y)
  BY <1>1, <1>3
<1>5. ASSUME NEW i \in 1 .. Len(z) PROVE z[i] = y[i]
  <2>1. i \in 1 .. n - (r + 1) + 1 /\ (r + 1) + i - 1 = r + i /\ i \in 1 .. Len(y)
    BY <1>1, <1>4
  <2> QED
    BY <1>3, <2>1
<1>6. z = y
  BY <1>3, <1>4, <1>5, SeqEqual
<1> QED
  BY <1>6 DEF z

LEMMA Magics ==
  /\ MAGIC_BEGIN \in Seq(Byte) /\ Len(MAGIC_BEGIN) = 4 /\ MAGIC_BEGIN[1] = 202
  /\ MAGIC_END \in Seq(Byte) /\ Len(MAGIC_END) = 4 /\ MAGIC_END[1] = 176
  /\ Mark(MAGIC_BEGIN).id = 202 /\ Mark(MAGIC_END).id = 176
  /\ \A e \in Entries : e.id \in 1 .. 6
<1>1. MAGIC_BEGIN \in Seq(Byte) /\ Len(MAGIC_BEGIN) = 4 /\ MAGIC_BEGIN[1] = 202
  BY SMT DEF MAGIC_BEGIN, Byte
<1>2. MAGIC_END \in Seq(Byte) /\ Len(MAGIC_END) = 4 /\ MAGIC_END[1] = 176
  BY SMT DEF MAGIC_END, Byte
<1>3. Mark(MAGIC_BEGIN).id = 202 /\ Mark(MAGIC_END).id = 176
  BY <1>1, <1>2, SMT DEF Mark
<1>4. \A e \in Entries : e.id \in 1 .. 6
  BY EntryFacts
<1> QED
  BY <1>1, <1>2, <1>3, <1>4, SMT

LEMMA Codes ==
  /\ Code(Mark(MAGIC_BEGIN)) = MAGIC_BEGIN
  /\ Code(Mark(MAGIC_END)) = MAGIC_END
  /\ \A e \in Entries : Code(e) = EntryCode(e)
  /\ \A e \in Items : Code(e) \in Seq(Byte) /\ Len(Code(e)) \in Nat \ {0}
<1>1. Mark(MAGIC_BEGIN) # Mark(MAGIC_END)
  BY Magics, SMT
<1>2. \A e \in Entries : e # Mark(MAGIC_BEGIN) /\ e # Mark(MAGIC_END)
  BY Magics, SMT
<1>3. /\ Code(Mark(MAGIC_BEGIN)) = MAGIC_BEGIN /\ Code(Mark(MAGIC_END)) = MAGIC_END
      /\ \A e \in Entries : Code(e) = EntryCode(e)
  BY <1>1, <1>2 DEF Code
<1>4. ASSUME NEW e \in Entries PROVE EntryCode(e) \in Seq(Byte) /\ Len(EntryCode(e)) \in Nat \ {0}
  <2> DEFINE x == EntryCode(e)
             c == ArgCount(e.id)
             l == Len(e.buf)
  <2>1. x \in Seq(Byte) /\ (Len(x) = 2 + c + l \/ Len(x) = 1 + c)
    BY CodeShape
  <2>2. c \in Nat /\ l \in Nat
    BY EntryFacts
  <2> HIDE DEF x, c, l
  <2>3. Len(x) \in Nat \ {0}
    BY <2>1, <2>2
  <2> QED
    BY <2>1, <2>3 DEF x
<1>5. \A m \in {MAGIC_BEGIN, MAGIC_END} : m \in Seq(Byte) /\ Len(m) \in Nat \ {0}
  BY Magics, SMT
<1> QED
  BY <1>3, <1>4, <1>5 DEF Items

LEMMA MarkFirst ==
  ASSUME NEW b \in Seq(Byte), NEW p \in Nat \ {0}, NEW m \in Seq(Byte), Len(m) = 4, IsMark(b, p, m)
  PROVE  b[p] = m[1]
<1>1. p + 3 <= Len(b) /\ SubSeq(b, p, p + 3) = m
  BY DEF IsMark
<1>2. \A i \in p .. p + 3 : b[i] \in Byte
  <2> TAKE i \in p .. p + 3
  <2>1. i \in 1 .. Len(b)
    BY <1>1
  <2> QED
    BY <2>1, ElementOfSeq
<1>3. \A i \in 1 .. (p + 3) - p + 1 : SubSeq(b, p, p + 3)[i] = b[p + i - 1]
  <2>1. p \in Int /\ p + 3 \in Int
    OBVIOUS
  <2> QED
    BY <1>2, <2>1, SubSeqProperties
<1>4. 1 \in 1 .. (p + 3) - p + 1 /\ p + 1 - 1 = p
  OBVIOUS
<1> QED
  BY <1>1, <1>3, <1>4

LEMMA MarkHeld ==
  ASSUME NEW b \in Seq(Byte), NEW p \in Nat \ {0}, NEW m \in Seq(Byte), Len(m) = 4, Holds(b, p, m, 4)
  PROVE  IsMark(b, p, m) /\ b[p] = m[1] /\ p <= Len(b)
<1>1. p - 1 \in Nat /\ p + 3 \in Int /\ p + 3 = (p - 1) + Len(m) /\ (p - 1) + 1 = p /\ 1 \in 1 .. 4
  OBVIOUS
<1>2. p + 4 <= Len(b) + 1 /\ \A k \in 1 .. 4 : b[(p - 1) + k] = m[k]
  BY DEF Holds
<1>3. p + 3 <= Len(b) /\ p <= Len(b)
  BY <1>2
<1>4. SubSeq(b, (p - 1) + 1, p + 3) = m
  BY <1>1, <1>2, <1>3, SubSeqIs
<1>5. p + Len(m) - 1 = p + 3
  OBVIOUS
<1>6. IsMark(b, p, m)
  BY <1>1, <1>3, <1>4, <1>5 DEF IsMark
<1>7. b[(p - 1) + 1] = m[1]
  BY <1>1, <1>2
<1> QED
  BY <1>1, <1>3, <1>6, <1>7

LEMMA EntryHeld ==
  ASSUME NEW b \in Seq(Byte), NEW p \in Nat \ {0}, NEW e \in Entries,
         Holds(b, p, EntryCode(e), Len(EntryCode(e)))
  PROVE  p <= Len(b) /\ EntryAt(b, p) = [next |-> p + Len(EntryCode(e)), entry |-> e]
<1> DEFINE c == ArgCount(e.id)
           x == EntryCode(e)
           l == Len(e.buf)
           n == Len(b)
<1>1. /\ c \in Nat /\ l \in Nat /\ n \in Nat /\ e.buf \in Seq(Byte) /\ e.args \in Seq(Byte) /\ Len(e.args) = c
      /\ e = [id |-> e.id, args |-> e.args, buf |-> e.buf]
      /\ e.id \notin WithBuffer => e.buf = <<>>
  BY EntryFacts
<1>2. /\ x[1] = e.id
      /\ \A i \in 1 .. c : x[1 + i] = e.args[i]
      /\ e.id \in WithBuffer => /\ Len(x) = 2 + c + l /\ x[2 + c] = l
                                /\ \A i \in 1 .. l : x[2 + c + i] = e.buf[i]
      /\ e.id \notin WithBuffer => Len(x) = 1 + c
  BY CodeShape
<1>3. p + Len(x) <= n + 1 /\ \A k \in 1 .. Len(x) : b[(p - 1) + k] = x[k]
  BY DEF Holds
<1>4. Len(x) \in Nat \ {0} /\ Len(x) >= 1 + c
  <2> HIDE DEF x, c, l
  <2> QED
    BY <1>1, <1>2
<1> HIDE DEF c, x, l, n
<1>5. b[p] = e.id /\ p <= n
  <2>1. 1 \in 1 .. Len(x) /\ (p - 1) + 1 = p
    BY <1>4
  <2>2. b[(p - 1) + 1] = x[1]
    BY <1>3, <2>1
  <2>3. p <= n
    BY <1>1, <1>3, <1>4
  <2> QED
    BY <1>2, <2>1, <2>2, <2>3
<1>6. ~ IsMark(b, p, MAGIC_BEGIN) /\ ~ IsMark(b, p, MAGIC_END)
  <2>1. e.id # 202 /\ e.id # 176
    BY Magics, SMT
  <2>2. IsMark(b, p, MAGIC_BEGIN) => b[p] = MAGIC_BEGIN[1]
    BY Magics, MarkFirst, SMT
  <2>3. IsMark(b, p, MAGIC_END) => b[p] = MAGIC_END[1]
    BY Magics, MarkFirst, SMT
  <2> QED
    BY <1>5, <2>1, <2>2, <2>3, Magics, SMT
<1>7. SubSeq(b, p + 1, p + c) = e.args
  <2>1. \A i \in 1 .. Len(e.args) : b[p + i] = e.args[i]
    <3> TAKE i \in 1 .. Len(e.args)
    <3>1. i \in 1 .. c /\ 1 + i \in 1 .. Len(x) /\ (p - 1) + (1 + i) = p + i
      BY <1>1, <1>4
    <3> QED
      BY <1>2, <1>3, <3>1
  <2>2. p \in Nat /\ p + c \in Int /\ p + c = p + Len(e.args) /\ p + c <= Len(b)
    BY <1>1, <1>3, <1>4 DEF n
  <2> QED
    BY <1>1, <2>1, <2>2, SubSeqIs
<1>8. CASE e.id \in WithBuffer
  <2>1. p + c < n /\ b[(p + c) + 1] = l
    <3>1. 2 + c \in 1 .. Len(x) /\ (p - 1) + (2 + c) = (p + c) + 1
      BY <1>1, <1>2, <1>8
    <3>2. b[(p - 1) + (2 + c)] = x[2 + c]
      BY <1>3, <3>1
    <3>3. p + c < n
      BY <1>1, <1>2, <1>3, <1>8
    <3> QED
      BY <1>2, <1>8, <3>1, <3>2, <3>3
  <2> DEFINE last == (p + c) + 1 + l
  <2>0. Len(x) = 2 + c + l /\ p + Len(x) <= n + 1
    BY <1>2, <1>3, <1>8
  <2>2. ~(last > n) /\ last + 1 = p + Len(x) /\ last \in Int
    <3> DEFINE w == Len(x)
    <3>1. w = 2 + c + l /\ p + w <= n + 1
      BY <2>0
    <3> HIDE DEF w
    <3>2. c \in Nat /\ l \in Nat /\ n \in Nat
      BY <1>1
    <3>3. ~(last > n)
      BY <3>1, <3>2
    <3>4. last + 1 = p + w /\ last \in Int
      BY <3>1, <3>2
    <3> QED
      BY <3>3, <3>4 DEF w
  <2>3. SubSeq(b, last - l + 1, last) = e.buf
    <3> DEFINE r == p + c + 1
    <3>1. r \in Nat /\ last - l + 1 = r + 1 /\ last = r + Len(e.buf) /\ last <= Len(b)
      BY <1>1, <2>2 DEF l, n
    <3>2. \A i \in 1 .. Len(e.buf) : b[r + i] = e.buf[i]
      <4> TAKE i \in 1 .. Len(e.buf)
      <4>1. i \in 1 .. l /\ 2 + c + i \in 1 .. Len(x) /\ (p - 1) + (2 + c + i) = r + i
        <5> DEFINE w == Len(x)
        <5>1. i \in 1 .. l /\ w = 2 + c + l /\ c \in Nat /\ l \in Nat
          BY <1>1, <2>0 DEF l
        <5> HIDE DEF w
        <5>2. 2 + c + i \in 1 .. w /\ (p - 1) + (2 + c + i) = r + i
          BY <5>1
        <5> QED
          BY <5>1, <5>2 DEF w
      <4>2. x[2 + c + i] = e.buf[i]
        BY <1>2, <1>8, <4>1
      <4> QED
        BY <1>3, <4>1, <4>2
    <3> HIDE DEF r, last
    <3>3. SubSeq(b, r + 1, last) = e.buf
      BY <1>1, <2>2, <3>1, <3>2, SubSeqIs
    <3> QED
      BY <3>1, <3>3
  <2>4. EntryAt(b, p) = [next |-> last + 1, entry |-> [id |-> e.id, args |-> e.args, buf |-> e.buf]]
    <3>1. /\ b[p] = e.id /\ b[p] \in WithBuffer
          /\ (p + ArgCount(b[p])) < Len(b) /\ b[(p + ArgCount(b[p])) + 1] = l
          /\ SubSeq(b, p + 1, p + ArgCount(b[p])) = e.args
          /\ last = (p + ArgCount(b[p])) + 1 + l
          /\ ~(last > Len(b))
      BY <1>5, <1>7, <1>8, <2>1, <2>2 DEF c, n
    <3> HIDE DEF last
    <3> QED
      BY <1>6, <2>3, <3>1 DEF EntryAt
  <2> QED
    BY <1>1, <1>5, <2>2, <2>4 DEF x, n
<1>9. CASE e.id \notin WithBuffer
  <2> DEFINE last == p + c
  <2>1. ~(last > n) /\ last + 1 = p + Len(x) /\ last \in Int /\ last - 0 + 1 > last
    BY <1>1, <1>2, <1>3, <1>9
  <2>2. SubSeq(b, last - 0 + 1, last) = e.buf
    <3> HIDE DEF last
    <3>1. SubSeq(b, last - 0 + 1, last) = <<>>
      BY <2>1, SubSeqEmpty
    <3> QED
      BY <1>1, <1>9, <3>1
  <2>3. EntryAt(b, p) = [next |-> last + 1, entry |-> [id |-> e.id, args |-> e.args, buf |-> e.buf]]
    <3>1. /\ b[p] = e.id /\ b[p] \notin WithBuffer
          /\ SubSeq(b, p + 1, p + ArgCount(b[p])) = e.args
          /\ last = p + ArgCount(b[p])
          /\ ~(last > Len(b))
      BY <1>5, <1>7, <1>9, <2>1 DEF c, n
    <3> HIDE DEF last
    <3> QED
      BY <1>6, <2>2, <3>1 DEF EntryAt
  <2> QED
    BY <1>1, <1>5, <2>1, <2>3 DEF x, n
<1> QED
  BY <1>8, <1>9

\* What is written for an item is read as that item.
LEMMA ItemRead ==
  ASSUME NEW b \in Seq(Byte), NEW p \in Nat \ {0}, NEW e \in Items,
         Holds(b, p, Code(e), Len(Code(e)))
  PROVE  p <= Len(b) /\ EntryAt(b, p) = [next |-> p + Len(Code(e)), entry |-> e]
<1>1. CASE e \in Entries
  <2>1. Code(e) = EntryCode(e)
    BY <1>1, Codes
  <2> QED
    BY <1>1, <2>1, EntryHeld
<1>2. CASE e = Mark(MAGIC_BEGIN)
  <2>1. Code(e) = MAGIC_BEGIN /\ Len(Code(e)) = 4 /\ MAGIC_BEGIN \in Seq(Byte) /\ Len(MAGIC_BEGIN) = 4
    BY <1>2, Codes, Magics, SMT
  <2>2. IsMark(b, p, MAGIC_BEGIN) /\ p <= Len(b)
    BY <2>1, MarkHeld
  <2> QED
    BY <1>2, <2>1, <2>2 DEF EntryAt
<1>3. CASE e = Mark(MAGIC_END)
  <2>1. Code(e) = MAGIC_END /\ Len(Code(e)) = 4 /\ MAGIC_END \in Seq(Byte) /\ Len(MAGIC_END) = 4
    BY <1>3, Codes, Magics, SMT
  <2>2. IsMark(b, p, MAGIC_END) /\ p <= Len(b) /\ b[p] = MAGIC_END[1]
    BY <2>1, MarkHeld
  <2>3. IsMark(b, p, MAGIC_BEGIN) => b[p] = MAGIC_BEGIN[1]
    BY Magics, MarkFirst, SMT
  <2>4. ~ IsMark(b, p, MAGIC_BEGIN)
    BY <2>2, <2>3, Magics, SMT
  <2> QED
    BY <1>3, <2>1, <2>2, <2>4 DEF EntryAt
<1> QED
  BY <1>1, <1>2, <1>3 DEF Items

-----------------------------------------------------------------------------
(* Reading on: Decoded() is what its recursive definition says. *)

\* Every set of numbers that is not empty has a least one.
LEMMA LeastNumber ==
  ASSUME NEW T, T \subseteq Nat, T # {}
  PROVE  \E x \in T : \A y \in T : x <= y
<1> DEFINE R     == StrictSubsetOrdering(Nat)
           Below == {1 .. x : x \in T}
<1>1. Below \subseteq FiniteSubsetsOf(Nat) /\ Below # {}
  <2>1. \A x \in T : 1 .. x \subseteq Nat /\ IsFiniteSet(1 .. x)
    BY FS_Interval
  <2> QED
    BY <2>1 DEF FiniteSubsetsOf
<1>2. PICK b \in Below : \A c \in Below : ~ (<<c, b>> \in R)
  <2>1. IsWellFoundedOn(R, FiniteSubsetsOf(Nat))
    BY FS_StrictSubsetOrderingWellFounded
  <2> HIDE DEF R, Below
  <2> QED
    BY <1>1, <2>1, WFMin
<1>3. PICK x \in T : b = 1 .. x
  BY <1>2
<1>4. ASSUME NEW y \in T, y < x PROVE FALSE
  <2>1. 1 .. y \subseteq 1 .. x /\ x \in 1 .. x /\ x \notin 1 .. y /\ 1 .. x \subseteq Nat
    BY <1>4
  <2>2. <<1 .. y, 1 .. x>> \in R
    BY <2>1 DEF StrictSubsetOrdering
  <2> QED
    BY <1>2, <1>3, <2>2
<1> QED
  BY <1>4

\* Induction up to a bound, for a set of numbers.
LEMMA UpTo ==
  ASSUME NEW N \in Nat, NEW S, 0 \in S, \A k \in 0 .. N - 1 : k \in S => k + 1 \in S
  PROVE  \A k \in 0 .. N : k \in S
<1> DEFINE Bad == {k \in 0 .. N : k \notin S}
<1>1. CASE Bad = {}
  BY <1>1
<1>2. CASE Bad # {}
  <2>1. Bad \subseteq Nat
    OBVIOUS
  <2>2. PICK k \in Bad : \A y \in Bad : k <= y
    <3> HIDE DEF Bad
    <3> QED
      BY <1>2, <2>1, LeastNumber
  <2>3. k \in 0 .. N /\ k \notin S /\ k # 0
    BY <2>2
  <2>4. k - 1 \in 0 .. N - 1 /\ k - 1 \in 0 .. N /\ k - 1 \notin Bad /\ (k - 1) + 1 = k
    BY <2>2, <2>3
  <2>5. k - 1 \in S
    BY <2>4
  <2>6. (k - 1) + 1 \in S
    BY <2>4, <2>5
  <2> QED
    BY <2>3, <2>4, <2>6
<1> QED
  BY <1>1, <1>2

\* Reading an entry goes forward.
LEMMA NextIsFarther ==
  ASSUME NEW b \in Seq(Byte), NEW p \in Nat \ {0}
  PROVE  EntryAt(b, p).next \in Nat /\ EntryAt(b, p).next > p
<1> DEFINE args == p + ArgCount(b[p])
           size == IF b[p] \notin WithBuffer THEN 0
                   ELSE IF args < Len(b) THEN b[args + 1] ELSE Len(b)
           last == IF b[p] \in WithBuffer THEN args + 1 + size ELSE args
<1>1. EntryAt(b, p).next \in {p + 4, last + 1}
  <2> HIDE DEF size
  <2> QED
    BY DEF EntryAt, size
<1>2. ArgCount(b[p]) \in Nat
  BY DEF ArgCount
<1>3. args \in Nat /\ args >= p
  BY <1>2
<1>4. size \in Nat
  <2>1. CASE args < Len(b)
    <3>1. args + 1 \in 1 .. Len(b)
      BY <1>3, <2>1
    <3>2. b[args + 1] \in Byte
      BY <3>1, ElementOfSeq
    <3>4. \A x \in Byte : x \in Nat
      BY DEF Byte
    <3>3. b[args + 1] \in Nat
      BY <3>2, <3>4, Zenon
    <3> QED
      BY <2>1, <3>3
  <2>2. CASE ~(args < Len(b))
    BY <2>2
  <2> QED
    BY <2>1, <2>2
<1> HIDE DEF args, size
<1>5. last \in Nat /\ last >= p
  BY <1>3, <1>4
<1> HIDE DEF last
<1>6. p + 4 \in Nat /\ p + 4 > p /\ last + 1 \in Nat /\ last + 1 > p
  BY <1>5
<1> QED
  BY <1>1, <1>6

Positions == Nat \ {0}

\* What Decoded() reads at p, given what it reads farther on.
FromStep(b, f, p) == IF p > Len(b) THEN <<>> ELSE <<EntryAt(b, p).entry>> \o f[EntryAt(b, p).next]

LEMMA FromExists ==
  ASSUME NEW b \in Seq(Byte)
  PROVE  \E f : f = [p \in Positions |-> FromStep(b, f, p)]
<1> DEFINE L == Len(b)
           Good(n) == \E f : \A p \in Positions : p > L - n => f[p] = FromStep(b, f, p)
           S == {n \in 0 .. L : Good(n)}
<1>0. L \in Nat
  BY LenProperties
<1>1. Good(0)
  <2> DEFINE f == [p \in Positions |-> <<>>]
  <2>1. \A p \in Positions : p > L - 0 => f[p] = FromStep(b, f, p)
    BY <1>0 DEF FromStep, Positions
  <2> HIDE DEF f
  <2> QED
    BY <2>1
<1> HIDE DEF L
<1>2. ASSUME NEW n \in 0 .. L - 1, Good(n) PROVE Good(n + 1)
  <2>1. PICK f : \A p \in Positions : p > L - n => f[p] = FromStep(b, f, p)
    BY <1>2
  <2> DEFINE h == [p \in Positions |-> IF p > L - n THEN f[p] ELSE FromStep(b, f, p)]
  <2>2. ASSUME NEW p \in Positions, p > L - (n + 1) PROVE h[p] = FromStep(b, h, p)
    <3>1. h[p] = FromStep(b, f, p)
      BY <2>1
    <3>2. EntryAt(b, p).next \in Positions /\ EntryAt(b, p).next > L - n
      <4> DEFINE q == EntryAt(b, p).next
      <4>1. q \in Nat /\ q > p
        BY NextIsFarther DEF Positions
      <4> HIDE DEF q
      <4>2. q \in Positions /\ q > L - n
        BY <1>0, <2>2, <4>1 DEF Positions
      <4> QED
        BY <4>2 DEF q
    <3>3. h[EntryAt(b, p).next] = f[EntryAt(b, p).next]
      BY <3>2
    <3> HIDE DEF h
    <3> QED
      BY <3>1, <3>3 DEF FromStep
  <2> HIDE DEF h
  <2> QED
    BY <2>2
<1> HIDE DEF Good
<1>3. 0 \in S /\ \A k \in 0 .. L - 1 : k \in S => k + 1 \in S
  BY <1>0, <1>1, <1>2
<1>4. L \in S
  <2> HIDE DEF S
  <2> QED
    <3>1. \A k \in 0 .. L : k \in S
      BY <1>0, <1>3, UpTo, Zenon
    <3>2. L \in 0 .. L
      BY <1>0
    <3> QED
      BY <3>1, <3>2
<1>5. PICK f : \A p \in Positions : p > L - L => f[p] = FromStep(b, f, p)
  BY <1>4 DEF Good
<1>6. \A p \in Positions : f[p] = FromStep(b, f, p)
  BY <1>0, <1>5 DEF Positions
<1> DEFINE h == [p \in Positions |-> f[p]]
<1>7. ASSUME NEW p \in Positions PROVE f[p] = FromStep(b, h, p)
  <2>1. f[p] = FromStep(b, f, p)
    BY <1>6
  <2>2. EntryAt(b, p).next \in Positions
    BY NextIsFarther DEF Positions
  <2>3. h[EntryAt(b, p).next] = f[EntryAt(b, p).next]
    BY <2>2
  <2> HIDE DEF h
  <2> QED
    BY <2>1, <2>3 DEF FromStep
<1>8. h = [p \in Positions |-> FromStep(b, h, p)]
  BY <1>7
<1> HIDE DEF h
<1> QED
  BY <1>8

LEMMA DecodedUnfold ==
  ASSUME NEW b \in Seq(Byte)
  PROVE  \E f : Decoded(b) = f[1] /\ \A p \in Positions : f[p] = FromStep(b, f, p)
<1> DEFINE F(f) == [p \in Nat \ {0} |-> IF p > Len(b) THEN <<>>
                                      ELSE <<EntryAt(b, p).entry>> \o f[EntryAt(b, p).next]]
           W == CHOOSE f : f = F(f)
<1>1. Decoded(b) = W[1]
  BY DEF Decoded
<1>2. \A f : F(f) = [p \in Positions |-> FromStep(b, f, p)]
  BY DEF FromStep, Positions
<1>3. \E f : f = F(f)
  <2> HIDE DEF F
  <2>1. PICK f : f = [p \in Positions |-> FromStep(b, f, p)]
    BY FromExists
  <2> QED
    BY <1>2, <2>1
<1>4. W = F(W)
  <2> HIDE DEF F
  <2> QED
    BY <1>3
<1> HIDE DEF F, W
<1>5. W = [p \in Positions |-> FromStep(b, W, p)]
  BY <1>2, <1>4
<1>6. \A p \in Positions : W[p] = FromStep(b, W, p)
  BY <1>5
<1> QED
  BY <1>1, <1>6

\* It yields a sequence of entries.
EntriesIn(b) == {EntryAt(b, p).entry : p \in Positions}

LEMMA FromType ==
  ASSUME NEW b \in Seq(Byte), NEW f, \A p \in Positions : f[p] = FromStep(b, f, p)
  PROVE  \A p \in Positions : f[p] \in Seq(EntriesIn(b))
<1> DEFINE L == Len(b)
           T == EntriesIn(b)
           S == {n \in 0 .. L : \A p \in Positions : p > L - n => f[p] \in Seq(T)}
<1>0. L \in Nat
  BY LenProperties
<1> HIDE DEF L, T
<1>1. 0 \in S
  <2>1. ASSUME NEW p \in Positions, p > L - 0 PROVE f[p] \in Seq(T)
    <3>0. p > L
      BY <1>0, <2>1 DEF Positions
    <3>1. f[p] = <<>>
      BY <3>0 DEF FromStep, L
    <3> QED
      BY <3>1
  <2> QED
    BY <1>0, <2>1
<1>2. ASSUME NEW n \in 0 .. L - 1, n \in S PROVE n + 1 \in S
  <2>1. ASSUME NEW p \in Positions, p > L - (n + 1) PROVE f[p] \in Seq(T)
    <3> DEFINE q == EntryAt(b, p).next
               x == EntryAt(b, p).entry
    <3>1. q \in Nat /\ q > p
      BY NextIsFarther DEF Positions
    <3>2. x \in T
      BY DEF T, EntriesIn
    <3>3. f[p] = <<>> \/ f[p] = <<x>> \o f[q]
      BY DEF FromStep
    <3> HIDE DEF q, x
    <3>4. q \in Positions /\ q > L - n
      BY <1>0, <2>1, <3>1 DEF Positions
    <3>5. f[q] \in Seq(T)
      BY <1>2, <3>4
    <3>6. <<x>> \in Seq(T)
      BY <3>2
    <3>7. <<x>> \o f[q] \in Seq(T)
      BY <3>5, <3>6, ConcatProperties
    <3>8. <<>> \in Seq(T)
      BY EmptySeq
    <3> QED
      BY <3>3, <3>7, <3>8, Zenon
  <2> QED
    BY <1>0, <2>1
<1>3. L \in S
  <2> HIDE DEF S
  <2> QED
    <3>1. \A k \in 0 .. L : k \in S
      BY <1>0, <1>1, <1>2, UpTo, Zenon
    <3>2. L \in 0 .. L
      BY <1>0
    <3> QED
      BY <3>1, <3>2
<1>4. ASSUME NEW p \in Positions PROVE f[p] \in Seq(T)
  <2>1. p > L - L
    BY <1>0 DEF Positions
  <2> QED
    BY <1>3, <2>1
<1> QED
  BY <1>4 DEF T

-----------------------------------------------------------------------------
(* Reading entry after entry. *)

\* From position p to position q, bytes has the entries es.
Reads(bytes, p, es, q) ==
  \E pos \in [1 .. Len(es) + 1 -> Positions] :
    /\ pos[1] = p /\ pos[Len(es) + 1] = q
    /\ \A i \in 1 .. Len(es) : /\ pos[i + 1] = pos[i] + Len(Code(es[i]))
                               /\ Holds(bytes, pos[i], Code(es[i]), Len(Code(es[i])))

LEMMA ReadsDecoded ==
  ASSUME NEW b \in Seq(Byte), NEW es \in Seq(Items), NEW q, Reads(b, 1, es, q)
  PROVE  /\ IsPrefix(es, Decoded(b))
         /\ q = Len(b) + 1 => Decoded(b) = es
<1> DEFINE n == Len(es)
           T == EntriesIn(b)
<1>1. PICK pos \in [1 .. n + 1 -> Positions] :
        /\ pos[1] = 1 /\ pos[n + 1] = q
        /\ \A i \in 1 .. n : /\ pos[i + 1] = pos[i] + Len(Code(es[i]))
                             /\ Holds(b, pos[i], Code(es[i]), Len(Code(es[i])))
  BY DEF Reads
<1>2. PICK f : Decoded(b) = f[1] /\ \A p \in Positions : f[p] = FromStep(b, f, p)
  BY DecodedUnfold
<1>3. \A p \in Positions : f[p] \in Seq(T)
  BY <1>2, FromType
<1>4. n \in Nat /\ Len(b) \in Nat /\ es \in [1 .. n -> Items]
  BY LenProperties
<1> HIDE DEF n, T
<1>5. ASSUME NEW i \in 1 .. n PROVE es[i] \in T /\ f[pos[i]] = <<es[i]>> \o f[pos[i + 1]]
  <2> DEFINE p == pos[i]
             e == es[i]
  <2>1. p \in Positions /\ e \in Items
    BY <1>1, <1>4
  <2>2. pos[i + 1] = p + Len(Code(e)) /\ Holds(b, p, Code(e), Len(Code(e)))
    BY <1>1
  <2> HIDE DEF p, e
  <2>3. p <= Len(b) /\ EntryAt(b, p) = [next |-> p + Len(Code(e)), entry |-> e]
    BY <2>1, <2>2, ItemRead DEF Positions
  <2>4. ~(p > Len(b))
    BY <1>4, <2>1, <2>3 DEF Positions
  <2>5. EntryAt(b, p).entry = e /\ EntryAt(b, p).next = pos[i + 1]
    BY <2>2, <2>3
  <2>6. e \in T
    BY <2>1, <2>5 DEF T, EntriesIn
  <2>7. f[p] = FromStep(b, f, p)
    BY <1>2, <2>1
  <2>8. f[p] = <<e>> \o f[pos[i + 1]]
    BY <2>4, <2>5, <2>7 DEF FromStep
  <2> QED
    BY <2>6, <2>8 DEF p, e
<1>6. es \in Seq(T)
  <2>1. es \in [1 .. n -> T]
    BY <1>4, <1>5
  <2>2. [1 .. n -> T] \in {[1 .. k -> T] : k \in Nat}
    BY <1>4
  <2> QED
    BY <2>1, <2>2, SeqDef
<1>7. \A i \in 1 .. n + 1 : pos[i] \in Positions /\ f[pos[i]] \in Seq(T)
  BY <1>1, <1>3
<1> DEFINE S == {j \in 0 .. n : f[1] = SubSeq(es, 1, j) \o f[pos[j + 1]]}
<1>8. 0 \in S
  <2>1. SubSeq(es, 1, 0) = <<>>
    BY SubSeqEmpty
  <2>2. <<>> \o f[pos[1]] = f[pos[1]]
    <3>1. f[pos[1]] \in Seq(T)
      BY <1>4, <1>7
    <3> QED
      BY <3>1, ConcatEmptySeq
  <2>3. 0 + 1 = 1 /\ 0 \in 0 .. n
    BY <1>4
  <2> QED
    BY <1>1, <2>1, <2>2, <2>3
<1>9. ASSUME NEW j \in 0 .. n - 1, j \in S PROVE j + 1 \in S
  <2> DEFINE k == j + 1
             u == SubSeq(es, 1, j)
             v == <<es[k]>>
             w == f[pos[k + 1]]
  <2>1. k \in 1 .. n /\ k \in 0 .. n /\ k + 1 \in 1 .. n + 1 /\ k - 1 = j /\ 1 \in 1 .. n /\ j \in Int
    BY <1>4
  <2>2. f[1] = u \o f[pos[k]]
    BY <1>9
  <2> HIDE DEF k
  <2>3. f[pos[k]] = v \o w /\ es[k] \in T
    BY <1>5, <2>1
  <2>4. u \in Seq(T)
    <3>1. \A i \in 1 .. j : es[i] \in T
      <4> TAKE i \in 1 .. j
      <4>1. i \in 1 .. n
        BY <1>4
      <4> QED
        BY <1>5, <4>1
    <3> QED
      BY <2>1, <3>1, SubSeqProperties
  <2>5. v \in Seq(T) /\ w \in Seq(T)
    BY <1>7, <2>1, <2>3
  <2>6. SubSeq(es, 1, k) = u \o v
    <3>1. 1 \in 1 .. Len(es) /\ k \in 1 .. Len(es)
      BY <2>1 DEF n
    <3>2. SubSeq(es, 1, k) = SubSeq(es, 1, k - 1) \o <<es[k]>>
      BY <1>6, <3>1, SubSeqRecursiveSecond
    <3> QED
      BY <2>1, <3>2
  <2> HIDE DEF u, v, w
  <2>7. u \o (v \o w) = (u \o v) \o w
    <3>1. u \in Seq(T) /\ v \in Seq(T) /\ w \in Seq(T)
      BY <2>4, <2>5
    <3>2. (u \o v) \o w = u \o (v \o w)
      BY <3>1, ConcatAssociative, SMT
    <3> QED
      BY <3>2, Zenon
  <2>8. f[1] = SubSeq(es, 1, k) \o w
    BY <2>2, <2>3, <2>6, <2>7
  <2> QED
    BY <2>1, <2>8 DEF k, w
<1>10. n \in S
  <2> HIDE DEF S
  <2>1. \A k \in 0 .. n : k \in S
    BY <1>4, <1>8, <1>9, UpTo, Zenon
  <2>2. n \in 0 .. n
    BY <1>4
  <2> QED
    BY <2>1, <2>2
<1> DEFINE r == f[q]
<1>11. Decoded(b) = es \o r /\ r \in Seq(T)
  <2>1. SubSeq(es, 1, n) = es
    BY SubSeqFull DEF n
  <2>2. n + 1 \in 1 .. n + 1
    BY <1>4
  <2> QED
    BY <1>1, <1>2, <1>7, <1>10, <2>1, <2>2
<1>12. q = Len(b) + 1 => r = <<>>
  <2>1. q \in Positions
    <3>1. n + 1 \in 1 .. n + 1
      BY <1>4
    <3> QED
      BY <1>1, <3>1
  <2>2. q = Len(b) + 1 => q > Len(b)
    BY <1>4
  <2>3. f[q] = FromStep(b, f, q)
    BY <1>2, <2>1
  <2> QED
    BY <2>2, <2>3 DEF FromStep
<1> HIDE DEF r
<1>13. q = Len(b) + 1 => Decoded(b) = es
  BY <1>6, <1>11, <1>12, ConcatEmptySeq
<1> DEFINE z == es \o r
<1>14. IsPrefix(es, z)
  <2>0. z = es \o r
    OBVIOUS
  <2> HIDE DEF z
  <2>1. /\ z \in Seq(T) /\ Len(z) = Len(es) + Len(r)
        /\ \A i \in 1 .. Len(es) : z[i] = es[i]
    BY <1>6, <1>11, <2>0, ConcatAt, SMT
  <2>2. Len(es) = n /\ Len(r) \in Nat
    BY <1>11, LenProperties DEF n
  <2>3. n <= Len(z) /\ n = 0 + n /\ n \in Int /\ 0 + 1 = 1 /\ 0 \in Nat
    BY <1>4, <2>1, <2>2
  <2>4. SubSeq(z, 0 + 1, n) = es
    <3>1. \A i \in 1 .. Len(es) : z[0 + i] = es[i]
      BY <2>1, <2>2
    <3> QED
      BY <1>6, <2>1, <2>2, <2>3, <3>1, SubSeqIs
  <2>5. SubSeq(z, 1, Len(es)) = es /\ SubSeq(es, 1, Len(es)) = es
    BY <2>2, <2>3, <2>4, SubSeqFull
  <2> QED
    BY <2>2, <2>3, <2>5 DEF IsPrefix
<1> QED
  BY <1>11, <1>13, <1>14

\* What is read stays so when bytes are added.
LEMMA HoldsMore ==
  ASSUME NEW b \in Seq(Byte), NEW y \in Seq(Byte), NEW p \in Positions, NEW x, NEW w \in Nat,
         Holds(b, p, x, w)
  PROVE  Holds(b \o y, p, x, w)
<1> DEFINE z == b \o y
<1>0. z = b \o y
  OBVIOUS
<1> HIDE DEF z
<1>1. Len(z) = Len(b) + Len(y) /\ \A i \in 1 .. Len(b) : z[i] = b[i]
  BY <1>0, ConcatAt, SMT
<1> DEFINE l == Len(b)
           k == Len(y)
<1>2. l \in Nat /\ k \in Nat /\ Len(z) = l + k
  BY <1>1, LenProperties
<1>3. p + w <= l + 1 /\ \A i \in 1 .. w : b[(p - 1) + i] = x[i]
  BY DEF Holds
<1>4. \A i \in 1 .. l : z[i] = b[i]
  BY <1>1
<1> HIDE DEF l, k
<1>5. p + w <= (l + k) + 1
  BY <1>2, <1>3 DEF Positions
<1>6. ASSUME NEW i \in 1 .. w PROVE z[(p - 1) + i] = x[i]
  <2>1. (p - 1) + i \in 1 .. l
    BY <1>2, <1>3 DEF Positions
  <2> QED
    BY <1>3, <1>4, <2>1
<1>7. Holds(z, p, x, w)
  BY <1>2, <1>5, <1>6 DEF Holds
<1> QED
  BY <1>7 DEF z

LEMMA ReadsMore ==
  ASSUME NEW b \in Seq(Byte), NEW y \in Seq(Byte), NEW es \in Seq(Items), NEW p, NEW q,
         Reads(b, p, es, q)
  PROVE  Reads(b \o y, p, es, q)
<1> DEFINE n == Len(es)
<1>1. PICK pos \in [1 .. n + 1 -> Positions] :
        /\ pos[1] = p /\ pos[n + 1] = q
        /\ \A i \in 1 .. n : /\ pos[i + 1] = pos[i] + Len(Code(es[i]))
                             /\ Holds(b, pos[i], Code(es[i]), Len(Code(es[i])))
  BY DEF Reads
<1>2. n \in Nat /\ es \in [1 .. n -> Items]
  BY LenProperties
<1> HIDE DEF n
<1>3. ASSUME NEW i \in 1 .. n PROVE Holds(b \o y, pos[i], Code(es[i]), Len(Code(es[i])))
  <2>1. i \in 1 .. n + 1
    BY <1>2
  <2> DEFINE r == pos[i]
             x == Code(es[i])
             w == Len(x)
  <2>2. r \in Positions /\ w \in Nat /\ Holds(b, r, x, w)
    <3>1. es[i] \in Items
      BY <1>2
    <3>2. w \in Nat
      BY <3>1, Codes
    <3> QED
      BY <1>1, <2>1, <3>2
  <2> HIDE DEF r, x, w
  <2>3. Holds(b \o y, r, x, w)
    BY <2>2, HoldsMore
  <2> QED
    BY <2>3 DEF r, x, w
<1> QED
  BY <1>1, <1>3 DEF Reads, n

LEMMA ReadsNone ==
  ASSUME NEW b, NEW p \in Positions
  PROVE  Reads(b, p, <<>>, p)
<1> DEFINE pos == [i \in 1 .. 1 |-> p]
<1>1. pos \in [1 .. 1 -> Positions] /\ pos[1] = p
  OBVIOUS
<1> HIDE DEF pos
<1>2. Len(<<>>) = 0 /\ 0 + 1 = 1
  BY EmptySeq
<1>3. \A i \in 1 .. 0 : FALSE
  OBVIOUS
<1> QED
  BY <1>1, <1>2, <1>3 DEF Reads

LEMMA ReadsOne ==
  ASSUME NEW b, NEW p \in Positions, NEW e \in Items, Holds(b, p, Code(e), Len(Code(e)))
  PROVE  Reads(b, p, <<e>>, p + Len(Code(e)))
<1> DEFINE w == Len(Code(e))
           pos == [i \in 1 .. 2 |-> IF i = 1 THEN p ELSE p + w]
           es == <<e>>
<1>1. w \in Nat
  BY Codes
<1>2. Len(es) = 1 /\ es[1] = e /\ 1 + 1 = 2
  OBVIOUS
<1> HIDE DEF es
<1>3. \A x \in Positions : \A y \in Nat : x + y \in Positions
  BY DEF Positions
<1> HIDE DEF w
<1>4. pos \in [1 .. 2 -> Positions] /\ pos[1] = p /\ pos[2] = p + w
  <2>1. p + w \in Positions
    BY <1>1, <1>3
  <2> QED
    BY <2>1
<1> HIDE DEF pos
<1>5. \A i \in 1 .. 1 : i = 1
  OBVIOUS
<1>6. \A i \in 1 .. 1 : /\ pos[i + 1] = pos[i] + Len(Code(es[i]))
                        /\ Holds(b, pos[i], Code(es[i]), Len(Code(es[i])))
  <2> TAKE i \in 1 .. 1
  <2>1. i = 1 /\ i + 1 = 2
    BY <1>5
  <2> QED
    BY <1>2, <1>4, <2>1 DEF w
<1>7. Reads(b, p, es, p + w)
  BY <1>2, <1>4, <1>6 DEF Reads
<1> QED
  BY <1>7 DEF es, w

LEMMA ReadsJoin ==
  ASSUME NEW b, NEW es \in Seq(Items), NEW fs \in Seq(Items), NEW p, NEW m, NEW q,
         Reads(b, p, es, m), Reads(b, m, fs, q)
  PROVE  Reads(b, p, es \o fs, q)
<1> DEFINE n == Len(es)
           k == Len(fs)
           gs == es \o fs
<1>1. PICK pos \in [1 .. n + 1 -> Positions] :
        /\ pos[1] = p /\ pos[n + 1] = m
        /\ \A i \in 1 .. n : /\ pos[i + 1] = pos[i] + Len(Code(es[i]))
                             /\ Holds(b, pos[i], Code(es[i]), Len(Code(es[i])))
  BY DEF Reads
<1>2. PICK more \in [1 .. k + 1 -> Positions] :
        /\ more[1] = m /\ more[k + 1] = q
        /\ \A i \in 1 .. k : /\ more[i + 1] = more[i] + Len(Code(fs[i]))
                             /\ Holds(b, more[i], Code(fs[i]), Len(Code(fs[i])))
  BY DEF Reads
<1>3. n \in Nat /\ k \in Nat
  BY LenProperties
<1>4. gs = es \o fs
  OBVIOUS
<1> HIDE DEF gs
<1>5. /\ Len(gs) = n + k
      /\ \A i \in 1 .. n : gs[i] = es[i]
      /\ \A i \in 1 .. k : gs[n + i] = fs[i]
  BY <1>4, ConcatAt, SMT
<1> HIDE DEF n, k
<1> DEFINE all == [i \in 1 .. (n + k) + 1 |-> IF i <= n THEN pos[i] ELSE more[i - n]]
<1>6. all \in [1 .. (n + k) + 1 -> Positions]
  <2>1. ASSUME NEW i \in 1 .. (n + k) + 1 PROVE (IF i <= n THEN pos[i] ELSE more[i - n]) \in Positions
    <3>1. CASE i <= n
      <4>1. i \in 1 .. n + 1
        BY <1>3, <3>1
      <4> QED
        BY <1>1, <3>1, <4>1
    <3>2. CASE ~(i <= n)
      <4>1. i - n \in 1 .. k + 1
        BY <1>3, <3>2
      <4> QED
        BY <1>2, <3>2, <4>1
    <3> QED
      BY <3>1, <3>2
  <2> QED
    BY <2>1
<1>7. \A i \in 1 .. n + 1 : all[i] = pos[i]
  <2> TAKE i \in 1 .. n + 1
  <2>1. i \in 1 .. (n + k) + 1 /\ (~(i <= n) => i = n + 1 /\ i - n = 1)
    BY <1>3
  <2> QED
    BY <1>1, <1>2, <2>1
<1>8. \A i \in 1 .. k + 1 : all[n + i] = more[i]
  <2> TAKE i \in 1 .. k + 1
  <2>1. n + i \in 1 .. (n + k) + 1 /\ ~(n + i <= n) /\ (n + i) - n = i
    BY <1>3
  <2> QED
    BY <2>1
<1> HIDE DEF all
<1>9. all[1] = p /\ all[(n + k) + 1] = q
  <2>1. 1 \in 1 .. n + 1 /\ k + 1 \in 1 .. k + 1 /\ n + (k + 1) = (n + k) + 1
    BY <1>3
  <2>2. all[n + (k + 1)] = more[k + 1]
    BY <1>8, <2>1
  <2> QED
    BY <1>1, <1>2, <1>7, <2>1, <2>2
<1>10. ASSUME NEW i \in 1 .. n + k
       PROVE  /\ all[i + 1] = all[i] + Len(Code(gs[i]))
              /\ Holds(b, all[i], Code(gs[i]), Len(Code(gs[i])))
  <2>1. CASE i <= n
    <3>1. i \in 1 .. n /\ i \in 1 .. n + 1 /\ i + 1 \in 1 .. n + 1
      BY <1>3, <2>1
    <3>2. all[i] = pos[i] /\ all[i + 1] = pos[i + 1] /\ gs[i] = es[i]
      BY <1>5, <1>7, <3>1
    <3> QED
      BY <1>1, <3>1, <3>2
  <2>2. CASE ~(i <= n)
    <3> DEFINE j == i - n
    <3>1. j \in 1 .. k /\ j \in 1 .. k + 1 /\ j + 1 \in 1 .. k + 1 /\ i = n + j /\ i + 1 = n + (j + 1)
      BY <1>3, <2>2
    <3> HIDE DEF j
    <3>2. all[n + j] = more[j] /\ all[n + (j + 1)] = more[j + 1] /\ gs[n + j] = fs[j]
      BY <1>5, <1>8, <3>1
    <3> QED
      BY <1>2, <3>1, <3>2
  <2> QED
    BY <2>1, <2>2
<1>11. Reads(b, p, gs, q)
  BY <1>5, <1>6, <1>9, <1>10 DEF Reads
<1> QED
  BY <1>11 DEF gs

-----------------------------------------------------------------------------
(* Writing an entry, piece by piece. *)

\* What is left to write of e, from its i-th piece on.
Rest(e, i) == SubSeq(Pieces(e), i, Len(Pieces(e)))

LEMMA RestFacts ==
  ASSUME NEW e \in Entries, NEW i \in 1 .. Len(Pieces(e)) + 1
  PROVE  LET n == Len(Pieces(e)) IN
         /\ n \in Nat \ {0} /\ Pieces(e) \in Seq(Seq(Byte)) /\ Rest(e, i) \in Seq(Seq(Byte))
         /\ Len(Rest(e, i)) = (n + 1) - i
         /\ Rest(e, i) = <<>> <=> i = n + 1
         /\ Rest(e, i) = Pieces(e) <=> i = 1
         /\ i <= n => Head(Rest(e, i)) = Pieces(e)[i] /\ Tail(Rest(e, i)) = Rest(e, i + 1)
<1> DEFINE S == Seq(Byte)
           p == Pieces(e)
           n == Len(p)
           d == Rest(e, i)
           c == ArgCount(e.id)
<1>1. p \in Seq(S) /\ (n = 3 + c \/ n = 1 + c)
  BY PiecesShape
<1>2. c \in Nat
  BY EntryFacts
<1> HIDE DEF c
<1>3. n \in Nat \ {0} /\ i \in 1 .. n + 1 /\ d = SubSeq(p, i, n)
  <2>1. n \in Nat \ {0}
    <3> HIDE DEF n
    <3> QED
      BY <1>1, <1>2
  <2> QED
    BY <2>1 DEF Rest
<1> HIDE DEF d
<1>4. \A j \in i .. n : p[j] \in S
  <2> TAKE j \in i .. n
  <2>1. j \in 1 .. Len(p)
    BY <1>3
  <2> HIDE DEF p, n, S
  <2> QED
    BY <1>1, <2>1, ElementOfSeq
<1> HIDE DEF p, S
<1>5. d \in Seq(S) /\ Len(d) = IF i <= n THEN n - i + 1 ELSE 0
  <2>1. i \in Int /\ n \in Int
    BY <1>3
  <2> HIDE DEF n
  <2> QED
    BY <1>3, <1>4, <2>1, SubSeqProperties
<1>6. Len(d) = (n + 1) - i
  BY <1>3, <1>5
<1>7. d = <<>> <=> i = n + 1
  <2>1. d = <<>> <=> Len(d) = 0
    BY <1>5, EmptySeq
  <2>2. (n + 1) - i = 0 <=> i = n + 1
    BY <1>3
  <2> QED
    BY <1>6, <2>1, <2>2
<1>8. d = p <=> i = 1
  <2>1. d = p => Len(d) = n
    OBVIOUS
  <2>2. (n + 1) - i = n => i = 1
    BY <1>3
  <2>3. i = 1 => d = p
    BY <1>1, <1>3, SubSeqFull
  <2> QED
    BY <1>6, <2>1, <2>2, <2>3
<1>9. ASSUME i <= n PROVE Head(d) = p[i] /\ Tail(d) = Rest(e, i + 1)
  <2>1. i \in 1 .. Len(p) /\ n \in i .. Len(p)
    BY <1>3, <1>9
  <2>2. Head(SubSeq(p, i, n)) = p[i] /\ Tail(SubSeq(p, i, n)) = SubSeq(p, i + 1, n)
    BY <1>1, <2>1, HeadTailOfSubSeq
  <2> QED
    BY <1>3, <2>2 DEF Rest, p
<1> QED
  BY <1>1, <1>3, <1>5, <1>6, <1>7, <1>8, <1>9 DEF d, p, S

\* The bytes of an entry of which i - 1 pieces are written, and of one more.
LEMMA PieceWritten ==
  ASSUME NEW e \in Entries, NEW i \in 1 .. Len(Pieces(e)), NEW b \in Seq(Byte), NEW q \in Positions,
         Len(b) = (q - 1) + (i - 1), Holds(b, q, Code(e), i - 1)
  PROVE  LET z == b \o Pieces(e)[i] IN
         /\ z \in Seq(Byte)
         /\ i < Len(Pieces(e)) => Len(z) = (q - 1) + i /\ Holds(z, q, Code(e), i)
         /\ i = Len(Pieces(e)) => /\ Len(z) + 1 = q + Len(Code(e))
                                  /\ Holds(z, q, Code(e), Len(Code(e)))
<1> DEFINE y == Pieces(e)[i]
           x == EntryCode(e)
           n == Len(Pieces(e))
           l == Len(y)
           z == b \o y
           w == (i - 1) + l
<1>1. /\ y \in Seq(Byte)
      /\ \A k \in 1 .. l : y[k] = x[i - 1 + k]
      /\ i < n => l = 1
      /\ i = n => i - 1 + l = Len(x)
  BY PieceOfCode
<1>2. Code(e) = x /\ Len(x) \in Nat
  BY Codes DEF Items
<1>3. n \in Nat /\ i \in 1 .. n
  <2>1. i \in 1 .. Len(Pieces(e)) + 1 /\ Len(Pieces(e)) \in Nat
    <3>1. Len(Pieces(e)) \in Nat
      BY PiecesShape, LenProperties
    <3> QED
      BY <3>1
  <2> QED
    BY <2>1
<1>4. l \in Nat
  BY <1>1, LenProperties
<1>5. z = b \o y
  OBVIOUS
<1> HIDE DEF z, y
<1>6. /\ z \in Seq(Byte) /\ Len(z) = Len(b) + l
      /\ \A k \in 1 .. Len(b) : z[k] = b[k]
      /\ \A k \in 1 .. l : z[Len(b) + k] = y[k]
  <2>1. y \in Seq(Byte)
    BY <1>1
  <2>2. \A u, v \in Seq(Byte) : \A r : r = u \o v =>
          /\ r \in Seq(Byte) /\ Len(r) = Len(u) + Len(v)
          /\ \A k \in 1 .. Len(u) : r[k] = u[k]
          /\ \A k \in 1 .. Len(v) : r[Len(u) + k] = v[k]
    BY ConcatAt, SMT
  <2>3. b \in Seq(Byte)
    OBVIOUS
  <2> HIDE DEF l
  <2>4. /\ z \in Seq(Byte) /\ Len(z) = Len(b) + Len(y)
        /\ \A k \in 1 .. Len(b) : z[k] = b[k]
        /\ \A k \in 1 .. Len(y) : z[Len(b) + k] = y[k]
    BY ONLY <1>5, <2>1, <2>2, <2>3
  <2> QED
    BY <2>4 DEF l
<1> HIDE DEF n, l, x
<1>7. w \in Nat /\ Len(z) = (q - 1) + w
  BY <1>3, <1>4, <1>6 DEF Positions
<1>8. Holds(z, q, x, w)
  <2>1. q + w <= Len(z) + 1
    BY <1>7 DEF Positions
  <2>2. ASSUME NEW k \in 1 .. w PROVE z[(q - 1) + k] = x[k]
    <3>1. CASE k <= i - 1
      <4>1. k \in 1 .. i - 1 /\ (q - 1) + k \in 1 .. Len(b)
        BY <1>3, <3>1 DEF Positions
      <4>2. b[(q - 1) + k] = x[k]
        BY <1>2, <4>1 DEF Holds
      <4> QED
        BY <1>6, <4>1, <4>2
    <3>2. CASE ~(k <= i - 1)
      <4> DEFINE j == k - (i - 1)
      <4>1. j \in 1 .. l /\ (q - 1) + k = Len(b) + j /\ i - 1 + j = k
        BY <1>3, <1>4, <3>2 DEF Positions
      <4> HIDE DEF j
      <4> QED
        BY <1>1, <1>6, <4>1 DEF l
    <3> QED
      BY <3>1, <3>2
  <2> QED
    BY <2>1, <2>2 DEF Holds
<1>9. i < n => w = i
  <2>1. \A k \in 1 .. n : (k - 1) + 1 = k
    BY <1>3
  <2> QED
    BY <1>1, <1>3, <2>1 DEF l
<1>10. i = n => w = Len(x)
  BY <1>1, <1>3 DEF l, x
<1>11. i = n => Len(z) + 1 = q + Len(x)
  BY <1>2, <1>7, <1>10 DEF Positions
<1> HIDE DEF w
<1> QED
  BY <1>2, <1>6, <1>7, <1>8, <1>9, <1>10, <1>11 DEF z, y, n

\* A mark is added to a file that ends where an entry does, or to any other.
LEMMA MarkAdded ==
  ASSUME NEW f \in Seq(Byte), NEW l \in Seq(Items), NEW m \in Positions, Reads(f, 1, l, m),
         NEW magic \in {MAGIC_BEGIN, MAGIC_END}
  PROVE  /\ f \o magic \in Seq(Byte)
         /\ Append(l, Mark(magic)) \in Seq(Items)
         /\ Reads(f \o magic, 1, l, m)
         /\ m = Len(f) + 1 => /\ Len(f \o magic) + 1 \in Positions
                              /\ Reads(f \o magic, 1, Append(l, Mark(magic)), Len(f \o magic) + 1)
<1> DEFINE e == Mark(magic)
           z == f \o magic
<1>1. magic \in Seq(Byte) /\ Len(magic) = 4
  BY Magics, SMT
<1>2. e \in Items /\ Code(e) = magic
  BY Codes DEF Items
<1>3. z = f \o magic
  OBVIOUS
<1> HIDE DEF z, e
<1>4. /\ z \in Seq(Byte) /\ Len(z) = Len(f) + Len(magic)
      /\ \A k \in 1 .. Len(magic) : z[Len(f) + k] = magic[k]
  <2>1. magic \in Seq(Byte) /\ f \in Seq(Byte)
    BY <1>1
  <2> QED
    BY ONLY <1>3, <2>1, ConcatAt
<1>5. Reads(z, 1, l, m)
  BY <1>1, <1>3, ReadsMore
<1>6. Append(l, e) \in Seq(Items) /\ Append(l, e) = l \o <<e>>
  BY <1>2, AppendProperties, AppendIsConcat
<1>7. ASSUME m = Len(f) + 1 PROVE Len(z) + 1 \in Positions /\ Reads(z, 1, Append(l, e), Len(z) + 1)
  <2> DEFINE n == Len(f)
  <2>1. n \in Nat /\ Len(z) = n + 4
    BY <1>1, <1>4, LenProperties
  <2>2. m = n + 1 /\ \A k \in 1 .. 4 : z[n + k] = magic[k]
    BY <1>1, <1>4, <1>7
  <2> HIDE DEF n
  <2>3. \A k \in 1 .. 4 : (m - 1) + k = n + k
    BY <2>1, <2>2
  <2>4. m + 4 <= Len(z) + 1 /\ Len(z) + 1 = m + 4 /\ m + 4 \in Positions
    BY <2>1, <2>2 DEF Positions
  <2>5. Holds(z, m, magic, 4)
    BY <2>2, <2>3, <2>4 DEF Holds
  <2>6. Reads(z, m, <<e>>, m + 4)
    BY <1>1, <1>2, <2>5, ReadsOne
  <2>7. <<e>> \in Seq(Items)
    BY <1>2
  <2>8. Reads(z, 1, l \o <<e>>, m + 4)
    BY <1>5, <2>6, <2>7, ReadsJoin
  <2> QED
    BY <1>6, <2>4, <2>8
<1> QED
  BY <1>4, <1>5, <1>6, <1>7 DEF z, e

\* The buffer goes to disk, and its entries with it.
LEMMA BufferFlushed ==
  ASSUME NEW f \in Seq(Byte), NEW b \in Seq(Byte), NEW l \in Seq(Items), NEW c \in Seq(Items),
         NEW m \in Positions, NEW q \in Positions,
         Reads(f, 1, l, m), Reads(f \o b, m, c, q)
  PROVE  /\ f \o b \in Seq(Byte) /\ l \o c \in Seq(Items)
         /\ Reads(f \o b, 1, l \o c, q)
<1>1. f \o b \in Seq(Byte) /\ l \o c \in Seq(Items)
  BY ConcatProperties
<1>2. Reads(f \o b, 1, l, m)
  BY ReadsMore
<1>3. Reads(f \o b, 1, l \o c, q)
  BY <1>2, ReadsJoin
<1> QED
  BY <1>1, <1>3

-----------------------------------------------------------------------------
(* The invariant. *)

LogTypes ==
  /\ file \in Seq(Byte) /\ buffer \in Seq(Byte)
  /\ open \in BOOLEAN /\ whole \in BOOLEAN /\ split \in BOOLEAN
  /\ writers \subseteq Threads
  /\ call \in [Threads -> Entries \cup {Idle}] /\ todo \in [Threads -> Seq(Seq(Byte))]
  /\ logged \in Seq(Items) /\ complete \in Seq(Items)

\* What the threads do: who logs has a last part of its entry to write, no
\* two have begun an entry unless one is torn, and one thread tears none.
ThreadsInv ==
  /\ \A t \in Threads : call[t] # Idle =>
       /\ t \in writers
       /\ \E i \in 1 .. Len(Pieces(call[t])) + 1 : todo[t] = Rest(call[t], i)
  /\ ~open => \A t \in Threads : call[t] = Idle
  /\ (\A t \in Threads : call[t] = Idle) => buffer = <<>> /\ complete = <<>>
  /\ whole => \A t, u \in Threads : Partial(t) /\ Partial(u) => t = u
  /\ whole /\ split => \E t \in Threads : call[t] # Idle
  /\ Cardinality(writers) = 1 => whole /\ ~split

\* Where reading arrives: at m with what is logged, at q with what is
\* complete; then come the pieces of the entry that is being written.
Written == file \o buffer

Arrives(m, q) ==
  /\ Reads(file, 1, logged, m) /\ Reads(Written, m, complete, q)
  /\ whole =>
       /\ ~split => m = Len(file) + 1
       /\ (\A t \in Threads : ~Partial(t)) => q = Len(Written) + 1
       /\ \A t \in Threads : \A i \in 2 .. Len(Pieces(call[t])) :
            call[t] # Idle /\ todo[t] = Rest(call[t], i) =>
              Len(Written) = (q - 1) + (i - 1) /\ Holds(Written, q, Code(call[t]), i - 1)

ReadInv == \E m, q \in Positions : Arrives(m, q)

LogInv == LogTypes /\ ThreadsInv /\ ReadInv

LEMMA IdleIsNone == Idle \notin Entries
<1>1. Idle.id = 0
  BY DEF Idle
<1>2. \A e \in Entries : e.id \in 1 .. 6
  BY Magics
<1> QED
  BY <1>1, <1>2

LEMMA PartialIs ==
  ASSUME LogTypes, NEW t \in Threads, call[t] # Idle,
         NEW i \in 1 .. Len(Pieces(call[t])) + 1, todo[t] = Rest(call[t], i)
  PROVE  Partial(t) <=> i \in 2 .. Len(Pieces(call[t]))
<1> DEFINE e == call[t]
           n == Len(Pieces(e))
<1>1. e \in Entries
  BY DEF LogTypes
<1>2. n \in Nat \ {0} /\ (Rest(e, i) = <<>> <=> i = n + 1) /\ (Rest(e, i) = Pieces(e) <=> i = 1)
  BY <1>1, RestFacts
<1>3. Partial(t) <=> i # n + 1 /\ i # 1
  BY <1>2 DEF Partial
<1>4. i # n + 1 /\ i # 1 <=> i \in 2 .. n
  <2> HIDE DEF n
  <2>1. i \in 1 .. n + 1
    BY DEF n
  <2> QED
    BY <1>2, <2>1
<1> QED
  BY <1>3, <1>4

\* The entry whose bytes are at the end: i - 1 pieces of it are written.
LEMMA NextPiece ==
  ASSUME LogTypes, whole, NEW m \in Positions, NEW q \in Positions, Arrives(m, q),
         NEW t \in Threads, call[t] # Idle, \A u \in Threads \ {t} : ~Partial(u),
         NEW i \in 1 .. Len(Pieces(call[t])), todo[t] = Rest(call[t], i)
  PROVE  Len(Written) = (q - 1) + (i - 1) /\ Holds(Written, q, Code(call[t]), i - 1)
<1> DEFINE n == Len(Pieces(call[t]))
<1>1. call[t] \in Entries
  BY DEF LogTypes
<1>2. n \in Nat \ {0} /\ i \in 1 .. n + 1
  <2>1. n \in Nat \ {0}
    <3>1. 1 \in 1 .. n + 1
      <4>1. n \in Nat
        BY <1>1, PiecesShape, LenProperties
      <4> QED
        BY <4>1
    <3> QED
      BY <1>1, <3>1, RestFacts
  <2> QED
    BY <2>1
<1>3. Partial(t) <=> i \in 2 .. n
  BY <1>2, PartialIs
<1>4. CASE i \in 2 .. n
  BY <1>4 DEF Arrives
<1>5. CASE i \notin 2 .. n
  <2>1. i = 1
    <3> HIDE DEF n
    <3>1. i \in 1 .. n
      BY DEF n
    <3> QED
      BY <1>2, <1>5, <3>1
  <2>2. \A u \in Threads : ~Partial(u)
    BY <1>3, <1>5
  <2>3. q = Len(Written) + 1
    BY <2>2 DEF Arrives
  <2>4. Written \in Seq(Byte)
    BY ConcatProperties DEF LogTypes, Written
  <2>5. Len(Written) \in Nat
    BY <2>4, LenProperties
  <2>6. Len(Written) = (q - 1) + (i - 1) /\ q + (i - 1) <= Len(Written) + 1 /\ i - 1 = 0
    BY <2>1, <2>3, <2>5
  <2>7. \A k \in 1 .. 0 : FALSE
    OBVIOUS
  <2> QED
    BY <2>6, <2>7 DEF Holds
<1> QED
  BY <1>4, <1>5

LEMMA LogInit == Init => LogInv
<1> SUFFICES ASSUME Init PROVE LogInv
  OBVIOUS
<1>1. LogTypes
  <2>1. call \in [Threads -> Entries \cup {Idle}] /\ todo \in [Threads -> Seq(Seq(Byte))]
    BY EmptySeq DEF Init
  <2>2. file \in Seq(Byte) /\ buffer \in Seq(Byte) /\ logged \in Seq(Items) /\ complete \in Seq(Items)
    BY EmptySeq DEF Init
  <2> QED
    BY <2>1, <2>2 DEF Init, LogTypes
<1>2. ThreadsInv
  BY DEF Init, ThreadsInv, Partial
<1>3. Written = <<>> /\ Len(<<>>) = 0 /\ 1 \in Positions
  BY ConcatEmptySeq, EmptySeq DEF Init, Written, Positions
<1>4. Reads(<<>>, 1, <<>>, 1)
  BY <1>3, ReadsNone
<1>5. 1 = Len(file) + 1 /\ 1 = Len(Written) + 1
  BY <1>3 DEF Init
<1>6. \A t \in Threads : call[t] = Idle
  BY DEF Init
<1>7. Arrives(1, 1)
  BY <1>3, <1>4, <1>5, <1>6 DEF Init, Arrives
<1> QED
  BY <1>1, <1>2, <1>3, <1>7 DEF LogInv, ReadInv

\* When no thread logs, nothing is under way.
LEMMA NoneLogs ==
  ASSUME LogTypes, ThreadsInv, \A t \in Threads : call[t] = Idle
  PROVE  /\ buffer = <<>> /\ complete = <<>> /\ Written = file
         /\ \A t \in Threads : ~Partial(t)
         /\ whole => ~split
<1>1. buffer = <<>> /\ complete = <<>>
  BY DEF ThreadsInv
<1>2. Written = file
  BY <1>1, ConcatEmptySeq DEF LogTypes, Written
<1>3. \A t \in Threads : ~Partial(t)
  BY DEF Partial
<1>4. whole => ~split
  BY DEF ThreadsInv, LogTypes
<1> QED
  BY <1>1, <1>2, <1>3, <1>4

\* After a step with nothing under way, reading arrives at the end unless an
\* entry is torn.
LEMMA AtRest ==
  ASSUME \A t \in Threads : call'[t] = Idle, file' \in Seq(Byte), buffer' = <<>>, complete' = <<>>,
         NEW m \in Positions, Reads(file', 1, logged', m), whole' => m = Len(file') + 1
  PROVE  ReadInv'
<1>1. Written' = file'
  BY ConcatEmptySeq DEF Written
<1>2. Reads(Written', m, complete', m)
  BY ReadsNone
<1>3. Arrives(m, m)'
  BY <1>1, <1>2 DEF Arrives
<1> QED
  BY <1>3 DEF ReadInv

LEMMA MarkStep ==
  ASSUME LogInv, \A t \in Threads : call[t] = Idle, \A t \in Threads : call'[t] = Idle,
         NEW magic \in {MAGIC_BEGIN, MAGIC_END},
         file' = file \o magic, logged' = IF whole THEN Append(logged, Mark(magic)) ELSE logged,
         UNCHANGED <<buffer, complete, whole, split>>
  PROVE  file' \in Seq(Byte) /\ logged' \in Seq(Items) /\ ReadInv'
<1>1. PICK m, q \in Positions : Arrives(m, q)
  BY DEF LogInv, ReadInv
<1>2. /\ buffer = <<>> /\ complete = <<>> /\ (whole => ~split)
      /\ file \in Seq(Byte) /\ logged \in Seq(Items)
  BY NoneLogs DEF LogInv, LogTypes
<1>3. Reads(file, 1, logged, m) /\ (whole => m = Len(file) + 1)
  <2>1. Reads(file, 1, logged, m) /\ (whole => (~split => m = Len(file) + 1))
    BY <1>1 DEF Arrives
  <2> QED
    BY <1>2, <2>1, Zenon
<1>4. /\ file' \in Seq(Byte)
      /\ Append(logged, Mark(magic)) \in Seq(Items)
      /\ Reads(file', 1, logged, m)
      /\ whole => /\ Len(file') + 1 \in Positions
                  /\ Reads(file', 1, Append(logged, Mark(magic)), Len(file') + 1)
  BY <1>2, <1>3, MarkAdded
<1>5. ReadInv'
  <2>0. buffer' = <<>> /\ complete' = <<>>
    BY <1>2
  <2>1. CASE whole
    <3> DEFINE k == Len(file') + 1
    <3>1. k \in Positions /\ Reads(file', 1, logged', k) /\ (whole' => k = Len(file') + 1)
      BY <1>4, <2>1
    <3> HIDE DEF k
    <3> QED
      BY <1>4, <2>0, <3>1, AtRest
  <2>2. CASE ~whole
    <3>1. logged' = logged /\ ~whole'
      BY <2>2
    <3> QED
      BY <1>4, <2>0, <3>1, AtRest
  <2> QED
    BY <2>1, <2>2
<1> QED
  BY <1>2, <1>4, <1>5

LEMMA BeginStep == LogInv /\ Begin => LogInv'
<1> SUFFICES ASSUME LogInv, Begin PROVE LogInv'
  OBVIOUS
<1>1. /\ \A t \in Threads : call[t] = Idle
      /\ file' = file \o MAGIC_BEGIN
      /\ logged' = IF whole THEN Append(logged, Mark(MAGIC_BEGIN)) ELSE logged
      /\ open' = TRUE /\ UNCHANGED <<buffer, writers, call, todo, complete, whole, split>>
  BY DEF Begin, LogInv, ThreadsInv
<1>2. \A t \in Threads : call'[t] = Idle
  BY <1>1
<1>3. file' \in Seq(Byte) /\ logged' \in Seq(Items) /\ ReadInv'
  BY <1>1, <1>2, MarkStep
<1>4. LogTypes'
  BY <1>1, <1>3 DEF LogInv, LogTypes
<1>5. ThreadsInv'
  BY <1>1 DEF LogInv, ThreadsInv, Partial
<1> QED
  BY <1>3, <1>4, <1>5 DEF LogInv

\* The process is gone: the threads and what they do with it.
LEMMA EndedThreads ==
  ASSUME LogInv, Ended, buffer' = <<>>, complete' = <<>>,
         split' \in BOOLEAN, whole' \in BOOLEAN, whole' => ~split',
         file' \in Seq(Byte), logged' \in Seq(Items),
         Cardinality(writers) = 1 => whole' /\ ~split'
  PROVE  LogTypes' /\ ThreadsInv' /\ \A t \in Threads : call'[t] = Idle
<1>1. /\ open' = FALSE /\ writers' = writers
      /\ call' = [t \in Threads |-> Idle] /\ todo' = [t \in Threads |-> <<>>]
  BY DEF Ended
<1>2. \A t \in Threads : call'[t] = Idle
  BY <1>1
<1>3. LogTypes'
  <2>1. call' \in [Threads -> Entries \cup {Idle}] /\ todo' \in [Threads -> Seq(Seq(Byte))]
    BY <1>1, EmptySeq
  <2>2. buffer' \in Seq(Byte) /\ complete' \in Seq(Items)
    BY EmptySeq
  <2> QED
    BY <1>1, <2>1, <2>2 DEF LogInv, LogTypes
<1>4. \A t \in Threads : ~Partial(t)'
  BY <1>2 DEF Partial
<1>5. ThreadsInv'
  BY <1>1, <1>2, <1>4 DEF ThreadsInv
<1> QED
  BY <1>2, <1>3, <1>5

LEMMA EndStep == LogInv /\ End => LogInv'
<1> SUFFICES ASSUME LogInv, End PROVE LogInv'
  OBVIOUS
<1>1. /\ \A t \in Threads : call[t] = Idle
      /\ file' = file \o MAGIC_END
      /\ logged' = IF whole THEN Append(logged, Mark(MAGIC_END)) ELSE logged
      /\ Ended /\ UNCHANGED <<buffer, complete, whole, split>>
  BY DEF End
<1>2. \A t \in Threads : call'[t] = Idle
  BY <1>1 DEF Ended
<1>3. file' \in Seq(Byte) /\ logged' \in Seq(Items) /\ ReadInv'
  BY <1>1, <1>2, MarkStep
<1>4. buffer = <<>> /\ complete = <<>> /\ (whole => ~split)
  BY <1>1, NoneLogs DEF LogInv
<1>5. LogTypes' /\ ThreadsInv'
  <2>1. buffer' = <<>> /\ complete' = <<>> /\ (whole' => ~split')
    BY <1>1, <1>4
  <2>2. split' \in BOOLEAN /\ whole' \in BOOLEAN
    BY <1>1 DEF LogInv, LogTypes
  <2>3. Cardinality(writers) = 1 => whole' /\ ~split'
    BY <1>1 DEF LogInv, ThreadsInv
  <2> QED
    BY <1>1, <1>3, <2>1, <2>2, <2>3, EndedThreads
<1> QED
  BY <1>3, <1>5 DEF LogInv

LEMMA OnlyWriter ==
  ASSUME LogInv, Cardinality(writers) = 1
  PROVE  \A t, u \in writers : t = u
<1>1. IsFiniteSet(writers)
  BY LogAssumption, FS_Subset DEF LogInv, LogTypes
<1>2. \E x : writers = {x}
  BY <1>1, FS_Singleton
<1> QED
  BY <1>2

LEMMA KillStep == LogInv /\ Kill => LogInv'
<1> SUFFICES ASSUME LogInv, Kill PROVE LogInv'
  OBVIOUS
<1>1. /\ Ended /\ buffer' = <<>> /\ complete' = <<>>
      /\ whole' = (whole /\ ~split) /\ split' = FALSE
      /\ file' = file /\ logged' = logged
  BY DEF Kill
<1>2. file' \in Seq(Byte) /\ logged' \in Seq(Items) /\ split' \in BOOLEAN /\ whole' \in BOOLEAN
  BY <1>1 DEF LogInv, LogTypes
<1>3. Cardinality(writers) = 1 => whole' /\ ~split'
  BY <1>1 DEF LogInv, ThreadsInv
<1>4. LogTypes' /\ ThreadsInv' /\ \A t \in Threads : call'[t] = Idle
  BY <1>1, <1>2, <1>3, EndedThreads
<1>5. PICK m, q \in Positions : Arrives(m, q)
  BY DEF LogInv, ReadInv
<1>6. Reads(file, 1, logged, m) /\ (whole => (~split => m = Len(file) + 1))
  BY <1>5 DEF Arrives
<1>7. whole' => m = Len(file') + 1
  BY <1>1, <1>6
<1>8. Reads(file', 1, logged', m)
  BY <1>1, <1>6
<1>9. ReadInv'
  BY <1>1, <1>2, <1>4, <1>7, <1>8, AtRest
<1> QED
  BY <1>4, <1>9 DEF LogInv

\* What Flushed writes, and where reading it arrives.
LEMMA FlushedRead ==
  ASSUME LogInv, Flushed, NEW m \in Positions, NEW q \in Positions, Arrives(m, q)
  PROVE  /\ file' \in Seq(Byte) /\ logged' \in Seq(Items) /\ file' = Written
         /\ Reads(file', 1, logged', q)
         /\ whole /\ ~split' => q = Len(file') + 1
<1>1. file' = Written /\ logged' = logged \o complete /\ split' = \E t \in Threads : Partial(t)
  BY DEF Flushed, Written
<1>2. /\ Reads(file, 1, logged, m) /\ Reads(Written, m, complete, q)
      /\ whole => ((\A t \in Threads : ~Partial(t)) => q = Len(Written) + 1)
  BY DEF Arrives
<1>3. Written \in Seq(Byte) /\ logged \o complete \in Seq(Items) /\ Reads(Written, 1, logged \o complete, q)
  BY <1>2, BufferFlushed DEF Written, LogInv, LogTypes
<1> QED
  BY <1>1, <1>2, <1>3

LEMMA ExitStep == LogInv /\ Exit => LogInv'
<1> SUFFICES ASSUME LogInv, Exit PROVE LogInv'
  OBVIOUS
<1>1. /\ Ended /\ Flushed /\ buffer' = <<>> /\ complete' = <<>>
      /\ split' = \E t \in Threads : Partial(t)
      /\ whole' = (whole /\ \A t \in Threads : ~Partial(t))
  BY DEF Exit, Flushed
<1>2. PICK m, q \in Positions : Arrives(m, q)
  BY DEF LogInv, ReadInv
<1>3. /\ file' \in Seq(Byte) /\ logged' \in Seq(Items)
      /\ Reads(file', 1, logged', q)
      /\ (whole /\ ~split' => q = Len(file') + 1)
  BY <1>1, <1>2, FlushedRead
<1>4. split' \in BOOLEAN /\ whole' \in BOOLEAN /\ (whole' => whole /\ ~split')
  BY <1>1 DEF LogInv, LogTypes
<1>5. Cardinality(writers) = 1 => whole' /\ ~split'
  <2> SUFFICES ASSUME Cardinality(writers) = 1 PROVE whole' /\ ~split'
    OBVIOUS
  <2>1. PICK t \in writers : call[t] = Idle
    BY DEF Exit
  <2>2. \A u \in Threads : call[u] = Idle
    BY <2>1, OnlyWriter DEF LogInv, ThreadsInv
  <2>3. \A u \in Threads : ~Partial(u)
    BY <2>2 DEF Partial
  <2>4. whole
    BY DEF LogInv, ThreadsInv
  <2> QED
    BY <1>1, <2>3, <2>4
<1>6. LogTypes' /\ ThreadsInv' /\ \A t \in Threads : call'[t] = Idle
  BY <1>1, <1>3, <1>4, <1>5, EndedThreads
<1>7. whole' => q = Len(file') + 1
  BY <1>3, <1>4
<1>8. ReadInv'
  BY <1>1, <1>3, <1>6, <1>7, AtRest
<1> QED
  BY <1>6, <1>8 DEF LogInv

LEMMA FlushStep == \A t \in writers : LogInv /\ Flush(t) => LogInv'
<1> SUFFICES ASSUME NEW t \in writers, LogInv, Flush(t) PROVE LogInv'
  OBVIOUS
<1>1. /\ call[t] # Idle /\ todo[t] = <<>> /\ call' = [call EXCEPT ![t] = Idle]
      /\ Flushed /\ buffer' = <<>> /\ complete' = <<>>
      /\ split' = \E u \in Threads : Partial(u)
      /\ open' = open /\ writers' = writers /\ todo' = todo /\ whole' = whole
  BY DEF Flush, Flushed
<1>2. LogTypes /\ ThreadsInv /\ t \in Threads /\ writers \subseteq Threads
  BY DEF LogInv, LogTypes
<1>3. PICK m, q \in Positions : Arrives(m, q)
  BY DEF LogInv, ReadInv
<1>4. /\ file' \in Seq(Byte) /\ logged' \in Seq(Items) /\ file' = Written
      /\ Reads(file', 1, logged', q)
      /\ (whole /\ ~split' => q = Len(file') + 1)
  BY <1>1, <1>3, FlushedRead
<1>5. \A u \in Threads : call'[u] = IF u = t THEN Idle ELSE call[u]
  BY <1>1, <1>2 DEF LogTypes
<1>6. ~Partial(t) /\ \A u \in Threads : Partial(u)' <=> Partial(u)
  <2>1. ~Partial(t) /\ ~Partial(t)'
    BY <1>1, <1>2, <1>5 DEF Partial
  <2>2. \A u \in Threads \ {t} : Partial(u)' <=> Partial(u)
    BY <1>1, <1>5 DEF Partial
  <2> QED
    BY <2>1, <2>2
<1>7. LogTypes'
  <2>1. call' \in [Threads -> Entries \cup {Idle}]
    BY <1>1, <1>2 DEF LogTypes
  <2>2. buffer' \in Seq(Byte) /\ complete' \in Seq(Items) /\ split' \in BOOLEAN
    BY <1>1, EmptySeq
  <2> QED
    BY <1>1, <1>2, <1>4, <2>1, <2>2 DEF LogTypes
<1>8. ThreadsInv'
  <2>1. \A u \in Threads : call'[u] # Idle =>
          /\ u \in writers'
          /\ \E i \in 1 .. Len(Pieces(call'[u])) + 1 : todo'[u] = Rest(call'[u], i)
    <3> TAKE u \in Threads
    <3> HAVE call'[u] # Idle
    <3>1. u # t /\ call'[u] = call[u]
      BY <1>5
    <3> QED
      BY <1>1, <1>2, <3>1 DEF ThreadsInv
  <2>2. ~open' => \A u \in Threads : call'[u] = Idle
    BY <1>1, <1>2, <1>5 DEF ThreadsInv
  <2>3. whole' => \A u, v \in Threads : Partial(u)' /\ Partial(v)' => u = v
    BY <1>1, <1>2, <1>6 DEF ThreadsInv
  <2>4. whole' /\ split' => \E u \in Threads : call'[u] # Idle
    <3> SUFFICES ASSUME split' PROVE \E u \in Threads : call'[u] # Idle
      OBVIOUS
    <3>1. PICK u \in Threads : Partial(u)
      BY <1>1
    <3>2. Partial(u)'
      BY <1>6, <3>1
    <3> QED
      BY <3>2 DEF Partial
  <2>5. Cardinality(writers') = 1 => whole' /\ ~split'
    <3> SUFFICES ASSUME Cardinality(writers) = 1 PROVE whole' /\ ~split'
      BY <1>1
    <3>1. \A u \in Threads : Partial(u) => u = t
      BY <1>2, OnlyWriter DEF ThreadsInv, Partial
    <3>2. ~split'
      BY <1>1, <1>6, <3>1
    <3> QED
      BY <1>1, <1>2, <3>2 DEF ThreadsInv
  <2> QED
    BY <1>1, <2>1, <2>2, <2>3, <2>4, <2>5 DEF ThreadsInv
<1>9. ReadInv'
  <2>1. Written' = file'
    BY <1>1, <1>4, ConcatEmptySeq DEF Written
  <2>2. Reads(Written', q, complete', q)
    BY <1>1, ReadsNone
  <2>3. whole' => (~split' => q = Len(file') + 1)
    BY <1>1, <1>4
  <2>4. whole' => ((\A u \in Threads : ~Partial(u)') => q = Len(Written') + 1)
    BY <1>1, <1>4, <1>6, <2>1
  <2>5. whole' => \A u \in Threads : \A i \in 2 .. Len(Pieces(call'[u])) :
          call'[u] # Idle /\ todo'[u] = Rest(call'[u], i) =>
            Len(Written') = (q - 1) + (i - 1) /\ Holds(Written', q, Code(call'[u]), i - 1)
    <3> SUFFICES ASSUME whole', NEW u \in Threads, NEW i \in 2 .. Len(Pieces(call'[u])),
                        call'[u] # Idle, todo'[u] = Rest(call'[u], i)
                 PROVE  Len(Written') = (q - 1) + (i - 1) /\ Holds(Written', q, Code(call'[u]), i - 1)
      OBVIOUS
    <3>1. call'[u] = call[u]
      BY <1>5
    <3>2. whole /\ todo[u] = Rest(call[u], i) /\ call[u] # Idle /\ i \in 2 .. Len(Pieces(call[u]))
      BY <1>1, <3>1
    <3>3. Len(Written) = (q - 1) + (i - 1) /\ Holds(Written, q, Code(call[u]), i - 1)
      BY <1>3, <3>2 DEF Arrives
    <3> QED
      BY <1>4, <2>1, <3>1, <3>3
  <2>6. Arrives(q, q)'
    BY <1>4, <2>2, <2>3, <2>4, <2>5 DEF Arrives
  <2> QED
    BY <2>6 DEF ReadInv
<1> QED
  BY <1>7, <1>8, <1>9 DEF LogInv

LEMMA CallStep == \A t \in writers : LogInv /\ Call(t) => LogInv'
<1> SUFFICES ASSUME NEW t \in writers, LogInv, Call(t) PROVE LogInv'
  OBVIOUS
<1>1. PICK e \in Entries : /\ call' = [call EXCEPT ![t] = e]
                           /\ todo' = [todo EXCEPT ![t] = Pieces(e)]
  BY DEF Call
<1>2. /\ open /\ call[t] = Idle
      /\ UNCHANGED <<file, buffer, open, writers, complete, logged, whole, split>>
  BY DEF Call
<1>3. LogTypes /\ ThreadsInv /\ t \in Threads
  BY DEF LogInv, LogTypes
<1>4. PICK m, q \in Positions : Arrives(m, q)
  BY DEF LogInv, ReadInv
<1>5. \A u \in Threads : /\ call'[u] = IF u = t THEN e ELSE call[u]
                         /\ todo'[u] = IF u = t THEN Pieces(e) ELSE todo[u]
  BY <1>1, <1>3 DEF LogTypes
<1>6. /\ Pieces(e) \in Seq(Seq(Byte)) /\ Pieces(e) = Rest(e, 1) /\ e # Idle
      /\ 1 \in 1 .. Len(Pieces(e)) + 1
  <2>1. Pieces(e) \in Seq(Seq(Byte))
    BY PiecesShape
  <2>2. 1 \in 1 .. Len(Pieces(e)) + 1
    <3>1. Len(Pieces(e)) \in Nat
      BY <2>1, LenProperties
    <3> QED
      BY <3>1
  <2> QED
    BY <2>1, <2>2, RestFacts, IdleIsNone
<1>7. \A u \in Threads : Partial(u)' <=> Partial(u)
  <2>1. ~Partial(t) /\ ~Partial(t)'
    BY <1>2, <1>3, <1>5 DEF Partial
  <2>2. \A u \in Threads \ {t} : Partial(u)' <=> Partial(u)
    BY <1>5 DEF Partial
  <2> QED
    BY <2>1, <2>2
<1>8. LogTypes'
  <2>1. call' \in [Threads -> Entries \cup {Idle}] /\ todo' \in [Threads -> Seq(Seq(Byte))]
    BY <1>1, <1>3, <1>6 DEF LogTypes
  <2> QED
    BY <1>2, <1>3, <2>1 DEF LogTypes
<1>9. ThreadsInv'
  <2>1. \A u \in Threads : call'[u] # Idle =>
          /\ u \in writers'
          /\ \E i \in 1 .. Len(Pieces(call'[u])) + 1 : todo'[u] = Rest(call'[u], i)
    <3> TAKE u \in Threads
    <3> HAVE call'[u] # Idle
    <3>1. CASE u = t
      BY <1>2, <1>5, <1>6, <3>1
    <3>2. CASE u # t
      <4>1. call'[u] = call[u] /\ todo'[u] = todo[u] /\ call[u] # Idle
        BY <1>5, <3>2
      <4> QED
        BY <1>2, <1>3, <4>1 DEF ThreadsInv
    <3> QED
      BY <3>1, <3>2
  <2>2. open' /\ call'[t] # Idle
    BY <1>2, <1>3, <1>5, <1>6
  <2>3. whole' => \A u, v \in Threads : Partial(u)' /\ Partial(v)' => u = v
    BY <1>2, <1>3, <1>7 DEF ThreadsInv
  <2>4. Cardinality(writers') = 1 => whole' /\ ~split'
    BY <1>2, <1>3 DEF ThreadsInv
  <2> QED
    BY <1>3, <2>1, <2>2, <2>3, <2>4 DEF ThreadsInv
<1>10. ReadInv'
  <2>1. Written' = Written
    BY <1>2 DEF Written
  <2>2. Reads(file', 1, logged', m) /\ Reads(Written', m, complete', q)
    BY <1>2, <1>4, <2>1 DEF Arrives
  <2>3. whole' => (~split' => m = Len(file') + 1)
    BY <1>2, <1>4 DEF Arrives
  <2>4. whole' => ((\A u \in Threads : ~Partial(u)') => q = Len(Written') + 1)
    BY <1>2, <1>4, <1>7, <2>1 DEF Arrives
  <2>5. whole' => \A u \in Threads : \A i \in 2 .. Len(Pieces(call'[u])) :
          call'[u] # Idle /\ todo'[u] = Rest(call'[u], i) =>
            Len(Written') = (q - 1) + (i - 1) /\ Holds(Written', q, Code(call'[u]), i - 1)
    <3> SUFFICES ASSUME whole', NEW u \in Threads, NEW i \in 2 .. Len(Pieces(call'[u])),
                        call'[u] # Idle, todo'[u] = Rest(call'[u], i)
                 PROVE  Len(Written') = (q - 1) + (i - 1) /\ Holds(Written', q, Code(call'[u]), i - 1)
      OBVIOUS
    <3>1. u # t
      <4> SUFFICES ASSUME u = t PROVE FALSE
        OBVIOUS
      <4>1. i \in 2 .. Len(Pieces(e)) /\ Pieces(e) = Rest(e, i)
        BY <1>5
      <4>2. i \in 1 .. Len(Pieces(e)) + 1
        <5>1. Len(Pieces(e)) \in Nat
          BY <1>6, LenProperties
        <5> QED
          BY <4>1, <5>1
      <4>3. i = 1
        BY <4>1, <4>2, RestFacts
      <4> QED
        BY <4>1, <4>3
    <3>2. call'[u] = call[u] /\ todo'[u] = todo[u]
      BY <1>5, <3>1
    <3>3. whole /\ todo[u] = Rest(call[u], i) /\ call[u] # Idle /\ i \in 2 .. Len(Pieces(call[u]))
      BY <1>2, <3>2
    <3>4. Len(Written) = (q - 1) + (i - 1) /\ Holds(Written, q, Code(call[u]), i - 1)
      BY <1>4, <3>3 DEF Arrives
    <3> QED
      BY <2>1, <3>2, <3>4
  <2>6. Arrives(m, q)'
    BY <2>2, <2>3, <2>4, <2>5 DEF Arrives
  <2> QED
    BY <2>6 DEF ReadInv
<1> QED
  BY <1>8, <1>9, <1>10 DEF LogInv

LEMMA WriteStep == \A t \in writers : LogInv /\ Write(t) => LogInv'
<1> SUFFICES ASSUME NEW t \in writers, LogInv, Write(t) PROVE LogInv'
  OBVIOUS
<1> DEFINE e == call[t]
           n == Len(Pieces(e))
<1>1. /\ e # Idle /\ todo[t] # <<>>
      /\ buffer' = buffer \o Head(todo[t]) /\ todo' = [todo EXCEPT ![t] = Tail(@)]
      /\ whole' = (whole /\ \A u \in Threads \ {t} : ~Partial(u))
      /\ complete' = IF whole' /\ Len(todo[t]) = 1 THEN Append(complete, e) ELSE complete
      /\ UNCHANGED <<file, open, writers, call, logged, split>>
  BY DEF Write
<1>2. LogTypes /\ ThreadsInv /\ t \in Threads
  BY DEF LogInv, LogTypes
<1>3. PICK m, q \in Positions : Arrives(m, q)
  BY DEF LogInv, ReadInv
<1>4. e \in Entries /\ e \in Items
  BY <1>1, <1>2 DEF LogTypes, Items
<1>5. PICK i \in 1 .. n + 1 : todo[t] = Rest(e, i)
  BY <1>1, <1>2 DEF ThreadsInv
<1> HIDE DEF e
<1>6. /\ n \in Nat \ {0} /\ i \in 1 .. n
      /\ Len(todo[t]) = (n + 1) - i
      /\ Head(todo[t]) = Pieces(e)[i] /\ Tail(todo[t]) = Rest(e, i + 1)
      /\ i + 1 \in 1 .. n + 1 /\ Rest(e, i + 1) \in Seq(Seq(Byte))
  <2>1. n \in Nat \ {0} /\ Len(Rest(e, i)) = (n + 1) - i /\ (Rest(e, i) = <<>> <=> i = n + 1)
    BY <1>4, RestFacts
  <2>2. i # n + 1 /\ i \in 1 .. n + 1
    BY <1>1, <1>5, <2>1
  <2>3. i \in 1 .. n /\ i <= n /\ i + 1 \in 1 .. n + 1
    <3> HIDE DEF n
    <3> QED
      BY <2>1, <2>2
  <2>4. Head(Rest(e, i)) = Pieces(e)[i] /\ Tail(Rest(e, i)) = Rest(e, i + 1)
    BY <1>4, <2>3, RestFacts
  <2>5. Rest(e, i + 1) \in Seq(Seq(Byte))
    BY <1>4, <2>3, RestFacts
  <2> QED
    BY <1>5, <2>1, <2>3, <2>4, <2>5
<1> DEFINE y == Pieces(e)[i]
<1>7. y \in Seq(Byte)
  BY <1>4, <1>6, PieceOfCode
<1>8. \A u \in Threads : todo'[u] = IF u = t THEN Rest(e, i + 1) ELSE todo[u]
  BY <1>1, <1>2, <1>6 DEF LogTypes
<1>9. \A u \in Threads \ {t} : Partial(u)' <=> Partial(u)
  BY <1>1, <1>8 DEF Partial
<1>10. LogTypes'
  <2>1. todo' \in [Threads -> Seq(Seq(Byte))]
    BY <1>1, <1>2, <1>6 DEF LogTypes
  <2>2. buffer' \in Seq(Byte)
    <3>1. buffer' = buffer \o y /\ buffer \in Seq(Byte)
      BY <1>1, <1>2, <1>6 DEF LogTypes
    <3> HIDE DEF y
    <3> QED
      BY <1>7, <3>1, ConcatProperties
  <2>3. complete' \in Seq(Items)
    <3>1. complete \in Seq(Items)
      BY <1>2 DEF LogTypes
    <3>2. Append(complete, e) \in Seq(Items)
      BY <1>4, <3>1, AppendProperties
    <3> QED
      BY <1>1, <3>1, <3>2
  <2>4. whole' \in BOOLEAN
    BY <1>1, <1>2 DEF LogTypes
  <2> QED
    BY <1>1, <1>2, <2>1, <2>2, <2>3, <2>4 DEF LogTypes
<1>11. ThreadsInv'
  <2>1. \A u \in Threads : call'[u] # Idle =>
          /\ u \in writers'
          /\ \E j \in 1 .. Len(Pieces(call'[u])) + 1 : todo'[u] = Rest(call'[u], j)
    <3> TAKE u \in Threads
    <3> HAVE call'[u] # Idle
    <3>1. CASE u = t
      BY <1>1, <1>6, <1>8, <3>1 DEF e
    <3>2. CASE u # t
      <4>1. call'[u] = call[u] /\ todo'[u] = todo[u] /\ call[u] # Idle
        BY <1>1, <1>8, <3>2
      <4> QED
        BY <1>1, <1>2, <4>1 DEF ThreadsInv
    <3> QED
      BY <3>1, <3>2
  <2>2. open' /\ call'[t] # Idle
    BY <1>1, <1>2 DEF ThreadsInv, LogTypes, e
  <2>3. whole' => \A u, v \in Threads : Partial(u)' /\ Partial(v)' => u = v
    <3> SUFFICES ASSUME whole', NEW u \in Threads, NEW v \in Threads, Partial(u)', Partial(v)'
                 PROVE  u = v
      OBVIOUS
    <3>1. \A w \in Threads \ {t} : ~Partial(w)'
      BY <1>1, <1>9
    <3> QED
      BY <3>1
  <2>4. Cardinality(writers') = 1 => whole' /\ ~split'
    <3> SUFFICES ASSUME Cardinality(writers) = 1 PROVE whole' /\ ~split'
      BY <1>1
    <3>1. \A u \in Threads : Partial(u) => u = t
      BY <1>2, OnlyWriter DEF ThreadsInv, Partial
    <3>2. whole /\ ~split
      BY <1>2 DEF ThreadsInv
    <3>3. whole'
      BY <1>1, <3>1, <3>2
    <3> QED
      BY <1>1, <3>2, <3>3
  <2> QED
    BY <1>2, <2>1, <2>2, <2>3, <2>4 DEF ThreadsInv
<1>12. Written \in Seq(Byte) /\ Written' = Written \o y
  <2>1. file \in Seq(Byte) /\ buffer \in Seq(Byte) /\ file' = file /\ buffer' = buffer \o y
    BY <1>1, <1>2, <1>6 DEF LogTypes
  <2> HIDE DEF y
  <2>2. file \o (buffer \o y) = (file \o buffer) \o y
    <3>1. \A u, v, w \in Seq(Byte) : (u \o v) \o w = u \o (v \o w)
      BY ConcatAssociative, SMT
    <3> QED
      BY <1>7, <2>1, <3>1
  <2>3. file \o buffer \in Seq(Byte)
    BY <2>1, ConcatProperties
  <2> QED
    BY <2>1, <2>2, <2>3 DEF Written
<1>13. /\ Reads(file', 1, logged', m)
       /\ Reads(Written, m, complete, q)
       /\ whole => (~split => m = Len(file) + 1)
  BY <1>1, <1>3 DEF Arrives
<1>14. Reads(Written', m, complete, q)
  <2>1. complete \in Seq(Items)
    BY <1>2 DEF LogTypes
  <2> HIDE DEF y
  <2>2. Reads(Written \o y, m, complete, q)
    BY <1>7, <1>12, <1>13, <2>1, ReadsMore
  <2> QED
    BY <1>12, <2>2
<1>15. ReadInv'
  <2>1. CASE ~whole'
    <3>1. complete' = complete
      BY <1>1, <2>1
    <3>2. Arrives(m, q)'
      BY <1>13, <1>14, <2>1, <3>1 DEF Arrives
    <3> QED
      BY <3>2 DEF ReadInv
  <2>2. CASE whole'
    <3>1. whole /\ \A u \in Threads \ {t} : ~Partial(u) /\ ~Partial(u)'
      BY <1>1, <1>9, <2>2
    <3>2. Len(Written) = (q - 1) + (i - 1) /\ Holds(Written, q, Code(e), i - 1)
      <4>1. i \in 1 .. Len(Pieces(call[t])) /\ todo[t] = Rest(call[t], i) /\ call[t] # Idle
        BY <1>1, <1>5, <1>6 DEF e
      <4>2. Len(Written) = (q - 1) + (i - 1) /\ Holds(Written, q, Code(call[t]), i - 1)
        BY <1>2, <1>3, <3>1, <4>1, NextPiece
      <4> QED
        BY <4>2 DEF e
    <3>3. /\ i < n => Len(Written') = (q - 1) + i /\ Holds(Written', q, Code(e), i)
          /\ i = n => /\ Len(Written') + 1 = q + Len(Code(e))
                      /\ Holds(Written', q, Code(e), Len(Code(e)))
      BY <1>4, <1>6, <1>12, <3>2, PieceWritten
    <3>4. whole' => (~split' => m = Len(file') + 1)
      BY <1>1, <1>13, <3>1
    \* No other thread has begun an entry.
    <3>5. \A u \in Threads \ {t} : \A j \in 2 .. Len(Pieces(call'[u])) :
            ~(call'[u] # Idle /\ todo'[u] = Rest(call'[u], j))
      <4> SUFFICES ASSUME NEW u \in Threads \ {t}, NEW j \in 2 .. Len(Pieces(call'[u])),
                          call'[u] # Idle, todo'[u] = Rest(call'[u], j)
                   PROVE  FALSE
        OBVIOUS
      <4>1. /\ call[u] # Idle /\ todo[u] = Rest(call[u], j) /\ j \in 2 .. Len(Pieces(call[u]))
            /\ call[u] \in Entries
        BY <1>1, <1>2, <1>8 DEF LogTypes
      <4>2. j \in 1 .. Len(Pieces(call[u])) + 1
        <5>1. Len(Pieces(call[u])) \in Nat
          BY <4>1, PiecesShape, LenProperties
        <5> QED
          BY <4>1, <5>1
      <4>3. Partial(u)
        BY <1>2, <4>1, <4>2, PartialIs
      <4> QED
        BY <3>1, <4>3
    \* This thread has written i pieces of its entry.
    <3>6. \A j \in 2 .. n : todo'[t] = Rest(e, j) => j = i + 1
      <4> TAKE j \in 2 .. n
      <4> HAVE todo'[t] = Rest(e, j)
      <4>1. Rest(e, i + 1) = Rest(e, j)
        BY <1>2, <1>8
      <4>2. j \in 1 .. n + 1
        <5> HIDE DEF n
        <5> QED
          BY <1>6
      <4>3. Len(Rest(e, j)) = (n + 1) - j /\ Len(Rest(e, i + 1)) = (n + 1) - (i + 1)
        BY <1>4, <1>6, <4>2, RestFacts
      <4> HIDE DEF n
      <4>4. (n + 1) - j = (n + 1) - (i + 1)
        BY <4>1, <4>3
      <4> QED
        BY <1>6, <4>4
    <3>7. CASE i < n
      <4>1. complete' = complete
        <5>1. (n + 1) - i # 1
          <6> HIDE DEF n
          <6> QED
            BY <1>6, <3>7
        <5> QED
          BY <1>1, <1>6, <5>1
      <4>2. ~ \A u \in Threads : ~Partial(u)'
        <5>1. i + 1 # n + 1 /\ i + 1 # 1
          <6> HIDE DEF n
          <6> QED
            BY <1>6, <3>7
        <5>2. Rest(e, i + 1) # <<>> /\ Rest(e, i + 1) # Pieces(e)
          BY <1>4, <1>6, <5>1, RestFacts
        <5>3. call'[t] = e /\ todo'[t] = Rest(e, i + 1)
          BY <1>1, <1>2, <1>8 DEF e
        <5>4. Partial(t)'
          BY <1>1, <5>2, <5>3 DEF Partial
        <5> QED
          BY <1>2, <5>4
      <4>3. \A u \in Threads : \A j \in 2 .. Len(Pieces(call'[u])) :
              call'[u] # Idle /\ todo'[u] = Rest(call'[u], j) =>
                Len(Written') = (q - 1) + (j - 1) /\ Holds(Written', q, Code(call'[u]), j - 1)
        <5> SUFFICES ASSUME NEW u \in Threads, NEW j \in 2 .. Len(Pieces(call'[u])),
                            call'[u] # Idle, todo'[u] = Rest(call'[u], j)
                     PROVE  Len(Written') = (q - 1) + (j - 1) /\ Holds(Written', q, Code(call'[u]), j - 1)
          OBVIOUS
        <5>1. u = t
          BY <3>5
        <5>2. call'[u] = e
          BY <1>1, <5>1 DEF e
        <5>3. j = i + 1
          BY <3>6, <5>1, <5>2
        <5>4. j - 1 = i
          BY <1>6, <5>3
        <5> QED
          BY <3>3, <3>7, <5>2, <5>4
      <4>4. Arrives(m, q)'
        BY <1>13, <1>14, <3>4, <4>1, <4>2, <4>3 DEF Arrives
      <4> QED
        BY <4>4 DEF ReadInv
    <3>8. CASE i = n
      <4>1. complete' = complete \o <<e>> /\ complete \in Seq(Items)
        <5>1. (n + 1) - i = 1
          <6> HIDE DEF n
          <6> QED
            BY <1>6, <3>8
        <5>2. complete' = Append(complete, e)
          BY <1>1, <1>6, <2>2, <5>1
        <5> QED
          BY <1>2, <1>4, <5>2, AppendIsConcat DEF LogTypes
      <4>2. PICK r \in Positions : r = q + Len(Code(e))
        <5> DEFINE w == Len(Code(e))
        <5>1. w \in Nat
          BY <1>4, Codes
        <5> HIDE DEF w
        <5>2. q + w \in Positions
          BY <5>1 DEF Positions
        <5> QED
          BY <5>2 DEF w
      <4>3. Reads(Written', q, <<e>>, r)
        BY <1>4, <3>3, <3>8, <4>2, ReadsOne
      <4>4. Reads(Written', m, complete', r)
        <5>1. <<e>> \in Seq(Items)
          BY <1>4
        <5> QED
          BY <1>14, <4>1, <4>3, <5>1, ReadsJoin
      <4>5. r = Len(Written') + 1
        BY <3>3, <3>8, <4>2
      <4>6. \A u \in Threads : \A j \in 2 .. Len(Pieces(call'[u])) :
              ~(call'[u] # Idle /\ todo'[u] = Rest(call'[u], j))
        <5> SUFFICES ASSUME NEW u \in Threads, NEW j \in 2 .. Len(Pieces(call'[u])),
                            call'[u] # Idle, todo'[u] = Rest(call'[u], j)
                     PROVE  FALSE
          OBVIOUS
        <5>1. u = t
          BY <3>5
        <5>2. call'[u] = e
          BY <1>1, <5>1 DEF e
        <5>3. j = i + 1 /\ j \in 2 .. n
          BY <3>6, <5>1, <5>2
        <5> HIDE DEF n
        <5> QED
          BY <1>6, <3>8, <5>3
      <4>7. Arrives(m, r)'
        BY <1>13, <3>4, <4>4, <4>5, <4>6 DEF Arrives
      <4> QED
        BY <4>2, <4>7 DEF ReadInv
    <3>9. i < n \/ i = n
      <4> HIDE DEF n
      <4> QED
        BY <1>6
    <3> QED
      BY <3>7, <3>8, <3>9
  <2> QED
    BY <2>1, <2>2
<1> QED
  BY <1>10, <1>11, <1>15 DEF LogInv

LEMMA LogStep == LogInv /\ [Next]_vars => LogInv'
<1> SUFFICES ASSUME LogInv, [Next]_vars PROVE LogInv'
  OBVIOUS
<1>1. CASE Begin
  BY <1>1, BeginStep
<1>2. CASE End
  BY <1>2, EndStep
<1>3. CASE Exit
  BY <1>3, ExitStep
<1>4. CASE Kill
  BY <1>4, KillStep
<1>5. ASSUME NEW t \in writers, Call(t) PROVE LogInv'
  BY <1>5, CallStep
<1>6. ASSUME NEW t \in writers, Write(t) PROVE LogInv'
  BY <1>6, WriteStep
<1>7. ASSUME NEW t \in writers, Flush(t) PROVE LogInv'
  BY <1>7, FlushStep
<1>8. CASE UNCHANGED vars
  <2>1. UNCHANGED <<file, buffer, open, writers, call, todo, complete, logged, whole, split>>
    BY <1>8 DEF vars
  <2>2. LogTypes'
    BY <2>1 DEF LogInv, LogTypes
  <2>3. ThreadsInv'
    BY <2>1 DEF LogInv, ThreadsInv, Partial
  <2>4. PICK m, q \in Positions : Arrives(m, q)
    BY DEF LogInv, ReadInv
  <2>5. Arrives(m, q)'
    BY <2>1, <2>4 DEF Arrives, Written, Partial
  <2>6. ReadInv'
    BY <2>5 DEF ReadInv
  <2> QED
    BY <2>2, <2>3, <2>6 DEF LogInv
<1> QED
  BY <1>1, <1>2, <1>3, <1>4, <1>5, <1>6, <1>7, <1>8 DEF Next

LEMMA LogInvReads == LogInv => ReadsBack
<1> SUFFICES ASSUME LogInv PROVE ReadsBack
  OBVIOUS
<1>1. PICK m, q \in Positions : Arrives(m, q)
  BY DEF LogInv, ReadInv
<1>2. Reads(file, 1, logged, m) /\ (whole => (~split => m = Len(file) + 1))
  BY <1>1 DEF Arrives
<1>3. file \in Seq(Byte) /\ logged \in Seq(Items)
  BY DEF LogInv, LogTypes
<1>4. IsPrefix(logged, Decoded(file)) /\ (m = Len(file) + 1 => Decoded(file) = logged)
  BY <1>2, <1>3, ReadsDecoded
<1>5. Cardinality(writers) = 1 => whole
  BY DEF LogInv, ThreadsInv
<1> QED
  BY <1>2, <1>4, <1>5 DEF ReadsBack

\* Whatever the threads log and however the runs of the program end, all
\* that was logged before the first torn entry is read back, nothing else
\* is read while none is torn, and a program with one logging thread never
\* tears one (_log.c, log_decode.c).
THEOREM LogReadsBack == Spec => []ReadsBack
<1>1. Init => LogInv
  BY LogInit
<1>2. LogInv /\ [Next]_vars => LogInv'
  BY LogStep
<1>3. LogInv => ReadsBack
  BY LogInvReads
<1> QED
  BY <1>1, <1>2, <1>3, PTL DEF Spec
=============================================================================
