--------------------------- MODULE CanardRxProofs ---------------------------
(***************************************************************************)
(* Theorems about CanardRx, for any number of transfer-IDs, transfers and  *)
(* sizes and any extent: no buffer is lost but those of empty transfers,   *)
(* and no transfer is handed over twice or late; and as long as fewer      *)
(* transfers in a row are lost than there are transfer-IDs, what is handed *)
(* over is whole, and what arrives undisturbed is handed over.             *)
(***************************************************************************)
EXTENDS CanardRx, SequenceTheorems, FiniteSetTheorems, TLAPS

-----------------------------------------------------------------------------
(***************************************************************************)
(* Remainders.                                                             *)
(***************************************************************************)

\* division with remainder
LEMMA Division ==
  ASSUME NEW m \in Nat \ {0}, NEW a \in Int
  PROVE  \E q \in Int, r \in 0..m - 1 : a % m = r /\ a = q * m + r
<1>1. a \div m \in Int
  BY SMT
<1>2. a = (a \div m) * m + (a % m)
  BY SMT
<1>3. a % m \in 0..m - 1
  BY SMT
<1> QED
  BY <1>1, <1>2, <1>3

\* the remainder is the only one
LEMMA Remainder ==
  ASSUME NEW m \in Nat \ {0}, NEW a \in Int, NEW q \in Int, NEW r \in 0..m - 1, a = q * m + r
  PROVE  a % m = r
<1>1. (q * m + r) % m = r
  BY SMT
<1> QED
  BY <1>1

\* numbers less than m apart with one remainder are the same
LEMMA SameRemainder ==
  ASSUME NEW m \in Nat \ {0}, NEW a \in Int, NEW b \in Int,
         a % m = b % m, a < b + m, b < a + m
  PROVE  a = b
<1>1. PICK q \in Int, r \in 0..m - 1 : a % m = r /\ a = q * m + r
  BY Division
<1>2. PICK p \in Int, s \in 0..m - 1 : b % m = s /\ b = p * m + s
  BY Division
<1>3. a - b = (q - p) * m
  BY <1>1, <1>2
<1>4. q - p = 0
  BY <1>3, SMTT(20)
<1> QED
  BY <1>3, <1>4

\* a number below m is its own remainder, and a negative one above -m is m short of it
LEMMA SmallRemainder ==
  ASSUME NEW m \in Nat \ {0}, NEW a \in Int, -m < a, a < m
  PROVE  a % m = IF a >= 0 THEN a ELSE a + m
<1>1. CASE a >= 0
  <2>1. a = 0 * m + a /\ a \in 0..m - 1
    BY <1>1
  <2> QED
    BY <1>1, <2>1, Remainder
<1>2. CASE a < 0
  <2>1. a = (-1) * m + (a + m) /\ a + m \in 0..m - 1
    BY <1>2
  <2>2. a % m = a + m
    BY <2>1, Remainder
  <2> QED
    BY <1>2, <2>2
<1> QED
  BY <1>1, <1>2

\* the difference of two transfer-IDs is that of the numbers they stand for
LEMMA TidDifferenceOf ==
  ASSUME NEW a \in Int, NEW b \in Int
  PROVE  TidDifference(a % TidMod, b % TidMod) = (a - b) % TidMod
<1> DEFINE m == TidMod
<1>0. m \in Nat \ {0}
  BY TidAssumption
<1> HIDE DEF m
<1>1. PICK q \in Int, x \in 0..m - 1 : a % m = x /\ a = q * m + x
  BY <1>0, Division
<1>2. PICK p \in Int, y \in 0..m - 1 : b % m = y /\ b = p * m + y
  BY <1>0, Division
<1>3. x - y \in Int
  BY <1>0
<1>4. PICK s \in Int, r \in 0..m - 1 : (x - y) % m = r /\ x - y = s * m + r
  BY <1>0, <1>3, Division
<1>5. a - b = (s + q - p) * m + r
  BY <1>0, <1>1, <1>2, <1>4
<1>6. s + q - p \in Int /\ a - b \in Int
  OBVIOUS
<1>7. (a - b) % m = r
  BY <1>0, <1>5, <1>6, Remainder
<1> QED
  BY <1>1, <1>2, <1>4, <1>7 DEF TidDifference, m

\* the transfer-ID after that of transfer a
LEMMA NextTid ==
  ASSUME NEW a \in Int
  PROVE  ((a % TidMod) + 1) % TidMod = (a + 1) % TidMod
<1> DEFINE m == TidMod
<1>0. m \in Nat \ {0}
  BY TidAssumption
<1> HIDE DEF m
<1>1. PICK q \in Int, x \in 0..m - 1 : a % m = x /\ a = q * m + x
  BY <1>0, Division
<1>2. x + 1 \in Int /\ a + 1 \in Int
  BY <1>0
<1>3. PICK s \in Int, r \in 0..m - 1 : (x + 1) % m = r /\ x + 1 = s * m + r
  BY <1>0, <1>2, Division
<1>4. a + 1 = (s + q) * m + r /\ s + q \in Int
  BY <1>0, <1>1, <1>3
<1>5. (a + 1) % m = r
  BY <1>0, <1>2, <1>4, Remainder
<1> QED
  BY <1>1, <1>3, <1>5 DEF m

\* a transfer-ID is one of TidMod numbers
LEMMA TidInRange ==
  ASSUME NEW a \in Int
  PROVE  a % TidMod \in 0..TidMod - 1
  BY TidAssumption, Division

-----------------------------------------------------------------------------
(***************************************************************************)
(* Payloads and frames.                                                    *)
(***************************************************************************)
Unit == Nat \X Nat

LEMMA DataProperties ==
  ASSUME NEW no \in Nat, NEW size \in Nat
  PROVE  /\ Data(no, size) \in Seq(Unit)
         /\ Len(Data(no, size)) = size
         /\ \A i \in 1..size : Data(no, size)[i] = <<no, i>>
<1>1. Data(no, size) \in [1..size -> Unit]
  BY DEF Data, Unit
<1>2. Data(no, size) \in Seq(Unit)
  BY <1>1, SeqDef
<1>3. \A i \in 1..size : Data(no, size)[i] = <<no, i>>
  BY DEF Data
<1>4. Len(Data(no, size)) = size
  BY <1>1, <1>2, LenProperties
<1> QED
  BY <1>2, <1>3, <1>4

\* the data, then the CRC if the transfer has several frames
LEMMA ContentProperties ==
  ASSUME NEW no \in Nat, NEW size \in Nat
  PROVE  /\ Content(no, size) \in Seq(Unit)
         /\ Len(Content(no, size)) = IF size <= 1 THEN size ELSE size + 2
         /\ \A i \in 1..Len(Content(no, size)) :
              Content(no, size)[i] = IF i <= size THEN <<no, i>> ELSE <<no, 0>>
<1> DEFINE crc == IF size <= 1 THEN <<>> ELSE [i \in 1..CrcUnits |-> <<no, 0>>]
           data == Data(no, size)
<1>1. /\ crc \in Seq(Unit)
      /\ Len(crc) = IF size <= 1 THEN 0 ELSE 2
      /\ \A i \in 1..Len(crc) : crc[i] = <<no, 0>>
  <2>1. CASE size <= 1
    BY <2>1
  <2>2. CASE size > 1
    <3> DEFINE d == [i \in 1..2 |-> <<no, 0>>]
    <3>1. d \in [1..2 -> Unit]
      BY DEF Unit
    <3>2. d \in Seq(Unit)
      BY <3>1, SeqDef
    <3>3. Len(d) = 2
      BY <3>1, <3>2, LenProperties
    <3>4. crc = d
      BY <2>2 DEF CrcUnits
    <3> QED
      BY <2>2, <3>2, <3>3, <3>4
  <2> HIDE DEF crc
  <2>3. size <= 1 \/ size > 1
    OBVIOUS
  <2> QED
    BY <2>1, <2>2, <2>3
<1>2. /\ data \in Seq(Unit)
      /\ Len(data) = size
      /\ \A i \in 1..size : data[i] = <<no, i>>
  BY DataProperties
<1>3. Content(no, size) = data \o crc
  BY DEF Content
<1> HIDE DEF data, crc
<1>4. /\ data \o crc \in Seq(Unit)
      /\ Len(data \o crc) = Len(data) + Len(crc)
      /\ \A i \in 1..Len(data) + Len(crc) :
           (data \o crc)[i] = IF i <= Len(data) THEN data[i] ELSE crc[i - Len(data)]
  BY <1>1, <1>2, ConcatProperties
<1>5. Len(Content(no, size)) = IF size <= 1 THEN size ELSE size + 2
  BY <1>1, <1>2, <1>3, <1>4
<1>6. ASSUME NEW i \in 1..Len(Content(no, size))
      PROVE  Content(no, size)[i] = IF i <= size THEN <<no, i>> ELSE <<no, 0>>
  <2>1. Content(no, size)[i] = IF i <= size THEN data[i] ELSE crc[i - size]
    BY <1>2, <1>3, <1>4
  <2>2. CASE i <= size
    BY <1>2, <2>1, <2>2
  <2>3. CASE i > size
    <3>1. i - size \in 1..Len(crc)
      BY <1>1, <1>5, <2>3
    <3>2. crc[i - size] = <<no, 0>>
      BY <1>1, <3>1
    <3>3. ~(i <= size)
      BY <1>5, <2>3
    <3> QED
      BY <2>1, <3>2, <3>3
  <2> QED
    BY <2>2, <2>3
<1> QED
  BY <1>3, <1>4, <1>5, <1>6

\* the data of a transfer in its content
LEMMA ContentData ==
  ASSUME NEW no \in Nat, NEW size \in Nat, NEW i \in 1..size
  PROVE  Content(no, size)[i] = <<no, i>>
<1>1. PICK n : n = Len(Content(no, size))
  OBVIOUS
<1>2. n = IF size <= 1 THEN size ELSE size + 2
  BY <1>1, ContentProperties
<1>3. i \in 1..n /\ i <= size
  BY <1>2
<1>4. \A j \in 1..n : Content(no, size)[j] = IF j <= size THEN <<no, j>> ELSE <<no, 0>>
  BY <1>1, ContentProperties
<1> QED
  BY <1>3, <1>4

\* the content of a transfer of several frames
LEMMA ContentLength ==
  ASSUME NEW no \in Nat, NEW size \in Nat, size >= 2
  PROVE  Content(no, size) \in Seq(Unit) /\ Len(Content(no, size)) = size + 2
<1>1. /\ Content(no, size) \in Seq(Unit)
      /\ Len(Content(no, size)) = IF size <= 1 THEN size ELSE size + 2
  BY ContentProperties
<1>2. ~(size <= 1)
  OBVIOUS
<1> QED
  BY <1>1, <1>2

\* a prefix
LEMMA PrefixProperties ==
  ASSUME NEW S, NEW u \in Seq(S), NEW n \in Int, n <= Len(u)
  PROVE  /\ SubSeq(u, 1, n) \in Seq(S)
         /\ Len(SubSeq(u, 1, n)) = IF 1 <= n THEN n ELSE 0
         /\ \A i \in 1..n : SubSeq(u, 1, n)[i] = u[i]
<1>1. \A i \in 1..n : u[i] \in S
  BY LenProperties, ElementOfSeq
<1>2. /\ SubSeq(u, 1, n) \in Seq(S)
      /\ Len(SubSeq(u, 1, n)) = IF 1 <= n THEN n - 1 + 1 ELSE 0
      /\ \A i \in 1..n - 1 + 1 : SubSeq(u, 1, n)[i] = u[1 + i - 1]
  BY <1>1, SubSeqProperties
<1> QED
  BY <1>2

LEMMA TruncatedProperties ==
  ASSUME NEW S, NEW u \in Seq(S)
  PROVE  /\ Truncated(u) \in Seq(S)
         /\ Len(Truncated(u)) = IF Len(u) < Extent THEN Len(u) ELSE Extent
         /\ \A i \in 1..Len(Truncated(u)) : Truncated(u)[i] = u[i]
<1> DEFINE n == IF Len(u) < Extent THEN Len(u) ELSE Extent
<1>1. n \in Nat /\ n <= Len(u)
  BY LenProperties, ExtentAssumption
<1>2. Truncated(u) = SubSeq(u, 1, n)
  BY DEF Truncated
<1> HIDE DEF n
<1>3. /\ SubSeq(u, 1, n) \in Seq(S)
      /\ Len(SubSeq(u, 1, n)) = IF 1 <= n THEN n ELSE 0
      /\ \A i \in 1..n : SubSeq(u, 1, n)[i] = u[i]
  BY <1>1, PrefixProperties
<1>4. Len(SubSeq(u, 1, n)) = n
  BY <1>1, <1>3
<1> QED
  BY <1>2, <1>3, <1>4 DEF n

\* what is cut off a payload stays cut off
LEMMA TruncatedTwice ==
  ASSUME NEW S, NEW u \in Seq(S), NEW v \in Seq(S)
  PROVE  Truncated(Truncated(u) \o v) = Truncated(u \o v)
<1> DEFINE t == Truncated(u)
           a == t \o v
           b == u \o v
<1>1. /\ t \in Seq(S)
      /\ Len(t) = IF Len(u) < Extent THEN Len(u) ELSE Extent
      /\ \A i \in 1..Len(t) : t[i] = u[i]
  BY TruncatedProperties
<1> HIDE DEF t
<1>2. /\ a \in Seq(S)
      /\ Len(a) = Len(t) + Len(v)
      /\ \A i \in 1..Len(t) + Len(v) : a[i] = IF i <= Len(t) THEN t[i] ELSE v[i - Len(t)]
  BY <1>1, ConcatProperties
<1>3. /\ b \in Seq(S)
      /\ Len(b) = Len(u) + Len(v)
      /\ \A i \in 1..Len(u) + Len(v) : b[i] = IF i <= Len(u) THEN u[i] ELSE v[i - Len(u)]
  BY ConcatProperties
<1> HIDE DEF a, b
<1>4. /\ Truncated(a) \in Seq(S)
      /\ Len(Truncated(a)) = IF Len(a) < Extent THEN Len(a) ELSE Extent
      /\ \A i \in 1..Len(Truncated(a)) : Truncated(a)[i] = a[i]
  BY <1>2, TruncatedProperties
<1>5. /\ Truncated(b) \in Seq(S)
      /\ Len(Truncated(b)) = IF Len(b) < Extent THEN Len(b) ELSE Extent
      /\ \A i \in 1..Len(Truncated(b)) : Truncated(b)[i] = b[i]
  BY <1>3, TruncatedProperties
<1>6. Len(u) \in Nat /\ Len(v) \in Nat /\ Len(t) \in Nat /\ Extent \in Nat
  BY <1>1, LenProperties, ExtentAssumption
<1>7. Len(Truncated(a)) = Len(Truncated(b))
  BY <1>1, <1>2, <1>3, <1>4, <1>5, <1>6
<1>8. ASSUME NEW i \in 1..Len(Truncated(a))
      PROVE  a[i] = b[i]
  <2>1. i <= Len(a) /\ i <= Extent /\ i \in Nat /\ i >= 1
    BY <1>2, <1>4, <1>6
  <2>2. CASE i <= Len(t)
    BY <1>1, <1>2, <1>3, <1>6, <2>1, <2>2
  <2>3. CASE i > Len(t)
    <3>1. Len(t) = Len(u)
      BY <1>1, <1>6, <2>1, <2>3
    <3>2. i \in 1..Len(t) + Len(v) /\ i \in 1..Len(u) + Len(v) /\ ~(i <= Len(t)) /\ ~(i <= Len(u))
      BY <1>2, <1>6, <2>1, <2>3, <3>1
    <3>3. a[i] = v[i - Len(t)]
      BY <1>2, <3>2
    <3>4. b[i] = v[i - Len(u)]
      BY <1>3, <3>2
    <3> QED
      BY <3>1, <3>3, <3>4
  <2> QED
    BY <1>6, <2>1, <2>2, <2>3
<1>9. Truncated(a) = Truncated(b)
  BY <1>4, <1>5, <1>7, <1>8, SeqEqual
<1> QED
  BY <1>9 DEF a, b, t

\* a frame, whatever it is the frame of
FrameSet == [no : Nat, tid : 0..TidMod - 1, sot : BOOLEAN, eot : BOOLEAN, toggle : BOOLEAN, units : Seq(Unit)]

LEMMA FrameHeads ==
  ASSUME NEW no \in Nat, NEW size \in Nat, NEW k \in 1..LastFrame(size), NEW f, f = Frame(no, size, k)
  PROVE  /\ f.no = no
         /\ f.tid = no % TidMod
         /\ f.tid \in 0..TidMod - 1
         /\ f.sot \in BOOLEAN /\ f.eot \in BOOLEAN /\ f.toggle \in BOOLEAN
         /\ f.sot <=> k = 1
         /\ f.eot <=> k = LastFrame(size)
         /\ f.toggle <=> k % 2 = 1
<1>1. f.no = no /\ f.tid = no % TidMod /\ f.tid \in 0..TidMod - 1
  BY TidInRange DEF Frame
<1>2. /\ f.sot \in BOOLEAN /\ (f.sot <=> k = 1)
      /\ f.eot \in BOOLEAN /\ (f.eot <=> k = LastFrame(size))
      /\ f.toggle \in BOOLEAN /\ (f.toggle <=> k % 2 = 1)
  BY Zenon DEF Frame
<1> QED
  BY <1>1, <1>2

\* what the last frame carries
Rest(no, size) == Frame(no, size, LastFrame(size)).units

LEMMA RestProperties ==
  ASSUME NEW no \in Nat, NEW size \in Nat
  PROVE  /\ Rest(no, size) \in Seq(Unit)
         /\ Len(Rest(no, size)) = IF size <= 1 THEN size ELSE 3
         /\ \A i \in 1..Len(Rest(no, size)) :
              /\ Rest(no, size)[i] = Content(no, size)[LastFrame(size) + i - 1]
              /\ Rest(no, size)[i][1] = no
<1> DEFINE c == Content(no, size)
           n == Len(c)
           k == LastFrame(size)
           u == Rest(no, size)
<1>0. k \in Nat /\ k = IF size <= 1 THEN 1 ELSE size
  BY DEF LastFrame
<1>1. u = SubSeq(c, k, n)
  BY <1>0 DEF Frame, Rest
<1>2. /\ c \in Seq(Unit)
      /\ n = IF size <= 1 THEN size ELSE size + 2
      /\ \A i \in 1..n : c[i] = IF i <= size THEN <<no, i>> ELSE <<no, 0>>
  BY ContentProperties
<1>3. n \in Nat /\ k >= 1
  BY <1>0, <1>2
<1> HIDE DEF c, n, k, u
<1>4. \A i \in k..n : c[i] \in Unit
  BY <1>0, <1>2, <1>3, ElementOfSeq DEF n
<1>5. /\ SubSeq(c, k, n) \in Seq(Unit)
      /\ Len(SubSeq(c, k, n)) = IF k <= n THEN n - k + 1 ELSE 0
      /\ \A i \in 1..n - k + 1 : SubSeq(c, k, n)[i] = c[k + i - 1]
  BY <1>0, <1>3, <1>4, SubSeqProperties
<1>6. n - k + 1 = IF size <= 1 THEN size ELSE 3
  BY <1>0, <1>2
<1>7. Len(u) = n - k + 1
  BY <1>0, <1>1, <1>3, <1>5, <1>6
<1>8. ASSUME NEW i \in 1..Len(u)
      PROVE  u[i] = c[k + i - 1] /\ u[i][1] = no
  <2>1. i \in 1..n - k + 1 /\ k + i - 1 \in 1..n
    BY <1>0, <1>3, <1>7
  <2>2. u[i] = c[k + i - 1]
    BY <1>1, <1>5, <2>1
  <2>3. c[k + i - 1] = <<no, k + i - 1>> \/ c[k + i - 1] = <<no, 0>>
    BY <1>2, <2>1
  <2> QED
    BY <2>2, <2>3
<1>9. u \in Seq(Unit)
  BY <1>1, <1>5
<1>10. Len(u) = IF size <= 1 THEN size ELSE 3
  BY <1>6, <1>7
<1> QED
  BY <1>8, <1>9, <1>10 DEF c, k, u

LEMMA RestLength ==
  ASSUME NEW no \in Nat, NEW size \in Nat
  PROVE  Rest(no, size) \in Seq(Unit) /\ Len(Rest(no, size)) = IF size <= 1 THEN size ELSE 3
BY RestProperties

LEMMA RestUnits ==
  ASSUME NEW no \in Nat, NEW size \in Nat, NEW i \in 1..Len(Rest(no, size))
  PROVE  Rest(no, size)[i] = Content(no, size)[LastFrame(size) + i - 1] /\ Rest(no, size)[i][1] = no
BY RestProperties

\* any other frame carries one unit
LEMMA FrameUnits ==
  ASSUME NEW no \in Nat, NEW size \in Nat, NEW k \in 1..LastFrame(size), NEW u, u = Frame(no, size, k).units
  PROVE  /\ u \in Seq(Unit)
         /\ \A i \in 1..Len(u) : u[i][1] = no
         /\ k < LastFrame(size) => u = <<<<no, k>>>>
<1>1. LastFrame(size) \in Nat
  BY DEF LastFrame
<1>2. CASE k < LastFrame(size)
  <2>1. u = <<<<no, k>>>>
    BY <1>1, <1>2 DEF Frame
  <2>2. <<no, k>> \in Unit
    BY <1>1 DEF Unit
  <2>3. u \in Seq(Unit) /\ Len(u) = 1 /\ u[1] = <<no, k>>
    BY <2>1, <2>2
  <2> QED
    BY <1>1, <2>1, <2>3
<1>3. CASE k = LastFrame(size)
  <2>1. ~(k < LastFrame(size))
    BY <1>1, <1>3
  <2>2. u = Rest(no, size)
    BY <1>3 DEF Rest
  <2>3. PICK v : v = Rest(no, size)
    OBVIOUS
  <2>4. v \in Seq(Unit) /\ \A i \in 1..Len(v) : v[i][1] = no
    BY <2>3, RestLength, RestUnits
  <2> QED
    BY <2>1, <2>2, <2>3, <2>4, Zenon
<1> QED
  BY <1>1, <1>2, <1>3

\* both together
LEMMA FrameType ==
  ASSUME NEW no \in Nat, NEW size \in Nat, NEW k \in 1..LastFrame(size), NEW f, f = Frame(no, size, k)
  PROVE  f \in FrameSet
<1>1. /\ f.no = no /\ f.tid \in 0..TidMod - 1
      /\ f.sot \in BOOLEAN /\ f.eot \in BOOLEAN /\ f.toggle \in BOOLEAN
  BY FrameHeads
<1>2. f.units \in Seq(Unit)
  BY FrameUnits
<1> QED
  BY <1>1, <1>2 DEF Frame, FrameSet

-----------------------------------------------------------------------------
(***************************************************************************)
(* Sessions.  The buffer holds what the CRC has run over, as far as there  *)
(* is room.                                                                *)
(***************************************************************************)
SessionSet ==
  [tid : 0..TidMod - 1, toggle : BOOLEAN, payload : Seq(Unit) \cup {NULL}, total : Nat,
   crc : Seq(Unit), timedOut : BOOLEAN]

Copied(s) ==
  /\ s.total = Len(s.crc)
  /\ s.payload = NULL => s.crc = <<>>
  /\ s.payload # NULL => s.payload = Truncated(s.crc)

\* NULL is no payload
LEMMA NullIsNoPayload ==
  ASSUME NEW S, NEW u \in Seq(S)
  PROVE  u # NULL
<1>1. 0 \in DOMAIN NULL
  BY DEF NULL
<1>2. 0 \notin DOMAIN u
  OBVIOUS
<1> QED
  BY <1>1, <1>2

\* no session is none of the sessions
LEMMA NoSessionIsApart ==
  ASSUME NEW s \in SessionSet
  PROVE  s # NoSession
<1>1. s.tid \in 0..TidMod - 1
  BY DEF SessionSet
<1>2. NoSession.tid = -1
  BY DEF NoSession
<1> QED
  BY <1>1, <1>2, TidAssumption

\* nothing copied yet
LEMMA TruncatedEmpty == Truncated(<<>>) = <<>> /\ <<>> \in Seq(Unit)
<1>1. <<>> \in Seq(Unit) /\ Len(<<>>) = 0
  BY EmptySeq
<1>2. /\ Truncated(<<>>) \in Seq(Unit)
      /\ Len(Truncated(<<>>)) = IF Len(<<>>) < Extent THEN Len(<<>>) ELSE Extent
  BY <1>1, TruncatedProperties
<1>3. Len(Truncated(<<>>)) = 0
  BY <1>1, <1>2, ExtentAssumption
<1> QED
  BY <1>1, <1>2, <1>3, EmptySeq

LEMMA RestartedProperties ==
  ASSUME NEW s \in SessionSet, Copied(s), NEW f \in FrameSet, NEW r, r = Restarted(s, f)
  PROVE  /\ r \in SessionSet
         /\ Copied(r)
         /\ r.tid = f.tid
         /\ r.toggle = TRUE
         /\ r.crc = <<>>
         /\ r.timedOut = s.timedOut
         /\ Held(r) = Held(s)
<1>1. /\ r = [s EXCEPT !.total = 0, !.crc = <<>>, !.tid = f.tid, !.toggle = TRUE,
                       !.payload = IF s.payload = NULL THEN NULL ELSE <<>>]
  BY DEF Restarted, SessionSet
<1>2. f.tid \in 0..TidMod - 1
  BY DEF FrameSet
<1>3. <<>> \in Seq(Unit) /\ Len(<<>>) = 0 /\ <<>> # NULL /\ Truncated(<<>>) = <<>>
  BY EmptySeq, TruncatedEmpty, NullIsNoPayload
<1>4. r \in SessionSet
  <2> DEFINE none == <<>>
             kept == IF s.payload = NULL THEN NULL ELSE <<>>
             yes  == TRUE
             v    == [s EXCEPT !.total = 0, !.crc = none, !.tid = f.tid, !.toggle = yes, !.payload = kept]
  <2>1. none \in Seq(Unit) /\ kept \in Seq(Unit) \cup {NULL} /\ yes \in BOOLEAN
    BY <1>3
  <2>2. r = v
    BY <1>1
  <2> HIDE DEF none, kept, yes
  <2>3. v \in SessionSet
    BY <1>2, <2>1 DEF SessionSet
  <2> HIDE DEF v
  <2> QED
    BY <2>2, <2>3
<1>5. /\ r.tid = f.tid
      /\ r.toggle = TRUE
      /\ r.total = 0
      /\ r.crc = <<>>
      /\ r.timedOut = s.timedOut
      /\ r.payload = IF s.payload = NULL THEN NULL ELSE <<>>
  BY <1>1 DEF SessionSet
<1>6. Copied(r)
  BY <1>3, <1>5 DEF Copied
<1>7. Held(r) = Held(s)
  BY <1>3, <1>5 DEF Held
<1> QED
  BY <1>4, <1>5, <1>6, <1>7

LEMMA AdvancedProperties ==
  ASSUME NEW s \in SessionSet, NEW a, a = Advanced(s)
  PROVE  /\ a \in SessionSet
         /\ Copied(a)
         /\ a.tid = (s.tid + 1) % TidMod
         /\ a.toggle = TRUE
         /\ a.crc = <<>>
         /\ a.payload = NULL
         /\ a.timedOut = s.timedOut
<1>1. a = [s EXCEPT !.payload = NULL, !.total = 0, !.crc = <<>>,
                    !.tid = (s.tid + 1) % TidMod, !.toggle = TRUE]
  BY DEF Advanced, SessionSet
<1>2. s.tid + 1 \in Int
  BY TidAssumption DEF SessionSet
<1>3. (s.tid + 1) % TidMod \in 0..TidMod - 1
  BY <1>2, TidInRange
<1>4. <<>> \in Seq(Unit) /\ Len(<<>>) = 0
  BY EmptySeq
<1>5. a \in SessionSet
  <2> DEFINE none == <<>>
             next == (s.tid + 1) % TidMod
             yes  == TRUE
             gone == NULL
             v    == [s EXCEPT !.payload = gone, !.total = 0, !.crc = none, !.tid = next, !.toggle = yes]
  <2>1. /\ none \in Seq(Unit) /\ next \in 0..TidMod - 1
        /\ yes \in BOOLEAN /\ gone \in Seq(Unit) \cup {NULL}
    BY <1>3, <1>4
  <2>2. a = v
    BY <1>1
  <2> HIDE DEF none, next, yes, gone
  <2>3. v \in SessionSet
    BY <2>1 DEF SessionSet
  <2> HIDE DEF v
  <2> QED
    BY <2>2, <2>3
<1>6. /\ a.tid = (s.tid + 1) % TidMod
      /\ a.toggle = TRUE
      /\ a.total = 0
      /\ a.crc = <<>>
      /\ a.timedOut = s.timedOut
      /\ a.payload = NULL
  BY <1>1 DEF SessionSet
<1>7. Copied(a)
  BY <1>4, <1>6 DEF Copied
<1> QED
  BY <1>5, <1>6, <1>7

LEMMA NewSessionProperties ==
  ASSUME NEW f \in FrameSet, NEW s, s = NewSession(f)
  PROVE  /\ s \in SessionSet
         /\ Copied(s)
         /\ s.tid = f.tid
         /\ s.toggle = TRUE
         /\ s.crc = <<>>
         /\ s.timedOut = FALSE
         /\ Held(s) = 0
         /\ ~NeedRestart(s, f)
<1>1. f.tid \in 0..TidMod - 1
  BY DEF FrameSet
<1>2. <<>> \in Seq(Unit) /\ Len(<<>>) = 0
  BY EmptySeq
<1>3. s \in SessionSet
  BY <1>1, <1>2 DEF NewSession, SessionSet
<1>4. /\ s.tid = f.tid
      /\ s.toggle = TRUE
      /\ s.total = 0
      /\ s.crc = <<>>
      /\ s.timedOut = FALSE
      /\ s.payload = NULL
  BY DEF NewSession
<1>5. Copied(s) /\ Held(s) = 0
  BY <1>2, <1>4 DEF Copied, Held
<1>6. TidDifference(f.tid, f.tid) = 0
  <2>1. f.tid - f.tid = 0 /\ 0 \in Int /\ -TidMod < 0 /\ 0 < TidMod /\ TidMod \in Nat \ {0}
    BY <1>1, TidAssumption
  <2>2. 0 % TidMod = 0
    BY <2>1, SmallRemainder
  <2> QED
    BY <2>1, <2>2 DEF TidDifference
<1>7. ~NeedRestart(s, f)
  BY <1>4, <1>6 DEF NeedRestart
<1> QED
  BY <1>3, <1>4, <1>5, <1>7

LEMMA WrittenProperties ==
  ASSUME NEW s \in SessionSet, Copied(s), NEW f \in FrameSet, NEW w, w = Written(s, f)
  PROVE  /\ w \in SessionSet
         /\ s.crc \o f.units \in Seq(Unit)
         /\ w.payload = Truncated(s.crc \o f.units)
         /\ w.payload \in Seq(Unit)
         /\ w.total = Len(s.crc \o f.units)
         /\ w.crc = IF SingleFrame(f) THEN s.crc ELSE s.crc \o f.units
         /\ w.tid = s.tid
         /\ w.toggle = s.toggle
         /\ w.timedOut = IF f.sot THEN FALSE ELSE s.timedOut
<1> DEFINE all == s.crc \o f.units
           old == IF s.payload = NULL THEN <<>> ELSE s.payload
<1>1. /\ f.units \in Seq(Unit) /\ f.sot \in BOOLEAN
      /\ s.crc \in Seq(Unit) /\ s.total \in Nat /\ s.timedOut \in BOOLEAN
      /\ s.payload \in Seq(Unit) \cup {NULL}
  BY DEF FrameSet, SessionSet
<1>2. w = [s EXCEPT !.payload = Truncated(old \o f.units),
                    !.total = s.total + Len(f.units),
                    !.crc = IF SingleFrame(f) THEN s.crc ELSE all,
                    !.timedOut = IF f.sot THEN FALSE ELSE s.timedOut]
  BY DEF Written, SessionSet
<1>3. all \in Seq(Unit) /\ Len(all) = Len(s.crc) + Len(f.units)
  BY <1>1, ConcatProperties
<1>4. old \o f.units = all \/ old \o f.units = Truncated(s.crc) \o f.units
  <2>1. CASE s.payload = NULL
    BY <2>1 DEF Copied
  <2>2. CASE s.payload # NULL
    BY <2>2 DEF Copied
  <2> QED
    BY <2>1, <2>2
<1>5. Truncated(old \o f.units) = Truncated(all)
  BY <1>1, <1>4, TruncatedTwice
<1>6. Truncated(all) \in Seq(Unit)
  BY <1>3, TruncatedProperties
<1>7. s.total + Len(f.units) = Len(all) /\ Len(all) \in Nat
  BY <1>1, <1>3, LenProperties DEF Copied
<1> HIDE DEF all, old
<1>8. w \in SessionSet
  BY <1>1, <1>2, <1>3, <1>5, <1>6, <1>7 DEF SessionSet
<1>9. /\ w.payload = Truncated(all)
      /\ w.total = Len(all)
      /\ w.crc = IF SingleFrame(f) THEN s.crc ELSE all
      /\ w.tid = s.tid
      /\ w.toggle = s.toggle
      /\ w.timedOut = IF f.sot THEN FALSE ELSE s.timedOut
  BY <1>2, <1>5, <1>7 DEF SessionSet
<1> QED
  BY <1>3, <1>6, <1>8, <1>9 DEF all

-----------------------------------------------------------------------------
(***************************************************************************)
(* What a frame can do to the session: nothing, end it because its         *)
(* transfer-ID timed out and the frame starts no transfer, or be accepted  *)
(* into a session that is ready for it, the old one or one that starts.    *)
(***************************************************************************)
Types ==
  /\ wire \in [no : Nat, size : Nat, frame : Nat, again : BOOLEAN]
  /\ wire.frame <= LastFrame(wire.size)
  /\ wire.again => wire.frame # 0
  /\ session \in SessionSet \cup {NoSession}
  /\ session # NoSession => Copied(session)
  /\ heap \in Int
  /\ delivered \in Seq([no : Nat, size : Nat, payload : Seq(Unit)])
  /\ started \in Nat
  /\ clean \in BOOLEAN
  /\ undisturbed \subseteq Nat

HeldNow == IF session = NoSession THEN 0 ELSE Held(session)

Ignored(f, memory) ==
  /\ UNCHANGED <<session, heap, delivered>>
  /\ session = NoSession => ~f.sot \/ ~memory
  /\ session # NoSession =>
       /\ ~NeedRestart(session, f)
       /\ f.tid # session.tid \/ f.toggle # session.toggle

Missed(f) ==
  /\ session # NoSession
  /\ session.timedOut
  /\ ~f.sot
  /\ SotMiss(session, f)

Ready(r, f) ==
  /\ r \in SessionSet
  /\ Copied(r)
  /\ r.tid = f.tid
  /\ r.toggle = f.toggle
  /\ Held(r) = HeldNow
  /\ \/ r = session /\ session # NoSession /\ ~NeedRestart(session, f)
     \/ f.sot /\ r.crc = <<>> /\ (session # NoSession => NeedRestart(session, f))

\* the frame is accepted into the session r, or would be if there were memory
Taken(r, f, memory) ==
  \/ memory /\ AcceptFrame(r, f)
  \/ ~memory /\ OutOfMemory(r, f)

\* a frame meets the session r that it would have to continue or start
Meets(r, f, memory) ==
  \/ f.toggle = r.toggle /\ f.tid = r.tid /\ memory /\ AcceptFrame(r, f)
  \/ f.toggle = r.toggle /\ f.tid = r.tid /\ ~memory /\ OutOfMemory(r, f)
  \/ ~(f.toggle = r.toggle /\ f.tid = r.tid) /\ session' = r /\ UNCHANGED <<heap, delivered>>

LEMMA UpdateCases ==
  ASSUME NEW s, NEW f, NEW memory, Update(s, f, memory)
  PROVE  \/ NeedRestart(s, f) /\ ~f.sot /\ SotMiss(s, f)
         \/ NeedRestart(s, f) /\ f.sot /\ Meets(Restarted(s, f), f, memory)
         \/ ~NeedRestart(s, f) /\ Meets(s, f, memory)
<1>1. CASE NeedRestart(s, f)
  BY <1>1 DEF Update, Meets
<1>2. CASE ~NeedRestart(s, f)
  BY <1>2 DEF Update, Meets
<1> QED
  BY <1>1, <1>2

LEMMA MeetsReady ==
  ASSUME NEW r, NEW f, NEW memory, Meets(r, f, memory), f.toggle = r.toggle, f.tid = r.tid
  PROVE  Taken(r, f, memory)
BY DEF Meets, Taken

LEMMA ReceiveCases ==
  ASSUME Types, NEW f \in FrameSet, f.sot => f.toggle, NEW memory \in BOOLEAN, Receive(f, memory)
  PROVE  \/ Ignored(f, memory)
         \/ Missed(f)
         \/ \E r \in SessionSet : Ready(r, f) /\ Taken(r, f, memory)
<1>0. f.sot \in BOOLEAN /\ f.eot \in BOOLEAN /\ f.toggle \in BOOLEAN
  BY DEF FrameSet
<1>1. CASE session # NoSession /\ Update(session, f, memory)
  <2>1. session \in SessionSet /\ Copied(session) /\ HeldNow = Held(session)
    BY <1>1 DEF Types, HeldNow
  <2>2. CASE NeedRestart(session, f) /\ ~f.sot /\ SotMiss(session, f)
    <3>1. session.timedOut
      BY <2>2 DEF NeedRestart
    <3> QED
      BY <1>1, <2>2, <3>1 DEF Missed
  <2>3. CASE NeedRestart(session, f) /\ f.sot /\ Meets(Restarted(session, f), f, memory)
    <3>1. PICK r : r = Restarted(session, f)
      OBVIOUS
    <3>2. /\ r \in SessionSet /\ Copied(r) /\ r.tid = f.tid /\ r.toggle = TRUE
          /\ r.crc = <<>> /\ Held(r) = HeldNow
      BY <2>1, <3>1, RestartedProperties
    <3>3. f.toggle = r.toggle
      BY <2>3, <1>0, <3>2
    <3>4. Ready(r, f)
      BY <2>3, <3>2, <3>3 DEF Ready
    <3>5. Meets(r, f, memory)
      BY <2>3, <3>1
    <3>6. Taken(r, f, memory)
      BY <3>2, <3>3, <3>5, MeetsReady
    <3> QED
      BY <3>2, <3>4, <3>6
  <2>4. CASE ~NeedRestart(session, f) /\ Meets(session, f, memory)
    <3>1. CASE f.toggle = session.toggle /\ f.tid = session.tid
      <4>1. Ready(session, f)
        BY <1>1, <2>1, <2>4, <3>1 DEF Ready
      <4>2. Taken(session, f, memory)
        BY <2>4, <3>1, MeetsReady
      <4> QED
        BY <2>1, <4>1, <4>2
    <3>2. CASE ~(f.toggle = session.toggle /\ f.tid = session.tid)
      <4>1. UNCHANGED <<session, heap, delivered>>
        BY <2>4, <3>2 DEF Meets
      <4> QED
        BY <1>1, <2>4, <3>2, <4>1 DEF Ignored
    <3> QED
      BY <3>1, <3>2
  <2> QED
    BY <1>1, <2>2, <2>3, <2>4, UpdateCases
<1>2. CASE session = NoSession /\ f.sot /\ Update(NewSession(f), f, memory)
  <2>1. PICK s : s = NewSession(f)
    OBVIOUS
  <2>2. /\ s \in SessionSet /\ Copied(s) /\ s.tid = f.tid /\ s.toggle = TRUE /\ s.crc = <<>>
        /\ Held(s) = 0 /\ ~NeedRestart(s, f)
    BY <2>1, NewSessionProperties
  <2>3. f.toggle = s.toggle
    BY <1>0, <1>2, <2>2
  <2>4. Ready(s, f)
    BY <1>2, <2>2, <2>3 DEF Ready, HeldNow
  <2>5. Update(s, f, memory)
    BY <1>2, <2>1
  <2>6. Meets(s, f, memory)
    BY <2>2, <2>5, UpdateCases
  <2>7. Taken(s, f, memory)
    BY <2>2, <2>3, <2>6, MeetsReady
  <2> QED
    BY <2>2, <2>4, <2>7
<1>3. CASE /\ session = NoSession
           /\ ~f.sot \/ ~memory
           /\ UNCHANGED <<session, heap, delivered>>
  BY <1>3 DEF Ignored
<1> QED
  BY <1>1, <1>2, <1>3 DEF Receive

-----------------------------------------------------------------------------
(***************************************************************************)
(* What an accepted frame leaves.                                          *)
(***************************************************************************)

\* the session that waits for the first frame of the next transfer
Ended(f) ==
  /\ session' \in SessionSet
  /\ Copied(session')
  /\ ~session'.timedOut
  /\ session'.tid = (f.tid + 1) % TidMod
  /\ session'.toggle = TRUE
  /\ session'.crc = <<>>
  /\ session'.payload = NULL

\* the CRC of a transfer is right, or there is none
Right(r, f) == SingleFrame(f) \/ CrcMatches(r.crc \o f.units)

Continues(r, f) ==
  /\ ~f.eot
  /\ session' \in SessionSet
  /\ Copied(session')
  /\ ~session'.timedOut
  /\ session'.tid = f.tid
  /\ session'.toggle = ~f.toggle
  /\ session'.crc = r.crc \o f.units
  /\ session'.payload # NULL
  /\ heap' = heap + 1 - HeldNow
  /\ UNCHANGED delivered

Completes(r, f) ==
  /\ f.eot
  /\ Right(r, f)
  /\ Ended(f)
  /\ \E payload \in Seq(Unit) :
       /\ payload = WithoutCrc(Written(r, f), f)
       /\ delivered' = Append(delivered, [no |-> f.no, size |-> wire.size, payload |-> payload])
       /\ heap' = heap + 1 - HeldNow - (IF payload = <<>> THEN 0 ELSE 1)

Fails(r, f, memory) ==
  /\ ~memory \/ (f.eot /\ ~Right(r, f))
  /\ Ended(f)
  /\ heap' = heap - HeldNow
  /\ UNCHANGED delivered

\* the session an accepted frame ends
LEMMA EndedProperties ==
  ASSUME NEW f \in FrameSet, NEW r, Ready(r, f), session' = Advanced(Written(r, f))
  PROVE  Ended(f)
<1>1. PICK w : w = Written(r, f)
  OBVIOUS
<1>2. r \in SessionSet /\ Copied(r) /\ r.tid = f.tid
  BY DEF Ready
<1>3. w \in SessionSet /\ w.tid = f.tid /\ w.timedOut = IF f.sot THEN FALSE ELSE r.timedOut
  BY <1>1, <1>2, WrittenProperties
<1>4. ~f.sot => ~r.timedOut
  BY DEF Ready, NeedRestart
<1>5. ~w.timedOut
  BY <1>3, <1>4
<1>6. PICK a : a = Advanced(w)
  OBVIOUS
<1>7. /\ a \in SessionSet /\ Copied(a) /\ a.tid = (f.tid + 1) % TidMod
      /\ a.toggle = TRUE /\ a.crc = <<>> /\ a.payload = NULL /\ a.timedOut = w.timedOut
  BY <1>3, <1>6, AdvancedProperties
<1>8. session' = a
  BY <1>1, <1>6
<1> QED
  BY <1>5, <1>7, <1>8 DEF Ended

\* the payload handed over is a sequence
LEMMA WithoutCrcType ==
  ASSUME NEW w, NEW f, w.payload \in Seq(Unit), w.total \in Nat
  PROVE  WithoutCrc(w, f) \in Seq(Unit)
<1> DEFINE cut == w.total - Len(w.payload)
           n   == Len(w.payload) - (CrcUnits - cut)
<1>1. cut \in Int /\ n \in Int /\ Len(w.payload) \in Nat
  BY LenProperties DEF CrcUnits
<1>2. CASE SingleFrame(f) \/ cut >= CrcUnits
  BY <1>2 DEF WithoutCrc
<1>3. CASE ~(SingleFrame(f) \/ cut >= CrcUnits)
  <2>1. n <= Len(w.payload)
    BY <1>1, <1>3 DEF CrcUnits
  <2>2. WithoutCrc(w, f) = SubSeq(w.payload, 1, n)
    BY <1>3 DEF WithoutCrc
  <2> HIDE DEF n
  <2> QED
    BY <1>1, <2>1, <2>2, PrefixProperties
<1> QED
  BY <1>2, <1>3

LEMMA AcceptCases ==
  ASSUME Types, NEW f \in FrameSet, NEW r, Ready(r, f), NEW memory \in BOOLEAN,
         Taken(r, f, memory)
  PROVE  Continues(r, f) \/ Completes(r, f) \/ Fails(r, f, memory)
<1>0. /\ f.sot \in BOOLEAN /\ f.eot \in BOOLEAN /\ f.toggle \in BOOLEAN
      /\ r \in SessionSet /\ Copied(r) /\ r.tid = f.tid /\ r.toggle = f.toggle /\ Held(r) = HeldNow
  BY DEF FrameSet, Ready
<1>1. PICK w : w = Written(r, f)
  OBVIOUS
<1>2. /\ w \in SessionSet
      /\ r.crc \o f.units \in Seq(Unit)
      /\ w.payload = Truncated(r.crc \o f.units)
      /\ w.payload \in Seq(Unit)
      /\ w.total = Len(r.crc \o f.units)
      /\ w.crc = IF SingleFrame(f) THEN r.crc ELSE r.crc \o f.units
      /\ w.tid = r.tid
      /\ w.toggle = r.toggle
      /\ w.timedOut = IF f.sot THEN FALSE ELSE r.timedOut
  BY <1>0, <1>1, WrittenProperties
<1>3. Right(r, f) <=> SingleFrame(f) \/ CrcMatches(w.crc)
  BY <1>2 DEF Right
<1>4. HeldNow \in {0, 1} /\ heap \in Int
  BY <1>0 DEF Held, Types
<1>5. CASE ~memory /\ OutOfMemory(r, f)
  <2>1. Ended(f)
    BY <1>5, EndedProperties DEF OutOfMemory
  <2>2. HeldNow = 0 /\ heap' = heap /\ delivered' = delivered
    BY <1>0, <1>5 DEF OutOfMemory, Held
  <2>3. heap' = heap - HeldNow
    BY <1>4, <2>2
  <2> QED
    BY <1>5, <2>1, <2>2, <2>3, Zenon DEF Fails
<1>6. CASE /\ ~f.eot
           /\ session' = [w EXCEPT !.toggle = ~w.toggle]
           /\ heap' = heap + (1 - Held(r))
           /\ UNCHANGED delivered
  <2>1. ~SingleFrame(f)
    BY <1>6 DEF SingleFrame
  <2>2. ~w.timedOut
    BY <1>2 DEF Ready, NeedRestart
  <2>3. PICK v : v = [w EXCEPT !.toggle = ~w.toggle]
    OBVIOUS
  <2>4. (~w.toggle) \in BOOLEAN
    OBVIOUS
  <2>5. v \in SessionSet
    BY <1>2, <2>3, <2>4 DEF SessionSet
  <2>6. /\ v.tid = f.tid /\ v.payload = w.payload /\ v.total = w.total /\ v.crc = r.crc \o f.units
        /\ v.timedOut = w.timedOut
    BY <1>0, <1>2, <2>1, <2>3 DEF SessionSet
  <2>7. v.toggle = ~f.toggle
    BY <1>0, <1>2, <2>3 DEF SessionSet
  <2>8. v.payload # NULL
    BY <1>2, <2>6, NullIsNoPayload
  <2>9. Copied(v)
    BY <1>2, <2>6, <2>8 DEF Copied
  <2>10. heap' = heap + 1 - HeldNow
    BY <1>0, <1>4, <1>6
  <2>11. session' = v
    BY <1>6, <2>3
  <2> QED
    BY <1>6, <2>2, <2>5, <2>6, <2>7, <2>8, <2>9, <2>10, <2>11 DEF Continues
<1>7. CASE /\ f.eot
           /\ SingleFrame(f) \/ CrcMatches(w.crc)
           /\ session' = Advanced(w)
           /\ LET payload == WithoutCrc(w, f)
              IN  /\ delivered' = Append(delivered, [no |-> f.no, size |-> wire.size, payload |-> payload])
                  /\ heap' = (heap + (1 - Held(r))) - FreedByHandler(payload)
  <2>1. Ended(f)
    BY <1>1, <1>7, EndedProperties
  <2>2. PICK payload : payload = WithoutCrc(w, f)
    OBVIOUS
  <2>3. w.total \in Nat
    BY <1>2 DEF SessionSet
  <2>4. payload \in Seq(Unit)
    BY <1>2, <2>2, <2>3, WithoutCrcType
  <2>5. FreedByHandler(payload) = IF payload = <<>> THEN 0 ELSE 1
    <3>1. payload = <<>> => Len(payload) = 0
      BY <2>4
    <3>2. payload # <<>> => Len(payload) > 0
      BY <2>4, EmptySeq
    <3> QED
      BY <3>1, <3>2 DEF FreedByHandler
  <2>6. heap' = heap + 1 - HeldNow - (IF payload = <<>> THEN 0 ELSE 1)
    BY <1>0, <1>4, <1>7, <2>2, <2>5
  <2>7. delivered' = Append(delivered, [no |-> f.no, size |-> wire.size, payload |-> payload])
    BY <1>7, <2>2
  <2> QED
    BY <1>1, <1>3, <1>7, <2>1, <2>2, <2>4, <2>6, <2>7 DEF Completes
<1>8. CASE /\ f.eot
           /\ ~(SingleFrame(f) \/ CrcMatches(w.crc))
           /\ session' = Advanced(w)
           /\ heap' = (heap + (1 - Held(r))) - 1
           /\ UNCHANGED delivered
  <2>1. Ended(f)
    BY <1>1, <1>8, EndedProperties
  <2>2. heap' = heap - HeldNow
    BY <1>0, <1>4, <1>8
  <2> QED
    BY <1>3, <1>8, <2>1, <2>2 DEF Fails
<1>9. CASE memory /\ AcceptFrame(r, f)
  <2>1. \/ /\ ~f.eot
           /\ session' = [w EXCEPT !.toggle = ~w.toggle]
           /\ heap' = heap + (1 - Held(r))
           /\ UNCHANGED delivered
        \/ /\ f.eot
           /\ SingleFrame(f) \/ CrcMatches(w.crc)
           /\ session' = Advanced(w)
           /\ LET payload == WithoutCrc(w, f)
              IN  /\ delivered' = Append(delivered, [no |-> f.no, size |-> wire.size, payload |-> payload])
                  /\ heap' = (heap + (1 - Held(r))) - FreedByHandler(payload)
        \/ /\ f.eot
           /\ ~(SingleFrame(f) \/ CrcMatches(w.crc))
           /\ session' = Advanced(w)
           /\ heap' = (heap + (1 - Held(r))) - 1
           /\ UNCHANGED delivered
    BY <1>1, <1>9 DEF AcceptFrame
  <2> QED
    BY <1>6, <1>7, <1>8, <2>1, Zenon
<1> QED
  BY <1>5, <1>9 DEF Taken

-----------------------------------------------------------------------------
(***************************************************************************)
(* Steps.                                                                  *)
(***************************************************************************)
ThisFrame == Frame(wire.no, wire.size, wire.frame)

\* the frame on the bus
LEMMA ThisFrameProperties ==
  ASSUME Types, OnBus, NEW f, f = ThisFrame
  PROVE  /\ wire.frame \in 1..LastFrame(wire.size)
         /\ wire.no \in Nat /\ wire.size \in Nat
         /\ f \in FrameSet
         /\ f.no = wire.no
         /\ f.tid = wire.no % TidMod
         /\ f.sot <=> wire.frame = 1
         /\ f.eot <=> wire.frame = LastFrame(wire.size)
         /\ f.toggle <=> wire.frame % 2 = 1
         /\ f.sot => f.toggle
<1>1. wire.frame \in 1..LastFrame(wire.size) /\ wire.no \in Nat /\ wire.size \in Nat
  BY DEF Types, OnBus, LastFrame
<1>0. f = Frame(wire.no, wire.size, wire.frame)
  BY DEF ThisFrame
<1>2. /\ f \in FrameSet
      /\ f.no = wire.no
      /\ f.tid = wire.no % TidMod
      /\ f.sot <=> wire.frame = 1
      /\ f.eot <=> wire.frame = LastFrame(wire.size)
      /\ f.toggle <=> wire.frame % 2 = 1
  <2>1. PICK no \in Nat, size \in Nat : no = wire.no /\ size = wire.size
    BY <1>1
  <2>4. PICK k \in 1..LastFrame(size) : k = wire.frame
    BY <1>1, <2>1
  <2>2. f = Frame(no, size, k)
    BY <1>0, <2>1, <2>4
  <2>3. /\ f.no = no
        /\ f.tid = no % TidMod
        /\ f.sot <=> k = 1
        /\ f.eot <=> k = LastFrame(size)
        /\ f.toggle <=> k % 2 = 1
    BY <2>2, FrameHeads
  <2>5. f \in FrameSet
    BY <2>2, FrameType
  <2> QED
    BY <2>1, <2>3, <2>4, <2>5
<1>3. 1 % 2 = 1
  BY SmallRemainder
<1> QED
  BY <1>1, <1>2, <1>3

LEMMA MissedProperties ==
  ASSUME Types, NEW f \in FrameSet, Missed(f)
  PROVE  /\ session' \in SessionSet
         /\ Copied(session')
         /\ session'.timedOut
         /\ session'.payload = NULL
         /\ heap' = heap - HeldNow
         /\ delivered' = delivered
<1>1. session \in SessionSet /\ Copied(session) /\ session.timedOut /\ HeldNow = Held(session)
  BY DEF Types, Missed, HeldNow
<1>2. PICK r : r = Restarted(session, f)
  OBVIOUS
<1>3. r \in SessionSet /\ Copied(r) /\ r.timedOut = session.timedOut
  BY <1>1, <1>2, RestartedProperties
<1>4. PICK a : a = Advanced(r)
  OBVIOUS
<1>5. a \in SessionSet /\ Copied(a) /\ a.payload = NULL /\ a.timedOut = r.timedOut
  BY <1>3, <1>4, AdvancedProperties
<1>6. session' = a /\ heap' = heap - Held(session) /\ delivered' = delivered
  BY <1>2, <1>4 DEF Missed, SotMiss
<1> QED
  BY <1>1, <1>3, <1>5, <1>6

\* the outcomes of a frame that arrives
LEMMA ArriveCases ==
  ASSUME Types, NEW memory \in BOOLEAN, NEW again \in BOOLEAN, Arrive(memory, again), NEW f, f = ThisFrame
  PROVE  \/ Ignored(f, memory)
         \/ Missed(f)
         \/ \E r \in SessionSet : /\ Ready(r, f)
                                  /\ Continues(r, f) \/ Completes(r, f) \/ Fails(r, f, memory)
<1>1. OnBus /\ Receive(f, memory)
  BY DEF Arrive, ThisFrame
<1>2. f \in FrameSet /\ (f.sot => f.toggle)
  BY <1>1, ThisFrameProperties
<1>3. \/ Ignored(f, memory)
      \/ Missed(f)
      \/ \E r \in SessionSet : Ready(r, f) /\ Taken(r, f, memory)
  BY <1>1, <1>2, ReceiveCases
<1>4. ASSUME NEW r \in SessionSet, Ready(r, f), Taken(r, f, memory)
      PROVE  Continues(r, f) \/ Completes(r, f) \/ Fails(r, f, memory)
  BY <1>2, <1>4, AcceptCases
<1> QED
  BY <1>3, <1>4

\* a step that is no frame
Quiet ==
  \/ \E size \in Sizes : Send(size)
  \/ Lose
  \/ Silence
  \/ UNCHANGED vars

\* what the other steps leave alone
LEMMA QuietSteps ==
  ASSUME Types, Quiet
  PROVE  /\ UNCHANGED <<heap, delivered, started, undisturbed>>
         /\ \/ session' = session
            \/ Silence /\ session' \in SessionSet /\ Copied(session') /\ session'.timedOut
                       /\ session'.payload = session.payload /\ session # NoSession
                       /\ UNCHANGED wire
<1>1. CASE Silence
  <2>1. session \in SessionSet /\ Copied(session) /\ session # NoSession
    BY <1>1 DEF Types, Silence, Following
  <2> DEFINE yes == TRUE
             v   == [session EXCEPT !.timedOut = yes]
  <2>2. session' = v
    BY <1>1 DEF Silence
  <2>3. yes \in BOOLEAN
    OBVIOUS
  <2>4. v.timedOut = TRUE
    BY <2>1 DEF SessionSet
  <2> HIDE DEF yes
  <2>5. v \in SessionSet
    BY <2>1, <2>3 DEF SessionSet
  <2>6. v.payload = session.payload /\ v.crc = session.crc /\ v.total = session.total
    BY <2>1 DEF SessionSet
  <2> HIDE DEF v
  <2>7. Copied(v)
    BY <2>1, <2>6 DEF Copied
  <2> QED
    BY <1>1, <2>1, <2>2, <2>4, <2>5, <2>6, <2>7 DEF Silence
<1>2. CASE \E size \in Sizes : Send(size)
  BY <1>2 DEF Send
<1>3. CASE Lose
  BY <1>3 DEF Lose
<1>4. CASE UNCHANGED vars
  BY <1>4 DEF vars
<1> QED
  BY <1>1, <1>2, <1>3, <1>4 DEF Quiet

LEMMA Steps ==
  ASSUME [Next]_vars
  PROVE  \/ Quiet
         \/ \E memory, again \in BOOLEAN : Arrive(memory, again)
BY DEF Next, Quiet

-----------------------------------------------------------------------------
(***************************************************************************)
(* Types.                                                                  *)
(***************************************************************************)
Delivery == [no : Nat, size : Nat, payload : Seq(Unit)]

\* the bus goes on to a frame of the transfer, or the transfer ends
LEMMA NextFrameType ==
  ASSUME Types, OnBus
  PROVE  NextFrame \in Nat /\ NextFrame <= LastFrame(wire.size) /\ NextFrame # 1
<1>1. /\ wire.frame \in Nat /\ wire.frame > 0 /\ wire.frame <= LastFrame(wire.size)
      /\ LastFrame(wire.size) \in Nat
  BY DEF Types, OnBus, LastFrame
<1> QED
  BY <1>1 DEF NextFrame

\* the bus after a frame
LEMMA WireSteps ==
  ASSUME Types, NEW memory \in BOOLEAN, NEW again \in BOOLEAN, Arrive(memory, again)
  PROVE  /\ wire' \in [no : Nat, size : Nat, frame : Nat, again : BOOLEAN]
         /\ wire'.no = wire.no /\ wire'.size = wire.size
         /\ wire'.again = again
         /\ wire'.frame = IF again THEN wire.frame ELSE NextFrame
         /\ wire'.frame <= LastFrame(wire'.size)
         /\ again => wire'.frame # 0 /\ ~wire.again
<1>1. OnBus /\ wire \in [no : Nat, size : Nat, frame : Nat, again : BOOLEAN]
  BY DEF Arrive, Types
<1>2. NextFrame \in Nat /\ NextFrame <= LastFrame(wire.size)
  BY <1>1, NextFrameType
<1>3. CASE again
  <2>1. wire' = [wire EXCEPT !.again = again]
    BY <1>3 DEF Arrive
  <2> QED
    BY <1>1, <1>3, <2>1 DEF Types, OnBus, Arrive
<1>4. CASE ~again
  <2>1. wire' = [wire EXCEPT !.again = again, !.frame = NextFrame]
    BY <1>4 DEF Arrive
  <2> QED
    BY <1>1, <1>2, <1>4, <2>1
<1> QED
  BY <1>3, <1>4

LEMMA TypesInit == Init => Types
<1> SUFFICES ASSUME Init PROVE Types
  OBVIOUS
<1>1. <<>> \in Seq(Delivery)
  BY EmptySeq
<1>2. wire \in [no : Nat, size : Nat, frame : Nat, again : BOOLEAN]
  BY Zenon DEF Init
<1>3. wire.frame = 0 /\ wire.size = 0 /\ ~wire.again
  BY DEF Init
<1>4. LastFrame(0) = 1
  BY DEF LastFrame
<1>5. clean \in BOOLEAN
  BY Zenon DEF Init
<1>6. session = NoSession /\ heap = 0 /\ delivered = <<>> /\ started = 0 /\ undisturbed = {}
  BY DEF Init
<1> QED
  BY <1>1, <1>2, <1>3, <1>4, <1>5, <1>6 DEF Types, Delivery

LEMMA TypesNext == Types /\ [Next]_vars => Types'
<1> SUFFICES ASSUME Types, [Next]_vars PROVE Types'
  OBVIOUS
<1>1. CASE Quiet
  <2>1. /\ UNCHANGED <<heap, delivered, started, undisturbed>>
        /\ session' \in SessionSet \cup {NoSession}
        /\ session' # NoSession => Copied(session')
    BY <1>1, QuietSteps DEF Types
  <2>2. clean' \in BOOLEAN
    BY <1>1 DEF Quiet, Send, Lose, Silence, vars, Types
  <2>3. /\ wire' \in [no : Nat, size : Nat, frame : Nat, again : BOOLEAN]
        /\ wire'.frame <= LastFrame(wire'.size)
        /\ wire'.again => wire'.frame # 0
    <3>1. CASE \E size \in Sizes : Send(size)
      <4>1. PICK size \in Sizes : Send(size)
        BY <3>1
      <4>2. wire' = [no |-> wire.no + 1, size |-> size, frame |-> 1, again |-> FALSE]
        BY <4>1 DEF Send
      <4>3. size \in Nat /\ 1 <= LastFrame(size)
        BY <4>1, SizesAssumption DEF LastFrame
      <4> QED
        BY <4>2, <4>3 DEF Types
    <3>2. CASE Lose
      <4>1. /\ NextFrame \in Nat /\ NextFrame <= LastFrame(wire.size)
            /\ wire' = [wire EXCEPT !.frame = NextFrame] /\ ~wire.again
        BY <3>2, NextFrameType DEF Lose
      <4> QED
        BY <4>1 DEF Types
    <3>3. CASE UNCHANGED wire
      BY <3>3 DEF Types
    <3> QED
      BY <1>1, <3>1, <3>2, <3>3 DEF Quiet, Silence, vars
  <2> QED
    BY <2>1, <2>2, <2>3 DEF Types
<1>2. ASSUME NEW memory \in BOOLEAN, NEW again \in BOOLEAN, Arrive(memory, again)
      PROVE  Types'
  <2>1. PICK f : f = ThisFrame
    OBVIOUS
  <2>2. OnBus
    BY <1>2 DEF Arrive
  <2>3. f \in FrameSet /\ f.no = wire.no /\ wire.no \in Nat /\ wire.size \in Nat
    BY <2>1, <2>2, ThisFrameProperties
  <2>4. /\ wire' \in [no : Nat, size : Nat, frame : Nat, again : BOOLEAN]
        /\ wire'.frame <= LastFrame(wire'.size)
        /\ wire'.again => wire'.frame # 0
    BY <1>2, WireSteps
  <2>5. started' \in Nat
    BY <1>2, <2>3 DEF Arrive, Types
  <2>6. clean' \in BOOLEAN
    BY <1>2 DEF Arrive
  <2>7. undisturbed' \subseteq Nat
    BY <1>2, <2>3 DEF Arrive, Types
  <2>8. HeldNow \in {0, 1} /\ heap \in Int
    BY DEF HeldNow, Held, Types
  <2>9. /\ session' \in SessionSet \cup {NoSession}
        /\ session' # NoSession => Copied(session')
        /\ heap' \in Int
        /\ delivered' \in Seq(Delivery)
    <3>0. delivered \in Seq(Delivery)
      BY DEF Types, Delivery
    <3>1. CASE Ignored(f, memory)
      BY <2>8, <3>0, <3>1 DEF Ignored, Types
    <3>2. CASE Missed(f)
      BY <2>3, <2>8, <3>0, <3>2, MissedProperties
    <3>3. ASSUME NEW r, Continues(r, f)
          PROVE  session' \in SessionSet /\ Copied(session') /\ heap' \in Int /\ delivered' \in Seq(Delivery)
      BY <2>8, <3>0, <3>3 DEF Continues
    <3>4. ASSUME NEW r, Completes(r, f)
          PROVE  session' \in SessionSet /\ Copied(session') /\ heap' \in Int /\ delivered' \in Seq(Delivery)
      <4>1. PICK payload \in Seq(Unit) :
              /\ delivered' = Append(delivered, [no |-> f.no, size |-> wire.size, payload |-> payload])
              /\ heap' = heap + 1 - HeldNow - (IF payload = <<>> THEN 0 ELSE 1)
        BY <3>4 DEF Completes
      <4>2. [no |-> f.no, size |-> wire.size, payload |-> payload] \in Delivery
        BY <2>3 DEF Delivery
      <4>3. delivered' \in Seq(Delivery)
        BY <3>0, <4>1, <4>2, AppendProperties
      <4>4. heap' \in Int
        BY <2>8, <4>1
      <4> QED
        BY <3>4, <4>3, <4>4 DEF Completes, Ended
    <3>5. ASSUME NEW r, Fails(r, f, memory)
          PROVE  session' \in SessionSet /\ Copied(session') /\ heap' \in Int /\ delivered' \in Seq(Delivery)
      BY <2>8, <3>0, <3>5 DEF Fails, Ended
    <3> QED
      BY <1>2, <2>1, <3>1, <3>2, <3>3, <3>4, <3>5, ArriveCases
  <2> QED
    BY <2>4, <2>5, <2>6, <2>7, <2>9 DEF Types, Delivery
<1> QED
  BY <1>1, <1>2, Steps

\* every reachable state is well typed
LEMMA TypesHold == Spec => []Types
BY TypesInit, TypesNext, PTL DEF Spec

-----------------------------------------------------------------------------
(***************************************************************************)
(* Buffers.                                                                *)
(***************************************************************************)
Empties(d) == {i \in DOMAIN d : d[i].payload = <<>>}

LEMMA EmptiesOfAppend ==
  ASSUME NEW d \in Seq(Delivery), NEW x \in Delivery
  PROVE  /\ Cardinality(Empties(d)) \in Nat
         /\ Cardinality(Empties(Append(d, x))) =
              Cardinality(Empties(d)) + (IF x.payload = <<>> THEN 1 ELSE 0)
<1> DEFINE n == Len(d)
           e == Append(d, x)
<1>1. /\ e \in Seq(Delivery) /\ Len(e) = n + 1 /\ n \in Nat
      /\ \A i \in 1..n : e[i] = d[i]
      /\ e[n + 1] = x
  BY AppendProperties, LenProperties
<1>2. DOMAIN d = 1..n /\ DOMAIN e = 1..n + 1
  BY <1>1, LenProperties
<1> HIDE DEF e, n
<1>3. IsFiniteSet(1..n)
  BY <1>1, FS_Interval
<1>4. Empties(d) \subseteq 1..n
  BY <1>2 DEF Empties
<1>5. IsFiniteSet(Empties(d)) /\ Cardinality(Empties(d)) \in Nat
  BY <1>3, <1>4, FS_Subset, FS_CardinalityType
<1>6. n + 1 \notin Empties(d)
  BY <1>1, <1>4
<1>7. CASE x.payload = <<>>
  <2>1. Empties(e) = Empties(d) \cup {n + 1}
    BY <1>1, <1>2, <1>7 DEF Empties
  <2>2. Cardinality(Empties(d) \cup {n + 1}) = Cardinality(Empties(d)) + 1
    BY <1>5, <1>6, FS_AddElement
  <2> QED
    BY <1>5, <1>7, <2>1, <2>2 DEF e
<1>8. CASE x.payload # <<>>
  <2>1. Empties(e) = Empties(d)
    BY <1>1, <1>2, <1>8 DEF Empties
  <2> QED
    BY <1>5, <1>8, <2>1 DEF e
<1> QED
  BY <1>7, <1>8

LEMMA LeakStep == Types /\ NoOtherLeak /\ [Next]_vars => NoOtherLeak'
<1> SUFFICES ASSUME Types, NoOtherLeak, [Next]_vars PROVE NoOtherLeak'
  OBVIOUS
<1> DEFINE empties == Cardinality(Empties(delivered))
<1>0. /\ heap = HeldNow + empties
      /\ delivered \in Seq(Delivery)
      /\ empties \in Nat
      /\ HeldNow \in Nat
  <2>1. delivered \in Seq(Delivery)
    BY DEF Types, Delivery
  <2>2. [no |-> 0, size |-> 0, payload |-> <<>>] \in Delivery
    BY EmptySeq DEF Delivery
  <2>3. empties \in Nat
    BY <2>1, <2>2, EmptiesOfAppend
  <2> QED
    BY <2>1, <2>3 DEF NoOtherLeak, Empties, HeldNow, Held
<1>1. SUFFICES heap' = HeldNow' + empties'
  BY DEF NoOtherLeak, Empties, HeldNow
<1>2. CASE Quiet
  <2>1. UNCHANGED <<heap, delivered>>
    BY <1>2, QuietSteps
  <2>2. HeldNow' = HeldNow
    <3>1. CASE session' = session
      BY <3>1 DEF HeldNow, Held
    <3>2. CASE session' \in SessionSet /\ session'.payload = session.payload /\ session # NoSession
      <4>1. session' # NoSession
        BY <3>2, NoSessionIsApart
      <4> QED
        BY <3>2, <4>1 DEF HeldNow, Held
    <3> QED
      BY <1>2, <3>1, <3>2, QuietSteps
  <2> QED
    BY <1>0, <2>1, <2>2 DEF Empties
<1>3. ASSUME NEW memory \in BOOLEAN, NEW again \in BOOLEAN, Arrive(memory, again)
      PROVE  heap' = HeldNow' + empties'
  <2>1. PICK f : f = ThisFrame
    OBVIOUS
  <2>2. f \in FrameSet /\ f.no \in Nat /\ wire.size \in Nat
    BY <1>3, <2>1, ThisFrameProperties DEF Arrive
  <2>3. ASSUME session' \in SessionSet, session'.payload = NULL
        PROVE  HeldNow' = 0
    BY <2>3, NoSessionIsApart DEF HeldNow, Held
  <2>4. CASE Ignored(f, memory)
    BY <1>0, <2>4 DEF Ignored, HeldNow, Held, Empties
  <2>5. CASE Missed(f)
    <3>1. session' \in SessionSet /\ session'.payload = NULL /\ heap' = heap - HeldNow /\ delivered' = delivered
      BY <2>2, <2>5, MissedProperties
    <3>2. empties' = empties
      BY <3>1 DEF Empties
    <3> QED
      BY <1>0, <2>3, <3>1, <3>2
  <2>6. ASSUME NEW r, Continues(r, f)
        PROVE  heap' = HeldNow' + empties'
    <3>1. session' # NoSession /\ session'.payload # NULL
      BY <2>6, NoSessionIsApart DEF Continues
    <3>2. HeldNow' = 1
      BY <3>1 DEF HeldNow, Held
    <3>3. heap' = heap + 1 - HeldNow /\ empties' = empties
      BY <2>6 DEF Continues, Empties
    <3> QED
      BY <1>0, <3>2, <3>3
  <2>7. ASSUME NEW r, Completes(r, f)
        PROVE  heap' = HeldNow' + empties'
    <3>1. PICK payload \in Seq(Unit) :
            /\ delivered' = Append(delivered, [no |-> f.no, size |-> wire.size, payload |-> payload])
            /\ heap' = heap + 1 - HeldNow - (IF payload = <<>> THEN 0 ELSE 1)
      BY <2>7 DEF Completes
    <3>2. PICK x \in Delivery : x = [no |-> f.no, size |-> wire.size, payload |-> payload]
      BY <2>2 DEF Delivery
    <3>3. empties' = empties + (IF payload = <<>> THEN 1 ELSE 0)
      BY <1>0, <3>1, <3>2, EmptiesOfAppend
    <3>4. HeldNow' = 0
      BY <2>3, <2>7 DEF Completes, Ended
    <3> QED
      BY <1>0, <3>1, <3>3, <3>4
  <2>8. ASSUME NEW r, Fails(r, f, memory)
        PROVE  heap' = HeldNow' + empties'
    <3>1. HeldNow' = 0
      BY <2>3, <2>8 DEF Fails, Ended
    <3>2. heap' = heap - HeldNow /\ empties' = empties
      BY <2>8 DEF Fails, Empties
    <3> QED
      BY <1>0, <3>1, <3>2
  <2> QED
    BY <1>3, <2>1, <2>4, <2>5, <2>6, <2>7, <2>8, ArriveCases
<1> QED
  BY <1>2, <1>3, Steps

\* Between two frames the only buffers allocated are the one the session fills and those of the
\* empty transfers handed over: whatever is lost, repeated, timed out or denied memory
THEOREM BuffersAreAccountedFor == Spec => []NoOtherLeak
<1>1. Init => NoOtherLeak
  <2> SUFFICES ASSUME Init PROVE NoOtherLeak
    OBVIOUS
  <2>1. {i \in DOMAIN delivered : delivered[i].payload = <<>>} = {}
    BY DEF Init
  <2>2. Cardinality({}) = 0
    BY FS_EmptySet
  <2> QED
    BY <2>1, <2>2 DEF Init, NoOtherLeak
<1> QED
  BY <1>1, TypesHold, LeakStep, PTL DEF Spec

-----------------------------------------------------------------------------
(***************************************************************************)
(* Order.  InOrderOnce is not inductive: the frame that completed a        *)
(* transfer may come once more.  The session then waits for the next       *)
(* transfer-ID, and the frame is neither its frame nor, being the previous *)
(* one, a reason to start again.                                           *)
(***************************************************************************)
OrderInv ==
  /\ InOrderOnce
  /\ \A i \in DOMAIN delivered :
       /\ delivered[i].no <= wire.no
       /\ delivered[i].no = wire.no /\ wire.frame # 0 =>
            /\ wire.again
            /\ wire.frame = LastFrame(wire.size)
            /\ session \in SessionSet
            /\ ~session.timedOut
            /\ session.tid = (wire.no + 1) % TidMod

\* no session is ready for the frame that completed a transfer
LEMMA CompletedIsPast ==
  ASSUME Types, OnBus, NEW f, f = ThisFrame, NEW r, Ready(r, f),
         session \in SessionSet, ~session.timedOut, session.tid = (wire.no + 1) % TidMod
  PROVE  FALSE
<1>1. f.tid = wire.no % TidMod /\ wire.no \in Nat
  BY ThisFrameProperties
<1>2. session # NoSession
  BY NoSessionIsApart
<1>3. TidDifference(session.tid, f.tid) = 1
  <2>1. TidDifference(session.tid, f.tid) = (wire.no + 1 - wire.no) % TidMod
    BY <1>1, TidDifferenceOf
  <2>2. wire.no + 1 - wire.no = 1
    BY <1>1
  <2>3. 1 % TidMod = 1
    BY TidAssumption, SmallRemainder
  <2> QED
    BY <2>1, <2>2, <2>3
<1>4. ~NeedRestart(session, f)
  BY <1>3 DEF NeedRestart
<1>5. f.tid # session.tid
  <2>1. TidDifference(session.tid, session.tid) = 0
    <3>1. session.tid \in Int /\ session.tid - session.tid = 0
      BY <1>1, TidInRange, TidAssumption
    <3>2. 0 % TidMod = 0
      BY TidAssumption, SmallRemainder
    <3> QED
      BY <3>1, <3>2 DEF TidDifference
  <2> QED
    BY <1>3, <2>1
<1> QED
  BY <1>2, <1>4, <1>5 DEF Ready

LEMMA OrderStep == Types /\ OrderInv /\ [Next]_vars => OrderInv'
<1> SUFFICES ASSUME Types, OrderInv, [Next]_vars PROVE OrderInv'
  OBVIOUS
<1>0. /\ delivered \in Seq(Delivery) /\ Len(delivered) \in Nat /\ DOMAIN delivered = 1..Len(delivered)
      /\ \A i \in 1..Len(delivered) : delivered[i].no \in Nat
  <2>1. delivered \in Seq(Delivery)
    BY DEF Types, Delivery
  <2>2. Len(delivered) \in Nat /\ DOMAIN delivered = 1..Len(delivered)
    BY <2>1, LenProperties
  <2>3. ASSUME NEW i \in 1..Len(delivered)
        PROVE  delivered[i].no \in Nat
    <3>1. delivered[i] \in Delivery
      BY <2>1, ElementOfSeq
    <3> QED
      BY <3>1 DEF Delivery
  <2> QED
    BY <2>1, <2>2, <2>3
<1>1. CASE Quiet
  <2>1. delivered' = delivered
    BY <1>1, QuietSteps
  <2>2. ASSUME NEW i \in DOMAIN delivered
        PROVE  /\ delivered[i].no <= wire'.no
               /\ delivered[i].no = wire'.no => wire'.frame = 0 \/ (UNCHANGED <<wire, session>>)
    <3>1. delivered[i].no <= wire.no /\ delivered[i].no \in Nat
      BY <1>0 DEF OrderInv
    <3>2. CASE \E size \in Sizes : Send(size)
      <4>1. wire'.no = wire.no + 1 /\ wire.no \in Nat
        BY <3>2 DEF Send, Types
      <4> QED
        BY <3>1, <4>1
    <3>3. CASE Lose
      <4>1. wire'.no = wire.no /\ ~wire.again /\ wire.frame # 0
        BY <3>3 DEF Lose, OnBus, Types
      <4> QED
        BY <3>1, <4>1 DEF OrderInv
    <3>4. CASE Silence
      <4>1. wire' = wire /\ ~wire.again
        BY <3>4 DEF Silence
      <4> QED
        BY <3>1, <4>1 DEF OrderInv
    <3>5. CASE UNCHANGED vars
      BY <3>1, <3>5 DEF vars
    <3> QED
      BY <1>1, <3>2, <3>3, <3>4, <3>5 DEF Quiet
  <2> QED
    BY <2>1, <2>2 DEF OrderInv, InOrderOnce
<1>2. ASSUME NEW memory \in BOOLEAN, NEW again \in BOOLEAN, Arrive(memory, again)
      PROVE  OrderInv'
  <2>1. PICK f : f = ThisFrame
    OBVIOUS
  <2>2. OnBus /\ f \in FrameSet /\ f.no = wire.no /\ wire.no \in Nat /\ wire.size \in Nat
        /\ f.tid = wire.no % TidMod /\ (f.eot <=> wire.frame = LastFrame(wire.size))
    BY <1>2, <2>1, ThisFrameProperties DEF Arrive
  <2>3. /\ wire'.no = wire.no /\ wire'.size = wire.size /\ wire'.again = again
        /\ wire'.frame = IF again THEN wire.frame ELSE NextFrame
        /\ again => ~wire.again
    BY <1>2, WireSteps
  <2>4. ASSUME NEW i \in DOMAIN delivered
        PROVE  delivered[i].no <= wire'.no /\ (delivered[i].no = wire'.no => wire'.frame = 0)
    <3>1. delivered[i].no <= wire'.no
      BY <2>3 DEF OrderInv
    <3>2. CASE delivered[i].no = wire.no
      <4>1. wire.again /\ wire.frame = LastFrame(wire.size)
        BY <2>2, <3>2 DEF OrderInv, OnBus
      <4>2. wire'.frame = NextFrame
        BY <2>3, <4>1
      <4> QED
        BY <3>1, <4>1, <4>2 DEF NextFrame
    <3> QED
      BY <2>3, <3>1, <3>2
  <2>5. ASSUME delivered' = delivered
        PROVE  OrderInv'
    BY <2>4, <2>5 DEF OrderInv, InOrderOnce
  <2>6. ASSUME NEW r, Ready(r, f), Completes(r, f)
        PROVE  OrderInv'
    <3>1. PICK payload \in Seq(Unit) :
            delivered' = Append(delivered, [no |-> f.no, size |-> wire.size, payload |-> payload])
      BY <2>6 DEF Completes
    <3>2. PICK x \in Delivery : x = [no |-> f.no, size |-> wire.size, payload |-> payload]
      BY <2>2 DEF Delivery
    <3> DEFINE n == Len(delivered)
    <3>3. /\ DOMAIN delivered' = 1..n + 1 /\ n \in Nat
          /\ \A i \in 1..n : delivered'[i] = delivered[i]
          /\ delivered'[n + 1] = x
          /\ x.no = wire.no
      <4>1. Append(delivered, x) \in Seq(Delivery) /\ Len(Append(delivered, x)) = n + 1
        BY <1>0, AppendProperties
      <4> QED
        BY <1>0, <2>2, <3>1, <3>2, <4>1, AppendProperties, LenProperties
    <3>4. \A i \in 1..n : delivered[i].no < wire.no
      <4> SUFFICES ASSUME NEW i \in 1..n, ~(delivered[i].no < wire.no)
                   PROVE  FALSE
        OBVIOUS
      <4>1. i \in DOMAIN delivered /\ delivered[i].no = wire.no
        BY <1>0, <2>2 DEF OrderInv
      <4>2. session \in SessionSet /\ ~session.timedOut /\ session.tid = (wire.no + 1) % TidMod
        BY <2>2, <4>1 DEF OrderInv, OnBus
      <4> QED
        BY <2>1, <2>2, <2>6, <4>2, CompletedIsPast
    <3>5. InOrderOnce'
      <4> SUFFICES ASSUME NEW i \in 1..n + 1, NEW j \in 1..n + 1, i < j
                   PROVE  delivered'[i].no < delivered'[j].no
        BY <3>3 DEF InOrderOnce
      <4>1. i \in 1..n
        BY <3>3
      <4>2. CASE j = n + 1
        BY <3>3, <3>4, <4>1, <4>2
      <4>3. CASE j \in 1..n
        BY <1>0, <3>3, <4>1, <4>3 DEF OrderInv, InOrderOnce
      <4> QED
        BY <3>3, <4>2, <4>3
    <3>6. ASSUME wire'.frame # 0
          PROVE  /\ wire'.again
                 /\ wire'.frame = LastFrame(wire'.size)
                 /\ session' \in SessionSet
                 /\ ~session'.timedOut
                 /\ session'.tid = (wire'.no + 1) % TidMod
      <4>1. wire.frame = LastFrame(wire.size)
        BY <2>2, <2>6 DEF Completes
      <4>2. again
        BY <2>3, <3>6, <4>1 DEF NextFrame
      <4>3. (f.tid + 1) % TidMod = (wire.no + 1) % TidMod
        BY <2>2, NextTid
      <4> QED
        BY <2>3, <2>6, <4>1, <4>2, <4>3 DEF Completes, Ended
    <3>7. ASSUME NEW i \in DOMAIN delivered'
          PROVE  /\ delivered'[i].no <= wire'.no
                 /\ delivered'[i].no = wire'.no /\ wire'.frame # 0 =>
                      /\ wire'.again
                      /\ wire'.frame = LastFrame(wire'.size)
                      /\ session' \in SessionSet
                      /\ ~session'.timedOut
                      /\ session'.tid = (wire'.no + 1) % TidMod
      <4>1. delivered'[i].no <= wire'.no
        BY <1>0, <2>2, <2>3, <3>3, <3>4
      <4> QED
        BY <3>6, <4>1
    <3> QED
      BY <3>5, <3>7 DEF OrderInv
  <2>7. ASSUME ~\E r \in SessionSet : Ready(r, f) /\ Completes(r, f)
        PROVE  delivered' = delivered
    <3>1. CASE Ignored(f, memory)
      BY <3>1 DEF Ignored
    <3>2. CASE Missed(f)
      BY <2>2, <3>2, MissedProperties
    <3>3. ASSUME NEW r, Continues(r, f) \/ Fails(r, f, memory)
          PROVE  delivered' = delivered
      BY <3>3 DEF Continues, Fails
    <3> QED
      BY <1>2, <2>1, <2>7, <3>1, <3>2, <3>3, ArriveCases
  <2> QED
    BY <2>5, <2>6, <2>7
<1> QED
  BY <1>1, <1>2, Steps

\* No transfer is handed over twice or after a later one, however long transfers and frames are
\* repeated and lost and however often the transfer-IDs come round
THEOREM DeliveredInOrderOnce == Spec => []InOrderOnce
<1>1. Init => OrderInv
  BY DEF Init, OrderInv, InOrderOnce
<1>2. OrderInv => InOrderOnce
  BY DEF OrderInv
<1> QED
  BY <1>1, <1>2, TypesHold, OrderStep, PTL DEF Spec

-----------------------------------------------------------------------------
(***************************************************************************)
(* Transfers.  A session that follows the bus expects a frame of transfer  *)
(* e, which is not long past, and everything it has copied is of e.  Its   *)
(* transfer-ID is that of the transfer on the bus only if e is that        *)
(* transfer, as long as fewer transfers are missed than there are          *)
(* transfer-IDs.                                                           *)
(***************************************************************************)
Expects(e) ==
  /\ session.tid = e % TidMod
  /\ \A i \in 1..Len(session.crc) : session.crc[i][1] = e
  /\ e = wire.no + 1 => session.crc = <<>> /\ session.toggle /\ (wire.frame # 1 \/ wire.again)
  /\ e = wire.no /\ wire.frame = 1 /\ wire.again => ~session.toggle
  /\ e = wire.no /\ wire.frame = 1 /\ ~wire.again => session.crc = <<>> /\ session.toggle

FollowInv ==
  /\ started <= wire.no
  /\ Following => /\ wire.no - started <= Gap
                  /\ \E e \in started..wire.no + 1 : Expects(e)

\* the transfer-ID on the bus is that of the transfer expected
LEMMA ExpectsThis ==
  ASSUME Gap < TidMod, Types, FollowInv, Following, session.tid = wire.no % TidMod
  PROVE  Expects(wire.no)
<1>1. PICK e \in started..wire.no + 1 : Expects(e)
  BY DEF FollowInv
<1>2. /\ wire.no \in Nat /\ started \in Nat /\ e \in Int /\ wire.no - started <= Gap
      /\ TidMod \in Nat \ {0} /\ TidMod >= 3 /\ Gap \in Nat
  BY <1>1, TidAssumption, GapAssumption DEF FollowInv, Types
<1>3. e % TidMod = wire.no % TidMod
  BY <1>1 DEF Expects
<1>4. e < wire.no + TidMod /\ wire.no < e + TidMod
  BY <1>1, <1>2
<1>5. e = wire.no
  <2>1. PICK n \in Int : n = wire.no
    BY <1>2
  <2>2. TidMod \in Nat \ {0} /\ e \in Int /\ e % TidMod = n % TidMod /\ e < n + TidMod /\ n < e + TidMod
    BY <1>2, <1>3, <1>4, <2>1
  <2>3. e = n
    BY <2>2, SameRemainder
  <2> QED
    BY <2>1, <2>3
<1> QED
  BY <1>1, <1>5

\* a session that takes the frame on the bus holds frames of its transfer only, and none before
\* the first
LEMMA TakesThis ==
  ASSUME Gap < TidMod, Types, FollowInv, OnBus, NEW f, f = ThisFrame, NEW r, Ready(r, f)
  PROVE  /\ r.crc \in Seq(Unit)
         /\ \A i \in 1..Len(r.crc) : r.crc[i][1] = wire.no
         /\ f.sot => r.crc = <<>>
         /\ ~f.sot => Following /\ r = session
<1>1. /\ f.tid = wire.no % TidMod /\ (f.sot <=> wire.frame = 1) /\ (f.sot => f.toggle)
      /\ f \in FrameSet
  BY ThisFrameProperties
<1>2. r \in SessionSet /\ r.crc \in Seq(Unit)
  BY DEF Ready, SessionSet
<1>3. CASE f.sot /\ r.crc = <<>>
  BY <1>2, <1>3
<1>4. CASE ~(f.sot /\ r.crc = <<>>)
  <2>1. r = session /\ session # NoSession /\ ~NeedRestart(session, f)
    BY <1>4 DEF Ready
  <2>2. Following
    BY <2>1 DEF Following, NeedRestart
  <2>3. Expects(wire.no)
    BY <1>1, <2>1, <2>2, ExpectsThis DEF Ready
  <2>4. \A i \in 1..Len(r.crc) : r.crc[i][1] = wire.no
    BY <2>1, <2>3 DEF Expects
  <2>5. ASSUME f.sot
        PROVE  r.crc = <<>>
    <3>1. session.toggle
      BY <1>1, <2>1, <2>5 DEF Ready
    <3>2. wire.frame = 1
      BY <1>1, <2>5
    <3> QED
      BY <2>1, <2>3, <3>1, <3>2 DEF Expects
  <2> QED
    BY <1>2, <2>1, <2>2, <2>4, <2>5
<1> QED
  BY <1>3, <1>4

\* a session that took a frame has started recently
LEMMA StartedRecently ==
  ASSUME Gap < TidMod, Types, FollowInv, NEW memory \in BOOLEAN, NEW again \in BOOLEAN,
         Arrive(memory, again), NEW f, f = ThisFrame, NEW r, Ready(r, f),
         session' \in SessionSet, ~session'.timedOut
  PROVE  started' \in Nat /\ started' <= wire.no /\ wire.no - started' <= Gap
<1>1. /\ OnBus /\ wire.no \in Nat /\ started \in Nat /\ Gap \in Nat /\ started <= wire.no
      /\ started' = IF f.sot /\ session' # session THEN wire.no ELSE started
  BY GapAssumption DEF Arrive, Types, FollowInv, ThisFrame
<1>2. CASE f.sot /\ session' # session
  BY <1>1, <1>2
<1>3. CASE ~(f.sot /\ session' # session)
  <2>1. Following
    <3>1. CASE ~f.sot
      BY <1>1, <3>1, TakesThis
    <3>2. CASE session' = session
      BY <3>2, NoSessionIsApart DEF Following
    <3> QED
      BY <1>3, <3>1, <3>2
  <2> QED
    BY <1>1, <1>3, <2>1 DEF FollowInv
<1> QED
  BY <1>2, <1>3

\* every unit of a frame is of its transfer
LEMMA UnitsOfThis ==
  ASSUME Types, OnBus, NEW f, f = ThisFrame
  PROVE  f.units \in Seq(Unit) /\ \A i \in 1..Len(f.units) : f.units[i][1] = wire.no
<1>1. PICK no \in Nat, size \in Nat : no = wire.no /\ size = wire.size
  BY ThisFrameProperties
<1>2. PICK k \in 1..LastFrame(size) : k = wire.frame
  BY <1>1, ThisFrameProperties
<1>3. PICK u : u = f.units
  OBVIOUS
<1>4. u = Frame(no, size, k).units
  BY <1>1, <1>2, <1>3 DEF ThisFrame
<1> QED
  BY <1>1, <1>3, <1>4, FrameUnits

\* two sequences of units of one transfer
LEMMA UnitsOfOne ==
  ASSUME NEW c \in Seq(Unit), NEW u \in Seq(Unit), NEW no,
         \A i \in 1..Len(c) : c[i][1] = no,
         \A i \in 1..Len(u) : u[i][1] = no
  PROVE  c \o u \in Seq(Unit) /\ \A i \in 1..Len(c \o u) : (c \o u)[i][1] = no
<1>1. /\ c \o u \in Seq(Unit)
      /\ Len(c \o u) = Len(c) + Len(u)
      /\ \A i \in 1..Len(c) + Len(u) : (c \o u)[i] = IF i <= Len(c) THEN c[i] ELSE u[i - Len(c)]
  BY ConcatProperties
<1>2. Len(c) \in Nat /\ Len(u) \in Nat
  BY LenProperties
<1>3. ASSUME NEW i \in 1..Len(c \o u)
      PROVE  (c \o u)[i][1] = no
  <2>1. CASE i <= Len(c)
    BY <1>1, <1>2, <2>1
  <2>2. CASE ~(i <= Len(c))
    <3>1. i - Len(c) \in 1..Len(u)
      BY <1>1, <1>2, <2>2
    <3> QED
      BY <1>1, <2>2, <3>1
  <2> QED
    BY <2>1, <2>2
<1> QED
  BY <1>1, <1>3

\* what a frame adds to what the session holds is of the same transfer
LEMMA TakenUnits ==
  ASSUME Gap < TidMod, Types, FollowInv, OnBus, NEW f, f = ThisFrame, NEW r, Ready(r, f)
  PROVE  \A i \in 1..Len(r.crc \o f.units) : (r.crc \o f.units)[i][1] = wire.no
<1>1. r.crc \in Seq(Unit) /\ \A i \in 1..Len(r.crc) : r.crc[i][1] = wire.no
  BY TakesThis
<1>2. f.units \in Seq(Unit) /\ \A i \in 1..Len(f.units) : f.units[i][1] = wire.no
  BY UnitsOfThis
<1>3. PICK c, u, no : c = r.crc /\ u = f.units /\ no = wire.no
  OBVIOUS
<1>4. \A i \in 1..Len(c \o u) : (c \o u)[i][1] = no
  <2>1. c \in Seq(Unit) /\ \A i \in 1..Len(c) : c[i][1] = no
    BY <1>1, <1>3
  <2>2. u \in Seq(Unit) /\ \A i \in 1..Len(u) : u[i][1] = no
    BY <1>2, <1>3
  <2> QED
    BY <2>1, <2>2, UnitsOfOne, Zenon
<1> QED
  BY <1>3, <1>4

LEMMA FollowInit == Init => FollowInv
BY DEF Init, FollowInv, Following

LEMMA FollowStep ==
  ASSUME Gap < TidMod, Types, FollowInv, [Next]_vars
  PROVE  FollowInv'
<1>0. /\ wire.no \in Nat /\ wire.frame \in Nat /\ wire.again \in BOOLEAN
      /\ started \in Nat /\ started <= wire.no
  BY DEF Types, FollowInv
<1>1. CASE \E size \in Sizes : Send(size)
  <2>1. /\ ~OnBus /\ wire'.no = wire.no + 1 /\ wire'.frame = 1 /\ ~wire'.again
        /\ session' = session /\ started' = started
        /\ Following => wire.no + 1 - started <= Gap
    BY <1>1 DEF Send
  <2>2. started' <= wire'.no
    BY <1>0, <2>1
  <2>3. ASSUME Following'
        PROVE  wire'.no - started' <= Gap /\ \E e \in started'..wire'.no + 1 : Expects(e)'
    <3>1. Following
      BY <2>1, <2>3 DEF Following
    <3>2. PICK e \in started..wire.no + 1 : Expects(e)
      BY <3>1 DEF FollowInv
    <3>3. e \in started'..wire'.no + 1 /\ e # wire'.no + 1 /\ e \in Int
      BY <1>0, <2>1, <3>2
    <3>4. e = wire'.no => session.crc = <<>> /\ session.toggle
      BY <2>1, <3>2 DEF Expects
    <3>5. Expects(e)'
      BY <2>1, <3>2, <3>3, <3>4 DEF Expects
    <3>6. wire'.no - started' <= Gap
      BY <1>0, <2>1, <3>1
    <3> QED
      BY <3>3, <3>5, <3>6, Zenon
  <2> QED
    BY <2>2, <2>3 DEF FollowInv
<1>2. CASE Lose
  <2>1. /\ OnBus /\ wire'.no = wire.no /\ wire'.frame = NextFrame
        /\ session' = session /\ started' = started
    BY <1>2 DEF Lose, Types
  <2>2. wire'.frame # 1
    BY <2>1, NextFrameType
  <2>3. ASSUME Following'
        PROVE  wire'.no - started' <= Gap /\ \E e \in started'..wire'.no + 1 : Expects(e)'
    <3>1. Following
      BY <2>1, <2>3 DEF Following
    <3>2. PICK e \in started..wire.no + 1 : Expects(e)
      BY <3>1 DEF FollowInv
    <3>3. Expects(e)'
      BY <2>1, <2>2, <3>2 DEF Expects
    <3> QED
      BY <2>1, <3>1, <3>2, <3>3 DEF FollowInv
  <2> QED
    BY <1>0, <2>1, <2>3 DEF FollowInv
<1>3. CASE Silence
  <2>1. session'.timedOut /\ started' = started /\ wire' = wire
    <3>1. session \in SessionSet /\ session' = [session EXCEPT !.timedOut = TRUE]
      BY <1>3 DEF Silence, Following, Types
    <3> QED
      BY <1>3, <3>1 DEF Silence, SessionSet
  <2> QED
    BY <1>0, <2>1 DEF FollowInv, Following
<1>4. CASE UNCHANGED vars
  BY <1>4 DEF vars, FollowInv, Following, Expects
<1>5. ASSUME NEW memory \in BOOLEAN, NEW again \in BOOLEAN, Arrive(memory, again)
      PROVE  FollowInv'
  <2>1. PICK f : f = ThisFrame
    OBVIOUS
  <2>2. /\ OnBus /\ f \in FrameSet /\ f.tid = wire.no % TidMod
        /\ (f.sot <=> wire.frame = 1) /\ (f.sot => f.toggle)
        /\ f.sot \in BOOLEAN /\ f.toggle \in BOOLEAN
    BY <1>5, <2>1, ThisFrameProperties DEF Arrive, FrameSet
  <2>3. /\ wire'.no = wire.no /\ wire'.again = again
        /\ wire'.frame = IF again THEN wire.frame ELSE NextFrame
        /\ again => ~wire.again
    BY <1>5, WireSteps
  <2>4. wire'.frame = 1 => again /\ wire.frame = 1 /\ f.sot /\ ~wire.again
    BY <2>2, <2>3, NextFrameType
  <2>5. started' = IF f.sot /\ session' # session THEN wire.no ELSE started
    BY <1>5, <2>1 DEF Arrive, ThisFrame
  <2>6. CASE Ignored(f, memory)
    <3>1. session' = session /\ started' = started
      BY <2>5, <2>6 DEF Ignored
    <3>2. ASSUME Following'
          PROVE  wire'.no - started' <= Gap /\ \E e \in started'..wire'.no + 1 : Expects(e)'
      <4>1. Following
        BY <3>1, <3>2 DEF Following
      <4>2. PICK e \in started..wire.no + 1 : Expects(e)
        BY <4>1 DEF FollowInv
      <4>3. e = wire.no /\ wire'.frame = 1 => ~session.toggle
        <5> SUFFICES ASSUME e = wire.no, wire'.frame = 1, session.toggle
                     PROVE  FALSE
          BY DEF Ignored
        <5>1. session.toggle = TRUE /\ f.toggle = TRUE
          <6>1. session.toggle \in BOOLEAN
            BY <4>1 DEF Types, Following, SessionSet
          <6> QED
            BY <2>2, <2>4, <6>1
        <5>2. session.tid = f.tid
          BY <2>2, <4>2 DEF Expects
        <5> QED
          BY <2>6, <4>1, <5>1, <5>2 DEF Ignored, Following
      <4>4. Expects(e)'
        BY <2>3, <2>4, <3>1, <4>2, <4>3 DEF Expects
      <4> QED
        BY <2>3, <3>1, <4>1, <4>2, <4>4 DEF FollowInv
    <3> QED
      BY <1>0, <2>3, <3>1, <3>2 DEF FollowInv
  <2>7. CASE Missed(f)
    <3>1. session'.timedOut /\ ~f.sot
      BY <2>2, <2>7, MissedProperties DEF Missed
    <3> QED
      BY <1>0, <2>3, <2>5, <3>1 DEF FollowInv, Following
  <2>8. ASSUME NEW r \in SessionSet, Ready(r, f), Continues(r, f) \/ Completes(r, f) \/ Fails(r, f, memory)
        PROVE  FollowInv'
    <3>1. session' \in SessionSet /\ ~session'.timedOut
      BY <2>8 DEF Continues, Completes, Fails, Ended
    <3>2. started' \in Nat /\ started' <= wire.no /\ wire.no - started' <= Gap
      BY <1>5, <2>1, <2>8, <3>1, StartedRecently
    <3>3. CASE Continues(r, f)
      <4>1. /\ session'.tid = f.tid /\ session'.toggle = ~f.toggle /\ session'.crc = r.crc \o f.units
        BY <3>3 DEF Continues
      <4>2. PICK all : all = r.crc \o f.units
        OBVIOUS
      <4>3. \A i \in 1..Len(all) : all[i][1] = wire.no
        <5>1. OnBus /\ f = ThisFrame /\ Ready(r, f)
          BY <2>1, <2>2, <2>8
        <5> QED
          BY <4>2, <5>1, TakenUnits
      <4>4. wire'.frame = 1 => again /\ ~session'.toggle
        BY <2>2, <2>4, <4>1
      <4>5. wire.no # wire.no + 1
        BY <1>0
      <4>6. Expects(wire.no)'
        BY <2>2, <2>3, <4>1, <4>2, <4>3, <4>4, <4>5 DEF Expects
      <4>7. wire'.no \in started'..wire'.no + 1
        BY <1>0, <2>3, <3>2
      <4> QED
        BY <2>3, <3>2, <4>6, <4>7 DEF FollowInv
    <3>4. CASE Ended(f)
      <4>1. /\ session'.tid = (f.tid + 1) % TidMod /\ session'.toggle = TRUE /\ session'.crc = <<>>
        BY <3>4 DEF Ended
      <4>2. PICK e \in Int : e = wire.no + 1
        BY <1>0
      <4>3. session'.tid = e % TidMod
        <5>1. PICK no \in Int : no = wire.no
          BY <1>0
        <5> QED
          BY <2>2, <4>1, <4>2, <5>1, NextTid
      <4>4. wire'.frame # 1 \/ wire'.again
        BY <2>3, <2>4
      <4>5. e # wire'.no
        BY <1>0, <2>3, <4>2
      <4>6. Expects(e)'
        BY <2>3, <4>1, <4>3, <4>4, <4>5, EmptySeq DEF Expects
      <4>7. e \in started'..wire'.no + 1
        BY <1>0, <2>3, <3>2, <4>2
      <4> QED
        BY <2>3, <3>2, <4>6, <4>7 DEF FollowInv
    <3> QED
      BY <2>8, <3>3, <3>4 DEF Completes, Fails
  <2> QED
    BY <1>5, <2>1, <2>6, <2>7, <2>8, ArriveCases
<1> QED
  BY <1>1, <1>2, <1>3, <1>4, <1>5, Steps DEF Quiet

-----------------------------------------------------------------------------
(***************************************************************************)
(* What is handed over.                                                    *)
(***************************************************************************)

\* the payload is that of transfer no, as far as there is room
Whole(payload, no, size) ==
  /\ Len(payload) = IF size < Extent THEN size ELSE Extent
  /\ \A k \in 1..Len(payload) : payload[k] = <<no, k>>

\* what the last frame of a transfer carries
LEMMA LastUnits ==
  ASSUME Types, OnBus, NEW f, f = ThisFrame, f.eot
  PROVE  /\ f.units \in Seq(Unit)
         /\ Len(f.units) = IF wire.size <= 1 THEN wire.size ELSE 3
         /\ \A i \in 1..Len(f.units) : f.units[i] = Content(wire.no, wire.size)[wire.frame + i - 1]
         /\ wire.frame = IF wire.size <= 1 THEN 1 ELSE wire.size
         /\ f.sot <=> wire.size <= 1
<1>1. PICK no \in Nat, size \in Nat : no = wire.no /\ size = wire.size
  BY ThisFrameProperties
<1>2. PICK k \in 1..LastFrame(size) : k = wire.frame
  BY <1>1, ThisFrameProperties
<1>3. PICK u : u = f.units
  OBVIOUS
<1>4. u = Frame(no, size, k).units
  BY <1>1, <1>2, <1>3 DEF ThisFrame
<1>5. k = LastFrame(size)
  BY <1>1, <1>2, ThisFrameProperties
<1>6. /\ u \in Seq(Unit)
      /\ Len(u) = IF size <= 1 THEN size ELSE 3
      /\ \A i \in 1..Len(u) : u[i] = Content(no, size)[k + i - 1]
  <2>1. u = Rest(no, size)
    BY <1>4, <1>5 DEF Rest
  <2>2. u \in Seq(Unit) /\ Len(u) = IF size <= 1 THEN size ELSE 3
    BY <2>1, RestLength
  <2>3. \A i \in 1..Len(u) : u[i] = Content(no, size)[k + i - 1]
    BY <1>5, <2>1, RestUnits
  <2> QED
    BY <2>2, <2>3
<1>7. k = IF size <= 1 THEN 1 ELSE size
  BY <1>5 DEF LastFrame
<1>8. f.sot <=> k = 1
  BY <1>2, ThisFrameProperties
<1>9. f.sot <=> size <= 1
  BY <1>7, <1>8
<1> QED
  BY <1>1, <1>2, <1>3, <1>6, <1>7, <1>9

\* a transfer of one frame
LEMMA PayloadOfOneFrame ==
  ASSUME NEW no \in Nat, NEW size \in Nat, size <= 1, NEW u \in Seq(Unit), Len(u) = size,
         \A i \in 1..Len(u) : u[i] = Content(no, size)[i]
  PROVE  Whole(Truncated(u), no, size)
<1>1. \A i \in 1..Len(u) : u[i] = <<no, i>>
  BY ContentData
<1>2. /\ Len(Truncated(u)) = IF Len(u) < Extent THEN Len(u) ELSE Extent
      /\ \A i \in 1..Len(Truncated(u)) : Truncated(u)[i] = u[i]
  BY TruncatedProperties
<1>3. Len(Truncated(u)) \in Nat /\ Len(Truncated(u)) <= Len(u)
  BY <1>2, ExtentAssumption
<1> QED
  BY <1>1, <1>2, <1>3 DEF Whole

\* frames of one transfer whose CRC matches are all frames of it
LEMMA MatchingCrc ==
  ASSUME NEW no \in Nat, NEW size \in Nat, size >= 2, NEW c \in Seq(Unit), NEW u \in Seq(Unit),
         Len(u) = 3, u[1] = <<no, size>>, CrcMatches(c \o u),
         \A i \in 1..Len(c \o u) : (c \o u)[i][1] = no
  PROVE  c \o u = Content(no, size)
<1>1. PICK all : all = c \o u
  OBVIOUS
<1>2. /\ Len(c) \in Nat
      /\ all \in Seq(Unit)
      /\ Len(all) = Len(c) + 3
      /\ all[Len(c) + 1] = <<no, size>>
  <2>1. /\ c \o u \in Seq(Unit)
        /\ Len(c \o u) = Len(c) + Len(u)
        /\ \A i \in 1..Len(c) + Len(u) : (c \o u)[i] = IF i <= Len(c) THEN c[i] ELSE u[i - Len(c)]
    BY ConcatProperties
  <2>2. Len(c) \in Nat
    BY LenProperties
  <2>3. Len(c) + 1 \in 1..Len(c) + Len(u) /\ ~(Len(c) + 1 <= Len(c)) /\ Len(c) + 1 - Len(c) = 1
    BY <2>2
  <2>4. (c \o u)[Len(c) + 1] = u[1]
    BY <2>1, <2>3
  <2> QED
    BY <1>1, <2>1, <2>2, <2>4
<1>3. PICK n \in Nat : n = Len(c) + 1
  BY <1>2
<1>4. all[1][1] = no
  BY <1>1, <1>2
<1>5. all = Content(no, n)
  <2>1. all = Content(all[1][1], Len(all) - CrcUnits)
    BY <1>1 DEF CrcMatches
  <2>2. Len(all) - CrcUnits = n
    BY <1>2, <1>3 DEF CrcUnits
  <2> QED
    BY <1>4, <2>1, <2>2
<1>7. n \in 1..n
  BY <1>2, <1>3
<1>8. all[n] = <<no, n>>
  BY <1>3, <1>5, <1>7, ContentData
<1>9. n = size
  BY <1>2, <1>3, <1>8
<1> QED
  BY <1>1, <1>5, <1>9

\* the frames of a transfer without its CRC
LEMMA PayloadOfContent ==
  ASSUME NEW no \in Nat, NEW size \in Nat, size >= 2, NEW w, NEW f, ~SingleFrame(f),
         w.payload = Truncated(Content(no, size)), w.total = size + 2
  PROVE  Whole(WithoutCrc(w, f), no, size)
<1>1. PICK p : p = w.payload
  OBVIOUS
<1>2. Content(no, size) \in Seq(Unit) /\ Len(Content(no, size)) = size + 2
  BY ContentLength
<1>3. /\ p \in Seq(Unit)
      /\ Len(p) = IF size + 2 < Extent THEN size + 2 ELSE Extent
      /\ \A i \in 1..Len(p) : p[i] = Content(no, size)[i]
  BY <1>1, <1>2, TruncatedProperties
<1>4. Extent \in Nat /\ Extent >= 1 /\ Len(p) \in Nat /\ Len(p) <= size + 2
  BY <1>3, ExtentAssumption
<1>5. \A i \in 1..Len(p) : i <= size => p[i] = <<no, i>>
  BY <1>3, <1>4, ContentData
<1>6. CASE Extent <= size
  <2>1. Len(p) = Extent
    BY <1>3, <1>4, <1>6
  <2>2. w.total - Len(w.payload) >= CrcUnits
    BY <1>1, <1>4, <1>6, <2>1 DEF CrcUnits
  <2>3. WithoutCrc(w, f) = p
    BY <1>1, <2>2 DEF WithoutCrc
  <2> QED
    BY <1>4, <1>5, <1>6, <2>1, <2>3 DEF Whole
<1>7. CASE Extent > size
  <2>1. w.total - Len(w.payload) = size + 2 - Len(p) /\ ~(size + 2 - Len(p) >= 2)
    BY <1>1, <1>3, <1>4, <1>7
  <2>2. Len(p) - (2 - (size + 2 - Len(p))) = size
    BY <1>4
  <2>3. WithoutCrc(w, f) = SubSeq(p, 1, size)
    BY <1>1, <2>1, <2>2 DEF WithoutCrc, CrcUnits
  <2>4. size <= Len(p)
    BY <1>3, <1>4, <1>7
  <2>5. Len(SubSeq(p, 1, size)) = size /\ \A i \in 1..size : SubSeq(p, 1, size)[i] = p[i]
    BY <1>3, <2>4, PrefixProperties
  <2> QED
    BY <1>4, <1>5, <1>7, <2>3, <2>4, <2>5 DEF Whole
<1> QED
  BY <1>4, <1>6, <1>7

\* a transfer is only completed with all of it
LEMMA CompletedIsWhole ==
  ASSUME Gap < TidMod, Types, FollowInv, OnBus, NEW f, f = ThisFrame, NEW r, Ready(r, f),
         f.eot, Right(r, f), NEW payload, payload = WithoutCrc(Written(r, f), f)
  PROVE  Whole(payload, wire.no, wire.size)
<1>1. PICK no \in Nat, size \in Nat, k \in Nat : no = wire.no /\ size = wire.size /\ k = wire.frame
  BY ThisFrameProperties
<1>2. PICK u, c : u = f.units /\ c = r.crc
  OBVIOUS
<1>3. /\ u \in Seq(Unit)
      /\ Len(u) = IF size <= 1 THEN size ELSE 3
      /\ \A i \in 1..Len(u) : u[i] = Content(no, size)[k + i - 1]
      /\ k = IF size <= 1 THEN 1 ELSE size
      /\ f.sot <=> size <= 1
  BY <1>1, <1>2, LastUnits
<1>4. f \in FrameSet
  BY ThisFrameProperties
<1>5. c \in Seq(Unit) /\ (f.sot => c = <<>>)
  BY <1>2, TakesThis
<1>6. PICK w : w = Written(r, f)
  OBVIOUS
<1>7. w.payload = Truncated(c \o u) /\ w.total = Len(c \o u) /\ c \o u \in Seq(Unit)
  <2>1. r \in SessionSet /\ Copied(r)
    BY DEF Ready
  <2> QED
    BY <1>2, <1>4, <1>6, <2>1, WrittenProperties
<1>8. CASE size <= 1
  <2>1. c = <<>> /\ SingleFrame(f)
    BY <1>3, <1>5, <1>8 DEF SingleFrame
  <2>2. c \o u = u
    BY <1>3, <2>1, ConcatEmptySeq
  <2>3. payload = Truncated(u)
    BY <1>6, <1>7, <2>1, <2>2 DEF WithoutCrc
  <2>4. \A i \in 1..Len(u) : u[i] = Content(no, size)[i]
    BY <1>3, <1>8
  <2>5. Len(u) = size
    BY <1>3, <1>8
  <2> QED
    BY <1>1, <1>3, <1>8, <2>3, <2>4, <2>5, PayloadOfOneFrame
<1>9. CASE size >= 2
  <2>1. ~SingleFrame(f) /\ CrcMatches(c \o u)
    BY <1>2, <1>3, <1>9 DEF SingleFrame, Right
  <2>2. Len(u) = 3 /\ u[1] = <<no, size>>
    <3>1. Len(u) = 3 /\ k = size
      BY <1>3, <1>9
    <3>2. u[1] = Content(no, size)[k + 1 - 1] /\ k + 1 - 1 = size
      BY <1>3, <3>1
    <3> QED
      BY <1>9, <3>1, <3>2, ContentData
  <2>3. \A i \in 1..Len(c \o u) : (c \o u)[i][1] = no
    BY <1>1, <1>2, TakenUnits
  <2>4. c \o u = Content(no, size)
    BY <1>3, <1>5, <1>9, <2>1, <2>2, <2>3, MatchingCrc
  <2>5. w.payload = Truncated(Content(no, size)) /\ w.total = size + 2
    BY <1>7, <1>9, <2>4, ContentLength
  <2> QED
    BY <1>1, <1>6, <1>9, <2>1, <2>5, PayloadOfContent
<1> QED
  BY <1>8, <1>9

WholeInv == \A i \in 1..Len(delivered) : Whole(delivered[i].payload, delivered[i].no, delivered[i].size)

LEMMA WholeInit == Init => WholeInv
BY EmptySeq DEF Init, WholeInv

LEMMA WholeStep ==
  ASSUME Gap < TidMod, Types, FollowInv, WholeInv, [Next]_vars
  PROVE  WholeInv'
<1>1. ASSUME delivered' = delivered
      PROVE  WholeInv'
  BY <1>1 DEF WholeInv
<1>2. CASE Quiet
  BY <1>1, <1>2, QuietSteps
<1>3. ASSUME NEW memory \in BOOLEAN, NEW again \in BOOLEAN, Arrive(memory, again)
      PROVE  WholeInv'
  <2>1. PICK f : f = ThisFrame
    OBVIOUS
  <2>2. OnBus /\ f \in FrameSet /\ f.no = wire.no /\ wire.no \in Nat /\ wire.size \in Nat
    BY <1>3, <2>1, ThisFrameProperties DEF Arrive
  <2>3. CASE Ignored(f, memory)
    BY <1>1, <2>3 DEF Ignored
  <2>4. CASE Missed(f)
    BY <1>1, <2>2, <2>4, MissedProperties
  <2>5. ASSUME NEW r \in SessionSet, Ready(r, f), Completes(r, f)
        PROVE  WholeInv'
    <3>1. PICK payload \in Seq(Unit) :
            /\ payload = WithoutCrc(Written(r, f), f)
            /\ delivered' = Append(delivered, [no |-> f.no, size |-> wire.size, payload |-> payload])
      BY <2>5 DEF Completes
    <3>2. f.eot /\ Right(r, f)
      BY <2>5 DEF Completes
    <3>3. Whole(payload, wire.no, wire.size)
      BY <2>1, <2>2, <2>5, <3>1, <3>2, CompletedIsWhole
    <3>4. PICK x \in Delivery : x = [no |-> f.no, size |-> wire.size, payload |-> payload]
      BY <2>2 DEF Delivery
    <3>5. x.no = wire.no /\ x.size = wire.size /\ x.payload = payload
      BY <2>2, <3>4
    <3>6. delivered \in Seq(Delivery)
      BY DEF Types, Delivery
    <3>7. PICK n \in Nat : n = Len(delivered)
      BY <3>6, LenProperties
    <3>8. /\ Len(delivered') = n + 1
          /\ \A i \in 1..n : delivered'[i] = delivered[i]
          /\ delivered'[n + 1] = x
      <4>1. delivered' = Append(delivered, x)
        BY <3>1, <3>4
      <4> QED
        BY <3>6, <3>7, <4>1, AppendProperties
    <3>9. ASSUME NEW i \in 1..n + 1
          PROVE  Whole(delivered'[i].payload, delivered'[i].no, delivered'[i].size)
      <4>1. CASE i = n + 1
        BY <3>3, <3>5, <3>8, <4>1
      <4>2. CASE i # n + 1
        <5>1. i \in 1..n
          BY <4>2
        <5> QED
          BY <3>7, <3>8, <5>1 DEF WholeInv
      <4> QED
        BY <4>1, <4>2
    <3> QED
      BY <3>8, <3>9 DEF WholeInv
  <2>6. ASSUME NEW r, Continues(r, f) \/ Fails(r, f, memory)
        PROVE  WholeInv'
    BY <1>1, <2>6 DEF Continues, Fails
  <2> QED
    BY <1>3, <2>1, <2>3, <2>4, <2>5, <2>6, ArriveCases
<1> QED
  BY <1>2, <1>3, Steps

\* The application is handed the data of one transfer, all of it or as much as there is room for,
\* and nothing of its CRC or of another transfer, if fewer transfers are missed between two frames
\* of a session than there are transfer-IDs
THEOREM HandedOverWhole == Gap < TidMod => (Spec => []WholeTransfers)
<1> SUFFICES ASSUME Gap < TidMod PROVE Spec => []WholeTransfers
  OBVIOUS
<1>1. Types /\ FollowInv /\ WholeInv /\ [Next]_vars => FollowInv' /\ WholeInv'
  BY FollowStep, WholeStep
<1>2. Types /\ WholeInv => WholeTransfers
  <2> SUFFICES ASSUME Types, WholeInv PROVE WholeTransfers
    OBVIOUS
  <2>1. delivered \in Seq(Delivery)
    BY DEF Types, Delivery
  <2>2. ASSUME NEW i \in DOMAIN delivered
        PROVE  /\ Whole(delivered[i].payload, delivered[i].no, delivered[i].size)
               /\ DOMAIN delivered[i].payload = 1..Len(delivered[i].payload)
    <3>1. i \in 1..Len(delivered)
      BY <2>1, LenProperties
    <3>2. delivered[i] \in Delivery
      BY <2>1, <3>1, ElementOfSeq
    <3>3. delivered[i].payload \in Seq(Unit)
      BY <3>2 DEF Delivery
    <3> QED
      BY <3>1, <3>3, LenProperties DEF WholeInv
  <2> QED
    BY <2>2 DEF WholeTransfers, Whole
<1> QED
  BY <1>1, <1>2, FollowInit, WholeInit, TypesHold, PTL DEF Spec

-----------------------------------------------------------------------------
(***************************************************************************)
(* Progress.  While nothing has happened to the transfer on the bus, the   *)
(* session has every frame that arrived of it; the last one hands it over. *)
(***************************************************************************)

\* the frames of the transfer on the bus that have arrived
Got == IF wire.again THEN wire.frame ELSE wire.frame - 1

IsDelivered(t) == \E i \in 1..Len(delivered) : delivered[i].no = t

\* the session has the first n frames of the transfer on the bus and waits for the next
Has(n) ==
  /\ session \in SessionSet
  /\ ~session.timedOut
  /\ session.tid = wire.no % TidMod
  /\ session.toggle <=> n % 2 = 0
  /\ session.crc = Data(wire.no, n)

ProgressInv ==
  /\ \A t \in undisturbed : IsDelivered(t)
  /\ clean /\ OnBus /\ Got > 0 =>
       IF Got = LastFrame(wire.size) THEN IsDelivered(wire.no) ELSE Has(Got)

\* toggle bits alternate
LEMMA Parity ==
  ASSUME NEW n \in Nat
  PROVE  /\ n % 2 = 0 \/ n % 2 = 1
         /\ n % 2 = 1 <=> (n + 1) % 2 = 0
<1>1. PICK q \in Int, r \in 0..1 : n % 2 = r /\ n = q * 2 + r
  BY Division
<1>2. CASE r = 0
  <2>1. n + 1 = q * 2 + 1
    BY <1>1, <1>2
  <2>2. (n + 1) % 2 = 1
    BY <2>1, Remainder
  <2> QED
    BY <1>1, <1>2, <2>2
<1>3. CASE r = 1
  <2>1. n + 1 = (q + 1) * 2 + 0
    BY <1>1, <1>3
  <2>2. (n + 1) % 2 = 0
    BY <2>1, Remainder
  <2> QED
    BY <1>1, <1>3, <2>2
<1> QED
  BY <1>1, <1>2, <1>3

\* data of one unit more
LEMMA MoreData ==
  ASSUME NEW no \in Nat, NEW n \in Nat
  PROVE  Data(no, n) \o <<<<no, n + 1>>>> = Data(no, n + 1)
<1>1. PICK d : d = Data(no, n)
  OBVIOUS
<1>2. d \in Seq(Unit) /\ Len(d) = n /\ \A i \in 1..n : d[i] = <<no, i>>
  BY <1>1, DataProperties
<1>0. PICK m \in Nat : m = n + 1
  OBVIOUS
<1>3. PICK e : e = Data(no, m)
  OBVIOUS
<1>4. e \in Seq(Unit) /\ Len(e) = m /\ \A i \in 1..m : e[i] = <<no, i>>
  BY <1>3, DataProperties
<1>5. PICK x : x = <<no, m>>
  OBVIOUS
<1>6. x \in Unit
  BY <1>5 DEF Unit
<1>7. PICK u : u = <<x>>
  OBVIOUS
<1>8. u \in Seq(Unit) /\ Len(u) = 1 /\ u[1] = x
  BY <1>6, <1>7
<1>9. /\ d \o u \in Seq(Unit)
      /\ Len(d \o u) = m
      /\ \A i \in 1..m : (d \o u)[i] = IF i <= n THEN d[i] ELSE u[i - n]
  <2>1. /\ d \o u \in Seq(Unit)
        /\ Len(d \o u) = Len(d) + Len(u)
        /\ \A i \in 1..Len(d) + Len(u) : (d \o u)[i] = IF i <= Len(d) THEN d[i] ELSE u[i - Len(d)]
    BY <1>2, <1>8, ConcatProperties
  <2>2. Len(d) = n /\ Len(d) + Len(u) = m
    BY <1>0, <1>2, <1>8
  <2> QED
    BY <2>1, <2>2
<1>10. ASSUME NEW i \in 1..m
       PROVE  (d \o u)[i] = e[i]
  <2>1. CASE i <= n
    <3>1. i \in 1..n
      BY <2>1
    <3>2. (d \o u)[i] = d[i]
      BY <1>9, <2>1
    <3> QED
      BY <1>2, <1>4, <3>1, <3>2
  <2>2. CASE i = m
    <3>1. ~(i <= n) /\ i - n = 1
      BY <1>0, <2>2
    <3>2. (d \o u)[i] = u[1]
      BY <1>9, <3>1
    <3>3. e[m] = <<no, m>>
      BY <1>4, <2>2
    <3> QED
      BY <1>5, <1>8, <2>2, <3>2, <3>3
  <2>3. i <= n \/ i = m
    BY <1>0
  <2> QED
    BY <2>1, <2>2, <2>3, Zenon
<1>11. d \o u = e
  BY <1>4, <1>9, <1>10, SeqEqual
<1> QED
  BY <1>0, <1>1, <1>3, <1>5, <1>7, <1>11

\* no data yet
LEMMA NoData ==
  ASSUME NEW no \in Nat
  PROVE  Data(no, 0) = <<>>
<1>1. Data(no, 0) \in Seq(Unit) /\ Len(Data(no, 0)) = 0
  BY DataProperties
<1> QED
  BY <1>1, EmptySeq

\* the last frame makes the content complete, and its CRC matches
LEMMA AllContent ==
  ASSUME NEW no \in Nat, NEW size \in Nat, size >= 2, NEW n \in Nat, size = n + 1
  PROVE  CrcMatches(Data(no, n) \o Rest(no, size))
<1>1. PICK d, u, c : d = Data(no, n) /\ u = Rest(no, size) /\ c = Content(no, size)
  OBVIOUS
<1>2. d \in Seq(Unit) /\ Len(d) = n /\ \A i \in 1..n : d[i] = <<no, i>>
  BY <1>1, DataProperties
<1>3. u \in Seq(Unit) /\ Len(u) = 3
  BY <1>1, RestLength
<1>4. \A i \in 1..3 : u[i] = c[n + i]
  <2> SUFFICES ASSUME NEW i \in 1..3 PROVE u[i] = c[n + i]
    OBVIOUS
  <2>0. i \in 1..Len(Rest(no, size))
    BY <1>1, <1>3
  <2>1. Rest(no, size)[i] = Content(no, size)[LastFrame(size) + i - 1]
    BY <2>0, RestUnits
  <2>2. LastFrame(size) = n + 1 /\ n + 1 + i - 1 = n + i
    BY DEF LastFrame
  <2> QED
    BY <1>1, <2>1, <2>2
<1>5. c \in Seq(Unit) /\ Len(c) = n + 3
  BY <1>1, ContentLength
<1>6. \A i \in 1..size : c[i] = <<no, i>>
  BY <1>1, ContentData
<1>7. /\ d \o u \in Seq(Unit)
      /\ Len(d \o u) = n + 3
      /\ \A i \in 1..n + 3 : (d \o u)[i] = IF i <= n THEN d[i] ELSE u[i - n]
  <2>1. /\ d \o u \in Seq(Unit)
        /\ Len(d \o u) = Len(d) + Len(u)
        /\ \A i \in 1..Len(d) + Len(u) : (d \o u)[i] = IF i <= Len(d) THEN d[i] ELSE u[i - Len(d)]
    BY <1>2, <1>3, ConcatProperties
  <2>2. Len(d) = n /\ Len(d) + Len(u) = n + 3
    BY <1>2, <1>3
  <2> QED
    BY <2>1, <2>2
<1>8. ASSUME NEW i \in 1..n + 3
      PROVE  (d \o u)[i] = c[i]
  <2>1. CASE i <= n
    <3>1. i \in 1..size /\ i \in 1..n
      BY <2>1
    <3> QED
      BY <1>2, <1>6, <1>7, <2>1, <3>1
  <2>2. CASE ~(i <= n)
    <3>1. i - n \in 1..3 /\ n + (i - n) = i
      BY <2>2
    <3>2. (d \o u)[i] = u[i - n]
      BY <1>7, <2>2
    <3>3. u[i - n] = c[n + (i - n)]
      BY <1>4, <3>1
    <3> QED
      BY <3>1, <3>2, <3>3
  <2> QED
    BY <2>1, <2>2
<1>9. d \o u = c
  BY <1>5, <1>7, <1>8, SeqEqual
<1>10. c[1][1] = no
  BY <1>6
<1>11. Len(c) - CrcUnits = size /\ Len(c) > CrcUnits
  BY <1>5 DEF CrcUnits
<1>12. CrcMatches(c)
  BY <1>1, <1>10, <1>11 DEF CrcMatches
<1> QED
  BY <1>1, <1>9, <1>12

\* a frame that the session already has is not looked at again
LEMMA RepeatIsIgnored ==
  ASSUME Types, OnBus, NEW f, f = ThisFrame, Has(wire.frame)
  PROVE  ~Missed(f) /\ \A r : ~Ready(r, f)
<1>1. /\ f.tid = wire.no % TidMod /\ (f.toggle <=> wire.frame % 2 = 1)
      /\ wire.frame \in Nat /\ wire.no \in Nat
  BY ThisFrameProperties DEF Types
<1>2. ~Missed(f)
  BY DEF Missed, Has
<1>3. session # NoSession
  BY NoSessionIsApart DEF Has
<1>4. ~(session.toggle <=> f.toggle)
  <2>1. wire.frame % 2 = 0 => wire.frame % 2 # 1
    OBVIOUS
  <2>2. wire.frame % 2 = 0 \/ wire.frame % 2 = 1
    BY <1>1, Parity
  <2> QED
    BY <1>1, <2>1, <2>2 DEF Has
<1>5. ~NeedRestart(session, f)
  <2>1. TidDifference(session.tid, f.tid) = 0
    <3>1. PICK t \in Int : t = wire.no % TidMod
      BY <1>1, TidInRange, TidAssumption
    <3>2. t - t = 0 /\ 0 % TidMod = 0
      BY <3>1, TidAssumption, SmallRemainder
    <3> QED
      BY <1>1, <3>1, <3>2 DEF TidDifference, Has
  <2> QED
    BY <2>1 DEF NeedRestart, Has
<1>6. ASSUME NEW r, Ready(r, f)
      PROVE  FALSE
  <2>1. r = session
    BY <1>3, <1>5, <1>6 DEF Ready
  <2> QED
    BY <1>4, <1>6, <2>1 DEF Ready
<1> QED
  BY <1>2, <1>6

\* the first frame of a transfer is taken as long as the window has not passed
LEMMA FirstIsTaken ==
  ASSUME Gap < TidMod, Types, FollowInv, OnBus, NEW f, f = ThisFrame, wire.frame = 1, ~wire.again, InWindow
  PROVE  ~Missed(f) /\ ~Ignored(f, TRUE)
<1>1. /\ f.tid = wire.no % TidMod /\ f.sot /\ f.toggle /\ wire.no \in Nat /\ f \in FrameSet
  BY ThisFrameProperties
<1>2. ~Missed(f)
  BY <1>1 DEF Missed
<1>3. ASSUME Ignored(f, TRUE)
      PROVE  FALSE
  <2>1. session # NoSession /\ ~NeedRestart(session, f)
    BY <1>1, <1>3 DEF Ignored
  <2>2. Following /\ ~(TidDifference(session.tid, f.tid) > 1)
    BY <1>1, <2>1 DEF Following, NeedRestart
  <2>3. PICK e \in started..wire.no + 1 : Expects(e)
    BY <2>2 DEF FollowInv
  <2>4. PICK no \in Int : no = wire.no
    BY <1>1
  <2>5. e \in Int /\ e <= no + 1 /\ no - e <= TidMod - 2 /\ TidMod \in Nat \ {0} /\ TidMod >= 3
    <3>1. started \in Nat /\ wire.no - started <= TidMod - 2
      BY <2>2 DEF InWindow, Types
    <3>2. TidMod \in Nat /\ TidMod >= 3
      BY TidAssumption
    <3>3. e \in started..no + 1
      BY <2>3, <2>4
    <3> QED
      BY <2>4, <3>1, <3>2, <3>3
  <2>6. e # no + 1
    BY <2>3, <2>4 DEF Expects
  <2>7. ~((e - no) % TidMod > 1)
    <3>1. TidDifference(e % TidMod, no % TidMod) = (e - no) % TidMod
      BY <2>5, TidDifferenceOf
    <3>2. session.tid = e % TidMod /\ f.tid = no % TidMod
      BY <1>1, <2>3, <2>4 DEF Expects
    <3> QED
      BY <2>2, <3>1, <3>2
  <2>8. e = no
    <3>1. PICK d \in Int : d = e - no
      BY <2>5
    <3>2. -TidMod < d /\ d <= 0 /\ d < TidMod /\ d + TidMod >= 2
      BY <2>5, <2>6, <3>1
    <3>3. d % TidMod = IF d >= 0 THEN d ELSE d + TidMod
      BY <2>5, <3>2, SmallRemainder
    <3>4. ~(d % TidMod > 1)
      BY <2>7, <3>1
    <3>5. d = 0
      BY <2>5, <3>2, <3>3, <3>4
    <3> QED
      BY <2>5, <3>1, <3>5
  <2>9. session.toggle /\ session.tid = f.tid
    BY <1>1, <2>3, <2>4, <2>8 DEF Expects
  <2>10. session.toggle = f.toggle
    <3>1. session.toggle \in BOOLEAN /\ f.toggle \in BOOLEAN
      BY <1>1, <2>1 DEF Types, SessionSet, FrameSet
    <3> QED
      BY <1>1, <2>9, <3>1
  <2> QED
    BY <1>3, <2>1, <2>9, <2>10 DEF Ignored
<1> QED
  BY <1>2, <1>3

\* and so is the next one
LEMMA NextIsTaken ==
  ASSUME Types, OnBus, NEW f, f = ThisFrame, wire.frame # 1, Has(wire.frame - 1), NEW memory
  PROVE  ~Missed(f) /\ ~Ignored(f, memory)
<1>1. /\ f.tid = wire.no % TidMod /\ ~f.sot /\ (f.toggle <=> wire.frame % 2 = 1)
      /\ wire.frame \in Nat /\ wire.frame > 1 /\ f \in FrameSet
  BY ThisFrameProperties DEF OnBus, Types
<1>2. ~Missed(f)
  BY DEF Missed, Has
<1>3. session # NoSession /\ session.tid = f.tid
  BY <1>1, NoSessionIsApart DEF Has
<1>4. session.toggle = f.toggle
  <2>1. PICK n \in Nat : n = wire.frame - 1 /\ wire.frame = n + 1
    BY <1>1
  <2>2. /\ n % 2 = 0 \/ n % 2 = 1
        /\ n % 2 = 1 <=> (n + 1) % 2 = 0
    BY Parity
  <2>3. (n + 1) % 2 = 0 \/ (n + 1) % 2 = 1
    BY Parity
  <2>4. n % 2 = 0 <=> (n + 1) % 2 = 1
    BY <2>2, <2>3
  <2>5. session.toggle <=> f.toggle
    BY <1>1, <2>1, <2>4 DEF Has
  <2>6. session.toggle \in BOOLEAN /\ f.toggle \in BOOLEAN
    BY <1>1 DEF Has, SessionSet, FrameSet
  <2> QED
    BY <2>5, <2>6
<1> QED
  BY <1>2, <1>3, <1>4 DEF Ignored

\* what a taken frame leaves of a transfer that has lost nothing
LEMMA TakenGetsOn ==
  ASSUME Types, OnBus, NEW f, f = ThisFrame, NEW r, Ready(r, f), wire'.no = wire.no,
         r.crc = Data(wire.no, wire.frame - 1), NEW k, k = wire.frame,
         Continues(r, f) \/ Completes(r, f) \/ Fails(r, f, TRUE)
  PROVE  IF f.eot THEN IsDelivered(wire.no)' ELSE Has(k)'
<1>0. LastFrame(wire.size) \in Nat
  BY DEF LastFrame, Types
<1>1. PICK no \in Nat, size \in Nat, n \in Nat :
        /\ no = wire.no /\ size = wire.size /\ k = n + 1 /\ n = wire.frame - 1
        /\ k \in 1..LastFrame(size) /\ k \in Nat
  <2>1. wire.no \in Nat /\ wire.size \in Nat /\ wire.frame \in 1..LastFrame(wire.size) /\ wire.frame \in Nat
    BY ThisFrameProperties DEF Types
  <2>2. wire.frame - 1 \in Nat /\ wire.frame = wire.frame - 1 + 1
    BY <2>1
  <2> QED
    BY <2>1, <2>2
<1>2. /\ f.no = no /\ f.tid = no % TidMod /\ f \in FrameSet
      /\ (f.sot <=> k = 1) /\ (f.eot <=> k = LastFrame(size)) /\ (f.toggle <=> k % 2 = 1)
  BY <1>1, ThisFrameProperties
<1>3. f.units = Frame(no, size, k).units /\ r.crc = Data(no, n)
  BY <1>1 DEF ThisFrame
<1>4. CASE Continues(r, f)
  <2>1. ~f.eot
    BY <1>4 DEF Continues
  <2>2. k < LastFrame(size)
    <3>1. k # LastFrame(size)
      BY <1>2, <2>1
    <3> QED
      BY <1>0, <1>1, <3>1
  <2>3. PICK u : u = f.units
    OBVIOUS
  <2>4. u = <<<<no, n + 1>>>>
    <3>1. u = Frame(no, size, k).units
      BY <1>3, <2>3
    <3>2. k \in 1..LastFrame(size)
      BY <1>1
    <3>3. u = <<<<no, k>>>>
      BY <2>2, <3>1 DEF Frame
    <3> QED
      BY <1>1, <3>3
  <2>5. r.crc \o f.units = Data(no, n + 1)
    BY <1>3, <2>3, <2>4, MoreData
  <2>6. session'.crc = Data(no, k)
    BY <1>1, <1>4, <2>5 DEF Continues
  <2>7. session'.toggle <=> k % 2 = 0
    <3>1. session'.toggle = ~f.toggle
      BY <1>4 DEF Continues
    <3>2. k % 2 = 0 \/ k % 2 = 1
      BY <1>1, Parity
    <3>3. k % 2 = 0 <=> ~(k % 2 = 1)
      BY <3>2
    <3> QED
      BY <1>2, <3>1, <3>3, Zenon
  <2>8. Has(k)'
    <3>1. session' \in SessionSet /\ ~session'.timedOut /\ session'.tid = wire'.no % TidMod
      BY <1>1, <1>2, <1>4 DEF Continues
    <3>2. session'.crc = Data(wire'.no, k)
      BY <1>1, <2>6
    <3> QED
      BY <2>7, <3>1, <3>2, Zenon DEF Has
  <2> QED
    BY <2>1, <2>8
<1>5. CASE Completes(r, f)
  <2>1. f.eot
    BY <1>5 DEF Completes
  <2>2. PICK payload \in Seq(Unit) :
          delivered' = Append(delivered, [no |-> f.no, size |-> wire.size, payload |-> payload])
    BY <1>5 DEF Completes
  <2>3. PICK x \in Delivery : x = [no |-> f.no, size |-> wire.size, payload |-> payload]
    BY <1>1, <1>2 DEF Delivery
  <2>4. x.no = no
    BY <1>2, <2>3
  <2>5. delivered \in Seq(Delivery)
    BY DEF Types, Delivery
  <2>6. PICK m \in Nat : m = Len(delivered)
    BY <2>5, LenProperties
  <2>7. Len(delivered') = m + 1 /\ delivered'[m + 1] = x
    <3>1. delivered' = Append(delivered, x)
      BY <2>2, <2>3
    <3> QED
      BY <2>5, <2>6, <3>1, AppendProperties
  <2>8. m + 1 \in 1..Len(delivered')
    BY <2>7
  <2>9. IsDelivered(wire.no)'
    BY <1>1, <2>4, <2>7, <2>8 DEF IsDelivered
  <2> QED
    BY <2>1, <2>9
<1>6. CASE Fails(r, f, TRUE)
  <2>1. f.eot /\ ~Right(r, f)
    BY <1>6 DEF Fails
  <2>2. ~f.sot
    BY <2>1 DEF Right, SingleFrame
  <2>3. k = size /\ size >= 2 /\ k = LastFrame(size)
    <3>1. k = LastFrame(size) /\ k # 1
      BY <1>2, <2>1, <2>2
    <3> QED
      BY <1>1, <3>1 DEF LastFrame
  <2>4. f.units = Rest(no, size)
    BY <1>3, <2>3 DEF Rest
  <2>5. CrcMatches(Data(no, n) \o Rest(no, size))
    BY <1>1, <2>3, AllContent
  <2> QED
    BY <1>3, <2>1, <2>4, <2>5 DEF Right
<1> QED
  BY <1>4, <1>5, <1>6

\* what is handed over stays handed over
LEMMA DeliveredStays ==
  ASSUME Types, [Next]_vars, NEW t, IsDelivered(t)
  PROVE  IsDelivered(t)'
<1>1. PICK i \in 1..Len(delivered) : delivered[i].no = t
  BY DEF IsDelivered
<1>2. CASE delivered' = delivered
  BY <1>1, <1>2 DEF IsDelivered
<1>3. ASSUME NEW f, f = ThisFrame, OnBus, NEW r, Completes(r, f)
      PROVE  IsDelivered(t)'
  <2>1. PICK payload \in Seq(Unit) :
          delivered' = Append(delivered, [no |-> f.no, size |-> wire.size, payload |-> payload])
    BY <1>3 DEF Completes
  <2>2. PICK x : x = [no |-> f.no, size |-> wire.size, payload |-> payload]
    OBVIOUS
  <2>3. delivered \in Seq(Delivery) /\ x \in Delivery
    BY <1>3, <2>2, ThisFrameProperties DEF Types, Delivery
  <2>4. PICK n \in Nat : n = Len(delivered)
    BY <2>3, LenProperties
  <2>5. Len(delivered') = n + 1 /\ \A j \in 1..n : delivered'[j] = delivered[j]
    BY <2>1, <2>2, <2>3, <2>4, AppendProperties
  <2>6. i \in 1..Len(delivered') /\ delivered'[i].no = t
    BY <1>1, <2>4, <2>5
  <2> QED
    BY <2>6 DEF IsDelivered
<1>4. CASE Quiet
  BY <1>2, <1>4, QuietSteps
<1>5. ASSUME NEW memory \in BOOLEAN, NEW again \in BOOLEAN, Arrive(memory, again)
      PROVE  IsDelivered(t)'
  <2>1. PICK f : f = ThisFrame
    OBVIOUS
  <2>2. OnBus /\ f \in FrameSet
    BY <1>5, <2>1, ThisFrameProperties DEF Arrive
  <2>3. ASSUME Ignored(f, memory) \/ Missed(f)
        PROVE  delivered' = delivered
    BY <2>2, <2>3, MissedProperties DEF Ignored
  <2>4. ASSUME NEW r, Continues(r, f) \/ Fails(r, f, memory)
        PROVE  delivered' = delivered
    BY <2>4 DEF Continues, Fails
  <2> QED
    BY <1>2, <1>3, <1>5, <2>1, <2>2, <2>3, <2>4, ArriveCases
<1> QED
  BY <1>4, <1>5, Steps

\* the transfer on the bus gets on with every frame that arrives
LEMMA GetsOn ==
  ASSUME Gap < TidMod, Types, FollowInv, ProgressInv, NEW memory \in BOOLEAN, NEW again \in BOOLEAN,
         Arrive(memory, again), clean', NEW f, f = ThisFrame, NEW k, k = wire.frame
  PROVE  IF f.eot THEN IsDelivered(wire.no)' ELSE Has(k)'
<1>1. /\ OnBus /\ clean /\ memory = TRUE /\ (f.sot /\ ~wire.again => InWindow)
      /\ wire'.no = wire.no
  BY WireSteps DEF Arrive, ThisFrame
<1>2. /\ (f.sot <=> k = 1) /\ (f.eot <=> k = LastFrame(wire.size)) /\ f \in FrameSet
      /\ k \in Nat /\ k >= 1 /\ wire.no \in Nat
  BY <1>1, ThisFrameProperties DEF LastFrame
<1>3. \/ Ignored(f, memory)
      \/ Missed(f)
      \/ \E r \in SessionSet : /\ Ready(r, f)
                               /\ Continues(r, f) \/ Completes(r, f) \/ Fails(r, f, memory)
  BY ArriveCases
<1>4. ASSUME NEW r, Ready(r, f), r.crc = Data(wire.no, k - 1),
             Continues(r, f) \/ Completes(r, f) \/ Fails(r, f, memory)
      PROVE  IF f.eot THEN IsDelivered(wire.no)' ELSE Has(k)'
  <2>1. Continues(r, f) \/ Completes(r, f) \/ Fails(r, f, TRUE)
    BY <1>1, <1>4
  <2> QED
    BY <1>1, <1>4, <2>1, TakenGetsOn
<1>5. CASE wire.again
  <2>1. Got = k
    BY <1>5 DEF Got
  <2>2. IF f.eot THEN IsDelivered(wire.no) ELSE Has(k)
    BY <1>1, <1>2, <2>1 DEF ProgressInv
  <2>3. CASE f.eot
    <3>1. PICK t : t = wire.no
      OBVIOUS
    <3>2. IsDelivered(t)
      BY <2>2, <2>3, <3>1
    <3>3. [Next]_vars
      BY DEF Next
    <3>4. IsDelivered(t)'
      BY <3>2, <3>3, DeliveredStays
    <3>5. IsDelivered(wire.no)'
      BY <1>1, <3>1, <3>4
    <3> QED
      BY <2>3, <3>5
  <2>4. CASE ~f.eot
    <3>1. Has(k)
      BY <2>2, <2>4
    <3>2. Ignored(f, memory)
      BY <1>1, <1>2, <1>3, <3>1, RepeatIsIgnored
    <3>3. session' = session
      BY <3>2 DEF Ignored
    <3>4. Has(k)'
      BY <1>1, <3>1, <3>3 DEF Has
    <3> QED
      BY <2>4, <3>4
  <2> QED
    BY <2>3, <2>4
<1>6. CASE ~wire.again /\ k = 1
  <2>1. ~Missed(f) /\ ~Ignored(f, TRUE)
    BY <1>1, <1>2, <1>6, FirstIsTaken
  <2>2. PICK r \in SessionSet :
          Ready(r, f) /\ (Continues(r, f) \/ Completes(r, f) \/ Fails(r, f, memory))
    BY <1>1, <1>3, <2>1
  <2>3. r.crc = <<>>
    BY <1>1, <1>2, <1>6, <2>2, TakesThis
  <2>4. r.crc = Data(wire.no, k - 1)
    <3>1. PICK no \in Nat : no = wire.no
      BY <1>2
    <3>2. k - 1 = 0
      BY <1>6
    <3> QED
      BY <2>3, <3>1, <3>2, NoData
  <2> QED
    BY <1>4, <2>2, <2>4
<1>7. CASE ~wire.again /\ k # 1
  <2>1. Got = k - 1 /\ Got > 0
    BY <1>2, <1>7 DEF Got
  <2>2. Got # LastFrame(wire.size)
    <3>1. k \in 1..LastFrame(wire.size) /\ LastFrame(wire.size) \in Nat
      BY <1>1, ThisFrameProperties DEF LastFrame
    <3> QED
      BY <2>1, <3>1
  <2>3. Has(k - 1)
    BY <1>1, <2>1, <2>2 DEF ProgressInv
  <2>4. ~Missed(f) /\ ~Ignored(f, memory)
    BY <1>1, <1>7, <2>3, NextIsTaken
  <2>5. PICK r \in SessionSet :
          Ready(r, f) /\ (Continues(r, f) \/ Completes(r, f) \/ Fails(r, f, memory))
    BY <1>3, <2>4
  <2>6. r = session
    BY <1>1, <1>2, <1>7, <2>5, TakesThis
  <2>7. r.crc = Data(wire.no, k - 1)
    BY <2>3, <2>6 DEF Has
  <2> QED
    BY <1>4, <2>5, <2>7
<1> QED
  BY <1>5, <1>6, <1>7

LEMMA ProgressInit == Init => ProgressInv
BY DEF Init, ProgressInv

LEMMA ProgressStep ==
  ASSUME Gap < TidMod, Types, FollowInv, ProgressInv, [Next]_vars
  PROVE  ProgressInv'
<1>1. \A t \in undisturbed : IsDelivered(t)'
  BY DeliveredStays DEF ProgressInv
<1>2. CASE Quiet
  <2>1. undisturbed' = undisturbed
    BY <1>2, QuietSteps
  <2>2. ASSUME clean', OnBus', Got' > 0
        PROVE  UNCHANGED vars
    <3>1. CASE \E size \in Sizes : Send(size)
      BY <2>2, <3>1 DEF Send, Got
    <3>2. CASE Lose
      BY <2>2, <3>2 DEF Lose
    <3>3. CASE Silence
      <4>1. wire' = wire /\ ~wire.again /\ wire.frame = 1
        BY <2>2, <3>3 DEF Silence
      <4> QED
        BY <2>2, <4>1 DEF Got
    <3> QED
      BY <1>2, <3>1, <3>2, <3>3 DEF Quiet
  <2>3. ASSUME UNCHANGED vars
        PROVE  ProgressInv'
    BY <2>3 DEF vars, ProgressInv, OnBus, Got, Has, IsDelivered
  <2> QED
    BY <1>1, <2>1, <2>2, <2>3 DEF ProgressInv
<1>3. ASSUME NEW memory \in BOOLEAN, NEW again \in BOOLEAN, Arrive(memory, again)
      PROVE  ProgressInv'
  <2>1. PICK f, k : f = ThisFrame /\ k = wire.frame
    OBVIOUS
  <2>2. /\ OnBus /\ k \in Nat /\ k >= 1 /\ (f.eot <=> k = LastFrame(wire.size))
        /\ LastFrame(wire.size) \in Nat
    BY <1>3, <2>1, ThisFrameProperties DEF Arrive, LastFrame
  <2>3. /\ wire'.no = wire.no /\ wire'.size = wire.size /\ wire'.again = again
        /\ wire'.frame = IF again THEN wire.frame ELSE NextFrame
    BY <1>3, WireSteps
  <2>4. undisturbed' = IF clean' /\ f.eot /\ ~again THEN undisturbed \cup {wire.no} ELSE undisturbed
    BY <1>3, <2>1 DEF Arrive, ThisFrame
  <2>5. clean' => IF f.eot THEN IsDelivered(wire.no)' ELSE Has(k)'
    BY <1>3, <2>1, GetsOn
  <2>6. ASSUME NEW t \in undisturbed'
        PROVE  IsDelivered(t)'
    <3>1. CASE t \in undisturbed
      BY <1>1, <3>1
    <3>2. CASE t \notin undisturbed
      <4>1. t = wire.no /\ clean' /\ f.eot
        BY <2>4, <2>6, <3>2
      <4>2. IsDelivered(wire.no)' /\ t = wire'.no
        BY <2>3, <2>5, <4>1
      <4> QED
        BY <4>2
    <3> QED
      BY <3>1, <3>2
  <2>7. ASSUME clean', OnBus', Got' > 0
        PROVE  IF Got' = LastFrame(wire'.size) THEN IsDelivered(wire.no)' ELSE Has(Got)'
    <3>1. Got' = k
      <4>1. CASE again
        BY <2>1, <2>3, <4>1 DEF Got
      <4>2. CASE ~again
        <5>1. wire'.frame = k + 1
          BY <2>1, <2>3, <2>7, <4>2 DEF OnBus, NextFrame
        <5> QED
          BY <2>2, <2>3, <4>2, <5>1 DEF Got
      <4> QED
        BY <4>1, <4>2
    <3>2. CASE f.eot
      BY <2>2, <2>3, <2>5, <2>7, <3>1, <3>2
    <3>3. CASE ~f.eot
      <4>1. Has(k)' /\ k # LastFrame(wire'.size)
        BY <2>2, <2>3, <2>5, <2>7, <3>3
      <4>2. Has(Got)'
        BY <3>1, <4>1 DEF Has
      <4> QED
        BY <3>1, <4>1, <4>2
    <3> QED
      BY <3>2, <3>3
  <2> QED
    BY <2>6, <2>7 DEF ProgressInv
<1> QED
  BY <1>2, <1>3, Steps

\* A transfer all of whose frames arrive, with memory for them, is handed over, whatever the frames
\* before it left in the session, if fewer transfers are missed between two frames of a session
\* than there are transfer-IDs
THEOREM UndisturbedIsHandedOver == Gap < TidMod => (Spec => []UndisturbedIsDelivered)
<1> SUFFICES ASSUME Gap < TidMod PROVE Spec => []UndisturbedIsDelivered
  OBVIOUS
<1>1. Types /\ FollowInv /\ ProgressInv /\ [Next]_vars => FollowInv' /\ ProgressInv'
  BY FollowStep, ProgressStep
<1>2. Types /\ ProgressInv => UndisturbedIsDelivered
  <2> SUFFICES ASSUME Types, ProgressInv PROVE UndisturbedIsDelivered
    OBVIOUS
  <2>1. DOMAIN delivered = 1..Len(delivered)
    <3>1. delivered \in Seq(Delivery)
      BY DEF Types, Delivery
    <3> QED
      BY <3>1, LenProperties
  <2> QED
    BY <2>1 DEF ProgressInv, IsDelivered, UndisturbedIsDelivered
<1> QED
  BY <1>1, <1>2, FollowInit, ProgressInit, TypesHold, PTL DEF Spec

=============================================================================
