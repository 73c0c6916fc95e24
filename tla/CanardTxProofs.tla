--------------------------- MODULE CanardTxProofs ---------------------------
(***************************************************************************)
(* Theorems about CanardTx, for any MTU, table of frame lengths, CAN-IDs   *)
(* and sizes, and any number of transfers: the frames of every transfer    *)
(* are well formed; the queue holds what was allocated; it is sorted, the  *)
(* frames of a transfer stay together in their order, and the wire gets    *)
(* the smallest CAN-ID first.                                              *)
(***************************************************************************)
EXTENDS CanardTx, SequenceTheorems, FiniteSetTheorems, WellFoundedInduction, TLAPS

-----------------------------------------------------------------------------
(***************************************************************************)
(* Minima.  Less is the relation < as a set of pairs, which the theorems   *)
(* about well-founded relations ask for.                                   *)
(***************************************************************************)
Less == {p \in Nat \X Nat : p[1] < p[2]}

\* the order of the natural numbers as a relation
LEMMA LessIsWellFounded == IsWellFoundedOn(Less, Nat)
<1>1. OpToRel(<, Nat) = Less
  BY Zenon DEF OpToRel, Less
<1> QED
  BY <1>1, NatLessThanWellFounded, Zenon

\* a set of natural numbers has a least element
LEMMA MinIsLeast ==
  ASSUME NEW S, S \subseteq Nat, S # {}
  PROVE  Min(S) \in S /\ \A y \in S : Min(S) <= y
<1>1. PICK x \in S : \A y \in S : <<y, x>> \notin Less
  BY LessIsWellFounded, WFMin
<1>2. \A y \in S : x <= y
  <2> SUFFICES ASSUME NEW y \in S
               PROVE  ~(y < x)
    OBVIOUS
  <2>1. <<y, x>> \in Nat \X Nat /\ <<y, x>>[1] = y /\ <<y, x>>[2] = x
    OBVIOUS
  <2> QED
    BY <1>1, <2>1 DEF Less
<1> QED
  BY <1>2 DEF Min

\* of two numbers
LEMMA MinOfTwo ==
  ASSUME NEW a \in Int, NEW b \in Int
  PROVE  Min({a, b}) = IF a <= b THEN a ELSE b
<1> DEFINE m == CHOOSE x \in {a, b} : \A y \in {a, b} : x <= y
<1>1. \E x \in {a, b} : \A y \in {a, b} : x <= y
  OBVIOUS
<1>2. m \in {a, b} /\ \A y \in {a, b} : m <= y
  BY <1>1
<1> HIDE DEF m
<1>3. m = IF a <= b THEN a ELSE b
  BY <1>2
<1> QED
  BY <1>3 DEF Min, m

\* of two numbers
LEMMA MaxOfTwo ==
  ASSUME NEW a \in Int, NEW b \in Int
  PROVE  Max({a, b}) = IF a >= b THEN a ELSE b
<1> DEFINE m == CHOOSE x \in {a, b} : \A y \in {a, b} : x >= y
<1>1. \E x \in {a, b} : \A y \in {a, b} : x >= y
  OBVIOUS
<1>2. m \in {a, b} /\ \A y \in {a, b} : m >= y
  BY <1>1
<1> HIDE DEF m
<1>3. m = IF a >= b THEN a ELSE b
  BY <1>2
<1> QED
  BY <1>3 DEF Max, m

-----------------------------------------------------------------------------
(***************************************************************************)
(* The frames of a transfer.                                               *)
(***************************************************************************)

\* the shortest frame that holds x bytes
LEMMA RoundedUpFits ==
  ASSUME NEW x \in 1..Mtu + 1
  PROVE  /\ RoundedUp(x) \in DlcLengths
         /\ RoundedUp(x) \in x..Mtu + 1
         /\ \A l \in DlcLengths : l < RoundedUp(x) => l < x
<1> DEFINE S == {l \in DlcLengths : l >= x}
<1>1. /\ \A l \in DlcLengths : l \in Nat /\ l <= Mtu + 1
      /\ Mtu + 1 \in DlcLengths
      /\ x \in Nat /\ x >= 1 /\ x <= Mtu + 1
  BY DlcAssumption, MtuAssumption
<1>2. S \subseteq Nat /\ Mtu + 1 \in S
  BY <1>1
<1>3. RoundedUp(x) = Min(S)
  BY DEF RoundedUp
<1>4. Min(S) \in S /\ \A l \in S : Min(S) <= l
  BY <1>2, MinIsLeast
<1>5. /\ RoundedUp(x) \in DlcLengths /\ RoundedUp(x) >= x
      /\ \A l \in DlcLengths : l >= x => RoundedUp(x) <= l
  BY <1>3, <1>4
<1>6. \A l \in DlcLengths : l < RoundedUp(x) => l < x
  <2> SUFFICES ASSUME NEW l \in DlcLengths, l < RoundedUp(x), ~(l < x) PROVE FALSE
    OBVIOUS
  <2>1. l \in Nat /\ RoundedUp(x) \in Nat
    BY <1>1, <1>5
  <2>2. l >= x
    BY <1>1, <2>1
  <2> QED
    BY <1>5, <2>1, <2>2
<1>7. RoundedUp(x) \in x..Mtu + 1
  BY <1>1, <1>5
<1> QED
  BY <1>5, <1>6, <1>7

\* room for the shortest frame of two bytes is one byte
LEMMA SmallestRoom == RoundedUp(2) = 2
<1>1. 2 \in 1..Mtu + 1 /\ 2 \in DlcLengths
  BY DlcAssumption, MtuAssumption
<1>2. RoundedUp(2) \in Int /\ RoundedUp(2) >= 2 /\ ~(2 < RoundedUp(2))
  BY <1>1, RoundedUpFits, MtuAssumption
<1> QED
  BY <1>2

\* a round that a full frame does not finish: no padding, and the frame is full
LEMMA FullRound ==
  ASSUME NEW size \in Nat, NEW offset \in Nat, NEW toggle, size + CrcBytes - offset > Mtu
  PROVE  LET f == FrameAt(size, offset, toggle)
         IN  /\ f.data \in Nat /\ f.crc \in Nat /\ f.pad = 0
             /\ f.data + f.crc = Mtu
             /\ f.crc > 0 => offset + f.data >= size
             /\ f.eot = FALSE
<1> DEFINE data == IF offset >= size THEN 0 ELSE Min({size - offset, Mtu})
           atEnd == offset + data >= size
           pad == IF atEnd THEN Max({Mtu - CrcBytes - data, 0}) ELSE 0
           crcLeft == size + CrcBytes - Max({offset, size})
           crc == IF atEnd THEN Min({crcLeft, Mtu - data - pad}) ELSE 0
<1>1. FramePayload(size, offset) = Mtu
  BY MtuAssumption DEF FramePayload, CrcBytes
<1>2. FrameAt(size, offset, toggle) =
        [from |-> offset, data |-> data, pad |-> pad, crc |-> crc, sot |-> offset = 0,
         eot |-> offset + data + crc >= size + CrcBytes, toggle |-> toggle]
  BY <1>1 DEF FrameAt
<1>3. offset < size /\ Mtu \in Nat /\ Mtu > 2 /\ CrcBytes = 2
  BY MtuAssumption DEF CrcBytes
<1>4. data = IF size - offset <= Mtu THEN size - offset ELSE Mtu
  BY <1>3, MinOfTwo
<1>5. crcLeft = 2
  BY <1>3, MaxOfTwo
<1> HIDE DEF data, crcLeft
<1>6. data \in Nat /\ Mtu - CrcBytes - data \in Int /\ Mtu - CrcBytes - data <= 0
  BY <1>3, <1>4
<1>7. pad = 0
  BY <1>3, <1>6, MaxOfTwo
<1> HIDE DEF pad
<1>8. crc = IF atEnd THEN IF 2 <= Mtu - data THEN 2 ELSE Mtu - data ELSE 0
  BY <1>3, <1>5, <1>6, <1>7, MinOfTwo
<1> HIDE DEF crc
<1>9. crc \in Nat /\ data + crc = Mtu /\ (crc > 0 => offset + data >= size)
      /\ ~(offset + data + crc >= size + CrcBytes)
  BY <1>3, <1>4, <1>8
<1> DEFINE f == FrameAt(size, offset, toggle)
<1>10. f.data = data /\ f.crc = crc /\ f.pad = 0 /\ f.eot = FALSE
  <2> DEFINE over == offset + data + crc >= size + CrcBytes
  <2>1. f = [from |-> offset, data |-> data, pad |-> pad, crc |-> crc, sot |-> offset = 0,
             eot |-> over, toggle |-> toggle]
    BY <1>2
  <2>2. over = FALSE
    BY <1>9
  <2> HIDE DEF over, f
  <2>3. f.eot = over
    BY <2>1, Zenon
  <2>4. f.data = data /\ f.crc = crc /\ f.pad = pad
    BY <2>1
  <2> QED
    BY <1>7, <2>2, <2>3, <2>4
<1> HIDE DEF f
<1> QED
  BY <1>6, <1>9, <1>10 DEF f

\* the last round: all that is left, padded to the shortest frame that holds it
LEMMA LastRound ==
  ASSUME NEW size \in Nat, NEW offset \in Nat, NEW toggle, size + CrcBytes - offset \in 1..Mtu
  PROVE  LET f == FrameAt(size, offset, toggle)
             left == size + CrcBytes - offset
         IN  /\ f.data \in Nat /\ f.crc \in Nat /\ f.pad \in Nat
             /\ f.data + f.crc = left
             /\ Bytes(f) + 1 = RoundedUp(left + 1)
             /\ offset + f.data >= size
             /\ f.eot = TRUE
<1> DEFINE left == size + CrcBytes - offset
           room == RoundedUp(left + 1) - 1
           data == IF offset >= size THEN 0 ELSE Min({size - offset, room})
           atEnd == offset + data >= size
           pad == IF atEnd THEN Max({room - CrcBytes - data, 0}) ELSE 0
           crcLeft == size + CrcBytes - Max({offset, size})
           crc == IF atEnd THEN Min({crcLeft, room - data - pad}) ELSE 0
<1>1. left \in 1..Mtu /\ left + 1 \in 1..Mtu + 1 /\ Mtu \in Nat /\ Mtu > 2 /\ CrcBytes = 2
  BY MtuAssumption DEF CrcBytes
<1>2. RoundedUp(left + 1) \in left + 1..Mtu + 1
  BY <1>1, RoundedUpFits
<1>3. room \in left..Mtu /\ room \in Int
  BY <1>1, <1>2
<1>4. FramePayload(size, offset) = room
  BY <1>1, <1>2 DEF FramePayload
<1>5. FrameAt(size, offset, toggle) =
        [from |-> offset, data |-> data, pad |-> pad, crc |-> crc, sot |-> offset = 0,
         eot |-> offset + data + crc >= size + CrcBytes, toggle |-> toggle]
  BY <1>4 DEF FrameAt
<1>6. left = 1 => room = 1
  BY SmallestRoom
<1> HIDE DEF room
<1>7. data = IF offset >= size THEN 0 ELSE size - offset
  BY <1>1, <1>3, MinOfTwo
<1>8. crcLeft = IF offset >= size THEN left ELSE 2
  BY <1>1, MaxOfTwo
<1> HIDE DEF data, crcLeft
<1>9. data \in Nat /\ atEnd /\ room - CrcBytes - data \in Int
  BY <1>1, <1>3, <1>7
<1>10. pad = IF room - 2 - data >= 0 THEN room - 2 - data ELSE 0
  BY <1>1, <1>9, MaxOfTwo
<1> HIDE DEF pad, atEnd
<1>11. crcLeft \in Int /\ room - data - pad \in Int
  BY <1>1, <1>3, <1>8, <1>9, <1>10
<1>12. crc = IF crcLeft <= room - data - pad THEN crcLeft ELSE room - data - pad
  BY <1>9, <1>11, MinOfTwo
<1> HIDE DEF crc
<1>13. crc \in Nat /\ pad \in Nat /\ data + crc = left /\ data + pad + crc = room
  <2>1. CASE offset < size
    BY <1>1, <1>3, <1>7, <1>8, <1>10, <1>12, <2>1
  <2>2. CASE offset >= size
    <3>1. left = 1 \/ left = 2
      BY <1>1, <2>2
    <3> QED
      BY <1>1, <1>3, <1>6, <1>7, <1>8, <1>10, <1>12, <2>2, <3>1
  <2> QED
    BY <2>1, <2>2
<1>14. offset + data + crc >= size + CrcBytes
  BY <1>1, <1>9, <1>13
<1>15. data + pad + crc + 1 = RoundedUp(left + 1)
  BY <1>2, <1>13 DEF room
<1>16. offset + data >= size
  BY <1>9 DEF atEnd
<1> DEFINE f == FrameAt(size, offset, toggle)
<1>17. f.data = data /\ f.crc = crc /\ f.pad = pad /\ f.eot = TRUE /\ Bytes(f) = data + pad + crc
  <2> DEFINE over == offset + data + crc >= size + CrcBytes
  <2>1. f = [from |-> offset, data |-> data, pad |-> pad, crc |-> crc, sot |-> offset = 0,
             eot |-> over, toggle |-> toggle]
    BY <1>5
  <2>2. over = TRUE
    BY <1>14
  <2> HIDE DEF over, f
  <2>3. f.eot = over
    BY <2>1, Zenon
  <2>4. f.data = data /\ f.crc = crc /\ f.pad = pad
    BY <2>1
  <2> QED
    BY <2>2, <2>3, <2>4 DEF Bytes
<1> HIDE DEF f, left
<1> QED
  BY <1>9, <1>13, <1>15, <1>16, <1>17 DEF f, left

\* the rounds are as few as finish the transfer
LEMMA RoundsFinish ==
  ASSUME NEW size \in Nat, size > Mtu
  PROVE  /\ Rounds(size) \in Nat /\ Rounds(size) > 1
         /\ Rounds(size) * Mtu >= size + CrcBytes
         /\ \A n \in Nat : n < Rounds(size) => n * Mtu < size + CrcBytes
<1> DEFINE S == {n \in 1..size + CrcBytes : n * Mtu >= size + CrcBytes}
<1>1. Mtu \in Nat /\ Mtu > 2 /\ CrcBytes = 2
  BY MtuAssumption DEF CrcBytes
<1>2. \A n \in Nat : n * Mtu \in Nat /\ (n >= 1 => n * Mtu >= n)
  BY <1>1
<1>3. size + CrcBytes \in S /\ S \subseteq Nat
  BY <1>1, <1>2
<1>4. Min(S) \in S /\ \A n \in S : Min(S) <= n
  BY <1>3, MinIsLeast
<1>5. Rounds(size) = Min(S)
  BY DEF Rounds
<1>6. Rounds(size) \in S /\ \A n \in S : Rounds(size) <= n
  BY <1>4, <1>5
<1>7. Rounds(size) \in Nat /\ Rounds(size) <= size + CrcBytes /\ Rounds(size) * Mtu >= size + CrcBytes
  BY <1>1, <1>6
<1>8. ASSUME NEW n \in Nat, n < Rounds(size), ~(n * Mtu < size + CrcBytes)
      PROVE  FALSE
  <2>1. n # 0
    <3>1. 0 * Mtu = 0
      BY <1>1
    <3> QED
      BY <1>1, <1>8, <3>1
  <2>2. n \in S
    BY <1>1, <1>2, <1>7, <1>8, <2>1
  <2> QED
    BY <1>6, <1>7, <1>8, <2>2
<1>9. Rounds(size) > 1
  <2>1. 0 * Mtu = 0 /\ 1 * Mtu = Mtu
    BY <1>1
  <2>2. Rounds(size) # 0 /\ Rounds(size) # 1
    BY <1>1, <1>7, <2>1
  <2> QED
    BY <1>7, <2>2
<1> QED
  BY <1>7, <1>8, <1>9

\* what round i of a transfer of several frames finds
LEMMA RoundBegins ==
  ASSUME NEW size \in Nat, size > Mtu, NEW i \in 1..Rounds(size)
  PROVE  /\ (i - 1) * Mtu \in Nat
         /\ (i - 1) * Mtu + Mtu = i * Mtu
         /\ ((i - 1) * Mtu = 0) = (i = 1)
         /\ i < Rounds(size) => size + CrcBytes - (i - 1) * Mtu > Mtu
         /\ i = Rounds(size) => size + CrcBytes - (i - 1) * Mtu \in 1..Mtu
<1>1. Mtu \in Nat /\ Mtu > 2 /\ CrcBytes \in Nat /\ i \in Nat /\ i - 1 \in Nat /\ Rounds(size) \in Nat
  BY MtuAssumption, RoundsFinish DEF CrcBytes
<1>2. (i - 1) * Mtu + Mtu = i * Mtu /\ (i - 1) * Mtu \in Nat /\ i * Mtu \in Nat
  BY <1>1
<1>3. ((i - 1) * Mtu = 0) = (i = 1)
  BY <1>1
<1>4. i < Rounds(size) => i * Mtu < size + CrcBytes
  BY <1>1, RoundsFinish
<1>5. (i - 1) * Mtu < size + CrcBytes
  <2>1. \A n \in Nat : n < Rounds(size) => n * Mtu < size + CrcBytes
    BY RoundsFinish
  <2> DEFINE n == i - 1
  <2>2. n \in Nat /\ n < Rounds(size)
    BY <1>1
  <2> HIDE DEF n
  <2>3. n * Mtu < size + CrcBytes
    BY <2>1, <2>2
  <2> QED
    BY <2>3 DEF n
<1>6. Rounds(size) * Mtu >= size + CrcBytes
  BY RoundsFinish
<1>7. i < Rounds(size) => size + CrcBytes - (i - 1) * Mtu > Mtu
  BY <1>1, <1>2, <1>4
<1>8. i = Rounds(size) => size + CrcBytes - (i - 1) * Mtu \in 1..Mtu
  <2>1. i = Rounds(size) => i * Mtu >= size + CrcBytes
    BY <1>6
  <2> DEFINE before == (i - 1) * Mtu
             after == i * Mtu
  <2>2. before \in Nat /\ after \in Nat /\ before + Mtu = after
    BY <1>2
  <2> HIDE DEF before, after
  <2>3. before < size + CrcBytes /\ (i = Rounds(size) => after >= size + CrcBytes)
    BY <1>5, <2>1 DEF before, after
  <2>4. i = Rounds(size) => size + CrcBytes - before \in 1..Mtu
    BY <1>1, <2>2, <2>3
  <2> QED
    BY <2>4 DEF before
<1> QED
  BY <1>2, <1>3, <1>7, <1>8

\* the fields of a frame that the round copies
LEMMA FrameAtFields ==
  ASSUME NEW size, NEW offset, NEW toggle
  PROVE  /\ FrameAt(size, offset, toggle).from = offset
         /\ FrameAt(size, offset, toggle).sot = (offset = 0)
         /\ FrameAt(size, offset, toggle).toggle = toggle
BY Zenon DEF FrameAt

\* The frames the library makes of a payload of any size, for any MTU and table of frame lengths
\* (which bends the rounding of the last frame), are a transfer as UAVCAN/CAN defines it: all of
\* the payload without a gap, CRC and padding at the end, no more padding than the lengths force.
THEOREM FramesConform ==
  ASSUME NEW size \in Nat
  PROVE  Conforming(Frames(size), size)
<1> DEFINE f == Frames(size)
<1>1. Mtu \in Nat /\ Mtu > 2 /\ CrcBytes = 2
  BY MtuAssumption DEF CrcBytes
<1>2. CASE size <= Mtu
  <2>1. size + 1 \in 1..Mtu + 1
    BY <1>1, <1>2
  <2>2. /\ RoundedUp(size + 1) \in DlcLengths /\ RoundedUp(size + 1) \in size + 1..Mtu + 1
        /\ \A l \in DlcLengths : l < RoundedUp(size + 1) => l < size + 1
    BY <2>1, RoundedUpFits
  <2>3. f = <<SingleFrame(size)>>
    BY <1>2 DEF Frames
  <2> HIDE DEF f
  <2>4. Len(f) = 1 /\ f[1] = SingleFrame(size)
    BY <2>3
  <2> DEFINE rounded == RoundedUp(size + 1)
  <2>5. SingleFrame(size) = [from |-> 0, data |-> size, pad |-> rounded - size - 1, crc |-> 0,
                             sot |-> TRUE, eot |-> TRUE, toggle |-> TRUE]
    BY DEF SingleFrame
  <2>6. rounded \in Nat
    BY <1>1, <2>2
  <2> HIDE DEF rounded
  <2>7. /\ f[1].from = 0 /\ f[1].data = size /\ f[1].crc = 0 /\ f[1].pad = rounded - size - 1
        /\ f[1].sot = TRUE /\ f[1].eot = TRUE /\ f[1].toggle = TRUE
        /\ Bytes(f[1]) = rounded - 1
    BY <2>4, <2>5, <2>6 DEF Bytes
  <2>8. \A i \in 1..Len(f) :
          /\ Bytes(f[i]) + 1 \in DlcLengths
          /\ f[i].sot = (i = 1) /\ f[i].eot = (i = Len(f)) /\ f[i].toggle = (i % 2 = 1)
          /\ ~(i < Len(f)) /\ ~(f[i].crc > 0)
    <3> SUFFICES ASSUME NEW i \in 1..Len(f)
                 PROVE  /\ Bytes(f[i]) + 1 \in DlcLengths
                        /\ f[i].sot = (i = 1) /\ f[i].eot = (i = Len(f)) /\ f[i].toggle = (i % 2 = 1)
                        /\ ~(i < Len(f)) /\ ~(f[i].crc > 0)
      OBVIOUS
    <3>1. i = 1 /\ 1 % 2 = 1
      BY <2>4
    <3>2. Bytes(f[1]) + 1 \in DlcLengths
      BY <2>2, <2>6, <2>7 DEF rounded
    <3>3. (i = 1) = TRUE /\ (i = Len(f)) = TRUE /\ (i % 2 = 1) = TRUE
      BY <2>4, <3>1
    <3>4. f[i].sot = (i = 1) /\ f[i].eot = (i = Len(f)) /\ f[i].toggle = (i % 2 = 1)
      BY <2>7, <3>1, <3>3, Zenon
    <3> QED
      BY <2>4, <2>7, <3>1, <3>2, <3>4
  <2>9. \A l \in DlcLengths : l <= Bytes(f[1]) => l < Bytes(f[1]) + 1 - f[1].pad
    <3> SUFFICES ASSUME NEW l \in DlcLengths, l <= Bytes(f[1]) PROVE l < Bytes(f[1]) + 1 - f[1].pad
      OBVIOUS
    <3>1. l \in Nat
      BY <1>1, DlcAssumption
    <3>2. l < rounded
      BY <2>6, <2>7, <3>1
    <3>3. l < size + 1
      BY <2>2, <3>2 DEF rounded
    <3> QED
      BY <2>6, <2>7, <3>1, <3>3
  <2> QED
    BY <2>4, <2>7, <2>8, <2>9 DEF Conforming, f
<1>3. CASE size > Mtu
  <2> DEFINE N == Rounds(size)
  <2>1. f = [i \in 1..N |-> FrameAt(size, (i - 1) * Mtu, i % 2 = 1)]
    BY <1>1, <1>3 DEF Frames, MultiFrame
  <2>2. N \in Nat /\ N > 1
    BY <1>3, RoundsFinish
  <2>3. ASSUME NEW i \in 1..N
        PROVE  /\ (i - 1) * Mtu \in Nat
               /\ (i - 1) * Mtu + Mtu = i * Mtu
               /\ ((i - 1) * Mtu = 0) = (i = 1)
               /\ i < N => size + CrcBytes - (i - 1) * Mtu > Mtu
               /\ i = N => size + CrcBytes - (i - 1) * Mtu \in 1..Mtu
    BY <1>3, RoundBegins
  <2> HIDE DEF N, f
  <2>4. Len(f) = N /\ \A i \in 1..N : f[i] = FrameAt(size, (i - 1) * Mtu, i % 2 = 1)
    BY <2>1, <2>2
  <2>5. ASSUME NEW i \in 1..N
        PROVE  f[i].from = (i - 1) * Mtu /\ f[i].sot = (i = 1) /\ f[i].toggle = (i % 2 = 1)
    <3> DEFINE offset == (i - 1) * Mtu
               toggle == i % 2 = 1
    <3>0. f[i] = FrameAt(size, offset, toggle)
      BY <2>4, Zenon
    <3> HIDE DEF offset, toggle
    <3> DEFINE g == FrameAt(size, offset, toggle)
    <3>6. g.from = offset /\ g.sot = (offset = 0) /\ g.toggle = toggle
      BY FrameAtFields
    <3>7. f[i] = g
      BY <3>0, Zenon
    <3> HIDE DEF g
    <3>5. f[i].from = offset /\ f[i].sot = (offset = 0) /\ f[i].toggle = toggle
      BY <3>6, <3>7, Zenon
    <3>1. f[i].sot = ((i - 1) * Mtu = 0)
      BY <3>5, Zenon DEF offset
    <3>2. ((i - 1) * Mtu = 0) = (i = 1)
      BY <2>3
    <3>3. f[i].sot = (i = 1)
      BY <3>1, <3>2, Zenon
    <3>4. f[i].from = (i - 1) * Mtu /\ f[i].toggle = (i % 2 = 1)
      BY <3>5, Zenon DEF offset, toggle
    <3> QED
      BY <3>3, <3>4
  <2>6. ASSUME NEW i \in 1..N, i < N
        PROVE  /\ Bytes(f[i]) = Mtu /\ f[i].pad = 0 /\ f[i].eot = FALSE
               /\ f[i].data + f[i].crc = Mtu /\ f[i].data \in Nat /\ f[i].crc \in Nat
               /\ f[i].crc > 0 => f[i].from + f[i].data >= size
    <3>1. (i - 1) * Mtu \in Nat /\ size + CrcBytes - (i - 1) * Mtu > Mtu
      BY <2>3, <2>6
    <3> DEFINE offset == (i - 1) * Mtu
               toggle == i % 2 = 1
    <3>2. offset \in Nat /\ size + CrcBytes - offset > Mtu /\ f[i] = FrameAt(size, offset, toggle)
      BY <2>4, <3>1
    <3>3. f[i].from = offset
      BY <2>5
    <3> HIDE DEF offset, toggle
    <3> DEFINE g == FrameAt(size, offset, toggle)
    <3>5. /\ g.data \in Nat /\ g.crc \in Nat /\ g.pad = 0
          /\ g.data + g.crc = Mtu
          /\ g.crc > 0 => offset + g.data >= size
          /\ g.eot = FALSE
      BY <3>2, FullRound
    <3>6. f[i] = g
      BY <3>2
    <3> HIDE DEF g
    <3>4. /\ f[i].data \in Nat /\ f[i].crc \in Nat /\ f[i].pad = 0
          /\ f[i].data + f[i].crc = Mtu
          /\ f[i].crc > 0 => offset + f[i].data >= size
          /\ f[i].eot = FALSE
      BY <3>5, <3>6
    <3> QED
      BY <3>3, <3>4 DEF Bytes
  <2>7. /\ f[N].data \in Nat /\ f[N].crc \in Nat /\ f[N].pad \in Nat /\ f[N].eot = TRUE
        /\ f[N].data + f[N].crc = size + CrcBytes - f[N].from
        /\ f[N].from \in Nat
        /\ size + CrcBytes - f[N].from \in 1..Mtu
        /\ Bytes(f[N]) + 1 = RoundedUp(size + CrcBytes - f[N].from + 1)
        /\ f[N].from + f[N].data >= size
    <3> DEFINE offset == (N - 1) * Mtu
               toggle == N % 2 = 1
    <3>1. offset \in Nat /\ size + CrcBytes - offset \in 1..Mtu /\ f[N] = FrameAt(size, offset, toggle)
      BY <2>2, <2>3, <2>4
    <3>2. f[N].from = offset
      BY <2>2, <2>5
    <3> HIDE DEF offset, toggle
    <3> DEFINE g == FrameAt(size, offset, toggle)
    <3>4. /\ g.data \in Nat /\ g.crc \in Nat /\ g.pad \in Nat
          /\ g.data + g.crc = size + CrcBytes - offset
          /\ Bytes(g) + 1 = RoundedUp(size + CrcBytes - offset + 1)
          /\ offset + g.data >= size
          /\ g.eot = TRUE
      BY <3>1, LastRound
    <3>5. f[N] = g
      BY <3>1
    <3> HIDE DEF g
    <3>3. /\ f[N].data \in Nat /\ f[N].crc \in Nat /\ f[N].pad \in Nat
          /\ f[N].data + f[N].crc = size + CrcBytes - offset
          /\ Bytes(f[N]) + 1 = RoundedUp(size + CrcBytes - offset + 1)
          /\ offset + f[N].data >= size
          /\ f[N].eot = TRUE
      BY <3>4, <3>5
    <3> QED
      BY <3>1, <3>2, <3>3
  <2> DEFINE left == size + CrcBytes - f[N].from
  <2>8. /\ RoundedUp(left + 1) \in DlcLengths
        /\ RoundedUp(left + 1) \in left + 1..Mtu + 1
        /\ \A l \in DlcLengths : l < RoundedUp(left + 1) => l < left + 1
    <3>1. left + 1 \in 1..Mtu + 1
      BY <1>1, <2>7
    <3> HIDE DEF left
    <3> QED
      BY <3>1, RoundedUpFits
  <2>9. \A i \in 1..N :
          /\ Bytes(f[i]) + 1 \in DlcLengths
          /\ f[i].eot = (i = N)
          /\ i < N => f[i + 1].from = f[i].from + f[i].data + f[i].crc
          /\ f[i].crc > 0 => f[i].from + f[i].data >= size
    <3> SUFFICES ASSUME NEW i \in 1..N
                 PROVE  /\ Bytes(f[i]) + 1 \in DlcLengths
                        /\ f[i].eot = (i = N)
                        /\ i < N => f[i + 1].from = f[i].from + f[i].data + f[i].crc
                        /\ f[i].crc > 0 => f[i].from + f[i].data >= size
      OBVIOUS
    <3>1. CASE i < N
      <4>1. Bytes(f[i]) + 1 \in DlcLengths
        BY <1>1, <2>6, <3>1, DlcAssumption
      <4>2. f[i].eot = (i = N)
        <5>1. (i = N) = FALSE
          BY <2>2, <3>1
        <5>2. f[i].eot = FALSE
          BY <2>6, <3>1
        <5> QED
          BY <5>1, <5>2, Zenon
      <4>3. i + 1 \in 1..N /\ (i + 1) - 1 = i
        BY <2>2, <3>1
      <4>4. f[i + 1].from = i * Mtu
        BY <2>5, <4>3
      <4>5. f[i].from + Mtu = i * Mtu
        BY <2>3, <2>5
      <4>6. f[i].from \in Nat
        BY <2>3, <2>5
      <4>7. f[i].data + f[i].crc = Mtu /\ f[i].data \in Nat /\ f[i].crc \in Nat
        BY <2>6, <3>1
      <4>8. f[i + 1].from = f[i].from + f[i].data + f[i].crc
        <5> DEFINE there == i * Mtu
        <5>1. f[i + 1].from = there /\ f[i].from + Mtu = there
          BY <4>4, <4>5
        <5> HIDE DEF there
        <5> QED
          BY <4>6, <4>7, <5>1
      <4> QED
        BY <2>6, <3>1, <4>1, <4>2, <4>8
    <3>2. CASE i = N
      <4>1. (i = N) = TRUE
        BY <3>2
      <4>2. f[i].eot = (i = N)
        BY <2>7, <3>2, <4>1, Zenon
      <4>3. Bytes(f[i]) + 1 \in DlcLengths
        BY <2>7, <2>8, <3>2
      <4> QED
        BY <2>2, <2>7, <3>2, <4>2, <4>3
    <3> QED
      BY <2>2, <3>1, <3>2
  <2>10. f[1].from = 0
    BY <1>1, <2>2, <2>5
  <2>11. f[N].from + f[N].data + f[N].crc = size + CrcBytes
    BY <1>1, <2>7
  <2>12. \A l \in DlcLengths : l <= Bytes(f[N]) => l < Bytes(f[N]) + 1 - f[N].pad
    <3> SUFFICES ASSUME NEW l \in DlcLengths, l <= Bytes(f[N]) PROVE l < Bytes(f[N]) + 1 - f[N].pad
      OBVIOUS
    <3>1. l \in Nat /\ Bytes(f[N]) = f[N].data + f[N].pad + f[N].crc
      BY <1>1, DlcAssumption DEF Bytes
    <3>2. l < RoundedUp(left + 1)
      BY <2>7, <3>1
    <3>3. l < left + 1
      BY <2>8, <3>2
    <3> QED
      BY <1>1, <2>7, <3>1, <3>3
  <2>13. \A i \in 1..N : f[i].sot = (i = 1) /\ f[i].toggle = (i % 2 = 1)
    BY <2>5
  <2>14. \A i \in 1..N : i < N => Bytes(f[i]) = Mtu /\ f[i].pad = 0
    BY <2>6
  <2>15. Conforming(f, size)
    BY <2>2, <2>4, <2>9, <2>10, <2>11, <2>12, <2>13, <2>14 DEF Conforming
  <2> QED
    BY <2>15 DEF f
<1> QED
  BY <1>1, <1>2, <1>3

-----------------------------------------------------------------------------
(***************************************************************************)
(* The queue.  The inductive invariant says what Enqueue relies on (the    *)
(* queue is sorted) and where the frames of every transfer are: at         *)
(* increasing places of the order they leave in, each once and no others.  *)
(***************************************************************************)
FrameSet == UNION {{Frames(size)[k] : k \in DOMAIN Frames(size)} : size \in Sizes}
ItemSet == [id : CanIds, no : Nat, frame : FrameSet]
Transfer == [id : CanIds, size : Sizes]

Types ==
  /\ txQueue \in Seq(ItemSet)
  /\ wire \in Seq(ItemSet)
  /\ pushed \in Seq(Transfer)

Sorted == \A i, j \in 1..Len(txQueue) : i <= j => txQueue[i].id <= txQueue[j].id

\* the items of transfer no, one for each frame
Item(no, k) == [id |-> pushed[no].id, no |-> no, frame |-> Frames(pushed[no].size)[k]]
Lists(at, no) ==
  LET n == Len(Frames(pushed[no].size)) IN
  /\ at \in [1..n -> 1..Len(Order)]
  /\ \A j, k \in 1..n : j < k => at[j] < at[k]
  /\ \A k \in 1..n : Order[at[k]] = Item(no, k)
  /\ \A i \in 1..Len(Order) : Order[i].no = no => \E k \in 1..n : i = at[k]
Listed == \A no \in 1..Len(pushed) : \E at : Lists(at, no)

Pushed == \A i \in 1..Len(Order) : Order[i].no \in 1..Len(pushed)

TxInv ==
  /\ Types
  /\ MemoryBalanced
  /\ Sorted
  /\ Pushed
  /\ Listed
  /\ TransfersNotMixed

-----------------------------------------------------------------------------
\* the list of frames of a transfer
LEMMA FramesAreAList ==
  ASSUME NEW size \in Nat
  PROVE  /\ Len(Frames(size)) \in Nat
         /\ Frames(size) = [k \in 1..Len(Frames(size)) |-> Frames(size)[k]]
         /\ Len(Frames(size)) >= 1
         /\ \A j, k \in 1..Len(Frames(size)) : j < k => Frames(size)[j].from < Frames(size)[k].from
<1> DEFINE f == Frames(size)
<1>1. Mtu \in Nat /\ Mtu > 2
  BY MtuAssumption
<1>2. CASE size <= Mtu
  <2>1. f = <<SingleFrame(size)>>
    BY <1>2 DEF Frames
  <2> HIDE DEF f
  <2>2. Len(f) = 1 /\ f = [k \in 1..1 |-> f[k]]
    BY <2>1
  <2>3. \A j, k \in 1..Len(f) : ~(j < k)
    BY <2>2
  <2> QED
    BY <2>2, <2>3 DEF f
<1>3. CASE size > Mtu
  <2> DEFINE N == Rounds(size)
  <2>1. f = [i \in 1..N |-> FrameAt(size, (i - 1) * Mtu, i % 2 = 1)]
    BY <1>1, <1>3 DEF Frames, MultiFrame
  <2>2. N \in Nat /\ N > 1
    BY <1>3, RoundsFinish
  <2> HIDE DEF N, f
  <2>3. Len(f) = N /\ f = [i \in 1..N |-> f[i]] /\ \A i \in 1..N : f[i] = FrameAt(size, (i - 1) * Mtu, i % 2 = 1)
    BY <2>1, <2>2
  <2>4. \A i \in 1..N : f[i].from = (i - 1) * Mtu
    <3> SUFFICES ASSUME NEW i \in 1..N PROVE f[i].from = (i - 1) * Mtu
      OBVIOUS
    <3> DEFINE offset == (i - 1) * Mtu
               toggle == i % 2 = 1
    <3>1. f[i] = FrameAt(size, offset, toggle)
      BY <2>3
    <3> HIDE DEF offset, toggle
    <3>2. f[i].from = offset
      BY <3>1, FrameAtFields
    <3> QED
      BY <3>2 DEF offset
  <2>5. \A j, k \in 1..N : j < k => f[j].from < f[k].from
    <3> SUFFICES ASSUME NEW j \in 1..N, NEW k \in 1..N, j < k PROVE (j - 1) * Mtu < (k - 1) * Mtu
      BY <2>4
    <3>1. j - 1 \in Nat /\ k - 1 \in Nat /\ j - 1 < k - 1
      BY <2>2
    <3>2. \A a, b \in Nat : a < b => a * Mtu < b * Mtu
      BY <1>1
    <3> QED
      BY <3>1, <3>2
  <2> QED
    BY <2>2, <2>3, <2>5 DEF f
<1> QED
  BY <1>1, <1>2, <1>3

\* a list m put into a list a after its first p elements
Inserted(b, a, m, p) ==
  /\ Len(b) = Len(a) + Len(m)
  /\ \A i \in 1..p : b[i] = a[i]
  /\ \A i \in 1..Len(m) : b[p + i] = m[i]
  /\ \A i \in p + 1..Len(a) : b[i + Len(m)] = a[i]

\* what the links of the list do
LEMMA ListsJoin ==
  ASSUME NEW S, NEW a \in Seq(S), NEW m \in Seq(S), NEW p \in 0..Len(a)
  PROVE  LET b == SubSeq(a, 1, p) \o m \o SubSeq(a, p + 1, Len(a))
         IN  b \in Seq(S) /\ Inserted(b, a, m, p)
<1> DEFINE u == SubSeq(a, 1, p)
           v == SubSeq(a, p + 1, Len(a))
<1>1. u \in Seq(S) /\ Len(u) = p /\ \A i \in 1..p : u[i] = a[i]
  OBVIOUS
<1>2. v \in Seq(S) /\ Len(v) = Len(a) - p /\ \A i \in 1..Len(a) - p : v[i] = a[p + i]
  OBVIOUS
<1> HIDE DEF u, v
<1> DEFINE w == u \o m
<1>3. w \in Seq(S) /\ Len(w) = p + Len(m) /\ (\A i \in 1..p : w[i] = a[i]) /\ \A i \in 1..Len(m) : w[p + i] = m[i]
  <2>1. /\ w \in Seq(S) /\ Len(w) = Len(u) + Len(m)
        /\ \A i \in 1..Len(u) + Len(m) : w[i] = IF i <= Len(u) THEN u[i] ELSE m[i - Len(u)]
    BY <1>1, ConcatProperties, Zenon
  <2> HIDE DEF w
  <2>2. Len(m) \in Nat
    OBVIOUS
  <2>3. \A i \in 1..p : i \in 1..Len(w) /\ i <= Len(u)
    BY <1>1, <2>1, <2>2
  <2>4. \A i \in 1..Len(m) : p + i \in 1..Len(w) /\ ~(p + i <= Len(u)) /\ (p + i) - Len(u) = i
    BY <1>1, <2>1, <2>2
  <2> QED
    BY <1>1, <2>1, <2>3, <2>4
<1> HIDE DEF w
<1> DEFINE b == w \o v
<1>4. /\ b \in Seq(S) /\ Len(b) = Len(w) + Len(v)
      /\ \A i \in 1..Len(w) : b[i] = w[i]
      /\ \A i \in 1..Len(v) : b[Len(w) + i] = v[i]
  <2>1. /\ b \in Seq(S) /\ Len(b) = Len(w) + Len(v)
        /\ \A i \in 1..Len(w) + Len(v) : b[i] = IF i <= Len(w) THEN w[i] ELSE v[i - Len(w)]
    BY <1>2, <1>3, ConcatProperties, Zenon
  <2> HIDE DEF b
  <2>2. Len(v) \in Nat /\ Len(w) \in Nat
    BY <1>2, <1>3
  <2>3. \A i \in 1..Len(w) : i \in 1..Len(b) /\ i <= Len(w)
    BY <2>1, <2>2
  <2>4. \A i \in 1..Len(v) : Len(w) + i \in 1..Len(b) /\ ~(Len(w) + i <= Len(w)) /\ (Len(w) + i) - Len(w) = i
    BY <2>1, <2>2
  <2> QED
    BY <2>1, <2>3, <2>4
<1> HIDE DEF b
<1>5. Len(b) = Len(a) + Len(m) /\ Len(m) \in Nat /\ Len(a) \in Nat /\ p \in Nat
  BY <1>2, <1>3, <1>4
<1>6. \A i \in 1..p : b[i] = a[i]
  BY <1>3, <1>4, <1>5
<1>7. \A i \in 1..Len(m) : b[p + i] = m[i]
  BY <1>3, <1>4, <1>5
<1>8. \A i \in p + 1..Len(a) : b[i + Len(m)] = a[i]
  <2> SUFFICES ASSUME NEW i \in p + 1..Len(a) PROVE b[i + Len(m)] = a[i]
    OBVIOUS
  <2> DEFINE d == i - p
  <2>1. d \in 1..Len(v) /\ i = p + d /\ i + Len(m) = Len(w) + d
    BY <1>2, <1>3, <1>5
  <2> HIDE DEF d
  <2>2. b[Len(w) + d] = v[d] /\ v[d] = a[p + d]
    BY <1>2, <1>4, <2>1
  <2> QED
    BY <2>1, <2>2
<1> QED
  BY <1>4, <1>5, <1>6, <1>7, <1>8 DEF Inserted, b, w, u, v

\* what is inserted in the second of two lists is inserted in both together
LEMMA InsertedBehind ==
  ASSUME NEW S, NEW w \in Seq(S), NEW a \in Seq(S), NEW m \in Seq(S), NEW b \in Seq(S),
         NEW p \in 0..Len(a), Inserted(b, a, m, p)
  PROVE  Inserted(w \o b, w \o a, m, Len(w) + p)
<1> DEFINE x == w \o a
           y == w \o b
<1>1. /\ Len(x) = Len(w) + Len(a)
      /\ \A i \in 1..Len(w) : x[i] = w[i]
      /\ \A i \in 1..Len(a) : x[Len(w) + i] = a[i]
      /\ Len(w) \in Nat /\ Len(a) \in Nat
  OBVIOUS
<1>2. /\ Len(y) = Len(w) + Len(b)
      /\ \A i \in 1..Len(w) : y[i] = w[i]
      /\ \A i \in 1..Len(b) : y[Len(w) + i] = b[i]
      /\ Len(b) \in Nat /\ Len(m) \in Nat
  OBVIOUS
<1> HIDE DEF x, y
<1> DEFINE q == Len(w) + p
<1>3. /\ Len(b) = Len(a) + Len(m)
      /\ \A i \in 1..p : b[i] = a[i]
      /\ \A i \in 1..Len(m) : b[p + i] = m[i]
      /\ \A i \in p + 1..Len(a) : b[i + Len(m)] = a[i]
  BY DEF Inserted
<1>4. \A i \in 1..q : y[i] = x[i]
  <2> SUFFICES ASSUME NEW i \in 1..q PROVE y[i] = x[i]
    OBVIOUS
  <2>1. CASE i <= Len(w)
    BY <1>1, <1>2, <2>1
  <2>2. CASE i > Len(w)
    <3> DEFINE d == i - Len(w)
    <3>1. d \in 1..p /\ d \in 1..Len(a) /\ d \in 1..Len(b) /\ i = Len(w) + d
      BY <1>1, <1>2, <1>3, <2>2
    <3> HIDE DEF d
    <3> QED
      BY <1>1, <1>2, <1>3, <3>1
  <2> QED
    BY <1>1, <2>1, <2>2
<1>5. \A i \in 1..Len(m) : y[q + i] = m[i]
  <2> SUFFICES ASSUME NEW i \in 1..Len(m) PROVE y[q + i] = m[i]
    OBVIOUS
  <2> DEFINE d == p + i
  <2>1. d \in 1..Len(b) /\ q + i = Len(w) + d /\ b[d] = m[i]
    BY <1>1, <1>2, <1>3
  <2> HIDE DEF d
  <2> QED
    BY <1>2, <2>1
<1>6. \A i \in q + 1..Len(x) : y[i + Len(m)] = x[i]
  <2> SUFFICES ASSUME NEW i \in q + 1..Len(x) PROVE y[i + Len(m)] = x[i]
    OBVIOUS
  <2> DEFINE d == i - Len(w)
             e == d + Len(m)
  <2>1. d \in p + 1..Len(a) /\ d \in 1..Len(a) /\ i = Len(w) + d
    BY <1>1
  <2>2. e \in 1..Len(b) /\ i + Len(m) = Len(w) + e
    BY <1>1, <1>2, <1>3, <2>1
  <2>3. b[e] = a[d]
    BY <1>3, <2>1
  <2> HIDE DEF d, e
  <2> QED
    BY <1>1, <1>2, <2>1, <2>2, <2>3
<1>7. Len(y) = Len(x) + Len(m)
  BY <1>1, <1>2, <1>3
<1> QED
  BY <1>4, <1>5, <1>6, <1>7 DEF Inserted, x, y

\* the place where a list that has something inserted got an element from
LEMMA InsertedFrom ==
  ASSUME NEW a, NEW b, NEW m, NEW p, Len(a) \in Nat, Len(m) \in Nat, p \in 0..Len(a),
         Inserted(b, a, m, p)
  PROVE  \A i \in 1..Len(b) :
           \/ i \in 1..p /\ b[i] = a[i]
           \/ i - p \in 1..Len(m) /\ b[i] = m[i - p]
           \/ i - Len(m) \in p + 1..Len(a) /\ b[i] = a[i - Len(m)]
<1> SUFFICES ASSUME NEW i \in 1..Len(b)
             PROVE  \/ i \in 1..p /\ b[i] = a[i]
                    \/ i - p \in 1..Len(m) /\ b[i] = m[i - p]
                    \/ i - Len(m) \in p + 1..Len(a) /\ b[i] = a[i - Len(m)]
  OBVIOUS
<1>1. /\ Len(b) = Len(a) + Len(m)
      /\ \A k \in 1..p : b[k] = a[k]
      /\ \A k \in 1..Len(m) : b[p + k] = m[k]
      /\ \A k \in p + 1..Len(a) : b[k + Len(m)] = a[k]
  BY DEF Inserted
<1>2. CASE i <= p
  BY <1>1, <1>2
<1>3. CASE i > p /\ i <= p + Len(m)
  <2> DEFINE d == i - p
  <2>1. d \in 1..Len(m) /\ p + d = i
    BY <1>3
  <2> HIDE DEF d
  <2>2. b[i] = m[d]
    BY <1>1, <2>1
  <2> QED
    BY <2>1, <2>2 DEF d
<1>4. CASE i > p + Len(m)
  <2> DEFINE d == i - Len(m)
  <2>1. d \in p + 1..Len(a) /\ d + Len(m) = i
    BY <1>1, <1>4
  <2> HIDE DEF d
  <2>2. b[i] = a[d]
    BY <1>1, <2>1
  <2> QED
    BY <2>1, <2>2 DEF d
<1>5. i \in Int /\ p \in Int
  BY <1>1
<1> QED
  BY <1>2, <1>3, <1>4, <1>5

\* the place Enqueue looks for exists, sorted or not
LEMMA SupremumIsThere ==
  ASSUME Types, NEW id \in CanIds
  PROVE  /\ Supremum(id) \in 0..Len(txQueue)
         /\ \A i \in 1..Supremum(id) : txQueue[i].id <= id
         /\ Supremum(id) < Len(txQueue) => txQueue[Supremum(id) + 1].id > id
<1> DEFINE ids(i) == txQueue[i].id
           S == {k \in 0..Len(txQueue) : k < Len(txQueue) => ids(k + 1) > id}
           P(k) == /\ \A i \in 1..k : txQueue[i].id <= id
                   /\ k < Len(txQueue) => txQueue[k + 1].id > id
<1>1. id \in Nat /\ Len(txQueue) \in Nat /\ \A i \in 1..Len(txQueue) : txQueue[i].id \in Nat
  <2>1. \A i \in 1..Len(txQueue) : txQueue[i] \in ItemSet
    BY DEF Types
  <2>2. \A item \in ItemSet : item.id \in Nat
    BY CanIdsAssumption DEF ItemSet
  <2> QED
    BY <2>1, <2>2, CanIdsAssumption DEF Types
<1>2. S \subseteq Nat /\ Len(txQueue) \in S
  BY <1>1
<1>3. Min(S) \in S /\ \A k \in S : Min(S) <= k
  BY <1>2, MinIsLeast
<1> DEFINE n == Min(S)
<1>4. n \in 0..Len(txQueue) /\ (n < Len(txQueue) => ids(n + 1) > id) /\ \A k \in S : n <= k
  BY <1>3
<1> HIDE DEF n
<1>5. ASSUME NEW i \in 1..n
      PROVE  txQueue[i].id <= id
  <2> DEFINE k == i - 1
  <2>1. k \in 0..Len(txQueue) /\ k < Len(txQueue) /\ ~(n <= k) /\ k + 1 = i /\ i \in 1..Len(txQueue)
    BY <1>1, <1>4
  <2> HIDE DEF k
  <2>2. ~(ids(i) > id)
    BY <1>4, <2>1
  <2> QED
    BY <1>1, <2>1, <2>2
<1>6. P(n)
  BY <1>4, <1>5
<1>7. Supremum(id) = CHOOSE k \in 0..Len(txQueue) : P(k)
  BY DEF Supremum
<1>8. \E k \in 0..Len(txQueue) : P(k)
  BY <1>4, <1>6
<1>9. Supremum(id) \in 0..Len(txQueue) /\ P(Supremum(id))
  BY <1>7, <1>8
<1> QED
  BY <1>9

-----------------------------------------------------------------------------
\* at first nothing waits and nothing was sent
LEMMA TxInit == Init => TxInv
<1> SUFFICES ASSUME Init PROVE TxInv
  OBVIOUS
<1>1. Types
  BY DEF Init, Types
<1>2. Len(Order) = 0 /\ Len(txQueue) = 0 /\ Len(pushed) = 0 /\ DOMAIN Order = {}
  BY DEF Init, Order
<1>3. MemoryBalanced /\ Sorted /\ Pushed /\ Listed /\ TransfersNotMixed
  BY <1>2 DEF Init, MemoryBalanced, Sorted, Pushed, Listed, TransfersNotMixed
<1> QED
  BY <1>1, <1>3 DEF TxInv

\* the order in which frames leave is a list
LEMMA OrderIsAList ==
  ASSUME Types
  PROVE  /\ Order \in Seq(ItemSet)
         /\ Len(Order) = Len(wire) + Len(txQueue)
         /\ DOMAIN Order = 1..Len(Order)
         /\ Len(wire) \in Nat /\ Len(txQueue) \in Nat
         /\ \A i \in 1..Len(wire) : Order[i] = wire[i]
         /\ \A i \in 1..Len(txQueue) : Order[Len(wire) + i] = txQueue[i]
BY DEF Types, Order

\* the CAN-IDs that are compared are numbers
LEMMA IdsAreNumbers ==
  ASSUME Types
  PROVE  /\ \A i \in 1..Len(txQueue) : txQueue[i].id \in Nat
         /\ \A i \in 1..Len(Order) : Order[i].id \in Nat /\ Order[i].no \in Nat
<1>1. \A item \in ItemSet : item.id \in Nat /\ item.no \in Nat
  BY CanIdsAssumption DEF ItemSet
<1>2. \A i \in 1..Len(txQueue) : txQueue[i] \in ItemSet
  BY DEF Types
<1>3. \A i \in 1..Len(Order) : Order[i] \in ItemSet
  BY OrderIsAList
<1> QED
  BY <1>1, <1>2, <1>3

\* what a push puts in
LEMMA ItemsAreAList ==
  ASSUME NEW id \in CanIds, NEW size \in Sizes, NEW no \in Nat
  PROVE  /\ Items(id, no, size) \in Seq(ItemSet)
         /\ Len(Items(id, no, size)) = Len(Frames(size))
         /\ \A k \in 1..Len(Frames(size)) :
              Items(id, no, size)[k] = [id |-> id, no |-> no, frame |-> Frames(size)[k]]
<1> DEFINE n == Len(Frames(size))
<1>1. n \in Nat /\ DOMAIN Frames(size) = 1..n
  <2>1. n \in Nat /\ Frames(size) = [k \in 1..n |-> Frames(size)[k]]
    BY FramesAreAList, SizesAssumption
  <2> HIDE DEF n
  <2> QED
    BY <2>1
<1>2. \A k \in 1..n : [id |-> id, no |-> no, frame |-> Frames(size)[k]] \in ItemSet
  <2>1. \A k \in 1..n : Frames(size)[k] \in FrameSet
    BY <1>1 DEF FrameSet
  <2> QED
    BY <2>1 DEF ItemSet
<1> HIDE DEF n
<1>3. Items(id, no, size) = [k \in 1..n |-> [id |-> id, no |-> no, frame |-> Frames(size)[k]]]
  BY <1>1 DEF Items
<1>4. Items(id, no, size) \in Seq(ItemSet) /\ Len(Items(id, no, size)) = n
  BY <1>1, <1>2, <1>3
<1> QED
  BY <1>3, <1>4 DEF n

\* where the frames are depends on the order and the transfers only
LEMMA PlacesStay ==
  ASSUME Order' = Order, pushed' = pushed
  PROVE  /\ Pushed => Pushed'
         /\ Listed => Listed'
         /\ TransfersNotMixed => TransfersNotMixed'
<1>1. \A at, no : Lists(at, no) => Lists(at, no)'
  BY DEF Lists, Item
<1>2. Listed => Listed'
  BY <1>1 DEF Listed
<1>3. Pushed => Pushed'
  BY DEF Pushed
<1>4. TransfersNotMixed => TransfersNotMixed'
  BY DEF TransfersNotMixed
<1> QED
  BY <1>2, <1>3, <1>4

\* A push.  m are its items, p and q the places they go to in the queue and in the whole order.
LEMMA PushStep ==
  ASSUME TxInv, NEW id \in CanIds, NEW size \in Sizes, Push(id, size)
  PROVE  TxInv'
<1>0. PICK last, no : last = Len(pushed) /\ no = last + 1
  OBVIOUS
<1> DEFINE m == Items(id, no, size)
           n == Len(m)
           p == Supremum(id)
           q == Len(wire) + p
<1>1. /\ txQueue' = SubSeq(txQueue, 1, p) \o m \o SubSeq(txQueue, p + 1, Len(txQueue))
      /\ heap' = heap + Len(Frames(size))
      /\ pushed' = Append(pushed, [id |-> id, size |-> size])
      /\ wire' = wire
  BY <1>0 DEF Push, Enqueue
<1>2. Types /\ last \in Nat /\ no \in Nat /\ id \in Nat /\ size \in Nat
  BY <1>0, CanIdsAssumption, SizesAssumption DEF TxInv, Types
<1>3. /\ m \in Seq(ItemSet) /\ n = Len(Frames(size)) /\ n \in Nat
      /\ \A k \in 1..n : m[k] = [id |-> id, no |-> no, frame |-> Frames(size)[k]]
  <2>1. /\ m \in Seq(ItemSet) /\ n = Len(Frames(size))
        /\ \A k \in 1..Len(Frames(size)) : m[k] = [id |-> id, no |-> no, frame |-> Frames(size)[k]]
    BY <1>2, ItemsAreAList, Zenon
  <2>2. Len(Frames(size)) \in Nat
    BY <1>2, FramesAreAList
  <2> HIDE DEF m
  <2> QED
    BY <2>1, <2>2
<1>4. /\ p \in 0..Len(txQueue)
      /\ \A i \in 1..p : txQueue[i].id <= id
      /\ p < Len(txQueue) => txQueue[p + 1].id > id
  BY <1>2, SupremumIsThere
<1> HIDE DEF m, p
<1>17. \A k \in 1..n : m[k].no = no /\ m[k].id = id /\ m[k].frame = Frames(size)[k]
  <2> SUFFICES ASSUME NEW k \in 1..n PROVE m[k].no = no /\ m[k].id = id /\ m[k].frame = Frames(size)[k]
    OBVIOUS
  <2>1. m[k] = [id |-> id, no |-> no, frame |-> Frames(size)[k]]
    BY <1>3
  <2> HIDE DEF n
  <2> QED
    BY <2>1
<1>5. txQueue' \in Seq(ItemSet) /\ Inserted(txQueue', txQueue, m, p)
  BY <1>1, <1>2, <1>3, <1>4, ListsJoin DEF Types
<1>6. Inserted(Order', Order, m, q)
  <2>1. Inserted(wire \o txQueue', wire \o txQueue, m, Len(wire) + p)
    BY <1>2, <1>3, <1>4, <1>5, InsertedBehind DEF Types
  <2> QED
    BY <1>1, <2>1 DEF Order
<1>7. /\ Len(Order) = Len(wire) + Len(txQueue) /\ Len(wire) \in Nat /\ Len(txQueue) \in Nat
      /\ DOMAIN Order = 1..Len(Order)
      /\ \A i \in 1..Len(txQueue) : Order[Len(wire) + i] = txQueue[i]
  BY <1>2, OrderIsAList
<1>8. Types'
  <2>1. [id |-> id, size |-> size] \in Transfer
    BY DEF Transfer
  <2>2. pushed' \in Seq(Transfer)
    BY <1>1, <1>2, <2>1 DEF Types
  <2> QED
    BY <1>1, <1>2, <1>5, <2>2 DEF Types
<1>9. /\ Len(pushed') = no
      /\ \A k \in 1..last : pushed'[k] = pushed[k]
      /\ pushed'[no] = [id |-> id, size |-> size]
  BY <1>0, <1>1, <1>2 DEF Types
<1>10. MemoryBalanced'
  <2>1. heap = Len(txQueue) /\ Len(txQueue') = Len(txQueue) + n
    BY <1>5 DEF TxInv, MemoryBalanced, Inserted
  <2> QED
    BY <1>1, <1>3, <2>1 DEF MemoryBalanced
\* what is behind the new items has a greater CAN-ID, for the queue is sorted
<1>11. \A i \in p + 1..Len(txQueue) : txQueue[i].id > id
  <2> SUFFICES ASSUME NEW i \in p + 1..Len(txQueue) PROVE txQueue[i].id > id
    OBVIOUS
  <2>1. p + 1 \in 1..Len(txQueue) /\ i \in 1..Len(txQueue) /\ p + 1 <= i /\ p < Len(txQueue)
    BY <1>4, <1>7
  <2>2. txQueue[p + 1].id <= txQueue[i].id
    BY <2>1 DEF TxInv, Sorted
  <2>3. txQueue[p + 1].id > id
    BY <1>4, <2>1
  <2>4. txQueue[p + 1].id \in Nat /\ txQueue[i].id \in Nat
    BY <1>2, <2>1, IdsAreNumbers
  <2> QED
    BY <1>2, <2>2, <2>3, <2>4
<1>12. Sorted'
  <2> SUFFICES ASSUME NEW i \in 1..Len(txQueue'), NEW j \in 1..Len(txQueue'), i <= j
               PROVE  txQueue'[i].id <= txQueue'[j].id
    BY DEF Sorted
  <2>0. Len(txQueue) \in Nat /\ Len(m) \in Nat /\ p \in 0..Len(txQueue) /\ Inserted(txQueue', txQueue, m, p)
    BY <1>3, <1>4, <1>5, <1>7
  <2>1. \A k \in 1..Len(txQueue') :
          \/ k \in 1..p /\ txQueue'[k] = txQueue[k]
          \/ k - p \in 1..n /\ txQueue'[k] = m[k - p]
          \/ k - n \in p + 1..Len(txQueue) /\ txQueue'[k] = txQueue[k - n]
    BY <2>0, InsertedFrom, SMTT(60)
  <2>2. \A k \in 1..n : m[k].id = id
    BY <1>17
  <2>3. /\ \A k, l \in 1..Len(txQueue) : k <= l => txQueue[k].id <= txQueue[l].id
        /\ \A k \in 1..Len(txQueue) : txQueue[k].id \in Nat
    BY <1>2, IdsAreNumbers DEF TxInv, Sorted
  <2>4. CASE i \in 1..p /\ txQueue'[i] = txQueue[i]
    <3>1. i \in 1..Len(txQueue) /\ txQueue[i].id <= id
      BY <1>4, <1>7, <2>4
    <3>2. CASE j \in 1..p /\ txQueue'[j] = txQueue[j]
      BY <1>4, <1>7, <2>3, <2>4, <3>1, <3>2
    <3>3. CASE j - p \in 1..n /\ txQueue'[j] = m[j - p]
      BY <2>2, <2>4, <3>1, <3>3
    <3>4. CASE j - n \in p + 1..Len(txQueue) /\ txQueue'[j] = txQueue[j - n]
      <4>1. j - n \in 1..Len(txQueue) /\ i <= j - n
        BY <1>4, <1>7, <2>4, <3>4
      <4> QED
        BY <2>3, <2>4, <3>1, <3>4, <4>1
    <3> QED
      BY <2>1, <3>2, <3>3, <3>4
  <2>5. CASE i - p \in 1..n /\ txQueue'[i] = m[i - p]
    <3>1. txQueue'[i].id = id
      BY <2>2, <2>5
    <3>2. CASE j \in 1..p /\ txQueue'[j] = txQueue[j]
      BY <1>4, <2>5, <3>2
    <3>3. CASE j - p \in 1..n /\ txQueue'[j] = m[j - p]
      BY <1>2, <2>2, <3>1, <3>3
    <3>4. CASE j - n \in p + 1..Len(txQueue) /\ txQueue'[j] = txQueue[j - n]
      <4>1. j - n \in 1..Len(txQueue)
        BY <1>4, <1>7, <3>4
      <4> QED
        BY <1>2, <1>11, <2>3, <3>1, <3>4, <4>1
    <3> QED
      BY <2>1, <3>2, <3>3, <3>4
  <2>6. CASE i - n \in p + 1..Len(txQueue) /\ txQueue'[i] = txQueue[i - n]
    <3>1. j - n \in p + 1..Len(txQueue) /\ txQueue'[j] = txQueue[j - n]
      BY <1>3, <1>4, <1>7, <2>1, <2>6
    <3>2. i - n \in 1..Len(txQueue) /\ j - n \in 1..Len(txQueue) /\ i - n <= j - n
      BY <1>3, <1>4, <1>7, <2>6, <3>1
    <3> QED
      BY <2>3, <2>6, <3>1, <3>2
  <2> QED
    BY <2>1, <2>4, <2>5, <2>6
\* where each element of the order comes from
<1>13. /\ q \in 0..Len(Order)
       /\ Len(Order') = Len(Order) + n
       /\ \A i \in 1..Len(Order') :
            \/ i \in 1..q /\ Order'[i] = Order[i]
            \/ i - q \in 1..n /\ Order'[i] = m[i - q]
            \/ i - n \in q + 1..Len(Order) /\ Order'[i] = Order[i - n]
  <2>1. q \in 0..Len(Order) /\ Len(Order) \in Nat
    BY <1>4, <1>7
  <2> HIDE DEF q
  <2>2. \A i \in 1..Len(Order') :
            \/ i \in 1..q /\ Order'[i] = Order[i]
            \/ i - q \in 1..n /\ Order'[i] = m[i - q]
            \/ i - n \in q + 1..Len(Order) /\ Order'[i] = Order[i - n]
    BY <1>3, <1>6, <2>1, InsertedFrom DEF q
  <2> QED
    BY <1>6, <2>1, <2>2 DEF Inserted
<1>14. \A i \in q + 1..Len(Order) : Order[i].id > id
  <2> SUFFICES ASSUME NEW i \in q + 1..Len(Order) PROVE Order[i].id > id
    OBVIOUS
  <2> DEFINE d == i - Len(wire)
  <2>1. d \in p + 1..Len(txQueue) /\ d \in 1..Len(txQueue) /\ i = Len(wire) + d
    BY <1>4, <1>7
  <2> HIDE DEF d
  <2> QED
    BY <1>7, <1>11, <2>1
<1>15. \A i \in 1..Len(Order) : Order[i].no \in 1..last /\ Order[i].no < no /\ Order[i].id \in Nat
  BY <1>0, <1>2, IdsAreNumbers DEF TxInv, Pushed
<1>16. q \in Nat /\ n \in Nat /\ Len(Order) \in Nat
  BY <1>3, <1>13, <1>7
<1> HIDE DEF q
<1>18. no = last + 1 /\ last \in Nat
  BY <1>0, <1>2
<1>19. Pushed'
  <2> SUFFICES ASSUME NEW i \in 1..Len(Order') PROVE Order'[i].no \in 1..no
    BY <1>9 DEF Pushed
  <2>1. \A k \in 1..last : k \in 1..no
    BY <1>18
  <2>2. no \in 1..no
    BY <1>18
  <2>3. \A k \in 1..q : k \in 1..Len(Order)
    BY <1>13
  <2>4. \A k \in q + 1..Len(Order) : k \in 1..Len(Order)
    BY <1>13
  <2> QED
    BY <1>13, <1>15, <1>17, <2>1, <2>2, <2>3, <2>4
<1>20. DOMAIN Order' = 1..Len(Order')
  BY <1>8, OrderIsAList DEF Types, Order
<1>21. TransfersNotMixed'
  <2> SUFFICES ASSUME NEW i \in 1..Len(Order'), NEW j \in 1..Len(Order'), i < j,
                      Order'[i].id = Order'[j].id
               PROVE  \/ Order'[i].no < Order'[j].no
                      \/ Order'[i].no = Order'[j].no /\ Order'[i].frame.from < Order'[j].frame.from
    BY <1>20 DEF TransfersNotMixed
  <2>1. \A k, l \in 1..Len(Order) : k < l /\ Order[k].id = Order[l].id =>
          \/ Order[k].no < Order[l].no
          \/ Order[k].no = Order[l].no /\ Order[k].frame.from < Order[l].frame.from
    BY <1>7 DEF TxInv, TransfersNotMixed
  <2>2. CASE i \in 1..q /\ Order'[i] = Order[i]
    <3>1. i \in 1..Len(Order)
      BY <1>13, <1>16, <2>2
    <3>2. CASE j \in 1..q /\ Order'[j] = Order[j]
      <4>1. j \in 1..Len(Order)
        BY <1>13, <1>16, <3>2
      <4> QED
        BY <2>1, <2>2, <3>1, <3>2, <4>1
    <3>3. CASE j - q \in 1..n /\ Order'[j] = m[j - q]
      BY <1>15, <1>17, <2>2, <3>1, <3>3
    <3>4. CASE j - n \in q + 1..Len(Order) /\ Order'[j] = Order[j - n]
      <4>1. j - n \in 1..Len(Order) /\ i < j - n
        BY <1>13, <1>16, <2>2, <3>4
      <4> QED
        BY <2>1, <2>2, <3>1, <3>4, <4>1
    <3> QED
      BY <1>13, <3>2, <3>3, <3>4
  <2>3. CASE i - q \in 1..n /\ Order'[i] = m[i - q]
    <3>1. Order'[i].id = id /\ Order'[i].no = no /\ Order'[i].frame = Frames(size)[i - q]
      BY <1>17, <2>3
    <3>2. CASE j \in 1..q /\ Order'[j] = Order[j]
      BY <1>16, <2>3, <3>2
    <3>3. CASE j - q \in 1..n /\ Order'[j] = m[j - q]
      <4>1. Order'[j].no = no /\ Order'[j].frame = Frames(size)[j - q]
        BY <1>17, <3>3
      <4>2. \A k, l \in 1..n : k < l => Frames(size)[k].from < Frames(size)[l].from
        BY <1>2, <1>3, FramesAreAList
      <4>3. i - q < j - q
        BY <1>16
      <4> QED
        BY <2>3, <3>1, <3>3, <4>1, <4>2, <4>3
    <3>4. CASE j - n \in q + 1..Len(Order) /\ Order'[j] = Order[j - n]
      <4>1. Order[j - n].id > id /\ Order[j - n].id = id
        BY <1>14, <3>1, <3>4
      <4> QED
        BY <1>2, <4>1
    <3> QED
      BY <1>13, <3>2, <3>3, <3>4
  <2>4. CASE i - n \in q + 1..Len(Order) /\ Order'[i] = Order[i - n]
    <3>1. j - n \in q + 1..Len(Order) /\ Order'[j] = Order[j - n]
      BY <1>13, <1>16, <2>4
    <3>2. i - n \in 1..Len(Order) /\ j - n \in 1..Len(Order) /\ i - n < j - n
      BY <1>13, <1>16, <2>4, <3>1
    <3> QED
      BY <2>1, <2>4, <3>1, <3>2
  <2> QED
    BY <1>13, <2>2, <2>3, <2>4
\* the transfers pushed before are where they were, or further back by what was put in
<1>22. ASSUME NEW k \in 1..last
       PROVE  \E at : Lists(at, k)'
  <2> DEFINE l == Len(Frames(pushed[k].size))
  <2>1. PICK at : Lists(at, k)
    BY <1>0, <1>22 DEF TxInv, Listed
  <2>2. /\ at \in [1..l -> 1..Len(Order)]
        /\ \A a, b \in 1..l : a < b => at[a] < at[b]
        /\ \A a \in 1..l : Order[at[a]] = Item(k, a)
        /\ \A i \in 1..Len(Order) : Order[i].no = k => \E a \in 1..l : i = at[a]
    BY <2>1 DEF Lists
  <2>3. pushed'[k] = pushed[k]
    BY <1>9
  <2>4. \A a : Item(k, a)' = Item(k, a)
    BY <2>3 DEF Item
  <2>5. Len(Frames(pushed'[k].size)) = l
    BY <2>3
  <2> HIDE DEF l
  <2>12. PICK to : to = [a \in 1..l |-> IF at[a] <= q THEN at[a] ELSE at[a] + n]
    OBVIOUS
  <2>6. ASSUME NEW a \in 1..l
        PROVE  /\ to[a] = IF at[a] <= q THEN at[a] ELSE at[a] + n
               /\ to[a] \in 1..Len(Order')
               /\ Order'[to[a]] = Order[at[a]]
    <3>1. at[a] \in 1..Len(Order) /\ to[a] = IF at[a] <= q THEN at[a] ELSE at[a] + n
      BY <2>2, <2>12
    <3>2. to[a] \in 1..Len(Order')
      BY <1>13, <1>16, <3>1
    <3>3. CASE at[a] <= q
      <4>1. to[a] = at[a] /\ at[a] \in 1..q
        BY <1>16, <3>1, <3>3
      <4> QED
        BY <1>6, <3>1, <3>2, <4>1 DEF Inserted, q
    <3>4. CASE ~(at[a] <= q)
      <4>1. to[a] = at[a] + n /\ at[a] \in q + 1..Len(Order)
        BY <1>16, <3>1, <3>4
      <4>2. Order'[at[a] + n] = Order[at[a]]
        BY <1>6, <4>1 DEF Inserted, q
      <4> QED
        BY <3>1, <3>2, <4>1, <4>2
    <3> QED
      BY <3>3, <3>4
  <2>7. to \in [1..l -> 1..Len(Order')]
    BY <2>6, <2>12
  <2>8. \A a, b \in 1..l : a < b => to[a] < to[b]
    <3> SUFFICES ASSUME NEW a \in 1..l, NEW b \in 1..l, a < b PROVE to[a] < to[b]
      OBVIOUS
    <3>1. at[a] \in 1..Len(Order) /\ at[b] \in 1..Len(Order) /\ at[a] < at[b]
      BY <2>2
    <3> QED
      BY <1>16, <2>6, <3>1
  <2>9. \A a \in 1..l : Order'[to[a]] = Item(k, a)'
    BY <2>2, <2>4, <2>6
  <2>10. \A i \in 1..Len(Order') : Order'[i].no = k => \E a \in 1..l : i = to[a]
    <3> SUFFICES ASSUME NEW i \in 1..Len(Order'), Order'[i].no = k PROVE \E a \in 1..l : i = to[a]
      OBVIOUS
    <3>1. CASE i \in 1..q /\ Order'[i] = Order[i]
      <4>1. i \in 1..Len(Order)
        BY <1>13, <1>16, <3>1
      <4>2. PICK a \in 1..l : i = at[a]
        BY <2>2, <3>1, <4>1
      <4>3. to[a] = i
        BY <1>16, <2>6, <3>1, <4>2
      <4> QED
        BY <4>3
    <3>2. CASE i - q \in 1..n /\ Order'[i] = m[i - q]
      BY <1>17, <1>18, <3>2
    <3>3. CASE i - n \in q + 1..Len(Order) /\ Order'[i] = Order[i - n]
      <4>1. i - n \in 1..Len(Order)
        BY <1>13, <1>16, <3>3
      <4>2. PICK a \in 1..l : i - n = at[a]
        BY <2>2, <3>3, <4>1
      <4>3. to[a] = at[a] + n
        BY <1>16, <2>6, <3>3, <4>2
      <4>4. to[a] = i
        BY <1>16, <4>2, <4>3
      <4> QED
        BY <4>4
    <3> QED
      BY <1>13, <3>1, <3>2, <3>3
  <2>11. Lists(to, k)'
    BY <2>5, <2>7, <2>8, <2>9, <2>10 DEF Lists
  <2> QED
    BY <2>11
\* the new one is where it was put
<1>23. \E at : Lists(at, no)'
  <2>0. PICK to : to = [a \in 1..n |-> q + a]
    OBVIOUS
  <2>1. \A a \in 1..n : to[a] = q + a /\ to[a] \in 1..Len(Order')
    BY <1>13, <1>16, <2>0
  <2>2. to \in [1..n -> 1..Len(Order')]
    BY <2>0, <2>1
  <2>3. \A a, b \in 1..n : a < b => to[a] < to[b]
    BY <1>16, <2>1
  <2>4. \A a \in 1..n : Order'[to[a]] = m[a]
    BY <1>6, <2>1 DEF Inserted, q
  <2>5. \A a \in 1..n : Item(no, a)' = [id |-> id, no |-> no, frame |-> Frames(size)[a]]
    BY <1>9 DEF Item
  <2>6. \A a \in 1..n : m[a] = [id |-> id, no |-> no, frame |-> Frames(size)[a]]
    BY <1>3
  <2>7. \A i \in 1..Len(Order') : Order'[i].no = no => \E a \in 1..n : i = to[a]
    <3> SUFFICES ASSUME NEW i \in 1..Len(Order'), Order'[i].no = no PROVE \E a \in 1..n : i = to[a]
      OBVIOUS
    <3>1. \A k \in 1..Len(Order) : Order[k].no # no
      BY <1>15, <1>18
    <3>2. (\A k \in 1..q : k \in 1..Len(Order)) /\ (\A k \in q + 1..Len(Order) : k \in 1..Len(Order))
      BY <1>13, <1>16
    <3>3. i - q \in 1..n
      BY <1>13, <3>1, <3>2
    <3>4. to[i - q] = i
      BY <1>16, <2>1, <3>3
    <3> QED
      BY <3>3, <3>4
  <2>8. Len(Frames(pushed'[no].size)) = n
    BY <1>3, <1>9
  <2>9. Lists(to, no)'
    BY <2>2, <2>3, <2>4, <2>5, <2>6, <2>7, <2>8 DEF Lists
  <2> QED
    BY <2>9
<1>24. Listed'
  <2> SUFFICES ASSUME NEW k \in 1..no PROVE \E at : Lists(at, k)'
    BY <1>9 DEF Listed
  <2>1. k \in 1..last \/ k = no
    BY <1>18
  <2> QED
    BY <1>22, <1>23, <2>1
<1> QED
  BY <1>8, <1>10, <1>12, <1>19, <1>21, <1>24 DEF TxInv

-----------------------------------------------------------------------------
\* sending moves the first frames of the queue to the wire, and changes no order
LEMMA SendStep ==
  ASSUME TxInv, NEW n \in 1..Len(txQueue), UavcanSend(n)
  PROVE  /\ TxInv'
         /\ Len(wire') = Len(wire) + n
         /\ \A i \in 1..n : wire'[Len(wire) + i] = txQueue[i]
         /\ Len(txQueue') = Len(txQueue) - n
         /\ \A i \in 1..Len(txQueue) - n : txQueue'[i] = txQueue[n + i]
<1>1. /\ wire' = wire \o SubSeq(txQueue, 1, n)
      /\ txQueue' = SubSeq(txQueue, n + 1, Len(txQueue))
      /\ heap' = heap - n
      /\ pushed' = pushed
  BY DEF UavcanSend
<1>2. txQueue \in Seq(ItemSet) /\ wire \in Seq(ItemSet) /\ Len(txQueue) \in Nat /\ Len(wire) \in Nat
  BY DEF TxInv, Types
<1> DEFINE u == SubSeq(txQueue, 1, n)
           v == SubSeq(txQueue, n + 1, Len(txQueue))
<1>3. u \in Seq(ItemSet) /\ Len(u) = n /\ \A i \in 1..n : u[i] = txQueue[i]
  BY <1>2
<1>4. v \in Seq(ItemSet) /\ Len(v) = Len(txQueue) - n /\ \A i \in 1..Len(txQueue) - n : v[i] = txQueue[n + i]
  BY <1>2
<1>5. u \o v = txQueue
  <2>1. u \o v = SubSeq(txQueue, 1, Len(txQueue))
    BY <1>2, ConcatAdjacentSubSeq
  <2> QED
    BY <1>2, <2>1, SubSeqFull
<1> HIDE DEF u, v
<1>6. wire' = wire \o u /\ txQueue' = v
  BY <1>1 DEF u, v
<1>7. /\ Len(wire') = Len(wire) + n
      /\ \A i \in 1..n : wire'[Len(wire) + i] = txQueue[i]
      /\ wire' \in Seq(ItemSet)
  <2>1. /\ wire' \in Seq(ItemSet) /\ Len(wire') = Len(wire) + Len(u)
        /\ \A i \in 1..Len(wire) + Len(u) : wire'[i] = IF i <= Len(wire) THEN wire[i] ELSE u[i - Len(wire)]
    BY <1>2, <1>3, <1>6, ConcatProperties, Zenon
  <2>2. \A i \in 1..n : /\ Len(wire) + i \in 1..Len(wire) + Len(u)
                        /\ ~(Len(wire) + i <= Len(wire))
                        /\ (Len(wire) + i) - Len(wire) = i
    BY <1>2, <1>3
  <2> QED
    BY <1>3, <2>1, <2>2
<1>8. Order' = Order
  <2>1. (wire \o u) \o v = wire \o (u \o v)
    <3>1. wire \in Seq(ItemSet) /\ u \in Seq(ItemSet) /\ v \in Seq(ItemSet)
      BY <1>2, <1>3, <1>4
    <3> QED
      BY <3>1, ConcatAssociative
  <2> QED
    BY <1>5, <1>6, <2>1 DEF Order
<1>9. Types'
  BY <1>1, <1>4, <1>6, <1>7 DEF TxInv, Types
<1>10. MemoryBalanced'
  BY <1>1, <1>2, <1>4, <1>6 DEF TxInv, MemoryBalanced
<1>11. Sorted'
  <2> SUFFICES ASSUME NEW i \in 1..Len(txQueue'), NEW j \in 1..Len(txQueue'), i <= j
               PROVE  txQueue'[i].id <= txQueue'[j].id
    BY DEF Sorted
  <2>1. n + i \in 1..Len(txQueue) /\ n + j \in 1..Len(txQueue) /\ n + i <= n + j
    BY <1>2, <1>4, <1>6
  <2>2. txQueue'[i] = txQueue[n + i] /\ txQueue'[j] = txQueue[n + j]
    BY <1>4, <1>6
  <2> QED
    BY <2>1, <2>2 DEF TxInv, Sorted
<1>12. Pushed' /\ Listed' /\ TransfersNotMixed'
  BY <1>1, <1>8, PlacesStay DEF TxInv
<1> QED
  BY <1>4, <1>6, <1>7, <1>9, <1>10, <1>11, <1>12 DEF TxInv

\* a transfer that finds no memory leaves no trace
LEMMA FailureStep ==
  ASSUME TxInv, NEW id \in CanIds, NEW size \in Sizes, NEW failed \in DOMAIN Frames(size),
         PushFails(id, size, failed)
  PROVE  TxInv' /\ UNCHANGED wire
<1>1. failed \in Nat
  <2> DEFINE n == Len(Frames(size))
  <2>1. n \in Nat /\ Frames(size) = [k \in 1..n |-> Frames(size)[k]]
    BY FramesAreAList, SizesAssumption
  <2> HIDE DEF n
  <2> QED
    BY <2>1
<1>2. heap \in Nat
  BY DEF TxInv, MemoryBalanced, Types
<1>3. UNCHANGED <<txQueue, wire, pushed>> /\ heap' = heap
  BY <1>1, <1>2 DEF PushFails, Freed
<1>4. Order' = Order
  BY <1>3 DEF Order
<1>5. Types' /\ MemoryBalanced' /\ Sorted'
  BY <1>3 DEF TxInv, Types, MemoryBalanced, Sorted
<1> QED
  BY <1>3, <1>4, <1>5, PlacesStay DEF TxInv

\* every step of the specification keeps the invariant
LEMMA TxStep == TxInv /\ [Next]_vars => TxInv'
<1> SUFFICES ASSUME TxInv, [Next]_vars PROVE TxInv'
  OBVIOUS
<1>1. CASE UNCHANGED vars
  <2>1. Order' = Order /\ pushed' = pushed
    BY <1>1 DEF vars, Order
  <2>2. Types' /\ MemoryBalanced' /\ Sorted'
    BY <1>1 DEF vars, TxInv, Types, MemoryBalanced, Sorted
  <2> QED
    BY <2>1, <2>2, PlacesStay DEF TxInv
<1> QED
  BY <1>1, PushStep, FailureStep, SendStep DEF Next

\* the queue item is freed when its frame is sent, and when its transfer fails: the allocator's
\* balance is the length of the queue, however many transfers fail for want of memory
THEOREM MemoryIsBalanced == Spec => []MemoryBalanced
<1>1. TxInv => MemoryBalanced
  BY DEF TxInv
<1> QED
  BY TxInit, TxStep, <1>1, PTL DEF Spec

\* Whatever is pushed between two sendings, the frames with one CAN-ID leave transfer by transfer
\* and in order: an insertion never goes between frames of another transfer of its CAN-ID.
THEOREM TransfersAreNotMixed == Spec => []TransfersNotMixed
<1>1. TxInv => TransfersNotMixed
  BY DEF TxInv
<1> QED
  BY TxInit, TxStep, <1>1, PTL DEF Spec

\* the number of places of a transfer is the number of its frames
LEMMA PlacesAreCounted ==
  ASSUME TxInv, NEW no \in 1..Len(pushed), NEW at, Lists(at, no)
  PROVE  /\ Cardinality(Places(no)) = Len(Frames(pushed[no].size))
         /\ at \in [1..Len(Frames(pushed[no].size)) -> Places(no)]
<1> DEFINE n == Len(Frames(pushed[no].size))
<1>1. /\ at \in [1..n -> 1..Len(Order)]
      /\ \A j, k \in 1..n : j < k => at[j] < at[k]
      /\ \A k \in 1..n : Order[at[k]].no = no
      /\ \A i \in 1..Len(Order) : Order[i].no = no => \E k \in 1..n : i = at[k]
  <2>1. /\ at \in [1..n -> 1..Len(Order)]
        /\ \A j, k \in 1..n : j < k => at[j] < at[k]
        /\ \A k \in 1..n : Order[at[k]] = Item(no, k)
        /\ \A i \in 1..Len(Order) : Order[i].no = no => \E k \in 1..n : i = at[k]
    BY DEF Lists
  <2>2. \A k : Item(no, k).no = no
    BY DEF Item
  <2> HIDE DEF n
  <2> QED
    BY <2>1, <2>2
<1>2. n \in Nat
  <2>1. pushed[no].size \in Nat
    <3>1. pushed[no] \in Transfer
      BY DEF TxInv, Types
    <3> QED
      BY <3>1, SizesAssumption DEF Transfer
  <2> QED
    BY <2>1, FramesAreAList
<1>3. Places(no) = {i \in 1..Len(Order) : Order[i].no = no}
  BY OrderIsAList DEF TxInv, Places
<1> HIDE DEF n
<1>4. at \in [1..n -> Places(no)]
  BY <1>1, <1>3
<1>5. \A j, k \in 1..n : at[j] = at[k] => j = k
  <2> SUFFICES ASSUME NEW j \in 1..n, NEW k \in 1..n, at[j] = at[k] PROVE j = k
    OBVIOUS
  <2>1. at[j] \in Int /\ at[k] \in Int
    BY <1>1
  <2>2. ~(j < k) /\ ~(k < j)
    BY <1>1, <2>1
  <2> QED
    BY <1>2, <2>2
<1>6. \A i \in Places(no) : \E k \in 1..n : at[k] = i
  BY <1>1, <1>3
<1>7. at \in Bijection(1..n, Places(no))
  BY <1>4, <1>5, <1>6 DEF Bijection, Injection, Surjection, IsInjective
<1>8. IsFiniteSet(1..n) /\ Cardinality(1..n) = n
  BY <1>2, FS_Interval
<1>9. Cardinality(Places(no)) = n
  BY <1>7, <1>8, FS_Bijection DEF ExistsBijection
<1> QED
  BY <1>4, <1>9 DEF n

\* Every transfer that was pushed is, frame for frame in the order they leave, a transfer as
\* UAVCAN/CAN defines it, for any payload sizes: no frame is lost, sent twice or out of its turn
\* between the queue and the wire.
THEOREM TransfersConform == Spec => []ConformingTransfers
<1>1. TxInv => ConformingTransfers
  <2> SUFFICES ASSUME TxInv, NEW no \in DOMAIN pushed
               PROVE  \E at \in [1..Cardinality(Places(no)) -> Places(no)] :
                        /\ \A j, k \in DOMAIN at : j < k => at[j] < at[k]
                        /\ Conforming([k \in DOMAIN at |-> Order[at[k]].frame], pushed[no].size)
    BY DEF ConformingTransfers
  <2>1. no \in 1..Len(pushed) /\ pushed[no].size \in Nat
    <3>1. no \in 1..Len(pushed) /\ pushed[no] \in Transfer
      BY DEF TxInv, Types
    <3> QED
      BY <3>1, SizesAssumption DEF Transfer
  <2>2. PICK at : Lists(at, no)
    BY <2>1 DEF TxInv, Listed
  <2> DEFINE f == Frames(pushed[no].size)
             n == Len(f)
  <2>3. at \in [1..Cardinality(Places(no)) -> Places(no)] /\ at \in [1..n -> Places(no)]
    BY <2>1, <2>2, PlacesAreCounted
  <2>4. /\ \A j, k \in 1..n : j < k => at[j] < at[k]
        /\ \A k \in 1..n : Order[at[k]].frame = f[k]
    <3>1. /\ \A j, k \in 1..n : j < k => at[j] < at[k]
          /\ \A k \in 1..n : Order[at[k]] = Item(no, k)
      BY <2>2 DEF Lists
    <3>2. \A k : Item(no, k).frame = f[k]
      BY DEF Item
    <3> HIDE DEF f, n
    <3> QED
      BY <3>1, <3>2
  <2>5. f = [k \in 1..n |-> f[k]] /\ Conforming(f, pushed[no].size)
    BY <2>1, FramesAreAList, FramesConform
  <2> HIDE DEF f, n
  <2>6. DOMAIN at = 1..n
    BY <2>3
  <2>7. [k \in DOMAIN at |-> Order[at[k]].frame] = f
    BY <2>4, <2>5, <2>6
  <2> QED
    BY <2>3, <2>4, <2>5, <2>6, <2>7
<1> QED
  BY TxInit, TxStep, <1>1, PTL DEF Spec

\* A sending takes the frames of the smallest CAN-ID that waits: the order on the wire is the one
\* the bus itself would choose, whatever was pushed since the socket last refused a frame.
THEOREM SmallestIdFirst == Spec => SmallestFirst
<1>1. ASSUME TxInv, NEW n \in 1..Len(txQueue), UavcanSend(n)
      PROVE  SendsSmallest
  <2> SUFFICES ASSUME NEW k \in Len(wire) + 1..Len(wire'), NEW l \in k..Len(wire'),
                      NEW item \in Range(txQueue')
               PROVE  wire'[k].id <= wire'[l].id /\ wire'[k].id <= item.id
    BY DEF SendsSmallest
  <2>1. /\ TxInv'
        /\ Len(wire') = Len(wire) + n
        /\ \A i \in 1..n : wire'[Len(wire) + i] = txQueue[i]
        /\ Len(txQueue') = Len(txQueue) - n
        /\ \A i \in 1..Len(txQueue) - n : txQueue'[i] = txQueue[n + i]
    BY <1>1, SendStep
  <2>2. Len(wire) \in Nat /\ Len(txQueue) \in Nat /\ DOMAIN txQueue' = 1..Len(txQueue')
    BY <1>1, <2>1 DEF TxInv, Types
  <2>3. PICK i \in 1..Len(txQueue) - n : item = txQueue[n + i]
    <3>1. PICK i \in DOMAIN txQueue' : item = txQueue'[i]
      BY DEF Range
    <3> QED
      BY <2>1, <2>2, <3>1
  <2> DEFINE a == k - Len(wire)
             b == l - Len(wire)
  <2>4. a \in 1..n /\ b \in 1..n /\ a <= b /\ k = Len(wire) + a /\ l = Len(wire) + b
    BY <2>1, <2>2
  <2> HIDE DEF a, b
  <2>5. wire'[k] = txQueue[a] /\ wire'[l] = txQueue[b]
    BY <2>1, <2>4
  <2>6. /\ a \in 1..Len(txQueue) /\ b \in 1..Len(txQueue) /\ n + i \in 1..Len(txQueue)
        /\ a <= b /\ a <= n + i
    BY <1>1, <2>2, <2>3, <2>4
  <2> QED
    BY <1>1, <2>3, <2>5, <2>6 DEF TxInv, Sorted
<1>2. TxInv /\ [Next]_vars => [SendsSmallest]_vars
  <2> SUFFICES ASSUME TxInv, Next PROVE SendsSmallest
    BY DEF vars
  <2>1. ASSUME wire' = wire PROVE SendsSmallest
    <3>1. Len(wire) \in Nat
      BY DEF TxInv, Types
    <3> QED
      BY <2>1, <3>1 DEF SendsSmallest
  <2>2. ASSUME NEW id \in CanIds, NEW size \in Sizes, Push(id, size) PROVE SendsSmallest
    BY <2>1, <2>2 DEF Push
  <2>3. ASSUME NEW id \in CanIds, NEW size \in Sizes, NEW failed \in DOMAIN Frames(size),
               PushFails(id, size, failed)
        PROVE  SendsSmallest
    BY <2>1, <2>3 DEF PushFails
  <2> QED
    BY <1>1, <2>2, <2>3 DEF Next
<1> QED
  BY TxInit, TxStep, <1>2, PTL DEF Spec, SmallestFirst
=============================================================================
