----------------------- MODULE ConfigureFanoutProofs ------------------------
(***************************************************************************)
(* Theorems about ConfigureFanout, for any number of configure calls and   *)
(* records: a write that is under way finds the record of its own          *)
(* operation.  The record is freed when its counter reaches three, so the  *)
(* proof counts: what the counter says, the writes under way and the       *)
(* writes still to be issued are never more than three together.           *)
(***************************************************************************)
EXTENDS ConfigureFanout, TLAPS

\* the writes of o that have been issued, registered or not
IssuedBy(o) ==
  IF state[o] = "idle" THEN 0
  ELSE IF state[o] = "second" THEN 1 ELSE IF state[o] = "third" THEN 2 ELSE 3

Nth(o, n) == [op |-> o, nth |-> n, cell |-> t[o]]
One(b) == IF b THEN 1 ELSE 0
UnderWay(o) == One(Nth(o, 1) \in writes) + One(Nth(o, 2) \in writes) + One(Nth(o, 3) \in writes)

\* o will use its record again: its call is not over or a callback is to come
Live(o) == state[o] \in {"second", "third"} \/ \E w \in writes : w.op = o

Records == [counter : Int, cancelled : Int, r : Results \cup {"free"}, op : Ops \cup {0}]
Types ==
  /\ state \in [Ops -> {"idle", "second", "third", "done"}]
  /\ t \in [Ops -> Cells \cup {NoCell}]
  /\ heap \in [Cells -> Records]
  /\ writes \subseteq [op : Ops, nth : 1..3, cell : Cells]

\* a write points to the record of its operation and was issued
WritesPoint == \A w \in writes : w.cell = t[w.op] /\ w.nth <= IssuedBy(w.op)

\* the record of a live operation is its own and still waits for every write that is under way
RecordWaits(o) ==
  /\ t[o] \in Cells
  /\ heap[t[o]].op = o
  /\ heap[t[o]].cancelled = 0
  /\ heap[t[o]].counter >= 0
  /\ heap[t[o]].counter + UnderWay(o) <= IssuedBy(o)

FanoutInv ==
  /\ Types
  /\ WritesPoint
  /\ \A o \in Ops : Live(o) => RecordWaits(o)

-----------------------------------------------------------------------------
\* before the first call there is no record in use
LEMMA FanoutInit == Init => FanoutInv
BY DEF Init, FanoutInv, Types, WritesPoint, Live, Free, Records, NoCell

\* an operation that a step leaves alone keeps its record waiting
LEMMA Untouched ==
  ASSUME FanoutInv, NEW o \in Ops,
         state'[o] = state[o], t'[o] = t[o],
         \A w : w.op = o => (w \in writes' <=> w \in writes),
         Live(o) => heap'[t[o]] = heap[t[o]]
  PROVE  Live(o)' => RecordWaits(o)'
<1>1. \A n \in 1..3 : Nth(o, n)' = Nth(o, n) /\ (Nth(o, n)' \in writes' <=> Nth(o, n) \in writes)
  BY DEF Nth
<1>2. UnderWay(o)' = UnderWay(o)
  BY <1>1 DEF UnderWay, One
<1>3. IssuedBy(o)' = IssuedBy(o)
  BY DEF IssuedBy
<1>4. Live(o)' => Live(o)
  BY DEF Live
<1> QED
  BY <1>2, <1>3, <1>4 DEF FanoutInv, RecordWaits

\* two live operations never share a record
LEMMA OwnRecords ==
  ASSUME FanoutInv, NEW o \in Ops, NEW p \in Ops, Live(o), Live(p), o # p
  PROVE  t[o] # t[p]
BY DEF FanoutInv, RecordWaits

\* what the calls and the callback have in common: one operation moves
LEMMA OthersStay ==
  ASSUME FanoutInv, NEW o \in Ops, NEW c \in Cells,
         \A p \in Ops \ {o} : state'[p] = state[p] /\ t'[p] = t[p],
         \A w : w.op # o => (w \in writes' <=> w \in writes),
         \A d \in Cells \ {c} : heap'[d] = heap[d],
         \A p \in Ops \ {o} : Live(p) => t[p] # c
  PROVE  \A p \in Ops \ {o} : Live(p)' => RecordWaits(p)'
<1> SUFFICES ASSUME NEW p \in Ops \ {o}
             PROVE  Live(p)' => RecordWaits(p)'
  OBVIOUS
<1>1. Live(p) => t[p] \in Cells
  BY DEF FanoutInv, RecordWaits
<1>2. Live(p) => heap'[t[p]] = heap[t[p]]
  BY <1>1
<1>3. \A w : w.op = p => (w \in writes' <=> w \in writes)
  OBVIOUS
<1> QED
  BY <1>2, <1>3, Untouched
-----------------------------------------------------------------------------
\* the write that a call issues is registered or not; nothing else happens to the writes
LEMMA IssueCounts ==
  ASSUME FanoutInv, NEW o \in Ops, NEW n \in 1..3, NEW c \in Cells,
         t'[o] = c, n = IssuedBy(o) + 1, n = IssuedBy(o)',
         Live(o) => t[o] = c,
         Issue(o, n, c)
  PROVE  /\ writes' \subseteq [op : Ops, nth : 1..3, cell : Cells]
         /\ \A w : w.op # o => (w \in writes' <=> w \in writes)
         /\ \A w \in writes' : w.op = o => w.cell = c /\ w.nth <= n
         /\ UnderWay(o)' <= IF Live(o) THEN UnderWay(o) + 1 ELSE 1
<1> DEFINE new == [op |-> o, nth |-> n, cell |-> c]
<1>1. writes' = writes \/ writes' = writes \cup {new}
  BY DEF Issue
<1>2. new \in [op : Ops, nth : 1..3, cell : Cells]
  OBVIOUS
<1>3. writes' \subseteq [op : Ops, nth : 1..3, cell : Cells]
  BY <1>1, <1>2 DEF FanoutInv, Types
<1>4. \A w : w.op # o => (w \in writes' <=> w \in writes)
  BY <1>1
<1>5. \A w \in writes : w.op = o => Live(o) /\ w.cell = c /\ w.nth <= IssuedBy(o)
  BY DEF FanoutInv, WritesPoint, Live
<1>6. IssuedBy(o) \in 0..3
  BY DEF IssuedBy
<1>7. \A w \in writes' : w.op = o => w.cell = c /\ w.nth <= n
  BY <1>1, <1>5, <1>6, <1>3 DEF FanoutInv, Types
<1>8. \A k \in 1..3 : Nth(o, k)' = [op |-> o, nth |-> k, cell |-> c]
  BY DEF Nth
<1>9. \A k \in 1..3 : k # n => (Nth(o, k)' \in writes' <=> [op |-> o, nth |-> k, cell |-> c] \in writes)
  BY <1>1, <1>8
<1>10. [op |-> o, nth |-> n, cell |-> c] \notin writes
  BY <1>5, <1>6
<1>11. CASE Live(o)
  <2>1. \A k \in 1..3 : Nth(o, k) = [op |-> o, nth |-> k, cell |-> c]
    BY <1>11 DEF Nth
  <2>2. \A k \in 1..3 : k # n => (Nth(o, k)' \in writes' <=> Nth(o, k) \in writes)
    BY <1>9, <2>1
  <2>3. Nth(o, n) \notin writes
    BY <1>10, <2>1
  <2>4. UnderWay(o)' <= UnderWay(o) + 1
    <3>1. n = 1 \/ n = 2 \/ n = 3
      OBVIOUS
    <3> QED
      BY <3>1, <2>2, <2>3 DEF UnderWay, One
  <2> QED
    BY <1>3, <1>4, <1>7, <1>11, <2>4
<1>12. CASE ~Live(o)
  <2>1. \A k \in 1..3 : [op |-> o, nth |-> k, cell |-> c] \notin writes
    BY <1>12 DEF Live
  <2>2. \A k \in 1..3 : k # n => Nth(o, k)' \notin writes'
    BY <1>9, <2>1
  <2>3. UnderWay(o)' <= 1
    <3>1. n = 1 \/ n = 2 \/ n = 3
      OBVIOUS
    <3> QED
      BY <3>1, <2>2 DEF UnderWay, One
  <2> QED
    BY <1>3, <1>4, <1>7, <1>12, <2>3
<1> QED
  BY <1>11, <1>12

-----------------------------------------------------------------------------
\* the first write takes a record nobody uses
LEMMA FirstStep ==
  ASSUME FanoutInv, NEW o \in Ops, FirstWrite(o)
  PROVE  FanoutInv'
<1>1. PICK c \in FreeCells :
        /\ heap' = [heap EXCEPT ![c] = [counter |-> 0, cancelled |-> 0, r |-> "0", op |-> o]]
        /\ t' = [t EXCEPT ![o] = c]
        /\ Issue(o, 1, c)
  BY DEF FirstWrite
<1>2. c \in Cells /\ heap[c] = Free
  BY DEF FreeCells
<1>3. state[o] = "idle" /\ state' = [state EXCEPT ![o] = "second"]
  BY DEF FirstWrite
<1>4. IssuedBy(o) = 0 /\ IssuedBy(o)' = 1
  BY <1>3 DEF IssuedBy, FanoutInv, Types
<1>5. ~Live(o)
  BY <1>3, <1>4 DEF Live, FanoutInv, WritesPoint, Types
<1>6. t'[o] = c /\ heap'[c] = [counter |-> 0, cancelled |-> 0, r |-> "0", op |-> o]
  BY <1>1, <1>2 DEF FanoutInv, Types
<1>7. /\ writes' \subseteq [op : Ops, nth : 1..3, cell : Cells]
      /\ \A w : w.op # o => (w \in writes' <=> w \in writes)
      /\ \A w \in writes' : w.op = o => w.cell = c /\ w.nth <= 1
      /\ UnderWay(o)' <= 1
  BY <1>1, <1>2, <1>4, <1>5, <1>6, IssueCounts
<1>8. \A p \in Ops \ {o} : Live(p) => t[p] # c
  BY <1>2 DEF FanoutInv, RecordWaits, Free
<1>9. \A p \in Ops \ {o} : state'[p] = state[p] /\ t'[p] = t[p]
  BY <1>1, <1>3 DEF FanoutInv, Types
<1>10. \A d \in Cells \ {c} : heap'[d] = heap[d]
  BY <1>1 DEF FanoutInv, Types
<1>11. \A p \in Ops \ {o} : Live(p)' => RecordWaits(p)'
  BY <1>2, <1>7, <1>8, <1>9, <1>10, OthersStay
<1>12. RecordWaits(o)'
  <2>1. UnderWay(o)' \in Int
    BY DEF UnderWay, One
  <2>2. heap'[t'[o]].counter = 0 /\ heap'[t'[o]].cancelled = 0 /\ heap'[t'[o]].op = o
    BY <1>6
  <2> QED
    BY <1>2, <1>4, <1>6, <1>7, <2>1, <2>2 DEF RecordWaits
<1>13. Types'
  <2>1. state' \in [Ops -> {"idle", "second", "third", "done"}] /\ t' \in [Ops -> Cells \cup {NoCell}]
    BY <1>1, <1>2, <1>3 DEF FanoutInv, Types
  <2>2. [counter |-> 0, cancelled |-> 0, r |-> "0", op |-> o] \in Records
    BY DEF Records, Results
  <2>3. heap' \in [Cells -> Records]
    BY <1>1, <2>2 DEF FanoutInv, Types
  <2> QED
    BY <1>7, <2>1, <2>3 DEF Types
<1>14. WritesPoint'
  BY <1>4, <1>6, <1>7, <1>9 DEF WritesPoint, FanoutInv, Types, IssuedBy
<1> QED
  BY <1>11, <1>12, <1>13, <1>14 DEF FanoutInv

\* the second and the third write use the record of the first
LEMMA NextWriteStep ==
  ASSUME FanoutInv, NEW o \in Ops, SecondWrite(o) \/ ThirdWrite(o)
  PROVE  FanoutInv'
<1> DEFINE n == IF state[o] = "second" THEN 2 ELSE 3
<1>1. /\ state[o] \in {"second", "third"}
      /\ Issue(o, n, t[o])
      /\ state' = [state EXCEPT ![o] = IF state[o] = "second" THEN "third" ELSE "done"]
      /\ UNCHANGED <<t, heap>>
  BY DEF SecondWrite, ThirdWrite
<1>2. Live(o) /\ RecordWaits(o)
  BY <1>1 DEF Live, FanoutInv
<1>3. n \in 1..3 /\ n = IssuedBy(o) + 1 /\ n = IssuedBy(o)'
  BY <1>1 DEF IssuedBy, FanoutInv, Types
<1>4. t[o] \in Cells /\ t'[o] = t[o]
  BY <1>1, <1>2 DEF RecordWaits
<1> HIDE DEF n
<1>5. /\ writes' \subseteq [op : Ops, nth : 1..3, cell : Cells]
      /\ \A w : w.op # o => (w \in writes' <=> w \in writes)
      /\ \A w \in writes' : w.op = o => w.cell = t[o] /\ w.nth <= n
      /\ UnderWay(o)' <= UnderWay(o) + 1
  BY <1>1, <1>2, <1>3, <1>4, IssueCounts
<1>6. \A p \in Ops \ {o} : state'[p] = state[p] /\ t'[p] = t[p]
  BY <1>1 DEF FanoutInv, Types
<1>7. \A p \in Ops \ {o} : Live(p) => t[p] # t[o]
  BY <1>2, OwnRecords
<1>8. \A p \in Ops \ {o} : Live(p)' => RecordWaits(p)'
  BY <1>1, <1>4, <1>5, <1>6, <1>7, OthersStay
<1>9. RecordWaits(o)'
  <2>1. UnderWay(o) \in Int /\ UnderWay(o)' \in Int /\ heap[t[o]].counter \in Int
    BY <1>4 DEF UnderWay, One, FanoutInv, Types, Records
  <2>2. IssuedBy(o) \in Int
    BY DEF IssuedBy
  <2> QED
    BY <1>1, <1>2, <1>3, <1>5, <2>1, <2>2 DEF RecordWaits
<1>10. Types'
  BY <1>1, <1>5 DEF FanoutInv, Types
<1>11. WritesPoint'
  <2> SUFFICES ASSUME NEW w \in writes'
               PROVE  w.cell = t'[w.op] /\ w.nth <= IssuedBy(w.op)'
    BY DEF WritesPoint
  <2>1. CASE w.op = o
    BY <1>3, <1>4, <1>5, <2>1
  <2>2. CASE w.op # o
    <3>1. w \in writes /\ w.op \in Ops
      BY <1>5, <2>2
    <3>2. IssuedBy(w.op)' = IssuedBy(w.op)
      BY <1>6, <2>2, <3>1 DEF IssuedBy
    <3> QED
      BY <1>1, <3>1, <3>2 DEF FanoutInv, WritesPoint
  <2> QED
    BY <2>1, <2>2
<1> QED
  BY <1>8, <1>9, <1>10, <1>11 DEF FanoutInv

\* a refused call leaves an operation that has no record and no write
LEMMA RefusedStep ==
  ASSUME FanoutInv, NEW o \in Ops, ConfigureRefused(o)
  PROVE  FanoutInv'
<1>1. /\ state[o] = "idle"
      /\ state' = [state EXCEPT ![o] = "done"]
      /\ UNCHANGED <<t, heap, writes>>
  BY DEF ConfigureRefused
<1>2. IssuedBy(o) = 0 /\ \A w \in writes : w.op # o
  BY <1>1 DEF IssuedBy, FanoutInv, WritesPoint, Types
<1>3. Types'
  BY <1>1 DEF FanoutInv, Types
<1>4. WritesPoint'
  BY <1>1, <1>2 DEF FanoutInv, WritesPoint, Types, IssuedBy
<1>5. \A p \in Ops : Live(p)' => RecordWaits(p)'
  <2> SUFFICES ASSUME NEW p \in Ops
               PROVE  Live(p)' => RecordWaits(p)'
    OBVIOUS
  <2>1. CASE p = o
    <3>1. state'[o] = "done"
      BY <1>1 DEF FanoutInv, Types
    <3> QED
      BY <1>1, <1>2, <2>1, <3>1 DEF Live
  <2>2. CASE p # o
    <3>1. state'[p] = state[p]
      BY <1>1, <2>2 DEF FanoutInv, Types
    <3> QED
      BY <1>1, <3>1, Untouched
  <2> QED
    BY <2>1, <2>2
<1> QED
  BY <1>3, <1>4, <1>5 DEF FanoutInv

\* a write that is under way is one of the three that are counted
LEMMA WriteIsCounted ==
  ASSUME FanoutInv, NEW w \in writes
  PROVE  w.op \in Ops /\ w.nth \in 1..3 /\ w.cell \in Cells /\ w = Nth(w.op, w.nth)
BY DEF FanoutInv, Types, WritesPoint, Nth

\* a callback takes one write away, and the record of its operation counts it
LEMMA CallbackStep ==
  ASSUME FanoutInv, NEW w \in writes, NEW r \in Results, ConfigureCallback(w, r)
  PROVE  FanoutInv'
<1> DEFINE o == w.op
           c == t[o]
           record == Counted(heap[c], r)
<1>1. o \in Ops /\ w.nth \in 1..3 /\ w = Nth(o, w.nth) /\ w.cell = c /\ c \in Cells
  BY WriteIsCounted DEF Nth
<1>2. Live(o) /\ RecordWaits(o)
  BY <1>1 DEF Live, FanoutInv
<1>3. /\ writes' = writes \ {w}
      /\ heap' = [heap EXCEPT ![c] = IF AllIn(record) THEN Free ELSE record]
      /\ UNCHANGED <<state, t>>
      /\ state[o] \notin {"second", "third"}
  BY <1>1 DEF ConfigureCallback, Busy
<1>4. heap[c] \in Records
  BY <1>1 DEF FanoutInv, Types
<1>5. /\ record \in Records
      /\ record.counter = heap[c].counter + 1
      /\ record.cancelled = 0
      /\ record.op = o
  <2> DEFINE kept == IF r \in Errors /\ heap[c].r = "0" THEN r ELSE heap[c].r
  <2>1. kept \in Results \cup {"free"}
    BY <1>4 DEF Records
  <2>2. record = [heap[c] EXCEPT !.counter = heap[c].counter + 1, !.r = kept]
    BY <1>4 DEF Counted, Records
  <2> HIDE DEF kept
  <2> HIDE DEF record
  <2>3. heap[c].cancelled = 0 /\ heap[c].op = o
    BY <1>2 DEF RecordWaits
  <2>4. record.counter = heap[c].counter + 1 /\ record.cancelled = 0 /\ record.op = o
    BY <1>4, <2>2, <2>3 DEF Records
  <2>5. heap[c].counter + 1 \in Int
    BY <1>4 DEF Records
  <2>6. record \in Records
    <3> DEFINE count == heap[c].counter + 1
    <3>1. count \in Int /\ record = [heap[c] EXCEPT !.counter = count, !.r = kept]
      BY <2>2, <2>5
    <3> HIDE DEF count
    <3> QED
      BY <1>4, <2>1, <3>1 DEF Records
  <2> QED
    BY <2>4, <2>6
<1> HIDE DEF record
<1>6. UnderWay(o)' = UnderWay(o) - 1
  <2>1. \A k \in 1..3 : Nth(o, k)' = Nth(o, k)
    BY <1>3 DEF Nth
  <2>2. \A k \in 1..3 : k # w.nth => (Nth(o, k)' \in writes' <=> Nth(o, k) \in writes)
    BY <1>1, <1>3, <2>1 DEF Nth
  <2>3. Nth(o, w.nth) \in writes /\ Nth(o, w.nth)' \notin writes'
    BY <1>1, <1>3, <2>1
  <2>4. w.nth = 1 \/ w.nth = 2 \/ w.nth = 3
    BY <1>1
  <2> QED
    BY <2>2, <2>3, <2>4 DEF UnderWay, One
<1>7. IssuedBy(o) \in 0..3 /\ IssuedBy(o)' = IssuedBy(o) /\ UnderWay(o)' \in 0..3 /\ heap[c].counter \in Int
  BY <1>3, <1>4 DEF IssuedBy, UnderWay, One, Records
<1>8. \A p \in Ops \ {o} : Live(p)' => RecordWaits(p)'
  <2>1. \A p \in Ops \ {o} : Live(p) => t[p] # c
    BY <1>1, <1>2, OwnRecords
  <2>2. \A d \in Cells \ {c} : heap'[d] = heap[d]
    BY <1>3 DEF FanoutInv, Types
  <2>3. \A v : v.op # o => (v \in writes' <=> v \in writes)
    BY <1>3
  <2> QED
    BY <1>1, <1>3, <2>1, <2>2, <2>3, OthersStay
<1>9. Live(o)' => RecordWaits(o)'
  <2>1. CASE AllIn(record)
    <3>1. UnderWay(o)' = 0
      BY <1>2, <1>5, <1>6, <1>7, <2>1 DEF AllIn, RecordWaits
    <3>2. \A k \in 1..3 : Nth(o, k)' \notin writes'
      <4>1. Nth(o, 1)' \notin writes' /\ Nth(o, 2)' \notin writes' /\ Nth(o, 3)' \notin writes'
        BY <3>1 DEF UnderWay, One
      <4>2. \A k \in 1..3 : k = 1 \/ k = 2 \/ k = 3
        OBVIOUS
      <4> QED
        BY <4>1, <4>2
    <3>3. \A v \in writes' : v.op # o
      BY <1>3, <3>2, WriteIsCounted DEF Nth
    <3> QED
      BY <1>3, <3>3 DEF Live
  <2>2. CASE ~AllIn(record)
    <3>1. heap'[c] = record /\ t'[o] = c
      BY <1>1, <1>3, <2>2 DEF FanoutInv, Types
    <3>2. UnderWay(o) \in Int
      BY DEF UnderWay, One
    <3>3. heap[c].counter >= 0 /\ heap[c].counter + UnderWay(o) <= IssuedBy(o)
      BY <1>2 DEF RecordWaits
    <3>4. record.counter >= 0 /\ record.counter + UnderWay(o)' <= IssuedBy(o)'
      BY <1>5, <1>6, <1>7, <3>2, <3>3
    <3> QED
      BY <1>1, <1>5, <3>1, <3>4 DEF RecordWaits
  <2> QED
    BY <2>1, <2>2
<1>10. Types'
  <2>1. Free \in Records
    BY DEF Free, Records
  <2>2. (IF AllIn(record) THEN Free ELSE record) \in Records
    BY <1>5, <2>1
  <2>3. heap' \in [Cells -> Records]
    BY <1>3, <2>2 DEF FanoutInv, Types
  <2> QED
    BY <1>3, <2>3 DEF FanoutInv, Types
<1>11. WritesPoint'
  BY <1>3 DEF FanoutInv, WritesPoint, IssuedBy
<1> QED
  BY <1>8, <1>9, <1>10, <1>11 DEF FanoutInv

\* every step of the specification keeps the invariant
LEMMA FanoutStep == FanoutInv /\ [Next]_vars => FanoutInv'
<1> SUFFICES ASSUME FanoutInv, [Next]_vars
             PROVE  FanoutInv'
  OBVIOUS
<1>1. ASSUME NEW o \in Ops, ConfigureRefused(o) PROVE FanoutInv'
  BY <1>1, RefusedStep
<1>2. ASSUME NEW o \in Ops, FirstWrite(o) PROVE FanoutInv'
  BY <1>2, FirstStep
<1>3. ASSUME NEW o \in Ops, SecondWrite(o) \/ ThirdWrite(o) PROVE FanoutInv'
  BY <1>3, NextWriteStep
<1>4. ASSUME NEW w \in writes, NEW r \in Results, ConfigureCallback(w, r) PROVE FanoutInv'
  BY <1>4, CallbackStep
<1>5. CASE UNCHANGED vars
  BY <1>5 DEF vars, FanoutInv, Types, WritesPoint, RecordWaits, Live, UnderWay, One, Nth, IssuedBy
<1> QED
  BY <1>1, <1>2, <1>3, <1>4, <1>5 DEF Next

\* The record of a configure call is freed only when none of its three writes is under way:
\* configure_callback never counts into memory that is free or that another call owns,
\* however many calls overlap, whatever order the answers come in, and whichever of the
\* writes async_add could not register.
THEOREM RecordsOutliveWrites == Spec => []RecordOutlivesWrites
<1>1. FanoutInv => RecordOutlivesWrites
  BY DEF FanoutInv, Types, WritesPoint, Live, RecordWaits, RecordOutlivesWrites, Free
<1> QED
  BY FanoutInit, FanoutStep, <1>1, PTL DEF Spec

-----------------------------------------------------------------------------
(***************************************************************************)
(* What the application is told.  While an operation is live its record    *)
(* counts the results it had and holds the first error among them, and     *)
(* nothing was told; the callback that tells is the last one.              *)
(***************************************************************************)

\* v is the first error among the results of s, or "0" when there is none
IsFirstError(s, v) ==
  \/ v = "0" /\ \A i \in 1..Len(s) : s[i] = "0"
  \/ \E i \in 1..Len(s) : v \in Errors /\ s[i] = v /\ \A j \in 1..i-1 : s[j] = "0"

History(o) ==
  /\ state[o] = "idle" => results[o] = <<>> /\ told[o] = <<>>
  /\ Live(o) => /\ told[o] = <<>>
                /\ heap[t[o]].counter = Len(results[o])
                /\ IsFirstError(results[o], heap[t[o]].r)
  /\ told[o] # <<>> => /\ Len(results[o]) = 3
                       /\ \E v \in Results : told[o] = <<v>> /\ IsFirstError(results[o], v)

ToldInv ==
  /\ FanoutInv
  /\ results \in [Ops -> Seq(Results)]
  /\ told \in [Ops -> Seq(Results \cup {"free"})]
  /\ \A o \in Ops : History(o)

\* at first nothing was answered and nobody was told
LEMMA ToldInit == Init => ToldInv
<1> SUFFICES ASSUME Init PROVE ToldInv
  OBVIOUS
<1>1. FanoutInv
  BY FanoutInit
<1>2. <<>> \in Seq(Results) /\ <<>> \in Seq(Results \cup {"free"})
  OBVIOUS
<1>3. \A o \in Ops : ~Live(o)
  BY DEF Init, Live
<1> QED
  BY <1>1, <1>2, <1>3 DEF Init, ToldInv, History

\* the first error of a longer sequence of results, as the callback computes it
LEMMA FirstErrorGrows ==
  ASSUME NEW s \in Seq(Results), NEW v, NEW r \in Results, IsFirstError(s, v)
  PROVE  IsFirstError(Append(s, r), IF r \in Errors /\ v = "0" THEN r ELSE v)
<1> DEFINE longer == Append(s, r)
           kept == IF r \in Errors /\ v = "0" THEN r ELSE v
<1>1. /\ Len(longer) = Len(s) + 1
      /\ \A i \in 1..Len(s) : longer[i] = s[i]
      /\ longer[Len(s) + 1] = r
      /\ Len(s) \in Nat
  OBVIOUS
<1> HIDE DEF longer
<1>2. CASE v = "0" /\ \A i \in 1..Len(s) : s[i] = "0"
  <2>1. CASE r \in Errors
    <3>1. \A j \in 1..(Len(s) + 1) - 1 : longer[j] = "0"
      BY <1>1, <1>2
    <3>2. Len(s) + 1 \in 1..Len(longer)
      BY <1>1
    <3> QED
      BY <1>1, <1>2, <2>1, <3>1, <3>2 DEF IsFirstError
  <2>2. CASE r \notin Errors
    <3>1. r = "0"
      BY <2>2 DEF Results
    <3>2. \A i \in 1..Len(longer) : longer[i] = "0"
      <4> SUFFICES ASSUME NEW i \in 1..Len(longer) PROVE longer[i] = "0"
        OBVIOUS
      <4>1. i \in 1..Len(s) \/ i = Len(s) + 1
        BY <1>1
      <4> QED
        BY <4>1, <1>1, <1>2, <3>1
    <3>3. kept = "0"
      BY <1>2, <2>2
    <3>4. IsFirstError(longer, "0")
      BY <3>2 DEF IsFirstError
    <3> QED
      BY <3>3, <3>4 DEF longer
  <2> QED
    BY <2>1, <2>2
<1>3. CASE \E i \in 1..Len(s) : v \in Errors /\ s[i] = v /\ \A j \in 1..i-1 : s[j] = "0"
  <2>1. PICK i \in 1..Len(s) : v \in Errors /\ s[i] = v /\ \A j \in 1..i-1 : s[j] = "0"
    BY <1>3
  <2>2. v # "0" /\ kept = v
    BY <2>1 DEF Errors
  <2>3. i \in 1..Len(longer) /\ longer[i] = v /\ \A j \in 1..i-1 : longer[j] = "0"
    BY <1>1, <2>1
  <2> QED
    BY <2>1, <2>2, <2>3 DEF IsFirstError
<1> QED
  BY <1>2, <1>3 DEF IsFirstError

\* three results and their first error are what ToldOnceOfFirstError asks for
LEMMA FirstErrorIsTold ==
  ASSUME NEW s \in Seq(Results), NEW v, Len(s) = 3, IsFirstError(s, v)
  PROVE  v = IF \E i \in 1..3 : s[i] \in Errors
             THEN s[CHOOSE i \in 1..3 : s[i] \in Errors /\ \A j \in 1..i-1 : s[j] = "0"]
             ELSE "0"
<1> DEFINE First(i) == s[i] \in Errors /\ \A j \in 1..i-1 : s[j] = "0"
<1>1. CASE v = "0" /\ \A i \in 1..3 : s[i] = "0"
  BY <1>1 DEF Errors
<1>2. CASE \E i \in 1..3 : v \in Errors /\ s[i] = v /\ \A j \in 1..i-1 : s[j] = "0"
  <2>1. PICK i \in 1..3 : v \in Errors /\ s[i] = v /\ First(i)
    BY <1>2
  <2>2. \A k \in 1..3 : First(k) => k = i
    <3> SUFFICES ASSUME NEW k \in 1..3, First(k) PROVE k = i
      OBVIOUS
    <3>1. ~(k < i) /\ ~(i < k)
      BY <2>1 DEF Errors
    <3> QED
      BY <3>1
  <2>3. (CHOOSE k \in 1..3 : First(k)) = i
    <3> DEFINE chosen == CHOOSE k \in 1..3 : First(k)
    <3>1. chosen \in 1..3 /\ First(chosen)
      BY <2>1
    <3> HIDE DEF chosen
    <3>2. chosen = i
      BY <2>2, <3>1
    <3> QED
      BY <3>2 DEF chosen
  <2>4. \E k \in 1..3 : s[k] \in Errors
    BY <2>1
  <2>5. s[CHOOSE k \in 1..3 : s[k] \in Errors /\ \A j \in 1..k-1 : s[j] = "0"] = v
    BY <2>1, <2>3
  <2> DEFINE some == \E k \in 1..3 : s[k] \in Errors
             chosen == s[CHOOSE k \in 1..3 : s[k] \in Errors /\ \A j \in 1..k-1 : s[j] = "0"]
  <2>6. some /\ chosen = v
    BY <2>4, <2>5
  <2> HIDE DEF some, chosen
  <2>7. v = IF some THEN chosen ELSE "0"
    BY <2>6
  <2> QED
    BY <2>7 DEF some, chosen
<1> QED
  BY <1>1, <1>2 DEF IsFirstError

\* an operation that a step leaves alone keeps its history
LEMMA HistoryStays ==
  ASSUME ToldInv, NEW o \in Ops,
         state'[o] = state[o], t'[o] = t[o], results'[o] = results[o], told'[o] = told[o],
         \A w : w.op = o => (w \in writes' => w \in writes),
         Live(o) => heap'[t[o]] = heap[t[o]]
  PROVE  History(o)'
<1>1. History(o)
  BY DEF ToldInv
<1>2. Live(o)' => Live(o)
  BY DEF Live
<1> QED
  BY <1>1, <1>2 DEF History

\* the steps of a call tell nobody, and the record of a call starts without results
LEMMA CallTellsNobody ==
  ASSUME ToldInv, NEW o \in Ops,
         ConfigureRefused(o) \/ FirstWrite(o) \/ SecondWrite(o) \/ ThirdWrite(o)
  PROVE  ToldInv'
<1>1. FanoutInv /\ FanoutInv'
  BY RefusedStep, FirstStep, NextWriteStep DEF ToldInv
<1>2. UNCHANGED <<results, told>>
  BY DEF ConfigureRefused, FirstWrite, SecondWrite, ThirdWrite
<1>3. /\ \A p \in Ops \ {o} : state'[p] = state[p] /\ t'[p] = t[p]
      /\ \A w : w.op # o => (w \in writes' => w \in writes)
  BY <1>1 DEF FanoutInv, Types, ConfigureRefused, FirstWrite, SecondWrite, ThirdWrite, Issue
<1>4. \A p \in Ops \ {o} : Live(p) => heap'[t[p]] = heap[t[p]]
  <2> SUFFICES ASSUME NEW p \in Ops \ {o}, Live(p) PROVE heap'[t[p]] = heap[t[p]]
    OBVIOUS
  <2>1. t[p] \in Cells /\ heap[t[p]] # Free
    BY <1>1 DEF FanoutInv, RecordWaits, Free
  <2>2. CASE FirstWrite(o)
    BY <1>1, <2>1, <2>2 DEF FirstWrite, FreeCells, FanoutInv, Types
  <2>3. CASE UNCHANGED heap
    BY <2>3
  <2> QED
    BY <2>2, <2>3 DEF ConfigureRefused, SecondWrite, ThirdWrite
<1>5. \A p \in Ops \ {o} : History(p)'
  BY <1>2, <1>3, <1>4, HistoryStays
<1>6. History(o)'
  <2>1. History(o)
    BY DEF ToldInv
  <2>2. CASE ConfigureRefused(o)
    <3>1. state[o] = "idle" /\ UNCHANGED writes /\ state'[o] = "done"
      BY <1>1, <2>2 DEF ConfigureRefused, FanoutInv, Types
    <3>2. ~Live(o)'
      BY <1>1, <3>1 DEF Live, FanoutInv, WritesPoint, IssuedBy, Types
    <3> QED
      BY <1>2, <2>1, <3>1, <3>2 DEF History
  <2>3. CASE FirstWrite(o)
    <3>1. state[o] = "idle" /\ state'[o] = "second"
      BY <1>1, <2>3 DEF FirstWrite, FanoutInv, Types
    <3>2. heap'[t'[o]].counter = 0 /\ heap'[t'[o]].r = "0"
      BY <1>1, <2>3 DEF FirstWrite, FreeCells, FanoutInv, Types
    <3>3. results'[o] = <<>> /\ told'[o] = <<>>
      BY <1>2, <2>1, <3>1 DEF History
    <3>4. IsFirstError(<<>>, "0") /\ Len(<<>>) = 0
      BY DEF IsFirstError
    <3> QED
      BY <3>1, <3>2, <3>3, <3>4 DEF History
  <2>4. CASE SecondWrite(o) \/ ThirdWrite(o)
    <3>1. Live(o) /\ UNCHANGED <<t, heap>>
      BY <2>4 DEF SecondWrite, ThirdWrite, Live
    <3>2. state'[o] # "idle"
      BY <1>1, <2>4 DEF SecondWrite, ThirdWrite, FanoutInv, Types
    <3> QED
      BY <1>2, <2>1, <3>1, <3>2 DEF History
  <2> QED
    BY <2>2, <2>3, <2>4
<1> QED
  BY <1>1, <1>2, <1>5, <1>6 DEF ToldInv

\* a callback adds its result to the record, and tells only when it is the third
LEMMA CallbackTells ==
  ASSUME ToldInv, NEW w \in writes, NEW r \in Results, ConfigureCallback(w, r)
  PROVE  ToldInv'
<1> DEFINE o == w.op
           c == t[o]
           record == Counted(heap[c], r)
           kept == IF r \in Errors /\ heap[c].r = "0" THEN r ELSE heap[c].r
<1>1. FanoutInv /\ FanoutInv'
  BY CallbackStep DEF ToldInv
<1>2. o \in Ops /\ w.nth \in 1..3 /\ w = Nth(o, w.nth) /\ w.cell = c /\ c \in Cells
  BY <1>1, WriteIsCounted DEF Nth
<1>3. Live(o) /\ RecordWaits(o) /\ heap[c] \in Records
  BY <1>1, <1>2 DEF Live, FanoutInv, Types
<1>4. record.counter = heap[c].counter + 1 /\ record.r = kept /\ record.op = o /\ record.cancelled = 0
  <2>1. record = [heap[c] EXCEPT !.counter = heap[c].counter + 1, !.r = kept]
    BY <1>3 DEF Counted, Records
  <2> HIDE DEF record, kept
  <2> QED
    BY <1>3, <2>1 DEF Records, RecordWaits
<1>5. /\ writes' = writes \ {w}
      /\ results' = [results EXCEPT ![o] = Append(@, r)]
      /\ heap' = [heap EXCEPT ![c] = IF AllIn(record) THEN Free ELSE record]
      /\ told' = IF AllIn(record) THEN [told EXCEPT ![o] = Append(@, record.r)] ELSE told
      /\ UNCHANGED <<state, t>>
  BY <1>2, <1>4 DEF ConfigureCallback
<1> HIDE DEF record
<1>6. /\ told[o] = <<>>
      /\ heap[c].counter = Len(results[o])
      /\ IsFirstError(results[o], heap[c].r)
  BY <1>2, <1>3 DEF ToldInv, History
<1>7. results[o] \in Seq(Results) /\ results'[o] = Append(results[o], r) /\ results' \in [Ops -> Seq(Results)]
  BY <1>2, <1>5 DEF ToldInv
<1>8. IsFirstError(results'[o], kept) /\ Len(results'[o]) = heap[c].counter + 1
  BY <1>6, <1>7, FirstErrorGrows
<1>9. kept \in Results \cup {"free"}
  BY <1>3 DEF Records
<1> HIDE DEF kept
<1>10. told' \in [Ops -> Seq(Results \cup {"free"})]
  BY <1>2, <1>4, <1>5, <1>9 DEF ToldInv
<1>11. \A p \in Ops \ {o} : History(p)'
  <2>1. \A p \in Ops \ {o} : Live(p) => t[p] # c
    BY <1>1, <1>2, <1>3, OwnRecords
  <2>2. \A p \in Ops \ {o} : Live(p) => heap'[t[p]] = heap[t[p]]
    BY <1>1, <1>5, <2>1 DEF FanoutInv, Types, RecordWaits
  <2>3. \A p \in Ops \ {o} : results'[p] = results[p] /\ told'[p] = told[p]
    BY <1>5 DEF ToldInv
  <2> QED
    BY <1>5, <2>2, <2>3, HistoryStays
<1>12. History(o)'
  <2>1. state[o] # "idle"
    BY <1>1, <1>2 DEF FanoutInv, WritesPoint, IssuedBy
  <2>2. CASE AllIn(record)
    <3>1. told'[o] = <<kept>>
      BY <1>2, <1>4, <1>5, <1>6, <2>2 DEF ToldInv
    <3>2. ~Live(o)' /\ heap[c].counter = 2
      <4>1. UnderWay(o) \in 0..3 /\ IssuedBy(o) \in 0..3 /\ heap[c].counter \in Int
        BY <1>3 DEF UnderWay, One, IssuedBy, Records
      <4>2. heap[c].counter + 1 >= 3
        BY <1>4, <2>2, <4>1 DEF AllIn
      <4>3. heap[c].counter + UnderWay(o) <= IssuedBy(o)
        BY <1>3 DEF RecordWaits
      <4>4. UnderWay(o) >= 1
        BY <1>2 DEF UnderWay, One
      <4>5. heap[c].counter = 2 /\ UnderWay(o) = 1
        BY <4>1, <4>2, <4>3, <4>4
      <4>6. \A k \in 1..3 : k # w.nth => Nth(o, k) \notin writes
        <5>1. w.nth = 1 \/ w.nth = 2 \/ w.nth = 3
          BY <1>2
        <5>2. Nth(o, w.nth) \in writes
          BY <1>2
        <5> QED
          BY <4>5, <5>1, <5>2 DEF UnderWay, One
      <4>7. \A v \in writes : v.op = o => v = w
        BY <1>1, <1>2, <4>6, WriteIsCounted
      <4>8. state[o] \notin {"second", "third"}
        BY <1>2 DEF ConfigureCallback, Busy
      <4> QED
        BY <1>5, <4>5, <4>7, <4>8 DEF Live
    <3>3. kept \in Results
      BY <1>8 DEF IsFirstError, Results
    <3>4. Len(results'[o]) = 3
      BY <1>8, <3>2
    <3> QED
      BY <1>5, <1>8, <2>1, <3>1, <3>2, <3>3, <3>4 DEF History
  <2>3. CASE ~AllIn(record)
    <3>1. told'[o] = <<>> /\ t'[o] = c
      BY <1>5, <1>6, <2>3
    <3>2. heap'[c] = record
      BY <1>1, <1>2, <1>5, <2>3 DEF FanoutInv, Types
    <3> QED
      BY <1>4, <1>5, <1>8, <2>1, <3>1, <3>2 DEF History
  <2> QED
    BY <2>2, <2>3
<1> QED
  BY <1>1, <1>7, <1>10, <1>11, <1>12 DEF ToldInv

\* The application hears of a configure call once, when all three registers are answered, and
\* of the error that came first: for any number of overlapping calls that use each other's
\* records again, in whatever order the answers and the timeouts come.
THEOREM ToldOnce == Spec => []ToldOnceOfFirstError
<1>1. ToldInv /\ [Next]_vars => ToldInv'
  <2> SUFFICES ASSUME ToldInv, [Next]_vars PROVE ToldInv'
    OBVIOUS
  <2>1. CASE UNCHANGED vars
    <3>1. FanoutInv'
      BY <2>1, FanoutStep DEF ToldInv
    <3>2. \A o \in Ops : History(o)'
      BY <2>1, HistoryStays DEF vars
    <3> QED
      BY <2>1, <3>1, <3>2 DEF ToldInv, vars
  <2> QED
    BY <2>1, CallTellsNobody, CallbackTells DEF Next
<1>2. ToldInv => ToldOnceOfFirstError
  <2> SUFFICES ASSUME ToldInv, NEW o \in Ops, told[o] # <<>>
               PROVE  /\ Len(results[o]) = 3
                      /\ told[o] = <<IF \E i \in 1..3 : results[o][i] \in Errors
                           THEN results[o][CHOOSE i \in 1..3 :
                                  results[o][i] \in Errors /\ \A j \in 1..i-1 : results[o][j] = "0"]
                           ELSE "0">>
    BY DEF ToldOnceOfFirstError
  <2>1. PICK v \in Results : Len(results[o]) = 3 /\ told[o] = <<v>> /\ IsFirstError(results[o], v)
    BY DEF ToldInv, History
  <2> QED
    BY <2>1, FirstErrorIsTold DEF ToldInv
<1> QED
  BY ToldInit, <1>1, <1>2, PTL DEF Spec

=============================================================================
