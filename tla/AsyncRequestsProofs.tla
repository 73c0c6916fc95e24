------------------------ MODULE AsyncRequestsProofs -------------------------
(***************************************************************************)
(* Proofs about the asynchronous request engine, for every set of ports    *)
(* and nodes, every number of requests and every number of transfer-IDs    *)
(* from 2 to 32.                                                           *)
(***************************************************************************)
EXTENDS AsyncRequests, FiniteSetTheorems, SequenceTheorems, TLAPS

-----------------------------------------------------------------------------
(***************************************************************************)
(* The transmit queue: canardTxPush and uavcan_send.                       *)
(***************************************************************************)

\* canardTxPush leaves a queue of requests: the old ones and the new one
LEMMA InsertionType ==
  ASSUME NEW S, NEW q \in Seq(S), NEW r \in S, NEW id, NEW q2 \in Insertions(q, r, id)
  PROVE  q2 \in Seq(S)
<1> DEFINE B == {i \in DOMAIN q : CanId(q[i]) <= id}
           n == Cardinality(B)
<1>1. CASE q2 = q
  BY <1>1
<1>2. CASE q2 = SubSeq(q, 1, n) \o <<r>> \o SubSeq(q, n + 1, Len(q))
  <2>1. /\ DOMAIN q = 1..Len(q)
        /\ Len(q) \in Nat
        /\ \A i \in 1..Len(q) : q[i] \in S
    BY LenProperties, ElementOfSeq
  <2>2. IsFiniteSet(1..Len(q)) /\ Cardinality(1..Len(q)) = Len(q)
    <3>1. 1 \in Int /\ Len(q) \in Int
      BY <2>1
    <3>2. /\ IsFiniteSet(1..Len(q))
          /\ Cardinality(1..Len(q)) = IF 1 > Len(q) THEN 0 ELSE Len(q) - 1 + 1
      BY <3>1, FS_Interval
    <3> QED
      BY <2>1, <3>2
  <2>3. n \in 0..Len(q)
    <3>1. B \in SUBSET (1..Len(q))
      BY <2>1
    <3>2. IsFiniteSet(B) /\ n <= Len(q)
      BY <2>2, <3>1, FS_Subset
    <3> QED
      BY <2>1, <3>2, FS_CardinalityType
  <2>4. SubSeq(q, 1, n) \in Seq(S)
    <3>1. \A i \in 1..n : q[i] \in S
      BY <2>1, <2>3
    <3> HIDE DEF n
    <3> QED
      BY <2>3, <3>1, SubSeqProperties
  <2>5. SubSeq(q, n + 1, Len(q)) \in Seq(S)
    <3>1. \A i \in n + 1..Len(q) : q[i] \in S
      BY <2>1, <2>3
    <3>2. n + 1 \in Int /\ Len(q) \in Int
      BY <2>1, <2>3
    <3> HIDE DEF n
    <3> QED
      BY <3>1, <3>2, SubSeqProperties
  <2>6. <<r>> \in Seq(S)
    OBVIOUS
  <2> HIDE DEF n
  <2>7. SubSeq(q, 1, n) \o <<r>> \in Seq(S)
    BY <2>4, <2>6, ConcatProperties
  <2> QED
    BY <1>2, <2>5, <2>7, ConcatProperties
<1> QED
  BY <1>1, <1>2 DEF Insertions

\* uavcan_send splits the queue: the frames it sent and the frames it kept are frames it had
LEMMA SendingType ==
  ASSUME NEW S, NEW q \in Seq(S), NEW s \in Sendings(q)
  PROVE  s[1] \in Seq(S) /\ s[2] \subseteq S
<1>1. /\ Len(q) \in Nat
      /\ \A i \in 1..Len(q) : q[i] \in S
  BY LenProperties, ElementOfSeq
<1>2. PICK k \in 0..Len(q) : s = <<SubSeq(q, k + 1, Len(q)), {q[i] : i \in 1..k}>>
  BY DEF Sendings
<1>3. SubSeq(q, k + 1, Len(q)) \in Seq(S)
  <2>1. \A i \in k + 1..Len(q) : q[i] \in S
    BY <1>1
  <2>2. k + 1 \in Int /\ Len(q) \in Int
    BY <1>1
  <2> QED
    BY <2>1, <2>2, SubSeqProperties
<1>4. {q[i] : i \in 1..k} \subseteq S
  BY <1>1
<1> QED
  BY <1>2, <1>3, <1>4

-----------------------------------------------------------------------------
(***************************************************************************)
(* Type correctness.                                                       *)
(***************************************************************************)
RequestRecords ==
  [port : Ports, node : Nodes, tid : Tids, param : BOOLEAN, added : BOOLEAN, place : Nat]

\* the constants' ranges, as the leaves below use them
LEMMA ConstantFacts ==
  /\ 0 \in Tids
  /\ \A t \in Tids : NextTid(t) \in Tids
  /\ \A t \in Tids : t \in 0..31
  /\ \A n \in Nodes : n \in 0..127
  /\ \A p \in Ports : p \in 0..511 /\ ReplyCodes(p) \subseteq Codes /\ BufferArgs(p) \subseteq BOOLEAN
<1>1. 0 \in Tids /\ \A t \in Tids : NextTid(t) \in Tids /\ t \in 0..31
  BY TidModAssumption DEF Tids, NextTid
<1>2. \A n \in Nodes : n \in 0..127
  BY NodesAssumption DEF NodeIdMax
<1>3. ASSUME NEW p \in Ports
      PROVE  p \in 0..511 /\ ReplyCodes(p) \subseteq Codes /\ BufferArgs(p) \subseteq BOOLEAN
  BY PortsAssumption
     DEF GetInfo, RegList, RegAccess, Command, ReplyCodes, BufferArgs, Codes
<1> QED
  BY <1>1, <1>2, <1>3

\* the record a request appends to the log, and what the log looks like after it
LEMMA LogGrows ==
  ASSUME TypeOK, NEW x \in RequestRecords, log' = Append(log, x), Len(log) + 1 \in Requests
  PROVE  /\ log' \in Seq(RequestRecords)
         /\ Len(log') = Len(log) + 1
         /\ Len(log) + 1 <= MaxRequests
         /\ Issued' = Issued \cup {Len(log) + 1}
         /\ \A r \in Issued : log'[r] = log[r]
         /\ log'[Len(log) + 1] = x
<1>1. log \in Seq(RequestRecords) /\ Len(log) \in Nat
  BY LenProperties DEF TypeOK, RequestRecords
<1>2. /\ log' \in Seq(RequestRecords)
      /\ Len(log') = Len(log) + 1
      /\ \A i \in 1..Len(log) : log'[i] = log[i]
      /\ log'[Len(log) + 1] = x
  BY <1>1, AppendProperties
<1>3. Len(log) + 1 <= MaxRequests
  BY BoundsAssumption, <1>1 DEF Requests
<1>4. Issued' = Issued \cup {Len(log) + 1}
  BY <1>1, <1>2 DEF Issued
<1> QED
  BY <1>2, <1>3, <1>4 DEF Issued

\* what a call does to the log: the parts of Request that later proofs pick apart
LEMMA RequestStep ==
  ASSUME TypeOK, NEW p \in Ports, NEW n \in Nodes, Request(p, n)
  PROVE  \E x \in RequestRecords :
           /\ x.port = p /\ x.node = n
           /\ x.tid = tfrIds[<<p, n>>] /\ x.place = issued[<<p, n>>]
           /\ log' = Append(log, x)
           /\ Len(log) + 1 \in Requests
           /\ tasks' = IF x.added THEN tasks \cup {Len(log) + 1} ELSE tasks
<1>1. <<p, n>> \in Channels
  BY DEF Channels
<1>2. PICK b \in BufferArgs(p), a \in BOOLEAN :
        /\ log' = Append(log, [port |-> p, node |-> n, tid |-> tfrIds[<<p, n>>], param |-> b,
                               added |-> a, place |-> issued[<<p, n>>]])
        /\ tasks' = IF a THEN tasks \cup {Len(log) + 1} ELSE tasks
  BY DEF Request
<1>3. b \in BOOLEAN /\ tfrIds[<<p, n>>] \in Tids /\ issued[<<p, n>>] \in Nat
  BY <1>1, ConstantFacts DEF TypeOK
<1>4. Len(log) + 1 \in Requests
  BY DEF Request
<1> DEFINE x == [port |-> p, node |-> n, tid |-> tfrIds[<<p, n>>], param |-> b,
                 added |-> a, place |-> issued[<<p, n>>]]
<1>5. x \in RequestRecords
  BY <1>3 DEF RequestRecords
<1> QED
  BY <1>2, <1>4, <1>5

\* wlmio_init leaves well-typed tables
LEMMA TypeInit == Init => TypeOK
<1> SUFFICES ASSUME Init PROVE TypeOK
  OBVIOUS
<1>1. log \in Seq(RequestRecords) /\ Len(log) = 0 /\ txq \in Seq(Issued) /\ rxq \in Seq(Issued)
  BY EmptySeq DEF Init
<1>2. Len(log) <= MaxRequests
  BY <1>1, BoundsAssumption
<1> QED
  BY <1>1, <1>2, ConstantFacts DEF Init, TypeOK, RequestRecords, NoOutcome, Codes, None, Issued

\* the actions that leave the log alone, with the parts of TypeOK they change
LEMMA QuietType ==
  ASSUME TypeOK, UNCHANGED log
  PROVE  Issued' = Issued /\ log' \in Seq(RequestRecords) /\ Len(log') <= MaxRequests
BY DEF TypeOK, Issued, RequestRecords

\* completing a task keeps the types of what it changes
LEMMA FinishType ==
  ASSUME TypeOK, NEW r \in tasks, NEW result \in [code : Codes, from : Issued \cup {None}],
         Finish(r, result)
  PROVE  /\ callbacks' \in [Requests -> Nat]
         /\ outcome' \in [Requests -> [code : Codes, from : Issued \cup {None}]]
         /\ tasks' \subseteq Issued
         /\ expired' \subseteq tasks'
<1>1. tasks' \subseteq Issued /\ expired' \subseteq tasks'
  BY DEF TypeOK, Finish
<1>2. callbacks \in [Requests -> Nat] /\ callbacks' = [callbacks EXCEPT ![r] = callbacks[r] + 1]
  BY DEF TypeOK, Finish
<1>3. callbacks' \in [Requests -> Nat]
  <2>1. r \in Requests
    BY LenProperties, BoundsAssumption DEF TypeOK, Issued, Requests
  <2> QED
    BY <1>2, <2>1
<1>4. /\ outcome \in [Requests -> [code : Codes, from : Issued \cup {None}]]
      /\ outcome' = [outcome EXCEPT ![r] = result]
  BY DEF TypeOK, Finish
<1>5. outcome' \in [Requests -> [code : Codes, from : Issued \cup {None}]]
  BY <1>4
<1> QED
  BY <1>1, <1>3, <1>5

\* no handler and no call puts a value of another type into a table
LEMMA TypeStep == TypeOK /\ [Next]_vars => TypeOK'
<1> SUFFICES ASSUME TypeOK, [Next]_vars PROVE TypeOK'
  OBVIOUS
<1> USE ConstantFacts
<1>1. ASSUME NEW p \in Ports, NEW n \in Nodes, Request(p, n)
      PROVE  TypeOK'
  <2> DEFINE r == Len(log) + 1
  <2>1. PICK x \in RequestRecords :
          /\ log' = Append(log, x)
          /\ r \in Requests
          /\ tasks' = IF x.added THEN tasks \cup {r} ELSE tasks
    BY <1>1, RequestStep
  <2>2. /\ log' \in Seq(RequestRecords)
        /\ Len(log') <= MaxRequests
        /\ Issued' = Issued \cup {r}
    BY <2>1, LogGrows
  <2>3. tfrIds' \in [Channels -> Tids] /\ issued' \in [Channels -> Nat]
    <3>1. /\ tfrIds' = [tfrIds EXCEPT ![<<p, n>>] = NextTid(tfrIds[<<p, n>>])]
          /\ issued' = [issued EXCEPT ![<<p, n>>] = issued[<<p, n>>] + 1]
      BY <1>1 DEF Request
    <3>2. <<p, n>> \in Channels
      BY DEF Channels
    <3>3. NextTid(tfrIds[<<p, n>>]) \in Tids /\ issued[<<p, n>>] + 1 \in Nat
      BY <3>2 DEF TypeOK
    <3> QED
      BY <3>1, <3>3 DEF TypeOK
  <2>4. txq' \in Seq(Issued') /\ bus' \subseteq Issued'
    <3>1. txq \in Seq(Issued')
      BY <2>2, SeqMonotonic DEF TypeOK
    <3>2. PICK q \in Insertions(txq, r, p * 128 + n) :
            \E s \in Sendings(q) : txq' = s[1] /\ bus' = bus \cup s[2]
      BY <1>1 DEF Request
    <3>3. PICK s \in Sendings(q) : txq' = s[1] /\ bus' = bus \cup s[2]
      BY <3>2
    <3>4. q \in Seq(Issued')
      BY <2>2, <3>1, <3>2, InsertionType
    <3>5. s[1] \in Seq(Issued') /\ s[2] \subseteq Issued'
      BY <3>3, <3>4, SendingType
    <3> QED
      BY <2>2, <3>3, <3>5 DEF TypeOK
  <2>5. rxq' \in Seq(Issued')
    BY <1>1, <2>2, SeqMonotonic DEF TypeOK, Request
  <2>6. /\ tasks' \subseteq Issued'
        /\ expired' \subseteq tasks'
    BY <1>1, <2>1, <2>2 DEF TypeOK, Request
  <2>7. /\ outcome' \in [Requests -> [code : Codes, from : Issued' \cup {None}]]
        /\ buffer' \in [Requests -> Issued' \cup {None}]
    BY <1>1, <2>2 DEF TypeOK, Request
  <2>8. UNCHANGED <<session, pc, callbacks>>
    BY <1>1 DEF Request
  <2> QED
    BY <2>2, <2>3, <2>4, <2>5, <2>6, <2>7, <2>8 DEF TypeOK, RequestRecords
<1>2. ASSUME NEW p \in Ports, NEW n \in Nodes, Refuse(p, n)
      PROVE  TypeOK'
  BY <1>2 DEF TypeOK, Refuse, vars, Issued
<1>3. CASE WaitForEvent
  BY <1>3, QuietType DEF TypeOK, WaitForEvent, Issued
<1>4. CASE Wake
  BY <1>4, QuietType DEF TypeOK, Wake, Issued
<1>5. CASE HandleResponse
  <2> DEFINE q == Head(rxq)
  <2>1. q \in Issued /\ rxq' \in Seq(Issued)
    BY <1>5, HeadTailProperties DEF HandleResponse, TypeOK
  <2>2. Issued' = Issued /\ log' \in Seq(RequestRecords) /\ Len(log') <= MaxRequests
    BY <1>5, QuietType DEF HandleResponse
  <2>3. log[q] \in RequestRecords /\ \A r \in tasks : log[r] \in RequestRecords
    BY <2>1, ElementOfSeq DEF TypeOK, Issued, RequestRecords
  <2>4. UNCHANGED <<tfrIds, txq, bus, pc, issued>>
    BY <1>5 DEF HandleResponse
  <2>5. session' \in [Channels -> Tids \cup {NoSession}]
    <3>1. \/ UNCHANGED session
          \/ session' = [session EXCEPT ![Channel(q)] = NextTid(log[q].tid)]
      BY <1>5 DEF HandleResponse
    <3>2. NextTid(log[q].tid) \in Tids
      BY <2>3 DEF RequestRecords
    <3> QED
      BY <3>1, <3>2 DEF TypeOK
  <2>6. /\ callbacks' \in [Requests -> Nat]
        /\ outcome' \in [Requests -> [code : Codes, from : Issued \cup {None}]]
        /\ buffer' \in [Requests -> Issued \cup {None}]
        /\ tasks' \subseteq Issued
        /\ expired' \subseteq tasks'
    <3>1. CASE UNCHANGED <<tasks, expired, callbacks, outcome, buffer>>
      BY <3>1 DEF TypeOK
    <3>2. CASE \E r \in Waiting(q), c \in Codes :
                  /\ Finish(r, [code |-> c, from |-> q])
                  /\ buffer' = IF log[r].param THEN [buffer EXCEPT ![r] = q] ELSE buffer
      <4>1. PICK r \in Waiting(q), c \in Codes :
              /\ Finish(r, [code |-> c, from |-> q])
              /\ buffer' = IF log[r].param THEN [buffer EXCEPT ![r] = q] ELSE buffer
        BY <3>2
      <4>2. r \in tasks /\ [code |-> c, from |-> q] \in [code : Codes, from : Issued \cup {None}]
        BY <2>1 DEF Waiting
      <4>3. buffer' \in [Requests -> Issued \cup {None}]
        BY <2>1, <4>1 DEF TypeOK
      <4> QED
        BY <4>1, <4>2, <4>3, FinishType
    <3> QED
      BY <1>5, <2>3, <3>1, <3>2 DEF HandleResponse, Deliver, Waiting, RequestRecords
  <2> QED
    BY <2>1, <2>2, <2>4, <2>5, <2>6 DEF TypeOK, RequestRecords
<1>6. ASSUME NEW r \in Requests, HandleTimeout(r)
      PROVE  TypeOK'
  <2>1. r \in tasks /\ Timeout \in [code : Codes, from : Issued \cup {None}]
    BY <1>6 DEF HandleTimeout, TypeOK, Timeout, Codes
  <2>2. Finish(r, Timeout) /\ UNCHANGED <<log, tfrIds, txq, bus, rxq, session, pc, buffer, issued>>
    BY <1>6 DEF HandleTimeout
  <2>3. /\ callbacks' \in [Requests -> Nat]
        /\ outcome' \in [Requests -> [code : Codes, from : Issued \cup {None}]]
        /\ tasks' \subseteq Issued
        /\ expired' \subseteq tasks'
    BY <2>1, <2>2, FinishType
  <2> QED
    BY <2>2, <2>3, QuietType DEF TypeOK, RequestRecords
<1>7. CASE TickEnd
  <2>1. Issued' = Issued /\ log' \in Seq(RequestRecords) /\ Len(log') <= MaxRequests
    BY <1>7, QuietType DEF TickEnd
  <2>2. PICK s \in Sendings(txq) : txq' = s[1] /\ bus' = bus \cup s[2]
    BY <1>7 DEF TickEnd
  <2>3. s[1] \in Seq(Issued) /\ s[2] \subseteq Issued
    BY <2>2, SendingType DEF TypeOK
  <2> QED
    BY <1>7, <2>1, <2>2, <2>3 DEF TickEnd, TypeOK, RequestRecords
<1>8. ASSUME NEW q \in Requests, Answer(q)
      PROVE  TypeOK'
  <2>1. q \in Issued
    BY <1>8 DEF Answer, TypeOK
  <2>2. rxq' \in Seq(Issued)
    BY <1>8, <2>1, AppendProperties DEF Answer, TypeOK
  <2>3. bus' \subseteq Issued
    BY <1>8 DEF Answer, TypeOK
  <2> QED
    BY <1>8, <2>2, <2>3, QuietType DEF Answer, TypeOK, RequestRecords
<1>9. ASSUME NEW q \in Requests, Lose(q)
      PROVE  TypeOK'
  BY <1>9, QuietType DEF TypeOK, Lose, RequestRecords
<1>10. ASSUME NEW r \in Requests, ExpireTimer(r)
       PROVE  TypeOK'
  BY <1>10, QuietType DEF TypeOK, ExpireTimer, RequestRecords
<1>11. CASE UNCHANGED vars
  BY <1>11, QuietType DEF TypeOK, vars, RequestRecords
<1> QED
  BY <1>1, <1>2, <1>3, <1>4, <1>5, <1>6, <1>7, <1>8, <1>9, <1>10, <1>11 DEF Next

\* Every variable of the engine keeps its type, and every request named in a queue, a task or an
\* outcome was issued
THEOREM TypeCorrect == Spec => []TypeOK
<1>1. Init => TypeOK
  BY TypeInit
<1>2. TypeOK /\ [Next]_vars => TypeOK'
  BY TypeStep
<1> QED
  BY <1>1, <1>2, PTL DEF Spec

-----------------------------------------------------------------------------
(***************************************************************************)
(* The callback of a request.  CallbackExactlyOnce is not inductive: it    *)
(* needs that only registered requests are tasks and that nothing is known *)
(* of a request before its call.  BufferHoldsAnswer needs that a request   *)
(* whose callback is still to come has an untouched buffer.                *)
(***************************************************************************)
Untouched(r) == outcome[r] = NoOutcome /\ buffer[r] = None

DeliveryInv ==
  /\ \A r \in Requests \ Issued : callbacks[r] = 0 /\ Untouched(r)
  /\ \A r \in tasks : log[r].added
  /\ CallbackExactlyOnce
  /\ \A r \in Issued : callbacks[r] = 0 => Untouched(r)
  /\ BufferHoldsAnswer

\* requests are numbered without a gap from one, within the bound
LEMMA IssuedAreRequests == TypeOK => Issued \subseteq Requests /\ Len(log) \in Nat
BY LenProperties, BoundsAssumption DEF TypeOK, Issued, Requests

\* before the first call nobody was called back
LEMMA DeliveryInit == Init => DeliveryInv
<1> SUFFICES ASSUME Init PROVE DeliveryInv
  OBVIOUS
<1>1. Len(log) = 0
  BY EmptySeq DEF Init
<1>2. Issued = {}
  BY <1>1 DEF Issued
<1> QED
  BY <1>2 DEF Init, DeliveryInv, CallbackExactlyOnce, BufferHoldsAnswer, Untouched

\* finishing a task: its callback was not called before, and its buffer is as it was at the call
LEMMA FinishDelivery ==
  ASSUME TypeOK, DeliveryInv, UNCHANGED log,
         NEW r \in tasks, NEW c \in Codes, NEW q \in Issued \cup {None},
         Finish(r, [code |-> c, from |-> q]),
         buffer' = IF log[r].param /\ q # None THEN [buffer EXCEPT ![r] = q] ELSE buffer
  PROVE  DeliveryInv'
<1>1. Issued' = Issued /\ Issued \subseteq Requests /\ r \in Issued
  BY QuietType, IssuedAreRequests DEF TypeOK
<1>2. callbacks[r] = 0 /\ buffer[r] = None /\ log[r].added
  BY <1>1 DEF DeliveryInv, CallbackExactlyOnce, Untouched
<1>3. /\ callbacks' = [callbacks EXCEPT ![r] = callbacks[r] + 1]
      /\ outcome' = [outcome EXCEPT ![r] = [code |-> c, from |-> q]]
      /\ tasks' = tasks \ {r}
  BY DEF Finish
<1>4. /\ callbacks'[r] = 1
      /\ outcome'[r].from = q
      /\ buffer'[r] = IF log[r].param THEN q ELSE None
  BY <1>1, <1>2, <1>3 DEF TypeOK
<1>5. \A s \in Requests \ {r} :
        /\ callbacks'[s] = callbacks[s]
        /\ outcome'[s] = outcome[s]
        /\ buffer'[s] = buffer[s]
        /\ (s \in tasks' <=> s \in tasks)
  BY <1>3 DEF TypeOK
<1>6. \A s \in Requests \ Issued' : callbacks'[s] = 0 /\ Untouched(s)'
  BY <1>1, <1>5 DEF DeliveryInv, Untouched
<1>7. \A s \in tasks' : log'[s].added
  BY <1>3 DEF DeliveryInv
<1>8. CallbackExactlyOnce'
  BY <1>1, <1>2, <1>3, <1>4, <1>5 DEF DeliveryInv, CallbackExactlyOnce
<1>9. \A s \in Issued' : callbacks'[s] = 0 => Untouched(s)'
  BY <1>1, <1>4, <1>5 DEF DeliveryInv, Untouched
<1>10. BufferHoldsAnswer'
  BY <1>1, <1>4, <1>5 DEF DeliveryInv, BufferHoldsAnswer
<1> QED
  BY <1>6, <1>7, <1>8, <1>9, <1>10 DEF DeliveryInv

\* a step that touches neither the log, nor the tasks, nor what a caller sees
LEMMA QuietDelivery ==
  ASSUME TypeOK, DeliveryInv, UNCHANGED <<log, tasks, callbacks, outcome, buffer>>
  PROVE  DeliveryInv'
<1>1. Issued' = Issued
  BY QuietType
<1> QED
  BY <1>1 DEF DeliveryInv, CallbackExactlyOnce, BufferHoldsAnswer, Untouched

\* what HandleResponse does once the answer left the receive queue
LEMMA ResponseCases ==
  ASSUME TypeOK, HandleResponse
  PROVE  /\ Head(rxq) \in Issued
         /\ UNCHANGED <<log, issued, tfrIds>>
         /\ \/ UNCHANGED <<tasks, callbacks, outcome, buffer>>
            \/ \E r \in Waiting(Head(rxq)), c \in Codes :
                 /\ Finish(r, [code |-> c, from |-> Head(rxq)])
                 /\ buffer' = IF log[r].param THEN [buffer EXCEPT ![r] = Head(rxq)] ELSE buffer
<1>1. Head(rxq) \in Issued
  BY HeadTailProperties DEF HandleResponse, TypeOK
<1>2. \A r \in Waiting(Head(rxq)) : ReplyCodes(log[r].port) \subseteq Codes
  <2>1. \A r \in Waiting(Head(rxq)) : log[r] \in RequestRecords
    BY ElementOfSeq DEF Waiting, TypeOK, Issued, RequestRecords
  <2> QED
    BY <2>1, ConstantFacts DEF RequestRecords
<1> QED
  BY <1>1, <1>2 DEF HandleResponse, Deliver

\* calls, answers and timeouts keep callbacks, outcomes and buffers in step
LEMMA DeliveryStep == TypeOK /\ DeliveryInv /\ [Next]_vars => DeliveryInv'
<1> SUFFICES ASSUME TypeOK, DeliveryInv, [Next]_vars PROVE DeliveryInv'
  OBVIOUS
<1>1. ASSUME NEW p \in Ports, NEW n \in Nodes, Request(p, n)
      PROVE  DeliveryInv'
  <2> DEFINE r == Len(log) + 1
  <2>1. PICK x \in RequestRecords :
          /\ log' = Append(log, x)
          /\ r \in Requests
          /\ tasks' = IF x.added THEN tasks \cup {r} ELSE tasks
    BY <1>1, RequestStep
  <2>2. /\ Issued' = Issued \cup {r}
        /\ \A s \in Issued : log'[s] = log[s]
        /\ log'[r] = x
    BY <2>1, LogGrows
  <2>3. /\ UNCHANGED <<callbacks, outcome, buffer>>
        /\ tasks \subseteq Issued
    BY <1>1 DEF Request, TypeOK
  <2>4. r \notin Issued
    BY IssuedAreRequests DEF Issued
  <2>5. callbacks[r] = 0 /\ Untouched(r)
    BY <2>1, <2>4 DEF DeliveryInv
  <2>6. CallbackExactlyOnce'
    <3>1. ASSUME NEW s \in Issued
          PROVE  callbacks'[s] = IF log'[s].added /\ s \notin tasks' THEN 1 ELSE 0
      <4>1. callbacks[s] = IF log[s].added /\ s \notin tasks THEN 1 ELSE 0
        BY DEF DeliveryInv, CallbackExactlyOnce
      <4>2. log'[s] = log[s] /\ (s \in tasks' <=> s \in tasks) /\ callbacks'[s] = callbacks[s]
        BY <2>1, <2>2, <2>3, <2>4
      <4> QED
        BY <4>1, <4>2
    <3>2. callbacks'[r] = IF log'[r].added /\ r \notin tasks' THEN 1 ELSE 0
      <4>1. CASE x.added
        BY <2>1, <2>3, <2>5, <4>1
      <4>2. CASE ~x.added
        BY <2>2, <2>3, <2>5, <4>2
      <4> QED
        BY <4>1, <4>2
    <3> QED
      BY <2>2, <3>1, <3>2 DEF CallbackExactlyOnce
  <2>7. BufferHoldsAnswer'
    BY <2>2, <2>3, <2>5 DEF DeliveryInv, BufferHoldsAnswer
  <2>8. \A s \in tasks' : log'[s].added
    BY <2>1, <2>2, <2>3 DEF DeliveryInv
  <2> QED
    BY <2>2, <2>3, <2>5, <2>6, <2>7, <2>8 DEF DeliveryInv, Untouched
<1>2. ASSUME NEW p \in Ports, NEW n \in Nodes, Refuse(p, n)
      PROVE  DeliveryInv'
  BY <1>2, QuietDelivery DEF Refuse, vars
<1>3. CASE WaitForEvent
  BY <1>3, QuietDelivery DEF WaitForEvent
<1>4. CASE Wake
  BY <1>4, QuietDelivery DEF Wake
<1>5. CASE HandleResponse
  <2> DEFINE q == Head(rxq)
  <2>1. CASE UNCHANGED <<tasks, callbacks, outcome, buffer>>
    BY <1>5, <2>1, QuietDelivery DEF HandleResponse
  <2>2. CASE \E r \in Waiting(q), c \in Codes :
               /\ Finish(r, [code |-> c, from |-> q])
               /\ buffer' = IF log[r].param THEN [buffer EXCEPT ![r] = q] ELSE buffer
    <3>1. PICK r \in Waiting(q), c \in Codes :
            /\ Finish(r, [code |-> c, from |-> q])
            /\ buffer' = IF log[r].param THEN [buffer EXCEPT ![r] = q] ELSE buffer
      BY <2>2
    <3>2. r \in tasks /\ q \in Issued /\ UNCHANGED log
      BY <1>5, ResponseCases DEF Waiting
    <3>3. q # None
      BY <3>2, IssuedAreRequests DEF Issued, None
    <3> QED
      BY <3>1, <3>2, <3>3, FinishDelivery
  <2> QED
    BY <1>5, <2>1, <2>2, ResponseCases
<1>6. ASSUME NEW r \in Requests, HandleTimeout(r)
      PROVE  DeliveryInv'
  <2>1. r \in tasks /\ Finish(r, [code |-> "ETIMEDOUT", from |-> None]) /\ UNCHANGED <<log, buffer>>
    BY <1>6 DEF HandleTimeout, TypeOK, Timeout
  <2>2. "ETIMEDOUT" \in Codes
    BY DEF Codes
  <2> QED
    BY <2>1, <2>2, FinishDelivery
<1>7. CASE TickEnd
  BY <1>7, QuietDelivery DEF TickEnd
<1>8. ASSUME NEW q \in Requests, Answer(q)
      PROVE  DeliveryInv'
  BY <1>8, QuietDelivery DEF Answer
<1>9. ASSUME NEW q \in Requests, Lose(q)
      PROVE  DeliveryInv'
  BY <1>9, QuietDelivery DEF Lose
<1>10. ASSUME NEW r \in Requests, ExpireTimer(r)
       PROVE  DeliveryInv'
  BY <1>10, QuietDelivery DEF ExpireTimer
<1>11. CASE UNCHANGED vars
  BY <1>11, QuietDelivery DEF vars
<1> QED
  BY <1>1, <1>2, <1>3, <1>4, <1>5, <1>6, <1>7, <1>8, <1>9, <1>10, <1>11 DEF Next

\* callbacks, outcomes and buffers are in step in every reachable state
LEMMA DeliveryCorrect == Spec => []DeliveryInv
<1>1. Init => DeliveryInv
  BY DeliveryInit
<1>2. TypeOK /\ DeliveryInv /\ [Next]_vars => DeliveryInv'
  BY DeliveryStep
<1> QED
  BY <1>1, <1>2, TypeCorrect, PTL DEF Spec

\* The callback of a registered request is called exactly once, whatever answers, repeated
\* answers and timeouts reach it and however the calls of the application fall between them
THEOREM CalledBackExactlyOnce == Spec => []CallbackExactlyOnce
<1>1. DeliveryInv => CallbackExactlyOnce
  BY DEF DeliveryInv
<1> QED
  BY <1>1, DeliveryCorrect, PTL

\* When a callback runs, the caller's buffer holds the data of the answer that is reported, and
\* nothing if the request timed out
THEOREM BufferIsConsistent == Spec => []BufferHoldsAnswer
<1>1. DeliveryInv => BufferHoldsAnswer
  BY DEF DeliveryInv
<1> QED
  BY <1>1, DeliveryCorrect, PTL

-----------------------------------------------------------------------------
(***************************************************************************)
(* Whose answer completes a request.  An answer and a task meet when port, *)
(* node and transfer-ID agree; the transfer-ID is the place of the request *)
(* on its channel modulo TidMod, so the two are the same request or a      *)
(* whole number of rounds apart.  InRound carries the quotient.            *)
(***************************************************************************)
InRound(place, tid) == \E k \in Nat : place = k * TidMod + tid

PlaceInv ==
  /\ \A ch \in Channels : InRound(issued[ch], tfrIds[ch])
  /\ \A r \in Issued :
       /\ InRound(log[r].place, log[r].tid)
       /\ log[r].place < issued[Channel(r)]
  /\ \A q, r \in Issued : q # r /\ Channel(q) = Channel(r) => log[q].place # log[r].place
  /\ AnswerWindow

\* make_rsp_specifier keeps node, transfer-ID and port apart
Parts == [node : 0..127, tid : 0..31, port : 0..511]
Packed(x) == RspSpecifier(x.node, x.tid, x.port)

LEMMA RspSpecifierInjective ==
  ASSUME NEW x \in Parts, NEW y \in Parts, Packed(x) = Packed(y)
  PROVE  x = y
<1>1. /\ x.node \in 0..127 /\ x.tid \in 0..31 /\ x.port \in 0..511
      /\ y.node \in 0..127 /\ y.tid \in 0..31 /\ y.port \in 0..511
  BY DEF Parts
<1>2. /\ x.node % 128 = x.node /\ x.tid % 32 = x.tid /\ x.port % 512 = x.port
      /\ y.node % 128 = y.node /\ y.tid % 32 = y.tid /\ y.port % 512 = y.port
  BY <1>1
<1>3. x.node + 128 * x.tid + 4096 * x.port = y.node + 128 * y.tid + 4096 * y.port
  BY <1>2 DEF Packed, RspSpecifier
<1>4. x.node = y.node /\ x.tid = y.tid /\ x.port = y.port
  <2>1. PICK n1 \in 0..127, t1 \in 0..31, p1 \in 0..511 : n1 = x.node /\ t1 = x.tid /\ p1 = x.port
    BY <1>1
  <2>2. PICK n2 \in 0..127, t2 \in 0..31, p2 \in 0..511 : n2 = y.node /\ t2 = y.tid /\ p2 = y.port
    BY <1>1
  <2>3. n1 + 128 * t1 + 4096 * p1 = n2 + 128 * t2 + 4096 * p2
    BY <1>3, <2>1, <2>2
  <2>4. n1 = n2 /\ t1 = t2 /\ p1 = p2
    BY <2>3
  <2> QED
    BY <2>1, <2>2, <2>4
<1> QED
  BY <1>4 DEF Parts

\* the next transfer-ID belongs to the next place
LEMMA NextInRound ==
  ASSUME NEW place \in Nat, NEW tid \in Tids, InRound(place, tid)
  PROVE  InRound(place + 1, NextTid(tid))
<1>1. PICK k \in Nat : place = k * TidMod + tid
  BY DEF InRound
<1>2. TidMod \in Nat /\ tid \in Nat
  BY TidModAssumption DEF Tids
<1>3. CASE tid = TidMod - 1
  <2>1. place + 1 = (k + 1) * TidMod + 0
    BY <1>1, <1>2, <1>3
  <2> QED
    BY <1>3, <2>1 DEF InRound, NextTid
<1>4. CASE tid # TidMod - 1
  BY <1>1, <1>2, <1>4 DEF InRound, NextTid
<1> QED
  BY <1>3, <1>4

\* two different places with one transfer-ID are a whole round apart
LEMMA RoundsApart ==
  ASSUME NEW a \in Nat, NEW b \in Nat, NEW tid \in Tids, InRound(a, tid), InRound(b, tid), a # b
  PROVE  a >= b + TidMod \/ b >= a + TidMod
<1>1. PICK j \in Nat : a = j * TidMod + tid
  BY DEF InRound
<1>2. PICK k \in Nat : b = k * TidMod + tid
  BY DEF InRound
<1>3. TidMod \in Nat /\ tid \in Nat
  BY TidModAssumption DEF Tids
<1>4. ASSUME NEW x \in Nat, NEW y \in Nat, x < y
      PROVE  y * TidMod >= x * TidMod + TidMod
  <2>1. PICK d \in Nat : y = x + 1 + d
    BY <1>4
  <2>2. y * TidMod = x * TidMod + TidMod + d * TidMod
    BY <1>3, <2>1
  <2>3. d * TidMod >= 0 /\ d * TidMod \in Int /\ x * TidMod \in Int
    BY <1>3
  <2> QED
    BY <1>3, <2>2, <2>3
<1>5. j * TidMod \in Int /\ k * TidMod \in Int
  BY <1>3
<1>6. CASE j < k
  BY <1>1, <1>2, <1>3, <1>4, <1>5, <1>6
<1>7. CASE k < j
  BY <1>1, <1>2, <1>3, <1>4, <1>5, <1>7
<1>8. j # k
  BY <1>1, <1>2
<1> QED
  BY <1>6, <1>7, <1>8

\* before the first call every channel is at its first transfer-ID
LEMMA PlaceInit == Init => PlaceInv
<1> SUFFICES ASSUME Init PROVE PlaceInv
  OBVIOUS
<1>1. Len(log) = 0
  BY EmptySeq DEF Init
<1>2. Issued = {}
  BY <1>1 DEF Issued
<1>3. InRound(0, 0)
  <2>1. 0 = 0 * TidMod + 0
    BY TidModAssumption
  <2> QED
    BY <2>1 DEF InRound
<1> QED
  BY <1>2, <1>3 DEF Init, PlaceInv, AnswerWindow

\* the answer to q may complete every task it is matched with
LEMMA MatchedAnswer ==
  ASSUME TypeOK, PlaceInv, NEW q \in Issued, NEW r \in Waiting(q)
  PROVE  Channel(q) = Channel(r) /\ (q = r \/ FarApart(q, r))
<1>1. r \in Issued /\ Id(r) = Id(q)
  BY DEF Waiting, TypeOK
<1>2. log[q] \in RequestRecords /\ log[r] \in RequestRecords
  BY <1>1, ElementOfSeq DEF TypeOK, Issued, RequestRecords
<1>3. /\ log[q].node \in 0..127 /\ log[q].tid \in 0..31 /\ log[q].port \in 0..511
      /\ log[r].node \in 0..127 /\ log[r].tid \in 0..31 /\ log[r].port \in 0..511
      /\ log[q].place \in Nat /\ log[r].place \in Nat /\ log[r].tid \in Tids
  BY <1>2, ConstantFacts DEF RequestRecords
<1>4. log[q].node = log[r].node /\ log[q].tid = log[r].tid /\ log[q].port = log[r].port
  <2> DEFINE x == [node |-> log[q].node, tid |-> log[q].tid, port |-> log[q].port]
             y == [node |-> log[r].node, tid |-> log[r].tid, port |-> log[r].port]
  <2>1. x \in Parts /\ y \in Parts
    BY <1>3 DEF Parts
  <2>2. Packed(x) = Packed(y)
    BY <1>1 DEF Packed, Id
  <2>3. x = y
    <3> HIDE DEF x, y
    <3> QED
      BY <2>1, <2>2, RspSpecifierInjective
  <2> QED
    BY <2>3
<1>5. Channel(q) = Channel(r)
  BY <1>4 DEF Channel
<1>6. CASE q # r
  <2>1. log[q].place # log[r].place
    BY <1>1, <1>5, <1>6 DEF PlaceInv
  <2>2. InRound(log[q].place, log[r].tid) /\ InRound(log[r].place, log[r].tid)
    BY <1>1, <1>4 DEF PlaceInv
  <2> QED
    BY <1>3, <1>5, <2>1, <2>2, RoundsApart DEF FarApart
<1> QED
  BY <1>5, <1>6

\* a step that leaves the log and the transfer-IDs alone and adds no wrong outcome
LEMMA QuietPlace ==
  ASSUME TypeOK, PlaceInv, UNCHANGED <<log, tfrIds, issued>>, AnswerWindow'
  PROVE  PlaceInv'
<1>1. Issued' = Issued /\ \A r \in Issued : Channel(r)' = Channel(r)
  BY QuietType DEF Channel
<1> QED
  BY <1>1 DEF PlaceInv

\* a step that leaves the log and the outcomes alone keeps the answers in their windows
LEMMA QuietWindow ==
  ASSUME TypeOK, PlaceInv, UNCHANGED <<log, outcome>>
  PROVE  AnswerWindow'
<1>1. Issued' = Issued
  BY QuietType
<1> QED
  BY <1>1 DEF PlaceInv, AnswerWindow, Channel, FarApart

\* finishing a task with an answer that matches it, or with a timeout
LEMMA FinishWindow ==
  ASSUME TypeOK, PlaceInv, UNCHANGED log,
         NEW r \in tasks, NEW c \in Codes, NEW q \in Issued \cup {None},
         q # None => Channel(q) = Channel(r) /\ (q = r \/ FarApart(q, r)),
         Finish(r, [code |-> c, from |-> q])
  PROVE  AnswerWindow'
<1>1. Issued' = Issued /\ Issued \subseteq Requests /\ r \in Issued
  BY QuietType, IssuedAreRequests DEF TypeOK
<1>2. outcome'[r].from = q /\ \A s \in Requests \ {r} : outcome'[s] = outcome[s]
  BY <1>1 DEF Finish, TypeOK
<1> QED
  BY <1>1, <1>2 DEF PlaceInv, AnswerWindow, Channel, FarApart

\* every step keeps transfer-IDs in step with places, and answers in their windows
LEMMA PlaceStep == TypeOK /\ PlaceInv /\ DeliveryInv /\ [Next]_vars => PlaceInv'
<1> SUFFICES ASSUME TypeOK, PlaceInv, DeliveryInv, [Next]_vars PROVE PlaceInv'
  OBVIOUS
<1>1. ASSUME NEW p \in Ports, NEW n \in Nodes, Request(p, n)
      PROVE  PlaceInv'
  <2> DEFINE ch == <<p, n>>
  <2>0. PICK r \in Requests : r = Len(log) + 1
    BY <1>1, RequestStep
  <2>1. PICK x \in RequestRecords :
          /\ x.port = p /\ x.node = n /\ x.tid = tfrIds[ch] /\ x.place = issued[ch]
          /\ log' = Append(log, x)
    BY <1>1, RequestStep
  <2>2. /\ Issued' = Issued \cup {r}
        /\ \A s \in Issued : log'[s] = log[s]
        /\ log'[r] = x
    BY <2>0, <2>1, LogGrows
  <2>3. r \notin Issued
    BY <2>0, IssuedAreRequests DEF Issued
  <2>4. /\ \A s \in Issued : Channel(s)' = Channel(s)
        /\ Channel(r)' = ch
    BY <2>1, <2>2 DEF Channel
  <2>5. /\ ch \in Channels
        /\ issued[ch] \in Nat /\ tfrIds[ch] \in Tids
        /\ issued' = [issued EXCEPT ![ch] = issued[ch] + 1]
        /\ tfrIds' = [tfrIds EXCEPT ![ch] = NextTid(tfrIds[ch])]
        /\ UNCHANGED outcome
    BY <1>1 DEF Request, TypeOK, Channels
  <2>6. \A s \in Issued : log[s].place \in Nat /\ Channel(s) \in Channels
    <3>1. \A s \in Issued : log[s] \in RequestRecords
      BY ElementOfSeq DEF TypeOK, Issued, RequestRecords
    <3> QED
      BY <3>1 DEF RequestRecords, Channel, Channels
  <2>7. \A c \in Channels : InRound(issued'[c], tfrIds'[c])
    <3>1. InRound(issued[ch] + 1, NextTid(tfrIds[ch]))
      BY <2>5, NextInRound DEF PlaceInv
    <3>2. /\ issued'[ch] = issued[ch] + 1
          /\ tfrIds'[ch] = NextTid(tfrIds[ch])
          /\ \A c \in Channels \ {ch} : issued'[c] = issued[c] /\ tfrIds'[c] = tfrIds[c]
      BY <2>5 DEF TypeOK
    <3>3. ASSUME NEW c \in Channels PROVE InRound(issued'[c], tfrIds'[c])
      <4>1. CASE c = ch
        BY <3>1, <3>2, <4>1
      <4>2. CASE c # ch
        <5>1. InRound(issued[c], tfrIds[c])
          BY DEF PlaceInv
        <5> QED
          BY <3>2, <4>2, <5>1
      <4> QED
        BY <4>1, <4>2
    <3> QED
      BY <3>3
  <2>8. \A s \in Issued' : InRound(log'[s].place, log'[s].tid)
    BY <2>1, <2>2, <2>5 DEF PlaceInv
  <2>9. \A s \in Issued' : log'[s].place < issued'[Channel(s)']
    <3>1. \A c \in Channels : issued[c] \in Nat /\ issued'[c] >= issued[c]
      <4>1. /\ issued'[ch] = issued[ch] + 1
            /\ \A c \in Channels \ {ch} : issued'[c] = issued[c]
            /\ \A c \in Channels : issued[c] \in Nat
        BY <2>5 DEF TypeOK
      <4> QED
        BY <4>1
    <3>2. ASSUME NEW s \in Issued PROVE log'[s].place < issued'[Channel(s)']
      <4>1. log[s].place < issued[Channel(s)] /\ issued'[Channel(s)] \in Int
        BY <2>5, <2>6 DEF PlaceInv, TypeOK
      <4>2. issued'[Channel(s)] >= issued[Channel(s)] /\ issued[Channel(s)] \in Nat
        BY <2>6, <3>1
      <4> QED
        BY <2>2, <2>4, <2>6, <4>1, <4>2
    <3>3. log'[r].place < issued'[Channel(r)']
      <4>1. issued'[ch] = issued[ch] + 1 /\ issued[ch] \in Nat
        BY <2>5 DEF TypeOK
      <4> QED
        BY <2>1, <2>2, <2>4, <4>1
    <3> QED
      BY <2>2, <3>2, <3>3
  <2>10. \A q, s \in Issued' : q # s /\ Channel(q)' = Channel(s)' => log'[q].place # log'[s].place
    <3>1. \A s \in Issued : Channel(s) = ch => log[s].place < issued[ch]
      BY DEF PlaceInv
    <3>2. \A s \in Issued : Channel(s) = ch => log[s].place # x.place
      BY <2>1, <2>5, <2>6, <3>1
    <3>3. ASSUME NEW q \in Issued', NEW s \in Issued', q # s, Channel(q)' = Channel(s)'
          PROVE  log'[q].place # log'[s].place
      <4>1. CASE q = r
        BY <2>1, <2>2, <2>4, <3>2, <3>3, <4>1
      <4>2. CASE s = r
        BY <2>1, <2>2, <2>4, <3>2, <3>3, <4>2
      <4>3. CASE q # r /\ s # r
        BY <2>2, <2>4, <3>3, <4>3 DEF PlaceInv
      <4> QED
        BY <4>1, <4>2, <4>3
    <3> QED
      BY <3>3
  <2>11. AnswerWindow'
    <3>1. outcome[r].from = None
      BY <2>1, <2>3 DEF DeliveryInv, Untouched, NoOutcome
    <3>2. \A s \in Issued : outcome[s].from \in Issued \cup {None}
      BY IssuedAreRequests DEF TypeOK
    <3> QED
      BY <2>2, <2>4, <2>5, <3>1, <3>2 DEF PlaceInv, AnswerWindow, FarApart
  <2> QED
    BY <2>7, <2>8, <2>9, <2>10, <2>11 DEF PlaceInv, InRound
<1>2. ASSUME NEW p \in Ports, NEW n \in Nodes, Refuse(p, n)
      PROVE  PlaceInv'
  BY <1>2, QuietPlace, QuietWindow DEF Refuse, vars
<1>3. CASE WaitForEvent
  BY <1>3, QuietPlace, QuietWindow DEF WaitForEvent
<1>4. CASE Wake
  BY <1>4, QuietPlace, QuietWindow DEF Wake
<1>5. CASE HandleResponse
  <2> DEFINE q == Head(rxq)
  <2>1. q \in Issued /\ UNCHANGED <<log, tfrIds, issued>>
    BY <1>5, ResponseCases
  <2>2. CASE UNCHANGED <<tasks, callbacks, outcome, buffer>>
    BY <2>1, <2>2, QuietPlace, QuietWindow
  <2>3. CASE \E r \in Waiting(q), c \in Codes : Finish(r, [code |-> c, from |-> q])
    <3>1. PICK r \in Waiting(q), c \in Codes : Finish(r, [code |-> c, from |-> q])
      BY <2>3
    <3>2. r \in tasks
      BY DEF Waiting
    <3>3. Channel(q) = Channel(r) /\ (q = r \/ FarApart(q, r))
      BY <2>1, MatchedAnswer
    <3>4. AnswerWindow'
      BY <2>1, <3>1, <3>2, <3>3, FinishWindow
    <3> QED
      BY <2>1, <3>4, QuietPlace
  <2> QED
    BY <1>5, <2>2, <2>3, ResponseCases
<1>6. ASSUME NEW r \in Requests, HandleTimeout(r)
      PROVE  PlaceInv'
  <2>1. /\ r \in tasks
        /\ Finish(r, [code |-> "ETIMEDOUT", from |-> None])
        /\ UNCHANGED <<log, tfrIds, issued>>
    BY <1>6 DEF HandleTimeout, TypeOK, Timeout
  <2>2. "ETIMEDOUT" \in Codes
    BY DEF Codes
  <2>3. AnswerWindow'
    BY <2>1, <2>2, FinishWindow
  <2> QED
    BY <2>1, <2>3, QuietPlace
<1>7. CASE TickEnd
  BY <1>7, QuietPlace, QuietWindow DEF TickEnd
<1>8. ASSUME NEW q \in Requests, Answer(q)
      PROVE  PlaceInv'
  BY <1>8, QuietPlace, QuietWindow DEF Answer
<1>9. ASSUME NEW q \in Requests, Lose(q)
      PROVE  PlaceInv'
  BY <1>9, QuietPlace, QuietWindow DEF Lose
<1>10. ASSUME NEW r \in Requests, ExpireTimer(r)
       PROVE  PlaceInv'
  BY <1>10, QuietPlace, QuietWindow DEF ExpireTimer
<1>11. CASE UNCHANGED vars
  BY <1>11, QuietPlace, QuietWindow DEF vars
<1> QED
  BY <1>1, <1>2, <1>3, <1>4, <1>5, <1>6, <1>7, <1>8, <1>9, <1>10, <1>11 DEF Next

\* A request is completed by its own answer or by that of a request to the same port and node
\* which is at least TidMod requests away: never by the answer of another port or node, and
\* never by a stray one while fewer than TidMod requests of the channel are in question
THEOREM AnswersStayInWindow == Spec => []AnswerWindow
<1>1. Init => PlaceInv
  BY PlaceInit
<1>2. TypeOK /\ PlaceInv /\ DeliveryInv /\ [Next]_vars => PlaceInv'
  BY PlaceStep
<1>3. PlaceInv => AnswerWindow
  BY DEF PlaceInv
<1> QED
  BY <1>1, <1>2, <1>3, TypeCorrect, DeliveryCorrect, PTL DEF Spec

-----------------------------------------------------------------------------
(***************************************************************************)
(* The caller's buffer between the call and the callback.                  *)
(***************************************************************************)
BufferStep == \A r \in Requests : buffer'[r] # buffer[r] => callbacks'[r] = callbacks[r] + 1

\* a step that writes a buffer counts a callback of the same request
LEMMA BufferMoves == TypeOK /\ [Next]_vars => BufferStep
<1> SUFFICES ASSUME TypeOK, [Next]_vars PROVE BufferStep
  OBVIOUS
<1>1. CASE UNCHANGED buffer
  BY <1>1 DEF BufferStep
<1>2. CASE HandleResponse
  <2>1. CASE UNCHANGED buffer
    BY <2>1 DEF BufferStep
  <2>2. CASE \E r \in Waiting(Head(rxq)), c \in Codes :
               /\ Finish(r, [code |-> c, from |-> Head(rxq)])
               /\ buffer' = IF log[r].param THEN [buffer EXCEPT ![r] = Head(rxq)] ELSE buffer
    <3>1. PICK r \in Waiting(Head(rxq)), c \in Codes :
            /\ Finish(r, [code |-> c, from |-> Head(rxq)])
            /\ buffer' = IF log[r].param THEN [buffer EXCEPT ![r] = Head(rxq)] ELSE buffer
      BY <2>2
    <3>2. callbacks' = [callbacks EXCEPT ![r] = callbacks[r] + 1]
      BY <3>1 DEF Finish
    <3> QED
      BY <3>1, <3>2 DEF BufferStep, TypeOK
  <2> QED
    BY <1>2, <2>1, <2>2, ResponseCases
<1>3. \/ UNCHANGED buffer
      \/ HandleResponse
  BY DEF Next, vars, Request, Refuse, WaitForEvent, Wake, HandleTimeout, TickEnd, Answer, Lose,
         ExpireTimer
<1> QED
  BY <1>1, <1>2, <1>3

\* The library touches the buffer of a request in one step only, the one that calls its callback:
\* a caller that was told, of an answer or of a timeout, may reuse or free the buffer
THEOREM BufferIsQuiet == Spec => BufferQuiet
<1>1. TypeOK /\ [Next]_vars => [BufferStep]_vars
  BY BufferMoves
<1> QED
  BY <1>1, TypeCorrect, PTL DEF Spec, BufferQuiet, BufferStep

-----------------------------------------------------------------------------
(***************************************************************************)
(* The duplicate filter.  The transfer-ID a session has seen last is that  *)
(* of a request whose answer was accepted; that request is no longer       *)
(* waiting, unless the answer was given to another one with the same id.   *)
(***************************************************************************)
HasTwin(s) == \E t \in Issued \ {s} : Id(t) = Id(s)

Accepted(ch, s) ==
  /\ Channel(s) = ch
  /\ session[ch] = NextTid(log[s].tid)
  /\ s \in tasks => HasTwin(s)

SessionInv == \A ch \in Channels : session[ch] # NoSession => \E s \in Issued : Accepted(ch, s)

\* no two transfer-IDs have the same successor
LEMMA NextTidInjective ==
  ASSUME NEW a \in Tids, NEW b \in Tids, NextTid(a) = NextTid(b)
  PROVE  a = b
BY TidModAssumption DEF Tids, NextTid

\* a step that leaves sessions and the log alone and adds no task
LEMMA QuietSession ==
  ASSUME TypeOK, SessionInv, UNCHANGED <<log, session>>, tasks' \subseteq tasks
  PROVE  SessionInv'
<1>1. Issued' = Issued
  BY QuietType
<1>2. ASSUME NEW ch \in Channels, NEW s \in Issued, Accepted(ch, s)
      PROVE  Accepted(ch, s)'
  BY <1>1, <1>2 DEF Accepted, HasTwin, Channel, Id
<1>3. ASSUME NEW ch \in Channels, session'[ch] # NoSession
      PROVE  \E s \in Issued' : Accepted(ch, s)'
  <2>1. PICK s \in Issued : Accepted(ch, s)
    BY <1>3 DEF SessionInv
  <2> QED
    BY <1>1, <1>2, <2>1
<1> QED
  BY <1>3 DEF SessionInv

LEMMA SessionInit == Init => SessionInv
BY DEF Init, SessionInv

\* an accepted answer completes a task or finds none
LEMMA AcceptedAnswer ==
  ASSUME TypeOK, NEW q \in Issued, Deliver(q), UNCHANGED log
  PROVE  q \in tasks' => HasTwin(q)'
<1>1. Issued' = Issued /\ tasks \subseteq Issued
  BY QuietType DEF TypeOK
<1>2. CASE Waiting(q) = {} /\ UNCHANGED tasks
  BY <1>2 DEF Waiting
<1>3. ASSUME NEW r \in Waiting(q), tasks' = tasks \ {r}, q \in tasks'
      PROVE  HasTwin(q)'
  <2>1. r \in Issued \ {q} /\ Id(r) = Id(q)
    BY <1>1, <1>3 DEF Waiting
  <2>2. Id(r)' = Id(r) /\ Id(q)' = Id(q)
    BY DEF Id
  <2> QED
    BY <1>1, <2>1, <2>2 DEF HasTwin
<1>4. \/ Waiting(q) = {} /\ UNCHANGED tasks
      \/ \E r \in Waiting(q) : tasks' = tasks \ {r}
  BY DEF Deliver, Finish
<1> QED
  BY <1>2, <1>3, <1>4

LEMMA SessionStep == TypeOK /\ SessionInv /\ [Next]_vars => SessionInv'
<1> SUFFICES ASSUME TypeOK, SessionInv, [Next]_vars PROVE SessionInv'
  OBVIOUS
<1>1. ASSUME NEW p \in Ports, NEW n \in Nodes, Request(p, n)
      PROVE  SessionInv'
  <2>0. PICK r \in Requests : r = Len(log) + 1
    BY <1>1, RequestStep
  <2>1. PICK x \in RequestRecords :
          /\ log' = Append(log, x)
          /\ tasks' = IF x.added THEN tasks \cup {r} ELSE tasks
    BY <1>1, <2>0, RequestStep
  <2>2. Issued' = Issued \cup {r} /\ \A s \in Issued : log'[s] = log[s]
    BY <2>0, <2>1, LogGrows
  <2>3. r \notin Issued
    BY <2>0, IssuedAreRequests DEF Issued
  <2>4. session' = session
    BY <1>1 DEF Request
  <2>5. \A s \in Issued : Channel(s)' = Channel(s) /\ Id(s)' = Id(s)
    BY <2>2 DEF Channel, Id
  <2>6. ASSUME NEW ch \in Channels, NEW s \in Issued, Accepted(ch, s)
        PROVE  Accepted(ch, s)'
    <3>1. s \in tasks' => HasTwin(s)
      BY <2>1, <2>3, <2>6 DEF Accepted
    <3>2. HasTwin(s) => HasTwin(s)'
      BY <2>2, <2>5 DEF HasTwin
    <3>3. Channel(s)' = ch /\ session'[ch] = NextTid(log'[s].tid)
      BY <2>2, <2>4, <2>5, <2>6 DEF Accepted
    <3> QED
      BY <3>1, <3>2, <3>3 DEF Accepted
  <2>7. ASSUME NEW ch \in Channels, session'[ch] # NoSession
        PROVE  \E s \in Issued' : Accepted(ch, s)'
    <3>1. PICK s \in Issued : Accepted(ch, s)
      BY <2>4, <2>7 DEF SessionInv
    <3> QED
      BY <2>2, <2>6, <3>1
  <2> QED
    BY <2>7 DEF SessionInv
<1>2. CASE HandleResponse
  <2>1. PICK q \in Issued : q = Head(rxq)
    BY <1>2, ResponseCases
  <2>2. UNCHANGED log /\ Issued' = Issued
    BY <1>2, ResponseCases, QuietType
  <2>3. CASE UNCHANGED <<session, tasks>>
    BY <2>2, <2>3, QuietSession
  <2>4. CASE session' = [session EXCEPT ![Channel(q)] = NextTid(log[q].tid)] /\ Deliver(q)
    <3>1. q \in tasks' => HasTwin(q)'
      BY <2>2, <2>4, AcceptedAnswer
    <3>2. tasks' \subseteq tasks
      BY <2>4 DEF Deliver, Finish
    <3>3. ASSUME NEW ch \in Channels, session'[ch] # NoSession
          PROVE  \E s \in Issued' : Accepted(ch, s)'
      <4>1. CASE ch = Channel(q)
        <5>1. session'[ch] = NextTid(log'[q].tid)
          BY <2>2, <2>4, <3>3, <4>1 DEF TypeOK
        <5>2. Accepted(ch, q)'
          BY <2>2, <3>1, <4>1, <5>1 DEF Accepted, Channel
        <5> QED
          BY <2>2, <5>2
      <4>2. CASE ch # Channel(q)
        <5>1. session'[ch] = session[ch]
          BY <2>4, <4>2 DEF TypeOK
        <5>2. PICK s \in Issued : Accepted(ch, s)
          BY <3>3, <5>1 DEF SessionInv
        <5>3. Accepted(ch, s)'
          BY <2>2, <3>2, <5>1, <5>2 DEF Accepted, HasTwin, Channel, Id
        <5> QED
          BY <2>2, <5>3
      <4> QED
        BY <4>1, <4>2
    <3> QED
      BY <3>3 DEF SessionInv
  <2> QED
    BY <1>2, <2>1, <2>3, <2>4 DEF HandleResponse
<1>3. ASSUME ~HandleResponse, ~\E p \in Ports, n \in Nodes : Request(p, n)
      PROVE  UNCHANGED <<log, session>> /\ tasks' \subseteq tasks
  BY <1>3 DEF Next, vars, Refuse, WaitForEvent, Wake, HandleTimeout, Finish, TickEnd, Answer, Lose,
              ExpireTimer
<1> QED
  BY <1>1, <1>2, <1>3, QuietSession

\* the step that takes the answer to a waiting request without a twin from the socket
FilterStep ==
  \A q \in tasks :
    /\ rxq # <<>> /\ q = Head(rxq) /\ rxq' = Tail(rxq)
    /\ \A s \in Issued \ {q} : Id(s) # Id(q)
    => callbacks'[q] = callbacks[q] + 1

LEMMA FilterPasses == TypeOK /\ SessionInv /\ [Next]_vars => FilterStep
<1> SUFFICES ASSUME TypeOK, SessionInv, [Next]_vars,
                    NEW q \in tasks, rxq # <<>>, q = Head(rxq), rxq' = Tail(rxq), ~HasTwin(q)
             PROVE  callbacks'[q] = callbacks[q] + 1
  BY DEF FilterStep, HasTwin
<1>1. q \in Issued /\ q \in Requests
  BY IssuedAreRequests DEF TypeOK
<1>2. rxq \in Seq(Issued) /\ Len(rxq) \in Nat /\ Len(rxq) > 0 /\ Len(rxq') = Len(rxq) - 1
  BY LenProperties, EmptySeq, HeadTailProperties DEF TypeOK
<1>3. HandleResponse
  <2>1. rxq' # rxq
    <3>1. ASSUME rxq' = rxq PROVE Len(rxq') = Len(rxq)
      BY <3>1
    <3>2. PICK k \in Nat : k = Len(rxq)
      BY <1>2
    <3>3. Len(rxq') = k - 1
      BY <1>2, <3>2
    <3>4. k - 1 # k
      OBVIOUS
    <3> QED
      BY <3>1, <3>2, <3>3, <3>4
  <2>2. ASSUME NEW s \in Requests, Answer(s)
        PROVE  FALSE
    <3>1. s \in Issued /\ rxq' = Append(rxq, s)
      BY <2>2 DEF Answer, TypeOK
    <3>2. PICK t \in Issued : t = s
      BY <3>1
    <3>3. Len(Append(rxq, t)) = Len(rxq) + 1
      BY <1>2, AppendProperties
    <3>4. Len(rxq') = Len(rxq) + 1
      BY <3>1, <3>2, <3>3
    <3> QED
      BY <1>2, <3>4
  <2>3. \/ HandleResponse
        \/ \E s \in Requests : Answer(s)
        \/ rxq' = rxq
    BY DEF Next, vars, Request, Refuse, WaitForEvent, Wake, HandleTimeout, TickEnd, Lose, ExpireTimer
  <2> QED
    BY <2>1, <2>2, <2>3
<1>4. ~LooksDuplicate(q)
  <2> SUFFICES ASSUME LooksDuplicate(q) PROVE FALSE
    OBVIOUS
  <2>1. log[q] \in RequestRecords
    BY <1>1, ElementOfSeq DEF TypeOK, Issued, RequestRecords
  <2>2. Channel(q) \in Channels /\ log[q].tid \in Tids
    BY <2>1 DEF RequestRecords, Channel, Channels
  <2>3. session[Channel(q)] = NextTid(log[q].tid) /\ NextTid(log[q].tid) # NoSession
    BY <2>2, TidModAssumption DEF LooksDuplicate, NextTid, NoSession, Tids
  <2>4. PICK s \in Issued : Accepted(Channel(q), s)
    BY <2>2, <2>3 DEF SessionInv
  <2>5. log[s] \in RequestRecords
    BY ElementOfSeq DEF TypeOK, Issued, RequestRecords
  <2>6. log[s].tid = log[q].tid
    BY <2>2, <2>3, <2>4, <2>5, NextTidInjective DEF Accepted, RequestRecords
  <2>7. log[s].port = log[q].port /\ log[s].node = log[q].node
    BY <2>4 DEF Accepted, Channel
  <2>8. Id(s) = Id(q)
    BY <2>6, <2>7 DEF Id
  <2>9. s = q
    BY <2>8 DEF HasTwin
  <2> QED
    BY <2>4, <2>9 DEF Accepted
<1>5. Deliver(q)
  BY <1>3, <1>4 DEF HandleResponse
<1>6. Waiting(q) = {q}
  BY DEF Waiting, HasTwin, TypeOK
<1>7. callbacks' = [callbacks EXCEPT ![q] = callbacks[q] + 1]
  BY <1>5, <1>6 DEF Deliver, Finish
<1> QED
  BY <1>1, <1>7 DEF TypeOK

\* The duplicate filter of libcanard does not cost a waiting request its answer while no other
\* request has had the same port, node and transfer-ID
THEOREM FilterIsHarmless == Spec => NoFalseDuplicate
<1>1. TypeOK /\ SessionInv /\ [Next]_vars => [FilterStep]_vars
  BY FilterPasses
<1> QED
  BY <1>1, SessionInit, SessionStep, TypeCorrect, PTL DEF Spec, NoFalseDuplicate, FilterStep

-----------------------------------------------------------------------------
(***************************************************************************)
(* The engine implements RequestService, as far as safety goes: it starts  *)
(* where the service starts, and every step of it is a step of the service *)
(* or leaves what the service shows alone.                                 *)
(*                                                                         *)
(* The service numbers the requests of a channel by counting them, the     *)
(* engine by the history variable issued: CountInv says they agree.        *)
(***************************************************************************)
OnChannel(ch) == {q \in Issued : Channel(q) = ch}

CountInv == \A ch \in Channels : issued[ch] = Cardinality(OnChannel(ch))

\* the requests of a channel are finitely many
LEMMA OnChannelFinite == TypeOK => \A ch \in Channels : IsFiniteSet(OnChannel(ch))
<1> SUFFICES ASSUME TypeOK, NEW ch \in Channels PROVE IsFiniteSet(OnChannel(ch))
  OBVIOUS
<1>1. IsFiniteSet(1..Len(log))
  <2>1. PICK k \in Int : k = Len(log)
    BY IssuedAreRequests
  <2>2. IsFiniteSet(1..k)
    BY FS_Interval
  <2> QED
    BY <2>1, <2>2
<1>2. OnChannel(ch) \in SUBSET (1..Len(log))
  BY DEF OnChannel, Issued
<1> QED
  BY <1>1, <1>2, FS_Subset

\* before the first call nothing is counted
LEMMA CountInit == Init => CountInv
<1> SUFFICES ASSUME Init, NEW ch \in Channels PROVE issued[ch] = Cardinality(OnChannel(ch))
  BY DEF CountInv
<1>1. Len(log) = 0
  BY EmptySeq DEF Init
<1>2. OnChannel(ch) = {}
  BY <1>1 DEF OnChannel, Issued
<1> QED
  BY <1>2, FS_EmptySet DEF Init

\* a request function counts the request it adds to the log, nobody else counts or adds
LEMMA CountStep == TypeOK /\ CountInv /\ [Next]_vars => CountInv'
<1> SUFFICES ASSUME TypeOK, CountInv, [Next]_vars PROVE CountInv'
  OBVIOUS
<1>1. ASSUME NEW p \in Ports, NEW n \in Nodes, Request(p, n)
      PROVE  CountInv'
  <2> DEFINE ch == <<p, n>>
  <2>1. PICK r \in Requests : r = Len(log) + 1
    BY <1>1, RequestStep
  <2>2. PICK x \in RequestRecords :
          /\ x.port = p /\ x.node = n
          /\ x.tid = tfrIds[ch] /\ x.place = issued[ch]
          /\ log' = Append(log, x)
    BY <1>1, RequestStep
  <2>3. /\ Issued' = Issued \cup {r}
        /\ \A s \in Issued : log'[s] = log[s]
        /\ log'[r] = x
    BY <2>1, <2>2, LogGrows
  <2>4. r \notin Issued
    BY <2>1, IssuedAreRequests DEF Issued
  <2>5. /\ ch \in Channels
        /\ issued' = [issued EXCEPT ![ch] = issued[ch] + 1]
        /\ issued \in [Channels -> Nat]
    BY <1>1 DEF Request, TypeOK, Channels
  <2>6. (\A s \in Issued : Channel(s)' = Channel(s)) /\ Channel(r)' = ch
    BY <2>2, <2>3 DEF Channel
  <2>7. ASSUME NEW c \in Channels PROVE issued'[c] = Cardinality(OnChannel(c)')
    <3>1. issued[c] = Cardinality(OnChannel(c)) /\ IsFiniteSet(OnChannel(c))
      BY OnChannelFinite DEF CountInv
    <3>2. CASE c = ch
      <4>1. OnChannel(c)' = OnChannel(c) \cup {r} /\ r \notin OnChannel(c)
        BY <2>3, <2>4, <2>6, <3>2 DEF OnChannel
      <4>2. Cardinality(OnChannel(c) \cup {r}) = Cardinality(OnChannel(c)) + 1
        BY <3>1, <4>1, FS_AddElement
      <4>3. issued'[c] = issued[c] + 1
        BY <2>5, <3>2
      <4> QED
        BY <3>1, <4>1, <4>2, <4>3
    <3>3. CASE c # ch
      <4>1. OnChannel(c)' = OnChannel(c)
        BY <2>3, <2>4, <2>6, <3>3 DEF OnChannel
      <4>2. issued'[c] = issued[c]
        BY <2>5, <3>3
      <4> QED
        BY <3>1, <4>1, <4>2
    <3> QED
      BY <3>2, <3>3
  <2> QED
    BY <2>7 DEF CountInv
<1>2. CASE UNCHANGED <<log, issued>>
  BY <1>2 DEF CountInv, OnChannel, Issued, Channel
<1>3. \/ \E p \in Ports, n \in Nodes : Request(p, n)
      \/ UNCHANGED <<log, issued>>
  BY DEF Next, vars, Refuse, WaitForEvent, Wake, HandleResponse, HandleTimeout, TickEnd, Answer,
         Lose, ExpireTimer
<1> QED
  BY <1>1, <1>2, <1>3

-----------------------------------------------------------------------------
\* how far a request is and who finished it, case by case
ShowsCases ==
  \A r \in Requests :
    /\ r \notin Issued => ServiceStatus[r] = "idle" /\ ServicePlace[r] = Service!NoPlace
    /\ r \in Issued => ServicePlace[r] = [channel |-> Channel(r), nth |-> log[r].place]
    /\ r \in tasks => ServiceStatus[r] = "pending"
    /\ r \in Issued /\ r \notin tasks /\ callbacks[r] > 0 => ServiceStatus[r] = "done"
    /\ r \in Issued /\ r \notin tasks /\ ~(callbacks[r] > 0) => ServiceStatus[r] = "forgotten"
    /\ outcome[r] = NoOutcome => ServiceResult[r] = Service!Nobody
    /\ outcome[r] = Timeout => ServiceResult[r] = Service!ByTimeout
    /\ outcome[r].from # None => ServiceResult[r] = Service!ByAnswer(outcome[r].from)

LEMMA ShowsCasesHold == TypeOK /\ DeliveryInv => ShowsCases
<1> SUFFICES ASSUME TypeOK, DeliveryInv, NEW r \in Requests
             PROVE  ShowsCases!(r)
  BY DEF ShowsCases
<1>1. ServiceStatus[r] = CASE r \notin Issued -> "idle"
                           [] r \in tasks     -> "pending"
                           [] callbacks[r] > 0 -> "done"
                           [] OTHER           -> "forgotten"
  BY DEF ServiceStatus
<1>2. /\ r \in tasks => r \in Issued /\ ~(callbacks[r] > 0)
      /\ r \notin Issued => ~(callbacks[r] > 0)
  <2>1. r \in Issued => callbacks[r] = IF log[r].added /\ r \notin tasks THEN 1 ELSE 0
    BY DEF DeliveryInv, CallbackExactlyOnce
  <2>2. r \notin Issued => callbacks[r] = 0
    BY DEF DeliveryInv
  <2>3. r \in tasks => r \in Issued
    BY DEF TypeOK
  <2> QED
    BY <2>1, <2>2, <2>3
<1>3. /\ r \notin Issued => ServiceStatus[r] = "idle"
      /\ r \in tasks => ServiceStatus[r] = "pending"
      /\ r \in Issued /\ r \notin tasks /\ callbacks[r] > 0 => ServiceStatus[r] = "done"
      /\ r \in Issued /\ r \notin tasks /\ ~(callbacks[r] > 0) => ServiceStatus[r] = "forgotten"
  BY <1>1, <1>2
<1>4. /\ r \notin Issued => ServicePlace[r] = Service!NoPlace
      /\ r \in Issued => ServicePlace[r] = [channel |-> Channel(r), nth |-> log[r].place]
  BY DEF ServicePlace, Service!NoPlace
<1>5. /\ outcome[r] = NoOutcome => ServiceResult[r] = Service!Nobody
      /\ outcome[r] = Timeout => ServiceResult[r] = Service!ByTimeout
      /\ outcome[r].from # None => ServiceResult[r] = Service!ByAnswer(outcome[r].from)
  BY DEF ServiceResult, NoOutcome, Timeout, Service!Nobody, Service!ByTimeout, Service!ByAnswer
<1> QED
  BY <1>3, <1>4, <1>5

\* the same of the state a step leads to
LEMMA ShowsCasesNext == TypeOK' /\ DeliveryInv' => ShowsCases'
BY ShowsCasesHold, PTL

\* a step that leaves requests, tasks, callbacks and outcomes alone shows nothing
LEMMA ServiceQuiet ==
  ASSUME UNCHANGED <<log, tasks, callbacks, outcome>>
  PROVE  UNCHANGED Service!vars
BY DEF Service!vars, ServiceStatus, ServicePlace, ServiceResult, Issued, Channel

\* wlmio_init starts the service
LEMMA ServiceInit == Init => Service!Init
<1> SUFFICES ASSUME Init PROVE Service!Init
  OBVIOUS
<1>1. Issued = {}
  BY EmptySeq DEF Init, Issued
<1>2. ShowsCases
  BY TypeInit, DeliveryInit, ShowsCasesHold
<1>3. \A r \in Requests : ServiceStatus[r] = "idle" /\ ServicePlace[r] = Service!NoPlace
  BY <1>1, <1>2 DEF ShowsCases
<1>4. \A r \in Requests : ServiceResult[r] = Service!Nobody
  BY <1>2 DEF ShowsCases, Init
<1>5. /\ ServiceStatus = [r \in Requests |-> ServiceStatus[r]]
      /\ ServicePlace = [r \in Requests |-> ServicePlace[r]]
      /\ ServiceResult = [r \in Requests |-> ServiceResult[r]]
  BY DEF ServiceStatus, ServicePlace, ServiceResult
<1> QED
  BY <1>3, <1>4, <1>5 DEF Service!Init

\* the three functions the service shows are functions of the requests
LEMMA ShownFunctions ==
  /\ DOMAIN ServiceStatus = Requests /\ ServiceStatus = [q \in Requests |-> ServiceStatus[q]]
  /\ DOMAIN ServicePlace = Requests /\ ServicePlace = [q \in Requests |-> ServicePlace[q]]
  /\ DOMAIN ServiceResult = Requests /\ ServiceResult = [q \in Requests |-> ServiceResult[q]]
BY DEF ServiceStatus, ServicePlace, ServiceResult

LEMMA ShownFunctionsNext ==
  /\ ServiceStatus' = [q \in Requests |-> ServiceStatus'[q]]
  /\ ServicePlace' = [q \in Requests |-> ServicePlace'[q]]
  /\ ServiceResult' = [q \in Requests |-> ServiceResult'[q]]
BY DEF ServiceStatus, ServicePlace, ServiceResult

\* two functions that agree everywhere but at r
LEMMA Updated ==
  ASSUME NEW S, NEW f, NEW g, NEW r \in S, NEW v,
         f = [q \in S |-> f[q]], g = [q \in S |-> g[q]],
         g[r] = v, \A q \in S \ {r} : g[q] = f[q]
  PROVE  g = [f EXCEPT ![r] = v]
OBVIOUS

\* the service counts as the engine does
LEMMA SameCardinality == \A S : Service!Cardinality(S) = Cardinality(S)
BY DEF Service!Cardinality, Cardinality

\* a request the service accepts: with a task it is pending, without one it is forgotten
LEMMA ServiceAccepts ==
  ASSUME TypeOK, DeliveryInv, CountInv, TypeOK', DeliveryInv',
         NEW p \in Ports, NEW n \in Nodes, Request(p, n)
  PROVE  \E r \in Requests, c \in Channels : Service!Accept(r, c)
<1> DEFINE ch == <<p, n>>
<1>1. PICK r \in Requests : r = Len(log) + 1
  BY RequestStep
<1>2. PICK x \in RequestRecords :
        /\ x.port = p /\ x.node = n
        /\ x.tid = tfrIds[ch] /\ x.place = issued[ch]
        /\ log' = Append(log, x)
        /\ Len(log) + 1 \in Requests
        /\ tasks' = IF x.added THEN tasks \cup {Len(log) + 1} ELSE tasks
  BY RequestStep
<1>3. /\ Issued' = Issued \cup {r}
      /\ \A s \in Issued : log'[s] = log[s]
      /\ log'[r] = x
  BY <1>1, <1>2, LogGrows
<1>4. r \notin Issued /\ Issued \subseteq Requests
  BY <1>1, IssuedAreRequests DEF Issued
<1>5. ch \in Channels /\ UNCHANGED <<callbacks, outcome>>
  BY DEF Request, Channels
<1>6. (\A s \in Issued : Channel(s)' = Channel(s)) /\ Channel(r)' = ch
  BY <1>2, <1>3 DEF Channel
<1>7. ShowsCases /\ ShowsCases'
  BY ShowsCasesHold, ShowsCasesNext
<1>8. tasks' = IF x.added THEN tasks \cup {r} ELSE tasks
  BY <1>1, <1>2
<1>9. ServiceStatus[r] = "idle"
  BY <1>4, <1>7 DEF ShowsCases
<1>10. /\ ServiceStatus'[r] \in {"pending", "forgotten"}
       /\ \A q \in Requests \ {r} : ServiceStatus'[q] = ServiceStatus[q]
  <2>1. ASSUME NEW q \in Requests \ {r}
        PROVE  ServiceStatus'[q] = ServiceStatus[q]
    <3>1. (q \in Issued' <=> q \in Issued) /\ (q \in tasks' <=> q \in tasks)
      BY <1>3, <1>8
    <3>2. callbacks'[q] = callbacks[q]
      BY <1>5
    <3> QED
      BY <3>1, <3>2 DEF ServiceStatus
  <2>2. callbacks[r] = 0
    BY <1>4 DEF DeliveryInv
  <2>3. ~(callbacks'[r] > 0) /\ r \in Issued'
    BY <1>3, <1>5, <2>2
  <2>4. ServiceStatus'[r] \in {"pending", "forgotten"}
    BY <1>7, <2>3 DEF ShowsCases
  <2> QED
    BY <2>1, <2>4
<1>11. /\ ServicePlace'[r] = [channel |-> ch, nth |-> issued[ch]]
       /\ \A q \in Requests \ {r} : ServicePlace'[q] = ServicePlace[q]
  <2>1. ASSUME NEW q \in Requests \ {r}
        PROVE  ServicePlace'[q] = ServicePlace[q]
    <3>1. CASE q \in Issued
      <4>1. q \in Issued' /\ Channel(q)' = Channel(q) /\ log'[q] = log[q]
        BY <1>3, <1>6, <3>1
      <4>2. ServicePlace[q] = [channel |-> Channel(q), nth |-> log[q].place]
        BY <3>1, <1>7 DEF ShowsCases
      <4>3. ServicePlace'[q] = [channel |-> Channel(q)', nth |-> log'[q].place]
        BY <4>1 DEF ServicePlace
      <4> QED
        BY <4>1, <4>2, <4>3
    <3>2. CASE q \notin Issued
      <4>1. q \notin Issued'
        BY <1>3, <3>2
      <4> QED
        BY <3>2, <4>1 DEF ServicePlace
    <3> QED
      BY <3>1, <3>2
  <2>2. ServicePlace'[r] = [channel |-> Channel(r)', nth |-> log'[r].place]
    BY <1>3 DEF ServicePlace
  <2>3. ServicePlace'[r] = [channel |-> ch, nth |-> issued[ch]]
    BY <1>2, <1>3, <1>6, <2>2
  <2> QED
    BY <2>1, <2>3
<1>12. issued[ch] = Cardinality({q \in Requests : ServiceStatus[q] # "idle" /\ ServicePlace[q].channel = ch})
  <2>1. ASSUME NEW q \in Requests
        PROVE  ServiceStatus[q] # "idle" /\ ServicePlace[q].channel = ch
               <=> q \in Issued /\ Channel(q) = ch
    <3>1. CASE q \in Issued
      <4>1. ServiceStatus[q] # "idle"
        BY <1>7, <3>1 DEF ShowsCases
      <4>2. ServicePlace[q].channel = Channel(q)
        BY <3>1 DEF ServicePlace
      <4> QED
        BY <3>1, <4>1, <4>2
    <3>2. CASE q \notin Issued
      BY <1>7, <3>2 DEF ShowsCases
    <3> QED
      BY <3>1, <3>2
  <2>2. {q \in Requests : ServiceStatus[q] # "idle" /\ ServicePlace[q].channel = ch} = OnChannel(ch)
    BY <1>4, <2>1 DEF OnChannel
  <2> QED
    BY <1>5, <2>2 DEF CountInv
<1>13. UNCHANGED ServiceResult
  BY <1>5 DEF ServiceResult
<1>14. \E s \in {"pending", "forgotten"} : ServiceStatus' = [ServiceStatus EXCEPT ![r] = s]
  BY <1>10, ShownFunctions, ShownFunctionsNext, Updated
<1>15. ServicePlace' = [ServicePlace EXCEPT ![r] = [channel |-> ch, nth |-> issued[ch]]]
  BY <1>11, ShownFunctions, ShownFunctionsNext, Updated
<1>16. ServicePlace' =
         [ServicePlace EXCEPT ![r] =
            [channel |-> ch,
             nth |-> Cardinality({q \in Requests : ServiceStatus[q] # "idle"
                                                 /\ ServicePlace[q].channel = ch})]]
  BY <1>12, <1>15, Zenon
<1>17. Service!Accept(r, ch)
  <2> HIDE DEF ch
  <2>1. \E s \in {"pending", "forgotten"} : ServiceStatus' = [ServiceStatus EXCEPT ![r] = s]
    BY <1>14
  <2> QED
    BY <1>9, <1>13, <2>1, <1>16, SameCardinality DEF Service!Accept
<1> QED
  BY <1>5, <1>17

\* a task that is finished: the service sees it done, by whom, and nothing else
LEMMA ServiceFinishes ==
  ASSUME TypeOK, DeliveryInv, TypeOK', DeliveryInv', UNCHANGED log,
         NEW r \in tasks, NEW c \in Codes, NEW q \in Issued \cup {None}, NEW by,
         Finish(r, [code |-> c, from |-> q]),
         IF q = None THEN c = "ETIMEDOUT" /\ by = Service!ByTimeout ELSE by = Service!ByAnswer(q)
  PROVE  r \in Requests /\ Service!Finish(r, by)
<1>1. Issued' = Issued /\ Issued \subseteq Requests /\ r \in Issued
  BY QuietType, IssuedAreRequests DEF TypeOK
<1>2. /\ callbacks' = [callbacks EXCEPT ![r] = callbacks[r] + 1]
      /\ outcome' = [outcome EXCEPT ![r] = [code |-> c, from |-> q]]
      /\ tasks' = tasks \ {r}
  BY DEF Finish
<1>3. outcome'[r] = [code |-> c, from |-> q] /\ callbacks'[r] > 0
  <2>1. callbacks[r] = 0
    BY <1>1 DEF DeliveryInv, CallbackExactlyOnce
  <2> QED
    BY <1>1, <1>2, <2>1 DEF TypeOK
<1>4. ShowsCases /\ ShowsCases'
  BY ShowsCasesHold, ShowsCasesNext
<1>5. ServiceStatus[r] = "pending" /\ ServiceStatus'[r] = "done"
  BY <1>1, <1>2, <1>3, <1>4 DEF ShowsCases
<1>6. ServiceResult'[r] = by
  <2>1. CASE q = None
    <3>1. outcome'[r] = Timeout'
      BY <1>3, <2>1 DEF Timeout
    <3> QED
      BY <1>1, <1>4, <2>1, <3>1 DEF ShowsCases
  <2>2. CASE q # None
    <3>1. outcome'[r].from = q
      BY <1>3
    <3> QED
      BY <1>1, <1>4, <2>2, <3>1 DEF ShowsCases, Service!ByAnswer
  <2> QED
    BY <2>1, <2>2
<1>7. ASSUME NEW s \in Requests \ {r}
      PROVE  ServiceStatus'[s] = ServiceStatus[s] /\ ServiceResult'[s] = ServiceResult[s]
  <2>1. callbacks'[s] = callbacks[s] /\ outcome'[s] = outcome[s] /\ (s \in tasks' <=> s \in tasks)
    BY <1>2 DEF TypeOK
  <2>2. s \in Issued' <=> s \in Issued
    BY <1>1
  <2> QED
    BY <2>1, <2>2 DEF ServiceStatus, ServiceResult
<1>8. UNCHANGED ServicePlace
  BY <1>1 DEF ServicePlace, Channel
<1>9. ServiceStatus' = [ServiceStatus EXCEPT ![r] = "done"]
  BY <1>1, <1>5, <1>7, ShownFunctions, ShownFunctionsNext, Updated
<1>10. ServiceResult' = [ServiceResult EXCEPT ![r] = by]
  BY <1>1, <1>6, <1>7, ShownFunctions, ShownFunctionsNext, Updated
<1> QED
  BY <1>1, <1>5, <1>8, <1>9, <1>10 DEF Service!Finish

\* every step of the engine is a step of the service or shows nothing
LEMMA ServiceStep ==
  TypeOK /\ DeliveryInv /\ PlaceInv /\ CountInv /\ TypeOK' /\ DeliveryInv' /\ [Next]_vars
  => [Service!Next]_(Service!vars)
<1> SUFFICES ASSUME TypeOK, DeliveryInv, PlaceInv, CountInv, TypeOK', DeliveryInv', [Next]_vars
             PROVE  Service!Next \/ UNCHANGED Service!vars
  OBVIOUS
<1>1. ASSUME NEW p \in Ports, NEW n \in Nodes, Request(p, n)
      PROVE  Service!Next
  BY <1>1, ServiceAccepts DEF Service!Next
<1>2. CASE HandleResponse
  <2> DEFINE q == Head(rxq)
  <2>1. q \in Issued /\ UNCHANGED log
    BY <1>2, ResponseCases
  <2>2. CASE UNCHANGED <<tasks, callbacks, outcome, buffer>>
    BY <2>1, <2>2, ServiceQuiet
  <2>3. CASE \E r \in Waiting(q), c \in Codes : Finish(r, [code |-> c, from |-> q])
    <3>1. PICK r \in Waiting(q), c \in Codes : Finish(r, [code |-> c, from |-> q])
      BY <2>3
    <3>2. r \in tasks /\ q # None /\ q \in Requests /\ r \in Issued
      <4>1. r \in tasks /\ r \in Issued
        BY <3>1 DEF Waiting, TypeOK
      <4>2. q \in Requests
        BY <2>1, IssuedAreRequests
      <4>3. 0 \notin Requests
        BY DEF Requests
      <4> QED
        BY <4>1, <4>2, <4>3 DEF None
    <3>3. r \in Requests /\ Service!Finish(r, Service!ByAnswer(q))
      BY <2>1, <3>1, <3>2, ServiceFinishes
    <3>4. Channel(q) = Channel(r) /\ (q = r \/ FarApart(q, r))
      BY <2>1, <3>1, MatchedAnswer
    <3>5. /\ ServicePlace[q] = [channel |-> Channel(q), nth |-> log[q].place]
          /\ ServicePlace[r] = [channel |-> Channel(r), nth |-> log[r].place]
      BY <2>1, <3>2, <3>3 DEF ServicePlace
    <3>6. Service!Matches(q, r)
      BY <3>4, <3>5 DEF Service!Matches, FarApart
    <3>7. ServiceStatus[q] # "idle"
      BY <2>1, <3>2, ShowsCasesHold DEF ShowsCases
    <3>8. Service!AnswerBy(q, r)
      BY <3>3, <3>6, <3>7 DEF Service!AnswerBy
    <3> QED
      BY <3>2, <3>3, <3>8 DEF Service!Next
  <2> QED
    BY <1>2, <2>2, <2>3, ResponseCases
<1>3. ASSUME NEW r \in Requests, HandleTimeout(r)
      PROVE  Service!Next
  <2>1. r \in tasks /\ Finish(r, [code |-> "ETIMEDOUT", from |-> None]) /\ UNCHANGED log
    BY <1>3 DEF HandleTimeout, TypeOK, Timeout
  <2>2. "ETIMEDOUT" \in Codes
    BY DEF Codes
  <2>3. Service!Finish(r, Service!ByTimeout)
    BY <2>1, <2>2, ServiceFinishes
  <2> QED
    BY <2>3 DEF Service!Next, Service!TimeOut
<1>4. CASE UNCHANGED <<log, tasks, callbacks, outcome>>
  BY <1>4, ServiceQuiet
<1>5. \/ \E p \in Ports, n \in Nodes : Request(p, n)
      \/ HandleResponse
      \/ \E r \in Requests : HandleTimeout(r)
      \/ UNCHANGED <<log, tasks, callbacks, outcome>>
  BY DEF Next, vars, Refuse, WaitForEvent, Wake, TickEnd, Answer, Lose, ExpireTimer
<1> QED
  BY <1>1, <1>2, <1>3, <1>4, <1>5

\* places follow transfer-IDs, and counts follow calls, in every reachable state
LEMMA PlaceCorrect == Spec => [](PlaceInv /\ CountInv)
<1>1. Init => PlaceInv /\ CountInv
  BY PlaceInit, CountInit
<1>2. TypeOK /\ DeliveryInv /\ (PlaceInv /\ CountInv) /\ [Next]_vars => (PlaceInv /\ CountInv)'
  BY PlaceStep, CountStep
<1> QED
  BY <1>1, <1>2, TypeCorrect, DeliveryCorrect, PTL DEF Spec

\* The engine implements RequestService: a request is accepted in its turn on its channel,
\* finished at most once, and by a timeout or by an answer the width of the transfer-ID allows,
\* whatever the task list, the queues, the duplicate filter and the bus do in between.  That a
\* pending request is finished at all needs the fairness of FairSpec and is left to TLC
THEOREM ServiceIsImplemented == Spec => Service!Init /\ [][Service!Next]_(Service!vars)
<1>1. Init => Service!Init
  BY ServiceInit
<1>2. TypeOK /\ DeliveryInv /\ PlaceInv /\ CountInv /\ TypeOK' /\ DeliveryInv' /\ [Next]_vars
      => [Service!Next]_(Service!vars)
  BY ServiceStep
<1> QED
  BY <1>1, <1>2, TypeCorrect, DeliveryCorrect, PlaceCorrect, PTL DEF Spec

=============================================================================
