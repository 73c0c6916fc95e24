--------------------------- MODULE ChannelIoProofs --------------------------
(***************************************************************************)
(* Theorems about ChannelIo, for any calls, nodes, channels, register      *)
(* contents and shapes of registers: the heap records, the caller's        *)
(* variable after an error, and after a success.                           *)
(*                                                                         *)
(* The last one leaves vpe6060_read out, whose callback copies half of the *)
(* register (Copied).                                                      *)
(***************************************************************************)
EXTENDS ChannelIo, TLAPS

Domains ==
  /\ DOMAIN calls = Calls
  /\ DOMAIN var = Calls
  /\ DOMAIN told = Calls
  /\ DOMAIN got = Calls

\* what is on its way belongs to a call that was made
Addressed == \A m \in inflight : m.call \in Calls /\ calls[m.call].fn \in Functions

Untouched(c) ==
  var[c] = IF calls[c].fn \in Readers THEN [i \in 1..VarWords(calls[c].fn) |-> Old] ELSE <<>>

Filled(c) ==
  /\ got[c].type = ReadType(calls[c].fn)
  /\ var[c] = [i \in 1..VarWords(calls[c].fn) |-> got[c].sample]

\* the caller's variable is as it was made until its callback says success
Variable(c) ==
  /\ told[c] # "0" => Untouched(c)
  /\ told[c] = "0" /\ calls[c].fn \in Readers \ {"vpe6060_read"} => Filled(c)

ChannelInv ==
  /\ Domains
  /\ Addressed
  /\ \A c \in Calls : calls[c] = NoCall \/ calls[c].fn \in Functions
  /\ \A c \in Calls : Variable(c)
  /\ RecordPerCall

-----------------------------------------------------------------------------
\* before the first call there are no records, and the variables do not exist
LEMMA ChannelInit == Init => ChannelInv
<1> SUFFICES ASSUME Init PROVE ChannelInv
  OBVIOUS
<1>1. "none" \notin Readers /\ ~Recorded("none")
  BY DEF Readers, Recorded, Setters
<1>2. Domains /\ Addressed
  BY DEF Init, Domains, Addressed
<1>3. \A c \in Calls : Variable(c)
  BY <1>1 DEF Init, Variable, Untouched, NoCall, Nothing
<1>4. RecordPerCall
  BY <1>1 DEF Init, RecordPerCall, NoCall
<1> QED
  BY <1>2, <1>3, <1>4 DEF Init, ChannelInv

\* the words a read copies are the words of the variable, but for one function
LEMMA CopyFills ==
  ASSUME NEW fn \in Readers \ {"vpe6060_read"}, NEW s
  PROVE  Copy([i \in 1..VarWords(fn) |-> Old], fn, s) = [i \in 1..VarWords(fn) |-> s]
<1>1. Copied(fn) = VarWords(fn)
  BY DEF Copied, VarWords, Readers
<1>2. VarWords(fn) \in Nat
  BY DEF VarWords, Readers
<1> DEFINE n == VarWords(fn)
<1>3. n \in Nat /\ Copied(fn) = n
  BY <1>1, <1>2
<1> HIDE DEF n
<1>4. Copy([i \in 1..n |-> Old], fn, s) = [i \in 1..n |-> s]
  BY <1>3 DEF Copy
<1> QED
  BY <1>4 DEF n

\* a call that a step leaves alone keeps its variable
LEMMA VariableStays ==
  ASSUME ChannelInv, NEW c \in Calls,
         calls'[c] = calls[c], var'[c] = var[c], got'[c] = got[c], told'[c] = told[c]
  PROVE  Variable(c)'
BY DEF ChannelInv, Variable, Untouched, Filled

\* a call that is refused never had a record; the others have one from then on
LEMMA CallStep ==
  ASSUME ChannelInv, NEW c \in Calls, NEW fn \in Functions, NEW n \in Nodes, NEW ch \in Channels,
         NEW v, Call(c, fn, n, ch, v)
  PROVE  ChannelInv'
<1>1. calls[c] = NoCall /\ told[c] = Nothing
  BY DEF Call
<1>2. calls[c].fn = "none" /\ "none" \notin Readers /\ ~Recorded("none")
  BY <1>1 DEF NoCall, Readers, Recorded, Setters
<1>3. CASE Refuse(c, fn, n, ch, v)
  <2>1. told' = [told EXCEPT ![c] = "EINVAL"] /\ UNCHANGED <<calls, inflight, records, var, got>>
    BY <1>3 DEF Refuse
  <2>2. Domains' /\ Addressed'
    BY <2>1 DEF ChannelInv, Domains, Addressed
  <2>3. told'[c] = "EINVAL" /\ \A d \in Calls \ {c} : told'[d] = told[d]
    BY <2>1 DEF ChannelInv, Domains
  <2>4. \A d \in Calls : Variable(d)'
    <3>1. Variable(c)'
      BY <1>1, <2>1, <2>3 DEF ChannelInv, Variable, Untouched, Nothing
    <3>2. \A d \in Calls \ {c} : Variable(d)'
      BY <2>1, <2>3, VariableStays
    <3> QED
      BY <3>1, <3>2
  <2>5. RecordPerCall'
    <3>1. \A d \in Calls : (Recorded(calls[d].fn) /\ told[d] = Nothing)
                             <=> (Recorded(calls'[d].fn) /\ told'[d] = Nothing)
      BY <1>1, <1>2, <2>1, <2>3
    <3> QED
      BY <2>1, <3>1 DEF ChannelInv, RecordPerCall
  <2> QED
    BY <2>1, <2>2, <2>4, <2>5 DEF ChannelInv
<1>4. CASE Access(c, fn, n, ch, v)
  <2> DEFINE made == [fn |-> fn, node |-> n, reg |-> Register(fn, ch), value |-> Written(fn, v)]
  <2>1. /\ calls' = [calls EXCEPT ![c] = made]
        /\ records' = IF Recorded(fn) THEN records \cup {c} ELSE records
        /\ var' = [var EXCEPT ![c] = IF fn \in Readers THEN [i \in 1..VarWords(fn) |-> Old] ELSE <<>>]
        /\ inflight' = inflight \cup {[call |-> c, answer |-> NoAnswer]}
        /\ UNCHANGED <<told, got>>
    BY <1>4 DEF Access
  <2>2. made.fn = fn
    OBVIOUS
  <2> HIDE DEF made
  <2>3. /\ calls'[c] = made /\ \A d \in Calls \ {c} : calls'[d] = calls[d]
        /\ var'[c] = IF fn \in Readers THEN [i \in 1..VarWords(fn) |-> Old] ELSE <<>>
        /\ \A d \in Calls \ {c} : var'[d] = var[d]
    BY <2>1 DEF ChannelInv, Domains
  <2>4. Domains'
    BY <2>1 DEF ChannelInv, Domains
  <2>5. Addressed'
    BY <2>1, <2>2, <2>3 DEF ChannelInv, Addressed
  <2>6. \A d \in Calls : Variable(d)'
    <3>1. Variable(c)'
      BY <1>1, <2>1, <2>2, <2>3 DEF Variable, Untouched, Nothing
    <3>2. \A d \in Calls \ {c} : Variable(d)'
      BY <2>1, <2>3, VariableStays
    <3> QED
      BY <3>1, <3>2
  <2>7. RecordPerCall'
    <3>1. records = {d \in Calls : Recorded(calls[d].fn) /\ told[d] = Nothing}
      BY DEF ChannelInv, RecordPerCall
    <3>2. \A d \in Calls \ {c} : d \in records' <=> Recorded(calls'[d].fn) /\ told'[d] = Nothing
      BY <2>1, <2>3, <3>1
    <3>3. c \in records' <=> Recorded(calls'[c].fn) /\ told'[c] = Nothing
      BY <1>1, <1>2, <2>1, <2>2, <2>3, <3>1
    <3>4. records' \subseteq Calls
      BY <2>1, <3>1
    <3> QED
      BY <3>2, <3>3, <3>4 DEF RecordPerCall
  <2>8. \A d \in Calls : calls'[d] = NoCall \/ calls'[d].fn \in Functions
    BY <2>2, <2>3 DEF ChannelInv
  <2> QED
    BY <2>4, <2>5, <2>6, <2>7, <2>8 DEF ChannelInv
<1> QED
  BY <1>3, <1>4 DEF Call

\* the node touches no memory of the caller
LEMMA NodeStep ==
  ASSUME ChannelInv, (\E m \in inflight : Serve(m)) \/ (\E at \in Registers : Sample(at))
  PROVE  ChannelInv'
<1>1. UNCHANGED <<calls, records, var, told, got>>
  BY DEF Serve, Sample
<1>2. Addressed'
  <2>1. CASE \E m \in inflight : Serve(m)
    <3>1. PICK m \in inflight : Serve(m)
      BY <2>1
    <3>2. PICK answered : /\ inflight' = (inflight \ {m}) \cup {[m EXCEPT !.answer = answered]}
                          /\ UNCHANGED calls
      BY <3>1 DEF Serve
    <3>3. [m EXCEPT !.answer = answered].call = m.call
      OBVIOUS
    <3> QED
      BY <3>2, <3>3 DEF ChannelInv, Addressed
  <2>2. CASE \E at \in Registers : Sample(at)
    BY <2>2 DEF Sample, ChannelInv, Addressed
  <2> QED
    BY <2>1, <2>2
<1> QED
  BY <1>1, <1>2 DEF ChannelInv, Domains, Variable, Untouched, Filled, RecordPerCall

\* telling the caller takes its record away, and no other
LEMMA TellFrees ==
  ASSUME ChannelInv, NEW c \in Calls, NEW result, result # Nothing,
         Tell(c, result), UNCHANGED calls
  PROVE  /\ RecordPerCall'
         /\ DOMAIN told' = Calls
         /\ told'[c] = result
         /\ \A d \in Calls \ {c} : told'[d] = told[d]
<1>1. told' = [told EXCEPT ![c] = result] /\ records' = records \ {c}
  BY DEF Tell
<1>2. told'[c] = result /\ DOMAIN told' = Calls /\ \A d \in Calls \ {c} : told'[d] = told[d]
  BY <1>1 DEF ChannelInv, Domains
<1>3. RecordPerCall'
  BY <1>1, <1>2 DEF ChannelInv, RecordPerCall
<1> QED
  BY <1>2, <1>3

\* an answer is converted for a caller that still waits
LEMMA CompleteStep ==
  ASSUME ChannelInv, NEW m \in inflight, Complete(m)
  PROVE  ChannelInv'
<1> DEFINE c == m.call
           a == m.answer
<1>1. c \in Calls /\ calls[c].fn \in Functions
  BY DEF ChannelInv, Addressed
<1>2. inflight' = inflight \ {m} /\ UNCHANGED calls
  BY DEF Complete
<1>3. Addressed'
  BY <1>2 DEF ChannelInv, Addressed
<1>4. CASE told[c] # Nothing
  BY <1>2, <1>3, <1>4 DEF Complete, ChannelInv, Domains, Variable, Untouched, Filled, RecordPerCall
<1>5. CASE told[c] = Nothing
  <2>1. got' = [got EXCEPT ![c] = a]
    BY <1>5 DEF Complete
  <2>2. got'[c] = a /\ DOMAIN got' = Calls /\ \A d \in Calls \ {c} : got'[d] = got[d]
    BY <1>1, <2>1 DEF ChannelInv, Domains
  <2>3. Untouched(c)
    BY <1>1, <1>5 DEF ChannelInv, Variable, Nothing
  <2>4. ASSUME NEW result, result \notin {Nothing, "0"}, Tell(c, result), UNCHANGED var
        PROVE  ChannelInv'
    <3>1. RecordPerCall' /\ DOMAIN told' = Calls /\ told'[c] = result
          /\ \A d \in Calls \ {c} : told'[d] = told[d]
      BY <1>1, <1>2, <2>4, TellFrees
    <3>2. Variable(c)'
      BY <1>2, <2>3, <2>4, <3>1 DEF Variable, Untouched
    <3>3. \A d \in Calls \ {c} : Variable(d)'
      BY <1>2, <2>2, <2>4, <3>1, VariableStays
    <3> QED
      BY <1>1, <1>2, <1>3, <2>2, <2>4, <3>1, <3>2, <3>3 DEF ChannelInv, Domains
  <2>5. ASSUME calls[c].fn \notin Readers, Tell(c, "0"), UNCHANGED var
        PROVE  ChannelInv'
    <3>1. RecordPerCall' /\ DOMAIN told' = Calls /\ told'[c] = "0"
          /\ \A d \in Calls \ {c} : told'[d] = told[d]
      BY <1>1, <1>2, <2>5, TellFrees DEF Nothing
    <3>2. Variable(c)'
      BY <1>2, <2>5, <3>1 DEF Variable
    <3>3. \A d \in Calls \ {c} : Variable(d)'
      BY <1>2, <2>2, <2>5, <3>1, VariableStays
    <3> QED
      BY <1>1, <1>2, <1>3, <2>2, <2>5, <3>1, <3>2, <3>3 DEF ChannelInv, Domains
  <2>6. CASE a.type = "empty"
    BY <1>5, <2>4, <2>6 DEF Complete, Nothing
  <2>7. CASE a.type # "empty" /\ ReadCallback(c, a)
    <3>1. CASE ~FitsRead(calls[c].fn, a)
      BY <2>4, <2>7, <3>1 DEF ReadCallback, Nothing
    <3>2. CASE FitsRead(calls[c].fn, a)
      <4>1. /\ Tell(c, "0")
            /\ var' = [var EXCEPT ![c] = Copy(@, calls[c].fn, a.sample)]
            /\ calls[c].fn \in Readers
        BY <2>7, <3>2 DEF ReadCallback
      <4>2. /\ var'[c] = Copy(var[c], calls[c].fn, a.sample)
            /\ DOMAIN var' = Calls
            /\ \A d \in Calls \ {c} : var'[d] = var[d]
        BY <1>1, <4>1 DEF ChannelInv, Domains
      <4>3. RecordPerCall' /\ DOMAIN told' = Calls /\ told'[c] = "0"
            /\ \A d \in Calls \ {c} : told'[d] = told[d]
        BY <1>1, <1>2, <4>1, TellFrees DEF Nothing
      <4>4. Variable(c)'
        <5> SUFFICES ASSUME calls[c].fn # "vpe6060_read" PROVE Filled(c)'
          BY <1>2, <4>3 DEF Variable
        <5>1. var[c] = [i \in 1..VarWords(calls[c].fn) |-> Old]
          BY <2>3, <4>1 DEF Untouched
        <5> DEFINE fn == calls[c].fn
        <5>2. fn \in Readers \ {"vpe6060_read"} /\ var'[c] = Copy([i \in 1..VarWords(fn) |-> Old], fn, a.sample)
          BY <4>1, <4>2, <5>1
        <5> HIDE DEF fn
        <5>3. var'[c] = [i \in 1..VarWords(fn) |-> a.sample]
          BY <5>2, CopyFills
        <5> QED
          BY <1>2, <2>2, <3>2, <5>3 DEF Filled, FitsRead, fn
      <4>5. \A d \in Calls \ {c} : Variable(d)'
        BY <1>2, <2>2, <4>2, <4>3, VariableStays
      <4> QED
        BY <1>1, <1>2, <1>3, <2>2, <4>2, <4>3, <4>4, <4>5 DEF ChannelInv, Domains
    <3> QED
      BY <3>1, <3>2
  <2>8. CASE a.type # "empty" /\ SetIntervalCallback(c, a)
    <3>1. PICK result \in {"0", "ENOTSUP", "EBADE"} : Tell(c, result) /\ UNCHANGED var
      BY <2>8 DEF SetIntervalCallback
    <3>2. calls[c].fn \notin Readers
      BY <2>8 DEF SetIntervalCallback, Setters, Readers
    <3> QED
      BY <2>4, <2>5, <3>1, <3>2 DEF Nothing
  <2>9. CASE a.type # "empty" /\ WriteCallback(c)
    <3>1. calls[c].fn \notin Readers
      BY <2>9 DEF WriteCallback, Writers, Readers
    <3> QED
      BY <2>5, <2>9, <3>1 DEF WriteCallback
  <2> QED
    BY <1>5, <2>6, <2>7, <2>8, <2>9 DEF Complete
<1> QED
  BY <1>4, <1>5

\* a timeout frees the record and leaves the variable alone
LEMMA TimeOutStep ==
  ASSUME ChannelInv, NEW c \in Calls, TimeOut(c)
  PROVE  ChannelInv'
<1>1. told[c] = Nothing /\ Tell(c, "ETIMEDOUT") /\ UNCHANGED <<calls, inflight, var, got>>
  BY DEF TimeOut
<1>2. RecordPerCall' /\ DOMAIN told' = Calls /\ told'[c] = "ETIMEDOUT"
      /\ \A d \in Calls \ {c} : told'[d] = told[d]
  BY <1>1, TellFrees DEF Nothing
<1>3. Variable(c)'
  BY <1>1, <1>2 DEF ChannelInv, Variable, Untouched, Nothing
<1>4. \A d \in Calls \ {c} : Variable(d)'
  BY <1>1, <1>2, VariableStays
<1> QED
  BY <1>1, <1>2, <1>3, <1>4 DEF ChannelInv, Domains, Addressed

\* every step of the specification keeps the invariant
LEMMA ChannelStep == ChannelInv /\ [Next]_vars => ChannelInv'
<1> SUFFICES ASSUME ChannelInv, [Next]_vars PROVE ChannelInv'
  OBVIOUS
<1>1. CASE UNCHANGED vars
  BY <1>1 DEF vars, ChannelInv, Domains, Addressed, Variable, Untouched, Filled, RecordPerCall
<1> QED
  BY <1>1, CallStep, NodeStep, CompleteStep, TimeOutStep DEF Next

-----------------------------------------------------------------------------
\* The heap holds one record for every read under way and none besides: no way out of any
\* function of io.c that makes one register access leaks its record or frees it twice, whatever
\* is refused, answered, late or timed out, and however the calls overlap.
THEOREM RecordsAreFreed == Spec => []RecordPerCall
<1>1. ChannelInv => RecordPerCall
  BY DEF ChannelInv
<1> QED
  BY ChannelInit, ChannelStep, <1>1, PTL DEF Spec

\* A call that fails or is not over has not written to the caller's variable.
THEOREM FailuresWriteNothing == Spec => []ErrorsWriteNothing
<1>1. ChannelInv => ErrorsWriteNothing
  <2> SUFFICES ASSUME ChannelInv, NEW c \in Calls, told[c] # "0", NEW i \in DOMAIN var[c]
               PROVE  var[c][i] = Old
    BY DEF ErrorsWriteNothing
  <2>1. Untouched(c)
    BY DEF ChannelInv, Variable
  <2>2. CASE calls[c].fn \in Readers
    BY <2>1, <2>2 DEF Untouched
  <2>3. CASE calls[c].fn \notin Readers
    <3>1. var[c] = <<>>
      BY <2>1, <2>3 DEF Untouched
    <3> QED
      BY <3>1
  <2> QED
    BY <2>2, <2>3
<1> QED
  BY ChannelInit, ChannelStep, <1>1, PTL DEF Spec

\* A read that succeeds leaves one answer of the node, of the right type, in all of the caller's
\* variable. vpe6060_read does not, and is left out.
THEOREM ReadsAreWhole ==
  ASSUME "vpe6060_read" \notin Functions
  PROVE  Spec => []ReadWhole
<1>1. "none" \notin Readers
  BY DEF Readers
<1>2. ChannelInv => ReadWhole
  BY <1>1 DEF ChannelInv, Variable, Filled, ReadWhole, NoCall
<1> QED
  BY ChannelInit, ChannelStep, <1>2, PTL DEF Spec
=============================================================================
