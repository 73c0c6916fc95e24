-------------------------- MODULE ConfigureFanout ---------------------------
(***************************************************************************)
(* wlmio_vpe6060_configure and wlmio_vpe6080_configure                     *)
(* (src/src/libwlmio/io.c): one call of the application becomes three      *)
(* register writes, whose callbacks share one heap record that counts them *)
(* and keeps the first error; the last one calls the application back and  *)
(* frees the record.  The answers to the three writes come in any order.   *)
(*                                                                         *)
(* Records are named by address and addresses are used again: a write that *)
(* outlives its operation would count into the record of another one.      *)
(*                                                                         *)
(* A definition marked "fault" is a slip a change of the code could make,  *)
(* placed before the one it would replace and used by no other.            *)
(***************************************************************************)
EXTENDS Integers, Sequences, FiniteSets

CONSTANTS
  Ops,     \* configure calls of a behaviour
  Cells,   \* bound: records malloc can hand out
  MayFail  \* may async_add fail for want of memory or descriptors

ASSUME OpsAssumption == IsFiniteSet(Ops)
ASSUME MayFailAssumption == MayFail \in BOOLEAN

VARIABLES
  state,    \* state[o]: "idle", "first", "second", "third": the write o issues next; "done"
  t,        \* t[o]: the record of o, or NoCell
  heap,     \* heap[c]: the record at c, or Free
  writes,   \* writes whose callback is still to come: [op, nth, cell]
  results,  \* history: the results of the writes of o, in the order they came
  told      \* history: what the callback of o was told, in order

vars == <<state, t, heap, writes, results, told>>

NoCell == 0
Free == [counter |-> -1, cancelled |-> -1, r |-> "free", op |-> 0]

Errors == {"ETIMEDOUT", "ENOENT"}
Results == Errors \cup {"0"}

FreeCells == {c \in Cells : heap[c] = Free}

-----------------------------------------------------------------------------
(***************************************************************************)
(* The call.  Its three wlmio_register_access calls differ in the register *)
(* and the value only, which are valid by then, so all of them are refused *)
(* (-EINVAL for the node-ID) or none is: the branches that add to          *)
(* cancelled are never taken.  The three writes are steps apart            *)
(* because each is an effect of its own; no callback runs between them.    *)
(***************************************************************************)
Busy == \E o \in Ops : state[o] \in {"second", "third"}

\* the application names node 127: the first write is refused, the record freed
ConfigureRefused(o) ==
  /\ ~Busy
  /\ state[o] = "idle"
  /\ FreeCells # {}
  /\ state' = [state EXCEPT ![o] = "done"]
  /\ UNCHANGED <<t, heap, writes, results, told>>

\* async_add failed: register_access returns 0 and this write never calls back
Issue(o, n, c) ==
  \/ writes' = writes \cup {[op |-> o, nth |-> n, cell |-> c]}
  \/ MayFail /\ UNCHANGED writes

FirstWrite(o) ==
  /\ ~Busy
  /\ state[o] = "idle"
  /\ \E c \in FreeCells :
       /\ heap' = [heap EXCEPT ![c] = [counter |-> 0, cancelled |-> 0, r |-> "0", op |-> o]]
       /\ t' = [t EXCEPT ![o] = c]
       /\ Issue(o, 1, c)
  /\ state' = [state EXCEPT ![o] = "second"]
  /\ UNCHANGED <<results, told>>

SecondWrite(o) ==
  /\ state[o] = "second"
  /\ Issue(o, 2, t[o])
  /\ state' = [state EXCEPT ![o] = "third"]
  /\ UNCHANGED <<t, heap, results, told>>

ThirdWrite(o) ==
  /\ state[o] = "third"
  /\ Issue(o, 3, t[o])
  /\ state' = [state EXCEPT ![o] = "done"]
  /\ UNCHANGED <<t, heap, results, told>>

-----------------------------------------------------------------------------
(***************************************************************************)
(* vpe6060_configure_callback and vpe6080_configure_callback: the answer   *)
(* or the timeout of one write, in the next tick.                          *)
(***************************************************************************)

\* fault: the last error is kept instead of the first
CountedLastError(record, r) ==
  [record EXCEPT !.counter = @ + 1, !.r = IF r \in Errors THEN r ELSE @]

Counted(record, r) ==
  [record EXCEPT !.counter = @ + 1,
                 !.r = IF r \in Errors /\ @ = "0" THEN r ELSE @]

\* faults: one write too early, one too late
AllInEarly(record) == record.counter + record.cancelled >= 2
AllInLate(record) == record.counter + record.cancelled > 3

AllIn(record) == record.counter + record.cancelled >= 3

ConfigureCallback(w, r) ==
  LET record == Counted(heap[w.cell], r) IN
  /\ ~Busy
  /\ w \in writes
  /\ heap[w.cell] # Free
  /\ writes' = writes \ {w}
  /\ results' = [results EXCEPT ![w.op] = Append(@, r)]
  /\ IF AllIn(record)
     THEN /\ told' = [told EXCEPT ![record.op] = Append(@, record.r)]
          /\ heap' = [heap EXCEPT ![w.cell] = Free]
     ELSE /\ heap' = [heap EXCEPT ![w.cell] = record]
          /\ UNCHANGED told
  /\ UNCHANGED <<state, t>>

Init ==
  /\ state = [o \in Ops |-> "idle"]
  /\ t = [o \in Ops |-> NoCell]
  /\ heap = [c \in Cells |-> Free]
  /\ writes = {}
  /\ results = [o \in Ops |-> <<>>]
  /\ told = [o \in Ops |-> <<>>]

Next ==
  \/ \E o \in Ops : ConfigureRefused(o) \/ FirstWrite(o) \/ SecondWrite(o) \/ ThirdWrite(o)
  \/ \E w \in writes, r \in Results : ConfigureCallback(w, r)

\* the call runs to its end, and every registered write is answered or times out: the
\* conclusion of EveryRequestCompletes in AsyncRequests
Fairness ==
  /\ \A o \in Ops : WF_vars(SecondWrite(o)) /\ WF_vars(ThirdWrite(o))
  /\ WF_vars(\E w \in writes, r \in Results : ConfigureCallback(w, r))

Spec == Init /\ [][Next]_vars
FairSpec == Spec /\ Fairness

-----------------------------------------------------------------------------
\* A write that is under way finds the record of its own operation: the record is freed only
\* when no callback that points to it is to come
RecordOutlivesWrites == \A w \in writes : heap[w.cell] # Free /\ heap[w.cell].op = w.op

\* The application is called back at most once, after all three writes, and is told of success
\* exactly when all three succeeded, otherwise of the error that came first
ToldOnceOfFirstError ==
  \A o \in Ops : told[o] # <<>> =>
    /\ Len(results[o]) = 3
    /\ told[o] = <<IF \E i \in 1..3 : results[o][i] \in Errors
                   THEN results[o][CHOOSE i \in 1..3 :
                          results[o][i] \in Errors /\ \A j \in 1..i-1 : results[o][j] = "0"]
                   ELSE "0">>

\* the writes of o that async_add registered: the ones under way and the ones that called back
Registered(o) == Cardinality({w \in writes : w.op = o}) + Len(results[o])

\* When every write was registered, the application is called back and the record is freed
EveryConfigureCompletes ==
  \A o \in Ops : (state[o] = "done" /\ Registered(o) = 3) ~> (told[o] # <<>> /\ heap[t[o]].op # o)
=============================================================================
