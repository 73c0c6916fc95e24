--------------------------- MODULE RequestService ---------------------------
(***************************************************************************)
(* What the asynchronous request functions of libwlmio promise, without    *)
(* the task list, the queues and the event loop: a request is accepted,    *)
(* then finished exactly once, by a timeout or by an answer, and which     *)
(* answers may finish it is limited by the width of the transfer-ID.       *)
(***************************************************************************)
EXTENDS Integers, FiniteSets

CONSTANTS
  Requests,  \* the requests of a behaviour
  Channels,  \* where a request can go: a service of a node
  Window     \* number of transfer-IDs

VARIABLES
  status,  \* "idle", "pending", "done", or "forgotten": accepted without a task to finish it
  place,   \* channel of a request and its place on it
  result   \* who finished the request: a timeout or the answer to a request

vars == <<status, place, result>>

Nobody    == [by |-> "nobody", request |-> 0]
ByTimeout == [by |-> "timeout", request |-> 0]
ByAnswer(q) == [by |-> "answer", request |-> q]

NoPlace == [channel |-> <<0, 0>>, nth |-> 0]

Matches(q, r) ==
  /\ place[q].channel = place[r].channel
  /\ \/ q = r
     \/ place[q].nth >= place[r].nth + Window
     \/ place[r].nth >= place[q].nth + Window

\* a request takes the next place of a channel; without memory or descriptors it is forgotten
Accept(r, c) ==
  /\ status[r] = "idle"
  /\ \E s \in {"pending", "forgotten"} : status' = [status EXCEPT ![r] = s]
  /\ place' = [place EXCEPT ![r] =
       [channel |-> c,
        nth |-> Cardinality({q \in Requests : status[q] # "idle" /\ place[q].channel = c})]]
  /\ UNCHANGED result

Finish(r, by) ==
  /\ status[r] = "pending"
  /\ status' = [status EXCEPT ![r] = "done"]
  /\ result' = [result EXCEPT ![r] = by]
  /\ UNCHANGED place

TimeOut(r) == Finish(r, ByTimeout)

AnswerBy(q, r) ==
  /\ status[q] # "idle"
  /\ Matches(q, r)
  /\ Finish(r, ByAnswer(q))

Init ==
  /\ status = [r \in Requests |-> "idle"]
  /\ place = [r \in Requests |-> NoPlace]
  /\ result = [r \in Requests |-> Nobody]

Next ==
  \/ \E r \in Requests : TimeOut(r) \/ \E c \in Channels : Accept(r, c)
  \/ \E q, r \in Requests : AnswerBy(q, r)

\* every pending request is finished
Fairness == \A r \in Requests : WF_vars(TimeOut(r) \/ \E q \in Requests : AnswerBy(q, r))

Spec == Init /\ [][Next]_vars /\ Fairness
=============================================================================
