------------------------------ MODULE PyFuture ------------------------------
(***************************************************************************)
(* The four request wrappers of src/src/pywlmio/wlmio.c: a coroutine       *)
(* awaits a future that it handed to the wrapper; the wrapper starts a     *)
(* request whose callback, in a later tick, schedules set_result.  Whoever *)
(* keeps the future must own a reference to it: the caller while the       *)
(* wrapper runs, the request, the handle of call_soon, the coroutine.  The *)
(* coroutine may be cancelled at any time, which the request does not      *)
(* learn.                                                                  *)
(*                                                                         *)
(* The library calls a registered request back once (AsyncRequests); the   *)
(* references that asyncio takes and drops itself are balanced and appear  *)
(* as one for the coroutine and one for the handle.                        *)
(*                                                                         *)
(* A definition marked "fault" is a slip a change of the code could make,  *)
(* placed before the one it would replace and used by no other.            *)
(***************************************************************************)
EXTENDS Integers, FiniteSets

CONSTANTS
  Futures,   \* the futures of a behaviour, one for each call
  Functions  \* the wrappers called

Wrappers == {"get_node_info", "register_access", "register_list", "execute_command"}

ASSUME FunctionsAssumption == Functions \subseteq Wrappers

VARIABLES
  fn,       \* fn[f]: the wrapper f was given to, "none" before
  refs,     \* refs[f]: the reference count of f
  holders,  \* holders[f]: who keeps f: "request", "handle", "coroutine"
  params,   \* heap: the parameter blocks of requests
  state,    \* state[f]: "pending", "result" or "cancelled"
  result,   \* result[f]: what the handle or the future holds: "none", "None" or "value"
  noneRefs  \* noneRefs[f]: references to Py_None taken for the result of f and not dropped

vars == <<fn, refs, holders, params, state, result, noneRefs>>

-----------------------------------------------------------------------------
\* node 127 is refused by wlmio_register_access; the package passes no node-ID the others refuse
MayRefuse(w) == w = "register_access"

HasParam(w) == w # "execute_command"

\* the references a wrapper takes for its request and for the caller it returns the future to
\* fault: one for both
IncrefsOnce(w) == 1
Increfs(w) == IF w = "register_access" THEN 1 ELSE 2

\* the references the callback takes of Py_None before the result takes it over
NoneTaken(w) == IF w = "register_access" THEN 0 ELSE 1

\* the wrapper; the reference of its caller's argument is dropped when it returns
Call(f, w) ==
  /\ fn[f] = "none"
  /\ fn' = [fn EXCEPT ![f] = w]
  /\ refs' = [refs EXCEPT ![f] = Increfs(w)]
  /\ holders' = [holders EXCEPT ![f] = {"request", "coroutine"}]
  /\ params' = IF HasParam(w) THEN params \cup {f} ELSE params
  /\ state' = [state EXCEPT ![f] = "pending"]
  /\ UNCHANGED <<result, noneRefs>>

\* the call raises, the future dies with the caller's argument
Refuse(f, w) ==
  /\ fn[f] = "none"
  /\ MayRefuse(w)
  /\ fn' = [fn EXCEPT ![f] = w]
  /\ UNCHANGED <<refs, holders, params, state, result, noneRefs>>

-----------------------------------------------------------------------------
(***************************************************************************)
(* The callback, in a tick.                                                *)
(***************************************************************************)
\* call_soon keeps the bound method set_result, and with it the future, and the result
\* fault: a check that the future still waits, the wrong way round
CallSoonIfPending(f) == IF state[f] = "pending" THEN {} ELSE {"handle"}
CallSoon(f) == {"handle"}

Callback(f, ok) ==
  /\ "request" \in holders[f]
  /\ holders' = [holders EXCEPT ![f] = (@ \ {"request"}) \cup CallSoon(f)]
  /\ refs' = [refs EXCEPT ![f] = @ + Cardinality(CallSoon(f)) - 1]
  /\ result' = [result EXCEPT ![f] = IF ok THEN "value" ELSE "None"]
  /\ noneRefs' = [noneRefs EXCEPT ![f] = IF ok THEN @ ELSE @ + NoneTaken(fn[f])]
  /\ params' = params \ {f}
  /\ UNCHANGED <<fn, state>>

-----------------------------------------------------------------------------
(***************************************************************************)
(* asyncio.                                                                *)
(***************************************************************************)
\* the result is destroyed with the last thing that holds it
Drop(f) ==
  /\ result' = [result EXCEPT ![f] = "none"]
  /\ noneRefs' = [noneRefs EXCEPT ![f] = IF result[f] = "None" THEN @ - 1 ELSE @]

\* set_result runs, and raises if the future was cancelled meanwhile
RunHandle(f) ==
  /\ "handle" \in holders[f]
  /\ holders' = [holders EXCEPT ![f] = @ \ {"handle"}]
  /\ refs' = [refs EXCEPT ![f] = @ - 1]
  /\ \/ /\ state[f] = "pending"
        /\ state' = [state EXCEPT ![f] = "result"]
        /\ UNCHANGED <<result, noneRefs>>
     \/ state[f] = "cancelled" /\ Drop(f) /\ UNCHANGED state
  /\ UNCHANGED <<fn, params>>

\* the coroutine takes the result and forgets the future
Resume(f) ==
  /\ state[f] = "result"
  /\ "coroutine" \in holders[f]
  /\ holders' = [holders EXCEPT ![f] = @ \ {"coroutine"}]
  /\ refs' = [refs EXCEPT ![f] = @ - 1]
  /\ Drop(f)
  /\ UNCHANGED <<fn, params, state>>

Cancel(f) ==
  /\ state[f] = "pending"
  /\ "coroutine" \in holders[f]
  /\ state' = [state EXCEPT ![f] = "cancelled"]
  /\ holders' = [holders EXCEPT ![f] = @ \ {"coroutine"}]
  /\ refs' = [refs EXCEPT ![f] = @ - 1]
  /\ UNCHANGED <<fn, params, result, noneRefs>>

-----------------------------------------------------------------------------
Init ==
  /\ fn = [f \in Futures |-> "none"]
  /\ refs = [f \in Futures |-> 0]
  /\ holders = [f \in Futures |-> {}]
  /\ params = {}
  /\ state = [f \in Futures |-> "none"]
  /\ result = [f \in Futures |-> "none"]
  /\ noneRefs = [f \in Futures |-> 0]

Next ==
  \E f \in Futures :
    \/ \E w \in Functions : Call(f, w) \/ Refuse(f, w)
    \/ \E ok \in BOOLEAN : Callback(f, ok)
    \/ RunHandle(f)
    \/ Resume(f)
    \/ Cancel(f)

Spec == Init /\ [][Next]_vars

\* the library calls back, the loop runs what is scheduled
Fairness ==
  \A f \in Futures :
    /\ WF_vars(\E ok \in BOOLEAN : Callback(f, ok))
    /\ WF_vars(RunHandle(f))
    /\ WF_vars(Resume(f))

FairSpec == Spec /\ Fairness

-----------------------------------------------------------------------------
\* the calls of the three wrappers that count every holder; register_access takes one reference
\* of the future for two holders and none of Py_None
Counted == {f \in Futures : fn[f] \notin {"none", "register_access"}}

\* A future has one reference for each that keeps it: it lives as long as the request may need it,
\* also when the coroutine is gone, and not a step longer; and a result that holds Py_None owns
\* the reference it will drop.  A parameter block lives exactly as long as its request: a refused
\* call frees it itself
ReferencePerHolder ==
  /\ \A f \in Counted :
       /\ refs[f] = Cardinality(holders[f])
       /\ noneRefs[f] = IF result[f] = "None" THEN 1 ELSE 0
  /\ params = {f \in Futures : "request" \in holders[f] /\ HasParam(fn[f])}

\* Every await ends, with the result or because it was cancelled, and nobody keeps the future
AwaitEnds == \A f \in Futures : state[f] = "pending" ~> (state[f] # "pending" /\ holders[f] = {})
=============================================================================
