---------------------------- MODULE PythonProofs ----------------------------
(***************************************************************************)
(* Theorems about the two Python modules.                                  *)
(*                                                                         *)
(* PyFuture, for any number of futures under way at once: the references   *)
(* that the wrappers and callbacks of pywlmio count by hand are those of   *)
(* the things that keep a future, in every order of answers, cancellations *)
(* and handles.                                                            *)
(*                                                                         *)
(* PyNode, for any number of getters, restarts and losses: the cache of a  *)
(* node holds nothing an earlier incarnation said, if every incarnation    *)
(* counts further than heartbeats are lost in a row, until a tick finds a  *)
(* heartbeat behind an answer of an earlier incarnation.                   *)
(***************************************************************************)
EXTENDS PyFuture, PyNode, FiniteSetTheorems, SequenceTheorems, TLAPS

Holders == {"request", "handle", "coroutine"}

Types ==
  /\ fn \in [Futures -> Wrappers \cup {"none"}]
  /\ refs \in [Futures -> Int]
  /\ holders \in [Futures -> SUBSET Holders]
  /\ params \subseteq Futures
  /\ state \in [Futures -> {"none", "pending", "result", "cancelled"}]
  /\ result \in [Futures -> {"none", "None", "value"}]
  /\ noneRefs \in [Futures -> Int]

\* a future nobody was given is kept by nobody, and a request that has not called back has no
\* result and no handle
Stages(f) ==
  /\ fn[f] = "none" => holders[f] = {} /\ result[f] = "none" /\ noneRefs[f] = 0
  /\ "request" \in holders[f] => result[f] = "none" /\ "handle" \notin holders[f]

\* the two counters of a future
References(f) ==
  f \in Counted => /\ refs[f] = Cardinality(holders[f])
                   /\ noneRefs[f] = IF result[f] = "None" THEN 1 ELSE 0

Parameter(f) == f \in params <=> ("request" \in holders[f] /\ HasParam(fn[f]))

FutureInv == Types /\ \A f \in Futures : Stages(f) /\ References(f) /\ Parameter(f)

-----------------------------------------------------------------------------
\* what keeps a future can be counted
LEMMA HoldersAreFinite ==
  ASSUME NEW h, h \subseteq Holders
  PROVE  /\ IsFiniteSet(h)
         /\ \A x : IsFiniteSet(h \ {x})
         /\ \A x \in h : Cardinality(h \ {x}) = Cardinality(h) - 1
         /\ \A x, y : x \in h /\ y \notin h => Cardinality((h \ {x}) \cup {y}) = Cardinality(h)
         /\ Cardinality(h) \in Nat
<1>1. IsFiniteSet(Holders)
  <2>1. IsFiniteSet({}) /\ Holders = (({} \cup {"request"}) \cup {"handle"}) \cup {"coroutine"}
    BY FS_EmptySet DEF Holders
  <2> QED
    BY <2>1, FS_AddElement
<1>2. IsFiniteSet(h) /\ Cardinality(h) \in Nat
  BY <1>1, FS_Subset, FS_CardinalityType
<1>3. \A x : IsFiniteSet(h \ {x})
  BY <1>2, FS_RemoveElement
<1>4. \A x \in h : Cardinality(h \ {x}) = Cardinality(h) - 1
  BY <1>2, FS_RemoveElement
<1>5. \A x, y : x \in h /\ y \notin h => Cardinality((h \ {x}) \cup {y}) = Cardinality(h)
  <2> SUFFICES ASSUME NEW x, NEW y, x \in h, y \notin h
               PROVE  Cardinality((h \ {x}) \cup {y}) = Cardinality(h)
    OBVIOUS
  <2>1. Cardinality((h \ {x}) \cup {y}) = Cardinality(h \ {x}) + 1
    BY <1>3, FS_AddElement
  <2> QED
    BY <1>2, <1>4, <2>1
<1> QED
  BY <1>2, <1>3, <1>4, <1>5

\* the request and the coroutine are two
LEMMA TwoHolders == Cardinality({"request", "coroutine"}) = 2
<1>1. IsFiniteSet({}) /\ Cardinality({}) = 0
  BY FS_EmptySet
<1>2. IsFiniteSet({} \cup {"request"}) /\ Cardinality({} \cup {"request"}) = 1
  BY <1>1, FS_AddElement
<1>3. Cardinality(({} \cup {"request"}) \cup {"coroutine"}) = 2
  BY <1>2, FS_AddElement
<1>4. ({} \cup {"request"}) \cup {"coroutine"} = {"request", "coroutine"}
  OBVIOUS
<1> QED
  BY <1>3, <1>4

\* before the first call there is nothing to count
LEMMA FutureInit == Init => FutureInv
BY DEF Init, FutureInv, Types, Holders, Stages, References, Counted, Parameter

\* a step that leaves a future alone leaves its counters right
LEMMA OtherFutures ==
  ASSUME FutureInv, NEW f \in Futures,
         fn'[f] = fn[f], refs'[f] = refs[f], holders'[f] = holders[f],
         result'[f] = result[f], noneRefs'[f] = noneRefs[f],
         f \in params' <=> f \in params
  PROVE  Stages(f)' /\ References(f)' /\ Parameter(f)'
BY DEF FutureInv, Stages, References, Counted, Parameter

-----------------------------------------------------------------------------
\* a call of a wrapper
LEMMA CallStep ==
  ASSUME FutureInv, NEW f \in Futures, NEW w \in Functions, Call(f, w) \/ Refuse(f, w)
  PROVE  FutureInv'
<1>1. w \in Wrappers /\ fn[f] = "none" /\ fn' = [fn EXCEPT ![f] = w]
  BY FunctionsAssumption DEF Call, Refuse
<1>2. f \notin params
  BY <1>1 DEF FutureInv, Stages, Parameter
<1>3. CASE Call(f, w)
  <2>1. Types'
    BY <1>1, <1>3 DEF Call, FutureInv, Types, Holders, Increfs
  <2>2. \A g \in Futures \ {f} : Stages(g)' /\ References(g)' /\ Parameter(g)'
    BY <1>3, OtherFutures DEF Call, FutureInv, Types
  <2>3. Stages(f)'
    BY <1>1, <1>3 DEF Call, FutureInv, Types, Stages, Wrappers
  <2>4. References(f)'
    <3>1. /\ f \in Counted' => w # "register_access"
          /\ refs'[f] = Increfs(w)
          /\ holders'[f] = {"request", "coroutine"}
          /\ result'[f] = "none" /\ noneRefs'[f] = 0
      BY <1>1, <1>3 DEF Call, FutureInv, Types, Stages, Counted
    <3> QED
      BY <3>1, TwoHolders DEF References, Increfs
  <2>5. Parameter(f)'
    BY <1>1, <1>2, <1>3 DEF Call, FutureInv, Types, Parameter
  <2> QED
    BY <2>1, <2>2, <2>3, <2>4, <2>5 DEF FutureInv
<1>4. CASE Refuse(f, w)
  <2>1. w = "register_access"
    BY <1>4 DEF Refuse, MayRefuse
  <2>2. Types'
    BY <1>1, <1>4 DEF Refuse, FutureInv, Types
  <2>3. \A g \in Futures \ {f} : Stages(g)' /\ References(g)' /\ Parameter(g)'
    BY <1>4, OtherFutures DEF Refuse, FutureInv, Types
  <2>4. Stages(f)' /\ References(f)' /\ Parameter(f)'
    BY <1>1, <1>2, <1>4, <2>1 DEF Refuse, FutureInv, Types, Stages, References, Counted, Parameter
  <2> QED
    BY <2>2, <2>3, <2>4 DEF FutureInv
<1> QED
  BY <1>3, <1>4

\* the callback passes the request's reference on to the handle
LEMMA CallbackStep ==
  ASSUME FutureInv, NEW f \in Futures, NEW ok \in BOOLEAN, Callback(f, ok)
  PROVE  FutureInv'
<1>1. /\ "request" \in holders[f] /\ "handle" \notin holders[f] /\ result[f] = "none" /\ fn[f] # "none"
      /\ holders[f] \subseteq Holders
  BY DEF Callback, FutureInv, Stages, Types
<1>2. holders'[f] = (holders[f] \ {"request"}) \cup {"handle"}
  BY DEF Callback, CallSoon, FutureInv, Types
<1>3. Cardinality(CallSoon(f)) = 1
  BY FS_Singleton DEF CallSoon
<1>4. refs' = [refs EXCEPT ![f] = refs[f] + 1 - 1]
  BY <1>3 DEF Callback
<1>5. Types'
  <2>1. holders' \in [Futures -> SUBSET Holders]
    BY <1>1 DEF Callback, CallSoon, FutureInv, Types, Holders
  <2>2. noneRefs' \in [Futures -> Int]
    BY DEF Callback, FutureInv, Types, NoneTaken
  <2>3. refs' \in [Futures -> Int]
    BY <1>4 DEF FutureInv, Types
  <2> QED
    BY <2>1, <2>2, <2>3 DEF Callback, FutureInv, Types
<1>6. \A g \in Futures \ {f} : Stages(g)' /\ References(g)' /\ Parameter(g)'
  BY OtherFutures DEF Callback, FutureInv, Types
<1>7. Stages(f)'
  BY <1>1, <1>2 DEF Callback, Stages
<1>8. References(f)'
  <2>1. f \in Counted' => f \in Counted /\ NoneTaken(fn[f]) = 1
    BY DEF Callback, Counted, NoneTaken
  <2>2. refs'[f] = refs[f] /\ (f \in Counted => refs[f] = Cardinality(holders[f]))
    BY <1>4 DEF FutureInv, Types, References
  <2>3. Cardinality(holders'[f]) = Cardinality(holders[f])
    BY <1>1, <1>2, HoldersAreFinite
  <2>4. f \in Counted => noneRefs[f] = 0
    BY <1>1 DEF FutureInv, References
  <2>5. f \in Counted' => noneRefs'[f] = IF result'[f] = "None" THEN 1 ELSE 0
    BY <2>1, <2>4 DEF Callback, FutureInv, Types
  <2> QED
    BY <2>1, <2>2, <2>3, <2>5 DEF References
<1>9. Parameter(f)'
  BY <1>2 DEF Callback, Parameter
<1> QED
  BY <1>5, <1>6, <1>7, <1>8, <1>9 DEF FutureInv

\* asyncio lets go of a future, and of its result when nobody else holds that
LEMMA LetGo ==
  ASSUME FutureInv, NEW f \in Futures, NEW x \in holders[f] \ {"request"},
         holders' = [holders EXCEPT ![f] = @ \ {x}],
         refs' = [refs EXCEPT ![f] = @ - 1],
         Drop(f) \/ UNCHANGED <<result, noneRefs>>,
         state' \in [Futures -> {"none", "pending", "result", "cancelled"}],
         UNCHANGED <<fn, params>>
  PROVE  FutureInv'
<1>1. holders'[f] = holders[f] \ {x} /\ refs'[f] = refs[f] - 1 /\ holders[f] \subseteq Holders
  BY DEF FutureInv, Types
<1>2. Types'
  <2>1. holders' \in [Futures -> SUBSET Holders] /\ refs' \in [Futures -> Int]
    BY <1>1 DEF FutureInv, Types
  <2>2. result' \in [Futures -> {"none", "None", "value"}] /\ noneRefs' \in [Futures -> Int]
    BY DEF FutureInv, Types, Drop
  <2> QED
    BY <2>1, <2>2 DEF FutureInv, Types
<1>3. \A g \in Futures \ {f} : Stages(g)' /\ References(g)' /\ Parameter(g)'
  BY OtherFutures DEF Drop, FutureInv, Types
<1>4. Stages(f)' /\ Parameter(f)'
  BY <1>1 DEF FutureInv, Types, Stages, Parameter, Drop
<1>5. References(f)'
  <2>1. Counted' = Counted
    BY DEF Counted
  <2>2. Cardinality(holders'[f]) = Cardinality(holders[f]) - 1
    BY <1>1, HoldersAreFinite
  <2>3. f \in Counted => noneRefs'[f] = IF result'[f] = "None" THEN 1 ELSE 0
    BY DEF Drop, FutureInv, Types, References
  <2> QED
    BY <1>1, <2>1, <2>2, <2>3 DEF FutureInv, References
<1> QED
  BY <1>2, <1>3, <1>4, <1>5 DEF FutureInv

\* every step preserves the invariant
LEMMA FutureStep == FutureInv /\ [Next]_vars => FutureInv'
<1> SUFFICES ASSUME FutureInv, [Next]_vars
             PROVE  FutureInv'
  OBVIOUS
<1>1. ASSUME NEW f \in Futures, NEW w \in Functions, Call(f, w) \/ Refuse(f, w)
      PROVE  FutureInv'
  BY <1>1, CallStep
<1>2. ASSUME NEW f \in Futures, NEW ok \in BOOLEAN, Callback(f, ok)
      PROVE  FutureInv'
  BY <1>2, CallbackStep
<1>3. ASSUME NEW f \in Futures, RunHandle(f) \/ Resume(f) \/ Cancel(f)
      PROVE  FutureInv'
  <2>1. state' \in [Futures -> {"none", "pending", "result", "cancelled"}]
    BY <1>3 DEF RunHandle, Resume, Cancel, FutureInv, Types
  <2>2. UNCHANGED <<fn, params>> /\ (Drop(f) \/ UNCHANGED <<result, noneRefs>>)
    BY <1>3 DEF RunHandle, Resume, Cancel
  <2>3. \E x \in holders[f] \ {"request"} :
          /\ holders' = [holders EXCEPT ![f] = @ \ {x}]
          /\ refs' = [refs EXCEPT ![f] = @ - 1]
    BY <1>3 DEF RunHandle, Resume, Cancel
  <2> QED
    BY <2>1, <2>2, <2>3, LetGo
<1>4. ASSUME UNCHANGED vars
      PROVE  FutureInv'
  BY <1>4 DEF vars, FutureInv, Types, Stages, References, Counted, Parameter
<1> QED
  BY <1>1, <1>2, <1>3, <1>4 DEF Next

-----------------------------------------------------------------------------
\* ReferencePerHolder: futures, Py_None and parameter blocks are neither leaked nor freed too
\* early, however many calls are under way and whenever they are cancelled
THEOREM ReferencesAreCounted == Spec => []ReferencePerHolder
<1>1. Init => FutureInv
  BY FutureInit
<1>2. FutureInv /\ [Next]_vars => FutureInv'
  BY FutureStep
<1>3. FutureInv => ReferencePerHolder
  BY DEF FutureInv, Types, References, Parameter, Counted, ReferencePerHolder
<1> QED
  BY <1>1, <1>2, <1>3, PTL DEF Spec
-----------------------------------------------------------------------------
(***************************************************************************)
(* PyNode.  The invariant has three parts: what the handles promise each   *)
(* other (Calm), how the loop orders them (Loop), and what is known of the *)
(* node on its way to the library (Bus), which depends on the handles only *)
(* through the incarnations whose statuses wait among them (Boots).        *)
(***************************************************************************)
Queue(s) == \E S : s \in Seq(S)

IsStatus(q, i)  == i \in DOMAIN q /\ q[i].kind = "status"
Carries(q, i)   == i \in DOMAIN q /\ q[i].kind \in {"set_result", "wakeup"} /\ q[i].answer # None
Carrying(q, i, kind) == Carries(q, i) /\ q[i].kind = kind

Boots(q) == {q[i].boot : i \in {j \in DOMAIN q : q[j].kind = "status"}}

\* the coroutine of a status with boot b or a later one has run or waits
Known(B, h, b) == b <= h \/ \E x \in B : x >= b

HandleTypes(q) ==
  \A i \in DOMAIN q : /\ q[i].kind = "status" => q[i].boot \in Nat
                      /\ q[i].kind \in {"set_result", "wakeup"} => q[i].answer \in Nat

\* an answer about to wake its getter is no older than the statuses that run before
WakeUpsInOrder(q, h) ==
  \A p \in DOMAIN q : Carrying(q, p, "wakeup") =>
    /\ h <= q[p].answer
    /\ \A i \in DOMAIN q : i < p /\ IsStatus(q, i) => q[i].boot <= q[p].answer

\* the wakeup of an answer will come behind every status that waits now
ResultsInOrder(q, h) ==
  \A p \in DOMAIN q : Carrying(q, p, "set_result") =>
    /\ h <= q[p].answer
    /\ \A i \in DOMAIN q : IsStatus(q, i) => q[i].boot <= q[p].answer

\* the first status of an incarnation makes the node forget
FirstForgets(q, h) ==
  \A i \in DOMAIN q : IsStatus(q, i) =>
    \/ q[i].boot <= h
    \/ Forgets(q[i].old, q[i].new)
    \/ \E j \in DOMAIN q : j < i /\ IsStatus(q, j) /\ q[i].boot <= q[j].boot

Calm(q, h, m) ==
  /\ Queue(q)
  /\ h \in Nat
  /\ HandleTypes(q)
  /\ ~m => WakeUpsInOrder(q, h) /\ ResultsInOrder(q, h)
  /\ FirstForgets(q, h)

OneSelect(q) == \E s \in DOMAIN q : \A i \in DOMAIN q : q[i].kind = "select" <=> i = s

\* an iteration ends behind its tick
TickThenSelect(q) ==
  \A i \in DOMAIN q : q[i].kind = "tick" => i + 1 \in DOMAIN q /\ q[i + 1].kind = "select"

\* what is behind the tick was put there by itself or since the last one: all earlier results have run
ResultsOfThisTick(q, f) ==
  \A i, j \in DOMAIN q :
    q[i].kind = "tick" /\ i < j /\ Carrying(q, j, "set_result") => q[j].answer \in Range(f)

Loop(q, f) ==
  /\ Queue(q)
  /\ OneSelect(q)
  /\ TickThenSelect(q)
  /\ ResultsOfThisTick(q, f)

Beat(es, i)  == i \in DOMAIN es /\ es[i].kind = "heartbeat"
First(es, i) == Beat(es, i) /\ \A j \in DOMAIN es : j < i => ~Beat(es, j)
Final(es, i) == Beat(es, i) /\ \A j \in DOMAIN es : i < j => ~Beat(es, j)
NextTo(es, i, k) == /\ Beat(es, i) /\ Beat(es, k) /\ i < k
                    /\ \A j \in DOMAIN es : i < j /\ j < k => ~Beat(es, j)

BusTypes(B, h, es, l, n) ==
  /\ Queue(es)
  /\ B \subseteq Nat
  /\ h \in Nat
  /\ l \in [online : BOOLEAN, uptime : Int]
  /\ n \in [boot : Nat \ {0}, uptime : -1..MaxUptime]
  /\ \A i \in DOMAIN es : es[i].kind \in {"heartbeat", "answer"} => es[i].boot \in 1..n.boot
  /\ \A i \in DOMAIN es : es[i].kind = "heartbeat" => es[i].uptime \in Nat

\* nobody has heard of an incarnation that is still to come
NodeIsNewest(B, h, n) == h <= n.boot /\ \A b \in B : b <= n.boot

AnswersInOrder(B, h, es) ==
  \A k \in DOMAIN es : es[k].kind = "answer" =>
    /\ h <= es[k].boot
    /\ \A b \in B : b <= es[k].boot
    /\ \A i \in DOMAIN es : i < k /\ Beat(es, i) => es[i].boot <= es[k].boot

\* the first heartbeat of an incarnation shows that it is one
FirstShows(B, h, es, l) ==
  \A k \in DOMAIN es : First(es, k) =>
    Known(B, h, es[k].boot) \/ (l.online => es[k].uptime < l.uptime)

NextShows(es) ==
  \A i, k \in DOMAIN es : NextTo(es, i, k) =>
    es[k].boot <= es[i].boot \/ es[k].uptime < es[i].uptime

\* of the present incarnation nothing was received, and its next heartbeat still says less than u
Unheard(u, n, lost) == n.uptime < lost /\ n.uptime + MinUptime < u + lost

FinalIsNode(es, n, lost) ==
  \A i \in DOMAIN es : Final(es, i) =>
    \/ es[i].boot = n.boot /\ n.uptime <= es[i].uptime + lost
    \/ Unheard(es[i].uptime, n, lost)

LibraryIsNode(B, h, es, l, n, lost) ==
  (\A i \in DOMAIN es : ~Beat(es, i)) /\ l.online =>
    \/ Known(B, h, n.boot) /\ n.uptime <= l.uptime + lost
    \/ Unheard(l.uptime, n, lost)

Bus(B, h, es, l, n, lost) ==
  /\ BusTypes(B, h, es, l, n)
  /\ lost \in 0..MaxLost
  /\ NodeIsNewest(B, h, n)
  /\ AnswersInOrder(B, h, es)
  /\ FirstShows(B, h, es, l)
  /\ NextShows(es)
  /\ FinalIsNode(es, n, lost)
  /\ LibraryIsNode(B, h, es, l, n, lost)

NodeInv ==
  /\ Calm(ready, heard, met)
  /\ Loop(ready, found)
  /\ Bus(Boots(ready), heard, events, lib, node, missed)
  /\ info \in Nat
  /\ Queue(found)
  /\ Range(found) \subseteq Nat
  /\ InfoIsCurrent

-----------------------------------------------------------------------------
\* lists
LEMMA Pushed ==
  ASSUME NEW s, NEW e, Queue(s)
  PROVE  /\ Queue(Append(s, e))
         /\ Len(s) \in Nat
         /\ DOMAIN s = 1..Len(s)
         /\ DOMAIN Append(s, e) = 1..Len(s) + 1
         /\ \A i \in 1..Len(s) : Append(s, e)[i] = s[i]
         /\ Append(s, e)[Len(s) + 1] = e
<1>1. PICK S : s \in Seq(S)
  BY DEF Queue
<1> DEFINE T == S \cup {e}
<1>2. s \in Seq(T) /\ e \in T
  BY <1>1, SeqMonotonic
<1> HIDE DEF T
<1>3. Append(s, e) \in Seq(T) /\ Len(Append(s, e)) = Len(s) + 1
  BY <1>2, AppendProperties
<1>4. Queue(Append(s, e))
  BY <1>3 DEF Queue
<1>5. Len(s) \in Nat /\ DOMAIN s = 1..Len(s) /\ DOMAIN Append(s, e) = 1..Len(s) + 1
  BY <1>2, <1>3, LenProperties
<1>6. (\A i \in 1..Len(s) : Append(s, e)[i] = s[i]) /\ Append(s, e)[Len(s) + 1] = e
  BY <1>2, AppendProperties
<1> QED
  BY <1>4, <1>5, <1>6

LEMMA Popped ==
  ASSUME NEW s, Queue(s), s # <<>>
  PROVE  /\ Queue(Tail(s))
         /\ Len(s) \in Nat \ {0}
         /\ DOMAIN s = 1..Len(s)
         /\ DOMAIN Tail(s) = 1..Len(s) - 1
         /\ \A i \in 1..Len(s) - 1 : Tail(s)[i] = s[i + 1]
         /\ Head(s) = s[1]
<1>1. PICK S : s \in Seq(S)
  BY DEF Queue
<1>2. Tail(s) \in Seq(S) /\ Len(Tail(s)) = Len(s) - 1 /\ Len(s) \in Nat /\ Len(s) # 0
  BY <1>1, HeadTailProperties, LenProperties, EmptySeq
<1> QED
  BY <1>1, <1>2, HeadTailProperties, LenProperties DEF Queue

\* the places of a list behind its head
LEMMA Shifted ==
  ASSUME NEW s, Queue(s), s # <<>>
  PROVE  /\ \A i \in DOMAIN Tail(s) : i \in Nat /\ i + 1 \in DOMAIN s /\ Tail(s)[i] = s[i + 1]
         /\ \A i \in DOMAIN s : \/ i = 1
                                \/ i - 1 \in DOMAIN Tail(s) /\ s[i] = Tail(s)[i - 1] /\ i \in Nat
         /\ 1 \in DOMAIN s
<1>1. \A i \in DOMAIN Tail(s) : i \in Nat /\ i + 1 \in DOMAIN s
  BY Popped
<1>2. \A i \in DOMAIN s : i \in Nat /\ (i = 1 \/ i - 1 \in DOMAIN Tail(s))
  BY Popped
<1>3. \A i \in DOMAIN s : i = 1 \/ s[i] = Tail(s)[i - 1]
  BY Popped
<1>4. 1 \in DOMAIN s
  BY Popped
<1>5. \A i \in DOMAIN Tail(s) : Tail(s)[i] = s[i + 1]
  BY Popped
<1>6. \A i \in DOMAIN Tail(s) : i \in Nat /\ i + 1 \in DOMAIN s /\ Tail(s)[i] = s[i + 1]
  BY <1>1, <1>5, Zenon
<1>7. \A i \in DOMAIN s : \/ i = 1
                          \/ i - 1 \in DOMAIN Tail(s) /\ s[i] = Tail(s)[i - 1] /\ i \in Nat
  BY <1>2, <1>3, Zenon
<1> QED
  BY <1>4, <1>6, <1>7, Zenon

LEMMA RangeOfPushed ==
  ASSUME NEW s, NEW e, Queue(s)
  PROVE  Range(Append(s, e)) = Range(s) \cup {e}
<1>1. \A i \in DOMAIN Append(s, e) : i \in DOMAIN s \/ i = Len(s) + 1
  BY Pushed
<1> QED
  BY <1>1, Pushed DEF Range

LEMMA MaxOfTwo ==
  ASSUME NEW a \in Nat, NEW b \in Nat
  PROVE  Max({a, b}) \in {a, b} /\ Max({a, b}) >= a /\ Max({a, b}) >= b
<1>1. \E x \in {a, b} : \A y \in {a, b} : x >= y
  <2>1. a >= b \/ b >= a
    OBVIOUS
  <2> QED
    BY <2>1
<1> QED
  BY <1>1 DEF Max

-----------------------------------------------------------------------------
\* handles that leave the list and that come
LEMMA BootsOfPopped ==
  ASSUME NEW q, Queue(q), q # <<>>
  PROVE  /\ Head(q).kind # "status" => Boots(Tail(q)) = Boots(q)
         /\ Head(q).kind = "status" => Boots(q) = Boots(Tail(q)) \cup {Head(q).boot}
<1>1. \A i \in DOMAIN q : i = 1 \/ (i - 1 \in DOMAIN Tail(q) /\ q[i] = Tail(q)[i - 1])
  BY Shifted
<1>2. \A i \in DOMAIN Tail(q) : i + 1 \in DOMAIN q /\ Tail(q)[i] = q[i + 1]
  BY Shifted
<1>3. 1 \in DOMAIN q /\ q[1] = Head(q)
  BY Popped
<1> QED
  BY <1>1, <1>2, <1>3 DEF Boots

LEMMA BootsOfPushed ==
  ASSUME NEW q, NEW x, Queue(q)
  PROVE  /\ x.kind # "status" => Boots(Append(q, x)) = Boots(q)
         /\ x.kind = "status" => Boots(Append(q, x)) = Boots(q) \cup {x.boot}
<1>1. \A i \in DOMAIN Append(q, x) : i = Len(q) + 1 \/ (i \in DOMAIN q /\ Append(q, x)[i] = q[i])
  BY Pushed
<1>2. \A i \in DOMAIN q : i \in DOMAIN Append(q, x) /\ Append(q, x)[i] = q[i]
  BY Pushed
<1>3. Len(q) + 1 \in DOMAIN Append(q, x) /\ Append(q, x)[Len(q) + 1] = x
  BY Pushed
<1> QED
  BY <1>1, <1>2, <1>3 DEF Boots
\* an answer no older than what was heard of the node
NoOlder(q, h, answer) == h <= answer /\ \A b \in Boots(q) : b <= answer

LEMMA CalmPopped ==
  ASSUME NEW q, NEW h, NEW m, NEW k \in Nat, q # <<>>, Calm(q, h, m),
         k >= h, Head(q).kind = "status" => k >= Head(q).boot,
         Head(q).kind # "status" => k = h, Head(q).kind = "status" => k \in {h, Head(q).boot}
  PROVE  Calm(Tail(q), k, m)
<1> DEFINE r == Tail(q)
<1>1. Queue(q) /\ Queue(r) /\ q[1] = Head(q)
  BY Popped DEF Calm
<1>2. \A i \in DOMAIN r : i \in Nat /\ i + 1 \in DOMAIN q /\ r[i] = q[i + 1]
  BY <1>1, Shifted
<1>3. \A i \in DOMAIN q : i = 1 \/ (i - 1 \in DOMAIN r /\ q[i] = r[i - 1] /\ i \in Nat)
  BY <1>1, Shifted
<1>4. 1 \in DOMAIN q /\ h \in Nat
  BY <1>1, Shifted DEF Calm
<1> HIDE DEF r
<1>5. HandleTypes(r)
  BY <1>2 DEF HandleTypes, Calm
<1>6. \A i, j \in DOMAIN r : i < j <=> i + 1 < j + 1
  BY <1>2
<1>7. ~m => WakeUpsInOrder(r, k)
  <2> SUFFICES ASSUME ~m, NEW p \in DOMAIN r, Carrying(r, p, "wakeup")
               PROVE  /\ k <= r[p].answer
                      /\ \A i \in DOMAIN r : i < p /\ IsStatus(r, i) => r[i].boot <= r[p].answer
    BY DEF WakeUpsInOrder
  <2>1. /\ h <= q[p + 1].answer
        /\ \A i \in DOMAIN q : i < p + 1 /\ IsStatus(q, i) => q[i].boot <= q[p + 1].answer
    <3>1. Carrying(q, p + 1, "wakeup")
      BY <1>2 DEF Carrying, Carries
    <3> QED
      BY <1>2, <3>1 DEF Calm, WakeUpsInOrder
  <2>2. k <= r[p].answer
    <3>1. 1 < p + 1
      <4>1. p \in Nat /\ p # 0
        BY <1>1, Popped DEF r
      <4> QED
        BY <4>1
    <3> QED
      BY <1>1, <1>2, <1>4, <2>1, <3>1 DEF IsStatus
  <2>3. ASSUME NEW i \in DOMAIN r, i < p, IsStatus(r, i)
        PROVE  r[i].boot <= r[p].answer
    BY <1>2, <1>6, <2>1, <2>3 DEF IsStatus
  <2> QED
    BY <2>2, <2>3
<1>8. ~m => ResultsInOrder(r, k)
  <2> SUFFICES ASSUME ~m, NEW p \in DOMAIN r, Carrying(r, p, "set_result")
               PROVE  /\ k <= r[p].answer
                      /\ \A i \in DOMAIN r : IsStatus(r, i) => r[i].boot <= r[p].answer
    BY DEF ResultsInOrder
  <2>1. /\ h <= q[p + 1].answer
        /\ \A i \in DOMAIN q : IsStatus(q, i) => q[i].boot <= q[p + 1].answer
    <3>1. Carrying(q, p + 1, "set_result")
      BY <1>2 DEF Carrying, Carries
    <3> QED
      BY <1>2, <3>1 DEF Calm, ResultsInOrder
  <2>2. k <= r[p].answer
    BY <1>1, <1>2, <1>4, <2>1 DEF IsStatus
  <2>3. ASSUME NEW i \in DOMAIN r, IsStatus(r, i)
        PROVE  r[i].boot <= r[p].answer
    BY <1>2, <2>1, <2>3 DEF IsStatus
  <2> QED
    BY <2>2, <2>3
<1>9. FirstForgets(r, k)
  <2> SUFFICES ASSUME NEW i \in DOMAIN r, IsStatus(r, i), ~(r[i].boot <= k), ~Forgets(r[i].old, r[i].new)
               PROVE  \E j \in DOMAIN r : j < i /\ IsStatus(r, j) /\ r[i].boot <= r[j].boot
    BY DEF FirstForgets
  <2>1. r[i].boot \in Nat /\ ~(r[i].boot <= h)
    BY <1>4, <1>5 DEF HandleTypes, IsStatus
  <2>2. PICK j \in DOMAIN q : j < i + 1 /\ IsStatus(q, j) /\ q[i + 1].boot <= q[j].boot
    BY <1>2, <2>1 DEF Calm, FirstForgets, IsStatus
  <2>3. j # 1
    <3>1. ASSUME j = 1
          PROVE  FALSE
      <4>1. Head(q).kind = "status" /\ r[i].boot <= Head(q).boot
        BY <1>1, <1>2, <2>2, <3>1 DEF IsStatus
      <4>2. Head(q).boot \in Nat
        BY <1>1, <1>4, <4>1 DEF Calm, HandleTypes
      <4> QED
        BY <2>1, <4>1, <4>2
    <3> QED
      BY <3>1
  <2>4. j - 1 \in DOMAIN r /\ q[j] = r[j - 1] /\ j - 1 < i
    BY <1>2, <1>3, <2>2, <2>3
  <2> QED
    BY <1>2, <2>2, <2>4 DEF IsStatus
<1> QED
  BY <1>1, <1>5, <1>7, <1>8, <1>9 DEF Calm, r

LEMMA CalmLeft ==
  ASSUME NEW q, NEW h, NEW m, q # <<>>, Calm(q, h, m), Head(q).kind # "status"
  PROVE  Calm(Tail(q), h, m)
<1>1. h \in Nat /\ h >= h
  BY DEF Calm
<1> QED
  BY <1>1, CalmPopped

LEMMA CalmPushed ==
  ASSUME NEW q, NEW h, NEW m, NEW x, Calm(q, h, m), x.kind # "status",
         x.kind \in {"set_result", "wakeup"} => /\ x.answer \in Nat
                                                /\ ~m /\ x.answer # None => NoOlder(q, h, x.answer)
  PROVE  Calm(Append(q, x), h, m)
<1> DEFINE r == Append(q, x)
           n == Len(q) + 1
<1>1. Queue(q) /\ Queue(r)
  BY Pushed DEF Calm
<1>2. \A i \in DOMAIN r : i = n \/ (i \in DOMAIN q /\ r[i] = q[i] /\ i < n)
  BY <1>1, Pushed
<1>3. \A i \in DOMAIN q : i \in DOMAIN r /\ r[i] = q[i]
  BY <1>1, Pushed
<1>4. n \in DOMAIN r /\ r[n] = x
  BY <1>1, Pushed
<1>5. \A i : IsStatus(r, i) => IsStatus(q, i) /\ r[i] = q[i] /\ q[i].boot \in Boots(q)
  BY <1>2, <1>4 DEF IsStatus, Boots
<1> HIDE DEF r, n
<1>6. HandleTypes(r)
  BY <1>2, <1>4 DEF HandleTypes, Calm
<1>7. ~m => WakeUpsInOrder(r, h)
  <2> SUFFICES ASSUME ~m, NEW p \in DOMAIN r, Carrying(r, p, "wakeup")
               PROVE  /\ h <= r[p].answer
                      /\ \A i \in DOMAIN r : i < p /\ IsStatus(r, i) => r[i].boot <= r[p].answer
    BY DEF WakeUpsInOrder
  <2>1. CASE p = n
    BY <1>4, <1>5, <2>1 DEF Carrying, Carries, NoOlder
  <2>2. CASE p \in DOMAIN q /\ r[p] = q[p]
    BY <1>5, <2>2 DEF Calm, WakeUpsInOrder, Carrying, Carries, IsStatus
  <2> QED
    BY <1>2, <2>1, <2>2
<1>8. ~m => ResultsInOrder(r, h)
  <2> SUFFICES ASSUME ~m, NEW p \in DOMAIN r, Carrying(r, p, "set_result")
               PROVE  /\ h <= r[p].answer
                      /\ \A i \in DOMAIN r : IsStatus(r, i) => r[i].boot <= r[p].answer
    BY DEF ResultsInOrder
  <2>1. CASE p = n
    BY <1>4, <1>5, <2>1 DEF Carrying, Carries, NoOlder
  <2>2. CASE p \in DOMAIN q /\ r[p] = q[p]
    BY <1>5, <2>2 DEF Calm, ResultsInOrder, Carrying, Carries, IsStatus
  <2> QED
    BY <1>2, <2>1, <2>2
<1>9. FirstForgets(r, h)
  BY <1>3, <1>5 DEF Calm, FirstForgets, IsStatus
<1> QED
  BY <1>1, <1>6, <1>7, <1>8, <1>9 DEF Calm, r

\* a tick puts a status behind no result that it has not found itself
LEMMA CalmTold ==
  ASSUME NEW q, NEW h, NEW m, NEW l, NEW f, NEW x, Calm(q, h, m), Loop(q, f), m => l,
         q # <<>>, Head(q).kind = "tick",
         x.kind = "status", x.boot \in Nat, Range(f) \subseteq Nat,
         l \/ \A a \in Range(f) : a # None => x.boot <= a,
         Forgets(x.old, x.new) \/ Known(Boots(q), h, x.boot)
  PROVE  Calm(Append(q, x), h, l)
<1> DEFINE r == Append(q, x)
           n == Len(q) + 1
<1>1. Queue(q) /\ Queue(r)
  BY Pushed DEF Calm
<1>2. \A i \in DOMAIN r : i = n \/ (i \in DOMAIN q /\ r[i] = q[i] /\ i < n)
  BY <1>1, Pushed
<1>3. \A i \in DOMAIN q : i \in DOMAIN r /\ r[i] = q[i] /\ i < n
  BY <1>1, Pushed
<1>4. n \in DOMAIN r /\ r[n] = x
  BY <1>1, Pushed
<1>5. 1 \in DOMAIN q /\ q[1].kind = "tick" /\ \A i \in DOMAIN q : i = 1 \/ 1 < i
  BY <1>1, Popped
<1> HIDE DEF r, n
<1>6. HandleTypes(r)
  BY <1>2, <1>4 DEF HandleTypes, Calm
<1>7. ~l => WakeUpsInOrder(r, h)
  <2> SUFFICES ASSUME ~l, NEW p \in DOMAIN r, Carrying(r, p, "wakeup")
               PROVE  /\ h <= r[p].answer
                      /\ \A i \in DOMAIN r : i < p /\ IsStatus(r, i) => r[i].boot <= r[p].answer
    BY DEF WakeUpsInOrder
  <2>1. p \in DOMAIN q /\ r[p] = q[p] /\ p < n
    BY <1>2, <1>4 DEF Carrying, Carries
  <2>2. /\ h <= q[p].answer
        /\ \A i \in DOMAIN q : i < p /\ IsStatus(q, i) => q[i].boot <= q[p].answer
    BY <2>1 DEF Calm, WakeUpsInOrder, Carrying, Carries
  <2>3. \A i \in DOMAIN r : i < p => i \in DOMAIN q /\ r[i] = q[i]
    <3>1. ~(n < p) /\ n # p /\ ~(n < n)
      BY <1>1, <2>1, Pushed DEF n
    <3> QED
      BY <1>2, <3>1
  <2> QED
    BY <2>1, <2>2, <2>3 DEF IsStatus
<1>8. ~l => ResultsInOrder(r, h)
  <2> SUFFICES ASSUME ~l, NEW p \in DOMAIN r, Carrying(r, p, "set_result")
               PROVE  /\ h <= r[p].answer
                      /\ \A i \in DOMAIN r : IsStatus(r, i) => r[i].boot <= r[p].answer
    BY DEF ResultsInOrder
  <2>1. p \in DOMAIN q /\ r[p] = q[p] /\ Carrying(q, p, "set_result")
    BY <1>2, <1>4 DEF Carrying, Carries
  <2>2. /\ h <= q[p].answer
        /\ \A i \in DOMAIN q : IsStatus(q, i) => q[i].boot <= q[p].answer
    BY <2>1 DEF Calm, ResultsInOrder
  <2>3. q[p].answer \in Range(f)
    BY <1>5, <2>1 DEF Loop, ResultsOfThisTick, Carrying, Carries
  <2>4. x.boot <= q[p].answer
    BY <2>1, <2>3 DEF Carrying, Carries
  <2> QED
    BY <1>2, <1>4, <2>1, <2>2, <2>4 DEF IsStatus
<1>9. FirstForgets(r, h)
  <2> SUFFICES ASSUME NEW i \in DOMAIN r, IsStatus(r, i)
               PROVE  \/ r[i].boot <= h
                      \/ Forgets(r[i].old, r[i].new)
                      \/ \E j \in DOMAIN r : j < i /\ IsStatus(r, j) /\ r[i].boot <= r[j].boot
    BY DEF FirstForgets
  <2>1. CASE i \in DOMAIN q /\ r[i] = q[i]
    BY <1>3, <2>1 DEF Calm, FirstForgets, IsStatus
  <2>2. CASE i = n
    <3>1. CASE \E b \in Boots(q) : b >= x.boot
      <4>1. PICK j \in DOMAIN q : q[j].kind = "status" /\ q[j].boot >= x.boot
        BY <3>1 DEF Boots
      <4>2. q[j].boot \in Nat
        BY <4>1 DEF Calm, HandleTypes
      <4> QED
        BY <1>3, <1>4, <2>2, <4>1, <4>2 DEF IsStatus
    <3> QED
      BY <1>4, <2>2, <3>1 DEF Known
  <2> QED
    BY <1>2, <2>1, <2>2
<1> QED
  BY <1>1, <1>6, <1>7, <1>8, <1>9 DEF Calm, r

-----------------------------------------------------------------------------
\* the loop: handles that are neither its select nor a tick leave and come
LEMMA LoopPopped ==
  ASSUME NEW q, NEW f, q # <<>>, Loop(q, f), Head(q).kind \notin {"select", "tick"}
  PROVE  Loop(Tail(q), f)
<1> DEFINE r == Tail(q)
<1>1. Queue(q) /\ Queue(r) /\ q[1] = Head(q)
  BY Popped DEF Loop
<1>2. \A i \in DOMAIN r : i \in Nat /\ i + 1 \in DOMAIN q /\ r[i] = q[i + 1]
  BY <1>1, Shifted
<1>3. \A i \in DOMAIN q : i = 1 \/ (i - 1 \in DOMAIN r /\ q[i] = r[i - 1] /\ i \in Nat)
  BY <1>1, Shifted
<1> HIDE DEF r
<1>4. OneSelect(r)
  <2>1. PICK s \in DOMAIN q : \A i \in DOMAIN q : q[i].kind = "select" <=> i = s
    BY DEF Loop, OneSelect
  <2>2. s - 1 \in DOMAIN r /\ s \in Nat
    BY <1>1, <1>3, <2>1
  <2>3. \A i \in DOMAIN r : r[i].kind = "select" <=> i = s - 1
    BY <1>2, <2>1, <2>2
  <2> QED
    BY <2>2, <2>3 DEF OneSelect
<1>5. TickThenSelect(r)
  <2> SUFFICES ASSUME NEW i \in DOMAIN r, r[i].kind = "tick"
               PROVE  i + 1 \in DOMAIN r /\ r[i + 1].kind = "select"
    BY DEF TickThenSelect
  <2>1. (i + 1) + 1 \in DOMAIN q /\ q[(i + 1) + 1].kind = "select"
    BY <1>2 DEF Loop, TickThenSelect
  <2>2. (i + 1) + 1 # 1 /\ ((i + 1) + 1) - 1 = i + 1
    BY <1>2
  <2> QED
    BY <1>3, <2>1, <2>2
<1>6. ResultsOfThisTick(r, f)
  <2> SUFFICES ASSUME NEW i \in DOMAIN r, NEW j \in DOMAIN r,
                      r[i].kind = "tick", i < j, Carrying(r, j, "set_result")
               PROVE  r[j].answer \in Range(f)
    BY DEF ResultsOfThisTick
  <2>1. i + 1 < j + 1 /\ Carrying(q, j + 1, "set_result")
    BY <1>2 DEF Carrying, Carries
  <2> QED
    BY <1>2, <2>1 DEF Loop, ResultsOfThisTick
<1> QED
  BY <1>1, <1>4, <1>5, <1>6 DEF Loop, r

LEMMA LoopPushed ==
  ASSUME NEW q, NEW f, NEW e, NEW x, Loop(q, f), x.kind \notin {"select", "tick"},
         Range(f) \subseteq Range(e),
         x.kind = "set_result" => x.answer = None \/ x.answer \in Range(e)
  PROVE  Loop(Append(q, x), e)
<1> DEFINE r == Append(q, x)
           n == Len(q) + 1
<1>1. Queue(q) /\ Queue(r)
  BY Pushed DEF Loop
<1>2. \A i \in DOMAIN r : i = n \/ (i \in DOMAIN q /\ r[i] = q[i] /\ i < n)
  BY <1>1, Pushed
<1>3. \A i \in DOMAIN q : i \in DOMAIN r /\ r[i] = q[i] /\ i # n
  BY <1>1, Pushed
<1>4. n \in DOMAIN r /\ r[n] = x
  BY <1>1, Pushed
<1> HIDE DEF r, n
<1>5. OneSelect(r)
  BY <1>2, <1>3, <1>4 DEF Loop, OneSelect
<1>6. TickThenSelect(r)
  BY <1>2, <1>3, <1>4 DEF Loop, TickThenSelect
<1>7. ResultsOfThisTick(r, e)
  <2> SUFFICES ASSUME NEW i \in DOMAIN r, NEW j \in DOMAIN r,
                      r[i].kind = "tick", i < j, Carrying(r, j, "set_result")
               PROVE  r[j].answer \in Range(e)
    BY DEF ResultsOfThisTick
  <2>1. CASE j = n
    BY <1>4, <2>1 DEF Carrying, Carries
  <2>2. CASE j \in DOMAIN q /\ r[j] = q[j]
    <3>1. i \in DOMAIN q /\ r[i] = q[i]
      BY <1>2, <1>4
    <3> QED
      BY <2>2, <3>1 DEF Loop, ResultsOfThisTick, Carrying, Carries
  <2> QED
    BY <1>2, <2>1, <2>2
<1> QED
  BY <1>1, <1>5, <1>6, <1>7 DEF Loop, r
LEMMA LoopTickEnds ==
  ASSUME NEW q, NEW f, NEW e, q # <<>>, Loop(q, f), Head(q).kind = "tick"
  PROVE  Loop(Tail(q), e)
<1> DEFINE r == Tail(q)
<1>1. Queue(q) /\ Queue(r) /\ q[1] = Head(q)
  BY Popped DEF Loop
<1>2. \A i \in DOMAIN r : i \in Nat /\ i # 0 /\ i + 1 \in DOMAIN q /\ r[i] = q[i + 1]
  <2>1. \A i \in DOMAIN r : i \in Nat /\ i # 0
    BY <1>1, Popped
  <2> QED
    BY <1>1, <2>1, Shifted
<1>3. \A i \in DOMAIN q : i = 1 \/ (i - 1 \in DOMAIN r /\ q[i] = r[i - 1] /\ i \in Nat)
  BY <1>1, Shifted
<1>4. PICK s \in DOMAIN q : \A i \in DOMAIN q : q[i].kind = "select" <=> i = s
  BY DEF Loop, OneSelect
<1>5. 1 \in DOMAIN q /\ s \in Nat /\ s = 2
  <2>1. 1 \in DOMAIN q
    BY <1>1, Shifted
  <2>2. 1 + 1 \in DOMAIN q /\ q[1 + 1].kind = "select"
    BY <1>1, <2>1 DEF Loop, TickThenSelect
  <2> QED
    BY <1>4, <2>1, <2>2
<1> HIDE DEF r
<1>6. OneSelect(r)
  <2>1. 1 \in DOMAIN r
    BY <1>3, <1>4, <1>5
  <2>2. \A i \in DOMAIN r : r[i].kind = "select" <=> i = 1
    BY <1>2, <1>4, <1>5
  <2> QED
    BY <2>1, <2>2 DEF OneSelect
<1>7. \A i \in DOMAIN r : r[i].kind # "tick"
  <2> SUFFICES ASSUME NEW i \in DOMAIN r, r[i].kind = "tick"
               PROVE  FALSE
    OBVIOUS
  <2>1. (i + 1) + 1 \in DOMAIN q /\ q[(i + 1) + 1].kind = "select"
    BY <1>2 DEF Loop, TickThenSelect
  <2> QED
    BY <1>2, <1>4, <1>5, <2>1
<1> QED
  BY <1>1, <1>6, <1>7 DEF Loop, TickThenSelect, ResultsOfThisTick, r

\* the list from one select to the next
LEMMA LoopTurns ==
  ASSUME NEW q, NEW f, q # <<>>, Loop(q, f), Head(q).kind = "select"
  PROVE  Loop(Append(Tail(q), Select), f) /\ Loop(Append(Append(Tail(q), Tick), Select), f)
<1> DEFINE r == Tail(q)
<1>1. Queue(q) /\ Queue(r) /\ q[1] = Head(q) /\ 1 \in DOMAIN q
  BY Popped, Shifted DEF Loop
<1>2. \A i \in DOMAIN r : i \in Nat /\ i # 0 /\ i + 1 \in DOMAIN q /\ r[i] = q[i + 1]
  <2>1. \A i \in DOMAIN r : i \in Nat /\ i # 0
    BY <1>1, Popped
  <2> QED
    BY <1>1, <2>1, Shifted
<1> HIDE DEF r
<1>3. PICK s \in DOMAIN q : \A i \in DOMAIN q : q[i].kind = "select" <=> i = s
  BY DEF Loop, OneSelect
<1>4. \A i \in DOMAIN r : r[i].kind \notin {"select", "tick"}
  <2> TAKE i \in DOMAIN r
  <2>1. s = 1
    BY <1>1, <1>3
  <2>2. r[i].kind # "select"
    BY <1>2, <1>3, <2>1
  <2>3. ASSUME r[i].kind = "tick"
        PROVE  FALSE
    <3>1. (i + 1) + 1 \in DOMAIN q /\ q[(i + 1) + 1].kind = "select"
      BY <1>2, <2>3 DEF Loop, TickThenSelect
    <3> QED
      BY <1>2, <1>3, <2>1, <3>1
  <2> QED
    BY <2>2, <2>3
<1>5. ASSUME NEW t, Queue(t), \A i \in DOMAIN t : t[i].kind # "select",
             \A i \in DOMAIN t : t[i].kind = "tick" => i = Len(t)
      PROVE  Loop(Append(t, Select), f)
  <2> DEFINE a == Append(t, Select)
             n == Len(t) + 1
  <2>1. /\ Queue(a)
        /\ \A i \in DOMAIN a : i = n \/ (i \in DOMAIN t /\ a[i] = t[i] /\ i # n)
        /\ \A i \in DOMAIN t : i \in DOMAIN a
        /\ n \in DOMAIN a /\ a[n] = Select
        /\ \A j \in DOMAIN a : ~(n < j)
        /\ \A j \in DOMAIN a : Len(t) < j => j = n
    BY <1>5, Pushed
  <2> HIDE DEF a
  <2>2. Select.kind = "select"
    BY DEF Select
  <2>3. OneSelect(a)
    BY <1>5, <2>1, <2>2 DEF OneSelect
  <2>4. TickThenSelect(a)
    BY <1>5, <2>1, <2>2 DEF TickThenSelect
  <2>5. ResultsOfThisTick(a, f)
    BY <1>5, <2>1, <2>2 DEF ResultsOfThisTick, Carrying, Carries
  <2> QED
    BY <2>1, <2>3, <2>4, <2>5 DEF Loop, a
<1>6. Loop(Append(r, Select), f)
  BY <1>1, <1>4, <1>5
<1>7. Loop(Append(Append(r, Tick), Select), f)
  <2> DEFINE t == Append(r, Tick)
  <2>1. Queue(t) /\ DOMAIN t = 1..Len(r) + 1 /\ Len(r) \in Nat
    BY <1>1, Pushed
  <2>2. \A i \in DOMAIN t : (i \in DOMAIN r /\ t[i] = r[i]) \/ (i = Len(r) + 1 /\ t[i] = Tick)
    BY <1>1, Pushed
  <2>3. Len(t) = Len(r) + 1
    <3>1. Len(t) \in Nat /\ DOMAIN t = 1..Len(t)
      BY <2>1, Pushed
    <3> HIDE DEF t
    <3> QED
      BY <2>1, <3>1
  <2> HIDE DEF t
  <2>4. Tick.kind = "tick"
    BY DEF Tick
  <2> QED
    BY <1>4, <1>5, <2>1, <2>2, <2>3, <2>4 DEF t
<1> QED
  BY <1>6, <1>7 DEF r
-----------------------------------------------------------------------------
\* what is on its way from the node: an event that is no heartbeat comes
LEMMA BusPushed ==
  ASSUME NEW B, NEW h, NEW es, NEW l, NEW n, NEW t, NEW x, Bus(B, h, es, l, n, t),
         x.kind # "heartbeat", x.kind = "answer" => x.boot = n.boot
  PROVE  Bus(B, h, Append(es, x), l, n, t)
<1> DEFINE r == Append(es, x)
           m == Len(es) + 1
<1>1. Queue(es) /\ Queue(r)
  BY Pushed DEF Bus, BusTypes
<1>2. \A i \in DOMAIN r : i = m \/ (i \in DOMAIN es /\ r[i] = es[i] /\ i < m)
  BY <1>1, Pushed
<1>3. \A i \in DOMAIN es : i \in DOMAIN r /\ r[i] = es[i] /\ i < m
  BY <1>1, Pushed
<1>4. m \in DOMAIN r /\ r[m] = x
  BY <1>1, Pushed
<1>5. n.boot \in Nat \ {0} /\ n.boot \in 1..n.boot
  BY DEF Bus, BusTypes
<1> HIDE DEF r, m
<1>6. \A i : Beat(r, i) <=> Beat(es, i)
  BY <1>2, <1>3, <1>4 DEF Beat
<1>7. \A i : Beat(es, i) => i \in DOMAIN es /\ r[i] = es[i]
  BY <1>3 DEF Beat
<1>8. BusTypes(B, h, r, l, n)
  BY <1>1, <1>2, <1>4, <1>5 DEF Bus, BusTypes
<1>9. AnswersInOrder(B, h, r)
  <2> SUFFICES ASSUME NEW k \in DOMAIN r, r[k].kind = "answer"
               PROVE  /\ h <= r[k].boot
                      /\ \A b \in B : b <= r[k].boot
                      /\ \A i \in DOMAIN r : i < k /\ Beat(r, i) => r[i].boot <= r[k].boot
    BY DEF AnswersInOrder
  <2>1. CASE k = m
    <3>1. \A i : Beat(es, i) => es[i].boot <= n.boot
      BY <1>5 DEF Bus, BusTypes, Beat
    <3> QED
      BY <1>4, <1>6, <1>7, <2>1, <3>1 DEF Bus, NodeIsNewest
  <2>2. CASE k \in DOMAIN es /\ r[k] = es[k]
    BY <1>6, <1>7, <2>2 DEF Bus, AnswersInOrder
  <2> QED
    BY <1>2, <2>1, <2>2
<1>10. FirstShows(B, h, r, l)
  BY <1>3, <1>6, <1>7 DEF Bus, FirstShows, First
<1>11. NextShows(r)
  BY <1>3, <1>6, <1>7 DEF Bus, NextShows, NextTo
<1>12. FinalIsNode(r, n, t)
  BY <1>3, <1>6, <1>7 DEF Bus, FinalIsNode, Final
<1>13. LibraryIsNode(B, h, r, l, n, t)
  BY <1>3, <1>6, <1>7 DEF Bus, LibraryIsNode
<1> QED
  BY <1>8, <1>9, <1>10, <1>11, <1>12, <1>13 DEF Bus, r

\* a heartbeat comes: it is of the incarnation known, or shows that it is not
LEMMA BusBeats ==
  ASSUME MaxLost < MinUptime,
         NEW B, NEW h, NEW es, NEW l, NEW n, NEW t, NEW x, NEW u \in 0..MaxUptime, Bus(B, h, es, l, n, t),
         x.kind = "heartbeat", x.boot = n.boot, x.uptime = u, u <= n.uptime + 1
  PROVE  Bus(B, h, Append(es, x), l, [n EXCEPT !.uptime = u], 0)
<1> DEFINE r == Append(es, x)
           m == Len(es) + 1
           o == [n EXCEPT !.uptime = u]
<1>1. Queue(es) /\ Queue(r)
  BY Pushed DEF Bus, BusTypes
<1>2. \A i \in DOMAIN r : i = m \/ (i \in DOMAIN es /\ r[i] = es[i] /\ i < m /\ ~(m < i))
  BY <1>1, Pushed
<1>3. \A i \in DOMAIN es : i \in DOMAIN r /\ r[i] = es[i] /\ i < m
  BY <1>1, Pushed
<1>4. m \in DOMAIN r /\ r[m] = x
  BY <1>1, Pushed
<1>5. n.boot \in Nat \ {0} /\ n.boot \in 1..n.boot /\ n.uptime \in -1..MaxUptime
  BY DEF Bus, BusTypes
<1>6. o \in [boot : Nat \ {0}, uptime : -1..MaxUptime] /\ o.boot = n.boot /\ o.uptime = u /\ u # -1
  BY UptimeAssumption DEF Bus, BusTypes
<1> HIDE DEF r, m, o
<1>17. ASSUME NEW w \in Int, Unheard(w, n, t)
       PROVE  u < w
  <2>1. t \in 0..MaxLost
    BY DEF Bus
  <2> QED
    BY <1>5, <1>17, <2>1, LostAssumption, UptimeAssumption DEF Unheard
<1>7. \A i : Beat(r, i) <=> (i = m \/ Beat(es, i))
  BY <1>2, <1>3, <1>4 DEF Beat
<1>8. \A i : Beat(es, i) => i \in DOMAIN es /\ r[i] = es[i] /\ i < m
  BY <1>3 DEF Beat
<1>9. BusTypes(B, h, r, l, o)
  <2>1. \A i \in DOMAIN r : r[i].kind \in {"heartbeat", "answer"} => r[i].boot \in 1..o.boot
    BY <1>2, <1>4, <1>5, <1>6 DEF Bus, BusTypes
  <2>2. \A i \in DOMAIN r : r[i].kind = "heartbeat" => r[i].uptime \in Nat
    BY <1>2, <1>4, UptimeAssumption DEF Bus, BusTypes
  <2> QED
    BY <1>1, <1>6, <2>1, <2>2 DEF Bus, BusTypes
<1>10. NodeIsNewest(B, h, o)
  BY <1>6 DEF Bus, NodeIsNewest
<1>11. AnswersInOrder(B, h, r)
  <2> SUFFICES ASSUME NEW k \in DOMAIN r, r[k].kind = "answer"
               PROVE  /\ h <= r[k].boot
                      /\ \A b \in B : b <= r[k].boot
                      /\ \A i \in DOMAIN r : i < k /\ Beat(r, i) => r[i].boot <= r[k].boot
    BY DEF AnswersInOrder
  <2>1. k \in DOMAIN es /\ r[k] = es[k] /\ ~(m < k) /\ m # k
    BY <1>2, <1>4
  <2> QED
    BY <1>7, <1>8, <2>1 DEF Bus, AnswersInOrder
<1>12. FirstShows(B, h, r, l)
  <2> SUFFICES ASSUME NEW k \in DOMAIN r, First(r, k)
               PROVE  Known(B, h, r[k].boot) \/ (l.online => r[k].uptime < l.uptime)
    BY DEF FirstShows
  <2>1. CASE k = m
    <3>1. \A i \in DOMAIN es : ~Beat(es, i)
      BY <1>3, <1>7, <2>1 DEF First
    <3>2. l.online => Known(B, h, n.boot) \/ Unheard(l.uptime, n, t)
      BY <3>1 DEF Bus, LibraryIsNode
    <3>3. l.uptime \in Int
      BY DEF Bus, BusTypes
    <3> QED
      BY <1>4, <1>17, <2>1, <3>2, <3>3
  <2>2. CASE Beat(es, k)
    <3>1. First(es, k)
      BY <1>3, <1>7, <2>2 DEF First
    <3> QED
      BY <1>8, <2>2, <3>1 DEF Bus, FirstShows
  <2> QED
    BY <1>7, <2>1, <2>2 DEF First
<1>13. NextShows(r)
  <2> SUFFICES ASSUME NEW i \in DOMAIN r, NEW k \in DOMAIN r, NextTo(r, i, k)
               PROVE  r[k].boot <= r[i].boot \/ r[k].uptime < r[i].uptime
    BY DEF NextShows
  <2>1. Beat(es, i)
    <3>1. ~(m < m)
      BY <1>1, Pushed DEF m
    <3>2. ~(m < k)
      BY <1>2, <3>1
    <3> QED
      BY <1>7, <3>1, <3>2 DEF NextTo
  <2>2. CASE k = m
    <3>1. Final(es, i)
      BY <1>3, <1>7, <2>1, <2>2 DEF Final, NextTo
    <3>2. Unheard(es[i].uptime, n, t) \/ es[i].boot = n.boot
      BY <2>1, <3>1 DEF Bus, FinalIsNode, Beat
    <3>3. es[i].uptime \in Int
      BY <2>1 DEF Bus, BusTypes, Beat
    <3> QED
      BY <1>4, <1>5, <1>8, <1>17, <2>1, <2>2, <3>2, <3>3
  <2>3. CASE Beat(es, k)
    <3>1. NextTo(es, i, k)
      BY <1>3, <1>7, <2>1, <2>3 DEF NextTo
    <3> QED
      BY <1>8, <2>1, <2>3, <3>1 DEF Bus, NextShows
  <2> QED
    BY <1>7, <2>2, <2>3 DEF NextTo
<1>14. FinalIsNode(r, o, 0)
  <2>1. \A i \in DOMAIN r : Final(r, i) => i = m
    BY <1>4, <1>7, <1>8 DEF Final
  <2> QED
    BY <1>4, <1>6, <2>1 DEF FinalIsNode
<1>15. LibraryIsNode(B, h, r, l, o, 0)
  BY <1>4, <1>7 DEF LibraryIsNode
<1>16. 0 \in 0..MaxLost
  BY LostAssumption
<1> QED
  BY <1>9, <1>10, <1>11, <1>12, <1>13, <1>14, <1>15, <1>16 DEF Bus, r, o

\* a heartbeat is lost, one of a few in a row unless the node counts as offline
LEMMA BusLoses ==
  ASSUME NEW B, NEW h, NEW es, NEW l, NEW n, NEW t, NEW u \in 0..MaxUptime, NEW w, Bus(B, h, es, l, n, t),
         u <= n.uptime + 1,
         \/ t < MaxLost /\ w = t + 1
         \/ ~l.online /\ (\A i \in DOMAIN es : ~Beat(es, i)) /\ w = 0
  PROVE  Bus(B, h, es, l, [n EXCEPT !.uptime = u], w)
<1> DEFINE o == [n EXCEPT !.uptime = u]
<1>1. n.boot \in Nat \ {0} /\ n.uptime \in -1..MaxUptime /\ t \in 0..MaxLost
  BY DEF Bus, BusTypes
<1>2. o \in [boot : Nat \ {0}, uptime : -1..MaxUptime] /\ o.boot = n.boot /\ o.uptime = u
  BY UptimeAssumption DEF Bus, BusTypes
<1> HIDE DEF o
<1>3. w \in 0..MaxLost
  BY <1>1, LostAssumption
<1>4. BusTypes(B, h, es, l, o) /\ NodeIsNewest(B, h, o)
  BY <1>2 DEF Bus, BusTypes, NodeIsNewest
<1>5. ASSUME NEW v \in Int, w = t + 1
      PROVE  /\ n.uptime <= v + t => o.uptime <= v + w
             /\ Unheard(v, n, t) => Unheard(v, o, w)
  BY <1>1, <1>2, <1>5, UptimeAssumption DEF Unheard
<1>6. FinalIsNode(es, o, w)
  <2> SUFFICES ASSUME NEW i \in DOMAIN es, Final(es, i)
               PROVE  \/ es[i].boot = o.boot /\ o.uptime <= es[i].uptime + w
                      \/ Unheard(es[i].uptime, o, w)
    BY DEF FinalIsNode
  <2>1. w = t + 1 /\ es[i].uptime \in Int
    BY DEF Bus, BusTypes, Final, Beat
  <2>2. \/ es[i].boot = n.boot /\ n.uptime <= es[i].uptime + t
        \/ Unheard(es[i].uptime, n, t)
    BY DEF Bus, FinalIsNode
  <2> QED
    BY <1>2, <1>5, <2>1, <2>2
<1>7. LibraryIsNode(B, h, es, l, o, w)
  <2> SUFFICES ASSUME \A i \in DOMAIN es : ~Beat(es, i), l.online
               PROVE  \/ Known(B, h, o.boot) /\ o.uptime <= l.uptime + w
                      \/ Unheard(l.uptime, o, w)
    BY DEF LibraryIsNode
  <2>1. w = t + 1 /\ l.uptime \in Int
    BY DEF Bus, BusTypes
  <2>2. \/ Known(B, h, n.boot) /\ n.uptime <= l.uptime + t
        \/ Unheard(l.uptime, n, t)
    BY DEF Bus, LibraryIsNode
  <2> QED
    BY <1>2, <1>5, <2>1, <2>2
<1> QED
  BY <1>3, <1>4, <1>6, <1>7 DEF Bus, o

\* a restart, after an incarnation that has counted further than heartbeats are lost in a row
LEMMA BusRestarts ==
  ASSUME MaxLost < MinUptime,
         NEW B, NEW h, NEW es, NEW l, NEW n, NEW t, Bus(B, h, es, l, n, t), n.uptime >= MinUptime
  PROVE  Bus(B, h, es, l, [boot |-> n.boot + 1, uptime |-> -1], t)
<1> DEFINE o == [boot |-> n.boot + 1, uptime |-> -1]
<1>1. n.boot \in Nat \ {0} /\ n.uptime \in -1..MaxUptime
  BY DEF Bus, BusTypes
<1>2. o \in [boot : Nat \ {0}, uptime : -1..MaxUptime] /\ o.boot = n.boot + 1 /\ o.uptime = -1
  BY <1>1, UptimeAssumption
<1> HIDE DEF o
<1>3. BusTypes(B, h, es, l, o)
  <2>1. \A b \in 1..n.boot : b \in 1..o.boot
    BY <1>1, <1>2
  <2> QED
    BY <1>2, <2>1 DEF Bus, BusTypes
<1>4. NodeIsNewest(B, h, o)
  BY <1>1, <1>2 DEF Bus, BusTypes, NodeIsNewest
<1>7. t \in 0..MaxLost /\ t < MinUptime /\ MinUptime \in Nat
  BY LostAssumption, UptimeAssumption DEF Bus
<1>8. ASSUME NEW v \in Int, n.uptime <= v + t \/ Unheard(v, n, t)
      PROVE  Unheard(v, o, t)
  BY <1>1, <1>2, <1>7, <1>8 DEF Unheard
<1>5. FinalIsNode(es, o, t)
  <2>1. \A i \in DOMAIN es : Final(es, i) => es[i].uptime \in Int
    BY DEF Bus, BusTypes, Final, Beat
  <2> QED
    BY <1>8, <2>1 DEF Bus, FinalIsNode
<1>6. LibraryIsNode(B, h, es, l, o, t)
  <2>1. l.uptime \in Int
    BY DEF Bus, BusTypes
  <2> QED
    BY <1>8, <2>1 DEF Bus, LibraryIsNode
<1> QED
  BY <1>3, <1>4, <1>5, <1>6 DEF Bus, o

\* the library handles a heartbeat
LEMMA BusHeard ==
  ASSUME NEW B, NEW h, NEW es, NEW l, NEW n, NEW t, Bus(B, h, es, l, n, t),
         es # <<>>, Head(es).kind = "heartbeat"
  PROVE  LET up == Head(es).uptime
         IN  /\ Head(es).boot \in Nat
             /\ Known(B, h, Head(es).boot) \/ (l.online => up < l.uptime)
             /\ Bus(B \cup {Head(es).boot}, h, Tail(es), [online |-> TRUE, uptime |-> up], n, t)
<1> DEFINE r  == Tail(es)
           b1 == Head(es).boot
           u1 == Head(es).uptime
           C  == B \cup {b1}
           k1 == [online |-> TRUE, uptime |-> u1]
<1>1. Queue(es) /\ Queue(r) /\ es[1] = Head(es) /\ 1 \in DOMAIN es
  BY Popped, Shifted DEF Bus, BusTypes
<1>2. \A i \in DOMAIN r : i \in Nat /\ i # 0 /\ i + 1 \in DOMAIN es /\ r[i] = es[i + 1]
  <2>1. \A i \in DOMAIN r : i \in Nat /\ i # 0
    BY <1>1, Popped
  <2> QED
    BY <1>1, <2>1, Shifted
<1>3. \A i \in DOMAIN es : i \in Nat /\ i # 0 /\ (i = 1 \/ (i - 1 \in DOMAIN r /\ es[i] = r[i - 1]))
  <2>1. \A i \in DOMAIN es : i \in Nat /\ i # 0
    BY <1>1, Popped
  <2> QED
    BY <1>1, <2>1, Shifted
<1>4. b1 \in Nat /\ u1 \in Nat /\ n.boot \in Nat \ {0} /\ b1 <= n.boot
  BY <1>1 DEF Bus, BusTypes
<1>5. k1 \in [online : BOOLEAN, uptime : Int] /\ k1.online /\ k1.uptime = u1
  BY <1>4
<1>6. Beat(es, 1)
  BY <1>1 DEF Beat
<1> HIDE DEF r, b1, u1, C, k1
<1>7. \A i : Beat(r, i) => i \in Nat /\ i # 0 /\ i \in DOMAIN r /\ r[i] = es[i + 1] /\ Beat(es, i + 1)
  BY <1>2 DEF Beat
<1>8. \A i \in DOMAIN es : Beat(es, i) => i = 1 \/ Beat(r, i - 1)
  BY <1>3 DEF Beat
<1>9. \A b : Known(B, h, b) => Known(C, h, b)
  BY DEF Known, C
<1>10. \A b \in Nat : b <= b1 => Known(C, h, b)
  BY <1>4 DEF Known, C
<1>11. Known(B, h, b1) \/ (l.online => u1 < l.uptime)
  <2>1. First(es, 1)
    BY <1>3, <1>6 DEF First
  <2> QED
    BY <1>1, <2>1 DEF Bus, FirstShows, b1, u1
<1>12. BusTypes(C, h, r, k1, n)
  <2>1. \A i \in DOMAIN r : r[i].kind \in {"heartbeat", "answer"} => r[i].boot \in 1..n.boot
    BY <1>2 DEF Bus, BusTypes
  <2>2. \A i \in DOMAIN r : r[i].kind = "heartbeat" => r[i].uptime \in Nat
    BY <1>2 DEF Bus, BusTypes
  <2> QED
    BY <1>1, <1>4, <1>5, <2>1, <2>2 DEF Bus, BusTypes, C
<1>13. NodeIsNewest(C, h, n)
  BY <1>4 DEF Bus, NodeIsNewest, C
<1>14. AnswersInOrder(C, h, r)
  <2> SUFFICES ASSUME NEW k \in DOMAIN r, r[k].kind = "answer"
               PROVE  /\ h <= r[k].boot
                      /\ \A b \in C : b <= r[k].boot
                      /\ \A i \in DOMAIN r : i < k /\ Beat(r, i) => r[i].boot <= r[k].boot
    BY DEF AnswersInOrder
  <2>1. /\ h <= es[k + 1].boot
        /\ \A b \in B : b <= es[k + 1].boot
        /\ \A i \in DOMAIN es : i < k + 1 /\ Beat(es, i) => es[i].boot <= es[k + 1].boot
    BY <1>2 DEF Bus, AnswersInOrder
  <2>2. b1 <= es[k + 1].boot
    <3>1. 1 < k + 1
      BY <1>2
    <3> QED
      BY <1>1, <1>6, <2>1, <3>1 DEF b1
  <2>3. ASSUME NEW i \in DOMAIN r, i < k, Beat(r, i)
        PROVE  r[i].boot <= r[k].boot
    <3>1. i + 1 < k + 1 /\ i + 1 \in DOMAIN es
      BY <1>2, <2>3
    <3> QED
      BY <1>2, <1>7, <2>1, <2>3, <3>1
  <2> QED
    BY <1>2, <2>1, <2>2, <2>3 DEF C
<1>15. FirstShows(C, h, r, k1)
  <2> SUFFICES ASSUME NEW k \in DOMAIN r, First(r, k)
               PROVE  Known(C, h, r[k].boot) \/ (k1.online => r[k].uptime < k1.uptime)
    BY DEF FirstShows
  <2>1. NextTo(es, 1, k + 1)
    <3>1. Beat(es, k + 1) /\ 1 < k + 1
      BY <1>2, <1>7 DEF First
    <3>2. ASSUME NEW j \in DOMAIN es, 1 < j, j < k + 1
          PROVE  ~Beat(es, j)
      <4>1. j # 1 /\ j - 1 \in DOMAIN r /\ j - 1 < k
        BY <1>2, <1>3, <3>2
      <4> QED
        BY <1>8, <4>1 DEF First
    <3> QED
      BY <1>6, <3>1, <3>2 DEF NextTo
  <2>2. r[k].boot <= b1 \/ r[k].uptime < u1
    BY <1>1, <1>2, <2>1 DEF Bus, NextShows, NextTo, b1, u1
  <2>3. r[k].boot \in Nat
    BY <1>12 DEF BusTypes, First, Beat
  <2> QED
    BY <1>5, <1>10, <2>2, <2>3
<1>16. NextShows(r)
  <2> SUFFICES ASSUME NEW i \in DOMAIN r, NEW k \in DOMAIN r, NextTo(r, i, k)
               PROVE  r[k].boot <= r[i].boot \/ r[k].uptime < r[i].uptime
    BY DEF NextShows
  <2>1. NextTo(es, i + 1, k + 1)
    <3>1. Beat(es, i + 1) /\ Beat(es, k + 1) /\ i + 1 < k + 1
      BY <1>2, <1>7 DEF NextTo
    <3>2. ASSUME NEW j \in DOMAIN es, i + 1 < j, j < k + 1
          PROVE  ~Beat(es, j)
      <4>1. j # 1 /\ j - 1 \in DOMAIN r /\ i < j - 1 /\ j - 1 < k
        BY <1>2, <1>3, <3>2
      <4> QED
        BY <1>8, <4>1 DEF NextTo
    <3> QED
      BY <3>1, <3>2 DEF NextTo
  <2> QED
    BY <1>2, <2>1 DEF Bus, NextShows, NextTo, Beat
<1>17. ASSUME NEW i \in DOMAIN r, Final(r, i)
       PROVE  Final(es, i + 1)
  <2>1. Beat(es, i + 1)
    BY <1>7, <1>17 DEF Final
  <2>2. ASSUME NEW j \in DOMAIN es, i + 1 < j
        PROVE  ~Beat(es, j)
    <3>1. j # 1 /\ j - 1 \in DOMAIN r /\ i < j - 1
      BY <1>2, <1>3, <2>2
    <3> QED
      BY <1>8, <1>17, <3>1 DEF Final
  <2> QED
    BY <2>1, <2>2 DEF Final
<1>18. FinalIsNode(r, n, t)
  BY <1>2, <1>17 DEF Bus, FinalIsNode
<1>19. LibraryIsNode(C, h, r, k1, n, t)
  <2> SUFFICES ASSUME \A i \in DOMAIN r : ~Beat(r, i)
               PROVE  \/ Known(C, h, n.boot) /\ n.uptime <= k1.uptime + t
                      \/ Unheard(k1.uptime, n, t)
    BY DEF LibraryIsNode
  <2>1. Final(es, 1)
    <3>1. ASSUME NEW j \in DOMAIN es, 1 < j
          PROVE  ~Beat(es, j)
      BY <1>3, <1>8, <3>1
    <3> QED
      BY <1>6, <3>1 DEF Final
  <2>2. \/ b1 = n.boot /\ n.uptime <= u1 + t
        \/ Unheard(u1, n, t)
    BY <1>1, <2>1 DEF Bus, FinalIsNode, b1, u1
  <2> QED
    BY <1>4, <1>5, <1>10, <2>2
<1> QED
  BY <1>4, <1>11, <1>12, <1>13, <1>14, <1>15, <1>16, <1>18, <1>19 DEF Bus, r, b1, u1, C, k1

\* the library handles an event that is no heartbeat; the silence of a node leaves it offline
LEMMA BusPopped ==
  ASSUME NEW B, NEW C, NEW h, NEW es, NEW l, NEW k \in [online : BOOLEAN, uptime : Int], NEW n, NEW t,
         Bus(B, h, es, l, n, t), es # <<>>, Head(es).kind # "heartbeat",
         B \subseteq C, C \subseteq B \cup {0}, k = l \/ ~k.online
  PROVE  Bus(C, h, Tail(es), k, n, t)
<1> DEFINE r == Tail(es)
<1>1. Queue(es) /\ Queue(r) /\ es[1] = Head(es) /\ 1 \in DOMAIN es
  BY Popped, Shifted DEF Bus, BusTypes
<1>2. \A i \in DOMAIN r : i \in Nat /\ i # 0 /\ i + 1 \in DOMAIN es /\ r[i] = es[i + 1]
  <2>1. \A i \in DOMAIN r : i \in Nat /\ i # 0
    BY <1>1, Popped
  <2> QED
    BY <1>1, <2>1, Shifted
<1>3. \A i \in DOMAIN es : i \in Nat /\ i # 0 /\ (i = 1 \/ (i - 1 \in DOMAIN r /\ es[i] = r[i - 1]))
  <2>1. \A i \in DOMAIN es : i \in Nat /\ i # 0
    BY <1>1, Popped
  <2> QED
    BY <1>1, <2>1, Shifted
<1> HIDE DEF r
<1>4. \A i : Beat(r, i) => i \in Nat /\ i # 0 /\ i \in DOMAIN r /\ r[i] = es[i + 1] /\ Beat(es, i + 1)
  BY <1>2 DEF Beat
<1>5. \A i \in DOMAIN es : Beat(es, i) => i # 1 /\ i - 1 \in DOMAIN r /\ Beat(r, i - 1)
  BY <1>1, <1>3 DEF Beat
<1>6. \A b : Known(B, h, b) => Known(C, h, b)
  BY DEF Known
<1>7. BusTypes(C, h, r, k, n)
  <2>1. \A i \in DOMAIN r : r[i].kind \in {"heartbeat", "answer"} => r[i].boot \in 1..n.boot
    BY <1>2 DEF Bus, BusTypes
  <2>2. \A i \in DOMAIN r : r[i].kind = "heartbeat" => r[i].uptime \in Nat
    BY <1>2 DEF Bus, BusTypes
  <2> QED
    BY <1>1, <2>1, <2>2 DEF Bus, BusTypes
<1>8. NodeIsNewest(C, h, n)
  <2>1. n.boot \in Nat \ {0} /\ \A b \in C : b \in B \/ b = 0
    BY DEF Bus, BusTypes
  <2>2. 0 <= n.boot
    BY <2>1
  <2> QED
    BY <2>1, <2>2 DEF Bus, NodeIsNewest
<1>9. AnswersInOrder(C, h, r)
  <2> SUFFICES ASSUME NEW j \in DOMAIN r, r[j].kind = "answer"
               PROVE  /\ h <= r[j].boot
                      /\ \A b \in C : b <= r[j].boot
                      /\ \A i \in DOMAIN r : i < j /\ Beat(r, i) => r[i].boot <= r[j].boot
    BY DEF AnswersInOrder
  <2>1. /\ h <= es[j + 1].boot
        /\ \A b \in B : b <= es[j + 1].boot
        /\ \A i \in DOMAIN es : i < j + 1 /\ Beat(es, i) => es[i].boot <= es[j + 1].boot
    BY <1>2 DEF Bus, AnswersInOrder
  <2>2. r[j].boot \in Nat
    BY <1>7 DEF BusTypes
  <2>3. ASSUME NEW i \in DOMAIN r, i < j, Beat(r, i)
        PROVE  r[i].boot <= r[j].boot
    <3>1. i + 1 < j + 1 /\ i + 1 \in DOMAIN es
      BY <1>2, <2>3
    <3> QED
      BY <1>2, <1>4, <2>1, <2>3, <3>1
  <2>4. \A b \in C : b \in B \/ b = 0
    OBVIOUS
  <2> QED
    BY <1>2, <2>1, <2>2, <2>3, <2>4
<1>10. FirstShows(C, h, r, k)
  <2> SUFFICES ASSUME NEW j \in DOMAIN r, First(r, j)
               PROVE  Known(C, h, r[j].boot) \/ (k.online => r[j].uptime < k.uptime)
    BY DEF FirstShows
  <2>1. First(es, j + 1)
    <3>1. Beat(es, j + 1)
      BY <1>4 DEF First
    <3>2. ASSUME NEW i \in DOMAIN es, i < j + 1
          PROVE  ~Beat(es, i)
      <4>1. i - 1 < j
        BY <1>2, <1>3, <3>2
      <4> QED
        BY <1>5, <4>1 DEF First
    <3> QED
      BY <3>1, <3>2 DEF First
  <2> QED
    BY <1>2, <1>6, <2>1 DEF Bus, FirstShows
<1>11. NextShows(r)
  <2> SUFFICES ASSUME NEW i \in DOMAIN r, NEW j \in DOMAIN r, NextTo(r, i, j)
               PROVE  r[j].boot <= r[i].boot \/ r[j].uptime < r[i].uptime
    BY DEF NextShows
  <2>1. NextTo(es, i + 1, j + 1)
    <3>1. Beat(es, i + 1) /\ Beat(es, j + 1) /\ i + 1 < j + 1
      BY <1>2, <1>4 DEF NextTo
    <3>2. ASSUME NEW x \in DOMAIN es, i + 1 < x, x < j + 1
          PROVE  ~Beat(es, x)
      <4>1. i < x - 1 /\ x - 1 < j
        BY <1>2, <1>3, <3>2
      <4> QED
        BY <1>5, <4>1 DEF NextTo
    <3> QED
      BY <3>1, <3>2 DEF NextTo
  <2> QED
    BY <1>2, <2>1 DEF Bus, NextShows, NextTo, Beat
<1>12. FinalIsNode(r, n, t)
  <2> SUFFICES ASSUME NEW i \in DOMAIN r, Final(r, i)
               PROVE  \/ r[i].boot = n.boot /\ n.uptime <= r[i].uptime + t
                      \/ Unheard(r[i].uptime, n, t)
    BY DEF FinalIsNode
  <2>1. Beat(es, i + 1)
    BY <1>4 DEF Final
  <2>2. ASSUME NEW j \in DOMAIN es, i + 1 < j
        PROVE  ~Beat(es, j)
    <3>1. i < j - 1
      BY <1>2, <1>3, <2>2
    <3> QED
      BY <1>5, <3>1 DEF Final
  <2>3. Final(es, i + 1)
    BY <2>1, <2>2 DEF Final
  <2> QED
    BY <1>2, <2>3 DEF Bus, FinalIsNode
<1>13. LibraryIsNode(C, h, r, k, n, t)
  <2> SUFFICES ASSUME \A i \in DOMAIN r : ~Beat(r, i), k.online
               PROVE  \/ Known(C, h, n.boot) /\ n.uptime <= k.uptime + t
                      \/ Unheard(k.uptime, n, t)
    BY DEF LibraryIsNode
  <2>1. \A i \in DOMAIN es : ~Beat(es, i)
    BY <1>5
  <2> QED
    BY <1>6, <2>1 DEF Bus, LibraryIsNode
<1> QED
  BY <1>7, <1>8, <1>9, <1>10, <1>11, <1>12, <1>13 DEF Bus, r

\* the coroutine of a status runs
LEMMA BusTold ==
  ASSUME NEW B, NEW C, NEW h, NEW k \in Nat, NEW es, NEW l, NEW n, NEW t, NEW b \in Nat,
         Bus(B, h, es, l, n, t),
         B = C \cup {b}, k \in {h, b}, k >= h, k >= b
  PROVE  Bus(C, k, es, l, n, t)
<1>1. \A x : Known(B, h, x) /\ x \in Nat => Known(C, k, x)
  BY DEF Bus, BusTypes, Known
<1>2. BusTypes(C, k, es, l, n)
  BY DEF Bus, BusTypes
<1>3. NodeIsNewest(C, k, n)
  BY DEF Bus, NodeIsNewest
<1>4. AnswersInOrder(C, k, es)
  BY DEF Bus, AnswersInOrder
<1>5. FirstShows(C, k, es, l)
  <2> SUFFICES ASSUME NEW i \in DOMAIN es, First(es, i)
               PROVE  Known(C, k, es[i].boot) \/ (l.online => es[i].uptime < l.uptime)
    BY DEF FirstShows
  <2>1. es[i].boot \in Nat
    BY DEF Bus, BusTypes, First, Beat
  <2> QED
    BY <1>1, <2>1 DEF Bus, FirstShows
<1>6. LibraryIsNode(C, k, es, l, n, t)
  BY <1>1 DEF Bus, BusTypes, LibraryIsNode
<1> QED
  BY <1>2, <1>3, <1>4, <1>5, <1>6 DEF Bus
-----------------------------------------------------------------------------
LEMMA NodeStart == NodeInit => NodeInv
<1> SUFFICES ASSUME NodeInit
             PROVE  NodeInv
  OBVIOUS
<1>1. Queue(ready) /\ DOMAIN ready = {1} /\ ready[1] = Select
  <2>1. ready \in Seq({Select})
    BY DEF NodeInit
  <2>2. DOMAIN ready = {1} /\ ready[1] = Select
    BY DEF NodeInit
  <2> QED
    BY <2>1, <2>2 DEF Queue
<1>2. Queue(<<>>) /\ DOMAIN <<>> = {}
  BY DEF Queue
<1>3. Boots(ready) = {}
  BY <1>1 DEF Boots, Select
<1>4. Calm(ready, heard, met)
  BY <1>1 DEF NodeInit, Calm, HandleTypes, WakeUpsInOrder, ResultsInOrder, FirstForgets, Carrying, Carries,
              IsStatus, Select
<1>5. Loop(ready, found)
  BY <1>1 DEF Loop, OneSelect, TickThenSelect, ResultsOfThisTick, Carrying, Carries, Select
<1>6. BusTypes({}, heard, events, lib, node)
  BY <1>2, UptimeAssumption DEF NodeInit, BusTypes
<1>7. Bus({}, heard, events, lib, node, missed)
  BY <1>2, <1>6, LostAssumption DEF NodeInit, Bus, NodeIsNewest, AnswersInOrder, FirstShows, First, NextShows, NextTo,
                    FinalIsNode, Final, LibraryIsNode, Beat
<1>8. Queue(found) /\ Range(found) \subseteq Nat /\ info \in Nat /\ InfoIsCurrent
  BY <1>2 DEF NodeInit, InfoIsCurrent, None, Range
<1> QED
  BY <1>3, <1>4, <1>5, <1>7, <1>8 DEF NodeInv

\* what the getters do to the list: the head leaves, at most a step or a grant of the lock comes
Quiet ==
  /\ Head(ready).kind \notin {"select", "tick", "status"}
  /\ \/ ready' = Tail(ready)
     \/ \E g : ready' = Append(Tail(ready), Locked(g))

LEMMA Nonempty == NodeInv => ready # <<>> /\ Queue(ready) /\ Head(ready) = ready[1] /\ 1 \in DOMAIN ready
<1> SUFFICES ASSUME NodeInv
             PROVE  ready # <<>> /\ Queue(ready) /\ Head(ready) = ready[1] /\ 1 \in DOMAIN ready
  OBVIOUS
<1>1. Queue(ready) /\ ready # <<>>
  BY DEF NodeInv, Loop, OneSelect
<1> QED
  BY <1>1, Popped, Shifted

LEMMA QuietHandles ==
  ASSUME NodeInv, Quiet
  PROVE  Calm(ready', heard, met) /\ Loop(ready', found) /\ Boots(ready') = Boots(ready)
<1> DEFINE r == Tail(ready)
<1>1. ready # <<>> /\ Queue(ready) /\ Queue(r)
  BY Nonempty, Popped
<1>2. Calm(r, heard, met)
  BY <1>1, CalmLeft DEF NodeInv, Quiet
<1>3. Loop(r, found)
  BY <1>1, LoopPopped DEF NodeInv, Quiet
<1>4. Boots(r) = Boots(ready)
  BY <1>1, BootsOfPopped DEF Quiet
<1>5. ASSUME NEW g
      PROVE  /\ Calm(Append(r, Locked(g)), heard, met)
             /\ Loop(Append(r, Locked(g)), found)
             /\ Boots(Append(r, Locked(g))) = Boots(r)
  <2>1. Locked(g).kind = "locked"
    BY DEF Locked
  <2> QED
    BY <1>1, <1>2, <1>3, <2>1, CalmPushed, LoopPushed, BootsOfPushed
<1> QED
  BY <1>2, <1>3, <1>4, <1>5 DEF Quiet

\* the steps of a getter leave the node, the bus and what was heard alone
LEMMA QuietKeeps ==
  ASSUME NodeInv, Quiet, UNCHANGED <<node, missed, events, lib, found, heard, met>>, info' \in Nat, InfoIsCurrent'
  PROVE  NodeInv'
BY QuietHandles DEF NodeInv

LEMMA GettersKeep ==
  ASSUME NodeInv, NEW g \in Getters, RunStep(g) \/ RunLocked(g) \/ RunWakeUp(g)
  PROVE  NodeInv'
<1> DEFINE Turn == \/ ready' = Tail(ready)
                   \/ \E w : ready' = Append(Tail(ready), Locked(w))
<1>1. Queue(Tail(ready)) /\ \A x : Tail(ready) \o <<x>> = Append(Tail(ready), x) /\ Tail(ready) \o <<>> = Tail(ready)
  <2>1. ready # <<>> /\ Queue(ready)
    BY Nonempty
  <2>2. Queue(Tail(ready))
    BY <2>1, Popped
  <2>3. PICK S : Tail(ready) \in Seq(S)
    BY <2>2 DEF Queue
  <2>4. Tail(ready) \o <<>> = Tail(ready)
    BY <2>3, ConcatEmptySeq
  <2>5. \A x : Tail(ready) \o <<x>> = Append(Tail(ready), x)
    BY <2>3, AppendIsConcat
  <2> QED
    BY <2>2, <2>4, <2>5
<1>2. \A waiters : Body(g, waiters) => Turn
  BY <1>1 DEF Body
<1>3. \A outcome : Leave(g, outcome) => Turn
  BY <1>1 DEF Leave
<1>4. CASE RunStep(g)
  <2>1. Quiet
    BY <1>2, <1>4 DEF RunStep, Quiet, Step
  <2> QED
    BY <1>4, <2>1, QuietKeeps DEF RunStep, NodeInv, InfoIsCurrent
<1>5. CASE RunLocked(g)
  <2>1. Quiet
    <3>1. Body(g, OthersWaiting(g)) /\ Head(ready).kind = "locked"
      BY <1>5 DEF RunLocked, Locked
    <3> HIDE DEF Turn
    <3>2. Turn
      BY <1>2, <3>1
    <3> QED
      BY <3>1, <3>2 DEF Quiet, Turn
  <2> QED
    BY <1>5, <2>1, QuietKeeps DEF RunLocked, NodeInv, InfoIsCurrent
<1>6. CASE RunWakeUp(g)
  <2>1. Quiet
    BY <1>3, <1>6 DEF RunWakeUp, Quiet
  <2>2. CASE info' = info
    BY <1>6, <2>1, <2>2, QuietKeeps DEF RunWakeUp, NodeInv, InfoIsCurrent
  <2>3. CASE Head(ready).answer # None /\ info' = Head(ready).answer
    <3>1. Carrying(ready, 1, "wakeup") /\ Head(ready) = ready[1]
      BY <1>6, <2>3, Nonempty DEF RunWakeUp, Carrying, Carries
    <3>2. ~met => heard <= ready[1].answer
      BY <3>1 DEF NodeInv, Calm, WakeUpsInOrder, Carrying, Carries
    <3>3. ready[1].answer \in Nat /\ heard \in Nat
      BY <3>1 DEF NodeInv, Calm, HandleTypes, Carrying, Carries
    <3> QED
      BY <1>6, <2>1, <2>3, <3>1, <3>2, <3>3, QuietKeeps DEF RunWakeUp, InfoIsCurrent
  <2> QED
    BY <1>6, <2>2, <2>3 DEF RunWakeUp
<1> QED
  BY <1>4, <1>5, <1>6
\* set_result schedules the waiter of its answer behind every status that waits
LEMMA SetResultKeeps ==
  ASSUME NodeInv, NEW g \in Getters, RunSetResult(g)
  PROVE  NodeInv'
<1> DEFINE r == Tail(ready)
           x == WakeUp(g, Head(ready).answer)
<1>1. ready # <<>> /\ Queue(ready) /\ Head(ready) = ready[1] /\ 1 \in DOMAIN ready /\ Queue(r)
  BY Nonempty, Popped
<1>2. Head(ready).kind = "set_result" /\ ready' = Append(r, x)
  BY DEF RunSetResult
<1>3. x.kind = "wakeup" /\ x.answer = Head(ready).answer
  BY DEF WakeUp
<1>4. Calm(r, heard, met)
  BY <1>1, <1>2, CalmLeft DEF NodeInv
<1>5. Boots(r) = Boots(ready) /\ Boots(Append(r, x)) = Boots(r)
  BY <1>1, <1>2, <1>3, BootsOfPopped, BootsOfPushed
<1>6. x.answer \in Nat /\ (~met /\ x.answer # None => NoOlder(r, heard, x.answer))
  <2>1. x.answer \in Nat
    BY <1>1, <1>2, <1>3 DEF NodeInv, Calm, HandleTypes
  <2>2. ASSUME ~met, x.answer # None
        PROVE  NoOlder(r, heard, x.answer)
    <3>1. Carrying(ready, 1, "set_result")
      BY <1>1, <1>2, <1>3, <2>2 DEF Carrying, Carries
    <3>2. /\ heard <= x.answer
          /\ \A i \in DOMAIN ready : IsStatus(ready, i) => ready[i].boot <= x.answer
      BY <1>1, <1>3, <2>2, <3>1 DEF NodeInv, Calm, ResultsInOrder
    <3> QED
      BY <1>5, <3>2 DEF NoOlder, Boots, IsStatus
  <2> QED
    BY <2>1, <2>2
<1> HIDE DEF x, r
<1>7. Calm(Append(r, x), heard, met)
  BY <1>3, <1>4, <1>6, CalmPushed
<1>8. Loop(Append(r, x), found)
  <2>1. Loop(r, found)
    BY <1>1, <1>2, LoopPopped DEF NodeInv, r
  <2> QED
    BY <1>3, <2>1, LoopPushed
<1> QED
  BY <1>2, <1>5, <1>7, <1>8 DEF RunSetResult, NodeInv, InfoIsCurrent

\* _status_callback forgets what an earlier incarnation said
LEMMA StatusKeeps ==
  ASSUME NodeInv, RunStatus
  PROVE  NodeInv'
<1> DEFINE r == Tail(ready)
           b == Head(ready).boot
<1>1. ready # <<>> /\ Queue(ready) /\ Head(ready) = ready[1] /\ 1 \in DOMAIN ready /\ Queue(r)
  BY Nonempty, Popped
<1>2. Head(ready).kind = "status" /\ ready' = r /\ heard' = Max({heard, b})
  BY DEF RunStatus
<1>3. b \in Nat /\ heard \in Nat
  BY <1>1, <1>2 DEF NodeInv, Calm, HandleTypes
<1>4. heard' \in {heard, b} /\ heard' >= heard /\ heard' >= b /\ heard' \in Nat
  BY <1>2, <1>3, MaxOfTwo
<1> HIDE DEF r
<1>5. Calm(r, heard', met)
  BY <1>1, <1>2, <1>4, CalmPopped DEF NodeInv, r
<1>6. Loop(r, found)
  BY <1>1, <1>2, LoopPopped DEF NodeInv, r
<1>7. Bus(Boots(r), heard', events, lib, node, missed)
  <2>1. Boots(ready) = Boots(r) \cup {b}
    BY <1>1, <1>2, BootsOfPopped DEF r
  <2> QED
    BY <1>3, <1>4, <2>1, BusTold DEF NodeInv
<1>8. info' \in Nat /\ InfoIsCurrent'
  <2>1. CASE Forgets(Head(ready).old, Head(ready).new)
    BY <2>1 DEF RunStatus, InfoIsCurrent, None
  <2>2. CASE ~Forgets(Head(ready).old, Head(ready).new)
    <3>1. b <= heard
      <4>1. ~\E j \in DOMAIN ready : j < 1
        BY <1>1, Popped
      <4> QED
        BY <1>1, <1>2, <2>2, <4>1 DEF NodeInv, Calm, FirstForgets, IsStatus
    <3>2. heard' = heard
      BY <1>3, <1>4, <3>1
    <3> QED
      BY <2>2, <3>2 DEF RunStatus, NodeInv, InfoIsCurrent
  <2> QED
    BY <2>1, <2>2
<1> QED
  BY <1>2, <1>5, <1>6, <1>7, <1>8 DEF RunStatus, NodeInv

LEMMA SelectKeeps ==
  ASSUME NodeInv, RunSelect
  PROVE  NodeInv'
<1> DEFINE r == Tail(ready)
<1>1. ready # <<>> /\ Queue(ready) /\ Queue(r)
  BY Nonempty, Popped
<1>2. Head(ready).kind = "select" /\ Select.kind = "select" /\ Tick.kind = "tick"
  BY DEF RunSelect, Select, Tick
<1>3. ready' = Append(r, Select) \/ ready' = Append(Append(r, Tick), Select)
  <2>1. PICK S : r \in Seq(S)
    BY <1>1 DEF Queue
  <2>2. PICK T : T = S \cup {Tick, Select}
    OBVIOUS
  <2>3. r \in Seq(T) /\ Tick \in T /\ Select \in T
    BY <2>1, <2>2, SeqMonotonic
  <2>4. r \o <<>> = r /\ r \o <<Tick>> = Append(r, Tick) /\ r \o <<Select>> = Append(r, Select)
    BY <2>3, ConcatEmptySeq, AppendIsConcat
  <2>5. Append(r, Tick) \o <<Select>> = Append(Append(r, Tick), Select)
    <3>1. Append(r, Tick) \in Seq(T)
      BY <2>3, AppendProperties
    <3> QED
      BY <2>3, <3>1, AppendIsConcat
  <2> QED
    BY <2>4, <2>5 DEF RunSelect
<1>4. Calm(r, heard, met) /\ Boots(r) = Boots(ready)
  BY <1>1, <1>2, CalmLeft, BootsOfPopped DEF NodeInv
<1> HIDE DEF r
<1>5. Calm(Append(r, Select), heard, met) /\ Boots(Append(r, Select)) = Boots(r)
  BY <1>1, <1>2, <1>4, CalmPushed, BootsOfPushed
<1>6. /\ Calm(Append(Append(r, Tick), Select), heard, met)
      /\ Boots(Append(Append(r, Tick), Select)) = Boots(r)
  <2>1. Calm(Append(r, Tick), heard, met) /\ Boots(Append(r, Tick)) = Boots(r) /\ Queue(Append(r, Tick))
    BY <1>1, <1>2, <1>4, CalmPushed, BootsOfPushed, Pushed
  <2> QED
    BY <1>2, <2>1, CalmPushed, BootsOfPushed
<1>7. Loop(Append(r, Select), found) /\ Loop(Append(Append(r, Tick), Select), found)
  BY <1>1, <1>2, LoopTurns DEF NodeInv, r
<1>8. Calm(ready', heard, met) /\ Loop(ready', found) /\ Boots(ready') = Boots(ready)
  BY <1>3, <1>4, <1>5, <1>6, <1>7
<1> QED
  BY <1>8 DEF RunSelect, NodeInv, InfoIsCurrent

LEMMA TickEndKeeps ==
  ASSUME NodeInv, TickEnds
  PROVE  NodeInv'
<1>1. ready # <<>> /\ Queue(ready) /\ Head(ready).kind = "tick" /\ ready' = Tail(ready)
  BY Nonempty DEF TickEnds, Tick
<1>2. Calm(ready', heard, met) /\ Boots(ready') = Boots(ready)
  BY <1>1, CalmLeft, BootsOfPopped DEF NodeInv
<1>3. Loop(ready', <<>>)
  BY <1>1, LoopTickEnds DEF NodeInv
<1>4. Queue(<<>>) /\ Range(<<>>) \subseteq Nat
  BY DEF Queue, Range
<1> QED
  BY <1>2, <1>3, <1>4 DEF TickEnds, NodeInv, InfoIsCurrent

\* one event of a tick
LEMMA TickKeeps ==
  ASSUME NodeInv, RunTick
  PROVE  NodeInv'
<1> DEFINE e == Head(events)
<1>1. ready # <<>> /\ Queue(ready) /\ Head(ready).kind = "tick"
  BY Nonempty DEF RunTick, Tick
<1>2. Queue(events) /\ events # <<>> /\ events[1] = e /\ 1 \in DOMAIN events /\ events' = Tail(events)
  BY Popped, Shifted DEF RunTick, NodeInv, Bus, BusTypes
<1>3. Queue(found) /\ Queue(found') /\ Range(found') = Range(found) \cup {Given(e)} /\ Range(found') \subseteq Nat
  <2>1. Given(e) \in Nat
    <3>1. node.boot \in Nat /\ (events[1].kind = "answer" => events[1].boot \in 1..node.boot)
      BY <1>2 DEF NodeInv, Bus, BusTypes
    <3> QED
      BY <1>2, <3>1 DEF Given, None
  <2>2. Queue(found) /\ Range(found) \subseteq Nat /\ found' = Append(found, Given(e))
    BY DEF RunTick, NodeInv
  <2> QED
    BY <2>1, <2>2, Pushed, RangeOfPushed
<1>4. UNCHANGED <<node, missed, info, heard>> /\ (met => met')
  BY DEF RunTick
<1>5. lib \in [online : BOOLEAN, uptime : Int] /\ heard \in Nat
  BY DEF NodeInv, Bus, BusTypes
<1>6. InfoIsCurrent' /\ info' \in Nat
  BY <1>4 DEF NodeInv, InfoIsCurrent
<1>7. CASE e.kind = "heartbeat"
  <2> DEFINE new == [online |-> TRUE, uptime |-> e.uptime]
             x   == Status(lib, new, e.boot)
  <2>1. lib' = new /\ ready' = Append(ready, x)
    BY <1>7 DEF RunTick, Handled, Reported
  <2>2. /\ e.boot \in Nat
        /\ Known(Boots(ready), heard, e.boot) \/ (lib.online => e.uptime < lib.uptime)
        /\ Bus(Boots(ready) \cup {e.boot}, heard, Tail(events), new, node, missed)
    BY <1>2, <1>7, BusHeard DEF NodeInv
  <2>3. x.kind = "status" /\ x.boot = e.boot /\ x.old = lib /\ x.new = new /\ new.online /\ new.uptime = e.uptime
    BY DEF Status
  <2>4. met' \/ \A a \in Range(found) : a # None => e.boot <= a
    <3>1. Range(found) \subseteq Nat
      BY DEF NodeInv
    <3>2. CASE Meets(e)
      BY <3>2 DEF RunTick
    <3>3. CASE ~Meets(e)
      <4>1. e.boot \in Nat /\ \A a \in Range(found) : a # None => ~(a < e.boot)
        BY <1>7, <2>2, <3>3 DEF Meets
      <4> HIDE DEF e
      <4> QED
        BY <3>1, <4>1
    <3> QED
      BY <3>2, <3>3
  <2> HIDE DEF x, new
  <2>5. Forgets(x.old, x.new) \/ Known(Boots(ready), heard, x.boot)
    BY <2>2, <2>3 DEF Forgets
  <2>6. Calm(Append(ready, x), heard, met')
    BY <1>1, <1>4, <2>2, <2>3, <2>4, <2>5, CalmTold DEF NodeInv
  <2>7. Loop(Append(ready, x), found')
    BY <1>3, <2>3, LoopPushed DEF NodeInv
  <2>8. Boots(Append(ready, x)) = Boots(ready) \cup {e.boot}
    BY <1>1, <2>3, BootsOfPushed
  <2> QED
    BY <1>2, <1>3, <1>4, <1>6, <2>1, <2>2, <2>6, <2>7, <2>8 DEF NodeInv
<1>8. CASE e.kind = "silence"
  <2> DEFINE new == [online |-> FALSE, uptime |-> 0]
             x   == Status(lib, new, 0)
  <2>1. lib' = new /\ ready' = Append(ready, x)
    BY <1>8 DEF RunTick, Handled, Reported
  <2>2. new \in [online : BOOLEAN, uptime : Int] /\ ~new.online
    OBVIOUS
  <2>3. x.kind = "status" /\ x.boot = 0 /\ x.old = lib /\ x.new = new
    BY DEF Status
  <2> HIDE DEF x, new
  <2>4. Bus(Boots(ready) \cup {0}, heard, Tail(events), new, node, missed)
    BY <1>2, <1>8, <2>2, BusPopped DEF NodeInv
  <2>5. Calm(Append(ready, x), heard, met')
    BY <1>1, <1>4, <2>2, <2>3, CalmTold DEF NodeInv, Forgets
  <2>6. Loop(Append(ready, x), found')
    BY <1>3, <2>3, LoopPushed DEF NodeInv
  <2>7. Boots(Append(ready, x)) = Boots(ready) \cup {0}
    BY <1>1, <2>3, BootsOfPushed
  <2> QED
    BY <1>2, <1>3, <1>4, <1>6, <2>1, <2>4, <2>5, <2>6, <2>7 DEF NodeInv
<1>9. CASE e.kind \in {"answer", "timeout"}
  <2>1. PICK g, answer : Finished(g, answer) /\ (e.kind = "answer" => answer = e.boot)
                                             /\ (e.kind = "timeout" => answer = None)
    BY <1>9 DEF RunTick, Handled
  <2>2. answer \in Nat /\ (answer # None => NoOlder(ready, heard, answer) /\ answer \in Range(found'))
    <3>1. CASE e.kind = "answer"
      <4>1. answer = events[1].boot /\ events[1].kind = "answer"
        BY <1>2, <2>1, <3>1
      <4> QED
        BY <1>2, <1>3, <3>1, <4>1 DEF NodeInv, Bus, BusTypes, AnswersInOrder, NoOlder, Given
    <3>2. CASE e.kind = "timeout"
      BY <2>1, <3>2 DEF None
    <3> QED
      BY <1>9, <3>1, <3>2
  <2>3. lib' = lib /\ Calm(ready, heard, met')
    BY <1>4, <2>1 DEF Finished, NodeInv, Calm
  <2>4. Bus(Boots(ready), heard, Tail(events), lib, node, missed)
    BY <1>2, <1>5, <1>9, BusPopped DEF NodeInv
  <2>5. CASE ready' = ready
    <3>1. Loop(ready, found')
      BY <1>3 DEF NodeInv, Loop, ResultsOfThisTick
    <3> QED
      BY <1>2, <1>3, <1>4, <1>6, <2>3, <2>4, <2>5, <3>1 DEF NodeInv
  <2>6. CASE ready' = Append(ready, SetResult(g, answer))
    <3> DEFINE x == SetResult(g, answer)
    <3>1. x.kind = "set_result" /\ x.answer = answer
      BY DEF SetResult
    <3> HIDE DEF x
    <3>2. Calm(Append(ready, x), heard, met')
      BY <2>2, <2>3, <3>1, CalmPushed
    <3>3. Loop(Append(ready, x), found')
      BY <1>3, <2>2, <3>1, LoopPushed DEF NodeInv
    <3>4. Boots(Append(ready, x)) = Boots(ready)
      BY <1>1, <3>1, BootsOfPushed
    <3> QED
      BY <1>2, <1>3, <1>4, <1>6, <2>3, <2>4, <2>6, <3>2, <3>3, <3>4 DEF NodeInv, x
  <2> QED
    BY <2>1, <2>5, <2>6 DEF Finished
<1> QED
  BY <1>7, <1>8, <1>9 DEF RunTick, Handled

\* the node, the bus and the timers change what is on its way only
LEMMA BusKeeps ==
  ASSUME NodeInv, UNCHANGED <<lib, ready, found, info, heard, met>>,
         Bus(Boots(ready), heard, events', lib, node', missed')
  PROVE  NodeInv'
BY DEF NodeInv, InfoIsCurrent

LEMMA NodeStep ==
  ASSUME MaxLost < MinUptime, NodeInv, [NodeNext]_nodeVars
  PROVE  NodeInv'
<1> DEFINE u == NextUptime
<1>9. u \in 0..MaxUptime /\ u <= node.uptime + 1
  <2>1. node.uptime \in -1..MaxUptime
    BY DEF NodeInv, Bus, BusTypes
  <2> QED
    BY <2>1, UptimeAssumption DEF NextUptime
<1> HIDE DEF u
<1>1. CASE Heartbeat
  <2> DEFINE x == [kind |-> "heartbeat", uptime |-> u, boot |-> node.boot]
  <2>1. node' = [node EXCEPT !.uptime = u] /\ events' = Append(events, x) /\ missed' = 0
    BY <1>1 DEF Heartbeat, u
  <2>2. x.kind = "heartbeat" /\ x.boot = node.boot /\ x.uptime = u
    OBVIOUS
  <2> HIDE DEF x
  <2>3. Bus(Boots(ready), heard, Append(events, x), lib, [node EXCEPT !.uptime = u], 0)
    BY <1>9, <2>2, BusBeats DEF NodeInv
  <2> QED
    BY <1>1, <2>1, <2>3, BusKeeps DEF Heartbeat
<1>10. CASE LoseHeartbeat
  <2>1. node' = [node EXCEPT !.uptime = u] /\ events' = events
    BY <1>10 DEF LoseHeartbeat, u
  <2>2. \/ missed < MaxLost /\ missed' = missed + 1
        \/ ~lib.online /\ (\A i \in DOMAIN events : ~Beat(events, i)) /\ missed' = 0
    BY <1>10 DEF LoseHeartbeat, Offline, Beat
  <2>3. Bus(Boots(ready), heard, events, lib, [node EXCEPT !.uptime = u], missed')
    BY <1>9, <2>2, BusLoses DEF NodeInv
  <2> QED
    BY <1>10, <2>1, <2>3, BusKeeps DEF LoseHeartbeat
<1>2. CASE Restart
  <2>1. node.uptime >= MinUptime
    BY <1>2 DEF Restart
  <2> QED
    BY <1>2, <2>1, BusRestarts, BusKeeps DEF Restart, NodeInv
<1>3. CASE Silence
  <2>1. Bus(Boots(ready), heard, Append(events, [kind |-> "silence"]), lib, node, missed)
    BY BusPushed DEF NodeInv
  <2> QED
    BY <1>3, <2>1, BusKeeps DEF Silence
<1>4. ASSUME NEW g \in Getters, Answer(g)
      PROVE  NodeInv'
  <2> DEFINE x == [kind |-> "answer", getter |-> g, boot |-> node.boot]
  <2>1. x.kind = "answer" /\ x.boot = node.boot
    OBVIOUS
  <2> HIDE DEF x
  <2>2. Bus(Boots(ready), heard, Append(events, x), lib, node, missed)
    BY <2>1, BusPushed DEF NodeInv
  <2> QED
    BY <1>4, <2>2, BusKeeps DEF Answer, x
<1>5. ASSUME NEW g \in Getters, Expire(g)
      PROVE  NodeInv'
  <2>1. Bus(Boots(ready), heard, Append(events, [kind |-> "timeout", getter |-> g]), lib, node, missed)
    BY BusPushed DEF NodeInv
  <2> QED
    BY <1>5, <2>1, BusKeeps DEF Expire
<1>6. ASSUME NEW g \in Getters, Lose(g)
      PROVE  NodeInv'
  BY <1>6, BusKeeps DEF Lose, NodeInv
<1>7. ASSUME NEW g \in Getters, Start(g)
      PROVE  NodeInv'
  <2> DEFINE x == Step(g)
  <2>1. x.kind = "step"
    BY DEF Step
  <2> HIDE DEF x
  <2>2. /\ Calm(Append(ready, x), heard, met)
        /\ Loop(Append(ready, x), found)
        /\ Boots(Append(ready, x)) = Boots(ready)
    BY <2>1, Nonempty, CalmPushed, LoopPushed, BootsOfPushed DEF NodeInv
  <2> QED
    BY <1>7, <2>2 DEF Start, NodeInv, InfoIsCurrent, x
<1>8. CASE UNCHANGED nodeVars
  BY <1>8 DEF nodeVars, NodeInv, InfoIsCurrent
<1> QED
  BY <1>1, <1>10, <1>2, <1>3, <1>4, <1>5, <1>6, <1>7, <1>8, TickKeeps, TickEndKeeps, SelectKeeps, StatusKeeps,
     GettersKeep, SetResultKeeps DEF NodeNext, Run

\* InfoIsCurrent: what get_info has cached is no older than the last status of the node that was
\* handled, whatever getters, restarts and losses there are. Two conditions: every incarnation of the
\* node has counted, before it ends, further than the number of heartbeats that may be lost in a row
\* before the library's timer expires (here), and no tick has found a heartbeat behind an answer of an
\* earlier incarnation (met, in InfoIsCurrent)
THEOREM CacheIsCurrent ==
  ASSUME MaxLost < MinUptime
  PROVE  NodeSpec => []InfoIsCurrent
<1>1. NodeInit => NodeInv
  BY NodeStart
<1>2. NodeInv /\ [NodeNext]_nodeVars => NodeInv'
  BY NodeStep
<1>3. NodeInv => InfoIsCurrent
  BY DEF NodeInv
<1> QED
  BY <1>1, <1>2, <1>3, PTL DEF NodeSpec
=============================================================================
