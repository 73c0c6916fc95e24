------------------------------- MODULE PyNode -------------------------------
(***************************************************************************)
(* Node of src/src/pywlmio/pywlmio.py: the information of a node is asked  *)
(* for once, under a lock, and cached; a status callback, which the        *)
(* library calls for every heartbeat, forgets it when the node restarted.  *)
(* Both are coroutines of one asyncio loop, and what a tick learns reaches *)
(* them by different ways: a status in a new task, an answer by            *)
(* set_result, which schedules the coroutine that waits.                   *)
(*                                                                         *)
(* ready is the loop's list of handles.  "select" stands for the end of an *)
(* iteration: the loop looks for input and puts tick behind the handles    *)
(* scheduled meanwhile.  A tick looks for one event after the other, and   *)
(* stays at the head until it ends.  A node is its incarnation, which is   *)
(* also the information it answers with.  Uptimes count heartbeats, one a  *)
(* second.  The bus may lose requests, answers and heartbeats, of these no *)
(* more in a row than the timer of the library lets pass (3 s).            *)
(*                                                                         *)
(* A definition marked "fault" is a slip a change of the code could make,  *)
(* placed before the one it would replace and used by no other.            *)
(***************************************************************************)
EXTENDS Integers, Sequences, FiniteSetsExt, SequencesExt

CONSTANTS
  Getters,    \* coroutines that call get_info
  MaxBoots,   \* bound: incarnations of the node
  MaxUptime,  \* bound: uptimes told apart
  MinUptime,  \* the uptime of the last heartbeat a node sends before it restarts, at least
  MaxLost,    \* heartbeats in a row that are lost before the timer of the library expires, at most
  Batch,      \* bound: events one tick may find
  MaxEvents   \* bound: events that wait

ASSUME BootsAssumption == MaxBoots \in Nat \ {0}
ASSUME UptimeAssumption == MaxUptime \in Nat /\ MinUptime \in 0..MaxUptime
ASSUME LostAssumption == MaxLost \in Nat
ASSUME EventsAssumption == Batch \in Nat \ {0} /\ MaxEvents \in Nat

VARIABLES
  node,         \* the node: [boot, uptime], uptime being that of its last heartbeat or -1
  missed,       \* heartbeats lost since one was received
  requests,     \* getters whose request is on its way to the node
  events,       \* what the library will find, in order; expired timers besides
  lib,          \* nodes[] of the library: [online, uptime]
  outstanding,  \* getters whose request the library has registered
  ready,        \* the handles of the loop
  found,        \* what the events of the tick under way have answered
  lock,         \* the lock: [holder, waiters]
  pc,           \* pc[g]: "new", "lock", "answer", "returned" or "raised"
  info,         \* self.info: an incarnation, or None
  heard,        \* history: the incarnation that sent the last status the coroutine has run for
  met           \* history: a tick has found a heartbeat behind an answer of an earlier incarnation

nodeVars == <<node, missed, requests, events, lib, outstanding, ready, found, lock, pc, info, heard, met>>

None == 0
Free == "free"

Select          == [kind |-> "select"]
Tick            == [kind |-> "tick"]
Step(g)         == [kind |-> "step", getter |-> g]
Locked(g)       == [kind |-> "locked", getter |-> g]
SetResult(g, a) == [kind |-> "set_result", getter |-> g, answer |-> a]
WakeUp(g, a)    == [kind |-> "wakeup", getter |-> g, answer |-> a]
Status(old, new, boot) == [kind |-> "status", old |-> old, new |-> new, boot |-> boot]

-----------------------------------------------------------------------------
(***************************************************************************)
(* The node and the bus.                                                   *)
(***************************************************************************)
\* the first heartbeat says 0
NextUptime == IF node.uptime < MaxUptime THEN node.uptime + 1 ELSE MaxUptime

Heartbeat ==
  /\ Len(events) < MaxEvents
  /\ node' = [node EXCEPT !.uptime = NextUptime]
  /\ events' = Append(events, [kind |-> "heartbeat", uptime |-> NextUptime, boot |-> node.boot])
  /\ missed' = 0
  /\ UNCHANGED <<requests, lib, outstanding, ready, found, lock, pc, info, heard, met>>

\* the node counts as offline, and nothing on its way changes that
Offline == ~lib.online /\ \A i \in DOMAIN events : events[i].kind # "heartbeat"

\* a heartbeat is lost; only a node that counts as offline may be unheard for longer than its timer
LoseHeartbeat ==
  /\ missed < MaxLost \/ Offline
  /\ missed' = IF Offline THEN 0 ELSE missed + 1
  /\ node' = [node EXCEPT !.uptime = NextUptime]
  /\ UNCHANGED <<requests, events, lib, outstanding, ready, found, lock, pc, info, heard, met>>

Answer(g) ==
  /\ g \in requests
  /\ Len(events) < MaxEvents
  /\ requests' = requests \ {g}
  /\ events' = Append(events, [kind |-> "answer", getter |-> g, boot |-> node.boot])
  /\ UNCHANGED <<node, missed, lib, outstanding, ready, found, lock, pc, info, heard, met>>

Lose(g) ==
  /\ g \in requests
  /\ requests' = requests \ {g}
  /\ UNCHANGED <<node, missed, events, lib, outstanding, ready, found, lock, pc, info, heard, met>>

Restart ==
  /\ node.boot < MaxBoots
  /\ node.uptime >= MinUptime
  /\ node' = [boot |-> node.boot + 1, uptime |-> -1]
  /\ UNCHANGED <<missed, requests, events, lib, outstanding, ready, found, lock, pc, info, heard, met>>

\* the timer of a request expires
Expire(g) ==
  /\ g \in outstanding
  /\ ~\E i \in DOMAIN events : events[i] = [kind |-> "timeout", getter |-> g]
  /\ events' = Append(events, [kind |-> "timeout", getter |-> g])
  /\ UNCHANGED <<node, missed, requests, lib, outstanding, ready, found, lock, pc, info, heard, met>>

\* the timer expires that every heartbeat sets again
Silence ==
  /\ lib.online
  /\ ~\E i \in DOMAIN events : events[i].kind \in {"heartbeat", "silence"}
  /\ events' = Append(events, [kind |-> "silence"])
  /\ UNCHANGED <<node, missed, requests, lib, outstanding, ready, found, lock, pc, info, heard, met>>

-----------------------------------------------------------------------------
(***************************************************************************)
(* A tick: the library, then call_soon or status_callback for each event.  *)
(***************************************************************************)
Reported(new, boot) ==
  /\ lib' = new
  /\ ready' = Append(ready, Status(lib, new, boot))
  /\ UNCHANGED outstanding

\* an answer or timer of a request that is finished finds no task
Finished(g, answer) ==
  /\ outstanding' = outstanding \ {g}
  /\ ready' = IF g \in outstanding THEN Append(ready, SetResult(g, answer)) ELSE ready
  /\ UNCHANGED lib

Handled(e) ==
  \/ e.kind = "heartbeat" /\ Reported([online |-> TRUE, uptime |-> e.uptime], e.boot)
  \/ e.kind = "silence"   /\ Reported([online |-> FALSE, uptime |-> 0], 0)
  \/ e.kind = "answer"    /\ Finished(e.getter, e.boot)
  \/ e.kind = "timeout"   /\ Finished(e.getter, None)

Given(e) == IF e.kind = "answer" THEN e.boot ELSE None

\* a heartbeat behind an answer that an earlier incarnation gave
Meets(e) == e.kind = "heartbeat" /\ \E a \in Range(found) : a # None /\ a < e.boot

RunTick ==
  /\ Head(ready) = Tick
  /\ events # <<>>
  /\ Len(found) < Batch
  /\ Handled(Head(events))
  /\ events' = Tail(events)
  /\ found' = Append(found, Given(Head(events)))
  /\ met' = (met \/ Meets(Head(events)))
  /\ UNCHANGED <<node, missed, requests, lock, pc, info, heard>>

\* nothing more is found, or the bound is reached
TickEnds ==
  /\ Head(ready) = Tick
  /\ events = <<>> \/ Len(found) = Batch
  /\ ready' = Tail(ready)
  /\ found' = <<>>
  /\ UNCHANGED <<node, missed, requests, events, lib, outstanding, lock, pc, info, heard, met>>

\* the end of an iteration
RunSelect ==
  /\ Head(ready) = Select
  /\ ready' = Tail(ready) \o (IF events # <<>> THEN <<Tick>> ELSE <<>>) \o <<Select>>
  /\ ready' # ready
  /\ UNCHANGED <<node, missed, requests, events, lib, outstanding, found, lock, pc, info, heard, met>>

-----------------------------------------------------------------------------
(***************************************************************************)
(* Node.get_info.                                                          *)
(***************************************************************************)
\* a task is created for g
Start(g) ==
  /\ pc[g] = "new"
  /\ found = <<>>
  /\ ~\E i \in DOMAIN ready : ready[i] = Step(g)
  /\ ready' = Append(ready, Step(g))
  /\ UNCHANGED <<node, missed, requests, events, lib, outstanding, found, lock, pc, info, heard, met>>

\* leaving "async with": the lock is free, its first waiter is scheduled
\* fault: who raises keeps the lock
ReleasedUnlessRaised(outcome) == outcome # "raised"
Released(outcome) == TRUE

Leave(g, outcome) ==
  /\ pc' = [pc EXCEPT ![g] = outcome]
  /\ outstanding' = outstanding
  /\ requests' = requests
  /\ IF Released(outcome)
     THEN /\ lock' = [lock EXCEPT !.holder = Free]
          /\ ready' = Tail(ready) \o
               (IF lock.waiters = <<>> THEN <<>> ELSE <<Locked(Head(lock.waiters))>>)
     ELSE lock' = lock /\ ready' = Tail(ready)

\* the body up to the await: the cached information or a request
\* waiters are those left in the queue of the lock
Body(g, waiters) ==
  IF info # None
  THEN /\ pc' = [pc EXCEPT ![g] = "returned"]
       /\ lock' = [holder |-> Free, waiters |-> waiters]
       /\ ready' = Tail(ready) \o (IF waiters = <<>> THEN <<>> ELSE <<Locked(Head(waiters))>>)
       /\ UNCHANGED <<outstanding, requests>>
  ELSE /\ pc' = [pc EXCEPT ![g] = "answer"]
       /\ lock' = [holder |-> g, waiters |-> waiters]
       /\ outstanding' = outstanding \cup {g}
       /\ requests' = requests \cup {g}
       /\ ready' = Tail(ready)

\* asyncio.Lock.acquire goes ahead if nobody holds the lock or waits for it
LockFree(g) == lock.holder = Free /\ lock.waiters = <<>>

RunStep(g) ==
  /\ Head(ready) = Step(g)
  /\ IF LockFree(g)
     THEN Body(g, lock.waiters)
     ELSE /\ pc' = [pc EXCEPT ![g] = "lock"]
          /\ lock' = [lock EXCEPT !.waiters = Append(@, g)]
          /\ ready' = Tail(ready)
          /\ UNCHANGED <<outstanding, requests>>
  /\ UNCHANGED <<node, missed, events, lib, found, info, heard, met>>

OthersWaiting(g) == SelectSeq(lock.waiters, LAMBDA w : w # g)

RunLocked(g) ==
  /\ Head(ready) = Locked(g)
  /\ Body(g, OthersWaiting(g))
  /\ UNCHANGED <<node, missed, events, lib, found, info, heard, met>>

RunSetResult(g) ==
  /\ Head(ready).kind = "set_result"
  /\ Head(ready).getter = g
  /\ ready' = Append(Tail(ready), WakeUp(g, Head(ready).answer))
  /\ UNCHANGED <<node, missed, requests, events, lib, outstanding, found, lock, pc, info, heard, met>>

\* the body after the await
RunWakeUp(g) ==
  /\ Head(ready).kind = "wakeup"
  /\ Head(ready).getter = g
  /\ \/ Head(ready).answer = None /\ info' = info /\ Leave(g, "raised")
     \/ Head(ready).answer # None /\ info' = Head(ready).answer /\ Leave(g, "returned")
  /\ UNCHANGED <<node, missed, events, lib, found, heard, met>>

-----------------------------------------------------------------------------
\* Node._status_callback
\* fault: a restart that no silence gave away goes unnoticed
OnlineAgain(old, new) == ~new.online \/ ~old.online
Forgets(old, new) ==
  ~new.online \/ (~old.online /\ new.online) \/ new.uptime < old.uptime

RunStatus ==
  /\ Head(ready).kind = "status"
  /\ info' = IF Forgets(Head(ready).old, Head(ready).new) THEN None ELSE info
  /\ heard' = Max({heard, Head(ready).boot})
  /\ ready' = Tail(ready)
  /\ UNCHANGED <<node, missed, requests, events, lib, outstanding, found, lock, pc, met>>

-----------------------------------------------------------------------------
NodeInit ==
  /\ node = [boot |-> 1, uptime |-> -1]
  /\ missed = 0
  /\ requests = {}
  /\ events = <<>>
  /\ lib = [online |-> FALSE, uptime |-> 0]
  /\ outstanding = {}
  /\ ready = <<Select>>
  /\ found = <<>>
  /\ lock = [holder |-> Free, waiters |-> <<>>]
  /\ pc = [g \in Getters |-> "new"]
  /\ info = None
  /\ heard = 0
  /\ met = FALSE

Run ==
  \/ RunTick
  \/ TickEnds
  \/ RunSelect
  \/ RunStatus
  \/ \E g \in Getters : RunStep(g) \/ RunLocked(g) \/ RunSetResult(g) \/ RunWakeUp(g)

NodeNext ==
  \/ Heartbeat \/ LoseHeartbeat \/ Restart \/ Silence
  \/ Run
  \/ \E g \in Getters : Start(g) \/ Answer(g) \/ Lose(g) \/ Expire(g)

NodeSpec == NodeInit /\ [][NodeNext]_nodeVars

\* the loop runs what is ready, the library's timers expire
NodeFairSpec == NodeSpec /\ WF_nodeVars(Run) /\ \A g \in Getters : WF_nodeVars(Expire(g))

-----------------------------------------------------------------------------
\* Once the status of a node that came online or restarted was handled (Node._status_callback),
\* the cache does not hold what an earlier incarnation said: answers and statuses reach their
\* coroutines by ways of different length, and yet in their order.  Two cases are left out, in
\* both of which the code does keep it: a tick that finds the heartbeat of the new incarnation
\* behind an answer of the old one (met), and a node that restarts at an uptime no higher than the
\* number of heartbeats lost (MaxLost >= MinUptime), whose next uptime need not be smaller
InfoIsCurrent == info # None /\ ~met => info >= heard

\* Every get_info that was called returns or raises, although requests are lost
EveryGetterReturns ==
  \A g \in Getters : pc[g] \in {"lock", "answer"} ~> pc[g] \in {"returned", "raised"}
=============================================================================
