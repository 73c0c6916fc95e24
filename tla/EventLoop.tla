----------------------------- MODULE EventLoop ------------------------------
(***************************************************************************)
(* Descriptors, timers and node states of libwlmio                         *)
(* (src/src/libwlmio/wlmio.c): the list of fd_entry records that epoll     *)
(* points into, the timerfd of every request that waits for its answer,    *)
(* and the heartbeat timer and status of every node.                       *)
(*                                                                         *)
(* A descriptor is the lowest free number, as POSIX promises, so a closed  *)
(* one is soon another timer; an entry is named by its address, the lowest *)
(* free one, so a freed one is soon another entry.  A handler runs to its  *)
(* end in one step: wlmio_tick takes one event at a time, and what a       *)
(* callback calls (a new request) is a step of its own right after it.     *)
(*                                                                         *)
(* A definition marked "fault" is a slip a change of the code could make,  *)
(* placed before the one it would replace and used by no other.            *)
(***************************************************************************)
EXTENDS Integers, Sequences, FiniteSets, SequencesExt

CONSTANTS
  Nodes,       \* node-IDs that send heartbeats
  MaxFds,      \* timer descriptors the process may have open
  MaxEntries   \* bound: fd_entry records

NodeIdMax == 127  \* CANARD_NODE_ID_MAX

ASSUME NodesAssumption == Nodes \subseteq 0..NodeIdMax
ASSUME LimitsAssumption == MaxFds \in Nat /\ MaxEntries \in Nat

VARIABLES
  entries,   \* the fd_entry list: [addr, fd, handler]
  epoll,     \* the timers registered with epoll: [fd, ptr]
  clock,     \* clock[fd]: "closed", "armed" or "fired" (readable)
  tasks,     \* the task list: address of the entry of each task
  timers,    \* timers[n]: descriptor of the heartbeat timer of n, or -1
  nodes,     \* nodes[n]: mode of n
  alive,     \* environment: does n still send heartbeats
  overdue,   \* history: 3 s have passed since the last heartbeat of n was handled
  starved,   \* history: no timer could be created for n while it is online
  lastCall   \* history: the call of the status callback in this step, if any

vars == <<entries, epoll, clock, tasks, timers, nodes, alive, overdue, starved, lastCall>>

NoFd == -1
Fds == 0..MaxFds-1
Addrs == 1..MaxEntries
Handlers == {"async", "heartbeat"}

Online  == "online"    \* every mode but WLMIO_MODE_OFFLINE
Offline == "offline"
NoCall  == [node |-> -1, old |-> Offline, new |-> Offline, by |-> "none"]

Lowest(S) == CHOOSE x \in S : \A y \in S : x <= y
FreeFds == {fd \in Fds : clock[fd] = "closed"}
UsedAddrs == {entries[i].addr : i \in DOMAIN entries}
FreeAddrs == Addrs \ UsedAddrs
Position(a) == CHOOSE i \in DOMAIN entries : entries[i].addr = a
Entry(a) == entries[Position(a)]

-----------------------------------------------------------------------------
(***************************************************************************)
(* fd_entry_add, fd_entry_find and fd_entry_close.                         *)
(***************************************************************************)
NewAddr == Lowest(FreeAddrs)

\* the list with an entry for fd appended; epoll_ctl refuses the descriptor -1, unnoticed
EntryAdded(fd, handler) == Append(entries, [addr |-> NewAddr, fd |-> fd, handler |-> handler])

\* fault: the descriptor is not given to epoll
RegisteredNowhere(fd) == epoll

Registered(fd) == IF fd = NoFd THEN epoll ELSE epoll \cup {[fd |-> fd, ptr |-> NewAddr]}

\* first entry of the list with this descriptor
EntryFind(fd) ==
  LET i == Lowest({k \in DOMAIN entries : entries[k].fd = fd}) IN entries[i].addr

\* the entry leaves the list; close() also takes the descriptor out of epoll
EntryClose(a) ==
  /\ entries' = RemoveAt(entries, Position(a))
  /\ clock' = [clock EXCEPT ![Entry(a).fd] = "closed"]
  /\ epoll' = {x \in epoll : x.fd # Entry(a).fd}

-----------------------------------------------------------------------------
(***************************************************************************)
(* Requests: async_add, async_complete and async_handler.                  *)
(***************************************************************************)

\* async_add: timerfd_create, arm, fd_entry_add, append; without a descriptor nothing changes
AddTask ==
  /\ FreeFds # {}
  /\ FreeAddrs # {}
  /\ LET fd == Lowest(FreeFds) IN
       /\ clock' = [clock EXCEPT ![fd] = "armed"]
       /\ entries' = EntryAdded(fd, "async")
       /\ epoll' = Registered(fd)
  /\ tasks' = Append(tasks, NewAddr)
  /\ lastCall' = NoCall
  /\ UNCHANGED <<timers, nodes, alive, overdue, starved>>

\* fault: the task stays in the list
RemoveTaskTimerOnly(i) == EntryClose(tasks[i]) /\ UNCHANGED tasks

\* async_remove_entry: closes the timer and unlinks the task
RemoveTask(i) ==
  /\ EntryClose(tasks[i])
  /\ tasks' = RemoveAt(tasks, i)

\* async_complete: an answer was found for the task
CompleteTask ==
  /\ \E i \in DOMAIN tasks : RemoveTask(i)
  /\ lastCall' = NoCall
  /\ UNCHANGED <<timers, nodes, alive, overdue, starved>>

\* async_handler: the task whose timer is the entry epoll pointed to
AsyncHandler(a) ==
  /\ Entry(a).handler = "async"
  /\ \E i \in DOMAIN tasks : tasks[i] = a /\ RemoveTask(i)
  /\ lastCall' = NoCall
  /\ UNCHANGED <<timers, nodes, alive, overdue, starved>>

-----------------------------------------------------------------------------
(***************************************************************************)
(* Heartbeats: heartbeat_handler and heartbeat_timeout_handler.            *)
(***************************************************************************)

StatusCallback(n, new, by) ==
  lastCall' = [node |-> n, old |-> nodes[n], new |-> new, by |-> by]

\* fault: the closed descriptor is remembered
GoesOfflineKeepsFd(n) ==
  /\ timers[n] # NoFd => \E i \in DOMAIN entries : entries[i].fd = timers[n]
  /\ IF timers[n] # NoFd THEN EntryClose(EntryFind(timers[n]))
                         ELSE UNCHANGED <<entries, epoll, clock>>
  /\ UNCHANGED timers
  /\ starved' = starved \ {n}

\* the node goes offline by its own word: stop its timer if it has one; the assertion of
\* fd_entry_close ends the program if the list has no entry for it
GoesOffline(n) ==
  /\ timers[n] # NoFd => \E i \in DOMAIN entries : entries[i].fd = timers[n]
  /\ IF timers[n] # NoFd THEN EntryClose(EntryFind(timers[n]))
                         ELSE UNCHANGED <<entries, epoll, clock>>
  /\ timers' = [timers EXCEPT ![n] = NoFd]
  /\ starved' = starved \ {n}

\* online without a timer: create and arm one; a failed timerfd_create leaves -1 in timers[n]
\* and an entry for the descriptor -1 in the list
ComesOnline(n) ==
  /\ timers[n] = NoFd
  /\ FreeAddrs # {}
  /\ LET fd == IF FreeFds = {} THEN NoFd ELSE Lowest(FreeFds) IN
       /\ timers' = [timers EXCEPT ![n] = fd]
       /\ entries' = EntryAdded(fd, "heartbeat")
       /\ epoll' = Registered(fd)
       /\ clock' = IF fd = NoFd THEN clock ELSE [clock EXCEPT ![fd] = "armed"]
       /\ starved' = IF fd = NoFd THEN starved \cup {n} ELSE starved \ {n}

\* still online: arm the timer again, which also takes back an expiration nobody has seen yet

\* fault: an expiration nobody has seen yet is left to be seen
RearmedUnlessFired(fd) ==
  IF clock[fd] \in {"closed", "fired"} THEN clock ELSE [clock EXCEPT ![fd] = "armed"]

Rearmed(fd) == IF clock[fd] = "closed" THEN clock ELSE [clock EXCEPT ![fd] = "armed"]
StaysOnline(n) ==
  /\ timers[n] # NoFd
  /\ clock' = Rearmed(timers[n])
  /\ UNCHANGED <<timers, entries, epoll, starved>>

HeartbeatHandler(n, mode) ==
  /\ alive[n]
  /\ nodes' = [nodes EXCEPT ![n] = mode]
  /\ IF mode = Offline THEN GoesOffline(n) ELSE ComesOnline(n) \/ StaysOnline(n)
  /\ overdue' = [overdue EXCEPT ![n] = FALSE]
  /\ StatusCallback(n, mode, "heartbeat")
  /\ UNCHANGED <<tasks, alive>>

\* fault: the bound is one too low
SearchedShort == {n \in Nodes : n < NodeIdMax - 1}

\* the nodes the search of the handler looks at: i < CANARD_NODE_ID_MAX
Searched == {n \in Nodes : n < NodeIdMax}

\* fault: the closed descriptor is remembered
TimeoutHandlerKeepsFd(a) ==
  /\ Entry(a).handler = "heartbeat"
  /\ \E n \in Searched :
       /\ timers[n] = Entry(a).fd
       /\ EntryClose(a)
       /\ nodes' = [nodes EXCEPT ![n] = Offline]
       /\ StatusCallback(n, Offline, "timeout")
  /\ UNCHANGED <<tasks, timers, alive, overdue, starved>>

\* the search finds the node whose timer this is; when it finds none, node_id and node are
\* used uninitialized: whatever node they happen to name is taken
HeartbeatTimeoutHandler(a) ==
  /\ Entry(a).handler = "heartbeat"
  /\ LET found == {n \in Searched : timers[n] = Entry(a).fd}
     IN  \E n \in (IF found = {} THEN Nodes ELSE {Lowest(found)}) :
           /\ EntryClose(a)
           /\ timers' = [timers EXCEPT ![n] = NoFd]
           /\ nodes' = [nodes EXCEPT ![n] = Offline]
           /\ StatusCallback(n, Offline, "timeout")
  /\ UNCHANGED <<tasks, alive, overdue, starved>>

\* wlmio_tick: one readable timer, dispatched through the pointer epoll holds for it
HandleTimer(fd) ==
  /\ clock[fd] = "fired"
  /\ \E x \in epoll : x.fd = fd /\ (AsyncHandler(x.ptr) \/ HeartbeatTimeoutHandler(x.ptr))

-----------------------------------------------------------------------------
(***************************************************************************)
(* The kernel and the nodes.                                               *)
(***************************************************************************)
FireTimer(fd) ==
  /\ clock[fd] = "armed"
  /\ clock' = [clock EXCEPT ![fd] = "fired"]
  /\ overdue' = [n \in Nodes |-> overdue[n] \/ timers[n] = fd]
  /\ lastCall' = NoCall
  /\ UNCHANGED <<entries, epoll, tasks, timers, nodes, alive, starved>>

\* a node loses power or is unplugged, or comes back
Power(n) ==
  /\ alive' = [alive EXCEPT ![n] = ~@]
  /\ lastCall' = NoCall
  /\ UNCHANGED <<entries, epoll, clock, tasks, timers, nodes, overdue, starved>>

-----------------------------------------------------------------------------
\* wlmio_init: an empty loop, every node offline and without a timer
Init ==
  /\ entries = <<>>
  /\ epoll = {}
  /\ clock = [fd \in Fds |-> "closed"]
  /\ tasks = <<>>
  /\ timers = [n \in Nodes |-> NoFd]
  /\ nodes = [n \in Nodes |-> Offline]
  /\ alive = [n \in Nodes |-> TRUE]
  /\ overdue = [n \in Nodes |-> FALSE]
  /\ starved = {}
  /\ lastCall = NoCall

Next ==
  \/ AddTask
  \/ CompleteTask
  \/ \E n \in Nodes : \E mode \in {Online, Offline} : HeartbeatHandler(n, mode)
  \/ \E fd \in Fds : HandleTimer(fd) \/ FireTimer(fd)
  \/ \E n \in Nodes : Power(n)

\* an armed timer expires, and wlmio_tick is called while a descriptor is ready
Fairness ==
  \A fd \in Fds : WF_vars(FireTimer(fd)) /\ WF_vars(HandleTimer(fd))

Spec == Init /\ [][Next]_vars
FairSpec == Spec /\ Fairness

-----------------------------------------------------------------------------
(***************************************************************************)
(* Properties.                                                             *)
(***************************************************************************)

\* who holds the descriptor fd: tasks by the entry they point to, nodes by number
TaskOwners(fd) == {i \in DOMAIN tasks : tasks[i] \in UsedAddrs /\ Entry(tasks[i]).fd = fd}
NodeOwners(fd) == {n \in Nodes : timers[n] = fd}

\* Descriptors are numbers the kernel hands out again, and timers[] and the task list keep them
\* apart from the list epoll points into.  Every open timer has one owner, one entry of the
\* owner's kind and one registration that points to that entry; a closed one has none of them
OneOwner ==
  \A fd \in Fds :
    LET mine == {i \in DOMAIN entries : entries[i].fd = fd} IN
    IF clock[fd] = "closed"
    THEN mine = {} /\ TaskOwners(fd) = {} /\ NodeOwners(fd) = {} /\ ~\E x \in epoll : x.fd = fd
    ELSE \E i \in DOMAIN entries :
           /\ mine = {i}
           /\ {x \in epoll : x.fd = fd} = {[fd |-> fd, ptr |-> entries[i].addr]}
           /\ IF entries[i].handler = "async"
              THEN Cardinality(TaskOwners(fd)) = 1 /\ NodeOwners(fd) = {}
              ELSE Cardinality(NodeOwners(fd)) = 1 /\ TaskOwners(fd) = {}

\* A task's entry is in the list as long as the task is: async_handler and async_remove_entry
\* follow the pointer without a check
TasksHaveEntries ==
  \A i \in DOMAIN tasks : tasks[i] \in UsedAddrs /\ Entry(tasks[i]).handler = "async"

\* A node is watched exactly while it is online, unless the process ran out of descriptors
\* when it came online
OnlineIsWatched ==
  \A n \in Nodes : (nodes[n] = Online /\ n \notin starved) <=> timers[n] # NoFd

\* A node is reported offline by a timeout only if no heartbeat of it was handled since its
\* timer expired: a heartbeat taken from the socket first calls the timeout off
NoFalseTimeout ==
  [][lastCall'.by = "timeout" /\ lastCall' # lastCall => overdue[lastCall'.node]]_vars

\* A watched node that falls silent for good is reported offline
SilentNodeReported ==
  \A n \in Nodes : (timers[n] # NoFd /\ ~alive[n]) ~> (nodes[n] = Offline \/ alive[n])

\* A heartbeat timer only ever speaks for the node it was created for: when it is handled, the
\* node that is reported offline is one whose timer it was
TimeoutNamesOwner ==
  [][lastCall'.by = "timeout" /\ lastCall' # lastCall =>
       /\ timers[lastCall'.node] # NoFd
       /\ clock'[timers[lastCall'.node]] = "closed"]_vars
=============================================================================
