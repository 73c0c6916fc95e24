-------------------------- MODULE EventLoopProofs ---------------------------
(***************************************************************************)
(* Theorems about EventLoop, for any number of nodes, descriptors and      *)
(* entries: every open timer has one owner, and a timeout speaks for the   *)
(* node whose timer it was.  Addresses and descriptors are handed out      *)
(* again, so the proof is about names: at any moment an address names one  *)
(* entry, a descriptor one entry and one owner.                            *)
(*                                                                         *)
(* heartbeat_timeout_handler looks for a node below CANARD_NODE_ID_MAX,    *)
(* the last node-ID; a heartbeat of the last node makes it take another    *)
(* node's timer for expired (run loop_lastnode).  What rests on the search *)
(* assumes that nobody has that node-ID.                                   *)
(***************************************************************************)
EXTENDS EventLoop, SequenceTheorems, FiniteSetTheorems, WellFoundedInduction, TLAPS

-----------------------------------------------------------------------------
(***************************************************************************)
(* Least elements.                                                         *)
(***************************************************************************)
Less == {p \in Nat \X Nat : p[1] < p[2]}

\* the order of the natural numbers as a relation
LEMMA LessIsWellFounded == IsWellFoundedOn(Less, Nat)
<1>1. OpToRel(<, Nat) = Less
  BY Zenon DEF OpToRel, Less
<1> QED
  BY <1>1, NatLessThanWellFounded, Zenon

\* what the kernel and malloc hand out: Lowest of a set that is not empty is in the set
LEMMA LowestIsLeast ==
  ASSUME NEW S, S \subseteq Nat, S # {}
  PROVE  Lowest(S) \in S /\ \A y \in S : Lowest(S) <= y
<1>1. PICK x \in S : \A y \in S : <<y, x>> \notin Less
  BY LessIsWellFounded, WFMin
<1>2. \A y \in S : x <= y
  <2> SUFFICES ASSUME NEW y \in S
               PROVE  ~(y < x)
    OBVIOUS
  <2>1. <<y, x>> \in Nat \X Nat /\ <<y, x>>[1] = y /\ <<y, x>>[2] = x
    OBVIOUS
  <2> QED
    BY <1>1, <2>1 DEF Less
<1> QED
  BY <1>2 DEF Lowest

-----------------------------------------------------------------------------
(***************************************************************************)
(* Lists whose elements are distinct, as sets.                             *)
(***************************************************************************)

\* an element appended to a list it is not in
LEMMA Appended ==
  ASSUME NEW S, NEW s \in Seq(S), NEW e \in S, IsInjective(s), e \notin Range(s)
  PROVE  /\ Append(s, e) \in Seq(S)
         /\ IsInjective(Append(s, e))
         /\ Range(Append(s, e)) = Range(s) \cup {e}
<1> DEFINE r == Append(s, e)
<1>1. /\ r \in Seq(S)
      /\ Len(s) \in Nat
      /\ Len(r) = Len(s) + 1
      /\ DOMAIN s = 1..Len(s)
      /\ DOMAIN r = 1..Len(s) + 1
      /\ \A i \in 1..Len(s) : r[i] = s[i]
      /\ r[Len(s) + 1] = e
  BY AppendProperties, LenProperties
<1> HIDE DEF r
<1>2. IsInjective(r)
  <2> SUFFICES ASSUME NEW i \in DOMAIN r, NEW j \in DOMAIN r, r[i] = r[j]
               PROVE  i = j
    BY DEF IsInjective
  <2>1. \A k \in 1..Len(s) : s[k] # e
    BY <1>1 DEF Range
  <2>2. \A k \in DOMAIN r : k \in 1..Len(s) \/ k = Len(s) + 1
    BY <1>1
  <2>3. CASE i \in 1..Len(s) /\ j \in 1..Len(s)
    BY <1>1, <2>3 DEF IsInjective
  <2> QED
    BY <1>1, <2>1, <2>2, <2>3
<1>3. Range(r) = Range(s) \cup {e}
  <2>1. \A k \in DOMAIN r : k \in 1..Len(s) \/ k = Len(s) + 1
    BY <1>1
  <2>2. Len(s) + 1 \in DOMAIN r /\ \A k \in DOMAIN s : k \in DOMAIN r
    BY <1>1
  <2> QED
    BY <1>1, <2>1, <2>2 DEF Range
<1> QED
  BY <1>1, <1>2, <1>3 DEF r

\* an element unlinked from a list that has it once
LEMMA Unlinked ==
  ASSUME NEW S, NEW s \in Seq(S), NEW i \in DOMAIN s, IsInjective(s)
  PROVE  /\ RemoveAt(s, i) \in Seq(S)
         /\ IsInjective(RemoveAt(s, i))
         /\ Range(RemoveAt(s, i)) = Range(s) \ {s[i]}
<1> DEFINE a == SubSeq(s, 1, i - 1)
           b == SubSeq(s, i + 1, Len(s))
           r == a \o b
<1>1. Len(s) \in Nat /\ DOMAIN s = 1..Len(s) /\ i \in 1..Len(s) /\ \A k \in 1..Len(s) : s[k] \in S
  BY LenProperties, ElementOfSeq
<1>2. a \in Seq(S) /\ Len(a) = i - 1 /\ \A k \in 1..i - 1 : a[k] = s[k]
  <2>1. \A k \in 1..i - 1 : s[k] \in S
    BY <1>1
  <2> QED
    BY <1>1, <2>1, SubSeqProperties
<1>3. b \in Seq(S) /\ Len(b) = Len(s) - i /\ \A k \in 1..Len(s) - i : b[k] = s[k + i]
  <2>1. \A k \in i + 1..Len(s) : s[k] \in S
    BY <1>1
  <2> QED
    BY <1>1, <2>1, SubSeqProperties
<1> HIDE DEF a, b
<1>4. /\ r \in Seq(S)
      /\ DOMAIN r = 1..Len(s) - 1
      /\ \A k \in 1..Len(s) - 1 : r[k] = IF k < i THEN s[k] ELSE s[k + 1]
  <2>1. /\ r \in Seq(S)
        /\ Len(r) = Len(a) + Len(b)
        /\ \A k \in 1..Len(a) + Len(b) : r[k] = IF k <= Len(a) THEN a[k] ELSE b[k - Len(a)]
    BY <1>2, <1>3, ConcatProperties
  <2>2. Len(a) = i - 1 /\ Len(a) + Len(b) = Len(s) - 1
    BY <1>1, <1>2, <1>3
  <2>3. DOMAIN r = 1..Len(r)
    BY <2>1, LenProperties
  <2>4. \A k \in 1..Len(s) - 1 : r[k] = IF k < i THEN s[k] ELSE s[k + 1]
    <3> SUFFICES ASSUME NEW k \in 1..Len(s) - 1
                 PROVE  r[k] = IF k < i THEN s[k] ELSE s[k + 1]
      OBVIOUS
    <3>1. r[k] = IF k <= i - 1 THEN a[k] ELSE b[k - (i - 1)]
      BY <2>1, <2>2
    <3>2. CASE k < i
      BY <1>1, <1>2, <3>1, <3>2
    <3>3. CASE k >= i
      <4>1. k - (i - 1) \in 1..Len(s) - i /\ (k - (i - 1)) + i = k + 1
        BY <1>1, <3>3
      <4> QED
        BY <1>1, <1>3, <3>1, <3>3, <4>1
    <3>4. k < i \/ k >= i
      BY <1>1
    <3> QED
      BY <3>2, <3>3, <3>4
  <2> QED
    BY <2>1, <2>2, <2>3, <2>4
<1>5. r = RemoveAt(s, i)
  BY DEF RemoveAt, a, b
<1> HIDE DEF r
<1>6. IsInjective(r)
  <2> SUFFICES ASSUME NEW j \in DOMAIN r, NEW k \in DOMAIN r, r[j] = r[k]
               PROVE  j = k
    BY DEF IsInjective
  <2>1. j \in DOMAIN s /\ j + 1 \in DOMAIN s /\ k \in DOMAIN s /\ k + 1 \in DOMAIN s
    BY <1>1, <1>4
  <2>2. \A x, y \in DOMAIN s : s[x] = s[y] => x = y
    BY DEF IsInjective
  <2> QED
    BY <1>1, <1>4, <2>1, <2>2
<1>7. Range(r) = Range(s) \ {s[i]}
  <2>1. ASSUME NEW x \in Range(r)
        PROVE  x \in Range(s) /\ x # s[i]
    <3>1. PICK k \in DOMAIN r : x = r[k]
      BY DEF Range
    <3>2. k \in DOMAIN s /\ k + 1 \in DOMAIN s /\ (k < i => k # i) /\ (k >= i => k + 1 # i)
      BY <1>1, <1>4, <3>1
    <3> QED
      BY <1>1, <1>4, <3>1, <3>2 DEF Range, IsInjective
  <2>2. ASSUME NEW x \in Range(s), x # s[i]
        PROVE  x \in Range(r)
    <3>1. PICK k \in DOMAIN s : x = s[k]
      BY DEF Range
    <3>2. CASE k < i
      <4>1. k \in DOMAIN r /\ r[k] = s[k]
        BY <1>1, <1>4, <3>2
      <4> QED
        BY <3>1, <4>1 DEF Range
    <3>3. CASE k > i
      <4>1. k - 1 \in DOMAIN r /\ r[k - 1] = s[k]
        BY <1>1, <1>4, <3>3
      <4> QED
        BY <3>1, <4>1 DEF Range
    <3> QED
      BY <1>1, <2>2, <3>1, <3>2, <3>3
  <2> QED
    BY <2>1, <2>2
<1> QED
  BY <1>4, <1>5, <1>6, <1>7

-----------------------------------------------------------------------------
(***************************************************************************)
(* The inductive invariant, about the entries and tasks as sets.           *)
(***************************************************************************)
List == Range(entries)
Waiting == Range(tasks)
EntryRecords == [addr : Addrs, fd : Fds \cup {NoFd}, handler : Handlers]
Clocks == {"closed", "armed", "fired"}
Pair(e) == [fd |-> e.fd, ptr |-> e.addr]

Types ==
  /\ entries \in Seq(EntryRecords)
  /\ epoll \subseteq [fd : Fds, ptr : Addrs]
  /\ clock \in [Fds -> Clocks]
  /\ tasks \in Seq(Addrs)
  /\ timers \in [Nodes -> Fds \cup {NoFd}]
  /\ nodes \in [Nodes -> {Online, Offline}]
  /\ overdue \in [Nodes -> BOOLEAN]

\* an address names one entry, a descriptor one entry, an entry is in its list once
Named ==
  /\ IsInjective(entries)
  /\ IsInjective(tasks)
  /\ \A e, f \in List : e.addr = f.addr => e = f
  /\ \A e, f \in List : e.fd = f.fd /\ e.fd # NoFd => e = f

\* a timer is open exactly while an entry has its descriptor, and epoll points to that entry
Listed ==
  /\ \A fd \in Fds : clock[fd] # "closed" => \E e \in List : e.fd = fd
  /\ \A e \in List : e.fd # NoFd => clock[e.fd] # "closed" /\ Pair(e) \in epoll
  /\ \A x \in epoll : \E e \in List : e.fd # NoFd /\ x = Pair(e)

\* the entry of a request is that of one task, the entry of a heartbeat timer that of one node
Owned ==
  /\ \A e \in List : e.handler = "async" => e.fd # NoFd /\ e.addr \in Waiting
  /\ \A a \in Waiting : \E e \in List : e.addr = a /\ e.handler = "async"
  /\ \A e \in List : e.handler = "heartbeat" /\ e.fd # NoFd => \E n \in Nodes : timers[n] = e.fd
  /\ \A n \in Nodes : timers[n] # NoFd =>
       \E e \in List : e.fd = timers[n] /\ e.handler = "heartbeat"
  /\ \A n, m \in Nodes : timers[n] = timers[m] /\ timers[n] # NoFd => n = m

\* an expiration that was not taken back is the node's fault
FiredIsOverdue ==
  \A n \in Nodes : timers[n] # NoFd /\ clock[timers[n]] = "fired" => overdue[n]

LoopInv == Types /\ Named /\ Listed /\ Owned /\ FiredIsOverdue /\ OnlineIsWatched

-----------------------------------------------------------------------------
(***************************************************************************)
(* fd_entry_add and fd_entry_close, seen from the sets.                    *)
(***************************************************************************)

\* a free address exists: malloc hands out one that no entry has
LEMMA NewAddrIsFree ==
  ASSUME FreeAddrs # {}
  PROVE  NewAddr \in Addrs /\ \A e \in List : e.addr # NewAddr
<1>1. FreeAddrs \subseteq Nat
  BY LimitsAssumption DEF FreeAddrs, Addrs
<1>2. NewAddr \in FreeAddrs
  BY <1>1, LowestIsLeast DEF NewAddr
<1> QED
  BY <1>2 DEF FreeAddrs, UsedAddrs, List, Range

\* an address in the list leads to its entry
LEMMA EntryIs ==
  ASSUME Types, Named, NEW e \in List
  PROVE  /\ Position(e.addr) \in DOMAIN entries
         /\ entries[Position(e.addr)] = e
         /\ Entry(e.addr) = e
<1>1. \E i \in DOMAIN entries : entries[i].addr = e.addr
  BY DEF List, Range
<1>2. Position(e.addr) \in DOMAIN entries /\ entries[Position(e.addr)].addr = e.addr
  BY <1>1 DEF Position
<1>3. entries[Position(e.addr)] \in List
  BY <1>2 DEF List, Range
<1>4. entries[Position(e.addr)] = e
  BY <1>2, <1>3 DEF Named
<1> QED
  BY <1>2, <1>4 DEF Entry

\* an entry joins the list: its descriptor is fresh, or -1 when there was none
LEMMA Adding ==
  ASSUME Types, Named, Listed, FreeAddrs # {},
         NEW fd \in Fds \cup {NoFd}, fd # NoFd => clock[fd] = "closed",
         NEW h \in Handlers,
         entries' = EntryAdded(fd, h), epoll' = Registered(fd),
         clock' = IF fd = NoFd THEN clock ELSE [clock EXCEPT ![fd] = "armed"]
  PROVE  LET new == [addr |-> NewAddr, fd |-> fd, handler |-> h]
         IN  /\ List' = List \cup {new}
             /\ entries' \in Seq(EntryRecords) /\ IsInjective(entries')
             /\ epoll' \subseteq [fd : Fds, ptr : Addrs]
             /\ clock' \in [Fds -> Clocks]
             /\ \A e, f \in List' : e.addr = f.addr => e = f
             /\ \A e, f \in List' : e.fd = f.fd /\ e.fd # NoFd => e = f
             /\ Listed'
<1> DEFINE new == [addr |-> NewAddr, fd |-> fd, handler |-> h]
<1>1. NewAddr \in Addrs /\ \A e \in List : e.addr # NewAddr
  BY NewAddrIsFree
<1>2. new \in EntryRecords /\ new.addr = NewAddr /\ new.fd = fd /\ new \notin List
  BY <1>1 DEF EntryRecords
<1>3. entries' = Append(entries, new)
  BY DEF EntryAdded
<1>4. /\ entries' \in Seq(EntryRecords)
      /\ IsInjective(entries')
      /\ List' = List \cup {new}
  BY <1>2, <1>3, Appended DEF Types, Named, List
<1>5. \A e \in List : e.fd # NoFd => e.fd # fd
  BY DEF Listed
<1>6. \A e \in List : e.fd \in Fds \cup {NoFd}
  <2>1. \A e \in List : e \in EntryRecords
    BY RangeOfSeq DEF Types, List
  <2> QED
    BY <2>1 DEF EntryRecords
<1> HIDE DEF new
<1>7. /\ \A e, f \in List' : e.addr = f.addr => e = f
      /\ \A e, f \in List' : e.fd = f.fd /\ e.fd # NoFd => e = f
  BY <1>1, <1>2, <1>4, <1>5 DEF Named
<1>8. /\ epoll' = IF fd = NoFd THEN epoll ELSE epoll \cup {Pair(new)}
      /\ Pair(new) = [fd |-> fd, ptr |-> NewAddr]
  BY <1>2 DEF Registered, Pair
<1>9. \A d \in Fds : clock'[d] = IF d = fd THEN "armed" ELSE clock[d]
  BY DEF Types, Fds, NoFd
<1>10. Listed'
  <2>1. \A d \in Fds : clock'[d] # "closed" => \E e \in List' : e.fd = d
    BY <1>2, <1>4, <1>9 DEF Listed
  <2>2. \A e \in List' : e.fd # NoFd => clock'[e.fd] # "closed" /\ Pair(e) \in epoll'
    BY <1>2, <1>4, <1>5, <1>6, <1>8, <1>9 DEF Listed
  <2>3. \A x \in epoll' : \E e \in List' : e.fd # NoFd /\ x = Pair(e)
    BY <1>2, <1>4, <1>8 DEF Listed
  <2> QED
    BY <2>1, <2>2, <2>3 DEF Listed, Pair
<1>11. epoll' \subseteq [fd : Fds, ptr : Addrs] /\ clock' \in [Fds -> Clocks]
  BY <1>1, <1>8 DEF Types, Clocks
<1> QED
  BY <1>4, <1>7, <1>10, <1>11 DEF new

\* an entry leaves the list, and its timer is closed
LEMMA Closing ==
  ASSUME Types, Named, Listed, NEW e \in List, e.fd # NoFd, EntryClose(e.addr)
  PROVE  /\ List' = List \ {e}
         /\ entries' \in Seq(EntryRecords) /\ IsInjective(entries')
         /\ epoll' \subseteq [fd : Fds, ptr : Addrs]
         /\ clock' = [clock EXCEPT ![e.fd] = "closed"] /\ clock' \in [Fds -> Clocks]
         /\ \A f, g \in List' : f.addr = g.addr => f = g
         /\ \A f, g \in List' : f.fd = g.fd /\ f.fd # NoFd => f = g
         /\ Listed'
<1>1. /\ Position(e.addr) \in DOMAIN entries
      /\ entries[Position(e.addr)] = e
      /\ Entry(e.addr) = e
  BY EntryIs
<1>2. /\ entries' = RemoveAt(entries, Position(e.addr))
      /\ clock' = [clock EXCEPT ![e.fd] = "closed"]
      /\ epoll' = {x \in epoll : x.fd # e.fd}
  BY <1>1 DEF EntryClose
<1>3. /\ entries' \in Seq(EntryRecords)
      /\ IsInjective(entries')
      /\ List' = List \ {e}
  BY <1>1, <1>2, Unlinked DEF Types, Named, List
<1>4. \A f \in List : f.fd \in Fds \cup {NoFd}
  <2>1. \A f \in List : f \in EntryRecords
    BY RangeOfSeq DEF Types, List
  <2> QED
    BY <2>1 DEF EntryRecords
<1>5. \A f \in List' : f.fd # e.fd
  BY <1>3 DEF Named
<1>6. Listed'
  <2>1. \A d \in Fds : clock'[d] # "closed" => \E f \in List' : f.fd = d
    BY <1>2, <1>3 DEF Listed, Types
  <2>2. \A f \in List' : f.fd # NoFd => clock'[f.fd] # "closed" /\ Pair(f) \in epoll'
    BY <1>2, <1>3, <1>4, <1>5 DEF Listed, Types, Pair
  <2>3. \A x \in epoll' : \E f \in List' : f.fd # NoFd /\ x = Pair(f)
    BY <1>2, <1>3 DEF Listed, Pair
  <2> QED
    BY <2>1, <2>2, <2>3 DEF Listed, Pair
<1> QED
  BY <1>2, <1>3, <1>6 DEF Types, Named, Clocks

-----------------------------------------------------------------------------
(***************************************************************************)
(* The steps.                                                              *)
(***************************************************************************)

\* nothing is listed and nobody is watched before the first event
LEMMA LoopInit == Init => LoopInv
<1> SUFFICES ASSUME Init
             PROVE  LoopInv
  OBVIOUS
<1>1. List = {} /\ Waiting = {} /\ IsInjective(entries) /\ IsInjective(tasks)
  BY DEF Init, List, Waiting, Range, IsInjective
<1>2. Types
  BY DEF Init, Types, Clocks
<1>3. Named /\ Listed /\ Owned /\ FiredIsOverdue
  BY <1>1 DEF Init, Named, Listed, Owned, FiredIsOverdue
<1>4. OnlineIsWatched
  BY DEF Init, OnlineIsWatched, Online, Offline
<1> QED
  BY <1>2, <1>3, <1>4 DEF LoopInv

\* a descriptor the kernel has left is a number of a closed timer
LEMMA LowestFd ==
  ASSUME FreeFds # {}
  PROVE  Lowest(FreeFds) \in Fds /\ clock[Lowest(FreeFds)] = "closed" /\ Lowest(FreeFds) # NoFd
<1>1. FreeFds \subseteq Nat
  BY LimitsAssumption DEF FreeFds, Fds
<1> QED
  BY <1>1, LowestIsLeast DEF FreeFds, NoFd

\* the types of the elements of the lists
LEMMA ListTypes ==
  ASSUME Types
  PROVE  (\A e \in List : e \in EntryRecords) /\ Waiting \subseteq Addrs
BY RangeOfSeq DEF Types, List, Waiting

\* a request gets a timer of its own
LEMMA AddTaskStep == ASSUME LoopInv, AddTask PROVE LoopInv'
<1> DEFINE fd == Lowest(FreeFds)
           new == [addr |-> NewAddr, fd |-> fd, handler |-> "async"]
<1>1. fd \in Fds /\ clock[fd] = "closed" /\ fd # NoFd
  BY LowestFd DEF AddTask
<1>2. /\ List' = List \cup {new}
      /\ entries' \in Seq(EntryRecords) /\ IsInjective(entries')
      /\ epoll' \subseteq [fd : Fds, ptr : Addrs]
      /\ clock' \in [Fds -> Clocks]
      /\ \A e, f \in List' : e.addr = f.addr => e = f
      /\ \A e, f \in List' : e.fd = f.fd /\ e.fd # NoFd => e = f
      /\ Listed'
  <2>1. clock' = IF fd = NoFd THEN clock ELSE [clock EXCEPT ![fd] = "armed"]
    BY <1>1 DEF AddTask
  <2> HIDE DEF fd
  <2> QED
    BY <1>1, <2>1, Adding DEF AddTask, LoopInv, Handlers, fd
<1>3. NewAddr \in Addrs /\ \A e \in List : e.addr # NewAddr
  BY NewAddrIsFree DEF AddTask
<1>4. /\ tasks' \in Seq(Addrs)
      /\ IsInjective(tasks')
      /\ Waiting' = Waiting \cup {NewAddr}
  <2>1. NewAddr \notin Waiting
    BY <1>3 DEF LoopInv, Owned
  <2>2. tasks' = Append(tasks, NewAddr)
    BY DEF AddTask
  <2> QED
    BY <1>3, <2>1, <2>2, Appended DEF LoopInv, Types, Named, Waiting
<1>5. UNCHANGED <<timers, nodes, overdue, starved>>
  BY DEF AddTask
<1>6. new.addr = NewAddr /\ new.fd = fd /\ new.handler = "async"
  OBVIOUS
<1>7. \A d \in Fds : clock'[d] = IF d = fd THEN "armed" ELSE clock[d]
  BY DEF AddTask, LoopInv, Types
<1> HIDE DEF fd, new
<1>8. Types' /\ Named'
  BY <1>2, <1>4, <1>5 DEF LoopInv, Types, Named
<1>9. Owned'
  <2>1. \A e \in List' : e.handler = "async" => e.fd # NoFd /\ e.addr \in Waiting'
    BY <1>1, <1>2, <1>4, <1>6 DEF LoopInv, Owned
  <2>2. \A a \in Waiting' : \E e \in List' : e.addr = a /\ e.handler = "async"
    BY <1>2, <1>4, <1>6 DEF LoopInv, Owned
  <2>3. \A e \in List' : e.handler = "heartbeat" /\ e.fd # NoFd => \E n \in Nodes : timers'[n] = e.fd
    BY <1>2, <1>5, <1>6 DEF LoopInv, Owned
  <2>4. \A n \in Nodes : timers'[n] # NoFd =>
          \E e \in List' : e.fd = timers'[n] /\ e.handler = "heartbeat"
    BY <1>2, <1>5 DEF LoopInv, Owned
  <2>5. \A n, m \in Nodes : timers'[n] = timers'[m] /\ timers'[n] # NoFd => n = m
    BY <1>5 DEF LoopInv, Owned
  <2> QED
    BY <2>1, <2>2, <2>3, <2>4, <2>5 DEF Owned
<1>10. FiredIsOverdue'
  <2>1. \A n \in Nodes : timers[n] # NoFd => timers[n] \in Fds
    BY DEF LoopInv, Types
  <2> QED
    BY <1>5, <1>7, <2>1 DEF LoopInv, FiredIsOverdue
<1>11. OnlineIsWatched'
  BY <1>5 DEF LoopInv, OnlineIsWatched
<1> QED
  BY <1>2, <1>8, <1>9, <1>10, <1>11 DEF LoopInv

\* a request that is answered or timed out gives its timer back
LEMMA RemoveTaskStep ==
  ASSUME LoopInv, NEW i \in DOMAIN tasks, RemoveTask(i), UNCHANGED <<timers, nodes, overdue, starved>>
  PROVE  LoopInv'
<1>1. tasks[i] \in Waiting
  BY DEF Waiting, Range
<1>2. PICK e \in List : e.addr = tasks[i] /\ e.handler = "async"
  BY <1>1 DEF LoopInv, Owned
<1>3. e.fd # NoFd
  BY <1>2 DEF LoopInv, Owned
<1>4. /\ List' = List \ {e}
      /\ entries' \in Seq(EntryRecords) /\ IsInjective(entries')
      /\ epoll' \subseteq [fd : Fds, ptr : Addrs]
      /\ clock' = [clock EXCEPT ![e.fd] = "closed"] /\ clock' \in [Fds -> Clocks]
      /\ \A f, g \in List' : f.addr = g.addr => f = g
      /\ \A f, g \in List' : f.fd = g.fd /\ f.fd # NoFd => f = g
      /\ Listed'
  BY <1>2, <1>3, Closing DEF RemoveTask, LoopInv
<1>5. /\ tasks' \in Seq(Addrs)
      /\ IsInjective(tasks')
      /\ Waiting' = Waiting \ {tasks[i]}
  BY Unlinked DEF RemoveTask, LoopInv, Types, Named, Waiting
<1>6. Types' /\ Named'
  BY <1>4, <1>5 DEF LoopInv, Types, Named
<1>7. \A n \in Nodes : timers[n] # NoFd => timers[n] # e.fd
  BY <1>2 DEF LoopInv, Owned, Named
<1>8. Owned'
  <2>1. \A f \in List' : f.handler = "async" => f.fd # NoFd /\ f.addr \in Waiting'
    BY <1>2, <1>4, <1>5 DEF LoopInv, Owned, Named
  <2>2. \A a \in Waiting' : \E f \in List' : f.addr = a /\ f.handler = "async"
    BY <1>2, <1>4, <1>5 DEF LoopInv, Owned
  <2>3. \A f \in List' : f.handler = "heartbeat" /\ f.fd # NoFd => \E n \in Nodes : timers'[n] = f.fd
    BY <1>4 DEF LoopInv, Owned
  <2>4. \A n \in Nodes : timers'[n] # NoFd =>
          \E f \in List' : f.fd = timers'[n] /\ f.handler = "heartbeat"
    BY <1>4, <1>7 DEF LoopInv, Owned
  <2>5. \A n, m \in Nodes : timers'[n] = timers'[m] /\ timers'[n] # NoFd => n = m
    BY DEF LoopInv, Owned
  <2> QED
    BY <2>1, <2>2, <2>3, <2>4, <2>5 DEF Owned
<1>9. FiredIsOverdue'
  BY <1>4, <1>7 DEF LoopInv, FiredIsOverdue, Types
<1>10. OnlineIsWatched'
  BY DEF LoopInv, OnlineIsWatched
<1> QED
  BY <1>4, <1>6, <1>8, <1>9, <1>10 DEF LoopInv

\* the heartbeat timer of a node is closed, and the node is not watched any more
LEMMA UnwatchStep ==
  ASSUME LoopInv, NEW n \in Nodes, timers[n] # NoFd,
         NEW e \in List, e.fd = timers[n], EntryClose(e.addr),
         timers' = [timers EXCEPT ![n] = NoFd],
         nodes' = [nodes EXCEPT ![n] = Offline],
         overdue' \in [Nodes -> BOOLEAN], \A m \in Nodes \ {n} : overdue'[m] = overdue[m],
         starved' \in {starved, starved \ {n}},
         tasks' = tasks
  PROVE  LoopInv'
<1>1. e.handler = "heartbeat"
  BY DEF LoopInv, Owned, Named
<1>2. /\ List' = List \ {e}
      /\ entries' \in Seq(EntryRecords) /\ IsInjective(entries')
      /\ epoll' \subseteq [fd : Fds, ptr : Addrs]
      /\ clock' = [clock EXCEPT ![e.fd] = "closed"] /\ clock' \in [Fds -> Clocks]
      /\ \A f, g \in List' : f.addr = g.addr => f = g
      /\ \A f, g \in List' : f.fd = g.fd /\ f.fd # NoFd => f = g
      /\ Listed'
  BY Closing DEF LoopInv
<1>3. Waiting' = Waiting
  BY DEF Waiting
<1>4. /\ timers' \in [Nodes -> Fds \cup {NoFd}]
      /\ nodes' \in [Nodes -> {Online, Offline}]
      /\ timers'[n] = NoFd /\ nodes'[n] = Offline
      /\ \A m \in Nodes \ {n} : timers'[m] = timers[m] /\ nodes'[m] = nodes[m]
  BY DEF LoopInv, Types
<1>5. Types' /\ Named'
  BY <1>2, <1>4 DEF LoopInv, Types, Named
<1>6. \A m \in Nodes \ {n} : timers[m] # timers[n]
  BY DEF LoopInv, Owned
<1>7. Owned'
  <2>1. \A f \in List' : f.handler = "async" => f.fd # NoFd /\ f.addr \in Waiting'
    BY <1>2, <1>3 DEF LoopInv, Owned
  <2>2. \A a \in Waiting' : \E f \in List' : f.addr = a /\ f.handler = "async"
    BY <1>1, <1>2, <1>3 DEF LoopInv, Owned
  <2>3. \A f \in List' : f.handler = "heartbeat" /\ f.fd # NoFd => \E m \in Nodes : timers'[m] = f.fd
    BY <1>2, <1>4 DEF LoopInv, Owned, Named
  <2>4. \A m \in Nodes : timers'[m] # NoFd =>
          \E f \in List' : f.fd = timers'[m] /\ f.handler = "heartbeat"
    BY <1>2, <1>4, <1>6 DEF LoopInv, Owned
  <2>5. \A m, k \in Nodes : timers'[m] = timers'[k] /\ timers'[m] # NoFd => m = k
    BY <1>4 DEF LoopInv, Owned
  <2> QED
    BY <2>1, <2>2, <2>3, <2>4, <2>5 DEF Owned
<1>8. FiredIsOverdue'
  BY <1>2, <1>4, <1>6 DEF LoopInv, FiredIsOverdue, Types
<1>9. OnlineIsWatched'
  BY <1>4 DEF LoopInv, OnlineIsWatched, Online, Offline
<1> QED
  BY <1>2, <1>5, <1>7, <1>8, <1>9 DEF LoopInv

\* a heartbeat that says offline
LEMMA OfflineStep ==
  ASSUME LoopInv, NEW n \in Nodes, HeartbeatHandler(n, Offline)
  PROVE  LoopInv'
<1>1. /\ GoesOffline(n)
      /\ nodes' = [nodes EXCEPT ![n] = Offline]
      /\ overdue' = [overdue EXCEPT ![n] = FALSE]
      /\ tasks' = tasks
  BY DEF HeartbeatHandler
<1>2. timers' = [timers EXCEPT ![n] = NoFd] /\ starved' = starved \ {n}
  BY <1>1 DEF GoesOffline
<1>3. overdue' \in [Nodes -> BOOLEAN] /\ \A m \in Nodes \ {n} : overdue'[m] = overdue[m]
  BY <1>1 DEF LoopInv, Types
<1>4. CASE timers[n] # NoFd
  <2> DEFINE found == {k \in DOMAIN entries : entries[k].fd = timers[n]}
  <2>1. EntryClose(EntryFind(timers[n])) /\ found # {}
    BY <1>1, <1>4 DEF GoesOffline
  <2>2. DOMAIN entries \subseteq Nat
    BY LenProperties DEF LoopInv, Types
  <2>3. Lowest(found) \in found
    BY <2>1, <2>2, LowestIsLeast
  <2>4. PICK e \in List : e = entries[Lowest(found)]
    BY <2>3 DEF List, Range
  <2>5. e.fd = timers[n] /\ EntryClose(e.addr)
    BY <2>1, <2>3, <2>4 DEF EntryFind
  <2> QED
    BY <1>1, <1>2, <1>3, <1>4, <2>5, UnwatchStep
<1>5. CASE timers[n] = NoFd
  <2>1. UNCHANGED <<entries, epoll, clock>>
    BY <1>1, <1>5 DEF GoesOffline
  <2>2. timers' = timers
    BY <1>2, <1>5 DEF LoopInv, Types
  <2>3. List' = List /\ Waiting' = Waiting
    BY <1>1, <2>1 DEF List, Waiting
  <2>4. nodes' \in [Nodes -> {Online, Offline}] /\ nodes'[n] = Offline
        /\ \A m \in Nodes \ {n} : nodes'[m] = nodes[m]
    BY <1>1 DEF LoopInv, Types
  <2>5. Types' /\ Named' /\ Listed' /\ Owned'
    BY <1>1, <1>3, <2>1, <2>2, <2>3, <2>4 DEF LoopInv, Types, Named, Listed, Owned
  <2>6. FiredIsOverdue'
    BY <1>3, <1>5, <2>1, <2>2 DEF LoopInv, FiredIsOverdue
  <2>7. OnlineIsWatched'
    BY <1>2, <1>5, <2>2, <2>4 DEF LoopInv, OnlineIsWatched, Online, Offline
  <2> QED
    BY <2>5, <2>6, <2>7 DEF LoopInv
<1> QED
  BY <1>4, <1>5

\* the first heartbeat of a node that was offline: a timer, or none if there is none left
LEMMA OnlineStep ==
  ASSUME LoopInv, NEW n \in Nodes, ComesOnline(n), nodes' = [nodes EXCEPT ![n] = Online],
         overdue' = [overdue EXCEPT ![n] = FALSE], tasks' = tasks
  PROVE  LoopInv'
<1> DEFINE fd == IF FreeFds = {} THEN NoFd ELSE Lowest(FreeFds)
           new == [addr |-> NewAddr, fd |-> fd, handler |-> "heartbeat"]
<1>1. fd \in Fds \cup {NoFd} /\ (fd # NoFd => clock[fd] = "closed")
  BY LowestFd
<1>2. /\ List' = List \cup {new}
      /\ entries' \in Seq(EntryRecords) /\ IsInjective(entries')
      /\ epoll' \subseteq [fd : Fds, ptr : Addrs]
      /\ clock' \in [Fds -> Clocks]
      /\ \A e, f \in List' : e.addr = f.addr => e = f
      /\ \A e, f \in List' : e.fd = f.fd /\ e.fd # NoFd => e = f
      /\ Listed'
  <2>1. /\ entries' = EntryAdded(fd, "heartbeat")
        /\ epoll' = Registered(fd)
        /\ clock' = IF fd = NoFd THEN clock ELSE [clock EXCEPT ![fd] = "armed"]
        /\ FreeAddrs # {}
    BY DEF ComesOnline
  <2> HIDE DEF fd
  <2> QED
    BY <1>1, <2>1, Adding DEF LoopInv, Handlers
<1>3. /\ timers[n] = NoFd
      /\ timers' = [timers EXCEPT ![n] = fd]
      /\ starved' = IF fd = NoFd THEN starved \cup {n} ELSE starved \ {n}
      /\ clock' = IF fd = NoFd THEN clock ELSE [clock EXCEPT ![fd] = "armed"]
  BY DEF ComesOnline
<1>4. new.addr = NewAddr /\ new.fd = fd /\ new.handler = "heartbeat"
  OBVIOUS
<1> HIDE DEF fd, new
<1>5. /\ timers' \in [Nodes -> Fds \cup {NoFd}] /\ timers'[n] = fd
      /\ nodes' \in [Nodes -> {Online, Offline}] /\ nodes'[n] = Online
      /\ overdue' \in [Nodes -> BOOLEAN]
      /\ \A m \in Nodes \ {n} : timers'[m] = timers[m] /\ nodes'[m] = nodes[m] /\ overdue'[m] = overdue[m]
  BY <1>1, <1>3 DEF LoopInv, Types
<1>6. \A m \in Nodes : timers[m] # NoFd => timers[m] \in Fds /\ timers[m] # fd
  BY <1>1 DEF LoopInv, Types, Owned, Listed
<1>7. \A d \in Fds : clock'[d] = IF d = fd THEN "armed" ELSE clock[d]
  BY <1>1, <1>3 DEF LoopInv, Types, Fds, NoFd
<1>8. Waiting' = Waiting
  BY DEF Waiting
<1>9. Types' /\ Named'
  BY <1>2, <1>5 DEF LoopInv, Types, Named
<1>10. Owned'
  <2>1. \A e \in List' : e.handler = "async" => e.fd # NoFd /\ e.addr \in Waiting'
    BY <1>2, <1>4, <1>8 DEF LoopInv, Owned
  <2>2. \A a \in Waiting' : \E e \in List' : e.addr = a /\ e.handler = "async"
    BY <1>2, <1>8 DEF LoopInv, Owned
  <2>3. \A e \in List' : e.handler = "heartbeat" /\ e.fd # NoFd => \E m \in Nodes : timers'[m] = e.fd
    BY <1>2, <1>3, <1>4, <1>5 DEF LoopInv, Owned
  <2>4. \A m \in Nodes : timers'[m] # NoFd =>
          \E e \in List' : e.fd = timers'[m] /\ e.handler = "heartbeat"
    BY <1>2, <1>4, <1>5 DEF LoopInv, Owned
  <2>5. \A m, k \in Nodes : timers'[m] = timers'[k] /\ timers'[m] # NoFd => m = k
    BY <1>5, <1>6 DEF LoopInv, Owned
  <2> QED
    BY <2>1, <2>2, <2>3, <2>4, <2>5 DEF Owned
<1>11. FiredIsOverdue'
  BY <1>1, <1>5, <1>6, <1>7 DEF LoopInv, FiredIsOverdue
<1>12. OnlineIsWatched'
  BY <1>3, <1>5 DEF LoopInv, OnlineIsWatched, Online, Offline
<1> QED
  BY <1>2, <1>9, <1>10, <1>11, <1>12 DEF LoopInv

\* a further heartbeat takes back what the timer said
LEMMA RearmStep ==
  ASSUME LoopInv, NEW n \in Nodes, StaysOnline(n), nodes' = [nodes EXCEPT ![n] = Online],
         overdue' = [overdue EXCEPT ![n] = FALSE], tasks' = tasks
  PROVE  LoopInv'
<1>1. timers[n] # NoFd /\ timers[n] \in Fds
  BY DEF StaysOnline, LoopInv, Types
<1>2. /\ clock' \in [Fds -> Clocks]
      /\ clock'[timers[n]] # "fired"
      /\ \A fd \in Fds : (clock'[fd] = "closed") <=> (clock[fd] = "closed")
      /\ \A fd \in Fds \ {timers[n]} : clock'[fd] = clock[fd]
  BY <1>1 DEF StaysOnline, Rearmed, LoopInv, Types, Clocks
<1>3. UNCHANGED <<timers, entries, epoll, starved>>
  BY DEF StaysOnline
<1>4. /\ nodes' \in [Nodes -> {Online, Offline}] /\ nodes'[n] = Online
      /\ overdue' \in [Nodes -> BOOLEAN]
      /\ \A m \in Nodes \ {n} : nodes'[m] = nodes[m] /\ overdue'[m] = overdue[m]
  BY DEF LoopInv, Types
<1>5. List' = List /\ Waiting' = Waiting
  BY <1>3 DEF List, Waiting
<1>6. \A e \in List : e.fd \in Fds \cup {NoFd}
  BY ListTypes DEF LoopInv, EntryRecords
<1>7. Types' /\ Named' /\ Owned'
  BY <1>2, <1>3, <1>4, <1>5 DEF LoopInv, Types, Named, Owned
<1>8. Listed'
  BY <1>2, <1>3, <1>5, <1>6 DEF LoopInv, Listed
<1>9. FiredIsOverdue'
  BY <1>2, <1>3, <1>4 DEF LoopInv, FiredIsOverdue, Types
<1>10. OnlineIsWatched'
  BY <1>1, <1>3, <1>4 DEF LoopInv, OnlineIsWatched
<1> QED
  BY <1>7, <1>8, <1>9, <1>10 DEF LoopInv

\* a heartbeat of either kind
LEMMA HeartbeatStep ==
  ASSUME LoopInv, NEW n \in Nodes, NEW mode \in {Online, Offline}, HeartbeatHandler(n, mode)
  PROVE  LoopInv'
<1>1. CASE mode = Offline
  BY <1>1, OfflineStep
<1>2. CASE mode = Online
  <2>1. /\ ComesOnline(n) \/ StaysOnline(n)
        /\ nodes' = [nodes EXCEPT ![n] = Online]
        /\ overdue' = [overdue EXCEPT ![n] = FALSE]
        /\ tasks' = tasks
    BY <1>2 DEF HeartbeatHandler, Online, Offline
  <2> QED
    BY <2>1, OnlineStep, RearmStep
<1> QED
  BY <1>1, <1>2

\* the pointer epoll holds for a timer leads to the entry with its descriptor
LEMMA PointerIsEntry ==
  ASSUME LoopInv, NEW x \in epoll
  PROVE  \E e \in List : e.fd = x.fd /\ e.fd # NoFd /\ e.addr = x.ptr /\ Entry(x.ptr) = e
<1>1. PICK e \in List : e.fd # NoFd /\ x = Pair(e)
  BY DEF LoopInv, Listed
<1>2. x.fd = e.fd /\ x.ptr = e.addr
  BY <1>1 DEF Pair
<1> QED
  BY <1>1, <1>2, EntryIs DEF LoopInv

\* an expired heartbeat timer: the search finds the node it was created for
LEMMA TimeoutFindsOwner ==
  ASSUME NodeIdMax \notin Nodes, LoopInv, NEW x \in epoll, HeartbeatTimeoutHandler(x.ptr)
  PROVE  \E n \in Nodes, e \in List :
           /\ timers[n] # NoFd /\ e.fd = timers[n] /\ e.fd = x.fd
           /\ EntryClose(e.addr)
           /\ clock' = [clock EXCEPT ![e.fd] = "closed"]
           /\ timers' = [timers EXCEPT ![n] = NoFd]
           /\ nodes' = [nodes EXCEPT ![n] = Offline]
           /\ lastCall' = [node |-> n, old |-> nodes[n], new |-> Offline, by |-> "timeout"]
<1>1. PICK e \in List : e.fd = x.fd /\ e.fd # NoFd /\ e.addr = x.ptr /\ Entry(x.ptr) = e
  BY PointerIsEntry
<1>2. e.handler = "heartbeat"
  BY <1>1 DEF HeartbeatTimeoutHandler
<1> DEFINE found == {n \in Searched : timers[n] = e.fd}
<1>3. found # {} /\ found \subseteq Nodes /\ found \subseteq Nat
  <2>1. PICK n \in Nodes : timers[n] = e.fd
    BY <1>1, <1>2 DEF LoopInv, Owned
  <2>2. n \in Searched
    BY NodesAssumption DEF Searched, NodeIdMax
  <2>3. n \in found
    BY <2>1, <2>2
  <2>4. found \subseteq Nodes
    BY DEF Searched
  <2>5. Nodes \subseteq Nat
    BY NodesAssumption DEF NodeIdMax
  <2> QED
    BY <2>3, <2>4, <2>5
<1>4. Lowest(found) \in found
  BY <1>3, LowestIsLeast
<1>5. PICK n \in {Lowest(found)} :
        /\ EntryClose(x.ptr)
        /\ timers' = [timers EXCEPT ![n] = NoFd]
        /\ nodes' = [nodes EXCEPT ![n] = Offline]
        /\ StatusCallback(n, Offline, "timeout")
  BY <1>1, <1>3 DEF HeartbeatTimeoutHandler
<1>6. n \in Nodes /\ timers[n] = e.fd
  BY <1>3, <1>4, <1>5
<1>7. clock' = [clock EXCEPT ![e.fd] = "closed"]
  BY <1>1, <1>5 DEF EntryClose
<1> QED
  BY <1>1, <1>5, <1>6, <1>7 DEF StatusCallback

\* wlmio_tick with an expired timer
LEMMA TimerStep ==
  ASSUME NodeIdMax \notin Nodes, LoopInv, NEW fd \in Fds, HandleTimer(fd)
  PROVE  LoopInv'
<1>1. PICK x \in epoll : x.fd = fd /\ (AsyncHandler(x.ptr) \/ HeartbeatTimeoutHandler(x.ptr))
  BY DEF HandleTimer
<1>2. CASE AsyncHandler(x.ptr)
  <2>1. PICK i \in DOMAIN tasks : RemoveTask(i)
    BY <1>2 DEF AsyncHandler
  <2> QED
    BY <1>2, <2>1, RemoveTaskStep DEF AsyncHandler
<1>3. CASE HeartbeatTimeoutHandler(x.ptr)
  <2>1. PICK n \in Nodes, e \in List :
          /\ timers[n] # NoFd /\ e.fd = timers[n]
          /\ EntryClose(e.addr)
          /\ timers' = [timers EXCEPT ![n] = NoFd]
          /\ nodes' = [nodes EXCEPT ![n] = Offline]
    BY <1>3, TimeoutFindsOwner
  <2>2. UNCHANGED <<tasks, overdue, starved>>
    BY <1>3 DEF HeartbeatTimeoutHandler
  <2>3. overdue' \in [Nodes -> BOOLEAN]
    BY <2>2 DEF LoopInv, Types
  <2> QED
    BY <2>1, <2>2, <2>3, UnwatchStep
<1> QED
  BY <1>1, <1>2, <1>3

\* the kernel expires a timer
LEMMA FireStep ==
  ASSUME LoopInv, NEW fd \in Fds, FireTimer(fd)
  PROVE  LoopInv'
<1>1. UNCHANGED <<entries, epoll, tasks, timers, nodes, starved>>
  BY DEF FireTimer
<1>2. List' = List /\ Waiting' = Waiting
  BY <1>1 DEF List, Waiting
<1>3. /\ clock' \in [Fds -> Clocks]
      /\ \A d \in Fds : (clock'[d] = "closed") <=> (clock[d] = "closed")
      /\ \A d \in Fds \ {fd} : clock'[d] = clock[d]
  BY DEF FireTimer, LoopInv, Types, Clocks
<1>4. overdue' = [n \in Nodes |-> overdue[n] \/ timers[n] = fd]
  BY DEF FireTimer
<1>5. overdue' \in [Nodes -> BOOLEAN]
  BY <1>4, Zenon
<1>6. \A e \in List : e.fd \in Fds \cup {NoFd}
  BY ListTypes DEF LoopInv, EntryRecords
<1>7. Types' /\ Named' /\ Owned'
  BY <1>1, <1>2, <1>3, <1>5 DEF LoopInv, Types, Named, Owned
<1>8. Listed'
  BY <1>1, <1>2, <1>3, <1>6 DEF LoopInv, Listed
<1>9. FiredIsOverdue'
  <2> SUFFICES ASSUME NEW n \in Nodes, timers[n] # NoFd, clock'[timers[n]] = "fired"
               PROVE  overdue'[n]
    BY <1>1 DEF FiredIsOverdue
  <2>1. timers[n] = fd \/ overdue[n]
    BY <1>3 DEF LoopInv, FiredIsOverdue, Types
  <2> QED
    BY <1>4, <2>1, Zenon
<1>10. OnlineIsWatched'
  BY <1>1 DEF LoopInv, OnlineIsWatched
<1> QED
  BY <1>7, <1>8, <1>9, <1>10 DEF LoopInv

\* every step preserves the invariant
LEMMA LoopStep ==
  ASSUME NodeIdMax \notin Nodes, LoopInv, [Next]_vars
  PROVE  LoopInv'
<1>1. ASSUME AddTask
      PROVE  LoopInv'
  BY <1>1, AddTaskStep
<1>2. ASSUME CompleteTask
      PROVE  LoopInv'
  BY <1>2, RemoveTaskStep DEF CompleteTask
<1>3. ASSUME NEW n \in Nodes, NEW mode \in {Online, Offline}, HeartbeatHandler(n, mode)
      PROVE  LoopInv'
  BY <1>3, HeartbeatStep
<1>4. ASSUME NEW fd \in Fds, HandleTimer(fd) \/ FireTimer(fd)
      PROVE  LoopInv'
  BY <1>4, TimerStep, FireStep
<1>5. ASSUME (\E n \in Nodes : Power(n)) \/ UNCHANGED vars
      PROVE  LoopInv'
  <2>1. UNCHANGED <<entries, epoll, clock, tasks, timers, nodes, overdue, starved>>
    BY <1>5 DEF Power, vars
  <2>2. List' = List /\ Waiting' = Waiting
    BY <2>1 DEF List, Waiting
  <2> QED
    BY <2>1, <2>2 DEF LoopInv, Types, Named, Listed, Owned, FiredIsOverdue, OnlineIsWatched
<1> QED
  BY <1>1, <1>2, <1>3, <1>4, <1>5 DEF Next

\* the invariant holds throughout
LEMMA LoopInvariant ==
  ASSUME NodeIdMax \notin Nodes
  PROVE  Spec => []LoopInv
<1>1. Init => LoopInv
  BY LoopInit
<1>2. LoopInv /\ [Next]_vars => LoopInv'
  BY LoopStep
<1> QED
  BY <1>1, <1>2, PTL DEF Spec

-----------------------------------------------------------------------------
(***************************************************************************)
(* The theorems.                                                           *)
(***************************************************************************)

\* OneOwner from the sets: a list whose elements differ has an element at one place
LEMMA OwnersAreOne == LoopInv => OneOwner
<1> SUFFICES ASSUME LoopInv, NEW fd \in Fds
             PROVE  LET mine == {i \in DOMAIN entries : entries[i].fd = fd} IN
                    IF clock[fd] = "closed"
                    THEN mine = {} /\ TaskOwners(fd) = {} /\ NodeOwners(fd) = {} /\ ~\E x \in epoll : x.fd = fd
                    ELSE \E i \in DOMAIN entries :
                           /\ mine = {i}
                           /\ {x \in epoll : x.fd = fd} = {[fd |-> fd, ptr |-> entries[i].addr]}
                           /\ IF entries[i].handler = "async"
                              THEN Cardinality(TaskOwners(fd)) = 1 /\ NodeOwners(fd) = {}
                              ELSE Cardinality(NodeOwners(fd)) = 1 /\ TaskOwners(fd) = {}
  BY DEF OneOwner
<1> DEFINE mine == {i \in DOMAIN entries : entries[i].fd = fd}
<1>1. fd # NoFd
  BY DEF Fds, NoFd
<1>2. \A i \in DOMAIN entries : entries[i] \in List
  BY DEF List, Range
<1>3. \A i \in DOMAIN tasks : tasks[i] \in UsedAddrs /\ Entry(tasks[i]).fd = fd =>
        \E e \in List : e.addr = tasks[i] /\ e.fd = fd /\ e.handler = "async"
  <2> SUFFICES ASSUME NEW i \in DOMAIN tasks, Entry(tasks[i]).fd = fd
               PROVE  \E e \in List : e.addr = tasks[i] /\ e.fd = fd /\ e.handler = "async"
    OBVIOUS
  <2>1. tasks[i] \in Waiting
    BY DEF Waiting, Range
  <2>2. PICK e \in List : e.addr = tasks[i] /\ e.handler = "async"
    BY <2>1 DEF LoopInv, Owned
  <2> QED
    BY <2>2, EntryIs DEF LoopInv
<1>4. CASE clock[fd] = "closed"
  <2>1. \A e \in List : e.fd # fd
    BY <1>1, <1>4 DEF LoopInv, Listed
  <2>2. NodeOwners(fd) = {}
    BY <1>1, <2>1 DEF NodeOwners, LoopInv, Owned
  <2>3. ~\E x \in epoll : x.fd = fd
    BY <2>1, PointerIsEntry
  <2> QED
    BY <1>2, <1>3, <1>4, <2>1, <2>2, <2>3 DEF TaskOwners
<1>5. CASE clock[fd] # "closed"
  <2>1. PICK e \in List : e.fd = fd
    BY <1>5 DEF LoopInv, Listed
  <2>2. PICK i \in DOMAIN entries : entries[i] = e
    BY DEF List, Range
  <2>3. mine = {i}
    <3>1. \A j \in DOMAIN entries : entries[j].fd = fd => entries[j] = e
      BY <1>1, <1>2, <2>1 DEF LoopInv, Named
    <3>2. \A j \in DOMAIN entries : entries[j] = entries[i] => j = i
      BY DEF LoopInv, Named, IsInjective
    <3> QED
      BY <2>1, <2>2, <3>1, <3>2
  <2>4. {x \in epoll : x.fd = fd} = {[fd |-> fd, ptr |-> e.addr]}
    <3>1. Pair(e) \in epoll /\ Pair(e) = [fd |-> fd, ptr |-> e.addr]
      BY <1>1, <2>1 DEF LoopInv, Listed, Pair
    <3>2. \A x \in epoll : x.fd = fd => x = Pair(e)
      BY <1>1, <2>1 DEF LoopInv, Listed, Named, Pair
    <3> QED
      BY <3>1, <3>2
  <2>5. CASE e.handler = "async"
    <3>1. PICK k \in DOMAIN tasks : tasks[k] = e.addr
      BY <2>5 DEF LoopInv, Owned, Waiting, Range
    <3>2. TaskOwners(fd) = {k}
      <4>1. k \in TaskOwners(fd)
        <5>1. tasks[k] \in UsedAddrs
          BY <2>2, <3>1 DEF UsedAddrs
        <5>2. Entry(tasks[k]) = e
          BY <3>1, EntryIs DEF LoopInv
        <5> QED
          BY <2>1, <5>1, <5>2 DEF TaskOwners
      <4>2. \A j \in TaskOwners(fd) : tasks[j] = e.addr
        BY <1>1, <1>3, <2>1 DEF TaskOwners, LoopInv, Named
      <4> QED
        BY <3>1, <4>1, <4>2 DEF TaskOwners, LoopInv, Named, IsInjective
    <3>3. NodeOwners(fd) = {}
      BY <1>1, <2>1, <2>5 DEF NodeOwners, LoopInv, Owned, Named
    <3> QED
      BY <1>5, <2>2, <2>3, <2>4, <2>5, <3>2, <3>3, FS_Singleton
  <2>6. CASE e.handler # "async"
    <3>1. e.handler = "heartbeat"
      BY <2>6, ListTypes DEF LoopInv, EntryRecords, Handlers
    <3>2. PICK n \in Nodes : timers[n] = fd
      BY <1>1, <2>1, <3>1 DEF LoopInv, Owned
    <3>3. NodeOwners(fd) = {n}
      BY <1>1, <3>2 DEF NodeOwners, LoopInv, Owned
    <3>4. TaskOwners(fd) = {}
      BY <1>1, <1>3, <2>1, <3>1 DEF TaskOwners, LoopInv, Named
    <3> QED
      BY <1>5, <2>2, <2>3, <2>4, <2>6, <3>3, <3>4, FS_Singleton
  <2> QED
    BY <2>5, <2>6
<1> QED
  BY <1>4, <1>5

\* OneOwner: every open timer belongs to one task or one node, and epoll points to its entry, for
\* any number of them, whatever numbers and addresses are handed out again
THEOREM TimersHaveOneOwner ==
  ASSUME NodeIdMax \notin Nodes
  PROVE  Spec => []OneOwner
BY LoopInvariant, OwnersAreOne, PTL

\* TasksHaveEntries: the pointer of a task is never one to a freed entry
THEOREM TaskPointersAreValid ==
  ASSUME NodeIdMax \notin Nodes
  PROVE  Spec => []TasksHaveEntries
<1>1. LoopInv => TasksHaveEntries
  <2> SUFFICES ASSUME LoopInv, NEW i \in DOMAIN tasks
               PROVE  tasks[i] \in UsedAddrs /\ Entry(tasks[i]).handler = "async"
    BY DEF TasksHaveEntries
  <2>1. PICK e \in List : e.addr = tasks[i] /\ e.handler = "async"
    BY DEF LoopInv, Owned, Waiting, Range
  <2>2. Entry(tasks[i]) = e
    BY <2>1, EntryIs DEF LoopInv
  <2>3. tasks[i] \in UsedAddrs
    BY <2>1 DEF UsedAddrs, List, Range
  <2> QED
    BY <2>1, <2>2, <2>3
<1> QED
  BY <1>1, LoopInvariant, PTL

\* OnlineIsWatched: a node has a heartbeat timer exactly while it is online
THEOREM OnlineNodesAreWatched ==
  ASSUME NodeIdMax \notin Nodes
  PROVE  Spec => []OnlineIsWatched
<1>1. LoopInv => OnlineIsWatched
  BY DEF LoopInv
<1> QED
  BY <1>1, LoopInvariant, PTL

\* only the handler of an expired heartbeat timer reports a timeout
LEMMA TimeoutReports ==
  ASSUME NodeIdMax \notin Nodes, LoopInv, [Next]_vars, lastCall'.by = "timeout", lastCall' # lastCall
  PROVE  LET n == lastCall'.node
         IN  n \in Nodes /\ timers[n] # NoFd /\ clock[timers[n]] = "fired" /\ clock'[timers[n]] = "closed"
<1>1. PICK fd \in Fds : HandleTimer(fd)
  <2>1. lastCall' # NoCall
    BY DEF NoCall
  <2>2. \A n \in Nodes : \A mode \in {Online, Offline} : ~HeartbeatHandler(n, mode)
    BY DEF HeartbeatHandler, StatusCallback
  <2> QED
    BY <2>1, <2>2 DEF Next, vars, AddTask, CompleteTask, FireTimer, Power
<1>2. PICK x \in epoll : x.fd = fd /\ (AsyncHandler(x.ptr) \/ HeartbeatTimeoutHandler(x.ptr))
  BY <1>1 DEF HandleTimer
<1>3. HeartbeatTimeoutHandler(x.ptr)
  BY <1>2 DEF AsyncHandler, NoCall
<1>4. PICK n \in Nodes, e \in List :
        /\ timers[n] # NoFd /\ e.fd = timers[n] /\ e.fd = x.fd
        /\ clock' = [clock EXCEPT ![e.fd] = "closed"]
        /\ lastCall' = [node |-> n, old |-> nodes[n], new |-> Offline, by |-> "timeout"]
  BY <1>3, TimeoutFindsOwner
<1>5. clock[fd] = "fired" /\ timers[n] = fd
  BY <1>1, <1>2, <1>4 DEF HandleTimer
<1> QED
  BY <1>4, <1>5 DEF LoopInv, Types

\* TimeoutNamesOwner: a heartbeat timer speaks for the node it was created for
THEOREM TimeoutsNameTheirOwner ==
  ASSUME NodeIdMax \notin Nodes
  PROVE  Spec => TimeoutNamesOwner
<1> DEFINE Step == lastCall'.by = "timeout" /\ lastCall' # lastCall =>
                     /\ timers[lastCall'.node] # NoFd
                     /\ clock'[timers[lastCall'.node]] = "closed"
<1>1. LoopInv /\ [Next]_vars => [Step]_vars
  BY TimeoutReports
<1> QED
  BY <1>1, LoopInvariant, PTL DEF Spec, TimeoutNamesOwner

\* NoFalseTimeout: a node is reported offline by a timeout only if none of its heartbeats was
\* handled since its timer expired
THEOREM TimeoutsAreNotFalse ==
  ASSUME NodeIdMax \notin Nodes
  PROVE  Spec => NoFalseTimeout
<1> DEFINE Step == lastCall'.by = "timeout" /\ lastCall' # lastCall => overdue[lastCall'.node]
<1>1. LoopInv /\ [Next]_vars => [Step]_vars
  BY TimeoutReports DEF LoopInv, FiredIsOverdue
<1> QED
  BY <1>1, LoopInvariant, PTL DEF Spec, NoFalseTimeout
=============================================================================
