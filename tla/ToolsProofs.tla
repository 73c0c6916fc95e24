---------------------------- MODULE ToolsProofs -----------------------------
(***************************************************************************)
(* Theorems about the programs on the library: the terminal tools (Tools)  *)
(* and what they are made of, the blocking calls (SyncApi) and the         *)
(* payloads behind them (RegisterCodec); and the updater (FwUpdate), which *)
(* has neither but builds and reads CAN-IDs itself.                        *)
(***************************************************************************)
EXTENDS Tools, FwUpdate, FiniteSetTheorems, SequenceTheorems, TLAPS

-----------------------------------------------------------------------------
(***************************************************************************)
(* Blocking calls, any number of them: as long as no callback makes one    *)
(* (Depth = 1), the flag and the result that all calls share are as good   *)
(* as one pair for each.  With nested calls they are not: the run          *)
(* sync_nested shows it.                                                   *)
(***************************************************************************)
Types ==
  /\ sync_flag \in BOOLEAN
  /\ DOMAIN returned = Calls

\* at most one call is blocked, and an operation that is under way is its own
OneBlocked ==
  \/ frames = <<>> /\ pending = {}
  \/ \E c \in Calls, where \in {"loop", "tick"} :
       /\ frames = <<[call |-> c, at |-> where]>>
       /\ pending \subseteq {c}
       \* once the flag is set its operation is over and the result is there
       /\ sync_flag => pending = {} /\ sync_return.of \subseteq {c}

SyncInv ==
  /\ Types
  /\ OneBlocked
  /\ OwnResult

\* what the frames of a single call look like to the actions
LEMMA OneFrame ==
  ASSUME NEW c, NEW where, frames = <<[call |-> c, at |-> where]>>
  PROVE  /\ frames # <<>>
         /\ Len(frames) = 1
         /\ Top = [call |-> c, at |-> where]
         /\ Front(frames) = <<>>
         /\ Blocked = {c}
<1>1. Len(frames) = 1 /\ frames[1] = [call |-> c, at |-> where] /\ DOMAIN frames = {1}
  OBVIOUS
<1>2. Top = [call |-> c, at |-> where]
  BY <1>1 DEF Top, Last
<1>3. Front(frames) = <<>>
  BY <1>1 DEF Front
<1>4. Blocked = {c}
  BY <1>1 DEF Blocked
<1> QED
  BY <1>1, <1>2, <1>3, <1>4

\* no call has been made at first
LEMMA SyncInit == Init => SyncInv
<1> SUFFICES ASSUME Init PROVE SyncInv
  OBVIOUS
<1>1. Types
  BY DEF Init, Types
<1>2. OneBlocked
  BY DEF Init, OneBlocked
<1>3. OwnResult
  BY DEF Init, OwnResult, Nothing
<1> QED
  BY <1>1, <1>2, <1>3 DEF SyncInv

\* no call starts from the tick of another
LEMMA NoneBlocked ==
  ASSUME Depth = 1, SyncInv, NEW c, CallRefused(c) \/ CallStarted(c)
  PROVE  frames = <<>>
<1> SUFFICES ASSUME frames # <<>> PROVE FALSE
  OBVIOUS
<1>1. PICK d, where : frames = <<[call |-> d, at |-> where]>>
  BY DEF SyncInv, OneBlocked
<1>2. Len(frames) = 1
  BY <1>1, OneFrame
<1> QED
  BY <1>2 DEF CallRefused, CallStarted, MayCall

\* a call starts when none is blocked
LEMMA CallStep ==
  ASSUME SyncInv, frames = <<>>, NEW c \in Idle, CallRefused(c) \/ CallStarted(c)
  PROVE  SyncInv'
<1>1. c \in Calls
  BY DEF Idle
<1>2. frames = <<>> /\ pending = {}
  BY DEF SyncInv, OneBlocked
<1>3. CASE CallRefused(c)
  BY <1>1, <1>2, <1>3 DEF CallRefused, SyncInv, Types, OneBlocked, OwnResult, Result
<1>4. CASE CallStarted(c)
  <2>1. /\ sync_flag' = FALSE
        /\ frames' = Append(frames, [call |-> c, at |-> "loop"])
        /\ pending' = pending \cup {c} \/ pending' = pending
        /\ UNCHANGED <<sync_return, returned>>
    BY <1>4 DEF CallStarted
  <2>2. frames' = <<[call |-> c, at |-> "loop"]>>
    BY <1>2, <2>1
  <2>3. OneBlocked'
    BY <1>1, <1>2, <2>1, <2>2 DEF OneBlocked
  <2> QED
    BY <2>1, <2>3 DEF SyncInv, Types, OwnResult
<1> QED
  BY <1>3, <1>4

\* the steps of the call that is blocked
LEMMA BlockedStep ==
  ASSUME SyncInv, frames # <<>>,
         LoopOnce \/ LoopDone \/ TickReturns \/ \E c \in Calls : SyncCallback(c)
  PROVE  SyncInv'
<1>1. PICK c \in Calls, where \in {"loop", "tick"} :
        /\ frames = <<[call |-> c, at |-> where]>>
        /\ pending \subseteq {c}
        /\ sync_flag => pending = {} /\ sync_return.of \subseteq {c}
  BY DEF SyncInv, OneBlocked
<1>2. Len(frames) = 1 /\ Top = [call |-> c, at |-> where] /\ Front(frames) = <<>>
  BY <1>1, OneFrame
<1>3. CASE LoopOnce \/ TickReturns
  <2>1. PICK place \in {"loop", "tick"} :
          /\ frames' = [frames EXCEPT ![1].at = place]
          /\ UNCHANGED <<sync_flag, sync_return, pending, returned>>
    BY <1>2, <1>3 DEF LoopOnce, TickReturns, MoveTo
  <2>2. frames' = <<[call |-> c, at |-> place]>>
    BY <1>1, <2>1
  <2>3. OneBlocked'
    BY <1>1, <2>1, <2>2 DEF OneBlocked
  <2> QED
    BY <2>1, <2>3 DEF SyncInv, Types, OwnResult
<1>4. CASE LoopDone
  <2>1. /\ sync_flag
        /\ returned' = [returned EXCEPT ![c] = sync_return]
        /\ frames' = <<>>
        /\ UNCHANGED <<sync_flag, sync_return, pending>>
    BY <1>2, <1>4 DEF LoopDone
  <2>2. OneBlocked'
    BY <1>1, <2>1 DEF OneBlocked
  <2>3. OwnResult'
    BY <1>1, <2>1 DEF SyncInv, Types, OwnResult
  <2> QED
    BY <2>1, <2>2, <2>3 DEF SyncInv, Types
<1>5. CASE \E d \in Calls : SyncCallback(d)
  <2>1. PICK d \in Calls : SyncCallback(d)
    BY <1>5
  <2>2. d = c /\ pending' = {} /\ sync_return'.of = {c}
    BY <1>1, <2>1 DEF SyncCallback, Result
  <2>3. sync_flag' = TRUE /\ UNCHANGED <<frames, returned>>
    BY <2>1 DEF SyncCallback
  <2>4. OneBlocked'
    BY <1>1, <2>2, <2>3 DEF OneBlocked
  <2> QED
    BY <2>3, <2>4 DEF SyncInv, Types, OwnResult
<1> QED
  BY <1>3, <1>4, <1>5

\* every step of the specification keeps the invariant
LEMMA SyncStep ==
  ASSUME Depth = 1
  PROVE  SyncInv /\ [Next]_vars => SyncInv'
<1> SUFFICES ASSUME SyncInv, [Next]_vars PROVE SyncInv'
  OBVIOUS
<1>1. CASE UNCHANGED vars
  BY <1>1 DEF vars, SyncInv, Types, OneBlocked, OwnResult
<1>2. CASE \E c \in Idle : CallRefused(c) \/ CallStarted(c)
  BY <1>2, NoneBlocked, CallStep
<1>3. CASE LoopOnce \/ LoopDone \/ TickReturns \/ \E c \in Calls : SyncCallback(c)
  BY <1>3, BlockedStep DEF LoopOnce, LoopDone, TickReturns, SyncCallback
<1> QED
  BY <1>1, <1>2, <1>3 DEF Next

-----------------------------------------------------------------------------
\* When no callback blocks, a *_sync function returns the result of its own operation, whatever
\* the one before it left in the globals it shares with all others.
THEOREM CallsReturnTheirOwn ==
  ASSUME Depth = 1
  PROVE  Spec => []OwnResult
<1>1. SyncInv => OwnResult
  BY DEF SyncInv
<1> QED
  BY SyncInit, SyncStep, <1>1, PTL DEF Spec

\* When no callback blocks, a call returns only when its operation is over: no callback writes
\* through the pointers a returned function was given.
THEOREM CallsLeaveNothingBehind ==
  ASSUME Depth = 1
  PROVE  Spec => []NothingLeftBehind
<1>1. SyncInv => NothingLeftBehind
  <2> SUFFICES ASSUME SyncInv, NEW c \in pending PROVE c \in Blocked
    BY DEF NothingLeftBehind
  <2>1. PICK d, where : frames = <<[call |-> d, at |-> where]>> /\ pending \subseteq {d}
    BY DEF SyncInv, OneBlocked
  <2> QED
    BY <2>1, OneFrame
<1> QED
  BY SyncInit, SyncStep, <1>1, PTL DEF Spec

-----------------------------------------------------------------------------
(***************************************************************************)
(* Payloads.                                                               *)
(***************************************************************************)
LEMMA CutShort ==
  ASSUME NEW p \in Seq(Nat), NEW extent \in Nat, Len(p) <= extent
  PROVE  CutTo(extent, p) = p
<1>1. Len(p) \in Nat
  BY LenProperties
<1>2. (IF Len(p) < extent THEN Len(p) ELSE extent) = Len(p)
  BY <1>1
<1> QED
  BY <1>2, SubSeqFull DEF CutTo

\* names that fit into a request
Names == {name \in Seq(Nat) : Len(name) <= NAME_MAX}

LEMMA NameWhole ==
  ASSUME NEW name \in Names
  PROVE  name \in Seq(Nat) /\ CutTo(NAME_MAX, name) = name
<1>1. NAME_MAX \in Nat
  BY DEF NAME_MAX
<1> QED
  BY <1>1, CutShort DEF Names

LEMMA ShortName ==
  ASSUME NEW name \in Seq(Nat), Len(name) \in 1..NAME_MAX
  PROVE  name \in Names
<1>1. PICK n : n = Len(name)
  OBVIOUS
<1>2. n \in 1..NAME_MAX => n <= NAME_MAX
  BY DEF NAME_MAX
<1> QED
  BY <1>1, <1>2 DEF Names

LEMMA Joined ==
  ASSUME NEW a \in Seq(Nat), NEW b \in Seq(Nat)
  PROVE  a \o b \in Seq(Nat) /\ Len(a \o b) = Len(a) + Len(b)
BY ConcatProperties

Associate(a, b, c) == (a \o b) \o c = a \o (b \o c)

LEMMA Regrouped ==
  ASSUME NEW a \in Seq(Nat), NEW b \in Seq(Nat), NEW c \in Seq(Nat)
  PROVE  Associate(a, b, c)
BY ConcatAssociative DEF Associate

LEMMA ByteIsSequence ==
  ASSUME NEW b \in Nat
  PROVE  <<b>> \in Seq(Nat) /\ Len(<<b>>) = 1
OBVIOUS

\* a part of a payload that is read where it begins
LEMMA PartRead ==
  ASSUME NEW a \in Seq(Nat), NEW b \in Seq(Nat), NEW c \in Seq(Nat)
  PROVE  /\ GetBytes((a \o b) \o c, Len(a), Len(b)) = b
         /\ (a \o b) \o c \in Seq(Nat)
         /\ Len((a \o b) \o c) = Len(a) + Len(b) + Len(c)
<1> DEFINE p == (a \o b) \o c
<1>1. Len(a) \in Nat /\ Len(b) \in Nat /\ Len(c) \in Nat /\ b = [i \in 1..Len(b) |-> b[i]]
  BY LenProperties
<1>2. a \o b \in Seq(Nat) /\ Len(a \o b) = Len(a) + Len(b)
  BY ConcatProperties
<1>3. p \in Seq(Nat) /\ Len(p) = Len(a) + Len(b) + Len(c)
  BY <1>2, ConcatProperties
<1>4. ASSUME NEW i \in 1..Len(b) PROVE p[Len(a) + i] = b[i]
  <2>1. Len(a) + i \in 1..Len(a \o b) /\ ~(Len(a) + i <= Len(a)) /\ (Len(a) + i) - Len(a) = i
        /\ Len(a) + i \in 1..(Len(a) + Len(b)) /\ Len(a) + i \in 1..(Len(a \o b) + Len(c))
    BY <1>1, <1>2
  <2>2. p[Len(a) + i] = (a \o b)[Len(a) + i]
    BY <1>2, <2>1, ConcatProperties
  <2>3. (a \o b)[Len(a) + i] = b[i]
    BY <2>1, ConcatProperties
  <2> QED
    BY <2>2, <2>3
<1>5. \A i \in 1..Len(b) : Len(a) + i <= Len(p)
  BY <1>1, <1>3
<1> HIDE DEF p
<1>6. GetBytes(p, Len(a), Len(b)) = b
  BY <1>1, <1>4, <1>5 DEF GetBytes
<1> QED
  BY <1>3, <1>6 DEF p

\* the end of a payload
LEMMA RestRead ==
  ASSUME NEW a \in Seq(Nat), NEW c \in Seq(Nat)
  PROVE  Rest(a \o c, Len(a)) = c
<1> DEFINE p == a \o c
           r == SubSeq(p, Len(a) + 1, Len(p))
<1>1. Len(a) \in Nat /\ Len(c) \in Nat
  BY LenProperties
<1>2. /\ p \in Seq(Nat) /\ Len(p) = Len(a) + Len(c)
      /\ \A i \in 1..(Len(a) + Len(c)) : p[i] = IF i <= Len(a) THEN a[i] ELSE c[i - Len(a)]
  BY ConcatProperties
<1> HIDE DEF p
<1>3. \A i \in (Len(a) + 1)..Len(p) : p[i] \in Nat
  BY <1>1, <1>2, ElementOfSeq
<1>4. r \in Seq(Nat) /\ Len(r) = (IF Len(a) + 1 <= Len(p) THEN Len(p) - (Len(a) + 1) + 1 ELSE 0)
      /\ \A i \in 1..(Len(p) - (Len(a) + 1) + 1) : r[i] = p[Len(a) + 1 + i - 1]
  BY <1>1, <1>2, <1>3, SubSeqProperties
<1> HIDE DEF r
<1>5. Len(r) = Len(c)
  BY <1>1, <1>2, <1>4
<1>6. ASSUME NEW i \in 1..Len(r) PROVE r[i] = c[i]
  <2>1. i \in 1..(Len(p) - (Len(a) + 1) + 1) /\ Len(a) + 1 + i - 1 = Len(a) + i
        /\ Len(a) + i \in 1..(Len(a) + Len(c)) /\ ~(Len(a) + i <= Len(a)) /\ (Len(a) + i) - Len(a) = i
    BY <1>1, <1>2, <1>5
  <2> QED
    BY <1>2, <1>4, <2>1
<1>7. r = c
  BY <1>4, <1>5, <1>6, SeqEqual
<1> QED
  BY <1>7 DEF Rest, r, p

\* the same as a part of a sequence
LEMMA PartTaken ==
  ASSUME NEW a \in Seq(Nat), NEW b \in Seq(Nat), NEW c \in Seq(Nat)
  PROVE  SubSeq((a \o b) \o c, Len(a) + 1, Len(a) + Len(b)) = b
<1> DEFINE p == (a \o b) \o c
           r == SubSeq(p, Len(a) + 1, Len(a) + Len(b))
<1>1. /\ Len(a) \in Nat /\ Len(b) \in Nat /\ Len(c) \in Nat /\ p \in Seq(Nat)
      /\ Len(p) = Len(a) + Len(b) + Len(c)
  BY PartRead, LenProperties
<1>2. \A i \in 1..Len(b) : p[Len(a) + i] = b[i]
  <2>1. GetBytes(p, Len(a), Len(b)) = b
    BY PartRead
  <2> HIDE DEF p
  <2>2. \A i \in 1..Len(b) : Len(a) + i <= Len(p)
    BY <1>1
  <2> QED
    BY <2>1, <2>2 DEF GetBytes
<1> HIDE DEF p
<1>3. \A i \in (Len(a) + 1)..(Len(a) + Len(b)) : p[i] \in Nat
  BY <1>1, ElementOfSeq
<1>4. /\ r \in Seq(Nat)
      /\ Len(r) = IF Len(a) + 1 <= Len(a) + Len(b) THEN Len(a) + Len(b) - (Len(a) + 1) + 1 ELSE 0
      /\ \A i \in 1..(Len(a) + Len(b) - (Len(a) + 1) + 1) : r[i] = p[Len(a) + 1 + i - 1]
  BY <1>1, <1>3, SubSeqProperties
<1> HIDE DEF r
<1>5. Len(r) = Len(b)
  BY <1>1, <1>4
<1>6. ASSUME NEW i \in 1..Len(r) PROVE r[i] = b[i]
  <2>1. i \in 1..(Len(a) + Len(b) - (Len(a) + 1) + 1) /\ Len(a) + 1 + i - 1 = Len(a) + i
        /\ i \in 1..Len(b)
    BY <1>1, <1>5
  <2> QED
    BY <1>2, <1>4, <2>1
<1>7. r = b
  BY <1>4, <1>5, <1>6, SeqEqual
<1> QED
  BY <1>7 DEF r, p

\* a payload of four parts, and where each of them is read
Parts(a, b, c, d) == ((a \o b) \o c) \o d

ReadBack(a, b, c, d) ==
  /\ Parts(a, b, c, d) \in Seq(Nat)
  /\ Len(Parts(a, b, c, d)) = ((Len(a) + Len(b)) + Len(c)) + Len(d)
  /\ GetBytes(Parts(a, b, c, d), Len(a), Len(b)) = b
  /\ SubSeq(Parts(a, b, c, d), Len(a) + 1, Len(a) + Len(b)) = b
  /\ GetBytes(Parts(a, b, c, d), Len(a) + Len(b), Len(c)) = c
  /\ GetBytes(Parts(a, b, c, d), (Len(a) + Len(b)) + Len(c), Len(d)) = d
  /\ Rest(Parts(a, b, c, d), (Len(a) + Len(b)) + Len(c)) = d

LEMMA PartsRead ==
  ASSUME NEW a \in Seq(Nat), NEW b \in Seq(Nat), NEW c \in Seq(Nat), NEW d \in Seq(Nat)
  PROVE  ReadBack(a, b, c, d)
<1> DEFINE p == Parts(a, b, c, d)
<1>1. a \o b \in Seq(Nat) /\ Len(a \o b) = Len(a) + Len(b)
  BY Joined
<1>2. /\ (a \o b) \o c \in Seq(Nat)
      /\ Len((a \o b) \o c) = (Len(a) + Len(b)) + Len(c)
  BY <1>1, Joined
<1>3. c \o d \in Seq(Nat)
  BY Joined
<1>4. p \in Seq(Nat) /\ Len(p) = ((Len(a) + Len(b)) + Len(c)) + Len(d)
  BY <1>2, Joined DEF Parts
<1>5. p = (a \o b) \o (c \o d)
  <2>1. Associate(a \o b, c, d)
    BY <1>1, Regrouped
  <2> QED
    BY <2>1, Zenon DEF Associate, Parts
<1>6. GetBytes(p, Len(a), Len(b)) = b /\ SubSeq(p, Len(a) + 1, Len(a) + Len(b)) = b
  <2>1. /\ GetBytes((a \o b) \o (c \o d), Len(a), Len(b)) = b
        /\ SubSeq((a \o b) \o (c \o d), Len(a) + 1, Len(a) + Len(b)) = b
    BY <1>3, PartRead, PartTaken, Zenon
  <2> QED
    BY <1>5, <2>1, Zenon
<1>7. GetBytes(p, Len(a) + Len(b), Len(c)) = c
  <2>1. GetBytes(((a \o b) \o c) \o d, Len(a \o b), Len(c)) = c
    BY <1>1, PartRead
  <2> QED
    BY <1>1, <2>1 DEF Parts
<1>8. GetBytes(p, (Len(a) + Len(b)) + Len(c), Len(d)) = d
  <2>1. <<>> \in Seq(Nat)
    OBVIOUS
  <2>2. p \o <<>> = p
    BY <1>4, ConcatEmptySeq
  <2>3. GetBytes((((a \o b) \o c) \o d) \o <<>>, Len((a \o b) \o c), Len(d)) = d
    BY <1>2, <2>1, PartRead
  <2>4. p = ((a \o b) \o c) \o d
    BY DEF Parts
  <2> QED
    BY <1>2, <2>2, <2>3, <2>4
<1>9. Rest(p, (Len(a) + Len(b)) + Len(c)) = d
  <2>1. Rest(((a \o b) \o c) \o d, Len((a \o b) \o c)) = d
    BY <1>2, RestRead
  <2> QED
    BY <1>2, <2>1 DEF Parts
<1> QED
  BY <1>4, <1>6, <1>7, <1>8, <1>9 DEF ReadBack

\* a payload of five parts as one of four, and behind its first
Regroupings(a, b, c, d, e) ==
  /\ ((a \o b) \o c) \o (d \o e) = Parts(a, b, c, d \o e)
  /\ ((a \o b) \o c) \o (d \o e) = Parts(a \o b, c, d, e)
  /\ \E q \in Seq(Nat) : ((a \o b) \o c) \o (d \o e) = a \o q

LEMMA FiveParts ==
  ASSUME NEW a \in Seq(Nat), NEW b \in Seq(Nat), NEW c \in Seq(Nat), NEW d \in Seq(Nat),
         NEW e \in Seq(Nat)
  PROVE  Regroupings(a, b, c, d, e)
<1>1. a \o b \in Seq(Nat) /\ Len(a \o b) = Len(a) + Len(b)
  BY Joined
<1>2. d \o e \in Seq(Nat)
  BY Joined
<1>3. (a \o b) \o c \in Seq(Nat)
  BY <1>1, Joined
<1>4. ((a \o b) \o c) \o (d \o e) = Parts(a \o b, c, d, e)
  <2>1. Associate((a \o b) \o c, d, e)
    BY <1>3, Regrouped
  <2> QED
    BY <2>1, Zenon DEF Associate, Parts
<1>5. PICK x \in Seq(Nat) : x = c \o (d \o e)
  BY <1>2, Joined
<1>6. ((a \o b) \o c) \o (d \o e) = (a \o b) \o x
  <2>1. Associate(a \o b, c, d \o e)
    BY <1>1, <1>2, Regrouped
  <2> QED
    BY <1>5, <2>1, Zenon DEF Associate
<1>7. (a \o b) \o x = a \o (b \o x)
  <2>1. Associate(a, b, x)
    BY Regrouped
  <2> QED
    BY <2>1, Zenon DEF Associate
<1>8. b \o x \in Seq(Nat)
  BY Joined
<1> QED
  BY <1>4, <1>6, <1>7, <1>8 DEF Parts, Regroupings

\* a single byte
LEMMA ByteRead ==
  ASSUME NEW p \in Seq(Nat), NEW k \in Nat, NEW b \in Nat, k + 1 <= Len(p),
         GetBytes(p, k, 1) = <<b>>
  PROVE  GetU8(p, k) = b /\ p[k + 1] = b
<1>1. GetBytes(p, k, 1)[1] = b
  OBVIOUS
<1>2. GetBytes(p, k, 1)[1] = p[k + 1]
  BY DEF GetBytes
<1> QED
  BY <1>1, <1>2 DEF GetU8

-----------------------------------------------------------------------------
(***************************************************************************)
(* Lengths.                                                                *)
(***************************************************************************)
\* the two bytes of an integer
LEMMA TwoBytes ==
  ASSUME NEW n \in Words
  PROVE  /\ n % 256 \in Nat
         /\ n \div 256 \in Nat
         /\ (n \div 256) % 256 = n \div 256
         /\ (n % 256) + 256 * (n \div 256) = n
         /\ n <= 255 => n \div 256 = 0
<1>1. n % 256 \in Nat
  BY SMT DEF Words
<1>2. n \div 256 \in Nat
  BY SMT DEF Words
<1>3. n \div 256 <= 255
  BY SMT DEF Words
<1>4. (n \div 256) % 256 = n \div 256
  BY <1>2, <1>3, SMT
<1>5. (n % 256) + 256 * (n \div 256) = n
  BY SMT DEF Words
<1>6. ASSUME n <= 255 PROVE n \div 256 = 0
  <2>1. n \in Int /\ 0 <= n
    BY SMT DEF Words
  <2>2. n \in 0..255
    BY <1>6, <2>1, SMT
  <2> QED
    BY <2>2, SMT
<1> QED
  BY <1>1, <1>2, <1>4, <1>5, <1>6, Zenon

\* the lengths of w bytes
LengthsOf(w) == IF w = 1 THEN 0..255 ELSE Words

\* a length is written and read in as many bytes as its type has for it
LEMMA Lengths ==
  ASSUME NEW w \in {1, 2}, NEW n \in LengthsOf(w)
  PROVE  /\ Bytes(n, w) \in Seq(Nat) /\ Len(Bytes(n, w)) = w
         /\ LET b == Bytes(n, w) \o Zeros(2 - w) IN b[1] + 256 * b[2] = n
<1> DEFINE low  == n % 256
           high == n \div 256
<1>1. n \in Words /\ (w = 1 => n <= 255)
  <2>1. CASE w = 1
    <3>1. LengthsOf(w) = 0..255
      BY <2>1, Zenon DEF LengthsOf
    <3>2. ASSUME NEW k \in 0..255 PROVE k \in Words /\ k <= 255
      <4>1. k \in Int /\ 0 <= k /\ k <= 255
        BY SMT
      <4> QED
        BY <4>1, SMT DEF Words
    <3> QED
      BY <3>1, <3>2, Zenon
  <2>2. CASE w = 2
    BY <2>2, SMT DEF LengthsOf
  <2> QED
    BY <2>1, <2>2, SMT
<1>2. /\ low \in Nat /\ high \in Nat /\ high % 256 = high /\ low + 256 * high = n
      /\ n <= 255 => high = 0
  BY <1>1, TwoBytes
<1>3. 256^(1 - 1) = 1
  BY SMT
<1>4. 256^(2 - 1) = 256
  BY SMT
<1>5. n \div 1 = n
  BY <1>1, SMT DEF Words
<1>6. (n \div 256^(1 - 1)) % 256 = low /\ (n \div 256^(2 - 1)) % 256 = high
  BY <1>2, <1>3, <1>4, <1>5
<1>7. \A i \in 1..w : (n \div 256^(i - 1)) % 256 = IF i = 1 THEN low ELSE high
  <2> SUFFICES ASSUME NEW i \in 1..w PROVE (n \div 256^(i - 1)) % 256 = IF i = 1 THEN low ELSE high
    OBVIOUS
  <2>1. i = 1 \/ i = 2
    OBVIOUS
  <2>2. CASE i = 1
    BY <1>6, <2>2
  <2>3. CASE i = 2
    BY <1>6, <2>3
  <2> QED
    BY <2>1, <2>2, <2>3
<1> HIDE DEF low, high
<1>8. Bytes(n, w) = [i \in 1..w |-> IF i = 1 THEN low ELSE high]
  BY <1>7 DEF Bytes
<1>9. w \in Nat /\ 2 - w \in Nat
  OBVIOUS
<1>10. Bytes(n, w) \in Seq(Nat) /\ Len(Bytes(n, w)) = w
  BY <1>2, <1>8, <1>9
<1> DEFINE s == Bytes(n, w)
           t == Zeros(2 - w)
<1>11. t \in Seq(Nat) /\ Len(t) = 2 - w /\ \A i \in 1..(2 - w) : t[i] = 0
  BY <1>9 DEF Zeros
<1>12. s \in Seq(Nat) /\ Len(s) = w /\ \A i \in 1..w : s[i] = IF i = 1 THEN low ELSE high
  BY <1>8, <1>10
<1> HIDE DEF s, t
<1>13. \A i \in 1..2 : (s \o t)[i] = IF i <= w THEN s[i] ELSE t[i - w]
  <2>1. \A i \in 1..(Len(s) + Len(t)) : (s \o t)[i] = IF i <= Len(s) THEN s[i] ELSE t[i - Len(s)]
    BY <1>11, <1>12, ConcatProperties
  <2>2. Len(s) + Len(t) = 2
    BY <1>9, <1>11, <1>12
  <2> QED
    BY <1>12, <2>1, <2>2
<1>14. (s \o t)[1] = low
  <2>1. 1 \in 1..2 /\ 1 <= w /\ 1 \in 1..w
    OBVIOUS
  <2> QED
    BY <1>12, <1>13, <2>1
<1>15. (s \o t)[2] = high
  <2>1. CASE w = 2
    <3>1. 2 \in 1..2 /\ 2 <= w /\ 2 \in 1..w /\ 2 # 1
      BY <2>1
    <3> QED
      BY <1>12, <1>13, <3>1
  <2>2. CASE w = 1
    <3>1. high = 0
      BY <1>1, <1>2, <2>2
    <3>2. 1 \in 1..(2 - w) /\ ~(2 <= w) /\ 2 - w = 1 /\ 2 \in 1..2
      BY <2>2
    <3> QED
      BY <1>11, <1>13, <3>1, <3>2
  <2> QED
    BY <2>1, <2>2
<1>16. (s \o t)[1] + 256 * (s \o t)[2] = n
  BY <1>2, <1>14, <1>15
<1> QED
  BY <1>10, <1>16, Zenon DEF s, t

LEMMA LengthRead ==
  ASSUME NEW p, NEW k, NEW w \in {1, 2}, NEW n \in LengthsOf(w),
         GetBytes(p, k, w) = Bytes(n, w)
  PROVE  GetU16(p, k, w) = n
<1>1. (Bytes(n, w) \o Zeros(2 - w))[1] + 256 * (Bytes(n, w) \o Zeros(2 - w))[2] = n
  BY Lengths
<1> QED
  BY <1>1 DEF GetU16

RegisterTypes == 1..FLOAT16

\* the width of an element, the bytes of the length and the largest length of a type but EMPTY
Shape(bits, width, most) ==
  \/ bits = 1 /\ width = 2 /\ most = 2048
  \/ bits = 8 /\ width = 2 /\ most = 256
  \/ bits = 16 /\ width = 1 /\ most = 128
  \/ bits = 32 /\ width = 1 /\ most = 64
  \/ bits = 64 /\ width = 1 /\ most = 32

LEMMA Shapes ==
  ASSUME NEW type \in RegisterTypes
  PROVE  /\ Shape(BitWidth(type), LengthWidth(type), MaxLength(type))
         /\ type \in Nat /\ type \in EMPTY..FLOAT16 /\ type # EMPTY /\ type <= FLOAT16
<1>1. \/ BitWidth(type) = 1 /\ LengthWidth(type) = 2
      \/ BitWidth(type) = 8 /\ LengthWidth(type) = 2
      \/ BitWidth(type) = 16 /\ LengthWidth(type) = 1
      \/ BitWidth(type) = 32 /\ LengthWidth(type) = 1
      \/ BitWidth(type) = 64 /\ LengthWidth(type) = 1
  <2>1. type \in {1, 2, 3, 4, 5, 6, 7, 8, 9, 10, 11, 12, 13, 14}
    BY SMT DEF RegisterTypes, FLOAT16
  <2> QED
    BY <2>1, SMT DEF BitWidth, LengthWidth, BIT_WIDTHS, LENGTH_WIDTHS
<1>2. Shape(BitWidth(type), LengthWidth(type), MaxLength(type))
  BY <1>1, SMT DEF MaxLength, Shape
<1>3. type \in Nat /\ type \in EMPTY..FLOAT16 /\ type # EMPTY /\ type <= FLOAT16
  BY SMT DEF RegisterTypes, EMPTY, FLOAT16
<1> QED
  BY <1>2, <1>3

\* the largest register is 256 bytes, and a length that is sent as one byte fits in it
LEMMA Sizes ==
  ASSUME NEW bits, NEW width, NEW most, Shape(bits, width, most), NEW n \in Nat, n <= most
  PROVE  /\ bits \in Nat
         /\ width \in {1, 2}
         /\ width = 1 => n <= 255
         /\ (n * bits + 7) \div 8 <= 256
<1>1. CASE bits = 1 /\ width = 2 /\ most = 2048
  BY <1>1, SMT
<1>2. CASE bits = 8 /\ width = 2 /\ most = 256
  BY <1>2, SMT
<1>3. CASE bits = 16 /\ width = 1 /\ most = 128
  BY <1>3, SMT
<1>4. CASE bits = 32 /\ width = 1 /\ most = 64
  BY <1>4, SMT
<1>5. CASE bits = 64 /\ width = 1 /\ most = 32
  BY <1>5, SMT
<1> QED
  BY <1>1, <1>2, <1>3, <1>4, <1>5, SMT DEF Shape

\* what wlmio_register_access lets pass: its value may have any number of bytes
Sendable(reg) ==
  /\ reg \in [type : EMPTY..FLOAT16, length : Words, value : Seq(Nat)]
  /\ Valid(reg)

LEMMA SendableFits ==
  ASSUME NEW reg, Sendable(reg), reg.type # EMPTY
  PROVE  /\ reg.type \in Nat /\ reg.type <= FLOAT16
         /\ BitWidth(reg.type) \in Nat
         /\ LengthWidth(reg.type) \in {1, 2}
         /\ reg.length \in Nat /\ reg.length \in LengthsOf(LengthWidth(reg.type))
         /\ RegisterBytes(reg) \in Nat /\ RegisterBytes(reg) <= 256
         /\ SentBytes(reg) \in Nat
         /\ reg.length <= MaxLength(reg.type)
         /\ reg.type \in RegisterTypes
<1>1. reg.type \in RegisterTypes /\ reg.length \in Words /\ reg.length <= MaxLength(reg.type)
  <2>1. reg.type \in EMPTY..FLOAT16 /\ reg.length \in Words /\ reg.length <= MaxLength(reg.type)
    BY DEF Sendable, Valid
  <2>2. \A n \in EMPTY..FLOAT16 : n # EMPTY => n \in RegisterTypes
    BY SMT DEF EMPTY, RegisterTypes
  <2> QED
    BY <2>1, <2>2
<1>2. reg.length \in Nat
  <2>1. \A n \in Words : n \in Nat
    BY SMT DEF Words
  <2> QED
    BY <1>1, <2>1
<1>3. /\ Shape(BitWidth(reg.type), LengthWidth(reg.type), MaxLength(reg.type))
      /\ reg.type \in Nat /\ reg.type <= FLOAT16
  BY <1>1, Shapes
<1>4. /\ BitWidth(reg.type) \in Nat
      /\ LengthWidth(reg.type) \in {1, 2}
      /\ LengthWidth(reg.type) = 1 => reg.length <= 255
      /\ (reg.length * BitWidth(reg.type) + 7) \div 8 <= 256
  BY <1>1, <1>2, <1>3, Sizes
<1>5. reg.length \in LengthsOf(LengthWidth(reg.type))
  <2>1. \A k \in Nat : k <= 255 => k \in 0..255
    BY SMT
  <2>2. LengthWidth(reg.type) = 1 => reg.length \in 0..255
    BY <1>2, <1>4, <2>1, Zenon
  <2> QED
    BY <1>1, <2>2, Zenon DEF LengthsOf
<1>6. RegisterBytes(reg) \in Nat /\ RegisterBytes(reg) <= 256 /\ SentBytes(reg) \in Nat
  <2>1. \A x, y \in Nat : x * y \in Nat
    BY SMT
  <2>2. \A n \in Nat : (n + 7) \div 8 \in Nat /\ n \div 8 \in Nat
    BY SMT
  <2> QED
    BY <1>2, <1>4, <2>1, <2>2 DEF RegisterBytes, SentBytes
<1> QED
  BY <1>1, <1>2, <1>3, <1>4, <1>5, <1>6

LEMMA Fits ==
  ASSUME NEW reg, WellFormed(reg)
  PROVE  /\ Sendable(reg)
         /\ reg.type \in Nat /\ reg.type # EMPTY /\ reg.type <= FLOAT16
         /\ BitWidth(reg.type) \in Nat
         /\ reg.value \in Seq(Nat) /\ Len(reg.value) <= 256
         /\ LengthWidth(reg.type) \in {1, 2}
         /\ reg.length \in Nat /\ reg.length \in LengthsOf(LengthWidth(reg.type))
         /\ Valid(reg)
         /\ reg = [type |-> reg.type, length |-> reg.length, value |-> reg.value]
<1>1. /\ reg.type \in RegisterTypes /\ reg.length \in Words /\ reg.value \in Seq(Nat)
      /\ reg = [type |-> reg.type, length |-> reg.length, value |-> reg.value]
      /\ reg.length <= MaxLength(reg.type) /\ Len(reg.value) = RegisterBytes(reg)
  BY DEF WellFormed, Register, RegisterTypes
<1>2. reg.type \in EMPTY..FLOAT16 /\ reg.type # EMPTY
  BY <1>1, Shapes
<1>3. Valid(reg)
  BY <1>1, <1>2 DEF Valid
<1>4. Sendable(reg)
  BY <1>1, <1>2, <1>3 DEF Sendable
<1> QED
  BY <1>1, <1>2, <1>3, <1>4, SendableFits

\* What register_access_response_handler writes through uregr is the register the node answered
\* with, and the result 0: for every type and length that validate_register_access lets pass, up to
\* 256 bytes, whose answer is as long as the extent of the subscription
THEOREM AccessAnswersRoundTrip ==
  ASSUME NEW reg, WellFormed(reg)
  PROVE  AccessAnswer(CutTo(ACCESS_EXTENT, NodeAnswersAccess(reg))) = [reg |-> reg, r |-> "0"]
<1>1. PICK w \in {1, 2} : w = LengthWidth(reg.type)
  BY Fits
<1>2. PICK z \in Seq(Nat) : z = Zeros(8) /\ Len(z) = 8
  <2>1. Zeros(8) \in Seq(Nat) /\ Len(Zeros(8)) = 8
    BY DEF Zeros
  <2> QED
    BY <2>1
<1>3. PICK t \in Seq(Nat) : t = <<reg.type>> /\ Len(t) = 1
  <2>1. <<reg.type>> \in Seq(Nat) /\ Len(<<reg.type>>) = 1
    BY Fits, ByteIsSequence
  <2> QED
    BY <2>1
<1>4. PICK l \in Seq(Nat) : l = Bytes(reg.length, w) /\ Len(l) = w
  <2>1. Bytes(reg.length, w) \in Seq(Nat) /\ Len(Bytes(reg.length, w)) = w
    BY <1>1, Fits, Lengths, Zenon
  <2> QED
    BY <2>1
<1>5. PICK v \in Seq(Nat) : v = reg.value /\ Len(v) <= 256
  BY Fits
<1>6. PICK p : p = Parts(z, t, l, v)
  OBVIOUS
<1>7. NodeAnswersAccess(reg) = p
  BY <1>1, <1>2, <1>3, <1>4, <1>5, <1>6 DEF NodeAnswersAccess, Parts
<1>8. /\ p \in Seq(Nat) /\ Len(p) = ((Len(z) + Len(t)) + Len(l)) + Len(v)
      /\ GetBytes(p, Len(z), Len(t)) = t
      /\ GetBytes(p, Len(z) + Len(t), Len(l)) = l
      /\ Rest(p, (Len(z) + Len(t)) + Len(l)) = v
  <2>1. ReadBack(z, t, l, v)
    BY PartsRead
  <2> QED
    BY <1>6, <2>1, Zenon DEF ReadBack
<1>9. Len(z) = 8 /\ Len(z) + Len(t) = 9 /\ (Len(z) + Len(t)) + Len(l) = 9 + w
  <2>1. Len(z) = 8 /\ Len(t) = 1 /\ Len(l) = w
    BY <1>2, <1>3, <1>4, Zenon
  <2> QED
    BY <2>1
<1>10. Len(p) = (9 + w) + Len(v) /\ Len(v) \in Nat
  BY <1>8, <1>9, LenProperties
<1>11. CutTo(ACCESS_EXTENT, p) = p
  <2>1. Len(p) <= ACCESS_EXTENT /\ ACCESS_EXTENT \in Nat
    <3>1. Len(v) <= 256
      BY <1>5, Zenon
    <3> QED
      BY <1>10, <3>1, SMT DEF ACCESS_EXTENT
  <2> QED
    BY <1>8, <2>1, CutShort
<1>12. Skipped = 8 /\ Skipped + 1 = 9
  BY DEF Skipped
<1>13. GetU8(p, 8) = reg.type
  <2>1. GetBytes(p, 8, 1) = <<reg.type>>
    BY <1>3, <1>8, <1>9
  <2>2. 8 + 1 <= Len(p)
    BY <1>10
  <2> QED
    BY <1>8, <2>1, <2>2, Fits, ByteRead
<1>14. GetU16(p, 9, w) = reg.length
  <2>1. GetBytes(p, 9, w) = Bytes(reg.length, w)
    BY <1>4, <1>8, <1>9
  <2> QED
    BY <1>1, <2>1, Fits, LengthRead
<1>15. [type |-> GetU8(p, Skipped), length |-> GetU16(p, Skipped + 1, w),
        value |-> Rest(p, Skipped + 1 + w)] = reg
  BY <1>5, <1>8, <1>9, <1>12, <1>13, <1>14, Fits
<1>16. AccessAnswer(p) = [reg |-> reg, r |-> "0"]
  <2>1. GetU8(p, Skipped) = reg.type /\ reg.type <= FLOAT16 /\ reg.type # EMPTY
    BY <1>12, <1>13, Fits
  <2> QED
    BY <1>1, <1>15, <2>1, Fits, Zenon DEF AccessAnswer
<1> QED
  BY <1>7, <1>11, <1>16

\* the fields of a request, n bytes of name and the bytes v of the value
RequestFields(p, n, name, reg, w, v) ==
  /\ p[1] = n /\ SubSeq(p, 2, n + 1) = name
  /\ p[n + 2] = reg.type
  /\ GetU16(p, n + 2, w) = reg.length
  /\ GetBytes(p, n + 2 + w, Len(v)) = v

LEMMA RequestRead ==
  ASSUME NEW name \in Names, NEW reg, Sendable(reg), reg.type # EMPTY,
         NEW n \in Nat, n = Len(name),
         NEW v \in Seq(Nat), v = GetBytes(reg.value, 0, SentBytes(reg))
  PROVE  RequestFields(AccessRequest(name, reg), n, name, reg, LengthWidth(reg.type), v)
<1>0. name \in Seq(Nat) /\ CutTo(NAME_MAX, name) = name
  BY NameWhole
<1>1. PICK w \in {1, 2} : w = LengthWidth(reg.type)
  BY SendableFits
<1>2. PICK h \in Seq(Nat) : h = <<Len(name)>> /\ Len(h) = 1
  <2>1. <<Len(name)>> \in Seq(Nat) /\ Len(<<Len(name)>>) = 1
    BY <1>0, LenProperties, ByteIsSequence
  <2> QED
    BY <2>1
<1>3. PICK t \in Seq(Nat) : t = <<reg.type>> /\ Len(t) = 1
  <2>1. <<reg.type>> \in Seq(Nat) /\ Len(<<reg.type>>) = 1
    BY SendableFits, ByteIsSequence
  <2> QED
    BY <2>1
<1>4. PICK l \in Seq(Nat) : l = Bytes(reg.length, w) /\ Len(l) = w
  <2>1. Bytes(reg.length, w) \in Seq(Nat) /\ Len(Bytes(reg.length, w)) = w
    BY <1>1, SendableFits, Lengths, Zenon
  <2> QED
    BY <2>1
<1>8. PICK p : p = ((h \o name) \o t) \o (l \o v)
  OBVIOUS
<1>9. AccessRequest(name, reg) = p
  BY <1>0, <1>1, <1>2, <1>3, <1>4, <1>8 DEF AccessRequest
<1>10. PICK b \in Seq(Nat) : b = h \o name /\ Len(b) = Len(h) + Len(name)
  BY <1>0, Joined
<1>11. PICK e \in Seq(Nat) : e = l \o v
  BY Joined
<1>12. /\ p = Parts(h, name, t, e) /\ p = Parts(b, t, l, v)
       /\ \E q \in Seq(Nat) : p = h \o q
  <2>1. Regroupings(h, name, t, l, v)
    BY <1>0, FiveParts
  <2> QED
    BY <1>8, <1>10, <1>11, <2>1, Zenon DEF Regroupings
<1>13. /\ p \in Seq(Nat)
       /\ Len(p) = ((Len(h) + Len(name)) + Len(t)) + Len(e)
       /\ SubSeq(p, Len(h) + 1, Len(h) + Len(name)) = name
       /\ GetBytes(p, Len(b), Len(t)) = t
       /\ GetBytes(p, Len(b) + Len(t), Len(l)) = l
       /\ GetBytes(p, (Len(b) + Len(t)) + Len(l), Len(v)) = v
  <2>1. ReadBack(h, name, t, e) /\ ReadBack(b, t, l, v)
    BY <1>0, PartsRead
  <2> QED
    BY <1>12, <2>1, Zenon DEF ReadBack
<1>15. /\ Len(h) + 1 = 2 /\ Len(h) + Len(name) = n + 1 /\ Len(b) + Len(t) = n + 2
       /\ Len(b) = n + 1 /\ (Len(b) + Len(t)) + Len(l) = n + 2 + w
  BY <1>2, <1>3, <1>4, <1>10
<1>16. n + 2 <= Len(p)
  <2>1. Len(e) \in Nat
    BY LenProperties
  <2> QED
    BY <1>2, <1>3, <1>13, <2>1
<1>17. p[1] = n
  <2>1. PICK q \in Seq(Nat) : p = h \o q
    BY <1>12
  <2>4. (h \o q)[1] = h[1]
    <3>1. Len(q) \in Nat
      BY LenProperties
    <3>2. 1 \in 1..(Len(h) + Len(q)) /\ 1 <= Len(h)
      BY <1>2, <3>1
    <3> QED
      BY <3>2, ConcatProperties
  <2>5. h[1] = n
    BY <1>2
  <2> QED
    BY <2>1, <2>4, <2>5
<1>18. p[n + 2] = reg.type
  <2>1. GetBytes(p, n + 1, 1) = <<reg.type>>
    BY <1>3, <1>13, <1>15
  <2>2. n + 1 \in Nat /\ (n + 1) + 1 = n + 2 /\ (n + 1) + 1 <= Len(p)
    BY <1>16
  <2>3. p[(n + 1) + 1] = reg.type
    BY <1>13, <2>1, <2>2, SendableFits, ByteRead
  <2> QED
    BY <2>2, <2>3
<1>19. GetU16(p, n + 2, w) = reg.length
  <2>1. GetBytes(p, n + 2, w) = Bytes(reg.length, w)
    BY <1>4, <1>13, <1>15
  <2> QED
    BY <1>1, <2>1, SendableFits, LengthRead
<1>20. SubSeq(p, 2, n + 1) = name /\ GetBytes(p, n + 2 + w, Len(v)) = v
  BY <1>13, <1>15
<1> QED
  BY <1>1, <1>9, <1>17, <1>18, <1>19, <1>20 DEF RequestFields

LEMMA AccessRead ==
  ASSUME NEW name \in Names, NEW reg, WellFormed(reg),
         WholeBytes(reg)
  PROVE  NodeReadsAccess(AccessRequest(name, reg)) = [name |-> name, reg |-> reg]
<1>1. PICK w \in {1, 2} : w = LengthWidth(reg.type)
  BY Fits
<1>2. PICK v \in Seq(Nat) : v = reg.value
  BY Fits
<1>3. SentBytes(reg) = RegisterBytes(reg) /\ RegisterBytes(reg) = Len(v)
  <2>1. \A m \in Nat : m % 8 = 0 => m \div 8 = (m + 7) \div 8
    BY SMT
  <2>2. reg.length * BitWidth(reg.type) \in Nat
    <3>1. \A x, y \in Nat : x * y \in Nat
      BY SMT
    <3> QED
      BY <3>1, Fits
  <2>3. Len(v) = RegisterBytes(reg)
    BY <1>2 DEF WellFormed
  <2> QED
    BY <2>1, <2>2, <2>3 DEF SentBytes, RegisterBytes, WholeBytes
<1>4. GetBytes(v, 0, Len(v)) = v
  <2>1. v = [i \in 1..Len(v) |-> v[i]]
    BY LenProperties
  <2>2. \A i \in 1..Len(v) : 0 + i <= Len(v) /\ 0 + i = i
    BY LenProperties
  <2> QED
    BY <2>1, <2>2 DEF GetBytes
<1>5. PICK n \in Nat : n = Len(name)
  BY NameWhole, LenProperties
<1>6. PICK p : p = AccessRequest(name, reg)
  OBVIOUS
<1>7. RequestFields(p, n, name, reg, w, v)
  BY <1>1, <1>2, <1>3, <1>4, <1>5, <1>6, Fits, RequestRead
<1>8. RegisterBytes([type |-> reg.type, length |-> reg.length]) = Len(v)
  BY <1>3 DEF RegisterBytes
<1>9. [type |-> reg.type, length |-> reg.length, value |-> v] = reg
  BY <1>2, Fits
<1> QED
  BY <1>1, <1>6, <1>7, <1>8, <1>9 DEF NodeReadsAccess, RequestFields

\* What a node reads of the payload of wlmio_register_access is the name and the register the caller
\* passed, if the name is a string that fits (strnlen cuts a longer one) and the register is whole
\* bytes (SentBytes leaves out bits that do not fill one)
THEOREM AccessRequestsRoundTrip ==
  ASSUME NEW name \in Seq(Nat \ {0}), Len(name) <= NAME_MAX,
         NEW reg, WellFormed(reg), WholeBytes(reg)
  PROVE  NodeReadsAccess(AccessRequest(name, reg)) = [name |-> name, reg |-> reg]
<1>1. name \in Names
  BY SeqMonotonic DEF Names
<1> QED
  BY <1>1, AccessRead

-----------------------------------------------------------------------------
(***************************************************************************)
(* Node information.                                                       *)
(***************************************************************************)
\* p has the bytes b at k
Holds(p, k, b) == k + Len(b) <= Len(p) /\ GetBytes(p, k, Len(b)) = b

\* bytes that are appended are behind what there is, and leave it where it is
LEMMA Appended ==
  ASSUME NEW p \in Seq(Nat), NEW c \in Seq(Nat)
  PROVE  Holds(p \o c, Len(p), c)
<1>1. GetBytes((p \o c) \o <<>>, Len(p), Len(c)) = c
  <2>1. <<>> \in Seq(Nat)
    OBVIOUS
  <2> QED
    BY <2>1, PartRead
<1>2. (p \o c) \o <<>> = p \o c
  <2>1. p \o c \in Seq(Nat)
    BY Joined
  <2> QED
    BY <2>1, ConcatEmptySeq
<1>3. Len(p) + Len(c) <= Len(p \o c)
  BY Joined, LenProperties
<1> QED
  BY <1>1, <1>2, <1>3 DEF Holds

LEMMA Kept ==
  ASSUME NEW p \in Seq(Nat), NEW c \in Seq(Nat), NEW k \in Nat, NEW b \in Seq(Nat),
         Holds(p, k, b)
  PROVE  Holds(p \o c, k, b)
<1>1. Len(p) \in Nat /\ Len(c) \in Nat /\ Len(b) \in Nat /\ k + Len(b) <= Len(p)
  BY LenProperties DEF Holds
<1>2. Len(p \o c) = Len(p) + Len(c)
  BY Joined
<1>3. ASSUME NEW i \in 1..Len(b)
      PROVE  k + i <= Len(p \o c) /\ k + i <= Len(p) /\ (p \o c)[k + i] = p[k + i]
  <2>1. k + i \in 1..(Len(p) + Len(c)) /\ k + i <= Len(p) /\ k + i <= Len(p \o c)
    BY <1>1, <1>2
  <2> QED
    BY <2>1, ConcatProperties
<1> DEFINE q == p \o c
<1>4. \A i \in 1..Len(b) : k + i <= Len(q) /\ k + i <= Len(p) /\ q[k + i] = p[k + i]
  BY <1>3
<1>5. k + Len(b) <= Len(q)
  BY <1>1, <1>2
<1> HIDE DEF q
<1>6. GetBytes(q, k, Len(b)) = GetBytes(p, k, Len(b))
  BY <1>4 DEF GetBytes
<1>7. Holds(q, k, b)
  BY <1>5, <1>6 DEF Holds
<1> QED
  BY <1>7 DEF q

LEMMA ByteHeld ==
  ASSUME NEW p \in Seq(Nat), NEW k \in Nat, NEW n \in Nat, Holds(p, k, <<n>>)
  PROVE  GetU8(p, k) = n
<1>1. <<n>> \in Seq(Nat) /\ Len(<<n>>) = 1
  BY ByteIsSequence
<1>2. k + 1 <= Len(p) /\ GetBytes(p, k, 1) = <<n>>
  BY <1>1 DEF Holds
<1> QED
  BY <1>2, ByteRead

\* the fields where their lengths put them
Fields(p, a, b, c, name, crc, n, coa) ==
  /\ p \in Seq(Nat) /\ Len(p) = ((32 + Len(name)) + Len(crc)) + Len(coa)
  /\ Holds(p, 0, a) /\ Holds(p, 6, b) /\ Holds(p, 14, c)
  /\ Holds(p, 30, <<Len(name)>>) /\ Holds(p, 31, name)
  /\ Holds(p, 31 + Len(name), crc) /\ Holds(p, (31 + Len(name)) + Len(crc), <<n>>)
  /\ Holds(p, (32 + Len(name)) + Len(crc), coa)

EightParts(a, b, c, d, e, f, g, h) == ((((((a \o b) \o c) \o d) \o e) \o f) \o g) \o h

LEMMA FieldsHeld ==
  ASSUME NEW a \in Seq(Nat), NEW b \in Seq(Nat), NEW c \in Seq(Nat), NEW name \in Seq(Nat),
         NEW crc \in Seq(Nat), NEW coa \in Seq(Nat), NEW n \in Nat,
         Len(a) = 6, Len(b) = 8, Len(c) = 16
  PROVE  Fields(EightParts(a, b, c, <<Len(name)>>, name, crc, <<n>>, coa),
                a, b, c, name, crc, n, coa)
<1>1. /\ Len(name) \in Nat /\ Len(crc) \in Nat /\ Len(coa) \in Nat
      /\ 6 \in Nat /\ 14 \in Nat /\ 30 \in Nat /\ 31 \in Nat
      /\ 31 + Len(name) \in Nat /\ (31 + Len(name)) + Len(crc) \in Nat
  BY LenProperties
<1>2. PICK d \in Seq(Nat) : d = <<Len(name)>> /\ Len(d) = 1
  BY <1>1, ByteIsSequence
<1>3. PICK e \in Seq(Nat) : e = <<n>> /\ Len(e) = 1
  BY ByteIsSequence
<1>4. PICK p1 \in Seq(Nat) : p1 = a /\ Len(p1) = 6
  OBVIOUS
<1>5. PICK p2 \in Seq(Nat) : p2 = p1 \o b /\ Len(p2) = 14
  <2>1. p1 \o b \in Seq(Nat) /\ Len(p1 \o b) = Len(p1) + Len(b)
    BY Joined
  <2>2. Len(p1 \o b) = 14
    BY <1>4, <2>1
  <2> QED
    BY <2>1, <2>2, Zenon
<1>6. PICK p3 \in Seq(Nat) : p3 = p2 \o c /\ Len(p3) = 30
  <2>1. p2 \o c \in Seq(Nat) /\ Len(p2 \o c) = Len(p2) + Len(c)
    BY Joined
  <2>2. Len(p2 \o c) = 30
    BY <1>5, <2>1
  <2> QED
    BY <2>1, <2>2, Zenon
<1>7. PICK p4 \in Seq(Nat) : p4 = p3 \o d /\ Len(p4) = 31
  <2>1. p3 \o d \in Seq(Nat) /\ Len(p3 \o d) = Len(p3) + Len(d)
    BY Joined
  <2>2. Len(p3 \o d) = 31
    BY <1>2, <1>6, <2>1
  <2> QED
    BY <2>1, <2>2, Zenon
<1>8. PICK p5 \in Seq(Nat) : p5 = p4 \o name /\ Len(p5) = 31 + Len(name)
  <2>1. p4 \o name \in Seq(Nat) /\ Len(p4 \o name) = Len(p4) + Len(name)
    BY Joined
  <2>2. Len(p4 \o name) = 31 + Len(name)
    BY <1>7, <2>1
  <2> QED
    BY <2>1, <2>2, Zenon
<1>9. PICK p6 \in Seq(Nat) : p6 = p5 \o crc /\ Len(p6) = (31 + Len(name)) + Len(crc)
  <2>1. p5 \o crc \in Seq(Nat) /\ Len(p5 \o crc) = Len(p5) + Len(crc)
    BY Joined
  <2>2. Len(p5 \o crc) = (31 + Len(name)) + Len(crc)
    BY <1>8, <2>1
  <2> QED
    BY <2>1, <2>2, Zenon
<1>10. PICK p7 \in Seq(Nat) : p7 = p6 \o e /\ Len(p7) = (32 + Len(name)) + Len(crc)
  <2>1. p6 \o e \in Seq(Nat) /\ Len(p6 \o e) = Len(p6) + Len(e)
    BY Joined
  <2>2. Len(p6 \o e) = (32 + Len(name)) + Len(crc)
    BY <1>1, <1>3, <1>9, <2>1
  <2> QED
    BY <2>1, <2>2, Zenon
<1>11. PICK p8 \in Seq(Nat) : p8 = p7 \o coa /\ Len(p8) = ((32 + Len(name)) + Len(crc)) + Len(coa)
  <2>1. p7 \o coa \in Seq(Nat) /\ Len(p7 \o coa) = Len(p7) + Len(coa)
    BY Joined
  <2>2. Len(p7 \o coa) = ((32 + Len(name)) + Len(crc)) + Len(coa)
    BY <1>10, <2>1
  <2> QED
    BY <2>1, <2>2, Zenon
<1>12. Holds(p1, 0, a)
  <2>1. a = [i \in 1..Len(a) |-> a[i]]
    BY LenProperties
  <2>2. \A i \in 1..Len(a) : 0 + i <= Len(a) /\ 0 + i = i
    BY LenProperties
  <2>3. GetBytes(a, 0, Len(a)) = a /\ 0 + Len(a) <= Len(a)
    BY <2>1, <2>2 DEF GetBytes
  <2> QED
    BY <1>4, <2>3, Zenon DEF Holds
<1>13. Holds(p2, 0, a) /\ Holds(p2, 6, b)
  BY <1>4, <1>5, <1>12, Appended, Kept
<1>14. Holds(p3, 0, a) /\ Holds(p3, 6, b) /\ Holds(p3, 14, c)
  BY <1>1, <1>5, <1>6, <1>13, Appended, Kept
<1>15. Holds(p4, 0, a) /\ Holds(p4, 6, b) /\ Holds(p4, 14, c) /\ Holds(p4, 30, d)
  BY <1>1, <1>6, <1>7, <1>14, Appended, Kept
<1>16. /\ Holds(p5, 0, a) /\ Holds(p5, 6, b) /\ Holds(p5, 14, c) /\ Holds(p5, 30, d)
       /\ Holds(p5, 31, name)
  BY <1>1, <1>7, <1>8, <1>15, Appended, Kept
<1>17. /\ Holds(p6, 0, a) /\ Holds(p6, 6, b) /\ Holds(p6, 14, c) /\ Holds(p6, 30, d)
       /\ Holds(p6, 31, name) /\ Holds(p6, 31 + Len(name), crc)
  BY <1>1, <1>8, <1>9, <1>16, Appended, Kept
<1>18. /\ Holds(p7, 0, a) /\ Holds(p7, 6, b) /\ Holds(p7, 14, c) /\ Holds(p7, 30, d)
       /\ Holds(p7, 31, name) /\ Holds(p7, 31 + Len(name), crc)
       /\ Holds(p7, (31 + Len(name)) + Len(crc), e)
  BY <1>1, <1>9, <1>10, <1>17, Appended, Kept
<1>19. /\ Holds(p8, 0, a) /\ Holds(p8, 6, b) /\ Holds(p8, 14, c) /\ Holds(p8, 30, d)
       /\ Holds(p8, 31, name) /\ Holds(p8, 31 + Len(name), crc)
       /\ Holds(p8, (31 + Len(name)) + Len(crc), e) /\ Holds(p8, (32 + Len(name)) + Len(crc), coa)
  BY <1>1, <1>10, <1>11, <1>18, Appended, Kept
<1>20. EightParts(a, b, c, <<Len(name)>>, name, crc, <<n>>, coa) = p8
  BY <1>2, <1>3, <1>4, <1>5, <1>6, <1>7, <1>8, <1>9, <1>10, <1>11, Zenon DEF EightParts
<1> QED
  BY <1>2, <1>3, <1>11, <1>19, <1>20, Zenon DEF Fields

\* two parts that are held as one
LEMMA HeldApart ==
  ASSUME NEW p \in Seq(Nat), NEW k \in Nat, NEW x \in Seq(Nat), NEW y \in Seq(Nat)
  PROVE  Holds(p, k, x \o y) => Holds(p, k, x) /\ Holds(p, k + Len(x), y)
<1>1. SUFFICES ASSUME Holds(p, k, x \o y) PROVE Holds(p, k, x) /\ Holds(p, k + Len(x), y)
  OBVIOUS
<1>2. PICK z \in Seq(Nat) : z = x \o y
  BY Joined
<1>3. /\ Len(x) \in Nat /\ Len(y) \in Nat /\ Len(p) \in Nat /\ Len(z) = Len(x) + Len(y)
  BY <1>2, Joined, LenProperties
<1>4. k + Len(z) <= Len(p)
  BY <1>2, <1>1 DEF Holds
<1>5. GetBytes(p, k, Len(z)) = z
  BY <1>2, <1>1 DEF Holds
<1>6. \A i \in 1..Len(z) : z[i] = p[k + i]
  <2>1. \A i \in 1..Len(z) : k + i <= Len(p)
    BY <1>3, <1>4
  <2> QED
    BY <1>5, <2>1 DEF GetBytes
<1>7. \A i \in 1..(Len(x) + Len(y)) : z[i] = IF i <= Len(x) THEN x[i] ELSE y[i - Len(x)]
  BY <1>2, ConcatProperties
<1>8. ASSUME NEW i \in 1..Len(x) PROVE p[k + i] = x[i] /\ k + i <= Len(p)
  <2>1. i \in 1..Len(z) /\ i \in 1..(Len(x) + Len(y)) /\ i <= Len(x) /\ k + i <= Len(p)
    <3>1. i \in Nat /\ 1 <= i /\ i <= Len(x)
      BY <1>3
    <3>2. i \in 1..Len(z)
      BY <1>3, <3>1
    <3>3. i \in 1..(Len(x) + Len(y))
      BY <1>3, <3>1
    <3>4. k + i <= Len(p)
      BY <1>3, <1>4, <3>1
    <3> QED
      BY <3>1, <3>2, <3>3, <3>4
  <2> QED
    BY <1>6, <1>7, <2>1
<1>9. ASSUME NEW i \in 1..Len(y) PROVE p[(k + Len(x)) + i] = y[i] /\ (k + Len(x)) + i <= Len(p)
  <2>1. /\ Len(x) + i \in 1..Len(z) /\ Len(x) + i \in 1..(Len(x) + Len(y)) /\ ~(Len(x) + i <= Len(x))
        /\ (Len(x) + i) - Len(x) = i /\ (k + Len(x)) + i <= Len(p)
        /\ (k + Len(x)) + i = k + (Len(x) + i)
    <3>1. i \in Nat /\ 1 <= i /\ i <= Len(y)
      BY <1>3
    <3>2. Len(x) + i \in 1..Len(z)
      BY <1>3, <3>1
    <3>3. Len(x) + i \in 1..(Len(x) + Len(y)) /\ ~(Len(x) + i <= Len(x))
      BY <1>3, <3>1
    <3>4. (Len(x) + i) - Len(x) = i /\ (k + Len(x)) + i = k + (Len(x) + i)
      BY <1>3, <3>1
    <3>5. (k + Len(x)) + i <= Len(p)
      BY <1>3, <1>4, <3>1
    <3> QED
      BY <3>2, <3>3, <3>4, <3>5
  <2>2. z[Len(x) + i] = p[k + (Len(x) + i)]
    BY <1>6, <2>1
  <2>3. z[Len(x) + i] = y[i]
    BY <1>7, <2>1
  <2> QED
    BY <2>1, <2>2, <2>3
<1>10. GetBytes(p, k, Len(x)) = x
  <2>1. x = [i \in 1..Len(x) |-> x[i]]
    BY LenProperties
  <2> QED
    BY <1>8, <2>1 DEF GetBytes
<1>11. GetBytes(p, k + Len(x), Len(y)) = y
  <2>1. y = [i \in 1..Len(y) |-> y[i]]
    BY LenProperties
  <2> QED
    BY <1>9, <2>1 DEF GetBytes
<1>12. k + Len(x) <= Len(p) /\ (k + Len(x)) + Len(y) <= Len(p)
  BY <1>3, <1>4
<1> QED
  BY <1>10, <1>11, <1>12 DEF Holds

Absent  == <<0>>
Present == <<1>>

\* the flag and the value of the CRC
CrcPart(crc) == IF crc = <<>> THEN Absent ELSE Present \o crc

ReadsCrc(p, k, crc) ==
  /\ GetU8(p, k) = IF crc = <<>> THEN 0 ELSE 1
  /\ crc # <<>> => GetBytes(p, k + 1, 8) = crc

LEMMA CrcHeld ==
  ASSUME NEW crc \in Seq(Nat), crc = <<>> \/ Len(crc) = 8, NEW f, f = CrcPart(crc)
  PROVE  /\ f \in Seq(Nat)
         /\ crc = <<>> => Len(f) = 1
         /\ crc # <<>> => Len(f) = 9 /\ Len(crc) = 8
         /\ \A p \in Seq(Nat), k \in Nat : Holds(p, k, f) => ReadsCrc(p, k, crc)
<1>1. /\ Absent \in Seq(Nat) /\ Len(Absent) = 1 /\ Present \in Seq(Nat) /\ Len(Present) = 1
  BY ByteIsSequence DEF Absent, Present
<1>2. CASE crc = <<>>
  <2>1. f = Absent
    BY <1>2 DEF CrcPart
  <2>2. \A p \in Seq(Nat), k \in Nat : Holds(p, k, f) => GetU8(p, k) = 0
    BY <2>1, ByteHeld DEF Absent
  <2> QED
    BY <1>1, <1>2, <2>1, <2>2 DEF ReadsCrc
<1>3. CASE crc # <<>>
  <2>1. f = Present \o crc /\ Len(crc) = 8
    BY <1>3 DEF CrcPart
  <2>2. f \in Seq(Nat) /\ Len(f) = 9
    <3>1. Present \o crc \in Seq(Nat) /\ Len(Present \o crc) = Len(Present) + Len(crc)
      BY <1>1, Joined
    <3> QED
      BY <1>1, <2>1, <3>1
  <2>3. ASSUME NEW p \in Seq(Nat), NEW k \in Nat, Holds(p, k, f)
        PROVE  GetU8(p, k) = 1 /\ GetBytes(p, k + 1, 8) = crc
    <3>1. Holds(p, k, Present) /\ Holds(p, k + Len(Present), crc)
      BY <1>1, <2>1, <2>3, HeldApart
    <3>2. GetU8(p, k) = 1
      BY <3>1, ByteHeld DEF Present
    <3>3. GetBytes(p, k + 1, 8) = crc
      BY <1>1, <2>1, <3>1 DEF Holds
    <3> QED
      BY <3>2, <3>3
  <2> QED
    BY <1>3, <2>1, <2>2, <2>3 DEF ReadsCrc
<1> QED
  BY <1>2, <1>3

LEMMA InfoChanged ==
  ASSUME NEW info \in [versions : Seq(Nat), vcs : Seq(Nat), uid : Seq(Nat), name : Seq(Nat),
                       crc : Seq(Nat), coa : Seq(Nat)],
         NEW y \in Seq(Nat), NEW z \in Seq(Nat)
  PROVE  [info EXCEPT !.name = y, !.coa = z]
           = [versions |-> info.versions, vcs |-> info.vcs, uid |-> info.uid, name |-> y,
              crc |-> info.crc, coa |-> z]
<1> DEFINE S == [versions : Seq(Nat), vcs : Seq(Nat), uid : Seq(Nat), name : Seq(Nat),
                 crc : Seq(Nat), coa : Seq(Nat)]
<1>1. PICK q : q = [info EXCEPT !.name = y]
  OBVIOUS
<1>2. q \in S /\ q.versions = info.versions /\ q.vcs = info.vcs /\ q.uid = info.uid /\ q.name = y
      /\ q.crc = info.crc
  BY <1>1
<1>3. ASSUME NEW r \in S
      PROVE  [r EXCEPT !.coa = z] = [versions |-> r.versions, vcs |-> r.vcs, uid |-> r.uid,
                                     name |-> r.name, crc |-> r.crc, coa |-> z]
  <2>1. [r EXCEPT !.coa = z] \in S
    OBVIOUS
  <2>2. PICK t \in S : t = [r EXCEPT !.coa = z]
    BY <2>1
  <2>3. /\ t.versions = r.versions /\ t.vcs = r.vcs /\ t.uid = r.uid /\ t.name = r.name
        /\ t.crc = r.crc /\ t.coa = z
    BY <2>2
  <2>4. t = [versions |-> t.versions, vcs |-> t.vcs, uid |-> t.uid, name |-> t.name,
             crc |-> t.crc, coa |-> t.coa]
    OBVIOUS
  <2> QED
    BY <2>2, <2>3, <2>4, Zenon
<1>4. [info EXCEPT !.name = y, !.coa = z] = [q EXCEPT !.coa = z]
  BY <1>1, Zenon
<1> HIDE DEF S
<1>5. [q EXCEPT !.coa = z] = [versions |-> q.versions, vcs |-> q.vcs, uid |-> q.uid,
                              name |-> q.name, crc |-> q.crc, coa |-> z]
  BY <1>2, <1>3, Zenon
<1> QED
  BY <1>2, <1>4, <1>5, Zenon

\* What get_node_info_response_handler writes is what the node told, its arrays filled up with zeros:
\* the longest answer, with a name of 50 bytes, a CRC and a certificate of 222, fits the extent of the
\* subscription, and no length of a part moves what is read behind it
THEOREM InfoRoundTrip ==
  ASSUME NEW info, Information(info)
  PROVE  InfoAnswer(CutTo(INFO_EXTENT, NodeAnswersInfo(info)))
           = [info |-> InfoAsStructure(info), r |-> "0"]
<1>1. PICK a \in Seq(Nat), b \in Seq(Nat), c \in Seq(Nat) :
        a = info.versions /\ Len(a) = 6 /\ b = info.vcs /\ Len(b) = 8 /\ c = info.uid /\ Len(c) = 16
  BY DEF Information
<1>2. PICK name \in Seq(Nat) : name = info.name /\ Len(name) <= NAME_MAX
  BY DEF Information
<1>3. PICK crc \in Seq(Nat) : crc = info.crc /\ (crc = <<>> \/ Len(crc) = 8)
  BY DEF Information
<1>4. PICK coa \in Seq(Nat) : coa = info.coa /\ Len(coa) <= COA_MAX
  BY DEF Information
<1>5. /\ info = [versions |-> a, vcs |-> b, uid |-> c, name |-> name, crc |-> crc, coa |-> coa]
  BY <1>1, <1>2, <1>3, <1>4 DEF Information
<1>6. PICK f \in Seq(Nat) : f = CrcPart(crc)
  BY <1>3, CrcHeld
<1>7. PICK n \in Nat : n = Len(name)
  BY LenProperties
<1>8. PICK m \in Nat : m = Len(coa)
  BY LenProperties
<1>9. PICK x \in 0..1 : x = IF crc = <<>> THEN 0 ELSE 1
  OBVIOUS
<1>10. Len(f) = 1 + 8 * x
  <2>1. crc = <<>> => Len(f) = 1
    BY <1>3, <1>6, CrcHeld
  <2>2. crc # <<>> => Len(f) = 9
    BY <1>3, <1>6, CrcHeld
  <2> QED
    BY <1>9, <2>1, <2>2
<1>11. PICK p : p = EightParts(a, b, c, <<n>>, name, f, <<m>>, coa)
  OBVIOUS
<1>12. NodeAnswersInfo(info) = p
  BY <1>1, <1>2, <1>3, <1>4, <1>6, <1>7, <1>8, <1>11, Zenon
  DEF NodeAnswersInfo, EightParts, CrcPart, Absent, Present
<1>13. /\ p \in Seq(Nat) /\ Len(p) = ((32 + Len(name)) + Len(f)) + Len(coa)
       /\ Fields(p, a, b, c, name, f, m, coa)
       /\ Holds(p, (32 + Len(name)) + Len(f), coa)
  <2>1. p = EightParts(a, b, c, <<Len(name)>>, name, f, <<m>>, coa)
    BY <1>7, <1>11, Zenon
  <2>2. Fields(EightParts(a, b, c, <<Len(name)>>, name, f, <<m>>, coa), a, b, c, name, f, m, coa)
    BY <1>1, FieldsHeld, Zenon
  <2> QED
    BY <2>1, <2>2, Zenon DEF Fields
<1>14. CutTo(INFO_EXTENT, p) = p
  <2>1. Len(p) <= INFO_EXTENT /\ INFO_EXTENT \in Nat
    <3>1. n <= NAME_MAX /\ m <= COA_MAX
      BY <1>2, <1>4, <1>7, <1>8
    <3>2. Len(p) = ((32 + n) + (1 + 8 * x)) + m
      BY <1>7, <1>8, <1>10, <1>13
    <3>3. x <= 1 /\ x \in Nat
      BY SMT
    <3> QED
      BY <3>1, <3>2, <3>3, SMT DEF NAME_MAX, COA_MAX, INFO_EXTENT
  <2> QED
    BY <1>13, <2>1, CutShort
<1>15. GetU8(p, 30) = n
  BY <1>7, <1>13, ByteHeld DEF Fields
<1>16. PICK k \in Nat : k = 31 + n
  BY SMT
<1>17. GetU8(p, k) = x /\ (crc # <<>> => GetBytes(p, k + 1, 8) = crc)
  <2>1. Holds(p, k, f)
    BY <1>7, <1>13, <1>16, Zenon DEF Fields
  <2>2. ReadsCrc(p, k, crc)
    BY <1>3, <1>6, <1>13, <2>1, CrcHeld, Zenon
  <2> QED
    BY <1>9, <2>2 DEF ReadsCrc
<1>18. PICK j \in Nat : j = k + 1 + 8 * x
  BY SMT
<1>19. k + Len(f) = j /\ (31 + n) + Len(f) = j /\ (32 + n) + Len(f) = j + 1
  BY <1>10, <1>16, <1>18
<1>20. GetU8(p, j) = m
  <2>1. Holds(p, (31 + n) + Len(f), <<m>>)
    BY <1>7, <1>13, Zenon DEF Fields
  <2> QED
    BY <1>13, <1>19, <2>1, ByteHeld
<1>21. /\ GetBytes(p, 0, 6) = a /\ GetBytes(p, 6, 8) = b /\ GetBytes(p, 14, 16) = c
       /\ GetBytes(p, 31, n) = name
  <2>1. /\ GetBytes(p, 0, Len(a)) = a /\ GetBytes(p, 6, Len(b)) = b /\ GetBytes(p, 14, Len(c)) = c
        /\ GetBytes(p, 31, Len(name)) = name
    BY <1>13, Zenon DEF Fields, Holds
  <2> QED
    BY <1>1, <1>7, <2>1
<1>22. GetBytes(p, j + 1, m) = coa
  <2>1. GetBytes(p, (32 + Len(name)) + Len(f), Len(coa)) = coa
    BY <1>13, Zenon DEF Holds
  <2> QED
    BY <1>7, <1>8, <1>19, <2>1
<1>23. ~(n > NAME_MAX \/ x > 1 \/ m > COA_MAX)
  <2>1. n <= NAME_MAX /\ m <= COA_MAX /\ NAME_MAX \in Nat /\ COA_MAX \in Nat
    <3>1. NAME_MAX \in Nat /\ COA_MAX \in Nat
      BY SMT DEF NAME_MAX, COA_MAX
    <3> QED
      BY <1>2, <1>4, <1>7, <1>8, <3>1
  <2> QED
    BY <2>1
<1>24. (x = 1 <=> crc # <<>>) /\ (m = 0 <=> coa = <<>>)
  <2>1. m = 0 <=> coa = <<>>
    BY <1>8, EmptySeq
  <2> QED
    BY <1>9, <2>1
<1> DEFINE i == [versions |-> a,
                 vcs      |-> b,
                 uid      |-> c,
                 name     |-> name \o Zeros(NAME_MAX - n),
                 crc      |-> crc,
                 coa      |-> IF coa = <<>> THEN <<>> ELSE coa \o Zeros(COA_MAX - m)]
<1>25. InfoAsStructure(info) = i
  <2>1. info.name = name /\ info.coa = coa
    BY <1>2, <1>4
  <2>2. InfoAsStructure(info) = [info EXCEPT !.name = i.name, !.coa = i.coa]
    BY <1>7, <1>8, <2>1, Zenon DEF InfoAsStructure
  <2>3. i.name \in Seq(Nat) /\ i.coa \in Seq(Nat)
    <3>1. \A l \in Nat : Zeros(l) \in Seq(Nat)
      BY DEF Zeros
    <3>2. NAME_MAX - n \in Nat /\ COA_MAX - m \in Nat
      BY <1>23, SMT DEF NAME_MAX, COA_MAX
    <3>3. name \o Zeros(NAME_MAX - n) \in Seq(Nat) /\ coa \o Zeros(COA_MAX - m) \in Seq(Nat)
      BY <3>1, <3>2, Joined
    <3>4. <<>> \in Seq(Nat)
      OBVIOUS
    <3> QED
      BY <3>3, <3>4
  <2> HIDE DEF i
  <2>4. PICK y \in Seq(Nat), z \in Seq(Nat) : y = i.name /\ z = i.coa
    BY <2>3
  <2>5. [info EXCEPT !.name = y, !.coa = z]
          = [versions |-> info.versions, vcs |-> info.vcs, uid |-> info.uid, name |-> y,
             crc |-> info.crc, coa |-> z]
    BY InfoChanged, Zenon DEF Information
  <2>6. [versions |-> a, vcs |-> b, uid |-> c, name |-> i.name, crc |-> crc, coa |-> i.coa] = i
    BY Zenon DEF i
  <2> QED
    BY <1>1, <1>3, <2>2, <2>4, <2>5, <2>6, Zenon
<1>26. (IF x = 1 THEN GetBytes(p, k + 1, 8) ELSE <<>>) = crc
  BY <1>17, <1>24
<1>27. (IF m = 0 THEN <<>> ELSE Member(p, j + 1, m, COA_MAX)) = i.coa
  BY <1>22, <1>24 DEF Member
<1>28. Member(p, 31, n, NAME_MAX) = i.name
  BY <1>21 DEF Member
<1>29. InfoAnswer(p) = [info |-> i, r |-> "0"]
  <2>1. InfoAnswer(p) =
          [info |-> [versions |-> GetBytes(p, 0, 6),
                     vcs      |-> GetBytes(p, 6, 8),
                     uid      |-> GetBytes(p, 14, 16),
                     name     |-> Member(p, 31, n, NAME_MAX),
                     crc      |-> IF x = 1 THEN GetBytes(p, k + 1, 8) ELSE <<>>,
                     coa      |-> IF m = 0 THEN <<>> ELSE Member(p, j + 1, m, COA_MAX)],
           r |-> "0"]
    BY <1>15, <1>16, <1>17, <1>18, <1>20, <1>23, Zenon DEF InfoAnswer
  <2> QED
    BY <1>21, <1>26, <1>27, <1>28, <2>1
<1> QED
  BY <1>12, <1>14, <1>25, <1>29

-----------------------------------------------------------------------------
(***************************************************************************)
(* What the codec makes of the payloads of a tool and of its node.         *)
(***************************************************************************)
\* n bytes of a payload
LEMMA BytesAreSequence ==
  ASSUME NEW p \in Seq(Nat), NEW k \in Nat, NEW n \in Nat
  PROVE  GetBytes(p, k, n) \in Seq(Nat) /\ Len(GetBytes(p, k, n)) = n
<1>1. \A i \in 1..n : (IF k + i <= Len(p) THEN p[k + i] ELSE 0) \in Nat
  <2> SUFFICES ASSUME NEW i \in 1..n, k + i <= Len(p) PROVE p[k + i] \in Nat
    OBVIOUS
  <2>1. k + i \in 1..Len(p)
    BY LenProperties
  <2> QED
    BY <2>1, ElementOfSeq
<1>2. GetBytes(p, k, n) \in [1..n -> Nat]
  BY <1>1 DEF GetBytes
<1> QED
  BY <1>2

LEMMA RequestIsSequence ==
  ASSUME NEW name \in Names, NEW reg, Sendable(reg)
  PROVE  AccessRequest(name, reg) \in Seq(Nat)
<1>6. name \in Seq(Nat) /\ CutTo(NAME_MAX, name) = name
  BY NameWhole
<1>1. reg.type \in Nat /\ reg.value \in Seq(Nat)
  <2>1. reg.type \in EMPTY..FLOAT16 /\ reg.value \in Seq(Nat)
    BY DEF Sendable
  <2> QED
    BY <2>1 DEF EMPTY
<1>2. <<Len(name)>> \in Seq(Nat) /\ <<reg.type>> \in Seq(Nat)
  BY <1>1, <1>6, LenProperties, ByteIsSequence
<1>3. (<<Len(name)>> \o name) \o <<reg.type>> \in Seq(Nat)
  BY <1>2, <1>6, Joined
<1>4. CASE reg.type = EMPTY
  BY <1>3, <1>4, <1>6, Joined DEF AccessRequest
<1>5. CASE reg.type # EMPTY
  <2>1. Bytes(reg.length, LengthWidth(reg.type)) \in Seq(Nat)
    BY <1>5, SendableFits, Lengths
  <2>2. GetBytes(reg.value, 0, SentBytes(reg)) \in Seq(Nat)
    BY <1>1, <1>5, SendableFits, BytesAreSequence
  <2>3. Bytes(reg.length, LengthWidth(reg.type)) \o GetBytes(reg.value, 0, SentBytes(reg)) \in Seq(Nat)
    BY <2>1, <2>2, Joined
  <2> QED
    BY <1>3, <1>5, <1>6, <2>3, Joined DEF AccessRequest
<1> QED
  BY <1>4, <1>5

LEMMA NoBytes == <<>> \in Seq(Nat) /\ Len(<<>>) = 0
OBVIOUS

\* a node reads a register of the type it was sent, whatever its value has
LEMMA NodeReadsWritten ==
  ASSUME NEW name \in Names, NEW reg, Sendable(reg), reg.type # EMPTY
  PROVE  /\ NodeReadsAccess(AccessRequest(name, reg)).name = name
         /\ NodeReadsAccess(AccessRequest(name, reg)).reg.type # EMPTY
         /\ WellFormed(NodeReadsAccess(AccessRequest(name, reg)).reg)
<1>1. PICK n \in Nat : n = Len(name)
  BY NameWhole, LenProperties
<1>2. PICK w \in {1, 2} : w = LengthWidth(reg.type)
  BY SendableFits
<1>3. PICK k \in Nat :
        k = RegisterBytes(reg) /\ k = RegisterBytes([type |-> reg.type, length |-> reg.length])
  BY SendableFits DEF RegisterBytes
<1>4. reg.value \in Seq(Nat) /\ reg.length \in Words
  BY DEF Sendable
<1>5. PICK v \in Seq(Nat) : v = GetBytes(reg.value, 0, SentBytes(reg))
  BY <1>4, SendableFits, BytesAreSequence
<1>6. PICK p : p = AccessRequest(name, reg) /\ p \in Seq(Nat)
  BY <1>4, SendableFits, RequestIsSequence
<1>7. RequestFields(p, n, name, reg, w, v)
  BY <1>1, <1>2, <1>5, <1>6, RequestRead
<1>8. PICK b \in Seq(Nat) : b = GetBytes(p, n + 2 + w, k) /\ Len(b) = k
  <2>1. n + 2 + w \in Nat
    BY <1>2
  <2> QED
    BY <1>3, <1>6, <2>1, BytesAreSequence
<1>9. PICK read : read = [type |-> reg.type, length |-> reg.length, value |-> b]
  OBVIOUS
<1>10. NodeReadsAccess(p) = [name |-> name, reg |-> read]
  BY <1>2, <1>3, <1>7, <1>8, <1>9 DEF NodeReadsAccess, RequestFields
<1>11. WellFormed(read)
  BY <1>3, <1>4, <1>8, <1>9, SendableFits DEF WellFormed, Register, RegisterTypes, RegisterBytes
<1> QED
  BY <1>3, <1>6, <1>9, <1>10, <1>11

\* and nothing of a request to read
LEMMA NodeReadsNothing ==
  ASSUME NEW name \in Names, NEW reg, Sendable(reg), reg.type = EMPTY
  PROVE  /\ NodeReadsAccess(AccessRequest(name, reg)).name = name
         /\ NodeReadsAccess(AccessRequest(name, reg)).reg.type = EMPTY
<1>0. name \in Seq(Nat) /\ CutTo(NAME_MAX, name) = name
  BY NameWhole
<1>1. PICK n \in Nat : n = Len(name)
  BY <1>0, LenProperties
<1>2. PICK h \in Seq(Nat) : h = <<n>> /\ Len(h) = 1 /\ h[1] = n
  BY <1>1, ByteIsSequence
<1>3. PICK t \in Seq(Nat) : t = <<EMPTY>> /\ Len(t) = 1
  <2>1. <<EMPTY>> \in Seq(Nat) /\ Len(<<EMPTY>>) = 1
    BY DEF EMPTY
  <2> QED
    BY <2>1
<1>4. PICK e \in Seq(Nat) : e = <<>> /\ Len(e) = 0
  BY NoBytes
<1>5. PICK p : p = Parts(h, name, t, e)
  OBVIOUS
<1>6. AccessRequest(name, reg) = p
  BY <1>0, <1>1, <1>2, <1>3, <1>4, <1>5 DEF AccessRequest, Parts
<1>7. /\ p \in Seq(Nat) /\ Len(p) = ((Len(h) + Len(name)) + Len(t)) + Len(e)
      /\ SubSeq(p, Len(h) + 1, Len(h) + Len(name)) = name
      /\ GetBytes(p, Len(h) + Len(name), Len(t)) = t
  <2>1. ReadBack(h, name, t, e)
    BY <1>0, PartsRead
  <2> QED
    BY <1>5, <2>1, Zenon DEF ReadBack
<1>8. Len(p) = n + 2 /\ SubSeq(p, 2, n + 1) = name /\ GetBytes(p, n + 1, 1) = <<EMPTY>>
  <2>1. Len(h) = 1 /\ Len(name) = n /\ Len(t) = 1 /\ Len(e) = 0
    BY <1>1, <1>2, <1>3, <1>4
  <2>2. Len(h) + 1 = 2 /\ Len(h) + Len(name) = n + 1 /\ ((Len(h) + Len(name)) + Len(t)) + Len(e) = n + 2
    BY <2>1
  <2> QED
    BY <1>3, <1>7, <2>1, <2>2
<1>9. p[n + 2] = EMPTY
  <2>1. n + 1 \in Nat /\ (n + 1) + 1 = n + 2 /\ (n + 1) + 1 <= Len(p) /\ EMPTY \in Nat
    BY <1>8 DEF EMPTY
  <2> QED
    BY <1>7, <1>8, <2>1, ByteRead
<1>10. p[1] = n
  <2>1. PICK q \in Seq(Nat) : q = (name \o t) \o e
    <3>1. name \o t \in Seq(Nat)
      BY <1>0, Joined
    <3> QED
      BY <3>1, Joined
  <2>2. p = h \o q
    <3>1. name \o t \in Seq(Nat)
      BY <1>0, Joined
    <3>2. Associate(h, name, t) /\ Associate(h, name \o t, e)
      BY <1>0, <3>1, Regrouped
    <3> QED
      BY <1>5, <2>1, <3>2 DEF Associate, Parts
  <2>3. 1 \in 1..(Len(h) + Len(q)) /\ 1 <= Len(h)
    <3>1. Len(q) \in Nat
      BY LenProperties
    <3> QED
      BY <1>2, <3>1
  <2>4. (h \o q)[1] = h[1]
    BY <2>3, ConcatProperties
  <2> QED
    BY <1>2, <2>2, <2>4
<1> QED
  BY <1>6, <1>8, <1>9, <1>10 DEF NodeReadsAccess

\* a node that has no such register answers with an empty one, which is reported as an error
LEMMA NothingAnswered ==
  AccessAnswer(CutTo(ACCESS_EXTENT, NodeAnswersAccess(NullReg))) = [reg |-> NullReg, r |-> "ENOENT"]
<1>1. PICK z \in Seq(Nat) : z = Zeros(8) /\ Len(z) = 8
  <2>1. Zeros(8) \in Seq(Nat) /\ Len(Zeros(8)) = 8
    BY DEF Zeros
  <2> QED
    BY <2>1
<1>2. PICK t \in Seq(Nat) : t = <<EMPTY>> /\ Len(t) = 1
  <2>1. <<EMPTY>> \in Seq(Nat) /\ Len(<<EMPTY>>) = 1
    BY DEF EMPTY
  <2> QED
    BY <2>1
<1>3. PICK e \in Seq(Nat) : e = <<>> /\ Len(e) = 0
  BY NoBytes
<1>4. LengthWidth(EMPTY) = 0 /\ BitWidth(EMPTY) = 0
  BY DEF LengthWidth, BitWidth, LENGTH_WIDTHS, BIT_WIDTHS, EMPTY
<1>5. Bytes(0, 0) = e
  BY <1>3 DEF Bytes
<1>6. PICK p : p = Parts(z, t, e, e)
  OBVIOUS
<1>7. NodeAnswersAccess(NullReg) = p
  BY <1>1, <1>2, <1>3, <1>4, <1>5, <1>6 DEF NodeAnswersAccess, NullReg, Parts
<1>8. /\ p \in Seq(Nat) /\ Len(p) = ((Len(z) + Len(t)) + Len(e)) + Len(e)
      /\ GetBytes(p, Len(z), Len(t)) = t
      /\ Rest(p, (Len(z) + Len(t)) + Len(e)) = e
  <2>1. ReadBack(z, t, e, e)
    BY PartsRead
  <2> QED
    BY <1>6, <2>1, Zenon DEF ReadBack
<1>9. Len(p) = 9 /\ GetBytes(p, 8, 1) = <<EMPTY>> /\ Rest(p, 9) = <<>>
  <2>1. Len(z) = 8 /\ Len(t) = 1 /\ Len(e) = 0
    BY <1>1, <1>2, <1>3
  <2>2. 8 + 1 = 9 /\ 9 + 0 = 9
    OBVIOUS
  <2> QED
    BY <1>2, <1>3, <1>8, <2>1, <2>2
<1>10. CutTo(ACCESS_EXTENT, p) = p
  <2>1. Len(p) <= ACCESS_EXTENT /\ ACCESS_EXTENT \in Nat
    BY <1>9, SMT DEF ACCESS_EXTENT
  <2> QED
    BY <1>8, <2>1, CutShort
<1>11. GetU8(p, Skipped) = EMPTY /\ Skipped + 1 + 0 = 9 /\ EMPTY <= FLOAT16
  <2>1. 8 \in Nat /\ 8 + 1 <= Len(p) /\ EMPTY \in Nat /\ EMPTY <= FLOAT16
    BY <1>9 DEF EMPTY, FLOAT16
  <2>2. GetU8(p, 8) = EMPTY
    BY <1>8, <1>9, <2>1, ByteRead
  <2> QED
    BY <2>1, <2>2 DEF Skipped
<1>12. GetU16(p, Skipped + 1, 0) = 0
  <2>1. GetBytes(p, Skipped + 1, 0) = <<>> /\ 2 - 0 = 2
    <3>1. GetBytes(p, Skipped + 1, 0) \in Seq(Nat) /\ Len(GetBytes(p, Skipped + 1, 0)) = 0
      <4>1. Skipped + 1 \in Nat /\ 0 \in Nat
        BY DEF Skipped
      <4> QED
        BY <1>8, <4>1, BytesAreSequence
    <3> QED
      BY <3>1
  <2>2. (<<>> \o Zeros(2))[1] = 0 /\ (<<>> \o Zeros(2))[2] = 0
    <3>1. Zeros(2) \in Seq(Nat) /\ Len(Zeros(2)) = 2 /\ Zeros(2)[1] = 0 /\ Zeros(2)[2] = 0
      BY DEF Zeros
    <3>2. <<>> \o Zeros(2) = Zeros(2)
      BY <3>1
    <3> QED
      BY <3>1, <3>2
  <2>3. GetU16(p, Skipped + 1, 0) = (<<>> \o Zeros(2))[1] + 256 * (<<>> \o Zeros(2))[2]
    BY <2>1, Zenon DEF GetU16
  <2> QED
    BY <2>2, <2>3
<1>13. Valid(NullReg)
  <2>1. EMPTY \in EMPTY..FLOAT16
    BY DEF EMPTY, FLOAT16
  <2>2. 0 <= MaxLength(EMPTY)
    BY <1>4, SMT DEF MaxLength
  <2> QED
    BY <2>1, <2>2 DEF Valid, NullReg
<1>14. AccessAnswer(p) = [reg |-> NullReg, r |-> "ENOENT"]
  BY <1>4, <1>9, <1>11, <1>12, <1>13 DEF AccessAnswer, NullReg
<1> QED
  BY <1>7, <1>10, <1>14

\* the names of a list and their indices
LEMMA NameRead ==
  ASSUME NEW name \in Seq(Nat), Len(name) <= NAME_MAX
  PROVE  ListAnswer(CutTo(LIST_EXTENT, NodeAnswersList(name))) = name
<1>1. PICK h \in Seq(Nat) : h = <<Len(name)>> /\ Len(h) = 1
  BY ByteIsSequence, LenProperties
<1>2. PICK p \in Seq(Nat) : p = h \o name /\ Len(p) = 1 + Len(name) /\ Len(name) \in Nat
  BY <1>1, Joined, LenProperties
<1>3. Len(p) <= LIST_EXTENT /\ LIST_EXTENT \in Nat
  BY <1>2 DEF LIST_EXTENT, NAME_MAX
<1>4. Rest(p, 1) = name
  BY <1>1, <1>2, RestRead
<1> QED
  BY <1>1, <1>2, <1>3, <1>4, CutShort DEF ListAnswer, NodeAnswersList

LEMMA WordIsRead ==
  ASSUME NEW n \in Words
  PROVE  /\ Bytes(n, 2) \in Seq(Nat) /\ Len(Bytes(n, 2)) = 2
         /\ GetU16(Bytes(n, 2), 0, 2) = n
<1>1. LengthsOf(2) = Words
  BY DEF LengthsOf
<1>2. PICK p \in Seq(Nat) : p = Bytes(n, 2) /\ Len(p) = 2
  <2>1. 2 \in {1, 2} /\ n \in LengthsOf(2)
    BY <1>1
  <2> QED
    BY <2>1, Lengths
<1>3. GetBytes(p, 0, 2) = p
  <2>1. p = [i \in 1..2 |-> p[i]]
    BY <1>2
  <2> QED
    BY <1>2, <2>1 DEF GetBytes
<1> QED
  BY <1>1, <1>2, <1>3, LengthRead

\* the status of a command, and a command with no more than a byte
LEMMA StatusRead ==
  ASSUME NEW status \in Nat
  PROVE  CommandAnswer(CutTo(COMMAND_EXTENT, <<status>>)) = status
<1>1. PICK p \in Seq(Nat) : p = <<status>> /\ Len(p) = 1 /\ p[1] = status
  BY ByteIsSequence
<1>2. CutTo(COMMAND_EXTENT, p) = p
  <2>1. COMMAND_EXTENT \in Nat /\ Len(p) <= COMMAND_EXTENT
    BY <1>1 DEF COMMAND_EXTENT
  <2> QED
    BY <2>1, CutShort
<1>3. p # <<>>
  BY <1>1
<1>4. GetU8(p, 0) = status
  BY <1>1 DEF GetU8, GetBytes
<1> QED
  BY <1>1, <1>2, <1>3, <1>4 DEF CommandAnswer

LEMMA CommandRead ==
  ASSUME NEW number \in Words, NEW param \in Seq(Nat), Len(param) <= 1
  PROVE  LET p == CommandRequest(number, param)
         IN  GetU16(p, 0, 2) = number /\ SubSeq(p, 4, Len(p)) = param
<1>1. Len(param) \in Nat /\ (IF Len(param) > MAX_PARAM THEN MAX_PARAM ELSE Len(param)) = Len(param)
  BY LenProperties DEF MAX_PARAM
<1>2. PICK b \in Seq(Nat) : b = Bytes(number, 2) /\ Len(b) = 2
  BY WordIsRead
<1>3. PICK l \in Seq(Nat) : l = <<Len(param)>> /\ Len(l) = 1
  BY <1>1, ByteIsSequence
<1>4. PICK e \in Seq(Nat) : e = <<>> /\ Len(e) = 0
  BY NoBytes
<1>5. SubSeq(param, 1, Len(param)) = param
  BY SubSeqFull
<1>6. PICK p : p = (b \o l) \o param
  OBVIOUS
<1>7. CommandRequest(number, param) = p
  BY <1>1, <1>2, <1>3, <1>5, <1>6 DEF CommandRequest
<1>8. b \o l \in Seq(Nat) /\ Len(b \o l) = 3
  <2>1. b \o l \in Seq(Nat) /\ Len(b \o l) = Len(b) + Len(l)
    BY Joined
  <2> QED
    <3>1. Len(b) = 2
      BY <1>2
    <3>2. Len(l) = 1
      BY <1>3
    <3> QED
      BY <2>1, <3>1, <3>2
<1>9. SubSeq(p, 4, Len(p)) = param
  <2>1. Rest((b \o l) \o param, Len(b \o l)) = param
    BY <1>8, RestRead
  <2> QED
    BY <1>6, <1>8, <2>1 DEF Rest
<1>10. GetBytes(p, 0, 2) = b
  <2>1. e \o b = b
    BY <1>4
  <2>2. l \o param \in Seq(Nat)
    BY Joined
  <2>3. p = (e \o b) \o (l \o param)
    <3>1. Associate(b, l, param)
      BY Regrouped
    <3> QED
      BY <1>6, <2>1, <3>1 DEF Associate
  <2>4. GetBytes((e \o b) \o (l \o param), Len(e), Len(b)) = b
    BY <2>2, PartRead
  <2> QED
    BY <1>2, <1>4, <2>3, <2>4
<1>11. GetU16(p, 0, 2) = number
  <2>1. 2 \in {1, 2} /\ number \in LengthsOf(2)
    BY DEF LengthsOf
  <2> QED
    BY <1>2, <1>10, <2>1, LengthRead
<1> QED
  BY <1>7, <1>9, <1>11

-----------------------------------------------------------------------------
(***************************************************************************)
(* The steps of the programs.                                              *)
(***************************************************************************)
Channel == 1..Channels
Halves  == {"low", "high"}
Needs   == {"nothing", "success", "answer"}

\* what is done for a channel
ChannelStep ==
  [op : {"set"}, name : ChannelNames, reg : {Uint8(mode) : mode \in Nat}]
  \cup [op : {"prompt"}, ch : Channel, signal : Nat]
  \cup [op : {"counts"}, name : ChannelNames, half : Halves]
  \cup [op : {"pair"}, name : ChannelNames, less : BOOLEAN]
  \cup [op : {"offset", "measured", "choose", "chosen"}, name : ChannelNames]
  \cup [op : {"command"}, number : {TEST_POINT}, param : {<<p>> : p \in Nat}, needs : {"nothing"}]
  \cup [op : {"measure"}, half : Halves]

\* and what behind it
LastStep ==
  [op : {"command"}, number : {TEST_POINT}, param : {<<p>> : p \in Nat}, needs : {"nothing"}]
  \cup [op : {"command"}, number : {STORE, FACTORY_RESET, RESTART}, param : {<<>>}, needs : Needs]
  \cup [op : {"read", "write"}, name : Names]
  \cup [op : {"list", "listed", "info"}]

ChannelPrograms ==
  {"6040_5vcal", "6040macal", "6040_10vcal", "6180a_cal", "6090ccal", "6090cal", "6050cal",
   "6070cal", "6190a_conf"}

LEMMA StepsOfChannel ==
  ASSUME NEW ch \in Channel, NEW n \in Nat, NEW half \in Halves, NEW less \in BOOLEAN,
         NEW kind \in {MODE, COUNTS, CAL, SINK}
  PROVE  /\ Set(ch, kind, n) \in ChannelStep
         /\ Prompt(ch, n) \in ChannelStep
         /\ Counts(ch, half) \in ChannelStep
         /\ Pair(ch, less) \in ChannelStep
         /\ Offset(ch) \in ChannelStep
         /\ Measured(ch, kind) \in ChannelStep
         /\ Choose(ch, kind) \in ChannelStep
         /\ Chosen(ch, kind) \in ChannelStep
         /\ Command(TEST_POINT, <<n>>, "nothing") \in ChannelStep
         /\ Measure(half) \in ChannelStep
<1>1. <<ch, kind>> \in ChannelNames /\ <<ch, COUNTS>> \in ChannelNames /\ <<ch, CAL>> \in ChannelNames
  BY DEF ChannelNames, Channel, MODE, COUNTS, CAL, SINK
<1>2. Set(ch, kind, n) \in ChannelStep
  BY <1>1 DEF Set, ChannelStep
<1>3. Prompt(ch, n) \in ChannelStep
  BY <1>1 DEF Prompt, ChannelStep
<1>4. Counts(ch, half) \in ChannelStep
  BY <1>1 DEF Counts, ChannelStep
<1>5. Pair(ch, less) \in ChannelStep
  BY <1>1 DEF Pair, ChannelStep
<1>6. Offset(ch) \in ChannelStep
  BY <1>1 DEF Offset, ChannelStep
<1>7. Measured(ch, kind) \in ChannelStep
  BY <1>1 DEF Measured, ChannelStep
<1>8. Choose(ch, kind) \in ChannelStep
  BY <1>1 DEF Choose, ChannelStep
<1>9. Chosen(ch, kind) \in ChannelStep
  BY <1>1 DEF Chosen, ChannelStep
<1>10. Command(TEST_POINT, <<n>>, "nothing") \in ChannelStep
  BY DEF Command, ChannelStep
<1>11. Measure(half) \in ChannelStep
  BY DEF Measure, ChannelStep
<1> QED
  BY <1>2, <1>3, <1>4, <1>5, <1>6, <1>7, <1>8, <1>9, <1>10, <1>11

\* n steps of a channel
Does(s, n) == s \in Seq(ChannelStep) /\ Len(s) = n

LEMMA OneAfterOther ==
  ASSUME NEW s, NEW t, NEW k \in Nat, NEW n \in Nat, Does(s, k), Does(t, n)
  PROVE  Does(s \o t, k + n)
BY ConcatProperties DEF Does

LEMMA Sequences ==
  ASSUME NEW S, NEW a \in S, NEW b \in S, NEW c \in S, NEW d \in S, NEW e \in S, NEW f \in S
  PROVE  /\ <<a>> \in Seq(S) /\ Len(<<a>>) = 1
         /\ <<a, b>> \in Seq(S) /\ Len(<<a, b>>) = 2
         /\ <<a, b, c, d>> \in Seq(S) /\ Len(<<a, b, c, d>>) = 4
         /\ <<a, b, c, d, e>> \in Seq(S) /\ Len(<<a, b, c, d, e>>) = 5
         /\ <<a, b, c, d, e, f>> \in Seq(S) /\ Len(<<a, b, c, d, e, f>>) = 6
OBVIOUS

LEMMA TwoPointsFit ==
  ASSUME NEW ch \in Channel
  PROVE  Does(TwoPoints(ch), 5)
<1>1. /\ Prompt(ch, 1) \in ChannelStep /\ Prompt(ch, 2) \in ChannelStep
      /\ Counts(ch, "low") \in ChannelStep /\ Counts(ch, "high") \in ChannelStep
      /\ Pair(ch, FALSE) \in ChannelStep
  BY StepsOfChannel DEF Halves, MODE
<1> QED
  BY <1>1, Sequences, Zenon DEF TwoPoints, Does

LEMMA BeforeTwoPoints ==
  ASSUME NEW ch \in Channel, NEW mode \in Nat
  PROVE  Does(<<Set(ch, MODE, mode)>> \o TwoPoints(ch), 6)
<1>1. Set(ch, MODE, mode) \in ChannelStep
  BY StepsOfChannel DEF Halves
<1>2. Does(<<Set(ch, MODE, mode)>>, 1)
  BY <1>1, Sequences, Zenon DEF Does
<1>3. Does(TwoPoints(ch), 5)
  BY TwoPointsFit
<1>4. 1 \in Nat /\ 5 \in Nat /\ 1 + 5 = 6
  OBVIOUS
<1>5. Does(<<Set(ch, MODE, mode)>> \o TwoPoints(ch), 1 + 5)
  BY <1>2, <1>3, <1>4, OneAfterOther, Zenon
<1> QED
  BY <1>4, <1>5

LEMMA TemperatureFits ==
  ASSUME NEW ch \in Channel
  PROVE  Does(ColdJunction(ch), 6) /\ Does(ZeroVolts(ch), 4)
<1>1. /\ Prompt(ch, 1) \in ChannelStep /\ Prompt(ch, 2) \in ChannelStep
      /\ Counts(ch, "low") \in ChannelStep /\ Counts(ch, "high") \in ChannelStep
      /\ Pair(ch, TRUE) \in ChannelStep /\ Offset(ch) \in ChannelStep
      /\ Set(ch, MODE, 4) \in ChannelStep /\ Set(ch, MODE, 1) \in ChannelStep
  BY StepsOfChannel DEF Halves, MODE
<1> QED
  BY <1>1, Sequences, Zenon DEF ColdJunction, ZeroVolts, Does

LEMMA OutputsFit ==
  ASSUME NEW ch \in Channel, NEW first \in Nat, NEW kind \in {CAL, SINK}
  PROVE  Does(Outputs(ch, first, kind), 5)
<1>1. PICK next \in Nat : next = first + 1
  OBVIOUS
<1>2. /\ Command(TEST_POINT, <<first>>, "nothing") \in ChannelStep
      /\ Command(TEST_POINT, <<next>>, "nothing") \in ChannelStep
      /\ Measure("low") \in ChannelStep /\ Measure("high") \in ChannelStep
      /\ Measured(ch, kind) \in ChannelStep
  BY StepsOfChannel DEF Halves
<1> QED
  BY <1>1, <1>2, Sequences, Zenon DEF Outputs, Does

LEMMA SourceAndSinkFit ==
  ASSUME NEW ch \in Channel
  PROVE  Does(SourceAndSink(ch), 10) /\ Does(TenVolts(ch), 5)
<1>1. 1 \in Nat /\ 3 \in Nat /\ 5 \in Nat /\ 5 + 5 = 10
  OBVIOUS
<1>2. Does(Outputs(ch, 1, CAL), 5) /\ Does(Outputs(ch, 3, SINK), 5)
  BY <1>1, OutputsFit
<1>3. Does(Outputs(ch, 1, CAL) \o Outputs(ch, 3, SINK), 5 + 5)
  BY <1>1, <1>2, OneAfterOther, Zenon
<1> QED
  BY <1>1, <1>2, <1>3 DEF SourceAndSink, TenVolts

LEMMA WiringFits ==
  ASSUME NEW ch \in Channel
  PROVE  Does(Wiring(ch), 4)
<1>1. /\ Choose(ch, CAL) \in ChannelStep /\ Choose(ch, SINK) \in ChannelStep
      /\ Chosen(ch, CAL) \in ChannelStep /\ Chosen(ch, SINK) \in ChannelStep
  BY StepsOfChannel DEF Halves
<1> QED
  BY <1>1, Sequences, Zenon DEF Wiring, Does

\* how many steps a program takes for a channel
Steps(prog) ==
  CASE prog \in {"6040_5vcal", "6040macal", "6040_10vcal", "6090ccal"} -> 6
    [] prog \in {"6180a_cal", "6070cal"} -> 5
    [] prog \in {"6090cal", "6190a_conf"} -> 4
    [] prog = "6050cal" -> 10
    [] OTHER -> 0

LEMMA ChannelFits ==
  ASSUME NEW prog, NEW ch \in Channel
  PROVE  /\ Does(ChannelSteps(prog, ch), Steps(prog))
         /\ Steps(prog) \in Nat
         /\ Steps(prog) > 0 <=> prog \in ChannelPrograms
<1> USE DEF ChannelSteps, Steps, ChannelPrograms
<1>1. CASE prog = "6040_5vcal"
  BY <1>1, BeforeTwoPoints DEF FiveVolts
<1>2. CASE prog = "6040macal"
  BY <1>2, BeforeTwoPoints DEF Milliamperes
<1>3. CASE prog = "6040_10vcal"
  BY <1>3, BeforeTwoPoints DEF TenVoltsIn
<1>4. CASE prog = "6180a_cal"
  BY <1>4, TwoPointsFit
<1>5. CASE prog = "6090ccal"
  BY <1>5, TemperatureFits
<1>6. CASE prog = "6090cal"
  BY <1>6, TemperatureFits
<1>7. CASE prog = "6050cal"
  BY <1>7, SourceAndSinkFit
<1>8. CASE prog = "6070cal"
  BY <1>8, SourceAndSinkFit
<1>9. CASE prog = "6190a_conf"
  BY <1>9, WiringFits
<1>10. CASE prog \notin ChannelPrograms
  <2>1. ChannelSteps(prog, ch) = <<>> /\ Steps(prog) = 0
    BY <1>10
  <2>2. Does(<<>>, 0)
    BY DEF Does
  <2> QED
    BY <1>10, <2>1, <2>2
<1> QED
  BY <1>1, <1>2, <1>3, <1>4, <1>5, <1>6, <1>7, <1>8, <1>9, <1>10

\* which programs end with what
Ends(prog, s) ==
  /\ s.op = "info" => prog = "infodump"
  /\ s.op \in {"list", "listed"} => prog = "regtool_dump"
  /\ s.op = "write" => prog = "write"
  /\ s.op = "read" => prog = "regtool_read"
  /\ s.op = "command" /\ s.number \in {FACTORY_RESET, RESTART} => prog = "factoryreset"

EndOf(prog) == {s \in LastStep : Ends(prog, s)}

LEMMA Numbers ==
  /\ STORE \notin {FACTORY_RESET, RESTART, TEST_POINT}
  /\ TEST_POINT \notin {FACTORY_RESET, RESTART}
  /\ FACTORY_RESET # RESTART
  /\ {STORE, FACTORY_RESET, RESTART, TEST_POINT} \subseteq Words
BY SMT DEF STORE, FACTORY_RESET, RESTART, TEST_POINT, Words

LEMMA EndFits ==
  ASSUME NEW prog \in Programs
  PROVE  /\ LastSteps(prog) \in Seq(EndOf(prog))
         /\ Len(LastSteps(prog)) \in {1, 2}
         /\ Len(LastSteps(prog)) = 2 =>
              \/ prog \in {"6050cal", "6070cal", "factoryreset", "regtool_dump"}
<1>1. Store \in EndOf(prog) /\ OutputsOff \in EndOf(prog)
  <2>1. Store \in LastStep
    BY DEF Store, LastStep, Command, Needs
  <2>2. OutputsOff \in LastStep
    BY DEF OutputsOff, LastStep, Command
  <2>3. Store.op = "command" /\ Store.number = STORE
    BY DEF Store, Command
  <2>4. OutputsOff.op = "command" /\ OutputsOff.number = TEST_POINT
    BY DEF OutputsOff, Command
  <2> QED
    BY <2>1, <2>2, <2>3, <2>4, Numbers DEF EndOf, Ends
<1>2. ASSUME prog = "factoryreset"
      PROVE  /\ Command(FACTORY_RESET, <<>>, "success") \in EndOf(prog)
             /\ Command(RESTART, <<>>, "answer") \in EndOf(prog)
  <2>1. Command(FACTORY_RESET, <<>>, "success") \in LastStep
    BY DEF LastStep, Command, Needs
  <2>2. Command(RESTART, <<>>, "answer") \in LastStep
    BY DEF LastStep, Command, Needs
  <2>3. Command(FACTORY_RESET, <<>>, "success").op = "command"
        /\ Command(RESTART, <<>>, "answer").op = "command"
    BY DEF Command
  <2> QED
    BY <1>2, <2>1, <2>2, <2>3 DEF EndOf, Ends
<1>3. ASSUME NEW op \in {"info", "list", "listed"},
             op = "info" => prog = "infodump",
             op # "info" => prog = "regtool_dump"
      PROVE  [op |-> op] \in EndOf(prog)
  <2>1. [op |-> op] \in LastStep
    BY DEF LastStep
  <2> QED
    BY <1>3, <2>1 DEF EndOf, Ends
<1>4. ASSUME prog = "regtool_read" \/ prog = "write"
      PROVE  Registers[1].name \in Names
  <2>1. Registers # <<>> /\ Registers \in Seq([name : Seq(Nat), reg : Register])
    BY <1>4, RegistersAssumption
  <2>2. 1 \in 1..Len(Registers)
    BY <2>1
  <2>3. Registers[1] \in [name : Seq(Nat), reg : Register]
    BY <2>1, <2>2, ElementOfSeq
  <2>4. Len(Registers[1].name) \in 1..NAME_MAX
    BY <2>1, <2>2, RegistersAssumption
  <2> QED
    BY <2>3, <2>4, ShortName
<1>5. ASSUME NEW op \in {"read", "write"}, NEW name \in Names,
             op = "read" => prog = "regtool_read", op = "write" => prog = "write"
      PROVE  [op |-> op, name |-> name] \in EndOf(prog)
  <2>1. [op |-> op, name |-> name] \in LastStep
    BY DEF LastStep
  <2> QED
    BY <1>5, <2>1 DEF EndOf, Ends
<1>6. \A s \in EndOf(prog) : <<s>> \in Seq(EndOf(prog)) /\ Len(<<s>>) = 1
  BY Sequences, Zenon
<1>7. \A s, t \in EndOf(prog) : <<s, t>> \in Seq(EndOf(prog)) /\ Len(<<s, t>>) = 2
  BY Sequences, Zenon
<1> HIDE DEF EndOf
<1>8. CASE prog \in {"6050cal", "6070cal"}
  BY <1>1, <1>7, <1>8 DEF LastSteps
<1>9. CASE prog = "factoryreset"
  BY <1>2, <1>7, <1>9 DEF LastSteps
<1>10. CASE prog = "infodump"
  BY <1>3, <1>6, <1>10 DEF LastSteps
<1>11. CASE prog = "regtool_dump"
  BY <1>3, <1>7, <1>11 DEF LastSteps
<1>12. CASE prog = "regtool_read"
  BY <1>4, <1>5, <1>6, <1>12 DEF LastSteps
<1>13. CASE prog = "write"
  BY <1>4, <1>5, <1>6, <1>13 DEF LastSteps
<1>14. CASE prog \notin {"6050cal", "6070cal", "factoryreset", "infodump", "regtool_dump",
                         "regtool_read", "write"}
  BY <1>1, <1>6, <1>14 DEF LastSteps
<1> QED
  BY <1>8, <1>9, <1>10, <1>11, <1>12, <1>13, <1>14

\* the step of a program
LEMMA StepKnown ==
  ASSUME NEW prog \in Programs, NEW ch \in 1..(Channels + 1), NEW pc \in 1..Len(StepsAt(prog, ch))
  PROVE  \/ ch \in Channel /\ prog \in ChannelPrograms /\ StepsAt(prog, ch)[pc] \in ChannelStep
         \/ ch = Channels + 1 /\ StepsAt(prog, ch)[pc] \in EndOf(prog)
<1>1. CASE ch <= Channels
  <2>1. ch \in Channel
    BY <1>1, ChannelsAssumption DEF Channel
  <2>2. StepsAt(prog, ch) = ChannelSteps(prog, ch)
    BY <1>1 DEF StepsAt
  <2>3. Does(ChannelSteps(prog, ch), Steps(prog)) /\ Steps(prog) \in Nat
        /\ (Steps(prog) > 0 <=> prog \in ChannelPrograms)
    BY <2>1, ChannelFits
  <2>4. prog \in ChannelPrograms
    BY <2>2, <2>3 DEF Does
  <2>5. StepsAt(prog, ch)[pc] \in ChannelStep
    BY <2>2, <2>3, ElementOfSeq DEF Does
  <2> QED
    BY <2>1, <2>4, <2>5
<1>2. CASE ~(ch <= Channels)
  <2>1. ch = Channels + 1
    BY <1>2, ChannelsAssumption
  <2>2. StepsAt(prog, ch) = LastSteps(prog)
    BY <1>2 DEF StepsAt
  <2> QED
    BY <2>1, <2>2, EndFits, ElementOfSeq
<1> QED
  BY <1>1, <1>2

-----------------------------------------------------------------------------
(***************************************************************************)
(* The state of a tool, and what becomes of it from one step to the next.  *)
(***************************************************************************)
\* what a node has at a name, or has not
HeldRegs == {NullReg} \cup {reg \in Register : WellFormed(reg)}

InfoResults == {NoInfo} \cup {InfoAsStructure(info) : info \in Infos}

Founds == [reg : HeldRegs, name : Names, info : InfoResults]

ToolStates ==
  [prog : Programs, id : NodeIds, ch : 1..(Channels + 1), pc : Nat,
   exit : {"running", "done", "failed"}, acc : HeldRegs \cup Written, low : Seq(Nat),
   high : Seq(Nat), index : Words, got : Founds, printed : Seq(HeldRegs)]

\* a tool is at one of its steps
AtStep(t) == t.pc \in 1..Len(StepsAt(t.prog, t.ch))

ToolFits(t) ==
  /\ t \in ToolStates
  /\ AtStep(t)
  /\ t.acc \in IF t.prog = "write" THEN Written ELSE HeldRegs

\* t and u are at the same step, or at any
SameTool(t, u) == u.prog = t.prog /\ u.id = t.id
SameData(t, u) ==
  /\ u.acc = t.acc /\ u.low = t.low /\ u.high = t.high
  /\ u.index = t.index /\ u.got = t.got /\ u.printed = t.printed
SamePlace(t, u) == u.ch = t.ch /\ u.pc = t.pc /\ u.exit = t.exit

LEMMA Exited ==
  ASSUME NEW t, ToolFits(t), NEW exit \in {"done", "failed"}
  PROVE  /\ ToolFits([t EXCEPT !.exit = exit])
         /\ SameTool(t, [t EXCEPT !.exit = exit])
         /\ SameData(t, [t EXCEPT !.exit = exit])
         /\ [t EXCEPT !.exit = exit].exit = exit
         /\ [t EXCEPT !.exit = exit].ch = t.ch
         /\ [t EXCEPT !.exit = exit].pc = t.pc
<1> DEFINE u == [t EXCEPT !.exit = exit]
<1>1. t \in ToolStates
  BY DEF ToolFits
<1>2. u \in ToolStates /\ u.exit = exit /\ u.ch = t.ch /\ u.pc = t.pc
  BY <1>1 DEF ToolStates
<1>3. SameTool(t, u) /\ SameData(t, u)
  BY <1>1 DEF ToolStates, SameTool, SameData
<1> HIDE DEF u
<1>4. ToolFits(u)
  BY <1>2, <1>3 DEF ToolFits, AtStep, SameTool, SameData
<1> QED
  BY <1>2, <1>3, <1>4 DEF u

\* the beginning of the next block
LEMMA NextBlock ==
  ASSUME NEW prog \in Programs, NEW ch \in 1..(Channels + 1), ch <= Channels,
         StepsAt(prog, ch) # <<>>
  PROVE  1 \in 1..Len(StepsAt(prog, ch + 1)) /\ ch + 1 \in 1..(Channels + 1)
<1>1. ch \in Channel /\ ch + 1 \in 1..(Channels + 1)
  BY ChannelsAssumption DEF Channel
<1>2. Does(ChannelSteps(prog, ch), Steps(prog)) /\ Steps(prog) \in Nat
  BY <1>1, ChannelFits
<1>3. Steps(prog) > 0
  BY <1>2 DEF StepsAt, Does
<1>4. CASE ch + 1 <= Channels
  <2>1. ch + 1 \in Channel
    BY <1>1, <1>4, ChannelsAssumption DEF Channel
  <2>2. Does(ChannelSteps(prog, ch + 1), Steps(prog))
    BY <2>1, ChannelFits
  <2> QED
    BY <1>1, <1>2, <1>3, <1>4, <2>2 DEF StepsAt, Does
<1>5. CASE ~(ch + 1 <= Channels)
  <2>1. Len(LastSteps(prog)) \in {1, 2}
    BY EndFits
  <2> QED
    BY <1>1, <1>5, <2>1 DEF StepsAt
<1> QED
  BY <1>4, <1>5

LEMMA FirstBlock ==
  ASSUME NEW prog \in Programs
  PROVE  /\ 1 \in 1..Len(StepsAt(prog, FirstChannel(prog)))
         /\ FirstChannel(prog) \in 1..(Channels + 1)
         /\ prog \in ChannelPrograms => FirstChannel(prog) = 1
<1>1. 1 \in Channel /\ Channels + 1 \in 1..(Channels + 1) /\ ~(Channels + 1 <= Channels)
      /\ 1 \in 1..(Channels + 1) /\ 1 <= Channels
  BY ChannelsAssumption DEF Channel
<1>2. Does(ChannelSteps(prog, 1), Steps(prog)) /\ Steps(prog) \in Nat
      /\ (Steps(prog) > 0 <=> prog \in ChannelPrograms)
  BY <1>1, ChannelFits
<1>3. CASE ChannelSteps(prog, 1) = <<>>
  <2>1. Len(LastSteps(prog)) \in {1, 2}
    BY EndFits
  <2>2. prog \notin ChannelPrograms
    BY <1>2, <1>3 DEF Does
  <2> QED
    BY <1>1, <1>3, <2>1, <2>2 DEF StepsAt, FirstChannel
<1>4. CASE ChannelSteps(prog, 1) # <<>>
  <2>1. Len(ChannelSteps(prog, 1)) \in Nat \ {0}
    BY <1>2, <1>4 DEF Does
  <2> QED
    BY <1>1, <1>4, <2>1 DEF StepsAt, FirstChannel
<1> QED
  BY <1>3, <1>4

\* the step after a step: the next of the block, the first of the next, or none
LEMMA NextStepFits ==
  ASSUME NEW t, ToolFits(t), t.exit = "running"
  PROVE  /\ ToolFits(NextStep(t))
         /\ SameTool(t, NextStep(t))
         /\ SameData(t, NextStep(t))
         /\ \/ /\ t.pc < Len(StepsAt(t.prog, t.ch))
               /\ NextStep(t).ch = t.ch /\ NextStep(t).pc = t.pc + 1
               /\ NextStep(t).exit = "running"
            \/ /\ t.pc = Len(StepsAt(t.prog, t.ch)) /\ t.ch <= Channels
               /\ NextStep(t).ch = t.ch + 1 /\ NextStep(t).pc = 1
               /\ NextStep(t).exit = "running"
            \/ /\ t.pc = Len(StepsAt(t.prog, t.ch)) /\ t.ch = Channels + 1
               /\ NextStep(t).exit = "done"
<1>1. t \in ToolStates /\ t.pc \in Nat /\ t.ch \in 1..(Channels + 1) /\ t.prog \in Programs
      /\ t.pc \in 1..Len(StepsAt(t.prog, t.ch))
  BY DEF ToolFits, ToolStates, AtStep
<1>2. CASE t.pc < Len(StepsAt(t.prog, t.ch))
  <2> DEFINE u == [t EXCEPT !.pc = t.pc + 1]
  <2>1. NextStep(t) = u
    BY <1>2 DEF NextStep
  <2>2. t.pc + 1 \in Nat /\ t.pc + 1 \in 1..Len(StepsAt(t.prog, t.ch))
    BY <1>1, <1>2
  <2>3. u \in ToolStates /\ u.ch = t.ch /\ u.pc = t.pc + 1 /\ u.exit = t.exit
    BY <1>1, <2>2 DEF ToolStates
  <2>4. SameTool(t, u) /\ SameData(t, u)
    BY <1>1 DEF ToolStates, SameTool, SameData
  <2> HIDE DEF u
  <2>5. ToolFits(u)
    BY <2>2, <2>3, <2>4 DEF ToolFits, AtStep, SameTool, SameData
  <2> QED
    BY <1>2, <2>1, <2>3, <2>4, <2>5
<1>3. CASE ~(t.pc < Len(StepsAt(t.prog, t.ch))) /\ t.ch <= Channels
  <2> DEFINE v == [t EXCEPT !.ch = t.ch + 1]
             u == [v EXCEPT !.pc = 1]
  <2>1. NextStep(t) = u
    BY <1>3 DEF NextStep
  <2>2. 1 \in 1..Len(StepsAt(t.prog, t.ch + 1)) /\ t.ch + 1 \in 1..(Channels + 1)
    BY <1>1, <1>3, NextBlock
  <2>3. v \in ToolStates /\ v.ch = t.ch + 1 /\ v.exit = t.exit /\ SameTool(t, v) /\ SameData(t, v)
    BY <1>1, <2>2 DEF ToolStates, SameTool, SameData
  <2> HIDE DEF v
  <2>4. u \in ToolStates /\ u.ch = t.ch + 1 /\ u.pc = 1 /\ u.exit = t.exit
    BY <2>3 DEF ToolStates
  <2>5. SameTool(v, u) /\ SameData(v, u)
    BY <2>3 DEF ToolStates, SameTool, SameData
  <2>6. SameTool(t, u) /\ SameData(t, u)
    BY <2>3, <2>5 DEF SameTool, SameData
  <2> HIDE DEF u
  <2>7. ToolFits(u)
    BY <2>2, <2>4, <2>6 DEF ToolFits, AtStep, SameTool, SameData
  <2>8. t.pc = Len(StepsAt(t.prog, t.ch))
    BY <1>1, <1>3
  <2> QED
    BY <1>3, <2>1, <2>4, <2>6, <2>7, <2>8
<1>4. CASE ~(t.pc < Len(StepsAt(t.prog, t.ch))) /\ ~(t.ch <= Channels)
  <2>1. NextStep(t) = [t EXCEPT !.exit = "done"]
    BY <1>4 DEF NextStep
  <2>2. t.pc = Len(StepsAt(t.prog, t.ch)) /\ t.ch = Channels + 1
    BY <1>1, <1>4, ChannelsAssumption
  <2> QED
    BY <2>1, <2>2, Exited
<1> QED
  BY <1>2, <1>3, <1>4

\* what a measurement or a choice changes
LEMMA HalfFits ==
  ASSUME NEW t, ToolFits(t), NEW half \in Halves, NEW word \in Seq(Nat)
  PROVE  /\ ToolFits(Half(t, half, word))
         /\ SameTool(t, Half(t, half, word)) /\ SamePlace(t, Half(t, half, word))
         /\ Half(t, half, word).acc = t.acc
         /\ Half(t, half, word).index = t.index
         /\ Half(t, half, word).got = t.got
         /\ Half(t, half, word).printed = t.printed
         /\ Half(t, half, word).low = IF half = "low" THEN word ELSE t.low
         /\ Half(t, half, word).high = IF half = "low" THEN t.high ELSE word
<1> DEFINE u == Half(t, half, word)
<1>1. t \in ToolStates
  BY DEF ToolFits
<1>2. CASE half = "low"
  <2>1. u = [t EXCEPT !.low = word]
    BY <1>2 DEF Half
  <2>2. /\ u \in ToolStates /\ SameTool(t, u) /\ SamePlace(t, u)
        /\ u.acc = t.acc /\ u.index = t.index /\ u.got = t.got /\ u.printed = t.printed
        /\ u.low = word /\ u.high = t.high
    BY <1>1, <2>1 DEF ToolStates, SameTool, SamePlace
  <2> HIDE DEF u
  <2>3. ToolFits(u)
    BY <2>2 DEF ToolFits, AtStep, SameTool, SamePlace
  <2> QED
    BY <1>2, <2>2, <2>3 DEF u
<1>3. CASE half # "low"
  <2>1. u = [t EXCEPT !.high = word]
    BY <1>3 DEF Half
  <2>2. /\ u \in ToolStates /\ SameTool(t, u) /\ SamePlace(t, u)
        /\ u.acc = t.acc /\ u.index = t.index /\ u.got = t.got /\ u.printed = t.printed
        /\ u.low = t.low /\ u.high = word
    BY <1>1, <2>1 DEF ToolStates, SameTool, SamePlace
  <2> HIDE DEF u
  <2>3. ToolFits(u)
    BY <2>2 DEF ToolFits, AtStep, SameTool, SamePlace
  <2> QED
    BY <1>3, <2>2, <2>3 DEF u
<1> QED
  BY <1>2, <1>3

LEMMA LowFits ==
  ASSUME NEW t, ToolFits(t), NEW word \in Seq(Nat)
  PROVE  /\ ToolFits([t EXCEPT !.low = word])
         /\ SameTool(t, [t EXCEPT !.low = word]) /\ SamePlace(t, [t EXCEPT !.low = word])
         /\ [t EXCEPT !.low = word].low = word
         /\ [t EXCEPT !.low = word].index = t.index
         /\ [t EXCEPT !.low = word].got = t.got
         /\ [t EXCEPT !.low = word].printed = t.printed
<1>1. "low" \in Halves /\ Half(t, "low", word) = [t EXCEPT !.low = word]
  BY DEF Half, Halves
<1> QED
  BY <1>1, HalfFits

LEMMA AccFits ==
  ASSUME NEW t, ToolFits(t), t.prog # "write", NEW reg \in HeldRegs
  PROVE  /\ ToolFits([t EXCEPT !.acc = reg])
         /\ SameTool(t, [t EXCEPT !.acc = reg]) /\ SamePlace(t, [t EXCEPT !.acc = reg])
         /\ [t EXCEPT !.acc = reg].acc = reg
         /\ [t EXCEPT !.acc = reg].low = t.low
         /\ [t EXCEPT !.acc = reg].high = t.high
         /\ [t EXCEPT !.acc = reg].index = t.index
         /\ [t EXCEPT !.acc = reg].got = t.got
         /\ [t EXCEPT !.acc = reg].printed = t.printed
<1> DEFINE u == [t EXCEPT !.acc = reg]
<1>1. t \in ToolStates
  BY DEF ToolFits
<1>2. reg \in HeldRegs \cup Written
  OBVIOUS
<1>3. u \in ToolStates
  BY <1>1, <1>2 DEF ToolStates
<1>4. /\ SameTool(t, u) /\ SamePlace(t, u)
      /\ u.index = t.index /\ u.got = t.got /\ u.printed = t.printed
      /\ u.low = t.low /\ u.high = t.high /\ u.acc = reg
  BY <1>1 DEF ToolStates, SameTool, SamePlace
<1> HIDE DEF u
<1>5. ToolFits(u)
  BY <1>3, <1>4 DEF ToolFits, AtStep, SameTool, SamePlace
<1> QED
  BY <1>4, <1>5 DEF u

\* what regtool has printed
LEMMA PrintedFits ==
  ASSUME NEW t, ToolFits(t), t.exit = "running"
  PROVE  /\ ToolFits(Printed(t)) /\ SameTool(t, Printed(t))
         /\ Printed(t).got = t.got /\ Printed(t).ch = t.ch
         /\ Printed(t).printed = Append(t.printed, t.got.reg)
         /\ \/ t.index = INDEX_MAX /\ Printed(t).exit = "done"
            \/ /\ t.index # INDEX_MAX /\ Printed(t).exit = "running"
               /\ Printed(t).pc = 1 /\ Printed(t).index = t.index + 1
<1> DEFINE a == [t EXCEPT !.printed = Append(t.printed, t.got.reg)]
           b == [a EXCEPT !.pc = 1]
           c == [b EXCEPT !.index = t.index + 1]
<1>1. t \in ToolStates /\ t.printed \in Seq(HeldRegs) /\ t.got.reg \in HeldRegs /\ t.index \in Words
  BY DEF ToolFits, ToolStates, Founds
<1>2. Append(t.printed, t.got.reg) \in Seq(HeldRegs)
  BY <1>1
<1>3. /\ a \in ToolStates /\ SameTool(t, a) /\ SamePlace(t, a)
      /\ a.got = t.got /\ a.acc = t.acc /\ a.printed = Append(t.printed, t.got.reg) /\ a.index = t.index
  BY <1>1, <1>2 DEF ToolStates, SameTool, SamePlace
<1>4. Printed(t) = IF t.index = INDEX_MAX THEN [a EXCEPT !.exit = "done"] ELSE c
  <2>1. CASE t.index = INDEX_MAX
    BY <2>1 DEF Printed
  <2>2. CASE t.index # INDEX_MAX
    BY <1>3, <2>2 DEF Printed
  <2> QED
    BY <2>1, <2>2
<1> HIDE DEF a
<1>5. ToolFits(a)
  BY <1>3 DEF ToolFits, AtStep, SameTool, SamePlace
<1>6. CASE t.index = INDEX_MAX
  <2>1. Printed(t) = [a EXCEPT !.exit = "done"]
    BY <1>4, <1>6
  <2>2. /\ ToolFits([a EXCEPT !.exit = "done"])
        /\ SameTool(a, [a EXCEPT !.exit = "done"]) /\ SameData(a, [a EXCEPT !.exit = "done"])
        /\ [a EXCEPT !.exit = "done"].exit = "done"
        /\ [a EXCEPT !.exit = "done"].ch = a.ch
    BY <1>5, Exited
  <2> QED
    BY <1>3, <1>6, <2>1, <2>2 DEF SameTool, SameData, SamePlace
<1>7. CASE t.index # INDEX_MAX
  <2>1. t.index + 1 \in Words
    <3>1. Words = 0..INDEX_MAX /\ INDEX_MAX \in Nat
      BY SMT DEF Words, INDEX_MAX
    <3>2. \A n \in Nat : \A i \in 0..n : i # n => i + 1 \in 0..n
      OBVIOUS
    <3> QED
      BY <1>1, <1>7, <3>1, <3>2
  <2>2. /\ b \in ToolStates /\ SameTool(t, b) /\ b.ch = t.ch /\ b.exit = t.exit /\ b.pc = 1
        /\ b.got = t.got /\ b.acc = t.acc /\ b.printed = Append(t.printed, t.got.reg)
    BY <1>3 DEF ToolStates, SameTool, SamePlace
  <2> HIDE DEF b
  <2>3. /\ c \in ToolStates /\ SameTool(t, c) /\ c.ch = t.ch /\ c.exit = t.exit /\ c.pc = 1
        /\ c.got = t.got /\ c.acc = t.acc /\ c.printed = Append(t.printed, t.got.reg)
        /\ c.index = t.index + 1
    BY <2>1, <2>2 DEF ToolStates, SameTool
  <2> HIDE DEF c
  <2>4. 1 \in 1..Len(StepsAt(t.prog, t.ch))
    BY DEF ToolFits, AtStep
  <2>5. ToolFits(c)
    BY <2>3, <2>4 DEF ToolFits, AtStep, SameTool
  <2> QED
    BY <1>4, <1>7, <2>3, <2>5
<1> QED
  BY <1>6, <1>7

-----------------------------------------------------------------------------
(***************************************************************************)
(* The terminal tools: a call that succeeded left its caller what the node *)
(* had.  Three things have to be known for that.  A message is about the   *)
(* step the tool is at, if the call it belongs to can still call back:     *)
(* Current, with Waiting, which keeps the tool at the step it waits in.    *)
(* What is on the wire is a request some step makes or an answer a node    *)
(* gives: WireFits, with which the lemmas about the codec apply; it says   *)
(* so of the messages of earlier calls too, since the node handles those   *)
(* late and changes its registers.  And the registers it changes stay      *)
(* well-formed, or the next answer could not be read: DeviceFits.          *)
(***************************************************************************)
\* a result belongs to a call, or to none before the first
Resulted == sync_return # Nothing

LEMMA IdleShrinks ==
  ASSUME SyncInv, Resulted, frames # <<>>,
         LoopOnce \/ LoopDone \/ TickReturns \/ \E c \in Calls : SyncCallback(c)
  PROVE  Idle' \subseteq Idle /\ Resulted'
<1>1. PICK c \in Calls, where \in {"loop", "tick"} : frames = <<[call |-> c, at |-> where]>>
  BY DEF SyncInv, OneBlocked
<1>2. Len(frames) = 1 /\ Top = [call |-> c, at |-> where] /\ Front(frames) = <<>> /\ Blocked = {c}
  BY <1>1, OneFrame
<1>3. DOMAIN returned = Calls
  BY DEF SyncInv, Types
<1>4. CASE LoopOnce \/ TickReturns
  <2>1. PICK place \in {"loop", "tick"} :
          /\ frames' = [frames EXCEPT ![1].at = place]
          /\ UNCHANGED <<sync_return, returned>>
    BY <1>2, <1>4 DEF LoopOnce, TickReturns, MoveTo
  <2>2. frames' = <<[call |-> c, at |-> place]>>
    BY <1>1, <2>1
  <2>3. Blocked' = {c}
    <3>1. DOMAIN frames' = {1} /\ frames'[1].call = c
      BY <2>2
    <3> QED
      BY <3>1 DEF Blocked
  <2> QED
    BY <1>2, <2>1, <2>3 DEF Idle, Resulted
<1>5. CASE LoopDone
  <2>1. returned' = [returned EXCEPT ![c] = sync_return] /\ sync_return' = sync_return
    BY <1>2, <1>5 DEF LoopDone
  <2>2. returned'[c] # Nothing /\ \A d \in Calls : d # c => returned'[d] = returned[d]
    BY <1>3, <2>1 DEF Resulted
  <2> QED
    BY <1>2, <2>1, <2>2 DEF Idle, Resulted
<1>6. CASE \E d \in Calls : SyncCallback(d)
  <2>1. PICK d \in Calls, r \in Results : sync_return' = Result(r, d) /\ UNCHANGED <<frames, returned>>
    BY <1>6 DEF SyncCallback
  <2>2. sync_return'.of # {}
    BY <2>1 DEF Result
  <2>3. sync_return' # Nothing
    BY <2>2 DEF Nothing
  <2> QED
    BY <2>1, <2>3 DEF Idle, Blocked, Resulted
<1> QED
  BY <1>4, <1>5, <1>6

\* a call of a tool: it is idle no more
LEMMA CallMade ==
  ASSUME SyncInv, Resulted, frames = <<>>, NEW c \in Idle, CallRefused(c) \/ CallStarted(c)
  PROVE  /\ Idle' \subseteq Idle \ {c} /\ Resulted'
         /\ CallStarted(c) => pending' \subseteq {c}
<1>1. c \in Calls /\ DOMAIN returned = Calls /\ pending = {}
  BY DEF Idle, SyncInv, Types, OneBlocked
<1>2. CASE CallRefused(c)
  <2>1. returned' = [returned EXCEPT ![c] = Result("EINVAL", c)] /\ UNCHANGED <<sync_return, frames>>
    BY <1>2 DEF CallRefused
  <2>2. Result("EINVAL", c).of # {}
    BY DEF Result
  <2>3. Result("EINVAL", c) # Nothing
    BY <2>2 DEF Nothing
  <2>4. returned'[c] # Nothing /\ \A d \in Calls : d # c => returned'[d] = returned[d]
    BY <1>1, <2>1, <2>3
  <2>5. Blocked' = Blocked
    BY <2>1 DEF Blocked
  <2>6. pending' = pending
    BY <1>2 DEF CallRefused
  <2> QED
    BY <1>1, <2>1, <2>4, <2>5, <2>6 DEF Idle, Resulted
<1>3. CASE CallStarted(c)
  <2>1. /\ frames' = Append(frames, [call |-> c, at |-> "loop"])
        /\ pending' = pending \cup {c} \/ pending' = pending
        /\ UNCHANGED <<sync_return, returned>>
    BY <1>3 DEF CallStarted
  <2>2. frames' = <<[call |-> c, at |-> "loop"]>>
    BY <2>1
  <2>3. Blocked' = {c}
    <3>1. DOMAIN frames' = {1} /\ frames'[1].call = c
      BY <2>2
    <3> QED
      BY <3>1 DEF Blocked
  <2>4. Blocked = {}
    BY DEF Blocked
  <2> QED
    BY <1>1, <2>1, <2>3, <2>4 DEF Idle, Resulted
<1> QED
  BY <1>2, <1>3

-----------------------------------------------------------------------------
NameSets == {Listed, ChannelNames, ChannelNames \ {<<Channels, CAL>>}}

DeviceStates(names) ==
  [ram : [names -> HeldRegs], eeprom : [names -> HeldRegs], input : [Channel -> Nat],
   point : Nat, info : {NoInfo} \cup Infos]

DeviceFits ==
  /\ \E names \in NameSets : device \in DeviceStates(names)
  /\ tool.prog = "infodump" => device.info \in Infos

Numbered(number, param) ==
  \/ number = TEST_POINT /\ \E p \in Nat : param = <<p>>
  \/ number \in {STORE, FACTORY_RESET, RESTART} /\ param = <<>>

\* what a tool asks for
RequestFits(m) ==
  \/ /\ m.port = ACCESS
     /\ \E name \in Names : \E reg : Sendable(reg) /\ m.payload = AccessRequest(name, reg)
  \/ m.port = LIST /\ \E i \in Words : m.payload = ListRequest(i)
  \/ m.port = INFO /\ tool.prog = "infodump"
  \/ /\ m.port = COMMAND
     /\ \E number, param : Numbered(number, param) /\ m.payload = CommandRequest(number, param)

\* what a node answers, and what of it the tool should find
AnswerFits(m) ==
  \/ /\ m.port = ACCESS
     /\ \E reg \in HeldRegs : m.payload = NodeAnswersAccess(reg) /\ m.truth = FoundReg(reg)
  \/ /\ m.port = LIST
     /\ \E name \in Names : m.payload = NodeAnswersList(name) /\ m.truth = FoundName(name)
  \/ /\ m.port = INFO
     /\ \E info \in Infos :
          m.payload = NodeAnswersInfo(info) /\ m.truth = FoundInfo(InfoAsStructure(info))
  \/ m.port = COMMAND /\ \E status \in Nat : m.payload = <<status>>

MessageFits(m) ==
  \/ m.kind = "request" /\ RequestFits(m)
  \/ m.kind = "answer" /\ AnswerFits(m)

WireFits == \A m \in wire : m.call \in Calls \ Idle /\ MessageFits(m)

\* a message of the call that is blocked is about the step the tool is at
Asked(m) ==
  \/ m = RequestOf(m.call)
  \/ /\ m.kind = "answer"
     /\ m.port = RequestOf(m.call).port
     /\ Step.op = "write" /\ WholeBytes(Regw) => m.truth \in {FoundReg(Regw), Found}

Current == \A m \in wire : m.call \in pending => Asked(m)

Waiting == frames # <<>> => tool.exit = "running" /\ IsCall /\ ~Refused

ToolInv ==
  /\ SyncInv
  /\ Resulted
  /\ ToolFits(tool)
  /\ DeviceFits
  /\ WireFits
  /\ Current
  /\ Waiting
  /\ AnswerIsFaithful

-----------------------------------------------------------------------------
\* the step a tool is at
LEMMA StepFits ==
  ASSUME ToolFits(tool)
  PROVE  \/ Step \in ChannelStep /\ tool.ch \in Channel /\ tool.prog \in ChannelPrograms
         \/ Step \in LastStep /\ Ends(tool.prog, Step) /\ tool.ch = Channels + 1
<1>1. tool.prog \in Programs /\ tool.ch \in 1..(Channels + 1)
      /\ tool.pc \in 1..Len(StepsAt(tool.prog, tool.ch))
  BY DEF ToolFits, ToolStates, AtStep
<1> QED
  BY <1>1, StepKnown DEF Step, EndOf

LEMMA NamesOfChannels ==
  ASSUME NEW name \in ChannelNames
  PROVE  name \in Names
<1>1. PICK ch \in Nat, kind \in Nat : name = <<ch, kind>>
  BY ChannelsAssumption DEF ChannelNames, MODE, COUNTS, CAL, SINK
<1>2. name \in Seq(Nat) /\ Len(name) = 2
  BY <1>1
<1> QED
  BY <1>2 DEF Names, NAME_MAX

LEMMA NameFits ==
  ASSUME ToolFits(tool), Step.op \in Accesses
  PROVE  Name \in Names
<1>1. tool.got.name \in Names
  BY DEF ToolFits, ToolStates, Founds
<1>2. CASE Step \in ChannelStep
  <2>1. Step.op # "listed" /\ Step.name \in ChannelNames
    BY <1>2 DEF ChannelStep, Accesses
  <2> QED
    BY <2>1, NamesOfChannels DEF Name
<1>3. CASE Step \in LastStep
  <2>1. Step.op # "listed" => Step.name \in Names
    BY <1>3 DEF LastStep, Accesses
  <2> QED
    BY <1>1, <2>1 DEF Name
<1> QED
  BY <1>2, <1>3, StepFits

\* what the library lets pass of the registers a tool writes
LEMMA HeldFits ==
  ASSUME NEW reg \in HeldRegs
  PROVE  /\ reg.value \in Seq(Nat) /\ reg.type \in Nat
         /\ Sendable(reg)
         /\ reg = NullReg \/ WellFormed(reg)
<1>1. CASE reg = NullReg
  <2>1. reg.type = EMPTY /\ reg.length = 0 /\ reg.value = <<>>
        /\ reg = [type |-> EMPTY, length |-> 0, value |-> <<>>]
    BY <1>1 DEF NullReg
  <2>2. Valid(reg)
    <3>1. EMPTY \in EMPTY..FLOAT16 /\ BitWidth(EMPTY) = 0
      BY DEF EMPTY, FLOAT16, BitWidth, BIT_WIDTHS
    <3>2. 0 <= MaxLength(EMPTY)
      BY <3>1, SMT DEF MaxLength
    <3> QED
      BY <2>1, <3>1, <3>2 DEF Valid
  <2>3. EMPTY \in EMPTY..FLOAT16 /\ 0 \in Words /\ <<>> \in Seq(Nat) /\ EMPTY \in Nat
    BY DEF EMPTY, FLOAT16, Words
  <2>4. reg \in [type : EMPTY..FLOAT16, length : Words, value : Seq(Nat)]
    BY <2>1, <2>3
  <2> QED
    BY <1>1, <2>1, <2>2, <2>3, <2>4 DEF Sendable
<1>2. CASE WellFormed(reg)
  BY <1>2, Fits
<1> QED
  BY <1>1, <1>2 DEF HeldRegs

LEMMA SmallWords ==
  ASSUME NEW n \in Nat, n <= 300
  PROVE  n \in Words
<1>1. Words = 0..INDEX_MAX /\ INDEX_MAX \in Nat /\ 300 <= INDEX_MAX
  BY SMT DEF Words, INDEX_MAX
<1> QED
  BY <1>1

LEMMA Less32768Fits ==
  ASSUME NEW w \in Seq(Nat)
  PROVE  Less32768(w) \in Seq(Nat)
<1>1. PICK n \in Nat : w \in [1..n -> Nat]
  <2>1. Len(w) \in Nat /\ w = [i \in 1..Len(w) |-> w[i]]
    BY LenProperties
  <2>2. \A i \in 1..Len(w) : w[i] \in Nat
    BY ElementOfSeq
  <2> QED
    BY <2>1, <2>2
<1>2. Less32768(w) = [i \in 1..n |-> IF i = 2 THEN (w[2] + 128) % 256 ELSE w[i]]
  BY <1>1 DEF Less32768
<1>3. \A i \in 1..n : (IF i = 2 THEN (w[2] + 128) % 256 ELSE w[i]) \in Nat
  <2> SUFFICES ASSUME NEW i \in 1..n PROVE (IF i = 2 THEN (w[2] + 128) % 256 ELSE w[i]) \in Nat
    OBVIOUS
  <2>1. w[i] \in Nat
    BY <1>1
  <2>2. \A k \in Nat : (k + 128) % 256 \in Nat
    OBVIOUS
  <2> QED
    BY <2>1, <2>2
<1>4. Less32768(w) \in [1..n -> Nat]
  BY <1>2, <1>3
<1> QED
  BY <1>4

LEMMA MadeFits ==
  ASSUME NEW type, NEW n \in Words, NEW value \in Seq(Nat),
         NEW reg, reg = [type |-> type, length |-> n, value |-> value], Valid(reg)
  PROVE  Sendable(reg)
<1>1. type \in EMPTY..FLOAT16
  BY DEF Valid
<1> QED
  BY <1>1 DEF Sendable

LEMMA RegwFits ==
  ASSUME ToolFits(tool), Step.op \in Accesses, Valid(Regw)
  PROVE  Sendable(Regw)
<1>1. tool.low \in Seq(Nat) /\ tool.high \in Seq(Nat) /\ tool.acc \in HeldRegs \cup Written
  BY DEF ToolFits, ToolStates
<1>3. 1 \in Words /\ 2 \in Words
  BY SmallWords
<1>4. CASE Step.op = "set"
  <2>1. Step \in ChannelStep
    BY <1>4, StepFits DEF LastStep
  <2>2. PICK mode \in Nat : Step.reg = Uint8(mode)
    BY <1>4, <2>1 DEF ChannelStep
  <2>3. Regw = [type |-> UINT8, length |-> 1, value |-> <<mode>>] /\ <<mode>> \in Seq(Nat)
    BY <1>4, <2>2 DEF Regw, Uint8
  <2> QED
    BY <1>3, <2>3, MadeFits
<1>5. CASE Step.op = "pair"
  <2>1. PICK low \in Seq(Nat), high \in Seq(Nat) :
          Regw = [type |-> tool.acc.type, length |-> 2, value |-> low \o high]
    <3>1. \A w \in Seq(Nat) : Less32768(w) \in Seq(Nat)
      BY Less32768Fits
    <3> DEFINE l == IF Step.less THEN Less32768(tool.low) ELSE tool.low
               h == IF Step.less THEN Less32768(tool.high) ELSE tool.high
    <3>2. l \in Seq(Nat) /\ h \in Seq(Nat)
      BY <1>1, <3>1
    <3>3. Regw = [type |-> tool.acc.type, length |-> 2, value |-> l \o h]
      BY <1>5 DEF Regw
    <3> QED
      BY <3>2, <3>3
  <2>2. low \o high \in Seq(Nat)
    BY Joined
  <2> QED
    BY <1>3, <2>1, <2>2, MadeFits
<1>6. CASE Step.op \in {"offset", "write"}
  <2>1. Regw = tool.acc
    BY <1>6 DEF Regw
  <2>2. CASE tool.acc \in HeldRegs
    BY <2>1, <2>2, HeldFits
  <2>3. CASE tool.acc \in Written
    BY <2>1, <2>3, WrittenAssumption, Fits
  <2> QED
    BY <1>1, <2>2, <2>3
<1>7. CASE Step.op = "measured"
  <2>1. PICK value \in Seq(Nat) : value = tool.low \o tool.high
    BY <1>1, Joined
  <2>2. Regw = [type |-> UINT16, length |-> Len(value) \div 2, value |-> value]
    BY <1>7, <2>1 DEF Regw, Uint16
  <2>3. PICK n \in Nat : n = Len(value) \div 2
    BY LenProperties
  <2>4. n <= MaxLength(UINT16)
    BY <2>2, <2>3 DEF Valid
  <2>5. MaxLength(UINT16) = 128
    BY SMT DEF MaxLength, BitWidth, BIT_WIDTHS, UINT16
  <2>6. n \in Words
    BY <2>3, <2>4, <2>5, SmallWords
  <2> QED
    BY <2>2, <2>3, <2>6, MadeFits
<1>8. CASE Step.op = "chosen"
  <2>1. Regw = [type |-> UINT8, length |-> 1, value |-> tool.low]
    BY <1>8 DEF Regw
  <2> QED
    BY <1>1, <1>3, <2>1, MadeFits
<1>9. CASE Step.op \notin {"set", "pair", "offset", "write", "measured", "chosen"}
  <2>1. Regw = NullReg
    BY <1>9 DEF Regw
  <2> QED
    BY <2>1, HeldFits DEF HeldRegs
<1> QED
  BY <1>4, <1>5, <1>6, <1>7, <1>8, <1>9

\* what a tool asks for
LEMMA AskedFits ==
  ASSUME ToolFits(tool), IsCall, ~Refused, NEW c
  PROVE  RequestOf(c).kind = "request" /\ RequestOf(c).call = c /\ RequestFits(RequestOf(c))
<1>1. /\ RequestOf(c).kind = "request" /\ RequestOf(c).call = c
      /\ Step.op \in Accesses => RequestOf(c).port = ACCESS
      /\ Step.op = "command" => RequestOf(c).port = COMMAND
      /\ Step.op = "list" => RequestOf(c).port = LIST
      /\ Step.op = "info" => RequestOf(c).port = INFO
  BY DEF RequestOf, Accesses
<1>2. /\ Step.op \in Accesses => RequestOf(c).payload = AccessRequest(Name, Regw)
      /\ Step.op = "command" => RequestOf(c).payload = CommandRequest(Step.number, Step.param)
      /\ Step.op = "list" => RequestOf(c).payload = ListRequest(tool.index)
  BY DEF RequestOf, Accesses
<1>3. CASE Step.op \in Accesses
  <2>1. Sendable(Regw) /\ Name \in Names
    BY <1>3, RegwFits, NameFits DEF Refused
  <2> QED
    BY <1>1, <1>2, <1>3, <2>1 DEF RequestFits
<1>4. CASE Step.op = "command"
  <2>1. Numbered(Step.number, Step.param)
    <3>1. CASE Step \in ChannelStep
      BY <1>4, <3>1 DEF ChannelStep, Numbered
    <3>2. CASE Step \in LastStep
      BY <1>4, <3>2 DEF LastStep, Numbered
    <3> QED
      BY <3>1, <3>2, StepFits
  <2> QED
    BY <1>1, <1>2, <1>4, <2>1 DEF RequestFits
<1>5. CASE Step.op = "list"
  <2>1. tool.index \in Words
    BY DEF ToolFits, ToolStates
  <2> QED
    BY <1>1, <1>2, <1>5, <2>1 DEF RequestFits
<1>6. CASE Step.op = "info"
  <2>1. tool.prog = "infodump"
    BY <1>6, StepFits DEF ChannelStep, Ends
  <2> QED
    BY <1>1, <1>6, <2>1 DEF RequestFits
<1> QED
  BY <1>1, <1>3, <1>4, <1>5, <1>6 DEF IsCall

LEMMA FoundFits ==
  /\ Found \in Founds
  /\ \A reg \in HeldRegs : /\ FoundReg(reg) \in Founds /\ FoundReg(reg).reg = reg
                           /\ FoundReg(reg).name = <<>>
  /\ \A name \in Names : /\ FoundName(name) \in Founds /\ FoundName(name).name = name
                            /\ FoundName(name).reg = NullReg
  /\ \A info \in InfoResults : FoundInfo(info) \in Founds
  /\ FoundReg(NullReg) = Found
<1>1. NullReg \in HeldRegs /\ <<>> \in Names /\ NoInfo \in InfoResults
  <2>1. <<>> \in Names
    BY NoBytes, SMT DEF Names, NAME_MAX
  <2> QED
    BY <2>1 DEF HeldRegs, InfoResults
<1>2. Found = [reg |-> NullReg, name |-> <<>>, info |-> NoInfo]
  BY DEF Found
<1>3. Found \in Founds
  BY <1>1, <1>2 DEF Founds
<1>4. ASSUME NEW reg \in HeldRegs
      PROVE  /\ FoundReg(reg) \in Founds /\ FoundReg(reg).reg = reg /\ FoundReg(reg).name = <<>>
  BY <1>1, <1>2 DEF Founds, FoundReg
<1>5. ASSUME NEW name \in Names
      PROVE  /\ FoundName(name) \in Founds /\ FoundName(name).name = name
             /\ FoundName(name).reg = NullReg
  BY <1>1, <1>2 DEF Founds, FoundName
<1>6. ASSUME NEW info \in InfoResults PROVE FoundInfo(info) \in Founds
  BY <1>1, <1>2 DEF Founds, FoundInfo
<1>7. FoundReg(NullReg) = Found
  BY <1>2 DEF FoundReg
<1> QED
  BY <1>3, <1>4, <1>5, <1>6, <1>7

\* the handlers are told apart by their ports
LEMMA Ports ==
  /\ ACCESS # LIST /\ ACCESS # INFO /\ ACCESS # COMMAND
  /\ LIST # INFO /\ LIST # COMMAND /\ INFO # COMMAND
BY DEF ACCESS, LIST, INFO, COMMAND

LEMMA HeldAnswered ==
  ASSUME NEW reg \in HeldRegs
  PROVE  AccessAnswer(CutTo(ACCESS_EXTENT, NodeAnswersAccess(reg)))
           = [reg |-> reg, r |-> IF reg = NullReg THEN "ENOENT" ELSE "0"]
<1>1. CASE reg = NullReg
  BY <1>1, NothingAnswered
<1>2. CASE reg # NullReg
  <2>1. WellFormed(reg)
    BY <1>2, HeldFits
  <2> QED
    BY <1>2, <2>1, AccessAnswersRoundTrip
<1> QED
  BY <1>1, <1>2

\* what the tool makes of an answer is what the node had
DecodedRight(m, d) ==
  /\ d.got \in Founds
  /\ d.r = "0" /\ m.port # COMMAND /\ (m.port = ACCESS => HasRegr) => d.got = m.truth
  /\ d.r = "0" /\ m.port = ACCESS => m.truth # Found
  /\ m.port \in {ACCESS, LIST, INFO, COMMAND}

LEMMA AnswerDecoded ==
  ASSUME ToolFits(tool), NEW m, AnswerFits(m)
  PROVE  DecodedRight(m, Decoded(m))
<1>1. tool.got \in Founds
  BY DEF ToolFits, ToolStates
<1>2. CASE m.port = ACCESS
  <2>1. PICK reg \in HeldRegs : m.payload = NodeAnswersAccess(reg) /\ m.truth = FoundReg(reg)
    BY <1>2, Ports DEF AnswerFits
  <2>2. PICK access : /\ access = AccessAnswer(CutTo(ACCESS_EXTENT, m.payload))
                      /\ access.reg = reg
                      /\ access.r = IF reg = NullReg THEN "ENOENT" ELSE "0"
    BY <2>1, HeldAnswered
  <2>3. Decoded(m) = [r |-> access.r, got |-> IF HasRegr THEN FoundReg(access.reg) ELSE tool.got]
    <3>1. Decoded(m) =
            LET a == AccessAnswer(CutTo(ACCESS_EXTENT, m.payload))
            IN  [r |-> a.r, got |-> IF HasRegr THEN FoundReg(a.reg) ELSE tool.got]
      BY <1>2, Ports DEF Decoded
    <3> QED
      BY <2>2, <3>1
  <2>4. FoundReg(reg).reg = reg /\ Found.reg = NullReg /\ FoundReg(reg) \in Founds
    BY FoundFits DEF Found
  <2>5. Decoded(m).r = access.r /\ Decoded(m).got = IF HasRegr THEN FoundReg(reg) ELSE tool.got
    BY <2>2, <2>3
  <2>6. Decoded(m).r = "0" => reg # NullReg
    BY <2>2, <2>5
  <2> QED
    BY <1>1, <1>2, <2>1, <2>4, <2>5, <2>6 DEF DecodedRight
<1>3. CASE m.port = LIST
  <2>1. PICK name \in Names : m.payload = NodeAnswersList(name) /\ m.truth = FoundName(name)
    BY <1>3, Ports DEF AnswerFits
  <2>2. ListAnswer(CutTo(LIST_EXTENT, m.payload)) = name
    BY <2>1, NameRead DEF Names
  <2>3. Decoded(m) = [r |-> "0", got |-> FoundName(name)]
    BY <1>3, <2>2, Ports DEF Decoded
  <2>4. FoundName(name) \in Founds
    BY FoundFits
  <2> QED
    BY <1>3, <2>1, <2>3, <2>4, Ports DEF DecodedRight
<1>4. CASE m.port = INFO
  <2>1. PICK info \in Infos :
          m.payload = NodeAnswersInfo(info) /\ m.truth = FoundInfo(InfoAsStructure(info))
    BY <1>4, Ports DEF AnswerFits
  <2>2. InfoAnswer(CutTo(INFO_EXTENT, m.payload)) = [info |-> InfoAsStructure(info), r |-> "0"]
    BY <2>1, InfosAssumption, InfoRoundTrip
  <2>3. Decoded(m) = [r |-> "0", got |-> FoundInfo(InfoAsStructure(info))]
    BY <1>4, <2>2, Ports DEF Decoded
  <2>4. FoundInfo(InfoAsStructure(info)) \in Founds
    BY FoundFits DEF InfoResults
  <2> QED
    BY <1>4, <2>1, <2>3, <2>4, Ports DEF DecodedRight
<1>5. CASE m.port = COMMAND
  <2>1. PICK r : Decoded(m) = [r |-> r, got |-> tool.got]
    BY <1>5, Ports DEF Decoded
  <2> QED
    BY <1>1, <1>5, <2>1, Ports DEF DecodedRight
<1> QED
  BY <1>2, <1>3, <1>4, <1>5 DEF AnswerFits

LEMMA GotFits ==
  ASSUME NEW t, ToolFits(t), NEW got \in Founds
  PROVE  /\ ToolFits([t EXCEPT !.got = got])
         /\ SameTool(t, [t EXCEPT !.got = got]) /\ SamePlace(t, [t EXCEPT !.got = got])
         /\ [t EXCEPT !.got = got].got = got
         /\ [t EXCEPT !.got = got].acc = t.acc
         /\ [t EXCEPT !.got = got].low = t.low
         /\ [t EXCEPT !.got = got].high = t.high
         /\ [t EXCEPT !.got = got].index = t.index
         /\ [t EXCEPT !.got = got].printed = t.printed
<1> DEFINE u == [t EXCEPT !.got = got]
<1>1. t \in ToolStates
  BY DEF ToolFits
<1>2. u \in ToolStates
  BY <1>1 DEF ToolStates
<1>3. /\ SameTool(t, u) /\ SamePlace(t, u)
      /\ u.index = t.index /\ u.got = got /\ u.printed = t.printed
      /\ u.low = t.low /\ u.high = t.high /\ u.acc = t.acc
  BY <1>1 DEF ToolStates, SameTool, SamePlace
<1> HIDE DEF u
<1>4. ToolFits(u)
  BY <1>2, <1>3 DEF ToolFits, AtStep, SameTool, SamePlace
<1> QED
  BY <1>3, <1>4 DEF u

\* a step that leaves the tool where it is leaves it what it asks for
LEMMA SameStep ==
  ASSUME tool'.prog = tool.prog, tool'.id = tool.id, tool'.ch = tool.ch, tool'.pc = tool.pc,
         tool'.acc = tool.acc, tool'.low = tool.low, tool'.high = tool.high
  PROVE  /\ Step' = Step /\ Regw' = Regw
         /\ IsCall' = IsCall /\ Refused' = Refused
<1>1. Step' = Step
  BY DEF Step
<1>2. Regw' = Regw
  BY <1>1 DEF Regw
<1> QED
  BY <1>1, <1>2 DEF IsCall, Refused

LEMMA SameTools ==
  ASSUME tool' = tool
  PROVE  /\ Step' = Step /\ Regw' = Regw /\ IsCall' = IsCall /\ Refused' = Refused
         /\ \A c : RequestOf(c)' = RequestOf(c)
         /\ \A m : Asked(m) => Asked(m)'
<1>1. Step' = Step /\ Regw' = Regw /\ IsCall' = IsCall /\ Refused' = Refused
  BY SameStep
<1>2. Name' = Name
  BY <1>1 DEF Name
<1>3. \A c : RequestOf(c)' = RequestOf(c)
  BY <1>1, <1>2 DEF RequestOf
<1>4. \A m : Asked(m) => Asked(m)'
  BY <1>1, <1>3 DEF Asked
<1> QED
  BY <1>1, <1>3, <1>4

\* messages are about the program, not about where it is
LEMMA MessagesKept ==
  ASSUME tool'.prog = tool.prog
  PROVE  \A m : MessageFits(m) => MessageFits(m)'
BY DEF MessageFits, RequestFits, AnswerFits

\* what is left of the messages
LEMMA FewerMessages ==
  ASSUME WireFits, wire' \subseteq wire, Idle' \subseteq Idle, tool'.prog = tool.prog
  PROVE  WireFits'
BY MessagesKept DEF WireFits

LEMMA DeviceKept ==
  ASSUME DeviceFits, device' = device, tool'.prog = tool.prog
  PROVE  DeviceFits'
BY DEF DeviceFits, DeviceStates

\* when an operation is over nothing is pending
LEMMA NothingPending ==
  ASSUME SyncInv, sync_flag \/ frames = <<>>
  PROVE  pending = {}
BY DEF SyncInv, OneBlocked

LEMMA AnsweredStep ==
  ASSUME ToolInv, NEW m \in wire, Answered(m)
  PROVE  ToolInv'
<1> DEFINE d == Decoded(m)
<1>1. /\ m.call \in Calls /\ MessageFits(m) /\ m.kind = "answer"
      /\ SyncCallback(m.call) /\ frames # <<>> /\ sync_flag' /\ m.call \in pending
  BY DEF ToolInv, WireFits, Answered, SyncCallback
<1>2. AnswerFits(m)
  BY <1>1 DEF MessageFits
<1>3. SyncInv' /\ Idle' \subseteq Idle /\ Resulted'
  BY <1>1, BlockedStep, IdleShrinks DEF ToolInv
<1>4. pending' = {}
  BY <1>1, <1>3, NothingPending DEF SyncInv, OneBlocked
<1>5. DecodedRight(m, d)
  BY <1>2, AnswerDecoded DEF ToolInv
<1> HIDE DEF d
<1>6. /\ tool' = [tool EXCEPT !.got = d.got] /\ wire' = wire \ {m} /\ device' = device
      /\ truth' = IF d.r # "0" \/ m.port = COMMAND \/ (m.port = ACCESS /\ ~HasRegr) THEN d.got
                  ELSE IF Step.op = "write" /\ WholeBytes(Regw) THEN FoundReg(Regw)
                  ELSE m.truth
  BY DEF Answered, d
<1>7. /\ ToolFits(tool') /\ SameTool(tool, tool') /\ SamePlace(tool, tool') /\ tool'.got = d.got
      /\ tool'.acc = tool.acc /\ tool'.low = tool.low /\ tool'.high = tool.high
  BY <1>5, <1>6, GotFits DEF ToolInv, DecodedRight
<1>8. IsCall' = IsCall /\ Refused' = Refused /\ tool'.exit = tool.exit /\ tool'.prog = tool.prog
  BY <1>7, SameStep DEF SameTool, SamePlace
<1>9. Waiting'
  BY <1>1, <1>8 DEF ToolInv, Waiting, SyncCallback
<1>10. WireFits'
  BY <1>3, <1>6, <1>8, FewerMessages DEF ToolInv
<1>11. DeviceFits'
  BY <1>6, <1>8, DeviceKept DEF ToolInv
<1>12. Current'
  BY <1>4 DEF Current
<1>13. AnswerIsFaithful'
  <2>1. CASE d.r # "0" \/ m.port = COMMAND \/ (m.port = ACCESS /\ ~HasRegr)
    BY <1>6, <1>7, <2>1 DEF AnswerIsFaithful
  <2>2. CASE ~(d.r # "0" \/ m.port = COMMAND \/ (m.port = ACCESS /\ ~HasRegr))
    <3>1. d.got = m.truth /\ (m.port = ACCESS => m.truth # Found)
      BY <1>5, <2>2 DEF DecodedRight
    <3>2. /\ m.port = RequestOf(m.call).port
          /\ Step.op = "write" /\ WholeBytes(Regw) => m.truth \in {FoundReg(Regw), Found}
      <4>1. Asked(m) /\ RequestOf(m.call).kind = "request"
        BY <1>1 DEF ToolInv, Current, RequestOf
      <4> QED
        BY <1>1, <4>1 DEF Asked
    <3>3. Step.op = "write" => m.port = ACCESS
      BY <3>2 DEF RequestOf, Accesses
    <3> QED
      BY <1>6, <1>7, <2>2, <3>1, <3>2, <3>3 DEF AnswerIsFaithful
  <2> QED
    BY <2>1, <2>2
<1>14. ToolFits(tool)'
  BY <1>7
<1> QED
  BY <1>3, <1>9, <1>10, <1>11, <1>12, <1>13, <1>14 DEF ToolInv

\* the tool waits, or gives up
LEMMA WaitStep ==
  ASSUME ToolInv, ToolWaits \/ \E c \in Calls : TimedOut(c)
  PROVE  ToolInv'
<1>1. /\ frames # <<>>
      /\ LoopOnce \/ LoopDone \/ TickReturns \/ \E c \in Calls : SyncCallback(c)
      /\ tool' = tool /\ device' = device /\ truth' = truth /\ wire' \subseteq wire
  BY DEF ToolWaits, TimedOut, toolVars, LoopOnce, TickReturns, SyncCallback
<1>2. SyncInv' /\ Idle' \subseteq Idle /\ Resulted'
  BY <1>1, BlockedStep, IdleShrinks DEF ToolInv
<1>3. pending' \subseteq pending
  BY DEF ToolWaits, TimedOut, LoopOnce, TickReturns, SyncCallback
<1>4. ToolFits(tool)' /\ DeviceFits' /\ AnswerIsFaithful' /\ WireFits'
  BY <1>1, <1>2, FewerMessages, DeviceKept DEF ToolInv, AnswerIsFaithful
<1>5. Current'
  BY <1>1, <1>3, SameTools DEF ToolInv, Current
<1>6. Waiting'
  BY <1>1, SameTools DEF ToolInv, Waiting
<1> QED
  BY <1>2, <1>4, <1>5, <1>6 DEF ToolInv

\* what becomes of a tool whose call returned
Proceeds(t, u) ==
  /\ ToolFits(u) /\ SameTool(t, u) /\ u.got = t.got

LEMMA AfterFits ==
  ASSUME ToolFits(tool), tool.exit = "running"
  PROVE  Proceeds(tool, After(tool))
<1>1. tool.got.reg \in HeldRegs /\ tool.prog \in Programs
  BY DEF ToolFits, ToolStates, Founds
<1>2. CASE Step.op = "counts"
  <2>1. tool.prog # "write" /\ Step.half \in Halves
    BY <1>2, StepFits DEF ChannelStep, LastStep, ChannelPrograms
  <2>2. PICK t : t = [tool EXCEPT !.acc = tool.got.reg]
    OBVIOUS
  <2>3. PICK word \in Seq(Nat) : word = GetBytes(tool.got.reg.value, 0, 2)
    BY <1>1, HeldFits, BytesAreSequence
  <2>4. ToolFits(t) /\ SameTool(tool, t) /\ SamePlace(tool, t) /\ t.got = tool.got
    BY <1>1, <2>1, <2>2, AccFits
  <2>5. PICK u : u = Half(t, Step.half, word)
    OBVIOUS
  <2>6. ToolFits(u) /\ SameTool(t, u) /\ SamePlace(t, u) /\ u.got = t.got
    BY <2>1, <2>4, <2>5, HalfFits
  <2>7. u.exit = "running"
    BY <2>4, <2>6 DEF SamePlace
  <2>8. ToolFits(NextStep(u)) /\ SameTool(u, NextStep(u)) /\ SameData(u, NextStep(u))
    BY <2>6, <2>7, NextStepFits
  <2>9. After(tool) = NextStep(u)
    BY <1>2, <2>2, <2>3, <2>5 DEF After
  <2> QED
    BY <2>4, <2>6, <2>8, <2>9 DEF Proceeds, SameTool, SameData
<1>3. CASE Step.op = "list" /\ tool.got.name = <<>>
  <2>1. After(tool) = [tool EXCEPT !.exit = "done"]
    BY <1>3 DEF After
  <2>2. /\ ToolFits([tool EXCEPT !.exit = "done"])
        /\ SameTool(tool, [tool EXCEPT !.exit = "done"])
        /\ SameData(tool, [tool EXCEPT !.exit = "done"])
    BY Exited
  <2> QED
    BY <2>1, <2>2 DEF Proceeds, SameData
<1>4. CASE Step.op = "listed"
  <2>1. After(tool) = Printed(tool)
    BY <1>4 DEF After
  <2> QED
    BY <2>1, PrintedFits DEF Proceeds
<1>5. CASE Step.op \notin {"counts", "list", "listed"} \/ (Step.op = "list" /\ tool.got.name # <<>>)
  <2>1. After(tool) = NextStep(tool)
    BY <1>5 DEF After
  <2> QED
    BY <2>1, NextStepFits DEF Proceeds, SameData
<1> QED
  BY <1>2, <1>3, <1>4, <1>5

\* the call has returned
LEMMA GoesOnStep ==
  ASSUME ToolInv, ToolGoesOn
  PROVE  ToolInv'
<1>1. /\ frames # <<>> /\ LoopDone /\ UNCHANGED <<device, wire, truth>> /\ sync_flag
      /\ tool.exit = "running" /\ ToolFits(tool)
  BY DEF ToolGoesOn, LoopDone, ToolInv, Waiting
<1>2. SyncInv' /\ Idle' \subseteq Idle /\ Resulted'
  BY <1>1, BlockedStep, IdleShrinks DEF ToolInv
<1>3. frames' = <<>>
  <2>1. PICK c, where : frames = <<[call |-> c, at |-> where]>>
    BY <1>1 DEF ToolInv, SyncInv, OneBlocked
  <2> QED
    BY <1>1, <2>1, OneFrame DEF LoopDone
<1>4. pending' = {}
  BY <1>2, <1>3 DEF SyncInv, OneBlocked
<1>5. Proceeds(tool, tool')
  <2>1. CASE Failed(sync_return.r)
    <3>1. tool' = [tool EXCEPT !.exit = "failed"]
      BY <2>1 DEF ToolGoesOn
    <3> QED
      BY <1>1, <3>1, Exited DEF Proceeds, SameData
  <2>2. CASE ~Failed(sync_return.r)
    <3>1. tool' = After(tool)
      BY <2>2 DEF ToolGoesOn
    <3> QED
      BY <1>1, <3>1, AfterFits
  <2> QED
    BY <2>1, <2>2
<1>6. tool'.prog = tool.prog /\ tool'.got = tool.got
  BY <1>5 DEF Proceeds, SameTool
<1>7. ToolFits(tool)'
  BY <1>5 DEF Proceeds
<1>8. DeviceFits' /\ WireFits'
  BY <1>1, <1>2, <1>6, FewerMessages, DeviceKept DEF ToolInv
<1>9. Current' /\ Waiting'
  BY <1>3, <1>4 DEF Current, Waiting
<1>10. AnswerIsFaithful'
  BY <1>1, <1>6 DEF ToolInv, AnswerIsFaithful
<1> QED
  BY <1>2, <1>7, <1>8, <1>9, <1>10 DEF ToolInv

\* a step of the operator, between the calls
LEMMA OperatorStep ==
  ASSUME ToolInv, frames = <<>>, Unasked, Proceeds(tool, tool'), DeviceFits'
  PROVE  ToolInv'
<1>1. UNCHANGED <<sync_flag, sync_return, frames, pending, returned, wire, truth>>
  BY DEF Unasked, vars
<1>2. Idle' = Idle
  BY <1>1 DEF Idle, Blocked
<1>3. SyncInv'
  BY <1>1 DEF ToolInv, SyncInv, Types, OneBlocked, OwnResult
<1>4. Resulted'
  BY <1>1 DEF ToolInv, Resulted
<1>5. pending' = {}
  BY <1>1, NothingPending DEF ToolInv
<1>6. tool'.prog = tool.prog /\ tool'.got = tool.got /\ ToolFits(tool')
  BY DEF Proceeds, SameTool
<1>7. WireFits'
  BY <1>1, <1>2, <1>6, FewerMessages DEF ToolInv
<1>8. Current' /\ Waiting'
  BY <1>1, <1>5 DEF Current, Waiting
<1>9. AnswerIsFaithful'
  BY <1>1, <1>6 DEF ToolInv, AnswerIsFaithful
<1>10. ToolFits(tool)'
  BY <1>6
<1> QED
  BY <1>3, <1>4, <1>7, <1>8, <1>9, <1>10 DEF ToolInv

LEMMA OperatorProceeds ==
  ASSUME ToolInv, PromptSkipped \/ OperatorAnswers
  PROVE  Proceeds(tool, tool')
<1>1. tool.exit = "running" /\ ToolFits(tool)
  BY DEF PromptSkipped, OperatorAnswers, PromptAnswered, MeasureTyped, YesOrNo, Running, ToolInv
<1>2. Proceeds(tool, NextStep(tool))
  BY <1>1, NextStepFits DEF Proceeds, SameData
<1>3. CASE PromptSkipped
  BY <1>2, <1>3 DEF PromptSkipped
<1>4. ASSUME NEW other \in BOOLEAN, PromptAnswered(other) PROVE Proceeds(tool, tool')
  BY <1>2, <1>4 DEF PromptAnswered
<1>5. ASSUME NEW number \in BOOLEAN, MeasureTyped(number) PROVE Proceeds(tool, tool')
  <2>1. Step.op = "measure"
        /\ tool' = IF number THEN NextStep(Half(tool, Step.half, <<device.point, 0>>))
                   ELSE [tool EXCEPT !.exit = "failed"]
    BY <1>5 DEF MeasureTyped
  <2>2. CASE ~number
    BY <1>1, <2>1, <2>2, Exited DEF Proceeds, SameData
  <2>3. CASE number
    <3>1. device.point \in Nat
      BY DEF ToolInv, DeviceFits, DeviceStates
    <3>2. PICK word \in Seq(Nat) : word = <<device.point, 0>>
      <4>1. 0 \in Nat
        OBVIOUS
      <4> QED
        BY <3>1, <4>1, Sequences, Zenon
    <3>3. Step.half \in Halves
      BY <1>1, <2>1, StepFits DEF ChannelStep, LastStep
    <3>4. PICK t : t = Half(tool, Step.half, word)
      OBVIOUS
    <3>5. ToolFits(t) /\ SameTool(tool, t) /\ SamePlace(tool, t) /\ t.got = tool.got
      BY <1>1, <3>3, <3>4, HalfFits
    <3>6. ToolFits(NextStep(t)) /\ SameTool(t, NextStep(t)) /\ SameData(t, NextStep(t))
      BY <1>1, <3>5, NextStepFits DEF SamePlace
    <3> QED
      BY <2>1, <2>3, <3>2, <3>4, <3>5, <3>6 DEF Proceeds, SameTool, SameData
  <2> QED
    BY <2>2, <2>3
<1>6. ASSUME NEW c \in {0, 1}, YesOrNo(c) PROVE Proceeds(tool, tool')
  <2>1. tool' = NextStep([tool EXCEPT !.low = <<c>>])
    BY <1>6 DEF YesOrNo
  <2>2. PICK word \in Seq(Nat) : word = <<c>>
    <3>1. c \in Nat
      OBVIOUS
    <3> QED
      BY <3>1, ByteIsSequence
  <2>3. PICK t : t = [tool EXCEPT !.low = word]
    OBVIOUS
  <2>4. ToolFits(t) /\ SameTool(tool, t) /\ SamePlace(tool, t) /\ t.got = tool.got
    BY <1>1, <2>3, LowFits
  <2>5. ToolFits(NextStep(t)) /\ SameTool(t, NextStep(t)) /\ SameData(t, NextStep(t))
    BY <1>1, <2>4, NextStepFits DEF SamePlace
  <2> QED
    BY <2>1, <2>2, <2>3, <2>4, <2>5 DEF Proceeds, SameTool, SameData
<1> QED
  BY <1>3, <1>4, <1>5, <1>6 DEF OperatorAnswers

LEMMA PromptStep ==
  ASSUME ToolInv, PromptSkipped \/ OperatorAnswers
  PROVE  ToolInv'
<1>1. /\ frames = <<>> /\ Unasked /\ tool.exit = "running" /\ ToolFits(tool)
  BY DEF PromptSkipped, OperatorAnswers, PromptAnswered, MeasureTyped, YesOrNo, Running, ToolInv
<1>2. Proceeds(tool, tool')
  BY OperatorProceeds
<1>3. tool'.prog = tool.prog
  BY <1>2 DEF Proceeds, SameTool
<1>4. DeviceFits'
  <2>1. CASE device' = device
    BY <1>3, <2>1, DeviceKept DEF ToolInv
  <2>2. ASSUME NEW other \in BOOLEAN, PromptAnswered(other) PROVE DeviceFits'
    <3>1. device' = [device EXCEPT !.input[Step.ch] = Step.signal] /\ Step.op = "prompt"
      BY <2>2 DEF PromptAnswered
    <3>2. Step.ch \in Channel /\ Step.signal \in Nat
      BY <1>1, <3>1, StepFits DEF ChannelStep, LastStep
    <3>3. PICK names \in NameSets : device \in DeviceStates(names)
      BY DEF ToolInv, DeviceFits
    <3>4. device' \in DeviceStates(names) /\ device'.info = device.info
      BY <3>1, <3>2, <3>3 DEF DeviceStates
    <3> QED
      BY <1>3, <3>3, <3>4 DEF ToolInv, DeviceFits, NameSets, DeviceStates
  <2> QED
    BY <2>1, <2>2 DEF PromptSkipped, OperatorAnswers, MeasureTyped, YesOrNo
<1> QED
  BY <1>1, <1>2, <1>4, OperatorStep

\* a call of the tool
LEMMA CallingStep ==
  ASSUME ToolInv, ToolRefused \/ ToolCalls
  PROVE  ToolInv'
<1> DEFINE c == NextCall
<1>1. c \in Idle /\ frames = <<>> /\ tool.exit = "running" /\ IsCall /\ c \in Calls
  BY DEF ToolRefused, ToolCalls, Running, NextCall, Idle
<1> HIDE DEF c
<1>2. CallRefused(c) \/ CallStarted(c)
  BY DEF ToolRefused, ToolCalls, c
<1>3. SyncInv' /\ Idle' \subseteq Idle \ {c} /\ Resulted' /\ (CallStarted(c) => pending' \subseteq {c})
  BY <1>1, <1>2, CallStep, CallMade DEF ToolInv
<1>4. device' = device /\ truth' = truth
  BY DEF ToolRefused, ToolCalls
<1>5. CASE ToolRefused
  <2>1. tool' = [tool EXCEPT !.exit = "failed"] /\ wire' = wire /\ CallRefused(c)
    BY <1>5 DEF ToolRefused, c
  <2>2. frames' = frames
    BY <2>1 DEF CallRefused
  <2>3. Proceeds(tool, tool')
    BY <2>1, Exited DEF ToolInv, Proceeds, SameData
  <2>4. tool'.prog = tool.prog /\ tool'.got = tool.got /\ ToolFits(tool')
    BY <2>3 DEF Proceeds, SameTool
  <2>5. DeviceFits' /\ WireFits' /\ AnswerIsFaithful'
    BY <1>3, <1>4, <2>1, <2>4, FewerMessages, DeviceKept DEF ToolInv, AnswerIsFaithful
  <2>6. pending' = {}
    BY <1>1, <1>3, <2>2 DEF SyncInv, OneBlocked
  <2>7. Current' /\ Waiting'
    BY <1>1, <2>2, <2>6 DEF Current, Waiting
  <2>8. ToolFits(tool)'
    BY <2>4
  <2> QED
    BY <1>3, <2>5, <2>7, <2>8 DEF ToolInv
<1>6. CASE ToolCalls
  <2>1. tool' = tool /\ wire' = wire \cup {RequestOf(c)} /\ CallStarted(c) /\ ~Refused
    BY <1>6 DEF ToolCalls, c
  <2>2. /\ RequestOf(c).kind = "request" /\ RequestOf(c).call = c /\ RequestFits(RequestOf(c))
    BY <1>1, <2>1, AskedFits DEF ToolInv
  <2>3. MessageFits(RequestOf(c))
    BY <2>2 DEF MessageFits
  <2>4. WireFits'
    <3> SUFFICES ASSUME NEW m \in wire' PROVE m.call \in Calls \ Idle' /\ MessageFits(m)'
      BY DEF WireFits
    <3>1. MessageFits(m) /\ m.call \in Calls /\ m.call \notin Idle'
      BY <1>1, <1>3, <2>1, <2>2, <2>3 DEF ToolInv, WireFits
    <3> QED
      BY <2>1, <3>1, MessagesKept
  <2>5. Current'
    <3> SUFFICES ASSUME NEW m \in wire', m.call \in pending' PROVE Asked(m)'
      BY DEF Current
    <3>1. m = RequestOf(m.call)
      BY <1>1, <1>3, <2>1, <2>2 DEF ToolInv, WireFits
    <3>2. Asked(m)
      BY <3>1 DEF Asked
    <3> QED
      BY <2>1, <3>2, SameTools
  <2>6. Waiting'
    BY <1>1, <2>1, SameTools DEF Waiting
  <2>7. DeviceFits' /\ AnswerIsFaithful' /\ ToolFits(tool)'
    BY <1>4, <2>1, DeviceKept DEF ToolInv, AnswerIsFaithful
  <2> QED
    BY <1>3, <2>4, <2>5, <2>6, <2>7 DEF ToolInv
<1> QED
  BY <1>5, <1>6

LEMMA ByteFits ==
  ASSUME NEW p \in Seq(Nat), NEW k \in Nat
  PROVE  GetU8(p, k) \in Nat
<1>1. GetBytes(p, k, 1) \in Seq(Nat) /\ Len(GetBytes(p, k, 1)) = 1
  BY BytesAreSequence
<1> QED
  BY <1>1, ElementOfSeq DEF GetU8

LEMMA CountsFit ==
  ASSUME NEW a \in Nat, NEW b \in Nat
  PROVE  Uint16(<<a, b>>) \in HeldRegs
<1>1. PICK v \in Seq(Nat) : v = <<a, b>> /\ Len(v) = 2
  <2>1. <<a, b>> \in Seq(Nat) /\ Len(<<a, b>>) = 2
    OBVIOUS
  <2> QED
    BY <2>1
<1>2. PICK reg : reg = Uint16(v) /\ reg = [type |-> UINT16, length |-> 1, value |-> v]
  <2>1. Len(v) \div 2 = 1
    BY <1>1
  <2> QED
    BY <2>1 DEF Uint16
<1>3. UINT16 \in 1..FLOAT16 /\ 1 \in Words
  BY SmallWords DEF UINT16, FLOAT16
<1>4. BitWidth(UINT16) = 16 /\ MaxLength(UINT16) = 128
  BY SMT DEF MaxLength, BitWidth, BIT_WIDTHS, UINT16
<1>5. RegisterBytes(reg) = 2
  BY <1>2, <1>4 DEF RegisterBytes
<1>6. reg \in Register
  BY <1>2, <1>3 DEF Register
<1>7. WellFormed(reg)
  BY <1>1, <1>2, <1>4, <1>5, <1>6 DEF WellFormed
<1> QED
  BY <1>1, <1>2, <1>6, <1>7 DEF HeldRegs

LEMMA ListedFits ==
  ASSUME NEW i \in DOMAIN Registers
  PROVE  /\ Registers[i].name \in Seq(Nat) /\ Len(Registers[i].name) \in 1..NAME_MAX
         /\ Registers[i].name \notin ChannelNames
         /\ Registers[i].reg \in HeldRegs /\ WellFormed(Registers[i].reg)
<1>1. Registers[i] \in [name : Seq(Nat), reg : Register]
  <2>1. Registers \in Seq([name : Seq(Nat), reg : Register])
    BY RegistersAssumption
  <2>2. i \in 1..Len(Registers)
    BY <2>1
  <2> QED
    BY <2>1, <2>2, ElementOfSeq
<1>2. Registers[i].name \in Seq(Nat) /\ Registers[i].reg \in Register
  BY <1>1
<1> QED
  BY <1>2, RegistersAssumption DEF HeldRegs

LEMMA RegisterOfFits ==
  ASSUME DeviceFits, NEW name
  PROVE  RegisterOf(name) \in HeldRegs
<1>1. PICK names \in NameSets : device \in DeviceStates(names)
  BY DEF DeviceFits
<1>2. device.ram \in [names -> HeldRegs] /\ device.input \in [Channel -> Nat]
  BY <1>1 DEF DeviceStates
<1>3. CASE name \notin names
  BY <1>2, <1>3 DEF RegisterOf, HeldRegs
<1>4. CASE name \in names /\ name \notin (1..Channels) \X {COUNTS}
  BY <1>2, <1>4 DEF RegisterOf
<1>5. CASE name \in names /\ name \in (1..Channels) \X {COUNTS}
  <2>1. PICK ch \in Channel : name = <<ch, COUNTS>> /\ name[1] = ch
    BY <1>5 DEF Channel
  <2>2. name \in ChannelNames /\ <<ch, MODE>> \in ChannelNames /\ <<ch, MODE>> # <<Channels, CAL>>
    BY <2>1 DEF ChannelNames, Channel, MODE, COUNTS, CAL, SINK
  <2>3. names # Listed
    BY <1>5, <2>2, ListedFits DEF Listed
  <2>4. <<ch, MODE>> \in names
    BY <2>2, <2>3 DEF NameSets
  <2>5. device.ram[<<ch, MODE>>].value \in Seq(Nat)
    BY <1>2, <2>4, HeldFits
  <2>6. GetU8(device.ram[<<ch, MODE>>].value, 0) \in Nat /\ device.input[ch] \in Nat
    BY <1>2, <2>5, ByteFits
  <2>7. RegisterOf(name) = Uint16(<<device.input[ch], GetU8(device.ram[<<ch, MODE>>].value, 0)>>)
    BY <1>2, <1>5, <2>1 DEF RegisterOf
  <2> QED
    BY <2>6, <2>7, CountsFit
<1> QED
  BY <1>3, <1>4, <1>5

\* a request that is answered; what the node does leaves its registers well-formed, and the answer
\* is about the step the request was about
Handled(m, payload, fact) ==
  /\ Reply(m, payload, fact)
  /\ DeviceFits'
  /\ AnswerFits([kind |-> "answer", call |-> m.call, port |-> m.port, payload |-> payload,
                 truth |-> fact])
  /\ m.call \in pending /\ m = RequestOf(m.call) /\ Step.op = "write" /\ WholeBytes(Regw)
       => fact \in {FoundReg(Regw), Found}

LEMMA HandledStep ==
  ASSUME ToolInv, NEW m \in wire, NEW payload, NEW fact, m.kind = "request",
         Handled(m, payload, fact), UNCHANGED <<vars, tool, stdin, truth, mishaps>>
  PROVE  ToolInv'
<1> DEFINE answer == [kind |-> "answer", call |-> m.call, port |-> m.port, payload |-> payload,
                      truth |-> fact]
<1>1. /\ wire' = (wire \ {m}) \cup {answer} /\ AnswerFits(answer) /\ DeviceFits'
      /\ m.call \in pending /\ m = RequestOf(m.call) /\ Step.op = "write" /\ WholeBytes(Regw)
           => answer.truth \in {FoundReg(Regw), Found}
      /\ answer.kind = "answer" /\ answer.call = m.call /\ answer.port = m.port
  BY DEF Handled, Reply
<1> HIDE DEF answer
<1>2. UNCHANGED <<sync_flag, sync_return, frames, pending, returned, tool, truth>>
  BY DEF vars
<1>3. SyncInv' /\ Resulted' /\ Idle' = Idle
  BY <1>2 DEF ToolInv, SyncInv, Types, OneBlocked, OwnResult, Resulted, Idle, Blocked
<1>4. ToolFits(tool)' /\ AnswerIsFaithful'
  BY <1>2 DEF ToolInv, AnswerIsFaithful
<1>5. Waiting'
  BY <1>2, SameTools DEF ToolInv, Waiting
<1>6. WireFits'
  <2> SUFFICES ASSUME NEW n \in wire' PROVE n.call \in Calls \ Idle' /\ MessageFits(n)'
    BY DEF WireFits
  <2>1. n.call \in Calls \ Idle /\ MessageFits(n)
    BY <1>1 DEF ToolInv, WireFits, MessageFits
  <2> QED
    BY <1>2, <1>3, <2>1, MessagesKept
<1>7. Current'
  <2> SUFFICES ASSUME NEW n \in wire', n.call \in pending' PROVE Asked(n)'
    BY DEF Current
  <2>1. CASE n \in wire
    BY <1>2, <2>1, SameTools DEF ToolInv, Current
  <2>2. CASE n = answer
    <3>1. Asked(m)
      BY <1>1, <1>2, <2>2 DEF ToolInv, Current
    <3>2. m = RequestOf(m.call)
      BY <3>1 DEF Asked
    <3>3. Asked(answer)
      BY <1>1, <1>2, <2>2, <3>2 DEF Asked
    <3> QED
      BY <1>2, <2>2, <3>3, SameTools
  <2> QED
    BY <1>1, <2>1, <2>2
<1> QED
  BY <1>1, <1>3, <1>4, <1>5, <1>6, <1>7 DEF ToolInv

\* the registers of a node after an access
LEMMA Access ==
  ASSUME ToolInv, NEW m \in wire, m.kind = "request", NodeAccesses(m), UNCHANGED tool
  PROVE  \E payload, fact : Handled(m, payload, fact)
<1> DEFINE a    == NodeReadsAccess(m.payload)
           here == a.name \in DOMAIN device.ram
           new  == IF a.reg.type = EMPTY \/ ~here THEN RegisterOf(a.name) ELSE a.reg
<1>1. m.port = ACCESS /\ Reply(m, NodeAnswersAccess(new), FoundReg(new))
      /\ device' = IF here THEN [device EXCEPT !.ram[a.name] = new] ELSE device
  BY DEF NodeAccesses
<1>2. PICK name \in Names : \E reg : Sendable(reg) /\ m.payload = AccessRequest(name, reg)
  BY <1>1, Ports DEF ToolInv, WireFits, MessageFits, RequestFits
<1>3. PICK reg : Sendable(reg) /\ m.payload = AccessRequest(name, reg)
  BY <1>2
<1>4. a.reg.type # EMPTY => WellFormed(a.reg)
  <2>1. CASE reg.type = EMPTY
    BY <1>3, <2>1, NodeReadsNothing
  <2>2. CASE reg.type # EMPTY
    BY <1>3, <2>2, NodeReadsWritten
  <2> QED
    BY <2>1, <2>2
<1>5. RegisterOf(a.name) \in HeldRegs
  BY RegisterOfFits DEF ToolInv
<1>6. new \in HeldRegs
  BY <1>4, <1>5 DEF HeldRegs, WellFormed
<1>7. PICK names \in NameSets : device \in DeviceStates(names)
  BY DEF ToolInv, DeviceFits
<1>8. m.call \in pending /\ m = RequestOf(m.call) /\ Step.op = "write" /\ WholeBytes(Regw)
        => new \in {Regw, NullReg}
  <2> SUFFICES ASSUME m.call \in pending, m = RequestOf(m.call), Step.op = "write",
                      WholeBytes(Regw)
               PROVE  new \in {Regw, NullReg}
    OBVIOUS
  <2>1. m.payload = AccessRequest(Name, Regw) /\ Name \in Names
    BY NameFits DEF ToolInv, RequestOf, Accesses
  <2>2. WellFormed(Regw)
    <3>1. tool.prog = "write"
      BY StepFits DEF ToolInv, ChannelStep, Ends
    <3>2. tool.acc \in Written /\ Regw = tool.acc
      BY <3>1 DEF ToolInv, ToolFits, Regw
    <3>3. Valid(Regw)
      <4>1. ~Refused
        BY NothingPending DEF ToolInv, Waiting
      <4> QED
        BY <4>1 DEF Refused, Accesses
    <3> QED
      BY <3>2, <3>3, WrittenAssumption
  <2>3. a = [name |-> Name, reg |-> Regw]
    BY <2>1, <2>2, AccessRead
  <2>4. Regw.type # EMPTY
    BY <2>2, Fits
  <2>5. ~here => RegisterOf(a.name) = NullReg
    BY DEF RegisterOf
  <2> QED
    BY <2>3, <2>4, <2>5
<1> HIDE DEF new
<1>9. DeviceFits'
  <2>1. CASE here
    <3>1. device' = [device EXCEPT !.ram[a.name] = new]
      BY <1>1, <2>1
    <3> HIDE DEF a
    <3>2. device.ram \in [names -> HeldRegs] /\ a.name \in names
      BY <1>7, <2>1 DEF DeviceStates
    <3>3. [device.ram EXCEPT ![a.name] = new] \in [names -> HeldRegs]
      BY <1>6, <3>2
    <3>4. device' = [device EXCEPT !.ram = [device.ram EXCEPT ![a.name] = new]]
      BY <3>1
    <3>5. device' \in DeviceStates(names) /\ device'.info = device.info
      BY <1>7, <3>3, <3>4 DEF DeviceStates
    <3> QED
      BY <1>7, <3>5 DEF ToolInv, DeviceFits, NameSets, DeviceStates
  <2>2. CASE ~here
    BY <1>1, <2>2, DeviceKept DEF ToolInv
  <2> QED
    BY <2>1, <2>2
<1>10. AnswerFits([kind |-> "answer", call |-> m.call, port |-> m.port,
                   payload |-> NodeAnswersAccess(new), truth |-> FoundReg(new)])
  BY <1>1, <1>6 DEF AnswerFits
<1>11. FoundReg(NullReg) = Found
  BY FoundFits
<1> QED
  BY <1>1, <1>8, <1>9, <1>10, <1>11 DEF Handled

LEMMA DevicesFit ==
  ASSUME NEW names \in NameSets, device' \in DeviceStates(names), device'.info = device.info,
         DeviceFits, tool' = tool
  PROVE  DeviceFits'
BY DEF DeviceFits, NameSets, DeviceStates

\* a command does to the registers what it is told, and keeps them well-formed
LEMMA CommandFits ==
  ASSUME NEW names \in NameSets, device \in DeviceStates(names), NEW number, NEW param,
         Numbered(number, param)
  PROVE  /\ Commanded(number, param) \in DeviceStates(names)
         /\ Commanded(number, param).info = device.info
<1> DEFINE after == Commanded(number, param)
<1>1. device.ram \in [names -> HeldRegs] /\ device.eeprom \in [names -> HeldRegs]
  BY DEF DeviceStates
<1>2. CASE number = STORE
  <2>1. after = [device EXCEPT !.eeprom = device.ram]
    BY <1>2, Numbers, Zenon DEF Commanded
  <2> QED
    BY <1>1, <2>1 DEF DeviceStates
<1>3. CASE number = FACTORY_RESET
  <2>1. [n \in DOMAIN device.eeprom |-> NullReg] \in [names -> HeldRegs]
    BY <1>1 DEF HeldRegs
  <2>2. PICK empty \in [names -> HeldRegs] : empty = [n \in DOMAIN device.eeprom |-> NullReg]
    BY <2>1
  <2>3. after = [device EXCEPT !.eeprom = empty]
    BY <1>3, <2>2, Numbers DEF Commanded, DeviceStates
  <2> QED
    BY <2>3 DEF DeviceStates
<1>4. CASE number = RESTART
  <2>1. after = [device EXCEPT !.ram = device.eeprom]
    BY <1>4, Numbers DEF Commanded
  <2> QED
    BY <1>1, <2>1 DEF DeviceStates
<1>5. CASE number = TEST_POINT
  <2>1. PICK p \in Nat : param = <<p>> /\ param[1] = p
    BY <1>5, Numbers DEF Numbered
  <2>2. after = [device EXCEPT !.point = p]
    BY <1>5, <2>1, Numbers DEF Commanded
  <2> QED
    BY <2>2 DEF DeviceStates
<1> QED
  BY <1>2, <1>3, <1>4, <1>5 DEF Numbered

\* and reads it as it was sent
LEMMA CommandArrives ==
  ASSUME NEW number, NEW param, Numbered(number, param)
  PROVE  LET p == CommandRequest(number, param)
         IN  GetU16(p, 0, 2) = number /\ SubSeq(p, 4, Len(p)) = param
<1>1. number \in Words
  BY Numbers DEF Numbered
<1>2. param \in Seq(Nat) /\ Len(param) <= 1
  <2>1. CASE param = <<>>
    BY <2>1, NoBytes
  <2>2. ASSUME NEW p \in Nat, param = <<p>> PROVE param \in Seq(Nat) /\ Len(param) <= 1
    BY <2>2, ByteIsSequence
  <2> QED
    BY <2>1, <2>2 DEF Numbered
<1> QED
  BY <1>1, <1>2, CommandRead

LEMMA NodeStep ==
  ASSUME ToolInv, NEW m \in wire, NodeHandles(m)
  PROVE  ToolInv'
<1>1. m.kind = "request" /\ UNCHANGED <<vars, tool, stdin, truth, mishaps>>
  BY DEF NodeHandles
<1>2. RequestFits(m)
  BY <1>1 DEF ToolInv, WireFits, MessageFits
<1>3. m.port # ACCESS => ~(m = RequestOf(m.call) /\ Step.op = "write")
  BY DEF RequestOf, Accesses
<1>4. CASE NodeAccesses(m)
  <2>1. PICK payload, fact : Handled(m, payload, fact)
    BY <1>1, <1>4, Access
  <2> QED
    BY <1>1, <2>1, HandledStep
<1>5. CASE NodeLists(m)
  <2>1. m.port = LIST /\ UNCHANGED device
    BY <1>5 DEF NodeLists
  <2>2. PICK name : /\ Reply(m, NodeAnswersList(name), FoundName(name))
                    /\ name = <<>> \/ \E i \in DOMAIN Registers : name = Registers[i].name
    BY <1>5 DEF NodeLists
  <2>3. name \in Names
    <3>1. <<>> \in Seq(Nat) /\ Len(<<>>) <= NAME_MAX
      BY DEF NAME_MAX
    <3>2. \A n \in 1..NAME_MAX : n <= NAME_MAX
      OBVIOUS
    <3> QED
      BY <2>2, <3>1, <3>2, ListedFits DEF Names
  <2>4. DeviceFits'
    BY <1>1, <2>1, DeviceKept DEF ToolInv
  <2>5. Handled(m, NodeAnswersList(name), FoundName(name))
    BY <1>3, <2>1, <2>2, <2>3, <2>4, Ports DEF Handled, AnswerFits
  <2> QED
    BY <1>1, <2>5, HandledStep
<1>6. CASE NodeInforms(m)
  <2>1. /\ m.port = INFO /\ UNCHANGED device
        /\ Reply(m, NodeAnswersInfo(device.info), FoundInfo(InfoAsStructure(device.info)))
    BY <1>6 DEF NodeInforms
  <2>2. device.info \in Infos
    BY <1>2, <2>1, Ports DEF RequestFits, ToolInv, DeviceFits
  <2>3. DeviceFits'
    BY <1>1, <2>1, DeviceKept DEF ToolInv
  <2>4. Handled(m, NodeAnswersInfo(device.info), FoundInfo(InfoAsStructure(device.info)))
    BY <1>3, <2>1, <2>2, <2>3, Ports DEF Handled, AnswerFits
  <2> QED
    BY <1>1, <2>4, HandledStep
<1>7. ASSUME NEW status \in {0, 1}, NodeObeys(m, status) PROVE ToolInv'
  <2>1. m.port = COMMAND /\ Reply(m, <<status>>, Found)
    BY <1>7 DEF NodeObeys
  <2>2. PICK number, param : Numbered(number, param) /\ m.payload = CommandRequest(number, param)
    BY <1>2, <2>1, Ports DEF RequestFits
  <2>3. device' = IF status = 0 THEN Commanded(number, param) ELSE device
    BY <1>7, <2>2, CommandArrives DEF NodeObeys
  <2>4. PICK names \in NameSets : device \in DeviceStates(names)
    BY DEF ToolInv, DeviceFits
  <2>5. device' \in DeviceStates(names) /\ device'.info = device.info
    BY <2>2, <2>3, <2>4, CommandFits
  <2>6. DeviceFits'
    BY <1>1, <2>4, <2>5, DevicesFit DEF ToolInv
  <2>7. Handled(m, <<status>>, Found)
    BY <1>3, <2>1, <2>6, Ports DEF Handled, AnswerFits
  <2> QED
    BY <1>1, <2>7, HandledStep
<1> QED
  BY <1>4, <1>5, <1>6, <1>7 DEF NodeHandles

LEMMA ToolStep == ToolInv /\ [ToolNext]_allVars => ToolInv'
<1> SUFFICES ASSUME ToolInv, [ToolNext]_allVars PROVE ToolInv'
  OBVIOUS
<1>1. CASE UNCHANGED allVars
  <2>1. UNCHANGED <<sync_flag, sync_return, frames, pending, returned, tool, device, wire, truth>>
    BY <1>1 DEF allVars, vars, toolVars
  <2>2. SyncInv' /\ Resulted' /\ Idle' = Idle
    BY <2>1 DEF ToolInv, SyncInv, Types, OneBlocked, OwnResult, Resulted, Idle, Blocked
  <2>3. ToolFits(tool)' /\ AnswerIsFaithful' /\ DeviceFits'
    BY <2>1, DeviceKept DEF ToolInv, AnswerIsFaithful
  <2>4. WireFits'
    BY <2>1, <2>2, FewerMessages DEF ToolInv
  <2>5. Current'
    BY <2>1, SameTools DEF ToolInv, Current
  <2>6. Waiting'
    BY <2>1, SameTools DEF ToolInv, Waiting
  <2> QED
    BY <2>2, <2>3, <2>4, <2>5, <2>6 DEF ToolInv
<1>2. CASE ToolRefused \/ ToolCalls
  BY <1>2, CallingStep
<1>3. CASE ToolWaits \/ \E c \in Calls : TimedOut(c)
  BY <1>3, WaitStep
<1>4. CASE \E m \in wire : Answered(m)
  BY <1>4, AnsweredStep
<1>5. CASE ToolGoesOn
  BY <1>5, GoesOnStep
<1>6. CASE PromptSkipped \/ OperatorAnswers
  BY <1>6, PromptStep
<1>7. CASE \E m \in wire : NodeHandles(m)
  BY <1>7, NodeStep
<1> QED
  BY <1>1, <1>2, <1>3, <1>4, <1>5, <1>6, <1>7 DEF ToolNext

LEMMA ByteRegisterFits ==
  ASSUME NEW b \in Nat
  PROVE  Uint8(b) \in HeldRegs
<1>1. PICK v \in Seq(Nat) : v = <<b>> /\ Len(v) = 1
  BY ByteIsSequence
<1>2. PICK reg : reg = Uint8(b) /\ reg = [type |-> UINT8, length |-> 1, value |-> v]
  BY <1>1 DEF Uint8
<1>3. UINT8 \in 1..FLOAT16 /\ 1 \in Words
  BY SmallWords DEF UINT8, FLOAT16
<1>4. BitWidth(UINT8) = 8 /\ MaxLength(UINT8) = 256
  BY SMT DEF MaxLength, BitWidth, BIT_WIDTHS, UINT8
<1>5. RegisterBytes(reg) = 1
  BY <1>2, <1>4 DEF RegisterBytes
<1>6. reg \in Register
  BY <1>2, <1>3 DEF Register
<1>7. WellFormed(reg)
  BY <1>1, <1>2, <1>4, <1>5, <1>6 DEF WellFormed
<1> QED
  BY <1>2, <1>6, <1>7 DEF HeldRegs

\* what regtool finds of a node, by name
LEMMA ListedMemory ==
  ASSUME NEW names, NEW i \in DOMAIN Registers, Registers[i].name \in names
  PROVE  Memory(names)[Registers[i].name] = Registers[i].reg
<1> DEFINE n == Registers[i].name
           e == CHOOSE e \in ToSet(Registers) : e.name = n
<1>1. Registers[i] \in ToSet(Registers)
  BY DEF ToSet
<1>2. e \in ToSet(Registers) /\ e.name = n
  BY <1>1
<1>3. PICK j \in DOMAIN Registers : e = Registers[j]
  BY <1>2 DEF ToSet
<1>4. j = i
  BY <1>2, <1>3, RegistersAssumption
<1>5. n \in Listed
  BY DEF Listed
<1> QED
  BY <1>3, <1>4, <1>5 DEF Memory

LEMMA MemoryFits ==
  ASSUME NEW names
  PROVE  Memory(names) \in [names -> HeldRegs]
<1>1. ASSUME NEW n \in names, n \in Listed PROVE Memory(names)[n] \in HeldRegs
  <2>1. PICK i \in DOMAIN Registers : n = Registers[i].name
    BY <1>1 DEF Listed
  <2> QED
    BY <2>1, ListedMemory, ListedFits
<1>2. ASSUME NEW n \in names, n \notin Listed PROVE Memory(names)[n] \in HeldRegs
  BY <1>2, ByteRegisterFits DEF Memory, Old
<1>3. Memory(names) = [n \in names |-> Memory(names)[n]]
  BY DEF Memory
<1> QED
  BY <1>1, <1>2, <1>3

LEMMA ToolStart == ToolInit => ToolInv
<1> SUFFICES ASSUME ToolInit PROVE ToolInv
  OBVIOUS
<1>1. Init /\ frames = <<>> /\ pending = {} /\ wire = {} /\ truth = Found
  BY DEF ToolInit, Init
<1>2. Resulted
  <2>1. sync_return.of = {0}
    BY <1>1 DEF Init, Result
  <2>2. sync_return.of # {}
    BY <2>1
  <2> QED
    BY <2>2 DEF Resulted, Nothing
<1> DEFINE Begins(prog, id, acc) ==
      tool = [prog |-> prog, id |-> id, ch |-> FirstChannel(prog), pc |-> 1, exit |-> "running",
              acc |-> acc, low |-> <<>>, high |-> <<>>, index |-> 0, got |-> Found,
              printed |-> <<>>]
<1>3. PICK prog \in Programs, id \in NodeIds :
        \E acc \in IF prog = "write" THEN Written ELSE {NullReg} : Begins(prog, id, acc)
  BY DEF ToolInit
<1>4. PICK acc \in IF prog = "write" THEN Written ELSE {NullReg} : Begins(prog, id, acc)
  BY <1>3
<1>5. ToolFits(tool)
  <2>1. acc \in IF prog = "write" THEN Written ELSE HeldRegs
    BY DEF HeldRegs
  <2>2. Found \in Founds /\ 0 \in Words /\ <<>> \in Seq(Nat) /\ <<>> \in Seq(HeldRegs)
    BY FoundFits, SmallWords
  <2>3. 1 \in 1..Len(StepsAt(prog, FirstChannel(prog))) /\ FirstChannel(prog) \in 1..(Channels + 1)
    BY FirstBlock
  <2>4. acc \in HeldRegs \cup Written
    BY <2>1
  <2>5. tool \in ToolStates
    BY <1>4, <2>2, <2>3, <2>4 DEF ToolStates
  <2> QED
    BY <1>4, <2>1, <2>3, <2>5 DEF ToolFits, AtStep
<1>6. DeviceFits
  <2>1. PICK ram \in Memories(tool.prog), info \in IF tool.prog = "infodump" THEN Infos ELSE {NoInfo} :
          device = [ram |-> ram, eeprom |-> ram, input |-> [ch \in 1..Channels |-> 0], point |-> 0,
                    info |-> info]
    BY DEF ToolInit
  <2>2. PICK names \in NameSets : ram = Memory(names)
    BY DEF Memories, NameSets
  <2>3. ram \in [names -> HeldRegs]
    BY <2>2, MemoryFits
  <2>4. device \in DeviceStates(names)
    BY <2>1, <2>3 DEF DeviceStates, Channel
  <2>5. tool.prog = "infodump" => device.info \in Infos
    BY <2>1
  <2> QED
    BY <2>4, <2>5 DEF DeviceFits
<1>7. WireFits /\ Current /\ Waiting
  BY <1>1 DEF WireFits, Current, Waiting
<1>8. AnswerIsFaithful
  BY <1>1, <1>4 DEF AnswerIsFaithful
<1> QED
  BY <1>1, <1>2, <1>5, <1>6, <1>7, <1>8, SyncInit DEF ToolInv

(***************************************************************************)
(* AnswerIsFaithful, for every tool, node and number of calls: a call that *)
(* succeeded has left in the structure of its caller (regtool.c,           *)
(* infodump.c) what the node had when it answered, not a byte of an        *)
(* earlier call, and a register that was written is in the node as it was  *)
(* in the tool.                                                            *)
(***************************************************************************)
THEOREM AnswersAreFaithful == ToolSpec => []AnswerIsFaithful
<1>1. ToolInv => AnswerIsFaithful
  BY DEF ToolInv
<1> QED
  BY ToolStart, ToolStep, <1>1, PTL DEF ToolSpec

(***************************************************************************)
(* OwnResult and NothingLeftBehind of SyncApi hold of every tool: a tool   *)
(* calls one function after the other and passes callbacks of the library  *)
(* only (wlmio_..._sync in wlmio.c), so no call of it ever gets the result *)
(* of another, and none is still under way when the next one begins.       *)
(***************************************************************************)
THEOREM ToolsReturnTheirOwn == ToolSpec => [](OwnResult /\ NothingLeftBehind)
<1>1. ToolInv => OwnResult /\ NothingLeftBehind
  <2> SUFFICES ASSUME ToolInv PROVE OwnResult /\ NothingLeftBehind
    OBVIOUS
  <2>1. OwnResult
    BY DEF ToolInv, SyncInv
  <2>2. ASSUME NEW c \in pending PROVE c \in Blocked
    <3>1. PICK d, where : frames = <<[call |-> d, at |-> where]>> /\ pending \subseteq {d}
      BY <2>2 DEF ToolInv, SyncInv, OneBlocked
    <3> QED
      BY <3>1, OneFrame
  <2> QED
    BY <2>1, <2>2 DEF NothingLeftBehind
<1> QED
  BY ToolStart, ToolStep, <1>1, PTL DEF ToolSpec

-----------------------------------------------------------------------------
(***************************************************************************)
(* A dump of regtool: the index counts the registers that were printed,    *)
(* what was found last is what the node has at that index, and no request  *)
(* of an earlier call changes a register.                                  *)
(***************************************************************************)
Dumps == tool.prog = "regtool_dump"

NameAt(i) == IF i + 1 \in DOMAIN Registers THEN Registers[i + 1].name ELSE <<>>

\* the node keeps what it has
OnlyRead ==
  /\ device.ram = Memory(Listed)
  /\ \A m \in wire : m.kind = "request" =>
       /\ m.port # COMMAND
       /\ m.port = ACCESS => \E name \in Names : m.payload = AccessRequest(name, NullReg)

PrintedSoFar ==
  /\ tool.ch = Channels + 1
  /\ tool.printed = [i \in 1..Len(tool.printed) |-> Registers[i].reg]
  /\ tool.exit = "done" => Len(tool.printed) = Len(Registers)
  /\ tool.exit = "running" => /\ tool.index = Len(tool.printed)
                              /\ tool.index <= Len(Registers)
                              /\ tool.pc = 2 => tool.index + 1 \in DOMAIN Registers

\* the call has not called back yet, or is still to be made
Unanswered == frames = <<>> \/ ~sync_flag
Succeeded  == frames # <<>> /\ sync_flag /\ sync_return.r = "0"

\* the name is used for the next request, and the register is printed
GotSoFar ==
  tool.exit = "running" =>
    /\ tool.pc = 1 /\ Succeeded => tool.got.name = NameAt(tool.index)
    /\ tool.pc = 2 /\ Unanswered => tool.got.name = NameAt(tool.index)
    /\ tool.pc = 2 /\ Succeeded => tool.got.reg = Registers[tool.index + 1].reg

NextFound(m) ==
  m.truth = IF tool.pc = 1 THEN FoundName(NameAt(tool.index))
            ELSE FoundReg(Registers[tool.index + 1].reg)

AnsweredSoFar == \A m \in wire : m.kind = "answer" /\ m.call \in pending => NextFound(m)

DumpInv == Dumps => OnlyRead /\ PrintedSoFar /\ GotSoFar /\ AnsweredSoFar

LEMMA DumpSteps ==
  ASSUME ToolFits(tool), Dumps, tool.ch = Channels + 1
  PROVE  /\ (tool.pc = 1 /\ Step.op = "list") \/ (tool.pc = 2 /\ Step.op = "listed")
         /\ Len(StepsAt(tool.prog, tool.ch)) = 2
         /\ Step.op # "command" /\ Regw = NullReg
         /\ \A r : Failed(r) <=> r # "0"
<1>1. StepsAt(tool.prog, tool.ch) = <<[op |-> "list"], [op |-> "listed"]>>
  BY ChannelsAssumption DEF StepsAt, LastSteps, Dumps
<1>2. tool.pc \in 1..Len(StepsAt(tool.prog, tool.ch))
  BY DEF ToolFits, AtStep
<1>3. (tool.pc = 1 /\ Step.op = "list") \/ (tool.pc = 2 /\ Step.op = "listed")
  <2>1. PICK s : s = StepsAt(tool.prog, tool.ch)
    OBVIOUS
  <2>2. Len(s) = 2 /\ s[1].op = "list" /\ s[2].op = "listed"
    BY <1>1, <2>1
  <2>3. tool.pc = 1 \/ tool.pc = 2
    <3>1. Len(StepsAt(tool.prog, tool.ch)) = 2
      BY <2>1, <2>2
    <3>2. tool.pc \in 1..2
      BY <1>2, <3>1
    <3> QED
      BY <3>2
  <2> QED
    BY <2>1, <2>2, <2>3 DEF Step
<1> QED
  BY <1>1, <1>3 DEF Regw, Failed

\* what can be asked for and answered stays, and the tool stays where it is
LEMMA DumpKept ==
  ASSUME ToolInv, DumpInv, Dumps, tool' = tool, device' = device,
         \A m \in wire' : m \in wire,
         pending' \subseteq pending,
         Unanswered' => Unanswered, Succeeded' => Succeeded
  PROVE  DumpInv'
<1>1. Dumps' /\ OnlyRead' /\ PrintedSoFar'
  BY DEF DumpInv, Dumps, OnlyRead, PrintedSoFar, Memory, Listed
<1>2. GotSoFar'
  BY DEF DumpInv, GotSoFar, NameAt
<1>3. AnsweredSoFar'
  BY DEF DumpInv, AnsweredSoFar, NextFound, NameAt
<1> QED
  BY <1>1, <1>2, <1>3 DEF DumpInv

\* the tool takes an answer, or waits for it in vain
LEMMA DumpAnswered ==
  ASSUME ToolInv, DumpInv, Dumps, NEW m \in wire, Answered(m)
  PROVE  DumpInv'
<1>1. /\ m.kind = "answer" /\ m.call \in pending /\ frames # <<>> /\ frames' = frames
      /\ sync_flag' /\ device' = device /\ wire' = wire \ {m}
      /\ sync_return'.r = Decoded(m).r /\ tool' = [tool EXCEPT !.got = Decoded(m).got]
  BY DEF Answered, SyncCallback
<1>2. ToolInv'
  BY AnsweredStep
<1>3. pending' = {}
  BY <1>1, <1>2 DEF ToolInv, SyncInv, OneBlocked
<1>4. DecodedRight(m, Decoded(m))
  BY <1>1, AnswerDecoded DEF ToolInv, WireFits, MessageFits
<1>5. PICK d : d = Decoded(m)
  OBVIOUS
<1>6. /\ ToolFits(tool) /\ SameTool(tool, tool') /\ SamePlace(tool, tool') /\ tool'.got = d.got
      /\ tool'.printed = tool.printed /\ tool'.index = tool.index
  BY <1>1, <1>4, <1>5, GotFits DEF ToolInv, DecodedRight
<1>7. OnlyRead' /\ PrintedSoFar' /\ Dumps'
  BY <1>1, <1>6 DEF DumpInv, OnlyRead, PrintedSoFar, SamePlace, SameTool, Dumps, Memory, Listed
<1>8. AnsweredSoFar'
  BY <1>3 DEF AnsweredSoFar
<1>9. ASSUME d.r = "0" PROVE d.got = m.truth /\ NextFound(m)
  <2>1. (tool.pc = 1 /\ Step.op = "list") \/ (tool.pc = 2 /\ Step.op = "listed")
    BY <1>6, DumpSteps DEF DumpInv, PrintedSoFar
  <2>2. Asked(m) /\ RequestOf(m.call).kind = "request"
    BY <1>1 DEF ToolInv, Current, RequestOf
  <2>3. m.port = RequestOf(m.call).port
    BY <1>1, <2>2 DEF Asked
  <2>4. m.port # COMMAND /\ (m.port = ACCESS => HasRegr)
    BY <2>1, <2>3, Ports DEF RequestOf, Accesses, HasRegr
  <2> QED
    BY <1>1, <1>4, <1>5, <1>9, <2>4 DEF DecodedRight, DumpInv, AnsweredSoFar
<1>10. GotSoFar'
  <2>1. NameAt(tool.index) \in Names
    <3>1. <<>> \in Names
      BY NoBytes, SMT DEF Names, NAME_MAX
    <3>2. \A i \in DOMAIN Registers : Registers[i].name \in Names
      BY ListedFits, ShortName
    <3> QED
      BY <3>1, <3>2 DEF NameAt
  <2>2. FoundName(NameAt(tool.index)).name = NameAt(tool.index)
    BY <2>1, FoundFits
  <2>3. tool.exit = "running" /\ tool.pc = 2 =>
          FoundReg(Registers[tool.index + 1].reg).reg = Registers[tool.index + 1].reg
    BY ListedFits, FoundFits DEF DumpInv, PrintedSoFar
  <2>4. ~Unanswered'
    BY <1>1 DEF Unanswered
  <2>5. Succeeded' => d.r = "0"
    BY <1>1, <1>5 DEF Succeeded
  <2>6. tool'.pc = tool.pc /\ tool'.exit = tool.exit /\ NameAt(tool.index)' = NameAt(tool.index)
    BY <1>6 DEF SamePlace, NameAt
  <2> QED
    BY <1>6, <1>9, <2>2, <2>3, <2>4, <2>5, <2>6 DEF GotSoFar, NextFound
<1> QED
  BY <1>7, <1>8, <1>10 DEF DumpInv

\* the names a list may end with
LEMMA NameEnds ==
  ASSUME NEW i \in Nat, i <= Len(Registers)
  PROVE  /\ NameAt(i) = <<>> => i = Len(Registers)
         /\ NameAt(i) # <<>> => i + 1 \in DOMAIN Registers
<1>1. Len(Registers) \in Nat /\ DOMAIN Registers = 1..Len(Registers)
  <2>1. Registers \in Seq([name : Seq(Nat), reg : Register])
    BY RegistersAssumption
  <2> QED
    BY <2>1
<1>2. ASSUME i + 1 \in DOMAIN Registers PROVE NameAt(i) # <<>>
  <2>1. Len(NameAt(i)) \in 1..NAME_MAX
    BY <1>2, ListedFits DEF NameAt
  <2> QED
    BY <2>1
<1>3. ASSUME i + 1 \notin DOMAIN Registers PROVE NameAt(i) = <<>> /\ i = Len(Registers)
  <2>1. NameAt(i) = <<>>
    BY <1>3 DEF NameAt
  <2>2. PICK n \in Nat : n = Len(Registers)
    BY <1>1
  <2>3. i + 1 \notin 1..n
    BY <1>1, <1>3, <2>2
  <2>4. i = n
    BY <2>2, <2>3
  <2> QED
    BY <2>1, <2>2, <2>4
<1> QED
  BY <1>2, <1>3

\* the register that is printed is the next of the list
LEMMA OneMore ==
  ASSUME NEW s \in Seq(HeldRegs), s = [i \in 1..Len(s) |-> Registers[i].reg],
         NEW reg \in HeldRegs, reg = Registers[Len(s) + 1].reg,
         NEW u, u = Append(s, reg)
  PROVE  u = [i \in 1..Len(u) |-> Registers[i].reg] /\ Len(u) = Len(s) + 1
<1>1. Len(s) \in Nat
  OBVIOUS
<1>2. u \in Seq(HeldRegs) /\ Len(u) = Len(s) + 1 /\ u[Len(s) + 1] = reg
      /\ \A i \in 1..Len(s) : u[i] = s[i]
  OBVIOUS
<1>3. \A i \in 1..Len(u) : u[i] = Registers[i].reg
  BY <1>1, <1>2
<1>4. u = [i \in 1..Len(u) |-> u[i]]
  BY <1>2
<1> QED
  BY <1>2, <1>3, <1>4

LEMMA DumpGoesOn ==
  ASSUME ToolInv, DumpInv, Dumps, ToolGoesOn
  PROVE  DumpInv'
<1>1. /\ frames # <<>> /\ LoopDone /\ UNCHANGED <<device, wire, truth>> /\ sync_flag
      /\ tool.exit = "running" /\ ToolFits(tool)
  BY DEF ToolGoesOn, LoopDone, ToolInv, Waiting
<1>2. ToolInv'
  BY GoesOnStep
<1>3. frames' = <<>>
  <2>1. PICK c, where : frames = <<[call |-> c, at |-> where]>>
    BY <1>1 DEF ToolInv, SyncInv, OneBlocked
  <2> QED
    BY <1>1, <2>1, OneFrame DEF LoopDone
<1>4. pending' = {}
  BY <1>2, <1>3 DEF ToolInv, SyncInv, OneBlocked
<1>5. AnsweredSoFar'
  BY <1>4 DEF AnsweredSoFar
<1>6. OnlyRead'
  BY <1>1 DEF DumpInv, OnlyRead, Memory, Listed
<1>7. Unanswered' /\ ~Succeeded'
  BY <1>3 DEF Unanswered, Succeeded
<1>8. /\ (tool.pc = 1 /\ Step.op = "list") \/ (tool.pc = 2 /\ Step.op = "listed")
      /\ Len(StepsAt(tool.prog, tool.ch)) = 2
      /\ \A r : Failed(r) <=> r # "0"
  BY <1>1, DumpSteps DEF DumpInv, PrintedSoFar
<1>9. /\ tool.index \in Words /\ tool.index \in Nat /\ tool.printed \in Seq(HeldRegs)
      /\ tool.got.reg \in HeldRegs
  <2>1. tool.index \in Words
    BY <1>1 DEF ToolFits, ToolStates
  <2>2. Words = 0..INDEX_MAX
    BY SMT DEF Words, INDEX_MAX
  <2>3. \A n : n \in 0..INDEX_MAX => n \in Nat
    OBVIOUS
  <2> QED
    BY <1>1, <2>1, <2>2, <2>3 DEF ToolFits, ToolStates, Founds
<1>10. Len(Registers) \in Nat /\ DOMAIN Registers = 1..Len(Registers) /\ Len(Registers) <= 65536
  <2>1. Registers \in Seq([name : Seq(Nat), reg : Register])
    BY RegistersAssumption
  <2> QED
    BY <2>1, RegistersAssumption
<1>11. CASE Failed(sync_return.r)
  <2>1. tool' = [tool EXCEPT !.exit = "failed"]
    BY <1>11 DEF ToolGoesOn
  <2>2. /\ tool'.exit = "failed" /\ SameTool(tool, tool') /\ SameData(tool, tool')
        /\ tool'.ch = tool.ch
    BY <1>1, <2>1, Exited
  <2>3. PrintedSoFar' /\ GotSoFar'
    BY <2>2 DEF DumpInv, PrintedSoFar, GotSoFar, SameData
  <2> QED
    BY <1>5, <1>6, <2>3 DEF DumpInv
<1>12. CASE sync_return.r = "0" /\ tool.pc = 1 /\ Step.op = "list"
  <2>1. tool.got.name = NameAt(tool.index)
    BY <1>1, <1>12 DEF DumpInv, GotSoFar, Succeeded
  <2>2. tool' = After(tool)
    BY <1>8, <1>12 DEF ToolGoesOn
  <2>3. tool.index \in Nat /\ tool.index <= Len(Registers) /\ tool.index = Len(tool.printed)
    BY <1>1, <1>9 DEF DumpInv, PrintedSoFar
  <2>4. CASE tool.got.name = <<>>
    <3>1. tool' = [tool EXCEPT !.exit = "done"]
      BY <1>12, <2>2, <2>4 DEF After
    <3>2. /\ [tool EXCEPT !.exit = "done"].exit = "done"
          /\ SameData(tool, [tool EXCEPT !.exit = "done"])
          /\ [tool EXCEPT !.exit = "done"].ch = tool.ch
      BY <1>1, Exited
    <3>3. Len(tool.printed) = Len(Registers)
      BY <2>1, <2>3, <2>4, NameEnds
    <3>4. PrintedSoFar' /\ GotSoFar'
      BY <3>1, <3>2, <3>3 DEF DumpInv, PrintedSoFar, GotSoFar, SameData
    <3> QED
      BY <1>5, <1>6, <3>4 DEF DumpInv
  <2>5. CASE tool.got.name # <<>>
    <3>1. tool' = NextStep(tool)
      BY <1>12, <2>2, <2>5 DEF After
    <3>2. /\ SameData(tool, NextStep(tool)) /\ NextStep(tool).ch = tool.ch
          /\ NextStep(tool).pc = 2 /\ NextStep(tool).exit = "running"
      <4>1. tool.pc < Len(StepsAt(tool.prog, tool.ch)) /\ tool.pc + 1 = 2
        BY <1>8, <1>12
      <4>2. SameData(tool, NextStep(tool))
        BY <1>1, NextStepFits
      <4> QED
        BY <1>1, <4>1, <4>2, NextStepFits
    <3>3. tool.index + 1 \in DOMAIN Registers
      BY <2>1, <2>3, <2>5, NameEnds
    <3>4. tool'.index = tool.index /\ tool'.printed = tool.printed /\ tool'.got = tool.got
          /\ tool'.ch = tool.ch /\ tool'.pc = 2 /\ tool'.exit = "running"
      BY <3>1, <3>2 DEF SameData
    <3>5. PrintedSoFar'
      BY <1>1, <3>3, <3>4 DEF DumpInv, PrintedSoFar
    <3>6. GotSoFar'
      BY <1>7, <2>1, <3>4 DEF GotSoFar, NameAt
    <3> QED
      BY <1>5, <1>6, <3>5, <3>6 DEF DumpInv
  <2> QED
    BY <2>4, <2>5
<1>13. CASE sync_return.r = "0" /\ tool.pc = 2 /\ Step.op = "listed"
  <2>1. tool.got.reg = Registers[tool.index + 1].reg
    BY <1>1, <1>13 DEF DumpInv, GotSoFar, Succeeded
  <2>2. tool' = Printed(tool)
    BY <1>8, <1>13 DEF ToolGoesOn, After
  <2>3. /\ tool.index + 1 \in DOMAIN Registers /\ tool.index = Len(tool.printed)
        /\ tool.printed = [i \in 1..Len(tool.printed) |-> Registers[i].reg]
    BY <1>1, <1>13 DEF DumpInv, PrintedSoFar
  <2>4. /\ tool'.got = tool.got /\ tool'.ch = tool.ch
        /\ tool'.printed = Append(tool.printed, tool.got.reg)
        /\ \/ tool.index = INDEX_MAX /\ tool'.exit = "done"
           \/ /\ tool.index # INDEX_MAX /\ tool'.exit = "running"
              /\ tool'.pc = 1 /\ tool'.index = tool.index + 1
    BY <1>1, <2>2, PrintedFits
  <2>5. /\ tool'.printed = [i \in 1..Len(tool'.printed) |-> Registers[i].reg]
        /\ Len(tool'.printed) = tool.index + 1
    BY <1>9, <2>1, <2>3, <2>4, OneMore
  <2>6. tool.index + 1 <= Len(Registers)
    BY <1>10, <2>3
  <2>7. tool.index = INDEX_MAX => tool.index + 1 = Len(Registers)
    <3>1. INDEX_MAX + 1 = 65536
      BY SMT DEF INDEX_MAX
    <3> QED
      BY <1>10, <2>6, <3>1
  <2>8. PrintedSoFar'
    BY <2>4, <2>5, <2>6, <2>7, <1>1 DEF DumpInv, PrintedSoFar
  <2>9. GotSoFar'
    BY <1>7, <2>4 DEF GotSoFar
  <2> QED
    BY <1>5, <1>6, <2>8, <2>9 DEF DumpInv
<1> QED
  BY <1>8, <1>11, <1>12, <1>13

\* a call, which is made with what the last one found
LEMMA DumpCalls ==
  ASSUME ToolInv, DumpInv, Dumps, ToolRefused \/ ToolCalls
  PROVE  DumpInv'
<1>1. frames = <<>> /\ pending = {} /\ device' = device /\ ToolInv' /\ ToolFits(tool)
      /\ tool.exit = "running"
  BY CallingStep, NothingPending DEF ToolRefused, ToolCalls, Running, ToolInv
<1>2. CASE ToolRefused
  <2>1. tool' = [tool EXCEPT !.exit = "failed"] /\ wire' = wire /\ pending' = pending
    BY <1>2 DEF ToolRefused, CallRefused
  <2>2. /\ [tool EXCEPT !.exit = "failed"].exit = "failed"
        /\ SameData(tool, [tool EXCEPT !.exit = "failed"])
        /\ [tool EXCEPT !.exit = "failed"].ch = tool.ch
    BY <1>1, Exited
  <2>3. PrintedSoFar' /\ GotSoFar'
    BY <2>1, <2>2 DEF DumpInv, PrintedSoFar, GotSoFar, SameData
  <2>4. AnsweredSoFar'
    BY <1>1, <2>1 DEF AnsweredSoFar
  <2>5. OnlyRead'
    BY <1>1, <2>1 DEF DumpInv, OnlyRead, Memory, Listed
  <2> QED
    BY <2>3, <2>4, <2>5 DEF DumpInv
<1>3. CASE ToolCalls
  <2>1. PICK c : c \in Idle /\ wire' = wire \cup {RequestOf(c)} /\ CallStarted(c)
    BY <1>3 DEF ToolCalls, NextCall
  <2>2. tool' = tool /\ sync_flag' = FALSE /\ pending' \subseteq {c}
    BY <1>1, <1>3, <2>1 DEF ToolCalls, CallStarted
  <2>3. /\ (tool.pc = 1 /\ Step.op = "list") \/ (tool.pc = 2 /\ Step.op = "listed")
        /\ Regw = NullReg
    BY <1>1, DumpSteps DEF DumpInv, PrintedSoFar
  <2>4. RequestOf(c).kind = "request" /\ RequestOf(c).port # COMMAND
        /\ (RequestOf(c).port = ACCESS => RequestOf(c).payload = AccessRequest(Name, NullReg))
        /\ (RequestOf(c).port = ACCESS => Step.op \in Accesses)
    BY <2>3, Ports DEF RequestOf, Accesses
  <2>5. OnlyRead'
    <3>1. device.ram' = Memory(Listed)'
      BY <1>1 DEF DumpInv, OnlyRead, Memory, Listed
    <3>2. ASSUME NEW m \in wire', m.kind = "request"
          PROVE  /\ m.port # COMMAND
                 /\ m.port = ACCESS =>
                      \E name \in Names : m.payload = AccessRequest(name, NullReg)
      BY <1>1, <2>1, <2>4, <3>2, NameFits DEF DumpInv, OnlyRead
    <3> QED
      BY <3>1, <3>2 DEF OnlyRead
  <2>6. PrintedSoFar' /\ Dumps'
    BY <2>2 DEF DumpInv, PrintedSoFar, Dumps
  <2>7. GotSoFar'
    BY <1>1, <2>2 DEF DumpInv, GotSoFar, Unanswered, Succeeded, NameAt
  <2>8. AnsweredSoFar'
    <3> SUFFICES ASSUME NEW m \in wire', m.kind = "answer", m.call \in pending' PROVE FALSE
      BY DEF AnsweredSoFar
    <3>1. m \in wire /\ m.call = c
      BY <2>1, <2>2, <2>4
    <3> QED
      BY <2>1, <3>1 DEF ToolInv, WireFits
  <2> QED
    BY <2>5, <2>6, <2>7, <2>8 DEF DumpInv
<1> QED
  BY <1>2, <1>3

\* a request of a dump is handled
DumpHandled(m, payload, fact) ==
  /\ Reply(m, payload, fact)
  /\ device'.ram = device.ram
  /\ m.call \in pending /\ m = RequestOf(m.call) =>
       fact = IF tool.pc = 1 THEN FoundName(NameAt(tool.index))
              ELSE FoundReg(Registers[tool.index + 1].reg)

LEMMA DumpHandledStep ==
  ASSUME ToolInv, DumpInv, Dumps, NEW m \in wire, NEW payload, NEW fact, m.kind = "request",
         DumpHandled(m, payload, fact), UNCHANGED <<vars, tool, stdin, truth, mishaps>>
  PROVE  DumpInv'
<1> DEFINE answer == [kind |-> "answer", call |-> m.call, port |-> m.port, payload |-> payload,
                      truth |-> fact]
<1>1. /\ wire' = (wire \ {m}) \cup {answer} /\ device'.ram = device.ram
      /\ answer.kind = "answer" /\ answer.call = m.call /\ answer.truth = fact
  BY DEF DumpHandled, Reply
<1> HIDE DEF answer
<1>2. UNCHANGED <<sync_flag, sync_return, frames, pending, tool>>
  BY DEF vars
<1>3. OnlyRead'
  BY <1>1 DEF DumpInv, OnlyRead, Memory, Listed
<1>4. PrintedSoFar'
  BY <1>2 DEF DumpInv, PrintedSoFar
<1>5. GotSoFar'
  BY <1>2 DEF DumpInv, GotSoFar, Unanswered, Succeeded, NameAt
<1>6. AnsweredSoFar'
  <2> SUFFICES ASSUME NEW n \in wire', n.kind = "answer", n.call \in pending' PROVE NextFound(n)'
    BY DEF AnsweredSoFar
  <2>1. CASE n \in wire
    BY <1>2, <2>1 DEF DumpInv, AnsweredSoFar, NextFound, NameAt
  <2>2. CASE n = answer
    <3>1. m.call \in pending
      BY <1>1, <1>2, <2>2
    <3>2. m = RequestOf(m.call)
      BY <3>1 DEF ToolInv, Current, Asked
    <3>3. NextFound(n)
      BY <1>1, <2>2, <3>1, <3>2 DEF DumpHandled, NextFound
    <3> QED
      BY <1>2, <3>3 DEF NextFound, NameAt
  <2> QED
    BY <1>1, <2>1, <2>2
<1> QED
  BY <1>3, <1>4, <1>5, <1>6 DEF DumpInv

LEMMA DumpAccess ==
  ASSUME ToolInv, DumpInv, Dumps, NEW m \in wire, m.kind = "request", NodeAccesses(m)
  PROVE  \E payload, fact : DumpHandled(m, payload, fact)
<1> DEFINE a    == NodeReadsAccess(m.payload)
           here == a.name \in DOMAIN device.ram
           new  == IF a.reg.type = EMPTY \/ ~here THEN RegisterOf(a.name) ELSE a.reg
<1>1. m.port = ACCESS /\ Reply(m, NodeAnswersAccess(new), FoundReg(new))
      /\ device' = IF here THEN [device EXCEPT !.ram[a.name] = new] ELSE device
  BY DEF NodeAccesses
<1>2. PICK name \in Names : m.payload = AccessRequest(name, NullReg)
  BY <1>1 DEF DumpInv, OnlyRead
<1>3. Sendable(NullReg) /\ NullReg.type = EMPTY
  BY HeldFits DEF HeldRegs, NullReg
<1>4. a.name = name /\ a.reg.type = EMPTY
  BY <1>2, <1>3, NodeReadsNothing
<1>5. new = RegisterOf(name)
  BY <1>4
<1> HIDE DEF new, a
<1>6. device.ram = Memory(Listed) /\ DOMAIN device.ram = Listed
  BY DEF DumpInv, OnlyRead, Memory
<1>7. ASSUME NEW n \in Listed PROVE RegisterOf(n) = device.ram[n]
  <2>1. n \notin ChannelNames
    BY ListedFits DEF Listed
  <2>2. n \notin (1..Channels) \X {COUNTS}
    BY <2>1 DEF ChannelNames
  <2> QED
    BY <1>6, <2>2 DEF RegisterOf
<1>8. device'.ram = device.ram
  <2>1. CASE here
    <3>1. device' = [device EXCEPT !.ram[name] = device.ram[name]]
      BY <1>1, <1>4, <1>5, <1>6, <1>7, <2>1
    <3>2. PICK names \in NameSets : device \in DeviceStates(names)
      BY DEF ToolInv, DeviceFits
    <3>3. device' = [device EXCEPT !.ram = [device.ram EXCEPT ![name] = device.ram[name]]]
      BY <3>1
    <3>4. device'.ram = [device.ram EXCEPT ![name] = device.ram[name]]
      BY <3>2, <3>3 DEF DeviceStates
    <3>5. device.ram \in [names -> HeldRegs]
      BY <3>2 DEF DeviceStates
    <3> QED
      BY <3>4, <3>5
  <2>2. CASE ~here
    BY <1>1, <2>2
  <2> QED
    BY <2>1, <2>2
<1>9. ASSUME m.call \in pending, m = RequestOf(m.call)
      PROVE  tool.pc = 2 /\ new = Registers[tool.index + 1].reg
  <2>1. frames # <<>> /\ ~sync_flag
    BY <1>9, NothingPending DEF ToolInv
  <2>2. tool.exit = "running"
    BY <2>1 DEF ToolInv, Waiting
  <2>3. /\ (tool.pc = 1 /\ Step.op = "list") \/ (tool.pc = 2 /\ Step.op = "listed")
        /\ Regw = NullReg
    BY DumpSteps DEF ToolInv, DumpInv, PrintedSoFar
  <2>4. Step.op = "listed" /\ tool.pc = 2
    BY <1>1, <1>9, <2>3, Ports DEF RequestOf, Accesses
  <2>5. m.payload = AccessRequest(Name, NullReg) /\ Name = tool.got.name
    BY <1>9, <2>3, <2>4 DEF RequestOf, Accesses, Name
  <2>6. Name \in Names
    BY <2>4, NameFits DEF ToolInv, Accesses
  <2>7. name = Name
    BY <1>3, <1>4, <2>5, <2>6, NodeReadsNothing DEF a
  <2>8. tool.index + 1 \in DOMAIN Registers /\ tool.got.name = NameAt(tool.index)
    BY <2>1, <2>2, <2>4 DEF DumpInv, PrintedSoFar, GotSoFar, Unanswered
  <2>9. name = Registers[tool.index + 1].name /\ name \in Listed
    BY <2>5, <2>7, <2>8 DEF NameAt, Listed
  <2>10. Memory(Listed)[name] = Registers[tool.index + 1].reg
    BY <2>8, <2>9, ListedMemory
  <2> QED
    BY <1>5, <1>6, <1>7, <2>4, <2>9, <2>10
<1> QED
  BY <1>1, <1>8, <1>9 DEF DumpHandled

LEMMA DumpNode ==
  ASSUME ToolInv, DumpInv, Dumps, NEW m \in wire, NodeHandles(m)
  PROVE  DumpInv'
<1>1. m.kind = "request" /\ UNCHANGED <<vars, tool, stdin, truth, mishaps>>
  BY DEF NodeHandles
<1>2. (tool.pc = 1 /\ Step.op = "list") \/ (tool.pc = 2 /\ Step.op = "listed")
  BY DumpSteps DEF ToolInv, DumpInv, PrintedSoFar
<1>3. m.port # COMMAND
  BY <1>1 DEF DumpInv, OnlyRead
<1>4. CASE NodeAccesses(m)
  <2>1. PICK payload, fact : DumpHandled(m, payload, fact)
    BY <1>1, <1>4, DumpAccess
  <2> QED
    BY <1>1, <2>1, DumpHandledStep
<1>5. CASE NodeLists(m)
  <2> DEFINE i    == GetU16(m.payload, 0, 2) + 1
             name == IF i \in DOMAIN Registers THEN Registers[i].name ELSE <<>>
  <2>1. m.port = LIST /\ UNCHANGED device /\ Reply(m, NodeAnswersList(name), FoundName(name))
    BY <1>5 DEF NodeLists
  <2>2. ASSUME m = RequestOf(m.call) PROVE tool.pc = 1 /\ name = NameAt(tool.index)
    <3>1. tool.pc = 1 /\ m.payload = ListRequest(tool.index)
      BY <1>2, <2>1, <2>2, Ports DEF RequestOf, Accesses
    <3>2. GetU16(m.payload, 0, 2) = tool.index
      <4>1. tool.index \in Words
        BY DEF ToolInv, ToolFits, ToolStates
      <4> QED
        BY <3>1, <4>1, WordIsRead DEF ListRequest
    <3> QED
      BY <3>1, <3>2 DEF NameAt
  <2> HIDE DEF name
  <2>3. DumpHandled(m, NodeAnswersList(name), FoundName(name))
    BY <2>1, <2>2 DEF DumpHandled
  <2> QED
    BY <1>1, <2>3, DumpHandledStep
<1>6. CASE NodeInforms(m)
  <2>1. PICK payload, fact : m.port = INFO /\ UNCHANGED device /\ Reply(m, payload, fact)
    BY <1>6 DEF NodeInforms
  <2>2. m # RequestOf(m.call)
    BY <1>2, <2>1, Ports DEF RequestOf, Accesses
  <2>3. DumpHandled(m, payload, fact)
    BY <2>1, <2>2 DEF DumpHandled
  <2> QED
    BY <1>1, <2>3, DumpHandledStep
<1> QED
  BY <1>3, <1>4, <1>5, <1>6 DEF NodeHandles, NodeObeys

LEMMA DumpStart == ToolInit => DumpInv
<1> SUFFICES ASSUME ToolInit, Dumps PROVE OnlyRead /\ PrintedSoFar /\ GotSoFar /\ AnsweredSoFar
  BY DEF DumpInv
<1>1. frames = <<>> /\ wire = {} /\ pending = {}
  BY DEF ToolInit, Init
<1>2. /\ tool.ch = FirstChannel(tool.prog) /\ tool.pc = 1 /\ tool.exit = "running"
      /\ tool.index = 0 /\ tool.printed = <<>>
  BY DEF ToolInit
<1>3. tool.ch = Channels + 1
  BY <1>2 DEF FirstChannel, ChannelSteps, Dumps
<1>4. Len(Registers) \in Nat
  <2>1. Registers \in Seq([name : Seq(Nat), reg : Register])
    BY RegistersAssumption
  <2> QED
    BY <2>1
<1>5. tool.printed = [i \in 1..Len(tool.printed) |-> Registers[i].reg] /\ Len(tool.printed) = 0
  BY <1>2
<1>6. device.ram = Memory(Listed)
  <2>1. Calibrates(tool.prog) = {}
    BY DEF Calibrates, Dumps
  <2> QED
    BY <2>1 DEF ToolInit, Memories
<1>7. OnlyRead /\ AnsweredSoFar
  BY <1>1, <1>6 DEF OnlyRead, AnsweredSoFar
<1>8. PrintedSoFar
  BY <1>2, <1>3, <1>4, <1>5 DEF PrintedSoFar
<1>9. GotSoFar
  BY <1>1, <1>2 DEF GotSoFar, Succeeded
<1> QED
  BY <1>7, <1>8, <1>9

\* a tool stays the program it is
LEMMA ProgramStays ==
  ASSUME ToolInv, [ToolNext]_allVars
  PROVE  tool'.prog = tool.prog
<1>1. ToolFits(tool) /\ tool \in ToolStates
  BY DEF ToolInv, ToolFits
<1>2. CASE UNCHANGED allVars
  BY <1>2 DEF allVars, toolVars
<1>3. CASE ToolRefused \/ ToolCalls \/ ToolWaits \/ \E c \in Calls : TimedOut(c)
  BY <1>1, <1>3 DEF ToolRefused, ToolCalls, ToolWaits, TimedOut, toolVars, ToolStates
<1>4. CASE \E m \in wire : Answered(m)
  BY <1>1, <1>4 DEF Answered, ToolStates
<1>5. CASE ToolGoesOn
  <2>1. tool.exit = "running"
    BY <1>5 DEF ToolGoesOn, LoopDone, ToolInv, Waiting
  <2>2. tool' = [tool EXCEPT !.exit = "failed"] \/ tool' = After(tool)
    BY <1>5 DEF ToolGoesOn
  <2>3. After(tool).prog = tool.prog
    BY <1>1, <2>1, AfterFits DEF Proceeds, SameTool
  <2> QED
    BY <1>1, <2>2, <2>3 DEF ToolStates
<1>6. CASE PromptSkipped \/ OperatorAnswers
  <2>1. Proceeds(tool, tool')
    BY <1>6, OperatorProceeds
  <2> QED
    BY <2>1 DEF Proceeds, SameTool
<1>7. CASE \E m \in wire : NodeHandles(m)
  BY <1>7 DEF NodeHandles
<1> QED
  BY <1>2, <1>3, <1>4, <1>5, <1>6, <1>7 DEF ToolNext

\* a call that waits leaves everything but its place as it is
LEMMA StillBlocked ==
  ASSUME ToolInv, UNCHANGED allVars \/ ToolWaits
  PROVE  /\ UNCHANGED <<tool, stdin, device, wire, mishaps, pending, sync_flag, sync_return>>
         /\ frames' = <<>> <=> frames = <<>>
<1>1. UNCHANGED <<tool, stdin, device, wire, mishaps, pending, sync_flag, sync_return>>
  BY DEF allVars, vars, toolVars, ToolWaits, LoopOnce, TickReturns
<1>2. CASE UNCHANGED allVars
  BY <1>1, <1>2 DEF allVars, vars
<1>3. CASE ToolWaits
  <2>1. PICK c, where : frames = <<[call |-> c, at |-> where]>>
    BY <1>3 DEF ToolWaits, LoopOnce, TickReturns, ToolInv, SyncInv, OneBlocked
  <2>2. \E place : MoveTo(place)
    BY <1>3 DEF ToolWaits, LoopOnce, TickReturns
  <2>3. DOMAIN frames' = DOMAIN frames
    BY <2>2 DEF MoveTo
  <2> QED
    BY <1>1, <2>1, <2>3
<1> QED
  BY <1>2, <1>3

LEMMA DumpStep == ToolInv /\ DumpInv /\ [ToolNext]_allVars => DumpInv'
<1> SUFFICES ASSUME ToolInv, DumpInv, [ToolNext]_allVars PROVE DumpInv'
  OBVIOUS
<1>1. CASE ~Dumps
  <2>1. tool'.prog = tool.prog
    BY ProgramStays
  <2> QED
    BY <1>1, <2>1 DEF DumpInv, Dumps
<1>2. CASE Dumps
  <2>1. CASE UNCHANGED allVars \/ ToolWaits
    <3>1. /\ UNCHANGED <<tool, device, wire, pending, sync_flag, sync_return>>
          /\ frames' = <<>> <=> frames = <<>>
      BY <2>1, StillBlocked
    <3>2. (Unanswered' => Unanswered) /\ (Succeeded' => Succeeded)
      BY <3>1 DEF Unanswered, Succeeded
    <3> QED
      BY <1>2, <3>1, <3>2, DumpKept
  <2>2. ASSUME NEW c \in Calls, TimedOut(c) PROVE DumpInv'
    <3>1. /\ tool' = tool /\ device' = device /\ wire' \subseteq wire /\ pending' \subseteq pending
          /\ frames # <<>> /\ frames' = frames /\ sync_flag' /\ sync_return'.r = "ETIMEDOUT"
      BY <2>2 DEF TimedOut, SyncCallback
    <3>2. ~Unanswered' /\ ~Succeeded'
      BY <3>1 DEF Unanswered, Succeeded
    <3> QED
      BY <1>2, <3>1, <3>2, DumpKept
  <2>3. ASSUME NEW m \in wire, Answered(m) PROVE DumpInv'
    BY <1>2, <2>3, DumpAnswered
  <2>4. CASE ToolGoesOn
    BY <1>2, <2>4, DumpGoesOn
  <2>5. CASE ToolRefused \/ ToolCalls
    BY <1>2, <2>5, DumpCalls
  <2>6. CASE PromptSkipped \/ OperatorAnswers
    <3>1. (tool.pc = 1 /\ Step.op = "list") \/ (tool.pc = 2 /\ Step.op = "listed")
      BY <1>2, DumpSteps DEF ToolInv, DumpInv, PrintedSoFar
    <3> QED
      BY <2>6, <3>1 DEF PromptSkipped, OperatorAnswers, PromptAnswered, MeasureTyped, YesOrNo
  <2>7. ASSUME NEW m \in wire, NodeHandles(m) PROVE DumpInv'
    BY <1>2, <2>7, DumpNode
  <2> QED
    BY <2>1, <2>2, <2>3, <2>4, <2>5, <2>6, <2>7 DEF ToolNext
<1> QED
  BY <1>1, <1>2

(***************************************************************************)
(* DumpIsComplete: regtool asks for the names one by one until one is      *)
(* empty, or until the index has used up its 16 bits, and reads the        *)
(* register of each; what it has printed are the first registers of the    *)
(* node, and all of them when it ends by itself, whichever of its calls    *)
(* before took too long and is answered late.                              *)
(***************************************************************************)
THEOREM DumpsAreComplete == ToolSpec => []DumpIsComplete
<1>1. DumpInv => DumpIsComplete
  BY DEF DumpInv, DumpIsComplete, PrintedSoFar, Dumps
<1> QED
  BY ToolStart, ToolStep, DumpStart, DumpStep, <1>1, PTL DEF ToolSpec

-----------------------------------------------------------------------------
(***************************************************************************)
(* Calibration.  The EEPROM of the node is written by one request, so it   *)
(* is right if that request comes when all registers are, and finds them   *)
(* unchanged: StoreIsLast.  What is in the registers was computed from     *)
(* what the tool read, which was measured in the mode the node was set to, *)
(* at the signal the operator applied: Known follows this through the      *)
(* steps of a channel, ChannelsDone keeps it for those before.  Both need  *)
(* that a step was done when its call succeeded (Effect), and that nothing *)
(* of an earlier call is left that could undo it: OneMessage.  A call that *)
(* took too long would leave its request, but ends the tool, except where  *)
(* the outputs are switched over, and that is counted as a mishap.         *)
(***************************************************************************)
\* registers in the memory of the node
Has(name, reg) == name \in DOMAIN device.ram /\ device.ram[name] = reg
RightAt(name)  == name \in DOMAIN device.ram /\ device.ram[name] \in Right(tool.prog, name[2])

Calibrated   == \A name \in Calibrates(tool.prog) : RightAt(name)
ChannelsDone == \A name \in Calibrates(tool.prog) : name[1] < tool.ch => RightAt(name)

\* the programs that set a mode and measure two points; the first finds the mode it needs
PointPrograms  == {"6180a_cal", "6040_5vcal", "6040macal", "6040_10vcal", "6090ccal"}
OutputPrograms == {"6050cal", "6070cal"}

PointMode(prog) ==
  CASE prog = "6180a_cal"   -> 9
    [] prog = "6040_5vcal"  -> 0
    [] prog = "6040macal"   -> 1
    [] prog = "6040_10vcal" -> 2
    [] prog = "6090ccal"    -> 4

Mode  == PointMode(tool.prog)
Place == IF tool.prog = "6180a_cal" THEN tool.pc + 1 ELSE tool.pc

PointsKnown ==
  tool.prog \in PointPrograms =>
    /\ Place > 1 => Has(<<tool.ch, MODE>>, Uint8(Mode))
    /\ Place = 3 => device.input[tool.ch] = 1
    /\ Place > 3 => tool.low = <<1, Mode>>
    /\ Place = 5 => device.input[tool.ch] = 2
    /\ Place = 6 => tool.high = <<2, Mode>> /\ tool.acc.type = UINT16

ModesKnown ==
  tool.prog = "6180a_cal" => \A ch \in Channel : Has(<<ch, MODE>>, Uint8(9))

ZeroKnown ==
  tool.prog = "6090cal" =>
    /\ tool.pc > 1 => Has(<<tool.ch, MODE>>, Uint8(1))
    /\ tool.pc = 3 => device.input[tool.ch] = 1
    /\ tool.pc = 4 => tool.acc = Uint16(<<1, 1>>)

\* the second of a channel's outputs begins with the sixth step
Output      == IF tool.pc > 5 THEN 3 ELSE 1
OutputPlace == IF tool.pc > 5 THEN tool.pc - 5 ELSE tool.pc

OutputsKnown ==
  tool.prog \in OutputPrograms =>
    /\ OutputPlace = 2 => device.point = Output
    /\ OutputPlace > 2 => tool.low = <<Output, 0>>
    /\ OutputPlace = 4 => device.point = Output + 1
    /\ OutputPlace = 5 => tool.high = <<Output + 1, 0>>
    /\ tool.pc > 5 => RightAt(<<tool.ch, CAL>>)

WiringKnown ==
  tool.prog = "6190a_conf" =>
    /\ tool.pc \in {2, 4} => tool.low \in {<<0>>, <<1>>}
    /\ tool.pc > 2 => RightAt(<<tool.ch, CAL>>)

\* what a tool has made sure of when it is at a step of a channel
Known == ModesKnown /\ (tool.ch <= Channels => PointsKnown /\ ZeroKnown /\ OutputsKnown /\ WiringKnown)

Writes == {"set", "pair", "offset", "measured", "chosen"}

\* what has become of the step when its call succeeds with that register
Effect(reg) ==
  /\ Step.op \in Writes => Has(Step.name, Regw)
  /\ Step.op = "counts" => Has(Step.name, reg) /\ reg = RegisterOf(Step.name)
  /\ Step.op = "command" /\ Step.number = TEST_POINT => device.point = Step.param[1]

\* no answer but one that tells the tool that the step was done, or that it was not
Told(m) ==
  \/ m.port = ACCESS /\ m.truth = Found
  \/ m.port = COMMAND /\ m.payload # <<0>>
  \/ Effect(m.truth.reg)

OneMessage ==
  /\ frames = <<>> => wire = {}
  /\ \A m, n \in wire : m = n
  /\ \A m \in wire : m = RequestOf(m.call) \/ (m.kind = "answer" /\ Told(m))
  /\ frames # <<>> /\ sync_flag =>
       /\ sync_return.r # "ETIMEDOUT" => wire = {}
       /\ Mishap(sync_return.r) => FALSE
       /\ sync_return.r = "0" => Effect(tool.got.reg)

\* a request to store comes last, when all is calibrated
StoreIsLast ==
  \A m \in wire : m.kind = "request" /\ m.port = COMMAND =>
    \/ \E p \in Nat : m.payload = CommandRequest(TEST_POINT, <<p>>)
    \/ m.payload = CommandRequest(STORE, <<>>) /\ wire = {m} /\ Calibrated

EepromKept ==
  \/ \A n \in Calibrates(tool.prog) \cap DOMAIN device.eeprom : device.eeprom[n] = Old
  \/ \A n \in Calibrates(tool.prog) :
       n \in DOMAIN device.eeprom /\ device.eeprom[n] \in Right(tool.prog, n[2])

\* a program for the channels of a product, and nothing went wrong that it does not notice
Calibrating == mishaps = 0 /\ tool.prog \in ChannelPrograms

CalInv ==
  /\ mishaps \in Nat
  /\ Calibrating =>
       /\ stdin = 0
       /\ StoreIsLast
       /\ EepromKept
       /\ tool.exit = "running" => OneMessage /\ ChannelsDone /\ Known

-----------------------------------------------------------------------------
LEMMA Tables ==
  ASSUME NEW a, NEW b, NEW c, NEW d, NEW e, NEW f
  PROVE  /\ <<a>> \o <<b, c, d, e, f>> = <<a, b, c, d, e, f>>
         /\ Len(<<a, b, c, d>>) = 4
         /\ Len(<<a, b, c, d, e>>) = 5
         /\ Len(<<a, b, c, d, e, f>>) = 6
<1>1. PICK s : s = <<a>> \o <<b, c, d, e, f>>
  OBVIOUS
<1>2. /\ s \in Seq({a, b, c, d, e, f}) /\ Len(s) = 6
      /\ s[1] = a /\ s[2] = b /\ s[3] = c /\ s[4] = d /\ s[5] = e /\ s[6] = f
  <2>1. <<a>> \in Seq({a, b, c, d, e, f}) /\ <<b, c, d, e, f>> \in Seq({a, b, c, d, e, f})
    OBVIOUS
  <2> QED
    BY <1>1, <2>1
<1>3. PICK t : t = <<a, b, c, d, e, f>>
  OBVIOUS
<1>4. /\ t \in Seq({a, b, c, d, e, f}) /\ Len(t) = 6
      /\ t[1] = a /\ t[2] = b /\ t[3] = c /\ t[4] = d /\ t[5] = e /\ t[6] = f
  BY <1>3
<1>5. \A i \in 1..6 : s[i] = t[i]
  BY <1>2, <1>4
<1>6. s = t
  BY <1>2, <1>4, <1>5
<1> QED
  BY <1>1, <1>3, <1>6

LEMMA TwoTables ==
  ASSUME NEW a, NEW b, NEW c, NEW d, NEW e, NEW f, NEW g, NEW h, NEW i, NEW j,
         NEW s, s = <<a, b, c, d, e>> \o <<f, g, h, i, j>>
  PROVE  /\ Len(s) = 10
         /\ s[1] = a /\ s[2] = b /\ s[3] = c /\ s[4] = d /\ s[5] = e
         /\ s[6] = f /\ s[7] = g /\ s[8] = h /\ s[9] = i /\ s[10] = j
OBVIOUS

PointSteps(ch, mode, less) ==
  <<Set(ch, MODE, mode), Prompt(ch, 1), Counts(ch, "low"), Prompt(ch, 2), Counts(ch, "high"),
    Pair(ch, less)>>

\* where a tool is, and what it does there
LEMMA PointTable ==
  ASSUME ToolFits(tool), tool.ch <= Channels, tool.prog \in PointPrograms
  PROVE  /\ Place \in 1..6
         /\ tool.prog = "6180a_cal" => Place > 1
         /\ tool.pc < Len(StepsAt(tool.prog, tool.ch)) <=> Place < 6
         /\ Step = PointSteps(tool.ch, Mode, tool.prog = "6090ccal")[Place]
<1>1. /\ StepsAt(tool.prog, tool.ch) = ChannelSteps(tool.prog, tool.ch)
      /\ tool.pc \in 1..Len(StepsAt(tool.prog, tool.ch))
      /\ Step = StepsAt(tool.prog, tool.ch)[tool.pc]
  BY DEF ToolFits, AtStep, StepsAt, Step
<1>2. \A ch, mode : <<Set(ch, MODE, mode)>> \o TwoPoints(ch) = PointSteps(ch, mode, FALSE)
  BY Tables DEF TwoPoints, PointSteps
<1>3. \A ch, mode, less : Len(PointSteps(ch, mode, less)) = 6
  BY Tables DEF PointSteps
<1>4. CASE tool.prog = "6180a_cal"
  <2>1. Place = tool.pc + 1
    BY <1>4 DEF Place
  <2>2. PICK s : s = TwoPoints(tool.ch)
    OBVIOUS
  <2>3. PICK u : u = PointSteps(tool.ch, Mode, FALSE)
    OBVIOUS
  <2>4. Len(s) = 5 /\ \A i \in 1..5 : s[i] = u[i + 1]
    BY <2>2, <2>3 DEF TwoPoints, PointSteps
  <2>5. StepsAt(tool.prog, tool.ch) = s
    BY <1>1, <1>4, <2>2 DEF ChannelSteps
  <2>6. tool.pc \in 1..5 /\ Step = s[tool.pc]
    BY <1>1, <2>4, <2>5
  <2>7. Step = u[Place]
    BY <2>1, <2>4, <2>6
  <2>8. PointSteps(tool.ch, Mode, tool.prog = "6090ccal") = u
    <3>1. (tool.prog = "6090ccal") = FALSE
      BY <1>4
    <3> QED
      BY <2>3, <3>1
  <2>9. Place \in 1..6 /\ Place > 1 /\ (tool.pc < 5 <=> Place < 6)
    BY <2>1, <2>6
  <2> QED
    BY <2>4, <2>5, <2>7, <2>8, <2>9
<1>5. CASE tool.prog # "6180a_cal"
  <2>1. Place = tool.pc
    BY <1>5 DEF Place
  <2>2. StepsAt(tool.prog, tool.ch) = PointSteps(tool.ch, Mode, tool.prog = "6090ccal")
    <3>1. CASE tool.prog = "6040_5vcal"
      <4>1. (tool.prog = "6090ccal") = FALSE /\ Mode = 0
        BY <3>1 DEF Mode, PointMode
      <4> QED
        BY <1>1, <1>2, <3>1, <4>1 DEF ChannelSteps, FiveVolts
    <3>2. CASE tool.prog = "6040macal"
      <4>1. (tool.prog = "6090ccal") = FALSE /\ Mode = 1
        BY <3>2 DEF Mode, PointMode
      <4> QED
        BY <1>1, <1>2, <3>2, <4>1 DEF ChannelSteps, Milliamperes
    <3>3. CASE tool.prog = "6040_10vcal"
      <4>1. (tool.prog = "6090ccal") = FALSE /\ Mode = 2
        BY <3>3 DEF Mode, PointMode
      <4> QED
        BY <1>1, <1>2, <3>3, <4>1 DEF ChannelSteps, TenVoltsIn
    <3>4. CASE tool.prog = "6090ccal"
      <4>1. (tool.prog = "6090ccal") = TRUE /\ Mode = 4
        BY <3>4 DEF Mode, PointMode
      <4> QED
        BY <1>1, <3>4, <4>1 DEF ChannelSteps, ColdJunction, PointSteps
    <3> QED
      BY <1>5, <3>1, <3>2, <3>3, <3>4 DEF PointPrograms
  <2>3. Len(StepsAt(tool.prog, tool.ch)) = 6
    BY <1>3, <2>2
  <2> QED
    BY <1>1, <1>5, <2>1, <2>2, <2>3
<1> QED
  BY <1>4, <1>5

LEMMA ZeroTable ==
  ASSUME ToolFits(tool), tool.ch <= Channels, tool.prog = "6090cal"
  PROVE  /\ tool.pc \in 1..4
         /\ Len(StepsAt(tool.prog, tool.ch)) = 4
         /\ Step = ZeroVolts(tool.ch)[tool.pc]
<1>1. StepsAt(tool.prog, tool.ch) = ZeroVolts(tool.ch)
  BY DEF StepsAt, ChannelSteps
<1>2. Len(ZeroVolts(tool.ch)) = 4
  BY Tables DEF ZeroVolts
<1> QED
  BY <1>1, <1>2 DEF ToolFits, AtStep, Step

LEMMA WiringTable ==
  ASSUME ToolFits(tool), tool.ch <= Channels, tool.prog = "6190a_conf"
  PROVE  /\ tool.pc \in 1..4
         /\ Len(StepsAt(tool.prog, tool.ch)) = 4
         /\ Step = Wiring(tool.ch)[tool.pc]
<1>1. StepsAt(tool.prog, tool.ch) = Wiring(tool.ch)
  BY DEF StepsAt, ChannelSteps
<1>2. Len(Wiring(tool.ch)) = 4
  BY Tables DEF Wiring
<1> QED
  BY <1>1, <1>2 DEF ToolFits, AtStep, Step

LEMMA OutputTable ==
  ASSUME ToolFits(tool), tool.ch <= Channels, tool.prog \in OutputPrograms
  PROVE  /\ tool.pc \in 1..(IF tool.prog = "6050cal" THEN 10 ELSE 5)
         /\ Len(StepsAt(tool.prog, tool.ch)) = IF tool.prog = "6050cal" THEN 10 ELSE 5
         /\ OutputPlace \in 1..5
         /\ Step = Outputs(tool.ch, Output, IF Output = 1 THEN CAL ELSE SINK)[OutputPlace]
<1>1. PICK s, low, high : /\ s = StepsAt(tool.prog, tool.ch)
                          /\ low = Outputs(tool.ch, 1, CAL) /\ high = Outputs(tool.ch, 3, SINK)
  OBVIOUS
<1>2. tool.pc \in 1..Len(s) /\ Step = s[tool.pc]
  BY <1>1 DEF ToolFits, AtStep, Step
<1>3. CASE tool.prog = "6070cal"
  <2>1. s = low
    BY <1>1, <1>3 DEF StepsAt, ChannelSteps, TenVolts
  <2>2. Len(s) = 5
    BY <1>1, <2>1, Tables DEF Outputs
  <2>3. tool.pc \in 1..5 /\ ~(tool.pc > 5) /\ Output = 1 /\ OutputPlace = tool.pc
    BY <1>2, <2>2 DEF Output, OutputPlace
  <2>4. Step = low[OutputPlace]
    BY <1>2, <2>1, <2>3
  <2> QED
    BY <1>1, <1>3, <2>2, <2>3, <2>4
<1>4. CASE tool.prog = "6050cal"
  <2>1. s = low \o high
    BY <1>1, <1>4 DEF StepsAt, ChannelSteps, SourceAndSink
  <2>2. Len(s) = 10 /\ \A i \in 1..5 : s[i] = low[i] /\ s[i + 5] = high[i]
    <3>1. PICK a, b, c, d, e : low = <<a, b, c, d, e>>
      BY <1>1 DEF Outputs
    <3>2. PICK f, g, h, i, j : high = <<f, g, h, i, j>>
      BY <1>1 DEF Outputs
    <3>3. /\ Len(s) = 10
          /\ s[1] = a /\ s[2] = b /\ s[3] = c /\ s[4] = d /\ s[5] = e
          /\ s[6] = f /\ s[7] = g /\ s[8] = h /\ s[9] = i /\ s[10] = j
      BY <2>1, <3>1, <3>2, TwoTables
    <3> QED
      BY <3>1, <3>2, <3>3
  <2>3. CASE tool.pc > 5
    <3>1. OutputPlace = tool.pc - 5 /\ Output = 3 /\ tool.pc - 5 \in 1..5 /\ (tool.pc - 5) + 5 = tool.pc
      BY <1>2, <2>2, <2>3 DEF OutputPlace, Output
    <3>2. Step = high[OutputPlace]
      BY <1>2, <2>2, <3>1
    <3> QED
      BY <1>1, <1>2, <1>4, <2>2, <3>1, <3>2
  <2>4. CASE ~(tool.pc > 5)
    <3>1. OutputPlace = tool.pc /\ Output = 1 /\ tool.pc \in 1..5
      BY <1>2, <2>2, <2>4 DEF OutputPlace, Output
    <3>2. Step = low[OutputPlace]
      BY <1>2, <2>2, <3>1
    <3> QED
      BY <1>1, <1>2, <1>4, <2>2, <3>1, <3>2
  <2> QED
    BY <2>3, <2>4
<1> QED
  BY <1>3, <1>4 DEF OutputPrograms

\* behind the last channel
LEMMA LastTable ==
  ASSUME ToolFits(tool), tool.ch = Channels + 1, tool.prog \in ChannelPrograms
  PROVE  \/ Step = Store /\ tool.pc = Len(StepsAt(tool.prog, tool.ch))
         \/ Step = OutputsOff
<1>1. StepsAt(tool.prog, tool.ch) = LastSteps(tool.prog)
  BY ChannelsAssumption DEF StepsAt
<1>2. tool.pc \in 1..Len(StepsAt(tool.prog, tool.ch)) /\ Step = StepsAt(tool.prog, tool.ch)[tool.pc]
  BY DEF ToolFits, AtStep, Step
<1>3. CASE tool.prog \in OutputPrograms
  <2>1. PICK s : s = <<OutputsOff, Store>> /\ s = LastSteps(tool.prog)
    BY <1>3 DEF LastSteps, OutputPrograms
  <2>2. Len(s) = 2 /\ s[1] = OutputsOff /\ s[2] = Store
    BY <2>1
  <2>3. tool.pc = 1 \/ tool.pc = 2
    BY <1>1, <1>2, <2>1, <2>2
  <2> QED
    BY <1>1, <1>2, <2>1, <2>2, <2>3
<1>4. CASE tool.prog \notin OutputPrograms
  <2>1. PICK s : s = <<Store>> /\ s = LastSteps(tool.prog)
    <3>1. LastSteps(tool.prog) = <<Store>>
      BY <1>4 DEF LastSteps, OutputPrograms, ChannelPrograms
    <3> QED
      BY <3>1
  <2>2. Len(s) = 1 /\ s[1] = Store
    BY <2>1
  <2>3. tool.pc = 1
    BY <1>1, <1>2, <2>1, <2>2
  <2> QED
    BY <1>1, <1>2, <2>1, <2>2, <2>3
<1> QED
  BY <1>3, <1>4

LEMMA WordsRegister ==
  ASSUME NEW n \in {1, 2}, NEW v \in Seq(Nat), Len(v) = n + n,
         NEW reg, reg = [type |-> UINT16, length |-> n, value |-> v]
  PROVE  WellFormed(reg) /\ WholeBytes(reg)
<1>1. UINT16 \in 1..FLOAT16 /\ n \in Words
  BY SmallWords DEF UINT16, FLOAT16
<1>2. BitWidth(UINT16) = 16 /\ MaxLength(UINT16) = 128
  BY SMT DEF MaxLength, BitWidth, BIT_WIDTHS, UINT16
<1>3. RegisterBytes(reg) = n + n /\ WholeBytes(reg)
  <2>1. (n * 16 + 7) \div 8 = n + n /\ (n * 16) % 8 = 0
    OBVIOUS
  <2> QED
    BY <1>2, <2>1 DEF RegisterBytes, WholeBytes
<1>4. reg \in Register
  BY <1>1 DEF Register
<1> QED
  BY <1>2, <1>3, <1>4 DEF WellFormed

LEMMA ByteRegister ==
  ASSUME NEW b \in Nat
  PROVE  WellFormed(Uint8(b)) /\ WholeBytes(Uint8(b)) /\ Uint8(b).type = UINT8 /\ Uint8(b).value = <<b>>
<1>1. Uint8(b).type = UINT8 /\ Uint8(b).length = 1 /\ Uint8(b).value = <<b>>
  BY DEF Uint8
<1>2. Uint8(b) # NullReg
  BY <1>1 DEF UINT8, NullReg, EMPTY
<1>3. WellFormed(Uint8(b))
  BY <1>2, ByteRegisterFits, HeldFits
<1>4. WholeBytes(Uint8(b))
  BY <1>1, SMT DEF WholeBytes, BitWidth, BIT_WIDTHS, UINT8
<1> QED
  BY <1>1, <1>3, <1>4

\* two words and one, as registers
LEMMA TwoWords ==
  ASSUME NEW a \in Nat, NEW b \in Nat, NEW c \in Nat, NEW d \in Nat
  PROVE  /\ <<a, b>> \o <<c, d>> = <<a, b, c, d>>
         /\ Uint16(<<a, b, c, d>>) = [type |-> UINT16, length |-> 2, value |-> <<a, b, c, d>>]
         /\ WellFormed(Uint16(<<a, b, c, d>>)) /\ WholeBytes(Uint16(<<a, b, c, d>>))
<1>1. PICK v : v = <<a, b, c, d>>
  OBVIOUS
<1>2. v \in Seq(Nat) /\ Len(v) = 4
  BY <1>1
<1>3. <<a, b>> \o <<c, d>> = v
  <2>1. PICK s : s = <<a, b>> \o <<c, d>>
    OBVIOUS
  <2>2. s \in Seq(Nat) /\ Len(s) = 4 /\ s[1] = a /\ s[2] = b /\ s[3] = c /\ s[4] = d
    BY <2>1
  <2>3. v[1] = a /\ v[2] = b /\ v[3] = c /\ v[4] = d
    BY <1>1
  <2>4. \A i \in 1..4 : s[i] = v[i]
    BY <2>2, <2>3
  <2> QED
    BY <1>2, <2>1, <2>2, <2>4
<1>4. Uint16(v) = [type |-> UINT16, length |-> 2, value |-> v]
  <2>1. Len(v) \div 2 = 2
    BY <1>2
  <2> QED
    BY <2>1 DEF Uint16
<1>5. 2 \in {1, 2} /\ Len(v) = 2 + 2
  BY <1>2
<1>6. WellFormed(Uint16(v)) /\ WholeBytes(Uint16(v))
  BY <1>2, <1>4, <1>5, WordsRegister
<1> QED
  BY <1>1, <1>3, <1>4, <1>6

LEMMA OneWord ==
  ASSUME NEW a \in Nat, NEW b \in Nat
  PROVE  /\ Uint16(<<a, b>>) = [type |-> UINT16, length |-> 1, value |-> <<a, b>>]
         /\ WellFormed(Uint16(<<a, b>>)) /\ WholeBytes(Uint16(<<a, b>>))
<1>1. PICK v : v = <<a, b>>
  OBVIOUS
<1>2. v \in Seq(Nat) /\ Len(v) = 2
  BY <1>1
<1>3. Uint16(v) = [type |-> UINT16, length |-> 1, value |-> v]
  <2>1. Len(v) \div 2 = 1
    BY <1>2
  <2> QED
    BY <2>1 DEF Uint16
<1>4. 1 \in {1, 2} /\ Len(v) = 1 + 1
  BY <1>2
<1>5. WellFormed(Uint16(v)) /\ WholeBytes(Uint16(v))
  BY <1>2, <1>3, <1>4, WordsRegister
<1> QED
  BY <1>1, <1>3, <1>5

\* a register the step may change
Touches(name) == Step.op \in Accesses /\ name = Step.name

WritesRight ==
  /\ Step.op \in Writes => WellFormed(Regw) /\ WholeBytes(Regw)
  /\ Step.op \in Writes \ {"set"} => Regw \in Right(tool.prog, Step.name[2])

\* the registers a step is about are those of the channel
OfChannel ==
  /\ Step.op \in Accesses => \E kind : Step.name = <<tool.ch, kind>>
  /\ Step.op = "counts" => Step.name = <<tool.ch, COUNTS>>

LEMMA Kinds ==
  /\ \A c, d : <<c, MODE>> # <<d, CAL>> /\ <<c, MODE>> # <<d, COUNTS>> /\ <<c, MODE>> # <<d, SINK>>
  /\ \A c, d : <<c, CAL>> # <<d, SINK>> /\ <<c, CAL>> # <<d, COUNTS>> /\ <<c, SINK>> # <<d, COUNTS>>
  /\ CAL # SINK
BY DEF MODE, COUNTS, CAL, SINK

\* each program writes what is right, and does not touch again what it has made sure of
LEMMA PointsRight ==
  ASSUME ToolFits(tool), tool.ch <= Channels, tool.prog \in PointPrograms, Known
  PROVE  /\ WritesRight /\ OfChannel
         /\ Place > 1 => ~Touches(<<tool.ch, MODE>>)
         /\ tool.prog = "6180a_cal" => \A ch \in Channel : ~Touches(<<ch, MODE>>)
         /\ Place = 6 => Step.op = "pair" /\ Step.name = <<tool.ch, CAL>>
         /\ Step.op # "command"
<1>1. /\ Place \in 1..6 /\ (tool.prog = "6180a_cal" => Place > 1)
      /\ Step = PointSteps(tool.ch, Mode, tool.prog = "6090ccal")[Place]
  BY PointTable
<1>2. Mode \in Nat
  BY DEF Mode, PointMode, PointPrograms
<1>3. CASE Place = 1
  <2>1. Step = Set(tool.ch, MODE, Mode)
    BY <1>1, <1>3 DEF PointSteps
  <2>2. Step.op = "set" /\ Step.reg = Uint8(Mode) /\ Step.name = <<tool.ch, MODE>>
    BY <2>1 DEF Set
  <2>3. Regw = Uint8(Mode)
    BY <2>2 DEF Regw
  <2> QED
    BY <1>1, <1>2, <1>3, <2>2, <2>3, ByteRegister DEF OfChannel, WritesRight
<1>4. CASE Place \in {2, 4}
  <2>1. Step = Prompt(tool.ch, 1) \/ Step = Prompt(tool.ch, 2)
    BY <1>1, <1>4 DEF PointSteps
  <2>2. Step.op = "prompt"
    BY <2>1 DEF Prompt
  <2> QED
    BY <1>4, <2>2 DEF OfChannel, WritesRight, Writes, Touches, Accesses
<1>5. CASE Place \in {3, 5}
  <2>1. Step = Counts(tool.ch, "low") \/ Step = Counts(tool.ch, "high")
    BY <1>1, <1>5 DEF PointSteps
  <2>2. Step.op = "counts" /\ Step.name = <<tool.ch, COUNTS>>
    BY <2>1 DEF Counts
  <2> QED
    BY <1>5, <2>2, Kinds DEF OfChannel, WritesRight, Writes, Touches
<1>6. CASE Place = 6
  <2>1. Step = Pair(tool.ch, tool.prog = "6090ccal")
    BY <1>1, <1>6 DEF PointSteps
  <2>2. Step.op = "pair" /\ Step.name = <<tool.ch, CAL>> /\ Step.less = (tool.prog = "6090ccal")
    BY <2>1 DEF Pair
  <2>3. tool.low = <<1, Mode>> /\ tool.high = <<2, Mode>> /\ tool.acc.type = UINT16
    BY <1>6 DEF Known, PointsKnown
  <2>4. CASE tool.prog = "6090ccal"
    <3>1. Mode = 4
      BY <2>4 DEF Mode, PointMode
    <3>2. Less32768(<<1, 4>>) = <<1, 132>> /\ Less32768(<<2, 4>>) = <<2, 132>>
      BY DEF Less32768
    <3>3. Regw = [type |-> UINT16, length |-> 2, value |-> <<1, 132>> \o <<2, 132>>]
      BY <2>2, <2>3, <2>4, <3>1, <3>2 DEF Regw
    <3>4. Regw = Uint16(<<1, 132, 2, 132>>) /\ WellFormed(Regw) /\ WholeBytes(Regw)
      BY <3>3, TwoWords
    <3>5. Regw \in Right(tool.prog, CAL)
      BY <2>4, <3>4 DEF Right
    <3> QED
      BY <1>6, <2>2, <2>4, <3>4, <3>5, Kinds DEF OfChannel, WritesRight, Touches
  <2>5. CASE tool.prog # "6090ccal"
    <3>1. Regw = [type |-> UINT16, length |-> 2, value |-> <<1, Mode>> \o <<2, Mode>>]
      BY <2>2, <2>3, <2>5 DEF Regw
    <3>2. Regw = Uint16(<<1, Mode, 2, Mode>>) /\ WellFormed(Regw) /\ WholeBytes(Regw)
      BY <1>2, <3>1, TwoWords
    <3>3. Regw \in Right(tool.prog, CAL)
      BY <2>5, <3>2 DEF Right, PointPrograms, Mode, PointMode
    <3> QED
      BY <1>6, <2>2, <3>2, <3>3, Kinds DEF OfChannel, WritesRight, Touches
  <2> QED
    BY <2>4, <2>5
<1> QED
  BY <1>1, <1>3, <1>4, <1>5, <1>6

LEMMA ZeroRight ==
  ASSUME ToolFits(tool), tool.ch <= Channels, tool.prog = "6090cal", Known
  PROVE  /\ WritesRight /\ OfChannel
         /\ tool.pc > 1 => ~Touches(<<tool.ch, MODE>>)
         /\ tool.pc = 4 => Step.op = "offset" /\ Step.name = <<tool.ch, CAL>>
         /\ Step.op # "command"
<1>1. tool.pc \in 1..4 /\ Step = ZeroVolts(tool.ch)[tool.pc]
  BY ZeroTable
<1>2. CASE tool.pc = 1
  <2>1. Step = Set(tool.ch, MODE, 1)
    BY <1>1, <1>2 DEF ZeroVolts
  <2>2. Step.op = "set" /\ Step.reg = Uint8(1) /\ Step.name = <<tool.ch, MODE>>
    BY <2>1 DEF Set
  <2>3. Regw = Uint8(1)
    BY <2>2 DEF Regw
  <2> QED
    BY <1>2, <2>2, <2>3, ByteRegister DEF OfChannel, WritesRight
<1>3. CASE tool.pc = 2
  <2>1. Step = Prompt(tool.ch, 1)
    BY <1>1, <1>3 DEF ZeroVolts
  <2>2. Step.op = "prompt"
    BY <2>1 DEF Prompt
  <2> QED
    BY <1>3, <2>2 DEF OfChannel, WritesRight, Writes, Touches, Accesses
<1>4. CASE tool.pc = 3
  <2>1. Step = Counts(tool.ch, "low")
    BY <1>1, <1>4 DEF ZeroVolts
  <2>2. Step.op = "counts" /\ Step.name = <<tool.ch, COUNTS>>
    BY <2>1 DEF Counts
  <2> QED
    BY <1>4, <2>2, Kinds DEF OfChannel, WritesRight, Writes, Touches
<1>5. CASE tool.pc = 4
  <2>1. Step = Offset(tool.ch)
    BY <1>1, <1>5 DEF ZeroVolts
  <2>2. Step.op = "offset" /\ Step.name = <<tool.ch, CAL>>
    BY <2>1 DEF Offset
  <2>3. tool.acc = Uint16(<<1, 1>>) /\ tool.ch \in Nat
    BY <1>5 DEF Known, ZeroKnown, ToolFits, ToolStates
  <2>4. Regw = Uint16(<<1, 1>>)
    BY <2>2, <2>3 DEF Regw
  <2>5. WellFormed(Regw) /\ WholeBytes(Regw)
    BY <2>4, OneWord
  <2>6. Regw \in Right(tool.prog, CAL)
    BY <2>4 DEF Right
  <2> QED
    BY <1>5, <2>2, <2>5, <2>6, Kinds DEF OfChannel, WritesRight, Touches
<1> QED
  BY <1>1, <1>2, <1>3, <1>4, <1>5

LEMMA OutputsRight ==
  ASSUME ToolFits(tool), tool.ch <= Channels, tool.prog \in OutputPrograms, Known
  PROVE  /\ WritesRight /\ OfChannel
         /\ tool.pc > 5 => ~Touches(<<tool.ch, CAL>>)
         /\ OutputPlace = 5 =>
              Step.op = "measured" /\ Step.name = <<tool.ch, IF Output = 1 THEN CAL ELSE SINK>>
         /\ OutputPlace \in {2, 4} => Step.op # "command"
         /\ Step.op = "command" => Step.number = TEST_POINT /\ \E p \in Nat : Step.param = <<p>>
<1>1. PICK kind : kind = IF Output = 1 THEN CAL ELSE SINK
  OBVIOUS
<1>2. /\ OutputPlace \in 1..5 /\ Step = Outputs(tool.ch, Output, kind)[OutputPlace]
      /\ tool.pc \in 1..(IF tool.prog = "6050cal" THEN 10 ELSE 5)
  BY <1>1, OutputTable
<1>3. Output \in {1, 3} /\ (tool.pc > 5 <=> Output = 3)
  BY DEF Output
<1>4. CASE OutputPlace \in {1, 3}
  <2>1. PICK p \in Nat : Step = Command(TEST_POINT, <<p>>, "nothing")
    BY <1>2, <1>3, <1>4 DEF Outputs
  <2>2. Step.op = "command" /\ Step.number = TEST_POINT /\ Step.param = <<p>>
    BY <2>1 DEF Command
  <2> QED
    BY <1>4, <2>2 DEF OfChannel, WritesRight, Writes, Touches, Accesses
<1>5. CASE OutputPlace \in {2, 4}
  <2>1. PICK half : Step = Measure(half)
    BY <1>2, <1>5 DEF Outputs
  <2>2. Step.op = "measure"
    BY <2>1 DEF Measure
  <2> QED
    BY <1>5, <2>2 DEF OfChannel, WritesRight, Writes, Touches, Accesses
<1>6. CASE OutputPlace = 5
  <2>1. Step = Measured(tool.ch, kind)
    BY <1>2, <1>6 DEF Outputs
  <2>2. Step.op = "measured" /\ Step.name = <<tool.ch, kind>>
    BY <2>1 DEF Measured
  <2>3. tool.low = <<Output, 0>> /\ tool.high = <<Output + 1, 0>>
    BY <1>6 DEF Known, OutputsKnown
  <2>4. PICK next \in Nat : next = Output + 1
    BY <1>3
  <2>5. Regw = Uint16(<<Output, 0>> \o <<next, 0>>)
    BY <2>2, <2>3, <2>4 DEF Regw
  <2>6. Regw = Uint16(<<Output, 0, next, 0>>) /\ WellFormed(Regw) /\ WholeBytes(Regw)
    <3>1. PICK first \in Nat : first = Output
      BY <1>3
    <3>2. 0 \in Nat
      OBVIOUS
    <3>3. <<first, 0>> \o <<next, 0>> = <<first, 0, next, 0>>
      BY <3>2, TwoWords
    <3>4. Regw = Uint16(<<first, 0, next, 0>>)
      BY <2>5, <3>1, <3>3
    <3> QED
      BY <3>1, <3>2, <3>4, TwoWords
  <2>7. Regw \in Right(tool.prog, kind)
    <3>1. CASE Output = 1
      BY <1>1, <2>4, <2>6, <3>1 DEF Right, OutputPrograms
    <3>2. CASE Output = 3
      <4>1. tool.prog = "6050cal" /\ kind = SINK
        BY <1>1, <1>2, <1>3, <3>2 DEF OutputPrograms
      <4> QED
        BY <2>4, <2>6, <3>2, <4>1, Kinds DEF Right
    <3> QED
      BY <1>3, <3>1, <3>2
  <2> QED
    BY <1>1, <1>3, <1>6, <2>2, <2>6, <2>7, Kinds DEF OfChannel, WritesRight, Touches
<1> QED
  BY <1>2, <1>4, <1>5, <1>6

LEMMA WiringRight ==
  ASSUME ToolFits(tool), tool.ch <= Channels, tool.prog = "6190a_conf", Known
  PROVE  /\ WritesRight /\ OfChannel
         /\ tool.pc > 2 => ~Touches(<<tool.ch, CAL>>)
         /\ tool.pc = 2 => Step.op = "chosen" /\ Step.name = <<tool.ch, CAL>>
         /\ tool.pc = 4 => Step.op = "chosen" /\ Step.name = <<tool.ch, SINK>>
         /\ Step.op # "command"
<1>1. tool.pc \in 1..4 /\ Step = Wiring(tool.ch)[tool.pc]
  BY WiringTable
<1>2. CASE tool.pc \in {1, 3}
  <2>1. PICK kind : Step = Choose(tool.ch, kind)
    BY <1>1, <1>2 DEF Wiring
  <2>2. Step.op = "choose"
    BY <2>1 DEF Choose
  <2> QED
    BY <1>2, <2>2 DEF OfChannel, WritesRight, Writes, Touches, Accesses
<1>3. CASE tool.pc \in {2, 4}
  <2>1. Step = Chosen(tool.ch, IF tool.pc = 2 THEN CAL ELSE SINK)
    BY <1>1, <1>3 DEF Wiring
  <2>2. Step.op = "chosen" /\ Step.name = <<tool.ch, IF tool.pc = 2 THEN CAL ELSE SINK>>
    BY <2>1 DEF Chosen
  <2>3. tool.low = <<0>> \/ tool.low = <<1>>
    BY <1>3 DEF Known, WiringKnown
  <2>4. Regw = Uint8(0) \/ Regw = Uint8(1)
    BY <2>2, <2>3 DEF Regw, Uint8
  <2>5. WellFormed(Regw) /\ WholeBytes(Regw)
    BY <2>4, ByteRegister
  <2>6. \A kind : Regw \in Right(tool.prog, kind)
    BY <2>4 DEF Right
  <2> QED
    BY <1>3, <2>2, <2>5, <2>6, Kinds DEF OfChannel, WritesRight, Touches
<1> QED
  BY <1>1, <1>2, <1>3

LEMMA Families ==
  /\ ChannelPrograms = PointPrograms \cup {"6090cal"} \cup OutputPrograms \cup {"6190a_conf"}
  /\ "6090cal" \notin PointPrograms /\ "6190a_conf" \notin PointPrograms
  /\ "6090cal" \notin OutputPrograms /\ "6190a_conf" \notin OutputPrograms
  /\ PointPrograms \cap OutputPrograms = {}
BY DEF ChannelPrograms, PointPrograms, OutputPrograms

LEMMA StepRight ==
  ASSUME ToolFits(tool), tool.ch <= Channels, tool.prog \in ChannelPrograms, Known
  PROVE  /\ WritesRight /\ OfChannel
         /\ Step.op = "command" => /\ Step.number = TEST_POINT /\ \E p \in Nat : Step.param = <<p>>
                                   /\ tool.prog \in OutputPrograms /\ OutputPlace \notin {2, 4}
<1>1. CASE tool.prog \in PointPrograms
  BY <1>1, PointsRight
<1>2. CASE tool.prog = "6090cal"
  BY <1>2, ZeroRight
<1>3. CASE tool.prog \in OutputPrograms
  BY <1>3, OutputsRight
<1>4. CASE tool.prog = "6190a_conf"
  BY <1>4, WiringRight
<1> QED
  BY <1>1, <1>2, <1>3, <1>4, Families

\* the node may change what the step is about, and nothing else
OnlyTouched ==
  /\ DOMAIN device'.ram = DOMAIN device.ram
  /\ \A name \in DOMAIN device.ram : ~Touches(name) => device'.ram[name] = device.ram[name]
  /\ device'.input = device.input
  /\ Step.op # "command" => device'.point = device.point

LEMMA KnownKept ==
  ASSUME ToolFits(tool), tool.ch <= Channels, tool.prog \in ChannelPrograms, Known, OnlyTouched,
         tool' = tool
  PROVE  Known'
<1>1. ASSUME NEW name, NEW reg, Has(name, reg), ~Touches(name) PROVE Has(name, reg)'
  BY <1>1 DEF Has, OnlyTouched
<1>2. ASSUME NEW name, RightAt(name), ~Touches(name) PROVE RightAt(name)'
  BY <1>2 DEF RightAt, OnlyTouched
<1>3. /\ Place' = Place /\ Mode' = Mode /\ Output' = Output /\ OutputPlace' = OutputPlace
  BY DEF Place, Mode, Output, OutputPlace
<1>4. ModesKnown'
  <2> SUFFICES ASSUME tool.prog = "6180a_cal", NEW ch \in Channel PROVE Has(<<ch, MODE>>, Uint8(9))'
    BY DEF ModesKnown
  <2>1. ~Touches(<<ch, MODE>>)
    BY PointsRight DEF PointPrograms
  <2>2. Has(<<ch, MODE>>, Uint8(9))
    BY DEF Known, ModesKnown
  <2> QED
    BY <1>1, <2>1, <2>2
<1>5. PointsKnown'
  <2> SUFFICES ASSUME tool.prog \in PointPrograms PROVE PointsKnown'
    BY DEF PointsKnown
  <2>1. PointsKnown /\ (Place > 1 => ~Touches(<<tool.ch, MODE>>)) /\ Step.op # "command"
    BY PointsRight DEF Known
  <2>2. Place > 1 => Has(<<tool.ch, MODE>>, Uint8(Mode))'
    <3>1. PICK reg : reg = Uint8(Mode) /\ reg = Uint8(Mode')
      BY <1>3
    <3>2. Place > 1 => Has(<<tool.ch, MODE>>, reg)'
      BY <1>1, <2>1, <3>1 DEF PointsKnown
    <3> QED
      BY <3>1, <3>2 DEF Has
  <2> QED
    BY <1>3, <2>1, <2>2 DEF PointsKnown, OnlyTouched
<1>6. ZeroKnown'
  <2> SUFFICES ASSUME tool.prog = "6090cal" PROVE ZeroKnown'
    BY DEF ZeroKnown
  <2>1. ZeroKnown /\ (tool.pc > 1 => ~Touches(<<tool.ch, MODE>>))
    BY ZeroRight DEF Known
  <2>2. tool.pc > 1 => Has(<<tool.ch, MODE>>, Uint8(1))'
    BY <1>1, <2>1 DEF ZeroKnown
  <2> QED
    BY <2>1, <2>2 DEF ZeroKnown, OnlyTouched
<1>7. OutputsKnown'
  <2> SUFFICES ASSUME tool.prog \in OutputPrograms PROVE OutputsKnown'
    BY DEF OutputsKnown
  <2>1. /\ OutputsKnown /\ (tool.pc > 5 => ~Touches(<<tool.ch, CAL>>))
        /\ OutputPlace \in {2, 4} => device'.point = device.point
    BY OutputsRight DEF Known, OnlyTouched
  <2>2. tool.pc > 5 => RightAt(<<tool.ch, CAL>>)'
    BY <1>2, <2>1 DEF OutputsKnown
  <2> QED
    BY <1>3, <2>1, <2>2 DEF OutputsKnown
<1>8. WiringKnown'
  <2> SUFFICES ASSUME tool.prog = "6190a_conf" PROVE WiringKnown'
    BY DEF WiringKnown
  <2>1. WiringKnown /\ (tool.pc > 2 => ~Touches(<<tool.ch, CAL>>))
    BY WiringRight DEF Known
  <2>2. tool.pc > 2 => RightAt(<<tool.ch, CAL>>)'
    BY <1>2, <2>1 DEF WiringKnown
  <2> QED
    BY <2>1, <2>2 DEF WiringKnown
<1> QED
  BY <1>4, <1>5, <1>6, <1>7, <1>8 DEF Known

LEMMA DoneKept ==
  ASSUME ChannelsDone, tool' = tool, DOMAIN device'.ram = DOMAIN device.ram,
         \A name \in DOMAIN device.ram : ~Touches(name) => device'.ram[name] = device.ram[name],
         Step.op \in Accesses => tool.ch <= Channels /\ OfChannel,
         tool.ch \in Nat
  PROVE  ChannelsDone'
<1> SUFFICES ASSUME NEW name \in Calibrates(tool.prog), name[1] < tool.ch PROVE RightAt(name)'
  BY DEF ChannelsDone, Calibrates
<1>1. ~Touches(name)
  <2> SUFFICES ASSUME Touches(name) PROVE FALSE
    OBVIOUS
  <2>1. name[1] = tool.ch
    BY DEF Touches, OfChannel
  <2> QED
    BY <2>1
<1> QED
  BY <1>1 DEF ChannelsDone, RightAt

-----------------------------------------------------------------------------
\* the call that is under way is about a register of a channel, or a command
LEMMA CallKnown ==
  ASSUME ToolFits(tool), tool.prog \in ChannelPrograms, Known, IsCall
  PROVE  \/ /\ tool.ch \in Channel /\ Step.op \in Writes \cup {"counts"}
            /\ Step.name \in ChannelNames /\ WritesRight /\ OfChannel
            /\ \A c : /\ RequestOf(c).port = ACCESS
                      /\ RequestOf(c).payload = AccessRequest(Step.name, Regw)
         \/ /\ Step.op = "command"
            /\ \A c : /\ RequestOf(c).port = COMMAND
                      /\ RequestOf(c).payload = CommandRequest(Step.number, Step.param)
            /\ \/ Step.number = TEST_POINT /\ \E p \in Nat : Step.param = <<p>>
               \/ Step = Store /\ tool.ch = Channels + 1 /\ Step.number = STORE /\ Step.param = <<>>
<1>1. CASE tool.ch <= Channels
  <2>1. Step \in ChannelStep /\ tool.ch \in Channel
    <3>1. ~(tool.ch = Channels + 1)
      BY <1>1, ChannelsAssumption
    <3> QED
      BY <3>1, StepFits
  <2>2. CASE Step.op = "command"
    BY <1>1, <2>2, StepRight DEF RequestOf, Accesses
  <2>3. CASE Step.op # "command"
    <3>1. Step.op \in Writes \cup {"counts"} /\ Step.name \in ChannelNames
      BY <2>1, <2>3 DEF ChannelStep, IsCall, Accesses, Writes
    <3>2. Step.op \in Accesses /\ Step.op # "listed"
      BY <3>1 DEF Accesses, Writes
    <3>3. Name = Step.name
      BY <3>2 DEF Name
    <3>4. Step.op \notin {"command", "list", "info"}
      BY <3>1 DEF Writes
    <3>5. \A c : RequestOf(c).port = ACCESS /\ RequestOf(c).payload = AccessRequest(Step.name, Regw)
      BY <3>2, <3>3, <3>4 DEF RequestOf
    <3> QED
      BY <1>1, <2>1, <3>1, <3>5, StepRight
  <2> QED
    BY <2>2, <2>3
<1>2. CASE ~(tool.ch <= Channels)
  <2>1. tool.ch = Channels + 1
    BY <1>2, ChannelsAssumption DEF ToolFits, ToolStates
  <2>2. Step = Store \/ Step = OutputsOff
    BY <2>1, LastTable
  <2>3. Step.op = "command"
    BY <2>2 DEF Store, OutputsOff, Command
  <2>4. Step = Store => Step.number = STORE /\ Step.param = <<>>
    BY DEF Store, Command
  <2>5. Step = OutputsOff => Step.number = TEST_POINT /\ Step.param = <<0>>
    BY DEF OutputsOff, Command
  <2> QED
    BY <2>1, <2>2, <2>3, <2>4, <2>5 DEF RequestOf, Accesses
<1> QED
  BY <1>1, <1>2

\* a register is read or written as the step wants it
LEMMA CalAccess ==
  ASSUME ToolInv, tool.prog \in ChannelPrograms, Known, IsCall, NEW m, m = RequestOf(m.call),
         NodeAccesses(m), tool' = tool
  PROVE  \E new : /\ Reply(m, NodeAnswersAccess(new), FoundReg(new))
                  /\ FoundReg(new) = Found \/ Effect(FoundReg(new).reg)'
                  /\ OnlyTouched /\ device'.eeprom = device.eeprom
                  /\ tool.ch <= Channels /\ OfChannel
<1> DEFINE a    == NodeReadsAccess(m.payload)
           here == a.name \in DOMAIN device.ram
           new  == IF a.reg.type = EMPTY \/ ~here THEN RegisterOf(a.name) ELSE a.reg
<1>1. m.port = ACCESS /\ Reply(m, NodeAnswersAccess(new), FoundReg(new))
      /\ device' = IF here THEN [device EXCEPT !.ram[a.name] = new] ELSE device
  BY DEF NodeAccesses
<1>2. /\ tool.ch \in Channel /\ Step.op \in Writes \cup {"counts"}
      /\ Step.name \in ChannelNames /\ WritesRight /\ OfChannel
      /\ m.payload = AccessRequest(Step.name, Regw)
  BY <1>1, CallKnown, Ports DEF ToolInv
<1>3. Step.name \in Names
  BY <1>2, NamesOfChannels
<1>4. /\ a.name = Step.name
      /\ Step.op \in Writes => a.reg = Regw /\ a.reg.type # EMPTY /\ WellFormed(Regw)
      /\ Step.op = "counts" => a.reg.type = EMPTY
  <2>1. CASE Step.op \in Writes
    <3>1. WellFormed(Regw) /\ WholeBytes(Regw)
      BY <1>2, <2>1 DEF WritesRight
    <3>2. a = [name |-> Step.name, reg |-> Regw]
      BY <1>2, <1>3, <3>1, AccessRead
    <3>3. Regw.type # EMPTY /\ Step.op # "counts"
      BY <2>1, <3>1, Fits DEF Writes
    <3> QED
      BY <3>1, <3>2, <3>3
  <2>2. CASE Step.op = "counts"
    <3>1. Regw = NullReg
      BY <2>2 DEF Regw
    <3>2. Sendable(NullReg) /\ NullReg.type = EMPTY
      BY HeldFits DEF HeldRegs, NullReg
    <3>3. a.name = Step.name /\ a.reg.type = EMPTY
      BY <1>2, <1>3, <3>1, <3>2, NodeReadsNothing
    <3> QED
      BY <2>2, <3>3 DEF Writes
  <2> QED
    BY <1>2, <2>1, <2>2
<1>5. /\ ~here => new = NullReg
      /\ here /\ Step.op \in Writes => new = Regw
      /\ here /\ Step.op = "counts" => new = RegisterOf(Step.name)
      /\ new \in HeldRegs
  <2>1. ~here => RegisterOf(a.name) = NullReg
    BY DEF RegisterOf
  <2>2. RegisterOf(a.name) \in HeldRegs
    BY RegisterOfFits DEF ToolInv
  <2>3. WellFormed(a.reg) => a.reg \in HeldRegs
    BY DEF HeldRegs, WellFormed
  <2> QED
    BY <1>2, <1>4, <2>1, <2>2, <2>3
<1> HIDE DEF new, a
<1>6. PICK names \in NameSets : device \in DeviceStates(names)
  BY DEF ToolInv, DeviceFits
<1>7. PICK name \in ChannelNames : name = Step.name
  BY <1>2
<1>8. CASE ~here
  <2>1. device' = device /\ new = NullReg /\ FoundReg(new) = Found
    BY <1>1, <1>5, <1>8, FoundFits
  <2>2. OnlyTouched
    BY <2>1 DEF OnlyTouched
  <2> QED
    BY <1>1, <1>2, <2>1, <2>2 DEF Channel
<1>9. CASE here
  <2>1. PICK reg : reg = new
    OBVIOUS
  <2>2. name \in names /\ names = DOMAIN device.ram /\ device.ram \in [names -> HeldRegs]
    BY <1>4, <1>6, <1>7, <1>9 DEF DeviceStates
  <2>3. device' = [device EXCEPT !.ram = [device.ram EXCEPT ![name] = reg]]
    BY <1>1, <1>4, <1>7, <1>9, <2>1
  <2>4. /\ device'.ram = [device.ram EXCEPT ![name] = reg]
        /\ device'.eeprom = device.eeprom /\ device'.input = device.input
        /\ device'.point = device.point
    BY <1>6, <2>3 DEF DeviceStates
  <2>5. /\ DOMAIN device'.ram = names /\ device'.ram[name] = reg
        /\ \A n \in names : n # name => device'.ram[n] = device.ram[n]
    BY <2>2, <2>4
  <2>6. OnlyTouched
    <3>1. Step.op \in Accesses
      BY <1>2 DEF Accesses, Writes
    <3> QED
      BY <1>7, <2>2, <2>4, <2>5, <3>1 DEF OnlyTouched, Touches
  <2>7. Has(name, reg)'
    BY <2>2, <2>5 DEF Has
  <2>8. Step.op = "counts" => reg = RegisterOf(name)'
    <3> SUFFICES ASSUME Step.op = "counts" PROVE reg = RegisterOf(name)'
      OBVIOUS
    <3>1. name = <<tool.ch, COUNTS>> /\ name[1] = tool.ch /\ name \in (1..Channels) \X {COUNTS}
      BY <1>2, <1>7 DEF OfChannel, Channel
    <3>2. PICK mode : mode = <<tool.ch, MODE>> /\ mode # name
      <4>1. <<tool.ch, MODE>> # <<tool.ch, COUNTS>>
        BY Kinds
      <4> QED
        BY <3>1, <4>1
    <3>3. mode \in names
      <4>1. name \notin Listed
        BY ListedFits DEF Listed
      <4>2. mode \in ChannelNames /\ mode # <<Channels, CAL>>
        BY <1>2, <3>2, Kinds DEF ChannelNames, Channel
      <4> QED
        BY <1>6, <2>2, <4>1, <4>2 DEF NameSets
    <3>4. device'.ram[mode] = device.ram[mode]
      BY <2>5, <3>2, <3>3
    <3>5. RegisterOf(name) = Uint16(<<device.input[tool.ch], GetU8(device.ram[mode].value, 0)>>)
      BY <2>2, <3>1, <3>2 DEF RegisterOf
    <3>6. RegisterOf(name)' = Uint16(<<device'.input[tool.ch], GetU8(device'.ram[mode].value, 0)>>)
      BY <2>2, <2>5, <3>1, <3>2 DEF RegisterOf
    <3>7. RegisterOf(name)' = RegisterOf(name)
      BY <2>4, <3>4, <3>5, <3>6
    <3> QED
      BY <1>5, <1>7, <1>9, <2>1, <3>7
  <2>9. Step' = Step /\ Regw' = Regw /\ Step.op # "command"
    BY <1>2, SameTools DEF Writes
  <2>10. Effect(reg)'
    <3>1. Step.op \in Writes => Regw = reg
      BY <1>5, <1>9, <2>1
    <3>2. Step.op = "counts" => reg = RegisterOf(name)'
      BY <2>8
    <3> QED
      BY <1>7, <2>7, <2>9, <3>1, <3>2 DEF Effect
  <2>11. FoundReg(reg).reg = reg
    BY <1>5, <2>1, FoundFits
  <2> QED
    BY <1>1, <1>2, <2>1, <2>4, <2>6, <2>10, <2>11 DEF Channel
<1> QED
  BY <1>8, <1>9

\* what is not in memory only stays until the node stores
LEMMA CalEeprom ==
  ASSUME ToolInv, CalInv, Calibrating, NEW m \in wire, NodeHandles(m)
  PROVE  EepromKept' /\ StoreIsLast'
<1>1. m.kind = "request" /\ tool' = tool
  BY DEF NodeHandles
<1>2. PICK names \in NameSets : device \in DeviceStates(names)
  BY DEF ToolInv, DeviceFits
<1>3. EepromKept /\ StoreIsLast
  BY DEF CalInv, Calibrating
<1>4. PICK payload, fact : Reply(m, payload, fact)
  BY DEF NodeHandles, NodeAccesses, NodeLists, NodeInforms, NodeObeys
<1>5. StoreIsLast'
  <2> SUFFICES ASSUME NEW n \in wire', n.kind = "request", n.port = COMMAND,
                      ~\E p \in Nat : n.payload = CommandRequest(TEST_POINT, <<p>>)
               PROVE  FALSE
    BY DEF StoreIsLast
  <2>1. n \in wire \ {m}
    BY <1>4 DEF Reply
  <2>2. wire = {n}
    BY <1>3, <2>1 DEF StoreIsLast
  <2> QED
    BY <2>1, <2>2
<1> SUFFICES EepromKept'
  BY <1>5
<1>6. ASSUME device'.eeprom = device.eeprom PROVE EepromKept'
  BY <1>1, <1>3, <1>6 DEF EepromKept, Calibrates, Right
<1>7. CASE NodeAccesses(m)
  <2>1. device'.eeprom = device.eeprom
    BY <1>2, <1>7 DEF NodeAccesses, DeviceStates
  <2> QED
    BY <1>6, <2>1
<1>8. CASE UNCHANGED device
  BY <1>6, <1>8
<1>9. CASE /\ m.port = COMMAND
           /\ device' = Commanded(GetU16(m.payload, 0, 2), SubSeq(m.payload, 4, Len(m.payload)))
  <2>1. ASSUME NEW p \in Nat, m.payload = CommandRequest(TEST_POINT, <<p>>) PROVE EepromKept'
    <3>1. Numbered(TEST_POINT, <<p>>)
      BY DEF Numbered
    <3>2. device' = Commanded(TEST_POINT, <<p>>)
      BY <1>9, <2>1, <3>1, CommandArrives
    <3>3. device'.eeprom = device.eeprom
      BY <1>2, <3>2, Numbers DEF Commanded, DeviceStates
    <3> QED
      BY <1>6, <3>3
  <2>2. CASE m.payload = CommandRequest(STORE, <<>>) /\ Calibrated
    <3>1. Numbered(STORE, <<>>)
      BY DEF Numbered
    <3>2. device' = Commanded(STORE, <<>>)
      BY <1>9, <2>2, <3>1, CommandArrives
    <3>3. device' = [device EXCEPT !.eeprom = device.ram]
      BY <3>2, Numbers, Zenon DEF Commanded
    <3>4. device'.eeprom = device.ram
      BY <1>2, <3>3 DEF DeviceStates
    <3>5. \A n \in Calibrates(tool.prog) :
            n \in DOMAIN device'.eeprom /\ device'.eeprom[n] \in Right(tool.prog, n[2])
      BY <2>2, <3>4 DEF Calibrated, RightAt
    <3> QED
      BY <1>1, <3>5 DEF EepromKept, Calibrates, Right
  <2> QED
    BY <1>1, <1>3, <1>9, <2>1, <2>2 DEF StoreIsLast
<1> QED
  BY <1>7, <1>8, <1>9 DEF NodeHandles, NodeLists, NodeInforms, NodeObeys

\* the answer tells the tool whether the step was done
TellsRight(m, payload, fact) ==
  \/ m.port = ACCESS /\ fact = Found
  \/ m.port = COMMAND /\ payload # <<0>>
  \/ Effect(fact.reg)'

LEMMA CalTold ==
  ASSUME ToolInv, CalInv, Calibrating, tool.exit = "running", IsCall,
         NEW m \in wire, m = RequestOf(m.call), NodeHandles(m)
  PROVE  \E payload, fact : Reply(m, payload, fact) /\ TellsRight(m, payload, fact)
                            /\ ChannelsDone' /\ Known'
<1>1. tool' = tool /\ ToolFits(tool) /\ tool.prog \in ChannelPrograms /\ tool.ch \in Nat
  BY ChannelsAssumption DEF NodeHandles, ToolInv, ToolFits, ToolStates, Calibrating
<1>2. Known /\ ChannelsDone
  BY DEF CalInv, Calibrating
<1>3. m.port \in {ACCESS, COMMAND}
  BY <1>1, <1>2, CallKnown
<1>4. CASE NodeAccesses(m)
  <2>1. PICK new : /\ Reply(m, NodeAnswersAccess(new), FoundReg(new))
                   /\ FoundReg(new) = Found \/ Effect(FoundReg(new).reg)'
                   /\ OnlyTouched /\ device'.eeprom = device.eeprom
                   /\ tool.ch <= Channels /\ OfChannel
    BY <1>1, <1>2, <1>4, CalAccess
  <2>2. Known'
    BY <1>1, <1>2, <2>1, KnownKept
  <2>3. ChannelsDone'
    BY <1>1, <1>2, <2>1, DoneKept DEF OnlyTouched
  <2>4. m.port = ACCESS
    BY <1>4 DEF NodeAccesses
  <2> QED
    BY <2>1, <2>2, <2>3, <2>4 DEF TellsRight
<1>5. ASSUME NEW status \in {0, 1}, NodeObeys(m, status)
      PROVE  /\ Reply(m, <<status>>, Found) /\ TellsRight(m, <<status>>, Found)
             /\ ChannelsDone' /\ Known'
  <2>1. m.port = COMMAND /\ Reply(m, <<status>>, Found)
    BY <1>5 DEF NodeObeys
  <2>2. /\ Step.op = "command" /\ m.payload = CommandRequest(Step.number, Step.param)
        /\ \/ Step.number = TEST_POINT /\ \E p \in Nat : Step.param = <<p>>
           \/ Step = Store /\ tool.ch = Channels + 1 /\ Step.number = STORE /\ Step.param = <<>>
    BY <1>1, <1>2, <2>1, CallKnown, Ports
  <2>3. Numbered(Step.number, Step.param)
    BY <2>2 DEF Numbered
  <2>4. device' = IF status = 0 THEN Commanded(Step.number, Step.param) ELSE device
    <3>1. PICK number, param : number = Step.number /\ param = Step.param
      OBVIOUS
    <3>2. GetU16(m.payload, 0, 2) = number /\ SubSeq(m.payload, 4, Len(m.payload)) = param
      BY <2>2, <2>3, <3>1, CommandArrives
    <3>3. device' = IF status = 0 THEN Commanded(number, param) ELSE device
      BY <1>5, <3>2 DEF NodeObeys
    <3> QED
      BY <3>1, <3>3
  <2>5. PICK names \in NameSets : device \in DeviceStates(names)
    BY DEF ToolInv, DeviceFits
  <2>6. device'.ram = device.ram /\ device'.input = device.input
    BY <2>2, <2>4, <2>5, Numbers DEF Commanded, DeviceStates
  <2>7. status = 0 /\ Step.number = TEST_POINT => device'.point = Step.param[1]
    BY <2>4, <2>5, Numbers DEF Commanded, DeviceStates
  <2>8. status = 1 => <<status>> # <<0>>
    OBVIOUS
  <2>9. status = 0 => Effect(Found.reg)'
    <3>1. Step' = Step /\ Regw' = Regw
      BY <1>1, SameTools
    <3> QED
      BY <2>2, <2>7, <3>1 DEF Effect, Writes
  <2>10. OnlyTouched
    BY <2>2, <2>6 DEF OnlyTouched
  <2>11. ChannelsDone'
    BY <1>1, <1>2, <2>2, <2>6, DoneKept DEF Accesses
  <2>12. Known'
    <3>1. CASE tool.ch <= Channels
      BY <1>1, <1>2, <2>10, <3>1, KnownKept
    <3>2. CASE ~(tool.ch <= Channels)
      BY <1>1, <1>2, <2>6, <3>2 DEF Known, ModesKnown, Has
    <3> QED
      BY <3>1, <3>2
  <2> QED
    BY <2>1, <2>8, <2>9, <2>11, <2>12 DEF TellsRight
<1> QED
  BY <1>3, <1>4, <1>5, Ports DEF NodeHandles, NodeLists, NodeInforms

LEMMA CalNode ==
  ASSUME ToolInv, CalInv, Calibrating, NEW m \in wire, NodeHandles(m)
  PROVE  CalInv'
<1>1. m.kind = "request" /\ UNCHANGED <<vars, tool, stdin, truth, mishaps>>
  BY DEF NodeHandles
<1>2. EepromKept' /\ StoreIsLast'
  BY CalEeprom
<1>3. stdin' = 0
  BY <1>1 DEF CalInv, Calibrating
<1>4. ASSUME tool.exit = "running" PROVE OneMessage' /\ ChannelsDone' /\ Known'
  <2>1. OneMessage
    BY <1>4 DEF CalInv, Calibrating
  <2>2. wire = {m} /\ frames # <<>> /\ m = RequestOf(m.call)
    BY <1>1, <2>1 DEF OneMessage
  <2>3. IsCall
    BY <2>2 DEF ToolInv, Waiting
  <2>4. PICK payload, fact : Reply(m, payload, fact) /\ TellsRight(m, payload, fact)
                             /\ ChannelsDone' /\ Known'
    BY <1>4, <2>2, <2>3, CalTold
  <2>5. PICK answer : answer = [kind |-> "answer", call |-> m.call, port |-> m.port,
                                payload |-> payload, truth |-> fact]
    OBVIOUS
  <2>6. wire' = {answer}
    BY <2>2, <2>4, <2>5 DEF Reply
  <2>7. answer.kind = "answer" /\ Told(answer)'
    <3>1. answer.kind = "answer" /\ answer.port = m.port /\ answer.payload = payload /\ answer.truth = fact
      BY <2>5
    <3> QED
      BY <2>4, <3>1 DEF Told, TellsRight
  <2>8. frames' = frames /\ sync_flag' = sync_flag /\ sync_return' = sync_return /\ Step' = Step
    BY <1>1, SameTools DEF vars
  <2>9. sync_flag => sync_return.r = "ETIMEDOUT"
    BY <2>1, <2>2 DEF OneMessage
  <2>10. ~Mishap(sync_return.r)' \/ ~sync_flag
    BY <2>1, <2>2, <2>8 DEF OneMessage, Mishap
  <2>11. OneMessage'
    BY <2>2, <2>6, <2>7, <2>8, <2>9, <2>10 DEF OneMessage
  <2> QED
    BY <2>4, <2>11
<1> QED
  BY <1>1, <1>2, <1>3, <1>4 DEF CalInv

-----------------------------------------------------------------------------
SameStepOf(t, u) ==
  /\ SameTool(t, u) /\ u.ch = t.ch /\ u.pc = t.pc
  /\ u.acc = t.acc /\ u.low = t.low /\ u.high = t.high

\* what is known does not change with what the tool has got
LEMMA CalSame ==
  ASSUME SameStepOf(tool, tool'), device' = device
  PROVE  /\ EepromKept => EepromKept'
         /\ ChannelsDone => ChannelsDone'
         /\ Known => Known'
         /\ Calibrated => Calibrated'
         /\ Step' = Step
         /\ \A reg : Effect(reg) => Effect(reg)'
<1>1. /\ tool'.prog = tool.prog /\ tool'.ch = tool.ch /\ tool'.pc = tool.pc
      /\ tool'.acc = tool.acc /\ tool'.low = tool.low /\ tool'.high = tool.high
      /\ tool'.id = tool.id
  BY DEF SameStepOf, SameTool
<1>2. Step' = Step /\ Regw' = Regw
  BY <1>1, SameStep
<1>3. /\ EepromKept => EepromKept'
      /\ ChannelsDone => ChannelsDone'
      /\ Calibrated => Calibrated'
  <2>1. /\ Calibrates(tool.prog)' = Calibrates(tool.prog)
        /\ \A kind : Right(tool.prog, kind)' = Right(tool.prog, kind)
    BY <1>1 DEF Calibrates, Right
  <2>2. EepromKept => EepromKept'
    BY <2>1 DEF EepromKept
  <2>3. \A name : RightAt(name)' <=> RightAt(name)
    BY <2>1 DEF RightAt
  <2>4. Calibrated => Calibrated'
    BY <2>1, <2>3 DEF Calibrated
  <2>5. ChannelsDone => ChannelsDone'
    BY <1>1, <2>1, <2>3 DEF ChannelsDone
  <2> QED
    BY <2>2, <2>4, <2>5
<1>4. \A reg : Effect(reg) => Effect(reg)'
  BY <1>2 DEF Effect, Has, RegisterOf
<1>5. /\ Place' = Place /\ Mode' = Mode /\ Output' = Output /\ OutputPlace' = OutputPlace
  BY <1>1 DEF Place, Mode, Output, OutputPlace
<1>6. PointsKnown => PointsKnown'
  BY <1>1, <1>5 DEF PointsKnown, Has
<1>7. ZeroKnown => ZeroKnown'
  BY <1>1 DEF ZeroKnown, Has
<1>8. OutputsKnown => OutputsKnown'
  BY <1>1, <1>5 DEF OutputsKnown, RightAt
<1>9. WiringKnown => WiringKnown'
  BY <1>1 DEF WiringKnown, RightAt
<1>10. Known => Known'
  <2> SUFFICES ASSUME Known PROVE Known'
    OBVIOUS
  <2>1. ModesKnown'
    <3>1. ModesKnown
      BY DEF Known
    <3> QED
      BY <1>1, <3>1 DEF ModesKnown, Has
  <2>2. ASSUME tool'.ch <= Channels PROVE PointsKnown' /\ ZeroKnown' /\ OutputsKnown' /\ WiringKnown'
    <3>1. ModesKnown /\ PointsKnown /\ ZeroKnown /\ OutputsKnown /\ WiringKnown
      BY <1>1, <2>2 DEF Known
    <3> QED
      BY <1>6, <1>7, <1>8, <1>9, <3>1
  <2> QED
    BY <2>1, <2>2 DEF Known
<1> QED
  BY <1>2, <1>3, <1>4, <1>10

\* a message less
LEMMA StoreStaysLast ==
  ASSUME StoreIsLast, wire' \subseteq wire, Calibrated => Calibrated'
  PROVE  StoreIsLast'
<1> SUFFICES ASSUME NEW m \in wire', m.kind = "request", m.port = COMMAND,
                    ~\E p \in Nat : m.payload = CommandRequest(TEST_POINT, <<p>>)
             PROVE  m.payload = CommandRequest(STORE, <<>>) /\ wire' = {m} /\ Calibrated'
  BY DEF StoreIsLast
<1>1. m.payload = CommandRequest(STORE, <<>>) /\ wire = {m} /\ Calibrated
  BY DEF StoreIsLast
<1> QED
  BY <1>1

LEMMA CalWaits ==
  ASSUME ToolInv, CalInv, Calibrating, UNCHANGED allVars \/ ToolWaits
  PROVE  CalInv'
<1>1. /\ tool' = tool /\ stdin' = stdin /\ device' = device /\ wire' = wire /\ mishaps' = mishaps
      /\ sync_flag' = sync_flag /\ sync_return' = sync_return /\ (frames' = <<>> <=> frames = <<>>)
  BY StillBlocked
<1>2. SameStepOf(tool, tool')
  BY <1>1 DEF SameStepOf, SameTool
<1>3. stdin = 0 /\ EepromKept /\ StoreIsLast /\ mishaps \in Nat
  BY DEF CalInv
<1>4. StoreIsLast'
  BY <1>1, <1>2, <1>3, CalSame, StoreStaysLast
<1>5. ASSUME tool.exit = "running" PROVE OneMessage' /\ ChannelsDone' /\ Known'
  <2>1. OneMessage /\ ChannelsDone /\ Known
    BY <1>5 DEF CalInv
  <2>2. ChannelsDone' /\ Known' /\ Step' = Step /\ \A reg : Effect(reg) => Effect(reg)'
    BY <1>1, <1>2, <2>1, CalSame
  <2>3. \A m : RequestOf(m.call)' = RequestOf(m.call)
    BY <1>1, SameTools
  <2>4. ASSUME NEW m \in wire' PROVE m = RequestOf(m.call)' \/ (m.kind = "answer" /\ Told(m)')
    <3>1. m = RequestOf(m.call) \/ (m.kind = "answer" /\ Told(m))
      BY <1>1, <2>1 DEF OneMessage
    <3>2. Told(m) => Told(m)'
      BY <2>2 DEF Told
    <3> QED
      BY <2>3, <3>1, <3>2
  <2>5. Mishap(sync_return.r)' <=> Mishap(sync_return.r)
    BY <1>1, <2>2 DEF Mishap
  <2>6. Effect(tool.got.reg) => Effect(tool.got.reg)'
    BY <1>1, <2>2
  <2>7. /\ frames' = <<>> => wire' = {}
        /\ \A m, n \in wire' : m = n
        /\ frames' # <<>> /\ sync_flag' =>
             /\ sync_return'.r # "ETIMEDOUT" => wire' = {}
             /\ Mishap(sync_return.r)' => FALSE
             /\ sync_return'.r = "0" => Effect(tool.got.reg)'
    BY <1>1, <2>1, <2>5, <2>6 DEF OneMessage
  <2> QED
    BY <2>2, <2>4, <2>7 DEF OneMessage
<1> QED
  BY <1>1, <1>2, <1>3, <1>4, <1>5, CalSame DEF CalInv

LEMMA CalTimedOut ==
  ASSUME ToolInv, CalInv, Calibrating', NEW c \in Calls, TimedOut(c)
  PROVE  CalInv'
<1>1. /\ tool' = tool /\ stdin' = stdin /\ device' = device /\ wire' \subseteq wire
      /\ sync_return'.r = "ETIMEDOUT" /\ frames # <<>> /\ frames' = frames
      /\ mishaps' = IF Mishap("ETIMEDOUT") THEN mishaps + 1 ELSE mishaps
  BY DEF TimedOut, SyncCallback, Counted
<1>2. SameStepOf(tool, tool')
  BY <1>1 DEF SameStepOf, SameTool
<1>3. mishaps = 0 /\ ~Mishap("ETIMEDOUT") /\ Calibrating
  BY <1>1 DEF CalInv, Calibrating
<1>4. stdin = 0 /\ EepromKept /\ StoreIsLast /\ mishaps \in Nat
  BY <1>3 DEF CalInv
<1>5. StoreIsLast'
  BY <1>1, <1>2, <1>4, CalSame, StoreStaysLast
<1>6. ASSUME tool.exit = "running" PROVE OneMessage' /\ ChannelsDone' /\ Known'
  <2>1. OneMessage /\ ChannelsDone /\ Known
    BY <1>3, <1>6 DEF CalInv
  <2>2. ChannelsDone' /\ Known' /\ Step' = Step /\ \A reg : Effect(reg) => Effect(reg)'
    BY <1>1, <1>2, <2>1, CalSame
  <2>3. \A m : RequestOf(m.call)' = RequestOf(m.call)
    BY <1>1, SameTools
  <2>4. ASSUME NEW m \in wire' PROVE m = RequestOf(m.call)' \/ (m.kind = "answer" /\ Told(m)')
    <3>1. m = RequestOf(m.call) \/ (m.kind = "answer" /\ Told(m))
      BY <1>1, <2>1 DEF OneMessage
    <3>2. Told(m) => Told(m)'
      BY <2>2 DEF Told
    <3> QED
      BY <2>3, <3>1, <3>2
  <2>5. ~Mishap(sync_return.r)'
    BY <1>1, <1>3, <2>2 DEF Mishap
  <2>6. \A m, n \in wire' : m = n
    BY <1>1, <2>1 DEF OneMessage
  <2> QED
    BY <1>1, <2>2, <2>4, <2>5, <2>6 DEF OneMessage
<1> QED
  BY <1>1, <1>2, <1>3, <1>4, <1>5, <1>6, CalSame DEF CalInv

\* the tool takes an answer
LEMMA CalAnswered ==
  ASSUME ToolInv, CalInv, Calibrating', NEW m \in wire, Answered(m)
  PROVE  CalInv'
<1>1. /\ m.kind = "answer" /\ m.call \in pending /\ frames # <<>> /\ frames' = frames
      /\ device' = device /\ wire' = wire \ {m} /\ stdin' = stdin
      /\ sync_return'.r = Decoded(m).r /\ tool' = [tool EXCEPT !.got = Decoded(m).got]
      /\ mishaps' = IF Mishap(Decoded(m).r) THEN mishaps + 1 ELSE mishaps
  BY DEF Answered, SyncCallback, Counted
<1>2. AnswerFits(m)
  BY <1>1 DEF ToolInv, WireFits, MessageFits
<1>3. DecodedRight(m, Decoded(m))
  BY <1>2, AnswerDecoded DEF ToolInv
<1>4. PICK d : d = Decoded(m)
  OBVIOUS
<1>5. /\ SameTool(tool, tool') /\ SamePlace(tool, tool') /\ tool'.got = d.got
      /\ tool'.acc = tool.acc /\ tool'.low = tool.low /\ tool'.high = tool.high
  BY <1>1, <1>3, <1>4, GotFits DEF ToolInv, DecodedRight
<1>6. SameStepOf(tool, tool') /\ tool'.prog = tool.prog
  BY <1>5 DEF SameStepOf, SamePlace, SameTool
<1>7. mishaps = 0 /\ ~Mishap(d.r) /\ Calibrating
  BY <1>1, <1>4, <1>6 DEF CalInv, Calibrating
<1>8. stdin = 0 /\ EepromKept /\ StoreIsLast /\ mishaps \in Nat /\ mishaps' = mishaps
  BY <1>1, <1>4, <1>7 DEF CalInv
<1>9. StoreIsLast'
  BY <1>1, <1>6, <1>8, CalSame, StoreStaysLast
<1>10. tool.exit = "running" /\ IsCall /\ ToolFits(tool) /\ tool.prog \in ChannelPrograms
  BY <1>1, <1>7 DEF ToolInv, Waiting, Calibrating
<1>11. OneMessage /\ ChannelsDone /\ Known
  BY <1>7, <1>10 DEF CalInv
<1>12. ChannelsDone' /\ Known' /\ Step' = Step /\ \A reg : Effect(reg) => Effect(reg)'
  BY <1>1, <1>6, <1>11, CalSame
<1>13. wire = {m} /\ wire' = {}
  BY <1>1, <1>11 DEF OneMessage
<1>14. Told(m)
  <2>1. RequestOf(m.call).kind = "request"
    BY DEF RequestOf
  <2> QED
    BY <1>1, <1>11, <2>1 DEF OneMessage
<1>15. m.port = RequestOf(m.call).port
  <2>1. RequestOf(m.call).kind = "request"
    BY DEF RequestOf
  <2> QED
    BY <1>1, <2>1 DEF ToolInv, Current, Asked
<1>16. d.r = "0" => Effect(d.got.reg)
  <2> SUFFICES ASSUME d.r = "0" PROVE Effect(d.got.reg)
    OBVIOUS
  <2>1. CASE Step.op \in Writes \cup {"counts"} /\ m.port = ACCESS
    <3>1. m.truth # Found
      BY <1>3, <1>4, <2>1 DEF DecodedRight
    <3>2. Effect(m.truth.reg)
      BY <1>14, <2>1, <3>1, Ports DEF Told
    <3>3. Step.op = "counts" => d.got = m.truth
      <4>1. Step.op = "counts" => HasRegr
        BY DEF HasRegr
      <4> QED
        BY <1>3, <1>4, <2>1, <4>1, Ports DEF DecodedRight
    <3>4. Step.op # "counts" => (Effect(m.truth.reg) => Effect(d.got.reg))
      BY DEF Effect
    <3> QED
      BY <3>2, <3>3, <3>4
  <2>2. CASE Step.op = "command" /\ m.port = COMMAND
    <3>1. PICK status \in Nat : m.payload = <<status>>
      BY <1>2, <2>2, Ports DEF AnswerFits
    <3>2. d.r = IF status = 0 THEN "0" ELSE "status"
      BY <1>4, <2>2, <3>1, StatusRead, Ports DEF Decoded
    <3>3. m.payload = <<0>>
      BY <3>1, <3>2
    <3>4. Effect(m.truth.reg)
      BY <1>14, <2>2, <3>3, Ports DEF Told
    <3> QED
      BY <2>2, <3>4 DEF Effect, Writes
  <2> QED
    BY <1>10, <1>11, <1>15, <2>1, <2>2, CallKnown
<1>17. Mishap(sync_return.r)' <=> Mishap(d.r)
  BY <1>1, <1>4, <1>12 DEF Mishap
<1>18. sync_return'.r = "0" => Effect(tool.got.reg)'
  BY <1>1, <1>4, <1>5, <1>12, <1>16
<1>19. OneMessage'
  BY <1>7, <1>13, <1>17, <1>18 DEF OneMessage
<1> QED
  BY <1>1, <1>6, <1>8, <1>9, <1>12, <1>19, CalSame DEF CalInv

\* the last request is to store what was written before
LEMMA AllCalibrated ==
  ASSUME ChannelsDone, tool.ch = Channels + 1
  PROVE  Calibrated
<1> SUFFICES ASSUME NEW name \in Calibrates(tool.prog) PROVE RightAt(name)
  BY DEF Calibrated
<1>1. name[1] \in 1..Channels
  BY DEF Calibrates
<1> QED
  BY <1>1, ChannelsAssumption DEF ChannelsDone

LEMMA CalCalls ==
  ASSUME ToolInv, CalInv, Calibrating, ToolCalls
  PROVE  CalInv'
<1>1. /\ frames = <<>> /\ tool.exit = "running" /\ IsCall /\ ~Refused
      /\ tool' = tool /\ device' = device /\ stdin' = stdin /\ mishaps' = mishaps
  BY DEF ToolCalls, Running
<1>2. PICK c : c = NextCall
  OBVIOUS
<1>3. wire' = wire \cup {RequestOf(c)} /\ CallStarted(c)
  BY <1>2 DEF ToolCalls
<1>4. SameStepOf(tool, tool')
  BY <1>1 DEF SameStepOf, SameTool
<1>5. OneMessage /\ ChannelsDone /\ Known /\ EepromKept /\ stdin = 0 /\ mishaps \in Nat
  BY <1>1 DEF CalInv
<1>6. /\ ChannelsDone' /\ Known' /\ EepromKept'
      /\ Calibrated => Calibrated'
  BY <1>1, <1>4, <1>5, CalSame
<1>7. wire' = {RequestOf(c)} /\ RequestOf(c).call = c
  BY <1>1, <1>3, <1>5, AskedFits DEF OneMessage, ToolInv
<1>8. PICK r : r = RequestOf(c)
  OBVIOUS
<1>9. wire' = {r} /\ r.call = c /\ RequestOf(c)' = r
  BY <1>1, <1>7, <1>8, SameTools
<1>10. ~sync_flag' /\ frames' # <<>>
  BY <1>1, <1>3 DEF CallStarted
<1>11. OneMessage'
  BY <1>9, <1>10 DEF OneMessage
<1>12. StoreIsLast'
  <2>1. CASE r.port # COMMAND
    BY <1>9, <2>1 DEF StoreIsLast
  <2>2. CASE r.port = COMMAND
    <3>1. /\ r.payload = CommandRequest(Step.number, Step.param)
          /\ \/ Step.number = TEST_POINT /\ \E p \in Nat : Step.param = <<p>>
             \/ Step = Store /\ tool.ch = Channels + 1 /\ Step.number = STORE /\ Step.param = <<>>
      BY <1>1, <1>5, <1>8, <2>2, CallKnown, Ports DEF ToolInv, Calibrating
    <3>2. CASE \E p \in Nat : r.payload = CommandRequest(TEST_POINT, <<p>>)
      BY <1>9, <3>2 DEF StoreIsLast
    <3>3. CASE r.payload = CommandRequest(STORE, <<>>) /\ tool.ch = Channels + 1
      BY <1>5, <1>6, <1>9, <3>3, AllCalibrated DEF StoreIsLast
    <3> QED
      BY <3>1, <3>2, <3>3
  <2> QED
    BY <2>1, <2>2
<1> QED
  BY <1>1, <1>5, <1>6, <1>11, <1>12 DEF CalInv

\* a tool that has ended asks for nothing more
LEMMA CalEnds ==
  ASSUME CalInv, Calibrating, device' = device, wire' \subseteq wire, stdin' = stdin,
         mishaps' = mishaps, tool'.exit # "running", tool'.prog = tool.prog
  PROVE  CalInv'
<1>1. stdin = 0 /\ EepromKept /\ StoreIsLast /\ mishaps \in Nat
  BY DEF CalInv
<1>2. /\ Calibrates(tool.prog)' = Calibrates(tool.prog)
      /\ \A kind : Right(tool.prog, kind)' = Right(tool.prog, kind)
  BY DEF Calibrates, Right
<1>3. EepromKept'
  BY <1>1, <1>2 DEF EepromKept
<1>4. Calibrated => Calibrated'
  BY <1>2 DEF Calibrated, RightAt
<1>5. StoreIsLast'
  BY <1>1, <1>4, StoreStaysLast
<1> QED
  BY <1>1, <1>3, <1>5 DEF CalInv

-----------------------------------------------------------------------------
LEMMA WordTaken ==
  ASSUME NEW a \in Nat, NEW b \in Nat
  PROVE  /\ GetBytes(Uint16(<<a, b>>).value, 0, 2) = <<a, b>>
         /\ Uint16(<<a, b>>).type = UINT16
         /\ GetU8(Uint8(b).value, 0) = b
<1>1. PICK v : v = <<a, b>>
  OBVIOUS
<1>2. v \in Seq(Nat) /\ Len(v) = 2 /\ v[1] = a /\ v[2] = b
  BY <1>1
<1>3. Uint16(v).value = v /\ Uint16(v).type = UINT16
  BY DEF Uint16
<1>4. GetBytes(v, 0, 2) = v
  <2>1. PICK u : u = GetBytes(v, 0, 2)
    OBVIOUS
  <2>2. u \in Seq(Nat) /\ Len(u) = 2
    <3>1. 0 \in Nat /\ 2 \in Nat
      OBVIOUS
    <3> QED
      BY <1>2, <2>1, <3>1, BytesAreSequence
  <2>3. \A i \in 1..2 : u[i] = v[i]
    BY <1>2, <2>1 DEF GetBytes
  <2> QED
    BY <1>2, <2>1, <2>2, <2>3
<1>5. PICK w : w = <<b>>
  OBVIOUS
<1>6. Len(w) = 1 /\ w[1] = b
  BY <1>5
<1>7. Uint8(b).value = w
  BY <1>5 DEF Uint8
<1>8. GetU8(w, 0) = b
  BY <1>6 DEF GetU8, GetBytes
<1> QED
  BY <1>1, <1>3, <1>4, <1>7, <1>8

\* the counts of a channel are those of the signal at its input, in its mode
LEMMA CountsRead ==
  ASSUME NEW ch \in Channel, NEW signal \in Nat, NEW mode \in Nat,
         NEW counts, counts = <<ch, COUNTS>>, NEW place, place = <<ch, MODE>>,
         NEW word, word = <<signal, mode>>,
         device.input[ch] = signal, Has(place, Uint8(mode)), Has(counts, RegisterOf(counts))
  PROVE  /\ RegisterOf(counts) = Uint16(word)
         /\ RegisterOf(counts).type = UINT16
         /\ GetBytes(RegisterOf(counts).value, 0, 2) = word
<1>1. counts[1] = ch /\ counts \in (1..Channels) \X {COUNTS} /\ counts \in DOMAIN device.ram
  BY DEF Channel, Has
<1>2. RegisterOf(counts) = Uint16(<<device.input[ch], GetU8(device.ram[place].value, 0)>>)
  BY <1>1 DEF RegisterOf
<1>3. device.ram[place] = Uint8(mode)
  BY DEF Has
<1>4. RegisterOf(counts) = Uint16(<<signal, mode>>)
  BY <1>2, <1>3, WordTaken
<1> QED
  BY <1>4, WordTaken

\* the tool goes on from a step that had its effect
HalfIs(word) ==
  IF Step.half = "low" THEN tool'.low = word /\ tool'.high = tool.high
  ELSE tool'.low = tool.low /\ tool'.high = word

SameHalves == tool'.low = tool.low /\ tool'.high = tool.high

StepDone ==
  /\ device'.ram = device.ram /\ device'.point = device.point
  /\ tool'.prog = tool.prog
  /\ IF tool.pc < Len(StepsAt(tool.prog, tool.ch))
     THEN tool'.ch = tool.ch /\ tool'.pc = tool.pc + 1
     ELSE tool'.ch = tool.ch + 1 /\ tool'.pc = 1
  /\ Step.op # "prompt" => device'.input = device.input
  /\ Step.op # "counts" => tool'.acc = tool.acc
  /\ Step.op = "prompt" => SameHalves /\ device'.input[Step.ch] = Step.signal
  /\ Step.op \in Writes => SameHalves /\ Has(Step.name, Regw)
  /\ Step.op = "counts" => /\ Has(Step.name, tool'.acc) /\ tool'.acc = RegisterOf(Step.name)
                           /\ HalfIs(GetBytes(tool'.acc.value, 0, 2))
  /\ Step.op = "command" => SameHalves /\ (Step.number = TEST_POINT => device.point = Step.param[1])
  /\ Step.op = "measure" => HalfIs(<<device.point, 0>>)
  /\ Step.op = "choose" => tool'.low \in {<<0>>, <<1>>}

\* what the program is to leave in the registers of the channel is there
ChannelRight == \A name \in Calibrates(tool.prog) : name[1] = tool.ch => RightAt(name)

LEMMA ModesStay ==
  ASSUME ModesKnown, StepDone
  PROVE  ModesKnown'
BY DEF ModesKnown, StepDone, Has

LEMMA PointsGoOn ==
  ASSUME ToolFits(tool), tool.ch \in Channel, tool.prog \in PointPrograms, Known, StepDone
  PROVE  /\ tool'.ch <= Channels => PointsKnown'
         /\ tool'.ch = tool.ch + 1 => ChannelRight
<1>1. /\ Place \in 1..6 /\ (tool.prog = "6180a_cal" => Place > 1)
      /\ tool.pc < Len(StepsAt(tool.prog, tool.ch)) <=> Place < 6
      /\ Step = PointSteps(tool.ch, Mode, tool.prog = "6090ccal")[Place]
      /\ tool.ch <= Channels
  BY PointTable DEF Channel
<1>2. Mode \in Nat /\ Mode' = Mode /\ tool'.prog = tool.prog
  BY DEF Mode, PointMode, PointPrograms, StepDone
<1>3. PointsKnown /\ ModesKnown
  BY <1>1 DEF Known
<1>4. tool.pc \in Nat /\ tool.ch \in Nat
  BY DEF ToolFits, ToolStates, Channel
<1>5. ASSUME Place < 6
      PROVE  tool'.ch = tool.ch /\ Place' = Place + 1 /\ tool'.ch # tool.ch + 1
  BY <1>1, <1>2, <1>4, <1>5 DEF StepDone, Place
<1>6. ASSUME NEW reg PROVE Has(<<tool.ch, MODE>>, reg)' <=> Has(<<tool'.ch, MODE>>, reg)
  BY DEF Has, StepDone
<1>7. PICK mode \in Nat : mode = Mode
  BY <1>2
<1>8. CASE Place = 1
  <2>1. Step = Set(tool.ch, MODE, Mode)
    BY <1>1, <1>8 DEF PointSteps
  <2>2. Step.op = "set" /\ Step.name = <<tool.ch, MODE>> /\ Step.reg = Uint8(Mode)
    BY <2>1 DEF Set
  <2>3. Has(<<tool.ch, MODE>>, Uint8(mode))
    BY <1>7, <2>2 DEF StepDone, Writes, Regw
  <2>4. Place' = 2 /\ tool'.ch = tool.ch /\ tool'.ch # tool.ch + 1
    BY <1>5, <1>8
  <2>5. Has(<<tool.ch, MODE>>, Uint8(Mode))'
    BY <1>2, <1>6, <1>7, <2>3, <2>4
  <2> QED
    BY <2>4, <2>5 DEF PointsKnown
<1>9. CASE Place \in {2, 4}
  <2>1. PICK signal : signal = IF Place = 2 THEN 1 ELSE 2
    OBVIOUS
  <2>2. Step = Prompt(tool.ch, signal)
    BY <1>1, <1>9, <2>1 DEF PointSteps
  <2>3. Step.op = "prompt" /\ Step.ch = tool.ch /\ Step.signal = signal
    BY <2>2 DEF Prompt
  <2>4. device'.input[tool.ch] = signal /\ SameHalves
    BY <2>3 DEF StepDone
  <2>5. Place' = Place + 1 /\ tool'.ch = tool.ch /\ tool'.ch # tool.ch + 1
    BY <1>5, <1>9
  <2>6. Has(<<tool.ch, MODE>>, Uint8(mode))
    BY <1>3, <1>7, <1>9 DEF PointsKnown
  <2>7. Has(<<tool.ch, MODE>>, Uint8(Mode))'
    BY <1>2, <1>6, <1>7, <2>5, <2>6
  <2>8. Place = 4 => tool'.low = <<1, Mode>>
    BY <1>3, <2>4 DEF PointsKnown, SameHalves
  <2>9. (Place' = 3 => signal = 1) /\ (Place' = 5 => signal = 2 /\ Place = 4) /\ Place' \in {3, 5}
    BY <1>9, <2>1, <2>5
  <2> QED
    BY <1>2, <2>4, <2>5, <2>7, <2>8, <2>9 DEF PointsKnown
<1>10. CASE Place \in {3, 5}
  <2>1. PICK half : half = IF Place = 3 THEN "low" ELSE "high"
    OBVIOUS
  <2>2. PICK signal \in Nat : signal = IF Place = 3 THEN 1 ELSE 2
    OBVIOUS
  <2>3. Step = Counts(tool.ch, half)
    BY <1>1, <1>10, <2>1 DEF PointSteps
  <2>4. Step.op = "counts" /\ Step.name = <<tool.ch, COUNTS>> /\ Step.half = half
    BY <2>3 DEF Counts
  <2>5. Has(<<tool.ch, MODE>>, Uint8(mode)) /\ device.input[tool.ch] = signal
    BY <1>3, <1>7, <1>10, <2>2 DEF PointsKnown
  <2>6. PICK reg : reg = tool'.acc
    OBVIOUS
  <2>7. /\ Has(<<tool.ch, COUNTS>>, reg) /\ reg = RegisterOf(<<tool.ch, COUNTS>>)
        /\ HalfIs(GetBytes(reg.value, 0, 2))
    BY <2>4, <2>6 DEF StepDone
  <2>8. reg.type = UINT16 /\ GetBytes(reg.value, 0, 2) = <<signal, mode>>
    <3>1. PICK counts, place, word : /\ counts = <<tool.ch, COUNTS>> /\ place = <<tool.ch, MODE>>
                                      /\ word = <<signal, mode>>
      OBVIOUS
    <3>2. /\ device.input[tool.ch] = signal /\ Has(place, Uint8(mode))
          /\ Has(counts, RegisterOf(counts)) /\ reg = RegisterOf(counts)
      BY <2>5, <2>7, <3>1
    <3>3. RegisterOf(counts).type = UINT16 /\ GetBytes(RegisterOf(counts).value, 0, 2) = word
      BY <3>1, <3>2, CountsRead
    <3> QED
      BY <3>1, <3>2, <3>3
  <2>9. Place' = Place + 1 /\ tool'.ch = tool.ch /\ tool'.ch # tool.ch + 1
    BY <1>5, <1>10
  <2>10. Has(<<tool.ch, MODE>>, Uint8(Mode))'
    BY <1>2, <1>6, <1>7, <2>5, <2>9
  <2>11. CASE Place = 3
    <3>1. tool'.low = <<1, Mode>> /\ Place' = 4
      BY <1>7, <2>1, <2>2, <2>4, <2>7, <2>8, <2>9, <2>11 DEF HalfIs
    <3> QED
      BY <1>2, <2>9, <2>10, <3>1 DEF PointsKnown
  <2>12. CASE Place = 5
    <3>1. tool'.high = <<2, Mode>> /\ Place' = 6 /\ tool'.low = <<1, Mode>>
      BY <1>3, <1>7, <2>1, <2>2, <2>4, <2>7, <2>8, <2>9, <2>12 DEF HalfIs, PointsKnown
    <3> QED
      BY <1>2, <2>6, <2>8, <2>9, <2>10, <3>1 DEF PointsKnown
  <2> QED
    BY <1>10, <2>11, <2>12
<1>11. CASE Place = 6
  <2>1. tool'.ch = tool.ch + 1 /\ tool'.pc = 1 /\ tool'.ch # tool.ch
    BY <1>1, <1>4, <1>11 DEF StepDone
  <2>2. /\ WritesRight /\ Step.op = "pair" /\ Step.name = <<tool.ch, CAL>>
    BY <1>1, <1>11, PointsRight
  <2>3. Has(<<tool.ch, CAL>>, Regw) /\ Regw \in Right(tool.prog, CAL)
    BY <2>2 DEF StepDone, Writes, WritesRight
  <2>4. ChannelRight
    <3>1. \A name \in Calibrates(tool.prog) : name[1] = tool.ch => name = <<tool.ch, CAL>>
      BY DEF Calibrates, PointPrograms
    <3> QED
      BY <2>3, <3>1 DEF ChannelRight, RightAt, Has
  <2>5. ASSUME tool'.ch <= Channels PROVE PointsKnown'
    <3>1. CASE tool.prog = "6180a_cal"
      <4>1. Place' = 2 /\ tool'.ch \in Channel
        BY <1>2, <1>4, <2>1, <2>5, <3>1 DEF Place, Channel
      <4>2. mode = 9
        BY <1>7, <3>1 DEF Mode, PointMode
      <4>3. Has(<<tool'.ch, MODE>>, Uint8(mode))
        BY <1>3, <3>1, <4>1, <4>2 DEF ModesKnown
      <4>4. Has(<<tool.ch, MODE>>, Uint8(Mode))'
        BY <1>2, <1>6, <1>7, <4>3
      <4> QED
        BY <4>1, <4>4 DEF PointsKnown
    <3>2. CASE tool.prog # "6180a_cal"
      <4>1. Place' = 1
        BY <1>2, <2>1, <3>2 DEF Place
      <4> QED
        BY <4>1 DEF PointsKnown
    <3> QED
      BY <3>1, <3>2
  <2> QED
    BY <2>1, <2>4, <2>5
<1> QED
  BY <1>1, <1>8, <1>9, <1>10, <1>11

\* the tool takes the steps of a channel one by one
LEMMA OneByOne ==
  ASSUME ToolFits(tool), tool.ch \in Channel, StepDone, NEW n, n = Len(StepsAt(tool.prog, tool.ch))
  PROVE  /\ tool.pc < n => tool'.ch = tool.ch /\ tool'.pc = tool.pc + 1 /\ tool'.ch # tool.ch + 1
         /\ ~(tool.pc < n) => tool'.ch = tool.ch + 1 /\ tool'.pc = 1
         /\ tool.ch \in Nat /\ tool.ch <= Channels
<1>1. tool.ch \in Nat /\ tool.ch <= Channels
  BY DEF Channel
<1>2. CASE tool.pc < n
  BY <1>1, <1>2 DEF StepDone
<1>3. CASE ~(tool.pc < n)
  BY <1>1, <1>3 DEF StepDone
<1> QED
  BY <1>1, <1>2, <1>3

LEMMA ZeroGoesOn ==
  ASSUME ToolFits(tool), tool.ch \in Channel, tool.prog = "6090cal", Known, StepDone
  PROVE  /\ tool'.ch <= Channels => ZeroKnown'
         /\ tool'.ch = tool.ch + 1 => ChannelRight
<1>1. /\ tool.pc \in 1..4 /\ Len(StepsAt(tool.prog, tool.ch)) = 4
      /\ Step = ZeroVolts(tool.ch)[tool.pc]
      /\ tool.ch <= Channels /\ tool.ch \in Nat /\ tool'.prog = tool.prog
  BY ZeroTable DEF Channel, StepDone
<1>2. ZeroKnown
  BY <1>1 DEF Known
<1>3. ASSUME tool.pc < 4
      PROVE  tool'.ch = tool.ch /\ tool'.pc = tool.pc + 1 /\ tool'.ch # tool.ch + 1
  BY <1>1, <1>3, OneByOne
<1>4. ASSUME NEW reg PROVE Has(<<tool.ch, MODE>>, reg)' <=> Has(<<tool'.ch, MODE>>, reg)
  BY DEF Has, StepDone
<1>5. PICK one : one = Uint8(1)
  OBVIOUS
<1>6. CASE tool.pc = 1
  <2>1. Step = Set(tool.ch, MODE, 1)
    BY <1>1, <1>6 DEF ZeroVolts
  <2>2. Step.op = "set" /\ Step.name = <<tool.ch, MODE>> /\ Step.reg = Uint8(1)
    BY <2>1 DEF Set
  <2>3. Has(<<tool.ch, MODE>>, one)
    BY <1>5, <2>2 DEF StepDone, Writes, Regw
  <2>4. tool'.pc = 2 /\ tool'.ch = tool.ch /\ tool'.ch # tool.ch + 1
    BY <1>3, <1>6
  <2>5. Has(<<tool.ch, MODE>>, Uint8(1))'
    BY <1>4, <1>5, <2>3, <2>4
  <2> QED
    BY <2>4, <2>5 DEF ZeroKnown
<1>7. CASE tool.pc = 2
  <2>1. Step = Prompt(tool.ch, 1)
    BY <1>1, <1>7 DEF ZeroVolts
  <2>2. Step.op = "prompt" /\ Step.ch = tool.ch /\ Step.signal = 1
    BY <2>1 DEF Prompt
  <2>3. device'.input[tool.ch] = 1
    BY <2>2 DEF StepDone
  <2>4. tool'.pc = 3 /\ tool'.ch = tool.ch /\ tool'.ch # tool.ch + 1
    BY <1>3, <1>7
  <2>5. Has(<<tool.ch, MODE>>, Uint8(1))'
    BY <1>2, <1>4, <1>5, <1>7, <2>4 DEF ZeroKnown
  <2> QED
    BY <2>3, <2>4, <2>5 DEF ZeroKnown
<1>8. CASE tool.pc = 3
  <2>1. Step = Counts(tool.ch, "low")
    BY <1>1, <1>8 DEF ZeroVolts
  <2>2. Step.op = "counts" /\ Step.name = <<tool.ch, COUNTS>>
    BY <2>1 DEF Counts
  <2>3. PICK n \in Nat : n = 1
    OBVIOUS
  <2>4. PICK counts, place, word :
          counts = <<tool.ch, COUNTS>> /\ place = <<tool.ch, MODE>> /\ word = <<n, n>>
    OBVIOUS
  <2>5. Has(place, Uint8(n)) /\ device.input[tool.ch] = n
    BY <1>2, <1>8, <2>3, <2>4 DEF ZeroKnown
  <2>6. tool'.acc = RegisterOf(counts) /\ Has(counts, RegisterOf(counts))
    BY <2>2, <2>4 DEF StepDone
  <2>7. RegisterOf(counts) = Uint16(word)
    BY <2>4, <2>5, <2>6, CountsRead
  <2>8. tool'.acc = Uint16(<<1, 1>>)
    BY <2>3, <2>4, <2>6, <2>7
  <2>9. tool'.pc = 4 /\ tool'.ch = tool.ch /\ tool'.ch # tool.ch + 1
    BY <1>3, <1>8
  <2>10. Has(<<tool.ch, MODE>>, Uint8(1))'
    BY <1>2, <1>4, <1>5, <1>8, <2>9 DEF ZeroKnown
  <2> QED
    BY <2>8, <2>9, <2>10 DEF ZeroKnown
<1>9. CASE tool.pc = 4
  <2>1. tool'.ch = tool.ch + 1 /\ tool'.pc = 1
    <3>1. PICK n : n = Len(StepsAt(tool.prog, tool.ch))
      OBVIOUS
    <3>2. n = 4
      BY <1>1, <3>1
    <3>3. ~(tool.pc < n)
      BY <1>9, <3>2
    <3> QED
      BY <3>1, <3>3, OneByOne
  <2>2. WritesRight /\ Step.op = "offset" /\ Step.name = <<tool.ch, CAL>>
    BY <1>1, <1>9, ZeroRight
  <2>3. Has(<<tool.ch, CAL>>, Regw) /\ Regw \in Right(tool.prog, CAL)
    BY <2>2 DEF StepDone, Writes, WritesRight
  <2>4. ChannelRight
    <3>1. \A name \in Calibrates(tool.prog) : name[1] = tool.ch => name = <<tool.ch, CAL>>
      BY DEF Calibrates
    <3> QED
      BY <2>3, <3>1 DEF ChannelRight, RightAt, Has
  <2>5. ZeroKnown'
    BY <2>1 DEF ZeroKnown
  <2> QED
    BY <2>4, <2>5
<1> QED
  BY <1>1, <1>6, <1>7, <1>8, <1>9

\* a register that is right for the channel stays it for the rest of its steps
LEMMA RightStays ==
  ASSUME StepDone, NEW kind, RightAt(<<tool.ch, kind>>), tool'.ch = tool.ch
  PROVE  RightAt(<<tool.ch, kind>>)'
<1>1. Right(tool.prog, kind)' = Right(tool.prog, kind)
  BY DEF StepDone, Right
<1> QED
  BY <1>1 DEF RightAt, StepDone

LEMMA WiringGoesOn ==
  ASSUME ToolFits(tool), tool.ch \in Channel, tool.prog = "6190a_conf", Known, StepDone
  PROVE  /\ tool'.ch <= Channels => WiringKnown'
         /\ tool'.ch = tool.ch + 1 => ChannelRight
<1>1. /\ tool.pc \in 1..4 /\ Len(StepsAt(tool.prog, tool.ch)) = 4
      /\ Step = Wiring(tool.ch)[tool.pc]
      /\ tool.ch <= Channels /\ tool.ch \in Nat /\ tool'.prog = tool.prog
  BY WiringTable DEF Channel, StepDone
<1>2. WiringKnown
  BY <1>1 DEF Known
<1>3. ASSUME tool.pc < 4
      PROVE  tool'.ch = tool.ch /\ tool'.pc = tool.pc + 1 /\ tool'.ch # tool.ch + 1
  BY <1>1, <1>3, OneByOne
<1>4. CASE tool.pc \in {1, 3}
  <2>1. PICK kind : Step = Choose(tool.ch, kind)
    BY <1>1, <1>4 DEF Wiring
  <2>2. Step.op = "choose"
    BY <2>1 DEF Choose
  <2>3. tool'.low \in {<<0>>, <<1>>}
    BY <2>2 DEF StepDone
  <2>4. tool'.pc \in {2, 4} /\ tool'.ch = tool.ch /\ tool'.ch # tool.ch + 1
    BY <1>3, <1>4
  <2>5. tool'.pc > 2 => RightAt(<<tool.ch, CAL>>)'
    <3> SUFFICES ASSUME tool'.pc > 2 PROVE RightAt(<<tool.ch, CAL>>)'
      OBVIOUS
    <3>1. tool.pc = 3
      BY <1>3, <1>4
    <3>2. RightAt(<<tool.ch, CAL>>)
      BY <1>2, <3>1 DEF WiringKnown
    <3> QED
      BY <2>4, <3>2, RightStays
  <2> QED
    BY <2>3, <2>4, <2>5 DEF WiringKnown
<1>5. CASE tool.pc \in {2, 4}
  <2>1. PICK kind : kind = IF tool.pc = 2 THEN CAL ELSE SINK
    OBVIOUS
  <2>2. WritesRight /\ Step.op = "chosen" /\ Step.name = <<tool.ch, kind>>
    BY <1>1, <1>5, <2>1, WiringRight
  <2>3. Step.name[2] = kind
    BY <2>2
  <2>4. RightAt(<<tool.ch, kind>>)
    <3>1. Has(Step.name, Regw) /\ Regw \in Right(tool.prog, kind)
      BY <2>2, <2>3 DEF StepDone, Writes, WritesRight
    <3> QED
      BY <2>2, <2>3, <3>1 DEF RightAt, Has
  <2>5. CASE tool.pc = 2
    <3>1. tool'.pc = 3 /\ tool'.ch = tool.ch /\ tool'.ch # tool.ch + 1
      BY <1>3, <2>5
    <3>2. RightAt(<<tool.ch, CAL>>)'
      BY <2>1, <2>4, <2>5, <3>1, RightStays
    <3> QED
      BY <3>1, <3>2 DEF WiringKnown
  <2>6. CASE tool.pc = 4
    <3>1. tool'.ch = tool.ch + 1 /\ tool'.pc = 1
      <4>1. PICK n : n = Len(StepsAt(tool.prog, tool.ch))
        OBVIOUS
      <4>2. n = 4
        BY <1>1, <4>1
      <4>3. ~(tool.pc < n)
        BY <2>6, <4>2
      <4> QED
        BY <4>1, <4>3, OneByOne
    <3>2. RightAt(<<tool.ch, CAL>>) /\ RightAt(<<tool.ch, SINK>>)
      BY <1>2, <2>1, <2>4, <2>6 DEF WiringKnown
    <3>3. ChannelRight
      <4>1. \A name \in Calibrates(tool.prog) :
              name[1] = tool.ch => name = <<tool.ch, CAL>> \/ name = <<tool.ch, SINK>>
        BY DEF Calibrates
      <4> QED
        BY <3>2, <4>1 DEF ChannelRight
    <3>4. WiringKnown'
      BY <3>1 DEF WiringKnown
    <3> QED
      BY <3>3, <3>4
  <2> QED
    BY <1>5, <2>5, <2>6
<1> QED
  BY <1>1, <1>4, <1>5

LEMMA OutputsGoOn ==
  ASSUME ToolFits(tool), tool.ch \in Channel, tool.prog \in OutputPrograms, Known, StepDone
  PROVE  /\ tool'.ch <= Channels => OutputsKnown'
         /\ tool'.ch = tool.ch + 1 => ChannelRight
<1>1. PICK kind : kind = IF Output = 1 THEN CAL ELSE SINK
  OBVIOUS
<1>2. PICK n \in {5, 10} : n = IF tool.prog = "6050cal" THEN 10 ELSE 5
  OBVIOUS
<1>3. /\ tool.pc \in 1..n /\ n = Len(StepsAt(tool.prog, tool.ch))
      /\ OutputPlace \in 1..5
      /\ Step = Outputs(tool.ch, Output, kind)[OutputPlace]
      /\ tool.ch <= Channels /\ tool'.prog = tool.prog
  BY <1>1, <1>2, OutputTable DEF Channel, StepDone
<1>4. OutputsKnown
  BY <1>3 DEF Known
<1>5. PICK first \in {1, 3} : first = Output /\ (tool.pc > 5 <=> first = 3)
  BY DEF Output
<1>6. OutputPlace = IF tool.pc > 5 THEN tool.pc - 5 ELSE tool.pc
  BY DEF OutputPlace
<1>7. ASSUME tool.pc # 5, tool.pc # 10
      PROVE  /\ tool'.ch = tool.ch /\ tool'.ch # tool.ch + 1
             /\ Output' = first /\ OutputPlace' = OutputPlace + 1 /\ (tool'.pc > 5 <=> tool.pc > 5)
  <2>1. tool.pc < n
    BY <1>2, <1>3, <1>7
  <2>2. tool'.ch = tool.ch /\ tool'.pc = tool.pc + 1 /\ tool'.ch # tool.ch + 1
    BY <1>3, <2>1, OneByOne
  <2>3. tool'.pc > 5 <=> tool.pc > 5
    BY <1>2, <1>3, <1>7, <2>2
  <2>4. Output' = first
    BY <1>5, <2>3 DEF Output
  <2>5. OutputPlace' = OutputPlace + 1
    BY <1>2, <1>3, <1>6, <2>2, <2>3 DEF OutputPlace
  <2> QED
    BY <2>2, <2>3, <2>4, <2>5
<1>8. tool.pc > 5 /\ tool'.ch = tool.ch => RightAt(<<tool.ch, CAL>>)'
  <2> SUFFICES ASSUME tool.pc > 5, tool'.ch = tool.ch PROVE RightAt(<<tool.ch, CAL>>)'
    OBVIOUS
  <2>1. RightAt(<<tool.ch, CAL>>)
    BY <1>4 DEF OutputsKnown
  <2> QED
    BY <2>1, RightStays
<1>9. CASE OutputPlace \in {1, 3}
  <2>1. PICK p : p = IF OutputPlace = 1 THEN first ELSE first + 1
    OBVIOUS
  <2>2. Step = Command(TEST_POINT, <<p>>, "nothing")
    BY <1>3, <1>5, <1>9, <2>1 DEF Outputs
  <2>3. Step.op = "command" /\ Step.number = TEST_POINT /\ Step.param[1] = p
    BY <2>2 DEF Command
  <2>4. device'.point = p /\ SameHalves
    BY <2>3 DEF StepDone
  <2>5. tool.pc # 5 /\ tool.pc # 10
    BY <1>2, <1>3, <1>6, <1>9
  <2>6. /\ tool'.ch = tool.ch /\ tool'.ch # tool.ch + 1
        /\ Output' = first /\ OutputPlace' = OutputPlace + 1 /\ (tool'.pc > 5 <=> tool.pc > 5)
    BY <1>7, <2>5
  <2>7. OutputPlace = 3 => tool'.low = <<first, 0>>
    BY <1>4, <1>5, <2>4 DEF OutputsKnown, SameHalves
  <2>8. \/ OutputPlace' = 2 /\ device'.point = Output'
        \/ OutputPlace' = 4 /\ device'.point = Output' + 1 /\ tool'.low = <<Output', 0>>
    BY <1>9, <2>1, <2>4, <2>6, <2>7
  <2>9. tool'.pc > 5 => RightAt(<<tool.ch, CAL>>)'
    BY <1>8, <2>6
  <2> QED
    BY <2>6, <2>8, <2>9 DEF OutputsKnown
<1>10. CASE OutputPlace \in {2, 4}
  <2>1. PICK half : half = IF OutputPlace = 2 THEN "low" ELSE "high"
    OBVIOUS
  <2>2. Step = Measure(half)
    BY <1>3, <1>10, <2>1 DEF Outputs
  <2>3. Step.op = "measure" /\ Step.half = half
    BY <2>2 DEF Measure
  <2>4. HalfIs(<<device.point, 0>>)
    BY <2>3 DEF StepDone
  <2>5. tool.pc # 5 /\ tool.pc # 10
    BY <1>2, <1>3, <1>6, <1>10
  <2>6. /\ tool'.ch = tool.ch /\ tool'.ch # tool.ch + 1
        /\ Output' = first /\ OutputPlace' = OutputPlace + 1 /\ (tool'.pc > 5 <=> tool.pc > 5)
    BY <1>7, <2>5
  <2>7. OutputPlace = 2 => tool'.low = <<first, 0>>
    BY <1>4, <1>5, <2>1, <2>3, <2>4 DEF OutputsKnown, HalfIs
  <2>8. OutputPlace = 4 => tool'.low = <<first, 0>> /\ tool'.high = <<first + 1, 0>>
    BY <1>4, <1>5, <2>1, <2>3, <2>4 DEF OutputsKnown, HalfIs
  <2>9. \/ OutputPlace' = 3 /\ tool'.low = <<Output', 0>>
        \/ OutputPlace' = 5 /\ tool'.low = <<Output', 0>> /\ tool'.high = <<Output' + 1, 0>>
    BY <1>10, <2>6, <2>7, <2>8
  <2>10. tool'.pc > 5 => RightAt(<<tool.ch, CAL>>)'
    BY <1>8, <2>6
  <2> QED
    BY <2>6, <2>9, <2>10 DEF OutputsKnown
<1>11. CASE OutputPlace = 5
  <2>1. WritesRight /\ Step.op = "measured" /\ Step.name = <<tool.ch, kind>>
    BY <1>1, <1>3, <1>11, OutputsRight
  <2>2. Step.name[2] = kind
    BY <2>1
  <2>3. RightAt(<<tool.ch, kind>>)
    <3>1. Has(Step.name, Regw) /\ Regw \in Right(tool.prog, kind)
      BY <2>1, <2>2 DEF StepDone, Writes, WritesRight
    <3> QED
      BY <2>1, <2>2, <3>1 DEF RightAt, Has
  <2>4. CASE tool.pc < n
    <3>1. tool.pc = 5 /\ kind = CAL
      BY <1>1, <1>2, <1>3, <1>5, <1>6, <1>11, <2>4
    <3>2. tool'.ch = tool.ch /\ tool'.pc = 6 /\ tool'.ch # tool.ch + 1
      BY <1>3, <2>4, <3>1, OneByOne
    <3>3. OutputPlace' = 1
      BY <3>2 DEF OutputPlace
    <3>4. RightAt(<<tool.ch, CAL>>)'
      BY <2>3, <3>1, <3>2, RightStays
    <3> QED
      BY <3>2, <3>3, <3>4 DEF OutputsKnown
  <2>5. CASE ~(tool.pc < n)
    <3>1. tool'.ch = tool.ch + 1 /\ tool'.pc = 1
      BY <1>3, <2>5, OneByOne
    <3>2. tool.prog = "6050cal" => tool.pc > 5 /\ kind = SINK
      BY <1>1, <1>2, <1>3, <1>5, <2>5
    <3>3. tool.prog = "6070cal" => kind = CAL
      BY <1>1, <1>2, <1>3, <1>5
    <3>4. tool.prog = "6050cal" => RightAt(<<tool.ch, CAL>>)
      BY <1>4, <3>2 DEF OutputsKnown
    <3>5. ChannelRight
      <4>1. CASE tool.prog = "6050cal"
        <5>1. \A name \in Calibrates(tool.prog) :
                name[1] = tool.ch => name = <<tool.ch, CAL>> \/ name = <<tool.ch, SINK>>
          BY <4>1 DEF Calibrates
        <5> QED
          BY <2>3, <3>2, <3>4, <4>1, <5>1 DEF ChannelRight
      <4>2. CASE tool.prog = "6070cal"
        <5>1. \A name \in Calibrates(tool.prog) : name[1] = tool.ch => name = <<tool.ch, CAL>>
          BY <4>2 DEF Calibrates
        <5> QED
          BY <2>3, <3>3, <4>2, <5>1 DEF ChannelRight
      <4> QED
        BY <4>1, <4>2 DEF OutputPrograms
    <3>6. OutputPlace' = 1 /\ ~(tool'.pc > 5)
      BY <3>1 DEF OutputPlace
    <3>7. OutputsKnown'
      BY <3>6 DEF OutputsKnown
    <3> QED
      BY <3>5, <3>7
  <2> QED
    BY <2>4, <2>5
<1> QED
  BY <1>3, <1>9, <1>10, <1>11

\* a step that had its effect leads to what is known of the next one
LEMMA GoesOnKnown ==
  ASSUME ToolFits(tool), tool.ch \in Channel, tool.prog \in ChannelPrograms, Known, ChannelsDone,
         StepDone
  PROVE  Known' /\ ChannelsDone'
<1>1. /\ tool'.ch = tool.ch \/ tool'.ch = tool.ch + 1
      /\ tool.ch \in Nat /\ tool.ch <= Channels /\ tool'.prog = tool.prog
  BY DEF StepDone, Channel
<1>2. ModesKnown'
  BY ModesStay DEF Known
<1>3. /\ tool'.ch <= Channels => PointsKnown' /\ ZeroKnown' /\ OutputsKnown' /\ WiringKnown'
      /\ tool'.ch = tool.ch + 1 => ChannelRight
  <2>1. CASE tool.prog \in PointPrograms
    BY <1>1, <2>1, PointsGoOn, Families DEF ZeroKnown, OutputsKnown, WiringKnown
  <2>2. CASE tool.prog = "6090cal"
    BY <1>1, <2>2, ZeroGoesOn, Families DEF PointsKnown, OutputsKnown, WiringKnown
  <2>3. CASE tool.prog \in OutputPrograms
    BY <1>1, <2>3, OutputsGoOn, Families DEF PointsKnown, ZeroKnown, WiringKnown
  <2>4. CASE tool.prog = "6190a_conf"
    BY <1>1, <2>4, WiringGoesOn, Families DEF PointsKnown, ZeroKnown, OutputsKnown
  <2> QED
    BY <2>1, <2>2, <2>3, <2>4, Families
<1>4. Known'
  BY <1>2, <1>3 DEF Known
<1>5. ChannelsDone'
  <2>1. /\ Calibrates(tool.prog)' = Calibrates(tool.prog)
        /\ \A kind : Right(tool.prog, kind)' = Right(tool.prog, kind)
    BY <1>1 DEF Calibrates, Right
  <2>2. \A name : RightAt(name) => RightAt(name)'
    BY <2>1 DEF RightAt, StepDone
  <2> SUFFICES ASSUME NEW name \in Calibrates(tool.prog), name[1] < tool'.ch PROVE RightAt(name)
    BY <2>1, <2>2 DEF ChannelsDone
  <2>3. name[1] \in Nat
    BY DEF Calibrates
  <2>4. CASE name[1] < tool.ch
    BY <2>4 DEF ChannelsDone
  <2>5. CASE ~(name[1] < tool.ch)
    <3>1. name[1] = tool.ch /\ tool'.ch = tool.ch + 1
      BY <1>1, <2>3, <2>5
    <3> QED
      BY <1>3, <3>1 DEF ChannelRight
  <2> QED
    BY <2>4, <2>5
<1> QED
  BY <1>4, <1>5

-----------------------------------------------------------------------------
\* the next step of a channel, or the first of the next one
LEMMA Onward ==
  ASSUME tool.ch \in Channel, NEW t, ToolFits(t), t.exit = "running", SamePlace(tool, t),
         SameTool(tool, t), tool' = NextStep(t)
  PROVE  /\ tool'.prog = tool.prog
         /\ tool'.acc = t.acc /\ tool'.low = t.low /\ tool'.high = t.high
         /\ IF tool.pc < Len(StepsAt(tool.prog, tool.ch))
            THEN tool'.ch = tool.ch /\ tool'.pc = tool.pc + 1
            ELSE tool'.ch = tool.ch + 1 /\ tool'.pc = 1
<1>1. /\ t.prog = tool.prog /\ t.ch = tool.ch /\ t.pc = tool.pc
      /\ tool.ch \in Nat /\ tool.ch <= Channels
  BY DEF SamePlace, SameTool, Channel
<1>2. PICK n : n = Len(StepsAt(tool.prog, tool.ch))
  OBVIOUS
<1>3. /\ SameTool(t, NextStep(t)) /\ SameData(t, NextStep(t))
      /\ \/ /\ t.pc < n
            /\ NextStep(t).ch = t.ch /\ NextStep(t).pc = t.pc + 1
         \/ /\ t.pc = n /\ t.ch <= Channels
            /\ NextStep(t).ch = t.ch + 1 /\ NextStep(t).pc = 1
         \/ t.pc = n /\ t.ch = Channels + 1
  BY <1>1, <1>2, NextStepFits
<1>4. tool'.prog = tool.prog /\ tool'.acc = t.acc /\ tool'.low = t.low /\ tool'.high = t.high
  BY <1>1, <1>3 DEF SameTool, SameData
<1>5. tool.pc \in 1..n
  BY <1>1, <1>2 DEF ToolFits, AtStep
<1>6. t.ch # Channels + 1
  BY <1>1, ChannelsAssumption
<1>7. CASE tool.pc < n
  <2>1. t.pc # n
    BY <1>1, <1>5, <1>7
  <2>2. tool'.ch = tool.ch /\ tool'.pc = tool.pc + 1
    BY <1>1, <1>3, <2>1
  <2> QED
    BY <1>2, <1>4, <1>7, <2>2
<1>8. CASE ~(tool.pc < n)
  <2>1. tool'.ch = tool.ch + 1 /\ tool'.pc = 1
    BY <1>1, <1>3, <1>6, <1>8
  <2> QED
    BY <1>2, <1>4, <1>8, <2>1
<1> QED
  BY <1>7, <1>8

\* between two steps nothing is under way
LEMMA CalQuiet ==
  ASSUME CalInv, Calibrating, tool'.prog = tool.prog, device'.eeprom = device.eeprom,
         wire' = {}, frames' = <<>>, stdin' = 0, mishaps' = mishaps, Known', ChannelsDone'
  PROVE  CalInv'
<1>1. EepromKept /\ mishaps \in Nat
  BY DEF CalInv
<1>2. /\ Calibrates(tool.prog)' = Calibrates(tool.prog)
      /\ \A kind : Right(tool.prog, kind)' = Right(tool.prog, kind)
  BY DEF Calibrates, Right
<1>3. EepromKept'
  BY <1>1, <1>2 DEF EepromKept
<1>4. OneMessage' /\ StoreIsLast'
  BY DEF OneMessage, StoreIsLast
<1> QED
  BY <1>1, <1>3, <1>4 DEF CalInv

\* a step of a channel
LEMMA CalStepDone ==
  ASSUME ToolInv, CalInv, Calibrating, tool.exit = "running", tool.ch \in Channel, StepDone,
         device'.eeprom = device.eeprom, wire' = {}, frames' = <<>>, stdin' = 0, mishaps' = mishaps
  PROVE  CalInv'
<1>1. ToolFits(tool) /\ tool.prog \in ChannelPrograms /\ Known /\ ChannelsDone
  BY DEF ToolInv, CalInv, Calibrating
<1>2. Known' /\ ChannelsDone' /\ tool'.prog = tool.prog
  BY <1>1, GoesOnKnown DEF StepDone
<1> QED
  BY <1>2, CalQuiet

\* the end of the reading of a channel
LEMMA CountsDone ==
  ASSUME ToolInv, tool.exit = "running", tool.ch \in Channel, tool.prog \in ChannelPrograms,
         Step.op = "counts", Effect(tool.got.reg), tool' = After(tool), device' = device
  PROVE  StepDone
<1>1. ToolFits(tool) /\ Step.half \in Halves /\ tool.prog # "write"
  BY StepFits DEF ToolInv, ChannelStep, LastStep, ChannelPrograms
<1>2. PICK reg \in HeldRegs : reg = tool.got.reg
  BY DEF ToolInv, ToolFits, ToolStates, Founds
<1>3. PICK t : t = [tool EXCEPT !.acc = reg]
  OBVIOUS
<1>4. PICK word \in Seq(Nat) : word = GetBytes(reg.value, 0, 2)
  BY <1>2, HeldFits, BytesAreSequence
<1>5. /\ ToolFits(t) /\ SameTool(tool, t) /\ SamePlace(tool, t)
      /\ t.acc = reg /\ t.low = tool.low /\ t.high = tool.high
  BY <1>1, <1>2, <1>3, AccFits
<1>6. PICK u : u = Half(t, Step.half, word)
  OBVIOUS
<1>7. /\ ToolFits(u) /\ SameTool(t, u) /\ SamePlace(t, u) /\ u.acc = t.acc
      /\ u.low = IF Step.half = "low" THEN word ELSE t.low
      /\ u.high = IF Step.half = "low" THEN t.high ELSE word
  BY <1>1, <1>5, <1>6, HalfFits
<1>8. SameTool(tool, u) /\ SamePlace(tool, u) /\ u.exit = "running"
  BY <1>5, <1>7 DEF SameTool, SamePlace
<1>9. tool' = NextStep(u)
  BY <1>2, <1>3, <1>4, <1>6 DEF After
<1>10. /\ tool'.prog = tool.prog
       /\ tool'.acc = u.acc /\ tool'.low = u.low /\ tool'.high = u.high
       /\ IF tool.pc < Len(StepsAt(tool.prog, tool.ch))
          THEN tool'.ch = tool.ch /\ tool'.pc = tool.pc + 1
          ELSE tool'.ch = tool.ch + 1 /\ tool'.pc = 1
  BY <1>7, <1>8, <1>9, Onward
<1>11. Has(Step.name, tool'.acc) /\ tool'.acc = RegisterOf(Step.name)
  BY <1>2, <1>5, <1>7, <1>10 DEF Effect
<1>12. HalfIs(GetBytes(tool'.acc.value, 0, 2))
  BY <1>4, <1>5, <1>7, <1>10 DEF HalfIs
<1> QED
  BY <1>10, <1>11, <1>12 DEF StepDone, Writes

\* and of a register written, or an output switched over
LEMMA WrittenDone ==
  ASSUME ToolInv, tool.exit = "running", tool.ch \in Channel,
         Step.op \in Writes \cup {"command"}, Effect(tool.got.reg), tool' = After(tool),
         device' = device
  PROVE  StepDone
<1>1. ToolFits(tool) /\ SamePlace(tool, tool) /\ SameTool(tool, tool)
  BY DEF ToolInv, SamePlace, SameTool
<1>2. tool' = NextStep(tool)
  BY DEF After, Writes
<1>3. /\ tool'.prog = tool.prog
      /\ tool'.acc = tool.acc /\ tool'.low = tool.low /\ tool'.high = tool.high
      /\ IF tool.pc < Len(StepsAt(tool.prog, tool.ch))
         THEN tool'.ch = tool.ch /\ tool'.pc = tool.pc + 1
         ELSE tool'.ch = tool.ch + 1 /\ tool'.pc = 1
  BY <1>1, <1>2, Onward
<1>4. Step.op \in Writes => Has(Step.name, Regw)
  BY DEF Effect
<1>5. Step.op = "command" => (Step.number = TEST_POINT => device.point = Step.param[1])
  BY DEF Effect
<1> QED
  BY <1>3, <1>4, <1>5 DEF StepDone, SameHalves, Writes

\* the call has returned
LEMMA CalGoesOn ==
  ASSUME ToolInv, CalInv, Calibrating, ToolGoesOn
  PROVE  CalInv'
<1>1. /\ frames # <<>> /\ LoopDone /\ sync_flag /\ tool.exit = "running" /\ ToolFits(tool) /\ IsCall
      /\ stdin' = stdin /\ device' = device /\ wire' = wire /\ mishaps' = mishaps
      /\ tool.prog \in ChannelPrograms
  BY DEF ToolGoesOn, LoopDone, ToolInv, Waiting, Calibrating
<1>2. frames' = <<>>
  <2>1. PICK c, where : frames = <<[call |-> c, at |-> where]>>
    BY <1>1 DEF ToolInv, SyncInv, OneBlocked
  <2> QED
    BY <1>1, <2>1, OneFrame DEF LoopDone
<1>3. OneMessage /\ ChannelsDone /\ Known /\ stdin = 0
  BY <1>1 DEF CalInv
<1>4. /\ ~Mishap(sync_return.r)
      /\ sync_return.r = "0" => wire = {} /\ Effect(tool.got.reg)
  BY <1>1, <1>3 DEF OneMessage
<1>5. CASE Failed(sync_return.r)
  <2>1. tool' = [tool EXCEPT !.exit = "failed"]
    BY <1>5 DEF ToolGoesOn
  <2>2. tool'.prog = tool.prog /\ tool'.exit = "failed"
    BY <1>1, <2>1, Exited DEF SameTool
  <2> QED
    BY <1>1, <2>2, CalEnds
<1>6. CASE ~Failed(sync_return.r)
  <2>1. tool' = After(tool)
    BY <1>6 DEF ToolGoesOn
  <2>2. CASE tool.ch \in Channel /\ Step.op \in Writes \cup {"counts"}
    <3>1. sync_return.r = "0"
      BY <1>6, <2>2 DEF Failed, Writes
    <3>2. wire' = {} /\ Effect(tool.got.reg)
      BY <1>1, <1>4, <3>1
    <3>3. StepDone
      BY <1>1, <2>1, <2>2, <3>2, CountsDone, WrittenDone
    <3> QED
      BY <1>1, <1>2, <1>3, <2>2, <3>2, <3>3, CalStepDone
  <2>3. CASE Step.op = "command" /\ Step.number = TEST_POINT
    <3>1. sync_return.r = "0"
      BY <1>4, <2>3 DEF Mishap
    <3>2. wire' = {} /\ Effect(tool.got.reg)
      BY <1>1, <1>4, <3>1
    <3>3. CASE tool.ch \in Channel
      <4>1. StepDone
        BY <1>1, <2>1, <2>3, <3>2, <3>3, WrittenDone
      <4> QED
        BY <1>1, <1>2, <1>3, <3>2, <3>3, <4>1, CalStepDone
    <3>4. CASE tool.ch \notin Channel
      <4>1. tool.ch = Channels + 1 /\ ~(tool.ch <= Channels) /\ tool.ch # Channels
        BY <1>1, <3>4, ChannelsAssumption DEF ToolFits, ToolStates, Channel
      <4>2. tool' = NextStep(tool)
        BY <2>1, <2>3 DEF After
      <4>3. /\ tool'.prog = tool.prog
            /\ tool'.exit = "running" => tool'.ch = tool.ch
        BY <1>1, <4>1, <4>2, NextStepFits DEF SameTool
      <4>4. CASE tool'.exit # "running"
        BY <1>1, <4>3, <4>4, CalEnds
      <4>5. CASE tool'.exit = "running"
        <5>1. Known'
          <6>1. ModesKnown
            BY <1>3 DEF Known
          <6>2. ModesKnown'
            BY <1>1, <4>3, <6>1 DEF ModesKnown, Has
          <6> QED
            BY <4>1, <4>3, <4>5, <6>2 DEF Known
        <5>2. ChannelsDone'
          <6>1. /\ Calibrates(tool.prog)' = Calibrates(tool.prog)
                /\ \A kind : Right(tool.prog, kind)' = Right(tool.prog, kind)
            BY <4>3 DEF Calibrates, Right
          <6> QED
            BY <1>1, <1>3, <4>3, <4>5, <6>1 DEF ChannelsDone, RightAt
        <5> QED
          BY <1>1, <1>2, <1>3, <3>2, <4>3, <5>1, <5>2, CalQuiet
      <4> QED
        BY <4>4, <4>5
    <3> QED
      BY <3>3, <3>4
  <2>4. CASE Step.op = "command" /\ Step.number = STORE
    <3>1. Step = Store /\ tool.ch = Channels + 1
      <4>1. STORE # TEST_POINT /\ "command" \notin Writes \cup {"counts"}
        BY DEF STORE, TEST_POINT, Writes
      <4> QED
        BY <1>1, <1>3, <2>4, <4>1, CallKnown
    <3>2. tool.pc = Len(StepsAt(tool.prog, tool.ch))
      <4>1. Store # OutputsOff
        BY DEF Store, OutputsOff, Command, STORE, TEST_POINT
      <4> QED
        BY <1>1, <3>1, <4>1, LastTable
    <3>3. tool' = NextStep(tool)
      BY <2>1, <2>4 DEF After
    <3>4. tool'.exit = "done" /\ tool'.prog = tool.prog
      <4>1. PICK n \in Nat : n = Len(StepsAt(tool.prog, tool.ch)) /\ n = tool.pc
        BY <1>1, <3>2 DEF ToolFits, ToolStates
      <4>2. ~(tool.pc < n) /\ ~(tool.ch <= Channels)
        BY <3>1, <4>1, ChannelsAssumption
      <4>3. SameTool(tool, NextStep(tool))
        BY <1>1, NextStepFits
      <4>4. NextStep(tool) = [tool EXCEPT !.exit = "done"]
        BY <4>1, <4>2 DEF NextStep
      <4> QED
        BY <1>1, <3>3, <4>3, <4>4, Exited DEF SameTool
    <3> QED
      BY <1>1, <3>4, CalEnds
  <2> QED
    <3>1. \/ tool.ch \in Channel /\ Step.op \in Writes \cup {"counts"}
          \/ Step.op = "command" /\ (Step.number = TEST_POINT \/ Step.number = STORE)
      BY <1>1, <1>3, CallKnown
    <3> QED
      BY <2>2, <2>3, <2>4, <3>1
<1> QED
  BY <1>5, <1>6

\* the operator is asked in a channel only
LEMMA AskedInChannel ==
  ASSUME ToolFits(tool), tool.prog \in ChannelPrograms, Step.op \in {"prompt", "measure", "choose"}
  PROVE  tool.ch \in Channel /\ Step \in ChannelStep
<1>1. CASE tool.ch = Channels + 1
  <2>1. Step = Store \/ Step = OutputsOff
    BY <1>1, LastTable
  <2>2. Step.op = "command"
    BY <2>1 DEF Store, OutputsOff, Command
  <2> QED
    BY <2>2
<1>2. CASE tool.ch # Channels + 1
  BY <1>2, StepFits
<1> QED
  BY <1>1, <1>2

LEMMA CalPrompt ==
  ASSUME ToolInv, CalInv, Calibrating', NEW other \in BOOLEAN, PromptAnswered(other)
  PROVE  CalInv'
<1>1. /\ frames = <<>> /\ tool.exit = "running" /\ Step.op = "prompt" /\ Unasked
      /\ stdin' = IF other THEN 1 ELSE 0
      /\ device' = [device EXCEPT !.input[Step.ch] = Step.signal]
      /\ tool' = NextStep(tool)
      /\ mishaps' = IF other THEN mishaps + 1 ELSE mishaps
  BY DEF PromptAnswered, Running, Counted
<1>2. ToolFits(tool) /\ SamePlace(tool, tool) /\ SameTool(tool, tool)
  BY DEF ToolInv, SamePlace, SameTool
<1>3. tool'.prog = tool.prog
  BY <1>1, <1>2, NextStepFits DEF SameTool
<1>4. ~other /\ mishaps' = mishaps /\ stdin' = 0 /\ Calibrating
  BY <1>1, <1>3 DEF CalInv, Calibrating
<1>5. tool.ch \in Channel /\ Step \in ChannelStep /\ tool.prog \in ChannelPrograms
  BY <1>1, <1>2, <1>4, AskedInChannel DEF Calibrating
<1>6. PICK ch \in Channel, signal \in Nat : ch = Step.ch /\ signal = Step.signal
  BY <1>1, <1>5 DEF ChannelStep
<1>7. PICK names \in NameSets : device \in DeviceStates(names)
  BY DEF ToolInv, DeviceFits
<1>8. /\ device'.ram = device.ram /\ device'.eeprom = device.eeprom /\ device'.point = device.point
      /\ device'.input[Step.ch] = Step.signal
  BY <1>1, <1>6, <1>7 DEF DeviceStates
<1>9. /\ tool'.acc = tool.acc /\ tool'.low = tool.low /\ tool'.high = tool.high
      /\ IF tool.pc < Len(StepsAt(tool.prog, tool.ch))
         THEN tool'.ch = tool.ch /\ tool'.pc = tool.pc + 1
         ELSE tool'.ch = tool.ch + 1 /\ tool'.pc = 1
  BY <1>1, <1>2, <1>5, Onward
<1>10. StepDone
  BY <1>1, <1>3, <1>8, <1>9 DEF StepDone, SameHalves, Writes
<1>11. frames' = <<>> /\ wire' = {}
  <2>1. wire = {}
    BY <1>1, <1>4 DEF CalInv, OneMessage
  <2> QED
    BY <1>1, <2>1 DEF Unasked, vars
<1> QED
  BY <1>1, <1>4, <1>5, <1>8, <1>10, <1>11, CalStepDone

\* what the operator types is a measurement or a choice
LEMMA CalTyped ==
  ASSUME ToolInv, CalInv, Calibrating, Running, Step.op \in {"measure", "choose"},
         Unasked, device' = device, stdin' = stdin, mishaps' = mishaps,
         NEW half \in Halves, NEW word \in Seq(Nat), tool' = NextStep(Half(tool, half, word)),
         Step.op = "measure" => half = Step.half /\ word = <<device.point, 0>>,
         Step.op = "choose" => half = "low" /\ \E c \in {0, 1} : word = <<c>>
  PROVE  CalInv'
<1>1. /\ frames = <<>> /\ tool.exit = "running" /\ ToolFits(tool)
      /\ tool.prog \in ChannelPrograms
  BY DEF Running, ToolInv, Calibrating
<1>2. tool.ch \in Channel
  BY <1>1, AskedInChannel
<1>3. PICK t : t = Half(tool, half, word)
  OBVIOUS
<1>4. /\ ToolFits(t) /\ SameTool(tool, t) /\ SamePlace(tool, t) /\ t.acc = tool.acc
      /\ t.low = IF half = "low" THEN word ELSE tool.low
      /\ t.high = IF half = "low" THEN tool.high ELSE word
  BY <1>1, <1>3, HalfFits
<1>5. t.exit = "running"
  BY <1>1, <1>4 DEF SamePlace
<1>6. /\ tool'.prog = tool.prog
      /\ tool'.acc = t.acc /\ tool'.low = t.low /\ tool'.high = t.high
      /\ IF tool.pc < Len(StepsAt(tool.prog, tool.ch))
         THEN tool'.ch = tool.ch /\ tool'.pc = tool.pc + 1
         ELSE tool'.ch = tool.ch + 1 /\ tool'.pc = 1
  BY <1>2, <1>3, <1>4, <1>5, Onward
<1>7. Step.op = "measure" => HalfIs(<<device.point, 0>>)
  BY <1>4, <1>6 DEF HalfIs
<1>8. Step.op = "choose" => tool'.low \in {<<0>>, <<1>>}
  BY <1>4, <1>6
<1>9. StepDone
  BY <1>4, <1>6, <1>7, <1>8 DEF StepDone, Writes
<1>10. stdin = 0 /\ wire = {}
  BY <1>1 DEF CalInv, OneMessage
<1>11. frames' = <<>> /\ wire' = {} /\ stdin' = 0
  BY <1>1, <1>10 DEF Unasked, vars
<1> QED
  BY <1>1, <1>2, <1>9, <1>11, CalStepDone

LEMMA CalOperator ==
  ASSUME ToolInv, CalInv, Calibrating, Calibrating', PromptSkipped \/ OperatorAnswers
  PROVE  CalInv'
<1>1. stdin = 0
  BY DEF CalInv
<1>2. CASE PromptSkipped
  BY <1>1, <1>2 DEF PromptSkipped
<1>3. ASSUME NEW other \in BOOLEAN, PromptAnswered(other) PROVE CalInv'
  BY <1>3, CalPrompt
<1>4. ASSUME NEW number \in BOOLEAN, MeasureTyped(number) PROVE CalInv'
  <2>1. /\ Running /\ Step.op = "measure" /\ Unasked
        /\ device' = device /\ stdin' = stdin /\ mishaps' = mishaps
        /\ tool' = IF number THEN NextStep(Half(tool, Step.half, <<device.point, 0>>))
                   ELSE [tool EXCEPT !.exit = "failed"]
    BY <1>4 DEF MeasureTyped
  <2>2. ToolFits(tool) /\ tool.prog \in ChannelPrograms
    BY DEF ToolInv, Calibrating
  <2>3. CASE ~number
    <3>1. tool' = [tool EXCEPT !.exit = "failed"]
      BY <2>1, <2>3
    <3>2. tool'.prog = tool.prog /\ tool'.exit = "failed"
      BY <2>2, <3>1, Exited DEF SameTool
    <3>3. wire' \subseteq wire
      BY <2>1 DEF Unasked
    <3> QED
      BY <2>1, <3>2, <3>3, CalEnds
  <2>4. CASE number
    <3>1. device.point \in Nat
      BY DEF ToolInv, DeviceFits, DeviceStates
    <3>2. PICK word \in Seq(Nat) : word = <<device.point, 0>>
      <4>1. 0 \in Nat
        OBVIOUS
      <4> QED
        BY <3>1, <4>1, Sequences, Zenon
    <3>3. PICK half \in Halves : half = Step.half
      BY <2>1, <2>2, AskedInChannel DEF ChannelStep
    <3>4. tool' = NextStep(Half(tool, half, word))
      BY <2>1, <2>4, <3>2, <3>3
    <3> QED
      BY <2>1, <3>2, <3>3, <3>4, CalTyped
  <2> QED
    BY <2>3, <2>4
<1>5. ASSUME NEW c \in {0, 1}, YesOrNo(c) PROVE CalInv'
  <2>1. /\ Running /\ Step.op = "choose" /\ Unasked
        /\ device' = device /\ stdin' = stdin /\ mishaps' = mishaps
        /\ tool' = NextStep([tool EXCEPT !.low = <<c>>])
    BY <1>5 DEF YesOrNo
  <2>2. PICK word \in Seq(Nat) : word = <<c>>
    <3>1. c \in Nat
      OBVIOUS
    <3> QED
      BY <3>1, ByteIsSequence
  <2>3. \E e \in {0, 1} : word = <<e>>
    BY <2>2
  <2>4. "low" \in Halves /\ tool' = NextStep(Half(tool, "low", word))
    BY <2>1, <2>2 DEF Half, Halves
  <2> QED
    BY <2>1, <2>3, <2>4, CalTyped
<1> QED
  BY <1>2, <1>3, <1>4, <1>5 DEF OperatorAnswers

LEMMA CalRefused ==
  ASSUME ToolInv, CalInv, Calibrating, ToolRefused
  PROVE  CalInv'
<1>1. /\ tool' = [tool EXCEPT !.exit = "failed"] /\ ToolFits(tool)
      /\ device' = device /\ wire' \subseteq wire /\ stdin' = stdin /\ mishaps' = mishaps
  BY DEF ToolRefused, ToolInv
<1>2. tool'.prog = tool.prog /\ tool'.exit = "failed"
  BY <1>1, Exited DEF SameTool
<1> QED
  BY <1>1, <1>2, CalEnds

\* what goes wrong is counted, and never forgotten
LEMMA MishapsGrow ==
  ASSUME mishaps \in Nat, [ToolNext]_allVars
  PROVE  mishaps' \in Nat /\ (mishaps' = 0 => mishaps = 0)
<1>1. mishaps' = mishaps \/ mishaps' = mishaps + 1
  BY DEF ToolNext, ToolRefused, ToolCalls, ToolWaits, Answered, TimedOut, ToolGoesOn, PromptSkipped,
         OperatorAnswers, PromptAnswered, MeasureTyped, YesOrNo, NodeHandles, Counted, allVars, toolVars
<1> QED
  BY <1>1

LEMMA CalStep == ToolInv /\ CalInv /\ [ToolNext]_allVars => CalInv'
<1> SUFFICES ASSUME ToolInv, CalInv, [ToolNext]_allVars PROVE CalInv'
  OBVIOUS
<1>1. mishaps' \in Nat /\ (Calibrating' => Calibrating)
  <2>1. mishaps \in Nat
    BY DEF CalInv
  <2> QED
    BY <2>1, MishapsGrow, ProgramStays DEF Calibrating
<1>2. CASE ~Calibrating'
  BY <1>1, <1>2 DEF CalInv
<1>3. CASE Calibrating'
  <2>1. Calibrating
    BY <1>1, <1>3
  <2>2. CASE UNCHANGED allVars \/ ToolWaits
    BY <2>1, <2>2, CalWaits
  <2>3. ASSUME NEW c \in Calls, TimedOut(c) PROVE CalInv'
    BY <1>3, <2>3, CalTimedOut
  <2>4. ASSUME NEW m \in wire, Answered(m) PROVE CalInv'
    BY <1>3, <2>4, CalAnswered
  <2>5. CASE ToolGoesOn
    BY <2>1, <2>5, CalGoesOn
  <2>6. CASE ToolRefused
    BY <2>1, <2>6, CalRefused
  <2>7. CASE ToolCalls
    BY <2>1, <2>7, CalCalls
  <2>8. CASE PromptSkipped \/ OperatorAnswers
    BY <1>3, <2>1, <2>8, CalOperator
  <2>9. ASSUME NEW m \in wire, NodeHandles(m) PROVE CalInv'
    BY <2>1, <2>9, CalNode
  <2> QED
    BY <2>2, <2>3, <2>4, <2>5, <2>6, <2>7, <2>8, <2>9 DEF ToolNext
<1> QED
  BY <1>2, <1>3

LEMMA CalStart == ToolInit => CalInv
<1> SUFFICES ASSUME ToolInit, Calibrating
             PROVE  StoreIsLast /\ EepromKept /\ OneMessage /\ ChannelsDone /\ Known
  <2>1. ASSUME ToolInit PROVE mishaps \in Nat /\ stdin = 0
    BY <2>1 DEF ToolInit
  <2> QED
    BY <2>1 DEF CalInv
<1>1. frames = <<>> /\ wire = {}
  BY DEF ToolInit, Init
<1>2. OneMessage /\ StoreIsLast
  BY <1>1 DEF OneMessage, StoreIsLast
<1>3. ToolFits(tool) /\ tool.prog \in ChannelPrograms /\ tool.prog \in Programs
  BY ToolStart DEF ToolInv, Calibrating, ToolFits, ToolStates
<1>4. tool.pc = 1 /\ tool.ch = 1
  <2>1. tool.ch = FirstChannel(tool.prog) /\ tool.pc = 1
    BY DEF ToolInit
  <2> QED
    BY <1>3, <2>1, FirstBlock
<1>5. PICK names \in NameSets : device.ram = Memory(names) /\ device.eeprom = Memory(names)
                                /\ names # Listed
  <2>1. PICK ram \in Memories(tool.prog) : device.ram = ram /\ device.eeprom = ram
    BY DEF ToolInit
  <2>2. Calibrates(tool.prog) # {}
    <3>1. 1 \in 1..Channels
      BY ChannelsAssumption
    <3>2. <<1, CAL>> \in Calibrates(tool.prog)
      BY <1>3, <3>1 DEF Calibrates, ChannelPrograms
    <3> QED
      BY <3>2
  <2>3. ram \in {Memory(ChannelNames), Memory(ChannelNames \ {<<Channels, CAL>>})}
    BY <2>1, <2>2 DEF Memories
  <2>4. <<1, MODE>> \in ChannelNames \ {<<Channels, CAL>>}
    BY Kinds, ChannelsAssumption DEF ChannelNames
  <2>5. <<1, MODE>> \notin Listed
    BY <2>4, ListedFits DEF Listed
  <2> QED
    BY <2>1, <2>3, <2>4, <2>5 DEF NameSets
<1>6. \A name \in names : name \in ChannelNames => Memory(names)[name] = Old
  <2> SUFFICES ASSUME NEW name \in names, name \in ChannelNames PROVE Memory(names)[name] = Old
    OBVIOUS
  <2>1. name \notin Listed
    BY ListedFits DEF Listed
  <2> QED
    BY <2>1 DEF Memory
<1>7. DOMAIN device.ram = names /\ DOMAIN device.eeprom = names
  BY <1>5 DEF Memory
<1>8. EepromKept
  <2>1. Calibrates(tool.prog) \subseteq ChannelNames
    BY DEF Calibrates, ChannelNames
  <2> QED
    BY <1>5, <1>6, <1>7, <2>1 DEF EepromKept
<1>9. ChannelsDone
  <2>1. \A name \in Calibrates(tool.prog) : name[1] \in 1..Channels
    BY DEF Calibrates
  <2> QED
    BY <1>4, <2>1 DEF ChannelsDone
<1>10. ASSUME NEW ch \in Channel PROVE Has(<<ch, MODE>>, Uint8(9))
  <2>1. PICK name : name = <<ch, MODE>>
    OBVIOUS
  <2>2. name \in ChannelNames /\ name # <<Channels, CAL>>
    BY <2>1, Kinds DEF ChannelNames, Channel
  <2>3. name \in names
    BY <1>5, <2>2 DEF NameSets
  <2>4. device.ram[name] = Old
    BY <1>5, <1>6, <2>2, <2>3
  <2> QED
    BY <1>7, <2>1, <2>3, <2>4 DEF Has, Old
<1>11. PointsKnown
  <2>1. CASE tool.prog = "6180a_cal"
    <3>1. Place = 2 /\ Mode = 9 /\ 1 \in Channel
      BY <1>4, <2>1, ChannelsAssumption DEF Place, Mode, PointMode, Channel
    <3>2. Has(<<tool.ch, MODE>>, Uint8(9))
      BY <1>4, <1>10, <3>1
    <3> QED
      BY <3>1, <3>2 DEF PointsKnown
  <2>2. CASE tool.prog # "6180a_cal"
    <3>1. Place = 1
      BY <1>4, <2>2 DEF Place
    <3> QED
      BY <3>1 DEF PointsKnown
  <2> QED
    BY <2>1, <2>2
<1>12. ZeroKnown /\ WiringKnown
  BY <1>4 DEF ZeroKnown, WiringKnown
<1>13. OutputsKnown
  <2>1. OutputPlace = 1 /\ ~(tool.pc > 5)
    BY <1>4 DEF OutputPlace
  <2> QED
    BY <2>1 DEF OutputsKnown
<1>14. ModesKnown
  BY <1>10 DEF ModesKnown
<1> QED
  BY <1>2, <1>8, <1>9, <1>11, <1>12, <1>13, <1>14 DEF Known

\* no calibration is the value a register had
LEMMA OldIsNotRight ==
  ASSUME NEW prog \in ChannelPrograms, NEW kind
  PROVE  Old \notin Right(prog, kind)
<1>1. Old.type = UINT8 /\ Old.value = <<9>>
  BY DEF Old, Uint8
<1>2. \A v : Uint16(v).type = UINT16
  BY DEF Uint16
<1>3. UINT8 # UINT16
  BY DEF UINT8, UINT16
<1>4. Uint8(0).value = <<0>> /\ Uint8(1).value = <<1>>
  BY DEF Uint8
<1>5. CASE prog = "6190a_conf"
  BY <1>1, <1>4, <1>5 DEF Right
<1>6. CASE prog # "6190a_conf"
  <2>1. \A reg \in Right(prog, kind) : reg.type = UINT16
    BY <1>2, <1>6 DEF Right, ChannelPrograms
  <2> QED
    BY <1>1, <1>3, <2>1
<1> QED
  BY <1>5, <1>6

(***************************************************************************)
(* StoredIsCalibration, for every calibration tool, number of channels and *)
(* node: what a node keeps in its EEPROM are the calibration values it     *)
(* had, or new ones of every channel, each measured in its mode at its     *)
(* point, whichever call fails, takes too long or is handled late.         *)
(***************************************************************************)
THEOREM StoresAreCalibrations == ToolSpec => []StoredIsCalibration
<1>1. CalInv => StoredIsCalibration
  <2> SUFFICES ASSUME CalInv, mishaps = 0, NEW old \in Calibrates(tool.prog) \cap DOMAIN device.eeprom,
                      device.eeprom[old] # Old, NEW n \in Calibrates(tool.prog)
               PROVE  /\ n \in DOMAIN device.eeprom /\ device.eeprom[n] # Old
                      /\ device.eeprom[n] \in Right(tool.prog, n[2])
    BY DEF StoredIsCalibration
  <2>1. tool.prog \in ChannelPrograms
    BY DEF Calibrates, ChannelPrograms
  <2>2. EepromKept
    BY <2>1 DEF CalInv, Calibrating
  <2>3. n \in DOMAIN device.eeprom /\ device.eeprom[n] \in Right(tool.prog, n[2])
    BY <2>2 DEF EepromKept
  <2> QED
    BY <2>1, <2>3, OldIsNotRight
<1> QED
  BY ToolStart, ToolStep, CalStart, CalStep, <1>1, PTL DEF ToolSpec

-----------------------------------------------------------------------------
(***************************************************************************)
(* CAN-IDs.                                                                *)
(***************************************************************************)
Nodes == 0..NODE_ID_MAX

\* what txMakeCANID puts together for a service
LEMMA ServiceSession ==
  ASSUME NEW kind \in {"request", "response"}, NEW port, NEW remote, NEW priority, NEW local,
         port <= SERVICE_ID_MAX, remote <= NODE_ID_MAX, local <= NODE_ID_MAX,
         priority <= PRIORITY_MAX
  PROVE  MakeCanId([kind |-> kind, port |-> port, remote |-> remote, priority |-> priority], local)
         = ServiceSessionSpecifier(port, kind = "request", local, remote)
           + At(priority, OFFSET_PRIORITY)
<1> SUFFICES ASSUME NEW tr,
                    tr = [kind |-> kind, port |-> port, remote |-> remote, priority |-> priority]
             PROVE  MakeCanId(tr, local) =
                      ServiceSessionSpecifier(port, kind = "request", local, remote)
                      + At(priority, OFFSET_PRIORITY)
  OBVIOUS
<1>1. tr.kind = kind /\ tr.port = port /\ tr.remote = remote /\ tr.priority = priority
  OBVIOUS
<1>2. tr.kind # "message" /\ tr.kind \in {"request", "response"}
  BY <1>1
<1> QED
  BY <1>1, <1>2, Zenon DEF MakeCanId

\* and for a message
LEMMA MessageSession ==
  ASSUME NEW subject, NEW priority, NEW local, subject <= SUBJECT_ID_MAX, priority <= PRIORITY_MAX
  PROVE  MakeCanId([kind |-> "message", port |-> subject, remote |-> NODE_ID_UNSET,
                    priority |-> priority], local)
         = MessageSessionSpecifier(subject, local) + At(priority, OFFSET_PRIORITY)
<1> SUFFICES ASSUME NEW tr, tr = [kind |-> "message", port |-> subject, remote |-> NODE_ID_UNSET,
                                  priority |-> priority]
             PROVE  MakeCanId(tr, local) = MessageSessionSpecifier(subject, local)
                                           + At(priority, OFFSET_PRIORITY)
  OBVIOUS
<1>1. /\ tr.kind = "message" /\ tr.port = subject /\ tr.remote = NODE_ID_UNSET
      /\ tr.priority = priority
  OBVIOUS
<1> QED
  BY <1>1, Zenon DEF MakeCanId

\* a CAN-ID of a service, with b for a request, and what its bits are
ServiceSum(b, port, remote, priority, local) ==
  local + remote * 128 + port * 16384 + b * 16777216 + 33554432 + priority * 67108864

ServiceBits(id, b, port, remote, priority, local) ==
  /\ (id \div 1) % 128 = local
  /\ (id \div 128) % 128 = remote
  /\ (id \div 16384) % 512 = port
  /\ (id \div 8388608) % 2 = 0
  /\ (id \div 16777216) % 2 = b
  /\ (id \div 33554432) % 2 = 1
  /\ (id \div 67108864) % 8 = priority

\* one of a message
MessageSum(subject, priority, local) == local + (subject + 24576) * 256 + priority * 67108864

MessageBits(id, subject, priority, local) ==
  /\ (id \div 1) % 128 = local
  /\ (id \div 128) % 2 = 0
  /\ (id \div 256) % 8192 = subject
  /\ (id \div 8388608) % 2 = 0
  /\ (id \div 16777216) % 2 = 0
  /\ (id \div 33554432) % 2 = 0
  /\ (id \div 67108864) % 8 = priority

\* the fields of a CAN-ID of a service do not overlap
LEMMA ServiceFields ==
  ASSUME NEW b \in 0..1, NEW port \in 0..511, NEW remote \in 0..127,
         NEW priority \in 0..7, NEW local \in 0..127
  PROVE  ServiceBits(ServiceSum(b, port, remote, priority, local), b, port, remote, priority, local)
<1> DEFINE id == ServiceSum(b, port, remote, priority, local)
<1>1. id \in Nat
  BY SMT DEF ServiceSum
<1>2. /\ id \div 128 = remote + port * 128 + b * 131072 + 262144 + priority * 524288
      /\ id \div 16384 = port + b * 1024 + 2048 + priority * 4096
  BY <1>1, SMT DEF ServiceSum
<1>3. /\ id \div 8388608 = b * 2 + 4 + priority * 8
      /\ id \div 16777216 = b + 2 + priority * 4
  BY <1>1, SMT DEF ServiceSum
<1>4. /\ id \div 33554432 = 1 + priority * 2
      /\ id \div 67108864 = priority
  BY <1>1, SMT DEF ServiceSum
<1>5. /\ (remote + port * 128 + b * 131072 + 262144 + priority * 524288) % 128 = remote
      /\ (port + b * 1024 + 2048 + priority * 4096) % 512 = port
  BY SMT
<1>6. /\ (b * 2 + 4 + priority * 8) % 2 = 0
      /\ (b + 2 + priority * 4) % 2 = b
      /\ (1 + priority * 2) % 2 = 1
      /\ priority % 8 = priority
  BY SMT
<1>7. (id \div 1) % 128 = local
  BY SMT DEF ServiceSum
<1> HIDE DEF id
<1> QED
  BY <1>2, <1>3, <1>4, <1>5, <1>6, <1>7, SMT DEF ServiceBits, id

\* nor those of a message
LEMMA MessageFields ==
  ASSUME NEW subject \in 0..SUBJECT_ID_MAX, NEW priority \in 0..7, NEW local \in 0..127
  PROVE  MessageBits(MessageSum(subject, priority, local), subject, priority, local)
<1> DEFINE id == MessageSum(subject, priority, local)
<1>1. id \in Nat /\ subject \in 0..8191
  BY SMT DEF MessageSum, SUBJECT_ID_MAX
<1>2. /\ id \div 128 = (subject + 24576) * 2 + priority * 524288
      /\ id \div 256 = subject + 24576 + priority * 262144
  BY <1>1, SMT DEF MessageSum
<1>3. /\ id \div 8388608 = priority * 8
      /\ id \div 16777216 = priority * 4
  BY <1>1, SMT DEF MessageSum
<1>4. /\ id \div 33554432 = priority * 2
      /\ id \div 67108864 = priority
  BY <1>1, SMT DEF MessageSum
<1>5. /\ ((subject + 24576) * 2 + priority * 524288) % 2 = 0
      /\ (subject + 24576 + priority * 262144) % 8192 = subject
  BY <1>1, SMT
<1>6. /\ (priority * 8) % 2 = 0
      /\ (priority * 4) % 2 = 0
      /\ (priority * 2) % 2 = 0
      /\ priority % 8 = priority
  BY SMT
<1>7. (id \div 1) % 128 = local
  BY <1>1, SMT DEF MessageSum
<1> HIDE DEF id
<1> QED
  BY <1>2, <1>3, <1>4, <1>5, <1>6, <1>7, SMT DEF MessageBits, id

\* A frame of a service is taken apart, by rxTryParseFrame, into what txMakeCANID put it together
\* of: for every port, pair of nodes and priority
THEOREM ServiceIdsRoundTrip ==
  ASSUME NEW kind \in {"request", "response"}, NEW port \in 0..SERVICE_ID_MAX, NEW remote \in Nodes,
         NEW priority \in 0..PRIORITY_MAX, NEW local \in Nodes, remote # local
  PROVE  ParseCanId(MakeCanId([kind |-> kind, port |-> port, remote |-> remote,
                               priority |-> priority], local)) =
           [priority |-> priority, kind |-> kind, port |-> port, src |-> local, dst |-> remote,
            valid |-> TRUE]
<1>1. /\ port \in 0..511 /\ remote \in 0..127 /\ local \in 0..127 /\ priority \in 0..7
  BY SMT DEF Nodes, NODE_ID_MAX, SERVICE_ID_MAX, PRIORITY_MAX
<1>2. /\ port <= SERVICE_ID_MAX /\ remote <= NODE_ID_MAX /\ local <= NODE_ID_MAX
      /\ priority <= PRIORITY_MAX
  BY <1>1, SMT DEF NODE_ID_MAX, SERVICE_ID_MAX, PRIORITY_MAX
<1> PICK b \in 0..1 : b = IF kind = "request" THEN 1 ELSE 0
  BY SMT
<1> PICK id : id = MakeCanId([kind |-> kind, port |-> port, remote |-> remote,
                              priority |-> priority], local)
  OBVIOUS
<1>3. id = ServiceSessionSpecifier(port, kind = "request", local, remote)
           + At(priority, OFFSET_PRIORITY)
  BY <1>2, ServiceSession
<1>4. /\ 2^0 = 1 /\ 2^7 = 128 /\ 2^14 = 16384 /\ 2^23 = 8388608 /\ 2^24 = 16777216
      /\ 2^25 = 33554432 /\ 2^26 = 67108864
  BY SMT
<1>5. id = ServiceSum(b, port, remote, priority, local)
  BY <1>1, <1>3, <1>4, SMT DEF ServiceSum, ServiceSessionSpecifier, At, FlagIf, OFFSET_DST_NODE_ID,
       OFFSET_SERVICE_ID, OFFSET_PRIORITY, BIT_REQUEST_NOT_RESPONSE, BIT_SERVICE_NOT_MESSAGE
<1>6. ServiceBits(id, b, port, remote, priority, local)
  BY <1>1, <1>5, ServiceFields, Zenon
<1>7. /\ Field(id, 0, NODE_ID_MAX) = local
      /\ Field(id, OFFSET_DST_NODE_ID, NODE_ID_MAX) = remote
      /\ Field(id, OFFSET_SERVICE_ID, SERVICE_ID_MAX) = port
      /\ Field(id, OFFSET_PRIORITY, PRIORITY_MAX) = priority
      /\ Field(id, BIT_RESERVED_23, 1) = 0
      /\ Field(id, BIT_REQUEST_NOT_RESPONSE, 1) = b
      /\ Field(id, BIT_SERVICE_NOT_MESSAGE, 1) = 1
  BY <1>4, <1>6, SMT DEF ServiceBits, Field, NODE_ID_MAX, SERVICE_ID_MAX, PRIORITY_MAX,
       OFFSET_DST_NODE_ID, OFFSET_SERVICE_ID, OFFSET_PRIORITY, BIT_RESERVED_23,
       BIT_REQUEST_NOT_RESPONSE, BIT_SERVICE_NOT_MESSAGE
<1>8. /\ Flag(id, BIT_SERVICE_NOT_MESSAGE)
      /\ Flag(id, BIT_REQUEST_NOT_RESPONSE) <=> kind = "request"
      /\ ~Flag(id, BIT_RESERVED_23)
  BY <1>7, SMT DEF Flag
<1>9. ParseCanId(id) = [priority |-> priority, kind |-> kind, port |-> port, src |-> local,
                        dst |-> remote, valid |-> TRUE]
  <2>1. kind = IF kind = "request" THEN "request" ELSE "response"
    OBVIOUS
  <2> HIDE <1>1, <1>3, <1>4, <1>5, <1>6
  <2> QED
    BY <1>7, <1>8, <2>1, Zenon DEF ParseCanId
<1> QED
  BY <1>9, Zenon

\* A message is taken apart into what it was put together of: the two bits above its subject are
\* set, and neither makes it anonymous or a frame of a service
THEOREM MessageIdsRoundTrip ==
  ASSUME NEW subject \in 0..SUBJECT_ID_MAX, NEW priority \in 0..PRIORITY_MAX, NEW local \in Nodes
  PROVE  ParseCanId(MakeCanId([kind |-> "message", port |-> subject, remote |-> NODE_ID_UNSET,
                               priority |-> priority], local)) =
           [priority |-> priority, kind |-> "message", port |-> subject, src |-> local,
            dst |-> NODE_ID_UNSET, valid |-> TRUE]
<1>1. /\ 2^0 = 1 /\ 2^7 = 128 /\ 2^8 = 256 /\ 2^23 = 8388608 /\ 2^24 = 16777216
      /\ 2^25 = 33554432 /\ 2^26 = 67108864
  BY SMT
<1>2. /\ subject \in 0..8191 /\ priority \in 0..7 /\ local \in 0..127
  BY SMT DEF Nodes, NODE_ID_MAX, SUBJECT_ID_MAX, PRIORITY_MAX
<1>3. subject <= SUBJECT_ID_MAX /\ priority <= PRIORITY_MAX
  BY <1>2, SMT DEF SUBJECT_ID_MAX, PRIORITY_MAX
<1> PICK id : id = MakeCanId([kind |-> "message", port |-> subject, remote |-> NODE_ID_UNSET,
                              priority |-> priority], local)
  OBVIOUS
<1>4. id = MessageSessionSpecifier(subject, local) + At(priority, OFFSET_PRIORITY)
  BY <1>3, MessageSession, Zenon
<1>5. id = MessageSum(subject, priority, local)
  BY <1>1, <1>2, <1>4, SMT DEF MessageSum, MessageSessionSpecifier, At, OFFSET_SUBJECT_ID,
       SUBJECT_ID_MAX, OFFSET_PRIORITY
<1>6. MessageBits(id, subject, priority, local)
  <2>1. priority \in 0..7 /\ local \in 0..127
    BY <1>2, SMT
  <2> QED
    BY <2>1, <1>5, MessageFields, Zenon
<1>7. /\ Field(id, 0, NODE_ID_MAX) = local
      /\ Field(id, BIT_RESERVED_07, 1) = 0
      /\ Field(id, OFFSET_SUBJECT_ID, SUBJECT_ID_MAX) = subject
      /\ Field(id, BIT_RESERVED_23, 1) = 0
      /\ Field(id, BIT_ANONYMOUS_MESSAGE, 1) = 0
      /\ Field(id, BIT_SERVICE_NOT_MESSAGE, 1) = 0
      /\ Field(id, OFFSET_PRIORITY, PRIORITY_MAX) = priority
  BY <1>1, <1>6, SMT DEF MessageBits, Field, NODE_ID_MAX, SUBJECT_ID_MAX, PRIORITY_MAX,
       OFFSET_SUBJECT_ID, OFFSET_PRIORITY, BIT_RESERVED_07, BIT_RESERVED_23, BIT_ANONYMOUS_MESSAGE,
       BIT_SERVICE_NOT_MESSAGE
<1>8. /\ ~Flag(id, BIT_SERVICE_NOT_MESSAGE) /\ ~Flag(id, BIT_ANONYMOUS_MESSAGE)
      /\ ~Flag(id, BIT_RESERVED_23) /\ ~Flag(id, BIT_RESERVED_07)
  BY <1>7, SMT DEF Flag
<1>9. ParseCanId(id) = [priority |-> priority, kind |-> "message", port |-> subject, src |-> local,
                        dst |-> NODE_ID_UNSET, valid |-> TRUE]
  BY <1>7, <1>8, Zenon DEF ParseCanId
<1> QED
  BY <1>9, Zenon

-----------------------------------------------------------------------------
(***************************************************************************)
(* The update.                                                             *)
(***************************************************************************)
StrangeIds == {Id("request", FILE_READ, Server, Stranger),
               Id("request", FILE_READ, OtherServer, Stranger),
               Id("message", HEARTBEAT, NODE_ID_UNSET, Stranger)}

\* the four nodes are different ones
LEMMA FourNodes ==
  /\ Server \in Nodes /\ Target \in Nodes /\ Stranger \in Nodes /\ OtherServer \in Nodes
  /\ Server # Target /\ Server # Stranger /\ Stranger # Target /\ OtherServer # Stranger
<1>1. \A a, b, c : Cardinality({a, b, c}) <= 3 /\ Cardinality({a, b, c}) \in Nat
  <2> SUFFICES ASSUME NEW a, NEW b, NEW c
               PROVE  Cardinality({a, b, c}) <= 3 /\ Cardinality({a, b, c}) \in Nat
    OBVIOUS
  <2>1. IsFiniteSet({}) /\ Cardinality({}) = 0
    BY FS_EmptySet
  <2>2. IsFiniteSet({} \cup {a}) /\ Cardinality({} \cup {a}) \in 0..1
    BY <2>1, FS_AddElement
  <2>3. IsFiniteSet(({} \cup {a}) \cup {b}) /\ Cardinality(({} \cup {a}) \cup {b}) \in 0..2
    BY <2>2, FS_AddElement
  <2>4. Cardinality((({} \cup {a}) \cup {b}) \cup {c}) \in 0..3
    BY <2>3, FS_AddElement
  <2>5. {a, b, c} = (({} \cup {a}) \cup {b}) \cup {c}
    OBVIOUS
  <2> QED
    BY <2>4, <2>5
<1>2. {Server, Target, Stranger, OtherServer} \subseteq Nodes
  BY NodesAssumption DEF Nodes
<1>3. \A a, b, c : {Server, Target, Stranger, OtherServer} # {a, b, c}
  <2> SUFFICES ASSUME NEW a, NEW b, NEW c, {Server, Target, Stranger, OtherServer} = {a, b, c}
               PROVE  FALSE
    OBVIOUS
  <2>1. Cardinality({a, b, c}) = 4
    BY NodesAssumption, Zenon
  <2>2. Cardinality({a, b, c}) <= 3
    BY <1>1, Zenon
  <2> QED
    BY <2>1, <2>2, SMT
<1>4. Server # Target
  <2>1. Server = Target => {Server, Target, Stranger, OtherServer} = {Server, Stranger, OtherServer}
    OBVIOUS
  <2> QED
    BY <1>3, <2>1
<1>5. Server # Stranger
  <2>1. Server = Stranger => {Server, Target, Stranger, OtherServer} = {Server, Target, OtherServer}
    OBVIOUS
  <2> QED
    BY <1>3, <2>1
<1>6. Stranger # Target
  <2>1. Stranger = Target => {Server, Target, Stranger, OtherServer} = {Server, Target, OtherServer}
    OBVIOUS
  <2> QED
    BY <1>3, <2>1
<1>7. OtherServer # Stranger
  <2>1. OtherServer = Stranger =>
          {Server, Target, Stranger, OtherServer} = {Server, Target, OtherServer}
    OBVIOUS
  <2> QED
    BY <1>3, <2>1
<1> QED
  BY <1>2, <1>4, <1>5, <1>6, <1>7

\* who asks and who answers, and for what, can be told from the CAN-ID
LEMMA ServiceIds ==
  ASSUME NEW kind \in {"request", "response"}, NEW port \in 0..SERVICE_ID_MAX, NEW remote \in Nodes,
         NEW local \in Nodes, remote # local
  PROVE  /\ ParseCanId(Id(kind, port, remote, local)).kind = kind
         /\ ParseCanId(Id(kind, port, remote, local)).port = port
         /\ ParseCanId(Id(kind, port, remote, local)).src = local
<1>1. NOMINAL \in 0..PRIORITY_MAX
  BY SMT DEF NOMINAL, PRIORITY_MAX
<1>2. ParseCanId(Id(kind, port, remote, local)) =
        [priority |-> NOMINAL, kind |-> kind, port |-> port, src |-> local, dst |-> remote,
         valid |-> TRUE]
  BY <1>1, ServiceIdsRoundTrip, Zenon DEF Id
<1> QED
  BY <1>2

LEMMA HeartbeatIds ==
  ASSUME NEW local \in Nodes
  PROVE  /\ ParseCanId(Id("message", HEARTBEAT, NODE_ID_UNSET, local)).kind = "message"
         /\ ParseCanId(Id("message", HEARTBEAT, NODE_ID_UNSET, local)).src = local
<1>1. NOMINAL \in 0..PRIORITY_MAX /\ HEARTBEAT \in 0..SUBJECT_ID_MAX
  BY SMT DEF NOMINAL, PRIORITY_MAX, HEARTBEAT, SUBJECT_ID_MAX
<1>2. ParseCanId(Id("message", HEARTBEAT, NODE_ID_UNSET, local)) =
        [priority |-> NOMINAL, kind |-> "message", port |-> HEARTBEAT, src |-> local,
         dst |-> NODE_ID_UNSET, valid |-> TRUE]
  BY <1>1, MessageIdsRoundTrip, Zenon DEF Id
<1> QED
  BY <1>2

LEMMA IdsDiffer ==
  /\ ParseCanId(RequestId).port = FILE_READ
  /\ RequestId # AnswerId /\ RequestId # CommandId /\ AnswerId # CommandId
  /\ RequestId \notin StrangeIds /\ AnswerId \notin StrangeIds
<1>1. FILE_READ \in 0..SERVICE_ID_MAX /\ EXECUTE_COMMAND \in 0..SERVICE_ID_MAX
      /\ FILE_READ # EXECUTE_COMMAND
  BY SMT DEF FILE_READ, EXECUTE_COMMAND, SERVICE_ID_MAX
<1>2. /\ ParseCanId(RequestId).kind = "request"
      /\ ParseCanId(RequestId).port = FILE_READ
      /\ ParseCanId(RequestId).src = Target
  BY <1>1, FourNodes, ServiceIds DEF RequestId
<1>3. ParseCanId(AnswerId).kind = "response"
  BY <1>1, FourNodes, ServiceIds DEF AnswerId
<1>4. ParseCanId(CommandId).kind = "request" /\ ParseCanId(CommandId).port = EXECUTE_COMMAND
  BY <1>1, FourNodes, ServiceIds DEF CommandId
<1>5. \A id \in StrangeIds : ParseCanId(id).src = Stranger /\ ParseCanId(id).kind # "response"
  <2>1. \A n \in {Server, OtherServer} :
          /\ ParseCanId(Id("request", FILE_READ, n, Stranger)).src = Stranger
          /\ ParseCanId(Id("request", FILE_READ, n, Stranger)).kind = "request"
    BY <1>1, FourNodes, ServiceIds
  <2> QED
    BY <2>1, FourNodes, HeartbeatIds DEF StrangeIds
<1> QED
  BY <1>1, <1>2, <1>3, <1>4, <1>5, FourNodes

-----------------------------------------------------------------------------
(***************************************************************************)
(* The update: the image is the file.                                      *)
(***************************************************************************)
AllIds == {RequestId, AnswerId, CommandId} \cup StrangeIds

Transfers == [id : AllIds, tid : Int, content : Seq(Nat), again : BOOLEAN]

FwTypes ==
  /\ size \in Nat
  /\ bus \subseteq Transfers
  /\ node \in [at : {"application", "reading", "updated"}, tid : Int, waiting : BOOLEAN,
               early : Int, image : Seq(Nat)]

\* a transfer that belongs to the request the node waits on is about the block behind its image
About(m, offset) == node.waiting /\ m.tid = node.tid => offset = Len(node.image)

RequestsForBlocks ==
  \A m \in bus : m.id = RequestId => \E o \in Nat : m.content = <<o>> /\ About(m, o)

AnswersAreBlocks ==
  \A m \in bus : m.id = AnswerId => \E o \in Nat : m.content = BlockOf(o) /\ About(m, o)

FwInv ==
  /\ FwTypes
  /\ RequestsForBlocks
  /\ answered \subseteq {RequestId} => AnswersAreBlocks
  /\ ImageIsFile

\* a block is as long as it can be
LEMMA Blocks ==
  ASSUME size \in Nat, NEW o \in Nat
  PROVE  /\ BlockOf(o) \in Seq(Nat)
         /\ \A i \in DOMAIN BlockOf(o) : BlockOf(o)[i] = o + i
         /\ Len(BlockOf(o)) = IF o >= size THEN 0 ELSE IF size - o > Block THEN Block ELSE size - o
<1> DEFINE left == IF o >= size THEN 0 ELSE size - o
           length == IF left > Block THEN Block ELSE left
<1>1. Block \in Nat /\ length \in Nat
  BY FileAssumption
<1>2. BlockOf(o) = [i \in 1..length |-> o + i]
  BY DEF BlockOf
<1>3. length = IF o >= size THEN 0 ELSE IF size - o > Block THEN Block ELSE size - o
  BY <1>1
<1> HIDE DEF length
<1>4. BlockOf(o) \in Seq(Nat) /\ Len(BlockOf(o)) = length /\ DOMAIN BlockOf(o) = 1..length
  <2>1. \A i \in 1..length : o + i \in Nat
    BY <1>1
  <2> QED
    BY <1>1, <1>2, <2>1
<1> QED
  BY <1>2, <1>3, <1>4

\* nothing is under way at first
LEMMA FwStart == FwInit => FwInv
<1> SUFFICES ASSUME FwInit PROVE FwInv
  OBVIOUS
<1>1. size \in Nat /\ bus = {} /\ TidMod \in Int
  BY FileAssumption, TidAssumption DEF FwInit, AtRest
<1>2. node = [at |-> "application", tid |-> TidMod - 1, waiting |-> FALSE, early |-> 0,
              image |-> <<>>]
  BY DEF FwInit, AtRest
<1>3. FwTypes
  BY <1>1, <1>2 DEF FwTypes
<1>4. RequestsForBlocks /\ AnswersAreBlocks
  BY <1>1 DEF RequestsForBlocks, AnswersAreBlocks
<1>5. ImageIsFile
  BY <1>1, <1>2 DEF ImageIsFile
<1> QED
  BY <1>3, <1>4, <1>5 DEF FwInv

\* A step that leaves alone what the node has and waits for: every request of afterwards was there
\* before, and every answer was there or is the block one of the requests asks for
LEMMA SameNode ==
  ASSUME FwInv, FwTypes', size' = size, answered \subseteq answered',
         node'.tid = node.tid, node'.waiting = node.waiting, node'.image = node.image,
         node'.at = "updated" => node.at = "updated",
         \A m \in bus' : m.id = RequestId =>
           \E n \in bus : n.id = RequestId /\ n.tid = m.tid /\ n.content = m.content,
         answered' \subseteq {RequestId} =>
           \A m \in bus' : m.id = AnswerId =>
             \E n \in bus : /\ n.tid = m.tid
                            /\ \/ n.id = AnswerId /\ n.content = m.content
                               \/ n.id = RequestId /\ m.content = BlockOf(n.content[1])
  PROVE  FwInv'
<1>1. \A m, n, o : n.tid = m.tid /\ About(n, o) => About(m, o)'
  BY DEF About
<1>2. \A o : BlockOf(o)' = BlockOf(o)
  BY DEF BlockOf
<1>3. RequestsForBlocks'
  <2> SUFFICES ASSUME NEW m \in bus', m.id = RequestId
               PROVE  \E o \in Nat : m.content = <<o>> /\ About(m, o)'
    BY DEF RequestsForBlocks
  <2>1. PICK n \in bus : n.id = RequestId /\ n.tid = m.tid /\ n.content = m.content
    OBVIOUS
  <2>2. PICK o \in Nat : n.content = <<o>> /\ About(n, o)
    BY <2>1 DEF FwInv, RequestsForBlocks
  <2> QED
    BY <1>1, <2>1, <2>2
<1>4. ASSUME answered' \subseteq {RequestId} PROVE AnswersAreBlocks'
  <2> SUFFICES ASSUME NEW m \in bus', m.id = AnswerId
               PROVE  \E o \in Nat : m.content = BlockOf(o) /\ About(m, o)'
    BY <1>2 DEF AnswersAreBlocks
  <2>1. answered \subseteq {RequestId}
    BY <1>4
  <2>2. PICK n \in bus : /\ n.tid = m.tid
                         /\ \/ n.id = AnswerId /\ n.content = m.content
                            \/ n.id = RequestId /\ m.content = BlockOf(n.content[1])
    BY <1>4
  <2>3. CASE n.id = AnswerId /\ n.content = m.content
    <3>1. PICK o \in Nat : n.content = BlockOf(o) /\ About(n, o)
      BY <2>1, <2>3 DEF FwInv, AnswersAreBlocks
    <3> QED
      BY <1>1, <2>2, <2>3, <3>1
  <2>4. CASE n.id = RequestId /\ m.content = BlockOf(n.content[1])
    <3>1. PICK o \in Nat : n.content = <<o>> /\ About(n, o)
      BY <2>4 DEF FwInv, RequestsForBlocks
    <3>2. n.content[1] = o
      BY <3>1
    <3> QED
      BY <1>1, <2>2, <2>4, <3>1, <3>2
  <2> QED
    BY <2>2, <2>3, <2>4
<1>5. ImageIsFile'
  BY DEF FwInv, ImageIsFile
<1> QED
  BY <1>3, <1>4, <1>5 DEF FwInv

\* a step that only takes transfers from the bus, or adds some that are neither requests of the
\* node nor answers
LEMMA NothingForNode ==
  ASSUME FwInv, UNCHANGED <<size, node, answered>>,
         \A m \in bus' : m \in bus \/ (m \in Transfers /\ m.id \notin {RequestId, AnswerId})
  PROVE  FwInv'
<1>1. FwTypes'
  BY DEF FwInv, FwTypes
<1>2. \A m \in bus' : m.id \in {RequestId, AnswerId} => m \in bus
  OBVIOUS
<1> QED
  BY <1>1, <1>2, SameNode

\* the request that is answered, a block of the node's or one that is not its own
LEMMA ServeStep ==
  ASSUME FwInv, NEW m \in bus, NEW again \in BOOLEAN, Serve(m, again)
  PROVE  FwInv'
<1> DEFINE repeated == [m EXCEPT !.again = TRUE]
<1>1. /\ bus' = Taken(m, again) \cup {BlockReply(r) : r \in Asking(m)}
      /\ answered' = answered \cup {r.id : r \in Asking(m)}
      /\ node' = node /\ size' = size
  BY DEF Serve
<1>2. m \in Transfers
  BY DEF FwInv, FwTypes
<1>3. repeated \in Transfers /\ repeated.id = m.id /\ repeated.tid = m.tid
      /\ repeated.content = m.content
  BY <1>2 DEF Transfers
<1>4. ParseCanId(m.id).port = FILE_READ
  BY DEF Serve, Heard, Accepted, Subscriptions
<1>5. \A r \in Asking(m) : /\ r = m /\ m.content # <<>>
                           /\ BlockReply(r) = [id |-> AnswerId, tid |-> m.tid,
                                               content |-> BlockOf(m.content[1]), again |-> FALSE]
  BY <1>4 DEF Asking, BlockReply, Transfer, AnswerId
<1>6. ASSUME m.content # <<>> PROVE m.content[1] \in Nat
  BY <1>2, <1>6 DEF Transfers
<1>7. AnswerId \in AllIds
  BY DEF AllIds
<1>8. \A r \in Asking(m) : /\ BlockReply(r) \in Transfers
                           /\ BlockReply(r).id = AnswerId
                           /\ BlockReply(r).tid = m.tid
                           /\ BlockReply(r).content = BlockOf(m.content[1])
  <2> SUFFICES ASSUME NEW r \in Asking(m)
               PROVE  /\ BlockReply(r) \in Transfers
                      /\ BlockReply(r).id = AnswerId
                      /\ BlockReply(r).tid = m.tid
                      /\ BlockReply(r).content = BlockOf(m.content[1])
    OBVIOUS
  <2>1. m.tid \in Int /\ BlockOf(m.content[1]) \in Seq(Nat)
    BY <1>2, <1>5, <1>6, Blocks DEF FwInv, FwTypes, Transfers
  <2> QED
    <3>1. BlockReply(r) = [id |-> AnswerId, tid |-> m.tid, content |-> BlockOf(m.content[1]),
                           again |-> FALSE]
      BY <1>5
    <3>2. [id |-> AnswerId, tid |-> m.tid, content |-> BlockOf(m.content[1]), again |-> FALSE]
            \in Transfers
      BY <1>7, <2>1 DEF Transfers
    <3> QED
      BY <3>1, <3>2
<1>9. \A n \in bus' : n \in bus \/ n = repeated \/ \E r \in Asking(m) : n = BlockReply(r)
  BY <1>1 DEF Taken
<1> HIDE DEF repeated
<1>10. FwTypes'
  BY <1>1, <1>3, <1>8, <1>9 DEF FwInv, FwTypes
<1>11. \A n \in bus' : n.id = RequestId =>
         \E o \in bus : o.id = RequestId /\ o.tid = n.tid /\ o.content = n.content
  BY <1>3, <1>8, <1>9, IdsDiffer
<1>12. ASSUME answered' \subseteq {RequestId}, NEW n \in bus', n.id = AnswerId
       PROVE  \E o \in bus : /\ o.tid = n.tid
                             /\ \/ o.id = AnswerId /\ o.content = n.content
                                \/ o.id = RequestId /\ n.content = BlockOf(o.content[1])
  <2>1. CASE n \in bus \/ n = repeated
    BY <1>3, <1>12, <2>1
  <2>2. CASE \E r \in Asking(m) : n = BlockReply(r)
    <3>1. PICK r \in Asking(m) : n = BlockReply(r)
      BY <2>2
    <3>2. m.id = RequestId
      BY <1>1, <1>5, <1>12, <3>1
    <3> QED
      BY <1>8, <3>1, <3>2
  <2> QED
    BY <1>9, <2>1, <2>2
<1> QED
  BY <1>1, <1>10, <1>11, <1>12, SameNode

\* the node asks for the block behind its image
LEMMA AskStep ==
  ASSUME FwInv, NodeAsks
  PROVE  FwInv'
<1> DEFINE tid   == (node.tid + 1) % TidMod
           asked == Transfer(RequestId, tid, <<Len(node.image)>>)
<1>1. /\ ~UnderWay(tid) /\ bus' = bus \cup {asked}
      /\ size' = size /\ answered' = answered
  BY DEF NodeAsks
<1>2. /\ node'.tid = tid /\ node'.waiting = TRUE /\ node'.image = node.image /\ node'.at = node.at
      /\ tid \in Int
      /\ node' \in [at : {"application", "reading", "updated"}, tid : Int, waiting : BOOLEAN,
                    early : Int, image : Seq(Nat)]
  <2>1. tid \in Int
    BY TidAssumption DEF FwInv, FwTypes
  <2>2. node \in [at : {"application", "reading", "updated"}, tid : Int, waiting : BOOLEAN,
                  early : Int, image : Seq(Nat)]
    BY DEF FwInv, FwTypes
  <2>3. PICK early \in BOOLEAN :
          node' = [node EXCEPT !.tid = tid, !.waiting = TRUE, !.early = IF early THEN @ + 1 ELSE @]
    BY DEF NodeAsks, UnderWay
  <2> HIDE DEF tid
  <2>4. (IF early THEN node.early + 1 ELSE node.early) \in Int
    BY <2>2
  <2> QED
    BY <2>1, <2>2, <2>3, <2>4
<1>3. Len(node.image) \in Nat
  BY DEF FwInv, FwTypes
<1> HIDE DEF tid
<1>4. /\ asked \in Transfers /\ asked.id = RequestId /\ asked.tid = tid
      /\ asked.content = <<Len(node.image)>>
  BY <1>2, <1>3 DEF Transfer, Transfers, AllIds
<1> HIDE DEF asked
<1>5. FwTypes'
  BY <1>1, <1>2, <1>4 DEF FwInv, FwTypes
\* all others are too old to be waited for
<1>6. \A o : \A m \in bus : m.id \in {RequestId, AnswerId} => About(m, o)'
  BY <1>1, <1>2 DEF UnderWay, About
<1>7. RequestsForBlocks'
  <2> SUFFICES ASSUME NEW m \in bus', m.id = RequestId
               PROVE  \E o \in Nat : m.content = <<o>> /\ About(m, o)'
    BY DEF RequestsForBlocks
  <2>1. CASE m \in bus
    BY <1>6, <2>1 DEF FwInv, RequestsForBlocks
  <2>2. CASE m = asked
    BY <1>2, <1>3, <1>4, <2>2 DEF About
  <2> QED
    BY <1>1, <2>1, <2>2
<1>8. \A o : BlockOf(o)' = BlockOf(o)
  BY <1>1 DEF BlockOf
<1>9. ASSUME answered' \subseteq {RequestId} PROVE AnswersAreBlocks'
  <2> SUFFICES ASSUME NEW m \in bus', m.id = AnswerId
               PROVE  \E o \in Nat : m.content = BlockOf(o) /\ About(m, o)'
    BY <1>8 DEF AnswersAreBlocks
  <2>1. m \in bus
    BY <1>1, <1>4, IdsDiffer
  <2> QED
    BY <1>1, <1>6, <1>9, <2>1 DEF FwInv, AnswersAreBlocks
<1>10. ImageIsFile'
  BY <1>1, <1>2 DEF FwInv, ImageIsFile
<1> QED
  BY <1>5, <1>7, <1>9, <1>10 DEF FwInv

\* the node takes the block it waits for
LEMMA TakeStep ==
  ASSUME FwInv, NEW m \in bus, NodeTakes(m)
  PROVE  FwInv'
<1>1. /\ m.id = AnswerId /\ node.waiting /\ m.tid = node.tid
      /\ bus' = bus \ {m} /\ size' = size /\ answered' = answered
  BY DEF NodeTakes, Matches
<1>2. node \in [at : {"application", "reading", "updated"}, tid : Int, waiting : BOOLEAN,
                early : Int, image : Seq(Nat)]
      /\ size \in Nat /\ m.content \in Seq(Nat)
  BY DEF FwInv, FwTypes, Transfers
<1>3. /\ node'.waiting = FALSE
      /\ node'.image = node.image \o m.content
      /\ node'.at = IF Len(m.content) < Block THEN "updated" ELSE node.at
      /\ node' \in [at : {"application", "reading", "updated"}, tid : Int, waiting : BOOLEAN,
                    early : Int, image : Seq(Nat)]
  <2>1. node.image \o m.content \in Seq(Nat)
    BY <1>2
  <2>2. node' = [node EXCEPT !.waiting = FALSE, !.image = @ \o m.content,
                             !.at = IF Len(m.content) < Block THEN "updated" ELSE @]
    BY DEF NodeTakes
  <2>3. (IF Len(m.content) < Block THEN "updated" ELSE node.at)
          \in {"application", "reading", "updated"}
    BY <1>2
  <2> QED
    BY <1>2, <2>1, <2>2, <2>3
<1>4. FwTypes'
  BY <1>1, <1>3 DEF FwInv, FwTypes
<1>5. \A n, o : About(n, o)'
  BY <1>3 DEF About
<1>6. RequestsForBlocks'
  BY <1>1, <1>5 DEF FwInv, RequestsForBlocks
<1>7. \A o : BlockOf(o)' = BlockOf(o)
  BY <1>1 DEF BlockOf
<1>8. ASSUME answered' \subseteq {RequestId} PROVE AnswersAreBlocks'
  BY <1>1, <1>5, <1>7, <1>8 DEF FwInv, AnswersAreBlocks
<1>9. ASSUME answered' \subseteq {RequestId}
      PROVE  /\ Len(node'.image) <= size
             /\ \A i \in DOMAIN node'.image : node'.image[i] = i
             /\ node'.at = "updated" => Len(node'.image) = size
  <2> DEFINE had == Len(node.image)
             got == Len(m.content)
  <2>1. /\ had \in Nat /\ had <= size /\ \A i \in 1..had : node.image[i] = i
        /\ node.at # "updated"
    BY <1>1, <1>2, <1>9 DEF FwInv, ImageIsFile, NodeTakes, Matches
  <2>2. m.content = BlockOf(had)
    <3>1. PICK o \in Nat : m.content = BlockOf(o) /\ About(m, o)
      BY <1>1, <1>9 DEF FwInv, AnswersAreBlocks
    <3> QED
      BY <1>1, <3>1 DEF About
  <2> HIDE DEF had
  <2>3. /\ got = IF had >= size THEN 0 ELSE IF size - had > Block THEN Block ELSE size - had
        /\ \A i \in 1..got : m.content[i] = had + i
        /\ got \in Nat
    <3>1. DOMAIN m.content = 1..got /\ got \in Nat
      BY <1>2
    <3>2. /\ \A i \in DOMAIN BlockOf(had) : BlockOf(had)[i] = had + i
          /\ Len(BlockOf(had)) = IF had >= size THEN 0
                                 ELSE IF size - had > Block THEN Block ELSE size - had
      BY <1>2, <2>1, Blocks
    <3> QED
      BY <2>2, <3>1, <3>2
  <2>4. /\ Len(node'.image) = had + got
        /\ \A i \in 1..(had + got) : node'.image[i] = IF i <= had THEN node.image[i]
                                                      ELSE m.content[i - had]
        /\ DOMAIN node'.image = 1..(had + got)
    BY <1>2, <1>3, ConcatProperties DEF had
  <2> HIDE DEF got
  <2>5. Len(node'.image) <= size
    BY <1>2, <2>1, <2>3, <2>4, FileAssumption
  <2>6. ASSUME NEW i \in 1..(had + got) PROVE node'.image[i] = i
    <3>1. CASE i <= had
      <4>1. i \in 1..had
        BY <2>1, <2>3, <3>1
      <4>2. node'.image[i] = node.image[i]
        BY <2>4, <3>1
      <4> QED
        BY <2>1, <4>1, <4>2
    <3>2. CASE ~(i <= had)
      <4>1. i - had \in 1..got
        BY <2>1, <2>3, <3>2
      <4> QED
        BY <2>1, <2>3, <2>4, <3>2, <4>1
    <3> QED
      BY <3>1, <3>2
  <2>7. ASSUME node'.at = "updated" PROVE Len(node'.image) = size
    <3>1. got < Block
      BY <1>3, <2>1, <2>7 DEF got
    <3> QED
      BY <1>2, <2>1, <2>3, <2>4, <3>1, FileAssumption
  <2> QED
    BY <2>4, <2>5, <2>6, <2>7
<1>10. ImageIsFile'
  BY <1>1, <1>9 DEF ImageIsFile
<1> QED
  BY <1>4, <1>6, <1>8, <1>10 DEF FwInv

\* what the other transfers carry
Contents == {<<>>, <<0>>}

\* every step
LEMMA FwStep == FwInv /\ [FwNext]_fwVars => FwInv'
<1> SUFFICES ASSUME FwInv, [FwNext]_fwVars PROVE FwInv'
  OBVIOUS
<1>1. ASSUME UNCHANGED <<size, node, answered>>, bus' \subseteq bus PROVE FwInv'
  BY <1>1, NothingForNode
<1>2. ASSUME NEW id \in {CommandId} \cup StrangeIds, NEW content \in Contents,
             UNCHANGED <<size, node, answered>>, bus' = bus \cup {Transfer(id, 0, content)}
      PROVE  FwInv'
  <2>1. id \in AllIds /\ content \in Seq(Nat) /\ id \notin {RequestId, AnswerId}
    <3>1. id \in AllIds
      BY DEF AllIds
    <3>2. content \in Seq(Nat)
      <4>1. <<>> \in Seq(Nat) /\ <<0>> \in Seq(Nat)
        OBVIOUS
      <4>2. content = <<>> \/ content = <<0>>
        BY DEF Contents
      <4> QED
        BY <4>1, <4>2
    <3>3. id \notin {RequestId, AnswerId}
      BY IdsDiffer
    <3> QED
      BY <3>1, <3>2, <3>3
  <2>2. Transfer(id, 0, content) \in Transfers /\ Transfer(id, 0, content).id = id
    BY <2>1 DEF Transfer, Transfers
  <2> QED
    BY <1>2, <2>1, <2>2, NothingForNode
<1>3. CASE Refuse
  BY <1>1, <1>3 DEF Refuse
<1>4. CASE Begin
  BY <1>2, <1>4 DEF Begin, Contents
<1>5. ASSUME NEW m \in bus, NEW again \in BOOLEAN, Serve(m, again) PROVE FwInv'
  BY <1>5, ServeStep
<1>6. ASSUME NEW m \in bus, Ignore(m) PROVE FwInv'
  BY <1>1, <1>6 DEF Ignore
<1>7. ASSUME NEW m \in bus, Lose(m) PROVE FwInv'
  BY <1>1, <1>7 DEF Lose
<1>8. ASSUME NEW m \in bus, NodeBegins(m) PROVE FwInv'
  <2>1. /\ size' = size /\ answered' = answered /\ bus' = bus \ {m}
        /\ node' = [node EXCEPT !.at = "reading"]
    BY <1>8 DEF NodeBegins
  <2>2. /\ node'.tid = node.tid /\ node'.waiting = node.waiting /\ node'.image = node.image
        /\ node'.at # "updated"
    BY <2>1 DEF FwInv, FwTypes
  <2>3. FwTypes'
    BY <2>1 DEF FwInv, FwTypes
  <2> QED
    BY <2>1, <2>2, <2>3, SameNode
<1>9. ASSUME NEW m \in bus, NodeTakes(m) PROVE FwInv'
  BY <1>9, TakeStep
<1>10. ASSUME NEW m \in bus, NodeIgnores(m) PROVE FwInv'
  BY <1>1, <1>10 DEF NodeIgnores
<1>11. CASE NodeAsks
  BY <1>11, AskStep
<1>12. ASSUME NEW content \in Contents, StrangerAsks(content) PROVE FwInv'
  <2>1. Id("request", FILE_READ, Server, Stranger) \in StrangeIds
    BY DEF StrangeIds
  <2> QED
    BY <1>2, <1>12, <2>1 DEF StrangerAsks
<1>13. CASE StrangerElsewhere
  <2>1. PICK id \in StrangeIds : bus' = bus \cup {Transfer(id, 0, <<0>>)}
    BY <1>13 DEF StrangerElsewhere, StrangeIds
  <2> QED
    BY <1>2, <1>13, <2>1 DEF StrangerElsewhere, Contents
<1>14. CASE UNCHANGED fwVars
  BY <1>1, <1>14 DEF fwVars
<1> QED
  BY <1>3, <1>4, <1>5, <1>6, <1>7, <1>8, <1>9, <1>10, <1>11, <1>12, <1>13, <1>14
  DEF FwNext, Contents

\* What the node has put together is the file from its beginning, and all of it when the node takes
\* it for complete, as long as no other node was answered, whatever is lost, repeated or asked again:
\* for files, blocks and transfer-IDs of any number
THEOREM ImageIsTheFile == FwSpec => []ImageIsFile
<1>1. FwInv => ImageIsFile
  BY DEF FwInv
<1> QED
  BY <1>1, FwStart, FwStep, PTL DEF FwSpec
=============================================================================
