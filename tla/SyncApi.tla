------------------------------ MODULE SyncApi -------------------------------
(***************************************************************************)
(* The blocking functions of libwlmio (src/src/libwlmio/sync.c).  Every    *)
(* *_sync function has the same body: clear sync_flag, start the           *)
(* asynchronous operation with sync_callback, wait and tick until the flag *)
(* is set, return sync_return.  Flag and result are one pair of globals.   *)
(*                                                                         *)
(* A call that is blocked runs wlmio_tick, which runs the application's    *)
(* status callback, which may make a blocking call of its own: calls nest  *)
(* up to Depth, and the innermost one runs.                                *)
(*                                                                         *)
(* A definition marked "fault" is a slip a change of the code could make,  *)
(* placed before the one it would replace and used by no other.            *)
(***************************************************************************)
EXTENDS Integers, Sequences, SequencesExt

CONSTANTS
  Calls,   \* the calls of a behaviour
  Depth,   \* bound: how deep blocking calls nest; 1 if no callback blocks
  MayFail  \* may async_add fail for want of memory or descriptors

ASSUME DepthAssumption == Depth \in Nat \ {0}
ASSUME MayFailAssumption == MayFail \in BOOLEAN

VARIABLES
  sync_flag,    \* set by sync_callback
  sync_return,  \* its argument: a result, and the call whose operation it belongs to
  frames,       \* blocked calls, outermost first: [call, at]
  pending,      \* calls whose operation will still call sync_callback
  returned      \* returned[c]: what call c returned, or Nothing

vars == <<sync_flag, sync_return, frames, pending, returned>>

\* what an operation may end with: success, a status of the node above 0, or an error
Results == {"0", "status", "ENOENT", "EPROTO", "ETIMEDOUT"}
Nothing == [r |-> "none", of |-> {}]
Result(r, c) == [r |-> r, of |-> {c}]

Top == Last(frames)
MoveTo(place) == frames' = [frames EXCEPT ![Len(frames)].at = place]

Blocked == {frames[i].call : i \in DOMAIN frames}
Idle == {c \in Calls : c \notin Blocked /\ returned[c] = Nothing}

-----------------------------------------------------------------------------
\* the application makes a call of its own, or from the status callback in the tick of a call
MayCall == frames # <<>> => Top.at = "tick" /\ Len(frames) < Depth

\* the arguments are refused: the error is returned at once, with the flag already cleared
CallRefused(c) ==
  /\ MayCall
  /\ sync_flag' = FALSE
  /\ returned' = [returned EXCEPT ![c] = Result("EINVAL", c)]
  /\ UNCHANGED <<sync_return, frames, pending>>

\* fault: the flag is not cleared
CallStartedFlagKept(c) ==
  /\ MayCall
  /\ frames' = Append(frames, [call |-> c, at |-> "loop"])
  /\ pending' = pending \cup {c}
  /\ UNCHANGED <<sync_flag, sync_return, returned>>

\* the operation starts; when async_add failed it returned 0 all the same and nobody will call back
CallStarted(c) ==
  /\ MayCall
  /\ sync_flag' = FALSE
  /\ frames' = Append(frames, [call |-> c, at |-> "loop"])
  /\ \/ pending' = pending \cup {c}
     \/ MayFail /\ UNCHANGED pending
  /\ UNCHANGED <<sync_return, returned>>

\* while(!sync_flag): wlmio_wait_for_event, then wlmio_tick
LoopOnce ==
  /\ frames # <<>>
  /\ Top.at = "loop"
  /\ ~sync_flag
  /\ MoveTo("tick")
  /\ UNCHANGED <<sync_flag, sync_return, pending, returned>>

\* fault: one tick instead of a loop
LoopDoneUnasked ==
  /\ frames # <<>>
  /\ Top.at = "loop"
  /\ returned' = [returned EXCEPT ![Top.call] = sync_return]
  /\ frames' = Front(frames)
  /\ UNCHANGED <<sync_flag, sync_return, pending>>

\* the loop ends: return sync_return
LoopDone ==
  /\ frames # <<>>
  /\ Top.at = "loop"
  /\ sync_flag
  /\ returned' = [returned EXCEPT ![Top.call] = sync_return]
  /\ frames' = Front(frames)
  /\ UNCHANGED <<sync_flag, sync_return, pending>>

\* fault: the flag is not set
SyncCallbackNoFlag(c) ==
  /\ frames # <<>>
  /\ Top.at = "tick"
  /\ c \in pending
  /\ pending' = pending \ {c}
  /\ \E r \in Results : sync_return' = Result(r, c)
  /\ UNCHANGED <<sync_flag, frames, returned>>

\* sync_callback, from the tick of whichever call runs
SyncCallback(c) ==
  /\ frames # <<>>
  /\ Top.at = "tick"
  /\ c \in pending
  /\ pending' = pending \ {c}
  /\ \E r \in Results : sync_return' = Result(r, c)
  /\ sync_flag' = TRUE
  /\ UNCHANGED <<frames, returned>>

TickReturns ==
  /\ frames # <<>>
  /\ Top.at = "tick"
  /\ MoveTo("loop")
  /\ UNCHANGED <<sync_flag, sync_return, pending, returned>>

Init ==
  /\ sync_flag = FALSE
  /\ sync_return = Result("0", 0)
  /\ frames = <<>>
  /\ pending = {}
  /\ returned = [c \in Calls |-> Nothing]

Next ==
  \/ \E c \in Idle : CallRefused(c) \/ CallStarted(c)
  \/ LoopOnce
  \/ LoopDone
  \/ \E c \in Calls : SyncCallback(c)
  \/ TickReturns

Spec == Init /\ [][Next]_vars

-----------------------------------------------------------------------------
\* A blocking call is the equivalent of the asynchronous one: what it returns is the result of
\* its own operation
OwnResult == \A c \in Calls : returned[c].of \subseteq {c}

\* When a call has returned, nothing will write through the pointers it was given any more
NothingLeftBehind == \A c \in pending : c \in Blocked
=============================================================================
