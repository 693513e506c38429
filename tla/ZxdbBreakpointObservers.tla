----------------------- MODULE ZxdbBreakpointObservers -----------------------
(***************************************************************************)
(* SystemImpl's breakpoint registry and its observers, with reentrant      *)
(* observers (src/bin/zxdb/client/system_impl.cc).  CreateNewBreakpoint    *)
(* registers the breakpoint and then calls DidCreateBreakpoint on every    *)
(* observer in turn; DeleteBreakpoint calls WillDestroyBreakpoint on every *)
(* observer in turn (for a user breakpoint) and then erases it.  The code  *)
(* says observers "may mutate breakpoint list": a callback may itself      *)
(* create or delete a breakpoint, which runs a nested loop to completion   *)
(* before the outer loop goes on to the next observer.                     *)
(*                                                                         *)
(* The loops in progress form a stack (frames), innermost last.  One step  *)
(* delivers one notification to the next observer of the innermost loop,  *)
(* and that observer's callback may make one call.                         *)
(***************************************************************************)
EXTENDS Naturals, Sequences

CONSTANTS
  NObs,           \* number of registered observers
  MaxBreakpoints, \* bound on the backend ids handed out
  DeleteAny       \* whether a callback may delete a breakpoint whose own
                  \* notifications are still in progress

ASSUME ObserversAssumption ==
  NObs \in Nat \ {0} /\ MaxBreakpoints \in Nat /\ DeleteAny \in BOOLEAN

VARIABLES
  bps,        \* breakpoints_: backend id -> is_internal()
  nextBpId,   \* the next backend id BreakpointImpl hands out
  seen,       \* seen[o]: breakpoints observer o was told of and not told gone
  frames      \* the notification loops in progress, innermost last

vars == <<bps, nextBpId, seen, frames>>

Obs == 1..NObs

Ids == 1..MaxBreakpoints

\* The user breakpoints: GetBreakpoints().
UserBps == {id \in DOMAIN bps : ~bps[id]}

\* The breakpoints that a loop in progress is about.
InProgress == {frames[i].id : i \in 1..Len(frames)}

Frame(op, id) == [op |-> op, id |-> id, next |-> 1]

Init ==
  /\ bps = [id \in {} |-> FALSE]
  /\ nextBpId = 1
  /\ seen = [o \in Obs |-> {}]
  /\ frames = <<>>

-----------------------------------------------------------------------------
(* The calls, from the user or from inside an observer's callback.  Each   *)
(* takes the stack as the callback left it.                                *)

\* breakpoints_[id] = owning.
Insert(id, internal) ==
  [b \in DOMAIN bps \cup {id} |-> IF b = id THEN internal ELSE bps[b]]

\* breakpoints_.erase(found).
Erase(id) == [b \in DOMAIN bps \ {id} |-> bps[b]]

\* CreateNewBreakpoint: register a user breakpoint, then start the loop of
\* DidCreateBreakpoint notifications.
CreateNewBreakpoint(fs) ==
  /\ nextBpId <= MaxBreakpoints
  /\ bps' = Insert(nextBpId, FALSE)
  /\ nextBpId' = nextBpId + 1
  /\ frames' = Append(fs, Frame("create", nextBpId))

\* CreateNewInternalBreakpoint: register an internal breakpoint, silently.
CreateNewInternalBreakpoint(fs) ==
  /\ nextBpId <= MaxBreakpoints
  /\ bps' = Insert(nextBpId, TRUE)
  /\ nextBpId' = nextBpId + 1
  /\ frames' = fs

\* Mutant: the breakpoint is erased before its observers are told.
DeleteBreakpointEraseFirst(id, fs) ==
  /\ id \in DOMAIN bps
  /\ bps' = Erase(id)
  /\ frames' = IF bps[id] THEN fs ELSE Append(fs, Frame("destroy", id))
  /\ UNCHANGED nextBpId

\* DeleteBreakpoint: an internal breakpoint is erased at once; a user one
\* after the loop of WillDestroyBreakpoint notifications.
DeleteBreakpoint(id, fs) ==
  /\ id \in DOMAIN bps
  /\ IF bps[id]
       THEN bps' = Erase(id) /\ frames' = fs
       ELSE bps' = bps /\ frames' = Append(fs, Frame("destroy", id))
  /\ UNCHANGED nextBpId

\* The breakpoints a callback may delete.
Deletable == IF DeleteAny THEN DOMAIN bps ELSE DOMAIN bps \ InProgress

\* One call made with the stack fs: any of the registry's operations.
ACall(fs, deletable) ==
  \/ CreateNewBreakpoint(fs)
  \/ CreateNewInternalBreakpoint(fs)
  \/ \E id \in deletable : DeleteBreakpoint(id, fs)

-----------------------------------------------------------------------------
(* The steps                                                               *)

\* The user makes a call while no notification is in progress.
UserCall ==
  /\ frames = <<>>
  /\ ACall(<<>>, DOMAIN bps)
  /\ UNCHANGED seen

\* Mutant: WillDestroyBreakpoint is delivered like DidCreateBreakpoint.
TellAdding(f, s) == s \cup {f.id}

\* What observer o's view becomes when told of frame f's breakpoint.
Tell(f, s) == IF f.op = "create" THEN s \cup {f.id} ELSE s \ {f.id}

\* The innermost loop calls its next observer, whose callback makes no
\* call or one call (a nested loop then runs before the loop goes on).
Notify ==
  /\ frames # <<>>
  /\ LET f == frames[Len(frames)]
         o == f.next
         fs == [frames EXCEPT ![Len(frames)].next = o + 1]
     IN  /\ o \in Obs
         /\ seen' = [seen EXCEPT ![o] = Tell(f, seen[o])]
         /\ \/ frames' = fs /\ UNCHANGED <<bps, nextBpId>>
            \/ ACall(fs, Deletable)

\* The innermost loop is done with every observer.  A create returns the
\* breakpoint to its caller; a delete erases it from breakpoints_.
FinishLoop ==
  /\ frames # <<>>
  /\ LET f == frames[Len(frames)]
     IN  /\ f.next > NObs
         /\ frames' = SubSeq(frames, 1, Len(frames) - 1)
         /\ bps' = IF f.op = "destroy" THEN Erase(f.id) ELSE bps
  /\ UNCHANGED <<nextBpId, seen>>

Next == UserCall \/ Notify \/ FinishLoop

Spec == Init /\ [][Next]_vars

-----------------------------------------------------------------------------
(* Properties                                                              *)

FrameType == [op : {"create", "destroy"}, id : Ids, next : 1..NObs + 1]

TypeOK ==
  /\ DOMAIN bps \subseteq Ids /\ bps \in [DOMAIN bps -> BOOLEAN]
  /\ nextBpId \in 1..MaxBreakpoints + 1
  /\ seen \in [Obs -> SUBSET Ids]
  /\ frames \in Seq(FrameType)

\* Every loop in progress is about a breakpoint that is still registered:
\* the pointer CreateNewBreakpoint hands to each observer and then returns,
\* and the iterator DeleteBreakpoint erases after its loop, are never those
\* of a BreakpointImpl that a nested call has already destroyed.
NotifyingLiveBreakpoint == \A i \in 1..Len(frames) : frames[i].id \in DOMAIN bps

\* Whenever no notification is in progress, every observer has been told
\* of exactly the user breakpoints, whatever the nesting of creations and
\* deletions made from inside the callbacks.
QuiescentViewsAgree == frames = <<>> => \A o \in Obs : seen[o] = UserBps

-----------------------------------------------------------------------------
(* The inductive invariant behind the two properties above.                *)

\* Observer o has been told of x and not told of its end: x is a user
\* breakpoint, and a loop in progress about x has reached o exactly when
\* that loop is a create.
Told(o, x) ==
  /\ x \in UserBps
  /\ \A i \in 1..Len(frames) :
       frames[i].id = x => ((frames[i].op = "create") = (o < frames[i].next))

\* Under the discipline that a callback only deletes breakpoints whose own
\* notifications are complete: ids are fresh, the loops in progress are
\* about distinct registered user breakpoints, and every observer's view is
\* the user breakpoints as far as the loops have told it.
ObsInv ==
  /\ TypeOK
  /\ \A id \in DOMAIN bps : id < nextBpId
  /\ \A i \in 1..Len(frames) :
       /\ frames[i].id \in DOMAIN bps
       /\ ~bps[frames[i].id]
       /\ \A j \in 1..Len(frames) : frames[j].id = frames[i].id => j = i
  /\ \A o \in Obs, x \in Ids : x \in seen[o] <=> Told(o, x)

=============================================================================
