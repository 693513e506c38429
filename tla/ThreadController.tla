--------------------------- MODULE ThreadController ---------------------------
(***************************************************************************)
(* A zxdb thread and its stack of ThreadControllers (src/bin/zxdb/client/  *)
(* thread_controller.h).  The header states the contract between a         *)
(* controller and the thread that owns it: InitWithThread calls back when  *)
(* the controller is ready, and a callback without an error resumes the    *)
(* thread; GetContinueOp says how to run; OnThreadStop votes kContinue or  *)
(* kStop and a kStop vote wins; a controller that voted kStop, or that     *)
(* called NotifyControllerDone, is deleted.                                *)
(*                                                                         *)
(* The owning Thread is not under src/.  Its side of the contract (which   *)
(* controller's ContinueOp is used, what an init error does, the weak      *)
(* binding of the init callback) is taken from the header's comments and   *)
(* the design document.  Breakpoints, addresses and exception types are    *)
(* abstracted to the controllers' votes.                                   *)
(*                                                                         *)
(* The stack is kept as the order in which controllers were pushed (log)   *)
(* and the set of those deleted: the stack is the log without the deleted  *)
(* controllers, in push order, and its top is the last of them.            *)
(***************************************************************************)
EXTENDS Naturals, Sequences

CONSTANTS
  Ctrls,      \* the controllers a user operation may push
  None,       \* no controller
  MaxStops    \* bound on the stop notifications of the thread

VARIABLES
  log,        \* the controllers in the order they were pushed
  initCb,     \* controllers whose InitWithThread callback has not come
  deleted,    \* controllers that were deleted
  tstate,     \* "stopped", "running" or "exited"
  runUnder,   \* the controller whose ContinueOp the thread runs with
  stops       \* stop notifications so far

vars == <<log, initCb, deleted, tstate, runUnder, stops>>

StopOps == {"kContinue", "kStop"}

\* The controllers ever pushed.
Pushed == {log[i] : i \in 1..Len(log)}

\* The controllers on the thread's stack.
Stack == Pushed \ deleted

\* The top of the stack, given a push order and the deleted controllers:
\* the last controller pushed that is still there.
TopOf(l, d) ==
  IF \E i \in 1..Len(l) : l[i] \notin d
    THEN l[CHOOSE i \in 1..Len(l) :
             l[i] \notin d /\ \A j \in 1..Len(l) : j > i => l[j] \in d]
    ELSE None

\* The controller whose GetContinueOp decides how the thread runs: the
\* most specific one, on top of the stack.
GetContinueOp(l, d) == TopOf(l, d)

-----------------------------------------------------------------------------

Init ==
  /\ log = <<>>
  /\ initCb = {}
  /\ deleted = {}
  /\ tstate = "stopped"
  /\ runUnder = None
  /\ stops = 0

\* A user operation (step, finish, until) on a stopped thread pushes a new
\* controller and calls its InitWithThread, which registers the thread
\* (set_thread) and will call back when the controller is ready.
AddController(c) ==
  /\ tstate = "stopped" /\ c \notin Pushed
  /\ log' = Append(log, c)
  /\ initCb' = initCb \cup {c}
  /\ UNCHANGED <<deleted, tstate, runUnder, stops>>

\* The init callback is bound through a weak reference: it does nothing
\* once its controller or its thread is gone.
InitLive(c) == c \notin deleted /\ tstate # "exited"

\* The InitWithThread callback of c.  Without an error, the thread is
\* resumed when it is called (with the top controller's ContinueOp).  With
\* an error, the error is reported, c is discarded and the thread stays
\* stopped.
InitDone(c) ==
  /\ c \in initCb
  /\ initCb' = initCb \ {c}
  /\ UNCHANGED <<log, stops>>
  /\ IF ~InitLive(c)
       THEN UNCHANGED <<deleted, tstate, runUnder>>
       ELSE \/ /\ deleted' = deleted
               /\ IF tstate = "stopped"
                    THEN /\ tstate' = "running"
                         /\ runUnder' = GetContinueOp(log, deleted)
                    ELSE UNCHANGED <<tstate, runUnder>>
            \/ /\ deleted' = deleted \cup {c}
               /\ UNCHANGED <<tstate, runUnder>>

\* The aggregate of the votes: kStop if any controller voted kStop.
Aggregate(votes, s) == \E c \in s : votes[c] = "kStop"

\* The thread stops (an exception, a breakpoint, the end of a step).  Every
\* controller's OnThreadStop votes; those that voted kStop are deleted.
\* If the aggregate is kStop, or no controller is left to run the thread,
\* the stop is reported and the thread stays stopped; otherwise it resumes
\* with the ContinueOp of the new top controller.
ThreadStop ==
  /\ tstate = "running" /\ stops < MaxStops
  /\ stops' = stops + 1
  /\ \E votes \in [Stack -> StopOps] :
       /\ deleted' = deleted \cup {c \in Stack : votes[c] = "kStop"}
       /\ IF Aggregate(votes, Stack) \/ Stack = {}
            THEN tstate' = "stopped" /\ runUnder' = None
            ELSE /\ tstate' = "running"
                 /\ runUnder' = GetContinueOp(log, deleted')
  /\ UNCHANGED <<log, initCb>>

\* NotifyControllerDone: a controller that learned out of band that its
\* work is done is removed from the stack and deleted.
NotifyControllerDone(c) ==
  /\ tstate # "exited" /\ c \in Stack
  /\ deleted' = deleted \cup {c}
  /\ UNCHANGED <<log, initCb, tstate, runUnder, stops>>

\* The thread exits: the Thread is destroyed with its controllers.
ThreadExit ==
  /\ tstate # "exited"
  /\ tstate' = "exited" /\ runUnder' = None
  /\ deleted' = deleted \cup Stack
  /\ UNCHANGED <<log, initCb, stops>>

Next ==
  \/ \E c \in Ctrls : AddController(c) \/ InitDone(c) \/ NotifyControllerDone(c)
  \/ ThreadStop
  \/ ThreadExit

Spec == Init /\ [][Next]_vars

-----------------------------------------------------------------------------
(* Properties                                                              *)

\* The design document (section 4.2) on InitWithThread: a controller must
\* not assume the thread is already resumed, and the thread is resumed only
\* after the controller's callback signals success.  Stated for the whole
\* stack: the thread never runs while a controller on its stack has not
\* yet called back, whatever the order of the callbacks of the
\* controllers pushed while the thread was stopped.
NoRunBeforeInit ==
  tstate = "running" => \A c \in Stack : c \notin initCb

=============================================================================
