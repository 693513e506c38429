----------------------------- MODULE ZxdbSystem -----------------------------
(***************************************************************************)
(* The zxdb client root, SystemImpl (src/bin/zxdb/client/system_impl.cc):  *)
(* the ordered list of Targets and the Process each one is attached to,    *)
(* the JobContexts, the breakpoint registry keyed by backend id, the       *)
(* build-ID symbol cache and the connection to the debug agent; and what   *)
(* a SystemObserver learns from the notifications SystemImpl fans out.     *)
(*                                                                         *)
(* The remote side is part of the model because the client reacts to it:  *)
(* remote processes start and exit, and an exit is reported to the client *)
(* by a notification that is in flight until it is delivered and that is  *)
(* lost when the connection drops.  TargetImpl (attach / detach) and the   *)
(* BreakpointImpl id counter are not under src/ and are modelled from the  *)
(* design document.                                                        *)
(***************************************************************************)
EXTENDS Naturals, Sequences, FiniteSets

CONSTANTS
  Koids,          \* kernel object ids of the remote processes
  NoProcess,      \* model value: a Target with no Process attached
  MaxTargets,     \* bound on the number of Targets
  MaxJobs,        \* bound on the number of JobContexts
  MaxBreakpoints, \* bound on the backend ids handed out
  MaxAttaches,    \* bound on the number of successful attaches
  MaxConnects     \* bound on the number of (re)connections

ASSUME KoidsAssumption == IsFiniteSet(Koids) /\ NoProcess \notin Koids
ASSUME BoundsAssumption ==
  /\ MaxTargets \in Nat \ {0}
  /\ MaxJobs \in Nat \ {0}
  /\ MaxBreakpoints \in Nat
  /\ MaxAttaches \in Nat
  /\ MaxConnects \in Nat

VARIABLES
  targets,      \* targets_: targets[i] is the koid of i's Process, or NoProcess
  jobs,         \* job_contexts_.size()
  breakpoints,  \* breakpoints_: backend id -> is_internal()
  nextBpId,     \* the next backend id BreakpointImpl hands out
  retired,      \* history: ids of the breakpoints that were deleted
  connected,    \* whether the session has a connection to the agent
  epoch,        \* number of DidConnect calls so far
  buildIdCache, \* build_id_index() cache: the epochs its entries were loaded in
  live,         \* remote: koids of processes that are running
  started,      \* remote: koids ever started (koids are never reused)
  exitPending,  \* remote: koids whose process-exit notification is in flight
  attaches,     \* number of successful attaches so far
  phase,        \* "running", "disconnecting" (inside DidDisconnect),
                \* "tearingDown" (inside ~SystemImpl) or "destroyed"
  loopIdx,      \* the index of the loop over targets_ of those two
  obsTargets,   \* observer: targets it was told of and not told are gone
  obsProcs,     \* observer: targets whose Process it was told of, not gone
  obsBps,       \* observer: breakpoints it was told of, not gone
  obsFault      \* observer: it was once called about an object in the wrong state

regVars == <<breakpoints, nextBpId, retired>>
connVars == <<connected, epoch, buildIdCache>>
remoteVars == <<live, started, exitPending>>
obsVars == <<obsTargets, obsProcs, obsBps, obsFault>>
vars == <<targets, jobs, regVars, connVars, remoteVars, attaches, phase,
          loopIdx, obsVars>>

TargetIds == 1..Len(targets)

Attached(i) == targets[i] # NoProcess

AttachedKoids == {targets[i] : i \in {j \in TargetIds : Attached(j)}}

\* Observer calls that would reach an observer about an object in the
\* wrong state: a Process of a target it does not know, a second
\* DidCreateProcess, a WillDestroyProcess for a Process it never heard
\* of, a WillDestroyTarget for a target whose Process it still knows.
BadDidCreateProcess(t) == t \notin obsTargets \/ t \in obsProcs
BadWillDestroyProcess(t) == t \notin obsTargets \/ t \notin obsProcs
BadWillDestroyTarget(t, procs) == t \notin obsTargets \/ t \in procs

-----------------------------------------------------------------------------
(* Queries of SystemImpl                                                   *)

\* ProcessImplFromKoid: the first target whose Process has koid k, 0 if none.
ProcessImplFromKoid(k) ==
  IF \E i \in TargetIds : targets[i] = k
    THEN CHOOSE i \in TargetIds :
           targets[i] = k /\ \A j \in 1..(i - 1) : targets[j] # k
    ELSE 0

\* GetBreakpoints: the ids of the breakpoints that are not internal.
GetBreakpoints == {id \in DOMAIN breakpoints : ~breakpoints[id]}

Running == phase = "running"

-----------------------------------------------------------------------------
(* The constructor adds one default Target and one JobContext.  Observers  *)
(* register afterwards and start from GetTargets().                        *)

Init ==
  /\ targets = <<NoProcess>>
  /\ jobs = 1
  /\ breakpoints = [id \in {} |-> FALSE]
  /\ nextBpId = 1
  /\ retired = {}
  /\ connected = FALSE
  /\ epoch = 0
  /\ buildIdCache = {}
  /\ live = {}
  /\ started = {}
  /\ exitPending = {}
  /\ attaches = 0
  /\ phase = "running"
  /\ loopIdx = 1
  /\ obsTargets = {1}
  /\ obsProcs = {}
  /\ obsBps = {}
  /\ obsFault = FALSE

-----------------------------------------------------------------------------
(* Operations of SystemImpl                                                *)

\* AddNewTarget: append the new Target to targets_, then DidCreateTarget.
AddNewTarget ==
  /\ targets' = Append(targets, NoProcess)
  /\ obsTargets' = obsTargets \cup {Len(targets) + 1}

\* CreateNewTarget: a new unattached Target (a clone copies launch settings
\* only, never the Process), handed to AddNewTarget.
CreateNewTarget ==
  /\ Running
  /\ Len(targets) < MaxTargets
  /\ AddNewTarget
  /\ UNCHANGED <<jobs, regVars, connVars, remoteVars, attaches, phase,
                 loopIdx, obsProcs, obsBps, obsFault>>

\* AddNewJobContext: append the JobContext to job_contexts_; observers of
\* job contexts are not modelled.
AddNewJobContext == jobs' = jobs + 1

\* CreateNewJobContext: a new (or cloned) JobContext for AddNewJobContext.
CreateNewJobContext ==
  /\ Running
  /\ jobs < MaxJobs
  /\ AddNewJobContext
  /\ UNCHANGED <<targets, regVars, connVars, remoteVars, attaches, phase,
                 loopIdx, obsVars>>

\* BreakpointImpl's constructor takes the next backend id (design document).
AllocBreakpointId == nextBpId

\* breakpoints_[id] = owning.
Insert(id, internal) ==
  [b \in DOMAIN breakpoints \cup {id} |->
     IF b = id THEN internal ELSE breakpoints[b]]

\* CreateNewBreakpoint: register a user breakpoint, then DidCreateBreakpoint.
CreateNewBreakpoint ==
  /\ Running
  /\ nextBpId <= MaxBreakpoints
  /\ breakpoints' = Insert(AllocBreakpointId, FALSE)
  /\ obsBps' = obsBps \cup {AllocBreakpointId}
  /\ nextBpId' = nextBpId + 1
  /\ UNCHANGED <<targets, jobs, retired, connVars, remoteVars, attaches,
                 phase, loopIdx, obsTargets, obsProcs, obsFault>>

\* Mutant: the internal variant notifies observers like the user one.
CreateNewInternalBreakpointNotifying ==
  /\ Running
  /\ nextBpId <= MaxBreakpoints
  /\ breakpoints' = Insert(AllocBreakpointId, TRUE)
  /\ obsBps' = obsBps \cup {AllocBreakpointId}
  /\ nextBpId' = nextBpId + 1
  /\ UNCHANGED <<targets, jobs, retired, connVars, remoteVars, attaches,
                 phase, loopIdx, obsTargets, obsProcs, obsFault>>

\* CreateNewInternalBreakpoint: register an internal breakpoint, silently.
CreateNewInternalBreakpoint ==
  /\ Running
  /\ nextBpId <= MaxBreakpoints
  /\ breakpoints' = Insert(AllocBreakpointId, TRUE)
  /\ nextBpId' = nextBpId + 1
  /\ UNCHANGED <<targets, jobs, retired, connVars, remoteVars, attaches,
                 phase, loopIdx, obsVars>>

\* DeleteBreakpoint: WillDestroyBreakpoint only for a user breakpoint,
\* then erase it from the registry.
DeleteBreakpoint(id) ==
  /\ Running
  /\ id \in DOMAIN breakpoints
  /\ obsBps' = IF ~breakpoints[id] THEN obsBps \ {id} ELSE obsBps
  /\ breakpoints' = [b \in DOMAIN breakpoints \ {id} |-> breakpoints[b]]
  /\ retired' = retired \cup {id}
  /\ UNCHANGED <<targets, jobs, nextBpId, connVars, remoteVars, attaches,
                 phase, loopIdx, obsTargets, obsProcs, obsFault>>

\* DidConnect: clear the build-ID cache, a new image may have been built.
DidConnect ==
  /\ Running
  /\ ~connected
  /\ epoch < MaxConnects
  /\ connected' = TRUE
  /\ epoch' = epoch + 1
  /\ buildIdCache' = {}
  /\ UNCHANGED <<targets, jobs, regVars, remoteVars, attaches, phase,
                 loopIdx, obsVars>>

\* DidDisconnect: ImplicitlyDetach every target in order (the loop is
\* DisconnectTarget below).  Exit notifications still in flight are lost
\* with the connection.
DidDisconnect ==
  /\ Running
  /\ connected
  /\ connected' = FALSE
  /\ exitPending' = {}
  /\ phase' = "disconnecting"
  /\ loopIdx' = 1
  /\ UNCHANGED <<targets, jobs, regVars, epoch, buildIdCache, live, started,
                 attaches, obsVars>>

\* target i drops its Process: WillDestroyProcess reaches the observers.
DropProcess(i) ==
  /\ targets' = [targets EXCEPT ![i] = NoProcess]
  /\ obsProcs' = obsProcs \ {i}
  /\ obsFault' = (obsFault \/ BadWillDestroyProcess(i))

\* Mutant: DidDisconnect does not ImplicitlyDetach the targets.
DisconnectTargetNoDetach ==
  /\ phase = "disconnecting"
  /\ loopIdx <= Len(targets)
  /\ loopIdx' = loopIdx + 1
  /\ UNCHANGED <<targets, obsProcs, obsFault, jobs, regVars, connVars,
                 remoteVars, attaches, phase, obsTargets, obsBps>>

\* One iteration of the DidDisconnect loop: ImplicitlyDetach of targets_[loopIdx].
DisconnectTarget ==
  /\ phase = "disconnecting"
  /\ loopIdx <= Len(targets)
  /\ IF Attached(loopIdx)
       THEN DropProcess(loopIdx)
       ELSE UNCHANGED <<targets, obsProcs, obsFault>>
  /\ loopIdx' = loopIdx + 1
  /\ UNCHANGED <<jobs, regVars, connVars, remoteVars, attaches, phase,
                 obsTargets, obsBps>>

\* The DidDisconnect loop is over.
FinishDisconnect ==
  /\ phase = "disconnecting"
  /\ loopIdx > Len(targets)
  /\ phase' = "running"
  /\ UNCHANGED <<targets, jobs, regVars, connVars, remoteVars, attaches,
                 loopIdx, obsVars>>

\* The symbol index resolves a build ID while connected and caches it.
LoadSymbols ==
  /\ Running
  /\ connected
  /\ epoch \notin buildIdCache
  /\ buildIdCache' = buildIdCache \cup {epoch}
  /\ UNCHANGED <<targets, jobs, regVars, connected, epoch, remoteVars,
                 attaches, phase, loopIdx, obsVars>>

-----------------------------------------------------------------------------
(* TargetImpl attach / detach, and the remote processes                    *)

\* A process starts on the remote system with a fresh koid.
RemoteStart(k) ==
  /\ k \notin started
  /\ started' = started \cup {k}
  /\ live' = live \cup {k}
  /\ UNCHANGED <<targets, jobs, regVars, connVars, exitPending, attaches,
                 phase, loopIdx, obsVars>>

\* A remote process exits; the agent reports it if a client target holds it.
RemoteExit(k) ==
  /\ k \in live
  /\ live' = live \ {k}
  /\ exitPending' = IF connected /\ k \in AttachedKoids
                      THEN exitPending \cup {k} ELSE exitPending
  /\ UNCHANGED <<targets, jobs, regVars, connVars, started, attaches, phase,
                 loopIdx, obsVars>>

\* Target i attaches to a live process the agent is not attached to yet;
\* TargetImpl creates the ProcessImpl and calls NotifyDidCreateProcess.
Attach(i, k) ==
  /\ Running
  /\ connected
  /\ attaches < MaxAttaches
  /\ ~Attached(i)
  /\ k \in live \ AttachedKoids
  /\ targets' = [targets EXCEPT ![i] = k]
  /\ obsProcs' = obsProcs \cup {i}
  /\ obsFault' = (obsFault \/ BadDidCreateProcess(i))
  /\ attaches' = attaches + 1
  /\ UNCHANGED <<jobs, regVars, connVars, remoteVars, phase, loopIdx,
                 obsTargets, obsBps>>

\* The user detaches target i: NotifyWillDestroyProcess, then the
\* ProcessImpl is deleted.
Detach(i) ==
  /\ Running
  /\ Attached(i)
  /\ DropProcess(i)
  /\ UNCHANGED <<jobs, regVars, connVars, remoteVars, attaches, phase,
                 loopIdx, obsTargets, obsBps>>

\* Mutant: the exit notification is consumed but not routed to the target.
OnProcessExitingIgnored(k) ==
  /\ Running
  /\ k \in exitPending
  /\ exitPending' = exitPending \ {k}
  /\ UNCHANGED <<targets, obsProcs, obsFault, jobs, regVars, connVars, live,
                 started, attaches, phase, loopIdx, obsTargets, obsBps>>

\* The exit notification for k arrives; ProcessImplFromKoid routes it to
\* the owning target, which drops its Process.  Unknown koids are ignored.
OnProcessExiting(k) ==
  /\ Running
  /\ k \in exitPending
  /\ exitPending' = exitPending \ {k}
  /\ IF ProcessImplFromKoid(k) = 0
       THEN UNCHANGED <<targets, obsProcs, obsFault>>
       ELSE DropProcess(ProcessImplFromKoid(k))
  /\ UNCHANGED <<jobs, regVars, connVars, live, started, attaches, phase,
                 loopIdx, obsTargets, obsBps>>

-----------------------------------------------------------------------------
(* ~SystemImpl: for each target in order, ImplicitlyDetach (which sends    *)
(* WillDestroyProcess) and then WillDestroyTarget; finally targets_ is     *)
(* cleared.  Nothing else runs during the destructor.                      *)

StartTeardown ==
  /\ Running
  /\ phase' = "tearingDown"
  /\ loopIdx' = 1
  /\ UNCHANGED <<targets, jobs, regVars, connVars, remoteVars, attaches,
                 obsVars>>

\* Mutant: WillDestroyTarget is sent before ImplicitlyDetach.
TeardownTargetSwapped ==
  /\ phase = "tearingDown"
  /\ loopIdx <= Len(targets)
  /\ LET i == loopIdx IN
        /\ targets' = [targets EXCEPT ![i] = NoProcess]
        /\ obsProcs' = obsProcs \ {i}
        /\ obsTargets' = obsTargets \ {i}
        /\ obsFault' = \/ obsFault
                       \/ BadWillDestroyTarget(i, obsProcs)
                       \/ Attached(i) /\ BadWillDestroyProcess(i)
  /\ loopIdx' = loopIdx + 1
  /\ UNCHANGED <<jobs, regVars, connVars, remoteVars, attaches, phase,
                 obsBps>>

\* One iteration of the destructor loop, for targets_[loopIdx]: first the
\* Process goes (WillDestroyProcess), then WillDestroyTarget is sent while
\* the observers' view of processes is procsAfter.
TeardownTarget ==
  /\ phase = "tearingDown"
  /\ loopIdx <= Len(targets)
  /\ LET i == loopIdx
         procsAfter == obsProcs \ {i}
     IN /\ targets' = [targets EXCEPT ![i] = NoProcess]
        /\ obsProcs' = procsAfter
        /\ obsTargets' = obsTargets \ {i}
        /\ obsFault' = \/ obsFault
                       \/ Attached(i) /\ BadWillDestroyProcess(i)
                       \/ BadWillDestroyTarget(i, procsAfter)
  /\ loopIdx' = loopIdx + 1
  /\ UNCHANGED <<jobs, regVars, connVars, remoteVars, attaches, phase,
                 obsBps>>

\* targets_.clear() after the loop.
FinishTeardown ==
  /\ phase = "tearingDown"
  /\ loopIdx > Len(targets)
  /\ targets' = <<>>
  /\ phase' = "destroyed"
  /\ UNCHANGED <<jobs, regVars, connVars, remoteVars, attaches, loopIdx,
                 obsVars>>

\* After destruction the session is gone: nothing changes any more.
Destroyed ==
  /\ phase = "destroyed"
  /\ UNCHANGED vars

Next ==
  \/ CreateNewTarget
  \/ CreateNewJobContext
  \/ CreateNewBreakpoint
  \/ CreateNewInternalBreakpoint
  \/ \E id \in DOMAIN breakpoints : DeleteBreakpoint(id)
  \/ DidConnect
  \/ DidDisconnect
  \/ DisconnectTarget
  \/ FinishDisconnect
  \/ LoadSymbols
  \/ \E k \in Koids : RemoteStart(k) \/ RemoteExit(k) \/ OnProcessExiting(k)
  \/ \E i \in TargetIds, k \in Koids : Attach(i, k)
  \/ \E i \in TargetIds : Detach(i)
  \/ StartTeardown
  \/ TeardownTarget
  \/ FinishTeardown
  \/ Destroyed

Spec == Init /\ [][Next]_vars

\* The message loop delivers every queued notification and finishes every
\* loop it has started.
Fairness ==
  /\ \A k \in Koids : WF_vars(OnProcessExiting(k))
  /\ WF_vars(DisconnectTarget) /\ WF_vars(FinishDisconnect)
  /\ WF_vars(TeardownTarget) /\ WF_vars(FinishTeardown)

FairSpec == Spec /\ Fairness

-----------------------------------------------------------------------------
(* Properties                                                              *)

TypeOK ==
  /\ targets \in Seq(Koids \cup {NoProcess})
  /\ Len(targets) <= MaxTargets
  /\ jobs \in 1..MaxJobs
  /\ DOMAIN breakpoints \subseteq 1..MaxBreakpoints
  /\ breakpoints \in [DOMAIN breakpoints -> BOOLEAN]
  /\ nextBpId \in 1..(MaxBreakpoints + 1)
  /\ retired \subseteq 1..MaxBreakpoints
  /\ connected \in BOOLEAN
  /\ epoch \in 0..MaxConnects
  /\ buildIdCache \subseteq 0..MaxConnects
  /\ live \subseteq Koids /\ started \subseteq Koids /\ exitPending \subseteq Koids
  /\ attaches \in 0..MaxAttaches
  /\ phase \in {"running", "disconnecting", "tearingDown", "destroyed"}
  /\ loopIdx \in Nat \ {0}
  /\ obsTargets \subseteq 1..MaxTargets
  /\ obsProcs \subseteq 1..MaxTargets
  /\ obsBps \subseteq 1..MaxBreakpoints
  /\ obsFault \in BOOLEAN

\* Internal breakpoints are invisible: the breakpoints observers were told
\* of (DidCreateBreakpoint) and not told are gone (WillDestroyBreakpoint)
\* are exactly GetBreakpoints(), whatever mix of user and internal
\* creations and deletions happened.
ObserversSeeUserBreakpoints == obsBps = GetBreakpoints

\* Every observer call is about an object in the state the observer knows
\* it in: no Process event for a target it does not know, no second
\* DidCreateProcess, no WillDestroyProcess for a Process it never heard
\* of, and (~SystemImpl) no WillDestroyTarget before WillDestroyProcess of
\* that target's Process.
NotificationsWellOrdered == ~obsFault

\* A Process held by a target is never stale: it is running on the remote
\* system, or its exit notification is on its way.  A dropped connection
\* loses those notifications, so DidDisconnect must detach every target.
\* (Checked between client operations, not inside the DidDisconnect loop.)
NoStaleProcess ==
  Running => \A t \in TargetIds : Attached(t) => targets[t] \in live \cup exitPending

\* A conjunct of RegInv: no registered breakpoint has the id of one that
\* was deleted.
BreakpointIdsNeverReused == DOMAIN breakpoints \cap retired = {}

\* A conjunct of RegInv: DidConnect clears the build-ID cache, so no
\* mapping loaded under an earlier connection survives a reconnection.
BuildIdCacheFresh == buildIdCache \subseteq {epoch}

-----------------------------------------------------------------------------
(* The inductive strengthening of NoStaleProcess, proved in              *)
(* ZxdbSystem_proofs.                                                      *)

\* ProcessImplFromKoid is unambiguous: no two targets hold the same koid.
KoidsUnique ==
  \A i, j \in TargetIds : Attached(i) /\ targets[i] = targets[j] => i = j

\* An in-flight exit notification is about a process that has exited (and
\* was started: a koid is never reused), and only a connection carries
\* notifications.
PendingExitsExited ==
  /\ live \cup exitPending \subseteq started
  /\ exitPending \cap live = {}
  /\ ~connected => exitPending = {}

\* Without a connection no target holds a Process, except inside the
\* DidDisconnect loop, where the targets before loopIdx are detached.
DisconnectedDetached ==
  /\ ~connected /\ phase # "disconnecting" => \A t \in TargetIds : ~Attached(t)
  /\ phase = "disconnecting" =>
        /\ ~connected
        /\ \A t \in TargetIds : t < loopIdx => ~Attached(t)

\* While connected, every Process held is live or its exit is in flight.
ConnectedFresh ==
  connected => \A t \in TargetIds : Attached(t) => targets[t] \in live \cup exitPending

IInv ==
  /\ TypeOK
  /\ KoidsUnique
  /\ PendingExitsExited
  /\ DisconnectedDetached
  /\ ConnectedFresh

\* The inductive strengthening of ObserversSeeUserBreakpoints, proved in
\* ZxdbSystem_proofs, with the freshness of ids and of the build-ID cache:
\* every id registered or deleted was handed out before nextBpId, so the
\* next one is fresh.
RegInv ==
  /\ TypeOK
  /\ \A id \in DOMAIN breakpoints \cup retired : id < nextBpId
  /\ BreakpointIdsNeverReused
  /\ ObserversSeeUserBreakpoints
  /\ BuildIdCacheFresh

\* The inductive strengthening of NotificationsWellOrdered, proved in
\* ZxdbSystem_proofs: in every phase the observers know exactly the
\* Processes the targets hold, and every target except those the destructor's loop has already passed, whose Processes
\* are gone.
ViewInv ==
  /\ NotificationsWellOrdered
  /\ obsProcs = {t \in TargetIds : Attached(t)}
  /\ obsTargets = IF phase = "tearingDown"
                    THEN {t \in TargetIds : t >= loopIdx} ELSE TargetIds
  /\ phase = "tearingDown" => \A t \in TargetIds : t < loopIdx => ~Attached(t)

\* Every process that exits while a target holds it is eventually dropped
\* by that target (by the exit notification, or by a disconnect).
ExitedProcessesDropped ==
  \A k \in Koids : (k \in AttachedKoids /\ k \notin live) ~> k \notin AttachedKoids

=============================================================================
