-------------------------- MODULE ZxdbSystem_proofs --------------------------
(***************************************************************************)
(* Proofs about ZxdbSystem for every value of the constants: the type     *)
(* invariant, and that a target never holds a stale Process between       *)
(* client operations (NoStaleProcess), through the inductive invariant    *)
(* IInv.                                                                   *)
(***************************************************************************)
EXTENDS ZxdbSystem, TLAPS

\* A sequence updated at an index stays a sequence over S of the same
\* length (an index outside it leaves it unchanged).
LEMMA ExceptInSeq ==
  ASSUME NEW S, NEW s \in Seq(S), NEW i, NEW x \in S
  PROVE  /\ [s EXCEPT ![i] = x] \in Seq(S)
         /\ Len([s EXCEPT ![i] = x]) = Len(s)
<1>1. CASE i \in 1..Len(s)
  BY <1>1
<1>2. CASE i \notin 1..Len(s)
  <2>1. [s EXCEPT ![i] = x] = s
    BY <1>2
  <2>2. QED
    BY <2>1
<1>3. QED
  BY <1>1, <1>2

\* A Boolean-valued function extended at one more point.
LEMMA FunExtend ==
  ASSUME NEW D, NEW f \in [D -> BOOLEAN], NEW x, NEW v \in BOOLEAN
  PROVE  LET g == [b \in D \cup {x} |-> IF b = x THEN v ELSE f[b]]
         IN  DOMAIN g = D \cup {x} /\ g \in [DOMAIN g -> BOOLEAN]
OBVIOUS

\* A Boolean-valued function restricted to all points but one.
LEMMA FunRemove ==
  ASSUME NEW D, NEW f \in [D -> BOOLEAN], NEW x
  PROVE  LET g == [b \in D \ {x} |-> f[b]]
         IN  DOMAIN g = D \ {x} /\ g \in [DOMAIN g -> BOOLEAN]
OBVIOUS

-----------------------------------------------------------------------------
(* Type correctness                                                        *)

LEMMA InitTypeOK == Init => TypeOK
<1> SUFFICES ASSUME Init PROVE TypeOK
  OBVIOUS
<1>1. targets \in Seq(Koids \cup {NoProcess}) /\ Len(targets) <= MaxTargets
  BY BoundsAssumption DEF Init
<1>2. DOMAIN breakpoints \subseteq 1..MaxBreakpoints
      /\ breakpoints \in [DOMAIN breakpoints -> BOOLEAN]
  BY DEF Init
<1>3. /\ nextBpId \in 1..(MaxBreakpoints + 1)
      /\ loopIdx \in Nat \ {0}
      /\ obsTargets \subseteq 1..MaxTargets
      /\ epoch \in 0..MaxConnects
      /\ attaches \in 0..MaxAttaches
      /\ jobs \in 1..MaxJobs
  BY BoundsAssumption DEF Init
<1>4. QED
  BY <1>1, <1>2, <1>3 DEF Init, TypeOK

\* The fields an action leaves alone keep their types; the cases below
\* prove the fields each action changes.
LEMMA CreateNewTargetTypeOK == TypeOK /\ CreateNewTarget => TypeOK'
<1> SUFFICES ASSUME TypeOK, CreateNewTarget PROVE TypeOK'
  OBVIOUS
<1>1. targets' \in Seq(Koids \cup {NoProcess}) /\ Len(targets') <= MaxTargets
  BY BoundsAssumption DEF TypeOK, CreateNewTarget, AddNewTarget
<1>2. obsTargets' \subseteq 1..MaxTargets
  BY BoundsAssumption DEF TypeOK, CreateNewTarget, AddNewTarget
<1>3. QED
  BY <1>1, <1>2 DEF TypeOK, CreateNewTarget, AddNewTarget, regVars, connVars, remoteVars

LEMMA CreateNewBreakpointTypeOK ==
  TypeOK /\ (CreateNewBreakpoint \/ CreateNewInternalBreakpoint) => TypeOK'
<1> SUFFICES ASSUME TypeOK, CreateNewBreakpoint \/ CreateNewInternalBreakpoint
             PROVE TypeOK'
  OBVIOUS
<1>0. nextBpId <= MaxBreakpoints /\ nextBpId' = nextBpId + 1
  BY DEF CreateNewBreakpoint, CreateNewInternalBreakpoint
<1>1. nextBpId \in 1..MaxBreakpoints /\ nextBpId' = nextBpId + 1
  BY <1>0, BoundsAssumption DEF TypeOK
<1>2. /\ breakpoints' \in [DOMAIN breakpoints' -> BOOLEAN]
      /\ DOMAIN breakpoints' = DOMAIN breakpoints \cup {nextBpId}
  BY FunExtend DEF TypeOK, CreateNewBreakpoint, CreateNewInternalBreakpoint,
                   Insert, AllocBreakpointId
<1>3. DOMAIN breakpoints' \subseteq 1..MaxBreakpoints
  <2>1. DOMAIN breakpoints \subseteq 1..MaxBreakpoints
    BY DEF TypeOK
  <2>2. QED
    BY <1>1, <1>2, <2>1
<1>4. obsBps' \subseteq 1..MaxBreakpoints
  BY <1>1 DEF TypeOK, CreateNewBreakpoint, CreateNewInternalBreakpoint,
              AllocBreakpointId, obsVars
<1>5. nextBpId' \in 1..(MaxBreakpoints + 1)
  BY <1>1, BoundsAssumption
<1>6. QED
  BY <1>2, <1>3, <1>4, <1>5 DEF TypeOK, CreateNewBreakpoint,
     CreateNewInternalBreakpoint, regVars, connVars, remoteVars, obsVars

LEMMA DeleteBreakpointTypeOK ==
  ASSUME NEW id \in DOMAIN breakpoints
  PROVE  TypeOK /\ DeleteBreakpoint(id) => TypeOK'
<1> SUFFICES ASSUME TypeOK, DeleteBreakpoint(id) PROVE TypeOK'
  OBVIOUS
<1>1. /\ breakpoints' \in [DOMAIN breakpoints' -> BOOLEAN]
      /\ DOMAIN breakpoints' = DOMAIN breakpoints \ {id}
  BY FunRemove DEF TypeOK, DeleteBreakpoint
<1>2. DOMAIN breakpoints' \subseteq 1..MaxBreakpoints
  BY <1>1 DEF TypeOK
<1>3. retired' \subseteq 1..MaxBreakpoints /\ obsBps' \subseteq 1..MaxBreakpoints
  BY DEF TypeOK, DeleteBreakpoint
<1>4. QED
  BY <1>1, <1>2, <1>3 DEF TypeOK, DeleteBreakpoint, connVars, remoteVars

\* Target i drops its Process; i need not be a target index.
LEMMA DropProcessTypeOK ==
  ASSUME TypeOK, NEW i, DropProcess(i)
  PROVE  /\ targets' \in Seq(Koids \cup {NoProcess})
         /\ Len(targets') = Len(targets)
         /\ obsProcs' \subseteq 1..MaxTargets
         /\ obsFault' \in BOOLEAN
<1>1. targets \in Seq(Koids \cup {NoProcess}) /\ NoProcess \in Koids \cup {NoProcess}
  BY DEF TypeOK
<1>2. targets' = [targets EXCEPT ![i] = NoProcess]
  BY DEF DropProcess
<1>3. /\ [targets EXCEPT ![i] = NoProcess] \in Seq(Koids \cup {NoProcess})
      /\ Len([targets EXCEPT ![i] = NoProcess]) = Len(targets)
  BY <1>1, ExceptInSeq
<1>4. QED
  BY <1>2, <1>3 DEF TypeOK, DropProcess

LEMMA DidDisconnectTypeOK == TypeOK /\ DidDisconnect => TypeOK'
<1> SUFFICES ASSUME TypeOK, DidDisconnect PROVE TypeOK'
  OBVIOUS
<1>1. exitPending' = {} /\ loopIdx' = 1 /\ connected' = FALSE
  BY DEF DidDisconnect
<1>2. phase' = "disconnecting"
  BY DEF DidDisconnect
<1>3. UNCHANGED <<targets, jobs, regVars, epoch, buildIdCache, live, started,
                  attaches, obsVars>>
  BY DEF DidDisconnect
<1>4. phase' \in {"running", "disconnecting", "tearingDown", "destroyed"}
  BY <1>2
<1>5. loopIdx' \in Nat \ {0}
  BY <1>1
<1>6. /\ breakpoints' = breakpoints /\ nextBpId' = nextBpId /\ retired' = retired
      /\ obsTargets' = obsTargets /\ obsProcs' = obsProcs /\ obsBps' = obsBps
      /\ obsFault' = obsFault
  BY <1>3 DEF regVars, obsVars
<1>7. QED
  BY <1>1, <1>3, <1>4, <1>5, <1>6 DEF TypeOK

LEMMA DisconnectTargetTypeOK == TypeOK /\ DisconnectTarget => TypeOK'
<1> SUFFICES ASSUME TypeOK, DisconnectTarget PROVE TypeOK'
  OBVIOUS
<1>1. loopIdx' \in Nat \ {0}
  BY DEF TypeOK, DisconnectTarget
<1>2. CASE Attached(loopIdx)
  <2>1. DropProcess(loopIdx)
    BY <1>2 DEF DisconnectTarget
  <2>2. QED
    BY <1>1, <2>1, DropProcessTypeOK
    DEF TypeOK, DisconnectTarget, regVars, connVars, remoteVars
<1>3. CASE ~Attached(loopIdx)
  BY <1>1, <1>3 DEF TypeOK, DisconnectTarget, regVars, connVars, remoteVars
<1>4. QED
  BY <1>2, <1>3

LEMMA FinishDisconnectTypeOK == TypeOK /\ FinishDisconnect => TypeOK'
BY DEF TypeOK, FinishDisconnect, regVars, connVars, remoteVars, obsVars

LEMMA OnProcessExitingTypeOK ==
  ASSUME NEW k \in Koids PROVE TypeOK /\ OnProcessExiting(k) => TypeOK'
<1> SUFFICES ASSUME TypeOK, OnProcessExiting(k) PROVE TypeOK'
  OBVIOUS
<1>1. exitPending' \subseteq Koids
  BY DEF TypeOK, OnProcessExiting
<1>2. CASE ProcessImplFromKoid(k) = 0
  BY <1>1, <1>2 DEF TypeOK, OnProcessExiting, regVars, connVars
<1>3. CASE ProcessImplFromKoid(k) # 0
  <2>1. DropProcess(ProcessImplFromKoid(k))
    BY <1>3 DEF OnProcessExiting
  <2>2. QED
    BY <1>1, <2>1, DropProcessTypeOK DEF TypeOK, OnProcessExiting,
       regVars, connVars
<1>4. QED
  BY <1>2, <1>3

LEMMA AttachTypeOK ==
  ASSUME NEW i \in TargetIds, NEW k \in Koids
  PROVE  TypeOK /\ Attach(i, k) => TypeOK'
<1> SUFFICES ASSUME TypeOK, Attach(i, k) PROVE TypeOK'
  OBVIOUS
<1>1. targets \in Seq(Koids \cup {NoProcess}) /\ k \in Koids \cup {NoProcess}
  BY DEF TypeOK
<1>2. targets' = [targets EXCEPT ![i] = k]
  BY DEF Attach
<1>3. targets' \in Seq(Koids \cup {NoProcess}) /\ Len(targets') = Len(targets)
  BY <1>1, <1>2, ExceptInSeq
<1>4. obsProcs' \subseteq 1..MaxTargets /\ attaches' \in 0..MaxAttaches
  BY BoundsAssumption DEF TypeOK, Attach, TargetIds
<1>5. QED
  BY <1>3, <1>4 DEF TypeOK, Attach, regVars, connVars, remoteVars

LEMMA DetachTypeOK ==
  ASSUME NEW i \in TargetIds PROVE TypeOK /\ Detach(i) => TypeOK'
<1> SUFFICES ASSUME TypeOK, Detach(i) PROVE TypeOK'
  OBVIOUS
<1>1. DropProcess(i)
  BY DEF Detach
<1>2. QED
  BY <1>1, DropProcessTypeOK DEF TypeOK, Detach, regVars, connVars, remoteVars

LEMMA TeardownTargetTypeOK == TypeOK /\ TeardownTarget => TypeOK'
<1> SUFFICES ASSUME TypeOK, TeardownTarget PROVE TypeOK'
  OBVIOUS
<1>1. targets \in Seq(Koids \cup {NoProcess}) /\ NoProcess \in Koids \cup {NoProcess}
  BY DEF TypeOK
<1>2. targets' = [targets EXCEPT ![loopIdx] = NoProcess]
  BY DEF TeardownTarget
<1>3. targets' \in Seq(Koids \cup {NoProcess}) /\ Len(targets') = Len(targets)
  BY <1>1, <1>2, ExceptInSeq
<1>4. obsProcs' \subseteq 1..MaxTargets /\ obsTargets' \subseteq 1..MaxTargets
  BY DEF TypeOK, TeardownTarget
<1>7. loopIdx' = loopIdx + 1 /\ loopIdx \in Nat \ {0}
  BY DEF TypeOK, TeardownTarget
<1>5. obsFault' \in BOOLEAN
  BY DEF TeardownTarget
<1>6. QED
  BY <1>3, <1>4, <1>5, <1>7 DEF TypeOK, TeardownTarget, regVars, connVars, remoteVars

\* The actions that only move the phase, the counters or the remote side.
LEMMA CreateNewJobContextTypeOK == TypeOK /\ CreateNewJobContext => TypeOK'
<1> SUFFICES ASSUME TypeOK, CreateNewJobContext PROVE TypeOK'
  OBVIOUS
<1>1. jobs' \in 1..MaxJobs
  BY BoundsAssumption DEF TypeOK, CreateNewJobContext, AddNewJobContext
<1>2. UNCHANGED <<targets, regVars, connVars, remoteVars, attaches, phase,
                  loopIdx, obsVars>>
  BY DEF CreateNewJobContext, AddNewJobContext
<1>3. QED
  BY <1>1, <1>2 DEF TypeOK, regVars, connVars, remoteVars, obsVars

LEMMA DidConnectTypeOK == TypeOK /\ DidConnect => TypeOK'
<1> SUFFICES ASSUME TypeOK, DidConnect PROVE TypeOK'
  OBVIOUS
<1>1. connected' = TRUE /\ epoch' \in 0..MaxConnects /\ buildIdCache' = {}
  BY BoundsAssumption DEF TypeOK, DidConnect
<1>2. UNCHANGED <<targets, jobs, regVars, remoteVars, attaches, phase,
                  loopIdx, obsVars>>
  BY DEF DidConnect
<1>3. QED
  BY <1>1, <1>2 DEF TypeOK, regVars, remoteVars, obsVars

LEMMA LoadSymbolsTypeOK == TypeOK /\ LoadSymbols => TypeOK'
BY DEF TypeOK, LoadSymbols, regVars, remoteVars, obsVars

LEMMA RemoteTypeOK ==
  ASSUME NEW k \in Koids PROVE TypeOK /\ (RemoteStart(k) \/ RemoteExit(k)) => TypeOK'
BY DEF TypeOK, RemoteStart, RemoteExit, regVars, connVars, obsVars

LEMMA StartTeardownTypeOK == TypeOK /\ StartTeardown => TypeOK'
BY DEF TypeOK, StartTeardown, regVars, connVars, remoteVars, obsVars

LEMMA FinishTeardownTypeOK == TypeOK /\ FinishTeardown => TypeOK'
<1> SUFFICES ASSUME TypeOK, FinishTeardown PROVE TypeOK'
  OBVIOUS
<1>1. targets' \in Seq(Koids \cup {NoProcess}) /\ Len(targets') <= MaxTargets
  BY BoundsAssumption DEF FinishTeardown
<1>2. phase' \in {"running", "disconnecting", "tearingDown", "destroyed"}
  BY DEF FinishTeardown
<1>3. QED
  BY <1>1, <1>2 DEF TypeOK, FinishTeardown, regVars, connVars, remoteVars, obsVars

LEMMA StutterTypeOK == TypeOK /\ (Destroyed \/ UNCHANGED vars) => TypeOK'
BY DEF TypeOK, Destroyed, vars, regVars, connVars, remoteVars, obsVars

LEMMA NextTypeOK == TypeOK /\ [Next]_vars => TypeOK'
BY CreateNewTargetTypeOK, CreateNewBreakpointTypeOK, DeleteBreakpointTypeOK,
   DidDisconnectTypeOK, DisconnectTargetTypeOK, FinishDisconnectTypeOK,
   OnProcessExitingTypeOK, AttachTypeOK, DetachTypeOK, TeardownTargetTypeOK,
   CreateNewJobContextTypeOK, DidConnectTypeOK, LoadSymbolsTypeOK,
   RemoteTypeOK, StartTeardownTypeOK, FinishTeardownTypeOK, StutterTypeOK
   DEF Next

\* The system's state always has the types TypeOK gives it.
THEOREM TypeCorrect == Spec => []TypeOK
BY InitTypeOK, NextTypeOK, PTL DEF Spec

-----------------------------------------------------------------------------
(* NoStaleProcess, through the inductive invariant IInv                    *)

\* A step that only takes Processes away from targets (DropProcess, the
\* destructor's loop, targets_.clear()): every target that holds a Process
\* afterwards held the same one before.
Shrinks ==
  /\ TargetIds' \subseteq TargetIds
  /\ \A t \in TargetIds' : targets'[t] # NoProcess => targets'[t] = targets[t]

\* Setting one entry of targets_ to NoProcess is such a step.
LEMMA DropShrinks ==
  ASSUME TypeOK, NEW i, targets' = [targets EXCEPT ![i] = NoProcess]
  PROVE  Shrinks /\ TargetIds' = TargetIds
<1>1. targets \in Seq(Koids \cup {NoProcess}) /\ NoProcess \in Koids \cup {NoProcess}
  BY DEF TypeOK
<1>2. Len(targets') = Len(targets)
  BY <1>1, ExceptInSeq
<1>3. TargetIds' = TargetIds
  BY <1>2 DEF TargetIds
<1>4. \A t \in TargetIds : targets'[t] # NoProcess => targets'[t] = targets[t]
  BY <1>1 DEF TargetIds
<1>5. QED
  BY <1>3, <1>4 DEF Shrinks

\* Taking Processes away never makes two targets share one.
LEMMA ShrinkKeepsUnique ==
  ASSUME KoidsUnique, Shrinks PROVE KoidsUnique'
<1> SUFFICES ASSUME NEW i \in TargetIds', NEW j \in TargetIds',
                    targets'[i] # NoProcess, targets'[i] = targets'[j]
             PROVE  i = j
  BY DEF KoidsUnique, Attached
<1>1. targets'[i] = targets[i] /\ targets'[j] = targets[j] /\ i \in TargetIds /\ j \in TargetIds
  BY DEF Shrinks
<1>2. QED
  BY <1>1 DEF KoidsUnique, Attached

\* With koids unique, ProcessImplFromKoid finds the one target holding k.
LEMMA ProcessImplFromKoidUnique ==
  ASSUME TypeOK, KoidsUnique, NEW k \in Koids, NEW i \in TargetIds, targets[i] = k
  PROVE  ProcessImplFromKoid(k) = i
<1>1. \A j \in TargetIds : targets[j] = k => j = i
  BY KoidsAssumption DEF KoidsUnique, Attached
<1>2. \A j \in 1..(i - 1) : targets[j] # k
  BY <1>1 DEF TargetIds
<1>3. ProcessImplFromKoid(k) =
        CHOOSE x \in TargetIds : targets[x] = k /\ \A j \in 1..(x - 1) : targets[j] # k
  BY DEF ProcessImplFromKoid
<1>4. \E x \in TargetIds : targets[x] = k /\ \A j \in 1..(x - 1) : targets[j] # k
  BY <1>2
<1>5. ProcessImplFromKoid(k) \in TargetIds /\ targets[ProcessImplFromKoid(k)] = k
  BY <1>3, <1>4
<1>6. QED
  BY <1>1, <1>5

\* IInv reads only targets_, the connection, the phase of the loops and
\* the remote side: a step that leaves those alone keeps it.
IInvVars == <<targets, connected, phase, loopIdx, live, started, exitPending>>

LEMMA QuietIInv ==
  ASSUME IInv, TypeOK', UNCHANGED IInvVars PROVE IInv'
BY DEF IInvVars, IInv, KoidsUnique, PendingExitsExited, DisconnectedDetached,
   ConnectedFresh, TargetIds, Attached

LEMMA InitIInv == Init => IInv
BY InitTypeOK DEF Init, IInv, KoidsUnique, PendingExitsExited,
   DisconnectedDetached, ConnectedFresh, TargetIds, Attached

LEMMA CreateNewTargetIInv == IInv /\ CreateNewTarget => IInv'
<1> SUFFICES ASSUME IInv, CreateNewTarget PROVE IInv'
  OBVIOUS
<1>1. TypeOK'
  BY CreateNewTargetTypeOK DEF IInv
<1>2. /\ targets \in Seq(Koids \cup {NoProcess})
      /\ targets' = Append(targets, NoProcess)
      /\ UNCHANGED <<connected, phase, loopIdx, live, started, exitPending>>
  BY DEF IInv, TypeOK, CreateNewTarget, AddNewTarget, connVars, remoteVars
<1>3. /\ TargetIds' = TargetIds \cup {Len(targets) + 1}
      /\ targets'[Len(targets) + 1] = NoProcess
      /\ \A t \in TargetIds : targets'[t] = targets[t]
  BY <1>2 DEF TargetIds
<1>5. KoidsUnique'
  BY <1>3 DEF IInv, KoidsUnique, Attached
<1>6. DisconnectedDetached' /\ ConnectedFresh'
  <2>1. phase = "running"
    BY DEF CreateNewTarget, AddNewTarget, Running
  <2>2. QED
    BY <1>2, <1>3, <2>1 DEF IInv, DisconnectedDetached, ConnectedFresh, Attached
<1>7. PendingExitsExited'
  BY <1>2 DEF IInv, PendingExitsExited
<1>8. QED
  BY <1>1, <1>5, <1>6, <1>7 DEF IInv

\* DidConnect: before it no target held a Process, so the new connection
\* vouches for nothing stale.
LEMMA DidConnectIInv == IInv /\ DidConnect => IInv'
<1> SUFFICES ASSUME IInv, DidConnect PROVE IInv'
  OBVIOUS
<1>1. TypeOK'
  BY DidConnectTypeOK DEF IInv
<1>2. /\ ~connected /\ connected' /\ phase = "running"
      /\ UNCHANGED <<targets, phase, loopIdx, live, started, exitPending>>
  BY DEF DidConnect, Running, remoteVars
<1>3. \A t \in TargetIds : ~Attached(t)
  BY <1>2 DEF IInv, DisconnectedDetached
<1>4. QED
  BY <1>1, <1>2, <1>3 DEF IInv, KoidsUnique, PendingExitsExited,
     DisconnectedDetached, ConnectedFresh, TargetIds, Attached

\* DidDisconnect drops the in-flight notifications and enters its loop.
LEMMA DidDisconnectIInv == IInv /\ DidDisconnect => IInv'
<1> SUFFICES ASSUME IInv, DidDisconnect PROVE IInv'
  OBVIOUS
<1>1. TypeOK'
  BY DidDisconnectTypeOK DEF IInv
<1>2. /\ connected' = FALSE /\ exitPending' = {} /\ phase' = "disconnecting"
      /\ loopIdx' = 1 /\ UNCHANGED <<targets, live, started>>
  BY DEF DidDisconnect
<1>3. KoidsUnique'
  BY <1>2 DEF IInv, KoidsUnique, TargetIds, Attached
<1>4. PendingExitsExited'
  BY <1>2 DEF IInv, PendingExitsExited
<1>5. DisconnectedDetached'
  BY <1>2 DEF DisconnectedDetached, TargetIds
<1>6. ConnectedFresh'
  BY <1>2 DEF ConnectedFresh
<1>7. QED
  BY <1>1, <1>3, <1>4, <1>5, <1>6 DEF IInv

\* One iteration of the DidDisconnect loop detaches targets_[loopIdx].
LEMMA DisconnectTargetIInv == IInv /\ DisconnectTarget => IInv'
<1> SUFFICES ASSUME IInv, DisconnectTarget PROVE IInv'
  OBVIOUS
<1>1. TypeOK'
  BY DisconnectTargetTypeOK DEF IInv
<1>2. /\ phase = "disconnecting" /\ loopIdx' = loopIdx + 1
      /\ loopIdx \in TargetIds
      /\ UNCHANGED <<connected, phase, live, started, exitPending>>
  BY DEF DisconnectTarget, IInv, TypeOK, TargetIds, connVars, remoteVars
<1>3. targets' = [targets EXCEPT ![loopIdx] = NoProcess] \/ targets' = targets
  <2>1. CASE Attached(loopIdx)
    BY <2>1 DEF DisconnectTarget, DropProcess
  <2>2. CASE ~Attached(loopIdx)
    BY <2>2 DEF DisconnectTarget
  <2>3. QED
    BY <2>1, <2>2
<1>4. targets'[loopIdx] = NoProcess
  <2>1. CASE Attached(loopIdx)
    <3>1. targets' = [targets EXCEPT ![loopIdx] = NoProcess]
      BY <2>1 DEF DisconnectTarget, DropProcess
    <3>2. QED
      BY <1>2, <3>1 DEF IInv, TypeOK, TargetIds
  <2>2. CASE ~Attached(loopIdx)
    <3>1. targets' = targets
      BY <2>2 DEF DisconnectTarget
    <3>2. QED
      BY <2>2, <3>1 DEF Attached
  <2>3. QED
    BY <2>1, <2>2
<1>5. Shrinks /\ TargetIds' = TargetIds
  <2>1. CASE targets' = [targets EXCEPT ![loopIdx] = NoProcess]
    BY <2>1, DropShrinks DEF IInv
  <2>2. CASE targets' = targets
    BY <2>2 DEF Shrinks, TargetIds
  <2>3. QED
    BY <1>3, <2>1, <2>2
<1>6. \A t \in TargetIds : t # loopIdx => targets'[t] = targets[t]
  <2>1. CASE targets' = [targets EXCEPT ![loopIdx] = NoProcess]
    BY <2>1 DEF IInv, TypeOK, TargetIds
  <2>2. CASE targets' = targets
    BY <2>2
  <2>3. QED
    BY <1>3, <2>1, <2>2
<1>7. KoidsUnique'
  BY <1>5, ShrinkKeepsUnique DEF IInv
<1>8. \A t \in TargetIds' : t < loopIdx' => ~Attached(t)'
  <2> SUFFICES ASSUME NEW t \in TargetIds, t < loopIdx + 1
               PROVE  targets'[t] = NoProcess
    BY <1>2, <1>5 DEF Attached
  <2>1. CASE t = loopIdx
    BY <1>4, <2>1
  <2>2. CASE t # loopIdx
    <3>1. t < loopIdx
      BY <1>2, <2>2 DEF TargetIds
    <3>2. targets[t] = NoProcess
      BY <1>2, <3>1 DEF IInv, DisconnectedDetached, Attached
    <3>3. QED
      BY <1>6, <2>2, <3>2
  <2>3. QED
    BY <2>1, <2>2
<1>9. DisconnectedDetached'
  BY <1>2, <1>8 DEF IInv, DisconnectedDetached
<1>10. ~connected'
  BY <1>2 DEF IInv, DisconnectedDetached
<1>11. ConnectedFresh'
  BY <1>10 DEF ConnectedFresh
<1>12. PendingExitsExited'
  BY <1>2 DEF IInv, PendingExitsExited
<1>13. QED
  BY <1>1, <1>7, <1>9, <1>11, <1>12 DEF IInv

\* The loop is over once every target has been visited: none holds a
\* Process any more.
LEMMA FinishDisconnectIInv == IInv /\ FinishDisconnect => IInv'
<1> SUFFICES ASSUME IInv, FinishDisconnect PROVE IInv'
  OBVIOUS
<1>1. TypeOK'
  BY FinishDisconnectTypeOK DEF IInv
<1>2. /\ phase = "disconnecting" /\ loopIdx > Len(targets) /\ phase' = "running"
      /\ UNCHANGED <<targets, connected, loopIdx, live, started, exitPending>>
  BY DEF FinishDisconnect, connVars, remoteVars
<1>3. ~connected /\ \A t \in TargetIds : ~Attached(t)
  BY <1>2 DEF IInv, TypeOK, DisconnectedDetached, TargetIds
<1>4. QED
  BY <1>1, <1>2, <1>3 DEF IInv, KoidsUnique, PendingExitsExited,
     DisconnectedDetached, ConnectedFresh, TargetIds, Attached

\* A process starts with a koid never used before, so no notification about
\* it can be in flight.
LEMMA RemoteStartIInv ==
  ASSUME NEW k \in Koids PROVE IInv /\ RemoteStart(k) => IInv'
<1> SUFFICES ASSUME IInv, RemoteStart(k) PROVE IInv'
  OBVIOUS
<1>1. TypeOK'
  BY RemoteTypeOK DEF IInv
<1>2. /\ k \notin started /\ started' = started \cup {k} /\ live' = live \cup {k}
      /\ UNCHANGED <<targets, connected, phase, loopIdx, exitPending>>
  BY DEF RemoteStart, connVars
<1>3. PendingExitsExited'
  BY <1>2 DEF IInv, PendingExitsExited
<1>4. QED
  BY <1>1, <1>2, <1>3 DEF IInv, KoidsUnique, DisconnectedDetached,
     ConnectedFresh, TargetIds, Attached

\* A process exits: if a target holds it while connected, its exit
\* notification is now in flight.
LEMMA RemoteExitIInv ==
  ASSUME NEW k \in Koids PROVE IInv /\ RemoteExit(k) => IInv'
<1> SUFFICES ASSUME IInv, RemoteExit(k) PROVE IInv'
  OBVIOUS
<1>1. TypeOK'
  BY RemoteTypeOK DEF IInv
<1>2. /\ k \in live /\ live' = live \ {k}
      /\ exitPending' = IF connected /\ k \in AttachedKoids
                          THEN exitPending \cup {k} ELSE exitPending
      /\ UNCHANGED <<targets, connected, phase, loopIdx, started>>
  BY DEF RemoteExit, connVars
<1>3. PendingExitsExited'
  BY <1>2 DEF IInv, PendingExitsExited
<1>4. ConnectedFresh'
  <2> SUFFICES ASSUME connected, NEW t \in TargetIds, Attached(t)
               PROVE  targets[t] \in live' \cup exitPending'
    BY <1>2 DEF ConnectedFresh, TargetIds, Attached
  <2>1. CASE targets[t] = k
    <3>1. k \in AttachedKoids
      BY <2>1 DEF AttachedKoids
    <3>2. QED
      BY <1>2, <2>1, <3>1
  <2>2. CASE targets[t] # k
    BY <1>2, <2>2 DEF IInv, ConnectedFresh
  <2>3. QED
    BY <2>1, <2>2
<1>5. QED
  BY <1>1, <1>2, <1>3, <1>4 DEF IInv, KoidsUnique, DisconnectedDetached,
     TargetIds, Attached

\* The exit notification for k is delivered: with koids unique,
\* ProcessImplFromKoid routes it to the one target holding k, which drops
\* it; every other Process held is still live or has its own notification.
LEMMA OnProcessExitingIInv ==
  ASSUME NEW k \in Koids PROVE IInv /\ OnProcessExiting(k) => IInv'
<1> SUFFICES ASSUME IInv, OnProcessExiting(k) PROVE IInv'
  OBVIOUS
<1>1. TypeOK'
  BY OnProcessExitingTypeOK DEF IInv
<1>2. /\ phase = "running" /\ k \in exitPending /\ exitPending' = exitPending \ {k}
      /\ UNCHANGED <<connected, phase, loopIdx, live, started>>
  BY DEF OnProcessExiting, Running, connVars
<1>3. connected
  BY <1>2 DEF IInv, PendingExitsExited
<1>4. \A t \in TargetIds' : targets'[t] # NoProcess => targets'[t] # k
  <2>1. CASE ProcessImplFromKoid(k) = 0
    <3>1. targets' = targets
      BY <2>1 DEF OnProcessExiting
    <3>2. ~\E i \in TargetIds : targets[i] = k
      BY <2>1, ProcessImplFromKoidUnique, KoidsAssumption DEF IInv, TargetIds
    <3>3. QED
      BY <3>1, <3>2 DEF TargetIds
  <2>2. CASE ProcessImplFromKoid(k) # 0
    <3>1. DropProcess(ProcessImplFromKoid(k))
      BY <2>2 DEF OnProcessExiting
    <3>2. \E i \in TargetIds : targets[i] = k
      BY <2>2 DEF ProcessImplFromKoid
    <3>3. PICK i \in TargetIds : targets[i] = k
      BY <3>2
    <3>4. ProcessImplFromKoid(k) = i
      BY <3>3, ProcessImplFromKoidUnique DEF IInv
    <3>5. targets' = [targets EXCEPT ![i] = NoProcess]
      BY <3>1, <3>4 DEF DropProcess
    <3>6. \A t \in TargetIds : t # i => targets[t] # k
      BY <3>3, KoidsAssumption DEF IInv, KoidsUnique, Attached
    <3>7. QED
      BY <3>5, <3>6 DEF IInv, TypeOK, TargetIds
  <2>3. QED
    BY <2>1, <2>2
<1>5. Shrinks
  <2>1. CASE ProcessImplFromKoid(k) = 0
    BY <2>1 DEF OnProcessExiting, Shrinks, TargetIds
  <2>2. CASE ProcessImplFromKoid(k) # 0
    BY <2>2, DropShrinks DEF IInv, OnProcessExiting, DropProcess
  <2>3. QED
    BY <2>1, <2>2
<1>6. KoidsUnique'
  BY <1>5, ShrinkKeepsUnique DEF IInv
<1>7. ConnectedFresh'
  BY <1>2, <1>4, <1>5 DEF IInv, ConnectedFresh, Shrinks, Attached
<1>8. PendingExitsExited' /\ DisconnectedDetached'
  BY <1>2, <1>3 DEF IInv, PendingExitsExited, DisconnectedDetached
<1>9. QED
  BY <1>1, <1>6, <1>7, <1>8 DEF IInv

\* Attach takes a live process no target holds, over a live connection.
LEMMA AttachIInv ==
  ASSUME NEW i \in TargetIds, NEW k \in Koids PROVE IInv /\ Attach(i, k) => IInv'
<1> SUFFICES ASSUME IInv, Attach(i, k) PROVE IInv'
  OBVIOUS
<1>1. TypeOK'
  BY AttachTypeOK DEF IInv
<1>2. /\ phase = "running" /\ connected /\ k \in live
      /\ \A t \in TargetIds : Attached(t) => targets[t] # k
      /\ UNCHANGED <<connected, phase, loopIdx, live, started, exitPending>>
  BY DEF Attach, Running, AttachedKoids, connVars, remoteVars
<1>3. /\ TargetIds' = TargetIds /\ targets'[i] = k
      /\ \A t \in TargetIds : t # i => targets'[t] = targets[t]
  BY DEF Attach, IInv, TypeOK, TargetIds
<1>4. KoidsUnique'
  BY <1>2, <1>3, KoidsAssumption DEF IInv, KoidsUnique, Attached
<1>5. ConnectedFresh'
  BY <1>2, <1>3 DEF IInv, ConnectedFresh, Attached
<1>6. QED
  BY <1>1, <1>2, <1>4, <1>5 DEF IInv, PendingExitsExited, DisconnectedDetached

\* A step that only takes Processes away, and leaves the connection, the
\* phase, the loop index and the remote side alone, keeps IInv.
LEMMA ShrinkIInv ==
  ASSUME IInv, TypeOK', Shrinks,
         UNCHANGED <<connected, phase, loopIdx, live, started, exitPending>>
  PROVE  IInv'
<1>1. KoidsUnique'
  BY ShrinkKeepsUnique DEF IInv
<1>2. QED
  BY <1>1 DEF IInv, Shrinks, PendingExitsExited, DisconnectedDetached,
     ConnectedFresh, Attached

LEMMA DetachIInv ==
  ASSUME NEW i \in TargetIds PROVE IInv /\ Detach(i) => IInv'
<1> SUFFICES ASSUME IInv, Detach(i) PROVE IInv'
  OBVIOUS
<1>1. TypeOK'
  BY DetachTypeOK DEF IInv
<1>2. Shrinks
  BY DropShrinks DEF IInv, Detach, DropProcess
<1>3. QED
  BY <1>1, <1>2, ShrinkIInv DEF Detach, connVars, remoteVars

\* The destructor starts from a running session.
LEMMA StartTeardownIInv == IInv /\ StartTeardown => IInv'
<1> SUFFICES ASSUME IInv, StartTeardown PROVE IInv'
  OBVIOUS
<1>1. TypeOK'
  BY StartTeardownTypeOK DEF IInv
<1>2. /\ phase = "running" /\ phase' = "tearingDown"
      /\ UNCHANGED <<targets, connected, live, started, exitPending>>
  BY DEF StartTeardown, Running, connVars, remoteVars
<1>3. QED
  BY <1>1, <1>2 DEF IInv, KoidsUnique, PendingExitsExited,
     DisconnectedDetached, ConnectedFresh, TargetIds, Attached

LEMMA TeardownTargetIInv == IInv /\ TeardownTarget => IInv'
<1> SUFFICES ASSUME IInv, TeardownTarget PROVE IInv'
  OBVIOUS
<1>1. TypeOK'
  BY TeardownTargetTypeOK DEF IInv
<1>2. Shrinks
  BY DropShrinks DEF IInv, TeardownTarget
<1>3. /\ phase = "tearingDown"
      /\ UNCHANGED <<connected, phase, live, started, exitPending>>
  BY DEF TeardownTarget, connVars, remoteVars
<1>4. QED
  BY <1>1, <1>2, <1>3 DEF IInv, Shrinks, KoidsUnique, PendingExitsExited,
     DisconnectedDetached, ConnectedFresh, Attached

LEMMA FinishTeardownIInv == IInv /\ FinishTeardown => IInv'
<1> SUFFICES ASSUME IInv, FinishTeardown PROVE IInv'
  OBVIOUS
<1>1. TypeOK'
  BY FinishTeardownTypeOK DEF IInv
<1>2. /\ targets' = <<>> /\ phase' = "destroyed"
      /\ UNCHANGED <<connected, live, started, exitPending>>
  BY DEF FinishTeardown, connVars, remoteVars
<1>3. TargetIds' = {}
  BY <1>2 DEF TargetIds
<1>4. QED
  BY <1>1, <1>2, <1>3 DEF IInv, KoidsUnique, PendingExitsExited,
     DisconnectedDetached, ConnectedFresh

LEMMA NextIInv == IInv /\ [Next]_vars => IInv'
<1> SUFFICES ASSUME IInv, [Next]_vars PROVE IInv'
  OBVIOUS
<1>1. CASE CreateNewTarget
  BY <1>1, CreateNewTargetIInv
<1>2. CASE CreateNewJobContext
  BY <1>2, CreateNewJobContextTypeOK, QuietIInv
  DEF IInv, CreateNewJobContext, AddNewJobContext, IInvVars, connVars, remoteVars
<1>3. CASE CreateNewBreakpoint \/ CreateNewInternalBreakpoint
  BY <1>3, CreateNewBreakpointTypeOK, QuietIInv
  DEF IInv, CreateNewBreakpoint, CreateNewInternalBreakpoint, IInvVars,
      connVars, remoteVars
<1>4. ASSUME NEW id \in DOMAIN breakpoints, DeleteBreakpoint(id) PROVE IInv'
  BY <1>4, DeleteBreakpointTypeOK, QuietIInv
  DEF IInv, DeleteBreakpoint, IInvVars, connVars, remoteVars
<1>5. CASE LoadSymbols
  BY <1>5, LoadSymbolsTypeOK, QuietIInv
  DEF IInv, LoadSymbols, IInvVars, remoteVars
<1>6. CASE Destroyed \/ UNCHANGED vars
  BY <1>6, StutterTypeOK, QuietIInv
  DEF IInv, Destroyed, vars, IInvVars, connVars, remoteVars
<1>7. QED
  BY <1>1, <1>2, <1>3, <1>4, <1>5, <1>6, DidConnectIInv, DidDisconnectIInv,
     DisconnectTargetIInv, FinishDisconnectIInv, RemoteStartIInv,
     RemoteExitIInv, OnProcessExitingIInv, AttachIInv, DetachIInv,
     StartTeardownIInv, TeardownTargetIInv, FinishTeardownIInv
  DEF Next

\* IInv holds in every reachable state of the session.
THEOREM IInvHolds == Spec => []IInv
BY InitIInv, NextIInv, PTL DEF Spec

\* A Process held by a target between client operations is running on the
\* remote system or has its exit notification in flight: SystemImpl never
\* keeps a stale ProcessImpl (DidDisconnect detaches everything when the
\* connection and its notifications are lost; exits are routed through
\* ProcessImplFromKoid to the one target holding the koid).
THEOREM NoStaleProcessHolds == Spec => []NoStaleProcess
<1>1. IInv => NoStaleProcess
  BY DEF IInv, NoStaleProcess, DisconnectedDetached, ConnectedFresh, Running
<1>2. QED
  BY <1>1, IInvHolds, PTL

-----------------------------------------------------------------------------
(* The registry and the build-ID cache, through RegInv                    *)

\* The variables RegInv is about.
RegUnchanged == UNCHANGED <<breakpoints, nextBpId, retired, obsBps, epoch, buildIdCache>>

\* A step that keeps its type and leaves the registry, the observers'
\* breakpoints and the cache alone keeps RegInv.
LEMMA QuietRegInv == RegInv /\ TypeOK' /\ RegUnchanged => RegInv'
BY DEF RegInv, RegUnchanged, BreakpointIdsNeverReused,
   ObserversSeeUserBreakpoints, BuildIdCacheFresh, GetBreakpoints

LEMMA InitRegInv == Init => RegInv
BY InitTypeOK DEF Init, RegInv, BreakpointIdsNeverReused,
   ObserversSeeUserBreakpoints, BuildIdCacheFresh, GetBreakpoints

\* CreateNewBreakpoint and CreateNewInternalBreakpoint register the fresh
\* id nextBpId; only the user one is told to the observers.
LEMMA CreateNewBreakpointRegInv ==
  RegInv /\ (CreateNewBreakpoint \/ CreateNewInternalBreakpoint) => RegInv'
<1> SUFFICES ASSUME RegInv, CreateNewBreakpoint \/ CreateNewInternalBreakpoint
             PROVE RegInv'
  OBVIOUS
<1> DEFINE n == nextBpId
<1>1. TypeOK'
  BY CreateNewBreakpointTypeOK DEF RegInv
<1>2. n \notin DOMAIN breakpoints \cup retired /\ n \in Nat
  BY DEF RegInv, TypeOK
<1>3. /\ DOMAIN breakpoints' = DOMAIN breakpoints \cup {n}
      /\ \A b \in DOMAIN breakpoints : breakpoints'[b] = breakpoints[b]
      /\ nextBpId' = n + 1 /\ retired' = retired
      /\ UNCHANGED <<epoch, buildIdCache>>
  BY <1>2 DEF CreateNewBreakpoint, CreateNewInternalBreakpoint, Insert,
     AllocBreakpointId, connVars
<1>4. \A id \in DOMAIN breakpoints' \cup retired' : id < nextBpId'
  BY <1>2, <1>3 DEF RegInv, TypeOK
<1>5. DOMAIN breakpoints' \cap retired' = {}
  BY <1>2, <1>3 DEF RegInv, BreakpointIdsNeverReused
<1>6. obsBps' = GetBreakpoints'
  <2>1. CASE CreateNewBreakpoint
    <3>1. obsBps' = obsBps \cup {n} /\ breakpoints'[n] = FALSE
      BY <2>1 DEF CreateNewBreakpoint, Insert, AllocBreakpointId
    <3>2. QED
      BY <1>3, <3>1 DEF RegInv, ObserversSeeUserBreakpoints, GetBreakpoints
  <2>2. CASE CreateNewInternalBreakpoint
    <3>1. obsBps' = obsBps /\ breakpoints'[n] = TRUE
      BY <2>2 DEF CreateNewInternalBreakpoint, Insert, AllocBreakpointId, obsVars
    <3>2. QED
      BY <1>3, <3>1 DEF RegInv, ObserversSeeUserBreakpoints, GetBreakpoints
  <2>3. QED
    BY <2>1, <2>2
<1>7. QED
  BY <1>1, <1>3, <1>4, <1>5, <1>6 DEF RegInv, ObserversSeeUserBreakpoints,
     BreakpointIdsNeverReused, BuildIdCacheFresh

\* DeleteBreakpoint retires the id, and tells the observers only of a user
\* breakpoint's end.
LEMMA DeleteBreakpointRegInv ==
  ASSUME NEW id \in DOMAIN breakpoints
  PROVE  RegInv /\ DeleteBreakpoint(id) => RegInv'
<1> SUFFICES ASSUME RegInv, DeleteBreakpoint(id) PROVE RegInv'
  OBVIOUS
<1>1. TypeOK'
  BY DeleteBreakpointTypeOK DEF RegInv
<1>2. /\ DOMAIN breakpoints' = DOMAIN breakpoints \ {id}
      /\ \A b \in DOMAIN breakpoints' : breakpoints'[b] = breakpoints[b]
      /\ retired' = retired \cup {id}
      /\ obsBps' = IF ~breakpoints[id] THEN obsBps \ {id} ELSE obsBps
      /\ UNCHANGED <<nextBpId, epoch, buildIdCache>>
  BY DEF DeleteBreakpoint, connVars
<1>3. \A b \in DOMAIN breakpoints' \cup retired' : b < nextBpId'
  BY <1>2 DEF RegInv
<1>4. DOMAIN breakpoints' \cap retired' = {}
  BY <1>2 DEF RegInv, BreakpointIdsNeverReused
<1>5. obsBps' = GetBreakpoints'
  BY <1>2 DEF RegInv, ObserversSeeUserBreakpoints, GetBreakpoints
<1>6. QED
  BY <1>1, <1>2, <1>3, <1>4, <1>5 DEF RegInv, ObserversSeeUserBreakpoints,
     BreakpointIdsNeverReused, BuildIdCacheFresh

\* DidConnect moves to a new epoch and clears the cache; LoadSymbols loads
\* under the current epoch only.
LEMMA CacheRegInv == RegInv /\ (DidConnect \/ LoadSymbols) => RegInv'
<1> SUFFICES ASSUME RegInv, DidConnect \/ LoadSymbols PROVE RegInv'
  OBVIOUS
<1>1. TypeOK'
  BY DidConnectTypeOK, LoadSymbolsTypeOK DEF RegInv
<1>2. UNCHANGED <<breakpoints, nextBpId, retired, obsBps>>
  BY DEF DidConnect, LoadSymbols, regVars, obsVars
<1>3. buildIdCache' \subseteq {epoch'}
  BY DEF DidConnect, LoadSymbols, RegInv, BuildIdCacheFresh
<1>4. QED
  BY <1>1, <1>2, <1>3 DEF RegInv, BreakpointIdsNeverReused,
     ObserversSeeUserBreakpoints, BuildIdCacheFresh, GetBreakpoints

LEMMA NextRegInv == RegInv /\ [Next]_vars => RegInv'
<1> SUFFICES ASSUME RegInv, [Next]_vars PROVE RegInv'
  OBVIOUS
<1>0. TypeOK'
  BY NextTypeOK DEF RegInv
<1>1. CASE CreateNewBreakpoint \/ CreateNewInternalBreakpoint
  BY <1>1, CreateNewBreakpointRegInv
<1>2. CASE \E id \in DOMAIN breakpoints : DeleteBreakpoint(id)
  BY <1>2, DeleteBreakpointRegInv
<1>3. CASE DidConnect \/ LoadSymbols
  BY <1>3, CacheRegInv
<1>4. CASE CreateNewTarget \/ CreateNewJobContext \/ DidDisconnect
  BY <1>4, <1>0, QuietRegInv DEF CreateNewTarget, CreateNewJobContext,
     DidDisconnect, RegUnchanged, regVars, connVars, obsVars
<1>5. CASE DisconnectTarget \/ FinishDisconnect
  BY <1>5, <1>0, QuietRegInv DEF DisconnectTarget, FinishDisconnect,
     RegUnchanged, regVars, connVars, obsVars
<1>6. CASE \E k \in Koids : RemoteStart(k) \/ RemoteExit(k) \/ OnProcessExiting(k)
  BY <1>6, <1>0, QuietRegInv DEF RemoteStart, RemoteExit, OnProcessExiting,
     RegUnchanged, regVars, connVars, obsVars
<1>7. CASE \E i \in TargetIds, k \in Koids : Attach(i, k)
  BY <1>7, <1>0, QuietRegInv DEF Attach, RegUnchanged, regVars, connVars
<1>8. CASE \E i \in TargetIds : Detach(i)
  BY <1>8, <1>0, QuietRegInv DEF Detach, RegUnchanged, regVars, connVars
<1>9. CASE StartTeardown \/ TeardownTarget \/ FinishTeardown
  BY <1>9, <1>0, QuietRegInv DEF StartTeardown, TeardownTarget,
     FinishTeardown, RegUnchanged, regVars, connVars, obsVars
<1>10. CASE Destroyed \/ UNCHANGED vars
  BY <1>10, <1>0, QuietRegInv DEF Destroyed, vars, RegUnchanged, regVars,
     connVars, obsVars
<1>11. QED
  BY <1>1, <1>2, <1>3, <1>4, <1>5, <1>6, <1>7, <1>8, <1>9, <1>10 DEF Next

\* RegInv holds in every reachable state of the session.
LEMMA RegInvHolds == Spec => []RegInv
BY InitRegInv, NextRegInv, PTL DEF Spec

\* The breakpoints observers were told of by DidCreateBreakpoint and not
\* told are gone by WillDestroyBreakpoint are exactly GetBreakpoints().
THEOREM ObserversSeeUserBreakpointsHolds == Spec => []ObserversSeeUserBreakpoints
<1>1. RegInv => ObserversSeeUserBreakpoints
  BY DEF RegInv
<1>2. QED
  BY <1>1, RegInvHolds, PTL

-----------------------------------------------------------------------------
(* The observers' view of targets and Processes, through ViewInv          *)

\* The variables ViewInv is about.
ViewVars == <<targets, phase, loopIdx, obsTargets, obsProcs, obsFault>>

\* A step that leaves targets_, the loops and the observers alone keeps
\* ViewInv.
LEMMA QuietViewInv == ViewInv /\ UNCHANGED ViewVars => ViewInv'
BY DEF ViewInv, ViewVars, NotificationsWellOrdered, TargetIds, Attached

LEMMA InitViewInv == Init => ViewInv
BY DEF Init, ViewInv, NotificationsWellOrdered, TargetIds, Attached

\* Outside the destructor, a target that holds a Process drops it with
\* WillDestroyProcess (Detach, exit routing, the DidDisconnect loop).
LEMMA DropView ==
  ASSUME TypeOK, ViewInv, NEW i \in TargetIds, Attached(i), DropProcess(i),
         phase' = phase, phase # "tearingDown", obsTargets' = obsTargets
  PROVE  ViewInv'
<1>1. TargetIds' = TargetIds
  BY DropShrinks DEF DropProcess
<1>2. \A t \in TargetIds : targets'[t] = IF t = i THEN NoProcess ELSE targets[t]
  BY DEF DropProcess, TargetIds
<1>3. {t \in TargetIds' : Attached(t)'} = {t \in TargetIds : Attached(t)} \ {i}
  BY <1>1, <1>2 DEF Attached
<1>4. i \in obsTargets /\ i \in obsProcs
  BY DEF ViewInv
<1>5. ~obsFault'
  BY <1>4 DEF DropProcess, BadWillDestroyProcess, ViewInv, NotificationsWellOrdered
<1>6. QED
  BY <1>1, <1>3, <1>5 DEF DropProcess, ViewInv, NotificationsWellOrdered

LEMMA CreateNewTargetViewInv == TypeOK /\ ViewInv /\ CreateNewTarget => ViewInv'
<1> SUFFICES ASSUME TypeOK, ViewInv, CreateNewTarget PROVE ViewInv'
  OBVIOUS
<1> DEFINE n == Len(targets) + 1
<1>1. /\ Len(targets') = n /\ TargetIds' = TargetIds \cup {n}
      /\ targets'[n] = NoProcess
      /\ \A t \in TargetIds : targets'[t] = targets[t]
  BY DEF TypeOK, CreateNewTarget, AddNewTarget, TargetIds
<1>2. {t \in TargetIds' : Attached(t)'} = {t \in TargetIds : Attached(t)}
  BY <1>1 DEF Attached, TargetIds
<1>3. obsTargets' = TargetIds' /\ phase' = "running"
  BY <1>1 DEF ViewInv, CreateNewTarget, AddNewTarget, Running
<1>4. QED
  BY <1>2, <1>3 DEF ViewInv, CreateNewTarget, NotificationsWellOrdered

LEMMA AttachViewInv ==
  ASSUME NEW i \in TargetIds, NEW k \in Koids
  PROVE  TypeOK /\ ViewInv /\ Attach(i, k) => ViewInv'
<1> SUFFICES ASSUME TypeOK, ViewInv, Attach(i, k) PROVE ViewInv'
  OBVIOUS
<1>1. TargetIds' = TargetIds
  <2>1. targets \in Seq(Koids \cup {NoProcess}) /\ k \in Koids \cup {NoProcess}
    BY DEF TypeOK
  <2>2. QED
    BY <2>1, ExceptInSeq DEF Attach, TargetIds
<1>2. \A t \in TargetIds : targets'[t] = IF t = i THEN k ELSE targets[t]
  BY DEF Attach, TargetIds
<1>3. k # NoProcess
  BY KoidsAssumption
<1>4. {t \in TargetIds' : Attached(t)'} = {t \in TargetIds : Attached(t)} \cup {i}
  BY <1>1, <1>2, <1>3 DEF Attached
<1>5. i \in obsTargets /\ i \notin obsProcs /\ phase = "running"
  BY DEF ViewInv, Attach, Running
<1>6. ~obsFault'
  BY <1>5 DEF Attach, BadDidCreateProcess, ViewInv, NotificationsWellOrdered
<1>7. QED
  BY <1>1, <1>4, <1>5, <1>6 DEF Attach, ViewInv, NotificationsWellOrdered

LEMMA DetachViewInv ==
  ASSUME NEW i \in TargetIds
  PROVE  TypeOK /\ ViewInv /\ Detach(i) => ViewInv'
<1> SUFFICES ASSUME TypeOK, ViewInv, Detach(i) PROVE ViewInv'
  OBVIOUS
<1>1. phase # "tearingDown"
  BY DEF Detach, Running
<1>2. QED
  BY <1>1, DropView DEF Detach

\* The exit notification is routed by ProcessImplFromKoid to the one target
\* holding the koid; an unknown koid changes nothing.
LEMMA OnProcessExitingViewInv ==
  ASSUME NEW k \in Koids
  PROVE  IInv /\ ViewInv /\ OnProcessExiting(k) => ViewInv'
<1> SUFFICES ASSUME IInv, ViewInv, OnProcessExiting(k) PROVE ViewInv'
  OBVIOUS
<1>1. TypeOK /\ KoidsUnique
  BY DEF IInv
<1>2. CASE ProcessImplFromKoid(k) = 0
  BY <1>2 DEF OnProcessExiting, ViewInv, NotificationsWellOrdered, TargetIds, Attached
<1>3. CASE ProcessImplFromKoid(k) # 0
  <2>1. PICK i \in TargetIds : targets[i] = k
    BY <1>3 DEF ProcessImplFromKoid
  <2>2. ProcessImplFromKoid(k) = i
    BY <1>1, <2>1, ProcessImplFromKoidUnique
  <2>3. Attached(i)
    BY <2>1, KoidsAssumption DEF Attached
  <2>4. phase # "tearingDown"
    BY DEF OnProcessExiting, Running
  <2>5. DropProcess(i) /\ phase' = phase /\ obsTargets' = obsTargets
    BY <1>3, <2>2 DEF OnProcessExiting
  <2>6. QED
    BY <1>1, <2>3, <2>4, <2>5, DropView
<1>4. QED
  BY <1>2, <1>3

\* One iteration of the DidDisconnect loop.
LEMMA DisconnectTargetViewInv == TypeOK /\ ViewInv /\ DisconnectTarget => ViewInv'
<1> SUFFICES ASSUME TypeOK, ViewInv, DisconnectTarget PROVE ViewInv'
  OBVIOUS
<1>1. loopIdx \in TargetIds
  BY DEF TypeOK, DisconnectTarget, TargetIds
<1>2. phase' = phase /\ phase # "tearingDown" /\ obsTargets' = obsTargets
  BY DEF DisconnectTarget
<1>3. CASE Attached(loopIdx)
  BY <1>1, <1>2, <1>3, DropView DEF DisconnectTarget
<1>4. CASE ~Attached(loopIdx)
  BY <1>2, <1>4 DEF DisconnectTarget, ViewInv, NotificationsWellOrdered, TargetIds, Attached
<1>5. QED
  BY <1>3, <1>4

LEMMA StartTeardownViewInv == TypeOK /\ ViewInv /\ StartTeardown => ViewInv'
<1> SUFFICES ASSUME TypeOK, ViewInv, StartTeardown PROVE ViewInv'
  OBVIOUS
<1>1. obsTargets = TargetIds /\ loopIdx' = 1 /\ targets' = targets
  BY DEF StartTeardown, ViewInv, Running
<1>2. {t \in TargetIds : t >= 1} = TargetIds
  BY DEF TargetIds
<1>3. obsProcs' = {t \in TargetIds' : Attached(t)'}
  BY <1>1 DEF obsVars, StartTeardown, ViewInv, TargetIds, Attached
<1>4. obsTargets' = {t \in TargetIds' : t >= loopIdx'}
  BY <1>1, <1>2 DEF obsVars, StartTeardown, TargetIds
<1>5. \A t \in TargetIds' : t < loopIdx' => ~Attached(t)'
  BY <1>1 DEF TargetIds
<1>6. ~obsFault' /\ phase' = "tearingDown"
  BY DEF obsVars, StartTeardown, ViewInv, NotificationsWellOrdered
<1>7. QED
  BY <1>3, <1>4, <1>5, <1>6 DEF ViewInv, NotificationsWellOrdered

\* One iteration of the destructor's loop: ImplicitlyDetach of target i,
\* then WillDestroyTarget.
LEMMA TeardownTargetViewInv == TypeOK /\ ViewInv /\ TeardownTarget => ViewInv'
<1> SUFFICES ASSUME TypeOK, ViewInv, TeardownTarget PROVE ViewInv'
  OBVIOUS
<1> DEFINE i == loopIdx
<1>1. i \in TargetIds /\ i \in Nat
  BY DEF TypeOK, TeardownTarget, TargetIds
<1>2. TargetIds' = TargetIds
  BY <1>1, DropShrinks DEF TeardownTarget
<1>3. \A t \in TargetIds : targets'[t] = IF t = i THEN NoProcess ELSE targets[t]
  BY DEF TeardownTarget, TargetIds
<1>4. phase' = "tearingDown" /\ phase = "tearingDown" /\ loopIdx' = i + 1
  BY DEF TeardownTarget
<1>5. obsProcs' = {t \in TargetIds' : Attached(t)'}
  BY <1>2, <1>3, <1>4 DEF TeardownTarget, ViewInv, Attached
<1>6. obsTargets' = {t \in TargetIds' : t >= loopIdx'}
  BY <1>1, <1>2, <1>4 DEF TeardownTarget, ViewInv, TargetIds
<1>7. \A t \in TargetIds' : t < loopIdx' => ~Attached(t)'
  BY <1>1, <1>2, <1>3, <1>4 DEF ViewInv, TargetIds, Attached
<1>8. i \in obsTargets /\ (Attached(i) => i \in obsProcs)
  BY <1>1, <1>4 DEF ViewInv
<1>9. ~obsFault'
  BY <1>8 DEF TeardownTarget, BadWillDestroyProcess, BadWillDestroyTarget,
              ViewInv, NotificationsWellOrdered
<1>10. QED
  BY <1>4, <1>5, <1>6, <1>7, <1>9 DEF ViewInv, NotificationsWellOrdered

\* targets_.clear(): the loop has detached every target.
LEMMA FinishTeardownViewInv == TypeOK /\ ViewInv /\ FinishTeardown => ViewInv'
<1> SUFFICES ASSUME TypeOK, ViewInv, FinishTeardown PROVE ViewInv'
  OBVIOUS
<1>1. TargetIds' = {}
  BY DEF FinishTeardown, TargetIds
<1>2. \A t \in TargetIds : t < loopIdx
  BY DEF TypeOK, FinishTeardown, TargetIds
<1>3. phase = "tearingDown" /\ loopIdx \in Nat
  BY DEF TypeOK, FinishTeardown
<1>4. \A t \in TargetIds : ~Attached(t)
  BY <1>2, <1>3 DEF ViewInv
<1>5. obsProcs = {}
  BY <1>4 DEF ViewInv
<1>6. obsTargets = {}
  BY <1>2, <1>3 DEF ViewInv, TargetIds
<1>7. QED
  BY <1>1, <1>5, <1>6 DEF obsVars, FinishTeardown, ViewInv, NotificationsWellOrdered

\* DidDisconnect and the end of its loop move between phases in which the
\* observers know every target: the view does not depend on loopIdx there.
LEMMA DisconnectPhaseViewInv ==
  ViewInv /\ (DidDisconnect \/ FinishDisconnect) => ViewInv'
<1> SUFFICES ASSUME ViewInv, DidDisconnect \/ FinishDisconnect PROVE ViewInv'
  OBVIOUS
<1>1. /\ phase # "tearingDown" /\ phase' # "tearingDown"
      /\ targets' = targets /\ obsVars' = obsVars
  BY DEF DidDisconnect, FinishDisconnect, Running
<1>2. QED
  BY <1>1 DEF obsVars, ViewInv, NotificationsWellOrdered, TargetIds, Attached

\* Every step of the session keeps ViewInv, given IInv (ProcessImplFromKoid
\* needs the koids to be unique).
LEMMA NextViewInv == IInv /\ ViewInv /\ [Next]_vars => ViewInv'
<1> SUFFICES ASSUME IInv, ViewInv, [Next]_vars PROVE ViewInv'
  OBVIOUS
<1>1. TypeOK
  BY DEF IInv
<1>2. CASE CreateNewTarget
  BY <1>1, <1>2, CreateNewTargetViewInv
<1>3. CASE \/ CreateNewJobContext \/ CreateNewBreakpoint
           \/ CreateNewInternalBreakpoint \/ DidConnect \/ LoadSymbols
           \/ Destroyed \/ UNCHANGED vars
  BY <1>3, QuietViewInv
  DEF CreateNewJobContext, CreateNewBreakpoint, CreateNewInternalBreakpoint,
      DidConnect, LoadSymbols, Destroyed, vars, ViewVars, obsVars
<1>4. ASSUME NEW id \in DOMAIN breakpoints, DeleteBreakpoint(id) PROVE ViewInv'
  BY <1>4, QuietViewInv DEF DeleteBreakpoint, ViewVars
<1>5. ASSUME NEW k \in Koids, RemoteStart(k) \/ RemoteExit(k) PROVE ViewInv'
  BY <1>5, QuietViewInv DEF RemoteStart, RemoteExit, ViewVars, obsVars
<1>6. ASSUME NEW k \in Koids, OnProcessExiting(k) PROVE ViewInv'
  BY <1>6, OnProcessExitingViewInv
<1>7. ASSUME NEW i \in TargetIds, NEW k \in Koids, Attach(i, k) PROVE ViewInv'
  BY <1>1, <1>7, AttachViewInv
<1>8. ASSUME NEW i \in TargetIds, Detach(i) PROVE ViewInv'
  BY <1>1, <1>8, DetachViewInv
<1>9. CASE DidDisconnect \/ FinishDisconnect
  BY <1>9, DisconnectPhaseViewInv
<1>10. CASE DisconnectTarget
  BY <1>1, <1>10, DisconnectTargetViewInv
<1>11. CASE StartTeardown
  BY <1>1, <1>11, StartTeardownViewInv
<1>12. CASE TeardownTarget
  BY <1>1, <1>12, TeardownTargetViewInv
<1>13. CASE FinishTeardown
  BY <1>1, <1>13, FinishTeardownViewInv
<1>14. QED
  BY <1>2, <1>3, <1>4, <1>5, <1>6, <1>7, <1>8, <1>9, <1>10, <1>11, <1>12,
     <1>13 DEF Next

\* In every reachable state, in every phase (DidDisconnect's loop and the
\* destructor's included), the observers know exactly the Processes the
\* targets hold and every target the destructor has not yet destroyed, and
\* no notification has reached them out of order.
THEOREM ViewInvHolds == Spec => []ViewInv
<1>1. Init => IInv /\ ViewInv
  BY InitIInv, InitViewInv
<1>2. IInv /\ ViewInv /\ [Next]_vars => IInv' /\ ViewInv'
  BY NextIInv, NextViewInv
<1>3. QED
  BY <1>1, <1>2, PTL DEF Spec

\* No observer is ever told of a Process of a target it does not know, of
\* a second Process for a target, of the end of a Process it never heard
\* of, or (in ~SystemImpl) of a target's destruction before its Process's.
THEOREM NotificationsWellOrderedHolds == Spec => []NotificationsWellOrdered
<1>1. ViewInv => NotificationsWellOrdered
  BY DEF ViewInv
<1>2. QED
  BY <1>1, ViewInvHolds, PTL

=============================================================================
