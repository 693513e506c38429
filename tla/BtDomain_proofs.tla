---------------------------- MODULE BtDomain_proofs ----------------------------
(***************************************************************************)
(* Proofs about the Bluetooth data Domain, for every set of handles and    *)
(* PSMs and every event bound.                                             *)
(*                                                                         *)
(* ChannelsOnRegisteredLinks is inductive by itself: every step that adds  *)
(* a channel adds it on a link that is registered after the step, and      *)
(* every step that drops a link drops its channels.  NoUseAfterFree needs  *)
(* three more facts: every queued task holds a reference, a freed Domain   *)
(* has no caller reference (so nothing can be posted to it), and the       *)
(* queue is a sequence of tasks.                                           *)
(***************************************************************************)
EXTENDS BtDomain, FiniteSetTheorems, TLAPS

TaskT == [op : Ops, h : Handles \cup {NoHandle}, psm : PSMs \cup {NoPSM},
          ref : {TRUE}]

\* The strengthening of NoUseAfterFree.
RefInv ==
  /\ queue \in Seq(TaskT)
  /\ callerRef \in BOOLEAN
  /\ added \subseteq Handles
  /\ freed => ~callerRef
  /\ NoUseAfterFree

-----------------------------------------------------------------------------
(* The reference count                                                     *)

\* A reference count of zero over tasks that all hold a reference means
\* that neither the caller nor any task holds one.
LEMMA RefCountZero ==
  ASSUME NEW q \in Seq(TaskT), NEW b \in BOOLEAN, RefCount(b, q) = 0
  PROVE  q = <<>> /\ b = FALSE
<1>1. {i \in 1..Len(q) : q[i].ref} = 1..Len(q)
  <2>1. \A i \in 1..Len(q) : q[i] \in TaskT
    OBVIOUS
  <2>2. \A i \in 1..Len(q) : q[i].ref = TRUE
    BY <2>1, Zenon DEF TaskT
  <2>. QED
    BY <2>2
<1>2. Cardinality(1..Len(q)) = Len(q)
  <2>1. Len(q) \in Nat
    OBVIOUS
  <2>2. Cardinality(1..Len(q)) = IF 1 > Len(q) THEN 0 ELSE Len(q) - 1 + 1
    BY <2>1, FS_Interval
  <2>. QED
    BY <2>1, <2>2
<1>3. (IF b THEN 1 ELSE 0) + Len(q) = 0
  BY <1>1, <1>2 DEF RefCount
<1>. QED
  BY <1>3

\* Posting a task keeps the queue a sequence of tasks that hold a reference.
LEMMA PostKeepsTasks ==
  ASSUME NEW op \in Ops, NEW h \in Handles \cup {NoHandle},
         NEW psm \in PSMs \cup {NoPSM}, queue \in Seq(TaskT), Post(op, h, psm)
  PROVE  queue' \in Seq(TaskT)
<1>1. Task(op, h, psm) \in TaskT
  BY DEF Task, TaskT
<1>. QED
  BY <1>1 DEF Post

\* A caller operation keeps RefInv: it needs the caller's reference, which
\* a freed Domain no longer has.
LEMMA CallerOpsRefInv ==
  ASSUME RefInv, CallerOps
  PROVE  RefInv'
<1>1. ~freed /\ freed' = freed /\ callerRef' = callerRef
  BY DEF CallerOps, RefInv
<1>2. queue' \in Seq(TaskT)
  <2>0. queue \in Seq(TaskT) /\ added \subseteq Handles
    BY DEF RefInv
  <2>1. \/ Post("init", NoHandle, NoPSM)
        \/ Post("shutdown", NoHandle, NoPSM)
        \/ \E h \in Handles, op \in {"addACL", "addLE"} : Post(op, h, NoPSM)
        \/ \E h \in added : Post("remove", h, NoPSM)
        \/ \E h \in Handles, psm \in PSMs : Post("open", h, psm)
        \/ \E psm \in PSMs, op \in {"register", "unregister"} : Post(op, NoHandle, psm)
    BY Zenon DEF CallerOps
  <2>. QED
    BY <2>0, <2>1, PostKeepsTasks DEF Ops
<1>3. added' \subseteq Handles
  BY DEF CallerOps, RefInv
<1>. QED
  BY <1>1, <1>2, <1>3 DEF RefInv, NoUseAfterFree

\* Dropping the caller's reference frees the Domain only when no task
\* holds one.
LEMMA DropRefRefInv ==
  ASSUME RefInv, DropRef
  PROVE  RefInv'
<1>1. freed' => queue = <<>>
  BY RefCountZero DEF DropRef, RefInv
<1>. QED
  BY <1>1 DEF DropRef, RefInv, NoUseAfterFree

\* The data thread releases the reference of the task it ran; the Domain
\* is freed only when neither the caller nor another task holds one.
LEMMA RunTaskRefInv ==
  ASSUME RefInv, RunTask
  PROVE  RefInv'
<1>1. queue # <<>> /\ queue' = Tail(queue) /\ callerRef' = callerRef
      /\ added' = added
  BY DEF RunTask
<1>2. Tail(queue) \in Seq(TaskT)
  BY <1>1 DEF RefInv
<1>3. freed' = (RefCount(callerRef, Tail(queue)) = 0)
  BY DEF RunTask, ReleaseTaskRef
<1>4. freed' => Tail(queue) = <<>> /\ callerRef = FALSE
  BY <1>2, <1>3, RefCountZero DEF RefInv
<1>. QED
  BY <1>1, <1>2, <1>4 DEF RefInv, NoUseAfterFree

\* RefInv holds in every reachable state.
LEMMA RefInvHolds == Spec => []RefInv
<1>1. Init => RefInv
  BY DEF Init, RefInv, NoUseAfterFree
<1>2. RefInv /\ [Next]_vars => RefInv'
  <2> SUFFICES ASSUME RefInv, [Next]_vars PROVE RefInv'
    OBVIOUS
  <2>1. CASE CallerOps
    BY <2>1, CallerOpsRefInv
  <2>2. CASE DropRef
    BY <2>2, DropRefRefInv
  <2>3. CASE RunTask
    BY <2>3, RunTaskRefInv
  <2>4. CASE \E h \in Handles, psm \in PSMs : InboundRequest(h, psm)
    BY <2>4 DEF InboundRequest, RefInv, NoUseAfterFree
  <2>5. CASE \E h \in Handles : LinkError(h)
    BY <2>5 DEF LinkError, RefInv, NoUseAfterFree
  <2>6. CASE RunCallback
    BY <2>6 DEF RunCallback, RefInv, NoUseAfterFree
  <2>7. CASE UNCHANGED vars
    BY <2>7 DEF vars, RefInv, NoUseAfterFree
  <2>. QED
    BY <2>1, <2>2, <2>3, <2>4, <2>5, <2>6, <2>7 DEF Next
<1>. QED
  BY <1>1, <1>2, PTL DEF Spec

\* The caller may drop its reference right after ShutDown: for every set of
\* handles and PSMs and every event bound, no task is left in the data
\* thread's queue once the Domain's reference count has reached zero.
THEOREM NoUseAfterFreeHolds == Spec => []NoUseAfterFree
<1>1. RefInv => NoUseAfterFree
  BY DEF RefInv
<1>. QED
  BY <1>1, RefInvHolds, PTL

-----------------------------------------------------------------------------
(* ChannelsOnRegisteredLinks                                               *)

\* Each task the data thread runs keeps every channel on a registered link.
LEMMA RunTaskChannels ==
  ASSUME ChannelsOnRegisteredLinks, RunTask
  PROVE  ChannelsOnRegisteredLinks'
<1> DEFINE t == Head(queue)
<1>1. CASE ~Effective(t)
  BY <1>1 DEF RunTask, ChannelsOnRegisteredLinks
<1>2. CASE Effective(t) /\ t.op = "init"
  BY <1>2 DEF RunTask, DoInitialize, ChannelsOnRegisteredLinks
<1>3. CASE Effective(t) /\ t.op = "shutdown"
  BY <1>3 DEF RunTask, DoShutDown, ChannelsOnRegisteredLinks
<1>4. CASE Effective(t) /\ t.op \in {"addACL", "addLE"}
  <2>1. DoAddConnection(t)
    BY <1>4 DEF RunTask
  <2>. QED
    BY <2>1 DEF DoAddConnection, ChannelsOnRegisteredLinks
<1>5. CASE Effective(t) /\ t.op = "remove"
  <2>1. DoRemoveConnection(t)
    BY <1>5 DEF RunTask
  <2>. QED
    BY <2>1 DEF DoRemoveConnection, ChannelsOn, ChannelsOnRegisteredLinks
<1>6. CASE Effective(t) /\ t.op = "open"
  <2>1. DoOpenChannel(t)
    BY <1>6 DEF RunTask
  <2>. QED
    BY <2>1 DEF DoOpenChannel, ChannelsOnRegisteredLinks
<1>7. CASE Effective(t) /\ t.op \notin {"init", "shutdown", "addACL", "addLE",
                                         "remove", "open"}
  <2>1. DoService(t)
    BY <1>7 DEF RunTask
  <2>. QED
    BY <2>1 DEF DoService, ChannelsOnRegisteredLinks
<1>. QED
  BY <1>1, <1>2, <1>3, <1>4, <1>5, <1>6, <1>7

\* RemoveConnection closes the link's channels and ShutDown closes them
\* all: for every set of handles and PSMs, no channel outlives its link.
THEOREM ChannelsOnRegisteredLinksHolds == Spec => []ChannelsOnRegisteredLinks
<1>1. Init => ChannelsOnRegisteredLinks
  BY DEF Init, ChannelsOnRegisteredLinks
<1>2. ChannelsOnRegisteredLinks /\ [Next]_vars => ChannelsOnRegisteredLinks'
  <2> SUFFICES ASSUME ChannelsOnRegisteredLinks, [Next]_vars
               PROVE  ChannelsOnRegisteredLinks'
    OBVIOUS
  <2>1. CASE CallerOps
    BY <2>1 DEF CallerOps, ChannelsOnRegisteredLinks
  <2>2. CASE DropRef
    BY <2>2 DEF DropRef, ChannelsOnRegisteredLinks
  <2>3. CASE RunTask
    BY <2>3, RunTaskChannels
  <2>4. CASE \E h \in Handles, psm \in PSMs : InboundRequest(h, psm)
    BY <2>4 DEF InboundRequest, ChannelsOnRegisteredLinks
  <2>5. CASE \E h \in Handles : LinkError(h)
    BY <2>5 DEF LinkError, ChannelsOnRegisteredLinks
  <2>6. CASE RunCallback
    BY <2>6 DEF RunCallback, ChannelsOnRegisteredLinks
  <2>7. CASE UNCHANGED vars
    BY <2>7 DEF vars, ChannelsOnRegisteredLinks
  <2>. QED
    BY <2>1, <2>2, <2>3, <2>4, <2>5, <2>6, <2>7 DEF Next
<1>. QED
  BY <1>1, <1>2, PTL DEF Spec

-----------------------------------------------------------------------------
(* TypeOK                                                                  *)

\* The tasks the queue may hold.
QTask == [op : Ops, h : Handles \cup {NoHandle}, psm : PSMs \cup {NoPSM},
          ref : BOOLEAN]

\* A posted task carries the arguments its operation uses: a link handle
\* for the link and channel operations, a PSM for the channel and service
\* operations.
TaskOK(t) ==
  /\ t.op \in {"addACL", "addLE", "remove", "open"} => t.h \in Handles
  /\ t.op \in {"open", "register", "unregister"} => t.psm \in PSMs

\* The strengthening of TypeOK: every task in the queue is well formed.
TyInv == TypeOK /\ \A i \in 1..Len(queue) : TaskOK(queue[i])

\* Appending a well-formed task keeps the queue a sequence of well-formed
\* tasks.
LEMMA AppendTasks ==
  ASSUME NEW q \in Seq(QTask), \A i \in 1..Len(q) : TaskOK(q[i]),
         NEW t \in QTask, TaskOK(t)
  PROVE  /\ Append(q, t) \in Seq(QTask)
         /\ \A i \in 1..Len(Append(q, t)) : TaskOK(Append(q, t)[i])
<1>1. Append(q, t) \in Seq(QTask) /\ Len(Append(q, t)) = Len(q) + 1
  OBVIOUS
<1>2. \A i \in 1..Len(q) + 1 : Append(q, t)[i] = IF i = Len(q) + 1 THEN t ELSE q[i]
  OBVIOUS
<1> QED
  BY <1>1, <1>2

\* Taking the oldest task off a non-empty queue of well-formed tasks: the
\* task and the rest of the queue are well formed.
LEMMA TailTasks ==
  ASSUME NEW q \in Seq(QTask), q # <<>>, \A i \in 1..Len(q) : TaskOK(q[i])
  PROVE  /\ Head(q) \in QTask /\ TaskOK(Head(q))
         /\ Tail(q) \in Seq(QTask)
         /\ \A i \in 1..Len(Tail(q)) : TaskOK(Tail(q)[i])
<1>1. Len(q) >= 1 /\ Head(q) = q[1]
  OBVIOUS
<1>2. Len(Tail(q)) = Len(q) - 1 /\ \A i \in 1..Len(Tail(q)) : Tail(q)[i] = q[i + 1]
  BY <1>1
<1> QED
  BY <1>1, <1>2

\* A caller operation posts one well-formed task: the handle of an add is
\* a handle, that of a remove one the caller added, and a PSM is a PSM.
LEMMA CallerOpsTyInv ==
  ASSUME TyInv, CallerOps
  PROVE  TyInv'
<1>1. /\ queue \in Seq(QTask) /\ \A i \in 1..Len(queue) : TaskOK(queue[i])
      /\ added \subseteq Handles /\ events \in Nat /\ MaxEvents \in Nat
  BY DomainAssumption DEF TyInv, TypeOK, QTask
<1> DEFINE QOK == /\ queue' \in Seq(QTask)
                  /\ \A i \in 1..Len(queue') : TaskOK(queue'[i])
                  /\ added' \subseteq Handles
<1>2. ASSUME NEW op \in Ops, NEW h \in Handles \cup {NoHandle},
             NEW psm \in PSMs \cup {NoPSM}, TaskOK(Task(op, h, psm)),
             Post(op, h, psm), added' \subseteq Handles
      PROVE  QOK
  <2>1. Task(op, h, psm) \in QTask
    BY DEF Task, QTask
  <2> QED
    BY <1>1, <1>2, <2>1, AppendTasks DEF Post
<1>3. QOK
  <2>1. CASE Post("init", NoHandle, NoPSM) /\ UNCHANGED added
    BY <1>1, <2>1, <1>2 DEF TaskOK, Task, Ops
  <2>2. CASE Post("shutdown", NoHandle, NoPSM) /\ UNCHANGED added
    BY <1>1, <2>2, <1>2 DEF TaskOK, Task, Ops
  <2>3. CASE \E h \in Handles \ added, op \in {"addACL", "addLE"} :
               Post(op, h, NoPSM) /\ added' = added \cup {h}
    BY <1>1, <2>3, <1>2 DEF TaskOK, Task, Ops
  <2>4. CASE \E h \in added : Post("remove", h, NoPSM) /\ added' = added \ {h}
    BY <1>1, <2>4, <1>2 DEF TaskOK, Task, Ops
  <2>5. CASE \E h \in Handles, psm \in PSMs :
               Post("open", h, psm) /\ UNCHANGED added
    BY <1>1, <2>5, <1>2 DEF TaskOK, Task, Ops
  <2>6. CASE \E psm \in PSMs, op \in {"register", "unregister"} :
               Post(op, NoHandle, psm) /\ UNCHANGED added
    BY <1>1, <2>6, <1>2 DEF TaskOK, Task, Ops
  <2> QED
    BY <2>1, <2>2, <2>3, <2>4, <2>5, <2>6 DEF CallerOps
<1>4. events' \in 0..MaxEvents
  BY <1>1 DEF CallerOps
<1> QED
  BY <1>3, <1>4 DEF CallerOps, TyInv, TypeOK, QTask

\* The callbacks the caller's dispatcher may be handed.
CbT == [cb : {"fixed", "channel", "nullptr", "inbound", "linkError"}, h : Handles]

\* Posting a callback about a handle keeps cbs a sequence of callbacks.
LEMMA AppendCb ==
  ASSUME NEW q \in Seq(CbT), NEW c \in {"fixed", "channel", "nullptr", "inbound", "linkError"},
         NEW h \in Handles
  PROVE  Append(q, [cb |-> c, h |-> h]) \in Seq(CbT)
<1>1. [cb |-> c, h |-> h] \in CbT
  BY DEF CbT
<1> QED
  BY <1>1

\* The typed fields of the Domain's state that the data thread's tasks and
\* the remote peer change.
DomainTyped ==
  /\ dstate \in {"uninit", "init", "shutdown"}
  /\ DOMAIN links \subseteq Handles
  /\ \A h \in DOMAIN links : links[h] \in {"acl", "le"}
  /\ services \subseteq PSMs
  /\ channels \subseteq Channels
  /\ cbs \in Seq([cb : {"fixed", "channel", "nullptr", "inbound", "linkError"},
                  h : Handles])

\* Each task the data thread runs keeps the Domain's state typed: every
\* link, channel, service and callback it records is about the handle and
\* PSM the task carries.
LEMMA RunTaskTyped ==
  ASSUME DomainTyped, RunTask, Head(queue) \in QTask, TaskOK(Head(queue))
  PROVE  DomainTyped'
<1> DEFINE t == Head(queue)
<1>1. CASE ~Effective(t)
  BY <1>1 DEF RunTask, DomainTyped
<1>2. CASE Effective(t) /\ t.op = "init"
  BY <1>2 DEF RunTask, DoInitialize, DomainTyped
<1>3. CASE Effective(t) /\ t.op = "shutdown"
  BY <1>3 DEF RunTask, DoShutDown, DomainTyped
<1>4. CASE Effective(t) /\ t.op \in {"addACL", "addLE"}
  <2>1. DoAddConnection(t) /\ UNCHANGED dstate
    BY <1>4 DEF RunTask
  <2>2. t.h \in Handles
    BY <1>4 DEF TaskOK
  <2>3. {<<t.h, f>> : f \in FixedChannels} \subseteq Channels
    BY <2>2 DEF Channels
  <2>4. /\ DOMAIN links' \subseteq Handles
        /\ \A h \in DOMAIN links' : links'[h] \in {"acl", "le"}
    BY <2>1, <2>2 DEF DoAddConnection, DomainTyped
  <2>5. CASE t.op = "addLE"
    <3>1. channels' = channels \cup {<<t.h, f>> : f \in FixedChannels}
          /\ cbs' = Append(cbs, [cb |-> "fixed", h |-> t.h])
      BY <2>1, <2>5 DEF DoAddConnection
    <3> QED
      BY <2>1, <2>2, <2>3, <2>4, <3>1 DEF DoAddConnection, DomainTyped
  <2>6. CASE t.op # "addLE"
    <3>1. channels' = channels /\ cbs' = cbs
      BY <2>1, <2>6 DEF DoAddConnection
    <3> QED
      BY <2>1, <2>4, <3>1 DEF DoAddConnection, DomainTyped
  <2> QED
    BY <2>5, <2>6
<1>5. CASE Effective(t) /\ t.op = "remove"
  <2>1. DoRemoveConnection(t) /\ UNCHANGED dstate
    BY <1>5 DEF RunTask
  <2> QED
    BY <2>1 DEF DoRemoveConnection, DomainTyped
<1>6. CASE Effective(t) /\ t.op = "open"
  <2>1. DoOpenChannel(t) /\ UNCHANGED dstate
    BY <1>6 DEF RunTask
  <2>2. t.h \in Handles /\ t.psm \in PSMs
    BY <1>6 DEF TaskOK
  <2>3. <<t.h, t.psm>> \in Channels
    BY <2>2 DEF Channels
  <2>4. UNCHANGED <<dstate, links, services>>
    BY <2>1 DEF DoOpenChannel
  <2>5. channels' \subseteq Channels
    BY <2>1, <2>3 DEF DoOpenChannel, DomainTyped
  <2>6. cbs' \in Seq([cb : {"fixed", "channel", "nullptr", "inbound", "linkError"},
                      h : Handles])
    <3>1. cbs \in Seq(CbT)
      BY DEF DomainTyped, CbT
    <3>2. \/ cbs' = Append(cbs, [cb |-> "channel", h |-> t.h])
          \/ cbs' = Append(cbs, [cb |-> "nullptr", h |-> t.h])
      BY <2>1 DEF DoOpenChannel
    <3>3. cbs' \in Seq(CbT)
      BY <2>2, <3>1, <3>2, AppendCb
    <3> QED
      BY <3>3 DEF CbT
  <2> QED
    BY <2>4, <2>5, <2>6 DEF DomainTyped
<1>7. CASE Effective(t) /\ t.op \notin {"init", "shutdown", "addACL", "addLE",
                                         "remove", "open"}
  <2>1. DoService(t) /\ UNCHANGED dstate
    BY <1>7 DEF RunTask
  <2>2. t.op \in {"register", "unregister"}
    BY <1>7 DEF QTask, Ops
  <2>3. t.psm \in PSMs
    BY <2>2 DEF TaskOK
  <2> QED
    BY <2>1, <2>3 DEF DoService, DomainTyped
<1> QED
  BY <1>1, <1>2, <1>3, <1>4, <1>5, <1>6, <1>7

\* The data thread's step keeps TyInv.
LEMMA RunTaskTyInv ==
  ASSUME TyInv, RunTask
  PROVE  TyInv'
<1>1. /\ queue \in Seq(QTask) /\ queue # <<>>
      /\ \A i \in 1..Len(queue) : TaskOK(queue[i])
  BY DEF TyInv, TypeOK, QTask, RunTask
<1>2. /\ Head(queue) \in QTask /\ TaskOK(Head(queue))
      /\ Tail(queue) \in Seq(QTask)
      /\ \A i \in 1..Len(Tail(queue)) : TaskOK(Tail(queue)[i])
  BY <1>1, TailTasks
<1>3. DomainTyped'
  BY <1>2, RunTaskTyped DEF TyInv, TypeOK, DomainTyped
<1>4. queue' = Tail(queue) /\ freed' \in BOOLEAN
      /\ UNCHANGED <<callerRef, added, events>>
  BY DEF RunTask, ReleaseTaskRef
<1> QED
  BY <1>2, <1>3, <1>4 DEF TyInv, TypeOK, DomainTyped, QTask

\* The remote peer's inbound requests and link errors, the caller's
\* dispatcher and the dropped reference keep TyInv.
LEMMA OtherTyInv ==
  ASSUME TyInv,
         \/ DropRef
         \/ \E h \in Handles, psm \in PSMs : InboundRequest(h, psm)
         \/ \E h \in Handles : LinkError(h)
         \/ RunCallback
  PROVE  TyInv'
<1>1. events \in Nat /\ MaxEvents \in Nat
  BY DomainAssumption DEF TyInv, TypeOK
<1>2. CASE DropRef
  BY <1>2 DEF DropRef, TyInv, TypeOK
<1>3. ASSUME NEW h \in Handles, NEW psm \in PSMs, InboundRequest(h, psm)
      PROVE  TyInv'
  <2>1. <<h, psm>> \in Channels
    BY DEF Channels
  <2>2. channels' \subseteq Channels
        /\ cbs' \in Seq([cb : {"fixed", "channel", "nullptr", "inbound", "linkError"},
                        h : Handles])
    <3>1. cbs \in Seq(CbT) /\ channels \subseteq Channels
      BY DEF TyInv, TypeOK, CbT
    <3>2. \/ channels' = channels \cup {<<h, psm>>} /\ cbs' = Append(cbs, [cb |-> "inbound", h |-> h])
          \/ channels' = channels /\ cbs' = cbs
      BY <1>3 DEF InboundRequest
    <3>3. cbs' \in Seq(CbT) /\ channels' \subseteq Channels
      BY <2>1, <3>1, <3>2, AppendCb
    <3> QED
      BY <3>3 DEF CbT
  <2>3. events' \in 0..MaxEvents
    BY <1>1, <1>3 DEF InboundRequest
  <2> QED
    BY <1>3, <2>2, <2>3 DEF InboundRequest, TyInv, TypeOK
<1>4. ASSUME NEW h \in Handles, LinkError(h) PROVE TyInv'
  BY <1>1, <1>4 DEF LinkError, TyInv, TypeOK
<1>5. CASE RunCallback
  BY <1>5 DEF RunCallback, TyInv, TypeOK
<1> QED
  BY <1>2, <1>3, <1>4, <1>5

\* Whatever the interleaving of the caller, the data thread, the remote
\* peer and the callbacks, every queued task carries a handle and a PSM
\* where its operation needs them, L2CAP only ever holds links on handles,
\* channels on a handle with a PSM or fixed channel, and services on PSMs,
\* and every callback is about a handle.
THEOREM TypeCorrect == Spec => []TypeOK
<1>1. Init => TyInv
  <2> SUFFICES ASSUME Init PROVE TyInv
    OBVIOUS
  <2>1. queue \in Seq(QTask) /\ \A i \in 1..Len(queue) : TaskOK(queue[i])
    BY DEF Init
  <2>2. DOMAIN links \subseteq Handles /\ \A h \in DOMAIN links : links[h] \in {"acl", "le"}
    BY DEF Init
  <2>3. events \in 0..MaxEvents
    BY DomainAssumption DEF Init
  <2>4. /\ dstate \in {"uninit", "init", "shutdown"}
        /\ services \subseteq PSMs /\ channels \subseteq Channels
        /\ callerRef \in BOOLEAN /\ added \subseteq Handles /\ freed \in BOOLEAN
    BY DEF Init
  <2>5. cbs \in Seq([cb : {"fixed", "channel", "nullptr", "inbound", "linkError"},
                     h : Handles])
    BY DEF Init
  <2> QED
    BY <2>1, <2>2, <2>3, <2>4, <2>5 DEF TyInv, TypeOK, QTask
<1>2. TyInv /\ [Next]_vars => TyInv'
  <2> SUFFICES ASSUME TyInv, [Next]_vars PROVE TyInv'
    OBVIOUS
  <2>1. CASE CallerOps
    BY <2>1, CallerOpsTyInv
  <2>2. CASE RunTask
    BY <2>2, RunTaskTyInv
  <2>3. CASE UNCHANGED vars
    BY <2>3 DEF vars, TyInv, TypeOK
  <2> QED
    BY <2>1, <2>2, <2>3, OtherTyInv DEF Next
<1>3. TyInv => TypeOK
  BY DEF TyInv
<1> QED
  BY <1>1, <1>2, <1>3, PTL DEF Spec

=============================================================================
