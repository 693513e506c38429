------------------------------- MODULE BtDomain -------------------------------
(***************************************************************************)
(* The Bluetooth data domain (src/drivers/bluetooth/lib/data/domain.h):    *)
(* the data plane of the host subsystem, with a thread of its own.  Its    *)
(* callers post every operation as a message to the domain's task runner;  *)
(* the data thread runs them in order against L2CAP, and posts its         *)
(* callbacks onto the caller's dispatcher.  Only the interface is under    *)
(* src/; its comments are the contract modelled here.                      *)
(*                                                                         *)
(* Two threads: the caller (its operations post a task; its dispatcher     *)
(* runs the callbacks) and the data thread (it runs the tasks).  The       *)
(* remote peer opens channels and links fail.  The Domain is reference     *)
(* counted: the caller holds one reference, and so does every task in      *)
(* flight, so that the caller may drop its reference right after ShutDown. *)
(***************************************************************************)
EXTENDS Naturals, Sequences, FiniteSets

CONSTANTS
  Handles,    \* connection handles of logical links
  PSMs,       \* Protocol/Service Multiplexing codes
  MaxEvents   \* bound on the operations posted and the remote events

ASSUME DomainAssumption == MaxEvents \in Nat

VARIABLES
  queue,      \* the tasks posted to the data task runner, in order
  dstate,     \* the data thread's view: "uninit", "init" or "shutdown"
  links,      \* logical links registered with L2CAP: handle -> "acl"/"le"
  services,   \* PSMs with a registered inbound-channel handler
  channels,   \* open channels, as <<handle, psm or fixed channel>>
  cbs,        \* callbacks posted to the caller's dispatcher, in order
  callerRef,  \* the caller still holds its reference
  added,      \* handles the caller has added and not removed
  freed,      \* the Domain's reference count reached zero
  events      \* operations posted and remote events so far

vars == <<queue, dstate, links, services, channels, cbs, callerRef, added,
          freed, events>>

FixedChannels == {"ATT", "SMP"}

Ops == {"init", "shutdown", "addACL", "addLE", "remove", "open",
        "register", "unregister"}

NoHandle == "none"
NoPSM == "none"

Task(op, h, psm) == [op |-> op, h |-> h, psm |-> psm, ref |-> TRUE]

\* The Domain's reference count, given the caller's reference and a queue.
RefCount(hasRef, q) ==
  (IF hasRef THEN 1 ELSE 0) + Cardinality({i \in 1..Len(q) : q[i].ref})

-----------------------------------------------------------------------------

\* Create: an uninitialized Domain, held by its caller.
Init ==
  /\ queue = <<>>
  /\ dstate = "uninit"
  /\ links = [h \in {} |-> "acl"]
  /\ services = {}
  /\ channels = {}
  /\ cbs = <<>>
  /\ callerRef = TRUE
  /\ added = {}
  /\ freed = FALSE
  /\ events = 0

\* Mutant: a task captures a raw pointer to the Domain, not a reference.
PostUnretained(op, h, psm) ==
  /\ queue' = Append(queue, [Task(op, h, psm) EXCEPT !.ref = FALSE])

\* A caller operation sends its message to the data task runner; the task
\* holds a reference to the Domain.
Post(op, h, psm) ==
  /\ queue' = Append(queue, Task(op, h, psm))

\* Every operation of the interface is a call on the caller's thread that
\* posts one task; only the caller's own view of its links changes.
CallerOps ==
  /\ callerRef
  /\ events < MaxEvents
  /\ events' = events + 1
  /\ \/ Post("init", NoHandle, NoPSM) /\ UNCHANGED added
     \/ Post("shutdown", NoHandle, NoPSM) /\ UNCHANGED added
     \/ \E h \in Handles \ added, op \in {"addACL", "addLE"} :
          Post(op, h, NoPSM) /\ added' = added \cup {h}
     \/ \E h \in added :
          Post("remove", h, NoPSM) /\ added' = added \ {h}
     \/ \E h \in Handles, psm \in PSMs :
          Post("open", h, psm) /\ UNCHANGED added
     \/ \E psm \in PSMs, op \in {"register", "unregister"} :
          Post(op, NoHandle, psm) /\ UNCHANGED added
  /\ UNCHANGED <<dstate, links, services, channels, cbs, callerRef, freed>>

\* The caller drops its reference.  The header promises this is safe once
\* ShutDown was called; the model lets the caller drop it at any time, a
\* superset of the callers the header allows.
DropRef ==
  /\ callerRef
  /\ callerRef' = FALSE
  /\ freed' = (RefCount(FALSE, queue) = 0)
  /\ UNCHANGED <<queue, dstate, links, services, channels, cbs, added, events>>

-----------------------------------------------------------------------------
(* The tasks, run by the data thread                                      *)

\* The channels on link h.
ChannelsOn(h) == {c \in channels : c[1] = h}

\* Initialize: an uninitialized Domain starts L2CAP.
DoInitialize ==
  /\ dstate' = IF dstate = "uninit" THEN "init" ELSE dstate
  /\ UNCHANGED <<links, services, channels, cbs>>

\* ShutDown: L2CAP is torn down with its links, channels and services.
DoShutDown ==
  /\ dstate' = "shutdown"
  /\ links' = [h \in {} |-> "acl"]
  /\ services' = {}
  /\ channels' = {}
  /\ UNCHANGED cbs

\* AddACLConnection / AddLEConnection: register the link.  An LE link's
\* ATT and SMP fixed channels are opened and handed to channel_callback.
DoAddConnection(t) ==
  /\ links' = [h \in DOMAIN links \cup {t.h} |->
                 IF h = t.h THEN (IF t.op = "addLE" THEN "le" ELSE "acl")
                 ELSE links[h]]
  /\ IF t.op = "addLE"
       THEN /\ channels' = channels \cup {<<t.h, f>> : f \in FixedChannels}
            /\ cbs' = Append(cbs, [cb |-> "fixed", h |-> t.h])
       ELSE UNCHANGED <<channels, cbs>>
  /\ UNCHANGED services

\* Mutant: the link is dropped but its channels stay open.
DoRemoveConnectionKeepsChannels(t) ==
  /\ links' = [h \in DOMAIN links \ {t.h} |-> links[h]]
  /\ UNCHANGED <<channels, services, cbs>>

\* RemoveConnection: drop the link and close all of its channels.
DoRemoveConnection(t) ==
  /\ links' = [h \in DOMAIN links \ {t.h} |-> links[h]]
  /\ channels' = channels \ ChannelsOn(t.h)
  /\ UNCHANGED <<services, cbs>>

\* OpenL2capChannel: on a registered link the peer may accept (cb gets the
\* channel) or refuse (cb gets nullptr); on an unknown link cb gets nullptr.
DoOpenChannel(t) ==
  /\ \/ /\ t.h \in DOMAIN links
        /\ channels' = channels \cup {<<t.h, t.psm>>}
        /\ cbs' = Append(cbs, [cb |-> "channel", h |-> t.h])
     \/ /\ channels' = channels
        /\ cbs' = Append(cbs, [cb |-> "nullptr", h |-> t.h])
  /\ UNCHANGED <<links, services>>

\* RegisterService: a PSM that already has a handler keeps it.
\* UnregisterService: new inbound requests are refused; open channels stay.
DoService(t) ==
  /\ services' = IF t.op = "register" THEN services \cup {t.psm}
                                      ELSE services \ {t.psm}
  /\ UNCHANGED <<links, channels, cbs>>

\* Whether task t acts: Initialize and ShutDown always do, every other
\* operation only on an initialized Domain.
Effective(t) == t.op \in {"init", "shutdown"} \/ dstate = "init"

\* Mutant: the reference of the task that ran is still counted, so the
\* last task never brings the count to zero.
ReleaseTaskRefLate == RefCount(callerRef, queue) = 0

\* When a task has run, its closure, and the reference it holds, is
\* destroyed: the Domain is freed if no reference is left.
ReleaseTaskRef == RefCount(callerRef, Tail(queue)) = 0

\* The data thread runs the oldest task.  Lifecycle messages always act;
\* every other operation has no effect on an uninitialized or shut-down
\* Domain.  The task's reference is released when it is done, and the
\* Domain is freed if that was the last one.
RunTask ==
  /\ queue # <<>>
  /\ LET t == Head(queue)
     IN  /\ IF ~Effective(t)
              THEN UNCHANGED <<dstate, links, services, channels, cbs>>
              ELSE CASE t.op = "init" -> DoInitialize
                     [] t.op = "shutdown" -> DoShutDown
                     [] t.op \in {"addACL", "addLE"} -> DoAddConnection(t) /\ UNCHANGED dstate
                     [] t.op = "remove" -> DoRemoveConnection(t) /\ UNCHANGED dstate
                     [] t.op = "open" -> DoOpenChannel(t) /\ UNCHANGED dstate
                     [] OTHER -> DoService(t) /\ UNCHANGED dstate
         /\ queue' = Tail(queue)
         /\ freed' = ReleaseTaskRef
  /\ UNCHANGED <<callerRef, added, events>>

-----------------------------------------------------------------------------
(* The remote peer                                                         *)

\* An inbound dynamic-channel request on a link: with a handler for its
\* PSM the channel is opened and handed to the handler's callback, without
\* one it is rejected.
InboundRequest(h, psm) ==
  /\ dstate = "init" /\ h \in DOMAIN links
  /\ events < MaxEvents
  /\ events' = events + 1
  /\ IF psm \in services
       THEN /\ channels' = channels \cup {<<h, psm>>}
            /\ cbs' = Append(cbs, [cb |-> "inbound", h |-> h])
       ELSE UNCHANGED <<channels, cbs>>
  /\ UNCHANGED <<queue, dstate, links, services, callerRef, added, freed>>

\* A channel signals a link error: link_error_callback is posted.
LinkError(h) ==
  /\ ChannelsOn(h) # {}
  /\ events < MaxEvents
  /\ events' = events + 1
  /\ cbs' = Append(cbs, [cb |-> "linkError", h |-> h])
  /\ UNCHANGED <<queue, dstate, links, services, channels, callerRef, added, freed>>

\* The caller's dispatcher runs the oldest callback.
RunCallback ==
  /\ cbs # <<>>
  /\ cbs' = Tail(cbs)
  /\ UNCHANGED <<queue, dstate, links, services, channels, callerRef, added,
                 freed, events>>

Next ==
  \/ CallerOps
  \/ DropRef
  \/ RunTask
  \/ \E h \in Handles, psm \in PSMs : InboundRequest(h, psm)
  \/ \E h \in Handles : LinkError(h)
  \/ RunCallback

Spec == Init /\ [][Next]_vars

\* The data thread's dispatcher runs every task posted to it, and the
\* caller's dispatcher every callback.
Fairness == WF_vars(RunTask) /\ WF_vars(RunCallback)

FairSpec == Spec /\ Fairness

-----------------------------------------------------------------------------
(* Properties                                                              *)

Channels == (Handles \X (PSMs \cup FixedChannels))

TypeOK ==
  /\ queue \in Seq([op : Ops, h : Handles \cup {NoHandle},
                    psm : PSMs \cup {NoPSM}, ref : BOOLEAN])
  /\ dstate \in {"uninit", "init", "shutdown"}
  /\ DOMAIN links \subseteq Handles
  /\ \A h \in DOMAIN links : links[h] \in {"acl", "le"}
  /\ services \subseteq PSMs
  /\ channels \subseteq Channels
  /\ cbs \in Seq([cb : {"fixed", "channel", "nullptr", "inbound", "linkError"},
                  h : Handles])
  /\ callerRef \in BOOLEAN
  /\ added \subseteq Handles
  /\ freed \in BOOLEAN
  /\ events \in 0..MaxEvents

\* The caller may drop its reference right after ShutDown: no task ever
\* runs on a freed Domain, because every task in flight keeps it alive.
NoUseAfterFree == freed => queue = <<>>

\* RemoveConnection closes all of the link's channels, and ShutDown all
\* channels: whatever the order in which adds, removes, opens, inbound
\* requests and shutdown interleave, every open channel is on a registered
\* link.
ChannelsOnRegisteredLinks == \A c \in channels : c[1] \in DOMAIN links

\* The caller may drop its reference right after ShutDown, with tasks
\* still queued: the Domain is then eventually freed, by the last task to
\* release its reference.
FreedAfterRelease == ~callerRef ~> freed

=============================================================================
