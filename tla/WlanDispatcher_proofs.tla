------------------------- MODULE WlanDispatcher_proofs -------------------------
(***************************************************************************)
(* Proofs about the WLAN MLME Dispatcher, for every set of txids and every *)
(* call bound: the statistics counters stay balanced, and every reply     *)
(* answers the request being handled.                                      *)
(***************************************************************************)
EXTENDS WlanDispatcher, TLAPS

StatFields == {"in", "out", "drop", "mgmt", "ctrl", "data"}

\* The counters of s are the six fields, each a natural number.
WellFormed(s) ==
  /\ DOMAIN s = StatFields
  /\ s.in \in Nat /\ s.out \in Nat /\ s.drop \in Nat
  /\ s.mgmt \in Nat /\ s.ctrl \in Nat /\ s.data \in Nat

\* The counters of s are balanced.
Balanced(s) ==
  /\ s.in = s.out + s.drop
  /\ s.mgmt + s.ctrl + s.data <= s.out

\* The counters are natural numbers and balanced.
StatsInv == WellFormed(stats) /\ StatsBalanced

\* Counting a packet as passed on (any_packet.in and any_packet.out)
\* keeps a well-formed, balanced set of counters so.
LEMMA PassKeepsBalance ==
  ASSUME NEW q, WellFormed(q), Balanced(q)
  PROVE  /\ WellFormed([q EXCEPT !.in = @ + 1, !.out = @ + 1])
         /\ Balanced([q EXCEPT !.in = @ + 1, !.out = @ + 1])
<1> DEFINE r == [q EXCEPT !.in = @ + 1, !.out = @ + 1]
<1>1. DOMAIN r = StatFields
  BY DEF WellFormed
<1>2. /\ r.in = q.in + 1 /\ r.out = q.out + 1 /\ r.drop = q.drop
      /\ r.mgmt = q.mgmt /\ r.ctrl = q.ctrl /\ r.data = q.data
  BY DEF WellFormed, StatFields
<1> QED
  BY <1>1, <1>2 DEF WellFormed, Balanced

\* Counting a frame of a known type keeps a well-formed, balanced set of
\* counters so, once the packet was counted as passed on.
LEMMA FrameKeepsBalance ==
  ASSUME NEW q, WellFormed(q), Balanced(q), NEW k \in {"mgmt", "ctrl", "data"},
         q.mgmt + q.ctrl + q.data < q.out
  PROVE  WellFormed([q EXCEPT ![k] = @ + 1]) /\ Balanced([q EXCEPT ![k] = @ + 1])
<1> DEFINE r == [q EXCEPT ![k] = @ + 1]
<1>1. DOMAIN r = StatFields
  BY DEF WellFormed
<1>2. r.in = q.in /\ r.out = q.out /\ r.drop = q.drop
  BY DEF WellFormed, StatFields
<1>3. r.mgmt + r.ctrl + r.data = q.mgmt + q.ctrl + q.data + 1
      /\ r.mgmt \in Nat /\ r.ctrl \in Nat /\ r.data \in Nat
  <2>1. CASE k = "mgmt"
    BY <2>1 DEF WellFormed, StatFields
  <2>2. CASE k = "ctrl"
    BY <2>2 DEF WellFormed, StatFields
  <2>3. CASE k = "data"
    BY <2>3 DEF WellFormed, StatFields
  <2> QED
    BY <2>1, <2>2, <2>3
<1> QED
  BY <1>1, <1>2, <1>3 DEF WellFormed, Balanced

\* Counting one packet keeps the counters balanced: in and out grow
\* together, and a frame-type counter grows only along with out.
LEMMA CountPacketInv ==
  ASSUME StatsInv, NEW p \in Packets
  PROVE  WellFormed(CountPacket(p)) /\ Balanced(CountPacket(p))
<1> DEFINE passed == [stats EXCEPT !.in = @ + 1, !.out = @ + 1]
<1>1. WellFormed(stats) /\ Balanced(stats)
  BY DEF StatsInv, StatsBalanced, Balanced
<1>2. WellFormed(passed) /\ Balanced(passed)
  BY <1>1, PassKeepsBalance
<1>3. passed.mgmt + passed.ctrl + passed.data < passed.out
  <2>1. /\ passed.out = stats.out + 1 /\ passed.mgmt = stats.mgmt
        /\ passed.ctrl = stats.ctrl /\ passed.data = stats.data
    BY <1>1 DEF WellFormed, StatFields
  <2> QED
    BY <1>1, <2>1 DEF WellFormed, Balanced
<1>4. CASE TypedFrame(p)
  <2>1. CountPacket(p) = [passed EXCEPT ![p.fc] = @ + 1]
    BY <1>4 DEF CountPacket
  <2>2. p.fc \in {"mgmt", "ctrl", "data"}
    BY <1>4 DEF TypedFrame
  <2>3. /\ WellFormed([passed EXCEPT ![p.fc] = @ + 1])
        /\ Balanced([passed EXCEPT ![p.fc] = @ + 1])
    BY <1>2, <1>3, <2>2, FrameKeepsBalance
  <2> QED
    BY <2>1, <2>3
<1>5. CASE ~TypedFrame(p)
  <2>1. CountPacket(p) = passed
    BY <1>5 DEF CountPacket
  <2> QED
    BY <1>2, <2>1
<1> QED
  BY <1>4, <1>5

-----------------------------------------------------------------------------
(* Replies                                                                 *)

\* The ordinals of the messages the dispatcher sends.
ReplyOrds == {"DeviceQueryConf", "StatsQueryResp"} \cup TwoWay

\* The reply a handler of request p may send: one of the dispatcher's
\* messages, with p's txid exactly when it is a two-way reply.
Answer(p, o) == Reply(o, IF o \in TwoWay THEN p.txid ELSE 0)

\* A step that sends nothing, or one answer to request p.
AtMostOneAnswer(p) ==
  \/ replies' = replies
  \/ \E o \in ReplyOrds : replies' = Append(replies, Answer(p, o))

\* Each arm of HandleSvcPacket sends at most one answer to its request.
LEMMA SvcPacketAnswers ==
  ASSUME NEW p \in Packets, p.peer = "svc", NEW st, HandleSvcPacket(p, st)
  PROVE  AtMostOneAnswer(p)
<1> USE DEF AtMostOneAnswer, Answer, ReplyOrds, TwoWay
<1>1. CASE p.ord = "short"
  BY <1>1 DEF HandleSvcPacket
<1>2. CASE p.ord = "DeviceQueryReq"
  BY <1>2 DEF HandleSvcPacket, HandleDeviceQueryRequest, SendServiceMsg
<1>3. CASE p.ord = "StatsQueryReq"
  BY <1>3 DEF HandleSvcPacket, HandleMlmeStats, SendServiceMsg
<1>4. CASE p.ord = "ListMinstrelPeers"
  BY <1>4 DEF HandleSvcPacket, HandleMinstrelPeerList, SendServiceMsg
<1>5. CASE p.ord = "GetMinstrelStats"
  BY <1>5 DEF HandleSvcPacket, HandleMinstrelTxStats, SendServiceMsg
<1>6. CASE p.ord \in MlmeOrdinals
  BY <1>6 DEF HandleSvcPacket, MlmeOrdinals
<1>7. CASE p.ord \notin MlmeOrdinals \cup {"short", "DeviceQueryReq",
             "StatsQueryReq", "ListMinstrelPeers", "GetMinstrelStats"}
  BY <1>7 DEF HandleSvcPacket, HandleUnknownOrdinal, MlmeOrdinals
<1> QED
  BY <1>1, <1>2, <1>3, <1>4, <1>5, <1>6, <1>7

\* A HandlePacket call sends at most one answer, and only to a service
\* packet.
LEMMA HandlePacketAnswers ==
  ASSUME NEW p \in Packets, HandlePacket(p)
  PROVE  \/ replies' = replies
         \/ p.peer = "svc" /\ AtMostOneAnswer(p)
<1>1. PICK st \in Statuses :
        CASE p.peer = "svc" -> HandleSvcPacket(p, st)
          [] p.peer = "wlan" /\ p.fc = "none" ->
               UNCHANGED <<mlmeGot, replies>> /\ st = "OK"
          [] OTHER ->
               /\ mlmeGot' = Append(mlmeGot, "frame")
               /\ UNCHANGED replies
               /\ st \in {"OK", "ERR"}
  BY DEF HandlePacket
<1>2. CASE p.peer = "svc"
  BY <1>1, <1>2, SvcPacketAnswers
<1>3. CASE p.peer # "svc"
  BY <1>1, <1>3
<1> QED
  BY <1>2, <1>3

\* The step relation of RepliesMatchRequests.
RepliesMatch ==
  \A i \in (Len(replies) + 1)..Len(replies') :
    /\ Len(replies') = Len(replies) + 1
    /\ lastIn'.peer = "svc"
    /\ replies'[i].txid = IF replies'[i].ord \in TwoWay
                            THEN lastIn'.txid ELSE 0

\* Every step of the dispatcher satisfies RepliesMatch, given that replies
\* is a sequence.
LEMMA NextRepliesMatch ==
  ASSUME replies \in Seq([ord : ReplyOrds, txid : Nat]), [Next]_vars
  PROVE  RepliesMatch
<1>1. CASE replies' = replies
  BY <1>1 DEF RepliesMatch
<1>2. CASE \E p \in Packets : HandlePacket(p)
  <2>1. PICK p \in Packets : HandlePacket(p)
    BY <1>2
  <2>2. lastIn' = p
    BY <2>1 DEF HandlePacket
  <2>3. CASE replies' = replies
    BY <2>3 DEF RepliesMatch
  <2>4. CASE replies' # replies
    <3>1. p.peer = "svc" /\ AtMostOneAnswer(p)
      BY <2>1, <2>4, HandlePacketAnswers
    <3>2. PICK o \in ReplyOrds : replies' = Append(replies, Answer(p, o))
      BY <2>4, <3>1 DEF AtMostOneAnswer
    <3>3. /\ Len(replies') = Len(replies) + 1
          /\ replies'[Len(replies) + 1] = Answer(p, o)
      BY <3>2
    <3> QED
      BY <2>2, <3>1, <3>3 DEF RepliesMatch, Answer, Reply
  <2> QED
    BY <2>3, <2>4
<1>3. CASE \E isTimer \in BOOLEAN : HandlePortPacket(isTimer)
  BY <1>3 DEF HandlePortPacket, RepliesMatch
<1>4. CASE \E kind \in {"indication", "scanComplete"} : HwEvent(kind)
  BY <1>4 DEF HwEvent, RepliesMatch
<1>5. CASE ResetStats
  BY <1>5 DEF ResetStats, RepliesMatch
<1>6. CASE UNCHANGED vars
  BY <1>6 DEF vars, RepliesMatch
<1> QED
  BY <1>2, <1>3, <1>4, <1>5, <1>6 DEF Next

-----------------------------------------------------------------------------
(* The inductive invariant and the theorems                                *)

\* The replies sent so far are a sequence of the dispatcher's messages.
RepliesTyped == replies \in Seq([ord : ReplyOrds, txid : Nat])

\* The inductive invariant.
Inv == StatsInv /\ RepliesTyped

\* Every step of the dispatcher keeps the counters balanced and the replies
\* a sequence.
LEMMA NextInv ==
  ASSUME Inv, [Next]_vars
  PROVE  Inv'
<1>1. CASE \E p \in Packets : HandlePacket(p)
  <2>1. PICK p \in Packets : HandlePacket(p)
    BY <1>1
  <2>2. stats' = CountPacket(p)
    BY <2>1 DEF HandlePacket
  <2>3. StatsInv'
    BY <2>2, CountPacketInv DEF Inv, StatsInv, StatsBalanced, Balanced
  <2>4. RepliesTyped'
    <3>1. CASE replies' = replies
      BY <3>1 DEF Inv, RepliesTyped
    <3>2. CASE replies' # replies
      <4>1. p.peer = "svc" /\ AtMostOneAnswer(p)
        BY <2>1, <3>2, HandlePacketAnswers
      <4>2. PICK o \in ReplyOrds : replies' = Append(replies, Answer(p, o))
        BY <3>2, <4>1 DEF AtMostOneAnswer
      <4>3. p.txid \in Nat
        BY <4>1, DispatcherAssumption DEF Packets
      <4>4. Answer(p, o) \in [ord : ReplyOrds, txid : Nat]
        BY <4>3 DEF Answer, Reply
      <4> QED
        BY <4>2, <4>4 DEF Inv, RepliesTyped
    <3> QED
      BY <3>1, <3>2
  <2> QED
    BY <2>3, <2>4 DEF Inv
<1>2. CASE \E isTimer \in BOOLEAN : HandlePortPacket(isTimer)
  BY <1>2 DEF HandlePortPacket, Inv, StatsInv, StatsBalanced, RepliesTyped
<1>3. CASE \E kind \in {"indication", "scanComplete"} : HwEvent(kind)
  BY <1>3 DEF HwEvent, Inv, StatsInv, StatsBalanced, RepliesTyped
<1>4. CASE ResetStats
  BY <1>4 DEF ResetStats, ZeroStats, StatFields, WellFormed, Inv, StatsInv,
     StatsBalanced, RepliesTyped
<1>5. CASE UNCHANGED vars
  BY <1>5 DEF vars, Inv, StatsInv, StatsBalanced, RepliesTyped
<1> QED
  BY <1>1, <1>2, <1>3, <1>4, <1>5 DEF Next

\* The dispatcher starts with zero counters and no replies.
LEMMA InitInv == Init => Inv
  BY DEF Init, ZeroStats, StatFields, WellFormed, Inv, StatsInv, StatsBalanced,
     RepliesTyped

\* Whatever interleaving of packets, timers, hardware events and
\* ResetStats calls the work thread runs, the dispatcher's counters stay
\* balanced: any_packet.in = out + drop, and the frame-type counters never
\* exceed out.
THEOREM StatsBalancedHolds == Spec => []StatsBalanced
<1>1. Init => Inv
  BY InitInv
<1>2. Inv /\ [Next]_vars => Inv'
  BY NextInv
<1>3. Inv => StatsBalanced
  BY DEF Inv, StatsInv
<1> QED
  BY <1>1, <1>2, <1>3, PTL DEF Spec

\* A HandlePacket call of the work thread sends at most one service
\* message, only while handling a service packet, and a reply to
\* ListMinstrelPeers or GetMinstrelStats carries that request's txid while
\* DeviceQueryConf and StatsQueryResp carry txid 0, whatever the device and
\* the MLME return.
THEOREM RepliesMatchRequestsHolds == Spec => RepliesMatchRequests
<1>1. Spec => []Inv
  BY InitInv, NextInv, PTL DEF Spec
<1>2. Inv /\ [Next]_vars => [RepliesMatch]_vars
  BY NextRepliesMatch DEF Inv, RepliesTyped
<1> QED
  BY <1>1, <1>2, PTL DEF Spec, RepliesMatchRequests, RepliesMatch


-----------------------------------------------------------------------------
(* The type invariant: nothing unknown reaches the MLME                    *)

\* What the MLME may be handed.
MlmeMsgs == MlmeOrdinals \cup {"frame", "timeout", "indication", "scanComplete"}

\* The messages SendServiceMsg may send.
ReplyT == [ord : Ordinals \cup {"DeviceQueryConf", "StatsQueryResp"},
           txid : Txids \cup {0}]

\* The strengthening of TypeOK: the counters are bounded because they are
\* balanced and any_packet.in counts at most the calls made since the last
\* ResetStats, and the MLME statistics were reset at most once per call.
TInv ==
  /\ TypeOK
  /\ Balanced(stats)
  /\ stats.in <= events
  /\ mlmeResets <= events

\* Balanced counters whose in-count is at most M are all at most M.
LEMMA StatsBound ==
  ASSUME NEW M \in Nat, NEW q \in [StatFields -> Nat], Balanced(q), q.in <= M
  PROVE  q \in [StatFields -> 0..M]
<1>1. \A f \in StatFields : q[f] <= q.in
  BY DEF Balanced, StatFields
<1>2. \A f \in StatFields : q[f] \in 0..M
  BY <1>1 DEF StatFields
<1> QED
  BY <1>2, Zenon

\* Counting one packet keeps the counters balanced natural numbers, with
\* any_packet.in one higher.
LEMMA CountPacketBound ==
  ASSUME TInv, NEW p \in Packets
  PROVE  /\ CountPacket(p) \in [StatFields -> Nat]
         /\ Balanced(CountPacket(p))
         /\ CountPacket(p).in = stats.in + 1
<1>1. stats \in [StatFields -> Nat]
  BY DEF TInv, TypeOK, StatFields
<1>2. StatsInv
  BY <1>1 DEF TInv, StatsInv, WellFormed, StatsBalanced, Balanced, StatFields
<1>3. Balanced(CountPacket(p))
  BY <1>2, CountPacketInv
<1> DEFINE passed == [stats EXCEPT !.in = @ + 1, !.out = @ + 1]
<1>4. passed \in [StatFields -> Nat] /\ passed.in = stats.in + 1
  <2>1. stats.in \in Nat /\ stats.out \in Nat
    BY <1>1 DEF StatFields
  <2>2. passed.in = stats.in + 1 /\ passed.out = stats.out + 1
    BY <1>1 DEF StatFields
  <2>3. \A f \in StatFields \ {"in", "out"} : passed[f] = stats[f]
    BY <1>1 DEF StatFields
  <2>4. \A f \in StatFields : passed[f] \in Nat
    <3> SUFFICES ASSUME NEW f \in StatFields PROVE passed[f] \in Nat
      OBVIOUS
    <3>1. CASE f = "in"
      BY <2>1, <2>2, <3>1
    <3>2. CASE f = "out"
      BY <2>1, <2>2, <3>2
    <3>3. CASE f \notin {"in", "out"}
      BY <1>1, <2>3, <3>3
    <3> QED
      BY <3>1, <3>2, <3>3
  <2>5. DOMAIN passed = StatFields
    BY <1>1
  <2> QED
    BY <2>2, <2>4, <2>5, Zenon
<1>5. CASE TypedFrame(p)
  <2>1. p.fc \in {"mgmt", "ctrl", "data"}
    BY <1>5 DEF TypedFrame
  <2>2. CountPacket(p) = [passed EXCEPT ![p.fc] = @ + 1]
    BY <1>5 DEF CountPacket
  <2>3. [passed EXCEPT ![p.fc] = @ + 1] \in [StatFields -> Nat]
    BY <1>4, <2>1 DEF StatFields
  <2>4. [passed EXCEPT ![p.fc] = @ + 1].in = passed.in
    BY <1>4, <2>1 DEF StatFields
  <2> QED
    BY <1>3, <1>4, <2>2, <2>3, <2>4
<1>6. CASE ~TypedFrame(p)
  <2>1. CountPacket(p) = passed
    BY <1>6 DEF CountPacket
  <2> QED
    BY <1>3, <1>4, <2>1
<1> QED
  BY <1>5, <1>6

\* HandleSvcPacket hands the MLME only the MLME primitives it decodes: an
\* unknown ordinal, a short packet and the dispatcher's own requests never
\* reach it.
LEMMA SvcPacketMlme ==
  ASSUME mlmeGot \in Seq(MlmeMsgs), NEW p \in Packets, p.peer = "svc",
         NEW st, HandleSvcPacket(p, st)
  PROVE  mlmeGot' \in Seq(MlmeMsgs)
<1>1. CASE p.ord \in MlmeOrdinals
  <2>1. \E ignored : HandleMlmeMessage(p, ignored)
    BY <1>1 DEF HandleSvcPacket, MlmeOrdinals
  <2> QED
    BY <1>1, <2>1 DEF HandleMlmeMessage, MlmeMsgs
<1>2. CASE p.ord \notin MlmeOrdinals
  BY <1>2 DEF HandleSvcPacket, HandleDeviceQueryRequest, HandleMlmeStats,
     HandleMinstrelPeerList, HandleMinstrelTxStats, HandleUnknownOrdinal,
     MlmeOrdinals
<1> QED
  BY <1>1, <1>2

\* A HandlePacket call keeps TInv.
LEMMA HandlePacketTInv ==
  ASSUME TInv, NEW p \in Packets, HandlePacket(p)
  PROVE  TInv'
<1>1. /\ events < MaxEvents /\ events' = events + 1
      /\ stats' = CountPacket(p) /\ lastIn' = p /\ mlmeResets' = mlmeResets
  BY DEF HandlePacket
<1>2. PICK st \in Statuses :
        /\ lastStatus' = st
        /\ CASE p.peer = "svc" -> HandleSvcPacket(p, st)
             [] p.peer = "wlan" /\ p.fc = "none" ->
                  UNCHANGED <<mlmeGot, replies>> /\ st = "OK"
             [] OTHER ->
                  /\ mlmeGot' = Append(mlmeGot, "frame")
                  /\ UNCHANGED replies
                  /\ st \in {"OK", "ERR"}
  BY DEF HandlePacket
<1>3. events' \in 0..MaxEvents /\ mlmeResets' <= events'
  BY <1>1, DispatcherAssumption DEF TInv, TypeOK
<1>4. stats' \in [StatFields -> 0..MaxEvents] /\ Balanced(stats')
      /\ stats'.in <= events'
  <2>1. CountPacket(p) \in [StatFields -> Nat] /\ Balanced(CountPacket(p))
        /\ CountPacket(p).in = stats.in + 1
    BY CountPacketBound
  <2>2. stats.in \in Nat /\ events \in Nat /\ stats.in <= events
    BY DEF TInv, TypeOK
  <2>3. CountPacket(p).in <= MaxEvents /\ CountPacket(p).in <= events'
    BY <1>1, <2>1, <2>2, DispatcherAssumption
  <2>4. MaxEvents \in Nat
    BY DispatcherAssumption
  <2> QED
    BY <1>1, <2>1, <2>3, <2>4, StatsBound
<1>5. mlmeGot' \in Seq(MlmeMsgs)
  <2>1. mlmeGot \in Seq(MlmeMsgs)
    BY DEF TInv, TypeOK, MlmeMsgs
  <2>2. CASE p.peer = "svc"
    BY <1>2, <2>1, <2>2, SvcPacketMlme
  <2>3. CASE p.peer # "svc"
    BY <1>2, <2>1, <2>3 DEF MlmeMsgs
  <2> QED
    BY <2>2, <2>3
<1>6. replies' \in Seq(ReplyT)
  <2>1. replies \in Seq(ReplyT)
    BY DEF TInv, TypeOK, ReplyT
  <2>2. CASE replies' = replies
    BY <2>1, <2>2
  <2>3. CASE replies' # replies
    <3>1. p.peer = "svc" /\ AtMostOneAnswer(p)
      BY <2>3, HandlePacketAnswers
    <3>2. PICK o \in ReplyOrds : replies' = Append(replies, Answer(p, o))
      BY <2>3, <3>1 DEF AtMostOneAnswer
    <3>3. p.txid \in Txids
      BY <3>1 DEF Packets
    <3>4. o \in Ordinals \cup {"DeviceQueryConf", "StatsQueryResp"}
      BY DEF ReplyOrds, TwoWay, Ordinals, ExtOrdinals
    <3>5. Answer(p, o) \in ReplyT
      BY <3>3, <3>4 DEF Answer, Reply, ReplyT
    <3> QED
      BY <2>1, <3>2, <3>5
  <2> QED
    BY <2>2, <2>3
<1> QED
  BY <1>1, <1>2, <1>3, <1>4, <1>5, <1>6
  DEF TInv, TypeOK, StatFields, MlmeMsgs, ReplyT

\* Timers and hardware events hand the MLME a timeout, an indication or a
\* scan completion, and touch no counter.
LEMMA MlmeEventTInv ==
  ASSUME TInv,
         \/ \E isTimer \in BOOLEAN : HandlePortPacket(isTimer)
         \/ \E kind \in {"indication", "scanComplete"} : HwEvent(kind)
  PROVE  TInv'
<1>1. /\ events < MaxEvents /\ events' = events + 1
      /\ UNCHANGED <<stats, mlmeResets, replies, lastIn, lastStatus>>
      /\ \E m \in MlmeMsgs : mlmeGot' \in {mlmeGot, Append(mlmeGot, m)}
  BY DEF HandlePortPacket, HwEvent, MlmeMsgs
<1>2. mlmeGot \in Seq(MlmeMsgs) /\ events \in Nat /\ MaxEvents \in Nat
  BY DispatcherAssumption DEF TInv, TypeOK, MlmeMsgs
<1>3. mlmeGot' \in Seq(MlmeMsgs)
  BY <1>1, <1>2
<1> QED
  BY <1>1, <1>2, <1>3 DEF TInv, TypeOK, MlmeMsgs

\* ResetStats zeroes the counters and counts one more MLME reset.
LEMMA ResetStatsTInv == TInv /\ ResetStats => TInv'
<1> SUFFICES ASSUME TInv, ResetStats PROVE TInv'
  OBVIOUS
<1>1. events \in Nat /\ MaxEvents \in Nat /\ mlmeResets \in Nat
  BY DispatcherAssumption DEF TInv, TypeOK
<1>2. ZeroStats \in [StatFields -> 0..MaxEvents] /\ Balanced(ZeroStats)
      /\ ZeroStats.in = 0
  BY <1>1 DEF ZeroStats, StatFields, Balanced
<1> QED
  BY <1>1, <1>2 DEF ResetStats, TInv, TypeOK, StatFields

\* The dispatcher starts with zero counters, an MLME that was handed
\* nothing and no replies.
LEMMA InitTInv == Init => TInv
<1> SUFFICES ASSUME Init PROVE TInv
  OBVIOUS
<1>1. ZeroStats \in [StatFields -> 0..MaxEvents] /\ Balanced(ZeroStats)
      /\ ZeroStats.in = 0
  BY DispatcherAssumption DEF ZeroStats, StatFields, Balanced
<1> QED
  BY <1>1, DispatcherAssumption
  DEF Init, TInv, TypeOK, StatFields, NoPacket, Statuses

\* Every step of the work thread keeps TInv.
LEMMA NextTInv == TInv /\ [Next]_vars => TInv'
<1> SUFFICES ASSUME TInv, [Next]_vars PROVE TInv'
  OBVIOUS
<1>1. CASE \E p \in Packets : HandlePacket(p)
  BY <1>1, HandlePacketTInv
<1>2. CASE \/ \E isTimer \in BOOLEAN : HandlePortPacket(isTimer)
           \/ \E kind \in {"indication", "scanComplete"} : HwEvent(kind)
  BY <1>2, MlmeEventTInv
<1>3. CASE ResetStats
  BY <1>3, ResetStatsTInv
<1>4. CASE UNCHANGED vars
  BY <1>4 DEF vars, TInv, TypeOK, Balanced
<1> QED
  BY <1>1, <1>2, <1>3, <1>4 DEF Next

\* Whatever the work thread is handed, the dispatcher's counters stay
\* within the calls made, and the MLME is handed only frames, timeouts,
\* hardware events and the MLME primitives HandleSvcPacket decodes: no
\* short packet, unknown ordinal or request the dispatcher answers itself
\* ever reaches Mlme::HandleMlmeMsg, and every reply is one of the
\* dispatcher's messages with a client's txid or 0.
THEOREM TypeCorrect == Spec => []TypeOK
<1>1. TInv => TypeOK
  BY DEF TInv
<1> QED
  BY <1>1, InitTInv, NextTInv, PTL DEF Spec

=============================================================================
