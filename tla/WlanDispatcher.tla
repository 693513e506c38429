---------------------------- MODULE WlanDispatcher ----------------------------
(***************************************************************************)
(* The WLAN MLME Dispatcher (src/lib/wlan/mlme/dispatcher.cpp): the entry *)
(* point of every packet of a WLAN interface.  It counts packets in its    *)
(* statistics, hands frames to the MLME, decodes service (FIDL) messages   *)
(* by ordinal, answers the ones it handles itself and forwards the MLME    *)
(* primitives.  All its entry points run on the device's single work       *)
(* thread, so each one is one atomic action.                               *)
(*                                                                         *)
(* Packets are abstracted to what the dispatcher looks at: the peer, the   *)
(* frame type of a WLAN frame (or "none" when the packet is too short to   *)
(* hold a FrameControl), and the ordinal and txid of a service message,    *)
(* with whether its body decodes.  What the MLME and the device return is  *)
(* a nondeterministic status.                                              *)
(***************************************************************************)
EXTENDS Naturals, Sequences

CONSTANTS
  Txids,      \* transaction ids a service client may use (0 is not one)
  MaxEvents   \* bound on the number of calls into the dispatcher

ASSUME DispatcherAssumption ==
  /\ Txids \subseteq Nat \ {0}
  /\ MaxEvents \in Nat

VARIABLES
  stats,       \* stats_: the dispatcher's packet counters
  mlmeGot,     \* what the MLME was handed, in order
  mlmeResets,  \* number of ResetMlmeStats() calls
  replies,     \* service messages sent by SendServiceMsg, in order
  lastIn,      \* the packet of the last HandlePacket call
  lastStatus,  \* the status the last HandlePacket returned
  events       \* number of calls so far

vars == <<stats, mlmeGot, mlmeResets, replies, lastIn, lastStatus, events>>

-----------------------------------------------------------------------------
(* Packets and ordinals                                                    *)

\* The MLME primitives HandleSvcPacket forwards with HandleMlmeMessage.
MlmeOrdinals ==
  {"ResetReq", "StartReq", "StopReq", "StartScan", "JoinReq",
   "AuthenticateReq", "AuthenticateResp", "DeauthenticateReq",
   "AssociateReq", "AssociateResp", "EapolReq", "SetKeysReq"}

\* The messages wlan_mlme_ext.fidl defines, which the dispatcher answers.
ExtOrdinals == {"StatsQueryReq", "ListMinstrelPeers", "GetMinstrelStats"}

Ordinals == {"DeviceQueryReq", "Unknown"} \cup ExtOrdinals \cup MlmeOrdinals

\* Requests whose reply reuses the request's ordinal, and so its txid.
TwoWay == {"ListMinstrelPeers", "GetMinstrelStats"}

FrameTypes == {"mgmt", "ctrl", "data", "other", "none"}

Packets ==
  [peer : {"wlan"}, fc : FrameTypes] \cup [peer : {"eth"}] \cup
  [peer : {"svc"}, ord : Ordinals \cup {"short"}, txid : Txids, ok : BOOLEAN]

Statuses == {"OK", "ERR", "NOT_SUPPORTED"}

NoPacket == [peer |-> "none"]

ZeroStats == [in |-> 0, out |-> 0, drop |-> 0, mgmt |-> 0, ctrl |-> 0, data |-> 0]

Reply(ord, txid) == [ord |-> ord, txid |-> txid]

-----------------------------------------------------------------------------

\* Dispatcher::Dispatcher: mlme_ is set and asserted non-null; stats_ start
\* at zero.
Init ==
  /\ stats = ZeroStats
  /\ mlmeGot = <<>>
  /\ mlmeResets = 0
  /\ replies = <<>>
  /\ lastIn = NoPacket
  /\ lastStatus = "OK"
  /\ events = 0

\* A WLAN frame long enough to hold a FrameControl of a known type.
TypedFrame(p) == p.peer = "wlan" /\ p.fc \in {"mgmt", "ctrl", "data"}

\* Mutant: any_packet.out is not incremented.
CountPacketNoOut(p) ==
  LET passed == [stats EXCEPT !.in = @ + 1]
  IN  IF TypedFrame(p) THEN [passed EXCEPT ![p.fc] = @ + 1] ELSE passed

\* The statistics of one packet: any_packet.in, then any_packet.out (mlme_
\* is never null, so nothing is dropped), then for a WLAN frame with a
\* FrameControl the counter of its frame type.
CountPacket(p) ==
  LET passed == [stats EXCEPT !.in = @ + 1, !.out = @ + 1]
  IN  IF TypedFrame(p) THEN [passed EXCEPT ![p.fc] = @ + 1] ELSE passed

\* HandleMlmeMessage<T>: decode, then Mlme::HandleMlmeMsg; a decode error is
\* returned without reaching the MLME.
HandleMlmeMessage(p, st) ==
  IF p.ok THEN /\ mlmeGot' = Append(mlmeGot, p.ord)
               /\ st \in {"OK", "ERR"}
          ELSE /\ UNCHANGED mlmeGot
               /\ st = "ERR"

\* SendServiceMsg: serialise the message and hand it to the device; the
\* device may refuse it, and then nothing is sent and the error is returned.
SendServiceMsg(ord, txid, st) ==
  \/ replies' = Append(replies, Reply(ord, txid)) /\ st = "OK"
  \/ UNCHANGED replies /\ st = "ERR"

\* HandleDeviceQueryRequest: build a DeviceQueryConfirm from the device's
\* wlan info (role, bands, rates, channels, capabilities) and send it.
HandleDeviceQueryRequest(st) == SendServiceMsg("DeviceQueryConf", 0, st)

\* HandleMlmeStats: send the dispatcher's and the MLME's statistics as a
\* StatsQueryResponse.
HandleMlmeStats(st) == SendServiceMsg("StatsQueryResp", 0, st)

\* Mutant: the peer list is sent without the request's txid.
HandleMinstrelPeerListNoTxid(p, st) == SendServiceMsg(p.ord, 0, st)

\* HandleMinstrelPeerList: fetch the peers (an error only empties the list)
\* and reply with the request's txid.
HandleMinstrelPeerList(p, st) == SendServiceMsg(p.ord, p.txid, st)

\* HandleMinstrelTxStats: decode the request (a decode error is returned
\* unanswered), fetch the peer's statistics (an error leaves them out) and
\* reply with the request's txid.
HandleMinstrelTxStats(p, st) ==
  IF p.ok THEN SendServiceMsg(p.ord, p.txid, st)
          ELSE UNCHANGED replies /\ st = "ERR"

\* Mutant: an unknown ordinal is passed on to the MLME.
HandleUnknownOrdinalForwarded(p, st) ==
  UNCHANGED replies /\ HandleMlmeMessage(p, st)

\* The default arm of HandleSvcPacket: an unknown ordinal is only logged.
HandleUnknownOrdinal(p, st) ==
  UNCHANGED <<mlmeGot, replies>> /\ st = "NOT_SUPPORTED"

\* HandleSvcPacket for packet p, returning status st.  A packet shorter
\* than a FIDL header is logged and answered ZX_OK; DeviceQueryReq is
\* decoded and answered with a DeviceQueryConf; the wlan_mlme_ext messages
\* are answered by the dispatcher; ResetReq is forwarded and its status
\* discarded; the other MLME primitives are forwarded.
HandleSvcPacket(p, st) ==
  CASE p.ord = "short" ->
         UNCHANGED <<mlmeGot, replies>> /\ st = "OK"
    [] p.ord = "DeviceQueryReq" ->
         /\ UNCHANGED mlmeGot
         /\ IF p.ok THEN HandleDeviceQueryRequest(st)
                    ELSE UNCHANGED replies /\ st = "ERR"
    [] p.ord = "StatsQueryReq" ->
         UNCHANGED mlmeGot /\ HandleMlmeStats(st)
    [] p.ord = "ListMinstrelPeers" ->
         UNCHANGED mlmeGot /\ HandleMinstrelPeerList(p, st)
    [] p.ord = "GetMinstrelStats" ->
         UNCHANGED mlmeGot /\ HandleMinstrelTxStats(p, st)
    [] p.ord = "ResetReq" ->
         /\ UNCHANGED replies
         /\ \E ignored \in Statuses : HandleMlmeMessage(p, ignored)
         /\ st = "OK"
    [] p.ord \in MlmeOrdinals \ {"ResetReq"} ->
         UNCHANGED replies /\ HandleMlmeMessage(p, st)
    [] OTHER -> HandleUnknownOrdinal(p, st)

\* HandlePacket: count the packet, then route it by peer.  A WLAN packet
\* too short for a FrameControl is counted as passed on but reaches no one.
HandlePacket(p) ==
  /\ events < MaxEvents
  /\ events' = events + 1
  /\ stats' = CountPacket(p)
  /\ lastIn' = p
  /\ \E st \in Statuses :
       /\ lastStatus' = st
       /\ CASE p.peer = "svc" -> HandleSvcPacket(p, st)
            [] p.peer = "wlan" /\ p.fc = "none" ->
                 UNCHANGED <<mlmeGot, replies>> /\ st = "OK"
            [] OTHER ->
                 /\ mlmeGot' = Append(mlmeGot, "frame")
                 /\ UNCHANGED replies
                 /\ st \in {"OK", "ERR"}
  /\ UNCHANGED mlmeResets

\* HandlePortPacket: an MLME timer fires and goes to Mlme::HandleTimeout;
\* any other subtype is only logged.  Both return ZX_OK.
HandlePortPacket(isTimer) ==
  /\ events < MaxEvents
  /\ events' = events + 1
  /\ mlmeGot' = IF isTimer THEN Append(mlmeGot, "timeout") ELSE mlmeGot
  /\ UNCHANGED <<stats, mlmeResets, replies, lastIn, lastStatus>>

\* HwIndication and HwScanComplete forward to the MLME.
HwEvent(kind) ==
  /\ events < MaxEvents
  /\ events' = events + 1
  /\ mlmeGot' = Append(mlmeGot, kind)
  /\ UNCHANGED <<stats, mlmeResets, replies, lastIn, lastStatus>>

\* ResetStats: stats_.Reset(), then the MLME's statistics (mlme_ is set).
ResetStats ==
  /\ events < MaxEvents
  /\ events' = events + 1
  /\ stats' = ZeroStats
  /\ mlmeResets' = mlmeResets + 1
  /\ UNCHANGED <<mlmeGot, replies, lastIn, lastStatus>>

Next ==
  \/ \E p \in Packets : HandlePacket(p)
  \/ \E isTimer \in BOOLEAN : HandlePortPacket(isTimer)
  \/ \E kind \in {"indication", "scanComplete"} : HwEvent(kind)
  \/ ResetStats

Spec == Init /\ [][Next]_vars

-----------------------------------------------------------------------------
(* Properties                                                              *)

\* Type and bounds of the dispatcher's state.  In particular the MLME is
\* only ever handed frames, timeouts, hardware events and the MLME
\* primitives it decodes: an unknown service ordinal never reaches it.
TypeOK ==
  /\ stats \in [{"in", "out", "drop", "mgmt", "ctrl", "data"} -> 0..MaxEvents]
  /\ mlmeGot \in Seq(MlmeOrdinals \cup {"frame", "timeout", "indication", "scanComplete"})
  /\ mlmeResets \in 0..MaxEvents
  /\ replies \in Seq([ord : Ordinals \cup {"DeviceQueryConf", "StatsQueryResp"},
                      txid : Txids \cup {0}])
  /\ lastIn \in Packets \cup {NoPacket}
  /\ lastStatus \in Statuses
  /\ events \in 0..MaxEvents

\* The counters agree with each other whatever interleaving of packets and
\* ResetStats calls happened: every packet counted in is counted out or
\* dropped, and the per-frame-type counters never exceed the packets
\* passed on.
StatsBalanced ==
  /\ stats.in = stats.out + stats.drop
  /\ stats.mgmt + stats.ctrl + stats.data <= stats.out

\* A HandlePacket step sends at most one service message, only for a service
\* packet, and a reply to a two-way request (ListMinstrelPeers,
\* GetMinstrelStats) carries that request's txid, so the client can match
\* it; the one-way confirmations carry txid 0.
RepliesMatchRequests ==
  [][\A i \in (Len(replies) + 1)..Len(replies') :
        /\ Len(replies') = Len(replies) + 1
        /\ lastIn'.peer = "svc"
        /\ replies'[i].txid = IF replies'[i].ord \in TwoWay
                                THEN lastIn'.txid ELSE 0]_vars

=============================================================================
