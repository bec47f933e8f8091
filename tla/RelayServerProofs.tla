--------------------------- MODULE RelayServerProofs ---------------------------
(***************************************************************************)
(* Proofs that RelayInvariant, and with it type correctness,               *)
(* TableHoldsTheLiving and Isolation, hold of the relay server for every   *)
(* number of connections, indices, requests and packets.                   *)
(***************************************************************************)
EXTENDS RelayProperties, TLAPS

-------------------------------------------------------------------------------
(* The inductive invariant behind TableHoldsTheLiving and Isolation. *)

\* The index of c is not given any more: DispatchReg, AssignIndex and
\* ResolveForwarderIndex are behind it.
Settled(c) == pc[c] \notin {"auth", "assign", "resolve"}

\* A goroutine that is going to use its index has one.
IndexGiven == \A c \in Conns : Settled(c) /\ pc[c] # "done" => idx[c] \in Index

TableSettled ==
    /\ \A i \in Index, c \in Conns : listeners[i] = c => Settled(c)
    /\ \A i \in Index : \A c \in forwarders[i] : Settled(c)

\* A forwarder's goroutine between lookup and send holds a listener of its index,
\* which may have been replaced or unregistered meanwhile.
HeldIsAListener ==
    \A c \in Conns : pc[c] = "forward" =>
        /\ ~IsListener(c)
        /\ held[c] \in Conns
        /\ IsListener(held[c])
        /\ Settled(held[c])
        /\ idx[held[c]] = idx[c]

DataSettled ==
    \A c \in Conns : \A k \in 1..Len(out[c]) :
        out[c][k].type = "Data" => Settled(c) /\ Settled(out[c][k].from)

RelayInvariant ==
    /\ TypeOK
    /\ IndexGiven
    /\ TableHoldsTheLiving
    /\ TableSettled
    /\ HeldIsAListener
    /\ Isolation
    /\ DataSettled

-------------------------------------------------------------------------------
(* What one write to a set of connections does to the logs. *)

\* Writing a frame to any set of connections leaves logs of frames.
LEMMA WrittenIsTyped ==
    ASSUME ConnsTypeOK, NEW S, NEW f \in Frames
    PROVE  Written(S, f) \in [Conns -> Seq(Frames)]
  BY DEF Written, ConnsTypeOK

\* Every frame of a log after a write was there before or is the one written, the last.
LEMMA NewestIsWritten ==
    ASSUME ConnsTypeOK, NEW S, NEW f \in Frames, NEW c \in Conns,
           NEW k \in 1..Len(Written(S, f)[c])
    PROVE  \/ k \in 1..Len(out[c]) /\ Written(S, f)[c][k] = out[c][k]
           \/ c \in S /\ Reachable(c) /\ k = Len(out[c]) + 1 /\ Written(S, f)[c][k] = f
  BY DEF Written, ConnsTypeOK

\* Frame builds a frame whenever its three fields are of their types.
LEMMA FramesAreTyped ==
    ASSUME NEW n \in Nat, NEW s \in Conns \cup {NoConn}, NEW t \in FrameType
    PROVE  Frame(t, s, n) \in Frames
  BY DEF Frame, Frames

\* A TUN client that is turned away is sent two frames, and nobody else anything.
LEMMA TurnedAway ==
    ASSUME ConnsTypeOK, NEW d \in Conns, RejectTun(d)
    PROVE  /\ out' \in [Conns -> Seq(Frames)]
           /\ \A c \in Conns : \A k \in 1..Len(out[c]) :
                  k \in 1..Len(out'[c]) /\ out'[c][k] = out[c][k]
           /\ \A c \in Conns : \A k \in 1..Len(out'[c]) :
                  \/ k \in 1..Len(out[c]) /\ out'[c][k] = out[c][k]
                  \/ /\ c = d
                     /\ out'[c][k] \in {Frame("AuthOK", NoConn, 0), Frame("Error", NoConn, 0)}
  <1> DEFINE ok == Frame("AuthOK", NoConn, 0)
             no == Frame("Error", NoConn, 0)
  <1>1. ok \in Frames /\ no \in Frames
    BY FramesAreTyped DEF FrameType
  <1>2. out[d] \in Seq(Frames) /\ out \in [Conns -> Seq(Frames)]
    BY DEF ConnsTypeOK
  <1>3. \/ out' = [out EXCEPT ![d] = out[d] \o <<ok, no>>]
        \/ out' = out
    BY <1>2 DEF RejectTun
  <1> HIDE DEF ok, no
  <1>4. CASE out' = out
    BY <1>2, <1>4
  <1>5. CASE out' = [out EXCEPT ![d] = out[d] \o <<ok, no>>]
    <2>1. <<ok, no>> \in Seq(Frames)
      BY <1>1
    <2>2. /\ out[d] \o <<ok, no>> \in Seq(Frames)
          /\ Len(out[d] \o <<ok, no>>) = Len(out[d]) + 2
          /\ \A k \in 1..Len(out[d]) : (out[d] \o <<ok, no>>)[k] = out[d][k]
          /\ (out[d] \o <<ok, no>>)[Len(out[d]) + 1] = ok
          /\ (out[d] \o <<ok, no>>)[Len(out[d]) + 2] = no
      BY <1>2, <2>1
    <2>3. \A k \in 1..(Len(out[d]) + 2) :
              k \in 1..Len(out[d]) \/ k = Len(out[d]) + 1 \/ k = Len(out[d]) + 2
      BY <1>2
    <2>4. out'[d] = out[d] \o <<ok, no>> /\ \A c \in Conns \ {d} : out'[c] = out[c]
      BY <1>2, <1>5
    <2>5. out' \in [Conns -> Seq(Frames)]
      BY <1>2, <1>5, <2>2
    <2>6. Len(out[d]) \in Nat
      BY <1>2
    <2>7. \A c \in Conns : \A k \in 1..Len(out[c]) :
              k \in 1..Len(out'[c]) /\ out'[c][k] = out[c][k]
      <3> SUFFICES ASSUME NEW c \in Conns, NEW k \in 1..Len(out[c])
                   PROVE  k \in 1..Len(out'[c]) /\ out'[c][k] = out[c][k]
        OBVIOUS
      <3>1. CASE c = d
        BY <2>2, <2>4, <2>6, <3>1
      <3>2. CASE c # d
        BY <2>4, <3>2
      <3> QED BY <3>1, <3>2
    <2>8. \A c \in Conns : \A k \in 1..Len(out'[c]) :
              \/ k \in 1..Len(out[c]) /\ out'[c][k] = out[c][k]
              \/ c = d /\ out'[c][k] \in {ok, no}
      <3> SUFFICES ASSUME NEW c \in Conns, NEW k \in 1..Len(out'[c])
                   PROVE  \/ k \in 1..Len(out[c]) /\ out'[c][k] = out[c][k]
                          \/ c = d /\ out'[c][k] \in {ok, no}
        OBVIOUS
      <3>1. CASE c = d
        <4>1. k \in 1..(Len(out[d]) + 2)
          BY <2>2, <2>4, <3>1
        <4> QED BY <2>2, <2>3, <2>4, <3>1, <4>1
      <3>2. CASE c # d
        BY <2>4, <3>2
      <3> QED BY <3>1, <3>2
    <2> QED BY <2>5, <2>7, <2>8 DEF ok, no
  <1> QED BY <1>3, <1>4, <1>5

-------------------------------------------------------------------------------
(* Type correctness. *)

\* What a client asks for is an index or -1, and a known protocol.
LEMMA RequestsAreTyped ==
    ASSUME TypeOK, NEW c \in Conns
    PROVE  /\ req[c].want \in Index \cup {-1}
           /\ req[c].mode \in Modes \cup {"tun"}
  BY RequestsOK DEF RequestsAssumption, TypeOK, RegTypeOK

\* The pool has a host number for every index.
LEMMA HostsAreTyped ==
    ASSUME NEW i \in Index
    PROVE  ClientIP(i) \in Hosts
  BY DEF ClientIP, Hosts

\* A step of a goroutine changes the connections by closing them, by reading a
\* frame or by writing one.
LEMMA ConnsStep ==
    ASSUME TypeOK, IndexGiven, Next
    PROVE  ConnsTypeOK'
  <1> USE DEF TypeOK, ConnsTypeOK
  <1>1. ASSUME NEW c \in Conns, Client(c) PROVE ConnsTypeOK'
    BY <1>1 DEF Client, ClientSend, ClientGone
  <1>2. ASSUME NEW c \in Conns, Refuse(c) PROVE ConnsTypeOK'
    BY <1>2, WrittenIsTyped, FramesAreTyped DEF Refuse, Return, FrameType
  <1>16. ASSUME NEW c \in Conns, RejectTun(c) PROVE ConnsTypeOK'
    BY <1>16, TurnedAway DEF RejectTun, Return
  <1>3. ASSUME NEW c \in Conns, HandshakeFails(c) \/ RemoveMeta(c) PROVE ConnsTypeOK'
    BY <1>3 DEF HandshakeFails, RemoveMeta, Return
  <1>4. ASSUME NEW c \in Conns, TunUnregister(c) PROVE ConnsTypeOK'
    BY <1>4 DEF TunUnregister, Return
  <1>5. ASSUME NEW c \in Conns, DispatchReg(c) PROVE ConnsTypeOK'
    BY <1>5, WrittenIsTyped, FramesAreTyped DEF DispatchReg, FrameType
  <1>6. ASSUME NEW c \in Conns, SendRegOK(c) PROVE ConnsTypeOK'
    <2>1. idx[c] \in Index
      BY <1>6 DEF SendRegOK, IndexGiven, Settled
    <2>2. idx[c] \in Nat
      BY <2>1, IndexAssumption DEF Index
    <2> QED BY <1>6, <2>2, WrittenIsTyped, FramesAreTyped DEF SendRegOK, FrameType
  <1>7. ASSUME NEW c \in Conns, InstallListener(c) PROVE ConnsTypeOK'
    <2>1. listeners[idx[c]] \in Conns \cup {NoConn}
      BY <1>7 DEF InstallListener, IndexGiven, Settled, PeerMapTypeOK
    <2> QED BY <1>7, <2>1 DEF InstallListener, RegisterListener
  <1>8. ASSUME NEW c \in Conns, TunRegisterClient(c) PROVE ConnsTypeOK'
    <2>1. ipToTun[ClientIP(idx[c])] \in Conns \cup {NoConn}
      BY <1>8, HostsAreTyped DEF TunRegisterClient, IndexGiven, Settled, TunTypeOK
    <2> QED BY <1>8, <2>1 DEF TunRegisterClient, RegisterClient
  <1>9. ASSUME NEW c \in Conns, RelayFromListener(c) PROVE ConnsTypeOK'
    <2>1. DataFrame(c) \in Frames
      BY FramesAreTyped DEF DataFrame, FrameType
    <2> QED BY <1>9, <2>1, WrittenIsTyped DEF RelayFromListener, BroadcastFromListener, Received
  <1>10. ASSUME NEW c \in Conns, RelayFromForwarder(c) PROVE ConnsTypeOK'
    BY <1>10 DEF RelayFromForwarder, Received
  <1>11. ASSUME NEW c \in Conns, TunFromClient(c) PROVE ConnsTypeOK'
    BY <1>11 DEF TunFromClient, Received
  <1>12. ASSUME NEW c \in Conns, SendToListener(c) PROVE ConnsTypeOK'
    BY <1>12, WrittenIsTyped, FramesAreTyped DEF SendToListener, FrameType
  <1>13. ASSUME NEW c \in Conns, Unregister(c) PROVE ConnsTypeOK'
    BY <1>13, WrittenIsTyped, FramesAreTyped
       DEF Unregister, UnregisterListener, UnregisterForwarder, FrameType
  <1>14. ASSUME TunReadLoop PROVE ConnsTypeOK'
    <2>1. ASSUME TunDeliver PROVE packet.host \in Nat
      BY <2>1 DEF TunTypeOK, Hosts, ClientIP, NoIP, Index
    <2> QED BY <1>14, <2>1, WrittenIsTyped, FramesAreTyped
            DEF TunReadLoop, TunDeliver, connVars, FrameType
  <1>15. ASSUME UNCHANGED connVars PROVE ConnsTypeOK'
    BY <1>15 DEF connVars
  <1> QED BY <1>1, <1>2, <1>3, <1>4, <1>5, <1>6, <1>7, <1>8, <1>9, <1>10, <1>11, <1>12,
            <1>13, <1>14, <1>15, <1>16
          DEF Next, Handshake, HandleClient, ServerAuthRejects, TooManyListeners,
              NoSingleListener, ProtocolMismatch, TunPoolFails, TunOutOfRange,
              AssignIndex, BumpNextIndex, CheckListenerLimit, ResolveForwarderIndex,
              LookupListener, CheckProtocolMatch, TunEnsurePool, InstallForwarder,
              RegisterForwarder, StoreMeta, NotifyPeerChange, RelayEnds, TunRelayEnds

\* The pairing table is written by four actions.
LEMMA TableWriters ==
    ASSUME Next
    PROVE  \/ UNCHANGED peerVars
           \/ \E d \in Conns : \/ InstallListener(d) \/ InstallForwarder(d)
                               \/ RelayFromListener(d) \/ Unregister(d)
  BY ZenonT(60) DEF Next, Client, ClientSend, ClientGone, Handshake, ServerAuthRejects, RejectTun,
         DispatchReg, HandleClient, HandshakeFails, AssignIndex, BumpNextIndex,
         CheckListenerLimit, TooManyListeners, ResolveForwarderIndex, NoSingleListener,
         LookupListener, CheckProtocolMatch, ProtocolMismatch, TunEnsurePool,
         TunPoolFails, TunRegisterClient, TunOutOfRange, StoreMeta, NotifyPeerChange,
         SendRegOK, RelayFromForwarder, SendToListener, RelayEnds, RemoveMeta,
         TunFromClient, TunRelayEnds, TunUnregister, TunReadLoop

\* The writers of the pairing table keep it a table of connections.
LEMMA PeersStep ==
    ASSUME TypeOK, IndexGiven, Next
    PROVE  PeerMapTypeOK'
  <1> USE DEF TypeOK, PeerMapTypeOK
  <1>1. ASSUME NEW c \in Conns, InstallListener(c) PROVE PeerMapTypeOK'
    BY <1>1 DEF InstallListener, RegisterListener
  <1>2. ASSUME NEW c \in Conns, InstallForwarder(c) PROVE PeerMapTypeOK'
    BY <1>2 DEF InstallForwarder, RegisterForwarder
  <1>3. ASSUME NEW c \in Conns, RelayFromListener(c) PROVE PeerMapTypeOK'
    BY <1>3 DEF RelayFromListener, BroadcastFromListener
  <1>4. ASSUME NEW c \in Conns, Unregister(c) PROVE PeerMapTypeOK'
    BY <1>4 DEF Unregister, UnregisterListener, UnregisterForwarder
  <1>5. ASSUME UNCHANGED peerVars PROVE PeerMapTypeOK'
    BY <1>5 DEF peerVars
  <1> QED BY <1>1, <1>2, <1>3, <1>4, <1>5, TableWriters

\* The TUN context is written by four actions and by the reader of the device.
LEMMA TunStep ==
    ASSUME TypeOK, IndexGiven, Next
    PROVE  TunTypeOK'
  <1> USE DEF TypeOK, TunTypeOK
  <1>1. ASSUME NEW c \in Conns, TunEnsurePool(c) PROVE TunTypeOK'
    BY <1>1 DEF TunEnsurePool, EnsurePool
  <1>2. ASSUME NEW c \in Conns, TunPoolFails(c) PROVE TunTypeOK'
    BY <1>2 DEF TunPoolFails, EnsurePoolFails
  <1>3. ASSUME NEW c \in Conns, TunRegisterClient(c) PROVE TunTypeOK'
    <2>1. ClientIP(idx[c]) \in Hosts
      BY <1>3, HostsAreTyped DEF TunRegisterClient, IndexGiven, Settled
    <2> QED BY <1>3, <2>1 DEF TunRegisterClient, RegisterClient
  <1>4. ASSUME NEW c \in Conns, TunUnregister(c) PROVE TunTypeOK'
    BY <1>4 DEF TunUnregister, UnregisterClient
  <1>5. ASSUME TunReadLoop PROVE TunTypeOK'
    <2>1. CASE TunLookup
      BY <2>1, PacketAssumption DEF TunLookup
    <2>2. CASE TunDeliver
      BY <2>2 DEF TunDeliver, NoPacket
    <2> QED BY <1>5, <2>1, <2>2 DEF TunReadLoop
  <1>6. ASSUME UNCHANGED tunVars PROVE TunTypeOK'
    BY <1>6 DEF tunVars
  <1> QED BY <1>1, <1>2, <1>3, <1>4, <1>5, <1>6, ZenonT(60)
          DEF Next, Client, ClientSend, ClientGone, Handshake, ServerAuthRejects, RejectTun,
              DispatchReg, HandleClient, HandshakeFails, AssignIndex, BumpNextIndex,
              CheckListenerLimit, TooManyListeners, ResolveForwarderIndex, NoSingleListener,
              LookupListener, CheckProtocolMatch, ProtocolMismatch, TunOutOfRange,
              InstallListener, InstallForwarder, StoreMeta, NotifyPeerChange, SendRegOK,
              RelayFromListener, RelayFromForwarder, SendToListener, RelayEnds, Unregister,
              RemoveMeta, TunFromClient, TunRelayEnds

\* The metadata table, nextIndex and the console flag keep their types.
LEMMA SrvStep ==
    ASSUME TypeOK, IndexGiven, Next
    PROVE  SrvTypeOK'
  <1> USE DEF TypeOK, SrvTypeOK
  <1>1. ASSUME NEW c \in Conns, BumpNextIndex(c) PROVE SrvTypeOK'
    BY <1>1 DEF BumpNextIndex
  <1>2. ASSUME NEW c \in Conns, InstallListener(c) \/ InstallForwarder(c) PROVE SrvTypeOK'
    BY <1>2 DEF InstallListener, InstallForwarder
  <1>3. ASSUME NEW c \in Conns, StoreMeta(c) PROVE SrvTypeOK'
    BY <1>3, RequestsAreTyped DEF StoreMeta
  <1>4. ASSUME NEW c \in Conns, NotifyPeerChange(c) PROVE SrvTypeOK'
    BY <1>4 DEF NotifyPeerChange
  <1>5. ASSUME NEW c \in Conns, RelayFromListener(c) \/ Unregister(c) PROVE SrvTypeOK'
    BY <1>5 DEF RelayFromListener, Unregister
  <1>6. ASSUME NEW c \in Conns, RemoveMeta(c) PROVE SrvTypeOK'
    BY <1>6 DEF RemoveMeta
  <1>7. ASSUME UNCHANGED srvVars PROVE SrvTypeOK'
    BY <1>7 DEF srvVars
  <1> QED BY <1>1, <1>2, <1>3, <1>4, <1>5, <1>6, <1>7, ZenonT(60)
          DEF Next, Client, ClientSend, ClientGone, Handshake, ServerAuthRejects, RejectTun,
              DispatchReg, HandleClient, HandshakeFails, AssignIndex, CheckListenerLimit,
              TooManyListeners, ResolveForwarderIndex, NoSingleListener, LookupListener,
              CheckProtocolMatch, ProtocolMismatch, TunEnsurePool, TunPoolFails,
              TunRegisterClient, TunOutOfRange, SendRegOK, RelayFromForwarder,
              SendToListener, RelayEnds, TunFromClient, TunRelayEnds, TunUnregister,
              TunReadLoop

\* Every step of a goroutine moves its program counter and little else.
LEMMA RegStep ==
    ASSUME TypeOK, IndexGiven, Next
    PROVE  RegTypeOK'
  <1> USE DEF TypeOK, RegTypeOK
  <1>1. ASSUME NEW c \in Conns, NEW l \in Labels, Goto(c, l), UNCHANGED <<req, idx, held>>
        PROVE  RegTypeOK'
    BY <1>1 DEF Goto
  <1>2. ASSUME NEW c \in Conns, DispatchReg(c) PROVE RegTypeOK'
    BY <1>2, RequestsAreTyped DEF DispatchReg, Goto, Labels
  <1>3. ASSUME NEW c \in Conns, AssignIndex(c) \/ ResolveForwarderIndex(c) PROVE RegTypeOK'
    BY <1>3 DEF AssignIndex, ResolveForwarderIndex, Goto, Labels
  <1>4. ASSUME NEW c \in Conns, LookupListener(c) PROVE RegTypeOK'
    <2>1. listeners[idx[c]] \in Conns \cup {NoConn}
      BY <1>4 DEF LookupListener, IndexGiven, Settled, PeerMapTypeOK
    <2> QED BY <1>4, <2>1 DEF LookupListener, GetListener, Goto, Labels
  <1>5. ASSUME NEW c \in Conns, CheckProtocolMatch(c) \/ ProtocolMismatch(c) PROVE RegTypeOK'
    BY <1>5 DEF CheckProtocolMatch, ProtocolMismatch, Refuse, Return, Goto, Labels
  <1>6. ASSUME NEW c \in Conns, RelayFromForwarder(c) PROVE RegTypeOK'
    <2>1. listeners[idx[c]] \in Conns \cup {NoConn}
      BY <1>6 DEF RelayFromForwarder, IndexGiven, Settled, PeerMapTypeOK
    <2> QED BY <1>6, <2>1 DEF RelayFromForwarder, Goto, Labels
  <1>7. ASSUME NEW c \in Conns, SendToListener(c) PROVE RegTypeOK'
    BY <1>7 DEF SendToListener, Goto, Labels
  <1>8. ASSUME UNCHANGED regVars PROVE RegTypeOK'
    BY <1>8 DEF regVars
  <1>9. ASSUME NEW c \in Conns, Handshake(c), ~DispatchReg(c) PROVE RegTypeOK'
    BY <1>9, <1>1 DEF Handshake, ServerAuthRejects, RejectTun, Refuse, Return, Labels
  <1>10. ASSUME NEW c \in Conns, HandleClient(c) PROVE RegTypeOK'
    BY <1>10, <1>1, <1>3, <1>4, <1>5, <1>6, <1>7, <1>8
       DEF HandleClient, HandshakeFails, BumpNextIndex, CheckListenerLimit,
           TooManyListeners, NoSingleListener, TunEnsurePool, TunPoolFails,
           TunRegisterClient, TunOutOfRange, InstallListener, InstallForwarder,
           StoreMeta, NotifyPeerChange, SendRegOK, RelayFromListener, RelayEnds,
           Unregister, RemoveMeta, TunFromClient, TunRelayEnds, TunUnregister,
           Refuse, Return, Labels
  <1> QED BY <1>2, <1>8, <1>9, <1>10
          DEF Next, Client, ClientSend, ClientGone, TunReadLoop

\* Once the index of a connection is given it stays, and the request never changes.
LEMMA IndexStays ==
    ASSUME TypeOK, Next, NEW c \in Conns, Settled(c)
    PROVE  Settled(c)' /\ idx'[c] = idx[c] /\ req' = req
  <1> DEFINE Stays == Settled(c)' /\ idx'[c] = idx[c] /\ req' = req
  <1> USE DEF TypeOK, RegTypeOK, Settled
  <1>1. ASSUME NEW d \in Conns, NEW l \in Labels \ {"auth", "assign", "resolve"},
               Goto(d, l), idx' = idx, req' = req
        PROVE  Stays
    BY <1>1 DEF Goto
  <1>2. ASSUME NEW d \in Conns, Handshake(d) PROVE Stays
    BY <1>2 DEF Handshake, ServerAuthRejects, RejectTun, DispatchReg, Refuse, Return, Goto
  <1>3. ASSUME NEW d \in Conns, AssignIndex(d) \/ ResolveForwarderIndex(d) PROVE Stays
    BY <1>3 DEF AssignIndex, ResolveForwarderIndex, Goto
  <1>4. ASSUME UNCHANGED regVars PROVE Stays
    BY <1>4 DEF regVars
  <1>5. ASSUME NEW d \in Conns, HandleClient(d) PROVE Stays
    <2> HIDE DEF Stays, Settled
    <2> QED BY <1>1, <1>3, <1>4, <1>5
       DEF HandleClient, HandshakeFails, BumpNextIndex, CheckListenerLimit,
           TooManyListeners, NoSingleListener, LookupListener, CheckProtocolMatch,
           ProtocolMismatch, TunEnsurePool, TunPoolFails, TunRegisterClient,
           TunOutOfRange, InstallListener, InstallForwarder, StoreMeta, NotifyPeerChange,
           SendRegOK, RelayFromListener, RelayFromForwarder, SendToListener, RelayEnds,
           Unregister, RemoveMeta, TunFromClient, TunRelayEnds, TunUnregister,
           Refuse, Return, Labels
  <1> QED BY <1>2, <1>4, <1>5 DEF Next, Client, ClientSend, ClientGone, TunReadLoop

\* A goroutine is moved by its own steps only.
LEMMA OthersWait ==
    ASSUME TypeOK, Next, NEW c \in Conns, ~Handshake(c), ~HandleClient(c)
    PROVE  pc'[c] = pc[c] /\ idx'[c] = idx[c] /\ held'[c] = held[c]
  <1> DEFINE Waits == pc'[c] = pc[c] /\ idx'[c] = idx[c] /\ held'[c] = held[c]
  <1> USE DEF TypeOK, RegTypeOK
  <1>1. ASSUME NEW d \in Conns, d # c, NEW l, Goto(d, l), UNCHANGED <<req, idx, held>>
        PROVE  Waits
    BY <1>1 DEF Goto
  <1>2. ASSUME NEW d \in Conns, d # c, Handshake(d) PROVE Waits
    BY <1>2 DEF Handshake, ServerAuthRejects, RejectTun, DispatchReg, Refuse, Return, Goto
  <1>3. ASSUME NEW d \in Conns, d # c, AssignIndex(d) \/ ResolveForwarderIndex(d) PROVE Waits
    BY <1>3 DEF AssignIndex, ResolveForwarderIndex, Goto
  <1>4. ASSUME NEW d \in Conns, d # c, LookupListener(d) \/ CheckProtocolMatch(d) PROVE Waits
    BY <1>4 DEF LookupListener, CheckProtocolMatch, Goto
  <1>5. ASSUME NEW d \in Conns, d # c, ProtocolMismatch(d) PROVE Waits
    BY <1>5 DEF ProtocolMismatch, Refuse, Return, Goto
  <1>6. ASSUME NEW d \in Conns, d # c, RelayFromForwarder(d) \/ SendToListener(d) PROVE Waits
    BY <1>6 DEF RelayFromForwarder, SendToListener, Goto
  <1>7. ASSUME UNCHANGED regVars PROVE Waits
    BY <1>7 DEF regVars
  <1>8. ASSUME NEW d \in Conns, d # c, HandleClient(d) PROVE Waits
    <2> HIDE DEF Waits
    <2> QED BY <1>1, <1>3, <1>4, <1>5, <1>6, <1>7, <1>8
       DEF HandleClient, HandshakeFails, BumpNextIndex, CheckListenerLimit,
           TooManyListeners, NoSingleListener, TunEnsurePool, TunPoolFails,
           TunRegisterClient, TunOutOfRange, InstallListener, InstallForwarder,
           StoreMeta, NotifyPeerChange, SendRegOK, RelayFromListener, RelayEnds,
           Unregister, RemoveMeta, TunFromClient, TunRelayEnds, TunUnregister,
           Refuse, Return
  <1> QED BY <1>2, <1>7, <1>8 DEF Next, Client, ClientSend, ClientGone, TunReadLoop

\* HandleClient never comes back from its return.
LEMMA DoneStays ==
    ASSUME TypeOK, Next, NEW c \in Conns, pc[c] = "done"
    PROVE  pc'[c] = "done"
  <1>1. ~Handshake(c)
    BY DEF Handshake, ServerAuthRejects, RejectTun, DispatchReg
  <1>2. ~HandleClient(c)
    BY DEF HandleClient, HandshakeFails, AssignIndex, BumpNextIndex, CheckListenerLimit,
           TooManyListeners, ResolveForwarderIndex, NoSingleListener, LookupListener,
           CheckProtocolMatch, ProtocolMismatch, TunEnsurePool, TunPoolFails,
           TunRegisterClient, TunOutOfRange, InstallListener, InstallForwarder, StoreMeta,
           NotifyPeerChange, SendRegOK, RelayFromListener, RelayFromForwarder,
           SendToListener, RelayEnds, Unregister, RemoveMeta, TunFromClient, TunRelayEnds,
           TunUnregister
  <1> QED BY <1>1, <1>2, OthersWait

\* A goroutine leaves the labels that give it an index only with one.
LEMMA IndexStep ==
    ASSUME TypeOK, IndexGiven, Next
    PROVE  IndexGiven'
  <1> SUFFICES ASSUME NEW c \in Conns, Settled(c)', pc'[c] # "done"
               PROVE  idx'[c] \in Index
    BY DEF IndexGiven
  <1>1. CASE Settled(c)
    BY <1>1, IndexStays, DoneStays DEF IndexGiven
  <1>2. CASE ~Settled(c)
    <2>1. CASE Handshake(c)
      BY <2>1, RequestsAreTyped
         DEF TypeOK, RegTypeOK, Settled, Handshake, ServerAuthRejects, RejectTun,
             DispatchReg, Refuse, Return, Goto
    <2>2. CASE AssignIndex(c) \/ ResolveForwarderIndex(c)
      BY <2>2 DEF TypeOK, RegTypeOK, AssignIndex, ResolveForwarderIndex, Goto
    <2>3. CASE HandshakeFails(c) \/ NoSingleListener(c)
      BY <2>3 DEF TypeOK, RegTypeOK, HandshakeFails, NoSingleListener, Refuse, Return, Goto
    <2>4. CASE ~Handshake(c) /\ ~HandleClient(c)
      BY <2>4, <1>2, OthersWait DEF Settled
    <2> QED BY <1>2, <2>1, <2>2, <2>3, <2>4
       DEF Settled, HandleClient, BumpNextIndex, CheckListenerLimit, TooManyListeners,
           LookupListener, CheckProtocolMatch, ProtocolMismatch, TunEnsurePool,
           TunPoolFails, TunRegisterClient, TunOutOfRange, InstallListener,
           InstallForwarder, StoreMeta, NotifyPeerChange, SendRegOK, RelayFromListener,
           RelayFromForwarder, SendToListener, RelayEnds, Unregister, RemoveMeta,
           TunFromClient, TunRelayEnds, TunUnregister
  <1> QED BY <1>1, <1>2

\* NewServer gives every variable a value of its type.
LEMMA TypeInit ==
    ASSUME Init
    PROVE  TypeOK /\ IndexGiven
  <1>1. ConnsTypeOK
    BY DEF Init, ConnsInit, ConnsTypeOK
  <1>2. PeerMapTypeOK
    BY DEF Init, NewPeerMap, PeerMapTypeOK
  <1>3. TunTypeOK
    <2>1. 0 \in 0..MaxPackets
      BY PacketAssumption DEF PacketAssumption
    <2> QED BY <2>1, Zenon DEF Init, NewServerTUNContext, TunTypeOK, NoPacket
  <1>4. RegTypeOK
    BY DEF Init, RegTypeOK, Labels
  <1>5. SrvTypeOK
    <2>1. 0 \in 0..(MaxIndex + 1)
      BY IndexAssumption DEF IndexAssumption
    <2> QED BY <2>1, Zenon DEF Init, SrvTypeOK
  <1>6. IndexGiven
    BY DEF Init, IndexGiven, Settled
  <1> QED BY <1>1, <1>2, <1>3, <1>4, <1>5, <1>6 DEF TypeOK

\* Every variable of the server has its type, and every goroutine that uses its
\* index has been given one: no step of HandleClient reads the tables at an index
\* that was never set.
THEOREM TypeCorrect == Spec => [](TypeOK /\ IndexGiven)
  <1>1. Init => TypeOK /\ IndexGiven
    BY TypeInit
  <1>2. TypeOK /\ IndexGiven /\ [Next]_vars => (TypeOK /\ IndexGiven)'
    <2> SUFFICES ASSUME TypeOK, IndexGiven, [Next]_vars PROVE (TypeOK /\ IndexGiven)'
      OBVIOUS
    <2>1. CASE Next
      BY <2>1, ConnsStep, PeersStep, TunStep, RegStep, SrvStep, IndexStep DEF TypeOK
    <2>2. CASE UNCHANGED vars
      BY <2>2 DEF vars, connVars, peerVars, tunVars, regVars, srvVars, TypeOK, ConnsTypeOK,
                  PeerMapTypeOK, TunTypeOK, RegTypeOK, SrvTypeOK, IndexGiven, Settled
    <2> QED BY <2>1, <2>2
  <1> QED BY <1>1, <1>2, PTL DEF Spec

-------------------------------------------------------------------------------
(* The pairing table. *)

\* A TCP or UDP client stays registered until its goroutine runs Unregister.
LEMMA StaysRegistered ==
    ASSUME TypeOK, Next, NEW c \in Conns, Registered(c), ~IsTun(c), ~Unregister(c)
    PROVE  Registered(c)'
  <1> USE DEF Registered
  <1>1. CASE ~Handshake(c) /\ ~HandleClient(c)
    BY <1>1, OthersWait
  <1>2. ~Handshake(c)
    BY DEF Handshake, ServerAuthRejects, RejectTun, DispatchReg
  <1>3. CASE StoreMeta(c) \/ NotifyPeerChange(c) \/ SendRegOK(c)
    BY <1>3 DEF TypeOK, RegTypeOK, StoreMeta, NotifyPeerChange, SendRegOK, Goto
  <1>4. CASE RelayFromListener(c) \/ RelayFromForwarder(c) \/ SendToListener(c) \/ RelayEnds(c)
    BY <1>4 DEF TypeOK, RegTypeOK, RelayFromListener, RelayFromForwarder, SendToListener,
                RelayEnds, Goto, regVars
  <1> QED BY <1>1, <1>2, <1>3, <1>4
          DEF HandleClient, HandshakeFails, AssignIndex, BumpNextIndex, CheckListenerLimit,
              TooManyListeners, ResolveForwarderIndex, NoSingleListener, LookupListener,
              CheckProtocolMatch, ProtocolMismatch, TunEnsurePool, TunPoolFails,
              TunRegisterClient, TunOutOfRange, InstallListener, InstallForwarder,
              RemoveMeta, TunFromClient, TunRelayEnds, TunUnregister

\* An entry of the listeners after a step is one that stays or the one installed: the
\* goroutine that leaves takes its own entry with it, and at most that of a successor.
LEMMA ListenerEntries ==
    ASSUME RelayInvariant, Next, NEW i \in Index, NEW c \in Conns, listeners'[i] = c
    PROVE  Settled(c)' /\ IsListener(c)' /\ idx'[c] = i /\ (IsTun(c)' \/ Registered(c)')
  <1> USE DEF RelayInvariant
  <1>1. CASE listeners[i] = c /\ ~Unregister(c)
    BY <1>1, IndexStays, StaysRegistered
       DEF TableHoldsTheLiving, TableSettled, IsListener, IsTun
  <1>2. CASE InstallListener(c) /\ idx[c] = i
    BY <1>2, IndexStays
       DEF InstallListener, Goto, TypeOK, RegTypeOK, Settled, Registered, IsListener
  <1>3. ASSUME NEW d \in Conns, InstallListener(d)
        PROVE  (listeners[i] = c /\ d # c) \/ (d = c /\ idx[c] = i)
    BY <1>3
       DEF InstallListener, RegisterListener, TypeOK, PeerMapTypeOK, TableHoldsTheLiving, Registered
  <1>4. ASSUME NEW d \in Conns, Unregister(d)
        PROVE  listeners[i] = c /\ d # c
    BY <1>4, ConnsAssumption
       DEF ConnsAssumption, Unregister, UnregisterListener, UnregisterForwarder, TypeOK,
           PeerMapTypeOK, TableHoldsTheLiving
  <1>5. CASE \E d \in Conns : InstallListener(d)
    <2>1. PICK d \in Conns : InstallListener(d)
      BY <1>5
    <2>2. CASE listeners[i] = c /\ d # c
      <3>1. ~Unregister(c)
        BY <2>1, <2>2 DEF InstallListener, Unregister, Goto, TypeOK, RegTypeOK
      <3> QED BY <1>1, <2>2, <3>1
    <2>3. CASE d = c /\ idx[c] = i
      BY <1>2, <2>1, <2>3
    <2> QED BY <1>3, <2>1, <2>2, <2>3
  <1>6. CASE \E d \in Conns : Unregister(d)
    <2>1. PICK d \in Conns : Unregister(d)
      BY <1>6
    <2>2. listeners[i] = c /\ d # c
      BY <2>1, <1>4
    <2>3. ~Unregister(c)
      BY <2>1, <2>2 DEF Unregister, Goto, TypeOK, RegTypeOK
    <2> QED BY <1>1, <2>2, <2>3
  <1>7. CASE ~\E d \in Conns : InstallListener(d) \/ Unregister(d)
    BY <1>1, <1>7, TableWriters
       DEF peerVars, InstallForwarder, RegisterForwarder, RelayFromListener, BroadcastFromListener
  <1> QED BY <1>5, <1>6, <1>7

\* The same for the forwarders of an index, of which a broadcast may drop some.
LEMMA ForwarderEntries ==
    ASSUME RelayInvariant, Next, NEW i \in Index, NEW c \in forwarders'[i]
    PROVE  c \in Conns /\ Settled(c)' /\ ~IsListener(c)' /\ idx'[c] = i /\ Registered(c)'
  <1> USE DEF RelayInvariant
  <1>1. CASE c \in forwarders[i] /\ ~Unregister(c)
    <2>1. c \in Conns /\ Settled(c) /\ Registered(c) /\ ~IsListener(c) /\ ~IsTun(c) /\ idx[c] = i
      BY <1>1, RequestsOK
         DEF TypeOK, PeerMapTypeOK, RegTypeOK, TableHoldsTheLiving, TableSettled, IsListener,
             IsTun, RequestsAssumption
    <2> QED BY <1>1, <2>1, IndexStays, StaysRegistered DEF IsListener
  <1>2. CASE c \in Conns /\ InstallForwarder(c) /\ idx[c] = i
    BY <1>2, IndexStays
       DEF InstallForwarder, Goto, TypeOK, RegTypeOK, Settled, Registered, IsListener
  <1>3. ASSUME NEW d \in Conns, InstallForwarder(d)
        PROVE  (c \in forwarders[i] /\ d # c) \/ (d = c /\ idx[c] = i)
    BY <1>3
       DEF InstallForwarder, RegisterForwarder, TypeOK, PeerMapTypeOK, TableHoldsTheLiving, Registered
  <1>4. ASSUME NEW d \in Conns, Unregister(d)
        PROVE  c \in forwarders[i] /\ d # c
    BY <1>4
       DEF Unregister, UnregisterListener, UnregisterForwarder, TypeOK, PeerMapTypeOK,
           TableHoldsTheLiving
  <1>5. ASSUME NEW d \in Conns, RelayFromListener(d)
        PROVE  c \in forwarders[i] /\ d # c
    BY <1>5
       DEF RelayFromListener, BroadcastFromListener, TypeOK, PeerMapTypeOK, TableHoldsTheLiving
  <1>6. c \in forwarders[i] => c \in Conns
    BY DEF TypeOK, PeerMapTypeOK
  <1>7. CASE \E d \in Conns : InstallForwarder(d)
    <2>1. PICK d \in Conns : InstallForwarder(d)
      BY <1>7
    <2>2. CASE c \in forwarders[i] /\ d # c
      <3>1. ~Unregister(c)
        BY <1>6, <2>1, <2>2 DEF InstallForwarder, Unregister, Goto, TypeOK, RegTypeOK
      <3> QED BY <1>1, <2>2, <3>1
    <2>3. CASE d = c /\ idx[c] = i
      BY <1>2, <2>1, <2>3
    <2> QED BY <1>3, <2>1, <2>2, <2>3
  <1>8. CASE \E d \in Conns : Unregister(d)
    <2>1. PICK d \in Conns : Unregister(d)
      BY <1>8
    <2>2. c \in forwarders[i] /\ d # c
      BY <2>1, <1>4
    <2>3. ~Unregister(c)
      BY <1>6, <2>1, <2>2 DEF Unregister, Goto, TypeOK, RegTypeOK
    <2> QED BY <1>1, <2>2, <2>3
  <1>9. CASE ~\E d \in Conns : InstallForwarder(d) \/ Unregister(d)
    <2>1. c \in forwarders[i]
      BY <1>5, <1>9, TableWriters DEF peerVars, InstallListener, RegisterListener
    <2> QED BY <1>1, <1>6, <1>9, <2>1
  <1> QED BY <1>7, <1>8, <1>9

\* Both parts of the pairing table taken together.
LEMMA TableStep ==
    ASSUME RelayInvariant, Next
    PROVE  TableHoldsTheLiving' /\ TableSettled'
  BY ListenerEntries, ForwarderEntries DEF TableHoldsTheLiving, TableSettled

-------------------------------------------------------------------------------
(* What the goroutines hold and what they send. *)

\* A forwarder's goroutine holds a listener of its own index from the lookup in
\* SendToListener to the send, whatever happens to the table in between.
LEMMA HeldStep ==
    ASSUME RelayInvariant, Next
    PROVE  HeldIsAListener'
  <1> USE DEF RelayInvariant
  <1> SUFFICES ASSUME NEW c \in Conns, pc'[c] = "forward"
               PROVE  /\ ~IsListener(c)'
                      /\ held'[c] \in Conns
                      /\ IsListener(held[c])'
                      /\ Settled(held[c])'
                      /\ idx'[held'[c]] = idx'[c]
    BY DEF HeldIsAListener
  <1>1. CASE pc[c] = "forward" /\ held'[c] = held[c]
    <2>1. /\ ~IsListener(c) /\ Settled(c)
          /\ held[c] \in Conns
          /\ IsListener(held[c])
          /\ Settled(held[c])
          /\ idx[held[c]] = idx[c]
      BY <1>1 DEF HeldIsAListener, Settled
    <2>2. Settled(c)' /\ idx'[c] = idx[c] /\ req' = req
      BY <2>1, IndexStays
    <2>3. Settled(held[c])' /\ idx'[held[c]] = idx[held[c]]
      BY <1>1, <2>1, IndexStays DEF Settled
    <2> QED BY <1>1, <2>1, <2>2, <2>3 DEF IsListener, Settled
  <1>2. CASE RelayFromForwarder(c)
    <2>1. listeners[idx[c]] \in Conns /\ held'[c] = listeners[idx[c]]
      BY <1>2 DEF RelayFromForwarder, Goto, TypeOK, RegTypeOK, PeerMapTypeOK, IndexGiven, Settled
    <2>2. idx[c] \in Index /\ Settled(c) /\ ~IsListener(c)
      BY <1>2 DEF RelayFromForwarder, IndexGiven, Settled
    <2>3. IsListener(held'[c]) /\ idx[held'[c]] = idx[c] /\ Settled(held'[c])
      BY <2>1, <2>2 DEF TableHoldsTheLiving, TableSettled
    <2>4. Settled(c)' /\ idx'[c] = idx[c] /\ req' = req
      BY <2>2, IndexStays
    <2>5. idx'[held'[c]] = idx[c] /\ pc'[held'[c]] \notin {"auth", "assign", "resolve"}
      BY <1>2, <2>1, <2>3, <2>4
         DEF RelayFromForwarder, Settled, Goto, TypeOK, RegTypeOK
    <2> QED BY <2>1, <2>2, <2>3, <2>4, <2>5 DEF IsListener, Settled
  <1>3. CASE ~Handshake(c) /\ ~HandleClient(c)
    BY <1>1, <1>3, OthersWait
  <1>4. ~Handshake(c)
    BY DEF Handshake, ServerAuthRejects, RejectTun, DispatchReg, Refuse, Return, Goto, TypeOK, RegTypeOK
  <1> QED BY <1>2, <1>3, <1>4
          DEF HandleClient, HandshakeFails, AssignIndex, BumpNextIndex, CheckListenerLimit,
              TooManyListeners, ResolveForwarderIndex, NoSingleListener, LookupListener,
              CheckProtocolMatch, ProtocolMismatch, TunEnsurePool, TunPoolFails,
              TunRegisterClient, TunOutOfRange, InstallListener, InstallForwarder,
              StoreMeta, NotifyPeerChange, SendRegOK, RelayFromListener, SendToListener,
              RelayEnds, Unregister, RemoveMeta, TunFromClient, TunRelayEnds,
              TunUnregister, Refuse, Return, Goto, TypeOK, RegTypeOK, regVars

\* What is in a log: the data of a settled peer of the other role and the same index.
Proper(c, f) ==
    f.type = "Data" =>
        /\ f.from \in Conns
        /\ Settled(c) /\ Settled(f.from)
        /\ IsListener(f.from) # IsListener(c)
        /\ idx[f.from] = idx[c]

\* Every frame of a log after a step was there before or is a proper one: the data
\* a listener broadcasts goes to the forwarders of its index, that of a forwarder to
\* the listener it holds.
LEMMA LogStep ==
    ASSUME RelayInvariant, Next, NEW c \in Conns, NEW k \in 1..Len(out'[c])
    PROVE  Proper(c, out'[c][k])
  <1> DEFINE Kept == Proper(c, out'[c][k])
  <1> USE DEF RelayInvariant
  <1>1. ASSUME NEW m \in 1..Len(out[c]) PROVE Proper(c, out[c][m])
    BY <1>1 DEF Proper, Isolation, DataSettled
  <1>2. ASSUME UNCHANGED out PROVE Kept
    BY <1>1, <1>2
  <1>3. ASSUME NEW S, NEW f \in Frames, out' = Written(S, f), c \in S => Proper(c, f)
        PROVE  Kept
    BY <1>1, <1>3, NewestIsWritten DEF TypeOK
  <1>4. ASSUME NEW S, NEW f \in Frames, out' = Written(S, f), f.type # "Data"
        PROVE  Kept
    BY <1>3, <1>4 DEF Proper
  <1>5. ASSUME NEW d \in Conns, RelayFromListener(d) PROVE Kept
    <2>1. DataFrame(d) \in Frames
      BY FramesAreTyped DEF DataFrame, FrameType, TypeOK, ConnsTypeOK
    <2>2. out' = Written(forwarders[idx[d]], DataFrame(d))
      BY <1>5 DEF RelayFromListener, BroadcastFromListener
    <2>3. idx[d] \in Index /\ Settled(d) /\ IsListener(d)
      BY <1>5 DEF RelayFromListener, IndexGiven, Settled
    <2>4. ASSUME c \in forwarders[idx[d]] PROVE Proper(c, DataFrame(d))
      BY <2>3, <2>4 DEF Proper, DataFrame, Frame, TableHoldsTheLiving, TableSettled
    <2> QED BY <1>3, <2>1, <2>2, <2>4
  <1>6. ASSUME NEW d \in Conns, SendToListener(d) PROVE Kept
    <2>1. Frame("Data", d, read[d]) \in Frames
      BY FramesAreTyped DEF FrameType, TypeOK, ConnsTypeOK
    <2>2. out' = Written({held[d]}, Frame("Data", d, read[d]))
      BY <1>6 DEF SendToListener
    <2>3. Settled(d) /\ pc[d] = "forward"
      BY <1>6 DEF SendToListener, Settled
    <2>4. ASSUME c = held[d] PROVE Proper(c, Frame("Data", d, read[d]))
      BY <2>3, <2>4 DEF Proper, Frame, HeldIsAListener
    <2> QED BY <1>3, <2>1, <2>2, <2>4
  <1>7. ASSUME NEW d \in Conns, Refuse(d) \/ DispatchReg(d) PROVE Kept
    <2>1. PICK t \in {"Error", "AuthOK"} : out' = Written({d}, Frame(t, NoConn, 0))
      BY <1>7 DEF Refuse, DispatchReg
    <2>2. Frame(t, NoConn, 0) \in Frames
      BY FramesAreTyped DEF FrameType
    <2> QED BY <1>4, <2>1, <2>2 DEF Frame
  <1>8. ASSUME NEW d \in Conns, SendRegOK(d) PROVE Kept
    <2>1. idx[d] \in Nat
      BY <1>8 DEF SendRegOK, IndexGiven, Settled, Index
    <2>2. Frame("RegOK", NoConn, idx[d]) \in Frames
      BY <2>1, FramesAreTyped DEF FrameType
    <2> QED BY <1>4, <1>8, <2>2 DEF SendRegOK, Frame
  <1>9. ASSUME NEW d \in Conns, Unregister(d) PROVE Kept
    <2>1. Frame("PeerLeave", NoConn, 0) \in Frames
      BY FramesAreTyped DEF FrameType
    <2> QED BY <1>2, <1>4, <1>9, <2>1
            DEF Unregister, UnregisterListener, UnregisterForwarder, Frame
  <1>10. ASSUME TunReadLoop PROVE Kept
    <2>1. CASE TunDeliver
      <3>1. packet.host \in Nat
        BY DEF TypeOK, TunTypeOK, Hosts, ClientIP, NoIP, Index
      <3>2. Frame("DataTUN", NoConn, packet.host) \in Frames
        BY <3>1, FramesAreTyped DEF FrameType
      <3> QED BY <1>4, <2>1, <3>2 DEF TunDeliver, Frame
    <2> QED BY <1>2, <1>10, <2>1 DEF TunReadLoop, connVars
  <1>11. ASSUME NEW d \in Conns, Client(d) PROVE Kept
    BY <1>2, <1>11 DEF Client, ClientSend, ClientGone
  <1>14. ASSUME NEW d \in Conns, RejectTun(d) PROVE Kept
    <2>1. \/ k \in 1..Len(out[c]) /\ out'[c][k] = out[c][k]
          \/ out'[c][k] \in {Frame("AuthOK", NoConn, 0), Frame("Error", NoConn, 0)}
      BY <1>14, TurnedAway DEF TypeOK
    <2> QED BY <1>1, <2>1 DEF Proper, Frame
  <1>12. ASSUME NEW d \in Conns, Handshake(d) PROVE Kept
    <2> HIDE DEF Kept
    <2> QED BY <1>7, <1>12, <1>14 DEF Handshake, ServerAuthRejects
  <1>13. ASSUME NEW d \in Conns, HandleClient(d) PROVE Kept
    <2> HIDE DEF Kept
    <2>1. CASE TooManyListeners(d) \/ NoSingleListener(d) \/ ProtocolMismatch(d)
               \/ TunPoolFails(d) \/ TunOutOfRange(d)
      BY <1>7, <2>1
         DEF TooManyListeners, NoSingleListener, ProtocolMismatch, TunPoolFails, TunOutOfRange
    <2>2. CASE InstallListener(d) \/ InstallForwarder(d)
      BY <1>2, <2>2
         DEF InstallListener, RegisterListener, InstallForwarder, RegisterForwarder, connVars
    <2>3. CASE TunEnsurePool(d) \/ TunRegisterClient(d) \/ TunFromClient(d)
               \/ TunRelayEnds(d) \/ TunUnregister(d)
      BY <1>2, <2>3
         DEF TunEnsurePool, TunRegisterClient, RegisterClient, TunFromClient, TunRelayEnds,
             TunUnregister, connVars
    <2>4. CASE HandshakeFails(d) \/ AssignIndex(d) \/ BumpNextIndex(d)
               \/ CheckListenerLimit(d) \/ ResolveForwarderIndex(d)
               \/ LookupListener(d) \/ CheckProtocolMatch(d)
      BY <1>2, <2>4
         DEF HandshakeFails, AssignIndex, BumpNextIndex, CheckListenerLimit,
             ResolveForwarderIndex, LookupListener, CheckProtocolMatch, connVars
    <2>5. CASE StoreMeta(d) \/ NotifyPeerChange(d) \/ RelayFromForwarder(d)
               \/ RelayEnds(d) \/ RemoveMeta(d)
      BY <1>2, <2>5
         DEF StoreMeta, NotifyPeerChange, RelayFromForwarder, RelayEnds, RemoveMeta, connVars
    <2> QED BY <1>5, <1>6, <1>8, <1>9, <1>13, <2>1, <2>2, <2>3, <2>4, <2>5 DEF HandleClient
  <1> QED BY <1>10, <1>11, <1>12, <1>13 DEF Next

\* The roles and indices a frame was sent under are those of its ends for good.
LEMMA DataStep ==
    ASSUME RelayInvariant, Next
    PROVE  Isolation' /\ DataSettled'
  <1>1. ASSUME NEW c \in Conns, NEW k \in 1..Len(out'[c]), out'[c][k].type = "Data"
        PROVE  \E s \in Conns :
               /\ s = out'[c][k].from
               /\ Settled(c)' /\ Settled(s)'
               /\ IsListener(s)' # IsListener(c)'
               /\ idx'[s] = idx'[c]
    <2>1. PICK s \in Conns :
            /\ s = out'[c][k].from
            /\ Settled(c) /\ Settled(s)
            /\ IsListener(s) # IsListener(c) /\ idx[s] = idx[c]
      BY <1>1, LogStep DEF Proper
    <2>2. Settled(s)' /\ idx'[s] = idx[s] /\ req' = req
      BY <2>1, IndexStays DEF RelayInvariant
    <2>3. Settled(c)' /\ idx'[c] = idx[c]
      BY <2>1, IndexStays DEF RelayInvariant
    <2>4. IsListener(s)' = IsListener(s) /\ IsListener(c)' = IsListener(c)
      BY <2>2 DEF IsListener
    <2>5. IsListener(s)' # IsListener(c)'
      BY <2>1, <2>4
    <2>6. idx'[s] = idx'[c]
      BY <2>1, <2>2, <2>3
    <2> QED BY <2>1, <2>2, <2>3, <2>5, <2>6
  <1>2. Isolation'
    BY <1>1 DEF Isolation
  <1>3. DataSettled'
    BY <1>1 DEF DataSettled, Settled
  <1> QED BY <1>2, <1>3

-------------------------------------------------------------------------------

\* An empty server satisfies the invariant.
LEMMA InvariantInit ==
    ASSUME Init
    PROVE  RelayInvariant
  <1>1. TypeOK /\ IndexGiven
    BY TypeInit
  <1>2. TableHoldsTheLiving /\ TableSettled
    BY ConnsAssumption
       DEF ConnsAssumption, Init, NewPeerMap, TableHoldsTheLiving, TableSettled
  <1>3. HeldIsAListener /\ Isolation /\ DataSettled
    BY DEF Init, ConnsInit, HeldIsAListener, Isolation, DataSettled
  <1> QED BY <1>1, <1>2, <1>3 DEF RelayInvariant

\* The invariant is inductive: every step, and every stutter, keeps it.
LEMMA InvariantStep ==
    ASSUME RelayInvariant, [Next]_vars
    PROVE  RelayInvariant'
  <1>1. CASE Next
    BY <1>1, ConnsStep, PeersStep, TunStep, RegStep, SrvStep, IndexStep, TableStep, HeldStep,
       DataStep DEF RelayInvariant, TypeOK
  <1>2. CASE UNCHANGED vars
    <2>1. (TypeOK /\ IndexGiven)'
      BY <1>2 DEF vars, connVars, peerVars, tunVars, regVars, srvVars, TypeOK, ConnsTypeOK,
                  PeerMapTypeOK, TunTypeOK, RegTypeOK, SrvTypeOK, IndexGiven, Settled,
                  RelayInvariant
    <2>2. (TableHoldsTheLiving /\ TableSettled)'
      BY <1>2 DEF vars, peerVars, regVars, TableHoldsTheLiving, TableSettled, Registered,
                  Settled, IsListener, IsTun, RelayInvariant
    <2>3. (HeldIsAListener /\ Isolation /\ DataSettled)'
      BY <1>2 DEF vars, connVars, regVars, HeldIsAListener, Isolation, DataSettled, Settled,
                  IsListener, RelayInvariant
    <2> QED BY <2>1, <2>2, <2>3 DEF RelayInvariant
  <1> QED BY <1>1, <1>2

\* The inductive invariant holds of every execution.
THEOREM InvariantHolds == Spec => []RelayInvariant
  <1>1. Init => RelayInvariant
    BY InvariantInit
  <1>2. RelayInvariant /\ [Next]_vars => RelayInvariant'
    BY InvariantStep
  <1> QED BY <1>1, <1>2, PTL DEF Spec

\* The pairing table never leads to a connection whose goroutine has cleaned up, of
\* the wrong role or of another index, in whatever order the goroutines register,
\* take over and leave.
THEOREM TableIsSound == Spec => []TableHoldsTheLiving
  <1>1. RelayInvariant => TableHoldsTheLiving
    BY DEF RelayInvariant
  <1> QED BY <1>1, InvariantHolds, PTL

\* No connection is ever sent the data of another index or of its own role.
THEOREM RelayIsIsolated == Spec => []Isolation
  <1>1. RelayInvariant => Isolation
    BY DEF RelayInvariant
  <1> QED BY <1>1, InvariantHolds, PTL

===============================================================================
