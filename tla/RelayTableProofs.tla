--------------------------- MODULE RelayTableProofs ---------------------------
(***************************************************************************)
(* Proofs about the relay server, for every number of connections,         *)
(* indices, requests, networks and packets.                                *)
(*                                                                         *)
(* The TUN context: the network of the pool is fixed, the two tables of    *)
(* routes agree, every address given out lies in the pool, and a packet    *)
(* reaches only the client whose address it carries.                       *)
(*                                                                         *)
(* The life of a registration: the metadata follows the pairing table, a   *)
(* refused registration leaves nothing behind, only a takeover closes a    *)
(* connection, no forwarder is unpaired in silence, and the console is not *)
(* left outdated.                                                          *)
(*                                                                         *)
(* Addresses: for networks of every size, clients have usable addresses of *)
(* their own, where the routes expect them.                                *)
(***************************************************************************)
EXTENDS RelayServerProofs, RelayAddresses, WellFoundedInduction

-------------------------------------------------------------------------------
(* The inductive invariant behind RoutesAgree, RoutesInPool and                *)
(* PacketsReachTheirAddress.                                                   *)

\* Only a TUN client comes to the pool, and to its route only through a pool.
PoolBeforeRoute ==
    \A c \in Conns : /\ pc[c] \in {"pool", "route"} => IsTun(c)
                     /\ pc[c] = "route" => cidr # NoCidr

\* The packet tunReadLoop holds was looked up for the address of its peer.
PacketIsRouted ==
    packet.peer # NoConn =>
        /\ IsTun(packet.peer)
        /\ Settled(packet.peer)
        /\ packet.host = ClientIP(idx[packet.peer])

PacketsSettled ==
    \A c \in Conns : \A k \in 1..Len(out[c]) : out[c][k].type = "DataTUN" => Settled(c)

TunInvariant ==
    /\ RoutesAgree
    /\ RoutesInPool
    /\ PoolBeforeRoute
    /\ PacketIsRouted
    /\ PacketsReachTheirAddress
    /\ PacketsSettled

-------------------------------------------------------------------------------
(* Who writes the TUN context. *)

\* The TUN context is written by the reader of the device and by four actions.
LEMMA TunWriters ==
    ASSUME Next
    PROVE  \/ UNCHANGED tunVars
           \/ TunReadLoop
           \/ \E d \in Conns : \/ TunEnsurePool(d) \/ TunPoolFails(d)
                               \/ TunRegisterClient(d) \/ TunUnregister(d)
  BY ZenonT(60) DEF Next, Client, ClientSend, ClientGone, Handshake, ServerAuthRejects, RejectTun,
         DispatchReg, HandleClient, HandshakeFails, AssignIndex, BumpNextIndex,
         CheckListenerLimit, TooManyListeners, ResolveForwarderIndex, NoSingleListener,
         LookupListener, CheckProtocolMatch, ProtocolMismatch, TunOutOfRange,
         InstallListener, InstallForwarder, StoreMeta, NotifyPeerChange, SendRegOK,
         RelayFromListener, RelayFromForwarder, SendToListener, RelayEnds, Unregister,
         RemoveMeta, TunFromClient, TunRelayEnds

\* Once there is a network it stays.
LEMMA PoolStep ==
    ASSUME Next, cidr # NoCidr
    PROVE  cidr' = cidr
  <1>1. CASE UNCHANGED tunVars
    BY <1>1 DEF tunVars
  <1>2. CASE TunReadLoop
    BY <1>2 DEF TunReadLoop, TunLookup, TunDeliver
  <1>3. ASSUME NEW d \in Conns, TunEnsurePool(d) \/ TunPoolFails(d) PROVE cidr' = cidr
    BY <1>3 DEF TunEnsurePool, EnsurePool, TunPoolFails, EnsurePoolFails
  <1>4. ASSUME NEW d \in Conns, TunRegisterClient(d) \/ TunUnregister(d) PROVE cidr' = cidr
    BY <1>4 DEF TunRegisterClient, RegisterClient, TunUnregister, UnregisterClient
  <1> QED BY <1>1, <1>2, <1>3, <1>4, TunWriters

\* The address pool is created once: no registration, whatever network it names,
\* changes the network the server's clients have their addresses in.
THEOREM PoolNeverChanges == Spec => PoolIsFixed
  <1>1. [Next]_vars => [cidr # NoCidr => cidr' = cidr]_vars
    BY PoolStep
  <1> QED BY <1>1, PTL DEF Spec, PoolIsFixed

-------------------------------------------------------------------------------
(* Routes. *)

\* Different clients have different addresses.
LEMMA AddressesDiffer ==
    ASSUME NEW i \in Index, NEW j \in Index, ClientIP(i) = ClientIP(j)
    PROVE  i = j
  BY IndexAssumption DEF ClientIP, Index, IndexAssumption

\* Zero is no client's address.
LEMMA AddressesAreNotNil ==
    ASSUME NEW i \in Index
    PROVE  ClientIP(i) # NoIP /\ ClientIP(i) \in Hosts
  BY IndexAssumption DEF ClientIP, Index, NoIP, Hosts, IndexAssumption

\* A TUN client is a listener.
LEMMA TunListens ==
    ASSUME TypeOK, NEW c \in Conns, IsTun(c)
    PROVE  IsListener(c)
  BY RequestsOK DEF RequestsAssumption, TypeOK, RegTypeOK, IsTun, IsListener

Routed(c) == pc[c] \in {"install", "meta", "regok", "tunRelay", "tunLeave"}

\* A TUN client goes on to serverTUNRelayLoop, whose last step is UnregisterClient.
LEMMA StaysRouted ==
    ASSUME TypeOK, Next, NEW c \in Conns, IsTun(c), Routed(c), ~TunUnregister(c)
    PROVE  Routed(c)'
  <1> USE DEF Routed
  <1>1. CASE ~Handshake(c) /\ ~HandleClient(c)
    BY <1>1, OthersWait
  <1>2. ~Handshake(c)
    BY DEF Handshake, ServerAuthRejects, RejectTun, DispatchReg
  <1>3. CASE InstallListener(c) \/ StoreMeta(c) \/ SendRegOK(c)
    BY <1>3 DEF TypeOK, RegTypeOK, InstallListener, StoreMeta, SendRegOK, Goto
  <1>4. CASE TunFromClient(c) \/ TunRelayEnds(c)
    BY <1>4 DEF TypeOK, RegTypeOK, TunFromClient, TunRelayEnds, Goto
  <1>5. ~InstallForwarder(c)
    BY TunListens DEF InstallForwarder
  <1> QED BY <1>1, <1>2, <1>3, <1>4, <1>5
          DEF HandleClient, HandshakeFails, AssignIndex, BumpNextIndex, CheckListenerLimit,
              TooManyListeners, ResolveForwarderIndex, NoSingleListener, LookupListener,
              CheckProtocolMatch, ProtocolMismatch, TunEnsurePool, TunPoolFails,
              TunRegisterClient, TunOutOfRange, NotifyPeerChange, RelayFromListener,
              RelayFromForwarder, SendToListener, RelayEnds, Unregister, RemoveMeta

\* What a step may do to the routes: leave them, install one for a client that
\* has passed the pool, or drop the one of a client that leaves.
LEMMA RoutesStep ==
    ASSUME TypeOK, IndexGiven, Next
    PROVE  \/ UNCHANGED <<ipToTun, indexToIP>> /\ \A d \in Conns : ~TunUnregister(d)
           \/ \E d \in Conns : TunRegisterClient(d) /\ idx[d] \in Index
           \/ \E d \in Conns : TunUnregister(d) /\ idx[d] \in Index
  <1>1. ASSUME NEW d \in Conns, TunRegisterClient(d) \/ TunUnregister(d) PROVE idx[d] \in Index
    BY <1>1 DEF IndexGiven, Settled, TunRegisterClient, TunUnregister
  <1>2. CASE TunReadLoop
    BY <1>2 DEF TunReadLoop, TunLookup, TunDeliver, TunUnregister, Return, Goto, regVars,
                TypeOK, RegTypeOK
  <1>3. ASSUME NEW d \in Conns, TunEnsurePool(d) \/ TunPoolFails(d)
        PROVE  UNCHANGED <<ipToTun, indexToIP>>
    BY <1>3 DEF TunEnsurePool, EnsurePool, TunPoolFails, EnsurePoolFails
  <1>4. CASE \E d \in Conns : TunUnregister(d)
    BY <1>1, <1>4
  <1>5. CASE ~\E d \in Conns : TunUnregister(d)
    BY <1>1, <1>2, <1>3, <1>5, TunWriters DEF tunVars
  <1> QED BY <1>4, <1>5

\* A route after a step is an old one of a client that has not left, or a new one.
LEMMA RouteEntries ==
    ASSUME TypeOK, IndexGiven, RoutesAgree, PoolBeforeRoute, Next,
           NEW h \in Hosts, NEW c \in Conns, ipToTun'[h] = c
    PROVE  /\ indexToIP'[idx'[c]] = h
           /\ Settled(c)'
           /\ IsTun(c)'
           /\ Routed(c)'
  <1>1. CASE ipToTun[h] = c /\ ~TunUnregister(c) /\ indexToIP'[idx[c]] = h
    <2>1. IsTun(c) /\ Routed(c)
      BY <1>1 DEF RoutesAgree, Routed
    <2>2. Settled(c)' /\ idx'[c] = idx[c] /\ req' = req
      BY <2>1, IndexStays DEF Routed, Settled
    <2> QED BY <1>1, <2>1, <2>2, StaysRouted DEF IsTun
  <1>2. CASE TunRegisterClient(c) /\ h = ClientIP(idx[c]) /\ idx[c] \in Index
    BY <1>2 DEF TunRegisterClient, RegisterClient, Goto, TypeOK, RegTypeOK, TunTypeOK,
                Settled, Routed, IsTun, PoolBeforeRoute
  <1>3. CASE UNCHANGED <<ipToTun, indexToIP>> /\ \A d \in Conns : ~TunUnregister(d)
    BY <1>1, <1>3 DEF RoutesAgree
  <1>4. ASSUME NEW d \in Conns, TunRegisterClient(d), idx[d] \in Index
        PROVE  \/ d = c /\ h = ClientIP(idx[c])
               \/ ipToTun[h] = c /\ ~TunUnregister(c) /\ indexToIP'[idx[c]] = h
    <2>1. CASE h = ClientIP(idx[d])
      BY <1>4, <2>1 DEF TunRegisterClient, RegisterClient, TypeOK, TunTypeOK
    <2>2. CASE h # ClientIP(idx[d])
      <3>1. ipToTun[h] = c /\ h # indexToIP[idx[d]]
        BY <1>4, <2>2, ConnsAssumption
           DEF ConnsAssumption, TunRegisterClient, RegisterClient, TypeOK, TunTypeOK
      <3>2. indexToIP[idx[c]] = h /\ idx[c] \in Index
        BY <3>1 DEF RoutesAgree, IndexGiven, Settled
      <3>3. indexToIP'[idx[c]] = h
        BY <1>4, <3>1, <3>2 DEF TunRegisterClient, RegisterClient, TypeOK, TunTypeOK
      <3>4. ~TunUnregister(c)
        BY <1>4 DEF TunRegisterClient, TunUnregister, Return, Goto, TypeOK, RegTypeOK
      <3> QED BY <3>1, <3>3, <3>4
    <2> QED BY <2>1, <2>2
  <1>5. ASSUME NEW d \in Conns, TunUnregister(d), idx[d] \in Index
        PROVE  ipToTun[h] = c /\ ~TunUnregister(c) /\ indexToIP'[idx[c]] = h
    <2>1. ipToTun[h] = c /\ h # indexToIP[idx[d]]
      BY <1>5, ConnsAssumption
         DEF ConnsAssumption, TunUnregister, UnregisterClient, TypeOK, TunTypeOK
    <2>2. indexToIP[idx[c]] = h /\ idx[c] \in Index
      BY <2>1 DEF RoutesAgree, IndexGiven, Settled
    <2>3. indexToIP'[idx[c]] = h
      BY <1>5, <2>1, <2>2 DEF TunUnregister, UnregisterClient, TypeOK, TunTypeOK
    <2>4. ~TunUnregister(c)
      BY <1>5, <2>1, <2>2 DEF TunUnregister, Return, Goto, TypeOK, RegTypeOK
    <2> QED BY <2>1, <2>3, <2>4
  <1> QED BY <1>1, <1>2, <1>3, <1>4, <1>5, RoutesStep

\* An index with an address has that of its own and a route to it.
LEMMA AddressEntries ==
    ASSUME TypeOK, IndexGiven, RoutesAgree, Next, NEW i \in Index, indexToIP'[i] # NoIP
    PROVE  indexToIP'[i] = ClientIP(i) /\ ipToTun'[ClientIP(i)] # NoConn
  <1>1. CASE UNCHANGED <<ipToTun, indexToIP>>
    BY <1>1 DEF RoutesAgree
  <1>2. ASSUME NEW d \in Conns, TunRegisterClient(d), idx[d] \in Index
        PROVE  indexToIP'[i] = ClientIP(i) /\ ipToTun'[ClientIP(i)] # NoConn
    <2>1. CASE i = idx[d]
      BY <1>2, <2>1, ConnsAssumption, AddressesAreNotNil
         DEF ConnsAssumption, TunRegisterClient, RegisterClient, TypeOK, TunTypeOK
    <2>2. CASE i # idx[d]
      <3>1. indexToIP[i] # NoIP /\ indexToIP'[i] = indexToIP[i]
        BY <1>2, <2>2 DEF TunRegisterClient, RegisterClient, TypeOK, TunTypeOK
      <3>2. indexToIP[i] = ClientIP(i) /\ ipToTun[ClientIP(i)] # NoConn
        BY <3>1 DEF RoutesAgree
      <3>3. indexToIP[idx[d]] # ClientIP(i)
        BY <1>2, <2>2, AddressesDiffer, AddressesAreNotNil DEF RoutesAgree
      <3> QED BY <1>2, <2>2, <3>1, <3>2, <3>3, ConnsAssumption, AddressesAreNotNil
              DEF ConnsAssumption, TunRegisterClient, RegisterClient
    <2> QED BY <2>1, <2>2
  <1>3. ASSUME NEW d \in Conns, TunUnregister(d), idx[d] \in Index
        PROVE  indexToIP'[i] = ClientIP(i) /\ ipToTun'[ClientIP(i)] # NoConn
    <2>1. i # idx[d] /\ indexToIP[i] # NoIP /\ indexToIP'[i] = indexToIP[i]
      BY <1>3 DEF TunUnregister, UnregisterClient, TypeOK, TunTypeOK
    <2>2. indexToIP[i] = ClientIP(i) /\ ipToTun[ClientIP(i)] # NoConn
      BY <2>1 DEF RoutesAgree
    <2>3. indexToIP[idx[d]] # ClientIP(i)
      BY <1>3, <2>1, AddressesDiffer, AddressesAreNotNil DEF RoutesAgree
    <2> QED BY <1>3, <2>1, <2>2, <2>3, AddressesAreNotNil DEF TunUnregister, UnregisterClient
  <1> QED BY <1>1, <1>2, <1>3, RoutesStep

\* A registration comes to "pool" from the limit and to "route" from the pool.
LEMMA PoolEntries ==
    ASSUME TypeOK, Next, NEW c \in Conns, pc'[c] \in {"pool", "route"}, pc'[c] # pc[c]
    PROVE  CheckListenerLimit(c) \/ TunEnsurePool(c)
  <1>1. Handshake(c) \/ HandleClient(c)
    BY OthersWait
  <1>2. ~Handshake(c)
    BY DEF Handshake, ServerAuthRejects, RejectTun, DispatchReg, Refuse, Return, Goto,
           TypeOK, RegTypeOK
  <1> QED BY <1>1, <1>2
          DEF HandleClient, HandshakeFails, AssignIndex, BumpNextIndex, TooManyListeners,
              ResolveForwarderIndex, NoSingleListener, LookupListener, CheckProtocolMatch,
              ProtocolMismatch, TunPoolFails, TunRegisterClient, TunOutOfRange,
              InstallListener, InstallForwarder, StoreMeta, NotifyPeerChange, SendRegOK,
              RelayFromListener, RelayFromForwarder, SendToListener, RelayEnds, Unregister,
              RemoveMeta, TunFromClient, TunRelayEnds, TunUnregister, Refuse, Return, Goto,
              TypeOK, RegTypeOK, regVars

\* There is a pool when a registration comes to its route.
LEMMA PoolBeforeRouteStep ==
    ASSUME TypeOK, PoolBeforeRoute, Next
    PROVE  PoolBeforeRoute'
  <1> SUFFICES ASSUME NEW c \in Conns, pc'[c] \in {"pool", "route"}
               PROVE  IsTun(c)' /\ (pc'[c] = "route" => cidr' # NoCidr)
    BY DEF PoolBeforeRoute
  <1>1. CASE pc'[c] = pc[c]
    <2>1. IsTun(c) /\ (pc[c] = "route" => cidr # NoCidr)
      BY <1>1 DEF PoolBeforeRoute
    <2>2. req' = req
      BY <1>1, IndexStays DEF Settled
    <2> QED BY <1>1, <2>1, <2>2, PoolStep DEF IsTun
  <1>2. CASE CheckListenerLimit(c)
    BY <1>2 DEF CheckListenerLimit, Goto, TypeOK, RegTypeOK, IsTun
  <1>3. CASE TunEnsurePool(c)
    BY <1>3, CidrAssumption DEF CidrAssumption, TunEnsurePool, EnsurePool, PoolBeforeRoute, IsTun
  <1> QED BY <1>1, <1>2, <1>3, PoolEntries

\* An address is given only within the capacity of the pool.
LEMMA RoutesInPoolStep ==
    ASSUME TypeOK, IndexGiven, PoolBeforeRoute, RoutesInPool, Next
    PROVE  RoutesInPool'
  <1> SUFFICES ASSUME NEW i \in Index, indexToIP'[i] # NoIP
               PROVE  cidr' # NoCidr /\ InPool(i)'
    BY DEF RoutesInPool
  <1>1. CASE indexToIP[i] # NoIP
    BY <1>1, PoolStep DEF RoutesInPool, InPool
  <1>2. CASE indexToIP[i] = NoIP
    <2>1. CASE UNCHANGED <<ipToTun, indexToIP>>
      BY <1>2, <2>1
    <2>2. ASSUME NEW d \in Conns, TunRegisterClient(d), idx[d] \in Index
          PROVE  cidr # NoCidr /\ InPool(i)
      <3>1. idx[d] = i
        BY <1>2, <2>2 DEF TunRegisterClient, RegisterClient, TypeOK, TunTypeOK
      <3> QED BY <2>2, <3>1 DEF TunRegisterClient, PoolBeforeRoute
    <2>3. ASSUME NEW d \in Conns, TunUnregister(d) PROVE FALSE
      BY <1>2, <2>3 DEF TunUnregister, UnregisterClient, TypeOK, TunTypeOK
    <2> QED BY <2>1, <2>2, <2>3, RoutesStep, PoolStep DEF InPool
  <1> QED BY <1>1, <1>2

-------------------------------------------------------------------------------
(* Packets. *)

\* Only tunReadLoop touches the packet in its hand.
LEMMA PacketStep ==
    ASSUME Next
    PROVE  packet' = packet \/ TunLookup \/ TunDeliver
  <1>1. ASSUME NEW d \in Conns, TunEnsurePool(d) \/ TunPoolFails(d) PROVE packet' = packet
    BY <1>1 DEF TunEnsurePool, EnsurePool, TunPoolFails, EnsurePoolFails
  <1>2. ASSUME NEW d \in Conns, TunRegisterClient(d) \/ TunUnregister(d) PROVE packet' = packet
    BY <1>2 DEF TunRegisterClient, RegisterClient, TunUnregister, UnregisterClient
  <1> QED BY <1>1, <1>2, TunWriters DEF tunVars, TunReadLoop

\* What tunReadLoop holds between its lookup and its send was routed at the lookup,
\* and the address of a client never changes.
LEMMA PacketIsRoutedStep ==
    ASSUME TypeOK, IndexGiven, RoutesAgree, PacketIsRouted, Next
    PROVE  PacketIsRouted'
  <1>1. ASSUME packet' = packet PROVE PacketIsRouted'
    <2>1. CASE packet.peer = NoConn
      BY <1>1, <2>1 DEF PacketIsRouted
    <2>2. CASE packet.peer # NoConn
      <3>1. PICK p \in Conns : p = packet.peer
        BY <2>2 DEF TypeOK, TunTypeOK
      <3>2. IsTun(p) /\ Settled(p) /\ packet.host = ClientIP(idx[p])
        BY <2>2, <3>1 DEF PacketIsRouted
      <3>3. Settled(p)' /\ idx'[p] = idx[p] /\ req' = req
        BY <3>2, IndexStays
      <3> QED BY <1>1, <3>1, <3>2, <3>3 DEF PacketIsRouted, IsTun, Settled
    <2> QED BY <2>1, <2>2
  <1>2. CASE TunDeliver
    BY <1>2 DEF TunDeliver, NoPacket, PacketIsRouted
  <1>3. CASE TunLookup
    <2>1. PICK h \in Hosts : ipToTun[h] # NoConn /\ packet' = [peer |-> ipToTun[h], host |-> h]
      BY <1>3 DEF TunLookup
    <2>2. PICK p \in Conns : p = ipToTun[h]
      BY <2>1 DEF TypeOK, TunTypeOK
    <2>3. indexToIP[idx[p]] = h /\ IsTun(p) /\ Settled(p) /\ idx[p] \in Index
      BY <2>2 DEF RoutesAgree, IndexGiven, Settled
    <2>4. h = ClientIP(idx[p])
      BY <2>1, <2>3, AddressesAreNotNil DEF RoutesAgree, Hosts, ClientIP, Index, NoIP
    <2>5. Settled(p)' /\ idx'[p] = idx[p] /\ req' = req
      BY <2>2, <2>3, IndexStays
    <2>6. packet' = [peer |-> p, host |-> h]
      BY <2>1, <2>2
    <2> QED BY <2>3, <2>4, <2>5, <2>6 DEF PacketIsRouted, IsTun, Settled
  <1> QED BY <1>1, <1>2, <1>3, PacketStep

\* A refusal is an error frame.
Refused(d) ==
    \/ ServerAuthRejects(d) \/ RejectTun(d) \/ TooManyListeners(d) \/ NoSingleListener(d)
    \/ ProtocolMismatch(d) \/ TunPoolFails(d) \/ TunOutOfRange(d)

\* What a step does to the logs: nothing, or it writes one frame, or two to a TUN client
\* that is turned away; only a refusal
\* writes an error, only SendRegOK a RegOK, only tunReadLoop an IP packet and only the
\* two relaying steps data.
LEMMA LogWriters ==
    ASSUME TypeOK, IndexGiven, Next
    PROVE  \/ UNCHANGED out
           \/ \E S \in SUBSET (Conns \cup {NoConn}), f \in Frames :
                  /\ out' = Written(S, f)
                  /\ f.type \in {"Data", "AuthOK", "PeerLeave"}
                  /\ f.type = "Data" => \E d \in Conns : RelayFromListener(d) \/ SendToListener(d)
           \/ \E d \in Conns : Refused(d) /\ Refuse(d)
           \/ \E d \in Conns : RejectTun(d)
           \/ \E d \in Conns : SendRegOK(d)
           \/ TunReadLoop /\ TunDeliver
  <1> DEFINE Plain == \E S \in SUBSET (Conns \cup {NoConn}), f \in Frames :
                 /\ out' = Written(S, f)
                 /\ f.type \in {"Data", "AuthOK", "PeerLeave"}
                 /\ f.type = "Data" => \E d \in Conns : RelayFromListener(d) \/ SendToListener(d)
             Quiet == UNCHANGED out
  <1> USE DEF TypeOK
  <1>1. ASSUME NEW d \in Conns, Client(d) PROVE Quiet
    BY <1>1 DEF Client, ClientSend, ClientGone
  <1>2. ASSUME NEW d \in Conns, DispatchReg(d) PROVE Plain
    <2>1. Frame("AuthOK", NoConn, 0) \in Frames
      BY FramesAreTyped DEF FrameType
    <2> QED BY <1>2, <2>1 DEF DispatchReg, Frame
  <1>3. ASSUME NEW d \in Conns, Refused(d) PROVE Refuse(d) \/ RejectTun(d)
    BY <1>3 DEF Refused, ServerAuthRejects, TooManyListeners, NoSingleListener,
                ProtocolMismatch, TunPoolFails, TunOutOfRange
  <1>4. ASSUME NEW d \in Conns, RelayFromListener(d) PROVE Plain
    <2>1. DataFrame(d) \in Frames
      BY FramesAreTyped DEF DataFrame, FrameType, ConnsTypeOK
    <2>2. forwarders[idx[d]] \in SUBSET (Conns \cup {NoConn})
      BY <1>4 DEF RelayFromListener, IndexGiven, Settled, PeerMapTypeOK
    <2>3. out' = Written(forwarders[idx[d]], DataFrame(d))
      BY <1>4 DEF RelayFromListener, BroadcastFromListener
    <2> QED BY <1>4, <2>1, <2>2, <2>3 DEF DataFrame, Frame
  <1>5. ASSUME NEW d \in Conns, SendToListener(d) PROVE Plain
    <2>1. Frame("Data", d, read[d]) \in Frames
      BY FramesAreTyped DEF FrameType, ConnsTypeOK
    <2>2. {held[d]} \in SUBSET (Conns \cup {NoConn})
      BY DEF RegTypeOK
    <2>3. out' = Written({held[d]}, Frame("Data", d, read[d]))
      BY <1>5 DEF SendToListener
    <2> QED BY <1>5, <2>1, <2>2, <2>3 DEF Frame
  <1>6. ASSUME NEW d \in Conns, Unregister(d) PROVE Plain \/ Quiet
    <2>1. Frame("PeerLeave", NoConn, 0) \in Frames
      BY FramesAreTyped DEF FrameType
    <2>2. /\ forwarders[idx[d]] \in SUBSET (Conns \cup {NoConn})
          /\ {listeners[idx[d]]} \in SUBSET (Conns \cup {NoConn})
      BY <1>6 DEF Unregister, IndexGiven, Settled, PeerMapTypeOK
    <2>3. \E S \in {forwarders[idx[d]], {listeners[idx[d]]}} :
              Quiet \/ out' = Written(S, Frame("PeerLeave", NoConn, 0))
      BY <1>6 DEF Unregister, UnregisterListener, UnregisterForwarder
    <2> QED BY <2>1, <2>2, <2>3 DEF Frame
  <1>7. CASE TunReadLoop
    BY <1>7 DEF TunReadLoop, connVars
  <1>8. ASSUME NEW d \in Conns, InstallListener(d) \/ InstallForwarder(d) PROVE Quiet
    BY <1>8 DEF InstallListener, RegisterListener, InstallForwarder, RegisterForwarder, connVars
  <1>9. ASSUME NEW d \in Conns,
               TunEnsurePool(d) \/ TunRegisterClient(d) \/ TunFromClient(d)
               \/ TunRelayEnds(d) \/ TunUnregister(d)
        PROVE  Quiet
    BY <1>9 DEF TunEnsurePool, TunRegisterClient, RegisterClient, TunFromClient, TunRelayEnds,
                TunUnregister, connVars
  <1>10. ASSUME NEW d \in Conns,
                HandshakeFails(d) \/ AssignIndex(d) \/ BumpNextIndex(d)
                \/ CheckListenerLimit(d) \/ ResolveForwarderIndex(d)
                \/ LookupListener(d) \/ CheckProtocolMatch(d)
         PROVE  Quiet
    BY <1>10 DEF HandshakeFails, AssignIndex, BumpNextIndex, CheckListenerLimit,
                 ResolveForwarderIndex, LookupListener, CheckProtocolMatch, connVars
  <1>11. ASSUME NEW d \in Conns,
                StoreMeta(d) \/ NotifyPeerChange(d) \/ RelayFromForwarder(d)
                \/ RelayEnds(d) \/ RemoveMeta(d)
         PROVE  Quiet
    BY <1>11 DEF StoreMeta, NotifyPeerChange, RelayFromForwarder, RelayEnds, RemoveMeta, connVars
  <1>12. CASE \E d \in Conns : Refused(d)
    BY <1>3, <1>12
  <1> HIDE DEF Plain, Quiet, TypeOK
  <1>13. CASE \E d \in Conns : Handshake(d)
    BY <1>2, <1>12, <1>13 DEF Handshake, Refused, Plain
  <1>14. CASE \E d \in Conns : HandleClient(d)
    <2>1. PICK d \in Conns : HandleClient(d)
      BY <1>14
    <2>2. Plain \/ Quiet \/ Refused(d) \/ SendRegOK(d)
      BY <2>1, <1>4, <1>5, <1>6, <1>8, <1>9, <1>10, <1>11 DEF HandleClient, Refused
    <2> QED BY <1>12, <2>2 DEF Plain, Quiet
  <1> QED BY <1>1, <1>7, <1>13, <1>14 DEF Next, Quiet

\* Every frame of a log after a step was there before, or is the one this step has
\* written and tells by its type who wrote it.
LEMMA FrameOrigin ==
    ASSUME TypeOK, IndexGiven, Next, NEW c \in Conns, NEW k \in 1..Len(out'[c])
    PROVE  \/ k \in 1..Len(out[c]) /\ out'[c][k] = out[c][k]
           \/ out'[c][k].type \in {"AuthOK", "PeerLeave"}
           \/ out'[c][k].type = "Data" /\ \E d \in Conns : RelayFromListener(d) \/ SendToListener(d)
           \/ out'[c][k].type = "Error" /\ Refused(c)
           \/ out'[c][k].type = "RegOK" /\ SendRegOK(c)
           \/ TunDeliver /\ c = packet.peer /\ out'[c][k] = Frame("DataTUN", NoConn, packet.host)
  <1>1. ASSUME NEW S, NEW f \in Frames, out' = Written(S, f)
        PROVE  (k \in 1..Len(out[c]) /\ out'[c][k] = out[c][k]) \/ (c \in S /\ out'[c][k] = f)
    BY <1>1, NewestIsWritten DEF TypeOK
  <1>2. CASE UNCHANGED out
    BY <1>2
  <1>3. ASSUME NEW S \in SUBSET (Conns \cup {NoConn}), NEW f \in Frames, out' = Written(S, f),
               f.type \in {"Data", "AuthOK", "PeerLeave"},
               f.type = "Data" => \E d \in Conns : RelayFromListener(d) \/ SendToListener(d)
        PROVE  \/ k \in 1..Len(out[c]) /\ out'[c][k] = out[c][k]
               \/ out'[c][k].type \in {"AuthOK", "PeerLeave"}
               \/ out'[c][k].type = "Data" /\ \E d \in Conns : RelayFromListener(d) \/ SendToListener(d)
    BY <1>1, <1>3
  <1>4. ASSUME NEW d \in Conns, Refused(d), Refuse(d)
        PROVE  \/ k \in 1..Len(out[c]) /\ out'[c][k] = out[c][k]
               \/ out'[c][k].type = "Error" /\ d = c
    <2>1. Frame("Error", NoConn, 0) \in Frames
      BY FramesAreTyped DEF FrameType
    <2>2. \/ k \in 1..Len(out[c]) /\ out'[c][k] = out[c][k]
          \/ c \in {d} /\ out'[c][k] = Frame("Error", NoConn, 0)
      BY <1>1, <1>4, <2>1 DEF Refuse
    <2> QED BY <2>2 DEF Frame
  <1>7. ASSUME NEW d \in Conns, RejectTun(d)
        PROVE  \/ k \in 1..Len(out[c]) /\ out'[c][k] = out[c][k]
               \/ out'[c][k].type = "AuthOK"
               \/ out'[c][k].type = "Error" /\ Refused(c)
    <2>1. \/ k \in 1..Len(out[c]) /\ out'[c][k] = out[c][k]
          \/ c = d /\ out'[c][k] \in {Frame("AuthOK", NoConn, 0), Frame("Error", NoConn, 0)}
      BY <1>7, TurnedAway DEF TypeOK
    <2> QED BY <1>7, <2>1 DEF Frame, Refused
  <1>5. ASSUME NEW d \in Conns, SendRegOK(d)
        PROVE  \/ k \in 1..Len(out[c]) /\ out'[c][k] = out[c][k]
               \/ out'[c][k].type = "RegOK" /\ d = c
    <2>1. idx[d] \in Nat
      BY <1>5 DEF SendRegOK, IndexGiven, Settled, Index
    <2>2. Frame("RegOK", NoConn, idx[d]) \in Frames
      BY <2>1, FramesAreTyped DEF FrameType
    <2>3. \/ k \in 1..Len(out[c]) /\ out'[c][k] = out[c][k]
          \/ c \in {d} /\ out'[c][k] = Frame("RegOK", NoConn, idx[d])
      BY <1>1, <1>5, <2>2 DEF SendRegOK
    <2> QED BY <2>3 DEF Frame
  <1>6. CASE TunDeliver
    <2>1. packet.host \in Nat
      BY DEF TypeOK, TunTypeOK, Hosts, ClientIP, NoIP, Index
    <2>2. Frame("DataTUN", NoConn, packet.host) \in Frames
      BY <2>1, FramesAreTyped DEF FrameType
    <2> QED BY <1>1, <1>6, <2>2 DEF TunDeliver
  <1> QED BY <1>2, <1>3, <1>4, <1>5, <1>6, <1>7, LogWriters

\* An IP packet goes to the client whose address it carries, and the client keeps
\* its address.
LEMMA PacketsStep ==
    ASSUME TypeOK, IndexGiven, PacketIsRouted, PacketsReachTheirAddress, PacketsSettled, Next
    PROVE  PacketsReachTheirAddress' /\ PacketsSettled'
  <1> SUFFICES ASSUME NEW c \in Conns, NEW k \in 1..Len(out'[c]), out'[c][k].type = "DataTUN"
               PROVE  IsTun(c)' /\ Settled(c)' /\ out'[c][k].n = ClientIP(idx'[c])
    BY DEF PacketsReachTheirAddress, PacketsSettled
  <1> DEFINE Addressed == IsTun(c) /\ Settled(c) /\ out'[c][k].n = ClientIP(idx[c])
  <1>1. ASSUME k \in 1..Len(out[c]), out'[c][k] = out[c][k] PROVE Addressed
    BY <1>1 DEF PacketsReachTheirAddress, PacketsSettled
  <1>2. ASSUME c = packet.peer, out'[c][k] = Frame("DataTUN", NoConn, packet.host) PROVE Addressed
    BY <1>2, ConnsAssumption DEF ConnsAssumption, PacketIsRouted, Frame
  <1>3. Addressed
    BY <1>1, <1>2, FrameOrigin
  <1>4. Settled(c)' /\ idx'[c] = idx[c] /\ req' = req
    BY <1>3, IndexStays
  <1> QED BY <1>3, <1>4 DEF IsTun

-------------------------------------------------------------------------------

LEMMA TunInvariantInit ==
    ASSUME Init
    PROVE  TunInvariant
  <1>1. RoutesAgree /\ RoutesInPool
    BY ConnsAssumption DEF ConnsAssumption, Init, NewServerTUNContext, RoutesAgree, RoutesInPool
  <1>2. PoolBeforeRoute /\ PacketIsRouted
    BY DEF Init, NewServerTUNContext, PoolBeforeRoute, PacketIsRouted, NoPacket
  <1>3. PacketsReachTheirAddress /\ PacketsSettled
    BY DEF Init, ConnsInit, PacketsReachTheirAddress, PacketsSettled
  <1> QED BY <1>1, <1>2, <1>3 DEF TunInvariant

LEMMA TunInvariantStep ==
    ASSUME TypeOK, IndexGiven, TunInvariant, [Next]_vars
    PROVE  TunInvariant'
  <1>1. CASE Next
    <2>1. RoutesAgree'
      BY <1>1, AddressEntries, RouteEntries DEF TunInvariant, RoutesAgree, Routed
    <2> QED BY <1>1, <2>1, RoutesInPoolStep, PoolBeforeRouteStep, PacketIsRoutedStep, PacketsStep
            DEF TunInvariant
  <1>2. CASE UNCHANGED vars
    <2> USE <1>2 DEF TunInvariant, vars
    <2>1. (RoutesAgree /\ RoutesInPool)'
      BY DEF tunVars, regVars, RoutesAgree, RoutesInPool, InPool, IsTun
    <2>2. (PoolBeforeRoute /\ PacketIsRouted)'
      BY DEF tunVars, regVars, PoolBeforeRoute, PacketIsRouted, IsTun, Settled
    <2>3. (PacketsReachTheirAddress /\ PacketsSettled)'
      BY DEF connVars, regVars, PacketsReachTheirAddress, PacketsSettled, IsTun, Settled
    <2> QED BY <2>1, <2>2, <2>3
  <1> QED BY <1>1, <1>2

\* The inductive invariant of the TUN context holds of every execution.
THEOREM TunInvariantHolds == Spec => []TunInvariant
  <1>1. Init => TunInvariant
    BY TunInvariantInit
  <1>2. TypeOK /\ IndexGiven /\ TunInvariant /\ [Next]_vars => TunInvariant'
    BY TunInvariantStep
  <1> QED BY <1>1, <1>2, TypeCorrect, PTL DEF Spec

\* The two tables of routes agree and lead to clients that have not unregistered, and
\* every address given out is one of the pool, whatever registrations replace,
\* outlive or follow one another.
THEOREM RoutesAreSound == Spec => []RoutesAreRight
  <1>1. TunInvariant => RoutesAreRight
    BY DEF TunInvariant, RoutesAreRight
  <1> QED BY <1>1, TunInvariantHolds, PTL

\* A packet of the device is written only to the client whose address it carries,
\* although tunReadLoop sends after it has given up the lock.
THEOREM PacketsAreDelivered == Spec => []PacketsReachTheirAddress
  <1>1. TunInvariant => PacketsReachTheirAddress
    BY DEF TunInvariant
  <1> QED BY <1>1, TunInvariantHolds, PTL

-------------------------------------------------------------------------------
(* The inductive invariant behind MetaFollowsTable, RefusedLeavesNoTrace,      *)
(* OnlyTakeoverCloses and NoSilentUnpairing.                                   *)

\* The stages of HandleClient before storeMeta, and from there to removeMeta.
Unrecorded == {"auth", "assign", "bump", "limit", "pool", "route", "resolve", "match",
               "matchMeta", "install", "meta"}
PeerLoop == {"notify", "relay", "forward", "leave", "notifyLeave", "unmeta"}
TunLoop == {"tunRelay", "tunLeave"}

\* The metadata of a connection is that of the stage its goroutine is in, and TUN
\* clients are in a loop of their own.
MetaByStage ==
    \A c \in Conns :
        /\ pc[c] \in Unrecorded => meta[c] = NoMeta
        /\ pc[c] \in PeerLoop \cup TunLoop \cup {"regok"} => meta[c] = req[c].mode
        /\ pc[c] \in PeerLoop => ~IsTun(c)
        /\ pc[c] \in TunLoop => IsTun(c)

\* A reply tells the stage: an error ends HandleClient, RegOK starts the relay loop.
RepliesByStage ==
    \A c \in Conns :
        /\ Heard(c, "Error") => pc[c] = "done"
        /\ Heard(c, "RegOK") => pc[c] \in (PeerLoop \ {"notify"}) \cup TunLoop \cup {"done"}

TakeoverIsSettled ==
    \A c \in srvClosed : pc[c] = "done" \/
        /\ Settled(c)
        /\ IsListener(c)
        /\ \E d \in Conns \ {c} : Settled(d) /\ IsListener(d) /\ idx[d] = idx[c]

RegistrationInvariant ==
    /\ MetaFollowsTable
    /\ MetaByStage
    /\ RefusedLeavesNoTrace
    /\ RepliesByStage
    /\ TakeoverIsSettled
    /\ NoSilentUnpairing

-------------------------------------------------------------------------------
(* Where the goroutine of a connection goes. *)

\* The stage of a goroutine after a step of its own.
LEMMA StageStep ==
    ASSUME TypeOK, Next, NEW c \in Conns
    PROVE  \/ pc'[c] = pc[c]
           \/ pc[c] \in Unrecorded \ {"meta"} /\ pc'[c] \in Unrecorded
           \/ pc[c] \in Unrecorded \ {"install", "meta"} /\ pc'[c] = "done"
           \/ StoreMeta(c)
           \/ NotifyPeerChange(c)
           \/ SendRegOK(c)
           \/ pc[c] \in {"relay", "forward"} /\ pc'[c] \in {"relay", "forward", "leave"}
           \/ Unregister(c)
           \/ RemoveMeta(c)
           \/ pc[c] = "tunRelay" /\ pc'[c] = "tunLeave"
           \/ TunUnregister(c)
  <1> USE DEF TypeOK, RegTypeOK, Unrecorded
  <1>1. CASE ~Handshake(c) /\ ~HandleClient(c)
    BY <1>1, OthersWait
  <1>2. CASE Handshake(c)
    BY <1>2 DEF Handshake, ServerAuthRejects, RejectTun, DispatchReg, Refuse, Return, Goto
  <1>3. CASE HandleClient(c)
    <2>1. CASE HandshakeFails(c) \/ AssignIndex(c) \/ BumpNextIndex(c)
               \/ CheckListenerLimit(c) \/ TooManyListeners(c)
               \/ ResolveForwarderIndex(c) \/ NoSingleListener(c)
      BY <2>1 DEF HandshakeFails, AssignIndex, BumpNextIndex, CheckListenerLimit,
                  TooManyListeners, ResolveForwarderIndex, NoSingleListener, Refuse, Return, Goto
    <2>2. CASE LookupListener(c) \/ CheckProtocolMatch(c) \/ ProtocolMismatch(c)
               \/ InstallListener(c) \/ InstallForwarder(c)
      BY <2>2 DEF LookupListener, CheckProtocolMatch, ProtocolMismatch, InstallListener,
                  InstallForwarder, Refuse, Return, Goto
    <2>3. CASE TunEnsurePool(c) \/ TunPoolFails(c) \/ TunRegisterClient(c) \/ TunOutOfRange(c)
      BY <2>3 DEF TunEnsurePool, TunPoolFails, TunRegisterClient, TunOutOfRange, Refuse,
                  Return, Goto
    <2>4. CASE RelayFromListener(c) \/ RelayFromForwarder(c) \/ SendToListener(c) \/ RelayEnds(c)
      BY <2>4 DEF RelayFromListener, RelayFromForwarder, SendToListener, RelayEnds, Goto, regVars
    <2>5. CASE TunFromClient(c) \/ TunRelayEnds(c)
      BY <2>5 DEF TunFromClient, TunRelayEnds, Goto
    <2> HIDE DEF TypeOK, RegTypeOK, Unrecorded
    <2> QED BY <1>3, <2>1, <2>2, <2>3, <2>4, <2>5 DEF HandleClient
  <1> QED BY <1>1, <1>2, <1>3

\* Nothing changes what a client asks for.
LEMMA RequestsStay ==
    ASSUME Next
    PROVE  req' = req
  BY ZenonT(60) DEF Next, Client, ClientSend, ClientGone, Handshake, ServerAuthRejects, RejectTun,
         DispatchReg, HandleClient, HandshakeFails, AssignIndex, BumpNextIndex,
         CheckListenerLimit, TooManyListeners, ResolveForwarderIndex, NoSingleListener,
         LookupListener, CheckProtocolMatch, ProtocolMismatch, TunEnsurePool,
         TunPoolFails, TunRegisterClient, TunOutOfRange, InstallListener, InstallForwarder,
         StoreMeta, NotifyPeerChange, SendRegOK, RelayFromListener, RelayFromForwarder,
         SendToListener, RelayEnds, Unregister, RemoveMeta, TunFromClient, TunRelayEnds,
         TunUnregister, TunReadLoop, regVars

\* The metadata of a connection is written by its own goroutine, in two places.
LEMMA MetaWriters ==
    ASSUME TypeOK, Next, NEW c \in Conns
    PROVE  meta'[c] = meta[c] \/ StoreMeta(c) \/ RemoveMeta(c)
  <1>1. \/ meta' = meta
        \/ \E d \in Conns : StoreMeta(d) \/ RemoveMeta(d)
    BY ZenonT(60) DEF Next, Client, ClientSend, ClientGone, Handshake, ServerAuthRejects, RejectTun,
           DispatchReg, HandleClient, HandshakeFails, AssignIndex, BumpNextIndex,
           CheckListenerLimit, TooManyListeners, ResolveForwarderIndex, NoSingleListener,
           LookupListener, CheckProtocolMatch, ProtocolMismatch, TunEnsurePool,
           TunPoolFails, TunRegisterClient, TunOutOfRange, InstallListener, InstallForwarder,
           NotifyPeerChange, SendRegOK, RelayFromListener, RelayFromForwarder,
           SendToListener, RelayEnds, Unregister, TunFromClient, TunRelayEnds,
           TunUnregister, TunReadLoop, srvVars
  <1>2. ASSUME NEW d \in Conns, d # c, StoreMeta(d) \/ RemoveMeta(d) PROVE meta'[c] = meta[c]
    BY <1>2 DEF StoreMeta, RemoveMeta, TypeOK, SrvTypeOK
  <1> QED BY <1>1, <1>2

\* Every goroutine records the mode of its client before it notifies and answers,
\* and forgets it as the last thing it does.
LEMMA MetaByStageStep ==
    ASSUME TypeOK, MetaByStage, Next
    PROVE  MetaByStage'
  <1> SUFFICES ASSUME NEW c \in Conns
               PROVE  /\ pc'[c] \in Unrecorded => meta'[c] = NoMeta
                      /\ pc'[c] \in PeerLoop \cup TunLoop \cup {"regok"} => meta'[c] = req'[c].mode
                      /\ pc'[c] \in PeerLoop => ~IsTun(c)'
                      /\ pc'[c] \in TunLoop => IsTun(c)'
    BY DEF MetaByStage
  <1> USE RequestsStay DEF MetaByStage, Unrecorded, PeerLoop, TunLoop, IsTun
  <1>1. CASE StoreMeta(c)
    BY <1>1 DEF StoreMeta, Goto, TypeOK, RegTypeOK, SrvTypeOK
  <1>2. CASE RemoveMeta(c)
    BY <1>2 DEF RemoveMeta, Return, Goto, TypeOK, RegTypeOK
  <1>3. CASE NotifyPeerChange(c) \/ SendRegOK(c) \/ Unregister(c) \/ TunUnregister(c)
    <2>1. meta'[c] = meta[c]
      BY <1>3, MetaWriters
         DEF NotifyPeerChange, SendRegOK, Unregister, TunUnregister, StoreMeta, RemoveMeta
    <2> QED BY <1>3, <2>1
            DEF NotifyPeerChange, SendRegOK, Unregister, TunUnregister, Return, Goto, TypeOK,
                RegTypeOK
  <1>4. CASE meta'[c] = meta[c] /\ ~NotifyPeerChange(c) /\ ~SendRegOK(c) /\ ~Unregister(c)
             /\ ~TunUnregister(c) /\ ~StoreMeta(c) /\ ~RemoveMeta(c)
    BY <1>4, StageStep
  <1> QED BY <1>1, <1>2, <1>3, <1>4, MetaWriters

-------------------------------------------------------------------------------
(* Metadata. *)

\* An entry of a table after a step was there before or is the one this step installs.
LEMMA EntryOrigin ==
    ASSUME RelayInvariant, Next, NEW c \in Conns
    PROVE  /\ \A i \in Index : listeners'[i] = c => listeners[i] = c \/ InstallListener(c)
           /\ \A i \in Index : c \in forwarders'[i] => c \in forwarders[i] \/ InstallForwarder(c)
           /\ \A h \in Hosts : ipToTun'[h] = c => ipToTun[h] = c \/ TunRegisterClient(c)
  <1> USE DEF RelayInvariant, TypeOK, PeerMapTypeOK, TunTypeOK
  <1>1. ASSUME NEW d \in Conns, NEW i \in Index, InstallListener(d)
        PROVE  /\ listeners'[i] \in {listeners[i], d}
               /\ forwarders' = forwarders
    BY <1>1 DEF InstallListener, RegisterListener
  <1>2. ASSUME NEW d \in Conns, NEW i \in Index, InstallForwarder(d)
        PROVE  /\ listeners' = listeners
               /\ forwarders'[i] \subseteq forwarders[i] \cup {d}
    BY <1>2 DEF InstallForwarder, RegisterForwarder
  <1>3. ASSUME NEW d \in Conns, NEW i \in Index, RelayFromListener(d)
        PROVE  /\ listeners' = listeners
               /\ forwarders'[i] \subseteq forwarders[i]
    BY <1>3 DEF RelayFromListener, BroadcastFromListener
  <1>4. ASSUME NEW d \in Conns, NEW i \in Index, Unregister(d)
        PROVE  /\ listeners'[i] \in {listeners[i], NoConn}
               /\ forwarders'[i] \subseteq forwarders[i]
    BY <1>4 DEF Unregister, UnregisterListener, UnregisterForwarder
  <1>5. ASSUME NEW d \in Conns, NEW h \in Hosts, TunRegisterClient(d)
        PROVE  ipToTun'[h] \in {ipToTun[h], d, NoConn}
    BY <1>5 DEF TunRegisterClient, RegisterClient
  <1>6. ASSUME NEW d \in Conns, NEW h \in Hosts, TunUnregister(d)
        PROVE  ipToTun'[h] \in {ipToTun[h], NoConn}
    BY <1>6 DEF TunUnregister, UnregisterClient
  <1>7. c # NoConn
    BY ConnsAssumption DEF ConnsAssumption
  <1> HIDE DEF RelayInvariant, TypeOK, PeerMapTypeOK, TunTypeOK
  <1>8. \A i \in Index : listeners'[i] = c => listeners[i] = c \/ InstallListener(c)
    BY <1>1, <1>2, <1>3, <1>4, <1>7, TableWriters DEF peerVars
  <1>9. \A i \in Index : c \in forwarders'[i] => c \in forwarders[i] \/ InstallForwarder(c)
    BY <1>1, <1>2, <1>3, <1>4, TableWriters DEF peerVars
  <1>10. \A h \in Hosts : ipToTun'[h] = c => ipToTun[h] = c \/ TunRegisterClient(c)
    BY <1>5, <1>6, <1>7, RoutesStep DEF RelayInvariant
  <1> QED BY <1>8, <1>9, <1>10

\* A mode is not the missing entry.
LEMMA ModesAreMeta ==
    ASSUME TypeOK, NEW c \in Conns
    PROVE  req[c].mode # NoMeta
  BY RequestsAreTyped, ServerAssumption DEF ServerAssumption

\* In the table a connection has its metadata, but for the moment between the two
\* stores; HandleClient takes the metadata with it.
LEMMA MetaFollowsTableStep ==
    ASSUME RelayInvariant, MetaFollowsTable, MetaByStage, Next
    PROVE  MetaFollowsTable'
  <1> USE RequestsStay DEF RelayInvariant
  <1>1. ASSUME NEW c \in Conns, pc[c] = "meta" \/ meta[c] = req[c].mode, ~RemoveMeta(c)
        PROVE  pc'[c] = "meta" \/ meta'[c] = req'[c].mode
    <2>1. CASE StoreMeta(c)
      BY <2>1 DEF StoreMeta, TypeOK, SrvTypeOK
    <2>2. CASE ~StoreMeta(c)
      <3>1. meta'[c] = meta[c]
        BY <1>1, <2>2, MetaWriters
      <3>2. pc[c] = "meta" => pc'[c] = "meta"
        BY <2>2, StageStep DEF Unrecorded, NotifyPeerChange, SendRegOK, Unregister, RemoveMeta,
                               TunUnregister
      <3> QED BY <1>1, <3>1, <3>2
    <2> QED BY <2>1, <2>2
  <1>2. ASSUME NEW c \in Conns, NEW i \in Index, listeners[i] = c \/ c \in forwarders[i]
        PROVE  ~RemoveMeta(c)
    BY <1>2 DEF TableHoldsTheLiving, Registered, RemoveMeta, MetaByStage, PeerLoop
  <1>3. ASSUME NEW c \in Conns, InstallListener(c) \/ InstallForwarder(c)
        PROVE  pc'[c] = "meta"
    BY <1>3 DEF InstallListener, InstallForwarder, Goto, TypeOK, RegTypeOK
  <1>4. ASSUME NEW c \in Conns, NEW i \in Index, listeners'[i] = c \/ c \in forwarders'[i]
        PROVE  pc'[c] = "meta" \/ meta'[c] = req'[c].mode
    <2>1. CASE listeners[i] = c \/ c \in forwarders[i]
      BY <1>1, <1>2, <2>1 DEF MetaFollowsTable
    <2>2. CASE InstallListener(c) \/ InstallForwarder(c)
      BY <1>3, <2>2
    <2> QED BY <1>4, <2>1, <2>2, EntryOrigin
  <1>5. ASSUME NEW c \in Conns, pc'[c] = "done", ~IsTun(c)'
        PROVE  meta'[c] = NoMeta
    <2>1. ~IsTun(c)
      BY <1>5 DEF IsTun
    <2>2. CASE RemoveMeta(c)
      BY <2>2 DEF RemoveMeta, TypeOK, SrvTypeOK
    <2>3. CASE pc[c] \in Unrecorded \cup {"done"} /\ ~StoreMeta(c) /\ ~RemoveMeta(c)
      <3>1. meta'[c] = meta[c]
        BY <2>3, MetaWriters
      <3> QED BY <2>1, <2>3, <3>1 DEF MetaByStage, MetaFollowsTable
    <2>4. ~StoreMeta(c) /\ ~NotifyPeerChange(c) /\ ~SendRegOK(c) /\ ~Unregister(c)
      BY <1>5 DEF StoreMeta, NotifyPeerChange, SendRegOK, Unregister, Goto, TypeOK, RegTypeOK
    <2>5. ~TunUnregister(c)
      BY <2>1 DEF TunUnregister, MetaByStage, TunLoop
    <2> QED BY <1>5, <2>2, <2>3, <2>4, <2>5, StageStep DEF Unrecorded
  <1> QED BY <1>4, <1>5 DEF MetaFollowsTable

-------------------------------------------------------------------------------
(* Replies. *)

\* What a client has heard after a step it had heard before, or the step tells it.
LEMMA HeardOrigin ==
    ASSUME TypeOK, IndexGiven, Next, NEW c \in Conns
    PROVE  /\ Heard(c, "Error")' => Heard(c, "Error") \/ Refused(c)
           /\ Heard(c, "RegOK")' => Heard(c, "RegOK") \/ SendRegOK(c)
  <1>1. ASSUME NEW k \in 1..Len(out'[c]), out'[c][k].type = "Error"
        PROVE  Heard(c, "Error") \/ Refused(c)
    BY <1>1, FrameOrigin DEF Heard, Frame
  <1>2. ASSUME NEW k \in 1..Len(out'[c]), out'[c][k].type = "RegOK"
        PROVE  Heard(c, "RegOK") \/ SendRegOK(c)
    BY <1>2, FrameOrigin DEF Heard, Frame
  <1> QED BY <1>1, <1>2 DEF Heard

\* Where a refusal can come from, and where it leads.
LEMMA RefusedEnds ==
    ASSUME TypeOK, NEW c \in Conns, Refused(c)
    PROVE  pc[c] \in Unrecorded \ {"install", "meta"} /\ pc'[c] = "done"
  BY DEF Refused, ServerAuthRejects, RejectTun, TooManyListeners, NoSingleListener,
         ProtocolMismatch, TunPoolFails, TunOutOfRange, Refuse, Return, Goto, TypeOK,
         RegTypeOK, Unrecorded

\* An error comes with the end of HandleClient, a RegOK before the relay loop.
LEMMA RepliesByStageStep ==
    ASSUME TypeOK, IndexGiven, MetaByStage, RepliesByStage, Next
    PROVE  RepliesByStage'
  <1> DEFINE Late == (PeerLoop \ {"notify"}) \cup TunLoop \cup {"done"}
  <1>1. ASSUME NEW c \in Conns, Heard(c, "Error")' PROVE pc'[c] = "done"
    BY <1>1, HeardOrigin, RefusedEnds, DoneStays DEF RepliesByStage
  <1>2. ASSUME NEW c \in Conns, SendRegOK(c) PROVE pc'[c] \in Late
    BY <1>2 DEF SendRegOK, Goto, TypeOK, RegTypeOK, PeerLoop, TunLoop
  <1>3. ASSUME NEW c \in Conns, pc[c] \in Late PROVE pc'[c] \in Late
    BY <1>3, StageStep, DoneStays
       DEF Unrecorded, PeerLoop, TunLoop, StoreMeta, NotifyPeerChange, SendRegOK, Unregister,
           RemoveMeta, TunUnregister, Return, Goto, TypeOK, RegTypeOK
  <1> HIDE DEF Late
  <1>4. ASSUME NEW c \in Conns, Heard(c, "RegOK")' PROVE pc'[c] \in Late
    <2>1. Heard(c, "RegOK") => pc[c] \in Late
      BY DEF RepliesByStage, Late
    <2> QED BY <1>2, <1>3, <1>4, <2>1, HeardOrigin
  <1> QED BY <1>1, <1>4 DEF RepliesByStage, Late

\* A goroutine that has refused its client has entered nothing into a table.
LEMMA RefusedStep ==
    ASSUME RelayInvariant, RoutesAgree, MetaFollowsTable, MetaByStage, RefusedLeavesNoTrace,
           RepliesByStage, Next
    PROVE  RefusedLeavesNoTrace'
  <1> USE DEF RelayInvariant
  <1> SUFFICES ASSUME NEW c \in Conns, Heard(c, "Error")'
               PROVE  /\ \A i \in Index : listeners'[i] # c /\ c \notin forwarders'[i]
                      /\ \A h \in Hosts : ipToTun'[h] # c
                      /\ meta'[c] = NoMeta
                      /\ ~Heard(c, "RegOK")'
    BY DEF RefusedLeavesNoTrace
  <1> DEFINE Clean == /\ \A i \in Index : listeners[i] # c /\ c \notin forwarders[i]
                      /\ \A h \in Hosts : ipToTun[h] # c
                      /\ meta[c] = NoMeta
                      /\ ~Heard(c, "RegOK")
                      /\ pc[c] \in Unrecorded \cup {"done"}
                      /\ pc'[c] = "done"
  <1>1. ASSUME Heard(c, "Error") PROVE Clean
    BY <1>1, DoneStays DEF RefusedLeavesNoTrace, RepliesByStage
  <1>2. ASSUME Refused(c) PROVE Clean
    <2>1. pc[c] \in Unrecorded \ {"install", "meta"} /\ pc'[c] = "done"
      BY <1>2, RefusedEnds
    <2>2. meta[c] = NoMeta
      BY <2>1 DEF MetaByStage
    <2>3. \A i \in Index : listeners[i] # c /\ c \notin forwarders[i]
      BY <2>1, <2>2, ModesAreMeta DEF MetaFollowsTable
    <2>4. \A h \in Hosts : ipToTun[h] # c
      BY <2>1 DEF RoutesAgree, Unrecorded
    <2>5. ~Heard(c, "RegOK")
      BY <2>1 DEF RepliesByStage, Unrecorded, PeerLoop, TunLoop
    <2> QED BY <2>1, <2>2, <2>3, <2>4, <2>5
  <1>3. Clean
    BY <1>1, <1>2, HeardOrigin
  <1>4. ~InstallListener(c) /\ ~InstallForwarder(c) /\ ~TunRegisterClient(c)
    BY <1>3 DEF InstallListener, InstallForwarder, TunRegisterClient, Goto, TypeOK, RegTypeOK
  <1>5. ~StoreMeta(c) /\ ~RemoveMeta(c) /\ ~SendRegOK(c)
    BY <1>3 DEF StoreMeta, RemoveMeta, SendRegOK, Unrecorded, Goto, TypeOK, RegTypeOK
  <1>6. meta'[c] = NoMeta /\ ~Heard(c, "RegOK")'
    BY <1>3, <1>5, MetaWriters, HeardOrigin
  <1> QED BY <1>3, <1>4, <1>6, EntryOrigin

-------------------------------------------------------------------------------
(* Connections that the server closes. *)

\* The server closes the connection of a goroutine that returns and of one whose
\* index or address another client takes.
LEMMA CloseOrigin ==
    ASSUME RelayInvariant, Next, NEW c \in srvClosed'
    PROVE  \/ c \in srvClosed
           \/ c \in Conns /\ pc'[c] = "done"
           \/ \E d \in Conns : InstallListener(d) /\ c = listeners[idx[d]] /\ c # NoConn
           \/ \E d \in Conns : TunRegisterClient(d) /\ c = ipToTun[ClientIP(idx[d])] /\ c # NoConn
  <1> DEFINE Kept == c \in srvClosed
  <1> USE DEF RelayInvariant, TypeOK, RegTypeOK
  <1>1. ASSUME NEW d \in Conns, Return(d) PROVE Kept \/ (c \in Conns /\ pc'[c] = "done")
    BY <1>1 DEF Return, Goto
  <1>2. ASSUME NEW d \in Conns, Client(d) PROVE Kept
    BY <1>2 DEF Client, ClientSend, ClientGone
  <1>3. ASSUME NEW d \in Conns, InstallListener(d)
        PROVE  Kept \/ (c = listeners[idx[d]] /\ c # NoConn)
    BY <1>3 DEF InstallListener, RegisterListener
  <1>4. ASSUME NEW d \in Conns, TunRegisterClient(d)
        PROVE  Kept \/ (c = ipToTun[ClientIP(idx[d])] /\ c # NoConn)
    BY <1>4 DEF TunRegisterClient, RegisterClient
  <1>5. ASSUME NEW d \in Conns, DispatchReg(d) \/ InstallForwarder(d) \/ SendRegOK(d) PROVE Kept
    BY <1>5 DEF DispatchReg, InstallForwarder, RegisterForwarder, SendRegOK, connVars
  <1>6. ASSUME NEW d \in Conns, AssignIndex(d) \/ BumpNextIndex(d) \/ CheckListenerLimit(d)
                                \/ ResolveForwarderIndex(d) \/ LookupListener(d)
                                \/ CheckProtocolMatch(d) \/ TunEnsurePool(d)
        PROVE  Kept
    BY <1>6 DEF AssignIndex, BumpNextIndex, CheckListenerLimit, ResolveForwarderIndex,
                LookupListener, CheckProtocolMatch, TunEnsurePool, connVars
  <1>7. ASSUME NEW d \in Conns, StoreMeta(d) \/ NotifyPeerChange(d) \/ RelayFromForwarder(d)
                                \/ SendToListener(d) \/ RelayEnds(d) \/ TunFromClient(d)
                                \/ TunRelayEnds(d)
        PROVE  Kept
    BY <1>7 DEF StoreMeta, NotifyPeerChange, RelayFromForwarder, SendToListener, RelayEnds,
                TunFromClient, TunRelayEnds, connVars
  <1>8. ASSUME NEW d \in Conns, RelayFromListener(d) \/ Unregister(d) PROVE Kept
    BY <1>8 DEF RelayFromListener, Unregister, UnregisterListener, UnregisterForwarder
  <1>9. CASE TunReadLoop
    BY <1>9 DEF TunReadLoop, connVars
  <1>10. ASSUME NEW d \in Conns,
                Refused(d) \/ HandshakeFails(d) \/ RemoveMeta(d) \/ TunUnregister(d)
         PROVE  Return(d)
    BY <1>10 DEF Refused, ServerAuthRejects, RejectTun, TooManyListeners, NoSingleListener,
                 ProtocolMismatch, TunPoolFails, TunOutOfRange, Refuse, HandshakeFails,
                 RemoveMeta, TunUnregister
  <1> HIDE DEF RelayInvariant, TypeOK, RegTypeOK, Kept
  <1>11. ASSUME NEW d \in Conns, Handshake(d) PROVE Kept \/ (c \in Conns /\ pc'[c] = "done")
    BY <1>1, <1>5, <1>10, <1>11 DEF Handshake, Refused
  <1>12. ASSUME NEW d \in Conns, HandleClient(d)
         PROVE  \/ Kept
                \/ c \in Conns /\ pc'[c] = "done"
                \/ InstallListener(d) /\ c = listeners[idx[d]] /\ c # NoConn
                \/ TunRegisterClient(d) /\ c = ipToTun[ClientIP(idx[d])] /\ c # NoConn
    BY <1>1, <1>3, <1>4, <1>5, <1>6, <1>7, <1>8, <1>10, <1>12 DEF HandleClient, Refused
  <1> QED BY <1>2, <1>9, <1>11, <1>12 DEF Next, Kept

\* The connection that is closed under a running goroutine has lost its index to
\* another listener, and an index stays with its connection.
LEMMA TakeoverStep ==
    ASSUME RelayInvariant, RoutesAgree, MetaFollowsTable, MetaByStage, PoolBeforeRoute,
           TakeoverIsSettled, Next
    PROVE  TakeoverIsSettled'
  <1> USE RequestsStay DEF RelayInvariant
  <1> SUFFICES ASSUME NEW c \in srvClosed', pc'[c] # "done"
               PROVE  /\ Settled(c)'
                      /\ IsListener(c)'
                      /\ \E d \in Conns \ {c} : Settled(d)' /\ IsListener(d)' /\ idx'[d] = idx'[c]
    BY DEF TakeoverIsSettled
  <1>1. ASSUME c \in Conns, Settled(c), IsListener(c),
               NEW d \in Conns \ {c}, Settled(d), IsListener(d), idx[d] = idx[c]
        PROVE  /\ Settled(c)'
               /\ IsListener(c)'
               /\ \E e \in Conns \ {c} : Settled(e)' /\ IsListener(e)' /\ idx'[e] = idx'[c]
    <2>1. Settled(c)' /\ idx'[c] = idx[c]
      BY <1>1, IndexStays
    <2>2. Settled(d)' /\ idx'[d] = idx[d]
      BY <1>1, IndexStays
    <2> QED BY <1>1, <2>1, <2>2 DEF IsListener
  <1>2. CASE c \in srvClosed
    <2>1. c \in Conns /\ pc[c] # "done"
      BY <1>2, DoneStays DEF TypeOK, ConnsTypeOK
    <2> QED BY <1>1, <1>2, <2>1 DEF TakeoverIsSettled
  <1>3. ASSUME NEW d \in Conns, InstallListener(d), c = listeners[idx[d]], c # NoConn
        PROVE  /\ c \in Conns /\ Settled(c) /\ IsListener(c)
               /\ d # c /\ Settled(d) /\ IsListener(d) /\ idx[d] = idx[c]
    <2>1. idx[d] \in Index /\ Settled(d) /\ IsListener(d) /\ pc[d] = "install"
      BY <1>3 DEF InstallListener, IndexGiven, Settled
    <2>2. c \in Conns
      BY <1>3, <2>1 DEF TypeOK, PeerMapTypeOK
    <2>3. IsListener(c) /\ idx[c] = idx[d] /\ Settled(c)
      BY <1>3, <2>1, <2>2 DEF TableHoldsTheLiving, TableSettled
    <2>4. pc[c] = "meta" \/ meta[c] = req[c].mode
      BY <1>3, <2>1, <2>2 DEF MetaFollowsTable
    <2>5. meta[d] = NoMeta
      BY <2>1 DEF MetaByStage, Unrecorded
    <2> QED BY <2>1, <2>2, <2>3, <2>4, <2>5, ModesAreMeta
  <1>4. ASSUME NEW d \in Conns, TunRegisterClient(d), c = ipToTun[ClientIP(idx[d])], c # NoConn
        PROVE  /\ c \in Conns /\ Settled(c) /\ IsListener(c)
               /\ d # c /\ Settled(d) /\ IsListener(d) /\ idx[d] = idx[c]
    <2>1. idx[d] \in Index /\ Settled(d) /\ IsTun(d) /\ pc[d] = "route"
      BY <1>4 DEF TunRegisterClient, IndexGiven, Settled, PoolBeforeRoute
    <2>2. c \in Conns
      BY <1>4, <2>1, AddressesAreNotNil DEF TypeOK, TunTypeOK
    <2>3. indexToIP[idx[c]] = ClientIP(idx[d]) /\ IsTun(c) /\ Routed(c)
      BY <1>4, <2>1, <2>2, AddressesAreNotNil DEF RoutesAgree, Routed
    <2>4. Settled(c) /\ idx[c] \in Index
      BY <2>2, <2>3 DEF Routed, Settled, IndexGiven
    <2>5. idx[c] = idx[d]
      BY <2>1, <2>3, <2>4, AddressesDiffer, AddressesAreNotNil DEF RoutesAgree
    <2>6. c # d
      BY <2>1, <2>3 DEF Routed
    <2>7. IsListener(c) /\ IsListener(d)
      BY <2>1, <2>2, <2>3, TunListens
    <2> QED BY <2>1, <2>2, <2>4, <2>5, <2>6, <2>7
  <1> QED BY <1>1, <1>2, <1>3, <1>4, CloseOrigin

-------------------------------------------------------------------------------
(* Forwarders that lose their listener. *)

\* A connection that is open after a step was open before.
LEMMA OpenBefore ==
    ASSUME TypeOK, IndexGiven, Next
    PROVE  srvClosed \subseteq srvClosed' /\ cliClosed \subseteq cliClosed'
  <1> DEFINE Grows == srvClosed \subseteq srvClosed' /\ cliClosed \subseteq cliClosed'
  <1>1. ASSUME NEW d \in Conns, Client(d) PROVE Grows
    BY <1>1 DEF Client, ClientSend, ClientGone
  <1>2. ASSUME NEW d \in Conns, Handshake(d) PROVE Grows
    BY <1>2 DEF Handshake, ServerAuthRejects, RejectTun, DispatchReg, Refuse, Return
  <1>3. CASE TunReadLoop
    BY <1>3 DEF TunReadLoop, connVars
  <1>4. ASSUME NEW d \in Conns, InstallListener(d) \/ InstallForwarder(d) \/ TunRegisterClient(d)
        PROVE  Grows
    BY <1>4 DEF InstallListener, RegisterListener, InstallForwarder, RegisterForwarder,
                TunRegisterClient, RegisterClient, connVars
  <1>5. ASSUME NEW d \in Conns, RelayFromListener(d) \/ Unregister(d) PROVE Grows
    BY <1>5 DEF RelayFromListener, Unregister, UnregisterListener, UnregisterForwarder
  <1>6. ASSUME NEW d \in Conns, HandleClient(d), ~InstallListener(d), ~InstallForwarder(d),
               ~TunRegisterClient(d), ~RelayFromListener(d), ~Unregister(d)
        PROVE  Grows
    BY <1>6 DEF HandleClient, HandshakeFails, AssignIndex, BumpNextIndex, CheckListenerLimit,
                TooManyListeners, ResolveForwarderIndex, NoSingleListener, LookupListener,
                CheckProtocolMatch, ProtocolMismatch, TunEnsurePool, TunPoolFails,
                TunOutOfRange, StoreMeta, NotifyPeerChange, SendRegOK, RelayFromForwarder,
                SendToListener, RelayEnds, RemoveMeta, TunFromClient, TunRelayEnds,
                TunUnregister, Refuse, Return, connVars
  <1> QED BY <1>1, <1>2, <1>3, <1>4, <1>5, <1>6 DEF Next

\* What a connection has been sent stays in its log.
LEMMA LogsGrow ==
    ASSUME TypeOK, IndexGiven, Next, NEW c \in Conns, NEW k \in 1..Len(out[c])
    PROVE  k \in 1..Len(out'[c]) /\ out'[c][k] = out[c][k]
  <1> DEFINE Kept == k \in 1..Len(out'[c]) /\ out'[c][k] = out[c][k]
  <1>1. ASSUME NEW S, NEW f \in Frames, out' = Written(S, f) PROVE Kept
    BY <1>1 DEF Written, TypeOK, ConnsTypeOK
  <1>2. CASE UNCHANGED out
    BY <1>2
  <1>3. ASSUME NEW d \in Conns, Refuse(d) PROVE Kept
    <2>1. Frame("Error", NoConn, 0) \in Frames
      BY FramesAreTyped DEF FrameType
    <2>2. out' = Written({d}, Frame("Error", NoConn, 0))
      BY <1>3 DEF Refuse
    <2> QED BY <1>1, <2>1, <2>2
  <1>4. ASSUME NEW d \in Conns, SendRegOK(d) PROVE Kept
    <2>1. idx[d] \in Nat
      BY <1>4 DEF SendRegOK, IndexGiven, Settled, Index
    <2>2. Frame("RegOK", NoConn, idx[d]) \in Frames
      BY <2>1, FramesAreTyped DEF FrameType
    <2>3. out' = Written({d}, Frame("RegOK", NoConn, idx[d]))
      BY <1>4 DEF SendRegOK
    <2> QED BY <1>1, <2>2, <2>3
  <1>5. CASE TunDeliver
    <2>1. packet.host \in Nat
      BY DEF TypeOK, TunTypeOK, Hosts, ClientIP, NoIP, Index
    <2>2. Frame("DataTUN", NoConn, packet.host) \in Frames
      BY <2>1, FramesAreTyped DEF FrameType
    <2>3. out' = Written({packet.peer}, Frame("DataTUN", NoConn, packet.host))
      BY <1>5 DEF TunDeliver
    <2> QED BY <1>1, <2>2, <2>3
  <1>6. ASSUME NEW d \in Conns, RejectTun(d) PROVE Kept
    BY <1>6, TurnedAway DEF TypeOK
  <1> QED BY <1>1, <1>2, <1>3, <1>4, <1>5, <1>6, LogWriters

\* A goroutine is registered by its own step only.
LEMMA RegisteredOrigin ==
    ASSUME TypeOK, Next, NEW c \in Conns, Registered(c)'
    PROVE  Registered(c) \/ InstallListener(c) \/ InstallForwarder(c)
  <1>1. CASE ~Handshake(c) /\ ~HandleClient(c)
    BY <1>1, OthersWait DEF Registered
  <1>2. ~Handshake(c)
    BY DEF Handshake, ServerAuthRejects, RejectTun, DispatchReg, Refuse, Return, Goto, TypeOK,
           RegTypeOK, Registered
  <1>3. CASE HandleClient(c)
    BY <1>3 DEF HandleClient, HandshakeFails, AssignIndex, BumpNextIndex, CheckListenerLimit,
                TooManyListeners, ResolveForwarderIndex, NoSingleListener, LookupListener,
                CheckProtocolMatch, ProtocolMismatch, TunEnsurePool, TunPoolFails,
                TunRegisterClient, TunOutOfRange, StoreMeta, NotifyPeerChange, SendRegOK,
                RelayFromListener, RelayFromForwarder, SendToListener, RelayEnds, Unregister,
                RemoveMeta, TunFromClient, TunRelayEnds, TunUnregister, Refuse, Return, Goto,
                TypeOK, RegTypeOK, Registered, regVars
  <1> QED BY <1>1, <1>2, <1>3

\* A forwarder that a step takes out of its list is told by that step, or gone.
LEMMA UnpairingIsTold ==
    ASSUME RelayInvariant, Next, NEW c \in Conns, Registered(c), Registered(c)', ~IsListener(c),
           Reachable(c)', c \in forwarders[idx[c]], c \notin forwarders'[idx[c]]
    PROVE  Heard(c, "PeerLeave")'
  <1> USE DEF RelayInvariant
  <1>1. idx[c] \in Index
    BY DEF Registered, IndexGiven, Settled
  <1>2. Reachable(c)
    BY OpenBefore DEF Reachable
  <1>3. ASSUME NEW d \in Conns, RelayFromListener(d) PROVE FALSE
    BY <1>1, <1>2, <1>3 DEF RelayFromListener, BroadcastFromListener, SendFails, TypeOK, PeerMapTypeOK
  <1>4. ASSUME NEW d \in Conns, InstallListener(d) \/ InstallForwarder(d) PROVE FALSE
    BY <1>1, <1>4 DEF InstallListener, RegisterListener, InstallForwarder, RegisterForwarder,
                      TypeOK, PeerMapTypeOK
  <1>5. ASSUME NEW d \in Conns, Unregister(d), ~IsListener(d) PROVE FALSE
    <2>1. d = c
      BY <1>1, <1>5 DEF Unregister, UnregisterForwarder, TypeOK, PeerMapTypeOK
    <2> QED BY <1>5, <2>1 DEF Unregister, Goto, Registered, TypeOK, RegTypeOK
  <1>6. ASSUME NEW d \in Conns, Unregister(d), IsListener(d) PROVE Heard(c, "PeerLeave")'
    <2>1. idx[d] \in Index
      BY <1>6 DEF Unregister, IndexGiven, Settled
    <2>2. idx[d] = idx[c]
      BY <1>1, <1>6, <2>1 DEF Unregister, UnregisterListener, TypeOK, PeerMapTypeOK
    <2>3. out' = Written(forwarders[idx[c]], Frame("PeerLeave", NoConn, 0))
      BY <1>6, <2>2 DEF Unregister, UnregisterListener
    <2>4. out'[c] = Append(out[c], Frame("PeerLeave", NoConn, 0)) /\ out[c] \in Seq(Frames)
      BY <1>2, <2>3 DEF Written, TypeOK, ConnsTypeOK
    <2>5. Len(out[c]) + 1 \in 1..Len(out'[c]) /\ out'[c][Len(out[c]) + 1] = Frame("PeerLeave", NoConn, 0)
      BY <2>4
    <2> QED BY <2>5 DEF Heard, Frame
  <1> QED BY <1>3, <1>4, <1>5, <1>6, TableWriters DEF peerVars

\* No forwarder that is connected loses its listener without a PeerLeave.
LEMMA SilenceStep ==
    ASSUME RelayInvariant, NoSilentUnpairing, Next
    PROVE  NoSilentUnpairing'
  <1> USE RequestsStay DEF RelayInvariant
  <1> SUFFICES ASSUME NEW c \in Conns, Registered(c)', ~IsListener(c)', Reachable(c)',
                      c \notin forwarders'[idx'[c]]
               PROVE  Heard(c, "PeerLeave")'
    BY DEF NoSilentUnpairing
  <1>1. ~IsListener(c)
    BY DEF IsListener
  <1>2. CASE ~Registered(c)
    <2>1. InstallForwarder(c)
      BY <1>1, <1>2, RegisteredOrigin DEF InstallListener
    <2>2. idx'[c] = idx[c] /\ idx[c] \in Index
      BY <2>1, IndexStays DEF InstallForwarder, IndexGiven, Settled
    <2> QED BY <2>1, <2>2 DEF InstallForwarder, RegisterForwarder, TypeOK, PeerMapTypeOK
  <1>3. CASE Registered(c)
    <2>1. idx'[c] = idx[c]
      BY <1>3, IndexStays DEF Registered, Settled
    <2>2. CASE c \in forwarders[idx[c]]
      BY <1>1, <1>3, <2>1, <2>2, UnpairingIsTold
    <2>3. CASE c \notin forwarders[idx[c]]
      <3>1. Reachable(c)
        BY OpenBefore DEF Reachable
      <3>2. Heard(c, "PeerLeave")
        BY <1>1, <1>3, <2>3, <3>1 DEF NoSilentUnpairing
      <3> QED BY <3>2, LogsGrow DEF Heard
    <2> QED BY <2>2, <2>3
  <1> QED BY <1>2, <1>3

-------------------------------------------------------------------------------

LEMMA RegistrationInit ==
    ASSUME Init
    PROVE  RegistrationInvariant
  <1>1. MetaFollowsTable /\ MetaByStage
    BY ConnsAssumption DEF ConnsAssumption, Init, NewPeerMap, MetaFollowsTable, MetaByStage,
                           PeerLoop, TunLoop
  <1>2. \A c \in Conns : ~Heard(c, "Error") /\ ~Heard(c, "RegOK")
    BY DEF Init, ConnsInit, Heard
  <1>3. RefusedLeavesNoTrace /\ RepliesByStage
    BY <1>2 DEF RefusedLeavesNoTrace, RepliesByStage
  <1>4. TakeoverIsSettled /\ NoSilentUnpairing
    BY DEF Init, ConnsInit, TakeoverIsSettled, NoSilentUnpairing, Registered
  <1> QED BY <1>1, <1>3, <1>4 DEF RegistrationInvariant

LEMMA RegistrationStep ==
    ASSUME RelayInvariant, TunInvariant, RegistrationInvariant, [Next]_vars
    PROVE  RegistrationInvariant'
  <1>1. CASE Next
    <2> USE <1>1 DEF RegistrationInvariant, TunInvariant
    <2>1. TypeOK /\ IndexGiven
      BY DEF RelayInvariant
    <2>2. MetaFollowsTable' /\ MetaByStage'
      BY <2>1, MetaFollowsTableStep, MetaByStageStep
    <2>3. RefusedLeavesNoTrace' /\ RepliesByStage'
      BY <2>1, RefusedStep, RepliesByStageStep
    <2>4. TakeoverIsSettled' /\ NoSilentUnpairing'
      BY <2>1, TakeoverStep, SilenceStep
    <2> QED BY <2>2, <2>3, <2>4
  <1>2. CASE UNCHANGED vars
    <2> USE <1>2 DEF RegistrationInvariant, vars
    <2>1. (MetaFollowsTable /\ MetaByStage)'
      BY DEF peerVars, regVars, srvVars, MetaFollowsTable, MetaByStage, IsTun
    <2>2. (RefusedLeavesNoTrace /\ RepliesByStage)'
      BY DEF connVars, peerVars, tunVars, regVars, srvVars, RefusedLeavesNoTrace, RepliesByStage, Heard
    <2>3. (TakeoverIsSettled /\ NoSilentUnpairing)'
      BY DEF connVars, peerVars, regVars, TakeoverIsSettled, NoSilentUnpairing, Settled, IsListener,
             Registered, Reachable, Heard
    <2> QED BY <2>1, <2>2, <2>3
  <1> QED BY <1>1, <1>2

\* The inductive invariant of the registrations holds of every execution.
THEOREM RegistrationHolds == Spec => []RegistrationInvariant
  <1>1. Init => RegistrationInvariant
    BY RegistrationInit
  <1>2. RelayInvariant /\ TunInvariant /\ RegistrationInvariant /\ [Next]_vars
        => RegistrationInvariant'
    BY RegistrationStep
  <1> QED BY <1>1, <1>2, InvariantHolds, TunInvariantHolds, PTL DEF Spec

\* What the console and checkProtocolMatch read of a registered connection is its
\* mode, and a connection that is gone has none.
THEOREM MetadataIsSound == Spec => []MetaFollowsTable
  <1>1. RegistrationInvariant => MetaFollowsTable
    BY DEF RegistrationInvariant
  <1> QED BY <1>1, RegistrationHolds, PTL

\* A client that was answered with an error is in no table, at whatever step and in
\* whatever interleaving it was refused, and stays out.
THEOREM RefusalIsClean == Spec => []RefusedLeavesNoTrace
  <1>1. RegistrationInvariant => RefusedLeavesNoTrace
    BY DEF RegistrationInvariant
  <1> QED BY <1>1, RegistrationHolds, PTL

\* The server closes the connection of a running goroutine only for another listener
\* that has its index.
THEOREM ClosesForTakeover == Spec => []OnlyTakeoverCloses
  <1>1. RegistrationInvariant => OnlyTakeoverCloses
    BY DEF RegistrationInvariant, TakeoverIsSettled, OnlyTakeoverCloses
  <1> QED BY <1>1, RegistrationHolds, PTL

\* A connected forwarder that no list holds any more was sent a PeerLeave.
THEOREM UnpairingIsNeverSilent == Spec => []NoSilentUnpairing
  <1>1. RegistrationInvariant => NoSilentUnpairing
    BY DEF RegistrationInvariant
  <1> QED BY <1>1, RegistrationHolds, PTL

-------------------------------------------------------------------------------
(* The inductive invariant behind NoGapNoRepeat. *)

\* A connection enters the table at its "install" and no data reaches it before.
Installed(c) == pc[c] \notin Unrecorded \ {"meta"}

DataFollowsInstall ==
    /\ \A c \in Conns : pc[c] = "forward" => Installed(held[c])
    /\ \A c, s \in Conns : DataOf(c, s) # {} => Installed(c) /\ ~IsTun(s) /\ idx[s] \in Index

Newest(c, s, k) == k \in DataOf(c, s) /\ \A m \in DataOf(c, s) : m <= k

\* The last frame a connection was sent by a peer is the last the peer's goroutine has
\* read, or the one before when the last is in its hands, for as long as the connection
\* can be sent another: a connection that has left the table does not come back.
DataContinues ==
    \A c, s \in Conns : Reachable(c) => \A k \in DataOf(c, s) : Newest(c, s, k) =>
        /\ IsListener(s) /\ c \in forwarders[idx[s]] => out[c][k].n = read[s]
        /\ ~IsListener(s) /\ pc[s] = "forward" =>
               IF held[s] = c THEN out[c][k].n + 1 = read[s] ELSE listeners[idx[s]] # c
        /\ ~IsListener(s) /\ pc[s] # "forward" /\ listeners[idx[s]] = c =>
               out[c][k].n = read[s]

DeliveryInvariant == DataFollowsInstall /\ DataContinues /\ NoGapNoRepeat

-------------------------------------------------------------------------------
(* The order of the data. *)

\* The data in a log after a step was there before, or it is the frame that the
\* peer's goroutine has just relayed.
LEMMA DataOrigin ==
    ASSUME TypeOK, IndexGiven, Next, NEW c \in Conns, NEW s \in Conns, NEW k \in DataOf(c, s)'
    PROVE  \/ k \in DataOf(c, s) /\ out'[c][k] = out[c][k]
           \/ /\ Reachable(c) /\ k = Len(out[c]) + 1
              /\ \/ RelayFromListener(s) /\ c \in forwarders[idx[s]] /\ out'[c][k].n = read[s] + 1
                 \/ SendToListener(s) /\ held[s] = c /\ out'[c][k].n = read[s]
  <1> DEFINE Kept == k \in 1..Len(out[c]) /\ out'[c][k] = out[c][k]
             Fresh == /\ Reachable(c) /\ k = Len(out[c]) + 1
                      /\ \/ /\ RelayFromListener(s) /\ c \in forwarders[idx[s]]
                            /\ out'[c][k].n = read[s] + 1
                         \/ SendToListener(s) /\ held[s] = c /\ out'[c][k].n = read[s]
  <1>1. k \in 1..Len(out'[c]) /\ out'[c][k].type = "Data" /\ out'[c][k].from = s
    BY DEF DataOf
  <1>2. ASSUME NEW S, NEW f \in Frames, out' = Written(S, f)
        PROVE  Kept \/ (c \in S /\ Reachable(c) /\ k = Len(out[c]) + 1 /\ out'[c][k] = f)
    BY <1>1, <1>2, NewestIsWritten DEF TypeOK
  <1>3. ASSUME NEW d \in Conns, RelayFromListener(d) PROVE Kept \/ Fresh
    <2>1. DataFrame(d) \in Frames
      BY FramesAreTyped DEF DataFrame, FrameType, TypeOK, ConnsTypeOK
    <2>2. out' = Written(forwarders[idx[d]], DataFrame(d))
      BY <1>3 DEF RelayFromListener, BroadcastFromListener
    <2>3. Kept \/ /\ c \in forwarders[idx[d]] /\ Reachable(c) /\ k = Len(out[c]) + 1
                  /\ out'[c][k] = DataFrame(d)
      BY <1>2, <2>1, <2>2
    <2>4. ASSUME out'[c][k] = DataFrame(d) PROVE d = s /\ out'[c][k].n = read[s] + 1
      BY <1>1, <2>4 DEF DataFrame, Frame
    <2> QED BY <1>3, <2>3, <2>4
  <1>4. ASSUME NEW d \in Conns, SendToListener(d) PROVE Kept \/ Fresh
    <2>1. Frame("Data", d, read[d]) \in Frames
      BY FramesAreTyped DEF FrameType, TypeOK, ConnsTypeOK
    <2>2. out' = Written({held[d]}, Frame("Data", d, read[d]))
      BY <1>4 DEF SendToListener
    <2>3. Kept \/ /\ c \in {held[d]} /\ Reachable(c) /\ k = Len(out[c]) + 1
                  /\ out'[c][k] = Frame("Data", d, read[d])
      BY <1>2, <2>1, <2>2
    <2>4. ASSUME out'[c][k] = Frame("Data", d, read[d]) PROVE d = s /\ out'[c][k].n = read[s]
      BY <1>1, <2>4 DEF Frame
    <2> QED BY <1>4, <2>3, <2>4
  <1> HIDE DEF Fresh
  <1>5. Kept \/ Fresh
    BY <1>1, <1>3, <1>4, FrameOrigin DEF Frame
  <1> QED BY <1>1, <1>5 DEF DataOf, Fresh

\* The data of a log stays where it is.
LEMMA DataStays ==
    ASSUME TypeOK, IndexGiven, Next, NEW c \in Conns, NEW s \in Conns, NEW k \in DataOf(c, s)
    PROVE  k \in DataOf(c, s)' /\ out'[c][k] = out[c][k] /\ k <= Len(out[c])
  <1>1. k \in 1..Len(out[c]) /\ out[c][k].type = "Data" /\ out[c][k].from = s
    BY DEF DataOf
  <1>2. k \in 1..Len(out'[c]) /\ out'[c][k] = out[c][k]
    BY <1>1, LogsGrow
  <1>3. k <= Len(out[c])
    BY <1>1
  <1> QED BY <1>1, <1>2, <1>3 DEF DataOf

\* A goroutine comes to its send by its lookup, keeps what it has looked up until it
\* has sent, and goes nowhere else.
LEMMA ForwardStep ==
    ASSUME TypeOK, Next, NEW c \in Conns
    PROVE  /\ pc'[c] = "forward" =>
                  RelayFromForwarder(c) \/ (pc[c] = "forward" /\ held'[c] = held[c])
           /\ pc[c] = "forward" => SendToListener(c) \/ pc'[c] = "forward"
  <1> USE DEF TypeOK, RegTypeOK
  <1>1. CASE ~Handshake(c) /\ ~HandleClient(c)
    BY <1>1, OthersWait
  <1>2. CASE Handshake(c)
    BY <1>2 DEF Handshake, ServerAuthRejects, RejectTun, DispatchReg, Refuse, Return, Goto
  <1>3. CASE RelayFromForwarder(c) \/ SendToListener(c)
    BY <1>3 DEF RelayFromForwarder, SendToListener, Goto
  <1>4. CASE HandleClient(c) /\ ~RelayFromForwarder(c) /\ ~SendToListener(c)
    BY <1>4 DEF HandleClient, HandshakeFails, AssignIndex, BumpNextIndex, CheckListenerLimit,
                TooManyListeners, ResolveForwarderIndex, NoSingleListener, LookupListener,
                CheckProtocolMatch, ProtocolMismatch, TunEnsurePool, TunPoolFails,
                TunRegisterClient, TunOutOfRange, InstallListener, InstallForwarder,
                StoreMeta, NotifyPeerChange, SendRegOK, RelayFromListener,
                RelayEnds, Unregister, RemoveMeta, TunFromClient, TunRelayEnds,
                TunUnregister, Refuse, Return, Goto, regVars
  <1> QED BY <1>1, <1>2, <1>3, <1>4

\* Frames are read by the three loops.
LEMMA ReadStep ==
    ASSUME TypeOK, Next, NEW s \in Conns
    PROVE  \/ read'[s] = read[s]
           \/ /\ read'[s] = read[s] + 1
              /\ RelayFromListener(s) \/ RelayFromForwarder(s) \/ TunFromClient(s)
  <1> DEFINE Same == read' = read
  <1>1. ASSUME NEW d \in Conns, Client(d) PROVE Same
    BY <1>1 DEF Client, ClientSend, ClientGone
  <1>2. ASSUME NEW d \in Conns, Handshake(d) PROVE Same
    BY <1>2 DEF Handshake, ServerAuthRejects, RejectTun, DispatchReg, Refuse
  <1>3. CASE TunReadLoop
    BY <1>3 DEF TunReadLoop, connVars
  <1>4. ASSUME NEW d \in Conns, RelayFromListener(d) \/ RelayFromForwarder(d) \/ TunFromClient(d)
        PROVE  \/ read'[s] = read[s]
               \/ d = s /\ read'[s] = read[s] + 1
    BY <1>4 DEF RelayFromListener, RelayFromForwarder, TunFromClient, Received, TypeOK, ConnsTypeOK
  <1>5. ASSUME NEW d \in Conns, InstallListener(d) \/ InstallForwarder(d) \/ TunRegisterClient(d)
               \/ Unregister(d)
        PROVE  Same
    BY <1>5 DEF InstallListener, RegisterListener, InstallForwarder, RegisterForwarder,
                TunRegisterClient, RegisterClient, Unregister, UnregisterListener,
                UnregisterForwarder, connVars
  <1>6. ASSUME NEW d \in Conns, HandleClient(d), ~InstallListener(d), ~InstallForwarder(d),
               ~TunRegisterClient(d), ~Unregister(d), ~RelayFromListener(d),
               ~RelayFromForwarder(d), ~TunFromClient(d)
        PROVE  Same
    BY <1>6 DEF HandleClient, HandshakeFails, AssignIndex, BumpNextIndex, CheckListenerLimit,
                TooManyListeners, ResolveForwarderIndex, NoSingleListener, LookupListener,
                CheckProtocolMatch, ProtocolMismatch, TunEnsurePool, TunPoolFails,
                TunOutOfRange, StoreMeta, NotifyPeerChange, SendRegOK, SendToListener,
                RelayEnds, RemoveMeta, TunRelayEnds, TunUnregister, Refuse, connVars
  <1> QED BY <1>1, <1>2, <1>3, <1>4, <1>5, <1>6 DEF Next

\* A connection that has entered the table has done so for good.
LEMMA InstalledStays ==
    ASSUME TypeOK, Next, NEW c \in Conns, Installed(c)
    PROVE  Installed(c)' /\ ~InstallListener(c) /\ ~InstallForwarder(c)
  <1> USE DEF TypeOK, RegTypeOK, Installed, Unrecorded
  <1>1. ~InstallListener(c) /\ ~InstallForwarder(c)
    BY DEF InstallListener, InstallForwarder
  <1>2. Installed(c)'
    BY StageStep, ZenonT(60) DEF StoreMeta, NotifyPeerChange, SendRegOK, Unregister, RemoveMeta, TunUnregister,
                     Return, Goto
  <1> QED BY <1>1, <1>2

\* What the table leads to has been installed.
LEMMA EntriesAreInstalled ==
    ASSUME TypeOK, MetaFollowsTable, MetaByStage, NEW c \in Conns, NEW i \in Index,
           listeners[i] = c \/ c \in forwarders[i]
    PROVE  Installed(c)
  BY ModesAreMeta DEF MetaFollowsTable, MetaByStage, Installed

\* No connection is sent data before it is in the table.
LEMMA DataFollowsInstallStep ==
    ASSUME RelayInvariant, MetaFollowsTable, MetaByStage, DataFollowsInstall, Next
    PROVE  DataFollowsInstall'
  <1> USE DEF RelayInvariant
  <1>1. ASSUME NEW c \in Conns, pc'[c] = "forward" PROVE Installed(held[c])'
    <2>1. CASE RelayFromForwarder(c)
      <3>1. listeners[idx[c]] \in Conns /\ held'[c] = listeners[idx[c]] /\ idx[c] \in Index
        BY <1>1, <2>1
           DEF RelayFromForwarder, Goto, TypeOK, RegTypeOK, PeerMapTypeOK, IndexGiven, Settled
      <3>2. Installed(listeners[idx[c]])
        BY <3>1, EntriesAreInstalled
      <3>3. (pc'[listeners[idx[c]]]) \notin Unrecorded \ {"meta"}
        BY <3>1, <3>2, InstalledStays DEF Installed
      <3> QED BY <3>1, <3>3 DEF Installed
    <2>2. CASE pc[c] = "forward" /\ held'[c] = held[c]
      <3>1. held[c] \in Conns /\ Installed(held[c])
        BY <2>2 DEF HeldIsAListener, DataFollowsInstall
      <3>2. (pc'[held[c]]) \notin Unrecorded \ {"meta"}
        BY <3>1, InstalledStays DEF Installed
      <3> QED BY <2>2, <3>2 DEF Installed
    <2> QED BY <1>1, <2>1, <2>2, ForwardStep
  <1>2. ASSUME NEW c \in Conns, NEW s \in Conns, NEW k \in DataOf(c, s)'
        PROVE  Installed(c)' /\ ~IsTun(s)' /\ idx'[s] \in Index
    <2>1. CASE k \in DataOf(c, s)
      <3>1. Settled(s) /\ Installed(c) /\ ~IsTun(s) /\ idx[s] \in Index
        BY <2>1 DEF DataFollowsInstall, DataSettled, DataOf
      <3> QED BY <3>1, InstalledStays, IndexStays DEF IsTun
    <2>2. CASE RelayFromListener(s) /\ c \in forwarders[idx[s]]
      <3>1. pc[s] = "relay" /\ idx[s] \in Index
        BY <2>2 DEF RelayFromListener, IndexGiven, Settled
      <3>2. Installed(c) /\ ~IsTun(s) /\ Settled(s)
        BY <2>2, <3>1, EntriesAreInstalled DEF MetaByStage, PeerLoop, Settled
      <3> QED BY <3>1, <3>2, InstalledStays, IndexStays DEF IsTun
    <2>3. CASE SendToListener(s) /\ held[s] = c
      <3>1. Installed(c) /\ ~IsTun(s) /\ Settled(s) /\ idx[s] \in Index
        BY <2>3
           DEF SendToListener, MetaByStage, PeerLoop, DataFollowsInstall, IndexGiven, Settled
      <3> QED BY <3>1, InstalledStays, IndexStays DEF IsTun
    <2> QED BY <2>1, <2>2, <2>3, DataOrigin
  <1>3. \A c, s \in Conns : (DataOf(c, s) # {})' => (Installed(c) /\ ~IsTun(s) /\ idx[s] \in Index)'
    BY <1>2
  <1> QED BY <1>1, <1>3 DEF DataFollowsInstall

\* A connection that is sent a frame of a peer has that frame as the newest of the peer.
LEMMA DeliveredIsNewest ==
    ASSUME RelayInvariant, Next, NEW c \in Conns, NEW s \in Conns, Reachable(c),
           \/ RelayFromListener(s) /\ c \in forwarders[idx[s]]
           \/ SendToListener(s) /\ held[s] = c
    PROVE  Len(out[c]) + 1 \in DataOf(c, s)'
  <1> USE DEF RelayInvariant
  <1>1. ASSUME NEW S, NEW n \in Nat, out' = Written(S, Frame("Data", s, n)), c \in S
        PROVE  Len(out[c]) + 1 \in DataOf(c, s)'
    <2>1. out'[c] = Append(out[c], Frame("Data", s, n)) /\ out[c] \in Seq(Frames)
      BY <1>1 DEF Written, TypeOK, ConnsTypeOK
    <2>2. Len(out[c]) + 1 \in 1..Len(out'[c]) /\ out'[c][Len(out[c]) + 1] = Frame("Data", s, n)
      BY <2>1
    <2> QED BY <2>2 DEF DataOf, Frame
  <1>2. read[s] \in Nat /\ read[s] + 1 \in Nat
    BY DEF TypeOK, ConnsTypeOK
  <1>3. CASE RelayFromListener(s) /\ c \in forwarders[idx[s]]
    <2>1. out' = Written(forwarders[idx[s]], Frame("Data", s, read[s] + 1))
      BY <1>3 DEF RelayFromListener, BroadcastFromListener, DataFrame
    <2> QED BY <1>1, <1>2, <1>3, <2>1
  <1>4. CASE SendToListener(s) /\ held[s] = c
    <2>1. out' = Written({held[s]}, Frame("Data", s, read[s]))
      BY <1>4 DEF SendToListener
    <2>2. c \in {held[s]}
      BY <1>4
    <2> QED BY <1>1, <1>2, <2>1, <2>2
  <1> QED BY <1>3, <1>4

\* A step of others leaves what is between two peers: while the connection can be sent
\* more, the newest frame it was sent is the last its peer has read and not in hand.
LEMMA DataContinuesStep ==
    ASSUME RelayInvariant, MetaFollowsTable, MetaByStage, DataFollowsInstall, DataContinues, Next
    PROVE  DataContinues'
  <1> USE DEF RelayInvariant
  <1> SUFFICES ASSUME NEW c \in Conns, NEW s \in Conns, Reachable(c)', NEW k \in DataOf(c, s)',
                      Newest(c, s, k)'
               PROVE  /\ IsListener(s)' /\ c \in forwarders'[idx'[s]] => out'[c][k].n = read'[s]
                      /\ ~IsListener(s)' /\ pc'[s] = "forward" =>
                             IF held'[s] = c THEN out'[c][k].n + 1 = read'[s]
                                             ELSE listeners'[idx'[s]] # c
                      /\ ~IsListener(s)' /\ pc'[s] # "forward" /\ listeners'[idx'[s]] = c =>
                             out'[c][k].n = read'[s]
    BY DEF DataContinues
  <1>1. Reachable(c)
    BY OpenBefore DEF Reachable
  <1>2. IsListener(s)' = IsListener(s)
    BY RequestsStay DEF IsListener
  <1>3. read[s] \in Nat
    BY DEF TypeOK, ConnsTypeOK
  <1>4. CASE RelayFromListener(s) /\ out'[c][k].n = read[s] + 1
    BY <1>2, <1>3, <1>4 DEF RelayFromListener, Received, TypeOK, ConnsTypeOK
  <1>5. CASE SendToListener(s) /\ out'[c][k].n = read[s]
    BY <1>2, <1>5 DEF SendToListener, HeldIsAListener, Goto, TypeOK, RegTypeOK
  <1>6. CASE k \in DataOf(c, s) /\ out'[c][k] = out[c][k]
    <2>1. /\ Newest(c, s, k)
          /\ ~(RelayFromListener(s) /\ c \in forwarders[idx[s]])
          /\ ~(SendToListener(s) /\ held[s] = c)
      <3>1. \A m \in DataOf(c, s)' : m <= k
        BY DEF Newest
      <3>2. k \in Nat /\ Len(out[c]) \in Nat /\ k <= Len(out[c])
        BY <1>6, DataStays DEF DataOf, TypeOK, ConnsTypeOK
      <3>3. Len(out[c]) + 1 \notin DataOf(c, s)'
        BY <3>1, <3>2
      <3> QED BY <1>1, <1>6, <3>1, <3>3, DataStays, DeliveredIsNewest DEF Newest
    <2>2. Installed(c) /\ ~IsTun(s) /\ Settled(s) /\ idx[s] \in Index
      BY <1>6 DEF DataFollowsInstall, DataSettled, DataOf
    <2>3. idx'[s] = idx[s] /\ ~InstallListener(c) /\ ~InstallForwarder(c)
      BY <2>2, IndexStays, InstalledStays
    <2>4. read'[s] = read[s] \/ RelayFromListener(s) \/ (RelayFromForwarder(s) /\ read'[s] = read[s] + 1)
      BY <2>2, ReadStep DEF TunFromClient, MetaByStage, TunLoop
    <2>5. /\ IsListener(s) /\ c \in forwarders[idx[s]] => out[c][k].n = read[s]
          /\ ~IsListener(s) /\ pc[s] = "forward" =>
                 IF held[s] = c THEN out[c][k].n + 1 = read[s] ELSE listeners[idx[s]] # c
          /\ ~IsListener(s) /\ pc[s] # "forward" /\ listeners[idx[s]] = c => out[c][k].n = read[s]
      BY <1>1, <1>6, <2>1 DEF DataContinues
    <2>6. ASSUME IsListener(s), c \in forwarders'[idx'[s]] PROVE out'[c][k].n = read'[s]
      <3>1. c \in forwarders[idx[s]]
        BY <2>2, <2>3, <2>6, EntryOrigin
      <3>2. ~RelayFromForwarder(s)
        BY <2>6 DEF RelayFromForwarder
      <3> QED BY <1>6, <2>1, <2>4, <2>5, <2>6, <3>1, <3>2
    <2>7. ASSUME ~IsListener(s), pc'[s] = "forward"
          PROVE  IF held'[s] = c THEN out'[c][k].n + 1 = read'[s] ELSE listeners'[idx'[s]] # c
      <3>1. CASE RelayFromForwarder(s)
        <4>1. held'[s] = listeners[idx[s]] /\ pc[s] = "relay" /\ listeners' = listeners
          BY <3>1 DEF RelayFromForwarder, TypeOK, RegTypeOK, peerVars
        <4>2. read'[s] = read[s] + 1
          BY <3>1 DEF RelayFromForwarder, Received, TypeOK, ConnsTypeOK
        <4> QED BY <1>6, <2>3, <2>5, <2>7, <4>1, <4>2
      <3>2. CASE pc[s] = "forward" /\ held'[s] = held[s]
        <4>1. read'[s] = read[s]
          BY <2>4, <2>7, <3>2 DEF RelayFromListener, RelayFromForwarder
        <4>2. listeners'[idx'[s]] = c => listeners[idx[s]] = c
          BY <2>2, <2>3, EntryOrigin
        <4> QED BY <1>6, <2>5, <2>7, <3>2, <4>1, <4>2
      <3> QED BY <2>7, <3>1, <3>2, ForwardStep
    <2>8. ASSUME ~IsListener(s), pc'[s] # "forward", listeners'[idx'[s]] = c
          PROVE  out'[c][k].n = read'[s]
      <3>1. listeners[idx[s]] = c
        BY <2>2, <2>3, <2>8, EntryOrigin
      <3>2. pc[s] # "forward"
        BY <2>1, <2>5, <2>8, <3>1, ForwardStep
      <3>3. ~RelayFromForwarder(s)
        BY <2>8, <3>1, ConnsAssumption DEF ConnsAssumption, RelayFromForwarder, Goto, TypeOK, RegTypeOK
      <3>4. ~RelayFromListener(s)
        BY <2>8 DEF RelayFromListener
      <3> QED BY <1>6, <2>4, <2>5, <2>8, <3>1, <3>2, <3>3, <3>4
    <2> QED BY <1>2, <2>6, <2>7, <2>8
  <1> QED BY <1>4, <1>5, <1>6, DataOrigin

\* The frame a connection is sent is the next of its peer after the newest it has.
LEMMA NoGapStep ==
    ASSUME RelayInvariant, DataContinues, NoGapNoRepeat, Next
    PROVE  NoGapNoRepeat'
  <1> USE DEF RelayInvariant
  <1> SUFFICES ASSUME NEW c \in Conns, NEW s \in Conns,
                      NEW j \in DataOf(c, s)', NEW k \in DataOf(c, s)', j < k,
                      \A m \in DataOf(c, s)' : m <= j \/ k <= m
               PROVE  out'[c][k].n = out'[c][j].n + 1
    BY DEF NoGapNoRepeat
  <1>1. j \in Nat /\ k \in Nat /\ Len(out[c]) \in Nat
    BY DEF DataOf, TypeOK, ConnsTypeOK
  <1>2. ASSUME NEW m \in DataOf(c, s) PROVE m \in DataOf(c, s)' /\ m \in Nat /\ m <= Len(out[c])
    BY <1>2, DataStays DEF DataOf
  <1>3. k <= Len(out[c]) + 1
    BY <1>1, <1>2, DataOrigin
  <1>4. j \in DataOf(c, s) /\ out'[c][j] = out[c][j]
    BY <1>1, <1>3, DataOrigin
  <1>5. CASE k \in DataOf(c, s) /\ out'[c][k] = out[c][k]
    BY <1>2, <1>4, <1>5 DEF NoGapNoRepeat
  <1>6. CASE Reachable(c) /\ k = Len(out[c]) + 1
    <2>1. Newest(c, s, j)
      BY <1>1, <1>2, <1>4, <1>6 DEF Newest
    <2>2. CASE RelayFromListener(s) /\ c \in forwarders[idx[s]] /\ out'[c][k].n = read[s] + 1
      BY <1>4, <1>6, <2>1, <2>2 DEF DataContinues, RelayFromListener
    <2>3. CASE SendToListener(s) /\ held[s] = c /\ out'[c][k].n = read[s]
      BY <1>4, <1>6, <2>1, <2>3 DEF DataContinues, SendToListener, HeldIsAListener
    <2> QED BY <1>1, <1>2, <1>6, <2>2, <2>3, DataOrigin
  <1> QED BY <1>5, <1>6, DataOrigin

LEMMA DeliveryInit ==
    ASSUME Init
    PROVE  DeliveryInvariant
  <1>1. \A c, s \in Conns : DataOf(c, s) = {}
    BY DEF Init, ConnsInit, DataOf
  <1>2. \A c \in Conns : pc[c] = "auth"
    BY DEF Init
  <1> QED BY <1>1, <1>2 DEF DeliveryInvariant, DataFollowsInstall, DataContinues, NoGapNoRepeat

LEMMA DeliveryStep ==
    ASSUME RelayInvariant, MetaFollowsTable, MetaByStage, DeliveryInvariant, [Next]_vars
    PROVE  DeliveryInvariant'
  <1>1. CASE Next
    BY <1>1, DataFollowsInstallStep, DataContinuesStep, NoGapStep DEF DeliveryInvariant
  <1>2. CASE UNCHANGED vars
    BY <1>2 DEF vars, connVars, peerVars, regVars, DeliveryInvariant, DataFollowsInstall,
                DataContinues, NoGapNoRepeat, DataOf, Newest, Installed, IsTun, IsListener, Reachable
  <1> QED BY <1>1, <1>2

\* The inductive invariant of the relayed data holds of every execution.
THEOREM DeliveryHolds == Spec => []DeliveryInvariant
  <1>1. Init => DeliveryInvariant
    BY DeliveryInit
  <1>2. RelayInvariant /\ RegistrationInvariant /\ DeliveryInvariant /\ [Next]_vars
        => DeliveryInvariant'
    BY DeliveryStep DEF RegistrationInvariant
  <1> QED BY <1>1, <1>2, InvariantHolds, RegistrationHolds, PTL DEF Spec

\* What a connection is sent of a peer's data is a run of consecutive frames: in order,
\* without a gap and without a repetition, whoever registers, takes over and leaves
\* while a forwarder's goroutine holds the listener it has looked up.
THEOREM DataKeepsItsOrder == Spec => []NoGapNoRepeat
  <1>1. DeliveryInvariant => NoGapNoRepeat
    BY DEF DeliveryInvariant
  <1> QED BY <1>1, DeliveryHolds, PTL

-------------------------------------------------------------------------------
(* The console. *)

\* Changes of the table that the console has not been told of.
LEMMA UnseenOrigin ==
    ASSUME TypeOK, Next, unseen'
    PROVE  /\ \A d \in Conns : ~NotifyPeerChange(d)
           /\ \/ unseen
              \/ \E d \in Conns : InstallListener(d) \/ InstallForwarder(d) \/ StoreMeta(d)
                                  \/ Unregister(d) \/ (RelayFromListener(d) /\ forwarders' # forwarders)
  <1>1. ASSUME NEW d \in Conns, NotifyPeerChange(d) PROVE FALSE
    BY <1>1 DEF NotifyPeerChange
  <1>2. ASSUME NEW d \in Conns, RelayFromListener(d)
        PROVE  unseen \/ forwarders' # forwarders
    BY <1>2 DEF RelayFromListener
  <1>3. ASSUME unseen' = unseen PROVE unseen
    BY <1>3
  <1> QED BY ZenonT(60), <1>1, <1>2, <1>3
          DEF Next, Client, ClientSend, ClientGone, Handshake, ServerAuthRejects, RejectTun,
              DispatchReg, HandleClient, HandshakeFails, AssignIndex, BumpNextIndex,
              CheckListenerLimit, TooManyListeners, ResolveForwarderIndex, NoSingleListener,
              LookupListener, CheckProtocolMatch, ProtocolMismatch, TunEnsurePool,
              TunPoolFails, TunRegisterClient, TunOutOfRange, SendRegOK, RelayFromForwarder,
              SendToListener, RelayEnds, RemoveMeta, TunFromClient, TunRelayEnds,
              TunUnregister, TunReadLoop, srvVars

\* The goroutine of c will notify the console.
WillNotify(c) ==
    \/ pc[c] \in {"meta", "notify", "leave", "notifyLeave"}
    \/ Registered(c) /\ ~Reachable(c)

\* A goroutine that will notify does nothing else before it does.
LEMMA NotifierStays ==
    ASSUME TypeOK, IndexGiven, Next, NEW c \in Conns, ~IsTun(c), WillNotify(c), ~NotifyPeerChange(c)
    PROVE  WillNotify(c)'
  <1>1. CASE Unregister(c) \/ StoreMeta(c)
    BY <1>1 DEF Unregister, StoreMeta, WillNotify, Goto, TypeOK, RegTypeOK
  <1>2. CASE ~Unregister(c) /\ ~StoreMeta(c)
    <2>1. CASE Registered(c) /\ ~Reachable(c)
      <3>1. Registered(c)'
        BY <1>2, <2>1, StaysRegistered
      <3>2. ~Reachable(c)'
        BY <2>1, OpenBefore DEF Reachable
      <3> QED BY <3>1, <3>2 DEF WillNotify
    <2>2. CASE pc[c] \in {"meta", "notify", "leave", "notifyLeave"}
      <3>1. pc'[c] = pc[c]
        BY <1>2, <2>2, StageStep
           DEF Unrecorded, SendRegOK, RemoveMeta, TunUnregister
      <3> QED BY <2>2, <3>1 DEF WillNotify
    <2> QED BY <2>1, <2>2 DEF WillNotify
  <1> QED BY <1>1, <1>2

\* A step that changes the table has a goroutine behind it that will notify.
LEMMA NotificationStep ==
    ASSUME RelayInvariant, NotificationIsPending, Next, \A r \in Requests : r.mode # "tun"
    PROVE  NotificationIsPending'
  <1> USE DEF RelayInvariant
  <1> SUFFICES ASSUME unseen' PROVE \E c \in Conns : WillNotify(c)'
    BY DEF NotificationIsPending, WillNotify
  <1>1. \A c \in Conns : ~IsTun(c)
    BY DEF IsTun, TypeOK, RegTypeOK
  <1>2. ASSUME NEW d \in Conns,
               InstallListener(d) \/ InstallForwarder(d) \/ StoreMeta(d) \/ Unregister(d)
        PROVE  WillNotify(d)'
    BY <1>1, <1>2 DEF InstallListener, InstallForwarder, StoreMeta, Unregister, WillNotify, Goto,
                      TypeOK, RegTypeOK
  <1>3. ASSUME NEW d \in Conns, RelayFromListener(d), forwarders' # forwarders
        PROVE  \E c \in Conns : WillNotify(c)'
    <2>1. idx[d] \in Index
      BY <1>3 DEF RelayFromListener, IndexGiven, Settled
    <2>2. PICK p \in forwarders[idx[d]] : SendFails(p)
      BY <1>3, <2>1 DEF RelayFromListener, BroadcastFromListener, TypeOK, PeerMapTypeOK
    <2>3. p \in Conns /\ Registered(p) /\ ~Reachable(p)
      BY <2>1, <2>2 DEF TableHoldsTheLiving, SendFails, TypeOK, PeerMapTypeOK
    <2>4. ~NotifyPeerChange(p)
      BY UnseenOrigin, <2>3
    <2> QED BY <1>1, <2>3, <2>4, NotifierStays DEF WillNotify
  <1>4. CASE unseen
    <2>1. PICK c \in Conns : WillNotify(c)
      BY <1>4 DEF NotificationIsPending, WillNotify
    <2> QED BY <1>1, <2>1, UnseenOrigin, NotifierStays
  <1> QED BY <1>2, <1>3, <1>4, UnseenOrigin

\* Where no TUN client can register, a console is never outdated for good: whenever
\* the table has changed since the last notification, a goroutine that will notify is
\* on its way.
THEOREM ConsoleIsNotified ==
    ASSUME \A r \in Requests : r.mode # "tun"
    PROVE  Spec => []NotificationIsPending
  <1>1. Init => NotificationIsPending
    BY DEF Init, NotificationIsPending
  <1>2. RelayInvariant /\ NotificationIsPending /\ [Next]_vars => NotificationIsPending'
    <2> SUFFICES ASSUME RelayInvariant, NotificationIsPending, [Next]_vars
                 PROVE  NotificationIsPending'
      OBVIOUS
    <2>1. CASE Next
      BY <2>1, NotificationStep
    <2>2. CASE UNCHANGED vars
      BY <2>2 DEF vars, connVars, regVars, srvVars, NotificationIsPending, Registered, Reachable
    <2> QED BY <2>1, <2>2
  <1> QED BY <1>1, <1>2, InvariantHolds, PTL DEF Spec

-------------------------------------------------------------------------------
(* Addresses: the arithmetic of the pool. *)

\* Induction on a set of numbers, from the least number that is not in it.
LEMMA SetInduction ==
    ASSUME NEW T, T \subseteq Nat, 0 \in T, \A n \in T : n + 1 \in T
    PROVE  T = Nat
  <1> SUFFICES ASSUME Nat \ T # {} PROVE FALSE
    OBVIOUS
  <1>1. PICK m \in Nat \ T : \A k \in Nat \ T : ~(<<k, m>> \in OpToRel(<, Nat))
    BY NatLessThanWellFounded, WFMin, Zenon
  <1>2. \A k \in Nat \ T : ~(k < m)
    BY <1>1 DEF OpToRel
  <1>3. m # 0 /\ m - 1 \in Nat
    OBVIOUS
  <1>4. m - 1 \in T
    BY <1>2, <1>3
  <1> QED BY <1>4

\* There is a function as PowerOf2 is defined: pieces of it by induction, and any two
\* pieces agree where both are defined.
LEMMA PowersExist == \E f : f = [n \in Nat |-> IF n = 0 THEN 1 ELSE 2 * f[n - 1]]
  <1> DEFINE Grows(n, g) == g[0] = 1 /\ \A i \in 1..n : g[i] = 2 * g[i - 1]
             T == {n \in Nat : \E g \in [0..n -> Nat] : Grows(n, g)}
             G(n) == CHOOSE g \in [0..n -> Nat] : Grows(n, g)
             F == [n \in Nat |-> G(n)[n]]
  <1>1. T = Nat
    <2>1. 0 \in T
      <3>1. [i \in 0..0 |-> 1] \in [0..0 -> Nat] /\ Grows(0, [i \in 0..0 |-> 1])
        OBVIOUS
      <3> QED BY <3>1
    <2>2. ASSUME NEW n \in T PROVE n + 1 \in T
      <3>1. PICK g \in [0..n -> Nat] : Grows(n, g)
        OBVIOUS
      <3> DEFINE h == [i \in 0..(n + 1) |-> IF i = n + 1 THEN 2 * g[n] ELSE g[i]]
      <3>2. h \in [0..(n + 1) -> Nat]
        OBVIOUS
      <3>3. ASSUME NEW i \in 1..(n + 1) PROVE h[i] = 2 * h[i - 1]
        BY <3>1
      <3>4. h[0] = 1
        BY <3>1
      <3>5. Grows(n + 1, h)
        BY <3>3, <3>4
      <3> HIDE DEF h, Grows
      <3> QED BY SMTT(30), <3>2, <3>5
    <2> HIDE DEF T
    <2>3. T \subseteq Nat
      BY DEF T
    <2> QED BY <2>1, <2>2, <2>3, SetInduction
  <1>2. ASSUME NEW n \in Nat PROVE G(n) \in [0..n -> Nat] /\ Grows(n, G(n))
    <2>1. n \in T
      BY <1>1
    <2>2. \E g \in [0..n -> Nat] : Grows(n, g)
      BY <2>1
    <2> HIDE DEF Grows
    <2> QED BY <2>2
  <1> HIDE DEF G
  <1>3. \A n, i \in Nat : i <= n => G(n)[i] = G(i)[i]
    <2> DEFINE Same(i) == \A m, n \in Nat : i <= m /\ i <= n => G(m)[i] = G(n)[i]
               U == {i \in Nat : Same(i)}
    <2>1. Same(0)
      BY <1>2
    <2>2. ASSUME NEW i \in Nat, Same(i) PROVE Same(i + 1)
      <3> SUFFICES ASSUME NEW m \in Nat, NEW n \in Nat, i + 1 <= m, i + 1 <= n
                   PROVE  G(m)[i + 1] = G(n)[i + 1]
        OBVIOUS
      <3>1. G(m)[i] = G(n)[i]
        BY <2>2
      <3>2. G(m)[i + 1] = 2 * G(m)[i] /\ G(n)[i + 1] = 2 * G(n)[i]
        BY <1>2
      <3> QED BY <3>1, <3>2
    <2> HIDE DEF Same
    <2>3. U = Nat
      <3>1. U \subseteq Nat /\ 0 \in U /\ \A i \in U : i + 1 \in U
        BY <2>1, <2>2
      <3> HIDE DEF U
      <3> QED BY <3>1, SetInduction
    <2>4. \A i \in Nat : Same(i)
      BY <2>3
    <2> QED BY <2>4 DEF Same
  <1>4. ASSUME NEW n \in Nat PROVE F[n] = IF n = 0 THEN 1 ELSE 2 * F[n - 1]
    <2>1. CASE n = 0
      BY <1>2, <2>1
    <2>2. CASE n # 0
      <3>1. G(n)[n] = 2 * G(n)[n - 1]
        BY <1>2, <2>2
      <3>2. G(n)[n - 1] = G(n - 1)[n - 1]
        BY <1>3, <2>2
      <3>3. F[n] = G(n)[n] /\ F[n - 1] = G(n - 1)[n - 1]
        BY <2>2
      <3> HIDE DEF F
      <3> QED BY <2>2, <3>1, <3>2, <3>3
    <2> QED BY <2>1, <2>2
  <1>5. F = [n \in Nat |-> IF n = 0 THEN 1 ELSE 2 * F[n - 1]]
    <2>1. F = [n \in Nat |-> F[n]]
      OBVIOUS
    <2> HIDE DEF F
    <2> QED BY <1>4, <2>1, Zenon
  <1> QED BY <1>5

\* PowerOf2 is what its definition says.
LEMMA Powers == PowerOf2 = [n \in Nat |-> IF n = 0 THEN 1 ELSE 2 * PowerOf2[n - 1]]
  BY PowersExist, Zenon DEF PowerOf2

LEMMA PowerStep ==
    /\ PowerOf2[0] = 1
    /\ \A n \in Nat : PowerOf2[n + 1] = 2 * PowerOf2[n]
    /\ \A n \in Nat : PowerOf2[n] \in Nat /\ PowerOf2[n] > 0
  <1>1. PowerOf2[0] = 1 /\ \A n \in Nat : PowerOf2[n + 1] = 2 * PowerOf2[n]
    BY Powers
  <1> DEFINE T == {n \in Nat : PowerOf2[n] \in Nat /\ PowerOf2[n] > 0}
  <1>2. T \subseteq Nat /\ 0 \in T /\ \A n \in T : n + 1 \in T
    BY <1>1
  <1>3. T = Nat
    <2> HIDE DEF T
    <2> QED BY <1>2, SetInduction
  <1> QED BY <1>1, <1>3

\* The size of a network divides that of a larger one.
LEMMA PowersAdd == \A m, n \in Nat : PowerOf2[m + n] = PowerOf2[m] * PowerOf2[n]
  <1> SUFFICES ASSUME NEW m \in Nat
               PROVE  {n \in Nat : PowerOf2[m + n] = PowerOf2[m] * PowerOf2[n]} = Nat
    OBVIOUS
  <1> DEFINE T == {n \in Nat : PowerOf2[m + n] = PowerOf2[m] * PowerOf2[n]}
  <1>1. 0 \in T
    BY PowerStep
  <1>2. ASSUME NEW n \in T PROVE n + 1 \in T
    <2>1. m + (n + 1) = (m + n) + 1 /\ m + n \in Nat /\ n \in Nat
      OBVIOUS
    <2>2. PowerOf2[m + (n + 1)] = 2 * (PowerOf2[m] * PowerOf2[n])
      BY <2>1, PowerStep
    <2>3. \A x, y \in Nat : 2 * (x * y) = x * (2 * y)
      OBVIOUS
    <2> QED BY <2>1, <2>2, <2>3, PowerStep
  <1> HIDE DEF T
  <1>3. T = Nat
    BY <1>1, <1>2, SetInduction DEF T
  <1> QED BY <1>3 DEF T

\* Division with remainder, of which there is one only.
LEMMA DivMod ==
    ASSUME NEW b \in Nat \ {0}, NEW x \in Nat
    PROVE  x = ((x \div b) * b) + (x % b) /\ x % b \in 0..(b - 1) /\ x \div b \in Nat
  OBVIOUS

LEMMA DivModIs ==
    ASSUME NEW b \in Nat \ {0}, NEW q \in Nat, NEW r \in 0..(b - 1)
    PROVE  ((q * b) + r) \div b = q /\ ((q * b) + r) % b = r
  <1> DEFINE x == (q * b) + r
             p == x \div b
             s == x % b
  <1>1. x \in Nat
    <2>1. q * b \in Nat
      OBVIOUS
    <2> QED BY <2>1
  <1>2. p \in Nat /\ s \in 0..(b - 1) /\ x = (p * b) + s
    BY <1>1, DivMod
  <1>3. (p * b) + s = (q * b) + r
    BY <1>2
  <1> HIDE DEF x, p, s
  <1>4. ~(p < q)
    <2> SUFFICES ASSUME p + 1 <= q PROVE FALSE
      BY <1>2
    <2>1. (p + 1) * b <= q * b
      BY <1>2
    <2>2. (p + 1) * b = (p * b) + b
      BY <1>2
    <2>3. p * b \in Nat /\ q * b \in Nat
      BY <1>2
    <2> QED BY <1>2, <1>3, <2>1, <2>2, <2>3
  <1>5. ~(q < p)
    <2> SUFFICES ASSUME q + 1 <= p PROVE FALSE
      BY <1>2
    <2>1. (q + 1) * b <= p * b
      BY <1>2
    <2>2. (q + 1) * b = (q * b) + b
      BY <1>2
    <2>3. p * b \in Nat /\ q * b \in Nat
      BY <1>2
    <2> QED BY <1>2, <1>3, <2>1, <2>2, <2>3
  <1>6. p = q
    BY <1>2, <1>4, <1>5
  <1>7. s = r
    <2>1. p * b \in Nat
      BY <1>2
    <2> QED BY <1>2, <1>3, <1>6, <2>1
  <1> QED BY <1>6, <1>7 DEF p, s, x

\* The address with number n.
AddressOf(n) == <<n \div ByteSize, n % ByteSize>>

LEMMA ByteSizeIs == ByteSize \in Nat /\ ByteSize >= 2
  <1>1. ByteBits - 1 \in Nat /\ (ByteBits - 1) + 1 = ByteBits
    BY ByteAssumption
  <1>2. PowerOf2[(ByteBits - 1) + 1] = 2 * PowerOf2[ByteBits - 1]
    BY <1>1, PowerStep
  <1>3. PowerOf2[ByteBits - 1] \in Nat /\ PowerOf2[ByteBits - 1] > 0
    BY <1>1, PowerStep
  <1> QED BY <1>1, <1>2, <1>3 DEF ByteSize

\* Numbers and addresses of two bytes are the same.
LEMMA AddressIs ==
    ASSUME NEW n \in Nat, n < ByteSize * ByteSize
    PROVE  AddressOf(n) \in Byte \X Byte /\ NumberOf(AddressOf(n)) = n
  <1> DEFINE q == n \div ByteSize
             r == n % ByteSize
  <1>1. ByteSize \in Nat \ {0}
    BY ByteSizeIs
  <1>2. q \in Nat /\ r \in 0..(ByteSize - 1) /\ n = (q * ByteSize) + r
    BY <1>1, DivMod
  <1>3. q < ByteSize
    <2> HIDE DEF q, r
    <2> SUFFICES ASSUME q >= ByteSize PROVE FALSE
      BY <1>1, <1>2
    <2>1. q * ByteSize >= ByteSize * ByteSize
      BY <1>1, <1>2
    <2>2. q * ByteSize \in Nat /\ ByteSize * ByteSize \in Nat
      BY <1>1, <1>2
    <2> QED BY <1>1, <1>2, <2>1, <2>2
  <1> HIDE DEF q, r
  <1>4. AddressOf(n) = <<q, r>>
    BY DEF AddressOf, q, r
  <1> QED BY <1>1, <1>2, <1>3, <1>4 DEF Byte, NumberOf

LEMMA NumberIs ==
    ASSUME NEW ip \in Byte \X Byte
    PROVE  NumberOf(ip) \in Nat /\ NumberOf(ip) < ByteSize * ByteSize /\ AddressOf(NumberOf(ip)) = ip
  <1>1. ByteSize \in Nat \ {0}
    BY ByteSizeIs
  <1>2. ip[1] \in Nat /\ ip[1] <= ByteSize - 1 /\ ip[2] \in 0..(ByteSize - 1) /\ ip = <<ip[1], ip[2]>>
    BY <1>1 DEF Byte
  <1>3. /\ ip[1] * ByteSize <= (ByteSize - 1) * ByteSize
        /\ (ByteSize - 1) * ByteSize = (ByteSize * ByteSize) - ByteSize
        /\ ip[1] * ByteSize \in Nat /\ ByteSize * ByteSize \in Nat
    BY <1>1, <1>2
  <1>4. NumberOf(ip) = (ip[1] * ByteSize) + ip[2]
    BY DEF NumberOf
  <1>5. NumberOf(ip) \in Nat /\ NumberOf(ip) < ByteSize * ByteSize
    BY <1>1, <1>2, <1>3, <1>4
  <1>6. AddressOf(NumberOf(ip)) = <<ip[1], ip[2]>>
    BY <1>1, <1>2, <1>4, DivModIs DEF AddressOf
  <1> QED BY <1>2, <1>5, <1>6

\* addOne counts, whether or not the last byte carries.
LEMMA AddOneIs ==
    ASSUME NEW n \in Nat, n + 1 < ByteSize * ByteSize
    PROVE  AddOne(AddressOf(n)) = AddressOf(n + 1)
  <1> DEFINE q == n \div ByteSize
             r == n % ByteSize
  <1>1. ByteSize \in Nat \ {0} /\ ByteSize * ByteSize \in Nat
    BY ByteSizeIs
  <1>2. q \in Nat /\ r \in 0..(ByteSize - 1) /\ n = (q * ByteSize) + r
    BY <1>1, DivMod
  <1>3. AddressOf(n) = <<q, r>>
    BY DEF AddressOf
  <1>4. AddressOf(n) \in Byte \X Byte
    <2>1. n < ByteSize * ByteSize
      BY <1>1
    <2> QED BY <2>1, AddressIs
  <1> HIDE DEF q, r
  <1>5. q \in 0..(ByteSize - 1) /\ q * ByteSize \in Nat
    BY <1>1, <1>2, <1>3, <1>4 DEF Byte
  <1>6. CASE r + 1 < ByteSize
    <2>1. (r + 1) % ByteSize = r + 1 /\ r + 1 # 0 /\ r + 1 \in 0..(ByteSize - 1)
      BY <1>1, <1>2, <1>6
    <2>2. AddOne(<<q, r>>) = <<q, r + 1>>
      BY <2>1 DEF AddOne
    <2>3. n + 1 = (q * ByteSize) + (r + 1)
      BY <1>2, <1>5
    <2>4. AddressOf(n + 1) = <<q, r + 1>>
      BY <1>1, <1>2, <2>1, <2>3, DivModIs DEF AddressOf
    <2> QED BY <1>3, <2>2, <2>4
  <1>7. CASE r + 1 = ByteSize
    <2>1. (r + 1) % ByteSize = 0
      BY <1>1, <1>7
    <2>2. (q + 1) * ByteSize = (q * ByteSize) + ByteSize
      BY <1>1, <1>2
    <2>3. n + 1 = ((q + 1) * ByteSize) + 0
      BY <1>1, <1>2, <1>5, <1>7, <2>2
    <2>4. q + 1 < ByteSize
      <3> SUFFICES ASSUME q + 1 >= ByteSize PROVE FALSE
        BY <1>1, <1>5
      <3>1. q + 1 = ByteSize
        BY <1>1, <1>5
      <3> QED BY <1>1, <1>2, <2>3, <3>1
    <2>5. (q + 1) % ByteSize = q + 1
      BY <1>1, <1>2, <2>4
    <2>6. AddOne(<<q, r>>) = <<q + 1, 0>>
      BY <2>1, <2>5 DEF AddOne
    <2>7. q + 1 \in Nat /\ 0 \in 0..(ByteSize - 1)
      BY <1>1, <1>2
    <2>8. (n + 1) \div ByteSize = q + 1 /\ (n + 1) % ByteSize = 0
      <3>1. /\ (((q + 1) * ByteSize) + 0) \div ByteSize = q + 1
            /\ (((q + 1) * ByteSize) + 0) % ByteSize = 0
        BY <1>1, <2>7, DivModIs
      <3> QED BY <2>3, <3>1
    <2>9. AddressOf(n + 1) = <<q + 1, 0>>
      BY <2>8 DEF AddressOf
    <2> QED BY <1>3, <2>6, <2>9
  <1> QED BY <1>1, <1>2, <1>6, <1>7

\* A network that starts at a multiple of its size ends within two bytes.
LEMMA NetworkFits ==
    ASSUME NEW net \in Networks
    PROVE  /\ PowerOf2[net.hostBits] \in Nat /\ net.address = AddressOf(NumberOf(net.address))
           /\ NumberOf(net.address) \in Nat
           /\ NumberOf(net.address) + PowerOf2[net.hostBits] <= ByteSize * ByteSize
  <1> DEFINE first == NumberOf(net.address)
             h == net.hostBits
             size == PowerOf2[h]
             rest == PowerOf2[(2 * ByteBits) - h]
             all == ByteSize * ByteSize
             q == first \div size
  <1>1. /\ net.address \in Byte \X Byte /\ h \in 0..(2 * ByteBits) /\ first % size = 0
        /\ h \in Nat /\ (2 * ByteBits) - h \in Nat /\ ByteBits \in Nat
    BY ByteAssumption DEF Networks
  <1>2. first \in Nat /\ first < all /\ net.address = AddressOf(first)
    BY <1>1, NumberIs
  <1>3. size \in Nat \ {0} /\ rest \in Nat
    BY <1>1, PowerStep
  <1>4. all = size * rest
    <2>1. ByteBits + ByteBits = h + ((2 * ByteBits) - h)
      BY <1>1
    <2>2. PowerOf2[ByteBits + ByteBits] = PowerOf2[ByteBits] * PowerOf2[ByteBits]
      BY <1>1, PowersAdd
    <2>3. PowerOf2[h + ((2 * ByteBits) - h)] = size * rest
      BY <1>1, PowersAdd
    <2> QED BY <2>1, <2>2, <2>3 DEF ByteSize
  <1>5. q \in Nat /\ first = (q * size) + 0
    BY <1>1, <1>2, <1>3, DivMod
  <1> HIDE DEF first, size, rest, all, q
  <1>6. q < rest
    <2> SUFFICES ASSUME q >= rest PROVE FALSE
      BY <1>3, <1>5
    <2>1. q * size >= rest * size /\ rest * size = size * rest /\ q * size \in Nat
      BY <1>3, <1>5
    <2> QED BY <1>2, <1>3, <1>4, <1>5, <2>1
  <1>7. (q + 1) * size <= rest * size /\ (q + 1) * size = (q * size) + size
    BY <1>3, <1>5, <1>6
  <1>8. first + size <= all
    <2>1. q * size \in Nat /\ rest * size = size * rest
      BY <1>3, <1>5
    <2> QED BY <1>3, <1>4, <1>5, <1>7, <2>1
  <1> QED BY <1>2, <1>3, <1>8 DEF first, size, all

\* The loop of ClientIP counts from the gateway: client i has the address i + 2 of its
\* network.
LEMMA ClientsCount ==
    ASSUME NEW net \in Networks, NEW index \in Nat, index < PoolCapacity(net)
    PROVE  /\ PoolClientIP(net, index) = AddressOf(NumberOf(net.address) + (index + 2))
           /\ NumberOf(PoolClientIP(net, index)) = NumberOf(net.address) + (index + 2)
  <1> DEFINE first == NumberOf(net.address)
             size == PowerOf2[net.hostBits]
             all == ByteSize * ByteSize
             k == index + 1
             Step(f) == [n \in 0..k |-> IF n = 0 THEN GatewayIP(net) ELSE AddOne(f[n - 1])]
             w == [n \in 0..k |-> AddressOf(first + (n + 1))]
             after == CHOOSE f : f = Step(f)
  <1>1. /\ size \in Nat /\ first \in Nat /\ net.address = AddressOf(first) /\ first + size <= all
        /\ all \in Nat
    BY NetworkFits, ByteSizeIs
  <1>2. first + (index + 3) < first + size /\ index + 3 < size
    BY <1>1 DEF PoolCapacity
  <1> HIDE DEF first, size, all
  <1>3. \A n \in 0..k : AddOne(AddressOf(first + n)) = AddressOf(first + (n + 1))
    <2> SUFFICES ASSUME NEW n \in 0..k
                 PROVE  AddOne(AddressOf(first + n)) = AddressOf(first + (n + 1))
      OBVIOUS
    <2>1. first + n \in Nat /\ (first + n) + 1 < all /\ (first + n) + 1 = first + (n + 1)
      BY <1>1, <1>2
    <2>2. AddOne(AddressOf(first + n)) = AddressOf((first + n) + 1)
      BY <2>1, AddOneIs DEF all
    <2> QED BY <2>1, <2>2
  <1>4. GatewayIP(net) = AddressOf(first + 1)
    <2>1. first + 0 = first /\ first + (0 + 1) = first + 1 /\ 0 \in 0..k
      BY <1>1
    <2> QED BY <1>1, <1>3, <2>1 DEF GatewayIP
  <1>5. w = Step(w)
    <2> SUFFICES ASSUME NEW n \in 0..k
                 PROVE  w[n] = IF n = 0 THEN GatewayIP(net) ELSE AddOne(w[n - 1])
      BY Zenon
    <2>1. CASE n = 0
      BY <1>1, <1>4, <2>1
    <2>2. CASE n # 0
      <3>1. n - 1 \in 0..k /\ (n - 1) + 1 = n
        BY <2>2
      <3>2. w[n - 1] = AddressOf(first + n) /\ w[n] = AddressOf(first + (n + 1))
        BY <3>1
      <3> HIDE DEF w
      <3> QED BY <1>3, <2>2, <3>2
    <2> QED BY <2>1, <2>2
  <1>6. after = Step(after)
    <2> HIDE DEF w, Step
    <2> QED BY <1>5
  <1>7. \A n \in 0..k : after[n] = w[n]
    <2> HIDE DEF after
    <2>0. \A n \in 0..k : /\ after[n] = IF n = 0 THEN GatewayIP(net) ELSE AddOne(after[n - 1])
                          /\ w[n] = IF n = 0 THEN GatewayIP(net) ELSE AddOne(w[n - 1])
      <3> HIDE DEF w
      <3> QED BY <1>5, <1>6
    <2> HIDE DEF w
    <2> DEFINE T == {n \in Nat : n <= k => after[n] = w[n]}
    <2>1. 0 \in T
      BY <2>0
    <2>2. ASSUME NEW n \in T PROVE n + 1 \in T
      <3> SUFFICES ASSUME n + 1 <= k PROVE after[n + 1] = w[n + 1]
        OBVIOUS
      <3>1. n + 1 \in 0..k /\ n + 1 # 0 /\ (n + 1) - 1 = n /\ after[n] = w[n]
        OBVIOUS
      <3> QED BY <2>0, <3>1
    <2>3. T = Nat
      <3>1. T \subseteq Nat
        OBVIOUS
      <3> HIDE DEF T
      <3> QED BY <2>1, <2>2, <3>1, SetInduction
    <2> QED BY <2>3
  <1>8. PoolClientIP(net, index) = after[k]
    <2>1. ~(index < 0 \/ index >= PoolCapacity(net))
      BY <1>1, <1>2 DEF PoolCapacity, size
    <2> QED BY <2>1, Zenon DEF PoolClientIP
  <1>9. w[k] = AddressOf(first + (index + 2))
    <2>1. k \in 0..k /\ k + 1 = index + 2
      OBVIOUS
    <2> QED BY <2>1
  <1>10. PoolClientIP(net, index) = AddressOf(first + (index + 2))
    <2>1. k \in 0..k
      OBVIOUS
    <2> HIDE DEF w, k, after
    <2> QED BY <1>7, <1>8, <1>9, <2>1
  <1>11. first + (index + 2) \in Nat /\ first + (index + 2) < all
    BY <1>1, <1>2
  <1> QED BY <1>10, <1>11, AddressIs DEF first, all

\* The sizes without room for a client, and the others.
LEMMA SizeIs ==
    ASSUME NEW h \in Nat
    PROVE  PowerOf2[h] = 1 \/ PowerOf2[h] = 2 \/ PowerOf2[h] >= 4
  <1>1. PowerOf2[0] = 1 /\ PowerOf2[0 + 1] = 2 * PowerOf2[0]
    BY PowerStep
  <1>2. CASE h >= 2
    <2>1. /\ h - 2 \in Nat /\ h - 1 \in Nat /\ (h - 2) + 1 = h - 1 /\ (h - 1) + 1 = h
      BY <1>2
    <2>2. /\ PowerOf2[(h - 2) + 1] = 2 * PowerOf2[h - 2] /\ PowerOf2[(h - 1) + 1] = 2 * PowerOf2[h - 1]
          /\ PowerOf2[h - 2] \in Nat /\ PowerOf2[h - 2] > 0
      BY <2>1, PowerStep
    <2> QED BY <2>1, <2>2
  <1> QED BY <1>1, <1>2

\* For bytes of any number of bits and every network: the clients have exactly the addresses
\* of the network that are not its own, its gateway's or the broadcast address, each its
\* own, and an index outside has none.
THEOREM PoolHolds == PoolIsRight
  <1> SUFFICES ASSUME NEW net \in Networks
               PROVE  LET first == NumberOf(net.address)
                          last == first + PowerOf2[net.hostBits] - 1
                      IN  /\ {NumberOf(PoolClientIP(net, i)) : i \in 0..(PoolCapacity(net) - 1)}
                                 = (first..last) \ {first, first + 1, last}
                          /\ \A i \in {-1, PoolCapacity(net)} : PoolClientIP(net, i) = NoAddress
    BY DEF PoolIsRight
  <1> DEFINE first == NumberOf(net.address)
             size == PowerOf2[net.hostBits]
             last == first + size - 1
             cap == PoolCapacity(net)
  <1>1. first \in Nat /\ size \in Nat /\ cap = IF size - 2 - 1 < 0 THEN 0 ELSE size - 2 - 1
    BY NetworkFits DEF PoolCapacity
  <1>2. size = 1 \/ size = 2 \/ size >= 4
    <2>1. net.hostBits \in Nat
      BY ByteAssumption DEF Networks
    <2> QED BY <2>1, SizeIs
  <1>3. \A i \in {-1, cap} : PoolClientIP(net, i) = NoAddress
    BY <1>1 DEF PoolClientIP
  <1>4. \A i \in 0..(cap - 1) : NumberOf(PoolClientIP(net, i)) = first + (i + 2)
    BY <1>1, ClientsCount
  <1> HIDE DEF first, size, cap
  <1>5. \A i \in 0..(cap - 1) : first + (i + 2) \in (first..last) \ {first, first + 1, last}
    BY <1>1, <1>2
  <1>6. \A n \in (first..last) \ {first, first + 1, last} :
            n - first - 2 \in 0..(cap - 1) /\ n = first + ((n - first - 2) + 2)
    BY <1>1, <1>2
  <1> HIDE DEF last
  <1>7. {NumberOf(PoolClientIP(net, i)) : i \in 0..(cap - 1)} = (first..last) \ {first, first + 1, last}
    BY <1>4, <1>5, <1>6
  <1> QED BY <1>3, <1>7 DEF first, size, last, cap

\* How far the address of a client is from that of its network depends on its index only.
LEMMA OffsetsAre ==
    ASSUME NEW i \in Nat, i < PowerOf2[2 * ByteBits] - 3
    PROVE  Offsets(i) = {i + 2}
  <1> DEFINE whole == [address |-> <<0, 0>>, hostBits |-> 2 * ByteBits]
             Nets == {n \in Networks : i < PoolCapacity(n)}
  <1>1. \A net \in Nets : NumberOf(PoolClientIP(net, i)) - NumberOf(net.address) = i + 2
    <2> SUFFICES ASSUME NEW net \in Networks, i < PoolCapacity(net)
                 PROVE  NumberOf(PoolClientIP(net, i)) - NumberOf(net.address) = i + 2
      OBVIOUS
    <2>1. NumberOf(PoolClientIP(net, i)) = NumberOf(net.address) + (i + 2)
      BY ClientsCount
    <2>2. NumberOf(net.address) \in Nat
      BY NetworkFits
    <2> QED BY <2>1, <2>2
  <1>2. whole \in Nets
    <2>1. ByteSize \in Nat /\ ByteSize >= 2 /\ 2 * ByteBits \in Nat
      BY ByteSizeIs, ByteAssumption
    <2>2. PowerOf2[2 * ByteBits] \in Nat \ {0}
      BY <2>1, PowerStep
    <2>3. whole \in [address : Byte \X Byte, hostBits : 0..(2 * ByteBits)]
      BY <2>1 DEF Byte
    <2>4. NumberOf(<<0, 0>>) = 0 /\ 0 % PowerOf2[2 * ByteBits] = 0
      BY <2>1, <2>2 DEF NumberOf
    <2>5. whole \in Networks
      BY <2>3, <2>4 DEF Networks
    <2>6. i < PoolCapacity(whole)
      BY <2>2 DEF PoolCapacity
    <2> QED BY <2>5, <2>6
  <1> HIDE DEF Nets
  <1>3. {NumberOf(PoolClientIP(net, i)) - NumberOf(net.address) : net \in Nets} = {i + 2}
    BY <1>1, <1>2
  <1> QED BY <1>3 DEF Offsets, Nets

\* The host number under which the server keeps a route is the place of the client's
\* address in the network, whichever it is, and that address is right.
THEOREM AddressesHold == Spec => []AddressesAreRight
  <1>1. TypeOK /\ TunInvariant => AddressesAreRight
    <2> SUFFICES ASSUME TypeOK, TunInvariant, cidr # NoCidr, NEW i \in Index, indexToIP[i] # NoIP
                 PROVE  HostNumbers[i] = {indexToIP[i]}
      BY PoolHolds DEF AddressesAreRight
    <2>1. i \in Nat /\ i < Capacity[cidr] /\ indexToIP[i] = i + 2
      BY IndexAssumption DEF TunInvariant, RoutesInPool, InPool, RoutesAgree, ClientIP, Index,
                             IndexAssumption
    <2>2. cidr \in Cidrs /\ Capacity[cidr] \in Nat
      BY CidrAssumption DEF TypeOK, TunTypeOK
    <2>3. PowerOf2[2 * ByteBits] \in Nat
      BY PowerStep, ByteAssumption
    <2>4. i < PowerOf2[2 * ByteBits] - 3
      BY <2>1, <2>2, <2>3, NetworkAssumption
    <2>5. Offsets(i) = {i + 2}
      BY <2>1, <2>4, OffsetsAre
    <2> QED BY <2>1, <2>5 DEF HostNumbers
  <1> QED BY <1>1, TunInvariantHolds, TypeCorrect, PTL

===============================================================================
