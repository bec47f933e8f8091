------------------------------ MODULE TunContext ------------------------------
(***************************************************************************)
(* ServerTUNContext of pkg/relay/tun.go: the one address pool of the       *)
(* server, its TUN device, the routes from client addresses to connections *)
(* and the goroutine that reads the device.  Every operator is one         *)
(* critical section of ctx.mu.                                             *)
(*                                                                         *)
(* An address is its host number inside the pool's network: 1 is the       *)
(* gateway, client i has host number i + 2 (pkg/tun/ippool.go).            *)
(***************************************************************************)
EXTENDS RelayConns

CONSTANTS
    Cidrs,      \* the well-formed CIDRs a client may register with
    Capacity,   \* CIDR -> number of client addresses it has
    NoCidr,     \* no pool yet, or a registration without a CIDR
    MaxPackets  \* bound: packets the TUN device delivers to the server

ASSUME CidrAssumption == NoCidr \notin Cidrs /\ Capacity \in [Cidrs -> Nat]
ASSUME PacketAssumption == MaxPackets \in Nat

VARIABLES
    cidr,       \* cidrStr: the CIDR of the pool, NoCidr while pool is nil
    devUp,      \* configureTUNDevice has succeeded
    ipToTun,    \* host number -> connection of the client, or NoConn
    indexToIP,  \* index -> host number given to it, or NoIP
    packet,     \* the packet tunReadLoop has looked up and not yet sent
    packets     \* packets read from the device so far

tunVars == <<cidr, devUp, ipToTun, indexToIP, packet, packets>>

NoIP == 0
ClientIP(i) == i + 2
Hosts == {ClientIP(i) : i \in Index}
NoPacket == [peer |-> NoConn, host |-> NoIP]

TunTypeOK ==
    /\ cidr \in Cidrs \cup {NoCidr}
    /\ devUp \in BOOLEAN
    /\ ipToTun \in [Hosts -> Conns \cup {NoConn}]
    /\ indexToIP \in [Index -> Hosts \cup {NoIP}]
    /\ packet \in [peer : Conns \cup {NoConn}, host : Hosts \cup {NoIP}]
    /\ packets \in 0..MaxPackets

NewServerTUNContext ==
    /\ cidr = NoCidr
    /\ devUp = FALSE
    /\ ipToTun = [h \in Hosts |-> NoConn]
    /\ indexToIP = [i \in Index |-> NoIP]
    /\ packet = NoPacket
    /\ packets = 0

-------------------------------------------------------------------------------

\* The first registration creates the pool and configures the device, later
\* ones must name the same CIDR.
EnsurePool(k) ==
    /\ \/ cidr # NoCidr /\ k = cidr /\ UNCHANGED <<cidr, devUp>>
       \/ cidr = NoCidr /\ k \in Cidrs /\ cidr' = k /\ devUp' = TRUE
    /\ UNCHANGED <<ipToTun, indexToIP, packet, packets>>

\* The error returns: another CIDR than the pool's, a CIDR NewPool cannot
\* parse, or a failing `ip` command, which leaves the pool assigned.
EnsurePoolFails(k) ==
    /\ \/ cidr \notin {NoCidr, k} /\ UNCHANGED cidr
       \/ cidr = NoCidr /\ k \notin Cidrs /\ UNCHANGED cidr
       \/ cidr = NoCidr /\ k \in Cidrs /\ cidr' = k
    /\ UNCHANGED <<devUp, ipToTun, indexToIP, packet, packets>>

InPool(i) == i < Capacity[cidr]

\* Mutant: the old route is dropped after the new one is installed.
RegisterClientSwapped(i, c) ==
    /\ srvClosed' = srvClosed \cup ({ipToTun[ClientIP(i)]} \ {NoConn})
    /\ ipToTun' = [h \in Hosts |-> IF h = indexToIP[i] THEN NoConn
                                   ELSE IF h = ClientIP(i) THEN c
                                   ELSE ipToTun[h]]
    /\ indexToIP' = [indexToIP EXCEPT ![i] = ClientIP(i)]
    /\ UNCHANGED <<cidr, devUp, packet, packets>>

\* The connection that holds the address is closed, the old route of the index
\* is dropped and the new one installed.
RegisterClient(i, c) ==
    /\ srvClosed' = srvClosed \cup ({ipToTun[ClientIP(i)]} \ {NoConn})
    /\ ipToTun' = [h \in Hosts |-> IF h = ClientIP(i) THEN c
                                   ELSE IF h = indexToIP[i] THEN NoConn
                                   ELSE ipToTun[h]]
    /\ indexToIP' = [indexToIP EXCEPT ![i] = ClientIP(i)]
    /\ UNCHANGED <<cidr, devUp, packet, packets>>

UnregisterClient(i) ==
    /\ ipToTun' = [h \in Hosts |-> IF h = indexToIP[i] THEN NoConn ELSE ipToTun[h]]
    /\ indexToIP' = [indexToIP EXCEPT ![i] = NoIP]
    /\ UNCHANGED <<cidr, devUp, packet, packets>>

\* Mutant: the lookup takes another address of the packet than its destination.
TunLookupSource ==
    /\ packet = NoPacket
    /\ packets < MaxPackets
    /\ \E h, g \in Hosts :
        /\ ipToTun[g] # NoConn
        /\ packet' = [peer |-> ipToTun[g], host |-> h]
    /\ packets' = packets + 1
    /\ UNCHANGED <<cidr, devUp, ipToTun, indexToIP>>

\* tunReadLoop looks the destination up under the lock (a packet without a
\* route is dropped at once and changes nothing) ...
TunLookup ==
    /\ packet = NoPacket
    /\ packets < MaxPackets
    /\ \E h \in Hosts :
        /\ ipToTun[h] # NoConn
        /\ packet' = [peer |-> ipToTun[h], host |-> h]
    /\ packets' = packets + 1
    /\ UNCHANGED <<cidr, devUp, ipToTun, indexToIP>>

\* ... and sends after unlocking, whatever happened to the route since.
TunDeliver ==
    /\ packet # NoPacket
    /\ out' = Written({packet.peer}, Frame("DataTUN", NoConn, packet.host))
    /\ packet' = NoPacket
    /\ UNCHANGED <<cidr, devUp, ipToTun, indexToIP, packets>>

===============================================================================
