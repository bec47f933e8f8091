-------------------------------- MODULE PeerMap --------------------------------
(***************************************************************************)
(* pkg/relay/peermap.go: the pairing table of the relay.  Every method of  *)
(* PeerMap holds pm.mu from its first to its last statement (SendToListener*)
(* only while it reads the map), so each operator below is one atomic step *)
(* of its caller, the sends and closes done under the lock included.       *)
(*                                                                         *)
(* A missing key and a nil value are the same here, as they are to Go's    *)
(* readers of the maps: NoConn, or the empty set of forwarders.  The list  *)
(* of forwarders of an index is kept as a set: a connection registers once,*)
(* so the list has no duplicates, and its order only decides the order of  *)
(* sends that happen under one critical section.                           *)
(***************************************************************************)
EXTENDS RelayConns

VARIABLES
    listeners,  \* index -> the listener connection, or NoConn
    forwarders  \* index -> the forwarder connections

peerVars == <<listeners, forwarders>>

PeerMapTypeOK ==
    /\ listeners \in [Index -> Conns \cup {NoConn}]
    /\ forwarders \in [Index -> SUBSET Conns]

NewPeerMap ==
    /\ listeners = [i \in Index |-> NoConn]
    /\ forwarders = [i \in Index |-> {}]

ListenerIndices == {i \in Index : listeners[i] # NoConn}

ListenerCount == Cardinality(ListenerIndices)

GetListener(i) == listeners[i]

-------------------------------------------------------------------------------

\* A listener that finds its index taken closes the connection that holds it.
RegisterListener(i, c) ==
    /\ srvClosed' = srvClosed \cup ({listeners[i]} \ {NoConn})
    /\ listeners' = [listeners EXCEPT ![i] = c]
    /\ UNCHANGED <<forwarders, cliClosed, sent, read, out>>

RegisterForwarder(i, c) ==
    /\ forwarders' = [forwarders EXCEPT ![i] = @ \cup {c}]
    /\ UNCHANGED <<listeners, connVars>>

\* Mutant: the list is deleted before the loop that tells its members.
UnregisterListenerSilently(i) ==
    /\ listeners' = [listeners EXCEPT ![i] = NoConn]
    /\ forwarders' = [forwarders EXCEPT ![i] = {}]
    /\ UNCHANGED <<srvClosed, cliClosed, sent, read, out>>

\* Mutant: the forwarders are closed instead of told.
UnregisterListenerCloses(i) ==
    /\ listeners' = [listeners EXCEPT ![i] = NoConn]
    /\ srvClosed' = srvClosed \cup forwarders[i]
    /\ out' = Written(forwarders[i], Frame("PeerLeave", NoConn, 0))
    /\ forwarders' = [forwarders EXCEPT ![i] = {}]
    /\ UNCHANGED <<cliClosed, sent, read>>

\* The entry of the index is deleted whoever holds it now, its forwarders are
\* told that the tunnel is gone and the list is emptied.
UnregisterListener(i) ==
    /\ listeners' = [listeners EXCEPT ![i] = NoConn]
    /\ out' = Written(forwarders[i], Frame("PeerLeave", NoConn, 0))
    /\ forwarders' = [forwarders EXCEPT ![i] = {}]
    /\ UNCHANGED <<srvClosed, cliClosed, sent, read>>

\* Mutant: the listener is told, the entry of the list stays.
UnregisterForwarderKeeps(i, c) ==
    /\ out' = IF forwarders[i] \subseteq {c}
              THEN Written({listeners[i]}, Frame("PeerLeave", NoConn, 0))
              ELSE out
    /\ UNCHANGED <<listeners, forwarders, srvClosed, cliClosed, sent, read>>

\* The last forwarder to go tells the listener of the index, if there is one.
UnregisterForwarder(i, c) ==
    /\ forwarders' = [forwarders EXCEPT ![i] = @ \ {c}]
    /\ out' = IF forwarders[i] \subseteq {c}
              THEN Written({listeners[i]}, Frame("PeerLeave", NoConn, 0))
              ELSE out
    /\ UNCHANGED <<listeners, srvClosed, cliClosed, sent, read>>

\* Mutant: the frame goes to the forwarders of every index.
BroadcastToAll(i, f) ==
    /\ out' = Written(UNION {forwarders[j] : j \in Index}, f)
    /\ UNCHANGED peerVars

\* Frame f goes to every forwarder of the index; those whose Send fails are
\* dropped from the list.
BroadcastFromListener(i, f) ==
    \E alive \in SUBSET forwarders[i] :
        /\ \A p \in alive : SendSucceeds(p)
        /\ \A p \in forwarders[i] \ alive : SendFails(p)
        /\ out' = Written(forwarders[i], f)
        /\ forwarders' = [forwarders EXCEPT ![i] = alive]
        /\ UNCHANGED listeners

===============================================================================
