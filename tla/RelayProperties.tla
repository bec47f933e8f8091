--------------------------- MODULE RelayProperties ---------------------------
(***************************************************************************)
(* What the relay server promises, stated over the state of RelayServer.   *)
(* All of it holds but the last property, a statement of a comment that    *)
(* the code does not keep, which a run refutes.                            *)
(***************************************************************************)
EXTENDS RelayServer

\* The goroutine of c is between its registration in the pairing table and the
\* Unregister call that ends it.
Registered(c) == pc[c] \in {"meta", "notify", "regok", "relay", "forward", "leave"}

\* Where in the log of c the data of s is.
DataOf(c, s) == {k \in 1..Len(out[c]) : out[c][k].type = "Data" /\ out[c][k].from = s}

Heard(c, type) == \E k \in 1..Len(out[c]) : out[c][k].type = type

-------------------------------------------------------------------------------
(* Safety of the pairing table. *)

\* Whatever interleaving of registrations, takeovers and departures, the pairing
\* table refers to connections of the right role and index whose goroutine is
\* still registered: no entry outlives the cleanup of relayLoop.  (A TUN listener
\* is excepted: serverTUNRelayLoop never unregisters it.)
TableHoldsTheLiving ==
    /\ \A i \in Index, c \in Conns : listeners[i] = c =>
           IsListener(c) /\ idx[c] = i /\ (IsTun(c) \/ Registered(c))
    /\ \A i \in Index : \A c \in forwarders[i] :
           ~IsListener(c) /\ idx[c] = i /\ Registered(c)

\* A connection only ever receives data of the opposite role with its own index,
\* also when listeners are replaced while a forwarder's goroutine holds the one
\* it has looked up.
Isolation ==
    \A c \in Conns : \A k \in 1..Len(out[c]) : out[c][k].type = "Data" =>
        LET s == out[c][k].from IN
        /\ s \in Conns
        /\ IsListener(s) # IsListener(c)
        /\ idx[s] = idx[c]

\* What a connection receives from one peer is a run of consecutive frames of
\* that peer in the order they were sent: a pairing may start late and stop
\* early, but it never drops, repeats or reorders a frame in between.
NoGapNoRepeat ==
    \A c, s \in Conns : \A j, k \in DataOf(c, s) :
        j < k /\ (\A m \in DataOf(c, s) : m <= j \/ k <= m) => out[c][k].n = out[c][j].n + 1

\* A forwarder that is still connected and no longer in the table has been told
\* so by a PeerLeave, wherever in its registration the listener's departure,
\* timely or late, has caught it.
NoSilentUnpairing ==
    \A c \in Conns :
        /\ Registered(c)
        /\ ~IsListener(c)
        /\ Reachable(c)
        /\ c \notin forwarders[idx[c]]
        => Heard(c, "PeerLeave")

\* The server closes a connection under a goroutine that still uses it only to
\* hand its index to another listener; a forwarder is never cut off.
OnlyTakeoverCloses ==
    \A c \in srvClosed : pc[c] = "done" \/
        /\ IsListener(c)
        /\ \E d \in Conns \ {c} : IsListener(d) /\ idx[d] = idx[c]

\* The metadata the console and checkProtocolMatch read: an entry of the table is
\* without metadata only while its goroutine is between the two stores, and no
\* metadata survives the goroutine of a TCP or UDP client.
MetaFollowsTable ==
    /\ \A i \in Index, c \in Conns :
           listeners[i] = c \/ c \in forwarders[i] => pc[c] = "meta" \/ meta[c] = req[c].mode
    /\ \A c \in Conns : pc[c] = "done" /\ ~IsTun(c) => meta[c] = NoMeta

\* A registration that is refused, at whatever step, leaves nothing behind: no entry
\* of the table, no metadata, no route, and no reply that says otherwise.
RefusedLeavesNoTrace ==
    \A c \in Conns : Heard(c, "Error") =>
        /\ \A i \in Index : listeners[i] # c /\ c \notin forwarders[i]
        /\ \A h \in Hosts : ipToTun[h] # c
        /\ meta[c] = NoMeta
        /\ ~Heard(c, "RegOK")

\* Whenever the console shows an outdated table, a goroutine that will notify it
\* is on its way: one that has registered or left and not yet notified, or one
\* whose connection is gone.  handleTUNListener never notifies and is not
\* part of the statement: it is checked where no TUN client can register.
NotificationIsPending ==
    unseen => \E c \in Conns :
        \/ pc[c] \in {"meta", "notify", "leave", "notifyLeave"}
        \/ Registered(c) /\ ~Reachable(c)

-------------------------------------------------------------------------------
(* Safety of the TUN context. *)

\* The two tables of the TUN context say the same, and a route leads to the client
\* of that index whose goroutine has not run UnregisterClient: a reconnect that
\* replaces a route never leaves the address or the index half removed.
RoutesAgree ==
    /\ \A i \in Index : indexToIP[i] # NoIP =>
           indexToIP[i] = ClientIP(i) /\ ipToTun[ClientIP(i)] # NoConn
    /\ \A h \in Hosts, c \in Conns : ipToTun[h] = c =>
           /\ indexToIP[idx[c]] = h
           /\ IsTun(c)
           /\ pc[c] \in {"install", "meta", "regok", "tunRelay", "tunLeave"}

\* An IP packet of the device reaches only a client whose address it carries, even
\* when the route changes between the lookup and the send of tunReadLoop.
PacketsReachTheirAddress ==
    \A c \in Conns : \A k \in 1..Len(out[c]) :
        out[c][k].type = "DataTUN" => IsTun(c) /\ out[c][k].n = ClientIP(idx[c])

\* No client is given an address before the pool exists, and the pool's network is
\* never changed afterwards: the addresses given out stay inside one network.
PoolIsFixed == [][cidr # NoCidr => cidr' = cidr]_vars

\* ... so every route lies within the capacity of that network.
RoutesInPool == \A i \in Index : indexToIP[i] # NoIP => cidr # NoCidr /\ InPool(i)

\* A route leads to a client that is still there, from both tables and within the pool,
\* however registrations replace, outlive or follow one another.
RoutesAreRight == RoutesAgree /\ RoutesInPool

-------------------------------------------------------------------------------
(* Liveness under FairSpec. *)

\* The goroutine of a connection that is closed at either end terminates, and
\* with it every entry it made is cleaned up.
GoroutineEnds == \A c \in Conns : ~Reachable(c) ~> pc[c] = "done"

-------------------------------------------------------------------------------
(* What a comment of the source says and the code does not keep. *)

\* server.go:370-371 pairs a listener with the forwarders of its index.  A listener
\* in its relay loop, still connected at both ends, should be the one its index
\* leads to; but the goroutine of a listener that was replaced deletes the entry of
\* its successor when it cleans up (UnregisterListener takes only the index).
ListenerKeepsItsIndex ==
    \A c \in Conns :
        pc[c] = "relay" /\ IsListener(c) /\ Reachable(c)
        /\ (\A d \in Conns \ {c} : IsListener(d) => pc[d] \in {"auth", "done"})
        => GetListener(idx[c]) = c

===============================================================================
