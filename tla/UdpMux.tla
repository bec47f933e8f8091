--------------------------------- MODULE UdpMux ---------------------------------
(***************************************************************************)
(* pkg/relay/udp.go: datagrams of many addresses multiplexed over one      *)
(* listener session.  The listener end gives every source address an       *)
(* identifier, announces it once with a PeerJoin and keeps it until a      *)
(* PeerLeave comes back; each forwarder of the index dials the target for  *)
(* every PeerJoin.  The server broadcasts to the forwarders that are       *)
(* paired at the time, and a session drops frames that do not fit.         *)
(*                                                                         *)
(* connReadLoop is the one of tcp.go: it wraps what the target answers in  *)
(* DataTCP frames, which the listener end of a UDP tunnel does not handle. *)
(*                                                                         *)
(* The sessions last.  An identifier is given once: the counter, of 2^16   *)
(* values in the source, does not come round within the bound Sids.  The   *)
(* PeerLeave that RunUDPForwarder could handle is sent by no listener.     *)
(***************************************************************************)
EXTENDS Naturals, Sequences, FiniteSets

CONSTANTS
    Addrs,          \* source addresses
    NoAddr,         \* Go's nil *net.UDPAddr
    Forwarders,     \* forwarders of the listener's index
    Sids,           \* bound: identifiers the listener can give
    MaxDatagrams,   \* bound: datagrams that come in at the listener
    MaxReplies,     \* bound: datagrams the target sends back
    MaxLost         \* bound: frames dropped by full channels or by waitForFrame

ASSUME UdpAssumption ==
    /\ NoAddr \notin Addrs
    /\ {Sids, MaxDatagrams, MaxReplies, MaxLost} \subseteq Nat

VARIABLES
    clients,    \* udpClientMap: identifier -> address
    nextID,     \* udpClientMap.nextID
    hand,       \* the datagram RunUDPListener has in hand, and its next step
    datagrams,  \* datagrams read so far
    paired,     \* forwarders the server broadcasts to
    toFwd,      \* forwarder -> frames on their way to it
    toLis,      \* frames on their way to the listener
    entries,    \* forwarder -> identifiers in its StreamMap
    loop,       \* forwarder -> identifier -> its connReadLoop
    carried,    \* forwarder -> identifier -> addresses whose datagrams it wrote
    replies,    \* connections, as <<f, i>>, whose target answered
    got,        \* address -> connections whose answer it received
    missed,     \* <<f, i>>: the PeerJoin of i never came to forwarder f
    kept,       \* identifiers whose PeerLeave was dropped on its way back
    lost        \* frames dropped so far

lisVars == <<clients, nextID, hand, datagrams>>
fwdVars == <<entries, loop, carried, replies>>
faultVars == <<missed, kept, lost>>
vars == <<lisVars, paired, toFwd, toLis, fwdVars, got, faultVars>>

Sid == 0..(Sids - 1)
Frame(type, i, a, f) == [type |-> type, sid |-> i, addr |-> a, via |-> f]
Frames ==
    [type : {"DataUDP"}, sid : Sid, addr : Addrs, via : {{}}]
    \cup [type : {"PeerJoin", "DataTCP", "PeerLeave"}, sid : Sid, addr : {NoAddr},
          via : SUBSET Forwarders]
Free == [at |-> "read", addr |-> NoAddr, sid |-> 0]

TypeOK ==
    /\ clients \in [Sid -> Addrs \cup {NoAddr}]
    /\ nextID \in 0..Sids
    /\ hand = Free \/ hand \in [at : {"join", "data"}, addr : Addrs, sid : Sid]
    /\ datagrams \in 0..MaxDatagrams
    /\ paired \subseteq Forwarders
    /\ toFwd \in [Forwarders -> Seq(Frames)]
    /\ toLis \in Seq(Frames)
    /\ entries \in [Forwarders -> SUBSET Sid]
    /\ loop \in [Forwarders -> [Sid -> {"off", "read", "remove", "leave", "done"}]]
    /\ carried \in [Forwarders -> [Sid -> SUBSET Addrs]]
    /\ replies \subseteq Forwarders \X Sid
    /\ got \in [Addrs -> SUBSET (Forwarders \X Sid)]
    /\ missed \subseteq Forwarders \X Sid
    /\ kept \subseteq Sid
    /\ lost \in 0..MaxLost

Init ==
    /\ clients = [i \in Sid |-> NoAddr]
    /\ nextID = 0 /\ hand = Free /\ datagrams = 0
    /\ paired = {}
    /\ toFwd = [f \in Forwarders |-> <<>>] /\ toLis = <<>>
    /\ entries = [f \in Forwarders |-> {}]
    /\ loop = [f \in Forwarders |-> [i \in Sid |-> "off"]]
    /\ carried = [f \in Forwarders |-> [i \in Sid |-> {}]]
    /\ replies = {}
    /\ got = [a \in Addrs |-> {}]
    /\ missed = {} /\ kept = {} /\ lost = 0

\* A forwarder is put into the list.  What comes before its RegOK is thrown away by
\* waitForFrame; these frames are among those that DropAtForwarder drops.
Pair(f) ==
    /\ f \notin paired
    /\ paired' = paired \cup {f}
    /\ UNCHANGED <<lisVars, toFwd, toLis, fwdVars, got, faultVars>>

-------------------------------------------------------------------------------
(* The listener end. *)

Known(a) == {i \in Sid : clients[i] = a}

\* Mutant: the smallest identifier that is not in the map is taken.
AssignFree(a) ==
    \E i \in Sid :
        /\ clients[i] = NoAddr /\ \A j \in 0..(i - 1) : clients[j] # NoAddr
        /\ clients' = [clients EXCEPT ![i] = a]
        /\ UNCHANGED nextID
        /\ hand' = [at |-> "join", addr |-> a, sid |-> i]

\* getOrAssign of an address that has no identifier.
Assign(a) ==
    /\ nextID \in Sid
    /\ clients' = [clients EXCEPT ![nextID] = a]
    /\ nextID' = nextID + 1
    /\ hand' = [at |-> "join", addr |-> a, sid |-> nextID]

\* A datagram comes in.
ReadFromUDP(a) ==
    /\ hand = Free /\ datagrams < MaxDatagrams
    /\ datagrams' = datagrams + 1
    /\ \/ Known(a) = {} /\ Assign(a)
       \/ /\ \E i \in Known(a) : hand' = [at |-> "data", addr |-> a, sid |-> i]
          /\ UNCHANGED <<clients, nextID>>
    /\ UNCHANGED <<paired, toFwd, toLis, fwdVars, got, faultVars>>

\* Send through the session; the server broadcasts to the paired forwarders.
Broadcast(frame) ==
    toFwd' = [f \in Forwarders |-> IF f \in paired THEN Append(toFwd[f], frame) ELSE toFwd[f]]

SendJoin ==
    /\ hand.at = "join"
    /\ Broadcast(Frame("PeerJoin", hand.sid, NoAddr, {}))
    /\ missed' = missed \cup {<<f, hand.sid>> : f \in Forwarders \ paired}
    /\ hand' = [hand EXCEPT !.at = "data"]
    /\ UNCHANGED <<clients, nextID, datagrams, paired, toLis, fwdVars, got, kept, lost>>

SendData ==
    /\ hand.at = "data"
    /\ Broadcast(Frame("DataUDP", hand.sid, hand.addr, {}))
    /\ hand' = Free
    /\ UNCHANGED <<clients, nextID, datagrams, paired, toLis, fwdVars, got, faultVars>>

\* handleUDPForwarderFrames: a DataUDP goes to the address of its identifier, a PeerLeave
\* forgets the identifier, any other frame is ignored.
HandleForwarderFrame ==
    /\ toLis # <<>> /\ toLis' = Tail(toLis)
    /\ LET frame == Head(toLis)
           a == clients[frame.sid]
       IN  /\ got' = IF frame.type = "DataUDP" /\ a # NoAddr
                     THEN [got EXCEPT ![a] = @ \cup {<<f, frame.sid>> : f \in frame.via}]
                     ELSE got
           /\ clients' = IF frame.type = "PeerLeave"
                         THEN [clients EXCEPT ![frame.sid] = NoAddr]
                         ELSE clients
    /\ UNCHANGED <<nextID, hand, datagrams, paired, toFwd, fwdVars, faultVars>>

-------------------------------------------------------------------------------
(* A forwarder end. *)

Arrives(f, type) == toFwd[f] # <<>> /\ Head(toFwd[f]).type = type
NextFrame(f) == toFwd' = [toFwd EXCEPT ![f] = Tail(@)]
Leave(f, i) == toLis' = Append(toLis, Frame("PeerLeave", i, NoAddr, {f}))
Goto(f, i, l) == loop' = [loop EXCEPT ![f][i] = l]

DialTarget(f) ==
    /\ Arrives(f, "PeerJoin") /\ NextFrame(f)
    /\ LET i == Head(toFwd[f]).sid IN
        /\ entries' = [entries EXCEPT ![f] = @ \cup {i}]
        /\ carried' = [carried EXCEPT ![f][i] = {}]
        /\ Goto(f, i, "read")
    /\ UNCHANGED <<lisVars, paired, toLis, replies, got, faultVars>>

DialFails(f) ==
    /\ Arrives(f, "PeerJoin") /\ NextFrame(f)
    /\ LET i == Head(toFwd[f]).sid IN Leave(f, i) /\ Goto(f, i, "done")
    /\ UNCHANGED <<lisVars, paired, entries, carried, replies, got, faultVars>>

\* The datagram goes to the target, or nowhere without a connection; the error of a
\* Write is ignored.
WriteData(f) ==
    /\ Arrives(f, "DataUDP") /\ NextFrame(f)
    /\ LET frame == Head(toFwd[f]) IN
           carried' = IF frame.sid \in entries[f]
                      THEN [carried EXCEPT ![f][frame.sid] = @ \cup {frame.addr}]
                      ELSE carried
    /\ UNCHANGED <<lisVars, paired, toLis, entries, loop, replies, got, faultVars>>

\* connReadLoop: the target answers what was written to the connection ...
RelayReply(f, i) ==
    /\ loop[f][i] = "read" /\ carried[f][i] # {}
    /\ <<f, i>> \notin replies /\ Cardinality(replies) < MaxReplies
    /\ replies' = replies \cup {<<f, i>>}
    /\ toLis' = Append(toLis, Frame("DataTCP", i, NoAddr, {f}))
    /\ UNCHANGED <<lisVars, paired, toFwd, entries, loop, carried, got, faultVars>>

\* ... or refuses it, which ends the loop; its deferred calls follow.
ReadFails(f, i) ==
    /\ loop[f][i] = "read" /\ carried[f][i] # {}
    /\ Goto(f, i, "remove")
    /\ UNCHANGED <<lisVars, paired, toFwd, toLis, entries, carried, replies, got, faultVars>>

\* Mutant: the connection stays in the StreamMap.
LoopKeeps(f, i) ==
    /\ loop[f][i] = "remove"
    /\ Goto(f, i, "leave")
    /\ UNCHANGED <<lisVars, paired, toFwd, toLis, entries, carried, replies, got, faultVars>>

LoopRemoves(f, i) ==
    /\ loop[f][i] = "remove"
    /\ entries' = [entries EXCEPT ![f] = @ \ {i}]
    /\ Goto(f, i, "leave")
    /\ UNCHANGED <<lisVars, paired, toFwd, toLis, carried, replies, got, faultVars>>

\* Mutant: the listener is not told.
LoopLeavesSilently(f, i) ==
    /\ loop[f][i] = "leave"
    /\ Goto(f, i, "done")
    /\ UNCHANGED <<lisVars, paired, toFwd, toLis, entries, carried, replies, got, faultVars>>

LoopLeaves(f, i) ==
    /\ loop[f][i] = "leave"
    /\ Leave(f, i)
    /\ Goto(f, i, "done")
    /\ UNCHANGED <<lisVars, paired, toFwd, entries, carried, replies, got, faultVars>>

ConnReadLoop(f, i) == RelayReply(f, i) \/ ReadFails(f, i) \/ LoopRemoves(f, i) \/ LoopLeaves(f, i)

HandleFrame(f) == DialTarget(f) \/ DialFails(f) \/ WriteData(f)

-------------------------------------------------------------------------------
(* Frames that a full channel drops, at either end, or waitForFrame at a forwarder. *)

DropAtForwarder(f) ==
    /\ lost < MaxLost /\ lost' = lost + 1
    /\ toFwd[f] # <<>> /\ NextFrame(f)
    /\ missed' = IF Arrives(f, "PeerJoin") THEN missed \cup {<<f, Head(toFwd[f]).sid>>} ELSE missed
    /\ UNCHANGED <<lisVars, paired, toLis, fwdVars, got, kept>>

DropAtListener ==
    /\ lost < MaxLost /\ lost' = lost + 1
    /\ toLis # <<>> /\ toLis' = Tail(toLis)
    /\ kept' = IF Head(toLis).type = "PeerLeave" THEN kept \cup {Head(toLis).sid} ELSE kept
    /\ UNCHANGED <<lisVars, paired, toFwd, fwdVars, got, missed>>

-------------------------------------------------------------------------------

Next ==
    \/ \E a \in Addrs : ReadFromUDP(a)
    \/ SendJoin \/ SendData \/ HandleForwarderFrame \/ DropAtListener
    \/ \E f \in Forwarders :
        \/ Pair(f) \/ HandleFrame(f) \/ DropAtForwarder(f)
        \/ \E i \in Sid : ConnReadLoop(f, i)

Spec == Init /\ [][Next]_vars

\* The goroutines at both ends run; senders, targets and registrations are free, also
\* whether a read loop gets a reply, an error or nothing.
Fairness ==
    /\ WF_vars(SendJoin \/ SendData) /\ WF_vars(HandleForwarderFrame)
    /\ \A f \in Forwarders : WF_vars(HandleFrame(f))
    /\ \A f \in Forwarders, i \in Sid : WF_vars(LoopRemoves(f, i) \/ LoopLeaves(f, i))

FairSpec == Spec /\ Fairness

-------------------------------------------------------------------------------
(* Properties. *)

\* A connection to the target carries the datagrams of one address only, although each
\* forwarder forgets an identifier on its own, the listener forgets it for all of them
\* and a PeerJoin may be lost: what the target takes for one peer is one sender.
OneSenderPerConnection ==
    \A f \in Forwarders, i \in Sid : Cardinality(carried[f][i]) <= 1

\* Where the announcements and the farewells of an identifier are on their way.
Marks(q, type, i) == {k \in 1..Len(q) : q[k].type = type /\ q[k].sid = i}
Joins(f, i) == Marks(toFwd[f], "PeerJoin", i)
Leaves(i) == Marks(toLis, "PeerLeave", i)

\* The listener announces an identifier once.  An address a paired forwarder does not
\* know is about to be announced to it or to be forgotten by the listener, or a
\* PeerJoin or PeerLeave was lost: the forwarder came later or had not yet read its
\* RegOK, or a channel was full.  Only then is the address silent at that forwarder for
\* good.
SilenceNeedsALoss ==
    \A f \in paired, i \in Sid : clients[i] # NoAddr /\ i \notin entries[f] =>
        \/ hand.at = "join" /\ hand.sid = i
        \/ Joins(f, i) # {}
        \/ loop[f][i] = "leave"
        \/ Leaves(i) # {}
        \/ <<f, i>> \in missed
        \/ i \in kept

\* A connection to the target that can reply to nobody, because the listener has
\* forgotten its identifier, is left behind only by the PeerLeave of another forwarder.
LeakNeedsAnother ==
    \A f \in Forwarders, i \in Sid :
        i \in entries[f] /\ clients[i] = NoAddr => \E g \in Forwarders \ {f} : loop[g][i] = "done"

\* What the target answers reaches the address it answers: udp.go:64-67 writes the
\* datagrams that come back to the address of their identifier.
AnswersReachTheirSender ==
    \A f \in Forwarders, i \in Sid :
        <<f, i>> \in replies ~> \E a \in carried[f][i] : <<f, i>> \in got[a]

===============================================================================
