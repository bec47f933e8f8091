----------------------------- MODULE UdpMuxProofs -----------------------------
(***************************************************************************)
(* Proofs about the UDP multiplexer, for every number of addresses,        *)
(* forwarders, identifiers, datagrams and lost frames: a connection to the *)
(* target carries the datagrams of one source address, and an address that *)
(* a forwarder does not know, or a connection that the listener has        *)
(* forgotten, has one of the causes that its property names.               *)
(***************************************************************************)
EXTENDS UdpMux, FiniteSetTheorems, TLAPS

-------------------------------------------------------------------------------
(* The inductive invariant behind SilenceNeedsALoss and LeakNeedsAnother. *)

\* An identifier is announced to a forwarder once, before the forwarder's read loop begins ...
AnnouncedTo(f, i) ==
    /\ hand.at = "join" /\ hand.sid = i => Joins(f, i) = {} /\ loop[f][i] = "off"
    /\ Joins(f, i) # {} => loop[f][i] = "off" /\ i < nextID
    /\ \A j, k \in Joins(f, i) : j = k
    /\ loop[f][i] # "off" => i < nextID
    /\ i \in entries[f] <=> loop[f][i] \in {"read", "remove"}
    /\ loop[f][i] = "off" /\ i < nextID =>
           (hand.at = "join" /\ hand.sid = i) \/ Joins(f, i) # {} \/ <<f, i>> \in missed

AnnouncedOnce == \A f \in Forwarders, i \in Sid : AnnouncedTo(f, i)

\* ... and forgotten by the listener for the PeerLeave that ends one of these loops.
Finished(i) == \E g \in Forwarders : loop[g][i] = "done"

ForgottenFor(i) ==
    /\ clients[i] # NoAddr => i < nextID
    /\ clients[i] = NoAddr /\ i < nextID => Finished(i)
    /\ Leaves(i) # {} => Finished(i)
    /\ Finished(i) => clients[i] = NoAddr \/ Leaves(i) # {} \/ i \in kept

ForgottenOnLeave ==
    /\ hand.at = "join" => hand.sid < nextID
    /\ \A i \in Sid : ForgottenFor(i)

-------------------------------------------------------------------------------
(* Type correctness. *)

\* The first frame of a queue, and what is left behind it.
LEMMA QueueOfFrames ==
    ASSUME NEW q \in Seq(Frames), q # <<>>
    PROVE  Head(q) \in Frames /\ Tail(q) \in Seq(Frames)
  OBVIOUS

LEMMA FrameIsTyped ==
    ASSUME NEW i \in Sid
    PROVE  /\ \A a \in Addrs : Frame("DataUDP", i, a, {}) \in Frames
           /\ \A t \in {"PeerJoin", "DataTCP", "PeerLeave"}, S \in SUBSET Forwarders :
                  Frame(t, i, NoAddr, S) \in Frames
  BY DEF Frame, Frames

\* Only a DataUDP frame has an address, and it has one.
LEMMA FrameFields ==
    ASSUME NEW frame \in Frames
    PROVE  /\ frame.sid \in Sid
           /\ frame.via \subseteq Forwarders
           /\ frame.type = "DataUDP" => frame.addr \in Addrs
  BY DEF Frames

\* A broadcast leaves queues of frames.
LEMMA BroadcastIsTyped ==
    ASSUME toFwd \in [Forwarders -> Seq(Frames)], NEW frame \in Frames, Broadcast(frame)
    PROVE  toFwd' \in [Forwarders -> Seq(Frames)]
  BY DEF Broadcast

LEMMA TypeInit ==
    ASSUME Init
    PROVE  TypeOK
  <1>1. 0 \in 0..Sids /\ 0 \in 0..MaxDatagrams /\ 0 \in 0..MaxLost
    BY UdpAssumption DEF UdpAssumption
  <1> QED BY <1>1 DEF Init, TypeOK, Free

\* The listener end.
LEMMA ListenerTypeStep ==
    ASSUME TypeOK,
           (\E a \in Addrs : ReadFromUDP(a)) \/ SendJoin \/ SendData \/ HandleForwarderFrame
           \/ DropAtListener
    PROVE  TypeOK'
  <1> USE DEF TypeOK
  <1>1. ASSUME NEW a \in Addrs, ReadFromUDP(a) PROVE TypeOK'
    <2>1. datagrams' \in 0..MaxDatagrams
      BY <1>1, UdpAssumption DEF ReadFromUDP, UdpAssumption
    <2>2. /\ clients' \in [Sid -> Addrs \cup {NoAddr}]
          /\ nextID' \in 0..Sids
          /\ hand' \in [at : {"join", "data"}, addr : Addrs, sid : Sid]
      BY <1>1, UdpAssumption, SMTT(30) DEF ReadFromUDP, Assign, Known, Sid, UdpAssumption
    <2> QED BY <1>1, <2>1, <2>2 DEF ReadFromUDP, fwdVars, faultVars
  <1>2. CASE SendJoin \/ SendData
    <2>1. hand \in [at : {"join", "data"}, addr : Addrs, sid : Sid]
      BY <1>2 DEF SendJoin, SendData, Free
    <2>2. /\ Frame("PeerJoin", hand.sid, NoAddr, {}) \in Frames
          /\ Frame("DataUDP", hand.sid, hand.addr, {}) \in Frames
      BY <2>1, FrameIsTyped
    <2>3. toFwd' \in [Forwarders -> Seq(Frames)]
      BY <1>2, <2>2, BroadcastIsTyped DEF SendJoin, SendData
    <2>4. hand' = Free \/ hand' \in [at : {"join", "data"}, addr : Addrs, sid : Sid]
      BY <1>2, <2>1 DEF SendJoin, SendData
    <2>5. missed' \subseteq Forwarders \X Sid
      <3>1. {<<f, hand.sid>> : f \in Forwarders \ paired} \subseteq Forwarders \X Sid
        BY <2>1
      <3> QED BY <1>2, <3>1 DEF SendJoin, SendData, faultVars
    <2>6. UNCHANGED <<clients, nextID, datagrams, paired, toLis, fwdVars, got, kept, lost>>
      BY <1>2 DEF SendJoin, SendData, faultVars
    <2> QED BY <2>3, <2>4, <2>5, <2>6 DEF fwdVars
  <1>3. CASE HandleForwarderFrame
    <2>1. Head(toLis) \in Frames /\ toLis' \in Seq(Frames)
      BY <1>3, QueueOfFrames DEF HandleForwarderFrame
    <2>2. Head(toLis).sid \in Sid /\ Head(toLis).via \subseteq Forwarders
      BY <2>1, FrameFields
    <2>3. clients[Head(toLis).sid] # NoAddr => clients[Head(toLis).sid] \in Addrs
      BY <2>2
    <2>4. got' \in [Addrs -> SUBSET (Forwarders \X Sid)]
      BY <1>3, <2>2, <2>3 DEF HandleForwarderFrame
    <2>5. clients' \in [Sid -> Addrs \cup {NoAddr}]
      BY <1>3, <2>2 DEF HandleForwarderFrame
    <2> QED BY <1>3, <2>1, <2>4, <2>5 DEF HandleForwarderFrame, fwdVars, faultVars
  <1>4. CASE DropAtListener
    <2>1. Head(toLis) \in Frames /\ toLis' \in Seq(Frames)
      BY <1>4, QueueOfFrames DEF DropAtListener
    <2>2. kept' \subseteq Sid
      BY <1>4, <2>1, FrameFields DEF DropAtListener
    <2>3. lost' \in 0..MaxLost
      BY <1>4, UdpAssumption DEF DropAtListener, UdpAssumption
    <2> QED BY <1>4, <2>1, <2>2, <2>3 DEF DropAtListener, lisVars, fwdVars
  <1> QED BY <1>1, <1>2, <1>3, <1>4

\* The forwarder end.
LEMMA ForwarderTypeStep ==
    ASSUME TypeOK, NEW f \in Forwarders,
           HandleFrame(f) \/ DropAtForwarder(f) \/ Pair(f)
    PROVE  TypeOK'
  <1> USE DEF TypeOK
  <1>1. CASE Pair(f)
    BY <1>1 DEF Pair, lisVars, fwdVars, faultVars
  <1>2. ASSUME toFwd[f] # <<>>, NextFrame(f)
        PROVE  /\ Head(toFwd[f]) \in Frames
               /\ Head(toFwd[f]).sid \in Sid
               /\ toFwd' \in [Forwarders -> Seq(Frames)]
    <2>1. toFwd[f] \in Seq(Frames)
      OBVIOUS
    <2>2. Head(toFwd[f]) \in Frames /\ Tail(toFwd[f]) \in Seq(Frames)
      BY <1>2, <2>1, QueueOfFrames
    <2>3. toFwd' \in [Forwarders -> Seq(Frames)]
      BY <1>2, <2>2 DEF NextFrame
    <2> QED BY <2>2, <2>3, FrameFields
  <1>3. CASE DialTarget(f)
    <2>1. Head(toFwd[f]).sid \in Sid /\ toFwd' \in [Forwarders -> Seq(Frames)]
      BY <1>2, <1>3 DEF DialTarget, Arrives
    <2>2. entries' \in [Forwarders -> SUBSET Sid]
      BY <1>3, <2>1 DEF DialTarget
    <2>3. carried' \in [Forwarders -> [Sid -> SUBSET Addrs]]
      BY <1>3, <2>1 DEF DialTarget
    <2>4. loop' \in [Forwarders -> [Sid -> {"off", "read", "remove", "leave", "done"}]]
      BY <1>3, <2>1 DEF DialTarget, Goto
    <2> QED BY <1>3, <2>1, <2>2, <2>3, <2>4 DEF DialTarget, lisVars, faultVars
  <1>4. CASE DialFails(f)
    <2>1. Head(toFwd[f]).sid \in Sid /\ toFwd' \in [Forwarders -> Seq(Frames)]
      BY <1>2, <1>4 DEF DialFails, Arrives
    <2>2. Frame("PeerLeave", Head(toFwd[f]).sid, NoAddr, {f}) \in Frames
      BY <2>1, FrameIsTyped
    <2>3. toLis' \in Seq(Frames)
      BY <1>4, <2>2 DEF DialFails, Leave
    <2>4. loop' \in [Forwarders -> [Sid -> {"off", "read", "remove", "leave", "done"}]]
      BY <1>4, <2>1 DEF DialFails, Goto
    <2> QED BY <1>4, <2>1, <2>3, <2>4 DEF DialFails, lisVars, faultVars
  <1>5. CASE WriteData(f)
    <2>1. Head(toFwd[f]) \in Frames /\ toFwd' \in [Forwarders -> Seq(Frames)]
      BY <1>2, <1>5 DEF WriteData, Arrives
    <2>2. Head(toFwd[f]).type = "DataUDP" => Head(toFwd[f]).addr \in Addrs
      BY <2>1, FrameFields
    <2>3. carried' \in [Forwarders -> [Sid -> SUBSET Addrs]]
      BY <1>5, <2>2 DEF WriteData, Arrives
    <2> QED BY <1>5, <2>1, <2>3 DEF WriteData, lisVars, faultVars
  <1>6. CASE DropAtForwarder(f)
    <2>1. Head(toFwd[f]).sid \in Sid /\ toFwd' \in [Forwarders -> Seq(Frames)]
      BY <1>2, <1>6 DEF DropAtForwarder
    <2>2. missed' \subseteq Forwarders \X Sid
      BY <1>6, <2>1 DEF DropAtForwarder
    <2>3. lost' \in 0..MaxLost
      BY <1>6, UdpAssumption DEF DropAtForwarder, UdpAssumption
    <2> QED BY <1>6, <2>1, <2>2, <2>3 DEF DropAtForwarder, lisVars, fwdVars
  <1> QED BY <1>1, <1>3, <1>4, <1>5, <1>6 DEF HandleFrame

\* The read loop of a connection.
LEMMA LoopTypeStep ==
    ASSUME TypeOK, NEW f \in Forwarders, NEW i \in Sid, ConnReadLoop(f, i)
    PROVE  TypeOK'
  <1> USE DEF TypeOK
  <1>1. /\ Frame("PeerLeave", i, NoAddr, {f}) \in Frames
        /\ Frame("DataTCP", i, NoAddr, {f}) \in Frames
    BY FrameIsTyped
  <1>2. CASE RelayReply(f, i)
    BY <1>1, <1>2 DEF RelayReply, lisVars, faultVars
  <1>3. CASE ReadFails(f, i)
    BY <1>3 DEF ReadFails, Goto, lisVars, faultVars
  <1>4. CASE LoopRemoves(f, i)
    BY <1>4 DEF LoopRemoves, Goto, lisVars, faultVars
  <1>5. CASE LoopLeaves(f, i)
    BY <1>1, <1>5 DEF LoopLeaves, Leave, Goto, lisVars, faultVars
  <1> QED BY <1>2, <1>3, <1>4, <1>5 DEF ConnReadLoop

LEMMA TypeStep ==
    ASSUME TypeOK, [Next]_vars
    PROVE  TypeOK'
  <1>1. CASE UNCHANGED vars
    BY <1>1 DEF TypeOK, vars, lisVars, fwdVars, faultVars
  <1>2. CASE Next
    BY <1>2, ListenerTypeStep, ForwarderTypeStep, LoopTypeStep DEF Next
  <1> QED BY <1>1, <1>2

\* Every variable of the UDP multiplexer keeps its type: identifiers stay below the
\* counter's bound, and every frame is one that the two ends of udp.go exchange.
THEOREM TypeCorrect == Spec => []TypeOK
  <1> QED BY TypeInit, TypeStep, PTL DEF Spec

-------------------------------------------------------------------------------
(* Every identifier belongs to one address, from the first datagram on, whoever *)
(* still knows of it: o gives the owner of each. *)

\* What q carries belongs to the owners of its identifiers.
SentByOwner(q, o) ==
    \A k \in 1..Len(q) : q[k].type = "DataUDP" => q[k].addr = o[q[k].sid]

Owned(o) ==
    /\ \A i \in Sid : i >= nextID => o[i] = NoAddr
    /\ \A i \in Sid : clients[i] \in {NoAddr, o[i]}
    /\ hand = Free \/ hand.addr = o[hand.sid]
    /\ \A f \in Forwarders : SentByOwner(toFwd[f], o)
    /\ \A f \in Forwarders, i \in Sid : carried[f][i] \subseteq {o[i]}

Owners == [Sid -> Addrs \cup {NoAddr}]

LEMMA OwnerOfQueue ==
    ASSUME NEW q \in Seq(Frames), NEW o, SentByOwner(q, o)
    PROVE  /\ q # <<>> => SentByOwner(Tail(q), o)
           /\ q # <<>> /\ Head(q).type = "DataUDP" => Head(q).addr = o[Head(q).sid]
           /\ \A frame \in Frames : (frame.type = "DataUDP" => frame.addr = o[frame.sid])
                  => SentByOwner(Append(q, frame), o)
  <1>1. ASSUME q # <<>> PROVE SentByOwner(Tail(q), o)
    <2>1. /\ Len(Tail(q)) = Len(q) - 1 /\ Len(q) \in Nat
          /\ \A k \in 1..Len(Tail(q)) : Tail(q)[k] = q[k + 1] /\ k + 1 \in 1..Len(q)
      BY <1>1
    <2> QED BY <2>1 DEF SentByOwner
  <1>2. ASSUME q # <<>>, Head(q).type = "DataUDP" PROVE Head(q).addr = o[Head(q).sid]
    <2>1. Head(q) = q[1] /\ 1 \in 1..Len(q)
      BY <1>2
    <2> QED BY <1>2, <2>1 DEF SentByOwner
  <1>3. ASSUME NEW frame \in Frames, frame.type = "DataUDP" => frame.addr = o[frame.sid]
        PROVE  SentByOwner(Append(q, frame), o)
    <2>1. /\ Len(Append(q, frame)) = Len(q) + 1 /\ Len(q) \in Nat
          /\ \A k \in 1..Len(q) : Append(q, frame)[k] = q[k]
          /\ Append(q, frame)[Len(q) + 1] = frame
      OBVIOUS
    <2> SUFFICES ASSUME NEW k \in 1..Len(Append(q, frame)),
                        Append(q, frame)[k].type = "DataUDP"
                 PROVE  Append(q, frame)[k].addr = o[Append(q, frame)[k].sid]
      BY DEF SentByOwner
    <2>2. k \in 1..Len(q) \/ k = Len(q) + 1
      BY <2>1
    <2>3. CASE k \in 1..Len(q)
      BY <2>1, <2>3 DEF SentByOwner
    <2>4. CASE k = Len(q) + 1
      BY <1>3, <2>1, <2>4
    <2> QED BY <2>2, <2>3, <2>4
  <1> QED BY <1>1, <1>2, <1>3

LEMMA OwnedInit ==
    ASSUME Init
    PROVE  \E o \in Owners : Owned(o)
  <1>1. [i \in Sid |-> NoAddr] \in Owners
    BY DEF Owners
  <1>2. Owned([i \in Sid |-> NoAddr])
    BY DEF Init, Owned, SentByOwner
  <1> QED BY <1>1, <1>2

\* A step that assigns no identifier keeps the owners; a queue of a forwarder is left
\* alone, loses its first frame or gets one of the owner.
LEMMA ReceivedByOwner ==
    ASSUME TypeOK, NEW o \in Owners, Owned(o), NEW f \in Forwarders, toFwd[f] # <<>>,
           NextFrame(f)
    PROVE  /\ \A g \in Forwarders : SentByOwner(toFwd'[g], o)
           /\ Head(toFwd[f]) \in Frames
           /\ Head(toFwd[f]).type = "DataUDP" =>
                  Head(toFwd[f]).addr = o[Head(toFwd[f]).sid]
  <1>1. toFwd[f] \in Seq(Frames) /\ SentByOwner(toFwd[f], o)
    BY DEF TypeOK, Owned
  <1>2. \A g \in Forwarders : toFwd'[g] = IF g = f THEN Tail(toFwd[f]) ELSE toFwd[g]
    BY DEF TypeOK, NextFrame
  <1>3. \A g \in Forwarders : SentByOwner(toFwd'[g], o)
    BY <1>1, <1>2, OwnerOfQueue DEF Owned
  <1> QED BY <1>1, <1>3, OwnerOfQueue, QueueOfFrames

LEMMA BroadcastByOwner ==
    ASSUME TypeOK, NEW o \in Owners, Owned(o), NEW frame \in Frames, Broadcast(frame),
           frame.type = "DataUDP" => frame.addr = o[frame.sid]
    PROVE  \A g \in Forwarders : SentByOwner(toFwd'[g], o)
  <1> TAKE g \in Forwarders
  <1>1. toFwd[g] \in Seq(Frames) /\ SentByOwner(toFwd[g], o)
    BY DEF TypeOK, Owned
  <1>2. toFwd'[g] \in {toFwd[g], Append(toFwd[g], frame)}
    BY DEF Broadcast
  <1> QED BY <1>1, <1>2, OwnerOfQueue

\* A new identifier gets an owner; nothing in flight or at a target has its number yet.
LEMMA OwnedByAssign ==
    ASSUME TypeOK, NEW o \in Owners, Owned(o), NEW a \in Addrs, ReadFromUDP(a), Assign(a)
    PROVE  \E p \in Owners : Owned(p)'
  <1> DEFINE p == [o EXCEPT ![nextID] = a]
  <1>1. p \in Owners /\ nextID \in Sid /\ nextID \in Nat /\ o[nextID] = NoAddr
    BY DEF Assign, Owners, Owned, Sid, TypeOK
  <1>2. \A i \in Sid : p[i] = IF i = nextID THEN a ELSE o[i]
    BY <1>1 DEF Owners
  <1>3. UNCHANGED <<toFwd, carried>>
    BY DEF ReadFromUDP, fwdVars
  <1>4. \A i \in Sid : i >= nextID' => p[i] = NoAddr
    <2>1. nextID' = nextID + 1 /\ Sid \subseteq Nat
      BY DEF Assign, Sid
    <2>2. \A i \in Sid : i >= nextID' => i >= nextID /\ i # nextID
      BY <1>1, <2>1
    <2> QED BY <1>2, <2>2 DEF Owned
  <1>5. \A i \in Sid : clients'[i] \in {NoAddr, p[i]}
    BY <1>1, <1>2 DEF Assign, Owned, TypeOK
  <1>6. hand'.addr = p[hand'.sid]
    BY <1>1, <1>2 DEF Assign
  <1>7. ASSUME NEW f \in Forwarders PROVE SentByOwner(toFwd'[f], p)
    <2> SUFFICES ASSUME NEW k \in 1..Len(toFwd[f]), toFwd[f][k].type = "DataUDP"
                 PROVE  toFwd[f][k].addr = p[toFwd[f][k].sid]
      BY <1>3 DEF SentByOwner
    <2>1. toFwd[f] \in Seq(Frames)
      BY DEF TypeOK
    <2>2. toFwd[f][k] \in Frames
      BY <2>1
    <2>3. toFwd[f][k].addr = o[toFwd[f][k].sid]
      BY DEF Owned, SentByOwner
    <2>4. toFwd[f][k].addr # NoAddr /\ toFwd[f][k].sid \in Sid
      BY <2>2, FrameFields, UdpAssumption DEF UdpAssumption
    <2> QED BY <1>1, <1>2, <2>3, <2>4
  <1>8. ASSUME NEW f \in Forwarders, NEW i \in Sid PROVE carried'[f][i] \subseteq {p[i]}
    <2>1. carried[f][i] \subseteq {o[i]} /\ carried[f][i] \subseteq Addrs
      BY DEF Owned, TypeOK
    <2>2. i = nextID => carried[f][i] = {}
      BY <1>1, <2>1, UdpAssumption DEF UdpAssumption
    <2> QED BY <1>2, <1>3, <2>1, <2>2
  <1>9. PICK r \in Owners : r = p
    BY <1>1
  <1>10. Owned(r)'
    BY <1>4, <1>5, <1>6, <1>7, <1>8, <1>9 DEF Owned
  <1> QED BY <1>10

LEMMA OwnedByListener ==
    ASSUME TypeOK, NEW o \in Owners, Owned(o),
           \/ \E a \in Addrs, i \in Sid :
                  /\ i \in Known(a) /\ hand' = [at |-> "data", addr |-> a, sid |-> i]
                  /\ UNCHANGED <<clients, nextID, toFwd, carried>>
           \/ SendJoin \/ SendData \/ HandleForwarderFrame \/ DropAtListener
    PROVE  Owned(o)'
  <1>1. ASSUME NEW a \in Addrs, NEW i \in Known(a),
               hand' = [at |-> "data", addr |-> a, sid |-> i],
               UNCHANGED <<clients, nextID, toFwd, carried>>
        PROVE  Owned(o)'
    <2>1. i \in Sid /\ clients[i] = a /\ a # NoAddr
      BY UdpAssumption DEF Known, UdpAssumption
    <2>2. hand'.addr = o[hand'.sid]
      BY <1>1, <2>1 DEF Owned
    <2> QED BY <1>1, <2>2 DEF Owned
  <1>2. ASSUME SendJoin \/ SendData PROVE Owned(o)'
    <2>1. hand \in [at : {"join", "data"}, addr : Addrs, sid : Sid]
          /\ hand.addr = o[hand.sid]
      BY <1>2 DEF SendJoin, SendData, Free, TypeOK, Owned
    <2>2. /\ Frame("PeerJoin", hand.sid, NoAddr, {}) \in Frames
          /\ Frame("DataUDP", hand.sid, hand.addr, {}) \in Frames
          /\ Frame("PeerJoin", hand.sid, NoAddr, {}).type # "DataUDP"
          /\ Frame("DataUDP", hand.sid, hand.addr, {}).addr
                = o[Frame("DataUDP", hand.sid, hand.addr, {}).sid]
      BY <2>1, FrameIsTyped DEF Frame
    <2>3. \A f \in Forwarders : SentByOwner(toFwd'[f], o)
      <3>1. CASE SendJoin
        BY <2>2, <3>1, BroadcastByOwner DEF SendJoin
      <3>2. CASE SendData
        BY <2>2, <3>2, BroadcastByOwner DEF SendData
      <3> QED BY <1>2, <3>1, <3>2
    <2>4. hand' = Free \/ hand'.addr = o[hand'.sid]
      BY <1>2, <2>1 DEF SendJoin, SendData
    <2>5. UNCHANGED <<clients, nextID, carried>>
      BY <1>2 DEF SendJoin, SendData, fwdVars
    <2> QED BY <2>3, <2>4, <2>5 DEF Owned
  <1>3. ASSUME HandleForwarderFrame PROVE Owned(o)'
    <2>1. \A i \in Sid : clients'[i] \in {NoAddr, clients[i]}
      BY <1>3 DEF HandleForwarderFrame, TypeOK
    <2>2. UNCHANGED <<nextID, hand, toFwd, carried>>
      BY <1>3 DEF HandleForwarderFrame, fwdVars
    <2>3. \A i \in Sid : clients'[i] \in {NoAddr, o[i]}
      BY <2>1 DEF Owned
    <2> QED BY <2>2, <2>3 DEF Owned
  <1>4. ASSUME DropAtListener PROVE Owned(o)'
    BY <1>4 DEF DropAtListener, lisVars, fwdVars, Owned
  <1> QED BY <1>1, <1>2, <1>3, <1>4

LEMMA OwnedByForwarder ==
    ASSUME TypeOK, NEW o \in Owners, Owned(o), NEW f \in Forwarders,
           HandleFrame(f) \/ DropAtForwarder(f)
    PROVE  Owned(o)'
  <1>1. toFwd[f] # <<>> /\ NextFrame(f)
    BY DEF HandleFrame, DialTarget, DialFails, WriteData, DropAtForwarder, Arrives
  <1>2. /\ \A g \in Forwarders : SentByOwner(toFwd'[g], o)
        /\ Head(toFwd[f]) \in Frames
        /\ Head(toFwd[f]).type = "DataUDP" => Head(toFwd[f]).addr = o[Head(toFwd[f]).sid]
    BY <1>1, ReceivedByOwner
  <1>3. UNCHANGED <<clients, nextID, hand>>
    BY DEF HandleFrame, DialTarget, DialFails, WriteData, DropAtForwarder, lisVars
  <1>4. ASSUME NEW g \in Forwarders, NEW i \in Sid
        PROVE  carried'[g][i] \subseteq {o[i]}
    <2>1. carried[g][i] \subseteq {o[i]}
      BY DEF Owned
    <2>2. CASE DialTarget(f)
      BY <2>1, <2>2 DEF DialTarget, TypeOK
    <2>3. CASE DialFails(f) \/ DropAtForwarder(f)
      BY <2>1, <2>3 DEF DialFails, DropAtForwarder, fwdVars
    <2>4. CASE WriteData(f)
      <3>1. Head(toFwd[f]).addr = o[Head(toFwd[f]).sid]
        BY <1>2, <2>4 DEF WriteData, Arrives
      <3>2. \/ carried'[g][i] = carried[g][i]
            \/ /\ i = Head(toFwd[f]).sid
               /\ carried'[g][i] = carried[g][i] \cup {Head(toFwd[f]).addr}
        BY <2>4 DEF WriteData, TypeOK
      <3> QED BY <2>1, <3>1, <3>2
    <2> QED BY <2>2, <2>3, <2>4 DEF HandleFrame
  <1> QED BY <1>2, <1>3, <1>4 DEF Owned

LEMMA OwnedByLoop ==
    ASSUME NEW o \in Owners, Owned(o), NEW f \in Forwarders,
           Pair(f) \/ \E i \in Sid : ConnReadLoop(f, i)
    PROVE  Owned(o)'
  <1>1. UNCHANGED <<clients, nextID, hand, toFwd, carried>>
    BY DEF Pair, ConnReadLoop, RelayReply, ReadFails, LoopRemoves, LoopLeaves, lisVars, fwdVars
  <1> QED BY <1>1 DEF Owned

LEMMA OwnedStep ==
    ASSUME TypeOK, \E o \in Owners : Owned(o), [Next]_vars
    PROVE  \E o \in Owners : Owned(o)'
  <1> PICK o \in Owners : Owned(o)
    OBVIOUS
  <1>1. CASE UNCHANGED vars
    BY <1>1 DEF vars, lisVars, fwdVars, Owned
  <1>2. ASSUME NEW a \in Addrs, ReadFromUDP(a) PROVE \E p \in Owners : Owned(p)'
    <2>1. CASE Assign(a)
      BY <1>2, <2>1, OwnedByAssign
    <2>2. CASE \E i \in Known(a) : /\ hand' = [at |-> "data", addr |-> a, sid |-> i]
                                   /\ UNCHANGED <<clients, nextID>>
      <3>1. PICK i \in Known(a) : /\ hand' = [at |-> "data", addr |-> a, sid |-> i]
                                  /\ UNCHANGED <<clients, nextID>>
        BY <2>2
      <3>2. i \in Sid /\ UNCHANGED <<clients, nextID, toFwd, carried>>
        BY <1>2, <3>1 DEF ReadFromUDP, Known, fwdVars
      <3> QED BY <3>1, <3>2, OwnedByListener
    <2> QED BY <1>2, <2>1, <2>2 DEF ReadFromUDP
  <1>3. CASE SendJoin \/ SendData \/ HandleForwarderFrame \/ DropAtListener
    BY <1>3, OwnedByListener
  <1>4. ASSUME NEW f \in Forwarders,
               \/ Pair(f) \/ HandleFrame(f) \/ DropAtForwarder(f)
               \/ \E i \in Sid : ConnReadLoop(f, i)
        PROVE  \E p \in Owners : Owned(p)'
    BY <1>4, OwnedByForwarder, OwnedByLoop
  <1> QED BY <1>1, <1>2, <1>3, <1>4 DEF Next

\* A connection to the target carries the datagrams of one address: an identifier has one
\* owner for good, so that whatever a forwarder still holds under it, in its queue or in
\* its StreamMap, is the owner's, though the listener may have forgotten it long since.
THEOREM ConnectionsAreNotShared == Spec => []OneSenderPerConnection
  <1> DEFINE Inv == TypeOK /\ \E o \in Owners : Owned(o)
  <1>1. Init => Inv
    BY TypeInit, OwnedInit
  <1>2. Inv /\ [Next]_vars => Inv'
    BY TypeStep, OwnedStep
  <1>3. Inv => OneSenderPerConnection
    <2> SUFFICES ASSUME TypeOK, NEW o \in Owners, Owned(o), NEW f \in Forwarders, NEW i \in Sid
                 PROVE  Cardinality(carried[f][i]) <= 1
      BY DEF OneSenderPerConnection
    <2>1. carried[f][i] = {} \/ carried[f][i] = {o[i]}
      BY DEF Owned
    <2>2. Cardinality({}) = 0 /\ Cardinality({o[i]}) = 1
      BY FS_EmptySet, FS_Singleton
    <2> QED BY <2>1, <2>2
  <1> QED BY <1>1, <1>2, <1>3, PTL DEF Spec

-------------------------------------------------------------------------------
(* Announcements and farewells on their way. *)

\* A frame that is added to a queue or taken from it is marked itself, and no other is.
LEMMA MarksOfQueue ==
    ASSUME NEW q \in Seq(Frames), NEW frame \in Frames, NEW t, NEW i
    PROVE  /\ (frame.type # t \/ frame.sid # i) => Marks(Append(q, frame), t, i) = Marks(q, t, i)
           /\ (frame.type = t /\ frame.sid = i) =>
                  Marks(Append(q, frame), t, i) = Marks(q, t, i) \cup {Len(q) + 1}
           /\ q # <<>> =>
                  /\ 1 \in Marks(q, t, i) <=> Head(q).type = t /\ Head(q).sid = i
                  /\ \A k \in Marks(Tail(q), t, i) : k + 1 \in Marks(q, t, i) /\ k \in Nat
                  /\ \A k \in Marks(q, t, i) \ {1} : k - 1 \in Marks(Tail(q), t, i)
  <1>1. /\ Len(Append(q, frame)) = Len(q) + 1 /\ Len(q) \in Nat
        /\ \A k \in 1..Len(q) : Append(q, frame)[k] = q[k]
        /\ Append(q, frame)[Len(q) + 1] = frame
    OBVIOUS
  <1>2. \A k : k \in 1..(Len(q) + 1) <=> k \in 1..Len(q) \/ k = Len(q) + 1
    BY <1>1
  <1>3. ASSUME q # <<>>
        PROVE  /\ 1 \in Marks(q, t, i) <=> Head(q).type = t /\ Head(q).sid = i
               /\ \A k \in Marks(Tail(q), t, i) : k + 1 \in Marks(q, t, i) /\ k \in Nat
               /\ \A k \in Marks(q, t, i) \ {1} : k - 1 \in Marks(Tail(q), t, i)
    <2>1. /\ Len(Tail(q)) = Len(q) - 1 /\ Head(q) = q[1] /\ 1 \in 1..Len(q)
          /\ \A k \in 1..Len(Tail(q)) : Tail(q)[k] = q[k + 1] /\ k + 1 \in 1..Len(q) /\ k \in Nat
          /\ \A k \in 1..Len(q) : k # 1 => k - 1 \in 1..Len(Tail(q)) /\ Tail(q)[k - 1] = q[k]
      BY <1>3
    <2> QED BY <2>1 DEF Marks
  <1>4. (frame.type # t \/ frame.sid # i) => Marks(Append(q, frame), t, i) = Marks(q, t, i)
    BY <1>1, <1>2 DEF Marks
  <1>5. (frame.type = t /\ frame.sid = i) =>
            Marks(Append(q, frame), t, i) = Marks(q, t, i) \cup {Len(q) + 1}
    BY <1>1, <1>2 DEF Marks
  <1> QED BY <1>3, <1>4, <1>5

\* What becomes of marks of which there is at most one.
LEMMA MarksOfTail ==
    ASSUME NEW q \in Seq(Frames), q # <<>>, NEW t, NEW i
    PROVE  /\ Marks(Tail(q), t, i) # {} => Marks(q, t, i) # {}
           /\ (Head(q).type # t \/ Head(q).sid # i) /\ Marks(q, t, i) # {} =>
                  Marks(Tail(q), t, i) # {}
           /\ Head(q).type = t /\ Head(q).sid = i => Marks(q, t, i) # {}
           /\ (\A j, k \in Marks(q, t, i) : j = k) =>
                  /\ \A j, k \in Marks(Tail(q), t, i) : j = k
                  /\ Head(q).type = t /\ Head(q).sid = i => Marks(Tail(q), t, i) = {}
  <1>1. /\ 1 \in Marks(q, t, i) <=> Head(q).type = t /\ Head(q).sid = i
        /\ \A k \in Marks(Tail(q), t, i) : k + 1 \in Marks(q, t, i) /\ k \in Nat
        /\ \A k \in Marks(q, t, i) \ {1} : k - 1 \in Marks(Tail(q), t, i)
    BY MarksOfQueue, QueueOfFrames
  <1>2. ASSUME NEW k \in Marks(Tail(q), t, i) PROVE k \in Nat /\ k >= 1 /\ k + 1 # 1
    BY DEF Marks
  <1>3. ASSUME \A j, k \in Marks(q, t, i) : j = k
        PROVE  /\ \A j, k \in Marks(Tail(q), t, i) : j = k
               /\ Head(q).type = t /\ Head(q).sid = i => Marks(Tail(q), t, i) = {}
    <2>1. ASSUME NEW j \in Marks(Tail(q), t, i), NEW k \in Marks(Tail(q), t, i) PROVE j = k
      <3>1. j + 1 = k + 1
        BY <1>1, <1>3
      <3> QED BY <1>2, <3>1
    <2> QED BY <1>1, <1>2, <1>3, <2>1
  <1> QED BY <1>1, <1>3

\* What a forwarder's next frame leaves of the announcements.
LEMMA JoinsAfterNext ==
    ASSUME TypeOK, AnnouncedOnce, NEW f \in Forwarders, toFwd[f] # <<>>, NextFrame(f)
    PROVE  /\ Head(toFwd[f]) \in Frames
           /\ \A g \in Forwarders, i \in Sid :
                /\ \A j, k \in Joins(g, i)' : j = k
                /\ Joins(g, i)' # {} => Joins(g, i) # {}
                /\ g # f => Joins(g, i)' = Joins(g, i)
                /\ g = f /\ Head(toFwd[f]).type = "PeerJoin" /\ Head(toFwd[f]).sid = i =>
                       Joins(g, i) # {} /\ Joins(g, i)' = {}
                /\ Head(toFwd[f]).type # "PeerJoin" \/ Head(toFwd[f]).sid # i =>
                       (Joins(g, i)' = {} <=> Joins(g, i) = {})
  <1>1. toFwd[f] \in Seq(Frames)
    BY DEF TypeOK
  <1>2. \A g \in Forwarders : toFwd'[g] = IF g = f THEN Tail(toFwd[f]) ELSE toFwd[g]
    BY DEF TypeOK, NextFrame
  <1>3. ASSUME NEW g \in Forwarders, NEW i \in Sid
        PROVE  Joins(g, i)' = IF g = f THEN Marks(Tail(toFwd[f]), "PeerJoin", i) ELSE Joins(g, i)
    BY <1>2 DEF Joins
  <1>4. ASSUME NEW g \in Forwarders, NEW i \in Sid PROVE \A j, k \in Joins(g, i) : j = k
    BY DEF AnnouncedOnce, AnnouncedTo
  <1>5. Head(toFwd[f]) \in Frames
    BY <1>1, QueueOfFrames
  <1> SUFFICES ASSUME NEW g \in Forwarders, NEW i \in Sid
               PROVE  /\ \A j, k \in Joins(g, i)' : j = k
                      /\ Joins(g, i)' # {} => Joins(g, i) # {}
                      /\ g # f => Joins(g, i)' = Joins(g, i)
                      /\ g = f /\ Head(toFwd[f]).type = "PeerJoin" /\ Head(toFwd[f]).sid = i =>
                             Joins(g, i) # {} /\ Joins(g, i)' = {}
                      /\ Head(toFwd[f]).type # "PeerJoin" \/ Head(toFwd[f]).sid # i =>
                             (Joins(g, i)' = {} <=> Joins(g, i) = {})
    BY <1>5
  <1>6. CASE g = f
    <2>1. Joins(g, i)' = Marks(Tail(toFwd[f]), "PeerJoin", i) /\ Joins(g, i) = Marks(toFwd[f], "PeerJoin", i)
      BY <1>3, <1>6 DEF Joins
    <2> QED BY <1>1, <1>4, <1>6, <2>1, MarksOfTail
  <1>7. CASE g # f
    BY <1>3, <1>4, <1>7
  <1> QED BY <1>6, <1>7

\* The listener's steps: an identifier is new when it is assigned, and its announcement
\* reaches every forwarder that is paired then.
LEMMA AnnouncedByListener ==
    ASSUME TypeOK, AnnouncedOnce, ForgottenOnLeave,
           (\E a \in Addrs : ReadFromUDP(a)) \/ SendJoin \/ SendData
    PROVE  AnnouncedOnce'
  <1>0. nextID \in Nat /\ Sid \subseteq Nat
    BY UdpAssumption DEF TypeOK, Sid, UdpAssumption
  <1>1. ASSUME NEW a \in Addrs, ReadFromUDP(a), Assign(a) PROVE AnnouncedOnce'
    <2>1. /\ nextID \in Sid /\ nextID' = nextID + 1
          /\ hand'.at = "join" /\ hand'.sid = nextID
          /\ hand.at = "read"
          /\ UNCHANGED <<toFwd, loop, entries, missed>>
      BY <1>1 DEF ReadFromUDP, Assign, Free, fwdVars, faultVars
    <2> SUFFICES ASSUME NEW f \in Forwarders, NEW i \in Sid PROVE AnnouncedTo(f, i)'
      BY DEF AnnouncedOnce
    <2>2. AnnouncedTo(f, i) /\ Joins(f, i)' = Joins(f, i)
      BY <2>1 DEF AnnouncedOnce, Joins
    <2>3. (i < nextID' <=> i < nextID \/ i = nextID) /\ (i = nextID => ~(i < nextID))
      BY <1>0, <2>1
    <2> QED BY <2>1, <2>2, <2>3 DEF AnnouncedTo
  <1>2. ASSUME NEW a \in Addrs, ReadFromUDP(a), ~Assign(a) PROVE AnnouncedOnce'
    <2>1. /\ hand.at = "read" /\ hand'.at = "data"
          /\ UNCHANGED <<nextID, toFwd, loop, entries, missed>>
      BY <1>2 DEF ReadFromUDP, Free, fwdVars, faultVars
    <2> SUFFICES ASSUME NEW f \in Forwarders, NEW i \in Sid PROVE AnnouncedTo(f, i)'
      BY DEF AnnouncedOnce
    <2>2. AnnouncedTo(f, i) /\ Joins(f, i)' = Joins(f, i)
      BY <2>1 DEF AnnouncedOnce, Joins
    <2> QED BY <2>1, <2>2 DEF AnnouncedTo
  <1>3. ASSUME SendJoin PROVE AnnouncedOnce'
    <2>1. /\ hand.at = "join" /\ hand.sid \in Sid /\ hand'.at = "data"
          /\ UNCHANGED <<nextID, loop, entries>>
          /\ missed' = missed \cup {<<f, hand.sid>> : f \in Forwarders \ paired}
      BY <1>3 DEF SendJoin, Free, TypeOK, fwdVars
    <2>2. PICK frame \in Frames : frame = Frame("PeerJoin", hand.sid, NoAddr, {})
      BY <2>1, FrameIsTyped
    <2>3. frame.type = "PeerJoin" /\ frame.sid = hand.sid
      BY <2>2 DEF Frame
    <2>4. \A f \in Forwarders : toFwd'[f] = IF f \in paired THEN Append(toFwd[f], frame) ELSE toFwd[f]
      BY <1>3, <2>2 DEF SendJoin, Broadcast
    <2> SUFFICES ASSUME NEW f \in Forwarders, NEW i \in Sid PROVE AnnouncedTo(f, i)'
      BY DEF AnnouncedOnce
    <2>5. Joins(f, i)' = IF f \in paired /\ i = hand.sid
                         THEN Joins(f, i) \cup {Len(toFwd[f]) + 1}
                         ELSE Joins(f, i)
      <3>1. toFwd[f] \in Seq(Frames)
        BY DEF TypeOK
      <3>2. /\ f \in paired => Joins(f, i)' = Marks(Append(toFwd[f], frame), "PeerJoin", i)
            /\ f \notin paired => Joins(f, i)' = Joins(f, i)
        BY <2>4 DEF Joins
      <3>3. Joins(f, i) = Marks(toFwd[f], "PeerJoin", i)
        BY DEF Joins
      <3>4. PICK q \in Seq(Frames) : q = toFwd[f]
        BY <3>1
      <3>7. ASSUME frame.sid # i
            PROVE  Marks(Append(q, frame), "PeerJoin", i) = Marks(q, "PeerJoin", i)
        BY <3>7, MarksOfQueue
      <3>8. ASSUME frame.sid = i
            PROVE  Marks(Append(q, frame), "PeerJoin", i) = Marks(q, "PeerJoin", i) \cup {Len(q) + 1}
        BY <2>3, <3>8, MarksOfQueue
      <3>5. CASE f \in paired /\ i = hand.sid
        BY <2>3, <3>2, <3>3, <3>4, <3>5, <3>7, <3>8
      <3>6. CASE ~(f \in paired /\ i = hand.sid)
        BY <2>3, <3>2, <3>3, <3>4, <3>6, <3>7, <3>8
      <3> QED BY <3>5, <3>6
    <2>6. hand.sid < nextID /\ AnnouncedTo(f, i)
      BY <2>1 DEF ForgottenOnLeave, AnnouncedOnce
    <2> QED BY <2>1, <2>5, <2>6 DEF AnnouncedTo
  <1>4. ASSUME SendData PROVE AnnouncedOnce'
    <2>1. /\ hand.at = "data" /\ hand \in [at : {"join", "data"}, addr : Addrs, sid : Sid]
          /\ hand'.at = "read"
          /\ UNCHANGED <<nextID, loop, entries, missed>>
      BY <1>4 DEF SendData, Free, TypeOK, fwdVars, faultVars
    <2>2. PICK frame \in Frames : frame = Frame("DataUDP", hand.sid, hand.addr, {})
      BY <2>1, FrameIsTyped
    <2>3. frame.type = "DataUDP"
      BY <2>2 DEF Frame
    <2>4. \A f \in Forwarders : toFwd'[f] \in {toFwd[f], Append(toFwd[f], frame)}
      BY <1>4, <2>2 DEF SendData, Broadcast
    <2> SUFFICES ASSUME NEW f \in Forwarders, NEW i \in Sid PROVE AnnouncedTo(f, i)'
      BY DEF AnnouncedOnce
    <2>5. Joins(f, i)' = Joins(f, i)
      <3>1. toFwd[f] \in Seq(Frames)
        BY DEF TypeOK
      <3>2. \/ Joins(f, i)' = Marks(Append(toFwd[f], frame), "PeerJoin", i)
            \/ Joins(f, i)' = Joins(f, i)
        BY <2>4 DEF Joins
      <3>3. Joins(f, i) = Marks(toFwd[f], "PeerJoin", i)
        BY DEF Joins
      <3> QED BY <2>3, <3>1, <3>2, <3>3, MarksOfQueue
    <2>6. AnnouncedTo(f, i)
      BY DEF AnnouncedOnce
    <2> QED BY <2>1, <2>5, <2>6 DEF AnnouncedTo
  <1> QED BY <1>1, <1>2, <1>3, <1>4

\* A forwarder's steps: an announcement that is taken begins its loop or is lost.
LEMMA AnnouncedByForwarder ==
    ASSUME TypeOK, AnnouncedOnce, NEW f \in Forwarders,
           HandleFrame(f) \/ DropAtForwarder(f)
    PROVE  AnnouncedOnce'
  <1>1. toFwd[f] # <<>> /\ NextFrame(f) /\ UNCHANGED <<hand, nextID>>
    BY DEF HandleFrame, DialTarget, DialFails, WriteData, DropAtForwarder, Arrives, lisVars
  <1>2. PICK frame \in Frames : frame = Head(toFwd[f])
    BY <1>1, JoinsAfterNext
  <1>3. frame.sid \in Sid
    BY <1>2, FrameFields
  <1> SUFFICES ASSUME NEW g \in Forwarders, NEW i \in Sid PROVE AnnouncedTo(g, i)'
    BY DEF AnnouncedOnce
  <1>4. /\ AnnouncedTo(g, i)
        /\ \A j, k \in Joins(g, i)' : j = k
        /\ Joins(g, i)' # {} => Joins(g, i) # {}
        /\ g # f => Joins(g, i)' = Joins(g, i)
        /\ g = f /\ frame.type = "PeerJoin" /\ frame.sid = i =>
               Joins(g, i) # {} /\ Joins(g, i)' = {}
        /\ frame.type # "PeerJoin" \/ frame.sid # i =>
               (Joins(g, i)' = {} <=> Joins(g, i) = {})
    BY <1>1, <1>2, JoinsAfterNext DEF AnnouncedOnce
  <1>5. CASE DialTarget(f)
    <2>1. /\ frame.type = "PeerJoin"
          /\ entries' = [entries EXCEPT ![f] = @ \cup {frame.sid}]
          /\ loop' = [loop EXCEPT ![f][frame.sid] = "read"]
          /\ missed' = missed
      BY <1>2, <1>5 DEF DialTarget, Arrives, Goto, faultVars
    <2>2.   /\ loop'[g][i] = IF g = f /\ i = frame.sid THEN "read" ELSE loop[g][i]
            /\ i \in entries'[g] <=> i \in entries[g] \/ (g = f /\ i = frame.sid)
      BY <2>1 DEF TypeOK
    <2> QED BY <1>1, <1>3, <1>4, <2>1, <2>2 DEF AnnouncedTo
  <1>6. CASE DialFails(f)
    <2>1. /\ frame.type = "PeerJoin"
          /\ loop' = [loop EXCEPT ![f][frame.sid] = "done"]
          /\ UNCHANGED <<entries, missed>>
      BY <1>2, <1>6 DEF DialFails, Arrives, Goto, faultVars
    <2>2. loop'[g][i] = IF g = f /\ i = frame.sid THEN "done" ELSE loop[g][i]
      BY <2>1 DEF TypeOK
    <2> QED BY <1>1, <1>3, <1>4, <2>1, <2>2 DEF AnnouncedTo
  <1>7. CASE WriteData(f)
    <2>1. frame.type = "DataUDP" /\ UNCHANGED <<loop, entries, missed>>
      BY <1>2, <1>7 DEF WriteData, Arrives, faultVars
    <2> QED BY <1>1, <1>4, <2>1 DEF AnnouncedTo
  <1>8. CASE DropAtForwarder(f)
    <2>1. /\ UNCHANGED <<loop, entries>>
          /\ missed' = IF frame.type = "PeerJoin" THEN missed \cup {<<f, frame.sid>>} ELSE missed
      BY <1>1, <1>2, <1>8 DEF DropAtForwarder, Arrives, fwdVars
    <2> QED BY <1>1, <1>3, <1>4, <2>1 DEF AnnouncedTo
  <1> QED BY <1>5, <1>6, <1>7, <1>8 DEF HandleFrame

\* The read loops and what happens at the other end.
LEMMA AnnouncedByOthers ==
    ASSUME TypeOK, AnnouncedOnce,
           \/ HandleForwarderFrame \/ DropAtListener
           \/ \E f \in Forwarders : Pair(f) \/ \E i \in Sid : ConnReadLoop(f, i)
    PROVE  AnnouncedOnce'
  <1>1. UNCHANGED <<hand, nextID, toFwd, missed>>
    BY DEF HandleForwarderFrame, DropAtListener, Pair, ConnReadLoop, RelayReply, ReadFails,
           LoopRemoves, LoopLeaves, lisVars, faultVars
  <1> SUFFICES ASSUME NEW g \in Forwarders, NEW h \in Sid PROVE AnnouncedTo(g, h)'
    BY DEF AnnouncedOnce
  <1>2. AnnouncedTo(g, h) /\ Joins(g, h)' = Joins(g, h)
    BY <1>1 DEF AnnouncedOnce, Joins
  <1>3. ASSUME UNCHANGED <<loop, entries>> PROVE AnnouncedTo(g, h)'
    BY <1>1, <1>2, <1>3 DEF AnnouncedTo
  <1>4. ASSUME NEW f \in Forwarders, NEW i \in Sid, ReadFails(f, i) \/ LoopRemoves(f, i) \/ LoopLeaves(f, i)
        PROVE  AnnouncedTo(g, h)'
    <2>1. /\ g # f \/ h # i => /\ loop'[g][h] = loop[g][h]
                               /\ h \in entries'[g] <=> h \in entries[g]
          /\ loop[f][i] # "off" /\ loop'[f][i] # "off"
      BY <1>4 DEF ReadFails, LoopRemoves, LoopLeaves, Goto, TypeOK
    <2>3. AnnouncedTo(f, i) /\ AnnouncedTo(g, h) /\ UNCHANGED <<hand, nextID, missed>>
      BY <1>1 DEF AnnouncedOnce
    <2>2. (i \in entries[f] <=> loop[f][i] \in {"read", "remove"})
              => (i \in entries'[f] <=> loop'[f][i] \in {"read", "remove"})
      BY <1>4 DEF ReadFails, LoopRemoves, LoopLeaves, Goto, TypeOK
    <2>4. CASE g = f /\ h = i
      BY <1>2, <2>1, <2>2, <2>3, <2>4 DEF AnnouncedTo
    <2>5. CASE g # f \/ h # i
      <3>1. /\ loop'[g][h] = loop[g][h] /\ (h \in entries'[g] <=> h \in entries[g])
            /\ hand' = hand /\ nextID' = nextID /\ missed' = missed
            /\ AnnouncedTo(g, h)
        BY <2>1, <2>3, <2>5
      <3> QED BY <1>2, <3>1 DEF AnnouncedTo
    <2> QED BY <2>4, <2>5
  <1>5. HandleForwarderFrame \/ DropAtListener => UNCHANGED <<loop, entries>>
    BY DEF HandleForwarderFrame, DropAtListener, fwdVars
  <1>6. \A f \in Forwarders : Pair(f) => UNCHANGED <<loop, entries>>
    BY DEF Pair, fwdVars
  <1>7. \A f \in Forwarders, i \in Sid : RelayReply(f, i) => UNCHANGED <<loop, entries>>
    BY DEF RelayReply
  <1> QED BY <1>3, <1>4, <1>5, <1>6, <1>7 DEF ConnReadLoop

\* The listener forgets an identifier when it has taken a PeerLeave off the queue.
LEMMA ForgottenByListener ==
    ASSUME TypeOK, AnnouncedOnce, ForgottenOnLeave,
           \/ \E a \in Addrs : ReadFromUDP(a)
           \/ SendJoin \/ SendData \/ HandleForwarderFrame \/ DropAtListener
           \/ \E f \in Forwarders : Pair(f) \/ WriteData(f) \/ DropAtForwarder(f)
    PROVE  ForgottenOnLeave'
  <1>1. loop' = loop
    BY DEF ReadFromUDP, SendJoin, SendData, HandleForwarderFrame, DropAtListener, Pair, WriteData,
           DropAtForwarder, fwdVars
  <1>2. (hand.at = "join" => hand.sid < nextID)'
    <2>1. ASSUME NEW a \in Addrs, ReadFromUDP(a) PROVE (hand.at = "join" => hand.sid < nextID)'
      BY <2>1, UdpAssumption DEF ReadFromUDP, Assign, Sid, UdpAssumption
    <2>2. CASE SendJoin \/ SendData
      BY <2>2 DEF SendJoin, SendData, Free, TypeOK
    <2>3. CASE HandleForwarderFrame \/ DropAtListener
      BY <2>3 DEF HandleForwarderFrame, DropAtListener, lisVars, ForgottenOnLeave
    <2>4. ASSUME NEW f \in Forwarders, Pair(f) \/ WriteData(f) \/ DropAtForwarder(f)
          PROVE  (hand.at = "join" => hand.sid < nextID)'
      BY <2>4 DEF Pair, WriteData, DropAtForwarder, lisVars, ForgottenOnLeave
    <2> QED BY <2>1, <2>2, <2>3, <2>4
  <1> SUFFICES ASSUME NEW i \in Sid PROVE ForgottenFor(i)'
    BY <1>2 DEF ForgottenOnLeave
  <1>3. ForgottenFor(i) /\ (Finished(i)' <=> Finished(i))
    BY <1>1 DEF ForgottenOnLeave, Finished
  <1>4. ASSUME UNCHANGED <<clients, nextID, toLis, kept>> PROVE ForgottenFor(i)'
    <2>1. Leaves(i)' = Leaves(i)
      BY <1>4 DEF Leaves
    <2> QED BY <1>3, <1>4, <2>1 DEF ForgottenFor
  <1>5. ASSUME NEW a \in Addrs, ReadFromUDP(a) PROVE ForgottenFor(i)'
    <2>1. UNCHANGED <<toLis, kept>>
      BY <1>5 DEF ReadFromUDP, faultVars
    <2>2. CASE Assign(a)
      <3>1. /\ nextID \in Nat /\ i \in Nat
            /\ nextID' = nextID + 1 /\ clients' = [clients EXCEPT ![nextID] = a] /\ a # NoAddr
        BY <2>2, UdpAssumption DEF Assign, Sid, UdpAssumption
      <3>2. Leaves(i)' = Leaves(i) /\ kept' = kept
        BY <2>1 DEF Leaves
      <3>3. CASE i = nextID
        <4>1. clients'[i] # NoAddr /\ i < nextID' /\ ~(i < nextID)
          BY <3>1, <3>3 DEF TypeOK
        <4>2. clients[i] = NoAddr \/ i < nextID
          BY <1>3 DEF ForgottenFor
        <4>3. Finished(i) => Leaves(i) # {} \/ i \in kept
          <5>1. \A f \in Forwarders : loop[f][i] = "off"
            BY <4>1 DEF AnnouncedOnce, AnnouncedTo
          <5> QED BY <5>1 DEF Finished
        <4> QED BY <1>3, <3>2, <4>1, <4>3 DEF ForgottenFor
      <3>4. CASE i # nextID
        <4>1. clients'[i] = clients[i] /\ (i < nextID' <=> i < nextID)
          BY <3>1, <3>4 DEF TypeOK
        <4> QED BY <1>3, <3>2, <4>1 DEF ForgottenFor
      <3> QED BY <3>3, <3>4
    <2>3. CASE UNCHANGED <<clients, nextID>>
      BY <1>4, <2>1, <2>3
    <2> QED BY <1>5, <2>2, <2>3 DEF ReadFromUDP
  <1>6. ASSUME HandleForwarderFrame \/ DropAtListener PROVE ForgottenFor(i)'
    <2>1. PICK q \in Seq(Frames) : q = toLis /\ q # <<>> /\ toLis' = Tail(q) /\ nextID' = nextID
      BY <1>6 DEF HandleForwarderFrame, DropAtListener, TypeOK, lisVars
    <2>2. Leaves(i) = Marks(q, "PeerLeave", i) /\ Leaves(i)' = Marks(Tail(q), "PeerLeave", i)
      BY <2>1 DEF Leaves
    <2>3. /\ Leaves(i)' # {} => Leaves(i) # {}
          /\ (Head(q).type # "PeerLeave" \/ Head(q).sid # i) /\ Leaves(i) # {} => Leaves(i)' # {}
          /\ Head(q).type = "PeerLeave" /\ Head(q).sid = i => Leaves(i) # {}
      BY <2>1, <2>2, MarksOfTail
    <2>4. CASE HandleForwarderFrame
      <3>1. /\ kept' = kept
            /\ clients'[i] = IF Head(q).type = "PeerLeave" /\ Head(q).sid = i
                             THEN NoAddr ELSE clients[i]
        BY <2>1, <2>4 DEF HandleForwarderFrame, TypeOK, faultVars
      <3> QED BY <1>3, <2>1, <2>3, <3>1 DEF ForgottenFor
    <2>5. CASE DropAtListener
      <3>1. /\ clients' = clients
            /\ kept' = IF Head(q).type = "PeerLeave" THEN kept \cup {Head(q).sid} ELSE kept
        BY <2>1, <2>5 DEF DropAtListener, lisVars
      <3> QED BY <1>3, <2>1, <2>3, <3>1 DEF ForgottenFor
    <2> QED BY <1>6, <2>4, <2>5
  <1>7. SendJoin \/ SendData => UNCHANGED <<clients, nextID, toLis, kept>>
    BY DEF SendJoin, SendData, faultVars
  <1>8. \A f \in Forwarders : Pair(f) \/ WriteData(f) \/ DropAtForwarder(f)
            => UNCHANGED <<clients, nextID, toLis, kept>>
    BY DEF Pair, WriteData, DropAtForwarder, lisVars, faultVars
  <1> QED BY <1>4, <1>5, <1>6, <1>7, <1>8

\* A loop that ends, or never begins, says so.
LEMMA ForgottenByLoop ==
    ASSUME TypeOK, AnnouncedOnce, ForgottenOnLeave, NEW f \in Forwarders,
           DialTarget(f) \/ DialFails(f) \/ \E i \in Sid : ConnReadLoop(f, i)
    PROVE  ForgottenOnLeave'
  <1>1. UNCHANGED <<hand, clients, nextID, kept>>
    BY DEF DialTarget, DialFails, ConnReadLoop, RelayReply, ReadFails, LoopRemoves, LoopLeaves,
           lisVars, faultVars
  <1>2. (hand.at = "join" => hand.sid < nextID)'
    BY <1>1 DEF ForgottenOnLeave
  <1> SUFFICES ASSUME NEW i \in Sid PROVE ForgottenFor(i)'
    BY <1>2 DEF ForgottenOnLeave
  <1>3. ForgottenFor(i)
    BY DEF ForgottenOnLeave
  <1>4. ASSUME toLis' = toLis,
               \A g \in Forwarders : loop'[g][i] = "done" <=> loop[g][i] = "done"
        PROVE  ForgottenFor(i)'
    <2>1. Leaves(i)' = Leaves(i) /\ (Finished(i)' <=> Finished(i))
      BY <1>4 DEF Leaves, Finished
    <2> QED BY <1>1, <1>3, <2>1 DEF ForgottenFor
  <1>5. ASSUME NEW j \in Sid, Leave(f, j), loop' = [loop EXCEPT ![f][j] = "done"],
               loop[f][j] # "done"
        PROVE  ForgottenFor(i)'
    <2>1. PICK frame \in Frames : frame = Frame("PeerLeave", j, NoAddr, {f})
      BY FrameIsTyped
    <2>2. frame.type = "PeerLeave" /\ frame.sid = j
      BY <2>1 DEF Frame
    <2>3. PICK q \in Seq(Frames) : q = toLis /\ toLis' = Append(q, frame)
      BY <1>5, <2>1 DEF Leave, TypeOK
    <2>4. Leaves(i) = Marks(q, "PeerLeave", i) /\ Leaves(i)' = Marks(Append(q, frame), "PeerLeave", i)
      BY <2>3 DEF Leaves
    <2>5. \A g \in Forwarders : loop'[g][i] = IF g = f /\ i = j THEN "done" ELSE loop[g][i]
      BY <1>5 DEF TypeOK
    <2>6. CASE i = j
      <3>1. Leaves(i)' # {}
        <4>1. Marks(Append(q, frame), "PeerLeave", i) = Marks(q, "PeerLeave", i) \cup {Len(q) + 1}
          BY <2>2, <2>6, MarksOfQueue
        <4> QED BY <2>4, <4>1
      <3>2. Finished(i)'
        BY <2>5, <2>6 DEF Finished
      <3> QED BY <1>1, <1>3, <3>1, <3>2 DEF ForgottenFor
    <2>7. CASE i # j
      <3>1. Leaves(i)' = Leaves(i)
        BY <2>2, <2>4, <2>7, MarksOfQueue
      <3>2. Finished(i)' <=> Finished(i)
        BY <2>5, <2>7 DEF Finished
      <3> QED BY <1>1, <1>3, <3>1, <3>2 DEF ForgottenFor
    <2> QED BY <2>6, <2>7
  <1>6. CASE DialTarget(f) \/ DialFails(f)
    <2>1. toFwd[f] # <<>> /\ NextFrame(f) /\ Head(toFwd[f]).type = "PeerJoin"
      BY <1>6 DEF DialTarget, DialFails, Arrives
    <2>2. PICK frame \in Frames : frame = Head(toFwd[f])
      BY <2>1, JoinsAfterNext
    <2>3. frame.sid \in Sid
      BY <2>2, FrameFields
    <2>4. Joins(f, frame.sid) # {}
      BY <2>1, <2>2, <2>3, JoinsAfterNext
    <2>5. loop[f][frame.sid] = "off"
      BY <2>3, <2>4 DEF AnnouncedOnce, AnnouncedTo
    <2>6. CASE DialTarget(f)
      <3>1. toLis' = toLis /\ loop' = [loop EXCEPT ![f][frame.sid] = "read"]
        BY <2>2, <2>6 DEF DialTarget, Goto
      <3>2. \A g \in Forwarders : loop'[g][i] = "done" <=> loop[g][i] = "done"
        BY <2>5, <3>1 DEF TypeOK
      <3> QED BY <1>4, <3>1, <3>2
    <2>7. CASE DialFails(f)
      <3>1. Leave(f, frame.sid) /\ loop' = [loop EXCEPT ![f][frame.sid] = "done"]
        BY <2>2, <2>7 DEF DialFails, Goto
      <3> QED BY <1>5, <2>3, <2>5, <3>1
    <2> QED BY <1>6, <2>6, <2>7
  <1>7. ASSUME NEW j \in Sid, ReadFails(f, j) \/ LoopRemoves(f, j) PROVE ForgottenFor(i)'
    <2>1. PICK l \in {"remove", "leave"} :
              /\ toLis' = toLis /\ loop[f][j] # "done"
              /\ loop' = [loop EXCEPT ![f][j] = l]
      BY <1>7 DEF ReadFails, LoopRemoves, Goto
    <2>2. \A g \in Forwarders : loop'[g][i] = "done" <=> loop[g][i] = "done"
      BY <2>1 DEF TypeOK
    <2> QED BY <1>4, <2>1, <2>2
  <1>8. ASSUME NEW j \in Sid, LoopLeaves(f, j) PROVE ForgottenFor(i)'
    BY <1>5, <1>8 DEF LoopLeaves, Goto
  <1>9. ASSUME NEW j \in Sid, RelayReply(f, j) PROVE ForgottenFor(i)'
    <2>1. PICK frame \in Frames : frame = Frame("DataTCP", j, NoAddr, {f})
      BY FrameIsTyped
    <2>2. frame.type = "DataTCP"
      BY <2>1 DEF Frame
    <2>3. PICK q \in Seq(Frames) : q = toLis /\ toLis' = Append(q, frame) /\ loop' = loop
      BY <1>9, <2>1 DEF RelayReply, TypeOK
    <2>4. Leaves(i) = Marks(q, "PeerLeave", i) /\ Leaves(i)' = Marks(Append(q, frame), "PeerLeave", i)
      BY <2>3 DEF Leaves
    <2>5. Leaves(i)' = Leaves(i) /\ (Finished(i)' <=> Finished(i))
      BY <2>2, <2>3, <2>4, MarksOfQueue DEF Finished
    <2> QED BY <1>1, <1>3, <2>5 DEF ForgottenFor
  <1> QED BY <1>6, <1>7, <1>8, <1>9 DEF ConnReadLoop

\* Nothing has been announced at the start.
LEMMA AnnouncedInit ==
    ASSUME Init
    PROVE  AnnouncedOnce /\ ForgottenOnLeave
  <1>1. ASSUME NEW f \in Forwarders, NEW i \in Sid PROVE Joins(f, i) = {} /\ Leaves(i) = {}
    BY DEF Init, Joins, Leaves, Marks
  <1>2. nextID = 0 /\ Sid \subseteq Nat /\ \A i \in Sid : ~(i < nextID)
    BY UdpAssumption DEF Init, Sid, UdpAssumption
  <1>3. AnnouncedOnce
    <2> SUFFICES ASSUME NEW f \in Forwarders, NEW i \in Sid PROVE AnnouncedTo(f, i)
      BY DEF AnnouncedOnce
    <2>1. Joins(f, i) = {} /\ hand.at # "join" /\ loop[f][i] = "off" /\ i \notin entries[f]
      BY <1>1 DEF Init, Free
    <2> QED BY <1>2, <2>1 DEF AnnouncedTo
  <1>4. ForgottenOnLeave
    <2>1. ASSUME NEW i \in Sid PROVE ForgottenFor(i)
      <3>1. clients[i] = NoAddr /\ ~Finished(i)
        BY DEF Init, Finished
      <3>2. Leaves(i) = {}
        BY DEF Init, Leaves, Marks
      <3> QED BY <1>2, <3>1, <3>2 DEF ForgottenFor
    <2>2. hand.at # "join"
      BY DEF Init, Free
    <2> QED BY <2>1, <2>2 DEF ForgottenOnLeave
  <1> QED BY <1>3, <1>4

LEMMA AnnouncedStep ==
    ASSUME TypeOK, AnnouncedOnce, ForgottenOnLeave, [Next]_vars
    PROVE  AnnouncedOnce' /\ ForgottenOnLeave'
  <1>1. CASE UNCHANGED vars
    <2>1. UNCHANGED <<hand, clients, nextID, kept, toLis, toFwd, loop, entries, missed>>
      BY <1>1 DEF vars, lisVars, fwdVars, faultVars
    <2>2. ASSUME NEW f \in Forwarders, NEW i \in Sid PROVE AnnouncedTo(f, i)'
      <3>1. Joins(f, i)' = Joins(f, i) /\ AnnouncedTo(f, i)
        BY <2>1 DEF Joins, AnnouncedOnce
      <3> QED BY <2>1, <3>1 DEF AnnouncedTo
    <2>3. ASSUME NEW i \in Sid PROVE ForgottenFor(i)'
      <3>1. /\ Leaves(i)' = Leaves(i) /\ (Finished(i)' <=> Finished(i))
            /\ ForgottenFor(i)
        BY <2>1 DEF Leaves, Finished, ForgottenOnLeave
      <3> QED BY <2>1, <3>1 DEF ForgottenFor
    <2> QED BY <2>1, <2>2, <2>3 DEF AnnouncedOnce, ForgottenOnLeave
  <1>2. ASSUME NEW a \in Addrs, ReadFromUDP(a) PROVE AnnouncedOnce' /\ ForgottenOnLeave'
    BY <1>2, AnnouncedByListener, ForgottenByListener
  <1>3. CASE SendJoin \/ SendData
    BY <1>3, AnnouncedByListener, ForgottenByListener
  <1>4. CASE HandleForwarderFrame \/ DropAtListener
    BY <1>4, AnnouncedByOthers, ForgottenByListener
  <1>5. ASSUME NEW f \in Forwarders, Pair(f) PROVE AnnouncedOnce' /\ ForgottenOnLeave'
    BY <1>5, AnnouncedByOthers, ForgottenByListener
  <1>6. ASSUME NEW f \in Forwarders, WriteData(f) \/ DropAtForwarder(f)
        PROVE  AnnouncedOnce' /\ ForgottenOnLeave'
    BY <1>6, AnnouncedByForwarder, ForgottenByListener DEF HandleFrame
  <1>7. ASSUME NEW f \in Forwarders, DialTarget(f) \/ DialFails(f)
        PROVE  AnnouncedOnce' /\ ForgottenOnLeave'
    BY <1>7, AnnouncedByForwarder, ForgottenByLoop DEF HandleFrame
  <1>8. ASSUME NEW f \in Forwarders, NEW i \in Sid, ConnReadLoop(f, i)
        PROVE  AnnouncedOnce' /\ ForgottenOnLeave'
    BY <1>8, AnnouncedByOthers, ForgottenByLoop
  <1> QED BY <1>1, <1>2, <1>3, <1>4, <1>5, <1>6, <1>7, <1>8 DEF Next, HandleFrame

\* To every forwarder an identifier is announced once, before its read loop, and it is
\* the PeerLeave of a loop that has ended that makes the listener forget it.
THEOREM AnnouncedOnceForgottenOnLeave == Spec => [](AnnouncedOnce /\ ForgottenOnLeave)
  <1>1. Init => TypeOK /\ AnnouncedOnce /\ ForgottenOnLeave
    BY TypeInit, AnnouncedInit
  <1>2. TypeOK /\ AnnouncedOnce /\ ForgottenOnLeave /\ [Next]_vars
            => (TypeOK /\ AnnouncedOnce /\ ForgottenOnLeave)'
    BY TypeStep, AnnouncedStep
  <1> QED BY <1>1, <1>2, PTL DEF Spec

\* An address that a paired forwarder does not know is about to be announced or to be
\* forgotten, or a frame about it was lost or came before the forwarder did.
THEOREM SilenceIsExplained == Spec => []SilenceNeedsALoss
  <1>1. TypeOK /\ AnnouncedOnce /\ ForgottenOnLeave => SilenceNeedsALoss
    <2> SUFFICES ASSUME TypeOK, AnnouncedOnce, ForgottenOnLeave,
                        NEW f \in paired, NEW i \in Sid, clients[i] # NoAddr, i \notin entries[f]
                 PROVE  \/ hand.at = "join" /\ hand.sid = i
                        \/ Joins(f, i) # {}
                        \/ loop[f][i] = "leave"
                        \/ Leaves(i) # {}
                        \/ <<f, i>> \in missed
                        \/ i \in kept
      BY DEF SilenceNeedsALoss
    <2>1. f \in Forwarders
      BY DEF TypeOK
    <2>2. AnnouncedTo(f, i) /\ ForgottenFor(i)
      BY <2>1 DEF AnnouncedOnce, ForgottenOnLeave
    <2>3. loop[f][i] \in {"off", "read", "remove", "leave", "done"}
      BY <2>1 DEF TypeOK
    <2>4. loop[f][i] = "done" => Finished(i)
      BY <2>1 DEF Finished
    <2> QED BY <2>2, <2>3, <2>4 DEF AnnouncedTo, ForgottenFor
  <1> QED BY <1>1, TypeCorrect, AnnouncedOnceForgottenOnLeave, PTL

\* A connection whose identifier the listener has forgotten is left behind by the PeerLeave
\* of another forwarder, never by that of its own.
THEOREM LeaksAreAnothers == Spec => []LeakNeedsAnother
  <1>1. TypeOK /\ AnnouncedOnce /\ ForgottenOnLeave => LeakNeedsAnother
    <2> SUFFICES ASSUME TypeOK, AnnouncedOnce, ForgottenOnLeave, NEW f \in Forwarders,
                        NEW i \in Sid, i \in entries[f], clients[i] = NoAddr
                 PROVE  \E g \in Forwarders \ {f} : loop[g][i] = "done"
      BY DEF LeakNeedsAnother
    <2>1. AnnouncedTo(f, i) /\ ForgottenFor(i)
      BY DEF AnnouncedOnce, ForgottenOnLeave
    <2>2. loop[f][i] \in {"read", "remove"} /\ i < nextID
      BY <2>1 DEF AnnouncedTo
    <2>3. Finished(i)
      BY <2>1, <2>2 DEF ForgottenFor
    <2> QED BY <2>2, <2>3 DEF Finished
  <1> QED BY <1>1, TypeCorrect, AnnouncedOnceForgottenOnLeave, PTL

===============================================================================
