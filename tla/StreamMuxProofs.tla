---------------------------- MODULE StreamMuxProofs ----------------------------
(***************************************************************************)
(* Proofs about the TCP multiplexer, for every set of streams, bound of    *)
(* chunks and way of closing: both maps hold living connections only, and  *)
(* while a session accepts no more streams than there are identifiers,     *)
(* every stream is a pipe in each direction: the multiplexer implements    *)
(* StreamPromise, and what an application receives is a prefix of what the *)
(* application at the other end has written.                               *)
(***************************************************************************)
EXTENDS StreamMux, FiniteSetTheorems, TLAPS

-------------------------------------------------------------------------------
(* The inductive invariants behind MapsAreSound and StreamIsPrefix. *)

Queued(e, s) == {k \in 1..Len(link[e]) : link[e][k].type = "Data" /\ link[e][k].from = s}
Joins(s) == {k \in 1..Len(link["forwarder"]) :
                link["forwarder"][k].type = "PeerJoin" /\ link["forwarder"][k].from = s}

\* How many chunks the read loop has tried to send.
SentOf(e, s) == IF loop[e][s] = "send" THEN taken[e][s] - 1 ELSE taken[e][s]

\* A frame for end e is of a stream that has started at the other.
FrameIsOf(e, f) ==
    /\ f.sid = sid[f.from]
    /\ loop[Other(e)][f.from] # "off"
    /\ f.type = "PeerJoin" => e = "forwarder"
    /\ f.type = "Data" => f.n \in 1..SentOf(Other(e), f.from)

LinkIsSound(e) == \A k \in 1..Len(link[e]) : FrameIsOf(e, link[e][k])

HandIsSound(e) ==
    hand[e] # Idle =>
        /\ FrameIsOf(e, hand[e].frame)
        /\ sid[hand[e].conn] = hand[e].frame.sid
        /\ hand[e].at = "write" => hand[e].frame.type = "Data"
        /\ sock["listener"][hand[e].conn] # "none"
        /\ e = "forwarder" => loop[e][hand[e].conn] # "off"

\* A stream starts at the listener, then at the forwarder, and does nothing before.
StartsInOrder(s) ==
    /\ (joining = s \/ sock["listener"][s] = "none") => loop["listener"][s] = "off"
    /\ joining = s => sock["listener"][s] # "none"
    /\ loop["listener"][s] = "off" => loop["forwarder"][s] = "off"
    /\ loop["forwarder"][s] = "off" =>
           sock["forwarder"][s] = "none" /\ \A i \in Sid : conns["forwarder"][i] # s
    /\ \A e \in Ends : /\ loop[e][s] = "off" => taken[e][s] = 0
                       /\ loop[e][s] = "send" => taken[e][s] > 0
                       /\ sock[e][s] = "none" => got[e][s] = <<>>

JoinComesFirst(s) ==
    /\ \A j, k \in Joins(s) : j = k
    /\ Joins(s) # {} => loop["forwarder"][s] = "off"
    /\ \A j \in Joins(s), k \in Queued("forwarder", s) : j < k

StreamsAreSound ==
    /\ \A e \in Ends : LinkIsSound(e) /\ HandIsSound(e)
    /\ EntriesAreLive
    /\ \A s \in Streams : StartsInOrder(s) /\ JoinComesFirst(s)

Accepted == {s \in Streams : sock["listener"][s] # "none"}

\* The session has not accepted more streams than there are identifiers.
NotWrapped == Cardinality(Accepted) <= Sids

\* Until then each stream has an identifier of its own, and the next one is free.
SidsAreUnique ==
    /\ nextID = IF Cardinality(Accepted) = Sids THEN 0 ELSE Cardinality(Accepted)
    /\ \A s \in Accepted : sid[s] < Cardinality(Accepted)
    /\ \A s, t \in Accepted : sid[s] = sid[t] => s = t

InHand(e, s) == hand[e].at = "write" /\ hand[e].conn = s

\* The application of s at end e can still be given data that is on its way.
Reaches(e, s) ==
    /\ app[e][s] = "open"
    /\ \/ sock[e][s] = "open" /\ conns[e][sid[s]] = s
       \/ e = "forwarder" /\ Joins(s) # {}

\* The chunks on their way go on where those received end, without a gap for as long
\* as they can be received; the end of the session cuts off the last ones.
DeliversInOrder(e, s) ==
    LET n(k) == link[e][k].n IN
    /\ Len(got[e][s]) <= SentOf(Other(e), s)
    /\ \A k \in 1..Len(got[e][s]) : got[e][s][k] = [from |-> s, n |-> k]
    /\ \A k \in Queued(e, s) : Len(got[e][s]) < n(k)
    /\ \A j, k \in Queued(e, s) : j < k => n(j) < n(k)
    /\ InHand(e, s) =>
           /\ hand[e].frame.from = s
           /\ (sock[e][s] = "open" /\ app[e][s] = "open") => hand[e].frame.n = Len(got[e][s]) + 1
           /\ \A k \in Queued(e, s) : hand[e].frame.n < n(k)
    /\ Reaches(e, s) =>
           \A x \in (Len(got[e][s]) + 1)..SentOf(Other(e), s) :
               \/ InHand(e, s) /\ hand[e].frame.n = x
               \/ \E k \in Queued(e, s) : n(k) = x
               \/ ~up /\ \A k \in Queued(e, s) : n(k) < x

DeliveryIsSound ==
    /\ IsFiniteSet(Accepted)
    /\ NotWrapped => SidsAreUnique /\ \A e \in Ends, s \in Streams : DeliversInOrder(e, s)

\* What an application receives on a stream is a prefix of what the application at
\* the other end of the same stream has written: nothing of another stream, no gap
\* and no repetition, whenever either end closes.
StreamIsPrefix ==
    \A e \in Ends, s \in Streams : \A k \in 1..Len(got[e][s]) :
        got[e][s][k] = [from |-> s, n |-> k]

-------------------------------------------------------------------------------
(* The ends, frames and queues of frames. *)

LEMMA TwoEnds ==
    /\ "listener" \in Ends /\ "forwarder" \in Ends
    /\ Other("listener") = "forwarder" /\ Other("forwarder") = "listener"
    /\ \A e \in Ends : Other(e) \in Ends /\ Other(e) # e /\ Other(Other(e)) = e
    /\ \A e \in Ends : e # "listener" <=> e = "forwarder"
  BY DEF Ends, Other

LEMMA FrameIsTyped ==
    ASSUME NEW type \in {"PeerJoin", "Data", "PeerLeave"}, NEW i \in Sid,
           NEW s \in Streams, NEW n \in Nat
    PROVE  /\ Frame(type, i, s, n) \in Frames
           /\ Frame(type, i, s, n).type = type
           /\ Frame(type, i, s, n).sid = i
           /\ Frame(type, i, s, n).from = s
           /\ Frame(type, i, s, n).n = n
  BY DEF Frame, Frames

LEMMA FrameFields ==
    ASSUME NEW f \in Frames
    PROVE  f.type \in {"PeerJoin", "Data", "PeerLeave"} /\ f.sid \in Sid
           /\ f.from \in Streams /\ f.n \in Nat
  BY DEF Frames

LEMMA QueueOfFrames ==
    ASSUME NEW q \in Seq(Frames)
    PROVE  /\ Len(q) \in Nat
           /\ \A k \in 1..Len(q) : q[k] \in Frames
           /\ q # <<>> => /\ Head(q) \in Frames /\ Head(q) = q[1]
                          /\ Len(q) >= 1
  OBVIOUS

\* What happens to a queue: a frame is taken from its head, one is added, or the last
\* frames are lost.
LEMMA QueueLoses ==
    ASSUME NEW q \in Seq(Frames), q # <<>>
    PROVE  /\ Tail(q) \in Seq(Frames)
           /\ Len(Tail(q)) = Len(q) - 1
           /\ \A k \in 1..Len(Tail(q)) : k + 1 \in 1..Len(q) /\ Tail(q)[k] = q[k + 1]
  OBVIOUS

LEMMA QueueGrows ==
    ASSUME NEW q \in Seq(Frames), NEW f \in Frames
    PROVE  /\ Append(q, f) \in Seq(Frames)
           /\ Len(Append(q, f)) = Len(q) + 1
           /\ \A k \in 1..Len(q) : Append(q, f)[k] = q[k]
           /\ Append(q, f)[Len(q) + 1] = f
  OBVIOUS

LEMMA QueueIsCut ==
    ASSUME NEW q \in Seq(Frames), NEW m \in 0..Len(q)
    PROVE  /\ SubSeq(q, 1, m) \in Seq(Frames)
           /\ Len(SubSeq(q, 1, m)) = m
           /\ \A k \in 1..m : SubSeq(q, 1, m)[k] = q[k] /\ k \in 1..Len(q)
  OBVIOUS

\* One entry of a table is replaced.
LEMMA TableEntry ==
    ASSUME NEW A, NEW B, NEW C, NEW table \in [A -> [B -> C]], NEW a \in A, NEW b \in B,
           NEW c \in C
    PROVE  [table EXCEPT ![a][b] = c] \in [A -> [B -> C]]
  <1>1. [table[a] EXCEPT ![b] = c] \in [B -> C]
    OBVIOUS
  <1> QED BY <1>1

LEMMA Successor == ASSUME NEW i \in Sid PROVE (i + 1) % Sids \in Sid
  BY StreamsAssumption DEF Sid, StreamsAssumption

-------------------------------------------------------------------------------
(* Type correctness. *)

LEMMA TypeInit == ASSUME Init PROVE TypeOK
  <1> USE StreamsAssumption DEF StreamsAssumption
  <1>1. 0 \in Sid
    BY DEF Sid
  <1>2. written \in [Ends -> [Streams -> Nat]]
        /\ \A e \in Ends, s \in Streams : written[e][s] <= Chunks[e]
    <2>1. PICK l \in [Streams -> 0..Chunks["listener"]], f \in [Streams -> 0..Chunks["forwarder"]] :
              written = [e \in Ends |-> IF e = "listener" THEN l ELSE f]
      BY DEF Init
    <2>2. Chunks["listener"] \in Nat /\ Chunks["forwarder"] \in Nat
      BY DEF Ends
    <2>3. l \in [Streams -> Nat] /\ f \in [Streams -> Nat]
      BY <2>1, <2>2
    <2>4. \A s \in Streams : l[s] <= Chunks["listener"] /\ f[s] <= Chunks["forwarder"]
      BY <2>1, <2>2
    <2> QED BY <2>1, <2>3, <2>4, TwoEnds
  <1>3. taken \in [Ends -> [Streams -> Nat]]
        /\ \A e \in Ends, s \in Streams : taken[e][s] <= written[e][s]
    BY <1>2 DEF Init
  <1>4. /\ got \in [Ends -> [Streams -> Seq([from : Streams, n : Nat])]]
        /\ link \in [Ends -> Seq(Frames)]
        /\ hand \in [Ends -> Hands]
    BY DEF Init, Hands
  <1> QED BY <1>1, <1>2, <1>3, <1>4 DEF Init, TypeOK

\* A frame in the hands of a frame loop.
LEMMA HandFields ==
    ASSUME TypeOK, NEW e \in Ends, hand[e].at # "recv"
    PROVE  /\ hand[e] # Idle
           /\ hand[e].at \in {"write", "close", "remove"}
           /\ hand[e].frame \in Frames /\ hand[e].conn \in Streams
           /\ hand[e] = [at |-> hand[e].at, frame |-> hand[e].frame, conn |-> hand[e].conn]
  <1>1. hand[e] \in Hands
    BY DEF TypeOK
  <1>2. hand[e] # Idle
    BY DEF Idle
  <1> QED BY <1>1, <1>2 DEF Hands

LEMMA HandIsIdle ==
    ASSUME TypeOK, NEW e \in Ends, hand[e].at = "recv"
    PROVE  hand[e] = Idle
  BY DEF TypeOK, Hands

LEMMA SentIsTyped ==
    ASSUME TypeOK, NEW e \in Ends, NEW f \in Frames, Sent(e, f)
    PROVE  link' \in [Ends -> Seq(Frames)]
  <1>1. Append(link[Other(e)], f) \in Seq(Frames)
    BY TwoEnds DEF TypeOK
  <1> QED BY <1>1 DEF Sent, TypeOK

LEMMA ListenerTypeStep ==
    ASSUME TypeOK, (\E s \in Streams : Accept(s)) \/ Announce \/ AnnounceFails
    PROVE  TypeOK'
  <1> USE TwoEnds DEF TypeOK
  <1>1. ASSUME NEW s \in Streams, Accept(s) PROVE TypeOK'
    <2>1. nextID' \in Sid
      BY <1>1, Successor DEF Accept, Add
    <2>2. nextID \in Sid /\ sid' \in [Streams -> Sid]
          /\ conns' \in [Ends -> [Sid -> Streams \cup {NoStream}]]
      BY <1>1 DEF Accept, Add
    <2> QED BY <1>1, <2>1, <2>2 DEF Accept, appVars, linkVars
  <1>2. CASE Announce
    <2>1. joining \in Streams /\ sid[joining] \in Sid
      BY <1>2 DEF Announce
    <2>2. Frame("PeerJoin", sid[joining], joining, 0) \in Frames
      BY <2>1, FrameIsTyped
    <2>3. link' \in [Ends -> Seq(Frames)]
      BY <1>2, <2>2, SentIsTyped DEF Announce
    <2> QED BY <1>2, <2>1, <2>3 DEF Announce, Step, appVars
  <1>3. CASE AnnounceFails
    BY <1>3 DEF AnnounceFails, Remove, Step, appVars, linkVars
  <1> QED BY <1>1, <1>2, <1>3

LEMMA Counted ==
    ASSUME TypeOK, NEW e \in Ends, NEW s \in Streams
    PROVE  /\ taken \in [Ends -> [Streams -> Nat]] /\ taken[e][s] \in Nat
           /\ written[e][s] \in Nat /\ taken[e][s] <= written[e][s]
           /\ got \in [Ends -> [Streams -> Seq([from : Streams, n : Nat])]]
           /\ got[e][s] \in Seq([from : Streams, n : Nat])
  <1>1. /\ taken \in [Ends -> [Streams -> Nat]] /\ written \in [Ends -> [Streams -> Nat]]
        /\ got \in [Ends -> [Streams -> Seq([from : Streams, n : Nat])]]
        /\ \A d \in Ends, t \in Streams : taken[d][t] <= written[d][t]
    BY Zenon DEF TypeOK
  <1>2. /\ taken[e][s] \in Nat /\ written[e][s] \in Nat
        /\ taken[e][s] <= written[e][s]
    BY <1>1
  <1>3. got[e][s] \in Seq([from : Streams, n : Nat])
    <2> DEFINE C == Seq([from : Streams, n : Nat])
    <2>1. got \in [Ends -> [Streams -> C]]
      BY <1>1
    <2> HIDE DEF C
    <2>2. got[e][s] \in C
      BY <2>1
    <2> QED BY <2>2 DEF C
  <1> QED BY <1>1, <1>2, <1>3

LEMMA ReadTypeStep ==
    ASSUME TypeOK, NEW e \in Ends, NEW s \in Streams, ReadChunk(e, s)
    PROVE  TypeOK'
  <1>1. /\ taken \in [Ends -> [Streams -> Nat]] /\ taken[e][s] \in Nat
        /\ written[e][s] \in Nat
    BY Counted
  <1>2. taken[e][s] < written[e][s] /\ taken' = [taken EXCEPT ![e][s] = taken[e][s] + 1]
    BY Zenon DEF ReadChunk
  <1>3. taken' \in [Ends -> [Streams -> Nat]]
    BY <1>1, <1>2
  <1>4. ASSUME NEW d \in Ends, NEW t \in Streams PROVE taken'[d][t] <= written[d][t]
    <2>1. taken[d][t] <= written[d][t]
      BY Counted
    <2> QED BY <1>1, <1>2, <2>1
  <1>5. /\ UNCHANGED <<nextID, sid, conns, sock, app, written, got, joining, link, up, hand>>
        /\ loop' = [loop EXCEPT ![e][s] = "send"]
    BY DEF ReadChunk, Step, appVars, linkVars
  <1> QED BY <1>3, <1>4, <1>5 DEF TypeOK

LEMMA LoopTypeStep ==
    ASSUME TypeOK, NEW e \in Ends, NEW s \in Streams, ConnReadLoop(e, s)
    PROVE  TypeOK'
  <1> USE TwoEnds DEF TypeOK
  <1>1. CASE ReadChunk(e, s)
    BY <1>1, ReadTypeStep
  <1>2. CASE ReadFails(e, s)
    BY <1>2 DEF ReadFails, Step, appVars, linkVars
  <1>3. CASE SendChunk(e, s)
    <2>1. Frame("Data", sid[s], s, taken[e][s]) \in Frames
      BY FrameIsTyped
    <2>2. link' \in [Ends -> Seq(Frames)]
      BY <1>3, <2>1, SentIsTyped DEF SendChunk
    <2> QED BY <1>3, <2>2 DEF SendChunk, Step, appVars
  <1>4. CASE LoopRemoves(e, s)
    BY <1>4 DEF LoopRemoves, Remove, Step, appVars, linkVars
  <1>5. CASE LoopLeaves(e, s)
    <2>1. Frame("PeerLeave", sid[s], s, 0) \in Frames
      BY FrameIsTyped
    <2>2. link' \in [Ends -> Seq(Frames)]
      BY <1>5, <2>1, SentIsTyped DEF LoopLeaves
    <2> QED BY <1>5, <2>2 DEF LoopLeaves, Step, appVars
  <1>6. CASE LoopCloses(e, s)
    BY <1>6 DEF LoopCloses, Step, appVars, linkVars
  <1> QED BY <1>1, <1>2, <1>3, <1>4, <1>5, <1>6 DEF ConnReadLoop

\* The frame that has arrived.
LEMMA Arrived ==
    ASSUME TypeOK, NEW e \in Ends, NEW type, Arrives(e, type)
    PROVE  /\ link[e] \in Seq(Frames) /\ link[e] # <<>> /\ Len(link[e]) \in Nat
           /\ 1 \in 1..Len(link[e])
           /\ Head(link[e]) = link[e][1]
           /\ Head(link[e]) \in Frames
           /\ Head(link[e]).type = type
           /\ Head(link[e]).sid \in Sid /\ Head(link[e]).from \in Streams
           /\ Head(link[e]).n \in Nat
           /\ Tail(link[e]) \in Seq(Frames)
           /\ hand[e] = Idle
  <1>1. link[e] \in Seq(Frames) /\ link[e] # <<>> /\ Head(link[e]).type = type
    BY DEF TypeOK, Arrives
  <1>2. hand[e] = Idle
    BY HandIsIdle DEF Arrives
  <1> QED BY <1>1, <1>2, QueueOfFrames, QueueLoses, FrameFields

LEMMA DialTypeStep ==
    ASSUME TypeOK, DialTarget \/ DialFails
    PROVE  TypeOK'
  <1> DEFINE f == Head(link["forwarder"])
  <1>1. Arrives("forwarder", "PeerJoin")
    BY DEF DialTarget, DialFails
  <1>2. f \in Frames /\ f.sid \in Sid /\ f.from \in Streams
        /\ Tail(link["forwarder"]) \in Seq(Frames)
    BY <1>1, Arrived, TwoEnds
  <1>3. CASE DialTarget
    BY <1>2, <1>3, TwoEnds DEF TypeOK, DialTarget, AddWithID, NextFrame, Step, appVars
  <1>4. CASE DialFails
    <2>1. Frame("PeerLeave", f.sid, f.from, 0) \in Frames
      BY <1>2, FrameIsTyped
    <2>2. <<>> \in Seq(Frames) /\ <<Frame("PeerLeave", f.sid, f.from, 0)>> \in Seq(Frames)
      BY <2>1
    <2>3. \A leave \in Seq(Frames) : link["listener"] \o leave \in Seq(Frames)
      BY TwoEnds DEF TypeOK
    <2>4. link' \in [Ends -> Seq(Frames)]
      BY <1>2, <1>4, <2>2, <2>3, TwoEnds DEF TypeOK, DialFails
    <2> QED BY <1>2, <1>4, <2>4, TwoEnds DEF TypeOK, DialFails, Step, appVars
  <1> QED BY <1>3, <1>4

\* The application receives the chunk of the frame, or nothing.
LEMMA Written ==
    ASSUME TypeOK, NEW e \in Ends, WriteData(e)
    PROVE  LET s == hand[e].conn
               f == hand[e].frame
           IN  /\ s \in Streams /\ f \in Frames
               /\ got' \in [Ends -> [Streams -> Seq([from : Streams, n : Nat])]]
               /\ \A d \in Ends, t \in Streams : d # e \/ t # s => got'[d][t] = got[d][t]
               /\ IF sock[e][s] = "open" /\ app[e][s] = "open"
                  THEN got'[e][s] = Append(got[e][s], [from |-> f.from, n |-> f.n])
                  ELSE got' = got
  <1>1. hand[e].frame \in Frames /\ hand[e].conn \in Streams
    BY HandFields DEF WriteData
  <1>2. PICK s \in Streams, f \in Frames : s = hand[e].conn /\ f = hand[e].frame
    BY <1>1
  <1>3. PICK c \in [from : Streams, n : Nat] : c = [from |-> f.from, n |-> f.n]
    BY FrameFields
  <1>4. IF sock[e][s] = "open" /\ app[e][s] = "open"
        THEN got' = [got EXCEPT ![e][s] = Append(got[e][s], c)]
        ELSE got' = got
    BY <1>2, <1>3, Zenon DEF WriteData
  <1>5. got \in [Ends -> [Streams -> Seq([from : Streams, n : Nat])]]
    BY Zenon DEF TypeOK
  <1>6. /\ got' \in [Ends -> [Streams -> Seq([from : Streams, n : Nat])]]
        /\ \A d \in Ends, t \in Streams : d # e \/ t # s => got'[d][t] = got[d][t]
        /\ IF sock[e][s] = "open" /\ app[e][s] = "open"
           THEN got'[e][s] = Append(got[e][s], c)
           ELSE got' = got
    <2>1. CASE sock[e][s] = "open" /\ app[e][s] = "open"
      <3> DEFINE C == Seq([from : Streams, n : Nat])
      <3>1. got' = [got EXCEPT ![e][s] = Append(got[e][s], c)]
        BY <1>4, <2>1, Zenon
      <3>2. got \in [Ends -> [Streams -> C]] /\ got[e][s] \in C
        BY Counted
      <3>3. Append(got[e][s], c) \in C
        BY <3>2
      <3> HIDE DEF C
      <3>4. got' \in [Ends -> [Streams -> C]]
        BY <3>1, <3>2, <3>3
      <3>5. /\ got'[e][s] = Append(got[e][s], c)
            /\ \A d \in Ends, t \in Streams : d # e \/ t # s => got'[d][t] = got[d][t]
        BY <3>1, <3>2
      <3> QED BY <2>1, <3>4, <3>5 DEF C
    <2>2. CASE ~(sock[e][s] = "open" /\ app[e][s] = "open")
      <3>1. got' = got
        BY <1>4, <2>2, Zenon
      <3> QED BY <1>5, <2>2, <3>1, Zenon
    <2> QED BY <2>1, <2>2
  <1> QED BY <1>1, <1>2, <1>3, <1>6, Zenon

LEMMA FramesTypeStep ==
    ASSUME TypeOK, NEW e \in Ends, HandleFrames(e)
    PROVE  TypeOK'
  <1> USE TwoEnds
  <1>1. ASSUME NEW type, NEW l \in {"write", "close"}, LookUp(e, type, l) PROVE TypeOK'
    <2> DEFINE f == Head(link[e])
    <2>1. f \in Frames /\ f.sid \in Sid /\ Tail(link[e]) \in Seq(Frames)
      BY <1>1, Arrived DEF LookUp
    <2>2. Get(e, f.sid) # NoStream => [at |-> l, frame |-> f, conn |-> Get(e, f.sid)] \in Hands
      BY <2>1 DEF Hands, Get, TypeOK
    <2>3. hand' \in [Ends -> Hands]
      <3> DEFINE h == [at |-> l, frame |-> f, conn |-> Get(e, f.sid)]
      <3>1. \/ hand' = hand
            \/ Get(e, f.sid) # NoStream /\ hand' = [hand EXCEPT ![e] = h]
        BY <1>1, Zenon DEF LookUp, Hold
      <3>2. hand \in [Ends -> Hands] /\ (Get(e, f.sid) # NoStream => h \in Hands)
        BY <2>2 DEF TypeOK
      <3> HIDE DEF h
      <3> QED BY <3>1, <3>2
    <2> QED BY <1>1, <2>1, <2>3 DEF LookUp, NextFrame, appVars, TypeOK
  <1>2. Idle \in Hands
    BY DEF Hands
  <1>3. CASE WriteData(e)
    <2>1. got' \in [Ends -> [Streams -> Seq([from : Streams, n : Nat])]]
      BY <1>3, Written, Counted
    <2> QED BY <1>2, <1>3, <2>1 DEF WriteData, linkVars, TypeOK
  <1>4. CASE CloseStream(e)
    <2>1. hand[e].frame \in Frames /\ hand[e].conn \in Streams
          /\ hand[e] = [at |-> hand[e].at, frame |-> hand[e].frame, conn |-> hand[e].conn]
      BY <1>4, HandFields DEF CloseStream
    <2>2. [hand[e] EXCEPT !.at = "remove"] \in Hands
      <3>1. [hand[e] EXCEPT !.at = "remove"]
            = [at |-> "remove", frame |-> hand[e].frame, conn |-> hand[e].conn]
        BY <2>1
      <3> QED BY <2>1, <3>1 DEF Hands
    <2>3. hand' \in [Ends -> Hands]
      BY <1>4, <2>2 DEF CloseStream, TypeOK
    <2> QED BY <1>4, <2>1, <2>3 DEF CloseStream, appVars, linkVars, TypeOK
  <1>5. CASE RemoveStream(e)
    <2>1. hand[e].frame.sid \in Sid
      BY <1>5, HandFields, FrameFields DEF RemoveStream
    <2> QED BY <1>2, <1>5, <2>1 DEF RemoveStream, Remove, appVars, linkVars, TypeOK
  <1> QED BY <1>1, <1>3, <1>4, <1>5 DEF HandleFrames

LEMMA TypeStep ==
    ASSUME TypeOK, [Next]_vars
    PROVE  TypeOK'
  <1>1. ASSUME NEW e \in Ends, NEW s \in Streams, AppCloses(e, s) PROVE TypeOK'
    <2>1. Closings \subseteq {"eof", "reset"}
      BY StreamsAssumption DEF StreamsAssumption
    <2>2. app' \in [Ends -> [Streams -> {"open", "eof", "reset"}]]
      <3>1. PICK a \in Closings : app' = [app EXCEPT ![e][s] = a]
        BY <1>1 DEF AppCloses
      <3> QED BY <2>1, <3>1 DEF TypeOK
    <2> QED BY <1>1, <2>2 DEF AppCloses, linkVars, TypeOK
  <1>2. CASE SessionEnds
    <2>1. PICK l \in 0..Len(link["listener"]), f \in 0..Len(link["forwarder"]) :
              link' = [e \in Ends |-> SubSeq(link[e], 1, IF e = "listener" THEN l ELSE f)]
      BY <1>2 DEF SessionEnds
    <2>2. SubSeq(link["listener"], 1, l) \in Seq(Frames)
          /\ SubSeq(link["forwarder"], 1, f) \in Seq(Frames)
      BY TwoEnds, QueueIsCut DEF TypeOK
    <2>3. link' \in [Ends -> Seq(Frames)]
      BY <2>1, <2>2, TwoEnds
    <2> QED BY <1>2, <2>3 DEF SessionEnds, appVars, TypeOK
  <1>3. CASE UNCHANGED vars
    BY <1>3 DEF vars, appVars, linkVars, TypeOK
  <1> QED BY <1>1, <1>2, <1>3, ListenerTypeStep, LoopTypeStep, DialTypeStep, FramesTypeStep
          DEF Next

-------------------------------------------------------------------------------
(* What a step may do to a stream: it starts once and keeps its identifier. *)

\* The join of a stream reaches the forwarder before anything else of it does.
LEMMA JoinStarts ==
    ASSUME TypeOK, StreamsAreSound, Arrives("forwarder", "PeerJoin"),
           NEW s, s = Head(link["forwarder"]).from
    PROVE  /\ s \in Streams
           /\ Head(link["forwarder"]).sid = sid[s]
           /\ 1 \in Joins(s)
           /\ loop["forwarder"][s] = "off" /\ loop["listener"][s] # "off"
           /\ sock["forwarder"][s] = "none" /\ sock["listener"][s] # "none" /\ joining # s
           /\ taken["forwarder"][s] = 0
  <1>1. /\ link["forwarder"][1].from = s /\ link["forwarder"][1].type = "PeerJoin"
        /\ link["forwarder"][1].sid = Head(link["forwarder"]).sid
        /\ 1 \in 1..Len(link["forwarder"]) /\ s \in Streams
    BY Arrived, TwoEnds
  <1>2. 1 \in Joins(s)
    BY <1>1 DEF Joins
  <1>3. StartsInOrder(s) /\ JoinComesFirst(s) /\ FrameIsOf("forwarder", link["forwarder"][1])
    BY <1>1, TwoEnds DEF StreamsAreSound, LinkIsSound
  <1>4. loop["forwarder"][s] = "off"
    BY <1>2, <1>3 DEF JoinComesFirst
  <1>5. loop["listener"][s] # "off" /\ sid[s] = Head(link["forwarder"]).sid
    BY <1>1, <1>3, TwoEnds DEF FrameIsOf
  <1> QED BY <1>1, <1>2, <1>3, <1>4, <1>5, TwoEnds DEF StartsInOrder

\* The stream that is being announced has not started.
LEMMA JoiningIsOff ==
    ASSUME TypeOK, StreamsAreSound, joining # NoStream
    PROVE  /\ joining \in Streams
           /\ loop["listener"][joining] = "off" /\ loop["forwarder"][joining] = "off"
           /\ sock["listener"][joining] # "none"
           /\ taken["listener"][joining] = 0
  BY TwoEnds DEF TypeOK, StreamsAreSound, StartsInOrder

LEMMA LoopGoesOn ==
    ASSUME TypeOK, StreamsAreSound, NEW d \in Ends, NEW t \in Streams, ConnReadLoop(d, t),
           NEW e \in Ends, NEW s \in Streams
    PROVE  /\ loop[d][t] # "off" /\ loop'[d][t] # "off"
           /\ d # e \/ t # s => loop'[e][s] = loop[e][s]
           /\ UNCHANGED <<nextID, sid, app, written, got, joining, up, hand>>
           /\ SentOf(e, s) <= SentOf(e, s)'
           /\ sock'[e][s] = sock[e][s] \/ sock'[e][s] = "closed"
  <1>1. /\ loop \in [Ends -> [Streams -> {"off", "read", "send", "remove", "leave", "close", "done"}]]
        /\ sock \in [Ends -> [Streams -> {"none", "open", "closed"}]]
    BY DEF TypeOK
  <1>2. taken \in [Ends -> [Streams -> Nat]] /\ taken[e][s] \in Nat
    BY Counted
  <1>3. CASE ReadChunk(d, t)
    BY <1>1, <1>2, <1>3 DEF ReadChunk, Step, SentOf, appVars, linkVars
  <1>4. CASE ReadFails(d, t)
    BY <1>1, <1>2, <1>4 DEF ReadFails, Step, SentOf, appVars, linkVars
  <1>5. CASE SendChunk(d, t)
    BY <1>1, <1>2, <1>5 DEF SendChunk, Step, SentOf, appVars
  <1>6. CASE LoopRemoves(d, t)
    BY <1>1, <1>2, <1>6 DEF LoopRemoves, Step, SentOf, appVars, linkVars
  <1>7. CASE LoopLeaves(d, t)
    BY <1>1, <1>2, <1>7 DEF LoopLeaves, Step, SentOf, appVars
  <1>8. CASE LoopCloses(d, t)
    BY <1>1, <1>2, <1>8 DEF LoopCloses, Step, SentOf, appVars, linkVars
  <1> QED BY <1>3, <1>4, <1>5, <1>6, <1>7, <1>8 DEF ConnReadLoop

LEMMA Monotone ==
    ASSUME TypeOK, StreamsAreSound, [Next]_vars, NEW e \in Ends, NEW s \in Streams
    PROVE  /\ loop[e][s] # "off" => loop'[e][s] # "off"
           /\ sock[e][s] # "none" => sock'[e][s] # "none"
           /\ sock["listener"][s] # "none" => sid'[s] = sid[s]
           /\ SentOf(e, s) <= SentOf(e, s)'
  <1>1. /\ loop \in [Ends -> [Streams -> {"off", "read", "send", "remove", "leave", "close", "done"}]]
        /\ sock \in [Ends -> [Streams -> {"none", "open", "closed"}]]
        /\ sid \in [Streams -> Sid]
    BY DEF TypeOK
  <1>2. taken \in [Ends -> [Streams -> Nat]] /\ taken[e][s] \in Nat
    BY Counted
  <1>3. ASSUME NEW d \in Ends, NEW t \in Streams, ConnReadLoop(d, t)
        PROVE  /\ loop[e][s] # "off" => loop'[e][s] # "off"
               /\ sock[e][s] # "none" => sock'[e][s] # "none"
               /\ sid'[s] = sid[s] /\ SentOf(e, s) <= SentOf(e, s)'
    BY <1>3, LoopGoesOn
  <1>4. ASSUME NEW t \in Streams, Accept(t)
        PROVE  /\ UNCHANGED <<loop, taken>>
               /\ sock[e][s] # "none" => sock'[e][s] # "none"
               /\ sock["listener"][s] # "none" => sid'[s] = sid[s]
    BY <1>1, <1>4, TwoEnds DEF Accept, Add
  <1>5. CASE Announce
    BY <1>1, <1>2, <1>5, JoiningIsOff, TwoEnds DEF Announce, Step, SentOf
  <1>6. CASE AnnounceFails
    BY <1>1, <1>2, <1>6, JoiningIsOff, TwoEnds DEF AnnounceFails, Step, SentOf
  <1>7. CASE DialTarget
    <2>1. PICK t \in Streams : t = Head(link["forwarder"]).from
      BY <1>7, Arrived, TwoEnds DEF DialTarget
    <2>2. loop["forwarder"][t] = "off"
      BY <1>7, <2>1, JoinStarts DEF DialTarget
    <2> QED BY <1>1, <1>2, <1>7, <2>1, <2>2, TwoEnds DEF DialTarget, Step, SentOf
  <1>8. CASE DialFails
    <2>1. PICK t \in Streams : t = Head(link["forwarder"]).from
      BY <1>8, Arrived, TwoEnds DEF DialFails
    <2>2. loop["forwarder"][t] = "off"
      BY <1>8, <2>1, JoinStarts DEF DialFails
    <2> QED BY <1>1, <1>2, <1>8, <2>1, <2>2, TwoEnds DEF DialFails, Step, SentOf
  <1>9. ASSUME NEW d \in Ends, HandleFrames(d)
        PROVE  /\ UNCHANGED <<loop, taken, sid>>
               /\ sock'[e][s] = sock[e][s] \/ sock'[e][s] = "closed"
    <2>1. CASE LookUp(d, "Data", "write") \/ LookUp(d, "PeerLeave", "close") \/ WriteData(d)
               \/ RemoveStream(d)
      BY <2>1 DEF LookUp, WriteData, RemoveStream, linkVars
    <2>2. CASE CloseStream(d)
      BY <1>1, <2>2 DEF CloseStream
    <2> QED BY <1>9, <2>1, <2>2 DEF HandleFrames
  <1>10. ASSUME NEW d \in Ends, NEW t \in Streams, AppCloses(d, t)
         PROVE  UNCHANGED <<loop, taken, sid, sock>>
    BY <1>10 DEF AppCloses
  <1>11. CASE SessionEnds \/ UNCHANGED vars
    BY <1>2, <1>11 DEF SessionEnds, vars, SentOf
  <1>12. UNCHANGED <<loop, taken>> => SentOf(e, s) <= SentOf(e, s)'
    BY <1>2 DEF SentOf
  <1> QED BY <1>3, <1>4, <1>5, <1>6, <1>7, <1>8, <1>9, <1>10, <1>11, <1>12 DEF Next

\* A frame of a stream stays one of that stream.
LEMMA FrameStays ==
    ASSUME TypeOK, StreamsAreSound, [Next]_vars, NEW e \in Ends, NEW f \in Frames,
           FrameIsOf(e, f)
    PROVE  FrameIsOf(e, f)'
  <1>1. f.from \in Streams /\ f.n \in Nat /\ Other(e) \in Ends
    BY FrameFields, TwoEnds
  <1>2. sock["listener"][f.from] # "none"
    <2>1. StartsInOrder(f.from)
      BY <1>1 DEF StreamsAreSound
    <2> QED BY <2>1, TwoEnds DEF FrameIsOf, StartsInOrder
  <1>3. sid'[f.from] = sid[f.from]
    BY <1>1, <1>2, Monotone, TwoEnds
  <1>4. loop'[Other(e)][f.from] # "off"
    BY <1>1, Monotone DEF FrameIsOf
  <1>5. SentOf(Other(e), f.from) <= SentOf(Other(e), f.from)'
    BY <1>1, Monotone
  <1>6. SentOf(Other(e), f.from) \in Int /\ SentOf(Other(e), f.from)' \in Int
    <2>1. taken[Other(e)][f.from] \in Nat
      BY <1>1, Counted
    <2>2. TypeOK'
      BY TypeStep
    <2>3. taken'[Other(e)][f.from] \in Nat
      BY <1>1, <2>2, SMTT(30) DEF TypeOK
    <2> QED BY <2>1, <2>3 DEF SentOf
  <1>7. f.type = "Data" => f.n \in 1..SentOf(Other(e), f.from)'
    BY <1>1, <1>5, <1>6 DEF FrameIsOf
  <1> QED BY <1>3, <1>4, <1>7 DEF FrameIsOf

-------------------------------------------------------------------------------
(* Every frame, in a queue or in the hands of a frame loop, is of its stream. *)

LEMMA KeptFrame ==
    ASSUME TypeOK, StreamsAreSound, [Next]_vars, NEW e \in Ends, NEW k \in 1..Len(link'[e]),
           NEW j \in 1..Len(link[e]), link'[e][k] = link[e][j]
    PROVE  FrameIsOf(e, link[e][k])'
  <1>1. PICK f \in Frames : f = link[e][j]
    BY QueueOfFrames DEF TypeOK
  <1>2. FrameIsOf(e, f)
    BY <1>1 DEF StreamsAreSound, LinkIsSound
  <1>3. FrameIsOf(e, f)'
    BY <1>2, FrameStays
  <1> QED BY <1>1, <1>3 DEF FrameIsOf

LEMMA SentFrames ==
    ASSUME TypeOK, StreamsAreSound, [Next]_vars, NEW d \in Ends, NEW f \in Frames,
           Sent(d, f), FrameIsOf(Other(d), f)', NEW e \in Ends
    PROVE  LinkIsSound(e)'
  <1>1. link[e] \in Seq(Frames) /\ link \in [Ends -> Seq(Frames)]
    BY DEF TypeOK
  <1>2. CASE e = Other(d) /\ up
    <2>1. link'[e] = Append(link[e], f)
      BY <1>1, <1>2 DEF Sent
    <2>2. SUFFICES ASSUME NEW k \in 1..Len(link'[e]) PROVE FrameIsOf(e, link[e][k])'
      BY DEF LinkIsSound
    <2>3. CASE k = Len(link[e]) + 1
      <3>1. link'[e][k] = f
        BY <1>1, <2>1, <2>3, QueueGrows
      <3> QED BY <1>2, <3>1 DEF FrameIsOf
    <2>4. CASE k # Len(link[e]) + 1
      <3>1. k \in 1..Len(link[e]) /\ link'[e][k] = link[e][k]
        BY <1>1, <2>1, <2>4, QueueGrows, QueueOfFrames
      <3> QED BY <3>1, KeptFrame
    <2> QED BY <2>3, <2>4
  <1>3. CASE e # Other(d) \/ ~up
    <2>1. link'[e] = link[e]
      BY <1>1, <1>3, TwoEnds DEF Sent
    <2> QED BY <2>1, KeptFrame DEF LinkIsSound
  <1> QED BY <1>2, <1>3

\* A queue from which frames were taken only.
LEMMA FewerFrames ==
    ASSUME TypeOK, StreamsAreSound, [Next]_vars, NEW e \in Ends,
           \/ link'[e] = link[e]
           \/ link[e] # <<>> /\ link'[e] = Tail(link[e])
           \/ \E m \in 0..Len(link[e]) : link'[e] = SubSeq(link[e], 1, m)
    PROVE  LinkIsSound(e)'
  <1>1. link[e] \in Seq(Frames)
    BY DEF TypeOK
  <1>2. SUFFICES ASSUME NEW k \in 1..Len(link'[e])
                 PROVE  \E j \in 1..Len(link[e]) : link'[e][k] = link[e][j]
    BY KeptFrame DEF LinkIsSound
  <1>3. CASE link'[e] = link[e]
    BY <1>3
  <1>4. CASE link[e] # <<>> /\ link'[e] = Tail(link[e])
    BY <1>1, <1>4, QueueLoses
  <1>5. ASSUME NEW m \in 0..Len(link[e]), link'[e] = SubSeq(link[e], 1, m)
        PROVE  \E j \in 1..Len(link[e]) : link'[e][k] = link[e][j]
    BY <1>1, <1>5, QueueIsCut
  <1> QED BY <1>3, <1>4, <1>5

\* What a frame loop takes from its queue, and what the end of the session loses.
LEMMA LinkTaken ==
    ASSUME TypeOK, NEW e \in Ends
    PROVE  /\ \A d \in Ends : \A type, l : LookUp(d, type, l) =>
                  /\ link'[d] = Tail(link[d]) /\ link[d] # <<>>
                  /\ d # e => link'[e] = link[e]
           /\ DialTarget =>
                  /\ link'["forwarder"] = Tail(link["forwarder"]) /\ link["forwarder"] # <<>>
                  /\ link'["listener"] = link["listener"]
           /\ SessionEnds => \E m \in 0..Len(link[e]) : link'[e] = SubSeq(link[e], 1, m)
  <1>1. link \in [Ends -> Seq(Frames)]
    BY DEF TypeOK
  <1>2. ASSUME NEW d \in Ends, NEW type, NEW l, LookUp(d, type, l)
        PROVE  /\ link'[d] = Tail(link[d]) /\ link[d] # <<>>
               /\ d # e => link'[e] = link[e]
    BY <1>1, <1>2 DEF LookUp, NextFrame, Arrives
  <1>3. ASSUME DialTarget
        PROVE  /\ link'["forwarder"] = Tail(link["forwarder"]) /\ link["forwarder"] # <<>>
               /\ link'["listener"] = link["listener"]
    BY <1>1, <1>3, TwoEnds DEF DialTarget, NextFrame, Arrives
  <1>4. ASSUME SessionEnds PROVE \E m \in 0..Len(link[e]) : link'[e] = SubSeq(link[e], 1, m)
    <2>1. PICK l \in 0..Len(link["listener"]), f \in 0..Len(link["forwarder"]) :
              link' = [d \in Ends |-> SubSeq(link[d], 1, IF d = "listener" THEN l ELSE f)]
      BY <1>4 DEF SessionEnds
    <2>2. CASE e = "listener"
      BY <2>1, <2>2
    <2>3. CASE e = "forwarder"
      BY <2>1, <2>3, TwoEnds
    <2> QED BY <2>2, <2>3, TwoEnds
  <1> QED BY <1>2, <1>3, <1>4

\* A dial that fails takes the join and answers with a PeerLeave.
LEMMA DialAnswer ==
    ASSUME TypeOK, DialFails
    PROVE  LET f == Head(link["forwarder"])
               leave == Frame("PeerLeave", f.sid, f.from, 0)
           IN  /\ leave \in Frames
               /\ link["forwarder"] # <<>> /\ link'["forwarder"] = Tail(link["forwarder"])
               /\ link'["listener"] = IF up THEN Append(link["listener"], leave)
                                            ELSE link["listener"]
  <1> DEFINE f == Head(link["forwarder"])
             leave == Frame("PeerLeave", f.sid, f.from, 0)
  <1>1. leave \in Frames /\ link["forwarder"] # <<>>
    BY Arrived, TwoEnds, FrameIsTyped DEF DialFails
  <1>2. link \in [Ends -> Seq(Frames)]
    BY DEF TypeOK
  <1>3. link' = [link EXCEPT !["forwarder"] = Tail(@),
                             !["listener"] = @ \o (IF up THEN <<leave>> ELSE <<>>)]
    BY DEF DialFails
  <1> HIDE DEF leave
  <1>4. link["listener"] \o <<leave>> = Append(link["listener"], leave)
        /\ link["listener"] \o <<>> = link["listener"]
    BY <1>1, <1>2, TwoEnds
  <1>5. /\ link'["forwarder"] = Tail(link["forwarder"])
        /\ link'["listener"] = link["listener"] \o (IF up THEN <<leave>> ELSE <<>>)
    BY <1>2, <1>3, TwoEnds
  <1> QED BY <1>1, <1>4, <1>5 DEF leave

LEMMA LinkStep ==
    ASSUME TypeOK, StreamsAreSound, [Next]_vars, NEW e \in Ends
    PROVE  LinkIsSound(e)'
  <1>1. CASE Announce
    <2>1. joining \in Streams /\ sid[joining] \in Sid
      BY <1>1, JoiningIsOff DEF Announce, TypeOK
    <2>2. PICK f \in Frames :
              /\ f = Frame("PeerJoin", sid[joining], joining, 0)
              /\ f.type = "PeerJoin" /\ f.sid = sid[joining] /\ f.from = joining
      BY <2>1, FrameIsTyped
    <2>3. Sent("listener", f) /\ sid' = sid /\ loop'["listener"][joining] = "read"
      <3>1. Sent("listener", f)
        BY <1>1, <2>2, Zenon DEF Announce
      <3> QED BY <1>1, <2>1, <3>1, TwoEnds DEF Announce, Step, TypeOK
    <2>4. FrameIsOf("forwarder", f)'
      BY <2>2, <2>3, TwoEnds DEF FrameIsOf
    <2> QED BY <2>2, <2>3, <2>4, SentFrames, TwoEnds
  <1>2. ASSUME NEW d \in Ends, NEW s \in Streams, SendChunk(d, s)
        PROVE  LinkIsSound(e)'
    <2>1. sid[s] \in Sid /\ taken[d][s] \in Nat
      BY Counted DEF TypeOK
    <2>2. PICK f \in Frames :
              /\ f = Frame("Data", sid[s], s, taken[d][s])
              /\ f.type = "Data" /\ f.sid = sid[s] /\ f.from = s /\ f.n = taken[d][s]
      BY <2>1, FrameIsTyped
    <2>3. /\ Sent(d, f) /\ sid' = sid /\ taken' = taken
          /\ loop[d][s] = "send" /\ loop'[d][s] \in {"read", "remove"}
      <3>1. Sent(d, f)
        BY <1>2, <2>2, Zenon DEF SendChunk
      <3> QED BY <1>2, <3>1 DEF SendChunk, Step, TypeOK
    <2>4. taken[d][s] > 0
      BY <2>3 DEF StreamsAreSound, StartsInOrder
    <2>5. FrameIsOf(Other(d), f)'
      BY <2>1, <2>2, <2>3, <2>4, TwoEnds DEF FrameIsOf, SentOf
    <2> QED BY <2>2, <2>3, <2>5, SentFrames
  <1>3. ASSUME NEW d \in Ends, NEW s \in Streams, LoopLeaves(d, s)
        PROVE  LinkIsSound(e)'
    <2>1. sid[s] \in Sid
      BY DEF TypeOK
    <2>2. PICK f \in Frames :
              /\ f = Frame("PeerLeave", sid[s], s, 0)
              /\ f.type = "PeerLeave" /\ f.sid = sid[s] /\ f.from = s
      BY <2>1, FrameIsTyped
    <2>3. Sent(d, f) /\ sid' = sid /\ loop'[d][s] = "close"
      <3>1. Sent(d, f)
        BY <1>3, <2>2, Zenon DEF LoopLeaves
      <3> QED BY <1>3, <3>1 DEF LoopLeaves, Step, TypeOK
    <2>4. FrameIsOf(Other(d), f)'
      BY <2>2, <2>3, TwoEnds DEF FrameIsOf
    <2> QED BY <2>2, <2>3, <2>4, SentFrames
  <1>4. CASE DialFails
    <2>1. CASE e = "forwarder" \/ ~up
      BY <1>4, <2>1, DialAnswer, FewerFrames, TwoEnds
    <2>2. CASE e = "listener" /\ up
      <3>1. PICK s \in Streams :
                /\ s = Head(link["forwarder"]).from /\ Head(link["forwarder"]).sid = sid[s]
                /\ Head(link["forwarder"]).sid \in Sid
        BY <1>4, JoinStarts, Arrived, TwoEnds DEF DialFails
      <3>2. PICK f \in Frames :
                /\ f = Frame("PeerLeave", sid[s], s, 0)
                /\ f.type = "PeerLeave" /\ f.sid = sid[s] /\ f.from = s
        BY <3>1, FrameIsTyped
      <3>3. sid' = sid /\ loop'["forwarder"][s] = "done"
        BY <1>4, <3>1, TwoEnds DEF DialFails, Step, TypeOK
      <3>4. link'[e] = Append(link[e], f) /\ link[e] \in Seq(Frames)
        BY <1>4, <2>2, <3>1, <3>2, DialAnswer DEF TypeOK
      <3>5. SUFFICES ASSUME NEW k \in 1..Len(link'[e]) PROVE FrameIsOf(e, link[e][k])'
        BY DEF LinkIsSound
      <3>6. CASE k = Len(link[e]) + 1
        <4>1. link'[e][k] = f
          BY <3>2, <3>4, <3>6, QueueGrows
        <4> QED BY <2>2, <3>2, <3>3, <4>1, TwoEnds DEF FrameIsOf
      <3>7. CASE k # Len(link[e]) + 1
        <4>1. k \in 1..Len(link[e]) /\ link'[e][k] = link[e][k]
          BY <3>2, <3>4, <3>7, QueueGrows, QueueOfFrames
        <4> QED BY <4>1, KeptFrame
      <3> QED BY <3>6, <3>7
    <2> QED BY <2>1, <2>2, TwoEnds
  <1>5. CASE DialTarget \/ SessionEnds
    BY <1>5, LinkTaken, FewerFrames, TwoEnds
  <1>6. ASSUME NEW d \in Ends, HandleFrames(d) PROVE LinkIsSound(e)'
    <2>1. CASE LookUp(d, "Data", "write") \/ LookUp(d, "PeerLeave", "close")
      BY <2>1, LinkTaken, FewerFrames
    <2>2. CASE WriteData(d) \/ CloseStream(d) \/ RemoveStream(d)
      <3>1. link' = link
        BY <2>2 DEF WriteData, CloseStream, RemoveStream, linkVars
      <3> QED BY <3>1, FewerFrames
    <2> QED BY <1>6, <2>1, <2>2 DEF HandleFrames
  <1>7. ASSUME NEW d \in Ends, NEW s \in Streams, ConnReadLoop(d, s) PROVE LinkIsSound(e)'
    <2>1. CASE ReadChunk(d, s) \/ ReadFails(d, s) \/ LoopRemoves(d, s) \/ LoopCloses(d, s)
      <3>1. link' = link
        BY <2>1 DEF ReadChunk, ReadFails, LoopRemoves, LoopCloses, linkVars
      <3> QED BY <3>1, FewerFrames
    <2> QED BY <1>2, <1>3, <1>7, <2>1 DEF ConnReadLoop
  <1>8. ASSUME \/ \E s \in Streams : Accept(s)
               \/ AnnounceFails
               \/ \E d \in Ends, s \in Streams : AppCloses(d, s)
               \/ UNCHANGED vars
        PROVE  LinkIsSound(e)'
    <2>1. link' = link
      BY <1>8 DEF Accept, AnnounceFails, AppCloses, vars, linkVars
    <2> QED BY <2>1, FewerFrames
  <1> QED BY <1>1, <1>4, <1>5, <1>6, <1>7, <1>8 DEF Next

\* A connection in a map has been accepted, and dialled if it is the forwarder's.
LEMMA EntryFacts ==
    ASSUME TypeOK, StreamsAreSound, NEW e \in Ends, NEW i \in Sid, NEW s \in Streams,
           conns[e][i] = s
    PROVE  /\ sid[s] = i
           /\ loop[e][s] \in {"read", "send", "remove"} \/ joining = s
           /\ sock["listener"][s] # "none"
           /\ e = "forwarder" => loop["forwarder"][s] # "off"
           /\ joining = s => e = "listener"
  <1>1. /\ sid[s] = i
        /\ loop[e][s] \in {"read", "send", "remove"} \/ joining = s
    BY DEF StreamsAreSound, EntriesAreLive
  <1>2. StartsInOrder(s)
    BY DEF StreamsAreSound
  <1>3. e = "forwarder" => loop["forwarder"][s] # "off"
    BY <1>2 DEF StartsInOrder
  <1>4. sock["listener"][s] # "none"
    BY <1>1, <1>2, <1>3, TwoEnds DEF StartsInOrder
  <1>5. joining = s => e = "listener"
    BY <1>2, <1>3, TwoEnds DEF StartsInOrder
  <1> QED BY <1>1, <1>3, <1>4, <1>5

\* What is in hand stays sound until it is put down.
LEMMA KeptHand ==
    ASSUME TypeOK, StreamsAreSound, [Next]_vars, NEW e \in Ends,
           \/ hand'[e] = hand[e] \/ hand'[e] = Idle
           \/ /\ hand[e].at # "recv" /\ hand'[e].at # "write"
              /\ hand'[e].frame = hand[e].frame /\ hand'[e].conn = hand[e].conn
    PROVE  HandIsSound(e)'
  <1>1. CASE hand'[e] = Idle
    BY <1>1 DEF HandIsSound
  <1>2. CASE hand'[e] # Idle
    <2>1. /\ hand[e] # Idle /\ hand'[e].frame = hand[e].frame /\ hand'[e].conn = hand[e].conn
          /\ hand'[e].at = "write" => hand[e].at = "write"
      BY <1>2 DEF Idle
    <2>2. hand[e].at # "recv"
      BY <2>1, HandIsIdle
    <2>3. PICK f \in Frames, s \in Streams : f = hand[e].frame /\ s = hand[e].conn
      BY <2>2, HandFields
    <2>4. /\ FrameIsOf(e, f) /\ sid[s] = f.sid
          /\ hand[e].at = "write" => f.type = "Data"
          /\ sock["listener"][s] # "none"
          /\ e = "forwarder" => loop[e][s] # "off"
      BY <2>1, <2>3 DEF StreamsAreSound, HandIsSound
    <2>5. FrameIsOf(e, f)'
      BY <2>4, FrameStays
    <2>6. /\ sid'[s] = sid[s] /\ sock'["listener"][s] # "none"
          /\ e = "forwarder" => loop'[e][s] # "off"
      BY <2>4, Monotone, TwoEnds
    <2> QED BY <2>1, <2>3, <2>4, <2>5, <2>6 DEF HandIsSound, FrameIsOf
  <1> QED BY <1>1, <1>2

LEMMA LookUpHand ==
    ASSUME TypeOK, NEW d \in Ends, NEW type, NEW l, LookUp(d, type, l), NEW e \in Ends
    PROVE  LET f == Head(link[d]) IN
           IF d = e /\ Get(d, f.sid) # NoStream
           THEN hand'[e] = [at |-> l, frame |-> f, conn |-> Get(d, f.sid)]
           ELSE hand'[e] = hand[e]
  <1>1. hand \in [Ends -> Hands]
    BY DEF TypeOK
  <1> QED BY <1>1 DEF LookUp, Hold

LEMMA HandStep ==
    ASSUME TypeOK, StreamsAreSound, [Next]_vars, NEW e \in Ends
    PROVE  HandIsSound(e)'
  <1>1. hand \in [Ends -> Hands]
    BY DEF TypeOK
  <1>2. ASSUME NEW d \in Ends, NEW type, NEW l \in {"write", "close"}, LookUp(d, type, l),
               l = "write" => type = "Data"
        PROVE  HandIsSound(e)'
    <2> DEFINE h == Head(link[d])
    <2>1. CASE d = e /\ Get(d, h.sid) # NoStream
      <3>1. PICK f \in Frames, s \in Streams : f = h /\ s = Get(d, h.sid)
        <4>1. h \in Frames /\ h.sid \in Sid
          BY <1>2, Arrived DEF LookUp
        <4>2. Get(d, h.sid) \in Streams
          BY <2>1, <4>1 DEF Get, TypeOK
        <4> QED BY <4>1, <4>2
      <3>2. f.type = type /\ f = link[d][1] /\ 1 \in 1..Len(link[d]) /\ f.sid \in Sid
        BY <1>2, <3>1, Arrived DEF LookUp
      <3>3. FrameIsOf(e, f)
        BY <2>1, <3>2 DEF StreamsAreSound, LinkIsSound
      <3>4. FrameIsOf(e, f)'
        BY <3>3, FrameStays
      <3>5. /\ sid[s] = f.sid /\ sock["listener"][s] # "none"
            /\ e = "forwarder" => loop["forwarder"][s] # "off"
        BY <2>1, <3>1, <3>2, EntryFacts DEF Get
      <3>6. /\ sid'[s] = f.sid /\ sock'["listener"][s] # "none"
            /\ e = "forwarder" => loop'["forwarder"][s] # "off"
        BY <3>5, Monotone, TwoEnds
      <3>7. hand'[e] = [at |-> l, frame |-> f, conn |-> s]
        BY <1>2, <2>1, <3>1, LookUpHand
      <3>8. hand'[e].at = l /\ hand'[e].frame = f /\ hand'[e].conn = s
        BY <3>7
      <3> QED BY <1>2, <3>2, <3>4, <3>6, <3>8 DEF HandIsSound, FrameIsOf
    <2>2. CASE ~(d = e /\ Get(d, h.sid) # NoStream)
      BY <1>2, <2>2, LookUpHand, KeptHand
    <2> QED BY <2>1, <2>2
  <1>3. ASSUME NEW d \in Ends, HandleFrames(d) PROVE HandIsSound(e)'
    <2>1. CASE LookUp(d, "Data", "write") \/ LookUp(d, "PeerLeave", "close")
      BY <1>2, <2>1
    <2>2. CASE WriteData(d) \/ RemoveStream(d)
      <3>1. hand' = [hand EXCEPT ![d] = Idle]
        BY <2>2 DEF WriteData, RemoveStream
      <3>2. hand'[e] = hand[e] \/ hand'[e] = Idle
        BY <1>1, <3>1
      <3> QED BY <3>2, KeptHand
    <2>3. CASE CloseStream(d)
      <3>1. CASE d = e
        <4>1. /\ hand[e].at # "recv" /\ hand[e] = [at |-> hand[e].at, frame |-> hand[e].frame,
                                                   conn |-> hand[e].conn]
          BY <2>3, <3>1, HandFields DEF CloseStream
        <4>2. hand'[e] = [hand[e] EXCEPT !.at = "remove"]
          BY <1>1, <2>3, <3>1 DEF CloseStream
        <4>3. /\ hand'[e].at # "write" /\ hand'[e].frame = hand[e].frame
              /\ hand'[e].conn = hand[e].conn
          BY <4>1, <4>2
        <4> QED BY <4>1, <4>3, KeptHand
      <3>2. CASE d # e
        <4>1. hand'[e] = hand[e]
          BY <1>1, <2>3, <3>2 DEF CloseStream
        <4> QED BY <4>1, KeptHand
      <3> QED BY <3>1, <3>2
    <2> QED BY <1>3, <2>1, <2>2, <2>3 DEF HandleFrames
  <1>4. ASSUME \/ \E s \in Streams : Accept(s)
               \/ Announce \/ AnnounceFails \/ DialTarget \/ DialFails \/ SessionEnds
               \/ \E d \in Ends, s \in Streams : AppCloses(d, s)
               \/ UNCHANGED vars
        PROVE  HandIsSound(e)'
    <2>1. hand' = hand
      BY <1>4 DEF Accept, Announce, AnnounceFails, DialTarget, DialFails, SessionEnds,
                  AppCloses, vars
    <2> QED BY <2>1, KeptHand
  <1>5. ASSUME NEW d \in Ends, NEW s \in Streams, ConnReadLoop(d, s) PROVE HandIsSound(e)'
    <2>1. hand' = hand
      BY <1>5, LoopGoesOn
    <2> QED BY <2>1, KeptHand
  <1> QED BY <1>3, <1>4, <1>5 DEF Next

-------------------------------------------------------------------------------
(* Entries of the maps are of living connections. *)

LEMMA EntriesStep ==
    ASSUME TypeOK, StreamsAreSound, [Next]_vars
    PROVE  EntriesAreLive'
  <1> SUFFICES ASSUME NEW e \in Ends, NEW i \in Sid, NEW s \in Streams, conns'[e][i] = s
               PROVE  /\ sid'[s] = i
                      /\ loop'[e][s] \in {"read", "send", "remove"} \/ joining' = s
    BY DEF EntriesAreLive
  <1>1. /\ conns \in [Ends -> [Sid -> Streams \cup {NoStream}]]
        /\ loop \in [Ends -> [Streams -> {"off", "read", "send", "remove", "leave", "close", "done"}]]
        /\ sid \in [Streams -> Sid] /\ nextID \in Sid /\ s # NoStream
        /\ joining \in Streams \cup {NoStream}
    BY StreamsAssumption DEF TypeOK, StreamsAssumption
  <1>2. ASSUME conns[e][i] = s
        PROVE  /\ sid[s] = i /\ sock["listener"][s] # "none" /\ sid'[s] = i
               /\ loop[e][s] \in {"read", "send", "remove"} \/ joining = s
               /\ e = "forwarder" => loop["forwarder"][s] # "off"
               /\ joining = s => e = "listener" /\ loop[e][s] = "off"
    <2>1. /\ sid[s] = i /\ sock["listener"][s] # "none"
          /\ loop[e][s] \in {"read", "send", "remove"} \/ joining = s
          /\ e = "forwarder" => loop["forwarder"][s] # "off"
          /\ joining = s => e = "listener"
      BY <1>2, EntryFacts
    <2>2. sid'[s] = sid[s]
      BY <2>1, Monotone
    <2> QED BY <1>1, <2>1, <2>2, JoiningIsOff
  <1>3. ASSUME conns' = conns, loop' = loop, joining' = joining
        PROVE  /\ sid'[s] = i
               /\ loop'[e][s] \in {"read", "send", "remove"} \/ joining' = s
    BY <1>2, <1>3
  <1>4. CASE \/ SessionEnds \/ UNCHANGED vars
             \/ \E d \in Ends, t \in Streams : AppCloses(d, t)
             \/ \E d \in Ends : \/ LookUp(d, "Data", "write") \/ LookUp(d, "PeerLeave", "close")
                                \/ WriteData(d) \/ CloseStream(d)
    <2>1. conns' = conns /\ loop' = loop /\ joining' = joining
      BY <1>4 DEF SessionEnds, vars, AppCloses, LookUp, WriteData, CloseStream
    <2> QED BY <1>3, <2>1, SMTT(30)
  <1>5. ASSUME NEW d \in Ends, RemoveStream(d)
        PROVE  /\ sid'[s] = i
               /\ loop'[e][s] \in {"read", "send", "remove"} \/ joining' = s
    <2>1. hand[d].frame.sid \in Sid
      BY <1>5, HandFields, FrameFields DEF RemoveStream
    <2>2. conns[e][i] = s /\ loop' = loop /\ joining' = joining
      BY <1>1, <1>5, <2>1 DEF RemoveStream, Remove
    <2> QED BY <1>2, <2>2
  <1>6. ASSUME NEW t \in Streams, Accept(t)
        PROVE  /\ sid'[s] = i
               /\ loop'[e][s] \in {"read", "send", "remove"} \/ joining' = s
    <2>1. CASE e = "listener" /\ i = nextID
      BY <1>1, <1>6, <2>1 DEF Accept, Add
    <2>2. CASE ~(e = "listener" /\ i = nextID)
      <3>1. conns[e][i] = s
        BY <1>1, <1>6, <2>2, TwoEnds DEF Accept, Add
      <3> QED BY <1>1, <1>2, <1>6, <3>1 DEF Accept
    <2> QED BY <2>1, <2>2
  <1>7. CASE Announce
    <2>1. conns[e][i] = s
      BY <1>7 DEF Announce
    <2>2. joining \in Streams /\ loop' = [loop EXCEPT !["listener"][joining] = "read"]
      BY <1>1, <1>7 DEF Announce, Step
    <2> QED BY <1>1, <1>2, <2>1, <2>2, TwoEnds
  <1>8. CASE AnnounceFails
    <2>1. /\ joining \in Streams /\ sid[joining] \in Sid
          /\ conns' = [conns EXCEPT !["listener"][sid[joining]] = NoStream]
          /\ loop' = [loop EXCEPT !["listener"][joining] = "done"]
      BY <1>1, <1>8 DEF AnnounceFails, Remove, Step
    <2>2. conns[e][i] = s /\ ~(e = "listener" /\ i = sid[joining])
      BY <1>1, <2>1, TwoEnds
    <2>3. joining # s
      BY <1>2, <2>2
    <2> QED BY <1>1, <1>2, <2>1, <2>2, <2>3, TwoEnds
  <1>9. ASSUME NEW d \in Ends, NEW t \in Streams, ConnReadLoop(d, t)
        PROVE  /\ sid'[s] = i
               /\ loop'[e][s] \in {"read", "send", "remove"} \/ joining' = s
    <2>1. joining' = joining /\ loop[d][t] # "off"
      BY <1>9, LoopGoesOn
    <2>2. CASE ReadChunk(d, t) \/ ReadFails(d, t) \/ SendChunk(d, t)
      <3>1. /\ conns[e][i] = s
            /\ \E l \in {"read", "send", "remove"} : loop' = [loop EXCEPT ![d][t] = l]
        BY <2>2 DEF ReadChunk, ReadFails, SendChunk, Step
      <3> QED BY <1>1, <1>2, <2>1, <3>1
    <2>3. CASE LoopRemoves(d, t)
      <3>1. /\ loop' = [loop EXCEPT ![d][t] = "leave"]
            /\ conns' = [conns EXCEPT ![d][sid[t]] = NoStream] /\ sid[t] \in Sid
        BY <1>1, <2>3 DEF LoopRemoves, Remove, Step
      <3>2. conns[e][i] = s /\ ~(e = d /\ i = sid[t])
        BY <1>1, <3>1
      <3> QED BY <1>1, <1>2, <2>1, <3>1, <3>2
    <2>4. CASE LoopLeaves(d, t) \/ LoopCloses(d, t)
      <3>1. /\ conns[e][i] = s /\ loop[d][t] \in {"leave", "close"}
            /\ \E l \in {"close", "done"} : loop' = [loop EXCEPT ![d][t] = l]
        BY <2>4 DEF LoopLeaves, LoopCloses, Step
      <3>2. ~(e = d /\ s = t)
        BY <1>2, <3>1
      <3> QED BY <1>1, <1>2, <2>1, <3>1, <3>2
    <2> QED BY <1>9, <2>2, <2>3, <2>4 DEF ConnReadLoop
  <1>10. CASE DialTarget
    <2>1. PICK t \in Streams : t = Head(link["forwarder"]).from
      BY <1>10, Arrived, TwoEnds DEF DialTarget
    <2>2. loop["forwarder"][t] = "off" /\ Head(link["forwarder"]).sid = sid[t]
          /\ sock["listener"][t] # "none"
      BY <1>10, <2>1, JoinStarts DEF DialTarget
    <2>3. /\ conns' = [conns EXCEPT !["forwarder"][sid[t]] = t] /\ sid[t] \in Sid
          /\ loop' = [loop EXCEPT !["forwarder"][t] = "read"] /\ UNCHANGED <<sid, joining>>
      BY <1>1, <1>10, <2>1, <2>2 DEF DialTarget, AddWithID, Step
    <2>4. CASE e = "forwarder" /\ i = sid[t]
      BY <1>1, <2>3, <2>4
    <2>5. CASE ~(e = "forwarder" /\ i = sid[t])
      <3>1. conns[e][i] = s
        BY <1>1, <2>3, <2>5, TwoEnds
      <3> QED BY <1>1, <1>2, <2>2, <2>3, <3>1, TwoEnds
    <2> QED BY <2>4, <2>5
  <1>11. CASE DialFails
    <2>1. PICK t \in Streams : t = Head(link["forwarder"]).from
      BY <1>11, Arrived, TwoEnds DEF DialFails
    <2>2. loop["forwarder"][t] = "off"
      BY <1>11, <2>1, JoinStarts DEF DialFails
    <2>3. /\ conns' = conns /\ UNCHANGED joining
          /\ loop' = [loop EXCEPT !["forwarder"][t] = "done"]
      BY <1>11, <2>1 DEF DialFails, Step
    <2> QED BY <1>1, <1>2, <2>2, <2>3, TwoEnds
  <1> QED BY <1>4, <1>5, <1>6, <1>7, <1>8, <1>9, <1>10, <1>11 DEF Next, HandleFrames

-------------------------------------------------------------------------------
(* Streams start in order. *)

LEMMA NothingGotBefore ==
    ASSUME TypeOK, StreamsAreSound, [Next]_vars, NEW e \in Ends, NEW s \in Streams,
           sock'[e][s] = "none"
    PROVE  got'[e][s] = <<>>
  <1>1. sock[e][s] = "none" /\ got[e][s] = <<>>
    BY Monotone DEF StreamsAreSound, StartsInOrder
  <1>2. ASSUME NEW d \in Ends, WriteData(d) PROVE got'[e][s] = <<>>
    BY <1>1, <1>2, Written
  <1>3. ASSUME ~ \E d \in Ends : WriteData(d) PROVE got' = got
    <2>1. CASE \E d \in Ends, t \in Streams : ConnReadLoop(d, t)
      BY <2>1, LoopGoesOn
    <2>2. CASE \E d \in Ends : HandleFrames(d)
      BY <1>3, <2>2 DEF HandleFrames, LookUp, CloseStream, RemoveStream, appVars
    <2>3. CASE \/ \E t \in Streams : Accept(t)
               \/ Announce \/ AnnounceFails \/ DialTarget \/ DialFails \/ SessionEnds
               \/ \E d \in Ends, t \in Streams : AppCloses(d, t)
               \/ UNCHANGED vars
      BY <2>3 DEF Accept, Announce, AnnounceFails, DialTarget, DialFails, SessionEnds,
                  AppCloses, vars, appVars
    <2> QED BY <2>1, <2>2, <2>3 DEF Next
  <1> QED BY <1>1, <1>2, <1>3

\* What StartsInOrder says but of what was received.
LEMMA StartsStep ==
    ASSUME TypeOK, StreamsAreSound, [Next]_vars, NEW s \in Streams
    PROVE  StartsInOrder(s)'
  <1> DEFINE Starts ==
          /\ (joining = s \/ sock["listener"][s] = "none") => loop["listener"][s] = "off"
          /\ joining = s => sock["listener"][s] # "none"
          /\ loop["listener"][s] = "off" => loop["forwarder"][s] = "off"
          /\ loop["forwarder"][s] = "off" =>
                 sock["forwarder"][s] = "none" /\ \A i \in Sid : conns["forwarder"][i] # s
          /\ \A e \in Ends : /\ loop[e][s] = "off" => taken[e][s] = 0
                             /\ loop[e][s] = "send" => taken[e][s] > 0
  <1>1. SUFFICES Starts'
    BY NothingGotBefore DEF StartsInOrder
  <1>2. /\ conns \in [Ends -> [Sid -> Streams \cup {NoStream}]]
        /\ loop \in [Ends -> [Streams -> {"off", "read", "send", "remove", "leave", "close", "done"}]]
        /\ sock \in [Ends -> [Streams -> {"none", "open", "closed"}]]
        /\ nextID \in Sid /\ s # NoStream /\ joining \in Streams \cup {NoStream}
    BY StreamsAssumption DEF TypeOK, StreamsAssumption
  <1>3. /\ taken \in [Ends -> [Streams -> Nat]]
        /\ \A e \in Ends, t \in Streams : taken[e][t] \in Nat
    <2>1. taken \in [Ends -> [Streams -> Nat]]
      BY Zenon DEF TypeOK
    <2> QED BY <2>1
  <1>4. Starts
    BY DEF StreamsAreSound, StartsInOrder
  <1>6. CASE \/ SessionEnds \/ UNCHANGED vars
             \/ \E d \in Ends, t \in Streams : AppCloses(d, t)
             \/ \E d \in Ends : \/ LookUp(d, "Data", "write") \/ LookUp(d, "PeerLeave", "close")
                                \/ WriteData(d)
    <2>1. UNCHANGED <<joining, loop, taken, sock, conns>>
      BY <1>6 DEF SessionEnds, vars, AppCloses, LookUp, WriteData
    <2> QED BY <1>4, <2>1
  <1>7. ASSUME NEW d \in Ends, CloseStream(d) PROVE Starts'
    <2>1. PICK t \in Streams : t = hand[d].conn
      BY <1>7, HandFields DEF CloseStream
    <2>2. /\ sock["listener"][t] # "none"
          /\ d = "forwarder" => loop["forwarder"][t] # "off"
      <3>1. hand[d] # Idle
        BY <1>7, HandFields DEF CloseStream
      <3> QED BY <2>1, <3>1 DEF StreamsAreSound, HandIsSound
    <2>3. /\ UNCHANGED <<joining, loop, taken, conns>>
          /\ sock' = [sock EXCEPT ![d][t] = "closed"]
      BY <1>7, <2>1 DEF CloseStream
    <2> QED BY <1>2, <1>4, <2>2, <2>3, TwoEnds
  <1>8. ASSUME NEW d \in Ends, RemoveStream(d) PROVE Starts'
    <2>1. hand[d].frame.sid \in Sid
      BY <1>8, HandFields, FrameFields DEF RemoveStream
    <2>2. /\ UNCHANGED <<joining, loop, taken, sock>>
          /\ conns' = [conns EXCEPT ![d][hand[d].frame.sid] = NoStream]
      BY <1>8 DEF RemoveStream, Remove
    <2>3. \A i \in Sid : conns'["forwarder"][i] = s => conns["forwarder"][i] = s
      BY <1>2, <2>1, <2>2, TwoEnds
    <2> QED BY <1>4, <2>2, <2>3
  <1>9. ASSUME NEW t \in Streams, Accept(t) PROVE Starts'
    <2>1. /\ joining' = t /\ UNCHANGED <<loop, taken>> /\ sock["listener"][t] = "none"
          /\ sock' = [sock EXCEPT !["listener"][t] = "open"]
          /\ conns' = [conns EXCEPT !["listener"][nextID] = t]
      BY <1>9 DEF Accept, Add, appVars
    <2> QED BY <1>2, <1>4, <2>1, TwoEnds
  <1>10. CASE Announce
    <2>1. /\ joining' = NoStream /\ UNCHANGED <<sock, conns, taken>> /\ joining \in Streams
          /\ loop' = [loop EXCEPT !["listener"][joining] = "read"]
      BY <1>2, <1>10 DEF Announce, Step
    <2> QED BY <1>2, <1>4, <2>1, JoiningIsOff, TwoEnds
  <1>11. CASE AnnounceFails
    <2>1. /\ joining' = NoStream /\ UNCHANGED taken /\ joining \in Streams
          /\ loop' = [loop EXCEPT !["listener"][joining] = "done"]
          /\ sock' = [sock EXCEPT !["listener"][joining] = "closed"]
          /\ \A i \in Sid : conns'["forwarder"][i] = conns["forwarder"][i]
      BY <1>2, <1>11, TwoEnds DEF AnnounceFails, Remove, Step
    <2> QED BY <1>2, <1>4, <2>1, JoiningIsOff, TwoEnds
  <1>12. ASSUME NEW d \in Ends, NEW t \in Streams, ConnReadLoop(d, t) PROVE Starts'
    <2>1. joining' = joining /\ loop[d][t] # "off" /\ loop'[d][t] # "off"
      BY <1>12, LoopGoesOn
    <2>2. CASE ReadChunk(d, t)
      <3>1. /\ UNCHANGED <<sock, conns>> /\ taken' = [taken EXCEPT ![d][t] = taken[d][t] + 1]
            /\ loop' = [loop EXCEPT ![d][t] = "send"]
        BY <2>2, Zenon DEF ReadChunk, Step
      <3> QED BY <1>2, <1>3, <1>4, <2>1, <3>1, TwoEnds
    <2>3. CASE ReadFails(d, t) \/ SendChunk(d, t) \/ LoopLeaves(d, t)
      <3>1. /\ UNCHANGED <<sock, conns, taken>>
            /\ \E l \in {"read", "remove", "close"} : loop' = [loop EXCEPT ![d][t] = l]
        BY <2>3 DEF ReadFails, SendChunk, LoopLeaves, Step
      <3> QED BY <1>2, <1>4, <2>1, <3>1, TwoEnds
    <2>4. CASE LoopRemoves(d, t)
      <3>1. /\ UNCHANGED <<sock, taken>>
            /\ loop' = [loop EXCEPT ![d][t] = "leave"]
            /\ conns' = [conns EXCEPT ![d][sid[t]] = NoStream]
        BY <2>4 DEF LoopRemoves, Remove, Step
      <3>2. sid[t] \in Sid
        BY DEF TypeOK
      <3>3. \A i \in Sid : conns'["forwarder"][i] = s => conns["forwarder"][i] = s
        BY <1>2, <3>1, <3>2, TwoEnds
      <3> QED BY <1>2, <1>4, <2>1, <3>1, <3>3, TwoEnds
    <2>5. CASE LoopCloses(d, t)
      <3>1. /\ UNCHANGED <<conns, taken>>
            /\ loop' = [loop EXCEPT ![d][t] = "done"]
            /\ sock' = [sock EXCEPT ![d][t] = "closed"]
        BY <2>5 DEF LoopCloses, Step
      <3> QED BY <1>2, <1>4, <2>1, <3>1, TwoEnds
    <2> QED BY <1>12, <2>2, <2>3, <2>4, <2>5 DEF ConnReadLoop
  <1>13. CASE DialTarget \/ DialFails
    <2>1. PICK t \in Streams : t = Head(link["forwarder"]).from
      BY <1>13, Arrived, TwoEnds DEF DialTarget, DialFails
    <2>2. /\ loop["forwarder"][t] = "off" /\ loop["listener"][t] # "off"
          /\ Head(link["forwarder"]).sid \in Sid
          /\ UNCHANGED <<joining, taken>>
          /\ \E l \in {"read", "done"} : loop' = [loop EXCEPT !["forwarder"][t] = l]
      BY <1>13, <2>1, JoinStarts, Arrived, TwoEnds DEF DialTarget, DialFails, Step
    <2>3. CASE DialTarget
      <3>1. /\ sock' = [sock EXCEPT !["forwarder"][t] = "open"]
            /\ conns' = [conns EXCEPT !["forwarder"][Head(link["forwarder"]).sid] = t]
        BY <2>1, <2>3 DEF DialTarget, AddWithID
      <3> QED BY <1>2, <1>4, <2>2, <3>1, TwoEnds
    <2>4. CASE DialFails
      <3>1. UNCHANGED <<sock, conns>>
        BY <2>4 DEF DialFails
      <3> QED BY <1>2, <1>4, <2>2, <3>1, TwoEnds
    <2> QED BY <1>13, <2>3, <2>4
  <1> QED BY <1>6, <1>7, <1>8, <1>9, <1>10, <1>11, <1>12, <1>13 DEF Next, HandleFrames

-------------------------------------------------------------------------------
(* The join of a stream goes first, and once. *)

\* The forwarder's queue only loses frames other than the join, or gains none.
LEMMA JoinsStay ==
    ASSUME TypeOK, StreamsAreSound, NEW s \in Streams,
           loop'["forwarder"][s] = loop["forwarder"][s],
           \/ link'["forwarder"] = link["forwarder"]
           \/ link["forwarder"] # <<>> /\ link'["forwarder"] = Tail(link["forwarder"])
           \/ \E m \in 0..Len(link["forwarder"]) :
                  link'["forwarder"] = SubSeq(link["forwarder"], 1, m)
           \/ \E f \in Frames : /\ link'["forwarder"] = Append(link["forwarder"], f)
                                /\ f.type = "PeerJoin" => f.from # s
    PROVE  JoinComesFirst(s)'
  <1>1. PICK q \in Seq(Frames) : q = link["forwarder"]
    BY TwoEnds DEF TypeOK
  <1>2. JoinComesFirst(s)
    BY DEF StreamsAreSound
  <1>3. CASE link'["forwarder"] = q
    BY <1>1, <1>2, <1>3 DEF JoinComesFirst, Joins, Queued
  <1>4. CASE q # <<>> /\ link'["forwarder"] = Tail(q)
    <2>1. /\ Len(Tail(q)) = Len(q) - 1 /\ Len(q) \in Nat
          /\ \A k \in 1..Len(Tail(q)) : k + 1 \in 1..Len(q) /\ Tail(q)[k] = q[k + 1]
      BY <1>4, QueueLoses, QueueOfFrames
    <2>2. /\ \A j \in Joins(s)' : j \in Nat /\ j + 1 \in Joins(s)
          /\ \A k \in Queued("forwarder", s)' : k \in Nat /\ k + 1 \in Queued("forwarder", s)
      BY <1>1, <1>4, <2>1 DEF Joins, Queued
    <2> QED BY <1>2, <2>2 DEF JoinComesFirst
  <1>5. ASSUME NEW m \in 0..Len(q), link'["forwarder"] = SubSeq(q, 1, m)
        PROVE  JoinComesFirst(s)'
    <2>1. /\ Len(SubSeq(q, 1, m)) = m
          /\ \A k \in 1..m : SubSeq(q, 1, m)[k] = q[k] /\ k \in 1..Len(q)
      BY QueueIsCut
    <2>2. /\ \A j \in Joins(s)' : j \in Joins(s)
          /\ \A k \in Queued("forwarder", s)' : k \in Queued("forwarder", s)
      BY <1>1, <1>5, <2>1 DEF Joins, Queued
    <2> QED BY <1>2, <2>2 DEF JoinComesFirst
  <1>6. ASSUME NEW f \in Frames, link'["forwarder"] = Append(q, f),
               f.type = "PeerJoin" => f.from # s
        PROVE  JoinComesFirst(s)'
    <2>1. /\ Len(Append(q, f)) = Len(q) + 1 /\ Len(q) \in Nat
          /\ \A k \in 1..Len(q) : Append(q, f)[k] = q[k]
          /\ Append(q, f)[Len(q) + 1] = f
      BY QueueGrows, QueueOfFrames
    <2>2. /\ \A j \in Joins(s)' : j \in Joins(s)
          /\ \A k \in Queued("forwarder", s)' : k \in Queued("forwarder", s) \/ k = Len(q) + 1
          /\ \A j \in Joins(s) : j < Len(q) + 1
      BY <1>1, <1>6, <2>1 DEF Joins, Queued
    <2> QED BY <1>2, <2>2 DEF JoinComesFirst
  <1> QED BY <1>1, <1>3, <1>4, <1>5, <1>6

LEMMA JoinFirstStep ==
    ASSUME TypeOK, StreamsAreSound, [Next]_vars, NEW s \in Streams
    PROVE  JoinComesFirst(s)'
  <1>1. /\ loop \in [Ends -> [Streams -> {"off", "read", "send", "remove", "leave", "close", "done"}]]
        /\ link \in [Ends -> Seq(Frames)]
    BY DEF TypeOK
  <1>2. JoinComesFirst(s)
    BY DEF StreamsAreSound
  <1>3. ASSUME NEW t \in Streams, t = Head(link["forwarder"]).from, DialTarget \/ DialFails
        PROVE  JoinComesFirst(s)'
    <2>1. /\ link["forwarder"] # <<>> /\ link'["forwarder"] = Tail(link["forwarder"])
          /\ \E l \in {"read", "done"} : loop' = [loop EXCEPT !["forwarder"][t] = l]
      BY <1>3, DialAnswer, LinkTaken, TwoEnds DEF DialTarget, DialFails, Step
    <2>2. CASE s # t
      <3>1. loop'["forwarder"][s] = loop["forwarder"][s]
        BY <1>1, <2>1, <2>2, TwoEnds
      <3> QED BY <2>1, <3>1, JoinsStay
    <2>3. CASE s = t
      <3>1. 1 \in Joins(s)
        BY <1>3, <2>3, JoinStarts DEF DialTarget, DialFails
      <3>2. PICK q \in Seq(Frames) : q = link["forwarder"]
        BY <1>1, TwoEnds
      <3>3. /\ Len(Tail(q)) = Len(q) - 1 /\ Len(q) \in Nat
            /\ \A k \in 1..Len(Tail(q)) : k + 1 \in 1..Len(q) /\ Tail(q)[k] = q[k + 1]
        BY <2>1, <3>2, QueueLoses, QueueOfFrames
      <3>4. \A j \in Joins(s)' : j \in Nat /\ j + 1 \in Joins(s) /\ j + 1 # 1
        BY <2>1, <3>2, <3>3 DEF Joins
      <3>5. Joins(s)' = {}
        BY <1>2, <3>1, <3>4 DEF JoinComesFirst
      <3> QED BY <3>5 DEF JoinComesFirst
    <2> QED BY <2>2, <2>3, SMTT(30)
  <1>4. CASE Announce
    <2>1. PICK f \in Frames : /\ f = Frame("PeerJoin", sid[joining], joining, 0)
                              /\ f.type = "PeerJoin" /\ f.from = joining
      <3>1. joining \in Streams /\ sid[joining] \in Sid
        BY <1>4, JoiningIsOff DEF Announce, TypeOK
      <3> QED BY <3>1, FrameIsTyped
    <2>2. Sent("listener", f) /\ up
      BY <1>4, <2>1, Zenon DEF Announce
    <2>3. link'["forwarder"] = Append(link["forwarder"], f)
      BY <1>1, <2>2, TwoEnds DEF Sent
    <2>4. loop'["forwarder"][s] = loop["forwarder"][s]
      BY <1>1, <1>4, TwoEnds DEF Announce, Step
    <2>5. CASE s # joining
      BY <2>1, <2>3, <2>4, <2>5, JoinsStay
    <2>6. CASE s = joining
      <3>1. loop["listener"][s] = "off" /\ loop["forwarder"][s] = "off"
        BY <1>4, <2>6, JoiningIsOff DEF Announce
      <3>2. PICK q \in Seq(Frames) : q = link["forwarder"]
        BY <1>1, TwoEnds
      <3>3. ASSUME NEW k \in 1..Len(q) PROVE q[k].from # s
        <4>1. FrameIsOf("forwarder", q[k])
          BY <3>2, TwoEnds DEF StreamsAreSound, LinkIsSound
        <4> QED BY <3>1, <4>1, TwoEnds DEF FrameIsOf
      <3>4. /\ Len(Append(q, f)) = Len(q) + 1 /\ Len(q) \in Nat
            /\ \A k \in 1..Len(q) : Append(q, f)[k] = q[k]
            /\ Append(q, f)[Len(q) + 1] = f
        BY QueueGrows, QueueOfFrames
      <3>5. /\ \A j \in Joins(s)' : j = Len(q) + 1
            /\ Queued("forwarder", s)' = {}
        BY <2>1, <2>3, <3>2, <3>3, <3>4 DEF Joins, Queued
      <3> QED BY <2>4, <3>1, <3>5 DEF JoinComesFirst
    <2> QED BY <2>5, <2>6
  <1>5. ASSUME NEW d \in Ends, NEW t \in Streams, ConnReadLoop(d, t)
        PROVE  JoinComesFirst(s)'
    <2>1. \/ loop'["forwarder"][s] = loop["forwarder"][s]
          \/ loop["forwarder"][s] # "off" /\ loop'["forwarder"][s] # "off"
      BY <1>5, LoopGoesOn, TwoEnds
    <2>2. \/ link'["forwarder"] = link["forwarder"]
          \/ \E f \in Frames : /\ link'["forwarder"] = Append(link["forwarder"], f)
                               /\ f.type # "PeerJoin"
      <3>1. sid[t] \in Sid /\ taken[d][t] \in Nat
        BY Counted DEF TypeOK
      <3>2. CASE SendChunk(d, t)
        <4>1. PICK f \in Frames : f = Frame("Data", sid[t], t, taken[d][t]) /\ f.type = "Data"
          BY <3>1, FrameIsTyped
        <4>2. Sent(d, f)
          BY <3>2, <4>1, Zenon DEF SendChunk
        <4> QED BY <1>1, <4>1, <4>2, TwoEnds DEF Sent
      <3>3. CASE LoopLeaves(d, t)
        <4>1. PICK f \in Frames : f = Frame("PeerLeave", sid[t], t, 0) /\ f.type = "PeerLeave"
          BY <3>1, FrameIsTyped
        <4>2. Sent(d, f)
          BY <3>3, <4>1, Zenon DEF LoopLeaves
        <4> QED BY <1>1, <4>1, <4>2, TwoEnds DEF Sent
      <3>4. CASE ReadChunk(d, t) \/ ReadFails(d, t) \/ LoopRemoves(d, t) \/ LoopCloses(d, t)
        BY <3>4 DEF ReadChunk, ReadFails, LoopRemoves, LoopCloses, linkVars
      <3> QED BY <1>5, <3>2, <3>3, <3>4 DEF ConnReadLoop
    <2>3. CASE loop'["forwarder"][s] = loop["forwarder"][s]
      BY <2>2, <2>3, JoinsStay
    <2>4. CASE loop["forwarder"][s] # "off"
      <3>1. PICK q \in Seq(Frames) : q = link["forwarder"]
        BY <1>1, TwoEnds
      <3>2. Joins(s) = {}
        BY <1>2, <2>4 DEF JoinComesFirst
      <3>3. Joins(s)' = {}
        <4>1. CASE link'["forwarder"] = q
          BY <3>1, <3>2, <4>1 DEF Joins
        <4>2. ASSUME NEW f \in Frames, link'["forwarder"] = Append(q, f), f.type # "PeerJoin"
              PROVE  Joins(s)' = {}
          <5>1. /\ Len(Append(q, f)) = Len(q) + 1 /\ Len(q) \in Nat
                /\ \A k \in 1..Len(q) : Append(q, f)[k] = q[k]
                /\ Append(q, f)[Len(q) + 1] = f
            BY QueueGrows, QueueOfFrames
          <5> QED BY <3>1, <3>2, <4>2, <5>1 DEF Joins
        <4> QED BY <2>2, <3>1, <4>1, <4>2
      <3> QED BY <3>3 DEF JoinComesFirst
    <2> QED BY <2>1, <2>3, <2>4
  <1>6. CASE AnnounceFails
    <2>1. link' = link /\ loop'["forwarder"][s] = loop["forwarder"][s]
      BY <1>1, <1>6, TwoEnds DEF AnnounceFails, Step, linkVars
    <2> QED BY <2>1, JoinsStay
  <1>7. CASE \/ \E t \in Streams : Accept(t)
             \/ SessionEnds \/ UNCHANGED vars
             \/ \E d \in Ends, t \in Streams : AppCloses(d, t)
             \/ \E d \in Ends : HandleFrames(d)
    <2>1. loop' = loop
      BY <1>7 DEF Accept, SessionEnds, vars, AppCloses, HandleFrames, LookUp, WriteData,
                  CloseStream, RemoveStream
    <2>2. CASE \/ \E t \in Streams : Accept(t)
               \/ UNCHANGED vars
               \/ \E d \in Ends, t \in Streams : AppCloses(d, t)
               \/ \E d \in Ends : WriteData(d) \/ CloseStream(d) \/ RemoveStream(d)
      <3>1. link' = link
        BY <2>2 DEF Accept, vars, AppCloses, WriteData, CloseStream, RemoveStream, linkVars
      <3> QED BY <2>1, <3>1, JoinsStay
    <2>3. CASE SessionEnds
      BY <2>1, <2>3, LinkTaken, JoinsStay, TwoEnds
    <2>4. ASSUME NEW d \in Ends, LookUp(d, "Data", "write") \/ LookUp(d, "PeerLeave", "close")
          PROVE  JoinComesFirst(s)'
      BY <2>1, <2>4, LinkTaken, JoinsStay, TwoEnds
    <2> QED BY <1>7, <2>2, <2>3, <2>4, SMTT(30) DEF HandleFrames
  <1>8. CASE DialTarget \/ DialFails
    BY <1>3, <1>8, Arrived, TwoEnds DEF DialTarget, DialFails
  <1> QED BY <1>4, <1>5, <1>6, <1>7, <1>8 DEF Next

LEMMA StreamsStep ==
    ASSUME TypeOK, StreamsAreSound, [Next]_vars
    PROVE  StreamsAreSound'
  <1>1. \A e \in Ends : LinkIsSound(e)' /\ HandIsSound(e)'
    BY LinkStep, HandStep
  <1>2. \A s \in Streams : StartsInOrder(s)' /\ JoinComesFirst(s)'
    BY StartsStep, JoinFirstStep
  <1> QED BY <1>1, <1>2, EntriesStep DEF StreamsAreSound

LEMMA StreamsInit ==
    ASSUME Init
    PROVE  StreamsAreSound
  <1>1. \A e \in Ends : link[e] = <<>> /\ hand[e] = Idle
    BY DEF Init
  <1>2. \A e \in Ends : LinkIsSound(e) /\ HandIsSound(e)
    BY <1>1 DEF LinkIsSound, HandIsSound
  <1>3. EntriesAreLive
    BY StreamsAssumption DEF Init, EntriesAreLive, StreamsAssumption
  <1>4. ASSUME NEW s \in Streams PROVE StartsInOrder(s) /\ JoinComesFirst(s)
    <2>1. /\ joining # s
          /\ \A e \in Ends : /\ loop[e][s] = "off" /\ sock[e][s] = "none"
                             /\ taken[e][s] = 0
                             /\ \A i \in Sid : conns[e][i] # s
      BY StreamsAssumption DEF Init, StreamsAssumption
    <2>2. \A e \in Ends : got[e][s] = <<>>
      BY DEF Init
    <2>3. StartsInOrder(s)
      BY <2>1, <2>2, TwoEnds DEF StartsInOrder
    <2>4. Joins(s) = {} /\ Queued("forwarder", s) = {}
      BY <1>1, TwoEnds DEF Joins, Queued
    <2> QED BY <2>3, <2>4 DEF JoinComesFirst
  <1> QED BY <1>2, <1>3, <1>4 DEF StreamsAreSound

\* In every reachable state every frame is of its stream, streams start in order and
\* the maps hold living connections: connReadLoop and the two frame loops may
\* interleave as they like.
THEOREM MultiplexerIsSound == Spec => [](TypeOK /\ StreamsAreSound)
  <1>1. Init => TypeOK /\ StreamsAreSound
    BY TypeInit, StreamsInit
  <1>2. TypeOK /\ StreamsAreSound /\ [Next]_vars => (TypeOK /\ StreamsAreSound)'
    BY TypeStep, StreamsStep
  <1> QED BY <1>1, <1>2, PTL DEF Spec

\* A StreamMap has no entry of a connection whose read loop has cleaned up.
THEOREM EntriesStayLive == Spec => []MapsAreSound
  <1>1. TypeOK /\ StreamsAreSound => MapsAreSound
    BY DEF MapsAreSound, StreamsAreSound
  <1> QED BY <1>1, MultiplexerIsSound, PTL

-------------------------------------------------------------------------------
(* While the session has not accepted more streams than there are identifiers,    *)
(* each has its own.                                                               *)

\* Only Accept starts a stream at the listener, and no stream starts again.
LEMMA AcceptedStep ==
    ASSUME TypeOK, StreamsAreSound, [Next]_vars
    PROVE  \/ \E t \in Streams : Accept(t) /\ t \notin Accepted /\ Accepted' = Accepted \cup {t}
           \/ Accepted' = Accepted /\ UNCHANGED <<nextID, sid>>
  <1>1. /\ sock \in [Ends -> [Streams -> {"none", "open", "closed"}]]
        /\ joining \in Streams \cup {NoStream}
    BY DEF TypeOK
  <1>2. Accepted \subseteq Accepted'
    <2>1. \A s \in Streams : sock["listener"][s] # "none" => sock'["listener"][s] # "none"
      BY Monotone, TwoEnds
    <2> QED BY <2>1 DEF Accepted
  <1>3. ASSUME NEW t \in Streams, Accept(t)
        PROVE  t \notin Accepted /\ Accepted' = Accepted \cup {t}
    <2>1. sock["listener"][t] = "none" /\ sock' = [sock EXCEPT !["listener"][t] = "open"]
      BY <1>3 DEF Accept
    <2> QED BY <1>1, <2>1, TwoEnds DEF Accepted
  <1>4. ASSUME ~ \E t \in Streams : Accept(t)
        PROVE  UNCHANGED <<nextID, sid>> /\ Accepted' \subseteq Accepted
    <2> DEFINE NoneStarts == \A s \in Streams :
                   sock'["listener"][s] # "none" => sock["listener"][s] # "none"
    <2> SUFFICES UNCHANGED <<nextID, sid>> /\ NoneStarts
      BY SMTT(30) DEF Accepted
    <2>1. CASE \/ Announce \/ DialFails \/ SessionEnds
               \/ \E d \in Ends, t \in Streams : AppCloses(d, t)
               \/ \E d \in Ends : \/ LookUp(d, "Data", "write") \/ LookUp(d, "PeerLeave", "close")
                                  \/ WriteData(d) \/ RemoveStream(d)
               \/ UNCHANGED vars
      BY <2>1 DEF Announce, DialFails, SessionEnds, AppCloses, LookUp, WriteData, RemoveStream,
                  vars
    <2>2. CASE AnnounceFails
      BY <1>1, <2>2, JoiningIsOff, TwoEnds DEF AnnounceFails
    <2>3. CASE DialTarget
      BY <1>1, <2>3, TwoEnds DEF DialTarget
    <2>4. ASSUME NEW d \in Ends, CloseStream(d)
          PROVE  UNCHANGED <<nextID, sid>> /\ NoneStarts
      <3>1. hand[d] # Idle /\ hand[d].conn \in Streams
        BY <2>4, HandFields DEF CloseStream
      <3>2. sock["listener"][hand[d].conn] # "none"
        BY <3>1 DEF StreamsAreSound, HandIsSound
      <3> QED BY <1>1, <2>4, <3>1, <3>2, TwoEnds DEF CloseStream
    <2>5. ASSUME NEW d \in Ends, NEW t \in Streams, ConnReadLoop(d, t)
          PROVE  UNCHANGED <<nextID, sid>> /\ NoneStarts
      <3>1. UNCHANGED <<nextID, sid>> /\ loop[d][t] # "off"
        BY <2>5, LoopGoesOn
      <3>2. CASE LoopCloses(d, t)
        <4>1. d = "listener" => sock["listener"][t] # "none"
          BY <3>1 DEF StreamsAreSound, StartsInOrder
        <4> QED BY <1>1, <3>1, <3>2, <4>1, TwoEnds DEF LoopCloses
      <3>3. CASE ~LoopCloses(d, t)
        <4>1. sock' = sock
          BY <2>5, <3>3 DEF ConnReadLoop, ReadChunk, ReadFails, SendChunk, LoopRemoves, LoopLeaves
        <4> QED BY <3>1, <4>1
      <3> QED BY <3>2, <3>3
    <2> QED BY <1>4, <2>1, <2>2, <2>3, <2>4, <2>5 DEF Next, HandleFrames
  <1> QED BY <1>2, <1>3, <1>4

LEMMA WrapsLater ==
    ASSUME TypeOK, StreamsAreSound, [Next]_vars, IsFiniteSet(Accepted)
    PROVE  /\ IsFiniteSet(Accepted)'
           /\ Cardinality(Accepted) \in Nat /\ Cardinality(Accepted)' \in Nat
           /\ \/ \E t \in Streams : /\ Accept(t) /\ t \notin Accepted
                                    /\ Accepted' = Accepted \cup {t}
                                    /\ Cardinality(Accepted)' = Cardinality(Accepted) + 1
              \/ Accepted' = Accepted /\ UNCHANGED <<nextID, sid>>
           /\ NotWrapped' => NotWrapped
  <1>1. CASE Accepted' = Accepted /\ UNCHANGED <<nextID, sid>>
    BY <1>1, FS_CardinalityType DEF NotWrapped
  <1>2. ASSUME NEW t \in Streams, Accept(t), t \notin Accepted, Accepted' = Accepted \cup {t}
        PROVE  /\ IsFiniteSet(Accepted)'
               /\ Cardinality(Accepted) \in Nat /\ Cardinality(Accepted)' \in Nat
               /\ Cardinality(Accepted)' = Cardinality(Accepted) + 1
               /\ NotWrapped' => NotWrapped
    <2>1. /\ IsFiniteSet(Accepted \cup {t}) /\ Cardinality(Accepted) \in Nat
          /\ Cardinality(Accepted \cup {t}) = Cardinality(Accepted) + 1
      BY <1>2, FS_AddElement, FS_CardinalityType
    <2>2. Sids \in Nat
      BY StreamsAssumption DEF StreamsAssumption
    <2> QED BY <1>2, <2>1, <2>2 DEF NotWrapped
  <1> QED BY <1>1, <1>2, AcceptedStep

LEMMA SidsStep ==
    ASSUME TypeOK, StreamsAreSound, [Next]_vars, IsFiniteSet(Accepted), SidsAreUnique,
           NotWrapped'
    PROVE  SidsAreUnique'
  <1> DEFINE c == Cardinality(Accepted)
  <1>1. c \in Nat /\ Sids \in Nat \ {0} /\ sid \in [Streams -> Sid]
    BY WrapsLater, StreamsAssumption DEF TypeOK, StreamsAssumption
  <1>2. CASE Accepted' = Accepted /\ UNCHANGED <<nextID, sid>>
    BY <1>2 DEF SidsAreUnique
  <1>3. ASSUME NEW t \in Streams, Accept(t), t \notin Accepted, Accepted' = Accepted \cup {t},
               Cardinality(Accepted)' = c + 1
        PROVE  SidsAreUnique'
    <2>1. c + 1 <= Sids
      BY <1>3 DEF NotWrapped
    <2>2. nextID = c
      BY <1>1, <2>1 DEF SidsAreUnique
    <2>3. nextID' = IF c + 1 = Sids THEN 0 ELSE c + 1
      <3>1. nextID' = (c + 1) % Sids
        BY <1>3, <2>2 DEF Accept, Add
      <3>2. CASE c + 1 = Sids
        <4>1. (c + 1) % Sids = 0
          BY <1>1, <3>2
        <4> QED BY <3>1, <3>2, <4>1
      <3>3. CASE c + 1 # Sids
        <4>1. (c + 1) % Sids = c + 1
          BY <1>1, <2>1, <3>3
        <4> QED BY <3>1, <3>3, <4>1
      <3> QED BY <3>2, <3>3
    <2>4. sid' = [sid EXCEPT ![t] = c]
      <3>1. sid' = [sid EXCEPT ![t] = nextID]
        BY <1>3, Zenon DEF Accept, Add
      <3> QED BY <2>2, <3>1
    <2>5. ASSUME NEW s \in Accepted
          PROVE  sid'[s] = sid[s] /\ sid[s] < c /\ sid[s] \in Nat
      <3>1. s \in Streams /\ s # t
        BY <1>3 DEF Accepted
      <3>2. sid[s] \in Sid /\ sid[s] < c
        BY <1>1, <3>1 DEF SidsAreUnique
      <3> QED BY <1>1, <2>4, <3>1, <3>2 DEF Sid
    <2>6. sid'[t] = c
      BY <1>1, <2>4
    <2>7. \A s, u \in Accepted : sid[s] = sid[u] => s = u
      BY DEF SidsAreUnique
    <2> HIDE DEF c
    <2>8. \A s \in Accepted' : sid'[s] < c + 1
      BY <1>1, <1>3, <2>5, <2>6
    <2>9. \A s, u \in Accepted' : sid'[s] = sid'[u] => s = u
      BY <1>1, <1>3, <2>5, <2>6, <2>7
    <2> QED BY <1>3, <2>3, <2>8, <2>9 DEF SidsAreUnique
  <1> QED BY <1>2, <1>3, WrapsLater

-------------------------------------------------------------------------------
(* The chunks of a stream arrive in order. *)

LEMMA DeliveryTypes ==
    ASSUME TypeOK, NEW e \in Ends, NEW s \in Streams
    PROVE  /\ Len(got[e][s]) \in Nat
           /\ SentOf(e, s) \in Int
           /\ \A k \in Queued(e, s) : /\ k \in 1..Len(link[e]) /\ link[e][k].n \in Nat
                                      /\ link[e][k].type = "Data" /\ link[e][k].from = s
           /\ InHand(e, s) => hand[e].frame.n \in Nat
  <1>1. got[e][s] \in Seq([from : Streams, n : Nat]) /\ taken[e][s] \in Nat
    BY Counted
  <1>2. \A k \in Queued(e, s) : k \in 1..Len(link[e]) /\ link[e][k].n \in Nat
                                /\ link[e][k].type = "Data" /\ link[e][k].from = s
    BY QueueOfFrames, FrameFields DEF TypeOK, Queued
  <1>3. InHand(e, s) => hand[e].frame.n \in Nat
    BY HandFields, FrameFields DEF InHand
  <1>4. Len(got[e][s]) \in Nat
    BY <1>1
  <1> QED BY <1>1, <1>2, <1>3, <1>4 DEF SentOf

\* The chunks on their way to s at end e stay, perhaps nearer to the head, and nothing
\* else that matters changes but for the worse.
LEMMA DeliveryKept ==
    ASSUME TypeOK, TypeOK', NEW e \in Ends, NEW s \in Streams, DeliversInOrder(e, s),
           NEW m \in {0, 1},
           \A k \in Queued(e, s)' : k + m \in Queued(e, s) /\ link'[e][k].n = link[e][k + m].n,
           \A k \in Queued(e, s) : k - m \in Queued(e, s)',
           got'[e][s] = got[e][s], SentOf(Other(e), s)' = SentOf(Other(e), s), up' = up,
           InHand(e, s)' <=> InHand(e, s),
           InHand(e, s) => /\ hand'[e].frame = hand[e].frame
                           /\ sock'[e][s] = "open" => sock[e][s] = "open"
                           /\ app'[e][s] = "open" => app[e][s] = "open",
           Reaches(e, s)' => Reaches(e, s)
    PROVE  DeliversInOrder(e, s)'
  <1>1. /\ Len(got[e][s]) \in Nat
        /\ SentOf(Other(e), s) \in Int
        /\ \A k \in Queued(e, s) : k \in Int /\ link[e][k].n \in Nat
        /\ \A k \in Queued(e, s)' : k \in Int
        /\ InHand(e, s) => hand[e].frame.n \in Nat
    <2>1. \A k \in Queued(e, s)' : k \in 1..Len(link'[e])
      BY DEF Queued
    <2>2. link'[e] \in Seq(Frames)
      BY DEF TypeOK
    <2> QED BY <2>1, <2>2, DeliveryTypes, TwoEnds
  <1>2. /\ Len(got'[e][s]) <= SentOf(Other(e), s)'
        /\ \A k \in 1..Len(got'[e][s]) : got'[e][s][k] = [from |-> s, n |-> k]
    BY DEF DeliversInOrder
  <1>3. \A k \in Queued(e, s)' : Len(got'[e][s]) < link'[e][k].n
    BY DEF DeliversInOrder
  <1>4. \A j, k \in Queued(e, s)' : j < k => link'[e][j].n < link'[e][k].n
    <2>1. SUFFICES ASSUME NEW j \in Queued(e, s)', NEW k \in Queued(e, s)', j < k
                   PROVE  link'[e][j].n < link'[e][k].n
      OBVIOUS
    <2>2. /\ j + m \in Queued(e, s) /\ k + m \in Queued(e, s) /\ j + m < k + m
          /\ link'[e][j].n = link[e][j + m].n /\ link'[e][k].n = link[e][k + m].n
      BY <1>1, <2>1
    <2> QED BY <2>2 DEF DeliversInOrder
  <1>5. InHand(e, s)' =>
            /\ hand'[e].frame.from = s
            /\ sock'[e][s] = "open" /\ app'[e][s] = "open" =>
                   hand'[e].frame.n = Len(got'[e][s]) + 1
            /\ \A k \in Queued(e, s)' : hand'[e].frame.n < link'[e][k].n
    BY DEF DeliversInOrder
  <1>6. ASSUME Reaches(e, s)', NEW x \in (Len(got'[e][s]) + 1)..SentOf(Other(e), s)'
        PROVE  \/ InHand(e, s)' /\ hand'[e].frame.n = x
               \/ \E k \in Queued(e, s)' : link'[e][k].n = x
               \/ ~up' /\ \A k \in Queued(e, s)' : link'[e][k].n < x
    <2>1. x \in (Len(got[e][s]) + 1)..SentOf(Other(e), s) /\ Reaches(e, s)
      BY <1>6
    <2>2. \/ InHand(e, s) /\ hand[e].frame.n = x
          \/ \E k \in Queued(e, s) : link[e][k].n = x
          \/ ~up /\ \A k \in Queued(e, s) : link[e][k].n < x
      BY <2>1 DEF DeliversInOrder
    <2>3. ASSUME NEW k \in Queued(e, s), link[e][k].n = x
          PROVE  \E j \in Queued(e, s)' : link'[e][j].n = x
      <3>1. k - m \in Queued(e, s)' /\ (k - m) + m = k
        BY <1>1
      <3> QED BY <2>3, <3>1
    <2> QED BY <2>2, <2>3
  <1> QED BY <1>2, <1>3, <1>4, <1>5, <1>6 DEF DeliversInOrder

\* The chunks on their way, when the queue stays, grows by another frame or loses one.
LEMMA QueuedStays ==
    ASSUME TypeOK, NEW e \in Ends, NEW s \in Streams,
           \/ link'[e] = link[e]
           \/ \E f \in Frames : link'[e] = Append(link[e], f) /\ ~(f.type = "Data" /\ f.from = s)
    PROVE  /\ \A k \in Queued(e, s)' : k + 0 \in Queued(e, s)
                                       /\ link'[e][k].n = link[e][k + 0].n
           /\ \A k \in Queued(e, s) : k - 0 \in Queued(e, s)'
  <1>1. PICK q \in Seq(Frames) : q = link[e]
    BY DEF TypeOK
  <1>2. Len(q) \in Nat
    OBVIOUS
  <1>3. CASE link'[e] = q
    BY <1>1, <1>2, <1>3 DEF Queued
  <1>4. ASSUME NEW f \in Frames, link'[e] = Append(q, f), ~(f.type = "Data" /\ f.from = s)
        PROVE  /\ \A k \in Queued(e, s)' : k + 0 \in Queued(e, s)
                                           /\ link'[e][k].n = link[e][k + 0].n
               /\ \A k \in Queued(e, s) : k - 0 \in Queued(e, s)'
    <2>1. /\ Len(Append(q, f)) = Len(q) + 1
          /\ \A k \in 1..Len(q) : Append(q, f)[k] = q[k]
          /\ Append(q, f)[Len(q) + 1] = f
      BY QueueGrows
    <2> QED BY <1>1, <1>2, <1>4, <2>1 DEF Queued
  <1> QED BY <1>1, <1>3, <1>4

LEMMA QueuedMoves ==
    ASSUME TypeOK, NEW e \in Ends, NEW s \in Streams,
           link[e] # <<>>, link'[e] = Tail(link[e])
    PROVE  /\ \A k \in Queued(e, s)' : k + 1 \in Queued(e, s)
                                       /\ link'[e][k].n = link[e][k + 1].n
           /\ \A k \in Queued(e, s) : k = 1 \/ k - 1 \in Queued(e, s)'
           /\ ~(link[e][1].type = "Data" /\ link[e][1].from = s) => 1 \notin Queued(e, s)
  <1>1. PICK q \in Seq(Frames) : q = link[e]
    BY DEF TypeOK
  <1>2. /\ Len(Tail(q)) = Len(q) - 1 /\ Len(q) \in Nat
        /\ \A k \in 1..Len(Tail(q)) : k + 1 \in 1..Len(q) /\ Tail(q)[k] = q[k + 1]
    BY <1>1, QueueLoses, QueueOfFrames
  <1>3. \A k \in Queued(e, s)' : k + 1 \in Queued(e, s) /\ link'[e][k].n = link[e][k + 1].n
    BY <1>1, <1>2 DEF Queued
  <1>4. ASSUME NEW k \in Queued(e, s), k # 1 PROVE k - 1 \in Queued(e, s)'
    <2>1. k \in 1..Len(q) /\ q[k].type = "Data" /\ q[k].from = s
      BY <1>1, <1>4 DEF Queued
    <2>2. k - 1 \in 1..Len(Tail(q)) /\ (k - 1) + 1 = k
      BY <1>2, <1>4, <2>1
    <2>3. Tail(q)[k - 1] = q[k]
      BY <1>2, <2>2
    <2> QED BY <1>1, <2>1, <2>2, <2>3 DEF Queued
  <1> QED BY <1>3, <1>4 DEF Queued

LEMMA JoinsLose ==
    ASSUME TypeOK, NEW s \in Streams,
           \/ link'["forwarder"] = link["forwarder"]
           \/ link["forwarder"] # <<>> /\ link'["forwarder"] = Tail(link["forwarder"])
           \/ \E f \in Frames : /\ link'["forwarder"] = Append(link["forwarder"], f)
                                /\ ~(f.type = "PeerJoin" /\ f.from = s)
    PROVE  Joins(s)' # {} => Joins(s) # {}
  <1>1. PICK q \in Seq(Frames) : q = link["forwarder"]
    BY TwoEnds DEF TypeOK
  <1>2. Len(q) \in Nat
    OBVIOUS
  <1>3. CASE link'["forwarder"] = q
    BY <1>1, <1>3 DEF Joins
  <1>4. CASE q # <<>> /\ link'["forwarder"] = Tail(q)
    <2>1. \A k \in 1..Len(Tail(q)) : k + 1 \in 1..Len(q) /\ Tail(q)[k] = q[k + 1]
      BY <1>4, QueueLoses
    <2>2. \A k \in Joins(s)' : k + 1 \in Joins(s)
      BY <1>1, <1>4, <2>1 DEF Joins
    <2> QED BY <2>2
  <1>5. ASSUME NEW f \in Frames, link'["forwarder"] = Append(q, f),
               ~(f.type = "PeerJoin" /\ f.from = s)
        PROVE  Joins(s)' # {} => Joins(s) # {}
    <2>1. /\ Len(Append(q, f)) = Len(q) + 1
          /\ \A k \in 1..Len(q) : Append(q, f)[k] = q[k]
          /\ Append(q, f)[Len(q) + 1] = f
      BY QueueGrows
    <2>2. \A k \in Joins(s)' : k \in Joins(s)
      BY <1>1, <1>2, <1>5, <2>1 DEF Joins
    <2> QED BY <2>2
  <1> QED BY <1>1, <1>3, <1>4, <1>5

\* The queues of both ends stay, grow by a frame that is neither data nor the join of s
\* or lose a frame that is not data of s.
QuietFor(e, s) ==
    \/ link'[e] = link[e]
    \/ /\ link[e] # <<>> /\ link'[e] = Tail(link[e])
       /\ ~(link[e][1].type = "Data" /\ link[e][1].from = s)
    \/ \E f \in Frames : /\ link'[e] = Append(link[e], f)
                         /\ ~(f.type \in {"PeerJoin", "Data"} /\ f.from = s)

LEMMA DeliveryQuiet ==
    ASSUME TypeOK, TypeOK', NEW e \in Ends, NEW s \in Streams, DeliversInOrder(e, s),
           QuietFor(e, s),
           got'[e][s] = got[e][s], SentOf(Other(e), s)' = SentOf(Other(e), s), up' = up,
           InHand(e, s)' <=> InHand(e, s),
           InHand(e, s) => /\ hand'[e].frame = hand[e].frame
                           /\ sock'[e][s] = "open" => sock[e][s] = "open",
           app'[e][s] = "open" => app[e][s] = "open",
           app'[e][s] = "open" /\ sock'[e][s] = "open" /\ conns'[e][sid'[s]] = s
               => Reaches(e, s)
    PROVE  DeliversInOrder(e, s)'
  <1>1. Reaches(e, s)' => Reaches(e, s)
    <2>1. e = "forwarder" => (Joins(s)' # {} => Joins(s) # {})
      BY JoinsLose DEF QuietFor
    <2> QED BY <2>1 DEF Reaches
  <1>2. CASE \/ link'[e] = link[e]
             \/ \E f \in Frames : link'[e] = Append(link[e], f)
                                  /\ ~(f.type \in {"PeerJoin", "Data"} /\ f.from = s)
    <2>1. /\ \A k \in Queued(e, s)' : k + 0 \in Queued(e, s)
                                      /\ link'[e][k].n = link[e][k + 0].n
          /\ \A k \in Queued(e, s) : k - 0 \in Queued(e, s)'
      BY <1>2, QueuedStays
    <2> QED BY <1>1, <2>1, DeliveryKept
  <1>3. CASE /\ link[e] # <<>> /\ link'[e] = Tail(link[e])
             /\ ~(link[e][1].type = "Data" /\ link[e][1].from = s)
    <2>1. /\ \A k \in Queued(e, s)' : k + 1 \in Queued(e, s)
                                      /\ link'[e][k].n = link[e][k + 1].n
          /\ \A k \in Queued(e, s) : k - 1 \in Queued(e, s)'
      BY <1>3, QueuedMoves
    <2> QED BY <1>1, <2>1, DeliveryKept
  <1> QED BY <1>2, <1>3 DEF QuietFor

\* Before a stream has started at the other end, nothing was sent.
LEMMA DeliveryOfNew ==
    ASSUME NEW e \in Ends, NEW s \in Streams,
           Queued(e, s) = {}, ~InHand(e, s), got[e][s] = <<>>, SentOf(Other(e), s) = 0
    PROVE  DeliversInOrder(e, s)
  <1>1. Len(got[e][s]) = 0
    OBVIOUS
  <1> QED BY <1>1 DEF DeliversInOrder

LEMMA NothingSentBefore ==
    ASSUME TypeOK, StreamsAreSound, NEW e \in Ends, NEW s \in Streams,
           loop[Other(e)][s] = "off"
    PROVE  Queued(e, s) = {} /\ SentOf(Other(e), s) = 0
  <1>1. \A k \in 1..Len(link[e]) : loop[Other(e)][link[e][k].from] # "off"
    BY DEF StreamsAreSound, LinkIsSound, FrameIsOf
  <1>2. taken[Other(e)][s] = 0
    BY TwoEnds DEF StreamsAreSound, StartsInOrder
  <1> QED BY <1>1, <1>2 DEF Queued, SentOf

LEMMA DeliveryAfterAccept ==
    ASSUME TypeOK, StreamsAreSound, [Next]_vars, NEW e \in Ends, NEW s \in Streams,
           DeliversInOrder(e, s), NEW t \in Streams, Accept(t)
    PROVE  DeliversInOrder(e, s)'
  <1>1. /\ UNCHANGED <<app, got, taken, loop, link, hand, up>>
        /\ sock["listener"][t] = "none" /\ sock' = [sock EXCEPT !["listener"][t] = "open"]
        /\ sid' = [sid EXCEPT ![t] = nextID]
        /\ conns' = [conns EXCEPT !["listener"][nextID] = t]
    BY DEF Accept, Add, appVars, linkVars
  <1>2. /\ conns \in [Ends -> [Sid -> Streams \cup {NoStream}]]
        /\ sock \in [Ends -> [Streams -> {"none", "open", "closed"}]]
        /\ sid \in [Streams -> Sid] /\ nextID \in Sid
    BY DEF TypeOK
  <1>3. TypeOK'
    BY TypeStep
  <1>4. loop["listener"][t] = "off" /\ loop["forwarder"][t] = "off"
        /\ sock["forwarder"][t] = "none" /\ got["listener"][t] = <<>>
    BY <1>1, TwoEnds DEF StreamsAreSound, StartsInOrder
  <1>5. CASE e = "listener" /\ s = t
    <2>1. Queued(e, s) = {} /\ SentOf(Other(e), s) = 0 /\ got[e][s] = <<>>
      BY <1>4, <1>5, NothingSentBefore, TwoEnds
    <2>2. ~InHand(e, s)
      <3>1. hand[e].at = "write" => hand[e] # Idle
        BY DEF Idle
      <3> QED BY <1>1, <1>5, <3>1 DEF StreamsAreSound, HandIsSound, InHand
    <2>3. Queued(e, s)' = {} /\ SentOf(Other(e), s)' = 0 /\ got'[e][s] = <<>> /\ ~InHand(e, s)'
      BY <1>1, <2>1, <2>2 DEF Queued, SentOf, InHand
    <2>4. Len(got'[e][s]) = 0
      BY <2>3
    <2> QED BY <2>3, <2>4 DEF DeliversInOrder
  <1>6. CASE ~(e = "listener" /\ s = t)
    <2>1. app'[e][s] = "open" /\ sock'[e][s] = "open" /\ conns'[e][sid'[s]] = s => Reaches(e, s)
      BY <1>1, <1>2, <1>4, <1>6, TwoEnds DEF Reaches
    <2>2. sock'[e][s] = sock[e][s]
      BY <1>1, <1>2, <1>6, TwoEnds
    <2>3. /\ SentOf(Other(e), s)' = SentOf(Other(e), s)
          /\ InHand(e, s)' <=> InHand(e, s)
          /\ QuietFor(e, s)
      BY <1>1 DEF SentOf, InHand, QuietFor
    <2> QED BY <1>1, <1>3, <2>1, <2>2, <2>3, DeliveryQuiet
  <1> QED BY <1>5, <1>6

LEMMA DeliveryAfterAnnounce ==
    ASSUME TypeOK, StreamsAreSound, [Next]_vars, NEW e \in Ends, NEW s \in Streams,
           DeliversInOrder(e, s), Announce
    PROVE  DeliversInOrder(e, s)'
  <1>1. TypeOK'
    BY TypeStep
  <1>2. PICK f \in Frames : /\ f = Frame("PeerJoin", sid[joining], joining, 0)
                            /\ f.type = "PeerJoin" /\ f.from = joining
    <2>1. joining \in Streams /\ sid[joining] \in Sid
      BY JoiningIsOff DEF Announce, TypeOK
    <2> QED BY <2>1, FrameIsTyped
  <1>3. /\ link \in [Ends -> Seq(Frames)]
        /\ loop \in [Ends -> [Streams -> {"off", "read", "send", "remove", "leave", "close", "done"}]]
    BY DEF TypeOK
  <1>4. /\ UNCHANGED <<app, got, taken, hand, up, sock, sid, conns>>
        /\ loop' = [loop EXCEPT !["listener"][joining] = "read"]
        /\ link' = [link EXCEPT !["forwarder"] = Append(@, f)]
    <2>1. Sent("listener", f) /\ up
      BY <1>2, Zenon DEF Announce
    <2>2. link' = [link EXCEPT !["forwarder"] = Append(@, f)]
      BY <2>1, TwoEnds DEF Sent
    <2> QED BY <2>2 DEF Announce, Step, appVars
  <1>5. /\ joining \in Streams
        /\ loop["listener"][joining] = "off" /\ loop["forwarder"][joining] = "off"
    BY JoiningIsOff DEF Announce
  <1>6. SentOf(Other(e), s)' = SentOf(Other(e), s)
    BY <1>3, <1>4, <1>5, TwoEnds DEF SentOf
  <1>7. InHand(e, s)' <=> InHand(e, s)
    BY <1>4 DEF InHand
  <1>8. CASE e = "forwarder" /\ s = joining
    <2>1. Queued(e, s) = {} /\ SentOf(Other(e), s) = 0
      BY <1>5, <1>8, NothingSentBefore, TwoEnds
    <2>2. got[e][s] = <<>>
      BY <1>5, <1>8 DEF StreamsAreSound, StartsInOrder
    <2>3. ~InHand(e, s)
      <3>1. hand[e].at = "write" => hand[e] # Idle
        BY DEF Idle
      <3> QED BY <1>5, <1>8, <3>1 DEF StreamsAreSound, HandIsSound, InHand
    <2>4. Queued(e, s)' = {}
      <3>1. link'[e] = Append(link[e], f)
        BY <1>3, <1>4, <1>8
      <3>2. \A k \in Queued(e, s)' : k + 0 \in Queued(e, s)
        BY <1>2, <3>1, QueuedStays
      <3> QED BY <2>1, <3>2
    <2>5. got'[e][s] = <<>> /\ Len(got'[e][s]) = 0 /\ SentOf(Other(e), s)' = 0 /\ ~InHand(e, s)'
      BY <1>4, <1>6, <1>7, <2>1, <2>2, <2>3
    <2> QED BY <2>4, <2>5 DEF DeliversInOrder
  <1>9. CASE ~(e = "forwarder" /\ s = joining)
    <2>1. QuietFor(e, s)
      BY <1>2, <1>3, <1>4, <1>9, TwoEnds DEF QuietFor
    <2>2. app'[e][s] = "open" /\ sock'[e][s] = "open" /\ conns'[e][sid'[s]] = s => Reaches(e, s)
      BY <1>4 DEF Reaches
    <2> QED BY <1>1, <1>4, <1>6, <1>7, <2>1, <2>2, DeliveryQuiet
  <1> QED BY <1>8, <1>9

\* SendChunk at the other end: the next chunk of s is queued, or lost with the session.
LEMMA DeliveryAfterSend ==
    ASSUME TypeOK, StreamsAreSound, [Next]_vars, NEW e \in Ends, NEW s \in Streams,
           DeliversInOrder(e, s), SendChunk(Other(e), s)
    PROVE  DeliversInOrder(e, s)'
  <1> DEFINE n == taken[Other(e)][s]
  <1>1. n \in Nat /\ sid[s] \in Sid /\ Other(e) \in Ends /\ Other(Other(e)) = e
    BY Counted, TwoEnds DEF TypeOK
  <1>2. PICK f \in Frames : /\ f = Frame("Data", sid[s], s, n)
                            /\ f.type = "Data" /\ f.from = s /\ f.n = n
    BY <1>1, FrameIsTyped
  <1>3. PICK q \in Seq(Frames) : q = link[e]
    BY DEF TypeOK
  <1>4. /\ UNCHANGED <<app, got, taken, hand, up, sock, sid, conns>>
        /\ loop[Other(e)][s] = "send" /\ loop'[Other(e)][s] # "send"
        /\ link'[e] = IF up THEN Append(q, f) ELSE q
        /\ link'[Other(e)] = link[Other(e)]
    <2>1. Sent(Other(e), f)
      BY <1>2, Zenon DEF SendChunk
    <2>2. link' = IF up THEN [link EXCEPT ![e] = Append(@, f)] ELSE link
      BY <1>1, <2>1 DEF Sent
    <2>3. link \in [Ends -> Seq(Frames)]
      BY DEF TypeOK
    <2>4. /\ link'[e] = IF up THEN Append(q, f) ELSE q
          /\ link'[Other(e)] = link[Other(e)]
      BY <1>1, <1>3, <2>2, <2>3, TwoEnds
    <2>5. /\ UNCHANGED <<app, got, taken, hand, up, sock, sid, conns>>
          /\ loop[Other(e)][s] = "send"
          /\ loop' = [loop EXCEPT ![Other(e)][s] = IF up THEN "read" ELSE "remove"]
      BY DEF SendChunk, Step, appVars
    <2>6. loop'[Other(e)][s] # "send"
      BY <1>1, <2>5 DEF TypeOK
    <2> QED BY <2>4, <2>5, <2>6
  <1>5. SentOf(Other(e), s) = n - 1 /\ SentOf(Other(e), s)' = n
    BY <1>1, <1>4 DEF SentOf
  <1>6. /\ \A k \in Queued(e, s) : k \in 1..Len(q) /\ q[k].n \in Nat /\ q[k].n <= n - 1
        /\ InHand(e, s) => hand[e].frame.n \in Nat /\ hand[e].frame.n <= n - 1
        /\ Len(got[e][s]) \in Nat /\ Len(q) \in Nat
    <2>1. ASSUME NEW k \in Queued(e, s)
          PROVE  k \in 1..Len(q) /\ q[k].n \in Nat /\ q[k].n <= n - 1
      <3>1. k \in 1..Len(q) /\ q[k].n \in Nat /\ q[k].type = "Data" /\ q[k].from = s
        BY <1>3, DeliveryTypes
      <3>2. FrameIsOf(e, q[k])
        BY <1>3, <3>1 DEF StreamsAreSound, LinkIsSound
      <3> QED BY <1>1, <1>5, <3>1, <3>2 DEF FrameIsOf
    <2>2. ASSUME InHand(e, s)
          PROVE  hand[e].frame.n \in Nat /\ hand[e].frame.n <= n - 1
      <3>1. /\ hand[e] # Idle /\ hand[e].at = "write" /\ hand[e].frame.n \in Nat
            /\ hand[e].frame.from = s
        BY <2>2, DeliveryTypes DEF InHand, Idle, DeliversInOrder
      <3>2. FrameIsOf(e, hand[e].frame) /\ hand[e].frame.type = "Data"
        BY <3>1 DEF StreamsAreSound, HandIsSound
      <3> QED BY <1>1, <1>5, <3>1, <3>2 DEF FrameIsOf
    <2> QED BY <1>3, <2>1, <2>2, DeliveryTypes
  <1>7. InHand(e, s)' <=> InHand(e, s)
    BY <1>4 DEF InHand
  <1> HIDE DEF n
  <1>8. CASE up
    <2>1. /\ Len(Append(q, f)) = Len(q) + 1
          /\ \A k \in 1..Len(q) : Append(q, f)[k] = q[k]
          /\ Append(q, f)[Len(q) + 1] = f
      BY QueueGrows
    <2>2. /\ link'[e] = Append(q, f)
          /\ \A k \in Queued(e, s) : k \in Queued(e, s)' /\ link'[e][k] = q[k]
          /\ Len(q) + 1 \in Queued(e, s)' /\ link'[e][Len(q) + 1].n = n
          /\ \A k \in Queued(e, s)' : k \in Queued(e, s) \/ k = Len(q) + 1
      BY <1>2, <1>3, <1>4, <1>6, <1>8, <2>1 DEF Queued
    <2>3. Reaches(e, s)' => Reaches(e, s)
      <3>1. e = "forwarder" => (Joins(s)' # {} => Joins(s) # {})
        BY <1>2, <1>3, <2>2, JoinsLose
      <3> QED BY <1>4, <3>1 DEF Reaches
    <2>4. /\ Len(got'[e][s]) <= SentOf(Other(e), s)'
          /\ \A k \in 1..Len(got'[e][s]) : got'[e][s][k] = [from |-> s, n |-> k]
      BY <1>1, <1>4, <1>5, <1>6 DEF DeliversInOrder
    <2>5. \A k \in Queued(e, s)' : Len(got'[e][s]) < link'[e][k].n
      BY <1>1, <1>3, <1>4, <1>5, <1>6, <2>2, SMTT(30) DEF DeliversInOrder
    <2>6. \A j, k \in Queued(e, s)' : j < k => link'[e][j].n < link'[e][k].n
      BY <1>1, <1>3, <1>6, <2>2 DEF DeliversInOrder
    <2>7. InHand(e, s)' =>
              /\ hand'[e].frame.from = s
              /\ sock'[e][s] = "open" /\ app'[e][s] = "open" =>
                     hand'[e].frame.n = Len(got'[e][s]) + 1
              /\ \A k \in Queued(e, s)' : hand'[e].frame.n < link'[e][k].n
      BY SMTT(30), <1>1, <1>3, <1>4, <1>6, <1>7, <2>2 DEF DeliversInOrder
    <2>8. ASSUME Reaches(e, s)', NEW x \in (Len(got'[e][s]) + 1)..SentOf(Other(e), s)'
          PROVE  \/ InHand(e, s)' /\ hand'[e].frame.n = x
                 \/ \E k \in Queued(e, s)' : link'[e][k].n = x
                 \/ ~up' /\ \A k \in Queued(e, s)' : link'[e][k].n < x
      <3>1. CASE x = n
        BY <2>2, <3>1
      <3>2. CASE x # n
        <4>1. x \in (Len(got[e][s]) + 1)..SentOf(Other(e), s) /\ Reaches(e, s)
          BY <1>1, <1>4, <1>5, <1>6, <2>3, <2>8, <3>2
        <4>2. \/ InHand(e, s) /\ hand[e].frame.n = x
              \/ \E k \in Queued(e, s) : link[e][k].n = x
          BY <1>8, <4>1 DEF DeliversInOrder
        <4> QED BY <1>3, <1>4, <1>7, <2>2, <4>2
      <3> QED BY <3>1, <3>2
    <2> QED BY <2>4, <2>5, <2>6, <2>7, <2>8 DEF DeliversInOrder
  <1>9. CASE ~up
    <2>1. /\ link'[e] = link[e] /\ Queued(e, s)' = Queued(e, s)
          /\ e = "forwarder" => Joins(s)' = Joins(s)
      BY <1>3, <1>4, <1>9 DEF Queued, Joins
    <2>2. Reaches(e, s)' => Reaches(e, s)
      BY <1>4, <2>1 DEF Reaches
    <2>3. /\ Len(got'[e][s]) <= SentOf(Other(e), s)'
          /\ \A k \in 1..Len(got'[e][s]) : got'[e][s][k] = [from |-> s, n |-> k]
      BY <1>1, <1>4, <1>5, <1>6 DEF DeliversInOrder
    <2>4. /\ \A k \in Queued(e, s)' : Len(got'[e][s]) < link'[e][k].n
          /\ \A j, k \in Queued(e, s)' : j < k => link'[e][j].n < link'[e][k].n
      BY <1>4, <2>1 DEF DeliversInOrder
    <2>5. InHand(e, s)' =>
              /\ hand'[e].frame.from = s
              /\ sock'[e][s] = "open" /\ app'[e][s] = "open" =>
                     hand'[e].frame.n = Len(got'[e][s]) + 1
              /\ \A k \in Queued(e, s)' : hand'[e].frame.n < link'[e][k].n
      BY <1>4, <1>7, <2>1 DEF DeliversInOrder
    <2>6. ASSUME Reaches(e, s)', NEW x \in (Len(got'[e][s]) + 1)..SentOf(Other(e), s)'
          PROVE  \/ InHand(e, s)' /\ hand'[e].frame.n = x
                 \/ \E k \in Queued(e, s)' : link'[e][k].n = x
                 \/ ~up' /\ \A k \in Queued(e, s)' : link'[e][k].n < x
      <3>1. CASE x = n
        <4>1. \A k \in Queued(e, s)' : link'[e][k].n < x
          BY <1>1, <1>3, <1>6, <2>1, <3>1
        <4> QED BY <1>4, <1>9, <4>1
      <3>2. CASE x # n
        <4>1. x \in (Len(got[e][s]) + 1)..SentOf(Other(e), s) /\ Reaches(e, s)
          BY <1>1, <1>4, <1>5, <1>6, <2>2, <2>6, <3>2
        <4>2. \/ InHand(e, s) /\ hand[e].frame.n = x
              \/ \E k \in Queued(e, s) : link[e][k].n = x
              \/ ~up /\ \A k \in Queued(e, s) : link[e][k].n < x
          BY <4>1 DEF DeliversInOrder
        <4> QED BY <1>4, <1>7, <2>1, <4>2
      <3> QED BY <3>1, <3>2
    <2> QED BY <2>3, <2>4, <2>5, <2>6 DEF DeliversInOrder
  <1> QED BY <1>8, <1>9

LEMMA DeliveryAfterLoop ==
    ASSUME TypeOK, StreamsAreSound, [Next]_vars, NEW e \in Ends, NEW s \in Streams,
           DeliversInOrder(e, s), NEW d \in Ends, NEW t \in Streams, ConnReadLoop(d, t)
    PROVE  DeliversInOrder(e, s)'
  <1>1. CASE SendChunk(d, t) /\ d = Other(e) /\ t = s
    BY <1>1, DeliveryAfterSend
  <1>2. CASE ~(SendChunk(d, t) /\ d = Other(e) /\ t = s)
    <2>1. TypeOK'
      BY TypeStep
    <2>2. /\ link \in [Ends -> Seq(Frames)]
          /\ loop \in [Ends -> [Streams -> {"off", "read", "send", "remove", "leave", "close", "done"}]]
          /\ sock \in [Ends -> [Streams -> {"none", "open", "closed"}]]
          /\ conns \in [Ends -> [Sid -> Streams \cup {NoStream}]]
          /\ s # NoStream /\ Other(e) \in Ends
      BY TwoEnds, StreamsAssumption DEF TypeOK, StreamsAssumption
    <2>3. /\ UNCHANGED <<sid, app, got, up, hand>>
          /\ sock'[e][s] = sock[e][s] \/ sock'[e][s] = "closed"
      BY LoopGoesOn
    <2>4. taken \in [Ends -> [Streams -> Nat]] /\ taken[Other(e)][s] \in Nat
      BY <2>2, Counted
    <2>5. /\ QuietFor(e, s)
          /\ SentOf(Other(e), s)' = SentOf(Other(e), s)
          /\ conns'[e][sid[s]] = s => conns[e][sid[s]] = s
      <3>1. CASE ReadChunk(d, t)
        <4>1. link' = link /\ conns' = conns
          BY <3>1 DEF ReadChunk, linkVars
        <4>2. /\ taken' = [taken EXCEPT ![d][t] = taken[d][t] + 1]
              /\ loop' = [loop EXCEPT ![d][t] = "send"] /\ loop[d][t] = "read"
          BY <3>1, Zenon DEF ReadChunk, Step
        <4>3. SentOf(Other(e), s)' = SentOf(Other(e), s)
          BY <2>2, <2>4, <4>2 DEF SentOf
        <4> QED BY <4>1, <4>3 DEF QuietFor
      <3>2. CASE ReadFails(d, t) \/ LoopRemoves(d, t) \/ LoopCloses(d, t)
        <4>1. /\ link' = link /\ taken' = taken
              /\ \E l \in {"remove", "leave", "done"} : loop' = [loop EXCEPT ![d][t] = l]
              /\ loop[d][t] # "send"
              /\ conns' = conns \/ conns' = [conns EXCEPT ![d][sid[t]] = NoStream]
          BY <3>2 DEF ReadFails, LoopRemoves, LoopCloses, linkVars, Step, Remove
        <4>2. SentOf(Other(e), s)' = SentOf(Other(e), s)
          BY <2>2, <4>1 DEF SentOf
        <4>3. sid[s] \in Sid /\ sid[t] \in Sid
          BY DEF TypeOK
        <4>4. conns'[e][sid[s]] = s => conns[e][sid[s]] = s
          <5>1. CASE conns' = conns
            BY <5>1
          <5>2. CASE conns' = [conns EXCEPT ![d][sid[t]] = NoStream]
            BY <2>2, <4>3, <5>2
          <5> QED BY <4>1, <5>1, <5>2
        <4> QED BY <4>1, <4>2, <4>4 DEF QuietFor
      <3>3. CASE SendChunk(d, t)
        <4>1. taken[d][t] \in Nat /\ sid[t] \in Sid
          BY Counted DEF TypeOK
        <4>2. PICK f \in Frames : /\ f = Frame("Data", sid[t], t, taken[d][t]) /\ f.from = t
          BY <4>1, FrameIsTyped
        <4>3. Sent(d, f)
          BY <3>3, <4>2, Zenon DEF SendChunk
        <4>4. d = Other(e) => t # s
          BY <1>2, <3>3
        <4>5. Other(d) = e => t # s
          BY <4>4, TwoEnds
        <4>6. QuietFor(e, s)
          BY <2>2, <4>2, <4>3, <4>5, TwoEnds DEF Sent, QuietFor
        <4>7. /\ UNCHANGED <<taken, conns>>
              /\ \E l \in {"read", "remove"} : loop' = [loop EXCEPT ![d][t] = l]
          BY <3>3 DEF SendChunk, Step
        <4>8. SentOf(Other(e), s)' = SentOf(Other(e), s)
          BY <2>2, <4>4, <4>7 DEF SentOf
        <4> QED BY <4>6, <4>7, <4>8
      <3>4. CASE LoopLeaves(d, t)
        <4>1. sid[t] \in Sid
          BY DEF TypeOK
        <4>2. PICK f \in Frames : /\ f = Frame("PeerLeave", sid[t], t, 0) /\ f.type = "PeerLeave"
          BY <4>1, FrameIsTyped
        <4>3. Sent(d, f)
          BY <3>4, <4>2, Zenon DEF LoopLeaves
        <4>4. QuietFor(e, s)
          BY <2>2, <4>2, <4>3, TwoEnds DEF Sent, QuietFor
        <4>5. /\ UNCHANGED <<taken, conns>> /\ loop[d][t] # "send"
              /\ loop' = [loop EXCEPT ![d][t] = "close"]
          BY <3>4 DEF LoopLeaves, Step
        <4>6. SentOf(Other(e), s)' = SentOf(Other(e), s)
          BY <2>2, <4>5 DEF SentOf
        <4> QED BY <4>4, <4>5, <4>6
      <3> QED BY <3>1, <3>2, <3>3, <3>4 DEF ConnReadLoop
    <2>6. InHand(e, s)' <=> InHand(e, s)
      BY <2>3 DEF InHand
    <2>7. app'[e][s] = "open" /\ sock'[e][s] = "open" /\ conns'[e][sid'[s]] = s => Reaches(e, s)
      BY <2>3, <2>5 DEF Reaches
    <2> QED BY <2>1, <2>3, <2>5, <2>6, <2>7, DeliveryQuiet
  <1> QED BY <1>1, <1>2

LEMMA DeliveryAfterDial ==
    ASSUME TypeOK, StreamsAreSound, [Next]_vars, NEW e \in Ends, NEW s \in Streams,
           DeliversInOrder(e, s), DialTarget \/ DialFails
    PROVE  DeliversInOrder(e, s)'
  <1>1. TypeOK'
    BY TypeStep
  <1>2. PICK t \in Streams : t = Head(link["forwarder"]).from
    BY Arrived, TwoEnds DEF DialTarget, DialFails
  <1>3. /\ loop \in [Ends -> [Streams -> {"off", "read", "send", "remove", "leave", "close", "done"}]]
        /\ sock \in [Ends -> [Streams -> {"none", "open", "closed"}]]
        /\ conns \in [Ends -> [Sid -> Streams \cup {NoStream}]]
        /\ s # NoStream /\ Other(e) \in Ends /\ sid[s] \in Sid /\ sid[t] \in Sid
    BY TwoEnds, StreamsAssumption DEF TypeOK, StreamsAssumption
  <1>4. /\ Head(link["forwarder"]).sid = sid[t] /\ 1 \in Joins(t)
        /\ loop["forwarder"][t] = "off"
        /\ Head(link["forwarder"]) = link["forwarder"][1]
        /\ link["forwarder"][1].type = "PeerJoin" /\ link["forwarder"] # <<>>
    <2>1. Arrives("forwarder", "PeerJoin")
      BY DEF DialTarget, DialFails
    <2>2. /\ Head(link["forwarder"]).sid = sid[t] /\ 1 \in Joins(t)
          /\ loop["forwarder"][t] = "off"
      BY <1>2, <2>1, JoinStarts
    <2>3. Head(link["forwarder"]) = link["forwarder"][1] /\ link["forwarder"] # <<>>
          /\ Head(link["forwarder"]).type = "PeerJoin"
      BY <2>1, Arrived, TwoEnds
    <2> QED BY <2>2, <2>3
  <1>5. /\ UNCHANGED <<app, got, taken, up, sid, hand>>
        /\ \E l \in {"read", "done"} : loop' = [loop EXCEPT !["forwarder"][t] = l]
    BY <1>2 DEF DialTarget, DialFails, Step, appVars
  <1>6. SentOf(Other(e), s)' = SentOf(Other(e), s) /\ (InHand(e, s)' <=> InHand(e, s))
    BY <1>3, <1>4, <1>5, TwoEnds DEF SentOf, InHand
  <1>7. QuietFor(e, s)
    <2>1. link'["forwarder"] = Tail(link["forwarder"])
      BY DialAnswer, LinkTaken, TwoEnds
    <2>2. CASE e = "forwarder"
      BY <1>4, <2>1, <2>2 DEF QuietFor
    <2>3. CASE e = "listener" /\ DialTarget
      BY <2>3, LinkTaken DEF QuietFor
    <2>4. CASE e = "listener" /\ DialFails
      <3>1. Head(link["forwarder"]).sid \in Sid
        BY <1>3, <1>4
      <3>2. PICK f \in Frames :
                /\ f = Frame("PeerLeave", Head(link["forwarder"]).sid, Head(link["forwarder"]).from, 0)
                /\ f.type = "PeerLeave"
        BY <1>2, <3>1, FrameIsTyped
      <3>3. link'["listener"] = IF up THEN Append(link["listener"], f) ELSE link["listener"]
        BY <2>4, <3>2, DialAnswer
      <3> QED BY <2>4, <3>2, <3>3 DEF QuietFor
    <2> QED BY <2>2, <2>3, <2>4, TwoEnds
  <1>8. InHand(e, s) => ~(e = "forwarder" /\ s = t)
    <2>1. hand[e].at = "write" => hand[e] # Idle
      BY DEF Idle
    <2> QED BY <1>4, <2>1 DEF StreamsAreSound, HandIsSound, InHand
  <1>9. CASE DialTarget
    <2>1. /\ sock' = [sock EXCEPT !["forwarder"][t] = "open"]
          /\ conns' = [conns EXCEPT !["forwarder"][sid[t]] = t]
      BY <1>2, <1>4, <1>9 DEF DialTarget, AddWithID
    <2>2. InHand(e, s) => sock'[e][s] = sock[e][s]
      BY <1>3, <1>8, <2>1, TwoEnds
    <2>3. CASE e = "forwarder" /\ s = t
      <3>1. app[e][s] = "open" => Reaches(e, s)
        BY <1>4, <2>3 DEF Reaches
      <3> QED BY <1>1, <1>5, <1>6, <1>7, <2>2, <3>1, DeliveryQuiet
    <2>4. CASE ~(e = "forwarder" /\ s = t)
      <3>1. sock'[e][s] = sock[e][s] /\ (conns'[e][sid[s]] = s => conns[e][sid[s]] = s)
        BY <1>3, <2>1, <2>4, TwoEnds
      <3>2. app'[e][s] = "open" /\ sock'[e][s] = "open" /\ conns'[e][sid'[s]] = s => Reaches(e, s)
        BY <1>5, <3>1 DEF Reaches
      <3> QED BY <1>1, <1>5, <1>6, <1>7, <2>2, <3>2, DeliveryQuiet
    <2> QED BY <2>3, <2>4
  <1>10. CASE DialFails
    <2>1. UNCHANGED <<sock, conns>>
      BY <1>10 DEF DialFails
    <2>2. app'[e][s] = "open" /\ sock'[e][s] = "open" /\ conns'[e][sid'[s]] = s => Reaches(e, s)
      BY <1>5, <2>1 DEF Reaches
    <2> QED BY <1>1, <1>5, <1>6, <1>7, <2>1, <2>2, DeliveryQuiet
  <1> QED BY <1>9, <1>10

\* A data frame finds the connection of its own stream, or none.
LEMMA FoundIsOwn ==
    ASSUME TypeOK, StreamsAreSound, SidsAreUnique, NEW e \in Ends, NEW type,
           Arrives(e, type)
    PROVE  LET f == Head(link[e]) IN
           /\ f.sid = sid[f.from]
           /\ Get(e, f.sid) # NoStream => Get(e, f.sid) = f.from
           /\ e = "forwarder" => loop["forwarder"][Get(e, f.sid)] # "off" \/ Get(e, f.sid) = NoStream
  <1>1. PICK f \in Frames : f = Head(link[e])
    BY Arrived
  <1>2. f = link[e][1] /\ 1 \in 1..Len(link[e]) /\ f.from \in Streams /\ f.sid \in Sid
    BY <1>1, Arrived
  <1>3. FrameIsOf(e, f)
    BY <1>2 DEF StreamsAreSound, LinkIsSound
  <1>4. f.from \in Accepted
    <2>1. StartsInOrder(f.from)
      BY <1>2 DEF StreamsAreSound
    <2>2. sock["listener"][f.from] # "none"
      BY <1>3, <2>1, TwoEnds DEF StartsInOrder, FrameIsOf
    <2> QED BY <1>2, <2>2 DEF Accepted
  <1>5. ASSUME Get(e, f.sid) # NoStream
        PROVE  Get(e, f.sid) = f.from /\ (e = "forwarder" => loop["forwarder"][f.from] # "off")
    <2>1. PICK t \in Streams : t = conns[e][f.sid]
      BY <1>2, <1>5 DEF Get, TypeOK
    <2>2. /\ sid[t] = f.sid /\ t \in Accepted
          /\ e = "forwarder" => loop["forwarder"][t] # "off"
      BY <1>2, <2>1, EntryFacts DEF Accepted
    <2>3. t = f.from
      BY <1>3, <1>4, <2>2 DEF SidsAreUnique, FrameIsOf
    <2> QED BY <2>1, <2>2, <2>3 DEF Get
  <1> QED BY <1>1, <1>3, <1>5 DEF FrameIsOf

\* LookUp of a data frame of s: the frame loop holds the next chunk of s, or s has no
\* connection to receive it.
LEMMA DeliveryAfterData ==
    ASSUME TypeOK, StreamsAreSound, [Next]_vars, SidsAreUnique, NEW e \in Ends,
           NEW s \in Streams, DeliversInOrder(e, s), LookUp(e, "Data", "write"),
           Head(link[e]).from = s
    PROVE  DeliversInOrder(e, s)'
  <1>1. /\ UNCHANGED <<app, got, taken, loop, up, sock, sid, conns>>
        /\ link'[e] = Tail(link[e]) /\ link[e] # <<>> /\ Arrives(e, "Data")
    BY LinkTaken DEF LookUp, appVars
  <1>2. PICK f \in Frames : f = Head(link[e]) /\ f = link[e][1]
    BY <1>1, Arrived
  <1>3. /\ 1 \in 1..Len(link[e]) /\ f.type = "Data" /\ f.from = s /\ f.n \in Nat /\ f.sid = sid[s]
        /\ Get(e, f.sid) # NoStream => Get(e, f.sid) = s
        /\ e = "forwarder" => loop["forwarder"][Get(e, f.sid)] # "off" \/ Get(e, f.sid) = NoStream
    BY <1>1, <1>2, Arrived, FoundIsOwn
  <1>4. 1 \in Queued(e, s)
    BY <1>2, <1>3 DEF Queued
  <1>5. /\ \A k \in Queued(e, s)' : k + 1 \in Queued(e, s) /\ link'[e][k].n = link[e][k + 1].n
        /\ \A k \in Queued(e, s) : k = 1 \/ k - 1 \in Queued(e, s)'
        /\ \A k \in Queued(e, s)' : k \in Nat \ {0}
    <2>1. \A k \in Queued(e, s)' : k \in 1..Len(link'[e])
      BY DEF Queued
    <2>2. link' \in [Ends -> Seq(Frames)]
      BY TypeStep DEF TypeOK
    <2>3. Len(link'[e]) \in Nat
      BY <2>2
    <2> QED BY <1>1, <2>1, <2>3, QueuedMoves
  <1>6. ~InHand(e, s)
    BY <1>1 DEF Arrives, InHand
  <1>7. SentOf(Other(e), s)' = SentOf(Other(e), s)
    BY <1>1 DEF SentOf
  <1>8. /\ Len(got[e][s]) \in Nat /\ SentOf(Other(e), s) \in Int
        /\ \A k \in Queued(e, s) : k \in 1..Len(link[e]) /\ link[e][k].n \in Nat
    BY DeliveryTypes, TwoEnds
  <1>9. /\ Len(got'[e][s]) <= SentOf(Other(e), s)'
        /\ \A k \in 1..Len(got'[e][s]) : got'[e][s][k] = [from |-> s, n |-> k]
        /\ \A k \in Queued(e, s)' : Len(got'[e][s]) < link'[e][k].n
    BY <1>1, <1>5, <1>7 DEF DeliversInOrder
  <1>10. \A j, k \in Queued(e, s)' : j < k => link'[e][j].n < link'[e][k].n
    <2>1. SUFFICES ASSUME NEW j \in Queued(e, s)', NEW k \in Queued(e, s)', j < k
                   PROVE  link'[e][j].n < link'[e][k].n
      OBVIOUS
    <2>2. j + 1 \in Queued(e, s) /\ k + 1 \in Queued(e, s) /\ j + 1 < k + 1
      BY <1>5, <2>1
    <2> QED BY <1>5, <2>2 DEF DeliversInOrder
  <1>11. \A k \in Queued(e, s)' : f.n < link'[e][k].n
    <2>1. SUFFICES ASSUME NEW k \in Queued(e, s)' PROVE f.n < link'[e][k].n
      OBVIOUS
    <2>2. k + 1 \in Queued(e, s) /\ 1 < k + 1 /\ link'[e][k].n = link[e][k + 1].n
      BY <1>5
    <2> QED BY <1>2, <1>4, <2>2 DEF DeliversInOrder
  <1>12. CASE Get(e, f.sid) = s
    <2>1. hand'[e] = [at |-> "write", frame |-> f, conn |-> s]
      BY <1>2, <1>12, LookUpHand, StreamsAssumption DEF StreamsAssumption
    <2>2. InHand(e, s)' /\ hand'[e].frame = f
      BY <2>1 DEF InHand
    <2>3. ASSUME sock[e][s] = "open", app[e][s] = "open" PROVE f.n = Len(got[e][s]) + 1
      <3>1. Reaches(e, s)
        BY <1>3, <1>12, <2>3 DEF Reaches, Get
      <3>2. /\ Len(got[e][s]) < f.n
            /\ \A k \in Queued(e, s) : f.n <= link[e][k].n
        BY <1>2, <1>3, <1>4, <1>8 DEF DeliversInOrder
      <3>3. f.n <= SentOf(Other(e), s)
        <4>1. FrameIsOf(e, f)
          BY <1>2, <1>3 DEF StreamsAreSound, LinkIsSound
        <4> QED BY <1>3, <1>8, <4>1 DEF FrameIsOf
      <3>4. Len(got[e][s]) + 1 \in (Len(got[e][s]) + 1)..SentOf(Other(e), s)
        BY <1>3, <1>8, <3>2, <3>3
      <3>5. \/ \E k \in Queued(e, s) : link[e][k].n = Len(got[e][s]) + 1
            \/ \A k \in Queued(e, s) : link[e][k].n < Len(got[e][s]) + 1
        BY <1>6, <3>1, <3>4 DEF DeliversInOrder
      <3>6. CASE \E k \in Queued(e, s) : link[e][k].n = Len(got[e][s]) + 1
        <4>1. f.n <= Len(got[e][s]) + 1
          BY <3>2, <3>6
        <4> QED BY <1>3, <1>8, <3>2, <4>1
      <3>7. CASE \A k \in Queued(e, s) : link[e][k].n < Len(got[e][s]) + 1
        <4>1. f.n < Len(got[e][s]) + 1
          BY <1>2, <1>4, <3>7
        <4> QED BY <1>3, <1>8, <3>2, <4>1
      <3> QED BY <3>5, <3>6, <3>7
    <2>4. ASSUME Reaches(e, s)', NEW x \in (Len(got'[e][s]) + 1)..SentOf(Other(e), s)'
          PROVE  \/ InHand(e, s)' /\ hand'[e].frame.n = x
                 \/ \E k \in Queued(e, s)' : link'[e][k].n = x
                 \/ ~up' /\ \A k \in Queued(e, s)' : link'[e][k].n < x
      <3>1. Reaches(e, s)
        <4>1. e = "forwarder" => (Joins(s)' # {} => Joins(s) # {})
          BY <1>1, JoinsLose
        <4> QED BY <1>1, <2>4, <4>1 DEF Reaches
      <3>2. \/ \E k \in Queued(e, s) : link[e][k].n = x
            \/ ~up /\ \A k \in Queued(e, s) : link[e][k].n < x
        BY <1>1, <1>6, <1>7, <2>4, <3>1 DEF DeliversInOrder
      <3>3. ASSUME NEW k \in Queued(e, s), link[e][k].n = x
            PROVE  f.n = x \/ \E j \in Queued(e, s)' : link'[e][j].n = x
        <4>1. CASE k = 1
          BY <1>2, <3>3, <4>1
        <4>2. CASE k # 1
          <5>1. k - 1 \in Queued(e, s)' /\ (k - 1) + 1 = k
            BY <1>5, <1>8, <4>2
          <5> QED BY <1>5, <3>3, <5>1
        <4> QED BY <4>1, <4>2
      <3>4. ASSUME ~up, \A k \in Queued(e, s) : link[e][k].n < x
            PROVE  ~up' /\ \A k \in Queued(e, s)' : link'[e][k].n < x
        BY <1>1, <1>5, <3>4
      <3> QED BY <2>2, <3>2, <3>3, <3>4
    <2>5. InHand(e, s)' =>
              /\ hand'[e].frame.from = s
              /\ sock'[e][s] = "open" /\ app'[e][s] = "open" =>
                     hand'[e].frame.n = Len(got'[e][s]) + 1
              /\ \A k \in Queued(e, s)' : hand'[e].frame.n < link'[e][k].n
      BY <1>1, <1>3, <1>11, <2>2, <2>3
    <2> QED BY <1>9, <1>10, <2>4, <2>5 DEF DeliversInOrder
  <1>13. CASE Get(e, f.sid) = NoStream
    <2>1. hand'[e] = hand[e]
      BY <1>2, <1>13, LookUpHand
    <2>2. ~InHand(e, s)'
      BY <1>6, <2>1 DEF InHand
    <2>3. ~Reaches(e, s)'
      <3>1. Joins(s)' = {} \/ e = "listener"
        <4>1. CASE e = "forwarder"
          <5>1. \A j \in Joins(s) : j \in Nat \ {0} /\ j < 1
            <6>1. JoinComesFirst(s) /\ \A j \in Joins(s) : j \in 1..Len(link["forwarder"])
              BY DEF StreamsAreSound, Joins
            <6>2. Len(link["forwarder"]) \in Nat
              BY TwoEnds DEF TypeOK
            <6> QED BY <1>4, <4>1, <6>1, <6>2 DEF JoinComesFirst
          <5>2. Joins(s) = {}
            BY <5>1
          <5> QED BY <1>1, <4>1, <5>2, JoinsLose
        <4> QED BY <4>1, TwoEnds
      <3>2. conns'[e][sid'[s]] # s
        BY <1>1, <1>3, <1>13, StreamsAssumption DEF Get, StreamsAssumption
      <3> QED BY <3>1, <3>2, TwoEnds DEF Reaches
    <2> QED BY <1>9, <1>10, <2>2, <2>3 DEF DeliversInOrder
  <1> QED BY <1>3, <1>12, <1>13

\* WriteData to s: its application receives the next chunk, or nothing any more.
LEMMA DeliveryAfterWrite ==
    ASSUME TypeOK, StreamsAreSound, [Next]_vars, NEW e \in Ends, NEW s \in Streams,
           DeliversInOrder(e, s), WriteData(e), hand[e].conn = s
    PROVE  DeliversInOrder(e, s)'
  <1>1. /\ UNCHANGED <<app, taken, loop, link, up, sock, sid, conns>>
        /\ hand' = [hand EXCEPT ![e] = Idle] /\ hand[e].at = "write"
    BY DEF WriteData, linkVars
  <1>2. PICK f \in Frames : f = hand[e].frame
    BY <1>1, HandFields
  <1>3. InHand(e, s) /\ ~InHand(e, s)' /\ hand[e] # Idle
    BY <1>1 DEF InHand, Idle, TypeOK
  <1>4. /\ Queued(e, s)' = Queued(e, s) /\ SentOf(Other(e), s)' = SentOf(Other(e), s)
        /\ Reaches(e, s)' => Reaches(e, s)
    BY <1>1 DEF Queued, SentOf, Reaches, Joins
  <1>5. /\ Len(got[e][s]) \in Nat /\ SentOf(Other(e), s) \in Int
        /\ \A k \in Queued(e, s) : link[e][k].n \in Nat
        /\ got[e][s] \in Seq([from : Streams, n : Nat])
    BY DeliveryTypes, Counted, TwoEnds
  <1>6. /\ f.from = s /\ f.n \in Nat
        /\ \A k \in Queued(e, s) : f.n < link[e][k].n
    BY <1>2, <1>3, FrameFields DEF DeliversInOrder
  <1>7. CASE sock[e][s] = "open" /\ app[e][s] = "open"
    <2>1. f.n = Len(got[e][s]) + 1
      BY <1>2, <1>3, <1>7 DEF DeliversInOrder
    <2>2. f.n <= SentOf(Other(e), s)
      <3>1. FrameIsOf(e, f) /\ f.type = "Data"
        BY <1>1, <1>2, <1>3 DEF StreamsAreSound, HandIsSound
      <3> QED BY <1>5, <1>6, <3>1 DEF FrameIsOf
    <2>3. PICK g \in Seq([from : Streams, n : Nat]) : g = got[e][s]
      BY <1>5
    <2>4. PICK c \in [from : Streams, n : Nat] : c = [from |-> s, n |-> Len(g) + 1]
      <3>1. Len(g) + 1 \in Nat
        BY <1>5, <2>3
      <3> QED BY <3>1
    <2>5. got'[e][s] = Append(g, c)
      BY <1>2, <1>6, <1>7, <2>1, <2>3, <2>4, Written
    <2>6. /\ Len(Append(g, c)) = Len(g) + 1
          /\ \A k \in 1..Len(g) : Append(g, c)[k] = g[k]
          /\ Append(g, c)[Len(g) + 1] = c
      OBVIOUS
    <2>7. Len(got'[e][s]) = Len(got[e][s]) + 1
      BY <2>3, <2>5, <2>6
    <2>8. \A k \in 1..Len(got'[e][s]) : got'[e][s][k] = [from |-> s, n |-> k]
      <3>1. SUFFICES ASSUME NEW k \in 1..(Len(g) + 1) PROVE Append(g, c)[k] = [from |-> s, n |-> k]
        BY <2>3, <2>5, <2>6
      <3>2. CASE k = Len(g) + 1
        BY <2>4, <2>6, <3>2
      <3>3. CASE k # Len(g) + 1
        <4>1. k \in 1..Len(g)
          BY <1>5, <2>3, <3>3
        <4> QED BY <2>3, <2>6, <4>1 DEF DeliversInOrder
      <3> QED BY <3>2, <3>3
    <2>9. /\ Len(got'[e][s]) <= SentOf(Other(e), s)'
          /\ \A k \in Queued(e, s)' : Len(got'[e][s]) < link'[e][k].n
      BY <1>1, <1>4, <1>6, <2>1, <2>2, <2>7
    <2>10. \A j, k \in Queued(e, s)' : j < k => link'[e][j].n < link'[e][k].n
      BY <1>1, <1>4 DEF DeliversInOrder
    <2>11. ASSUME Reaches(e, s)', NEW x \in (Len(got'[e][s]) + 1)..SentOf(Other(e), s)'
           PROVE  \/ \E k \in Queued(e, s)' : link'[e][k].n = x
                  \/ ~up' /\ \A k \in Queued(e, s)' : link'[e][k].n < x
      <3>1. /\ x \in (Len(got[e][s]) + 1)..SentOf(Other(e), s) /\ x # f.n
            /\ Reaches(e, s)
        BY <1>4, <1>5, <2>1, <2>7, <2>11, SMTT(30)
      <3> QED BY <1>1, <1>2, <1>4, <3>1 DEF DeliversInOrder
    <2> QED BY <1>3, <2>8, <2>9, <2>10, <2>11 DEF DeliversInOrder
  <1>8. CASE ~(sock[e][s] = "open" /\ app[e][s] = "open")
    <2>1. got' = got
      BY <1>8, Written
    <2>2. ~Reaches(e, s)'
      <3>1. e = "forwarder" => Joins(s) = {}
        <4>1. e = "forwarder" => loop["forwarder"][s] # "off"
          BY <1>3 DEF StreamsAreSound, HandIsSound
        <4> QED BY <4>1 DEF StreamsAreSound, JoinComesFirst
      <3> QED BY <1>4, <1>8, <3>1 DEF Reaches
    <2>3. /\ Len(got'[e][s]) <= SentOf(Other(e), s)'
          /\ \A k \in 1..Len(got'[e][s]) : got'[e][s][k] = [from |-> s, n |-> k]
          /\ \A k \in Queued(e, s)' : Len(got'[e][s]) < link'[e][k].n
          /\ \A j, k \in Queued(e, s)' : j < k => link'[e][j].n < link'[e][k].n
      BY <1>1, <1>4, <2>1 DEF DeliversInOrder
    <2> QED BY <1>3, <2>2, <2>3 DEF DeliversInOrder
  <1> QED BY <1>7, <1>8

\* The other steps of the frame loops: frames of other streams, and connections closed.
LEMMA DeliveryAfterFrames ==
    ASSUME TypeOK, StreamsAreSound, [Next]_vars, SidsAreUnique, NEW e \in Ends,
           NEW s \in Streams, DeliversInOrder(e, s), NEW d \in Ends, HandleFrames(d)
    PROVE  DeliversInOrder(e, s)'
  <1>1. TypeOK'
    BY TypeStep
  <1>2. /\ hand \in [Ends -> Hands]
        /\ sock \in [Ends -> [Streams -> {"none", "open", "closed"}]]
        /\ conns \in [Ends -> [Sid -> Streams \cup {NoStream}]]
        /\ s # NoStream /\ sid[s] \in Sid
    BY StreamsAssumption DEF TypeOK, StreamsAssumption
  <1>3. ASSUME NEW type, NEW l \in {"write", "close"}, LookUp(d, type, l),
               type = "Data" <=> l = "write",
               ~(type = "Data" /\ d = e /\ Head(link[d]).from = s)
        PROVE  DeliversInOrder(e, s)'
    <2>1. /\ UNCHANGED <<app, got, taken, loop, up, sock, sid, conns>> /\ Arrives(d, type)
      BY <1>3 DEF LookUp, appVars
    <2>2. PICK f \in Frames : f = Head(link[d]) /\ f = link[d][1] /\ f.type = type
      BY <2>1, Arrived
    <2>3. QuietFor(e, s)
      <3>1. /\ link'[d] = Tail(link[d]) /\ link[d] # <<>>
            /\ d # e => link'[e] = link[e]
        BY <1>3, LinkTaken
      <3> QED BY <1>3, <2>2, <3>1 DEF QuietFor
    <2>4. InHand(e, s)' <=> InHand(e, s)
      <3>1. CASE d = e /\ Get(d, f.sid) # NoStream
        <4>1. hand'[e] = [at |-> l, frame |-> f, conn |-> Get(d, f.sid)]
          BY <1>3, <2>2, <3>1, LookUpHand
        <4>2. hand'[e].at = l /\ hand'[e].conn = Get(d, f.sid)
          BY <4>1
        <4>3. Get(d, f.sid) = f.from
          BY <2>1, <2>2, <3>1, FoundIsOwn
        <4>4. ~InHand(e, s)
          BY <2>1, <3>1 DEF Arrives, InHand
        <4>5. ~InHand(e, s)'
          BY <1>3, <2>2, <3>1, <4>2, <4>3 DEF InHand
        <4> QED BY <4>4, <4>5
      <3>2. CASE ~(d = e /\ Get(d, f.sid) # NoStream)
        <4>1. hand'[e] = hand[e]
          BY <1>3, <2>2, <3>2, LookUpHand, ZenonT(60)
        <4> QED BY <4>1 DEF InHand
      <3> QED BY <3>1, <3>2
    <2>5. InHand(e, s) => hand'[e].frame = hand[e].frame
      <3>1. CASE d = e
        BY <2>1, <3>1 DEF Arrives, InHand
      <3>2. CASE d # e
        BY <1>3, <3>2, LookUpHand
      <3> QED BY <3>1, <3>2
    <2>6. SentOf(Other(e), s)' = SentOf(Other(e), s)
      BY <2>1 DEF SentOf
    <2>7. app'[e][s] = "open" /\ sock'[e][s] = "open" /\ conns'[e][sid'[s]] = s => Reaches(e, s)
      BY <2>1 DEF Reaches
    <2> QED BY <1>1, <2>1, <2>3, <2>4, <2>5, <2>6, <2>7, DeliveryQuiet
  <1>4. CASE LookUp(d, "Data", "write")
    <2>1. CASE d = e /\ Head(link[d]).from = s
      BY <1>4, <2>1, DeliveryAfterData
    <2>2. CASE ~(d = e /\ Head(link[d]).from = s)
      BY <1>3, <1>4, <2>2
    <2> QED BY <2>1, <2>2
  <1>5. CASE LookUp(d, "PeerLeave", "close")
    BY <1>3, <1>5
  <1>6. CASE WriteData(d) /\ d = e /\ hand[d].conn = s
    BY <1>6, DeliveryAfterWrite
  <1>7. CASE WriteData(d) /\ ~(d = e /\ hand[d].conn = s)
    <2>1. /\ UNCHANGED <<app, taken, loop, link, up, sock, sid, conns>>
          /\ hand' = [hand EXCEPT ![d] = Idle] /\ hand[d].at = "write"
      BY <1>7 DEF WriteData, linkVars
    <2>2. got'[e][s] = got[e][s]
      BY <1>7, Written
    <2>3. /\ InHand(e, s)' <=> InHand(e, s)
          /\ InHand(e, s) => hand'[e].frame = hand[e].frame
      <3>1. CASE d = e
        <4>1. hand'[e] = Idle
          BY <1>2, <2>1, <3>1
        <4> QED BY <1>7, <3>1, <4>1 DEF InHand, Idle
      <3>2. CASE d # e
        <4>1. hand'[e] = hand[e]
          BY <1>2, <2>1, <3>2
        <4> QED BY <4>1 DEF InHand
      <3> QED BY <3>1, <3>2
    <2>4. SentOf(Other(e), s)' = SentOf(Other(e), s) /\ QuietFor(e, s)
      BY <2>1 DEF SentOf, QuietFor
    <2>5. app'[e][s] = "open" /\ sock'[e][s] = "open" /\ conns'[e][sid'[s]] = s => Reaches(e, s)
      BY <2>1 DEF Reaches
    <2> QED BY <1>1, <2>1, <2>2, <2>3, <2>4, <2>5, DeliveryQuiet
  <1>8. CASE CloseStream(d) \/ RemoveStream(d)
    <2>1. /\ UNCHANGED <<app, got, taken, loop, link, up, sid>>
          /\ hand[d].at \in {"close", "remove"}
      BY <1>8 DEF CloseStream, RemoveStream, appVars, linkVars
    <2>2. /\ hand[d].frame.sid \in Sid /\ hand[d].conn \in Streams
          /\ hand[d] = [at |-> hand[d].at, frame |-> hand[d].frame, conn |-> hand[d].conn]
      BY <2>1, HandFields, FrameFields
    <2>3. /\ sock'[e][s] = "open" => sock[e][s] = "open"
          /\ conns'[e][sid[s]] = s => conns[e][sid[s]] = s
      <3>1. CASE CloseStream(d)
        <4>1. conns' = conns /\ sock' = [sock EXCEPT ![d][hand[d].conn] = "closed"]
          BY <3>1 DEF CloseStream
        <4> QED BY <1>2, <2>2, <4>1
      <3>2. CASE RemoveStream(d)
        <4>1. sock' = sock /\ conns' = [conns EXCEPT ![d][hand[d].frame.sid] = NoStream]
          BY <3>2 DEF RemoveStream, Remove
        <4> QED BY <1>2, <2>2, <4>1
      <3> QED BY <1>8, <3>1, <3>2
    <2>4. /\ InHand(e, s)' <=> InHand(e, s)
          /\ InHand(e, s) => hand'[e].frame = hand[e].frame
      <3>1. CASE d = e
        <4>1. ~InHand(e, s)
          BY <2>1, <3>1 DEF InHand
        <4>2. hand'[e].at # "write"
          <5>1. CASE CloseStream(d)
            <6>1. hand'[e] = [hand[e] EXCEPT !.at = "remove"]
              BY <1>2, <3>1, <5>1 DEF CloseStream
            <6> QED BY <2>2, <3>1, <6>1
          <5>2. CASE RemoveStream(d)
            <6>1. hand'[e] = Idle
              BY <1>2, <3>1, <5>2 DEF RemoveStream
            <6> QED BY <6>1 DEF Idle
          <5> QED BY <1>8, <5>1, <5>2
        <4> QED BY <4>1, <4>2 DEF InHand
      <3>2. CASE d # e
        <4>1. hand'[e] = hand[e]
          BY <1>2, <1>8, <3>2 DEF CloseStream, RemoveStream
        <4> QED BY <4>1 DEF InHand
      <3> QED BY <3>1, <3>2
    <2>5. SentOf(Other(e), s)' = SentOf(Other(e), s) /\ QuietFor(e, s)
      BY <2>1 DEF SentOf, QuietFor
    <2>6. app'[e][s] = "open" /\ sock'[e][s] = "open" /\ conns'[e][sid'[s]] = s => Reaches(e, s)
      BY <2>1, <2>3 DEF Reaches
    <2> QED BY <1>1, <2>1, <2>3, <2>4, <2>5, <2>6, DeliveryQuiet
  <1> QED BY <1>4, <1>5, <1>6, <1>7, <1>8 DEF HandleFrames

\* The end of the session cuts off the last chunks.
LEMMA DeliveryAfterEnd ==
    ASSUME TypeOK, NEW e \in Ends, NEW s \in Streams, DeliversInOrder(e, s), SessionEnds
    PROVE  DeliversInOrder(e, s)'
  <1>1. /\ UNCHANGED <<app, got, taken, loop, sock, sid, conns, hand>> /\ ~up'
    BY DEF SessionEnds, appVars
  <1>2. PICK q \in Seq(Frames) : q = link[e]
    BY DEF TypeOK
  <1>3. PICK m \in 0..Len(q) : link'[e] = SubSeq(q, 1, m)
    BY <1>2, LinkTaken
  <1>4. /\ Len(q) \in Nat
        /\ Len(SubSeq(q, 1, m)) = m
        /\ \A k \in 1..m : SubSeq(q, 1, m)[k] = q[k] /\ k \in 1..Len(q)
    BY QueueIsCut
  <1>5. /\ \A k \in Queued(e, s)' : k \in Queued(e, s) /\ k \in 1..m /\ link'[e][k].n = q[k].n
        /\ \A k \in Queued(e, s) : k \in 1..Len(q)
        /\ \A k \in Queued(e, s) : k <= m => k \in Queued(e, s)'
    BY <1>2, <1>3, <1>4 DEF Queued
  <1>6. /\ SentOf(Other(e), s)' = SentOf(Other(e), s)
        /\ InHand(e, s)' <=> InHand(e, s)
    BY <1>1 DEF SentOf, InHand
  <1>7. Reaches(e, s)' => Reaches(e, s)
    <2>1. ASSUME e = "forwarder" PROVE \A k \in Joins(s)' : k \in Joins(s)
      BY <1>2, <1>3, <1>4, <2>1 DEF Joins
    <2> QED BY <1>1, <2>1 DEF Reaches
  <1>8. /\ Len(got'[e][s]) <= SentOf(Other(e), s)'
        /\ \A k \in 1..Len(got'[e][s]) : got'[e][s][k] = [from |-> s, n |-> k]
        /\ \A k \in Queued(e, s)' : Len(got'[e][s]) < link'[e][k].n
        /\ \A j, k \in Queued(e, s)' : j < k => link'[e][j].n < link'[e][k].n
    BY <1>1, <1>2, <1>5, <1>6 DEF DeliversInOrder
  <1>9. InHand(e, s)' =>
            /\ hand'[e].frame.from = s
            /\ sock'[e][s] = "open" /\ app'[e][s] = "open" =>
                   hand'[e].frame.n = Len(got'[e][s]) + 1
            /\ \A k \in Queued(e, s)' : hand'[e].frame.n < link'[e][k].n
    BY <1>1, <1>2, <1>5, <1>6 DEF DeliversInOrder
  <1>10. ASSUME Reaches(e, s)', NEW x \in (Len(got'[e][s]) + 1)..SentOf(Other(e), s)'
         PROVE  \/ InHand(e, s)' /\ hand'[e].frame.n = x
                \/ \E k \in Queued(e, s)' : link'[e][k].n = x
                \/ ~up' /\ \A k \in Queued(e, s)' : link'[e][k].n < x
    <2>1. \/ InHand(e, s) /\ hand[e].frame.n = x
          \/ \E k \in Queued(e, s) : q[k].n = x
          \/ \A k \in Queued(e, s) : q[k].n < x
      BY <1>1, <1>2, <1>6, <1>7, <1>10 DEF DeliversInOrder
    <2>2. ASSUME NEW k \in Queued(e, s), q[k].n = x
          PROVE  \/ \E j \in Queued(e, s)' : link'[e][j].n = x
                 \/ \A j \in Queued(e, s)' : link'[e][j].n < x
      <3>1. CASE k <= m
        <4>1. k \in Queued(e, s)' /\ link'[e][k].n = x
          BY <1>5, <2>2, <3>1
        <4> QED BY <4>1
      <3>2. CASE k > m
        <4>1. ASSUME NEW j \in Queued(e, s)' PROVE link'[e][j].n < x
          <5>1. j \in Queued(e, s) /\ j < k /\ link'[e][j].n = q[j].n
            BY <1>4, <1>5, <3>2
          <5> QED BY <1>2, <2>2, <5>1 DEF DeliversInOrder
        <4> QED BY <4>1
      <3>3. k \in Int /\ m \in Int
        BY <1>4, <1>5
      <3> QED BY <3>1, <3>2, <3>3
    <2>3. ASSUME \A k \in Queued(e, s) : q[k].n < x
          PROVE  \A j \in Queued(e, s)' : link'[e][j].n < x
      BY <1>5, <2>3
    <2> QED BY <1>1, <1>6, <2>1, <2>2, <2>3
  <1> QED BY <1>8, <1>9, <1>10 DEF DeliversInOrder

LEMMA DeliveryStep ==
    ASSUME TypeOK, StreamsAreSound, [Next]_vars, SidsAreUnique, NEW e \in Ends,
           NEW s \in Streams, DeliversInOrder(e, s)
    PROVE  DeliversInOrder(e, s)'
  <1>1. CASE AnnounceFails \/ (\E d \in Ends, t \in Streams : AppCloses(d, t)) \/ UNCHANGED vars
    <2>1. TypeOK'
      BY TypeStep
    <2>2. /\ app \in [Ends -> [Streams -> {"open", "eof", "reset"}]]
          /\ loop \in [Ends -> [Streams -> {"off", "read", "send", "remove", "leave", "close", "done"}]]
          /\ sock \in [Ends -> [Streams -> {"none", "open", "closed"}]]
          /\ conns \in [Ends -> [Sid -> Streams \cup {NoStream}]]
          /\ s # NoStream /\ sid[s] \in Sid /\ Other(e) \in Ends
      BY TwoEnds, StreamsAssumption DEF TypeOK, StreamsAssumption
    <2>3. UNCHANGED <<got, taken, link, up, sid, hand>>
      BY <1>1 DEF AnnounceFails, AppCloses, vars, appVars, linkVars
    <2>4. /\ SentOf(Other(e), s)' = SentOf(Other(e), s)
          /\ sock'[e][s] = "open" => sock[e][s] = "open"
          /\ app'[e][s] = "open" => app[e][s] = "open"
          /\ conns'[e][sid[s]] = s => conns[e][sid[s]] = s
      <3>1. CASE AnnounceFails
        <4>1. /\ joining \in Streams /\ loop["listener"][joining] = "off" /\ sid[joining] \in Sid
          BY <3>1, JoiningIsOff DEF AnnounceFails, TypeOK
        <4>2. /\ app' = app
              /\ sock' = [sock EXCEPT !["listener"][joining] = "closed"]
              /\ conns' = [conns EXCEPT !["listener"][sid[joining]] = NoStream]
              /\ loop' = [loop EXCEPT !["listener"][joining] = "done"]
          BY <3>1 DEF AnnounceFails, Remove, Step, appVars
        <4>3. SentOf(Other(e), s)' = SentOf(Other(e), s)
          BY <2>2, <2>3, <4>1, <4>2, TwoEnds DEF SentOf
        <4> QED BY <2>2, <4>1, <4>2, <4>3, TwoEnds
      <3>2. ASSUME NEW d \in Ends, NEW t \in Streams, AppCloses(d, t)
            PROVE  /\ loop' = loop /\ sock' = sock /\ conns' = conns
                   /\ app'[e][s] = "open" => app[e][s] = "open"
        <4>1. /\ loop' = loop /\ sock' = sock /\ conns' = conns /\ app[d][t] = "open"
              /\ \E a \in Closings : app' = [app EXCEPT ![d][t] = a]
          BY <3>2 DEF AppCloses
        <4> QED BY <2>2, <4>1
      <3>3. CASE UNCHANGED vars
        BY <3>3 DEF vars, appVars, SentOf
      <3>4. loop' = loop => SentOf(Other(e), s)' = SentOf(Other(e), s)
        BY <2>3 DEF SentOf
      <3> QED BY <1>1, <3>1, <3>2, <3>3, <3>4
    <2>5. /\ InHand(e, s)' <=> InHand(e, s)
          /\ QuietFor(e, s)
      BY <2>3 DEF InHand, QuietFor
    <2>6. app'[e][s] = "open" /\ sock'[e][s] = "open" /\ conns'[e][sid'[s]] = s => Reaches(e, s)
      BY <2>3, <2>4 DEF Reaches
    <2> QED BY <2>1, <2>3, <2>4, <2>5, <2>6, DeliveryQuiet
  <1> QED BY <1>1, DeliveryAfterAccept, DeliveryAfterAnnounce, DeliveryAfterLoop, DeliveryAfterDial,
             DeliveryAfterFrames, DeliveryAfterEnd DEF Next

-------------------------------------------------------------------------------
(* Theorems. *)

\* Until the session has accepted more streams than there are identifiers, the chunks
\* on their way to an application go on where those it has received end.
THEOREM DeliveryHolds == Spec => []DeliveryIsSound
  <1>1. Init => DeliveryIsSound
    <2> SUFFICES ASSUME Init PROVE DeliveryIsSound
      OBVIOUS
    <2>1. Accepted = {}
      BY TwoEnds DEF Init, Accepted
    <2>2. IsFiniteSet(Accepted) /\ Cardinality(Accepted) = 0
      BY <2>1, FS_EmptySet
    <2>3. SidsAreUnique
      BY <2>1, <2>2, StreamsAssumption DEF Init, SidsAreUnique, StreamsAssumption
    <2>4. ASSUME NEW e \in Ends, NEW s \in Streams PROVE DeliversInOrder(e, s)
      <3>1. /\ loop[Other(e)][s] = "off" /\ hand[e] = Idle
            /\ got[e][s] = <<>>
        BY TwoEnds DEF Init
      <3>2. TypeOK /\ StreamsAreSound
        BY TypeInit, StreamsInit
      <3>3. Queued(e, s) = {} /\ SentOf(Other(e), s) = 0
        BY <3>1, <3>2, NothingSentBefore
      <3>4. ~InHand(e, s)
        BY <3>1 DEF InHand, Idle
      <3> QED BY <3>1, <3>3, <3>4, DeliveryOfNew
    <2> QED BY <2>2, <2>3, <2>4 DEF DeliveryIsSound
  <1>2. TypeOK /\ StreamsAreSound /\ DeliveryIsSound /\ [Next]_vars => DeliveryIsSound'
    <2> SUFFICES ASSUME TypeOK, StreamsAreSound, DeliveryIsSound, [Next]_vars
                 PROVE  DeliveryIsSound'
      OBVIOUS
    <2>1. IsFiniteSet(Accepted)
      BY DEF DeliveryIsSound
    <2>2. IsFiniteSet(Accepted)' /\ (NotWrapped' => NotWrapped)
      BY <2>1, WrapsLater
    <2>3. ASSUME NotWrapped'
          PROVE  SidsAreUnique' /\ \A e \in Ends, s \in Streams : DeliversInOrder(e, s)'
      <3>1. SidsAreUnique /\ \A e \in Ends, s \in Streams : DeliversInOrder(e, s)
        BY <2>2, <2>3 DEF DeliveryIsSound
      <3>2. SidsAreUnique'
        BY <2>1, <2>3, <3>1, SidsStep
      <3>3. \A e \in Ends, s \in Streams : DeliversInOrder(e, s)'
        BY <3>1, DeliveryStep
      <3> QED BY <3>2, <3>3
    <2> QED BY <2>2, <2>3 DEF DeliveryIsSound
  <1> QED BY <1>1, <1>2, MultiplexerIsSound, PTL DEF Spec

\* Until then, what an application receives is a prefix of what the application at the
\* other end of the same stream has written, whenever and however either end closes.
THEOREM StreamsArriveInOrder == Spec => [](NotWrapped => StreamIsPrefix)
  <1>1. DeliveryIsSound => (NotWrapped => StreamIsPrefix)
    BY DEF DeliveryIsSound, DeliversInOrder, StreamIsPrefix
  <1> QED BY <1>1, DeliveryHolds, PTL

-------------------------------------------------------------------------------
(* A stream is a pipe: the multiplexer implements StreamPromise. *)

LEMMA OverIs ==
    ASSUME NEW e \in Ends, NEW s \in Streams
    PROVE  /\ <<e, s>> \in EndsOver <=> sock[e][s] = "closed" \/ app[e][s] # "open"
           /\ <<e, s>> \in EndsOver' <=> sock'[e][s] = "closed" \/ app'[e][s] # "open"
  BY DEF EndsOver

LEMMA OverIsMadeOf ==
    /\ EndsOver \subseteq Ends \X Streams
    /\ EndsOver' \subseteq Ends \X Streams
    /\ \A p \in Ends \X Streams : \E e \in Ends, s \in Streams : p = <<e, s>>
  BY DEF EndsOver

\* No end becomes over or ceases to be when each is what it was, or is opened.
LEMMA NothingIsOver ==
    ASSUME app' = app,
           \A e \in Ends, s \in Streams :
               sock'[e][s] # sock[e][s] => sock[e][s] = "none" /\ sock'[e][s] = "open"
    PROVE  EndsOver' = EndsOver
  <1>1. \A e \in Ends, s \in Streams : <<e, s>> \in EndsOver' <=> <<e, s>> \in EndsOver
    BY OverIs
  <1>2. \A p \in Ends \X Streams : p \in EndsOver' <=> p \in EndsOver
    BY <1>1, OverIsMadeOf
  <1> QED BY <1>2, OverIsMadeOf

\* A connection is closed at this end, or the application there closes it.
LEMMA OneIsOver ==
    ASSUME TypeOK, NEW e \in Ends, NEW s \in Streams, UNCHANGED <<taken, got>>,
           \/ sock' = [sock EXCEPT ![e][s] = "closed"] /\ app' = app
           \/ \E a \in {"eof", "reset"} : app' = [app EXCEPT ![e][s] = a] /\ sock' = sock
    PROVE  Pipes!IsOver(e, s)
  <1>1. /\ sock \in [Ends -> [Streams -> {"none", "open", "closed"}]]
        /\ app \in [Ends -> [Streams -> {"open", "eof", "reset"}]]
    BY DEF TypeOK
  <1>2. /\ sock'[e][s] = "closed" \/ app'[e][s] # "open"
        /\ \A d \in Ends, t \in Streams : <<d, t>> # <<e, s>> =>
               sock'[d][t] = sock[d][t] /\ app'[d][t] = app[d][t]
        /\ sock[e][s] = "closed" \/ app[e][s] # "open"
               => sock'[e][s] = "closed" \/ app'[e][s] # "open"
    BY <1>1
  <1>3. \A d \in Ends, t \in Streams :
            <<d, t>> \in EndsOver' <=> <<d, t>> \in EndsOver \cup {<<e, s>>}
    BY <1>2, OverIs
  <1>4. \A p \in Ends \X Streams : p \in EndsOver' <=> p \in EndsOver \cup {<<e, s>>}
    BY <1>3, OverIsMadeOf
  <1>5. EndsOver' = EndsOver \cup {<<e, s>>}
    BY <1>4, OverIsMadeOf
  <1> QED BY <1>5 DEF Pipes!IsOver

\* A connection is opened once.
LEMMA OpeningIsQuiet ==
    ASSUME TypeOK, StreamsAreSound, DialTarget \/ \E s \in Streams : Accept(s)
    PROVE  UNCHANGED <<taken, got, EndsOver>>
  <1>1. sock \in [Ends -> [Streams -> {"none", "open", "closed"}]]
    BY DEF TypeOK
  <1>2. CASE DialTarget
    <2>1. Arrives("forwarder", "PeerJoin")
      BY <1>2 DEF DialTarget
    <2>2. PICK t \in Streams : t = Head(link["forwarder"]).from
      BY <2>1, Arrived, TwoEnds
    <2>3. loop["forwarder"][t] = "off"
      BY <2>1, <2>2, JoinStarts
    <2>4. sock["forwarder"][t] = "none"
      BY <2>3 DEF StreamsAreSound, StartsInOrder
    <2>5. /\ sock' = [sock EXCEPT !["forwarder"][t] = "open"]
          /\ UNCHANGED <<app, taken, got>>
      BY <1>2, <2>2 DEF DialTarget, appVars
    <2>6. \A e \in Ends, s \in Streams :
              sock'[e][s] # sock[e][s] => sock[e][s] = "none" /\ sock'[e][s] = "open"
      BY <1>1, <2>4, <2>5, TwoEnds
    <2>7. EndsOver' = EndsOver
      BY <2>5, <2>6, NothingIsOver
    <2> QED BY <2>5, <2>7
  <1>3. ASSUME NEW t \in Streams, Accept(t)
        PROVE  UNCHANGED <<taken, got, EndsOver>>
    <2>1. /\ sock' = [sock EXCEPT !["listener"][t] = "open"]
          /\ sock["listener"][t] = "none"
          /\ UNCHANGED <<app, taken, got>>
      BY <1>3 DEF Accept, appVars
    <2>2. \A e \in Ends, s \in Streams :
              sock'[e][s] # sock[e][s] => sock[e][s] = "none" /\ sock'[e][s] = "open"
      BY <1>1, <2>1, TwoEnds
    <2>3. EndsOver' = EndsOver
      BY <2>1, <2>2, NothingIsOver
    <2> QED BY <2>1, <2>3
  <1> QED BY <1>2, <1>3

\* What a frame loop writes to a connection that is not over is the next chunk.
LEMMA WritingIsPromised ==
    ASSUME TypeOK, StreamsAreSound, NEW e \in Ends, WriteData(e),
           \A s \in Streams : DeliversInOrder(e, s)
    PROVE  (\E s \in Streams : Pipes!Gets(e, s)) \/ UNCHANGED <<taken, got, EndsOver>>
  <1>1. /\ hand[e].at = "write"
        /\ UNCHANGED <<sock, app, taken>>
    BY DEF WriteData
  <1>2. EndsOver' = EndsOver
    BY <1>1, NothingIsOver
  <1>3. PICK s \in Streams, f \in Frames : s = hand[e].conn /\ f = hand[e].frame
    BY <1>1, HandFields
  <1>4. CASE ~(sock[e][s] = "open" /\ app[e][s] = "open")
    <2>1. got' = got
      BY <1>3, <1>4 DEF WriteData
    <2> QED BY <1>1, <1>2, <2>1
  <1>5. CASE sock[e][s] = "open" /\ app[e][s] = "open"
    <2>1. InHand(e, s) /\ hand[e] # Idle
      BY <1>1, <1>3 DEF InHand, Idle
    <2>2. f.from = s /\ f.n = Len(got[e][s]) + 1
      BY <1>3, <1>5, <2>1 DEF DeliversInOrder
    <2>3. f.n \in 1..SentOf(Other(e), s)
      <3>1. FrameIsOf(e, f) /\ f.type = "Data"
        BY <1>1, <1>3, <2>1 DEF StreamsAreSound, HandIsSound
      <3> QED BY <2>2, <3>1 DEF FrameIsOf
    <2>4. Len(got[e][s]) < taken[Other(e)][s]
      <3>1. taken[Other(e)][s] \in Nat /\ Len(got[e][s]) \in Nat
        BY TwoEnds, Counted, DeliveryTypes
      <3>2. SentOf(Other(e), s) <= taken[Other(e)][s]
        BY <3>1 DEF SentOf
      <3>3. SentOf(Other(e), s) \in Int
        BY <3>1 DEF SentOf
      <3> QED BY <2>2, <2>3, <3>1, <3>2, <3>3
    <2>5. got' = [got EXCEPT ![e][s] = Append(@, [from |-> s, n |-> Len(@) + 1])]
      <3>1. got' = [got EXCEPT ![e][s] = Append(@, [from |-> f.from, n |-> f.n])]
        BY <1>3, <1>5 DEF WriteData
      <3> QED BY <2>2, <3>1
    <2>6. <<e, s>> \notin EndsOver
      BY <1>5, OverIs
    <2> QED BY <1>1, <1>2, <2>4, <2>5, <2>6, TwoEnds DEF Pipes!Gets
  <1> QED BY <1>4, <1>5

\* Steps that neither read, give nor close anything.
LEMMA QuietIsPromised ==
    ASSUME UNCHANGED <<taken, got, sock, app>>
    PROVE  UNCHANGED <<taken, got, EndsOver>>
  BY DEF EndsOver

LEMMA ReadLoopIsPromised ==
    ASSUME TypeOK, NEW e \in Ends, NEW s \in Streams, ConnReadLoop(e, s)
    PROVE  \/ Pipes!Reads(e, s) \/ Pipes!IsOver(e, s)
           \/ UNCHANGED <<taken, got, EndsOver>>
  <1>1. CASE ReadChunk(e, s)
    <2>1. /\ taken' = [taken EXCEPT ![e][s] = @ + 1]
          /\ UNCHANGED <<got, sock, app>>
      BY <1>1 DEF ReadChunk, appVars
    <2> QED BY <2>1 DEF Pipes!Reads, EndsOver
  <1>2. CASE LoopCloses(e, s)
    <2>1. /\ sock' = [sock EXCEPT ![e][s] = "closed"]
          /\ UNCHANGED <<app, taken, got>>
      BY <1>2 DEF LoopCloses, appVars
    <2> QED BY <2>1, OneIsOver
  <1>3. CASE ReadFails(e, s) \/ SendChunk(e, s) \/ LoopRemoves(e, s) \/ LoopLeaves(e, s)
    <2>1. UNCHANGED <<taken, got, sock, app>>
      BY <1>3 DEF ReadFails, SendChunk, LoopRemoves, LoopLeaves, appVars
    <2> QED BY <2>1, QuietIsPromised
  <1> QED BY <1>1, <1>2, <1>3 DEF ConnReadLoop

LEMMA FrameLoopIsPromised ==
    ASSUME TypeOK, StreamsAreSound, NEW e \in Ends, HandleFrames(e),
           \A s \in Streams : DeliversInOrder(e, s)
    PROVE  \/ \E s \in Streams : Pipes!Gets(e, s) \/ Pipes!IsOver(e, s)
           \/ UNCHANGED <<taken, got, EndsOver>>
  <1>1. CASE WriteData(e)
    BY <1>1, WritingIsPromised
  <1>2. CASE CloseStream(e)
    <2>1. PICK s \in Streams : s = hand[e].conn
      BY <1>2, HandFields DEF CloseStream
    <2>2. /\ sock' = [sock EXCEPT ![e][s] = "closed"]
          /\ UNCHANGED <<app, taken, got>>
      BY <1>2, <2>1 DEF CloseStream, appVars
    <2> QED BY <2>2, OneIsOver
  <1>3. CASE LookUp(e, "Data", "write") \/ LookUp(e, "PeerLeave", "close") \/ RemoveStream(e)
    <2>1. UNCHANGED <<taken, got, sock, app>>
      BY <1>3 DEF LookUp, RemoveStream, appVars
    <2> QED BY <2>1, QuietIsPromised
  <1> QED BY <1>1, <1>2, <1>3 DEF HandleFrames

\* Every step of the multiplexer is one of StreamPromise or none.
LEMMA StepRefines ==
    TypeOK /\ StreamsAreSound /\ DeliveryIsSound /\ NotWrapped /\ [Next]_vars
        => [Pipes!Next]_(Pipes!vars)
  <1> SUFFICES ASSUME TypeOK, StreamsAreSound, DeliveryIsSound, NotWrapped, [Next]_vars
               PROVE  \/ \E e \in Ends, s \in Streams :
                             Pipes!Reads(e, s) \/ Pipes!Gets(e, s) \/ Pipes!IsOver(e, s)
                      \/ UNCHANGED <<taken, got, EndsOver>>
    BY DEF Pipes!Next, Pipes!vars
  <1>1. CASE \E e \in Ends, s \in Streams : AppCloses(e, s)
    <2>1. PICK e \in Ends, s \in Streams : AppCloses(e, s)
      BY <1>1
    <2>2. /\ \E a \in {"eof", "reset"} : app' = [app EXCEPT ![e][s] = a]
          /\ UNCHANGED <<sock, taken, got>>
      BY <2>1, StreamsAssumption DEF AppCloses, StreamsAssumption
    <2>3. Pipes!IsOver(e, s)
      BY <2>2, OneIsOver
    <2> QED BY <2>3
  <1>2. CASE \E e \in Ends, s \in Streams : ConnReadLoop(e, s)
    BY <1>2, ReadLoopIsPromised
  <1>3. CASE DialTarget \/ \E s \in Streams : Accept(s)
    BY <1>3, OpeningIsQuiet
  <1>4. CASE AnnounceFails
    <2>1. PICK s \in Streams : s = joining
      BY <1>4 DEF AnnounceFails, TypeOK
    <2>2. /\ sock' = [sock EXCEPT !["listener"][s] = "closed"]
          /\ UNCHANGED <<app, taken, got>>
      BY <1>4, <2>1 DEF AnnounceFails, appVars
    <2>3. Pipes!IsOver("listener", s)
      BY <2>2, OneIsOver, TwoEnds
    <2> QED BY <2>3, TwoEnds
  <1>5. CASE \E e \in Ends : HandleFrames(e)
    BY <1>5, FrameLoopIsPromised DEF DeliveryIsSound
  <1>6. CASE Announce \/ DialFails \/ SessionEnds \/ UNCHANGED vars
    <2>1. UNCHANGED <<taken, got, sock, app>>
      BY <1>6 DEF Announce, DialFails, SessionEnds, vars, appVars
    <2> QED BY <2>1, QuietIsPromised
  <1> QED BY <1>1, <1>2, <1>3, <1>4, <1>5, <1>6 DEF Next

LEMMA InitRefines == Init => Pipes!Init
  <1> SUFFICES ASSUME Init PROVE EndsOver = {}
    BY DEF Init, Pipes!Init
  <1>1. \A e \in Ends, s \in Streams : sock[e][s] = "none" /\ app[e][s] = "open"
    BY DEF Init
  <1>2. \A p \in Ends \X Streams : p \notin EndsOver
    BY <1>1, OverIs, OverIsMadeOf
  <1> QED BY <1>2, OverIsMadeOf

\* For as long as a session accepts no more streams than there are identifiers, it gives
\* the applications what StreamPromise allows: every stream is a pipe in each direction.
THEOREM StreamsKeepPromise == Spec /\ []NotWrapped => StreamsArePipes
  <1>1. Spec => [](TypeOK /\ StreamsAreSound /\ DeliveryIsSound)
    BY MultiplexerIsSound, DeliveryHolds, PTL
  <1>2. Spec /\ []NotWrapped => Pipes!Init /\ [][Pipes!Next]_(Pipes!vars)
    BY <1>1, InitRefines, StepRefines, PTL DEF Spec
  <1> QED BY <1>2 DEF StreamsArePipes, Pipes!Spec

===============================================================================
