------------------------------ MODULE TunnelProofs ------------------------------
(***************************************************************************)
(* Proofs about one connection, for every delay of the network and every   *)
(* number of data frames: the frames of two writers never mix, and no      *)
(* client is turned away during its handshake; and, when a piece is under  *)
(* way for less than half of what the interval of the heartbeats leaves    *)
(* of the read deadline, no end is taken for dead that is not.             *)
(***************************************************************************)
EXTENDS Tunnel, TLAPS

-------------------------------------------------------------------------------
(* The inductive invariant. *)

\* What has to be written next is the payload of the frame whose writer has the mutex.
Owed(e) == IF mutex[e] = None THEN None ELSE sending[e][mutex[e]]

MutexGuardsFrames ==
    \A e \in Ends : Other(e) \notin closed /\ e \notin closed =>
        Expected(e, Len(wire[e]) + 1) = Owed(e)

EndsAreSound ==
    /\ \A e \in Ends : e \in closed <=> phase[e] = "end"
    /\ \A e \in Ends : sending[e]["keepalive"] \in {None, "Keepalive"}
    /\ \A e \in Ends : reader[e] # None => HasPayload(reader[e])
    /\ \A e \in Ends : wire[e] = <<>> => late[e] = 0
    /\ phase["server"] # "closing"

\* The server answers, and says nothing else before it runs.
AnswersAreInOrder ==
    /\ phase["server"] = "auth" => wire["server"] = <<>> /\ sending["server"]["mode"] = None
    /\ phase["server"] \in {"auth", "reg"} =>
           /\ "server" \notin alive /\ reader["client"] = None
           /\ sending["server"]["keepalive"] = None
           /\ sending["server"]["mode"] \in {None, "AuthOK"}
           /\ \A k \in 1..Len(wire["server"]) : wire["server"][k].kind = "AuthOK"
    /\ phase["client"] = "run" => phase["server"] \in {"run", "end"}

\* The client says Auth, waits for its answer, says Register and waits again, and its
\* ticker does not fire meanwhile.
SaysOnly(f) ==
    /\ sending["client"]["mode"] \in {None, f}
    /\ reader["server"] \in {None, f}
    /\ \A k \in 1..Len(wire["client"]) : wire["client"][k].kind = f

RequestsAreInOrder ==
    /\ Waiting =>
           /\ "client" \in alive /\ sending["client"]["keepalive"] = None
           /\ since["client"] <= wait + (IF phase["client"] = "reg" THEN 1 ELSE 0)
           /\ idle["client"] <= since["client"] /\ idle["server"] <= since["client"]
    /\ phase["client"] = "auth" =>
           /\ SaysOnly("Auth") /\ phase["server"] \in {"auth", "reg"}
           /\ \A k \in 1..Len(wire["client"]) : wire["client"][k].part = "payload" =>
                  k = Len(wire["client"]) /\ sending["client"]["mode"] = None
           /\ phase["server"] = "reg" => /\ wire["client"] = <<>> /\ reader["server"] = None
                                         /\ sending["client"]["mode"] = None
    /\ phase["client"] = "reg" => SaysOnly("Register") /\ phase["server"] \in {"reg", "run"}

ConnectionIsSound ==
    /\ StreamsAreWhole /\ MutexGuardsFrames /\ EndsAreSound
    /\ AnswersAreInOrder /\ RequestsAreInOrder

\* How long an end that reads can have waited for a frame of one that sends heartbeats.
Watched(e) ==
    /\ ~cut /\ e \notin closed /\ Other(e) \notin closed
    /\ phase[Other(e)] = "run" /\ (e = "server" => ~tun)

TickersRun ==
    /\ "client" \in alive \/ closed # {}
    /\ phase["server"] = "run" /\ ~tun => "server" \in alive \/ closed # {}

HeartbeatsComeIn ==
    \A e \in Ends : Watched(e) =>
        /\ idle[Other(e)] <= Interval + late[e] + (IF reader[Other(e)] = None THEN 0 ELSE MaxLag)
        /\ wire[e] = <<>> /\ (\A w \in Writers : sending[e][w] = None) =>
               idle[Other(e)] <= since[e]

TimesAreSound == TickersRun /\ HeartbeatsComeIn /\ NoFalseTimeout

-------------------------------------------------------------------------------
(* What the helpers of the actions do. *)

LEMMA TwoEnds ==
    /\ Other("client") = "server" /\ Other("server") = "client"
    /\ \A e \in Ends : Other(e) \in Ends /\ Other(Other(e)) = e /\ Other(e) # e
  BY DEF Other, Ends

LEMMA SaysIs ==
    ASSUME TypeOK, NEW e \in Ends, NEW w \in Writers, NEW f \in Kinds \cup {None}, Says(e, w, f)
    PROVE  /\ sending' \in [Ends -> [Writers -> Kinds \cup {None}]]
           /\ \A d \in Ends, v \in Writers :
                  sending'[d][v] = IF d = e /\ v = w THEN f ELSE sending[d][v]
  BY DEF TypeOK, Says

PieceSet == [part : {"header", "payload"}, kind : Kinds]

LEMMA PieceIs ==
    \A p \in {"header", "payload"}, f \in Kinds :
        Piece(p, f) \in PieceSet /\ Piece(p, f).part = p /\ Piece(p, f).kind = f
  BY DEF Piece, PieceSet

LEMMA AppendIs ==
    ASSUME NEW S, NEW s \in Seq(S), NEW x \in S
    PROVE  /\ Append(s, x) \in Seq(S) /\ Append(s, x) # <<>>
           /\ Len(Append(s, x)) = Len(s) + 1 /\ Len(s) \in Nat
           /\ \A k \in 1..Len(s) : Append(s, x)[k] = s[k]
           /\ Append(s, x)[Len(s) + 1] = x
  OBVIOUS

LEMMA TailIs ==
    ASSUME NEW S, NEW s \in Seq(S), s # <<>>
    PROVE  /\ Tail(s) \in Seq(S) /\ Head(s) \in S /\ Head(s) = s[1]
           /\ Len(s) \in Nat /\ Len(s) >= 1 /\ Len(Tail(s)) = Len(s) - 1
           /\ \A k \in 1..Len(Tail(s)) : Tail(s)[k] = s[k + 1]
  OBVIOUS

LEMMA PutIs ==
    ASSUME TypeOK, NEW e \in Ends, NEW p \in {"header", "payload"}, NEW f \in Kinds, Put(e, p, f)
    PROVE  /\ wire' \in [Ends -> Seq(PieceSet)]
           /\ \A d \in Ends : d # e \/ Other(e) \in closed => wire'[d] = wire[d]
           /\ Other(e) \notin closed => wire'[e] = Append(wire[e], Piece(p, f))
  <1>1. wire \in [Ends -> Seq(PieceSet)]
    BY DEF TypeOK, PieceSet
  <1>2. Append(wire[e], Piece(p, f)) \in Seq(PieceSet)
    BY <1>1, PieceIs, AppendIs
  <1> QED BY <1>1, <1>2 DEF Put

LEMMA TakesIs ==
    ASSUME TypeOK, NEW e \in Ends, Takes(e)
    PROVE  /\ wire' \in [Ends -> Seq(PieceSet)] /\ wire'[e] = wire[e]
           /\ wire'[Other(e)] = Tail(wire[Other(e)]) /\ wire[Other(e)] # <<>>
           /\ Head(wire[Other(e)]) = wire[Other(e)][1] /\ Head(wire[Other(e)]) \in PieceSet
           /\ Head(wire[Other(e)]).kind \in Kinds
           /\ late' \in [Ends -> 0..MaxLag] /\ late'[Other(e)] = 0 /\ late'[e] = late[e]
  <1>1. /\ wire \in [Ends -> Seq(PieceSet)] /\ late \in [Ends -> 0..MaxLag]
        /\ wire[Other(e)] # <<>> /\ Other(e) \in Ends /\ Other(e) # e
    BY TwoEnds DEF TypeOK, Takes, PieceSet
  <1>2. /\ wire' = [wire EXCEPT ![Other(e)] = Tail(@)] /\ late' = [late EXCEPT ![Other(e)] = 0]
    BY DEF Takes
  <1>3. /\ Tail(wire[Other(e)]) \in Seq(PieceSet) /\ Head(wire[Other(e)]) \in PieceSet
        /\ Head(wire[Other(e)]) = wire[Other(e)][1]
    BY <1>1, TailIs
  <1>4. 0 \in 0..MaxLag
    BY TunnelAssumption
  <1>5. Head(wire[Other(e)]).kind \in Kinds
    BY <1>3 DEF PieceSet
  <1> QED BY <1>1, <1>2, <1>3, <1>4, <1>5

LEMMA OlderIs ==
    ASSUME NEW c, NEW max \in Nat, c \in [Ends -> 0..max], NEW on
    PROVE  /\ Older(c, on, max) \in [Ends -> 0..max]
           /\ \A e \in Ends : /\ ~on[e] => Older(c, on, max)[e] = 0
                              /\ Older(c, on, max)[e] <= c[e] + 1
                              /\ on[e] /\ c[e] < max => Older(c, on, max)[e] = c[e] + 1
  BY DEF Older

-------------------------------------------------------------------------------
(* Types. *)

Phases == {"auth", "reg", "run", "closing", "end"}

LEMMA LeavesIs ==
    ASSUME TypeOK, NEW e \in Ends, Leaves(e)
    PROVE  /\ phase' \in [Ends -> Phases] /\ phase'[e] = "end"
           /\ phase'[Other(e)] = phase[Other(e)]
           /\ closed' = closed \cup {e} /\ alive' \subseteq alive
           /\ closed' \subseteq Ends /\ alive' \subseteq Ends
           /\ \A d \in Ends : d # "server" \/ d # e => (d \in alive' <=> d \in alive)
  BY TwoEnds DEF TypeOK, Leaves, Phases, Ends

\* What a frame of the client does at the server and the other way round.
LEMMA GetsTypes ==
    ASSUME TypeOK, NEW e \in Ends, NEW f \in Kinds, Gets(e, f)
    PROVE  /\ phase' \in [Ends -> Phases] /\ closed' \subseteq Ends /\ alive' \subseteq Ends
           /\ sending' \in [Ends -> [Writers -> Kinds \cup {None}]]
           /\ wait' \in 0..ReplyTimeout
  <1>1. CASE e = "client"
    <2>1. ClientGets(f)
      BY <1>1 DEF Gets
    <2>2. CASE phase["client"] = "auth" /\ Enters("client", "reg") /\ wait' = 0
               /\ Says("client", "mode", "Register")
      BY <2>2, SaysIs DEF TypeOK, Enters, Phases, Ends, Writers, Kinds, ReplyTimeout
    <2>3. CASE Enters("client", "run") /\ wait' = 0 /\ UNCHANGED sending
      BY <2>3 DEF TypeOK, Enters, Phases, Ends, ReplyTimeout
    <2>4. CASE Leaves("client") /\ UNCHANGED <<sending, wait>>
      BY <2>4, LeavesIs DEF TypeOK, Ends
    <2>5. CASE UNCHANGED <<phase, closed, alive, sending, wait>>
      BY <2>5 DEF TypeOK, Phases
    <2> QED BY <2>1, <2>2, <2>3, <2>4, <2>5 DEF ClientGets
  <1>2. CASE e = "server"
    <2>1. ServerGets(f) /\ UNCHANGED wait
      BY <1>2 DEF Gets, ServerGets
    <2>2. CASE Enters("server", "reg") /\ Says("server", "mode", "AuthOK")
      BY <2>1, <2>2, SaysIs DEF TypeOK, Enters, Phases, Ends, Writers, Kinds
    <2>3. CASE /\ phase' = [phase EXCEPT !["server"] = "run"] /\ UNCHANGED closed
               /\ alive' = (IF tun THEN alive ELSE alive \cup {"server"})
               /\ Says("server", "mode", "RegOK")
      BY <2>1, <2>3, SaysIs DEF TypeOK, Phases, Ends, Writers, Kinds
    <2>4. CASE Leaves("server") /\ UNCHANGED sending
      BY <2>1, <2>4, LeavesIs DEF TypeOK, Ends
    <2>5. CASE UNCHANGED <<phase, closed, alive, sending>>
      BY <2>1, <2>5 DEF TypeOK, Phases
    <2> QED BY <2>1, <2>2, <2>3, <2>4, <2>5 DEF ServerGets
  <1> QED BY <1>1, <1>2 DEF Ends

\* The writer that has the mutex is in the middle of a frame.
MutexIsHeld == \A e \in Ends : mutex[e] # None => HasPayload(sending[e][mutex[e]])

LEMMA WriteTypes ==
    ASSUME TypeOK, NEW e \in Ends, NEW w \in Writers,
           WriteHeader(e, w) \/ WritePayload(e, w) \/ WriteFails(e, w)
    PROVE  TypeOK'
  <1>1. /\ mutex \in [Ends -> Writers \cup {None}]
        /\ sending[e][w] \in Kinds \cup {None} /\ None \notin Kinds /\ None \notin Writers
        /\ sending \in [Ends -> [Writers -> Kinds \cup {None}]]
        /\ wire \in [Ends -> Seq(PieceSet)] /\ MutexIsHeld
    BY DEF TypeOK, Kinds, None, Writers, PieceSet, MutexIsHeld
  <1>2. sending[e][w] \in Kinds
    BY <1>1 DEF WriteHeader, WritePayload, WriteFails, MutexIsHeld, HasPayload
  <1>3. /\ sending' \in [Ends -> [Writers -> Kinds \cup {None}]]
        /\ mutex' \in [Ends -> Writers \cup {None}] /\ MutexIsHeld'
    <2>1. CASE Says(e, w, None) /\ mutex[e] \in {w, None} /\ mutex' = [mutex EXCEPT ![e] = None]
      BY <1>1, <2>1, SaysIs DEF MutexIsHeld
    <2>2. CASE WriteHeader(e, w) /\ HasPayload(sending[e][w])
      BY <1>1, <2>2 DEF WriteHeader, MutexIsHeld
    <2>3. CASE WriteHeader(e, w) /\ ~HasPayload(sending[e][w])
      <3>1. Says(e, w, None) /\ mutex[e] = None /\ mutex' = mutex
        BY <2>3 DEF WriteHeader
      <3> QED BY <1>1, <3>1, SaysIs DEF MutexIsHeld
    <2>4. CASE WritePayload(e, w) \/ WriteFails(e, w)
      BY <2>1, <2>4 DEF WritePayload, WriteFails
    <2> QED BY <2>2, <2>3, <2>4
  <1>4. wire' \in [Ends -> Seq(PieceSet)]
    BY <1>1, <1>2, PutIs DEF WriteHeader, WritePayload, WriteFails
  <1>5. alive' \subseteq Ends
    BY DEF TypeOK, WriteHeader, WritePayload, WriteFails
  <1>6. UNCHANGED <<tun, phase, reader, clocks, closed, timedOut, cut, data>>
    BY DEF WriteHeader, WritePayload, WriteFails, clocks
  <1> QED BY <1>3, <1>4, <1>5, <1>6 DEF TypeOK, clocks, MutexIsHeld, PieceSet

\* What a reader takes and what it does about it.
LEMMA TheFrame ==
    ASSUME TypeOK, NEW e \in Ends, ReadFrame(e)
    PROVE  \E f \in Kinds :
               /\ Gets(e, f)
               /\ IF reader[e] = None
                  THEN ~HasPayload(f) /\ f = wire[Other(e)][1].kind ELSE f = reader[e]
  <1> DEFINE f == IF reader[e] = None THEN Head(wire[Other(e)]).kind ELSE reader[e]
  <1>1. Takes(e) /\ Gets(e, f) /\ (reader[e] = None => ~HasPayload(f))
    BY DEF ReadFrame
  <1>2. Head(wire[Other(e)]) = wire[Other(e)][1] /\ Head(wire[Other(e)]).kind \in Kinds
    BY <1>1, TakesIs
  <1>3. f \in Kinds
    BY <1>2 DEF TypeOK
  <1> QED BY <1>1, <1>2, <1>3

\* A writer that was not in Send does not have the mutex.
LEMMA HeldAfterSaying ==
    ASSUME TypeOK, mutex' = mutex,
           \A d \in Ends, v \in Writers : sending[d][v] # None => sending'[d][v] = sending[d][v]
    PROVE  MutexIsHeld'
  <1> SUFFICES ASSUME NEW d \in Ends, mutex[d] # None
               PROVE  HasPayload(sending'[d][mutex[d]])
    BY DEF MutexIsHeld
  <1>1. mutex[d] \in Writers /\ HasPayload(sending[d][mutex[d]])
    BY DEF TypeOK
  <1>2. sending[d][mutex[d]] # None
    BY <1>1 DEF HasPayload, Kinds, None
  <1> QED BY <1>1, <1>2

LEMMA TypesArePreserved ==
    ASSUME TypeOK, [Next]_vars, \A e \in Ends : ~ReadFrame(e)
    PROVE  TypeOK'
  <1>1. ASSUME NEW e \in Ends, NEW w \in Writers,
               WriteHeader(e, w) \/ WritePayload(e, w) \/ WriteFails(e, w)
        PROVE  TypeOK'
    BY <1>1, WriteTypes
  <1>2. ASSUME NEW e \in Ends, KeepAlive(e) PROVE TypeOK'
    <2>1. /\ sending' \in [Ends -> [Writers -> Kinds \cup {None}]]
          /\ \A d \in Ends, v \in Writers :
                 d # e \/ v # "keepalive" => sending'[d][v] = sending[d][v]
      BY <1>2, SaysIs DEF KeepAlive, Writers, Kinds
    <2>2. since' \in [Ends -> 0..Interval]
      BY <1>2 DEF TypeOK, KeepAlive, Interval
    <2>3. MutexIsHeld'
      BY <1>2, <2>1, HeldAfterSaying DEF KeepAlive, Writers
    <2>4. UNCHANGED <<tun, phase, mutex, wire, reader, idle, late, wait, alive, closed, timedOut,
                      cut, data>>
      BY <1>2 DEF KeepAlive
    <2> QED BY <2>1, <2>2, <2>3, <2>4 DEF TypeOK, MutexIsHeld
  <1>3. ASSUME NEW e \in Ends, SendData(e) PROVE TypeOK'
    <2>1. /\ sending' \in [Ends -> [Writers -> Kinds \cup {None}]]
          /\ \A d \in Ends, v \in Writers :
                 d # e \/ v # "mode" => sending'[d][v] = sending[d][v]
      BY <1>3, SaysIs DEF SendData, Writers, Kinds
    <2>2. MutexIsHeld'
      BY <1>3, <2>1, HeldAfterSaying DEF SendData, Writers
    <2>3. data' \in 0..MaxData
      BY <1>3, TunnelAssumption DEF TypeOK, SendData
    <2>4. UNCHANGED <<tun, phase, mutex, wire, reader, since, idle, late, wait, alive, closed,
                      timedOut, cut>>
      BY <1>3 DEF SendData, clocks
    <2> QED BY <2>1, <2>2, <2>3, <2>4 DEF TypeOK, MutexIsHeld
  <1>4. ASSUME NEW e \in Ends, ReadHeader(e) PROVE TypeOK'
    <2>1. Takes(e) /\ Head(wire[Other(e)]).kind \in Kinds
      BY <1>4, TakesIs DEF ReadHeader
    <2>2. reader' \in [Ends -> Kinds \cup {None}]
      BY <1>4, <2>1 DEF TypeOK, ReadHeader
    <2>3. UNCHANGED <<tun, phase, sending, mutex, since, idle, wait, alive, closed, timedOut,
                      cut, data>>
      BY <1>4, <2>1 DEF ReadHeader, Takes
    <2> QED BY <2>1, <2>2, <2>3, TakesIs DEF TypeOK, PieceSet
  <1>5. ASSUME NEW e \in Ends, ReadFails(e) \/ TimesOut(e) PROVE TypeOK'
    <2>1. Leaves(e) /\ timedOut' \subseteq Ends
      BY <1>5 DEF ReadFails, TimesOut, TypeOK
    <2>2. UNCHANGED <<tun, sending, mutex, wire, reader, since, idle, late, wait, cut, data>>
      BY <1>5 DEF ReadFails, TimesOut, writing, clocks
    <2> QED BY <2>1, <2>2, LeavesIs DEF TypeOK, Phases
  <1>6. CASE ClientCloses \/ Cut
    BY <1>6 DEF ClientCloses, Cut, Enters, TypeOK, writing, clocks, Ends
  <1>7. CASE Pass
    <2>1. /\ since' \in [Ends -> 0..Interval] /\ idle' \in [Ends -> 0..ReadTimeout]
          /\ late' \in [Ends -> 0..MaxLag]
      BY <1>7, OlderIs, TunnelAssumption DEF Pass, TypeOK, Interval, ReadTimeout
    <2>2. wait' \in 0..ReplyTimeout
      BY <1>7 DEF Pass, Quiet, TypeOK, ReplyTimeout
    <2>3. UNCHANGED <<tun, phase, sending, mutex, wire, reader, alive, closed, timedOut, cut, data>>
      BY <1>7 DEF Pass, writing
    <2> QED BY <2>1, <2>2, <2>3 DEF TypeOK
  <1>8. CASE UNCHANGED vars
    BY <1>8 DEF TypeOK, vars, writing, clocks
  <1> QED BY <1>1, <1>2, <1>3, <1>4, <1>5, <1>6, <1>7, <1>8 DEF Next, Works

-------------------------------------------------------------------------------
(* What a frame that comes in does, the connection being sound. *)

GetsAuthOK ==
    /\ phase["client"] = "auth" /\ phase["server"] = "reg" /\ reader["client"] = None
    /\ wire["client"] = <<>> /\ reader["server"] = None /\ sending["client"]["mode"] = None
    /\ phase' = [phase EXCEPT !["client"] = "reg"]
    /\ Says("client", "mode", "Register") /\ wait' = 0 /\ UNCHANGED <<closed, alive>>
GetsRegOK ==
    /\ phase["client"] = "reg" /\ phase["server"] = "run"
    /\ phase' = [phase EXCEPT !["client"] = "run"]
    /\ wait' = 0 /\ UNCHANGED <<closed, alive, sending>>
GetsAuth ==
    /\ phase["server"] = "auth" /\ sending["server"]["mode"] = None /\ reader["server"] = "Auth"
    /\ phase' = [phase EXCEPT !["server"] = "reg"]
    /\ Says("server", "mode", "AuthOK") /\ UNCHANGED <<closed, alive, wait>>
GetsRegister ==
    /\ phase["server"] = "reg" /\ sending["server"]["mode"] = None /\ reader["server"] = "Register"
    /\ phase' = [phase EXCEPT !["server"] = "run"]
    /\ alive' = IF tun THEN alive ELSE alive \cup {"server"}
    /\ Says("server", "mode", "RegOK") /\ UNCHANGED <<closed, wait>>
GetsLast(e) ==
    /\ ~Waiting /\ phase[e] # "run"
    /\ Leaves(e) /\ UNCHANGED <<sending, wait>>
GetsNothing == UNCHANGED <<phase, closed, alive, sending, wait>>

LEMMA WhatClientGets ==
    ASSUME TypeOK, EndsAreSound, AnswersAreInOrder, RequestsAreInOrder, ReadFrame("client")
    PROVE  GetsAuthOK \/ GetsRegOK \/ GetsLast("client") \/ GetsNothing
  <1>1. PICK f \in Kinds :
            /\ ClientGets(f)
            /\ IF reader["client"] = None
               THEN ~HasPayload(f) /\ f = wire["server"][1].kind ELSE f = reader["client"]
    BY TheFrame, TwoEnds DEF Gets, Ends
  <1>2. wire["server"] # <<>> /\ wire["server"] \in Seq(PieceSet)
    BY TwoEnds DEF ReadFrame, Takes, TypeOK, PieceSet, Ends
  <1>3. 1 \in 1..Len(wire["server"])
    BY <1>2, TailIs
  <1>4. ASSUME phase["server"] \in {"auth", "reg"} PROVE f = "AuthOK" /\ reader["client"] = None
    BY <1>1, <1>3, <1>4 DEF AnswersAreInOrder
  <1>5. CASE phase["client"] = "auth" /\ f = "AuthOK" /\ Enters("client", "reg")
             /\ Says("client", "mode", "Register") /\ wait' = 0
    <2>1. phase["server"] = "reg"
      BY <1>2, <1>5 DEF AnswersAreInOrder, RequestsAreInOrder
    <2> QED BY <1>4, <1>5, <2>1 DEF GetsAuthOK, Enters, RequestsAreInOrder
  <1>6. CASE phase["client"] = "reg" /\ f = "RegOK"
             /\ Enters("client", "run") /\ wait' = 0 /\ UNCHANGED sending
    <2>1. phase["server"] = "run"
      BY <1>4, <1>6 DEF RequestsAreInOrder
    <2> QED BY <1>6, <2>1 DEF GetsRegOK, Enters
  <1>7. CASE phase["client"] = "closing" /\ Leaves("client") /\ UNCHANGED <<sending, wait>>
    BY <1>7 DEF GetsLast, Waiting
  <1> QED BY <1>1, <1>5, <1>6, <1>7 DEF ClientGets, GetsNothing

LEMMA WhatServerGets ==
    ASSUME TypeOK, EndsAreSound, AnswersAreInOrder, RequestsAreInOrder, ReadFrame("server")
    PROVE  GetsAuth \/ GetsRegister \/ GetsLast("server") \/ GetsNothing
  <1>1. PICK f \in Kinds :
            /\ ServerGets(f)
            /\ IF reader["server"] = None
               THEN ~HasPayload(f) /\ f = wire["client"][1].kind ELSE f = reader["server"]
    BY TheFrame, TwoEnds DEF Gets, Ends
  <1>2. /\ wire["client"] # <<>> /\ wire["client"] \in Seq(PieceSet)
        /\ phase["server"] # "end" /\ sending["server"]["mode"] \notin {"AuthOK", "RegOK"}
    BY TwoEnds DEF ReadFrame, Takes, Reading, TypeOK, PieceSet, Ends
  <1>3. 1 \in 1..Len(wire["client"])
    BY <1>2, TailIs
  <1>4. phase["server"] \in {"auth", "reg"} => sending["server"]["mode"] = None
    BY <1>2 DEF AnswersAreInOrder
  <1>5. HasPayload("Auth") /\ HasPayload("Register")
    BY DEF HasPayload, Kinds
  <1>6. phase["client"] = "auth" => f = "Auth" /\ phase["server"] = "auth"
    BY <1>1, <1>2, <1>3 DEF RequestsAreInOrder, SaysOnly
  <1>7. phase["client"] = "reg" => f = "Register" /\ phase["server"] \in {"reg", "run"}
    BY <1>1, <1>2, <1>3 DEF RequestsAreInOrder, SaysOnly
  <1>8. CASE phase["server"] = "auth" /\ f = "Auth"
             /\ Enters("server", "reg") /\ Says("server", "mode", "AuthOK")
    BY <1>1, <1>4, <1>5, <1>8 DEF GetsAuth, Enters, ServerGets
  <1>9. CASE /\ phase["server"] = "reg" /\ f = "Register"
             /\ Says("server", "mode", "RegOK")
             /\ phase' = [phase EXCEPT !["server"] = "run"] /\ UNCHANGED closed
             /\ alive' = (IF tun THEN alive ELSE alive \cup {"server"})
    BY <1>1, <1>4, <1>5, <1>9 DEF GetsRegister, ServerGets
  <1>10. CASE /\ <<phase["server"], f>> \in ({"auth", "reg"} \X Kinds)
                                            \ {<<"auth", "Auth">>, <<"reg", "Register">>}
              /\ Leaves("server") /\ UNCHANGED sending
    <2>1. phase["server"] # "run" /\ ~(phase["server"] = "auth" /\ f = "Auth")
          /\ ~(phase["server"] = "reg" /\ f = "Register")
      BY <1>10
    <2> QED BY <1>1, <1>6, <1>7, <1>10, <2>1 DEF GetsLast, Waiting, ServerGets
  <1>11. CASE phase["server"] = "run" /\ UNCHANGED <<phase, closed, alive, sending>>
    BY <1>1, <1>11 DEF GetsNothing, ServerGets
  <1> QED BY <1>1, <1>8, <1>9, <1>10, <1>11 DEF ServerGets

LEMMA WhatIsRead ==
    ASSUME TypeOK, EndsAreSound, AnswersAreInOrder, RequestsAreInOrder,
           NEW e \in Ends, ReadFrame(e)
    PROVE  \/ e = "client" /\ (GetsAuthOK \/ GetsRegOK)
           \/ e = "server" /\ (GetsAuth \/ GetsRegister)
           \/ GetsLast(e) \/ GetsNothing
  BY WhatClientGets, WhatServerGets DEF Ends

\* No goroutine is made to send while it sends.
LEMMA NothingIsOverwritten ==
    ASSUME TypeOK, EndsAreSound, AnswersAreInOrder, RequestsAreInOrder,
           NEW e \in Ends, ReadFrame(e)
    PROVE  /\ sending' \in [Ends -> [Writers -> Kinds \cup {None}]]
           /\ \A d \in Ends, v \in Writers :
                  sending[d][v] # None => sending'[d][v] = sending[d][v]
  <1>1. CASE sending' = sending
    BY <1>1 DEF TypeOK
  <1>2. CASE Says("client", "mode", "Register") /\ sending["client"]["mode"] = None
    BY <1>2, SaysIs DEF Ends, Writers, Kinds
  <1>3. CASE \E f \in {"AuthOK", "RegOK"} : Says("server", "mode", f)
             /\ sending["server"]["mode"] = None
    BY <1>3, SaysIs DEF Ends, Writers, Kinds
  <1> QED BY <1>1, <1>2, <1>3, WhatIsRead
          DEF GetsAuthOK, GetsRegOK, GetsAuth, GetsRegister, GetsLast, GetsNothing

LEMMA ReadFrameTypes ==
    ASSUME TypeOK, EndsAreSound, AnswersAreInOrder, RequestsAreInOrder,
           NEW e \in Ends, ReadFrame(e)
    PROVE  TypeOK'
  <1>1. Takes(e) /\ Arm(e) /\ reader' = [reader EXCEPT ![e] = None] /\ mutex' = mutex
    BY DEF ReadFrame, Takes
  <1>2. PICK f \in Kinds : Gets(e, f)
    BY TheFrame
  <1>3. /\ phase' \in [Ends -> Phases] /\ closed' \subseteq Ends /\ alive' \subseteq Ends
        /\ sending' \in [Ends -> [Writers -> Kinds \cup {None}]]
        /\ wait' \in 0..ReplyTimeout
    BY <1>2, GetsTypes
  <1>4. idle' \in [Ends -> 0..ReadTimeout] /\ reader' \in [Ends -> Kinds \cup {None}]
    BY <1>1 DEF Arm, TypeOK, ReadTimeout
  <1>5. MutexIsHeld'
    BY <1>1, NothingIsOverwritten, HeldAfterSaying
  <1>6. /\ wire' \in [Ends -> Seq(PieceSet)] /\ late' \in [Ends -> 0..MaxLag]
        /\ UNCHANGED <<tun, mutex, since, timedOut, cut, data>>
    BY <1>1, TakesIs DEF Takes
  <1> QED BY <1>3, <1>4, <1>5, <1>6 DEF TypeOK, Phases, PieceSet, MutexIsHeld

-------------------------------------------------------------------------------
(* The streams. *)

WholeStream(e) ==
    /\ \A k \in 1..Len(wire[e]) :
           IF Expected(e, k) = None THEN wire[e][k].part = "header"
           ELSE wire[e][k] = Piece("payload", Expected(e, k))
    /\ e \notin closed => Expected(e, Len(wire[e]) + 1) = Owed(e)

StreamIsSound(e) == Other(e) \notin closed => WholeStream(e)

LEMMA StreamsAreSound ==
    FramesArriveWhole /\ MutexGuardsFrames <=> \A e \in Ends : StreamIsSound(e)
  BY DEF FramesArriveWhole, MutexGuardsFrames, StreamIsSound, WholeStream

LEMMA StreamUntouched ==
    ASSUME TypeOK, NEW e \in Ends, StreamIsSound(e), wire'[e] = wire[e], closed \subseteq closed',
           reader'[Other(e)] = reader[Other(e)],
           e \notin closed' /\ Other(e) \notin closed' =>
               mutex'[e] = mutex[e] /\ (\A w \in Writers : sending[e][w] # None =>
                                            sending'[e][w] = sending[e][w])
    PROVE  StreamIsSound(e)'
  <1> SUFFICES ASSUME Other(e) \notin closed' PROVE WholeStream(e)'
    BY DEF StreamIsSound
  <1>1. WholeStream(e)
    BY DEF StreamIsSound
  <1>2. \A k : Expected(e, k)' = Expected(e, k)
    BY DEF Expected
  <1>3. ASSUME e \notin closed' PROVE Owed(e)' = Owed(e)
    <2>1. mutex[e] # None => mutex[e] \in Writers /\ sending[e][mutex[e]] # None
      BY DEF TypeOK, HasPayload, Kinds, None
    <2> QED BY <1>3, <2>1 DEF Owed
  <1> QED BY <1>1, <1>2, <1>3 DEF WholeStream

LEMMA StreamAppended ==
    ASSUME TypeOK, NEW e \in Ends, StreamIsSound(e), e \notin closed, closed' = closed,
           reader'[Other(e)] = reader[Other(e)],
           NEW p \in {"header", "payload"}, NEW f \in Kinds, Put(e, p, f),
           IF Owed(e) = None THEN p = "header" ELSE p = "payload" /\ f = Owed(e),
           Opens(Piece(p, f)) = Owed(e)'
    PROVE  StreamIsSound(e)'
  <1> SUFFICES ASSUME Other(e) \notin closed PROVE WholeStream(e)'
    BY DEF StreamIsSound
  <1> DEFINE s == wire[e]
             q == Piece(p, f)
  <1>0. PICK n \in Nat : n = Len(s)
    BY DEF TypeOK
  <1>1. WholeStream(e) /\ Expected(e, n + 1) = Owed(e)
    BY <1>0 DEF StreamIsSound, WholeStream
  <1>2. wire'[e] = Append(s, q) /\ s \in Seq(PieceSet) /\ q \in PieceSet
    <2>1. s \in Seq(PieceSet) /\ q \in PieceSet
      BY PieceIs DEF TypeOK, PieceSet
    <2> QED BY <2>1, PutIs
  <1>3. /\ Len(wire'[e]) = n + 1 /\ n \in Nat /\ wire'[e][n + 1] = q
        /\ \A k \in 1..n : wire'[e][k] = s[k]
    BY <1>0, <1>2, AppendIs
  <1>4. \A k \in 1..(n + 1) : Expected(e, k)' = Expected(e, k)
    <2> SUFFICES ASSUME NEW k \in 1..(n + 1) PROVE Expected(e, k)' = Expected(e, k)
      OBVIOUS
    <2>1. k # 1 => k - 1 \in 1..n
      BY <1>3
    <2> QED BY <2>1, <1>3 DEF Expected
  <1>5. Expected(e, n + 2)' = Owed(e)'
    <2>1. n + 2 # 1 /\ (n + 2) - 1 = n + 1
      BY <1>3
    <2> QED BY <2>1, <1>3 DEF Expected
  <1>6. ASSUME NEW k \in 1..(n + 1)
        PROVE  IF Expected(e, k)' = None THEN wire'[e][k].part = "header"
               ELSE wire'[e][k] = Piece("payload", Expected(e, k)')
    <2>1. CASE k \in 1..n
      BY <1>0, <1>1, <1>3, <1>4, <2>1 DEF WholeStream
    <2>2. CASE k = n + 1
      BY <1>1, <1>3, <1>4, <2>2, PieceIs
    <2> QED BY <1>3, <2>1, <2>2
  <1>7. \A k \in 1..Len(wire'[e]) :
            IF Expected(e, k)' = None THEN wire'[e][k].part = "header"
            ELSE wire'[e][k] = Piece("payload", Expected(e, k)')
    BY <1>3, <1>6
  <1>8. Expected(e, Len(wire[e]) + 1)' = Owed(e)'
    <2>1. Len(wire'[e]) + 1 = n + 2
      BY <1>3
    <2>2. Expected(e, Len(wire[e]) + 1)' = Expected(e, n + 2)'
      BY <2>1 DEF Expected
    <2> QED BY <2>2, <1>5
  <1> QED BY <1>7, <1>8 DEF WholeStream

LEMMA StreamTaken ==
    ASSUME TypeOK, NEW e \in Ends, StreamIsSound(e), wire[e] # <<>>, wire'[e] = Tail(wire[e]),
           closed \subseteq closed', Other(e) \notin closed,
           reader'[Other(e)] = Opens(wire[e][1]), mutex' = mutex,
           \A w \in Writers : sending[e][w] # None => sending'[e][w] = sending[e][w]
    PROVE  StreamIsSound(e)'
  <1> SUFFICES WholeStream(e)'
    BY DEF StreamIsSound
  <1> DEFINE s == wire[e]
  <1>0. PICK n \in Nat : n = Len(s)
    BY DEF TypeOK
  <1>1. WholeStream(e)
    BY DEF StreamIsSound
  <1>2. /\ Len(wire'[e]) = n - 1 /\ n \in Nat /\ n >= 1
        /\ \A k \in 1..(n - 1) : wire'[e][k] = s[k + 1]
    BY <1>0, TailIs DEF TypeOK
  <1>3. \A k \in 1..n : Expected(e, k)' = Expected(e, k + 1)
    <2> SUFFICES ASSUME NEW k \in 1..n PROVE Expected(e, k)' = Expected(e, k + 1)
      OBVIOUS
    <2>1. k # 1 => k - 1 \in 1..(n - 1) /\ (k - 1) + 1 = k
      BY <1>2
    <2>2. k + 1 # 1 /\ (k + 1) - 1 = k
      BY <1>2
    <2> QED BY <2>1, <2>2, <1>2 DEF Expected
  <1>4. \A k \in 1..(n - 1) : k \in 1..n /\ k + 1 \in 1..n
    BY <1>2
  <1>5. \A k \in 1..Len(wire'[e]) :
            IF Expected(e, k)' = None THEN wire'[e][k].part = "header"
            ELSE wire'[e][k] = Piece("payload", Expected(e, k)')
    BY <1>0, <1>1, <1>2, <1>3, <1>4 DEF WholeStream
  <1>6. ASSUME e \notin closed' PROVE Expected(e, Len(wire[e]) + 1)' = Owed(e)'
    <2>1. Len(wire'[e]) + 1 = n /\ n \in 1..n
      BY <1>2
    <2>2. Expected(e, Len(wire[e]) + 1)' = Expected(e, n)'
      BY <2>1 DEF Expected
    <2>3. Expected(e, n)' = Owed(e)
      BY <1>0, <1>1, <1>3, <1>6, <2>1 DEF WholeStream
    <2>4. mutex[e] # None => mutex[e] \in Writers /\ sending[e][mutex[e]] # None
      BY DEF TypeOK, HasPayload, Kinds, None
    <2>5. Owed(e)' = Owed(e)
      BY <2>4 DEF Owed
    <2> QED BY <2>2, <2>3, <2>5
  <1> QED BY <1>5, <1>6 DEF WholeStream

LEMMA WriteKeepsStreams ==
    ASSUME TypeOK, NEW e \in Ends, NEW w \in Writers, StreamIsSound(e),
           WriteHeader(e, w) \/ WritePayload(e, w) \/ WriteFails(e, w)
    PROVE  StreamIsSound(e)'
  <1>1. /\ sending[e][w] \in Kinds \cup {None} /\ mutex[e] \in Writers \cup {None}
        /\ None \notin Kinds /\ None \notin Writers /\ mutex \in [Ends -> Writers \cup {None}]
        /\ mutex[e] # None => HasPayload(sending[e][mutex[e]])
    BY DEF TypeOK, Kinds, None, Writers
  <1>2. sending[e][w] \in Kinds
    BY <1>1 DEF WriteHeader, WritePayload, WriteFails, HasPayload
  <1>3. reader' = reader /\ closed' = closed
    BY DEF WriteHeader, WritePayload, WriteFails
  <1> DEFINE f == sending[e][w]
  <1> HIDE DEF f
  <1>4. CASE WriteHeader(e, w)
    <2>1. e \notin closed /\ Put(e, "header", f) /\ Owed(e) = None
      BY <1>4 DEF WriteHeader, Owed, f
    <2>2. Opens(Piece("header", f)) = IF HasPayload(f) THEN f ELSE None
      BY <1>2, PieceIs DEF Opens, f
    <2>3. Owed(e)' = IF HasPayload(f) THEN f ELSE None
      <3>1. CASE HasPayload(f)
        BY <1>1, <1>4, <3>1 DEF WriteHeader, Owed, f
      <3>2. CASE ~HasPayload(f)
        BY <1>1, <1>4, <3>2 DEF WriteHeader, Owed, f
      <3> QED BY <3>1, <3>2
    <2> QED BY <1>2, <1>3, <2>1, <2>2, <2>3, StreamAppended DEF f
  <1>5. CASE WritePayload(e, w)
    <2>1. e \notin closed /\ Put(e, "payload", f) /\ Owed(e) = f /\ mutex'[e] = None
      BY <1>1, <1>5 DEF WritePayload, Owed, f
    <2>2. Opens(Piece("payload", f)) = None /\ Owed(e)' = None
      BY <1>2, <2>1, PieceIs DEF Opens, Owed, f
    <2> QED BY <1>1, <1>2, <1>3, <2>1, <2>2, StreamAppended DEF f
  <1>6. CASE WriteFails(e, w)
    <2>1. e \in closed \/ Other(e) \in closed
      BY <1>6 DEF WriteFails, Lost
    <2> QED BY <1>3, <1>6, <2>1, StreamUntouched DEF WriteFails
  <1> QED BY <1>4, <1>5, <1>6

LEMMA WriteLeavesTheOther ==
    ASSUME TypeOK, NEW e \in Ends, NEW w \in Writers,
           WriteHeader(e, w) \/ WritePayload(e, w) \/ WriteFails(e, w)
    PROVE  /\ wire'[Other(e)] = wire[Other(e)] /\ mutex'[Other(e)] = mutex[Other(e)]
           /\ sending'[Other(e)] = sending[Other(e)]
           /\ reader' = reader /\ closed' = closed
  <1>1. Other(e) \in Ends /\ Other(e) # e
    BY TwoEnds
  <1>2. wire'[Other(e)] = wire[Other(e)]
    BY <1>1 DEF TypeOK, Put, WriteHeader, WritePayload, WriteFails
  <1>3. mutex'[Other(e)] = mutex[Other(e)] /\ sending'[Other(e)] = sending[Other(e)]
    BY <1>1 DEF TypeOK, Says, WriteHeader, WritePayload, WriteFails
  <1> QED BY <1>2, <1>3 DEF WriteHeader, WritePayload, WriteFails

LEMMA ReadKeepsStreams ==
    ASSUME TypeOK, NEW e \in Ends, StreamIsSound(e), StreamIsSound(Other(e)), Takes(e),
           e \notin closed, reader[e] # None => HasPayload(reader[e]), mutex' = mutex,
           closed \subseteq closed', \A d \in Ends : d # e => reader'[d] = reader[d],
           \/ /\ reader[e] = None /\ HasPayload(Head(wire[Other(e)]).kind)
              /\ reader'[e] = Head(wire[Other(e)]).kind
           \/ /\ reader[e] = None => ~HasPayload(Head(wire[Other(e)]).kind)
              /\ reader'[e] = None,
           \A d \in Ends, w \in Writers :
               sending[d][w] # None => sending'[d][w] = sending[d][w]
    PROVE  StreamIsSound(e)' /\ StreamIsSound(Other(e))'
  <1> DEFINE o == Other(e)
             p == Head(wire[o])
  <1>1. o \in Ends /\ o # e /\ Other(o) = e
    BY TwoEnds
  <1>2. /\ wire'[e] = wire[e] /\ wire'[o] = Tail(wire[o]) /\ wire[o] # <<>>
        /\ p = wire[o][1] /\ p \in PieceSet /\ p.kind \in Kinds
    BY TakesIs
  <1>3. StreamIsSound(e)'
    BY <1>1, <1>2, StreamUntouched
  <1>4. 1 \in 1..Len(wire[o]) /\ Expected(o, 1) = reader[e]
    BY <1>1, <1>2, TailIs DEF Expected, TypeOK
  <1>5. IF reader[e] = None THEN p.part = "header" ELSE p = Piece("payload", reader[e])
    BY <1>1, <1>2, <1>4 DEF StreamIsSound, WholeStream
  <1>6. reader[e] # None => p.part = "payload"
    BY <1>5, PieceIs DEF TypeOK
  <1>7. reader'[e] = Opens(p)
    BY <1>5, <1>6 DEF Opens
  <1>8. StreamIsSound(o)'
    BY <1>1, <1>2, <1>7, StreamTaken
  <1> QED BY <1>3, <1>8

LEMMA StreamsArePreserved ==
    ASSUME ConnectionIsSound, [Next]_vars
    PROVE  (FramesArriveWhole /\ MutexGuardsFrames)'
  <1>0. /\ TypeOK /\ EndsAreSound /\ AnswersAreInOrder /\ RequestsAreInOrder
        /\ \A e \in Ends : StreamIsSound(e)
    BY StreamsAreSound DEF ConnectionIsSound, StreamsAreWhole
  <1> SUFFICES \A e \in Ends : StreamIsSound(e)'
    <2>1. (FramesArriveWhole /\ MutexGuardsFrames <=> \A e \in Ends : StreamIsSound(e))'
      BY StreamsAreSound, PTL
    <2> QED BY <2>1
  <1>1. ASSUME NEW e \in Ends, NEW w \in Writers,
               WriteHeader(e, w) \/ WritePayload(e, w) \/ WriteFails(e, w)
        PROVE  \A d \in Ends : StreamIsSound(d)'
    <2>1. StreamIsSound(e)'
      BY <1>0, <1>1, WriteKeepsStreams
    <2>2. StreamIsSound(Other(e))'
      <3>1. Other(e) \in Ends
        BY TwoEnds
      <3> QED BY <1>0, <1>1, <3>1, WriteLeavesTheOther, StreamUntouched
    <2> QED BY <2>1, <2>2, TwoEnds DEF Ends
  <1>2. ASSUME NEW e \in Ends, ReadHeader(e) \/ ReadFrame(e)
        PROVE  \A d \in Ends : StreamIsSound(d)'
    <2>1. Takes(e) /\ mutex' = mutex
      BY <1>2 DEF ReadHeader, ReadFrame, Takes
    <2>2. e \notin closed /\ (reader[e] # None => HasPayload(reader[e]))
      BY <1>0, <2>1 DEF Takes, Reading, EndsAreSound
    <2>3. closed \subseteq closed'
      BY <1>0, <1>2, WhatIsRead DEF ReadHeader, GetsAuthOK, GetsRegOK, GetsAuth, GetsRegister,
                                   GetsLast, GetsNothing, Leaves
    <2>4. \A d \in Ends, w \in Writers : sending[d][w] # None => sending'[d][w] = sending[d][w]
      BY <1>0, <1>2, NothingIsOverwritten DEF ReadHeader
    <2>5. /\ \A d \in Ends : d # e => reader'[d] = reader[d]
          /\ \/ /\ reader[e] = None /\ HasPayload(Head(wire[Other(e)]).kind)
                /\ reader'[e] = Head(wire[Other(e)]).kind
             \/ /\ reader[e] = None => ~HasPayload(Head(wire[Other(e)]).kind)
                /\ reader'[e] = None
      BY <1>0, <1>2 DEF ReadHeader, ReadFrame, TypeOK
    <2>6. Other(e) \in Ends
      BY TwoEnds
    <2>7. StreamIsSound(e)' /\ StreamIsSound(Other(e))'
      BY <1>0, <2>1, <2>2, <2>3, <2>4, <2>5, <2>6, ReadKeepsStreams
    <2> QED BY <2>7, TwoEnds DEF Ends
  <1>3. ASSUME UNCHANGED <<mutex, wire, reader>>, closed \subseteq closed',
               \A e \in Ends, w \in Writers : sending[e][w] # None => sending'[e][w] = sending[e][w]
        PROVE  \A d \in Ends : StreamIsSound(d)'
    BY <1>0, <1>3, StreamUntouched
  <1>4. ASSUME NEW e \in Ends, KeepAlive(e) \/ SendData(e)
        PROVE  \A d \in Ends : StreamIsSound(d)'
    <2>1. UNCHANGED <<mutex, wire, reader, closed>>
      BY <1>4 DEF KeepAlive, SendData
    <2>2. \A d \in Ends, w \in Writers : sending[d][w] # None => sending'[d][w] = sending[d][w]
      BY <1>0, <1>4, SaysIs DEF KeepAlive, SendData, Writers, Kinds
    <2> QED BY <1>3, <2>1, <2>2
  <1>5. ASSUME NEW e \in Ends, ReadFails(e) \/ TimesOut(e)
        PROVE  \A d \in Ends : StreamIsSound(d)'
    BY <1>3, <1>5 DEF ReadFails, TimesOut, Leaves, writing
  <1>6. CASE ClientCloses \/ Cut \/ Pass \/ UNCHANGED vars
    BY <1>3, <1>6 DEF ClientCloses, Cut, Pass, Enters, vars, writing
  <1> QED BY <1>1, <1>2, <1>4, <1>5, <1>6 DEF Next, Works

-------------------------------------------------------------------------------
(* The ends. *)

\* The parts of EndsAreSound.
PhasesAreSound ==
    /\ \A e \in Ends : e \in closed <=> phase[e] = "end"
    /\ phase["server"] # "closing"
PiecesAreSound ==
    /\ \A e \in Ends : sending[e]["keepalive"] \in {None, "Keepalive"}
    /\ \A e \in Ends : reader[e] # None => HasPayload(reader[e])
    /\ \A e \in Ends : wire[e] = <<>> => late[e] = 0

LEMMA EndsAre == EndsAreSound <=> PhasesAreSound /\ PiecesAreSound
  BY DEF EndsAreSound, PhasesAreSound, PiecesAreSound

LEMMA PhasesArePreserved ==
    ASSUME ConnectionIsSound, [Next]_vars
    PROVE  PhasesAreSound'
  <1>0. /\ TypeOK /\ EndsAreSound /\ AnswersAreInOrder /\ RequestsAreInOrder
        /\ PhasesAreSound /\ phase \in [Ends -> Phases]
    BY EndsAre DEF ConnectionIsSound, StreamsAreWhole, TypeOK, Phases
  <1>1. ASSUME NEW e \in Ends, NEW l \in {"reg", "run", "closing"}, phase[e] # "end",
               phase' = [phase EXCEPT ![e] = l], closed' = closed, e = "server" => l # "closing"
        PROVE  PhasesAreSound'
    BY <1>0, <1>1 DEF PhasesAreSound
  <1>2. ASSUME NEW e \in Ends, Leaves(e) PROVE PhasesAreSound'
    BY <1>0, <1>2, LeavesIs, TwoEnds DEF PhasesAreSound, Ends
  <1>3. CASE phase' = phase /\ closed' = closed
    BY <1>0, <1>3 DEF PhasesAreSound
  <1>4. ASSUME NEW e \in Ends, ReadFrame(e) PROVE PhasesAreSound'
    <2>1. CASE GetsAuthOK \/ GetsRegOK
      BY <2>1, <1>1 DEF GetsAuthOK, GetsRegOK, Ends
    <2>2. CASE GetsAuth \/ GetsRegister
      BY <2>2, <1>1 DEF GetsAuth, GetsRegister, Ends
    <2>3. CASE GetsLast(e) \/ GetsNothing
      BY <2>3, <1>2, <1>3 DEF GetsLast, GetsNothing
    <2> QED BY <1>0, <1>4, <2>1, <2>2, <2>3, WhatIsRead
  <1>5. ASSUME NEW e \in Ends, ReadFails(e) \/ TimesOut(e) PROVE PhasesAreSound'
    BY <1>2, <1>5 DEF ReadFails, TimesOut
  <1>6. CASE ClientCloses
    BY <1>1, <1>6 DEF ClientCloses, Enters, Waiting, Ends
  <1>7. ASSUME NEW e \in Ends, NEW w \in Writers,
               WriteHeader(e, w) \/ WritePayload(e, w) \/ WriteFails(e, w)
        PROVE  PhasesAreSound'
    BY <1>3, <1>7 DEF WriteHeader, WritePayload, WriteFails
  <1>8. ASSUME NEW e \in Ends, KeepAlive(e) \/ SendData(e) \/ ReadHeader(e)
        PROVE  PhasesAreSound'
    BY <1>3, <1>8 DEF KeepAlive, SendData, ReadHeader
  <1>9. CASE Cut \/ Pass \/ UNCHANGED vars
    BY <1>3, <1>9 DEF Cut, Pass, vars
  <1> QED BY <1>4, <1>5, <1>6, <1>7, <1>8, <1>9 DEF Next, Works

LEMMA PiecesArePreserved ==
    ASSUME ConnectionIsSound, [Next]_vars
    PROVE  PiecesAreSound'
  <1>0. /\ TypeOK /\ EndsAreSound /\ AnswersAreInOrder /\ RequestsAreInOrder
        /\ PiecesAreSound
    BY EndsAre DEF ConnectionIsSound, StreamsAreWhole
  <1>1. CASE UNCHANGED <<sending, reader, wire, late>>
    BY <1>0, <1>1 DEF PiecesAreSound
  <1>2. ASSUME NEW e \in Ends, NEW w \in Writers,
               WriteHeader(e, w) \/ WritePayload(e, w) \/ WriteFails(e, w)
        PROVE  PiecesAreSound'
    <2>1. reader' = reader /\ late' = late
      BY <1>2 DEF WriteHeader, WritePayload, WriteFails, clocks
    <2>2. \A d \in Ends : sending'[d]["keepalive"] \in {None, "Keepalive"}
      <3>1. sending' = sending \/ Says(e, w, None)
        BY <1>2 DEF WriteHeader, WritePayload, WriteFails
      <3> QED BY <1>0, <3>1, SaysIs DEF PiecesAreSound, Writers
    <2>3. \A d \in Ends : wire'[d] = <<>> => wire[d] = <<>>
      <3>1. wire' = wire \/ \E p \in {"header", "payload"}, f \in Kinds : Put(e, p, f)
        <4>1. sending[e][w] \in Kinds \cup {None} /\ None \notin Kinds
              /\ (mutex[e] # None => HasPayload(sending[e][mutex[e]]))
          BY <1>0 DEF TypeOK, None, Kinds
        <4>2. sending[e][w] \in Kinds \/ WriteFails(e, w)
          BY <1>2, <4>1 DEF WriteHeader, WritePayload, HasPayload, None, Writers
        <4> QED BY <1>2, <4>2 DEF WriteHeader, WritePayload, WriteFails
      <3>2. ASSUME NEW p \in {"header", "payload"}, NEW f \in Kinds, Put(e, p, f),
                   NEW d \in Ends, wire'[d] = <<>>
            PROVE  wire[d] = <<>>
        <4>1. wire[e] \in Seq(PieceSet) /\ Piece(p, f) \in PieceSet
          BY <1>0, PieceIs DEF TypeOK, PieceSet
        <4>2. Append(wire[e], Piece(p, f)) # <<>>
          BY <4>1, AppendIs
        <4> QED BY <1>0, <3>2, <4>2, PutIs
      <3> QED BY <3>1, <3>2
    <2> QED BY <1>0, <2>1, <2>2, <2>3 DEF PiecesAreSound
  <1>3. ASSUME NEW e \in Ends, KeepAlive(e) \/ SendData(e) PROVE PiecesAreSound'
    <2>1. UNCHANGED <<reader, wire, late>>
      BY <1>3 DEF KeepAlive, SendData, clocks
    <2>2. \A d \in Ends : sending'[d]["keepalive"] \in {None, "Keepalive"}
      BY <1>0, <1>3, SaysIs DEF KeepAlive, SendData, PiecesAreSound, Writers, Kinds
    <2> QED BY <1>0, <2>1, <2>2 DEF PiecesAreSound
  <1>4. ASSUME NEW e \in Ends, ReadHeader(e) \/ ReadFrame(e) PROVE PiecesAreSound'
    <2>1. Takes(e)
      BY <1>4 DEF ReadHeader, ReadFrame
    <2>2. \A d \in Ends : reader'[d] # None => HasPayload(reader'[d])
      BY <1>0, <1>4 DEF ReadHeader, ReadFrame, PiecesAreSound, TypeOK
    <2>3. \A d \in Ends : wire'[d] = <<>> => late'[d] = 0
      BY <1>0, <2>1, TakesIs, TwoEnds DEF PiecesAreSound, Ends
    <2>4. \A d \in Ends : sending'[d]["keepalive"] = sending[d]["keepalive"]
      <3>1. CASE sending' = sending
        BY <3>1
      <3>2. CASE \E f \in Kinds, d \in Ends : Says(d, "mode", f)
        BY <1>0, <3>2, SaysIs DEF Writers
      <3> QED BY <1>0, <1>4, <3>1, <3>2, WhatIsRead DEF ReadHeader, GetsAuthOK, GetsRegOK,
                   GetsAuth, GetsRegister, GetsLast, GetsNothing, Kinds, Ends
    <2> QED BY <1>0, <2>2, <2>3, <2>4 DEF PiecesAreSound
  <1>5. CASE Pass
    <2>1. UNCHANGED <<sending, reader, wire>>
      BY <1>5 DEF Pass, writing
    <2>2. \A d \in Ends : wire[d] = <<>> => late'[d] = 0
      BY <1>0, <1>5, OlderIs, TunnelAssumption DEF Pass, TypeOK
    <2> QED BY <1>0, <2>1, <2>2 DEF PiecesAreSound
  <1>6. ASSUME NEW e \in Ends, ReadFails(e) \/ TimesOut(e) PROVE PiecesAreSound'
    BY <1>1, <1>6 DEF ReadFails, TimesOut, writing, clocks
  <1>7. CASE ClientCloses \/ Cut \/ UNCHANGED vars
    BY <1>1, <1>7 DEF ClientCloses, Cut, vars, writing, clocks
  <1> QED BY <1>2, <1>3, <1>4, <1>5, <1>6, <1>7 DEF Next, Works

-------------------------------------------------------------------------------
(* The handshake. *)

LEMMA AnswersArePreserved ==
    ASSUME ConnectionIsSound, [Next]_vars
    PROVE  AnswersAreInOrder'
  <1>0. /\ TypeOK /\ EndsAreSound /\ AnswersAreInOrder /\ RequestsAreInOrder
        /\ wire \in [Ends -> Seq(PieceSet)] /\ phase \in [Ends -> Phases]
    BY DEF ConnectionIsSound, StreamsAreWhole, TypeOK, PieceSet, Phases
  <1>1. ASSUME NEW e \in Ends, NEW w \in Writers,
               WriteHeader(e, w) \/ WritePayload(e, w) \/ WriteFails(e, w)
        PROVE  AnswersAreInOrder'
    <2>1. UNCHANGED <<phase, reader>> /\ alive' \subseteq alive
      BY <1>1 DEF WriteHeader, WritePayload, WriteFails
    <2>2. CASE e = "client"
      <3>1. wire'["server"] = wire["server"] /\ sending'["server"] = sending["server"]
        BY <1>0, <1>1, <2>2, WriteLeavesTheOther, TwoEnds
      <3> QED BY <1>0, <2>1, <3>1 DEF AnswersAreInOrder
    <2>3. CASE e = "server"
      <3>1. CASE phase["server"] \notin {"auth", "reg"}
        BY <1>0, <2>1, <3>1 DEF AnswersAreInOrder
      <3>2. CASE phase["server"] \in {"auth", "reg"} /\ sending["server"][w] = None
        <4>1. mutex["server"] # w
          BY <1>0, <3>2 DEF TypeOK, HasPayload, None, Kinds, Ends, Writers
        <4> QED BY <1>1, <2>3, <3>2, <4>1 DEF WriteHeader, WritePayload, WriteFails
      <3>3. CASE phase["server"] = "reg" /\ sending["server"][w] # None
        <4>1. sending["server"][w] = "AuthOK"
          BY <1>0, <3>3 DEF AnswersAreInOrder, Writers
        <4>2. /\ mutex["server"] # w
              /\ sending' = sending \/ Says("server", w, None)
          <5>1. ~HasPayload("AuthOK") /\ w \in Writers /\ None \notin Writers
            BY DEF HasPayload, None, Writers
          <5>2. mutex["server"] # w
            BY <1>0, <4>1, <5>1 DEF TypeOK, Ends
          <5>3. CASE WriteHeader(e, w)
            BY <2>3, <4>1, <5>1, <5>2, <5>3 DEF WriteHeader
          <5>4. CASE WriteFails(e, w)
            BY <2>3, <5>2, <5>4 DEF WriteFails
          <5>5. ~WritePayload(e, w)
            BY <2>3, <5>2 DEF WritePayload
          <5> QED BY <1>1, <5>3, <5>4, <5>5
        <4>3. /\ sending'["server"]["mode"] \in {None, "AuthOK"}
              /\ sending'["server"]["keepalive"] = None
          BY <1>0, <3>3, <4>2, SaysIs DEF AnswersAreInOrder, Ends, Writers
        <4>4. wire' = wire \/ Put("server", "header", "AuthOK")
          BY <1>1, <2>3, <4>1, <4>2 DEF WriteHeader, WritePayload, WriteFails
        <4>5. \A k \in 1..Len(wire'["server"]) : wire'["server"][k].kind = "AuthOK"
          <5>1. Piece("header", "AuthOK") \in PieceSet /\ Piece("header", "AuthOK").kind = "AuthOK"
            BY PieceIs DEF Kinds
          <5>2. CASE wire'["server"] = Append(wire["server"], Piece("header", "AuthOK"))
            <6>1. wire["server"] \in Seq(PieceSet)
              BY <1>0 DEF Ends
            <6>2. /\ Len(wire'["server"]) = Len(wire["server"]) + 1 /\ Len(wire["server"]) \in Nat
                  /\ \A k \in 1..Len(wire["server"]) : wire'["server"][k] = wire["server"][k]
                  /\ wire'["server"][Len(wire["server"]) + 1] = Piece("header", "AuthOK")
              BY <5>1, <5>2, <6>1, AppendIs
            <6>3. \A k \in 1..Len(wire["server"]) : wire["server"][k].kind = "AuthOK"
              BY <1>0, <3>3 DEF AnswersAreInOrder
            <6>4. \A k \in 1..Len(wire'["server"]) :
                      k \in 1..Len(wire["server"]) \/ k = Len(wire["server"]) + 1
              BY <6>2
            <6> QED BY <5>1, <6>2, <6>3, <6>4
          <5>3. CASE wire'["server"] = wire["server"]
            BY <1>0, <3>3, <5>3 DEF AnswersAreInOrder
          <5> QED BY <1>0, <4>4, <5>2, <5>3, PutIs DEF Ends, Kinds
        <4> QED BY <1>0, <2>1, <3>3, <4>3, <4>5 DEF AnswersAreInOrder
      <3>4. phase["server"] = "auth" => sending["server"][w] = None
        BY <1>0 DEF AnswersAreInOrder, Writers
      <3> QED BY <3>1, <3>2, <3>3, <3>4
    <2> QED BY <2>2, <2>3 DEF Ends
  <1>2. ASSUME NEW e \in Ends, KeepAlive(e) \/ SendData(e) PROVE AnswersAreInOrder'
    <2>1. UNCHANGED <<phase, reader, wire, alive>>
      BY <1>2 DEF KeepAlive, SendData
    <2>2. phase["server"] \in {"auth", "reg"} => sending'["server"] = sending["server"]
      BY <1>0, <1>2 DEF KeepAlive, SendData, AnswersAreInOrder, Says, TypeOK, Ends
    <2> QED BY <1>0, <2>1, <2>2 DEF AnswersAreInOrder
  <1>3. ASSUME NEW e \in Ends, ReadHeader(e) \/ ReadFrame(e),
               phase["server"] \in {"auth", "reg"}
        PROVE  /\ phase["server"] = "auth" => e = "server"
               /\ reader'["client"] = None
               /\ \A k \in 1..Len(wire'["server"]) : wire'["server"][k].kind = "AuthOK"
               /\ wire["server"] = <<>> => wire'["server"] = <<>>
    <2>1. Takes(e)
      BY <1>3 DEF ReadHeader, ReadFrame
    <2>2. CASE e = "client"
      <3>1. /\ wire["server"] # <<>> /\ Head(wire["server"]) = wire["server"][1]
            /\ wire'["server"] = Tail(wire["server"]) /\ wire["server"] \in Seq(PieceSet)
        BY <1>0, <2>1, <2>2, TakesIs, TwoEnds DEF Ends
      <3>2. /\ Len(wire["server"]) \in Nat /\ Len(wire["server"]) >= 1
            /\ Len(wire'["server"]) = Len(wire["server"]) - 1
            /\ \A k \in 1..Len(wire'["server"]) : wire'["server"][k] = wire["server"][k + 1]
        BY <3>1, TailIs
      <3>3. \A k \in 1..Len(wire["server"]) : wire["server"][k].kind = "AuthOK"
        BY <1>0, <1>3 DEF AnswersAreInOrder
      <3>4. Head(wire["server"]).kind = "AuthOK"
        BY <3>1, <3>2, <3>3
      <3>5. reader'["client"] = None
        BY <1>0, <1>3, <2>2, <3>4, TwoEnds
           DEF ReadHeader, ReadFrame, HasPayload, TypeOK, Ends
      <3>6. phase["server"] # "auth"
        BY <1>0, <3>1 DEF AnswersAreInOrder
      <3>7. \A k \in 1..Len(wire'["server"]) : k + 1 \in 1..Len(wire["server"])
        BY <3>2
      <3> QED BY <3>1, <3>2, <3>3, <3>5, <3>6, <3>7
    <2>3. CASE e = "server"
      <3>1. wire'["server"] = wire["server"]
        BY <1>0, <2>1, <2>3, TakesIs
      <3>2. reader'["client"] = reader["client"]
        BY <1>0, <1>3, <2>3 DEF ReadHeader, ReadFrame, TypeOK, Ends
      <3> QED BY <1>0, <1>3, <2>3, <3>1, <3>2 DEF AnswersAreInOrder
    <2> QED BY <2>2, <2>3 DEF Ends
  <1>4. ASSUME NEW e \in Ends, ReadHeader(e) PROVE AnswersAreInOrder'
    <2>1. UNCHANGED <<phase, sending, alive>>
      BY <1>4 DEF ReadHeader
    <2> QED BY <1>0, <1>3, <1>4, <2>1 DEF AnswersAreInOrder
  <1>5. ASSUME NEW e \in Ends, ReadFrame(e) PROVE AnswersAreInOrder'
    <2>1. CASE GetsAuthOK \/ GetsRegOK
      <3>1. /\ phase'["server"] = phase["server"] /\ phase["server"] \in {"reg", "run"}
            /\ phase'["client"] = "run" => phase["server"] = "run"
            /\ sending'["server"] = sending["server"] /\ alive' = alive
        BY <1>0, <2>1 DEF GetsAuthOK, GetsRegOK, Says, TypeOK, Ends
      <3> QED BY <1>0, <1>3, <1>5, <3>1 DEF AnswersAreInOrder
    <2>2. CASE GetsAuth
      <3>1. /\ phase'["server"] = "reg" /\ phase'["client"] = phase["client"]
            /\ phase["server"] = "auth" /\ alive' = alive
            /\ sending'["server"]["mode"] = "AuthOK"
            /\ sending'["server"]["keepalive"] = sending["server"]["keepalive"]
        BY <1>0, <2>2, SaysIs DEF GetsAuth, Ends, Writers, Kinds
      <3> QED BY <1>0, <1>3, <1>5, <3>1 DEF AnswersAreInOrder
    <2>3. CASE GetsRegister
      <3>1. phase'["server"] = "run" /\ phase'["client"] = phase["client"]
        BY <1>0, <2>3 DEF GetsRegister, Ends
      <3> QED BY <3>1 DEF AnswersAreInOrder
    <2>4. CASE GetsNothing
      BY <1>0, <1>3, <1>5, <2>4 DEF AnswersAreInOrder, GetsNothing
    <2>5. CASE GetsLast(e)
      <3>1. /\ phase'[e] = "end" /\ phase'[Other(e)] = phase[Other(e)]
            /\ alive' \subseteq alive /\ sending' = sending
        BY <1>0, <2>5, LeavesIs DEF GetsLast
      <3>2. CASE e = "client"
        <4>1. phase'["client"] = "end" /\ phase'["server"] = phase["server"]
          BY <3>1, <3>2, TwoEnds
        <4> QED BY <1>0, <1>3, <1>5, <3>1, <4>1 DEF AnswersAreInOrder
      <3>3. CASE e = "server"
        <4>1. phase'["server"] = "end"
          BY <3>1, <3>3
        <4> QED BY <4>1 DEF AnswersAreInOrder
      <3> QED BY <3>2, <3>3 DEF Ends
    <2> QED BY <1>0, <1>5, <2>1, <2>2, <2>3, <2>4, <2>5, WhatIsRead
  <1>6. ASSUME NEW e \in Ends, ReadFails(e) \/ TimesOut(e) PROVE AnswersAreInOrder'
    <2>1. UNCHANGED <<sending, wire, reader>> /\ alive' \subseteq alive
          /\ phase' = [phase EXCEPT ![e] = "end"]
      BY <1>6 DEF ReadFails, TimesOut, Leaves, writing
    <2> QED BY <1>0, <2>1 DEF AnswersAreInOrder, Ends, Phases
  <1>7. CASE ClientCloses \/ Cut \/ Pass \/ UNCHANGED vars
    <2>1. UNCHANGED <<sending, wire, reader, alive>>
          /\ phase' \in {phase, [phase EXCEPT !["client"] = "closing"]}
      BY <1>7 DEF ClientCloses, Cut, Pass, Enters, vars, writing
    <2> QED BY <1>0, <2>1 DEF AnswersAreInOrder, Ends, Phases
  <1> QED BY <1>1, <1>2, <1>4, <1>5, <1>6, <1>7 DEF Next, Works

\* The parts of RequestsAreInOrder.
WaitingIsSilent ==
    Waiting => /\ "client" \in alive /\ sending["client"]["keepalive"] = None
               /\ since["client"] <= wait + (IF phase["client"] = "reg" THEN 1 ELSE 0)
               /\ idle["client"] <= since["client"] /\ idle["server"] <= since["client"]
AuthIsSound ==
    phase["client"] = "auth" =>
        /\ SaysOnly("Auth") /\ phase["server"] \in {"auth", "reg"}
        /\ \A k \in 1..Len(wire["client"]) : wire["client"][k].part = "payload" =>
               k = Len(wire["client"]) /\ sending["client"]["mode"] = None
        /\ phase["server"] = "reg" => /\ wire["client"] = <<>> /\ reader["server"] = None
                                      /\ sending["client"]["mode"] = None
RegisterIsSound ==
    phase["client"] = "reg" => SaysOnly("Register") /\ phase["server"] \in {"reg", "run"}

LEMMA RequestsAre == RequestsAreInOrder <=> WaitingIsSilent /\ AuthIsSound /\ RegisterIsSound
  BY DEF RequestsAreInOrder, WaitingIsSilent, AuthIsSound, RegisterIsSound

\* No reader's deadline passes and no ticker fires during the handshake, and nobody leaves.
LEMMA NobodyIsInAHurry ==
    ASSUME TypeOK, EndsAreSound, RequestsAreInOrder, Waiting
    PROVE  /\ \A e \in Ends : ~TimesOut(e)
           /\ ~KeepAlive("client") /\ ~SendData("client") /\ ~ReadFails("server")
  <1>1. /\ since["client"] \in Nat /\ since["client"] <= 2
        /\ idle["client"] \in Nat /\ idle["server"] \in Nat
        /\ idle["client"] <= 2 /\ idle["server"] <= 2
    <2>1. since["client"] \in Nat /\ wait \in 0..1 /\ idle["client"] \in Nat /\ idle["server"] \in Nat
      BY DEF TypeOK, Ends, ReplyTimeout
    <2>2. since["client"] <= wait + 1
      BY <2>1 DEF RequestsAreInOrder
    <2> QED BY <2>1, <2>2 DEF RequestsAreInOrder
  <1>2. \A e \in Ends : ~TimesOut(e)
    BY <1>1 DEF TimesOut, Ends, ReadTimeout
  <1>3. ~KeepAlive("client")
    BY <1>1 DEF KeepAlive, Interval
  <1>4. ~SendData("client")
    BY DEF SendData, Waiting
  <1>5. ~ReadFails("server")
    <2>1. phase["client"] # "end" /\ "client" \notin closed
      BY DEF Waiting, EndsAreSound, Ends
    <2> QED BY <2>1, TwoEnds DEF ReadFails, Reading, Lost, EndsAreSound, Ends
  <1> QED BY <1>2, <1>3, <1>4, <1>5

\* While the client waits only its mode writes, and the server leaves as little as it.
LEMMA WaitingIsPreserved ==
    ASSUME ConnectionIsSound, [Next]_vars
    PROVE  WaitingIsSilent'
  <1>0. /\ TypeOK /\ EndsAreSound /\ AnswersAreInOrder /\ RequestsAreInOrder /\ WaitingIsSilent
        /\ phase \in [Ends -> Phases]
        /\ since["client"] \in Nat /\ idle["client"] \in Nat /\ idle["server"] \in Nat
        /\ wait \in Nat
    BY RequestsAre DEF ConnectionIsSound, StreamsAreWhole, TypeOK, Phases, Ends, Interval,
                       ReadTimeout, ReplyTimeout
  <1>1. CASE /\ phase'["client"] = phase["client"] \/ phase'["client"] \notin {"auth", "reg"}
             /\ UNCHANGED <<since, wait>>
             /\ Waiting => /\ sending'["client"]["keepalive"] = sending["client"]["keepalive"]
                           /\ "client" \in alive'
                           /\ \A e \in Ends : idle'[e] \in {0, idle[e]}
    BY <1>0, <1>1 DEF WaitingIsSilent, Waiting, Ends
  <1>2. ASSUME NEW e \in Ends, NEW w \in Writers,
               WriteHeader(e, w) \/ WritePayload(e, w) \/ WriteFails(e, w)
        PROVE  WaitingIsSilent'
    <2>1. UNCHANGED <<phase, since, idle, wait>>
      BY <1>2 DEF WriteHeader, WritePayload, WriteFails, clocks
    <2>2. sending'["client"]["keepalive"] \in {sending["client"]["keepalive"], None}
      <3>1. sending' = sending \/ Says(e, w, None)
        BY <1>2 DEF WriteHeader, WritePayload, WriteFails
      <3> QED BY <1>0, <3>1, SaysIs DEF Ends, Writers
    <2>3. Waiting => "client" \in alive'
      <3>1. CASE alive' = alive
        BY <1>0, <3>1 DEF WaitingIsSilent
      <3>2. CASE e # "client" /\ alive' \in {alive, alive \ {e}}
        BY <1>0, <3>2 DEF WaitingIsSilent
      <3>3. CASE w = "keepalive" /\ e = "client" /\ sending[e][w] # None
        BY <1>0, <3>3 DEF WaitingIsSilent
      <3> QED BY <1>2, <3>1, <3>2, <3>3 DEF WriteHeader, WritePayload, WriteFails
    <2> QED BY <1>0, <2>1, <2>2, <2>3 DEF WaitingIsSilent, Waiting
  <1>3. ASSUME NEW e \in Ends, KeepAlive(e) \/ SendData(e) PROVE WaitingIsSilent'
    <2>1. phase' = phase /\ UNCHANGED <<idle, wait, alive>>
      BY <1>3 DEF KeepAlive, SendData, clocks
    <2>2. CASE Waiting
      <3>1. e = "server"
        BY <1>0, <1>3, <2>2, NobodyIsInAHurry DEF Ends
      <3>2. since'["client"] = since["client"] /\ sending'["client"] = sending["client"]
        BY <1>0, <1>3, <3>1 DEF KeepAlive, SendData, Says, TypeOK, Ends, clocks
      <3> QED BY <1>0, <2>1, <2>2, <3>2 DEF WaitingIsSilent, Waiting
    <2> QED BY <2>1, <2>2 DEF WaitingIsSilent, Waiting
  <1>4. ASSUME NEW e \in Ends, ReadHeader(e) PROVE WaitingIsSilent'
    <2>1. UNCHANGED <<phase, sending, since, idle, wait, alive>>
      BY <1>4 DEF ReadHeader, Takes
    <2> QED BY <1>0, <2>1 DEF WaitingIsSilent, Waiting
  <1>5. ASSUME NEW e \in Ends, ReadFrame(e) PROVE WaitingIsSilent'
    <2>1. since' = since /\ \A d \in Ends : idle'[d] \in {0, idle[d]}
      BY <1>0, <1>5 DEF ReadFrame, Takes, Arm, TypeOK
    <2>2. CASE GetsAuthOK
      <3>1. /\ phase["client"] = "auth" /\ phase'["client"] = "reg" /\ wait' = 0
            /\ alive' = alive
            /\ sending'["client"]["keepalive"] = sending["client"]["keepalive"]
        BY <1>0, <2>2, SaysIs DEF GetsAuthOK, Ends, Writers, Kinds
      <3>2. wait <= 1
        BY <1>0 DEF TypeOK, ReplyTimeout
      <3>3. /\ since["client"] <= wait /\ idle["client"] <= since["client"]
            /\ idle["server"] <= since["client"]
        BY <1>0, <3>1 DEF WaitingIsSilent, Waiting
      <3>4. since'["client"] <= 0 + 1
        BY <1>0, <2>1, <3>2, <3>3
      <3>5. idle'["client"] <= since'["client"] /\ idle'["server"] <= since'["client"]
        BY <1>0, <2>1, <3>3 DEF Ends
      <3> QED BY <1>0, <3>1, <3>4, <3>5 DEF WaitingIsSilent, Waiting
    <2>3. CASE GetsRegOK
      BY <1>0, <2>3 DEF GetsRegOK, WaitingIsSilent, Waiting, Ends
    <2>4. CASE GetsAuth \/ GetsRegister
      <3>1. /\ phase'["client"] = phase["client"] /\ wait' = wait
            /\ alive \subseteq alive' /\ sending'["client"] = sending["client"]
        BY <1>0, <2>4 DEF GetsAuth, GetsRegister, Says, TypeOK, Ends
      <3> QED BY <1>0, <1>1, <2>1, <3>1 DEF WaitingIsSilent
    <2>5. CASE GetsLast(e)
      <3>1. ~Waiting /\ ~Waiting'
        BY <1>0, <2>5, LeavesIs, TwoEnds DEF GetsLast, Waiting, Ends
      <3> QED BY <3>1 DEF WaitingIsSilent
    <2>6. CASE GetsNothing
      BY <1>0, <1>1, <2>1, <2>6 DEF GetsNothing, WaitingIsSilent
    <2> QED BY <1>0, <1>5, <2>2, <2>3, <2>4, <2>5, <2>6, WhatIsRead
  <1>6. ASSUME NEW e \in Ends, ReadFails(e) \/ TimesOut(e) PROVE WaitingIsSilent'
    <2>1. Leaves(e) /\ UNCHANGED <<sending, since, idle, wait>>
      BY <1>6 DEF ReadFails, TimesOut, writing, clocks
    <2>2. CASE e = "client"
      BY <1>0, <2>1, <2>2, LeavesIs DEF WaitingIsSilent, Waiting
    <2>3. CASE e = "server" /\ ~Waiting
      <3>1. phase'["client"] = phase["client"]
        BY <1>0, <2>1, <2>3, LeavesIs, TwoEnds
      <3> QED BY <2>3, <3>1 DEF WaitingIsSilent, Waiting
    <2> QED BY <1>0, <1>6, <2>2, <2>3, NobodyIsInAHurry DEF Ends
  <1>7. CASE ClientCloses
    BY <1>0, <1>7 DEF ClientCloses, Enters, WaitingIsSilent, Waiting, Ends
  <1>8. CASE Pass
    <2>1. UNCHANGED <<phase, sending, alive>>
      BY <1>8 DEF Pass, writing
    <2>2. CASE Waiting
      <3>1. "client" \in alive /\ since["client"] < Interval
        BY <1>0, <1>8, <2>2 DEF WaitingIsSilent, Pass, Quiet, Ends
      <3>2. since'["client"] = since["client"] + 1 /\ wait' = wait + 1
        BY <1>0, <1>8, <2>2, <3>1, OlderIs DEF Pass, TypeOK, Interval, Ends
      <3>3. \A d \in Ends : idle'[d] \in 0..ReadTimeout /\ idle'[d] <= idle[d] + 1
        <4>1. /\ idle \in [Ends -> 0..ReadTimeout] /\ ReadTimeout \in Nat
              /\ idle' = Older(idle, [d \in Ends |-> HasDeadline(d)], ReadTimeout)
          BY <1>0, <1>8 DEF Pass, TypeOK, ReadTimeout
        <4> QED BY <4>1, OlderIs
      <3>4. since'["client"] <= wait' + (IF phase'["client"] = "reg" THEN 1 ELSE 0)
        BY <1>0, <2>1, <2>2, <3>2 DEF WaitingIsSilent
      <3>5. idle'["client"] <= since'["client"] /\ idle'["server"] <= since'["client"]
        BY <1>0, <2>2, <3>2, <3>3 DEF WaitingIsSilent, Ends, ReadTimeout
      <3> QED BY <1>0, <2>1, <2>2, <3>4, <3>5 DEF WaitingIsSilent, Waiting
    <2> QED BY <2>1, <2>2 DEF WaitingIsSilent, Waiting
  <1>9. CASE Cut \/ UNCHANGED vars
    BY <1>0, <1>9 DEF Cut, vars, writing, clocks, WaitingIsSilent, Waiting
  <1> QED BY <1>2, <1>3, <1>4, <1>5, <1>6, <1>7, <1>8, <1>9 DEF Next, Works

\* What a writer of the client does while the client waits for the answer to f.
LEMMA ClientWrites ==
    ASSUME TypeOK, NEW w \in Writers, NEW f \in {"Auth", "Register"}, SaysOnly(f),
           sending["client"]["keepalive"] = None, wire["client"] \in Seq(PieceSet),
           WriteHeader("client", w) \/ WritePayload("client", w) \/ WriteFails("client", w)
    PROVE  /\ SaysOnly(f)' /\ w = "mode" /\ sending["client"]["mode"] = f
           /\ \/ wire' = wire
              \/ /\ Len(wire'["client"]) = Len(wire["client"]) + 1
                 /\ \A k \in 1..Len(wire["client"]) : wire'["client"][k] = wire["client"][k]
                 /\ \/ wire'["client"][Len(wire["client"]) + 1].part = "header"
                    \/ sending'["client"]["mode"] = None
  <1>1. HasPayload(f) /\ f \in Kinds /\ f # None /\ "client" \in Ends /\ "mode" \in Writers
    BY DEF HasPayload, Kinds, None, Ends, Writers
  <1>2. sending["client"][w] # None
    BY <1>1 DEF WriteHeader, WritePayload, WriteFails, TypeOK, HasPayload, Kinds, None, Writers
  <1>3. w = "mode" /\ sending["client"]["mode"] = f
    BY <1>2 DEF SaysOnly, Writers
  <1>4. /\ sending' = sending \/ Says("client", w, None)
        /\ WritePayload("client", w) => Says("client", w, None)
        /\ reader' = reader
    BY DEF WriteHeader, WritePayload, WriteFails
  <1>5. /\ sending'["client"]["mode"] \in {None, f}
        /\ WritePayload("client", w) => sending'["client"]["mode"] = None
    <2>1. ASSUME Says("client", w, None) PROVE sending'["client"][w] = None
      <3>1. /\ sending \in [Ends -> [Writers -> Kinds \cup {None}]]
            /\ sending' = [sending EXCEPT !["client"][w] = None]
        BY <2>1 DEF Says, TypeOK
      <3> QED BY <1>1, <3>1
    <2>2. w = "mode" /\ sending["client"]["mode"] = f
      BY <1>3
    <2> QED BY <1>4, <2>1, <2>2
  <1>6. ASSUME NEW p \in {"header", "payload"}, Put("client", p, f), wire' # wire
        PROVE  /\ Len(wire'["client"]) = Len(wire["client"]) + 1
               /\ \A k \in 1..Len(wire["client"]) : wire'["client"][k] = wire["client"][k]
               /\ wire'["client"][Len(wire["client"]) + 1].part = p
               /\ wire'["client"][Len(wire["client"]) + 1].kind = f
    <2>1. Piece(p, f) \in PieceSet /\ Piece(p, f).part = p /\ Piece(p, f).kind = f
      BY <1>1, PieceIs
    <2>2. wire'["client"] = Append(wire["client"], Piece(p, f))
      BY <1>1, <1>6, PutIs DEF Put
    <2> QED BY <2>1, <2>2, AppendIs
  <1>7. \/ wire' = wire
        \/ /\ Len(wire'["client"]) = Len(wire["client"]) + 1
           /\ \A k \in 1..Len(wire["client"]) : wire'["client"][k] = wire["client"][k]
           /\ wire'["client"][Len(wire["client"]) + 1].kind = f
           /\ \/ wire'["client"][Len(wire["client"]) + 1].part = "header"
              \/ sending'["client"]["mode"] = None
    <2>1. CASE WriteHeader("client", w)
      BY <1>3, <1>6, <2>1 DEF WriteHeader
    <2>2. CASE WritePayload("client", w)
      BY <1>3, <1>5, <1>6, <2>2 DEF WritePayload
    <2>3. CASE WriteFails("client", w)
      BY <2>3 DEF WriteFails
    <2> QED BY <2>1, <2>2, <2>3
  <1>8. \A k \in 1..Len(wire'["client"]) : wire'["client"][k].kind = f
    <2>1. \A k \in 1..Len(wire["client"]) : wire["client"][k].kind = f
      BY DEF SaysOnly
    <2>2. CASE wire' = wire
      BY <2>1, <2>2
    <2>3. CASE Len(wire'["client"]) = Len(wire["client"]) + 1
      <3>1. \A k \in 1..Len(wire'["client"]) :
                k \in 1..Len(wire["client"]) \/ k = Len(wire["client"]) + 1
        BY <2>3
      <3> QED BY <1>7, <2>1, <2>3, <3>1
    <2> QED BY <1>7, <2>2, <2>3
  <1> QED BY <1>3, <1>4, <1>5, <1>7, <1>8 DEF SaysOnly

LEMMA ServerReads ==
    ASSUME TypeOK, Takes("server"), NEW f \in {"Auth", "Register"}, SaysOnly(f),
           sending'["client"]["mode"] = sending["client"]["mode"],
           reader'["server"] \in {None, Head(wire["client"]).kind}
    PROVE  /\ SaysOnly(f)'
           /\ Len(wire'["client"]) = Len(wire["client"]) - 1
           /\ \A k \in 1..Len(wire'["client"]) : wire'["client"][k] = wire["client"][k + 1]
  <1>1. /\ wire["client"] # <<>> /\ Head(wire["client"]) = wire["client"][1]
        /\ wire'["client"] = Tail(wire["client"]) /\ wire["client"] \in Seq(PieceSet)
    BY TakesIs, TwoEnds DEF Ends, TypeOK, PieceSet
  <1>2. /\ Len(wire["client"]) \in Nat /\ Len(wire["client"]) >= 1
        /\ Len(wire'["client"]) = Len(wire["client"]) - 1
        /\ \A k \in 1..Len(wire'["client"]) : wire'["client"][k] = wire["client"][k + 1]
    BY <1>1, TailIs
  <1>3. \A k \in 1..Len(wire'["client"]) : k + 1 \in 1..Len(wire["client"])
    BY <1>2
  <1>4. 1 \in 1..Len(wire["client"])
    BY <1>2
  <1> QED BY <1>1, <1>2, <1>3, <1>4 DEF SaysOnly

LEMMA RequestsArePreserved ==
    ASSUME ConnectionIsSound, [Next]_vars
    PROVE  AuthIsSound' /\ RegisterIsSound'
  <1>0. /\ TypeOK /\ EndsAreSound /\ AnswersAreInOrder /\ RequestsAreInOrder
        /\ AuthIsSound /\ RegisterIsSound /\ WaitingIsSilent
        /\ phase \in [Ends -> Phases] /\ wire["client"] \in Seq(PieceSet)
    BY RequestsAre DEF ConnectionIsSound, StreamsAreWhole, TypeOK, Phases, PieceSet, Ends
  <1>1. CASE /\ Waiting' => phase' = phase
             /\ UNCHANGED <<wire, reader>> /\ sending'["client"] = sending["client"]
    BY <1>0, <1>1 DEF AuthIsSound, RegisterIsSound, SaysOnly, Waiting
  <1>2. ASSUME NEW e \in Ends, NEW w \in Writers,
               WriteHeader(e, w) \/ WritePayload(e, w) \/ WriteFails(e, w)
        PROVE  AuthIsSound' /\ RegisterIsSound'
    <2>1. phase' = phase /\ reader' = reader
      BY <1>2 DEF WriteHeader, WritePayload, WriteFails
    <2>2. CASE e = "server"
      <3>1. wire'["client"] = wire["client"] /\ sending'["client"] = sending["client"]
        BY <1>0, <1>2, <2>2, WriteLeavesTheOther, TwoEnds
      <3> QED BY <1>0, <2>1, <3>1 DEF AuthIsSound, RegisterIsSound, SaysOnly
    <2>3. CASE e = "client"
      <3>1. WriteHeader("client", w) \/ WritePayload("client", w) \/ WriteFails("client", w)
        BY <1>2, <2>3
      <3>2. CASE phase["client"] = "auth"
        <4>1. SaysOnly("Auth") /\ sending["client"]["keepalive"] = None
          BY <1>0, <3>2 DEF AuthIsSound, WaitingIsSilent, Waiting
        <4>2. /\ SaysOnly("Auth")' /\ w = "mode" /\ sending["client"]["mode"] = "Auth"
              /\ \/ wire' = wire
                 \/ /\ Len(wire'["client"]) = Len(wire["client"]) + 1
                    /\ \A k \in 1..Len(wire["client"]) : wire'["client"][k] = wire["client"][k]
                    /\ \/ wire'["client"][Len(wire["client"]) + 1].part = "header"
                       \/ sending'["client"]["mode"] = None
          BY <1>0, <3>1, <4>1, ClientWrites
        <4>3. phase["server"] = "auth"
          BY <1>0, <3>2, <4>2 DEF AuthIsSound, None
        <4>4. \A k \in 1..Len(wire["client"]) : wire["client"][k].part # "payload"
          BY <1>0, <3>2, <4>2 DEF AuthIsSound, None
        <4>5. \A k \in 1..Len(wire'["client"]) : wire'["client"][k].part = "payload" =>
                  k = Len(wire'["client"]) /\ sending'["client"]["mode"] = None
          <5>1. CASE wire' = wire
            BY <4>4, <5>1
          <5>2. CASE Len(wire'["client"]) = Len(wire["client"]) + 1 /\ wire' # wire
            <6>1. \A k \in 1..Len(wire'["client"]) :
                      k \in 1..Len(wire["client"]) \/ k = Len(wire["client"]) + 1
              BY <1>0, <5>2
            <6> QED BY <4>2, <4>4, <5>2, <6>1
          <5> QED BY <4>2, <5>1, <5>2
        <4> QED BY <2>1, <3>2, <4>2, <4>3, <4>5 DEF AuthIsSound, RegisterIsSound
      <3>3. CASE phase["client"] = "reg"
        <4>1. SaysOnly("Register") /\ sending["client"]["keepalive"] = None
          BY <1>0, <3>3 DEF RegisterIsSound, WaitingIsSilent, Waiting
        <4>2. SaysOnly("Register")'
          BY <1>0, <3>1, <4>1, ClientWrites
        <4> QED BY <1>0, <2>1, <3>3, <4>2 DEF AuthIsSound, RegisterIsSound
      <3> QED BY <2>1, <3>2, <3>3 DEF AuthIsSound, RegisterIsSound
    <2> QED BY <2>2, <2>3 DEF Ends
  <1>3. ASSUME NEW e \in Ends, KeepAlive(e) \/ SendData(e)
        PROVE  AuthIsSound' /\ RegisterIsSound'
    <2>1. UNCHANGED <<phase, wire, reader>>
      BY <1>3 DEF KeepAlive, SendData
    <2>2. CASE Waiting
      <3>1. e = "server"
        BY <1>0, <1>3, <2>2, NobodyIsInAHurry DEF Ends
      <3>2. sending'["client"] = sending["client"]
        BY <1>0, <1>3, <3>1 DEF KeepAlive, SendData, Says, TypeOK, Ends
      <3> QED BY <1>1, <2>1, <3>2
    <2> QED BY <2>1, <2>2 DEF AuthIsSound, RegisterIsSound, Waiting
  <1>4. ASSUME NEW e \in Ends, ReadHeader(e) PROVE AuthIsSound' /\ RegisterIsSound'
    <2>1. UNCHANGED <<phase, sending>> /\ Takes(e)
      BY <1>4 DEF ReadHeader
    <2>2. CASE e = "client"
      <3>1. wire'["client"] = wire["client"] /\ reader'["server"] = reader["server"]
        BY <1>0, <1>4, <2>1, <2>2, TakesIs DEF ReadHeader, TypeOK, Ends
      <3> QED BY <1>0, <2>1, <3>1 DEF AuthIsSound, RegisterIsSound, SaysOnly
    <2>3. CASE e = "server"
      <3>1. /\ Takes("server") /\ reader'["server"] = Head(wire["client"]).kind
            /\ wire["client"] # <<>>
        BY <1>0, <1>4, <2>1, <2>3, TwoEnds DEF ReadHeader, Takes, TypeOK, Ends
      <3>2. CASE phase["client"] = "auth"
        <4>1. /\ SaysOnly("Auth")' /\ Len(wire'["client"]) = Len(wire["client"]) - 1
              /\ \A k \in 1..Len(wire'["client"]) : wire'["client"][k] = wire["client"][k + 1]
          BY <1>0, <2>1, <3>1, <3>2, ServerReads DEF AuthIsSound
        <4>2. \A k \in 1..Len(wire'["client"]) : k + 1 \in 1..Len(wire["client"])
          BY <1>0, <4>1
        <4>3. phase["server"] = "auth"
          BY <1>0, <3>1, <3>2 DEF AuthIsSound
        <4>4. \A k \in 1..Len(wire["client"]) : wire["client"][k].part = "payload" =>
                  k = Len(wire["client"]) /\ sending["client"]["mode"] = None
          BY <1>0, <3>2 DEF AuthIsSound
        <4>5. \A k \in 1..Len(wire'["client"]) : wire'["client"][k].part = "payload" =>
                  k = Len(wire'["client"]) /\ sending'["client"]["mode"] = None
          BY <1>0, <2>1, <4>1, <4>2, <4>4
        <4> QED BY <2>1, <3>2, <4>1, <4>3, <4>5 DEF AuthIsSound, RegisterIsSound
      <3>3. CASE phase["client"] = "reg"
        <4>1. SaysOnly("Register")'
          BY <1>0, <2>1, <3>1, <3>3, ServerReads DEF RegisterIsSound
        <4> QED BY <1>0, <2>1, <3>3, <4>1 DEF AuthIsSound, RegisterIsSound
      <3> QED BY <2>1, <3>2, <3>3 DEF AuthIsSound, RegisterIsSound
    <2> QED BY <2>2, <2>3 DEF Ends
  <1>5. ASSUME NEW e \in Ends, ReadFrame(e) PROVE AuthIsSound' /\ RegisterIsSound'
    <2>1. Takes(e) /\ reader' = [reader EXCEPT ![e] = None]
      BY <1>5 DEF ReadFrame
    <2>2. CASE e = "client"
      <3>1. wire'["client"] = wire["client"] /\ reader'["server"] = reader["server"]
        BY <1>0, <2>1, <2>2, TakesIs DEF TypeOK, Ends
      <3>2. CASE GetsAuthOK
        <4>1. /\ phase'["client"] = "reg" /\ phase'["server"] = "reg"
              /\ sending'["client"]["mode"] = "Register"
              /\ wire'["client"] = <<>> /\ reader'["server"] = None
          BY <1>0, <3>1, <3>2, SaysIs DEF GetsAuthOK, Ends, Writers, Kinds
        <4>2. \A k \in 1..Len(wire'["client"]) : FALSE
          BY <4>1
        <4> QED BY <4>1, <4>2 DEF AuthIsSound, RegisterIsSound, SaysOnly
      <3>3. CASE GetsRegOK
        BY <1>0, <3>3 DEF GetsRegOK, AuthIsSound, RegisterIsSound, Ends
      <3>4. CASE GetsLast(e)
        BY <1>0, <2>2, <3>4, LeavesIs DEF GetsLast, AuthIsSound, RegisterIsSound
      <3>5. CASE GetsNothing
        BY <1>0, <3>1, <3>5 DEF GetsNothing, AuthIsSound, RegisterIsSound, SaysOnly
      <3> QED BY <1>0, <1>5, <2>2, <3>2, <3>3, <3>4, <3>5, WhatIsRead
    <2>3. CASE e = "server"
      <3>1. Takes("server") /\ reader'["server"] = None /\ wire["client"] # <<>>
        BY <1>0, <2>1, <2>3, TwoEnds DEF Takes, TypeOK, Ends
      <3>2. CASE GetsAuth
        <4>1. /\ phase["server"] = "auth" /\ reader["server"] = "Auth"
              /\ phase'["server"] = "reg" /\ phase'["client"] = phase["client"]
              /\ sending'["client"] = sending["client"]
          BY <1>0, <3>2 DEF GetsAuth, Says, TypeOK, Ends
        <4>2. CASE phase["client"] = "auth"
          <5>1. /\ SaysOnly("Auth")' /\ Len(wire'["client"]) = Len(wire["client"]) - 1
            BY <1>0, <3>1, <4>1, <4>2, ServerReads DEF AuthIsSound
          <5>2. wire["client"][1].part = "payload"
            <6>1. \A k \in 1..Len(wire["client"]) :
                      Expected("client", k) # None =>
                          wire["client"][k] = Piece("payload", Expected("client", k))
              <7>1. "server" \notin closed
                BY <1>0, <4>1 DEF EndsAreSound, Ends
              <7> QED BY <7>1, TwoEnds
                      DEF ConnectionIsSound, StreamsAreWhole, FramesArriveWhole, Ends
            <6>2. 1 \in 1..Len(wire["client"])
              BY <1>0, <3>1, TailIs
            <6>3. Expected("client", 1) = "Auth"
              BY <4>1, TwoEnds DEF Expected
            <6>4. wire["client"][1] = Piece("payload", "Auth")
              BY <6>1, <6>2, <6>3 DEF None
            <6> QED BY <6>4, PieceIs DEF Kinds
          <5>3. Len(wire["client"]) = 1 /\ sending["client"]["mode"] = None
            <6>1. 1 \in 1..Len(wire["client"])
              BY <1>0, <3>1, TailIs
            <6> QED BY <1>0, <4>2, <5>2, <6>1 DEF AuthIsSound
          <5>4. wire'["client"] = <<>>
            <6>1. wire'["client"] \in Seq(PieceSet)
              BY <1>0, <3>1, TakesIs DEF Ends
            <6> QED BY <5>1, <5>3, <6>1
          <5>5. \A k \in 1..Len(wire'["client"]) : FALSE
            BY <5>4
          <5> QED BY <3>1, <4>1, <4>2, <5>1, <5>3, <5>4, <5>5 DEF AuthIsSound, RegisterIsSound
        <4>3. CASE phase["client"] = "reg"
          BY <1>0, <4>1, <4>3 DEF RegisterIsSound
        <4> QED BY <4>1, <4>2, <4>3 DEF AuthIsSound, RegisterIsSound
      <3>3. CASE GetsRegister
        <4>1. /\ phase["server"] = "reg" /\ reader["server"] = "Register"
              /\ phase'["server"] = "run" /\ phase'["client"] = phase["client"]
              /\ sending'["client"] = sending["client"]
          BY <1>0, <3>3 DEF GetsRegister, Says, TypeOK, Ends
        <4>2. phase["client"] # "auth"
          BY <1>0, <3>1, <4>1 DEF AuthIsSound
        <4>3. phase["client"] = "reg" => SaysOnly("Register")'
          BY <1>0, <3>1, <4>1, ServerReads DEF RegisterIsSound
        <4> QED BY <4>1, <4>2, <4>3 DEF AuthIsSound, RegisterIsSound
      <3>4. CASE GetsLast(e)
        <4>1. ~Waiting /\ phase'["client"] = phase["client"]
          BY <1>0, <2>3, <3>4, LeavesIs, TwoEnds DEF GetsLast
        <4> QED BY <4>1 DEF AuthIsSound, RegisterIsSound, Waiting
      <3>5. CASE GetsNothing
        <4>1. UNCHANGED <<phase, sending>>
          BY <3>5 DEF GetsNothing
        <4>2. CASE phase["client"] = "auth"
          <5>1. phase["server"] = "auth"
            BY <1>0, <3>1, <4>2 DEF AuthIsSound
          <5>2. /\ SaysOnly("Auth")' /\ Len(wire'["client"]) = Len(wire["client"]) - 1
                /\ \A k \in 1..Len(wire'["client"]) : wire'["client"][k] = wire["client"][k + 1]
            BY <1>0, <3>1, <4>1, <4>2, ServerReads DEF AuthIsSound
          <5>3. \A k \in 1..Len(wire'["client"]) : k + 1 \in 1..Len(wire["client"])
            BY <1>0, <5>2
          <5>4. \A k \in 1..Len(wire["client"]) : wire["client"][k].part = "payload" =>
                    k = Len(wire["client"]) /\ sending["client"]["mode"] = None
            BY <1>0, <4>2 DEF AuthIsSound
          <5>5. \A k \in 1..Len(wire'["client"]) : wire'["client"][k].part = "payload" =>
                    k = Len(wire'["client"]) /\ sending'["client"]["mode"] = None
            BY <1>0, <4>1, <5>2, <5>3, <5>4
          <5> QED BY <4>1, <4>2, <5>1, <5>2, <5>5 DEF AuthIsSound, RegisterIsSound
        <4>3. CASE phase["client"] = "reg"
          <5>1. SaysOnly("Register")'
            BY <1>0, <3>1, <4>1, <4>3, ServerReads DEF RegisterIsSound
          <5> QED BY <1>0, <4>1, <4>3, <5>1 DEF AuthIsSound, RegisterIsSound
        <4> QED BY <4>1, <4>2, <4>3 DEF AuthIsSound, RegisterIsSound
      <3> QED BY <1>0, <1>5, <2>3, <3>2, <3>3, <3>4, <3>5, WhatIsRead
    <2> QED BY <2>2, <2>3 DEF Ends
  <1>6. ASSUME NEW e \in Ends, ReadFails(e) \/ TimesOut(e)
        PROVE  AuthIsSound' /\ RegisterIsSound'
    <2>1. Leaves(e)
      BY <1>6 DEF ReadFails, TimesOut
    <2>2. ~Waiting'
      <3>1. CASE e = "client"
        BY <1>0, <2>1, <3>1, LeavesIs DEF Waiting
      <3>2. CASE e = "server" /\ ~Waiting
        <4>1. phase'["client"] = phase["client"]
          BY <1>0, <2>1, <3>2, LeavesIs, TwoEnds
        <4> QED BY <3>2, <4>1 DEF Waiting
      <3> QED BY <1>0, <1>6, <3>1, <3>2, NobodyIsInAHurry DEF Ends
    <2> QED BY <2>2 DEF AuthIsSound, RegisterIsSound, Waiting
  <1>7. CASE ClientCloses
    BY <1>0, <1>7 DEF ClientCloses, Enters, AuthIsSound, RegisterIsSound, Ends
  <1>8. CASE Cut \/ Pass \/ UNCHANGED vars
    BY <1>1, <1>8 DEF Cut, Pass, vars, writing
  <1> QED BY <1>2, <1>3, <1>4, <1>5, <1>6, <1>7, <1>8 DEF Next, Works

-------------------------------------------------------------------------------
(* The theorems about the frames and the handshake. *)

LEMMA InitIsSound == Init => ConnectionIsSound
  <1> SUFFICES ASSUME Init PROVE ConnectionIsSound
    OBVIOUS
  <1>1. TypeOK
    <2>1. /\ tun \in BOOLEAN /\ cut \in BOOLEAN
          /\ phase \in [Ends -> {"auth", "reg", "run", "closing", "end"}]
          /\ alive \subseteq Ends /\ closed \subseteq Ends /\ timedOut \subseteq Ends
      BY DEF Init, Ends
    <2>2. /\ sending \in [Ends -> [Writers -> Kinds \cup {None}]]
          /\ mutex \in [Ends -> Writers \cup {None}]
          /\ reader \in [Ends -> Kinds \cup {None}]
          /\ \A e \in Ends : mutex[e] # None => HasPayload(sending[e][mutex[e]])
      BY DEF Init, Ends, Writers, Kinds
    <2>3. wire \in [Ends -> Seq([part : {"header", "payload"}, kind : Kinds])]
      BY DEF Init
    <2>4. /\ since \in [Ends -> 0..Interval] /\ idle \in [Ends -> 0..ReadTimeout]
          /\ late \in [Ends -> 0..MaxLag] /\ wait \in 0..ReplyTimeout /\ data \in 0..MaxData
      BY TunnelAssumption DEF Init, Interval, ReadTimeout, ReplyTimeout
    <2> QED BY <2>1, <2>2, <2>3, <2>4 DEF TypeOK
  <1>2. /\ \A e \in Ends : wire[e] = <<>> /\ Len(wire[e]) = 0 /\ reader[e] = None /\ mutex[e] = None
        /\ \A e \in Ends : Other(e) \in Ends
    BY TwoEnds DEF Init
  <1>3. FramesArriveWhole /\ MutexGuardsFrames
    BY <1>2 DEF FramesArriveWhole, MutexGuardsFrames, Expected, Owed
  <1>4. EndsAreSound
    BY DEF Init, EndsAreSound, Ends, Writers, None
  <1>5. AnswersAreInOrder
    BY <1>2 DEF Init, AnswersAreInOrder, Ends, Writers, None
  <1>6. RequestsAreInOrder
    BY <1>2 DEF Init, RequestsAreInOrder, SaysOnly, Waiting, Ends, Writers, None
  <1> QED BY <1>1, <1>3, <1>4, <1>5, <1>6 DEF ConnectionIsSound, StreamsAreWhole

LEMMA StepIsSound == ConnectionIsSound /\ [Next]_vars => ConnectionIsSound'
  <1> SUFFICES ASSUME ConnectionIsSound, [Next]_vars PROVE ConnectionIsSound'
    OBVIOUS
  <1>1. TypeOK'
    <2>1. TypeOK /\ EndsAreSound /\ AnswersAreInOrder /\ RequestsAreInOrder
      BY DEF ConnectionIsSound, StreamsAreWhole
    <2> QED BY <2>1, TypesArePreserved, ReadFrameTypes
  <1>2. (FramesArriveWhole /\ MutexGuardsFrames)'
    BY StreamsArePreserved
  <1>3. EndsAreSound'
    <2>1. (EndsAreSound <=> PhasesAreSound /\ PiecesAreSound)'
      BY EndsAre, PTL
    <2> QED BY <2>1, PhasesArePreserved, PiecesArePreserved
  <1>4. AnswersAreInOrder'
    BY AnswersArePreserved
  <1>5. RequestsAreInOrder'
    <2>1. (RequestsAreInOrder <=> WaitingIsSilent /\ AuthIsSound /\ RegisterIsSound)'
      BY RequestsAre, PTL
    <2> QED BY <2>1, WaitingIsPreserved, RequestsArePreserved
  <1> QED BY <1>1, <1>2, <1>3, <1>4, <1>5 DEF ConnectionIsSound, StreamsAreWhole

\* The frames of the handshake come in order and the writers of an end take turns.
THEOREM ConnectionStaysSound == Spec => []ConnectionIsSound
  BY InitIsSound, StepIsSound, PTL DEF Spec

\* The bytes of two frames never mix, whoever writes and whatever the network does.
THEOREM FramesStayWhole == Spec => []StreamsAreWhole
  <1>1. ConnectionIsSound => StreamsAreWhole
    BY DEF ConnectionIsSound
  <1> QED BY <1>1, ConnectionStaysSound, PTL

\* No client is turned away for its heartbeat while it waits for an answer.
THEOREM NobodyIsTurnedAway == Spec => []HandshakeIsUndisturbed
  <1>1. ConnectionIsSound => HandshakeIsUndisturbed
    BY DEF ConnectionIsSound, RequestsAreInOrder, HandshakeIsUndisturbed, Waiting
  <1> QED BY <1>1, ConnectionStaysSound, PTL

-------------------------------------------------------------------------------
(* The deadlines. *)

LEMMA WatchedAre ==
    ASSUME ConnectionIsSound, TickersRun, NEW e \in Ends, Watched(e)
    PROVE  e \in alive /\ closed = {} /\ Other(e) \in Ends /\ phase[Other(e)] = "run"
  <1>1. closed = {}
    BY TwoEnds DEF Watched, ConnectionIsSound, StreamsAreWhole, TypeOK, Ends
  <1>2. CASE e = "client"
    BY <1>1, <1>2, TwoEnds DEF Watched, TickersRun
  <1>3. CASE e = "server"
    <2>1. phase["client"] = "run" /\ ~tun
      BY <1>3, TwoEnds DEF Watched
    <2>2. phase["server"] = "run"
      BY <1>1, <2>1 DEF ConnectionIsSound, AnswersAreInOrder, EndsAreSound, Ends
    <2> QED BY <1>1, <1>3, <2>1, <2>2, TwoEnds DEF TickersRun
  <1> QED BY <1>2, <1>3 DEF Ends

LEMMA TickersGoOn ==
    ASSUME ConnectionIsSound, TickersRun, [Next]_vars
    PROVE  TickersRun'
  <1>0. /\ TypeOK /\ EndsAreSound /\ AnswersAreInOrder /\ RequestsAreInOrder
        /\ phase \in [Ends -> Phases]
    BY DEF ConnectionIsSound, StreamsAreWhole, TypeOK, Phases
  <1>1. CASE alive \subseteq alive' /\ closed' = closed /\ tun' = tun
             /\ (phase'["server"] = phase["server"] \/ phase'["server"] # "run")
    BY <1>1 DEF TickersRun
  <1>2. CASE closed' # {}
    BY <1>2 DEF TickersRun
  <1>3. ASSUME NEW e \in Ends, NEW w \in Writers,
               WriteHeader(e, w) \/ WritePayload(e, w) \/ WriteFails(e, w)
        PROVE  TickersRun'
    <2>1. CASE WriteFails(e, w)
      BY <1>2, <2>1 DEF WriteFails, Lost
    <2>2. CASE WriteHeader(e, w) \/ WritePayload(e, w)
      BY <1>1, <2>2 DEF WriteHeader, WritePayload
    <2> QED BY <1>3, <2>1, <2>2
  <1>4. ASSUME NEW e \in Ends, KeepAlive(e) \/ SendData(e) \/ ReadHeader(e)
        PROVE  TickersRun'
    BY <1>1, <1>4 DEF KeepAlive, SendData, ReadHeader, Takes
  <1>5. ASSUME NEW e \in Ends, ReadFrame(e) PROVE TickersRun'
    <2>1. tun' = tun
      BY <1>5 DEF ReadFrame, Takes
    <2>2. CASE GetsRegister
      BY <2>1, <2>2 DEF GetsRegister, TickersRun
    <2>3. CASE GetsLast(e)
      <3>1. Leaves(e)
        BY <2>3 DEF GetsLast
      <3>2. closed' = closed \cup {e}
        BY <3>1 DEF Leaves
      <3> QED BY <1>2, <3>2
    <2>4. CASE GetsAuthOK \/ GetsRegOK \/ GetsAuth \/ GetsNothing
      BY <1>0, <1>1, <2>1, <2>4 DEF GetsAuthOK, GetsRegOK, GetsAuth, GetsNothing, Ends
    <2> QED BY <1>0, <1>5, <2>2, <2>3, <2>4, WhatIsRead
  <1>6. ASSUME NEW e \in Ends, ReadFails(e) \/ TimesOut(e) PROVE TickersRun'
    BY <1>2, <1>6 DEF ReadFails, TimesOut, Leaves
  <1>7. CASE ClientCloses \/ Cut \/ Pass \/ UNCHANGED vars
    BY <1>0, <1>1, <1>7 DEF ClientCloses, Cut, Pass, Enters, vars, Ends
  <1> QED BY <1>3, <1>4, <1>5, <1>6, <1>7 DEF Next, Works

\* What is known of an end that reads while the other sends heartbeats.
Waited(e) ==
    /\ idle[Other(e)] <= Interval + late[e] + (IF reader[Other(e)] = None THEN 0 ELSE MaxLag)
    /\ wire[e] = <<>> /\ (\A w \in Writers : sending[e][w] = None) =>
           idle[Other(e)] <= since[e]

LEMMA WaitedIs == HeartbeatsComeIn <=> \A e \in Ends : Watched(e) => Waited(e)
  BY DEF HeartbeatsComeIn, Waited

\* Only a frame that comes in starts the watch, and sets the deadline anew.
LEMMA WatchStarts ==
    ASSUME ConnectionIsSound, [Next]_vars, NEW e \in Ends, Watched(e)', ~Watched(e)
    PROVE  ReadFrame(Other(e))
  <1>0. /\ TypeOK /\ EndsAreSound /\ AnswersAreInOrder /\ RequestsAreInOrder
        /\ phase \in [Ends -> Phases] /\ Other(e) \in Ends
    BY TwoEnds DEF ConnectionIsSound, StreamsAreWhole, TypeOK, Phases
  <1>1. /\ ~cut' /\ e \notin closed' /\ Other(e) \notin closed'
        /\ phase'[Other(e)] = "run" /\ (e = "server" => ~tun')
    BY DEF Watched
  <1> SUFFICES ASSUME ~ReadFrame(Other(e)) PROVE FALSE
    OBVIOUS
  <1>2. CASE tun' = tun /\ (cut => cut') /\ closed \subseteq closed'
             /\ (phase'[Other(e)] = phase[Other(e)] \/ phase'[Other(e)] # "run")
    BY <1>1, <1>2 DEF Watched
  <1>3. ASSUME NEW d \in Ends, NEW w \in Writers,
               WriteHeader(d, w) \/ WritePayload(d, w) \/ WriteFails(d, w)
        PROVE  FALSE
    BY <1>2, <1>3 DEF WriteHeader, WritePayload, WriteFails
  <1>4. ASSUME NEW d \in Ends, KeepAlive(d) \/ SendData(d) \/ ReadHeader(d)
        PROVE  FALSE
    BY <1>2, <1>4 DEF KeepAlive, SendData, ReadHeader, Takes
  <1>5. ASSUME NEW d \in Ends, ReadFrame(d) PROVE FALSE
    <2>1. d = e /\ tun' = tun /\ cut' = cut
      <3>1. d # Other(e)
        BY <1>5
      <3>2. d = e
        BY <3>1, TwoEnds DEF Ends
      <3> QED BY <1>5, <3>2 DEF ReadFrame, Takes
    <2>2. CASE e = "client" /\ (GetsAuthOK \/ GetsRegOK)
      BY <1>0, <1>2, <2>1, <2>2, TwoEnds DEF GetsAuthOK, GetsRegOK
    <2>3. CASE e = "server" /\ (GetsAuth \/ GetsRegister)
      BY <1>0, <1>2, <2>1, <2>3, TwoEnds DEF GetsAuth, GetsRegister
    <2>4. CASE GetsLast(e)
      <3>1. Leaves(e)
        BY <2>4 DEF GetsLast
      <3> QED BY <1>1, <3>1 DEF Leaves
    <2>5. CASE GetsNothing
      BY <1>2, <2>1, <2>5 DEF GetsNothing
    <2> QED BY <1>0, <1>5, <2>1, <2>2, <2>3, <2>4, <2>5, WhatIsRead
  <1>6. ASSUME NEW d \in Ends, ReadFails(d) \/ TimesOut(d) PROVE FALSE
    BY <1>1, <1>6, TwoEnds DEF ReadFails, TimesOut, Leaves, Ends
  <1>7. CASE ClientCloses \/ Cut \/ Pass \/ UNCHANGED vars
    BY <1>0, <1>2, <1>7 DEF ClientCloses, Cut, Pass, Enters, vars, Ends
  <1> QED BY <1>3, <1>4, <1>5, <1>6, <1>7 DEF Next, Works

\* While the watch lasts a heartbeat is never further off.
LEMMA WatchGoesOn ==
    ASSUME ConnectionIsSound, ConnectionIsSound', TickersRun, [Next]_vars,
           NEW e \in Ends, Watched(e)', Watched(e), Waited(e)
    PROVE  Waited(e)'
  <1> DEFINE o == Other(e)
             Slack == IF reader[o] = None THEN 0 ELSE MaxLag
  <1>0. /\ TypeOK /\ EndsAreSound /\ AnswersAreInOrder /\ RequestsAreInOrder
        /\ e \in alive /\ closed = {} /\ o \in Ends /\ o # e /\ Other(o) = e /\ phase[o] = "run"
        /\ ~cut /\ closed' = {}
    <2>1. closed' = {}
      <3>1. closed' \subseteq Ends
        BY DEF ConnectionIsSound, StreamsAreWhole, TypeOK
      <3>2. e \notin closed' /\ Other(e) \notin closed'
        BY DEF Watched
      <3> QED BY <3>1, <3>2, TwoEnds DEF Ends
    <2>2. e \in alive /\ closed = {} /\ o \in Ends /\ phase[o] = "run"
      BY WatchedAre
    <2>3. o # e /\ Other(o) = e
      BY TwoEnds
    <2>4. ~cut
      BY DEF Watched
    <2>5. TypeOK /\ EndsAreSound /\ AnswersAreInOrder /\ RequestsAreInOrder
      BY DEF ConnectionIsSound, StreamsAreWhole
    <2> QED BY <2>1, <2>2, <2>3, <2>4, <2>5
  <1>1. /\ late[e] \in 0..MaxLag /\ late'[e] \in 0..MaxLag /\ MaxLag \in Nat
        /\ since[e] \in Nat /\ since'[e] \in Nat /\ idle[o] \in Nat /\ idle'[o] \in Nat
    <2>1. /\ late \in [Ends -> 0..MaxLag] /\ since \in [Ends -> 0..Interval]
          /\ idle \in [Ends -> 0..ReadTimeout]
      BY <1>0 DEF TypeOK
    <2>2. /\ late' \in [Ends -> 0..MaxLag] /\ since' \in [Ends -> 0..Interval]
          /\ idle' \in [Ends -> 0..ReadTimeout]
      BY DEF ConnectionIsSound, StreamsAreWhole, TypeOK
    <2> HIDE DEF o
    <2> QED BY <1>0, <2>1, <2>2, TunnelAssumption DEF Interval, ReadTimeout
  <1>2. CASE /\ idle'[o] = idle[o] /\ late'[e] = late[e] /\ reader'[o] = reader[o]
             /\ wire'[e] = <<>> /\ (\A w \in Writers : sending'[e][w] = None) =>
                    /\ wire[e] = <<>> /\ (\A w \in Writers : sending[e][w] = None)
                    /\ since'[e] = since[e]
    BY <1>2 DEF Waited
  <1>3. ASSUME NEW d \in Ends, NEW w \in Writers,
               WriteHeader(d, w) \/ WritePayload(d, w) \/ WriteFails(d, w)
        PROVE  Waited(e)'
    <2>1. ~WriteFails(d, w)
      BY <1>0, <1>3 DEF WriteFails, Lost
    <2>2. UNCHANGED <<idle, late, since, reader>>
      BY <1>3 DEF WriteHeader, WritePayload, WriteFails, clocks
    <2>3. CASE d = e
      <3>1. wire'[e] # <<>>
        <4>1. wire \in [Ends -> Seq(PieceSet)] /\ e \notin closed /\ Other(e) \notin closed
          BY <1>0 DEF TypeOK, PieceSet
        <4>2. \E q : wire' = [wire EXCEPT ![e] = Append(@, q)]
          BY <1>3, <2>1, <2>3, <4>1 DEF WriteHeader, WritePayload, Put
        <4> QED BY <4>1, <4>2, SMTT(30)
      <3> QED BY <1>2, <2>2, <3>1
    <2>4. CASE d # e
      <3>1. Other(d) = e
        BY <2>4, TwoEnds DEF Ends
      <3>2. wire'[e] = wire[e] /\ sending'[e] = sending[e]
        BY <1>0, <1>3, <3>1, WriteLeavesTheOther
      <3> QED BY <1>2, <2>2, <3>2
    <2> QED BY <2>3, <2>4
  <1>4. ASSUME NEW d \in Ends, KeepAlive(d) \/ SendData(d) PROVE Waited(e)'
    <2>1. UNCHANGED <<idle, late, reader, wire>>
      BY <1>4 DEF KeepAlive, SendData, clocks
    <2>2. CASE d = e
      <3>1. \E v \in Writers : sending'[e][v] # None
        BY <1>0, <1>4, <2>2 DEF KeepAlive, SendData, Says, TypeOK, Writers, None
      <3> QED BY <1>2, <2>1, <3>1
    <2>3. CASE d # e
      <3>1. since'[e] = since[e] /\ sending'[e] = sending[e]
        BY <1>0, <1>4, <2>3 DEF KeepAlive, SendData, Says, TypeOK, clocks
      <3> QED BY <1>2, <2>1, <3>1
    <2> QED BY <2>2, <2>3
  <1>5. ASSUME NEW d \in Ends, ReadHeader(d) PROVE Waited(e)'
    <2>1. Takes(d) /\ UNCHANGED <<sending, idle, since>>
      BY <1>5 DEF ReadHeader, Takes
    <2>2. CASE d = e
      <3>1. wire'[e] = wire[e] /\ late'[e] = late[e]
        BY <1>0, <2>1, <2>2, TakesIs
      <3>2. reader'[o] = reader[o]
        BY <1>0, <1>5, <2>2 DEF ReadHeader, TypeOK
      <3> QED BY <1>2, <2>1, <3>1, <3>2
    <2>3. CASE d = o
      <3>1. late'[e] = 0
        BY <1>0, <2>1, <2>3, TakesIs
      <3>2. reader[o] = None /\ reader'[o] # None
        BY <1>0, <1>5, <2>3 DEF ReadHeader, HasPayload, Kinds, None, TypeOK
      <3>3. ~(wire'[e] = <<>> /\ \A w \in Writers : sending'[e][w] = None)
        <4>1. /\ MutexGuardsFrames' /\ TypeOK'
          BY DEF ConnectionIsSound, StreamsAreWhole
        <4>2. Expected(e, Len(wire[e]) + 1)' = Owed(e)'
          BY <1>0, <4>1 DEF MutexGuardsFrames
        <4>3. wire'[e] = <<>> => Len(wire'[e]) + 1 = 1
          OBVIOUS
        <4>4. wire'[e] = <<>> => Expected(e, Len(wire[e]) + 1)' = reader'[o]
          BY <4>3 DEF Expected
        <4>5. mutex'[e] \in Writers \cup {None}
          BY <4>1 DEF TypeOK
        <4> QED BY <3>2, <4>2, <4>4, <4>5 DEF Owed
      <3>4. idle'[o] <= Interval + 0 + MaxLag
        <4>1. Interval \in Nat
          BY DEF Interval
        <4>2. idle[o] <= Interval + late[e] + 0
          BY <3>2 DEF Waited
        <4> QED BY <1>1, <2>1, <4>1, <4>2
      <3> QED BY <3>1, <3>2, <3>3, <3>4 DEF Waited
    <2> QED BY <2>2, <2>3, TwoEnds DEF Ends
  <1>6. ASSUME NEW d \in Ends, ReadFrame(d) PROVE Waited(e)'
    <2>1. Takes(d) /\ Arm(d) /\ UNCHANGED since
      BY <1>6 DEF ReadFrame, Takes
    <2>2. CASE d = e
      <3>1. wire'[e] = wire[e] /\ late'[e] = late[e]
        BY <1>0, <2>1, <2>2, TakesIs
      <3>2. reader'[o] = reader[o] /\ idle'[o] = idle[o]
        BY <1>0, <1>6, <2>1, <2>2 DEF ReadFrame, Arm, TypeOK
      <3>3. \A w \in Writers : sending[e][w] # None => sending'[e][w] = sending[e][w]
        BY <1>0, <1>6, NothingIsOverwritten
      <3> QED BY <1>2, <2>1, <3>1, <3>2, <3>3
    <2>3. CASE d = o
      <3>1. idle'[o] = 0
        BY <1>0, <2>1, <2>3 DEF Arm, TypeOK
      <3> QED BY <1>1, <3>1 DEF Waited, Interval
    <2> QED BY <2>2, <2>3, TwoEnds DEF Ends
  <1>7. ASSUME NEW d \in Ends, ReadFails(d) \/ TimesOut(d) PROVE Waited(e)'
    <2>1. Leaves(d)
      BY <1>7 DEF ReadFails, TimesOut
    <2> QED BY <1>0, <2>1 DEF Leaves
  <1>8. CASE Pass
    <2>1. UNCHANGED <<sending, wire, reader>>
      BY <1>8 DEF Pass, writing
    <2>2. /\ \A d \in Ends, w \in Writers : sending[d][w] = None
          /\ since[e] < Interval
      BY <1>0, <1>8 DEF Pass, Quiet
    <2>3. Reading(o)
      <3>1. o = "server" => sending[o]["mode"] \notin {"AuthOK", "RegOK"}
        BY <1>0, <2>2 DEF Writers, None
      <3> QED BY <1>0, <3>1 DEF Reading
    <2>4. wire[e] # <<>> => late[e] < MaxLag
      BY <1>0, <1>8, <2>3 DEF Pass, Quiet
    <2>5. since'[e] = since[e] + 1
      <3>1. /\ since' = Older(since, [d \in Ends |-> d \in alive], Interval)
            /\ since \in [Ends -> 0..Interval] /\ Interval \in Nat
        BY <1>0, <1>8 DEF Pass, TypeOK, Interval
      <3> QED BY <1>0, <2>2, <3>1, OlderIs
    <2>6. idle'[o] <= idle[o] + 1
      <3>1. /\ idle' = Older(idle, [d \in Ends |-> HasDeadline(d)], ReadTimeout)
            /\ idle \in [Ends -> 0..ReadTimeout] /\ ReadTimeout \in Nat
        BY <1>0, <1>8 DEF Pass, TypeOK, ReadTimeout
      <3> QED BY <1>0, <3>1, OlderIs
    <2>7. wire[e] # <<>> => late'[e] = late[e] + 1
      <3>1. /\ late' = Older(late, [d \in Ends |-> wire[d] # <<>>], MaxLag)
            /\ late \in [Ends -> 0..MaxLag]
        BY <1>0, <1>8 DEF Pass, TypeOK
      <3> DEFINE on == [d \in Ends |-> wire[d] # <<>>]
      <3>2. wire[e] # <<>> => on[e]
        OBVIOUS
      <3> HIDE DEF on
      <3>3. on[e] /\ late[e] < MaxLag => Older(late, on, MaxLag)[e] = late[e] + 1
        BY <1>1, <3>1, OlderIs
      <3>4. late' = Older(late, on, MaxLag)
        BY <3>1 DEF on
      <3> QED BY <2>4, <3>2, <3>3, <3>4
    <2>8. Slack \in Nat /\ Interval \in Nat
      BY <1>1 DEF Interval
    <2>9. CASE wire[e] = <<>>
      <3>1. idle[o] <= since[e]
        BY <2>2, <2>9 DEF Waited
      <3>2. idle'[o] <= since'[e] /\ idle'[o] <= Interval + late'[e] + Slack
        BY <1>1, <2>2, <2>5, <2>6, <2>8, <3>1
      <3> QED BY <2>1, <3>2 DEF Waited
    <2>10. CASE wire[e] # <<>>
      <3>1. idle[o] <= Interval + late[e] + Slack
        BY DEF Waited
      <3>2. idle'[o] <= Interval + late'[e] + Slack
        <4>1. late'[e] = late[e] + 1 /\ late[e] \in Nat
          BY <1>1, <2>7, <2>10
        <4>2. \A a, b, c, d, i \in Nat : a <= i + c + d /\ b <= a + 1 => b <= i + (c + 1) + d
          OBVIOUS
        <4> HIDE DEF Slack
        <4> QED BY <1>1, <2>6, <2>8, <3>1, <4>1, <4>2
      <3> QED BY <2>1, <2>10, <3>2 DEF Waited
    <2> QED BY <2>9, <2>10
  <1>9. CASE ClientCloses \/ Cut \/ UNCHANGED vars
    BY <1>2, <1>9 DEF ClientCloses, Cut, vars, writing, clocks
  <1> QED BY <1>3, <1>4, <1>5, <1>6, <1>7, <1>8, <1>9 DEF Next, Works

\* A deadline passes only for an end whose peer cannot be reached, or is not to speak.
LEMMA DeadlinesAreJust ==
    ASSUME Interval + 2 * MaxLag < ReadTimeout, ConnectionIsSound, TimesAreSound, [Next]_vars
    PROVE  NoFalseTimeout'
  <1>0. /\ TypeOK /\ EndsAreSound /\ AnswersAreInOrder /\ RequestsAreInOrder
        /\ TickersRun /\ NoFalseTimeout /\ HeartbeatsComeIn
    BY DEF ConnectionIsSound, StreamsAreWhole, TimesAreSound
  <1>1. closed \subseteq closed' /\ tun' = tun /\ (cut => cut')
    <2>1. ASSUME NEW e \in Ends, NEW w \in Writers,
                 WriteHeader(e, w) \/ WritePayload(e, w) \/ WriteFails(e, w)
          PROVE  closed \subseteq closed' /\ tun' = tun /\ (cut => cut')
      BY <2>1 DEF WriteHeader, WritePayload, WriteFails
    <2>2. ASSUME NEW e \in Ends, KeepAlive(e) \/ SendData(e) \/ ReadHeader(e)
          PROVE  closed \subseteq closed' /\ tun' = tun /\ (cut => cut')
      BY <2>2 DEF KeepAlive, SendData, ReadHeader, Takes
    <2>3. ASSUME NEW e \in Ends, ReadFrame(e)
          PROVE  closed \subseteq closed' /\ tun' = tun /\ (cut => cut')
      <3>1. tun' = tun /\ cut' = cut
        BY <2>3 DEF ReadFrame, Takes
      <3>2. closed \subseteq closed'
        BY <1>0, <2>3, WhatIsRead
           DEF GetsAuthOK, GetsRegOK, GetsAuth, GetsRegister, GetsLast, GetsNothing, Leaves
      <3> QED BY <3>1, <3>2
    <2>4. ASSUME NEW e \in Ends, ReadFails(e) \/ TimesOut(e)
          PROVE  closed \subseteq closed' /\ tun' = tun /\ (cut => cut')
      BY <2>4 DEF ReadFails, TimesOut, Leaves
    <2>5. CASE ClientCloses \/ Cut \/ Pass \/ UNCHANGED vars
      BY <2>5 DEF ClientCloses, Cut, Pass, Enters, vars
    <2> QED BY <2>1, <2>2, <2>3, <2>4, <2>5 DEF Next, Works
  <1>2. CASE timedOut' = timedOut
    BY <1>0, <1>1, <1>2 DEF NoFalseTimeout
  <1>3. ASSUME NEW e \in Ends, TimesOut(e) PROVE NoFalseTimeout'
    <2>1. CASE phase[e] = "closing"
      BY <1>2, <1>3, <2>1 DEF TimesOut
    <2>2. CASE phase[e] # "closing"
      <3>1. timedOut' = timedOut \cup {e} /\ idle[e] = ReadTimeout
        BY <1>3, <2>2 DEF TimesOut
      <3>2. ~Waiting
        BY <1>0, <1>3, NobodyIsInAHurry
      <3>3. phase[e] = "run"
        BY <1>0, <1>3, <2>2, <3>2 DEF TimesOut, HasDeadline, Waiting, TypeOK, Ends
      <3>4. e \notin closed /\ Other(e) \in Ends /\ Other(Other(e)) = e
            /\ (Other(e) = "server" <=> e = "client")
        BY <1>0, <3>3, TwoEnds DEF EndsAreSound, Ends
      <3>5. ~Watched(Other(e))
        <4> SUFFICES ASSUME Watched(Other(e)) PROVE FALSE
          OBVIOUS
        <4>1. idle[e] <= Interval + late[Other(e)] + (IF reader[e] = None THEN 0 ELSE MaxLag)
          BY <1>0, <3>4 DEF HeartbeatsComeIn
        <4>2. late[Other(e)] \in 0..MaxLag /\ MaxLag \in Nat
          BY <1>0, <3>4, TunnelAssumption DEF TypeOK
        <4>3. Interval \in Nat /\ ReadTimeout \in Nat
          BY DEF Interval, ReadTimeout
        <4> QED BY <3>1, <4>1, <4>2, <4>3
      <3>6. cut \/ Other(e) \in closed \/ (e = "client" /\ tun)
        BY <3>3, <3>4, <3>5 DEF Watched
      <3> QED BY <1>0, <1>1, <3>1, <3>6 DEF NoFalseTimeout
    <2> QED BY <2>1, <2>2
  <1>4. ASSUME NEW e \in Ends, Works(e) \/ SendData(e), ~TimesOut(e) PROVE NoFalseTimeout'
    BY <1>2, <1>4 DEF Works, WriteHeader, WritePayload, WriteFails, KeepAlive, SendData,
                      ReadHeader, ReadFrame, ReadFails, Takes
  <1>5. CASE ClientCloses \/ Cut \/ Pass \/ UNCHANGED vars
    BY <1>2, <1>5 DEF ClientCloses, Cut, Pass, vars
  <1> QED BY <1>3, <1>4, <1>5 DEF Next

\* Nobody is taken for dead who is not, if a header and a payload that are both late and
\* a heartbeat do not fill the read deadline.
THEOREM NobodyIsTakenForDead ==
    ASSUME Interval + 2 * MaxLag < ReadTimeout
    PROVE  Spec => []NoFalseTimeout
  <1>1. Init => ConnectionIsSound /\ TimesAreSound
    <2> SUFFICES ASSUME Init PROVE TimesAreSound
      BY InitIsSound
    <2>1. TickersRun /\ NoFalseTimeout
      BY DEF Init, TickersRun, NoFalseTimeout, Ends
    <2>2. \A e \in Ends : ~Watched(e)
      BY TwoEnds DEF Init, Watched
    <2> QED BY <2>1, <2>2 DEF TimesAreSound, HeartbeatsComeIn
  <1>2. ConnectionIsSound /\ TimesAreSound /\ [Next]_vars => (ConnectionIsSound /\ TimesAreSound)'
    <2> SUFFICES ASSUME ConnectionIsSound, TimesAreSound, [Next]_vars
                 PROVE  ConnectionIsSound' /\ TimesAreSound'
      OBVIOUS
    <2>1. ConnectionIsSound'
      BY StepIsSound
    <2>2. TickersRun'
      BY TickersGoOn DEF TimesAreSound
    <2>3. HeartbeatsComeIn'
      <3>1. ASSUME NEW e \in Ends, Watched(e)' PROVE Waited(e)'
        <4>1. CASE Watched(e)
          BY <2>1, <3>1, <4>1, WaitedIs, WatchGoesOn DEF TimesAreSound
        <4>2. CASE ~Watched(e)
          <5>1. ReadFrame(Other(e)) /\ Other(e) \in Ends
            BY <3>1, <4>2, WatchStarts, TwoEnds DEF TimesAreSound
          <5>2. idle'[Other(e)] = 0
            BY <5>1 DEF ReadFrame, Arm, ConnectionIsSound, StreamsAreWhole, TypeOK
          <5>3. late'[e] \in Nat /\ since'[e] \in Nat /\ MaxLag \in Nat
            BY <2>1, TunnelAssumption DEF ConnectionIsSound, StreamsAreWhole, TypeOK
          <5> QED BY <5>2, <5>3 DEF Waited, Interval
        <4> QED BY <4>1, <4>2
      <3>2. (HeartbeatsComeIn <=> \A e \in Ends : Watched(e) => Waited(e))'
        BY WaitedIs, PTL
      <3> QED BY <3>1, <3>2
    <2>4. NoFalseTimeout'
      BY DeadlinesAreJust
    <2> QED BY <2>1, <2>2, <2>3, <2>4 DEF TimesAreSound
  <1>3. TimesAreSound => NoFalseTimeout
    BY DEF TimesAreSound
  <1> QED BY <1>1, <1>2, <1>3, PTL DEF Spec

===============================================================================
