-------------------------------- MODULE Tunnel --------------------------------
(***************************************************************************)
(* One connection between a client and the server, with its clocks.        *)
(*                                                                         *)
(* pkg/tunnel/tunnel.go and pkg/protocol/codec.go: a frame is written as a *)
(* header and, if it has one, a payload, in two writes under writeMu; the  *)
(* reader takes a header and then the payload the header announces.  Two   *)
(* goroutines write at each end: the one that runs the mode and the one of *)
(* pkg/relay/keepalive.go.  The readers have deadlines (session.go:67,     *)
(* server.go:376, tun.go:164).                                             *)
(*                                                                         *)
(* Time passes in units of ten seconds, whenever nothing that takes no     *)
(* time is left to do; bytes under way come in within MaxLag units.        *)
(***************************************************************************)
EXTENDS Integers, Sequences

CONSTANTS
    MaxLag,     \* units a piece may be under way while the network works
    MaxData     \* bound: data frames

ASSUME TunnelAssumption == MaxLag \in Nat /\ MaxData \in Nat

Ends == {"client", "server"}
Other(e) == IF e = "client" THEN "server" ELSE "client"

Interval == 3       \* 30 s between two heartbeats
ReadTimeout == 9    \* 90 s of silence
\* Mutant: an answer is waited for as long as a heartbeat and more.
ReplyTimeoutLong == 4
ReplyTimeout == 1   \* 10 s for an answer of the handshake

Writers == {"mode", "keepalive"}
None == "none"
Kinds == {"Auth", "AuthOK", "Register", "RegOK", "Data", "Keepalive"}
HasPayload(f) == f \in Kinds \ {"AuthOK", "Keepalive"}

VARIABLES
    tun,        \* the client registers as a TUN listener
    phase,      \* end -> "auth", "reg", "run", "closing" or "end"
    sending,    \* end -> writer -> the frame it is in Send with, or None
    mutex,      \* end -> the writer that has written a header and not yet the payload
    wire,       \* end -> the pieces it wrote that are not read yet
    reader,     \* end -> the frame whose payload is read next, or None
    since,      \* end -> units since its ticker fired
    idle,       \* end -> units since its read deadline was set
    late,       \* end -> units its oldest piece has been under way
    wait,       \* units the client has waited for an answer
    alive,      \* ends whose keepalive goroutine runs
    closed,     \* ends whose connection is closed
    timedOut,   \* ends whose read deadline has passed
    cut,        \* the network delivers nothing any more
    data        \* data frames sent

clocks == <<since, idle, late, wait>>
writing == <<sending, mutex>>
vars == <<tun, phase, writing, wire, reader, clocks, alive, closed, timedOut, cut, data>>

Piece(part, f) == [part |-> part, kind |-> f]

TypeOK ==
    /\ tun \in BOOLEAN /\ cut \in BOOLEAN
    /\ phase \in [Ends -> {"auth", "reg", "run", "closing", "end"}]
    /\ sending \in [Ends -> [Writers -> Kinds \cup {None}]]
    /\ mutex \in [Ends -> Writers \cup {None}]
    /\ wire \in [Ends -> Seq([part : {"header", "payload"}, kind : Kinds])]
    /\ reader \in [Ends -> Kinds \cup {None}]
    /\ since \in [Ends -> 0..Interval] /\ idle \in [Ends -> 0..ReadTimeout]
    /\ late \in [Ends -> 0..MaxLag] /\ wait \in 0..ReplyTimeout
    /\ alive \subseteq Ends /\ closed \subseteq Ends /\ timedOut \subseteq Ends
    /\ data \in 0..MaxData
    /\ \A e \in Ends : mutex[e] # None => HasPayload(sending[e][mutex[e]])

\* NewSession, StartKeepAlive and the first statement of authenticate; HandleClient.
Init ==
    /\ tun \in BOOLEAN
    /\ phase = [e \in Ends |-> "auth"]
    /\ sending = [e \in Ends |-> [w \in Writers |->
                     IF e = "client" /\ w = "mode" THEN "Auth" ELSE None]]
    /\ mutex = [e \in Ends |-> None]
    /\ wire = [e \in Ends |-> <<>>]
    /\ reader = [e \in Ends |-> None]
    /\ since = [e \in Ends |-> 0] /\ idle = since /\ late = since /\ wait = 0
    /\ alive = {"client"}
    /\ closed = {} /\ timedOut = {} /\ cut = FALSE
    /\ data = 0

Says(e, w, f) == sending' = [sending EXCEPT ![e][w] = f]
Arm(e) == idle' = [idle EXCEPT ![e] = 0]

-------------------------------------------------------------------------------
(* Send. *)

\* What nobody will read is left out.
Put(e, part, f) ==
    wire' = IF Other(e) \in closed THEN wire ELSE [wire EXCEPT ![e] = Append(@, Piece(part, f))]

\* Mutant: Send does not take writeMu.
WriteHeaderUnlocked(e, w) ==
    /\ sending[e][w] # None /\ mutex[e] # w /\ e \notin closed
    /\ Put(e, "header", sending[e][w])
    /\ IF HasPayload(sending[e][w])
       THEN mutex' = [mutex EXCEPT ![e] = w] /\ UNCHANGED sending
       ELSE Says(e, w, None) /\ UNCHANGED mutex
    /\ UNCHANGED <<tun, phase, reader, clocks, alive, closed, timedOut, cut, data>>

WriteHeader(e, w) ==
    /\ sending[e][w] # None /\ mutex[e] = None /\ e \notin closed
    /\ Put(e, "header", sending[e][w])
    /\ IF HasPayload(sending[e][w])
       THEN mutex' = [mutex EXCEPT ![e] = w] /\ UNCHANGED sending
       ELSE Says(e, w, None) /\ UNCHANGED mutex
    /\ UNCHANGED <<tun, phase, reader, clocks, alive, closed, timedOut, cut, data>>

WritePayload(e, w) ==
    /\ mutex[e] = w /\ e \notin closed
    /\ Put(e, "payload", sending[e][w])
    /\ Says(e, w, None) /\ mutex' = [mutex EXCEPT ![e] = None]
    /\ UNCHANGED <<tun, phase, reader, clocks, alive, closed, timedOut, cut, data>>

\* Close was called at this end, or the other end's close has come in.
Lost(e) == e \in closed \/ (Other(e) \in closed /\ ~cut)

\* A frame may have been cut off; the keepalive goroutine returns.
WriteFails(e, w) ==
    /\ sending[e][w] # None /\ Lost(e)
    /\ mutex[e] \in {None, w}
    /\ Says(e, w, None) /\ mutex' = [mutex EXCEPT ![e] = None]
    /\ alive' = IF w = "keepalive" THEN alive \ {e} ELSE alive
    /\ UNCHANGED <<tun, phase, wire, reader, clocks, closed, timedOut, cut, data>>

\* Mutant: the deadline is set by what is sent.
KeepAliveArms(e) ==
    /\ e \in alive /\ since[e] = Interval
    /\ sending[e]["keepalive"] = None
    /\ Says(e, "keepalive", "Keepalive")
    /\ since' = [since EXCEPT ![e] = 0] /\ Arm(e)
    /\ UNCHANGED <<tun, phase, mutex, wire, reader, late, wait, alive, closed, timedOut, cut, data>>

\* The ticker of the keepalive goroutine has fired.
KeepAlive(e) ==
    /\ e \in alive /\ since[e] = Interval
    /\ sending[e]["keepalive"] = None
    /\ Says(e, "keepalive", "Keepalive")
    /\ since' = [since EXCEPT ![e] = 0]
    /\ UNCHANGED <<tun, phase, mutex, wire, reader, idle, late, wait, alive, closed, timedOut, cut, data>>

SendData(e) ==
    /\ phase[e] = "run" /\ sending[e]["mode"] = None
    /\ data < MaxData /\ data' = data + 1
    /\ Says(e, "mode", "Data")
    /\ UNCHANGED <<tun, phase, mutex, wire, reader, clocks, alive, closed, timedOut, cut>>

-------------------------------------------------------------------------------
(* Receive. *)

\* The reader of e leaves its loop and its end is closed.  The keepalive goroutine of the
\* server is told to stop, the client's finds out when it sends.
Leaves(e) ==
    /\ phase' = [phase EXCEPT ![e] = "end"]
    /\ closed' = closed \cup {e}
    /\ alive' = alive \ ({e} \cap {"server"})

Enters(e, l) == phase' = [phase EXCEPT ![e] = l] /\ UNCHANGED <<closed, alive>>

\* authenticate, register and the mode: the frames of other types are ignored.
ClientGets(f) ==
    \/ phase["client"] = "auth" /\ f = "AuthOK"
       /\ Enters("client", "reg") /\ Says("client", "mode", "Register") /\ wait' = 0
    \/ phase["client"] = "reg" /\ f = "RegOK"
       /\ Enters("client", "run") /\ wait' = 0 /\ UNCHANGED sending
    \/ phase["client"] = "closing"
       /\ Leaves("client") /\ UNCHANGED <<sending, wait>>
    \/ <<phase["client"], f>> \notin {<<"auth", "AuthOK">>, <<"reg", "RegOK">>}
       /\ UNCHANGED <<phase, closed, alive, sending, wait>>

\* HandleClient: any other frame during the handshake ends it.
ServerGets(f) ==
    /\ UNCHANGED wait
    /\ \/ phase["server"] = "auth" /\ f = "Auth"
          /\ Enters("server", "reg") /\ Says("server", "mode", "AuthOK")
       \/ phase["server"] = "reg" /\ f = "Register"
          /\ Says("server", "mode", "RegOK")
          /\ phase' = [phase EXCEPT !["server"] = "run"] /\ UNCHANGED closed
          /\ alive' = IF tun THEN alive ELSE alive \cup {"server"}
       \/ <<phase["server"], f>> \in ({"auth", "reg"} \X Kinds)
                                     \ {<<"auth", "Auth">>, <<"reg", "Register">>}
          /\ Leaves("server") /\ UNCHANGED sending
       \/ phase["server"] = "run" /\ UNCHANGED <<phase, closed, alive, sending>>

Gets(e, f) == IF e = "client" THEN ClientGets(f) ELSE ServerGets(f)

\* The goroutine that reads at the server is the one that answers.
Reading(e) ==
    /\ phase[e] # "end"
    /\ e = "server" => sending[e]["mode"] \notin {"AuthOK", "RegOK"}

\* ReadFull: the next piece of the other end comes in.
Takes(e) ==
    /\ Reading(e) /\ ~cut /\ wire[Other(e)] # <<>>
    /\ wire' = [wire EXCEPT ![Other(e)] = Tail(@)]
    /\ late' = [late EXCEPT ![Other(e)] = 0]
    /\ UNCHANGED <<tun, mutex, since, timedOut, cut, data>>

\* Whatever comes first is read as a header ...
ReadHeader(e) ==
    /\ reader[e] = None
    /\ Takes(e)
    /\ HasPayload(Head(wire[Other(e)]).kind)
    /\ reader' = [reader EXCEPT ![e] = Head(wire[Other(e)]).kind]
    /\ UNCHANGED <<phase, sending, idle, wait, alive, closed>>

\* Mutant: the deadline is set before the loop.
ReadFrameOnOneDeadline(e) ==
    LET f == IF reader[e] = None THEN Head(wire[Other(e)]).kind ELSE reader[e] IN
    /\ Takes(e)
    /\ reader[e] = None => ~HasPayload(f)
    /\ reader' = [reader EXCEPT ![e] = None]
    /\ Gets(e, f)
    /\ UNCHANGED idle

\* ... and whatever follows as its payload, which makes a frame; before the next one
\* is read the deadline is set anew.
ReadFrame(e) ==
    LET f == IF reader[e] = None THEN Head(wire[Other(e)]).kind ELSE reader[e] IN
    /\ Takes(e)
    /\ reader[e] = None => ~HasPayload(f)
    /\ reader' = [reader EXCEPT ![e] = None]
    /\ Gets(e, f)
    /\ Arm(e)

ReadFails(e) ==
    /\ Reading(e) /\ Lost(e)
    /\ Leaves(e)
    /\ UNCHANGED <<tun, writing, wire, reader, clocks, timedOut, cut, data>>

\* The server reads the frames of the handshake without a deadline.
HasDeadline(e) ==
    IF e = "client" THEN phase[e] # "end" ELSE phase[e] = "run"

TimesOut(e) ==
    /\ HasDeadline(e) /\ idle[e] = ReadTimeout
    /\ Leaves(e)
    /\ timedOut' = IF phase[e] = "closing" THEN timedOut ELSE timedOut \cup {e}
    /\ UNCHANGED <<tun, writing, wire, reader, clocks, cut, data>>

Waiting == phase["client"] \in {"auth", "reg"}

\* The client gives up, or its mode ends: Close waits for the reader, and the
\* keepalive goroutine goes on.
ClientCloses ==
    /\ \/ Waiting /\ wait = ReplyTimeout
       \/ phase["client"] = "run" /\ sending["client"]["mode"] = None
    /\ Enters("client", "closing")
    /\ UNCHANGED <<tun, writing, wire, reader, clocks, timedOut, cut, data>>

-------------------------------------------------------------------------------

Cut ==
    /\ ~cut /\ cut' = TRUE
    /\ UNCHANGED <<tun, phase, writing, wire, reader, clocks, alive, closed, timedOut, data>>

\* Nothing is left to do that takes no time.
Quiet ==
    /\ \A e \in Ends :
        /\ \A w \in Writers : sending[e][w] = None
        /\ e \in alive => since[e] < Interval
        /\ HasDeadline(e) => idle[e] < ReadTimeout
        /\ wire[e] # <<>> /\ ~cut /\ Reading(Other(e)) => late[e] < MaxLag
    /\ Waiting => wait < ReplyTimeout

Older(c, on, max) == [e \in Ends |-> IF ~on[e] THEN 0 ELSE IF c[e] < max THEN c[e] + 1 ELSE max]

Pass ==
    /\ Quiet
    /\ since' = Older(since, [e \in Ends |-> e \in alive], Interval)
    /\ idle' = Older(idle, [e \in Ends |-> HasDeadline(e)], ReadTimeout)
    /\ late' = Older(late, [e \in Ends |-> wire[e] # <<>>], MaxLag)
    /\ wait' = IF Waiting THEN wait + 1 ELSE 0
    /\ UNCHANGED <<tun, phase, writing, wire, reader, alive, closed, timedOut, cut, data>>

Works(e) ==
    \/ \E w \in Writers : WriteHeader(e, w) \/ WritePayload(e, w) \/ WriteFails(e, w)
    \/ KeepAlive(e) \/ ReadHeader(e) \/ ReadFrame(e) \/ ReadFails(e) \/ TimesOut(e)

Next ==
    \/ \E e \in Ends : Works(e) \/ SendData(e)
    \/ ClientCloses \/ Cut \/ Pass

Spec == Init /\ [][Next]_vars

\* Goroutines run and time goes on; a client that runs need not close.
FairSpec ==
    /\ Spec
    /\ \A e \in Ends : WF_vars(Works(e))
    /\ WF_vars(Waiting /\ ClientCloses)
    /\ WF_vars(Pass)

-------------------------------------------------------------------------------
(* Properties. *)

\* The frame whose payload has to follow a piece, and before the k-th piece under way.
Opens(p) == IF p.part = "header" /\ HasPayload(p.kind) THEN p.kind ELSE None
Expected(e, k) == IF k = 1 THEN reader[Other(e)] ELSE Opens(wire[e][k-1])

\* Two goroutines write to the connection and the bytes of two frames never mix: what
\* a reader takes next is what its place in the stream makes of it.
FramesArriveWhole ==
    \A e \in Ends : Other(e) \notin closed =>
        \A k \in 1..Len(wire[e]) :
            IF Expected(e, k) = None THEN wire[e][k].part = "header"
            ELSE wire[e][k] = Piece("payload", Expected(e, k))

\* The streams of a connection at any time: well-formed, and of whole frames.
StreamsAreWhole == TypeOK /\ FramesArriveWhole

\* Nobody is taken for dead who is not: while the network works and both ends are there
\* no deadline passes, though neither side says a word.  A TUN client is not sent
\* heartbeats and is the exception.
NoFalseTimeout ==
    \A e \in timedOut : cut \/ Other(e) \in closed \/ (e = "client" /\ tun)

\* The server takes only the Register frame after authentication, and the keepalive
\* goroutine of the client starts before it: no client is turned away for its heartbeat
\* while it waits for an answer, the network working or not.
HandshakeIsUndisturbed == phase["server"] = "end" => ~Waiting

\* An end that can no longer be reached is noticed, a client of which the server is
\* never heard again comes back from any step of its handshake, and no keepalive
\* goroutine outlives its connection for good.
SilenceIsNoticed ==
    /\ \A e \in Ends : cut /\ phase[e] = "run" ~> phase[e] = "end"
    /\ cut ~> phase["client"] = "end"
    /\ \A e \in Ends : e \in closed ~> e \notin alive

===============================================================================
