------------------------------- MODULE StreamMux -------------------------------
(***************************************************************************)
(* pkg/relay/tcp.go and stream.go: TCP connections multiplexed over one    *)
(* tunnel.  The listener end accepts users and gives each an identifier,   *)
(* the forwarder end dials the target for every PeerJoin; at both ends a   *)
(* read loop per connection turns data into frames and one loop turns      *)
(* frames into data.  An end's connection of stream s is called s too.     *)
(*                                                                         *)
(* The tunnel is the one of a listener with a single forwarder, of which no*)
(* frame is lost until the session ends.  A label names what a goroutine   *)
(* does next.                                                              *)
(***************************************************************************)
EXTENDS Naturals, Sequences, FiniteSets

CONSTANTS
    Streams,    \* the users' connections
    NoStream,   \* Go's nil net.Conn
    Sids,       \* number of identifiers, 2^16 in the source
    Chunks,     \* bound: end -> reads of a connection of that end that return data
    Closings,   \* bound: how applications close, of "eof" and "reset"
    Ending      \* bound: whether the session may end

Ends == {"listener", "forwarder"}
Sid == 0..(Sids - 1)
Other(e) == IF e = "listener" THEN "forwarder" ELSE "listener"

ASSUME StreamsAssumption ==
    /\ NoStream \notin Streams
    /\ Sids \in Nat \ {0}
    /\ Chunks \in [Ends -> Nat]
    /\ Closings \subseteq {"eof", "reset"}
    /\ Ending \in BOOLEAN

VARIABLES
    nextID,     \* the next identifier of the listener's StreamMap
    sid,        \* stream -> the identifier it was given
    conns,      \* end -> identifier -> connection (the StreamMap of the end)
    sock,       \* end -> stream -> "none", "open" or "closed" by this end
    app,        \* end -> stream -> "open", "eof" or "reset": the user, the target
    written,    \* end -> stream -> chunks the application writes before it closes
    taken,      \* end -> stream -> chunks the read loop has read
    got,        \* end -> stream -> chunks the application has received
    loop,       \* end -> stream -> the read loop of the connection
    joining,    \* the connection RunTCPListener has accepted and not announced
    link,       \* end -> frames on their way to it
    hand,       \* end -> what its frame loop does: a label, a frame, a connection
    up          \* FALSE once the session has ended

linkVars == <<link, up>>
appVars == <<app, written, got>>
vars == <<nextID, sid, conns, sock, appVars, taken, loop, joining, linkVars, hand>>

\* A frame: its type, its identifier and, of data, which chunk of which stream it is.
Frame(type, i, s, n) == [type |-> type, sid |-> i, from |-> s, n |-> n]
Frames == [type : {"PeerJoin", "Data", "PeerLeave"}, sid : Sid,
           from : Streams, n : Nat]
Idle == [at |-> "recv", frame |-> Frame("none", 0, NoStream, 0), conn |-> NoStream]
Hands == {Idle} \cup [at : {"write", "close", "remove"}, frame : Frames, conn : Streams]

TypeOK ==
    /\ nextID \in Sid
    /\ sid \in [Streams -> Sid]
    /\ conns \in [Ends -> [Sid -> Streams \cup {NoStream}]]
    /\ sock \in [Ends -> [Streams -> {"none", "open", "closed"}]]
    /\ app \in [Ends -> [Streams -> {"open", "eof", "reset"}]]
    /\ written \in [Ends -> [Streams -> Nat]]
    /\ taken \in [Ends -> [Streams -> Nat]]
    /\ \A e \in Ends, s \in Streams :
           written[e][s] <= Chunks[e] /\ taken[e][s] <= written[e][s]
    /\ got \in [Ends -> [Streams -> Seq([from : Streams, n : Nat])]]
    /\ loop \in [Ends -> [Streams -> {"off", "read", "send", "remove", "leave", "close", "done"}]]
    /\ joining \in Streams \cup {NoStream}
    /\ link \in [Ends -> Seq(Frames)]
    /\ hand \in [Ends -> Hands]
    /\ up \in BOOLEAN

Init ==
    /\ nextID = 0
    /\ sid = [s \in Streams |-> 0]
    /\ conns = [e \in Ends |-> [i \in Sid |-> NoStream]]
    /\ sock = [e \in Ends |-> [s \in Streams |-> "none"]]
    /\ app = [e \in Ends |-> [s \in Streams |-> "open"]]
    /\ \E l \in [Streams -> 0..Chunks["listener"]], f \in [Streams -> 0..Chunks["forwarder"]] :
           written = [e \in Ends |-> IF e = "listener" THEN l ELSE f]
    /\ taken = [e \in Ends |-> [s \in Streams |-> 0]]
    /\ got = [e \in Ends |-> [s \in Streams |-> <<>>]]
    /\ loop = [e \in Ends |-> [s \in Streams |-> "off"]]
    /\ joining = NoStream
    /\ link = [e \in Ends |-> <<>>]
    /\ hand = [e \in Ends |-> Idle]
    /\ up = TRUE

\* Send through the session: an error once it has ended.
Sent(e, f) == link' = IF up THEN [link EXCEPT ![Other(e)] = Append(@, f)] ELSE link

Step(e, s, l) == loop' = [loop EXCEPT ![e][s] = l]

-------------------------------------------------------------------------------
(* StreamMap: each operator is one critical section. *)

Get(e, i) == conns[e][i]

\* Mutant: the identifier is not used up.
AddAgain(s) ==
    /\ sid' = [sid EXCEPT ![s] = nextID]
    /\ conns' = [conns EXCEPT !["listener"][nextID] = s]
    /\ UNCHANGED nextID

Add(s) ==
    /\ sid' = [sid EXCEPT ![s] = nextID]
    /\ nextID' = (nextID + 1) % Sids
    /\ conns' = [conns EXCEPT !["listener"][nextID] = s]

AddWithID(s, i) == conns' = [conns EXCEPT !["forwarder"][i] = s]

Remove(e, i) == conns' = [conns EXCEPT ![e][i] = NoStream]

-------------------------------------------------------------------------------
(* The applications at both ends, and the tunnel. *)

\* The application closes its end after what it has written, or resets the connection.
\* One that closes only its writing half counts as gone: connReadLoop closes both halves
\* on EOF, so that what is still sent to it is lost.
AppCloses(e, s) ==
    /\ sock[e][s] = "open" /\ app[e][s] = "open"
    /\ \E a \in Closings : app' = [app EXCEPT ![e][s] = a]
    /\ UNCHANGED <<nextID, sid, conns, sock, written, taken, got, loop, joining, linkVars, hand>>

\* Frames that are in the session's channel by then are still handed out.
SessionEnds ==
    /\ Ending /\ up
    /\ up' = FALSE
    /\ \E l \in 0..Len(link["listener"]), f \in 0..Len(link["forwarder"]) :
           link' = [e \in Ends |-> SubSeq(link[e], 1, IF e = "listener" THEN l ELSE f)]
    /\ UNCHANGED <<nextID, sid, conns, sock, appVars, taken, loop, joining, hand>>

-------------------------------------------------------------------------------
(* RunTCPListener. *)

Accept(s) ==
    /\ joining = NoStream
    /\ up
    /\ sock["listener"][s] = "none"
    /\ sock' = [sock EXCEPT !["listener"][s] = "open"]
    /\ Add(s)
    /\ joining' = s
    /\ UNCHANGED <<appVars, taken, loop, linkVars, hand>>

\* The PeerJoin goes out, then the read loop starts.
Announce ==
    /\ joining # NoStream
    /\ up
    /\ Sent("listener", Frame("PeerJoin", sid[joining], joining, 0))
    /\ Step("listener", joining, "read")
    /\ joining' = NoStream
    /\ UNCHANGED <<nextID, sid, conns, sock, appVars, taken, up, hand>>

AnnounceFails ==
    /\ joining # NoStream
    /\ ~up
    /\ sock' = [sock EXCEPT !["listener"][joining] = "closed"]
    /\ Remove("listener", sid[joining])
    /\ Step("listener", joining, "done")
    /\ joining' = NoStream
    /\ UNCHANGED <<nextID, sid, appVars, taken, linkVars, hand>>

-------------------------------------------------------------------------------
(* connReadLoop of connection s at end e. *)

ReadChunk(e, s) ==
    /\ loop[e][s] = "read"
    /\ sock[e][s] = "open" /\ app[e][s] # "reset"
    /\ taken[e][s] < written[e][s]
    /\ taken' = [taken EXCEPT ![e][s] = @ + 1]
    /\ Step(e, s, "send")
    /\ UNCHANGED <<nextID, sid, conns, sock, appVars, joining, linkVars, hand>>

\* Mutant: the data that comes with the end of the stream is thrown away.
ReadFailsEarly(e, s) ==
    /\ loop[e][s] = "read"
    /\ sock[e][s] = "closed" \/ app[e][s] # "open"
    /\ Step(e, s, "remove")
    /\ UNCHANGED <<nextID, sid, conns, sock, appVars, taken, joining, linkVars, hand>>

\* Read returns an error: closed here, reset, or at the end of the data.
ReadFails(e, s) ==
    /\ loop[e][s] = "read"
    /\ \/ sock[e][s] = "closed"
       \/ app[e][s] = "reset"
       \/ app[e][s] = "eof" /\ taken[e][s] = written[e][s]
    /\ Step(e, s, "remove")
    /\ UNCHANGED <<nextID, sid, conns, sock, appVars, taken, joining, linkVars, hand>>

SendChunk(e, s) ==
    /\ loop[e][s] = "send"
    /\ Sent(e, Frame("Data", sid[s], s, taken[e][s]))
    /\ Step(e, s, IF up THEN "read" ELSE "remove")
    /\ UNCHANGED <<nextID, sid, conns, sock, appVars, taken, joining, up, hand>>

\* Mutant: the connection is not taken out of the map.
LoopKeeps(e, s) ==
    /\ loop[e][s] = "remove"
    /\ Step(e, s, "leave")
    /\ UNCHANGED <<nextID, sid, conns, sock, appVars, taken, joining, linkVars, hand>>

\* The deferred calls, last first.
LoopRemoves(e, s) ==
    /\ loop[e][s] = "remove"
    /\ Remove(e, sid[s])
    /\ Step(e, s, "leave")
    /\ UNCHANGED <<nextID, sid, sock, appVars, taken, joining, linkVars, hand>>

\* Mutant: the other end is not told.
LoopLeavesSilently(e, s) ==
    /\ loop[e][s] = "leave"
    /\ Step(e, s, "close")
    /\ UNCHANGED <<nextID, sid, conns, sock, appVars, taken, joining, linkVars, hand>>

LoopLeaves(e, s) ==
    /\ loop[e][s] = "leave"
    /\ Sent(e, Frame("PeerLeave", sid[s], s, 0))
    /\ Step(e, s, "close")
    /\ UNCHANGED <<nextID, sid, conns, sock, appVars, taken, joining, up, hand>>

LoopCloses(e, s) ==
    /\ loop[e][s] = "close"
    /\ sock' = [sock EXCEPT ![e][s] = "closed"]
    /\ Step(e, s, "done")
    /\ UNCHANGED <<nextID, sid, conns, appVars, taken, joining, linkVars, hand>>

ConnReadLoop(e, s) ==
    ReadChunk(e, s) \/ ReadFails(e, s) \/ SendChunk(e, s)
    \/ LoopRemoves(e, s) \/ LoopLeaves(e, s) \/ LoopCloses(e, s)

-------------------------------------------------------------------------------
(* handleForwarderFrames at the listener, RunTCPForwarder at the forwarder. *)

Arrives(e, type) ==
    /\ hand[e].at = "recv"
    /\ link[e] # <<>>
    /\ Head(link[e]).type = type

NextFrame(e) == link' = [link EXCEPT ![e] = Tail(@)]

Hold(e, l, f, s) == hand' = [hand EXCEPT ![e] = [at |-> l, frame |-> f, conn |-> s]]

\* The target answers: the connection is added and its read loop starts.
DialTarget ==
    /\ Arrives("forwarder", "PeerJoin")
    /\ LET f == Head(link["forwarder"]) IN
        /\ sock' = [sock EXCEPT !["forwarder"][f.from] = "open"]
        /\ AddWithID(f.from, f.sid)
        /\ Step("forwarder", f.from, "read")
    /\ NextFrame("forwarder")
    /\ UNCHANGED <<nextID, sid, appVars, taken, joining, up, hand>>

\* It does not: a PeerLeave goes back.
DialFails ==
    /\ Arrives("forwarder", "PeerJoin")
    /\ LET f == Head(link["forwarder"])
           leave == IF up THEN <<Frame("PeerLeave", f.sid, f.from, 0)>> ELSE <<>>
       IN  /\ link' = [link EXCEPT !["forwarder"] = Tail(@),
                                   !["listener"] = @ \o leave]
           /\ Step("forwarder", f.from, "done")
    /\ UNCHANGED <<nextID, sid, conns, sock, appVars, taken, joining, up, hand>>

\* The connection of a Data or PeerLeave frame is looked up; without one the frame
\* is ignored.
LookUp(e, type, l) ==
    /\ Arrives(e, type)
    /\ LET f == Head(link[e]) IN
           IF Get(e, f.sid) = NoStream THEN UNCHANGED hand
                                       ELSE Hold(e, l, f, Get(e, f.sid))
    /\ NextFrame(e)
    /\ UNCHANGED <<nextID, sid, conns, sock, appVars, taken, loop, joining, up>>

\* The error of a Write is ignored.
WriteData(e) ==
    /\ hand[e].at = "write"
    /\ LET s == hand[e].conn
           f == hand[e].frame
       IN  got' = IF sock[e][s] = "open" /\ app[e][s] = "open"
                  THEN [got EXCEPT ![e][s] = Append(@, [from |-> f.from, n |-> f.n])]
                  ELSE got
    /\ hand' = [hand EXCEPT ![e] = Idle]
    /\ UNCHANGED <<nextID, sid, conns, sock, app, written, taken, loop, joining, linkVars>>

CloseStream(e) ==
    /\ hand[e].at = "close"
    /\ sock' = [sock EXCEPT ![e][hand[e].conn] = "closed"]
    /\ hand' = [hand EXCEPT ![e].at = "remove"]
    /\ UNCHANGED <<nextID, sid, conns, appVars, taken, loop, joining, linkVars>>

RemoveStream(e) ==
    /\ hand[e].at = "remove"
    /\ Remove(e, hand[e].frame.sid)
    /\ hand' = [hand EXCEPT ![e] = Idle]
    /\ UNCHANGED <<nextID, sid, sock, appVars, taken, loop, joining, linkVars>>

HandleFrames(e) ==
    \/ LookUp(e, "Data", "write") \/ WriteData(e)
    \/ LookUp(e, "PeerLeave", "close") \/ CloseStream(e) \/ RemoveStream(e)

-------------------------------------------------------------------------------

Next ==
    \/ \E e \in Ends, s \in Streams :
           AppCloses(e, s) \/ ConnReadLoop(e, s)
    \/ \E s \in Streams : Accept(s)
    \/ Announce \/ AnnounceFails
    \/ DialTarget \/ DialFails
    \/ \E e \in Ends : HandleFrames(e)
    \/ SessionEnds

Spec == Init /\ [][Next]_vars

\* Every goroutine that can take a step is scheduled eventually, a dial succeeds or
\* fails; nothing is asked of the applications nor of the session.
Fairness ==
    /\ \A e \in Ends, s \in Streams : WF_vars(ConnReadLoop(e, s))
    /\ \A e \in Ends : WF_vars(HandleFrames(e))
    /\ WF_vars(Announce \/ AnnounceFails)
    /\ WF_vars(DialTarget \/ DialFails)

FairSpec == Spec /\ Fairness

-------------------------------------------------------------------------------
(* Properties. *)

\* A stream is a pipe in each direction: an application is given what StreamPromise
\* allows, whatever is on its way when either end closes or the session ends.
EndsOver == {p \in Ends \X Streams : sock[p[1]][p[2]] = "closed" \/ app[p[1]][p[2]] # "open"}
Pipes == INSTANCE StreamPromise WITH read <- taken, over <- EndsOver
StreamsArePipes == Pipes!Spec

\* A StreamMap has no entry of a connection whose read loop has cleaned up, although
\* two goroutines remove it and a third adds it.
EntriesAreLive ==
    \A e \in Ends, i \in Sid : \A s \in Streams : conns[e][i] = s =>
        /\ sid[s] = i
        /\ loop[e][s] \in {"read", "send", "remove"} \/ joining = s

\* Both maps at any time: identifiers in range, and entries of living connections.
MapsAreSound == TypeOK /\ EntriesAreLive

-------------------------------------------------------------------------------
(* Liveness under FairSpec. *)

\* While the session lasts, a stream that has ended at one end ends at the other.
StreamEndsAtBothEnds ==
    \A e \in Ends, s \in Streams :
        loop[e][s] = "done" ~> loop[Other(e)][s] = "done" \/ ~up

\* What an application has written before it closes arrives, unless the session
\* ends, the target cannot be reached or the application at the other end is gone.
WrittenArrives ==
    \A e \in Ends, s \in Streams :
        app[e][s] = "eof" ~>
            \/ Len(got[Other(e)][s]) = written[e][s]
            \/ ~up
            \/ app[Other(e)][s] # "open"
            \/ sock["forwarder"][s] = "none" /\ loop["forwarder"][s] = "done"

===============================================================================
