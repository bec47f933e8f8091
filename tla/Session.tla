-------------------------------- MODULE Session --------------------------------
(***************************************************************************)
(* pkg/session/session.go: the client's end of its connection to the       *)
(* server.  A read pump takes frames off the connection and puts them into *)
(* a bounded channel, dropping those that do not fit; a consumer (a mode's *)
(* loop, or waitForFrame before it) ranges over the channel; the owner,    *)
(* connectAndRun, calls Close when it returns.  A label names what the     *)
(* goroutine does next.                                                    *)
(***************************************************************************)
EXTENDS Naturals, Sequences

CONSTANTS
    Cap,        \* capacity of frameCh, 16 in the source
    MaxFrames   \* bound: frames the server writes to this connection

ASSUME SessionAssumption == Cap \in Nat \ {0} /\ MaxFrames \in Nat

VARIABLES
    sent,       \* frames the server has written, numbered from 1
    linkUp,     \* FALSE once the connection has failed or the server has left
    read,       \* the number of the frame Receive returned last
    pump,       \* readLoop
    frameCh,    \* what the channel holds
    chans,      \* those of "closeCh", "frameCh", "doneCh" that are closed
    connClosed, \* conn.Close was called
    taken,      \* what the consumer has got
    consumer,   \* "range", "left" (returned early) or "over" (the range ended)
    owner       \* "run", "wait" (in Close, for doneCh) or "closed"

vars == <<sent, linkUp, read, pump, frameCh, chans, connClosed, taken, consumer, owner>>

TypeOK ==
    /\ sent \in 0..MaxFrames /\ read \in 0..sent
    /\ linkUp \in BOOLEAN /\ connClosed \in BOOLEAN
    /\ pump \in {"receive", "select", "closeFrames", "closeDone", "done"}
    /\ frameCh \in Seq(1..MaxFrames) /\ Len(frameCh) <= Cap
    /\ chans \subseteq {"closeCh", "frameCh", "doneCh"}
    /\ taken \in Seq(1..MaxFrames)
    /\ consumer \in {"range", "left", "over"}
    /\ owner \in {"run", "wait", "closed"}

NewSession ==
    /\ sent = 0 /\ linkUp = TRUE /\ read = 0
    /\ pump = "receive"
    /\ frameCh = <<>> /\ chans = {} /\ connClosed = FALSE
    /\ taken = <<>> /\ consumer = "range" /\ owner = "run"

-------------------------------------------------------------------------------
(* The server and the network. *)

PeerSends ==
    /\ sent < MaxFrames /\ linkUp
    /\ sent' = sent + 1
    /\ UNCHANGED <<linkUp, read, pump, frameCh, chans, connClosed, taken, consumer, owner>>

LinkFails ==
    /\ linkUp
    /\ linkUp' = FALSE
    /\ UNCHANGED <<sent, read, pump, frameCh, chans, connClosed, taken, consumer, owner>>

-------------------------------------------------------------------------------
(* readLoop. *)

\* Mutant: the frame stays in the buffer of the connection.
ReceivedAgain == read' = IF read = 0 THEN 1 ELSE read

Received == read' = read + 1

PumpReceives ==
    /\ pump = "receive"
    /\ read < sent /\ ~connClosed
    /\ Received
    /\ pump' = "select"
    /\ UNCHANGED <<sent, linkUp, frameCh, chans, connClosed, taken, consumer, owner>>

\* Mutant: no read deadline is set.
ReceiveFailsByLink == ~linkUp

\* The connection has failed, or no frame has come before the deadline.
ReceiveFails == ~linkUp \/ read = sent

PumpFails ==
    /\ pump = "receive"
    /\ ReceiveFails
    /\ pump' = "closeFrames"
    /\ UNCHANGED <<sent, linkUp, read, frameCh, chans, connClosed, taken, consumer, owner>>

\* Mutant: the channel has one place less.
RoomForOneLess == Len(frameCh) + 1 < Cap

Room == Len(frameCh) < Cap

\* The select of the pump: the frame fits, ...
PumpDelivers ==
    /\ pump = "select"
    /\ Room
    /\ frameCh' = Append(frameCh, read)
    /\ pump' = "receive"
    /\ UNCHANGED <<sent, linkUp, read, chans, connClosed, taken, consumer, owner>>

\* ... the session is being closed (chosen at random when both are ready), ...
PumpStops ==
    /\ pump = "select"
    /\ "closeCh" \in chans
    /\ pump' = "closeFrames"
    /\ UNCHANGED <<sent, linkUp, read, frameCh, chans, connClosed, taken, consumer, owner>>

\* ... or neither, and the frame is dropped.
PumpDrops ==
    /\ pump = "select"
    /\ ~Room
    /\ "closeCh" \notin chans
    /\ pump' = "receive"
    /\ UNCHANGED <<sent, linkUp, read, frameCh, chans, connClosed, taken, consumer, owner>>

\* Mutant: only doneCh is closed.
PumpClosesOnlyDone ==
    /\ pump = "closeFrames"
    /\ pump' = "closeDone"
    /\ UNCHANGED <<sent, linkUp, read, frameCh, chans, connClosed, taken, consumer, owner>>

\* Mutant: the deferred calls run in the order they are written.
PumpClosesDoneFirst ==
    /\ pump = "closeFrames"
    /\ chans' = chans \cup {"doneCh"}
    /\ pump' = "closeDone"
    /\ UNCHANGED <<sent, linkUp, read, frameCh, connClosed, taken, consumer, owner>>

\* The deferred calls run in reverse order: frameCh is closed, then doneCh.
PumpClosesFrames ==
    /\ pump = "closeFrames"
    /\ chans' = chans \cup {"frameCh"}
    /\ pump' = "closeDone"
    /\ UNCHANGED <<sent, linkUp, read, frameCh, connClosed, taken, consumer, owner>>

PumpClosesDone ==
    /\ pump = "closeDone"
    /\ chans' = chans \cup {"doneCh"}
    /\ pump' = "done"
    /\ UNCHANGED <<sent, linkUp, read, frameCh, connClosed, taken, consumer, owner>>

-------------------------------------------------------------------------------
(* The consumer of FrameCh and the owner of the session. *)

\* A closed channel still gives what it holds.
ConsumerTakes ==
    /\ consumer = "range"
    /\ frameCh # <<>>
    /\ taken' = Append(taken, Head(frameCh))
    /\ frameCh' = Tail(frameCh)
    /\ UNCHANGED <<sent, linkUp, read, pump, chans, connClosed, consumer, owner>>

RangeEnds ==
    /\ consumer = "range"
    /\ frameCh = <<>> /\ "frameCh" \in chans
    /\ consumer' = "over"
    /\ UNCHANGED <<sent, linkUp, read, pump, frameCh, chans, connClosed, taken, owner>>

\* A timeout of waitForFrame, the end of a file, a failed write.
ConsumerLeaves ==
    /\ consumer = "range"
    /\ consumer' = "left"
    /\ UNCHANGED <<sent, linkUp, read, pump, frameCh, chans, connClosed, taken, owner>>

Close ==
    /\ owner = "run"
    /\ chans' = chans \cup {"closeCh"}
    /\ owner' = "wait"
    /\ UNCHANGED <<sent, linkUp, read, pump, frameCh, connClosed, taken, consumer>>

CloseConn ==
    /\ owner = "wait"
    /\ "doneCh" \in chans
    /\ connClosed' = TRUE /\ owner' = "closed"
    /\ UNCHANGED <<sent, linkUp, read, pump, frameCh, chans, taken, consumer>>

-------------------------------------------------------------------------------

Next ==
    \/ PeerSends \/ LinkFails
    \/ PumpReceives \/ PumpFails \/ PumpDelivers \/ PumpStops \/ PumpDrops
    \/ PumpClosesFrames \/ PumpClosesDone
    \/ ConsumerTakes \/ RangeEnds \/ ConsumerLeaves
    \/ Close \/ CloseConn

\* The goroutines run, time passes until a deadline, and a select takes a branch
\* that is ready often enough; nothing is asked of the server, of the owner before
\* it calls Close, nor of a consumer that has returned.
Fairness ==
    /\ WF_vars(PumpReceives \/ PumpFails)
    /\ WF_vars(PumpDelivers \/ PumpStops \/ PumpDrops)
    /\ SF_vars(PumpStops)
    /\ WF_vars(PumpClosesFrames) /\ WF_vars(PumpClosesDone)
    /\ WF_vars(ConsumerTakes) /\ WF_vars(RangeEnds)
    /\ WF_vars(CloseConn)

Spec == NewSession /\ [][Next]_vars

FairSpec == Spec /\ Fairness

-------------------------------------------------------------------------------
(* Properties. *)

\* Frames in the pump's hands: received and neither dropped nor put into the channel.
InHand == IF pump = "select" THEN 1 ELSE 0

Lost == read - InHand - Len(frameCh) - Len(taken)

\* What the code that ranges over FrameCh sees is what SessionPromise allows,
\* whatever is dropped, and whenever the owner closes.
Promise == INSTANCE SessionPromise WITH over <- consumer = "over"
KeepsPromise == Promise!Spec

\* Receive is not called on a connection the session itself has closed: conn.Close
\* comes after the pump has ended, so it never reports a failure of its own making.
ConnOutlivesPump == connClosed => pump = "done"

\* doneCh is closed last: whoever waits for it finds the pump gone and the range of
\* the consumer able to end.
DoneComesLast ==
    /\ "doneCh" \in chans <=> pump = "done"
    /\ "frameCh" \in chans <=> pump \in {"closeDone", "done"}
    /\ owner = "closed" => "doneCh" \in chans
    /\ connClosed <=> owner = "closed"

\* What was taken, then what the channel holds, then what the pump has in hand comes
\* in the order the server wrote it, and none of it twice.
FramesInOrder ==
    /\ pump = "select" => read > 0
    /\ \A k \in 1..Len(frameCh) : frameCh[k] + InHand <= read
    /\ \A j, k \in 1..Len(frameCh) : j < k => frameCh[j] < frameCh[k]
    /\ taken # <<>> =>
           /\ taken[Len(taken)] + InHand <= read
           /\ \A k \in 1..Len(frameCh) : taken[Len(taken)] < frameCh[k]

\* The inductive invariant behind ConnOutlivesPump and KeepsPromise.
SessionInvariant == TypeOK /\ DoneComesLast /\ FramesInOrder

\* A call of Close returns although the pump may be in Receive on a silent
\* connection: by the next frame or by the deadline.
CloseReturns == owner = "wait" ~> owner = "closed"

\* The range over FrameCh ends once the connection has failed, unless the consumer
\* has returned before.
RangeTerminates == ~linkUp ~> consumer # "range"

===============================================================================
