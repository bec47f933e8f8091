------------------------------ MODULE FileTransfer ------------------------------
(***************************************************************************)
(* pkg/relay/file.go: a file goes from a sender (a listener of the relay)  *)
(* to a receiver (a forwarder of its index) through the receiver's         *)
(* Session, from the receiver's registration request on: what is relayed   *)
(* to it before its RegOK is thrown away by waitForFrame.  The frames are  *)
(* numbered by Session; log says what each of them is.  A sender whose     *)
(* connection breaks starts again from FileMeta; what the handler of its   *)
(* former connection still does at the server (the frame it had read, then *)
(* UnregisterListener) comes at any time after.                            *)
(***************************************************************************)
EXTENDS Session

CONSTANTS
    Totals,         \* bound: how many chunks the file may have
    MaxAttempts     \* bound: connections the sender makes, the last of which lasts

ASSUME FileAssumption == Totals \subseteq Nat /\ MaxAttempts \in Nat \ {0}

VARIABLES
    total,      \* chunks of the file
    attempt,    \* the sender's connection, 1 for the first
    next,       \* what it sends next: 0 FileMeta, 1..total a chunk, then FileEnd
    truncated,  \* attempts whose f.Read failed before the end of the file
    old,        \* what the handlers of the sender's former connections still do
    paired,     \* the receiver is in the sender's list of forwarders
    registered, \* RegisterForwarder was called for the receiver
    regOK,      \* the number of its RegOK, 0 until the server has written it
    log,        \* log[n] is the n-th frame the server wrote to the receiver
    state,      \* recvState
    result,     \* "register" in waitForFrame, "none" in RunFileReceiver, then how it ended
    late        \* the receiver was once more than Cap frames behind

senderVars == <<total, attempt, next, truncated>>
serverVars == <<old, paired, registered, regOK, log>>
fileVars == <<senderVars, serverVars, state, result>>

FileFrame(type, n) == [type |-> type, attempt |-> attempt, n |-> n]
RegOK == [type |-> "RegOK", attempt |-> 0, n |-> 0]
FileFrames == {RegOK} \cup [type : {"FileMeta", "FileData", "FileEnd", "PeerLeave"},
                             attempt : 1..MaxAttempts, n : 0..total]

NoFile == [file |-> FALSE, content |-> <<>>, receivedChunks |-> 0]

FileTypeOK ==
    /\ TypeOK
    /\ total \in Totals
    /\ attempt \in 1..(MaxAttempts + 1)
    /\ next \in 0..(total + 2)
    /\ truncated \subseteq 1..MaxAttempts
    /\ old \in Seq(FileFrames) /\ log \in Seq(FileFrames) /\ Len(log) = sent
    /\ paired \in BOOLEAN /\ registered \in BOOLEAN /\ late \in BOOLEAN
    /\ regOK \in 0..sent
    /\ state \in [file : BOOLEAN, content : Seq((1..MaxAttempts) \X Nat),
                  receivedChunks : 0..MaxFrames]
    /\ result \in {"register", "none", "received", "warning", "failed", "closed"}

FileInit ==
    /\ NewSession
    /\ total \in Totals
    /\ attempt = 1 /\ next = 0 /\ truncated = {}
    /\ old = <<>> /\ paired = FALSE /\ registered = FALSE /\ regOK = 0 /\ log = <<>>
    /\ state = NoFile
    /\ result = "register" /\ late = FALSE

-------------------------------------------------------------------------------
(* The sender, and the server between the two. *)

\* The server broadcasts a frame of the listener to the forwarders in its list.
Relay(f) ==
    \/ paired /\ PeerSends /\ log' = Append(log, f)
    \/ ~paired /\ UNCHANGED <<vars, log>>

\* The receiver's handler calls RegisterForwarder; the sender does not wait for it.
Pair ==
    /\ ~registered
    /\ registered' = TRUE /\ paired' = TRUE
    /\ UNCHANGED <<vars, senderVars, old, regOK, log, state, result>>

\* HandleClient goes on to storeMeta and notifyPeerChange and writes the RegOK after them.
AnswerReceiver ==
    /\ registered /\ regOK = 0
    /\ PeerSends
    /\ log' = Append(log, RegOK) /\ regOK' = sent'
    /\ UNCHANGED <<senderVars, old, paired, registered, state, result>>

\* Mutant: the FileEnd counts the FileMeta in.
PieceCountsMeta ==
    CASE next = 0 -> FileFrame("FileMeta", 0)
      [] next \in 1..total -> FileFrame("FileData", next - 1)
      [] OTHER -> FileFrame("FileEnd", next)

\* The frame sent at this point: chunk k has sequence number k - 1.
Piece ==
    CASE next = 0 -> FileFrame("FileMeta", 0)
      [] next \in 1..total -> FileFrame("FileData", next - 1)
      [] OTHER -> FileFrame("FileEnd", total)

\* The steps of a sender whose receiver has gone from the list are left out: they
\* reach nobody.
Sending == attempt <= MaxAttempts /\ (paired \/ ~registered)

Send ==
    /\ Sending
    /\ next \in 0..(total + 1)
    /\ Relay(Piece)
    /\ next' = next + 1
    /\ UNCHANGED <<total, attempt, truncated, old, paired, registered, regOK, state, result>>

\* f.Read fails: any error is taken for the end of the file.
ReadFails ==
    /\ Sending
    /\ next \in 1..total
    /\ Relay(FileFrame("FileEnd", next - 1))
    /\ next' = total + 2
    /\ truncated' = truncated \cup {attempt}
    /\ UNCHANGED <<total, attempt, old, paired, registered, regOK, state, result>>

\* RunFileSender has returned nil: its session closes and the server unregisters it.
Finish ==
    /\ Sending
    /\ next = total + 2
    /\ old' = Append(old, FileFrame("PeerLeave", 0))
    /\ attempt' = MaxAttempts + 1 /\ next' = 0
    /\ UNCHANGED <<vars, total, truncated, paired, registered, regOK, log, state, result>>

\* The connection breaks, perhaps with a frame in the hands of its handler; RunClient
\* connects again with the same index and sends the file from the start.
Break ==
    /\ Sending /\ attempt < MaxAttempts
    /\ next \in 0..(total + 1)
    /\ \E hand \in {<<>>, <<Piece>>} : old' = old \o hand \o <<FileFrame("PeerLeave", 0)>>
    /\ attempt' = attempt + 1 /\ next' = 0
    /\ UNCHANGED <<vars, total, truncated, paired, registered, regOK, log, state, result>>

\* The handler of a former connection broadcasts what it has in hand, or runs
\* UnregisterListener, which empties the list whoever holds the index now.
OldHandler ==
    /\ old # <<>>
    /\ Relay(Head(old))
    /\ old' = Tail(old)
    /\ paired' = (paired /\ Head(old).type # "PeerLeave")
    /\ UNCHANGED <<senderVars, registered, regOK, state, result>>

-------------------------------------------------------------------------------
(* waitForFrame. *)

NextIs(type) == log[Head(frameCh)].type = type

Waiting == result = "register" /\ ConsumerTakes /\ UNCHANGED <<senderVars, serverVars, state>>

\* A frame of another type is read and thrown away.
Discard ==
    /\ Waiting
    /\ ~NextIs("RegOK")
    /\ UNCHANGED result

TakeRegOK ==
    /\ Waiting
    /\ NextIs("RegOK")
    /\ result' = "none"

\* No RegOK in 10 s.
RegistrationTimesOut ==
    /\ result = "register"
    /\ result' = "failed"
    /\ UNCHANGED <<vars, senderVars, serverVars, state>>

-------------------------------------------------------------------------------
(* RunFileReceiver. *)

Handling == result = "none" /\ ConsumerTakes /\ UNCHANGED <<senderVars, serverVars>>

\* os.Create empties the file; the count of chunks goes on.
HandleMeta ==
    /\ Handling
    /\ NextIs("FileMeta")
    /\ state' = [state EXCEPT !.file = TRUE, !.content = <<>>]
    /\ UNCHANGED result

\* Mutant: a chunk that comes without a file is counted.
HandleDataCounts ==
    /\ Handling
    /\ NextIs("FileData")
    /\ LET f == log[Head(frameCh)] IN
           state' = [state EXCEPT !.content = IF state.file THEN Append(@, <<f.attempt, f.n>>) ELSE @,
                                  !.receivedChunks = @ + 1]
    /\ UNCHANGED result

\* A chunk is appended whatever its number; without a file it is ignored.
HandleData ==
    /\ Handling
    /\ NextIs("FileData")
    /\ LET f == log[Head(frameCh)] IN
           state' = IF state.file
                    THEN [state EXCEPT !.content = Append(@, <<f.attempt, f.n>>),
                                       !.receivedChunks = @ + 1]
                    ELSE state
    /\ UNCHANGED result

\* Mutant: a FileEnd that comes without a file is ignored.
HandleEndOfFile ==
    /\ Handling
    /\ NextIs("FileEnd")
    /\ result' = IF ~state.file THEN "none"
                 ELSE IF state.receivedChunks = log[Head(frameCh)].n THEN "received" ELSE "warning"
    /\ UNCHANGED state

\* The counts are compared; RunFileReceiver returns nil either way.
HandleEnd ==
    /\ Handling
    /\ NextIs("FileEnd")
    /\ result' = IF state.receivedChunks = log[Head(frameCh)].n THEN "received" ELSE "warning"
    /\ UNCHANGED state

Ignore ==
    /\ Handling
    /\ NextIs("PeerLeave")
    /\ UNCHANGED <<state, result>>

\* The file cannot be created, or a chunk not be written.
HandleFails ==
    /\ Handling
    /\ NextIs("FileMeta") \/ (NextIs("FileData") /\ state.file)
    /\ result' = "failed"
    /\ UNCHANGED state

\* The channel is closed: an error of the registration, or of the transfer.
RangeOver ==
    /\ result \in {"register", "none"}
    /\ RangeEnds
    /\ result' = IF result = "register" THEN "failed" ELSE "closed"
    /\ UNCHANGED <<senderVars, serverVars, state>>

\* connectAndRun returns out of the range, ...
ReceiverReturns ==
    /\ result \notin {"register", "none"}
    /\ ConsumerLeaves
    /\ UNCHANGED fileVars

\* ... and closes the session.
ReceiverCloses ==
    /\ consumer # "range"
    /\ Close
    /\ UNCHANGED fileVars

Receiver ==
    \/ Discard \/ TakeRegOK \/ RegistrationTimesOut
    \/ HandleMeta \/ HandleData \/ HandleEnd \/ Ignore \/ HandleFails
    \/ RangeOver \/ ReceiverReturns

-------------------------------------------------------------------------------

\* The read pump and the rest of Close, which do not look into the frames.
SessionStep ==
    /\ \/ LinkFails
       \/ PumpReceives \/ PumpFails \/ PumpDelivers \/ PumpStops \/ PumpDrops
       \/ PumpClosesFrames \/ PumpClosesDone \/ CloseConn
    /\ UNCHANGED fileVars

FileNext ==
    /\ \/ Pair \/ AnswerReceiver \/ Send \/ ReadFails \/ Finish \/ Break \/ OldHandler
       \/ Receiver \/ ReceiverCloses \/ SessionStep
    /\ late' = (late \/ sent' - Len(taken') > Cap)

allVars == <<vars, fileVars, late>>

FileSpec == FileInit /\ [][FileNext]_allVars

\* The fairness of Session, of the receiver's return and its Close; nothing is asked of
\* the sender, the network and the handlers at the server.
FileFairSpec ==
    /\ FileSpec /\ Fairness
    /\ WF_allVars(Receiver /\ UNCHANGED late)
    /\ WF_allVars(ReceiverCloses /\ UNCHANGED late)

-------------------------------------------------------------------------------
(* Properties. *)

\* The session under the receiver keeps its inductive invariant whatever the receiver
\* does with its frames: the channels are closed in order, doneCh last, the connection
\* after both, and what is taken, buffered and in hand is in the order of the server.
FileInvariant == FileTypeOK /\ SessionInvariant

\* The channel drops frames, but only of a consumer that lags: one that is never
\* more than Cap frames behind the server gets every frame, however the steps of the
\* server, the pump and the consumer interleave.
LossNeedsLag == Lost > 0 => late \/ "closeCh" \in chans

Whole(a) == [k \in 1..total |-> <<a, k - 1>>]

\* What RunFileReceiver has handled: the frames after the RegOK.
Handled == {n \in 1..Len(taken) : taken[n] > regOK}
From(a) == \A n \in Handled : log[taken[n]].attempt = a

\* "received n/n chunks" is the truth: when the counts agree and everything came from
\* one attempt of the sender whose reads did not fail, the file holds every chunk in
\* order, although nothing looks at the numbers of the chunks and the channel
\* may drop any of them, the FileMeta too.
ReceivedMeansWhole ==
    \A a \in 1..MaxAttempts :
        result = "received" /\ From(a) /\ a \notin truncated => state.content = Whole(a)

\* The warning needs a cause: a receiver that hears the first attempt of the sender only
\* and never lags gets what is sent without one, if its RegOK comes before the FileMeta.
\* One that is paired before the FileMeta and told so after it gets the warning: the
\* FileMeta was thrown away by waitForFrame.
WarningNeedsACause ==
    result = "warning" => late \/ ~From(1) \/ log[regOK + 1].type # "FileMeta"

\* A receiver that ends with "session closed before receiving FileEnd" lagged or had
\* received no FileEnd after its RegOK: the channel hands out the FileEnd it holds before
\* its end, the link failing or not.  A FileEnd that is dropped, or thrown away before the
\* RegOK, leaves the receiver to wait for that error.
EndIsNoticed ==
    result = "closed" => late \/ \A n \in (regOK + 1)..read : log[n].type # "FileEnd"

===============================================================================
