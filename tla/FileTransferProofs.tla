--------------------------- MODULE FileTransferProofs ---------------------------
(***************************************************************************)
(* Proofs about sessions and about a file transfer over one.  For every    *)
(* capacity of the channel and every number of frames, SessionInvariant    *)
(* holds of a session and a session implements SessionPromise.  For every  *)
(* size of the file and every number of attempts of its sender, the        *)
(* session under the receiver does so too, and what the receiver reports   *)
(* is true.                                                                *)
(***************************************************************************)
EXTENDS FileTransfer, TLAPS

-------------------------------------------------------------------------------
(* The session: its inductive invariant. *)

\* A new session has nothing in its channel and no channel closed.
LEMMA NewSessionIsSound == NewSession => SessionInvariant
  <1> SUFFICES ASSUME NewSession PROVE SessionInvariant
    OBVIOUS
  <1> USE DEF NewSession
  <1>1. TypeOK
    <2>1. linkUp \in BOOLEAN /\ connClosed \in BOOLEAN
      OBVIOUS
    <2>2. sent \in 0..MaxFrames /\ read \in 0..sent /\ Len(frameCh) <= Cap
      BY SessionAssumption
    <2>3. frameCh \in Seq(1..MaxFrames) /\ taken \in Seq(1..MaxFrames)
      OBVIOUS
    <2>4. pump \in {"receive"} /\ chans = {} /\ consumer = "range" /\ owner = "run"
      OBVIOUS
    <2> QED BY <2>1, <2>2, <2>3, <2>4 DEF TypeOK
  <1>2. DoneComesLast
    BY DEF DoneComesLast
  <1>3. FramesInOrder
    BY DEF FramesInOrder, InHand
  <1> QED BY <1>1, <1>2, <1>3 DEF SessionInvariant

\* The frame in the pump's hands is newer than what the channel holds, so that the
\* channel stays in order when it is put there.
LEMMA DeliveredIsNewest ==
    ASSUME SessionInvariant, PumpDelivers
    PROVE  TypeOK' /\ FramesInOrder'
  <1> USE DEF SessionInvariant, TypeOK, PumpDelivers, Room
  <1>1. read \in 1..MaxFrames
    BY SessionAssumption DEF FramesInOrder
  <1>2. TypeOK'
    BY <1>1, SessionAssumption
  <1>3. /\ Len(frameCh') = Len(frameCh) + 1
        /\ frameCh'[Len(frameCh')] = read
        /\ \A k \in 1..Len(frameCh) : frameCh'[k] = frameCh[k] /\ frameCh[k] < read
    BY <1>1, SessionAssumption, SMTT(30) DEF FramesInOrder, InHand
  <1>4. \A k \in 1..Len(frameCh') : frameCh'[k] = read \/ k \in 1..Len(frameCh)
    BY <1>3
  <1>5. \A k \in 1..Len(frameCh') : frameCh'[k] <= read
    BY <1>1, <1>3, <1>4, SessionAssumption
  <1>6. ASSUME NEW j \in 1..Len(frameCh'), NEW k \in 1..Len(frameCh'), j < k
        PROVE  frameCh'[j] < frameCh'[k]
    <2>1. j \in 1..Len(frameCh)
      BY <1>3, <1>6
    <2>2. CASE k \in 1..Len(frameCh)
      BY <1>3, <1>6, <2>1, <2>2 DEF FramesInOrder
    <2>3. CASE k = Len(frameCh')
      BY <1>3, <2>1, <2>3
    <2> QED BY <1>3, <2>2, <2>3
  <1>7. taken # <<>> => /\ taken[Len(taken)] < read
                        /\ \A k \in 1..Len(frameCh') : taken[Len(taken)] < frameCh'[k]
    BY <1>1, <1>3, <1>4, SessionAssumption DEF FramesInOrder, InHand
  <1>8. pump' = "receive" /\ read' = read /\ taken' = taken
    OBVIOUS
  <1>9. InHand' = 0
    BY <1>8 DEF InHand
  <1>10. \A k \in 1..Len(frameCh') : frameCh'[k] + InHand' <= read'
    BY <1>1, <1>2, <1>5, <1>8, <1>9, SessionAssumption
  <1>11. taken' # <<>> => /\ taken'[Len(taken')] + InHand' <= read'
                          /\ \A k \in 1..Len(frameCh') : taken'[Len(taken')] < frameCh'[k]
    BY <1>1, <1>7, <1>8, <1>9, SessionAssumption
  <1>12. FramesInOrder'
    BY <1>6, <1>8, <1>10, <1>11 DEF FramesInOrder
  <1> QED BY <1>2, <1>12

\* What is taken is the oldest frame of the channel and older than all that stay.
LEMMA TakenIsOldest ==
    ASSUME SessionInvariant, ConsumerTakes
    PROVE  TypeOK' /\ FramesInOrder'
  <1> USE DEF SessionInvariant, TypeOK, ConsumerTakes
  <1>1. /\ Head(frameCh) = frameCh[1] /\ 1 \in 1..Len(frameCh)
        /\ Len(frameCh') = Len(frameCh) - 1
        /\ \A k \in 1..Len(frameCh') : frameCh'[k] = frameCh[k + 1] /\ k + 1 \in 1..Len(frameCh)
    OBVIOUS
  <1>2. Head(frameCh) \in 1..MaxFrames /\ frameCh' \in Seq(1..MaxFrames)
    <2>1. Head(frameCh) \in 1..MaxFrames
      <3>1. frameCh \in Seq(1..MaxFrames) /\ frameCh # <<>>
        OBVIOUS
      <3>2. \A S : \A q \in Seq(S) : q # <<>> => Head(q) \in S
        OBVIOUS
      <3> QED BY <3>1, <3>2
    <2>2. Tail(frameCh) \in Seq(1..MaxFrames)
      OBVIOUS
    <2> QED BY <2>1, <2>2
  <1>3. TypeOK'
    BY <1>1, <1>2, SessionAssumption
  <1>4. taken'[Len(taken')] = frameCh[1]
    BY <1>1, <1>2
  <1>5. FramesInOrder'
    BY <1>1, <1>2, <1>4 DEF FramesInOrder, InHand
  <1> QED BY <1>3, <1>5

\* No step of the server, the pump, the consumer or the owner breaks the invariant.
LEMMA SessionNextIsSound == SessionInvariant /\ [Next]_vars => SessionInvariant'
  <1> SUFFICES ASSUME SessionInvariant, [Next]_vars PROVE SessionInvariant'
    OBVIOUS
  <1> USE SessionAssumption DEF SessionInvariant, TypeOK, DoneComesLast, FramesInOrder, InHand
  <1>1. CASE PeerSends BY <1>1 DEF PeerSends
  <1>2. CASE LinkFails BY <1>2 DEF LinkFails
  <1>3. CASE PumpReceives BY <1>3 DEF PumpReceives, Received
  <1>4. CASE PumpFails BY <1>4 DEF PumpFails
  <1>5. CASE PumpDelivers
    <2>1. TypeOK' /\ FramesInOrder' BY <1>5, DeliveredIsNewest
    <2>2. DoneComesLast' BY <1>5 DEF PumpDelivers
    <2> QED BY <2>1, <2>2
  <1>6. CASE PumpStops BY <1>6 DEF PumpStops
  <1>7. CASE PumpDrops BY <1>7 DEF PumpDrops
  <1>8. CASE PumpClosesFrames BY <1>8 DEF PumpClosesFrames
  <1>9. CASE PumpClosesDone BY <1>9 DEF PumpClosesDone
  <1>10. CASE ConsumerTakes
    <2>1. TypeOK' /\ FramesInOrder' BY <1>10, TakenIsOldest
    <2>2. DoneComesLast' BY <1>10 DEF ConsumerTakes
    <2> QED BY <2>1, <2>2
  <1>11. CASE RangeEnds BY <1>11 DEF RangeEnds
  <1>12. CASE ConsumerLeaves BY <1>12 DEF ConsumerLeaves
  <1>13. CASE Close BY <1>13 DEF Close
  <1>14. CASE CloseConn BY <1>14 DEF CloseConn
  <1>15. CASE UNCHANGED vars BY <1>15 DEF vars
  <1> QED
    BY <1>1, <1>2, <1>3, <1>4, <1>5, <1>6, <1>7, <1>8, <1>9, <1>10, <1>11, <1>12,
       <1>13, <1>14, <1>15 DEF Next

\* Types, the order in which the channels are closed and the order of the frames
\* hold in every state of a session.
THEOREM SessionIsSound == Spec => []SessionInvariant
  BY NewSessionIsSound, SessionNextIsSound, PTL DEF Spec

\* conn.Close is not called under a pump that still receives.
THEOREM PumpIsOutlived == Spec => []ConnOutlivesPump
  <1>1. SessionInvariant => ConnOutlivesPump
    BY DEF SessionInvariant, DoneComesLast, ConnOutlivesPump
  <1> QED BY <1>1, SessionIsSound, PTL

-------------------------------------------------------------------------------
(* The session keeps its promise. *)

\* A new session has seen nothing, and the range over it goes on.
LEMMA InitRefines == NewSession => Promise!Init
  BY DEF NewSession, Promise!Init

\* The frame a consumer takes is newer than all it has taken and was sent: the step
\* is one of SessionPromise.
LEMMA TakingIsPromised ==
    ASSUME SessionInvariant, ConsumerTakes
    PROVE  Promise!SeesFrame
  <1> USE DEF SessionInvariant, TypeOK, ConsumerTakes
  <1>1. Head(frameCh) = frameCh[1] /\ 1 \in 1..Len(frameCh)
    OBVIOUS
  <1>2. Head(frameCh) \in 1..sent
    BY <1>1, SessionAssumption, SMTT(30) DEF FramesInOrder, InHand
  <1>3. taken # <<>> => taken[Len(taken)] + 1 \in 1..Head(frameCh)
    BY <1>1, SessionAssumption DEF FramesInOrder
  <1>4. Head(frameCh) \in (IF taken = <<>> THEN 1 ELSE Promise!Last(taken) + 1)..sent
    BY <1>2, <1>3 DEF Promise!Last
  <1> QED BY <1>4 DEF Promise!SeesFrame

\* Every other step of a session is one of SessionPromise or none.
LEMMA StepRefines ==
    SessionInvariant /\ [Next]_vars => [Promise!Next]_(Promise!vars)
  <1> SUFFICES ASSUME SessionInvariant, [Next]_vars
               PROVE  [Promise!Next]_(Promise!vars)
    OBVIOUS
  <1> USE DEF Promise!Next, Promise!vars
  <1>1. CASE PeerSends BY <1>1 DEF PeerSends, Promise!PeerSends
  <1>2. CASE ConsumerTakes BY <1>2, TakingIsPromised
  <1>3. CASE RangeEnds BY <1>3 DEF RangeEnds, Promise!RangeEnds
  <1>4. CASE ConsumerLeaves BY <1>4 DEF ConsumerLeaves
  <1>5. CASE PumpReceives \/ PumpFails \/ PumpDelivers \/ PumpStops \/ PumpDrops
    BY <1>5 DEF PumpReceives, PumpFails, PumpDelivers, PumpStops, PumpDrops
  <1>6. CASE LinkFails \/ PumpClosesFrames \/ PumpClosesDone \/ Close \/ CloseConn
    BY <1>6 DEF LinkFails, PumpClosesFrames, PumpClosesDone, Close, CloseConn
  <1>7. CASE UNCHANGED vars BY <1>7 DEF vars
  <1> QED BY <1>1, <1>2, <1>3, <1>4, <1>5, <1>6, <1>7 DEF Next

\* A session gives the code that ranges over FrameCh what SessionPromise allows:
\* frames that were sent, in their order, none twice, none after the end.
THEOREM SessionKeepsPromise == Spec => KeepsPromise
  <1>1. Spec => Promise!Init /\ [][Promise!Next]_(Promise!vars)
    BY InitRefines, StepRefines, SessionIsSound, PTL DEF Spec
  <1> QED BY <1>1 DEF KeepsPromise, Promise!Spec

-------------------------------------------------------------------------------
(* The file transfer: its inductive invariant. *)

\* The place of a frame in what one attempt of the sender says.
Position(f) ==
    CASE f.type = "FileMeta" -> 0
      [] f.type \in {"FileData", "FileEnd"} -> f.n + 1
      [] OTHER -> total + 2

Before(f, g) == f.attempt = g.attempt => Position(f) < Position(g)

\* What the sender says and its handlers pass on comes attempt by attempt in order.
FramesAreOrdered ==
    /\ \A i, j \in 1..Len(log) : i < j => Before(log[i], log[j])
    /\ \A i, j \in 1..Len(old) : i < j => Before(old[i], old[j])
    /\ \A i \in 1..Len(log), j \in 1..Len(old) : Before(log[i], old[j])
    /\ \A i \in 1..Len(log) : \/ log[i].attempt < attempt
                              \/ log[i].attempt = attempt /\ Position(log[i]) < next
    /\ \A j \in 1..Len(old) : old[j].attempt < attempt

\* A frame of the file: only an attempt whose reads failed ends it early.
OfFile(f) ==
    /\ f.type = "FileMeta" => f.n = 0
    /\ f.type = "FileData" => f.n < total
    /\ f.type = "FileEnd" => f.n <= total /\ (f.n = total \/ f.attempt \in truncated)

FramesAreOfFile ==
    /\ \A i \in 1..Len(log) : OfFile(log[i])
    /\ \A i \in 1..Len(old) : OfFile(old[i])

\* The frames taken are in order, and so there are no more of them than were sent.
TakenInOrder ==
    /\ \A k \in 1..Len(taken) : k <= taken[k] /\ taken[k] <= read
    /\ \A j, k \in 1..Len(taken) : j < k => taken[j] < taken[k]

\* Nothing was dropped.
Complete ==
    /\ read = InHand + Len(frameCh) + Len(taken)
    /\ \A k \in 1..Len(taken) : taken[k] = k
    /\ \A k \in 1..Len(frameCh) : frameCh[k] = Len(taken) + k

RangeIsSound ==
    /\ result = "closed" => consumer = "over"
    /\ consumer = "over" => result \in {"closed", "failed"}
    /\ consumer = "over" => frameCh = <<>> /\ "frameCh" \in chans
    /\ "closeCh" \in chans => consumer # "range"
    /\ late \/ Complete \/ ("closeCh" \in chans /\ consumer # "over")
    /\ result \in {"none", "closed"} =>
           \A k \in 1..Len(taken) : taken[k] > regOK => log[taken[k]].type # "FileEnd"

\* The chunks in the file are the attempt's, in order, and counted.
ContentIsOf(a) ==
    From(a) =>
        LET c == state.content IN
        /\ state.receivedChunks = Len(c)
        /\ ~state.file => c = <<>>
        /\ c # <<>> => /\ taken # <<>> /\ taken[Len(taken)] > regOK
                       /\ c[Len(c)][2] < Position(log[taken[Len(taken)]])
        /\ \A k \in 1..Len(c) : c[k][1] = a /\ c[k][2] < total
        /\ \A j, k \in 1..Len(c) : j <= k => k - j <= c[k][2] - c[j][2]
        /\ result = "received" /\ a \notin truncated => Len(c) = total

ContentIsSound ==
    /\ state.receivedChunks <= Len(taken)
    /\ Handled = {} => state = NoFile
    /\ \A a \in 1..MaxAttempts : ContentIsOf(a)

\* There is one RegOK, in the log only, and RunFileReceiver starts when it is taken.
AnswerIsSound ==
    /\ \A i \in 1..Len(log) : log[i].type = "RegOK" <=> i = regOK
    /\ \A j \in 1..Len(old) : old[j].type # "RegOK"
    /\ (regOK > 0 \/ paired) => registered
    /\ regOK = 0 => state = NoFile /\ result \in {"register", "failed"}
    /\ result = "register" => state = NoFile /\ \A k \in 1..Len(taken) : taken[k] # regOK
    /\ result \notin {"register", "failed"} => \E k \in 1..Len(taken) : taken[k] = regOK

\* After its RegOK the receiver is sent the first attempt from the first frame on.
Straight ==
    /\ regOK > 0 /\ Len(log) > regOK
    /\ log[regOK + 1].type = "FileMeta" /\ log[regOK + 1].attempt = 1
FromFirst(m) == \A j \in (regOK + 1)..m : log[j].attempt = 1

\* The relay skips nothing of it until the attempt ends.
NothingIsSkipped ==
    /\ attempt = 1 => old = <<>> /\ (registered => paired)
    /\ Straight => \A i \in (regOK + 1)..Len(log) :
           FromFirst(i) /\ log[i].type # "PeerLeave" => Position(log[i]) = i - 1 - regOK
    /\ Straight /\ attempt = 1 /\ next <= total + 1 => next = Len(log) - regOK
    /\ Straight /\ FromFirst(Len(log)) /\ old # <<>> /\ old[1].attempt = 1
           /\ old[1].type # "PeerLeave" => Position(old[1]) = Len(log) - regOK
    /\ \A j \in 2..Len(old) : old[j].attempt = 1 => old[j].type = "PeerLeave"

\* The receiver has counted every chunk of it.
NothingIsUncounted ==
    /\ Straight /\ From(1) /\ result = "none" /\ (\A k \in 1..Len(taken) : taken[k] = k) =>
           \/ Len(taken) = regOK
           \/ log[Len(taken)].type = "PeerLeave"
           \/ state.file /\ state.receivedChunks = Len(taken) - 1 - regOK
    /\ WarningNeedsACause /\ (result = "warning" => regOK < Len(log))

FileIsSound ==
    /\ FileTypeOK /\ SessionInvariant
    /\ FramesAreOrdered /\ FramesAreOfFile /\ TakenInOrder /\ RangeIsSound
    /\ ContentIsSound /\ AnswerIsSound /\ NothingIsSkipped /\ NothingIsUncounted

-------------------------------------------------------------------------------
(* The session under the receiver. *)

\* A step of the transfer is one of the session or leaves it as it is.
LEMMA FileStepIsSessionStep == [FileNext]_allVars => [Next]_vars
  <1> SUFFICES ASSUME FileNext PROVE [Next]_vars
    BY DEF allVars, vars
  <1>1. CASE Pair \/ Finish \/ Break
    BY <1>1 DEF Pair, Finish, Break
  <1>2. CASE AnswerReceiver \/ Send \/ ReadFails \/ OldHandler
    BY <1>2 DEF AnswerReceiver, Send, ReadFails, OldHandler, Relay, Next
  <1>3. CASE Receiver
    BY <1>3 DEF Receiver, Waiting, Discard, TakeRegOK, RegistrationTimesOut, Handling, HandleMeta,
                HandleData, HandleEnd, Ignore, HandleFails, RangeOver, ReceiverReturns, Next
  <1>4. CASE ReceiverCloses \/ SessionStep
    BY <1>4 DEF ReceiverCloses, SessionStep, Next
  <1> QED BY <1>1, <1>2, <1>3, <1>4 DEF FileNext

LEMMA FileInitIsSession == FileInit => NewSession
  BY DEF FileInit

\* The session is sound, and keeps its promise, whatever the receiver does with its
\* frames: RunFileReceiver sees frames that were sent, in their order, none twice.
THEOREM FileSessionIsSound == FileSpec => []SessionInvariant
  BY FileInitIsSession, NewSessionIsSound, FileStepIsSessionStep, SessionNextIsSound, PTL
     DEF FileSpec

THEOREM FileKeepsPromise == FileSpec => KeepsPromise
  <1>1. FileSpec => Promise!Init /\ [][Promise!Next]_(Promise!vars)
    BY FileInitIsSession, InitRefines, FileStepIsSessionStep, StepRefines,
       FileSessionIsSound, PTL DEF FileSpec
  <1> QED BY <1>1 DEF KeepsPromise, Promise!Spec

-------------------------------------------------------------------------------
(* Types. *)

LEMMA AppendIs ==
    ASSUME NEW S, NEW s \in Seq(S), NEW e \in S
    PROVE  /\ Append(s, e) \in Seq(S) /\ Len(Append(s, e)) = Len(s) + 1
           /\ \A i \in 1..Len(s) : Append(s, e)[i] = s[i]
           /\ Append(s, e)[Len(s) + 1] = e
  OBVIOUS

LEMMA ConcatIs ==
    ASSUME NEW S, NEW s \in Seq(S), NEW e \in S
    PROVE  s \o <<>> = s /\ s \o <<e>> = Append(s, e)
  OBVIOUS

LEMMA TwoIs ==
    ASSUME NEW S, NEW d \in S, NEW e \in S
    PROVE  (<<>> \o <<d>> \o <<e>>)[1] = d
  <1>1. <<>> \in Seq(S) /\ <<>> \o <<d>> = Append(<<>>, d)
    BY ConcatIs
  <1>2. Append(<<>>, d) \in Seq(S) /\ Len(Append(<<>>, d)) = 1 /\ Append(<<>>, d)[1] = d
    OBVIOUS
  <1>3. Append(<<>>, d) \o <<e>> = Append(Append(<<>>, d), e)
    BY <1>2, ConcatIs
  <1> QED BY <1>1, <1>2, <1>3, AppendIs

LEMMA TailIs ==
    ASSUME NEW S, NEW s \in Seq(S), s # <<>>
    PROVE  /\ Head(s) = s[1] /\ Head(s) \in S
           /\ Tail(s) \in Seq(S) /\ Len(Tail(s)) = Len(s) - 1
           /\ \A i \in 1..Len(Tail(s)) : Tail(s)[i] = s[i + 1]
  OBVIOUS

LEMMA TotalIsNat == FileTypeOK => total \in Nat
  BY FileAssumption DEF FileTypeOK

LEMMA FrameFields ==
    ASSUME total \in Nat, NEW f \in FileFrames
    PROVE  /\ f.type \in {"RegOK", "FileMeta", "FileData", "FileEnd", "PeerLeave"}
           /\ f.attempt \in 0..MaxAttempts /\ f.attempt \in Nat
           /\ f.n \in Nat /\ Position(f) \in Nat
           /\ f.type = "RegOK" <=> f.attempt = 0
           /\ Position(f) <= total + 2
  <1>1. CASE f = RegOK
    BY <1>1, FileAssumption DEF RegOK, Position
  <1>2. CASE f \in [type : {"FileMeta", "FileData", "FileEnd", "PeerLeave"},
                    attempt : 1..MaxAttempts, n : 0..total]
    BY <1>2, FileAssumption DEF Position
  <1> QED BY <1>1, <1>2 DEF FileFrames

\* The answer to the receiver is no frame of the sender.
LEMMA RegOKIsFrame ==
    ASSUME total \in Nat
    PROVE  RegOK \in FileFrames /\ RegOK.type = "RegOK" /\ RegOK.attempt = 0 /\ OfFile(RegOK)
  BY DEF FileFrames, RegOK, OfFile

\* What the sender says next.
LEMMA PieceIsFrame ==
    ASSUME FileTypeOK, attempt <= MaxAttempts, next \in 0..(total + 1)
    PROVE  /\ Piece \in FileFrames /\ Piece.attempt = attempt
           /\ Position(Piece) = next /\ OfFile(Piece)
           /\ Piece.type # "PeerLeave" /\ Piece.type # "RegOK"
           /\ Piece.type = "FileMeta" => next = 0
  <1>1. total \in Nat /\ attempt \in 1..MaxAttempts
    BY TotalIsNat, FileAssumption DEF FileTypeOK
  <1>2. CASE next = 0
    BY <1>1, <1>2 DEF Piece, FileFrame, FileFrames, Position, OfFile
  <1>3. CASE next \in 1..total
    BY <1>1, <1>3 DEF Piece, FileFrame, FileFrames, Position, OfFile
  <1>4. CASE next = total + 1
    BY <1>1, <1>4 DEF Piece, FileFrame, FileFrames, Position, OfFile
  <1> QED BY <1>1, <1>2, <1>3, <1>4

\* The end that is sent for a read that fails, and the farewell of a handler.
LEMMA EndIsFrame ==
    ASSUME FileTypeOK, attempt <= MaxAttempts, next \in 1..total
    PROVE  LET f == FileFrame("FileEnd", next - 1) IN
           f \in FileFrames /\ f.attempt = attempt /\ Position(f) = next /\ f.type = "FileEnd"
              /\ f.n = next - 1
  <1>1. total \in Nat /\ attempt \in 1..MaxAttempts
    BY TotalIsNat, FileAssumption DEF FileTypeOK
  <1> QED BY <1>1 DEF FileFrame, FileFrames, Position

LEMMA LeaveIsFrame ==
    ASSUME FileTypeOK, attempt <= MaxAttempts
    PROVE  LET f == FileFrame("PeerLeave", 0) IN
           f \in FileFrames /\ f.attempt = attempt /\ Position(f) = total + 2
              /\ f.type = "PeerLeave" /\ OfFile(f)
  <1>1. total \in Nat /\ attempt \in 1..MaxAttempts
    BY TotalIsNat, FileAssumption DEF FileTypeOK
  <1> QED BY <1>1 DEF FileFrame, FileFrames, Position, OfFile

\* The log only grows, by at most one frame, and with the count of frames sent.
LEMMA RelayAppends ==
    ASSUME FileTypeOK, NEW f \in FileFrames, Relay(f)
    PROVE  /\ log' \in Seq(FileFrames) /\ Len(log') = sent'
           /\ \A i \in 1..Len(log) : log'[i] = log[i]
           /\ \/ ~paired /\ log' = log
              \/ /\ paired /\ log' = Append(log, f) /\ Len(log') = Len(log) + 1
                 /\ log'[Len(log')] = f
           /\ UNCHANGED <<linkUp, read, pump, frameCh, chans, connClosed, taken, consumer, owner>>
  <1>1. CASE paired /\ PeerSends /\ log' = Append(log, f)
    <2>1. log \in Seq(FileFrames) /\ Len(log) = sent
      BY DEF FileTypeOK
    <2>2. sent' = sent + 1
      BY <1>1 DEF PeerSends
    <2> QED BY <1>1, <2>1, <2>2, AppendIs DEF PeerSends
  <1>2. CASE ~paired /\ UNCHANGED <<vars, log>>
    BY <1>2 DEF FileTypeOK, vars
  <1> QED BY <1>1, <1>2 DEF Relay

\* What the receiver takes: the oldest frame of the channel, newer than all it has taken.
LEMMA HandlingTakes ==
    ASSUME FileTypeOK, SessionInvariant, TakenInOrder, Handling \/ Waiting
    PROVE  /\ Head(frameCh) = frameCh[1] /\ frameCh # <<>> /\ frameCh' = Tail(frameCh)
           /\ Head(frameCh) \in 1..Len(log) /\ Head(frameCh) <= read
           /\ log[Head(frameCh)] \in FileFrames
           /\ Len(taken') = Len(taken) + 1 /\ taken'[Len(taken) + 1] = Head(frameCh)
           /\ \A k \in 1..Len(taken) : /\ taken'[k] = taken[k] /\ taken[k] < Head(frameCh)
                                      /\ taken[k] \in 1..Len(log)
           /\ Len(taken) < Head(frameCh)
           /\ consumer = "range" /\ InHand' = InHand
           /\ Handling => result = "none"
           /\ Waiting => result = "register" /\ state' = state
           /\ UNCHANGED <<sent, linkUp, read, pump, chans, connClosed, consumer, owner>>
           /\ UNCHANGED <<total, attempt, next, truncated, old, paired, registered, regOK, log>>
  <1>0. ConsumerTakes
    BY DEF Handling, Waiting
  <1>1. /\ frameCh \in Seq(1..MaxFrames) /\ taken \in Seq(1..MaxFrames) /\ frameCh # <<>>
        /\ log \in Seq(FileFrames) /\ Len(log) = sent /\ read \in 0..sent /\ sent \in Nat
    BY <1>0, SessionAssumption DEF FileTypeOK, TypeOK, ConsumerTakes
  <1>2. Head(frameCh) = frameCh[1] /\ Head(frameCh) \in 1..MaxFrames /\ 1 \in 1..Len(frameCh)
    <2>1. 1 \in 1..Len(frameCh) /\ Head(frameCh) = frameCh[1]
      BY <1>1, SessionAssumption
    <2>2. frameCh[1] \in 1..MaxFrames
      BY <1>1, <2>1, SessionAssumption
    <2> QED BY <2>1, <2>2
  <1>3. Head(frameCh) <= read
    BY <1>1, <1>2, SessionAssumption DEF SessionInvariant, FramesInOrder, InHand
  <1>4. Head(frameCh) \in 1..Len(log) /\ log[Head(frameCh)] \in FileFrames
    BY <1>1, <1>2, <1>3, SessionAssumption
  <1>5. taken' = Append(taken, Head(frameCh))
    BY <1>0 DEF ConsumerTakes
  <1>6. /\ Len(taken') = Len(taken) + 1 /\ taken'[Len(taken) + 1] = Head(frameCh)
        /\ \A k \in 1..Len(taken) : taken'[k] = taken[k]
    BY <1>1, <1>2, <1>5, AppendIs
  <1>7. taken # <<>> => taken[Len(taken)] < Head(frameCh) /\ Len(taken) \in 1..Len(taken)
    BY <1>1, <1>2 DEF SessionInvariant, FramesInOrder
  <1>8. \A k \in 1..Len(taken) : taken[k] < Head(frameCh) /\ taken[k] \in 1..Len(log)
    <2> SUFFICES ASSUME NEW k \in 1..Len(taken)
                 PROVE  taken[k] < Head(frameCh) /\ taken[k] \in 1..Len(log)
      OBVIOUS
    <2>1. /\ taken[k] \in 1..MaxFrames /\ taken[Len(taken)] \in 1..MaxFrames
          /\ taken[k] <= taken[Len(taken)] /\ taken[k] <= read /\ taken # <<>>
      <3>1. k \in 1..Len(taken) /\ Len(taken) \in 1..Len(taken) /\ taken # <<>>
        BY <1>1
      <3>2. taken[k] \in 1..MaxFrames /\ taken[Len(taken)] \in 1..MaxFrames
        BY <1>1, <3>1, SessionAssumption
      <3>3. k < Len(taken) => taken[k] < taken[Len(taken)]
        BY <3>1 DEF TakenInOrder
      <3>4. k < Len(taken) \/ k = Len(taken)
        BY <1>1
      <3>5. taken[k] <= taken[Len(taken)]
        BY <3>2, <3>3, <3>4, SessionAssumption
      <3> QED BY <3>1, <3>2, <3>5 DEF TakenInOrder
    <2> QED BY <1>1, <1>2, <1>7, <2>1, SessionAssumption, SMTT(30)
  <1>9. Len(taken) < Head(frameCh)
    <2>1. CASE taken = <<>>
      <3>1. Len(taken) = 0 /\ Head(frameCh) \in Nat /\ Head(frameCh) # 0
        BY <1>2, <2>1, SessionAssumption
      <3> QED BY <3>1
    <2>2. CASE taken # <<>>
      <3>1. Len(taken) \in 1..Len(taken)
        BY <1>1, <2>2
      <3>2. Len(taken) <= taken[Len(taken)] /\ taken[Len(taken)] \in 1..MaxFrames
        BY <1>1, <3>1, SessionAssumption DEF TakenInOrder
      <3> QED BY <1>1, <1>2, <1>7, <2>2, <3>1, <3>2, SessionAssumption
    <2> QED BY <2>1, <2>2
  <1>10. UNCHANGED <<sent, linkUp, read, pump, chans, connClosed, consumer, owner>>
    BY <1>0 DEF ConsumerTakes
  <1>11. /\ UNCHANGED <<total, attempt, next, truncated, old, paired, registered, regOK, log>>
         /\ Handling => result = "none"
         /\ Waiting => result = "register" /\ state' = state
    BY DEF Handling, Waiting, senderVars, serverVars
  <1>12. consumer = "range" /\ frameCh' = Tail(frameCh)
    BY <1>0 DEF ConsumerTakes
  <1>13. InHand' = InHand
    BY <1>10 DEF InHand
  <1> QED BY <1>1, <1>2, <1>3, <1>4, <1>6, <1>8, <1>9, <1>10, <1>11, <1>12, <1>13

\* The kinds of steps: of the sender and the server; of the receiver, which takes a
\* frame, or gives up; of the pump and the owner.
Sends == Pair \/ AnswerReceiver \/ Send \/ ReadFails \/ Finish \/ Break \/ OldHandler
Handles == HandleMeta \/ HandleData \/ HandleEnd \/ Ignore \/ HandleFails
Waits == Discard \/ TakeRegOK
GivesUp == RangeOver \/ RegistrationTimesOut
PumpOrOwner == SessionStep \/ ReceiverCloses \/ ReceiverReturns

LEMMA FileSteps == FileNext => Sends \/ Handles \/ Waits \/ GivesUp \/ PumpOrOwner
  BY DEF FileNext, Receiver, Sends, Handles, Waits, GivesUp, PumpOrOwner

LEMMA HandlesAre == Handles => Handling
  BY DEF Handles, HandleMeta, HandleData, HandleEnd, Ignore, HandleFails

\* waitForFrame takes a frame and goes on, or ends with the RegOK.
LEMMA WaitsAre ==
    Waits => /\ Waiting
             /\ \/ result' = result /\ log[Head(frameCh)].type # "RegOK"
                \/ result' = "none" /\ log[Head(frameCh)].type = "RegOK"
  BY DEF Waits, Discard, TakeRegOK, NextIs

\* The steps of the sender and the server leave what the receiver has.
LEMMA SendersLeave ==
    ASSUME Sends
    PROVE  /\ UNCHANGED <<linkUp, read, pump, frameCh, chans, connClosed, taken, consumer, owner>>
           /\ UNCHANGED <<total, state, result>>
  <1>1. CASE Pair
    BY <1>1 DEF Pair, vars, senderVars
  <1>2. CASE AnswerReceiver \/ Send \/ ReadFails \/ OldHandler
    BY <1>2 DEF AnswerReceiver, Send, ReadFails, OldHandler, Relay, vars, PeerSends, senderVars
  <1>3. CASE Finish \/ Break
    BY <1>3 DEF Finish, Break, vars
  <1> QED BY <1>1, <1>2, <1>3 DEF Sends

\* Nor do they answer the receiver twice.
LEMMA SendersAnswerOnce ==
    ASSUME Sends
    PROVE  /\ regOK # 0 => regOK' = regOK
           /\ ~AnswerReceiver => regOK' = regOK
           /\ registered' = registered \/ registered' = TRUE
  BY DEF Sends, Pair, AnswerReceiver, Send, ReadFails, Finish, Break, OldHandler

\* The pump, the owner and the ends of the range leave the file and what is taken of it.
LEMMA PumpLeaves ==
    ASSUME PumpOrOwner
    PROVE  UNCHANGED <<total, attempt, next, truncated, old, paired, registered, regOK, log,
                       state, taken, sent, result>>
  <1>1. CASE SessionStep
    BY <1>1 DEF SessionStep, LinkFails, PumpReceives, PumpFails, PumpDelivers, PumpStops, PumpDrops,
       PumpClosesFrames, PumpClosesDone, CloseConn, fileVars, senderVars, serverVars
  <1>2. CASE ReceiverCloses \/ ReceiverReturns
    BY <1>2 DEF ReceiverCloses, Close, ReceiverReturns, ConsumerLeaves, fileVars, senderVars, serverVars
  <1> QED BY <1>1, <1>2 DEF PumpOrOwner

LEMMA GivesUpLeaves ==
    ASSUME GivesUp
    PROVE  /\ UNCHANGED <<total, attempt, next, truncated, old, paired, registered, regOK, log,
                          state, taken, sent>>
           /\ UNCHANGED <<read, pump, frameCh, chans>>
           /\ \/ /\ result = "none" /\ result' = "closed" /\ consumer = "range" /\ consumer' = "over"
                 /\ frameCh = <<>> /\ "frameCh" \in chans
              \/ /\ result = "register" /\ result' = "failed" /\ consumer = "range" /\ consumer' = "over"
                 /\ frameCh = <<>> /\ "frameCh" \in chans
              \/ result = "register" /\ result' = "failed" /\ consumer' = consumer
  <1>1. CASE RangeOver
    BY <1>1 DEF RangeOver, RangeEnds, senderVars, serverVars
  <1>2. CASE RegistrationTimesOut
    BY <1>2 DEF RegistrationTimesOut, vars, senderVars, serverVars
  <1> QED BY <1>1, <1>2 DEF GivesUp

-------------------------------------------------------------------------------
(* One step keeps each part of the invariant. *)

LEMMA TakenStep ==
    ASSUME FileIsSound, FileNext
    PROVE  TakenInOrder'
  <1> USE DEF FileIsSound
  <1>0. taken \in Seq(1..MaxFrames) /\ read \in Nat
    BY SessionAssumption DEF FileTypeOK, TypeOK
  <1>1. CASE Handles \/ Waits
    <2>1. Handling \/ Waiting
      BY <1>1, HandlesAre, WaitsAre
    <2> DEFINE h == Head(frameCh)
    <2>2. /\ Len(taken') = Len(taken) + 1 /\ taken'[Len(taken) + 1] = h
          /\ \A k \in 1..Len(taken) : taken'[k] = taken[k] /\ taken[k] < h
          /\ Len(taken) < h /\ h <= read /\ h \in Nat /\ read' = read
      BY <1>0, <2>1, HandlingTakes
    <2> HIDE DEF h
    <2>3. ASSUME NEW k \in 1..Len(taken')
          PROVE  k <= taken'[k] /\ taken'[k] <= read'
      BY <1>0, <2>2 DEF TakenInOrder
    <2>4. ASSUME NEW j \in 1..Len(taken'), NEW k \in 1..Len(taken'), j < k
          PROVE  taken'[j] < taken'[k]
      <3>1. j \in 1..Len(taken)
        BY <1>0, <2>2, <2>4
      <3>2. k \in 1..Len(taken) \/ k = Len(taken) + 1
        BY <1>0, <2>2
      <3> QED BY <2>2, <2>4, <3>1, <3>2 DEF TakenInOrder
    <2> QED BY <2>3, <2>4 DEF TakenInOrder
  <1>2. CASE Sends
    BY <1>2, SendersLeave DEF TakenInOrder
  <1>3. CASE GivesUp
    BY <1>3, GivesUpLeaves DEF TakenInOrder
  <1>4. CASE PumpOrOwner
    <2>1. taken' = taken
      BY <1>4, PumpLeaves
    <2>2. read' = read \/ read' = read + 1
      BY <1>4 DEF PumpOrOwner, SessionStep, LinkFails, PumpReceives, Received, PumpFails, PumpDelivers,
         PumpStops, PumpDrops, PumpClosesFrames, PumpClosesDone, CloseConn, ReceiverCloses, Close,
         ReceiverReturns, ConsumerLeaves
    <2>3. \A k \in 1..Len(taken) : taken[k] \in Nat
      BY <1>0, SessionAssumption
    <2> QED BY <1>0, <2>1, <2>2, <2>3 DEF TakenInOrder
  <1> QED BY <1>1, <1>2, <1>3, <1>4, FileSteps

\* What is taken was sent, so that the count of chunks is bounded.
LEMMA TakenIsBounded ==
    TypeOK /\ TakenInOrder => Len(taken) <= MaxFrames
  <1> SUFFICES ASSUME TypeOK, TakenInOrder PROVE Len(taken) <= MaxFrames
    OBVIOUS
  <1>1. taken \in Seq(1..MaxFrames)
    BY DEF TypeOK
  <1>2. CASE taken = <<>>
    <2>1. Len(taken) = 0
      BY <1>2
    <2> QED BY <2>1, SessionAssumption
  <1>3. CASE taken # <<>>
    <2>1. Len(taken) \in 1..Len(taken)
      BY <1>1, <1>3
    <2>2. taken[Len(taken)] \in 1..MaxFrames /\ Len(taken) <= taken[Len(taken)]
      BY <1>1, <2>1, SessionAssumption DEF TakenInOrder
    <2> QED BY <2>1, <2>2, SessionAssumption
  <1> QED BY <1>2, <1>3

\* What each frame does to the file, told by the frame.
LEMMA HandlesDo ==
    ASSUME FileTypeOK, Handles
    PROVE  LET f == log[Head(frameCh)] c == state.content IN
           /\ Handling
           /\ \/ /\ f.type = "FileMeta" /\ result' = result
                 /\ state'.file /\ state'.content = <<>>
                 /\ state'.receivedChunks = state.receivedChunks
              \/ /\ f.type = "FileData" /\ result' = result /\ state.file
                 /\ state'.file = state.file /\ state'.content = Append(c, <<f.attempt, f.n>>)
                 /\ state'.receivedChunks = state.receivedChunks + 1
              \/ /\ f.type = "FileData" /\ result' = result /\ ~state.file /\ state' = state
              \/ /\ f.type = "FileEnd" /\ state' = state
                 /\ \/ result' = "received" /\ state.receivedChunks = f.n
                    \/ result' = "warning" /\ state.receivedChunks # f.n
              \/ f.type = "PeerLeave" /\ UNCHANGED <<state, result>>
              \/ result' = "failed" /\ state' = state /\ f.type # "FileEnd"
  <1>1. state \in [file : BOOLEAN, content : Seq((1..MaxAttempts) \X Nat), receivedChunks : 0..MaxFrames]
    BY DEF FileTypeOK
  <1>2. CASE HandleMeta
    BY <1>1, <1>2 DEF HandleMeta, NextIs
  <1>3. CASE HandleData
    BY <1>1, <1>3 DEF HandleData, NextIs
  <1>4. CASE HandleEnd
    BY <1>4 DEF HandleEnd, NextIs
  <1>5. CASE Ignore
    BY <1>5 DEF Ignore, NextIs
  <1>6. CASE HandleFails
    BY <1>6 DEF HandleFails, NextIs
  <1> QED BY <1>2, <1>3, <1>4, <1>5, <1>6 DEF Handles

\* Every frame taken is counted at most once.
LEMMA CountStep ==
    ASSUME FileIsSound, FileNext
    PROVE  /\ state' \in [file : BOOLEAN, content : Seq((1..MaxAttempts) \X Nat),
                          receivedChunks : 0..MaxFrames]
           /\ state'.receivedChunks <= Len(taken')
           /\ result' \in {"register", "none", "received", "warning", "failed", "closed"}
  <1> USE DEF FileIsSound
  <1>1. /\ state \in [file : BOOLEAN, content : Seq((1..MaxAttempts) \X Nat),
                      receivedChunks : 0..MaxFrames]
        /\ state.receivedChunks <= Len(taken) /\ state.receivedChunks \in Nat
        /\ result \in {"register", "none", "received", "warning", "failed", "closed"}
    BY SessionAssumption DEF FileTypeOK, ContentIsSound
  <1>2. CASE Handles
    <2>1. Handling
      BY <1>2, HandlesAre
    <2>2. Len(taken') = Len(taken) + 1 /\ log[Head(frameCh)] \in FileFrames /\ Len(taken) \in Nat
      BY <2>1, HandlingTakes DEF FileTypeOK, TypeOK
    <2>3. Len(taken') <= MaxFrames
      <3>1. TypeOK'
        BY FileStepIsSessionStep, SessionNextIsSound DEF SessionInvariant
      <3>2. (TypeOK /\ TakenInOrder => Len(taken) <= MaxFrames)'
        BY TakenIsBounded, PTL
      <3> QED BY <3>1, <3>2, TakenStep
    <2>4. log[Head(frameCh)].type = "FileData" =>
              <<log[Head(frameCh)].attempt, log[Head(frameCh)].n>> \in (1..MaxAttempts) \X Nat
      BY <2>2, FrameFields, TotalIsNat, FileAssumption
    <2>5. CASE HandleData /\ state.file
      <3> DEFINE more == Append(state.content, <<log[Head(frameCh)].attempt, log[Head(frameCh)].n>>)
      <3>1. state' = [file |-> state.file, content |-> more,
                      receivedChunks |-> state.receivedChunks + 1]
        BY <1>1, <2>5 DEF HandleData
      <3>2. more \in Seq((1..MaxAttempts) \X Nat)
        BY <1>1, <2>4, <2>5, AppendIs DEF HandleData, NextIs
      <3> HIDE DEF more
      <3>3. state.receivedChunks + 1 <= Len(taken') /\ state.receivedChunks + 1 \in 0..MaxFrames
        BY <1>1, <2>2, <2>3, SessionAssumption
      <3>4. result' = result
        BY <2>5 DEF HandleData
      <3> QED BY <1>1, <3>1, <3>2, <3>3, <3>4
    <2>6. CASE HandleMeta
      <3>1. <<>> \in Seq((1..MaxAttempts) \X Nat)
        OBVIOUS
      <3>2. /\ state' = [file |-> TRUE, content |-> <<>>, receivedChunks |-> state.receivedChunks]
            /\ result' = result
        BY <1>1, <2>6 DEF HandleMeta
      <3> QED BY <1>1, <2>2, <3>1, <3>2
    <2>7. CASE HandleEnd \/ Ignore \/ HandleFails \/ (HandleData /\ ~state.file)
      <3>1. state' = state
        BY <2>7 DEF HandleEnd, Ignore, HandleFails, HandleData
      <3>2. result' \in {result, "received", "warning", "failed"}
        BY <2>7 DEF HandleEnd, Ignore, HandleFails, HandleData
      <3> QED BY <1>1, <2>2, <3>1, <3>2
    <2> QED BY <1>2, <2>5, <2>6, <2>7 DEF Handles
  <1>3. CASE Sends
    BY <1>1, <1>3, SendersLeave
  <1>4. CASE GivesUp
    BY <1>1, <1>4, GivesUpLeaves
  <1>5. CASE PumpOrOwner
    BY <1>1, <1>5, PumpLeaves
  <1>6. CASE Waits
    <2>1. /\ state' = state /\ result' \in {"register", "none"}
          /\ Len(taken') = Len(taken) + 1 /\ Len(taken) \in Nat
      BY <1>6, WaitsAre, HandlingTakes, SMTT(30) DEF FileTypeOK, TypeOK
    <2> QED BY <1>1, <2>1
  <1> QED BY <1>2, <1>3, <1>4, <1>5, <1>6, FileSteps

\* What the sender and the handlers of its former connections do.
LEMMA SendersDo ==
    ASSUME FileTypeOK, FramesAreOfFile, Sends
    PROVE  /\ total' = total /\ truncated \subseteq truncated' /\ truncated' \subseteq 1..MaxAttempts
           /\ attempt' \in 1..(MaxAttempts + 1) /\ next' \in 0..(total + 2) /\ paired' \in BOOLEAN
           /\ log' \in Seq(FileFrames) /\ old' \in Seq(FileFrames) /\ Len(log') = sent'
           /\ Len(log) <= Len(log') /\ \A i \in 1..Len(log) : log'[i] = log[i]
  <1>0. /\ total \in Nat /\ log \in Seq(FileFrames) /\ old \in Seq(FileFrames) /\ Len(log) = sent
        /\ attempt \in 1..(MaxAttempts + 1) /\ next \in 0..(total + 2) /\ paired \in BOOLEAN
        /\ truncated \subseteq 1..MaxAttempts /\ MaxAttempts \in Nat
    BY TotalIsNat, FileAssumption DEF FileTypeOK
  <1>1. CASE Pair
    BY <1>0, <1>1 DEF Pair, senderVars, vars
  <1>7. CASE AnswerReceiver
    <2>1. PeerSends /\ log' = Append(log, RegOK) /\ sent' = sent + 1
      BY <1>7 DEF AnswerReceiver, PeerSends
    <2>2. /\ log' \in Seq(FileFrames) /\ Len(log') = Len(log) + 1
          /\ \A i \in 1..Len(log) : log'[i] = log[i]
      BY <1>0, <2>1, RegOKIsFrame, AppendIs
    <2>3. UNCHANGED <<total, attempt, next, truncated, old, paired>>
      BY <1>7 DEF AnswerReceiver, senderVars
    <2> QED BY <1>0, <2>1, <2>2, <2>3
  <1>2. CASE Send
    <2>1. Relay(Piece) /\ attempt <= MaxAttempts /\ next \in 0..(total + 1)
      BY <1>2 DEF Send, Sending
    <2>2. Piece \in FileFrames
      BY <2>1, PieceIsFrame
    <2>3. /\ log' \in Seq(FileFrames) /\ Len(log') = sent'
          /\ Len(log) <= Len(log') /\ \A i \in 1..Len(log) : log'[i] = log[i]
      BY <1>0, <2>1, <2>2, RelayAppends
    <2>4. next' = next + 1 /\ UNCHANGED <<total, attempt, truncated, old, paired>>
      BY <1>2 DEF Send
    <2> QED BY <1>0, <2>1, <2>3, <2>4
  <1>3. CASE ReadFails
    <2>1. Relay(FileFrame("FileEnd", next - 1)) /\ attempt <= MaxAttempts /\ next \in 1..total
      BY <1>3 DEF ReadFails, Sending
    <2>2. FileFrame("FileEnd", next - 1) \in FileFrames
      BY <2>1, EndIsFrame
    <2>3. /\ log' \in Seq(FileFrames) /\ Len(log') = sent'
          /\ Len(log) <= Len(log') /\ \A i \in 1..Len(log) : log'[i] = log[i]
      BY <1>0, <2>1, <2>2, RelayAppends
    <2>4. /\ next' = total + 2 /\ truncated' = truncated \cup {attempt}
          /\ UNCHANGED <<total, attempt, old, paired>>
      BY <1>3 DEF ReadFails
    <2> QED BY <1>0, <2>1, <2>3, <2>4
  <1>4. CASE Finish
    <2>1. attempt <= MaxAttempts
      BY <1>4 DEF Finish, Sending
    <2>2. old' \in Seq(FileFrames)
      BY <1>0, <1>4, <2>1, LeaveIsFrame, AppendIs DEF Finish
    <2>3. /\ attempt' = MaxAttempts + 1 /\ next' = 0
          /\ UNCHANGED <<sent, total, truncated, paired, log>>
      BY <1>4 DEF Finish, vars
    <2> QED BY <1>0, <2>2, <2>3
  <1>5. CASE Break
    <2>1. attempt < MaxAttempts /\ attempt <= MaxAttempts /\ next \in 0..(total + 1)
      BY <1>0, <1>5 DEF Break, Sending
    <2>2. PICK hand \in {<<>>, <<Piece>>} : old' = old \o hand \o <<FileFrame("PeerLeave", 0)>>
      BY <1>5 DEF Break
    <2>3. hand \in Seq(FileFrames) /\ <<FileFrame("PeerLeave", 0)>> \in Seq(FileFrames)
      <3>1. Piece \in FileFrames /\ FileFrame("PeerLeave", 0) \in FileFrames
        BY <2>1, PieceIsFrame, LeaveIsFrame
      <3> DEFINE leave == FileFrame("PeerLeave", 0)
      <3> HIDE DEF leave
      <3>2. /\ <<>> \in Seq(FileFrames) /\ <<Piece>> \in Seq(FileFrames)
            /\ <<leave>> \in Seq(FileFrames)
        BY <3>1 DEF leave
      <3>3. hand = <<>> \/ hand = <<Piece>>
        BY <2>2
      <3> QED BY <3>2, <3>3 DEF leave
    <2>4. old' \in Seq(FileFrames)
      BY <1>0, <2>2, <2>3
    <2>5. /\ attempt' = attempt + 1 /\ next' = 0
          /\ UNCHANGED <<sent, total, truncated, paired, log>>
      BY <1>5 DEF Break, vars
    <2> QED BY <1>0, <2>1, <2>4, <2>5
  <1>6. CASE OldHandler
    <2>1. old # <<>> /\ Relay(Head(old)) /\ old' = Tail(old)
      BY <1>6 DEF OldHandler
    <2>2. Head(old) \in FileFrames /\ old' \in Seq(FileFrames)
      BY <1>0, <2>1, TailIs
    <2>3. /\ log' \in Seq(FileFrames) /\ Len(log') = sent'
          /\ Len(log) <= Len(log') /\ \A i \in 1..Len(log) : log'[i] = log[i]
      BY <1>0, <2>1, <2>2, RelayAppends
    <2>4. UNCHANGED <<total, attempt, next, truncated>> /\ paired' \in BOOLEAN
      BY <1>0, <1>6 DEF OldHandler, senderVars
    <2> QED BY <1>0, <2>2, <2>3, <2>4
  <1> QED BY <1>1, <1>2, <1>3, <1>4, <1>5, <1>6, <1>7 DEF Sends

\* The registration of the receiver and the number of its answer.
LEMMA RegistrationDo ==
    ASSUME FileTypeOK, FramesAreOfFile, Sends
    PROVE  registered' \in BOOLEAN /\ regOK' \in 0..sent'
  <1>1. /\ sent \in Nat /\ sent' \in Nat /\ sent <= sent' /\ regOK \in 0..sent
        /\ registered \in BOOLEAN
    BY SendersDo, SMTT(30) DEF FileTypeOK
  <1>2. CASE AnswerReceiver
    BY <1>1, <1>2 DEF AnswerReceiver
  <1>3. CASE ~AnswerReceiver
    <2>1. registered' \in BOOLEAN
      BY <1>1, SendersAnswerOnce, Zenon
    <2>2. regOK' = regOK
      BY <1>3, SendersAnswerOnce
    <2> QED BY <1>1, <2>1, <2>2
  <1> QED BY <1>2, <1>3

\* Types.
LEMMA FileTypeStep ==
    ASSUME FileIsSound, FileNext, late' \in BOOLEAN
    PROVE  FileTypeOK'
  <1>1. TypeOK'
    BY FileStepIsSessionStep, SessionNextIsSound DEF FileIsSound, SessionInvariant
  <1>2. FileTypeOK /\ FramesAreOfFile
    BY DEF FileIsSound
  <1>3. CASE Sends
    <2>1. total' = total
      BY <1>2, <1>3, SendersDo
    <2>2. FileFrames' = FileFrames
      BY <2>1 DEF FileFrames
    <2> QED BY <1>1, <1>2, <1>3, <2>1, <2>2, SendersDo, RegistrationDo, CountStep DEF FileTypeOK
  <1>4. CASE ~Sends
    <2>1. UNCHANGED <<total, attempt, next, truncated, old, paired, registered, regOK, log, sent>>
      <3>1. CASE Handles \/ Waits
        BY <3>1, HandlesAre, WaitsAre, HandlingTakes DEF FileIsSound
      <3>2. CASE GivesUp
        BY <3>2, GivesUpLeaves
      <3>3. CASE PumpOrOwner
        BY <3>3, PumpLeaves
      <3> QED BY <1>4, <3>1, <3>2, <3>3, FileSteps
    <2>2. FileFrames' = FileFrames
      BY <2>1 DEF FileFrames
    <2> QED BY <1>1, <1>2, <2>1, <2>2, CountStep DEF FileTypeOK
  <1> QED BY <1>3, <1>4

\* What the order of the frames is once the step is taken.
LEMMA OrderedNext ==
    ASSUME total' = total,
           \A i, j \in 1..Len(log') : i < j => Before(log'[i], log'[j]),
           \A i, j \in 1..Len(old') : i < j => Before(old'[i], old'[j]),
           \A i \in 1..Len(log'), j \in 1..Len(old') : Before(log'[i], old'[j]),
           \A i \in 1..Len(log') : \/ log'[i].attempt < attempt'
                                   \/ log'[i].attempt = attempt' /\ Position(log'[i]) < next',
           \A j \in 1..Len(old') : old'[j].attempt < attempt'
    PROVE  FramesAreOrdered'
  BY DEF FramesAreOrdered, Before, Position

\* A frame that comes after all of its attempt is put at the end of the log.
LEMMA RelayedInOrder ==
    ASSUME FileTypeOK, FramesAreOrdered, NEW f \in FileFrames, Relay(f) \/ log' = Append(log, f),
           \A i \in 1..Len(log) : Before(log[i], f)
    PROVE  /\ \A i, j \in 1..Len(log') : i < j => Before(log'[i], log'[j])
           /\ \A i \in 1..Len(log') : log'[i] = f \/ (i \in 1..Len(log) /\ log'[i] = log[i])
  <1>1. log \in Seq(FileFrames)
    BY DEF FileTypeOK
  <1>2. CASE log' = log
    BY <1>1, <1>2 DEF FramesAreOrdered
  <1>3. CASE /\ log' = Append(log, f) /\ Len(log') = Len(log) + 1 /\ log'[Len(log')] = f
             /\ \A i \in 1..Len(log) : log'[i] = log[i]
    <2>1. \A i \in 1..Len(log') : (i = Len(log) + 1 /\ log'[i] = f) \/ (i \in 1..Len(log) /\ log'[i] = log[i])
      BY <1>1, <1>3
    <2>2. ASSUME NEW i \in 1..Len(log'), NEW j \in 1..Len(log'), i < j
          PROVE  Before(log'[i], log'[j])
      <3>1. i \in 1..Len(log) /\ log'[i] = log[i]
        BY <1>1, <1>3, <2>1, <2>2
      <3> QED BY <2>1, <2>2, <3>1 DEF FramesAreOrdered
    <2> QED BY <2>1, <2>2
  <1>4. log' = Append(log, f) => /\ Len(log') = Len(log) + 1 /\ log'[Len(log')] = f
                                 /\ \A i \in 1..Len(log) : log'[i] = log[i]
    BY <1>1, AppendIs
  <1> QED BY <1>2, <1>3, <1>4, RelayAppends

LEMMA OrderStep ==
    ASSUME FileIsSound, FileNext
    PROVE  FramesAreOrdered' /\ FramesAreOfFile'
  <1>0. /\ total \in Nat /\ log \in Seq(FileFrames) /\ old \in Seq(FileFrames)
        /\ attempt \in 1..(MaxAttempts + 1) /\ next \in 0..(total + 2) /\ MaxAttempts \in Nat
        /\ FileTypeOK /\ FramesAreOrdered /\ FramesAreOfFile
    BY TotalIsNat, FileAssumption DEF FileTypeOK, FileIsSound
  <1>1. CASE Send
    <2>1. Relay(Piece) /\ attempt <= MaxAttempts /\ next \in 0..(total + 1)
      BY <1>1 DEF Send, Sending
    <2>2. /\ Piece \in FileFrames /\ Piece.attempt = attempt
          /\ Position(Piece) = next /\ OfFile(Piece)
      BY <1>0, <2>1, PieceIsFrame
    <2>3. \A i \in 1..Len(log) : Before(log[i], Piece)
      BY <1>0, <2>2 DEF FramesAreOrdered, Before
    <2>4. next' = next + 1 /\ UNCHANGED <<total, attempt, truncated, old, paired>>
      BY <1>1 DEF Send
    <2>5. /\ \A i, j \in 1..Len(log') : i < j => Before(log'[i], log'[j])
          /\ \A i \in 1..Len(log') : log'[i] = Piece \/ (i \in 1..Len(log) /\ log'[i] = log[i])
      BY <1>0, <2>1, <2>2, <2>3, RelayedInOrder
    <2>6. \A j \in 1..Len(old) : Before(Piece, old[j])
      BY <1>0, <2>2 DEF FramesAreOrdered, Before
    <2>7. \A i \in 1..Len(log') : \/ log'[i].attempt < attempt'
                                  \/ log'[i].attempt = attempt' /\ Position(log'[i]) < next'
      <3>1. \A i \in 1..Len(log) : Position(log[i]) \in Nat /\ log[i].attempt \in Nat
        BY <1>0, FrameFields
      <3>2. \A i \in 1..Len(log) : \/ log[i].attempt < attempt
                                   \/ log[i].attempt = attempt /\ Position(log[i]) < next + 1
        BY <1>0, <3>1 DEF FramesAreOrdered
      <3>3. next < next + 1
        BY <1>0
      <3> QED BY <2>2, <2>4, <2>5, <3>2, <3>3
    <2>8. FramesAreOfFile'
      <3>1. \A i \in 1..Len(log') : OfFile(log'[i])
        BY <1>0, <2>2, <2>5 DEF FramesAreOfFile
      <3>2. \A i \in 1..Len(old') : OfFile(old'[i])
        BY <1>0, <2>4 DEF FramesAreOfFile
      <3> QED BY <2>4, <3>1, <3>2 DEF FramesAreOfFile, OfFile
    <2>9. \A i \in 1..Len(log'), j \in 1..Len(old') : Before(log'[i], old'[j])
      BY <1>0, <2>4, <2>5, <2>6 DEF FramesAreOrdered
    <2>10. /\ \A i, j \in 1..Len(old') : i < j => Before(old'[i], old'[j])
           /\ \A j \in 1..Len(old') : old'[j].attempt < attempt'
      BY <1>0, <2>4 DEF FramesAreOrdered
    <2> QED BY <2>4, <2>5, <2>7, <2>8, <2>9, <2>10, OrderedNext
  <1>2. CASE ReadFails
    <2> DEFINE f == FileFrame("FileEnd", next - 1)
    <2>1. Relay(f) /\ attempt <= MaxAttempts /\ next \in 1..total
      BY <1>2 DEF ReadFails, Sending
    <2>2. f \in FileFrames /\ f.attempt = attempt /\ Position(f) = next /\ f.type = "FileEnd" /\ f.n = next - 1
      BY <1>0, <2>1, EndIsFrame
    <2> HIDE DEF f
    <2>3. \A i \in 1..Len(log) : Before(log[i], f)
      BY <1>0, <2>2 DEF FramesAreOrdered, Before
    <2>4. /\ next' = total + 2 /\ truncated' = truncated \cup {attempt}
          /\ UNCHANGED <<total, attempt, old, paired>>
      BY <1>2 DEF ReadFails
    <2>5. /\ \A i, j \in 1..Len(log') : i < j => Before(log'[i], log'[j])
          /\ \A i \in 1..Len(log') : log'[i] = f \/ (i \in 1..Len(log) /\ log'[i] = log[i])
      BY <1>0, <2>1, <2>2, <2>3, RelayedInOrder
    <2>6. \A j \in 1..Len(old) : Before(f, old[j])
      BY <1>0, <2>2 DEF FramesAreOrdered, Before
    <2>7. \A i \in 1..Len(log') : \/ log'[i].attempt < attempt'
                                  \/ log'[i].attempt = attempt' /\ Position(log'[i]) < next'
      <3>1. \A i \in 1..Len(log) : Position(log[i]) \in Nat
        BY <1>0, FrameFields
      <3> QED BY <1>0, <2>1, <2>2, <2>4, <2>5, <3>1, SMTT(30) DEF FramesAreOrdered
    <2>8. FramesAreOfFile'
      <3>1. \A i \in 1..Len(old') : OfFile(old'[i])
        BY <1>0, <2>4 DEF FramesAreOfFile
      <3>2. \A i \in 1..Len(log') : OfFile(log'[i]) \/ log'[i] = f
        BY <1>0, <2>5 DEF FramesAreOfFile
      <3>3. f.n <= total
        BY <1>0, <2>1, <2>2
      <3> QED BY <2>2, <2>4, <3>1, <3>2, <3>3 DEF FramesAreOfFile, OfFile
    <2>9. \A i \in 1..Len(log'), j \in 1..Len(old') : Before(log'[i], old'[j])
      BY <1>0, <2>4, <2>5, <2>6 DEF FramesAreOrdered
    <2>10. /\ \A i, j \in 1..Len(old') : i < j => Before(old'[i], old'[j])
           /\ \A j \in 1..Len(old') : old'[j].attempt < attempt'
      BY <1>0, <2>4 DEF FramesAreOrdered
    <2> QED BY <2>4, <2>5, <2>7, <2>8, <2>9, <2>10, OrderedNext
  <1>3. CASE Finish
    <2> DEFINE f == FileFrame("PeerLeave", 0)
    <2>1. attempt <= MaxAttempts /\ next = total + 2
      BY <1>3 DEF Finish, Sending
    <2>2. f \in FileFrames /\ f.attempt = attempt /\ Position(f) = total + 2 /\ OfFile(f)
      BY <1>0, <2>1, LeaveIsFrame
    <2>3. /\ attempt' = MaxAttempts + 1 /\ next' = 0 /\ old' = Append(old, f)
          /\ UNCHANGED <<total, truncated, log>>
      BY <1>3 DEF Finish
    <2> HIDE DEF f
    <2>4. \A i \in 1..Len(log) : Before(log[i], f)
      BY <1>0, <2>1, <2>2 DEF FramesAreOrdered, Before
    <2>5. \A j \in 1..Len(old) : Before(old[j], f) /\ old[j].attempt < attempt'
      <3>1. \A j \in 1..Len(old) : old[j].attempt \in Nat
        BY <1>0, FrameFields
      <3> QED BY <1>0, <2>1, <2>2, <2>3, <3>1 DEF FramesAreOrdered, Before
    <2>6. \A j \in 1..Len(old') : (j = Len(old) + 1 /\ old'[j] = f) \/ (j \in 1..Len(old) /\ old'[j] = old[j])
      BY <1>0, <2>2, <2>3, AppendIs
    <2>7. \A i, j \in 1..Len(old') : i < j => Before(old'[i], old'[j])
      BY <1>0, <2>5, <2>6, SMTT(30) DEF FramesAreOrdered
    <2>8. /\ \A i \in 1..Len(log'), j \in 1..Len(old') : Before(log'[i], old'[j])
          /\ \A j \in 1..Len(old') : old'[j].attempt < attempt' /\ OfFile(old'[j])
      BY <1>0, <2>1, <2>2, <2>3, <2>4, <2>5, <2>6 DEF FramesAreOrdered, FramesAreOfFile
    <2>9. \A i \in 1..Len(log') : log'[i].attempt < attempt'
      <3>1. \A i \in 1..Len(log) : log[i].attempt \in Nat
        BY <1>0, FrameFields
      <3> QED BY <1>0, <2>1, <2>3, <3>1 DEF FramesAreOrdered
    <2>10. \A i, j \in 1..Len(log') : i < j => Before(log'[i], log'[j])
      BY <1>0, <2>3 DEF FramesAreOrdered
    <2>11. FramesAreOfFile'
      BY <1>0, <2>3, <2>8 DEF FramesAreOfFile, OfFile
    <2> QED BY <2>3, <2>7, <2>8, <2>9, <2>10, <2>11, OrderedNext
  <1>4. CASE Break
    <2> DEFINE f == FileFrame("PeerLeave", 0)
    <2>1. attempt < MaxAttempts /\ attempt <= MaxAttempts /\ next \in 0..(total + 1)
      BY <1>0, <1>4 DEF Break, Sending
    <2>2. /\ f \in FileFrames /\ f.attempt = attempt /\ Position(f) = total + 2 /\ OfFile(f)
          /\ Piece \in FileFrames /\ Piece.attempt = attempt /\ Position(Piece) = next /\ OfFile(Piece)
      BY <1>0, <2>1, LeaveIsFrame, PieceIsFrame
    <2>3. /\ attempt' = attempt + 1 /\ next' = 0
          /\ UNCHANGED <<total, truncated, log>>
      BY <1>4 DEF Break
    <2>4. old' = Append(old, f) \/ old' = Append(Append(old, Piece), f)
      <3>1. PICK hand \in {<<>>, <<Piece>>} : old' = old \o hand \o <<f>>
        BY <1>4 DEF Break
      <3>2. hand = <<>> \/ hand = <<Piece>>
        BY <3>1
      <3>3. old \o <<>> = old /\ old \o <<Piece>> = Append(old, Piece) /\ Append(old, Piece) \in Seq(FileFrames)
        BY <1>0, <2>2, ConcatIs, AppendIs
      <3> HIDE DEF f
      <3>4. old \o <<f>> = Append(old, f) /\ Append(old, Piece) \o <<f>> = Append(Append(old, Piece), f)
        BY <1>0, <2>2, <3>3, ConcatIs
      <3> QED BY <3>1, <3>2, <3>3, <3>4
    <2> HIDE DEF f
    <2>5. /\ \A i \in 1..Len(log) : Before(log[i], f) /\ Before(log[i], Piece)
          /\ Before(Piece, f)
      <3>1. \A i \in 1..Len(log) : log[i].attempt \in Nat /\ Position(log[i]) \in Nat
        BY <1>0, FrameFields
      <3> QED BY <1>0, <2>1, <2>2, <3>1 DEF FramesAreOrdered, Before
    <2>6. \A j \in 1..Len(old) : /\ Before(old[j], f) /\ Before(old[j], Piece)
                                 /\ old[j].attempt < attempt'
      <3>1. \A j \in 1..Len(old) : old[j].attempt \in Nat
        BY <1>0, FrameFields
      <3> QED BY <1>0, <2>1, <2>2, <2>3, <3>1, SMTT(30) DEF FramesAreOrdered, Before
    <2>7. \/ \A j \in 1..Len(old') : \/ j = Len(old) + 1 /\ old'[j] = f
                                     \/ j \in 1..Len(old) /\ old'[j] = old[j]
          \/ \A j \in 1..Len(old') : \/ j = Len(old) + 2 /\ old'[j] = f
                                     \/ j = Len(old) + 1 /\ old'[j] = Piece
                                     \/ j \in 1..Len(old) /\ old'[j] = old[j]
      <3>1. CASE old' = Append(old, f)
        BY <1>0, <2>2, <3>1, AppendIs
      <3>2. CASE old' = Append(Append(old, Piece), f)
        <4> DEFINE o == Append(old, Piece)
        <4>1. /\ o \in Seq(FileFrames) /\ Len(o) = Len(old) + 1 /\ o[Len(old) + 1] = Piece
              /\ \A j \in 1..Len(old) : o[j] = old[j]
          BY <1>0, <2>2, AppendIs
        <4> HIDE DEF o
        <4>2. /\ Len(old') = Len(o) + 1 /\ old'[Len(o) + 1] = f
              /\ \A j \in 1..Len(o) : old'[j] = o[j]
          BY <2>2, <3>2, <4>1, AppendIs DEF o
        <4>3. Len(old) \in Nat
          BY <1>0
        <4> QED BY <4>1, <4>2, <4>3
      <3> QED BY <2>4, <3>1, <3>2
    <2>8. ASSUME NEW i \in 1..Len(old'), NEW j \in 1..Len(old'), i < j
          PROVE  Before(old'[i], old'[j])
      <3>1. ASSUME \A k \in 1..Len(old') : \/ k = Len(old) + 1 /\ old'[k] = f
                                           \/ k \in 1..Len(old) /\ old'[k] = old[k]
            PROVE  Before(old'[i], old'[j])
        BY <1>0, <2>6, <2>8, <3>1 DEF FramesAreOrdered
      <3>2. ASSUME \A k \in 1..Len(old') : \/ k = Len(old) + 2 /\ old'[k] = f
                                           \/ k = Len(old) + 1 /\ old'[k] = Piece
                                           \/ k \in 1..Len(old) /\ old'[k] = old[k]
            PROVE  Before(old'[i], old'[j])
        BY <1>0, <2>5, <2>6, <2>8, <3>2 DEF FramesAreOrdered
      <3> QED BY <2>7, <3>1, <3>2
    <2>9. /\ \A i \in 1..Len(log'), j \in 1..Len(old') : Before(log'[i], old'[j])
          /\ \A j \in 1..Len(old') : old'[j].attempt < attempt' /\ OfFile(old'[j])
      <3>1. \A j \in 1..Len(old') : old'[j] \in {f, Piece} \/ (j \in 1..Len(old) /\ old'[j] = old[j])
        BY <2>7
      <3>2. f.attempt < attempt' /\ Piece.attempt < attempt'
        BY <1>0, <2>1, <2>2, <2>3
      <3>3. \A i \in 1..Len(log'), j \in 1..Len(old') : Before(log'[i], old'[j])
        BY <1>0, <2>3, <2>5, <3>1 DEF FramesAreOrdered
      <3> QED BY <1>0, <2>2, <2>6, <3>1, <3>2, <3>3 DEF FramesAreOfFile
    <2>10. \A i \in 1..Len(log') : log'[i].attempt < attempt'
      <3>1. \A i \in 1..Len(log) : log[i].attempt \in Nat
        BY <1>0, FrameFields
      <3> QED BY <1>0, <2>1, <2>3, <3>1 DEF FramesAreOrdered
    <2>11. \A i, j \in 1..Len(log') : i < j => Before(log'[i], log'[j])
      BY <1>0, <2>3 DEF FramesAreOrdered
    <2>12. FramesAreOfFile'
      BY <1>0, <2>3, <2>9 DEF FramesAreOfFile, OfFile
    <2> QED BY <2>3, <2>8, <2>9, <2>10, <2>11, <2>12, OrderedNext
  <1>5. CASE OldHandler
    <2> DEFINE f == Head(old)
    <2>1. old # <<>> /\ Relay(f) /\ old' = Tail(old)
      BY <1>5 DEF OldHandler
    <2>2. /\ f = old[1] /\ f \in FileFrames /\ Len(old') = Len(old) - 1 /\ 1 \in 1..Len(old)
          /\ \A j \in 1..Len(old') : old'[j] = old[j + 1] /\ j + 1 \in 1..Len(old) /\ 1 < j + 1
      BY <1>0, <2>1, TailIs
    <2> HIDE DEF f
    <2>3. UNCHANGED <<total, attempt, next, truncated>>
      BY <1>5 DEF OldHandler, senderVars
    <2>4. \A i \in 1..Len(log) : Before(log[i], f)
      BY <1>0, <2>2 DEF FramesAreOrdered
    <2>5. /\ \A i, j \in 1..Len(log') : i < j => Before(log'[i], log'[j])
          /\ \A i \in 1..Len(log') : log'[i] = f \/ (i \in 1..Len(log) /\ log'[i] = log[i])
      BY <1>0, <2>1, <2>2, <2>4, RelayedInOrder
    <2>6. ASSUME NEW i \in 1..Len(old'), NEW j \in 1..Len(old'), i < j
          PROVE  Before(old'[i], old'[j])
      <3>1. i + 1 \in 1..Len(old) /\ j + 1 \in 1..Len(old) /\ i + 1 < j + 1
        BY <1>0, <2>2, <2>6
      <3> QED BY <1>0, <2>2, <3>1 DEF FramesAreOrdered
    <2>7. \A i \in 1..Len(log'), j \in 1..Len(old') : Before(log'[i], old'[j])
      BY <1>0, <2>2, <2>5 DEF FramesAreOrdered
    <2>8. \A j \in 1..Len(old') : old'[j].attempt < attempt'
      BY <1>0, <2>2, <2>3 DEF FramesAreOrdered
    <2>9. \A i \in 1..Len(log') : \/ log'[i].attempt < attempt'
                                  \/ log'[i].attempt = attempt' /\ Position(log'[i]) < next'
      BY <1>0, <2>2, <2>3, <2>5 DEF FramesAreOrdered
    <2>10. FramesAreOfFile'
      <3>1. \A i \in 1..Len(log') : OfFile(log'[i])
        BY <1>0, <2>2, <2>5 DEF FramesAreOfFile
      <3>2. \A i \in 1..Len(old') : OfFile(old'[i])
        BY <1>0, <2>2 DEF FramesAreOfFile
      <3> QED BY <2>3, <3>1, <3>2 DEF FramesAreOfFile, OfFile
    <2> QED BY <2>3, <2>5, <2>6, <2>7, <2>8, <2>9, <2>10, OrderedNext
  <1>6. CASE AnswerReceiver
    <2>1. /\ log' = Append(log, RegOK) /\ regOK = 0
          /\ UNCHANGED <<total, attempt, next, truncated, old>>
      BY <1>6 DEF AnswerReceiver, senderVars
    <2>2. RegOK \in FileFrames /\ RegOK.attempt = 0 /\ OfFile(RegOK)
      BY <1>0, RegOKIsFrame
    <2>3. /\ \A i \in 1..Len(log) : log[i].attempt # 0
          /\ \A j \in 1..Len(old) : old[j].attempt # 0
      <3>1. /\ \A i \in 1..Len(log) : log[i] \in FileFrames /\ log[i].type # "RegOK"
            /\ \A j \in 1..Len(old) : old[j] \in FileFrames /\ old[j].type # "RegOK"
        BY <1>0, <2>1 DEF FileIsSound, AnswerIsSound
      <3> QED BY <1>0, <3>1, FrameFields
    <2>4. \A i \in 1..Len(log) : Before(log[i], RegOK)
      BY <2>2, <2>3 DEF Before
    <2>5. /\ \A i, j \in 1..Len(log') : i < j => Before(log'[i], log'[j])
          /\ \A i \in 1..Len(log') : log'[i] = RegOK \/ (i \in 1..Len(log) /\ log'[i] = log[i])
      BY <1>0, <2>1, <2>2, <2>4, RelayedInOrder
    <2>6. \A j \in 1..Len(old) : Before(RegOK, old[j])
      BY <2>2, <2>3 DEF Before
    <2>7. /\ \A i, j \in 1..Len(old') : i < j => Before(old'[i], old'[j])
          /\ \A j \in 1..Len(old') : old'[j].attempt < attempt'
      BY <1>0, <2>1 DEF FramesAreOrdered
    <2>8. \A i \in 1..Len(log'), j \in 1..Len(old') : Before(log'[i], old'[j])
      BY <1>0, <2>1, <2>5, <2>6 DEF FramesAreOrdered
    <2>9. \A i \in 1..Len(log') : \/ log'[i].attempt < attempt'
                                  \/ log'[i].attempt = attempt' /\ Position(log'[i]) < next'
      BY <1>0, <2>1, <2>2, <2>5 DEF FramesAreOrdered
    <2>10. FramesAreOfFile'
      <3>1. \A i \in 1..Len(log') : OfFile(log'[i])
        BY <1>0, <2>2, <2>5 DEF FramesAreOfFile
      <3>2. \A i \in 1..Len(old') : OfFile(old'[i])
        BY <1>0, <2>1 DEF FramesAreOfFile
      <3> QED BY <2>1, <3>1, <3>2 DEF FramesAreOfFile, OfFile
    <2> QED BY <2>1, <2>5, <2>7, <2>8, <2>9, <2>10, OrderedNext
  <1>9. CASE ~(AnswerReceiver \/ Send \/ ReadFails \/ Finish \/ Break \/ OldHandler)
    <2>1. UNCHANGED <<total, attempt, next, truncated, old, log>>
      <3>1. CASE Handles \/ Waits
        BY <3>1, HandlesAre, WaitsAre, HandlingTakes DEF FileIsSound
      <3>2. CASE GivesUp
        BY <3>2, GivesUpLeaves
      <3>3. CASE PumpOrOwner
        BY <3>3, PumpLeaves
      <3>4. CASE Pair
        BY <3>4 DEF Pair, senderVars
      <3> QED BY <1>9, <3>1, <3>2, <3>3, <3>4, FileSteps DEF Sends
    <2> QED BY <1>0, <2>1 DEF FramesAreOrdered, FramesAreOfFile, Before, Position, OfFile
  <1> QED BY <1>1, <1>2, <1>3, <1>4, <1>5, <1>6, <1>9

\* The pump loses a frame only when the channel is full, or when it is being stopped.
LEMMA CompleteStep ==
    ASSUME FileIsSound, FileNext
    PROVE  late' \/ Complete' \/ ("closeCh" \in chans' /\ consumer' # "over")
  <1>0. /\ taken \in Seq(1..MaxFrames) /\ frameCh \in Seq(1..MaxFrames) /\ sent \in Nat /\ Cap \in Nat
        /\ read \in 0..sent /\ (late => late') /\ MaxFrames \in Nat
        /\ FileTypeOK /\ SessionInvariant /\ TakenInOrder /\ RangeIsSound
        /\ late' = (late \/ sent' - Len(taken') > Cap)
    BY SessionAssumption DEF FileIsSound, FileTypeOK, TypeOK, FileNext
  <1>1. CASE Handles \/ Waits
    <2>1. Handling \/ Waiting
      BY <1>1, HandlesAre, WaitsAre
    <2> DEFINE h == Head(frameCh)
    <2>2. /\ h = frameCh[1] /\ frameCh # <<>> /\ frameCh' = Tail(frameCh)
          /\ Len(taken') = Len(taken) + 1 /\ taken'[Len(taken) + 1] = h
          /\ \A k \in 1..Len(taken) : taken'[k] = taken[k]
          /\ consumer = "range" /\ InHand' = InHand
          /\ UNCHANGED <<read, chans, consumer>>
      BY <1>0, <2>1, HandlingTakes
    <2> HIDE DEF h
    <2>3. CASE Complete
      <3>1. /\ Len(frameCh') = Len(frameCh) - 1 /\ 1 \in 1..Len(frameCh)
            /\ \A k \in 1..Len(frameCh') : frameCh'[k] = frameCh[k + 1] /\ k + 1 \in 1..Len(frameCh)
        BY <1>0, <2>2
      <3>0. Len(frameCh) \in Nat /\ Len(taken) \in Nat /\ InHand \in 0..1
        BY <1>0 DEF InHand
      <3>2. read' = InHand' + Len(frameCh') + Len(taken')
        <4>1. read = InHand + Len(frameCh) + Len(taken)
          BY <2>3 DEF Complete
        <4> QED BY <2>2, <3>0, <3>1, <4>1
      <3>3. ASSUME NEW k \in 1..Len(taken') PROVE taken'[k] = k
        <4>1. h = Len(taken) + 1
          BY <2>2, <2>3, <3>1 DEF Complete
        <4>2. k \in 1..Len(taken) \/ k = Len(taken) + 1
          BY <2>2, <3>0
        <4> QED BY <2>2, <2>3, <4>1, <4>2 DEF Complete
      <3>4. ASSUME NEW k \in 1..Len(frameCh') PROVE frameCh'[k] = Len(taken') + k
        <4>1. frameCh'[k] = Len(taken) + (k + 1)
          BY <2>3, <3>1 DEF Complete
        <4> QED BY <2>2, <3>0, <3>1, <4>1
      <3> QED BY <3>2, <3>3, <3>4 DEF Complete
    <2> QED BY <1>0, <2>2, <2>3 DEF RangeIsSound
  <1>2. CASE Sends
    <2>1. UNCHANGED <<read, pump, frameCh, chans, taken, consumer>>
      BY <1>2, SendersLeave
    <2> QED BY <1>0, <2>1 DEF RangeIsSound, Complete, InHand
  <1>3. CASE GivesUp
    <2>1. /\ UNCHANGED <<read, pump, frameCh, chans, taken>>
          /\ consumer = "range" \/ consumer' = consumer
      BY <1>3, GivesUpLeaves
    <2> QED BY <1>0, <2>1 DEF RangeIsSound, Complete, InHand
  <1>4. CASE PumpOrOwner
    <2>1. taken' = taken /\ sent' = sent
      BY <1>4, PumpLeaves
    <2>2. CASE LinkFails \/ PumpFails \/ PumpClosesFrames \/ PumpClosesDone \/ CloseConn
      <3>1. UNCHANGED <<read, frameCh, consumer>> /\ InHand' = InHand
        BY <2>2 DEF LinkFails, PumpFails, PumpClosesFrames, PumpClosesDone, CloseConn, InHand
      <3>2. "closeCh" \in chans => "closeCh" \in chans'
        BY <2>2 DEF LinkFails, PumpFails, PumpClosesFrames, PumpClosesDone, CloseConn
      <3>3. Complete => Complete'
        BY <2>1, <3>1 DEF Complete
      <3> QED BY <1>0, <3>1, <3>2, <3>3 DEF RangeIsSound
    <2>3. CASE PumpReceives
      <3>1. UNCHANGED <<frameCh, consumer, chans>> /\ InHand = 0 /\ InHand' = 1 /\ read' = read + 1
        BY <2>3 DEF PumpReceives, Received, InHand
      <3>2. read \in Nat /\ Len(frameCh) \in Nat /\ Len(taken) \in Nat
        BY <1>0
      <3>3. Complete => Complete'
        BY <2>1, <3>1, <3>2 DEF Complete
      <3> QED BY <1>0, <3>1, <3>3 DEF RangeIsSound
    <2>4. CASE PumpDelivers
      <3>1. /\ UNCHANGED <<read, consumer, chans>> /\ InHand = 1 /\ InHand' = 0
            /\ frameCh' = Append(frameCh, read)
        BY <2>4 DEF PumpDelivers, InHand
      <3>2. CASE Complete
        <4>1. /\ Len(frameCh') = Len(frameCh) + 1 /\ frameCh'[Len(frameCh) + 1] = read
              /\ \A k \in 1..Len(frameCh) : frameCh'[k] = frameCh[k]
          BY <1>0, <3>1
        <4>2. read = 1 + Len(frameCh) + Len(taken)
          BY <3>1, <3>2 DEF Complete
        <4>3. Len(frameCh) \in Nat /\ Len(taken) \in Nat
          BY <1>0
        <4>4. read' = InHand' + Len(frameCh') + Len(taken')
          BY <2>1, <3>1, <4>1, <4>2, <4>3
        <4>5. ASSUME NEW k \in 1..Len(frameCh')
              PROVE  frameCh'[k] = Len(taken') + k
          <5>1. CASE k = Len(frameCh) + 1
            BY <2>1, <4>1, <4>2, <4>3, <5>1
          <5>2. CASE k \in 1..Len(frameCh)
            BY <2>1, <3>2, <4>1, <5>2 DEF Complete
          <5> QED BY <4>1, <4>3, <5>1, <5>2
        <4> QED BY <2>1, <3>2, <4>4, <4>5 DEF Complete
      <3> QED BY <1>0, <3>1, <3>2 DEF RangeIsSound
    <2>5. CASE PumpStops
      <3>1. UNCHANGED <<consumer, chans>> /\ "closeCh" \in chans /\ pump = "select"
        BY <2>5 DEF PumpStops
      <3>2. consumer # "over"
        BY <1>0, <3>1 DEF RangeIsSound, SessionInvariant, DoneComesLast
      <3> QED BY <3>1, <3>2
    <2>6. CASE PumpDrops
      <3>1. /\ UNCHANGED <<consumer, chans>> /\ pump = "select" /\ InHand = 1
            /\ ~(Len(frameCh) < Cap) /\ "closeCh" \notin chans
        BY <2>6 DEF PumpDrops, Room, InHand
      <3>2. CASE Complete
        <4>1. read = 1 + Len(frameCh) + Len(taken)
          BY <3>1, <3>2 DEF Complete
        <4>2. sent - Len(taken) > Cap
          BY <1>0, <3>1, <4>1
        <4> QED BY <1>0, <2>1, <4>2
      <3> QED BY <1>0, <3>1, <3>2 DEF RangeIsSound
    <2>7. CASE ReceiverCloses
      <3>1. UNCHANGED <<read, pump, frameCh, consumer>> /\ chans \subseteq chans'
        BY <2>7 DEF ReceiverCloses, Close
      <3>2. Complete => Complete'
        BY <2>1, <3>1 DEF Complete, InHand
      <3> QED BY <1>0, <3>1, <3>2 DEF RangeIsSound
    <2>8. CASE ReceiverReturns
      <3>1. UNCHANGED <<read, frameCh, chans>> /\ InHand' = InHand /\ consumer' = "left"
        BY <2>8 DEF ReceiverReturns, ConsumerLeaves, InHand
      <3> QED BY <1>0, <2>1, <3>1 DEF RangeIsSound, Complete
    <2> QED BY <1>4, <2>2, <2>3, <2>4, <2>5, <2>6, <2>7, <2>8 DEF PumpOrOwner, SessionStep
  <1> QED BY <1>1, <1>2, <1>3, <1>4, FileSteps

\* The range ends only when the channel is empty and closed, and a FileEnd that is taken
\* ends the receiver.
LEMMA RangeStep ==
    ASSUME FileIsSound, FileNext
    PROVE  RangeIsSound'
  <1>0. /\ FileTypeOK /\ SessionInvariant /\ TakenInOrder /\ RangeIsSound /\ FramesAreOfFile
        /\ log \in Seq(FileFrames) /\ taken \in Seq(1..MaxFrames) /\ Len(log) = sent /\ sent \in Nat
        /\ read \in 0..sent /\ AnswerIsSound
    BY SessionAssumption DEF FileIsSound, FileTypeOK, TypeOK
  <1>1. CASE Handles
    <2>1. Handling
      BY <1>1, HandlesAre
    <2> DEFINE h == Head(frameCh)
    <2>2. /\ Len(taken') = Len(taken) + 1 /\ taken'[Len(taken) + 1] = h
          /\ \A k \in 1..Len(taken) : taken'[k] = taken[k]
          /\ consumer = "range" /\ result = "none"
          /\ UNCHANGED <<consumer, chans, log, regOK>>
      BY <1>0, <2>1, HandlingTakes
    <2>3. result' # "closed" /\ (result' = "none" => log[h].type # "FileEnd")
      BY <1>0, <1>1, <2>2, HandlesDo
    <2> HIDE DEF h
    <2>4. result' = "none" =>
              \A k \in 1..Len(taken') : taken'[k] > regOK => log[taken'[k]].type # "FileEnd"
      BY <1>0, <2>2, <2>3 DEF RangeIsSound
    <2> QED BY <1>0, <2>2, <2>3, <2>4, CompleteStep DEF RangeIsSound
  <1>5. CASE Waits
    <2> DEFINE h == Head(frameCh)
    <2>1. /\ Waiting
          /\ result' = result \/ (result' = "none" /\ log[h].type = "RegOK")
      BY <1>5, WaitsAre
    <2>2. /\ Len(taken') = Len(taken) + 1 /\ taken'[Len(taken) + 1] = h /\ h \in 1..Len(log)
          /\ \A k \in 1..Len(taken) : taken'[k] = taken[k] /\ taken[k] < h
          /\ consumer = "range" /\ result = "register"
          /\ UNCHANGED <<consumer, chans, log, regOK>>
      BY <1>0, <2>1, HandlingTakes
    <2> HIDE DEF h
    <2>3. result' = "none" => h = regOK
      BY <2>1, <2>2, <1>0 DEF AnswerIsSound
    <2>4. result' = "none" => \A k \in 1..Len(taken') : ~(taken'[k] > regOK)
      <3>1. \A k \in 1..Len(taken) : taken[k] \in Nat
        BY <1>0, SessionAssumption
      <3>2. Len(taken) \in Nat /\ h \in Nat
        BY <1>0, <2>2
      <3>3. \A k \in 1..Len(taken') : k \in 1..Len(taken) \/ k = Len(taken) + 1
        BY <2>2, <3>2
      <3> QED BY <2>2, <2>3, <3>1, <3>2, <3>3
    <2> QED BY <1>0, <2>1, <2>2, <2>4, CompleteStep DEF RangeIsSound
  <1>2. CASE Sends
    <2>1. UNCHANGED <<chans, taken, consumer, frameCh, result>>
      BY <1>2, SendersLeave
    <2>3. result \in {"none", "closed"} => regOK' = regOK
      BY <1>0, <1>2, SendersAnswerOnce DEF AnswerIsSound
    <2>2. \A k \in 1..Len(taken) : log'[taken[k]] = log[taken[k]]
      <3>1. \A k \in 1..Len(taken) : taken[k] \in 1..Len(log)
        <4>1. \A k \in 1..Len(taken) : taken[k] \in 1..MaxFrames /\ taken[k] <= read
          BY <1>0, SessionAssumption DEF TakenInOrder
        <4> QED BY <1>0, <4>1, SessionAssumption
      <3> QED BY <1>0, <1>2, <3>1, SendersDo
    <2> QED BY <1>0, <2>1, <2>2, <2>3, CompleteStep DEF RangeIsSound
  <1>3. CASE GivesUp
    <2>1. UNCHANGED <<log, taken, regOK, frameCh, chans>>
      BY <1>3, GivesUpLeaves
    <2> QED BY <1>0, <1>3, <2>1, GivesUpLeaves, CompleteStep DEF RangeIsSound
  <1>4. CASE PumpOrOwner
    <2>1. UNCHANGED <<log, taken, result, regOK>>
      BY <1>4, PumpLeaves
    <2>2. CASE LinkFails \/ PumpFails \/ PumpReceives \/ PumpDrops \/ PumpStops \/ CloseConn
      <3>1. UNCHANGED <<frameCh, consumer, chans>>
        BY <2>2 DEF LinkFails, PumpFails, PumpReceives, PumpDrops, PumpStops, CloseConn
      <3> QED BY <1>0, <2>1, <3>1, CompleteStep DEF RangeIsSound
    <2>3. CASE PumpClosesFrames \/ PumpClosesDone
      <3>1. UNCHANGED <<frameCh, consumer>> /\ (chans' = chans \cup {"frameCh"} \/ chans' = chans \cup {"doneCh"})
        BY <2>3 DEF PumpClosesFrames, PumpClosesDone
      <3> QED BY <1>0, <2>1, <3>1, CompleteStep DEF RangeIsSound
    <2>4. CASE PumpDelivers
      <3>1. UNCHANGED <<consumer, chans>> /\ pump = "select"
        BY <2>4 DEF PumpDelivers
      <3>2. consumer # "over"
        BY <1>0, <3>1 DEF RangeIsSound, SessionInvariant, DoneComesLast
      <3> QED BY <1>0, <2>1, <3>1, <3>2, CompleteStep DEF RangeIsSound
    <2>5. CASE ReceiverCloses
      <3>1. UNCHANGED <<frameCh, consumer>> /\ chans' = chans \cup {"closeCh"} /\ consumer # "range"
        BY <2>5 DEF ReceiverCloses, Close
      <3> QED BY <1>0, <2>1, <3>1, CompleteStep DEF RangeIsSound
    <2>6. CASE ReceiverReturns
      <3>1. UNCHANGED <<frameCh, chans>> /\ consumer' = "left" /\ consumer = "range"
        BY <2>6 DEF ReceiverReturns, ConsumerLeaves
      <3> QED BY <1>0, <2>1, <3>1, CompleteStep DEF RangeIsSound
    <2> QED BY <1>4, <2>2, <2>3, <2>4, <2>5, <2>6 DEF PumpOrOwner, SessionStep
  <1> QED BY <1>1, <1>2, <1>3, <1>4, <1>5, FileSteps

\* What the receiver has taken stays as it is in the log.
LEMMA TakenStays ==
    ASSUME FileIsSound, FileNext
    PROVE  /\ total' = total /\ truncated \subseteq truncated'
           /\ \A k \in 1..Len(taken) : taken[k] \in 1..Len(log) /\ log'[taken[k]] = log[taken[k]]
           /\ \A i \in 1..Len(log) : log'[i] = log[i]
           /\ Len(log) <= Len(log')
  <1>1. /\ log \in Seq(FileFrames) /\ taken \in Seq(1..MaxFrames) /\ Len(log) = sent /\ sent \in Nat
        /\ read \in 0..sent /\ FileTypeOK /\ FramesAreOfFile /\ SessionInvariant /\ TakenInOrder
    BY SessionAssumption DEF FileIsSound, FileTypeOK, TypeOK
  <1>2. \A k \in 1..Len(taken) : taken[k] \in 1..Len(log)
    <2>1. \A k \in 1..Len(taken) : taken[k] \in 1..MaxFrames /\ taken[k] <= read
      BY <1>1, SessionAssumption DEF TakenInOrder
    <2> QED BY <1>1, <2>1, SessionAssumption
  <1>3. CASE Sends
    BY <1>1, <1>2, <1>3, SendersDo
  <1>4. CASE Handles \/ Waits \/ GivesUp \/ PumpOrOwner
    <2>1. UNCHANGED <<total, truncated, log>>
      BY <1>1, <1>4, HandlesAre, WaitsAre, HandlingTakes, GivesUpLeaves, PumpLeaves
    <2> QED BY <1>1, <1>2, <2>1
  <1> QED BY <1>3, <1>4, FileSteps

\* What is taken from one attempt is in the order the attempt said it.
LEMMA TakenOfOneAttempt ==
    ASSUME FileIsSound, Handling, NEW a, From(a)'
    PROVE  LET f == log[Head(frameCh)] IN
           /\ From(a) /\ f.attempt = a /\ f.type # "RegOK" /\ Head(frameCh) > regOK
           /\ \A k \in Handled : /\ Position(log[taken[k]]) \in Nat
                                 /\ Position(log[taken[k]]) < Position(f)
  <1> DEFINE h == Head(frameCh)
  <1>0. FileTypeOK /\ SessionInvariant /\ TakenInOrder /\ FramesAreOrdered /\ total \in Nat
        /\ log \in Seq(FileFrames) /\ Len(taken) \in Nat /\ AnswerIsSound
        /\ taken \in Seq(1..MaxFrames) /\ regOK \in Nat
    BY TotalIsNat, SessionAssumption, SMTT(30) DEF FileIsSound, FileTypeOK, TypeOK
  <1>1. /\ Len(taken') = Len(taken) + 1 /\ taken'[Len(taken) + 1] = h /\ log' = log
        /\ h \in 1..Len(log) /\ regOK' = regOK /\ result = "none"
        /\ \A k \in 1..Len(taken) : taken'[k] = taken[k] /\ taken[k] < h /\ taken[k] \in 1..Len(log)
    BY <1>0, HandlingTakes
  <1> HIDE DEF h
  <1>2. \A k \in 1..Len(taken') : taken'[k] > regOK => log[taken'[k]].attempt = a
    BY <1>1 DEF From, Handled
  <1>6. h > regOK /\ log[h].type # "RegOK"
    <2>1. PICK k \in 1..Len(taken) : taken[k] = regOK
      BY <1>0, <1>1 DEF AnswerIsSound
    <2>2. regOK < h /\ h \in Nat
      BY <1>1, <2>1
    <2> QED BY <1>0, <1>1, <2>2 DEF AnswerIsSound
  <1>3. log[h].attempt = a
    <2>1. Len(taken) + 1 \in 1..Len(taken')
      BY <1>0, <1>1
    <2> QED BY <1>1, <1>2, <1>6, <2>1
  <1>4. From(a)
    <2>1. \A k \in 1..Len(taken) : k \in 1..Len(taken')
      BY <1>0, <1>1
    <2> QED BY <1>1, <1>2, <2>1 DEF From, Handled
  <1>5. ASSUME NEW k \in Handled
        PROVE  Position(log[taken[k]]) \in Nat /\ Position(log[taken[k]]) < Position(log[h])
    <2>1. /\ k \in 1..Len(taken) /\ taken[k] \in 1..Len(log) /\ taken[k] < h
          /\ log[taken[k]].attempt = a
      BY <1>1, <1>4 DEF From, Handled
    <2>2. log[taken[k]] \in FileFrames
      BY <1>0, <2>1
    <2>3. Before(log[taken[k]], log[h])
      BY <1>0, <1>1, <2>1 DEF FramesAreOrdered
    <2>4. Position(log[taken[k]]) \in Nat
      BY <1>0, <2>2, FrameFields
    <2> QED BY <1>3, <2>1, <2>3, <2>4 DEF Before
  <1> QED BY <1>3, <1>4, <1>5, <1>6 DEF h

\* The content of the file after a frame of the attempt.
LEMMA ContentNext ==
    ASSUME FileIsSound, FileNext, Handles, NEW a \in 1..MaxAttempts, From(a)'
    PROVE  LET c == state'.content IN
           /\ state'.receivedChunks = Len(c)
           /\ ~state'.file => c = <<>>
           /\ c # <<>> => c[Len(c)][2] < Position(log[Head(frameCh)])
           /\ \A k \in 1..Len(c) : c[k][1] = a /\ c[k][2] < total
           /\ \A j, k \in 1..Len(c) : j <= k => k - j <= c[k][2] - c[j][2]
           /\ result' = "received" /\ a \notin truncated => Len(c) = total
  <1> DEFINE f == log[Head(frameCh)]
             c == state.content
  <1>0. /\ FileTypeOK /\ SessionInvariant /\ TakenInOrder /\ RangeIsSound /\ FramesAreOfFile
        /\ total \in Nat /\ ContentIsSound /\ Len(taken) \in Nat
        /\ c \in Seq((1..MaxAttempts) \X Nat) /\ state.receivedChunks \in Nat
        /\ \A k \in 1..Len(c) : c[k][2] \in Nat
    <2>1. c \in Seq((1..MaxAttempts) \X Nat) /\ state.receivedChunks \in Nat
      BY SessionAssumption DEF FileIsSound, FileTypeOK
    <2>2. \A k \in 1..Len(c) : c[k] \in (1..MaxAttempts) \X Nat
      BY <2>1
    <2>3. \A k \in 1..Len(c) : c[k][2] \in Nat
      BY <2>2
    <2> QED BY <2>1, <2>3, TotalIsNat DEF FileIsSound, FileTypeOK, TypeOK
  <1>1. Handling
    BY HandlesAre
  <1>2. /\ f \in FileFrames /\ result = "none" /\ OfFile(f)
    BY <1>0, <1>1, HandlingTakes DEF FramesAreOfFile
  <1>3. /\ From(a) /\ f.attempt = a
        /\ \A k \in Handled : /\ Position(log[taken[k]]) \in Nat
                              /\ Position(log[taken[k]]) < Position(f)
    BY <1>1, TakenOfOneAttempt
  <1>4. \/ /\ f.type = "FileMeta" /\ result' = result
           /\ state'.file /\ state'.content = <<>>
           /\ state'.receivedChunks = state.receivedChunks
        \/ /\ f.type = "FileData" /\ result' = result /\ state.file
           /\ state'.file = state.file /\ state'.content = Append(c, <<f.attempt, f.n>>)
           /\ state'.receivedChunks = state.receivedChunks + 1
        \/ /\ state' = state
           /\ result' = "received" => f.type = "FileEnd" /\ state.receivedChunks = f.n
    BY <1>0, <1>2, HandlesDo
  <1> HIDE DEF f, c
  <1>5. f.n \in Nat /\ Position(f) \in Nat
    BY <1>0, <1>2, FrameFields
  <1>6. /\ state.receivedChunks = Len(c)
        /\ ~state.file => c = <<>>
        /\ c # <<>> => /\ taken # <<>> /\ taken[Len(taken)] > regOK
                       /\ c[Len(c)][2] < Position(log[taken[Len(taken)]])
        /\ \A k \in 1..Len(c) : c[k][1] = a /\ c[k][2] < total
        /\ \A j, k \in 1..Len(c) : j <= k => k - j <= c[k][2] - c[j][2]
    BY <1>0, <1>3 DEF ContentIsSound, ContentIsOf, c
  <1>7. c # <<>> => Len(taken) \in Handled
    BY <1>0, <1>6 DEF FileTypeOK, TypeOK, Handled
  <1>8. c # <<>> => Len(c) \in 1..Len(c) /\ c[Len(c)][2] \in Nat /\ c[Len(c)][2] + 1 < Position(f)
    <2> SUFFICES ASSUME c # <<>>
                 PROVE  Len(c) \in 1..Len(c) /\ c[Len(c)][2] \in Nat /\ c[Len(c)][2] + 1 < Position(f)
      OBVIOUS
    <2>1. Len(c) \in 1..Len(c)
      BY <1>0
    <2>2. c[Len(c)][2] \in Nat
      BY <1>0, <2>1
    <2> QED BY <1>3, <1>5, <1>6, <1>7, <2>1, <2>2, SMTT(30)
  <1>9. CASE f.type = "FileMeta" /\ state'.file /\ state'.content = <<>> /\ result' = result
             /\ state'.receivedChunks = state.receivedChunks
    <2>1. Position(f) = 0
      BY <1>9 DEF Position
    <2>2. Handled = {}
      BY <1>3, <2>1
    <2>3. state.receivedChunks = 0
      BY <1>0, <2>2 DEF ContentIsSound, NoFile
    <2> QED BY <1>2, <1>9, <2>3
  <1>10. CASE /\ f.type = "FileData" /\ result' = result /\ state.file
              /\ state'.file = state.file /\ state'.content = Append(c, <<f.attempt, f.n>>)
              /\ state'.receivedChunks = state.receivedChunks + 1
    <2> DEFINE d == Append(c, <<f.attempt, f.n>>)
    <2>1. <<f.attempt, f.n>> \in (1..MaxAttempts) \X Nat
      BY <1>3, <1>5
    <2>2. /\ d \in Seq((1..MaxAttempts) \X Nat) /\ Len(d) = Len(c) + 1 /\ d[Len(c) + 1] = <<a, f.n>>
          /\ \A k \in 1..Len(c) : d[k] = c[k]
      BY <1>0, <1>3, <2>1, AppendIs
    <2> HIDE DEF d
    <2>3. Position(f) = f.n + 1 /\ f.n < total /\ Len(c) \in Nat
      BY <1>0, <1>2, <1>10 DEF Position, OfFile
    <2>4. \A k \in 1..Len(d) : k \in 1..Len(c) \/ k = Len(c) + 1
      BY <2>2, <2>3
    <2>5. ASSUME NEW k \in 1..Len(d)
          PROVE  d[k][1] = a /\ d[k][2] < total
      <3>1. CASE k \in 1..Len(c)
        BY <1>6, <2>2, <3>1
      <3>2. CASE k = Len(c) + 1
        <4>1. d[k][1] = a /\ d[k][2] = f.n
          BY <2>2, <3>2
        <4> QED BY <2>3, <4>1
      <3> QED BY <2>4, <3>1, <3>2
    <2>6. ASSUME NEW j \in 1..Len(d), NEW k \in 1..Len(d), j <= k
          PROVE  k - j <= d[k][2] - d[j][2]
      <3>1. CASE k \in 1..Len(c)
        <4>1. j \in 1..Len(c)
          BY <2>3, <2>4, <2>6, <3>1
        <4> QED BY <1>6, <2>2, <2>6, <3>1, <4>1
      <3>2. CASE k = Len(c) + 1 /\ j = k
        BY <1>5, <2>2, <3>2
      <3>3. CASE k = Len(c) + 1 /\ j \in 1..Len(c)
        <4>1. c # <<>>
          BY <3>3
        <4>2. Len(c) - j <= c[Len(c)][2] - c[j][2] /\ c[j][2] \in Nat
          BY <1>0, <1>6, <1>8, <2>3, <3>3, <4>1
        <4>3. c[Len(c)][2] + 1 < f.n + 1 /\ c[Len(c)][2] \in Nat
          BY <1>8, <2>3, <4>1
        <4>4. d[k][2] = f.n /\ d[j][2] = c[j][2]
          BY <2>2, <3>3, SMTT(30)
        <4>5. j \in Nat
          BY <3>3
        <4>6. \A i, m, x, y, z \in Nat :
                  m - i <= y - x /\ y + 1 < z + 1 => (m + 1) - i <= z - x
          OBVIOUS
        <4>7. (Len(c) + 1) - j <= f.n - c[j][2]
          BY <1>5, <2>3, <4>2, <4>3, <4>5, <4>6
        <4> QED BY <3>3, <4>4, <4>7
      <3> QED BY <2>4, <3>1, <3>2, <3>3
    <2>7. d[Len(d)][2] < Position(f)
      BY <1>5, <2>2, <2>3
    <2>8. state'.receivedChunks = Len(d) /\ state'.content = d /\ result' = "none" /\ state'.file
      BY <1>2, <1>6, <1>10, <2>2 DEF d
    <2> QED BY <2>5, <2>6, <2>7, <2>8 DEF f
  <1>11. CASE /\ state' = state
              /\ result' = "received" => f.type = "FileEnd" /\ state.receivedChunks = f.n
    <2>1. result' = "received" /\ a \notin truncated => Len(c) = total
      BY <1>2, <1>3, <1>6, <1>11 DEF OfFile
    <2>2. c # <<>> => c[Len(c)][2] < Position(f)
      BY <1>5, <1>8
    <2> QED BY <1>6, <1>11, <2>1, <2>2 DEF c, f
  <1> QED BY <1>4, <1>9, <1>10, <1>11

\* Steps that handle no frame change nothing of what is handled, or come before it.
LEMMA OthersKeep ==
    ASSUME FileIsSound, FileNext, ~Handles
    PROVE  /\ state' = state
           /\ result' = "received" => result = "received"
           /\ result' = "warning" => result = "warning"
           /\ \/ /\ state' = NoFile /\ result' \notin {"received", "warning", "closed"}
                 /\ result' = "none" => /\ Len(taken') \in 1..Len(taken')
                                        /\ taken'[Len(taken')] = regOK'
              \/ taken' = taken /\ regOK' = regOK /\ (result' = "none" => result = "none")
  <1>0. /\ FileTypeOK /\ SessionInvariant /\ TakenInOrder /\ AnswerIsSound
    BY DEF FileIsSound
  <1>1. CASE Sends
    <2>1. UNCHANGED <<taken, state, result>>
      BY <1>1, SendersLeave
    <2> QED BY <1>0, <1>1, <2>1, SendersAnswerOnce DEF AnswerIsSound
  <1>2. CASE Waits
    <2> DEFINE h == Head(frameCh)
    <2>1. /\ Waiting
          /\ \/ result' = result \/ (result' = "none" /\ log[h].type = "RegOK")
      BY <1>2, WaitsAre
    <2>2. /\ Len(taken') = Len(taken) + 1 /\ taken'[Len(taken) + 1] = h /\ h \in 1..Len(log)
          /\ Len(taken) \in Nat /\ regOK' = regOK /\ result = "register" /\ state' = state
      BY <1>0, <2>1, HandlingTakes DEF FileTypeOK, TypeOK
    <2> HIDE DEF h
    <2>3. result' = "none" => h = regOK
      BY <1>0, <2>1, <2>2 DEF AnswerIsSound
    <2>4. Len(taken') \in 1..Len(taken')
      BY <2>2
    <2> QED BY <1>0, <2>1, <2>2, <2>3, <2>4 DEF AnswerIsSound
  <1>3. CASE GivesUp
    BY <1>3, GivesUpLeaves
  <1>4. CASE PumpOrOwner
    BY <1>4, PumpLeaves
  <1> QED BY <1>1, <1>2, <1>3, <1>4, FileSteps

LEMMA ContentStep ==
    ASSUME FileIsSound, FileNext
    PROVE  ContentIsSound'
  <1>0. taken \in Seq(1..MaxFrames) /\ FileTypeOK /\ ContentIsSound /\ AnswerIsSound
    BY DEF FileIsSound, FileTypeOK, TypeOK
  <1>1. state'.receivedChunks <= Len(taken')
    BY CountStep
  <1>3. Handled' = {} => state' = NoFile
    <2>1. CASE Handles
      <3>1. Handling
        BY <2>1, HandlesAre
      <3>2. /\ Len(taken') = Len(taken) + 1 /\ taken'[Len(taken) + 1] = Head(frameCh)
            /\ \A k \in 1..Len(taken) : taken[k] < Head(frameCh)
            /\ regOK' = regOK /\ result = "none" /\ Head(frameCh) \in Nat
        BY <3>1, HandlingTakes DEF FileIsSound
      <3>3. Head(frameCh) > regOK
        <4>1. PICK k \in 1..Len(taken) : taken[k] = regOK
          BY <1>0, <3>2 DEF AnswerIsSound
        <4>2. regOK < Head(frameCh) /\ regOK \in Nat
          BY <1>0, <3>2, <4>1 DEF FileTypeOK, TypeOK
        <4> QED BY <3>2, <4>2
      <3>4. Len(taken) + 1 \in 1..Len(taken')
        BY <1>0, <3>2
      <3>5. Len(taken) + 1 \in Handled'
        BY <3>2, <3>3, <3>4 DEF Handled
      <3> QED BY <3>5
    <2>2. CASE ~Handles
      <3>1. CASE state' = NoFile
        BY <3>1
      <3>2. CASE taken' = taken /\ regOK' = regOK /\ state' = state
        BY <1>0, <3>2 DEF ContentIsSound, Handled
      <3> QED BY <2>2, <3>1, <3>2, OthersKeep
    <2> QED BY <2>1, <2>2
  <1>2. ASSUME NEW a \in 1..MaxAttempts
        PROVE  ContentIsOf(a)'
    <2> SUFFICES ASSUME From(a)'
                 PROVE  LET c == state'.content IN
           /\ state'.receivedChunks = Len(c)
           /\ ~state'.file => c = <<>>
           /\ c # <<>> => /\ taken' # <<>> /\ taken'[Len(taken')] > regOK'
                          /\ c[Len(c)][2] < Position(log'[taken'[Len(taken')]])
           /\ \A k \in 1..Len(c) : c[k][1] = a /\ c[k][2] < total
           /\ \A j, k \in 1..Len(c) : j <= k => k - j <= c[k][2] - c[j][2]
           /\ result' = "received" /\ a \notin truncated' => Len(c) = total
      BY TakenStays DEF ContentIsOf, Position
    <2>1. CASE Handles
      <3>1. Handling
        BY <2>1, HandlesAre
      <3>2. /\ Len(taken') = Len(taken) + 1 /\ taken'[Len(taken) + 1] = Head(frameCh)
            /\ log' = log /\ truncated' = truncated /\ regOK' = regOK
        BY <3>1, HandlingTakes DEF FileIsSound
      <3>3. taken' # <<>>
        <4>1. Len(taken') # 0
          BY <1>0, <3>2
        <4> QED BY <4>1
      <3>4. log'[taken'[Len(taken')]] = log[Head(frameCh)]
        BY <3>2
      <3>5. Head(frameCh) > regOK
        BY <3>1, TakenOfOneAttempt
      <3>6. taken'[Len(taken')] = Head(frameCh)
        BY <3>2
      <3> QED BY <2>1, <3>2, <3>3, <3>4, <3>5, <3>6, ContentNext
    <2>2. CASE ~Handles
      <3>5. CASE state' = NoFile /\ result' # "received"
        BY <3>5 DEF NoFile
      <3>6. CASE /\ state' = state /\ taken' = taken /\ regOK' = regOK
                 /\ (result' = "received" => result = "received")
        <4>2. From(a)
          BY <3>6, TakenStays DEF From, Handled
        <4>3. taken # <<>> => log'[taken'[Len(taken')]] = log[taken[Len(taken)]]
          <5>1. taken # <<>> => Len(taken) \in 1..Len(taken)
            BY <1>0
          <5> QED BY <3>6, <5>1, TakenStays
        <4>4. truncated \subseteq truncated'
          BY TakenStays
        <4> QED BY <1>0, <3>6, <4>2, <4>3, <4>4 DEF ContentIsSound, ContentIsOf
      <3> QED BY <2>2, <3>5, <3>6, OthersKeep
    <2> QED BY <2>1, <2>2
  <1> QED BY <1>1, <1>2, <1>3 DEF ContentIsSound

\* The server answers once, and waitForFrame ends with the answer.
LEMMA AnswerStep ==
    ASSUME FileIsSound, FileNext
    PROVE  AnswerIsSound'
  <1>0. /\ FileTypeOK /\ SessionInvariant /\ TakenInOrder /\ AnswerIsSound /\ FramesAreOfFile
        /\ total \in Nat /\ log \in Seq(FileFrames) /\ old \in Seq(FileFrames)
        /\ taken \in Seq(1..MaxFrames) /\ Len(log) = sent /\ regOK \in 0..Len(log)
        /\ Len(log) \in Nat /\ MaxAttempts \in Nat
    BY TotalIsNat, SessionAssumption, FileAssumption DEF FileIsSound, FileTypeOK, TypeOK
  <1>1. \A i \in 1..Len(log') : log'[i].type = "RegOK" <=> i = regOK'
    <2>1. CASE AnswerReceiver
      <3>1. /\ Len(log') = Len(log) + 1 /\ log'[Len(log) + 1] = RegOK
            /\ \A i \in 1..Len(log) : log'[i] = log[i]
            /\ regOK = 0 /\ regOK' = Len(log) + 1
        BY <1>0, <2>1, RegOKIsFrame, AppendIs DEF AnswerReceiver, PeerSends
      <3>2. \A i \in 1..Len(log') : \/ i \in 1..Len(log) /\ log'[i] = log[i] /\ i # Len(log) + 1
                                    \/ i = Len(log) + 1 /\ log'[i] = RegOK
        BY <1>0, <3>1
      <3>3. \A i \in 1..Len(log) : log[i].type # "RegOK"
        BY <1>0, <3>1 DEF AnswerIsSound
      <3> QED BY <1>0, <3>1, <3>2, <3>3, RegOKIsFrame
    <2>2. CASE Send \/ ReadFails \/ OldHandler
      <3>1. PICK f \in FileFrames : Relay(f) /\ f.type # "RegOK"
        <4>1. CASE Send
          BY <1>0, <4>1, PieceIsFrame DEF Send, Sending
        <4>2. CASE ReadFails
          BY <1>0, <4>2, EndIsFrame DEF ReadFails, Sending
        <4>3. CASE OldHandler
          <5>1. old # <<>> /\ Relay(Head(old)) /\ Head(old) = old[1] /\ 1 \in 1..Len(old)
                /\ Head(old) \in FileFrames
            BY <1>0, <4>3, TailIs DEF OldHandler
          <5> QED BY <1>0, <5>1 DEF AnswerIsSound
        <4> QED BY <2>2, <4>1, <4>2, <4>3
      <3>2. regOK' = regOK
        BY <2>2 DEF Send, ReadFails, OldHandler
      <3>3. \A i \in 1..Len(log') : \/ i \in 1..Len(log) /\ log'[i] = log[i]
                                    \/ i = Len(log) + 1 /\ log'[i] = f
        BY <1>0, <3>1, RelayAppends
      <3> QED BY <1>0, <3>1, <3>2, <3>3 DEF AnswerIsSound
    <2>3. CASE ~(AnswerReceiver \/ Send \/ ReadFails \/ OldHandler)
      <3>1. log' = log /\ regOK' = regOK
        <4>1. CASE Pair \/ Finish \/ Break
          BY <4>1 DEF Pair, Finish, Break
        <4>2. CASE Handles \/ Waits
          BY <1>0, <4>2, HandlesAre, WaitsAre, HandlingTakes
        <4>3. CASE GivesUp \/ PumpOrOwner
          BY <4>3, GivesUpLeaves, PumpLeaves
        <4> QED BY <2>3, <4>1, <4>2, <4>3, FileSteps DEF Sends
      <3> QED BY <1>0, <3>1 DEF AnswerIsSound
    <2> QED BY <2>1, <2>2, <2>3
  <1>2. \A j \in 1..Len(old') : old'[j].type # "RegOK"
    <2> DEFINE leave == FileFrame("PeerLeave", 0)
    <2>1. CASE Finish
      <3>1. old' = Append(old, leave) /\ leave \in FileFrames /\ leave.type = "PeerLeave"
        BY <1>0, <2>1, LeaveIsFrame DEF Finish, Sending
      <3> HIDE DEF leave
      <3>2. \A j \in 1..Len(old') : old'[j] = leave \/ (j \in 1..Len(old) /\ old'[j] = old[j])
        BY <1>0, <3>1, AppendIs
      <3> QED BY <1>0, <3>1, <3>2 DEF AnswerIsSound
    <2>2. CASE Break
      <3>1. attempt <= MaxAttempts /\ next \in 0..(total + 1)
        BY <1>0, <2>2 DEF Break, Sending
      <3>2. /\ leave \in FileFrames /\ leave.type = "PeerLeave"
            /\ Piece \in FileFrames /\ Piece.type # "RegOK"
        BY <1>0, <3>1, LeaveIsFrame, PieceIsFrame
      <3>3. PICK hand \in {<<>>, <<Piece>>} : old' = old \o hand \o <<leave>>
        BY <2>2 DEF Break
      <3> HIDE DEF leave
      <3> DEFINE o == old \o hand
      <3>4. o \in Seq(FileFrames) /\ \A j \in 1..Len(o) : o[j].type # "RegOK"
        <4>1. CASE hand = <<>>
          <5>1. o = old
            BY <1>0, <3>2, <4>1, ConcatIs
          <5> QED BY <1>0, <5>1 DEF AnswerIsSound
        <4>2. CASE hand = <<Piece>>
          <5>1. o = Append(old, Piece)
            BY <1>0, <3>2, <4>2, ConcatIs
          <5>2. \A j \in 1..Len(o) : o[j] = Piece \/ (j \in 1..Len(old) /\ o[j] = old[j])
            BY <1>0, <3>2, <5>1, AppendIs
          <5>3. o \in Seq(FileFrames)
            BY <1>0, <3>2, <5>1, AppendIs
          <5> QED BY <1>0, <3>2, <5>2, <5>3 DEF AnswerIsSound
        <4> QED BY <3>3, <4>1, <4>2
      <3>5. old' = o \o <<leave>>
        BY <3>3
      <3> HIDE DEF o
      <3>6. old' = Append(o, leave)
        BY <3>2, <3>4, <3>5, ConcatIs
      <3>7. \A j \in 1..Len(old') : old'[j] = leave \/ (j \in 1..Len(o) /\ old'[j] = o[j])
        BY <3>2, <3>4, <3>6, AppendIs
      <3> QED BY <3>2, <3>4, <3>7
    <2>3. CASE OldHandler
      <3>1. old # <<>> /\ old' = Tail(old)
        BY <2>3 DEF OldHandler
      <3>2. \A j \in 1..Len(old') : old'[j] = old[j + 1] /\ j + 1 \in 1..Len(old)
        BY <1>0, <3>1, TailIs
      <3> QED BY <1>0, <3>2 DEF AnswerIsSound
    <2>4. CASE ~(Finish \/ Break \/ OldHandler)
      <3>1. old' = old
        <4>1. CASE Pair \/ AnswerReceiver \/ Send \/ ReadFails
          BY <4>1 DEF Pair, AnswerReceiver, Send, ReadFails
        <4>2. CASE Handles \/ Waits
          BY <1>0, <4>2, HandlesAre, WaitsAre, HandlingTakes
        <4>3. CASE GivesUp \/ PumpOrOwner
          BY <4>3, GivesUpLeaves, PumpLeaves
        <4> QED BY <2>4, <4>1, <4>2, <4>3, FileSteps DEF Sends
      <3> QED BY <1>0, <3>1 DEF AnswerIsSound
    <2> QED BY <2>1, <2>2, <2>3, <2>4
  <1>3. (regOK' > 0 \/ paired') => registered'
    <2>1. CASE Pair
      BY <2>1 DEF Pair
    <2>2. CASE AnswerReceiver
      BY <2>2 DEF AnswerReceiver
    <2>3. CASE OldHandler
      BY <1>0, <2>3 DEF OldHandler, AnswerIsSound
    <2>4. CASE ~(Pair \/ AnswerReceiver \/ OldHandler)
      <3>1. UNCHANGED <<regOK, paired, registered>>
        <4>1. CASE Send \/ ReadFails \/ Finish \/ Break
          BY <4>1 DEF Send, ReadFails, Finish, Break
        <4>2. CASE Handles \/ Waits
          BY <1>0, <4>2, HandlesAre, WaitsAre, HandlingTakes
        <4>3. CASE GivesUp \/ PumpOrOwner
          BY <4>3, GivesUpLeaves, PumpLeaves
        <4> QED BY <2>4, <4>1, <4>2, <4>3, FileSteps DEF Sends
      <3> QED BY <1>0, <3>1 DEF AnswerIsSound
    <2> QED BY <2>1, <2>2, <2>3, <2>4
  <1>4. /\ regOK' = 0 => state' = NoFile /\ result' \in {"register", "failed"}
        /\ result' = "register" => state' = NoFile /\ \A k \in 1..Len(taken') : taken'[k] # regOK'
        /\ result' \notin {"register", "failed"} => \E k \in 1..Len(taken') : taken'[k] = regOK'
    <2>1. CASE Handles
      <3>1. Handling
        BY <2>1, HandlesAre
      <3>2. /\ Len(taken') = Len(taken) + 1 /\ regOK' = regOK /\ result = "none"
            /\ \A k \in 1..Len(taken) : taken'[k] = taken[k] /\ taken[k] < Head(frameCh)
            /\ Len(taken) \in Nat
        BY <1>0, <3>1, HandlingTakes
      <3>3. PICK k \in 1..Len(taken) : taken[k] = regOK
        BY <1>0, <3>2 DEF AnswerIsSound
      <3>4. k \in 1..Len(taken') /\ taken'[k] = regOK'
        BY <3>2, <3>3
      <3>5. regOK' # 0
        BY <1>0, <3>2 DEF AnswerIsSound
      <3>6. result' # "register"
        BY <1>0, <2>1, <3>2, HandlesDo
      <3> QED BY <3>4, <3>5, <3>6
    <2>2. CASE Waits
      <3> DEFINE h == Head(frameCh)
      <3>1. /\ Waiting
            /\ \/ result' = result /\ log[h].type # "RegOK"
               \/ result' = "none" /\ log[h].type = "RegOK"
        BY <2>2, WaitsAre
      <3>2. /\ Len(taken') = Len(taken) + 1 /\ taken'[Len(taken) + 1] = h /\ h \in 1..Len(log)
            /\ \A k \in 1..Len(taken) : taken'[k] = taken[k]
            /\ Len(taken) \in Nat /\ regOK' = regOK /\ result = "register" /\ state' = state
        BY <1>0, <3>1, HandlingTakes
      <3> HIDE DEF h
      <3>3. log[h].type = "RegOK" <=> h = regOK
        BY <1>0, <3>2 DEF AnswerIsSound
      <3>4. state' = NoFile /\ \A k \in 1..Len(taken) : taken[k] # regOK
        BY <1>0, <3>2 DEF AnswerIsSound
      <3>5. \A k \in 1..Len(taken') : k \in 1..Len(taken) \/ k = Len(taken) + 1
        BY <3>2
      <3>6. Len(taken) + 1 \in 1..Len(taken')
        BY <3>2
      <3>7. CASE result' = "none" /\ h = regOK
        BY <3>2, <3>4, <3>6, <3>7
      <3>8. CASE result' = "register" /\ h # regOK
        BY <3>2, <3>4, <3>5, <3>8
      <3> QED BY <3>1, <3>2, <3>3, <3>7, <3>8
    <2>3. CASE Sends
      <3>1. UNCHANGED <<taken, state, result>>
        BY <2>3, SendersLeave
      <3>2. CASE regOK' = regOK
        BY <1>0, <3>1, <3>2 DEF AnswerIsSound
      <3>3. CASE AnswerReceiver
        <4>1. regOK = 0 /\ regOK' = Len(log) + 1
          BY <1>0, <3>3 DEF AnswerReceiver, PeerSends
        <4>2. \A k \in 1..Len(taken) : taken[k] \in 1..Len(log)
          BY TakenStays
        <4> QED BY <1>0, <3>1, <4>1, <4>2 DEF AnswerIsSound
      <3> QED BY <2>3, <3>2, <3>3, SendersAnswerOnce
    <2>4. CASE GivesUp
      <3>1. /\ UNCHANGED <<taken, state, regOK>>
            /\ \/ result = "none" /\ result' = "closed"
               \/ result = "register" /\ result' = "failed"
        BY <2>4, GivesUpLeaves
      <3> QED BY <1>0, <3>1 DEF AnswerIsSound
    <2>5. CASE PumpOrOwner
      BY <1>0, <2>5, PumpLeaves DEF AnswerIsSound
    <2> QED BY <2>1, <2>2, <2>3, <2>4, <2>5, FileSteps
  <1> QED BY <1>1, <1>2, <1>3, <1>4 DEF AnswerIsSound

\* A sender on its first connection skips no frame, and what its handler has in hand
\* when the connection breaks is the next one.
LEMMA SkipStep ==
    ASSUME FileIsSound, FileNext
    PROVE  NothingIsSkipped'
  <1>0. /\ log \in Seq(FileFrames) /\ old \in Seq(FileFrames) /\ total \in Nat
        /\ attempt \in 1..(MaxAttempts + 1) /\ next \in 0..(total + 2) /\ paired \in BOOLEAN
        /\ FileTypeOK /\ NothingIsSkipped /\ FramesAreOrdered /\ MaxAttempts \in Nat \ {0}
        /\ AnswerIsSound /\ regOK \in 0..Len(log) /\ Len(log) \in Nat /\ regOK \in Nat
    BY TotalIsNat, FileAssumption DEF FileIsSound, FileTypeOK
  <1>1. CASE Send \/ ReadFails
    <2>1. PICK f \in FileFrames :
              /\ Relay(f) /\ f.attempt = attempt /\ Position(f) = next
              /\ f.type = "FileMeta" => next = 0
              /\ f.type # "RegOK"
              /\ next' = next + 1 \/ next' = total + 2
      <3>1. CASE Send
        <4>1. Relay(Piece) /\ attempt <= MaxAttempts /\ next \in 0..(total + 1) /\ next' = next + 1
          BY <3>1 DEF Send, Sending
        <4> QED BY <1>0, <4>1, PieceIsFrame
      <3>2. CASE ReadFails
        <4>1. /\ Relay(FileFrame("FileEnd", next - 1)) /\ attempt <= MaxAttempts /\ next \in 1..total
              /\ next' = total + 2
          BY <3>2 DEF ReadFails, Sending
        <4> QED BY <1>0, <4>1, EndIsFrame
      <3> QED BY <1>1, <3>1, <3>2
    <2>2. UNCHANGED <<total, attempt, old, paired, registered, regOK>> /\ next \in 0..(total + 1)
      BY <1>0, <1>1 DEF Send, ReadFails
    <2>3. CASE log' = log
      <3>1. ~Straight \/ attempt # 1
        <4>1. ~paired
          BY <1>0, <2>1, <2>3, RelayAppends
        <4> QED BY <1>0, <4>1 DEF NothingIsSkipped, AnswerIsSound, Straight
      <3> QED BY <1>0, <2>2, <2>3, <3>1 DEF NothingIsSkipped, Straight, FromFirst, Position
    <2>4. CASE paired /\ log' = Append(log, f)
      <3>1. /\ Len(log') = Len(log) + 1 /\ log'[Len(log) + 1] = f
            /\ \A i \in 1..Len(log) : log'[i] = log[i]
        BY <1>0, <2>1, <2>4, AppendIs
      <3>2. Len(log) \in Nat
        BY <1>0
      <3>3. CASE attempt = 1
        <4>1. old = <<>>
          BY <1>0, <3>3 DEF NothingIsSkipped
        <4>3. Straight' => next = Len(log) - regOK
          <5>1. CASE Len(log) = regOK
            <6>1. log'[regOK' + 1] = f
              BY <2>2, <3>1, <5>1
            <6> QED BY <1>0, <2>1, <5>1, <6>1 DEF Straight
          <5>2. CASE Len(log) > regOK
            <6>1. log'[regOK + 1] = log[regOK + 1]
              BY <1>0, <3>1, <5>2
            <6> QED BY <1>0, <2>2, <3>3, <5>2, <6>1 DEF Straight, NothingIsSkipped
          <5> QED BY <1>0, <5>1, <5>2
        <4>4. Straight' => (Len(log) > regOK => Straight)
          BY <1>0, <2>2, <3>1 DEF Straight
        <4>5. ASSUME Straight', NEW i \in (regOK + 1)..Len(log'), FromFirst(i)', log'[i].type # "PeerLeave"
              PROVE  Position(log'[i]) = i - 1 - regOK
          <5>1. CASE i <= Len(log)
            <6>1. FromFirst(i)
              BY <1>0, <2>2, <3>1, <4>5, <5>1 DEF FromFirst
            <6>2. i \in (regOK + 1)..Len(log) /\ Len(log) > regOK /\ log'[i] = log[i]
              BY <1>0, <3>1, <5>1
            <6> QED BY <1>0, <4>4, <4>5, <6>1, <6>2 DEF NothingIsSkipped
          <5>2. CASE i = Len(log) + 1
            BY <1>0, <2>1, <3>1, <3>2, <4>3, <4>5, <5>2
          <5> QED BY <1>0, <3>1, <3>2, <5>1, <5>2
        <4>6. Straight' /\ next' <= total + 1 => next' = Len(log') - regOK
          BY <1>0, <2>1, <3>1, <4>3
        <4> QED BY <1>0, <2>2, <2>4, <4>1, <4>5, <4>6 DEF NothingIsSkipped, Position
      <3>4. CASE attempt # 1
        <4>1. ~FromFirst(Len(log))'
          BY <1>0, <2>1, <2>2, <3>1, <3>2, <3>4 DEF FromFirst
        <4>2. Straight' => Straight
          <5>1. CASE Len(log) = regOK
            <6>1. log'[regOK' + 1] = f
              BY <2>2, <3>1, <5>1
            <6> QED BY <2>1, <3>4, <6>1 DEF Straight
          <5>2. CASE Len(log) > regOK
            BY <1>0, <2>2, <3>1, <5>2, SMTT(30) DEF Straight
          <5> QED BY <1>0, <5>1, <5>2
        <4>3. ASSUME Straight', NEW i \in (regOK + 1)..Len(log'), FromFirst(i)', log'[i].type # "PeerLeave"
              PROVE  Position(log'[i]) = i - 1 - regOK
          <5>1. i \in (regOK + 1)..Len(log)
            BY <1>0, <2>1, <2>2, <3>1, <3>2, <3>4, <4>3 DEF FromFirst
          <5>2. FromFirst(i)
            BY <1>0, <2>2, <3>1, <3>2, <4>3, <5>1 DEF FromFirst
          <5>3. log'[i] = log[i]
            BY <1>0, <3>1, <5>1
          <5> QED BY <1>0, <4>2, <4>3, <5>1, <5>2, <5>3 DEF NothingIsSkipped
        <4> QED BY <1>0, <2>2, <3>4, <4>1, <4>3 DEF NothingIsSkipped, Position
      <3> QED BY <3>3, <3>4
    <2> QED BY <1>0, <2>1, <2>3, <2>4, RelayAppends
  <1>2. CASE Finish \/ Break
    <2>1. /\ UNCHANGED <<total, paired, registered, regOK, log>> /\ attempt <= MaxAttempts
          /\ attempt' = MaxAttempts + 1 \/ attempt' = attempt + 1
      BY <1>2 DEF Finish, Break, Sending
    <2>2. attempt' # 1
      BY <1>0, <2>1
    <2>3. ASSUME Straight, FromFirst(Len(log)), old' # <<>>, old'[1].attempt = 1, old'[1].type # "PeerLeave"
          PROVE  Position(old'[1]) = Len(log) - regOK
      <3>1. CASE old = <<>>
        <4>1. FileFrame("PeerLeave", 0).type = "PeerLeave" /\ FileFrame("PeerLeave", 0) \in FileFrames
          BY <1>0, <2>1, LeaveIsFrame
        <4>2. ~Finish
          BY <2>3, <3>1, <4>1 DEF Finish
        <4>3. attempt <= MaxAttempts /\ next \in 0..(total + 1)
          BY <1>0, <1>2, <2>1, <4>2 DEF Break
        <4>4. Piece \in FileFrames /\ Piece.attempt = attempt /\ Position(Piece) = next
          BY <1>0, <4>3, PieceIsFrame
        <4>5. PICK hand \in {<<>>, <<Piece>>} : old' = old \o hand \o <<FileFrame("PeerLeave", 0)>>
          BY <1>2, <4>2 DEF Break
        <4>6. hand = <<Piece>> /\ old'[1] = Piece
          <5>1. hand = <<>> \/ hand = <<Piece>>
            BY <4>5
          <5>2. hand = <<>> => old' = <<FileFrame("PeerLeave", 0)>>
            BY <3>1, <4>5
          <5>3. hand = <<Piece>> => old'[1] = Piece
            BY <3>1, <4>1, <4>4, <4>5, TwoIs
          <5> QED BY <2>3, <4>1, <5>1, <5>2, <5>3
        <4>7. attempt = 1
          BY <2>3, <4>4, <4>6
        <4> QED BY <1>0, <2>3, <4>3, <4>4, <4>6, <4>7 DEF NothingIsSkipped
      <3>2. CASE old # <<>>
        <4>1. old'[1] = old[1]
          <5>1. CASE Finish
            <6>1. old' = Append(old, FileFrame("PeerLeave", 0)) /\ 1 \in 1..Len(old)
              BY <1>0, <3>2, <5>1 DEF Finish
            <6>2. FileFrame("PeerLeave", 0) \in FileFrames
              BY <1>0, <2>1, LeaveIsFrame
            <6> QED BY <1>0, <6>1, <6>2, AppendIs
          <5>2. CASE Break
            <6>1. PICK hand \in {<<>>, <<Piece>>} : old' = old \o hand \o <<FileFrame("PeerLeave", 0)>>
              BY <5>2 DEF Break
            <6>2. Piece \in FileFrames /\ FileFrame("PeerLeave", 0) \in FileFrames
              BY <1>0, <2>1, <5>2, PieceIsFrame, LeaveIsFrame DEF Break
            <6>3. hand \in Seq(FileFrames) /\ <<FileFrame("PeerLeave", 0)>> \in Seq(FileFrames)
              <7>1. hand = <<>> \/ hand = <<Piece>>
                BY <6>1
              <7>2. <<>> \in Seq(FileFrames) /\ <<Piece>> \in Seq(FileFrames)
                BY <6>2
              <7>3. <<FileFrame("PeerLeave", 0)>> \in Seq(FileFrames)
                BY <6>2
              <7> QED BY <7>1, <7>2, <7>3
            <6> QED BY <1>0, <3>2, <6>1, <6>3
          <5> QED BY <1>2, <5>1, <5>2
        <4> QED BY <1>0, <2>3, <3>2, <4>1 DEF NothingIsSkipped
      <3> QED BY <3>1, <3>2
    <2>4. ASSUME NEW j \in 2..Len(old'), old'[j].attempt = 1
          PROVE  old'[j].type = "PeerLeave"
      <3>1. attempt = 1 => old = <<>>
        BY <1>0 DEF NothingIsSkipped
      <3> DEFINE leave == FileFrame("PeerLeave", 0)
      <3>2. leave \in FileFrames /\ leave.type = "PeerLeave" /\ leave.attempt = attempt
        BY <1>0, <2>1, LeaveIsFrame
      <3> HIDE DEF leave
      <3>3. \/ old' = Append(old, leave)
            \/ Piece \in FileFrames /\ Piece.attempt = attempt /\ old' = Append(Append(old, Piece), leave)
        <4>1. CASE Finish
          BY <4>1 DEF Finish, leave
        <4>2. CASE Break
          <5>1. PICK hand \in {<<>>, <<Piece>>} : old' = old \o hand \o <<leave>>
            BY <4>2 DEF Break, leave
          <5>2. hand = <<>> \/ hand = <<Piece>>
            BY <5>1
          <5>3. Piece \in FileFrames /\ Piece.attempt = attempt
            BY <1>0, <2>1, <4>2, PieceIsFrame DEF Break
          <5>4. old \o <<>> = old /\ old \o <<Piece>> = Append(old, Piece) /\ Append(old, Piece) \in Seq(FileFrames)
            BY <1>0, <5>3, ConcatIs, AppendIs
          <5>5. old \o <<leave>> = Append(old, leave) /\ Append(old, Piece) \o <<leave>> = Append(Append(old, Piece), leave)
            BY <1>0, <3>2, <5>4, ConcatIs
          <5> QED BY <5>1, <5>2, <5>3, <5>4, <5>5
        <4> QED BY <1>2, <4>1, <4>2
      <3>4. CASE old' = Append(old, leave)
        <4>1. (j \in 1..Len(old) /\ old'[j] = old[j]) \/ old'[j] = leave
          BY <1>0, <3>2, <3>4, AppendIs
        <4> QED BY <1>0, <2>4, <3>2, <4>1 DEF NothingIsSkipped
      <3>5. CASE Piece \in FileFrames /\ Piece.attempt = attempt /\ old' = Append(Append(old, Piece), leave)
        <4> DEFINE o == Append(old, Piece)
        <4>1. /\ o \in Seq(FileFrames) /\ Len(o) = Len(old) + 1 /\ o[Len(old) + 1] = Piece
              /\ \A k \in 1..Len(old) : o[k] = old[k]
          BY <1>0, <3>5, AppendIs
        <4> HIDE DEF o
        <4>2. (j \in 1..Len(o) /\ old'[j] = o[j]) \/ old'[j] = leave
          BY <3>2, <3>5, <4>1, AppendIs DEF o
        <4>3. Len(old) \in Nat /\ j \in Nat /\ j >= 2
          BY <1>0
        <4>4. CASE j \in 1..Len(old) /\ old'[j] = old[j]
          BY <1>0, <2>4, <4>3, <4>4 DEF NothingIsSkipped
        <4>5. CASE j = Len(old) + 1 /\ old'[j] = Piece
          <5>1. Len(old) = 0
            BY <1>0, <2>4, <3>1, <3>5, <4>5
          <5> QED BY <4>3, <4>5, <5>1
        <4> QED BY <3>2, <4>1, <4>2, <4>3, <4>4, <4>5
      <3> QED BY <3>3, <3>4, <3>5
    <2> QED BY <1>0, <2>1, <2>2, <2>3, <2>4 DEF NothingIsSkipped, Straight, FromFirst, Position
  <1>3. CASE OldHandler
    <2> DEFINE f == Head(old)
    <2>1. old # <<>> /\ Relay(f) /\ old' = Tail(old)
      BY <1>3 DEF OldHandler
    <2>2. /\ f = old[1] /\ f \in FileFrames /\ Len(old') = Len(old) - 1
          /\ \A j \in 1..Len(old') : old'[j] = old[j + 1] /\ j + 1 \in 2..Len(old)
          /\ Len(old') \in Nat
      BY <1>0, <2>1, TailIs
    <2> HIDE DEF f
    <2>3. UNCHANGED <<total, attempt, next, registered, regOK>> /\ attempt # 1
      BY <1>0, <1>3, <2>1 DEF OldHandler, senderVars, NothingIsSkipped
    <2>4. \A j \in 1..Len(old') : old'[j].attempt = 1 => old'[j].type = "PeerLeave"
      BY <1>0, <2>2 DEF NothingIsSkipped
    <2>5. /\ old' # <<>> /\ old'[1].attempt = 1 => old'[1].type = "PeerLeave"
          /\ \A j \in 2..Len(old') : old'[j].attempt = 1 => old'[j].type = "PeerLeave"
      <3>1. old' # <<>> => 1 \in 1..Len(old')
        BY <1>0, <2>1, <2>2
      <3>2. \A j \in 2..Len(old') : j \in 1..Len(old')
        BY <2>2
      <3> QED BY <2>4, <3>1, <3>2
    <2>6. CASE log' = log
      <3>1. Straight' => \A i \in (regOK + 1)..Len(log') :
               FromFirst(i)' /\ log'[i].type # "PeerLeave" => Position(log'[i]) = i - 1 - regOK
        BY <1>0, <2>3, <2>6 DEF NothingIsSkipped, Straight, FromFirst
      <3> QED BY <2>3, <2>5, <3>1 DEF NothingIsSkipped, Position
    <2>7. CASE log' = Append(log, f)
      <3>1. /\ Len(log') = Len(log) + 1 /\ log'[Len(log) + 1] = f /\ Len(log) \in Nat
            /\ \A i \in 1..Len(log) : log'[i] = log[i]
        BY <1>0, <2>2, <2>7, AppendIs
      <3>2. CASE Len(log) = regOK
        <4>1. Len(log') = regOK + 1
          BY <3>1, <3>2
        <4>2. Straight' => Position(log'[regOK + 1]) = 0
          BY <2>3 DEF Straight, Position
        <4>3. \A i \in (regOK + 1)..Len(log') : i = regOK + 1
          BY <1>0, <4>1
        <4>4. Straight' => \A i \in (regOK + 1)..Len(log') : Position(log'[i]) = i - 1 - regOK
          BY <1>0, <4>2, <4>3
        <4> QED BY <2>3, <2>5, <4>4 DEF NothingIsSkipped, Position
      <3>3. CASE Len(log) > regOK
        <4>1. Straight' => Straight
          BY <1>0, <2>3, <3>1, <3>3 DEF Straight
        <4>2. ASSUME Straight', NEW i \in (regOK + 1)..Len(log'), FromFirst(i)', log'[i].type # "PeerLeave"
              PROVE  Position(log'[i]) = i - 1 - regOK
          <5>1. CASE i <= Len(log)
            <6>1. FromFirst(i)
              BY <1>0, <2>3, <3>1, <4>2, <5>1 DEF FromFirst
            <6>2. i \in (regOK + 1)..Len(log) /\ log'[i] = log[i]
              BY <1>0, <3>1, <5>1
            <6> QED BY <1>0, <4>1, <4>2, <6>1, <6>2 DEF NothingIsSkipped
          <5>2. CASE i = Len(log) + 1
            <6>1. FromFirst(Len(log))
              BY <1>0, <2>3, <3>1, <4>2, <5>2 DEF FromFirst
            <6>2. log'[i] = old[1] /\ old[1].attempt = 1
              BY <1>0, <2>2, <2>3, <3>1, <4>2, <5>2 DEF FromFirst
            <6>3. Position(old[1]) = Len(log) - regOK
              BY <1>0, <2>1, <4>1, <4>2, <6>1, <6>2 DEF NothingIsSkipped
            <6> QED BY <1>0, <3>1, <5>2, <6>2, <6>3
          <5> QED BY <1>0, <3>1, <5>1, <5>2
        <4> QED BY <2>3, <2>5, <4>2 DEF NothingIsSkipped, Position
      <3> QED BY <1>0, <3>2, <3>3
    <2> QED BY <1>0, <2>1, <2>2, <2>6, <2>7, RelayAppends
  <1>5. CASE AnswerReceiver
    <2>1. /\ UNCHANGED <<total, attempt, next, old, paired, registered>>
          /\ log' = Append(log, RegOK) /\ regOK' = sent' /\ sent' = sent + 1
      BY <1>5 DEF AnswerReceiver, PeerSends, senderVars
    <2>2. Len(log') = regOK'
      BY <1>0, <2>1, RegOKIsFrame, AppendIs DEF FileTypeOK
    <2>3. ~Straight'
      <3>1. regOK' = Len(log) + 1
        BY <1>0, <2>1 DEF FileTypeOK
      <3> QED BY <1>0, <2>2, <3>1 DEF Straight
    <2> QED BY <1>0, <2>1, <2>3 DEF NothingIsSkipped
  <1>4. CASE ~(AnswerReceiver \/ Send \/ ReadFails \/ Finish \/ Break \/ OldHandler)
    <2>1. /\ UNCHANGED <<total, attempt, next, old, log, regOK>>
          /\ UNCHANGED <<registered, paired>> \/ paired'
      <3>1. CASE Handles \/ Waits
        BY <1>0, <3>1, HandlesAre, WaitsAre, HandlingTakes DEF FileIsSound
      <3>2. CASE GivesUp
        BY <3>2, GivesUpLeaves
      <3>3. CASE PumpOrOwner
        BY <3>3, PumpLeaves
      <3>4. CASE Pair
        BY <3>4 DEF Pair, senderVars
      <3> QED BY <1>4, <3>1, <3>2, <3>3, <3>4, FileSteps DEF Sends
    <2> QED BY <1>0, <2>1 DEF NothingIsSkipped, Straight, FromFirst, Position
  <1> QED BY <1>1, <1>2, <1>3, <1>4, <1>5

\* A receiver that has got all of the first attempt so far has counted all of it.
LEMMA CountedSoFar ==
    ASSUME FileIsSound, FileNext, Handles, From(1)', log[regOK + 1].type = "FileMeta",
           \A k \in 1..Len(taken) : taken[k] = k, Head(frameCh) = Len(taken) + 1
    PROVE  LET f == log[Head(frameCh)] IN
           /\ regOK <= Len(taken) /\ regOK > 0
           /\ f.type = "FileMeta" <=> Len(taken) = regOK
           /\ Len(taken) > regOK => state.file /\ state.receivedChunks = Len(taken) - 1 - regOK
           /\ f.type # "PeerLeave" => Position(f) = Len(taken) - regOK
  <1> DEFINE f == log[Head(frameCh)]
             m == Len(taken)
  <1>0. /\ FileTypeOK /\ SessionInvariant /\ TakenInOrder /\ total \in Nat /\ m \in Nat
        /\ log \in Seq(FileFrames) /\ NothingIsSkipped /\ NothingIsUncounted /\ 1 \in 1..MaxAttempts
        /\ AnswerIsSound /\ regOK \in Nat
    BY TotalIsNat, FileAssumption, SessionAssumption DEF FileIsSound, FileTypeOK, TypeOK
  <1>1. Handling
    BY HandlesAre
  <1>2. /\ m + 1 \in 1..Len(log) /\ f = log[m + 1] /\ result = "none" /\ f \in FileFrames
    BY <1>0, <1>1, HandlingTakes
  <1>3. /\ From(1) /\ f.attempt = 1
        /\ \A k \in Handled : Position(log[k]) \in Nat /\ Position(log[k]) < Position(f)
    <2>1. \A k \in Handled : log[taken[k]] = log[k]
      BY DEF Handled
    <2> QED BY <1>1, <2>1, TakenOfOneAttempt
  <1> HIDE DEF f
  <1>4. regOK \in 1..m
    <2>1. PICK k \in 1..Len(taken) : taken[k] = regOK
      BY <1>0, <1>2 DEF AnswerIsSound
    <2>2. k = regOK
      BY <2>1
    <2> QED BY <2>1, <2>2
  <1>5. /\ \A k \in (regOK + 1)..m : k \in Handled /\ log[k].attempt = 1
        /\ m > regOK => m \in Handled
    <2>1. \A k \in (regOK + 1)..m : k \in 1..Len(taken) /\ taken[k] = k /\ k > regOK
      BY <1>0, <1>4
    <2>2. \A k \in (regOK + 1)..m : k \in Handled
      BY <2>1 DEF Handled
    <2>3. m > regOK => m \in (regOK + 1)..m
      BY <1>0
    <2> QED BY <1>3, <2>1, <2>2, <2>3 DEF From
  <1>6. FromFirst(m + 1) /\ Straight
    <2>1. \A k \in (regOK + 1)..(m + 1) : k \in (regOK + 1)..m \/ k = m + 1
      BY <1>0
    <2>2. FromFirst(m + 1)
      BY <1>2, <1>3, <1>5, <2>1 DEF FromFirst
    <2>3. regOK + 1 \in (regOK + 1)..(m + 1) /\ Len(log) > regOK /\ regOK > 0
      BY <1>0, <1>2, <1>4
    <2> QED BY <2>2, <2>3 DEF Straight, FromFirst
  <1>7. f.type # "PeerLeave" => Position(f) = m - regOK
    <2>1. m + 1 \in (regOK + 1)..Len(log)
      BY <1>0, <1>2, <1>4
    <2>2. f.type # "PeerLeave" => Position(log[m + 1]) = (m + 1) - 1 - regOK
      BY <1>0, <1>2, <1>6, <2>1 DEF NothingIsSkipped
    <2> QED BY <1>0, <1>2, <2>2
  <1>8. f.type = "FileMeta" <=> m = regOK
    <2>1. CASE m = regOK
      BY <1>2, <2>1
    <2>2. CASE m > regOK
      <3>1. Position(f) # 0
        BY <1>3, <1>5, <2>2
      <3> QED BY <1>0, <2>2, <3>1 DEF Position
    <2> QED BY <1>0, <1>4, <2>1, <2>2
  <1>9. ASSUME m > regOK
        PROVE  state.file /\ state.receivedChunks = m - 1 - regOK
    <2>1. log[m].type # "PeerLeave"
      <3>1. Position(log[m]) < Position(f)
        BY <1>3, <1>5, <1>9
      <3>2. Position(f) <= total + 2 /\ Position(f) \in Nat
        BY <1>0, <1>2, FrameFields
      <3>3. log[m].type = "PeerLeave" => Position(log[m]) = total + 2
        BY DEF Position
      <3> QED BY <1>0, <3>1, <3>2, <3>3
    <2> QED BY <1>0, <1>2, <1>3, <1>6, <1>9, <2>1 DEF NothingIsUncounted
  <1> QED BY <1>0, <1>4, <1>7, <1>8, <1>9 DEF f

LEMMA UncountedStep ==
    ASSUME FileIsSound, FileNext
    PROVE  NothingIsUncounted'
  <1>0. /\ FileTypeOK /\ SessionInvariant /\ TakenInOrder /\ total \in Nat /\ Len(taken) \in Nat
        /\ taken \in Seq(1..MaxFrames) /\ log \in Seq(FileFrames) /\ NothingIsUncounted
        /\ RangeIsSound /\ ContentIsSound /\ state.receivedChunks \in Nat /\ (late => late')
        /\ AnswerIsSound /\ regOK \in Nat
    BY TotalIsNat, SessionAssumption, SMTT(30) DEF FileIsSound, FileTypeOK, TypeOK, FileNext
  <1>1. CASE Handles
    <2> DEFINE f == log[Head(frameCh)]
    <2>1. Handling
      BY <1>1, HandlesAre
    <2>2. /\ Len(taken') = Len(taken) + 1 /\ taken'[Len(taken) + 1] = Head(frameCh)
          /\ \A k \in 1..Len(taken) : taken'[k] = taken[k]
          /\ log' = log /\ result = "none" /\ consumer = "range" /\ regOK' = regOK
          /\ Head(frameCh) \in 1..Len(log)
          /\ f \in FileFrames
          /\ Head(frameCh) = frameCh[1] /\ frameCh # <<>>
      BY <1>0, <2>1, HandlingTakes
    <2>3. \/ f.type = "FileMeta" /\ result' = result /\ state'.file
             /\ state'.receivedChunks = state.receivedChunks
          \/ f.type = "FileData" /\ result' = result
             /\ (state.file => state'.file /\ state'.receivedChunks = state.receivedChunks + 1)
          \/ f.type = "FileEnd" /\ (result' = "received" \/ (result' = "warning" /\ state.receivedChunks # f.n))
          \/ f.type = "PeerLeave" /\ result' = result
          \/ result' = "failed"
      BY <1>0, <1>1, HandlesDo
    <2> HIDE DEF f
    <2>4. Len(log) > regOK
      <3>1. PICK k \in 1..Len(taken) : taken[k] = regOK
        BY <1>0, <2>2 DEF AnswerIsSound
      <3>2. regOK < Head(frameCh) /\ Head(frameCh) \in Nat
        BY <1>0, <2>1, <3>1, HandlingTakes
      <3> QED BY <1>0, <2>2, <3>2
    <2>5. ASSUME Straight', From(1)', result' = "none", \A k \in 1..Len(taken') : taken'[k] = k
          PROVE  log'[Len(taken')].type = "PeerLeave"
                     \/ (state'.file /\ state'.receivedChunks = Len(taken') - 1 - regOK)
      <3>1. Head(frameCh) = Len(taken) + 1 /\ \A k \in 1..Len(taken) : taken[k] = k
        BY <1>0, <2>2, <2>5
      <3>2. log[regOK + 1].type = "FileMeta" /\ log'[Len(taken')] = f
        BY <2>2, <2>5, <3>1 DEF Straight, f
      <3>3. /\ f.type = "FileMeta" <=> Len(taken) = regOK
            /\ Len(taken) > regOK => state.file /\ state.receivedChunks = Len(taken) - 1 - regOK
            /\ regOK <= Len(taken)
        BY <1>1, <2>5, <3>1, <3>2, CountedSoFar DEF f
      <3>4. Len(taken) = regOK => state.receivedChunks = 0
        <4>1. ASSUME Len(taken) = regOK
              PROVE  Handled = {}
          BY <1>0, <3>1, <4>1 DEF Handled
        <4> QED BY <1>0, <4>1 DEF ContentIsSound, NoFile
      <3>5. Len(taken') - 1 - regOK = Len(taken) - regOK
        BY <1>0, <2>2
      <3>6. CASE Len(taken) = regOK
        <4>1. f.type = "FileMeta" /\ Len(taken) - regOK = 0
          BY <1>0, <3>3, <3>6
        <4> QED BY <2>3, <2>5, <3>4, <3>5, <3>6, <4>1
      <3>7. CASE Len(taken) > regOK
        <4>1. /\ f.type # "FileMeta" /\ state.file
              /\ state.receivedChunks + 1 = Len(taken) - regOK
          BY <1>0, <3>3, <3>7
        <4> QED BY <2>3, <2>5, <3>2, <3>5, <4>1
      <3> QED BY <1>0, <3>3, <3>6, <3>7
    <2>6. ASSUME result' = "warning", ~late', From(1)', log'[regOK' + 1].type = "FileMeta"
          PROVE  FALSE
      <3>1. Complete
        BY <1>0, <2>2, <2>6 DEF RangeIsSound
      <3>2. Head(frameCh) = Len(taken) + 1 /\ \A k \in 1..Len(taken) : taken[k] = k
        <4>1. 1 \in 1..Len(frameCh)
          BY <1>0, <2>2 DEF FileTypeOK, TypeOK
        <4> QED BY <2>2, <3>1, <4>1 DEF Complete
      <3>3. /\ f.type = "FileMeta" <=> Len(taken) = regOK
            /\ Len(taken) > regOK => state.file /\ state.receivedChunks = Len(taken) - 1 - regOK
            /\ f.type # "PeerLeave" => Position(f) = Len(taken) - regOK
            /\ regOK <= Len(taken)
        BY <1>1, <2>2, <2>6, <3>2, CountedSoFar DEF f
      <3>4. f.type = "FileEnd" /\ state.receivedChunks # f.n
        BY <2>2, <2>3, <2>6
      <3>5. f.n + 1 = Len(taken) - regOK /\ f.n \in Nat
        BY <1>0, <2>2, <3>3, <3>4, FrameFields DEF Position
      <3> QED BY <1>0, <3>3, <3>4, <3>5
    <2> QED BY <2>2, <2>4, <2>5, <2>6 DEF NothingIsUncounted, WarningNeedsACause
  <1>2. CASE ~Handles
    <2>1. CASE /\ state' = NoFile /\ result' \notin {"received", "warning", "closed"}
               /\ result' = "none" => /\ Len(taken') \in 1..Len(taken')
                                      /\ taken'[Len(taken')] = regOK'
      BY <2>1 DEF NothingIsUncounted, WarningNeedsACause
    <2>2. CASE /\ state' = state /\ taken' = taken /\ regOK' = regOK
               /\ result' = "none" => result = "none"
               /\ result' = "warning" => result = "warning"
      <3>1. From(1)' => From(1)
        BY <2>2, TakenStays DEF From, Handled
      <3>2. Len(log) \in Nat /\ Len(log') \in Nat /\ Len(log) <= Len(log')
        BY <1>0, TakenStays DEF FileTypeOK
      <3>3. Len(log) > regOK => log'[regOK + 1] = log[regOK + 1]
        <4>1. Len(log) > regOK => regOK + 1 \in 1..Len(log)
          BY <1>0, <3>2
        <4> QED BY <4>1, TakenStays
      <3>4. ASSUME Straight', From(1)', result' = "none", \A k \in 1..Len(taken') : taken'[k] = k,
                   Len(taken') # regOK'
            PROVE  log'[Len(taken')].type = "PeerLeave"
                       \/ (state'.file /\ state'.receivedChunks = Len(taken') - 1 - regOK')
        <4>1. PICK k \in 1..Len(taken) : taken[k] = regOK
          BY <1>0, <2>2, <3>4 DEF AnswerIsSound
        <4>2. regOK < Len(taken) /\ Len(taken) \in 1..Len(taken) /\ taken[Len(taken)] = Len(taken)
          BY <1>0, <2>2, <3>4, <4>1
        <4>3. Len(taken) \in 1..Len(log) /\ log'[Len(taken)] = log[Len(taken)]
          BY <4>2, TakenStays
        <4>4. Straight
          BY <1>0, <2>2, <3>2, <3>3, <3>4, <4>2, <4>3 DEF Straight
        <4> QED BY <1>0, <2>2, <3>1, <3>4, <4>3, <4>4 DEF NothingIsUncounted
      <3>5. ASSUME result' = "warning"
            PROVE  /\ regOK' < Len(log')
                   /\ late' \/ ~From(1)' \/ log'[regOK' + 1].type # "FileMeta"
        <4>1. result = "warning" /\ regOK < Len(log)
          BY <1>0, <2>2, <3>5 DEF NothingIsUncounted
        <4>2. late \/ ~From(1) \/ log[regOK + 1].type # "FileMeta"
          BY <1>0, <4>1 DEF NothingIsUncounted, WarningNeedsACause
        <4> QED BY <1>0, <2>2, <3>1, <3>2, <3>3, <4>1, <4>2
      <3> QED BY <3>4, <3>5 DEF NothingIsUncounted, WarningNeedsACause
    <2> QED BY <1>2, <2>1, <2>2, OthersKeep
  <1> QED BY <1>1, <1>2

-------------------------------------------------------------------------------
(* The theorems. *)

LEMMA FileInitIsSound == FileInit => FileIsSound
  <1> SUFFICES ASSUME FileInit PROVE FileIsSound
    OBVIOUS
  <1> USE DEF FileInit
  <1>1. SessionInvariant
    BY NewSessionIsSound
  <1>2. FileTypeOK
    <2>1. total \in Nat /\ state \in [file : BOOLEAN, content : Seq((1..MaxAttempts) \X Nat),
                                      receivedChunks : 0..MaxFrames]
      <3>1. <<>> \in Seq((1..MaxAttempts) \X Nat)
        OBVIOUS
      <3> QED BY <3>1, FileAssumption, SessionAssumption DEF NoFile
    <2>2. sent = 0 /\ TypeOK
      BY <1>1 DEF NewSession, SessionInvariant
    <2>6. 0 \in 0..sent
      BY <2>2
    <2>3. <<>> \in Seq(FileFrames) /\ Len(log) = 0
      OBVIOUS
    <2>4. attempt \in 1..(MaxAttempts + 1) /\ next \in 0..(total + 2)
      BY <2>1, FileAssumption
    <2>5. old = <<>> /\ log = <<>> /\ truncated = {} /\ result = "register" /\ late = FALSE
          /\ paired = FALSE /\ registered = FALSE /\ regOK = 0 /\ total \in Totals
      OBVIOUS
    <2> QED BY <2>1, <2>2, <2>3, <2>4, <2>5, <2>6 DEF FileTypeOK
  <1>3. taken = <<>> /\ frameCh = <<>> /\ chans = {} /\ consumer = "range" /\ read = 0 /\ InHand = 0
    BY DEF NewSession, InHand
  <1>4. FramesAreOrdered /\ FramesAreOfFile
    BY DEF FramesAreOrdered, FramesAreOfFile
  <1>5. TakenInOrder /\ RangeIsSound
    BY <1>3 DEF TakenInOrder, RangeIsSound, Complete
  <1>6. ContentIsSound
    BY <1>3 DEF ContentIsSound, ContentIsOf, NoFile
  <1>7. NothingIsSkipped /\ NothingIsUncounted /\ AnswerIsSound
    BY <1>3 DEF NothingIsSkipped, NothingIsUncounted, WarningNeedsACause, Straight, AnswerIsSound
  <1> QED BY <1>1, <1>2, <1>4, <1>5, <1>6, <1>7 DEF FileIsSound

LEMMA FileNextIsSound == FileIsSound /\ [FileNext]_allVars => FileIsSound'
  <1> SUFFICES ASSUME FileIsSound, [FileNext]_allVars PROVE FileIsSound'
    OBVIOUS
  <1>1. CASE FileNext
    <2>1. SessionInvariant'
      BY FileStepIsSessionStep, SessionNextIsSound DEF FileIsSound
    <2>2. late' \in BOOLEAN
      BY <1>1 DEF FileNext
    <2>3. FileTypeOK'
      BY <1>1, <2>2, FileTypeStep
    <2> QED BY <1>1, <2>1, <2>3, OrderStep, TakenStep, RangeStep, ContentStep, AnswerStep, SkipStep,
               UncountedStep DEF FileIsSound
  <1>2. CASE UNCHANGED allVars
    <2>1. UNCHANGED vars /\ UNCHANGED fileVars /\ UNCHANGED late
      BY <1>2 DEF allVars
    <2>2. UNCHANGED <<sent, linkUp, read, pump, frameCh, chans, connClosed, taken, consumer, owner>>
      BY <2>1 DEF vars
    <2>3. UNCHANGED <<total, attempt, next, truncated, old, paired, registered, regOK, log,
                      state, result>>
      BY <2>1 DEF fileVars, senderVars, serverVars
    <2>4. (FileTypeOK /\ FramesAreOrdered /\ FramesAreOfFile)'
      <3>1. FileFrames' = FileFrames
        BY <2>3 DEF FileFrames
      <3>2. FileTypeOK'
        BY <2>1, <2>2, <2>3, <3>1 DEF FileIsSound, FileTypeOK, TypeOK
      <3>3. (FramesAreOrdered /\ FramesAreOfFile)'
        BY <2>3 DEF FileIsSound, FramesAreOrdered, FramesAreOfFile, Before, OfFile, Position
      <3> QED BY <3>2, <3>3
    <2>5. (SessionInvariant /\ TakenInOrder /\ RangeIsSound)'
      BY <2>1, <2>2, <2>3 DEF FileIsSound, SessionInvariant, TypeOK, DoneComesLast, FramesInOrder,
         InHand, TakenInOrder, RangeIsSound, Complete
    <2>6. (ContentIsSound /\ AnswerIsSound /\ NothingIsSkipped /\ NothingIsUncounted)'
      BY <2>1, <2>2, <2>3 DEF FileIsSound, ContentIsSound, ContentIsOf, From, Handled, Position,
         AnswerIsSound, NothingIsSkipped, Straight, FromFirst, NothingIsUncounted, WarningNeedsACause
    <2> QED BY <2>4, <2>5, <2>6 DEF FileIsSound
  <1> QED BY <1>1, <1>2

\* The inductive invariant holds.
THEOREM FileTransferIsSound == FileSpec => []FileIsSound
  BY FileInitIsSound, FileNextIsSound, PTL DEF FileSpec

\* Types and the session under the receiver.
THEOREM FileInvariantHolds == FileSpec => []FileInvariant
  <1>1. FileIsSound => FileInvariant
    BY DEF FileIsSound, FileInvariant
  <1> QED BY <1>1, FileTransferIsSound, PTL

\* A frame is lost to the receiver only when it lags or has gone.
THEOREM FilesAreLostByLag == FileSpec => []LossNeedsLag
  <1>1. FileIsSound => LossNeedsLag
    <2> SUFFICES ASSUME FileIsSound, Complete PROVE ~(Lost > 0)
      BY DEF FileIsSound, RangeIsSound, LossNeedsLag
    <2>1. read = InHand + Len(frameCh) + Len(taken)
      BY DEF Complete
    <2>2. InHand \in Nat /\ Len(frameCh) \in Nat /\ Len(taken) \in Nat
      BY DEF FileIsSound, FileTypeOK, TypeOK, InHand
    <2> QED BY <2>1, <2>2 DEF Lost
  <1> QED BY <1>1, FileTransferIsSound, PTL

\* A file reported as received holds every chunk in its order, when it came from one
\* attempt of the sender whose reads did not fail.
THEOREM ReceivedFileIsWhole == FileSpec => []ReceivedMeansWhole
  <1>1. FileIsSound => ReceivedMeansWhole
    <2> SUFFICES ASSUME FileIsSound, NEW a \in 1..MaxAttempts, result = "received", From(a),
                        a \notin truncated
                 PROVE  state.content = Whole(a)
      BY DEF ReceivedMeansWhole
    <2> DEFINE c == state.content
    <2>1. c \in Seq((1..MaxAttempts) \X Nat) /\ total \in Nat
      BY TotalIsNat DEF FileIsSound, FileTypeOK
    <2>2. /\ Len(c) = total
          /\ \A k \in 1..total : c[k][1] = a /\ c[k][2] < total
          /\ \A j, k \in 1..total : j <= k => k - j <= c[k][2] - c[j][2]
      BY DEF FileIsSound, ContentIsSound, ContentIsOf
    <2> HIDE DEF c
    <2>3. ASSUME NEW k \in 1..total
          PROVE  c[k] = <<a, k - 1>>
      <3>1. /\ 1 \in 1..total /\ total \in 1..total /\ 1 <= k /\ k <= total /\ k \in Nat
        BY <2>1
      <3>2. \A i \in 1..total : c[i] \in (1..MaxAttempts) \X Nat
        <4>1. \A i \in 1..Len(c) : c[i] \in (1..MaxAttempts) \X Nat
          BY <2>1
        <4> QED BY <2>2, <4>1
      <3>3. \A i \in 1..total : c[i][2] \in Nat /\ c[i] = <<c[i][1], c[i][2]>>
        BY <3>2
      <3>4. k - 1 <= c[k][2] - c[1][2] /\ total - k <= c[total][2] - c[k][2] /\ c[total][2] < total
        BY <2>2, <3>1
      <3>5. \A x, y, z, t, i \in Nat :
                i - 1 <= y - x /\ t - i <= z - y /\ z < t => y = i - 1
        OBVIOUS
      <3>6. c[k][2] = k - 1
        <4> DEFINE x == c[1][2]
                   y == c[k][2]
                   z == c[total][2]
        <4>1. x \in Nat /\ y \in Nat /\ z \in Nat
          BY <3>1, <3>3
        <4>2. k - 1 <= y - x /\ total - k <= z - y /\ z < total
          BY <3>4
        <4> HIDE DEF x, y, z
        <4>3. y = k - 1
          BY <2>1, <3>1, <3>5, <4>1, <4>2
        <4> QED BY <4>3 DEF y
      <3> QED BY <2>2, <3>3, <3>6
    <2>4. DOMAIN c = 1..total /\ c = [k \in DOMAIN c |-> c[k]]
      BY <2>1, <2>2
    <2> QED BY <2>3, <2>4 DEF Whole, c
  <1> QED BY <1>1, FileTransferIsSound, PTL

\* A receiver whose RegOK comes before the FileMeta, that hears the first attempt only and
\* never lags, ends without a warning.
THEOREM WarningsHaveACause == FileSpec => []WarningNeedsACause
  <1>1. FileIsSound => WarningNeedsACause
    BY DEF FileIsSound, NothingIsUncounted
  <1> QED BY <1>1, FileTransferIsSound, PTL

\* A receiver whose channel ends has handled every frame read after its RegOK, the FileEnd
\* too, unless it lagged.
THEOREM EndOfFileIsNoticed == FileSpec => []EndIsNoticed
  <1>1. FileIsSound => EndIsNoticed
    <2> SUFFICES ASSUME FileIsSound, result = "closed", ~late, NEW n \in (regOK + 1)..read
                 PROVE  log[n].type # "FileEnd"
      BY DEF EndIsNoticed
    <2>1. consumer = "over" /\ Complete /\ frameCh = <<>> /\ "frameCh" \in chans
      BY DEF FileIsSound, RangeIsSound
    <2>2. InHand = 0
      BY <2>1 DEF FileIsSound, SessionInvariant, DoneComesLast, InHand
    <2>3. read = Len(taken) /\ Len(taken) \in Nat
      BY <2>1, <2>2 DEF Complete, FileIsSound, FileTypeOK, TypeOK
    <2>4. n \in 1..Len(taken) /\ taken[n] = n /\ taken[n] > regOK
      <3>1. regOK \in Nat
        BY SessionAssumption DEF FileIsSound, FileTypeOK, TypeOK
      <3>2. n \in 1..Len(taken) /\ n > regOK
        BY <2>3, <3>1
      <3> QED BY <2>1, <3>2 DEF Complete
    <2> QED BY <2>4 DEF FileIsSound, RangeIsSound
  <1> QED BY <1>1, FileTransferIsSound, PTL

===============================================================================
