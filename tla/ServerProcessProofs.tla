-------------------------- MODULE ServerProcessProofs --------------------------
(***************************************************************************)
(* Proofs about the server process, for every number of connections and    *)
(* browsers: a console that is outdated has an event waiting for it, and   *)
(* what Shutdown reports is true.                                          *)
(***************************************************************************)
EXTENDS ServerProcess, TLAPS

-------------------------------------------------------------------------------
(* Type correctness. *)

LEMMA TypeInit ==
    ASSUME Init
    PROVE  TypeOK
  BY DEF Init, TypeOK, ConsoleInit, ConsoleTypeOK, Phases, Blank

\* The subscribers of the hub are the browsers whose handler has subscribed.
LEMMA ConsoleTypeStep ==
    ASSUME TypeOK, NEW b \in Browsers, Handler(b) \/ Leave(b) \/ Open(b)
    PROVE  ConsoleTypeOK'
  <1> USE DEF TypeOK, ConsoleTypeOK, Goto
  <1>1. CASE Subscribe(b)
    BY <1>1 DEF Subscribe
  <1>2. CASE ReadTable(b)
    BY <1>2 DEF ReadTable, hubVars, Roles, Listed
  <1>3. CASE Flush(b)
    BY <1>3 DEF Flush, hubVars, Blank
  <1>4. CASE TakeEvent(b)
    BY <1>4 DEF TakeEvent
  <1>5. CASE Unsubscribe(b)
    BY <1>5 DEF Unsubscribe
  <1>6. CASE Leave(b)
    BY <1>6 DEF Leave, hubVars, Blank
  <1>7. CASE Open(b)
    BY <1>7 DEF Open, hubVars
  <1> QED BY <1>1, <1>2, <1>3, <1>4, <1>5, <1>6, <1>7 DEF Handler

\* The steps of a connection that change neither the table nor what is broken.
Quiet(c) ==
    Dial(c) \/ Accept(c) \/ TrackConnection(c) \/ NotRegistered(c) \/ TrackConnectionDone(c)

\* A step of a connection's client or goroutine.
LEMMA ClientTypeStep ==
    ASSUME TypeOK, NEW c \in Conns, Dial(c) \/ ClientGone(c) \/ HandleClient(c) \/ Accept(c)
    PROVE  TypeOK'
  <1> USE DEF TypeOK, ConsoleTypeOK, Phases, Step, connVars, mainVars
  <1>1. CASE Quiet(c)
    BY <1>1, ZenonT(60) DEF Quiet, Dial, Accept, TrackConnection, NotRegistered, TrackConnectionDone,
                consoleVars, hubVars, pageVars
  <1>2. CASE HandleTCPListener(c) \/ HandleTUNListener(c)
    BY <1>2 DEF HandleTCPListener, HandleTUNListener, RegisterListener, Peers, Listed, InLoop,
                hubVars, pageVars
  <1>3. CASE HandleForwarderReg(c)
    BY <1>3 DEF HandleForwarderReg, hubVars, pageVars
  <1>4. CASE ClientGone(c) \/ UnregisterTun(c)
    BY <1>4, ZenonT(60) DEF ClientGone, UnregisterTun, InLoop, consoleVars, hubVars, pageVars
  <1>5. CASE BroadcastFromListener(c)
    BY <1>5 DEF BroadcastFromListener, Peers, Listed, hubVars, pageVars
  <1>6. CASE Unregister(c)
    BY <1>6 DEF Unregister, hubVars, pageVars
  <1>7. CASE NotifyPeerChange(c)
    BY <1>7 DEF NotifyPeerChange, Broadcast, pageVars
  <1> QED BY <1>1, <1>2, <1>3, <1>4, <1>5, <1>6, <1>7 DEF HandleClient, Quiet

LEMMA TypeStep ==
    ASSUME TypeOK, [Next]_vars
    PROVE  TypeOK'
  <1>1. CASE ConsoleSteps
    BY <1>1, ConsoleTypeStep DEF ConsoleSteps, procVars, mainVars, connVars, TypeOK
  <1>2. CASE \E c \in Conns : Dial(c) \/ ClientGone(c) \/ HandleClient(c) \/ Accept(c)
    BY <1>2, ClientTypeStep
  <1> USE DEF TypeOK, ConsoleTypeOK, consoleVars, hubVars, pageVars, connVars
  <1>3. CASE AcceptFails
    BY <1>3 DEF AcceptFails, Counted
  <1>4. CASE ShutdownReturns \/ WebShutdown \/ Signal \/ WaitGroupIsZero
    BY <1>4 DEF ShutdownReturns, WebShutdown, Signal, WaitGroupIsZero
  <1>5. CASE CloseListener
    BY <1>5 DEF CloseListener, Phases
  <1>6. CASE UNCHANGED vars
    BY <1>6 DEF vars, procVars, mainVars
  <1> QED BY <1>1, <1>2, <1>3, <1>4, <1>5, <1>6 DEF Next, Main

\* The variables of the process have their types; in particular a browser is in the
\* list of the hub exactly while its handler has it there.
THEOREM TypeCorrect == Spec => []TypeOK
  <1>1. Init => TypeOK
    BY TypeInit
  <1>2. TypeOK /\ [Next]_vars => TypeOK'
    BY TypeStep
  <1> QED BY <1>1, <1>2, PTL DEF Spec

-------------------------------------------------------------------------------
(* The console. *)

\* Whoever changed the table without a notification is a TUN listener, or a forwarder
\* that was dropped and whose loop will end and notify; and once the goroutines that
\* changed it have notified, a console shows it, or will read it, or has an event
\* waiting, unless there was such a change.
PendingInvariant ==
    /\ broken \subseteq InLoop
    /\ \A c \in silent : role[c] = "tun" \/ c \in broken \/ phase[c] = "removed"
    /\ Notifying = {} => \A b \in Browsers : UpToDate(b) \/ b \in slot \/ silent # {}

\* Steps of the process that concern no connection in its loop.
Aside ==
    \/ \E c \in Conns : Quiet(c)
    \/ CloseListener \/ AcceptFails \/ ShutdownReturns \/ WebShutdown \/ Signal \/ WaitGroupIsZero
    \/ UNCHANGED vars

\* ... leave the table, the consoles and the loops as they are.
LEMMA AsideStays ==
    ASSUME TypeOK, Aside
    PROVE  /\ UNCHANGED <<consoleVars, connVars>>
           /\ InLoop' = InLoop /\ Notifying' = Notifying
           /\ \A c \in Conns : phase[c] = "removed" <=> phase'[c] = "removed"
  <1> USE DEF TypeOK, InLoop, Notifying
  <1>1. ASSUME NEW c \in Conns, Quiet(c)
        PROVE  /\ UNCHANGED <<consoleVars, connVars>>
               /\ \A d \in Conns : \/ phase'[d] = phase[d]
                                   \/ {phase[d], phase'[d]} \cap {"entered", "served", "removed"} = {}
    <2>1. PICK from, to : /\ Step(c, from, to)
                          /\ from \notin {"entered", "served", "removed"}
                          /\ to \notin {"entered", "served", "removed"}
      BY <1>1 DEF Quiet, Dial, Accept, TrackConnection, NotRegistered, TrackConnectionDone
    <2>2. UNCHANGED <<consoleVars, connVars>>
      BY <1>1 DEF Quiet, Dial, Accept, TrackConnection, NotRegistered, TrackConnectionDone
    <2>3. ASSUME NEW d \in Conns
          PROVE  \/ phase'[d] = phase[d]
                 \/ {phase[d], phase'[d]} \cap {"entered", "served", "removed"} = {}
      BY <2>1 DEF Step
    <2> QED BY <2>2, <2>3
  <1>2. CASE CloseListener
    BY <1>2 DEF CloseListener
  <1>3. CASE AcceptFails \/ ShutdownReturns \/ WebShutdown \/ Signal \/ WaitGroupIsZero
    BY <1>3 DEF AcceptFails, ShutdownReturns, WebShutdown, Signal, WaitGroupIsZero
  <1>4. CASE UNCHANGED vars
    BY <1>4 DEF vars, procVars, mainVars
  <1> QED BY <1>1, <1>2, <1>3, <1>4 DEF Aside

\* The loops: a broken connection is in its loop, and a forwarder that was dropped
\* is broken until it takes itself out.
LEMMA SilentStep ==
    ASSUME TypeOK, PendingInvariant, [Next]_vars
    PROVE  /\ broken' \subseteq InLoop'
           /\ \A c \in silent' : role'[c] = "tun" \/ c \in broken' \/ phase'[c] = "removed"
  <1> DEFINE Kept == /\ broken' \subseteq InLoop'
                     /\ \A c \in silent' : role'[c] = "tun" \/ c \in broken' \/ phase'[c] = "removed"
  <1> USE DEF TypeOK, PendingInvariant
  <1>1. ASSUME Aside PROVE Kept
    BY <1>1, AsideStays DEF consoleVars, connVars
  <1>2. ASSUME ConsoleSteps PROVE Kept
    <2>1. role' = role
      BY <1>2 DEF ConsoleSteps, Handler, Subscribe, ReadTable, Flush, TakeEvent, Unsubscribe, Leave, Open
    <2> QED BY <1>2, <2>1 DEF ConsoleSteps, procVars, mainVars, connVars, InLoop
  <1> USE DEF InLoop, Step, connVars
  <1>3. ASSUME NEW c \in Conns, ClientGone(c) PROVE Kept
    BY <1>3 DEF ClientGone, consoleVars
  <1>4. ASSUME NEW c \in Conns, HandleTCPListener(c) \/ HandleTUNListener(c) \/ HandleForwarderReg(c)
        PROVE  Kept
    BY <1>4 DEF HandleTCPListener, HandleTUNListener, HandleForwarderReg, RegisterListener
  <1>5. ASSUME NEW c \in Conns, BroadcastFromListener(c) PROVE Kept
    BY <1>5 DEF BroadcastFromListener
  <1>6. ASSUME NEW c \in Conns, Unregister(c) \/ UnregisterTun(c) PROVE Kept
    BY <1>6 DEF Unregister, UnregisterTun, consoleVars
  <1>7. ASSUME NEW c \in Conns, NotifyPeerChange(c) PROVE Kept
    BY <1>7 DEF NotifyPeerChange
  <1> HIDE DEF TypeOK, PendingInvariant, InLoop, Step, connVars, Kept
  <1>8. Kept
    BY <1>1, <1>2, <1>3, <1>4, <1>5, <1>6, <1>7 DEF Next, Main, HandleClient, Aside, Quiet
  <1> QED BY <1>8 DEF Kept

\* The consoles.
LEMMA OutdatedStep ==
    ASSUME TypeOK, PendingInvariant, [Next]_vars
    PROVE  Notifying' = {} => \A b \in Browsers : UpToDate(b)' \/ b \in slot' \/ silent' # {}
  <1> SUFFICES ASSUME Notifying' = {}, NEW b \in Browsers, silent' = {}
               PROVE  UpToDate(b)' \/ b \in slot'
    OBVIOUS
  <1> USE DEF TypeOK, ConsoleTypeOK
  <1> DEFINE Kept == UpToDate(b)' \/ b \in slot'
  <1>1. ASSUME UNCHANGED <<role, table, slot, pageVars, silent>>, Notifying = {} PROVE Kept
    BY <1>1 DEF PendingInvariant, UpToDate, Listed, Table, pageVars
  <1>2. ASSUME NEW c \in Conns, NotifyPeerChange(c) PROVE Kept
    BY <1>2 DEF NotifyPeerChange, Broadcast, UpToDate, pageVars
  <1>3. ASSUME NEW c \in Conns,
               HandleTCPListener(c) \/ HandleForwarderReg(c) \/ Unregister(c)
        PROVE FALSE
    BY <1>3 DEF HandleTCPListener, HandleForwarderReg, Unregister, Step, Notifying
  <1>4. ASSUME NEW c \in Conns, HandleTUNListener(c) \/ BroadcastFromListener(c) PROVE FALSE
    BY <1>4 DEF HandleTUNListener, BroadcastFromListener
  <1>5. ASSUME NEW c \in Conns, ClientGone(c) \/ UnregisterTun(c) PROVE Kept
    <2>1. Notifying = {}
      BY <1>5 DEF ClientGone, UnregisterTun, Step, Notifying
    <2> QED BY <1>1, <1>5, <2>1 DEF ClientGone, UnregisterTun, consoleVars, hubVars
  <1>6. CASE Aside
    <2>1. UNCHANGED <<consoleVars, connVars>> /\ Notifying = {}
      BY <1>6, AsideStays
    <2> QED BY <1>1, <2>1 DEF consoleVars, hubVars, connVars
  <1>9. ASSUME NEW d \in Browsers, Handler(d) \/ Leave(d) \/ Open(d), UNCHANGED procVars
        PROVE  Kept
    <2>1. Notifying = {} /\ silent = {}
      BY <1>9 DEF procVars, mainVars, connVars, Notifying
    <2>2. UpToDate(b) \/ b \in slot
      BY <2>1 DEF PendingInvariant
    <2> USE DEF UpToDate, Listed, Table, Goto
    <2>3. CASE Subscribe(d)
      BY <2>2, <2>3 DEF Subscribe
    <2>4. CASE ReadTable(d)
      <3>1. /\ role' = role /\ table' = table /\ slot' = slot /\ shown' = shown /\ online' = online
            /\ handler[d] \in {"listener", "forwarder"}
            /\ page' = [page EXCEPT ![d][handler[d]] = Listed(handler[d])]
            /\ handler' = [handler EXCEPT ![d] = IF handler[d] = "listener" THEN "forwarder" ELSE "flush"]
        BY <2>4 DEF ReadTable, hubVars, Roles
      <3>2. CASE d # b
        BY <2>2, <3>1, <3>2, ZenonT(60)
      <3>3. CASE d = b /\ handler[b] = "listener"
        BY <3>1, <3>3 DEF Roles
      <3>4. CASE d = b /\ handler[b] = "forwarder"
        <4>1. page'[b]["listener"] = page[b]["listener"]
          BY <3>1, <3>4 DEF Roles
        <4>2. page'[b]["forwarder"] = Listed("forwarder")
          BY <3>1, <3>4 DEF Roles
        <4>3. page'[b] \in [Roles -> SUBSET Conns]
          BY <3>1, <3>4 DEF Roles
        <4>4. b \in slot \/ page[b]["listener"] = Listed("listener")
          BY <2>2, <3>4
        <4>5. ASSUME page[b]["listener"] = Listed("listener")
              PROVE  page'[b] = [r \in Roles |-> Listed(r)]
          <5>1. \A r \in Roles : page'[b][r] = Listed(r)
            BY <4>1, <4>2, <4>5 DEF Roles
          <5>2. page'[b] = [r \in Roles |-> page'[b][r]]
            BY <4>3
          <5> QED BY <5>1, <5>2, Zenon
        <4>6. handler'[b] = "flush"
          BY <3>1, <3>4
        <4>7. b \in slot' \/ page'[b] = Table'
          BY <3>1, <4>4, <4>5
        <4> QED BY <4>6, <4>7
      <3> QED BY <3>1, <3>2, <3>3, <3>4
    <2>5. CASE Flush(d)
      <3>1. CASE d # b
        BY <2>2, <2>5, <3>1, ZenonT(60) DEF Flush, hubVars
      <3>2. CASE d = b
        <4>1. b \in slot \/ page[b] = Table
          <5> HIDE DEF Table, Listed
          <5> QED BY <2>2, <2>5, <3>2 DEF Flush
        <4>2. /\ b \in online => shown'[b] = page[b]
              /\ handler'[b] = "wait" /\ online' = online /\ slot' = slot
          BY <2>5, <3>2 DEF Flush, hubVars
        <4>3. Table' = Table
          BY <2>5 DEF Flush
        <4> HIDE DEF Table, Listed
        <4> QED BY <4>1, <4>2, <4>3
      <3> QED BY <3>1, <3>2
    <2>6. CASE TakeEvent(d)
      BY <2>2, <2>6 DEF TakeEvent
    <2>7. CASE Unsubscribe(d)
      BY <2>2, <2>7 DEF Unsubscribe
    <2>8. CASE Leave(d)
      BY <2>2, <2>8, ZenonT(60) DEF Leave, hubVars
    <2>9. CASE Open(d)
      BY <2>2, <2>9 DEF Open, hubVars
    <2> QED BY <1>9, <2>3, <2>4, <2>5, <2>6, <2>7, <2>8, <2>9 DEF Handler
  <1> HIDE DEF TypeOK, ConsoleTypeOK, Kept
  <1>10. CASE ConsoleSteps
    BY <1>9, <1>10 DEF ConsoleSteps, Kept
  <1> QED BY <1>2, <1>3, <1>4, <1>5, <1>6, <1>10 DEF Next, Main, HandleClient, Aside, Quiet, Kept

\* A console that shows an outdated table has an event in its channel, or a goroutine
\* that changed the table has yet to notify, or a forwarder that a broadcast dropped has
\* yet to leave: the event broadcast drops is never the one that was needed.  Only a TUN
\* listener enters unannounced.
THEOREM NoUpdateIsLost == Spec => []OutdatedMeansPending
  <1>1. Init => PendingInvariant
    BY DEF Init, ConsoleInit, PendingInvariant, UpToDate
  <1>2. TypeOK /\ PendingInvariant /\ [Next]_vars => PendingInvariant'
    BY OutdatedStep, SilentStep DEF PendingInvariant
  <1>3. TypeOK /\ PendingInvariant => OutdatedMeansPending
    <2> SUFFICES ASSUME TypeOK, PendingInvariant, Notifying = {}, NEW b \in Browsers,
                        ~UpToDate(b), b \notin slot, ~TunUnannounced
                 PROVE  \E c \in silent \cap broken : phase[c] = "served"
      BY DEF OutdatedMeansPending
    <2>1. PICK c \in silent : TRUE
      BY DEF PendingInvariant
    <2>2. c \in Conns /\ role[c] # "tun" /\ phase[c] \notin {"entered", "removed"}
      BY DEF TypeOK, TunUnannounced, Notifying
    <2>3. c \in broken /\ phase[c] = "served"
      BY <2>2 DEF PendingInvariant, InLoop
    <2> QED BY <2>3
  <1> QED BY <1>1, <1>2, <1>3, TypeCorrect, PTL DEF Spec

-------------------------------------------------------------------------------
(* Shutdown. *)

\* Before Shutdown nothing is reported; the connections it waits for are counted or have
\* ended, and have ended once the wait group was zero.
EarlyInvariant ==
    /\ main = "accept" => waiter = "off" /\ report = "none" /\ early = {}
    /\ waiter = "off" => main = "accept"
    /\ early \subseteq Counted \cup {c \in Conns : phase[c] = "ended"}
    /\ waiter = "done" => \A c \in early : phase[c] = "ended"
    /\ report = "finished" => waiter = "done"

\* A goroutine that has counted itself stays counted until it ends.
LEMMA CountedStays ==
    ASSUME TypeOK, Next, NEW c \in Conns
    PROVE  /\ c \in Counted => c \in Counted' \/ phase'[c] = "ended"
           /\ phase[c] = "ended" => phase'[c] = "ended"
  <1> USE DEF TypeOK, Counted, Step
  <1>1. ASSUME NEW d \in Conns, Dial(d) \/ ClientGone(d) \/ HandleClient(d) \/ Accept(d)
        PROVE  /\ c \in Counted => c \in Counted' \/ phase'[c] = "ended"
               /\ phase[c] = "ended" => phase'[c] = "ended"
    BY <1>1 DEF Dial, ClientGone, HandleClient, TrackConnection, HandleTCPListener, HandleTUNListener,
                HandleForwarderReg, NotRegistered, BroadcastFromListener, Unregister, UnregisterTun,
                NotifyPeerChange, TrackConnectionDone, Accept, mainVars
  <1>2. CASE CloseListener
    BY <1>2 DEF CloseListener
  <1>3. CASE phase' = phase
    BY <1>3
  <1> QED BY <1>1, <1>2, <1>3
          DEF Next, Main, ConsoleSteps, AcceptFails, ShutdownReturns, WebShutdown, Signal,
              WaitGroupIsZero, procVars

LEMMA EarlyStep ==
    ASSUME TypeOK, EarlyInvariant, [Next]_vars
    PROVE  EarlyInvariant'
  <1> DEFINE Rest == <<main, waiter, report, early>>
  <1>1. ASSUME Next, UNCHANGED Rest PROVE EarlyInvariant'
    BY <1>1, CountedStays DEF EarlyInvariant, TypeOK
  <1>2. CASE AcceptFails
    BY <1>2 DEF AcceptFails, EarlyInvariant, Counted
  <1>3. CASE WaitGroupIsZero
    BY <1>3 DEF WaitGroupIsZero, EarlyInvariant, Counted, TypeOK
  <1>4. CASE ShutdownReturns
    BY <1>4 DEF ShutdownReturns, EarlyInvariant, Counted
  <1>5. CASE WebShutdown
    BY <1>5 DEF WebShutdown, EarlyInvariant, Counted
  <1>6. CASE UNCHANGED vars
    BY <1>6 DEF vars, procVars, mainVars, EarlyInvariant, Counted
  <1>7. ASSUME NEW c \in Conns, Dial(c) \/ ClientGone(c) \/ HandleClient(c) \/ Accept(c)
        PROVE UNCHANGED Rest
    BY <1>7 DEF Dial, ClientGone, HandleClient, TrackConnection, HandleTCPListener, HandleTUNListener,
                HandleForwarderReg, NotRegistered, BroadcastFromListener, Unregister, UnregisterTun,
                NotifyPeerChange, TrackConnectionDone, Accept, mainVars
  <1>8. ASSUME ConsoleSteps \/ Signal \/ CloseListener PROVE UNCHANGED Rest
    BY <1>8 DEF ConsoleSteps, procVars, mainVars, Signal, CloseListener
  <1> QED BY <1>1, <1>2, <1>3, <1>4, <1>5, <1>6, <1>7, <1>8 DEF Next, Main

\* When Shutdown reports that the connections have finished, each that was counted when
\* it was called has.
THEOREM ReportIsTrue == Spec => []FinishedIsTrue
  <1>1. Init => EarlyInvariant
    BY DEF Init, EarlyInvariant, Counted
  <1>2. TypeOK /\ EarlyInvariant /\ [Next]_vars => EarlyInvariant'
    BY EarlyStep
  <1>3. EarlyInvariant => FinishedIsTrue
    BY DEF EarlyInvariant, FinishedIsTrue
  <1> QED BY <1>1, <1>2, <1>3, TypeCorrect, PTL DEF Spec

===============================================================================
