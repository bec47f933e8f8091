----------------------------- MODULE ServerProcess -----------------------------
(***************************************************************************)
(* The process crfls (cmd/crfls/main.go): the accept loop, the goroutines  *)
(* of the connections it has started, the signal, Server.Shutdown with its *)
(* wait group, and the deferred shutdown of the web console of Console.    *)
(*                                                                         *)
(* Of HandleClient, which RelayServer models step by step, only what the   *)
(* rest of the process sees is left here: that it counts itself into the   *)
(* wait group and changes the pairing table, which connections a change    *)
(* puts in or takes out, and whether the console is notified of it.        *)
(***************************************************************************)
EXTENDS Console

CONSTANT Indices    \* the indices clients ask for or are given

VARIABLES
    index,      \* connection -> the index it registers at
    broken,     \* connections that the client has left or a takeover has closed and
                \* whose loop has not noticed
    silent,     \* connections put in or taken out of the table with no notification
                \* of its own, since the last notification
    phase,      \* connection -> where its HandleClient is
    main,       \* where main is: "accept", "shutdown", "web" (deferred), "exited"
    signalled,  \* the signal has come, ctx is done
    accepting,  \* the listening socket is open
    waiter,     \* the goroutine of Shutdown: "off", "wait" or "done"
    report,     \* what Shutdown has logged: "none", "finished" or "forced"
    early       \* the connections that were counted when Shutdown was called

connVars == <<index, broken, silent>>
mainVars == <<main, signalled, accepting, waiter, report, early>>
procVars == <<connVars, phase, mainVars>>
vars == <<consoleVars, procVars>>

Phases == {"out", "backlog", "spawned", "counted", "entered", "served", "removed",
           "leaving", "ended", "reset"}

\* The wait group: TrackConnection was called and TrackConnectionDone was not.
Counted == {c \in Conns : phase[c] \in {"counted", "entered", "served", "removed", "leaving"}}

\* Goroutines that have changed the table and not yet called notifyPeerChange.
Notifying == {c \in Conns : phase[c] \in {"entered", "removed"}}

TypeOK ==
    /\ ConsoleTypeOK
    /\ index \in [Conns -> Indices]
    /\ broken \subseteq Conns /\ silent \subseteq Conns
    /\ phase \in [Conns -> Phases]
    /\ main \in {"accept", "shutdown", "web", "exited"}
    /\ signalled \in BOOLEAN /\ accepting \in BOOLEAN
    /\ waiter \in {"off", "wait", "done"}
    /\ report \in {"none", "finished", "forced"}
    /\ early \subseteq Conns

Init ==
    /\ ConsoleInit
    /\ index \in [Conns -> Indices]
    /\ broken = {} /\ silent = {}
    /\ phase = [c \in Conns |-> "out"]
    /\ main = "accept" /\ signalled = FALSE /\ accepting = TRUE
    /\ waiter = "off" /\ report = "none" /\ early = {}

Step(c, from, to) == phase[c] = from /\ phase' = [phase EXCEPT ![c] = to]

-------------------------------------------------------------------------------
(* Connections. *)

Dial(c) ==
    /\ accepting
    /\ Step(c, "out", "backlog")
    /\ UNCHANGED <<consoleVars, connVars, mainVars>>

\* Connections whose loop runs or is about to.
InLoop == {c \in Conns : phase[c] \in {"entered", "served"}}

\* The client leaves or is cut off, after its registration; or the listener of a
\* forwarder can no longer be written to, which ends its relayLoop as well.
ClientGone(c) ==
    /\ c \in InLoop \ broken
    /\ broken' = broken \cup {c}
    /\ UNCHANGED <<consoleVars, index, silent, phase, mainVars>>

\* HandleClient starts by counting itself.
TrackConnection(c) ==
    /\ Step(c, "spawned", "counted")
    /\ UNCHANGED <<consoleVars, connVars, mainVars>>

\* The connections of the index of c that the table lists as r.
Peers(c, r) == {d \in Listed(r) : index[d] = index[c]}

\* RegisterListener closes the listener it takes the index from.
RegisterListener(c) ==
    /\ table' = (table \ Peers(c, "listener")) \cup {c}
    /\ broken' = broken \cup (Peers(c, "listener") \cap InLoop)

HandleTCPListener(c) ==
    /\ role[c] = "listener"
    /\ Step(c, "counted", "entered")
    /\ RegisterListener(c)
    /\ UNCHANGED <<role, hubVars, pageVars, index, silent, mainVars>>

\* handleTUNListener goes on to its own relay loop and notifies nobody.
HandleTUNListener(c) ==
    /\ role[c] = "tun"
    /\ Step(c, "counted", "served")
    /\ RegisterListener(c)
    /\ silent' = silent \cup {c}
    /\ UNCHANGED <<role, hubVars, pageVars, index, mainVars>>

HandleForwarderReg(c) ==
    /\ role[c] = "forwarder"
    /\ Step(c, "counted", "entered")
    /\ table' = table \cup {c}
    /\ UNCHANGED <<role, hubVars, pageVars, connVars, mainVars>>

\* It is refused, or the client leaves before.
NotRegistered(c) ==
    /\ Step(c, "counted", "leaving")
    /\ UNCHANGED <<consoleVars, connVars, mainVars>>

\* A listener broadcasts a frame: the forwarders it cannot be written to are dropped.
BroadcastFromListener(c) ==
    /\ phase[c] = "served" /\ role[c] = "listener"
    /\ \E F \in SUBSET (Peers(c, "forwarder") \cap broken) :
        /\ F # {}
        /\ table' = table \ F
        /\ silent' = silent \cup F
    /\ UNCHANGED <<role, hubVars, pageVars, index, broken, phase, mainVars>>

\* What relayLoop takes out at its end: a listener whatever is at its index, a forwarder
\* itself.
Removed(c) ==
    IF role[c] = "listener" THEN Peers(c, "listener") \cup Peers(c, "forwarder") ELSE {c}

\* The read of relayLoop fails, at the latest at its deadline.
Unregister(c) ==
    /\ role[c] # "tun" /\ c \in broken
    /\ Step(c, "served", "removed")
    /\ table' = table \ Removed(c)
    /\ broken' = broken \ {c}
    /\ UNCHANGED <<role, hubVars, pageVars, index, silent, mainVars>>

\* serverTUNRelayLoop ends: the route is removed, the table stays as it is.
UnregisterTun(c) ==
    /\ role[c] = "tun" /\ c \in broken
    /\ Step(c, "served", "leaving")
    /\ broken' = broken \ {c}
    /\ UNCHANGED <<consoleVars, index, silent, mainVars>>

\* Mutant: only an arrival is announced.
NotifyArrival(c) ==
    /\ \/ Step(c, "entered", "served") /\ Broadcast /\ silent' = {}
       \/ Step(c, "removed", "leaving") /\ UNCHANGED <<slot, silent>>
    /\ UNCHANGED <<role, table, subs, pageVars, index, broken, mainVars>>

NotifyPeerChange(c) ==
    /\ Step(c, "entered", "served") \/ Step(c, "removed", "leaving")
    /\ Broadcast
    /\ silent' = {}
    /\ UNCHANGED <<role, table, subs, pageVars, index, broken, mainVars>>

TrackConnectionDone(c) ==
    /\ Step(c, "leaving", "ended")
    /\ UNCHANGED <<consoleVars, connVars, mainVars>>

HandleClient(c) ==
    \/ TrackConnection(c) \/ NotRegistered(c)
    \/ HandleTCPListener(c) \/ HandleTUNListener(c) \/ HandleForwarderReg(c)
    \/ BroadcastFromListener(c) \/ Unregister(c) \/ UnregisterTun(c)
    \/ NotifyPeerChange(c) \/ TrackConnectionDone(c)

-------------------------------------------------------------------------------
(* main and Shutdown. *)

Accept(c) ==
    /\ main = "accept" /\ accepting
    /\ Step(c, "backlog", "spawned")
    /\ UNCHANGED <<consoleVars, connVars, mainVars>>

Signal ==
    /\ ~signalled
    /\ signalled' = TRUE
    /\ UNCHANGED <<consoleVars, connVars, phase, main, accepting, waiter, report, early>>

\* The goroutine that waits for ctx closes the listener, which resets the connections
\* nobody has accepted.
CloseListener ==
    /\ signalled /\ accepting
    /\ accepting' = FALSE
    /\ phase' = [c \in Conns |-> IF phase[c] = "backlog" THEN "reset" ELSE phase[c]]
    /\ UNCHANGED <<consoleVars, connVars, main, signalled, waiter, report, early>>

\* Accept fails, because of the closed listener or otherwise, when ctx is done; an
\* error before that is logged and the loop goes on.
AcceptFails ==
    /\ main = "accept" /\ signalled
    /\ main' = "shutdown" /\ waiter' = "wait"
    /\ early' = Counted
    /\ UNCHANGED <<consoleVars, connVars, phase, signalled, accepting, report>>

\* Mutant: Shutdown waits for the pairing table to be empty.
WaitForTable ==
    /\ waiter = "wait"
    /\ table = {}
    /\ waiter' = "done"
    /\ UNCHANGED <<consoleVars, connVars, phase, main, signalled, accepting, report, early>>

WaitGroupIsZero ==
    /\ waiter = "wait"
    /\ Counted = {}
    /\ waiter' = "done"
    /\ UNCHANGED <<consoleVars, connVars, phase, main, signalled, accepting, report, early>>

\* The select of Shutdown: all have finished, or 30 s have passed.
ShutdownReturns ==
    /\ main = "shutdown"
    /\ \/ waiter = "done" /\ report' = "finished"
       \/ report' = "forced"
    /\ main' = "web"
    /\ UNCHANGED <<consoleVars, connVars, phase, signalled, accepting, waiter, early>>

\* The deferred webSrv.Shutdown waits, without a limit, until no request is active.
WebShutdown ==
    /\ main = "web"
    /\ \A b \in Browsers : handler[b] = "none"
    /\ main' = "exited"
    /\ UNCHANGED <<consoleVars, connVars, phase, signalled, accepting, waiter, report, early>>

Main == (\E c \in Conns : Accept(c)) \/ AcceptFails \/ ShutdownReturns \/ WebShutdown

-------------------------------------------------------------------------------

\* When webSrv.Shutdown has been called no new request is served; once the process has
\* exited nothing happens any more.
ConsoleSteps ==
    /\ \E b \in Browsers : Handler(b) \/ Leave(b) \/ (main # "web" /\ Open(b))
    /\ UNCHANGED procVars

Next ==
    /\ main # "exited"
    /\ \/ \E c \in Conns : Dial(c) \/ ClientGone(c) \/ HandleClient(c)
       \/ ConsoleSteps
       \/ Main \/ Signal \/ CloseListener \/ WaitGroupIsZero

Spec == Init /\ [][Next]_vars

\* Goroutines that can take a step are scheduled and notice a broken connection, the
\* 30 s pass, and the requests of the console are handled; nothing is asked of the
\* clients (registering, leaving), of the browsers or of whoever sends the signal.
Fairness ==
    /\ \A c \in Conns :
        /\ WF_vars(TrackConnection(c) \/ NotifyPeerChange(c) \/ TrackConnectionDone(c))
        /\ WF_vars(Unregister(c) \/ UnregisterTun(c))
    /\ \A b \in Browsers : WF_vars(Handler(b) /\ UNCHANGED procVars)
    /\ WF_vars(Main) /\ WF_vars(CloseListener) /\ WF_vars(WaitGroupIsZero)

FairSpec == Spec /\ Fairness

-------------------------------------------------------------------------------
(* Properties. *)

\* A change nobody will announce: a TUN listener has entered since the last notification
\* (server.go:259), although sse.go:7 says that the consoles are told of every change.
TunUnannounced == \E c \in silent : role[c] = "tun"

\* A console that shows an outdated table, or is about to because its handler read one
\* half before a change, has an event in its channel, or a goroutine that changed the
\* table has yet to call notifyPeerChange, or a forwarder that a broadcast has dropped
\* has yet to notice that its connection is broken.  The event that broadcast drops is
\* therefore never the one that was needed.  TUN listeners, who announce nothing, are
\* the exception.
OutdatedMeansPending ==
    Notifying = {} =>
        \A b \in Browsers :
            \/ UpToDate(b) \/ b \in slot
            \/ \E c \in silent \cap broken : phase[c] = "served"
            \/ TunUnannounced

\* Every console that stays open comes to show the table as it is, if no TUN listener
\* has entered it unannounced.
ConsoleCatchesUp ==
    \A b \in Browsers : b \in online ~>
        shown[b] = Table \/ b \notin online \/ TunUnannounced \/ main = "exited"

\* When Shutdown logs that all connections have finished, those that were counted when
\* it was called have; a connection that was accepted and has not yet counted itself
\* is not waited for.
FinishedIsTrue ==
    report = "finished" => \A c \in early : phase[c] = "ended"

\* The process exits after a signal if the consoles are closed.
ExitsOnceConsolesClose ==
    <>signalled /\ <>[](online = {}) => <>(main = "exited")

===============================================================================
