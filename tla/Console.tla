-------------------------------- MODULE Console --------------------------------
(***************************************************************************)
(* The web console: the hub of its subscribers (pkg/relay/web/sse.go) and  *)
(* the handler of /api/events that runs for every browser that shows it    *)
(* (pkg/relay/web/server.go).  A handler reads the pairing table in two    *)
(* critical sections, first the listeners, then the forwarders; the counts *)
(* it adds are taken from the same tables and left out.                    *)
(***************************************************************************)
EXTENDS Naturals, FiniteSets

CONSTANTS
    Conns,      \* connections of the relay
    Browsers    \* open consoles

VARIABLES
    role,       \* connection -> "listener", "forwarder" or "tun", a TUN listener
    table,      \* the connections in the pairing table
    subs,       \* subscribers of the hub
    slot,       \* subscribers whose channel, of capacity one, holds an event
    handler,    \* browser -> what its handler does next
    page,       \* browser -> what its handler has read of the table
    shown,      \* browser -> what it shows
    online      \* browsers whose request is open

hubVars == <<subs, slot>>
pageVars == <<handler, page, shown, online>>
consoleVars == <<role, table, hubVars, pageVars>>

Roles == {"listener", "forwarder"}
\* A TUN listener is listed with the listeners.
Listed(r) == {c \in table : role[c] = "forwarder" <=> r = "forwarder"}
Table == [r \in Roles |-> Listed(r)]
Blank == [r \in Roles |-> {}]

ConsoleTypeOK ==
    /\ role \in [Conns -> Roles \cup {"tun"}]
    /\ table \subseteq Conns
    /\ slot \subseteq Browsers /\ online \subseteq Browsers
    /\ handler \in [Browsers -> {"none", "subscribe", "listener", "forwarder", "flush", "wait"}]
    /\ page \in [Browsers -> [Roles -> SUBSET Conns]]
    /\ shown \in [Browsers -> [Roles -> SUBSET Conns]]
    /\ subs = {b \in Browsers : handler[b] \notin {"none", "subscribe"}}

ConsoleInit ==
    /\ role \in [Conns -> Roles \cup {"tun"}]
    /\ table = {}
    /\ subs = {} /\ slot = {} /\ online = {}
    /\ handler = [b \in Browsers |-> "none"]
    /\ page = [b \in Browsers |-> Blank]
    /\ shown = [b \in Browsers |-> Blank]

Goto(b, l) == handler' = [handler EXCEPT ![b] = l]

\* Mutant: the event is only taken by a handler that waits for it.
BroadcastUnbuffered == slot' = slot \cup {b \in subs : handler[b] = "wait"}

\* broadcast: an event that finds the channel full is dropped.
Broadcast == slot' = slot \cup subs

-------------------------------------------------------------------------------
(* The browser. *)

Open(b) ==
    /\ handler[b] = "none"
    /\ online' = online \cup {b}
    /\ Goto(b, "subscribe")
    /\ UNCHANGED <<role, table, hubVars, page, shown>>

\* The page is closed or its connection lost.
Leave(b) ==
    /\ b \in online
    /\ online' = online \ {b}
    /\ shown' = [shown EXCEPT ![b] = Blank]
    /\ UNCHANGED <<role, table, hubVars, handler, page>>

-------------------------------------------------------------------------------
(* The handler. *)

Subscribe(b) ==
    /\ handler[b] = "subscribe"
    /\ subs' = subs \cup {b}
    /\ slot' = slot \ {b}
    /\ Goto(b, "listener")
    /\ UNCHANGED <<role, table, page, shown, online>>

\* sendSSE: GetPeers reads the listeners, then the forwarders, ...
ReadTable(b) ==
    /\ handler[b] \in Roles
    /\ page' = [page EXCEPT ![b][handler[b]] = Listed(handler[b])]
    /\ Goto(b, IF handler[b] = "listener" THEN "forwarder" ELSE "flush")
    /\ UNCHANGED <<role, table, hubVars, shown, online>>

\* ... and the event is written; nobody looks at the error when the browser is gone.
Flush(b) ==
    /\ handler[b] = "flush"
    /\ shown' = IF b \in online THEN [shown EXCEPT ![b] = page[b]] ELSE shown
    /\ page' = [page EXCEPT ![b] = Blank]
    /\ Goto(b, "wait")
    /\ UNCHANGED <<role, table, hubVars, online>>

TakeEvent(b) ==
    /\ handler[b] = "wait"
    /\ b \in slot
    /\ slot' = slot \ {b}
    /\ Goto(b, "listener")
    /\ UNCHANGED <<role, table, subs, page, shown, online>>

\* Mutant: the end of the request is only looked at after an event.
UnsubscribeOnEvent(b) ==
    /\ handler[b] = "wait"
    /\ b \notin online /\ b \in slot
    /\ subs' = subs \ {b}
    /\ slot' = slot \ {b}
    /\ Goto(b, "none")
    /\ UNCHANGED <<role, table, page, shown, online>>

\* The request's context ends: unsubscribe and return.
Unsubscribe(b) ==
    /\ handler[b] = "wait"
    /\ b \notin online
    /\ subs' = subs \ {b}
    /\ slot' = slot \ {b}
    /\ Goto(b, "none")
    /\ UNCHANGED <<role, table, page, shown, online>>

Handler(b) == Subscribe(b) \/ ReadTable(b) \/ Flush(b) \/ TakeEvent(b) \/ Unsubscribe(b)

-------------------------------------------------------------------------------

\* What the handler of b will show next, or shows, is the table as it is now.
UpToDate(b) ==
    CASE handler[b] = "forwarder" -> page[b]["listener"] = Listed("listener")
      [] handler[b] = "flush" -> page[b] = Table
      [] handler[b] = "wait" -> b \in online => shown[b] = Table
      [] OTHER -> TRUE

===============================================================================
