------------------------------ MODULE RelayServer ------------------------------
(***************************************************************************)
(* The relay server crfls: one goroutine per connection runs HandleClient  *)
(* (pkg/relay/server.go) through authentication, registration, the relay   *)
(* loop and its cleanup, on the shared pairing table (PeerMap), the table  *)
(* of peer metadata, the unlocked counter nextIndex and, with -t, the TUN  *)
(* context.  A step of the model is what a goroutine does between two      *)
(* accesses to shared state; pc[c] names the statement it does next.       *)
(***************************************************************************)
EXTENDS PeerMap, TunContext

CONSTANTS
    Requests,       \* what a client may ask for, see RequestsAssumption
    Modes,          \* protocols of a registration: "tcp", "udp", "file"
    NoMeta,         \* a connection without an entry in the table of metadata
    MaxListeners,   \* -n: limit on listeners, 0 for none
    TunEnabled      \* -t: the server has a TUN context

\* The registrations the client of this repository can send, as parsed by
\* parseRegRequest: want is -1 for an index left to the server, and only a
\* listener asks for a TUN address.  frames bounds the data the client sends.
RequestsAssumption ==
    \A r \in Requests :
        /\ r.auth \in BOOLEAN
        /\ r.role \in {"listener", "forwarder"}
        /\ r.want \in Index \cup {-1}
        /\ r.mode \in Modes \cup {"tun"}
        /\ r.role = "forwarder" => r.mode # "tun"
        /\ r.frames \in Nat

ASSUME RequestsOK == RequestsAssumption
ASSUME ServerAssumption ==
    /\ MaxListeners \in Nat
    /\ TunEnabled \in BOOLEAN
    /\ "tun" \notin Modes
    /\ NoMeta \notin Modes \cup {"tun"}

VARIABLES
    pc,         \* the next statement of the goroutine of c
    req,        \* the request client c makes
    idx,        \* the index c is given, -1 before that
    held,       \* the listener a goroutine read from the table and still uses
    nextIndex,  \* the next index assigned automatically
    meta,       \* connection -> mode recorded for it, or NoMeta
    unseen      \* the table changed after the last notifyPeerChange

regVars == <<pc, req, idx, held>>
srvVars == <<nextIndex, meta, unseen>>
vars == <<connVars, peerVars, tunVars, regVars, srvVars>>

\* Control points of HandleClient.  Between "meta" and "unmeta" a connection
\* is in the tables or about to leave them.
Labels == {"auth", "assign", "bump", "limit", "pool", "route",
           "resolve", "match", "matchMeta", "install", "meta", "notify", "regok",
           "relay", "forward", "leave", "notifyLeave", "unmeta",
           "tunRelay", "tunLeave", "done"}

IsListener(c) == req[c].role = "listener"
IsTun(c) == req[c].mode = "tun"

RegTypeOK ==
    /\ pc \in [Conns -> Labels]
    /\ req \in [Conns -> Requests]
    /\ idx \in [Conns -> Index \cup {-1}]
    /\ held \in [Conns -> Conns \cup {NoConn}]

SrvTypeOK ==
    /\ nextIndex \in 0..(MaxIndex + 1)
    /\ meta \in [Conns -> Modes \cup {"tun", NoMeta}]
    /\ unseen \in BOOLEAN

TypeOK ==
    /\ ConnsTypeOK
    /\ PeerMapTypeOK
    /\ TunTypeOK
    /\ RegTypeOK
    /\ SrvTypeOK

Init ==
    /\ ConnsInit
    /\ NewPeerMap
    /\ NewServerTUNContext
    /\ pc = [c \in Conns |-> "auth"]
    /\ req \in [Conns -> Requests]
    /\ idx = [c \in Conns |-> -1]
    /\ held = [c \in Conns |-> NoConn]
    /\ nextIndex = 0
    /\ meta = [c \in Conns |-> NoMeta]
    /\ unseen = FALSE

Goto(c, l) == pc' = [pc EXCEPT ![c] = l]

\* HandleClient returns: the deferred t.Close runs.
Return(c) ==
    /\ Goto(c, "done")
    /\ srvClosed' = srvClosed \cup {c}

\* replyError, then an error return that ends HandleClient.
Refuse(c) ==
    /\ out' = Written({c}, Frame("Error", NoConn, 0))
    /\ Return(c)
    /\ UNCHANGED <<cliClosed, sent, read>>

-------------------------------------------------------------------------------
(* The client end of a connection. *)

\* A client forwards data once it has read the reply to its registration.
ClientSend(c) ==
    /\ Reachable(c)
    /\ \E k \in 1..Len(out[c]) : out[c][k].type = "RegOK"
    /\ sent[c] < req[c].frames
    /\ sent' = [sent EXCEPT ![c] = @ + 1]
    /\ UNCHANGED <<srvClosed, cliClosed, read, out, peerVars, tunVars, regVars, srvVars>>

\* The client closes, crashes or is cut off; a read deadline that passes at the
\* server is the same event, seen from there.
ClientGone(c) ==
    /\ Reachable(c)
    /\ cliClosed' = cliClosed \cup {c}
    /\ UNCHANGED <<srvClosed, sent, read, out, peerVars, tunVars, regVars, srvVars>>

-------------------------------------------------------------------------------
(* HandleClient: authentication and registration. *)

ServerAuthRejects(c) ==
    /\ pc[c] = "auth"
    /\ ~req[c].auth
    /\ Refuse(c)
    /\ UNCHANGED <<peerVars, tunVars, req, idx, held, srvVars>>

\* Receive fails, or the send of AuthOK, before the registration frame is read.
HandshakeFails(c) ==
    /\ pc[c] = "auth"
    /\ ReceiveFails(c)
    /\ Return(c)
    /\ UNCHANGED <<cliClosed, sent, read, out, peerVars, tunVars, req, idx, held, srvVars>>

\* The password is right, but the server is not in TUN mode.
RejectTun(c) ==
    /\ pc[c] = "auth"
    /\ req[c].auth
    /\ IsTun(c) /\ ~TunEnabled
    /\ out' = [out EXCEPT ![c] =
                  IF Reachable(c) THEN @ \o <<Frame("AuthOK", NoConn, 0), Frame("Error", NoConn, 0)>>
                                  ELSE @]
    /\ Return(c)
    /\ UNCHANGED <<cliClosed, sent, read, peerVars, tunVars, req, idx, held, srvVars>>

\* Mutant: a listener is always given a new index.
DispatchRegAnew(c) ==
    /\ pc[c] = "auth"
    /\ req[c].auth
    /\ IsTun(c) => TunEnabled
    /\ out' = Written({c}, Frame("AuthOK", NoConn, 0))
    /\ idx' = [idx EXCEPT ![c] = req[c].want]
    /\ Goto(c, IF IsListener(c) THEN "assign" ELSE IF req[c].want >= 0 THEN "match" ELSE "resolve")
    /\ UNCHANGED <<srvClosed, cliClosed, sent, read, peerVars, tunVars, req, held, srvVars>>

\* The password is right, AuthOK goes out and the registration frame is read and
\* parsed; an explicit index is taken as it is, a missing one is assigned
\* (listener) or looked up (forwarder).
DispatchReg(c) ==
    /\ pc[c] = "auth"
    /\ req[c].auth
    /\ IsTun(c) => TunEnabled
    /\ out' = Written({c}, Frame("AuthOK", NoConn, 0))
    /\ idx' = [idx EXCEPT ![c] = req[c].want]
    /\ Goto(c, IF IsListener(c) THEN IF req[c].want >= 0 THEN "limit" ELSE "assign"
                                ELSE IF req[c].want >= 0 THEN "match" ELSE "resolve")
    /\ UNCHANGED <<srvClosed, cliClosed, sent, read, peerVars, tunVars, req, held, srvVars>>

\* assignIndex reads nextIndex ...
AssignIndex(c) ==
    /\ pc[c] = "assign"
    /\ nextIndex \in Index
    /\ idx' = [idx EXCEPT ![c] = nextIndex]
    /\ Goto(c, "bump")
    /\ UNCHANGED <<connVars, peerVars, tunVars, req, held, srvVars>>

\* ... and increments it with no lock: the increment starts from the value read
\* before or from the one in memory now.
BumpNextIndex(c) ==
    /\ pc[c] = "bump"
    /\ nextIndex' \in {idx[c] + 1, nextIndex + 1} \cap 0..(MaxIndex + 1)
    /\ Goto(c, "limit")
    /\ UNCHANGED <<connVars, peerVars, tunVars, req, idx, held, meta, unseen>>

AtLimit == MaxListeners > 0 /\ ListenerCount >= MaxListeners

CheckListenerLimit(c) ==
    /\ pc[c] = "limit"
    /\ ~AtLimit
    /\ Goto(c, IF IsTun(c) THEN "pool" ELSE "install")
    /\ UNCHANGED <<connVars, peerVars, tunVars, req, idx, held, srvVars>>

\* Mutant: the error is sent and the registration goes on.
TooManyListenersGoesOn(c) ==
    /\ pc[c] = "limit"
    /\ AtLimit
    /\ out' = Written({c}, Frame("Error", NoConn, 0))
    /\ Goto(c, "install")
    /\ UNCHANGED <<srvClosed, cliClosed, sent, read, peerVars, tunVars, req, idx, held, srvVars>>

TooManyListeners(c) ==
    /\ pc[c] = "limit"
    /\ AtLimit
    /\ Refuse(c)
    /\ UNCHANGED <<peerVars, tunVars, req, idx, held, srvVars>>

\* An index is chosen for a forwarder only when exactly one listener exists.
ResolveForwarderIndex(c) ==
    /\ pc[c] = "resolve"
    /\ \E i \in Index :
        /\ ListenerIndices = {i}
        /\ idx' = [idx EXCEPT ![c] = i]
    /\ Goto(c, "match")
    /\ UNCHANGED <<connVars, peerVars, tunVars, req, held, srvVars>>

NoSingleListener(c) ==
    /\ pc[c] = "resolve"
    /\ ListenerCount # 1
    /\ Refuse(c)
    /\ UNCHANGED <<peerVars, tunVars, req, idx, held, srvVars>>

\* checkProtocolMatch reads the listener of the index, none being no mismatch.
LookupListener(c) ==
    /\ pc[c] = "match"
    /\ held' = [held EXCEPT ![c] = GetListener(idx[c])]
    /\ Goto(c, IF GetListener(idx[c]) = NoConn THEN "install" ELSE "matchMeta")
    /\ UNCHANGED <<connVars, peerVars, tunVars, req, idx, srvVars>>

Mismatch(c) == meta[held[c]] \notin {NoMeta, req[c].mode}

\* The metadata of that listener is read under another lock; a listener without
\* metadata is no mismatch either.
CheckProtocolMatch(c) ==
    /\ pc[c] = "matchMeta"
    /\ ~Mismatch(c)
    /\ held' = [held EXCEPT ![c] = NoConn]
    /\ Goto(c, "install")
    /\ UNCHANGED <<connVars, peerVars, tunVars, req, idx, srvVars>>

ProtocolMismatch(c) ==
    /\ pc[c] = "matchMeta"
    /\ Mismatch(c)
    /\ held' = [held EXCEPT ![c] = NoConn]
    /\ Refuse(c)
    /\ UNCHANGED <<peerVars, tunVars, req, idx, srvVars>>

\* A TUN listener needs the pool and an address before it enters the table.
TunEnsurePool(c) ==
    /\ pc[c] = "pool"
    /\ EnsurePool(req[c].cidr)
    /\ Goto(c, "route")
    /\ UNCHANGED <<connVars, peerVars, req, idx, held, srvVars>>

TunPoolFails(c) ==
    /\ pc[c] = "pool"
    /\ EnsurePoolFails(req[c].cidr)
    /\ Refuse(c)
    /\ UNCHANGED <<peerVars, req, idx, held, srvVars>>

TunRegisterClient(c) ==
    /\ pc[c] = "route"
    /\ InPool(idx[c])
    /\ RegisterClient(idx[c], c)
    /\ Goto(c, "install")
    /\ UNCHANGED <<cliClosed, sent, read, out, peerVars, req, idx, held, srvVars>>

TunOutOfRange(c) ==
    /\ pc[c] = "route"
    /\ ~InPool(idx[c])
    /\ Refuse(c)
    /\ UNCHANGED <<peerVars, tunVars, req, idx, held, srvVars>>

InstallListener(c) ==
    /\ pc[c] = "install"
    /\ IsListener(c)
    /\ RegisterListener(idx[c], c)
    /\ unseen' = TRUE
    /\ Goto(c, "meta")
    /\ UNCHANGED <<tunVars, req, idx, held, nextIndex, meta>>

InstallForwarder(c) ==
    /\ pc[c] = "install"
    /\ ~IsListener(c)
    /\ RegisterForwarder(idx[c], c)
    /\ unseen' = TRUE
    /\ Goto(c, "meta")
    /\ UNCHANGED <<tunVars, req, idx, held, nextIndex, meta>>

\* handleTUNListener does not notify.
StoreMeta(c) ==
    /\ pc[c] = "meta"
    /\ meta' = [meta EXCEPT ![c] = req[c].mode]
    /\ unseen' = TRUE
    /\ Goto(c, IF IsTun(c) THEN "regok" ELSE "notify")
    /\ UNCHANGED <<connVars, peerVars, tunVars, req, idx, held, nextIndex>>

NotifyPeerChange(c) ==
    /\ pc[c] \in {"notify", "notifyLeave"}
    /\ unseen' = FALSE
    /\ Goto(c, IF pc[c] = "notify" THEN "regok" ELSE "unmeta")
    /\ UNCHANGED <<connVars, peerVars, tunVars, req, idx, held, nextIndex, meta>>

\* The reply follows the registration; its error is ignored.
SendRegOK(c) ==
    /\ pc[c] = "regok"
    /\ out' = Written({c}, Frame("RegOK", NoConn, idx[c]))
    /\ Goto(c, IF IsTun(c) THEN "tunRelay" ELSE "relay")
    /\ UNCHANGED <<srvClosed, cliClosed, sent, read, peerVars, tunVars, req, idx, held, srvVars>>

-------------------------------------------------------------------------------
(* relayLoop and its cleanup. *)

\* Mutant: a frame stays in the connection's buffer after it was read.
ReceivedAgain(c) == read' = read

Received(c) == read' = [read EXCEPT ![c] = @ + 1]

DataFrame(c) == Frame("Data", c, read[c] + 1)

RelayFromListener(c) ==
    /\ pc[c] = "relay"
    /\ IsListener(c)
    /\ FrameArrived(c)
    /\ Received(c)
    /\ BroadcastFromListener(idx[c], DataFrame(c))
    /\ unseen' = (unseen \/ forwarders' # forwarders)
    /\ UNCHANGED <<srvClosed, cliClosed, sent, tunVars, regVars, nextIndex, meta>>

\* SendToListener reads the listener under the lock; without one the frame is
\* dropped.
RelayFromForwarder(c) ==
    /\ pc[c] = "relay"
    /\ ~IsListener(c)
    /\ FrameArrived(c)
    /\ Received(c)
    /\ held' = [held EXCEPT ![c] = listeners[idx[c]]]
    /\ Goto(c, IF listeners[idx[c]] = NoConn THEN "relay" ELSE "forward")
    /\ UNCHANGED <<srvClosed, cliClosed, sent, out, peerVars, tunVars, req, idx, srvVars>>

\* The send to it happens outside the lock; its error ends the loop.
SendToListener(c) ==
    /\ pc[c] = "forward"
    /\ \/ SendSucceeds(held[c]) /\ Goto(c, "relay")
       \/ SendFails(held[c]) /\ Goto(c, "leave")
    /\ out' = Written({held[c]}, Frame("Data", c, read[c]))
    /\ held' = [held EXCEPT ![c] = NoConn]
    /\ UNCHANGED <<srvClosed, cliClosed, sent, read, peerVars, tunVars, req, idx, srvVars>>

RelayEnds(c) ==
    /\ pc[c] = "relay"
    /\ ReceiveFails(c)
    /\ Goto(c, "leave")
    /\ UNCHANGED <<connVars, peerVars, tunVars, req, idx, held, srvVars>>

Unregister(c) ==
    /\ pc[c] = "leave"
    /\ IF IsListener(c) THEN UnregisterListener(idx[c])
                        ELSE UnregisterForwarder(idx[c], c)
    /\ unseen' = (unseen \/ peerVars' # peerVars)
    /\ Goto(c, "notifyLeave")
    /\ UNCHANGED <<tunVars, req, idx, held, nextIndex, meta>>

\* Mutant: the deferred removeMeta is missing.
RemoveNothing(c) ==
    /\ pc[c] = "unmeta"
    /\ Return(c)
    /\ UNCHANGED <<cliClosed, sent, read, out, peerVars, tunVars, req, idx, held, srvVars>>

\* The deferred removeMeta, then the end of HandleClient.
RemoveMeta(c) ==
    /\ pc[c] = "unmeta"
    /\ meta' = [meta EXCEPT ![c] = NoMeta]
    /\ Return(c)
    /\ UNCHANGED <<cliClosed, sent, read, out, peerVars, tunVars, req, idx, held, nextIndex, unseen>>

-------------------------------------------------------------------------------
(* serverTUNRelayLoop and the reader of the TUN device. *)

\* A client's packet is written to the device; a failed write ends the loop.
TunFromClient(c) ==
    /\ pc[c] = "tunRelay"
    /\ FrameArrived(c)
    /\ Received(c)
    /\ Goto(c, "tunRelay") \/ Goto(c, "tunLeave")
    /\ UNCHANGED <<srvClosed, cliClosed, sent, out, peerVars, tunVars, req, idx, held, srvVars>>

TunRelayEnds(c) ==
    /\ pc[c] = "tunRelay"
    /\ ReceiveFails(c)
    /\ Goto(c, "tunLeave")
    /\ UNCHANGED <<connVars, peerVars, tunVars, req, idx, held, srvVars>>

\* The route goes; the entries of the pairing table and of meta stay.
TunUnregister(c) ==
    /\ pc[c] = "tunLeave"
    /\ UnregisterClient(idx[c])
    /\ Return(c)
    /\ UNCHANGED <<cliClosed, sent, read, out, peerVars, req, idx, held, srvVars>>

TunReadLoop ==
    /\ TunEnabled
    /\ \/ TunLookup /\ UNCHANGED connVars
       \/ TunDeliver /\ UNCHANGED <<srvClosed, cliClosed, sent, read>>
    /\ UNCHANGED <<peerVars, regVars, srvVars>>

-------------------------------------------------------------------------------

\* What the goroutine does when a frame of the handshake has come in ...
Handshake(c) ==
    ServerAuthRejects(c) \/ RejectTun(c) \/ DispatchReg(c)

\* ... and what it does by itself.
HandleClient(c) ==
    \/ HandshakeFails(c)
    \/ AssignIndex(c) \/ BumpNextIndex(c)
    \/ CheckListenerLimit(c) \/ TooManyListeners(c)
    \/ ResolveForwarderIndex(c) \/ NoSingleListener(c)
    \/ LookupListener(c) \/ CheckProtocolMatch(c) \/ ProtocolMismatch(c)
    \/ TunEnsurePool(c) \/ TunPoolFails(c) \/ TunRegisterClient(c) \/ TunOutOfRange(c)
    \/ InstallListener(c) \/ InstallForwarder(c) \/ StoreMeta(c)
    \/ NotifyPeerChange(c) \/ SendRegOK(c)
    \/ RelayFromListener(c) \/ RelayFromForwarder(c) \/ SendToListener(c)
    \/ RelayEnds(c) \/ Unregister(c) \/ RemoveMeta(c)
    \/ TunFromClient(c) \/ TunRelayEnds(c) \/ TunUnregister(c)

Client(c) == ClientSend(c) \/ ClientGone(c)

Next ==
    \/ \E c \in Conns : Client(c) \/ Handshake(c) \/ HandleClient(c)
    \/ TunReadLoop

Spec == Init /\ [][Next]_vars

\* Every goroutine of the server that can take a step is scheduled eventually;
\* nothing is asked of the clients, the frames of the handshake included.
Fairness ==
    /\ \A c \in Conns : WF_vars(HandleClient(c))
    /\ WF_vars(TunReadLoop)

FairSpec == Spec /\ Fairness

===============================================================================
