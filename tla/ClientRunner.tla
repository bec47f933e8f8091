------------------------------ MODULE ClientRunner ------------------------------
(***************************************************************************)
(* The clients crflc around RelayServer: RunClient (pkg/relay/runner.go)   *)
(* connects, authenticates, registers and runs its mode, and starts again  *)
(* when any of it fails, asking for the index it was given last.  The      *)
(* server may crash and be started again, with empty tables.               *)
(*                                                                         *)
(* A connection whose goroutine has ended can be used again, so that a     *)
(* client may retry for ever.  Delays are not modelled: a back-off of any  *)
(* length is a client that takes no step for a while.  A mode that returns *)
(* nil, as those of a file do, would end the client; the modes here run    *)
(* until their connection ends.                                            *)
(***************************************************************************)
EXTENDS RelayProperties, Registration

CONSTANTS
    Clients,
    Configs,        \* the flags the clients are started with
    Wanted,         \* the indices they are started with (-i), -1 for any
    MaxFaults       \* bound: broken links, answers that take over 10 s, crashes, signals

ASSUME ClientsAssumption == MaxFaults \in Nat /\ Wanted \subseteq Index \cup {-1}

VARIABLES
    config,     \* client -> its flags
    at,         \* client -> "down", "wait" (for RegOK), "run" (its mode), "exit"
    cur,        \* client -> its connection, or NoConn
    actualIndex,\* client -> the index it asks for, -1 for any
    signalled,  \* clients whose ctx is cancelled
    faults      \* faults so far

clientVars == <<config, at, cur, actualIndex, signalled, faults>>
allVars == <<vars, clientVars>>

\* The request of a client whose Register frame the server reads as q.
AsRead(q) == [auth |-> TRUE, role |-> q.role, want |-> q.want, mode |-> q.mode,
              cidr |-> IF q.net = NoNet THEN NoCidr ELSE q.net, frames |-> 0]

\* What a client with flags f that asks for i is to the server.
RequestOf == [f \in Configs |-> [i \in Index \cup {-1} |->
    AsRead(ParseRegRequest(BuildRegisterPayload(f, i)))]]
Request(k) == RequestOf[config[k]][actualIndex[k]]

\* A client is started with flags that main and ResolveRole take, and the server may be
\* asked for all that they can mean.
ASSUME ConfigsAssumption ==
    /\ Requests # {}
    /\ \A f \in Configs :
        /\ f \in FlagSet /\ Accepted(f) /\ ResolveRole(f) # "error"
        /\ \A i \in Index \cup {-1} : AsRead(Meaning(f, i)) \in Requests

ListenFlags == {f \in Configs : ResolveRole(f) = "listener"}
Listens(k) == config[k] \in ListenFlags

ClientTypeOK ==
    /\ TypeOK
    /\ at \in [Clients -> {"down", "wait", "run", "exit"}]
    /\ cur \in [Clients -> Conns \cup {NoConn}]
    /\ actualIndex \in [Clients -> Index \cup {-1}]
    /\ config \in [Clients -> Configs]
    /\ \A k \in Clients : Request(k) \in Requests
    /\ signalled \subseteq Clients
    /\ faults \in 0..MaxFaults

\* A connection that does not exist yet is like one that has ended.
ClientInit ==
    /\ srvClosed = Conns /\ cliClosed = Conns
    /\ sent = [c \in Conns |-> 0] /\ read = sent /\ out = [c \in Conns |-> <<>>]
    /\ NewPeerMap /\ NewServerTUNContext
    /\ pc = [c \in Conns |-> "done"]
    /\ req = [c \in Conns |-> CHOOSE r \in Requests : TRUE]
    /\ idx = [c \in Conns |-> -1] /\ held = [c \in Conns |-> NoConn]
    /\ nextIndex = 0 /\ meta = [c \in Conns |-> NoMeta] /\ unseen = FALSE
    /\ config \in [Clients -> Configs]
    /\ at = [k \in Clients |-> "down"]
    /\ cur = [k \in Clients |-> NoConn]
    /\ actualIndex \in [Clients -> Wanted]
    /\ signalled = {} /\ faults = 0

-------------------------------------------------------------------------------
(* RunClient and connectAndRun. *)

Become(k, l, c) == at' = [at EXCEPT ![k] = l] /\ cur' = [cur EXCEPT ![k] = c]

\* Nothing in the server refers to c any more.
Unused(c) ==
    /\ pc[c] = "done"
    /\ \A k \in Clients : cur[k] # c
    /\ \A d \in Conns : held[d] # c
    /\ \A i \in Index : listeners[i] # c /\ c \notin forwarders[i]

\* A new connection: the password and the registration are on their way.
Connect(k) ==
    /\ at[k] = "down"
    /\ \E c \in Conns : Unused(c)
    /\ LET c == CHOOSE c \in Conns : Unused(c) IN
        /\ Become(k, "wait", c)
        /\ srvClosed' = srvClosed \ {c} /\ cliClosed' = cliClosed \ {c}
        /\ sent' = [sent EXCEPT ![c] = 0] /\ read' = [read EXCEPT ![c] = 0]
        /\ out' = [out EXCEPT ![c] = <<>>]
        /\ pc' = [pc EXCEPT ![c] = "auth"]
        /\ req' = [req EXCEPT ![c] = Request(k)]
        /\ idx' = [idx EXCEPT ![c] = -1]
    /\ UNCHANGED <<peerVars, tunVars, held, srvVars, config, actualIndex, signalled, faults>>

\* Mutant: what sleepWithCancel returns is thrown away, and ctx is not looked at again.
DialAnyway(k) == Connect(k)

\* ctx is looked at before a connection.
Dial(k) == k \notin signalled /\ Connect(k)

RegOKs(c) == {n \in 1..Len(out[c]) : out[c][n].type = "RegOK"}

\* waitForFrame returns the first RegOK, frames before it are thrown away; the index it
\* carries is the one to ask for from now on.
RegistersAs(k) ==
    /\ at[k] = "wait"
    /\ \E n \in RegOKs(cur[k]) :
        /\ \A m \in RegOKs(cur[k]) : n <= m
        /\ actualIndex' = [actualIndex EXCEPT ![k] = out[cur[k]][n].n]
    /\ Become(k, "run", cur[k])
    /\ UNCHANGED <<vars, config, signalled, faults>>

\* sess.Close: the connection is closed at this end, what has come in is forgotten.
Hangup(k, l) ==
    /\ Become(k, l, NoConn)
    /\ cliClosed' = cliClosed \cup {cur[k]}
    /\ out' = [out EXCEPT ![cur[k]] = <<>>]
    /\ UNCHANGED <<srvClosed, sent, read, peerVars, tunVars, regVars, srvVars>>
    /\ UNCHANGED <<config, actualIndex, signalled>>

\* The server has closed the connection: after a refusal or a wrong password, when the
\* index was taken over, when it crashed.
ServerHungUp(k) ==
    \/ at[k] = "wait" /\ RegOKs(cur[k]) = {} /\ cur[k] \in srvClosed
    \/ at[k] = "run" /\ cur[k] \in srvClosed

\* Mutant: RunClient returns when the registration fails.
AttemptEndsForGood(k) ==
    /\ ServerHungUp(k)
    /\ Hangup(k, IF at[k] = "wait" THEN "exit" ELSE "down")
    /\ UNCHANGED faults

\* Mutant: connectAndRun returns without the deferred Close.
AttemptEndsUnclosed(k) ==
    /\ ServerHungUp(k)
    /\ at' = [at EXCEPT ![k] = "down"]
    /\ UNCHANGED <<vars, config, cur, actualIndex, signalled, faults>>

AttemptEnds(k) ==
    /\ ServerHungUp(k)
    /\ Hangup(k, "down")
    /\ UNCHANGED faults

\* The answer is late, the link breaks or the mode fails.
AttemptFails(k) ==
    /\ at[k] \in {"wait", "run"}
    /\ faults < MaxFaults /\ faults' = faults + 1
    /\ Hangup(k, "down")

Signal(k) ==
    /\ k \notin signalled
    /\ faults < MaxFaults /\ faults' = faults + 1
    /\ signalled' = signalled \cup {k}
    /\ UNCHANGED <<vars, config, at, cur, actualIndex>>

\* ctx is looked at before a connection and in the wait between two, not during one.
ShutDown(k) ==
    /\ at[k] = "down" /\ k \in signalled
    /\ Become(k, "exit", NoConn)
    /\ UNCHANGED <<vars, config, actualIndex, signalled, faults>>

RunClient(k) == Dial(k) \/ RegistersAs(k) \/ AttemptEnds(k) \/ ShutDown(k)

-------------------------------------------------------------------------------
(* The server process ends, with all it holds in memory, and is started again. *)

Crash ==
    /\ faults < MaxFaults /\ faults' = faults + 1
    /\ srvClosed' = Conns
    /\ listeners' = [i \in Index |-> NoConn]
    /\ forwarders' = [i \in Index |-> {}]
    /\ cidr' = NoCidr /\ devUp' = FALSE /\ packet' = NoPacket
    /\ ipToTun' = [h \in Hosts |-> NoConn] /\ indexToIP' = [i \in Index |-> NoIP]
    /\ pc' = [c \in Conns |-> "done"]
    /\ held' = [c \in Conns |-> NoConn]
    /\ nextIndex' = 0 /\ meta' = [c \in Conns |-> NoMeta] /\ unseen' = FALSE
    /\ UNCHANGED <<cliClosed, sent, read, out, packets, req, idx>>
    /\ UNCHANGED <<config, at, cur, actualIndex, signalled>>

-------------------------------------------------------------------------------

ClientNext ==
    \/ \E k \in Clients : RunClient(k) \/ AttemptFails(k) \/ Signal(k)
    \/ \E c \in Conns : (Handshake(c) \/ HandleClient(c)) /\ UNCHANGED clientVars
    \/ Crash

ClientSpec == ClientInit /\ [][ClientNext]_allVars

\* The goroutines of the server, what a client has sent included, and the clients' own.
ClientFairness ==
    /\ \A c \in Conns :
           WF_allVars((Handshake(c) \/ HandleClient(c)) /\ UNCHANGED clientVars)
    /\ \A k \in Clients : WF_allVars(RunClient(k))

ClientFairSpec == ClientSpec /\ ClientFairness

-------------------------------------------------------------------------------
(* Properties. *)

\* Client and server agree on a connection: it is one client's, the server serves that
\* client's request on it, and once the client runs its mode both have the same index,
\* although the answer may have been late, or the server restarted before it.
ClientsAgree ==
    /\ ClientTypeOK
    /\ \A j, k \in Clients : j # k /\ cur[j] = cur[k] => cur[k] = NoConn
    /\ \A k \in Clients :
        /\ at[k] \in {"wait", "run"} <=> cur[k] # NoConn
        /\ cur[k] # NoConn => req[cur[k]] = Request(k) \/ at[k] = "run"
        /\ at[k] = "run" => idx[cur[k]] = actualIndex[k]

MeantIndices == {i \in Index \cup {-1} : MeantAt(i)}

\* Whatever index a client has come to ask for, with any flags: what the server reads in
\* the request it waits for is what the client means.
RequestIsMeant == \A k \in Clients : at[k] = "wait" => actualIndex[k] \in MeantIndices

DifferingIndices == {p \in Index \X Index : PortsDiffer(p[1], p[2])}

\* Listeners on one host that share a specification of ports and were given different
\* indices never want the same port, at the end of the list included.
PortsAreDistinct ==
    \A j, k \in Clients :
        LET i == <<actualIndex[j], actualIndex[k]>>
        IN  i \in Index \X Index /\ i[1] # i[2] => i \in DifferingIndices

\* A client keeps the index it was first given, whatever happens to its connections, to
\* the server and to the other clients (runner.go:108-109).
IndexIsKept ==
    [][\A k \in Clients : actualIndex[k] >= 0 => actualIndex'[k] = actualIndex[k]]_allVars

\* Two listeners that were given the same index: the server was restarted in between,
\* or assigned it twice.
Contend == \E j, k \in Clients :
    /\ j # k /\ actualIndex[j] = actualIndex[k] /\ actualIndex[j] >= 0
    /\ Listens(j) /\ Listens(k)

\* A listener runs its mode and is not in the table: the goroutine of its former
\* connection has unregistered it.
Stranded == \E k \in Clients :
    at[k] = "run" /\ Listens(k) /\ listeners[actualIndex[k]] # cur[k]

\* Every listener was told to stop: a forwarder is refused from then on.
Deserted == \A k \in Clients : Listens(k) => k \in signalled

\* However often links break and the server crashes, when that is over every client
\* that was not told to stop runs for good, with three exceptions: two listeners with one
\* index keep taking it from each other, nobody finds a stranded listener, and a
\* forwarder needs a listener.
EveryoneComesBack ==
    \/ <>[](\A k \in Clients : at[k] = "run" \/ k \in signalled)
    \/ <>[]Contend
    \/ <>[]Stranded
    \/ <>[]Deserted

\* A client that is told to stop does so: between two connections, in the wait too, and
\* otherwise once its connection has ended, whatever becomes of the server.
StopsWhenDisconnected ==
    \A k \in Clients :
        k \in signalled /\ (at[k] = "down" \/ cur[k] \in srvClosed) ~> at[k] = "exit"

===============================================================================
