# CloudMirror, verified

CloudMirror (`src/`, Go) is a reverse tunnel. A relay server `crfls` accepts TLS
connections from clients `crflc`. A client registers as a *listener* or a *forwarder* of a
small integer *index*; the server pairs the listener of an index with its forwarders and
relays frames between them. On top of that the clients multiplex TCP connections and UDP
flows, transfer a file, or (with the server's `-t`) join a TUN network.

This directory holds TLA+ models of that code, the TLC runs that check them and TLAPS proofs
of every safety property. The repository has no tests and no prose documentation: everything here is
read off the Go source, and its comments are the only statements of intent there are.

## 1. Inventory

| Component | Source (`src/pkg/...`) | State | Operations | Talks to |
|---|---|---|---|---|
| Relay server | `relay/server.go`, `auth/auth.go` | `meta`, `nextIndex`, one goroutine per connection | `HandleClient`: authenticate, `dispatchReg`, `relayLoop`, cleanup; `Shutdown` | pairing table, TUN context, console |
| Pairing table | `relay/peermap.go` | `listeners`, `forwarders` under one mutex | register, unregister, broadcast, send to listener | closes and writes the connections of other goroutines |
| Server TUN context | `relay/tun.go`, `tun/ippool.go` | pool, routes in both directions, device | `ensurePool`, `RegisterClient`, `UnregisterClient`, `tunReadLoop` | connections of other goroutines |
| Frame connection | `tunnel/tunnel.go`, `protocol/*.go` | a socket, `writeMu` | `Send`, `Receive`, `Close` | everything |
| Session | `session/session.go` | read pump, bounded channel, two signal channels | `Send`, `FrameCh`, `Close` | client modes |
| TCP multiplexer | `relay/tcp.go`, `stream.go`, `utils.go` | `StreamMap`: identifier to connection; a goroutine per connection | accept, dial, read loop, frame loop | session |
| UDP multiplexer | `relay/udp.go` | address and identifier maps | the same over datagrams | session |
| File transfer | `relay/file.go` | the file, counters | meta, chunks, end | session |
| Client runner, modes | `relay/runner.go`, `mode.go` | last index, backoff | connect, register, run, retry | server, session |
| Keepalive | `relay/keepalive.go` | a ticker | ping both ways | 90 s read deadline |
| Console | `relay/web/*` | subscribers | `Broadcast`, SSE stream | `notifyPeerChange` |
| Processes, device | `cmd/*`, `tun/tun.go` | flags, sockets | I/O | |

**What is hard in it.** The server's goroutines share four things guarded by four different
means: the pairing table (`pm.mu`), the metadata (`metaMu`), the TUN context (`ctx.mu`)
and `nextIndex` (nothing). A registration is a sequence of steps on them with no lock held
across it: limit check, protocol check, installation, metadata, notification, reply. A new
listener of an index closes the old one's connection from its own goroutine, and the old one
then cleans up *by index*. `SendToListener` and `tunReadLoop` use a connection after they have
unlocked the table it came from. On the client the read pump of a session drops frames that do
not fit, `Close` waits for a pump that may be blocked, and a TCP stream is closed by both ends
at once, each through two goroutines and two maps.

The processes add time and failure: deadlines on both ends against heartbeats of goroutines that
write to the same socket, clients that reconnect with the index of last time, to a server that may not
have noticed the old connection's end or was restarted, file senders that start over, a shutdown that
counts connections which count themselves, a console whose events are dropped when its channel is full.

**What makes it correct**, component by component:

- server and pairing table: the table leads only to living connections of the right role and
  index; data stays within an index and in order; nobody is unpaired without being told;
  metadata agrees with the table; a refusal leaves nothing behind; goroutines end;
- TUN context and pool: the two route tables agree and lie in the one network; addresses are those of
  that network and distinct; packets reach their address;
- frame connection and keepalive: frames of two writers stay whole; who is alive is not timed out,
  who is not is noticed;
- session: what comes out is a subsequence of what went in, losses need a lagging consumer,
  every call ends;
- TCP multiplexer: streams do not mix, data written before a close arrives, both ends end;
- UDP multiplexer: a connection to the target has one sender, and a flow is silent or left behind only
  for a reason; answers reach their sender (they do not, section 5);
- file transfer: a report of success means the whole file, any other report has a cause;
- client: it asks for what its flags mean, keeps its index, agrees with the server on it, comes back, and
  stops when it is told to, unless a connection is running;
- process and console: the last change is shown (not that of a TUN client, section 5), the report of a shutdown
  is true, the process exits.

`PROJECT.json` lists each hazard at its line with the properties that cover it.

## 2. Modules

| Module | Models | Remarks |
|---|---|---|
| `RelayConns` | the server's view of its connections | frames to a client are a log that only grows; frames from it are counted |
| `PeerMap` | `peermap.go` | one operator per critical section |
| `TunContext` | `ServerTUNContext`, its reader | addresses are host numbers of one network |
| `IPPool` | `ippool.go` | address bytes and their carries, against the set of addresses of a network |
| `RelayAddresses` | the server's routes over that arithmetic | composes `RelayProperties` and `IPPool` |
| `RelayServer` | `HandleClient` of every connection, on all of the above | `pc[c]` is the goroutine's next statement |
| `RelayProperties` | what the server promises | the last property is refuted, see section 5 |
| `RelayServerProofs`, `RelayTableProofs` | inductive invariants, theorems | the second builds on the first and on `RelayAddresses` |
| `SessionPromise` | the abstract session | three variables |
| `Session` | `session.go` | refines `SessionPromise` |
| `FileTransfer` | `file.go`, both ends | extends `Session`: the receiver is its consumer |
| `FileTransferProofs` | theorems | about `Session` and `FileTransfer` |
| `StreamPromise` | the abstract stream: a pipe in each direction | three variables |
| `StreamMux` | `tcp.go`, `stream.go`, both ends | over an ordered link; refines `StreamPromise` |
| `StreamMuxProofs` | inductive invariants, theorems | |
| `UdpMux` | `udp.go`, one listener, many forwarders | over links that may drop |
| `UdpMuxProofs` | inductive invariants, theorems | |
| `Registration` | flags, ports, payload, parsing, modes | pure operators |
| `ClientRunner` | `RunClient` of every client around `RelayServer`, crash and restart | composes `RelayProperties` and `Registration` |
| `RegistrationProofs` | theorems | about `Registration` and `ClientRunner`; uses those about the server |
| `Tunnel` | one connection in time: two writers at each end, heartbeats, deadlines | |
| `TunnelProofs` | theorems | |
| `Console` | the hub and the handlers of the console | |
| `ServerProcess` | `crfls`: accept loop, wait group, shutdown | composes `Console` with its connections |
| `ServerProcessProofs` | theorems | |
| `MCRelay`, `MCStreamMux`, `MCReconnect`, `MCServerProcess` | instances for TLC | requests, histories, bounds |

**RelayServer.** A step is what one goroutine does between two accesses to shared state, so a
critical section is one step and the gaps between critical sections are where others run.
`HandleClient(c)` is the disjunction of the steps; their order is the code's. Reading the two
frames of the handshake, which touches nothing shared, is one step with the parsing of
the registration; a failure in between is `HandshakeFails`. A registration is a record: `auth`
(the password is right), `role`, `want` (an index, or -1 to leave it to the server), `mode`,
`cidr`, and `frames`, a bound on the data the client sends. `RequestsAssumption` says which
records the clients of this repository can send. `nextIndex++` without a lock is the choice between the
value read and the value in memory (`BumpNextIndex`). `Receive` may fail as soon as either end is
closed, and may also still return frames sent before; a passed read deadline is the same
event as a client that is gone (`Tunnel` looks at the deadlines themselves). `Send` to a client that
has left may succeed or fail. Sends do not block: blocking under `pm.mu` is a hazard of its own, listed
and not modelled. Frames of the keepalive are left out here, they change no table.

**Session and FileTransfer.** The pump's `select` with a default is three actions; the one that drops is
enabled only when neither channel operation is. A deadline may pass whenever no frame is waiting.
In `FileTransfer` the frames that `Session` numbers get a meaning from `log`: the server appends to it what
the sender sends while the receiver is paired. When the sender's connection breaks it starts over
with FileMeta; `old` holds what the handler of the former connection still does (relay the frame it had
read, unregister), at any later time. The receiver's state is `recvState`: `HandleMeta`, `HandleData`
and `HandleEnd` are the branches of its loop. The server puts the receiver in its list (`Pair`, `server.go:297`) before it writes the RegOK
(`AnswerReceiver`, `server.go:210`); until the receiver has read that, it is in `waitForFrame`, which throws other frames away
(`Discard`, `TakeRegOK`). What is relayed in between is therefore lost: a FileMeta that was thrown away means chunks without a
file and a warning, a FileEnd means "session closed before receiving FileEnd". The properties count from `regOK`, the place of
the RegOK in the log.

**StreamMux.** `hand[e]` is the frame loop of end `e` between the lookup of a connection and
its use. The tunnel is that of a listener with one forwarder and loses nothing until the session
ends, at which point any suffix of what is in flight is lost in each direction. Writes to a local socket
never block and a `Close` does not discard what was written to it before. An application that closes only its writing half
counts as gone: `connReadLoop` closes both halves on EOF (`tcp.go:45-47`), so what is still sent to it is lost in the code as well. For `StreamPromise` an end is over
(`EndsOver`) once its connection is closed from either side.

**UdpMux.** The listener reads a datagram, finds or gives an identifier and sends (`hand` is what it has
in hand); what it sends goes to every forwarder that is paired then. Each forwarder has its own
`StreamMap` (`entries`) and one `connReadLoop` per identifier (`loop`), which the listener's map
(`clients`) shares. A full channel drops a frame (`MaxLost` of them), and what a forwarder is
sent before its RegOK, which `waitForFrame` throws away, counts among these; `missed` and `kept` remember a lost
PeerJoin and PeerLeave and appear in properties only.

**Registration.** A payload is the sequence of its fields; the model has the defaults and positions that
formatting and parsing agree on, and its operators are also what the clients of `ClientRunner` register with. `resolvePort` is `ResolvePort`, a function of the port list and the index.

**ClientRunner.** Extends the whole server. A connection is one of `Conns` that nobody refers to any more
(`Unused`), so clients can reconnect for ever in a finite instance. A client starts with the index of its `-i` flag, one of `Wanted`,
or with -1; `ctx` is looked at before a connection (`Dial`) and in the wait between two (`ShutDown`). `AttemptFails` is a broken link, an
answer that comes too late or a mode that ends with an error; `Crash` empties every table, that of the TUN
context included, loses `nextIndex` and closes all connections. The delays between attempts are not modelled: a client that waits
is a client that takes no step.

**Tunnel.** A frame is two writes under `writeMu`, `wire[e]` is the byte stream in pieces, and the
reader takes a header and then what the header announces. Time passes in units of ten seconds
(`Interval` 3, `ReadTimeout` 9, `ReplyTimeout` 1), and only when nothing is left to do that takes no time
(`Quiet`); a piece may be under way for up to `MaxLag` units. `cut` is a network that has gone silent.

**Console and ServerProcess.** A handler of `/api/events` reads the pairing table in two critical sections
and flushes; `slot` is the set of subscribers whose one-place channel is full. `ServerProcess` leaves
of `HandleClient` what the process sees of it: the goroutine counts itself, enters the table and notifies,
leaves it and notifies, is done. The table is a set of connections with a `role` and an `index`, enough to know whom a change takes out:
`RegisterListener` replaces the listener of the index and breaks its connection, the end of a listener takes out whoever is
listener of the index and its forwarders (`Removed`), `BroadcastFromListener` drops forwarders whose connection is
`broken`, without a notification, and a TUN listener (role `"tun"`, listed with the listeners) enters without one and
never leaves. `silent` remembers whom such a change has touched since the last notification; it appears in properties only.

## 3. Runs

Deadlock checking is off in all of them: a connection, a transfer, a process come to their end,
so the system may rightly stop; where it must not stop early, a liveness property says so.

| Run | Question | Instance |
|---|---|---|
| `relay_pairing` | takeover, pairing, departure; who gets whose data, in which order | 3 connections, up to 3 frames, 2 indices, no limit |
| `relay_registration` | registration, refusals, the race on `nextIndex`; routes, the reader of the device, the arithmetic of the pool | 3 connections, 2 indices, limit 2; 2 networks of capacity 2 and 1, one packet; every network of addresses of 6 bits |
| `mux_streams` | is every stream a pipe of its own | 2 streams, one writer of 2 chunks, resets |
| `mux_liveness` | do both ends end, does written data arrive | 1 stream, 2 and 1 chunks, close, reset, end of session |
| `file_transfer` | what a receiver's report means; the session's promise | channel of 2, 5 frames with the RegOK, 0 or 2 chunks, 2 attempts |
| `file_closing` | does the range end, does `Close` return | the same with 1 attempt |
| `udp_mux` | who shares a connection, who stays silent, what is left behind | 2 addresses, 2 forwarders, 2 identifiers, 2 datagrams, 1 reply, 1 lost frame |
| `reconnect` | does everybody come back, with which index; what flags mean to the server | 2 connections, 2 clients, 1 fault |
| `server_process` | does the console catch up, is the report of a shutdown true, does the process exit | 2 connections of 1 index, 3 roles, 1 console, a signal |
| `tunnel` | whole frames, deadlines, heartbeats | 1 connection, lag of up to 20 s, 1 data frame |
| `bug_*` | what the source says and the code does not keep (section 5) | 2 connections; 1 address and 1 forwarder |

**Why the bounds are enough.** Three connections are one that is replaced, one that replaces it, and
one peer or stranger that watches; the hazards of the table are between two goroutines and a third
that holds a reference. Two indices suffice for frames or addresses to go astray and for an
index assigned twice; the network of capacity 1 makes the second index out of range. Three frames
distinguish a gap, a repetition and an inversion in the middle of a run. In `relay_pairing` one client
sends: a listener three frames or a forwarder two when the others are of the other role and at its index,
one frame when another client has its role or one of them is at another index. Or a listener meets clients that are turned away.
In `relay_registration` the clients are TUN clients, or two listeners or two forwarders that leave
the index to the server and a third of another kind: two that race, and one that is in their way. A limit of two stops a third
listener only when both indices are taken, so that the takeover of a sole listener is not refused. A channel of two
distinguishes full, half full and empty, and five frames fill it twice: the RegOK and a file of two chunks, or the RegOK,
a file without chunks and what a second attempt or a PeerLeave adds. One attempt is enough for how the goroutines of the receiver end,
which does not look into the frames.
One application that writes two chunks suffices for a gap or an inversion, and the other stream shows
what strays. Two forwarders are one that knows a flow and one that does not, or one that refuses and
one that answers. Two clients are a listener and a second one that needs it or contends with it; two
connections suffice because one whose goroutine has ended is used again, and six indices
(`MaxIndex` 5) because no run of the instance hands out more: the bound never stops `AssignIndex`. One fault at
any point is a loss, a late answer, a crash or a signal; after it the instance is as it was, with other
indices, so a second one meets no new state of the tables, only larger indices. Clients send no data in `reconnect` (a broadcast that
fails is in `relay_pairing` and `server_process`) and its server has no listener limit (that is in `relay_registration`).
In `server_process` both connections have one index, since a connection of another index changes nothing of theirs in the table;
two connections are a listener and what it replaces, drops or unpairs. They differ in nothing but their roles, so one order of these
is enough (`InOrder`). In `tunnel` a
lag of two units is longer than the wait for an answer and shorter than the heartbeat. Six address bits
are two bytes of three bits: prefixes that end within either byte, and carries across.

**Fairness.** The Go scheduler runs every goroutine that is ready, so each goroutine of the server,
and the reader of the device, has weak fairness as a whole (`HandleClient(c)`, not per action).
Data and departures are the client's and have none; that a vanished client is noticed is the read
deadline (`ReceiveFails`, and in detail `SilenceIsNoticed`). In `reconnect` the handshake is fair too, since the client's
code sends it unasked, and so is each client's loop; links, signals and crashes are free.
In `Session` the pump's steps are fair; `select` chooses at random among ready cases, which is strong
fairness for the branch of `closeCh`: without it the pump could prefer a channel that always has
room. No fairness is asked of the owner before it calls `Close`, nor of the peer. `FileTransfer` adds the
receiver and its deferred `Close`, and asks nothing of the sender, the network or the old handlers. In `StreamMux` the
applications and the session are free; the goroutines of both ends are fair, and a dial ends. The same
holds in `UdpMux`, with free targets, senders and registrations. In `ServerProcess` the goroutines, which notice
a broken connection at the latest at their read deadline, and the
30 s of `Shutdown` are fair, clients, browsers and the signal are not. In `Tunnel` the goroutines and the
passing of time are.

**What the runs show.** In every interleaving of those instances: the pairing table never refers
to a goroutine that has cleaned up, data crosses neither indices nor roles and arrives without gap
or repetition, a forwarder that is unpaired is told, only a takeover closes somebody else's
connection, the metadata follows the table, a refusal leaves no trace, routes agree and stay in the
pool, whose arithmetic gives distinct addresses of its network. Streams do not mix and end together. A
session loses frames only of a consumer that lags more than its channel holds, keeps the order of the
rest, and `Close` returns; on top of it, a file reported as received is whole if it came from one
attempt whose reads did not fail, and a warning or a missing end has a cause: a lag, a second attempt, or a frame that came
before the RegOK. A connection to a UDP target has one sender, an
address is silent only after a loss or towards a forwarder that came later, a connection is left
behind only by another forwarder's PeerLeave. After a fault everybody comes back and keeps the index,
with three exceptions that `EveryoneComesBack` names: two listeners with one index keep taking it from each other
(`Contend`), the late cleanup of a former listener hides its successor (`Stranded`), and a forwarder needs a
listener that is still there (`Deserted`). A client that was told to stop does, at once when it waits
between two connections, otherwise when its connection ends. The
console shows the last change, that of a TUN client excepted, a shutdown's report is true, the process exits once the consoles are
closed. Frames are whole, nobody is taken for dead while the network works (a TUN client excepted,
which gets no heartbeats: `tun.go:164`), and silence is noticed from any step of the handshake.

Every property is refuted when one mapped definition is replaced by a plausible bug of the code
(the operators commented "Mutant").

## 4. Proofs

All theorems are for all values of the constants that satisfy the named assumptions of their modules; two
state a premise of their own (`ConsoleIsNotified`, `NobodyIsTakenForDead`) and two a condition on the state
(`StreamsKeepPromise`, `StreamsArriveInOrder`). Every invariant and every safety property of steps of the passing runs is
stated by a theorem. An inductive invariant that no run checks is defined in the proof module that needs it.

**The server** (any number of connections, indices, requests, any limit, with or without TUN; assumed
are `NoConn` no connection, bounds and capacities natural, requests as `RequestsAssumption` says).

`RelayServerProofs`: `TypeCorrect`, in which it is not obvious that no goroutine uses an index it was
not given; `InvariantHolds`, the inductive `RelayInvariant`; `TableIsSound`; `RelayIsIsolated`.
`Isolation` compares the indices of a sender and a receiver long after the frame was
delivered, so indices must not change any more: `Settled` connections are behind every
assignment to `idx`, and the table (`TableSettled`) and the logs (`DataSettled`) only mention settled
ones. `SendToListener` delivers to the listener it looked up before it released the lock, which
may have left the table since; `HeldIsAListener` keeps what was true at the lookup, that it is a
listener of the forwarder's index, and nothing about the table now. `TableHoldsTheLiving` needs
that a goroutine that leaves takes *its own* entry out: by index, which is right because the index
of a registered connection is the only one where the table can mention it. The proof has a lemma
per action or group of actions that leave the same variables alone, and combines them in `NextStep`.

`RelayTableProofs`, the TUN context: `PoolNeverChanges` (an action property), and the inductive `TunInvariant` behind
`RoutesAreSound` and `PacketsAreDelivered`. `PoolBeforeRoute` says that a goroutine comes to its route through a pool,
`PacketIsRouted` that the packet in the hands of `tunReadLoop` was looked up for the address of the client it will be
sent to, whatever has become of the route. A route is removed by index, which may be a successor's: both
tables are then still the same, which is all that is promised.

`RelayTableProofs`, the life of a registration: the inductive `RegistrationInvariant` behind `MetadataIsSound`,
`RefusalIsClean`, `ClosesForTakeover` and `UnpairingIsNeverSilent`; and `ConsoleIsNotified`, which assumes that no
request is for TUN. `MetaByStage` and `RepliesByStage` tie the metadata and the replies sent to the goroutine's
position; `TakeoverIsSettled` adds to `OnlyTakeoverCloses` that neither listener's index can still change.

`RelayTableProofs`, the order of data: `DataKeepsItsOrder`. That frames which were sent are consecutive says nothing of the
next one; `DataContinues` adds that the newest frame a connection was sent by a peer is the last that the peer's goroutine has
read, or the one before while that is in its hands, and only for as long as the connection can be sent
another. A forwarder may hold a listener that has been replaced (`held`), and then it is to the held one that this
applies and not to the one in the table. What makes it inductive is that nobody comes back: a connection enters the
table once (`DataFollowsInstall`), and a listener that was replaced is closed, so that nothing reaches it after
the frame in the sender's hands.

`RelayTableProofs`, the addresses (bytes of any width; assumed is of a CIDR's capacity only that it is that of a network of two
bytes at most, `NetworkAssumption`: the largest has 2^(2w) addresses, of which three are no client's). `AddressesHold` rests on
`PoolHolds`, which says of `addOne` and of the loop around it in `ClientIP` what they compute for every network and every index:
a carry that is lost, or a loop that takes one step too few, makes it false. The argument is induction, over exponents and over the index.
The library's induction theorems cannot be used here, so `SetInduction` says of *sets* of numbers what they say of predicates, and
follows from the well-foundedness of `<`. `PowersExist` and `Powers` give the power of two its two equations (a recursive function
has them only if there is such a function), `PowersAdd` turns the number of bits behind the prefix into a divisor of the two bytes
together, so that a network ends before they do (`NetworkFits`) and no `AddOne` inside it wraps (`AddOneIs`); `ClientsCount` is then
the induction over the index: client *i* is at place *i* + 2. That the pool of the server has room for every index that was given an
address is `RoutesInPool`, proved before.

**The session** (every capacity of the channel, any number of frames), in `FileTransferProofs`. `SessionIsSound`,
`PumpIsOutlived`, and `SessionKeepsPromise`, the refinement of `SessionPromise`, which needs that the frame the consumer takes
is newer than the last it took. That is about the channel and the pump as well: `FramesInOrder` says that what was taken, what is
buffered and what the pump holds is one increasing sequence. A received frame is newer than all of
them, a dropped one leaves a gap, and only `ConsumerTakes` is visible to `SessionPromise`.
`DoneComesLast` ties the closed channels to the pump's position, so that `Close`, which waits for
`doneCh`, waits for the pump.

**File transfer** (files and channels of any length, any number of attempts), in the same module.
`FileStepIsSessionStep`: every step of the transfer is one of the session below or leaves it as it is, so
`FileKeepsPromise` and `FileInvariantHolds` come from the theorems about the session. `FileIsSound` is the inductive invariant of what is the
transfer's own. Of the sender it says that the frames of one attempt stand in the log in the order of the file, none twice, those
included that an old handler relays late (`FramesAreOrdered`, `FramesAreOfFile`), and that the first attempt's stand there without
a gap (`NothingIsSkipped`). Of the receiver: nothing was dropped if it has not lagged (`Complete`, from which
`FilesAreLostByLag` and `EndOfFileIsNoticed`), it then has counted every chunk after its RegOK (`NothingIsUncounted`, from which `WarningsHaveACause`),
and of one attempt it has written chunks in ascending order and counted each (`ContentIsSound`). `ReceivedFileIsWhole` is then
arithmetic: the count agrees with the FileEnd, so there are as many ascending numbers below the size as the size,
which leaves no choice, although nothing in the code looks at the numbers.

**The TCP multiplexer** (any streams, chunks, identifiers), in `StreamMuxProofs`. `MultiplexerIsSound`, the inductive
`StreamsAreSound`: every frame on a link or in hand carries the identifier of its stream, which has started at the
end that sent it; a stream starts at the listener before the forwarder (`StartsInOrder`), and its PeerJoin is sent
once and before its data (`JoinComesFirst`). `EntriesStayLive` follows although two goroutines remove an entry and a third
adds it: the third acts on a PeerJoin, and there is none for a stream that has started. `StreamsKeepPromise`
is the refinement of `StreamPromise` for as long as the session accepts no more streams than there are identifiers (`NotWrapped`; 2^16 in
the code), and `StreamsArriveInOrder` its consequence for a state, that what was received is a prefix of what was written.
The listener never takes an identifier back, so until then `SidsAreUnique`, and `DeliversInOrder` says that the
chunks in hand and on the link go on where those received end, without a gap for as long as the application can
receive them. Three things make a step of the multiplexer one of the pipe: what `WriteData` holds is the next chunk and has been
read at the other end (`WritingIsPromised`); a connection is opened once, so an end that is over stays over (`OpeningIsQuiet`: a
PeerJoin comes to a forwarder that has not begun with its stream); and no other step gives an application anything.
The condition cannot be dropped: with one identifier and two streams TLC finds in nine
states a second user that is given the first one's data, since `Add` overwrites the entry (`stream.go:29`, a hazard). `mux_streams`, which
has as many identifiers as streams, checks the refinement with the condition always true.

**The UDP multiplexer** (any number of addresses, forwarders, identifiers, losses). `TypeCorrect` and
`ConnectionsAreNotShared`. The listener forgets an identifier while forwarders still have it, so the invariant
cannot follow `clients`; it says that *there is* an owner of every identifier, the address it was first given
to, and that whatever is queued, in hand or written for an identifier is the owner's, while `clients`
has the owner or nobody. An identifier behind `nextID` is never given again, so owners are only ever added.
`SilenceIsExplained` and `LeaksAreAnothers` come from two invariants that need each other: `AnnouncedOnce`, an identifier is
announced once to every forwarder and before the forwarder's read loop begins, and `ForgottenOnLeave`, the listener forgets it only
when some forwarder's loop for it has ended.

**The clients** (any number of clients, connections, faults; `ConfigsAssumption`: clients are started with flags that
`main` and `ResolveRole` accept, and the server may be asked for what those mean), in `RegistrationProofs`.
`ResolvePortIsInjective`: for a list of any length in ascending order and all natural
indices, different indices have different ports; `PortsNeverClash` says so of the clients of `ClientRunner`, with any
flags. Ascending is needed: behind the end of the list ports count on from its last entry.
`RegistrationsAreMeant`: for all flags and indices the server reads in the payload what the flags mean.
`ClientsAndServerAgree` and the action property `IndicesAreKept` are about clients that lose their connection at any
point, register again on one that was somebody else's, and a server that forgets everything. The index a client was told must be the one that
the server will use for ever after, so `AnswersAreRight` says of every RegOK in a log that it carries the index of its
connection, which is `Settled` and is the one the request named; `WantsAreMet` keeps a named index through the stages
before the answer. A client accepts a RegOK only for its own connection, and it sends the index it was told from then on.
`TypeCorrect` and `IndexGiven` of the server are used for every step of it.

**A connection in time** (every delay and number of data frames), in `TunnelProofs`. `ConnectionStaysSound`, the inductive invariant behind
`FramesStayWhole` and `NobodyIsTurnedAway`: what has to be written next is the payload of the frame whose writer holds the mutex
(`MutexGuardsFrames`), also after a failed write; the server answers and says nothing else before it runs
(`AnswersAreInOrder`); the client says one thing and waits, and its ticker, which started with the connection, cannot
fire while it waits because the answer would have timed out first (`RequestsAreInOrder`). `NobodyIsTakenForDead` has the premise
`Interval + 2 * MaxLag < ReadTimeout`: a header that was late, a payload that is late and an interval between
two heartbeats must not fill the read deadline, which is renewed after a header. `HeartbeatsComeIn` bounds the age of the deadline by
exactly these. In the units of the code (30 s and 90 s) pieces may take less than 30 s; with `MaxLag = 3` TLC finds an end
that is taken for dead.

**The process.** `TypeCorrect`; `NoUpdateIsLost`: a handler clears its
event before it reads, so a change after its read finds the channel empty or is announced by what is in it. Two changes have no
event of their own. A forwarder that a broadcast drops is announced when its goroutine ends, so the inductive invariant
(`PendingInvariant`) says that whoever is in `silent` is a TUN listener, or a forwarder whose loop has yet to notice that its
connection is broken or has just left it and will notify; a TUN listener is the exception the theorem names.
`ReportIsTrue`, from an invariant on the connections counted when `Shutdown` was called, of which the waiter
sees none until all are done.

**Model-checked only:** liveness, that is `GoroutineEnds`, `EveryoneComesBack`, `StopsWhenDisconnected`, `CloseReturns`,
`RangeTerminates`, `StreamEndsAtBothEnds`, `WrittenArrives`, `ConsoleCatchesUp`, `ExitsOnceConsolesClose` and `SilenceIsNoticed`: the
prover handles neither fairness nor ENABLED. RECURSIVE operators are out of its reach too, and no module here declares one.

## 5. Where code and comments disagree

Two have a run that ends in a counterexample.

- `bug_stale_unregister` (`server.go:393`): the goroutine of a replaced listener calls
  `UnregisterListener(index)` and deletes the entry of its successor, which stays connected and is no
  longer paired with anybody. `runner.go` reconnects with the same index, so this follows any
  connection loss the server notices late; in `reconnect` it is the exception `Stranded`.
- `bug_udp_answers` (`tcp.go:52`, `udp.go:63-69`): `connReadLoop` wraps what a UDP target answers in
  TypeDataTCP frames, the UDP listener handles TypeDataUDP and TypePeerLeave only. No answer
  ever reaches the sender of a datagram.

These follow from the models as well and have no run of their own:

- a forwarder that outlives its listener is in no list (`peermap.go:60`): its frames reach the next listener of
  the index, the listener's frames do not reach it (comment `server.go:370-371`: both are paired);
- a TUN listener enters the pairing table and its metadata without `notifyPeerChange` (`server.go:259`): an open console shows
  the table without it until something else changes (comments `sse.go:7` and `main.go:58` of crfls: pushed whenever the peers change).
  `OutdatedMeansPending` and `ConsoleCatchesUp` name this exception (`TunUnannounced`) and fail without it;
- `ensurePool` assigns the pool before it configures the device (`tun.go:75`): when an `ip` command fails that client is
  refused, and the next one finds the pool, skips the configuration and is told that it is registered, with no device behind
  its route (`devUp`; comment `tun.go:59`: the first call creates the pool and configures the device);
- the listener limit is checked and the listener installed in two critical sections (`server.go:357`), so that
  the limit (comment `server.go:95`) can be exceeded;
- a TUN listener is never taken out of the pairing table or the metadata (`server.go:264`), and counts
  against `-n` until its index is used again (comment `peermap.go:110`);
- the exit is not forced while a console is open: `main.go:60` of crfls defers `webSrv.Shutdown` without a limit
  (comment `server.go:149`: wait for all, or force the exit after a timeout), hence the premise of `ExitsOnceConsolesClose`;
- crflc looks at its signal between connections only (`runner.go:98`, `runner.go:113`): Ctrl+C (comment
  `main.go:42` of crflc) has no effect while it is connected, hence the premise of `StopsWhenDisconnected`: between two
  connections, or the connection has ended.

Met while modelling, without a comment of the source to hold against the code:

- server: the stale cleanup of `tun.go:175` removes the successor's route; frames may reach a client before its RegOK
  (`server.go:210`) and are then thrown away (`runner.go:279`); a forwarder that a broadcast drops is shown on the
  console until its goroutine ends (`peermap.go:94`); a pair may end up with two protocols when the listener registers after
  `checkProtocolMatch` (`server.go:327`); a refused automatic registration has used up an index (`server.go:350`);
  frames of the handshake are read without a deadline; keepalive frames of a client are relayed to its peers;
- clients: two listeners with one index, after a restart or a race, take it from each other for ever;
  the back-off is never reset (`runner.go:119`); a client that gave up keeps its session open until the pump
  ends (`session.go:56`) while its keepalive goes on; TUN clients get no heartbeats (`tun.go:164`); `-l a,b` without an index
  resolves a port with index -1 (`runner.go:229`, `runner.go:326-327`); a listener with an automatic index tells the console a port
  one below its own; an unsorted list of ports can give two indices one port;
- multiplexers: identifiers wrap at 2^16 and overwrite live entries (`stream.go:29`); a dropped PeerJoin
  leaves a user connected to nothing (`tcp.go:77`); the empty PeerLeave of the server is skipped (`tcp.go:17`); when
  the session ends nothing closes the connections in the `StreamMap` (`tcp.go:24`);
- files: a read error is taken for the end of the file (`file.go:83`), a missing chunk is a warning and success
  (`file.go:176`), the count of chunks is not reset by a second FileMeta, an empty file whose FileMeta was dropped is reported as 0
  of 0 chunks, and a receiver that `UnregisterListener` has unpaired waits for the end of its session.

## 6. Not modelled, and what is left

- The client side of `tun.go` (`runTUNListener`) copies packets between a device and a session; the TUN device is
  ioctl and file I/O; the console's page, TLS, certificates and the parsing of flags keep no state of the system.
- Sends that block. Under `pm.mu` one client that does not read stops the server (`peermap.go:90`); the model
  would need the socket buffers of every connection.
- The 24-bit length of a frame (`codec.go:25`): no caller makes a payload of 16 MB. Wrapping identifiers of streams
  (`stream.go:29`): `StreamsArePipes` does not hold then (section 4), and nothing in the source says what should.
- The durations of the back-off, IPv6 pools (`1 << (bits - ones)` leaves the int), paths with commas in a payload.
- `StreamMux` has one forwarder and a link that drops nothing before the session ends; what a dropped
  frame does to a TCP stream follows from `LossNeedsLag` and `StreamsArePipes` together, and is not composed.
- `reconnect` has two clients and no limit on listeners; TUN clients do not reconnect in it.

Next would be: `StreamMux` over a session that drops; a third client in `reconnect`.

## 7. Running

    tlc -config relay_pairing.cfg MCRelay.tla          # also relay_registration
    tlc -config mux_streams.cfg MCStreamMux.tla        # also mux_liveness
    tlc -config file_transfer.cfg FileTransfer.tla     # also file_closing
    tlc -config udp_mux.cfg UdpMux.tla
    tlc -config reconnect.cfg MCReconnect.tla
    tlc -config server_process.cfg MCServerProcess.tla
    tlc -config tunnel.cfg Tunnel.tla
    tlc -config bug_stale_unregister.cfg MCRelay.tla   # ends in a counterexample
    tlc -config bug_udp_answers.cfg UdpMux.tla         # ends in a counterexample
    tlapm RelayServerProofs.tla                        # and the other *Proofs modules
