------------------------------ MODULE RelayConns ------------------------------
(***************************************************************************)
(* The client connections of crfls as the goroutines of the server see     *)
(* them: the FrameReadWriter interface (pkg/protocol/framer.go) that       *)
(* tunnel.Tunnel implements.  A connection is used once: a client that     *)
(* reconnects is a new member of Conns.                                    *)
(*                                                                         *)
(* TCP gives a reliable ordered byte stream, so the frames a client sends  *)
(* are counted (frame n of client c is the n-th it wrote) and what the     *)
(* server wrote to a client is kept as a log that only grows.  A frame     *)
(* written to a client that has left is read by nobody and is not logged.  *)
(***************************************************************************)
EXTENDS Integers, Sequences, FiniteSets

CONSTANTS
    Conns,      \* the connections the server accepts
    NoConn,     \* Go's nil FrameReadWriter
    MaxIndex    \* bound: pairing indices are 0..MaxIndex

ASSUME ConnsAssumption == NoConn \notin Conns
ASSUME IndexAssumption == MaxIndex \in Nat

VARIABLES
    srvClosed,  \* connections on which the server called Close
    cliClosed,  \* connections whose client left, died or became unreachable
    sent,       \* data frames client c wrote after its registration
    read,       \* how many of them Receive has returned at the server
    out         \* frames the server wrote to c, oldest first

connVars == <<srvClosed, cliClosed, sent, read, out>>

Index == 0..MaxIndex

FrameType == {"AuthOK", "RegOK", "Error", "PeerLeave", "Data", "DataTUN"}

\* A frame: its type byte, the client whose data it carries and a number (the
\* position of a data frame, the index of a RegOK, the host of an IP packet).
Frame(type, from, n) == [type |-> type, from |-> from, n |-> n]

Frames == [type : FrameType, from : Conns \cup {NoConn}, n : Nat]

ConnsTypeOK ==
    /\ srvClosed \subseteq Conns
    /\ cliClosed \subseteq Conns
    /\ sent \in [Conns -> Nat]
    /\ read \in [Conns -> Nat]
    /\ out \in [Conns -> Seq(Frames)]

ConnsInit ==
    /\ srvClosed = {}
    /\ cliClosed = {}
    /\ sent = [c \in Conns |-> 0]
    /\ read = [c \in Conns |-> 0]
    /\ out = [c \in Conns |-> <<>>]

-------------------------------------------------------------------------------

Reachable(c) == c \notin srvClosed \cup cliClosed

\* Send returns an error on a socket this process closed.  On a socket the peer
\* has left it may still return nil: the kernel has taken the bytes.
SendSucceeds(c) == c \notin srvClosed
SendFails(c) == ~Reachable(c)

\* The log after frame f is sent to every connection of S.
Written(S, f) ==
    [c \in Conns |-> IF c \in S /\ Reachable(c) THEN Append(out[c], f) ELSE out[c]]

\* Receive returns the next frame, or an error once either end is closed; frames
\* in flight when a client dies may or may not be read before the error.
FrameArrived(c) == c \notin srvClosed /\ read[c] < sent[c]
\* Mutant: no read deadline is set, so a client that vanished is never noticed.
ReceiveFailsLocally(c) == c \in srvClosed

ReceiveFails(c) == ~Reachable(c)

===============================================================================
