---------------------------- MODULE SessionPromise ----------------------------
(***************************************************************************)
(* What a Session promises to the code that ranges over FrameCh: it sees   *)
(* frames the peer has sent, each at most once and in the order they were  *)
(* sent, possibly with gaps, and after the end of the range nothing more.  *)
(***************************************************************************)
EXTENDS Naturals, Sequences, SequencesExt

VARIABLES
    sent,   \* frames the peer has written, numbered from 1
    taken,  \* the numbers of the frames the consumer has seen
    over    \* the range over FrameCh has ended

vars == <<sent, taken, over>>

Init ==
    /\ sent = 0
    /\ taken = <<>>
    /\ over = FALSE

PeerSends == sent' = sent + 1 /\ UNCHANGED <<taken, over>>

SeesFrame ==
    /\ ~over
    /\ \E n \in (IF taken = <<>> THEN 1 ELSE Last(taken) + 1)..sent :
           taken' = Append(taken, n)
    /\ UNCHANGED <<sent, over>>

RangeEnds == over' = TRUE /\ UNCHANGED <<sent, taken>>

Next == PeerSends \/ SeesFrame \/ RangeEnds

Spec == Init /\ [][Next]_vars

===============================================================================
