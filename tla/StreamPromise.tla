---------------------------- MODULE StreamPromise ----------------------------
(***************************************************************************)
(* What the TCP multiplexer promises to the applications at the ends of a  *)
(* stream: a pipe in each direction.  An application is given the chunks   *)
(* that were read from the application at the other end of the same stream,*)
(* each once and in order, and no more once its own end is over.           *)
(***************************************************************************)
EXTENDS Naturals, Sequences

CONSTANTS Ends, Streams

VARIABLES
    read,   \* end -> stream -> chunks read from the application at that end
    got,    \* end -> stream -> chunks the application there was given
    over    \* the ends of streams that are over

vars == <<read, got, over>>

Init ==
    /\ read = [e \in Ends |-> [s \in Streams |-> 0]]
    /\ got = [e \in Ends |-> [s \in Streams |-> <<>>]]
    /\ over = {}

Reads(e, s) ==
    /\ read' = [read EXCEPT ![e][s] = @ + 1]
    /\ UNCHANGED <<got, over>>

\* The next chunk that was read at the other end.
Gets(e, s) ==
    /\ <<e, s>> \notin over
    /\ \E d \in Ends \ {e} : Len(got[e][s]) < read[d][s]
    /\ got' = [got EXCEPT ![e][s] = Append(@, [from |-> s, n |-> Len(@) + 1])]
    /\ UNCHANGED <<read, over>>

IsOver(e, s) ==
    /\ over' = over \cup {<<e, s>>}
    /\ UNCHANGED <<read, got>>

Next == \E e \in Ends, s \in Streams : Reads(e, s) \/ Gets(e, s) \/ IsOver(e, s)

Spec == Init /\ [][Next]_vars

===============================================================================
