------------------------------ MODULE MCStreamMux ------------------------------
(***************************************************************************)
(* An instance of StreamMux for TLC.                                       *)
(***************************************************************************)
EXTENDS StreamMux, TLC

Symmetry == Permutations(Streams)

TwoOne == "listener" :> 2 @@ "forwarder" :> 1
TwoEach == "listener" :> 2 @@ "forwarder" :> 2

\* One application of one stream writes.
OneWriterInit ==
    /\ Init
    /\ \E e \in Ends, s \in Streams :
           /\ written[e][s] = Chunks[e]
           /\ \A d \in Ends, t \in Streams : <<d, t>> # <<e, s>> => written[d][t] = 0
OneWriterSpec == OneWriterInit /\ [][Next]_vars

===============================================================================
