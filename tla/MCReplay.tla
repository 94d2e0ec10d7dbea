------------------------------ MODULE MCReplay ------------------------------
(* A small instance of Replay: two senders that share a nonce, one of them *)
(* using it twice, at times that are more than the window apart.           *)
EXTENDS Replay, TLC

CONSTANTS a, b, n1, m1, m2, m3, m4, s1, s2

MCMsgs       == {m1, m2, m3, m4}
MCSenders    == {a, b}
MCNonces     == {n1}
MCFrom       == m1 :> a @@ m2 :> a @@ m3 :> b @@ m4 :> b
MCNonce      == [m \in MCMsgs |-> n1]
MCTs         == m1 :> 1 @@ m2 :> 4 @@ m3 :> 2 @@ m4 :> 3
MCWellformed == {m1, m2, m3}
MCSlots      == {s1, s2}

=============================================================================
