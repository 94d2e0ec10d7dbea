---------------------------- MODULE FairExchange ----------------------------
(***************************************************************************)
(* What a paid invocation promises the agent and the node: work is done    *)
(* only against money that is set aside, and once; the money goes to the   *)
(* node only for work that was done, and back to the agent only for work   *)
(* that was not.  Nobody is promised that it ends: a party that vanishes   *)
(* leaves the money set aside.                                             *)
(***************************************************************************)
CONSTANT Calls

VARIABLES money,  \* where the money of each call is
          served  \* whether the node did the work

vars == <<money, served>>

Init ==
  /\ money = [c \in Calls |-> "unpaid"]
  /\ served = [c \in Calls |-> FALSE]

Hold(c) ==
  /\ money[c] = "unpaid"
  /\ money' = [money EXCEPT ![c] = "held"]
  /\ UNCHANGED served

Serve(c) ==
  /\ money[c] = "held" /\ ~served[c]
  /\ served' = [served EXCEPT ![c] = TRUE]
  /\ UNCHANGED money

Pay(c) ==
  /\ money[c] = "held" /\ served[c]
  /\ money' = [money EXCEPT ![c] = "paid"]
  /\ UNCHANGED served

GiveBack(c) ==
  /\ money[c] = "held" /\ ~served[c]
  /\ money' = [money EXCEPT ![c] = "returned"]
  /\ UNCHANGED served

Next == \E c \in Calls : Hold(c) \/ Serve(c) \/ Pay(c) \/ GiveBack(c)

Spec == Init /\ [][Next]_vars

=============================================================================
