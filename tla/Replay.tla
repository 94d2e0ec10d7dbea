------------------------------- MODULE Replay -------------------------------
(***************************************************************************)
(* packages/core/src/replay.ts: the guard every inbound envelope passes.   *)
(*                                                                         *)
(* verifyReceived refuses an envelope whose timestamp is outside the skew  *)
(* window, then asks the nonce store whether (from, nonce) is new.  The    *)
(* default store is in memory, forgets a nonce once its timestamp is older *)
(* than the sliding window, and forgets everything when the node restarts. *)
(* The stores of @aleph/store keep the nonces in a database.  SQLite       *)
(* answers in the same turn; PostgreSQL is a round trip, during which      *)
(* other requests, and time, go on, and whose answer can get lost.         *)
(*                                                                         *)
(* Both windows are measured with Date.now(), which is the system clock:   *)
(* it can be set back under a running node.                                *)
(***************************************************************************)
EXTENDS Integers

CONSTANTS
  Msgs,        \* envelopes, each a (from, nonce, ts) that was signed once
  Senders, Nonces,
  From, Nonce, Ts,  \* the fields of each envelope
  Wellformed,  \* envelopes whose signature and major version are good
  Skew,        \* skewMs: 300_000
  Window,      \* windowMs: 600_000
  MaxBack,     \* the furthest the system clock is ever set back
  MaxTime,     \* bound: the clock
  Slots        \* bound: requests waiting for the database at a time

ASSUME ReplayAssumption ==
  /\ From \in [Msgs -> Senders] /\ Nonce \in [Msgs -> Nonces] /\ Ts \in [Msgs -> Nat]
  /\ Wellformed \subseteq Msgs
  /\ Skew \in Nat /\ Window \in Nat /\ MaxBack \in Nat /\ MaxTime \in Nat

(* The windows leave room for the clock to go back: 600s - 300s. *)
ASSUME WindowAssumption == Skew + MaxBack <= Window

VARIABLES
  store,     \* which nonce store the node was given
  clock,     \* Date.now()
  peak,      \* history: the latest time the clock showed
  seen,      \* Map<"from|nonce", ts>; Absent for a pair it does not hold
  waiting,   \* envelopes whose nonce the database is being asked about
  accepted,  \* history: how often this store let an envelope through
  unheard,   \* history: envelopes whose nonce was recorded but not reported
  refused    \* history: envelopes this store called a replay

vars == <<store, clock, peak, seen, waiting, accepted, unheard, refused>>

Keys   == Senders \X Nonces
(* Mutant: the nonce of one sender stands for the same nonce of another. *)
KeyOfNonce(m) == <<CHOOSE s \in Senders : TRUE, Nonce[m]>>

Key(m) == <<From[m], Nonce[m]>>
Absent == -1
Stores == {"memory", "sqlite", "postgres"}
Persistent == store # "memory"
Idle   == [idle |-> TRUE]

TypeOK ==
  /\ store \in Stores
  /\ clock \in Nat /\ peak \in Nat
  /\ seen \in [Keys -> Nat \cup {Absent}]
  /\ waiting \in [Slots -> Msgs \cup {Idle}]
  /\ accepted \in [Msgs -> Nat]
  /\ unheard \subseteq Msgs /\ refused \subseteq Msgs

Init ==
  /\ store \in Stores
  /\ clock = 0 /\ peak = 0
  /\ seen = [k \in Keys |-> Absent]
  /\ waiting = [s \in Slots |-> Idle]
  /\ accepted = [m \in Msgs |-> 0]
  /\ unheard = {} /\ refused = {}

(* Signature, major version, |now - ts| <= skew. *)
Passes(m) ==
  /\ m \in Wellformed
  /\ Ts[m] - clock <= Skew
  /\ clock - Ts[m] <= Skew

(* The nonce store's answer, and what it remembers; `held` is what it has. *)
Answer(m, held) ==
  IF held[Key(m)] # Absent
  THEN /\ refused' = refused \cup {m}
       /\ seen' = held
       /\ UNCHANGED accepted
  ELSE /\ accepted' = [accepted EXCEPT ![m] = @ + 1]
       /\ seen' = [held EXCEPT ![Key(m)] = Ts[m]]
       /\ UNCHANGED refused

(* Mutant: a nonce is dropped as soon as its envelope fails the skew check. *)
CollectedEarly ==
  [k \in Keys |-> IF seen[k] < clock - Skew THEN Absent ELSE seen[k]]

(* NonceStore.gc. *)
Collected ==
  [k \in Keys |-> IF seen[k] < clock - Window THEN Absent ELSE seen[k]]

(* The in-memory store answers in the same turn the timestamp was checked in. *)
CheckAndRecord(m) ==
  /\ store = "memory"
  /\ Passes(m)
  /\ Answer(m, Collected)
  /\ UNCHANGED <<store, clock, peak, waiting, unheard>>

(* So does SQLite.  Nothing in the program calls the gc of a database store. *)
RunInsert(m) ==
  /\ store = "sqlite"
  /\ Passes(m)
  /\ Answer(m, seen)
  /\ UNCHANGED <<store, clock, peak, waiting, unheard>>

(* Its INSERT fails for any other reason than the primary key (the file is *)
(* locked by another process, the disk is full): every error is caught and *)
(* reported as a replay.                                                   *)
InsertThrows(m) ==
  /\ store = "sqlite"
  /\ Passes(m)
  /\ refused' = refused \cup {m}
  /\ UNCHANGED <<store, clock, peak, seen, waiting, accepted, unheard>>

(* PostgreSQL: the timestamp is checked, the request waits, ... *)
Ask(s, m) ==
  /\ store = "postgres"
  /\ waiting[s] = Idle
  /\ Passes(m)
  /\ waiting' = [waiting EXCEPT ![s] = m]
  /\ UNCHANGED <<store, clock, peak, seen, accepted, unheard, refused>>

(* ... the INSERT returns a row or meets the primary key, ... *)
Insert(s) ==
  /\ waiting[s] # Idle
  /\ Answer(waiting[s], seen)
  /\ waiting' = [waiting EXCEPT ![s] = Idle]
  /\ UNCHANGED <<store, clock, peak, unheard>>

(* ... or the connection breaks, after the INSERT or before it, and the    *)
(* request fails without an answer from the store.                         *)
InsertUnheard(s) ==
  /\ waiting[s] # Idle
  /\ seen[Key(waiting[s])] = Absent
  /\ seen' = [seen EXCEPT ![Key(waiting[s])] = Ts[waiting[s]]]
  /\ unheard' = unheard \cup {waiting[s]}
  /\ waiting' = [waiting EXCEPT ![s] = Idle]
  /\ UNCHANGED <<store, clock, peak, accepted, refused>>

InsertLost(s) ==
  /\ waiting[s] # Idle
  /\ waiting' = [waiting EXCEPT ![s] = Idle]
  /\ UNCHANGED <<store, clock, peak, seen, accepted, unheard, refused>>

(* The node stops and starts again: requests under way are lost, and an    *)
(* in-memory store is a new one.                                           *)
Restart ==
  /\ waiting' = [s \in Slots |-> Idle]
  /\ IF Persistent
     THEN UNCHANGED <<seen, accepted, unheard, refused>>
     ELSE /\ seen' = [k \in Keys |-> Absent]
          /\ accepted' = [m \in Msgs |-> 0]
          /\ unheard' = {} /\ refused' = {}
  /\ UNCHANGED <<store, clock, peak>>

Advance ==
  /\ clock < MaxTime
  /\ clock' = clock + 1
  /\ peak' = IF clock + 1 > peak THEN clock + 1 ELSE peak
  /\ UNCHANGED <<store, seen, waiting, accepted, unheard, refused>>

SetBack ==
  /\ clock > 0 /\ peak - (clock - 1) <= MaxBack
  /\ clock' = clock - 1
  /\ UNCHANGED <<store, peak, seen, waiting, accepted, unheard, refused>>

Next ==
  \/ \E m \in Msgs : CheckAndRecord(m) \/ RunInsert(m) \/ InsertThrows(m)
  \/ \E s \in Slots, m \in Msgs : Ask(s, m)
  \/ \E s \in Slots : Insert(s) \/ InsertUnheard(s) \/ InsertLost(s)
  \/ Restart
  \/ Advance
  \/ SetBack

Spec == Init /\ [][Next]_vars

----------------------------------------------------------------------------
(* Properties. *)

(* AT MOST ONCE.  However an envelope is repeated, delayed, raced against   *)
(* its own copy, or sent again after the store dropped its nonce, a store  *)
(* lets it through once; a database store does so across restarts.         *)
AtMostOnce == \A m \in Msgs : accepted[m] <= 1

(* The sender of m used its nonce before: in an envelope that was let      *)
(* through, or in one whose request broke after the nonce was recorded.    *)
WasSeen(m) ==
  \E n \in Msgs : From[n] = From[m] /\ Nonce[n] = Nonce[m] /\ (accepted[n] > 0 \/ n \in unheard)

(* NO FALSE REPLAY.  Except by SQLite, whose every error is taken for one, *)
(* an envelope is called a replay only if its own sender used that nonce   *)
(* before; another sender's nonces never stand in its way.                 *)
RefusedWasSeen == store # "sqlite" => \A m \in refused : WasSeen(m)

=============================================================================
