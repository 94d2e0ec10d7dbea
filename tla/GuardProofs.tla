---------------------------- MODULE GuardProofs -----------------------------
(***************************************************************************)
(* Proofs about what a node asks before it works: Replay, for every set of *)
(* envelopes and every pair of windows with Skew + MaxBack <= Window, and  *)
(* Limiter, for every rate and any number of keys.                         *)
(*                                                                         *)
(* AtMostOnce is not inductive: it needs that an accepted envelope can be  *)
(* recognised when it comes back.  Remembered says how: a database still   *)
(* has its nonce; memory has it too, or has dropped it so late that the    *)
(* envelope fails the timestamp check from then on, even if the clock is   *)
(* set back as far as it ever is.                                          *)
(*                                                                         *)
(* RateBounded is not inductive either: it says nothing of the tokens that *)
(* are left to spend.  SpentAndLeft does.                                  *)
(***************************************************************************)
EXTENDS Replay, Limiter, TLAPS

ClockBounded == clock <= peak /\ peak - clock <= MaxBack

OnlyDatabaseWaits == store # "postgres" => \A s \in Slots : waiting[s] = Idle

Remembered ==
  \A m \in Msgs : accepted[m] > 0 =>
    IF Persistent THEN seen[Key(m)] # Absent
    ELSE seen[Key(m)] = Ts[m] \/ Ts[m] + Window < peak

(* A nonce in the store was put there by an envelope that was let through,  *)
(* or whose request broke.                                                 *)
SeenWasUsed ==
  \A k \in Keys : seen[k] # Absent =>
    \E n \in Msgs : Key(n) = k /\ (accepted[n] > 0 \/ n \in unheard)

Inv ==
  SeenWasUsed /\ TypeOK /\ ClockBounded /\ OnlyDatabaseWaits /\ Remembered /\ AtMostOnce /\ RefusedWasSeen

LEMMA KeyType == \A m \in Msgs : Key(m) \in Keys
  BY ReplayAssumption DEF Key, Keys

LEMMA InitInv == Init => Inv
<1> SUFFICES ASSUME Init PROVE Inv
  OBVIOUS
<1> QED BY ReplayAssumption
        DEF Stores, Init, Inv, TypeOK, ClockBounded, OnlyDatabaseWaits, Persistent, Remembered, AtMostOnce, RefusedWasSeen, SeenWasUsed

(* What an answer of either store does, for a `held` that still recognises  *)
(* every accepted envelope that passes the checks.                         *)
LEMMA AnswerInv ==
  ASSUME Inv, NEW m \in Msgs, NEW held \in [Keys -> Nat \cup {Absent}],
         \A n \in Msgs : accepted[n] > 0 =>
           IF Persistent THEN held[Key(n)] # Absent
           ELSE held[Key(n)] = Ts[n] \/ Ts[n] + Window < peak,
         accepted[m] > 0 => held[Key(m)] # Absent,
         \A k \in Keys : held[k] # Absent => seen[k] # Absent,
         Answer(m, held), peak' = peak, unheard' = unheard, store' = store
  PROVE  /\ seen' \in [Keys -> Nat \cup {Absent}] /\ accepted' \in [Msgs -> Nat] /\ refused' \subseteq Msgs
         /\ AtMostOnce' /\ Remembered'
         /\ SeenWasUsed' /\ RefusedWasSeen'
<1>1. Key(m) \in Keys /\ Ts[m] \in Nat /\ Ts[m] # Absent
  BY KeyType, ReplayAssumption DEF Absent
<1>2. CASE held[Key(m)] # Absent
  <2>1. accepted' = accepted /\ seen' = held /\ refused' = refused \cup {m}
    BY <1>2 DEF Answer
  <2>2. RefusedWasSeen'
    <3>1. PICK n \in Msgs : Key(n) = Key(m) /\ (accepted[n] > 0 \/ n \in unheard)
      BY <1>1, <1>2 DEF Inv, SeenWasUsed
    <3>2. From[n] = From[m] /\ Nonce[n] = Nonce[m]
      BY <3>1 DEF Key
    <3> QED BY <2>1, <3>1, <3>2 DEF Inv, RefusedWasSeen, WasSeen
  <2>3. SeenWasUsed'
    BY <2>1 DEF Inv, SeenWasUsed
  <2> QED BY <1>2, <2>1, <2>2, <2>3 DEF Inv, TypeOK, AtMostOnce, Persistent, Remembered
<1>3. CASE held[Key(m)] = Absent
  <2>1. /\ accepted' = [accepted EXCEPT ![m] = @ + 1] /\ refused' = refused
        /\ seen' = [held EXCEPT ![Key(m)] = Ts[m]]
    BY <1>3 DEF Answer
  <2>2. accepted[m] = 0
    BY <1>3 DEF Inv, TypeOK
  <2>3. accepted' \in [Msgs -> Nat] /\ seen' \in [Keys -> Nat \cup {Absent}]
    BY <1>1, <2>1 DEF Inv, TypeOK
  <2>4. AtMostOnce'
    BY <2>1, <2>2 DEF Inv, TypeOK, AtMostOnce
  <2>5. Remembered'
    <3> SUFFICES ASSUME NEW n \in Msgs, accepted'[n] > 0
                 PROVE  IF Persistent THEN seen'[Key(n)] # Absent
                        ELSE seen'[Key(n)] = Ts[n] \/ Ts[n] + Window < peak'
      BY DEF Persistent, Remembered
    <3>1. Key(n) \in Keys
      BY KeyType
    <3>2. CASE n = m
      BY <1>1, <2>1, <3>2
    <3>3. CASE n # m /\ Key(n) # Key(m)
      BY <2>1, <3>1, <3>3 DEF Inv, TypeOK
    <3>4. CASE n # m /\ Key(n) = Key(m)
      <4>1. accepted[n] > 0
        BY <2>1, <3>4 DEF Inv, TypeOK
      <4>2. ~Persistent /\ (held[Key(n)] = Ts[n] \/ Ts[n] + Window < peak)
        BY <1>3, <3>4, <4>1
      <4>3. Ts[n] # Absent
        BY ReplayAssumption DEF Absent
      <4> QED BY <1>3, <3>4, <4>2, <4>3
    <3> QED BY <3>2, <3>3, <3>4
  <2>6. \A n \in Msgs : accepted'[n] >= accepted[n]
    BY <2>1 DEF Inv, TypeOK
  <2>7. RefusedWasSeen'
    BY <2>1, <2>6 DEF Inv, TypeOK, RefusedWasSeen, WasSeen
  <2>8. SeenWasUsed'
    <3> SUFFICES ASSUME NEW k \in Keys, seen'[k] # Absent
                 PROVE  \E n \in Msgs : Key(n) = k /\ (accepted'[n] > 0 \/ n \in unheard)
      BY DEF SeenWasUsed
    <3>1. CASE k = Key(m)
      <4>1. accepted'[m] > 0
        BY <2>1 DEF Inv, TypeOK
      <4> QED BY <3>1, <4>1
    <3>2. CASE k # Key(m)
      <4>1. seen[k] # Absent
        BY <2>1, <3>2
      <4>2. PICK n \in Msgs : Key(n) = k /\ (accepted[n] > 0 \/ n \in unheard)
        BY <4>1 DEF Inv, SeenWasUsed
      <4>3. accepted'[n] > 0 \/ n \in unheard
        BY <2>3, <2>6, <4>2 DEF Inv, TypeOK
      <4> QED BY <4>2, <4>3
    <3> QED BY <3>1, <3>2
  <2> QED BY <1>3, <2>1, <2>3, <2>4, <2>5, <2>7, <2>8 DEF Inv, TypeOK
<1> QED BY <1>2, <1>3

(* The in-memory store: gc only drops a nonce whose envelope is too old to  *)
(* pass the timestamp check again.                                         *)
LEMMA CheckAndRecordInv ==
  ASSUME Inv, NEW m \in Msgs, CheckAndRecord(m)
  PROVE  Inv'
<1>1. /\ ~Persistent /\ clock - Ts[m] <= Skew /\ Answer(m, Collected)
      /\ clock' = clock /\ peak' = peak /\ waiting' = waiting
      /\ unheard' = unheard /\ store' = store
  BY DEF CheckAndRecord, Passes, Persistent
<1>2. Collected \in [Keys -> Nat \cup {Absent}]
  BY DEF Collected, Inv, TypeOK
<1>3. \A k \in Keys : Collected[k] # Absent => seen[k] # Absent
  BY DEF Collected
<1>4. /\ clock \in Nat /\ peak \in Nat /\ Skew \in Nat /\ Window \in Nat /\ MaxBack \in Nat
      /\ clock <= peak /\ peak - clock <= MaxBack /\ Skew + MaxBack <= Window
  BY ReplayAssumption, WindowAssumption DEF Inv, TypeOK, ClockBounded
<1>5. \A n \in Msgs : accepted[n] > 0 =>
        Collected[Key(n)] = Ts[n] \/ Ts[n] + Window < peak
  <2> SUFFICES ASSUME NEW n \in Msgs, accepted[n] > 0
               PROVE  Collected[Key(n)] = Ts[n] \/ Ts[n] + Window < peak
    OBVIOUS
  <2>1. Ts[n] \in Nat /\ Key(n) \in Keys
    BY ReplayAssumption, KeyType
  <2>2. seen[Key(n)] = Ts[n] \/ Ts[n] + Window < peak
    BY <1>1 DEF Inv, Remembered
  <2>3. CASE seen[Key(n)] = Ts[n] /\ Ts[n] < clock - Window
    BY <1>4, <2>1, <2>3
  <2>4. CASE seen[Key(n)] = Ts[n] /\ ~(Ts[n] < clock - Window)
    BY <2>1, <2>4 DEF Collected
  <2> QED BY <2>2, <2>3, <2>4
<1>6. accepted[m] > 0 => Collected[Key(m)] # Absent
  <2>1. Ts[m] \in Nat /\ Ts[m] # Absent
    BY ReplayAssumption DEF Absent
  <2>2. ~(Ts[m] + Window < peak)
    BY <1>1, <1>4, <2>1
  <2> QED BY <1>5, <2>1, <2>2
<1>7. /\ seen' \in [Keys -> Nat \cup {Absent}] /\ accepted' \in [Msgs -> Nat] /\ refused' \subseteq Msgs
      /\ AtMostOnce' /\ Remembered' /\ SeenWasUsed' /\ RefusedWasSeen'
  BY <1>1, <1>2, <1>3, <1>5, <1>6, AnswerInv
<1> QED BY <1>1, <1>7 DEF Inv, TypeOK, ClockBounded, OnlyDatabaseWaits

(* A database store forgets nothing: the answer can come as late as it likes. *)
LEMMA DatabaseInv ==
  ASSUME Inv, NEW m \in Msgs, Persistent, Answer(m, seen), peak' = peak, unheard' = unheard, store' = store
  PROVE  /\ seen' \in [Keys -> Nat \cup {Absent}] /\ accepted' \in [Msgs -> Nat] /\ refused' \subseteq Msgs
         /\ AtMostOnce' /\ Remembered' /\ SeenWasUsed' /\ RefusedWasSeen'
<1>1. seen \in [Keys -> Nat \cup {Absent}] /\ Remembered
  BY DEF Inv, TypeOK
<1> QED BY <1>1, AnswerInv DEF Remembered

LEMMA RunInsertInv ==
  ASSUME Inv, NEW m \in Msgs, RunInsert(m)
  PROVE  Inv'
<1>1. /\ Persistent /\ Answer(m, seen)
      /\ UNCHANGED <<store, clock, peak, waiting, unheard>>
  BY DEF RunInsert, Persistent
<1> QED BY <1>1, DatabaseInv DEF Inv, TypeOK, ClockBounded, OnlyDatabaseWaits

(* A SQLite error refuses, and lets nothing through. *)
LEMMA InsertThrowsInv ==
  ASSUME Inv, NEW m \in Msgs, InsertThrows(m)
  PROVE  Inv'
  BY DEF InsertThrows, Inv, TypeOK, ClockBounded, OnlyDatabaseWaits, Persistent, Remembered, AtMostOnce,
         RefusedWasSeen, SeenWasUsed

LEMMA AskInv ==
  ASSUME Inv, NEW s \in Slots, NEW m \in Msgs, Ask(s, m)
  PROVE  Inv'
  BY DEF Ask, Inv, TypeOK, ClockBounded, OnlyDatabaseWaits, Persistent, Remembered, AtMostOnce,
         RefusedWasSeen, WasSeen, SeenWasUsed

LEMMA InsertInv ==
  ASSUME Inv, NEW s \in Slots, Insert(s)
  PROVE  Inv'
<1> PICK m : m = waiting[s]
  OBVIOUS
<1>1. /\ m \in Msgs /\ Persistent /\ Answer(m, seen) /\ store = "postgres"
      /\ waiting' = [waiting EXCEPT ![s] = Idle] /\ UNCHANGED <<store, clock, peak, unheard>>
  BY DEF Insert, Inv, TypeOK, OnlyDatabaseWaits, Persistent
<1>2. waiting' \in [Slots -> Msgs \cup {Idle}]
  BY <1>1 DEF Inv, TypeOK
<1> QED BY <1>1, <1>2, DatabaseInv DEF Inv, TypeOK, ClockBounded, OnlyDatabaseWaits

LEMMA InsertUnheardInv ==
  ASSUME Inv, NEW s \in Slots, InsertUnheard(s)
  PROVE  Inv'
<1> PICK m : m = waiting[s]
  OBVIOUS
<1>1. /\ m \in Msgs /\ Persistent /\ store = "postgres" /\ seen[Key(m)] = Absent
      /\ seen' = [seen EXCEPT ![Key(m)] = Ts[m]] /\ unheard' = unheard \cup {m}
      /\ waiting' = [waiting EXCEPT ![s] = Idle] /\ UNCHANGED <<store, clock, peak, accepted, refused>>
  BY DEF InsertUnheard, Inv, TypeOK, OnlyDatabaseWaits, Persistent
<1>2. Key(m) \in Keys /\ Ts[m] \in Nat /\ Ts[m] # Absent
  BY <1>1, KeyType, ReplayAssumption DEF Absent
<1>3. TypeOK'
  BY <1>1, <1>2 DEF Inv, TypeOK
<1>4. Remembered'
  <2> SUFFICES ASSUME NEW n \in Msgs, accepted[n] > 0 PROVE seen'[Key(n)] # Absent
    BY <1>1 DEF Persistent, Remembered
  <2>1. Key(n) \in Keys /\ seen[Key(n)] # Absent
    BY <1>1, KeyType DEF Inv, Remembered
  <2> QED BY <1>1, <1>2, <2>1 DEF Inv, TypeOK
<1>5. SeenWasUsed'
  <2> SUFFICES ASSUME NEW k \in Keys, seen'[k] # Absent
               PROVE  \E n \in Msgs : Key(n) = k /\ (accepted[n] > 0 \/ n \in unheard')
    BY <1>1 DEF SeenWasUsed
  <2>1. CASE k = Key(m)
    BY <1>1, <2>1
  <2>2. CASE k # Key(m)
    <3>1. seen[k] # Absent
      BY <1>1, <2>2 DEF Inv, TypeOK
    <3> QED BY <1>1, <3>1 DEF Inv, SeenWasUsed
  <2> QED BY <2>1, <2>2
<1>6. RefusedWasSeen'
  BY <1>1 DEF Inv, RefusedWasSeen, WasSeen
<1> QED BY <1>1, <1>3, <1>4, <1>5, <1>6 DEF Inv, ClockBounded, OnlyDatabaseWaits, AtMostOnce

LEMMA InsertLostInv ==
  ASSUME Inv, NEW s \in Slots, InsertLost(s)
  PROVE  Inv'
  BY DEF InsertLost, Inv, TypeOK, ClockBounded, OnlyDatabaseWaits, Persistent, Remembered, AtMostOnce,
         RefusedWasSeen, WasSeen, SeenWasUsed

LEMMA RestartInv ==
  ASSUME Inv, Restart
  PROVE  Inv'
<1>1. waiting' = [s \in Slots |-> Idle] /\ clock' = clock /\ peak' = peak /\ store' = store
  BY DEF Restart
<1>2. CASE Persistent
  <2>1. seen' = seen /\ accepted' = accepted /\ unheard' = unheard /\ refused' = refused
    BY <1>2 DEF Restart
  <2> QED BY <1>1, <2>1 DEF Inv, TypeOK, ClockBounded, OnlyDatabaseWaits, Persistent, Remembered, AtMostOnce,
                            RefusedWasSeen, WasSeen, SeenWasUsed
<1>3. CASE ~Persistent
  <2>1. /\ seen' = [k \in Keys |-> Absent] /\ accepted' = [m \in Msgs |-> 0]
        /\ unheard' = {} /\ refused' = {}
    BY <1>3 DEF Restart
  <2> QED BY <1>1, <2>1 DEF Inv, TypeOK, ClockBounded, OnlyDatabaseWaits, Persistent, Remembered, AtMostOnce,
                            RefusedWasSeen, WasSeen, SeenWasUsed
<1> QED BY <1>2, <1>3

(* Time only moves an old nonce further out of reach. *)
LEMMA AdvanceInv ==
  ASSUME Inv, Advance
  PROVE  Inv'
<1>1. /\ clock' = clock + 1 /\ peak' = IF clock + 1 > peak THEN clock + 1 ELSE peak
      /\ seen' = seen /\ waiting' = waiting /\ accepted' = accepted
      /\ unheard' = unheard /\ refused' = refused /\ store' = store
  BY DEF Advance
<1>2. /\ clock' \in Nat /\ peak' \in Nat /\ peak \in Nat /\ peak' >= peak /\ ClockBounded'
  BY <1>1, ReplayAssumption DEF Inv, TypeOK, ClockBounded
<1>3. Remembered'
  <2> SUFFICES ASSUME NEW n \in Msgs, accepted[n] > 0
               PROVE  IF Persistent THEN seen[Key(n)] # Absent
                      ELSE seen[Key(n)] = Ts[n] \/ Ts[n] + Window < peak'
    BY <1>1 DEF Persistent, Remembered
  <2>1. Ts[n] + Window \in Nat
    BY ReplayAssumption
  <2> QED BY <1>2, <2>1 DEF Inv, Remembered
<1> QED BY <1>1, <1>2, <1>3 DEF Inv, TypeOK, OnlyDatabaseWaits, AtMostOnce, RefusedWasSeen, WasSeen, SeenWasUsed

LEMMA SetBackInv ==
  ASSUME Inv, SetBack
  PROVE  Inv'
<1>1. /\ clock' = clock - 1 /\ clock > 0 /\ peak - (clock - 1) <= MaxBack
      /\ UNCHANGED <<store, peak, seen, waiting, accepted, unheard, refused>>
  BY DEF SetBack
<1>2. clock' \in Nat /\ ClockBounded'
  BY <1>1 DEF Inv, TypeOK, ClockBounded
<1> QED BY <1>1, <1>2 DEF Inv, TypeOK, OnlyDatabaseWaits, Persistent, Remembered, AtMostOnce, RefusedWasSeen, WasSeen, SeenWasUsed

LEMMA NextInv == Inv /\ [Next]_vars => Inv'
<1> SUFFICES ASSUME Inv, [Next]_vars PROVE Inv'
  OBVIOUS
<1>1. CASE \E m \in Msgs : CheckAndRecord(m) \/ RunInsert(m) \/ InsertThrows(m)
  BY <1>1, CheckAndRecordInv, RunInsertInv, InsertThrowsInv
<1>2. CASE \E s \in Slots, m \in Msgs : Ask(s, m)
  BY <1>2, AskInv
<1>3. CASE \E s \in Slots : Insert(s) \/ InsertUnheard(s) \/ InsertLost(s)
  BY <1>3, InsertInv, InsertUnheardInv, InsertLostInv
<1>4. CASE Restart
  BY <1>4, RestartInv
<1>5. CASE Advance
  BY <1>5, AdvanceInv
<1>6. CASE SetBack
  BY <1>6, SetBackInv
<1>7. CASE UNCHANGED vars
  BY <1>7 DEF vars, Inv, TypeOK, ClockBounded, OnlyDatabaseWaits, Persistent, Remembered, AtMostOnce,
              RefusedWasSeen, WasSeen, SeenWasUsed
<1> QED BY <1>1, <1>2, <1>3, <1>4, <1>5, <1>6, <1>7 DEF Next

(* TYPES, for every instance: what verifyReceived and the nonce stores keep. *)
THEOREM TypeCorrect == Spec => []TypeOK
<1>1. Inv => TypeOK
  BY DEF Inv
<1> QED BY <1>1, InitInv, NextInv, PTL DEF Spec

(* AT MOST ONCE, for every instance: a copy of an envelope, however late,  *)
(* is not let through by the store that let the first one through, as long *)
(* as the sliding window exceeds the skew window by what the system clock  *)
(* can be set back.                                                        *)
THEOREM ReplayIsCaught == Spec => []AtMostOnce
<1>1. Inv => AtMostOnce
  BY DEF Inv
<1> QED BY <1>1, InitInv, NextInv, PTL DEF Spec

(* NO FALSE REPLAY, for every instance: a store that tells a repeated      *)
(* nonce from an error calls only the former a replay.                     *)
THEOREM ReplayIsReal == Spec => []RefusedWasSeen
<1>1. Inv => RefusedWasSeen
  BY DEF Inv
<1> QED BY <1>1, InitInv, NextInv, PTL DEF Spec

----------------------------------------------------------------------------
(* The limiter.  What a bucket that says b holds at time t. *)
HeldAt(b, t) ==
  IF b = Fresh \/ b.tokens + Refill * (t - b.last) > Capacity * Token
  THEN Capacity * Token ELSE b.tokens + Refill * (t - b.last)

LEMMA TokensAre ==
  /\ \A k : Tokens(k) = HeldAt(bucket[k], now)
  /\ \A k : Tokens(k)' = HeldAt(bucket'[k], now')
  BY DEF Tokens, HeldAt

LEMMA Unit == ASSUME NEW a \in Int, NEW b \in Int PROVE a * (b + 1) = a * b + a
  OBVIOUS

LEMMA LimiterNumbers ==
  /\ Capacity * Token \in Nat /\ Token * Capacity = Capacity * Token
  /\ Token \in Nat /\ Token >= 1 /\ Refill \in Nat /\ Capacity \in Nat
  BY LimiterAssumption

LEMMA HeldType ==
  ASSUME NEW b \in Bucket, NEW t \in Int
  PROVE  HeldAt(b, t) \in Int /\ HeldAt(b, t) <= Capacity * Token
<1>1. b.tokens \in Int /\ t - b.last \in Int
  BY DEF Bucket
<1>2. Refill * (t - b.last) \in Int
  BY <1>1, LimiterNumbers
<1> DEFINE r == Refill * (t - b.last)
           c == Capacity * Token
<1>3. c \in Int /\ r \in Int
  BY <1>2, LimiterNumbers
<1>4. HeldAt(b, t) = IF b = Fresh \/ b.tokens + r > c THEN c ELSE b.tokens + r
  BY Zenon DEF HeldAt
<1> HIDE DEF r, c
<1>5. HeldAt(b, t) \in Int /\ HeldAt(b, t) <= c
  BY <1>1, <1>3, <1>4
<1> QED BY <1>5 DEF c

(* In a step of the clock a bucket gains no more than Refill, and loses    *)
(* nothing.                                                                *)
LEMMA HeldLater ==
  ASSUME NEW b \in Bucket, NEW t \in Int, NEW u \in Int, u = t + 1
  PROVE  HeldAt(b, t) <= HeldAt(b, u) /\ HeldAt(b, u) <= HeldAt(b, t) + Refill
<1> DEFINE r == Refill * (t - b.last)
           s == Refill * (u - b.last)
           c == Capacity * Token
<1>1. b.tokens \in Int /\ b.last \in Int
  BY DEF Bucket
<1>2. t - b.last \in Int /\ u - b.last = (t - b.last) + 1
  BY <1>1
<1>3. c \in Int /\ Refill \in Nat /\ r \in Int
  BY <1>2, LimiterNumbers
<1>4. s = r + Refill
  BY <1>2, LimiterNumbers, Unit
<1>5. HeldAt(b, t) = IF b = Fresh \/ b.tokens + r > c THEN c ELSE b.tokens + r
  BY Zenon DEF HeldAt
<1>6. HeldAt(b, u) = IF b = Fresh \/ b.tokens + s > c THEN c ELSE b.tokens + s
  BY Zenon DEF HeldAt
<1> HIDE DEF r, s, c
<1> QED BY <1>1, <1>3, <1>4, <1>5, <1>6

(* What is stored with the time of day is what is held. *)
LEMMA HeldNow ==
  ASSUME NEW x \in Int, x <= Capacity * Token, NEW t \in Nat
  PROVE  [tokens |-> x, last |-> t] \in Bucket /\ HeldAt([tokens |-> x, last |-> t], t) = x
<1>0. t \in Int /\ [tokens |-> x, last |-> t] \in [tokens : Int, last : Int]
  OBVIOUS
<1>1. PICK b \in Bucket : b = [tokens |-> x, last |-> t]
  BY <1>0 DEF Bucket
<1>2. b.tokens = x /\ b.last = t /\ b # Fresh
  BY <1>1 DEF Fresh
<1>3. Refill * (t - b.last) = 0
  BY <1>2, LimiterNumbers
<1>4. HeldAt(b, t) = x
  BY <1>2, <1>3, LimiterNumbers DEF HeldAt
<1> QED BY <1>1, <1>4

(* What is left to spend counts towards what a window allows. *)
SpentAndLeft ==
  \A k \in BucketKeys : Token * spent[k] + Tokens(k) <= Token * Capacity + Refill * advanced

LimiterInv == LimiterTypeOK /\ RateBounded /\ SpentAndLeft /\ NotShutOut

LEMMA LimiterInitInv == LimiterInit => LimiterInv
<1> SUFFICES ASSUME LimiterInit PROVE LimiterInv
  OBVIOUS
<1>1. Fresh \in Bucket
  BY LimiterNumbers DEF Fresh, Bucket
<1>2. LimiterTypeOK
  BY <1>1 DEF LimiterInit, LimiterTypeOK
<1>3. Refill * advanced = 0 /\ Refill * back = 0 /\ \A k \in BucketKeys : Token * spent[k] = 0
  BY LimiterNumbers DEF LimiterInit
<1>4. \A k \in BucketKeys : Tokens(k) = Capacity * Token
  BY DEF LimiterInit, Tokens
<1> QED BY <1>2, <1>3, <1>4, LimiterNumbers DEF LimiterInv, RateBounded, SpentAndLeft, NotShutOut

LEMMA TokensType ==
  ASSUME LimiterTypeOK
  PROVE  \A k \in BucketKeys : Tokens(k) \in Int /\ Tokens(k) <= Capacity * Token
<1> SUFFICES ASSUME NEW k \in BucketKeys PROVE HeldAt(bucket[k], now) \in Int /\ HeldAt(bucket[k], now) <= Capacity * Token
  BY TokensAre
<1> QED BY HeldType DEF LimiterTypeOK

LEMMA ProductTypes ==
  ASSUME LimiterTypeOK
  PROVE  /\ Refill * advanced \in Nat /\ Refill * back \in Nat
         /\ \A k \in BucketKeys : Token * spent[k] \in Nat
<1>1. \A k \in BucketKeys : spent[k] \in Nat
  BY DEF LimiterTypeOK
<1> QED BY <1>1, LimiterNumbers DEF LimiterTypeOK

(* Looking at a bucket changes neither the tokens of another key nor, but  *)
(* for the token that is spent, its own.                                   *)
LEMMA AskedInv ==
  ASSUME LimiterInv, NEW k \in BucketKeys, Allows(k) \/ Refuses(k),
         UNCHANGED <<now, advanced, back>>, request' \in [Requests -> {"idle", "reading"}]
  PROVE  LimiterInv'
<1> PICK left \in Int : /\ left <= Capacity * Token
                        /\ bucket' = [bucket EXCEPT ![k] = [tokens |-> left, last |-> now]]
                        /\ \/ Tokens(k) = left + Token /\ left >= 0 /\ spent' = [spent EXCEPT ![k] = @ + 1]
                           \/ Tokens(k) = left /\ spent' = spent
  <2>1. Tokens(k) \in Int /\ Tokens(k) <= Capacity * Token
    BY TokensType DEF LimiterInv
  <2>2. CASE Allows(k)
    <3>1. Tokens(k) - Token \in Int /\ Tokens(k) - Token <= Capacity * Token /\ Tokens(k) - Token >= 0
          /\ Tokens(k) = (Tokens(k) - Token) + Token
      BY <2>1, <2>2, LimiterNumbers DEF Allows
    <3> QED BY <2>2, <3>1 DEF Allows
  <2>3. CASE Refuses(k)
    BY <2>1, <2>3 DEF Refuses
  <2> QED BY <2>2, <2>3
<1>1. now \in Nat /\ bucket \in [BucketKeys -> Bucket] /\ spent \in [BucketKeys -> Nat]
  BY DEF LimiterInv, LimiterTypeOK
<1>2. [tokens |-> left, last |-> now] \in Bucket /\ HeldAt([tokens |-> left, last |-> now], now) = left
  BY <1>1, HeldNow
<1>3. LimiterTypeOK'
  BY <1>1, <1>2 DEF LimiterInv, LimiterTypeOK
<1>4. Tokens(k)' = left
  BY <1>1, <1>2, TokensAre
<1>5. \A j \in BucketKeys : j # k => Tokens(j)' = Tokens(j) /\ spent'[j] = spent[j]
  BY <1>1, TokensAre
<1>6. /\ Refill * advanced' = Refill * advanced /\ Refill * back' = Refill * back
      /\ Refill * advanced \in Nat /\ Refill * back \in Nat
  BY ProductTypes DEF LimiterInv
<1>7. \A j \in BucketKeys : Token * spent[j] \in Nat /\ Tokens(j) \in Int
  BY ProductTypes, TokensType DEF LimiterInv
<1>8. \/ Tokens(k) = left + Token /\ left >= 0 /\ Token * spent'[k] = Token * spent[k] + Token
      \/ Tokens(k) = left /\ Token * spent'[k] = Token * spent[k]
  <2>1. spent[k] \in Nat /\ Token * (spent[k] + 1) = Token * spent[k] + Token
    BY <1>1, LimiterNumbers, Unit
  <2> QED BY <1>1, <2>1
<1>9. /\ Token * spent[k] <= Token * Capacity + Refill * advanced
      /\ Token * spent[k] + Tokens(k) <= Token * Capacity + Refill * advanced
      /\ Tokens(k) + Refill * back >= 0
  BY DEF LimiterInv, RateBounded, SpentAndLeft, NotShutOut
<1>10. /\ Token * spent'[k] <= Token * Capacity + Refill * advanced
       /\ Token * spent'[k] + left <= Token * Capacity + Refill * advanced
       /\ left + Refill * back >= 0
  <2> DEFINE x == Token * spent[k]
             y == Token * spent'[k]
             m == Token * Capacity + Refill * advanced
             n == Refill * back
             h == Tokens(k)
  <2>1. x \in Int /\ m \in Int /\ n \in Nat /\ h \in Int /\ Token \in Nat
    BY <1>6, <1>7, LimiterNumbers
  <2>2. x <= m /\ x + h <= m /\ h + n >= 0
    BY <1>9
  <2>3. \/ h = left + Token /\ left >= 0 /\ y = x + Token
        \/ h = left /\ y = x
    BY <1>8
  <2> HIDE DEF x, y, m, n, h
  <2>4. y <= m /\ y + left <= m /\ left + n >= 0
    BY <2>1, <2>2, <2>3
  <2> QED BY <2>4 DEF x, y, m, n, h
<1>11. RateBounded'
  <2> SUFFICES ASSUME NEW j \in BucketKeys PROVE Token * spent'[j] <= Token * Capacity + Refill * advanced'
    BY DEF RateBounded
  <2>1. CASE j = k
    BY <1>6, <1>10, <2>1
  <2>2. CASE j # k
    BY <1>5, <1>6, <2>2 DEF LimiterInv, RateBounded
  <2> QED BY <2>1, <2>2
<1>12. SpentAndLeft'
  <2> SUFFICES ASSUME NEW j \in BucketKeys
               PROVE  Token * spent'[j] + Tokens(j)' <= Token * Capacity + Refill * advanced'
    BY DEF SpentAndLeft
  <2>1. CASE j = k
    BY <1>4, <1>6, <1>10, <2>1
  <2>2. CASE j # k
    BY <1>5, <1>6, <2>2 DEF LimiterInv, SpentAndLeft
  <2> QED BY <2>1, <2>2
<1>13. NotShutOut'
  <2> SUFFICES ASSUME NEW j \in BucketKeys PROVE Tokens(j)' + Refill * back' >= 0
    BY DEF NotShutOut
  <2>1. CASE j = k
    BY <1>4, <1>6, <1>10, <2>1
  <2>2. CASE j # k
    BY <1>5, <1>6, <2>2 DEF LimiterInv, NotShutOut
  <2> QED BY <2>1, <2>2
<1> QED BY <1>3, <1>11, <1>12, <1>13 DEF LimiterInv

LEMMA LimiterTickInv ==
  ASSUME LimiterInv, Tick
  PROVE  LimiterInv'
<1>1. LimiterTypeOK'
  BY DEF Tick, LimiterInv, LimiterTypeOK
<1>2. now \in Nat /\ advanced \in Nat /\ bucket \in [BucketKeys -> Bucket]
  BY DEF LimiterInv, LimiterTypeOK
<1>3. Refill * advanced' = Refill * advanced + Refill /\ Refill * back' = Refill * back /\ spent' = spent
  BY <1>2, LimiterNumbers, Unit DEF Tick
<1>4. \A k \in BucketKeys : Tokens(k)' <= Tokens(k) + Refill /\ Tokens(k) <= Tokens(k)'
  BY <1>2, TokensAre, HeldLater DEF Tick
<1>5. \A k \in BucketKeys : Tokens(k) \in Int /\ Tokens(k)' \in Int /\ Token * spent[k] \in Nat
  <2>1. \A k \in BucketKeys : HeldAt(bucket'[k], now') \in Int
    BY <1>1, HeldType DEF LimiterTypeOK
  <2> QED BY <2>1, TokensAre, TokensType, ProductTypes DEF LimiterInv
<1>6. Refill * advanced \in Nat /\ Refill * back \in Nat
  BY ProductTypes DEF LimiterInv
<1>7. /\ Token * Capacity + Refill * advanced' = (Token * Capacity + Refill * advanced) + Refill
      /\ Token * Capacity + Refill * advanced \in Nat
  BY <1>3, <1>6, LimiterNumbers
<1>8. ASSUME NEW k \in BucketKeys
      PROVE  /\ Token * spent[k] <= Token * Capacity + Refill * advanced'
             /\ Token * spent[k] + Tokens(k)' <= Token * Capacity + Refill * advanced'
             /\ Tokens(k)' + Refill * back >= 0
  <2> DEFINE x == Token * spent[k]
             m == Token * Capacity + Refill * advanced
             n == Refill * back
             h == Tokens(k)
             g == Tokens(k)'
  <2>1. x \in Int /\ m \in Int /\ n \in Nat /\ h \in Int /\ g \in Int /\ Refill \in Nat
    BY <1>5, <1>6, <1>7, LimiterNumbers
  <2>2. x <= m /\ x + h <= m /\ h + n >= 0 /\ g <= h + Refill /\ h <= g
    BY <1>4 DEF LimiterInv, RateBounded, SpentAndLeft, NotShutOut
  <2> HIDE DEF x, m, n, h, g
  <2>3. x <= m + Refill /\ x + g <= m + Refill /\ g + n >= 0
    BY <2>1, <2>2
  <2> QED BY <1>7, <2>3 DEF x, m, n, h, g
<1> QED BY <1>1, <1>3, <1>8 DEF LimiterInv, RateBounded, SpentAndLeft, NotShutOut

LEMMA TurnBackInv ==
  ASSUME LimiterInv, TurnBack
  PROVE  LimiterInv'
<1>1. LimiterTypeOK'
  BY DEF TurnBack, LimiterInv, LimiterTypeOK
<1>2. now \in Nat /\ now' \in Nat /\ now = now' + 1 /\ back \in Nat /\ bucket \in [BucketKeys -> Bucket]
  BY <1>1 DEF TurnBack, LimiterInv, LimiterTypeOK
<1>3. Refill * back' = Refill * back + Refill /\ UNCHANGED <<spent, advanced, bucket>>
  BY <1>2, LimiterNumbers, Unit DEF TurnBack
<1>4. \A k \in BucketKeys : Tokens(k)' <= Tokens(k) /\ Tokens(k) <= Tokens(k)' + Refill
  <2>1. \A k \in BucketKeys : HeldAt(bucket[k], now') <= HeldAt(bucket[k], now)
          /\ HeldAt(bucket[k], now) <= HeldAt(bucket[k], now') + Refill
    BY <1>2, HeldLater
  <2> QED BY <1>3, <2>1, TokensAre
<1>5. \A k \in BucketKeys : Tokens(k) \in Int /\ Tokens(k)' \in Int /\ Token * spent[k] \in Nat
  <2>1. \A k \in BucketKeys : HeldAt(bucket'[k], now') \in Int
    BY <1>1, HeldType DEF LimiterTypeOK
  <2> QED BY <2>1, TokensAre, TokensType, ProductTypes DEF LimiterInv
<1>6. Refill * advanced \in Nat /\ Refill * back \in Nat
  BY ProductTypes DEF LimiterInv
<1>7. Token * Capacity + Refill * advanced \in Nat
  BY <1>6, LimiterNumbers
<1>8. ASSUME NEW k \in BucketKeys
      PROVE  /\ Token * spent[k] <= Token * Capacity + Refill * advanced
             /\ Token * spent[k] + Tokens(k)' <= Token * Capacity + Refill * advanced
             /\ Tokens(k)' + Refill * back' >= 0
  <2> DEFINE x == Token * spent[k]
             m == Token * Capacity + Refill * advanced
             n == Refill * back
             h == Tokens(k)
             g == Tokens(k)'
  <2>1. x \in Int /\ m \in Int /\ n \in Nat /\ h \in Int /\ g \in Int /\ Refill \in Nat
    BY <1>5, <1>6, <1>7, LimiterNumbers
  <2>2. x <= m /\ x + h <= m /\ h + n >= 0 /\ h <= g + Refill /\ g <= h
    BY <1>4 DEF LimiterInv, RateBounded, SpentAndLeft, NotShutOut
  <2> HIDE DEF x, m, n, h, g
  <2>3. x <= m /\ x + g <= m /\ g + (n + Refill) >= 0
    BY <2>1, <2>2
  <2> QED BY <1>3, <2>3 DEF x, m, n, h, g
<1> QED BY <1>1, <1>3, <1>8 DEF LimiterInv, RateBounded, SpentAndLeft, NotShutOut

LEMMA WatchInv ==
  ASSUME LimiterInv, Watch
  PROVE  LimiterInv'
<1>1. LimiterTypeOK'
  BY DEF Watch, LimiterInv, LimiterTypeOK
<1>2. Refill * advanced' = 0 /\ \A k \in BucketKeys : Token * spent'[k] = 0
  BY LimiterNumbers DEF Watch
<1>3. \A k \in BucketKeys : Tokens(k)' = Tokens(k)
  BY TokensAre DEF Watch
<1>4. \A k \in BucketKeys : Tokens(k) \in Int /\ Tokens(k) <= Token * Capacity
  BY TokensType, LimiterNumbers DEF LimiterInv
<1>5. NotShutOut'
  BY <1>3 DEF LimiterInv, NotShutOut, Watch
<1>6. RateBounded' /\ SpentAndLeft'
  BY <1>2, <1>3, <1>4, LimiterNumbers DEF RateBounded, SpentAndLeft
<1> QED BY <1>1, <1>5, <1>6 DEF LimiterInv

(* The invariant is inductive. *)
LEMMA LimiterNextInv == LimiterInv /\ [LimiterNext]_limiterVars => LimiterInv'
<1> SUFFICES ASSUME LimiterInv, [LimiterNext]_limiterVars PROVE LimiterInv'
  OBVIOUS
<1>1. ASSUME NEW ip \in Ips, TooMany(ip) PROVE LimiterInv'
  BY <1>1, AskedInv DEF TooMany, BucketKeys, LimiterInv, LimiterTypeOK
<1>2. ASSUME NEW ip \in Ips, NEW r \in Requests, Arrive(r, ip) PROVE LimiterInv'
  <2>1. request' \in [Requests -> {"idle", "reading"}]
    BY <1>2 DEF Arrive, LimiterInv, LimiterTypeOK
  <2> QED BY <1>2, <2>1, AskedInv DEF Arrive, BucketKeys
<1>3. ASSUME NEW r \in Requests, Answered(r) PROVE LimiterInv'
  <2>1. LimiterTypeOK'
    BY <1>3 DEF Answered, history, LimiterInv, LimiterTypeOK
  <2> QED BY <1>3, <2>1 DEF Answered, history, LimiterInv, RateBounded, SpentAndLeft, NotShutOut, Tokens
<1>4. ASSUME NEW did \in Dids, NEW r \in Requests, Sender(r, did) PROVE LimiterInv'
  <2>1. request' \in [Requests -> {"idle", "reading"}]
    BY <1>4 DEF Sender, LimiterInv, LimiterTypeOK
  <2> QED BY <1>4, <2>1, AskedInv DEF Sender, BucketKeys
<1>5. CASE UNCHANGED limiterVars
  <2>1. LimiterTypeOK'
    BY <1>5 DEF limiterVars, LimiterInv, LimiterTypeOK
  <2> QED BY <1>5, <2>1 DEF limiterVars, LimiterInv, RateBounded, SpentAndLeft, NotShutOut, Tokens
<1> QED BY <1>1, <1>2, <1>3, <1>4, <1>5, LimiterTickInv, TurnBackInv, WatchInv DEF LimiterNext

(* TYPES, for every instance: what the limiter and its requests keep. *)
THEOREM LimiterTypeCorrect == LimiterSpec => []LimiterTypeOK
<1>1. LimiterInv => LimiterTypeOK
  BY DEF LimiterInv
<1> QED BY <1>1, LimiterInitInv, LimiterNextInv, PTL DEF LimiterSpec

(* THE RATE IS BOUNDED, for every rate: a window allows a key a full       *)
(* bucket and what the clock brought in, however often it is set back.     *)
THEOREM RateIsBounded == LimiterSpec => []RateBounded
<1>1. LimiterInv => RateBounded
  BY DEF LimiterInv
<1> QED BY <1>1, LimiterInitInv, LimiterNextInv, PTL DEF LimiterSpec

(* A CALLER IS NOT SHUT OUT, for every rate: a bucket lacks no more than   *)
(* what the clock was set back by, whatever was refused.                   *)
THEOREM CallersAreNotShutOut == LimiterSpec => []NotShutOut
<1>1. LimiterInv => NotShutOut
  BY DEF LimiterInv
<1> QED BY <1>1, LimiterInitInv, LimiterNextInv, PTL DEF LimiterSpec

=============================================================================
