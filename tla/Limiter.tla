------------------------------ MODULE Limiter ------------------------------
(***************************************************************************)
(* THE RATE LIMITER and the requests in front of which a node asks it      *)
(* (transport/src/http.ts, node/src/node.ts): once for the address, before *)
(* the body is read, and for an INVOKE once more for its sender.  Tokens   *)
(* are fractions in the code; here a token is a number of units, of which  *)
(* a bucket gets Refill with each step of the clock.                       *)
(***************************************************************************)
EXTENDS Integers

CONSTANTS
  Ips, Dids,    \* "ip:" and "did:" keys
  Requests,     \* the requests a node handles at a time
  Capacity,     \* opts.capacity, in tokens
  Token,        \* units of a token
  Refill,       \* opts.refillPerSec, in units for a step of the clock
  MaxNow,       \* bound: the clock
  MaxTurnBack,  \* bound: how far in all it is set back
  MaxSpent      \* bound: requests allowed in a window, for each key

ASSUME LimiterAssumption ==
  /\ Ips \cap Dids = {}
  /\ Capacity \in Nat \ {0} /\ Token \in Nat \ {0} /\ Refill \in Nat
  /\ MaxNow \in Nat /\ MaxTurnBack \in Nat /\ MaxSpent \in Nat

VARIABLES
  now,          \* Date.now()
  bucket,       \* buckets
  request,      \* what each request is doing
  spent,        \* history: the requests allowed since the window began
  advanced,     \* history: how far the clock went forward since
  back          \* history: how far it was ever set back

limiterVars == <<now, bucket, request, spent, advanced, back>>
history == <<spent, advanced, back>>

BucketKeys == Ips \cup Dids
Fresh == [tokens |-> Capacity * Token, last |-> -1]
Bucket == [tokens : Int, last : Int]

LimiterTypeOK ==
  /\ now \in Nat /\ advanced \in Nat /\ back \in Nat
  /\ bucket \in [BucketKeys -> Bucket]
  /\ request \in [Requests -> {"idle", "reading"}]
  /\ spent \in [BucketKeys -> Nat]

LimiterInit ==
  /\ now = 0 /\ advanced = 0 /\ back = 0
  /\ bucket = [k \in BucketKeys |-> Fresh]
  /\ request = [r \in Requests |-> "idle"]
  /\ spent = [k \in BucketKeys |-> 0]

----------------------------------------------------------------------------
(* allow. *)

(* What the bucket of a key has in it when it is looked at. *)
Tokens(k) ==
  LET b == bucket[k]
      t == b.tokens + Refill * (now - b.last)
  IN  IF b = Fresh \/ t > Capacity * Token THEN Capacity * Token ELSE t

(* Mutant: the time of a refused request is not stored. *)
AllowsUnstamped(k) ==
  /\ Tokens(k) >= Token
  /\ bucket' = [bucket EXCEPT ![k].tokens = Tokens(k) - Token]
  /\ spent' = [spent EXCEPT ![k] = @ + 1]

Allows(k) ==
  /\ Tokens(k) >= Token
  /\ bucket' = [bucket EXCEPT ![k] = [tokens |-> Tokens(k) - Token, last |-> now]]
  /\ spent' = [spent EXCEPT ![k] = @ + 1]

(* Mutant: a refused request costs a token too. *)
RefusesAtACost(k) ==
  /\ Tokens(k) < Token
  /\ bucket' = [bucket EXCEPT ![k] = [tokens |-> Tokens(k) - Token, last |-> now]]
  /\ UNCHANGED spent

Refuses(k) ==
  /\ Tokens(k) < Token
  /\ bucket' = [bucket EXCEPT ![k] = [tokens |-> Tokens(k), last |-> now]]
  /\ UNCHANGED spent

----------------------------------------------------------------------------
(* Requests. *)

(* Of an address that has tokens any request is read ... *)
Arrive(r, ip) ==
  /\ request[r] = "idle" /\ spent[ip] < MaxSpent
  /\ Allows(ip)
  /\ request' = [request EXCEPT ![r] = "reading"]
  /\ UNCHANGED <<now, advanced, back>>

(* ... of another it is answered 429. *)
TooMany(ip) ==
  /\ Refuses(ip)
  /\ UNCHANGED <<now, request, advanced, back>>

(* A GET, a body that is too large or not JSON, a bad or replayed          *)
(* envelope: no sender is looked at.                                       *)
Answered(r) ==
  /\ request[r] = "reading"
  /\ request' = [request EXCEPT ![r] = "idle"]
  /\ UNCHANGED <<now, bucket, history>>

(* An INVOKE that verifyReceived passed, maybe after a wait for the nonce  *)
(* store; a sender without tokens gets a RECEIPT that says rejected.       *)
Sender(r, did) ==
  /\ request[r] = "reading" /\ spent[did] < MaxSpent
  /\ Allows(did) \/ Refuses(did)
  /\ request' = [request EXCEPT ![r] = "idle"]
  /\ UNCHANGED <<now, advanced, back>>

Tick ==
  /\ now < MaxNow
  /\ now' = now + 1 /\ advanced' = advanced + 1
  /\ UNCHANGED <<bucket, request, spent, back>>

TurnBack ==
  /\ now > 0 /\ back < MaxTurnBack
  /\ now' = now - 1 /\ back' = back + 1
  /\ UNCHANGED <<bucket, request, spent, advanced>>

(* A window of observation begins. *)
Watch ==
  /\ spent' = [k \in BucketKeys |-> 0] /\ advanced' = 0
  /\ UNCHANGED <<now, bucket, request, back>>

LimiterNext ==
  \/ \E ip \in Ips : TooMany(ip) \/ \E r \in Requests : Arrive(r, ip)
  \/ \E r \in Requests : Answered(r) \/ \E did \in Dids : Sender(r, did)
  \/ Tick \/ TurnBack \/ Watch

LimiterSpec == LimiterInit /\ [][LimiterNext]_limiterVars

----------------------------------------------------------------------------
(* Properties. *)

(* THE RATE IS BOUNDED (http.ts:65).  In any window no key is allowed more *)
(* than a full bucket and what the clock, however often it was set back,   *)
(* brought in by going forward.                                            *)
RateBounded ==
  \A k \in BucketKeys : Token * spent[k] <= Token * Capacity + Refill * advanced

(* A CALLER IS NOT SHUT OUT.  However many requests were refused, a bucket *)
(* lacks no more than the clock was set back by: as long again, and the    *)
(* time of one token, and its key is allowed once more.                    *)
NotShutOut ==
  \A k \in BucketKeys : Tokens(k) + Refill * back >= 0

=============================================================================
