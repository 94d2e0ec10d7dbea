---------------------------- MODULE EscrowProofs ----------------------------
(***************************************************************************)
(* Proofs about the two rails that keep an EscrowPromise, AlephEscrow and  *)
(* SettlementRail, for every set of ids and parties, every supply and      *)
(* every bound.                                                            *)
(*                                                                         *)
(* The inductive invariant of the contract is ContractTypeOK and OneCall.  *)
(* ContractTypeOK alone is not enough for any of the properties: a call    *)
(* leaves the contract half updated while the token runs, and only OneCall *)
(* says how the half updated state relates to the snapshot a revert brings *)
(* back.  The invariant of the rail adds to TypeOK and RecordsTrue that    *)
(* the ids the counter has not reached are unused: without it a lock could *)
(* overwrite an escrow that is still holding credit.                       *)
(*                                                                         *)
(* Both keep as much money as their books say.  That is about a sum over   *)
(* the book, and rests on two facts about SumFunction, which the first     *)
(* section proves: of zeros it is zero, and a value more or less in one    *)
(* place is as much more or less in the sum.                               *)
(***************************************************************************)
EXTENDS AlephEscrow, SettlementRail, FiniteSetTheorems, TLAPS

----------------------------------------------------------------------------
(* Sums. *)

(* A set of naturals has a least member: were there a smaller one to each, *)
(* adding 1 would map the lower bounds up to a member into those above 0.  *)
LEMMA Smallest ==
  ASSUME NEW T, T \subseteq Nat, T # {}
  PROVE  \E x \in T : \A y \in T : x <= y
<1> SUFFICES ASSUME \A x \in T : \E y \in T : y < x
             PROVE  FALSE
  OBVIOUS
<1>1. PICK n \in T : TRUE
  OBVIOUS
<1> DEFINE D == {x \in 0..n : \A y \in T : x < y}
           E == D \ {0}
           f == [x \in D |-> x + 1]
<1>2. 0 \in D
  OBVIOUS
<1>3. IsFiniteSet(D)
  <2>1. n \in Int /\ IsFiniteSet(0..n)
    BY <1>1, FS_Interval
  <2>2. D \subseteq 0..n
    OBVIOUS
  <2> QED BY <2>1, <2>2, FS_Subset
<1>4. \A x \in D : x + 1 \in D \ {0}
  OBVIOUS
<1>5. f \in [D -> D \ {0}]
  BY <1>4
<1>6. IsFiniteSet(D \ {0}) /\ Cardinality(D \ {0}) = Cardinality(D) - 1
  BY <1>2, <1>3, FS_RemoveElement
<1>7. Cardinality(D) \in Nat
  BY <1>3, FS_CardinalityType
<1>8. Cardinality(D \ {0}) < Cardinality(D)
  BY <1>6, <1>7
<1>9. \E x, y \in D : x # y /\ f[x] = f[y]
  <2>1. IsFiniteSet(E) /\ Cardinality(E) < Cardinality(D) /\ f \in [D -> E]
    BY <1>5, <1>6, <1>8
  <2> HIDE DEF D, E, f
  <2> QED BY <1>3, <2>1, FS_PigeonHole
<1>10. \A x \in D : x \in Nat
  OBVIOUS
<1> QED
  BY <1>9, <1>10

(* Induction over the naturals and over the subsets of a finite set: the   *)
(* smallest counterexample has none below it.                              *)
LEMMA NatInd ==
  ASSUME NEW G, 0 \in G, \A n \in Nat : n \in G => n + 1 \in G
  PROVE  \A n \in Nat : n \in G
<1> DEFINE B == {n \in Nat : n \notin G}
<1> SUFFICES ASSUME B # {} PROVE FALSE
  OBVIOUS
<1>1. PICK n \in B : \A m \in B : n <= m
  <2>1. B \subseteq Nat
    OBVIOUS
  <2> HIDE DEF B
  <2> QED BY <2>1, Smallest
<1>2. n - 1 \in Nat /\ n - 1 \notin B
  BY <1>1
<1> QED BY <1>1, <1>2

LEMMA SubsetInd ==
  ASSUME NEW S, IsFiniteSet(S), NEW G, {} \in G,
         \A T \in SUBSET S : T # {} /\ (\A x \in T : T \ {x} \in G) => T \in G
  PROVE  \A T \in SUBSET S : T \in G
<1> DEFINE B == {T \in SUBSET S : T \notin G}
           N == {Cardinality(T) : T \in B}
<1> SUFFICES ASSUME B # {} PROVE FALSE
  OBVIOUS
<1>1. \A T \in SUBSET S : IsFiniteSet(T) /\ Cardinality(T) \in Nat
  BY FS_Subset, FS_CardinalityType
<1>2. PICK n \in N : \A m \in N : n <= m
  <2>1. N \subseteq Nat /\ N # {}
    BY <1>1
  <2> HIDE DEF N
  <2> QED BY <2>1, Smallest
<1>3. PICK T \in B : n = Cardinality(T)
  OBVIOUS
<1>4. PICK x \in T : T \ {x} \in B
  OBVIOUS
<1>5. Cardinality(T \ {x}) = Cardinality(T) - 1
  BY <1>1, FS_RemoveElement
<1>6. Cardinality(T \ {x}) \in N
  BY <1>4
<1>7. Cardinality(T) \in Nat /\ n <= Cardinality(T \ {x})
  BY <1>1, <1>2, <1>6
<1> QED BY <1>3, <1>5, <1>7

(* SumFunction, with its recursion by name: SumOver(f, S)[T] is the sum of *)
(* f over a part T of S.                                                   *)
Any(T) == CHOOSE x \in T : TRUE
Adds(f, s, T) == IF T = {} THEN 0 ELSE f[Any(T)] + s[T \ {Any(T)}]
SumOver(f, S) == CHOOSE s : s = [T \in SUBSET S |-> Adds(f, s, T)]

LEMMA SumIs == ASSUME NEW f PROVE SumFunction(f) = SumOver(f,DOMAIN f)[DOMAIN f]
  BY DEF SumFunction, SumFunctionOnSet, FoldFunctionOnSet, MapThenFoldSet, SumOver, Adds, Any

LEMMA AnyIn == ASSUME NEW T, T # {} PROVE Any(T) \in T
  BY DEF Any

(* There is such a function: one for the parts of at most n members can be *)
(* extended to those of n + 1.                                             *)
LEMMA SumStep ==
  ASSUME NEW f, NEW S, IsFiniteSet(S)
  PROVE  \A T \in SUBSET S : SumOver(f, S)[T] = Adds(f, SumOver(f, S), T)
<1> DEFINE D(n) == {T \in SUBSET S : Cardinality(T) <= n}
           G == {n \in Nat : \E s : s = [T \in D(n) |-> Adds(f, s, T)]}
<1>1. \A T \in SUBSET S : IsFiniteSet(T) /\ Cardinality(T) \in Nat /\ (Cardinality(T) = 0 <=> T = {})
  BY FS_Subset, FS_CardinalityType, FS_EmptySet
<1>2. 0 \in G
  <2>1. [T \in D(0) |-> 0] = [T \in D(0) |-> Adds(f, [U \in D(0) |-> 0], T)]
    BY <1>1 DEF Adds
  <2> QED BY <2>1
<1>3. ASSUME NEW n \in Nat, n \in G PROVE n + 1 \in G
  <2>1. PICK s : s = [T \in D(n) |-> Adds(f, s, T)]
    BY <1>3
  <2> DEFINE t == [T \in D(n + 1) |-> Adds(f, s, T)]
  <2>2. ASSUME NEW T \in D(n + 1), T # {}, NEW x \in T PROVE T \ {x} \in D(n)
    <3>1. Cardinality(T \ {x}) = Cardinality(T) - 1
      BY <1>1, FS_RemoveElement
    <3> QED BY <1>1, <3>1
  <2>3. D(n) \subseteq D(n + 1)
    BY <1>1
  <2>4. ASSUME NEW T \in D(n) PROVE t[T] = s[T]
    <3>1. t[T] = Adds(f, s, T)
      BY <2>3
    <3>2. s[T] = Adds(f, s, T)
      <4> HIDE DEF D
      <4> QED BY <2>1
    <3> QED BY <3>1, <3>2
  <2>5. ASSUME NEW T \in D(n + 1) PROVE Adds(f, s, T) = Adds(f, t, T)
    <3> HIDE DEF t, D
    <3>1. T # {} => t[T \ {Any(T)}] = s[T \ {Any(T)}]
      BY <2>2, <2>4, AnyIn
    <3> QED BY <3>1 DEF Adds
  <2>6. t = [T \in D(n + 1) |-> Adds(f, t, T)]
    <3> HIDE DEF D
    <3> QED BY <2>5
  <2>7. \E u : u = [T \in D(n + 1) |-> Adds(f, u, T)]
    <3> HIDE DEF t, D
    <3> QED BY <2>6
  <2> QED BY <2>7
<1>4. Cardinality(S) \in G
  <2>1. Cardinality(S) \in Nat
    BY FS_CardinalityType
  <2> HIDE DEF G
  <2> QED BY <1>2, <1>3, <2>1, NatInd
<1>5. D(Cardinality(S)) = SUBSET S
  BY FS_Subset
<1>6. \E s : s = [T \in SUBSET S |-> Adds(f, s, T)]
  <2> HIDE DEF D
  <2> QED BY <1>4, <1>5
<1>7. SumOver(f, S) = [T \in SUBSET S |-> Adds(f, SumOver(f, S), T)]
  BY <1>6 DEF SumOver
<1> QED BY <1>7

LEMMA SumType ==
  ASSUME NEW S, IsFiniteSet(S), NEW f \in [S -> Int]
  PROVE  \A T \in SUBSET S : SumOver(f, S)[T] \in Int
<1> DEFINE G == {T \in SUBSET S : SumOver(f, S)[T] \in Int}
<1>1. {} \in G
  BY SumStep DEF Adds
<1>2. ASSUME NEW T \in SUBSET S, T # {}, \A x \in T : T \ {x} \in G PROVE T \in G
  <2>1. Any(T) \in T
    BY <1>2, AnyIn
  <2>2. SumOver(f, S)[T \ {Any(T)}] \in Int /\ f[Any(T)] \in Int
    BY <1>2, <2>1
  <2>3. SumOver(f, S)[T] = f[Any(T)] + SumOver(f, S)[T \ {Any(T)}]
    BY <1>2, SumStep DEF Adds
  <2> QED BY <2>2, <2>3
<1>3. \A T \in SUBSET S : T \in G
  <2> HIDE DEF G
  <2> QED BY <1>1, <1>2, SubsetInd
<1> QED BY <1>3

LEMMA SumIsInt ==
  ASSUME NEW S, IsFiniteSet(S), NEW f \in [S -> Int]
  PROVE  SumFunction(f) \in Int
  BY SumIs, SumType

(* To change one value of a function changes its sum by as much. *)
LEMMA SumOfUpdate ==
  ASSUME NEW S, IsFiniteSet(S), NEW f \in [S -> Int], NEW k \in S, NEW v \in Int
  PROVE  SumFunction([f EXCEPT ![k] = v]) = SumFunction(f) + v - f[k] /\ SumFunction(f) \in Int
<1> PICK g : g = [f EXCEPT ![k] = v]
  OBVIOUS
<1> DEFINE d(T) == IF k \in T THEN v - f[k] ELSE 0
           G == {T \in SUBSET S : SumOver(g, S)[T] = SumOver(f, S)[T] + d(T)}
<1>1. {} \in G
  <2>1. SumOver(g, S)[{}] = 0 /\ SumOver(f, S)[{}] = 0
    BY SumStep DEF Adds
  <2> QED BY <2>1
<1>2. ASSUME NEW T \in SUBSET S, T # {}, \A x \in T : T \ {x} \in G PROVE T \in G
  <2> PICK x : x = Any(T)
    OBVIOUS
  <2>1. x \in T /\ T \ {x} \in SUBSET S
    BY <1>2, AnyIn
  <2>2. SumOver(g, S)[T] = g[x] + SumOver(g, S)[T \ {x}]
    <3>1. SumOver(g, S)[T] = Adds(g, SumOver(g, S), T)
      BY SumStep
    <3> QED BY <1>2, <3>1 DEF Adds
  <2>3. SumOver(f, S)[T] = f[x] + SumOver(f, S)[T \ {x}]
    <3>1. SumOver(f, S)[T] = Adds(f, SumOver(f, S), T)
      BY SumStep
    <3> QED BY <1>2, <3>1 DEF Adds
  <2>4. SumOver(g, S)[T \ {x}] = SumOver(f, S)[T \ {x}] + d(T \ {x})
    BY <1>2, <2>1
  <2>5. SumOver(f, S)[T \ {x}] \in Int /\ f[x] \in Int /\ f[k] \in Int
    BY <2>1, SumType
  <2>6. g[x] = IF x = k THEN v ELSE f[x]
    BY <2>1
  <2>7. SumOver(g, S)[T] = SumOver(f, S)[T] + d(T)
    <3>1. CASE x = k
      BY <2>1, <2>2, <2>3, <2>4, <2>5, <2>6, <3>1
    <3>2. CASE x # k /\ k \in T
      BY <2>1, <2>2, <2>3, <2>4, <2>5, <2>6, <3>2
    <3>3. CASE x # k /\ k \notin T
      BY <2>1, <2>2, <2>3, <2>4, <2>5, <2>6, <3>3
    <3> QED BY <3>1, <3>2, <3>3
  <2> QED BY <2>7
<1>3. S \in G
  <2> HIDE DEF G
  <2> QED BY <1>1, <1>2, SubsetInd
<1>4. SumFunction(f) = SumOver(f, S)[S] /\ SumFunction(g) = SumOver(g, S)[S]
  BY SumIs
<1>5. SumOver(f, S)[S] \in Int /\ f[k] \in Int
  BY SumType
<1> QED BY <1>3, <1>4, <1>5

LEMMA SumOfZeros ==
  ASSUME NEW S, IsFiniteSet(S), NEW f \in [S -> {0}]
  PROVE  SumFunction(f) = 0
<1> DEFINE G == {T \in SUBSET S : SumOver(f, S)[T] = 0}
<1>1. {} \in G
  BY SumStep DEF Adds
<1>2. ASSUME NEW T \in SUBSET S, T # {}, \A x \in T : T \ {x} \in G PROVE T \in G
  <2>1. Any(T) \in T
    BY <1>2, AnyIn
  <2>2. SumOver(f, S)[T \ {Any(T)}] = 0 /\ f[Any(T)] = 0
    BY <1>2, <2>1
  <2>3. SumOver(f, S)[T] = f[Any(T)] + SumOver(f, S)[T \ {Any(T)}]
    BY <1>2, SumStep DEF Adds
  <2> QED BY <2>2, <2>3
<1>3. S \in G
  <2> HIDE DEF G
  <2> QED BY <1>1, <1>2, SubsetInd
<1> QED BY <1>3, SumIs

----------------------------------------------------------------------------
(* The contract. *)

ContractInv == ContractTypeOK /\ OneCall

(* With at most one frame, the stack is empty or it is its top. *)
LEMMA StackShape ==
  ASSUME ContractTypeOK, Len(frames) \in {0, 1}
  PROVE  \/ frames = <<>>
         \/ /\ frames # <<>> /\ Len(frames) = 1 /\ Top = frames[1] /\ Pop = <<>>
            /\ Top \in Frame /\ DOMAIN frames = {1}
<1>1. frames \in Seq(Frame) /\ Len(frames) \in Nat
  BY DEF ContractTypeOK
<1>2. CASE Len(frames) = 0
  BY <1>1, <1>2
<1>3. CASE Len(frames) = 1
  <2>1. frames # <<>> /\ DOMAIN frames = {1}
    <3> PICK q \in Seq(Frame) : q = frames
      BY <1>1
    <3>1. Len(q) = 1 => q # <<>> /\ DOMAIN q = {1}
      OBVIOUS
    <3> QED BY <1>3, <3>1
  <2>2. frames[1] \in Frame
    BY <1>1, <1>3, <2>1
  <2>3. SubSeq(frames, 1, 0) = <<>>
    BY <1>1, <1>3
  <2> QED BY <1>3, <2>1, <2>2, <2>3 DEF Top, Pop
<1> QED BY <1>2, <1>3

(* Pushing on an empty stack. *)
LEMMA PushShape ==
  ASSUME frames = <<>>, NEW f \in Frame
  PROVE  LET fs == Append(frames, f) IN
           /\ fs \in Seq(Frame) /\ Len(fs) = 1 /\ fs[1] = f /\ DOMAIN fs = {1} /\ fs # <<>>
  OBVIOUS

(* The initial state: no call is under way. *)
LEMMA ContractInitInv == ContractInit => ContractInv
<1> SUFFICES ASSUME ContractInit PROVE ContractInv
  OBVIOUS
<1>1. escrows \in [ContractIds -> ContractEscrow \cup {NoEscrow}]
  BY DEF ContractInit
<1>2. balance \in [Accounts -> Nat]
  BY EscrowAssumption DEF ContractInit, Accounts
<1>3. frames = <<>> /\ frames \in Seq(Frame) /\ Len(frames) = 0 /\ DOMAIN frames = {}
  BY DEF ContractInit
<1> QED BY <1>1, <1>2, <1>3 DEF ContractInit, ContractInv, ContractTypeOK, OneCall

(* The three entry points preserve the invariant: nonReentrant makes each   *)
(* of them start on an empty stack, and each leaves a frame that records   *)
(* what it did.                                                            *)
LEMMA LockInv ==
  ASSUME ContractInv, NEW i \in ContractIds, NEW s \in Addr, NEW p \in Accounts, NEW a \in Amounts,
         NEW d \in Deadlines, Lock(i, s, p, a, d)
  PROVE  ContractInv'
<1> DEFINE e == [status |-> "locked", payer |-> s, payee |-> p, amount |-> a, deadline |-> d]
           f == [id |-> i, caller |-> s, from |-> s, to |-> Contract, amount |-> a, moved |-> FALSE,
                 before |-> [escrows |-> escrows, balance |-> balance, entered |-> entered, stray |-> stray]]
<1> PICK g : g = f
  OBVIOUS
<1>1. /\ ~entered /\ entered' = TRUE /\ escrows[i].status = "none"
      /\ escrows' = [escrows EXCEPT ![i] = e]
      /\ frames' = Append(frames, g) /\ balance' = balance /\ now' = now /\ stray' = stray
  BY DEF Lock, NonReentrant, AskToken
<1>2. frames = <<>>
  BY <1>1 DEF ContractInv, OneCall
<1>3. g \in Frame
  BY <1>1 DEF ContractInv, ContractTypeOK, Frame, Snapshot, Accounts
<1>4. e \in ContractEscrow
  BY DEF ContractEscrow
<1>5. /\ frames' \in Seq(Frame) /\ Len(frames') = 1 /\ frames'[1] = g
      /\ DOMAIN frames' = {1} /\ frames' # <<>>
  BY <1>1, <1>2, <1>3, PushShape
<1>6. ContractTypeOK'
  BY <1>1, <1>4, <1>5 DEF ContractInv, ContractTypeOK
<1>7. CallOK(g)'
  BY <1>1, <1>4 DEF ContractInv, ContractTypeOK, CallOK, ContractEscrow
<1>8. OneCall'
  BY <1>1, <1>5, <1>7 DEF OneCall
<1> QED BY <1>6, <1>8 DEF ContractInv

LEMMA ReleaseInv ==
  ASSUME ContractInv, NEW i \in ContractIds, NEW s \in Addr, Release(i, s)
  PROVE  ContractInv'
<1> DEFINE b == escrows[i]
           f == [id |-> i, caller |-> s, from |-> Contract, to |-> b.payee, amount |-> b.amount,
                 moved |-> FALSE,
                 before |-> [escrows |-> escrows, balance |-> balance, entered |-> entered, stray |-> stray]]
<1> PICK g : g = f
  OBVIOUS
<1>1. /\ ~entered /\ entered' = TRUE /\ b.status = "locked" /\ s = b.payer
      /\ escrows' = [escrows EXCEPT ![i].status = "released"]
      /\ frames' = Append(frames, g) /\ balance' = balance /\ now' = now /\ stray' = stray
  BY DEF Release, NonReentrant, AskToken
<1>2. frames = <<>>
  BY <1>1 DEF ContractInv, OneCall
<1>3. b \in ContractEscrow
  BY <1>1 DEF ContractInv, ContractTypeOK, NoEscrow
<1>4. g \in Frame
  BY <1>1, <1>3 DEF ContractInv, ContractTypeOK, Frame, Snapshot, Accounts, ContractEscrow
<1>5. /\ frames' \in Seq(Frame) /\ Len(frames') = 1 /\ frames'[1] = g
      /\ DOMAIN frames' = {1} /\ frames' # <<>>
  BY <1>1, <1>2, <1>4, PushShape
<1>6. [b EXCEPT !.status = "released"] \in ContractEscrow
  BY <1>3 DEF ContractEscrow
<1>7. ContractTypeOK'
  BY <1>1, <1>5, <1>6 DEF ContractInv, ContractTypeOK
<1>8. /\ escrows'[i] = [b EXCEPT !.status = "released"]
      /\ escrows' = [escrows EXCEPT ![i] = escrows'[i]]
  BY <1>1 DEF ContractInv, ContractTypeOK
<1>9. /\ g.id = i /\ g.caller = s /\ g.from = Contract /\ g.to = b.payee /\ g.amount = b.amount
      /\ ~g.moved /\ g.before.escrows = escrows /\ g.before.balance = balance
      /\ ~g.before.entered /\ g.before.stray = stray
  BY <1>1
<1> HIDE DEF f
<1>10. CallOK(g)'
  BY <1>1, <1>8, <1>9 DEF CallOK
<1>11. OneCall'
  BY <1>1, <1>5, <1>10 DEF OneCall
<1> QED BY <1>7, <1>11 DEF ContractInv

LEMMA RefundInv ==
  ASSUME ContractInv, NEW i \in ContractIds, NEW s \in Addr, Refund(i, s)
  PROVE  ContractInv'
<1> DEFINE b == escrows[i]
           f == [id |-> i, caller |-> s, from |-> Contract, to |-> b.payer, amount |-> b.amount,
                 moved |-> FALSE,
                 before |-> [escrows |-> escrows, balance |-> balance, entered |-> entered, stray |-> stray]]
<1> PICK g : g = f
  OBVIOUS
<1>1. /\ ~entered /\ entered' = TRUE /\ b.status = "locked" /\ MayRefund(b, s)
      /\ escrows' = [escrows EXCEPT ![i].status = "refunded"]
      /\ frames' = Append(frames, g) /\ balance' = balance /\ now' = now /\ stray' = stray
  BY DEF Refund, NonReentrant, AskToken
<1>2. frames = <<>>
  BY <1>1 DEF ContractInv, OneCall
<1>3. b \in ContractEscrow
  BY <1>1 DEF ContractInv, ContractTypeOK, NoEscrow
<1>4. g \in Frame
  BY <1>1, <1>3 DEF ContractInv, ContractTypeOK, Frame, Snapshot, Accounts, ContractEscrow
<1>5. /\ frames' \in Seq(Frame) /\ Len(frames') = 1 /\ frames'[1] = g
      /\ DOMAIN frames' = {1} /\ frames' # <<>>
  BY <1>1, <1>2, <1>4, PushShape
<1>6. [b EXCEPT !.status = "refunded"] \in ContractEscrow
  BY <1>3 DEF ContractEscrow
<1>7. ContractTypeOK'
  BY <1>1, <1>5, <1>6 DEF ContractInv, ContractTypeOK
<1>8. /\ escrows'[i] = [b EXCEPT !.status = "refunded"]
      /\ escrows' = [escrows EXCEPT ![i] = escrows'[i]]
  BY <1>1 DEF ContractInv, ContractTypeOK
<1>9. /\ g.id = i /\ g.caller = s /\ g.from = Contract /\ g.to = b.payer /\ g.amount = b.amount
      /\ ~g.moved /\ g.before.escrows = escrows /\ g.before.balance = balance
      /\ ~g.before.entered /\ g.before.stray = stray
  BY <1>1
<1> HIDE DEF f
<1>10. CallOK(g)'
  BY <1>1, <1>8, <1>9 DEF CallOK, MayRefund
<1>11. OneCall'
  BY <1>1, <1>5, <1>10 DEF OneCall
<1> QED BY <1>7, <1>11 DEF ContractInv

(* The token moves the money of the call under way. *)
LEMMA TokenMovesInv ==
  ASSUME ContractInv, TokenMoves
  PROVE  ContractInv'
<1>1. /\ Len(frames) = 1 /\ Top = frames[1] /\ Top \in Frame /\ DOMAIN frames = {1}
  BY StackShape DEF ContractInv, OneCall, TokenMoves
<1> PICK f : f = Top
  OBVIOUS
<1> PICK g : g = [f EXCEPT !.moved = TRUE]
  OBVIOUS
<1>2. /\ ~f.moved /\ f.amount <= balance[f.from]
      /\ balance' = [balance EXCEPT ![f.from] = @ - f.amount, ![f.to] = @ + f.amount]
      /\ frames' = [frames EXCEPT ![1] = g]
      /\ escrows' = escrows /\ entered' = entered /\ now' = now
      /\ stray' = IF f.from = f.to THEN stray + f.amount ELSE stray
  BY <1>1 DEF TokenMoves, TokenAccepts
<1>3. f \in Frame /\ g \in Frame
  BY <1>1 DEF Frame
<1>4. /\ frames' \in Seq(Frame) /\ Len(frames') = 1 /\ frames'[1] = g
      /\ DOMAIN frames' = {1} /\ frames' # <<>>
  <2>1. frames \in Seq(Frame)
    BY DEF ContractInv, ContractTypeOK
  <2>2. \A q \in Seq(Frame) : Len(q) = 1 =>
          LET r == [q EXCEPT ![1] = g] IN
            r \in Seq(Frame) /\ Len(r) = 1 /\ r[1] = g /\ DOMAIN r = {1} /\ r # <<>>
    BY <1>3
  <2> QED BY <1>1, <1>2, <2>1, <2>2
<1>5. CallOK(f)
  BY <1>1 DEF ContractInv, OneCall
<1>6. balance = f.before.balance /\ stray = f.before.stray
  BY <1>2, <1>5 DEF CallOK
<1>7. f.amount \in Nat /\ f.from \in Accounts /\ f.to \in Accounts
  BY <1>3, EscrowAssumption DEF Frame
<1>8. balance' \in [Accounts -> Nat]
  <2>1. balance \in [Accounts -> Nat]
    BY DEF ContractInv, ContractTypeOK
  <2> PICK m \in Nat : m = f.amount
    BY <1>7
  <2> PICK a \in Accounts : a = f.from
    BY <1>7
  <2> PICK b \in Accounts : b = f.to
    BY <1>7
  <2>2. balance' = [balance EXCEPT ![a] = @ - m, ![b] = @ + m] /\ m <= balance[a]
    BY <1>2
  <2> QED BY <2>1, <2>2
<1>9. ContractTypeOK'
  <2>1. stray' \in Nat
    BY <1>2, <1>7 DEF ContractInv, ContractTypeOK
  <2> QED BY <1>2, <1>4, <1>8, <2>1 DEF ContractInv, ContractTypeOK
<1>10. /\ g.id = f.id /\ g.caller = f.caller /\ g.from = f.from /\ g.to = f.to
       /\ g.amount = f.amount /\ g.before = f.before /\ g.moved = TRUE
  BY <1>3 DEF Frame
<1>11. CallOK(g)'
  <2>1. /\ g.moved /\ g.amount <= g.before.balance[g.from]
        /\ balance' = [g.before.balance EXCEPT ![g.from] = @ - g.amount, ![g.to] = @ + g.amount]
    BY <1>2, <1>6, <1>10
  <2>3. stray' = g.before.stray + (IF g.from = g.to THEN g.amount ELSE 0)
    <3>1. stray \in Nat
      BY DEF ContractInv, ContractTypeOK
    <3> QED BY <1>2, <1>6, <1>10, <3>1
  <2>2. \A b, a : MayRefund(b, a)' <=> MayRefund(b, a)
    BY <1>2 DEF MayRefund
  <2> DEFINE p == f.before.escrows[f.id]
             e == escrows[f.id]
  <2>4. /\ g.before.entered = FALSE
        /\ escrows' = [g.before.escrows EXCEPT ![g.id] = escrows'[g.id]]
    BY <1>2, <1>5, <1>10 DEF CallOK
  <2>5. \/ /\ p.status = "none" /\ e.status = "locked" /\ e.payer = f.caller
           /\ f.amount = e.amount /\ f.from = f.caller /\ f.to = Contract
        \/ /\ p.status = "locked" /\ e = [p EXCEPT !.status = "released"] /\ f.caller = p.payer
           /\ f.amount = p.amount /\ f.from = Contract /\ f.to = p.payee
        \/ /\ p.status = "locked" /\ e = [p EXCEPT !.status = "refunded"] /\ MayRefund(p, f.caller)
           /\ f.amount = p.amount /\ f.from = Contract /\ f.to = p.payer
    BY <1>5 DEF CallOK
  <2>6. p = g.before.escrows[g.id] /\ e = escrows'[g.id] /\ (MayRefund(p, f.caller) => MayRefund(p, g.caller)')
    BY <1>2, <1>10, <2>2
  <2> HIDE DEF p, e
  <2> QED BY <1>10, <2>1, <2>3, <2>4, <2>5, <2>6 DEF CallOK
<1>12. OneCall'
  BY <1>1, <1>2, <1>4, <1>11 DEF OneCall, ContractInv
<1> QED BY <1>9, <1>12 DEF ContractInv

(* A refused call leaves what the snapshot holds, and no call under way. *)
LEMMA TokenRefusesInv ==
  ASSUME ContractInv, TokenRefuses
  PROVE  ContractInv'
<1>1. /\ Top = frames[1] /\ Top \in Frame /\ DOMAIN frames = {1} /\ Pop = <<>>
  BY StackShape DEF ContractInv, OneCall, TokenRefuses
<1>2. Top.before \in Snapshot /\ Top.before.entered = FALSE
  BY <1>1 DEF ContractInv, OneCall, CallOK, Frame
<1>3. /\ escrows' = Top.before.escrows /\ balance' = Top.before.balance
      /\ entered' = FALSE /\ frames' = <<>> /\ now' = now /\ stray' = Top.before.stray
  BY <1>1, <1>2 DEF TokenRefuses
<1>4. frames' \in Seq(Frame) /\ Len(frames') = 0 /\ DOMAIN frames' = {}
  BY <1>3
<1> QED BY <1>2, <1>3, <1>4 DEF ContractInv, ContractTypeOK, OneCall, Snapshot

(* A call returns, or a block passes: no call is under way afterwards. *)
LEMMA ReturnInv ==
  ASSUME ContractInv, Return
  PROVE  ContractInv'
<1>1. Pop = <<>>
  BY StackShape DEF ContractInv, OneCall, Return
<1>2. frames' = <<>> /\ frames' \in Seq(Frame) /\ Len(frames') = 0 /\ DOMAIN frames' = {}
  BY <1>1 DEF Return
<1> QED BY <1>2 DEF Return, ContractInv, ContractTypeOK, OneCall

LEMMA SendInv ==
  ASSUME ContractInv, NEW from \in Addr, NEW a \in Amounts, Send(from, a)
  PROVE  ContractInv'
<1>1. frames' = <<>> /\ frames' \in Seq(Frame) /\ Len(frames') = 0 /\ DOMAIN frames' = {}
  BY DEF Send
<1>2. a \in Nat /\ from \in Accounts /\ Contract \in Accounts /\ from # Contract
  BY EscrowAssumption DEF Accounts
<1>3. balance' \in [Accounts -> Nat] /\ stray' \in Nat
  <2>1. balance \in [Accounts -> Nat] /\ stray \in Nat
    BY DEF ContractInv, ContractTypeOK
  <2>2. a <= balance[from] /\ stray' = stray + a
        /\ balance' = [balance EXCEPT ![from] = @ - a, ![Contract] = @ + a]
    BY DEF Send
  <2> QED BY <1>2, <2>1, <2>2
<1> QED BY <1>1, <1>3 DEF Send, ContractInv, ContractTypeOK, OneCall

LEMMA TickInv ==
  ASSUME ContractInv, Tick
  PROVE  ContractInv'
<1>1. frames' = <<>> /\ frames' \in Seq(Frame) /\ Len(frames') = 0 /\ DOMAIN frames' = {}
  BY DEF Tick
<1> QED BY <1>1 DEF Tick, ContractInv, ContractTypeOK, OneCall

(* The invariant is inductive. *)
LEMMA ContractNextInv == ContractInv /\ [ContractNext]_contractVars => ContractInv'
<1> SUFFICES ASSUME ContractInv, [ContractNext]_contractVars PROVE ContractInv'
  OBVIOUS
<1>1. CASE \E i \in ContractIds, s \in Addr, p \in Accounts, a \in Amounts, d \in Deadlines : Lock(i, s, p, a, d)
  BY <1>1, LockInv
<1>2. CASE \E i \in ContractIds, s \in Addr : Release(i, s)
  BY <1>2, ReleaseInv
<1>3. CASE \E i \in ContractIds, s \in Addr : Refund(i, s)
  BY <1>3, RefundInv
<1>4. CASE TokenMoves
  BY <1>4, TokenMovesInv
<1>5. CASE TokenRefuses
  BY <1>5, TokenRefusesInv
<1>6. CASE Return
  BY <1>6, ReturnInv
<1>7. CASE Tick
  BY <1>7, TickInv
<1>8. CASE \E from \in Addr, a \in Amounts : Send(from, a)
  BY <1>8, SendInv
<1>9. CASE UNCHANGED contractVars
  <2>1. ContractTypeOK'
    BY <1>9 DEF contractVars, ContractInv, ContractTypeOK
  <2>2. \A f : CallOK(f)' <=> CallOK(f)
    <3>1. \A b, a : MayRefund(b, a)' <=> MayRefund(b, a)
      BY <1>9 DEF contractVars, MayRefund
    <3>2. escrows' = escrows /\ balance' = balance /\ stray' = stray
      BY <1>9 DEF contractVars
    <3> QED BY <3>1, <3>2 DEF CallOK
  <2>3. OneCall'
    BY <1>9, <2>2 DEF contractVars, ContractInv, OneCall
  <2> QED BY <2>1, <2>3 DEF ContractInv
<1> QED BY <1>1, <1>2, <1>3, <1>4, <1>5, <1>6, <1>7, <1>8, <1>9 DEF ContractNext

(* TYPES, for every instance: what the contract and the token keep, and    *)
(* what a call that reverts brings back.                                   *)
THEOREM ContractTypeCorrect == ContractSpec => []ContractTypeOK
<1>1. ContractInv => ContractTypeOK
  BY DEF ContractInv
<1> QED BY <1>1, ContractInitInv, ContractNextInv, PTL DEF ContractSpec

(* ONE CALL AT A TIME, for every instance: the nonReentrant contract never *)
(* has two calls under way, and the one there is has touched its own       *)
(* escrow only.                                                            *)
THEOREM ReentrancyIsHarmless == ContractSpec => []OneCall
<1>1. ContractInv => OneCall
  BY DEF ContractInv
<1> QED BY <1>1, ContractInitInv, ContractNextInv, PTL DEF ContractSpec

----------------------------------------------------------------------------
(* Solvency.  Owed, as a function of the frames and the book. *)
Worth(e) == IF e.status = "locked" THEN e.amount ELSE 0

OwedIn(fs, es, i) ==
  LET pending == {k \in DOMAIN fs : fs[k].id = i /\ ~fs[k].moved}
  IN  IF pending = {} THEN Worth(es[i]) ELSE IF Worth(es[i]) > 0 THEN 0 ELSE es[i].amount

OwedNow == [i \in ContractIds |-> Owed(i)]

LEMMA OwedIs ==
  /\ \A i : Owed(i) = OwedIn(frames, escrows, i)
  /\ OwedNow' = [i \in ContractIds |-> OwedIn(frames', escrows', i)]
  BY DEF Owed, OwedIn, OwedNow, Worth

LEMMA OwedShape ==
  ASSUME NEW fs, NEW es, NEW i
  PROVE  /\ DOMAIN fs = {} => OwedIn(fs, es, i) = Worth(es[i])
         /\ DOMAIN fs = {1} =>
              OwedIn(fs, es, i) = IF fs[1].id = i /\ ~fs[1].moved
                                  THEN IF Worth(es[i]) > 0 THEN 0 ELSE es[i].amount
                                  ELSE Worth(es[i])
<1>1. CASE DOMAIN fs = {}
  BY <1>1 DEF OwedIn
<1>2. CASE DOMAIN fs = {1}
  <2> DEFINE pending == {k \in DOMAIN fs : fs[k].id = i /\ ~fs[k].moved}
  <2>1. pending = IF fs[1].id = i /\ ~fs[1].moved THEN {1} ELSE {}
    BY <1>2
  <2>2. OwedIn(fs, es, i) = IF pending = {} THEN Worth(es[i]) ELSE IF Worth(es[i]) > 0 THEN 0 ELSE es[i].amount
    BY DEF OwedIn
  <2> HIDE DEF pending
  <2> QED BY <1>2, <2>1, <2>2
<1> QED BY <1>1, <1>2

LEMMA MovedOwesWorth ==
  \A fs, es : DOMAIN fs = {1} /\ fs[1].moved => \A i : OwedIn(fs, es, i) = Worth(es[i])
  BY OwedShape

(* What a call does to the record of its escrow. *)
Touches(b, e) ==
  \/ b.status = "none" /\ e.status = "locked"
  \/ b.status = "locked" /\ e = [b EXCEPT !.status = "released"]
  \/ b.status = "locked" /\ e = [b EXCEPT !.status = "refunded"]

LEMMA AmountOf == ASSUME NEW e \in ContractEscrow PROVE e.amount \in Nat
<1>1. e.amount \in Amounts
  BY DEF ContractEscrow
<1>2. Amounts \subseteq Nat
  BY EscrowAssumption
<1> QED BY <1>1, <1>2

(* A call that waits for the token owes what was owed before it. *)
LEMMA WaitingOwesNoLess ==
  ASSUME NEW f \in Frame, NEW fs, DOMAIN fs = {1}, fs[1] = f, ~f.moved,
         NEW es \in [ContractIds -> ContractEscrow \cup {NoEscrow}],
         es = [f.before.escrows EXCEPT ![f.id] = es[f.id]],
         Touches(f.before.escrows[f.id], es[f.id]),
         NEW i \in ContractIds
  PROVE  OwedIn(fs, es, i) = Worth(f.before.escrows[i])
<1> DEFINE b == f.before.escrows[i]
           e == es[i]
<1>1. f.before.escrows \in [ContractIds -> ContractEscrow \cup {NoEscrow}] /\ f.id \in ContractIds
  BY DEF Frame, Snapshot
<1>2. CASE i # f.id
  BY <1>1, <1>2, OwedShape
<1>3. CASE i = f.id
  <2>1. OwedIn(fs, es, i) = IF Worth(e) > 0 THEN 0 ELSE e.amount
    BY <1>3, OwedShape
  <2>2. CASE b.status = "none" /\ e.status = "locked"
    <3>0. e \in ContractEscrow
      BY <2>2 DEF NoEscrow
    <3>1. e.amount \in Nat
      BY <3>0, AmountOf
    <3> QED BY <2>1, <2>2, <3>1 DEF Worth
  <2>3. ASSUME b.status = "locked", NEW st \in {"released", "refunded"}, e = [b EXCEPT !.status = st]
        PROVE  OwedIn(fs, es, i) = Worth(b)
    <3>1. b \in ContractEscrow
      BY <1>1, <2>3 DEF NoEscrow
    <3>2. e.status = st /\ e.amount = b.amount
      BY <2>3, <3>1 DEF ContractEscrow
    <3> QED BY <2>1, <2>3, <3>2 DEF Worth
  <2> QED BY <1>3, <2>2, <2>3 DEF Touches
<1> QED BY <1>2, <1>3

LEMMA OwedType ==
  ASSUME ContractInv
  PROVE  OwedNow \in [ContractIds -> Int]
<1> SUFFICES ASSUME NEW i \in ContractIds PROVE OwedIn(frames, escrows, i) \in Int
  BY OwedIs DEF OwedNow
<1>1. escrows[i] \in ContractEscrow \cup {NoEscrow}
  BY DEF ContractInv, ContractTypeOK
<1>2. Worth(escrows[i]) \in Int /\ (escrows[i] \in ContractEscrow => escrows[i].amount \in Int)
  <2>1. escrows[i] \in ContractEscrow => escrows[i].amount \in Int
    BY AmountOf
  <2>2. escrows[i] = NoEscrow => escrows[i].status # "locked"
    BY DEF NoEscrow
  <2> QED BY <1>1, <2>1, <2>2 DEF Worth
<1>3. CASE frames = <<>>
  BY <1>2, <1>3, OwedShape
<1>4. CASE frames # <<>>
  <2>1. DOMAIN frames = {1} /\ frames[1] \in Frame /\ CallOK(frames[1])
    BY <1>4, StackShape DEF ContractInv, OneCall
  <2>2. frames[1].id = i => escrows[i].status # "none"
    <3>1. frames[1].before.escrows \in [ContractIds -> ContractEscrow \cup {NoEscrow}] /\ frames[1].id \in ContractIds
      BY <2>1 DEF Frame, Snapshot
    <3> QED BY <2>1, <3>1 DEF CallOK, ContractEscrow, NoEscrow
  <2>3. frames[1].id = i => escrows[i] \in ContractEscrow
    BY <1>1, <2>2 DEF NoEscrow
  <2> QED BY <1>2, <2>1, <2>3, OwedShape
<1> QED BY <1>3, <1>4

(* Entering a call changes neither side: the money has yet to move. *)
LEMMA EnterOwes ==
  ASSUME ContractInv, ContractInv', ~entered, balance' = balance,
         NEW f, frames' = Append(frames, f), ~f.moved, f.before.escrows = escrows
  PROVE  OwedNow' = OwedNow
<1>1. frames = <<>> /\ DOMAIN frames = {}
  BY DEF ContractInv, OneCall
<1>2. DOMAIN frames' = {1} /\ frames'[1] = f /\ frames'[1] \in Frame
  BY <1>1 DEF ContractInv, ContractTypeOK
<1>3. CallOK(f)'
  BY <1>2 DEF ContractInv, OneCall
<1>4. escrows' \in [ContractIds -> ContractEscrow \cup {NoEscrow}]
  BY DEF ContractInv, ContractTypeOK
<1>5. /\ escrows' = [f.before.escrows EXCEPT ![f.id] = escrows'[f.id]]
      /\ Touches(f.before.escrows[f.id], escrows'[f.id])
  BY <1>3 DEF CallOK, Touches
<1>6. \A i \in ContractIds : OwedIn(frames', escrows', i) = Worth(escrows[i])
  <2> SUFFICES ASSUME NEW i \in ContractIds PROVE OwedIn(frames', escrows', i) = Worth(escrows[i])
    OBVIOUS
  <2>1. f \in Frame
    BY <1>2
  <2> DEFINE fs == frames'
             es == escrows'
  <2>2. /\ DOMAIN fs = {1} /\ fs[1] = f /\ ~f.moved
        /\ es \in [ContractIds -> ContractEscrow \cup {NoEscrow}]
        /\ es = [f.before.escrows EXCEPT ![f.id] = es[f.id]]
        /\ Touches(f.before.escrows[f.id], es[f.id])
    BY <1>2, <1>4, <1>5
  <2> HIDE DEF fs, es
  <2>3. OwedIn(fs, es, i) = Worth(f.before.escrows[i])
    BY <2>1, <2>2, WaitingOwesNoLess
  <2> QED BY <2>3 DEF fs, es
<1>7. \A i \in ContractIds : OwedIn(frames, escrows, i) = Worth(escrows[i])
  BY <1>1, OwedShape
<1> QED BY <1>6, <1>7, OwedIs DEF OwedNow

(* The token moves what is owed, and what is held for others, by the same  *)
(* amount.                                                                 *)
LEMMA MoveOwes ==
  ASSUME ContractInv, ContractInv', TokenMoves
  PROVE  \E i \in ContractIds, v \in Int :
           /\ OwedNow' = [OwedNow EXCEPT ![i] = v]
           /\ balance'[Contract] - stray' = (balance[Contract] - stray) + v - OwedNow[i]
<1>1. /\ Len(frames) = 1 /\ Top = frames[1] /\ Top \in Frame /\ DOMAIN frames = {1}
      /\ frames \in Seq(Frame)
  BY StackShape DEF ContractInv, ContractTypeOK, OneCall, TokenMoves
<1> PICK f : f = Top
  OBVIOUS
<1> PICK g : g = [f EXCEPT !.moved = TRUE]
  OBVIOUS
<1> DEFINE i == f.id
           e == escrows[i]
           b == f.before.escrows[i]
<1>2. /\ ~f.moved /\ f.amount <= balance[f.from] /\ escrows' = escrows
      /\ balance' = [balance EXCEPT ![f.from] = @ - f.amount, ![f.to] = @ + f.amount]
      /\ frames' = [frames EXCEPT ![1] = g]
      /\ stray' = IF f.from = f.to THEN stray + f.amount ELSE stray
  BY <1>1 DEF TokenMoves, TokenAccepts
<1>3. g.id = f.id /\ g.moved = TRUE /\ f.id \in ContractIds /\ f.amount \in Nat
  BY <1>1, EscrowAssumption DEF Frame
<1>4. DOMAIN frames' = {1} /\ frames'[1] = g
  BY <1>1, <1>2
<1>5. \A j \in ContractIds : OwedIn(frames', escrows', j) = Worth(escrows[j])
  <2>1. \A j : OwedIn(frames', escrows, j) = Worth(escrows[j])
    <3>1. PICK after : after = frames'
      OBVIOUS
    <3>2. PICK book : book = escrows
      OBVIOUS
    <3>3. DOMAIN after = {1} /\ after[1].moved
      BY <1>3, <1>4, <3>1
    <3>4. \A j : OwedIn(after, book, j) = Worth(book[j])
      BY <3>3, MovedOwesWorth, Zenon
    <3> QED BY <3>1, <3>2, <3>4
  <2> QED BY <1>2, <2>1
<1>6. \A j \in ContractIds : j # i => OwedIn(frames, escrows, j) = Worth(escrows[j])
  BY <1>1, OwedShape
<1>7. OwedIn(frames, escrows, i) = IF Worth(e) > 0 THEN 0 ELSE e.amount
  BY <1>1, <1>2, OwedShape
<1>8. OwedNow' = [OwedNow EXCEPT ![i] = Worth(e)]
  <2>1. OwedNow' = [j \in ContractIds |-> Worth(escrows[j])]
    BY <1>5, OwedIs
  <2>2. \A j \in ContractIds : j # i => OwedNow[j] = Worth(escrows[j])
    BY <1>6, OwedIs DEF OwedNow
  <2>3. OwedNow = [j \in ContractIds |-> OwedNow[j]]
    BY DEF OwedNow
  <2> QED BY <2>1, <2>2, <2>3
<1>9. OwedNow[i] = IF Worth(e) > 0 THEN 0 ELSE e.amount
  BY <1>3, <1>7, OwedIs DEF OwedNow
<1>10. CallOK(f)
  BY <1>1 DEF ContractInv, OneCall
<1>11. /\ f.before.escrows \in [ContractIds -> ContractEscrow \cup {NoEscrow}] /\ f.caller \in Addr
       /\ balance \in [Accounts -> Nat] /\ f.from \in Accounts /\ f.to \in Accounts /\ Contract \in Accounts
       /\ Contract \notin Addr /\ e \in ContractEscrow \cup {NoEscrow} /\ stray \in Nat
  BY <1>1, <1>3, EscrowAssumption DEF Frame, Snapshot, Accounts, ContractInv, ContractTypeOK
<1>12. Worth(e) \in Int /\ balance'[Contract] - stray' = (balance[Contract] - stray) + Worth(e) - OwedNow[i]
  <2>1. CASE b.status = "none" /\ e.status = "locked" /\ f.amount = e.amount /\ f.from = f.caller /\ f.to = Contract
    <3>1. Worth(e) = f.amount /\ OwedNow[i] = 0
      BY <1>3, <1>9, <2>1 DEF Worth
    <3>2. balance'[Contract] = balance[Contract] + f.amount /\ stray' = stray
      BY <1>2, <1>3, <1>11, <2>1
    <3> QED BY <1>3, <1>11, <3>1, <3>2
  <2>2. ASSUME b.status = "locked", NEW st \in {"released", "refunded"}, e = [b EXCEPT !.status = st],
               f.amount = b.amount, f.from = Contract, f.to \in {b.payer, b.payee}
        PROVE  Worth(e) \in Int /\ balance'[Contract] - stray' = (balance[Contract] - stray) + Worth(e) - OwedNow[i]
    <3>1. b \in ContractEscrow
      BY <1>3, <1>11, <2>2 DEF NoEscrow
    <3>2. e.status = st /\ e.amount = b.amount
      BY <2>2, <3>1 DEF ContractEscrow
    <3>3. Worth(e) = 0 /\ OwedNow[i] = f.amount
      BY <1>9, <2>2, <3>2 DEF Worth
    <3>4. balance[Contract] \in Int /\ balance'[Contract] - stray' = (balance[Contract] - stray) - f.amount
      <4> PICK m \in Nat : m = f.amount
        BY <1>3
      <4> PICK a \in Accounts : a = f.to
        BY <1>11
      <4>1. /\ balance' = [balance EXCEPT ![Contract] = @ - m, ![a] = @ + m]
            /\ stray' = IF a = Contract THEN stray + m ELSE stray
        BY <1>2, <2>2
      <4>2. CASE a = Contract
        BY <1>11, <4>1, <4>2
      <4>3. CASE a # Contract
        BY <1>11, <4>1, <4>3
      <4> QED BY <4>2, <4>3
    <3> QED BY <1>3, <1>11, <3>3, <3>4
  <2> QED BY <1>10, <2>1, <2>2 DEF CallOK
<1> QED BY <1>3, <1>8, <1>12

LEMMA SolventNext == ContractInv /\ ContractInv' /\ Solvent /\ [ContractNext]_contractVars => Solvent'
<1> SUFFICES ASSUME ContractInv, ContractInv', Solvent, [ContractNext]_contractVars PROVE Solvent'
  OBVIOUS
<1>1. /\ Solvent = (balance[Contract] = SumFunction(OwedNow) + stray)
      /\ Solvent' = (balance'[Contract] = SumFunction(OwedNow') + stray')
  BY DEF Solvent, OwedNow
<1>types. /\ balance[Contract] \in Int /\ balance'[Contract] \in Int
          /\ stray \in Int /\ stray' \in Int /\ SumFunction(OwedNow) \in Int
  <2>1. SumFunction(OwedNow) \in Int
    BY OwedType, SumIsInt, EscrowAssumption
  <2> QED BY <2>1 DEF ContractInv, ContractTypeOK, Accounts
<1>2. CASE \E i \in ContractIds, s \in Addr, p \in Accounts, a \in Amounts, d \in Deadlines : Lock(i, s, p, a, d)
  <2>1. balance' = balance /\ stray' = stray /\ OwedNow' = OwedNow
    BY <1>2, EnterOwes DEF Lock, NonReentrant, AskToken
  <2> QED BY <1>1, <2>1
<1>3. CASE \E i \in ContractIds, s \in Addr : Release(i, s) \/ Refund(i, s)
  <2>1. balance' = balance /\ stray' = stray /\ OwedNow' = OwedNow
    BY <1>3, EnterOwes DEF Release, Refund, NonReentrant, AskToken
  <2> QED BY <1>1, <2>1
<1>4. CASE TokenMoves
  <2>1. PICK i \in ContractIds, v \in Int :
          /\ OwedNow' = [OwedNow EXCEPT ![i] = v]
          /\ balance'[Contract] - stray' = (balance[Contract] - stray) + v - OwedNow[i]
    BY <1>4, MoveOwes
  <2>2. OwedNow \in [ContractIds -> Int] /\ IsFiniteSet(ContractIds)
    BY OwedType, EscrowAssumption
  <2>3. SumFunction(OwedNow') = SumFunction(OwedNow) + v - OwedNow[i] /\ SumFunction(OwedNow) \in Int
        /\ OwedNow[i] \in Int
    BY <2>1, <2>2, SumOfUpdate
  <2> QED BY <1>types, <1>1, <2>1, <2>3
<1>5. CASE TokenRefuses
  <2>1. /\ Top = frames[1] /\ Top \in Frame /\ DOMAIN frames = {1} /\ Pop = <<>>
    BY <1>5, StackShape DEF ContractInv, OneCall, TokenRefuses
  <2>2. CallOK(Top)
    BY <2>1 DEF ContractInv, OneCall
  <2>3. ~Top.moved /\ escrows' = Top.before.escrows /\ balance' = balance /\ stray' = stray /\ frames' = <<>>
    BY <1>5, <2>1, <2>2 DEF TokenRefuses, CallOK
  <2>4. \A i \in ContractIds : OwedIn(frames', escrows', i) = Worth(escrows'[i])
    BY <2>3, OwedShape
  <2>5. /\ escrows \in [ContractIds -> ContractEscrow \cup {NoEscrow}]
        /\ escrows = [Top.before.escrows EXCEPT ![Top.id] = escrows[Top.id]]
        /\ Touches(Top.before.escrows[Top.id], escrows[Top.id])
    BY <2>2 DEF CallOK, Touches, ContractInv, ContractTypeOK
  <2>6. \A i \in ContractIds : OwedIn(frames, escrows, i) = Worth(escrows'[i])
    BY <2>1, <2>3, <2>5, WaitingOwesNoLess
  <2>7. OwedNow' = OwedNow
    BY <2>4, <2>6, OwedIs DEF OwedNow
  <2> QED BY <1>1, <2>3, <2>7
<1>6. CASE Return
  <2>1. DOMAIN frames = {1} /\ Top = frames[1] /\ Pop = <<>>
    BY <1>6, StackShape DEF ContractInv, OneCall, Return
  <2>2. Top.moved /\ frames' = <<>> /\ DOMAIN frames' = {} /\ escrows' = escrows /\ balance' = balance /\ stray' = stray
    BY <1>6, <2>1 DEF Return
  <2>3. \A i \in ContractIds : OwedIn(frames', escrows', i) = OwedIn(frames, escrows, i)
    BY <2>1, <2>2, OwedShape
  <2>4. OwedNow' = OwedNow
    BY <2>3, OwedIs DEF OwedNow
  <2> QED BY <1>1, <2>2, <2>4
<1>7. CASE Tick \/ UNCHANGED contractVars
  BY <1>7 DEF Tick, contractVars, Solvent, Owed
<1>8. CASE \E from \in Addr, a \in Amounts : Send(from, a)
  <2> PICK from \in Addr, a \in Amounts : Send(from, a)
    BY <1>8
  <2>1. OwedNow' = OwedNow
    BY DEF Send, OwedNow, Owed
  <2>2. a \in Nat /\ from # Contract /\ Contract \in Accounts /\ balance \in [Accounts -> Nat] /\ stray \in Nat
    BY EscrowAssumption DEF Accounts, ContractInv, ContractTypeOK
  <2>3. balance'[Contract] = balance[Contract] + a /\ stray' = stray + a
    BY <2>2 DEF Send
  <2> QED BY <1>types, <1>1, <2>1, <2>2, <2>3
<1> QED BY <1>2, <1>3, <1>4, <1>5, <1>6, <1>7, <1>8 DEF ContractNext

(* SOLVENCY, for every instance: at every point of every call, reverted,   *)
(* returned or under way, the contract holds what its book says it owes    *)
(* and what it was sent for itself.                                        *)
THEOREM ContractIsSolvent == ContractSpec => []Solvent
<1>1. ContractInit => Solvent
  <2> SUFFICES ASSUME ContractInit PROVE Solvent
    OBVIOUS
  <2>1. DOMAIN frames = {} /\ balance[Contract] = 0 /\ stray = 0
    BY DEF ContractInit, Accounts
  <2>2. \A i \in ContractIds : OwedIn(frames, escrows, i) = 0
    BY <2>1, OwedShape DEF ContractInit, Worth, NoEscrow
  <2>3. OwedNow \in [ContractIds -> {0}] /\ IsFiniteSet(ContractIds)
    BY <2>2, OwedIs, EscrowAssumption DEF OwedNow
  <2>4. SumFunction(OwedNow) = 0
    BY <2>3, SumOfZeros
  <2> QED BY <2>1, <2>4 DEF Solvent, OwedNow
<1> QED BY <1>1, ContractInitInv, ContractNextInv, SolventNext, PTL DEF ContractSpec

----------------------------------------------------------------------------
(* What the parties see changes only when a call returns, or somebody      *)
(* sends the contract tokens.                                              *)
LEMMA CommitAtReturn ==
  ASSUME ContractInv, [ContractNext]_contractVars, ~Return,
         ~\E from \in Addr, a \in Amounts : Send(from, a)
  PROVE  Committed' = Committed /\ CommittedFunds' = CommittedFunds
<1>1. ASSUME ~entered, NEW f, frames' = Append(frames, f), balance' = balance,
             f.before.escrows = escrows, f.before.balance = balance, f.before.stray = stray
      PROVE  Committed' = Committed /\ CommittedFunds' = CommittedFunds
  <2>1. frames = <<>>
    BY <1>1 DEF ContractInv, OneCall
  <2>2. frames' # <<>> /\ frames'[1] = f
    BY <1>1, <2>1
  <2> QED BY <1>1, <2>1, <2>2 DEF Committed, CommittedFunds
<1>2. CASE \E i \in ContractIds, s \in Addr, p \in Accounts, a \in Amounts, d \in Deadlines : Lock(i, s, p, a, d)
  BY <1>2, <1>1 DEF Lock, NonReentrant, AskToken
<1>3. CASE \E i \in ContractIds, s \in Addr : Release(i, s)
  BY <1>3, <1>1 DEF Release, NonReentrant, AskToken
<1>4. CASE \E i \in ContractIds, s \in Addr : Refund(i, s)
  BY <1>4, <1>1 DEF Refund, NonReentrant, AskToken
<1>5. CASE TokenMoves
  <2>1. Len(frames) = 1 /\ Top = frames[1] /\ Top \in Frame /\ frames \in Seq(Frame)
    BY <1>5, StackShape DEF ContractInv, ContractTypeOK, OneCall, TokenMoves
  <2>2. frames' = [frames EXCEPT ![1].moved = TRUE]
    BY <1>5, <2>1 DEF TokenMoves
  <2> PICK g : g = [frames[1] EXCEPT !.moved = TRUE]
    OBVIOUS
  <2>3. g \in Frame /\ g.before = frames[1].before
    BY <2>1 DEF Frame
  <2>4. \A q \in Seq(Frame) : Len(q) = 1 =>
          LET r == [q EXCEPT ![1] = g] IN
            r \in Seq(Frame) /\ Len(r) = 1 /\ r[1] = g /\ r # <<>> /\ q # <<>>
    BY <2>3
  <2>5. frames' = [frames EXCEPT ![1] = g]
    BY <2>2
  <2>6. frames # <<>> /\ frames' # <<>> /\ frames'[1].before = frames[1].before
    BY <2>1, <2>3, <2>4, <2>5
  <2> QED BY <2>6 DEF Committed, CommittedFunds
<1>6. CASE TokenRefuses
  <2>1. Top = frames[1] /\ Pop = <<>> /\ frames # <<>>
    BY <1>6, StackShape DEF ContractInv, OneCall, TokenRefuses
  <2> QED BY <1>6, <2>1 DEF TokenRefuses, Committed, CommittedFunds
<1>7. CASE Tick
  BY <1>7 DEF Tick, Committed, CommittedFunds
<1>8. CASE UNCHANGED contractVars
  BY <1>8 DEF contractVars, Committed, CommittedFunds
<1> QED BY <1>2, <1>3, <1>4, <1>5, <1>6, <1>7, <1>8 DEF ContractNext

(* When a call returns, what it did to its own escrow becomes visible. *)
LEMMA ReturnCommits ==
  ASSUME ContractInv, Return
  PROVE  /\ frames[1] \in Frame /\ frames[1].moved /\ CallOK(frames[1])
         /\ Committed = frames[1].before.escrows /\ Committed' = escrows
         /\ CommittedFunds = FundsOf(frames[1].before.balance, frames[1].before.stray)
         /\ CommittedFunds' = FundsOf(balance, stray)
<1>1. /\ Top = frames[1] /\ Top \in Frame /\ DOMAIN frames = {1} /\ Pop = <<>>
      /\ frames # <<>>
  BY StackShape DEF ContractInv, OneCall, Return
<1>2. frames' = <<>> /\ escrows' = escrows /\ balance' = balance /\ stray' = stray
  BY <1>1 DEF Return
<1>3. CommittedFunds' = FundsOf(balance, stray)
  BY <1>2 DEF CommittedFunds, FundsOf
<1>4. CommittedFunds = FundsOf(frames[1].before.balance, frames[1].before.stray)
  BY <1>1 DEF CommittedFunds
<1> QED BY <1>1, <1>2, <1>3, <1>4 DEF ContractInv, OneCall, Return, Committed

(* Sending the contract tokens touches no escrow. *)
LEMMA SendCommits ==
  ASSUME NEW from \in Addr, NEW a \in Amounts, Send(from, a)
  PROVE  /\ Committed' = Committed
         /\ CommittedFunds = FundsOf(balance, stray)
         /\ CommittedFunds' = FundsOf([balance EXCEPT ![from] = @ - a, ![Contract] = @ + a], stray + a)
<1>1. /\ frames = <<>> /\ frames' = <<>> /\ escrows' = escrows /\ stray' = stray + a
      /\ balance' = [balance EXCEPT ![from] = @ - a, ![Contract] = @ + a]
  BY DEF Send
<1> QED BY <1>1 DEF Committed, CommittedFunds, FundsOf

(* AUTHORITY, for every instance: no interleaving of calls, hooks, reverts *)
(* and blocks moves an escrow's money without the right party's call.      *)
THEOREM SettlementIsAuthorised == ContractSpec => SettlementAuthorised
<1> DEFINE Step ==
      \A i \in ContractIds : Committed[i].status = "locked" /\ Committed'[i].status # "locked" =>
        LET e == Committed[i] caller == frames[1].caller IN
        IF Committed'[i].status = "released" THEN caller = e.payer
        ELSE caller = e.payee \/ (caller = e.payer /\ now >= e.deadline)
<1>1. ContractInv /\ [ContractNext]_contractVars => Step
  <2> SUFFICES ASSUME ContractInv, [ContractNext]_contractVars PROVE Step
    OBVIOUS
  <2>1. CASE ~Return /\ ~\E from \in Addr, a \in Amounts : Send(from, a)
    BY <2>1, CommitAtReturn
  <2>3. CASE \E from \in Addr, a \in Amounts : Send(from, a)
    BY <2>3, SendCommits
  <2>2. CASE Return
    <3> PICK f : f = frames[1]
      OBVIOUS
    <3>1. /\ f \in Frame /\ CallOK(f)
          /\ Committed = f.before.escrows /\ Committed' = escrows
      BY <2>2, ReturnCommits
    <3>2. ASSUME NEW i \in ContractIds, Committed[i].status = "locked", Committed'[i].status # "locked"
          PROVE  IF Committed'[i].status = "released" THEN f.caller = Committed[i].payer
                 ELSE \/ f.caller = Committed[i].payee
                      \/ f.caller = Committed[i].payer /\ now >= Committed[i].deadline
      <4>1. f.before.escrows \in [ContractIds -> ContractEscrow \cup {NoEscrow}]
        BY <3>1 DEF Frame, Snapshot
      <4>2. i = f.id
        BY <3>1, <3>2, <4>1 DEF CallOK
      <4>3. f.before.escrows[i] \in ContractEscrow
        BY <3>1, <3>2, <4>1 DEF NoEscrow
      <4> QED BY <3>1, <3>2, <4>2, <4>3 DEF CallOK, MayRefund, ContractEscrow
    <3> QED BY <3>2
  <2> QED BY <2>1, <2>2, <2>3
<1> QED BY <1>1, ContractInitInv, ContractNextInv, PTL DEF ContractSpec, SettlementAuthorised

----------------------------------------------------------------------------
(* The refinement: what the parties see is EscrowPromise. *)
LEMMA RefineInit == ContractInit => ContractPromise!Init
<1> SUFFICES ASSUME ContractInit PROVE ContractPromise!Init
  OBVIOUS
<1>1. Committed = escrows /\ CommittedFunds = FundsOf(balance, 0)
  BY DEF ContractInit, Committed, CommittedFunds
<1>2. \A i \in ContractIds : CommittedDeals[i].status = "none"
  BY <1>1 DEF ContractInit, CommittedDeals, Terms, NoEscrow
<1>3. CommittedFunds \in [Accounts -> Nat]
  BY <1>1, EscrowAssumption DEF ContractInit, Accounts, FundsOf
<1> QED BY <1>2, <1>3 DEF ContractPromise!Init

LEMMA RefineReturn ==
  ASSUME ContractInv, ContractInv', Return
  PROVE  ContractPromise!Next
<1> PICK f : f = frames[1]
  OBVIOUS
<1> DEFINE i == f.id
           b == f.before.escrows[i]
           e == escrows[i]
<1>1. /\ f \in Frame /\ f.moved /\ CallOK(f)
      /\ Committed = f.before.escrows /\ Committed' = escrows
      /\ CommittedFunds = FundsOf(f.before.balance, f.before.stray)
      /\ CommittedFunds' = FundsOf(balance, stray)
  BY ReturnCommits
<1>2. /\ i \in ContractIds /\ f.caller \in Addr /\ f.amount \in Amounts /\ f.amount \in Nat
      /\ f.before.escrows \in [ContractIds -> ContractEscrow \cup {NoEscrow}]
      /\ f.before.balance \in [Accounts -> Nat] /\ f.before.stray \in Nat
      /\ escrows \in [ContractIds -> ContractEscrow \cup {NoEscrow}]
  BY <1>1, EscrowAssumption DEF Frame, Snapshot, ContractInv, ContractTypeOK
<1>3. /\ escrows = [f.before.escrows EXCEPT ![i] = e]
      /\ f.amount <= f.before.balance[f.from]
      /\ balance = [f.before.balance EXCEPT ![f.from] = @ - f.amount, ![f.to] = @ + f.amount]
      /\ stray = f.before.stray + (IF f.from = f.to THEN f.amount ELSE 0)
  BY <1>1 DEF CallOK
<1> PICK q : q = f.before.balance
  OBVIOUS
<1> PICK own : own = f.before.stray
  OBVIOUS
<1> PICK m : m = f.amount
  OBVIOUS
<1>4. /\ q \in [Accounts -> Nat] /\ m \in Nat /\ own \in Nat
      /\ balance = [q EXCEPT ![f.from] = @ - m, ![f.to] = @ + m]
      /\ stray = own + (IF f.from = f.to THEN m ELSE 0)
      /\ CommittedFunds = FundsOf(q, own) /\ CommittedFunds' = FundsOf(balance, stray)
  BY <1>1, <1>2, <1>3
<1>5. Contract \notin Addr /\ Addr \subseteq Accounts /\ Contract \in Accounts
  BY EscrowAssumption DEF Accounts
<1>6. CommittedDeals' = [CommittedDeals EXCEPT ![i] = Terms(e)]
  BY <1>1, <1>2, <1>3 DEF CommittedDeals
<1>7. CommittedDeals[i] = Terms(b)
  BY <1>1, <1>2 DEF CommittedDeals
<1>8. CASE /\ b.status = "none" /\ e.status = "locked" /\ e.payer = f.caller
           /\ f.amount = e.amount /\ f.from = f.caller /\ f.to = Contract
  <2>1. e \in ContractEscrow
    BY <1>2, <1>8 DEF NoEscrow
  <2>2. Terms(e) = [status |-> "locked", payer |-> e.payer, payee |-> e.payee, amount |-> e.amount]
    BY <1>8 DEF Terms
  <2>3. e.payer \in Addr /\ e.payer \in Accounts /\ e.payee \in Accounts /\ e.amount \in Amounts
    BY <1>5, <2>1 DEF ContractEscrow
  <2>4. e.amount <= CommittedFunds[e.payer]
    BY <1>3, <1>8, <1>4, <1>5, <2>3 DEF FundsOf
  <2>5. CommittedFunds' = [CommittedFunds EXCEPT ![e.payer] = @ - e.amount]
    <3>1. PICK w \in Addr : w = e.payer
      BY <2>3
    <3>2. balance = [q EXCEPT ![w] = @ - m, ![Contract] = @ + m] /\ m = e.amount
      <4>1. f.from = e.payer /\ f.to = Contract /\ f.amount = e.amount
        BY <1>8
      <4> QED BY <4>1, <1>4, <3>1
    <3>3. \A a \in Accounts : a # Contract => balance[a] = IF a = w THEN q[w] - m ELSE q[a]
      <4>1. q \in [Accounts -> Nat] /\ m \in Nat /\ w \in Accounts
        BY <1>4, <1>5
      <4> QED BY <3>2, <4>1
    <3>4. stray = own /\ w # Contract /\ w \in Accounts
      <4>1. w # Contract /\ w \in Accounts /\ f.from = w /\ f.to = Contract
        BY <1>5, <1>8, <3>1
      <4> QED BY <1>4, <4>1
    <3>5. CommittedFunds' = [CommittedFunds EXCEPT ![w] = @ - m]
      <4>1. CommittedFunds = [a \in Accounts |-> IF a = Contract THEN own ELSE q[a]]
        BY <1>4 DEF FundsOf
      <4>2. CommittedFunds' = [a \in Accounts |-> IF a = Contract THEN stray ELSE balance[a]]
        BY <1>4 DEF FundsOf
      <4> QED BY <3>3, <3>4, <4>1, <4>2
    <3> QED BY <3>1, <3>2, <3>5
  <2>6. CommittedDeals[i].status = "none"
    BY <1>7, <1>8 DEF Terms, NoEscrow
  <2>7. ContractPromise!Open(i, e.payer, e.payee, e.amount)
    BY <1>6, <2>2, <2>4, <2>5, <2>6 DEF ContractPromise!Open
  <2> QED BY <1>2, <2>3, <2>7 DEF ContractPromise!Next
<1>9. ASSUME b.status = "locked", NEW st \in {"released", "refunded"}, NEW who \in Accounts,
             e = [b EXCEPT !.status = st], f.amount = b.amount, f.from = Contract, f.to = who
      PROVE  ContractPromise!Close(i, st, who)
  <2>1. b \in ContractEscrow
    BY <1>2, <1>9 DEF NoEscrow
  <2>2. Terms(b) = [status |-> "locked", payer |-> b.payer, payee |-> b.payee, amount |-> b.amount]
    BY <1>9 DEF Terms
  <2>3. Terms(e) = [Terms(b) EXCEPT !.status = st]
    <3>1. /\ e.status = st /\ e.payer = b.payer /\ e.payee = b.payee /\ e.amount = b.amount
          /\ st # "none"
      BY <1>9, <2>1 DEF ContractEscrow
    <3> HIDE DEF e
    <3>2. Terms(e) = [status |-> st, payer |-> b.payer, payee |-> b.payee, amount |-> b.amount]
      BY <3>1 DEF Terms
    <3> HIDE DEF b
    <3>3. [Terms(b) EXCEPT !.status = st] = [status |-> st, payer |-> b.payer, payee |-> b.payee, amount |-> b.amount]
      BY <2>2
    <3> QED BY <3>2, <3>3
  <2>4. CommittedFunds' = [CommittedFunds EXCEPT ![who] = @ + b.amount]
    <3>1. balance = [q EXCEPT ![Contract] = @ - m, ![who] = @ + m] /\ m = b.amount
      BY <1>9, <1>4
    <3>2. PICK w \in Accounts : w = who
      BY <1>9
    <3>3. /\ balance = [q EXCEPT ![Contract] = @ - m, ![w] = @ + m]
          /\ stray = own + (IF w = Contract THEN m ELSE 0)
      BY <1>4, <1>9, <3>1, <3>2
    <3>4. \A a \in Accounts : a # Contract => balance[a] = IF a = w THEN q[w] + m ELSE q[a]
      BY <1>4, <1>5, <3>3
    <3>5. stray = IF w = Contract THEN own + m ELSE own
      <4>1. own \in Nat /\ m \in Nat
        BY <1>4
      <4>2. stray = own + (IF w = Contract THEN m ELSE 0)
        BY <3>3
      <4> QED BY <4>1, <4>2
    <3>6. FundsOf(balance, stray) = [FundsOf(q, own) EXCEPT ![w] = @ + m]
      <4>1. \A a \in Accounts : FundsOf(balance, stray)[a] = IF a = w THEN FundsOf(q, own)[w] + m ELSE FundsOf(q, own)[a]
        BY <3>4, <3>5 DEF FundsOf
      <4> QED BY <4>1 DEF FundsOf
    <3>7. CommittedFunds' = [CommittedFunds EXCEPT ![w] = @ + m]
      BY <1>4, <3>6
    <3> QED BY <3>1, <3>2, <3>7
  <2>5. CommittedDeals[i].status = "locked" /\ CommittedDeals[i].amount = b.amount
    BY <1>7, <2>2
  <2>6. CommittedDeals' = [CommittedDeals EXCEPT ![i].status = st]
    BY <1>6, <1>7, <2>3
  <2> QED BY <2>4, <2>5, <2>6 DEF ContractPromise!Close
<1>10. ASSUME b.status = "locked"
      PROVE  /\ b.payer \in Accounts /\ b.payee \in Accounts
             /\ CommittedDeals[i].payer = b.payer /\ CommittedDeals[i].payee = b.payee
  <2>1. b \in ContractEscrow
    BY <1>2, <1>10 DEF NoEscrow
  <2> QED BY <1>5, <1>7, <1>10, <2>1 DEF Terms, ContractEscrow
<1>11. CASE /\ b.status = "locked" /\ e = [b EXCEPT !.status = "released"] /\ f.caller = b.payer
           /\ f.amount = b.amount /\ f.from = Contract /\ f.to = b.payee
  <2>1. ContractPromise!Pay(i)
    BY <1>9, <1>10, <1>11 DEF ContractPromise!Pay
  <2> QED BY <1>2, <2>1 DEF ContractPromise!Next
<1>12. CASE /\ b.status = "locked" /\ e = [b EXCEPT !.status = "refunded"]
            /\ MayRefund(b, f.caller)
            /\ f.amount = b.amount /\ f.from = Contract /\ f.to = b.payer
  <2>1. ContractPromise!Return(i)
    BY <1>9, <1>10, <1>12 DEF ContractPromise!Return
  <2> QED BY <1>2, <2>1 DEF ContractPromise!Next
<1> QED BY <1>1, <1>8, <1>11, <1>12 DEF CallOK

LEMMA RefineSend ==
  ASSUME ContractInv, NEW from \in Addr, NEW a \in Amounts, Send(from, a)
  PROVE  ContractPromise!TokenNext
<1>1. /\ from \in Accounts /\ Contract \in Accounts /\ from # Contract /\ a \in Nat
      /\ balance \in [Accounts -> Nat] /\ stray \in Nat /\ a <= balance[from]
  BY EscrowAssumption DEF Accounts, ContractInv, ContractTypeOK, Send
<1>2. /\ Committed' = Committed /\ CommittedFunds = FundsOf(balance, stray)
      /\ CommittedFunds' = FundsOf([balance EXCEPT ![from] = @ - a, ![Contract] = @ + a], stray + a)
  BY SendCommits
<1>3. CommittedFunds' = [CommittedFunds EXCEPT ![from] = @ - a, ![Contract] = @ + a]
  BY <1>1, <1>2 DEF FundsOf
<1>4. a <= CommittedFunds[from]
  BY <1>1, <1>2 DEF FundsOf
<1>5. CommittedDeals' = CommittedDeals
  BY <1>2 DEF CommittedDeals
<1>6. ContractPromise!Transfer(from, Contract, a)
  BY <1>3, <1>4, <1>5 DEF ContractPromise!Transfer
<1> QED BY <1>1, <1>6 DEF ContractPromise!TokenNext

(* ATOMICITY, for every instance: with the token and the hooks free to run *)
(* in the middle of a call, what the parties see is EscrowPromise: money   *)
(* put aside once, and paid whole exactly once.                            *)
THEOREM ContractImplements == ContractSpec => ContractImplementsPromise
<1>1. ContractInv /\ ContractInv' /\ [ContractNext]_contractVars => [ContractPromise!TokenNext]_(ContractPromise!vars)
  <2> SUFFICES ASSUME ContractInv, ContractInv', [ContractNext]_contractVars
               PROVE  [ContractPromise!TokenNext]_(ContractPromise!vars)
    OBVIOUS
  <2>1. CASE Return
    BY <2>1, RefineReturn DEF ContractPromise!TokenNext
  <2>2. CASE \E from \in Addr, a \in Amounts : Send(from, a)
    BY <2>2, RefineSend
  <2>3. CASE ~Return /\ ~\E from \in Addr, a \in Amounts : Send(from, a)
    BY <2>3, CommitAtReturn DEF ContractPromise!vars, CommittedDeals
  <2> QED BY <2>1, <2>2, <2>3
<1> QED BY <1>1, RefineInit, ContractInitInv, ContractNextInv, PTL DEF ContractSpec, ContractImplementsPromise, ContractPromise!TokenSpec

----------------------------------------------------------------------------
(* The reference rail. *)

UnusedIds == \A i \in Ids : escrows[i].status = "none" <=> i > seq

RailInv == TypeOK /\ UnusedIds /\ RecordsTrue

LEMMA RailInitInv == Init => RailInv
<1> SUFFICES ASSUME Init PROVE RailInv
  OBVIOUS
<1>1. TypeOK
  BY RailAssumption DEF Init, TypeOK
<1>2. UnusedIds
  BY RailAssumption DEF Init, UnusedIds, Ids, NoEscrow
<1>3. RecordsTrue
  BY DEF Init, RecordsTrue, NoEscrow
<1> QED BY <1>1, <1>2, <1>3 DEF RailInv

LEMMA RailDepositInv ==
  ASSUME RailInv, NEW d \in Dids, NEW a \in Amounts, deposit(d, a)
  PROVE  RailInv'
<1>1. a \in Nat
  BY RailAssumption
<1> QED BY <1>1 DEF deposit, RailInv, TypeOK, UnusedIds, RecordsTrue

(* A lock takes the next id, which no record mentions. *)
LEMMA RailLockInv ==
  ASSUME RailInv, NEW p \in Dids, NEW q \in Dids, NEW a \in Amounts, NEW r \in Refs, lock(p, q, a, r)
  PROVE  RailInv'
<1> DEFINE e == [status |-> "locked", payer |-> p, payee |-> q, amount |-> a, invokeRef |-> r]
<1>1. /\ a \in Nat /\ MaxSeq \in Nat /\ seq \in Nat /\ seq + 1 \in Ids
  BY RailAssumption DEF RailInv, TypeOK, lock, Ids
<1>2. e \in Escrow
  BY DEF Escrow
<1>3. /\ escrows' = [escrows EXCEPT ![seq + 1] = e] /\ seq' = seq + 1 /\ records' = records
  BY DEF lock
<1>4. TypeOK'
  <2>1. balances' \in [Dids -> Nat]
    BY <1>1 DEF lock, RailInv, TypeOK
  <2>2. seq' \in 0 .. MaxSeq
    BY <1>1 DEF lock
  <2> QED BY <1>1, <1>2, <1>3, <2>1, <2>2 DEF lock, RailInv, TypeOK
<1>5. UnusedIds'
  <2> SUFFICES ASSUME NEW i \in Ids PROVE escrows'[i].status = "none" <=> i > seq'
    BY DEF UnusedIds
  <2>1. i \in Nat
    BY <1>1 DEF Ids
  <2>2. CASE i = seq + 1
    BY <1>1, <1>3, <2>2 DEF RailInv, TypeOK
  <2>3. CASE i # seq + 1
    BY <1>1, <1>3, <2>1, <2>3 DEF RailInv, TypeOK, UnusedIds
  <2> QED BY <2>2, <2>3
<1>6. escrows[seq + 1].status = "none"
  BY <1>1 DEF RailInv, UnusedIds
<1>7. RecordsTrue'
  <2>1. \A x \in records : x.escrowId \in Ids /\ x.escrowId # seq + 1
    BY <1>6 DEF RailInv, TypeOK, RecordsTrue, Record
  <2> QED BY <1>1, <1>3, <2>1 DEF RailInv, TypeOK, RecordsTrue
<1> QED BY <1>4, <1>5, <1>7 DEF RailInv

(* Closing an escrow, whoever is credited. *)
LEMMA RailSettleInv ==
  ASSUME RailInv, NEW i \in Ids, NEW who \in Dids, NEW st \in {"released", "refunded"},
         mustLocked(i), settle(i, who, st)
  PROVE  RailInv'
<1> DEFINE e == escrows[i]
           rec == [escrowId |-> i, status |-> st, payee |-> e.payee, amount |-> e.amount]
<1>1. e \in Escrow /\ e.status = "locked"
  BY DEF RailInv, TypeOK, NoEscrow, mustLocked
<1>2. [e EXCEPT !.status = st] \in Escrow /\ rec \in Record /\ e.amount \in Nat
  BY <1>1, RailAssumption DEF Escrow, Record
<1>3. /\ escrows' = [escrows EXCEPT ![i] = [e EXCEPT !.status = st]]
      /\ records' = records \cup {rec} /\ seq' = seq
      /\ balances' = [balances EXCEPT ![who] = @ + e.amount] /\ deposited' = deposited
  BY DEF settle
<1>4. TypeOK'
  BY <1>2, <1>3 DEF RailInv, TypeOK
<1>5. [e EXCEPT !.status = st].status = st
  BY <1>1 DEF Escrow
<1>6. \A j \in Ids : escrows'[j].status = "none" <=> escrows[j].status = "none"
  BY <1>1, <1>3, <1>5 DEF RailInv, TypeOK
<1>7. UnusedIds'
  BY <1>3, <1>6 DEF RailInv, UnusedIds
<1>8. \A x \in records : x.escrowId \in Ids /\ x.escrowId # i
  BY <1>1 DEF RailInv, TypeOK, RecordsTrue, Record
<1>9. RecordsTrue'
  <2>1. /\ escrows'[i].status = st /\ escrows'[i].payee = e.payee
        /\ escrows'[i].amount = e.amount
    BY <1>1, <1>3 DEF RailInv, TypeOK, Escrow
  <2>2. \A j \in Ids \ {i} : escrows'[j] = escrows[j]
    BY <1>3 DEF RailInv, TypeOK
  <2>3. rec.escrowId = i /\ rec.status = st /\ rec.payee = e.payee /\ rec.amount = e.amount
    OBVIOUS
  <2> HIDE DEF rec, e
  <2>4. ASSUME NEW x \in records'
        PROVE  LET d == escrows'[x.escrowId] IN
                 d.status = x.status /\ d.payee = x.payee /\ d.amount = x.amount
    <3>1. CASE x = rec
      BY <2>1, <2>3, <3>1
    <3>2. CASE x \in records
      BY <1>8, <2>2, <3>2 DEF RailInv, RecordsTrue
    <3> QED BY <1>3, <3>1, <3>2
  <2>5. ASSUME NEW j \in Ids, escrows'[j].status \in {"released", "refunded"}
        PROVE  \E x \in records' : x.escrowId = j
    <3>1. CASE j = i
      BY <1>3, <2>3, <3>1
    <3>2. CASE j # i
      BY <1>3, <2>2, <2>5, <3>2 DEF RailInv, RecordsTrue
    <3> QED BY <3>1, <3>2
  <2> QED BY <2>4, <2>5 DEF RecordsTrue
<1> QED BY <1>4, <1>7, <1>9 DEF RailInv

LEMMA RailNextInv == RailInv /\ [Next]_vars => RailInv'
<1> SUFFICES ASSUME RailInv, [Next]_vars PROVE RailInv'
  OBVIOUS
<1>1. ASSUME NEW i \in Ids, mustLocked(i)
      PROVE  escrows[i].payer \in Dids /\ escrows[i].payee \in Dids
  BY <1>1 DEF mustLocked, RailInv, TypeOK, Escrow, NoEscrow
<1>2. CASE \E d \in Dids, a \in Amounts : deposit(d, a)
  BY <1>2, RailDepositInv
<1>3. CASE \E p, q \in Dids, a \in Amounts, r \in Refs : lock(p, q, a, r)
  BY <1>3, RailLockInv
<1>4. CASE \E i \in Ids : release(i)
  BY <1>1, <1>4, RailSettleInv DEF release
<1>5. CASE \E i \in Ids : refund(i)
  BY <1>1, <1>5, RailSettleInv DEF refund
<1>6. CASE UNCHANGED vars
  BY <1>6 DEF vars, RailInv, TypeOK, UnusedIds, RecordsTrue
<1> QED BY <1>2, <1>3, <1>4, <1>5, <1>6 DEF Next

(* TYPES, for every instance: no deposit, lock or settlement of the rail   *)
(* leaves a balance below zero or an escrow that is not one.               *)
THEOREM RailTypeCorrect == Spec => []TypeOK
<1>1. RailInv => TypeOK
  BY DEF RailInv
<1> QED BY <1>1, RailInitInv, RailNextInv, PTL DEF Spec

(* RECORDS ARE FINAL, for every instance. *)
THEOREM RecordsStayTrue == Spec => []RecordsTrue
<1>1. RailInv => RecordsTrue
  BY DEF RailInv
<1> QED BY <1>1, RailInitInv, RailNextInv, PTL DEF Spec

----------------------------------------------------------------------------
(* The rail and the contract keep the same promise: the refinement. *)
LEMMA RailRefinesSettle ==
  ASSUME RailInv, NEW i \in Ids, NEW who \in Dids, NEW st \in {"released", "refunded"},
         mustLocked(i), settle(i, who, st)
  PROVE  /\ Abstract!Close(i, st, who)
         /\ Terms(escrows[i]).payee = escrows[i].payee
         /\ Terms(escrows[i]).payer = escrows[i].payer
<1> DEFINE e == escrows[i]
           D == [j \in Ids |-> Terms(escrows[j])]
<1>1. e \in Escrow /\ e.status = "locked"
  BY DEF RailInv, TypeOK, NoEscrow, mustLocked
<1>2. Terms(e) = [status |-> "locked", payer |-> e.payer, payee |-> e.payee, amount |-> e.amount]
  BY <1>1 DEF Terms
<1>3. Terms([e EXCEPT !.status = st]) = [Terms(e) EXCEPT !.status = st]
  BY <1>1, <1>2 DEF Terms, Escrow
<1>4. escrows' = [escrows EXCEPT ![i] = [e EXCEPT !.status = st]]
  BY DEF settle
<1>5. D' = [D EXCEPT ![i] = [D[i] EXCEPT !.status = st]]
  BY <1>3, <1>4 DEF RailInv, TypeOK
<1>6. balances' = [balances EXCEPT ![who] = @ + D[i].amount] /\ D[i].status = "locked"
  <2>1. D[i] = Terms(e)
    OBVIOUS
  <2>2. D[i].amount = e.amount /\ D[i].status = "locked"
    BY <1>2, <2>1
  <2> QED BY <2>2 DEF settle
<1>7. Abstract!Close(i, st, who)
  BY <1>5, <1>6 DEF Abstract!Close
<1> QED BY <1>2, <1>7

LEMMA RailRefines == RailInv /\ [Next]_vars => [Abstract!Next]_(Abstract!vars)
<1> SUFFICES ASSUME RailInv, [Next]_vars PROVE [Abstract!Next]_(Abstract!vars)
  OBVIOUS
<1> DEFINE D == [j \in Ids |-> Terms(escrows[j])]
<1>1. ASSUME NEW d \in Dids, NEW a \in Amounts, deposit(d, a)
      PROVE  Abstract!Fund(d, a)
  <2>1. escrows' = escrows /\ balances' = [balances EXCEPT ![d] = @ + a]
    BY <1>1 DEF deposit
  <2> QED BY <2>1 DEF Abstract!Fund
<1>2. ASSUME NEW p \in Dids, NEW q \in Dids, NEW a \in Amounts, NEW r \in Refs, lock(p, q, a, r)
      PROVE  Abstract!Open(seq + 1, p, q, a) /\ seq + 1 \in Ids
  <2>1. seq + 1 \in Ids /\ escrows[seq + 1].status = "none"
    BY <1>2, RailAssumption DEF RailInv, TypeOK, UnusedIds, lock, Ids
  <2>2. D[seq + 1].status = "none"
    BY <2>1 DEF Terms, NoEscrow
  <2>3. Terms([status |-> "locked", payer |-> p, payee |-> q, amount |-> a, invokeRef |-> r])
          = [status |-> "locked", payer |-> p, payee |-> q, amount |-> a]
    BY DEF Terms
  <2>4. D' = [D EXCEPT ![seq + 1] = [status |-> "locked", payer |-> p, payee |-> q, amount |-> a]]
    BY <1>2, <2>1, <2>3 DEF lock, RailInv, TypeOK
  <2>5. a <= balances[p] /\ balances' = [balances EXCEPT ![p] = @ - a]
    BY <1>2 DEF lock
  <2> QED BY <2>1, <2>2, <2>4, <2>5 DEF Abstract!Open
<1>3. ASSUME NEW i \in Ids, mustLocked(i)
      PROVE  escrows[i].payer \in Dids /\ escrows[i].payee \in Dids
  BY <1>3 DEF mustLocked, RailInv, TypeOK, Escrow, NoEscrow
<1>4. ASSUME NEW i \in Ids, release(i)
      PROVE  Abstract!Pay(i)
  BY <1>3, <1>4, RailRefinesSettle DEF release, Abstract!Pay
<1>5. ASSUME NEW i \in Ids, refund(i)
      PROVE  Abstract!Return(i)
  BY <1>3, <1>5, RailRefinesSettle DEF refund, Abstract!Return
<1>6. CASE UNCHANGED vars
  BY <1>6 DEF vars, Abstract!vars
<1> QED BY <1>1, <1>2, <1>4, <1>5, <1>6 DEF Next, Abstract!Next

(* The reference rail implements EscrowPromise, for every instance.  The   *)
(* contract does too: an agent may use either.                             *)
THEOREM RailImplements == Spec => ImplementsPromise
<1>1. Init => Abstract!Init
  <2> SUFFICES ASSUME Init PROVE Abstract!Init
    OBVIOUS
  <2>1. \A i \in Ids : Terms(escrows[i]).status = "none"
    BY DEF Init, Terms, NoEscrow
  <2>2. balances \in [Dids -> Nat]
    BY DEF Init
  <2> QED BY <2>1, <2>2 DEF Abstract!Init
<1> QED BY <1>1, RailRefines, RailInitInv, RailNextInv, PTL DEF Spec, ImplementsPromise, Abstract!Spec

----------------------------------------------------------------------------
(* Conservation. *)
HeldNow == [i \in Ids |-> Held(i)]

LEMMA RailFinite == IsFiniteSet(Dids) /\ IsFiniteSet(Ids)
  BY RailAssumption, FS_Interval DEF Ids

LEMMA RailAmountOf == ASSUME NEW e \in Escrow PROVE e.amount \in Nat
<1>1. e.amount \in Amounts
  BY DEF Escrow
<1>2. Amounts \subseteq Nat
  BY RailAssumption
<1> QED BY <1>1, <1>2

LEMMA HeldType ==
  ASSUME RailInv
  PROVE  HeldNow \in [Ids -> Int] /\ balances \in [Dids -> Int]
<1>1. \A i \in Ids : escrows[i].status = "locked" => escrows[i].amount \in Int
  <2> SUFFICES ASSUME NEW i \in Ids, escrows[i].status = "locked" PROVE escrows[i].amount \in Int
    OBVIOUS
  <2>1. escrows[i] \in Escrow
    BY DEF RailInv, TypeOK, NoEscrow
  <2> QED BY <2>1, RailAmountOf
<1> QED BY <1>1 DEF HeldNow, Held, RailInv, TypeOK

(* Each operation changes at most one balance and one escrow, and so two   *)
(* sums, by what it says.                                                  *)
LEMMA ConservedStep ==
  ASSUME RailInv, Conserved, NEW d \in Dids, NEW i \in Ids, NEW x \in Int, NEW y \in Int,
         balances' = [balances EXCEPT ![d] = x], HeldNow' = [HeldNow EXCEPT ![i] = y],
         deposited' = deposited + (x - balances[d]) + (y - HeldNow[i])
  PROVE  Conserved'
<1>1. HeldNow \in [Ids -> Int] /\ balances \in [Dids -> Int]
  BY HeldType
<1>2. /\ SumFunction(balances') = SumFunction(balances) + x - balances[d]
      /\ SumFunction(balances) \in Int
  BY <1>1, RailFinite, SumOfUpdate
<1>3. /\ SumFunction(HeldNow') = SumFunction(HeldNow) + y - HeldNow[i]
      /\ SumFunction(HeldNow) \in Int
  BY <1>1, RailFinite, SumOfUpdate
<1>4. deposited = SumFunction(balances) + SumFunction(HeldNow)
  BY DEF Conserved, HeldNow
<1>5. deposited' = SumFunction(balances') + SumFunction(HeldNow')
  <2>1. balances[d] \in Int /\ HeldNow[i] \in Int
    BY <1>1
  <2> QED BY <1>2, <1>3, <1>4, <2>1
<1> QED BY <1>5 DEF Conserved, HeldNow

LEMMA ConservedNext == RailInv /\ RailInv' /\ Conserved /\ [Next]_vars => Conserved'
<1> SUFFICES ASSUME RailInv, RailInv', Conserved, [Next]_vars PROVE Conserved'
  OBVIOUS
<1>1. /\ HeldNow \in [Ids -> Int] /\ balances \in [Dids -> Int]
      /\ deposited \in Int /\ Amounts \subseteq Int
  BY HeldType, RailAssumption DEF RailInv, TypeOK
<1>2. ASSUME NEW d \in Dids, NEW a \in Amounts, deposit(d, a) PROVE Conserved'
  <2>1. balances' = [balances EXCEPT ![d] = balances[d] + a] /\ HeldNow' = HeldNow /\ deposited' = deposited + a
    BY <1>2 DEF deposit, HeldNow, Held
  <2> PICK x : x = balances[d] + a
    OBVIOUS
  <2>2. /\ SumFunction(balances') = SumFunction(balances) + x - balances[d]
        /\ SumFunction(balances) \in Int /\ balances[d] \in Int /\ a \in Int
    <3>1. x \in Int /\ balances' = [balances EXCEPT ![d] = x] /\ balances[d] \in Int /\ a \in Int
      BY <1>1, <2>1
    <3> QED BY <1>1, <3>1, RailFinite, SumOfUpdate
  <2>3. SumFunction(HeldNow) \in Int
    <3>1. CASE Ids = {}
      <4>1. HeldNow \in [Ids -> {0}]
        BY <3>1 DEF HeldNow
      <4> QED BY <4>1, RailFinite, SumOfZeros
    <3>2. CASE Ids # {}
      BY <1>1, <3>2, RailFinite, SumOfUpdate
    <3> QED BY <3>1, <3>2
  <2>4. deposited = SumFunction(balances) + SumFunction(HeldNow)
    BY DEF Conserved, HeldNow
  <2>5. deposited' = SumFunction(balances') + SumFunction(HeldNow')
    BY <1>1, <2>1, <2>2, <2>3, <2>4
  <2> QED BY <2>5 DEF Conserved, HeldNow
<1>3. ASSUME NEW p \in Dids, NEW q \in Dids, NEW a \in Amounts, NEW r \in Refs, lock(p, q, a, r) PROVE Conserved'
  <2>1. seq + 1 \in Ids /\ HeldNow[seq + 1] = 0
    BY <1>3, RailAssumption DEF RailInv, TypeOK, UnusedIds, lock, Ids, HeldNow, Held
  <2>2. HeldNow' = [HeldNow EXCEPT ![seq + 1] = a]
    BY <1>3, <2>1 DEF lock, HeldNow, Held, RailInv, TypeOK
  <2>3. balances' = [balances EXCEPT ![p] = balances[p] - a] /\ deposited' = deposited
    BY <1>3 DEF lock
  <2>4. balances[p] - a \in Int /\ deposited' = deposited + ((balances[p] - a) - balances[p]) + (a - HeldNow[seq + 1])
    BY <1>1, <2>1, <2>3
  <2> QED BY <1>1, <2>1, <2>2, <2>3, <2>4, ConservedStep
<1>4. ASSUME NEW i \in Ids, NEW who \in Dids, NEW st \in {"released", "refunded"}, mustLocked(i), settle(i, who, st)
      PROVE  Conserved'
  <2>1. HeldNow[i] = escrows[i].amount /\ HeldNow[i] \in Int
    BY <1>1, <1>4 DEF mustLocked, HeldNow, Held
  <2> PICK y \in Int : y = 0
    OBVIOUS
  <2>2. HeldNow' = [HeldNow EXCEPT ![i] = y]
    <3>1. escrows[i] \in Escrow
      BY <1>4 DEF mustLocked, RailInv, TypeOK, NoEscrow
    <3>2. /\ escrows' = [escrows EXCEPT ![i] = [escrows[i] EXCEPT !.status = st]]
          /\ [escrows[i] EXCEPT !.status = st].status # "locked"
      BY <1>4, <3>1 DEF settle, Escrow
    <3> QED BY <3>2 DEF HeldNow, Held, RailInv, TypeOK
  <2>3. balances' = [balances EXCEPT ![who] = balances[who] + escrows[i].amount] /\ deposited' = deposited
    BY <1>4 DEF settle
  <2>4. /\ balances[who] + escrows[i].amount \in Int
        /\ deposited' = deposited + ((balances[who] + escrows[i].amount) - balances[who]) + (y - HeldNow[i])
    BY <1>1, <2>1, <2>3
  <2> QED BY <2>2, <2>3, <2>4, ConservedStep
<1>5. ASSUME NEW i \in Ids, mustLocked(i) PROVE escrows[i].payer \in Dids /\ escrows[i].payee \in Dids
  BY <1>5 DEF mustLocked, RailInv, TypeOK, Escrow, NoEscrow
<1>6. CASE \E i \in Ids : release(i) \/ refund(i)
  BY <1>4, <1>5, <1>6 DEF release, refund
<1>7. CASE UNCHANGED vars
  BY <1>7 DEF vars, Conserved, Held
<1> QED BY <1>2, <1>3, <1>6, <1>7 DEF Next

(* CONSERVATION, for every instance: however the parties deposit, lock,    *)
(* release and refund, the rail's balances and its open escrows come to    *)
(* what was paid in.                                                       *)
THEOREM CreditIsConserved == Spec => []Conserved
<1>1. Init => Conserved
  <2> SUFFICES ASSUME Init PROVE Conserved
    OBVIOUS
  <2>1. balances \in [Dids -> {0}] /\ HeldNow \in [Ids -> {0}]
    BY DEF Init, HeldNow, Held, NoEscrow
  <2>2. SumFunction(balances) = 0 /\ SumFunction(HeldNow) = 0
    BY <2>1, RailFinite, SumOfZeros
  <2> QED BY <2>2 DEF Init, Conserved, HeldNow
<1> QED BY <1>1, RailInitInv, RailNextInv, ConservedNext, PTL DEF Spec

=============================================================================
