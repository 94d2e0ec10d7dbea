---------------------------- MODULE MandateProofs ----------------------------
(***************************************************************************)
(* Proofs about what an agent may have done for it: Grants, for chains of  *)
(* any length and whatever links others sign, and Errand, for any number   *)
(* of calls and compositions of any length.                                *)
(*                                                                         *)
(* A check of a chain is a conjunction over neighbours; that it bounds the *)
(* last link by the first is an induction over the chain, for which the    *)
(* first section has what is needed.                                       *)
(***************************************************************************)
EXTENDS Grants, Errand, FiniteSetTheorems, TLAPS

----------------------------------------------------------------------------
(* Induction. *)

(* A set of naturals has a least member: were there a smaller one to each, *)
(* adding 1 would map the lower bounds up to a member into those above 0.  *)
LEMMA Smallest ==
  ASSUME NEW T, T \subseteq Nat, T # {}
  PROVE  \E x \in T : \A y \in T : x <= y
<1> SUFFICES ASSUME \A x \in T : \E y \in T : y < x
             PROVE  FALSE
  OBVIOUS
<1>1. PICK n \in T : TRUE
  OBVIOUS
<1> DEFINE D == {x \in 0..n : \A y \in T : x < y}
           E == D \ {0}
           f == [x \in D |-> x + 1]
<1>2. 0 \in D
  OBVIOUS
<1>3. IsFiniteSet(D)
  <2>1. n \in Int /\ IsFiniteSet(0..n)
    BY <1>1, FS_Interval
  <2>2. D \subseteq 0..n
    OBVIOUS
  <2> QED BY <2>1, <2>2, FS_Subset
<1>4. \A x \in D : x + 1 \in D \ {0}
  OBVIOUS
<1>5. f \in [D -> D \ {0}]
  BY <1>4
<1>6. IsFiniteSet(D \ {0}) /\ Cardinality(D \ {0}) = Cardinality(D) - 1
  BY <1>2, <1>3, FS_RemoveElement
<1>7. Cardinality(D) \in Nat
  BY <1>3, FS_CardinalityType
<1>8. Cardinality(D \ {0}) < Cardinality(D)
  BY <1>6, <1>7
<1>9. \E x, y \in D : x # y /\ f[x] = f[y]
  <2>1. IsFiniteSet(E) /\ Cardinality(E) < Cardinality(D) /\ f \in [D -> E]
    BY <1>5, <1>6, <1>8
  <2> HIDE DEF D, E, f
  <2> QED BY <1>3, <2>1, FS_PigeonHole
<1>10. \A x \in D : x \in Nat
  OBVIOUS
<1> QED
  BY <1>9, <1>10

(* Induction over the naturals: the smallest counterexample has none below *)
(* it.                                                                     *)
LEMMA NatInd ==
  ASSUME NEW G, 0 \in G, \A n \in Nat : n \in G => n + 1 \in G
  PROVE  \A n \in Nat : n \in G
<1> DEFINE B == {n \in Nat : n \notin G}
<1> SUFFICES ASSUME B # {} PROVE FALSE
  OBVIOUS
<1>1. PICK n \in B : \A m \in B : n <= m
  <2>1. B \subseteq Nat
    OBVIOUS
  <2> HIDE DEF B
  <2> QED BY <2>1, Smallest
<1>2. n - 1 \in Nat /\ n - 1 \notin B
  BY <1>1
<1> QED BY <1>1, <1>2

----------------------------------------------------------------------------
(* Grants. *)

(* Down a chain in which each of the first n links narrows the one above,  *)
(* none has a capability that one above lacks; a limit of one above still  *)
(* holds if all between are numbers, and none ends after one above if all  *)
(* between end at a number.                                                *)
NarrowsTo(ch, n) ==
  \A i \in 2..n : scopeWithin(ch[i], ch[i - 1]) /\ ~Above(ch[i].not_after, ch[i - 1].not_after)

EndsBy(ch, i, n) ==
  (\A j \in i..n : ch[j].not_after \in Times) => ch[n].not_after <= ch[i].not_after

SignedFor(ch, i, c) == ch[i].scope[c] # Absent
Capped(ch, i, n, c, x) ==
  ch[i].scope[c] \in Limits /\ (\A j \in i..n : ch[j].scope[c] \notin Odd) => x <= ch[i].scope[c]

LEMMA EntryNarrows ==
  ASSUME NEW c \in Entry, NEW p \in Entry, EntryWithin(c, p), c # Absent
  PROVE  /\ p # Absent
         /\ p \in Limits /\ c \notin Odd => c \in Limits /\ p \in Nat /\ c \in Nat /\ c <= p
<1>1. Limits \subseteq Nat /\ Unlimited \notin Nat /\ Absent \notin Nat
  BY GrantsAssumption
<1>2. p # Absent /\ (p # Unlimited => c # Unlimited /\ ~Above(c, p))
  BY DEF EntryWithin
<1>3. ASSUME p \in Limits, c \notin Odd PROVE c \in Limits /\ p \in Nat /\ c \in Nat /\ c <= p
  <2>1. c # Unlimited /\ ~Above(c, p) /\ p \in Nat
    BY <1>1, <1>2, <1>3
  <2>2. c \in Limits /\ c \in Nat
    BY <1>1, <1>3, <2>1 DEF Entry
  <2> QED BY <2>1, <2>2 DEF Above
<1> QED BY <1>2, <1>3

LEMMA AllowsNumber ==
  ASSUME NEW e \in Entry, NEW x \in Nat, Allows(e, x)
  PROVE  e # Absent /\ (e \in Limits => x <= e)
<1>1. Limits \subseteq Nat /\ Unlimited \notin Nat
  BY GrantsAssumption
<1>2. e # Absent /\ (e # Unlimited => ~Above(x, e))
  BY DEF Allows
<1>3. ASSUME e \in Limits PROVE x <= e
  <2>1. e \in Nat /\ ~Above(x, e)
    BY <1>1, <1>2, <1>3
  <2> QED BY <2>1 DEF Above
<1> QED BY <1>2, <1>3

LEMMA NarrowsUp ==
  ASSUME NEW ch, NEW n \in Nat, \A i \in 1..n : ch[i] \in Link, NarrowsTo(ch, n)
  PROVE  \A i \in 1..n :
           /\ EndsBy(ch, i, n)
           /\ \A c \in Caps, x \in Nat :
                Allows(ch[n].scope[c], x) => SignedFor(ch, i, c) /\ Capped(ch, i, n, c, x)
<1> DEFINE K(i, c, x) == SignedFor(ch, i, c) /\ Capped(ch, i, n, c, x)
           P(i) == /\ EndsBy(ch, i, n)
                   /\ \A c \in Caps, x \in Nat : Allows(ch[n].scope[c], x) => K(i, c, x)
           G == {m \in Nat : m < n => P(n - m)}
<1>1. Times \subseteq Nat /\ \A i \in 1..n : ch[i].scope \in [Caps -> Entry]
  BY GrantsAssumption DEF Link
<1>2. 0 \in G
  <2> SUFFICES ASSUME 0 < n PROVE P(n - 0)
    OBVIOUS
  <2>1. n - 0 = n /\ n \in 1..n
    OBVIOUS
  <2>2. EndsBy(ch, n, n)
    <3>1. ASSUME ch[n].not_after \in Nat PROVE ch[n].not_after <= ch[n].not_after
      BY <3>1
    <3>2. n \in n..n
      OBVIOUS
    <3> QED BY <1>1, <3>1, <3>2 DEF EndsBy
  <2>3. ASSUME NEW c \in Caps, NEW x \in Nat, Allows(ch[n].scope[c], x) PROVE K(n, c, x)
    <3>1. ch[n].scope[c] \in Entry
      BY <1>1, <2>1
    <3> QED BY <2>3, <3>1, AllowsNumber DEF SignedFor, Capped
  <2>4. P(n)
    BY <2>2, <2>3
  <2> HIDE DEF P
  <2> QED BY <2>1, <2>4
<1>3. ASSUME NEW m \in Nat, m \in G PROVE m + 1 \in G
  <2> SUFFICES ASSUME m + 1 < n PROVE P(n - (m + 1))
    OBVIOUS
  <2> PICK j \in Nat : j = n - m
    OBVIOUS
  <2>1. j \in 2..n /\ j \in 1..n /\ j - 1 \in 1..n /\ n - (m + 1) = j - 1 /\ n \in 1..n
    OBVIOUS
  <2>2. P(j)
    BY <1>3
  <2>3. scopeWithin(ch[j], ch[j - 1]) /\ ~Above(ch[j].not_after, ch[j - 1].not_after)
    BY <2>1 DEF NarrowsTo
  <2>4. EndsBy(ch, j - 1, n)
    <3> SUFFICES ASSUME \A k \in (j - 1)..n : ch[k].not_after \in Times
                 PROVE  ch[n].not_after <= ch[j - 1].not_after
      BY DEF EndsBy
    <3>1. j - 1 \in (j - 1)..n /\ j \in (j - 1)..n /\ n \in (j - 1)..n /\ \A k \in j..n : k \in (j - 1)..n
      BY <2>1
    <3>2. ch[n].not_after <= ch[j].not_after
      BY <2>2, <3>1 DEF EndsBy
    <3>3. ch[j - 1].not_after \in Nat /\ ch[j].not_after \in Nat /\ ch[n].not_after \in Nat
      BY <1>1, <3>1
    <3>4. ch[j].not_after <= ch[j - 1].not_after
      BY <2>3, <3>3 DEF Above
    <3> QED BY <3>2, <3>3, <3>4
  <2>5. ASSUME NEW c \in Caps, NEW x \in Nat, Allows(ch[n].scope[c], x)
        PROVE  K(j - 1, c, x)
    <3>1. K(j, c, x)
      BY <2>2, <2>5
    <3>2. /\ EntryWithin(ch[j].scope[c], ch[j - 1].scope[c])
          /\ ch[j].scope[c] \in Entry /\ ch[j - 1].scope[c] \in Entry
      BY <1>1, <2>1, <2>3 DEF scopeWithin
    <3>3. ch[j].scope[c] # Absent
      BY <3>1 DEF SignedFor
    <3>4. SignedFor(ch, j - 1, c)
      BY <3>2, <3>3, EntryNarrows DEF SignedFor
    <3>5. ASSUME ch[j - 1].scope[c] \in Limits, \A k \in (j - 1)..n : ch[k].scope[c] \notin Odd
          PROVE  x <= ch[j - 1].scope[c]
      <4>1. j \in (j - 1)..n /\ \A k \in j..n : k \in (j - 1)..n
        BY <2>1
      <4>2. ch[j].scope[c] \notin Odd
        BY <3>5, <4>1
      <4>3. /\ ch[j].scope[c] \in Limits /\ ch[j].scope[c] \in Nat /\ ch[j - 1].scope[c] \in Nat
            /\ ch[j].scope[c] <= ch[j - 1].scope[c]
        BY <3>2, <3>3, <3>5, <4>2, EntryNarrows
      <4>4. \A k \in j..n : ch[k].scope[c] \notin Odd
        BY <3>5, <4>1
      <4>5. x <= ch[j].scope[c]
        BY <3>1, <4>3, <4>4 DEF Capped
      <4> QED BY <4>3, <4>5
    <3> QED BY <3>4, <3>5 DEF Capped
  <2>6. P(j - 1)
    BY <2>4, <2>5
  <2> HIDE DEF P
  <2> QED BY <2>1, <2>6
<1>4. \A m \in Nat : m \in G
  <2> HIDE DEF G
  <2> QED BY <1>2, <1>3, NatInd
<1> SUFFICES ASSUME NEW i \in 1..n PROVE P(i)
  OBVIOUS
<1>5. n - i \in Nat /\ n - i < n /\ n - (n - i) = i
  OBVIOUS
<1>6. n - i \in G
  BY <1>4, <1>5
<1>7. P(n - (n - i))
  BY <1>5, <1>6
<1> HIDE DEF P
<1> QED BY <1>5, <1>7

(* What holds of every request that passed the gate. *)
Authorised(ch, q) ==
  q # IdleRequest /\ q.cap \in Guarded =>
    LET n == q.grant IN
    /\ n \in 1..MaxDepth + 1 /\ ch[n].grantee = q.from
    /\ \A i \in 1..n :
         /\ ch[i].signer = ch[i].issuer
         /\ SignedFor(ch, i, q.cap)
         /\ Capped(ch, i, n, q.cap, PriceEur[q.cap])
         /\ ch[i].not_after \in Times => q.at < ch[i].not_after
         /\ i < n => ch[i].delegable /\ ch[i + 1].signer = ch[i].grantee

(* As long as only the library makes links with the keys of their holders, *)
(* each is sound and narrows the one above it.                             *)
MadeAsTheLibraryDoes ==
  foreign = 0 =>
    /\ \A i \in 1..Len(chain) : Own(chain[i])
    /\ \A i \in 2..Len(chain) : Narrows(chain[i], chain[i - 1])

GrantsInv == GrantsTypeOK /\ AuthorityHolds /\ MadeAsTheLibraryDoes

LEMMA AuthorityIs == AuthorityHolds <=> \A r \in Requests : Authorised(chain, request[r])
  BY DEF AuthorityHolds, Authorised, SignedFor, Capped

LEMMA IdleIsNoInvocation == IdleRequest \notin Invocation
  BY DEF IdleRequest, Invocation

LEMMA GrantsInitInv == GrantsInit => GrantsInv
<1> SUFFICES ASSUME GrantsInit PROVE GrantsInv
  OBVIOUS
<1>1. chain = <<>> /\ Len(chain) = 0 /\ chain \in Seq(Link)
  BY DEF GrantsInit
<1>2. 1..0 = {} /\ 2..0 = {}
  OBVIOUS
<1> QED BY <1>1, <1>2, GrantsAssumption DEF GrantsInit, GrantsInv, GrantsTypeOK, AuthorityHolds, MadeAsTheLibraryDoes

(* A longer chain is no other to those who were let through with a part of *)
(* it.                                                                     *)
LEMMA ExtendInv ==
  ASSUME GrantsInv, Len(chain) < MaxLinks, NEW link \in Link, NEW isForeign \in BOOLEAN, Extend(link, isForeign),
         ~isForeign => Own(link) /\ (chain = <<>> \/ Narrows(link, chain[Len(chain)]))
  PROVE  GrantsInv'
<1>1. chain \in Seq(Link) /\ Len(chain) \in Nat /\ request' = request /\ now' = now
      /\ chain' = Append(chain, link) /\ foreign \in Nat
  BY DEF GrantsInv, GrantsTypeOK, Extend
<1>2. /\ chain' \in Seq(Link) /\ Len(chain') = Len(chain) + 1
      /\ \A i \in 1..Len(chain) : chain'[i] = chain[i]
      /\ chain'[Len(chain) + 1] = link
  BY <1>1
<1>3. GrantsTypeOK'
  <2>1. foreign' \in Nat /\ Len(chain') <= MaxLinks
    BY <1>1, <1>2, GrantsAssumption DEF Extend
  <2>2. \A r \in Requests : request[r] # IdleRequest => request[r].grant <= Len(chain')
    BY <1>1, <1>2 DEF GrantsInv, GrantsTypeOK, Invocation
  <2> QED BY <1>1, <1>2, <2>1, <2>2 DEF GrantsInv, GrantsTypeOK
<1>4. AuthorityHolds'
  <2> SUFFICES ASSUME NEW r \in Requests PROVE Authorised(chain', request[r])
    BY <1>1 DEF AuthorityHolds, Authorised, SignedFor, Capped
  <2> PICK q : q = request[r]
    OBVIOUS
  <2> SUFFICES ASSUME q # IdleRequest, q.cap \in Guarded PROVE Authorised(chain', q)
    BY DEF Authorised
  <2>1. q.grant \in Nat /\ q.grant <= Len(chain)
    BY DEF GrantsInv, GrantsTypeOK, Invocation
  <2>2. Authorised(chain, q)
    BY AuthorityIs DEF GrantsInv
  <2>3. q.grant \in 1..MaxDepth + 1 /\ MaxDepth \in Nat
    BY <2>2, GrantsAssumption DEF Authorised
  <2>4. \A i \in 1..q.grant : chain'[i] = chain[i] /\ (i < q.grant => chain'[i + 1] = chain[i + 1])
    BY <1>1, <1>2, <2>1, <2>3
  <2>5. q.grant \in 1..q.grant
    BY <2>3
  <2>6. \A i \in 1..q.grant : \A j \in i..q.grant : j \in 1..q.grant
    BY <2>3
  <2>7. ASSUME NEW i \in 1..q.grant
        PROVE  SignedFor(chain', i, q.cap) /\ Capped(chain', i, q.grant, q.cap, PriceEur[q.cap])
    <3>1. SignedFor(chain, i, q.cap) /\ Capped(chain, i, q.grant, q.cap, PriceEur[q.cap])
      BY <2>2 DEF Authorised
    <3>2. chain'[i] = chain[i] /\ \A j \in i..q.grant : chain'[j] = chain[j]
      BY <2>4, <2>6
    <3> QED BY <3>1, <3>2 DEF SignedFor, Capped
  <2> QED BY <2>2, <2>4, <2>5, <2>7 DEF Authorised
<1>5. MadeAsTheLibraryDoes'
  <2> SUFFICES ASSUME foreign' = 0
               PROVE  /\ \A i \in 1..Len(chain') : Own(chain'[i])
                      /\ \A i \in 2..Len(chain') : Narrows(chain'[i], chain'[i - 1])
    BY DEF MadeAsTheLibraryDoes
  <2>1. ~isForeign /\ foreign = 0
    BY <1>1 DEF Extend
  <2>2. \A i \in 1..Len(chain) + 1 : Own(chain'[i])
    <3> SUFFICES ASSUME NEW i \in 1..Len(chain) + 1 PROVE Own(chain'[i])
      OBVIOUS
    <3>1. CASE i \in 1..Len(chain)
      BY <1>2, <2>1, <3>1 DEF GrantsInv, MadeAsTheLibraryDoes
    <3>2. CASE i = Len(chain) + 1
      BY <1>2, <2>1, <3>2
    <3> QED BY <1>1, <3>1, <3>2
  <2>3. \A i \in 2..Len(chain) + 1 : Narrows(chain'[i], chain'[i - 1])
    <3> SUFFICES ASSUME NEW i \in 2..Len(chain) + 1 PROVE Narrows(chain'[i], chain'[i - 1])
      OBVIOUS
    <3>1. CASE i \in 2..Len(chain)
      <4>1. i \in 1..Len(chain) /\ i - 1 \in 1..Len(chain)
        BY <1>1, <3>1
      <4> QED BY <1>2, <2>1, <3>1, <4>1 DEF GrantsInv, MadeAsTheLibraryDoes
    <3>2. CASE i = Len(chain) + 1
      <4>1. i - 1 = Len(chain) /\ i - 1 \in 1..Len(chain)
        BY <1>1, <3>2
      <4>2. chain # <<>>
        BY <4>1
      <4> QED BY <1>2, <2>1, <3>2, <4>1, <4>2
    <3> QED BY <1>1, <3>1, <3>2
  <2> QED BY <1>2, <2>2, <2>3
<1> QED BY <1>3, <1>4, <1>5 DEF GrantsInv

(* The gate lets through whom the chain it was shown authorises. *)
LEMMA GateInv ==
  ASSUME GrantsInv, NEW r \in Requests, NEW from \in Dids, NEW cap \in Caps, NEW n \in 0..Len(chain),
         Gate(r, from, cap, n)
  PROVE  GrantsInv'
<1> PICK q : q = [pc |-> IF PriceEur[cap] > 0 THEN "locking" ELSE "done",
                  from |-> from, cap |-> cap, grant |-> n, at |-> now]
  OBVIOUS
<1>1. /\ request' = [request EXCEPT ![r] = q] /\ UNCHANGED <<chain, now, foreign>>
      /\ cap \in Guarded => n \in 1..Len(chain) /\ verifyGrant(n, from, cap)
  BY DEF Gate
<1>2. chain \in Seq(Link) /\ Len(chain) \in Nat /\ now \in Nat /\ n \in Nat /\ n <= Len(chain)
  BY DEF GrantsInv, GrantsTypeOK
<1>3. q \in Invocation /\ q.grant = n /\ q.from = from /\ q.cap = cap /\ q.at = now
  BY <1>2 DEF Invocation
<1>4. GrantsTypeOK'
  <2>1. request' \in [Requests -> {IdleRequest} \cup Invocation]
    BY <1>1, <1>3 DEF GrantsInv, GrantsTypeOK
  <2>2. \A s \in Requests : request'[s] # IdleRequest => request'[s].grant <= Len(chain)
    BY <1>1, <1>2, <1>3 DEF GrantsInv, GrantsTypeOK
  <2> QED BY <1>1, <2>1, <2>2 DEF GrantsInv, GrantsTypeOK
<1>5. Authorised(chain, q)
  <2> SUFFICES ASSUME cap \in Guarded
               PROVE  /\ n \in 1..MaxDepth + 1 /\ chain[n].grantee = from
                      /\ \A i \in 1..n :
                           /\ chain[i].signer = chain[i].issuer
                           /\ SignedFor(chain, i, cap)
                           /\ Capped(chain, i, n, cap, PriceEur[cap])
                           /\ chain[i].not_after \in Times => now < chain[i].not_after
                           /\ i < n => chain[i].delegable /\ chain[i + 1].signer = chain[i].grantee
    BY <1>3 DEF Authorised
  <2>1. n \in 1..Len(chain) /\ verifyChain(n) /\ chain[n].grantee = from
        /\ Allows(chain[n].scope[cap], PriceEur[cap])
    BY <1>1 DEF verifyGrant
  <2>2. n \in 1..MaxDepth + 1
    BY <1>2, <2>1, GrantsAssumption DEF verifyChain
  <2>3. \A i \in 1..n : chain[i].signer = chain[i].issuer /\ ~Expired(chain[i])
    BY <2>1 DEF verifyChain, Own
  <2>10. ASSUME NEW i \in 1..n, chain[i].not_after \in Times PROVE now < chain[i].not_after
    <3>1. chain[i].not_after \in Nat /\ ~(now >= chain[i].not_after)
      BY <2>3, <2>10, GrantsAssumption DEF Expired
    <3> QED BY <1>2, <3>1
  <2>4. \A i \in 2..n : chain[i - 1].delegable /\ chain[i].issuer = chain[i - 1].grantee
    BY <2>1 DEF verifyChain
  <2>5. NarrowsTo(chain, n)
    BY <2>1 DEF verifyChain, NarrowsTo
  <2>6. \A i \in 1..n : chain[i] \in Link
    BY <1>2, <2>1
  <2>7. PriceEur[cap] \in Nat
    BY GrantsAssumption
  <2>8. \A i \in 1..n : SignedFor(chain, i, cap) /\ Capped(chain, i, n, cap, PriceEur[cap])
    BY <1>2, <2>1, <2>5, <2>6, <2>7, NarrowsUp
  <2>9. ASSUME NEW i \in 1..n, i < n
        PROVE  chain[i].delegable /\ chain[i + 1].signer = chain[i].grantee
    <3>1. i + 1 \in 2..n /\ i + 1 \in 1..n /\ (i + 1) - 1 = i
      BY <1>2, <2>9
    <3> QED BY <2>3, <2>4, <3>1
  <2> QED BY <2>1, <2>2, <2>3, <2>8, <2>9, <2>10
<1>6. AuthorityHolds'
  <2> SUFFICES ASSUME NEW s \in Requests PROVE Authorised(chain, request'[s])
    BY <1>1 DEF AuthorityHolds, Authorised, SignedFor, Capped
  <2>1. request'[s] = IF s = r THEN q ELSE request[s]
    BY <1>1 DEF GrantsInv, GrantsTypeOK
  <2>2. Authorised(chain, request[s])
    BY AuthorityIs DEF GrantsInv
  <2> QED BY <1>5, <2>1, <2>2
<1> QED BY <1>1, <1>4, <1>6 DEF GrantsInv, MadeAsTheLibraryDoes

(* The rest of a request forgets what let it through, or changes nothing   *)
(* of it.                                                                  *)
LEMMA RequestGoesOnInv ==
  ASSUME GrantsInv, NEW r \in Requests, Act(r) \/ Respond(r)
  PROVE  GrantsInv'
<1>1. PICK q : /\ q = IdleRequest \/ (request[r] # IdleRequest /\ q = [request[r] EXCEPT !.pc = "done"])
               /\ request' = [request EXCEPT ![r] = q] /\ UNCHANGED <<chain, now, foreign>>
  BY DEF Act, Respond
<1>2. \/ q = IdleRequest
      \/ /\ request[r] \in Invocation /\ q \in Invocation /\ request[r] # IdleRequest
         /\ q.from = request[r].from /\ q.cap = request[r].cap
         /\ q.grant = request[r].grant /\ q.at = request[r].at
  BY <1>1 DEF GrantsInv, GrantsTypeOK, Invocation
<1>3. GrantsTypeOK'
  <2>1. request' \in [Requests -> {IdleRequest} \cup Invocation]
    BY <1>1, <1>2 DEF GrantsInv, GrantsTypeOK
  <2>2. \A s \in Requests : request'[s] # IdleRequest => request'[s].grant <= Len(chain)
    BY <1>1, <1>2 DEF GrantsInv, GrantsTypeOK
  <2> QED BY <1>1, <2>1, <2>2 DEF GrantsInv, GrantsTypeOK
<1>4. AuthorityHolds'
  <2> SUFFICES ASSUME NEW s \in Requests PROVE Authorised(chain, request'[s])
    BY <1>1 DEF AuthorityHolds, Authorised, SignedFor, Capped
  <2>1. request'[s] = IF s = r THEN q ELSE request[s]
    BY <1>1 DEF GrantsInv, GrantsTypeOK
  <2>2. Authorised(chain, request[s]) /\ Authorised(chain, request[r])
    BY AuthorityIs DEF GrantsInv
  <2>3. Authorised(chain, q)
    BY <1>2, <2>2 DEF Authorised
  <2> QED BY <2>1, <2>2, <2>3
<1> QED BY <1>1, <1>3, <1>4 DEF GrantsInv, MadeAsTheLibraryDoes

(* The invariant is inductive. *)
LEMMA GrantsNextInv == GrantsInv /\ [GrantsNext]_grantsVars => GrantsInv'
<1> SUFFICES ASSUME GrantsInv, [GrantsNext]_grantsVars PROVE GrantsInv'
  OBVIOUS
<1>1. ASSUME Len(chain) < MaxLinks, NEW link \in Link, createGrant(link) PROVE GrantsInv'
  BY <1>1, ExtendInv DEF createGrant
<1>2. ASSUME Len(chain) < MaxLinks, NEW link \in Link, createSubGrant(link) PROVE GrantsInv'
  BY <1>2, ExtendInv DEF createSubGrant
<1>3. ASSUME Len(chain) < MaxLinks, NEW link \in Link, OtherGrant(link) PROVE GrantsInv'
  BY <1>3, ExtendInv DEF OtherGrant
<1>4. CASE Tick
  BY <1>4 DEF Tick, GrantsInv, GrantsTypeOK, AuthorityHolds, MadeAsTheLibraryDoes
<1>5. CASE UNCHANGED grantsVars
  BY <1>5 DEF grantsVars, GrantsInv, GrantsTypeOK, AuthorityHolds, MadeAsTheLibraryDoes
<1> QED BY <1>1, <1>2, <1>3, <1>4, <1>5, GateInv, RequestGoesOnInv DEF GrantsNext

(* TYPES, for every instance: what the chain, the clock and the requests    *)
(* are.                                                                    *)
THEOREM GrantsTypeCorrect == GrantsSpec => []GrantsTypeOK
<1>1. GrantsInv => GrantsTypeOK
  BY DEF GrantsInv
<1> QED BY <1>1, GrantsInitInv, GrantsNextInv, PTL DEF GrantsSpec

(* AUTHORITY IS TRACED TO THE ROOT, for chains of any length, any scopes    *)
(* and any number of links that somebody else signed.                      *)
THEOREM AuthorityIsTraced == GrantsSpec => []AuthorityHolds
<1>1. GrantsInv => AuthorityHolds
  BY DEF GrantsInv
<1> QED BY <1>1, GrantsInitInv, GrantsNextInv, PTL DEF GrantsSpec

LEMMA MadeIsVerified == GrantsInv => MadeIsAccepted
<1> SUFFICES ASSUME GrantsInv, foreign = 0, NEW n \in 1..Len(chain), n <= MaxDepth + 1,
                    \A i \in 1..n :
                      Expired(chain[i]) => i < n /\ \A k \in 1..n : chain[k].not_after \in Times
             PROVE  verifyChain(n)
  BY DEF MadeIsAccepted
<1>1. chain \in Seq(Link) /\ n \in Nat /\ now \in Nat /\ MaxDepth \in Nat /\ n - 1 <= MaxDepth
  BY GrantsAssumption DEF GrantsInv, GrantsTypeOK
<1>2. \A i \in 1..n : chain[i] \in Link /\ Own(chain[i])
  BY <1>1 DEF GrantsInv, MadeAsTheLibraryDoes
<1>3. \A i \in 2..n : Narrows(chain[i], chain[i - 1])
  BY <1>1 DEF GrantsInv, MadeAsTheLibraryDoes
<1>4. NarrowsTo(chain, n)
  BY <1>3 DEF Narrows, NarrowsTo
<1>5. \A i \in 1..n : EndsBy(chain, i, n)
  BY <1>1, <1>2, <1>4, NarrowsUp
<1>6. ASSUME NEW i \in 1..n, Expired(chain[i]) PROVE FALSE
  <2>1. n \in 1..n /\ ~Expired(chain[n]) /\ \A k \in 1..n : chain[k].not_after \in Times
    BY <1>1, <1>6
  <2>2. \A k \in 1..n : chain[k].not_after \in Nat
    BY <2>1, GrantsAssumption
  <2>3. now >= chain[i].not_after /\ ~(now >= chain[n].not_after)
    BY <1>6, <2>1, <2>2 DEF Expired
  <2>4. \A k \in i..n : k \in 1..n
    BY <1>1
  <2>5. chain[n].not_after <= chain[i].not_after
    BY <1>5, <2>1, <2>4 DEF EndsBy
  <2> QED BY <1>1, <2>1, <2>2, <2>3, <2>5
<1> QED BY <1>1, <1>2, <1>3, <1>6 DEF verifyChain, Narrows

(* WHAT IS MADE IS ACCEPTED, for chains of any length: no link that the    *)
(* library lets its holder make is one that a node refuses before it ends. *)
THEOREM MadeChainsAreAccepted == GrantsSpec => []MadeIsAccepted
<1> QED BY MadeIsVerified, GrantsInitInv, GrantsNextInv, PTL DEF GrantsSpec

----------------------------------------------------------------------------
(* Errands.  What is true of one of them, in terms of its own state and of *)
(* the receipts.                                                           *)
Served(cl) == cl # Idle /\ cl.pc = "served"

(* An answer carries what was asked, on terms that were met. *)
CallOK(e, cl, iss) ==
  Served(cl) =>
    /\ cl.receipt \in DOMAIN iss
    /\ iss[cl.receipt].for = e /\ iss[cl.receipt].prev = cl.prev
    /\ iss[cl.receipt].outcome # "rejected" => cl.terms.price <= cl.amount

(* A call of the tool has made no invocation, or one, which its caller     *)
(* allowed and which is open, refunded or paid.                            *)
ToolOK(k, cl, h, p, iss) ==
  IF cl = Idle THEN h = 0 /\ p = <<>> /\ (k # Idle => k.pc # "invoking")
  ELSE /\ k # Idle /\ k.pc \notin {"ranked", "refused"}
       /\ cl.prev = {} /\ cl.amount = Price(k.read)
       /\ k.max # NoLimit => cl.amount <= k.max
       /\ k.read.offered /\ k.read.risky => k.confirm
       /\ k.pc = "invoking" => h = cl.amount /\ p = <<>>
       /\ \/ h \in {0, cl.amount} /\ p = <<>>
          \/ /\ h = 0 /\ p = <<<<cl.receipt, cl.amount>>>>
             /\ Served(cl) /\ iss[cl.receipt].outcome = "success"

(* The payments p are those of the steps that have a price, in order. *)
PaidInOrder(p, r, S) ==
  LET priced == {i \in DOMAIN r : S[i].pay > 0} IN
  /\ Len(p) = Cardinality(priced)
  /\ \A i \in priced : p[Cardinality({j \in priced : j <= i})] = <<r[i], S[i].pay>>

(* The receipts of the steps that succeeded, each of which names the one   *)
(* before.                                                                 *)
LinkBefore(r, i) == IF i = 1 THEN {} ELSE {r[i - 1]}

ReceiptsOK(c, r, iss) ==
  /\ \A i \in 1..Len(r) :
       /\ r[i] \in DOMAIN iss /\ iss[r[i]].for = c /\ iss[r[i]].outcome = "success"
       /\ iss[r[i]].prev = LinkBefore(r, i)
  /\ \A i, j \in 1..Len(r) : i < j => r[i] < r[j]

(* No step is under way: the last invocation is the one of the last receipt. *)
Between(k, cl, h) ==
  LET r == k.receipts IN
  /\ k.pc # "waiting" /\ h = 0
  /\ IF r = <<>> THEN cl = Idle ELSE Served(cl) /\ cl.receipt = r[Len(r)]

(* The next step was asked for, and has a later receipt if it has one. *)
UnderWay(k, cl, h) ==
  LET r == k.receipts
      S == k.steps
  IN  /\ k.pc \in {"waiting", "threw"} /\ Len(r) < Len(S)
      /\ cl # Idle /\ cl.prev = LinkBefore(r, Len(r) + 1) /\ cl.amount = S[Len(r) + 1].pay
      /\ h \in {0, cl.amount} /\ (k.pc = "waiting" => h = cl.amount)
      /\ Served(cl) => \A i \in 1..Len(r) : r[i] < cl.receipt

CompOK(c, k, cl, h, p, iss) ==
  IF k = Idle THEN cl = Idle /\ h = 0 /\ p = <<>>
  ELSE /\ Len(k.receipts) <= Len(k.steps)
       /\ k.pc \in {"step", "waiting"} => Len(k.receipts) < Len(k.steps)
       /\ k.pc = "done" => Len(k.receipts) = Len(k.steps)
       /\ ReceiptsOK(c, k.receipts, iss)
       /\ PaidInOrder(p, k.receipts, k.steps)
       /\ Between(k, cl, h) \/ UnderWay(k, cl, h)

(* Whose a receipt is: a composition keeps its own, or its last invocation *)
(* does.                                                                   *)
Keeps(k, cl, i) ==
  /\ k # Idle
  /\ (\E j \in 1..Len(k.receipts) : k.receipts[j] = i) \/ (Served(cl) /\ cl.receipt = i)

IssuedOK ==
  \A i \in DOMAIN issued :
    /\ issued[i].for \in Tools => issued[i].prev = {}
    /\ issued[i].for \in Compositions => Keeps(comp[issued[i].for], call[issued[i].for], i)

ErrandInv ==
  /\ TypeOK /\ IssuedOK
  /\ \A n \in Nodes : published[n] # <<>>
  /\ \A e \in Errands : CallOK(e, call[e], issued)
  /\ \A t \in Tools : ToolOK(tool[t], call[t], held[t], paid[t], issued)
  /\ \A c \in Compositions : CompOK(c, comp[c], call[c], held[c], paid[c], issued)

(* More receipts do not change what is true of an errand. *)
Extends(iss, later) == DOMAIN iss \subseteq DOMAIN later /\ \A i \in DOMAIN iss : later[i] = iss[i]

LEMMA CallKeeps ==
  ASSUME NEW e, NEW cl, NEW iss, NEW later, CallOK(e, cl, iss), Extends(iss, later)
  PROVE  CallOK(e, cl, later)
  BY DEF CallOK, Extends

LEMMA ToolKeeps ==
  ASSUME NEW e, NEW k, NEW cl, NEW h, NEW p, NEW iss, NEW later,
         CallOK(e, cl, iss), ToolOK(k, cl, h, p, iss), Extends(iss, later)
  PROVE  ToolOK(k, cl, h, p, later)
<1>1. Served(cl) => later[cl.receipt] = iss[cl.receipt]
  BY DEF CallOK, Extends
<1>2. CASE cl = Idle
  BY <1>2 DEF ToolOK
<1>3. CASE cl # Idle
  BY <1>1, <1>3 DEF ToolOK
<1> QED BY <1>2, <1>3

LEMMA CompKeeps ==
  ASSUME NEW c, NEW k, NEW cl, NEW h, NEW p, NEW iss, NEW later,
         CompOK(c, k, cl, h, p, iss), Extends(iss, later)
  PROVE  CompOK(c, k, cl, h, p, later)
<1>1. ASSUME NEW r, ReceiptsOK(c, r, iss) PROVE ReceiptsOK(c, r, later)
  BY <1>1 DEF ReceiptsOK, Extends
<1>2. CASE k = Idle
  BY <1>2 DEF CompOK
<1>3. CASE k # Idle
  BY <1>1, <1>3 DEF CompOK
<1> QED BY <1>2, <1>3

LEMMA ExtendsItself == \A iss : Extends(iss, iss)
  BY DEF Extends

----------------------------------------------------------------------------
(* Types. *)
LEMMA TermsType == ASSUME NEW m \in Terms PROVE m.offered \in BOOLEAN /\ m.price \in Nat /\ m.risky \in BOOLEAN /\ Price(m) \in Nat
<1>1. m \in [offered : BOOLEAN, price : Nat, risky : BOOLEAN]
  BY ErrandAssumption
<1> QED BY <1>1 DEF Price

LEMMA NotEmpty == ASSUME NEW X, NEW s \in Seq(X), s # <<>> PROVE Len(s) \in Nat /\ Len(s) > 0
  OBVIOUS

LEMMA Elements == ASSUME NEW X, NEW s \in Seq(X) PROVE Len(s) \in Nat /\ \A i \in 1..Len(s) : s[i] \in X
  OBVIOUS

LEMMA PlanType ==
  ASSUME NEW S \in Plans
  PROVE  /\ S \in Seq([node : Nodes, pay : Nat]) /\ Len(S) \in Nat /\ Len(S) > 0
         /\ \A i \in 1..Len(S) : S[i].node \in Nodes /\ S[i].pay \in Nat
<1>1. S \in Seq([node : Nodes, pay : Nat]) /\ S # <<>>
  BY ErrandAssumption
<1>2. Len(S) \in Nat /\ Len(S) > 0
  BY <1>1, NotEmpty
<1>3. \A i \in 1..Len(S) : S[i] \in [node : Nodes, pay : Nat]
  BY <1>1, Elements
<1> QED BY <1>1, <1>2, <1>3

LEMMA PublishedType ==
  ASSUME TypeOK, NEW n \in Nodes, published[n] # <<>>
  PROVE  /\ InForce(n) \in Terms /\ published[n][1] \in Terms
         /\ \A i \in DOMAIN published[n] : published[n][i] \in Terms
<1>1. published[n] \in Seq(Terms)
  BY DEF TypeOK
<1> QED BY <1>1 DEF InForce

LEMMA SendDoes ==
  ASSUME ErrandInv, NEW e \in Errands, NEW n \in Nodes, NEW amount \in Nat, NEW prev \in SUBSET Nat,
         Send(e, n, amount, prev)
  PROVE  /\ call' \in [Errands -> {Idle} \cup Call] /\ held' \in [Errands -> Nat]
         /\ call'[e] \in Call /\ ~Served(call'[e])
         /\ call'[e].amount = amount /\ call'[e].prev = prev
         /\ held'[e] = held[e] + amount
         /\ \A d \in Errands : d # e => call'[d] = call[d] /\ held'[d] = held[d]
         /\ issued' = issued /\ paid' = paid
<1>1. published[n][1] \in Terms
  BY PublishedType DEF ErrandInv
<1> PICK cl : cl = [pc |-> "sent", node |-> n, amount |-> amount, prev |-> prev, receipt |-> 0, terms |-> published[n][1]]
  OBVIOUS
<1>2. cl \in Call /\ cl.pc = "sent" /\ cl.amount = amount /\ cl.prev = prev
  BY <1>1 DEF Call
<1>3. call' = [call EXCEPT ![e] = cl] /\ held' = [held EXCEPT ![e] = @ + amount] /\ issued' = issued /\ paid' = paid
  BY DEF Send
<1>4. call \in [Errands -> {Idle} \cup Call] /\ held \in [Errands -> Nat]
  BY DEF ErrandInv, TypeOK
<1> QED BY <1>2, <1>3, <1>4 DEF Served

LEMMA SettleDoes ==
  ASSUME ErrandInv, NEW e \in Errands, Settle(e), held[e] = call[e].amount
  PROVE  /\ Served(call[e]) /\ call[e] \in Call
         /\ call' = call /\ issued' = issued
         /\ held' \in [Errands -> Nat] /\ held'[e] = 0
         /\ paid' \in [Errands -> Seq(Nat \X Nat)]
         /\ paid'[e] = IF issued[call[e].receipt].outcome = "success" /\ call[e].amount > 0
                       THEN Append(paid[e], <<call[e].receipt, call[e].amount>>) ELSE paid[e]
         /\ \A d \in Errands : d # e => held'[d] = held[d] /\ paid'[d] = paid[d]
<1>1. Served(call[e]) /\ call[e] # Idle
  BY DEF Settle, Has, Served
<1>2. /\ call \in [Errands -> {Idle} \cup Call] /\ held \in [Errands -> Nat]
      /\ paid \in [Errands -> Seq(Nat \X Nat)]
  BY DEF ErrandInv, TypeOK
<1>3. call[e] \in Call /\ call[e].amount \in Nat /\ call[e].receipt \in Nat
  BY <1>1, <1>2 DEF Call
<1> PICK x : x = <<call[e].receipt, call[e].amount>>
  OBVIOUS
<1>4. x \in Nat \X Nat
  BY <1>3
<1>5. held' = [held EXCEPT ![e] = @ - call[e].amount] /\ call' = call /\ issued' = issued
  BY DEF Settle
<1>6. paid' = IF issued[call[e].receipt].outcome = "success" /\ call[e].amount > 0
              THEN [paid EXCEPT ![e] = Append(@, x)] ELSE paid
  BY DEF Settle, Releases, Outcome
<1>7. held' \in [Errands -> Nat] /\ held'[e] = 0 /\ \A d \in Errands : d # e => held'[d] = held[d]
  BY <1>2, <1>3, <1>5
<1>8. Append(paid[e], x) \in Seq(Nat \X Nat)
  BY <1>2, <1>4
<1>9. /\ paid' \in [Errands -> Seq(Nat \X Nat)]
      /\ paid'[e] = IF issued[call[e].receipt].outcome = "success" /\ call[e].amount > 0
                    THEN Append(paid[e], x) ELSE paid[e]
      /\ \A d \in Errands : d # e => paid'[d] = paid[d]
  BY <1>2, <1>6, <1>8
<1> QED BY <1>1, <1>3, <1>5, <1>7, <1>9

----------------------------------------------------------------------------
(* A step of one errand leaves the others as they were. *)
LEMMA OneErrandInv ==
  ASSUME ErrandInv, TypeOK', published' = published, issued' = issued, NEW e \in Errands,
         \A d \in Errands : d # e => call'[d] = call[d] /\ held'[d] = held[d] /\ paid'[d] = paid[d],
         \A t \in Tools : t # e => tool'[t] = tool[t],
         \A c \in Compositions : c # e => comp'[c] = comp[c],
         CallOK(e, call'[e], issued),
         e \in Tools => ToolOK(tool'[e], call'[e], held'[e], paid'[e], issued),
         e \in Compositions => CompOK(e, comp'[e], call'[e], held'[e], paid'[e], issued),
         e \in Compositions => \A i : Keeps(comp[e], call[e], i) => Keeps(comp'[e], call'[e], i)
  PROVE  ErrandInv'
<1>1. Tools \subseteq Errands /\ Compositions \subseteq Errands /\ Tools \cap Compositions = {}
  BY ErrandAssumption DEF Errands
<1>2. \A d \in Errands : CallOK(d, call'[d], issued)
  BY DEF ErrandInv
<1>3. \A t \in Tools : ToolOK(tool'[t], call'[t], held'[t], paid'[t], issued)
  <2> SUFFICES ASSUME NEW t \in Tools PROVE ToolOK(tool'[t], call'[t], held'[t], paid'[t], issued)
    OBVIOUS
  <2>1. CASE t = e
    BY <2>1
  <2>2. CASE t # e
    BY <1>1, <2>2 DEF ErrandInv
  <2> QED BY <2>1, <2>2
<1>4. \A c \in Compositions : CompOK(c, comp'[c], call'[c], held'[c], paid'[c], issued)
  <2> SUFFICES ASSUME NEW c \in Compositions PROVE CompOK(c, comp'[c], call'[c], held'[c], paid'[c], issued)
    OBVIOUS
  <2>1. CASE c = e
    BY <2>1
  <2>2. CASE c # e
    BY <1>1, <2>2 DEF ErrandInv
  <2> QED BY <2>1, <2>2
<1>5. IssuedOK'
  <2> SUFFICES ASSUME NEW i \in DOMAIN issued, NEW c, c = issued[i].for, c \in Compositions
               PROVE  Keeps(comp'[c], call'[c], i)
    BY DEF IssuedOK, ErrandInv
  <2>1. Keeps(comp[c], call[c], i)
    BY DEF IssuedOK, ErrandInv
  <2>2. CASE c = e
    BY <2>1, <2>2
  <2>3. CASE c # e
    BY <1>1, <2>1, <2>3
  <2> QED BY <2>2, <2>3
<1>6. \A n \in Nodes : published'[n] # <<>>
  BY DEF ErrandInv
<1> QED BY <1>2, <1>3, <1>4, <1>5, <1>6 DEF ErrandInv

(* A step of a call of the tool. *)
LEMMA ToolStepInv ==
  ASSUME ErrandInv, published' = published, issued' = issued, comp' = comp, NEW t \in Tools,
         NEW k \in {Idle} \cup Tool, tool' = [tool EXCEPT ![t] = k],
         call' \in [Errands -> {Idle} \cup Call], held' \in [Errands -> Nat],
         paid' \in [Errands -> Seq(Nat \X Nat)],
         \A d \in Errands : d # t => call'[d] = call[d] /\ held'[d] = held[d] /\ paid'[d] = paid[d],
         CallOK(t, call'[t], issued), ToolOK(k, call'[t], held'[t], paid'[t], issued)
  PROVE  ErrandInv'
<1>1. t \in Errands /\ t \notin Compositions
  BY ErrandAssumption DEF Errands
<1>2. tool \in [Tools -> {Idle} \cup Tool]
  BY DEF ErrandInv, TypeOK
<1>3. tool' \in [Tools -> {Idle} \cup Tool] /\ tool'[t] = k /\ \A s \in Tools : s # t => tool'[s] = tool[s]
  BY <1>2
<1>4. TypeOK'
  BY <1>3 DEF ErrandInv, TypeOK
<1> QED BY <1>1, <1>3, <1>4, OneErrandInv

(* A step of a composition. *)
LEMMA CompStepInv ==
  ASSUME ErrandInv, published' = published, issued' = issued, tool' = tool, NEW c \in Compositions,
         NEW k \in {Idle} \cup Comp, comp' = [comp EXCEPT ![c] = k],
         call' \in [Errands -> {Idle} \cup Call], held' \in [Errands -> Nat],
         paid' \in [Errands -> Seq(Nat \X Nat)],
         \A d \in Errands : d # c => call'[d] = call[d] /\ held'[d] = held[d] /\ paid'[d] = paid[d],
         CallOK(c, call'[c], issued), CompOK(c, k, call'[c], held'[c], paid'[c], issued),
         \A i : Keeps(comp[c], call[c], i) => Keeps(k, call'[c], i)
  PROVE  ErrandInv'
<1>1. c \in Errands /\ c \notin Tools
  BY ErrandAssumption DEF Errands
<1>2. comp \in [Compositions -> {Idle} \cup Comp]
  BY DEF ErrandInv, TypeOK
<1>3. comp' \in [Compositions -> {Idle} \cup Comp] /\ comp'[c] = k
      /\ \A d \in Compositions : d # c => comp'[d] = comp[d]
  BY <1>2
<1>4. TypeOK'
  BY <1>3 DEF ErrandInv, TypeOK
<1> QED BY <1>1, <1>3, <1>4, OneErrandInv

LEMMA ErrandTypes ==
  ASSUME ErrandInv
  PROVE  /\ call \in [Errands -> {Idle} \cup Call] /\ held \in [Errands -> Nat]
         /\ paid \in [Errands -> Seq(Nat \X Nat)]
         /\ tool \in [Tools -> {Idle} \cup Tool] /\ comp \in [Compositions -> {Idle} \cup Comp]
         /\ Tools \subseteq Errands /\ Compositions \subseteq Errands
  BY DEF ErrandInv, TypeOK, Errands

----------------------------------------------------------------------------
(* aleph_invoke. *)
LEMMA InvokeInv ==
  ASSUME ErrandInv, NEW t \in Tools, NEW max \in Maxima \cup {NoLimit}, NEW confirm \in BOOLEAN, NEW n \in Nodes,
         Invoke(t, max, confirm, n)
  PROVE  ErrandInv'
<1>1. published[n][1] \in Terms
  BY PublishedType DEF ErrandInv
<1> PICK k : k = [pc |-> "ranked", max |-> max, confirm |-> confirm, node |-> n, read |-> published[n][1]]
  OBVIOUS
<1>2. k \in Tool /\ k.pc = "ranked"
  BY <1>1 DEF Tool
<1>3. tool' = [tool EXCEPT ![t] = k] /\ UNCHANGED <<published, comp, call, issued, paid, held>> /\ tool[t] = Idle
  BY DEF Invoke
<1>4. CallOK(t, call[t], issued) /\ ToolOK(tool[t], call[t], held[t], paid[t], issued)
  BY ErrandTypes DEF ErrandInv
<1>5. ToolOK(k, call[t], held[t], paid[t], issued)
  BY <1>2, <1>3, <1>4 DEF ToolOK
<1> QED BY <1>2, <1>3, <1>4, <1>5, ErrandTypes, ToolStepInv

LEMMA FetchInv ==
  ASSUME ErrandInv, NEW t \in Tools, Fetch(t)
  PROVE  ErrandInv'
<1> PICK k : k = tool[t]
  OBVIOUS
<1>1. k # Idle /\ k.pc = "ranked" /\ k \in Tool
  BY ErrandTypes DEF Fetch
<1>2. k.node \in Nodes /\ k.max \in Maxima \cup {NoLimit} /\ k.confirm \in BOOLEAN
  BY <1>1 DEF Tool
<1>3. published' = published /\ comp' = comp
  BY DEF Fetch
<1>4. CallOK(t, call[t], issued) /\ ToolOK(k, call[t], held[t], paid[t], issued)
  BY ErrandTypes DEF ErrandInv
<1>5. call[t] = Idle /\ held[t] = 0 /\ paid[t] = <<>>
  BY <1>1, <1>4 DEF ToolOK
<1>6. PICK i \in DOMAIN published[k.node] :
        LET m == published[k.node][i] IN
        \/ /\ tool' = [tool EXCEPT ![t].pc = "refused", ![t].read = m]
           /\ UNCHANGED <<call, issued, paid, held>>
        \/ /\ Acceptable(t, m)
           /\ tool' = [tool EXCEPT ![t].pc = "invoking", ![t].read = m]
           /\ Send(t, k.node, Price(m), {})
        \/ /\ tool' = [tool EXCEPT ![t].pc = "threw", ![t].read = m]
           /\ LockFails(t, Price(m))
  BY DEF Fetch
<1> PICK m : m = published[k.node][i]
  OBVIOUS
<1>7. m \in Terms /\ Price(m) \in Nat
  BY <1>2, PublishedType, TermsType DEF ErrandInv
<1>8. ASSUME NEW pc \in {"refused", "threw"}, tool' = [tool EXCEPT ![t].pc = pc, ![t].read = m],
             UNCHANGED <<call, issued, paid, held>>
      PROVE  ErrandInv'
  <2> PICK l : l = [k EXCEPT !.pc = pc, !.read = m]
    OBVIOUS
  <2>1. l \in Tool /\ l.pc = pc /\ tool' = [tool EXCEPT ![t] = l]
    BY <1>1, <1>7, <1>8, ErrandTypes DEF Tool
  <2>2. ToolOK(l, call[t], held[t], paid[t], issued)
    BY <1>5, <2>1 DEF ToolOK
  <2> QED BY <1>3, <1>4, <1>8, <2>1, <2>2, ErrandTypes, ToolStepInv
<1>9. ASSUME Acceptable(t, m), tool' = [tool EXCEPT ![t].pc = "invoking", ![t].read = m],
             Send(t, k.node, Price(m), {})
      PROVE  ErrandInv'
  <2> PICK l : l = [k EXCEPT !.pc = "invoking", !.read = m]
    OBVIOUS
  <2>1. /\ l \in Tool /\ l.pc = "invoking" /\ l.read = m /\ l.max = k.max /\ l.confirm = k.confirm
        /\ tool' = [tool EXCEPT ![t] = l]
    BY <1>1, <1>7, <1>9, ErrandTypes DEF Tool
  <2>2. /\ call' \in [Errands -> {Idle} \cup Call] /\ held' \in [Errands -> Nat]
        /\ call'[t] \in Call /\ ~Served(call'[t])
        /\ call'[t].amount = Price(m) /\ call'[t].prev = {}
        /\ held'[t] = held[t] + Price(m)
        /\ \A d \in Errands : d # t => call'[d] = call[d] /\ held'[d] = held[d]
        /\ issued' = issued /\ paid' = paid
    BY <1>2, <1>7, <1>9, ErrandTypes, SendDoes
  <2>3. held'[t] = Price(m) /\ paid'[t] = <<>>
    BY <1>5, <1>7, <2>2
  <2>4. (l.max # NoLimit => Price(m) <= l.max) /\ (m.offered /\ m.risky => l.confirm)
    BY <1>9, <2>1 DEF Acceptable, Affordable
  <2>5. call'[t] # Idle
    BY <2>2 DEF Idle, Call
  <2>6. ToolOK(l, call'[t], held'[t], paid'[t], issued)
    <3>1. l # Idle /\ l.pc \notin {"ranked", "refused"}
      BY <2>1 DEF Idle
    <3> QED BY <2>1, <2>2, <2>3, <2>4, <2>5, <3>1 DEF ToolOK
  <2>7. CallOK(t, call'[t], issued)
    BY <2>2 DEF CallOK
  <2> QED BY <1>3, <2>1, <2>2, <2>6, <2>7, ErrandTypes, ToolStepInv
<1> QED BY <1>6, <1>8, <1>9 DEF LockFails

LEMMA FinishInv ==
  ASSUME ErrandInv, NEW t \in Tools, Finish(t)
  PROVE  ErrandInv'
<1> PICK k : k = tool[t]
  OBVIOUS
<1> PICK cl : cl = call[t]
  OBVIOUS
<1>1. k # Idle /\ k.pc = "invoking" /\ k \in Tool /\ Settle(t)
  BY ErrandTypes DEF Finish
<1>2. published' = published /\ comp' = comp
  BY DEF Finish
<1>3. CallOK(t, cl, issued) /\ ToolOK(k, cl, held[t], paid[t], issued)
  BY ErrandTypes DEF ErrandInv
<1>4. cl # Idle /\ held[t] = cl.amount /\ paid[t] = <<>>
  BY <1>1, <1>3 DEF ToolOK
<1>5. /\ Served(cl) /\ cl \in Call /\ call' = call /\ issued' = issued
      /\ held' \in [Errands -> Nat] /\ held'[t] = 0
      /\ paid' \in [Errands -> Seq(Nat \X Nat)]
      /\ paid'[t] = IF issued[cl.receipt].outcome = "success" /\ cl.amount > 0
                    THEN Append(paid[t], <<cl.receipt, cl.amount>>) ELSE paid[t]
      /\ \A d \in Errands : d # t => held'[d] = held[d] /\ paid'[d] = paid[d]
  BY <1>1, <1>4, ErrandTypes, SettleDoes
<1>6. PICK pc \in {"done", "attesting"} : tool' = [tool EXCEPT ![t].pc = pc]
  BY DEF Finish
<1> PICK l : l = [k EXCEPT !.pc = pc]
  OBVIOUS
<1>7. /\ l \in Tool /\ l.pc = pc /\ l.read = k.read /\ l.max = k.max /\ l.confirm = k.confirm
      /\ tool' = [tool EXCEPT ![t] = l]
  BY <1>1, <1>6, ErrandTypes DEF Tool
<1>8. \/ paid'[t] = <<>>
      \/ paid'[t] = <<<<cl.receipt, cl.amount>>>> /\ issued[cl.receipt].outcome = "success"
  BY <1>4, <1>5
<1>9. ToolOK(l, cl, held'[t], paid'[t], issued)
  <2>1. l # Idle /\ l.pc \notin {"ranked", "refused", "invoking"}
    BY <1>7 DEF Idle
  <2>2. /\ cl.prev = {} /\ cl.amount = Price(l.read) /\ (l.max # NoLimit => cl.amount <= l.max)
        /\ (l.read.offered /\ l.read.risky => l.confirm)
    BY <1>3, <1>4, <1>7 DEF ToolOK
  <2> QED BY <1>4, <1>5, <1>8, <2>1, <2>2 DEF ToolOK
<1>10. call'[t] = cl
  BY <1>5
<1> QED BY <1>2, <1>3, <1>5, <1>7, <1>9, <1>10, ErrandTypes, ToolStepInv

(* What ends a call otherwise moves nothing. *)
LEMMA ToolEndsInv ==
  ASSUME ErrandInv, NEW t \in Tools, Attested(t) \/ ToolThrows(t)
  PROVE  ErrandInv'
<1> PICK k : k = tool[t]
  OBVIOUS
<1>1. k # Idle /\ k \in Tool /\ k.pc \in {"ranked", "invoking", "attesting"}
  BY ErrandTypes DEF Attested, ToolThrows
<1>2. PICK pc \in {"done", "threw"} : tool' = [tool EXCEPT ![t].pc = pc] /\ (k.pc # "attesting" => pc = "threw")
  BY DEF Attested, ToolThrows
<1>3. UNCHANGED <<published, comp, call, issued, paid, held>>
  BY DEF Attested, ToolThrows, Throws
<1> PICK l : l = [k EXCEPT !.pc = pc]
  OBVIOUS
<1>4. /\ l \in Tool /\ l.pc = pc /\ l.read = k.read /\ l.max = k.max /\ l.confirm = k.confirm
      /\ tool' = [tool EXCEPT ![t] = l]
  BY <1>1, <1>2, ErrandTypes DEF Tool
<1>5. CallOK(t, call[t], issued) /\ ToolOK(k, call[t], held[t], paid[t], issued)
  BY ErrandTypes DEF ErrandInv
<1>6. ToolOK(l, call[t], held[t], paid[t], issued)
  <2>1. l # Idle /\ l.pc \notin {"ranked", "refused", "invoking"}
    BY <1>4 DEF Idle
  <2> QED BY <1>4, <1>5, <2>1 DEF ToolOK
<1> QED BY <1>3, <1>4, <1>5, <1>6, ErrandTypes, ToolStepInv

----------------------------------------------------------------------------
(* compose.  One more receipt, and one more payment if the step has a      *)
(* price.                                                                  *)
LEMMA PricedUpTo ==
  ASSUME NEW n \in Nat, NEW B, B \subseteq 1..n, NEW i \in B
  PROVE  /\ IsFiniteSet(B) /\ Cardinality(B) \in Nat
         /\ Cardinality({j \in B : j <= i}) \in 1..Cardinality(B)
<1> DEFINE C == {j \in B : j <= i}
<1>1. IsFiniteSet(1..n)
  BY FS_Interval
<1>2. IsFiniteSet(B) /\ C \subseteq B
  BY <1>1, FS_Subset
<1>3. IsFiniteSet(C) /\ Cardinality(C) <= Cardinality(B)
  BY <1>2, FS_Subset
<1>4. Cardinality(B) \in Nat /\ Cardinality(C) \in Nat
  BY <1>2, <1>3, FS_CardinalityType
<1>5. Cardinality(C) # 0
  <2>1. i \in C
    OBVIOUS
  <2> HIDE DEF C
  <2> QED BY <1>3, <2>1, FS_EmptySet
<1> HIDE DEF C
<1>6. Cardinality(C) \in 1..Cardinality(B)
  BY <1>3, <1>4, <1>5
<1> QED BY <1>2, <1>4, <1>6 DEF C

LEMMA PaidStep ==
  ASSUME NEW r \in Seq(Nat), NEW p \in Seq(Nat \X Nat), NEW S \in Plans, Len(r) < Len(S),
         PaidInOrder(p, r, S), NEW x \in Nat, NEW n \in Nat, n = Len(r) + 1
  PROVE  PaidInOrder(IF S[n].pay > 0 THEN Append(p, <<x, S[n].pay>>) ELSE p, Append(r, x), S)
<1> PICK r2 : r2 = Append(r, x)
  OBVIOUS
<1> DEFINE B == {i \in DOMAIN r : S[i].pay > 0}
           D == {i \in DOMAIN r2 : S[i].pay > 0}
<1>1. /\ DOMAIN r = 1..Len(r) /\ DOMAIN r2 = 1..n /\ r2[n] = x /\ Len(r) \in Nat
      /\ \A i \in 1..Len(r) : r2[i] = r[i]
  OBVIOUS
<1>2. n \in 1..Len(S) /\ \A i \in 1..Len(S) : S[i].pay \in Nat
  BY PlanType
<1>3. B \subseteq 1..Len(r) /\ IsFiniteSet(B) /\ Cardinality(B) \in Nat
  <2>1. B \subseteq 1..Len(r)
    BY <1>1
  <2> HIDE DEF B
  <2>2. Len(r) \in Int /\ 1 \in Int
    BY <1>1
  <2>3. IsFiniteSet(1..Len(r))
    BY <2>2, FS_Interval
  <2> QED BY <2>1, <2>3, FS_Subset, FS_CardinalityType
<1>4. /\ Len(p) = Cardinality(B)
      /\ \A i \in B : p[Cardinality({j \in B : j <= i})] = <<r[i], S[i].pay>>
  BY DEF PaidInOrder
<1>5. ASSUME NEW i \in B
      PROVE  Cardinality({j \in B : j <= i}) \in 1..Len(p) /\ r2[i] = r[i] /\ i <= Len(r)
  <2>1. Cardinality({j \in B : j <= i}) \in 1..Cardinality(B)
    <3> HIDE DEF B
    <3> QED BY <1>1, <1>3, <1>5, PricedUpTo
  <2> QED BY <1>1, <1>4, <2>1
<1>6. CASE S[n].pay > 0
  <2> PICK y : y = <<x, S[n].pay>>
    OBVIOUS
  <2>0. y \in Nat \X Nat
    BY <1>2
  <2>1. D = B \cup {n} /\ n \notin B
    BY <1>1, <1>6
  <2>2. Cardinality(D) = Cardinality(B) + 1
    <3> HIDE DEF B, D
    <3> QED BY <1>3, <2>1, FS_AddElement
  <2>3. /\ Len(Append(p, y)) = Len(p) + 1 /\ Append(p, y)[Len(p) + 1] = y
        /\ \A k \in 1..Len(p) : Append(p, y)[k] = p[k]
    BY <2>0
  <2>4. ASSUME NEW i \in B PROVE {j \in D : j <= i} = {j \in B : j <= i}
    BY <1>1, <1>5, <2>1, <2>4
  <2>5. {j \in D : j <= n} = D
    BY <1>1
  <2>6. ASSUME NEW i \in D PROVE Append(p, y)[Cardinality({j \in D : j <= i})] = <<r2[i], S[i].pay>>
    <3>1. CASE i = n
      <4>1. Cardinality({j \in D : j <= i}) = Len(p) + 1
        BY <1>4, <2>2, <2>5, <3>1
      <4> QED BY <1>1, <2>3, <3>1, <4>1
    <3>2. CASE i \in B
      <4>1. Cardinality({j \in D : j <= i}) = Cardinality({j \in B : j <= i})
        BY <2>4, <3>2
      <4> HIDE DEF B, D
      <4>2. Append(p, y)[Cardinality({j \in B : j <= i})] = p[Cardinality({j \in B : j <= i})]
        BY <1>5, <2>3, <3>2
      <4> QED BY <1>4, <1>5, <3>2, <4>1, <4>2
    <3> QED BY <2>1, <2>6, <3>1, <3>2
  <2>7. Len(Append(p, y)) = Cardinality(D)
    BY <1>4, <2>2, <2>3
  <2>8. PaidInOrder(Append(p, y), r2, S)
    BY <2>6, <2>7 DEF PaidInOrder
  <2> QED BY <1>6, <2>8
<1>7. CASE ~(S[n].pay > 0)
  <2>1. D = B
    BY <1>1, <1>7
  <2>2. PaidInOrder(p, r2, S)
    BY <1>4, <1>5, <2>1 DEF PaidInOrder
  <2> QED BY <1>7, <2>2
<1> QED BY <1>6, <1>7

LEMMA ComposeInv ==
  ASSUME ErrandInv, NEW c \in Compositions, NEW steps \in Plans, Compose(c, steps)
  PROVE  ErrandInv'
<1> PICK k : k = [pc |-> "step", steps |-> steps, receipts |-> <<>>]
  OBVIOUS
<1>1. k \in Comp /\ k # Idle /\ k.pc = "step" /\ k.receipts = <<>> /\ k.steps = steps
  BY DEF Comp, Idle
<1>2. comp' = [comp EXCEPT ![c] = k] /\ UNCHANGED <<published, tool, call, issued, paid, held>> /\ comp[c] = Idle
  BY DEF Compose
<1>3. CallOK(c, call[c], issued) /\ CompOK(c, comp[c], call[c], held[c], paid[c], issued)
  BY ErrandTypes DEF ErrandInv
<1>4. call[c] = Idle /\ held[c] = 0 /\ paid[c] = <<>>
  BY <1>2, <1>3 DEF CompOK
<1>5. Len(steps) \in Nat /\ Len(steps) > 0
  BY PlanType
<1>6. ReceiptsOK(c, <<>>, issued)
  BY DEF ReceiptsOK
<1>7. PaidInOrder(<<>>, <<>>, steps)
  <2>1. {i \in DOMAIN <<>> : steps[i].pay > 0} = {}
    OBVIOUS
  <2>2. Cardinality({}) = 0 /\ Len(<<>>) = 0
    BY FS_EmptySet
  <2> QED BY <2>1, <2>2 DEF PaidInOrder
<1>8. Between(k, call[c], held[c])
  BY <1>1, <1>4 DEF Between
<1>9. CompOK(c, k, call[c], held[c], paid[c], issued)
  BY <1>1, <1>4, <1>5, <1>6, <1>7, <1>8 DEF CompOK
<1>10. \A i : ~Keeps(comp[c], call[c], i)
  BY <1>2 DEF Keeps
<1> QED BY <1>1, <1>2, <1>3, <1>9, <1>10, ErrandTypes, CompStepInv

LEMMA StepInv ==
  ASSUME ErrandInv, NEW c \in Compositions, Step(c)
  PROVE  ErrandInv'
<1> PICK k : k = comp[c]
  OBVIOUS
<1> PICK r : r = k.receipts
  OBVIOUS
<1> PICK S : S = k.steps
  OBVIOUS
<1>1. k # Idle /\ k.pc = "step" /\ k \in Comp
  BY ErrandTypes DEF Step, At
<1>2. r \in Seq(Nat) /\ S \in Plans /\ Len(r) \in Nat
  BY <1>1 DEF Comp
<1>3. published' = published /\ tool' = tool
  BY DEF Step
<1>4. CallOK(c, call[c], issued) /\ CompOK(c, k, call[c], held[c], paid[c], issued)
  BY ErrandTypes DEF ErrandInv
<1>5. /\ Len(r) < Len(S) /\ ReceiptsOK(c, r, issued) /\ PaidInOrder(paid[c], r, S)
      /\ Between(k, call[c], held[c])
  BY <1>1, <1>4 DEF CompOK, UnderWay
<1> PICK n : n = Len(r) + 1
  OBVIOUS
<1>6. n \in 1..Len(S) /\ S[n].node \in Nodes /\ S[n].pay \in Nat /\ Len(S) \in Nat
  <2>1. Len(S) \in Nat /\ \A i \in 1..Len(S) : S[i].node \in Nodes /\ S[i].pay \in Nat
    BY <1>2, PlanType
  <2>2. n \in 1..Len(S)
    BY <1>2, <1>5, <2>1
  <2> QED BY <2>1, <2>2
<1>7. \/ Send(c, S[n].node, S[n].pay, linkTo(c)) /\ comp' = [comp EXCEPT ![c].pc = "waiting"]
      \/ UNCHANGED <<call, issued, paid, held>> /\ comp' = [comp EXCEPT ![c].pc = "threw"]
  BY DEF Step, LockFails
<1>8. linkTo(c) = LinkBefore(r, n) /\ linkTo(c) \in SUBSET Nat
  BY <1>2 DEF linkTo, LinkBefore
<1>9. ASSUME NEW pc \in {"waiting", "threw"}, NEW l, l = [k EXCEPT !.pc = pc]
      PROVE  /\ l \in Comp /\ l # Idle /\ l.pc = pc /\ l.receipts = r /\ l.steps = S
             /\ [comp EXCEPT ![c].pc = pc] = [comp EXCEPT ![c] = l]
  BY <1>1, <1>9, ErrandTypes DEF Comp, Idle
<1>10. CASE UNCHANGED <<call, issued, paid, held>> /\ comp' = [comp EXCEPT ![c].pc = "threw"]
  <2> PICK l : l = [k EXCEPT !.pc = "threw"]
    OBVIOUS
  <2>1. /\ l \in Comp /\ l # Idle /\ l.pc = "threw" /\ l.receipts = r /\ l.steps = S
        /\ comp' = [comp EXCEPT ![c] = l]
    BY <1>9, <1>10
  <2>2. Between(l, call[c], held[c])
    BY <1>5, <2>1 DEF Between
  <2>3. CompOK(c, l, call[c], held[c], paid[c], issued)
    BY <1>2, <1>5, <1>6, <2>1, <2>2 DEF CompOK
  <2>4. \A i : Keeps(k, call[c], i) => Keeps(l, call[c], i)
    BY <2>1 DEF Keeps
  <2> QED BY <1>3, <1>4, <1>10, <2>1, <2>3, <2>4, ErrandTypes, CompStepInv
<1>11. CASE Send(c, S[n].node, S[n].pay, linkTo(c)) /\ comp' = [comp EXCEPT ![c].pc = "waiting"]
  <2> PICK l : l = [k EXCEPT !.pc = "waiting"]
    OBVIOUS
  <2>1. /\ l \in Comp /\ l # Idle /\ l.pc = "waiting" /\ l.receipts = r /\ l.steps = S
        /\ comp' = [comp EXCEPT ![c] = l]
    BY <1>9, <1>11
  <2>2. /\ call' \in [Errands -> {Idle} \cup Call] /\ held' \in [Errands -> Nat]
        /\ call'[c] \in Call /\ ~Served(call'[c])
        /\ call'[c].amount = S[n].pay /\ call'[c].prev = linkTo(c)
        /\ held'[c] = held[c] + S[n].pay
        /\ \A d \in Errands : d # c => call'[d] = call[d] /\ held'[d] = held[d]
        /\ issued' = issued /\ paid' = paid
    BY <1>6, <1>8, <1>11, ErrandTypes, SendDoes
  <2>3. held'[c] = S[n].pay
    BY <1>5, <1>6, <2>2 DEF Between
  <2>4. call'[c] # Idle
    BY <2>2 DEF Idle, Call
  <2>5. UnderWay(l, call'[c], held'[c])
    BY <1>2, <1>5, <1>8, <2>1, <2>2, <2>3, <2>4 DEF UnderWay
  <2>6. CompOK(c, l, call'[c], held'[c], paid'[c], issued)
    <3>1. /\ Len(r) < Len(S) /\ Len(r) \in Nat /\ Len(S) \in Nat
          /\ ReceiptsOK(c, r, issued) /\ PaidInOrder(paid'[c], r, S)
      BY <1>2, <1>5, <1>6, <2>2
    <3> QED BY <2>1, <2>5, <3>1 DEF CompOK
  <2>7. CallOK(c, call'[c], issued)
    BY <2>2 DEF CallOK
  <2>8. ASSUME NEW i, Keeps(k, call[c], i) PROVE Keeps(l, call'[c], i)
    <3>1. \E j \in 1..Len(r) : r[j] = i
      <4>1. CASE r = <<>>
        BY <1>5, <2>8, <4>1 DEF Keeps, Between, Served
      <4>2. CASE r # <<>>
        <5>1. Len(r) \in 1..Len(r)
          BY <1>2, <4>2, NotEmpty
        <5> QED BY <1>5, <2>8, <4>2, <5>1 DEF Keeps, Between
      <4> QED BY <4>1, <4>2
    <3> QED BY <2>1, <3>1 DEF Keeps
  <2> QED BY <1>3, <2>1, <2>2, <2>6, <2>7, <2>8, ErrandTypes, CompStepInv
<1> QED BY <1>7, <1>10, <1>11

LEMMA ReceiptsStep ==
  ASSUME NEW c, NEW r \in Seq(Nat), NEW iss, ReceiptsOK(c, r, iss), NEW x \in Nat, NEW n \in Nat, n = Len(r) + 1,
         x \in DOMAIN iss, iss[x].for = c, iss[x].outcome = "success", iss[x].prev = LinkBefore(r, n),
         \A i \in 1..Len(r) : r[i] < x
  PROVE  ReceiptsOK(c, Append(r, x), iss)
<1> PICK r2 : r2 = Append(r, x)
  OBVIOUS
<1>1. Len(r2) = n /\ r2[n] = x /\ Len(r) \in Nat /\ \A i \in 1..Len(r) : r2[i] = r[i]
  OBVIOUS
<1>2. ASSUME NEW i \in 1..n PROVE LinkBefore(r2, i) = LinkBefore(r, i)
  <2>1. CASE i = 1
    BY <2>1 DEF LinkBefore
  <2>2. CASE i # 1
    <3>1. i - 1 \in 1..Len(r)
      BY <1>1, <2>2
    <3> QED BY <1>1, <2>2, <3>1 DEF LinkBefore
  <2> QED BY <2>1, <2>2
<1>3. ASSUME NEW i \in 1..n
      PROVE  /\ r2[i] \in DOMAIN iss /\ iss[r2[i]].for = c /\ iss[r2[i]].outcome = "success"
             /\ iss[r2[i]].prev = LinkBefore(r2, i)
  <2>1. CASE i = n
    BY <1>1, <1>2, <2>1
  <2>2. CASE i # n
    <3>1. i \in 1..Len(r)
      BY <1>1, <2>2
    <3> QED BY <1>1, <1>2, <3>1 DEF ReceiptsOK
  <2> QED BY <2>1, <2>2
<1>4. ASSUME NEW i \in 1..n, NEW j \in 1..n, i < j PROVE r2[i] < r2[j]
  <2>1. i \in 1..Len(r)
    BY <1>1, <1>4
  <2>2. CASE j = n
    BY <1>1, <2>1, <2>2
  <2>3. CASE j # n
    <3>1. j \in 1..Len(r)
      BY <1>1, <2>3
    <3> QED BY <1>1, <1>4, <2>1, <3>1 DEF ReceiptsOK
  <2> QED BY <2>2, <2>3
<1>5. ReceiptsOK(c, r2, iss)
  BY <1>1, <1>3, <1>4 DEF ReceiptsOK
<1> QED BY <1>5

LEMMA StepEndsInv ==
  ASSUME ErrandInv, NEW c \in Compositions, StepEnds(c)
  PROVE  ErrandInv'
<1> PICK k : k = comp[c]
  OBVIOUS
<1> PICK cl : cl = call[c]
  OBVIOUS
<1> PICK r : r = k.receipts
  OBVIOUS
<1> PICK S : S = k.steps
  OBVIOUS
<1> PICK x : x = cl.receipt
  OBVIOUS
<1>1. k # Idle /\ k.pc = "waiting" /\ k \in Comp /\ Settle(c)
  BY ErrandTypes DEF StepEnds, At
<1>2. r \in Seq(Nat) /\ S \in Plans /\ Len(r) \in Nat
  BY <1>1 DEF Comp
<1>3. published' = published /\ tool' = tool
  BY DEF StepEnds
<1>4. CallOK(c, cl, issued) /\ CompOK(c, k, cl, held[c], paid[c], issued)
  BY ErrandTypes DEF ErrandInv
<1>5. /\ Len(r) < Len(S) /\ ReceiptsOK(c, r, issued) /\ PaidInOrder(paid[c], r, S)
      /\ UnderWay(k, cl, held[c])
  BY <1>1, <1>4 DEF CompOK, Between
<1> PICK n : n = Len(r) + 1
  OBVIOUS
<1>6. n \in Nat /\ n \in 1..Len(S) /\ Len(S) \in Nat /\ S[n].pay \in Nat
  <2>1. Len(S) \in Nat /\ \A i \in 1..Len(S) : S[i].pay \in Nat
    BY <1>2, PlanType
  <2>2. n \in 1..Len(S)
    BY <1>2, <1>5, <2>1
  <2> QED BY <2>1, <2>2
<1>7. /\ cl.prev = LinkBefore(r, n) /\ cl.amount = S[n].pay /\ held[c] = cl.amount
      /\ Served(cl) => \A i \in 1..Len(r) : r[i] < x
  BY <1>1, <1>5 DEF UnderWay
<1>8. /\ Served(cl) /\ cl \in Call /\ call' = call /\ issued' = issued
      /\ held' \in [Errands -> Nat] /\ held'[c] = 0
      /\ paid' \in [Errands -> Seq(Nat \X Nat)]
      /\ paid'[c] = IF issued[x].outcome = "success" /\ S[n].pay > 0
                    THEN Append(paid[c], <<x, S[n].pay>>) ELSE paid[c]
      /\ \A d \in Errands : d # c => held'[d] = held[d] /\ paid'[d] = paid[d]
  BY <1>1, <1>7, ErrandTypes, SettleDoes
<1>9. x \in Nat /\ x \in DOMAIN issued /\ issued[x].for = c /\ issued[x].prev = cl.prev /\ cl # Idle
  BY <1>4, <1>8 DEF CallOK, Call, Served
<1>10. CASE issued[x].outcome # "success"
  <2> PICK l : l = [k EXCEPT !.pc = "threw"]
    OBVIOUS
  <2>1. /\ l \in Comp /\ l # Idle /\ l.pc = "threw" /\ l.receipts = r /\ l.steps = S
        /\ comp' = [comp EXCEPT ![c] = l]
    BY <1>1, <1>10, ErrandTypes DEF StepEnds, Outcome, Comp, Idle
  <2>2. UnderWay(l, cl, held'[c])
    BY <1>5, <1>8, <2>1 DEF UnderWay
  <2>3. paid'[c] = paid[c]
    BY <1>8, <1>10
  <2>4. CompOK(c, l, cl, held'[c], paid'[c], issued)
    BY <1>2, <1>5, <1>6, <2>1, <2>2, <2>3 DEF CompOK
  <2>5. \A i : Keeps(k, cl, i) => Keeps(l, cl, i)
    BY <2>1 DEF Keeps
  <2> QED BY <1>3, <1>4, <1>8, <2>1, <2>4, <2>5, ErrandTypes, CompStepInv
<1>11. CASE issued[x].outcome = "success"
  <2> PICK r2 : r2 = Append(r, x)
    OBVIOUS
  <2>0. r2 \in Seq(Nat) /\ Len(r2) = n /\ r2[n] = x /\ r2 # <<>> /\ \A i \in 1..Len(r) : r2[i] = r[i]
    BY <1>2, <1>9
  <2> PICK pc \in {"done", "step"} : pc = IF n = Len(S) THEN "done" ELSE "step"
    OBVIOUS
  <2> PICK l : l = [k EXCEPT !.receipts = r2, !.pc = pc]
    OBVIOUS
  <2>1. l \in Comp /\ l # Idle /\ l.pc = pc /\ l.receipts = r2 /\ l.steps = S
    BY <1>1, <2>0 DEF Comp, Idle
  <2>2. comp' = [comp EXCEPT ![c] = l]
    BY <1>11, <2>0, ErrandTypes DEF StepEnds, Outcome
  <2>3. ReceiptsOK(c, r2, issued)
    <3>1. ReceiptsOK(c, Append(r, x), issued)
      <4>1. issued[x].for = c /\ issued[x].outcome = "success" /\ issued[x].prev = LinkBefore(r, n)
        BY <1>7, <1>9, <1>11
      <4>2. \A i \in 1..Len(r) : r[i] < x
        BY <1>7, <1>8
      <4>3. ReceiptsOK(c, r, issued) /\ x \in DOMAIN issued /\ x \in Nat /\ n \in Nat /\ r \in Seq(Nat)
        BY <1>2, <1>5, <1>6, <1>9, Zenon
      <4> QED BY <4>1, <4>2, <4>3, ReceiptsStep
    <3> QED BY <3>1
  <2>4. PaidInOrder(paid'[c], r2, S)
    <3>1. paid[c] \in Seq(Nat \X Nat)
      BY ErrandTypes
    <3>2. PaidInOrder(IF S[n].pay > 0 THEN Append(paid[c], <<x, S[n].pay>>) ELSE paid[c], Append(r, x), S)
      <4>1. r \in Seq(Nat) /\ S \in Plans /\ Len(r) < Len(S) /\ PaidInOrder(paid[c], r, S)
        BY <1>2, <1>5
      <4>2. x \in Nat /\ n \in Nat
        BY <1>6, <1>9
      <4> QED BY <3>1, <4>1, <4>2, PaidStep
    <3> QED BY <1>8, <1>11, <3>2
  <2>5. Between(l, cl, held'[c])
    <3>1. pc # "waiting" /\ held'[c] = 0 /\ Served(cl) /\ cl.receipt = r2[Len(r2)] /\ r2 # <<>>
      BY <1>8, <2>0
    <3> QED BY <2>1, <3>1 DEF Between
  <2>6. CompOK(c, l, cl, held'[c], paid'[c], issued)
    <3>1. n <= Len(S) /\ (pc \in {"step", "waiting"} => n < Len(S)) /\ (pc = "done" => n = Len(S))
      BY <1>6
    <3> QED BY <2>0, <2>1, <2>3, <2>4, <2>5, <3>1 DEF CompOK
  <2>7. ASSUME NEW i, Keeps(k, cl, i) PROVE Keeps(l, cl, i)
    <3>1. CASE Served(cl) /\ cl.receipt = i
      BY <2>1, <3>1 DEF Keeps
    <3>2. CASE \E j \in 1..Len(r) : r[j] = i
      <4>1. PICK j \in 1..Len(r) : r[j] = i
        BY <3>2
      <4>2. j \in 1..Len(r2) /\ r2[j] = i
        <5>1. Len(r) \in Nat /\ n = Len(r) + 1
          BY <1>2
        <5> QED BY <2>0, <4>1, <5>1
      <4> QED BY <2>1, <4>2 DEF Keeps
    <3> QED BY <2>7, <3>1, <3>2 DEF Keeps
  <2>8. /\ CallOK(c, call'[c], issued) /\ CompOK(c, l, call'[c], held'[c], paid'[c], issued)
        /\ \A i : Keeps(comp[c], call[c], i) => Keeps(l, call'[c], i)
    BY <1>4, <1>8, <2>6, <2>7
  <2>9. /\ call' \in [Errands -> {Idle} \cup Call] /\ held' \in [Errands -> Nat]
        /\ paid' \in [Errands -> Seq(Nat \X Nat)]
        /\ \A d \in Errands : d # c => call'[d] = call[d] /\ held'[d] = held[d] /\ paid'[d] = paid[d]
        /\ published' = published /\ issued' = issued /\ tool' = tool
    BY <1>3, <1>8, ErrandTypes
  <2>10. l \in {Idle} \cup Comp
    BY <2>1
  <2> QED BY <2>2, <2>8, <2>9, <2>10, CompStepInv
<1> QED BY <1>10, <1>11

LEMMA StepThrowsInv ==
  ASSUME ErrandInv, NEW c \in Compositions, StepThrows(c)
  PROVE  ErrandInv'
<1> PICK k : k = comp[c]
  OBVIOUS
<1> PICK l : l = [k EXCEPT !.pc = "threw"]
  OBVIOUS
<1>1. k # Idle /\ k.pc = "waiting" /\ k \in Comp
  BY ErrandTypes DEF StepThrows, At
<1>2. UNCHANGED <<published, tool, call, issued, paid, held>>
  BY DEF StepThrows, Throws
<1>3. CallOK(c, call[c], issued) /\ CompOK(c, k, call[c], held[c], paid[c], issued)
  BY ErrandTypes DEF ErrandInv
<1>4. /\ l \in Comp /\ l # Idle /\ l.pc = "threw" /\ l.receipts = k.receipts /\ l.steps = k.steps
      /\ comp' = [comp EXCEPT ![c] = l]
  BY <1>1, ErrandTypes DEF StepThrows, Comp, Idle
<1>5. UnderWay(k, call[c], held[c]) /\ UnderWay(l, call[c], held[c])
  BY <1>1, <1>3, <1>4 DEF CompOK, Between, UnderWay
<1>6. CompOK(c, l, call[c], held[c], paid[c], issued)
  BY <1>1, <1>3, <1>4, <1>5 DEF CompOK
<1>7. \A i : Keeps(k, call[c], i) => Keeps(l, call[c], i)
  BY <1>4 DEF Keeps
<1> QED BY <1>2, <1>3, <1>4, <1>6, <1>7, ErrandTypes, CompStepInv

----------------------------------------------------------------------------
(* The nodes. *)
LEMMA ServeInv ==
  ASSUME ErrandInv, NEW e \in Errands, NEW outcome \in Outcomes, Serve(e, outcome)
  PROVE  ErrandInv'
<1> PICK cl : cl = call[e]
  OBVIOUS
<1> PICK m : m = InForce(cl.node)
  OBVIOUS
<1> PICK n : n = Len(issued) + 1
  OBVIOUS
<1> PICK ans : ans = [outcome |-> outcome, prev |-> cl.prev, for |-> e]
  OBVIOUS
<1> PICK cl2 : cl2 = [cl EXCEPT !.pc = "served", !.receipt = n, !.terms = m]
  OBVIOUS
<1>1. cl # Idle /\ cl.pc = "sent" /\ cl \in Call /\ ~Served(cl)
  BY ErrandTypes DEF Serve, Served
<1>2. cl.node \in Nodes /\ cl.amount \in Nat /\ cl.prev \in SUBSET Nat
  BY <1>1 DEF Call
<1>3. m \in Terms
  BY <1>2, PublishedType DEF ErrandInv
<1>4. issued \in Seq(Receipt) /\ Len(issued) \in Nat /\ n \in Nat /\ DOMAIN issued = 1..Len(issued)
  BY DEF ErrandInv, TypeOK
<1>5. ans \in Receipt /\ ans.outcome = outcome /\ ans.prev = cl.prev /\ ans.for = e
  BY <1>2 DEF Receipt
<1>6. /\ cl2 \in Call /\ cl2 # Idle /\ Served(cl2) /\ cl2.receipt = n /\ cl2.terms = m
      /\ cl2.amount = cl.amount /\ cl2.prev = cl.prev
  BY <1>1, <1>3, <1>4 DEF Call, Idle, Served
<1>7. /\ outcome # "rejected" => m.price <= cl.amount
      /\ issued' = Append(issued, ans)
      /\ UNCHANGED <<published, tool, comp, paid, held>>
  BY DEF Serve
<1>8. call' = [call EXCEPT ![e] = cl2]
  BY ErrandTypes DEF Serve
<1>9. /\ issued' \in Seq(Receipt) /\ DOMAIN issued' = 1..n /\ issued'[n] = ans
      /\ \A i \in 1..Len(issued) : issued'[i] = issued[i]
  BY <1>4, <1>5, <1>7
<1>10. Extends(issued, issued')
  BY <1>4, <1>9 DEF Extends
<1>11. /\ call' \in [Errands -> {Idle} \cup Call] /\ call'[e] = cl2
       /\ \A d \in Errands : d # e => call'[d] = call[d]
  BY <1>6, <1>8, ErrandTypes
<1>12. TypeOK'
  BY <1>7, <1>9, <1>11 DEF ErrandInv, TypeOK
<1>13. Tools \subseteq Errands /\ Compositions \subseteq Errands /\ Tools \cap Compositions = {}
  BY ErrandAssumption DEF Errands
<1>14. ASSUME NEW d \in Errands PROVE CallOK(d, call'[d], issued')
  <2>1. CASE d = e
    <3>1. n \in DOMAIN issued'
      BY <1>4, <1>9
    <3>2. CallOK(e, cl2, issued')
      BY <1>5, <1>6, <1>7, <1>9, <3>1 DEF CallOK
    <3> QED BY <1>11, <2>1, <3>2
  <2>2. CASE d # e
    <3>1. CallOK(d, call[d], issued)
      BY DEF ErrandInv
    <3>2. CallOK(d, call[d], issued')
      BY <1>10, <3>1, CallKeeps
    <3> QED BY <1>11, <2>2, <3>2
  <2> QED BY <2>1, <2>2
<1>15. ASSUME NEW t \in Tools PROVE ToolOK(tool[t], call'[t], held[t], paid[t], issued')
  <2>1. CallOK(t, call[t], issued) /\ ToolOK(tool[t], call[t], held[t], paid[t], issued)
    BY <1>13 DEF ErrandInv
  <2>2. CASE t # e
    <3>1. ToolOK(tool[t], call[t], held[t], paid[t], issued')
      BY <1>10, <2>1, ToolKeeps
    <3> QED BY <1>11, <1>13, <2>2, <3>1
  <2>3. CASE t = e
    <3>1. ToolOK(tool[t], cl2, held[t], paid[t], issued')
      BY <1>1, <1>6, <2>1, <2>3 DEF ToolOK
    <3> QED BY <1>11, <2>3, <3>1
  <2> QED BY <2>2, <2>3
<1>16. ASSUME NEW c \in Compositions PROVE CompOK(c, comp[c], call'[c], held[c], paid[c], issued')
  <2>1. CompOK(c, comp[c], call[c], held[c], paid[c], issued)
    BY DEF ErrandInv
  <2>2. CompOK(c, comp[c], call[c], held[c], paid[c], issued')
    BY <1>10, <2>1, CompKeeps
  <2>3. CASE c # e
    BY <1>11, <1>13, <2>2, <2>3
  <2>4. CASE c = e
    <3> PICK k : k = comp[c]
      OBVIOUS
    <3>1. k # Idle /\ UnderWay(k, cl, held[c]) /\ ReceiptsOK(c, k.receipts, issued)
      BY <1>1, <2>1, <2>4 DEF CompOK, Between
    <3>2. \A i \in 1..Len(k.receipts) : k.receipts[i] < n
      BY <1>4, <3>1 DEF ReceiptsOK
    <3>3. UnderWay(k, cl2, held[c])
      BY <1>6, <3>1, <3>2 DEF UnderWay
    <3>4. CompOK(c, k, cl2, held[c], paid[c], issued')
      BY <2>2, <3>1, <3>3 DEF CompOK
    <3> QED BY <1>11, <2>4, <3>4
  <2> QED BY <2>3, <2>4
<1>17. IssuedOK'
  <2> SUFFICES ASSUME NEW i \in 1..n
               PROVE  /\ issued'[i].for \in Tools => issued'[i].prev = {}
                      /\ issued'[i].for \in Compositions => Keeps(comp[issued'[i].for], call'[issued'[i].for], i)
    BY <1>7, <1>9 DEF IssuedOK
  <2>1. CASE i = n
    <3>1. ASSUME e \in Tools PROVE cl.prev = {}
      <4>1. ToolOK(tool[e], cl, held[e], paid[e], issued)
        BY <3>1 DEF ErrandInv
      <4> QED BY <1>1, <4>1 DEF ToolOK
    <3>2. ASSUME e \in Compositions PROVE Keeps(comp[e], cl2, n)
      <4>1. CompOK(e, comp[e], cl, held[e], paid[e], issued)
        BY <3>2 DEF ErrandInv
      <4>2. comp[e] # Idle
        BY <1>1, <4>1 DEF CompOK
      <4> QED BY <1>6, <4>2 DEF Keeps
    <3> QED BY <1>5, <1>9, <1>11, <2>1, <3>1, <3>2
  <2>2. CASE i # n
    <3>1. i \in DOMAIN issued /\ issued'[i] = issued[i]
      BY <1>4, <1>9, <2>2
    <3>2. ASSUME NEW c \in Compositions, Keeps(comp[c], call[c], i) PROVE Keeps(comp[c], call'[c], i)
      <4>1. CASE c = e
        BY <1>1, <3>2, <4>1 DEF Keeps
      <4>2. CASE c # e
        BY <1>11, <1>13, <3>2, <4>2
      <4> QED BY <4>1, <4>2
    <3> QED BY <3>1, <3>2 DEF ErrandInv, IssuedOK
  <2> QED BY <2>1, <2>2
<1> QED BY <1>7, <1>12, <1>14, <1>15, <1>16, <1>17 DEF ErrandInv

LEMMA DeployInv ==
  ASSUME ErrandInv, NEW n \in Nodes, NEW m \in Terms, Deploy(n, m)
  PROVE  ErrandInv'
<1>1. published \in [Nodes -> Seq(Terms)]
  BY DEF ErrandInv, TypeOK
<1>2. published' = [published EXCEPT ![n] = Append(@, m)] /\ UNCHANGED <<tool, comp, call, issued, paid, held>>
  BY DEF Deploy
<1>3. Append(published[n], m) \in Seq(Terms) /\ Append(published[n], m) # <<>>
  BY <1>1
<1>4. published' \in [Nodes -> Seq(Terms)] /\ \A d \in Nodes : published'[d] # <<>>
  BY <1>1, <1>2, <1>3 DEF ErrandInv
<1>5. TypeOK'
  BY <1>2, <1>4 DEF ErrandInv, TypeOK
<1> QED BY <1>2, <1>4, <1>5 DEF ErrandInv, IssuedOK

LEMMA ErrandInitInv == Init => ErrandInv
<1> SUFFICES ASSUME Init PROVE ErrandInv
  OBVIOUS
<1>1. published \in [Nodes -> {<<m>> : m \in Terms}]
  BY DEF Init
<1>2. \A n \in Nodes : published[n] \in Seq(Terms) /\ published[n] # <<>>
  <2> SUFFICES ASSUME NEW n \in Nodes PROVE published[n] \in Seq(Terms) /\ published[n] # <<>>
    OBVIOUS
  <2>1. PICK m \in Terms : published[n] = <<m>>
    BY <1>1
  <2> QED BY <2>1
<1>3. published \in [Nodes -> Seq(Terms)]
  BY <1>1, <1>2
<1>4. /\ tool = [t \in Tools |-> Idle] /\ comp = [c \in Compositions |-> Idle]
      /\ call = [e \in Errands |-> Idle] /\ issued = <<>>
      /\ paid = [e \in Errands |-> <<>>] /\ held = [e \in Errands |-> 0]
      /\ Tools \subseteq Errands /\ Compositions \subseteq Errands
  BY DEF Init, Errands
<1>5. TypeOK
  <2>1. issued \in Seq(Receipt) /\ <<>> \in Seq(Nat \X Nat)
    BY <1>4
  <2> QED BY <1>3, <1>4, <2>1 DEF TypeOK
<1>6. IssuedOK /\ \A e \in Errands : CallOK(e, call[e], issued)
  BY <1>4 DEF IssuedOK, CallOK, Served
<1>7. /\ \A t \in Tools : ToolOK(tool[t], call[t], held[t], paid[t], issued)
      /\ \A c \in Compositions : CompOK(c, comp[c], call[c], held[c], paid[c], issued)
  BY <1>4 DEF ToolOK, CompOK
<1> QED BY <1>2, <1>5, <1>6, <1>7 DEF ErrandInv

(* The invariant is inductive. *)
LEMMA ErrandNextInv == ErrandInv /\ [Next]_vars => ErrandInv'
<1> SUFFICES ASSUME ErrandInv, [Next]_vars PROVE ErrandInv'
  OBVIOUS
<1>1. CASE \E t \in Tools, max \in Maxima \cup {NoLimit}, confirm \in BOOLEAN, n \in Nodes : Invoke(t, max, confirm, n)
  BY <1>1, InvokeInv
<1>2. CASE \E t \in Tools : Fetch(t) \/ Finish(t) \/ Attested(t) \/ ToolThrows(t)
  BY <1>2, FetchInv, FinishInv, ToolEndsInv
<1>3. CASE \E c \in Compositions, steps \in Plans : Compose(c, steps)
  BY <1>3, ComposeInv
<1>4. CASE \E c \in Compositions : Step(c) \/ StepEnds(c) \/ StepThrows(c)
  BY <1>4, StepInv, StepEndsInv, StepThrowsInv
<1>5. CASE \E e \in Errands, outcome \in Outcomes : Serve(e, outcome)
  BY <1>5, ServeInv
<1>6. CASE \E n \in Nodes, m \in Terms : Deploy(n, m)
  BY <1>6, DeployInv
<1>7. CASE UNCHANGED vars
  <2>1. UNCHANGED <<published, tool, comp, call, issued, paid, held>>
    BY <1>7 DEF vars
  <2>2. TypeOK'
    BY <2>1 DEF ErrandInv, TypeOK
  <2> QED BY <2>1, <2>2 DEF ErrandInv, IssuedOK
<1> QED BY <1>1, <1>2, <1>3, <1>4, <1>5, <1>6, <1>7 DEF Next

(* TYPES, for every instance: what agents, nodes and rails keep of errands. *)
THEOREM ErrandTypeCorrect == Spec => []TypeOK
<1>1. ErrandInv => TypeOK
  BY DEF ErrandInv
<1> QED BY <1>1, ErrandInitInv, ErrandNextInv, PTL DEF Spec

----------------------------------------------------------------------------
(* What the invariant says of the tool and of compositions. *)
LEMMA ToolIsAsAgreed == ErrandInv => AsAgreed
<1> SUFFICES ASSUME ErrandInv, NEW t \in Tools, tool[t] # Idle
             PROVE  LET spent == {paid[t][i] : i \in DOMAIN paid[t]} IN
                    /\ Len(paid[t]) <= 1 /\ (paid[t] # <<>> => held[t] = 0)
                    /\ tool[t].max # NoLimit => held[t] <= tool[t].max /\ \A x \in spent : x[2] <= tool[t].max
                    /\ \A x \in spent :
                         /\ issued[x[1]].outcome = "success" /\ issued[x[1]].for = t
                         /\ x[2] = Price(tool[t].read) /\ call[t].terms.price <= x[2]
                    /\ Has(t) /\ Outcome(t) # "rejected" /\ ~tool[t].confirm =>
                         ~(tool[t].read.offered /\ tool[t].read.risky)
  BY DEF AsAgreed
<1> PICK k : k = tool[t]
  OBVIOUS
<1> PICK cl : cl = call[t]
  OBVIOUS
<1> PICK h : h = held[t]
  OBVIOUS
<1> PICK p : p = paid[t]
  OBVIOUS
<1> DEFINE spent == {p[i] : i \in DOMAIN p}
<1>1. CallOK(t, cl, issued) /\ ToolOK(k, cl, h, p, issued)
  BY ErrandTypes DEF ErrandInv
<1>2. k.max # NoLimit => k.max \in Nat
  <2>1. k.max \in Maxima \cup {NoLimit}
    BY ErrandTypes DEF Tool
  <2>2. Maxima \subseteq Nat
    BY ErrandAssumption
  <2> QED BY <2>1, <2>2
<1>3. cl # Idle => cl.amount \in Nat
  BY ErrandTypes DEF Call
<1>4. CASE p = <<>>
  <2>1. Len(p) = 0 /\ spent = {}
    BY <1>4
  <2>2. k.max # NoLimit => h <= k.max
    BY <1>1, <1>2, <1>3, <1>4 DEF ToolOK
  <2>3. Has(t) /\ ~k.confirm => ~(k.read.offered /\ k.read.risky)
    BY <1>1 DEF ToolOK, Has
  <2> QED BY <1>4, <2>1, <2>2, <2>3
<1>5. CASE p # <<>>
  <2>1. /\ cl # Idle /\ h = 0 /\ p = <<<<cl.receipt, cl.amount>>>> /\ Served(cl)
        /\ issued[cl.receipt].outcome = "success" /\ cl.amount = Price(k.read)
        /\ k.max # NoLimit => cl.amount <= k.max
        /\ k.read.offered /\ k.read.risky => k.confirm
    BY <1>1, <1>5 DEF ToolOK
  <2> PICK x : x = <<cl.receipt, cl.amount>>
    OBVIOUS
  <2>2. Len(p) = 1 /\ spent = {x}
    BY <2>1
  <2>3. x[1] = cl.receipt /\ x[2] = cl.amount
    OBVIOUS
  <2>4. issued[cl.receipt].for = t /\ cl.terms.price <= cl.amount
    BY <1>1, <2>1 DEF CallOK
  <2>5. k.max # NoLimit => h <= k.max
    BY <1>2, <2>1
  <2> QED BY <2>1, <2>2, <2>3, <2>4, <2>5
<1> QED BY <1>4, <1>5

LEMMA CompositionPays == ErrandInv => PaysForDelivered
<1> SUFFICES ASSUME ErrandInv, NEW c \in Compositions, comp[c] # Idle
             PROVE  LET S == comp[c].steps
                        r == comp[c].receipts
                        priced == {i \in DOMAIN r : S[i].pay > 0}
                    IN  /\ Len(paid[c]) = Cardinality(priced)
                        /\ \A i \in priced : paid[c][Cardinality({j \in priced : j <= i})] = <<r[i], S[i].pay>>
                        /\ \A i \in DOMAIN r : issued[r[i]].outcome = "success"
                        /\ held[c] > 0 => Len(r) < Len(S) /\ held[c] = S[Len(r) + 1].pay
  BY DEF PaysForDelivered
<1> PICK k : k = comp[c]
  OBVIOUS
<1> PICK r : r = k.receipts
  OBVIOUS
<1> PICK S : S = k.steps
  OBVIOUS
<1>1. CompOK(c, k, call[c], held[c], paid[c], issued)
  BY DEF ErrandInv
<1>2. PaidInOrder(paid[c], r, S) /\ ReceiptsOK(c, r, issued)
  BY <1>1 DEF CompOK
<1>3. k \in Comp /\ r \in Seq(Nat) /\ DOMAIN r = 1..Len(r)
  BY ErrandTypes DEF Comp
<1>4. \A i \in DOMAIN r : issued[r[i]].outcome = "success"
  BY <1>2, <1>3 DEF ReceiptsOK
<1>5. held[c] > 0 => Len(r) < Len(S) /\ held[c] = S[Len(r) + 1].pay
  BY <1>1 DEF CompOK, Between, UnderWay
<1> QED BY <1>2, <1>4, <1>5 DEF PaidInOrder

(* NO SURPRISE FOR THE CALLER OF THE TOOL, for any terms, any number of    *)
(* redeployments and any number of calls at a time.                        *)
THEOREM CallersAreNotSurprised == Spec => []AsAgreed
<1> QED BY ToolIsAsAgreed, ErrandInitInv, ErrandNextInv, PTL DEF Spec

(* PAID FOR WHAT WAS DELIVERED, for compositions of any number of steps,    *)
(* wherever they end.                                                      *)
THEOREM DeliveredIsPaid == Spec => []PaysForDelivered
<1> QED BY CompositionPays, ErrandInitInv, ErrandNextInv, PTL DEF Spec

----------------------------------------------------------------------------
(* Auditing.  What a composition got: the receipts of its steps, and the   *)
(* one that ended it.                                                      *)
Got(c) ==
  IF Has(c) /\ ~(\E i \in DOMAIN comp[c].receipts : comp[c].receipts[i] = call[c].receipt)
  THEN Append(comp[c].receipts, call[c].receipt) ELSE comp[c].receipts

(* They are its own, each names the one before, and none is missing. *)
AreAllOf(c, k, cl, g) ==
  /\ g \in Seq(Nat) /\ Len(g) \in Nat
  /\ \A i \in 1..Len(g) : issued[g[i]].for = c /\ issued[g[i]].prev = LinkBefore(g, i)
  /\ \A i, j \in 1..Len(g) : g[i] = g[j] => i = j
  /\ \A y : Keeps(k, cl, y) => \E i \in 1..Len(g) : g[i] = y

LEMMA GotIs ==
  ASSUME ErrandInv, NEW c \in Compositions, comp[c] # Idle
  PROVE  AreAllOf(c, comp[c], call[c], Got(c))
<1> PICK g : g = Got(c)
  OBVIOUS
<1> PICK k : k = comp[c]
  OBVIOUS
<1> PICK cl : cl = call[c]
  OBVIOUS
<1> PICK r : r = k.receipts
  OBVIOUS
<1> PICK x : x = cl.receipt
  OBVIOUS
<1> SUFFICES AreAllOf(c, k, cl, g)
  OBVIOUS
<1>1. k \in Comp /\ r \in Seq(Nat) /\ DOMAIN r = 1..Len(r) /\ Len(r) \in Nat
  BY ErrandTypes DEF Comp
<1>2. CallOK(c, cl, issued) /\ CompOK(c, k, cl, held[c], paid[c], issued)
  BY ErrandTypes DEF ErrandInv
<1>3. ReceiptsOK(c, r, issued) /\ (Between(k, cl, held[c]) \/ UnderWay(k, cl, held[c]))
  BY <1>2 DEF CompOK
<1>4. \A i, j \in 1..Len(r) : r[i] = r[j] => i = j
  <2> SUFFICES ASSUME NEW i \in 1..Len(r), NEW j \in 1..Len(r), i # j PROVE r[i] # r[j]
    OBVIOUS
  <2>1. r[i] \in Nat /\ r[j] \in Nat
    <3>1. \A q \in Seq(Nat) : \A h \in 1..Len(q) : q[h] \in Nat
      OBVIOUS
    <3> QED BY <1>1, <3>1
  <2>2. (i < j => r[i] < r[j]) /\ (j < i => r[j] < r[i])
    BY <1>3 DEF ReceiptsOK
  <2> QED BY <2>1, <2>2
<1>5. g = IF Served(cl) /\ ~(\E i \in 1..Len(r) : r[i] = x) THEN Append(r, x) ELSE r
  BY <1>1 DEF Got, Has, Served
<1>6. CASE Served(cl) /\ ~(\E i \in 1..Len(r) : r[i] = x)
  <2>1. g = Append(r, x)
    BY <1>5, <1>6
  <2>2. UnderWay(k, cl, held[c])
    <3> SUFFICES ASSUME Between(k, cl, held[c]) PROVE FALSE
      BY <1>3
    <3>1. r # <<>> /\ x = r[Len(r)]
      BY <1>6 DEF Between, Served
    <3>2. Len(r) \in 1..Len(r)
      BY <1>1, <3>1, NotEmpty
    <3> QED BY <1>6, <3>1, <3>2
  <2>3. cl \in Call /\ x \in Nat /\ cl.prev = LinkBefore(r, Len(r) + 1)
    BY <1>6, <2>2, ErrandTypes DEF Call, Served, UnderWay
  <2>4. issued[x].for = c /\ issued[x].prev = cl.prev
    BY <1>2, <1>6 DEF CallOK
  <2> PICK n : n = Len(r) + 1
    OBVIOUS
  <2>5. g \in Seq(Nat) /\ Len(g) = n /\ n \in Nat /\ g[n] = x /\ \A i \in 1..Len(r) : g[i] = r[i]
    BY <1>1, <2>1, <2>3
  <2>6. ASSUME NEW i \in 1..n PROVE LinkBefore(g, i) = LinkBefore(r, i)
    <3>1. CASE i = 1
      BY <3>1 DEF LinkBefore
    <3>2. CASE i # 1
      <4>1. i - 1 \in 1..Len(r)
        BY <1>1, <3>2
      <4> QED BY <2>5, <3>2, <4>1 DEF LinkBefore
    <3> QED BY <3>1, <3>2
  <2>7. \A i \in 1..n : i = n \/ i \in 1..Len(r)
    BY <1>1
  <2>8. ASSUME NEW i \in 1..n PROVE issued[g[i]].for = c /\ issued[g[i]].prev = LinkBefore(g, i)
    <3>1. CASE i = n
      <4>1. g[i] = x /\ LinkBefore(g, i) = LinkBefore(r, n)
        BY <2>5, <2>6, <3>1
      <4> QED BY <2>3, <2>4, <4>1
    <3>2. CASE i \in 1..Len(r)
      <4>1. g[i] = r[i] /\ LinkBefore(g, i) = LinkBefore(r, i)
        BY <2>5, <2>6, <3>2
      <4>2. issued[r[i]].for = c /\ issued[r[i]].prev = LinkBefore(r, i)
        BY <1>3, <3>2 DEF ReceiptsOK
      <4> QED BY <4>1, <4>2
    <3> QED BY <2>7, <3>1, <3>2
  <2>9. ASSUME NEW i \in 1..n, NEW j \in 1..n, g[i] = g[j] PROVE i = j
    <3>1. \A h \in 1..Len(r) : g[h] # g[n]
      BY <1>6, <2>5
    <3>2. CASE i \in 1..Len(r) /\ j \in 1..Len(r)
      <4>1. r[i] = r[j]
        BY <2>5, <2>9, <3>2
      <4> QED BY <1>4, <3>2, <4>1
    <3>3. CASE i = n \/ j = n
      BY <2>7, <2>9, <3>1, <3>3
    <3> QED BY <2>7, <3>2, <3>3
  <2>10. ASSUME NEW y, Keeps(k, cl, y) PROVE \E i \in 1..n : g[i] = y
    <3>1. CASE y = x
      <4>1. n \in 1..n
        BY <1>1
      <4> QED BY <2>5, <3>1, <4>1
    <3>2. CASE \E j \in 1..Len(r) : r[j] = y
      <4>1. PICK j \in 1..Len(r) : r[j] = y
        BY <3>2
      <4>2. j \in 1..n
        BY <1>1, <2>5
      <4>3. g[j] = y
        BY <2>5, <4>1
      <4> QED BY <4>2, <4>3
    <3> QED BY <2>10, <3>1, <3>2 DEF Keeps
  <2>11. g \in Seq(Nat) /\ Len(g) \in Nat /\ 1..n = 1..Len(g)
    BY <2>5
  <2>12. /\ \A i \in 1..Len(g) : issued[g[i]].for = c /\ issued[g[i]].prev = LinkBefore(g, i)
         /\ \A i, j \in 1..Len(g) : g[i] = g[j] => i = j
    BY <2>8, <2>9, <2>11
  <2>13. \A y : Keeps(k, cl, y) => \E i \in 1..Len(g) : g[i] = y
    BY <2>10, <2>11
  <2> QED BY <2>11, <2>12, <2>13 DEF AreAllOf
<1>7. CASE ~(Served(cl) /\ ~(\E i \in 1..Len(r) : r[i] = x))
  <2>1. g = r
    BY <1>5, <1>7
  <2>2. \A i \in 1..Len(r) : issued[r[i]].for = c /\ issued[r[i]].prev = LinkBefore(r, i)
    BY <1>3 DEF ReceiptsOK
  <2>3. \A y : Keeps(k, cl, y) => \E i \in 1..Len(r) : r[i] = y
    BY <1>7 DEF Keeps
  <2> QED BY <1>1, <1>4, <2>1, <2>2, <2>3 DEF AreAllOf
<1> QED BY <1>6, <1>7

(* A receipt that names another one is the next one of a composition. *)
LEMMA NamesTheOneBefore ==
  ASSUME ErrandInv, NEW x \in DOMAIN issued, NEW w \in issued[x].prev
  PROVE  \E c \in Compositions : comp[c] # Idle /\
           \E j \in 2..Len(Got(c)) : Got(c)[j] = x /\ Got(c)[j - 1] = w
<1> PICK c : c = issued[x].for
  OBVIOUS
<1>1. c \in Errands
  <2>1. issued[x] \in Receipt
    BY DEF ErrandInv, TypeOK
  <2> QED BY <2>1 DEF Receipt
<1>2. c \in Compositions
  BY <1>1 DEF ErrandInv, IssuedOK, Errands
<1>3. Keeps(comp[c], call[c], x)
  BY <1>2 DEF ErrandInv, IssuedOK
<1>4. comp[c] # Idle
  BY <1>3 DEF Keeps
<1> AreAllOf(c, comp[c], call[c], Got(c))
  BY <1>2, <1>4, GotIs
<1>5. PICK j \in 1..Len(Got(c)) : Got(c)[j] = x
  BY <1>3 DEF AreAllOf
<1>6. w \in LinkBefore(Got(c), j) /\ Len(Got(c)) \in Nat
  BY <1>5 DEF AreAllOf
<1>7. j # 1 /\ w = Got(c)[j - 1]
  BY <1>6 DEF LinkBefore
<1>8. j \in 2..Len(Got(c))
  BY <1>6, <1>7
<1> QED BY <1>2, <1>4, <1>5, <1>7, <1>8

(* The receipts 1..n of a list each name the one before; they are a        *)
(* stretch of what a composition got.                                      *)
Linked(list, n) ==
  /\ \A i \in 1..n : list[i] \in DOMAIN issued
  /\ \A i \in 2..n : list[i - 1] \in issued[list[i]].prev

Stretch(list, n) ==
  \E c \in Compositions : comp[c] # Idle /\
    \E k \in 0..Len(Got(c)) - n : \A i \in 1..n : list[i] = Got(c)[k + i]

(* A list that is accepted goes on as the composition did that its second  *)
(* receipt is of.                                                          *)
LEMMA AcceptedIsAStretch ==
  ASSUME ErrandInv, NEW n \in Nat, n >= 2, NEW list, Linked(list, n)
  PROVE  Stretch(list, n)
<1> SUFFICES ASSUME \A i \in 1..n : list[i] \in DOMAIN issued,
                    \A i \in 2..n : list[i - 1] \in issued[list[i]].prev
             PROVE  \E c \in Compositions : comp[c] # Idle /\
                      \E k \in 0..Len(Got(c)) - n : \A i \in 1..n : list[i] = Got(c)[k + i]
  BY DEF Linked, Stretch
<1>1. 2 \in 2..n /\ 1 \in 1..n /\ 2 \in 1..n /\ 2 - 1 = 1
  OBVIOUS
<1>2. PICK c \in Compositions : comp[c] # Idle /\
        \E j \in 2..Len(Got(c)) : Got(c)[j] = list[2] /\ Got(c)[j - 1] = list[1]
  <2>1. list[2] \in DOMAIN issued /\ list[2 - 1] \in issued[list[2]].prev
    BY <1>1
  <2>2. list[2] \in DOMAIN issued /\ list[1] \in issued[list[2]].prev
    BY <1>1, <2>1
  <2> QED BY <2>2, NamesTheOneBefore
<1>3. PICK j \in 2..Len(Got(c)) : Got(c)[j] = list[2] /\ Got(c)[j - 1] = list[1]
  BY <1>2
<1> PICK g : g = Got(c)
  OBVIOUS
<1>4. /\ g \in Seq(Nat) /\ Len(g) \in Nat
      /\ \A i \in 1..Len(g) : issued[g[i]].for = c /\ issued[g[i]].prev = LinkBefore(g, i)
      /\ \A i, h \in 1..Len(g) : g[i] = g[h] => i = h
  <2>1. AreAllOf(c, comp[c], call[c], g)
    BY <1>2, GotIs
  <2> QED BY <2>1 DEF AreAllOf
<1>5. j \in 2..Len(g) /\ g[j] = list[2] /\ g[j - 1] = list[1]
  BY <1>3
<1> DEFINE P(m) == j + m <= Len(g) /\ list[m + 2] = g[j + m]
           G == {m \in Nat : m + 2 <= n => P(m)}
<1>6. 0 \in G
  <2>1. j + 0 = j /\ 0 + 2 = 2 /\ j <= Len(g)
    BY <1>4
  <2>2. P(0)
    BY <1>5, <2>1
  <2> HIDE DEF P
  <2> QED BY <2>2
<1>7. ASSUME NEW m \in Nat, m \in G PROVE m + 1 \in G
  <2> SUFFICES ASSUME (m + 1) + 2 <= n PROVE P(m + 1)
    OBVIOUS
  <2> PICK q : q = m + 3
    OBVIOUS
  <2>1. P(m) /\ j + m \in 1..Len(g)
    <3>1. P(m)
      BY <1>7
    <3>2. j \in Nat /\ j >= 2 /\ Len(g) \in Nat
      BY <1>4
    <3> QED BY <3>1, <3>2
  <2>2. q \in 2..n /\ q \in 1..n /\ q - 1 \in 1..n /\ q - 1 = m + 2 /\ (m + 1) + 2 = q
    OBVIOUS
  <2>3. PICK d \in Compositions : comp[d] # Idle /\
          \E l \in 2..Len(Got(d)) : Got(d)[l] = list[q] /\ Got(d)[l - 1] = list[q - 1]
    <3>1. list[q] \in DOMAIN issued /\ list[q - 1] \in issued[list[q]].prev
      BY <2>2
    <3> QED BY <3>1, NamesTheOneBefore
  <2>4. PICK l \in 2..Len(Got(d)) : Got(d)[l] = list[q] /\ Got(d)[l - 1] = list[q - 1]
    BY <2>3
  <2>5. Len(Got(d)) \in Nat /\ \A i \in 1..Len(Got(d)) : issued[Got(d)[i]].for = d
    <3>1. AreAllOf(d, comp[d], call[d], Got(d))
      BY <2>3, GotIs
    <3> QED BY <3>1 DEF AreAllOf
  <2>6. l - 1 \in 1..Len(Got(d))
    <3>1. l \in 2..Len(Got(d)) /\ Len(Got(d)) \in Nat
      BY <2>4, <2>5
    <3> PICK len : len = Len(Got(d))
      OBVIOUS
    <3>2. l \in 2..len /\ len \in Nat
      BY <3>1
    <3>3. l - 1 \in 1..len
      BY <3>2
    <3> QED BY <3>3
  <2>7. issued[list[q - 1]].for = d
    BY <2>4, <2>5, <2>6
  <2>8. issued[list[q - 1]].for = c /\ list[q - 1] = g[j + m]
    <3>1. list[q - 1] = g[j + m]
      BY <2>1, <2>2
    <3>2. issued[g[j + m]].for = c
      BY <1>4, <2>1
    <3> QED BY <3>1, <3>2
  <2>9. d = c
    BY <2>7, <2>8
  <2>10. l \in 2..Len(g) /\ g[l] = list[q] /\ g[l - 1] = g[j + m] /\ l - 1 \in 1..Len(g)
    BY <2>4, <2>6, <2>8, <2>9
  <2>11. l - 1 = j + m
    BY <1>4, <2>1, <2>10
  <2>12. l = j + (m + 1)
    <3>1. l \in Int /\ j \in Int /\ m \in Int
      BY <1>4, <2>10
    <3> QED BY <2>11, <3>1
  <2> QED BY <1>4, <2>2, <2>10, <2>12
<1>8. \A m \in Nat : m \in G
  <2> HIDE DEF G
  <2> QED BY <1>6, <1>7, NatInd
<1>9. ASSUME NEW i \in 2..n PROVE j + (i - 2) <= Len(g) /\ list[i] = g[j + (i - 2)]
  <2>1. i - 2 \in Nat /\ (i - 2) + 2 = i /\ (i - 2) + 2 <= n
    OBVIOUS
  <2>2. i - 2 \in G
    BY <1>8, <2>1
  <2>3. P(i - 2)
    BY <2>1, <2>2
  <2> QED BY <2>1, <2>3
<1>10. j - 2 \in 0..Len(g) - n
  <2>1. n \in 2..n
    OBVIOUS
  <2>2. j + (n - 2) <= Len(g)
    BY <1>9, <2>1
  <2> QED BY <1>4, <2>2
<1>11. ASSUME NEW i \in 1..n PROVE list[i] = g[(j - 2) + i]
  <2>1. CASE i = 1
    <3>1. (j - 2) + i = j - 1
      BY <2>1
    <3> QED BY <1>5, <2>1, <3>1
  <2>2. CASE i # 1
    <3>1. i \in 2..n /\ (j - 2) + i = j + (i - 2)
      BY <2>2
    <3> QED BY <1>9, <3>1
  <2> QED BY <2>1, <2>2
<1> QED BY <1>2, <1>10, <1>11

LEMMA FinishedIsAccepted ==
  ASSUME ErrandInv, NEW c \in Compositions, At(c, "done")
  PROVE  verifyReceiptChain(comp[c].receipts)
<1> PICK k : k = comp[c]
  OBVIOUS
<1> PICK r : r = k.receipts
  OBVIOUS
<1>1. k # Idle /\ k.pc = "done" /\ k \in Comp
  BY ErrandTypes DEF At
<1>2. r \in Seq(Nat) /\ k.steps \in Plans /\ Len(r) \in Nat
  BY <1>1 DEF Comp
<1>3. CompOK(c, k, call[c], held[c], paid[c], issued)
  BY DEF ErrandInv
<1>4. Len(r) = Len(k.steps) /\ ReceiptsOK(c, r, issued)
  BY <1>1, <1>3 DEF CompOK
<1>5. Len(k.steps) > 0
  BY <1>2, PlanType
<1>6. r # <<>>
  BY <1>2, <1>4, <1>5
<1>7. ASSUME NEW i \in 2..Len(r) PROVE r[i - 1] \in issued[r[i]].prev
  <2>1. i \in 1..Len(r) /\ i # 1
    BY <1>2
  <2>2. issued[r[i]].prev = LinkBefore(r, i)
    BY <1>4, <2>1 DEF ReceiptsOK
  <2> QED BY <2>1, <2>2 DEF LinkBefore
<1> QED BY <1>6, <1>7 DEF verifyReceiptChain

(* A list of any length that is accepted is one receipt or a stretch of    *)
(* what a composition got.                                                 *)
AuditedOfAnyLength ==
  \A n \in Nat \ {0} : \A list \in [1..n -> DOMAIN issued] :
    verifyReceiptChain(list) => n = 1 \/ Stretch(list, n)

LEMMA AuditedHolds == ErrandInv => AuditedOfAnyLength
<1> SUFFICES ASSUME ErrandInv, NEW n \in Nat \ {0}, NEW list \in [1..n -> DOMAIN issued],
                    verifyReceiptChain(list), n # 1
             PROVE  Stretch(list, n)
  BY DEF AuditedOfAnyLength
<1>1. Len(list) = n /\ n \in Nat /\ n >= 2
  OBVIOUS
<1>2. \A i \in 2..n : list[i - 1] \in issued[list[i]].prev
  BY <1>1 DEF verifyReceiptChain
<1>3. Linked(list, n)
  BY <1>2 DEF Linked
<1> QED BY <1>1, <1>3, AcceptedIsAStretch

LEMMA AuditedListsHold == ErrandInv => AuditedIsWhole
<1> SUFFICES ASSUME ErrandInv PROVE AuditedIsWhole
  OBVIOUS
<1>1. ASSUME NEW list \in Lists, verifyReceiptChain(list)
      PROVE  \/ Len(list) = 1
             \/ \E c \in Compositions : comp[c] # Idle /\
                  \E k \in 0..Len(Got(c)) - Len(list) : \A i \in DOMAIN list : list[i] = Got(c)[k + i]
  <2>1. PICK n \in 1..3 : list \in [1..n -> DOMAIN issued]
    BY DEF Lists
  <2>2. n \in Nat \ {0} /\ Len(list) = n /\ DOMAIN list = 1..n
    BY <2>1
  <2>3. n = 1 \/ Stretch(list, n)
    <3>1. AuditedOfAnyLength
      BY AuditedHolds
    <3> QED BY <1>1, <2>1, <2>2, <3>1 DEF AuditedOfAnyLength
  <2>4. CASE n = 1
    BY <2>2, <2>4
  <2>5. CASE n # 1
    <3>1. PICK c \in Compositions : comp[c] # Idle /\
            \E k \in 0..Len(Got(c)) - n : \A i \in 1..n : list[i] = Got(c)[k + i]
      BY <2>3, <2>5 DEF Stretch
    <3>2. \E k \in 0..Len(Got(c)) - Len(list) : \A i \in DOMAIN list : list[i] = Got(c)[k + i]
      BY <2>2, <3>1
    <3> QED BY <3>1, <3>2
  <2> QED BY <2>4, <2>5
<1> QED BY <1>1, FinishedIsAccepted DEF AuditedIsWhole, Got

(* AN AUDITED CHAIN IS WHOLE, for any receipts of any number of errands,   *)
(* and for lists of any length.                                            *)
THEOREM AuditedListsAreWhole == Spec => []AuditedIsWhole
<1> QED BY AuditedListsHold, ErrandInitInv, ErrandNextInv, PTL DEF Spec

(* The same of lists that are longer than those TLC enumerates: a list of  *)
(* receipts of two compositions, or with one left out or in another order, *)
(* is refused.                                                             *)
THEOREM LongListsAreWhole == Spec => []AuditedOfAnyLength
<1> QED BY AuditedHolds, ErrandInitInv, ErrandNextInv, PTL DEF Spec

=============================================================================
