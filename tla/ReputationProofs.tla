-------------------------- MODULE ReputationProofs --------------------------
(***************************************************************************)
(* Proofs about Reputation, for any agents, settlements, drivers, page     *)
(* size, number of concurrent requests and readers.                        *)
(*                                                                         *)
(* What is in the store, on its way to it, or in the hands of a reader was *)
(* paid for, or a made-up rail vouches for it; no later step takes that    *)
(* back.  What a walk is owed and has not got is behind its cursor: a page *)
(* takes the oldest rows, so nothing is left between it and the cursor it  *)
(* gives.  An ETag counts rows of before the page it was sent with, and    *)
(* rows are only added.                                                    *)
(***************************************************************************)
EXTENDS Reputation, FiniteSetTheorems, SequenceTheorems, TLAPS

(* What is accepted, and stays so. *)
Ours(att) == att.subject = Node /\ Backed(att)

RowsInv ==
  /\ IsFiniteSet(rows)
  /\ \A r \in rows : Ours(r.att)
  /\ \A r, s \in rows : r.att.id = s.att.id => r = s

HandlerInv ==
  /\ \A h \in Handlers : handler[h] # Idle => Ours(handler[h].att)
  /\ \A h \in Handlers : Stands(h, "drawn") =>
       /\ handler[h].seq > 0 /\ handler[h].seq <= last
       /\ \A r \in rows : r.seq # handler[h].seq
  /\ \A g, h \in Handlers :
       Stands(g, "drawn") /\ Stands(h, "drawn") /\ handler[g].seq = handler[h].seq => g = h

Got(w, att) == \E i \in DOMAIN w.got : w.got[i] = att
Ahead(w, att) == \E r \in rows : r.seq > w.cursor /\ r.att = att

WalkOK(c) ==
  Is(c, "next") \/ Is(c, "done") =>
    /\ \A i \in DOMAIN client[c].got : Ours(client[c].got[i])
    /\ \A att \in client[c].owed :
         Got(client[c], att) \/ (Is(c, "next") /\ Ahead(client[c], att))

WalkInv == \A c \in Clients : WalkOK(c)

(* What OnPage(0) was when R was stored. *)
PageOf(R) ==
  {r \in {t \in R : t.seq > 0} : Cardinality({s \in {t \in R : t.seq > 0} : s.seq < r.seq}) < Limit}

ContentOf(of, R) == IF of = "summary" THEN R ELSE PageOf(R)

Held(c) == Keeps(c) /\ (store = "memory" => client[c].epoch = epoch)

KeptOK(c) ==
  Keeps(c) =>
    /\ client[c].epoch <= epoch
    /\ Held(c) =>
         /\ client[c].etag[1] <= Cardinality(rows)
         /\ Is(c, "kept") =>
              \E R \in SUBSET rows : /\ client[c].content = ContentOf(client[c].of, R)
                                     /\ client[c].etag[1] <= Cardinality(R)

KeptInv == \A c \in Clients : KeptOK(c)

Inv == TypeOK /\ RowsInv /\ HandlerInv /\ WalkInv /\ KeptInv

----------------------------------------------------------------------------
(* Sets of numbers and sequences. *)

(* A set of naturals has a least member: were there a smaller one to each, *)
(* adding 1 would map the lower bounds up to a member into those above 0.  *)
LEMMA Smallest ==
  ASSUME NEW T, T \subseteq Nat, T # {}
  PROVE  \E x \in T : \A y \in T : x <= y
<1> SUFFICES ASSUME \A x \in T : \E y \in T : y < x
             PROVE  FALSE
  OBVIOUS
<1>1. PICK n \in T : TRUE
  OBVIOUS
<1> DEFINE D == {x \in 0..n : \A y \in T : x < y}
           E == D \ {0}
           f == [x \in D |-> x + 1]
<1>2. 0 \in D
  OBVIOUS
<1>3. IsFiniteSet(D)
  <2>1. n \in Int /\ IsFiniteSet(0..n)
    BY <1>1, FS_Interval
  <2>2. D \subseteq 0..n
    OBVIOUS
  <2> QED BY <2>1, <2>2, FS_Subset
<1>4. \A x \in D : x + 1 \in D \ {0}
  OBVIOUS
<1>5. f \in [D -> D \ {0}]
  BY <1>4
<1>6. IsFiniteSet(D \ {0}) /\ Cardinality(D \ {0}) = Cardinality(D) - 1
  BY <1>2, <1>3, FS_RemoveElement
<1>7. Cardinality(D) \in Nat
  BY <1>3, FS_CardinalityType
<1>8. Cardinality(D \ {0}) < Cardinality(D)
  BY <1>6, <1>7
<1>9. \E x, y \in D : x # y /\ f[x] = f[y]
  <2>1. IsFiniteSet(E) /\ Cardinality(E) < Cardinality(D) /\ f \in [D -> E]
    BY <1>5, <1>6, <1>8
  <2> HIDE DEF D, E, f
  <2> QED BY <1>3, <2>1, FS_PigeonHole
<1>10. \A x \in D : x \in Nat
  OBVIOUS
<1> QED
  BY <1>9, <1>10

(* A set that a list of n covers has at most n members. *)
LEMMA Covered ==
  ASSUME NEW S, NEW n \in Nat, NEW f \in [1..n -> S], S = {f[i] : i \in DOMAIN f}
  PROVE  IsFiniteSet(S) /\ Cardinality(S) \in Nat /\ Cardinality(S) <= n
<1>1. f \in Surjection(1..n, S)
  BY DEF Surjection
<1>2. IsFiniteSet(1..n) /\ Cardinality(1..n) = n
  <2>1. IsFiniteSet(1..n) /\ Cardinality(1..n) = IF 1 > n THEN 0 ELSE n - 1 + 1
    BY FS_Interval
  <2> QED BY <2>1
<1>3. IsFiniteSet(S) /\ Cardinality(S) <= n
  BY <1>1, <1>2, FS_Surjection
<1> QED
  BY <1>3, FS_CardinalityType

----------------------------------------------------------------------------
(* Pages. *)

LEMMA AfterFinite ==
  ASSUME TypeOK, RowsInv, NEW cursor \in Nat
  PROVE  /\ IsFiniteSet(After(cursor)) /\ IsFiniteSet(OnPage(cursor))
         /\ \A r \in Nat : Cardinality({s \in After(cursor) : s.seq < r}) \in Nat
<1>1. IsFiniteSet(After(cursor))
  BY FS_Subset DEF After, RowsInv
<1>2. IsFiniteSet(OnPage(cursor))
  BY <1>1, FS_Subset DEF OnPage
<1>3. ASSUME NEW r \in Nat PROVE Cardinality({s \in After(cursor) : s.seq < r}) \in Nat
  <2>1. IsFiniteSet({s \in After(cursor) : s.seq < r})
    BY <1>1, FS_Subset
  <2> QED BY <2>1, FS_CardinalityType
<1> QED
  BY <1>1, <1>2, <1>3

(* A page leaves no older row behind. *)
LEMMA PageIsOldest ==
  ASSUME TypeOK, RowsInv, NEW cursor \in Nat,
         NEW r \in After(cursor), NEW p \in OnPage(cursor), r.seq <= p.seq
  PROVE  r \in OnPage(cursor)
<1> DEFINE B == {s \in After(cursor) : s.seq < p.seq}
           A == {s \in After(cursor) : s.seq < r.seq}
<1>1. r.seq \in Nat /\ p.seq \in Nat /\ \A s \in After(cursor) : s.seq \in Nat
  BY DEF TypeOK, Row, After, OnPage
<1>2. A \subseteq B
  BY <1>1
<1>3. IsFiniteSet(B) /\ Cardinality(B) < Limit
  <2>1. IsFiniteSet(After(cursor))
    BY AfterFinite
  <2> QED BY <2>1, FS_Subset DEF OnPage
<1>4. Cardinality(A) <= Cardinality(B)
  <2> HIDE DEF A, B
  <2> QED BY <1>2, <1>3, FS_Subset
<1>5. Cardinality(A) \in Nat /\ Cardinality(B) \in Nat /\ Limit \in Nat
  BY <1>1, AfterFinite, ReputationAssumption
<1>6. Cardinality(A) < Limit
  BY <1>3, <1>4, <1>5
<1> QED
  BY <1>6 DEF OnPage

(* A page that is not full is all there is. *)
LEMMA ShortPageIsAll ==
  ASSUME TypeOK, RowsInv, NEW cursor \in Nat, Cardinality(OnPage(cursor)) < Limit
  PROVE  OnPage(cursor) = After(cursor)
<1> SUFFICES ASSUME OnPage(cursor) # After(cursor)
             PROVE  FALSE
  OBVIOUS
<1> DEFINE T == {r.seq : r \in After(cursor) \ OnPage(cursor)}
<1>1. \A s \in After(cursor) : s.seq \in Nat
  BY DEF TypeOK, Row, After
<1>2. T # {} /\ T \subseteq Nat
  BY <1>1 DEF OnPage
<1>3. PICK n \in T : \A m \in T : n <= m
  <2> HIDE DEF T
  <2> QED BY <1>2, Smallest
<1>4. PICK r \in After(cursor) \ OnPage(cursor) : r.seq = n
  OBVIOUS
<1> DEFINE A == {s \in After(cursor) : s.seq < r.seq}
<1>5. A \subseteq OnPage(cursor)
  BY <1>1, <1>3, <1>4
<1>6. IsFiniteSet(OnPage(cursor)) /\ Cardinality(OnPage(cursor)) \in Nat
  BY AfterFinite, FS_CardinalityType
<1>7. Cardinality(A) <= Cardinality(OnPage(cursor))
  <2> HIDE DEF A
  <2> QED BY <1>5, <1>6, FS_Subset
<1>8. Cardinality(A) \in Nat /\ Limit \in Nat
  BY <1>1, <1>4, AfterFinite, ReputationAssumption
<1>9. Cardinality(A) < Limit
  BY <1>6, <1>7, <1>8
<1> QED
  BY <1>4, <1>9 DEF OnPage

(* A finite set of naturals has a greatest member: the one with the fewest *)
(* above it.                                                               *)
LEMMA Greatest ==
  ASSUME NEW T, T \subseteq Nat, T # {}, IsFiniteSet(T)
  PROVE  \E x \in T : \A y \in T : y <= x
<1> DEFINE U(x) == {y \in T : x < y}
           N == {Cardinality(U(x)) : x \in T}
<1>1. \A x \in T : IsFiniteSet(U(x)) /\ Cardinality(U(x)) \in Nat
  BY FS_Subset, FS_CardinalityType
<1>2. N \subseteq Nat /\ N # {}
  BY <1>1
<1>3. PICK n \in N : \A m \in N : n <= m
  <2> HIDE DEF N
  <2> QED BY <1>2, Smallest
<1>4. PICK x \in T : n = Cardinality(U(x))
  OBVIOUS
<1>5. ASSUME NEW y \in T, x < y PROVE FALSE
  <2>1. U(y) \subseteq U(x) /\ y \in U(x) /\ y \notin U(y)
    BY <1>4, <1>5
  <2>2. Cardinality(U(y)) <= Cardinality(U(x)) /\ Cardinality(U(y)) # Cardinality(U(x))
    <3>1. IsFiniteSet(U(x))
      BY <1>1
    <3> HIDE DEF U
    <3> QED BY <2>1, <3>1, FS_Subset
  <2>3. Cardinality(U(x)) <= Cardinality(U(y))
    BY <1>3, <1>4
  <2> QED BY <1>1, <2>2, <2>3
<1> QED
  BY <1>4, <1>5

LEMMA SummaryType ==
  ASSUME TypeOK, RowsInv
  PROVE  Summary \in ETag /\ Summary[1] = Cardinality(rows) /\ Cardinality(rows) \in Nat
<1>1. Cardinality(rows) \in Nat
  BY FS_CardinalityType DEF RowsInv
<1>2. ASSUME rows # {} PROVE \E t \in newestTs : TRUE
  <2> DEFINE T == {r.att.ts : r \in rows}
             f == [r \in rows |-> r.att.ts]
  <2>1. \A r \in rows : r.att.ts \in Times /\ r.att.ts \in Nat
    BY ReputationAssumption DEF TypeOK, Row, Attestation
  <2>2. T # {} /\ T \subseteq Nat
    BY <1>2, <2>1
  <2>3. f \in Surjection(rows, T)
    BY DEF Surjection
  <2>4. IsFiniteSet(T)
    <3> HIDE DEF T, f
    <3> QED BY <2>3, FS_Surjection DEF RowsInv
  <2>5. PICK t \in T : \A u \in T : u <= t
    <3> HIDE DEF T
    <3> QED BY <2>2, <2>4, Greatest
  <2> QED BY <2>1, <2>5 DEF newestTs
<1>3. \A t \in newestTs : t \in Nat
  BY ReputationAssumption DEF newestTs
<1>4. (IF rows = {} THEN 0 ELSE CHOOSE t \in newestTs : TRUE) \in Nat
  BY <1>2, <1>3
<1> DEFINE newest == IF rows = {} THEN 0 ELSE CHOOSE t \in newestTs : TRUE
<1>5. newest \in Nat /\ Summary = <<Cardinality(rows), newest>>
  BY <1>4 DEF Summary
<1> HIDE DEF newest
<1> QED
  BY <1>1, <1>5 DEF ETag

----------------------------------------------------------------------------
(* What an accepted attestation stands for. *)

LEMMA AcceptedIsOurs ==
  ASSUME TypeOK, NEW att \in Attestation, Accepts(att)
  PROVE  Ours(att)
BY DEF TypeOK, Attestation, Accepts, Verified, verifyAttestation, verifySettlement,
       verifyAttestationOnChain, Earned, Ours, Backed, Between

(* A settlement is final. *)
LEMMA OursStays ==
  ASSUME TypeOK, Next, NEW att \in Attestation, Ours(att)
  PROVE  Ours(att)'
<1>1. CASE att.settlement \in MadeUp
  BY <1>1 DEF Ours, Backed, Between
<1>2. CASE pay[att.settlement] = "released"
  <2>1. att.settlement \in Payments /\ pay[att.settlement] = "released"
    BY <1>2 DEF Attestation
  <2>2. pay'[att.settlement] = "released"
    BY <2>1 DEF TypeOK, Next, Settle, Attest, Verify, Insert, Draw, Commit, InsertThrows,
         fetchReputation, Fetch, Refused, Rejected, Ask, AskSummary, ReadPage, Restart
  <2> QED BY <1>2, <2>2 DEF Ours, Backed, Between
<1> QED
  BY <1>1, <1>2 DEF Ours, Backed

----------------------------------------------------------------------------
(* Types. *)

LEMMA TypeInit == Init => TypeOK
BY ReputationAssumption DEF Init, TypeOK, Prompt, Sync, Stands, Is, Keeps

(* What the store, the handlers and the clients keep to, each on its own.  *)
RowsOK ==
  /\ rows \subseteq Row /\ last \in Nat
  /\ \A r \in rows : r.seq > 0 /\ r.seq <= last
  /\ \A r, s \in rows : r.seq = s.seq => r = s

HandlersOK ==
  /\ handler \in [Handlers -> {Idle} \cup Post]
  /\ Prompt => \A h \in Handlers : handler[h] = Idle
  /\ Sync => \A h \in Handlers : ~Stands(h, "drawn")

ClientsOK ==
  /\ client \in [Clients -> {Idle} \cup Walk \cup Kept]
  /\ \A c \in Clients : Is(c, "asked") => ~Sync /\ client[c].of = "page"

LEMMA TypeParts ==
  ASSUME TypeOK, UNCHANGED config, pay' \in [Payments -> {"open", "released", "refunded"}],
         epoch' \in Nat, RowsOK', HandlersOK', ClientsOK'
  PROVE  TypeOK'
BY DEF TypeOK, RowsOK, HandlersOK, ClientsOK, config

LEMMA RowsStayOK == TypeOK /\ UNCHANGED <<rows, last>> => RowsOK'
BY DEF TypeOK, RowsOK

LEMMA HandlersStayOK == TypeOK /\ UNCHANGED <<config, handler>> => HandlersOK'
BY DEF TypeOK, HandlersOK, config, Prompt, Sync, Stands

LEMMA ClientsStayOK == TypeOK /\ UNCHANGED <<config, client>> => ClientsOK'
BY DEF TypeOK, ClientsOK, config, Sync, Is

LEMMA AddedRowsOK ==
  ASSUME TypeOK, NEW att \in Attestation, Add(att)
  PROVE  RowsOK'
<1>1. CASE UNCHANGED <<rows, last>>
  BY <1>1, RowsStayOK
<1>2. CASE rows' = rows \cup {[seq |-> last + 1, att |-> att]} /\ last' = last + 1
  <2>1. PICK r \in Row : r = [seq |-> last + 1, att |-> att]
    <3>1. last + 1 \in Nat
      BY DEF TypeOK
    <3> QED BY <3>1 DEF Row
  <2>2. r.seq = last + 1 /\ rows' = rows \cup {r}
    BY <1>2, <2>1
  <2>3. last \in Nat /\ \A s \in rows : s.seq \in Nat /\ s.seq > 0 /\ s.seq <= last
    BY DEF TypeOK, Row
  <2> QED BY <1>2, <2>2, <2>3 DEF TypeOK, RowsOK
<1> QED
  BY <1>1, <1>2 DEF Add

LEMMA DrawnRowsOK ==
  ASSUME TypeOK, HandlerInv, NEW h \in Handlers, Commit(h)
  PROVE  RowsOK'
<1>1. PICK w \in Post : handler[h] = w /\ w.pc = "drawn"
  BY DEF TypeOK, Commit, Stands
<1>2. w.seq > 0 /\ w.seq <= last /\ \A s \in rows : s.seq # w.seq
  BY <1>1 DEF Commit, HandlerInv
<1>3. CASE UNCHANGED rows
  BY <1>3, RowsStayOK DEF Commit
<1>4. CASE rows' = rows \cup {[seq |-> handler[h].seq, att |-> handler[h].att]}
  <2>1. PICK r \in Row : r = [seq |-> w.seq, att |-> w.att]
    BY DEF Row, Post
  <2>2. r.seq = w.seq /\ rows' = rows \cup {r} /\ last' = last
    BY <1>1, <1>4, <2>1 DEF Commit
  <2> QED BY <1>2, <2>2 DEF TypeOK, RowsOK
<1> QED
  BY <1>3, <1>4 DEF Commit

LEMMA HandlersOKNext ==
  ASSUME TypeOK, NEW h \in Handlers, UNCHANGED config, ~Prompt,
         NEW w \in {Idle} \cup Post, w = Idle \/ (w.pc = "drawn" => ~Sync),
         handler' = [handler EXCEPT ![h] = w]
  PROVE  HandlersOK'
BY DEF TypeOK, HandlersOK, config, Prompt, Sync, Stands

LEMMA ClientsOKNext ==
  ASSUME TypeOK, NEW c \in Clients, UNCHANGED config,
         NEW w \in {Idle} \cup Walk \cup Kept,
         w = Idle \/ (w.pc = "asked" => ~Sync /\ w.of = "page"),
         client' = [client EXCEPT ![c] = w]
  PROVE  ClientsOK'
BY DEF TypeOK, ClientsOK, config, Sync, Is

LEMMA PageShape ==
  ASSUME TypeOK, NEW cursor \in Nat, NEW page \in Pages(cursor)
  PROVE  \E n \in Nat : /\ page \in [1..n -> OnPage(cursor)] /\ DOMAIN page = 1..n
                        /\ page \in Seq(Row) /\ Len(page) = n /\ n <= Limit
                        /\ InOrder(page, cursor)
<1>1. PICK n \in 0..Limit : page \in [1..n -> OnPage(cursor)] /\ InOrder(page, cursor)
  BY DEF Pages
<1>2. n \in Nat /\ n <= Limit /\ OnPage(cursor) \subseteq Row
  BY ReputationAssumption DEF TypeOK, OnPage, After
<1>3. page \in [1..n -> Row]
  BY <1>1, <1>2
<1>4. page \in Seq(Row)
  BY <1>2, <1>3, SeqDef
<1>5. Len(page) = n
  BY <1>2, <1>3, <1>4, LenProperties
<1> QED
  BY <1>1, <1>2, <1>4, <1>5

(* A list that has what got has, and what is on a page, and no more. *)
Joins(more, got, cursor) ==
  /\ \A i \in DOMAIN more : \/ i \in DOMAIN got /\ more[i] = got[i]
                           \/ \E r \in OnPage(cursor) : more[i] = r.att
  /\ \A i \in DOMAIN got : \E k \in DOMAIN more : more[k] = got[i]
  /\ \A r \in OnPage(cursor) : \E k \in DOMAIN more : more[k] = r.att

(* What a page adds to what a walk has. *)
LEMMA Appended ==
  ASSUME TypeOK, NEW cursor \in Nat, NEW page \in Pages(cursor), NEW got \in Seq(Attestation),
         NEW atts, atts = [i \in DOMAIN page |-> page[i].att],
         NEW more, more = got \o atts
  PROVE  more \in Seq(Attestation) /\ Joins(more, got, cursor)
<1>1. PICK n \in Nat : /\ page \in [1..n -> OnPage(cursor)] /\ DOMAIN page = 1..n
                       /\ page \in Seq(Row) /\ InOrder(page, cursor)
  BY PageShape
<1>2. atts \in [1..n -> Attestation]
  <2>1. OnPage(cursor) \subseteq Row
    BY DEF OnPage, After, TypeOK
  <2>2. \A i \in 1..n : page[i].att \in Attestation
    BY <1>1, <2>1 DEF Row
  <2> QED BY <1>1, <2>2
<1>3. atts \in Seq(Attestation)
  BY <1>2, SeqDef
<1>4. Len(atts) = n
  BY <1>2, <1>3, LenProperties
<1>5. /\ more \in Seq(Attestation) /\ Len(more) = Len(got) + n
      /\ \A i \in 1..Len(more) : more[i] = IF i <= Len(got) THEN got[i] ELSE atts[i - Len(got)]
  <2>1. /\ got \o atts \in Seq(Attestation) /\ Len(got \o atts) = Len(got) + Len(atts)
        /\ \A i \in 1..Len(got) + Len(atts) :
             (got \o atts)[i] = IF i <= Len(got) THEN got[i] ELSE atts[i - Len(got)]
    BY <1>3, ConcatProperties
  <2> QED BY <1>4, <2>1
<1>6. Len(got) \in Nat /\ DOMAIN got = 1..Len(got) /\ DOMAIN more = 1..Len(more)
  BY <1>5, LenProperties
<1>7. \A i \in 1..n : page[i] \in OnPage(cursor) /\ atts[i] = page[i].att
  BY <1>1
<1>8. ASSUME NEW i \in DOMAIN more
      PROVE  \/ i \in DOMAIN got /\ more[i] = got[i]
             \/ \E r \in OnPage(cursor) : more[i] = r.att
  <2>1. CASE i <= Len(got)
    BY <1>5, <1>6, <2>1
  <2>2. CASE i > Len(got)
    <3>1. i - Len(got) \in 1..n /\ more[i] = atts[i - Len(got)]
      BY <1>5, <1>6, <2>2
    <3> QED BY <1>7, <3>1
  <2>3. i <= Len(got) \/ i > Len(got)
    <3>1. i \in Int /\ Len(got) \in Int
      BY <1>5, <1>6
    <3> QED BY <3>1
  <2> QED BY <2>1, <2>2, <2>3
<1>9. ASSUME NEW i \in DOMAIN got PROVE \E k \in DOMAIN more : more[k] = got[i]
  BY <1>5, <1>6
<1>10. ASSUME NEW r \in OnPage(cursor) PROVE \E k \in DOMAIN more : more[k] = r.att
  <2>1. PICK i \in 1..n : page[i] = r
    BY <1>1 DEF InOrder
  <2>2. i + Len(got) \in 1..Len(more) /\ ~(i + Len(got) <= Len(got)) /\ (i + Len(got)) - Len(got) = i
    BY <1>5, <1>6
  <2>3. more[i + Len(got)] = atts[i]
    BY <1>5, <2>2
  <2> QED BY <1>6, <1>7, <2>1, <2>2, <2>3
<1> QED
  BY <1>5, <1>8, <1>9, <1>10 DEF Joins

(* What a cursor says. *)
LEMMA CursorShape ==
  ASSUME TypeOK, RowsInv, NEW cursor \in Nat, NEW page \in Pages(cursor),
         NEW next, next = nextCursor(page, cursor)
  PROVE  /\ next \in Nat
         /\ next = 0 => After(cursor) = OnPage(cursor)
         /\ \A r \in After(cursor) : r \in OnPage(cursor) \/ r.seq > next
<1>1. PICK n \in Nat : /\ page \in [1..n -> OnPage(cursor)] /\ DOMAIN page = 1..n
                       /\ page \in Seq(Row) /\ Len(page) = n /\ n <= Limit
                       /\ InOrder(page, cursor)
  BY PageShape
<1>2. OnPage(cursor) = {page[i] : i \in DOMAIN page}
  BY <1>1 DEF InOrder
<1>3. OnPage(cursor) \subseteq After(cursor) /\ After(cursor) \subseteq rows
  BY DEF OnPage, After
<1>4. \A r \in After(cursor) : r.seq \in Nat /\ r.seq > 0
  BY DEF After, TypeOK, Row
<1>5. Limit \in Nat /\ Limit > 0
  BY ReputationAssumption
<1>6. page = <<>> <=> n = 0
  BY <1>1, EmptySeq
<1>7. CASE page # <<>> /\ next = page[Len(page)].seq
  <2>1. n \in 1..n /\ page[n] \in OnPage(cursor) /\ next = page[n].seq
    BY <1>1, <1>6, <1>7
  <2>2. next \in Nat /\ next > 0
    BY <1>3, <1>4, <2>1
  <2>3. ASSUME NEW r \in After(cursor), r \notin OnPage(cursor) PROVE r.seq > next
    <3>1. ~(r.seq <= page[n].seq)
      BY <2>1, <2>3, PageIsOldest
    <3> QED BY <1>3, <1>4, <2>1, <3>1
  <2> QED BY <2>2, <2>3
<1>8. CASE next = 0 /\ After(cursor) = OnPage(cursor)
  BY <1>8
<1>9. \/ page # <<>> /\ next = page[Len(page)].seq
      \/ next = 0 /\ After(cursor) = OnPage(cursor)
  <2>1. ASSUME n < Limit PROVE After(cursor) = OnPage(cursor)
    <3>1. Cardinality(OnPage(cursor)) <= n /\ Cardinality(OnPage(cursor)) \in Nat
      BY <1>1, <1>2, Covered
    <3>2. Cardinality(OnPage(cursor)) < Limit
      BY <1>5, <2>1, <3>1
    <3> QED BY <3>2, ShortPageIsAll
  <2>2. CASE page = <<>>
    BY <1>5, <1>6, <2>1, <2>2 DEF nextCursor
  <2>3. CASE page # <<>> /\ store = "memory"
    BY <2>3 DEF nextCursor
  <2>4. CASE page # <<>> /\ store # "memory"
    BY <1>1, <1>5, <2>1, <2>4 DEF nextCursor
  <2> QED BY <2>2, <2>3, <2>4
<1> QED
  BY <1>7, <1>8, <1>9

LEMMA NewWalkType ==
  ASSUME TypeOK,
         NEW w, w = [pc |-> "next", cursor |-> 0, got |-> <<>>, owed |-> {r.att : r \in rows}]
  PROVE  w \in Walk /\ w.pc = "next" /\ DOMAIN w.got = {}
<1>1. <<>> \in Seq(Attestation) /\ DOMAIN <<>> = {}
  BY EmptySeq
<1>2. {r.att : r \in rows} \in SUBSET Attestation
  BY DEF TypeOK, Row
<1> QED
  BY <1>1, <1>2 DEF Walk

LEMMA ReadWalkType ==
  ASSUME TypeOK, RowsInv, NEW w \in Walk, NEW page \in Pages(w.cursor),
         NEW next, next = nextCursor(page, w.cursor),
         NEW v, v = [w EXCEPT !.got = @ \o [i \in DOMAIN page |-> page[i].att],
                              !.cursor = next,
                              !.pc = IF next = 0 THEN "done" ELSE "next"]
  PROVE  v \in Walk
<1>1. w.cursor \in Nat /\ w.got \in Seq(Attestation)
  BY DEF Walk
<1>2. next \in Nat
  BY <1>1, CursorShape
<1> DEFINE more == w.got \o [i \in DOMAIN page |-> page[i].att]
<1>3. more \in Seq(Attestation)
  BY <1>1, Appended
<1>4. v = [w EXCEPT !.got = more, !.cursor = next, !.pc = IF next = 0 THEN "done" ELSE "next"]
  OBVIOUS
<1> HIDE DEF more
<1> QED
  BY <1>2, <1>3, <1>4 DEF Walk

LEMMA AnswerType ==
  ASSUME TypeOK, NEW of \in {"page", "summary"}, NEW pc \in {"kept", "asked"}, NEW etag \in ETag,
         NEW content \in SUBSET rows,
         NEW w, w = [pc |-> pc, of |-> of, etag |-> etag, content |-> content, epoch |-> epoch]
  PROVE  w \in Kept
<1>1. content \in SUBSET Row
  BY DEF TypeOK
<1> QED
  BY <1>1 DEF TypeOK, Kept

LEMMA ContentType == \A of : Content(of) \in SUBSET rows
BY DEF Content, OnPage, After

(* A step of the clients. *)
LEMMA ClientStepTyped ==
  ASSUME TypeOK, RowsInv, NEW c \in Clients,
         \/ fetchReputation(c) \/ Fetch(c) \/ Refused(c) \/ Rejected(c)
         \/ (\E of \in {"page", "summary"} : Ask(c, of)) \/ AskSummary(c) \/ ReadPage(c)
  PROVE  ClientsOK' /\ UNCHANGED <<config, pay, rows, last, handler, epoch>>
<1>0. UNCHANGED <<config, pay, rows, last, handler, epoch>>
  BY DEF fetchReputation, Fetch, Refused, Rejected, Ask, AskSummary, ReadPage
<1> SUFFICES ClientsOK'
  BY <1>0
<1>1. CASE fetchReputation(c)
  <2>1. PICK w : w = [pc |-> "next", cursor |-> 0, got |-> <<>>, owed |-> {r.att : r \in rows}]
    OBVIOUS
  <2>2. w \in Walk /\ w.pc = "next"
    BY <2>1, NewWalkType
  <2>3. client' = [client EXCEPT ![c] = w]
    BY <1>1, <2>1 DEF fetchReputation
  <2> QED BY <1>0, <2>2, <2>3, ClientsOKNext
<1>2. CASE Fetch(c)
  <2>1. PICK w \in Walk : client[c] = w
    BY <1>2 DEF Fetch, Is, TypeOK, Kept
  <2>2. PICK page \in Pages(w.cursor) :
          LET next == nextCursor(page, w.cursor) IN
          client' = [client EXCEPT ![c].got = @ \o [i \in DOMAIN page |-> page[i].att],
                                   ![c].cursor = next,
                                   ![c].pc = IF next = 0 THEN "done" ELSE "next"]
    BY <1>2, <2>1 DEF Fetch
  <2>3. PICK next : next = nextCursor(page, w.cursor)
    OBVIOUS
  <2>4. PICK v : v = [w EXCEPT !.got = @ \o [i \in DOMAIN page |-> page[i].att],
                               !.cursor = next,
                               !.pc = IF next = 0 THEN "done" ELSE "next"]
    OBVIOUS
  <2>5. client' = [client EXCEPT ![c] = v]
    BY <2>1, <2>2, <2>3, <2>4 DEF TypeOK
  <2>6. v \in Walk
    BY <2>3, <2>4, ReadWalkType
  <2> QED BY <1>0, <2>5, <2>6, ClientsOKNext DEF Walk
<1>3. CASE Refused(c)
  <2>1. PICK w \in Walk : client[c] = w
    BY <1>3 DEF Refused, Is, TypeOK, Kept
  <2>2. PICK v : v = [w EXCEPT !.cursor = 0, !.pc = "done", !.owed = {}]
    OBVIOUS
  <2>3. v \in Walk
    BY <2>2 DEF Walk
  <2>4. client' = [client EXCEPT ![c] = v]
    BY <1>3, <2>1, <2>2 DEF Refused, TypeOK
  <2> QED BY <1>0, <2>3, <2>4, ClientsOKNext DEF Walk
<1>4. CASE Rejected(c)
  BY <1>0, <1>4, ClientsOKNext DEF Rejected
<1>5. ASSUME NEW of \in {"page", "summary"}, Ask(c, of) PROVE ClientsOK'
  <2>1. PICK w : w = [pc |-> "kept", of |-> of, etag |-> Summary, content |-> Content(of), epoch |-> epoch]
    OBVIOUS
  <2>2. w \in Kept
    BY <2>1, AnswerType, SummaryType, ContentType
  <2>3. client' = [client EXCEPT ![c] = w]
    BY <1>5, <2>1 DEF Ask, Answer
  <2> QED BY <1>0, <2>1, <2>2, <2>3, ClientsOKNext
<1>6. CASE AskSummary(c)
  <2>1. PICK w : w = [pc |-> "asked", of |-> "page", etag |-> Summary, content |-> {}, epoch |-> epoch]
    OBVIOUS
  <2>2. w \in Kept
    BY <2>1, AnswerType, SummaryType
  <2>3. client' = [client EXCEPT ![c] = w] /\ ~Sync /\ w.of = "page"
    BY <1>6, <2>1 DEF AskSummary
  <2> QED BY <1>0, <2>2, <2>3, ClientsOKNext
<1>7. CASE ReadPage(c)
  <2>1. PICK u \in Kept : client[c] = u
    BY <1>7 DEF ReadPage, Is, TypeOK, Walk
  <2>2. PICK w : w = [pc |-> "kept", of |-> "page", etag |-> u.etag, content |-> Content("page"), epoch |-> epoch]
    OBVIOUS
  <2>3. w \in Kept
    <3>1. u.etag \in ETag
      BY DEF Kept
    <3> QED BY <2>2, <3>1, AnswerType, ContentType
  <2>4. client' = [client EXCEPT ![c] = w]
    BY <1>7, <2>1, <2>2 DEF ReadPage, Answer
  <2> QED BY <1>0, <2>2, <2>3, <2>4, ClientsOKNext
<1> QED
  BY <1>1, <1>2, <1>3, <1>4, <1>5, <1>6, <1>7

ClientStep(c) ==
  \/ fetchReputation(c) \/ Fetch(c) \/ Refused(c) \/ Rejected(c)
  \/ (\E of \in {"page", "summary"} : Ask(c, of)) \/ AskSummary(c) \/ ReadPage(c)

LEMMA NextCases ==
  ASSUME Next
  PROVE  \/ \E p \in Payments, s \in {"released", "refunded"} : Settle(p, s)
         \/ \E att \in Attestation : Attest(att) \/ \E h \in Handlers : Verify(h, att)
         \/ \E h \in Handlers : Insert(h) \/ Draw(h) \/ Commit(h) \/ InsertThrows(h)
         \/ \E c \in Clients : ClientStep(c)
         \/ Restart
BY DEF Next, ClientStep

LEMMA TypeNext ==
  ASSUME TypeOK, RowsInv, HandlerInv, [Next]_vars
  PROVE  TypeOK'
<1>1. ASSUME NEW p \in Payments, NEW s \in {"released", "refunded"}, Settle(p, s) PROVE TypeOK'
  <2>1. UNCHANGED <<config, rows, last, handler, client, epoch>>
    BY <1>1 DEF Settle
  <2>2. pay' \in [Payments -> {"open", "released", "refunded"}]
    BY <1>1 DEF Settle, TypeOK
  <2> QED BY <2>1, <2>2, RowsStayOK, HandlersStayOK, ClientsStayOK, TypeParts DEF TypeOK
<1>2. ASSUME NEW att \in Attestation, Attest(att) PROVE TypeOK'
  <2>1. UNCHANGED <<config, pay, handler, client, epoch>> /\ RowsOK'
    BY <1>2, AddedRowsOK DEF Attest
  <2> QED BY <2>1, HandlersStayOK, ClientsStayOK, TypeParts DEF TypeOK
<1>3. ASSUME NEW att \in Attestation, NEW h \in Handlers, Verify(h, att) PROVE TypeOK'
  <2>1. UNCHANGED <<config, pay, rows, last, client, epoch>> /\ ~Prompt
    BY <1>3 DEF Verify
  <2>2. PICK w : w = [pc |-> "verified", att |-> att, seq |-> 0]
    OBVIOUS
  <2>3. w \in Post /\ w.pc = "verified"
    BY <2>2 DEF Post
  <2>4. handler' = [handler EXCEPT ![h] = w]
    BY <1>3, <2>2 DEF Verify
  <2>5. HandlersOK'
    BY <2>1, <2>3, <2>4, HandlersOKNext
  <2> QED BY <2>1, <2>5, RowsStayOK, ClientsStayOK, TypeParts DEF TypeOK
<1>4. ASSUME NEW h \in Handlers, Insert(h) PROVE TypeOK'
  <2>1. UNCHANGED <<config, pay, client, epoch>> /\ handler' = [handler EXCEPT ![h] = Idle]
    BY <1>4 DEF Insert
  <2>2. PICK w \in Post : handler[h] = w
    BY <1>4 DEF Insert, Stands, TypeOK
  <2>3. w.att \in Attestation /\ Add(w.att)
    BY <1>4, <2>2 DEF Insert, Post
  <2>4. HandlersOK'
    <3>1. ~Prompt
      BY <1>4 DEF Insert, Stands, TypeOK
    <3> QED BY <2>1, <3>1, HandlersOKNext
  <2> QED BY <2>1, <2>3, <2>4, AddedRowsOK, ClientsStayOK, TypeParts DEF TypeOK
<1>5. ASSUME NEW h \in Handlers, Draw(h) PROVE TypeOK'
  <2>1. UNCHANGED <<config, pay, rows, client, epoch>> /\ last' = last + 1 /\ ~Prompt /\ ~Sync
    BY <1>5 DEF Draw, Prompt
  <2>2. PICK u \in Post : handler[h] = u
    BY <1>5 DEF Draw, Stands, TypeOK
  <2>3. PICK w : w = [u EXCEPT !.pc = "drawn", !.seq = last + 1]
    OBVIOUS
  <2>4. w \in Post
    <3>1. last + 1 \in Nat
      BY DEF TypeOK
    <3> QED BY <2>3, <3>1 DEF Post
  <2>5. handler' = [handler EXCEPT ![h] = w]
    BY <1>5, <2>2, <2>3 DEF Draw, TypeOK
  <2>6. HandlersOK'
    BY <2>1, <2>4, <2>5, HandlersOKNext
  <2>7. RowsOK'
    BY <2>1 DEF TypeOK, RowsOK, Row
  <2> QED BY <2>1, <2>6, <2>7, ClientsStayOK, TypeParts DEF TypeOK
<1>6. ASSUME NEW h \in Handlers, Commit(h) PROVE TypeOK'
  <2>1. /\ UNCHANGED <<config, pay, client, epoch>> /\ handler' = [handler EXCEPT ![h] = Idle]
        /\ ~Prompt
    BY <1>6 DEF Commit, Stands, TypeOK
  <2>2. HandlersOK'
    BY <2>1, HandlersOKNext
  <2> QED BY <1>6, <2>1, <2>2, DrawnRowsOK, ClientsStayOK, TypeParts DEF TypeOK
<1>7. ASSUME NEW h \in Handlers, InsertThrows(h) PROVE TypeOK'
  <2>1. /\ UNCHANGED <<config, pay, rows, last, client, epoch>>
        /\ handler' = [handler EXCEPT ![h] = Idle] /\ ~Prompt
    BY <1>7 DEF InsertThrows, TypeOK
  <2>2. HandlersOK'
    BY <2>1, HandlersOKNext
  <2> QED BY <2>1, <2>2, RowsStayOK, ClientsStayOK, TypeParts DEF TypeOK
<1>8. ASSUME NEW c \in Clients, ClientStep(c) PROVE TypeOK'
  <2>1. ClientsOK' /\ UNCHANGED <<config, pay, rows, last, handler, epoch>>
    BY <1>8, ClientStepTyped DEF ClientStep
  <2> QED BY <2>1, RowsStayOK, HandlersStayOK, TypeParts DEF TypeOK
<1>9. CASE Restart
  <2>1. UNCHANGED <<config, pay>> /\ epoch' = epoch + 1
    BY <1>9 DEF Restart
  <2>2. RowsOK'
    BY <1>9 DEF Restart, TypeOK, RowsOK
  <2>3. HandlersOK'
    BY <1>9 DEF Restart, TypeOK, HandlersOK, Stands
  <2>4. ASSUME NEW c \in Clients
        PROVE  /\ client'[c] \in {Idle} \cup Walk \cup Kept
               /\ Is(c, "asked")' => FALSE
    <3>1. CASE Is(c, "asked")
      BY <1>9, <3>1 DEF Restart, Is
    <3>2. CASE ~Is(c, "asked") /\ store = "memory" /\ (Is(c, "next") \/ Is(c, "done"))
      <4>1. PICK w \in Walk : client[c] = w
        BY <3>2 DEF Is, TypeOK, Kept
      <4>2. PICK v : v = [w EXCEPT !.owed = {}]
        OBVIOUS
      <4>3. v \in Walk /\ client'[c] = v
        BY <1>9, <3>2, <4>1, <4>2 DEF Restart, Walk
      <4> QED BY <4>3 DEF Is, Walk
    <3>3. CASE ~Is(c, "asked") /\ ~(store = "memory" /\ (Is(c, "next") \/ Is(c, "done")))
      <4>1. client'[c] = client[c]
        BY <1>9, <3>3 DEF Restart
      <4> QED BY <3>3, <4>1 DEF TypeOK, Is
    <3> QED BY <3>1, <3>2, <3>3
  <2>5. ClientsOK'
    <3>1. client' = [c \in Clients |-> client'[c]]
      BY <1>9 DEF Restart
    <3>2. client' \in [Clients -> {Idle} \cup Walk \cup Kept]
      BY <2>4, <3>1
    <3> QED BY <2>4, <3>2 DEF ClientsOK
  <2>6. epoch' \in Nat
    BY <2>1 DEF TypeOK
  <2> QED BY <2>1, <2>2, <2>3, <2>5, <2>6, TypeParts DEF TypeOK
<1>10. CASE UNCHANGED vars
  BY <1>10, RowsStayOK, HandlersStayOK, ClientsStayOK, TypeParts DEF vars, config, TypeOK
<1> QED
  BY <1>1, <1>2, <1>3, <1>4, <1>5, <1>6, <1>7, <1>8, <1>9, <1>10, NextCases

----------------------------------------------------------------------------
(* The store and the requests that wait at it. *)

LEMMA AllOursStay ==
  ASSUME TypeOK, [Next]_vars
  PROVE  \A att \in Attestation : Ours(att) => Ours(att)'
<1>1. CASE Next
  BY <1>1, OursStays
<1>2. CASE UNCHANGED vars
  BY <1>2 DEF vars, Ours, Backed, Between
<1> QED
  BY <1>1, <1>2

LEMMA RowsStay ==
  ASSUME TypeOK, RowsInv, \A att \in Attestation : Ours(att) => Ours(att)', UNCHANGED rows
  PROVE  RowsInv'
<1>1. \A r \in rows : r.att \in Attestation
  BY DEF TypeOK, Row
<1>2. \A r \in rows' : Ours(r.att)'
  BY <1>1 DEF RowsInv
<1>3. IsFiniteSet(rows') /\ \A r, s \in rows' : r.att.id = s.att.id => r = s
  BY DEF RowsInv
<1> QED
  BY <1>2, <1>3 DEF RowsInv

LEMMA RowAdded ==
  ASSUME TypeOK, RowsInv, \A att \in Attestation : Ours(att) => Ours(att)',
         NEW att \in Attestation, Ours(att), Backing(att) = {},
         NEW r \in Row, r.att = att, rows' = rows \cup {r}
  PROVE  RowsInv'
<1>1. \A s \in rows : s.att \in Attestation
  BY DEF TypeOK, Row
<1>2. ASSUME NEW s \in rows' PROVE Ours(s.att)'
  <2>1. s.att \in Attestation /\ Ours(s.att)
    BY <1>1 DEF RowsInv
  <2> QED BY <2>1
<1>3. IsFiniteSet(rows')
  BY FS_AddElement DEF RowsInv
<1>4. \A s \in rows : s.att.id # r.att.id
  BY DEF Backing
<1>5. \A s, t \in rows' : s.att.id = t.att.id => s = t
  BY <1>4 DEF RowsInv
<1> QED
  BY <1>2, <1>3, <1>5 DEF RowsInv

LEMMA Added ==
  ASSUME TypeOK, RowsInv, \A att \in Attestation : Ours(att) => Ours(att)',
         NEW att \in Attestation, Ours(att), Add(att)
  PROVE  RowsInv'
<1>1. CASE Backing(att) = {}
  <2>1. PICK r \in Row : r = [seq |-> last + 1, att |-> att]
    <3>1. last + 1 \in Nat
      BY DEF TypeOK
    <3> QED BY <3>1 DEF Row
  <2>2. rows' = rows \cup {r} /\ r.att = att
    BY <1>1, <2>1 DEF Add
  <2> QED BY <1>1, <2>2, RowAdded
<1>2. CASE Backing(att) # {}
  BY <1>2, RowsStay DEF Add
<1> QED
  BY <1>1, <1>2

(* Requests that go on as they were, or are gone. *)
LEMMA HandlersStay ==
  ASSUME TypeOK, HandlerInv, \A att \in Attestation : Ours(att) => Ours(att)',
         \A h \in Handlers :
           \/ handler'[h] = Idle
           \/ /\ handler'[h] = handler[h]
              /\ Stands(h, "drawn") => last <= last' /\ \A r \in rows' : r.seq # handler[h].seq,
         last' \in Nat
  PROVE  HandlerInv'
<1>1. \A h \in Handlers : handler[h] # Idle => handler[h].att \in Attestation /\ handler[h].seq \in Nat
  BY DEF TypeOK, Post
<1>2. ASSUME NEW h \in Handlers, handler'[h] # Idle PROVE Ours(handler[h].att)' /\ handler'[h] = handler[h]
  <2>1. handler'[h] = handler[h]
    BY <1>2
  <2>2. PICK att \in Attestation : att = handler[h].att
    BY <1>1, <1>2, <2>1
  <2>3. Ours(att)'
    BY <1>2, <2>1, <2>2 DEF HandlerInv
  <2> QED BY <2>1, <2>2, <2>3 DEF Ours, Backed, Between
<1>3. \A h \in Handlers : Stands(h, "drawn")' => Stands(h, "drawn") /\ handler'[h] = handler[h]
  BY <1>2 DEF Stands
<1>4. ASSUME NEW h \in Handlers, Stands(h, "drawn")'
      PROVE  /\ handler'[h].seq > 0 /\ handler'[h].seq <= last'
             /\ \A r \in rows' : r.seq # handler'[h].seq
  <2>1. Stands(h, "drawn") /\ handler'[h] = handler[h] /\ handler[h] # Idle /\ handler'[h] # Idle
    BY <1>3, <1>4 DEF Stands
  <2>2. handler[h].seq > 0 /\ handler[h].seq <= last
    BY <2>1 DEF HandlerInv
  <2>3. last <= last' /\ \A r \in rows' : r.seq # handler[h].seq
    BY <2>1
  <2>4. handler[h].seq \in Nat /\ last \in Nat
    BY <1>1, <2>1 DEF TypeOK
  <2> QED BY <2>1, <2>2, <2>3, <2>4
<1>5. \A g, h \in Handlers : Stands(g, "drawn")' /\ Stands(h, "drawn")' /\ handler'[g].seq = handler'[h].seq => g = h
  BY <1>3 DEF HandlerInv
<1>6. \A h \in Handlers : handler'[h] # Idle => Ours(handler[h].att)'
  BY <1>2
<1> QED
  BY <1>2, <1>4, <1>5, <1>6 DEF HandlerInv

LEMMA StoreNext ==
  ASSUME TypeOK, RowsInv, HandlerInv, [Next]_vars
  PROVE  RowsInv' /\ HandlerInv'
<1>0. \A att \in Attestation : Ours(att) => Ours(att)'
  BY AllOursStay
<1>1. CASE UNCHANGED <<rows, last, handler>>
  BY <1>0, <1>1, RowsStay, HandlersStay DEF TypeOK, HandlerInv
<1>2. ASSUME NEW att \in Attestation, Attest(att) PROVE RowsInv' /\ HandlerInv'
  <2>1. Ours(att) /\ Add(att)
    BY <1>2, AcceptedIsOurs DEF Attest
  <2>2. RowsInv'
    BY <1>0, <2>1, Added
  <2>3. last' \in Nat
    BY <1>2 DEF Attest, Add, TypeOK
  <2>4. \A h \in Handlers : handler'[h] = Idle
    BY <1>2 DEF Attest, TypeOK
  <2> QED BY <1>0, <2>2, <2>3, <2>4, HandlersStay
<1>3. ASSUME NEW att \in Attestation, NEW h \in Handlers, Verify(h, att) PROVE RowsInv' /\ HandlerInv'
  <2>1. Ours(att)' /\ UNCHANGED <<pay, rows, last>>
    BY <1>0, <1>3, AcceptedIsOurs DEF Verify
  <2>2. PICK w : w = [pc |-> "verified", att |-> att, seq |-> 0]
    OBVIOUS
  <2>3. handler' = [handler EXCEPT ![h] = w] /\ w.pc = "verified" /\ w.att = att
    BY <1>3, <2>2 DEF Verify
  <2>4. HandlerInv'
    <3>1. \A g \in Handlers : handler'[g] = IF g = h THEN w ELSE handler[g]
      BY <2>3 DEF TypeOK
    <3>2. \A g \in Handlers : handler'[g] # Idle => Ours(handler'[g].att)
      BY <2>1, <2>3, <3>1 DEF HandlerInv, Ours, Backed, Between
    <3>3. \A g \in Handlers : Stands(g, "drawn")' => Stands(g, "drawn") /\ handler'[g] = handler[g]
      BY <2>3, <3>1 DEF Stands
    <3> QED BY <2>1, <3>2, <3>3 DEF HandlerInv, Ours, Backed, Between
  <2> QED BY <1>0, <2>1, <2>4, RowsStay
<1>4. ASSUME NEW h \in Handlers, Insert(h) PROVE RowsInv' /\ HandlerInv'
  <2>1. PICK w \in Post : handler[h] = w /\ Add(w.att) /\ Ours(w.att)
    BY <1>4 DEF Insert, Stands, TypeOK, HandlerInv
  <2>2. RowsInv'
    BY <1>0, <2>1, Added DEF Post
  <2>3. last' \in Nat
    BY <2>1 DEF Add, TypeOK
  <2>4. \A g \in Handlers : ~Stands(g, "drawn") /\ (handler'[g] = Idle \/ handler'[g] = handler[g])
    BY <1>4 DEF Insert, TypeOK
  <2> QED BY <1>0, <2>2, <2>3, <2>4, HandlersStay
<1>5. ASSUME NEW h \in Handlers, Draw(h) PROVE RowsInv' /\ HandlerInv'
  <2>1. UNCHANGED <<pay, rows>> /\ last' = last + 1 /\ last \in Nat
    BY <1>5 DEF Draw, TypeOK
  <2>2. PICK u \in Post : handler[h] = u /\ Ours(u.att)
    BY <1>5 DEF Draw, Stands, TypeOK, HandlerInv
  <2>3. PICK w : w = [u EXCEPT !.pc = "drawn", !.seq = last + 1]
    OBVIOUS
  <2>4. w.pc = "drawn" /\ w.seq = last + 1 /\ w.att = u.att
    BY <2>3 DEF Post
  <2>5. \A g \in Handlers : handler'[g] = IF g = h THEN w ELSE handler[g]
    BY <1>5, <2>2, <2>3 DEF Draw, TypeOK
  <2>6. \A g \in Handlers : Stands(g, "drawn") => handler[g].seq \in Nat /\ handler[g].seq <= last
    BY DEF Stands, TypeOK, Post, HandlerInv
  <2>7. \A g \in Handlers : Stands(g, "drawn")' => g = h \/ (Stands(g, "drawn") /\ handler'[g] = handler[g])
    BY <2>5 DEF Stands
  <2>8. \A r \in rows : r.seq \in Nat /\ r.seq <= last
    BY DEF TypeOK, Row
  <2>9. HandlerInv'
    <3>1. \A g \in Handlers : handler'[g] # Idle => Ours(handler'[g].att)
      BY <2>2, <2>4, <2>5 DEF HandlerInv
    <3>2. ASSUME NEW g \in Handlers, Stands(g, "drawn")'
          PROVE  /\ handler'[g].seq > 0 /\ handler'[g].seq <= last'
                 /\ \A r \in rows' : r.seq # handler'[g].seq
      <4>1. CASE g = h
        BY <2>1, <2>4, <2>5, <2>8, <4>1
      <4>2. CASE g # h
        BY <2>1, <2>6, <2>7, <3>2, <4>2 DEF HandlerInv
      <4> QED BY <4>1, <4>2
    <3>3. ASSUME NEW f \in Handlers, NEW g \in Handlers, Stands(f, "drawn")', Stands(g, "drawn")',
                 handler'[f].seq = handler'[g].seq
          PROVE  f = g
      <4>1. CASE f = h \/ g = h
        BY <2>1, <2>4, <2>5, <2>6, <2>7, <3>3, <4>1
      <4>2. CASE f # h /\ g # h
        BY <2>7, <3>3, <4>2 DEF HandlerInv
      <4> QED BY <4>1, <4>2
    <3> QED BY <2>1, <3>1, <3>2, <3>3 DEF HandlerInv, Ours, Backed, Between
  <2> QED BY <1>0, <2>1, <2>9, RowsStay
<1>6. ASSUME NEW h \in Handlers, Commit(h) PROVE RowsInv' /\ HandlerInv'
  <2>1. PICK w \in Post : handler[h] = w /\ Ours(w.att) /\ Stands(h, "drawn")
    BY <1>6 DEF Commit, Stands, TypeOK, HandlerInv
  <2>2. PICK r \in Row : r = [seq |-> w.seq, att |-> w.att]
    BY DEF Row, Post
  <2>3. rows' = rows \/ (Backing(w.att) = {} /\ rows' = rows \cup {r})
    BY <1>6, <2>1, <2>2 DEF Commit
  <2>4. RowsInv'
    BY <1>0, <2>1, <2>2, <2>3, RowsStay, RowAdded DEF Post
  <2>5. r.seq = handler[h].seq
    BY <2>1, <2>2
  <2>6. \A g \in Handlers : g # h => handler'[g] = handler[g]
    BY <1>6 DEF Commit, TypeOK
  <2>7. handler'[h] = Idle /\ last' = last /\ last \in Nat
    BY <1>6 DEF Commit, TypeOK
  <2>8. ASSUME NEW g \in Handlers, g # h, Stands(g, "drawn")
        PROVE  last <= last' /\ \A s \in rows' : s.seq # handler[g].seq
    BY <2>1, <2>3, <2>5, <2>7, <2>8 DEF HandlerInv
  <2> QED BY <1>0, <2>4, <2>6, <2>7, <2>8, HandlersStay
<1>7. ASSUME NEW h \in Handlers, InsertThrows(h) PROVE RowsInv' /\ HandlerInv'
  <2>1. UNCHANGED <<rows, last>> /\ last \in Nat
    BY <1>7 DEF InsertThrows, TypeOK
  <2>2. \A g \in Handlers : handler'[g] = Idle \/ handler'[g] = handler[g]
    BY <1>7 DEF InsertThrows, TypeOK
  <2> QED BY <1>0, <2>1, <2>2, RowsStay, HandlersStay DEF HandlerInv
<1>8. CASE Restart
  <2>1. \A h \in Handlers : handler'[h] = Idle
    BY <1>8 DEF Restart
  <2>2. last' \in Nat /\ (rows' = rows \/ rows' = {})
    BY <1>8 DEF Restart, TypeOK
  <2>3. RowsInv'
    BY <1>0, <2>2, RowsStay, FS_EmptySet DEF RowsInv
  <2> QED BY <1>0, <2>1, <2>2, <2>3, HandlersStay
<1>9. ASSUME NEW c \in Clients, ClientStep(c) PROVE UNCHANGED <<rows, last, handler>>
  BY <1>9 DEF ClientStep, fetchReputation, Fetch, Refused, Rejected, Ask, AskSummary, ReadPage
<1>10. ASSUME NEW p \in Payments, NEW s \in {"released", "refunded"}, Settle(p, s)
       PROVE  UNCHANGED <<rows, last, handler>>
  BY <1>10 DEF Settle
<1>11. CASE UNCHANGED vars
  BY <1>1, <1>11 DEF vars
<1> QED
  BY <1>1, <1>2, <1>3, <1>4, <1>5, <1>6, <1>7, <1>8, <1>9, <1>10, <1>11, NextCases

----------------------------------------------------------------------------
(* Walks. *)

LEMMA WalkGot ==
  ASSUME TypeOK, NEW w \in Walk
  PROVE  /\ DOMAIN w.got = 1..Len(w.got) /\ \A i \in DOMAIN w.got : w.got[i] \in Attestation
         /\ w.cursor \in Nat /\ w # Idle /\ w.pc \in {"next", "done"}
<1>1. w.got \in Seq(Attestation) /\ w.cursor \in Nat /\ w.pc \in {"next", "done"}
  BY DEF Walk
<1>2. w # Idle
  BY <1>1 DEF Idle
<1> QED
  BY <1>1, <1>2, LenProperties, ElementOfSeq

(* A walk that got more, or the same, and of which no more is owed. *)
LEMMA WalkMoved ==
  ASSUME TypeOK, WalkInv, \A att \in Attestation : Ours(att) => Ours(att)',
         NEW c \in Clients, NEW w \in Walk, client[c] = w,
         NEW v, client'[c] = v, v.got = w.got,
         v = w \/ v.owed = {}, rows \subseteq rows' \/ v.owed = {}
  PROVE  WalkOK(c)'
<1>1. /\ \A i \in DOMAIN w.got : Ours(w.got[i])
      /\ \A att \in w.owed : Got(w, att) \/ (w.pc = "next" /\ Ahead(w, att))
  BY WalkGot DEF WalkInv, WalkOK, Is
<1>2. \A i \in DOMAIN w.got : Ours(w.got[i])'
  BY <1>1, WalkGot
<1>3. \A i \in DOMAIN v.got : Ours(v.got[i])'
  BY <1>2
<1>4. ASSUME v = w, rows \subseteq rows', NEW att \in w.owed
      PROVE  Got(v, att) \/ (v.pc = "next" /\ Ahead(v, att)')
  BY <1>1, <1>4 DEF Ahead
<1>5. \A att \in v.owed : Got(v, att) \/ (v.pc = "next" /\ Ahead(v, att)')
  BY <1>4
<1> QED
  BY <1>3, <1>5 DEF WalkOK, Is, Got, Ahead, Ours, Backed, Between

LEMMA WalkBegun ==
  ASSUME TypeOK, NEW c \in Clients, fetchReputation(c)
  PROVE  WalkOK(c)'
<1>1. PICK w : w = [pc |-> "next", cursor |-> 0, got |-> <<>>, owed |-> {r.att : r \in rows}]
  OBVIOUS
<1>2. w.pc = "next" /\ w.cursor = 0 /\ w.owed = {r.att : r \in rows} /\ DOMAIN w.got = {}
  BY <1>1, NewWalkType
<1>3. client'[c] = w /\ rows' = rows
  BY <1>1 DEF fetchReputation, TypeOK
<1>4. \A r \in rows : r.seq > 0
  BY DEF TypeOK
<1>5. client'[c].pc = "next" /\ client'[c].cursor = 0 /\ client'[c].owed = {r.att : r \in rows'}
      /\ DOMAIN client'[c].got = {} /\ \A r \in rows' : r.seq > 0
  BY <1>2, <1>3, <1>4
<1>6. client'[c] # Idle
  BY <1>1, <1>3 DEF Idle
<1> QED
  BY <1>5, <1>6 DEF WalkOK, Is, Got, Ahead

LEMMA WalkRead ==
  ASSUME TypeOK, RowsInv, WalkInv, \A att \in Attestation : Ours(att) => Ours(att)',
         NEW c \in Clients, Fetch(c)
  PROVE  WalkOK(c)'
<1>1. PICK w \in Walk : client[c] = w /\ w.pc = "next"
  BY DEF Fetch, Is, TypeOK, Kept
<1>2. PICK page \in Pages(w.cursor) :
        LET next == nextCursor(page, w.cursor) IN
        client' = [client EXCEPT ![c].got = @ \o [i \in DOMAIN page |-> page[i].att],
                                 ![c].cursor = next,
                                 ![c].pc = IF next = 0 THEN "done" ELSE "next"]
  BY <1>1 DEF Fetch
<1>3. PICK next : next = nextCursor(page, w.cursor)
  OBVIOUS
<1>4. PICK atts, more : atts = [i \in DOMAIN page |-> page[i].att] /\ more = w.got \o atts
  OBVIOUS
<1>5. PICK v : v = [w EXCEPT !.got = more, !.cursor = next, !.pc = IF next = 0 THEN "done" ELSE "next"]
  OBVIOUS
<1>6. client'[c] = v
  BY <1>1, <1>2, <1>3, <1>4, <1>5 DEF TypeOK
<1>7. /\ v.got = more /\ v.cursor = next /\ v.owed = w.owed
      /\ v.pc = IF next = 0 THEN "done" ELSE "next"
  BY <1>5 DEF Walk
<1>8. w.got \in Seq(Attestation) /\ w.cursor \in Nat
  BY DEF Walk
<1>9. Joins(more, w.got, w.cursor)
  BY <1>4, <1>8, Appended
<1>10. /\ next \in Nat
       /\ next = 0 => After(w.cursor) = OnPage(w.cursor)
       /\ \A r \in After(w.cursor) : r \in OnPage(w.cursor) \/ r.seq > next
  BY <1>3, <1>8, CursorShape
<1>11. /\ \A i \in DOMAIN w.got : Ours(w.got[i]) /\ w.got[i] \in Attestation
       /\ \A att \in w.owed : Got(w, att) \/ Ahead(w, att)
  BY <1>1, WalkGot DEF WalkInv, WalkOK, Is
<1>12. \A r \in OnPage(w.cursor) : Ours(r.att) /\ r.att \in Attestation
  BY DEF OnPage, After, RowsInv, TypeOK, Row
<1>13. \A i \in DOMAIN more : Ours(more[i]) /\ more[i] \in Attestation
  BY <1>9, <1>11, <1>12 DEF Joins
<1>14. \A i \in DOMAIN v.got : Ours(v.got[i])'
  BY <1>7, <1>13
<1>15. ASSUME NEW att \in w.owed
       PROVE  (\E k \in DOMAIN more : more[k] = att) \/ (next # 0 /\ \E r \in rows : r.seq > next /\ r.att = att)
  <2>1. CASE Got(w, att)
    BY <1>9, <2>1 DEF Got, Joins
  <2>2. CASE Ahead(w, att)
    <3>1. PICK r \in After(w.cursor) : r.att = att
      BY <2>2 DEF Ahead, After
    <3>2. CASE r \in OnPage(w.cursor)
      BY <1>9, <3>1, <3>2 DEF Joins
    <3>3. CASE r \notin OnPage(w.cursor)
      <4>1. next # 0 /\ r.seq > next /\ r \in rows
        BY <1>10, <3>3 DEF After
      <4> QED BY <3>1, <4>1
    <3> QED BY <3>2, <3>3
  <2> QED BY <1>11, <2>1, <2>2
<1>16. rows' = rows
  BY DEF Fetch
<1>17. \A att \in v.owed : Got(v, att) \/ (v.pc = "next" /\ Ahead(v, att)')
  BY <1>7, <1>15, <1>16 DEF Got, Ahead
<1>18. v # Idle => (Is(c, "next")' <=> v.pc = "next")
  BY <1>6 DEF Is
<1>19. v # Idle
  BY <1>7 DEF Idle
<1> QED
  BY <1>6, <1>14, <1>17, <1>18, <1>19 DEF WalkOK, Got, Ahead, Ours, Backed, Between

LEMMA WalkUnmoved ==
  ASSUME TypeOK, WalkInv, \A att \in Attestation : Ours(att) => Ours(att)',
         NEW c \in Clients, client'[c] = client[c], rows \subseteq rows'
  PROVE  WalkOK(c)'
<1>1. CASE client[c] \in Walk
  BY <1>1, WalkMoved
<1>2. CASE client[c] \notin Walk
  <2>1. ~Is(c, "next") /\ ~Is(c, "done")
    BY <1>2 DEF Is, TypeOK, Kept
  <2> QED BY <2>1 DEF WalkOK, Is
<1> QED
  BY <1>1, <1>2

(* Rows are only added, while the process lives. *)
LEMMA RowsGrow ==
  ASSUME Next
  PROVE  rows \subseteq rows' \/ Restart
BY DEF Next, Settle, Attest, Verify, Insert, Draw, Commit, InsertThrows, Add,
       fetchReputation, Fetch, Refused, Rejected, Ask, AskSummary, ReadPage

LEMMA WalkNext ==
  ASSUME TypeOK, RowsInv, WalkInv, [Next]_vars
  PROVE  WalkInv'
<1>0. \A att \in Attestation : Ours(att) => Ours(att)'
  BY AllOursStay
<1> SUFFICES ASSUME NEW c \in Clients
             PROVE  WalkOK(c)'
  BY DEF WalkInv
<1>1. CASE client'[c] = client[c] /\ rows \subseteq rows'
  BY <1>0, <1>1, WalkUnmoved
<1>2. ASSUME NEW d \in Clients, ClientStep(d) PROVE WalkOK(c)'
  <2>1. rows' = rows /\ (c # d => client'[c] = client[c])
    BY <1>2 DEF ClientStep, fetchReputation, Fetch, Refused, Rejected, Ask, AskSummary, ReadPage,
                Answer, TypeOK
  <2>2. CASE c # d
    BY <1>1, <2>1, <2>2
  <2>3. CASE fetchReputation(c)
    BY <2>3, WalkBegun
  <2>4. CASE Fetch(c)
    BY <1>0, <2>4, WalkRead
  <2>5. CASE Refused(c)
    <3>1. PICK w \in Walk : client[c] = w
      BY <2>5 DEF Refused, Is, TypeOK, Kept
    <3>2. PICK v : v = [w EXCEPT !.cursor = 0, !.pc = "done", !.owed = {}]
      OBVIOUS
    <3>3. client'[c] = v /\ v.got = w.got /\ v.owed = {}
      BY <2>5, <3>1, <3>2 DEF Refused, TypeOK, Walk
    <3> QED BY <1>0, <3>1, <3>3, WalkMoved
  <2>6. CASE Rejected(c)
    BY <2>6 DEF Rejected, WalkOK, Is, TypeOK
  <2>7. ASSUME NEW of \in {"page", "summary"}, Ask(c, of) PROVE WalkOK(c)'
    <3>1. client'[c].pc = "kept"
      BY <2>7 DEF Ask, Answer, TypeOK
    <3> QED BY <3>1 DEF WalkOK, Is
  <2>8. CASE AskSummary(c) \/ ReadPage(c)
    <3>1. client'[c].pc \in {"asked", "kept"}
      BY <2>8 DEF AskSummary, ReadPage, Answer, TypeOK
    <3> QED BY <3>1 DEF WalkOK, Is
  <2> QED BY <1>2, <2>2, <2>3, <2>4, <2>5, <2>6, <2>7, <2>8 DEF ClientStep
<1>3. CASE Restart
  <2>1. CASE Is(c, "asked")
    BY <1>3, <2>1 DEF Restart, WalkOK, Is
  <2>2. CASE ~Is(c, "asked") /\ store = "memory" /\ (Is(c, "next") \/ Is(c, "done"))
    <3>1. PICK w \in Walk : client[c] = w
      BY <2>2 DEF Is, TypeOK, Kept
    <3>2. PICK v : v = [w EXCEPT !.owed = {}]
      OBVIOUS
    <3>3. client'[c] = v /\ v.got = w.got /\ v.owed = {}
      BY <1>3, <2>2, <3>1, <3>2 DEF Restart, Walk
    <3> QED BY <1>0, <3>1, <3>3, WalkMoved
  <2>3. CASE ~Is(c, "asked") /\ store = "memory" /\ ~(Is(c, "next") \/ Is(c, "done"))
    BY <1>3, <2>3 DEF Restart, WalkOK, Is
  <2>4. CASE ~Is(c, "asked") /\ store # "memory"
    <3>1. client'[c] = client[c] /\ rows' = rows
      BY <1>3, <2>4 DEF Restart
    <3> QED BY <1>1, <3>1
  <2> QED BY <2>1, <2>2, <2>3, <2>4
<1>4. CASE UNCHANGED vars
  BY <1>1, <1>4 DEF vars
<1>5. CASE Next /\ UNCHANGED client
  BY <1>1, <1>3, <1>5, RowsGrow
<1>6. ASSUME NEW p \in Payments, NEW s \in {"released", "refunded"}, Settle(p, s) PROVE UNCHANGED client
  BY <1>6 DEF Settle
<1>7. ASSUME NEW att \in Attestation, Attest(att) PROVE UNCHANGED client
  BY <1>7 DEF Attest
<1>8. ASSUME NEW att \in Attestation, NEW h \in Handlers, Verify(h, att) PROVE UNCHANGED client
  BY <1>8 DEF Verify
<1>9. ASSUME NEW h \in Handlers, Insert(h) \/ Draw(h) \/ Commit(h) \/ InsertThrows(h)
      PROVE  UNCHANGED client
  BY <1>9 DEF Insert, Draw, Commit, InsertThrows
<1> QED
  BY <1>2, <1>3, <1>4, <1>5, <1>6, <1>7, <1>8, <1>9, NextCases

----------------------------------------------------------------------------
(* Answers that are kept. *)

LEMMA ContentIs ==
  Content("summary") = ContentOf("summary", rows) /\ Content("page") = ContentOf("page", rows)
BY DEF Content, ContentOf, PageOf, OnPage, After

LEMMA KeptType ==
  ASSUME TypeOK, NEW c \in Clients, Keeps(c)
  PROVE  /\ client[c] \in Kept /\ client[c].etag[1] \in Nat /\ client[c].epoch \in Nat
         /\ client[c].of \in {"page", "summary"}
BY DEF TypeOK, Keeps, Is, Walk, Kept, ETag

LEMMA KeptUnmoved ==
  ASSUME TypeOK, TypeOK', RowsInv, RowsInv', KeptInv, NEW c \in Clients,
         client'[c] = client[c], UNCHANGED config, epoch <= epoch',
         Held(c)' => rows \subseteq rows'
  PROVE  KeptOK(c)'
<1> SUFFICES ASSUME Keeps(c)'
             PROVE  /\ client'[c].epoch <= epoch'
                    /\ Held(c)' =>
                         /\ client'[c].etag[1] <= Cardinality(rows')
                         /\ Is(c, "kept")' =>
                              \E R \in SUBSET rows' : /\ client'[c].content = ContentOf(client'[c].of, R)
                                                      /\ client'[c].etag[1] <= Cardinality(R)
  BY DEF KeptOK
<1>1. Keeps(c) /\ (Is(c, "kept")' <=> Is(c, "kept"))
  BY DEF Keeps, Is
<1>2. /\ client[c].epoch <= epoch /\ client[c].epoch \in Nat /\ epoch \in Nat /\ epoch' \in Nat
      /\ client[c].etag[1] \in Nat
  BY <1>1, KeptType DEF KeptInv, KeptOK, TypeOK
<1>3. ASSUME Held(c)'
      PROVE  /\ client[c].etag[1] <= Cardinality(rows')
             /\ Is(c, "kept") => \E R \in SUBSET rows' : /\ client[c].content = ContentOf(client[c].of, R)
                                                         /\ client[c].etag[1] <= Cardinality(R)
  <2>1. Held(c)
    BY <1>1, <1>2, <1>3 DEF Held, config
  <2>2. /\ client[c].etag[1] <= Cardinality(rows)
        /\ Is(c, "kept") => \E R \in SUBSET rows : /\ client[c].content = ContentOf(client[c].of, R)
                                                   /\ client[c].etag[1] <= Cardinality(R)
    BY <1>1, <2>1 DEF KeptInv, KeptOK
  <2>3. IsFiniteSet(rows') /\ rows \subseteq rows'
    BY <1>3 DEF RowsInv
  <2>4. Cardinality(rows) <= Cardinality(rows') /\ Cardinality(rows') \in Nat /\ Cardinality(rows) \in Nat
    BY <2>3, FS_Subset, FS_CardinalityType DEF RowsInv
  <2> QED BY <1>2, <2>2, <2>3, <2>4
<1> QED
  BY <1>1, <1>2, <1>3

(* An answer that was just read. *)
LEMMA KeptRead ==
  ASSUME TypeOK, RowsInv, NEW c \in Clients, UNCHANGED <<config, rows, epoch>>,
         NEW of \in {"page", "summary"}, NEW etag \in ETag, etag[1] <= Cardinality(rows),
         client'[c] = [pc |-> "kept", of |-> of, etag |-> etag, content |-> Content(of), epoch |-> epoch]
  PROVE  KeptOK(c)'
<1>1. PICK w : w = [pc |-> "kept", of |-> of, etag |-> etag, content |-> Content(of), epoch |-> epoch]
  OBVIOUS
<1>2. /\ client'[c] = w /\ w.pc = "kept" /\ w.of = of /\ w.etag = etag
      /\ w.content = ContentOf(of, rows) /\ w.epoch = epoch
  BY <1>1, ContentIs
<1>3. epoch' = epoch /\ epoch \in Nat /\ rows' = rows
  BY DEF TypeOK
<1>4. \E R \in SUBSET rows' : w.content = ContentOf(w.of, R) /\ w.etag[1] <= Cardinality(R)
  BY <1>2, <1>3
<1> QED
  BY <1>2, <1>3, <1>4 DEF KeptOK, Held

LEMMA KeptNext ==
  ASSUME TypeOK, TypeOK', RowsInv, RowsInv', KeptInv, [Next]_vars
  PROVE  KeptInv'
<1> SUFFICES ASSUME NEW c \in Clients
             PROVE  KeptOK(c)'
  BY DEF KeptInv
<1>0. epoch \in Nat
  BY DEF TypeOK
<1>1. CASE client'[c] = client[c] /\ UNCHANGED <<config, epoch>> /\ rows \subseteq rows'
  BY <1>0, <1>1, KeptUnmoved
<1>2. ASSUME NEW d \in Clients, ClientStep(d) PROVE KeptOK(c)'
  <2>1. UNCHANGED <<config, rows, epoch>> /\ (c # d => client'[c] = client[c])
    BY <1>2 DEF ClientStep, fetchReputation, Fetch, Refused, Rejected, Ask, AskSummary, ReadPage,
                Answer, TypeOK
  <2>2. CASE c # d
    BY <1>1, <2>1, <2>2
  <2>3. CASE fetchReputation(c) \/ Rejected(c)
    BY <2>3 DEF fetchReputation, Rejected, KeptOK, Keeps, Is, TypeOK
  <2>4. CASE Fetch(c) \/ Refused(c)
    <3>1. client'[c].pc \in {"next", "done"}
      <4>1. PICK w \in Walk : client[c] = w
        BY <2>4 DEF Fetch, Refused, Is, TypeOK, Kept
      <4>2. CASE Refused(c)
        BY <4>1, <4>2 DEF Refused, TypeOK, Walk
      <4>3. CASE Fetch(c)
        <5>1. PICK page : 
                LET next == nextCursor(page, w.cursor) IN
                client' = [client EXCEPT ![c].got = @ \o [i \in DOMAIN page |-> page[i].att],
                                         ![c].cursor = next,
                                         ![c].pc = IF next = 0 THEN "done" ELSE "next"]
          BY <4>1, <4>3 DEF Fetch
        <5>2. client'[c].pc = IF nextCursor(page, w.cursor) = 0 THEN "done" ELSE "next"
          BY <4>1, <5>1 DEF TypeOK, Walk
        <5> QED BY <5>2
      <4> QED BY <2>4, <4>2, <4>3
    <3> QED BY <3>1 DEF KeptOK, Keeps, Is
  <2>5. ASSUME NEW of \in {"page", "summary"}, Ask(c, of) PROVE KeptOK(c)'
    <3>1. client'[c] = [pc |-> "kept", of |-> of, etag |-> Summary, content |-> Content(of), epoch |-> epoch]
      BY <2>5 DEF Ask, Answer, TypeOK
    <3>2. Summary \in ETag /\ Summary[1] <= Cardinality(rows)
      BY SummaryType
    <3> QED BY <1>2, <2>1, <2>5, <3>1, <3>2, KeptRead DEF config
  <2>6. CASE AskSummary(c)
    <3>1. PICK w : w = [pc |-> "asked", of |-> "page", etag |-> Summary, content |-> {}, epoch |-> epoch]
      OBVIOUS
    <3>2. client'[c] = w /\ w.pc = "asked" /\ w.etag = Summary /\ w.epoch = epoch
      BY <2>6, <3>1 DEF AskSummary, TypeOK
    <3>3. Summary[1] <= Cardinality(rows)
      BY SummaryType
    <3>4. rows' = rows /\ epoch' = epoch
      BY <2>6 DEF AskSummary
    <3>5. client'[c].pc = "asked" /\ client'[c].etag[1] <= Cardinality(rows') /\ client'[c].epoch <= epoch'
      BY <1>0, <3>2, <3>3, <3>4
    <3> QED BY <3>5 DEF KeptOK, Is
  <2>7. CASE ReadPage(c)
    <3>1. Is(c, "asked") /\ Keeps(c) /\ Held(c)
      BY <2>7 DEF ReadPage, Keeps, Held, TypeOK, Sync
    <3>2. PICK u \in Kept : client[c] = u
      BY <3>1, KeptType
    <3>3. u.etag \in ETag /\ u.etag[1] <= Cardinality(rows)
      BY <3>1, <3>2 DEF Kept, KeptInv, KeptOK
    <3>4. client'[c] = [pc |-> "kept", of |-> "page", etag |-> u.etag, content |-> Content("page"), epoch |-> epoch]
      BY <2>7, <3>2 DEF ReadPage, Answer, TypeOK
    <3> QED BY <2>1, <3>3, <3>4, KeptRead DEF config
  <2> QED BY <1>2, <2>2, <2>3, <2>4, <2>5, <2>6, <2>7 DEF ClientStep
<1>3. CASE Restart
  <2>1. CASE ~Keeps(c) \/ Is(c, "asked")
    <3>1. CASE Is(c, "asked")
      BY <1>3, <3>1 DEF Restart, KeptOK, Keeps, Is
    <3>2. CASE ~Keeps(c) /\ (Is(c, "next") \/ Is(c, "done"))
      <4>1. PICK w \in Walk : client[c] = w
        BY <3>2 DEF Is, TypeOK, Kept
      <4>2. client'[c].pc \in {"next", "done"}
        BY <1>3, <3>2, <4>1 DEF Restart, Keeps, Is, Walk
      <4> QED BY <4>2 DEF KeptOK, Keeps, Is
    <3>3. CASE ~Keeps(c) /\ ~(Is(c, "next") \/ Is(c, "done"))
      <4>1. client'[c] = client[c]
        BY <1>3, <3>3 DEF Restart, Keeps
      <4> QED BY <3>3, <4>1 DEF KeptOK, Keeps, Is
    <3> QED BY <2>1, <3>1, <3>2, <3>3
  <2>2. CASE Keeps(c) /\ ~Is(c, "asked")
    <3>1. client'[c] = client[c]
      BY <1>3, <2>2 DEF Restart, Keeps, Is
    <3>2. UNCHANGED config /\ epoch' = epoch + 1
      BY <1>3 DEF Restart
    <3>3. client[c].epoch <= epoch /\ client[c].epoch \in Nat
      BY <2>2, KeptType DEF KeptInv, KeptOK
    <3>4. Held(c)' => rows \subseteq rows'
      <4>1. CASE store = "memory"
        BY <1>0, <3>1, <3>2, <3>3, <4>1 DEF Held, config
      <4>2. CASE store # "memory"
        BY <1>3, <4>2 DEF Restart
      <4> QED BY <4>1, <4>2
    <3> QED BY <1>0, <3>1, <3>2, <3>4, KeptUnmoved
  <2> QED BY <2>1, <2>2
<1>4. CASE UNCHANGED vars
  BY <1>1, <1>4 DEF vars, config
<1>5. ASSUME NEW p \in Payments, NEW s \in {"released", "refunded"}, Settle(p, s) PROVE KeptOK(c)'
  BY <1>1, <1>5 DEF Settle
<1>6. ASSUME NEW att \in Attestation, Attest(att) PROVE KeptOK(c)'
  BY <1>1, <1>6 DEF Attest, Add
<1>7. ASSUME NEW att \in Attestation, NEW h \in Handlers, Verify(h, att) PROVE KeptOK(c)'
  BY <1>1, <1>7 DEF Verify
<1>8. ASSUME NEW h \in Handlers, Insert(h) \/ Draw(h) \/ Commit(h) \/ InsertThrows(h) PROVE KeptOK(c)'
  BY <1>1, <1>8 DEF Insert, Draw, Commit, InsertThrows, Add
<1> QED
  BY <1>2, <1>3, <1>4, <1>5, <1>6, <1>7, <1>8, NextCases

----------------------------------------------------------------------------
(* The inductive invariant. *)

LEMMA InvInit == Init => Inv
<1> SUFFICES ASSUME Init
             PROVE  Inv
  OBVIOUS
<1>1. TypeOK
  BY TypeInit
<1>2. RowsInv
  BY FS_EmptySet DEF Init, RowsInv
<1>3. HandlerInv /\ WalkInv /\ KeptInv
  BY DEF Init, HandlerInv, WalkInv, WalkOK, KeptInv, KeptOK, Keeps, Is, Stands
<1> QED
  BY <1>1, <1>2, <1>3 DEF Inv

LEMMA InvNext == Inv /\ [Next]_vars => Inv'
<1> SUFFICES ASSUME Inv, [Next]_vars
             PROVE  Inv'
  OBVIOUS
<1>1. TypeOK /\ RowsInv /\ HandlerInv /\ WalkInv /\ KeptInv
  BY DEF Inv
<1>2. TypeOK'
  BY <1>1, TypeNext
<1>3. RowsInv' /\ HandlerInv'
  BY <1>1, StoreNext
<1>4. WalkInv'
  BY <1>1, WalkNext
<1>5. KeptInv'
  BY <1>1, <1>2, <1>3, KeptNext
<1> QED
  BY <1>2, <1>3, <1>4, <1>5 DEF Inv

LEMMA Invariance == Spec => []Inv
BY InvInit, InvNext, PTL DEF Spec

(* The store, the requests and the readers are always of their types, and  *)
(* the seqs of the rows are distinct and were given.                       *)
THEOREM TypeCorrect == Spec => []TypeOK
<1>1. Inv => TypeOK
  BY DEF Inv
<1> QED
  BY <1>1, Invariance, PTL

(* Whatever POST /attest requests race, an escrowId as it is written is in *)
(* the store once; what is stored is about this node, and was paid for by  *)
(* its issuer unless a made-up rail vouches for it.                        *)
THEOREM OneEachHolds == Spec => []OneEach
<1>1. Inv => OneEach
  BY DEF Inv, RowsInv, Ours, OneEach
<1> QED
  BY <1>1, Invariance, PTL

(* ---- What a reader computes of a walk that is done. ---- *)

LEMMA DoneWalk ==
  ASSUME Inv, NEW c \in Clients, Is(c, "done")
  PROVE  \E w \in Walk : /\ client[c] = w /\ DOMAIN w.got \subseteq Nat
                         /\ \A i \in DOMAIN w.got : Ours(w.got[i]) /\ w.got[i] \in Attestation
                         /\ \A att \in w.owed : Got(w, att)
<1>1. PICK w \in Walk : client[c] = w /\ w.pc = "done"
  BY DEF Inv, TypeOK, Is, Kept
<1>2. DOMAIN w.got = 1..Len(w.got) /\ w # Idle
  BY WalkGot DEF Inv
<1>3. /\ \A i \in DOMAIN w.got : Ours(w.got[i])
      /\ \A att \in w.owed : Got(w, att)
  BY <1>1, <1>2 DEF Inv, WalkInv, WalkOK, Is
<1>4. \A i \in DOMAIN w.got : w.got[i] \in Attestation
  BY WalkGot DEF Inv
<1> QED
  BY <1>1, <1>2, <1>3, <1>4

(* Each attestation that a reader counts was paid for, or a made-up rail   *)
(* vouches for it, whatever pages it was given; and it counts one for an   *)
(* escrowId, thus one for a payment that is not on chain.                  *)
THEOREM TrustIsEarnedHolds == Spec => []TrustIsEarned
<1>1. Inv => TrustIsEarned
  <2> SUFFICES ASSUME Inv, NEW c \in Clients, Is(c, "done"),
                      NEW how \in {"sync", "chain"}, NEW revs \in Lists(client[c].got)
               PROVE  LET atts == client[c].got
                          C    == Counted(atts, revs, how)
                      IN  /\ \A i \in C : Backed(atts[i])
                          /\ \A i, j \in C :
                               \/ atts[i].id = atts[j].id
                               \/ atts[i].settlement = atts[j].settlement /\ atts[i].settlement \notin OnChain
                               => i = j
    BY DEF TrustIsEarned
  <2>1. PICK atts : atts = client[c].got
    OBVIOUS
  <2>2. DOMAIN atts \subseteq Nat /\ \A i \in DOMAIN atts : Backed(atts[i]) /\ atts[i] \in Attestation
    BY <2>1, DoneWalk DEF Ours
  <2>3. \A i \in Counted(atts, revs, how) : i \in DOMAIN atts /\ i \in Standing(atts, revs, how)
    BY DEF Counted, Standing
  <2>4. ASSUME NEW i \in Counted(atts, revs, how), NEW j \in Counted(atts, revs, how),
               \/ atts[i].id = atts[j].id
               \/ atts[i].settlement = atts[j].settlement /\ atts[i].settlement \notin OnChain
        PROVE  i = j
    <3>1. atts[i].id = atts[j].id
      <4>1. CASE atts[i].settlement = atts[j].settlement /\ atts[i].settlement \notin OnChain
        <5>1. PICK p \in Payments \ OnChain : p = atts[i].settlement /\ p = atts[j].settlement
          BY <2>2, <2>3, <4>1 DEF Attestation
        <5>2. atts[i].id \in Terms[p].ids /\ atts[j].id \in Terms[p].ids
          BY <2>2, <2>3, <5>1 DEF Attestation
        <5> QED BY <5>2, ReputationAssumption
      <4> QED BY <2>4, <4>1
    <3>2. ~(i < j) /\ ~(j < i)
      BY <2>3, <3>1 DEF Counted
    <3>3. i \in Nat /\ j \in Nat
      BY <2>2, <2>3
    <3> QED BY <3>2, <3>3
  <2> QED BY <2>1, <2>2, <2>3, <2>4
<1> QED
  BY <1>1, Invariance, PTL

LEMMA ListShape ==
  ASSUME NEW atts, NEW revs \in Lists(atts)
  PROVE  /\ DOMAIN revs \subseteq Nat /\ IsFiniteSet(DOMAIN revs)
         /\ \A k \in DOMAIN revs :
              revs[k] = [attestation |-> revs[k].attestation, issued_by |-> revs[k].issued_by]
<1>1. PICK n \in 0..MaxRevs :
        revs \in [1..n -> [attestation : {atts[i] : i \in DOMAIN atts}, issued_by : Agents]]
  BY DEF Lists
<1>2. DOMAIN revs = 1..n /\ IsFiniteSet(1..n)
  BY <1>1, FS_Interval
<1> QED
  BY <1>1, <1>2

(* What verifies and is not counted was revoked by its issuer, or another  *)
(* of its escrow counts; what its issuer revoked counts only if somebody   *)
(* else revoked it later.                                                  *)
THEOREM RevocationIsOwnHolds == Spec => []RevocationIsOwn
<1>1. Inv => RevocationIsOwn
  <2> SUFFICES ASSUME Inv, NEW c \in Clients, Is(c, "done"),
                      NEW how \in {"sync", "chain"}, NEW revs \in Lists(client[c].got),
                      NEW i \in DOMAIN client[c].got
               PROVE  LET atts == client[c].got
                          C    == Counted(atts, revs, how)
                          own  == {k \in DOMAIN revs : revs[k] = [attestation |-> atts[i], issued_by |-> atts[i].issued_by]}
                      IN  /\ Verified(how, atts[i]) /\ i \notin C =>
                               own # {} \/ \E j \in C : atts[j].id = atts[i].id
                          /\ own # {} /\ i \in C =>
                               \E k \in DOMAIN revs : revs[k].attestation = atts[i] /\ k \notin own
    BY DEF RevocationIsOwn
  <2>1. PICK atts : atts = client[c].got
    OBVIOUS
  <2>2. DOMAIN atts \subseteq Nat /\ i \in DOMAIN atts
    BY <2>1, DoneWalk
  <2>3. /\ DOMAIN revs \subseteq Nat /\ IsFiniteSet(DOMAIN revs)
        /\ \A k \in DOMAIN revs :
             revs[k] = [attestation |-> revs[k].attestation, issued_by |-> revs[k].issued_by]
    BY ListShape
  <2>4. PICK own : own = {k \in DOMAIN revs : revs[k] = [attestation |-> atts[i], issued_by |-> atts[i].issued_by]}
    OBVIOUS
  <2>5. \A k \in own : revs[k].attestation = atts[i] /\ revs[k].issued_by = atts[i].issued_by
    BY <2>4
  <2>6. \A k \in DOMAIN revs :
          revs[k].attestation = atts[i] /\ revs[k].issued_by = atts[i].issued_by => k \in own
    BY <2>3, <2>4
  <2>7. ASSUME Verified(how, atts[i]), own = {}
        PROVE  \E j \in Counted(atts, revs, how) : atts[j].id = atts[i].id
    <3>1. i \in Standing(atts, revs, how)
      BY <2>2, <2>6, <2>7 DEF Standing, RevokedBy
    <3>2. PICK S : S = {j \in Standing(atts, revs, how) : atts[j].id = atts[i].id}
      OBVIOUS
    <3>3. S \subseteq Nat /\ S # {}
      BY <2>2, <3>1, <3>2 DEF Standing
    <3>4. PICK j \in S : \A k \in S : j <= k
      BY <3>3, Smallest
    <3>5. \A k \in Standing(atts, revs, how) : k < j => atts[k].id # atts[j].id
      <4> SUFFICES ASSUME NEW k \in Standing(atts, revs, how), k < j, atts[k].id = atts[j].id
                   PROVE  FALSE
        OBVIOUS
      <4>1. k \in S
        BY <3>2
      <4> QED BY <3>3, <3>4, <4>1
    <3> QED BY <3>2, <3>5 DEF Counted
  <2>8. ASSUME own # {}, i \in Counted(atts, revs, how)
        PROVE  \E k \in DOMAIN revs : revs[k].attestation = atts[i] /\ k \notin own
    <3>1. own \subseteq DOMAIN revs /\ own \subseteq Nat
      BY <2>3, <2>4
    <3>2. IsFiniteSet(own)
      BY <2>3, <3>1, FS_Subset
    <3>3. PICK k \in own : \A m \in own : m <= k
      BY <2>8, <3>1, <3>2, Greatest
    <3>4. ~RevokedBy(revs, atts[i])
      BY <2>8 DEF Counted, Standing
    <3>5. PICK m \in DOMAIN revs : m > k /\ revs[m].attestation = atts[i]
      BY <2>5, <3>1, <3>4 DEF RevokedBy
    <3>6. m \notin own
      BY <2>3, <3>1, <3>3, <3>5
    <3> QED BY <3>5, <3>6
  <2> QED BY <2>1, <2>4, <2>7, <2>8
<1> QED
  BY <1>1, Invariance, PTL

(* A walk that reached the last page has all that was stored when it       *)
(* began, with any driver and any page size.                               *)
THEOREM WalkCompleteHolds == Spec => []WalkComplete
<1>1. Inv => WalkComplete
  <2> SUFFICES ASSUME Inv, NEW c \in Clients, Is(c, "done"), NEW att \in client[c].owed
               PROVE  att \in {client[c].got[i] : i \in DOMAIN client[c].got}
    BY DEF WalkComplete
  <2> QED BY DoneWalk DEF Got
<1> QED
  BY <1>1, Invariance, PTL

(* While the ETag a client holds is the node's, what it keeps is what it   *)
(* would get, whatever was stored between the summary and the page.        *)
THEOREM NotModifiedIsTrueHolds == Spec => []NotModifiedIsTrue
<1>1. Inv => NotModifiedIsTrue
  <2> SUFFICES ASSUME Inv, NEW c \in Clients, Matches(c), store = "memory" => client[c].epoch = epoch
               PROVE  client[c].content = Content(client[c].of)
    BY DEF NotModifiedIsTrue
  <2>1. Is(c, "kept") /\ Keeps(c) /\ Held(c) /\ client[c].etag = Summary
    BY DEF Matches, Keeps, Held
  <2>2. client[c].of \in {"page", "summary"}
    BY <2>1, KeptType DEF Inv
  <2>3. Summary[1] = Cardinality(rows) /\ Cardinality(rows) \in Nat /\ IsFiniteSet(rows)
    BY SummaryType DEF Inv, RowsInv
  <2>4. PICK R \in SUBSET rows : client[c].content = ContentOf(client[c].of, R)
                                 /\ Cardinality(rows) <= Cardinality(R)
    BY <2>1, <2>3 DEF Inv, KeptInv, KeptOK
  <2>5. Cardinality(R) <= Cardinality(rows) /\ Cardinality(R) \in Nat
        /\ (Cardinality(rows) = Cardinality(R) => rows = R)
    BY <2>3, FS_Subset, FS_CardinalityType
  <2>6. R = rows
    BY <2>3, <2>4, <2>5
  <2> QED BY <2>2, <2>4, <2>6, ContentIs
<1> QED
  BY <1>1, Invariance, PTL

=============================================================================
