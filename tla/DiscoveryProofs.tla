-------------------------- MODULE DiscoveryProofs --------------------------
(***************************************************************************)
(* Proofs about Discovery, for any nodes, clients, page size, lifetime of  *)
(* the cache and number of concurrent registrations.                       *)
(*                                                                         *)
(* A page says of one node at a time what is so: it is on the page if and  *)
(* only if it belongs between the page's two cursors.  That stays so until *)
(* the node is written, and by then the page is out of the cache, or too   *)
(* old, or the walk is not held to the node any more.                      *)
(***************************************************************************)
EXTENDS Discovery, FiniteSetTheorems, TLAPS

(* d belongs between a cursor and the next one. *)
Between(d, max, cursor, next) ==
  /\ Offering(d, max)
  /\ cursor = 0 \/ rev[d] < cursor
  /\ next = 0 \/ rev[d] >= next

(* What a page says of d is so. *)
Says(results, next, max, cursor, d) ==
  /\ \A x \in results : x.node = d => x = Current(d) /\ Between(d, max, cursor, next)
  /\ Between(d, max, cursor, next) => Current(d) \in results

Ordered(next, cursor) == next = 0 \/ cursor = 0 \/ next < cursor

(* What a walk at a cursor, or at its end, has seen of d. *)
Passed(d, max, cursor, pc) ==
  Offering(d, max) /\ (pc = "done" \/ (cursor # 0 /\ rev[d] >= cursor))

Right(seen, max, cursor, pc, d) ==
  /\ \A x \in seen : x.node = d => x = Current(d) /\ Passed(d, max, cursor, pc)
  /\ Passed(d, max, cursor, pc) => Current(d) \in seen

(* The nodes a walk is held to. *)
Held(w, d) == d \in w.settled \/ (Sync /\ d \notin w.excused)

(* Revisions are given once. *)
Drawn(h) == handler[h] # Idle /\ handler[h].pc = "drawn"

HandlerInv ==
  /\ \A h \in Handlers : handler[h] # Idle => handler[h].rev > 0 /\ handler[h].rev <= seq
  /\ \A h \in Handlers, d \in Nodes : Drawn(h) => rev[d] # handler[h].rev
  /\ \A g, h \in Handlers : Drawn(g) /\ Drawn(h) /\ handler[g].rev = handler[h].rev => g = h

First(h) == handler[h] # Idle /\ handler[h].first

FirstInv ==
  /\ \A d \in Nodes : firsts[d] <= 1 /\ (rev[d] = 0 => firsts[d] = 0)
  /\ \A h \in Handlers : First(h) =>
       ~Drawn(h) /\ rev[handler[h].node] > 0 /\ firsts[handler[h].node] = 0
  /\ \A g, h \in Handlers : First(g) /\ First(h) /\ handler[g].node = handler[h].node => g = h

(* An entry is right about what was not written since it was read. *)
EntryInv(x) ==
  /\ x.at <= now /\ Ordered(x.page.next, x.cursor)
  /\ \A d \in Nodes : Sync \/ recent[d] + (now - x.at) < Ttl =>
       Says(x.page.results, x.page.next, x.max, x.cursor, d)

(* So is a page on its way to the registry. *)
ReadInv(w) ==
  /\ Ordered(w.page.next, w.cursor)
  /\ \A d \in Nodes : d \in w.settled \/ recent[d] + (now - w.asked) < Ttl + MaxQuery =>
       Says(w.page.results, w.page.next, w.max, w.cursor, d)

WalkInv(w) ==
  /\ \A d \in w.settled : recent[d] = 0
  /\ \A d \in Nodes : Held(w, d) => Right(w.seen, w.max, w.cursor, w.pc, d)
  /\ w.pc \in {"asked", "read"} => w.asked <= now /\ now <= w.asked + MaxQuery
  /\ w.pc = "read" => ReadInv(w)

PagesInv ==
  /\ \A x \in cache : EntryInv(x)
  /\ \A u \in Walkers, w \in Walk : walk[u] = w => WalkInv(w)

Inv == TypeOK /\ HandlerInv /\ FirstInv /\ PagesInv

----------------------------------------------------------------------------
(* A page is right about every node. *)
LEMMA PageIsRight ==
  ASSUME TypeOK, NEW max \in Budgets, NEW cursor \in Nat, NEW page \in resolveByCapability(max, cursor)
  PROVE  /\ page \in Page
         /\ Ordered(page.next, cursor)
         /\ \A d \in Nodes : Says(page.results, page.next, max, cursor, d)
<1> DEFINE M == Matches(max, cursor)
           O == OnPage(max, cursor)
<1>1. PICK n \in nextCursor(max, cursor) : page = [results |-> {Current(d) : d \in O}, next |-> n]
  BY DEF resolveByCapability
<1>2. O \subseteq M /\ M \subseteq Nodes
  BY DEF OnPage, Matches
<1>3. \A d \in M : rev[d] \in Nat /\ rev[d] > 0 /\ (cursor = 0 \/ rev[d] < cursor)
  BY DEF Matches, Offering, TypeOK
<1>4. (n = 0 /\ O = M) \/ (\E l \in O : n = rev[l] /\ \A e \in O : rev[l] <= rev[e])
  BY DEF nextCursor, Last
<1>5. n \in Nat /\ (n = 0 \/ cursor = 0 \/ n < cursor)
  BY <1>2, <1>3, <1>4
<1>6. ASSUME NEW d \in M, NEW l \in O, rev[l] <= rev[d] PROVE d \in O
  <2>1. Newer(max, cursor, d) \subseteq Newer(max, cursor, l)
    BY <1>2, <1>3, <1>6 DEF Newer
  <2>2. IsFiniteSet(Newer(max, cursor, l))
    BY <1>2, DiscoveryAssumption, FS_Subset DEF Newer
  <2>3. Cardinality(Newer(max, cursor, d)) <= Cardinality(Newer(max, cursor, l))
        /\ IsFiniteSet(Newer(max, cursor, d))
    BY <2>1, <2>2, FS_Subset
  <2>4. Cardinality(Newer(max, cursor, d)) \in Nat /\ Cardinality(Newer(max, cursor, l)) \in Nat /\ Limit \in Nat
    BY <2>2, <2>3, FS_CardinalityType, DiscoveryAssumption
  <2>5. Cardinality(Newer(max, cursor, l)) < Limit
    BY <1>6 DEF OnPage
  <2> QED BY <2>3, <2>4, <2>5 DEF OnPage
<1>7. ASSUME NEW d \in M PROVE d \in O <=> (n = 0 \/ rev[d] >= n)
  BY <1>2, <1>3, <1>4, <1>6, <1>7
<1>8. ASSUME NEW d \in Nodes PROVE d \in O <=> Between(d, max, cursor, n)
  BY <1>2, <1>7 DEF Between, Matches
<1>9. ASSUME NEW d \in Nodes PROVE Current(d) \in Pointer /\ Current(d).node = d
  BY DEF Current, Pointer, TypeOK
<1>10. page.results = {Current(d) : d \in O} /\ page.next = n
  BY <1>1
<1>11. page \in Page
  BY <1>1, <1>2, <1>5, <1>9 DEF Page
<1>12. ASSUME NEW d \in Nodes PROVE Says(page.results, page.next, max, cursor, d)
  <2>1. ASSUME NEW x \in page.results, x.node = d PROVE x = Current(d) /\ d \in O
    BY <1>2, <1>9, <1>10, <2>1
  <2> QED BY <1>8, <1>10, <2>1 DEF Says
<1> QED BY <1>5, <1>10, <1>11, <1>12 DEF Ordered

(* Taking a page that is right about d leaves a walk right about d. *)
LEMMA TakingIsRight ==
  ASSUME TypeOK, NEW d \in Nodes, NEW max \in Budgets, NEW cursor \in Nat, NEW next \in Nat,
         NEW seen, NEW results, NEW pc, pc # "done", NEW then, then = IF next = 0 THEN "done" ELSE "next",
         Right(seen, max, cursor, pc, d), Says(results, next, max, cursor, d), Ordered(next, cursor)
  PROVE  Right(seen \cup results, max, next, then, d)
<1>1. rev[d] \in Nat
  BY DEF TypeOK
<1>2. Passed(d, max, next, then) <=> Passed(d, max, cursor, pc) \/ Between(d, max, cursor, next)
  BY <1>1 DEF Passed, Between, Ordered
<1>3. ASSUME NEW x \in seen \cup results, x.node = d
      PROVE  x = Current(d) /\ (Passed(d, max, cursor, pc) \/ Between(d, max, cursor, next))
  BY <1>3 DEF Right, Says
<1>4. Passed(d, max, cursor, pc) \/ Between(d, max, cursor, next) => Current(d) \in seen \cup results
  BY DEF Right, Says
<1> QED BY <1>2, <1>3, <1>4 DEF Right

(* What is said of a node stays so while its rows do. *)
LEMMA SaysStays ==
  ASSUME NEW d, rev'[d] = rev[d], price'[d] = price[d]
  PROVE  /\ \A results, next, max, cursor :
              Says(results, next, max, cursor, d) => Says(results, next, max, cursor, d)'
         /\ \A seen, max, cursor, pc :
              Right(seen, max, cursor, pc, d) => Right(seen, max, cursor, pc, d)'
BY DEF Says, Right, Passed, Between, Offering, Current

Same(d) == rev'[d] = rev[d] /\ price'[d] = price[d] /\ recent'[d] + now' >= recent[d] + now

(* An entry stays right, but about a node PostgreSQL has just written. *)
LEMMA EntryStays ==
  ASSUME TypeOK, TypeOK', NEW x \in Entry, EntryInv(x), now' >= now, store' = store,
         \A d \in Nodes : Same(d) \/ (~Sync /\ recent'[d] = Ttl + MaxQuery)
  PROVE  EntryInv(x)'
<1>1. x.at \in Nat /\ now \in Nat /\ now' \in Nat /\ Ttl \in Nat /\ MaxQuery \in Nat
  BY DiscoveryAssumption DEF TypeOK, Entry
<1>2. x.at <= now /\ Ordered(x.page.next, x.cursor)
  BY DEF EntryInv
<1>3. ASSUME NEW d \in Nodes, Sync' \/ recent'[d] + (now' - x.at) < Ttl
      PROVE  Says(x.page.results, x.page.next, x.max, x.cursor, d)'
  <2>1. recent[d] \in Nat /\ recent'[d] \in Nat
    BY DEF TypeOK
  <2>2. Same(d)
    BY <1>1, <1>2, <1>3, <2>1 DEF Sync
  <2>3. Sync \/ recent[d] + (now - x.at) < Ttl
    BY <1>1, <1>3, <2>1, <2>2 DEF Sync, Same
  <2>4. Says(x.page.results, x.page.next, x.max, x.cursor, d)
    BY <2>3 DEF EntryInv
  <2> QED BY <2>2, <2>4, SaysStays DEF Same
<1>4. x.at <= now'
  BY <1>1, <1>2
<1> QED BY <1>2, <1>3, <1>4 DEF EntryInv, Ordered

(* A walk stays right, but about a node it is not held to any more. *)
LEMMA WalkStays ==
  ASSUME TypeOK, TypeOK', NEW w \in Walk, NEW v \in Walk, WalkInv(w), now' >= now, store' = store,
         v.pc = w.pc, v.max = w.max, v.cursor = w.cursor, v.seen = w.seen, v.page = w.page,
         v.asked = w.asked, w.excused \subseteq v.excused, v.settled \subseteq w.settled,
         w.pc \in {"asked", "read"} => now' <= w.asked + MaxQuery,
         \A d \in Nodes :
           \/ Same(d) /\ (recent[d] = 0 => recent'[d] = 0)
           \/ d \in v.excused /\ d \notin v.settled /\ recent'[d] = Ttl + MaxQuery
  PROVE  WalkInv(v)'
<1>1. w.asked \in Nat /\ now \in Nat /\ now' \in Nat /\ Ttl \in Nat /\ MaxQuery \in Nat
  BY DiscoveryAssumption DEF TypeOK, Walk
<1>2. ASSUME NEW d \in v.settled PROVE recent'[d] = 0
  <2>1. d \in Nodes /\ d \in w.settled
    BY DEF Walk
  <2> QED BY <2>1 DEF WalkInv
<1>3. ASSUME NEW d \in Nodes, Held(v, d)' PROVE Right(v.seen, v.max, v.cursor, v.pc, d)'
  <2>1. Same(d) /\ Held(w, d)
    BY <1>3 DEF Held, Sync
  <2>2. Right(v.seen, v.max, v.cursor, v.pc, d)
    BY <2>1 DEF WalkInv
  <2> QED BY <2>1, <2>2, SaysStays DEF Same
<1>4. v.pc \in {"asked", "read"} => v.asked <= now' /\ now' <= v.asked + MaxQuery
  BY <1>1 DEF WalkInv
<1>5. ASSUME v.pc = "read" PROVE ReadInv(v)'
  <2>1. ReadInv(w) /\ w.asked <= now
    BY <1>5 DEF WalkInv
  <2>2. ASSUME NEW d \in Nodes, d \in v.settled \/ recent'[d] + (now' - v.asked) < Ttl + MaxQuery
        PROVE  Says(v.page.results, v.page.next, v.max, v.cursor, d)'
    <3>1. recent[d] \in Nat /\ recent'[d] \in Nat
      BY DEF TypeOK
    <3>2. Same(d)
      BY <1>1, <2>1, <2>2, <3>1
    <3>3. d \in w.settled \/ recent[d] + (now - w.asked) < Ttl + MaxQuery
      BY <1>1, <2>2, <3>1, <3>2 DEF Same
    <3>4. Says(v.page.results, v.page.next, v.max, v.cursor, d)
      BY <2>1, <3>3 DEF ReadInv
    <3> QED BY <3>2, <3>4, SaysStays DEF Same
  <2> QED BY <2>1, <2>2 DEF ReadInv, Ordered
<1> QED BY <1>2, <1>3, <1>4, <1>5 DEF WalkInv

(* A walk that took a page that is right about what it is held to. *)
LEMMA WalkTakes ==
  ASSUME TypeOK, NEW w \in Walk, NEW v \in Walk, NEW page \in Page, WalkInv(w), w.pc # "done",
         v.pc = IF page.next = 0 THEN "done" ELSE "next", v.max = w.max, v.cursor = page.next,
         v.seen = w.seen \cup page.results, v.excused = w.excused, v.settled = w.settled,
         Ordered(page.next, w.cursor),
         \A d \in Nodes : Held(w, d) => Says(page.results, page.next, w.max, w.cursor, d)
  PROVE  WalkInv(v)
<1>1. v.pc # "asked" /\ v.pc # "read"
  OBVIOUS
<1>2. ASSUME NEW d \in Nodes, Held(v, d) PROVE Right(v.seen, v.max, v.cursor, v.pc, d)
  <2>1. Held(w, d)
    BY <1>2 DEF Held
  <2>2. Right(w.seen, w.max, w.cursor, w.pc, d) /\ Says(page.results, page.next, w.max, w.cursor, d)
    BY <2>1 DEF WalkInv
  <2>3. w.max \in Budgets /\ w.cursor \in Nat /\ page.next \in Nat
    BY DEF Walk, Page
  <2>4. Right(w.seen \cup page.results, w.max, page.next, v.pc, d)
    BY ONLY <2>2, <2>3, TakingIsRight, TypeOK, d \in Nodes, w.pc # "done", Ordered(page.next, w.cursor),
            v.pc = IF page.next = 0 THEN "done" ELSE "next"
  <2> QED BY <2>4
<1>3. \A d \in v.settled : recent[d] = 0
  BY DEF WalkInv
<1> QED BY <1>1, <1>2, <1>3 DEF WalkInv

----------------------------------------------------------------------------
(* What a step does to the walks. *)

(* One walk moves. *)
LEMMA Moves ==
  ASSUME TypeOK, NEW u \in Walkers, NEW v, v \in {Idle} \cup Walk, walk' = [walk EXCEPT ![u] = v]
  PROVE  walk' \in [Walkers -> {Idle} \cup Walk] /\ walk'[u] = v /\ \A t \in Walkers \ {u} : walk'[t] = walk[t]
BY DEF TypeOK

(* A client takes a page. *)
LEMMA Takes ==
  ASSUME TypeOK, NEW u \in Walkers, walk[u] \in Walk, NEW page \in Page, Taken(u, page)
  PROVE  \E v \in Walk :
           /\ walk' = [walk EXCEPT ![u] = v]
           /\ v.pc = IF page.next = 0 THEN "done" ELSE "next"
           /\ v.max = walk[u].max /\ v.cursor = page.next /\ v.seen = walk[u].seen \cup page.results
           /\ v.excused = walk[u].excused /\ v.settled = walk[u].settled
<1>1. PICK w \in Walk : w = walk[u]
  OBVIOUS
<1> DEFINE v == [w EXCEPT !.seen = @ \cup page.results, !.cursor = page.next, !.page = NoPage, !.asked = 0,
                          !.pc = IF page.next = 0 THEN "done" ELSE "next"]
<1>2. walk' = [walk EXCEPT ![u] = v]
  BY <1>1 DEF Taken, TypeOK
<1>3. page.next \in Nat /\ page.results \subseteq Pointer
  BY DEF Page
<1>4. NoPage \in Page
  BY DEF NoPage, Page
<1>5. v \in Walk
  BY <1>3, <1>4 DEF Walk
<1>6. /\ v.pc = IF page.next = 0 THEN "done" ELSE "next"
      /\ v.max = w.max /\ v.cursor = page.next /\ v.seen = w.seen \cup page.results
      /\ v.excused = w.excused /\ v.settled = w.settled
  BY DEF Walk
<1> HIDE DEF v
<1> QED BY <1>1, <1>2, <1>5, <1>6

(* The cache after a page was put in it. *)
LEMMA Fills ==
  ASSUME TypeOK, NEW max \in Budgets, NEW cursor \in Nat, NEW page \in Page,
         NEW c, c = Filled(max, cursor, page)
  PROVE  /\ c \subseteq Entry
         /\ \A x, y \in c : x.max = y.max /\ x.cursor = y.cursor => x = y
         /\ \A x \in c : x \in cache \/
              (x.max = max /\ x.cursor = cursor /\ x.at = now /\ x.page = page)
<1>1. PICK n : n = [max |-> max, cursor |-> cursor, at |-> now, page |-> page]
  OBVIOUS
<1>2. n \in Entry
  BY <1>1 DEF Entry, TypeOK
<1>3. n.max = max /\ n.cursor = cursor /\ n.at = now /\ n.page = page
  BY <1>1
<1>4. c = {x \in cache : x.max # max \/ x.cursor # cursor} \cup {n}
  BY <1>1 DEF Filled
<1> QED BY <1>2, <1>3, <1>4 DEF TypeOK

(* A registration in PostgreSQL moves. *)
LEMMA Handles ==
  ASSUME TypeOK, NEW h \in Handlers, NEW k, k \in {Idle} \cup Upsert, handler' = [handler EXCEPT ![h] = k]
  PROVE  /\ handler' \in [Handlers -> {Idle} \cup Upsert] /\ handler'[h] = k
         /\ \A g \in Handlers \ {h} : handler'[g] = handler[g]
BY DEF TypeOK

(* A write marks its node in every walk. *)
LEMMA Writes ==
  ASSUME TypeOK, NEW d \in Nodes, Written(d)
  PROVE  /\ walk' \in [Walkers -> {Idle} \cup Walk]
         /\ \A u \in Walkers : walk[u] = Idle => walk'[u] = Idle
         /\ \A u \in Walkers : walk[u] \in Walk => \E v \in Walk : \E w \in Walk :
              /\ w = walk[u] /\ v = walk'[u]
              /\ v.pc = w.pc /\ v.max = w.max /\ v.cursor = w.cursor /\ v.seen = w.seen
              /\ v.page = w.page /\ v.asked = w.asked
              /\ v.excused = w.excused \cup {d} /\ v.settled = w.settled \ {d}
         /\ recent' \in [Nodes -> Nat] /\ recent'[d] = Ttl + MaxQuery
         /\ \A e \in Nodes \ {d} : recent'[e] = recent[e]
<1>1. recent' \in [Nodes -> Nat] /\ recent'[d] = Ttl + MaxQuery /\ \A e \in Nodes \ {d} : recent'[e] = recent[e]
  <2>1. recent' = [recent EXCEPT ![d] = Ttl + MaxQuery] /\ recent \in [Nodes -> Nat]
    BY DEF Written, TypeOK
  <2>2. Ttl + MaxQuery \in Nat
    BY DiscoveryAssumption
  <2> QED BY <2>1, <2>2
<1>2. \A u \in Walkers : walk[u] = Idle => walk'[u] = Idle
  BY DEF Written
<1>3. ASSUME NEW u \in Walkers, NEW w \in Walk, w = walk[u]
      PROVE  \E v \in Walk : 
              /\ v = walk'[u]
              /\ v.pc = w.pc /\ v.max = w.max /\ v.cursor = w.cursor /\ v.seen = w.seen
              /\ v.page = w.page /\ v.asked = w.asked
              /\ v.excused = w.excused \cup {d} /\ v.settled = w.settled \ {d}
  <2> DEFINE v == [w EXCEPT !.excused = @ \cup {d}, !.settled = @ \ {d}]
  <2>1. w # Idle
    BY DEF Walk, Idle
  <2>2. walk'[u] = v
    BY <1>3, <2>1 DEF Written
  <2>3. v \in Walk
    BY DEF Walk
  <2>4. /\ v.pc = w.pc /\ v.max = w.max /\ v.cursor = w.cursor /\ v.seen = w.seen
        /\ v.page = w.page /\ v.asked = w.asked
        /\ v.excused = w.excused \cup {d} /\ v.settled = w.settled \ {d}
    BY DEF Walk
  <2> HIDE DEF v
  <2> QED BY <2>2, <2>3, <2>4
<1>4. walk' = [u \in Walkers |-> walk'[u]]
  BY DEF Written
<1>5. ASSUME NEW u \in Walkers PROVE walk'[u] \in {Idle} \cup Walk
  <2>1. walk[u] \in {Idle} \cup Walk
    BY DEF TypeOK
  <2> QED BY <1>2, <1>3, <2>1
<1>6. walk' \in [Walkers -> {Idle} \cup Walk]
  BY <1>4, <1>5
<1> QED BY <1>1, <1>2, <1>3, <1>6

----------------------------------------------------------------------------
(* Types. *)

RowsOK ==
  /\ rev \in [Nodes -> Nat] /\ price \in [Nodes -> Nat] /\ seq \in Nat
  /\ \A d \in Nodes : rev[d] <= seq
  /\ \A d, e \in Nodes : rev[d] = rev[e] /\ rev[d] > 0 => d = e

CacheOK ==
  /\ cache \subseteq Entry
  /\ \A x, y \in cache : x.max = y.max /\ x.cursor = y.cursor => x = y

ClientsOK ==
  /\ handler \in [Handlers -> {Idle} \cup Upsert]
  /\ walk \in [Walkers -> {Idle} \cup Walk]
  /\ Sync => /\ \A h \in Handlers : handler[h] = Idle
             /\ \A u \in Walkers : ~Wants(u, "asked") /\ ~Wants(u, "read")

ClockOK ==
  /\ store \in {"memory", "sqlite", "postgres"}
  /\ now \in Nat
  /\ recent \in [Nodes -> Nat] /\ firsts \in [Nodes -> Nat]

LEMMA TypeParts == TypeOK <=> RowsOK /\ CacheOK /\ ClientsOK /\ ClockOK
BY DEF TypeOK, RowsOK, CacheOK, ClientsOK, ClockOK

(* A registration's steps, and what they leave alone. *)
LEMMA StoreStays ==
  ASSUME [Next]_vars
  PROVE  store' = store
BY DEF Next, vars, history, rows, Register, Draw, WriteRow, WriteCapability, Answered, UpsertThrows, Begin,
       Hit, Resolve, Ask, Execute, Fill, Lost, Refused, Tick, Restart

(* The rows, and the revisions drawn for them. *)
LEMMA RowsType ==
  ASSUME Inv, [Next]_vars
  PROVE  RowsOK'
<1> USE DEF RowsOK, rows, history
<1>1. RowsOK /\ HandlerInv /\ handler \in [Handlers -> {Idle} \cup Upsert]
  BY DEF Inv, TypeOK
<1>2. ASSUME NEW d \in Nodes, NEW p \in Offers, Register(d, p) PROVE RowsOK'
  <2>1. rev' = [rev EXCEPT ![d] = seq + 1] /\ seq' = seq + 1 /\ price' = [price EXCEPT ![d] = Kept(d, p)]
    BY <1>2 DEF Register
  <2>2. Kept(d, p) \in Nat
    BY <1>1, DiscoveryAssumption DEF Kept, Offers
  <2>3. price' \in [Nodes -> Nat] /\ rev' \in [Nodes -> Nat] /\ seq' \in Nat
    BY <1>1, <2>1, <2>2
  <2> QED BY <1>1, <2>1, <2>3
<1>3. ASSUME NEW h \in Handlers, NEW d \in Nodes, NEW p \in Offers, Draw(h, d, p) PROVE RowsOK'
  BY <1>1, <1>3 DEF Draw
<1>4. ASSUME NEW h \in Handlers, WriteRow(h) PROVE RowsOK'
  <2>1. handler[h] \in Upsert /\ Drawn(h)
    BY <1>1, <1>4 DEF WriteRow, Drawn
  <2>2. PICK d \in Nodes, r \in Nat : d = handler[h].node /\ r = handler[h].rev
    BY <2>1 DEF Upsert
  <2>3. rev' = [rev EXCEPT ![d] = r] /\ price' = price /\ seq' = seq
    BY <1>4, <2>2 DEF WriteRow
  <2>4. r <= seq /\ \A e \in Nodes : rev[e] # r
    BY <1>1, <2>1, <2>2 DEF HandlerInv, Drawn
  <2> QED BY <1>1, <2>3, <2>4
<1>5. ASSUME NEW h \in Handlers, WriteCapability(h) PROVE RowsOK'
  <2>1. handler[h] \in Upsert
    BY <1>1, <1>5 DEF WriteCapability
  <2>2. handler[h].price \in Offers /\ Offers \subseteq Nat
    BY <2>1, DiscoveryAssumption DEF Upsert, Offers
  <2>3. price' = [price EXCEPT ![handler[h].node] = handler[h].price] /\ rev' = rev /\ seq' = seq
    BY <1>5 DEF WriteCapability
  <2> QED BY <1>1, <2>2, <2>3
<1>6. CASE Restart
  BY <1>1, <1>6 DEF Restart
<1>7. CASE UNCHANGED rows
  BY <1>1, <1>7
<1> QED BY <1>2, <1>3, <1>4, <1>5, <1>6, <1>7 DEF Next, vars, Answered, UpsertThrows, Begin, Hit, Resolve,
           Ask, Execute, Fill, Lost, Refused, Tick

(* The cache only ever gets pages. *)
LEMMA CacheType ==
  ASSUME Inv, [Next]_vars
  PROVE  CacheOK'
<1>1. TypeOK /\ CacheOK
  BY TypeParts DEF Inv
<1>2. CASE cache' = {} \/ cache' = cache
  BY <1>1, <1>2 DEF CacheOK
<1>3. ASSUME NEW u \in Walkers, Resolve(u) PROVE CacheOK'
  <2>1. walk[u] \in Walk
    BY <1>1, <1>3 DEF Resolve, Wants, TypeOK
  <2>2. PICK max \in Budgets, cursor \in Nat : max = walk[u].max /\ cursor = walk[u].cursor
    BY <2>1 DEF Walk
  <2>3. PICK page \in resolveByCapability(max, cursor) : cache' = Filled(max, cursor, page)
    BY <1>3, <2>2 DEF Resolve
  <2>4. page \in Page
    BY <1>1, <2>3, PageIsRight
  <2>5. PICK c : c = cache'
    OBVIOUS
  <2> QED BY <1>1, <2>3, <2>4, <2>5, Fills DEF CacheOK
<1>4. ASSUME NEW u \in Walkers, Fill(u) PROVE CacheOK'
  <2>1. walk[u] \in Walk
    BY <1>1, <1>4 DEF Fill, Wants, TypeOK
  <2>2. PICK max \in Budgets, cursor \in Nat, page \in Page :
          max = walk[u].max /\ cursor = walk[u].cursor /\ page = walk[u].page
    BY <2>1 DEF Walk
  <2>3. cache' = Filled(max, cursor, page)
    BY <1>4, <2>2 DEF Fill
  <2>5. PICK c : c = cache'
    OBVIOUS
  <2> QED BY <1>1, <2>3, <2>5, Fills DEF CacheOK
<1> QED BY <1>2, <1>3, <1>4 DEF Next, vars, Register, Draw, WriteRow, WriteCapability, Answered, UpsertThrows,
           Begin, Hit, Ask, Execute, Lost, Refused, Tick, Restart

HandlersOK ==
  /\ handler \in [Handlers -> {Idle} \cup Upsert]
  /\ Sync => \A h \in Handlers : handler[h] = Idle

WalksOK ==
  /\ walk \in [Walkers -> {Idle} \cup Walk]
  /\ Sync => \A u \in Walkers : ~Wants(u, "asked") /\ ~Wants(u, "read")

(* With a synchronous store no registration is ever under way, and the      *)
(* revisions drawn are distinct.                                           *)
LEMMA HandlersStep ==
  ASSUME Inv, [Next]_vars
  PROVE  HandlersOK' /\ HandlerInv'
<1> USE DEF rows, history
<1>1. TypeOK /\ HandlersOK /\ HandlerInv /\ RowsOK
  BY TypeParts DEF Inv, ClientsOK, HandlersOK
<1>2. Sync' <=> Sync
  BY StoreStays DEF Sync
<1>3. CASE handler' = handler /\ rev' = rev /\ seq' = seq
  BY <1>1, <1>2, <1>3 DEF HandlersOK, HandlerInv, Drawn
<1>4. ASSUME NEW d \in Nodes, NEW p \in Offers, Register(d, p) PROVE HandlersOK' /\ HandlerInv'
  BY <1>1, <1>2, <1>4 DEF HandlersOK, HandlerInv, Drawn, Register
<1>5. ASSUME NEW h \in Handlers, NEW d \in Nodes, NEW p \in Offers, Draw(h, d, p) PROVE HandlersOK' /\ HandlerInv'
  <2>1. PICK k : k = [pc |-> "drawn", node |-> d, price |-> p, rev |-> seq + 1, first |-> FALSE]
    OBVIOUS
  <2>2. k \in Upsert /\ k # Idle /\ k.rev = seq + 1
    BY <1>1, <2>1 DEF Upsert, RowsOK, Idle
  <2>3. handler' = [handler EXCEPT ![h] = k] /\ seq' = seq + 1 /\ rev' = rev /\ ~Sync
    BY <1>5, <2>1 DEF Draw
  <2>4. handler'[h] = k /\ \A g \in Handlers \ {h} : handler'[g] = handler[g]
    BY <1>1, <2>2, <2>3, Handles
  <2>5. HandlersOK'
    BY <1>1, <1>2, <2>2, <2>3, Handles DEF HandlersOK
  <2>6. \A g \in Handlers : handler[g] # Idle => handler[g].rev \in Nat
    BY <1>1 DEF HandlersOK, Upsert
  <2>7. \A g \in Handlers : handler'[g] # Idle => handler'[g].rev > 0 /\ handler'[g].rev <= seq'
    BY <1>1, <2>2, <2>3, <2>4, <2>6 DEF HandlerInv, RowsOK
  <2>8. \A g \in Handlers, e \in Nodes : Drawn(g)' => rev'[e] # handler'[g].rev
    BY <1>1, <2>2, <2>3, <2>4, <2>6 DEF HandlerInv, RowsOK, Drawn
  <2>9. \A f, g \in Handlers : Drawn(f)' /\ Drawn(g)' /\ handler'[f].rev = handler'[g].rev => f = g
    BY <1>1, <2>2, <2>4, <2>6 DEF HandlerInv, RowsOK, Drawn
  <2> QED BY <2>5, <2>7, <2>8, <2>9 DEF HandlerInv
<1>6. ASSUME NEW h \in Handlers, WriteRow(h) PROVE HandlersOK' /\ HandlerInv'
  <2>1. PICK j \in Upsert : j = handler[h]
    BY <1>1, <1>6 DEF WriteRow, HandlersOK
  <2>2. PICK k : k = [j EXCEPT !.first = (rev[j.node] = 0), !.pc = IF j.price = 0 THEN "finished" ELSE "written"]
    OBVIOUS
  <2>3. k \in Upsert /\ k.rev = j.rev /\ k.pc # "drawn"
    BY <2>2 DEF Upsert
  <2>4. handler' = [handler EXCEPT ![h] = k] /\ seq' = seq /\ rev' = [rev EXCEPT ![j.node] = j.rev] /\ Drawn(h)
    BY <1>1, <1>6, <2>1, <2>2 DEF WriteRow, Drawn, HandlersOK
  <2>5. handler'[h] = k /\ \A g \in Handlers \ {h} : handler'[g] = handler[g]
    BY <1>1, <2>3, <2>4, Handles
  <2>6. HandlersOK'
    BY <1>1, <1>2, <1>6, <2>3, <2>4, Handles DEF HandlersOK, WriteRow
  <2>7. \A g \in Handlers : handler'[g] # Idle => handler'[g].rev > 0 /\ handler'[g].rev <= seq'
    BY <1>1, <2>1, <2>3, <2>4, <2>5 DEF HandlerInv, Drawn
  <2>8. \A g \in Handlers, e \in Nodes : Drawn(g)' => rev'[e] # handler'[g].rev
    BY <1>1, <2>1, <2>3, <2>4, <2>5 DEF HandlerInv, RowsOK, Drawn
  <2>9. \A f, g \in Handlers : Drawn(f)' /\ Drawn(g)' /\ handler'[f].rev = handler'[g].rev => f = g
    BY <1>1, <2>3, <2>5 DEF HandlerInv, Drawn
  <2> QED BY <2>6, <2>7, <2>8, <2>9 DEF HandlerInv
<1>7. ASSUME NEW h \in Handlers, WriteCapability(h) PROVE HandlersOK' /\ HandlerInv'
  <2>1. PICK j \in Upsert : j = handler[h]
    BY <1>1, <1>7 DEF WriteCapability, HandlersOK
  <2>2. PICK k : k = [j EXCEPT !.pc = "finished"]
    OBVIOUS
  <2>3. k \in Upsert /\ k.rev = j.rev /\ k.pc # "drawn"
    BY <2>2 DEF Upsert
  <2>4. handler' = [handler EXCEPT ![h] = k] /\ seq' = seq /\ rev' = rev /\ handler[h] # Idle
    BY <1>1, <1>7, <2>1, <2>2 DEF WriteCapability, HandlersOK
  <2>5. handler'[h] = k /\ \A g \in Handlers \ {h} : handler'[g] = handler[g]
    BY <1>1, <2>3, <2>4, Handles
  <2>6. HandlersOK'
    BY <1>1, <1>2, <2>3, <2>4, Handles DEF HandlersOK
  <2> QED BY <1>1, <2>1, <2>3, <2>4, <2>5, <2>6 DEF HandlerInv, Drawn
<1>8. ASSUME NEW h \in Handlers, Answered(h) \/ UpsertThrows(h) PROVE HandlersOK' /\ HandlerInv'
  <2>1. handler' = [handler EXCEPT ![h] = Idle] /\ seq' = seq /\ rev' = rev
    BY <1>8 DEF Answered, UpsertThrows
  <2>2. handler'[h] = Idle /\ \A g \in Handlers \ {h} : handler'[g] = handler[g]
    BY <1>1, <2>1, Handles
  <2>3. HandlersOK'
    BY <1>1, <1>2, <2>1, Handles DEF HandlersOK
  <2> QED BY <1>1, <2>1, <2>2, <2>3 DEF HandlerInv, Drawn
<1>9. CASE Restart
  BY <1>9 DEF Restart, HandlersOK, HandlerInv, Drawn
<1> QED BY <1>3, <1>4, <1>5, <1>6, <1>7, <1>8, <1>9 DEF Next, vars, Begin, Hit, Resolve, Ask, Execute,
           Fill, Lost, Refused, Tick

(* At most one upsert of a node, answered or under way, is the first.      *)
LEMMA FirstStep ==
  ASSUME Inv, [Next]_vars
  PROVE  FirstInv' /\ firsts' \in [Nodes -> Nat]
<1> USE DEF rows, history
<1>1. TypeOK /\ HandlersOK /\ HandlerInv /\ RowsOK /\ FirstInv /\ firsts \in [Nodes -> Nat]
  BY TypeParts DEF Inv, ClientsOK, HandlersOK, TypeOK
<1>2. CASE handler' = handler /\ rev' = rev /\ firsts' = firsts
  BY <1>1, <1>2 DEF FirstInv, First, Drawn
<1>3. ASSUME NEW d \in Nodes, NEW p \in Offers, Register(d, p) PROVE FirstInv' /\ firsts' \in [Nodes -> Nat]
  <2>1. rev' = [rev EXCEPT ![d] = seq + 1] /\ handler' = handler /\ seq \in Nat
    BY <1>1, <1>3 DEF Register, RowsOK
  <2>2. \A h \in Handlers : ~First(h)'
    BY <1>1, <1>3, <2>1 DEF Register, HandlersOK, First
  <2>3. firsts' = IF rev[d] = 0 THEN [firsts EXCEPT ![d] = firsts[d] + 1] ELSE firsts
    BY <1>3 DEF Register
  <2>4. firsts' \in [Nodes -> Nat] /\ \A e \in Nodes : firsts'[e] <= 1
    BY <1>1, <2>3 DEF FirstInv
  <2>5. \A e \in Nodes : rev'[e] = 0 => firsts'[e] = 0
    BY <1>1, <2>1, <2>3 DEF FirstInv, RowsOK
  <2> QED BY <2>2, <2>4, <2>5 DEF FirstInv
<1>4. ASSUME NEW h \in Handlers, NEW d \in Nodes, NEW p \in Offers, Draw(h, d, p)
      PROVE  FirstInv' /\ firsts' \in [Nodes -> Nat]
  <2>1. PICK k : k = [pc |-> "drawn", node |-> d, price |-> p, rev |-> seq + 1, first |-> FALSE]
    OBVIOUS
  <2>2. k \in Upsert /\ ~k.first
    BY <1>1, <2>1 DEF Upsert, RowsOK
  <2>3. handler' = [handler EXCEPT ![h] = k] /\ rev' = rev /\ firsts' = firsts
    BY <1>4, <2>1 DEF Draw
  <2>4. handler'[h] = k /\ \A g \in Handlers \ {h} : handler'[g] = handler[g]
    BY <1>1, <2>2, <2>3, Handles
  <2> QED BY <1>1, <2>2, <2>3, <2>4 DEF FirstInv, First, Drawn
<1>5. ASSUME NEW h \in Handlers, WriteRow(h) PROVE FirstInv' /\ firsts' \in [Nodes -> Nat]
  <2>1. PICK j \in Upsert : j = handler[h]
    BY <1>1, <1>5 DEF WriteRow, HandlersOK
  <2>2. PICK k : k = [j EXCEPT !.first = (rev[j.node] = 0), !.pc = IF j.price = 0 THEN "finished" ELSE "written"]
    OBVIOUS
  <2>3. k \in Upsert /\ k.node = j.node /\ k.pc # "drawn" /\ (k.first => rev[j.node] = 0)
    BY <2>2 DEF Upsert
  <2>4. handler' = [handler EXCEPT ![h] = k] /\ firsts' = firsts /\ rev' = [rev EXCEPT ![j.node] = j.rev]
    BY <1>1, <1>5, <2>1, <2>2 DEF WriteRow, HandlersOK
  <2>5. handler'[h] = k /\ \A g \in Handlers \ {h} : handler'[g] = handler[g]
    BY <1>1, <2>3, <2>4, Handles
  <2>6. j.rev > 0 /\ j.node \in Nodes
    BY <1>1, <1>5, <2>1 DEF HandlerInv, WriteRow, Upsert
  <2>7. rev'[j.node] > 0 /\ \A e \in Nodes : e # j.node => rev'[e] = rev[e]
    BY <1>1, <2>4, <2>6 DEF RowsOK
  <2>8. \A g \in Handlers : First(g)' =>
          ~Drawn(g)' /\ rev'[handler'[g].node] > 0 /\ firsts'[handler'[g].node] = 0
    <3>1. ASSUME NEW g \in Handlers, First(g)', g # h
          PROVE  ~Drawn(g)' /\ rev'[handler'[g].node] > 0 /\ firsts'[handler'[g].node] = 0
      <4>1. First(g) /\ handler'[g] = handler[g] /\ handler[g].node \in Nodes
        BY <1>1, <2>5, <3>1 DEF First, HandlersOK, Upsert
      <4> QED BY <1>1, <2>4, <2>7, <4>1 DEF FirstInv, Drawn
    <3>2. First(h)' => ~Drawn(h)' /\ rev'[handler'[h].node] > 0 /\ firsts'[handler'[h].node] = 0
      BY <1>1, <2>3, <2>4, <2>5, <2>6, <2>7 DEF FirstInv, First, Drawn
    <3> QED BY <3>1, <3>2
  <2>9. \A f, g \in Handlers : First(f)' /\ First(g)' /\ handler'[f].node = handler'[g].node => f = g
    BY <1>1, <2>3, <2>5 DEF FirstInv, First
  <2>10. \A e \in Nodes : firsts'[e] <= 1 /\ (rev'[e] = 0 => firsts'[e] = 0)
    BY <1>1, <2>4, <2>7 DEF FirstInv
  <2> QED BY <1>1, <2>4, <2>8, <2>9, <2>10 DEF FirstInv
<1>6. ASSUME NEW h \in Handlers, WriteCapability(h) PROVE FirstInv' /\ firsts' \in [Nodes -> Nat]
  <2>1. PICK j \in Upsert : j = handler[h]
    BY <1>1, <1>6 DEF WriteCapability, HandlersOK
  <2>2. PICK k : k = [j EXCEPT !.pc = "finished"]
    OBVIOUS
  <2>3. k \in Upsert /\ k.node = j.node /\ k.first = j.first /\ k.pc # "drawn"
    BY <2>2 DEF Upsert
  <2>4. handler' = [handler EXCEPT ![h] = k] /\ firsts' = firsts /\ rev' = rev /\ handler[h] # Idle
    BY <1>1, <1>6, <2>1, <2>2 DEF WriteCapability, HandlersOK
  <2>5. handler'[h] = k /\ \A g \in Handlers \ {h} : handler'[g] = handler[g]
    BY <1>1, <2>3, <2>4, Handles
  <2> QED BY <1>1, <2>1, <2>3, <2>4, <2>5 DEF FirstInv, First, Drawn
<1>7. ASSUME NEW h \in Handlers, Answered(h) \/ UpsertThrows(h) PROVE FirstInv' /\ firsts' \in [Nodes -> Nat]
  <2>1. handler' = [handler EXCEPT ![h] = Idle] /\ rev' = rev
    BY <1>7 DEF Answered, UpsertThrows
  <2>2. handler'[h] = Idle /\ \A g \in Handlers \ {h} : handler'[g] = handler[g]
    BY <1>1, <2>1, Handles
  <2>3. CASE firsts' = firsts
    BY <1>1, <2>1, <2>2, <2>3 DEF FirstInv, First, Drawn
  <2>4. CASE First(h) /\ firsts' = [firsts EXCEPT ![handler[h].node] = firsts[handler[h].node] + 1]
    <3>1. PICK d \in Nodes : d = handler[h].node
      BY <1>1, <2>4 DEF First, HandlersOK, Upsert
    <3>2. firsts[d] = 0 /\ rev[d] > 0 /\ \A g \in Handlers : First(g) /\ handler[g].node = d => g = h
      BY <1>1, <2>4, <3>1 DEF FirstInv
    <3>3. firsts' \in [Nodes -> Nat] /\ firsts'[d] = 1 /\ \A e \in Nodes : e # d => firsts'[e] = firsts[e]
      BY <1>1, <2>4, <3>1, <3>2
    <3>4. \A e \in Nodes : firsts'[e] <= 1 /\ (rev'[e] = 0 => firsts'[e] = 0)
      BY <1>1, <2>1, <3>2, <3>3 DEF FirstInv, RowsOK
    <3>5. \A g \in Handlers : First(g)' => g # h /\ First(g) /\ handler'[g] = handler[g] /\ handler[g].node \in Nodes
      BY <1>1, <2>2 DEF First, HandlersOK, Upsert
    <3> QED BY <1>1, <2>1, <3>2, <3>3, <3>4, <3>5 DEF FirstInv, Drawn
  <2> QED BY <1>7, <2>3, <2>4 DEF Answered, UpsertThrows, First
<1>8. CASE Restart
  <2>1. \A h \in Handlers : ~First(h)'
    BY <1>8 DEF Restart, First
  <2> QED BY <1>1, <1>8, <2>1 DEF Restart, FirstInv
<1> QED BY <1>2, <1>3, <1>4, <1>5, <1>6, <1>7, <1>8 DEF Next, vars, Begin, Hit, Resolve, Ask, Execute,
           Fill, Lost, Refused, Tick

(* A walk has a page under way only with PostgreSQL. *)
LEMMA WalksType ==
  ASSUME Inv, [Next]_vars
  PROVE  WalksOK'
<1> USE DEF rows, history
<1>1. TypeOK /\ WalksOK
  BY TypeParts DEF Inv, ClientsOK, WalksOK
<1>2. Sync' <=> Sync
  BY StoreStays DEF Sync
<1>3. CASE walk' = walk
  BY <1>1, <1>2, <1>3 DEF WalksOK, Wants
<1>4. ASSUME NEW d \in Nodes, Written(d) PROVE WalksOK'
  <2>1. walk' \in [Walkers -> {Idle} \cup Walk]
    BY <1>1, <1>4, Writes
  <2>2. ASSUME NEW u \in Walkers, walk[u] \in Walk PROVE walk'[u].pc = walk[u].pc /\ walk[u] # Idle
    BY <1>1, <1>4, <2>2, Writes DEF Walk, Idle
  <2>3. \A u \in Walkers : walk[u] = Idle => walk'[u] = Idle
    BY <1>1, <1>4, Writes
  <2>4. \A u \in Walkers : walk[u] = Idle \/ walk[u] \in Walk
    BY <1>1 DEF TypeOK
  <2> QED BY <1>1, <1>2, <2>1, <2>2, <2>3, <2>4 DEF WalksOK, Wants
<1>5. ASSUME NEW u \in Walkers, NEW v, v = Idle \/ (v \in Walk /\ (Sync => v.pc \in {"next", "done"})),
             walk' = [walk EXCEPT ![u] = v]
      PROVE  WalksOK'
  <2>1. walk' \in [Walkers -> {Idle} \cup Walk] /\ walk'[u] = v /\ \A t \in Walkers \ {u} : walk'[t] = walk[t]
    BY <1>1, <1>5, Moves
  <2> QED BY <1>1, <1>2, <1>5, <2>1 DEF WalksOK, Wants
<1>6. ASSUME NEW u \in Walkers, NEW page \in Page, walk[u] \in Walk, Taken(u, page) PROVE WalksOK'
  BY <1>1, <1>5, <1>6, Takes
<1>7. \A d \in Nodes, p \in Offers : Register(d, p) => WalksOK'
  BY <1>4 DEF Register
<1>8. ASSUME NEW h \in Handlers, WriteRow(h) \/ WriteCapability(h) PROVE WalksOK'
  <2>1. handler[h].node \in Nodes
    BY <1>1, <1>8 DEF WriteRow, WriteCapability, TypeOK, Upsert
  <2> QED BY <1>4, <1>8, <2>1 DEF WriteRow, WriteCapability
<1>9. ASSUME NEW u \in Walkers, NEW max \in Budgets, Begin(u, max) PROVE WalksOK'
  <2>1. PICK v : v = [pc |-> "next", max |-> max, cursor |-> 0, seen |-> {}, page |-> NoPage, asked |-> 0,
                      excused |-> {d \in Nodes : UnderWay(d)}, settled |-> {d \in Nodes : recent[d] = 0}]
    OBVIOUS
  <2>2. NoPage \in Page
    BY DEF NoPage, Page
  <2>3. v \in Walk /\ v.pc = "next"
    BY <2>1, <2>2 DEF Walk
  <2>4. walk' = [walk EXCEPT ![u] = v]
    BY <1>9, <2>1 DEF Begin
  <2> QED BY <1>5, <2>3, <2>4
<1>10. ASSUME NEW u \in Walkers, Hit(u) PROVE WalksOK'
  <2>1. walk[u] \in Walk
    BY <1>1, <1>10 DEF Hit, Wants, TypeOK
  <2>2. PICK x \in cache : Taken(u, x.page)
    BY <1>10 DEF Hit, Fresh
  <2>3. x.page \in Page
    BY <1>1, <2>2 DEF TypeOK, Entry
  <2> QED BY <1>6, <2>1, <2>2, <2>3
<1>11. ASSUME NEW u \in Walkers, Resolve(u) PROVE WalksOK'
  <2>1. walk[u] \in Walk
    BY <1>1, <1>11 DEF Resolve, Wants, TypeOK
  <2>2. PICK max \in Budgets, cursor \in Nat : max = walk[u].max /\ cursor = walk[u].cursor
    BY <2>1 DEF Walk
  <2>3. PICK page \in resolveByCapability(max, cursor) : Taken(u, page)
    BY <1>11, <2>2 DEF Resolve
  <2> QED BY <1>1, <1>6, <2>1, <2>3, PageIsRight
<1>12. ASSUME NEW u \in Walkers, Ask(u) PROVE WalksOK'
  <2>1. PICK w \in Walk : w = walk[u]
    BY <1>1, <1>12 DEF Ask, Wants, TypeOK
  <2>2. PICK v : v = [w EXCEPT !.pc = "asked", !.asked = now]
    OBVIOUS
  <2>3. v \in Walk
    BY <1>1, <2>2 DEF Walk, TypeOK
  <2>4. walk' = [walk EXCEPT ![u] = v] /\ ~Sync
    BY <1>1, <1>12, <2>1, <2>2 DEF Ask, TypeOK
  <2> QED BY <1>5, <2>3, <2>4
<1>13. ASSUME NEW u \in Walkers, Execute(u) PROVE WalksOK'
  <2>1. PICK w \in Walk : w = walk[u]
    BY <1>1, <1>13 DEF Execute, Wants, TypeOK
  <2>2. PICK max \in Budgets, cursor \in Nat : max = w.max /\ cursor = w.cursor
    BY DEF Walk
  <2>3. PICK page \in resolveByCapability(max, cursor) : walk' = [walk EXCEPT ![u].pc = "read", ![u].page = page]
    BY <1>13, <2>1, <2>2 DEF Execute
  <2>4. page \in Page
    BY <1>1, <2>3, PageIsRight
  <2>5. PICK v : v = [w EXCEPT !.pc = "read", !.page = page]
    OBVIOUS
  <2>6. v \in Walk
    BY <2>4, <2>5 DEF Walk
  <2>7. walk' = [walk EXCEPT ![u] = v]
    BY <1>1, <2>1, <2>3, <2>5 DEF TypeOK
  <2>8. ~Sync
    BY <1>1, <1>13 DEF Execute, WalksOK
  <2> QED BY <1>5, <2>6, <2>7, <2>8
<1>14. ASSUME NEW u \in Walkers, Fill(u) PROVE WalksOK'
  <2>1. walk[u] \in Walk
    BY <1>1, <1>14 DEF Fill, Wants, TypeOK
  <2>2. PICK page \in Page : page = walk[u].page
    BY <2>1 DEF Walk
  <2> QED BY <1>6, <1>14, <2>1, <2>2 DEF Fill
<1>15. ASSUME NEW u \in Walkers, Lost(u) PROVE WalksOK'
  BY <1>5, <1>15 DEF Lost
<1>17. ASSUME NEW u \in Walkers, Refused(u) PROVE WalksOK'
  <2>1. PICK w \in Walk : w = walk[u]
    BY <1>1, <1>17 DEF Refused, TypeOK
  <2>2. PICK v : v = [w EXCEPT !.pc = "done", !.cursor = 0, !.page = NoPage, !.asked = 0,
                               !.excused = Nodes, !.settled = {}]
    OBVIOUS
  <2>3. NoPage \in Page
    BY DEF NoPage, Page
  <2>4. v \in Walk /\ v.pc = "done"
    BY <2>2, <2>3 DEF Walk
  <2>5. walk' = [walk EXCEPT ![u] = v]
    BY <1>1, <1>17, <2>1, <2>2 DEF Refused, TypeOK
  <2> QED BY <1>5, <2>4, <2>5
<1>16. CASE Restart
  BY <1>16 DEF Restart, WalksOK, Wants
<1> QED BY <1>3, <1>7, <1>8, <1>9, <1>10, <1>11, <1>12, <1>13, <1>14, <1>15, <1>16, <1>17 DEF Next, vars,
           Draw, Answered, UpsertThrows, Tick

LEMMA ClockType ==
  ASSUME Inv, [Next]_vars
  PROVE  now' \in Nat /\ recent' \in [Nodes -> Nat]
<1> USE DEF rows, history
<1>1. TypeOK
  BY DEF Inv
<1>2. \A d \in Nodes, p \in Offers : Register(d, p) => recent' \in [Nodes -> Nat]
  BY <1>1, Writes DEF Register
<1>3. ASSUME NEW h \in Handlers, WriteRow(h) \/ WriteCapability(h) PROVE recent' \in [Nodes -> Nat]
  <2>1. handler[h].node \in Nodes
    BY <1>1, <1>3 DEF WriteRow, WriteCapability, TypeOK, Upsert
  <2> QED BY <1>1, <1>3, <2>1, Writes DEF WriteRow, WriteCapability
<1>4. Tick => recent' \in [Nodes -> Nat] /\ now' \in Nat
  BY <1>1 DEF Tick, TypeOK
<1>5. Restart => recent' \in [Nodes -> Nat]
  BY <1>1 DEF Restart, TypeOK
<1>6. UNCHANGED recent => recent' \in [Nodes -> Nat]
  BY <1>1 DEF TypeOK
<1>7. recent' \in [Nodes -> Nat]
  BY <1>2, <1>3, <1>4, <1>5, <1>6 DEF Next, vars, Draw, Answered, UpsertThrows, Begin, Hit, Resolve, Ask,
     Execute, Fill, Lost, Refused
<1>8. now' \in Nat
  BY <1>1, <1>4 DEF TypeOK, Next, vars, Register, Draw, WriteRow, WriteCapability, Answered, UpsertThrows,
     Begin, Hit, Resolve, Ask, Execute, Fill, Lost, Refused, Restart
<1> QED BY <1>7, <1>8

(* Types are kept. *)
LEMMA TypeStep ==
  ASSUME Inv, [Next]_vars
  PROVE  TypeOK'
<1>1. RowsOK' /\ CacheOK'
  BY RowsType, CacheType
<1>2. ClientsOK'
  BY HandlersStep, WalksType DEF ClientsOK, HandlersOK, WalksOK
<1>3. ClockOK'
  BY ClockType, FirstStep, StoreStays DEF ClockOK, Inv, TypeOK
<1> QED BY <1>1, <1>2, <1>3 DEF TypeOK, RowsOK, CacheOK, ClientsOK, ClockOK

----------------------------------------------------------------------------
(* Pages. *)

(* A step that writes nothing and moves at most the walk of u. *)
LEMMA QuietStep ==
  ASSUME Inv, TypeOK', [Next]_vars, UNCHANGED <<rev, price, recent, now>>,
         \A x \in cache' : x \in cache \/ EntryInv(x),
         NEW u \in Walkers, \A t \in Walkers \ {u} : walk'[t] = walk[t],
         \A w \in Walk : walk'[u] = w => WalkInv(w)
  PROVE  PagesInv'
<1>1. TypeOK /\ PagesInv
  BY DEF Inv
<1>2. now \in Nat /\ store' = store /\ \A d \in Nodes : Same(d) /\ recent'[d] = recent[d]
  BY <1>1, StoreStays DEF TypeOK, Same
<1>3. ASSUME NEW x \in cache' PROVE EntryInv(x)'
  <2>1. x \in Entry /\ EntryInv(x)
    BY <1>1 DEF PagesInv, TypeOK
  <2>2. now' >= now
    BY <1>2
  <2> QED BY <1>1, <1>2, <2>1, <2>2, EntryStays
<1>4. ASSUME NEW t \in Walkers, NEW w \in Walk, walk'[t] = w PROVE WalkInv(w)'
  <2>1. WalkInv(w)
    BY <1>1, <1>4 DEF PagesInv
  <2>2. now' >= now /\ (w.pc \in {"asked", "read"} => now' <= w.asked + MaxQuery)
    BY <1>2, <2>1 DEF WalkInv
  <2> QED BY <1>1, <1>2, <2>1, <2>2, WalkStays
<1> QED BY <1>3, <1>4 DEF PagesInv

(* A write of d: the cache is emptied with it, or the store is PostgreSQL. *)
LEMMA WriteStep ==
  ASSUME Inv, TypeOK', [Next]_vars, NEW d \in Nodes, Written(d), now' = now,
         \A e \in Nodes \ {d} : rev'[e] = rev[e] /\ price'[e] = price[e],
         cache' = {} \/ (~Sync /\ cache' = cache)
  PROVE  PagesInv'
<1>1. TypeOK /\ PagesInv
  BY DEF Inv
<1>2. now \in Nat /\ store' = store /\ now' >= now
  BY <1>1, StoreStays DEF TypeOK
<1>3. recent'[d] = Ttl + MaxQuery /\ \A e \in Nodes \ {d} : recent'[e] = recent[e]
  BY <1>1, Writes
<1>4. \A e \in Nodes \ {d} : Same(e)
  BY <1>1, <1>2, <1>3 DEF Same, TypeOK
<1>5. ASSUME NEW x \in cache' PROVE EntryInv(x)'
  <2>1. x \in Entry /\ EntryInv(x) /\ ~Sync
    BY <1>1 DEF PagesInv, TypeOK
  <2> QED BY <1>1, <1>2, <1>3, <1>4, <2>1, EntryStays
<1>6. ASSUME NEW u \in Walkers, NEW v \in Walk, walk'[u] = v PROVE WalkInv(v)'
  <2>1. walk[u] \in Walk
    BY <1>1, <1>6, Writes DEF TypeOK, Walk, Idle
  <2>2. PICK k \in Walk, w \in Walk :
          /\ w = walk[u] /\ k = walk'[u]
          /\ k.pc = w.pc /\ k.max = w.max /\ k.cursor = w.cursor /\ k.seen = w.seen
          /\ k.page = w.page /\ k.asked = w.asked
          /\ k.excused = w.excused \cup {d} /\ k.settled = w.settled \ {d}
    <3>1. \A t \in Walkers : walk[t] \in Walk => \E k \in Walk : \E w \in Walk :
            /\ w = walk[t] /\ k = walk'[t]
            /\ k.pc = w.pc /\ k.max = w.max /\ k.cursor = w.cursor /\ k.seen = w.seen
            /\ k.page = w.page /\ k.asked = w.asked
            /\ k.excused = w.excused \cup {d} /\ k.settled = w.settled \ {d}
      BY <1>1, Writes
    <3> QED BY <2>1, <3>1
  <2> k = v
    BY <1>6, <2>2
  <2>3. WalkInv(w)
    BY <1>1, <2>2 DEF PagesInv
  <2>4. w.pc \in {"asked", "read"} => now' <= w.asked + MaxQuery
    BY <2>3 DEF WalkInv
  <2>5. w.excused \subseteq v.excused /\ v.settled \subseteq w.settled /\ d \in v.excused /\ d \notin v.settled
    BY <2>2
  <2>6. \A e \in Nodes :
           \/ Same(e) /\ (recent[e] = 0 => recent'[e] = 0)
           \/ e \in v.excused /\ e \notin v.settled /\ recent'[e] = Ttl + MaxQuery
    BY <1>3, <1>4, <2>5
  <2> QED BY <1>1, <1>2, <2>2, <2>3, <2>4, <2>5, <2>6, WalkStays
<1> QED BY <1>5, <1>6 DEF PagesInv

LEMMA PagesStep ==
  ASSUME Inv, [Next]_vars
  PROVE  PagesInv'
<1> USE DEF rows, history
<1>1. TypeOK /\ PagesInv /\ TypeOK'
  BY TypeStep DEF Inv
<1>2. CASE UNCHANGED <<rev, price, recent, now, walk>> /\ (cache' = {} \/ cache' = cache)
  <2>1. store' = store /\ now \in Nat /\ \A d \in Nodes : Same(d) /\ recent'[d] = recent[d]
    BY <1>1, <1>2, StoreStays DEF TypeOK, Same
  <2>2. now' >= now
    BY <1>2, <2>1
  <2>3. ASSUME NEW x \in cache' PROVE EntryInv(x)'
    BY <1>1, <1>2, <2>1, <2>2, EntryStays DEF PagesInv, TypeOK
  <2>4. ASSUME NEW u \in Walkers, NEW w \in Walk, walk'[u] = w PROVE WalkInv(w)'
    <3>1. WalkInv(w)
      BY <1>1, <1>2, <2>4 DEF PagesInv
    <3>2. w.pc \in {"asked", "read"} => now' <= w.asked + MaxQuery
      BY <1>2, <3>1 DEF WalkInv
    <3> QED BY <1>1, <2>1, <2>2, <3>1, <3>2, WalkStays
  <2> QED BY <2>3, <2>4 DEF PagesInv
<1>3. ASSUME NEW d \in Nodes, NEW p \in Offers, Register(d, p) PROVE PagesInv'
  <2>1. /\ Written(d) /\ now' = now /\ cache' = {}
        /\ \A e \in Nodes \ {d} : rev'[e] = rev[e] /\ price'[e] = price[e]
    BY <1>1, <1>3 DEF Register, TypeOK
  <2> QED BY <1>1, <2>1, WriteStep
<1>4. ASSUME NEW h \in Handlers, WriteRow(h) \/ WriteCapability(h) PROVE PagesInv'
  <2>1. PICK d \in Nodes : d = handler[h].node
    BY <1>1, <1>4 DEF WriteRow, WriteCapability, TypeOK, Upsert
  <2>2. /\ Written(d) /\ now' = now /\ cache' = cache /\ ~Sync
        /\ \A e \in Nodes \ {d} : rev'[e] = rev[e] /\ price'[e] = price[e]
    BY <1>1, <1>4, <2>1 DEF WriteRow, WriteCapability, TypeOK
  <2> QED BY <1>1, <2>2, WriteStep
<1>5. ASSUME NEW u \in Walkers, NEW max \in Budgets, Begin(u, max) PROVE PagesInv'
  <2>1. PICK v : v = [pc |-> "next", max |-> max, cursor |-> 0, seen |-> {}, page |-> NoPage, asked |-> 0,
                      excused |-> {d \in Nodes : UnderWay(d)}, settled |-> {d \in Nodes : recent[d] = 0}]
    OBVIOUS
  <2>2. walk' = [walk EXCEPT ![u] = v]
    BY <1>5, <2>1 DEF Begin
  <2>3. v.pc = "next" /\ v.cursor = 0 /\ v.seen = {} /\ v.settled = {d \in Nodes : recent[d] = 0}
    BY <2>1
  <2>4. WalkInv(v)
    BY <2>3 DEF WalkInv, Right, Passed
  <2>5. walk'[u] = v /\ \A t \in Walkers \ {u} : walk'[t] = walk[t]
    BY <1>1, <2>2 DEF TypeOK
  <2> QED BY <1>1, <1>5, <2>4, <2>5, QuietStep DEF Begin
<1>6. ASSUME NEW u \in Walkers, NEW w \in Walk, w = walk[u], w.pc # "done", WalkInv(w),
             NEW page \in Page, Taken(u, page), Ordered(page.next, w.cursor),
             \A d \in Nodes : Held(w, d) => Says(page.results, page.next, w.max, w.cursor, d),
             UNCHANGED <<rev, price, recent, now>>,
             \A x \in cache' : x \in cache \/ EntryInv(x)
      PROVE  PagesInv'
  <2>1. PICK v \in Walk :
          /\ walk' = [walk EXCEPT ![u] = v]
          /\ v.pc = IF page.next = 0 THEN "done" ELSE "next"
          /\ v.max = w.max /\ v.cursor = page.next /\ v.seen = w.seen \cup page.results
          /\ v.excused = w.excused /\ v.settled = w.settled
    BY <1>1, <1>6, Takes
  <2>2. WalkInv(v)
    BY <1>1, <1>6, <2>1, WalkTakes
  <2>3. walk'[u] = v /\ \A t \in Walkers \ {u} : walk'[t] = walk[t]
    BY <1>1, <2>1, Moves
  <2> QED BY <1>1, <1>6, <2>2, <2>3, QuietStep
<1>7. ASSUME NEW u \in Walkers, Hit(u) PROVE PagesInv'
  <2>1. PICK w \in Walk : w = walk[u] /\ w.pc = "next"
    BY <1>1, <1>7 DEF Hit, Wants, TypeOK
  <2>2. WalkInv(w)
    BY <1>1, <2>1 DEF PagesInv
  <2>3. PICK x \in Fresh(w.max, w.cursor) : Taken(u, x.page)
    BY <1>7, <2>1 DEF Hit
  <2>4. x \in cache /\ x \in Entry /\ x.max = w.max /\ x.cursor = w.cursor /\ now - x.at < Ttl /\ EntryInv(x)
    BY <1>1, <2>3 DEF Fresh, TypeOK, PagesInv
  <2>5. x.page \in Page /\ x.at \in Nat /\ now \in Nat
    BY <1>1, <2>4 DEF Entry, TypeOK
  <2>6. ASSUME NEW d \in Nodes, Held(w, d) PROVE Says(x.page.results, x.page.next, w.max, w.cursor, d)
    <3>1. Sync \/ recent[d] = 0
      BY <2>2, <2>6 DEF Held, WalkInv
    <3>2. Sync \/ recent[d] + (now - x.at) < Ttl
      BY <2>4, <2>5, <3>1, DiscoveryAssumption
    <3> QED BY <2>4, <3>2 DEF EntryInv
  <2>7. Ordered(x.page.next, w.cursor)
    BY <2>4 DEF EntryInv
  <2>8. UNCHANGED <<rev, price, recent, now, cache>>
    BY <1>7 DEF Hit
  <2> QED BY <1>6, <2>1, <2>2, <2>3, <2>5, <2>6, <2>7, <2>8
<1>8. ASSUME NEW u \in Walkers, Resolve(u) PROVE PagesInv'
  <2>1. PICK w \in Walk : w = walk[u] /\ w.pc = "next"
    BY <1>1, <1>8 DEF Resolve, Wants, TypeOK
  <2>2. WalkInv(w) /\ w.max \in Budgets /\ w.cursor \in Nat /\ now \in Nat
    BY <1>1, <2>1 DEF PagesInv, Walk, TypeOK
  <2>3. PICK page \in resolveByCapability(w.max, w.cursor) :
          Taken(u, page) /\ cache' = Filled(w.max, w.cursor, page)
    BY <1>8, <2>1 DEF Resolve
  <2>4. /\ page \in Page /\ Ordered(page.next, w.cursor)
        /\ \A d \in Nodes : Says(page.results, page.next, w.max, w.cursor, d)
    BY <1>1, <2>2, <2>3, PageIsRight
  <2>5. PICK c : c = cache'
    OBVIOUS
  <2>6. ASSUME NEW x \in c, x \notin cache PROVE EntryInv(x)
    <3>1. x.max = w.max /\ x.cursor = w.cursor /\ x.at = now /\ x.page = page
      BY <1>1, <2>2, <2>3, <2>4, <2>5, <2>6, Fills
    <3> QED BY <2>2, <2>4, <3>1 DEF EntryInv
  <2>7. UNCHANGED <<rev, price, recent, now>>
    BY <1>8 DEF Resolve
  <2> QED BY <1>6, <2>1, <2>2, <2>3, <2>4, <2>5, <2>6, <2>7
<1>9. ASSUME NEW u \in Walkers, Ask(u) PROVE PagesInv'
  <2>1. PICK w \in Walk : w = walk[u] /\ w.pc = "next"
    BY <1>1, <1>9 DEF Ask, Wants, TypeOK
  <2>2. PICK v : v = [w EXCEPT !.pc = "asked", !.asked = now]
    OBVIOUS
  <2>3. walk' = [walk EXCEPT ![u] = v]
    BY <1>1, <1>9, <2>1, <2>2 DEF Ask, TypeOK
  <2>4. /\ v.pc = "asked" /\ v.asked = now /\ v.max = w.max /\ v.cursor = w.cursor /\ v.seen = w.seen
        /\ v.excused = w.excused /\ v.settled = w.settled
    BY <2>2 DEF Walk
  <2>5. WalkInv(w) /\ now \in Nat /\ MaxQuery \in Nat
    BY <1>1, <2>1, DiscoveryAssumption DEF PagesInv, TypeOK
  <2>6. ASSUME NEW d \in Nodes, Held(v, d) PROVE Right(v.seen, v.max, v.cursor, v.pc, d)
    <3>1. Right(w.seen, w.max, w.cursor, w.pc, d)
      BY <2>4, <2>5, <2>6 DEF Held, WalkInv
    <3> QED BY <2>1, <2>4, <3>1 DEF Right, Passed
  <2>7. WalkInv(v)
    BY <2>4, <2>5, <2>6 DEF WalkInv
  <2>8. walk'[u] = v /\ \A t \in Walkers \ {u} : walk'[t] = walk[t]
    BY <1>1, <2>3 DEF TypeOK
  <2> QED BY <1>1, <1>9, <2>7, <2>8, QuietStep DEF Ask
<1>10. ASSUME NEW u \in Walkers, Execute(u) PROVE PagesInv'
  <2>1. PICK w \in Walk : w = walk[u] /\ w.pc = "asked"
    BY <1>1, <1>10 DEF Execute, Wants, TypeOK
  <2>2. WalkInv(w) /\ w.max \in Budgets /\ w.cursor \in Nat
    BY <1>1, <2>1 DEF PagesInv, Walk
  <2>3. PICK page \in resolveByCapability(w.max, w.cursor) : walk' = [walk EXCEPT ![u].pc = "read", ![u].page = page]
    BY <1>10, <2>1 DEF Execute
  <2>4. /\ page \in Page /\ Ordered(page.next, w.cursor)
        /\ \A d \in Nodes : Says(page.results, page.next, w.max, w.cursor, d)
    BY <1>1, <2>2, <2>3, PageIsRight
  <2>5. PICK v : v = [w EXCEPT !.pc = "read", !.page = page]
    OBVIOUS
  <2>6. walk' = [walk EXCEPT ![u] = v]
    BY <1>1, <2>1, <2>3, <2>5 DEF TypeOK
  <2>7. /\ v.pc = "read" /\ v.page = page /\ v.asked = w.asked /\ v.max = w.max /\ v.cursor = w.cursor
        /\ v.seen = w.seen /\ v.excused = w.excused /\ v.settled = w.settled
    BY <2>5 DEF Walk
  <2>8. ASSUME NEW d \in Nodes, Held(v, d) PROVE Right(v.seen, v.max, v.cursor, v.pc, d)
    <3>1. Right(w.seen, w.max, w.cursor, w.pc, d)
      BY <2>2, <2>7, <2>8 DEF Held, WalkInv
    <3> QED BY <2>1, <2>7, <3>1 DEF Right, Passed
  <2>9. ReadInv(v)
    BY <2>4, <2>7 DEF ReadInv
  <2>10. WalkInv(v)
    BY <2>1, <2>2, <2>7, <2>8, <2>9 DEF WalkInv
  <2>11. walk'[u] = v /\ \A t \in Walkers \ {u} : walk'[t] = walk[t]
    BY <1>1, <2>6 DEF TypeOK
  <2> QED BY <1>1, <1>10, <2>10, <2>11, QuietStep DEF Execute
<1>11. ASSUME NEW u \in Walkers, Fill(u) PROVE PagesInv'
  <2>1. PICK w \in Walk : w = walk[u] /\ w.pc = "read"
    BY <1>1, <1>11 DEF Fill, Wants, TypeOK
  <2>2. PICK page \in Page : page = w.page
    BY DEF Walk
  <2>3. ~Sync
    BY <1>1, <1>11 DEF Fill, TypeOK
  <2>4. WalkInv(w) /\ ReadInv(w) /\ now <= w.asked + MaxQuery
    BY <1>1, <2>1 DEF PagesInv, WalkInv
  <2>5. /\ w.max \in Budgets /\ w.cursor \in Nat /\ w.asked \in Nat /\ now \in Nat
        /\ Ttl \in Nat /\ MaxQuery \in Nat
    BY <1>1, DiscoveryAssumption DEF TypeOK, Walk
  <2>6. Taken(u, page) /\ cache' = Filled(w.max, w.cursor, page) /\ UNCHANGED <<rev, price, recent, now>>
    BY <1>11, <2>1, <2>2 DEF Fill
  <2>7. Ordered(page.next, w.cursor)
    BY <2>2, <2>4 DEF ReadInv
  <2>8. \A d \in Nodes : Held(w, d) => Says(page.results, page.next, w.max, w.cursor, d)
    BY <2>2, <2>3, <2>4 DEF ReadInv, Held
  <2>9. PICK c : c = cache'
    OBVIOUS
  <2>10. ASSUME NEW x \in c, x \notin cache PROVE EntryInv(x)
    <3>1. x.max = w.max /\ x.cursor = w.cursor /\ x.at = now /\ x.page = page
      BY <1>1, <2>5, <2>6, <2>9, <2>10, Fills
    <3>2. ASSUME NEW d \in Nodes, recent[d] + (now - x.at) < Ttl
          PROVE  Says(page.results, page.next, w.max, w.cursor, d)
      <4>1. recent[d] \in Nat
        BY <1>1 DEF TypeOK
      <4>2. recent[d] + (now - w.asked) < Ttl + MaxQuery
        BY <2>4, <2>5, <3>1, <3>2, <4>1
      <4> QED BY <2>2, <2>4, <4>2 DEF ReadInv
    <3> QED BY <2>3, <2>5, <2>7, <3>1, <3>2 DEF EntryInv
  <2> QED BY <1>6, <2>1, <2>4, <2>6, <2>7, <2>8, <2>9, <2>10
<1>12. ASSUME NEW u \in Walkers, Lost(u) PROVE PagesInv'
  <2>1. walk'[u] = Idle /\ \A t \in Walkers \ {u} : walk'[t] = walk[t]
    BY <1>1, <1>12, Moves DEF Lost
  <2>2. \A w \in Walk : w # Idle
    BY DEF Walk, Idle
  <2> QED BY <1>1, <1>12, <2>1, <2>2, QuietStep DEF Lost
<1>15. ASSUME NEW u \in Walkers, Refused(u) PROVE PagesInv'
  <2>1. PICK w \in Walk : w = walk[u]
    BY <1>1, <1>15 DEF Refused, TypeOK
  <2>2. PICK v : v = [w EXCEPT !.pc = "done", !.cursor = 0, !.page = NoPage, !.asked = 0,
                               !.excused = Nodes, !.settled = {}]
    OBVIOUS
  <2>3. walk'[u] = v /\ \A t \in Walkers \ {u} : walk'[t] = walk[t]
    BY <1>1, <1>15, <2>1, <2>2 DEF Refused, TypeOK
  <2>4. v.pc = "done" /\ v.excused = Nodes /\ v.settled = {}
    BY <2>2 DEF Walk
  <2>5. WalkInv(v)
    BY <2>4 DEF WalkInv, Held
  <2> QED BY <1>1, <1>15, <2>3, <2>5, QuietStep DEF Refused
<1>13. CASE Tick
  <2>1. /\ UNCHANGED <<rev, price, cache, walk>> /\ now' = now + 1
        /\ recent' = [d \in Nodes |-> IF recent[d] = 0 THEN 0 ELSE recent[d] - 1]
        /\ \A u \in Walkers : Wants(u, "asked") \/ Wants(u, "read") => now < walk[u].asked + MaxQuery
    BY <1>13 DEF Tick
  <2>2. now \in Nat /\ store' = store /\ MaxQuery \in Nat /\ recent \in [Nodes -> Nat]
    BY <1>1, StoreStays, DiscoveryAssumption DEF TypeOK
  <2>3. now' >= now /\ \A d \in Nodes : Same(d) /\ (recent[d] = 0 => recent'[d] = 0)
    BY <2>1, <2>2 DEF Same
  <2>4. ASSUME NEW x \in cache' PROVE EntryInv(x)'
    BY <1>1, <2>1, <2>2, <2>3, EntryStays DEF PagesInv, TypeOK
  <2>5. ASSUME NEW u \in Walkers, NEW w \in Walk, walk'[u] = w PROVE WalkInv(w)'
    <3>1. WalkInv(w) /\ w.asked \in Nat /\ w # Idle /\ walk[u] = w
      BY <1>1, <2>1, <2>5 DEF PagesInv, Walk, Idle
    <3>2. w.pc \in {"asked", "read"} => now' <= w.asked + MaxQuery
      BY <2>1, <2>2, <3>1 DEF Wants
    <3> QED BY <1>1, <2>2, <2>3, <3>1, <3>2, WalkStays
  <2> QED BY <2>4, <2>5 DEF PagesInv
<1>14. CASE Restart
  <2>1. cache' = {} /\ \A u \in Walkers : walk'[u] = Idle
    BY <1>14 DEF Restart
  <2>2. \A w \in Walk : w # Idle
    BY DEF Walk, Idle
  <2> QED BY <2>1, <2>2 DEF PagesInv
<1> QED BY <1>2, <1>3, <1>4, <1>5, <1>7, <1>8, <1>9, <1>10, <1>11, <1>12, <1>13, <1>14, <1>15 DEF Next, vars,
           Draw, Answered, UpsertThrows

----------------------------------------------------------------------------
(* The invariant, and what follows from it. *)

LEMMA InitInv == Init => Inv
<1> SUFFICES ASSUME Init PROVE Inv
  OBVIOUS
<1>1. TypeOK
  BY DiscoveryAssumption DEF Init, TypeOK, Wants
<1>2. HandlerInv /\ FirstInv
  BY DEF Init, HandlerInv, FirstInv, First, Drawn
<1>3. \A w \in Walk : w # Idle
  BY DEF Walk, Idle
<1>4. PagesInv
  BY <1>3 DEF Init, PagesInv
<1> QED BY <1>1, <1>2, <1>4 DEF Inv

LEMMA NextInv == Inv /\ [Next]_vars => Inv'
<1> SUFFICES ASSUME Inv, [Next]_vars PROVE Inv'
  OBVIOUS
<1> QED BY TypeStep, HandlersStep, FirstStep, PagesStep DEF Inv

LEMMA SpecInv == Spec => []Inv
BY InitInv, NextInv, PTL DEF Spec

(* A walk that is right about d lists it as it should. *)
LEMMA RightIsListed ==
  ASSUME Inv, NEW u \in Walkers, Wants(u, "done"), NEW d \in Nodes, Held(walk[u], d)
  PROVE  Listed(u, d)
<1>1. PICK w \in Walk : w = walk[u] /\ w.pc = "done"
  BY DEF Inv, TypeOK, Wants
<1>2. WalkInv(w) /\ Held(w, d)
  BY <1>1 DEF Inv, PagesInv, Held
<1>3. Right(w.seen, w.max, w.cursor, w.pc, d)
  BY <1>2 DEF WalkInv
<1>4. /\ \A x \in w.seen : x.node = d => x = Current(d) /\ Offering(d, w.max)
      /\ Offering(d, w.max) => Current(d) \in w.seen
  BY <1>1, <1>3 DEF Right, Passed
<1>5. Current(d).node = d
  BY DEF Current
<1> QED BY <1>1, <1>4, <1>5 DEF Listed

(* The state of the registry and its clients is well formed: in particular  *)
(* no two nodes have one revision, and a synchronous store has nothing      *)
(* under way.                                                              *)
THEOREM TypeCorrect == Spec => []TypeOK
BY SpecInv, PTL DEF Inv

(* With a synchronous store a walk to the end lists every node that was not *)
(* registered again meanwhile exactly as it is, for any page size, filter,  *)
(* lifetime of the cache and number of clients.                            *)
THEOREM WalksAreComplete == Spec => []WalkComplete
<1>1. Inv => WalkComplete
  BY RightIsListed DEF WalkComplete, Held
<1> QED BY <1>1, SpecInv, PTL

(* With any store, and any number of concurrent registrations and queries,  *)
(* a walk lists exactly as it is what was not written for the lifetime of   *)
(* an entry and the time of a query before it began.                       *)
THEOREM StalenessIsBounded == Spec => []StalenessBounded
<1>1. ASSUME Inv, NEW u \in Walkers, Wants(u, "done"), NEW d \in walk[u].settled PROVE Listed(u, d)
  <2>1. d \in Nodes
    BY <1>1 DEF Inv, TypeOK, Wants, Walk
  <2> QED BY <1>1, <2>1, RightIsListed DEF Held
<1>2. Inv => StalenessBounded
  BY <1>1 DEF StalenessBounded
<1> QED BY <1>2, SpecInv, PTL

(* However many upserts of a node race, at most one reports it first-seen.  *)
THEOREM FirstSeenIsOnce == Spec => []FirstSeenOnce
<1>1. Inv => FirstSeenOnce
  BY DEF Inv, FirstInv, FirstSeenOnce
<1> QED BY <1>1, SpecInv, PTL

=============================================================================
