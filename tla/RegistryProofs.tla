--------------------------- MODULE RegistryProofs ---------------------------
(***************************************************************************)
(* Proofs about Registry, for any registries, in any topology, with any    *)
(* number of reconciles at once and any page size.                         *)
(*                                                                         *)
(* A page is a gap-free piece of the feed: whatever the peer still has at  *)
(* or below the revision of an entry of it has been taken or is in it.     *)
(* That survives, because a peer that does not forget gives only           *)
(* revisions above all it gave before, and moves up what it updates.       *)
(***************************************************************************)
EXTENDS Registry, FiniteSetTheorems, TLAPS

Had(r, p, d) == [node |-> d, version |-> index[p][d].version] \in taken[r]

(* What p's feed has up to revision n, r took or is going to take from C. *)
Covered(r, p, n, C) ==
  \A d \in Nodes : Known(p, d) /\ index[p][d].rev <= n => Had(r, p, d) \/ Entry(p, d) \in C

Numbered ==
  \A p \in Registries, d, e \in Nodes :
    /\ Known(p, d) => index[p][d].rev > 0
    /\ Known(p, d) /\ Known(p, e) /\ index[p][d].rev = index[p][e].rev => d = e

Sound ==
  /\ \A q \in posts : q.version <= signed[q.node]
  /\ \A u \in Rounds : pull[u] # NoPull => \A x \in pull[u].changes : x.version <= signed[x.node]

CursorInv ==
  \A r \in Registries : \A p \in Peers[r] \cap Persistent :
    cursor[r][p] <= revs[p] /\ Covered(r, p, cursor[r][p], {})

PullInv(u) ==
  pull[u] # NoPull =>
    /\ pull[u].peer \in Peers[Owner[u]]
    /\ pull[u].peer \in Persistent =>
         /\ pull[u].after <= cursor[Owner[u]][pull[u].peer]
         /\ \A x, y \in pull[u].changes : x.rev = y.rev => x = y
         /\ \A x \in pull[u].changes :
              x.rev <= revs[pull[u].peer] /\ Covered(Owner[u], pull[u].peer, x.rev, pull[u].changes)

Inv == TypeOK /\ Numbered /\ Sound /\ CursorInv /\ \A u \in Rounds : PullInv(u)

----------------------------------------------------------------------------
(* A page is what it should be. *)
LEMMA PageIsGapFree ==
  ASSUME TypeOK, Numbered, NEW p \in Registries, NEW after \in Nat,
         NEW x \in changesSince(p, after), NEW d \in Nodes,
         Known(p, d), index[p][d].rev > after, index[p][d].rev <= x.rev
  PROVE  Entry(p, d) \in changesSince(p, after)
<1>1. PICK e \in Feed(p, after) : x = Entry(p, e) /\ Cardinality(Older(p, after, e)) < Limit
  BY DEF changesSince
<1>2. d \in Feed(p, after) /\ index[p][d].rev <= index[p][e].rev /\ e \in Nodes
  BY <1>1 DEF Feed, Entry
<1>3. Older(p, after, d) \subseteq Older(p, after, e)
  BY <1>2 DEF Older, Feed, TypeOK
<1>4. IsFiniteSet(Older(p, after, e))
  BY RegistryAssumption, FS_Subset DEF Older, Feed
<1>5. Cardinality(Older(p, after, d)) <= Cardinality(Older(p, after, e)) /\ IsFiniteSet(Older(p, after, d))
  BY <1>3, <1>4, FS_Subset
<1>6. Cardinality(Older(p, after, d)) \in Nat /\ Cardinality(Older(p, after, e)) \in Nat /\ Limit \in Nat
  BY <1>4, <1>5, FS_CardinalityType, RegistryAssumption
<1>7. Cardinality(Older(p, after, d)) < Limit
  BY <1>1, <1>5, <1>6
<1> QED BY <1>2, <1>7 DEF changesSince

LEMMA PageType ==
  ASSUME TypeOK, Numbered, NEW p \in Registries, NEW after \in Nat
  PROVE  /\ changesSince(p, after) \in SUBSET Delta
         /\ \A x \in changesSince(p, after) : x.rev <= revs[p] /\ x.version <= signed[x.node]
         /\ \A x, y \in changesSince(p, after) : x.rev = y.rev => x = y
<1>1. \A x \in changesSince(p, after) : \E d \in Nodes : Known(p, d) /\ x = Entry(p, d)
  BY DEF changesSince, Feed
<1>2. \A x \in changesSince(p, after) : x \in Delta /\ x.rev <= revs[p] /\ x.version <= signed[x.node]
  BY <1>1 DEF Entry, Delta, TypeOK
<1>3. \A x, y \in changesSince(p, after) : x.rev = y.rev => x = y
  BY <1>1 DEF Entry, Numbered
<1> QED BY <1>2, <1>3

----------------------------------------------------------------------------
(* What an upsert does to all that was said before. *)
LEMMA UpsertMoves ==
  ASSUME TypeOK, NEW r \in Registries, NEW d \in Nodes, NEW v \in Nat, upsertNode(r, d, v)
  PROVE  /\ \A q \in Registries, e \in Nodes : q # r \/ e # d => index'[q][e] = index[q][e]
         /\ index'[r][d].version = v /\ index'[r][d].rev = revs[r] + 1
         /\ \A q \in Registries : q # r => revs'[q] = revs[q]
         /\ revs'[r] = revs[r] + 1
         /\ \A q \in Registries : taken[q] \subseteq taken'[q]
<1>1. /\ index'[r][d].version = v /\ index'[r][d].rev = revs[r] + 1
      /\ \A q \in Registries, e \in Nodes : q # r \/ e # d => index'[q][e] = index[q][e]
  BY DEF upsertNode, TypeOK
<1>2. revs'[r] = revs[r] + 1 /\ \A q \in Registries : q # r => revs'[q] = revs[q]
  BY DEF upsertNode, TypeOK
<1>3. \A q \in Registries : taken[q] \subseteq taken'[q]
  BY DEF upsertNode, TypeOK
<1> QED BY <1>1, <1>2, <1>3

LEMMA UpsertFacts ==
  ASSUME TypeOK, NEW r \in Registries, NEW d \in Nodes, NEW v \in Nat, upsertNode(r, d, v)
  PROVE  /\ index' \in [Registries -> [Nodes -> [version : Nat, rev : Nat]]]
         /\ revs' \in [Registries -> Nat]
         /\ taken' \in [Registries -> SUBSET Manifest]
         /\ \A p \in Registries, e \in Nodes : p # r \/ e # d => index'[p][e] = index[p][e]
         /\ index'[r][d].version = v /\ index'[r][d].rev = revs[r] + 1
         /\ \A p \in Registries : p # r => revs'[p] = revs[p]
         /\ revs'[r] = revs[r] + 1
         /\ \A p \in Registries : taken[p] \subseteq taken'[p]
         /\ [node |-> d, version |-> v] \in taken'[r]
<1>1. index' \in [Registries -> [Nodes -> [version : Nat, rev : Nat]]]
      /\ index'[r][d].version = v /\ index'[r][d].rev = revs[r] + 1
      /\ \A p \in Registries, e \in Nodes : p # r \/ e # d => index'[p][e] = index[p][e]
  BY DEF upsertNode, TypeOK
<1>2. /\ revs' \in [Registries -> Nat] /\ revs'[r] = revs[r] + 1
      /\ \A p \in Registries : p # r => revs'[p] = revs[p]
  BY DEF upsertNode, TypeOK
<1>3. [node |-> d, version |-> v] \in Manifest
  BY DEF Manifest
<1>4. taken' = [taken EXCEPT ![r] = @ \cup {[node |-> d, version |-> v]}]
      /\ taken \in [Registries -> SUBSET Manifest]
  BY DEF upsertNode, TypeOK
<1>5. taken' \in [Registries -> SUBSET Manifest]
  BY <1>3, <1>4
<1>6. /\ \A p \in Registries : taken[p] \subseteq taken'[p]
      /\ [node |-> d, version |-> v] \in taken'[r]
  BY <1>4
<1> QED BY <1>1, <1>2, <1>5, <1>6

LEMMA UpsertNumbers ==
  ASSUME TypeOK, Numbered, NEW r \in Registries, NEW d \in Nodes, NEW v \in Nat, upsertNode(r, d, v)
  PROVE  Numbered'
<1>0. /\ \A q \in Registries, e \in Nodes : q # r \/ e # d => index'[q][e] = index[q][e]
      /\ index'[r][d].version = v /\ index'[r][d].rev = revs[r] + 1
      /\ \A q \in Registries : q # r => revs'[q] = revs[q]
      /\ revs'[r] = revs[r] + 1
      /\ \A q \in Registries : taken[q] \subseteq taken'[q]
  BY UpsertMoves
<1>1. \A p \in Registries, e \in Nodes : index[p][e].rev \in Nat /\ index[p][e].rev <= revs[p] /\ revs[p] \in Nat
  BY DEF TypeOK
<1>2. ASSUME NEW p \in Registries, NEW e \in Nodes, NEW f \in Nodes
      PROVE  /\ Known(p, e)' => index'[p][e].rev > 0
             /\ Known(p, e)' /\ Known(p, f)' /\ index'[p][e].rev = index'[p][f].rev => e = f
  <2>1. CASE p # r
    BY <1>0, <2>1 DEF Numbered, Known
  <2>2. CASE p = r
    <3>1. index'[p][e] = index[p][e] \/ (e = d /\ index'[p][e].rev = revs[p] + 1)
      BY <1>0, <2>2
    <3>2. index'[p][f] = index[p][f] \/ (f = d /\ index'[p][f].rev = revs[p] + 1)
      BY <1>0, <2>2
    <3> QED BY <1>1, <3>1, <3>2 DEF Numbered, Known
  <2> QED BY <2>1, <2>2
<1> QED BY <1>2 DEF Numbered

LEMMA UpsertCovers ==
  ASSUME TypeOK, NEW r \in Registries, NEW d \in Nodes, NEW v \in Nat, upsertNode(r, d, v),
         NEW s \in Registries, NEW p \in Registries, NEW n \in Nat, n <= revs[p], NEW C,
         Covered(s, p, n, C)
  PROVE  Covered(s, p, n, C)' /\ n <= revs'[p]
<1>0. /\ \A q \in Registries, e \in Nodes : q # r \/ e # d => index'[q][e] = index[q][e]
      /\ index'[r][d].version = v /\ index'[r][d].rev = revs[r] + 1
      /\ \A q \in Registries : q # r => revs'[q] = revs[q]
      /\ revs'[r] = revs[r] + 1
      /\ \A q \in Registries : taken[q] \subseteq taken'[q]
  BY UpsertMoves
<1>1. revs[p] \in Nat /\ revs[r] \in Nat /\ n <= revs'[p]
  <2>1. revs[p] \in Nat /\ revs[r] \in Nat
    BY DEF TypeOK
  <2> QED BY <1>0, <2>1
<1>2. ASSUME NEW e \in Nodes, Known(p, e)', index'[p][e].rev <= n
      PROVE  Had(s, p, e)' \/ Entry(p, e)' \in C
  <2>1. index'[p][e] = index[p][e]
    BY <1>0, <1>1, <1>2
  <2>2. Had(s, p, e) \/ Entry(p, e) \in C
    BY <1>2, <2>1 DEF Covered, Known
  <2> QED BY <1>0, <2>1, <2>2 DEF Had, Entry
<1> QED BY <1>1, <1>2 DEF Covered

(* A reconcile that does nothing in the step. *)
LEMMA OtherPull ==
  ASSUME TypeOK, NEW w \in Rounds, PullInv(w), pull'[w] = pull[w],
         \A r, p \in Registries : cursor[r][p] <= cursor'[r][p],
         cursor' \in [Registries -> [Registries -> Nat]],
         NEW r \in Registries, NEW d \in Nodes, NEW v \in Nat, upsertNode(r, d, v)
  PROVE  PullInv(w)'
<1> SUFFICES ASSUME pull[w] # NoPull PROVE PullInv(w)'
  BY DEF PullInv
<1>1. pull[w] \in Pull /\ pull[w].peer \in Registries /\ Owner[w] \in Registries
  BY RegistryAssumption DEF TypeOK, NoPull, Pull
<1> PICK C : C = pull[w].changes
  OBVIOUS
<1>2. CASE pull[w].peer \notin Persistent
  BY <1>2 DEF PullInv
<1>3. CASE pull[w].peer \in Persistent
  <2>1. \A x \in C : x.rev \in Nat
    BY <1>1 DEF Pull, Delta
  <2>2. ASSUME NEW x \in C
        PROVE  x.rev <= revs'[pull[w].peer] /\ Covered(Owner[w], pull[w].peer, x.rev, C)'
    <3>1. x.rev \in Nat /\ x.rev <= revs[pull[w].peer] /\ Covered(Owner[w], pull[w].peer, x.rev, C)
      BY <1>3, <2>1 DEF PullInv
    <3>2. PICK s, p \in Registries : s = Owner[w] /\ p = pull[w].peer
      BY <1>1
    <3>3. Covered(s, p, x.rev, C)' /\ x.rev <= revs'[p]
      BY <3>1, <3>2, UpsertCovers
    <3> QED BY <3>2, <3>3 DEF Covered, Had, Known, Entry
  <2>3. pull[w].after <= cursor'[Owner[w]][pull[w].peer]
    <3>1. pull[w].after \in Nat /\ pull[w].after <= cursor[Owner[w]][pull[w].peer]
      BY <1>1, <1>3 DEF PullInv, Pull
    <3>2. cursor[Owner[w]][pull[w].peer] \in Nat /\ cursor'[Owner[w]][pull[w].peer] \in Nat
      BY <1>1 DEF TypeOK
    <3> QED BY <1>1, <3>1, <3>2
  <2> QED BY <1>3, <2>2, <2>3 DEF PullInv, Covered, Had, Known, Entry
<1> QED BY <1>2, <1>3

LEMMA OtherCursor ==
  ASSUME Inv, NEW r \in Registries, NEW d \in Nodes, NEW v \in Nat, upsertNode(r, d, v),
         NEW s \in Registries, NEW p \in Peers[s] \cap Persistent, cursor'[s][p] = cursor[s][p]
  PROVE  \E k \in Nat : k = cursor'[s][p] /\ k <= revs'[p] /\ Covered(s, p, k, {})'
<1>1. p \in Registries /\ cursor[s][p] \in Nat /\ TypeOK
  BY RegistryAssumption DEF Inv, TypeOK
<1> PICK k \in Nat : k = cursor[s][p]
  BY <1>1
<1>2. k <= revs[p] /\ Covered(s, p, k, {})
  BY DEF Inv, CursorInv
<1> QED BY <1>1, <1>2, UpsertCovers

----------------------------------------------------------------------------
(* The steps. *)

(* What does not touch the stores and the cursors. *)
LEMMA QuietInv ==
  ASSUME Inv, UNCHANGED <<index, revs, cursor, taken>>,
         signed' \in [Nodes -> Nat], \A d \in Nodes : signed[d] <= signed'[d],
         posts' \subseteq Post, \A q \in posts' : q.version <= signed'[q.node],
         pull' \in [Rounds -> {NoPull} \cup Pull], restarts' \in Nat,
         \A u \in Rounds : pull'[u] = pull[u] \/
           (PullInv(u)' /\ (pull'[u] # NoPull => \A x \in pull'[u].changes : x.version <= signed[x.node]))
  PROVE  Inv'
<1>1. TypeOK'
  BY DEF Inv, TypeOK
<1>2. Numbered' /\ CursorInv'
  BY DEF Inv, Numbered, CursorInv, Known, Covered, Had, Entry
<1>3. ASSUME NEW u \in Rounds, pull'[u] = pull[u] PROVE PullInv(u)'
  BY <1>3 DEF Inv, PullInv, Known, Covered, Had, Entry
<1>4. Sound'
  <2>1. ASSUME NEW u \in Rounds, pull'[u] # NoPull, NEW x \in pull'[u].changes
        PROVE  x.version <= signed'[x.node]
    <3>1. x \in Delta
      BY <2>1 DEF Pull, NoPull
    <3>2. x.version <= signed[x.node]
      BY <2>1 DEF Inv, Sound
    <3> QED BY <3>1, <3>2 DEF Delta, Inv, TypeOK
  <2> QED BY <2>1 DEF Sound
<1> QED BY <1>1, <1>2, <1>3, <1>4 DEF Inv

LEMMA RegisterInv ==
  ASSUME Inv, NEW q \in posts, Register(q)
  PROVE  Inv'
<1>1. /\ q \in Post /\ q.to \in Registries /\ q.node \in Nodes /\ q.version \in Nat
      /\ q.version <= signed[q.node]
  BY DEF Inv, TypeOK, Post, Sound
<1> PICK r \in Registries, d \in Nodes, v \in Nat : r = q.to /\ d = q.node /\ v = q.version
  BY <1>1
<1>2. upsertNode(r, d, v) /\ UNCHANGED <<signed, cursor, pull, restarts>>
      /\ posts' = (posts \ {q}) \cup Gossip(q)
  BY DEF Register
<1>3. /\ index' \in [Registries -> [Nodes -> [version : Nat, rev : Nat]]]
      /\ revs' \in [Registries -> Nat]
      /\ taken' \in [Registries -> SUBSET Manifest]
      /\ \A p \in Registries, e \in Nodes : p # r \/ e # d => index'[p][e] = index[p][e]
      /\ index'[r][d].version = v /\ index'[r][d].rev = revs[r] + 1
      /\ \A p \in Registries : p # r => revs'[p] = revs[p]
      /\ revs'[r] = revs[r] + 1
  <2>1. TypeOK /\ upsertNode(r, d, v) /\ revs[r] \in Nat
    BY <1>2 DEF Inv, TypeOK
  <2>2. index'[r][d].version = v
    BY <1>2 DEF upsertNode, Inv, TypeOK
  <2>3. index'[r][d].rev = revs[r] + 1 /\ revs'[r] = revs[r] + 1
    BY <2>1, UpsertFacts
  <2>4. /\ index' \in [Registries -> [Nodes -> [version : Nat, rev : Nat]]]
        /\ revs' \in [Registries -> Nat]
        /\ taken' \in [Registries -> SUBSET Manifest]
        /\ \A p \in Registries, e \in Nodes : p # r \/ e # d => index'[p][e] = index[p][e]
        /\ \A p \in Registries : p # r => revs'[p] = revs[p]
    BY <2>1, UpsertFacts
  <2> QED BY <2>2, <2>3, <2>4
<1>4. \A x \in Gossip(q) : x \in Post /\ x.version = v /\ x.node = d
  BY <1>1, RegistryAssumption DEF Gossip, Post
<1>5. posts' \subseteq Post /\ \A x \in posts' : x.version <= signed[x.node]
  BY <1>1, <1>2, <1>4 DEF Inv, TypeOK, Sound
<1>6. TypeOK'
  <2>1. \A p \in Registries, e \in Nodes :
          index'[p][e].version <= signed[e] /\ index'[p][e].rev <= revs'[p]
    <3>1. \A p \in Registries, e \in Nodes :
            /\ index[p][e].version <= signed[e] /\ index[p][e].rev <= revs[p]
            /\ index[p][e].rev \in Nat /\ revs[p] \in Nat
      BY DEF Inv, TypeOK
    <3>2. ASSUME NEW p \in Registries, NEW e \in Nodes, p # r \/ e # d
          PROVE  index'[p][e].version <= signed[e] /\ index'[p][e].rev <= revs'[p]
      <4>1. index'[p][e] = index[p][e] /\ (revs'[p] = revs[p] \/ revs'[p] = revs[p] + 1)
        BY <1>3, <3>2
      <4> QED BY <3>1, <4>1
    <3>3. index'[r][d].version <= signed[d] /\ index'[r][d].rev <= revs'[r]
      BY <1>1, <1>3, <3>1
    <3> QED BY <3>2, <3>3
  <2> QED BY <1>2, <1>3, <1>5, <2>1 DEF Inv, TypeOK
<1>7. Numbered'
  BY <1>2, UpsertNumbers DEF Inv
<1>8. Sound'
  BY <1>2, <1>5 DEF Inv, Sound
<1>9. CursorInv'
  BY <1>2, OtherCursor DEF CursorInv, Covered, Had, Known, Entry
<1>10. ASSUME NEW w \in Rounds PROVE PullInv(w)'
  <2>1. \A s, p \in Registries : cursor[s][p] <= cursor'[s][p]
    BY <1>2 DEF Inv, TypeOK
  <2> QED BY <1>2, <2>1, OtherPull DEF Inv, TypeOK
<1> QED BY <1>6, <1>7, <1>8, <1>9, <1>10 DEF Inv

(* A reconcile takes the oldest change it has left, and its cursor can      *)
(* follow: all the others are newer.                                       *)
LEMMA TakeInv ==
  ASSUME Inv, NEW u \in Rounds, Take(u)
  PROVE  Inv'
<1>1. /\ pull[u] # NoPull /\ pull[u] \in Pull /\ pull[u].answered
      /\ Owner[u] \in Registries /\ pull[u].peer \in Registries
      /\ pull[u].peer \in Peers[Owner[u]]
  BY RegistryAssumption DEF Take, Inv, TypeOK, NoPull, Pull, PullInv
<1> PICK r, p \in Registries, C \in SUBSET Delta, a \in Nat :
      r = Owner[u] /\ p = pull[u].peer /\ C = pull[u].changes /\ a = pull[u].after
  BY <1>1 DEF Pull
<1>2. PICK m \in C :
        /\ \A x \in C : m.rev <= x.rev
        /\ upsertNode(r, m.node, m.version)
        /\ cursor' = [cursor EXCEPT ![r][p] = Advance(r, p, m.rev)]
        /\ pull' = [pull EXCEPT ![u] = Left(u, C \ {m})]
  BY DEF Take
<1>3. UNCHANGED <<signed, posts, restarts>> /\ TypeOK /\ m.version <= signed[m.node]
  BY <1>1 DEF Take, Inv, Sound
<1> PICK d \in Nodes, v \in Nat, n \in Nat : d = m.node /\ v = m.version /\ n = m.rev
  BY DEF Delta
<1>4. upsertNode(r, d, v)
  BY <1>2
<1>5. /\ index' \in [Registries -> [Nodes -> [version : Nat, rev : Nat]]]
      /\ revs' \in [Registries -> Nat]
      /\ taken' \in [Registries -> SUBSET Manifest]
      /\ \A t \in Registries, e \in Nodes : t # r \/ e # d => index'[t][e] = index[t][e]
      /\ \A t \in Registries : t # r => revs'[t] = revs[t]
      /\ [node |-> d, version |-> v] \in taken'[r]
  BY <1>3, <1>4, UpsertFacts
<1>6. index'[r][d].version = v /\ index'[r][d].rev = revs[r] + 1 /\ revs'[r] = revs[r] + 1
  BY <1>4 DEF upsertNode, Inv, TypeOK
<1>7. /\ cursor' \in [Registries -> [Registries -> Nat]]
      /\ \A s, t \in Registries : cursor[s][t] <= cursor'[s][t]
      /\ \A s, t \in Registries : s # r \/ t # p => cursor'[s][t] = cursor[s][t]
      /\ cursor'[r][p] = IF cursor[r][p] < n THEN n ELSE cursor[r][p]
  BY <1>2 DEF Advance, Inv, TypeOK
<1>8. /\ pull'[u] = NoPull \/ (/\ pull'[u] \in Pull /\ pull'[u].peer = p /\ pull'[u].after = a
                               /\ pull'[u].changes = C \ {m})
      /\ \A w \in Rounds : w # u => pull'[w] = pull[w]
      /\ pull' \in [Rounds -> {NoPull} \cup Pull]
  BY <1>1, <1>2 DEF Left, Pull, Inv, TypeOK
<1>9. TypeOK'
  <2>1. \A t \in Registries, e \in Nodes :
          /\ index[t][e].version <= signed[e] /\ index[t][e].rev <= revs[t]
          /\ index[t][e].rev \in Nat /\ revs[t] \in Nat
    BY DEF Inv, TypeOK
  <2>2. ASSUME NEW t \in Registries, NEW e \in Nodes, t # r \/ e # d
        PROVE  index'[t][e].version <= signed[e] /\ index'[t][e].rev <= revs'[t]
    <3>1. index'[t][e] = index[t][e] /\ (revs'[t] = revs[t] \/ revs'[t] = revs[t] + 1)
      BY <1>5, <1>6, <2>2
    <3> QED BY <2>1, <3>1
  <2>3. index'[r][d].version <= signed[d] /\ index'[r][d].rev <= revs'[r]
    BY <1>3, <1>6, <2>1
  <2> QED BY <1>3, <1>5, <1>7, <1>8, <2>2, <2>3 DEF TypeOK
<1>10. Numbered'
  BY <1>3, <1>4, UpsertNumbers DEF Inv
<1>11. Sound'
  <2>1. \A x \in C : x.version <= signed[x.node]
    BY <1>1 DEF Inv, Sound
  <2>2. ASSUME NEW w \in Rounds, pull'[w] # NoPull, NEW x \in pull'[w].changes
        PROVE  x.version <= signed[x.node]
    BY <1>8, <2>1, <2>2 DEF Inv, Sound
  <2> QED BY <1>3, <2>2 DEF Inv, Sound
<1>12. ASSUME NEW w \in Rounds, w # u PROVE PullInv(w)'
  BY <1>3, <1>4, <1>7, <1>8, <1>12, OtherPull DEF Inv
<1>13. ASSUME p \in Persistent
       PROVE  /\ a <= cursor[r][p]
              /\ \A x, y \in C : x.rev = y.rev => x = y
              /\ \A x \in C : x.rev \in Nat /\ x.rev <= revs[p] /\ Covered(r, p, x.rev, C)
  BY <1>1, <1>13 DEF Inv, PullInv, Delta
<1>14. ASSUME p \in Persistent, NEW x \in C
       PROVE  x.rev \in Nat /\ x.rev <= revs'[p] /\ Covered(r, p, x.rev, C)'
  <2>1. x.rev \in Nat /\ x.rev <= revs[p] /\ Covered(r, p, x.rev, C)
    BY <1>13, <1>14
  <2> PICK k \in Nat : k = x.rev
    BY <2>1
  <2>2. Covered(r, p, k, C)' /\ k <= revs'[p]
    BY <1>3, <1>4, <2>1, UpsertCovers
  <2> QED BY <2>1, <2>2 DEF Covered, Had, Known, Entry
<1>15. ASSUME p \in Persistent, NEW e \in Nodes, Entry(p, e)' = m PROVE Had(r, p, e)'
  BY <1>5, <1>15 DEF Entry, Had
<1>16. PullInv(u)'
  <2> SUFFICES ASSUME pull'[u] # NoPull, p \in Persistent
               PROVE  /\ a <= cursor'[r][p]
                      /\ \A x, y \in C \ {m} : x.rev = y.rev => x = y
                      /\ \A x \in C \ {m} : x.rev <= revs'[p] /\ Covered(r, p, x.rev, C \ {m})'
    BY <1>1, <1>8 DEF PullInv, Covered, Had, Known, Entry
  <2>1. a <= cursor'[r][p]
    BY <1>7, <1>13 DEF Inv, TypeOK
  <2>2. ASSUME NEW x \in C \ {m} PROVE Covered(r, p, x.rev, C \ {m})'
    BY <1>14, <1>15 DEF Covered
  <2> QED BY <1>13, <1>14, <2>1, <2>2
<1>17. CursorInv'
  <2>1. ASSUME NEW s \in Registries, NEW t \in Peers[s] \cap Persistent, s # r \/ t # p
        PROVE  \E k \in Nat : k = cursor'[s][t] /\ k <= revs'[t] /\ Covered(s, t, k, {})'
    <3>1. t \in Registries /\ cursor'[s][t] = cursor[s][t]
      BY <1>7, <2>1, RegistryAssumption
    <3> QED BY <1>4, <3>1, OtherCursor
  <2>2. ASSUME p \in Persistent
        PROVE  \E k \in Nat : k = cursor'[r][p] /\ k <= revs'[p] /\ Covered(r, p, k, {})'
    <3>1. CASE cursor'[r][p] = cursor[r][p]
      BY <1>1, <1>4, <2>2, <3>1, OtherCursor
    <3>2. CASE cursor'[r][p] = n
      <4>1. n <= revs'[p] /\ Covered(r, p, n, C)'
        BY <1>14, <2>2 DEF Covered, Had, Known, Entry
      <4>2. ASSUME NEW e \in Nodes, Known(p, e)', index'[p][e].rev <= n PROVE Had(r, p, e)'
        <5>1. Had(r, p, e)' \/ Entry(p, e)' \in C
          BY <4>1, <4>2 DEF Covered
        <5>2. ASSUME Entry(p, e)' \in C PROVE Entry(p, e)' = m
          <6>1. PICK x \in C : x = Entry(p, e)'
            BY <5>2
          <6>2. x.rev = index'[p][e].rev /\ x.rev \in Nat
            BY <6>1, <1>14, <2>2 DEF Entry
          <6>3. x.rev = m.rev
            BY <1>2, <4>2, <6>2
          <6> QED BY <1>13, <2>2, <6>1, <6>3
        <5> QED BY <1>15, <2>2, <5>1, <5>2
      <4>3. Covered(r, p, n, {})'
        BY <4>2 DEF Covered
      <4> QED BY <3>2, <4>1, <4>3
    <3> QED BY <1>7, <3>1, <3>2
  <2>3. ASSUME NEW s \in Registries, NEW t \in Peers[s] \cap Persistent
        PROVE  \E k \in Nat : k = cursor'[s][t] /\ k <= revs'[t] /\ Covered(s, t, k, {})'
    BY <2>1, <2>2, <2>3
  <2> QED BY <2>3 DEF CursorInv, Covered, Had, Known, Entry
<1> QED BY <1>9, <1>10, <1>11, <1>12, <1>16, <1>17 DEF Inv

(* What a reconcile is answered is gap-free because what is at or below the *)
(* revision it asked for has been taken.                                   *)
LEMMA AnswerInv ==
  ASSUME Inv, NEW u \in Rounds, Answer(u)
  PROVE  Inv'
<1>1. /\ pull[u] # NoPull /\ pull[u] \in Pull
      /\ Owner[u] \in Registries /\ pull[u].peer \in Registries
      /\ pull[u].peer \in Peers[Owner[u]]
  BY RegistryAssumption DEF Answer, Asked, Inv, TypeOK, NoPull, Pull, PullInv
<1> PICK r, p \in Registries, a \in Nat : r = Owner[u] /\ p = pull[u].peer /\ a = pull[u].after
  BY <1>1 DEF Pull
<1> PICK C : C = changesSince(p, a)
  OBVIOUS
<1>2. /\ pull' = [pull EXCEPT ![u] = Left(u, C)]
      /\ UNCHANGED <<signed, posts, index, revs, cursor, restarts, taken>>
  BY DEF Answer
<1>3. /\ C \in SUBSET Delta
      /\ \A x \in C : x.rev <= revs[p] /\ x.version <= signed[x.node]
      /\ \A x, y \in C : x.rev = y.rev => x = y
  BY PageType DEF Inv
<1>4. /\ pull'[u] = NoPull \/ (/\ pull'[u] \in Pull /\ pull'[u].peer = p /\ pull'[u].after = a
                               /\ pull'[u].changes = C)
      /\ \A w \in Rounds : w # u => pull'[w] = pull[w]
      /\ pull' \in [Rounds -> {NoPull} \cup Pull]
  BY <1>1, <1>2, <1>3 DEF Left, Pull, Inv, TypeOK
<1>5. ASSUME p \in Persistent, NEW x \in C PROVE Covered(r, p, x.rev, C)
  <2> SUFFICES ASSUME NEW e \in Nodes, Known(p, e), index[p][e].rev <= x.rev
               PROVE  Had(r, p, e) \/ Entry(p, e) \in C
    BY DEF Covered
  <2>0. index[p][e].rev \in Nat /\ cursor[r][p] \in Nat /\ a <= cursor[r][p]
    BY <1>1, <1>5 DEF Inv, TypeOK, PullInv
  <2>1. CASE index[p][e].rev > a
    BY <2>1, PageIsGapFree DEF Inv
  <2>2. CASE index[p][e].rev <= a
    <3>1. index[p][e].rev <= cursor[r][p]
      BY <2>0, <2>2
    <3>2. Covered(r, p, cursor[r][p], {})
      BY <1>1, <1>5 DEF Inv, CursorInv
    <3> QED BY <3>1, <3>2 DEF Covered
  <2> QED BY <2>0, <2>1, <2>2
<1>6. PullInv(u)'
  <2>1. CASE pull'[u] = NoPull
    BY <2>1 DEF PullInv
  <2>2. CASE pull'[u] # NoPull
    <3>1. pull'[u].peer = p /\ pull'[u].after = a /\ pull'[u].changes = C
      BY <1>4, <2>2
    <3>2. p \in Persistent => a <= cursor'[r][p]
      BY <1>1, <1>2 DEF Inv, PullInv
    <3>3. ASSUME p \in Persistent, NEW x \in C
          PROVE  x.rev <= revs'[p] /\ Covered(r, p, x.rev, C)'
      <4>1. Covered(r, p, x.rev, C)
        BY <1>5, <3>3
      <4>2. Covered(r, p, x.rev, C)'
        BY <1>2, <4>1 DEF Covered, Had, Known, Entry
      <4> QED BY <1>2, <1>3, <4>2
    <3>4. \A x \in pull'[u].changes : p \in Persistent =>
            x.rev <= revs'[p] /\ Covered(Owner[u], pull[u].peer, x.rev, pull[u].changes)'
      BY <3>1, <3>3 DEF Covered, Had, Known, Entry
    <3> QED BY <1>1, <1>3, <3>1, <3>2, <3>4 DEF PullInv, Covered, Had, Known, Entry
  <2> QED BY <2>1, <2>2
<1>7. \A w \in Rounds : pull'[w] = pull[w] \/
        (PullInv(w)' /\ (pull'[w] # NoPull => \A x \in pull'[w].changes : x.version <= signed[x.node]))
  BY <1>3, <1>4, <1>6
<1>8. \A w \in Nodes : signed[w] <= signed'[w]
  BY <1>2 DEF Inv, TypeOK
<1> QED BY <1>2, <1>4, <1>7, <1>8, QuietInv DEF Inv, TypeOK, Sound

LEMMA AskInv ==
  ASSUME Inv, NEW u \in Rounds, NEW p \in Registries, Ask(u, p) \/ NoAnswer(u)
  PROVE  Inv'
<1> PICK x : x = [peer |-> p, after |-> cursor[Owner[u]][p], answered |-> FALSE, changes |-> {}]
  OBVIOUS
<1>0. UNCHANGED <<signed, posts, index, revs, cursor, restarts, taken>>
  BY DEF Ask, NoAnswer
<1>1. pull' = [pull EXCEPT ![u] = NoPull] \/ (p \in Peers[Owner[u]] /\ pull' = [pull EXCEPT ![u] = x])
  BY DEF Ask, NoAnswer
<1>2. x \in Pull /\ cursor[Owner[u]][p] \in Nat
  BY RegistryAssumption DEF Pull, Inv, TypeOK
<1>3. /\ pull' \in [Rounds -> {NoPull} \cup Pull]
      /\ \A w \in Rounds : w # u => pull'[w] = pull[w]
      /\ pull'[u] = NoPull \/ (p \in Peers[Owner[u]] /\ pull'[u] = x)
  BY <1>1, <1>2 DEF Inv, TypeOK
<1>4. PullInv(u)'
  BY <1>0, <1>2, <1>3 DEF PullInv
<1>5. pull'[u] # NoPull => \A y \in pull'[u].changes : y.version <= signed[y.node]
  BY <1>3
<1>6. \A w \in Nodes : signed[w] <= signed'[w]
  BY <1>0 DEF Inv, TypeOK
<1> QED BY <1>0, <1>3, <1>4, <1>5, <1>6, QuietInv DEF Inv, TypeOK, Sound

LEMMA PostsInv ==
  ASSUME Inv, (\E d \in Nodes : Sign(d)) \/ (\E q \in posts : Lose(q)) \/ UNCHANGED vars
  PROVE  Inv'
<1>1. ASSUME NEW d \in Nodes, Sign(d) PROVE Inv'
  <2>1. UNCHANGED <<index, revs, cursor, pull, restarts, taken>>
        /\ signed' = [signed EXCEPT ![d] = @ + 1] /\ signed \in [Nodes -> Nat]
    BY <1>1 DEF Sign, Inv, TypeOK
  <2>2. signed' \in [Nodes -> Nat] /\ \A e \in Nodes : signed[e] <= signed'[e]
    BY <2>1
  <2>3. PICK r \in Registries : posts' = posts \cup
          {[to |-> r, node |-> d, version |-> signed[d] + 1, gossiped |-> FALSE]}
    BY <1>1 DEF Sign
  <2>4. posts' \subseteq Post
    <3>1. signed[d] + 1 \in Nat /\ posts \subseteq Post
      BY <2>1 DEF Inv, TypeOK
    <3>2. [to |-> r, node |-> d, version |-> signed[d] + 1, gossiped |-> FALSE] \in Post
      BY <3>1 DEF Post
    <3> QED BY <2>3, <3>1, <3>2
  <2>5. ASSUME NEW q \in posts' PROVE q.version <= signed'[q.node]
    <3>1. CASE q \in posts
      BY <2>1, <2>2, <3>1 DEF Inv, Sound, TypeOK, Post
    <3>2. CASE q \notin posts
      <4>1. q = [to |-> r, node |-> d, version |-> signed[d] + 1, gossiped |-> FALSE]
        BY <2>3, <2>5, <3>2
      <4>2. q.node = d /\ q.version = signed[d] + 1
        BY <4>1
      <4>3. signed'[d] = signed[d] + 1 /\ signed[d] \in Nat
        BY <2>1
      <4> QED BY <4>2, <4>3
    <3> QED BY <3>1, <3>2
  <2> QED BY <2>1, <2>2, <2>4, <2>5, QuietInv DEF Inv, TypeOK
<1>2. ASSUME (\E q \in posts : Lose(q)) \/ UNCHANGED vars PROVE Inv'
  <2>1. posts' \subseteq posts /\ UNCHANGED <<signed, index, revs, cursor, pull, restarts, taken>>
    BY <1>2 DEF Lose, vars
  <2>2. \A e \in Nodes : signed[e] <= signed'[e]
    BY <2>1 DEF Inv, TypeOK
  <2> QED BY <2>1, <2>2, QuietInv DEF Inv, TypeOK, Sound
<1> QED BY <1>1, <1>2

(* A registry that restarts starts at the beginning of every feed.  One     *)
(* that forgets its store is no persistent peer of another.                *)
LEMMA RestartInv ==
  ASSUME Inv, NEW r \in Registries, Restart(r)
  PROVE  Inv'
<1>1. /\ UNCHANGED <<signed, posts>> /\ restarts' = restarts + 1
      /\ cursor' = [cursor EXCEPT ![r] = [p \in Registries |-> 0]]
      /\ pull' = [u \in Rounds |-> IF Owner[u] = r THEN NoPull ELSE pull[u]]
      /\ Owner \in [Rounds -> Registries]
  BY RegistryAssumption DEF Restart
<1>2. /\ cursor' \in [Registries -> [Registries -> Nat]]
      /\ \A p \in Registries : cursor'[r][p] = 0
      /\ \A s \in Registries : s # r => cursor'[s] = cursor[s]
  BY <1>1 DEF Inv, TypeOK
<1>3. /\ index' \in [Registries -> [Nodes -> [version : Nat, rev : Nat]]]
      /\ revs' \in [Registries -> Nat] /\ taken' \in [Registries -> SUBSET Manifest]
      /\ \A s \in Registries : s # r \/ r \in Persistent =>
           index'[s] = index[s] /\ revs'[s] = revs[s] /\ taken'[s] = taken[s]
  <2>0. TypeOK /\ NoEntry \in [version : Nat, rev : Nat]
    BY DEF Inv, NoEntry
  <2>1. CASE r \in Persistent
    BY <2>0, <2>1 DEF Restart, TypeOK
  <2>2. CASE r \notin Persistent
    <3>1. /\ index' = [index EXCEPT ![r] = [d \in Nodes |-> NoEntry]]
          /\ revs' = [revs EXCEPT ![r] = 0] /\ taken' = [taken EXCEPT ![r] = {}]
      BY <2>2 DEF Restart
    <3>2. [d \in Nodes |-> NoEntry] \in [Nodes -> [version : Nat, rev : Nat]]
      BY <2>0
    <3>3. index' \in [Registries -> [Nodes -> [version : Nat, rev : Nat]]]
      BY <2>0, <3>1, <3>2 DEF TypeOK
    <3>4. revs' \in [Registries -> Nat] /\ taken' \in [Registries -> SUBSET Manifest]
      BY <2>0, <3>1 DEF TypeOK
    <3> QED BY <2>0, <2>2, <3>1, <3>3, <3>4 DEF TypeOK
  <2> QED BY <2>1, <2>2
<1>4. (\A d \in Nodes : index'[r][d] = NoEntry) \/ (index'[r] = index[r] /\ revs'[r] = revs[r])
  BY DEF Restart, Inv, TypeOK
<1>5. TypeOK'
  <2>1. ASSUME NEW s \in Registries, NEW d \in Nodes
        PROVE  index'[s][d].version <= signed[d] /\ index'[s][d].rev <= revs'[s]
    <3>0. /\ index[s][d].version <= signed[d] /\ index[s][d].rev <= revs[s]
          /\ revs'[s] \in Nat /\ signed[d] \in Nat
      BY <1>3 DEF Inv, TypeOK
    <3>1. CASE index'[s] = index[s] /\ revs'[s] = revs[s]
      BY <3>0, <3>1
    <3>2. CASE index'[s][d] = NoEntry
      BY <3>0, <3>2 DEF NoEntry
    <3> QED BY <1>3, <1>4, <3>1, <3>2
  <2>2. pull' \in [Rounds -> {NoPull} \cup Pull]
    BY <1>1 DEF Inv, TypeOK
  <2> QED BY <1>1, <1>2, <1>3, <2>1, <2>2 DEF Inv, TypeOK
<1>6. Numbered'
  <2>1. ASSUME NEW s \in Registries, NEW d \in Nodes, NEW e \in Nodes
        PROVE  /\ Known(s, d)' => index'[s][d].rev > 0
               /\ Known(s, d)' /\ Known(s, e)' /\ index'[s][d].rev = index'[s][e].rev => d = e
    <3>1. CASE index'[s] = index[s]
      BY <3>1 DEF Inv, Numbered, Known
    <3>2. CASE index'[s][d] = NoEntry
      BY <3>2 DEF Known, NoEntry
    <3> QED BY <1>3, <1>4, <3>1, <3>2
  <2> QED BY <2>1 DEF Numbered
<1>7. Sound'
  BY <1>1 DEF Inv, Sound
<1>8. ASSUME NEW p \in Persistent, NEW s \in Registries, s # r, NEW n, NEW C, Covered(s, p, n, C)
      PROVE  Covered(s, p, n, C)'
  <2>1. p \in Registries /\ index'[p] = index[p] /\ taken'[s] = taken[s]
    BY <1>3, <1>8, RegistryAssumption
  <2> QED BY <1>8, <2>1 DEF Covered, Had, Known, Entry
<1>9. \A p \in Persistent : p \in Registries /\ revs'[p] = revs[p] /\ revs[p] \in Nat
  BY <1>3, RegistryAssumption DEF Inv, TypeOK
<1>10. CursorInv'
  <2>1. ASSUME NEW s \in Registries, NEW p \in Peers[s] \cap Persistent, s # r
        PROVE  cursor'[s][p] <= revs'[p] /\ \E k : k = cursor'[s][p] /\ Covered(s, p, k, {})'
    <3>1. cursor[s][p] <= revs[p] /\ Covered(s, p, cursor[s][p], {})
      BY <2>1 DEF Inv, CursorInv
    <3> PICK k : k = cursor[s][p]
      OBVIOUS
    <3> QED BY <1>2, <1>8, <1>9, <2>1, <3>1
  <2>2. ASSUME NEW p \in Peers[r] \cap Persistent
        PROVE  cursor'[r][p] <= revs'[p] /\ \E k : k = cursor'[r][p] /\ Covered(r, p, k, {})'
    <3>1. cursor'[r][p] = 0 /\ p \in Registries
      BY <1>2, <1>9
    <3>2. \A d \in Nodes : Known(p, d)' => index'[p][d].rev > 0 /\ index'[p][d].rev \in Nat
      BY <1>5, <1>6, <3>1 DEF Numbered, TypeOK
    <3>3. Covered(r, p, 0, {})'
      BY <3>2 DEF Covered
    <3> QED BY <1>9, <3>1, <3>3
  <2> QED BY <2>1, <2>2 DEF CursorInv, Covered, Had, Known, Entry
<1>11. ASSUME NEW u \in Rounds PROVE PullInv(u)'
  <2>1. CASE Owner[u] = r
    BY <1>1, <2>1 DEF PullInv
  <2>2. CASE Owner[u] # r
    <3> SUFFICES ASSUME pull[u] # NoPull PROVE PullInv(u)'
      BY <1>1, <2>2 DEF PullInv
    <3>1. pull'[u] = pull[u] /\ pull[u].peer \in Registries /\ Owner[u] \in Registries
      BY <1>1, <2>2 DEF Inv, TypeOK, NoPull, Pull
    <3>2. PullInv(u)
      BY DEF Inv
    <3>3. CASE pull[u].peer \notin Persistent
      BY <3>1, <3>2, <3>3 DEF PullInv
    <3>4. CASE pull[u].peer \in Persistent
      <4> PICK C : C = pull[u].changes
        OBVIOUS
      <4>1. ASSUME NEW x \in C PROVE Covered(Owner[u], pull[u].peer, x.rev, C)'
        <5>0. PICK s, p, k : s = Owner[u] /\ p = pull[u].peer /\ k = x.rev
          OBVIOUS
        <5>1. Covered(s, p, k, C) /\ s \in Registries /\ s # r /\ p \in Persistent
          BY <2>2, <3>1, <3>2, <3>4, <5>0 DEF PullInv
        <5>2. Covered(s, p, k, C)'
          BY <1>8, <5>1
        <5>3. \A e \in Nodes : Known(p, e)' /\ index'[p][e].rev <= x.rev
                => Had(s, p, e)' \/ Entry(p, e)' \in C
          BY <5>0, <5>2 DEF Covered
        <5> QED BY <1>1, <3>1, <5>0, <5>3 DEF Covered, Had, Known, Entry
      <4> QED BY <1>2, <1>9, <2>2, <3>1, <3>2, <3>4, <4>1 DEF PullInv, Covered, Had, Known, Entry
    <3> QED BY <3>3, <3>4
  <2> QED BY <2>1, <2>2
<1> QED BY <1>5, <1>6, <1>7, <1>10, <1>11 DEF Inv

LEMMA InitInv == Init => Inv
<1> SUFFICES ASSUME Init PROVE Inv
  OBVIOUS
<1>1. TypeOK
  BY DEF Init, TypeOK, NoEntry
<1>2. Numbered /\ Sound
  BY DEF Init, Numbered, Sound, Known, NoEntry
<1>3. CursorInv
  BY RegistryAssumption DEF Init, CursorInv, Covered, Known, NoEntry
<1>4. \A u \in Rounds : PullInv(u)
  BY DEF Init, PullInv
<1> QED BY <1>1, <1>2, <1>3, <1>4 DEF Inv

LEMMA NextInv == Inv /\ [Next]_vars => Inv'
<1> SUFFICES ASSUME Inv, [Next]_vars PROVE Inv'
  OBVIOUS
<1>1. ASSUME NEW d \in Nodes, Sign(d) PROVE Inv'
  BY <1>1, PostsInv
<1>2. ASSUME NEW q \in posts, Register(q) PROVE Inv'
  BY <1>2, RegisterInv
<1>3. ASSUME NEW q \in posts, Lose(q) PROVE Inv'
  BY <1>3, PostsInv
<1>4. ASSUME NEW u \in Rounds, NEW p \in Registries, Ask(u, p) PROVE Inv'
  BY <1>4, AskInv
<1>5. ASSUME NEW u \in Rounds, Answer(u) PROVE Inv'
  BY <1>5, AnswerInv
<1>6. ASSUME NEW u \in Rounds, NoAnswer(u) PROVE Inv'
  <2>1. Owner[u] \in Registries
    BY RegistryAssumption
  <2> QED BY <1>6, <2>1, AskInv
<1>7. ASSUME NEW u \in Rounds, Take(u) PROVE Inv'
  BY <1>7, TakeInv
<1>8. ASSUME NEW r \in Registries, Restart(r) PROVE Inv'
  BY <1>8, RestartInv
<1>9. CASE UNCHANGED vars
  BY <1>9, PostsInv
<1> QED BY <1>1, <1>2, <1>3, <1>4, <1>5, <1>6, <1>7, <1>8, <1>9 DEF Next

(* What a registry holds has been signed, and under a revision it gave.    *)
THEOREM TypeCorrect == Spec => []TypeOK
<1>1. Inv => TypeOK
  BY DEF Inv
<1> QED BY <1>1, InitInv, NextInv, PTL DEF Spec

(* NOTHING IS MISSED, for every instance: in any topology of peers, with    *)
(* any number of overlapping reconciles and any page size.                 *)
THEOREM FeedHasNoGaps == Spec => []NothingMissed
<1>1. Inv => NothingMissed
  BY DEF Inv, CursorInv, NothingMissed, Covered, Had
<1> QED BY <1>1, InitInv, NextInv, PTL DEF Spec

=============================================================================
