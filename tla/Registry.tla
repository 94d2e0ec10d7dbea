------------------------------ MODULE Registry ------------------------------
(***************************************************************************)
(* packages/registry: federated registries of nodes (registry.ts over      *)
(* store/src/memory.ts or sqlite.ts).                                      *)
(*                                                                         *)
(* A registry keeps the last manifest it was given of each node, under a   *)
(* revision of its own; a manifest is signed but carries no version, so    *)
(* the versions here are the model's.  Two things spread manifests: a      *)
(* first-seen registration is posted to the peers (gossip, best-effort),   *)
(* and reconcile pulls what a peer's feed has beyond a cursor.  Upserts of *)
(* both stores are synchronous; PostgreSQL's are not and are not modelled  *)
(* here.                                                                   *)
(***************************************************************************)
EXTENDS Integers, FiniteSets

CONSTANTS
  Registries,
  Peers,        \* the registries each one gossips to and pulls from
  Persistent,   \* the registries over SQLite; the others keep all in memory
  Nodes,        \* DIDs
  Rounds,       \* calls of reconcile that can be under way
  Owner,        \* the registry of each
  Limit,        \* the page size of /since
  MaxVersion,   \* bound: manifests each node signs
  MaxRev,       \* bound: feed revisions, see Ask
  MaxRestarts   \* bound

ASSUME RegistryAssumption ==
  /\ IsFiniteSet(Nodes)
  /\ Peers \in [Registries -> SUBSET Registries]
  /\ Persistent \subseteq Registries
  /\ Owner \in [Rounds -> Registries]
  /\ Limit \in Nat \ {0}
  /\ MaxVersion \in Nat /\ MaxRev \in Nat /\ MaxRestarts \in Nat

VARIABLES
  signed,       \* how many manifests each node has signed
  posts,        \* POSTs of /register under way, those that wait for fetchSummary included
  index,        \* each registry's store: what it holds of each node
  revs,         \* the last revision it gave
  cursor,       \* its peerCursor
  pull,         \* what each reconcile is doing
  restarts,
  taken         \* history: manifests each registry took, as far as it remembers

vars == <<signed, posts, index, revs, cursor, pull, restarts, taken>>

Manifest == [node : Nodes, version : Nat]
Post == [to : Registries, node : Nodes, version : Nat, gossiped : BOOLEAN]
Delta == [node : Nodes, version : Nat, rev : Nat]
NoEntry == [version |-> 0, rev |-> 0]
NoPull == [answered |-> FALSE]
Pull == [peer : Registries, after : Nat, answered : BOOLEAN, changes : SUBSET Delta]

Known(r, d) == index[r][d].version > 0

TypeOK ==
  /\ signed \in [Nodes -> Nat]
  /\ posts \subseteq Post
  /\ index \in [Registries -> [Nodes -> [version : Nat, rev : Nat]]]
  /\ revs \in [Registries -> Nat]
  /\ cursor \in [Registries -> [Registries -> Nat]]
  /\ pull \in [Rounds -> {NoPull} \cup Pull]
  /\ restarts \in Nat
  /\ taken \in [Registries -> SUBSET Manifest]
  /\ \A r \in Registries, d \in Nodes :
       index[r][d].version <= signed[d] /\ index[r][d].rev <= revs[r]

Init ==
  /\ signed = [d \in Nodes |-> 0]
  /\ posts = {}
  /\ index = [r \in Registries |-> [d \in Nodes |-> NoEntry]]
  /\ revs = [r \in Registries |-> 0]
  /\ cursor = [r \in Registries |-> [p \in Registries |-> 0]]
  /\ pull = [u \in Rounds |-> NoPull]
  /\ restarts = 0
  /\ taken = [r \in Registries |-> {}]

----------------------------------------------------------------------------
(* The store. *)

(* Mutant: only a node that is seen first advances the counter. *)
upsertNodeFirst(r, d, v) ==
  /\ index' = [index EXCEPT ![r][d] = [version |-> v, rev |-> revs[r] + 1]]
  /\ revs' = [revs EXCEPT ![r] = IF Known(r, d) THEN @ ELSE @ + 1]
  /\ taken' = [taken EXCEPT ![r] = @ \cup {[node |-> d, version |-> v]}]

(* Every upsert, of a known node too, takes the next revision. *)
upsertNode(r, d, v) ==
  /\ index' = [index EXCEPT ![r][d] = [version |-> v, rev |-> revs[r] + 1]]
  /\ revs' = [revs EXCEPT ![r] = @ + 1]
  /\ taken' = [taken EXCEPT ![r] = @ \cup {[node |-> d, version |-> v]}]

Entry(p, d) == [node |-> d, version |-> index[p][d].version, rev |-> index[p][d].rev]

(* The nodes of a feed after a revision. *)
Feed(p, after) == {d \in Nodes : Known(p, d) /\ index[p][d].rev > after}

Older(p, after, d) == {e \in Feed(p, after) : index[p][e].rev < index[p][d].rev}

(* Mutant: the newest Limit entries. *)
changesNewest(p, after) ==
  {Entry(p, d) : d \in {e \in Feed(p, after) :
     Cardinality({x \in Feed(p, after) : index[p][x].rev > index[p][e].rev}) < Limit}}

(* Oldest first, at most Limit. *)
changesSince(p, after) ==
  {Entry(p, d) : d \in {e \in Feed(p, after) : Cardinality(Older(p, after, e)) < Limit}}

----------------------------------------------------------------------------
(* Registration and gossip. *)

(* A node signs a manifest and submits it to a registry. *)
Sign(d) ==
  /\ signed[d] < MaxVersion
  /\ signed' = [signed EXCEPT ![d] = @ + 1]
  /\ \E r \in Registries :
       posts' = posts \cup {[to |-> r, node |-> d, version |-> signed[d] + 1, gossiped |-> FALSE]}
  /\ UNCHANGED <<index, revs, cursor, pull, restarts, taken>>

(* A first-seen registration that is not gossip itself goes to the peers. *)
Gossip(q) ==
  IF Known(q.to, q.node) \/ q.gossiped THEN {}
  ELSE [to : Peers[q.to], node : {q.node}, version : {q.version}, gossiped : {TRUE}]

Register(q) ==
  /\ q \in posts
  /\ upsertNode(q.to, q.node, q.version)
  /\ posts' = (posts \ {q}) \cup Gossip(q)
  /\ UNCHANGED <<signed, cursor, pull, restarts>>

(* A post is lost, or its registry stops before it is handled. *)
Lose(q) ==
  /\ posts' = posts \ {q}
  /\ UNCHANGED <<signed, index, revs, cursor, pull, restarts, taken>>

----------------------------------------------------------------------------
(* reconcile: for each peer, fetch what is after the cursor and take it.   *)

HasNews(r, p) == \E d \in Nodes : Known(p, d) /\ ~Known(r, d)

(* A registry at the bound MaxRev asks only a peer that knows more nodes. *)
Ask(u, p) ==
  /\ pull[u] = NoPull
  /\ p \in Peers[Owner[u]]
  /\ revs[Owner[u]] < MaxRev \/ HasNews(Owner[u], p)
  /\ pull' = [pull EXCEPT ![u] =
       [peer |-> p, after |-> cursor[Owner[u]][p], answered |-> FALSE, changes |-> {}]]
  /\ UNCHANGED <<signed, posts, index, revs, cursor, restarts, taken>>

Asked(u) == pull[u] # NoPull /\ ~pull[u].answered

(* A reconcile is over when its page is used up. *)
Left(u, changes) ==
  IF changes = {} THEN NoPull ELSE [pull[u] EXCEPT !.answered = TRUE, !.changes = changes]

Answer(u) ==
  /\ Asked(u)
  /\ pull' = [pull EXCEPT ![u] = Left(u, changesSince(pull[u].peer, pull[u].after))]
  /\ UNCHANGED <<signed, posts, index, revs, cursor, restarts, taken>>

(* The peer is unreachable, or its answer lost. *)
NoAnswer(u) ==
  /\ Asked(u)
  /\ pull' = [pull EXCEPT ![u] = NoPull]
  /\ UNCHANGED <<signed, posts, index, revs, cursor, restarts, taken>>

Advance(r, p, rev) == IF cursor[r][p] < rev THEN rev ELSE cursor[r][p]

(* Each change is taken, oldest first, and the cursor follows. *)
Take(u) ==
  LET r == Owner[u] p == pull[u].peer IN
  /\ pull[u] # NoPull /\ pull[u].answered
  /\ \E m \in pull[u].changes :
       /\ \A x \in pull[u].changes : m.rev <= x.rev
       /\ upsertNode(r, m.node, m.version)
       /\ cursor' = [cursor EXCEPT ![r][p] = Advance(r, p, m.rev)]
       /\ pull' = [pull EXCEPT ![u] = Left(u, pull[u].changes \ {m})]
  /\ UNCHANGED <<signed, posts, restarts>>

(* Mutant: the cursors are kept, and the store in memory is not. *)
RestartKeepsCursors(r) ==
  /\ restarts < MaxRestarts
  /\ restarts' = restarts + 1
  /\ pull' = [u \in Rounds |-> IF Owner[u] = r THEN NoPull ELSE pull[u]]
  /\ IF r \in Persistent
     THEN UNCHANGED <<index, revs, taken>>
     ELSE /\ index' = [index EXCEPT ![r] = [d \in Nodes |-> NoEntry]]
          /\ revs' = [revs EXCEPT ![r] = 0]
          /\ taken' = [taken EXCEPT ![r] = {}]
  /\ UNCHANGED <<signed, posts, cursor>>

(* Cursors and reconciles are the process's; a store in memory is, too. *)
Restart(r) ==
  /\ restarts < MaxRestarts
  /\ restarts' = restarts + 1
  /\ cursor' = [cursor EXCEPT ![r] = [p \in Registries |-> 0]]
  /\ pull' = [u \in Rounds |-> IF Owner[u] = r THEN NoPull ELSE pull[u]]
  /\ IF r \in Persistent
     THEN UNCHANGED <<index, revs, taken>>
     ELSE /\ index' = [index EXCEPT ![r] = [d \in Nodes |-> NoEntry]]
          /\ revs' = [revs EXCEPT ![r] = 0]
          /\ taken' = [taken EXCEPT ![r] = {}]
  /\ UNCHANGED <<signed, posts>>

Next ==
  \/ \E d \in Nodes : Sign(d)
  \/ \E q \in posts : Register(q) \/ Lose(q)
  \/ \E u \in Rounds, p \in Registries : Ask(u, p)
  \/ \E u \in Rounds : Answer(u) \/ NoAnswer(u) \/ Take(u)
  \/ \E r \in Registries : Restart(r)

Spec == Init /\ [][Next]_vars

(* reconcile runs again and again, for every peer in turn, and a peer that  *)
(* is asked again and again answers at some time.                          *)
FairSpec ==
  /\ Spec
  /\ \A u \in Rounds :
       /\ \A p \in Registries : SF_vars(Ask(u, p))
       /\ SF_vars(Answer(u)) /\ WF_vars(Take(u))

----------------------------------------------------------------------------
(* Properties. *)

(* NOTHING IS MISSED.  Whatever a persistent peer's feed has at or below a  *)
(* registry's cursor for it, that registry took: pages, overlapping        *)
(* reconciles, updates during a pull and restarts leave no gap.            *)
NothingMissed ==
  \A r \in Registries, d \in Nodes : \A p \in Peers[r] \cap Persistent :
    Known(p, d) /\ index[p][d].rev <= cursor[r][p]
      => [node |-> d, version |-> index[p][d].version] \in taken[r]

Disturbs(p, d) == index'[p][d].rev # index[p][d].rev \/ restarts' # restarts

(* NODES SPREAD.  registry.ts:116: "the backstop that guarantees eventual  *)
(* consistency": a node that a persistent peer knows is known to whoever   *)
(* pulls from that peer in the end, however little gossip arrives; unless  *)
(* the peer's entry is given a new revision, or a registry restarts, again *)
(* and again for ever.                                                     *)
NodesSpread ==
  \A u \in Rounds, d \in Nodes : \A p \in Peers[Owner[u]] \cap Persistent :
    []<><<Disturbs(p, d)>>_vars \/ (Known(p, d) ~> Known(Owner[u], d))

(* spec/REGISTRY.md:50: a peer "upserts idempotently": a manifest that a    *)
(* registry has taken before changes nothing when it is pulled again.      *)
PullsIdempotent ==
  [][(\E u \in Rounds : Take(u)) =>
       \A r \in Registries, d \in Nodes :
         [node |-> d, version |-> index'[r][d].version] \in taken[r]
           => index'[r][d].version = index[r][d].version]_vars

=============================================================================
