----------------------------- MODULE MCRegistry -----------------------------
(* A small instance of Registry: two registries that are peers of each     *)
(* other, one over SQLite and one in memory, with pages of one entry.      *)
EXTENDS Registry, TLC

CONSTANTS r1, r2, n1, n2, u1, u2

MCRegistries == {r1, r2}
MCPeers      == r1 :> {r2} @@ r2 :> {r1}
MCPersistent == {r1}
MCNodes      == {n1, n2}
MCRounds     == {u1, u2}
MCOwner      == u1 :> r1 @@ u2 :> r2

=============================================================================
