----------------------------- MODULE MCNodeSync -----------------------------
(* Small instances of NodeSync for TLC. *)
EXTENDS NodeSyncProperties, TLC

CONSTANTS n1, n2,        \* nodes
          project, run,  \* a project and a run of it
          l1, l2, l3     \* sockets

Family == [r \in Rows |-> IF r = run THEN project ELSE NoRow]
From1 == [l \in Links |-> IF l = l3 THEN n2 ELSE n1]
To2 == [l \in Links |-> IF l = l3 THEN n1 ELSE n2]

\* Sockets dialed by the same node differ in their names only.
Exchangeable == Permutations({l1, l2})
=============================================================================
