-------------------------- MODULE MCStoreBootstrap --------------------------
(* Two openers of one file; three migrations, of which the first is the    *)
(* table of migrations and the others batches of several statements.       *)
EXTENDS StoreBootstrap

CONSTANTS p1, p2

MCOpener == {p1, p2}
MCStatements == [v \in 0..LastVersion |-> IF v = 0 THEN 1 ELSE 3 - v \div 2]
\* sync off; sync on but incomplete; optional sync; required sync
MCConfig ==
  {[sync_enabled |-> FALSE, credentials |-> FALSE, turso_sync_required |-> FALSE],
   [sync_enabled |-> TRUE,  credentials |-> FALSE, turso_sync_required |-> FALSE],
   [sync_enabled |-> TRUE,  credentials |-> TRUE,  turso_sync_required |-> FALSE],
   [sync_enabled |-> TRUE,  credentials |-> TRUE,  turso_sync_required |-> TRUE]}
=============================================================================
