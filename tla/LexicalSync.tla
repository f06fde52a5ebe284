----------------------------- MODULE LexicalSync -----------------------------
(***************************************************************************)
(* IndexedStoreRepository of memory-retrieval: nodes are written to the    *)
(* store first and to a Tantivy index after it, one call at a time (its    *)
(* methods take &mut self), while others use the store without the index.  *)
(*                                                                         *)
(* Of a node only the revision of its text is kept: 0 is no row, and every *)
(* write that changes the text makes a new one.  A document of the index   *)
(* is a pair <<node, revision>>.                                           *)
(*                                                                         *)
(* Tantivy is external.  Deletions and additions are staged in the writer  *)
(* until commit; a crash loses what is staged; after a failed commit the   *)
(* writer may still hold the documents it was given, or may have lost them *)
(* with the indexing thread that died (an addition whose error upsert_node *)
(* ignores fails for that reason, and then so does the commit).  A reader  *)
(* sees the commit of its last reload, and reloads by itself sometimes.    *)
(*                                                                         *)
(* An operator named X_Something is X with a fault seeded in it; no other  *)
(* definition uses it.                                                     *)
(***************************************************************************)
EXTENDS Naturals, FiniteSets

CONSTANTS
  Node,
  MaxRevision,   \* bound: revisions of a node
  MaxFailures,   \* bound: failed calls and crashes
  MaxDirect      \* bound: writes that bypass the wrapper

ASSUME BoundsAssumption == /\ MaxRevision \in Nat \ {0}
                           /\ MaxFailures \in Nat
                           /\ MaxDirect \in Nat

Revision == 1..MaxRevision
Document == Node \X Revision

VARIABLES
  store,         \* the nodes table: the revision of each node
  staged,        \* the documents the index would have after a commit
  committed,     \* the documents of the last commit
  searcher,      \* the documents a search runs over
  pc,            \* where the wrapper's call stands
  node,          \* the argument of that call
  saved,         \* the revision that was read back from the store
  result,        \* what the last call returned
  failures,      \* history: failures and crashes so far
  direct         \* history: writes that bypassed the wrapper so far

index == <<staged, committed, searcher>>
call  == <<pc, node, saved>>
vars  == <<store, index, call, result, failures, direct>>

-----------------------------------------------------------------------------
(* What the index holds when it agrees with the store. *)
StoreDocuments == {<<n, store[n]>> : n \in {m \in Node : store[m] # 0}}

Without(docs, n) == {d \in docs : d[1] # n}

Goto(label) == pc' = label

Return(value) == Goto("idle") /\ result' = value

(* A call fails and its error is returned. *)
Fail ==
  /\ failures < MaxFailures
  /\ failures' = failures + 1
  /\ Return("err")

-----------------------------------------------------------------------------
(* StoreRepository::insert_node, up to its INSERT: the id is a primary key.*)
InsertNode(n) ==
  /\ pc = "idle"
  /\ node' = n
  /\ IF store[n] # 0
     THEN Return("err") /\ UNCHANGED store
     ELSE /\ store' = [store EXCEPT ![n] = 1]
          /\ Goto("reading")
          /\ result' = "none"
  /\ saved' = 0
  /\ UNCHANGED <<index, failures, direct>>

(* StoreRepository::update_node, up to its UPDATE: of a node that is not   *)
(* there no row changes, none is read back and nothing is indexed.  The    *)
(* text may be the one that is there already.                              *)
UpdateNode(n) ==
  /\ pc = "idle"
  /\ node' = n
  /\ IF store[n] = 0
     THEN Return("no_row") /\ UNCHANGED store
     ELSE /\ \E r \in Revision \cap {store[n], store[n] + 1} :
               store' = [store EXCEPT ![n] = r]
          /\ Goto("reading")
          /\ result' = "none"
  /\ saved' = 0
  /\ UNCHANGED <<index, failures, direct>>

(* get_node_by_id, after the write: what is there by now. *)
ReadBack ==
  /\ pc = "reading"
  /\ saved' = store[node]
  /\ Goto("indexing")
  /\ UNCHANGED <<store, index, node, result, failures, direct>>

ReadBackFails ==
  /\ pc = "reading"
  /\ Fail
  /\ UNCHANGED <<store, index, node, saved, direct>>

-----------------------------------------------------------------------------
(* TantivyLexicalWriter::upsert_node *)

Indexed_NotDeleted(docs, n, revision) == docs \union {<<n, revision>>}
Indexed_AddedFirst(docs, n, revision) == Without(docs \union {<<n, revision>>}, n)
(* index_document: delete_term, then add_document. *)
Indexed(docs, n, revision) == Without(docs, n) \union {<<n, revision>>}

IndexDocument ==
  /\ pc = "indexing"
  /\ staged' = Indexed(staged, node, saved)
  /\ Goto("committing")
  /\ UNCHANGED <<store, committed, searcher, node, saved, result, failures, direct>>

Commit ==
  /\ pc = "committing"
  /\ committed' = staged
  /\ Goto("reloading")
  /\ UNCHANGED <<store, staged, searcher, node, saved, result, failures, direct>>

(* The deletions stay staged; of the additions some may be lost. *)
CommitFails ==
  /\ pc = "committing"
  /\ staged' \in {docs \in SUBSET staged : staged \cap committed \subseteq docs}
  /\ Fail
  /\ UNCHANGED <<store, committed, searcher, node, saved, direct>>

Reload_Skipped ==
  /\ pc = "reloading"
  /\ Return("ok")
  /\ UNCHANGED <<store, index, node, saved, failures, direct>>
Reload ==
  /\ pc = "reloading"
  /\ searcher' = committed
  /\ Return("ok")
  /\ UNCHANGED <<store, staged, committed, node, saved, failures, direct>>

ReloadFails ==
  /\ pc = "reloading"
  /\ Fail
  /\ UNCHANGED <<store, index, node, saved, direct>>

(* The reader's own reload, some time after a commit. *)
BackgroundReload ==
  /\ pc # "down"
  /\ searcher # committed
  /\ searcher' = committed
  /\ UNCHANGED <<store, staged, committed, call, result, failures, direct>>

-----------------------------------------------------------------------------
(* A StoreRepository of another connection inserts or updates a node. *)
DirectWrite(n) ==
  /\ direct < MaxDirect
  /\ direct' = direct + 1
  /\ store[n] < MaxRevision
  /\ store' = [store EXCEPT ![n] = @ + 1]
  /\ UNCHANGED <<index, call, result, failures>>

(* The process that holds the index dies. *)
Crash ==
  /\ pc # "down"
  /\ failures < MaxFailures
  /\ failures' = failures + 1
  /\ Goto("down")
  /\ result' = "none"
  /\ staged' = committed
  /\ UNCHANGED <<store, committed, searcher, node, saved, direct>>

(* open_or_create: the index on disk, as it was committed. *)
OpenOrCreate ==
  /\ pc = "down"
  /\ searcher' = committed
  /\ Goto("idle")
  /\ UNCHANGED <<store, staged, committed, node, saved, result, failures, direct>>

Rebuilt_Unfiltered == {<<n, store[n]>> : n \in Node}
Rebuilt_Kept == committed \union StoreDocuments
(* from_nodes over list_nodes: every node upserted into an empty index. *)
Rebuilt == StoreDocuments

FromNodes ==
  /\ pc = "down"
  /\ staged' = Rebuilt
  /\ committed' = Rebuilt
  /\ searcher' = Rebuilt
  /\ Goto("idle")
  /\ UNCHANGED <<store, node, saved, result, failures, direct>>

-----------------------------------------------------------------------------
Init ==
  /\ store = [n \in Node |-> 0]
  /\ staged = {}
  /\ committed = {}
  /\ searcher = {}
  /\ pc = "idle"
  /\ node \in Node
  /\ saved = 0
  /\ result = "none"
  /\ failures = 0
  /\ direct = 0

(* The steps of a call that has begun. *)
Step == ReadBack \/ IndexDocument \/ Commit \/ Reload

Next ==
  \/ \E n \in Node : InsertNode(n) \/ UpdateNode(n) \/ DirectWrite(n)
  \/ Step
  \/ ReadBackFails
  \/ CommitFails
  \/ ReloadFails
  \/ BackgroundReload
  \/ Crash
  \/ OpenOrCreate
  \/ FromNodes

Spec == Init /\ [][Next]_vars

(* A call that has begun goes on, an index that is down is opened, and     *)
(* whoever wants a node in the store keeps calling insert_node.            *)
Fairness ==
  /\ WF_vars(Step)
  /\ WF_vars(OpenOrCreate \/ FromNodes)
  /\ \A n \in Node : SF_vars(InsertNode(n))

FairSpec == Spec /\ Fairness

-----------------------------------------------------------------------------
(* Properties *)

Label == {"idle", "reading", "indexing", "committing", "reloading", "down"}

TypeOK ==
  /\ store \in [Node -> 0..MaxRevision]
  /\ staged \subseteq Document
  /\ committed \subseteq Document
  /\ searcher \subseteq Document
  /\ pc \in Label
  /\ node \in Node
  /\ saved \in 0..MaxRevision
  /\ result \in {"none", "ok", "no_row", "err"}
  /\ failures \in Nat
  /\ direct \in Nat

NeverAhead ==
  \A d \in staged \union committed \union searcher : d[2] <= store[d[1]]

OnePerNode(docs) == \A d, e \in docs : d[1] = e[1] => d = e

OneDocument == OnePerNode(committed) /\ OnePerNode(searcher)

(* The store is the source of truth: no search ever meets a text that the  *)
(* store does not have or did not have before - an index that fails, is    *)
(* reopened or is rebuilt lags behind the store, it never runs ahead.  And *)
(* a search meets a node once, in one of its revisions: failed commits and *)
(* the calls that repair them leave no second document behind.             *)
TrailsStore == NeverAhead /\ OneDocument

(* A call that returned Ok left the text that it read back searchable.     *)
OkIsSearchable == result = "ok" => <<node, saved>> \in searcher

(* Between calls the index is the image of the store, if nothing failed    *)
(* and nobody wrote to the store alone.                                    *)
InSyncUnlessFailed ==
  pc = "idle" /\ failures = 0 /\ direct = 0 => searcher = StoreDocuments

(* As long as a search finds a node it does not go back to an older text   *)
(* of it, whatever fails, restarts or is read back late.                   *)
SearchNeverGoesBack ==
  [][\A d \in searcher, e \in searcher' : d[1] = e[1] => d[2] <= e[2]]_vars

(* lexical.rs: the wrapper keeps Tantivy in sync when nodes are inserted.  *)
(* A node that is in the store will be found, as its insert is called      *)
(* again until it succeeds.                                                *)
InsertedIsIndexed ==
  \A n \in Node :
    (store[n] # 0 /\ direct = 0) ~> \/ direct # 0
                                    \/ \E r \in Revision : <<n, r>> \in searcher
=============================================================================
