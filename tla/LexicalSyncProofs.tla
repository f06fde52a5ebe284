-------------------------- MODULE LexicalSyncProofs --------------------------
(***************************************************************************)
(* Proofs about LexicalSync, for any nodes and any number of revisions,    *)
(* failures and writes that bypass the wrapper: the index holds one        *)
(* document of a node, never one the store did not have, a call that       *)
(* returned Ok is searchable, a search never goes back, and an undisturbed *)
(* wrapper keeps the index equal to the store.                             *)
(***************************************************************************)
EXTENDS LexicalSync, TLAPS

(* Every document of old is at most as new as the documents of the same    *)
(* node in new.                                                            *)
NotNewer(old, new) == \A d \in old, e \in new : d[1] = e[1] => d[2] <= e[2]

OneEverywhere == OnePerNode(staged) /\ OnePerNode(committed) /\ OnePerNode(searcher)

(* What a search finds trails the last commit, which trails what is staged.*)
Trailing == /\ NotNewer(searcher, committed)
            /\ NotNewer(committed, staged)
            /\ NotNewer(searcher, staged)

(* What was read back is no older than what the index has of the node.     *)
SavedIsNewest ==
  pc = "indexing" =>
    /\ saved # 0
    /\ \A d \in staged \union committed \union searcher : d[1] = node => d[2] <= saved

(* The call's document, from staging to the search. *)
Arriving ==
  /\ saved <= store[node]
  /\ pc = "committing" => <<node, saved>> \in staged
  /\ pc = "reloading"  => <<node, saved>> \in committed
  /\ pc = "reading"    => store[node] # 0
  /\ result = "ok" => pc = "idle" /\ <<node, saved>> \in searcher \cap committed

IInv == TypeOK /\ NeverAhead /\ OneEverywhere /\ Trailing /\ SavedIsNewest /\ Arriving

USE BoundsAssumption

-----------------------------------------------------------------------------
LEMMA InitEstablishes == Init => IInv
BY DEF Init, IInv, TypeOK, Label, NeverAhead, OneEverywhere, OnePerNode, Trailing,
       NotNewer, SavedIsNewest, Arriving

LEMMA TypePreserved ==
  ASSUME IInv, [Next]_vars
  PROVE  TypeOK'
<1> USE DEF TypeOK, Label, Revision, Document, Return, Goto, Fail, index, call
<1>0. TypeOK
  BY DEF IInv
<1>1. CASE UNCHANGED vars
  BY <1>0, <1>1 DEF vars
<1>2. ASSUME NEW n \in Node, InsertNode(n) PROVE TypeOK'
  BY <1>0, <1>2 DEF InsertNode
<1>3. ASSUME NEW n \in Node, UpdateNode(n) PROVE TypeOK'
  BY <1>0, <1>3 DEF UpdateNode
<1>4. ASSUME NEW n \in Node, DirectWrite(n) PROVE TypeOK'
  BY <1>0, <1>4 DEF DirectWrite
<1>5. CASE ReadBack \/ ReadBackFails
  BY <1>0, <1>5 DEF ReadBack, ReadBackFails
<1>6. CASE IndexDocument
  <2>1. saved \in 1..MaxRevision
    BY <1>0, <1>6 DEF IInv, SavedIsNewest, IndexDocument
  <2>2. staged' \subseteq Document
    BY <1>0, <1>6, <2>1 DEF IndexDocument, Indexed, Without
  <2> QED
    BY <1>0, <1>6, <2>2 DEF IndexDocument
<1>7. CASE Commit \/ CommitFails
  BY <1>0, <1>7 DEF Commit, CommitFails
<1>8. CASE Reload \/ ReloadFails \/ BackgroundReload
  BY <1>0, <1>8 DEF Reload, ReloadFails, BackgroundReload
<1>9. CASE Crash \/ OpenOrCreate
  BY <1>0, <1>9 DEF Crash, OpenOrCreate
<1>10. CASE FromNodes
  <2>1. StoreDocuments \subseteq Document
    BY <1>0 DEF StoreDocuments
  <2> QED
    BY <1>0, <1>10, <2>1 DEF FromNodes, Rebuilt
<1> QED
  BY <1>1, <1>2, <1>3, <1>4, <1>5, <1>6, <1>7, <1>8, <1>9, <1>10 DEF Next, Step

-----------------------------------------------------------------------------
(* A step that leaves the index alone, and the store no poorer. *)
LEMMA IndexUntouched ==
  ASSUME IInv, TypeOK', UNCHANGED index, \A n \in Node : store[n] <= store'[n],
         SavedIsNewest', Arriving'
  PROVE  IInv'
<1>1. TypeOK /\ NeverAhead
  BY DEF IInv
<1>2. NeverAhead'
  <2> SUFFICES ASSUME NEW d \in staged \union committed \union searcher
               PROVE  d[2] <= store'[d[1]]
    BY DEF NeverAhead, index
  <2>1. d[1] \in Node /\ d[2] \in Nat
    BY <1>1 DEF TypeOK, Document, Revision
  <2>2. store[d[1]] \in Nat /\ store'[d[1]] \in Nat
    BY <2>1 DEF IInv, TypeOK
  <2>3. d[2] <= store[d[1]] /\ store[d[1]] <= store'[d[1]]
    BY <1>1, <2>1 DEF NeverAhead
  <2> QED
    BY <2>1, <2>2, <2>3
<1>3. OneEverywhere'
  BY DEF IInv, OneEverywhere, OnePerNode, index
<1>4. Trailing'
  BY DEF IInv, Trailing, NotNewer, index
<1> QED
  BY <1>2, <1>3, <1>4 DEF IInv

(* An empty or freshly rebuilt index: all three parts are the same set. *)
LEMMA SameIsTrailing ==
  ASSUME NEW docs \in SUBSET Document, OnePerNode(docs)
  PROVE  NotNewer(docs, docs)
BY DEF OnePerNode, NotNewer, Document, Revision

LEMMA WriteKeeps ==
  ASSUME IInv, TypeOK', NEW n \in Node, InsertNode(n) \/ UpdateNode(n)
  PROVE  IInv'
<1>0. TypeOK /\ Arriving
  BY DEF IInv
<1>1. UNCHANGED index /\ saved' = 0 /\ node' = n
  BY DEF InsertNode, UpdateNode
<1>2. pc' \in {"idle", "reading"} /\ result' # "ok" /\ (pc' = "reading" => store'[n] # 0)
  <2>1. CASE InsertNode(n)
    BY <1>0, <2>1 DEF InsertNode, Return, Goto, TypeOK
  <2>2. CASE UpdateNode(n)
    <3>1. CASE store[n] = 0
      BY <2>2, <3>1 DEF UpdateNode, Return, Goto
    <3>2. CASE store[n] # 0
      <4>1. PICK r \in Revision : store' = [store EXCEPT ![n] = r]
        BY <2>2, <3>2 DEF UpdateNode
      <4>2. store'[n] = r /\ r # 0
        BY <1>0, <4>1 DEF TypeOK, Revision
      <4> QED
        BY <2>2, <3>2, <4>2 DEF UpdateNode, Goto
    <3> QED
      BY <3>1, <3>2
  <2> QED
    BY <2>1, <2>2
<1>3. \A m \in Node : store[m] <= store'[m]
  <2>1. CASE InsertNode(n)
    BY <1>0, <2>1 DEF InsertNode, TypeOK
  <2>2. CASE UpdateNode(n)
    <3>1. CASE store[n] = 0
      BY <1>0, <2>2, <3>1 DEF UpdateNode, TypeOK
    <3>2. CASE store[n] # 0
      <4>1. PICK r \in {store[n], store[n] + 1} : store' = [store EXCEPT ![n] = r]
        BY <2>2, <3>2 DEF UpdateNode
      <4> QED
        BY <1>0, <4>1 DEF TypeOK
    <3> QED
      BY <3>1, <3>2
  <2> QED
    BY <2>1, <2>2
<1>4. store'[n] \in Nat
  BY DEF TypeOK
<1>5. SavedIsNewest' /\ Arriving'
  BY <1>1, <1>2, <1>4 DEF SavedIsNewest, Arriving
<1> QED
  BY <1>1, <1>3, <1>5, IndexUntouched

LEMMA DirectWriteKeeps ==
  ASSUME IInv, TypeOK', NEW n \in Node, DirectWrite(n)
  PROVE  IInv'
<1>0. TypeOK /\ Arriving /\ SavedIsNewest
  BY DEF IInv
<1>1. UNCHANGED <<index, call, result>> /\ store' = [store EXCEPT ![n] = @ + 1]
  BY DEF DirectWrite
<1>2. \A m \in Node : store[m] <= store'[m]
  BY <1>0, <1>1 DEF TypeOK
<1>3. SavedIsNewest'
  BY <1>0, <1>1 DEF SavedIsNewest, index, call
<1>4. saved' <= store'[node'] /\ (store[node] # 0 => store'[node'] # 0)
  <2>1. node' = node /\ saved' = saved /\ node \in Node
    BY <1>0, <1>1 DEF call, TypeOK
  <2>2. store[node] \in Nat /\ store'[node] \in Nat /\ saved \in Nat
    BY <1>0, <2>1 DEF TypeOK
  <2>3. saved <= store[node] /\ store[node] <= store'[node]
    BY <1>0, <1>2, <2>1 DEF Arriving
  <2> QED
    BY <2>1, <2>2, <2>3
<1>5. Arriving'
  BY <1>0, <1>1, <1>4 DEF Arriving, index, call
<1> QED
  BY <1>1, <1>2, <1>3, <1>5, IndexUntouched

LEMMA ReadBackKeeps ==
  ASSUME IInv, TypeOK', ReadBack \/ ReadBackFails
  PROVE  IInv'
<1>0. TypeOK /\ NeverAhead /\ Arriving
  BY DEF IInv
<1>1. UNCHANGED <<store, index, node>>
  BY DEF ReadBack, ReadBackFails
<1>2. \A m \in Node : store[m] <= store'[m]
  BY <1>0, <1>1 DEF TypeOK
<1>3. CASE ReadBack
  <2>1. /\ saved' = store[node]
        /\ pc' = "indexing"
        /\ result' = result
        /\ pc = "reading"
    BY <1>3 DEF ReadBack, Goto
  <2>2. SavedIsNewest'
    <3>1. saved' # 0
      BY <1>0, <2>1 DEF Arriving
    <3>2. \A d \in staged \union committed \union searcher : d[1] = node => d[2] <= saved'
      BY <1>0, <2>1 DEF NeverAhead
    <3> QED
      BY <1>1, <3>1, <3>2 DEF SavedIsNewest, index
  <2>3. saved' <= store'[node']
    BY <1>0, <1>1, <2>1 DEF TypeOK
  <2>4. Arriving'
    BY <1>0, <1>1, <2>1, <2>3 DEF Arriving
  <2> QED
    BY <1>1, <1>2, <2>2, <2>4, IndexUntouched
<1>4. CASE ReadBackFails
  <2>1. pc' = "idle" /\ result' = "err" /\ saved' = saved
    BY <1>4 DEF ReadBackFails, Fail, Return, Goto
  <2>2. SavedIsNewest' /\ Arriving'
    BY <1>0, <1>1, <2>1 DEF SavedIsNewest, Arriving
  <2> QED
    BY <1>1, <1>2, <2>2, IndexUntouched
<1> QED
  BY <1>3, <1>4

LEMMA IndexDocumentKeeps ==
  ASSUME IInv, TypeOK', IndexDocument
  PROVE  IInv'
<1>0. /\ TypeOK /\ NeverAhead /\ OneEverywhere /\ Trailing /\ Arriving
      /\ saved # 0
      /\ \A d \in staged \union committed \union searcher : d[1] = node => d[2] <= saved
  BY DEF IInv, SavedIsNewest, IndexDocument
<1>1. /\ UNCHANGED <<store, committed, searcher, node, saved, result>>
      /\ pc' = "committing"
      /\ pc = "indexing"
  BY DEF IndexDocument, Goto
<1>2. staged' = {d \in staged : d[1] # node} \union {<<node, saved>>}
  BY DEF IndexDocument, Indexed, Without
<1>3. NeverAhead'
  BY <1>0, <1>1, <1>2 DEF NeverAhead, Arriving
<1>4. OneEverywhere'
  BY <1>0, <1>1, <1>2 DEF OneEverywhere, OnePerNode
<1>5. NotNewer(committed, staged') /\ NotNewer(searcher, staged')
  BY <1>0, <1>2 DEF Trailing, NotNewer
<1>6. Trailing'
  BY <1>0, <1>1, <1>5 DEF Trailing, NotNewer
<1>7. SavedIsNewest' /\ Arriving'
  BY <1>0, <1>1, <1>2 DEF SavedIsNewest, Arriving
<1> QED
  BY <1>3, <1>4, <1>6, <1>7 DEF IInv

LEMMA CommitKeeps ==
  ASSUME IInv, TypeOK', Commit
  PROVE  IInv'
<1>0. TypeOK /\ NeverAhead /\ OneEverywhere /\ Trailing /\ Arriving
  BY DEF IInv
<1>1. /\ UNCHANGED <<store, staged, searcher, node, saved, result>>
      /\ committed' = staged
      /\ pc = "committing"
      /\ pc' = "reloading"
  BY DEF Commit, Goto
<1>2. NeverAhead' /\ OneEverywhere'
  BY <1>0, <1>1 DEF NeverAhead, OneEverywhere
<1>3. NotNewer(staged, staged)
  BY <1>0, SameIsTrailing DEF OneEverywhere, TypeOK
<1>4. Trailing'
  BY <1>0, <1>1, <1>3 DEF Trailing
<1>5. SavedIsNewest' /\ Arriving'
  BY <1>0, <1>1 DEF SavedIsNewest, Arriving
<1> QED
  BY <1>2, <1>4, <1>5 DEF IInv

LEMMA CommitFailsKeeps ==
  ASSUME IInv, TypeOK', CommitFails
  PROVE  IInv'
<1>0. TypeOK /\ NeverAhead /\ OneEverywhere /\ Trailing /\ Arriving
  BY DEF IInv
<1>1. /\ UNCHANGED <<store, committed, searcher, node, saved>>
      /\ staged' \subseteq staged
      /\ pc' = "idle"
      /\ result' = "err"
  BY DEF CommitFails, Fail, Return, Goto
<1>2. NeverAhead' /\ OneEverywhere'
  BY <1>0, <1>1 DEF NeverAhead, OneEverywhere, OnePerNode
<1>3. Trailing'
  BY <1>0, <1>1 DEF Trailing, NotNewer
<1>4. SavedIsNewest' /\ Arriving'
  BY <1>0, <1>1 DEF SavedIsNewest, Arriving
<1> QED
  BY <1>2, <1>3, <1>4 DEF IInv

LEMMA ReloadKeeps ==
  ASSUME IInv, TypeOK', Reload \/ ReloadFails \/ BackgroundReload
  PROVE  IInv'
<1>0. TypeOK /\ NeverAhead /\ OneEverywhere /\ Trailing /\ Arriving /\ SavedIsNewest
  BY DEF IInv
<1>1. /\ UNCHANGED <<store, staged, committed, node, saved>>
      /\ searcher' \in {searcher, committed}
  BY DEF Reload, ReloadFails, BackgroundReload, index, call
<1>2. NeverAhead' /\ OneEverywhere'
  BY <1>0, <1>1 DEF NeverAhead, OneEverywhere
<1>3. NotNewer(committed, committed)
  BY <1>0, SameIsTrailing DEF OneEverywhere, TypeOK
<1>4. Trailing'
  BY <1>0, <1>1, <1>3 DEF Trailing
<1>5. SavedIsNewest' /\ Arriving'
  <2>1. CASE Reload
    BY <1>0, <1>1, <2>1 DEF Reload, Return, Goto, SavedIsNewest, Arriving
  <2>2. CASE ReloadFails
    BY <1>0, <1>1, <2>2 DEF ReloadFails, Fail, Return, Goto, SavedIsNewest, Arriving
  <2>3. CASE BackgroundReload
    <3>1. UNCHANGED <<pc, result>> /\ searcher' = committed
      BY <2>3 DEF BackgroundReload, call
    <3>2. SavedIsNewest'
      BY <1>0, <1>1, <3>1 DEF SavedIsNewest
    <3> QED
      BY <1>0, <1>1, <3>1, <3>2 DEF Arriving
  <2> QED
    BY <2>1, <2>2, <2>3
<1> QED
  BY <1>2, <1>4, <1>5 DEF IInv

LEMMA RestartKeeps ==
  ASSUME IInv, TypeOK', Crash \/ OpenOrCreate \/ FromNodes
  PROVE  IInv'
<1>0. TypeOK /\ NeverAhead /\ OneEverywhere /\ Trailing /\ Arriving
  BY DEF IInv
<1>1. /\ UNCHANGED <<store, node, saved>>
      /\ pc' \in {"idle", "down"}
      /\ result' # "ok"
  <2>1. CASE Crash
    BY <2>1 DEF Crash, Goto
  <2>2. CASE OpenOrCreate \/ FromNodes
    BY <1>0, <2>2 DEF OpenOrCreate, FromNodes, Goto, Arriving
  <2> QED
    BY <2>1, <2>2
<1>2. SavedIsNewest' /\ Arriving'
  BY <1>0, <1>1 DEF SavedIsNewest, Arriving
<1>3. CASE Crash \/ OpenOrCreate
  <2>1. /\ committed' = committed
        /\ staged' \in {staged, committed}
        /\ searcher' \in {searcher, committed}
    BY <1>3 DEF Crash, OpenOrCreate
  <2>2. NeverAhead' /\ OneEverywhere'
    BY <1>0, <1>1, <2>1 DEF NeverAhead, OneEverywhere
  <2>3. NotNewer(committed, committed)
    BY <1>0, SameIsTrailing DEF OneEverywhere, TypeOK
  <2>4. Trailing'
    BY <1>0, <2>1, <2>3 DEF Trailing
  <2> QED
    BY <1>2, <2>2, <2>4 DEF IInv
<1>4. CASE FromNodes
  <2>1. /\ staged' = StoreDocuments
        /\ committed' = StoreDocuments
        /\ searcher' = StoreDocuments
    BY <1>4 DEF FromNodes, Rebuilt
  <2>2. OnePerNode(StoreDocuments) /\ StoreDocuments \subseteq Document
    BY <1>0 DEF OnePerNode, StoreDocuments, TypeOK, Document, Revision
  <2>3. \A d \in StoreDocuments : d[2] <= store[d[1]]
    BY <1>0 DEF StoreDocuments, TypeOK
  <2>4. NeverAhead' /\ OneEverywhere'
    BY <1>1, <2>1, <2>2, <2>3 DEF NeverAhead, OneEverywhere
  <2>5. Trailing'
    BY <2>1, <2>2, SameIsTrailing DEF Trailing
  <2> QED
    BY <1>2, <2>4, <2>5 DEF IInv
<1> QED
  BY <1>3, <1>4

LEMMA StepPreserves ==
  ASSUME IInv, [Next]_vars
  PROVE  IInv'
<1>0. TypeOK'
  BY TypePreserved
<1>1. CASE UNCHANGED vars
  <2>1. UNCHANGED <<store, index, call, result>>
    BY <1>1 DEF vars
  <2> QED
    BY <1>0, <2>1 DEF IInv, NeverAhead, OneEverywhere, Trailing, SavedIsNewest, Arriving,
                      index, call
<1>2. CASE \E n \in Node : InsertNode(n) \/ UpdateNode(n) \/ DirectWrite(n)
  BY <1>0, <1>2, WriteKeeps, DirectWriteKeeps
<1>3. CASE ReadBack \/ ReadBackFails
  BY <1>0, <1>3, ReadBackKeeps
<1>4. CASE IndexDocument
  BY <1>0, <1>4, IndexDocumentKeeps
<1>5. CASE Commit \/ CommitFails
  BY <1>0, <1>5, CommitKeeps, CommitFailsKeeps
<1>6. CASE Reload \/ ReloadFails \/ BackgroundReload
  BY <1>0, <1>6, ReloadKeeps
<1>7. CASE Crash \/ OpenOrCreate \/ FromNodes
  BY <1>0, <1>7, RestartKeeps
<1> QED
  BY <1>1, <1>2, <1>3, <1>4, <1>5, <1>6, <1>7 DEF Next, Step

-----------------------------------------------------------------------------
(* The strengthening holds throughout. *)
THEOREM Trailed == Spec => []IInv
<1>1. IInv /\ [Next]_vars => IInv'
  BY StepPreserves
<1> QED
  BY InitEstablishes, <1>1, PTL DEF Spec

(* No search meets a text the store did not have, and none meets a node    *)
(* twice.                                                                  *)
THEOREM IndexMirrorsStore == Spec => [](TypeOK /\ TrailsStore)
<1>1. IInv => TypeOK /\ TrailsStore
  BY DEF IInv, OneEverywhere, OneDocument, TrailsStore
<1> QED
  BY Trailed, <1>1, PTL

(* A call that returned Ok left its text searchable, also when the reader  *)
(* reloads by itself and others write to the store.                        *)
THEOREM OkMeansSearchable == Spec => []OkIsSearchable
<1>1. IInv => OkIsSearchable
  BY DEF IInv, Arriving, OkIsSearchable
<1> QED
  BY Trailed, <1>1, PTL

(* A search never goes back to an older text of a node that it still finds.*)
THEOREM SearchMovesOn == Spec => SearchNeverGoesBack
<1>1. ASSUME IInv, [Next]_vars
      PROVE  [\A d \in searcher, e \in searcher' : d[1] = e[1] => d[2] <= e[2]]_vars
  <2>0. TypeOK /\ NeverAhead /\ OneEverywhere /\ Trailing
    BY <1>1 DEF IInv
  <2>1. searcher' \in {searcher, committed, StoreDocuments}
    BY <1>1 DEF Next, Step, vars, index, InsertNode, UpdateNode, DirectWrite, ReadBack,
                ReadBackFails, IndexDocument, Commit, CommitFails, Reload, ReloadFails,
                BackgroundReload, Crash, OpenOrCreate, FromNodes, Rebuilt
  <2>2. NotNewer(searcher, searcher)
    BY <2>0, SameIsTrailing DEF OneEverywhere, TypeOK
  <2>3. NotNewer(searcher, StoreDocuments)
    <3> SUFFICES ASSUME NEW d \in searcher, NEW n \in Node, d[1] = n
                 PROVE  d[2] <= store[n]
      BY DEF NotNewer, StoreDocuments
    <3> QED
      BY <2>0 DEF NeverAhead
  <2>4. NotNewer(searcher, committed)
    BY <2>0 DEF Trailing
  <2> QED
    BY <2>1, <2>2, <2>3, <2>4 DEF NotNewer
<1> QED
  BY Trailed, <1>1, PTL DEF Spec, SearchNeverGoesBack


-----------------------------------------------------------------------------
(* Nothing failed and nobody wrote past the wrapper. *)
Undisturbed == failures = 0 /\ direct = 0

(* How far the index is behind the store, at every step of a call: between *)
(* the store's write and index_document it may differ in the one node that *)
(* is written, then what is staged, what is committed and what is searched *)
(* become the store's image one after the other.                           *)
InStep ==
  /\ pc # "down"
  /\ pc \in {"idle", "reading", "indexing"} => staged = committed /\ searcher = committed
  /\ pc \in {"reading", "indexing"} => Without(staged, node) = Without(StoreDocuments, node)
  /\ pc = "indexing" => saved = store[node]
  /\ pc \in {"idle", "committing", "reloading"} => staged = StoreDocuments
  /\ pc = "reloading" => committed = StoreDocuments

InStepUnlessFailed == Undisturbed => InStep

(* A write of one node's revision changes that node's document only.       *)
LEMMA WriteTouchesOne ==
  ASSUME TypeOK, NEW n \in Node, NEW r, store' = [store EXCEPT ![n] = r]
  PROVE  Without(StoreDocuments, n) = Without(StoreDocuments', n)
BY DEF TypeOK, Without, StoreDocuments

LEMMA WriteStaysInStep ==
  ASSUME IInv, InStep, NEW n \in Node, InsertNode(n) \/ UpdateNode(n)
  PROVE  InStep'
<1>0. TypeOK /\ pc = "idle"
  BY DEF IInv, InsertNode, UpdateNode
<1>1. /\ UNCHANGED <<staged, committed, searcher>>
      /\ node' = n
      /\ staged = StoreDocuments /\ committed = staged /\ searcher = committed
  BY <1>0 DEF InsertNode, UpdateNode, index, InStep
<1>2. CASE pc' = "idle" /\ UNCHANGED store
  BY <1>1, <1>2 DEF InStep, StoreDocuments
<1>3. CASE pc' = "reading" /\ \E r \in Revision : store' = [store EXCEPT ![n] = r]
  <2>1. Without(StoreDocuments, n) = Without(StoreDocuments', n)
    BY <1>0, <1>3, WriteTouchesOne
  <2>2. Without(staged', node') = Without(StoreDocuments', node')
    BY <1>1, <2>1 DEF Without
  <2> QED
    BY <1>1, <1>3, <2>2 DEF InStep
<1>4. \/ pc' = "idle" /\ UNCHANGED store
      \/ pc' = "reading" /\ \E r \in Revision : store' = [store EXCEPT ![n] = r]
  BY DEF InsertNode, UpdateNode, Return, Goto, Revision
<1> QED
  BY <1>2, <1>3, <1>4

LEMMA IndexDocumentStaysInStep ==
  ASSUME IInv, InStep, IndexDocument
  PROVE  InStep'
<1>0. TypeOK /\ saved # 0 /\ saved = store[node] /\ node \in Node
  BY DEF IInv, SavedIsNewest, InStep, IndexDocument, TypeOK
<1>1. /\ UNCHANGED store
      /\ pc' = "committing"
      /\ staged' = Without(staged, node) \union {<<node, saved>>}
      /\ Without(staged, node) = Without(StoreDocuments, node)
  BY DEF IndexDocument, Goto, Indexed, InStep
<1>2. StoreDocuments' = StoreDocuments
  BY <1>1 DEF StoreDocuments
<1>3. Without(StoreDocuments, node) \union {<<node, saved>>} = StoreDocuments
  BY <1>0 DEF Without, StoreDocuments
<1> QED
  BY <1>1, <1>2, <1>3 DEF InStep

LEMMA StaysInStep ==
  ASSUME IInv, InStepUnlessFailed, [Next]_vars
  PROVE  InStepUnlessFailed'
<1> SUFFICES ASSUME Undisturbed' PROVE InStep'
  BY DEF InStepUnlessFailed
<1>0. TypeOK
  BY DEF IInv
<1>1. ~(ReadBackFails \/ CommitFails \/ ReloadFails \/ Crash)
  BY <1>0 DEF ReadBackFails, CommitFails, ReloadFails, Crash, Fail, Undisturbed, TypeOK
<1>2. \A n \in Node : ~DirectWrite(n)
  BY <1>0 DEF DirectWrite, Undisturbed, TypeOK
<1>3. UNCHANGED <<failures, direct>>
  BY <1>1, <1>2 DEF Next, Step, vars, InsertNode, UpdateNode, ReadBack, IndexDocument, Commit,
                    Reload, BackgroundReload, OpenOrCreate, FromNodes
<1>4. InStep
  BY <1>3 DEF InStepUnlessFailed, Undisturbed
<1>5. CASE UNCHANGED vars
  BY <1>4, <1>5 DEF InStep, StoreDocuments, vars, index, call
<1>6. ASSUME NEW n \in Node, InsertNode(n) \/ UpdateNode(n) PROVE InStep'
  BY <1>4, <1>6, WriteStaysInStep
<1>7. CASE ReadBack
  BY <1>4, <1>7 DEF ReadBack, Goto, InStep, StoreDocuments, index, Without
<1>8. CASE IndexDocument
  BY <1>4, <1>8, IndexDocumentStaysInStep
<1>9. CASE Commit
  BY <1>4, <1>9 DEF Commit, Goto, InStep, StoreDocuments
<1>10. CASE Reload
  BY <1>4, <1>10 DEF Reload, Return, Goto, InStep, StoreDocuments
<1>11. CASE BackgroundReload
  BY <1>4, <1>11 DEF BackgroundReload, InStep, StoreDocuments, call, Without
<1>12. CASE OpenOrCreate \/ FromNodes
  BY <1>4, <1>12 DEF OpenOrCreate, FromNodes, InStep
<1> QED
  BY <1>1, <1>2, <1>5, <1>6, <1>7, <1>8, <1>9, <1>10, <1>11, <1>12 DEF Next, Step

(* The model's variables keep their types. *)
THEOREM IndexTyped == Spec => []TypeOK
<1>1. IInv => TypeOK
  BY DEF IInv
<1> QED
  BY Trailed, <1>1, PTL

(* Between calls a search meets exactly what the store holds, as long as   *)
(* no call failed and nobody wrote past the wrapper.                       *)
THEOREM KeptInSync == Spec => []InSyncUnlessFailed
<1>1. Init => InStepUnlessFailed
  BY DEF Init, InStepUnlessFailed, InStep, StoreDocuments
<1>2. IInv /\ InStepUnlessFailed /\ [Next]_vars => InStepUnlessFailed'
  BY StaysInStep
<1>3. InStepUnlessFailed => InSyncUnlessFailed
  BY DEF InStepUnlessFailed, InStep, Undisturbed, InSyncUnlessFailed
<1> QED
  BY Trailed, <1>1, <1>2, <1>3, PTL DEF Spec
=============================================================================
