# Nodamem: TLA+ models and proofs

Nodamem is a memory engine for agents, a Rust workspace of small crates. This directory models the
parts of it that keep or decide about state, checks them with TLC and proves theorems about them with
TLAPS. Paths below are relative to the repository; `PROJECT.json` gives the lines each definition models.

## The system

| Component | State it keeps | Operations | What makes it correct |
|---|---|---|---|
| `memory-store` opening (`db.rs`, `config.rs`, `migrations.rs`) | the database file: schema objects, `_nodamem_migrations` | `StoreRuntime::open`: choose a backend, build it, fall back, run migrations | what is recorded is installed; a store is handed out with its schema; a lost race or a crash only costs a retry |
| `memory-store` repository (`repository.rs`, `mapper.rs`, `audit.rs`) | tables of nodes, edges, lessons, sources, traits, checkpoints, scenarios, working memory, embeddings | single statements, most of them followed by a read-back; lists, latest first; audit views of several queries | references hold; lists show what changed last; a report that is read in pieces is complete and invents nothing |
| `memory-retrieval` index (`lexical.rs`) | a Tantivy index: staged, committed, searchable documents | `IndexedStoreRepository::insert_node/update_node`, `from_nodes`, `open_or_create` | the index trails the store, one document a node, and catches up |
| `memory-retrieval` recall (`lib.rs`, `vector.rs`, `graph.rs`, `rerank.rs`, `packet.rs`) | none | `recall_context`: searches, graph expansion, rerank, packet | the reach of the hits is found exactly, and the packet answers the query |
| `memory-ingest` | none | `evaluate`: extract, score, admit | what is known is not stored twice, what is worth keeping is not lost |
| `memory-lessons` | none | `process_memories` | evidence counts are backed, no duplicates, contradictions do not strengthen |
| `memory-personality` | none | `record_outcome` | slow, bounded, validated-only drift |
| `memory-sleep` | `SleepState`, passed through | `SleepRunner::run_all`: six jobs in order | no evidence or connection lost, nothing archived without cause |
| `memory-imagination` | none | `imagine_for_planning` | scenarios from connected clusters, kept apart from verified nodes |
| `agent-api` (service, HTTP, OpenClaw adapter) | none (an `Arc` of services) | delegation and conversion | stateless |
| `nodamem-app` | none | opens the store once and exits | - |

The services are functions over data handed to them. Nothing in the repository joins a service to the
store: an agent lists rows, calls a service and writes back what it returns. The hard behaviours are
therefore at the seams: several openers of one file, two stores written one after the other, rows
computed from a list that is stale when they are saved, calls that took effect and still failed, and a
consolidation pass that rewrites the state it is iterating over. All hazards, with their lines and the
properties that cover them, are in `PROJECT.json`.

## Modules

| Module | Models | Proofs |
|---|---|---|
| `StoreBootstrap`, `MCStoreBootstrap` | `StoreRuntime::open` by several openers | `StoreBootstrapProofs` |
| `SchemaHistory` | the abstract promise of opening: migrations applied in order, once, and before a local store is served | refined by `StoreBootstrap` |
| `MemoryTables` | the tables of `StoreRepository`, their references and their lists | in `AuditTrailProofs` |
| `AuditTrail`, `MCAuditTrail` | `inspect_node_audit` and `inspect_lesson_audit` over those tables while others write | `AuditTrailProofs` |
| `LexicalSync`, `MCLexicalSync` | `IndexedStoreRepository` over the nodes table and Tantivy | `LexicalSyncProofs` |
| `SleepConsolidation`, `MCSleepConsolidation` | the jobs of `memory-sleep` | `SleepConsolidationProofs` |
| `LessonEvidence`, `MCLessonEvidence` | `process_memories`, `upsert_lesson`, `attach_lesson_source` | `LessonEvidenceProofs` |
| `PersonalityTraits`, `MCPersonalityTraits` | `record_outcome`, `list_trait_states`, `save_trait_state` | `PersonalityTraitsProofs` |
| `Admission`, `MCAdmission` | extraction and admission of `memory-ingest`, and the inserts that follow | `AdmissionProofs` |
| `RecallContext` | `recall_context` from the index and the embeddings to the packet | in `PlanningLoopProofs` |
| `PlanningImagination` | `imagine_for_planning` | in `PlanningLoopProofs` |
| `PlanningLoop`, `MCPlanningLoop` | the composition: an agent recalls and imagines from the packet | `PlanningLoopProofs` |
| `MemoryRecords`, `Ranking` | what is read of nodes, edges and lessons; sorting and taking the first few | - |

Conventions. Every module declares its bounds and the code's policies as CONSTANTS with named
assumptions; variables under "history" record facts for the properties and influence no step beyond a
bound. f32 scores are integers (hundredths; 1/100000 for trait strength, where the arithmetic is exact).
An operator `X_Something` is `X` with a plausible fault: replacing `X` by it must break the property
`PROJECT.json` pairs it with, which shows that the property can fail.

### StoreBootstrap

`objects` and `recorded` are the file; `pc`, `database`, `version`, `statement` are the locals of one call
of `open` per opener. A step ends at each await. `execute_batch` is one step per statement, since SQLite
makes only a statement atomic and no transaction is opened (`migrations.rs:83`); the row that records the
migration is a step of its own. `CallFails` and `Crash` may follow any step, up to `MaxFailures`.
A synced build may replace the schema by the remote's, which is managed elsewhere.

- `RecordedInstalled`: a recorded migration is complete, so no later open skips a missing object.
- `LocalOnlyServesSchema`: a store opened local-only has every object of every migration.
- `RetryMeetsNoConflict`: an opener that runs alone never meets the primary key of the migrations table,
  whatever earlier attempt was cut short; only a race does that.
- `SchemaApplied`: with `applied <- recorded` and `serving <-` the open local-only openers, every step is a
  step of `SchemaHistory` or a stutter.
- `OpenEventually`: openers that call again get their store.
- `FallbackHasSchema` (violated): `open` asks the *selected* backend, not the one it built, whether to
  migrate. After a failed remote initialization it serves a local database without tables.

Bounds: two openers give every race of two calls; versions 0..2 give a migration that is always run, one
that is followed by another and a last one, with batches of one and two statements; two failures allow a
crash and a failing retry. Fairness: a polled future goes on (weak fairness of the steps of `open`), and
whoever wants the store calls `open` again (weak fairness of `Start`); failures run out by the bound.

### MemoryTables, AuditTrail

`MemoryTables` has an action for every writing statement of `StoreRepository` (but the upsert of an
embedding, below) and `Recent` for every list; `AuditTrail` adds the two audit views. On a remote database
each query of a view is a request of its own and no transaction holds them together, so a view is a sequence
of steps - a step for the inbound edges, one for the outbound ones, one for each lesson - and `Write` lets
other connections write between any two. A lesson and its sources are two queries that count as one step:
lessons are never deleted, so the first says nothing the second could contradict.

The clock is there for `updated_at`. A client inserts `2026-01-31T09:30:00.5+00:00`; the trigger that stamps
an update writes `2026-01-31 09:30:00`; `ORDER BY` compares the texts, in which a blank is less than a `T`.

- `TypeOK`: with the types, what the foreign keys promise.
- `LatestDayFirst`: the two formats misorder rows of one day only, and in one direction: an update sinks
  behind that day's insertions, and updates of one second are equal. A list never hides a row of today for one
  of an earlier day.
- `AuditRegular`: a report misses no neighbor, trait or checkpoint that was there all the while the view was
  put together, and shows none that never was; the ends of its edges are what `get_neighbors` finds.
- `AuditEvidence`: each lesson of a node's report carries the source by which it was found, in its role, and no
  source there was at the beginning is lost on the way.

Behaviour the model shows and no property names: the `expires_at` of working memory is stored and read by
nothing, so an entry stays until it is deleted or replaced; a lesson can have the same source twice, as each
`attach_lesson_source` inserts a row under a new id. Bounds: two nodes are a subject and a neighbor, which two
edges reach either way; one row of every other kind; three statements, any of which may fall between any two
queries; two days of four instants, two to a second, and records stamped now or three instants before they
are inserted, so that insertions and updates meet within a second, within a day and over midnight; a limit of
one cuts every list of two.

### LexicalSync

`store` keeps the revision of each node's text; `staged`, `committed` and `searcher` are the three stages
of a Tantivy document. `insert_node` is INSERT, read-back, delete and add, commit, reload, each a step
that may fail or be the last before a crash. `DirectWrite` is another connection without the index.

- `TrailsStore`: the index holds only texts the store has or had (`NeverAhead`), and searches meet a node once
  (`OneDocument`).
- `OkIsSearchable`: `Ok` means the text that was read back can be found.
- `InSyncUnlessFailed`: between calls index and store agree if nothing failed and nobody wrote past it.
- `SearchNeverGoesBack`: no step shows an older text of a node than the one shown before.
- `InsertedIsIndexed` (violated, under fair retries): a node whose indexing failed stays out of the index
  however often `insert_node` is called again, since the retry stops at the store's primary key.

Bounds: two nodes so that a call for one meets leftovers of the other; three revisions and failures so
that a failed commit, its repair and a late read-back of a direct write meet. Fairness of the violating
run: calls go on, a crashed index is opened again, and `insert_node` is retried for ever (strong fairness,
the most a caller can do).

### SleepConsolidation

One run of `run_all` goes through `Jobs`. Each job is one step except duplicate merging, whose double loop
rewrites the state as it goes: `MergeLeft`, `MergeSkip`, `MergePair`, `MergeNextLeft`, `MergeReturns` are
its turns over `left_index`, `right_index` and `archived_ids`. Which pairs reach the similarity threshold
is any symmetric relation, fixed over time because no job changes texts.

- `StrongNodesDiffer`: after merging, no two active nodes are duplicates, although the loop drops nodes
  from the comparison as it archives them.
- `ArchivedForCause`: a node is archived only for a duplicate that outranks it, or as isolated and weak.
- `MergeKeepsConnections`: merging never turns a surviving node into an isolated one.
- `EvidenceKept`: a supporting memory of a lesson or trait is kept or replaced by its duplicate.
- `DecayRateLimited`: an edge decays once per stale window, by at most the policy's step.
- `PassesSettle`: what one pass leaves on merged nodes the next ones repair. A node that ought to have given way
  to the best of its duplicates keeps edges or evidence after `k` quiet passes only if it outranks `k` nodes, so
  nothing is left after as many passes as there are nodes, less one. Two passes settle three nodes; they do not
  settle five, where what is left climbs one duplicate in each pass.
- `NoSelfLoops` (violated): merging the two ends of an edge makes it a self-loop, which the store rejects.

Behaviour the model shows and no property names: a left node that lost stays in the inner loop and can become
the survivor of a later pair, so edges may end on a node archived in the same pass (`PassesSettle` says
that the next pass moves them up); reconsolidation brings archived nodes back to Reinforced at every run
because `recall_counts` is never reset, and reinforcement counts the same evidence again at every run. Bounds:
three nodes are the least for which the order of the pairs matters (the triple a~b, b~c, a~c or not); two runs
with 5 or 15 days between them are on both sides of the 14-day window; one edge from every pair of ends; the
default policy, except that two checkpoint nodes and one recall suffice.

### LessonEvidence

Agents list the lessons, have a batch processed, then save each updated lesson and attach its evidence.
A statement is a model value with a table of overlaps; one without a term over two bytes (`HasTerms`) overlaps
nothing, not even itself, as `text_overlap` returns 0 for it. `raced` turns true when a row is saved over a store
that changed since it was listed - by another agent or by an earlier outcome of the same batch, since
`process_memories` resolves every proposal against the same list.

- `EvidenceBacked`: a lesson's `evidence_count` never exceeds the memories that supported it (`Backing`): those
  with a source, those an agent is about to attach and those given up. A source attached a second time, because
  the first call returned an error (`unheard`), counts for nothing. This holds under any race.
- `CountsMatchUnlessRaced`: without races it is exactly their number at every moment, whatever calls fail, are
  made again or are given up. With a race it is not: the second save overwrites the first. This is the lost
  update of `memory-lessons/src/lib.rs:153`.
- `StatementsDistinctUnlessRaced`: no creation or refinement makes two lessons that say the same, if their
  statement has a term. Without one it does: `lesson_statement` cuts "v2.0 .." and "U.S. users .." to "v2" and
  "U", whose similarity to themselves is the bonus of 0.15, and each repetition makes another lesson.
- `OppositeNeverReinforces` (violated): the negation cue is looked for in the candidate only, so
  the plain statement reinforces the lesson that denies it.

Bounds: two agents, interchangeable, and three batches, so that one learns, another races and a third builds on
both; three statements on either side of the thresholds 30, 45 and 75 (overlaps 45, 50, 60 and 100, with and
without the bonus of 15) and one without terms; a memory just below the importance threshold; two failing calls,
so that a call that took effect is made again or given up.

### PersonalityTraits

An agent lists the traits, records an outcome over the list and saves the changed ones one by one.

- `DriftBounded`: a trait is never further from its start than the step times the validated outcomes.
- `OneTraitPerTypeUnlessRaced`: one trait of a type, unless agents raced (the column is not unique).
- `CountedOnceUnlessRaced`: repeated saves do not count an outcome twice.
- `OneSidedHistory`: after failures only, caution has risen; after useful successes only, practicality.

Bounds: two agents, three outcomes, one failing call, two of the seven independent trait types; the policy
is steeper than the default so that three outcomes reach both ends of the scale.

### Admission

Each ingestion lists the nodes, extracts the candidates of its event and decides over all of them in one step
(`Evaluate`: the functions are pure, only the list can be stale), then inserts what is to be created node by
node. A text is the set of its words; the terms, tags, edges, importance and cues of a candidate, its score
and the order of the bars are the code's. Where a sum of weights meets a bar exactly, the rounding of f32
decides, and the model allows both; similarities are quotients and exact.

- `TwinsOnlyByRace`: two nodes that admission would have merged are of one event or of agents that raced.
- `WorthyIsKept`: a candidate that would be created in an empty store is, in any store, created or has a node
  that shares 65% of its terms. The score is not monotone - a match lowers novelty and raises recurrence - so
  this rests on the detector's own bar.

Behaviour the model shows and no property names: connectedness counts edges to candidates that the same
evaluation rejects, so a message with four names is stored without a neighbor; entities share a summary, so
with two-letter labels they are merged into each other, and hardly any reaches the bar before a tool result is
stored; `existing_edges` of the context is never read. Bounds: three calls, so that a late one meets a race of
two; seven events over which all four actions, ties at the bar and rejection of a worthy near-duplicate occur.

### RecallContext, PlanningImagination, PlanningLoop

`RecallContext` is one call: `Search` (what Tantivy finds and the embeddings table are part of the request;
the vector search over that table is the model's), `Expand` once for each turn of the queue, `MergeAndRank`,
`AssembleMemoryPacket`. `PlanningImagination` is another: `Begin`, the two nested loops of
`connected_clusters` as `StartCluster`, `Visit` and `CloseCluster`, and `Imagine`. `PlanningLoop` joins them
as `agent-api` offers them: the packet of the first is the context of the second. What compares equal in a
sort stays in the order of a list the caller made, so any order is allowed.

- `ExpansionExact`: candidates are exactly the nodes in reach, with their distance to the nearest hit and the
  strongest edge that leads to them; the definition it is compared with goes by levels, not by a queue.
- `ScenariosAnswerQuery`: what is in a packet is a hit or tied to one, and what is in a scenario is in the packet.
- `LinkedLessonsFirst`: no confident but unrelated lesson displaces one that rests on the selected nodes.
- `ClustersAreComponents`, `BasisConnected`: clusters are the connected components of the verified nodes, and
  a basis is connected in itself although it is only the first nodes of one (connected: however it is cut in
  two, an edge joins the parts).

Behaviour the model shows and no property names: the vector search cuts its page before it looks which of the
rows are nodes of the request, so a page of others leaves no hit; unrelated lessons fill the packet when none
is linked, since any score above zero will do; hits of similarity zero are seeds of the expansion but never
ranked; `related_neighbors` are the next best nodes, not necessarily neighbors; centrality, which `AGENT.md`
lists, is no part of the score. Bounds: all graphs of up to four of eight edges over five nodes and an unknown
one, with two hops, so that reach, a node met twice and two clusters occur; searches with lexical hits, vector
hits, both and a page of which a row is of another model or of no node of the request; the caps are below what
the graphs offer, so that each of them cuts.

## Runs

| Run | Question | Result |
|---|---|---|
| `bootstrap` | do racing, crashing openers keep the schema's promises, and get their store? | holds |
| `bootstrap_fallback` | does a fallback store have its tables? | violated |
| `store` | do references hold, lists show the latest, and reports read in pieces tell the truth? | holds |
| `lexical` | does the index mirror the store through failures and restarts? | holds |
| `lexical_insert` | does a retried insert reach the index? | violated |
| `sleep` | do the jobs lose nothing and archive only for cause? | holds |
| `sleep_self_loop` | can the edges merging leaves be stored? | violated |
| `lessons` | are lessons backed by their evidence, counted exactly, and distinct? | holds |
| `lessons_opposite` | does opposite evidence reinforce? | violated |
| `personality` | is drift slow, bounded and counted once? | holds |
| `admission` | are twins due to races only, and is what is worth keeping kept? | holds |
| `planning` | is what is recalled and imagined tied to the query, and connected? | holds |

Deadlock is not checked for `store`, `sleep`, `lessons`, `personality`, `admission` and `planning`: writes,
runs, batches, outcomes, events and requests are bounded and the program may stop between them.

## Proofs

TLAPS proves the following for every value of the constants that the named assumptions admit: any number of
openers, nodes, lessons or agents, any migrations, policy, list of jobs and set of outcomes. The bounds on
failures and calls are constants too, so no theorem depends on a particular bound. The assumptions are
the shapes of the configuration (`PolicyAssumption`, `JobsAssumption`, ...), which TLC evaluates on each run.

| Module | Theorem | Property |
|---|---|---|
| `StoreBootstrapProofs` | `OpeningTyped`, `RecordedIsInstalled`, `LocalOnlyHasSchema` | `TypeOK`, `RecordedInstalled`, `LocalOnlyServesSchema` |
| | `OnlyRacesConflict` | `RetryMeetsNoConflict` |
| | `OpeningImplementsHistory` | `SchemaApplied`, the refinement of `SchemaHistory` |
| `AuditTrailProofs` | `TypeCorrect`, `AuditIsRegular` | `TypeOK` with the foreign keys, `AuditRegular` |
| | `AuditKeepsEvidence`, `ListsShowTheLatestDayFirst` | `AuditEvidence`, `LatestDayFirst` |
| `LexicalSyncProofs` | `IndexTyped`, `IndexMirrorsStore`, `OkMeansSearchable` | `TypeOK`, `TrailsStore`, `OkIsSearchable` |
| | `KeptInSync`, `SearchMovesOn` | `InSyncUnlessFailed`, `SearchNeverGoesBack` |
| `SleepConsolidationProofs` | `TypeCorrect`, `DuplicatesMerged`, `PassesDoSettle` | `TypeOK`, `StrongNodesDiffer`, `PassesSettle` |
| | `OnlyForCause`, `NoEvidenceLost` | `ArchivedForCause`, `EvidenceKept` |
| | `ConnectionsKept`, `DecayIsLimited` | `MergeKeepsConnections`, `DecayRateLimited` |
| `LessonEvidenceProofs` | `LessonsTyped`, `EvidenceIsBacked` | `TypeOK`, `EvidenceBacked` |
| | `CountsMatch`, `StatementsStayDistinct` | `CountsMatchUnlessRaced`, `StatementsDistinctUnlessRaced` |
| `PersonalityTraitsProofs` | `TraitsTyped`, `DriftIsBounded`, `HistoryMovesTraits` | `TypeOK`, `DriftBounded`, `OneSidedHistory` |
| | `TypesStaySingle`, `OutcomesCountOnce` | `OneTraitPerTypeUnlessRaced`, `CountedOnceUnlessRaced` |
| `AdmissionProofs` | `AdmissionTyped`, `TwinsNeedARace`, `WorthyStays` | `TypeOK`, `TwinsOnlyByRace`, `WorthyIsKept` |
| `PlanningLoopProofs` | `PlanningTyped`, `ExpansionFindsTheReach` | `TypeOK`, `ExpansionExact` |
| | `PlansStayOnTopic`, `LinkedLessonsWin` | `ScenariosAnswerQuery`, `LinkedLessonsFirst` |
| | `ComponentsOfTheContext`, `BasesAreConnected` | `ClustersAreComponents`, `BasisConnected` |

These are all the invariants and action properties of the passing runs. Those about `Admission` are for nodes of
at most twelve terms, the denominators its scale of similarities allows (`TermsAssumption`). One theorem has a hypothesis that the
model does not assume: `TwinsNeedARace` needs `MergeSimilarity >= DetectorBar`, the detector's own 0.65. With a
lower threshold what lies between the two is never reported as a match, and twins would not take a race.

The inductive invariants, and why the properties alone are not inductive:

- `StoreBootstrapProofs!IInv`. That a recorded migration is complete says nothing of an opener in the middle
  of one. `InBatch` says that the statements before its counter are installed, `Past` that all versions
  before its own are recorded, and `Complete` carries both over to the served store. Objects only ever grow
  (`InstalledStays`), so what one opener knows survives the steps of the others. The refinement needs
  `RecordedInOrder` as well: `SchemaHistory` applies versions in order. For `RetryMeetsNoConflict`, `Alone` says
  that while an opener counts as undisturbed no other one has started, and `NoRowYet` that the version such an
  opener is busy with is not recorded: it has checked, and nobody else could have recorded it since.
- `AuditTrailProofs!IInv`. The properties speak of finished reports only. `Neighbors` says of each neighbor of
  the beginning that it is in the trail already or its edge is still there for a query to come, which rests on
  edges never being deleted; `Sources` says the same of the rows of `lesson_sources` and `todo`. Traits can be
  rewritten, so `Mentions` keeps between what was there always and what was there ever whatever is there now.
  `LatestDayFirst` needs no order of the writes: `Stamps` says that the stamp of a row and the instant of its
  last change are equal or, after an update, of one second, and the rest is arithmetic of `TextRank`, whose
  days do not overlap.
- `LexicalSyncProofs!IInv`. A search can only be trusted not to go back if each stage trails the next one:
  `Trailing` orders searcher, committed and staged documents, `SavedIsNewest` and `Arriving` place the
  revision the running call carries between them and the store. `InStep` says for each point of a call how far
  the index is behind: it may differ from the store in the one node that is being written, then staged,
  committed and searched documents become the image of the store one after the other.
- `SleepConsolidationProofs`. `CursorInv` keeps the two indices of the double loop in order and resets them
  outside it; `PassInv` says that of each pair of duplicates behind the cursor one is in `archived_ids`, whose
  members stay archived. At the end of the loop every pair is behind the cursor. A later job keeps this only
  if it makes no node active again, which `MergedBefore` takes from the order of the jobs. `DecayRateLimited`
  rests on `ClockInv`: a decay is an update, so an edge that decayed inside the window is not stale.
  `PassesSettle` compares passes. As long as the scores stay, every pass merges the same pairs in the same order:
  `Script` says which (`Due`: neither node has lost before), of the pairs behind the cursor in the first pass and
  of all pairs afterwards, and `Settling` that what a loser of the script still has lies higher with each pass.
- `PersonalityTraitsProofs!IInv`. What an agent saves was computed from a list that may be old, so the
  invariant says of the changes still held what it says of the table: within `outcomes` steps of the start
  (`AllNear`) and above it if all outcomes so far point up (`AllRaised`). Both survive because `outcomes` and
  `reported` only grow; `StepBounded` and `StepRaises` are the two facts about `apply_signal` they rest on.
  `CountedOnceUnlessRaced` needs `CInv`, which has to speak of the future: an agent that is to save over a table
  that moved on (`Stale`), or two agents that are both about to change it (`Doomed`), must race or give up
  before all are idle. If neither is the case the table is `Settled`: it counts every outcome, but for those
  that one agent still owes it. Confidence does the counting, as each outcome raises it by one increment.
- `LessonEvidenceProofs!IInv`. `evidence_count` is written from a list that may be old, so the invariant bounds
  what agents hold as well as the table: `Backed` says that an update held by anybody counts at most one more than
  `Backing`, the sources of the lesson and those on their way or given up. `Backing` never shrinks, because what
  leaves one of the three sets enters the next and a repeated source is not counted, so an old list is only ever
  lower than it could be. `FromList` ties an outcome to its list, which gives exact counts and distinct statements
  as long as a save finds the store as it was listed.
- `AdmissionProofs!IInv`. Rows never change, so what was decided of a list stays true of the rows it names:
  `Apart` keeps that a candidate to be created is below the merge threshold for each of them, and `Ordered` that
  of two nodes from different calls one was listed by the other's call or a race was noted. For `WorthyIsKept`,
  `Promised` says at the decision what `Stored` carries to the end of the call. The score is not monotone in the
  store, and the arithmetic behind `Promised` is that novelty and recurrence only move once there is a match of 65%.
- `PlanningLoopProofs!PlanInv`. Of the expansion (`Expansion`): there are sets `W[k]` of the nodes within `k` hops,
  the queue holds its nodes in the order of their distances, which differ by one at most; what was taken off it
  was no farther, and has its neighbors visited; a candidate has its distance and the strongest edge among those
  expanded so far. At an empty queue nothing is missing. Of the clustering (`Clustering`): each node met is in one place - the stack, the cluster that grows, a
  closed one - and there once (`EachInItsPlace`); every node but the first of a cluster is a neighbor of an earlier
  one, and no edge leads from a cluster but to the stack (`GrownOverEdges`). A sequence that grew like that is
  connected, and so is every prefix of it, which is why the cap on a basis does no harm. `Founded` and `Handed` tie
  scenarios to clusters, and the context to the packet.

The models write recursion as a recursive function, and no induction theorem of the library can be used, as
they take an operator: `Least` (a set of naturals has a least element) stands in for it, and an induction is a
smallest counterexample that is not there.

Only model-checked: `OpenEventually` and `InsertedIsIndexed`, since liveness under fairness and ENABLED are
out of the prover's reach. The remaining violated properties are refuted by their runs.

## Plan

1. (done) `StoreBootstrap`/`SchemaHistory`, `LexicalSync`, `SleepConsolidation`, each with proofs.
2. (done) `LessonEvidence`, and `PersonalityTraits` with proofs.
3. (done) `Admission`; `RecallContext` and `PlanningImagination` composed in `PlanningLoop`.
4. (done) `MemoryTables` and `AuditTrail` with proofs; vector search in `RecallContext`.
5. (done) Proofs of every invariant and action property of the passing runs.
6. The safety half of `OpenEventually`: an opener that runs alone and meets no failure is never sent back to an
   earlier version, with the number of steps it has left as the variant.
7. `LexicalSync` as a refinement of a map from nodes to revisions that a search may read late.

## Not modelled

Formats of rows and messages other than timestamps, logging, the HTTP router and the OpenClaw adapter (stateless
conversions, and delegation to the services above); cosine distances and BM25 ranking (floating-point work of
libSQL and Tantivy, whose numbers are inputs of `RecallContext`); the texts and scores of a scenario; salience
(nothing reads it); edges of an ingested proposal (no decision reads them). The upsert of an embedding is no
action: a search meets one row a node with any model and similarity, which is every table that upserts can
leave. `nodamem-app` opens the store and exits. `TantivyLexicalWriter::delete_node` is called by nothing.
