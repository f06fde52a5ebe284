------------------------- MODULE SleepConsolidation -------------------------
(***************************************************************************)
(* The consolidation jobs of memory-sleep, run in order by SleepRunner     *)
(* over one SleepState.                                                    *)
(*                                                                         *)
(* Nodes, lessons and traits are numbered by their place in the vectors of *)
(* SleepState.  Confidence, importance and edge weight are f32 in [0,1] in *)
(* the code and hundredths in 0..100 here.  Time is counted in days.       *)
(*                                                                         *)
(* A list of node ids (Lesson.supporting_node_ids and so on) is a set of   *)
(* entries <<node, copy>>: the order is immaterial to every job, the       *)
(* number of times a node is listed is not.                                *)
(*                                                                         *)
(* Every job but the merging of duplicates is one step.  Merging compares  *)
(* pairs of nodes in a double loop and rewrites the state as it goes; each *)
(* turn of the loop is a step here.                                        *)
(*                                                                         *)
(* An operator named X_Something is X with a fault seeded in it; no other  *)
(* definition uses it.                                                     *)
(***************************************************************************)
EXTENDS Integers, Sequences, FiniteSets

CONSTANTS
  NumNodes,         \* length of SleepState.nodes
  NumLessons,       \* length of SleepState.lessons
  NumTraits,        \* length of SleepState.traits
  Edge,             \* the edges of SleepState.edges
  Jobs,             \* SleepRunner.jobs: the job kinds in the order they run
  \* SleepPolicy, field by field
  CheckpointNodeLimit, CheckpointLessonLimit, WeightMergeCap,
  WeakEdgeThreshold, WeakEdgeDecay, StaleEdgeDays,
  IsolatedImportance, IsolatedConfidence,
  ReinforcementThreshold, LessonIncrement,
  RecallThreshold, ConfidenceIncrement, ImportanceIncrement,
  \* the values the state handed to the first run is made of
  InitStatus, InitImportance, InitConfidence, InitWeight, InitSupport,
  \* bounds
  MaxRuns,          \* runs of the runner
  MaxRecall,        \* recall count of a node
  Elapsed           \* days that may pass between two runs

Node   == 1..NumNodes
Lesson == 1..NumLessons
Trait  == 1..NumTraits
Unit   == 0..100
Entry  == Node \X (1..2)

Status  == {"Candidate", "Active", "Reinforced", "Contradicted", "Archived", "Pruned"}
JobKind == {"CheckpointGeneration", "DuplicateMerging", "WeakEdgeDecay",
            "ArchiveIsolatedWeakNodes", "LessonReinforcement", "Reconsolidation"}

ASSUME SizesAssumption == /\ NumNodes \in Nat
                          /\ NumLessons \in Nat
                          /\ NumTraits \in Nat
ASSUME JobsAssumption == /\ Jobs \in Seq(JobKind)
                         /\ Len(Jobs) > 0
ASSUME PolicyAssumption ==
  /\ {WeightMergeCap, WeakEdgeThreshold, WeakEdgeDecay, IsolatedImportance,
      IsolatedConfidence, LessonIncrement, ConfidenceIncrement,
      ImportanceIncrement} \subseteq Unit
  /\ {CheckpointNodeLimit, CheckpointLessonLimit, StaleEdgeDays,
      ReinforcementThreshold, RecallThreshold} \subseteq Nat
ASSUME InitAssumption ==
  /\ InitStatus \subseteq Status
  /\ InitImportance \subseteq Unit
  /\ InitConfidence \subseteq Unit
  /\ InitWeight \subseteq Unit
  /\ InitSupport \subseteq SUBSET Entry
ASSUME BoundsAssumption == /\ MaxRuns \in Nat
                           /\ MaxRecall \in Nat
                           /\ Elapsed \subseteq Nat

VARIABLES
  \* SleepState
  nodes, edges, lessons, traits, checkpoints, recall_counts,
  \* the texts of the nodes: which pairs reach duplicate_similarity_threshold
  similar,
  \* SleepRunner::run_all: the job being run (0 between runs) and its clock
  job, now,
  \* the locals of run_duplicate_merging
  left_index, right_index, archived_ids,
  \* history: runs started; when each edge last decayed; merging passes
  \* finished since a score last changed (no more than NumNodes are counted)
  runs, last_decay, quiet_passes

state   == <<nodes, edges, lessons, traits, checkpoints>>
cursor  == <<left_index, right_index, archived_ids>>
history == <<runs, last_decay, quiet_passes>>
vars    == <<state, recall_counts, similar, job, now, cursor, history>>

-----------------------------------------------------------------------------
Lower(a, b)  == IF a < b THEN a ELSE b
Higher(a, b) == IF a > b THEN a ELSE b

(* Node::status is Active or Reinforced. *)
Strong(n) == nodes[n].status \in {"Active", "Reinforced"}

(* node_similarity reaches the threshold; titles, summaries and types are  *)
(* never changed by a job.                                                 *)
Similar(a, b) == {a, b} \in similar

Score(n) == nodes[n].importance + nodes[n].confidence

(* connected_node_ids *)
Connected(n) == \E e \in Edge : n \in {edges[e].from, edges[e].to}

(* A node as the jobs archive it; nothing else of it changes. *)
Archived(node) == [node EXCEPT !.status = "Archived", !.updated_at = now]

(* The distinct nodes a list of ids names. *)
Listed(list) == {entry[1] : entry \in list}

(* The first k of S in the order Before: a stable sort_by and take(k). *)
Take(S, k, Before(_, _)) == {x \in S : Cardinality({y \in S : Before(y, x)}) < k}

-----------------------------------------------------------------------------
Running(kind) == job # 0 /\ Jobs[job] = kind

(* SleepRunner::run_all goes to its next job; after the last it returns. *)
NextJob == job' = IF job = Len(Jobs) THEN 0 ELSE job + 1

-----------------------------------------------------------------------------
(* run_checkpoint_generation *)
NodeBefore(a, b) ==
  \/ nodes[a].updated_at > nodes[b].updated_at
  \/ /\ nodes[a].updated_at = nodes[b].updated_at
     /\ \/ nodes[a].importance > nodes[b].importance
        \/ nodes[a].importance = nodes[b].importance /\ a < b

LessonBefore(a, b) ==
  \/ lessons[a].updated_at > lessons[b].updated_at
  \/ /\ lessons[a].updated_at = lessons[b].updated_at
     /\ \/ lessons[a].confidence > lessons[b].confidence
        \/ lessons[a].confidence = lessons[b].confidence /\ a < b

CheckpointNodes == Take({n \in Node : Strong(n)}, CheckpointNodeLimit, NodeBefore)

CheckpointLessons ==
  Take({l \in Lesson : Listed(lessons[l].supporting) \cap CheckpointNodes # {}},
       CheckpointLessonLimit, LessonBefore)

RunCheckpointGeneration ==
  /\ Running("CheckpointGeneration")
  /\ checkpoints' =
       IF CheckpointNodes = {} THEN checkpoints
       ELSE Append(checkpoints, [node_ids   |-> CheckpointNodes,
                                 lesson_ids |-> CheckpointLessons,
                                 created_at |-> now])
  /\ NextJob
  /\ UNCHANGED <<nodes, edges, lessons, traits, recall_counts, similar, now,
                 cursor, history>>

-----------------------------------------------------------------------------
(* replace_node_id: rewrite, then keep the first entry of every node. *)
ReplaceNodeId_Dropped(list, old, new) ==
  {<<entry[1], 1>> : entry \in {x \in list : x[1] # old}}
ReplaceNodeId(list, old, new) ==
  {<<IF entry[1] = old THEN new ELSE entry[1], 1>> : entry \in list}

(* choose_duplicate_survivor: the right node only with a higher score. *)
Survivor_TieToRight(left, right) == IF Score(right) >= Score(left) THEN right ELSE left
Survivor(left, right) == IF Score(right) > Score(left) THEN right ELSE left

(* The edge loop of a merge: an edge at the archived node moves to the     *)
(* survivor, whatever its other end is.                                    *)
Redirect_FromOnly(edge, archived, survivor) ==
  IF archived # edge.from THEN edge
  ELSE [edge EXCEPT !.from       = survivor,
                    !.weight     = Lower(@, WeightMergeCap),
                    !.updated_at = now]
Redirect_WrongEnd(edge, archived, survivor) ==
  IF archived \notin {edge.from, edge.to} THEN edge
  ELSE [edge EXCEPT !.from       = survivor,
                    !.weight     = Lower(@, WeightMergeCap),
                    !.updated_at = now]
Redirect(edge, archived, survivor) ==
  IF archived \notin {edge.from, edge.to} THEN edge
  ELSE [edge EXCEPT !.from       = IF @ = archived THEN survivor ELSE @,
                    !.to         = IF @ = archived THEN survivor ELSE @,
                    !.weight     = Lower(@, WeightMergeCap),
                    !.updated_at = now]

MergeInto(archived, survivor) ==
  /\ edges' = [e \in Edge |-> Redirect(edges[e], archived, survivor)]
  /\ lessons' = [l \in Lesson |->
       [lessons[l] EXCEPT
          !.supporting    = ReplaceNodeId(@, archived, survivor),
          !.contradicting = ReplaceNodeId(@, archived, survivor)]]
  /\ traits' = [t \in Trait |-> ReplaceNodeId(traits[t], archived, survivor)]
  /\ nodes' = [nodes EXCEPT ![archived] = Archived(@)]
  /\ archived_ids' = archived_ids \union {archived}

MergeLeft_SkipsNeighbour ==
  /\ Running("DuplicateMerging")
  /\ right_index = 0
  /\ left_index \in Node
  /\ IF left_index \in archived_ids
     THEN left_index' = left_index + 1 /\ UNCHANGED right_index
     ELSE right_index' = left_index + 2 /\ UNCHANGED left_index
  /\ UNCHANGED <<state, recall_counts, similar, job, now, archived_ids, history>>

(* The outer loop takes up left_index, unless it was archived by this pass. *)
MergeLeft ==
  /\ Running("DuplicateMerging")
  /\ right_index = 0
  /\ left_index \in Node
  /\ IF left_index \in archived_ids
     THEN left_index' = left_index + 1 /\ UNCHANGED right_index
     ELSE right_index' = left_index + 1 /\ UNCHANGED left_index
  /\ UNCHANGED <<state, recall_counts, similar, job, now, archived_ids, history>>

(* The inner loop passes over a right node archived by this pass or unlike *)
(* the left one.                                                           *)
MergeSkip ==
  /\ Running("DuplicateMerging")
  /\ right_index \in Node
  /\ right_index \in archived_ids \/ ~Similar(left_index, right_index)
  /\ right_index' = right_index + 1
  /\ UNCHANGED <<state, recall_counts, similar, job, now, left_index,
                 archived_ids, history>>

(* The inner loop merges a pair.  left_index is not looked up again in     *)
(* archived_ids, so a left node that has just lost stays in the loop.      *)
MergePair ==
  /\ Running("DuplicateMerging")
  /\ right_index \in Node
  /\ right_index \notin archived_ids
  /\ Similar(left_index, right_index)
  /\ LET survivor == Survivor(left_index, right_index)
     IN  IF survivor = left_index THEN MergeInto(right_index, left_index)
                                  ELSE MergeInto(left_index, right_index)
  /\ right_index' = right_index + 1
  /\ UNCHANGED <<checkpoints, recall_counts, similar, job, now, left_index, history>>

(* The inner loop ends. *)
MergeNextLeft ==
  /\ Running("DuplicateMerging")
  /\ right_index > NumNodes
  /\ left_index' = left_index + 1
  /\ right_index' = 0
  /\ UNCHANGED <<state, recall_counts, similar, job, now, archived_ids, history>>

(* The outer loop ends and the job returns. *)
MergeReturns ==
  /\ Running("DuplicateMerging")
  /\ right_index = 0
  /\ left_index > NumNodes
  /\ NextJob
  /\ left_index' = 1
  /\ archived_ids' = {}
  /\ quiet_passes' = Lower(quiet_passes + 1, NumNodes)
  /\ UNCHANGED <<state, recall_counts, similar, now, right_index, runs, last_decay>>

-----------------------------------------------------------------------------
(* run_weak_edge_decay *)
Decays(e) == /\ edges[e].weight <= WeakEdgeThreshold
             /\ edges[e].updated_at < now - StaleEdgeDays

Decayed_NoFloor(edge) ==
  [edge EXCEPT !.weight = @ - WeakEdgeDecay, !.updated_at = now]
Decayed_NotTouched(edge) ==
  [edge EXCEPT !.weight = Higher(@ - WeakEdgeDecay, 0)]
Decayed(edge) ==
  [edge EXCEPT !.weight = Higher(@ - WeakEdgeDecay, 0), !.updated_at = now]

RunWeakEdgeDecay ==
  /\ Running("WeakEdgeDecay")
  /\ edges' = [e \in Edge |-> IF Decays(e) THEN Decayed(edges[e]) ELSE edges[e]]
  /\ last_decay' = [e \in Edge |-> IF Decays(e) THEN now ELSE last_decay[e]]
  /\ NextJob
  /\ UNCHANGED <<nodes, lessons, traits, checkpoints, recall_counts, similar,
                 now, cursor, runs, quiet_passes>>

-----------------------------------------------------------------------------
(* run_archive_isolated_weak_nodes *)
IsolatedAndWeak(n) == /\ ~Connected(n)
                      /\ nodes[n].importance < IsolatedImportance
                      /\ nodes[n].confidence < IsolatedConfidence
                      /\ nodes[n].status \notin {"Archived", "Pruned"}

RunArchiveIsolatedWeakNodes ==
  /\ Running("ArchiveIsolatedWeakNodes")
  /\ nodes' =
       [n \in Node |-> IF IsolatedAndWeak(n) THEN Archived(nodes[n]) ELSE nodes[n]]
  /\ NextJob
  /\ UNCHANGED <<edges, lessons, traits, checkpoints, recall_counts, similar,
                 now, cursor, history>>

-----------------------------------------------------------------------------
(* run_lesson_reinforcement: every listed entry counts, a node listed      *)
(* twice counts twice.                                                     *)
SupportCount(l) == Cardinality({entry \in lessons[l].supporting : Strong(entry[1])})

Reinforces(l) == SupportCount(l) >= ReinforcementThreshold

Reinforced(lesson, support_count) ==
  [lesson EXCEPT !.reinforcement_count = @ + 1,
                 !.evidence_count      = @ + support_count,
                 !.confidence          = Lower(@ + LessonIncrement, 100),
                 !.status              = "Reinforced",
                 !.updated_at          = now]

RunLessonReinforcement ==
  /\ Running("LessonReinforcement")
  /\ lessons' = [l \in Lesson |->
       IF Reinforces(l) THEN Reinforced(lessons[l], SupportCount(l)) ELSE lessons[l]]
  /\ NextJob
  /\ UNCHANGED <<nodes, edges, traits, checkpoints, recall_counts, similar,
                 now, cursor, history>>

-----------------------------------------------------------------------------
(* run_reconsolidation: whatever the status of the node was. *)
Reconsolidates(n) == recall_counts[n] >= RecallThreshold

Reconsolidated(node) ==
  [node EXCEPT !.confidence = Lower(@ + ConfidenceIncrement, 100),
               !.importance = Lower(@ + ImportanceIncrement, 100),
               !.status     = "Reinforced",
               !.updated_at = now]

RunReconsolidation ==
  /\ Running("Reconsolidation")
  /\ nodes' = [n \in Node |->
       IF Reconsolidates(n) THEN Reconsolidated(nodes[n]) ELSE nodes[n]]
  /\ quiet_passes' = IF \E n \in Node : Reconsolidates(n) THEN 0 ELSE quiet_passes
  /\ NextJob
  /\ UNCHANGED <<edges, lessons, traits, checkpoints, recall_counts, similar,
                 now, cursor, runs, last_decay>>

-----------------------------------------------------------------------------
(* The caller of the crate: it counts recalls, and runs the jobs with a    *)
(* clock that does not go back.                                            *)
Recall(n) ==
  /\ job = 0
  /\ recall_counts[n] < MaxRecall
  /\ recall_counts' = [recall_counts EXCEPT ![n] = @ + 1]
  /\ UNCHANGED <<state, similar, job, now, cursor, history>>

StartRun ==
  /\ job = 0
  /\ runs < MaxRuns
  /\ \E days \in Elapsed : now' = now + days
  /\ job' = 1
  /\ runs' = runs + 1
  /\ UNCHANGED <<state, recall_counts, similar, cursor, last_decay, quiet_passes>>

-----------------------------------------------------------------------------
(* An edge of the store joins two different nodes. *)
Ends == {p \in Node \X Node : p[1] # p[2]}

Pairs == {p \in SUBSET Node : Cardinality(p) = 2}

Init ==
  /\ nodes \in [Node -> [status : InitStatus, importance : InitImportance,
                         confidence : InitConfidence, updated_at : {0}]]
  /\ \E ends \in [Edge -> Ends],
        weight \in [Edge -> InitWeight] :
       edges = [e \in Edge |-> [from |-> ends[e][1], to |-> ends[e][2],
                                weight |-> weight[e], updated_at |-> 0]]
  /\ \E supporting \in [Lesson -> InitSupport], contradicting \in [Lesson -> {{}}] :
       lessons = [l \in Lesson |->
         [supporting |-> supporting[l], contradicting |-> contradicting[l],
          status |-> "Active", confidence |-> 50, evidence_count |-> 1,
          reinforcement_count |-> 0, updated_at |-> 0]]
  /\ traits \in [Trait -> InitSupport]
  /\ checkpoints = <<>>
  /\ recall_counts = [n \in Node |-> 0]
  /\ similar \in SUBSET Pairs
  /\ job = 0
  /\ now = 0
  /\ left_index = 1
  /\ right_index = 0
  /\ archived_ids = {}
  /\ runs = 0
  /\ last_decay = [e \in Edge |-> 0]
  /\ quiet_passes = 0

Next ==
  \/ StartRun
  \/ \E n \in Node : Recall(n)
  \/ RunCheckpointGeneration
  \/ MergeLeft
  \/ MergeSkip
  \/ MergePair
  \/ MergeNextLeft
  \/ MergeReturns
  \/ RunWeakEdgeDecay
  \/ RunArchiveIsolatedWeakNodes
  \/ RunLessonReinforcement
  \/ RunReconsolidation

Spec == Init /\ [][Next]_vars

-----------------------------------------------------------------------------
(* Properties *)

TypeOK ==
  /\ nodes \in [Node -> [status : Status, importance : Unit,
                         confidence : Unit, updated_at : Nat]]
  /\ edges \in [Edge -> [from : Node, to : Node, weight : Unit, updated_at : Nat]]
  /\ lessons \in [Lesson ->
       [supporting : SUBSET Entry, contradicting : SUBSET Entry,
        status : Status, confidence : Unit, evidence_count : Nat,
        reinforcement_count : Nat, updated_at : Nat]]
  /\ traits \in [Trait -> SUBSET Entry]
  /\ checkpoints \in Seq([node_ids : SUBSET Node, lesson_ids : SUBSET Lesson,
                          created_at : Nat])
  /\ recall_counts \in [Node -> Nat]
  /\ similar \subseteq Pairs
  /\ job \in 0..Len(Jobs)
  /\ now \in Nat
  /\ left_index \in 1..(NumNodes + 1)
  /\ right_index \in 0..(NumNodes + 1)
  /\ archived_ids \subseteq Node
  /\ runs \in Nat
  /\ last_decay \in [Edge -> Nat]
  /\ quiet_passes \in 0..NumNodes

(* m is the one of the duplicates m and n that merging keeps. *)
Outranks(m, n) == \/ Score(m) > Score(n)
                  \/ Score(m) = Score(n) /\ m < n

(* A merging pass of this run has finished and no score changed since. *)
MergedBefore ==
  /\ job # 0
  /\ \E j \in 1..(job - 1) :
       /\ Jobs[j] = "DuplicateMerging"
       /\ \A k \in (j + 1)..(job - 1) : Jobs[k] # "Reconsolidation"

(* After a merging pass no two Active or Reinforced nodes are duplicates   *)
(* of each other, so the support that run_lesson_reinforcement counts      *)
(* later in the run is support by different memories: the double loop      *)
(* misses no pair although it drops nodes from the comparison as it goes.  *)
StrongNodesDiffer ==
  MergedBefore => \A a, b \in Node : Strong(a) /\ Strong(b) => ~Similar(a, b)

(* A node is archived only in favour of a duplicate that outranks it, or   *)
(* because nothing points at it and it is weak; of a group of duplicates   *)
(* the best is never merged away, in whatever order the loop meets them.   *)
ArchivedForCause ==
  [][\A n \in Node :
       nodes[n].status # "Archived" /\ nodes'[n].status = "Archived" =>
         \/ \E m \in Node : Similar(m, n) /\ Outranks(m, n)
         \/ ~Connected(n) /\ Score(n) < IsolatedImportance + IsolatedConfidence]_vars

(* Merging never cuts a node off: a node that had an edge keeps one unless *)
(* it was archived, so the archival of isolated nodes that follows cannot  *)
(* take a survivor for an isolated node.                                   *)
MergeKeepsConnections ==
  [][\A n \in Node : Connected(n) /\ ~Connected(n)' => nodes'[n].status = "Archived"]_vars

(* Evidence is never dropped: a memory that supports a lesson or a trait   *)
(* supports it still, or it was archived and a duplicate supports it.      *)
Kept(old, new) ==
  \A n \in Listed(old) :
    \/ n \in Listed(new)
    \/ /\ nodes'[n].status = "Archived"
       /\ \E m \in Listed(new) : Similar(m, n)

EvidenceKept ==
  [][/\ \A l \in Lesson : Kept(lessons[l].supporting, lessons'[l].supporting)
     /\ \A t \in Trait : Kept(traits[t], traits'[t])]_vars

(* However often the jobs run, an edge decays at most once in a stale      *)
(* window and by no more than the policy's step: a decay counts as an      *)
(* update of the edge.                                                     *)
DecayRateLimited ==
  [][\A e \in Edge : edges'[e].weight < edges[e].weight =>
       \/ Running("DuplicateMerging") /\ edges'[e].weight = WeightMergeCap
       \/ /\ now - last_decay[e] > StaleEdgeDays
          /\ edges[e].weight - edges'[e].weight <= WeakEdgeDecay]_vars

Referenced(n) == \/ Connected(n)
                 \/ \E l \in Lesson : n \in Listed(lessons[l].supporting)
                 \/ \E t \in Trait : n \in Listed(traits[t])

(* No duplicate of n outranks it. *)
Best(n) == ~\E m \in Node : Similar(m, n) /\ Outranks(m, n)

(* The nodes that n outranks. *)
Below(n) == {m \in Node : Outranks(n, m)}

(* What a merging pass leaves behind on a merged node the next ones        *)
(* repair.  A node that has a duplicate which is itself the best of its    *)
(* duplicates should be left without edges and evidence; what it still has *)
(* after k passes with unchanged scores has climbed, and such a node       *)
(* outranks k others.  So after as many passes as there are nodes, less    *)
(* one, nothing is left where it should not be.                            *)
PassesSettle ==
  \A n \in Node :
    /\ Referenced(n)
    /\ \E m \in Node : Similar(m, n) /\ Outranks(m, n) /\ Best(m)
    => Cardinality(Below(n)) >= quiet_passes

(* The edges table: CHECK (from_node_id <> to_node_id).  The edges that    *)
(* the jobs hand back satisfy what the store requires of an edge.          *)
NoSelfLoops == \A e \in Edge : edges[e].from # edges[e].to
=============================================================================
