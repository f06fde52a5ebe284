---------------------- MODULE SleepConsolidationProofs ----------------------
(***************************************************************************)
(* Theorems about SleepConsolidation, for every number of nodes, edges and *)
(* lessons, every policy and every list of jobs.                           *)
(***************************************************************************)
EXTENDS SleepConsolidation, FiniteSetTheorems, SequenceTheorems, TLAPS

(* Counting the entries of a list gives a natural number. *)
LEMMA CountIsNat ==
  ASSUME NEW S \in SUBSET Entry
  PROVE  Cardinality(S) \in Nat
<1>1. IsFiniteSet(Node) /\ IsFiniteSet(1..2)
  <2>1. 1 \in Int /\ 2 \in Int /\ NumNodes \in Int
    BY SizesAssumption
  <2> QED BY <2>1, FS_Interval DEF Node
<1>2. IsFiniteSet(Entry)
  BY <1>1, FS_Product DEF Entry
<1>3. IsFiniteSet(S)
  BY <1>2, FS_Subset
<1> QED BY <1>3, FS_CardinalityType

LEMMA SupportCountIsNat ==
  ASSUME TypeOK, NEW l \in Lesson
  PROVE  SupportCount(l) \in Nat
<1>1. {entry \in lessons[l].supporting : Strong(entry[1])} \in SUBSET Entry
  BY DEF TypeOK
<1> QED BY <1>1, CountIsNat DEF SupportCount

(* Adding an increment and cutting off at one stays in the unit interval. *)
LEMMA LowerUnit ==
  ASSUME NEW a \in Unit, NEW b \in Unit
  PROVE  Lower(a + b, 100) \in Unit
BY DEF Lower, Unit

LEMMA JobIsKind ==
  ASSUME TypeOK, job # 0
  PROVE  job \in 1..Len(Jobs) /\ Jobs[job] \in JobKind
BY JobsAssumption DEF TypeOK

LEMMA NextJobType ==
  ASSUME TypeOK, NextJob, job # 0
  PROVE  job' \in 0..Len(Jobs)
BY JobsAssumption DEF TypeOK, NextJob

(* Rewriting a list gives a list. *)
LEMMA ReplaceType ==
  ASSUME NEW list \in SUBSET Entry, NEW old \in Node, NEW new \in Node
  PROVE  ReplaceNodeId(list, old, new) \in SUBSET Entry
BY DEF ReplaceNodeId, Entry

LEMMA ArchivedType ==
  ASSUME TypeOK, NEW n \in Node
  PROVE  Archived(nodes[n]) \in [status : Status, importance : Unit,
                                 confidence : Unit, updated_at : Nat]
<1>1. nodes[n] \in [status : Status, importance : Unit, confidence : Unit, updated_at : Nat]
  BY DEF TypeOK
<1>2. now \in Nat /\ "Archived" \in Status
  BY DEF TypeOK, Status
<1> QED BY <1>1, <1>2 DEF Archived

LEMMA RedirectType ==
  ASSUME TypeOK, NEW e \in Edge, NEW a \in Node, NEW s \in Node
  PROVE  Redirect(edges[e], a, s) \in [from : Node, to : Node, weight : Unit, updated_at : Nat]
<1>1. edges[e] \in [from : Node, to : Node, weight : Unit, updated_at : Nat]
  BY DEF TypeOK
<1>2. now \in Nat /\ Lower(edges[e].weight, WeightMergeCap) \in Unit
  BY <1>1, PolicyAssumption DEF TypeOK, Lower, Unit
<1>3. CASE a \notin {edges[e].from, edges[e].to}
  BY <1>1, <1>3 DEF Redirect
<1>4. CASE a \in {edges[e].from, edges[e].to}
  <2>1. Redirect(edges[e], a, s) =
          [edges[e] EXCEPT !.from       = IF edges[e].from = a THEN s ELSE edges[e].from,
                           !.to         = IF edges[e].to = a THEN s ELSE edges[e].to,
                           !.weight     = Lower(edges[e].weight, WeightMergeCap),
                           !.updated_at = now]
    BY <1>4 DEF Redirect
  <2> QED BY <1>1, <1>2, <2>1
<1> QED BY <1>3, <1>4

LEMMA MergeIntoType ==
  ASSUME TypeOK, NEW a \in Node, NEW s \in Node, MergeInto(a, s)
  PROVE  /\ nodes' \in [Node -> [status : Status, importance : Unit,
                                 confidence : Unit, updated_at : Nat]]
         /\ edges' \in [Edge -> [from : Node, to : Node, weight : Unit, updated_at : Nat]]
         /\ lessons' \in [Lesson ->
               [supporting : SUBSET Entry, contradicting : SUBSET Entry,
                status : Status, confidence : Unit, evidence_count : Nat,
                reinforcement_count : Nat, updated_at : Nat]]
         /\ traits' \in [Trait -> SUBSET Entry]
         /\ archived_ids' \subseteq Node
<1>1. nodes' \in [Node -> [status : Status, importance : Unit,
                           confidence : Unit, updated_at : Nat]]
  <2>1. Archived(nodes[a]) \in [status : Status, importance : Unit,
                                confidence : Unit, updated_at : Nat]
    BY ArchivedType
  <2> QED BY <2>1 DEF TypeOK, MergeInto
<1>2. edges' \in [Edge -> [from : Node, to : Node, weight : Unit, updated_at : Nat]]
  BY RedirectType DEF MergeInto
<1>3. lessons' \in [Lesson ->
        [supporting : SUBSET Entry, contradicting : SUBSET Entry,
         status : Status, confidence : Unit, evidence_count : Nat,
         reinforcement_count : Nat, updated_at : Nat]]
  <2> SUFFICES ASSUME NEW l \in Lesson
               PROVE  lessons'[l] \in
                        [supporting : SUBSET Entry, contradicting : SUBSET Entry,
                         status : Status, confidence : Unit, evidence_count : Nat,
                         reinforcement_count : Nat, updated_at : Nat]
    BY DEF MergeInto
  <2>1. /\ ReplaceNodeId(lessons[l].supporting, a, s) \in SUBSET Entry
        /\ ReplaceNodeId(lessons[l].contradicting, a, s) \in SUBSET Entry
    BY ReplaceType DEF TypeOK
  <2> QED BY <2>1 DEF MergeInto, TypeOK
<1>4. traits' \in [Trait -> SUBSET Entry]
  BY ReplaceType DEF MergeInto, TypeOK
<1>5. archived_ids' \subseteq Node
  BY DEF MergeInto, TypeOK
<1> QED BY <1>1, <1>2, <1>3, <1>4, <1>5

(* The pair of a merging step is a pair of nodes, and one of the two is    *)
(* merged into the other.                                                  *)
LEMMA MergePairCases ==
  ASSUME TypeOK, MergePair, left_index \in Node
  PROVE  \/ MergeInto(right_index, left_index) /\ ~(Score(right_index) > Score(left_index))
         \/ MergeInto(left_index, right_index) /\ Score(right_index) > Score(left_index)
BY DEF MergePair, Survivor

-----------------------------------------------------------------------------
(* The cursor of the double loop: it is at its start outside the job, and  *)
(* inside the inner loop the left node is a node and precedes the right.   *)
CursorInv ==
  /\ ~Running("DuplicateMerging") =>
       left_index = 1 /\ right_index = 0 /\ archived_ids = {}
  /\ right_index # 0 => left_index \in Node /\ left_index < right_index

LEMMA InitType == Init => TypeOK /\ CursorInv
<1> SUFFICES ASSUME Init PROVE TypeOK /\ CursorInv
  OBVIOUS
<1>1. nodes \in [Node -> [status : Status, importance : Unit,
                          confidence : Unit, updated_at : Nat]]
  BY InitAssumption DEF Init
<1>2. edges \in [Edge -> [from : Node, to : Node, weight : Unit, updated_at : Nat]]
  <2>1. PICK ends \in [Edge -> Ends],
             weight \in [Edge -> InitWeight] :
          edges = [e \in Edge |-> [from |-> ends[e][1], to |-> ends[e][2],
                                   weight |-> weight[e], updated_at |-> 0]]
    BY DEF Init
  <2>2. \A e \in Edge : ends[e] \in Node \X Node /\ weight[e] \in Unit
    BY InitAssumption DEF Ends
  <2> QED BY <2>1, <2>2
<1>3. lessons \in [Lesson ->
        [supporting : SUBSET Entry, contradicting : SUBSET Entry,
         status : Status, confidence : Unit, evidence_count : Nat,
         reinforcement_count : Nat, updated_at : Nat]]
  <2>1. PICK supporting \in [Lesson -> InitSupport], contradicting \in [Lesson -> {{}}] :
          lessons = [l \in Lesson |->
            [supporting |-> supporting[l], contradicting |-> contradicting[l],
             status |-> "Active", confidence |-> 50, evidence_count |-> 1,
             reinforcement_count |-> 0, updated_at |-> 0]]
    BY DEF Init
  <2>2. \A l \in Lesson : supporting[l] \in SUBSET Entry /\ contradicting[l] \in SUBSET Entry
    BY InitAssumption
  <2> QED BY <2>1, <2>2 DEF Status, Unit
<1>4. traits \in [Trait -> SUBSET Entry]
  BY InitAssumption DEF Init
<1>5. checkpoints \in Seq([node_ids : SUBSET Node, lesson_ids : SUBSET Lesson,
                           created_at : Nat])
  BY EmptySeq DEF Init
<1>6. /\ recall_counts \in [Node -> Nat]
      /\ similar \subseteq Pairs
      /\ job \in 0..Len(Jobs)
      /\ now \in Nat
      /\ left_index \in 1..(NumNodes + 1)
      /\ right_index \in 0..(NumNodes + 1)
      /\ archived_ids \subseteq Node
      /\ runs \in Nat
      /\ last_decay \in [Edge -> Nat]
      /\ quiet_passes \in 0..NumNodes
  BY SizesAssumption, JobsAssumption DEF Init
<1>7. CursorInv
  BY DEF Init, CursorInv, Running
<1> QED BY <1>1, <1>2, <1>3, <1>4, <1>5, <1>6, <1>7 DEF TypeOK

(* The jobs that are one step. *)
LEMMA StepType ==
  ASSUME TypeOK, CursorInv, Next
  PROVE  TypeOK' /\ CursorInv'
<1>1. CASE StartRun
  <2>1. now' \in Nat
    BY <1>1, BoundsAssumption DEF StartRun, TypeOK
  <2>2. job' \in 0..Len(Jobs)
    BY <1>1, JobsAssumption DEF StartRun
  <2> QED BY <1>1, <2>1, <2>2 DEF StartRun, TypeOK, CursorInv, Running, state, cursor
<1>2. ASSUME NEW n \in Node, Recall(n)
      PROVE  TypeOK' /\ CursorInv'
  BY <1>2 DEF Recall, TypeOK, CursorInv, Running, state, cursor, history
<1>3. CASE RunCheckpointGeneration
  <2>1. job' \in 0..Len(Jobs)
    BY <1>3, NextJobType DEF RunCheckpointGeneration, Running
  <2>2. CheckpointNodes \subseteq Node /\ CheckpointLessons \subseteq Lesson
    BY DEF CheckpointNodes, CheckpointLessons, Take
  <2>3. checkpoints' \in Seq([node_ids : SUBSET Node, lesson_ids : SUBSET Lesson,
                              created_at : Nat])
    <3>1. [node_ids |-> CheckpointNodes, lesson_ids |-> CheckpointLessons, created_at |-> now]
            \in [node_ids : SUBSET Node, lesson_ids : SUBSET Lesson, created_at : Nat]
      BY <2>2 DEF TypeOK
    <3> QED BY <1>3, <3>1, AppendProperties DEF RunCheckpointGeneration, TypeOK
  <2>4. ~Running("DuplicateMerging")
    BY <1>3 DEF RunCheckpointGeneration, Running
  <2> QED BY <1>3, <2>1, <2>3, <2>4
          DEF RunCheckpointGeneration, TypeOK, CursorInv, cursor, history
<1>4. CASE MergeLeft
  <2>1. /\ left_index \in Node /\ right_index = 0
        /\ left_index' \in 1..(NumNodes + 1)
        /\ right_index' \in 0..(NumNodes + 1)
        /\ right_index' # 0 => left_index' = left_index /\ left_index < right_index'
    <3>1. NumNodes \in Nat /\ left_index \in 1..NumNodes /\ right_index = 0
      BY <1>4, SizesAssumption DEF MergeLeft, Node
    <3>2. \/ left_index' = left_index + 1 /\ right_index' = right_index
          \/ right_index' = left_index + 1 /\ left_index' = left_index
      BY <1>4 DEF MergeLeft
    <3> QED BY <3>1, <3>2 DEF Node
  <2>2. UNCHANGED <<state, recall_counts, similar, job, now, archived_ids, history>>
    BY <1>4 DEF MergeLeft
  <2>3. TypeOK'
    BY <2>1, <2>2 DEF TypeOK, state, history
  <2>4. CursorInv'
    BY <1>4, <2>1, <2>2 DEF MergeLeft, CursorInv, Running
  <2> QED BY <2>3, <2>4
<1>5. CASE MergeSkip
  <2>1. /\ right_index' = right_index + 1
        /\ right_index' \in 0..(NumNodes + 1)
        /\ right_index \in Node /\ left_index \in Node
        /\ left_index < right_index'
    BY <1>5, SizesAssumption DEF MergeSkip, CursorInv, Node
  <2>2. UNCHANGED <<state, recall_counts, similar, job, now, left_index,
                    archived_ids, history>>
    BY <1>5 DEF MergeSkip
  <2>3. TypeOK'
    BY <2>1, <2>2 DEF TypeOK, state, history
  <2>4. CursorInv'
    BY <1>5, <2>1, <2>2 DEF MergeSkip, CursorInv, Running
  <2> QED BY <2>3, <2>4
<1>6. CASE MergePair
  <2>1. left_index \in Node /\ right_index \in Node /\ right_index # 0
    BY <1>6 DEF MergePair, CursorInv, Node
  <2>2. PICK a \in Node, s \in Node : MergeInto(a, s)
    BY <1>6, <2>1, MergePairCases
  <2>3. /\ right_index' = right_index + 1
        /\ right_index' \in 0..(NumNodes + 1)
    BY <1>6, <2>1, SizesAssumption DEF MergePair, Node
  <2>4. UNCHANGED <<checkpoints, recall_counts, similar, job, now, left_index, history>>
    BY <1>6 DEF MergePair
  <2>5. TypeOK'
    BY <2>2, <2>3, <2>4, MergeIntoType DEF TypeOK, history
  <2>6. CursorInv'
    BY <1>6, <2>1, <2>3, <2>4 DEF CursorInv, MergePair, Running, Node
  <2> QED BY <2>5, <2>6
<1>7. CASE MergeNextLeft
  <2>1. NumNodes \in Nat /\ left_index \in 1..NumNodes
    BY <1>7, SizesAssumption DEF MergeNextLeft, CursorInv, Node
  <2>2. /\ left_index' \in 1..(NumNodes + 1) /\ right_index' \in 0..(NumNodes + 1)
        /\ right_index' = 0 /\ Running("DuplicateMerging") /\ job' = job
    BY <1>7, <2>1 DEF MergeNextLeft
  <2>3. CursorInv'
    BY <2>2 DEF CursorInv, Running
  <2>4. TypeOK'
    BY <1>7, <2>2 DEF MergeNextLeft, TypeOK, state, history
  <2> QED BY <2>3, <2>4
<1>8. CASE MergeReturns
  <2>1. job' \in 0..Len(Jobs)
    BY <1>8, NextJobType DEF MergeReturns, Running
  <2>2. left_index' \in 1..(NumNodes + 1)
    BY <1>8, SizesAssumption DEF MergeReturns
  <2>3. quiet_passes' \in 0..NumNodes
    BY <1>8, SizesAssumption DEF MergeReturns, TypeOK, Lower
  <2> QED BY <1>8, <2>1, <2>2, <2>3 DEF MergeReturns, TypeOK, CursorInv, state
<1>9. CASE RunWeakEdgeDecay
  <2>1. job' \in 0..Len(Jobs)
    BY <1>9, NextJobType DEF RunWeakEdgeDecay, Running
  <2>2. edges' \in [Edge -> [from : Node, to : Node, weight : Unit, updated_at : Nat]]
    <3> SUFFICES ASSUME NEW e \in Edge
                 PROVE  Decayed(edges[e]) \in
                          [from : Node, to : Node, weight : Unit, updated_at : Nat]
      BY <1>9 DEF RunWeakEdgeDecay, TypeOK
    <3>1. edges[e] \in [from : Node, to : Node, weight : Unit, updated_at : Nat]
      BY DEF TypeOK
    <3>2. Higher(edges[e].weight - WeakEdgeDecay, 0) \in Unit
      <4>1. edges[e].weight \in 0..100 /\ WeakEdgeDecay \in 0..100
        BY <3>1, PolicyAssumption DEF Unit
      <4>2. \A x, y \in 0..100 : Higher(x - y, 0) \in 0..100
        BY DEF Higher
      <4> QED BY <4>1, <4>2 DEF Unit
    <3>3. now \in Nat
      BY DEF TypeOK
    <3> QED BY <3>1, <3>2, <3>3 DEF Decayed
  <2>3. last_decay' \in [Edge -> Nat]
    BY <1>9 DEF RunWeakEdgeDecay, TypeOK
  <2>4. ~Running("DuplicateMerging")
    BY <1>9 DEF RunWeakEdgeDecay, Running
  <2> QED BY <1>9, <2>1, <2>2, <2>3, <2>4
          DEF RunWeakEdgeDecay, TypeOK, CursorInv, cursor
<1>10. CASE RunArchiveIsolatedWeakNodes
  <2>1. job' \in 0..Len(Jobs)
    BY <1>10, NextJobType DEF RunArchiveIsolatedWeakNodes, Running
  <2>2. nodes' \in [Node -> [status : Status, importance : Unit,
                            confidence : Unit, updated_at : Nat]]
    BY <1>10, ArchivedType DEF RunArchiveIsolatedWeakNodes, TypeOK
  <2>3. ~Running("DuplicateMerging")
    BY <1>10 DEF RunArchiveIsolatedWeakNodes, Running
  <2> QED BY <1>10, <2>1, <2>2, <2>3
          DEF RunArchiveIsolatedWeakNodes, TypeOK, CursorInv, cursor, history
<1>11. CASE RunLessonReinforcement
  <2>1. job' \in 0..Len(Jobs)
    BY <1>11, NextJobType DEF RunLessonReinforcement, Running
  <2>2. lessons' \in [Lesson ->
          [supporting : SUBSET Entry, contradicting : SUBSET Entry,
           status : Status, confidence : Unit, evidence_count : Nat,
           reinforcement_count : Nat, updated_at : Nat]]
    <3> SUFFICES ASSUME NEW l \in Lesson
                 PROVE  lessons'[l] \in
                          [supporting : SUBSET Entry, contradicting : SUBSET Entry,
                           status : Status, confidence : Unit, evidence_count : Nat,
                           reinforcement_count : Nat, updated_at : Nat]
      BY <1>11 DEF RunLessonReinforcement
    <3>1. lessons[l] \in [supporting : SUBSET Entry, contradicting : SUBSET Entry,
                          status : Status, confidence : Unit, evidence_count : Nat,
                          reinforcement_count : Nat, updated_at : Nat]
      BY DEF TypeOK
    <3>2. SupportCount(l) \in Nat
      BY SupportCountIsNat
    <3>3. Lower(lessons[l].confidence + LessonIncrement, 100) \in Unit
      BY <3>1, LowerUnit, PolicyAssumption
    <3>4. now \in Nat /\ "Reinforced" \in Status
      BY DEF TypeOK, Status
    <3>5. Reinforced(lessons[l], SupportCount(l)) \in
            [supporting : SUBSET Entry, contradicting : SUBSET Entry,
             status : Status, confidence : Unit, evidence_count : Nat,
             reinforcement_count : Nat, updated_at : Nat]
      <4>1. /\ lessons[l].evidence_count + SupportCount(l) \in Nat
            /\ lessons[l].reinforcement_count + 1 \in Nat
        BY <3>1, <3>2
      <4>2. Reinforced(lessons[l], SupportCount(l)) =
              [lessons[l] EXCEPT
                 !.reinforcement_count = lessons[l].reinforcement_count + 1,
                 !.evidence_count      = lessons[l].evidence_count + SupportCount(l),
                 !.confidence          = Lower(lessons[l].confidence + LessonIncrement, 100),
                 !.status              = "Reinforced",
                 !.updated_at          = now]
        BY DEF Reinforced
      <4> HIDE DEF SupportCount, Reinforced, Lower
      <4> QED BY <3>1, <3>3, <3>4, <4>1, <4>2
    <3> QED BY <1>11, <3>1, <3>5 DEF RunLessonReinforcement
  <2>3. ~Running("DuplicateMerging")
    BY <1>11 DEF RunLessonReinforcement, Running
  <2> QED BY <1>11, <2>1, <2>2, <2>3
          DEF RunLessonReinforcement, TypeOK, CursorInv, cursor, history
<1>12. CASE RunReconsolidation
  <2>1. job' \in 0..Len(Jobs)
    BY <1>12, NextJobType DEF RunReconsolidation, Running
  <2>2. nodes' \in [Node -> [status : Status, importance : Unit,
                            confidence : Unit, updated_at : Nat]]
    <3> SUFFICES ASSUME NEW n \in Node
                 PROVE  Reconsolidated(nodes[n]) \in
                          [status : Status, importance : Unit,
                           confidence : Unit, updated_at : Nat]
      BY <1>12 DEF RunReconsolidation, TypeOK
    <3>1. nodes[n] \in [status : Status, importance : Unit,
                        confidence : Unit, updated_at : Nat]
      BY DEF TypeOK
    <3>2. Lower(nodes[n].confidence + ConfidenceIncrement, 100) \in Unit
      BY <3>1, LowerUnit, PolicyAssumption
    <3>3. Lower(nodes[n].importance + ImportanceIncrement, 100) \in Unit
      BY <3>1, LowerUnit, PolicyAssumption
    <3>4. now \in Nat /\ "Reinforced" \in Status
      BY DEF TypeOK, Status
    <3> QED BY <3>1, <3>2, <3>3, <3>4 DEF Reconsolidated
  <2>3. quiet_passes' \in 0..NumNodes
    BY <1>12, SizesAssumption DEF RunReconsolidation, TypeOK
  <2>4. ~Running("DuplicateMerging")
    BY <1>12 DEF RunReconsolidation, Running
  <2> QED BY <1>12, <2>1, <2>2, <2>3, <2>4
          DEF RunReconsolidation, TypeOK, CursorInv, cursor
<1> QED BY <1>1, <1>2, <1>3, <1>4, <1>5, <1>6, <1>7, <1>8, <1>9, <1>10, <1>11, <1>12
        DEF Next

LEMMA StutterType ==
  ASSUME TypeOK, CursorInv, UNCHANGED vars
  PROVE  TypeOK' /\ CursorInv'
BY DEF TypeOK, CursorInv, Running, vars, state, cursor, history

(* Every state is a SleepState whose scores and weights stay within [0,1], *)
(* and the merging job leaves its cursor as a fresh call finds it.         *)
THEOREM TypeCorrect == Spec => [](TypeOK /\ CursorInv)
<1>1. Init => TypeOK /\ CursorInv
  BY InitType
<1>2. TypeOK /\ CursorInv /\ [Next]_vars => TypeOK' /\ CursorInv'
  BY StepType, StutterType
<1> QED BY <1>1, <1>2, PTL DEF Spec

-----------------------------------------------------------------------------
(* The double loop misses no pair. *)

(* The loop has been past the pair of nodes a < b. *)
Compared(a, b) == a < left_index \/ (a = left_index /\ b < right_index)

(* Of every two duplicates the loop has been past one is in archived_ids,  *)
(* and what is in archived_ids is Archived.                                *)
LoopInv ==
  /\ \A a, b \in Node : a < b /\ Compared(a, b) /\ Similar(a, b) =>
       a \in archived_ids \/ b \in archived_ids
  /\ \A a \in archived_ids : nodes[a].status = "Archived"

PassInv == LoopInv /\ StrongNodesDiffer

(* Before the loop starts it has been past no pair. *)
LEMMA FreshLoop ==
  ASSUME left_index = 1, right_index = 0, archived_ids = {}
  PROVE  LoopInv
BY SizesAssumption DEF LoopInv, Compared, Node

LEMMA FreshLoopNext ==
  ASSUME left_index' = 1, right_index' = 0, archived_ids' = {}
  PROVE  LoopInv'
BY SizesAssumption DEF LoopInv, Compared, Node

(* A merging pass precedes the next job only if it precedes this one or is *)
(* this one, and this one leaves the scores alone.                         *)
LEMMA MergedBeforeNext ==
  ASSUME TypeOK, NextJob, job # 0, MergedBefore'
  PROVE  /\ MergedBefore \/ Jobs[job] = "DuplicateMerging"
         /\ Jobs[job] # "Reconsolidation"
<1>1. job \in 1..Len(Jobs) /\ Len(Jobs) \in Nat
  BY JobsAssumption DEF TypeOK
<1>2. job' = job + 1
  BY DEF NextJob, MergedBefore
<1>3. PICK j \in 1..job : /\ Jobs[j] = "DuplicateMerging"
                          /\ \A k \in (j + 1)..job : Jobs[k] # "Reconsolidation"
  BY <1>1, <1>2 DEF MergedBefore
<1>4. CASE j = job
  BY <1>3, <1>4
<1>5. CASE j # job
  <2>1. j \in 1..(job - 1) /\ job \in (j + 1)..job
    BY <1>1, <1>5
  <2>2. \A k \in (j + 1)..(job - 1) : Jobs[k] # "Reconsolidation"
    BY <1>1, <1>3
  <2> QED BY <1>3, <2>1, <2>2 DEF MergedBefore
<1> QED BY <1>4, <1>5

(* A single-step job that makes no node Active or Reinforced keeps the     *)
(* nodes that are so different from each other.                            *)
LEMMA JobKeepsDifference ==
  ASSUME TypeOK, StrongNodesDiffer, NextJob, job # 0, UNCHANGED similar,
         ~Running("DuplicateMerging"),
         Jobs[job] # "Reconsolidation" =>
           \A n \in Node : Strong(n)' => Strong(n)
  PROVE  StrongNodesDiffer'
<1> SUFFICES ASSUME MergedBefore', NEW a \in Node, NEW b \in Node, Strong(a)', Strong(b)'
             PROVE  ~Similar(a, b)'
  BY DEF StrongNodesDiffer
<1>1. MergedBefore /\ Jobs[job] # "Reconsolidation"
  BY MergedBeforeNext DEF Running
<1>2. Strong(a) /\ Strong(b)
  BY <1>1
<1> QED BY <1>1, <1>2 DEF StrongNodesDiffer, Similar

(* No node is its own duplicate. *)
LEMMA NotOwnDuplicate ==
  ASSUME TypeOK, NEW a \in Node
  PROVE  ~Similar(a, a)
<1> SUFFICES ASSUME Similar(a, a) PROVE FALSE
  OBVIOUS
<1>1. Cardinality({a}) = 1
  BY FS_Singleton
<1>2. {a, a} = {a}
  OBVIOUS
<1>3. {a} \in Pairs
  BY <1>2 DEF Similar, TypeOK
<1>4. Cardinality({a}) = 2
  BY <1>3 DEF Pairs
<1> QED BY <1>1, <1>4

LEMMA MergePairLoop ==
  ASSUME TypeOK, CursorInv, PassInv, MergePair
  PROVE  PassInv'
<1>1. left_index \in Node /\ right_index \in Node /\ left_index < right_index
  BY DEF MergePair, CursorInv, Node
<1>2. PICK x \in {left_index, right_index}, s \in Node : MergeInto(x, s)
  BY <1>1, MergePairCases
<1>3. archived_ids' = archived_ids \union {x} /\ nodes' = [nodes EXCEPT ![x] = Archived(@)]
  BY <1>2 DEF MergeInto
<1>4. left_index' = left_index /\ right_index' = right_index + 1 /\ UNCHANGED <<similar, job>>
  BY DEF MergePair
<1>5. \A n \in Node : nodes'[n].status = IF n = x THEN "Archived" ELSE nodes[n].status
  <2>1. \A n \in Node : nodes[n] \in [status : Status, importance : Unit,
                                      confidence : Unit, updated_at : Nat]
    BY DEF TypeOK
  <2>2. Archived(nodes[x]).status = "Archived"
    BY <1>1, <1>2, <2>1 DEF Archived
  <2> QED BY <1>1, <1>2, <1>3, <2>2 DEF TypeOK
<1>6. LoopInv'
  <2>1. ASSUME NEW a \in Node, NEW b \in Node, a < b, Compared(a, b)', Similar(a, b)'
        PROVE  a \in archived_ids' \/ b \in archived_ids'
    <3>1. Compared(a, b) \/ (a = left_index /\ b = right_index)
      BY <1>1, <1>4, <2>1 DEF Compared, Node
    <3>2. Similar(a, b)
      BY <1>4, <2>1 DEF Similar
    <3> QED BY <1>2, <1>3, <2>1, <3>1, <3>2 DEF PassInv, LoopInv
  <2>2. ASSUME NEW a \in archived_ids'
        PROVE  nodes'[a].status = "Archived"
    BY <1>1, <1>2, <1>3, <1>5, <2>2 DEF PassInv, LoopInv, TypeOK
  <2> QED BY <2>1, <2>2 DEF LoopInv
<1>7. StrongNodesDiffer'
  <2>1. \A n \in Node : Strong(n)' => Strong(n)
    BY <1>5 DEF Strong
  <2>2. MergedBefore' => MergedBefore
    BY <1>4 DEF MergedBefore
  <2> QED BY <1>4, <2>1, <2>2 DEF PassInv, StrongNodesDiffer, Similar
<1> QED BY <1>6, <1>7 DEF PassInv

LEMMA StepPass ==
  ASSUME TypeOK, CursorInv, PassInv, Next, TypeOK'
  PROVE  PassInv'
<1>1. CASE StartRun
  <2>1. LoopInv'
    BY <1>1, FreshLoopNext DEF StartRun, CursorInv, Running, cursor
  <2>2. ~MergedBefore'
    BY <1>1 DEF StartRun, MergedBefore
  <2> QED BY <2>1, <2>2 DEF PassInv, StrongNodesDiffer
<1>2. ASSUME NEW n \in Node, Recall(n)
      PROVE  PassInv'
  <2>1. LoopInv'
    BY <1>2, FreshLoopNext DEF Recall, CursorInv, Running, cursor
  <2>2. ~MergedBefore'
    BY <1>2 DEF Recall, MergedBefore
  <2> QED BY <2>1, <2>2 DEF PassInv, StrongNodesDiffer
<1>3. CASE RunCheckpointGeneration
  <2>1. /\ NextJob /\ job # 0 /\ UNCHANGED <<nodes, similar, cursor>>
        /\ ~Running("DuplicateMerging")
    BY <1>3 DEF RunCheckpointGeneration, Running
  <2>2. LoopInv'
    BY <2>1, FreshLoopNext DEF CursorInv, cursor
  <2>3. \A n \in Node : Strong(n)' => Strong(n)
    BY <2>1 DEF Strong
  <2> QED BY <2>1, <2>2, <2>3, JobKeepsDifference DEF PassInv
<1>4. CASE MergeLeft
  <2>1. /\ right_index = 0 /\ left_index \in Node
        /\ \/ left_index \in archived_ids /\ left_index' = left_index + 1 /\ right_index' = 0
           \/ left_index' = left_index /\ right_index' = left_index + 1
        /\ UNCHANGED <<nodes, similar, job, archived_ids>>
    BY <1>4 DEF MergeLeft, state
  <2>2. LoopInv'
    <3>1. ASSUME NEW a \in Node, NEW b \in Node, a < b, Compared(a, b)', Similar(a, b)'
          PROVE  a \in archived_ids' \/ b \in archived_ids'
      <4>1. Compared(a, b) \/ (a = left_index /\ left_index \in archived_ids)
        BY <2>1, <3>1 DEF Compared, Node
      <4> QED BY <2>1, <3>1, <4>1 DEF PassInv, LoopInv, Similar
    <3> QED BY <2>1, <3>1 DEF PassInv, LoopInv
  <2> QED BY <2>1, <2>2 DEF PassInv, StrongNodesDiffer, MergedBefore, Strong, Similar
<1>5. CASE MergeSkip
  <2>1. /\ right_index \in Node /\ right_index' = right_index + 1
        /\ right_index \in archived_ids \/ ~Similar(left_index, right_index)
        /\ left_index \in Node
        /\ UNCHANGED <<nodes, similar, job, left_index, archived_ids>>
    BY <1>5 DEF MergeSkip, state, CursorInv, Node
  <2>2. LoopInv'
    <3>1. ASSUME NEW a \in Node, NEW b \in Node, a < b, Compared(a, b)', Similar(a, b)'
          PROVE  a \in archived_ids' \/ b \in archived_ids'
      <4>1. Compared(a, b) \/ (a = left_index /\ b = right_index)
        BY <2>1, <3>1 DEF Compared, Node
      <4> QED BY <2>1, <3>1, <4>1 DEF PassInv, LoopInv, Similar
    <3> QED BY <2>1, <3>1 DEF PassInv, LoopInv
  <2> QED BY <2>1, <2>2 DEF PassInv, StrongNodesDiffer, MergedBefore, Strong, Similar
<1>6. CASE MergePair
  BY <1>6, MergePairLoop
<1>7. CASE MergeNextLeft
  <2>1. /\ right_index > NumNodes /\ left_index' = left_index + 1 /\ right_index' = 0
        /\ left_index \in Nat /\ right_index \in Nat
        /\ UNCHANGED <<nodes, similar, job, archived_ids>>
    BY <1>7 DEF MergeNextLeft, state, TypeOK
  <2>2. LoopInv'
    <3>1. ASSUME NEW a \in Node, NEW b \in Node, a < b, Compared(a, b)', Similar(a, b)'
          PROVE  a \in archived_ids' \/ b \in archived_ids'
      <4>1. Compared(a, b)
        BY <2>1, <3>1, SizesAssumption DEF Compared, Node
      <4> QED BY <2>1, <3>1, <4>1 DEF PassInv, LoopInv, Similar
    <3> QED BY <2>1, <3>1 DEF PassInv, LoopInv
  <2> QED BY <2>1, <2>2 DEF PassInv, StrongNodesDiffer, MergedBefore, Strong, Similar
<1>8. CASE MergeReturns
  <2>1. /\ left_index > NumNodes /\ right_index = 0 /\ left_index \in Nat
        /\ left_index' = 1 /\ right_index' = 0 /\ archived_ids' = {}
        /\ UNCHANGED <<nodes, similar>>
    BY <1>8 DEF MergeReturns, state, TypeOK
  <2>2. LoopInv'
    BY <2>1, FreshLoopNext
  <2>3. ASSUME NEW a \in Node, NEW b \in Node, Strong(a), Strong(b), a < b
        PROVE  ~Similar(a, b)
    <3>1. Compared(a, b)
      BY <2>1, SizesAssumption DEF Compared, Node
    <3>2. a \notin archived_ids /\ b \notin archived_ids
      BY <2>3 DEF PassInv, LoopInv, Strong
    <3> QED BY <2>3, <3>1, <3>2 DEF PassInv, LoopInv
  <2>4. ASSUME NEW a \in Node, NEW b \in Node, Strong(a)', Strong(b)'
        PROVE  ~Similar(a, b)'
    <3>1. Strong(a) /\ Strong(b)
      BY <2>1, <2>4 DEF Strong
    <3>2. CASE a = b
      BY <2>1, <3>2, NotOwnDuplicate DEF Similar
    <3>3. CASE a < b
      BY <2>1, <2>3, <3>1, <3>3 DEF Similar
    <3>4. CASE b < a
      <4>1. {a, b} = {b, a}
        OBVIOUS
      <4> QED BY <2>1, <2>3, <3>1, <3>4, <4>1 DEF Similar
    <3> QED BY <3>2, <3>3, <3>4, SizesAssumption DEF Node
  <2> QED BY <2>2, <2>4 DEF PassInv, StrongNodesDiffer
<1>9. CASE RunWeakEdgeDecay
  <2>1. /\ NextJob /\ job # 0 /\ UNCHANGED <<nodes, similar, cursor>>
        /\ ~Running("DuplicateMerging")
    BY <1>9 DEF RunWeakEdgeDecay, Running
  <2>2. LoopInv'
    BY <2>1, FreshLoopNext DEF CursorInv, cursor
  <2>3. \A n \in Node : Strong(n)' => Strong(n)
    BY <2>1 DEF Strong
  <2> QED BY <2>1, <2>2, <2>3, JobKeepsDifference DEF PassInv
<1>10. CASE RunArchiveIsolatedWeakNodes
  <2>1. /\ NextJob /\ job # 0 /\ UNCHANGED <<similar, cursor>>
        /\ ~Running("DuplicateMerging")
    BY <1>10 DEF RunArchiveIsolatedWeakNodes, Running
  <2>2. LoopInv'
    BY <2>1, FreshLoopNext DEF CursorInv, cursor
  <2>3. ASSUME NEW n \in Node, Strong(n)'
        PROVE  Strong(n)
    <3>1. nodes'[n] = IF IsolatedAndWeak(n) THEN Archived(nodes[n]) ELSE nodes[n]
      BY <1>10 DEF RunArchiveIsolatedWeakNodes
    <3>2. Archived(nodes[n]).status = "Archived"
      BY DEF Archived, TypeOK
    <3> QED BY <2>3, <3>1, <3>2 DEF Strong
  <2> QED BY <2>1, <2>2, <2>3, JobKeepsDifference DEF PassInv
<1>11. CASE RunLessonReinforcement
  <2>1. /\ NextJob /\ job # 0 /\ UNCHANGED <<nodes, similar, cursor>>
        /\ ~Running("DuplicateMerging")
    BY <1>11 DEF RunLessonReinforcement, Running
  <2>2. LoopInv'
    BY <2>1, FreshLoopNext DEF CursorInv, cursor
  <2>3. \A n \in Node : Strong(n)' => Strong(n)
    BY <2>1 DEF Strong
  <2> QED BY <2>1, <2>2, <2>3, JobKeepsDifference DEF PassInv
<1>12. CASE RunReconsolidation
  <2>1. /\ NextJob /\ job # 0 /\ UNCHANGED <<similar, cursor>>
        /\ ~Running("DuplicateMerging")
        /\ Jobs[job] = "Reconsolidation"
    BY <1>12 DEF RunReconsolidation, Running
  <2>2. LoopInv'
    BY <2>1, FreshLoopNext DEF CursorInv, cursor
  <2> QED BY <2>1, <2>2, JobKeepsDifference DEF PassInv
<1> QED BY <1>1, <1>2, <1>3, <1>4, <1>5, <1>6, <1>7, <1>8, <1>9, <1>10, <1>11, <1>12
        DEF Next

(* After a merging pass the Active and Reinforced nodes are pairwise no    *)
(* duplicates, whatever nodes the state holds, however alike they are and  *)
(* whatever jobs the runner was given.                                     *)
THEOREM DuplicatesMerged == Spec => []StrongNodesDiffer
<1>1. Init => PassInv
  <2> SUFFICES ASSUME Init PROVE PassInv
    OBVIOUS
  <2>1. LoopInv
    BY FreshLoop DEF Init
  <2>2. ~MergedBefore
    BY DEF Init, MergedBefore
  <2> QED BY <2>1, <2>2 DEF PassInv, StrongNodesDiffer
<1>2. TypeOK /\ CursorInv /\ PassInv /\ UNCHANGED vars => PassInv'
  BY DEF PassInv, LoopInv, Compared, StrongNodesDiffer, MergedBefore, Strong, Similar,
         vars, state, cursor
<1>3. (TypeOK /\ CursorInv) /\ PassInv /\ [Next]_vars /\ (TypeOK /\ CursorInv)' => PassInv'
  BY <1>2, StepPass
<1>4. PassInv => StrongNodesDiffer
  BY DEF PassInv
<1> QED BY <1>1, <1>3, <1>4, TypeCorrect, PTL DEF Spec

-----------------------------------------------------------------------------
(* What a step may never do. *)

LEMMA ScoreIsInt ==
  ASSUME TypeOK, NEW n \in Node
  PROVE  /\ nodes[n].importance \in Int
         /\ nodes[n].confidence \in Int
         /\ Score(n) \in Int
<1>1. nodes[n] \in [status : Status, importance : Unit, confidence : Unit, updated_at : Nat]
  BY DEF TypeOK
<1>2. nodes[n].importance \in Unit /\ nodes[n].confidence \in Unit
  BY <1>1
<1>3. \A u \in Unit : u \in Int
  BY DEF Unit
<1>4. nodes[n].importance \in Int /\ nodes[n].confidence \in Int
  BY <1>2, <1>3
<1> QED BY <1>4 DEF Score

(* A merging step merges one node of the pair into a better duplicate. *)
LEMMA MergeStep ==
  ASSUME TypeOK, CursorInv, MergePair
  PROVE  \E a, s \in Node : /\ MergeInto(a, s)
                            /\ Similar(s, a)
                            /\ Outranks(s, a)
<1>1. left_index \in Node /\ right_index \in Node /\ left_index < right_index
  BY DEF MergePair, CursorInv, Node
<1>2. Similar(left_index, right_index) /\ Similar(right_index, left_index)
  <2>1. {left_index, right_index} = {right_index, left_index}
    OBVIOUS
  <2> QED BY <2>1 DEF MergePair, Similar
<1>3. Score(left_index) \in Int /\ Score(right_index) \in Int
  BY <1>1, ScoreIsInt
<1>4. CASE Score(right_index) > Score(left_index)
  <2>1. MergeInto(left_index, right_index)
    BY <1>1, <1>3, <1>4, MergePairCases
  <2>2. Outranks(right_index, left_index)
    BY <1>4 DEF Outranks
  <2> QED BY <1>1, <1>2, <2>1, <2>2
<1>5. CASE ~(Score(right_index) > Score(left_index))
  <2>1. MergeInto(right_index, left_index)
    BY <1>1, <1>3, <1>5, MergePairCases
  <2>2. Outranks(left_index, right_index)
    BY <1>1, <1>3, <1>5 DEF Outranks
  <2> QED BY <1>1, <1>2, <2>1, <2>2
<1> QED BY <1>4, <1>5

LEMMA MergedStatus ==
  ASSUME TypeOK, NEW a \in Node, NEW s \in Node, MergeInto(a, s)
  PROVE  \A n \in Node : nodes'[n].status = IF n = a THEN "Archived" ELSE nodes[n].status
<1>1. \A n \in Node : nodes[n] \in [status : Status, importance : Unit,
                                    confidence : Unit, updated_at : Nat]
  BY DEF TypeOK
<1>2. Archived(nodes[a]).status = "Archived"
  BY <1>1 DEF Archived
<1> QED BY <1>2 DEF MergeInto, TypeOK

ArchivesForCause ==
  \A n \in Node :
    nodes[n].status # "Archived" /\ nodes'[n].status = "Archived" =>
      \/ \E m \in Node : Similar(m, n) /\ Outranks(m, n)
      \/ ~Connected(n) /\ Score(n) < IsolatedImportance + IsolatedConfidence

(* The theorem behind ArchivedForCause: nothing but a better duplicate or  *)
(* being isolated and weak gets a node archived.                           *)
THEOREM OnlyForCause == Spec => ArchivedForCause
<1>1. ASSUME TypeOK, CursorInv, Next
      PROVE  ArchivesForCause
  <2> SUFFICES ASSUME NEW n \in Node, nodes[n].status # "Archived",
                      nodes'[n].status = "Archived"
               PROVE  \/ \E m \in Node : Similar(m, n) /\ Outranks(m, n)
                      \/ /\ ~Connected(n)
                         /\ Score(n) < IsolatedImportance + IsolatedConfidence
    BY DEF ArchivesForCause
  <2>1. CASE MergePair
    <3>1. PICK a \in Node, s \in Node :
            MergeInto(a, s) /\ Similar(s, a) /\ Outranks(s, a)
      BY <1>1, <2>1, MergeStep
    <3>2. n = a
      BY <1>1, <3>1, MergedStatus
    <3> QED BY <3>1, <3>2
  <2>2. CASE RunArchiveIsolatedWeakNodes
    <3>1. IsolatedAndWeak(n)
      BY <2>2 DEF RunArchiveIsolatedWeakNodes
    <3>2. nodes[n].importance \in Int /\ nodes[n].confidence \in Int
      BY <1>1, ScoreIsInt
    <3>3. IsolatedImportance \in Int /\ IsolatedConfidence \in Int
      BY PolicyAssumption DEF Unit
    <3> QED BY <3>1, <3>2, <3>3 DEF IsolatedAndWeak, Score
  <2>3. CASE RunReconsolidation
    <3>1. nodes'[n] = IF Reconsolidates(n) THEN Reconsolidated(nodes[n]) ELSE nodes[n]
      BY <2>3 DEF RunReconsolidation
    <3>2. Reconsolidated(nodes[n]).status = "Reinforced"
      BY <1>1 DEF Reconsolidated, TypeOK
    <3> QED BY <3>1, <3>2
  <2> QED BY <1>1, <2>1, <2>2, <2>3
          DEF Next, StartRun, Recall, RunCheckpointGeneration, MergeLeft, MergeSkip,
              MergeNextLeft, MergeReturns, RunWeakEdgeDecay, RunLessonReinforcement, state
<1>2. TypeOK /\ CursorInv /\ [Next]_vars => [ArchivesForCause]_vars
  BY <1>1
<1> QED BY <1>2, TypeCorrect, PTL DEF Spec, ArchivedForCause, ArchivesForCause

(* Rewriting a list keeps every node but the merged one, and puts the      *)
(* survivor in its place.                                                  *)
LEMMA ReplaceKeeps ==
  ASSUME NEW list \in SUBSET Entry, NEW a \in Node, NEW s \in Node,
         NEW n \in Listed(list)
  PROVE  \/ n # a /\ n \in Listed(ReplaceNodeId(list, a, s))
         \/ n = a /\ s \in Listed(ReplaceNodeId(list, a, s))
<1>1. PICK entry \in list : entry[1] = n
  BY DEF Listed
<1>2. <<IF entry[1] = a THEN s ELSE entry[1], 1>> \in ReplaceNodeId(list, a, s)
  BY <1>1 DEF ReplaceNodeId
<1>3. CASE n = a
  <2>1. <<s, 1>> \in ReplaceNodeId(list, a, s)
    BY <1>1, <1>2, <1>3
  <2> QED BY <1>3, <2>1 DEF Listed
<1>4. CASE n # a
  <2>1. <<n, 1>> \in ReplaceNodeId(list, a, s)
    BY <1>1, <1>2, <1>4
  <2> QED BY <1>4, <2>1 DEF Listed
<1> QED BY <1>3, <1>4

KeepsEvidence == /\ \A l \in Lesson : Kept(lessons[l].supporting, lessons'[l].supporting)
                 /\ \A t \in Trait : Kept(traits[t], traits'[t])

(* No step of any job loses a supporting memory of a lesson or a trait: it *)
(* stays, or a duplicate of it takes its place.                            *)
THEOREM NoEvidenceLost == Spec => EvidenceKept
<1>1. ASSUME TypeOK, CursorInv, Next
      PROVE  KeepsEvidence
  <2>1. CASE MergePair
    <3>1. PICK a \in Node, s \in Node :
            MergeInto(a, s) /\ Similar(s, a) /\ Outranks(s, a)
      BY <1>1, <2>1, MergeStep
    <3>2. nodes'[a].status = "Archived"
      BY <1>1, <3>1, MergedStatus
    <3>3. ASSUME NEW list \in SUBSET Entry
          PROVE  Kept(list, ReplaceNodeId(list, a, s))
      BY <3>1, <3>2, ReplaceKeeps DEF Kept
    <3>4. ASSUME NEW l \in Lesson
          PROVE  Kept(lessons[l].supporting, lessons'[l].supporting)
      <4>1. lessons[l].supporting \in SUBSET Entry
        BY <1>1 DEF TypeOK
      <4>2. lessons'[l].supporting = ReplaceNodeId(lessons[l].supporting, a, s)
        BY <1>1, <3>1 DEF MergeInto, TypeOK
      <4> QED BY <3>3, <4>1, <4>2
    <3>5. ASSUME NEW t \in Trait
          PROVE  Kept(traits[t], traits'[t])
      BY <1>1, <3>1, <3>3 DEF MergeInto, TypeOK
    <3> QED BY <3>4, <3>5 DEF KeepsEvidence
  <2>2. CASE RunLessonReinforcement
    <3>1. ASSUME NEW l \in Lesson
          PROVE  lessons'[l].supporting = lessons[l].supporting
      <4>1. lessons'[l] = IF Reinforces(l) THEN Reinforced(lessons[l], SupportCount(l))
                          ELSE lessons[l]
        BY <2>2 DEF RunLessonReinforcement
      <4>2. Reinforced(lessons[l], SupportCount(l)).supporting = lessons[l].supporting
        BY <1>1 DEF Reinforced, TypeOK
      <4> QED BY <4>1, <4>2
    <3>2. UNCHANGED traits
      BY <2>2 DEF RunLessonReinforcement
    <3> QED BY <3>1, <3>2 DEF KeepsEvidence, Kept
  <2>3. UNCHANGED <<lessons, traits>> => KeepsEvidence
    BY DEF KeepsEvidence, Kept
  <2> QED BY <1>1, <2>1, <2>2, <2>3
          DEF Next, StartRun, Recall, RunCheckpointGeneration, MergeLeft, MergeSkip,
              MergeNextLeft, MergeReturns, RunWeakEdgeDecay, RunArchiveIsolatedWeakNodes,
              RunReconsolidation, state
<1>2. TypeOK /\ CursorInv /\ [Next]_vars => [KeepsEvidence]_vars
  BY <1>1
<1> QED BY <1>2, TypeCorrect, PTL DEF Spec, EvidenceKept, KeepsEvidence


-----------------------------------------------------------------------------
(* The edges: what a merge does to their ends, and when they decay. *)

EdgeRow == [from : Node, to : Node, weight : Unit, updated_at : Nat]

LEMMA EdgeTyped ==
  ASSUME TypeOK, NEW e \in Edge
  PROVE  /\ edges[e] \in EdgeRow
         /\ edges[e].from \in Node /\ edges[e].to \in Node
         /\ edges[e].weight \in Int /\ edges[e].updated_at \in Int
         /\ now \in Int /\ last_decay[e] \in Int
<1>1. edges[e] \in EdgeRow /\ now \in Nat /\ last_decay[e] \in Nat
  BY DEF TypeOK, EdgeRow
<1>2. edges[e].from \in Node /\ edges[e].to \in Node /\ edges[e].weight \in Unit
      /\ edges[e].updated_at \in Nat
  BY <1>1, Zenon DEF EdgeRow
<1>3. \A u \in Unit : u \in Int
  BY DEF Unit
<1> QED BY <1>1, <1>2, <1>3

(* A merge moves an end of an edge from the merged node to the survivor,   *)
(* and no weight falls except to the cap.                                  *)
LEMMA RedirectFields ==
  ASSUME NEW edge \in EdgeRow, NEW a \in Node, NEW s \in Node, now \in Nat
  PROVE  /\ Redirect(edge, a, s).from = IF edge.from = a THEN s ELSE edge.from
         /\ Redirect(edge, a, s).to = IF edge.to = a THEN s ELSE edge.to
         /\ \/ Redirect(edge, a, s).weight = edge.weight
            \/ Redirect(edge, a, s).weight = WeightMergeCap
         /\ \/ Redirect(edge, a, s).updated_at = edge.updated_at
            \/ Redirect(edge, a, s).updated_at = now
<1>1. CASE a \notin {edge.from, edge.to}
  BY <1>1 DEF Redirect
<1>2. CASE a \in {edge.from, edge.to}
  <2>1. Redirect(edge, a, s) =
          [edge EXCEPT !.from       = IF edge.from = a THEN s ELSE edge.from,
                       !.to         = IF edge.to = a THEN s ELSE edge.to,
                       !.weight     = Lower(edge.weight, WeightMergeCap),
                       !.updated_at = now]
    BY <1>2 DEF Redirect
  <2>2. Lower(edge.weight, WeightMergeCap) \in {edge.weight, WeightMergeCap}
    BY DEF Lower
  <2> HIDE DEF Lower
  <2> QED BY <2>1, <2>2 DEF EdgeRow
<1> QED BY <1>1, <1>2

LEMMA DecayedFields ==
  ASSUME NEW edge \in EdgeRow
  PROVE  /\ Decayed(edge).from = edge.from
         /\ Decayed(edge).to = edge.to
         /\ Decayed(edge).weight = Higher(edge.weight - WeakEdgeDecay, 0)
         /\ Decayed(edge).updated_at = now
BY DEF Decayed, EdgeRow

(* Only a merge moves the ends of an edge. *)
EndsUnmoved ==
  \A e \in Edge : edges'[e].from = edges[e].from /\ edges'[e].to = edges[e].to

LEMMA DecayMovesNoEnd ==
  ASSUME TypeOK, RunWeakEdgeDecay
  PROVE  EndsUnmoved
<1> SUFFICES ASSUME NEW e \in Edge
             PROVE  edges'[e].from = edges[e].from /\ edges'[e].to = edges[e].to
  BY DEF EndsUnmoved
<1>1. edges'[e] = IF Decays(e) THEN Decayed(edges[e]) ELSE edges[e]
  BY DEF RunWeakEdgeDecay
<1> QED BY <1>1, EdgeTyped, DecayedFields

LEMMA EndsMovedByMerge ==
  ASSUME TypeOK, Next
  PROVE  MergePair \/ EndsUnmoved
<1>1. UNCHANGED edges => EndsUnmoved
  BY DEF EndsUnmoved
<1> QED BY <1>1, DecayMovesNoEnd
        DEF Next, StartRun, Recall, RunCheckpointGeneration, MergeLeft, MergeSkip,
            MergeNextLeft, MergeReturns, RunArchiveIsolatedWeakNodes,
            RunLessonReinforcement, RunReconsolidation, state

LEMMA MergedEnds ==
  ASSUME TypeOK, NEW a \in Node, NEW s \in Node, MergeInto(a, s), NEW e \in Edge
  PROVE  /\ edges'[e].from = IF edges[e].from = a THEN s ELSE edges[e].from
         /\ edges'[e].to = IF edges[e].to = a THEN s ELSE edges[e].to
<1>1. edges'[e] = Redirect(edges[e], a, s) /\ now \in Nat
  BY DEF MergeInto, TypeOK
<1> QED BY <1>1, EdgeTyped, RedirectFields

KeepsConnections ==
  \A n \in Node : Connected(n) /\ ~Connected(n)' => nodes'[n].status = "Archived"

(* No step takes the last edge of a node that it does not archive, although*)
(* merging redirects edges at both ends while it goes through the pairs.   *)
THEOREM ConnectionsKept == Spec => MergeKeepsConnections
<1>1. ASSUME TypeOK, CursorInv, Next
      PROVE  KeepsConnections
  <2> SUFFICES ASSUME NEW n \in Node, Connected(n), ~Connected(n)'
               PROVE  nodes'[n].status = "Archived"
    BY DEF KeepsConnections
  <2>1. PICK e \in Edge : n \in {edges[e].from, edges[e].to}
    BY DEF Connected
  <2>2. n \notin {edges'[e].from, edges'[e].to}
    BY DEF Connected
  <2>3. MergePair
    BY <1>1, <2>1, <2>2, EndsMovedByMerge DEF EndsUnmoved
  <2>4. PICK a \in Node, s \in Node : MergeInto(a, s)
    BY <1>1, <2>3, MergeStep
  <2>5. n = a
    BY <1>1, <2>1, <2>2, <2>4, MergedEnds
  <2> QED BY <1>1, <2>4, <2>5, MergedStatus
<1>2. TypeOK /\ CursorInv /\ [Next]_vars => [KeepsConnections]_vars
  BY <1>1
<1> QED BY <1>2, TypeCorrect, PTL DEF Spec, MergeKeepsConnections, KeepsConnections

-----------------------------------------------------------------------------
(* A decay is an update, and the clock does not go back: an edge was last  *)
(* updated when it last decayed or later, but not in the future.           *)
ClockInv == \A e \in Edge : /\ last_decay[e] <= edges[e].updated_at
                            /\ edges[e].updated_at <= now

LEMMA ClockKept ==
  ASSUME TypeOK, CursorInv, ClockInv, Next
  PROVE  ClockInv'
<1> SUFFICES ASSUME NEW e \in Edge
             PROVE  /\ last_decay'[e] <= edges'[e].updated_at
                    /\ edges'[e].updated_at <= now'
  BY DEF ClockInv
<1>0. /\ edges[e] \in EdgeRow /\ edges[e].updated_at \in Int
      /\ now \in Int /\ now \in Nat /\ last_decay[e] \in Int
      /\ last_decay[e] <= edges[e].updated_at /\ edges[e].updated_at <= now
  BY EdgeTyped DEF TypeOK, ClockInv
<1>1. CASE StartRun
  <2>1. PICK days \in Elapsed : now' = now + days
    BY <1>1 DEF StartRun
  <2>2. days \in Nat
    BY BoundsAssumption
  <2>3. UNCHANGED <<edges, last_decay>>
    BY <1>1 DEF StartRun, state
  <2> QED BY <1>0, <2>1, <2>2, <2>3
<1>2. CASE MergePair
  <2>1. PICK a \in Node, s \in Node : MergeInto(a, s)
    BY <1>2, MergeStep
  <2>2. edges'[e] = Redirect(edges[e], a, s)
    BY <2>1 DEF MergeInto
  <2>3. edges'[e].updated_at = edges[e].updated_at \/ edges'[e].updated_at = now
    BY <1>0, <2>1, <2>2, RedirectFields
  <2>4. UNCHANGED <<last_decay, now>>
    BY <1>2 DEF MergePair, history
  <2> QED BY <1>0, <2>3, <2>4
<1>3. CASE RunWeakEdgeDecay
  <2>1. /\ edges'[e] = IF Decays(e) THEN Decayed(edges[e]) ELSE edges[e]
        /\ last_decay'[e] = IF Decays(e) THEN now ELSE last_decay[e]
        /\ now' = now
    BY <1>3 DEF RunWeakEdgeDecay
  <2> QED BY <1>0, <2>1, DecayedFields
<1>4. UNCHANGED <<edges, last_decay, now>> => last_decay'[e] <= edges'[e].updated_at
                                              /\ edges'[e].updated_at <= now'
  BY <1>0
<1> QED BY <1>1, <1>2, <1>3, <1>4
        DEF Next, Recall, RunCheckpointGeneration, MergeLeft, MergeSkip,
            MergeNextLeft, MergeReturns, RunArchiveIsolatedWeakNodes,
            RunLessonReinforcement, RunReconsolidation, state, history

LimitsDecay ==
  \A e \in Edge : edges'[e].weight < edges[e].weight =>
    \/ Running("DuplicateMerging") /\ edges'[e].weight = WeightMergeCap
    \/ /\ now - last_decay[e] > StaleEdgeDays
       /\ edges[e].weight - edges'[e].weight <= WeakEdgeDecay

LEMMA DecayStep ==
  ASSUME TypeOK, CursorInv, ClockInv, Next
  PROVE  LimitsDecay
<1> SUFFICES ASSUME NEW e \in Edge, edges'[e].weight < edges[e].weight
             PROVE  \/ Running("DuplicateMerging") /\ edges'[e].weight = WeightMergeCap
                    \/ /\ now - last_decay[e] > StaleEdgeDays
                       /\ edges[e].weight - edges'[e].weight <= WeakEdgeDecay
  BY DEF LimitsDecay
<1>0. /\ edges[e] \in EdgeRow /\ edges[e].weight \in Int /\ edges[e].updated_at \in Int
      /\ now \in Int /\ now \in Nat /\ last_decay[e] \in Int
      /\ last_decay[e] <= edges[e].updated_at
  BY EdgeTyped DEF TypeOK, ClockInv
<1>1. WeakEdgeDecay \in Nat /\ StaleEdgeDays \in Nat
  BY PolicyAssumption DEF Unit
<1>2. CASE MergePair
  <2>1. PICK a \in Node, s \in Node : MergeInto(a, s)
    BY <1>2, MergeStep
  <2>2. edges'[e] = Redirect(edges[e], a, s)
    BY <2>1 DEF MergeInto
  <2>3. edges'[e].weight = edges[e].weight \/ edges'[e].weight = WeightMergeCap
    BY <1>0, <2>1, <2>2, RedirectFields
  <2> QED BY <1>0, <1>2, <2>3 DEF MergePair
<1>3. CASE RunWeakEdgeDecay
  <2>1. edges'[e] = IF Decays(e) THEN Decayed(edges[e]) ELSE edges[e]
    BY <1>3 DEF RunWeakEdgeDecay
  <2>2. Decays(e) /\ edges'[e].weight = Higher(edges[e].weight - WeakEdgeDecay, 0)
    BY <1>0, <2>1, DecayedFields
  <2> QED BY <1>0, <1>1, <2>2 DEF Decays, Higher
<1>4. ~UNCHANGED edges
  BY <1>0
<1> QED BY <1>2, <1>3, <1>4
        DEF Next, StartRun, Recall, RunCheckpointGeneration, MergeLeft, MergeSkip,
            MergeNextLeft, MergeReturns, RunArchiveIsolatedWeakNodes,
            RunLessonReinforcement, RunReconsolidation, state

(* But for the cap that merging puts on a weight, an edge loses weight once*)
(* in a stale window and by the policy's step at most, in whatever order   *)
(* the jobs run and however often.                                         *)
THEOREM DecayIsLimited == Spec => DecayRateLimited
<1>1. Init => ClockInv
  <2> SUFFICES ASSUME Init, NEW e \in Edge
               PROVE  last_decay[e] <= edges[e].updated_at /\ edges[e].updated_at <= now
    BY DEF ClockInv
  <2>1. PICK ends \in [Edge -> Ends],
             weight \in [Edge -> InitWeight] :
          edges = [f \in Edge |-> [from |-> ends[f][1], to |-> ends[f][2],
                                   weight |-> weight[f], updated_at |-> 0]]
    BY DEF Init
  <2>2. edges[e].updated_at = 0
    BY <2>1
  <2>3. last_decay[e] = 0 /\ now = 0
    BY DEF Init
  <2> QED BY <2>2, <2>3
<1>2. TypeOK /\ CursorInv /\ ClockInv /\ [Next]_vars => ClockInv'
  <2>1. ClockInv /\ UNCHANGED vars => ClockInv'
    BY DEF ClockInv, vars, state, history
  <2> QED BY <2>1, ClockKept
<1>3. TypeOK /\ CursorInv /\ ClockInv /\ [Next]_vars => [LimitsDecay]_vars
  BY DecayStep
<1> QED BY <1>1, <1>2, <1>3, TypeCorrect, PTL DEF Spec, DecayRateLimited, LimitsDecay

-----------------------------------------------------------------------------
(* Passes settle.  With the same scores a pass always archives the same    *)
(* losers of the same pairs, in the order of the loop: a script.  A node   *)
(* the script archives gives up its references when it loses, and gets     *)
(* one later in the pass only from a node of the script that it outranks   *)
(* and that still had one.                                                 *)

(* The pair p of left and right node comes before the pair (l, r).         *)
Earlier(p, l, r) == p[1] < l \/ (p[1] = l /\ p[2] < r)

(* The node of the pair that a merge archives. *)
Loser(p) == IF Score(p[2]) > Score(p[1]) THEN p[1] ELSE p[2]

Losers == [p \in Node \X Node |-> Loser(p)]

(* x loses a pair of S, or one that comes before (l, r); W is Losers.      *)
Lost(S, W, x) == \E p \in S : W[p] = x
LostBefore(S, W, x, l, r) == \E p \in S : Earlier(p, l, r) /\ W[p] = x

(* The loop merges the pair of a and b if it has merged S before it. *)
Due(S, W, a, b) == /\ Similar(a, b)
                   /\ ~LostBefore(S, W, a, a, 0)
                   /\ ~LostBefore(S, W, b, a, b)

(* S is the pairs that a pass merges; before one pass is complete, those   *)
(* that this pass has merged so far.                                       *)
Script(S, W) ==
  /\ \A p \in S : p[1] < p[2] /\ Similar(p[1], p[2])
  /\ quiet_passes = 0 => \A p \in S : Earlier(p, left_index, right_index)
  /\ \A a, b \in Node :
       a < b /\ (quiet_passes > 0 \/ Earlier(<<a, b>>, left_index, right_index)) =>
         (<<a, b>> \in S <=> Due(S, W, a, b))
  /\ \A x \in Node : x \in archived_ids <=> LostBefore(S, W, x, left_index, right_index)
  /\ right_index # 0 => ~LostBefore(S, W, left_index, left_index, 0)

(* What the nodes of the script still have has climbed once in each pass.  *)
Settling(S, W) ==
  \A n \in Node : Referenced(n) /\ Lost(S, W, n) =>
    Cardinality(Below(n)) >= quiet_passes + (IF n \in archived_ids THEN 1 ELSE 0)

SettleInv == \E S \in SUBSET (Node \X Node) : Script(S, Losers) /\ Settling(S, Losers)

LEMMA NodeInt == \A n \in Node : n \in Int /\ n >= 1 /\ n <= NumNodes
BY SizesAssumption DEF Node

LEMMA BelowIsNat ==
  ASSUME NEW n \in Node
  PROVE  IsFiniteSet(Below(n)) /\ Cardinality(Below(n)) \in Nat
<1>1. IsFiniteSet(Node)
  <2>1. 1 \in Int /\ NumNodes \in Int
    BY SizesAssumption
  <2> QED BY <2>1, FS_Interval DEF Node
<1>2. Below(n) \subseteq Node
  BY DEF Below
<1> QED BY <1>1, <1>2, FS_Subset, FS_CardinalityType

(* What outranks a node outranks it and all it outranks. *)
LEMMA BelowGrows ==
  ASSUME TypeOK, NEW s \in Node, NEW x \in Node, Outranks(s, x)
  PROVE  Cardinality(Below(s)) >= Cardinality(Below(x)) + 1
<1>1. \A n \in Node : Score(n) \in Int /\ n \in Int
  BY ScoreIsInt, NodeInt
<1>2. x \notin Below(x)
  BY <1>1 DEF Below, Outranks
<1>3. ASSUME NEW m \in Below(x)
      PROVE  m \in Below(s)
  <2>1. m \in Node /\ Outranks(x, m)
    BY DEF Below
  <2>2. Outranks(s, m)
    BY <1>1, <2>1 DEF Outranks
  <2> QED BY <2>1, <2>2 DEF Below
<1>4. x \in Below(s)
  BY DEF Below
<1>5. IsFiniteSet(Below(x)) /\ IsFiniteSet(Below(s))
  BY BelowIsNat
<1>6. Below(x) \union {x} \subseteq Below(s)
  BY <1>3, <1>4
<1>7. Cardinality(Below(x) \union {x}) = Cardinality(Below(x)) + 1
  BY <1>2, <1>5, FS_AddElement
<1>8. Cardinality(Below(x) \union {x}) <= Cardinality(Below(s))
  BY <1>5, <1>6, FS_Subset
<1>9. Cardinality(Below(x)) \in Nat /\ Cardinality(Below(s)) \in Nat
  BY BelowIsNat
<1> QED BY <1>7, <1>8, <1>9

(* What depends on the scores alone. *)
ScoresUnmoved == \A n \in Node : Score(n)' = Score(n)

LEMMA RankingUnmoved ==
  ASSUME ScoresUnmoved
  PROVE  Losers' = Losers /\ \A n \in Node : Below(n)' = Below(n)
<1>1. \A p \in Node \X Node : Loser(p)' = Loser(p)
  <2> SUFFICES ASSUME NEW p \in Node \X Node
               PROVE  Loser(p)' = Loser(p)
    OBVIOUS
  <2>1. p[1] \in Node /\ p[2] \in Node
    OBVIOUS
  <2> QED BY <2>1 DEF ScoresUnmoved, Loser
<1>2. \A m, n \in Node : Outranks(n, m)' <=> Outranks(n, m)
  BY DEF ScoresUnmoved, Outranks
<1>3. ASSUME NEW n \in Node
      PROVE  Below(n)' = Below(n)
  BY <1>2 DEF Below
<1> QED BY <1>1, <1>3 DEF Losers

LEMMA ArchivedScore ==
  ASSUME TypeOK, NEW n \in Node
  PROVE  /\ Archived(nodes[n]).importance = nodes[n].importance
         /\ Archived(nodes[n]).confidence = nodes[n].confidence
<1>1. nodes[n] \in [status : Status, importance : Unit, confidence : Unit, updated_at : Nat]
  BY DEF TypeOK
<1> QED BY <1>1 DEF Archived

(* Only a reconsolidation that finds a node changes scores. *)
LEMMA ScoresStay ==
  ASSUME TypeOK, CursorInv, Next,
         ~(RunReconsolidation /\ \E n \in Node : Reconsolidates(n))
  PROVE  ScoresUnmoved /\ UNCHANGED similar
<1>1. CASE MergePair
  <2>1. PICK a \in Node, s \in Node : MergeInto(a, s)
    BY <1>1, MergeStep
  <2>2. ASSUME NEW n \in Node
        PROVE  nodes'[n] \in {nodes[n], Archived(nodes[n])}
    BY <2>1 DEF MergeInto, TypeOK
  <2>3. ScoresUnmoved
    BY <2>2, ArchivedScore DEF ScoresUnmoved, Score
  <2> QED BY <1>1, <2>3 DEF MergePair
<1>2. CASE RunArchiveIsolatedWeakNodes
  <2>1. ASSUME NEW n \in Node
        PROVE  nodes'[n] \in {nodes[n], Archived(nodes[n])}
    BY <1>2 DEF RunArchiveIsolatedWeakNodes
  <2>2. ScoresUnmoved
    BY <2>1, ArchivedScore DEF ScoresUnmoved, Score
  <2> QED BY <1>2, <2>2 DEF RunArchiveIsolatedWeakNodes
<1>3. CASE RunReconsolidation
  <2>1. ASSUME NEW n \in Node
        PROVE  nodes'[n] = nodes[n]
    BY <1>3 DEF RunReconsolidation
  <2> QED BY <1>3, <2>1 DEF ScoresUnmoved, Score, RunReconsolidation
<1>4. UNCHANGED nodes => ScoresUnmoved
  BY DEF ScoresUnmoved, Score
<1> QED BY <1>1, <1>2, <1>3, <1>4
        DEF Next, StartRun, Recall, RunCheckpointGeneration, MergeLeft, MergeSkip,
            MergeNextLeft, MergeReturns, RunWeakEdgeDecay, RunLessonReinforcement, state

LEMMA SupportUnmoved ==
  ASSUME TypeOK, RunLessonReinforcement, NEW l \in Lesson
  PROVE  lessons'[l].supporting = lessons[l].supporting
<1>1. lessons'[l] = IF Reinforces(l) THEN Reinforced(lessons[l], SupportCount(l))
                    ELSE lessons[l]
  BY DEF RunLessonReinforcement
<1>2. Reinforced(lessons[l], SupportCount(l)).supporting = lessons[l].supporting
  BY DEF Reinforced, TypeOK
<1> QED BY <1>1, <1>2

(* What a node is referenced by depends on the ends of the edges and on    *)
(* the lists, which only a merge rewrites.                                 *)
ReferencesUnmoved == \A n \in Node : Referenced(n)' => Referenced(n)

LEMMA ReferencesStay ==
  ASSUME TypeOK, CursorInv, Next, ~MergePair
  PROVE  ReferencesUnmoved
<1>1. EndsUnmoved
  BY EndsMovedByMerge
<1>2. \A l \in Lesson : lessons'[l].supporting = lessons[l].supporting
  <2>1. CASE RunLessonReinforcement
    BY <2>1, SupportUnmoved
  <2>2. UNCHANGED lessons \/ RunLessonReinforcement
    BY DEF Next, StartRun, Recall, RunCheckpointGeneration, MergeLeft, MergeSkip,
           MergeNextLeft, MergeReturns, RunWeakEdgeDecay, RunArchiveIsolatedWeakNodes,
           RunReconsolidation, state
  <2> QED BY <2>1, <2>2
<1>3. UNCHANGED traits
  BY DEF Next, StartRun, Recall, RunCheckpointGeneration, MergeLeft, MergeSkip,
         MergeNextLeft, MergeReturns, RunWeakEdgeDecay, RunArchiveIsolatedWeakNodes,
         RunLessonReinforcement, RunReconsolidation, state
<1>4. ASSUME NEW n \in Node, Referenced(n)'
      PROVE  Referenced(n)
  <2>1. Connected(n)' => Connected(n)
    BY <1>1 DEF EndsUnmoved, Connected
  <2>2. \A l \in Lesson : Listed(lessons'[l].supporting) = Listed(lessons[l].supporting)
    BY <1>2
  <2> HIDE DEF Listed, Connected
  <2> QED BY <1>3, <1>4, <2>1, <2>2 DEF Referenced
<1> QED BY <1>4 DEF ReferencesUnmoved

(* Rewriting a list takes the merged node out of it, and adds no node but  *)
(* the survivor in its place.                                              *)
LEMMA ReplaceAddsSurvivor ==
  ASSUME NEW list \in SUBSET Entry, NEW a \in Node, NEW s \in Node, a # s,
         NEW n \in Listed(ReplaceNodeId(list, a, s))
  PROVE  n # a /\ (n \in Listed(list) \/ (n = s /\ a \in Listed(list)))
<1>1. PICK entry \in list : n = IF entry[1] = a THEN s ELSE entry[1]
  <2>1. PICK written \in ReplaceNodeId(list, a, s) : n = written[1]
    BY DEF Listed
  <2>2. PICK entry \in list :
          written = <<IF entry[1] = a THEN s ELSE entry[1], 1>>
    BY DEF ReplaceNodeId
  <2> QED BY <2>1, <2>2
<1>2. entry[1] \in Listed(list)
  BY DEF Listed
<1> QED BY <1>1, <1>2

LEMMA MergedReferences ==
  ASSUME TypeOK, NEW a \in Node, NEW s \in Node, a # s, MergeInto(a, s),
         NEW n \in Node, Referenced(n)'
  PROVE  n # a /\ (Referenced(n) \/ (n = s /\ Referenced(a)))
<1>1. CASE Connected(n)'
  <2>1. PICK e \in Edge : n = edges'[e].from \/ n = edges'[e].to
    BY <1>1 DEF Connected
  <2>2. n # a /\ (Connected(n) \/ (n = s /\ Connected(a)))
    BY <2>1, MergedEnds DEF Connected
  <2> QED BY <2>2 DEF Referenced
<1>2. CASE \E l \in Lesson : n \in Listed(lessons'[l].supporting)
  <2>1. PICK l \in Lesson : n \in Listed(lessons'[l].supporting)
    BY <1>2
  <2>2. lessons[l].supporting \in SUBSET Entry
    BY DEF TypeOK
  <2>3. lessons'[l].supporting = ReplaceNodeId(lessons[l].supporting, a, s)
    BY DEF MergeInto, TypeOK
  <2>4. n # a /\ (n \in Listed(lessons[l].supporting)
                  \/ (n = s /\ a \in Listed(lessons[l].supporting)))
    BY <2>1, <2>2, <2>3, ReplaceAddsSurvivor
  <2> QED BY <2>4 DEF Referenced
<1>3. CASE \E t \in Trait : n \in Listed(traits'[t])
  <2>1. PICK t \in Trait : n \in Listed(traits'[t])
    BY <1>3
  <2>2. traits[t] \in SUBSET Entry
    BY DEF TypeOK
  <2>3. traits'[t] = ReplaceNodeId(traits[t], a, s)
    BY DEF MergeInto
  <2>4. n # a /\ (n \in Listed(traits[t]) \/ (n = s /\ a \in Listed(traits[t])))
    BY <2>1, <2>2, <2>3, ReplaceAddsSurvivor
  <2> QED BY <2>4 DEF Referenced
<1>4. Connected(n)' \/ (\E l \in Lesson : n \in Listed(lessons'[l].supporting))
                    \/ (\E t \in Trait : n \in Listed(traits'[t]))
  BY DEF Referenced, Listed
<1> QED BY <1>1, <1>2, <1>3, <1>4

(* The merge archives the loser of the pair, in favour of the other. *)
LEMMA MergeLoser ==
  ASSUME TypeOK, CursorInv, MergePair
  PROVE  /\ left_index \in Node /\ right_index \in Node /\ left_index < right_index
         /\ \E x, s \in Node : /\ x = Loser(<<left_index, right_index>>)
                               /\ x \in {left_index, right_index}
                               /\ MergeInto(x, s)
                               /\ x # s
                               /\ Outranks(s, x)
<1>1. left_index \in Node /\ right_index \in Node /\ left_index < right_index
  BY DEF MergePair, CursorInv, Node
<1>2. /\ Score(left_index) \in Int /\ Score(right_index) \in Int
      /\ left_index # right_index
  BY <1>1, ScoreIsInt, NodeInt
<1>3. CASE Score(right_index) > Score(left_index)
  <2>1. MergeInto(left_index, right_index)
    BY <1>1, <1>2, <1>3, MergePairCases
  <2>2. Outranks(right_index, left_index)
    BY <1>3 DEF Outranks
  <2>3. Loser(<<left_index, right_index>>) = left_index
    BY <1>3 DEF Loser
  <2> QED BY <1>1, <1>2, <2>1, <2>2, <2>3
<1>4. CASE ~(Score(right_index) > Score(left_index))
  <2>1. MergeInto(right_index, left_index)
    BY <1>1, <1>2, <1>4, MergePairCases
  <2>2. Outranks(left_index, right_index)
    BY <1>1, <1>2, <1>4 DEF Outranks
  <2>3. Loser(<<left_index, right_index>>) = right_index
    BY <1>4 DEF Loser
  <2> QED BY <1>1, <1>2, <2>1, <2>2, <2>3
<1> QED BY <1>3, <1>4

LEMMA EarlierLater ==
  ASSUME NEW l \in Int, NEW r \in Int, NEW k \in Int, NEW m \in Int,
         l < k \/ (l = k /\ r <= m)
  PROVE  \A p \in Node \X Node : Earlier(p, l, r) => Earlier(p, k, m)
<1> SUFFICES ASSUME NEW p \in Node \X Node, Earlier(p, l, r)
             PROVE  Earlier(p, k, m)
  OBVIOUS
<1>1. p[1] \in Int /\ p[2] \in Int
  BY NodeInt
<1> QED BY <1>1 DEF Earlier

(* The loop may pass over pairs that are not due. *)
LEMMA ScriptPasses ==
  ASSUME NEW S \in SUBSET (Node \X Node), NEW W, TypeOK, Script(S, W),
         UNCHANGED <<similar, archived_ids, quiet_passes>>,
         \A p \in Node \X Node : Earlier(p, left_index, right_index) =>
           Earlier(p, left_index', right_index'),
         \A a, b \in Node : /\ a < b
                            /\ Earlier(<<a, b>>, left_index', right_index')
                            /\ ~Earlier(<<a, b>>, left_index, right_index)
                            => ~Due(S, W, a, b),
         right_index' # 0 => ~LostBefore(S, W, left_index', left_index', 0)
  PROVE  Script(S, W)'
<1> USE DEF Script
<1>1. ASSUME NEW a \in Node, NEW b \in Node, a < b, ~Due(S, W, a, b)
      PROVE  \/ <<a, b>> \notin S
             \/ quiet_passes = 0 /\ Earlier(<<a, b>>, left_index, right_index)
  BY <1>1, SizesAssumption DEF TypeOK
<1>2. \A p \in S : Earlier(p, left_index, right_index)
                   <=> Earlier(p, left_index', right_index')
  <2> SUFFICES ASSUME NEW p \in S, Earlier(p, left_index', right_index'),
                      ~Earlier(p, left_index, right_index)
               PROVE  FALSE
    OBVIOUS
  <2>1. PICK a \in Node, b \in Node : p = <<a, b>>
    OBVIOUS
  <2>2. a < b
    BY <2>1
  <2> QED BY <1>1, <2>1, <2>2
<1>3. \A x : LostBefore(S, W, x, left_index, right_index)
             <=> LostBefore(S, W, x, left_index', right_index')
  BY <1>2 DEF LostBefore
<1>4. \A a, b \in Node : Due(S, W, a, b)' <=> Due(S, W, a, b)
  BY DEF Due, Similar
<1>5. (\A p \in S : p[1] < p[2] /\ Similar(p[1], p[2]))'
  BY DEF Similar
<1>6. (quiet_passes = 0 => \A p \in S : Earlier(p, left_index, right_index))'
  BY <1>2
<1>7. (\A a, b \in Node :
         a < b /\ (quiet_passes > 0 \/ Earlier(<<a, b>>, left_index, right_index)) =>
           (<<a, b>> \in S <=> Due(S, W, a, b)))'
  <2> SUFFICES ASSUME NEW a \in Node, NEW b \in Node, a < b,
                      quiet_passes > 0 \/ Earlier(<<a, b>>, left_index', right_index')
               PROVE  <<a, b>> \in S <=> Due(S, W, a, b)
    BY <1>4
  <2>1. CASE quiet_passes > 0 \/ Earlier(<<a, b>>, left_index, right_index)
    BY <2>1
  <2>2. CASE ~Earlier(<<a, b>>, left_index, right_index)
    BY <1>2, <2>2
  <2> QED BY <2>1, <2>2
<1>8. (\A x \in Node :
         x \in archived_ids <=> LostBefore(S, W, x, left_index, right_index))'
  BY <1>3
<1>9. (right_index # 0 => ~LostBefore(S, W, left_index, left_index, 0))'
  OBVIOUS
<1> QED BY <1>5, <1>6, <1>7, <1>8, <1>9

LEMMA ScriptLoops ==
  ASSUME NEW S \in SUBSET (Node \X Node), NEW W, TypeOK, CursorInv, Script(S, W),
         MergeLeft \/ MergeSkip \/ MergeNextLeft
  PROVE  Script(S, W)'
<1>0. /\ left_index \in Int /\ right_index \in Int
      /\ UNCHANGED <<similar, archived_ids, quiet_passes>>
  BY DEF TypeOK, MergeLeft, MergeSkip, MergeNextLeft, state, history
<1>1. \A x \in Node : x \in archived_ids <=> LostBefore(S, W, x, left_index, right_index)
  BY DEF Script
<1>2. CASE MergeLeft /\ left_index \in archived_ids
  <2>1. /\ left_index \in Node /\ right_index = 0
        /\ left_index' = left_index + 1 /\ right_index' = 0
    BY <1>2 DEF MergeLeft
  <2>2. LostBefore(S, W, left_index, left_index, 0)
    BY <1>1, <1>2, <2>1
  <2>3. ASSUME NEW a \in Node, NEW b \in Node, a < b,
               Earlier(<<a, b>>, left_index', right_index'),
               ~Earlier(<<a, b>>, left_index, right_index)
        PROVE  ~Due(S, W, a, b)
    <3>1. a = left_index
      BY <1>0, <2>1, <2>3, NodeInt DEF Earlier
    <3> QED BY <2>2, <3>1 DEF Due
  <2>4. \A p \in Node \X Node : Earlier(p, left_index, right_index) =>
          Earlier(p, left_index', right_index')
    BY <1>0, <2>1, EarlierLater
  <2> QED BY <1>0, <2>1, <2>3, <2>4, ScriptPasses
<1>3. CASE MergeLeft /\ left_index \notin archived_ids
  <2>1. /\ left_index \in Node /\ right_index = 0
        /\ left_index' = left_index /\ right_index' = left_index + 1
    BY <1>3 DEF MergeLeft
  <2>2. ~LostBefore(S, W, left_index', left_index', 0)
    BY <1>1, <1>3, <2>1
  <2>3. ASSUME NEW a \in Node, NEW b \in Node, a < b,
               Earlier(<<a, b>>, left_index', right_index'),
               ~Earlier(<<a, b>>, left_index, right_index)
        PROVE  FALSE
    BY <1>0, <2>1, <2>3, NodeInt DEF Earlier
  <2>4. \A p \in Node \X Node : Earlier(p, left_index, right_index) =>
          Earlier(p, left_index', right_index')
    BY <1>0, <2>1, NodeInt, EarlierLater
  <2> QED BY <1>0, <2>2, <2>3, <2>4, ScriptPasses
<1>4. CASE MergeSkip
  <2>1. /\ left_index \in Node /\ right_index \in Node
        /\ left_index' = left_index /\ right_index' = right_index + 1
        /\ right_index # 0
    BY <1>4, NodeInt DEF MergeSkip, CursorInv
  <2>2. ~LostBefore(S, W, left_index', left_index', 0)
    BY <2>1 DEF Script
  <2>3. ASSUME NEW a \in Node, NEW b \in Node, a < b,
               Earlier(<<a, b>>, left_index', right_index'),
               ~Earlier(<<a, b>>, left_index, right_index)
        PROVE  ~Due(S, W, a, b)
    <3>1. a = left_index /\ b = right_index
      BY <1>0, <2>1, <2>3, NodeInt DEF Earlier
    <3> QED BY <1>1, <1>4, <2>1, <3>1 DEF MergeSkip, Due
  <2>4. \A p \in Node \X Node : Earlier(p, left_index, right_index) =>
          Earlier(p, left_index', right_index')
    BY <1>0, <2>1, EarlierLater
  <2> QED BY <1>0, <2>2, <2>3, <2>4, ScriptPasses
<1>5. CASE MergeNextLeft
  <2>1. /\ right_index > NumNodes
        /\ left_index' = left_index + 1 /\ right_index' = 0
    BY <1>5 DEF MergeNextLeft
  <2>2. ASSUME NEW a \in Node, NEW b \in Node, a < b,
               Earlier(<<a, b>>, left_index', right_index'),
               ~Earlier(<<a, b>>, left_index, right_index)
        PROVE  FALSE
    BY <1>0, <2>1, <2>2, NodeInt, SizesAssumption DEF Earlier
  <2>3. \A p \in Node \X Node : Earlier(p, left_index, right_index) =>
          Earlier(p, left_index', right_index')
    BY <1>0, <2>1, EarlierLater
  <2> QED BY <1>0, <2>1, <2>2, <2>3, ScriptPasses
<1> QED BY <1>2, <1>3, <1>4, <1>5

(* The pass returns: the script is complete, and the next pass starts at   *)
(* its beginning.                                                          *)
LEMMA ScriptReturns ==
  ASSUME NEW S \in SUBSET (Node \X Node), NEW W, TypeOK, Script(S, W), MergeReturns
  PROVE  Script(S, W)'
<1>0. /\ left_index > NumNodes /\ right_index = 0 /\ left_index \in Int
      /\ left_index' = 1 /\ right_index' = 0 /\ archived_ids' = {}
      /\ quiet_passes' = Lower(quiet_passes + 1, NumNodes) /\ UNCHANGED similar
  BY DEF MergeReturns, TypeOK, state
<1>1. \A p \in Node \X Node : /\ Earlier(p, left_index, right_index)
                              /\ ~Earlier(p, left_index', right_index')
  BY <1>0, NodeInt, SizesAssumption DEF Earlier
<1>2. quiet_passes' = 0 => Node = {}
  BY <1>0, SizesAssumption DEF Lower, Node, TypeOK
<1>3. \A a, b \in Node : Due(S, W, a, b)' <=> Due(S, W, a, b)
  BY <1>0 DEF Due, Similar
<1>4. (\A p \in S : p[1] < p[2] /\ Similar(p[1], p[2]))'
  BY <1>0 DEF Script, Similar
<1>5. (quiet_passes = 0 => \A p \in S : Earlier(p, left_index, right_index))'
  BY <1>2
<1>6. (\A a, b \in Node :
         a < b /\ (quiet_passes > 0 \/ Earlier(<<a, b>>, left_index, right_index)) =>
           (<<a, b>> \in S <=> Due(S, W, a, b)))'
  BY <1>1, <1>3 DEF Script
<1>7. (\A x \in Node :
         x \in archived_ids <=> LostBefore(S, W, x, left_index, right_index))'
  BY <1>0, <1>1 DEF LostBefore
<1>8. (right_index # 0 => ~LostBefore(S, W, left_index, left_index, 0))'
  BY <1>0
<1> QED BY <1>4, <1>5, <1>6, <1>7, <1>8 DEF Script

LEMMA SettlingReturns ==
  ASSUME NEW S \in SUBSET (Node \X Node), NEW W, TypeOK, Script(S, W), Settling(S, W),
         MergeReturns, ReferencesUnmoved, \A n \in Node : Below(n)' = Below(n)
  PROVE  Settling(S, W)'
<1>0. /\ left_index > NumNodes /\ left_index \in Int /\ archived_ids' = {}
      /\ quiet_passes' = Lower(quiet_passes + 1, NumNodes) /\ quiet_passes \in Nat
      /\ quiet_passes' \in Int
  BY SizesAssumption DEF MergeReturns, TypeOK, Lower
<1> SUFFICES ASSUME NEW n \in Node, Referenced(n)', Lost(S, W, n)
             PROVE  Cardinality(Below(n)') >= quiet_passes'
  <2> SUFFICES ASSUME NEW n \in Node, Referenced(n)', Lost(S, W, n)
               PROVE  Cardinality(Below(n)') >=
                        quiet_passes' + (IF n \in archived_ids' THEN 1 ELSE 0)
    BY DEF Settling
  <2> QED BY <1>0
<1>1. \A p \in Node \X Node : Earlier(p, left_index, right_index)
  BY <1>0, NodeInt, SizesAssumption DEF Earlier
<1>2. n \in archived_ids
  BY <1>1 DEF Script, Lost, LostBefore
<1>3. Cardinality(Below(n)) >= quiet_passes + 1
  BY <1>2 DEF Settling, ReferencesUnmoved
<1>4. Cardinality(Below(n)) \in Nat
  BY BelowIsNat
<1> QED BY <1>0, <1>3, <1>4, SizesAssumption DEF Lower

(* A merge is the next line of the script; once a pass is complete it is   *)
(* there already.                                                          *)
LEMMA ScriptMerges ==
  ASSUME NEW S \in SUBSET (Node \X Node), NEW W, W = Losers,
         NEW T, T = S \union {<<left_index, right_index>>},
         TypeOK, CursorInv, Script(S, W), MergePair
  PROVE  /\ Script(T, W)'
         /\ quiet_passes > 0 => <<left_index, right_index>> \in S
<1> DEFINE l == left_index
           r == right_index
<1>1. PICK x \in Node, s \in Node : /\ x = Loser(<<l, r>>)
                                    /\ MergeInto(x, s)
  BY MergeLoser
<1>2. /\ l \in Node /\ r \in Node /\ l < r /\ r # 0 /\ l \in Int /\ r \in Int
      /\ W[<<l, r>>] = x
  BY <1>1, MergeLoser, NodeInt DEF Losers
<1>3. /\ left_index' = l /\ right_index' = r + 1
      /\ archived_ids' = archived_ids \union {x}
      /\ r \notin archived_ids /\ Similar(l, r)
      /\ UNCHANGED <<similar, quiet_passes>>
  BY <1>1 DEF MergePair, MergeInto, history
<1>4. ~LostBefore(S, W, r, l, r) /\ ~LostBefore(S, W, l, l, 0)
  BY <1>2, <1>3 DEF Script
<1>5. Due(S, W, l, r)
  BY <1>3, <1>4 DEF Due
<1>6. quiet_passes > 0 => <<l, r>> \in S
  BY <1>2, <1>5 DEF Script
<1>7. Script(T, W)'
  <2>1. \A p \in Node \X Node : Earlier(p, l, r + 1) <=> Earlier(p, l, r) \/ p = <<l, r>>
    <3> SUFFICES ASSUME NEW p \in Node \X Node
                 PROVE  Earlier(p, l, r + 1) <=> Earlier(p, l, r) \/ p = <<l, r>>
      OBVIOUS
    <3>1. PICK a \in Node, b \in Node : p = <<a, b>>
      OBVIOUS
    <3>2. a \in Int /\ b \in Int
      BY NodeInt
    <3> QED BY <1>2, <3>1, <3>2 DEF Earlier
  <2>2. ~Earlier(<<l, r>>, l, r) /\ ~Earlier(<<l, r>>, l, 0)
    BY <1>2, NodeInt DEF Earlier
  <2>3. ASSUME NEW a \in Node, NEW b \in Node,
               Earlier(<<a, b>>, l, r) \/ <<a, b>> = <<l, r>>
        PROVE  Due(T, W, a, b) <=> Due(S, W, a, b)
    <3>1. ~Earlier(<<l, r>>, a, b) /\ ~Earlier(<<l, r>>, a, 0)
      BY <1>2, <2>3, NodeInt DEF Earlier
    <3> QED BY <3>1 DEF Due, LostBefore
  <2>4. \A y \in Node : y \in archived_ids' <=> LostBefore(T, W, y, l, r + 1)
    <3> SUFFICES ASSUME NEW y \in Node
                 PROVE  y \in archived_ids \union {x} <=> LostBefore(T, W, y, l, r + 1)
      BY <1>3
    <3>1. y \in archived_ids <=> LostBefore(S, W, y, l, r)
      BY DEF Script
    <3>2. LostBefore(T, W, y, l, r + 1) <=> LostBefore(S, W, y, l, r) \/ y = x
      BY <1>2, <2>1, <2>2 DEF LostBefore
    <3> QED BY <3>1, <3>2
  <2>5. ~LostBefore(T, W, l, l, 0)
    BY <1>4, <2>2 DEF LostBefore
  <2>6. \A p \in T : p[1] < p[2] /\ Similar(p[1], p[2])'
    <3>1. \A a, b \in Node : Similar(a, b)' <=> Similar(a, b)
      BY <1>3 DEF Similar
    <3>2. \A p \in T : p[1] \in Node /\ p[2] \in Node
      BY <1>2
    <3>3. \A p \in S : p[1] < p[2] /\ Similar(p[1], p[2])
      BY DEF Script
    <3>4. \A p \in T : p \in S \/ (p[1] = l /\ p[2] = r)
      OBVIOUS
    <3> HIDE DEF l, r
    <3> QED BY <1>2, <1>3, <3>1, <3>2, <3>3, <3>4
  <2>7. quiet_passes' = 0 => \A p \in T : Earlier(p, l, r + 1)
    BY <1>2, <1>3, <2>1 DEF Script
  <2>8. ASSUME NEW a \in Node, NEW b \in Node, a < b,
               quiet_passes > 0 \/ Earlier(<<a, b>>, l, r + 1)
        PROVE  <<a, b>> \in T <=> Due(T, W, a, b)
    <3>1. CASE quiet_passes > 0
      <4>1. T = S
        BY <1>6, <3>1
      <4> QED BY <2>8, <3>1, <4>1 DEF Script
    <3>2. CASE Earlier(<<a, b>>, l, r)
      <4>1. <<a, b>> # <<l, r>>
        BY <2>2, <3>2
      <4>2. <<a, b>> \in S <=> Due(S, W, a, b)
        BY <2>8, <3>2 DEF Script
      <4> QED BY <2>3, <3>2, <4>1, <4>2
    <3>3. CASE <<a, b>> = <<l, r>>
      BY <1>5, <2>3, <3>3
    <3> QED BY <2>1, <2>8, <3>1, <3>2, <3>3
  <2>9. \A a, b \in Node : Due(T, W, a, b)' <=> Due(T, W, a, b)
    BY <1>3 DEF Due, Similar
  <2> QED BY <1>3, <2>4, <2>5, <2>6, <2>7, <2>8, <2>9 DEF Script
<1> QED BY <1>6, <1>7

LEMMA SettlingMerges ==
  ASSUME NEW S \in SUBSET (Node \X Node), NEW W, W = Losers,
         NEW T, T = S \union {<<left_index, right_index>>},
         TypeOK, CursorInv, Settling(S, W), MergePair,
         quiet_passes > 0 => <<left_index, right_index>> \in S,
         \A n \in Node : Below(n)' = Below(n)
  PROVE  Settling(T, W)'
<1>1. PICK x \in Node, s \in Node : /\ x = Loser(<<left_index, right_index>>)
                                    /\ MergeInto(x, s)
                                    /\ x # s
                                    /\ Outranks(s, x)
  BY MergeLoser
<1>2. W[<<left_index, right_index>>] = x
  BY <1>1, MergeLoser DEF Losers
<1>3. archived_ids' = archived_ids \union {x} /\ UNCHANGED quiet_passes
  BY <1>1 DEF MergePair, MergeInto, history
<1>4. quiet_passes \in Nat
  BY SizesAssumption DEF TypeOK
<1> SUFFICES ASSUME NEW n \in Node, Referenced(n)', Lost(T, W, n)
             PROVE  Cardinality(Below(n)) >=
                      quiet_passes + (IF n \in archived_ids' THEN 1 ELSE 0)
  BY <1>3 DEF Settling
<1>5. n # x /\ (Referenced(n) \/ (n = s /\ Referenced(x)))
  BY <1>1, MergedReferences
<1>6. Lost(S, W, n)
  BY <1>2, <1>5 DEF Lost
<1>7. CASE Referenced(n)
  BY <1>3, <1>5, <1>6, <1>7 DEF Settling
<1>8. CASE n = s /\ Referenced(x)
  <2>1. /\ Cardinality(Below(n)) >= Cardinality(Below(x)) + 1
        /\ Cardinality(Below(n)) \in Nat /\ Cardinality(Below(x)) \in Nat
    BY <1>1, <1>8, BelowGrows, BelowIsNat
  <2>2. CASE quiet_passes > 0
    <3>1. Lost(S, W, x)
      BY <1>2, <2>2 DEF Lost
    <3>2. Cardinality(Below(x)) >= quiet_passes
      BY <1>4, <1>8, <2>1, <3>1 DEF Settling
    <3> QED BY <1>4, <2>1, <3>2
  <2>3. CASE quiet_passes = 0
    BY <2>1, <2>3
  <2> QED BY <1>4, <2>2, <2>3
<1> QED BY <1>5, <1>7, <1>8

LEMMA SettleStep ==
  ASSUME TypeOK, CursorInv, SettleInv, Next
  PROVE  SettleInv'
<1>1. PICK S \in SUBSET (Node \X Node) : Script(S, Losers) /\ Settling(S, Losers)
  BY DEF SettleInv
<1>2. CASE RunReconsolidation /\ \E n \in Node : Reconsolidates(n)
  <2>1. /\ quiet_passes' = 0 /\ archived_ids' = {}
        /\ left_index' = 1 /\ right_index' = 0
    BY <1>2 DEF RunReconsolidation, CursorInv, Running, cursor
  <2>2. Script({}, Losers)'
    BY <2>1, NodeInt DEF Script, LostBefore, Earlier
  <2>3. Settling({}, Losers)'
    BY DEF Settling, Lost
  <2> QED BY <2>2, <2>3 DEF SettleInv
<1>3. CASE ~(RunReconsolidation /\ \E n \in Node : Reconsolidates(n))
  <2>1. ScoresUnmoved /\ UNCHANGED similar
    BY <1>3, ScoresStay
  <2>2. PICK W : W = Losers
    OBVIOUS
  <2>3. Losers' = W /\ \A n \in Node : Below(n)' = Below(n)
    BY <2>1, <2>2, RankingUnmoved
  <2>4. Script(S, W) /\ Settling(S, W)
    BY <1>1, <2>2
  <2>5. ASSUME NEW T \in SUBSET (Node \X Node), Script(T, W)', Settling(T, W)'
        PROVE  SettleInv'
    <3>1. Script(T, Losers)' /\ Settling(T, Losers)'
      BY <2>3, <2>5
    <3> QED BY <3>1 DEF SettleInv
  <2>6. CASE MergePair
    <3>1. left_index \in Node /\ right_index \in Node
      BY <2>6, MergeLoser
    <3>2. S \union {<<left_index, right_index>>} \in SUBSET (Node \X Node)
      BY <3>1
    <3>3. PICK T \in SUBSET (Node \X Node) : T = S \union {<<left_index, right_index>>}
      BY <3>2
    <3>4. Script(T, W)' /\ (quiet_passes > 0 => <<left_index, right_index>> \in S)
      BY <2>2, <2>4, <2>6, <3>3, ScriptMerges
    <3>5. Settling(T, W)'
      BY <2>2, <2>3, <2>4, <2>6, <3>3, <3>4, SettlingMerges
    <3> QED BY <2>5, <3>4, <3>5
  <2>7. CASE MergeReturns
    <3>1. ReferencesUnmoved
      BY <2>7, ReferencesStay DEF MergePair, MergeReturns, Node
    <3> QED BY <2>3, <2>4, <2>5, <2>7, <3>1, ScriptReturns, SettlingReturns
  <2>8. ~MergePair /\ UNCHANGED <<archived_ids, quiet_passes>> => Settling(S, W)'
    BY <2>3, <2>4, ReferencesStay DEF ReferencesUnmoved, Settling
  <2>9. CASE MergeLeft \/ MergeSkip \/ MergeNextLeft
    <3>1. ~MergePair /\ UNCHANGED <<archived_ids, quiet_passes>>
      BY <2>9, SizesAssumption
         DEF MergeLeft, MergeSkip, MergeNextLeft, MergePair, Node, history
    <3> QED BY <2>4, <2>5, <2>8, <2>9, <3>1, ScriptLoops
  <2>10. CASE ~MergePair /\ UNCHANGED <<cursor, quiet_passes>>
    <3>1. Script(S, W)'
      BY <2>1, <2>4, <2>10 DEF Script, Due, Similar, cursor
    <3> QED BY <2>5, <2>8, <2>10, <3>1 DEF cursor
  <2>11. MergePair \/ MergeReturns \/ MergeLeft \/ MergeSkip \/ MergeNextLeft
           \/ UNCHANGED <<cursor, quiet_passes>>
    BY <1>3 DEF Next, StartRun, Recall, RunCheckpointGeneration, RunWeakEdgeDecay,
           RunArchiveIsolatedWeakNodes, RunLessonReinforcement, RunReconsolidation,
           history
  <2> QED BY <2>6, <2>7, <2>9, <2>10, <2>11
<1> QED BY <1>2, <1>3

LEMMA StutterSettles ==
  ASSUME SettleInv, UNCHANGED vars
  PROVE  SettleInv'
<1>1. PICK S \in SUBSET (Node \X Node) : Script(S, Losers) /\ Settling(S, Losers)
  BY DEF SettleInv
<1>2. ScoresUnmoved
  BY DEF ScoresUnmoved, Score, vars, state
<1>3. PICK W : W = Losers
  OBVIOUS
<1>4. Losers' = W /\ \A n \in Node : Below(n)' = Below(n)
  BY <1>2, <1>3, RankingUnmoved
<1>5. Script(S, W)'
  BY <1>1, <1>3 DEF Script, Due, Similar, vars, cursor, history
<1>6. \A n \in Node : Referenced(n)' => Referenced(n)
  BY DEF Referenced, Connected, Listed, vars, state
<1>7. Settling(S, W)'
  BY <1>1, <1>3, <1>4, <1>6 DEF Settling, vars, cursor, history
<1>8. Script(S, Losers)' /\ Settling(S, Losers)'
  BY <1>4, <1>5, <1>7
<1> QED BY <1>8 DEF SettleInv

(* Among the duplicates of a node one outranks it that is itself the best: *)
(* the script archives the node.                                           *)
LEMMA SettledNow ==
  ASSUME TypeOK, SettleInv
  PROVE  PassesSettle
<1> SUFFICES ASSUME NEW n \in Node, Referenced(n),
                    NEW m \in Node, Similar(m, n), Outranks(m, n), Best(m)
             PROVE  Cardinality(Below(n)) >= quiet_passes
  BY DEF PassesSettle
<1>1. PICK S \in SUBSET (Node \X Node) : Script(S, Losers) /\ Settling(S, Losers)
  BY DEF SettleInv
<1>2. Cardinality(Below(n)) \in Nat /\ quiet_passes \in Nat
  BY BelowIsNat, SizesAssumption DEF TypeOK
<1>3. \A k \in Node : Score(k) \in Int /\ k \in Int
  BY ScoreIsInt, NodeInt
<1>4. ASSUME NEW a \in Node, NEW b \in Node, a < b, Similar(a, b)
      PROVE  /\ Losers[<<a, b>>] \in {a, b}
             /\ m \in {a, b} => Losers[<<a, b>>] # m
  <2>1. Losers[<<a, b>>] = IF Score(b) > Score(a) THEN a ELSE b
    BY DEF Losers, Loser
  <2>2. {a, b} = {b, a}
    OBVIOUS
  <2>3. Similar(b, a)
    BY <1>4, <2>2 DEF Similar
  <2>4. CASE Score(b) > Score(a)
    BY <1>4, <2>1, <2>3, <2>4 DEF Best, Outranks
  <2>5. CASE ~(Score(b) > Score(a))
    <3>1. Outranks(a, b)
      BY <1>3, <1>4, <2>5 DEF Outranks
    <3> QED BY <1>4, <2>1, <2>5, <3>1 DEF Best
  <2> QED BY <2>4, <2>5
<1>5. ~Lost(S, Losers, m)
  <2> SUFFICES ASSUME NEW p \in S, Losers[p] = m
               PROVE  FALSE
    BY DEF Lost
  <2>1. PICK a \in Node, b \in Node : p = <<a, b>>
    OBVIOUS
  <2>2. a < b /\ Similar(a, b)
    BY <1>1, <2>1 DEF Script
  <2> QED BY <1>4, <2>1, <2>2
<1>6. ASSUME NEW a \in Node, NEW b \in Node, a < b, {a, b} = {m, n}, quiet_passes > 0
      PROVE  Lost(S, Losers, n)
  <2>1. Similar(a, b) /\ m \in {a, b} /\ n \in {a, b} /\ a # b
    BY <1>3, <1>6 DEF Similar
  <2>2. CASE <<a, b>> \in S
    BY <1>4, <1>6, <2>1, <2>2 DEF Lost
  <2>3. CASE <<a, b>> \notin S
    <3>1. LostBefore(S, Losers, a, a, 0) \/ LostBefore(S, Losers, b, a, b)
      BY <1>1, <1>6, <2>1, <2>3 DEF Script, Due
    <3>2. Lost(S, Losers, a) \/ Lost(S, Losers, b)
      BY <3>1 DEF LostBefore, Lost
    <3> QED BY <1>5, <1>6, <3>2
  <2> QED BY <2>2, <2>3
<1>7. quiet_passes > 0 => Lost(S, Losers, n)
  <2>1. m < n \/ n < m
    BY <1>3, NotOwnDuplicate
  <2>2. {m, n} = {n, m}
    OBVIOUS
  <2> QED BY <1>6, <2>1, <2>2
<1>8. CASE quiet_passes > 0
  BY <1>1, <1>2, <1>7, <1>8 DEF Settling
<1> QED BY <1>2, <1>8

(* A node that duplicates the best of its duplicates holds on to edges and *)
(* evidence only as long as it outranks a node for every pass there was.   *)
THEOREM PassesDoSettle == Spec => []PassesSettle
<1>1. Init => SettleInv
  <2> SUFFICES ASSUME Init PROVE SettleInv
    OBVIOUS
  <2>1. quiet_passes = 0 /\ archived_ids = {} /\ left_index = 1 /\ right_index = 0
    BY DEF Init
  <2>2. Script({}, Losers)
    BY <2>1, NodeInt DEF Script, LostBefore, Earlier
  <2>3. Settling({}, Losers)
    BY DEF Settling, Lost
  <2> QED BY <2>2, <2>3 DEF SettleInv
<1>2. SettleInv /\ UNCHANGED vars => SettleInv'
  BY StutterSettles
<1>3. TypeOK /\ CursorInv /\ SettleInv /\ [Next]_vars => SettleInv'
  BY <1>2, SettleStep
<1>4. TypeOK /\ CursorInv /\ SettleInv => PassesSettle
  BY SettledNow
<1> QED BY <1>1, <1>3, <1>4, TypeCorrect, PTL DEF Spec
=============================================================================
