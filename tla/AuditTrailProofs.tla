-------------------------- MODULE AuditTrailProofs --------------------------
(* Proofs about AuditTrail, for any tables, bounds and number of calls.     *)
EXTENDS AuditTrail, TLAPS

(* Which audit each step belongs to, and that none leaves a source behind. *)
Steps ==
  /\ step = "idle" => subject = NoSubject
  /\ step \in {"inbound_edges", "outbound_edges", "lessons_for_node", "lessons"} => subject \in Node
  /\ step = "nodes" => subject \in Lesson
  /\ step \in {"checkpoints", "done"} => todo = {}

(* The edges read are edges of the subject; each neighbor of the beginning *)
(* is an end of one of them, or of one that is yet to be read.             *)
Neighbors ==
  /\ \A e \in trail.inbound : e \in DOMAIN edges /\ edges[e].to = subject
  /\ \A e \in trail.outbound : e \in DOMAIN edges /\ edges[e].from = subject
  /\ subject \in Node =>
       \A m \in since.neighbors :
         \/ m \in OtherEnds
         \/ step = "inbound_edges" /\ m \in GetNeighbors(subject)
         \/ /\ step = "outbound_edges"
            /\ \E e \in DOMAIN edges : edges[e].from = subject /\ edges[e].to = m

(* What mentions the subject now is between what always did since the      *)
(* beginning and what ever did, and so is what has been read.              *)
Mentions ==
  /\ Running => /\ since.always \subseteq Mentioning(Trait \union Checkpoint, subject)
                /\ Mentioning(Trait \union Checkpoint, subject) \subseteq since.ever
  /\ step = "checkpoints" => since.always \intersect Trait \subseteq trail.mentioned
  /\ step = "done" => since.always \subseteq trail.mentioned
  /\ step \in {"checkpoints", "done"} => trail.mentioned \subseteq since.ever

(* Each source of the beginning is yet to be read, to be followed, or told. *)
Sources ==
  /\ since.sources \subseteq sources
  /\ \A l \in trail.lessons :
       l.source \in IF l.source.role = "supporting" THEN l.supporting ELSE l.contradicting
  /\ subject \in Node =>
       \A s \in since.sources :
         /\ s.node = subject
         /\ \/ step \in {"inbound_edges", "outbound_edges", "lessons_for_node"}
            \/ s \in todo
            \/ \E l \in trail.lessons : l.source = s
  /\ subject \in Lesson => since.sources = trail.nodes \union todo

IInv == TypeOK /\ Steps /\ Neighbors /\ Mentions /\ Sources

-----------------------------------------------------------------------------
(* The tables *)

LEMMA Disjoint ==
  /\ \A T \in {Node, Lesson, Trait, Checkpoint, Scenario, Scope} : T \intersect EdgeId = {}
  /\ \A T \in {Node, Lesson, EdgeId, Scenario, Scope} :
       T \intersect Trait = {} /\ T \intersect Checkpoint = {}
  /\ \A T \in {Node, Lesson, EdgeId, Trait, Checkpoint, Scenario} : T \intersect Scope = {}
  /\ Node \intersect Lesson = {}
BY TablesAssumption DEF Tables

LEMMA AllTables ==
  UNION {Tables[i] : i \in 1..7} =
    Node \union Lesson \union EdgeId \union Trait \union Checkpoint \union Scenario \union Scope
BY DEF Tables

LEMMA PutTyped ==
  ASSUME NEW D, NEW R, NEW table \in [D -> R], NEW id, NEW row \in R
  PROVE  /\ Put(table, id, row) \in [D \union {id} -> R]
         /\ DOMAIN Put(table, id, row) = D \union {id}
         /\ Put(table, id, row)[id] = row
         /\ \A k \in D : k # id => Put(table, id, row)[k] = table[k]
BY DEF Put

(* What a row that is inserted or updated leaves of the columns that every *)
(* table has.                                                              *)
Kept(row) ==
  /\ now' \in Nat /\ writes' \in Nat
  /\ DOMAIN updated_at' = DOMAIN updated_at \union {row}
  /\ updated_at' \in [DOMAIN updated_at' -> Stamp]
  /\ changed' \in [DOMAIN updated_at' -> Nat]

LEMMA Remainder ==
  ASSUME NEW n \in Nat
  PROVE  n % 2 \in 0..1 /\ n - (n % 2) \in Nat
<1>1. n % 2 \in 0..1
  OBVIOUS
<1>2. n % 2 = 1 => n # 0
  OBVIOUS
<1> QED
  BY <1>1, <1>2

LEMMA SavedTyped ==
  ASSUME StoreTypeOK, NEW row, Insert(row) \/ Update(row)
  PROVE  Kept(row)
<1> USE DEF StoreTypeOK
<1>1. /\ now' \in Nat /\ writes' \in Nat
  BY DEF Insert, Update, Writes
<1>2. CASE Insert(row)
  <2>1. PICK delay \in Delay :
          /\ delay <= now
          /\ updated_at' = Put(updated_at, row, Formatted(now - delay))
          /\ changed' = Put(changed, row, now - delay)
    BY <1>2 DEF Insert
  <2>2. now - delay \in Nat
    BY <2>1, TimeAssumption
  <2>3. Formatted(now - delay) \in Stamp
    BY <2>2 DEF Formatted, Stamp
  <2>4. /\ updated_at' \in [DOMAIN updated_at \union {row} -> Stamp]
        /\ changed' \in [DOMAIN updated_at \union {row} -> Nat]
    BY <2>1, <2>2, <2>3, PutTyped
  <2> QED
    BY <1>1, <2>4 DEF Kept
<1>3. CASE Update(row)
  <2>1. now - (now % 2) \in Nat
    BY Remainder
  <2>2. Touched(row) \in Stamp
    BY <2>1 DEF Touched, Stamp
  <2>3. /\ updated_at' \in [DOMAIN updated_at \union {row} -> Stamp]
        /\ changed' \in [DOMAIN updated_at \union {row} -> Nat]
    BY <1>3, <2>2, PutTyped DEF Update
  <2> QED
    BY <1>1, <2>3 DEF Kept
<1> QED
  BY <1>2, <1>3

(* Writing a row of one table adds it to that one alone. *)
LEMMA OnlyThere ==
  ASSUME NEW row, Kept(row), NEW T, row \notin T
  PROVE  Stored(T)' = Stored(T)
BY DEF Kept, Stored

(* A time is so many days and a time of day. *)
LEMMA Divided ==
  ASSUME NEW at \in Nat
  PROVE  /\ Day(at) \in Nat
         /\ at % DayLength \in Nat /\ at % DayLength < DayLength
         /\ at = DayLength * Day(at) + (at % DayLength)
BY TimeAssumption DEF Day

LEMMA StoreTypePreserved ==
  ASSUME StoreTypeOK, StoreNext
  PROVE  StoreTypeOK'
<1> USE DEF StoreTypeOK
<1>1. ASSUME NEW row \in Node \union Lesson \union Scenario, Insert(row) \/ Update(row),
             UNCHANGED <<edges, sources, mentions, working>>
      PROVE  StoreTypeOK'
  <2>1. Kept(row)
    BY <1>1, SavedTyped
  <2>2. Stored(EdgeId)' = Stored(EdgeId) /\ Stored(Trait)' = Stored(Trait)
        /\ Stored(Checkpoint)' = Stored(Checkpoint) /\ Stored(Scope)' = Stored(Scope)
    BY <1>1, <2>1, OnlyThere, Disjoint
  <2>3. Stored(Node) \subseteq Stored(Node)' /\ Stored(Lesson) \subseteq Stored(Lesson)'
    BY <2>1 DEF Kept, Stored
  <2> QED
    BY <1>1, <2>1, <2>2, <2>3, AllTables DEF Kept
<1>2. ASSUME NEW e \in EdgeId, NEW from \in Node, NEW to \in Node, InsertEdge(e, from, to)
      PROVE  StoreTypeOK'
  <2>1. Kept(e)
    BY <1>2, SavedTyped DEF InsertEdge
  <2>2. Stored(Node)' = Stored(Node) /\ Stored(Lesson)' = Stored(Lesson)
        /\ Stored(Trait)' = Stored(Trait) /\ Stored(Checkpoint)' = Stored(Checkpoint)
        /\ Stored(Scope)' = Stored(Scope)
    BY <1>2, <2>1, OnlyThere, Disjoint
  <2>3. Stored(EdgeId)' = Stored(EdgeId) \union {e}
    BY <1>2, <2>1 DEF Kept, Stored
  <2>4. edges' \in [Stored(EdgeId)' -> [from : Stored(Node)', to : Stored(Node)']]
    <3> DEFINE Ends == [from : Stored(Node), to : Stored(Node)]
    <3>1. [from |-> from, to |-> to] \in Ends /\ edges \in [Stored(EdgeId) -> Ends]
      BY <1>2 DEF InsertEdge
    <3>2. edges' \in [Stored(EdgeId) \union {e} -> Ends]
      <4> HIDE DEF Ends
      <4> QED
        BY <1>2, <3>1, PutTyped DEF InsertEdge
    <3> QED
      BY <2>2, <2>3, <3>2
  <2> QED
    BY <1>2, <2>1, <2>2, <2>4, AllTables DEF Kept, InsertEdge
<1>3. ASSUME NEW l \in Lesson, NEW n \in Node, NEW role \in {"supporting", "contradicting"},
             AttachLessonSource(l, n, role)
      PROVE  StoreTypeOK'
  <2>1. now' \in Nat /\ writes' \in Nat
    BY <1>3 DEF AttachLessonSource, Writes
  <2>2. \A T : Stored(T)' = Stored(T)
    BY <1>3 DEF AttachLessonSource, Stored
  <2>3. sources' \subseteq Source /\ \A s \in sources' : s.lesson \in Stored(Lesson) /\ s.node \in Stored(Node)
    BY <1>3 DEF AttachLessonSource, Source
  <2> QED
    BY <1>3, <2>1, <2>2, <2>3 DEF AttachLessonSource
<1>4. ASSUME NEW r \in Trait \union Checkpoint, NEW ids \in Mentioned,
             Insert(r) \/ Update(r), mentions' = Put(mentions, r, ids),
             UNCHANGED <<edges, sources, working>>
      PROVE  StoreTypeOK'
  <2>1. Kept(r)
    BY <1>4, SavedTyped
  <2>2. Stored(Node)' = Stored(Node) /\ Stored(Lesson)' = Stored(Lesson)
        /\ Stored(EdgeId)' = Stored(EdgeId) /\ Stored(Scope)' = Stored(Scope)
    BY <1>4, <2>1, OnlyThere, Disjoint
  <2>3. Stored(Trait)' \union Stored(Checkpoint)' = Stored(Trait) \union Stored(Checkpoint) \union {r}
    BY <1>4, <2>1 DEF Kept, Stored
  <2>4. mentions' \in [Stored(Trait)' \union Stored(Checkpoint)' -> SUBSET (Node \union Lesson)]
    <3> DEFINE Ids == SUBSET (Node \union Lesson)
               Those == Stored(Trait) \union Stored(Checkpoint)
    <3>1. ids \in Ids /\ mentions \in [Those -> Ids]
      BY MentionedAssumption
    <3>2. mentions' \in [Those \union {r} -> Ids]
      <4> HIDE DEF Ids, Those
      <4> QED
        BY <1>4, <3>1, PutTyped
    <3> QED
      BY <2>3, <3>2
  <2> QED
    BY <1>4, <2>1, <2>2, <2>4, AllTables DEF Kept
<1>5. ASSUME NEW k \in Scope, NEW session \in Session, UpsertWorkingMemoryEntry(k, session)
      PROVE  StoreTypeOK'
  <2>1. Kept(k)
    BY <1>5, SavedTyped DEF UpsertWorkingMemoryEntry, Upsert
  <2>2. Stored(Node)' = Stored(Node) /\ Stored(Lesson)' = Stored(Lesson)
        /\ Stored(EdgeId)' = Stored(EdgeId) /\ Stored(Trait)' = Stored(Trait)
        /\ Stored(Checkpoint)' = Stored(Checkpoint)
    BY <1>5, <2>1, OnlyThere, Disjoint
  <2>3. Stored(Scope)' = Stored(Scope) \union {k}
    BY <1>5, <2>1 DEF Kept, Stored
  <2>4. working' \in [Stored(Scope)' -> Session]
    <3>1. working' \in [Stored(Scope) \union {k} -> Session]
      BY <1>5, PutTyped DEF UpsertWorkingMemoryEntry
    <3> QED
      BY <2>3, <3>1
  <2> QED
    BY <1>5, <2>1, <2>2, <2>4, AllTables DEF Kept, UpsertWorkingMemoryEntry
<1>6. ASSUME NEW k \in Scope, DeleteWorkingMemoryEntry(k)
      PROVE  StoreTypeOK'
  <2>1. /\ DOMAIN updated_at' = DOMAIN updated_at \ {k}
        /\ updated_at' \in [DOMAIN updated_at' -> Stamp]
        /\ changed' \in [DOMAIN updated_at' -> Nat]
        /\ now' \in Nat /\ writes' \in Nat
    BY <1>6 DEF DeleteWorkingMemoryEntry, Without, Writes
  <2>2. Stored(Node)' = Stored(Node) /\ Stored(Lesson)' = Stored(Lesson)
        /\ Stored(EdgeId)' = Stored(EdgeId) /\ Stored(Trait)' = Stored(Trait)
        /\ Stored(Checkpoint)' = Stored(Checkpoint) /\ Stored(Scope)' = Stored(Scope) \ {k}
    BY <1>6, <2>1, Disjoint DEF Stored
  <2>3. working' \in [Stored(Scope)' -> Session]
    BY <1>6, <2>2 DEF DeleteWorkingMemoryEntry, Without
  <2> QED
    BY <1>6, <2>1, <2>2, <2>3 DEF DeleteWorkingMemoryEntry
<1>7. ASSUME Midnight PROVE StoreTypeOK'
  <2>1. now' \in Nat
    <3>1. Day(now) \in Nat
      BY Divided DEF StoreTypeOK
    <3>2. \A d \in Nat : DayLength * (d + 1) \in Nat
      BY TimeAssumption
    <3> QED
      BY <1>7, <3>1, <3>2 DEF Midnight
  <2>2. \A T : Stored(T)' = Stored(T)
    BY <1>7 DEF Midnight, tables, Stored
  <2> QED
    BY <1>7, <2>1, <2>2 DEF Midnight, tables
<1> QED
  BY <1>1, <1>2, <1>3, <1>4, <1>5, <1>6, <1>7
  DEF StoreNext, InsertNode, UpdateNode, UpsertLesson, Upsert, SaveTraitState,
      CreateCheckpoint, UpsertImaginedScenario

(* Nothing an audit reads is ever taken back. *)
LEMMA Grows ==
  ASSUME StoreTypeOK, StoreNext
  PROVE  /\ sources \subseteq sources'
         /\ Stored(Node) \subseteq Stored(Node)'
         /\ \A e \in DOMAIN edges : e \in DOMAIN edges' /\ edges'[e] = edges[e]
<1>1. ASSUME NEW e \in EdgeId, NEW from \in Node, NEW to \in Node, InsertEdge(e, from, to)
      PROVE  \A d \in DOMAIN edges : d \in DOMAIN edges' /\ edges'[d] = edges[d]
  <2>1. e \notin DOMAIN edges
    BY <1>1 DEF InsertEdge, Insert, StoreTypeOK, Stored
  <2> QED
    BY <1>1, <2>1 DEF InsertEdge, Put
<1>2. ASSUME NEW row, Insert(row) \/ Update(row)
      PROVE  Stored(Node) \subseteq Stored(Node)'
  BY <1>2, SavedTyped DEF Kept, Stored
<1>3. ASSUME NEW k \in Scope, DeleteWorkingMemoryEntry(k)
      PROVE  Stored(Node) \subseteq Stored(Node)'
  BY <1>3, Disjoint DEF DeleteWorkingMemoryEntry, Without, Stored
<1>4. ASSUME UNCHANGED updated_at PROVE Stored(Node) \subseteq Stored(Node)'
  BY <1>4 DEF Stored
<1>5. Stored(Node) \subseteq Stored(Node)'
  BY <1>2, <1>3, <1>4
  DEF StoreNext, InsertNode, UpdateNode, InsertEdge, UpsertLesson, Upsert, AttachLessonSource,
      SaveTraitState, CreateCheckpoint, UpsertImaginedScenario, UpsertWorkingMemoryEntry,
      Midnight, tables
<1>6. sources \subseteq sources'
  BY DEF StoreNext, InsertNode, UpdateNode, InsertEdge, UpsertLesson, AttachLessonSource,
         SaveTraitState, CreateCheckpoint, UpsertImaginedScenario, UpsertWorkingMemoryEntry,
         DeleteWorkingMemoryEntry, Midnight, tables
<1>7. \A e \in DOMAIN edges : e \in DOMAIN edges' /\ edges'[e] = edges[e]
  BY <1>1
  DEF StoreNext, InsertNode, UpdateNode, UpsertLesson, AttachLessonSource,
      SaveTraitState, CreateCheckpoint, UpsertImaginedScenario, UpsertWorkingMemoryEntry,
      DeleteWorkingMemoryEntry, Midnight, tables
<1> QED
  BY <1>5, <1>6, <1>7

LEMMA MentionsAfter ==
  ASSUME StoreTypeOK, NEW id
  PROVE  Mentioning(Trait \union Checkpoint, id) = {r \in DOMAIN mentions : id \in mentions[r]}
BY DEF StoreTypeOK, Mentioning, Stored

-----------------------------------------------------------------------------
(* The audit *)

LEMMA InitEstablishes == Init => IInv
<1> SUFFICES ASSUME Init PROVE IInv
  OBVIOUS
<1>1. StoreTypeOK
  <2>1. PICK stored \in SUBSET (Node \union Lesson) :
          /\ updated_at = [id \in stored |-> Formatted(0)]
          /\ changed = [id \in stored |-> 0]
    BY DEF Init, StoreInit
  <2>2. Formatted(0) \in Stamp
    BY DEF Formatted, Stamp
  <2>3. Stored(EdgeId) = {} /\ Stored(Trait) = {} /\ Stored(Checkpoint) = {} /\ Stored(Scope) = {}
    BY <2>1, Disjoint DEF Stored
  <2>4. \A S : NoRows \in [{} -> S]
    BY DEF NoRows
  <2> QED
    BY <2>1, <2>2, <2>3, <2>4, AllTables DEF Init, StoreInit, StoreTypeOK
<1>2. TypeOK
  BY <1>1 DEF Init, TypeOK, NoTrail, NotSince, Trail
<1>3. NoTrail.inbound = {} /\ NoTrail.outbound = {} /\ NoTrail.lessons = {} /\ NoTrail.nodes = {}
      /\ NotSince.sources = {} /\ NotSince.neighbors = {}
  BY DEF NoTrail, NotSince
<1> QED
  BY <1>2, <1>3, NoSubjectAssumption
  DEF Init, IInv, Steps, Neighbors, Mentions, Sources, Running

LEMMA TypePreserved ==
  ASSUME IInv, [Next]_vars
  PROVE  TypeOK'
<1> USE DEF IInv, TypeOK
<1>0. ASSUME UNCHANGED storeVars PROVE StoreTypeOK'
  BY <1>0 DEF StoreTypeOK, storeVars, tables, Stored
<1>1. CASE UNCHANGED vars
  BY <1>0, <1>1 DEF vars, auditVars, storeVars, tables
<1>2. \A id : /\ GetNeighbors(id) \subseteq Node
             /\ Mentioning(Trait \union Checkpoint, id) \subseteq Trait \union Checkpoint
             /\ {s \in sources : id \in {s.node, s.lesson}} \subseteq Source
  BY DEF GetNeighbors, Mentioning, Stored, StoreTypeOK
<1>3. NoTrail \in Trail
  BY DEF NoTrail, Trail
<1>4. ASSUME NEW n \in Node, InspectNodeAudit(n) PROVE TypeOK'
  BY <1>0, <1>2, <1>3, <1>4 DEF InspectNodeAudit, Mark
<1>5. ASSUME NEW l \in Lesson, InspectLessonAudit(l) PROVE TypeOK'
  <2>1. todo' \subseteq sources'
    BY <1>5 DEF InspectLessonAudit, LoadLessonSources, storeVars, tables
  <2> QED
    BY <1>0, <1>2, <1>3, <1>5, <2>1 DEF InspectLessonAudit, Mark
<1>6. CASE LoadInboundEdges \/ LoadOutboundEdges
  <2>1. /\ LoadEdgesForNode(subject, TRUE) \subseteq EdgeId
        /\ LoadEdgesForNode(subject, FALSE) \subseteq EdgeId
    BY DEF LoadEdgesForNode, StoreTypeOK, Stored
  <2>2. trail' \in Trail
    BY <1>6, <2>1 DEF LoadInboundEdges, LoadOutboundEdges, Trail
  <2> QED
    BY <1>0, <1>6, <2>2 DEF LoadInboundEdges, LoadOutboundEdges, storeVars, tables
<1>7. CASE LoadLessonsForNode
  BY <1>0, <1>7 DEF LoadLessonsForNode, storeVars, tables
<1>8. CASE LoadLesson
  <2>1. PICK s \in todo :
          /\ todo' = todo \ {s}
          /\ trail' = IF s.lesson \in Stored(Lesson)
                       THEN [trail EXCEPT !.lessons = @ \union {Reported(s)}]
                       ELSE trail
    BY <1>8 DEF LoadLesson
  <2>2. Reported(s) \in ReportedLesson
    BY DEF StoreTypeOK, Reported, LoadLessonSources, ReportedLesson
  <2>3. trail' \in Trail
    BY <2>1, <2>2 DEF Trail
  <2> QED
    BY <1>0, <1>8, <2>1, <2>3 DEF LoadLesson, storeVars, tables
<1>9. CASE LoadNode
  <2>1. PICK s \in todo :
          /\ todo' = todo \ {s}
          /\ trail' = IF s.node \in Stored(Node)
                       THEN [trail EXCEPT !.nodes = @ \union {s}]
                       ELSE trail
    BY <1>9 DEF LoadNode
  <2>2. trail' \in Trail
    BY <2>1 DEF Trail, StoreTypeOK
  <2> QED
    BY <1>0, <1>9, <2>1, <2>2 DEF LoadNode, storeVars, tables
<1>10. CASE LoadAllTraitStates \/ LoadAllCheckpoints
  <2>1. Mentioning(Trait, subject) \union Mentioning(Checkpoint, subject) \subseteq Trait \union Checkpoint
    BY DEF Mentioning, Stored
  <2>2. trail' \in Trail
    BY <1>10, <2>1 DEF LoadAllTraitStates, LoadAllCheckpoints, Trail
  <2> QED
    BY <1>0, <1>10, <2>2 DEF LoadAllTraitStates, LoadAllCheckpoints, storeVars, tables
<1>11. CASE QueryFails
  BY <1>0, <1>3, <1>11 DEF QueryFails, NotSince
<1>12. CASE Write
  <2>1. StoreTypeOK' /\ sources \subseteq sources'
    BY <1>12, StoreTypePreserved, Grows DEF Write
  <2>2. {r \in DOMAIN mentions' : subject \in mentions'[r]} \subseteq Trait \union Checkpoint
    BY <2>1 DEF StoreTypeOK, Stored
  <2>3. since' \in [neighbors : SUBSET Node, sources : SUBSET Source,
                    always : SUBSET (Trait \union Checkpoint),
                    ever : SUBSET (Trait \union Checkpoint)]
    BY <1>12, <2>2 DEF Write
  <2> QED
    BY <1>12, <2>1, <2>3 DEF Write
<1> QED
  BY <1>1, <1>4, <1>5, <1>6, <1>7, <1>8, <1>9, <1>10, <1>11, <1>12 DEF Next, Queries

LEMMA StepsPreserved ==
  ASSUME IInv, [Next]_vars
  PROVE  Steps'
<1> USE DEF IInv, Steps
<1>1. CASE UNCHANGED vars \/ Write
  BY <1>1 DEF vars, auditVars, Write
<1>2. CASE Queries
  BY <1>2
  DEF Queries, InspectNodeAudit, InspectLessonAudit, LoadInboundEdges, LoadOutboundEdges,
      LoadLessonsForNode, LoadLesson, LoadNode, LoadAllTraitStates, LoadAllCheckpoints,
      QueryFails
<1> QED
  BY <1>1, <1>2 DEF Next

LEMMA NeighborsPreserved ==
  ASSUME IInv, [Next]_vars
  PROVE  Neighbors'
<1> USE DEF IInv
<1>1. CASE UNCHANGED vars
  BY <1>1 DEF vars, auditVars, storeVars, tables, Neighbors, OtherEnds, GetNeighbors, Stored
<1>2. ASSUME NEW n \in Node, InspectNodeAudit(n) PROVE Neighbors'
  BY <1>2
  DEF InspectNodeAudit, Mark, NoTrail, storeVars, tables, Neighbors, GetNeighbors, Stored
<1>3. ASSUME NEW l \in Lesson, InspectLessonAudit(l) PROVE Neighbors'
  BY <1>3, Disjoint DEF InspectLessonAudit, NoTrail, Neighbors
<1>4. CASE LoadInboundEdges
  <2>1. trail'.inbound = {e \in DOMAIN edges : edges[e].to = subject} /\ trail'.outbound = trail.outbound
    BY <1>4 DEF LoadInboundEdges, LoadEdgesForNode, TypeOK, Trail
  <2>2. ASSUME subject \in Node, NEW m \in since.neighbors
        PROVE  m \in OtherEnds' \/ \E e \in DOMAIN edges : edges[e].from = subject /\ edges[e].to = m
    <3>1. m \in OtherEnds \/ m \in GetNeighbors(subject)
      BY <1>4, <2>2 DEF Neighbors, LoadInboundEdges
    <3>2. CASE m \in OtherEnds
      BY <1>4, <2>1, <3>2 DEF Neighbors, OtherEnds, LoadInboundEdges, storeVars, tables
    <3>3. CASE m \in GetNeighbors(subject)
      <4>1. PICK e \in DOMAIN edges :
              \/ edges[e].from = subject /\ edges[e].to = m
              \/ edges[e].from = m /\ edges[e].to = subject
        BY <3>3 DEF GetNeighbors
      <4>2. CASE edges[e].from = m /\ edges[e].to = subject
        <5>1. e \in trail'.inbound /\ edges' = edges
          BY <1>4, <2>1, <4>2 DEF LoadInboundEdges, storeVars, tables
        <5> QED
          BY <4>2, <5>1 DEF OtherEnds
      <4> QED
        BY <4>1, <4>2
    <3> QED
      BY <3>1, <3>2, <3>3
  <2> QED
    BY <1>4, <2>1, <2>2 DEF Neighbors, LoadInboundEdges, storeVars, tables
<1>5. CASE LoadOutboundEdges
  <2>1. trail'.outbound = {e \in DOMAIN edges : edges[e].from = subject} /\ trail'.inbound = trail.inbound
    BY <1>5 DEF LoadOutboundEdges, LoadEdgesForNode, TypeOK, Trail
  <2>2. ASSUME subject \in Node, NEW m \in since.neighbors
        PROVE  m \in OtherEnds'
    <3>1. m \in OtherEnds \/ \E e \in DOMAIN edges : edges[e].from = subject /\ edges[e].to = m
      BY <1>5, <2>2 DEF Neighbors, LoadOutboundEdges
    <3> QED
      BY <1>5, <2>1, <3>1 DEF Neighbors, OtherEnds, LoadOutboundEdges, storeVars, tables
  <2>3. UNCHANGED <<edges, subject>> /\ since'.neighbors = since.neighbors
    BY <1>5 DEF LoadOutboundEdges, storeVars, tables
  <2> QED
    BY <2>1, <2>2, <2>3 DEF Neighbors
<1>6. ASSUME step \notin {"inbound_edges", "outbound_edges"}, UNCHANGED <<storeVars, subject, since>>,
             trail'.inbound = trail.inbound, trail'.outbound = trail.outbound
      PROVE  Neighbors'
  BY <1>6 DEF Neighbors, OtherEnds, storeVars, tables
<1>7. CASE LoadLessonsForNode \/ LoadLesson \/ LoadNode \/ LoadAllTraitStates \/ LoadAllCheckpoints
  <2>1. trail'.inbound = trail.inbound /\ trail'.outbound = trail.outbound
    BY <1>7
    DEF LoadLessonsForNode, LoadLesson, LoadNode, LoadAllTraitStates, LoadAllCheckpoints,
        TypeOK, Trail
  <2> QED
    BY <1>6, <1>7, <2>1
    DEF LoadLessonsForNode, LoadLesson, LoadNode, LoadAllTraitStates, LoadAllCheckpoints
<1>8. CASE QueryFails
  BY <1>8, NoSubjectAssumption DEF QueryFails, NoTrail, Neighbors
<1>9. CASE Write
  <2>1. /\ Stored(Node) \subseteq Stored(Node)'
        /\ \A e \in DOMAIN edges : e \in DOMAIN edges' /\ edges'[e] = edges[e]
    BY <1>9, Grows DEF Write, TypeOK
  <2>2. since'.neighbors = since.neighbors /\ UNCHANGED <<step, subject, trail>>
    BY <1>9 DEF Write, TypeOK
  <2>3. GetNeighbors(subject) \subseteq GetNeighbors(subject)'
    BY <2>1, <2>2 DEF GetNeighbors
  <2>4. OtherEnds' = OtherEnds
    BY <2>1, <2>2 DEF Neighbors, OtherEnds
  <2> QED
    BY <2>1, <2>2, <2>3, <2>4 DEF Neighbors
<1> QED
  BY <1>1, <1>2, <1>3, <1>4, <1>5, <1>7, <1>8, <1>9 DEF Next, Queries

LEMMA MentionsPreserved ==
  ASSUME IInv, [Next]_vars
  PROVE  Mentions'
<1> USE DEF IInv, Mentions
<1> DEFINE All == Mentioning(Trait \union Checkpoint, subject)
<1>0. ASSUME UNCHANGED storeVars PROVE \A T, id : Mentioning(T, id)' = Mentioning(T, id)
  BY <1>0 DEF storeVars, tables, Mentioning, Stored
<1>1. CASE UNCHANGED vars
  BY <1>0, <1>1 DEF vars, auditVars, Running
<1>2. ASSUME NEW n \in Node, InspectNodeAudit(n) PROVE Mentions'
  BY <1>0, <1>2 DEF InspectNodeAudit, Mark
<1>3. ASSUME NEW l \in Lesson, InspectLessonAudit(l) PROVE Mentions'
  BY <1>0, <1>3 DEF InspectLessonAudit, Mark
<1>4. CASE LoadInboundEdges \/ LoadOutboundEdges \/ LoadLessonsForNode \/ LoadLesson \/ LoadNode
  BY <1>0, <1>4
  DEF LoadInboundEdges, LoadOutboundEdges, LoadLessonsForNode, LoadLesson, LoadNode, Running
<1>5. CASE LoadAllTraitStates
  <2>1. trail'.mentioned = Mentioning(Trait, subject)
    BY <1>5 DEF LoadAllTraitStates, TypeOK, Trail
  <2>2. since.always \subseteq All /\ All \subseteq since.ever
    BY <1>5 DEF LoadAllTraitStates, Running
  <2>3. All \intersect Trait \subseteq Mentioning(Trait, subject) /\ Mentioning(Trait, subject) \subseteq All
    BY DEF Mentioning, Stored
  <2> QED
    BY <1>0, <1>5, <2>1, <2>2, <2>3 DEF LoadAllTraitStates, Running
<1>6. CASE LoadAllCheckpoints
  <2>1. trail'.mentioned = trail.mentioned \union Mentioning(Checkpoint, subject)
    BY <1>6 DEF LoadAllCheckpoints, TypeOK, Trail
  <2>2. since.always \subseteq All /\ All \subseteq since.ever
    BY <1>6 DEF LoadAllCheckpoints, Running
  <2>3. All \ Trait \subseteq Mentioning(Checkpoint, subject) /\ Mentioning(Checkpoint, subject) \subseteq All
    BY DEF Mentioning, Stored
  <2>4. /\ since.always \intersect Trait \subseteq trail.mentioned
        /\ trail.mentioned \subseteq since.ever
    BY <1>6 DEF LoadAllCheckpoints
  <2>5. since.always \subseteq trail'.mentioned /\ trail'.mentioned \subseteq since.ever
    BY <2>1, <2>2, <2>3, <2>4
  <2> QED
    BY <1>6, <2>5 DEF LoadAllCheckpoints, Running
<1>7. CASE QueryFails
  BY <1>7 DEF QueryFails, Running
<1>8. CASE Write
  <2> DEFINE after == {r \in DOMAIN mentions' : subject \in mentions'[r]}
  <2>1. StoreTypeOK'
    BY <1>8, StoreTypePreserved DEF Write, TypeOK
  <2>2. after = All'
    BY <1>8, <2>1 DEF Write, StoreTypeOK, Mentioning, Stored
  <2>3. CASE Running
    <3>1. since'.always = since.always \intersect after /\ since'.ever = since.ever \union after
      BY <1>8, <2>3 DEF Write, TypeOK
    <3> HIDE DEF after
    <3> QED
      BY <1>8, <2>2, <2>3, <3>1 DEF Write, Running
  <2>4. CASE ~Running
    BY <1>8, <2>4 DEF Write, Running
  <2> QED
    BY <2>3, <2>4
<1> QED
  BY <1>1, <1>2, <1>3, <1>4, <1>5, <1>6, <1>7, <1>8 DEF Next, Queries

LEMMA SourcesPreserved ==
  ASSUME IInv, [Next]_vars
  PROVE  Sources'
<1> USE DEF IInv
<1>1. CASE UNCHANGED vars
  BY <1>1 DEF vars, auditVars, storeVars, tables, Sources
<1>2. ASSUME NEW n \in Node, InspectNodeAudit(n) PROVE Sources'
  <2>1. since'.sources = {s \in sources : n \in {s.node, s.lesson}} /\ sources' = sources
    BY <1>2 DEF InspectNodeAudit, Mark, storeVars, tables
  <2>2. \A s \in since'.sources : s.node = n
    BY <2>1, Disjoint DEF TypeOK, StoreTypeOK, Source
  <2> QED
    BY <1>2, <2>1, <2>2, Disjoint DEF InspectNodeAudit, NoTrail, Sources
<1>3. ASSUME NEW l \in Lesson, InspectLessonAudit(l) PROVE Sources'
  <2>1. since'.sources = {s \in sources : l \in {s.node, s.lesson}} /\ sources' = sources
    BY <1>3 DEF InspectLessonAudit, Mark, storeVars, tables
  <2>2. since'.sources = {s \in sources : s.lesson = l}
    BY <2>1, Disjoint DEF TypeOK, StoreTypeOK, Source
  <2>3. todo' = {s \in sources : s.lesson = l}
    BY <1>3 DEF InspectLessonAudit, LoadLessonSources, TypeOK, StoreTypeOK, Source
  <2> QED
    BY <1>3, <2>1, <2>2, <2>3, Disjoint DEF InspectLessonAudit, NoTrail, Sources
<1>4. ASSUME UNCHANGED <<storeVars, subject, todo, since>>,
             trail'.lessons = trail.lessons, trail'.nodes = trail.nodes,
             step' \in {"outbound_edges", "lessons_for_node"} => step \in {"inbound_edges", "outbound_edges"},
             step \in {"inbound_edges", "outbound_edges", "lessons_for_node"} =>
               step' \in {"outbound_edges", "lessons_for_node"}
      PROVE  Sources'
  BY <1>4 DEF Sources, storeVars, tables
<1>5. CASE LoadInboundEdges \/ LoadOutboundEdges
  BY <1>4, <1>5 DEF LoadInboundEdges, LoadOutboundEdges, TypeOK, Trail
<1>6. CASE LoadAllTraitStates \/ LoadAllCheckpoints
  BY <1>4, <1>6 DEF LoadAllTraitStates, LoadAllCheckpoints, TypeOK, Trail
<1>7. CASE LoadLessonsForNode
  <2>1. subject \in Node /\ subject \notin Lesson
    BY <1>7, Disjoint DEF LoadLessonsForNode, Steps
  <2> QED
    BY <1>7, <2>1 DEF LoadLessonsForNode, Sources, storeVars, tables
<1>8. CASE LoadLesson
  <2>1. PICK s \in todo :
          /\ todo' = todo \ {s}
          /\ trail' = IF s.lesson \in Stored(Lesson)
                       THEN [trail EXCEPT !.lessons = @ \union {Reported(s)}]
                       ELSE trail
    BY <1>8 DEF LoadLesson
  <2>2. s \in sources /\ s.lesson \in Stored(Lesson) /\ s.role \in {"supporting", "contradicting"}
    BY DEF TypeOK, StoreTypeOK, Source
  <2>3. trail'.lessons = trail.lessons \union {Reported(s)} /\ trail'.nodes = trail.nodes
    BY <2>1, <2>2 DEF TypeOK, Trail
  <2>4. /\ Reported(s).source = s
        /\ s \in IF s.role = "supporting" THEN Reported(s).supporting ELSE Reported(s).contradicting
    BY <2>2 DEF Reported, LoadLessonSources
  <2>5. subject \in Node /\ subject \notin Lesson
    BY <1>8, Disjoint DEF LoadLesson, Steps
  <2> QED
    BY <1>8, <2>1, <2>3, <2>4, <2>5 DEF LoadLesson, Sources, storeVars, tables
<1>9. CASE LoadNode
  <2>1. PICK s \in todo :
          /\ todo' = todo \ {s}
          /\ trail' = IF s.node \in Stored(Node)
                       THEN [trail EXCEPT !.nodes = @ \union {s}]
                       ELSE trail
    BY <1>9 DEF LoadNode
  <2>2. s.node \in Stored(Node)
    BY DEF TypeOK, StoreTypeOK
  <2>3. trail'.nodes = trail.nodes \union {s} /\ trail'.lessons = trail.lessons
    BY <2>1, <2>2 DEF TypeOK, Trail
  <2>4. subject \in Lesson /\ subject \notin Node
    BY <1>9, Disjoint DEF LoadNode, Steps
  <2> QED
    BY <1>9, <2>1, <2>3, <2>4 DEF LoadNode, Sources, storeVars, tables
<1>10. CASE QueryFails
  BY <1>10, NoSubjectAssumption DEF QueryFails, NoTrail, NotSince, Sources
<1>11. CASE Write
  <2>1. sources \subseteq sources'
    BY <1>11, Grows DEF Write, TypeOK
  <2>2. since'.sources = since.sources /\ UNCHANGED <<step, subject, todo, trail>>
    BY <1>11 DEF Write, TypeOK
  <2> QED
    BY <2>1, <2>2 DEF Sources
<1> QED
  BY <1>1, <1>2, <1>3, <1>5, <1>6, <1>7, <1>8, <1>9, <1>10, <1>11 DEF Next, Queries

LEMMA NextPreserves == IInv /\ [Next]_vars => IInv'
BY TypePreserved, StepsPreserved, NeighborsPreserved, MentionsPreserved, SourcesPreserved
DEF IInv

(* What follows from the invariant when the report is handed over. *)
LEMMA Handover == IInv => AuditRegular /\ AuditEvidence
<1> SUFFICES ASSUME IInv PROVE AuditRegular /\ AuditEvidence
  OBVIOUS
<1> USE DEF IInv
<1>1. ASSUME subject \in Node PROVE OtherEnds \subseteq GetNeighbors(subject)
  <2>1. ASSUME NEW e \in DOMAIN edges
        PROVE  edges[e].from \in Stored(Node) /\ edges[e].to \in Stored(Node)
    BY DEF TypeOK, StoreTypeOK
  <2> QED
    BY <2>1 DEF Neighbors, OtherEnds, GetNeighbors
<1>2. AuditRegular
  BY <1>1 DEF AuditRegular, Neighbors, Mentions
<1>3. AuditEvidence
  BY DEF AuditEvidence, Sources, Steps
<1> QED
  BY <1>2, <1>3

-----------------------------------------------------------------------------
(* The order of lists *)

(* What a stamp says of the instant a row was changed at. *)
StampOf(stamp, at) ==
  stamp.at = IF stamp.format = "RFC3339" THEN at ELSE at - (at % 2)

Stamps == \A r \in DOMAIN updated_at : StampOf(updated_at[r], changed[r])

LEMMA Ordered ==
  ASSUME NEW a \in Int, NEW b \in Int, NEW D \in Nat \ {0},
         NEW i \in Nat, i < D, NEW j \in Nat, j < D, D * a + i >= D * b + j
  PROVE  a >= b /\ (a = b => i >= j)
<1>1. ASSUME a < b PROVE FALSE
  <2>1. b - a - 1 \in Nat /\ D * (b - a - 1) >= 0
    BY <1>1
  <2>2. D * b - D * a - D = D * (b - a - 1)
    OBVIOUS
  <2> QED
    BY <2>1, <2>2
<1> QED
  BY <1>1

LEMMA Even ==
  ASSUME NEW k \in Nat, NEW r \in Nat
  PROVE  (2 * k + r) % 2 = r % 2
OBVIOUS

LEMMA SameDay ==
  ASSUME NEW at \in Nat
  PROVE  Day(at - (at % 2)) = Day(at)
<1>1. PICK half \in Nat : DayLength = 2 * half
  BY TimeAssumption
<1>2. PICK day \in Nat, rest \in Nat :
        day = Day(at) /\ rest < DayLength /\ at = DayLength * day + rest
  BY Divided
<1>3. PICK k \in Nat : k = half * day
  OBVIOUS
<1>4. at = 2 * k + rest
  <2>1. ASSUME NEW a \in Nat, NEW b \in Nat PROVE (2 * a) * b = 2 * (a * b)
    OBVIOUS
  <2>2. DayLength * day = 2 * k
    BY <1>1, <1>3, <2>1
  <2> QED
    BY <1>2, <2>2
<1>5. at % 2 = rest % 2
  BY <1>4, Even
<1>6. PICK second \in Nat : second = at - (at % 2)
  BY Remainder
<1>7. PICK past \in Nat : past = rest - (at % 2) /\ past < DayLength
  BY <1>2, <1>5, Remainder, TimeAssumption
<1>8. PICK day2 \in Nat, rest2 \in Nat :
        day2 = Day(second) /\ rest2 < DayLength /\ second = DayLength * day2 + rest2
  BY Divided
<1>9. second = DayLength * day + past
  <2>1. at % 2 \in Nat /\ DayLength * day \in Nat
    BY Remainder, TimeAssumption
  <2> QED
    BY <1>2, <1>6, <1>7, <2>1
<1>10. DayLength * day + past >= DayLength * day2 + rest2
       /\ DayLength * day2 + rest2 >= DayLength * day + past
  <2>1. DayLength * day + past = DayLength * day2 + rest2
    BY <1>8, <1>9
  <2>2. DayLength * day + past \in Nat
    BY <1>9
  <2> QED
    BY <2>1, <2>2
<1>11. DayLength \in Nat \ {0}
  BY TimeAssumption
<1>12. day >= day2 /\ day2 >= day
  <2>1. day >= day2
    BY <1>7, <1>8, <1>10, <1>11, Ordered
  <2> QED
    BY <1>7, <1>8, <1>10, <1>11, <2>1, Ordered
<1> QED
  BY <1>2, <1>6, <1>8, <1>12

LEMMA NoLaterDay ==
  ASSUME NEW a \in Nat, NEW b \in Nat, a >= b
  PROVE  Day(a) >= Day(b)
<1>1. DayLength \in Nat \ {0}
  BY TimeAssumption
<1>2. PICK day \in Nat, rest \in Nat :
        day = Day(a) /\ rest < DayLength /\ a = DayLength * day + rest
  BY Divided
<1>3. PICK day2 \in Nat, rest2 \in Nat :
        day2 = Day(b) /\ rest2 < DayLength /\ b = DayLength * day2 + rest2
  BY Divided
<1>4. DayLength * day + rest >= DayLength * day2 + rest2
  BY <1>2, <1>3
<1>5. day >= day2
  BY <1>1, <1>2, <1>3, <1>4, Ordered
<1> QED
  BY <1>2, <1>3, <1>5

LEMMA Halves ==
  ASSUME NEW a \in Nat, NEW b \in Nat, a < b, a - (a % 2) >= b - (b % 2)
  PROVE  a \div 2 = b \div 2
OBVIOUS

LEMMA InitStamps == Init => Stamps
BY DEF Init, StoreInit, Stamps, StampOf, Formatted

LEMMA StampsPreserved ==
  ASSUME IInv, Stamps, [Next]_vars
  PROVE  Stamps'
<1> USE DEF Stamps
<1>1. ASSUME UNCHANGED <<updated_at, changed>> PROVE Stamps'
  BY <1>1
<1>2. ASSUME NEW row, Insert(row) PROVE Stamps'
  <2>1. PICK delay \in Delay :
          /\ updated_at' = Put(updated_at, row, Formatted(now - delay))
          /\ changed' = Put(changed, row, now - delay)
    BY <1>2 DEF Insert
  <2>2. StampOf(Formatted(now - delay), now - delay)
    BY DEF StampOf, Formatted
  <2> QED
    BY <2>1, <2>2 DEF Put, IInv, TypeOK, StoreTypeOK
<1>3. ASSUME NEW row, Update(row) PROVE Stamps'
  <2>1. StampOf(Touched(row), now)
    BY DEF StampOf, Touched
  <2> QED
    BY <1>3, <2>1 DEF Update, Put, IInv, TypeOK, StoreTypeOK
<1>4. ASSUME NEW k \in Scope, DeleteWorkingMemoryEntry(k) PROVE Stamps'
  BY <1>4 DEF DeleteWorkingMemoryEntry, Without, IInv, TypeOK, StoreTypeOK
<1>5. CASE Write
  BY <1>1, <1>2, <1>3, <1>4, <1>5
  DEF Write, StoreNext, InsertNode, UpdateNode, InsertEdge, UpsertLesson, Upsert,
      AttachLessonSource, SaveTraitState, CreateCheckpoint, UpsertImaginedScenario,
      UpsertWorkingMemoryEntry, Midnight, tables
<1>6. CASE Queries \/ UNCHANGED vars
  BY <1>1, <1>6
  DEF Queries, InspectNodeAudit, InspectLessonAudit, LoadInboundEdges, LoadOutboundEdges,
      LoadLessonsForNode, LoadLesson, LoadNode, LoadAllTraitStates, LoadAllCheckpoints,
      QueryFails, vars, storeVars, tables
<1> QED
  BY <1>5, <1>6 DEF Next

(* Rows r and s that a list has in this order. *)
LEMMA RowBeforeRow ==
  ASSUME StoreTypeOK, Stamps,
         NEW r \in DOMAIN updated_at, NEW s \in DOMAIN updated_at,
         TextRank(updated_at[r]) >= TextRank(updated_at[s]),
         changed[r] < changed[s]
  PROVE  /\ Day(changed[r]) = Day(changed[s])
         /\ ~Inserted(s)
         /\ Inserted(r) \/ changed[r] \div 2 = changed[s] \div 2
<1>1. PICK a \in Nat, b \in Nat, ca \in Nat, cb \in Nat :
        a = updated_at[r].at /\ b = updated_at[s].at /\ ca = changed[r] /\ cb = changed[s]
  BY DEF StoreTypeOK, Stamp
<1>2. PICK f \in {0, 1}, g \in {0, 1} :
        /\ f = (IF updated_at[r].format = "RFC3339" THEN 1 ELSE 0)
        /\ g = (IF updated_at[s].format = "RFC3339" THEN 1 ELSE 0)
  OBVIOUS
<1>3. /\ a = IF f = 1 THEN ca ELSE ca - (ca % 2)
      /\ b = IF g = 1 THEN cb ELSE cb - (cb % 2)
  BY <1>1, <1>2 DEF Stamps, StampOf
<1>4. Day(a) = Day(ca) /\ Day(b) = Day(cb)
  BY <1>3, SameDay
<1>5. PICK da \in Nat, db \in Nat : da = Day(a) /\ db = Day(b)
  BY <1>1, Divided
<1>6. PICK i \in Nat, j \in Nat :
        /\ i = a % DayLength /\ i < DayLength /\ a = DayLength * da + i
        /\ j = b % DayLength /\ j < DayLength /\ b = DayLength * db + j
  BY <1>1, <1>5, Divided
<1>7. DayLength * (2 * da + f) + i >= DayLength * (2 * db + g) + j
  BY <1>1, <1>2, <1>5, <1>6 DEF TextRank
<1>8. 2 * da + f \in Int /\ 2 * db + g \in Int /\ DayLength \in Nat \ {0}
  BY TimeAssumption
<1>9. 2 * da + f >= 2 * db + g /\ (2 * da + f = 2 * db + g => i >= j)
  BY <1>6, <1>7, <1>8, Ordered
<1>10. db >= da
  BY <1>1, <1>4, <1>5, NoLaterDay
<1>11. da = db /\ f >= g
  BY <1>9, <1>10
<1>12. f = g => a >= b
  <2>1. DayLength * da \in Nat
    BY TimeAssumption
  <2> QED
    BY <1>6, <1>9, <1>11, <2>1
<1>13. g = 0
  BY <1>1, <1>3, <1>11, <1>12
<1>14. f = 1 \/ ca \div 2 = cb \div 2
  <2>1. CASE f = 0
    <3>1. ca - (ca % 2) >= cb - (cb % 2) /\ ca < cb
      BY <1>1, <1>3, <1>12, <1>13, <2>1
    <3> QED
      BY <3>1, Halves
  <2> QED
    BY <1>2, <2>1
<1> QED
  BY <1>1, <1>2, <1>4, <1>5, <1>11, <1>13, <1>14 DEF Inserted

LEMMA OrderOfLists == StoreTypeOK /\ Stamps => LatestDayFirst
<1> SUFFICES ASSUME StoreTypeOK, Stamps, NEW T \in Lists, NEW limit \in Limit,
                    NEW list \in Recent(T, limit), NEW r \in list, NEW s \in Stored(T) \ list
             PROVE  \/ changed[r] >= changed[s]
                    \/ /\ Day(changed[r]) = Day(changed[s])
                       /\ ~Inserted(s)
                       /\ Inserted(r) \/ changed[r] \div 2 = changed[s] \div 2
  BY DEF LatestDayFirst
<1>1. /\ r \in Stored(T)
      /\ TextRank(updated_at[r]) >= TextRank(updated_at[s])
  BY DEF Recent, Top
<1>2. r \in DOMAIN updated_at /\ s \in DOMAIN updated_at
  BY <1>1 DEF Stored
<1>3. changed[r] \in Nat /\ changed[s] \in Nat
  BY <1>2 DEF StoreTypeOK
<1> QED
  BY <1>1, <1>2, <1>3, RowBeforeRow

-----------------------------------------------------------------------------
(* Theorems *)

(* The types hold, and the foreign keys: no edge and no source of a lesson *)
(* is without its rows, whatever the audit reads meanwhile.                *)
THEOREM TypeCorrect == Spec => []TypeOK
<1>1. IInv => TypeOK
  BY DEF IInv
<1> QED
  BY InitEstablishes, NextPreserves, <1>1, PTL DEF Spec

(* A report put together from queries of different moments misses nothing  *)
(* that was there all the while, and shows nothing that never was.         *)
THEOREM AuditIsRegular == Spec => []AuditRegular
BY InitEstablishes, NextPreserves, Handover, PTL DEF Spec

(* Its lessons carry the sources by which they were found, and none of the *)
(* sources of the beginning is lost.                                       *)
THEOREM AuditKeepsEvidence == Spec => []AuditEvidence
BY InitEstablishes, NextPreserves, Handover, PTL DEF Spec

(* Whatever the formats of updated_at, no list puts a row of an earlier day *)
(* before one of a later day, and what it does put wrong are updates of     *)
(* today behind insertions of today, or updates of one second.              *)
THEOREM ListsShowTheLatestDayFirst == Spec => []LatestDayFirst
<1>1. IInv => StoreTypeOK
  BY DEF IInv, TypeOK
<1>2. IInv /\ Stamps /\ [Next]_vars => Stamps'
  BY StampsPreserved
<1> QED
  BY InitEstablishes, NextPreserves, InitStamps, OrderOfLists, <1>1, <1>2, PTL DEF Spec
=============================================================================
