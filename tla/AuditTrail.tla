----------------------------- MODULE AuditTrail -----------------------------
(***************************************************************************)
(* inspect_node_audit and inspect_lesson_audit of StoreRepository: reports *)
(* put together from several queries, without a transaction, while other   *)
(* connections write.  There is a step for each query.  Of a lesson, a     *)
(* node, an edge, a trait or a checkpoint in a report the module keeps     *)
(* which one it is, and of a lesson its sources; the texts of a report,    *)
(* and the order of its lists, are left out.                               *)
(***************************************************************************)
EXTENDS MemoryTables

CONSTANT NoSubject

ASSUME NoSubjectAssumption == NoSubject \notin Node \union Lesson

VARIABLES
  step,      \* the next query of the audit that runs
  subject,   \* the node or lesson it is about
  todo,      \* the rows of lesson_sources it has yet to follow
  trail,     \* NodeAuditTrail or LessonAuditTrail, as far as it is filled
  since      \* history: what held when it began, and what held meanwhile

auditVars == <<step, subject, todo, trail, since>>
vars == <<storeVars, auditVars>>

Running == step \notin {"idle", "done"}

-----------------------------------------------------------------------------
(* The queries *)

LoadEdgesForNode_EitherWay(n, inbound) == {e \in DOMAIN edges : edges[e].to = n}
LoadEdgesForNode(n, inbound) ==
  {e \in DOMAIN edges : n = IF inbound THEN edges[e].to ELSE edges[e].from}

(* load_lesson_sources: the two lists of a lesson, here of source rows.    *)
LoadLessonSources_MixedUp(l) ==
  [supporting    |-> {s \in sources : s.lesson = l},
   contradicting |-> {}]
LoadLessonSources(l) ==
  [supporting    |-> {s \in sources : s.lesson = l /\ s.role = "supporting"},
   contradicting |-> {s \in sources : s.lesson = l /\ s.role = "contradicting"}]

(* load_all_trait_states or load_all_checkpoints, filtered. *)
Mentioning(T, id) == {r \in Stored(T) : id \in mentions[r]}

-----------------------------------------------------------------------------
(* The steps *)

NoTrail == [inbound |-> {}, outbound |-> {}, lessons |-> {}, nodes |-> {},
            mentioned |-> {}]

NotSince == [neighbors |-> {}, sources |-> {}, always |-> {}, ever |-> {}]

(* History: the audit begins. *)
Mark(id) ==
  since' = [neighbors |-> GetNeighbors(id),
            sources   |-> {s \in sources : id \in {s.node, s.lesson}},
            always    |-> Mentioning(Trait \union Checkpoint, id),
            ever      |-> Mentioning(Trait \union Checkpoint, id)]

(* get_node_by_id finds the node. *)
InspectNodeAudit(n) ==
  /\ ~Running
  /\ n \in Stored(Node)
  /\ step' = "inbound_edges"
  /\ subject' = n
  /\ todo' = {}
  /\ trail' = NoTrail
  /\ Mark(n)
  /\ UNCHANGED storeVars

LoadInboundEdges ==
  /\ step = "inbound_edges"
  /\ trail' = [trail EXCEPT !.inbound = LoadEdgesForNode(subject, TRUE)]
  /\ step' = "outbound_edges"
  /\ UNCHANGED <<storeVars, subject, todo, since>>

LoadOutboundEdges ==
  /\ step = "outbound_edges"
  /\ trail' = [trail EXCEPT !.outbound = LoadEdgesForNode(subject, FALSE)]
  /\ step' = "lessons_for_node"
  /\ UNCHANGED <<storeVars, subject, todo, since>>

(* load_lessons_for_node: the sources, then the lesson of each. *)
LoadLessonsForNode ==
  /\ step = "lessons_for_node"
  /\ todo' = {s \in sources : s.node = subject}
  /\ step' = "lessons"
  /\ UNCHANGED <<storeVars, subject, trail, since>>

Reported(s) ==
  [source |-> s, supporting |-> LoadLessonSources(s.lesson).supporting,
   contradicting |-> LoadLessonSources(s.lesson).contradicting]

LoadLesson ==
  /\ step = "lessons"
  /\ \E s \in todo :
       /\ todo' = todo \ {s}
       /\ trail' = IF s.lesson \in Stored(Lesson)
                   THEN [trail EXCEPT !.lessons = @ \union {Reported(s)}]
                   ELSE trail
  /\ UNCHANGED <<storeVars, step, subject, since>>

(* load_lesson finds the lesson and its sources. *)
InspectLessonAudit(l) ==
  /\ ~Running
  /\ l \in Stored(Lesson)
  /\ step' = "nodes"
  /\ subject' = l
  /\ LET lists == LoadLessonSources(l)
     IN  todo' = lists.supporting \union lists.contradicting
  /\ trail' = NoTrail
  /\ Mark(l)
  /\ UNCHANGED storeVars

(* load_nodes_by_ids, a query for each id, the supporting ones first. *)
LoadNode ==
  /\ step = "nodes"
  /\ \E s \in todo :
       /\ s.role = "supporting" \/ \A r \in todo : r.role = "contradicting"
       /\ todo' = todo \ {s}
       /\ trail' = IF s.node \in Stored(Node)
                   THEN [trail EXCEPT !.nodes = @ \union {s}]
                   ELSE trail
  /\ UNCHANGED <<storeVars, step, subject, since>>

LoadAllTraitStates ==
  /\ step \in {"lessons", "nodes"}
  /\ todo = {}
  /\ trail' = [trail EXCEPT !.mentioned = Mentioning(Trait, subject)]
  /\ step' = "checkpoints"
  /\ UNCHANGED <<storeVars, subject, todo, since>>

LoadAllCheckpoints ==
  /\ step = "checkpoints"
  /\ trail' = [trail EXCEPT !.mentioned = @ \union Mentioning(Checkpoint, subject)]
  /\ step' = "done"
  /\ UNCHANGED <<storeVars, subject, todo, since>>

(* A query fails, and the call with it. *)
QueryFails ==
  /\ Running
  /\ step' = "idle"
  /\ subject' = NoSubject
  /\ todo' = {}
  /\ trail' = NoTrail
  /\ since' = NotSince
  /\ UNCHANGED storeVars

Queries ==
  \/ \E n \in Node : InspectNodeAudit(n)
  \/ \E l \in Lesson : InspectLessonAudit(l)
  \/ LoadInboundEdges
  \/ LoadOutboundEdges
  \/ LoadLessonsForNode
  \/ LoadLesson
  \/ LoadNode
  \/ LoadAllTraitStates
  \/ LoadAllCheckpoints
  \/ QueryFails

-----------------------------------------------------------------------------
(* Another connection writes, and history follows. *)
Write ==
  /\ StoreNext
  /\ LET after == {r \in DOMAIN mentions' : subject \in mentions'[r]}
     IN  since' = IF Running THEN [since EXCEPT !.always = @ \intersect after,
                                                !.ever   = @ \union after]
                  ELSE since
  /\ UNCHANGED <<step, subject, todo, trail>>

Init ==
  /\ StoreInit
  /\ step = "idle"
  /\ subject = NoSubject
  /\ todo = {}
  /\ trail = NoTrail
  /\ since = NotSince

Next == Queries \/ Write

Spec == Init /\ [][Next]_vars

-----------------------------------------------------------------------------
(* Properties *)

ReportedLesson == [source : Source, supporting : SUBSET Source,
                   contradicting : SUBSET Source]

Trail == [inbound : SUBSET EdgeId, outbound : SUBSET EdgeId,
          lessons : SUBSET ReportedLesson, nodes : SUBSET Source,
          mentioned : SUBSET (Trait \union Checkpoint)]

TypeOK ==
  /\ StoreTypeOK
  /\ step \in {"idle", "inbound_edges", "outbound_edges", "lessons_for_node",
               "lessons", "nodes", "checkpoints", "done"}
  /\ subject \in Node \union Lesson \union {NoSubject}
  /\ todo \subseteq sources
  /\ trail \in Trail
  /\ since \in [neighbors : SUBSET Node, sources : SUBSET Source,
                always : SUBSET (Trait \union Checkpoint),
                ever : SUBSET (Trait \union Checkpoint)]

OtherEnds == {edges[e].from : e \in trail.inbound} \union {edges[e].to : e \in trail.outbound}

(* A report is torn: its parts are of different moments.  But it misses    *)
(* nothing that was there all the while the call ran, and shows nothing    *)
(* that was not there at some moment of it.  The ends of its edges, from   *)
(* two queries, are the neighbors that the one query of get_neighbors      *)
(* finds, those of the beginning at least and those of now at most; its    *)
(* traits and checkpoints mentioned the subject.                           *)
AuditRegular ==
  step = "done" =>
    /\ subject \in Node => /\ since.neighbors \subseteq OtherEnds
                           /\ OtherEnds \subseteq GetNeighbors(subject)
    /\ since.always \subseteq trail.mentioned
    /\ trail.mentioned \subseteq since.ever

(* A lesson is reported with a role that its own list of sources, which is *)
(* read later, confirms; and no source there was at the beginning is lost  *)
(* on the way through ids, neither for a node nor for a lesson, of which   *)
(* the evidence is counted.                                                *)
AuditEvidence ==
  step = "done" =>
    /\ \A l \in trail.lessons :
         l.source \in IF l.source.role = "supporting" THEN l.supporting
                      ELSE l.contradicting
    /\ subject \in Node => since.sources \subseteq {l.source : l \in trail.lessons}
    /\ subject \in Lesson => since.sources = trail.nodes
=============================================================================
