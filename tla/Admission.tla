------------------------------ MODULE Admission ------------------------------
(***************************************************************************)
(* memory-ingest: an event is made into candidate nodes and edges, and     *)
(* admission decides over the nodes that an agent has listed which of them *)
(* are stored.                                                             *)
(*                                                                         *)
(* A text is the set of its words, lower-cased and without punctuation,    *)
(* and the words in it that are written as names or with a hyphen.  A cue  *)
(* like "error" is a word of its own.  Texts are not empty, and summaries, *)
(* which repeat words of the text, are not cut.  Candidate lessons and the *)
(* salience score decide nothing and are left out, except that a lesson    *)
(* adds an edge to every candidate.                                        *)
(*                                                                         *)
(* Scores are hundredths, similarities parts of Whole, which every size of *)
(* a node's terms divides.  At a threshold it depends on the rounding of   *)
(* f32 which side a sum of weights is on, so both are possible.            *)
(*                                                                         *)
(* An operator named X_Something is X with a fault seeded in it; no other  *)
(* definition uses it.                                                     *)
(***************************************************************************)
EXTENDS Ranking

CONSTANTS
  Ingestion,        \* the calls agents make, each with an event of its own
  Event,            \* what may happen; kind, name of its tool or kind of
                    \* system event, words, the names and hyphened among them
  Short,            \* the words of at most two bytes
  NoDuplicate,      \* None
  MaxFailures,      \* bound: store calls that fail
  \* AdmissionPolicy
  MinTotal, MinConnectedness, MinRootImportance, MergeSimilarity, AttachSimilarity

Message == {"user_message", "assistant_message"}
Kind == Message \union {"tool_result", "system_event"}

Whole == 27720

ASSUME EventAssumption ==
  \A e \in Event :
    /\ e.kind \in Kind
    /\ e.kind \in Message <=> e.name = "conversation"
    /\ IsFiniteSet(e.words) /\ e.words # {}
    /\ e.names \union e.hyphened \subseteq e.words
ASSUME PolicyAssumption ==
  /\ {MinTotal, MinConnectedness, MinRootImportance} \subseteq 0..100
  /\ {MergeSimilarity, AttachSimilarity} \subseteq 0..Whole
  /\ MaxFailures \in Nat

VARIABLES
  nodes,        \* the nodes table: the ids of what was admitted
  event,        \* the event of each call
  stage,        \* where it is
  context,      \* the existing_nodes it evaluates against
  decision,     \* AdmissionDecision of each candidate
  pending,      \* the candidates it has still to insert
  \* history
  raced,        \* the calls that inserted over nodes they had not listed
  failures

vars == <<nodes, event, stage, context, decision, pending, raced, failures>>

-----------------------------------------------------------------------------
(* IngestPipeline::extract *)

Says(e, cues) == e.words \intersect cues # {}

(* extract_entities: a tool result mentions its tool first of all. *)
Entities(e) ==
  e.names \union e.hyphened \union (IF e.kind = "tool_result" THEN {e.name} ELSE {})

(* infer_entity_type *)
EntityType(e, w) ==
  CASE e.kind = "tool_result" /\ w = e.name -> "tool"
    [] w \in {"cargo", "rust", "sqlite", "turso", "libsql"} -> "tool"
    [] w \in {"project", "nodamem"} -> "project"
    [] w \in e.names -> "person"
    [] OTHER -> "topic"

Lessons(e) ==
  IF Says(e, {"should", "learned", "remember", "best practice"}) THEN 1 ELSE 0

Title(e) == IF e.kind \in Message THEN e.kind ELSE e.kind \o ":" \o e.name

(* base_importance and importance_from_text *)
Importance(e) ==
  (IF e.kind = "user_message" THEN 55
   ELSE IF e.kind = "assistant_message" THEN 45
   ELSE IF e.kind = "tool_result" THEN 65 ELSE 50)
    + (IF Says(e, {"error", "failed", "important"}) THEN 15 ELSE 0)
    + (IF Says(e, {"remember", "should"}) THEN 10 ELSE 0)

Source(e) ==
  IF e.kind = "user_message" THEN "user"
  ELSE IF e.kind = "assistant_message" THEN "assistant"
  ELSE IF e.kind = "tool_result" THEN "tool" ELSE "system"

UtilityCue == {"error", "failed", "remember", "should"}

(* What admission sees of a candidate: its normalized_terms, the edges of  *)
(* the proposal that end in it, and whether it is worded as useful.        *)
(* build_candidate_nodes, build_entity_edges, build_lesson_edges.          *)
CoreNode(e) ==
  [terms      |-> {Title(e)} \union (e.words \ Short),
   tags       |-> {e.name, Source(e)},
   importance |-> Importance(e),
   edges      |-> Cardinality(Entities(e)) + Lessons(e),
   lesson     |-> Lessons(e) > 0,
   cue        |-> e.kind = "tool_result" \/ Says(e, UtilityCue)]

(* build_entity_nodes: all entities of a type share a summary. *)
EntityNode(e, w) ==
  [terms      |-> {"extracted", EntityType(e, w), "entity", "from", "event"}
                    \union ({w} \ Short),
   tags       |-> {"entity", EntityType(e, w)},
   importance |-> 35,
   edges      |-> 1 + Lessons(e),
   lesson     |-> Lessons(e) > 0,
   cue        |-> w \in UtilityCue]

(* A candidate is named by the title its node gets. *)
Titles(e) == {Title(e)} \union Entities(e)

Candidate(e, title) == IF title = Title(e) THEN CoreNode(e) ELSE EntityNode(e, title)

(* Whole is a multiple of every number of terms a node of the model has.   *)
ASSUME TermsAssumption ==
  \A e \in Event : \A t \in Titles(e) : Cardinality(Candidate(e, t).terms) \in 1..12

Id == [call : Ingestion, title : UNION {Titles(e) : e \in Event}]

ASSUME NoDuplicateAssumption == NoDuplicate \notin Id

Row(id) == Candidate(event[id.call], id.title)

-----------------------------------------------------------------------------
(* AdmissionEngine::evaluate_candidate *)

(* similarity_score *)
Similarity(c, d) ==
  Cardinality(c.terms \intersect d.terms)
    * (Whole \div Higher(Cardinality(c.terms), Cardinality(d.terms)))

Duplicates_Any(c, known) == known
Duplicates(c, known) == {n \in known : Similarity(c, Row(n)) >= (65 * Whole) \div 100}

(* find_duplicate *)
Duplicate(c, known) ==
  IF Duplicates(c, known) = {} THEN {NoDuplicate}
  ELSE {n \in Duplicates(c, known) :
          \A m \in Duplicates(c, known) : Similarity(c, Row(n)) >= Similarity(c, Row(m))}

Connectedness(c, known) ==
  Lower(100, 25 * c.edges + IF \E n \in known : Row(n).tags \intersect c.tags # {}
                            THEN 35 ELSE 0)

Usefulness(c) ==
  Lower(100, 30 + (IF c.lesson THEN 20 ELSE 0) + (IF c.cue THEN 30 ELSE 0))

(* recurrence_score, in thirds *)
Recurrence(c, known) ==
  Lower(3, Cardinality({n \in known : Cardinality(c.terms \intersect Row(n).terms) >= 2}))

Novelty(c, match) == IF match = NoDuplicate THEN Whole ELSE Whole - Similarity(c, Row(match))

(* build_admission_score, of 100 * 100 * Whole *)
Total(c, known, match) ==
  (25 * Connectedness(c, known) + 20 * Usefulness(c) + 500 * Recurrence(c, known)
     + 25 * c.importance) * Whole + 1500 * Novelty(c, match)

Bar == 100 * MinTotal * Whole

Reaches(x, threshold) ==
  {b \in BOOLEAN : (x > threshold => b) /\ (x < threshold => ~b)}

Decided_CreateFirst(c, match, worthy, enough) ==
  LET similar(s) == match # NoDuplicate /\ Similarity(c, Row(match)) >= s IN
  CASE worthy /\ enough                     -> "CreateNewNode"
    [] similar(MergeSimilarity)             -> "MergeIntoExistingNode"
    [] similar(AttachSimilarity) /\ enough  -> "AttachAsEvidence"
    [] OTHER                                -> "Reject"
Decided(c, match, worthy, enough) ==
  LET similar(s) == match # NoDuplicate /\ Similarity(c, Row(match)) >= s IN
  IF similar(MergeSimilarity) THEN "MergeIntoExistingNode"
  ELSE IF similar(AttachSimilarity) /\ enough THEN "AttachAsEvidence"
  ELSE IF worthy /\ enough THEN "CreateNewNode"
  ELSE "Reject"

Decisions(c, known) ==
  UNION {
    {[action |-> Decided(c, match, worthy \/ Connectedness(c, known) >= MinConnectedness, enough),
      target |-> match] :
       worthy \in Reaches(c.importance, MinRootImportance),
       enough \in Reaches(Total(c, known, match), Bar)} :
    match \in Duplicate(c, known)}

-----------------------------------------------------------------------------
(* Agents that ingest *)

Init ==
  /\ nodes = {}
  /\ event = [i \in {} |-> {}]
  /\ stage = [i \in Ingestion |-> "idle"]
  /\ context = [i \in Ingestion |-> {}]
  /\ decision = [i \in Ingestion |-> [t \in {} |-> {}]]
  /\ pending = [i \in Ingestion |-> {}]
  /\ raced = {}
  /\ failures = 0

Created_AndEvidence(decided) ==
  {t \in DOMAIN decided : decided[t].action \in {"CreateNewNode", "AttachAsEvidence"}}
Created(decided) == {t \in DOMAIN decided : decided[t].action = "CreateNewNode"}

(* The nodes are listed, the event is ingested and all of its candidates   *)
(* are evaluated, each against the list and none against another.          *)
Evaluate(i) ==
  /\ stage[i] = "idle"
  /\ \E e \in Event :
       LET choices == [t \in Titles(e) |-> Decisions(Candidate(e, t), nodes)] IN
       \E decided \in [Titles(e) -> UNION Range(choices)] :
         /\ \A t \in Titles(e) : decided[t] \in choices[t]
         /\ event' = [j \in DOMAIN event \union {i} |-> IF j = i THEN e ELSE event[j]]
         /\ decision' = [decision EXCEPT ![i] = decided]
         /\ pending' = [pending EXCEPT ![i] = Created(decided)]
  /\ context' = [context EXCEPT ![i] = nodes]
  /\ stage' = [stage EXCEPT ![i] = "storing"]
  /\ UNCHANGED <<nodes, raced, failures>>

(* The INSERT of insert_node. *)
Insert(i, t) ==
  /\ nodes' = nodes \union {[call |-> i, title |-> t]}
  /\ raced' = IF \E n \in nodes \ context[i] : n.call # i THEN raced \union {i} ELSE raced

InsertNode(i, t) ==
  /\ stage[i] = "storing"
  /\ t \in pending[i]
  /\ Insert(i, t)
  /\ pending' = [pending EXCEPT ![i] = @ \ {t}]
  /\ UNCHANGED <<event, stage, context, decision, failures>>

(* The call fails, before the row is there or when it is read back, or the *)
(* agent stops; the rest of the candidates is given up.                    *)
InsertFails(i, t) ==
  /\ stage[i] = "storing"
  /\ t \in pending[i]
  /\ failures < MaxFailures
  /\ \/ Insert(i, t)
     \/ UNCHANGED <<nodes, raced>>
  /\ failures' = failures + 1
  /\ stage' = [stage EXCEPT ![i] = "failed"]
  /\ UNCHANGED <<event, context, decision, pending>>

Finish(i) ==
  /\ stage[i] = "storing"
  /\ pending[i] = {}
  /\ stage' = [stage EXCEPT ![i] = "done"]
  /\ UNCHANGED <<nodes, event, context, decision, pending, raced, failures>>

Next ==
  \E i \in Ingestion :
    \/ Evaluate(i)
    \/ \E t \in pending[i] : InsertNode(i, t) \/ InsertFails(i, t)
    \/ Finish(i)

Spec == Init /\ [][Next]_vars

-----------------------------------------------------------------------------
(* Properties *)

Decision == [action : {"CreateNewNode", "MergeIntoExistingNode", "AttachAsEvidence", "Reject"},
             target : Id \union {NoDuplicate}]

(* What is inserted was decided to be created.  Decisions name nodes that  *)
(* were listed, and none that is created has been found in another.        *)
TypeOK ==
  /\ DOMAIN event \subseteq Ingestion /\ Range(event) \subseteq Event
  /\ stage \in [Ingestion -> {"idle", "storing", "done", "failed"}]
  /\ nodes \subseteq {n \in Id : n.call \in DOMAIN event}
  /\ raced \subseteq Ingestion /\ failures \in 0..MaxFailures
  /\ \A i \in Ingestion :
       /\ context[i] \subseteq nodes
       /\ decision[i] \in [DOMAIN decision[i] -> Decision]
       /\ \A t \in DOMAIN decision[i] :
            decision[i][t].target \in context[i] \union {NoDuplicate}
       /\ \A t \in pending[i] \union {n.title : n \in {m \in nodes : m.call = i}} :
            decision[i][t].action = "CreateNewNode"

(* However often agents tell of the same thing, in the same words or in    *)
(* others: two nodes that admission would have merged came from one event, *)
(* or their agents raced.                                                  *)
TwinsOnlyByRace ==
  \A n, m \in nodes :
    /\ n.call # m.call
    /\ Similarity(Row(n), Row(m)) >= MergeSimilarity
    => {n.call, m.call} \intersect raced # {}

(* A candidate that is worth a node in an empty store. *)
WorthyAlone(c) ==
  /\ Connectedness(c, {}) >= MinConnectedness \/ c.importance > MinRootImportance
  /\ Total(c, {}, NoDuplicate) > Bar

(* What is worth keeping is kept: once its event is dealt with, it has a   *)
(* node, or there is one that says nearly the same - in whatever store the *)
(* event arrived.  No score that falls as the store fills can lose it.     *)
WorthyIsKept ==
  \A i \in Ingestion :
    stage[i] = "done" =>
      \A t \in Titles(event[i]) :
        LET c == Candidate(event[i], t) IN
        WorthyAlone(c) => \E n \in nodes : 100 * Similarity(c, Row(n)) >= 65 * Whole
=============================================================================
