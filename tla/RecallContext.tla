---------------------------- MODULE RecallContext ----------------------------
(***************************************************************************)
(* RetrievalEngine::recall_context of memory-retrieval: from the hits of a *)
(* query, over the graph around them, to the packet an agent gets.         *)
(*                                                                         *)
(* The agent hands over the nodes, edges and lessons it listed, one list   *)
(* after the other, so an edge or a lesson may speak of a node that is not *)
(* among the nodes.  What Tantivy finds is part of the request as well,    *)
(* and so is node_embeddings as it is when the search gets to it: one row  *)
(* a node, of whatever model it was last embedded with, with its cosine    *)
(* similarity to the query.  NullVectorSearch, like a blank query, is a    *)
(* request without rows.                                                   *)
(*                                                                         *)
(* All scores, weights and parts of a weight are hundredths.  Where the    *)
(* code sorts, any order of what compares equal is possible.               *)
(*                                                                         *)
(* An operator named X_Something is X with a fault seeded in it; no other  *)
(* definition uses it.                                                     *)
(***************************************************************************)
EXTENDS MemoryRecords, Ranking

CONSTANTS
  Recency,            \* recency_score of each node
  Request,            \* the requests that are made
  \* RetrievalPolicy
  VectorLimit, CoreNodeLimit, NeighborLimit, LessonLimit, MinScore, MaxHops,
  MaxCandidates,
  LexicalWeight, VectorWeight, EdgeStrengthWeight, RecencyWeight,
  ImportanceWeight, ConfidenceWeight

ASSUME RecencyAssumption == Recency \in [Node -> Unit]

(* Tantivy scores are positive, and its index has the nodes of the request.*)
ASSUME RequestAssumption ==
  \A r \in Request :
    /\ r.nodes \subseteq Node
    /\ r.edges \subseteq Edge
    /\ r.lessons \subseteq Lesson
    /\ DOMAIN r.lexical \subseteq r.nodes
    /\ r.lexical \in [DOMAIN r.lexical -> Nat \ {0}]
    /\ DOMAIN r.embeddings \subseteq Node
    /\ \A n \in DOMAIN r.embeddings : r.embeddings[n].similarity \in -100..100

ASSUME PolicyAssumption ==
  /\ {VectorLimit, CoreNodeLimit, NeighborLimit, LessonLimit, MaxHops, MaxCandidates} \subseteq Nat
  /\ {MinScore, LexicalWeight, VectorWeight, EdgeStrengthWeight, RecencyWeight,
      ImportanceWeight, ConfidenceWeight} \subseteq Nat

VARIABLES
  recall,       \* where the call of recall_context is
  request,      \* what it works on
  vector,       \* vector_hits: a score of each node hit
  queue,        \* the queue of GraphExpander::expand, of <<node, hop>>
  visited,
  candidates,   \* its candidates, a function of the nodes in it
  ranked,       \* total score of each candidate merge_and_rank kept
  packet        \* the nodes, edges and lessons of the MemoryPacket

recallVars == <<recall, request, vector, queue, visited, candidates, ranked, packet>>

-----------------------------------------------------------------------------
(* recall_context, up to the graph expansion *)

VectorPage_AnyModel ==
  Top(DOMAIN request.embeddings, VectorLimit,
      [n \in DOMAIN request.embeddings |-> request.embeddings[n].similarity])
(* search_node_embeddings: the rows nearest to the query, of its model.    *)
VectorPage ==
  LET rows == {n \in DOMAIN request.embeddings :
                 request.embeddings[n].model = request.model}
  IN  Top(rows, VectorLimit, [n \in rows |-> request.embeddings[n].similarity])

(* TursoVectorSearch: of that page what the request has, however few.      *)
VectorHits(page) ==
  [n \in page \intersect request.nodes |-> Higher(0, request.embeddings[n].similarity)]

SeedNodeIds(hits) == DOMAIN request.lexical \union DOMAIN hits
Seeds == SeedNodeIds(vector)

NoCandidates == [n \in {} |-> {}]

(* The searches, and the start of expand. *)
Search ==
  /\ recall = "searching"
  /\ \E page \in VectorPage :
       LET hits == VectorHits(page) IN
       /\ vector' = hits
       /\ visited' = SeedNodeIds(hits)
       /\ \E order \in SetToSeqs(SeedNodeIds(hits)) :
            queue' = [k \in DOMAIN order |-> <<order[k], 0>>]
  /\ recall' = "expanding"
  /\ UNCHANGED <<request, candidates, ranked, packet>>

(* parse_query rejects the text, or the vector search fails. *)
SearchFails ==
  /\ recall = "searching"
  /\ recall' = "failed"
  /\ UNCHANGED <<request, vector, queue, visited, candidates, ranked, packet>>

-----------------------------------------------------------------------------
(* GraphExpander::expand *)

(* The adjacency lists: edges between two nodes of the request count both  *)
(* ways.                                                                   *)
EdgesBetween(n, m) ==
  {e \in request.edges : /\ <<e.from, e.to>> \in {<<n, m>>, <<m, n>>}
                         /\ {n, m} \subseteq request.nodes}

Neighbors(n) == {m \in request.nodes : EdgesBetween(n, m) # {}}

Strongest(n, m) == Max({e.weight : e \in EdgesBetween(n, m)})

(* The entry of a neighbor met over an edge of this weight. *)
Met_KeepsFirst(n, weight, hop) ==
  IF n \in DOMAIN candidates THEN candidates[n]
  ELSE [edge_strength |-> weight, hop_distance |-> hop]
Met(n, weight, hop) ==
  IF n \in DOMAIN candidates
  THEN [edge_strength |-> Higher(candidates[n].edge_strength, weight),
        hop_distance  |-> Lower(candidates[n].hop_distance, hop)]
  ELSE [edge_strength |-> weight, hop_distance |-> hop]

Found_OneHopMore(current, hop) == IF hop > MaxHops THEN {} ELSE Neighbors(current)
Found(current, hop) == IF hop >= MaxHops THEN {} ELSE Neighbors(current)

(* One turn of the loop over the queue. *)
Expand ==
  /\ recall = "expanding"
  /\ queue # <<>>
  /\ LET current == Head(queue)[1]
         hop     == Head(queue)[2]
         found   == Found(current, hop)
     IN  /\ candidates' =
              [n \in DOMAIN candidates \union (found \ Seeds) |->
                 IF n \in found THEN Met(n, Strongest(current, n), hop + 1)
                 ELSE candidates[n]]
         /\ visited' = visited \union found
         /\ \E order \in SetToSeqs(found \ visited) :
              queue' = Tail(queue) \o [k \in DOMAIN order |-> <<order[k], hop + 1>>]
  /\ UNCHANGED <<recall, request, vector, ranked, packet>>

(* The strongest candidates, the nearer ones first. *)
Kept ==
  Top(DOMAIN candidates, MaxCandidates,
      [n \in DOMAIN candidates |->
         candidates[n].edge_strength * (MaxHops + 1) - candidates[n].hop_distance])

-----------------------------------------------------------------------------
(* merge_and_rank *)

LexicalScore(n) ==
  IF n \in DOMAIN request.lexical
  THEN (100 * request.lexical[n])
         \div Max({request.lexical[m] : m \in DOMAIN request.lexical} \union {100})
  ELSE 0

VectorScore(n) == IF n \in DOMAIN vector THEN vector[n] ELSE 0

EdgeStrength(n, kept) == IF n \in kept THEN candidates[n].edge_strength ELSE 0

(* A score of one: hundredths, times the hundredths of a weight. *)
Full == 10000

Total(n, kept) ==
  Lower(Full, LexicalScore(n) * LexicalWeight + VectorScore(n) * VectorWeight
                 + EdgeStrength(n, kept) * EdgeStrengthWeight
                 + Recency[n] * RecencyWeight + Importance[n] * ImportanceWeight
                 + Confidence[n] * ConfidenceWeight)

Ranked(kept) ==
  {n \in request.nodes :
     LexicalScore(n) > 0 \/ VectorScore(n) > 0 \/ EdgeStrength(n, kept) > 0}

MergeAndRank ==
  /\ recall = "expanding"
  /\ queue = <<>>
  /\ \E kept \in Kept :
       ranked' = [n \in Ranked(kept) |-> Total(n, kept)]
  /\ recall' = "ranked"
  /\ UNCHANGED <<request, vector, queue, visited, candidates, packet>>

-----------------------------------------------------------------------------
(* assemble_memory_packet *)

LessonScore_Confident(l, selected) ==
  40 * Cardinality(Supporting[l] \intersect selected) * 100 + 60 * LessonConfidence[l]
LessonScore(l, selected) ==
  60 * Cardinality(Supporting[l] \intersect selected) * 100 + 40 * LessonConfidence[l]

SelectLessons(selected) ==
  Top({l \in request.lessons : LessonScore(l, selected) > 0},
      Clamp(LessonLimit, 1, 2),
      [l \in request.lessons |-> LessonScore(l, selected)])

AssembleMemoryPacket ==
  /\ recall = "ranked"
  /\ \E core \in Top({n \in DOMAIN ranked : ranked[n] >= MinScore},
                     Clamp(CoreNodeLimit, 3, 5), ranked) :
     \E related \in Top(DOMAIN ranked \ core, Clamp(NeighborLimit, 2, 3), ranked) :
     \E lessons \in SelectLessons(core \union related) :
       packet' = [nodes   |-> core \union related,
                  edges   |-> {e \in request.edges :
                                 {e.from, e.to} \subseteq core \union related},
                  lessons |-> lessons]
  /\ recall' = "done"
  /\ UNCHANGED <<request, vector, queue, visited, candidates, ranked>>

-----------------------------------------------------------------------------
NoPacket == [nodes |-> {}, edges |-> {}, lessons |-> {}]

RecallInit ==
  /\ recall = "searching"
  /\ request \in Request
  /\ vector = NoCandidates
  /\ queue = <<>>
  /\ visited = {}
  /\ candidates = NoCandidates
  /\ ranked = NoCandidates
  /\ packet = NoPacket

RecallNext == Search \/ SearchFails \/ Expand \/ MergeAndRank \/ AssembleMemoryPacket

RecallSpec == RecallInit /\ [][RecallNext]_recallVars

-----------------------------------------------------------------------------
(* Properties *)

CallTypeOK ==
  /\ recall \in {"searching", "expanding", "ranked", "done", "failed"}
  /\ request \in Request
  /\ queue \in Seq(request.nodes \X (0..MaxHops))
  /\ visited \subseteq request.nodes

HitsTypeOK ==
  /\ DOMAIN vector \subseteq request.nodes
  /\ vector \in [DOMAIN vector -> Unit]

Candidate == [edge_strength : Unit, hop_distance : 1..MaxHops]

CandidatesTypeOK ==
  /\ DOMAIN candidates \subseteq visited \ Seeds
  /\ candidates \in [DOMAIN candidates -> Candidate]

RankedTypeOK ==
  /\ DOMAIN ranked \subseteq request.nodes
  /\ ranked \in [DOMAIN ranked -> 0..Full]

PacketTypeOK ==
  /\ packet.nodes \subseteq request.nodes
  /\ packet.edges \subseteq request.edges
  /\ packet.lessons \subseteq request.lessons

RecallTypeOK ==
  CallTypeOK /\ HitsTypeOK /\ CandidatesTypeOK /\ RankedTypeOK /\ PacketTypeOK

(* The nodes at most k hops away from a seed, by definition. *)
Within[k \in Nat] ==
  IF k = 0 THEN Seeds
  ELSE Within[k - 1] \union UNION {Neighbors(n) : n \in Within[k - 1]}

Distance(n) == Min({k \in 0..MaxHops : n \in Within[k]})

(* What the search finds is exactly the nodes in reach, each with its      *)
(* distance from the nearest seed and the strongest edge by which the      *)
(* reach gets to it - whatever the order of the queue, and although a node *)
(* is entered when it is first met and its edges are met one by one.       *)
ExpansionExact ==
  recall \in {"ranked", "done"} =>
    /\ DOMAIN candidates = Within[MaxHops] \ Seeds
    /\ \A n \in DOMAIN candidates :
         /\ candidates[n].hop_distance = Distance(n)
         /\ candidates[n].edge_strength =
              Max({Strongest(m, n) : m \in Neighbors(n) \intersect Within[MaxHops - 1]})

(* A node answers the query: its text does, or its embedding by the model  *)
(* of the query, or a positive edge brings it in reach of a hit.           *)
AnswersQuery(n) ==
  \/ LexicalScore(n) > 0
  \/ /\ n \in DOMAIN request.embeddings
     /\ request.embeddings[n].model = request.model
     /\ request.embeddings[n].similarity > 0
  \/ n \in Within[MaxHops] /\ \E m \in Neighbors(n) : Strongest(m, n) > 0

(* No lesson of all that rests on the nodes gives way to one that does not.*)
LinkedFirst(chosen, all, nodes) ==
  \A l \in chosen, k \in all \ chosen :
    Supporting[k] \intersect nodes # {} => Supporting[l] \intersect nodes # {}
=============================================================================
