--------------------------- MODULE AdmissionProofs ---------------------------
(***************************************************************************)
(* Proofs about Admission, for any agents, events and policy.              *)
(*                                                                         *)
(* A decision is a fact about the candidate and the nodes that were listed *)
(* for it, and rows never change: what it says of their similarity stays   *)
(* true.  Of two nodes of different calls, the one that came second was    *)
(* either decided with the first in its list, or inserted over it in a     *)
(* race.                                                                   *)
(***************************************************************************)
EXTENDS Admission, FiniteSetTheorems, TLAPS

Inserted(i) == {n.title : n \in {m \in nodes : m.call = i}}

(* What each call has, once it has evaluated its event. *)
Calls ==
  /\ DOMAIN context = Ingestion /\ DOMAIN decision = Ingestion /\ DOMAIN pending = Ingestion
  /\ IsFiniteSet(nodes)
  /\ \A i \in Ingestion : i \in DOMAIN event <=> stage[i] # "idle"
  /\ \A i \in Ingestion : stage[i] = "idle" => pending[i] = {}
  /\ \A i \in DOMAIN event : DOMAIN decision[i] = Titles(event[i])
  /\ \A i \in Ingestion : pending[i] \subseteq DOMAIN decision[i]
  /\ \A n \in nodes : n.title \in DOMAIN decision[n.call]

(* What is created has been found in none of the listed nodes. *)
Apart ==
  \A i \in DOMAIN event : \A t \in Titles(event[i]) :
    decision[i][t].action = "CreateNewNode" =>
      \A n \in context[i] : ~(Similarity(Candidate(event[i], t), Row(n)) >= MergeSimilarity)

(* Of two nodes, one was listed before the other one was decided. *)
Ordered ==
  \A n, m \in nodes :
    n.call # m.call =>
      \/ n \in context[m.call]
      \/ m \in context[n.call]
      \/ {n.call, m.call} \intersect raced # {}

Near(c, d) == 100 * Similarity(c, d) >= 65 * Whole

(* WorthyAlone, without a store. *)
Worthy(c) ==
  /\ Lower(100, 25 * c.edges) >= MinConnectedness \/ c.importance > MinRootImportance
  /\ (25 * Lower(100, 25 * c.edges) + 20 * Usefulness(c) + 25 * c.importance) * Whole
       + 1500 * Whole > Bar

Promised ==
  \A i \in DOMAIN event : \A t \in Titles(event[i]) :
    Worthy(Candidate(event[i], t)) =>
      \/ decision[i][t].action = "CreateNewNode"
      \/ \E n \in context[i] : Near(Candidate(event[i], t), Row(n))

(* Nothing that is to be created is forgotten. *)
Stored ==
  \A i \in Ingestion :
    /\ stage[i] \in {"storing", "done"} =>
         \A t \in DOMAIN decision[i] :
           decision[i][t].action = "CreateNewNode" =>
             t \in pending[i] \/ [call |-> i, title |-> t] \in nodes
    /\ stage[i] = "done" => pending[i] = {}

-----------------------------------------------------------------------------
(* Candidates and their similarity *)

LEMMA FiveAreFinite ==
  ASSUME NEW a, NEW b, NEW c, NEW d, NEW f
  PROVE  IsFiniteSet({a, b, c, d, f})
<1>1. IsFiniteSet({a})
  BY FS_Singleton
<1>2. IsFiniteSet({a} \union {b})
  BY <1>1, FS_AddElement
<1>3. IsFiniteSet(({a} \union {b}) \union {c})
  BY <1>2, FS_AddElement
<1>4. IsFiniteSet((({a} \union {b}) \union {c}) \union {d})
  BY <1>3, FS_AddElement
<1>5. IsFiniteSet(((({a} \union {b}) \union {c}) \union {d}) \union {f})
  BY <1>4, FS_AddElement
<1>6. ((({a} \union {b}) \union {c}) \union {d}) \union {f} = {a, b, c, d, f}
  OBVIOUS
<1> QED
  BY <1>5, <1>6

LEMMA CandidateType ==
  ASSUME NEW e \in Event, NEW t \in Titles(e)
  PROVE  LET c == Candidate(e, t) IN
         /\ IsFiniteSet(c.terms) /\ Cardinality(c.terms) \in 1..12
         /\ c.edges \in Nat /\ c.importance \in Nat
         /\ c.lesson \in BOOLEAN /\ c.cue \in BOOLEAN
<1>1. IsFiniteSet(e.words) /\ e.names \union e.hyphened \subseteq e.words
  BY EventAssumption
<1>2. IsFiniteSet(Entities(e)) /\ Cardinality(Entities(e)) \in Nat
  <2> DEFINE marked == e.names \union e.hyphened
  <2>1. IsFiniteSet(marked)
    BY <1>1, FS_Subset
  <2>2. Entities(e) = marked \/ Entities(e) = marked \union {e.name}
    BY DEF Entities
  <2> HIDE DEF marked
  <2>3. IsFiniteSet(marked \union {e.name})
    BY <2>1, FS_AddElement
  <2>4. IsFiniteSet(Entities(e))
    BY <2>1, <2>2, <2>3
  <2> QED
    BY <2>4, FS_CardinalityType
<1>3. Lessons(e) \in {0, 1}
  BY DEF Lessons
<1>4. CASE t = Title(e)
  <2>1. Candidate(e, t) = CoreNode(e)
    BY <1>4 DEF Candidate
  <2>2. IsFiniteSet(e.words \ Short)
    BY <1>1, FS_Subset
  <2>3. IsFiniteSet((e.words \ Short) \union {Title(e)})
    BY <2>2, FS_AddElement
  <2>4. CoreNode(e).terms = (e.words \ Short) \union {Title(e)}
    BY DEF CoreNode
  <2>5. CoreNode(e).edges \in Nat
    BY <1>2, <1>3 DEF CoreNode
  <2>6. Importance(e) \in Nat
    BY DEF Importance
  <2>7. /\ CoreNode(e).importance \in Nat
        /\ CoreNode(e).lesson \in BOOLEAN /\ CoreNode(e).cue \in BOOLEAN
    BY <2>6 DEF CoreNode
  <2> QED
    BY <2>1, <2>3, <2>4, <2>5, <2>7, TermsAssumption
<1>5. CASE t # Title(e)
  <2>1. Candidate(e, t) = EntityNode(e, t)
    BY <1>5 DEF Candidate
  <2> DEFINE named == {"extracted", EntityType(e, t), "entity", "from", "event"}
  <2>2. IsFiniteSet(named)
    BY FiveAreFinite
  <2>3. IsFiniteSet({t} \ Short)
    BY FS_Singleton, FS_Subset
  <2>4. IsFiniteSet(named \union ({t} \ Short))
    BY <2>2, <2>3, FS_Union
  <2>5. EntityNode(e, t).terms = named \union ({t} \ Short)
    BY DEF EntityNode
  <2>6. /\ EntityNode(e, t).importance \in Nat
        /\ EntityNode(e, t).lesson \in BOOLEAN /\ EntityNode(e, t).cue \in BOOLEAN
        /\ EntityNode(e, t).edges \in Nat
    BY <1>3 DEF EntityNode
  <2> QED
    BY <2>1, <2>4, <2>5, <2>6, TermsAssumption
<1> QED
  BY <1>4, <1>5

(* What the lemmas below need of a candidate. *)
Measured(c) ==
  /\ IsFiniteSet(c.terms) /\ Cardinality(c.terms) \in 1..12
  /\ c.edges \in Nat /\ c.importance \in Nat
  /\ c.lesson \in BOOLEAN /\ c.cue \in BOOLEAN

LEMMA SimilarityType ==
  ASSUME NEW c, NEW d, Measured(c), Measured(d)
  PROVE  /\ Similarity(c, d) \in Nat
         /\ Similarity(c, d) = Similarity(d, c)
         /\ Similarity(c, c) = Whole
<1>1. IsFiniteSet(c.terms \intersect d.terms)
  BY FS_Subset DEF Measured
<1>2. Cardinality(c.terms \intersect d.terms) \in Nat
  BY <1>1, FS_CardinalityType
<1>3. c.terms \intersect d.terms = d.terms \intersect c.terms
  OBVIOUS
<1>4. Cardinality(c.terms) \in 1..12 /\ Cardinality(d.terms) \in 1..12
  BY DEF Measured
<1>5. /\ Higher(Cardinality(c.terms), Cardinality(d.terms)) \in 1..12
      /\ Higher(Cardinality(c.terms), Cardinality(d.terms))
           = Higher(Cardinality(d.terms), Cardinality(c.terms))
      /\ Higher(Cardinality(c.terms), Cardinality(c.terms)) = Cardinality(c.terms)
  BY <1>4 DEF Higher
<1>6. \A k \in 1..12 : 27720 \div k \in Nat /\ k * (27720 \div k) = 27720
  <2> TAKE k \in 1..12
  <2>1. \/ k = 1 \/ k = 2 \/ k = 3 \/ k = 4 \/ k = 5 \/ k = 6
        \/ k = 7 \/ k = 8 \/ k = 9 \/ k = 10 \/ k = 11 \/ k = 12
    OBVIOUS
  <2> QED
    BY <2>1
<1>7. Similarity(c, d) \in Nat
  <2> DEFINE x == Cardinality(c.terms \intersect d.terms)
             y == Whole \div Higher(Cardinality(c.terms), Cardinality(d.terms))
  <2>1. x \in Nat /\ y \in Nat
    BY <1>2, <1>5, <1>6 DEF Whole
  <2>2. Similarity(c, d) = x * y
    BY DEF Similarity
  <2> HIDE DEF x, y
  <2> QED
    BY <2>1, <2>2
<1>8. Similarity(c, c) = Whole
  <2>1. c.terms \intersect c.terms = c.terms
    OBVIOUS
  <2>2. Similarity(c, c) = Cardinality(c.terms) * (Whole \div Cardinality(c.terms))
    BY Zenon, <1>5, <2>1 DEF Similarity
  <2>3. Cardinality(c.terms) * (Whole \div Cardinality(c.terms)) = Whole
    BY <1>4, <1>6 DEF Whole
  <2> QED
    BY <2>2, <2>3
<1> QED
  BY <1>3, <1>5, <1>7, <1>8 DEF Similarity

LEMMA RowType ==
  ASSUME TypeOK, Calls, NEW n \in nodes
  PROVE  /\ n.call \in Ingestion /\ n.call \in DOMAIN event /\ event[n.call] \in Event
         /\ n = [call |-> n.call, title |-> n.title]
         /\ Row(n) = Candidate(event[n.call], n.title)
         /\ n.title \in Titles(event[n.call])
         /\ decision[n.call][n.title].action = "CreateNewNode"
<1>1. n \in Id /\ n.call \in DOMAIN event
  BY DEF TypeOK
<1>2. n.call \in Ingestion /\ n = [call |-> n.call, title |-> n.title]
  BY <1>1 DEF Id
<1>3. event[n.call] \in Event
  BY <1>1 DEF TypeOK, Range
<1>4. decision[n.call][n.title].action = "CreateNewNode"
  <2>1. n.title \in Inserted(n.call)
    BY DEF Inserted
  <2> QED
    BY <1>2, <2>1 DEF TypeOK, Inserted
<1>5. n.title \in Titles(event[n.call])
  BY <1>1 DEF Calls
<1> QED
  BY <1>1, <1>2, <1>3, <1>4, <1>5 DEF Row

(* The detector's bar, 0.65. *)
DetectorBar == (65 * Whole) \div 100

LEMMA PolicyType ==
  /\ MinTotal \in Nat /\ MinConnectedness \in Nat /\ MinRootImportance \in Nat
  /\ MergeSimilarity \in Nat /\ AttachSimilarity \in Nat
  /\ Bar \in Nat /\ DetectorBar = 18018
<1>1. MinTotal \in 0..100 /\ MinConnectedness \in 0..100 /\ MinRootImportance \in 0..100
  BY PolicyAssumption
<1>2. MergeSimilarity \in 0..Whole /\ AttachSimilarity \in 0..Whole
  BY PolicyAssumption
<1>3. Bar \in Nat
  BY <1>1 DEF Bar, Whole
<1>4. DetectorBar = 18018
  BY DEF DetectorBar, Whole
<1>5. MinTotal \in Nat /\ MinConnectedness \in Nat /\ MinRootImportance \in Nat
  BY <1>1
<1>6. MergeSimilarity \in Nat /\ AttachSimilarity \in Nat
  BY <1>2
<1> QED
  BY <1>3, <1>4, <1>5, <1>6

LEMMA RowMeasured ==
  ASSUME TypeOK, Calls, NEW n \in nodes
  PROVE  Measured(Row(n))
BY RowType, CandidateType DEF Measured

LEMMA DuplicateFollows ==
  ASSUME TypeOK, Calls, NEW c, Measured(c), NEW match \in Duplicate(c, nodes)
  PROVE  /\ match \in nodes \union {NoDuplicate}
         /\ match = NoDuplicate =>
              \A n \in nodes : ~(Similarity(c, Row(n)) >= DetectorBar)
         /\ match # NoDuplicate =>
              /\ match \in nodes
              /\ Similarity(c, Row(match)) \in Nat
              /\ Similarity(c, Row(match)) >= DetectorBar
              /\ \A n \in nodes : Similarity(c, Row(n)) >= DetectorBar =>
                   Similarity(c, Row(match)) >= Similarity(c, Row(n))
<1>1. NoDuplicate \notin nodes
  BY NoDuplicateAssumption DEF TypeOK
<1>2. \A n \in nodes : Similarity(c, Row(n)) \in Nat
  BY RowMeasured, SimilarityType
<1>3. \A n : n \in Duplicates(c, nodes) <=> n \in nodes /\ Similarity(c, Row(n)) >= DetectorBar
  BY DEF Duplicates, DetectorBar
<1>4. CASE Duplicates(c, nodes) = {}
  <2>1. match = NoDuplicate
    BY <1>4 DEF Duplicate
  <2> QED
    BY <1>3, <1>4, <2>1
<1>5. CASE Duplicates(c, nodes) # {}
  <2>1. /\ match \in Duplicates(c, nodes)
        /\ \A n \in Duplicates(c, nodes) : Similarity(c, Row(match)) >= Similarity(c, Row(n))
    BY <1>5 DEF Duplicate
  <2> QED
    BY <1>1, <1>2, <1>3, <2>1
<1> QED
  BY <1>4, <1>5

(* Every score but novelty only rises as the store fills. *)
LEMMA ScoresRise ==
  ASSUME TypeOK, Calls, NEW c, Measured(c)
  PROVE  /\ Worthy(c) => Connectedness(c, nodes) >= MinConnectedness \/ c.importance > MinRootImportance
         /\ Worthy(c) => Total(c, nodes, NoDuplicate) > Bar
         /\ Total(c, nodes, NoDuplicate) \in Nat
<1> DEFINE ties    == Lower(100, 25 * c.edges)
           use     == Usefulness(c)
           recalls == Recurrence(c, nodes)
<1>1. c.edges \in Nat /\ c.importance \in Nat
  BY DEF Measured
<1>2. ties \in Nat /\ Connectedness(c, nodes) \in Nat /\ Connectedness(c, nodes) >= ties
  BY <1>1 DEF Connectedness, Lower
<1>3. use \in Nat
  BY DEF Usefulness, Lower
<1>4. recalls \in Nat
  <2>1. IsFiniteSet({n \in nodes : Cardinality(c.terms \intersect Row(n).terms) >= 2})
    BY FS_Subset DEF Calls
  <2>2. Cardinality({n \in nodes : Cardinality(c.terms \intersect Row(n).terms) >= 2}) \in Nat
    BY <2>1, FS_CardinalityType
  <2> QED
    BY <2>2 DEF Recurrence, Lower
<1>5. MinConnectedness \in Nat
  BY PolicyType
<1>6. Total(c, nodes, NoDuplicate) =
        (25 * Connectedness(c, nodes) + 20 * use + 500 * recalls + 25 * c.importance) * Whole
          + 1500 * Whole
  <2>1. Novelty(c, NoDuplicate) = Whole
    BY DEF Novelty
  <2>2. Total(c, nodes, NoDuplicate) =
          (25 * Connectedness(c, nodes) + 20 * Usefulness(c) + 500 * Recurrence(c, nodes)
             + 25 * c.importance) * Whole + 1500 * Novelty(c, NoDuplicate)
    BY Zenon DEF Total
  <2> QED
    BY <2>1, <2>2
<1>7. Worthy(c) => (25 * ties + 20 * use + 25 * c.importance) * Whole + 1500 * Whole > Bar
  BY DEF Worthy
<1>8. Bar \in Int
  BY PolicyType
<1>9. Worthy(c) => ties >= MinConnectedness \/ c.importance > MinRootImportance
  BY DEF Worthy
<1> HIDE DEF ties, use, recalls
<1> QED
  BY <1>1, <1>2, <1>3, <1>4, <1>5, <1>6, <1>7, <1>8, <1>9 DEF Whole

LEMMA DecisionFollows ==
  ASSUME TypeOK, Calls, NEW c, Measured(c), NEW d \in Decisions(c, nodes)
  PROVE  /\ d \in Decision /\ d.target \in nodes \union {NoDuplicate}
         /\ MergeSimilarity >= DetectorBar /\ d.action = "CreateNewNode" =>
              \A n \in nodes : ~(Similarity(c, Row(n)) >= MergeSimilarity)
         /\ Worthy(c) =>
              d.action = "CreateNewNode" \/ \E n \in nodes : Near(c, Row(n))
<1>1. PICK match \in Duplicate(c, nodes) :
        \E worthy \in Reaches(c.importance, MinRootImportance),
           enough \in Reaches(Total(c, nodes, match), Bar) :
          d = [action |-> Decided(c, match, worthy \/ Connectedness(c, nodes) >= MinConnectedness, enough),
               target |-> match]
  BY DEF Decisions
<1>2. PICK worthy \in Reaches(c.importance, MinRootImportance),
           enough \in Reaches(Total(c, nodes, match), Bar) :
        d = [action |-> Decided(c, match, worthy \/ Connectedness(c, nodes) >= MinConnectedness, enough),
             target |-> match]
  BY <1>1
<1> DEFINE firm == worthy \/ Connectedness(c, nodes) >= MinConnectedness
<1>3. d.action = Decided(c, match, firm, enough) /\ d.target = match
  BY <1>2
<1>4. match \in nodes \union {NoDuplicate}
  BY DuplicateFollows
<1>5. d \in Decision
  <2>1. match \in Id \union {NoDuplicate}
    BY <1>4 DEF TypeOK
  <2>2. Decided(c, match, firm, enough) \in
          {"CreateNewNode", "MergeIntoExistingNode", "AttachAsEvidence", "Reject"}
    BY DEF Decided
  <2> QED
    BY <1>2, <2>1, <2>2 DEF Decision
<1>6. ASSUME MergeSimilarity >= DetectorBar, d.action = "CreateNewNode", NEW n \in nodes
      PROVE  ~(Similarity(c, Row(n)) >= MergeSimilarity)
  <2>1. /\ Similarity(c, Row(n)) \in Nat
        /\ MergeSimilarity \in Int /\ DetectorBar \in Int
    BY RowMeasured, SimilarityType, PolicyType
  <2>2. CASE match = NoDuplicate
    <3>1. ~(Similarity(c, Row(n)) >= DetectorBar)
      BY <2>2, DuplicateFollows
    <3> QED
      BY <1>6, <2>1, <3>1
  <2>3. CASE match # NoDuplicate
    <3>1. ~(Similarity(c, Row(match)) >= MergeSimilarity)
      BY <1>3, <1>6, <2>3 DEF Decided
    <3>2. /\ Similarity(c, Row(match)) \in Nat
          /\ Similarity(c, Row(n)) >= DetectorBar =>
               Similarity(c, Row(match)) >= Similarity(c, Row(n))
      BY <2>3, DuplicateFollows
    <3> QED
      BY <1>6, <2>1, <3>1, <3>2
  <2> QED
    BY <2>2, <2>3
<1>7. ASSUME Worthy(c)
      PROVE  d.action = "CreateNewNode" \/ \E n \in nodes : Near(c, Row(n))
  <2>1. CASE match = NoDuplicate
    <3>1. /\ Connectedness(c, nodes) >= MinConnectedness \/ c.importance > MinRootImportance
          /\ Total(c, nodes, match) > Bar
      BY <1>7, <2>1, ScoresRise
    <3>2. firm /\ enough
      BY <3>1 DEF Reaches
    <3> QED
      BY <1>3, <2>1, <3>2 DEF Decided
  <2>2. CASE match # NoDuplicate
    <3>1. match \in nodes /\ Similarity(c, Row(match)) \in Nat
          /\ Similarity(c, Row(match)) >= DetectorBar
      BY <2>2, DuplicateFollows
    <3>2. Near(c, Row(match))
      BY <3>1 DEF Near, DetectorBar, Whole
    <3> QED
      BY <3>1, <3>2
  <2> QED
    BY <2>1, <2>2
<1> QED
  BY <1>3, <1>4, <1>5, <1>6, <1>7

-----------------------------------------------------------------------------
(* The invariant, and what each step changes *)

IInv ==
  /\ TypeOK
  /\ Calls
  /\ MergeSimilarity >= DetectorBar => Apart
  /\ Ordered
  /\ Promised
  /\ Stored

LEMMA Evaluated ==
  ASSUME IInv, NEW i \in Ingestion, Evaluate(i)
  PROVE  \E e \in Event : \E decided \in [Titles(e) -> Decision] :
           /\ \A t \in Titles(e) : decided[t] \in Decisions(Candidate(e, t), nodes)
           /\ i \notin DOMAIN event
           /\ DOMAIN event' = DOMAIN event \union {i}
           /\ event'[i] = e /\ \A j \in DOMAIN event : event'[j] = event[j]
           /\ decision' = [decision EXCEPT ![i] = decided]
           /\ pending' = [pending EXCEPT ![i] = Created(decided)]
<1>1. PICK e \in Event :
        LET choices == [t \in Titles(e) |-> Decisions(Candidate(e, t), nodes)] IN
        \E decided \in [Titles(e) -> UNION Range(choices)] :
          /\ \A t \in Titles(e) : decided[t] \in choices[t]
          /\ event' = [j \in DOMAIN event \union {i} |-> IF j = i THEN e ELSE event[j]]
          /\ decision' = [decision EXCEPT ![i] = decided]
          /\ pending' = [pending EXCEPT ![i] = Created(decided)]
  BY DEF Evaluate
<1> DEFINE choices == [t \in Titles(e) |-> Decisions(Candidate(e, t), nodes)]
<1>2. PICK decided \in [Titles(e) -> UNION Range(choices)] :
          /\ \A t \in Titles(e) : decided[t] \in choices[t]
          /\ event' = [j \in DOMAIN event \union {i} |-> IF j = i THEN e ELSE event[j]]
          /\ decision' = [decision EXCEPT ![i] = decided]
          /\ pending' = [pending EXCEPT ![i] = Created(decided)]
  BY <1>1
<1>3. \A t \in Titles(e) : decided[t] \in Decisions(Candidate(e, t), nodes)
  BY <1>2
<1>4. ASSUME NEW t \in Titles(e) PROVE decided[t] \in Decision
  <2>1. Measured(Candidate(e, t))
    BY CandidateType DEF Measured
  <2> QED
    BY <1>3, <2>1, DecisionFollows DEF IInv
<1>5. decided \in [Titles(e) -> Decision]
  BY <1>4
<1>6. i \notin DOMAIN event
  BY DEF Evaluate, IInv, Calls
<1>7. /\ DOMAIN event' = DOMAIN event \union {i}
      /\ event'[i] = e /\ \A j \in DOMAIN event : event'[j] = event[j]
  BY <1>2, <1>6
<1> QED
  BY <1>2, <1>3, <1>5, <1>6, <1>7

(* A row never changes. *)
LEMMA RowsStay ==
  ASSUME IInv, \A j \in DOMAIN event : event'[j] = event[j], NEW n \in nodes
  PROVE  Row(n)' = Row(n)
<1>1. n.call \in DOMAIN event
  BY DEF IInv, TypeOK
<1> QED
  BY <1>1 DEF Row

LEMMA Inserts ==
  ASSUME IInv, NEW i \in Ingestion, NEW t \in pending[i], stage[i] = "storing"
  PROVE  /\ i \in DOMAIN event /\ event[i] \in Event /\ t \in Titles(event[i])
         /\ t \in DOMAIN decision[i] /\ decision[i][t].action = "CreateNewNode"
         /\ [call |-> i, title |-> t] \in Id
         /\ Insert(i, t) =>
              /\ nodes' = nodes \union {[call |-> i, title |-> t]}
              /\ raced \subseteq raced' /\ raced' \subseteq Ingestion
              /\ \A n \in nodes \ context[i] : n.call # i => i \in raced'
<1>1. i \in DOMAIN event /\ t \in DOMAIN decision[i]
  BY DEF IInv, Calls
<1>2. event[i] \in Event /\ t \in Titles(event[i])
  BY <1>1 DEF IInv, Calls, TypeOK, Range
<1>3. decision[i][t].action = "CreateNewNode"
  BY DEF IInv, TypeOK
<1>4. [call |-> i, title |-> t] \in Id
  BY <1>2 DEF Id
<1> QED
  BY <1>1, <1>2, <1>3, <1>4 DEF Insert, IInv, TypeOK

LEMMA InitInvariant == Init => IInv
<1> SUFFICES ASSUME Init PROVE IInv
  OBVIOUS
<1>1. nodes = {} /\ DOMAIN event = {}
  BY DEF Init
<1>2. TypeOK
  <2>1. /\ stage \in [Ingestion -> {"idle", "storing", "done", "failed"}]
        /\ raced \subseteq Ingestion /\ failures \in 0..MaxFailures
    BY PolicyAssumption DEF Init
  <2>2. ASSUME NEW i \in Ingestion
        PROVE  /\ context[i] = {} /\ pending[i] = {} /\ DOMAIN decision[i] = {}
               /\ decision[i] \in [DOMAIN decision[i] -> Decision]
    BY DEF Init
  <2>3. Range(event) = {}
    BY <1>1 DEF Range
  <2> QED
    BY <1>1, <2>1, <2>2, <2>3 DEF TypeOK
<1>3. Calls
  BY <1>1, FS_EmptySet DEF Init, Calls
<1>4. Apart /\ Ordered /\ Promised
  BY <1>1 DEF Apart, Ordered, Promised
<1>5. Stored
  BY DEF Init, Stored
<1> QED
  BY <1>2, <1>3, <1>4, <1>5 DEF IInv

LEMMA TypeKept == IInv /\ [Next]_vars => TypeOK'
<1> SUFFICES ASSUME IInv, [Next]_vars PROVE TypeOK'
  OBVIOUS
<1>1. TypeOK /\ Calls
  BY DEF IInv
<1>2. ASSUME NEW i \in Ingestion, Evaluate(i) PROVE TypeOK'
  <2>1. PICK e \in Event : \E decided \in [Titles(e) -> Decision] :
          /\ \A t \in Titles(e) : decided[t] \in Decisions(Candidate(e, t), nodes)
          /\ DOMAIN event' = DOMAIN event \union {i}
          /\ event'[i] = e /\ \A j \in DOMAIN event : event'[j] = event[j]
          /\ decision' = [decision EXCEPT ![i] = decided]
          /\ pending' = [pending EXCEPT ![i] = Created(decided)]
    BY <1>2, Evaluated
  <2>2. PICK decided \in [Titles(e) -> Decision] :
          /\ \A t \in Titles(e) : decided[t] \in Decisions(Candidate(e, t), nodes)
          /\ DOMAIN event' = DOMAIN event \union {i}
          /\ event'[i] = e /\ \A j \in DOMAIN event : event'[j] = event[j]
          /\ decision' = [decision EXCEPT ![i] = decided]
          /\ pending' = [pending EXCEPT ![i] = Created(decided)]
    BY <2>1
  <2>3. /\ stage[i] = "idle"
        /\ context' = [context EXCEPT ![i] = nodes]
        /\ stage' = [stage EXCEPT ![i] = "storing"]
        /\ UNCHANGED <<nodes, raced, failures>>
    BY <1>2 DEF Evaluate
  <2>4. DOMAIN event' \subseteq Ingestion /\ Range(event') \subseteq Event
    BY <1>1, <2>2 DEF TypeOK, Range
  <2>5. /\ stage' \in [Ingestion -> {"idle", "storing", "done", "failed"}]
        /\ nodes' \subseteq {n \in Id : n.call \in DOMAIN event'}
        /\ raced' \subseteq Ingestion /\ failures' \in 0..MaxFailures
    BY <1>1, <2>2, <2>3 DEF TypeOK
  <2>6. \A n \in nodes : n.call # i
    BY <1>1, <2>3 DEF TypeOK, Calls
  <2> SUFFICES ASSUME NEW j \in Ingestion
               PROVE  /\ context'[j] \subseteq nodes'
                      /\ decision'[j] \in [DOMAIN decision'[j] -> Decision]
                      /\ \A t \in DOMAIN decision'[j] :
                           decision'[j][t].target \in context'[j] \union {NoDuplicate}
                      /\ \A t \in pending'[j] \union Inserted(j)' :
                           decision'[j][t].action = "CreateNewNode"
    BY <2>4, <2>5 DEF TypeOK, Inserted
  <2>7. CASE j = i
    <3>1. /\ context'[i] = nodes /\ decision'[i] = decided /\ pending'[i] = Created(decided)
      BY <1>1, <2>2, <2>3 DEF Calls
    <3>2. ASSUME NEW t \in Titles(e) PROVE decided[t].target \in nodes \union {NoDuplicate}
      <4>1. Measured(Candidate(e, t))
        BY CandidateType DEF Measured
      <4> QED
        BY <1>1, <2>2, <4>1, DecisionFollows
    <3>3. Inserted(i)' = {}
      BY <2>3, <2>6 DEF Inserted
    <3> QED
      BY <2>3, <2>7, <3>1, <3>2, <3>3 DEF Created
  <2>8. CASE j # i
    <3>1. /\ context'[j] = context[j] /\ decision'[j] = decision[j] /\ pending'[j] = pending[j]
      BY <1>1, <2>2, <2>3, <2>8 DEF Calls
    <3>2. Inserted(j)' = Inserted(j)
      BY <2>3 DEF Inserted
    <3> QED
      BY <1>1, <2>3, <3>1, <3>2 DEF TypeOK, Inserted
  <2> QED
    BY <2>7, <2>8
<1>3. ASSUME NEW i \in Ingestion, NEW t \in pending[i], InsertNode(i, t) \/ InsertFails(i, t)
      PROVE  TypeOK'
  <2> DEFINE new == [call |-> i, title |-> t]
  <2>1. /\ UNCHANGED <<event, context, decision>>
        /\ stage' \in [Ingestion -> {"idle", "storing", "done", "failed"}]
        /\ failures' \in 0..MaxFailures
        /\ \A j \in Ingestion : pending'[j] \subseteq pending[j]
        /\ stage[i] = "storing"
    <3>1. failures \in Nat /\ failures <= MaxFailures /\ MaxFailures \in Nat
      BY <1>1, PolicyAssumption DEF TypeOK
    <3> QED
      BY <1>1, <1>3, <3>1 DEF InsertNode, InsertFails, TypeOK, Calls
  <2>2. /\ i \in DOMAIN event /\ decision[i][t].action = "CreateNewNode"
        /\ new \in Id /\ new.call = i /\ new.title = t
        /\ nodes' = nodes \/ nodes' = nodes \union {new}
        /\ raced' \subseteq Ingestion
    BY <1>1, <1>3, <2>1, Inserts DEF InsertNode, InsertFails, TypeOK
  <2> HIDE DEF new
  <2>3. nodes' \subseteq {n \in Id : n.call \in DOMAIN event'}
    BY <1>1, <2>1, <2>2 DEF TypeOK
  <2> SUFFICES ASSUME NEW j \in Ingestion, NEW s \in pending'[j] \union Inserted(j)'
               PROVE  decision'[j][s].action = "CreateNewNode"
    BY <1>1, <2>1, <2>2, <2>3 DEF TypeOK, Inserted
  <2>4. s \in pending[j] \union Inserted(j) \/ (j = i /\ s = t)
    BY <2>1, <2>2 DEF Inserted
  <2> QED
    BY <1>1, <2>1, <2>2, <2>4 DEF TypeOK, Inserted
<1>4. ASSUME NEW i \in Ingestion, Finish(i) PROVE TypeOK'
  BY <1>1, <1>4 DEF Finish, TypeOK, Range
<1>5. CASE UNCHANGED vars
  BY <1>1, <1>5 DEF vars, TypeOK, Range
<1> QED
  BY <1>2, <1>3, <1>4, <1>5 DEF Next

LEMMA CallsKept == IInv /\ [Next]_vars => Calls'
<1> SUFFICES ASSUME IInv, [Next]_vars PROVE Calls'
  OBVIOUS
<1>1. TypeOK /\ Calls
  BY DEF IInv
<1>2. ASSUME NEW i \in Ingestion, Evaluate(i) PROVE Calls'
  <2>1. PICK e \in Event : \E decided \in [Titles(e) -> Decision] :
          /\ DOMAIN event' = DOMAIN event \union {i}
          /\ event'[i] = e /\ \A j \in DOMAIN event : event'[j] = event[j]
          /\ decision' = [decision EXCEPT ![i] = decided]
          /\ pending' = [pending EXCEPT ![i] = Created(decided)]
    BY <1>2, Evaluated
  <2>2. PICK decided \in [Titles(e) -> Decision] :
          /\ DOMAIN event' = DOMAIN event \union {i}
          /\ event'[i] = e /\ \A j \in DOMAIN event : event'[j] = event[j]
          /\ decision' = [decision EXCEPT ![i] = decided]
          /\ pending' = [pending EXCEPT ![i] = Created(decided)]
    BY <2>1
  <2>3. /\ stage[i] = "idle"
        /\ context' = [context EXCEPT ![i] = nodes]
        /\ stage' = [stage EXCEPT ![i] = "storing"]
        /\ UNCHANGED nodes
    BY <1>2 DEF Evaluate
  <2>4. i \notin DOMAIN event /\ \A n \in nodes : n.call # i /\ n.call \in DOMAIN event
    BY <1>1, <2>3 DEF TypeOK, Calls
  <2>5. /\ decision'[i] = decided /\ DOMAIN decided = Titles(e)
        /\ pending'[i] = Created(decided) /\ stage'[i] = "storing"
        /\ \A j \in Ingestion \ {i} : /\ decision'[j] = decision[j]
                                      /\ pending'[j] = pending[j] /\ stage'[j] = stage[j]
    BY <1>1, <2>2, <2>3 DEF Calls, TypeOK
  <2>6. DOMAIN context' = Ingestion /\ DOMAIN decision' = Ingestion /\ DOMAIN pending' = Ingestion
    BY <1>1, <2>2, <2>3 DEF Calls
  <2>7. pending'[i] \subseteq DOMAIN decided
    BY <2>5 DEF Created
  <2>8. DOMAIN event \subseteq Ingestion
    BY <1>1 DEF TypeOK
  <2>9. /\ \A j \in Ingestion : j \in DOMAIN event' <=> stage'[j] # "idle"
        /\ \A j \in Ingestion : stage'[j] = "idle" => pending'[j] = {}
        /\ \A j \in Ingestion : pending'[j] \subseteq DOMAIN decision'[j]
    BY <1>1, <2>2, <2>5, <2>7 DEF Calls
  <2>10. \A j \in DOMAIN event' : DOMAIN decision'[j] = Titles(event'[j])
    BY <1>1, <2>2, <2>4, <2>5, <2>8 DEF Calls
  <2>11. \A n \in nodes' : n.title \in DOMAIN decision'[n.call]
    BY <1>1, <2>3, <2>4, <2>5, <2>8 DEF Calls
  <2> QED
    BY <1>1, <2>3, <2>6, <2>9, <2>10, <2>11 DEF Calls
<1>3. ASSUME NEW i \in Ingestion, NEW t \in pending[i], InsertNode(i, t) \/ InsertFails(i, t)
      PROVE  Calls'
  <2> DEFINE new == [call |-> i, title |-> t]
  <2>1. /\ UNCHANGED <<event, context, decision>>
        /\ stage[i] = "storing"
        /\ \/ UNCHANGED stage /\ pending' = [pending EXCEPT ![i] = @ \ {t}]
           \/ stage' = [stage EXCEPT ![i] = "failed"] /\ UNCHANGED pending
    BY <1>3 DEF InsertNode, InsertFails
  <2>2. /\ t \in DOMAIN decision[i]
        /\ new.call = i /\ new.title = t
        /\ nodes' = nodes \/ nodes' = nodes \union {new}
    BY <1>1, <1>3, <2>1, Inserts DEF InsertNode, InsertFails
  <2> HIDE DEF new
  <2>3. IsFiniteSet(nodes')
    BY <1>1, <2>2, FS_AddElement DEF Calls
  <2>4. /\ \A j \in Ingestion : pending'[j] \subseteq pending[j]
        /\ DOMAIN pending' = Ingestion
        /\ \A j \in Ingestion : stage'[j] = "idle" <=> stage[j] = "idle"
    BY <1>1, <2>1 DEF Calls, TypeOK
  <2>5. \A n \in nodes' : n.title \in DOMAIN decision'[n.call]
    BY <1>1, <2>1, <2>2 DEF Calls
  <2> QED
    BY <1>1, <2>1, <2>3, <2>4, <2>5 DEF Calls
<1>4. ASSUME NEW i \in Ingestion, Finish(i) PROVE Calls'
  BY <1>1, <1>4 DEF Finish, Calls, TypeOK
<1>5. CASE UNCHANGED vars
  BY <1>1, <1>5 DEF vars, Calls
<1> QED
  BY <1>2, <1>3, <1>4, <1>5 DEF Next

(* What was decided of a candidate and the nodes listed for it stays as it *)
(* was while its event, decision and list do.                              *)
LEMMA VerdictsStay ==
  ASSUME IInv, UNCHANGED <<event, context, decision>>
  PROVE  /\ Apart => Apart'
         /\ Promised'
BY DEF IInv, Apart, Promised, Row, Near

LEMMA VerdictsKept ==
  IInv /\ [Next]_vars => (MergeSimilarity >= DetectorBar => Apart') /\ Promised'
<1> SUFFICES ASSUME IInv, [Next]_vars
             PROVE  (MergeSimilarity >= DetectorBar => Apart') /\ Promised'
  OBVIOUS
<1>1. TypeOK /\ Calls
  BY DEF IInv
<1>2. ASSUME NEW i \in Ingestion, Evaluate(i)
      PROVE  (MergeSimilarity >= DetectorBar => Apart') /\ Promised'
  <2>1. PICK e \in Event : \E decided \in [Titles(e) -> Decision] :
          /\ \A t \in Titles(e) : decided[t] \in Decisions(Candidate(e, t), nodes)
          /\ i \notin DOMAIN event
          /\ DOMAIN event' = DOMAIN event \union {i}
          /\ event'[i] = e /\ \A j \in DOMAIN event : event'[j] = event[j]
          /\ decision' = [decision EXCEPT ![i] = decided]
    BY <1>2, Evaluated
  <2>2. PICK decided \in [Titles(e) -> Decision] :
          /\ \A t \in Titles(e) : decided[t] \in Decisions(Candidate(e, t), nodes)
          /\ i \notin DOMAIN event
          /\ DOMAIN event' = DOMAIN event \union {i}
          /\ event'[i] = e /\ \A j \in DOMAIN event : event'[j] = event[j]
          /\ decision' = [decision EXCEPT ![i] = decided]
    BY <2>1
  <2>3. context' = [context EXCEPT ![i] = nodes]
    BY <1>2 DEF Evaluate
  <2>4. /\ decision'[i] = decided /\ context'[i] = nodes
        /\ \A j \in DOMAIN event : decision'[j] = decision[j] /\ context'[j] = context[j]
    BY <1>1, <2>2, <2>3 DEF Calls, TypeOK
  <2>5. \A n \in nodes : Row(n)' = Row(n)
    BY <2>2, RowsStay
  <2>6. \A j \in DOMAIN event : context[j] \subseteq nodes
    BY <1>1 DEF TypeOK
  <2>7. ASSUME NEW t \in Titles(e)
        PROVE  /\ MergeSimilarity >= DetectorBar /\ decided[t].action = "CreateNewNode" =>
                    \A n \in nodes : ~(Similarity(Candidate(e, t), Row(n)) >= MergeSimilarity)
               /\ Worthy(Candidate(e, t)) =>
                    \/ decided[t].action = "CreateNewNode"
                    \/ \E n \in nodes : Near(Candidate(e, t), Row(n))
    <3>1. Measured(Candidate(e, t))
      BY CandidateType DEF Measured
    <3> QED
      BY <1>1, <2>2, <3>1, DecisionFollows
  <2>8. ASSUME MergeSimilarity >= DetectorBar,
               NEW j \in DOMAIN event', NEW t \in Titles(event'[j]),
               decision'[j][t].action = "CreateNewNode", NEW n \in context'[j]
        PROVE  ~(Similarity(Candidate(event'[j], t), Row(n)') >= MergeSimilarity)
    <3>1. CASE j = i
      BY <2>2, <2>4, <2>5, <2>7, <2>8, <3>1
    <3>2. CASE j \in DOMAIN event
      <4>1. /\ event'[j] = event[j] /\ decision'[j] = decision[j] /\ context'[j] = context[j]
            /\ n \in context[j] /\ Row(n)' = Row(n)
        BY <2>2, <2>4, <2>5, <2>6, <2>8, <3>2
      <4>2. Apart
        BY <2>8 DEF IInv
      <4> QED
        BY <2>8, <3>2, <4>1, <4>2 DEF Apart
    <3> QED
      BY <2>2, <3>1, <3>2
  <2>9. ASSUME NEW j \in DOMAIN event', NEW t \in Titles(event'[j]),
               Worthy(Candidate(event'[j], t)), decision'[j][t].action # "CreateNewNode"
        PROVE  \E n \in context'[j] : Near(Candidate(event'[j], t), Row(n)')
    <3>1. CASE j = i
      BY <2>2, <2>4, <2>5, <2>7, <2>9, <3>1
    <3>2. CASE j \in DOMAIN event
      <4>1. /\ event'[j] = event[j] /\ decision'[j] = decision[j] /\ context'[j] = context[j]
        BY <2>2, <2>4, <3>2
      <4>2. PICK n \in context[j] : Near(Candidate(event[j], t), Row(n))
        BY <2>9, <3>2, <4>1 DEF IInv, Promised
      <4>3. Row(n)' = Row(n)
        BY <2>5, <2>6, <3>2, <4>2
      <4> QED
        BY <4>1, <4>2, <4>3
    <3> QED
      BY <2>2, <3>1, <3>2
  <2> QED
    BY <2>8, <2>9 DEF Apart, Promised, Near
<1>3. ASSUME NEW i \in Ingestion, NEW t \in pending[i], InsertNode(i, t) \/ InsertFails(i, t)
      PROVE  UNCHANGED <<event, context, decision>>
  BY <1>3 DEF InsertNode, InsertFails
<1>4. ASSUME NEW i \in Ingestion, Finish(i) PROVE UNCHANGED <<event, context, decision>>
  BY <1>4 DEF Finish
<1>5. CASE UNCHANGED vars
  BY <1>5, VerdictsStay DEF vars, IInv
<1> QED
  BY <1>2, <1>3, <1>4, <1>5, VerdictsStay DEF Next, IInv

LEMMA OrderedKept == IInv /\ [Next]_vars => Ordered'
<1> SUFFICES ASSUME IInv, [Next]_vars PROVE Ordered'
  OBVIOUS
<1>1. TypeOK /\ Calls /\ Ordered
  BY DEF IInv
<1>2. ASSUME nodes' = nodes, raced' = raced, \A n \in nodes : context'[n.call] = context[n.call]
      PROVE  Ordered'
  BY <1>1, <1>2 DEF Ordered
<1>3. ASSUME NEW i \in Ingestion, Evaluate(i) PROVE Ordered'
  <2>1. /\ stage[i] = "idle" /\ context' = [context EXCEPT ![i] = nodes]
        /\ UNCHANGED <<nodes, raced>>
    BY <1>3 DEF Evaluate
  <2>2. \A n \in nodes : n.call # i /\ n.call \in Ingestion
    BY <1>1, <2>1 DEF TypeOK, Calls
  <2> QED
    BY <1>1, <1>2, <2>1, <2>2 DEF Calls
<1>4. ASSUME NEW i \in Ingestion, NEW t \in pending[i], stage[i] = "storing",
             Insert(i, t), UNCHANGED context
      PROVE  Ordered'
  <2> DEFINE new == [call |-> i, title |-> t]
  <2>1. /\ nodes' = nodes \union {new} /\ new.call = i
        /\ raced \subseteq raced'
        /\ \A n \in nodes \ context[i] : n.call # i => i \in raced'
    BY <1>4, Inserts
  <2> HIDE DEF new
  <2> SUFFICES ASSUME NEW n \in nodes', NEW m \in nodes', n.call # m.call
               PROVE  \/ n \in context[m.call]
                      \/ m \in context[n.call]
                      \/ {n.call, m.call} \intersect raced' # {}
    BY <1>4 DEF Ordered
  <2>2. CASE n \in nodes /\ m \in nodes
    BY <1>1, <2>1, <2>2 DEF Ordered
  <2>3. CASE n = new
    BY <2>1, <2>3
  <2>4. CASE m = new
    BY <2>1, <2>4
  <2> QED
    BY <2>1, <2>2, <2>3, <2>4
<1>5. ASSUME NEW i \in Ingestion, NEW t \in pending[i], InsertNode(i, t) \/ InsertFails(i, t)
      PROVE  Ordered'
  BY <1>2, <1>4, <1>5 DEF InsertNode, InsertFails
<1>6. ASSUME NEW i \in Ingestion, Finish(i) PROVE Ordered'
  BY <1>2, <1>6 DEF Finish
<1>7. CASE UNCHANGED vars
  BY <1>2, <1>7 DEF vars
<1> QED
  BY <1>3, <1>5, <1>6, <1>7 DEF Next

LEMMA StoredKept == IInv /\ [Next]_vars => Stored'
<1> SUFFICES ASSUME IInv, [Next]_vars PROVE Stored'
  OBVIOUS
<1>1. TypeOK /\ Calls /\ Stored
  BY DEF IInv
<1> DEFINE Kept(i) ==
      /\ stage[i] \in {"storing", "done"} =>
           \A t \in DOMAIN decision[i] :
             decision[i][t].action = "CreateNewNode" =>
               t \in pending[i] \/ [call |-> i, title |-> t] \in nodes
      /\ stage[i] = "done" => pending[i] = {}
<1>2. ASSUME NEW i \in Ingestion, Kept(i)', nodes \subseteq nodes',
             \A j \in Ingestion \ {i} :
               stage'[j] = stage[j] /\ decision'[j] = decision[j] /\ pending'[j] = pending[j]
      PROVE  Stored'
  <2>1. ASSUME NEW j \in Ingestion \ {i} PROVE Kept(j)'
    <3>1. Kept(j)
      BY <1>1 DEF Stored
    <3> QED
      BY <1>2, <3>1
  <2> QED
    BY <1>2, <2>1 DEF Stored
<1>3. ASSUME NEW i \in Ingestion, Evaluate(i) PROVE Stored'
  <2>1. PICK e \in Event : \E decided \in [Titles(e) -> Decision] :
          /\ decision' = [decision EXCEPT ![i] = decided]
          /\ pending' = [pending EXCEPT ![i] = Created(decided)]
    BY <1>3, Evaluated
  <2>2. PICK decided \in [Titles(e) -> Decision] :
          /\ decision' = [decision EXCEPT ![i] = decided]
          /\ pending' = [pending EXCEPT ![i] = Created(decided)]
    BY <2>1
  <2>3. stage' = [stage EXCEPT ![i] = "storing"] /\ UNCHANGED nodes
    BY <1>3 DEF Evaluate
  <2>4. /\ decision'[i] = decided /\ pending'[i] = Created(decided) /\ stage'[i] = "storing"
        /\ \A j \in Ingestion \ {i} :
             stage'[j] = stage[j] /\ decision'[j] = decision[j] /\ pending'[j] = pending[j]
    BY <1>1, <2>2, <2>3 DEF Calls, TypeOK
  <2>5. Kept(i)'
    BY <2>4 DEF Created
  <2> QED
    BY <1>2, <2>3, <2>4, <2>5
<1>4. ASSUME NEW i \in Ingestion, NEW t \in pending[i], InsertNode(i, t) PROVE Stored'
  <2>1. /\ pending' = [pending EXCEPT ![i] = @ \ {t}] /\ stage[i] = "storing"
        /\ nodes' = nodes \union {[call |-> i, title |-> t]}
        /\ UNCHANGED <<stage, decision>>
    BY <1>4, Inserts DEF InsertNode
  <2>2. /\ pending'[i] = pending[i] \ {t}
        /\ \A j \in Ingestion \ {i} : pending'[j] = pending[j]
    BY <1>1, <2>1 DEF Calls
  <2>3. Kept(i)
    BY <1>1 DEF Stored
  <2>4. Kept(i)'
    BY <2>1, <2>2, <2>3
  <2> QED
    BY <1>2, <2>1, <2>2, <2>4
<1>5. ASSUME NEW i \in Ingestion, NEW t \in pending[i], InsertFails(i, t) PROVE Stored'
  <2>1. /\ stage' = [stage EXCEPT ![i] = "failed"] /\ UNCHANGED <<pending, decision>>
        /\ nodes \subseteq nodes'
    BY <1>5 DEF InsertFails, Insert
  <2>2. stage'[i] = "failed" /\ \A j \in Ingestion \ {i} : stage'[j] = stage[j]
    BY <1>1, <2>1 DEF TypeOK
  <2>3. Kept(i)'
    BY <2>2
  <2> QED
    BY <1>2, <2>1, <2>2, <2>3
<1>6. ASSUME NEW i \in Ingestion, Finish(i) PROVE Stored'
  <2>1. /\ stage[i] = "storing" /\ pending[i] = {}
        /\ stage' = [stage EXCEPT ![i] = "done"] /\ UNCHANGED <<nodes, pending, decision>>
    BY <1>6 DEF Finish
  <2>2. stage'[i] = "done" /\ \A j \in Ingestion \ {i} : stage'[j] = stage[j]
    BY <1>1, <2>1 DEF TypeOK
  <2>3. Kept(i)
    BY <1>1 DEF Stored
  <2>4. Kept(i)'
    BY <2>1, <2>2, <2>3
  <2> QED
    BY <1>2, <2>1, <2>2, <2>4
<1>7. CASE UNCHANGED vars
  BY <1>1, <1>7 DEF vars, Stored
<1> QED
  BY <1>3, <1>4, <1>5, <1>6, <1>7 DEF Next

LEMMA Invariant == Spec => []IInv
<1>1. Init => IInv
  BY InitInvariant
<1>2. IInv /\ [Next]_vars => IInv'
  <2> SUFFICES ASSUME IInv, [Next]_vars PROVE IInv'
    OBVIOUS
  <2>1. (MergeSimilarity >= DetectorBar => Apart') /\ Promised'
    BY VerdictsKept
  <2>2. TypeOK' /\ Calls' /\ Ordered' /\ Stored'
    BY TypeKept, CallsKept, OrderedKept, StoredKept
  <2> QED
    BY <2>1, <2>2 DEF IInv
<1> QED
  BY <1>1, <1>2, PTL DEF Spec

-----------------------------------------------------------------------------
(* Only what was decided to be created is inserted, and a decision names   *)
(* no node but the listed ones, for any calls, events and policy.          *)
THEOREM AdmissionTyped == Spec => []TypeOK
<1>1. IInv => TypeOK
  BY DEF IInv
<1> QED
  BY <1>1, Invariant, PTL

(* Two nodes that would have been merged came from one event or a race,    *)
(* under any policy that merges nothing the detector cannot see; a merge   *)
(* threshold below its 0.65 would be decided by the detector alone.        *)
THEOREM TwinsNeedARace ==
  ASSUME MergeSimilarity >= DetectorBar
  PROVE  Spec => []TwinsOnlyByRace
<1>1. IInv => TwinsOnlyByRace
  <2> SUFFICES ASSUME IInv, NEW n \in nodes, NEW m \in nodes, n.call # m.call,
                      {n.call, m.call} \intersect raced = {}
               PROVE  ~(Similarity(Row(n), Row(m)) >= MergeSimilarity)
    BY DEF TwinsOnlyByRace
  <2>1. TypeOK /\ Calls /\ Apart /\ Ordered
    BY DEF IInv
  <2>2. ASSUME NEW x \in nodes, NEW y \in nodes, x \in context[y.call]
        PROVE  ~(Similarity(Row(y), Row(x)) >= MergeSimilarity)
    BY <2>1, <2>2, RowType DEF Apart
  <2>3. Similarity(Row(n), Row(m)) = Similarity(Row(m), Row(n))
    BY <2>1, RowMeasured, SimilarityType
  <2>4. n \in context[m.call] \/ m \in context[n.call]
    BY <2>1 DEF Ordered
  <2> QED
    BY <2>2, <2>3, <2>4
<1> QED
  BY <1>1, Invariant, PTL

(* What would be worth a node in an empty store has one, or a node like it *)
(* does, once its event is dealt with, in whatever store it arrived and    *)
(* under any policy.                                                       *)
THEOREM WorthyStays == Spec => []WorthyIsKept
<1>1. IInv => WorthyIsKept
  <2> SUFFICES ASSUME IInv, NEW i \in Ingestion, stage[i] = "done", NEW t \in Titles(event[i]),
                      WorthyAlone(Candidate(event[i], t))
               PROVE  \E n \in nodes : Near(Candidate(event[i], t), Row(n))
    BY DEF WorthyIsKept, Near
  <2> DEFINE c == Candidate(event[i], t)
  <2>1. TypeOK /\ Calls /\ Promised /\ Stored
    BY DEF IInv
  <2>2. i \in DOMAIN event /\ event[i] \in Event
    BY <2>1 DEF Calls, TypeOK, Range
  <2>3. Measured(c)
    BY <2>2, CandidateType DEF Measured
  <2>4. Worthy(c)
    <3>1. 25 * c.edges \in Nat /\ c.importance \in Nat
      BY <2>3 DEF Measured
    <3>2. Connectedness(c, {}) = Lower(100, 25 * c.edges)
      BY <3>1 DEF Connectedness, Lower
    <3>3. Recurrence(c, {}) = 0
      <4>1. {n \in {} : Cardinality(c.terms \intersect Row(n).terms) >= 2} = {}
        OBVIOUS
      <4> QED
        BY <4>1, FS_EmptySet DEF Recurrence, Lower
    <3>4. Novelty(c, NoDuplicate) = Whole
      BY DEF Novelty
    <3>5. Total(c, {}, NoDuplicate) =
            (25 * Connectedness(c, {}) + 20 * Usefulness(c) + 500 * Recurrence(c, {})
               + 25 * c.importance) * Whole + 1500 * Novelty(c, NoDuplicate)
      BY Zenon DEF Total
    <3>6. Lower(100, 25 * c.edges) \in Nat /\ Usefulness(c) \in Nat
      BY <3>1 DEF Usefulness, Lower
    <3>7. Total(c, {}, NoDuplicate) =
            (25 * Lower(100, 25 * c.edges) + 20 * Usefulness(c) + 25 * c.importance) * Whole
              + 1500 * Whole
      BY <3>1, <3>2, <3>3, <3>4, <3>5, <3>6 DEF Whole
    <3> QED
      BY <3>2, <3>7 DEF WorthyAlone, Worthy
  <2>5. CASE decision[i][t].action = "CreateNewNode"
    <3>1. [call |-> i, title |-> t] \in nodes
      BY <2>1, <2>2, <2>5 DEF Stored, Calls
    <3>2. Row([call |-> i, title |-> t]) = c
      BY DEF Row
    <3>3. Similarity(c, c) = Whole
      BY <2>3, SimilarityType
    <3>4. Near(c, c)
      BY <3>3 DEF Near, Whole
    <3> QED
      BY <3>1, <3>2, <3>4
  <2>6. CASE decision[i][t].action # "CreateNewNode"
    <3>1. PICK n \in context[i] : Near(c, Row(n))
      BY <2>1, <2>2, <2>4, <2>6 DEF Promised
    <3>2. n \in nodes
      BY <2>1 DEF TypeOK
    <3> QED
      BY <3>1, <3>2
  <2> QED
    BY <2>5, <2>6
<1> QED
  BY <1>1, Invariant, PTL
=============================================================================
