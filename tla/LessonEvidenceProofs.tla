------------------------ MODULE LessonEvidenceProofs ------------------------
(***************************************************************************)
(* Proofs about LessonEvidence, for any agents, memories, overlaps and     *)
(* policy.                                                                 *)
(*                                                                         *)
(* What backs a lesson - its supporting sources, those about to be         *)
(* attached and those given up - changes only when a lesson is saved for   *)
(* the first time, with one unit more of evidence_count, and then grows by *)
(* one.  An update that an agent still holds is therefore as well backed,  *)
(* whenever it is saved, as it was when it was computed.                   *)
(***************************************************************************)
EXTENDS LessonEvidence, FiniteSetTheorems, TLAPS

(* How an outcome depends on the list it was decided against. *)
FromList(o, listed) ==
  /\ o.role = IF o.kind = "Contradiction" THEN "contradicting" ELSE "supporting"
  /\ o.kind \in {"Reinforce", "Refine"} =>
       /\ o.lesson \in DOMAIN listed
       /\ o.updated.evidence_count = listed[o.lesson].evidence_count + 1
  /\ o.kind = "CreateNew" => o.lesson \notin DOMAIN listed /\ o.updated.evidence_count = 1
  /\ o.kind = "Reinforce" => o.updated.statement = listed[o.lesson].statement
  /\ o.kind \in {"CreateNew", "Refine"} =>
       \A l \in DOMAIN listed :
         listed[l].statement = o.updated.statement => ~HasTerms(o.updated.statement)

Held(a) == {outcomes[a][k] : k \in DOMAIN outcomes[a]}

Outstanding ==
  \A a \in Agent : \A o \in Held(a) : o.lesson \in 1..uuids /\ FromList(o, seen[a])

(* Where an agent is with its first outcome. *)
Calls ==
  \A a \in Agent :
    /\ pc[a] \in {"saving", "resaving"} => Head(outcomes[a]).kind # "Contradiction"
    /\ Saved(a) => Head(outcomes[a]).lesson \in DOMAIN lessons

(* New rows do not fall together with old ones, and there are finitely     *)
(* many to count.                                                          *)
Counted ==
  /\ IsFiniteSet(sources) /\ \A s \in sources : s.id <= uuids
  /\ IsFiniteSet(orphans) /\ \A o \in orphans : o[2] < failures
  /\ \A s \in sources : s.lesson \in DOMAIN lessons
  /\ \A o \in orphans : o[1] \in DOMAIN lessons

(* What is held may be saved now. *)
Backed ==
  \A a \in Agent : \A o \in Held(a) :
    /\ o.kind # "Contradiction" => o.updated.evidence_count <= Backing(o.lesson) + 1
    /\ pc[a] = "resaving" /\ o = Head(outcomes[a]) =>
         o.updated.evidence_count <= Backing(o.lesson)

IInv ==
  /\ TypeOK
  /\ Outstanding
  /\ Calls
  /\ Counted
  /\ Backed
  /\ EvidenceBacked
  /\ CountsMatchUnlessRaced
  /\ StatementsDistinctUnlessRaced

-----------------------------------------------------------------------------
(* process_memories *)

LEMMA SortedType ==
  ASSUME NEW S, IsFiniteSet(S), NEW score, NEW s \in Sorted(S, score)
  PROVE  s \in Seq(S)
<1>1. Cardinality(S) \in Nat
  BY FS_CardinalityType
<1>2. s \in [1..Cardinality(S) -> S]
  BY DEF Sorted, SetToSeqs
<1> QED
  BY <1>1, <1>2

LEMMA ProposalsType ==
  ASSUME NEW batch \in Batch, NEW proposed \in Proposals(batch)
  PROVE  /\ proposed \in Seq(Memory)
         /\ \A k \in 1..Len(proposed) : Proposes(proposed[k])
<1> DEFINE chosen == {k \in DOMAIN batch : Proposes(batch[k])}
<1>1. batch \in Seq(Memory)
  BY MemoryAssumption
<1>2. IsFiniteSet(chosen)
  <2>1. DOMAIN batch = 1..Len(batch) /\ Len(batch) \in Nat
    BY <1>1
  <2>2. IsFiniteSet(DOMAIN batch)
    BY <2>1, FS_Interval
  <2> QED
    BY <2>2, FS_Subset
<1>3. PICK order \in Sorted(chosen, [k \in chosen |-> -k]) :
        proposed = [i \in DOMAIN order |-> batch[order[i]]]
  BY DEF Proposals
<1>4. order \in Seq(chosen)
  BY <1>2, <1>3, SortedType
<1>5. \A i \in DOMAIN order : batch[order[i]] \in Memory /\ Proposes(batch[order[i]])
  BY <1>1, <1>4
<1> QED
  BY <1>3, <1>4, <1>5

LEMMA SimilarityType ==
  ASSUME NEW m \in Memory, NEW lesson \in Row
  PROVE  /\ Similarity(m, lesson) \in Hundredths
         /\ lesson.statement = Says[m] /\ HasTerms(Says[m]) => Similarity(m, lesson) = 100
<1>1. Says[m] \in Statement /\ lesson.statement \in Statement
  BY MemoryAssumption DEF Row
<1>2. /\ Overlap[<<Says[m], lesson.statement>>] \in 0..100
      /\ lesson.statement = Says[m] /\ HasTerms(Says[m])
           => Overlap[<<Says[m], lesson.statement>>] = 100
  BY <1>1, OverlapAssumption DEF Hundredths
<1>3. TypeBonus \in 0..100
  BY PolicyAssumption DEF Hundredths
<1> QED
  BY <1>2, <1>3 DEF Similarity, Lower, Hundredths

(* A lesson with new values in its columns. *)
Reinforced(lesson, confidence, evidence, reinforcements) ==
  [lesson EXCEPT !.status = "Reinforced",
                 !.confidence = confidence,
                 !.evidence_count = evidence,
                 !.reinforcement_count = reinforcements]
Refined(lesson, statement, confidence, evidence, reinforcements) ==
  [lesson EXCEPT !.statement = statement,
                 !.confidence = confidence,
                 !.evidence_count = evidence,
                 !.reinforcement_count = reinforcements]

LEMMA ReinforcedRow ==
  ASSUME NEW lesson \in Row, NEW confidence \in Hundredths,
         NEW evidence \in Nat \ {0}, NEW reinforcements \in Nat
  PROVE  LET row == Reinforced(lesson, confidence, evidence, reinforcements)
         IN  /\ row \in Row
             /\ row.evidence_count = evidence
             /\ row.statement = lesson.statement
BY DEF Reinforced, Row

LEMMA RefinedRow ==
  ASSUME NEW lesson \in Row, NEW statement \in Statement, NEW confidence \in Hundredths,
         NEW evidence \in Nat \ {0}, NEW reinforcements \in Nat
  PROVE  LET row == Refined(lesson, statement, confidence, evidence, reinforcements)
         IN  /\ row \in Row
             /\ row.evidence_count = evidence
             /\ row.statement = statement
BY DEF Refined, Row

LEMMA UpdatesType ==
  ASSUME NEW m \in Memory, NEW lesson \in Row
  PROVE  /\ ReinforceLesson(lesson) \in Row
         /\ ReinforceLesson(lesson).evidence_count = lesson.evidence_count + 1
         /\ ReinforceLesson(lesson).statement = lesson.statement
         /\ RefineLesson(lesson, m) \in Row
         /\ RefineLesson(lesson, m).evidence_count = lesson.evidence_count + 1
         /\ RefineLesson(lesson, m).statement = Says[m]
<1> DEFINE raised    == Lower(lesson.confidence + ConfidenceIncrement, 100)
           refined   == Lower(lesson.confidence + RefinementConfidenceIncrement, 100)
           evidence  == lesson.evidence_count + 1
           reinforcements == lesson.reinforcement_count + 1
<1>1. /\ ConfidenceIncrement \in 0..100
      /\ RefinementConfidenceIncrement \in 0..100
      /\ Says[m] \in Statement
  BY PolicyAssumption, MemoryAssumption DEF Hundredths
<1>2. /\ lesson.confidence \in 0..100
      /\ lesson.evidence_count \in Nat \ {0}
      /\ lesson.reinforcement_count \in Nat
  BY DEF Row, Hundredths
<1>3. /\ raised \in Hundredths /\ refined \in Hundredths
      /\ evidence \in Nat \ {0} /\ reinforcements \in Nat
  <2>1. \A x, y \in 0..100 : Lower(x + y, 100) \in 0..100
    BY DEF Lower
  <2>2. \A n \in Nat : n + 1 \in Nat \ {0} /\ n + 1 \in Nat
    OBVIOUS
  <2>3. raised \in 0..100 /\ refined \in 0..100
    BY <1>1, <1>2, <2>1
  <2>4. evidence \in Nat \ {0} /\ reinforcements \in Nat
    BY <1>2, <2>2
  <2> QED BY <2>3, <2>4 DEF Hundredths
<1>4. /\ ReinforceLesson(lesson) = Reinforced(lesson, raised, evidence, reinforcements)
      /\ RefineLesson(lesson, m) =
           Refined(lesson, Says[m], refined, evidence, reinforcements)
  BY Zenon DEF ReinforceLesson, RefineLesson, Reinforced, Refined
<1> HIDE DEF raised, refined, evidence, reinforcements
<1>5. /\ ReinforceLesson(lesson) \in Row
      /\ ReinforceLesson(lesson).evidence_count = evidence
      /\ ReinforceLesson(lesson).statement = lesson.statement
  BY <1>3, <1>4, ReinforcedRow
<1>6. /\ RefineLesson(lesson, m) \in Row
      /\ RefineLesson(lesson, m).evidence_count = evidence
      /\ RefineLesson(lesson, m).statement = Says[m]
  BY <1>1, <1>3, <1>4, RefinedRow
<1> QED
  BY <1>5, <1>6 DEF evidence

(* A lesson that says what m says already, in terms that are compared, is  *)
(* as similar as can be, so m reinforces it or one that is as similar, or  *)
(* contradicts it.                                                         *)
LEMMA OutcomeFollows ==
  ASSUME NEW listed, \A l \in DOMAIN listed : l \in Nat /\ listed[l] \in Row,
         NEW m \in Memory, Proposes(m), NEW new \in Nat, new \notin DOMAIN listed,
         NEW o \in Resolve(m, new, listed)
  PROVE  /\ o \in Todo
         /\ o.lesson \in DOMAIN listed \union {new}
         /\ FromList(o, listed)
<1> DEFINE created == Outcome("CreateNew", new, ProposedLesson(m), m)
<1>1. ASSUME \A l \in DOMAIN listed : listed[l].statement = Says[m] => ~HasTerms(Says[m])
      PROVE  created \in Todo /\ FromList(created, listed) /\ created.lesson = new
  <2>1. ProposedLesson(m) \in Row
    BY <1>1, MemoryAssumption DEF ProposedLesson, Proposes, Row, LessonType, Hundredths
  <2> QED
    BY <1>1, <2>1 DEF Outcome, Todo, FromList, ProposedLesson
<1>2. CASE FindSimilar(m, listed) = {}
  <2>1. ASSUME NEW l \in DOMAIN listed, listed[l].statement = Says[m], HasTerms(Says[m])
        PROVE  FALSE
    <3>1. \A k \in DOMAIN listed : Similarity(m, listed[k]) \in 0..100
      BY SimilarityType DEF Hundredths
    <3>2. Similarity(m, listed[l]) = 100 /\ MinSimilarity < 100
      BY <2>1, SimilarityType, PolicyAssumption DEF Hundredths
    <3>3. MinSimilarity \in 0..100
      BY PolicyAssumption DEF Hundredths
    <3>4. l \in FindSimilar(m, listed)
      BY <3>1, <3>2, <3>3 DEF FindSimilar
    <3> QED
      BY <1>2, <3>4
  <2>2. o = created
    BY <1>2 DEF Resolve
  <2> QED
    BY <1>1, <2>1, <2>2
<1>3. CASE FindSimilar(m, listed) # {}
  <2>1. PICK l \in FindSimilar(m, listed) :
          o = IF Contradicts(m, listed[l]) THEN Outcome("Contradiction", l, listed[l], m)
              ELSE IF Reinforces(m, listed[l])
              THEN Outcome("Reinforce", l, ReinforceLesson(listed[l]), m)
              ELSE IF Refines(m, listed[l])
              THEN Outcome("Refine", l, RefineLesson(listed[l], m), m)
              ELSE created
    BY <1>3 DEF Resolve
  <2>2. /\ l \in DOMAIN listed
        /\ listed[l] \in Row
        /\ \A k \in DOMAIN listed : Similarity(m, listed[k]) <= Similarity(m, listed[l])
    BY DEF FindSimilar
  <2>3. ASSUME NEW k \in DOMAIN listed, listed[k].statement = Says[m], HasTerms(Says[m]),
               ~Contradicts(m, listed[l])
        PROVE  Reinforces(m, listed[l])
    <3>1. Similarity(m, listed[k]) = 100 /\ Similarity(m, listed[l]) \in 0..100
      BY <2>2, <2>3, SimilarityType DEF Hundredths
    <3>2. MinSimilarityForReinforcement \in 0..100
      BY PolicyAssumption DEF Hundredths
    <3> QED
      BY <2>2, <2>3, <3>1, <3>2 DEF Reinforces
  <2>4. CASE Contradicts(m, listed[l])
    BY <2>1, <2>2, <2>4 DEF Outcome, Todo, FromList
  <2>5. CASE ~Contradicts(m, listed[l]) /\ Reinforces(m, listed[l])
    <3>1. o = Outcome("Reinforce", l, ReinforceLesson(listed[l]), m)
      BY <2>1, <2>5
    <3> QED
      BY <2>2, <3>1, UpdatesType DEF Outcome, Todo, FromList
  <2>6. CASE ~Contradicts(m, listed[l]) /\ ~Reinforces(m, listed[l]) /\ Refines(m, listed[l])
    <3>1. o = Outcome("Refine", l, RefineLesson(listed[l], m), m)
      BY <2>1, <2>6
    <3> QED
      BY <2>2, <2>3, <2>6, <3>1, UpdatesType DEF Outcome, Todo, FromList
  <2>7. CASE ~Contradicts(m, listed[l]) /\ ~Reinforces(m, listed[l]) /\ ~Refines(m, listed[l])
    <3>1. o = created
      BY <2>1, <2>7
    <3> QED
      BY <1>1, <2>3, <2>7, <3>1
  <2> QED
    BY <2>4, <2>5, <2>6, <2>7
<1> QED
  BY <1>2, <1>3

LEMMA ProcessMemoriesType ==
  ASSUME uuids \in Nat, NEW listed, Table(listed),
         NEW batch \in Batch, NEW proposed \in Proposals(batch),
         NEW todo \in ProcessMemories(proposed, listed)
  PROVE  /\ Len(proposed) \in Nat
         /\ todo \in Seq(Todo)
         /\ \A k \in DOMAIN todo : /\ todo[k].lesson \in 1..(uuids + Len(proposed))
                                   /\ FromList(todo[k], listed)
<1>1. /\ proposed \in Seq(Memory)
      /\ Len(proposed) \in Nat
      /\ \A k \in 1..Len(proposed) : proposed[k] \in Memory /\ Proposes(proposed[k])
  BY ProposalsType
<1>2. /\ DOMAIN todo = 1..Len(proposed)
      /\ \A k \in 1..Len(proposed) : todo[k] \in Resolve(proposed[k], uuids + k, listed)
  BY DEF ProcessMemories
<1>3. ASSUME NEW k \in 1..Len(proposed)
      PROVE  /\ todo[k] \in Todo
             /\ todo[k].lesson \in 1..(uuids + Len(proposed))
             /\ FromList(todo[k], listed)
  <2> DEFINE new == uuids + k
  <2>1. \A l \in DOMAIN listed : l \in Nat /\ l \in 1..uuids /\ listed[l] \in Row
    BY DEF Table
  <2>2. /\ proposed[k] \in Memory
        /\ Proposes(proposed[k])
        /\ todo[k] \in Resolve(proposed[k], new, listed)
    BY <1>1, <1>2
  <2>3. /\ new \in Nat
        /\ new \in 1..(uuids + Len(proposed))
        /\ new \notin DOMAIN listed
    BY <1>1, <2>1
  <2> HIDE DEF new
  <2>4. /\ todo[k] \in Todo
        /\ todo[k].lesson \in DOMAIN listed \union {new}
        /\ FromList(todo[k], listed)
    BY <2>1, <2>2, <2>3, OutcomeFollows
  <2> QED
    BY <1>1, <2>1, <2>3, <2>4
<1>4. todo \in [1..Len(proposed) -> Todo]
  <2>1. todo = [k \in DOMAIN todo |-> todo[k]]
    BY DEF ProcessMemories
  <2> QED
    BY <1>2, <1>3, <2>1
<1> QED
  BY <1>1, <1>2, <1>3, <1>4

LEMMA FirstCallFollows ==
  ASSUME NEW todo \in Seq(Todo)
  PROVE  /\ FirstCall(todo) \in {"idle", "attaching", "saving"}
         /\ FirstCall(todo) # "idle" => todo # <<>>
         /\ FirstCall(todo) = "saving" => Head(todo).kind # "Contradiction"
         /\ FirstCall(todo) = "attaching" => Head(todo).kind = "Contradiction"
BY DEF FirstCall

LEMMA FirstIsHeld ==
  ASSUME TypeOK, NEW a \in Agent, pc[a] # "idle"
  PROVE  /\ outcomes[a] \in Seq(Todo) /\ outcomes[a] # <<>>
         /\ Head(outcomes[a]) \in Held(a)
         /\ Head(outcomes[a]) \in Todo
         /\ Tail(outcomes[a]) \in Seq(Todo)
         /\ {Tail(outcomes[a])[k] : k \in DOMAIN Tail(outcomes[a])} \subseteq Held(a)
<1>1. outcomes[a] \in Seq(Todo) /\ outcomes[a] # <<>>
  BY DEF TypeOK
<1>2. /\ Len(outcomes[a]) \in Nat \ {0}
      /\ Head(outcomes[a]) = outcomes[a][1] /\ 1 \in DOMAIN outcomes[a]
      /\ DOMAIN Tail(outcomes[a]) = 1..(Len(outcomes[a]) - 1)
      /\ \A k \in DOMAIN Tail(outcomes[a]) :
           Tail(outcomes[a])[k] = outcomes[a][k + 1] /\ k + 1 \in DOMAIN outcomes[a]
  BY <1>1
<1> QED
  BY <1>1, <1>2 DEF Held

-----------------------------------------------------------------------------
(* What backs a lesson *)

LEMMA BackingType ==
  ASSUME TypeOK, Counted
  PROVE  \A l : /\ IsFiniteSet(Supporting(l)) /\ IsFiniteSet(Attaching(l)) /\ IsFiniteSet(Orphans(l))
                /\ Cardinality(Supporting(l)) \in Nat
                /\ Cardinality(Attaching(l)) \in Nat
                /\ Cardinality(Orphans(l)) \in Nat
                /\ Backing(l) \in Nat
<1> TAKE l
<1>1. IsFiniteSet(Supporting(l))
  BY FS_Subset DEF Counted, Supporting
<1>2. IsFiniteSet(Attaching(l))
  BY AgentAssumption, FS_Subset DEF Attaching
<1>3. IsFiniteSet(Orphans(l))
  BY FS_Subset DEF Counted, Orphans
<1> QED
  BY <1>1, <1>2, <1>3, FS_CardinalityType DEF Backing

(* The new source of AttachSource. *)
NewSource(a) ==
  [id |-> uuids + 1, lesson |-> Head(outcomes[a]).lesson,
   node |-> Head(outcomes[a]).memory, role |-> Head(outcomes[a]).role]

LEMMA SupportingGrows ==
  ASSUME TypeOK, Counted, NEW a \in Agent, AttachSource(a), unheard' = unheard
  PROVE  \A l : Cardinality(Supporting(l)') = Cardinality(Supporting(l)) +
                  (IF NewSource(a).lesson = l /\ NewSource(a).role = "supporting" THEN 1 ELSE 0)
<1> TAKE l
<1>1. sources' = sources \union {NewSource(a)}
  BY DEF AttachSource, NewSource
<1>2. NewSource(a) \notin Supporting(l) /\ NewSource(a).id \notin unheard
  <2>1. uuids + 1 > uuids
    BY DEF TypeOK
  <2>2. \A s \in sources : s.id <= uuids /\ s.id \in Nat
    BY DEF Counted, TypeOK
  <2>3. NewSource(a).id = uuids + 1
    BY DEF NewSource
  <2>4. \A i \in unheard : i \in 1..uuids
    BY DEF TypeOK
  <2> QED
    BY <2>1, <2>2, <2>3, <2>4 DEF Supporting, TypeOK
<1>3. CASE NewSource(a).lesson = l /\ NewSource(a).role = "supporting"
  <2>1. Supporting(l)' = Supporting(l) \union {NewSource(a)}
    BY <1>1, <1>2, <1>3 DEF Supporting
  <2> QED
    BY <1>2, <1>3, <2>1, BackingType, FS_AddElement
<1>4. CASE ~(NewSource(a).lesson = l /\ NewSource(a).role = "supporting")
  <2>1. Supporting(l)' = Supporting(l)
    BY <1>1, <1>4 DEF Supporting
  <2> QED
    BY <1>4, <2>1, BackingType
<1> QED
  BY <1>3, <1>4

(* An agent that is attaching stays so while others act. *)
LEMMA OthersStay ==
  ASSUME TypeOK, NEW a \in Agent,
         \A b \in Agent \ {a} : pc'[b] = pc[b] /\ outcomes'[b] = outcomes[b]
  PROVE  \A l : Attaching(l)' \ {a} = Attaching(l) \ {a}
BY DEF Attaching, Saved

(* A save whose source is still to come counts as what it will be. *)
LEMMA SavingBacks ==
  ASSUME IInv, NEW a \in Agent, UpsertLesson(a) \/ UpsertLessonFails(a)
  PROVE  \A l : Backing(l)' = Backing(l) + (IF pc[a] = "saving" /\ l = Head(outcomes[a]).lesson
                                            THEN 1 ELSE 0)
<1> DEFINE o == Head(outcomes[a])
<1>1. /\ pc[a] \in {"saving", "resaving"}
      /\ pc' = [pc EXCEPT ![a] = "attaching"] \/ pc' = [pc EXCEPT ![a] = "resaving"]
      /\ UNCHANGED <<sources, outcomes, orphans, unheard>>
  BY DEF UpsertLesson, UpsertLessonFails, SaveLesson
<1>2. o.role = "supporting"
  <2>1. o \in Held(a) /\ o.kind # "Contradiction"
    BY <1>1, FirstIsHeld DEF IInv, Calls
  <2> QED
    BY <2>1 DEF IInv, Outstanding, FromList
<1>3. \A l : a \in Attaching(l)' <=> l = o.lesson
  BY <1>1, <1>2 DEF Attaching, Saved, IInv, TypeOK
<1>4. \A l : a \in Attaching(l) <=> l = o.lesson /\ pc[a] = "resaving"
  BY <1>1, <1>2 DEF Attaching, Saved, IInv, TypeOK
<1>5. \A l : Attaching(l)' \ {a} = Attaching(l) \ {a}
  BY <1>1, OthersStay DEF IInv, TypeOK
<1>6. \A l : Supporting(l)' = Supporting(l) /\ Orphans(l)' = Orphans(l)
  BY <1>1 DEF Supporting, Orphans
<1> TAKE l
<1>7. CASE l = o.lesson
  <2>1. Attaching(l)' = Attaching(l) \union {a}
    BY <1>3, <1>5, <1>7
  <2>2. /\ IsFiniteSet(Attaching(l))
        /\ a \in Attaching(l) <=> pc[a] = "resaving"
    BY <1>4, <1>7, BackingType DEF IInv
  <2>3. Cardinality(Attaching(l)') =
          Cardinality(Attaching(l)) + (IF pc[a] = "saving" THEN 1 ELSE 0)
    BY <1>1, <2>1, <2>2, FS_AddElement, FS_CardinalityType
  <2> QED
    BY <1>6, <1>7, <2>3, BackingType DEF Backing, IInv
<1>8. CASE l # o.lesson
  <2>1. Attaching(l)' = Attaching(l)
    BY <1>3, <1>4, <1>5, <1>8
  <2> QED
    BY <1>6, <1>8, <2>1, BackingType DEF Backing, IInv
<1> QED
  BY <1>7, <1>8

(* A source that arrives takes the place of the agent that was to bring it.*)
LEMMA AttachingBacks ==
  ASSUME IInv, NEW a \in Agent, AttachLessonSource(a)
  PROVE  \A l : Backing(l)' = Backing(l)
<1> DEFINE o == Head(outcomes[a])
<1>1. /\ pc[a] = "attaching"
      /\ outcomes' = [outcomes EXCEPT ![a] = Tail(outcomes[a])]
      /\ pc' = [pc EXCEPT ![a] = FirstCall(Tail(outcomes[a]))]
      /\ UNCHANGED <<orphans, unheard>>
      /\ AttachSource(a)
  BY DEF AttachLessonSource, AttachSource
<1>2. o \in Held(a) /\ Tail(outcomes[a]) \in Seq(Todo)
  BY <1>1, FirstIsHeld DEF IInv
<1>3. \A l : a \notin Attaching(l)'
  <2>1. /\ outcomes'[a] = Tail(outcomes[a])
        /\ pc'[a] = FirstCall(Tail(outcomes[a]))
    BY <1>1 DEF IInv, TypeOK
  <2>2. pc'[a] = "attaching" => Head(outcomes'[a]).role = "contradicting"
    <3>1. ASSUME pc'[a] = "attaching" PROVE Head(outcomes'[a]).kind = "Contradiction"
                                            /\ Head(outcomes'[a]) \in Held(a)
      <4>1. Tail(outcomes[a]) # <<>> /\ Head(Tail(outcomes[a])).kind = "Contradiction"
        BY <1>2, <2>1, <3>1, FirstCallFollows
      <4>2. Head(Tail(outcomes[a])) = Tail(outcomes[a])[1] /\ 1 \in DOMAIN Tail(outcomes[a])
        BY <1>2, <4>1
      <4>3. Head(Tail(outcomes[a])) \in Held(a)
        BY <1>1, <4>2, FirstIsHeld DEF IInv
      <4> QED
        BY <2>1, <4>1, <4>3
    <3> QED
      BY <3>1 DEF IInv, Outstanding, FromList
  <2>3. pc'[a] # "resaving"
    BY <1>2, <2>1, FirstCallFollows
  <2> QED
    BY <2>2, <2>3 DEF Attaching, Saved
<1>4. \A l : a \in Attaching(l) <=> l = o.lesson /\ o.role = "supporting"
  BY <1>1 DEF Attaching, Saved
<1>5. \A l : Attaching(l)' \ {a} = Attaching(l) \ {a}
  BY <1>1, OthersStay DEF IInv, TypeOK
<1>6. \A l : Cardinality(Supporting(l)') = Cardinality(Supporting(l)) +
                (IF o.lesson = l /\ o.role = "supporting" THEN 1 ELSE 0)
  <2>1. NewSource(a).lesson = o.lesson /\ NewSource(a).role = o.role
    BY DEF NewSource
  <2> QED
    BY <1>1, <2>1, SupportingGrows DEF IInv
<1> TAKE l
<1>7. Attaching(l)' = Attaching(l) \ {a}
  BY <1>3, <1>5
<1>8. Cardinality(Attaching(l)') = Cardinality(Attaching(l)) -
                (IF o.lesson = l /\ o.role = "supporting" THEN 1 ELSE 0)
  <2>1. IsFiniteSet(Attaching(l)) /\ Cardinality(Attaching(l)) \in Nat
    BY BackingType DEF IInv
  <2>2. CASE a \in Attaching(l)
    BY <1>4, <1>7, <2>1, <2>2, FS_RemoveElement
  <2>3. CASE a \notin Attaching(l)
    BY <1>4, <1>7, <2>1, <2>3
  <2> QED
    BY <2>2, <2>3
<1>9. Orphans(l)' = Orphans(l)
  BY <1>1 DEF Orphans
<1> QED
  BY <1>6, <1>8, <1>9, BackingType DEF Backing, IInv

(* A source whose call returned an error is to be attached again.          *)
LEMMA AttachingAgainBacks ==
  ASSUME IInv, NEW a \in Agent, AttachLessonSourceFails(a)
  PROVE  \A l : Backing(l)' = Backing(l)
<1>1. /\ AttachSource(a) /\ UNCHANGED <<pc, outcomes, orphans>>
      /\ unheard' = unheard \union {uuids'}
  BY DEF AttachLessonSourceFails
<1>2. sources' = sources \union {NewSource(a)} /\ NewSource(a).id = uuids'
  BY <1>1 DEF AttachSource, NewSource
<1>3. \A s \in sources : s.id # uuids'
  <2>1. uuids' = uuids + 1 /\ uuids \in Nat
    BY <1>1 DEF AttachSource, IInv, TypeOK
  <2>2. \A s \in sources : s.id \in Nat /\ s.id <= uuids
    BY DEF IInv, TypeOK, Counted
  <2> QED
    BY <2>1, <2>2
<1> TAKE l
<1>4. Supporting(l)' = Supporting(l)
  BY <1>1, <1>2, <1>3 DEF Supporting
<1>5. Attaching(l)' = Attaching(l) /\ Orphans(l)' = Orphans(l)
  BY <1>1 DEF Attaching, Saved, Orphans
<1> QED
  BY <1>4, <1>5 DEF Backing

(* What is given up is an orphan of its own. *)
LEMMA GivingUpBacks ==
  ASSUME IInv, NEW a \in Agent, GiveUp(a)
  PROVE  \A l : Backing(l)' = Backing(l)
<1> DEFINE o == Head(outcomes[a])
<1>1. /\ pc' = [pc EXCEPT ![a] = "idle"]
      /\ outcomes' = [outcomes EXCEPT ![a] = <<>>]
      /\ orphans' = IF Saved(a) THEN orphans \union {<<o.lesson, failures>>} ELSE orphans
      /\ UNCHANGED <<sources, unheard>>
  BY DEF GiveUp, store
<1>2. \A l : a \notin Attaching(l)'
  BY <1>1 DEF Attaching, Saved, IInv, TypeOK
<1>3. \A l : Attaching(l)' \ {a} = Attaching(l) \ {a}
  BY <1>1, OthersStay DEF IInv, TypeOK
<1>4. \A l : a \in Attaching(l) <=> Saved(a) /\ o.lesson = l
  BY DEF Attaching
<1>5. \A l : <<l, failures>> \notin orphans
  <2>1. failures \in Nat /\ \A x \in orphans : x[2] < failures /\ x[2] \in Nat
    BY DEF IInv, Counted, TypeOK
  <2> QED
    BY <2>1
<1> TAKE l
<1>6. /\ Supporting(l)' = Supporting(l)
      /\ Attaching(l)' = Attaching(l) \ {a}
  BY <1>1, <1>2, <1>3 DEF Supporting
<1>7. CASE a \in Attaching(l)
  <2>1. Orphans(l)' = Orphans(l) \union {<<l, failures>>}
    BY <1>1, <1>4, <1>7 DEF Orphans
  <2>2. <<l, failures>> \notin Orphans(l)
    BY <1>5 DEF Orphans
  <2>3. Cardinality(Orphans(l)') = Cardinality(Orphans(l)) + 1
    BY <2>1, <2>2, BackingType, FS_AddElement DEF IInv
  <2>4. Cardinality(Attaching(l)') = Cardinality(Attaching(l)) - 1
    BY <1>6, <1>7, BackingType, FS_RemoveElement DEF IInv
  <2> QED
    BY <1>6, <2>3, <2>4, BackingType DEF Backing, IInv
<1>8. CASE a \notin Attaching(l)
  <2>1. Orphans(l)' = Orphans(l)
    BY <1>1, <1>4, <1>8 DEF Orphans
  <2>2. Attaching(l)' = Attaching(l)
    BY <1>6, <1>8
  <2> QED
    BY <1>6, <2>1, <2>2 DEF Backing
<1> QED
  BY <1>7, <1>8

LEMMA Learned ==
  ASSUME IInv, NEW a \in Agent, Learn(a)
  PROVE  \E todo \in Seq(Todo), n \in Nat :
           /\ outcomes' = [outcomes EXCEPT ![a] = todo]
           /\ pc' = [pc EXCEPT ![a] = FirstCall(todo)]
           /\ uuids' = uuids + n
           /\ \A k \in DOMAIN todo : /\ todo[k].lesson \in 1..(uuids + n)
                                     /\ FromList(todo[k], lessons)
<1>1. PICK batch \in Batch : \E proposed \in Proposals(batch) :
        /\ \E todo \in ProcessMemories(proposed, lessons) :
             /\ outcomes' = [outcomes EXCEPT ![a] = todo]
             /\ pc' = [pc EXCEPT ![a] = FirstCall(todo)]
        /\ uuids' = uuids + Len(proposed)
  BY DEF Learn
<1>2. PICK proposed \in Proposals(batch) :
        /\ \E todo \in ProcessMemories(proposed, lessons) :
             /\ outcomes' = [outcomes EXCEPT ![a] = todo]
             /\ pc' = [pc EXCEPT ![a] = FirstCall(todo)]
        /\ uuids' = uuids + Len(proposed)
  BY <1>1
<1>3. PICK todo \in ProcessMemories(proposed, lessons) :
             /\ outcomes' = [outcomes EXCEPT ![a] = todo]
             /\ pc' = [pc EXCEPT ![a] = FirstCall(todo)]
  BY <1>2
<1>4. uuids \in Nat /\ Table(lessons)
  BY DEF IInv, TypeOK
<1>5. /\ Len(proposed) \in Nat
      /\ todo \in Seq(Todo)
      /\ \A k \in DOMAIN todo : /\ todo[k].lesson \in 1..(uuids + Len(proposed))
                                /\ FromList(todo[k], lessons)
  BY <1>4, ProcessMemoriesType
<1> QED
  BY <1>2, <1>3, <1>5

(* An agent that starts on a list of outcomes has saved nothing yet. *)
LEMMA FirstCallSavesNothing ==
  ASSUME NEW todo \in Seq(Todo), NEW listed, \A k \in DOMAIN todo : FromList(todo[k], listed),
         NEW a \in Agent, pc'[a] = FirstCall(todo), outcomes'[a] = todo
  PROVE  ~Saved(a)' /\ pc'[a] # "resaving"
<1>1. FirstCall(todo) = "attaching" => todo # <<>> /\ Head(todo).kind = "Contradiction"
  BY FirstCallFollows
<1>2. todo # <<>> => Head(todo) = todo[1] /\ 1 \in DOMAIN todo
  OBVIOUS
<1>3. FirstCall(todo) = "attaching" => Head(todo).role = "contradicting"
  BY <1>1, <1>2 DEF FromList
<1>4. pc'[a] # "resaving"
  BY FirstCallFollows
<1> QED
  BY <1>3, <1>4 DEF Saved

LEMMA LearningBacks ==
  ASSUME IInv, NEW a \in Agent, Learn(a)
  PROVE  \A l : Backing(l)' = Backing(l)
<1>1. PICK todo \in Seq(Todo), n \in Nat :
        /\ outcomes' = [outcomes EXCEPT ![a] = todo]
        /\ pc' = [pc EXCEPT ![a] = FirstCall(todo)]
        /\ \A k \in DOMAIN todo : FromList(todo[k], lessons)
  BY Learned
<1>2. pc[a] = "idle" /\ UNCHANGED <<sources, orphans, unheard>>
  BY DEF Learn
<1>3. pc'[a] = FirstCall(todo) /\ outcomes'[a] = todo
  BY <1>1 DEF IInv, TypeOK
<1>4. \A l : a \notin Attaching(l)'
  BY <1>1, <1>3, FirstCallSavesNothing DEF Attaching
<1>5. \A l : a \notin Attaching(l)
  BY <1>2 DEF Attaching, Saved
<1>6. \A l : Attaching(l)' \ {a} = Attaching(l) \ {a}
  BY <1>1, OthersStay DEF IInv, TypeOK
<1> TAKE l
<1>7. Attaching(l)' = Attaching(l)
  <2>1. a \notin Attaching(l)' /\ a \notin Attaching(l)
    BY <1>4, <1>5
  <2>2. Attaching(l)' \ {a} = Attaching(l) \ {a}
    BY <1>6
  <2> QED
    BY <2>1, <2>2 DEF Attaching
<1>8. Supporting(l)' = Supporting(l) /\ Orphans(l)' = Orphans(l)
  BY <1>2 DEF Supporting, Orphans
<1> QED
  BY <1>7, <1>8 DEF Backing

(* What backs a lesson never becomes less. *)
LEMMA BackingNeverDecreases ==
  ASSUME IInv, NEW a \in Agent,
         \/ Learn(a) \/ UpsertLesson(a) \/ UpsertLessonFails(a)
         \/ AttachLessonSource(a) \/ AttachLessonSourceFails(a) \/ GiveUp(a)
  PROVE  \A l : Backing(l)' \in Nat /\ Backing(l)' >= Backing(l)
<1> TAKE l
<1>1. Backing(l) \in Nat
  BY BackingType DEF IInv
<1>2. CASE Learn(a)
  BY <1>1, <1>2, LearningBacks
<1>3. CASE UpsertLesson(a) \/ UpsertLessonFails(a)
  BY <1>1, <1>3, SavingBacks
<1>4. CASE AttachLessonSource(a)
  BY <1>1, <1>4, AttachingBacks
<1>5. CASE AttachLessonSourceFails(a)
  BY <1>1, <1>5, AttachingAgainBacks
<1>6. CASE GiveUp(a)
  BY <1>1, <1>6, GivingUpBacks
<1> QED
  BY <1>2, <1>3, <1>4, <1>5, <1>6

(* A lesson that is not in the table has nothing that backs it. *)
LEMMA NothingBacksTheUnknown ==
  ASSUME IInv, NEW l, l \notin DOMAIN lessons
  PROVE  Backing(l) = 0
<1>1. Supporting(l) = {}
  BY DEF IInv, Counted, Supporting
<1>2. Attaching(l) = {}
  BY DEF IInv, Calls, Attaching
<1>3. Orphans(l) = {}
  BY DEF IInv, Counted, Orphans
<1> QED
  BY <1>1, <1>2, <1>3, FS_EmptySet DEF Backing

-----------------------------------------------------------------------------
(* Every step keeps the invariant *)

LEMMA InitInvariant == Init => IInv
<1> SUFFICES ASSUME Init PROVE IInv
  OBVIOUS
<1>1. DOMAIN lessons = {}
  BY DEF Init, NoLessons
<1>2. TypeOK
  <2>1. Table(lessons)
    BY <1>1 DEF Init, NoLessons, Table
  <2>2. DOMAIN seen = Agent /\ \A a \in Agent : seen[a] = lessons
    BY DEF Init
  <2>3. \A a \in Agent : Table(seen[a])
    BY <2>1, <2>2 DEF Table
  <2>4. /\ pc \in [Agent -> {"idle", "saving", "resaving", "attaching"}]
        /\ outcomes \in [Agent -> Seq(Todo)]
        /\ \A a \in Agent : pc[a] = "idle"
    BY DEF Init
  <2> QED
    BY <2>1, <2>2, <2>3, <2>4 DEF Init, TypeOK
<1>3. \A a \in Agent : Held(a) = {} /\ ~Saved(a) /\ pc[a] = "idle"
  BY DEF Init, Held, Saved
<1>4. Outstanding /\ Calls /\ Backed
  BY <1>3 DEF Outstanding, Calls, Backed
<1>5. Counted
  BY FS_EmptySet DEF Init, Counted
<1> QED
  BY <1>1, <1>2, <1>4, <1>5 DEF IInv, EvidenceBacked, CountsMatchUnlessRaced,
                             StatementsDistinctUnlessRaced

LEMMA SaveType ==
  ASSUME IInv, NEW a \in Agent, SaveLesson(a)
  PROVE  LET o == Head(outcomes[a])
         IN  /\ o \in Held(a) /\ o \in Todo /\ o.kind # "Contradiction"
             /\ o.lesson \in 1..uuids /\ FromList(o, seen[a])
             /\ lessons' = Put(lessons, o.lesson, o.updated)
             /\ DOMAIN lessons' = DOMAIN lessons \union {o.lesson}
             /\ lessons'[o.lesson] = o.updated
             /\ \A l \in DOMAIN lessons \ {o.lesson} : lessons'[l] = lessons[l]
             /\ DOMAIN lessons' \subseteq 1..uuids
             /\ lessons' \in [DOMAIN lessons' -> Row]
             /\ raced' \in BOOLEAN
<1> DEFINE o == Head(outcomes[a])
<1>1. pc[a] \in {"saving", "resaving"} /\ lessons' = Put(lessons, o.lesson, o.updated)
  BY DEF SaveLesson
<1>2. o \in Held(a) /\ o \in Todo
  BY <1>1, FirstIsHeld DEF IInv
<1>3. o.kind # "Contradiction" /\ o.lesson \in 1..uuids /\ FromList(o, seen[a])
  BY <1>1, <1>2 DEF IInv, Calls, Outstanding
<1>4. o.updated \in Row
  BY <1>2 DEF Todo
<1>5. /\ DOMAIN lessons' = DOMAIN lessons \union {o.lesson}
      /\ lessons'[o.lesson] = o.updated
      /\ \A l \in DOMAIN lessons \ {o.lesson} : lessons'[l] = lessons[l]
      /\ lessons' = [l \in DOMAIN lessons' |-> lessons'[l]]
  BY <1>1 DEF Put
<1>6. Table(lessons)
  BY DEF IInv, TypeOK
<1>7. DOMAIN lessons' \subseteq 1..uuids /\ \A l \in DOMAIN lessons' : lessons'[l] \in Row
  BY <1>3, <1>4, <1>5, <1>6 DEF Table
<1>8. raced' \in BOOLEAN
  BY DEF SaveLesson
<1> QED
  BY <1>1, <1>2, <1>3, <1>5, <1>7, <1>8

(* AttachLessonSource ends one outcome and starts the next. *)
LEMMA AttachType ==
  ASSUME IInv, NEW a \in Agent, AttachSource(a)
  PROVE  /\ uuids' = uuids + 1 /\ uuids' \in Nat
         /\ sources' = sources \union {NewSource(a)}
         /\ NewSource(a) \in [id : Nat, lesson : Nat, node : Memory,
                              role : {"supporting", "contradicting"}]
         /\ NewSource(a).id = uuids + 1
         /\ NewSource(a).lesson \in DOMAIN lessons
<1>1. pc[a] # "idle"
  BY DEF AttachSource
<1>2. Head(outcomes[a]) \in Todo
  BY <1>1, FirstIsHeld DEF IInv
<1>3. uuids \in Nat
  BY DEF IInv, TypeOK
<1> QED
  BY <1>2, <1>3 DEF AttachSource, NewSource, Todo

LEMMA TypeKept == IInv /\ [Next]_vars => TypeOK'
<1> SUFFICES ASSUME IInv, [Next]_vars PROVE TypeOK'
  OBVIOUS
<1>1. TypeOK
  BY DEF IInv
<1>2. ASSUME NEW a \in Agent, Learn(a) PROVE TypeOK'
  <2>1. PICK todo \in Seq(Todo), n \in Nat :
          /\ outcomes' = [outcomes EXCEPT ![a] = todo]
          /\ pc' = [pc EXCEPT ![a] = FirstCall(todo)]
          /\ uuids' = uuids + n
    BY <1>2, Learned
  <2>2. /\ seen' = [seen EXCEPT ![a] = lessons] /\ rounds' = rounds + 1
        /\ UNCHANGED <<lessons, sources, failures, orphans, unheard, raced>>
    BY <1>2 DEF Learn
  <2>3. FirstCall(todo) \in {"idle", "attaching", "saving"} /\ (FirstCall(todo) # "idle" => todo # <<>>)
    BY FirstCallFollows
  <2>4. uuids' \in Nat /\ 1..uuids \subseteq 1..uuids'
    BY <1>1, <2>1 DEF TypeOK
  <2>5. Table(lessons)' /\ DOMAIN seen' = Agent /\ \A b \in Agent : Table(seen[b])'
    BY <1>1, <2>2, <2>4 DEF TypeOK, Table
  <2>6. /\ outcomes' \in [Agent -> Seq(Todo)]
        /\ pc' \in [Agent -> {"idle", "saving", "resaving", "attaching"}]
        /\ \A b \in Agent : pc'[b] # "idle" => outcomes'[b] # <<>>
    BY <1>1, <2>1, <2>3 DEF TypeOK
  <2>7. unheard' \subseteq 1..uuids'
    BY <1>1, <2>2, <2>4 DEF TypeOK
  <2> QED
    BY <1>1, <2>2, <2>4, <2>5, <2>6, <2>7 DEF TypeOK
<1>3. ASSUME NEW a \in Agent, UpsertLesson(a) \/ UpsertLessonFails(a) PROVE TypeOK'
  <2>1. /\ SaveLesson(a)
        /\ pc' = [pc EXCEPT ![a] = "attaching"] \/ pc' = [pc EXCEPT ![a] = "resaving"]
        /\ failures' = failures \/ failures' = failures + 1
        /\ UNCHANGED <<sources, uuids, seen, outcomes, rounds, orphans, unheard>>
    BY <1>3 DEF UpsertLesson, UpsertLessonFails
  <2>2. Table(lessons)' /\ raced' \in BOOLEAN
    BY <2>1, SaveType DEF Table
  <2>3. \A b \in Agent : Table(seen[b])'
    BY <1>1, <2>1 DEF TypeOK, Table
  <2>4. pc[a] # "idle"
    BY <2>1 DEF SaveLesson
  <2>5. /\ pc' \in [Agent -> {"idle", "saving", "resaving", "attaching"}]
        /\ \A b \in Agent : pc'[b] # "idle" => outcomes'[b] # <<>>
    BY <1>1, <2>1, <2>4 DEF TypeOK
  <2> QED
    BY <1>1, <2>1, <2>2, <2>3, <2>5 DEF TypeOK
<1>4. ASSUME NEW a \in Agent, AttachLessonSource(a) \/ AttachLessonSourceFails(a) PROVE TypeOK'
  <2>1. /\ AttachSource(a)
        /\ \/ /\ outcomes' = [outcomes EXCEPT ![a] = Tail(outcomes[a])]
              /\ pc' = [pc EXCEPT ![a] = FirstCall(Tail(outcomes[a]))]
           \/ UNCHANGED <<outcomes, pc>>
        /\ failures' = failures \/ failures' = failures + 1
        /\ unheard' = unheard \/ unheard' = unheard \union {uuids'}
        /\ UNCHANGED <<lessons, seen, rounds, orphans, raced>>
    BY <1>4 DEF AttachLessonSource, AttachLessonSourceFails
  <2>2. uuids' \in Nat /\ 1..uuids \subseteq 1..uuids' /\ uuids' \in 1..uuids'
    BY <1>1, <2>1, AttachType DEF TypeOK
  <2>3. sources' \subseteq [id : Nat, lesson : Nat, node : Memory,
                            role : {"supporting", "contradicting"}]
    BY <1>1, <2>1, AttachType DEF TypeOK
  <2>4. Table(lessons)' /\ \A b \in Agent : Table(seen[b])'
    BY <1>1, <2>1, <2>2 DEF TypeOK, Table
  <2>5. pc[a] # "idle"
    BY <2>1 DEF AttachSource
  <2>6. /\ Tail(outcomes[a]) \in Seq(Todo)
        /\ FirstCall(Tail(outcomes[a])) \in {"idle", "attaching", "saving"}
        /\ FirstCall(Tail(outcomes[a])) # "idle" => Tail(outcomes[a]) # <<>>
    BY <1>1, <2>5, FirstIsHeld, FirstCallFollows
  <2>7. /\ outcomes' \in [Agent -> Seq(Todo)]
        /\ pc' \in [Agent -> {"idle", "saving", "resaving", "attaching"}]
        /\ \A b \in Agent : pc'[b] # "idle" => outcomes'[b] # <<>>
    <3>1. /\ outcomes \in [Agent -> Seq(Todo)]
          /\ pc \in [Agent -> {"idle", "saving", "resaving", "attaching"}]
          /\ \A b \in Agent : pc[b] # "idle" => outcomes[b] # <<>>
      BY <1>1 DEF TypeOK
    <3>2. CASE UNCHANGED <<outcomes, pc>>
      BY <3>1, <3>2
    <3>3. CASE /\ outcomes' = [outcomes EXCEPT ![a] = Tail(outcomes[a])]
               /\ pc' = [pc EXCEPT ![a] = FirstCall(Tail(outcomes[a]))]
      <4> DEFINE rest == Tail(outcomes[a])
                 first == FirstCall(rest)
      <4>1. /\ rest \in Seq(Todo) /\ first \in {"idle", "attaching", "saving"}
            /\ first # "idle" => rest # <<>>
            /\ outcomes' = [outcomes EXCEPT ![a] = rest] /\ pc' = [pc EXCEPT ![a] = first]
        BY <2>6, <3>3
      <4> HIDE DEF rest, first
      <4> QED BY <3>1, <4>1
    <3> QED BY <2>1, <3>2, <3>3
  <2>8. unheard' \subseteq 1..uuids'
    BY <1>1, <2>1, <2>2 DEF TypeOK
  <2> QED
    BY <1>1, <2>1, <2>2, <2>3, <2>4, <2>7, <2>8 DEF TypeOK
<1>5. ASSUME NEW a \in Agent, GiveUp(a) PROVE TypeOK'
  <2>1. /\ pc' = [pc EXCEPT ![a] = "idle"]
        /\ outcomes' = [outcomes EXCEPT ![a] = <<>>]
        /\ failures' = failures + 1
        /\ UNCHANGED <<store, seen, rounds, unheard, raced>>
    BY <1>5 DEF GiveUp
  <2>2. orphans' \subseteq Nat \X Nat
    <3>1. pc[a] # "idle"
      BY <1>5 DEF GiveUp
    <3>2. Head(outcomes[a]).lesson \in Nat
      BY <1>1, <3>1, FirstIsHeld DEF Todo
    <3>3. failures \in Nat /\ orphans \subseteq Nat \X Nat
      BY <1>1 DEF TypeOK
    <3> QED
      BY <1>5, <3>2, <3>3 DEF GiveUp
  <2>3. Table(lessons)' /\ \A b \in Agent : Table(seen[b])'
    BY <1>1, <2>1 DEF TypeOK, Table, store
  <2>4. /\ outcomes' \in [Agent -> Seq(Todo)]
        /\ pc' \in [Agent -> {"idle", "saving", "resaving", "attaching"}]
        /\ \A b \in Agent : pc'[b] # "idle" => outcomes'[b] # <<>>
    BY <1>1, <2>1 DEF TypeOK
  <2> QED
    BY <1>1, <2>1, <2>2, <2>3, <2>4 DEF TypeOK, store
<1>6. CASE UNCHANGED vars
  BY <1>1, <1>6 DEF vars, store, TypeOK, Table
<1> QED
  BY <1>2, <1>3, <1>4, <1>5, <1>6 DEF Next

(* What an agent holds, and what the others do, after each step. *)
LEMMA OthersHold ==
  ASSUME IInv, NEW a \in Agent, NEW todo, outcomes' = [outcomes EXCEPT ![a] = todo]
  PROVE  /\ outcomes'[a] = todo
         /\ Held(a)' = {todo[k] : k \in DOMAIN todo}
         /\ \A b \in Agent \ {a} : outcomes'[b] = outcomes[b] /\ Held(b)' = Held(b)
BY DEF IInv, TypeOK, Held

LEMMA AttachingHolds ==
  ASSUME IInv, NEW a \in Agent, AttachLessonSource(a)
  PROVE  /\ \A b \in Agent : Held(b)' \subseteq Held(b)
         /\ \A b \in Agent \ {a} : pc'[b] = pc[b] /\ outcomes'[b] = outcomes[b]
         /\ pc'[a] = "saving" => Head(outcomes'[a]).kind # "Contradiction"
         /\ pc'[a] # "resaving" /\ ~Saved(a)'
<1>1. /\ pc[a] = "attaching"
      /\ outcomes' = [outcomes EXCEPT ![a] = Tail(outcomes[a])]
      /\ pc' = [pc EXCEPT ![a] = FirstCall(Tail(outcomes[a]))]
  BY DEF AttachLessonSource, AttachSource
<1>2. /\ Tail(outcomes[a]) \in Seq(Todo)
      /\ {Tail(outcomes[a])[k] : k \in DOMAIN Tail(outcomes[a])} \subseteq Held(a)
  BY <1>1, FirstIsHeld DEF IInv
<1>3. pc'[a] = FirstCall(Tail(outcomes[a])) /\ outcomes'[a] = Tail(outcomes[a])
  BY <1>1 DEF IInv, TypeOK
<1>4. \A k \in DOMAIN Tail(outcomes[a]) : FromList(Tail(outcomes[a])[k], seen[a])
  BY <1>2 DEF IInv, Outstanding
<1>5. pc'[a] # "resaving" /\ ~Saved(a)'
  BY <1>2, <1>3, <1>4, FirstCallSavesNothing
<1>6. pc'[a] = "saving" => Head(outcomes'[a]).kind # "Contradiction"
  BY <1>2, <1>3, FirstCallFollows
<1>7. \A b \in Agent : Held(b)' \subseteq Held(b)
  BY <1>1, <1>2, OthersHold
<1>8. \A b \in Agent \ {a} : pc'[b] = pc[b] /\ outcomes'[b] = outcomes[b]
  BY <1>1 DEF IInv, TypeOK
<1> QED
  BY <1>5, <1>6, <1>7, <1>8

LEMMA OutstandingKept == IInv /\ [Next]_vars => Outstanding'
<1> SUFFICES ASSUME IInv, [Next]_vars PROVE Outstanding'
  OBVIOUS
<1>1. TypeOK /\ Outstanding /\ uuids \in Nat
  BY DEF IInv, TypeOK
<1>2. ASSUME NEW a \in Agent, Learn(a) PROVE Outstanding'
  <2>1. PICK todo \in Seq(Todo), n \in Nat :
          /\ outcomes' = [outcomes EXCEPT ![a] = todo]
          /\ uuids' = uuids + n
          /\ \A k \in DOMAIN todo : /\ todo[k].lesson \in 1..(uuids + n)
                                    /\ FromList(todo[k], lessons)
    BY <1>2, Learned
  <2>2. seen' = [seen EXCEPT ![a] = lessons]
    BY <1>2 DEF Learn
  <2>3. seen'[a] = lessons /\ \A b \in Agent \ {a} : seen'[b] = seen[b]
    BY <1>1, <2>2 DEF TypeOK
  <2>4. ASSUME NEW o \in Held(a)' PROVE o.lesson \in 1..uuids' /\ FromList(o, seen'[a])
    <3>1. Held(a)' = {todo[k] : k \in DOMAIN todo}
      BY <1>1, <2>1 DEF Held, TypeOK
    <3>2. PICK k \in DOMAIN todo : o = todo[k]
      BY <3>1
    <3> QED
      BY <2>1, <2>3, <3>2
  <2>5. ASSUME NEW b \in Agent \ {a}, NEW o \in Held(b)'
        PROVE  o.lesson \in 1..uuids' /\ FromList(o, seen'[b])
    <3>1. o \in Held(b)
      BY <2>1, <2>5, OthersHold
    <3>2. o.lesson \in 1..uuids /\ FromList(o, seen[b])
      BY <1>1, <3>1 DEF Outstanding
    <3> QED
      BY <1>1, <2>1, <2>3, <3>2
  <2> QED
    BY <2>4, <2>5 DEF Outstanding, FromList
<1>3. ASSUME seen' = seen, uuids' >= uuids, uuids' \in Nat,
             \A a \in Agent : Held(a)' \subseteq Held(a)
      PROVE  Outstanding'
  BY <1>1, <1>3 DEF Outstanding, FromList
<1>4. ASSUME NEW a \in Agent, UpsertLesson(a) \/ UpsertLessonFails(a) PROVE Outstanding'
  <2>1. UNCHANGED <<uuids, seen, outcomes>>
    BY <1>4 DEF UpsertLesson, UpsertLessonFails
  <2> QED
    BY <1>1, <1>3, <2>1 DEF Held
<1>5. ASSUME NEW a \in Agent, AttachLessonSource(a) PROVE Outstanding'
  <2>1. UNCHANGED seen /\ AttachSource(a)
    BY <1>5 DEF AttachLessonSource
  <2> QED
    BY <1>1, <1>3, <1>5, <2>1, AttachType, AttachingHolds
<1>6. ASSUME NEW a \in Agent, AttachLessonSourceFails(a) PROVE Outstanding'
  <2>1. UNCHANGED <<seen, outcomes>> /\ AttachSource(a)
    BY <1>6 DEF AttachLessonSourceFails
  <2> QED
    BY <1>1, <1>3, <2>1, AttachType DEF Held
<1>7. ASSUME NEW a \in Agent, GiveUp(a) PROVE Outstanding'
  <2>1. UNCHANGED <<uuids, seen>> /\ outcomes' = [outcomes EXCEPT ![a] = <<>>]
    BY <1>7 DEF GiveUp, store
  <2>2. \A b \in Agent : Held(b)' \subseteq Held(b)
    BY <2>1 DEF Held, IInv, TypeOK
  <2> QED
    BY <1>1, <1>3, <2>1, <2>2
<1>8. CASE UNCHANGED vars
  BY <1>1, <1>3, <1>8 DEF vars, store, Held
<1> QED
  BY <1>2, <1>4, <1>5, <1>6, <1>7, <1>8 DEF Next

LEMMA CallsKept == IInv /\ [Next]_vars => Calls'
<1> SUFFICES ASSUME IInv, [Next]_vars PROVE Calls'
  OBVIOUS
<1>1. TypeOK /\ Calls
  BY DEF IInv, TypeOK
<1> DEFINE Placed(a) ==
             /\ pc[a] \in {"saving", "resaving"} => Head(outcomes[a]).kind # "Contradiction"
             /\ Saved(a) => Head(outcomes[a]).lesson \in DOMAIN lessons
<1>2. ASSUME NEW a \in Agent, Placed(a)',
             DOMAIN lessons \subseteq DOMAIN lessons',
             \A b \in Agent \ {a} : pc'[b] = pc[b] /\ outcomes'[b] = outcomes[b]
      PROVE  Calls'
  <2>1. ASSUME NEW b \in Agent \ {a} PROVE Placed(b)'
    <3>1. Placed(b)
      BY <1>1 DEF Calls
    <3>2. pc'[b] = pc[b] /\ outcomes'[b] = outcomes[b]
      BY <1>2
    <3> QED
      BY <1>1, <1>2, <3>1, <3>2 DEF Saved
  <2> QED
    BY <1>2, <2>1 DEF Calls
<1>3. ASSUME NEW a \in Agent, Learn(a) PROVE Calls'
  <2>1. PICK todo \in Seq(Todo), n \in Nat :
          /\ outcomes' = [outcomes EXCEPT ![a] = todo]
          /\ pc' = [pc EXCEPT ![a] = FirstCall(todo)]
          /\ \A k \in DOMAIN todo : FromList(todo[k], lessons)
    BY <1>3, Learned
  <2>2. /\ outcomes'[a] = todo /\ pc'[a] = FirstCall(todo)
        /\ \A b \in Agent \ {a} : pc'[b] = pc[b] /\ outcomes'[b] = outcomes[b]
    BY <1>1, <2>1 DEF TypeOK
  <2>3. Placed(a)'
    BY <2>1, <2>2, FirstCallSavesNothing, FirstCallFollows
  <2>4. UNCHANGED lessons
    BY <1>3 DEF Learn
  <2> QED
    BY <1>1, <1>2, <2>2, <2>3, <2>4
<1>4. ASSUME NEW a \in Agent, UpsertLesson(a) \/ UpsertLessonFails(a) PROVE Calls'
  <2>1. /\ SaveLesson(a) /\ outcomes' = outcomes
        /\ pc' = [pc EXCEPT ![a] = "attaching"] \/ pc' = [pc EXCEPT ![a] = "resaving"]
    BY <1>4 DEF UpsertLesson, UpsertLessonFails
  <2>2. /\ pc'[a] \in {"attaching", "resaving"}
        /\ \A b \in Agent \ {a} : pc'[b] = pc[b]
    BY <1>1, <2>1 DEF TypeOK
  <2>3. /\ Head(outcomes[a]).kind # "Contradiction"
        /\ DOMAIN lessons' = DOMAIN lessons \union {Head(outcomes[a]).lesson}
    BY <2>1, SaveType
  <2>4. Placed(a)'
    BY <1>1, <2>1, <2>2, <2>3
  <2> QED
    BY <1>1, <1>2, <2>1, <2>2, <2>3, <2>4
<1>5. ASSUME NEW a \in Agent, AttachLessonSource(a) PROVE Calls'
  <2>1. UNCHANGED lessons
    BY <1>5 DEF AttachLessonSource
  <2>2. Placed(a)'
    BY <1>5, AttachingHolds
  <2> QED
    BY <1>1, <1>2, <1>5, <2>1, <2>2, AttachingHolds
<1>6. ASSUME NEW a \in Agent, AttachLessonSourceFails(a) PROVE Calls'
  BY <1>1, <1>6 DEF AttachLessonSourceFails, Calls, Saved
<1>7. ASSUME NEW a \in Agent, GiveUp(a) PROVE Calls'
  <2>1. /\ pc' = [pc EXCEPT ![a] = "idle"] /\ outcomes' = [outcomes EXCEPT ![a] = <<>>]
        /\ UNCHANGED lessons
    BY <1>7 DEF GiveUp, store
  <2>2. Placed(a)'
    BY <1>1, <2>1 DEF Saved, TypeOK
  <2> QED
    BY <1>1, <1>2, <2>1, <2>2 DEF TypeOK
<1>8. CASE UNCHANGED vars
  BY <1>1, <1>8 DEF vars, store, Calls, Saved
<1> QED
  BY <1>3, <1>4, <1>5, <1>6, <1>7, <1>8 DEF Next

LEMMA CountedKept == IInv /\ [Next]_vars => Counted'
<1> SUFFICES ASSUME IInv, [Next]_vars PROVE Counted'
  OBVIOUS
<1>1. Counted /\ uuids \in Nat /\ failures \in Nat
  BY DEF IInv, TypeOK
<1>2. ASSUME NEW a \in Agent, Learn(a) PROVE Counted'
  <2>1. PICK n \in Nat : uuids' = uuids + n
    BY <1>2, Learned
  <2>2. \A s \in sources : s.id \in Nat /\ s.id <= uuids
    BY <1>1 DEF IInv, TypeOK, Counted
  <2>3. UNCHANGED <<lessons, sources, failures, orphans>>
    BY <1>2 DEF Learn
  <2> QED
    BY <1>1, <2>1, <2>2, <2>3 DEF Counted
<1>3. ASSUME NEW a \in Agent, UpsertLesson(a) \/ UpsertLessonFails(a) PROVE Counted'
  <2>1. /\ SaveLesson(a) /\ UNCHANGED <<sources, uuids, orphans>>
        /\ failures' = failures \/ failures' = failures + 1
    BY <1>3 DEF UpsertLesson, UpsertLessonFails
  <2>2. DOMAIN lessons \subseteq DOMAIN lessons'
    BY <2>1, SaveType
  <2>3. \A o \in orphans : o[2] \in Nat /\ o[2] < failures
    BY <1>1 DEF IInv, TypeOK, Counted
  <2> QED
    BY <1>1, <2>1, <2>2, <2>3 DEF Counted
<1>4. ASSUME NEW a \in Agent, AttachLessonSource(a) \/ AttachLessonSourceFails(a) PROVE Counted'
  <2>1. /\ AttachSource(a) /\ UNCHANGED <<lessons, orphans>>
        /\ failures' = failures \/ failures' = failures + 1
    BY <1>4 DEF AttachLessonSource, AttachLessonSourceFails
  <2>2. \A s \in sources : s.id \in Nat /\ s.id <= uuids
    BY <1>1 DEF IInv, TypeOK, Counted
  <2>3. \A o \in orphans : o[2] \in Nat /\ o[2] < failures
    BY <1>1 DEF IInv, TypeOK, Counted
  <2>4. IsFiniteSet(sources')
    BY <1>1, <2>1, AttachType, FS_AddElement DEF Counted
  <2>5. \A s \in sources' : s.id <= uuids' /\ s.lesson \in DOMAIN lessons
    BY <1>1, <2>1, <2>2, AttachType DEF Counted
  <2> QED
    BY <1>1, <2>1, <2>3, <2>4, <2>5 DEF Counted
<1>5. ASSUME NEW a \in Agent, GiveUp(a) PROVE Counted'
  <2>1. /\ \/ orphans' = orphans
           \/ /\ orphans' = orphans \union {<<Head(outcomes[a]).lesson, failures>>}
              /\ Saved(a)
        /\ failures' = failures + 1 /\ UNCHANGED <<sources, uuids, lessons>>
    BY <1>5 DEF GiveUp, store
  <2>2. \A o \in orphans : o[2] \in Nat /\ o[2] < failures
    BY <1>1 DEF IInv, TypeOK, Counted
  <2>3. IsFiniteSet(orphans')
    BY <1>1, <2>1, FS_AddElement DEF Counted
  <2>4. \A o \in orphans' : o[2] < failures'
    BY <1>1, <2>1, <2>2
  <2>5. \A o \in orphans' : o[1] \in DOMAIN lessons
    BY <1>1, <2>1 DEF IInv, Calls, Counted
  <2> QED
    BY <1>1, <2>1, <2>3, <2>4, <2>5 DEF Counted
<1>6. CASE UNCHANGED vars
  BY <1>1, <1>6 DEF vars, store, Counted
<1> QED
  BY <1>2, <1>3, <1>4, <1>5, <1>6 DEF Next

LEMMA BackedKept == IInv /\ [Next]_vars => Backed'
<1> SUFFICES ASSUME IInv, [Next]_vars PROVE Backed'
  OBVIOUS
<1>1. TypeOK /\ Backed /\ \A l : Backing(l) \in Nat
  BY BackingType DEF IInv
<1>2. ASSUME NEW a \in Agent, NEW o \in Held(a)
      PROVE  o.kind # "Contradiction" => o.updated.evidence_count \in Nat
  <2>1. o \in Todo
    BY <1>1, <1>2 DEF Held, TypeOK
  <2> QED
    BY <2>1 DEF Todo, Row
<1>3. ASSUME \A a \in Agent : Held(a)' \subseteq Held(a),
             \A a \in Agent : pc'[a] = "resaving" => pc[a] = "resaving" /\ outcomes'[a] = outcomes[a],
             \A a \in Agent : pc'[a] = "resaving" => Head(outcomes[a]).kind # "Contradiction",
             \A l : Backing(l)' \in Nat /\ Backing(l)' >= Backing(l)
      PROVE  Backed'
  <2> SUFFICES ASSUME NEW a \in Agent, NEW o \in Held(a)'
               PROVE  /\ o.kind # "Contradiction" =>
                           o.updated.evidence_count <= Backing(o.lesson)' + 1
                      /\ pc'[a] = "resaving" /\ o = Head(outcomes'[a]) =>
                           o.updated.evidence_count <= Backing(o.lesson)'
    BY DEF Backed
  <2>1. o \in Held(a)
    BY <1>3
  <2>2. /\ o.kind # "Contradiction" => o.updated.evidence_count <= Backing(o.lesson) + 1
        /\ pc[a] = "resaving" /\ o = Head(outcomes[a]) =>
             o.updated.evidence_count <= Backing(o.lesson)
    BY <1>1, <2>1 DEF Backed
  <2>3. /\ Backing(o.lesson) \in Nat /\ Backing(o.lesson)' \in Nat
        /\ Backing(o.lesson)' >= Backing(o.lesson)
    BY <1>1, <1>3
  <2>4. o.kind # "Contradiction" => o.updated.evidence_count \in Nat
    BY <1>2, <2>1
  <2>5. pc'[a] = "resaving" /\ o = Head(outcomes'[a]) =>
          pc[a] = "resaving" /\ o = Head(outcomes[a]) /\ o.kind # "Contradiction"
    BY <1>3
  <2> QED
    BY <2>2, <2>3, <2>4, <2>5
<1>4. \A a \in Agent : pc[a] = "resaving" => Head(outcomes[a]).kind # "Contradiction"
  BY DEF IInv, Calls
<1>5. ASSUME NEW a \in Agent, Learn(a) PROVE Backed'
  <2>1. PICK todo \in Seq(Todo), n \in Nat :
          /\ outcomes' = [outcomes EXCEPT ![a] = todo]
          /\ pc' = [pc EXCEPT ![a] = FirstCall(todo)]
          /\ \A k \in DOMAIN todo : FromList(todo[k], lessons)
    BY <1>5, Learned
  <2>2. \A l : Backing(l)' = Backing(l)
    BY <1>5, LearningBacks
  <2>3. /\ outcomes'[a] = todo /\ pc'[a] = FirstCall(todo)
        /\ \A b \in Agent \ {a} : pc'[b] = pc[b] /\ outcomes'[b] = outcomes[b]
    BY <1>1, <2>1 DEF TypeOK
  <2>4. pc'[a] # "resaving"
    BY <2>3, FirstCallFollows
  <2>5. ASSUME NEW k \in DOMAIN todo, todo[k].kind # "Contradiction"
        PROVE  todo[k].updated.evidence_count <= Backing(todo[k].lesson) + 1
    <3>1. /\ FromList(todo[k], lessons)
          /\ todo[k].kind \in {"CreateNew", "Reinforce", "Refine"}
      <4>1. todo[k] \in Todo
        BY <2>5
      <4> QED
        BY <2>1, <2>5, <4>1 DEF Todo
    <3>2. Backing(todo[k].lesson) \in Nat
      BY <1>1
    <3>3. CASE todo[k].kind = "CreateNew"
      BY <3>1, <3>2, <3>3 DEF FromList
    <3>4. CASE todo[k].kind \in {"Reinforce", "Refine"}
      <4>1. /\ todo[k].lesson \in DOMAIN lessons
            /\ todo[k].updated.evidence_count = lessons[todo[k].lesson].evidence_count + 1
        BY <3>1, <3>4 DEF FromList
      <4>2. lessons[todo[k].lesson].evidence_count <= Backing(todo[k].lesson)
        BY <4>1 DEF IInv, EvidenceBacked
      <4>3. lessons[todo[k].lesson].evidence_count \in Nat
        BY <1>1, <4>1 DEF TypeOK, Table, Row
      <4> QED
        BY <3>2, <4>1, <4>2, <4>3
    <3> QED
      BY <3>1, <3>3, <3>4
  <2>6. Held(a)' = {todo[k] : k \in DOMAIN todo} /\ \A b \in Agent \ {a} : Held(b)' = Held(b)
    BY <1>1, <2>1 DEF Held, TypeOK
  <2> SUFFICES ASSUME NEW b \in Agent, NEW o \in Held(b)'
               PROVE  /\ o.kind # "Contradiction" =>
                           o.updated.evidence_count <= Backing(o.lesson)' + 1
                      /\ pc'[b] = "resaving" /\ o = Head(outcomes'[b]) =>
                           o.updated.evidence_count <= Backing(o.lesson)'
    BY DEF Backed
  <2>7. CASE b = a
    <3>1. PICK k \in DOMAIN todo : o = todo[k]
      BY <2>6, <2>7
    <3>2. Backing(o.lesson)' = Backing(o.lesson)
      BY <2>2
    <3> QED
      BY <2>4, <2>5, <2>7, <3>1, <3>2
  <2>8. CASE b # a
    <3>1. Backing(o.lesson)' = Backing(o.lesson)
      BY <2>2
    <3> QED
      BY <1>1, <2>3, <2>6, <2>8, <3>1 DEF Backed
  <2> QED
    BY <2>7, <2>8
<1>6. ASSUME NEW a \in Agent, UpsertLesson(a) \/ UpsertLessonFails(a) PROVE Backed'
  <2>1. /\ SaveLesson(a) /\ pc[a] \in {"saving", "resaving"} /\ outcomes' = outcomes
        /\ pc' = [pc EXCEPT ![a] = "attaching"] \/ pc' = [pc EXCEPT ![a] = "resaving"]
    BY <1>6 DEF UpsertLesson, UpsertLessonFails, SaveLesson
  <2>2. \A b \in Agent \ {a} : pc'[b] = pc[b]
    BY <1>1, <2>1 DEF TypeOK
  <2>3. \A l : Backing(l)' = Backing(l) + (IF pc[a] = "saving" /\ l = Head(outcomes[a]).lesson
                                           THEN 1 ELSE 0)
    BY <1>6, SavingBacks
  <2> SUFFICES ASSUME NEW b \in Agent, NEW o \in Held(b)
               PROVE  /\ o.kind # "Contradiction" =>
                           o.updated.evidence_count <= Backing(o.lesson)' + 1
                      /\ pc'[b] = "resaving" /\ o = Head(outcomes[b]) =>
                           o.updated.evidence_count <= Backing(o.lesson)'
    BY <2>1 DEF Backed, Held
  <2>4. /\ o.kind # "Contradiction" => o.updated.evidence_count <= Backing(o.lesson) + 1
        /\ pc[b] = "resaving" /\ o = Head(outcomes[b]) =>
             o.updated.evidence_count <= Backing(o.lesson)
    BY <1>1 DEF Backed
  <2>5. o.kind # "Contradiction" => o.updated.evidence_count \in Nat
    BY <1>2
  <2>6. /\ Backing(o.lesson) \in Nat
        /\ Backing(o.lesson)' = Backing(o.lesson)
             + (IF pc[a] = "saving" /\ o.lesson = Head(outcomes[a]).lesson THEN 1 ELSE 0)
    BY <1>1, <2>3
  <2>7. ASSUME pc'[b] = "resaving", o = Head(outcomes[b])
        PROVE  o.updated.evidence_count <= Backing(o.lesson)'
    <3>1. CASE b = a
      <4>1. o.kind # "Contradiction"
        BY <2>1, <2>7, <3>1, SaveType
      <4> QED
        BY <2>1, <2>4, <2>5, <2>6, <2>7, <3>1, <4>1
    <3>2. CASE b # a
      <4>1. pc[b] = "resaving"
        BY <2>2, <2>7, <3>2
      <4> QED
        BY <1>4, <2>4, <2>5, <2>6, <2>7, <4>1
    <3> QED
      BY <3>1, <3>2
  <2> QED
    BY <2>4, <2>5, <2>6, <2>7
<1>7. ASSUME NEW a \in Agent, AttachLessonSource(a) PROVE Backed'
  <2>1. \A l : Backing(l)' \in Nat /\ Backing(l)' >= Backing(l)
    BY <1>7, BackingNeverDecreases
  <2> QED
    BY <1>3, <1>4, <1>7, <2>1, AttachingHolds
<1>8. ASSUME NEW a \in Agent, AttachLessonSourceFails(a) PROVE Backed'
  <2>1. \A l : Backing(l)' \in Nat /\ Backing(l)' >= Backing(l)
    BY <1>8, BackingNeverDecreases
  <2>2. UNCHANGED <<pc, outcomes>>
    BY <1>8 DEF AttachLessonSourceFails
  <2> QED
    BY <1>3, <1>4, <2>1, <2>2 DEF Held
<1>9. ASSUME NEW a \in Agent, GiveUp(a) PROVE Backed'
  <2>1. \A l : Backing(l)' \in Nat /\ Backing(l)' >= Backing(l)
    BY <1>9, BackingNeverDecreases
  <2>2. outcomes' = [outcomes EXCEPT ![a] = <<>>] /\ pc' = [pc EXCEPT ![a] = "idle"]
    BY <1>9 DEF GiveUp
  <2>3. \A b \in Agent : Held(b)' \subseteq Held(b)
    BY <2>2 DEF Held, IInv, TypeOK
  <2>4. \A b \in Agent : pc'[b] = "resaving" => pc[b] = "resaving" /\ outcomes'[b] = outcomes[b]
    BY <1>1, <2>2 DEF TypeOK
  <2> QED
    BY <1>3, <1>4, <2>1, <2>3, <2>4
<1>10. CASE UNCHANGED vars
  <2>1. UNCHANGED <<sources, pc, outcomes, orphans, unheard>>
    BY <1>10 DEF vars, store
  <2>2. \A l : Backing(l)' = Backing(l)
    BY <2>1 DEF Backing, Supporting, Attaching, Saved, Orphans
  <2> QED
    BY <1>1, <1>3, <1>4, <2>1, <2>2 DEF Held
<1> QED
  BY <1>5, <1>6, <1>7, <1>8, <1>9, <1>10 DEF Next

LEMMA EvidenceKept == IInv /\ [Next]_vars => EvidenceBacked'
<1> SUFFICES ASSUME IInv, [Next]_vars
             PROVE  \A l \in DOMAIN lessons' : lessons'[l].evidence_count <= Backing(l)'
  BY DEF EvidenceBacked
<1>1. ASSUME NEW l \in DOMAIN lessons
      PROVE  lessons[l].evidence_count \in Nat /\ lessons[l].evidence_count <= Backing(l)
  BY DEF IInv, TypeOK, Table, Row, EvidenceBacked
<1>2. \A l : Backing(l) \in Nat
  BY BackingType DEF IInv
<1>3. ASSUME lessons' = lessons, \A l : Backing(l)' \in Nat /\ Backing(l)' >= Backing(l)
      PROVE  \A l \in DOMAIN lessons' : lessons'[l].evidence_count <= Backing(l)'
  <2> TAKE l \in DOMAIN lessons'
  <2>1. Backing(l)' \in Nat /\ Backing(l)' >= Backing(l) /\ Backing(l) \in Nat
    BY <1>2, <1>3
  <2> QED
    BY <1>1, <1>3, <2>1
<1>4. ASSUME NEW a \in Agent, UpsertLesson(a) \/ UpsertLessonFails(a)
      PROVE  \A l \in DOMAIN lessons' : lessons'[l].evidence_count <= Backing(l)'
  <2> DEFINE o == Head(outcomes[a])
  <2>1. SaveLesson(a) /\ pc[a] \in {"saving", "resaving"}
    BY <1>4 DEF UpsertLesson, UpsertLessonFails, SaveLesson
  <2>2. /\ o \in Held(a) /\ o \in Todo /\ o.kind # "Contradiction"
        /\ DOMAIN lessons' = DOMAIN lessons \union {o.lesson}
        /\ lessons'[o.lesson] = o.updated
        /\ \A l \in DOMAIN lessons \ {o.lesson} : lessons'[l] = lessons[l]
    BY <2>1, SaveType
  <2> TAKE l \in DOMAIN lessons'
  <2>3. /\ Backing(l) \in Nat
        /\ Backing(l)' = Backing(l) + (IF pc[a] = "saving" /\ l = o.lesson THEN 1 ELSE 0)
    BY <1>2, <1>4, SavingBacks
  <2>4. CASE l = o.lesson
    <3>1. /\ o.updated.evidence_count <= Backing(o.lesson) + 1
          /\ pc[a] = "resaving" => o.updated.evidence_count <= Backing(o.lesson)
      BY <2>2 DEF IInv, Backed
    <3>2. o.updated.evidence_count \in Nat
      BY <2>2 DEF Todo, Row
    <3> QED
      BY <2>1, <2>2, <2>3, <2>4, <3>1, <3>2
  <2>5. CASE l # o.lesson
    BY <1>1, <2>2, <2>3, <2>5
  <2> QED
    BY <2>4, <2>5
<1>5. ASSUME NEW a \in Agent,
             Learn(a) \/ AttachLessonSource(a) \/ AttachLessonSourceFails(a) \/ GiveUp(a)
      PROVE  \A l \in DOMAIN lessons' : lessons'[l].evidence_count <= Backing(l)'
  <2>1. lessons' = lessons
    BY <1>5 DEF Learn, AttachLessonSource, AttachLessonSourceFails, GiveUp, store
  <2>2. \A l : Backing(l)' \in Nat /\ Backing(l)' >= Backing(l)
    BY <1>5, BackingNeverDecreases
  <2> QED
    BY <1>3, <2>1, <2>2
<1>6. CASE UNCHANGED vars
  <2>1. UNCHANGED <<lessons, sources, pc, outcomes, orphans, unheard>>
    BY <1>6 DEF vars, store
  <2>2. \A l : Backing(l)' = Backing(l)
    BY <2>1 DEF Backing, Supporting, Attaching, Saved, Orphans
  <2> QED
    BY <1>2, <1>3, <2>1, <2>2
<1> QED
  BY <1>4, <1>5, <1>6 DEF Next

LEMMA CountsKept == IInv /\ [Next]_vars => CountsMatchUnlessRaced'
<1> SUFFICES ASSUME IInv, [Next]_vars, ~raced'
             PROVE  \A l \in DOMAIN lessons' : lessons'[l].evidence_count = Backing(l)'
  BY DEF CountsMatchUnlessRaced
<1>1. ASSUME UNCHANGED <<lessons, raced>>, \A l : Backing(l)' = Backing(l)
      PROVE  \A l \in DOMAIN lessons' : lessons'[l].evidence_count = Backing(l)'
  BY <1>1 DEF IInv, CountsMatchUnlessRaced
<1>2. ASSUME NEW a \in Agent, UpsertLesson(a) \/ UpsertLessonFails(a)
      PROVE  \A l \in DOMAIN lessons' : lessons'[l].evidence_count = Backing(l)'
  <2> DEFINE o == Head(outcomes[a])
  <2>1. SaveLesson(a) /\ pc[a] \in {"saving", "resaving"} /\ ~raced
    BY <1>2 DEF UpsertLesson, UpsertLessonFails, SaveLesson
  <2>2. /\ o \in Todo /\ o.kind # "Contradiction" /\ FromList(o, seen[a])
        /\ DOMAIN lessons' = DOMAIN lessons \union {o.lesson}
        /\ lessons'[o.lesson] = o.updated
        /\ \A l \in DOMAIN lessons \ {o.lesson} : lessons'[l] = lessons[l]
    BY <2>1, SaveType
  <2>3. \A l \in DOMAIN lessons : lessons[l].evidence_count = Backing(l)
    BY <2>1 DEF IInv, CountsMatchUnlessRaced
  <2> TAKE l \in DOMAIN lessons'
  <2>4. /\ Backing(l) \in Nat
        /\ Backing(l)' = Backing(l) + (IF pc[a] = "saving" /\ l = o.lesson THEN 1 ELSE 0)
    BY <1>2, SavingBacks, BackingType DEF IInv
  <2>5. CASE pc[a] = "saving" /\ l = o.lesson
    <3>1. lessons = seen[a]
      BY <2>1, <2>5 DEF SaveLesson
    <3>2. CASE o.kind = "CreateNew"
      <4>1. l \notin DOMAIN lessons /\ o.updated.evidence_count = 1
        BY <2>2, <2>5, <3>1, <3>2 DEF FromList
      <4>2. Backing(l) = 0
        BY <4>1, NothingBacksTheUnknown
      <4> QED
        BY <2>2, <2>4, <2>5, <4>1, <4>2
    <3>3. CASE o.kind # "CreateNew"
      <4>1. o.kind \in {"Reinforce", "Refine"}
        BY <2>2, <3>3 DEF Todo
      <4>2. l \in DOMAIN lessons /\ o.updated.evidence_count = lessons[l].evidence_count + 1
        BY <2>2, <2>5, <3>1, <4>1 DEF FromList
      <4> QED
        BY <2>2, <2>3, <2>4, <2>5, <4>2
    <3> QED
      BY <3>2, <3>3
  <2>6. CASE pc[a] = "resaving" /\ l = o.lesson
    <3>1. lessons = Put(seen[a], o.lesson, o.updated)
      BY <2>1, <2>6 DEF SaveLesson
    <3>2. l \in DOMAIN lessons /\ lessons[l] = o.updated
      BY <2>6, <3>1 DEF Put
    <3> QED
      BY <2>2, <2>3, <2>4, <2>6, <3>2
  <2>7. CASE l # o.lesson
    BY <2>2, <2>3, <2>4, <2>7
  <2> QED
    BY <2>1, <2>5, <2>6, <2>7
<1>3. ASSUME NEW a \in Agent,
             Learn(a) \/ AttachLessonSource(a) \/ AttachLessonSourceFails(a) \/ GiveUp(a)
      PROVE  \A l \in DOMAIN lessons' : lessons'[l].evidence_count = Backing(l)'
  <2>1. UNCHANGED <<lessons, raced>>
    BY <1>3 DEF Learn, AttachLessonSource, AttachLessonSourceFails, GiveUp, store
  <2>2. \A l : Backing(l)' = Backing(l)
    BY <1>3, LearningBacks, AttachingBacks, AttachingAgainBacks, GivingUpBacks
  <2> QED
    BY <1>1, <2>1, <2>2
<1>4. CASE UNCHANGED vars
  <2>1. UNCHANGED <<lessons, sources, pc, outcomes, orphans, unheard, raced>>
    BY <1>4 DEF vars, store
  <2>2. \A l : Backing(l)' = Backing(l)
    BY <2>1 DEF Backing, Supporting, Attaching, Saved, Orphans
  <2> QED
    BY <1>1, <2>1, <2>2
<1> QED
  BY <1>2, <1>3, <1>4 DEF Next

LEMMA StatementsKept == IInv /\ [Next]_vars => StatementsDistinctUnlessRaced'
<1> DEFINE Apart(x, y) == x.statement = y.statement => ~HasTerms(x.statement)
<1> SUFFICES ASSUME IInv, [Next]_vars, ~raced',
                    NEW l \in DOMAIN lessons', NEW k \in DOMAIN lessons', l # k
             PROVE  Apart(lessons'[l], lessons'[k])
  BY DEF StatementsDistinctUnlessRaced, HasTerms
<1>1. ~raced => \A x, y \in DOMAIN lessons : x # y => Apart(lessons[x], lessons[y])
  BY DEF IInv, StatementsDistinctUnlessRaced
<1>2. ASSUME NEW a \in Agent, SaveLesson(a)
      PROVE  Apart(lessons'[l], lessons'[k])
  <2> DEFINE o == Head(outcomes[a])
  <2>1. /\ o \in Todo /\ o.kind # "Contradiction" /\ FromList(o, seen[a])
        /\ lessons' = Put(lessons, o.lesson, o.updated)
        /\ DOMAIN lessons' = DOMAIN lessons \union {o.lesson}
        /\ lessons'[o.lesson] = o.updated
        /\ \A x \in DOMAIN lessons \ {o.lesson} : lessons'[x] = lessons[x]
    BY <1>2, SaveType
  <2>2. ~raced
    BY <1>2 DEF SaveLesson
  <2>3. CASE pc[a] = "saving"
    <3>1. lessons = seen[a]
      BY <1>2, <2>3 DEF SaveLesson
    <3>2. ASSUME NEW x \in DOMAIN lessons \ {o.lesson}
          PROVE  Apart(lessons[x], o.updated)
      <4>1. CASE o.kind = "Reinforce"
        <5>1. o.lesson \in DOMAIN lessons /\ o.updated.statement = lessons[o.lesson].statement
          BY <2>1, <3>1, <4>1 DEF FromList
        <5> QED
          BY <1>1, <2>2, <3>2, <5>1
      <4>2. CASE o.kind \in {"CreateNew", "Refine"}
        BY <2>1, <3>1, <4>2 DEF FromList
      <4> QED
        BY <2>1, <4>1, <4>2 DEF Todo
    <3> QED
      BY <1>1, <2>1, <2>2, <3>2
  <2>4. CASE pc[a] # "saving"
    <3>1. lessons = Put(seen[a], o.lesson, o.updated)
      BY <1>2, <2>4 DEF SaveLesson
    <3>2. o.lesson \in DOMAIN lessons /\ lessons[o.lesson] = o.updated
      BY <3>1 DEF Put
    <3> QED
      BY <1>1, <2>1, <2>2, <3>2
  <2> QED
    BY <2>3, <2>4
<1>3. ASSUME UNCHANGED <<lessons, raced>>
      PROVE  Apart(lessons'[l], lessons'[k])
  BY <1>1, <1>3
<1>4. ASSUME NEW a \in Agent,
             Learn(a) \/ AttachLessonSource(a) \/ AttachLessonSourceFails(a) \/ GiveUp(a)
      PROVE  UNCHANGED <<lessons, raced>>
  BY <1>4 DEF Learn, AttachLessonSource, AttachLessonSourceFails, GiveUp, store
<1>5. CASE UNCHANGED vars
  BY <1>3, <1>5 DEF vars, store
<1> QED
  BY <1>2, <1>3, <1>4, <1>5 DEF Next, UpsertLesson, UpsertLessonFails

LEMMA NextInvariant == IInv /\ [Next]_vars => IInv'
BY TypeKept, OutstandingKept, CallsKept, CountedKept, BackedKept, EvidenceKept,
   CountsKept, StatementsKept DEF IInv

LEMMA Invariant == Spec => []IInv
<1>1. Init => IInv
  BY InitInvariant
<1>2. IInv /\ [Next]_vars => IInv'
  BY NextInvariant
<1> QED
  BY <1>1, <1>2, PTL DEF Spec

-----------------------------------------------------------------------------
(* The tables hold well-formed lessons and sources, under ids that were    *)
(* drawn; an agent in the middle of a batch has outcomes to persist.       *)
THEOREM LessonsTyped == Spec => []TypeOK
<1>1. IInv => TypeOK
  BY DEF IInv
<1> QED
  BY <1>1, Invariant, PTL

(* A lesson never claims more evidence than there is, however agents race  *)
(* on it and whatever calls fail and are made again.                       *)
THEOREM EvidenceIsBacked == Spec => []EvidenceBacked
<1>1. IInv => EvidenceBacked
  BY DEF IInv
<1> QED
  BY <1>1, Invariant, PTL

(* Without a race, evidence_count is at every moment the number of         *)
(* memories that supported the lesson: no failed, repeated or abandoned    *)
(* call of upsert_lesson or attach_lesson_source disturbs it.              *)
THEOREM CountsMatch == Spec => []CountsMatchUnlessRaced
<1>1. IInv => CountsMatchUnlessRaced
  BY DEF IInv
<1> QED
  BY <1>1, Invariant, PTL

(* No lesson whose statement has a term becomes a copy of another one,     *)
(* neither created nor refined, unless a save went over a store that had   *)
(* changed.                                                                *)
THEOREM StatementsStayDistinct == Spec => []StatementsDistinctUnlessRaced
<1>1. IInv => StatementsDistinctUnlessRaced
  BY DEF IInv
<1> QED
  BY <1>1, Invariant, PTL
=============================================================================
