--------------------------- MODULE LessonEvidence ---------------------------
(***************************************************************************)
(* Lessons and their evidence: LessonService of memory-lessons decides     *)
(* what a batch of accepted memories means for the lessons there are, and  *)
(* upsert_lesson and attach_lesson_source of memory-store keep it.         *)
(*                                                                         *)
(* The code that calls the one and then the other is not in the            *)
(* repository.  An agent here does what the two interfaces ask for: it     *)
(* lists the lessons, has a batch processed against that list, and for     *)
(* each outcome saves the updated lesson and then attaches its evidence.   *)
(* Several agents share the store; a call may take effect and still return *)
(* an error (its read-back fails), after which it is made again or all is  *)
(* given up.                                                               *)
(*                                                                         *)
(* A statement is a model value: what the service sees of a pair is their  *)
(* text_overlap, and of one whether it has a negation cue.  Overlap,       *)
(* similarity, confidence and importance are hundredths.                   *)
(*                                                                         *)
(* An operator named X_Something is X with a fault seeded in it; no other  *)
(* definition uses it.                                                     *)
(***************************************************************************)
EXTENDS Ranking

CONSTANTS
  Agent,
  Memory,           \* accepted memories
  Statement,        \* lesson_statement of their contents
  Says,             \* the statement of each memory
  InferredType,     \* infer_lesson_type of each memory, or NoType
  Importance,       \* Node.importance
  Confidence,       \* the confidence of a lesson proposed from it
  Overlap,          \* text_overlap of two statements
  Negated,          \* the statements with " not ", "never" or "avoid"
  NoType,
  Batch,            \* the batches an agent may process
  \* LessonPolicy, and the constants of the matcher and the handler
  MinMemoryImportance, MinSimilarityForReinforcement,
  MinSimilarityForRefinement, ConfidenceIncrement,
  RefinementConfidenceIncrement, TypeBonus, MinSimilarity, MinOverlap,
  \* bounds
  MaxRounds,        \* batches processed
  MaxFailures       \* calls that fail

Hundredths == 0..100

ASSUME AgentAssumption == IsFiniteSet(Agent)

ASSUME MemoryAssumption ==
  /\ Says \in [Memory -> Statement]
  /\ Importance \in [Memory -> Hundredths]
  /\ Confidence \in [Memory -> Hundredths]
  /\ DOMAIN InferredType = Memory
  /\ Batch \subseteq Seq(Memory)
  /\ Negated \subseteq Statement

(* split_terms keeps the terms longer than two bytes.  A statement that    *)
(* has none, such as the "v2" of "v2.0 ..", overlaps nothing, not even     *)
(* itself.                                                                 *)
HasTerms(s) == Overlap[<<s, s>>] > 0

ASSUME OverlapAssumption ==
  /\ Overlap \in [Statement \X Statement -> Hundredths]
  /\ \A s, t \in Statement : Overlap[<<s, t>>] = Overlap[<<t, s>>]
  /\ \A s \in Statement : HasTerms(s) => Overlap[<<s, s>>] = 100
  /\ \A s, t \in Statement : ~HasTerms(s) => Overlap[<<s, t>>] = 0

ASSUME PolicyAssumption ==
  /\ {MinMemoryImportance, MinSimilarityForReinforcement,
      MinSimilarityForRefinement, ConfidenceIncrement,
      RefinementConfidenceIncrement, TypeBonus, MinSimilarity,
      MinOverlap} \subseteq Hundredths
  /\ MinSimilarity < MinSimilarityForReinforcement

ASSUME BoundsAssumption == MaxRounds \in Nat /\ MaxFailures \in Nat

VARIABLES
  lessons,    \* the lessons table, a function of the ids in it
  sources,    \* the lesson_sources table
  uuids,      \* ids drawn so far
  pc,         \* what an agent does next
  seen,       \* the lessons it listed
  outcomes,   \* the outcomes it has yet to persist
  rounds,     \* history: batches processed
  failures,   \* history: failed calls
  orphans,    \* history: <<lesson, failure>> of evidence given up once saved
  unheard,    \* history: ids of sources whose call returned an error
  raced       \* history: a lesson was saved over a store that had changed

store == <<lessons, sources, uuids>>
vars  == <<store, pc, seen, outcomes, rounds, failures, orphans, unheard,
           raced>>

-----------------------------------------------------------------------------
(* LessonService::process_memories *)

(* DeterministicLessonProposer: which memories a lesson is proposed from. *)
Proposes(m) == Importance[m] >= MinMemoryImportance /\ InferredType[m] # NoType

ProposedLesson(m) ==
  [type |-> InferredType[m], statement |-> Says[m], status |-> "Candidate",
   confidence |-> Confidence[m], evidence_count |-> 1, reinforcement_count |-> 0]

(* DeterministicLessonMatcher: the similarity of a proposal and a lesson. *)
Similarity(m, lesson) ==
  Lower(Overlap[<<Says[m], lesson.statement>>]
          + (IF lesson.type = InferredType[m] THEN TypeBonus ELSE 0), 100)

FindSimilar_AnyMatch(m, listed) ==
  {l \in DOMAIN listed : Similarity(m, listed[l]) > MinSimilarity}
(* find_similar: any lesson of the highest similarity; which one depends   *)
(* on the order in which they are listed.                                  *)
FindSimilar(m, listed) ==
  {l \in DOMAIN listed :
     /\ Similarity(m, listed[l]) > MinSimilarity
     /\ \A k \in DOMAIN listed : Similarity(m, listed[k]) <= Similarity(m, listed[l])}

(* DeterministicContradictionHandler::evaluate; the cue is looked for in   *)
(* the candidate only.                                                     *)
Contradicts(m, lesson) ==
  /\ Says[m] \in Negated
  /\ Overlap[<<Says[m], lesson.statement>>] > MinOverlap

Refines(m, lesson) ==
  /\ ~Contradicts(m, lesson)
  /\ Overlap[<<Says[m], lesson.statement>>] > MinOverlap
  /\ Says[m] # lesson.statement
  /\ Similarity(m, lesson) >= MinSimilarityForRefinement
  /\ Similarity(m, lesson) < MinSimilarityForReinforcement

Reinforces(m, lesson) ==
  /\ ~Contradicts(m, lesson)
  /\ Similarity(m, lesson) >= MinSimilarityForReinforcement

ReinforceLesson_Twice(lesson) ==
  [lesson EXCEPT !.status = "Reinforced",
                 !.confidence = Lower(@ + ConfidenceIncrement, 100),
                 !.evidence_count = @ + 2,
                 !.reinforcement_count = @ + 1]
ReinforceLesson_Unclamped(lesson) ==
  [lesson EXCEPT !.status = "Reinforced",
                 !.confidence = @ + ConfidenceIncrement,
                 !.evidence_count = @ + 1,
                 !.reinforcement_count = @ + 1]
ReinforceLesson(lesson) ==
  [lesson EXCEPT !.status = "Reinforced",
                 !.confidence = Lower(@ + ConfidenceIncrement, 100),
                 !.evidence_count = @ + 1,
                 !.reinforcement_count = @ + 1]

RefineLesson_NotCounted(lesson, m) ==
  [lesson EXCEPT !.statement = Says[m],
                 !.confidence = Lower(@ + RefinementConfidenceIncrement, 100),
                 !.reinforcement_count = @ + 1]
RefineLesson(lesson, m) ==
  [lesson EXCEPT !.statement = Says[m],
                 !.confidence = Lower(@ + RefinementConfidenceIncrement, 100),
                 !.evidence_count = @ + 1,
                 !.reinforcement_count = @ + 1]

Outcome(kind, l, updated, m) ==
  [kind |-> kind, lesson |-> l, updated |-> updated, memory |-> m,
   role |-> IF kind = "Contradiction" THEN "contradicting" ELSE "supporting"]

(* resolve_proposal: the outcomes possible for memory m, whose proposal    *)
(* drew the id new.                                                        *)
Resolve(m, new, listed) ==
  LET similar  == FindSimilar(m, listed)
      CreateNew == Outcome("CreateNew", new, ProposedLesson(m), m)
      Against(l) ==
        LET lesson == listed[l] IN
        IF Contradicts(m, lesson) THEN Outcome("Contradiction", l, lesson, m)
        ELSE IF Reinforces(m, lesson) THEN Outcome("Reinforce", l, ReinforceLesson(lesson), m)
        ELSE IF Refines(m, lesson) THEN Outcome("Refine", l, RefineLesson(lesson, m), m)
        ELSE CreateNew
  IN  IF similar = {} THEN {CreateNew} ELSE {Against(l) : l \in similar}

(* The memories of a batch that a lesson is proposed from, in its order. *)
Proposals(batch) ==
  LET chosen == {k \in DOMAIN batch : Proposes(batch[k])} IN
  {[i \in DOMAIN order |-> batch[order[i]]] :
     order \in Sorted(chosen, [k \in chosen |-> -k])}

(* Every proposal is resolved against the same list. *)
ProcessMemories(proposed, listed) ==
  LET Resolved(k) == Resolve(proposed[k], uuids + k, listed)
  IN  {o \in [1..Len(proposed) -> UNION {Resolved(k) : k \in 1..Len(proposed)}] :
         \A k \in 1..Len(proposed) : o[k] \in Resolved(k)}

-----------------------------------------------------------------------------
(* The agents, and the store calls they make *)

(* What is to be done first for a list of outcomes. *)
FirstCall(todo) ==
  IF todo = <<>> THEN "idle"
  ELSE IF Head(todo).kind = "Contradiction" THEN "attaching" ELSE "saving"

(* list_lessons, then process_memories. *)
Learn(a) ==
  /\ pc[a] = "idle"
  /\ rounds < MaxRounds
  /\ rounds' = rounds + 1
  /\ seen' = [seen EXCEPT ![a] = lessons]
  /\ \E batch \in Batch : \E proposed \in Proposals(batch) :
       /\ \E todo \in ProcessMemories(proposed, lessons) :
            /\ outcomes' = [outcomes EXCEPT ![a] = todo]
            /\ pc' = [pc EXCEPT ![a] = FirstCall(todo)]
       /\ uuids' = uuids + Len(proposed)
  /\ UNCHANGED <<lessons, sources, failures, orphans, unheard, raced>>

(* INSERT ... ON CONFLICT(id) DO UPDATE: the row is written whole. *)
Put(table, l, row) ==
  [k \in DOMAIN table \union {l} |-> IF k = l THEN row ELSE table[k]]

(* upsert_lesson *)
SaveLesson(a) ==
  LET o == Head(outcomes[a]) IN
  /\ pc[a] \in {"saving", "resaving"}
  /\ lessons' = Put(lessons, o.lesson, o.updated)
  /\ raced' = (raced \/ lessons # IF pc[a] = "saving" THEN seen[a]
                                   ELSE Put(seen[a], o.lesson, o.updated))

UpsertLesson(a) ==
  /\ SaveLesson(a)
  /\ pc' = [pc EXCEPT ![a] = "attaching"]
  /\ UNCHANGED <<sources, uuids, seen, outcomes, rounds, failures, orphans, unheard>>

(* The row is written, its read-back fails; the call will be made again. *)
UpsertLessonFails(a) ==
  /\ SaveLesson(a)
  /\ failures < MaxFailures
  /\ failures' = failures + 1
  /\ pc' = [pc EXCEPT ![a] = "resaving"]
  /\ UNCHANGED <<sources, uuids, seen, outcomes, rounds, orphans, unheard>>

(* attach_lesson_source: a row under an id of its own. *)
AttachSource(a) ==
  LET o == Head(outcomes[a]) IN
  /\ pc[a] = "attaching"
  /\ o.lesson \in DOMAIN lessons
  /\ uuids' = uuids + 1
  /\ sources' = sources \union {[id |-> uuids + 1, lesson |-> o.lesson,
                                 node |-> o.memory, role |-> o.role]}

AttachLessonSource(a) ==
  /\ AttachSource(a)
  /\ outcomes' = [outcomes EXCEPT ![a] = Tail(@)]
  /\ pc' = [pc EXCEPT ![a] = FirstCall(Tail(outcomes[a]))]
  /\ UNCHANGED <<lessons, seen, rounds, failures, orphans, unheard, raced>>

(* The row is written, the answer is lost; the call will be made again. *)
AttachLessonSourceFails(a) ==
  /\ AttachSource(a)
  /\ failures < MaxFailures
  /\ failures' = failures + 1
  /\ unheard' = unheard \union {uuids'}
  /\ UNCHANGED <<lessons, pc, seen, outcomes, rounds, orphans, raced>>

(* The lesson is saved, its evidence is not attached yet. *)
Saved(a) == /\ pc[a] \in {"resaving", "attaching"}
            /\ Head(outcomes[a]).role = "supporting"

(* The agent dies, or gives up what is left of the batch. *)
GiveUp(a) ==
  /\ pc[a] # "idle"
  /\ failures < MaxFailures
  /\ failures' = failures + 1
  /\ orphans' = IF Saved(a)
                THEN orphans \union {<<Head(outcomes[a]).lesson, failures>>}
                ELSE orphans
  /\ outcomes' = [outcomes EXCEPT ![a] = <<>>]
  /\ pc' = [pc EXCEPT ![a] = "idle"]
  /\ UNCHANGED <<store, seen, rounds, unheard, raced>>

-----------------------------------------------------------------------------
NoLessons == [l \in {} |-> {}]

Init ==
  /\ lessons = NoLessons
  /\ sources = {}
  /\ uuids = 0
  /\ pc = [a \in Agent |-> "idle"]
  /\ seen = [a \in Agent |-> NoLessons]
  /\ outcomes = [a \in Agent |-> <<>>]
  /\ rounds = 0
  /\ failures = 0
  /\ orphans = {}
  /\ unheard = {}
  /\ raced = FALSE

Next == \E a \in Agent :
  \/ Learn(a)
  \/ UpsertLesson(a)
  \/ UpsertLessonFails(a)
  \/ AttachLessonSource(a)
  \/ AttachLessonSourceFails(a)
  \/ GiveUp(a)

Spec == Init /\ [][Next]_vars

-----------------------------------------------------------------------------
(* Properties *)

LessonType == {InferredType[m] : m \in Memory} \ {NoType}

Row == [type : LessonType, statement : Statement,
        status : {"Candidate", "Reinforced"}, confidence : Hundredths,
        evidence_count : Nat \ {0}, reinforcement_count : Nat]

Todo == [kind : {"CreateNew", "Reinforce", "Refine", "Contradiction"},
         lesson : Nat, updated : Row, memory : Memory,
         role : {"supporting", "contradicting"}]

Table(t) == /\ DOMAIN t \subseteq 1..uuids
            /\ t \in [DOMAIN t -> Row]

TypeOK ==
  /\ Table(lessons)
  /\ sources \subseteq [id : Nat, lesson : Nat, node : Memory,
                        role : {"supporting", "contradicting"}]
  /\ uuids \in Nat
  /\ pc \in [Agent -> {"idle", "saving", "resaving", "attaching"}]
  /\ DOMAIN seen = Agent
  /\ \A a \in Agent : Table(seen[a])
  /\ outcomes \in [Agent -> Seq(Todo)]
  /\ \A a \in Agent : pc[a] # "idle" => outcomes[a] # <<>>
  /\ rounds \in Nat
  /\ failures \in Nat
  /\ orphans \subseteq Nat \X Nat
  /\ unheard \subseteq 1..uuids
  /\ raced \in BOOLEAN

(* The supporting sources an agent knows of. *)
Supporting(l) == {s \in sources : s.lesson = l /\ s.role = "supporting" /\ s.id \notin unheard}

(* The agents that saved l and are about to attach the evidence. *)
Attaching(l) == {a \in Agent : Saved(a) /\ Head(outcomes[a]).lesson = l}

Orphans(l) == {o \in orphans : o[1] = l}

(* The memories that have supported l: each has its source, has an agent   *)
(* that is about to attach one, or was given up.  A source attached again  *)
(* because the first call returned an error stands for no further memory.  *)
Backing(l) ==
  Cardinality(Supporting(l)) + Cardinality(Attaching(l)) + Cardinality(Orphans(l))

(* A lesson never claims more evidence than there is: evidence_count is at *)
(* most the number of memories that supported it - whatever agents race,   *)
(* overwrite each other's rows, repeat calls that took effect or give up.  *)
EvidenceBacked ==
  \A l \in DOMAIN lessons : lessons[l].evidence_count <= Backing(l)

(* And evidence_count is exactly that number at every moment, through      *)
(* failed calls, repeated ones and agents that give up, as long as no save *)
(* went over a store that had changed since it was listed - by another     *)
(* agent, or by an earlier outcome of the same batch.                      *)
CountsMatchUnlessRaced ==
  ~raced => \A l \in DOMAIN lessons : lessons[l].evidence_count = Backing(l)

(* No two lessons come to say the same: neither creation nor a refinement, *)
(* which rewrites the statement of a lesson, makes a copy of another one,  *)
(* unless a save went over a store that had changed, or the matcher cannot *)
(* see what they say because it has no terms.                              *)
StatementsDistinctUnlessRaced ==
  ~raced => \A l, k \in DOMAIN lessons :
              l # k /\ lessons[l].statement = lessons[k].statement
                => ~HasTerms(lessons[l].statement)

(* AGENT.md: repeated supporting evidence strengthens a lesson,            *)
(* contradictory evidence weakens or refines it.  A memory that says       *)
(* without the negation what a lesson says with it is no evidence that     *)
(* reinforces the lesson.                                                  *)
OppositeNeverReinforces ==
  \A a \in Agent : \A k \in DOMAIN outcomes[a] :
    LET o == outcomes[a][k] IN
    o.kind = "Reinforce" =>
      (Says[o.memory] \in Negated <=> seen[a][o.lesson].statement \in Negated)
=============================================================================
