---------------------------- MODULE MemoryTables ----------------------------
(***************************************************************************)
(* The tables of memory-store as StoreRepository reads and writes them:    *)
(* what refers to what, and the updated_at by which every list is ordered. *)
(*                                                                         *)
(* A row is known by its id, a UUID (a scope key in working_memory), and a *)
(* table is the set of the ids its rows may have.  Of the other columns    *)
(* the module keeps the references.  A call that writes also reads its row *)
(* back, which changes nothing here.                                       *)
(*                                                                         *)
(* An instant is a number; two of them make a second and DayLength a day.  *)
(*                                                                         *)
(* An operator named X_Something is X with a fault seeded in it; no other  *)
(* definition uses it.                                                     *)
(***************************************************************************)
EXTENDS Ranking

CONSTANTS
  Node, Lesson, EdgeId, Trait, Checkpoint, Scenario, Scope,
  Session,
  Mentioned,    \* the id lists that traits and checkpoints are saved with
  Limit,        \* the limits lists are asked for with
  Delay,        \* how long ago a record may have been stamped when it is inserted
  DayLength,
  MaxWrites,    \* bound: statements that write
  MaxDays       \* bound: days after the first

Tables == <<Node, Lesson, EdgeId, Trait, Checkpoint, Scenario, Scope>>

ASSUME TablesAssumption == \A i, j \in 1..7 : i # j => Tables[i] \intersect Tables[j] = {}
ASSUME MentionedAssumption == Mentioned \subseteq SUBSET (Node \union Lesson)
ASSUME TimeAssumption == /\ DayLength \in Nat \ {0} /\ DayLength % 2 = 0
                         /\ Delay \subseteq Nat /\ Limit \subseteq Nat
ASSUME BoundsAssumption == MaxWrites \in Nat /\ MaxDays \in Nat

VARIABLES
  now,
  updated_at,  \* of each row there is
  edges,       \* of each edge there is, its ends
  sources,     \* the lesson_sources table
  mentions,    \* of each trait and checkpoint there is, its supporting_*_ids or *_ids
  working,     \* of each working_memory row there is, its session
  changed,     \* history: the instant each row was last changed at
  writes       \* history: the number of writing statements

tables == <<updated_at, edges, sources, mentions, working>>
storeVars == <<now, tables, changed, writes>>

Stored(T) == T \intersect DOMAIN updated_at

-----------------------------------------------------------------------------
(* Timestamps *)

Day(at) == at \div DayLength

(* format_timestamp, what a client writes: 2026-01-31T09:30:00.5+00:00.    *)
Formatted(at) == [at |-> at, format |-> "RFC3339"]

(* The trigger trg_*_updated_at.  No UPDATE of the repository sets         *)
(* updated_at, so it always fires: 2026-01-31 09:30:00, to the second.     *)
Touched_NotFired(row) == updated_at[row]
Touched(row) == [at |-> now - (now % 2), format |-> "CURRENT_TIMESTAMP"]

(* ORDER BY updated_at compares texts.  Within a day a blank, the eleventh *)
(* character of the one format, is less than the T of the other.           *)
TextRank(stamp) ==
  DayLength * (2 * Day(stamp.at) + (IF stamp.format = "RFC3339" THEN 1 ELSE 0))
    + (stamp.at % DayLength)

-----------------------------------------------------------------------------
(* Statements that write *)

Put(table, id, row) ==
  [k \in DOMAIN table \union {id} |-> IF k = id THEN row ELSE table[k]]
Without(table, id) == [k \in DOMAIN table \ {id} |-> table[k]]

Writes ==
  /\ writes < MaxWrites
  /\ writes' = writes + 1
  /\ now' = now + 1

Insert(row) ==
  /\ row \notin DOMAIN updated_at
  /\ Writes
  /\ \E delay \in Delay :
       /\ delay <= now
       /\ updated_at' = Put(updated_at, row, Formatted(now - delay))
       /\ changed' = Put(changed, row, now - delay)

Update(row) ==
  /\ row \in DOMAIN updated_at
  /\ Writes
  /\ updated_at' = Put(updated_at, row, Touched(row))
  /\ changed' = Put(changed, row, now)

(* INSERT ... ON CONFLICT DO UPDATE *)
Upsert(row) == Insert(row) \/ Update(row)

InsertNode(n) == Insert(n) /\ UNCHANGED <<edges, sources, mentions, working>>
UpdateNode(n) == Update(n) /\ UNCHANGED <<edges, sources, mentions, working>>

InsertEdge_NoForeignKey(e, from, to) ==
  /\ from # to
  /\ Insert(e)
  /\ edges' = Put(edges, e, [from |-> from, to |-> to])
  /\ UNCHANGED <<sources, mentions, working>>
(* The foreign keys and the CHECK of the edges table decide as well. *)
InsertEdge(e, from, to) ==
  /\ {from, to} \subseteq Stored(Node)
  /\ from # to
  /\ Insert(e)
  /\ edges' = Put(edges, e, [from |-> from, to |-> to])
  /\ UNCHANGED <<sources, mentions, working>>

UpsertLesson(l) == Upsert(l) /\ UNCHANGED <<edges, sources, mentions, working>>

(* A row under a new id each time, so a source can be there twice. *)
AttachLessonSource(l, n, role) ==
  /\ l \in Stored(Lesson)
  /\ n \in Stored(Node)
  /\ Writes
  /\ sources' = sources \union {[id |-> writes, lesson |-> l, node |-> n, role |-> role]}
  /\ UNCHANGED <<updated_at, edges, mentions, working, changed>>

(* The ids are a JSON text that refers to nothing. *)
SaveTraitState(t, ids) ==
  /\ Upsert(t)
  /\ mentions' = Put(mentions, t, ids)
  /\ UNCHANGED <<edges, sources, working>>

CreateCheckpoint(c, ids) ==
  /\ Insert(c)
  /\ mentions' = Put(mentions, c, ids)
  /\ UNCHANGED <<edges, sources, working>>

UpsertImaginedScenario(s) ==
  Upsert(s) /\ UNCHANGED <<edges, sources, mentions, working>>

(* The conflict is on scope_key; expires_at is stored and never looked at. *)
UpsertWorkingMemoryEntry(k, session) ==
  /\ Upsert(k)
  /\ working' = Put(working, k, session)
  /\ UNCHANGED <<edges, sources, mentions>>

DeleteWorkingMemoryEntry(k) ==
  /\ k \in Stored(Scope)
  /\ Writes
  /\ updated_at' = Without(updated_at, k)
  /\ changed' = Without(changed, k)
  /\ working' = Without(working, k)
  /\ UNCHANGED <<edges, sources, mentions>>

Midnight ==
  /\ Day(now) < MaxDays
  /\ now' = DayLength * (Day(now) + 1)
  /\ UNCHANGED <<tables, changed, writes>>

-----------------------------------------------------------------------------
(* Statements that read *)

(* The rows of T that a list with a limit may consist of. *)
Recent(T, limit) ==
  Top(Stored(T), limit, [r \in Stored(T) |-> TextRank(updated_at[r])])

(* The rows list_working_memory_for_session selects. *)
OfSession(session) == {k \in Stored(Scope) : working[k] = session}

(* The rows of every list: those of a table, and those of a session.       *)
Lists == {Tables[i] : i \in 1..7} \union {OfSession(session) : session \in Session}

GetNeighbors(n) ==
  {m \in Stored(Node) :
     \E e \in DOMAIN edges : <<edges[e].from, edges[e].to>> \in {<<n, m>>, <<m, n>>}}

-----------------------------------------------------------------------------
NoRows == [id \in {} |-> {}]

(* Any nodes and lessons, stored earlier the same day. *)
StoreInit ==
  /\ now = 1
  /\ \E stored \in SUBSET (Node \union Lesson) :
       /\ updated_at = [id \in stored |-> Formatted(0)]
       /\ changed = [id \in stored |-> 0]
  /\ edges = NoRows
  /\ sources = {}
  /\ mentions = NoRows
  /\ working = NoRows
  /\ writes = 0

StoreNext ==
  \/ \E n \in Node : InsertNode(n) \/ UpdateNode(n)
  \/ \E e \in EdgeId, from, to \in Node : InsertEdge(e, from, to)
  \/ \E l \in Lesson : UpsertLesson(l)
  \/ \E l \in Lesson, n \in Node, role \in {"supporting", "contradicting"} :
       AttachLessonSource(l, n, role)
  \/ \E t \in Trait, ids \in Mentioned : SaveTraitState(t, ids)
  \/ \E c \in Checkpoint, ids \in Mentioned : CreateCheckpoint(c, ids)
  \/ \E s \in Scenario : UpsertImaginedScenario(s)
  \/ \E k \in Scope, session \in Session : UpsertWorkingMemoryEntry(k, session)
  \/ \E k \in Scope : DeleteWorkingMemoryEntry(k)
  \/ Midnight

-----------------------------------------------------------------------------
(* Properties *)

Stamp == [at : Nat, format : {"RFC3339", "CURRENT_TIMESTAMP"}]

Source == [id : Nat, lesson : Lesson, node : Node,
           role : {"supporting", "contradicting"}]

(* Types, and what the foreign keys say. *)
StoreTypeOK ==
  /\ now \in Nat
  /\ writes \in Nat
  /\ DOMAIN updated_at \subseteq UNION {Tables[i] : i \in 1..7}
  /\ updated_at \in [DOMAIN updated_at -> Stamp]
  /\ changed \in [DOMAIN updated_at -> Nat]
  /\ edges \in [Stored(EdgeId) -> [from : Stored(Node), to : Stored(Node)]]
  /\ sources \subseteq Source
  /\ \A s \in sources : s.lesson \in Stored(Lesson) /\ s.node \in Stored(Node)
  /\ mentions \in [Stored(Trait) \union Stored(Checkpoint) -> SUBSET (Node \union Lesson)]
  /\ working \in [Stored(Scope) -> Session]

Inserted(row) == updated_at[row].format = "RFC3339"

(* What the two formats of updated_at leave of "most recently updated      *)
(* first".  A row that a list puts behind its limit was changed no later   *)
(* than a row before it - except that a row updated today comes after all  *)
(* that were inserted today, and that updates of one second are equal.     *)
(* The day, at least, is always right: a list never hides a row of today   *)
(* for one of yesterday.                                                   *)
LatestDayFirst ==
  \A T \in Lists, limit \in Limit :
    \A list \in Recent(T, limit) :
      \A r \in list, s \in Stored(T) \ list :
        \/ changed[r] >= changed[s]
        \/ /\ Day(changed[r]) = Day(changed[s])
           /\ ~Inserted(s)
           /\ Inserted(r) \/ changed[r] \div 2 = changed[s] \div 2
=============================================================================
