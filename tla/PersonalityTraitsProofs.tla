----------------------- MODULE PersonalityTraitsProofs -----------------------
(***************************************************************************)
(* Proofs about PersonalityTraits, for any agents, outcomes and policy.    *)
(*                                                                         *)
(* What is saved was computed from a list that may be old.  The invariant  *)
(* therefore says of the changes an agent still holds what it says of the  *)
(* table: each is as near to the start as the outcomes recorded so far     *)
(* allow, and on the side of it that they all point to.  That traits are   *)
(* single and count every outcome once takes a second invariant, CInv.     *)
(***************************************************************************)
EXTENDS PersonalityTraits, TLAPS

(* Strength s is reachable in k outcomes. *)
Near(s, k) ==
  s - MinimumStartStrength \in -(k * MaxStepPerOutcome)..(k * MaxStepPerOutcome)

AllNear(t, k) == \A id \in DOMAIN t : Near(t[id].strength, k)

Raised(s) == s > MinimumStartStrength \/ s = Whole

(* The outcomes of S say that traits of type t rise. *)
Rising(S, t) == \/ t = "Caution" /\ \A o \in S : Failure(o)
                \/ t = "Practicality" /\ \A o \in S : Triumph(o)

AllRaised(t, S) == \A id \in DOMAIN t : Rising(S, id[2]) => Raised(t[id].strength)

IInv ==
  /\ TypeOK
  /\ AllNear(traits, outcomes)
  /\ \A a \in Agent : AllNear(updated[a], outcomes)
  /\ AllRaised(traits, reported)
  /\ \A a \in Agent : AllRaised(updated[a], reported)

TraitOfType(t) == [trait_type : {t}, strength : 0..Whole, confidence : 0..100]

-----------------------------------------------------------------------------
(* The arithmetic of a step *)

LEMMA ClampBounds ==
  ASSUME NEW x \in Int, NEW low \in Int, NEW high \in Int, low <= high
  PROVE  Clamp(x, low, high) \in low..high
BY DEF Clamp

LEMMA ProductPositive ==
  ASSUME NEW x \in Nat \ {0}, NEW y \in Nat \ {0}
  PROVE  x * y \in Nat \ {0}
BY SMT

LEMMA SignalType ==
  ASSUME NEW o \in Outcome, NEW t \in TraitType
  PROVE  Signal(o, t) \in Int
<1>1. UsefulnessSignal(o) \in Int
  BY ClampBounds, OutcomeAssumption DEF UsefulnessSignal, Clamp
<1>2. \A b \in BOOLEAN : Sign(b) \in Int
  BY DEF Sign
<1>3. t \in Signalled
  BY TraitTypeAssumption
<1>4. /\ o.success \in BOOLEAN
      /\ o.prediction_correct \in BOOLEAN
      /\ o.user_accepted \in BOOLEAN
  BY OutcomeAssumption
<1>5. /\ Sign(o.success) \in Int
      /\ Sign(o.prediction_correct) \in Int
      /\ Sign(o.user_accepted) \in Int
  BY <1>2, <1>4
<1>6. QED
  BY <1>1, <1>3, <1>5 DEF Signal, Signalled

LEMMA WholeType == Whole \in Nat \ {0}
BY SMT DEF Whole

LEMMA PolicyType ==
  /\ LearningRate \in Nat \ {0}
  /\ MaxStepPerOutcome \in Nat \ {0}
  /\ ConfidenceIncrement \in Nat
  /\ MinimumStartStrength \in 0..Whole
BY PolicyAssumption, WholeType, SMT

(* The step that a signal asks for. *)
Step(signal) == Clamp(Clamp(signal, -1000, 1000) * LearningRate,
                      -MaxStepPerOutcome, MaxStepPerOutcome)

LEMMA StepType ==
  ASSUME NEW signal \in Int
  PROVE  /\ Step(signal) \in -MaxStepPerOutcome..MaxStepPerOutcome
         /\ signal > 0 => Step(signal) > 0
<1> DEFINE bounded == Clamp(signal, -1000, 1000)
           product == bounded * LearningRate
<1>1. bounded \in Int /\ (signal > 0 => bounded > 0)
  BY DEF Clamp
<1>2. product \in Int /\ (signal > 0 => product > 0)
  <2> HIDE DEF bounded
  <2>1. product \in Int
    BY <1>1, PolicyType
  <2>2. ASSUME signal > 0 PROVE product > 0
    BY <1>1, <2>2, PolicyType, ProductPositive
  <2>3. QED
    BY <2>1, <2>2
<1>3. Step(signal) = Clamp(product, -MaxStepPerOutcome, MaxStepPerOutcome)
  BY DEF Step
<1> HIDE DEF product
<1>4. QED
  BY <1>2, <1>3, PolicyType DEF Clamp

LEMMA MoveBounds ==
  ASSUME NEW s \in 0..Whole,
         NEW d \in -MaxStepPerOutcome..MaxStepPerOutcome
  PROVE  /\ Clamp(s + d, 0, Whole) \in 0..Whole
         /\ Clamp(s + d, 0, Whole) - s \in -MaxStepPerOutcome..MaxStepPerOutcome
         /\ d > 0 => Clamp(s + d, 0, Whole) > s \/ Clamp(s + d, 0, Whole) = Whole
BY PolicyType, WholeType, SMT DEF Clamp

LEMMA AppliedSignal ==
  ASSUME NEW t, NEW trait \in TraitOfType(t), NEW signal \in Int
  PROVE  /\ ApplySignal(trait, signal) \in TraitOfType(t)
         /\ ApplySignal(trait, signal).strength
              = Clamp(trait.strength + Step(signal), 0, Whole)
<1>1. /\ trait.strength \in 0..Whole
      /\ trait.confidence \in 0..100
  BY DEF TraitOfType
<1>2. ApplySignal(trait, signal) =
        [trait EXCEPT !.strength = Clamp(trait.strength + Step(signal), 0, Whole),
                      !.confidence = Clamp(trait.confidence + ConfidenceIncrement, 0, 100)]
  BY DEF ApplySignal, Step
<1>3. Clamp(trait.strength + Step(signal), 0, Whole) \in 0..Whole
  BY <1>1, StepType, MoveBounds
<1>4. Clamp(trait.confidence + ConfidenceIncrement, 0, 100) \in 0..100
  BY <1>1, PolicyType DEF Clamp
<1>5. /\ ApplySignal(trait, signal) \in TraitOfType(t)
      /\ ApplySignal(trait, signal).strength = Clamp(trait.strength + Step(signal), 0, Whole)
  <2> DEFINE s == Clamp(trait.strength + Step(signal), 0, Whole)
             c == Clamp(trait.confidence + ConfidenceIncrement, 0, 100)
  <2>1. s \in 0..Whole /\ c \in 0..100
    BY <1>3, <1>4
  <2>2. ApplySignal(trait, signal) = [trait EXCEPT !.strength = s, !.confidence = c]
    BY <1>2
  <2> HIDE DEF s, c
  <2>3. /\ [trait EXCEPT !.strength = s, !.confidence = c] \in TraitOfType(t)
        /\ [trait EXCEPT !.strength = s, !.confidence = c].strength = s
    BY <2>1 DEF TraitOfType
  <2>4. ApplySignal(trait, signal) \in TraitOfType(t) /\ ApplySignal(trait, signal).strength = s
    BY <2>2, <2>3, Zenon
  <2>5. QED
    BY <2>4 DEF s
<1>6. QED
  BY <1>5

(* A validated outcome moves a trait by at most the policy's step. *)
LEMMA StepBounded ==
  ASSUME NEW t, NEW trait \in TraitOfType(t), NEW signal \in Int
  PROVE  ApplySignal(trait, signal).strength - trait.strength
           \in -MaxStepPerOutcome..MaxStepPerOutcome
<1>1. trait.strength \in 0..Whole
  BY DEF TraitOfType
<1>2. QED
  BY <1>1, AppliedSignal, StepType, MoveBounds

(* A positive signal raises a trait that is not at the end of its scale. *)
LEMMA StepRaises ==
  ASSUME NEW t, NEW trait \in TraitOfType(t), NEW signal \in Nat \ {0},
         trait.strength >= MinimumStartStrength
  PROVE  Raised(ApplySignal(trait, signal).strength)
<1>1. trait.strength \in 0..Whole
  BY DEF TraitOfType
<1> DEFINE moved == Clamp(trait.strength + Step(signal), 0, Whole)
<1>2. /\ moved \in 0..Whole
      /\ moved > trait.strength \/ moved = Whole
  <2>1. /\ Step(signal) \in -MaxStepPerOutcome..MaxStepPerOutcome
        /\ Step(signal) > 0
    BY StepType
  <2>2. QED
    BY <1>1, <2>1, MoveBounds
<1>3. ApplySignal(trait, signal).strength = moved
  BY AppliedSignal
<1> HIDE DEF moved
<1>4. QED
  BY <1>1, <1>2, <1>3, PolicyType, WholeType, SMT DEF Raised

LEMMA RisingSignal ==
  ASSUME NEW o \in Outcome, NEW t \in TraitType, Rising({o}, t)
  PROVE  Signal(o, t) \in Nat \ {0}
<1>1. CASE t = "Caution"
  BY <1>1 DEF Rising, Failure, Signal
<1>2. CASE t = "Practicality"
  <2>1. o.success /\ o.usefulness > 50
    BY <1>2 DEF Rising, Triumph
  <2>2. o.usefulness \in Int
    BY OutcomeAssumption
  <2>3. UsefulnessSignal(o) \in 1..100
    BY <2>1, <2>2 DEF UsefulnessSignal, Clamp
  <2>4. Sign(o.success) = 1
    BY <2>1 DEF Sign
  <2>5. QED
    BY <1>2, <2>3, <2>4 DEF Signal
<1>3. QED
  BY <1>1, <1>2 DEF Rising

-----------------------------------------------------------------------------
(* record_outcome *)

LEMMA FoundType ==
  ASSUME NEW list, Table(list), NEW k \in Nat, NEW t \in TraitType,
         NEW id \in FoundAt(list, t, <<k, t>>)
  PROVE  /\ id \in TraitId
         /\ id[2] = t
BY DEF FoundAt, OfType, Table, TraitId

(* What is known of a change: the trait it was made from is the one of the *)
(* list, or a new one, and one signal lies between the two.                *)
Change(list, o, id, row) ==
  \E before \in TraitOfType(id[2]) :
    /\ id \in DOMAIN list => before = list[id]
    /\ id \notin DOMAIN list => before.strength = MinimumStartStrength
    /\ row = ApplySignal(before, Signal(o, id[2]))

LEMMA RecordOutcomeChanges ==
  ASSUME NEW list, Table(list), NEW o \in Outcome, NEW k \in Nat,
         NEW changes \in RecordOutcome(list, o, k)
  PROVE  /\ Table(changes)
         /\ \A id \in DOMAIN changes : o.validated /\ Change(list, o, id, changes[id])
<1>1. CASE ~o.validated
  <2>1. changes = [id \in {} |-> {}]
    BY <1>1 DEF RecordOutcome, Validated
  <2>2. DOMAIN changes = {}
    BY <2>1
  <2>3. QED
    BY <2>2 DEF Table
<1>2. CASE o.validated
  <2>1. PICK at \in [TraitType -> UNION {FoundAt(list, t, <<k, t>>) : t \in TraitType}] :
          /\ \A t \in TraitType : at[t] \in FoundAt(list, t, <<k, t>>)
          /\ changes = [id \in {at[t] : t \in TraitType} |->
                          ApplySignal(TraitBefore(list, id), Signal(o, id[2]))]
    BY <1>2 DEF RecordOutcome, Validated
  <2>2. ASSUME NEW id \in DOMAIN changes
        PROVE  /\ id \in TraitId
               /\ changes[id] \in TraitOfType(id[2])
               /\ Change(list, o, id, changes[id])
    <3>1. PICK t \in TraitType : id = at[t]
      BY <2>1, <2>2
    <3>2. id \in TraitId /\ id[2] = t
      <4>1. at[t] \in FoundAt(list, t, <<k, t>>)
        BY <2>1
      <4>2. QED
        BY <3>1, <4>1, FoundType
    <3>3. changes[id] = ApplySignal(TraitBefore(list, id), Signal(o, id[2]))
      BY <2>1, <2>2
    <3>4. /\ TraitBefore(list, id) \in TraitOfType(id[2])
          /\ id \in DOMAIN list => TraitBefore(list, id) = list[id]
          /\ id \notin DOMAIN list =>
               TraitBefore(list, id).strength = MinimumStartStrength
      BY PolicyType DEF TraitBefore, DefaultTraitState, Table, TraitOfType
    <3>5. Signal(o, id[2]) \in Int
      BY <3>2, SignalType
    <3>6. changes[id] \in TraitOfType(id[2])
      BY <3>3, <3>4, <3>5, AppliedSignal
    <3>7. Change(list, o, id, changes[id])
      BY <3>3, <3>4 DEF Change
    <3>8. QED
      BY <3>2, <3>6, <3>7
  <2>3. Table(changes)
    BY <2>2 DEF Table, TraitOfType
  <2>4. QED
    BY <1>2, <2>2, <2>3
<1>3. QED
  BY <1>1, <1>2, OutcomeAssumption

-----------------------------------------------------------------------------
(* How near and raised carry over from one outcome to the next *)

LEMMA NearStart ==
  ASSUME NEW k \in Nat
  PROVE  Near(MinimumStartStrength, k)
<1> DEFINE reach == k * MaxStepPerOutcome
<1>1. reach \in Nat
  BY PolicyType, SMT
<1> HIDE DEF reach
<1>2. 0 \in -reach..reach
  BY <1>1
<1>3. QED
  BY <1>2, PolicyType, WholeType, SMT DEF Near, reach

LEMMA NearMoves ==
  ASSUME NEW k \in Nat, NEW s \in 0..Whole, NEW moved \in 0..Whole,
         Near(s, k), moved - s \in -MaxStepPerOutcome..MaxStepPerOutcome
  PROVE  Near(moved, k + 1)
<1> DEFINE reach == k * MaxStepPerOutcome
<1>1. reach \in Nat
  BY PolicyType, SMT
<1>2. (k + 1) * MaxStepPerOutcome = reach + MaxStepPerOutcome
  BY PolicyType, SMT
<1>3. s - MinimumStartStrength \in -reach..reach
  BY DEF Near
<1> HIDE DEF reach
<1>4. moved - MinimumStartStrength
        \in -(reach + MaxStepPerOutcome)..(reach + MaxStepPerOutcome)
  BY <1>1, <1>3, PolicyType, WholeType, SMT
<1>5. QED
  BY <1>2, <1>4 DEF Near

LEMMA StillNear ==
  ASSUME NEW k \in Nat, NEW t, Table(t), AllNear(t, k)
  PROVE  AllNear(t, k + 1)
<1> SUFFICES ASSUME NEW id \in DOMAIN t
             PROVE  Near(t[id].strength, k + 1)
  BY DEF AllNear
<1>1. t[id].strength \in 0..Whole
  BY DEF Table
<1>2. t[id].strength - t[id].strength \in -MaxStepPerOutcome..MaxStepPerOutcome
  BY <1>1, PolicyType, WholeType, SMT
<1>3. QED
  BY <1>1, <1>2, NearMoves DEF AllNear

LEMMA StillRaised ==
  ASSUME NEW S, NEW o, NEW t, AllRaised(t, S)
  PROVE  AllRaised(t, S \union {o})
BY DEF AllRaised, Rising

(* What an outcome does to a table that is near and raised is near and     *)
(* raised once the outcome counts.                                         *)
LEMMA ChangesNear ==
  ASSUME NEW list, Table(list), NEW o \in Outcome, NEW k \in Nat,
         AllNear(list, k),
         NEW changes \in RecordOutcome(list, o, k + 1)
  PROVE  AllNear(changes, k + 1)
<1> SUFFICES ASSUME NEW id \in DOMAIN changes
             PROVE  Near(changes[id].strength, k + 1)
  BY DEF AllNear
<1>1. k + 1 \in Nat
  OBVIOUS
<1>2. Table(changes) /\ Change(list, o, id, changes[id])
  BY <1>1, RecordOutcomeChanges
<1>3. PICK before \in TraitOfType(id[2]) :
        /\ id \in DOMAIN list => before = list[id]
        /\ id \notin DOMAIN list => before.strength = MinimumStartStrength
        /\ changes[id] = ApplySignal(before, Signal(o, id[2]))
  BY <1>2 DEF Change
<1>4. Signal(o, id[2]) \in Int
  BY <1>2, SignalType DEF Table, TraitId
<1>5. Near(before.strength, k)
  BY <1>3, NearStart DEF AllNear
<1>6. before.strength \in 0..Whole /\ changes[id].strength \in 0..Whole
  BY <1>2 DEF Table, TraitOfType
<1>7. changes[id].strength - before.strength
        \in -MaxStepPerOutcome..MaxStepPerOutcome
  BY <1>3, <1>4, StepBounded
<1>8. QED
  BY <1>5, <1>6, <1>7, NearMoves

LEMMA ChangesRaised ==
  ASSUME NEW list, Table(list), NEW o \in Outcome, NEW k \in Nat, NEW S,
         AllRaised(list, S),
         NEW changes \in RecordOutcome(list, o, k)
  PROVE  AllRaised(changes, S \union {o})
<1> SUFFICES ASSUME NEW id \in DOMAIN changes,
                    Rising(S \union {o}, id[2])
             PROVE  Raised(changes[id].strength)
  BY DEF AllRaised
<1>1. Rising(S, id[2]) /\ Rising({o}, id[2])
  BY DEF Rising
<1>2. Table(changes) /\ Change(list, o, id, changes[id])
  BY RecordOutcomeChanges
<1>3. PICK before \in TraitOfType(id[2]) :
        /\ id \in DOMAIN list => before = list[id]
        /\ id \notin DOMAIN list => before.strength = MinimumStartStrength
        /\ changes[id] = ApplySignal(before, Signal(o, id[2]))
  BY <1>2 DEF Change
<1>4. id[2] \in TraitType
  BY <1>2 DEF Table, TraitId
<1>5. before.strength \in 0..Whole
  BY DEF TraitOfType
<1>6. before.strength >= MinimumStartStrength
  <2>1. CASE id \in DOMAIN list
    <3>1. Raised(before.strength)
      BY <1>1, <1>3, <2>1 DEF AllRaised
    <3>2. QED
      BY <1>5, <3>1, PolicyType, WholeType, SMT DEF Raised
  <2>2. CASE id \notin DOMAIN list
    <3>1. before.strength = MinimumStartStrength
      BY <1>3, <2>2
    <3>2. QED
      BY <3>1, PolicyType, WholeType, SMT
  <2>3. QED
    BY <2>1, <2>2
<1>7. Signal(o, id[2]) \in Nat \ {0}
  BY <1>1, <1>4, RisingSignal
<1>8. QED
  BY <1>3, <1>6, <1>7, StepRaises

-----------------------------------------------------------------------------
(* The invariant is inductive *)

LEMMA NoTraitsType ==
  /\ Table(NoTraits)
  /\ \A k : AllNear(NoTraits, k)
  /\ \A S : AllRaised(NoTraits, S)
<1>1. DOMAIN NoTraits = {}
  BY DEF NoTraits
<1>2. QED
  BY <1>1 DEF Table, AllNear, AllRaised

LEMMA InitIInv == Init => IInv
<1> SUFFICES ASSUME Init PROVE IInv
  OBVIOUS
<1>1. TypeOK
  BY NoTraitsType DEF Init, TypeOK
<1>2. QED
  BY <1>1, NoTraitsType DEF Init, IInv

(* Writing a row of a sound table into a sound table. *)
LEMMA PutSound ==
  ASSUME NEW table, NEW rows, NEW id \in DOMAIN rows, NEW k, NEW S
  PROVE  /\ Table(table) /\ Table(rows) => Table(Put(table, id, rows[id]))
         /\ AllNear(table, k) /\ AllNear(rows, k) => AllNear(Put(table, id, rows[id]), k)
         /\ AllRaised(table, S) /\ AllRaised(rows, S)
              => AllRaised(Put(table, id, rows[id]), S)
<1> DEFINE new == Put(table, id, rows[id])
<1>1. DOMAIN new = DOMAIN table \union {id}
  BY DEF Put
<1>2. \A j \in DOMAIN table \union {id} :
        new[j] = IF j = id THEN rows[id] ELSE table[j]
  BY DEF Put
<1> HIDE DEF new
<1>3. Table(table) /\ Table(rows) => Table(new)
  BY <1>1, <1>2 DEF Table
<1>4. AllNear(table, k) /\ AllNear(rows, k) => AllNear(new, k)
  BY <1>1, <1>2 DEF AllNear
<1>5. AllRaised(table, S) /\ AllRaised(rows, S) => AllRaised(new, S)
  BY <1>1, <1>2 DEF AllRaised
<1>6. QED
  BY <1>3, <1>4, <1>5 DEF new

LEMMA ReportKeeps ==
  ASSUME IInv, NEW a \in Agent, NEW o \in Outcome, Report(a, o)
  PROVE  IInv'
<1>1. PICK changes \in RecordOutcome(traits, o, outcomes + 1) :
        updated' = [updated EXCEPT ![a] = changes]
  BY DEF Report
<1>2. /\ TypeOK
      /\ Table(traits)
      /\ outcomes \in Nat
      /\ outcomes + 1 \in Nat
      /\ AllNear(traits, outcomes)
      /\ AllRaised(traits, reported)
  BY DEF IInv, TypeOK
<1>3. /\ Table(changes)
      /\ DOMAIN changes # {} => o.validated
  BY <1>2, RecordOutcomeChanges
<1>4. \A b \in Agent : updated'[b] = IF b = a THEN changes ELSE updated[b]
  BY <1>1 DEF IInv, TypeOK
<1>5. /\ TypeOK'
      /\ traits' = traits
  <2>1. outcomes' \in Nat /\ reported' \subseteq Outcome
    BY <1>2 DEF Report, TypeOK
  <2>2. DOMAIN updated' = Agent /\ \A b \in Agent : Table(updated'[b])
    BY <1>1, <1>3, <1>4 DEF IInv, TypeOK
  <2>3. DOMAIN listed' = Agent /\ \A b \in Agent : Table(listed'[b])
    BY <1>2 DEF Report, TypeOK
  <2>4. DOMAIN saved' = Agent /\ \A b \in Agent : Table(saved'[b])
    BY <1>2, NoTraitsType DEF Report, TypeOK
  <2>5. QED
    BY <1>2, <2>1, <2>2, <2>3, <2>4 DEF Report, TypeOK
<1>6. CASE o.validated
  <2>1. outcomes' = outcomes + 1 /\ reported' = reported \union {o}
    BY <1>6 DEF Report
  <2>2. AllNear(changes, outcomes') /\ AllRaised(changes, reported')
    BY <1>2, <2>1, ChangesNear, ChangesRaised
  <2>3. AllNear(traits', outcomes') /\ AllRaised(traits', reported')
    BY <1>2, <1>5, <2>1, StillNear, StillRaised
  <2>4. \A b \in Agent : /\ AllNear(updated[b], outcomes')
                         /\ AllRaised(updated[b], reported')
    BY <1>2, <2>1, StillNear, StillRaised DEF IInv, TypeOK
  <2>5. \A b \in Agent : /\ AllNear(updated'[b], outcomes')
                         /\ AllRaised(updated'[b], reported')
    BY <1>4, <2>2, <2>4
  <2>6. QED
    BY <1>5, <2>3, <2>5 DEF IInv
<1>7. CASE ~o.validated
  <2>1. outcomes' = outcomes /\ reported' = reported
    BY <1>7 DEF Report
  <2>2. AllNear(changes, outcomes) /\ AllRaised(changes, reported)
    BY <1>3, <1>7 DEF AllNear, AllRaised
  <2>3. \A b \in Agent : /\ AllNear(updated'[b], outcomes')
                         /\ AllRaised(updated'[b], reported')
    BY <1>4, <2>1, <2>2 DEF IInv
  <2>4. QED
    BY <1>2, <1>5, <2>1, <2>3 DEF IInv
<1>8. QED
  BY <1>6, <1>7, OutcomeAssumption

(* What every save does to the table, whether or not it is read back. *)
LEMMA SaveTraitKeeps ==
  ASSUME IInv, NEW a \in Agent, NEW id, SaveTrait(a, id)
  PROVE  /\ Table(traits')
         /\ AllNear(traits', outcomes)
         /\ AllRaised(traits', reported)
         /\ DOMAIN saved' = Agent
         /\ \A b \in Agent : Table(saved'[b])
         /\ raced' \in BOOLEAN
<1>1. id \in DOMAIN updated[a] /\ traits' = Put(traits, id, updated[a][id])
  BY DEF SaveTrait
<1>2. /\ Table(traits')
      /\ AllNear(traits', outcomes)
      /\ AllRaised(traits', reported)
  BY <1>1, PutSound DEF IInv, TypeOK
<1>3. /\ DOMAIN saved' = Agent
      /\ \A b \in Agent : saved'[b] = IF b = a THEN Put(saved[a], id, updated[a][id])
                                               ELSE saved[b]
  BY DEF SaveTrait, IInv, TypeOK
<1>4. Table(Put(saved[a], id, updated[a][id]))
  BY <1>1, PutSound DEF IInv, TypeOK
<1>5. raced' \in BOOLEAN
  BY DEF SaveTrait
<1>6. QED
  BY <1>2, <1>3, <1>4, <1>5 DEF IInv, TypeOK

LEMMA SaveTraitStateKeeps ==
  ASSUME IInv, NEW a \in Agent, NEW id, SaveTraitState(a, id)
  PROVE  IInv'
<1> DEFINE left == [k \in DOMAIN updated[a] \ {id} |-> updated[a][k]]
<1>1. /\ DOMAIN updated' = Agent
      /\ \A b \in Agent : updated'[b] = IF b = a THEN left ELSE updated[b]
  BY DEF SaveTraitState, IInv, TypeOK
<1>2. /\ Table(left)
      /\ AllNear(left, outcomes)
      /\ AllRaised(left, reported)
  <2>1. Table(updated[a]) /\ AllNear(updated[a], outcomes) /\ AllRaised(updated[a], reported)
    BY DEF IInv, TypeOK
  <2>2. /\ DOMAIN left \subseteq DOMAIN updated[a]
        /\ \A k \in DOMAIN left : left[k] = updated[a][k]
    OBVIOUS
  <2> HIDE DEF left
  <2>3. QED
    BY <2>1, <2>2 DEF Table, AllNear, AllRaised
<1> HIDE DEF left
<1>3. UNCHANGED <<listed, outcomes, reported, failures, abandoned>>
  BY DEF SaveTraitState
<1>4. /\ Table(traits')
      /\ AllNear(traits', outcomes')
      /\ AllRaised(traits', reported')
      /\ DOMAIN saved' = Agent
      /\ \A b \in Agent : Table(saved'[b])
      /\ raced' \in BOOLEAN
  BY <1>3, SaveTraitKeeps DEF SaveTraitState
<1>5. \A b \in Agent : /\ Table(updated'[b])
                       /\ AllNear(updated'[b], outcomes')
                       /\ AllRaised(updated'[b], reported')
  BY <1>1, <1>2, <1>3 DEF IInv, TypeOK
<1>6. TypeOK'
  BY <1>1, <1>3, <1>4, <1>5 DEF IInv, TypeOK
<1>7. QED
  BY <1>4, <1>5, <1>6 DEF IInv

LEMMA SaveTraitStateFailsKeeps ==
  ASSUME IInv, NEW a \in Agent, NEW id, SaveTraitStateFails(a, id)
  PROVE  IInv'
<1>1. UNCHANGED <<updated, listed, outcomes, reported, abandoned>>
  BY DEF SaveTraitStateFails
<1>2. /\ Table(traits')
      /\ AllNear(traits', outcomes')
      /\ AllRaised(traits', reported')
      /\ DOMAIN saved' = Agent
      /\ \A b \in Agent : Table(saved'[b])
      /\ raced' \in BOOLEAN
  BY <1>1, SaveTraitKeeps DEF SaveTraitStateFails
<1>3. failures' \in Nat
  BY DEF SaveTraitStateFails, IInv, TypeOK
<1>4. TypeOK'
  BY <1>1, <1>2, <1>3 DEF IInv, TypeOK
<1>5. QED
  BY <1>1, <1>2, <1>4 DEF IInv

LEMMA GiveUpKeeps ==
  ASSUME IInv, NEW a \in Agent, GiveUp(a)
  PROVE  IInv'
<1>1. UNCHANGED <<traits, saved, listed, outcomes, reported, raced>>
  BY DEF GiveUp
<1>2. /\ DOMAIN updated' = Agent
      /\ \A b \in Agent : updated'[b] = IF b = a THEN NoTraits ELSE updated[b]
  BY DEF GiveUp, IInv, TypeOK
<1>3. \A b \in Agent : /\ Table(updated'[b])
                       /\ AllNear(updated'[b], outcomes')
                       /\ AllRaised(updated'[b], reported')
  BY <1>1, <1>2, NoTraitsType DEF IInv, TypeOK
<1>4. failures' \in Nat /\ abandoned' = TRUE
  BY DEF GiveUp, IInv, TypeOK
<1>5. TypeOK'
  BY <1>1, <1>2, <1>3, <1>4 DEF IInv, TypeOK
<1>6. QED
  BY <1>1, <1>3, <1>5 DEF IInv

LEMMA NextKeeps == IInv /\ [Next]_vars => IInv'
<1> SUFFICES ASSUME IInv, [Next]_vars PROVE IInv'
  OBVIOUS
<1>1. CASE Next
  <2>1. PICK a \in Agent :
          \/ \E o \in Outcome : Report(a, o)
          \/ \E id \in DOMAIN updated[a] :
               SaveTraitState(a, id) \/ SaveTraitStateFails(a, id)
          \/ GiveUp(a)
    BY <1>1 DEF Next
  <2>2. QED
    BY <2>1, ReportKeeps, SaveTraitStateKeeps, SaveTraitStateFailsKeeps, GiveUpKeeps
<1>2. CASE UNCHANGED vars
  BY <1>2 DEF vars, IInv, TypeOK
<1>3. QED
  BY <1>1, <1>2

LEMMA Invariant == Spec => []IInv
BY InitIInv, NextKeeps, PTL DEF Spec

-----------------------------------------------------------------------------
(* The theorems *)

(* The table, and what agents keep of it, holds traits whose strength and  *)
(* confidence are in range, under ids of their own type.                   *)
THEOREM TraitsTyped == Spec => []TypeOK
<1>1. IInv => TypeOK
  BY DEF IInv
<1>2. QED
  BY <1>1, Invariant, PTL

(* The policy's step bounds the distance a trait has gone per validated    *)
(* outcome, whatever apply_signal is asked for and however saves race.     *)
THEOREM DriftIsBounded == Spec => []DriftBounded
<1>1. IInv => DriftBounded
  BY DEF IInv, AllNear, Near, DriftBounded
<1>2. QED
  BY <1>1, Invariant, PTL

(* Failures alone raise caution, useful successes alone practicality, in   *)
(* whatever order the changes record_outcome computed reach the store.     *)
THEOREM HistoryMovesTraits == Spec => []OneSidedHistory
<1>1. IInv => OneSidedHistory
  BY DEF IInv, AllRaised, Rising, Raised, OneSidedHistory
<1>2. QED
  BY <1>1, Invariant, PTL

-----------------------------------------------------------------------------
(* One trait of a type, and every outcome counted once                     *)
(*                                                                         *)
(* A save that goes over a changed table is a race, so what has to be      *)
(* shown is that agents which meet and do not race are of no consequence.  *)
(* An agent is stale once another has changed the table it listed: it can  *)
(* not save without a race again, nor be done.  Two agents that both have  *)
(* to change the table will make one another stale.  As long as neither is *)
(* the case at most one agent has anything left to change, and the table   *)
(* counts every outcome but, in the traits it still owes, its own.         *)

(* The confidence that k outcomes make, and one more of them. *)
Counted(k) == Clamp(30 + k * ConfidenceIncrement, 0, 100)
Surer(c) == Clamp(c + ConfidenceIncrement, 0, 100)

(* What an agent has computed and never saved. *)
Owed(a) == DOMAIN updated[a] \ DOMAIN saved[a]

UniqueTypes(table) == \A i, j \in DOMAIN table : i[2] = j[2] => i = j

(* What an agent has to save replaces what it knows of the same type. *)
Replacing(a) ==
  /\ UniqueTypes(updated[a])
  /\ \A id \in DOMAIN updated[a], j \in DOMAIN listed[a] \union DOMAIN saved[a] :
       j[2] = id[2] => j = id

(* It is one outcome surer than what was listed; a save made again repeats *)
(* the one before.                                                         *)
Computed(a) ==
  \A id \in DOMAIN updated[a] :
    /\ id \in DOMAIN saved[a] => updated[a][id] = saved[a][id]
    /\ id \notin DOMAIN saved[a] =>
         updated[a][id].confidence =
           Surer(IF id \in DOMAIN listed[a] THEN listed[a][id].confidence ELSE 30)

InRange(table, k) == \A id \in DOMAIN table : table[id].confidence \in 30..Counted(k)

(* The table has gone on from what the agent made of it. *)
GoneOn(a) ==
  /\ DOMAIN Expected(a) \subseteq DOMAIN traits
  /\ \A id \in DOMAIN Expected(a) : Expected(a)[id].confidence <= traits[id].confidence

(* An agent that has something to save and cannot save it without a race.  *)
Stale(a) ==
  /\ ~Idle(a)
  /\ \E id \in DOMAIN traits :
       id \in DOMAIN Expected(a) => Expected(a)[id].confidence < traits[id].confidence

(* An agent whose saves will make other agents stale. *)
Changes(table, id) == id \in DOMAIN table => Surer(table[id].confidence) # table[id].confidence
Changing(a) == \E id \in Owed(a) : Changes(traits, id)

Doomed == \/ \E a \in Agent : Stale(a)
          \/ \E a, b \in Agent : a # b /\ Changing(a) /\ Changing(b)

(* Every trait counts every outcome, but for the one that is being saved. *)
CountsAll(id) ==
  \/ traits[id].confidence >= Counted(outcomes)
  \/ /\ outcomes # 0
     /\ traits[id].confidence >= Counted(outcomes - 1)
     /\ \E a \in Agent : id \in Owed(a)
Present(t) ==
  \/ OfType(traits, t) # {}
  \/ outcomes = 0
  \/ outcomes = 1 /\ \E a \in Agent : \E id \in Owed(a) : id[2] = t

Settled == /\ \A id \in DOMAIN traits : CountsAll(id)
           /\ \A t \in TraitType : Present(t)

CInv ==
  /\ InRange(traits, outcomes)
  /\ \A a \in Agent : InRange(updated[a], outcomes) /\ Computed(a)
  /\ ~raced => UniqueTypes(traits) /\ \A a \in Agent : Replacing(a) /\ GoneOn(a)
  /\ ~raced /\ ~abandoned => Doomed \/ Settled

-----------------------------------------------------------------------------
LEMMA SurerBounds ==
  ASSUME NEW c \in 30..100
  PROVE  Surer(c) \in c..100
BY PolicyType DEF Surer, Clamp

LEMMA SurerOrdered ==
  ASSUME NEW c \in 30..100, NEW d \in 30..100, c <= d
  PROVE  Surer(c) <= Surer(d)
BY PolicyType DEF Surer, Clamp

LEMMA CountedType ==
  ASSUME NEW k \in Nat
  PROVE  /\ Counted(k) \in 30..100
         /\ Counted(k + 1) = Surer(Counted(k))
         /\ Counted(k) <= Counted(k + 1)
<1> DEFINE sum == k * ConfidenceIncrement
<1>1. sum \in Nat
  BY PolicyType, SMT
<1>2. (k + 1) * ConfidenceIncrement = sum + ConfidenceIncrement
  BY PolicyType, SMT
<1>3. Counted(k) = Clamp(30 + sum, 0, 100)
  BY DEF Counted
<1>4. Counted(k + 1) = Clamp(30 + (sum + ConfidenceIncrement), 0, 100)
  BY <1>2 DEF Counted
<1> HIDE DEF sum
<1>5. QED
  BY <1>1, <1>3, <1>4, PolicyType DEF Surer, Clamp

(* A trait that an outcome makes no surer counts as many as one likes.     *)
LEMMA FullCounts ==
  ASSUME NEW c \in 30..100, Surer(c) = c, NEW k \in Nat
  PROVE  c >= Counted(k)
<1>1. CASE ConfidenceIncrement = 0
  <2>1. k * ConfidenceIncrement = 0
    BY <1>1, SMT
  <2>2. Counted(k) = 30
    BY <2>1 DEF Counted, Clamp
  <2>3. QED
    BY <2>2
<1>2. CASE ConfidenceIncrement # 0
  <2>1. c = 100
    BY <1>2, PolicyType DEF Surer, Clamp
  <2>2. QED
    BY <2>1, CountedType
<1>3. QED
  BY <1>1, <1>2

(* What a validated outcome does to a list: of every type one trait is     *)
(* changed, the listed one if there is one.                                *)
LEMMA RecordedOfEachType ==
  ASSUME NEW list, Table(list), NEW o \in Outcome, o.validated, NEW k \in Nat,
         NEW changes \in RecordOutcome(list, o, k)
  PROVE  /\ \A t \in TraitType : \E id \in DOMAIN changes : id[2] = t
         /\ UniqueTypes(changes)
         /\ \A id \in DOMAIN changes :
              /\ id[2] \in TraitType
              /\ id \in FoundAt(list, id[2], <<k, id[2]>>)
              /\ changes[id].confidence =
                   Surer(IF id \in DOMAIN list THEN list[id].confidence ELSE 30)
<1>1. PICK at \in [TraitType -> UNION {FoundAt(list, t, <<k, t>>) : t \in TraitType}] :
        /\ \A t \in TraitType : at[t] \in FoundAt(list, t, <<k, t>>)
        /\ changes = [id \in {at[t] : t \in TraitType} |->
                        ApplySignal(TraitBefore(list, id), Signal(o, id[2]))]
  BY DEF RecordOutcome, Validated
<1>2. ASSUME NEW t \in TraitType PROVE at[t][2] = t
  <2>1. at[t] \in FoundAt(list, t, <<k, t>>)
    BY <1>1
  <2>2. QED
    BY <2>1, FoundType
<1>3. DOMAIN changes = {at[t] : t \in TraitType}
  BY <1>1
<1>4. \A id \in DOMAIN changes :
        id[2] \in TraitType /\ id = at[id[2]] /\ id \in FoundAt(list, id[2], <<k, id[2]>>)
  BY <1>1, <1>2, <1>3
<1>5. \A t \in TraitType : at[t] \in DOMAIN changes
  BY <1>3
<1>6. ASSUME NEW id \in DOMAIN changes
      PROVE  changes[id].confidence =
               Surer(IF id \in DOMAIN list THEN list[id].confidence ELSE 30)
  <2> DEFINE before == TraitBefore(list, id)
  <2>1. changes[id] = ApplySignal(before, Signal(o, id[2]))
    BY <1>1, <1>3
  <2>2. before \in TraitOfType(id[2])
    BY PolicyType DEF TraitBefore, DefaultTraitState, Table, TraitOfType
  <2>3. before.confidence = IF id \in DOMAIN list THEN list[id].confidence ELSE 30
    BY DEF TraitBefore, DefaultTraitState
  <2> HIDE DEF before
  <2>4. changes[id].confidence = Surer(before.confidence)
    BY <2>1, <2>2 DEF ApplySignal, Surer, TraitOfType
  <2>5. QED
    BY <2>3, <2>4
<1>7. \A i, j \in DOMAIN changes : i[2] = j[2] => i = j
  BY <1>4, Zenon
<1>8. \A t \in TraitType : \E id \in DOMAIN changes : id[2] = t
  BY <1>2, <1>5
<1>9. QED
  BY <1>4, <1>6, <1>7, <1>8 DEF UniqueTypes

-----------------------------------------------------------------------------
(* Saves *)

Saves(a, id) == SaveTraitState(a, id) \/ SaveTraitStateFails(a, id)

(* What a save of id by a changes; the other agents have what they had.   *)
Effect(a, id) ==
  /\ id \in DOMAIN updated[a]
  /\ DOMAIN traits' = DOMAIN traits \union {id}
  /\ \A j \in DOMAIN traits' :
       traits'[j] = IF j = id THEN updated[a][id] ELSE traits[j]
  /\ DOMAIN saved'[a] = DOMAIN saved[a] \union {id}
  /\ \A j \in DOMAIN saved'[a] :
       saved'[a][j] = IF j = id THEN updated[a][id] ELSE saved[a][j]
  /\ \A b \in Agent \ {a} : saved'[b] = saved[b] /\ updated'[b] = updated[b]
  /\ DOMAIN updated'[a] \subseteq DOMAIN updated[a]
  /\ DOMAIN updated[a] \subseteq DOMAIN updated'[a] \union {id}
  /\ \A j \in DOMAIN updated'[a] : updated'[a][j] = updated[a][j]
  /\ UNCHANGED <<listed, outcomes, abandoned>>
  /\ raced' = (raced \/ traits # Expected(a))
  /\ Table(traits')

LEMMA SaveEffect ==
  ASSUME IInv, NEW a \in Agent, NEW id, Saves(a, id)
  PROVE  Effect(a, id)
<1>1. /\ SaveTrait(a, id)
      /\ UNCHANGED <<listed, outcomes, abandoned>>
      /\ \/ updated' = updated
         \/ updated' = [updated EXCEPT ![a] = [k \in DOMAIN updated[a] \ {id} |-> updated[a][k]]]
  BY DEF Saves, SaveTraitState, SaveTraitStateFails
<1>2. /\ id \in DOMAIN updated[a]
      /\ traits' = Put(traits, id, updated[a][id])
      /\ saved' = [saved EXCEPT ![a] = Put(saved[a], id, updated[a][id])]
      /\ raced' = (raced \/ traits # Expected(a))
  BY <1>1, Zenon DEF SaveTrait
<1>3. /\ DOMAIN traits' = DOMAIN traits \union {id}
      /\ \A j \in DOMAIN traits' :
           traits'[j] = IF j = id THEN updated[a][id] ELSE traits[j]
  BY <1>2 DEF Put
<1>4. /\ saved'[a] = Put(saved[a], id, updated[a][id])
      /\ \A b \in Agent \ {a} : saved'[b] = saved[b]
  BY <1>2 DEF IInv, TypeOK
<1>5. /\ DOMAIN saved'[a] = DOMAIN saved[a] \union {id}
      /\ \A j \in DOMAIN saved'[a] :
           saved'[a][j] = IF j = id THEN updated[a][id] ELSE saved[a][j]
  BY <1>4 DEF Put
<1>6. /\ \A b \in Agent \ {a} : updated'[b] = updated[b]
      /\ DOMAIN updated'[a] \subseteq DOMAIN updated[a]
      /\ DOMAIN updated[a] \subseteq DOMAIN updated'[a] \union {id}
      /\ \A j \in DOMAIN updated'[a] : updated'[a][j] = updated[a][j]
  BY <1>1 DEF IInv, TypeOK
<1>7. Table(traits')
  BY <1>1, SaveTraitKeeps
<1>8. QED
  BY <1>1, <1>2, <1>3, <1>4, <1>5, <1>6, <1>7 DEF Effect

LEMMA RowType ==
  ASSUME NEW table, Table(table), NEW id \in DOMAIN table
  PROVE  /\ id[2] \in TraitType
         /\ table[id].trait_type = id[2]
         /\ table[id].confidence \in 0..100
         /\ table[id].confidence \in Int
<1>1. /\ id[2] \in TraitType
      /\ table[id] \in [trait_type : {id[2]}, strength : 0..Whole, confidence : 0..100]
  BY DEF Table, TraitId
<1>2. table[id].trait_type = id[2] /\ table[id].confidence \in 0..100
  BY <1>1
<1>3. \A c \in 0..100 : c \in Int
  OBVIOUS
<1>4. QED
  BY <1>1, <1>2, <1>3

LEMMA ExpectedRows ==
  ASSUME NEW a \in Agent
  PROVE  /\ DOMAIN Expected(a) = DOMAIN listed[a] \union DOMAIN saved[a]
         /\ \A j \in DOMAIN Expected(a) :
              Expected(a)[j] = IF j \in DOMAIN saved[a] THEN saved[a][j] ELSE listed[a][j]
BY DEF Expected

LEMMA ExpectedConfidence ==
  ASSUME TypeOK, NEW a \in Agent, NEW j \in DOMAIN Expected(a)
  PROVE  Expected(a)[j].confidence \in Int
<1>1. Table(saved[a]) /\ Table(listed[a])
  BY DEF TypeOK
<1>2. CASE j \in DOMAIN saved[a]
  <2>1. saved[a][j].confidence \in Int
    BY <1>1, <1>2, RowType
  <2>2. Expected(a)[j] = saved[a][j]
    BY <1>2, ExpectedRows
  <2>3. QED
    BY <2>1, <2>2
<1>3. CASE j \notin DOMAIN saved[a]
  <2>1. j \in DOMAIN listed[a] /\ Expected(a)[j] = listed[a][j]
    BY <1>3, ExpectedRows
  <2>2. listed[a][j].confidence \in Int
    BY <1>1, <2>1, RowType
  <2>3. QED
    BY <2>1, <2>2
<1>4. QED
  BY <1>2, <1>3

(* A save that is no race goes over the table the agent expects: what it   *)
(* owes makes a row one outcome surer, what it repeats changes nothing.    *)
Unraced(a, id) ==
  /\ ~raced
  /\ DOMAIN traits = DOMAIN listed[a] \union DOMAIN saved[a]
  /\ \A j \in DOMAIN traits :
       traits[j] = IF j \in DOMAIN saved[a] THEN saved[a][j] ELSE listed[a][j]
  /\ id \notin Owed(a) => id \in DOMAIN traits /\ traits'[id] = traits[id]
  /\ id \in Owed(a) =>
       traits'[id].confidence =
         Surer(IF id \in DOMAIN traits THEN traits[id].confidence ELSE 30)
  /\ \A j \in DOMAIN traits : j # id => traits'[j] = traits[j]
  /\ \A j \in DOMAIN traits : traits[j].confidence <= traits'[j].confidence

LEMMA UnracedSave ==
  ASSUME IInv, CInv, NEW a \in Agent, NEW id, Effect(a, id), ~raced'
  PROVE  Unraced(a, id)
<1>1. ~raced /\ traits = Expected(a) /\ id \in DOMAIN updated[a]
  BY DEF Effect
<1>2. /\ DOMAIN traits = DOMAIN listed[a] \union DOMAIN saved[a]
      /\ \A j \in DOMAIN traits :
           traits[j] = IF j \in DOMAIN saved[a] THEN saved[a][j] ELSE listed[a][j]
  BY <1>1, ExpectedRows
<1>3. traits'[id] = updated[a][id]
  BY DEF Effect
<1>4. id \notin Owed(a) => id \in DOMAIN traits /\ traits'[id] = traits[id]
  BY <1>1, <1>2, <1>3 DEF CInv, Computed, Owed
<1>5. id \in Owed(a) =>
        traits'[id].confidence =
          Surer(IF id \in DOMAIN traits THEN traits[id].confidence ELSE 30)
  BY <1>1, <1>2, <1>3 DEF CInv, Computed, Owed
<1>6. \A j \in DOMAIN traits : j # id => traits'[j] = traits[j]
  BY DEF Effect
<1>7. ASSUME NEW j \in DOMAIN traits
      PROVE  traits[j].confidence <= traits'[j].confidence
  <2>1. traits[j].confidence \in 30..100
    <3>1. traits[j].confidence \in 30..Counted(outcomes)
      BY DEF CInv, InRange
    <3>2. outcomes \in Nat
      BY DEF IInv, TypeOK
    <3>3. Counted(outcomes) \in 30..100
      BY <3>2, CountedType
    <3>4. QED
      BY <3>1, <3>3
  <2>2. QED
    <3>1. CASE j # id \/ id \notin Owed(a)
      <4>1. traits'[j] = traits[j]
        BY <1>4, <1>6, <3>1
      <4>2. \A c \in 30..100 : c <= c
        OBVIOUS
      <4>3. QED
        BY <2>1, <4>1, <4>2, Zenon
    <3>2. CASE j = id /\ id \in Owed(a)
      <4>1. traits'[j].confidence = Surer(traits[j].confidence)
        BY <1>5, <3>2
      <4>2. ASSUME NEW c \in 30..100
            PROVE  c <= Surer(c)
        <5>1. Surer(c) \in c..100
          BY SurerBounds
        <5>2. QED
          BY <5>1
      <4>3. QED
        BY <2>1, <4>1, <4>2, Zenon
    <3>3. QED
      BY <3>1, <3>2
<1>8. QED
  BY <1>1, <1>2, <1>4, <1>5, <1>6, <1>7 DEF Unraced

LEMMA SaveKeepsRange ==
  ASSUME IInv, CInv, NEW a \in Agent, NEW id, Effect(a, id)
  PROVE  /\ InRange(traits', outcomes')
         /\ \A b \in Agent : InRange(updated'[b], outcomes') /\ Computed(b)'
<1>1. InRange(traits', outcomes')
  BY DEF Effect, CInv, InRange
<1>2. ASSUME NEW b \in Agent
      PROVE  InRange(updated'[b], outcomes') /\ Computed(b)'
  <2>1. CASE b = a
    <3>1. InRange(updated'[b], outcomes')
      BY <2>1 DEF Effect, CInv, InRange
    <3>2. Computed(b)'
      BY <2>1 DEF Effect, CInv, Computed
    <3>3. QED
      BY <3>1, <3>2
  <2>2. CASE b # a
    <3>1. /\ saved'[b] = saved[b]
          /\ updated'[b] = updated[b]
          /\ listed' = listed
          /\ outcomes' = outcomes
      BY <2>2 DEF Effect
    <3>2. QED
      BY <3>1 DEF CInv, InRange, Computed
  <2>3. QED
    BY <2>1, <2>2
<1>3. QED
  BY <1>1, <1>2

LEMMA SaveKeepsTypes ==
  ASSUME IInv, CInv, NEW a \in Agent, NEW id, Effect(a, id), Unraced(a, id)
  PROVE  /\ UniqueTypes(traits')
         /\ \A b \in Agent : Replacing(b)' /\ GoneOn(b)'
<1>1. ~raced /\ UniqueTypes(traits) /\ \A b \in Agent : Replacing(b) /\ GoneOn(b)
  BY DEF Unraced, CInv
<1>2. UniqueTypes(traits')
  <2>1. \A j \in DOMAIN traits : j[2] = id[2] => j = id
    BY <1>1 DEF Effect, Unraced, Replacing
  <2>2. QED
    BY <1>1, <2>1 DEF Effect, UniqueTypes
<1>3. ASSUME NEW b \in Agent \ {a} PROVE Replacing(b)' /\ GoneOn(b)'
  <2>1. /\ saved'[b] = saved[b]
        /\ updated'[b] = updated[b]
        /\ listed' = listed
    BY DEF Effect
  <2>2. Replacing(b)'
    BY <1>1, <2>1 DEF Replacing
  <2>3. Expected(b)' = Expected(b)
    BY <2>1 DEF Expected
  <2>4. DOMAIN Expected(b) \subseteq DOMAIN traits'
    BY <1>1 DEF Effect, GoneOn
  <2>5. ASSUME NEW j \in DOMAIN Expected(b)
        PROVE  Expected(b)[j].confidence <= traits'[j].confidence
    <3>1. j \in DOMAIN traits /\ Expected(b)[j].confidence <= traits[j].confidence
      BY <1>1 DEF GoneOn
    <3>2. traits[j].confidence <= traits'[j].confidence
      BY <3>1 DEF Unraced
    <3>3. traits[j].confidence \in Int /\ traits'[j].confidence \in Int
      <4>1. Table(traits') /\ j \in DOMAIN traits'
        BY <3>1 DEF Effect
      <4>2. QED
        BY <3>1, <4>1, RowType, Zenon DEF IInv, TypeOK
    <3>4. Expected(b)[j].confidence \in Int
      BY ExpectedConfidence DEF IInv
    <3>5. QED
      BY <3>1, <3>2, <3>3, <3>4
  <2>6. QED
    BY <2>2, <2>3, <2>4, <2>5 DEF GoneOn
<1>4. Replacing(a)'
  <2>1. UniqueTypes(updated'[a])
    BY <1>1 DEF Effect, Replacing, UniqueTypes
  <2>2. \A k \in DOMAIN updated'[a], j \in DOMAIN listed'[a] \union DOMAIN saved'[a] :
          j[2] = k[2] => j = k
    BY <1>1 DEF Effect, Replacing, UniqueTypes
  <2>3. QED
    BY <2>1, <2>2 DEF Replacing
<1>5. GoneOn(a)'
  <2>1. /\ DOMAIN Expected(a)' = DOMAIN traits'
        /\ \A j \in DOMAIN traits' : Expected(a)'[j] = traits'[j]
    <3>1. /\ DOMAIN Expected(a)' = DOMAIN listed'[a] \union DOMAIN saved'[a]
          /\ \A j \in DOMAIN Expected(a)' :
               Expected(a)'[j] = IF j \in DOMAIN saved'[a] THEN saved'[a][j] ELSE listed'[a][j]
      BY DEF Expected
    <3>2. DOMAIN Expected(a)' = DOMAIN traits'
      BY <3>1 DEF Effect, Unraced
    <3>3. ASSUME NEW j \in DOMAIN traits' PROVE Expected(a)'[j] = traits'[j]
      BY <3>1, <3>2 DEF Effect, Unraced
    <3>4. QED
      BY <3>2, <3>3
  <2>2. \A j \in DOMAIN traits' : traits'[j].confidence \in Int
    <3>1. Table(traits')
      BY DEF Effect
    <3>2. QED
      BY <3>1 DEF Table
  <2>3. QED
    BY <2>1, <2>2 DEF GoneOn
<1>6. QED
  BY <1>1, <1>2, <1>3, <1>4, <1>5

-----------------------------------------------------------------------------
(* A save in a world that is doomed or settled *)

LEMMA InRangeType ==
  ASSUME NEW table, NEW k \in Nat, InRange(table, k), NEW id \in DOMAIN table
  PROVE  /\ table[id].confidence \in 30..100
         /\ table[id].confidence \in Int
         /\ table[id].confidence <= Counted(k)
<1>1. table[id].confidence \in 30..Counted(k)
  BY DEF InRange
<1>2. \A c \in 30..Counted(k) : c \in 30..100 /\ c \in Int /\ c <= Counted(k)
  BY CountedType
<1>3. QED
  BY <1>1, <1>2, Zenon

LEMMA OwedAfter ==
  ASSUME NEW a \in Agent, NEW id, Effect(a, id)
  PROVE  /\ Owed(a)' = Owed(a) \ {id}
         /\ \A b \in Agent \ {a} : Owed(b)' = Owed(b)
BY DEF Effect, Owed

LEMMA OwingIsBusy ==
  ASSUME NEW a \in Agent, Owed(a) # {}
  PROVE  ~Idle(a)
<1>1. DOMAIN NoTraits = {}
  BY DEF NoTraits
<1>2. QED
  BY <1>1 DEF Owed, Idle

(* What confidences a save that is no race leaves behind. *)
LEMMA SaveTypes ==
  ASSUME IInv, CInv, NEW a \in Agent, NEW id, Effect(a, id), Unraced(a, id)
  PROVE  /\ \A j \in DOMAIN traits :
              /\ j \in DOMAIN traits'
              /\ traits[j].confidence \in 30..100
              /\ traits'[j].confidence \in Int
              /\ traits[j].confidence <= traits'[j].confidence
         /\ outcomes' = outcomes /\ outcomes \in Nat
<1>1. outcomes' = outcomes /\ outcomes \in Nat /\ InRange(traits, outcomes)
  BY DEF Effect, IInv, TypeOK, CInv
<1>2. ASSUME NEW j \in DOMAIN traits
      PROVE  /\ j \in DOMAIN traits'
             /\ traits[j].confidence \in 30..100
             /\ traits'[j].confidence \in Int
             /\ traits[j].confidence <= traits'[j].confidence
  <2>1. j \in DOMAIN traits' /\ Table(traits')
    BY DEF Effect
  <2>2. traits[j].confidence \in 30..100
    BY <1>1, InRangeType, Zenon
  <2>3. traits'[j].confidence \in Int
    BY <2>1, RowType, Zenon
  <2>4. traits[j].confidence <= traits'[j].confidence
    BY DEF Unraced
  <2>5. QED
    BY <2>1, <2>2, <2>3, <2>4
<1>3. QED
  BY <1>1, <1>2

LEMMA OthersGoStale ==
  ASSUME IInv, CInv, NEW a \in Agent, NEW id, Effect(a, id), Unraced(a, id),
         id \in Owed(a), Changes(traits, id),
         NEW b \in Agent \ {a}, ~Idle(b)
  PROVE  Stale(b)'
<1>1. /\ saved'[b] = saved[b]
      /\ updated'[b] = updated[b]
      /\ listed' = listed
      /\ id \in DOMAIN traits'
  BY DEF Effect
<1>2. Expected(b)' = Expected(b)
  BY <1>1 DEF Expected
<1>3. ASSUME id \in DOMAIN Expected(b)
      PROVE  Expected(b)[id].confidence < traits'[id].confidence
  <2>1. /\ id \in DOMAIN traits
        /\ Expected(b)[id].confidence <= traits[id].confidence
    BY <1>3 DEF Unraced, CInv, GoneOn
  <2>2. Expected(b)[id].confidence \in Int
    BY <1>3, ExpectedConfidence DEF IInv
  <2>3. /\ traits[id].confidence \in 30..100
        /\ traits'[id].confidence \in Int
        /\ traits[id].confidence <= traits'[id].confidence
    BY <2>1, SaveTypes
  <2>4. traits'[id].confidence # traits[id].confidence
    BY <2>1 DEF Changes, Unraced
  <2>5. QED
    BY <2>1, <2>2, <2>3, <2>4
<1>4. ~Idle(b)'
  BY <1>1 DEF Idle
<1>5. QED
  BY <1>1, <1>2, <1>3, <1>4 DEF Stale

LEMMA StaysStale ==
  ASSUME IInv, CInv, NEW a \in Agent, NEW id, Effect(a, id), Unraced(a, id),
         NEW b \in Agent, Stale(b)
  PROVE  Stale(b)'
<1>1. PICK j \in DOMAIN traits :
        j \in DOMAIN Expected(b) => Expected(b)[j].confidence < traits[j].confidence
  BY DEF Stale
<1>2. traits[j].confidence \in 30..100
  BY SaveTypes
<1>3. b # a
  <2> SUFFICES ASSUME b = a PROVE FALSE
    OBVIOUS
  <2>1. j \in DOMAIN Expected(a) /\ Expected(a)[j] = traits[j]
    BY ExpectedRows DEF Unraced
  <2>2. traits[j].confidence < traits[j].confidence
    BY <1>1, <2>1
  <2>3. QED
    BY <1>2, <2>2
<1>4. /\ saved'[b] = saved[b]
      /\ updated'[b] = updated[b]
      /\ listed' = listed
  BY <1>3 DEF Effect
<1>5. Expected(b)' = Expected(b)
  BY <1>4 DEF Expected
<1>6. ASSUME j \in DOMAIN Expected(b)
      PROVE  Expected(b)[j].confidence < traits'[j].confidence
  <2>1. Expected(b)[j].confidence \in Int
    BY <1>6, ExpectedConfidence DEF IInv
  <2>2. traits'[j].confidence \in Int /\ traits[j].confidence <= traits'[j].confidence
    BY SaveTypes
  <2>3. QED
    BY <1>1, <1>2, <1>6, <2>1, <2>2
<1>7. j \in DOMAIN traits' /\ ~Idle(b)'
  BY <1>4, SaveTypes DEF Stale, Idle
<1>8. QED
  BY <1>5, <1>6, <1>7 DEF Stale

LEMMA SaveStaysDoomed ==
  ASSUME IInv, CInv, NEW a \in Agent, NEW id, Effect(a, id), Unraced(a, id), Doomed
  PROVE  Doomed'
<1>1. CASE \E b \in Agent : Stale(b)
  BY <1>1, StaysStale DEF Doomed
<1>2. CASE \E b, c \in Agent : b # c /\ Changing(b) /\ Changing(c)
  <2>1. PICK b \in Agent, c \in Agent : b # c /\ Changing(b) /\ Changing(c)
    BY <1>2
  <2>2. CASE id \in Owed(a) /\ Changes(traits, id)
    <3>1. PICK d \in Agent \ {a} : Changing(d)
      BY <2>1
    <3>2. ~Idle(d)
      BY <3>1, OwingIsBusy DEF Changing
    <3>3. QED
      BY <2>2, <3>2, OthersGoStale DEF Doomed
  <2>3. CASE ~(id \in Owed(a) /\ Changes(traits, id))
    <3>1. ASSUME NEW d \in Agent, Changing(d) PROVE Changing(d)'
      <4>1. PICK i \in Owed(d) : Changes(traits, i)
        BY <3>1 DEF Changing
      <4>2. i \in Owed(d)'
        BY <2>3, <4>1, OwedAfter
      <4>3. Changes(traits', i)
        <5>1. CASE i = id
          <6>1. id \notin Owed(a)
            BY <2>3, <4>1, <5>1
          <6>2. id \in DOMAIN traits /\ traits'[id] = traits[id]
            BY <6>1 DEF Unraced
          <6>3. QED
            BY <4>1, <5>1, <6>2 DEF Changes
        <5>2. CASE i # id
          <6>1. i \in DOMAIN traits' => i \in DOMAIN traits /\ traits'[i] = traits[i]
            BY <5>2 DEF Effect
          <6>2. QED
            BY <4>1, <6>1 DEF Changes
        <5>3. QED
          BY <5>1, <5>2
      <4>4. QED
        BY <4>2, <4>3 DEF Changing
    <3>2. QED
      BY <2>1, <3>1 DEF Doomed
  <2>4. QED
    BY <2>2, <2>3
<1>3. QED
  BY <1>1, <1>2 DEF Doomed

LEMMA CountsOneMore ==
  ASSUME NEW k \in Nat, k # 0, NEW c \in 30..100, c >= Counted(k - 1)
  PROVE  Surer(c) >= Counted(k)
<1>1. k - 1 \in Nat /\ (k - 1) + 1 = k
  OBVIOUS
<1>2. Counted(k) = Surer(Counted(k - 1)) /\ Counted(k - 1) \in 30..100
  BY <1>1, CountedType
<1>3. Surer(Counted(k - 1)) <= Surer(c)
  BY <1>2, SurerOrdered
<1>4. Surer(c) \in Int /\ Counted(k) \in Int
  BY SurerBounds, CountedType
<1>5. QED
  BY <1>2, <1>3, <1>4

LEMMA SaveStaysSettled ==
  ASSUME IInv, CInv, NEW a \in Agent, NEW id, Effect(a, id), Unraced(a, id), Settled
  PROVE  Settled'
<1>0. /\ outcomes \in Nat /\ outcomes' = outcomes
      /\ DOMAIN traits' = DOMAIN traits \union {id}
      /\ Replacing(a)
      /\ id \in DOMAIN updated[a]
      /\ Counted(outcomes) \in Int
  BY SaveTypes, CountedType DEF Effect, Unraced, CInv
<1>1. ASSUME NEW j \in DOMAIN traits', j # id PROVE CountsAll(j)'
  <2>1. CountsAll(j) /\ traits'[j] = traits[j]
    BY <1>0, <1>1 DEF Settled, Unraced
  <2>2. \A b \in Agent : j \in Owed(b) => j \in Owed(b)'
    BY <1>1, OwedAfter
  <2>3. QED
    BY <1>0, <2>1, <2>2 DEF CountsAll
<1>2. CASE id \notin Owed(a)
  <2>1. id \in DOMAIN traits /\ traits'[id] = traits[id] /\ CountsAll(id)
    BY <1>2 DEF Unraced, Settled
  <2>2. \A b \in Agent : id \in Owed(b) => id \in Owed(b)'
    BY <1>2, OwedAfter
  <2>3. CountsAll(id)'
    BY <1>0, <2>1, <2>2 DEF CountsAll
  <2>4. QED
    <3>1. ASSUME NEW t \in TraitType PROVE Present(t)'
      <4>1. Present(t)
        BY DEF Settled
      <4>2. \A j \in DOMAIN traits : j \in DOMAIN traits' /\ traits'[j] = traits[j]
        BY <2>1 DEF Effect
      <4>3. OfType(traits, t) \subseteq OfType(traits', t)
        BY <4>2 DEF OfType
      <4>4. \A b \in Agent : Owed(b)' = Owed(b)
        BY <1>2, OwedAfter
      <4>5. QED
        BY <1>0, <4>1, <4>3, <4>4 DEF Present
    <3>2. QED
      BY <1>0, <1>1, <2>3, <3>1 DEF Settled
<1>3. CASE id \in Owed(a)
  <2>1. traits'[id].confidence =
          Surer(IF id \in DOMAIN traits THEN traits[id].confidence ELSE 30)
    BY <1>3 DEF Unraced
  <2>2. CountsAll(id)'
    <3>1. CASE id \in DOMAIN traits
      <4>1. traits[id].confidence \in 30..100
        BY <3>1, SaveTypes
      <4>2. traits'[id].confidence = Surer(traits[id].confidence)
        BY <2>1, <3>1
      <4>3. CountsAll(id)
        BY <3>1 DEF Settled
      <4>4. Surer(traits[id].confidence) >= Counted(outcomes)
        <5>1. CASE traits[id].confidence >= Counted(outcomes)
          <6>1. \A c \in 30..100 : c >= Counted(outcomes) => Surer(c) >= Counted(outcomes)
            BY <1>0, SurerBounds
          <6>2. QED
            BY <4>1, <5>1, <6>1, Zenon
        <5>2. CASE outcomes # 0 /\ traits[id].confidence >= Counted(outcomes - 1)
          BY <1>0, <4>1, <5>2, CountsOneMore
        <5>3. QED
          BY <4>3, <5>1, <5>2 DEF CountsAll
      <4>5. QED
        BY <1>0, <4>2, <4>4 DEF CountsAll
    <3>2. CASE id \notin DOMAIN traits
      <4>1. id[2] \in TraitType
        BY <1>0, RowType DEF IInv, TypeOK
      <4>2. OfType(traits, id[2]) = {}
        <5> SUFFICES ASSUME NEW z \in OfType(traits, id[2]) PROVE FALSE
          OBVIOUS
        <5>1. z \in DOMAIN traits /\ traits[z].trait_type = id[2]
          BY DEF OfType
        <5>2. z[2] = id[2]
          BY <5>1, RowType DEF IInv, TypeOK
        <5>3. z \in DOMAIN listed[a] \union DOMAIN saved[a]
          BY <5>1 DEF Unraced
        <5>4. QED
          BY <1>0, <3>2, <5>1, <5>2, <5>3 DEF Replacing
      <4>3. outcomes \in {0, 1}
        BY <4>1, <4>2 DEF Settled, Present
      <4>4. traits'[id].confidence = Surer(30)
        BY <2>1, <3>2
      <4>5. Counted(0) = 30
        <5>1. 0 * ConfidenceIncrement = 0
          BY PolicyType, SMT
        <5>2. QED
          BY <5>1 DEF Counted, Clamp
      <4>6. Surer(30) >= Counted(outcomes)
        <5>1. CASE outcomes = 0
          BY <4>5, <5>1, SurerBounds
        <5>2. CASE outcomes = 1
          <6>1. 1 - 1 = 0
            OBVIOUS
          <6>2. 30 >= Counted(1 - 1)
            BY <4>5, <6>1
          <6>3. QED
            BY <5>2, <6>2, CountsOneMore
        <5>3. QED
          BY <4>3, <5>1, <5>2
      <4>7. QED
        BY <1>0, <4>4, <4>6 DEF CountsAll
    <3>3. QED
      BY <3>1, <3>2
  <2>3. ASSUME NEW t \in TraitType PROVE Present(t)'
    <3>1. Present(t)
      BY DEF Settled
    <3>2. \A j \in DOMAIN traits' : traits'[j].trait_type = j[2]
      BY RowType DEF Effect
    <3>3. \A j \in DOMAIN traits : traits[j].trait_type = j[2]
      BY RowType DEF IInv, TypeOK
    <3>4. OfType(traits, t) \subseteq OfType(traits', t)
      BY <1>0, <3>2, <3>3 DEF OfType
    <3>5. id[2] = t => OfType(traits', t) # {}
      BY <1>0, <3>2 DEF OfType
    <3>6. \A b \in Agent : \A i \in Owed(b) : i # id => i \in Owed(b)'
      BY OwedAfter
    <3>7. QED
      BY <1>0, <3>1, <3>4, <3>5, <3>6 DEF Present
  <2>4. QED
    BY <1>0, <1>1, <2>2, <2>3 DEF Settled
<1>4. QED
  BY <1>2, <1>3

LEMMA SaveKeepsCounts ==
  ASSUME IInv, CInv, NEW a \in Agent, NEW id, Saves(a, id)
  PROVE  CInv'
<1>1. Effect(a, id)
  BY SaveEffect
<1>2. /\ InRange(traits', outcomes')
      /\ \A b \in Agent : InRange(updated'[b], outcomes') /\ Computed(b)'
  BY <1>1, SaveKeepsRange
<1>3. ASSUME ~raced'
      PROVE  /\ UniqueTypes(traits')
             /\ \A b \in Agent : Replacing(b)' /\ GoneOn(b)'
             /\ ~abandoned' => (Doomed \/ Settled)'
  <2>1. Unraced(a, id)
    BY <1>1, <1>3, UnracedSave
  <2>2. /\ UniqueTypes(traits')
        /\ \A b \in Agent : Replacing(b)' /\ GoneOn(b)'
    BY <1>1, <2>1, SaveKeepsTypes
  <2>3. ASSUME ~abandoned' PROVE (Doomed \/ Settled)'
    <3>1. Doomed \/ Settled
      BY <1>1, <2>1, <2>3 DEF CInv, Effect, Unraced
    <3>2. QED
      BY <1>1, <2>1, <3>1, SaveStaysDoomed, SaveStaysSettled
  <2>4. QED
    BY <2>2, <2>3
<1>4. QED
  BY <1>2, <1>3 DEF CInv

-----------------------------------------------------------------------------
(* Reports *)

(* What a report that computes these changes does; k is the count it makes.*)
Reports(a, changes, k) ==
  /\ Idle(a)
  /\ updated'[a] = changes
  /\ saved'[a] = NoTraits
  /\ listed'[a] = traits
  /\ \A b \in Agent \ {a} :
       updated'[b] = updated[b] /\ saved'[b] = saved[b] /\ listed'[b] = listed[b]
  /\ outcomes' = k
  /\ UNCHANGED <<traits, abandoned, raced>>

(* The changes of a validated outcome, over the table. *)
Sound(changes, k) ==
  /\ \A t \in TraitType : \E id \in DOMAIN changes : id[2] = t
  /\ UniqueTypes(changes)
  /\ \A id \in DOMAIN changes :
       /\ id[2] \in TraitType
       /\ id \in FoundAt(traits, id[2], <<k, id[2]>>)
       /\ changes[id].confidence =
            Surer(IF id \in DOMAIN traits THEN traits[id].confidence ELSE 30)

LEMMA ReportEffect ==
  ASSUME IInv, NEW a \in Agent, NEW o \in Outcome, Report(a, o)
  PROVE  \E changes :
           \/ Reports(a, changes, outcomes) /\ DOMAIN changes = {}
           \/ Reports(a, changes, outcomes + 1) /\ Sound(changes, outcomes + 1)
<1>0. TypeOK /\ Table(traits) /\ outcomes + 1 \in Nat
  BY DEF IInv, TypeOK
<1>1. PICK changes \in RecordOutcome(traits, o, outcomes + 1) :
        updated' = [updated EXCEPT ![a] = changes]
  BY DEF Report
<1>2. /\ Idle(a)
      /\ listed' = [listed EXCEPT ![a] = traits]
      /\ saved' = [saved EXCEPT ![a] = NoTraits]
      /\ outcomes' = IF o.validated THEN outcomes + 1 ELSE outcomes
      /\ UNCHANGED <<traits, abandoned, raced>>
  BY DEF Report
<1>3. Reports(a, changes, IF o.validated THEN outcomes + 1 ELSE outcomes)
  BY <1>0, <1>1, <1>2 DEF Reports, TypeOK
<1>4. CASE o.validated
  <2>1. Sound(changes, outcomes + 1)
    BY <1>0, <1>4, RecordedOfEachType DEF Sound
  <2>2. QED
    BY <1>3, <1>4, <2>1
<1>5. CASE ~o.validated
  <2>1. DOMAIN changes = {}
    BY <1>0, <1>5, RecordOutcomeChanges
  <2>2. QED
    BY <1>3, <1>5, <2>1
<1>6. QED
  BY <1>4, <1>5

LEMMA MoreInRange ==
  ASSUME NEW table, NEW k \in Nat, InRange(table, k)
  PROVE  InRange(table, k + 1)
<1>1. Counted(k) \in Int /\ Counted(k + 1) \in Int /\ Counted(k) <= Counted(k + 1)
  BY CountedType
<1>2. \A c \in 30..Counted(k) : c \in 30..Counted(k + 1)
  BY <1>1
<1>3. QED
  BY <1>2 DEF InRange

LEMMA OwedReported ==
  ASSUME NEW a \in Agent, NEW changes, NEW k, Reports(a, changes, k)
  PROVE  /\ Owed(a) = {}
         /\ Owed(a)' = DOMAIN changes
         /\ \A b \in Agent \ {a} :
              Owed(b)' = Owed(b) /\ Expected(b)' = Expected(b) /\ Idle(b)' = Idle(b)
<1>1. DOMAIN NoTraits = {}
  BY DEF NoTraits
<1>2. QED
  BY <1>1 DEF Reports, Owed, Expected, Idle

(* Whatever was reported, the other agents are where they were, and the    *)
(* one that reports knows the table.                                       *)
LEMMA ReportKeepsOthers ==
  ASSUME IInv, CInv, NEW a \in Agent, NEW changes, NEW k, Reports(a, changes, k)
  PROVE  /\ Doomed => Doomed'
         /\ \A b \in Agent \ {a} : Computed(b)'
         /\ ~raced => /\ UniqueTypes(traits')
                      /\ \A b \in Agent : GoneOn(b)'
                      /\ \A b \in Agent \ {a} : Replacing(b)'
<1>1. traits' = traits
  BY DEF Reports
<1>2. Doomed => Doomed'
  <2>1. ASSUME NEW b \in Agent, Stale(b) PROVE Stale(b)'
    <3>1. b # a
      BY <2>1 DEF Stale, Reports
    <3>2. QED
      BY <1>1, <2>1, <3>1, OwedReported DEF Stale
  <2>2. ASSUME NEW b \in Agent, Changing(b) PROVE Changing(b)'
    <3>1. b # a
      BY <2>2, OwedReported DEF Changing
    <3>2. QED
      BY <1>1, <2>2, <3>1, OwedReported DEF Changing, Changes
  <2>3. QED
    BY <2>1, <2>2 DEF Doomed
<1>3. \A b \in Agent \ {a} : Computed(b)'
  BY DEF Reports, CInv, Computed
<1>4. ASSUME ~raced PROVE UniqueTypes(traits')
  BY <1>1, <1>4 DEF CInv
<1>5. ASSUME ~raced, NEW b \in Agent \ {a} PROVE Replacing(b)' /\ GoneOn(b)'
  <2>1. Replacing(b) /\ GoneOn(b)
    BY <1>5 DEF CInv
  <2>2. Replacing(b)'
    BY <2>1 DEF Reports, Replacing
  <2>3. GoneOn(b)'
    BY <1>1, <2>1, OwedReported DEF GoneOn
  <2>4. QED
    BY <2>2, <2>3
<1>6. GoneOn(a)'
  <2>1. DOMAIN saved'[a] = {} /\ listed'[a] = traits
    BY DEF Reports, NoTraits
  <2>2. /\ DOMAIN Expected(a)' = DOMAIN traits
        /\ \A j \in DOMAIN traits : Expected(a)'[j] = traits[j]
    BY <2>1 DEF Expected
  <2>3. \A j \in DOMAIN traits : traits[j].confidence <= traits[j].confidence
    <3>1. \A c \in 0..100 : c <= c
      OBVIOUS
    <3>2. QED
      BY <3>1, RowType, Zenon DEF IInv, TypeOK
  <2>4. QED
    BY <1>1, <2>2, <2>3 DEF GoneOn
<1>7. QED
  BY <1>2, <1>3, <1>4, <1>5, <1>6

LEMMA EmptyReportKeepsCounts ==
  ASSUME IInv, CInv, NEW a \in Agent, NEW changes,
         Reports(a, changes, outcomes), DOMAIN changes = {}
  PROVE  CInv'
<1>1. /\ traits' = traits /\ outcomes' = outcomes
      /\ raced' = raced /\ abandoned' = abandoned
      /\ updated'[a] = changes
      /\ \A b \in Agent \ {a} : updated'[b] = updated[b]
  BY DEF Reports
<1>2. InRange(changes, outcomes) /\ Computed(a)' /\ Replacing(a)'
  BY <1>1 DEF InRange, Computed, Replacing, UniqueTypes
<1>3. \A b \in Agent : InRange(updated'[b], outcomes') /\ Computed(b)'
  <2> SUFFICES ASSUME NEW b \in Agent PROVE InRange(updated'[b], outcomes') /\ Computed(b)'
    OBVIOUS
  <2>1. CASE b = a
    BY <1>1, <1>2, <2>1
  <2>2. CASE b # a
    BY <1>1, <2>2, ReportKeepsOthers DEF CInv
  <2>3. QED
    BY <2>1, <2>2
<1>4. ~raced => UniqueTypes(traits') /\ \A b \in Agent : Replacing(b)' /\ GoneOn(b)'
  BY <1>2, ReportKeepsOthers
<1>5. Settled => Settled'
  <2>1. \A b \in Agent : Owed(b)' = Owed(b)
    BY OwedReported
  <2>2. QED
    BY <1>1, <2>1 DEF Settled, CountsAll, Present
<1>6. ~raced /\ ~abandoned => (Doomed \/ Settled)'
  BY <1>5, ReportKeepsOthers DEF CInv
<1>7. InRange(traits', outcomes')
  BY <1>1 DEF CInv
<1>8. QED
  BY <1>1, <1>3, <1>4, <1>6, <1>7 DEF CInv

(* An agent that changes the table, and another that lists it now and will *)
(* change it too.                                                          *)
LEMMA TwoChange ==
  ASSUME IInv, CInv, ~raced, ~Doomed,
         NEW a \in Agent, NEW changes, NEW k, Reports(a, changes, k), Sound(changes, k),
         NEW b \in Agent, Changing(b)
  PROVE  Doomed'
<1>1. b # a
  BY OwedReported DEF Changing
<1>2. PICK y \in Owed(b) : Changes(traits, y)
  BY DEF Changing
<1>3. y \in DOMAIN updated[b] /\ y[2] \in TraitType
  BY <1>2, RowType DEF Owed, IInv, TypeOK
<1>4. PICK id \in DOMAIN changes : id[2] = y[2]
  BY <1>3 DEF Sound
<1>5. id \in FoundAt(traits, y[2], <<k, y[2]>>)
  BY <1>4 DEF Sound
<1>6. \A j \in DOMAIN traits : traits[j].trait_type = j[2]
  BY RowType DEF IInv, TypeOK
<1>7. Changes(traits, id)
  <2>1. CASE y \in DOMAIN traits
    <3>1. y \in OfType(traits, y[2])
      BY <1>6, <2>1 DEF OfType
    <3>2. id \in DOMAIN traits
      BY <1>5, <3>1 DEF FoundAt, OfType
    <3>3. id = y
      BY <1>4, <2>1, <3>2 DEF CInv, UniqueTypes
    <3>4. QED
      BY <1>2, <3>3
  <2>2. CASE y \notin DOMAIN traits
    <3>1. id \notin DOMAIN traits
      <4> SUFFICES ASSUME id \in DOMAIN traits PROVE FALSE
        OBVIOUS
      <4>1. id # y
        BY <2>2
      <4>2. Replacing(b)
        BY DEF CInv
      <4>3. id \notin DOMAIN Expected(b)
        BY <1>3, <1>4, <4>1, <4>2, ExpectedRows DEF Replacing
      <4>4. Stale(b)
        BY <1>2, <4>3, OwingIsBusy DEF Stale
      <4>5. QED
        BY <4>4 DEF Doomed
    <3>2. QED
      BY <3>1 DEF Changes
  <2>3. QED
    BY <2>1, <2>2
<1>8. Changing(a)' /\ Changing(b)'
  <2>1. traits' = traits
    BY DEF Reports
  <2>2. id \in Owed(a)' /\ y \in Owed(b)'
    BY <1>1, <1>2, <1>4, OwedReported
  <2>3. Changes(traits', id) /\ Changes(traits', y)
    BY <1>2, <1>7, <2>1
  <2>4. QED
    BY <2>2, <2>3 DEF Changing
<1>9. QED
  BY <1>1, <1>8 DEF Doomed

LEMMA ReportSettles ==
  ASSUME IInv, CInv, ~raced, Settled, \A b \in Agent : ~Changing(b),
         NEW a \in Agent, NEW changes,
         Reports(a, changes, outcomes + 1), Sound(changes, outcomes + 1)
  PROVE  Settled'
<1>0. /\ outcomes \in Nat
      /\ outcomes' = outcomes + 1
      /\ outcomes' # 0
      /\ outcomes' - 1 = outcomes
      /\ traits' = traits
  BY DEF IInv, TypeOK, Reports
<1>1. Owed(a)' = DOMAIN changes
  BY OwedReported
<1>2. \A j \in DOMAIN traits : traits[j].trait_type = j[2] /\ j[2] \in TraitType
  BY RowType DEF IInv, TypeOK
<1>3. ASSUME NEW j \in DOMAIN traits PROVE CountsAll(j)'
  <2>1. traits[j].confidence >= Counted(outcomes)
    <3>1. CASE \E b \in Agent : j \in Owed(b)
      <4>1. Surer(traits[j].confidence) = traits[j].confidence
        BY <3>1 DEF Changing, Changes
      <4>2. traits[j].confidence \in 30..100
        BY <1>0, InRangeType DEF CInv
      <4>3. QED
        BY <1>0, <4>1, <4>2, FullCounts
    <3>2. CASE ~(\E b \in Agent : j \in Owed(b))
      BY <3>2 DEF Settled, CountsAll
    <3>3. QED
      BY <3>1, <3>2
  <2>2. j \in DOMAIN changes
    <3>1. PICK id \in DOMAIN changes : id[2] = j[2]
      BY <1>2 DEF Sound
    <3>2. id \in FoundAt(traits, j[2], <<outcomes + 1, j[2]>>)
      BY <3>1 DEF Sound
    <3>3. j \in OfType(traits, j[2])
      BY <1>2 DEF OfType
    <3>4. id \in DOMAIN traits
      BY <3>2, <3>3 DEF FoundAt, OfType
    <3>5. id = j
      BY <3>1, <3>4 DEF CInv, UniqueTypes
    <3>6. QED
      BY <3>5
  <2>3. QED
    BY <1>0, <1>1, <2>1, <2>2 DEF CountsAll
<1>4. ASSUME NEW t \in TraitType PROVE Present(t)'
  <2>1. CASE OfType(traits, t) # {}
    BY <1>0, <2>1 DEF Present
  <2>2. CASE outcomes = 0
    <3>1. \E id \in DOMAIN changes : id[2] = t
      BY DEF Sound
    <3>2. QED
      BY <1>0, <1>1, <2>2, <3>1 DEF Present
  <2>3. CASE \E b \in Agent : \E id \in Owed(b) : id[2] = t
    <3>1. PICK b \in Agent : \E id \in Owed(b) : id[2] = t
      BY <2>3
    <3>2. PICK id \in Owed(b) : id[2] = t
      BY <3>1
    <3>3. id \in DOMAIN traits
      BY <3>2 DEF Changing, Changes
    <3>4. id \in OfType(traits, t)
      BY <1>2, <3>2, <3>3 DEF OfType
    <3>5. QED
      BY <2>1, <3>4
  <2>4. QED
    BY <2>1, <2>2, <2>3 DEF Settled, Present
<1>5. QED
  BY <1>0, <1>3, <1>4 DEF Settled

LEMMA SoundReportKeepsCounts ==
  ASSUME IInv, CInv, NEW a \in Agent, NEW changes,
         Reports(a, changes, outcomes + 1), Sound(changes, outcomes + 1)
  PROVE  CInv'
<1>1. /\ traits' = traits /\ outcomes' = outcomes + 1 /\ outcomes \in Nat
      /\ raced' = raced /\ abandoned' = abandoned
      /\ updated'[a] = changes /\ listed'[a] = traits /\ DOMAIN saved'[a] = {}
      /\ \A b \in Agent \ {a} : updated'[b] = updated[b]
  BY DEF Reports, NoTraits, IInv, TypeOK
<1>2. InRange(traits', outcomes')
  BY <1>1, MoreInRange DEF CInv
<1>3. InRange(changes, outcomes + 1)
  <2> SUFFICES ASSUME NEW id \in DOMAIN changes
               PROVE  changes[id].confidence \in 30..Counted(outcomes + 1)
    BY DEF InRange
  <2> DEFINE before == IF id \in DOMAIN traits THEN traits[id].confidence ELSE 30
  <2>1. before \in 30..100 /\ before <= Counted(outcomes)
    BY <1>1, InRangeType, CountedType DEF CInv
  <2>2. changes[id].confidence = Surer(before)
    BY DEF Sound
  <2> HIDE DEF before
  <2>3. /\ Counted(outcomes) \in 30..100
        /\ Counted(outcomes + 1) = Surer(Counted(outcomes))
    BY <1>1, CountedType
  <2>4. Surer(before) <= Surer(Counted(outcomes))
    BY <2>1, <2>3, SurerOrdered
  <2>5. Surer(before) \in 30..100 /\ Counted(outcomes + 1) \in 30..100
    BY <1>1, <2>1, <2>3, SurerBounds
  <2>6. QED
    BY <2>2, <2>3, <2>4, <2>5
<1>4. Computed(a)'
  BY <1>1 DEF Computed, Sound
<1>5. \A b \in Agent : InRange(updated'[b], outcomes') /\ Computed(b)'
  <2> SUFFICES ASSUME NEW b \in Agent PROVE InRange(updated'[b], outcomes') /\ Computed(b)'
    OBVIOUS
  <2>1. CASE b = a
    BY <1>1, <1>3, <1>4, <2>1
  <2>2. CASE b # a
    BY <1>1, <2>2, ReportKeepsOthers, MoreInRange DEF CInv
  <2>3. QED
    BY <2>1, <2>2
<1>6. ASSUME ~raced PROVE Replacing(a)'
  <2>1. \A j \in DOMAIN traits : traits[j].trait_type = j[2]
    BY RowType DEF IInv, TypeOK
  <2>2. ASSUME NEW id \in DOMAIN changes, NEW j \in DOMAIN traits, j[2] = id[2]
        PROVE  j = id
    <3>1. j \in OfType(traits, id[2])
      BY <2>1, <2>2 DEF OfType
    <3>2. id \in DOMAIN traits
      BY <3>1 DEF Sound, FoundAt, OfType
    <3>3. QED
      BY <1>6, <2>2, <3>2 DEF CInv, UniqueTypes
  <2>3. QED
    BY <1>1, <2>2 DEF Replacing, Sound
<1>7. ~raced => UniqueTypes(traits') /\ \A b \in Agent : Replacing(b)' /\ GoneOn(b)'
  BY <1>6, ReportKeepsOthers
<1>8. ASSUME ~raced, ~abandoned PROVE (Doomed \/ Settled)'
  <2>1. CASE Doomed
    BY <2>1, ReportKeepsOthers
  <2>2. CASE ~Doomed /\ \E b \in Agent : Changing(b)
    BY <1>8, <2>2, TwoChange
  <2>3. CASE ~Doomed /\ ~\E b \in Agent : Changing(b)
    BY <1>8, <2>3, ReportSettles DEF CInv
  <2>4. QED
    BY <2>1, <2>2, <2>3
<1>9. QED
  BY <1>1, <1>2, <1>5, <1>7, <1>8 DEF CInv

LEMMA GiveUpKeepsCounts ==
  ASSUME IInv, CInv, NEW a \in Agent, GiveUp(a)
  PROVE  CInv'
<1>1. /\ UNCHANGED <<traits, saved, listed, outcomes, raced>>
      /\ abandoned'
      /\ \A b \in Agent : updated'[b] = IF b = a THEN NoTraits ELSE updated[b]
  BY DEF GiveUp, IInv, TypeOK
<1>2. DOMAIN NoTraits = {}
  BY DEF NoTraits
<1>3. ASSUME NEW b \in Agent
      PROVE  /\ InRange(updated'[b], outcomes') /\ Computed(b)'
             /\ ~raced => Replacing(b)' /\ GoneOn(b)'
  <2>1. GoneOn(b)' = GoneOn(b)
    BY <1>1 DEF GoneOn, Expected
  <2>2. CASE b = a
    <3>1. DOMAIN updated'[b] = {}
      BY <1>1, <1>2, <2>2
    <3>2. QED
      BY <2>1, <3>1 DEF InRange, Computed, Replacing, UniqueTypes, CInv
  <2>3. CASE b # a
    <3>1. updated'[b] = updated[b]
      BY <1>1, <2>3
    <3>2. QED
      BY <1>1, <2>1, <3>1 DEF InRange, Computed, Replacing, CInv
  <2>4. QED
    BY <2>2, <2>3
<1>4. QED
  BY <1>1, <1>3 DEF CInv

LEMMA CountsKept == IInv /\ CInv /\ [Next]_vars => CInv'
<1> SUFFICES ASSUME IInv, CInv, [Next]_vars PROVE CInv'
  OBVIOUS
<1>1. ASSUME NEW a \in Agent, NEW o \in Outcome, Report(a, o) PROVE CInv'
  BY <1>1, ReportEffect, EmptyReportKeepsCounts, SoundReportKeepsCounts
<1>2. ASSUME NEW a \in Agent, NEW id, Saves(a, id) PROVE CInv'
  BY <1>2, SaveKeepsCounts
<1>3. ASSUME NEW a \in Agent, GiveUp(a) PROVE CInv'
  BY <1>3, GiveUpKeepsCounts
<1>4. CASE UNCHANGED vars
  <2>1. UNCHANGED <<traits, updated, saved, listed, outcomes, abandoned, raced>>
    BY <1>4 DEF vars
  <2>2. /\ \A a \in Agent : /\ Computed(a)' = Computed(a)
                            /\ Replacing(a)' = Replacing(a)
                            /\ GoneOn(a)' = GoneOn(a)
        /\ Doomed' = Doomed
        /\ Settled' = Settled
    BY <2>1 DEF Computed, Replacing, GoneOn, Doomed, Stale, Changing, Idle, Owed, Expected,
                Settled, CountsAll, Present
  <2>3. QED
    BY <2>1, <2>2 DEF CInv
<1>5. QED
  BY <1>1, <1>2, <1>3, <1>4 DEF Next, Saves

LEMMA InitCounts == Init => CInv
<1> SUFFICES ASSUME Init PROVE CInv
  OBVIOUS
<1>1. /\ DOMAIN traits = {} /\ outcomes = 0
      /\ \A a \in Agent : DOMAIN updated[a] = {} /\ DOMAIN saved[a] = {} /\ DOMAIN listed[a] = {}
  BY DEF Init, NoTraits
<1>2. InRange(traits, outcomes) /\ UniqueTypes(traits) /\ Settled
  BY <1>1 DEF InRange, UniqueTypes, Settled, Present
<1>3. ASSUME NEW a \in Agent
      PROVE  InRange(updated[a], outcomes) /\ Computed(a) /\ Replacing(a) /\ GoneOn(a)
  BY <1>1, <1>3, ExpectedRows DEF InRange, Computed, Replacing, UniqueTypes, GoneOn
<1>4. QED
  BY <1>2, <1>3 DEF CInv

LEMMA CountsInvariant == Spec => [](IInv /\ CInv)
BY Invariant, InitCounts, CountsKept, PTL DEF Spec

(* No agent makes a second trait of a type unless a save went over a table *)
(* that had changed since it was listed.                                   *)
THEOREM TypesStaySingle == Spec => []OneTraitPerTypeUnlessRaced
<1>1. IInv /\ CInv => OneTraitPerTypeUnlessRaced
  <2> SUFFICES ASSUME IInv, CInv, ~raced, NEW t \in TraitType,
                      NEW i \in OfType(traits, t), NEW j \in OfType(traits, t)
               PROVE  i = j
    BY DEF OneTraitPerTypeUnlessRaced
  <2>1. i \in DOMAIN traits /\ j \in DOMAIN traits
    BY DEF OfType
  <2>2. i[2] = t /\ j[2] = t
    BY <2>1, RowType DEF OfType, IInv, TypeOK
  <2>3. QED
    BY <2>1, <2>2 DEF CInv, UniqueTypes
<1>2. QED
  BY <1>1, CountsInvariant, PTL

(* Between reports each trait counts every validated outcome once, however *)
(* often saves were made again, as long as nobody raced or gave up.        *)
THEOREM OutcomesCountOnce == Spec => []CountedOnceUnlessRaced
<1>1. IInv /\ CInv => CountedOnceUnlessRaced
  <2> SUFFICES ASSUME IInv, CInv, ~raced, ~abandoned, \A a \in Agent : Idle(a),
                      NEW id \in DOMAIN traits
               PROVE  traits[id].confidence = Counted(outcomes)
    BY Zenon DEF CountedOnceUnlessRaced, Counted
  <2>1. \A a \in Agent : Owed(a) = {}
    BY DEF Idle, Owed, NoTraits
  <2>2. ~Doomed
    BY <2>1 DEF Doomed, Stale, Changing
  <2>3. CountsAll(id)
    BY <2>2 DEF CInv, Settled
  <2>4. traits[id].confidence >= Counted(outcomes)
    BY <2>1, <2>3 DEF CountsAll
  <2>5. /\ traits[id].confidence \in Int
        /\ traits[id].confidence <= Counted(outcomes)
        /\ Counted(outcomes) \in Int
    BY InRangeType, CountedType DEF CInv, IInv, TypeOK
  <2>6. QED
    BY <2>4, <2>5
<1>2. QED
  BY <1>1, CountsInvariant, PTL
=============================================================================
