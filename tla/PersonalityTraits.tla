-------------------------- MODULE PersonalityTraits --------------------------
(***************************************************************************)
(* Trait states: PersonalityService::record_outcome of memory-personality  *)
(* computes what a validated outcome does to the traits, save_trait_state  *)
(* of memory-store keeps them.                                             *)
(*                                                                         *)
(* As for lessons, the code between the two is an agent outside of the     *)
(* repository: it lists the traits, has an outcome recorded over the list  *)
(* and saves the traits that changed, one call each, in any order.         *)
(* Several agents share the table, in which trait_type is not unique.  A   *)
(* TraitId is a pair of the outcome that drew it and a trait type.         *)
(*                                                                         *)
(* Strength counts in 1/100000, a signal in 1/1000, usefulness, confidence *)
(* and the learning rate in 1/100: with these the arithmetic of the policy *)
(* is exact.                                                               *)
(*                                                                         *)
(* An operator named X_Something is X with a fault seeded in it; no other  *)
(* definition uses it.                                                     *)
(***************************************************************************)
EXTENDS Integers

CONSTANTS
  Agent,
  TraitType,        \* the trait types of trait_signals that are looked at
  Outcome,          \* the OutcomeRecords agents report
  \* PersonalityPolicy
  LearningRate, MaxStepPerOutcome, ConfidenceIncrement, MinimumStartStrength,
  MaxOutcomes,      \* bound: outcomes recorded
  MaxFailures       \* bound: calls that fail

Signalled == {"Practicality", "EvidenceReliance", "Proactivity", "Caution",
              "Curiosity", "NoveltySeeking", "Verbosity"}

Whole == 100000

ASSUME TraitTypeAssumption == TraitType \subseteq Signalled
ASSUME OutcomeAssumption ==
  Outcome \subseteq [success : BOOLEAN, usefulness : Int,
                     prediction_correct : BOOLEAN, user_accepted : BOOLEAN,
                     validated : BOOLEAN]
ASSUME PolicyAssumption ==
  /\ LearningRate \in 1..100
  /\ MaxStepPerOutcome \in 1..Whole
  /\ ConfidenceIncrement \in 0..100
  /\ MinimumStartStrength \in 0..Whole
ASSUME BoundsAssumption == MaxOutcomes \in Nat /\ MaxFailures \in Nat

VARIABLES
  traits,     \* the trait_state table, a function of the ids in it
  updated,    \* per agent, the traits it has yet to save
  saved,      \* per agent, those it has saved of the same outcome
  listed,     \* per agent, the traits it listed
  outcomes,   \* history: the validated outcomes recorded, in number
  reported,   \* history: the validated outcomes recorded, as a set
  failures,   \* history: failed calls
  abandoned,  \* history: an agent gave up some of its saves
  raced       \* history: a trait was saved over a table that had changed

vars == <<traits, updated, saved, listed, outcomes, reported, failures,
          abandoned, raced>>

Clamp(x, low, high) == IF x < low THEN low ELSE IF x > high THEN high ELSE x

-----------------------------------------------------------------------------
(* trait_signals *)

Sign(b) == IF b THEN 1 ELSE -1

UsefulnessSignal(o) == Clamp(2 * o.usefulness - 100, -100, 100)

Signal_FailureCalms(o, t) ==
  CASE t = "Practicality"     -> 7 * UsefulnessSignal(o) + 300 * Sign(o.success)
    [] t = "Caution"          -> IF o.success THEN 400 ELSE -200
    [] OTHER                  -> 0
Signal(o, t) ==
  CASE t = "Practicality"     -> 7 * UsefulnessSignal(o) + 300 * Sign(o.success)
    [] t = "EvidenceReliance" -> 600 * Sign(o.prediction_correct) + 4 * UsefulnessSignal(o)
    [] t = "Proactivity"      -> 700 * Sign(o.success) + 300 * Sign(o.user_accepted)
    [] t = "Caution"          -> IF o.success THEN -200
                                 ELSE IF o.prediction_correct THEN 400 ELSE 800
    [] t = "Curiosity"        -> IF o.usefulness > 60 /\ o.success THEN 400
                                 ELSE IF ~o.success /\ ~o.user_accepted THEN -200 ELSE 100
    [] t = "NoveltySeeking"   -> IF o.success /\ o.usefulness > 70 THEN 300
                                 ELSE IF ~o.success THEN -200 ELSE 0
    [] t = "Verbosity"        -> IF o.user_accepted /\ o.usefulness > 60 THEN 100
                                 ELSE IF ~o.user_accepted THEN -200 ELSE 0

-----------------------------------------------------------------------------
(* PersonalityService *)

DefaultTraitState(t) ==
  [trait_type |-> t, strength |-> MinimumStartStrength, confidence |-> 30]

ApplySignal_NoMaxStep(trait, signal) ==
  [trait EXCEPT
     !.strength   = Clamp(@ + Clamp(signal, -1000, 1000) * LearningRate, 0, Whole),
     !.confidence = Clamp(@ + ConfidenceIncrement, 0, 100)]
ApplySignal_SurerWhenRight(trait, signal) ==
  [trait EXCEPT
     !.strength   = Clamp(@ + Clamp(Clamp(signal, -1000, 1000) * LearningRate,
                                    -MaxStepPerOutcome, MaxStepPerOutcome),
                          0, Whole),
     !.confidence = IF signal > 0 THEN Clamp(@ + ConfidenceIncrement, 0, 100) ELSE @]
ApplySignal_Unclamped(trait, signal) ==
  [trait EXCEPT
     !.strength   = @ + Clamp(Clamp(signal, -1000, 1000) * LearningRate,
                              -MaxStepPerOutcome, MaxStepPerOutcome),
     !.confidence = Clamp(@ + ConfidenceIncrement, 0, 100)]
(* apply_signal *)
ApplySignal(trait, signal) ==
  [trait EXCEPT
     !.strength   = Clamp(@ + Clamp(Clamp(signal, -1000, 1000) * LearningRate,
                                    -MaxStepPerOutcome, MaxStepPerOutcome),
                          0, Whole),
     !.confidence = Clamp(@ + ConfidenceIncrement, 0, 100)]

(* The traits of type t in a list. *)
OfType(list, t) == {id \in DOMAIN list : list[id].trait_type = t}

FoundAt_NeverFound(list, t, new) == {new}
(* position finds a trait of type t; if there are several, the first of    *)
(* the list, which is ordered by updated_at.  If there is none, a trait    *)
(* with a new id is pushed.                                                *)
FoundAt(list, t, new) ==
  IF OfType(list, t) = {} THEN {new} ELSE OfType(list, t)

TraitBefore(list, id) ==
  IF id \in DOMAIN list THEN list[id] ELSE DefaultTraitState(id[2])

Validated_Ignored(o) == TRUE
Validated(o) == o.validated

(* record_outcome: the changes it may make to a list; drawn is the number  *)
(* in the ids it draws.                                                    *)
RecordOutcome(list, o, drawn) ==
  IF ~Validated(o) THEN {[id \in {} |-> {}]}
  ELSE LET found == {at \in [TraitType -> UNION {FoundAt(list, t, <<drawn, t>>) : t \in TraitType}] :
                       \A t \in TraitType : at[t] \in FoundAt(list, t, <<drawn, t>>)}
       IN  {[id \in {at[t] : t \in TraitType} |->
               ApplySignal(TraitBefore(list, id), Signal(o, id[2]))] : at \in found}

-----------------------------------------------------------------------------
(* The agents, and the store calls they make *)

NoTraits == [id \in {} |-> {}]

Idle(a) == updated[a] = NoTraits

(* list_trait_states, then record_outcome. *)
Report(a, o) ==
  /\ Idle(a)
  /\ outcomes < MaxOutcomes
  /\ updated' \in {[updated EXCEPT ![a] = changes] :
                     changes \in RecordOutcome(traits, o, outcomes + 1)}
  /\ listed' = [listed EXCEPT ![a] = traits]
  /\ saved' = [saved EXCEPT ![a] = NoTraits]
  /\ IF o.validated
     THEN outcomes' = outcomes + 1 /\ reported' = reported \union {o}
     ELSE UNCHANGED <<outcomes, reported>>
  /\ UNCHANGED <<traits, failures, abandoned, raced>>

(* INSERT ... ON CONFLICT(id) DO UPDATE: the row is written whole. *)
Put(table, id, row) ==
  [k \in DOMAIN table \union {id} |-> IF k = id THEN row ELSE table[k]]

(* What agent a left the table like, if nobody else wrote to it. *)
Expected(a) ==
  [id \in DOMAIN listed[a] \union DOMAIN saved[a] |->
     IF id \in DOMAIN saved[a] THEN saved[a][id] ELSE listed[a][id]]

(* save_trait_state *)
SaveTrait(a, id) ==
  /\ id \in DOMAIN updated[a]
  /\ traits' = Put(traits, id, updated[a][id])
  /\ saved' = [saved EXCEPT ![a] = Put(@, id, updated[a][id])]
  /\ raced' = (raced \/ traits # Expected(a))

SaveTraitState(a, id) ==
  /\ SaveTrait(a, id)
  /\ updated' = [updated EXCEPT ![a] = [k \in DOMAIN @ \ {id} |-> @[k]]]
  /\ UNCHANGED <<listed, outcomes, reported, failures, abandoned>>

(* The row is written, its read-back fails; the call will be made again. *)
SaveTraitStateFails(a, id) ==
  /\ SaveTrait(a, id)
  /\ failures < MaxFailures
  /\ failures' = failures + 1
  /\ UNCHANGED <<updated, listed, outcomes, reported, abandoned>>

(* The agent dies, or gives up the saves that are left. *)
GiveUp(a) ==
  /\ ~Idle(a)
  /\ failures < MaxFailures
  /\ failures' = failures + 1
  /\ updated' = [updated EXCEPT ![a] = NoTraits]
  /\ abandoned' = TRUE
  /\ UNCHANGED <<traits, saved, listed, outcomes, reported, raced>>

-----------------------------------------------------------------------------
Init ==
  /\ traits = NoTraits
  /\ updated = [a \in Agent |-> NoTraits]
  /\ saved = [a \in Agent |-> NoTraits]
  /\ listed = [a \in Agent |-> NoTraits]
  /\ outcomes = 0
  /\ reported = {}
  /\ failures = 0
  /\ abandoned = FALSE
  /\ raced = FALSE

Next == \E a \in Agent :
  \/ \E o \in Outcome : Report(a, o)
  \/ \E id \in DOMAIN updated[a] : SaveTraitState(a, id) \/ SaveTraitStateFails(a, id)
  \/ GiveUp(a)

Spec == Init /\ [][Next]_vars

-----------------------------------------------------------------------------
(* Properties *)

TraitId == Nat \X TraitType

Table(t) ==
  /\ DOMAIN t \subseteq TraitId
  /\ \A id \in DOMAIN t :
       t[id] \in [trait_type : {id[2]}, strength : 0..Whole, confidence : 0..100]

TypeOK ==
  /\ Table(traits)
  /\ DOMAIN updated = Agent /\ \A a \in Agent : Table(updated[a])
  /\ DOMAIN saved = Agent /\ \A a \in Agent : Table(saved[a])
  /\ DOMAIN listed = Agent /\ \A a \in Agent : Table(listed[a])
  /\ outcomes \in Nat
  /\ reported \subseteq Outcome
  /\ failures \in Nat
  /\ abandoned \in BOOLEAN
  /\ raced \in BOOLEAN

(* AGENT.md: traits update slowly, and from validated outcomes only.  No   *)
(* trait is ever further from where it started than the policy's step      *)
(* times the validated outcomes there were, whatever is saved twice, late, *)
(* or over the save of another agent.                                      *)
DriftBounded ==
  \A id \in DOMAIN traits :
    traits[id].strength - MinimumStartStrength
      \in -(outcomes * MaxStepPerOutcome)..(outcomes * MaxStepPerOutcome)

(* There is one trait of each type, unless a save went over a table that   *)
(* had changed since it was listed.                                        *)
OneTraitPerTypeUnlessRaced ==
  ~raced => \A t \in TraitType : \A i, j \in OfType(traits, t) : i = j

(* Every validated outcome counts once in each trait when nobody is in the *)
(* middle of saving: calls that took effect and are made again do not      *)
(* count twice, unless agents raced or gave up.                            *)
CountedOnceUnlessRaced ==
  (\A a \in Agent : Idle(a)) /\ ~raced /\ ~abandoned =>
    \A id \in DOMAIN traits :
      traits[id].confidence = Clamp(30 + outcomes * ConfidenceIncrement, 0, 100)

Failure(o) == ~o.success
Triumph(o) == o.success /\ o.usefulness > 50

(* Whatever agents race, repeated validated failures can only have raised  *)
(* caution, and repeated useful successes only practicality.               *)
OneSidedHistory ==
  \A id \in DOMAIN traits :
    /\ id[2] = "Caution" /\ (\A o \in reported : Failure(o))
         => traits[id].strength > MinimumStartStrength \/ traits[id].strength = Whole
    /\ id[2] = "Practicality" /\ (\A o \in reported : Triumph(o))
         => traits[id].strength > MinimumStartStrength \/ traits[id].strength = Whole
=============================================================================
