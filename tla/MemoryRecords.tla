---------------------------- MODULE MemoryRecords ----------------------------
(* The rows of memory-core that recall and imagination read: what they use  *)
(* of a Node, an Edge and a Lesson.  Scores and weights are hundredths.     *)
EXTENDS Integers, FiniteSets

CONSTANTS
  Node, Lesson,                  \* the ids
  Importance, Confidence,        \* of each node
  Supporting, LessonConfidence   \* of each lesson, supporting_node_ids first

Unit == 0..100

Edge == [from : Node, to : Node, weight : Unit]

ASSUME NodeAssumption ==
  /\ IsFiniteSet(Node)
  /\ Importance \in [Node -> Unit]
  /\ Confidence \in [Node -> Unit]
ASSUME LessonAssumption ==
  /\ Supporting \in [Lesson -> SUBSET Node]
  /\ LessonConfidence \in [Lesson -> Unit]
=============================================================================
