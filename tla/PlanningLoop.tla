---------------------------- MODULE PlanningLoop ----------------------------
(***************************************************************************)
(* An agent that plans: it has a context recalled, and hands the packet on *)
(* to have scenarios imagined from it.  The two calls are the services of  *)
(* agent-api; the loop is the one AGENT.md recommends.                     *)
(***************************************************************************)
EXTENDS RecallContext, PlanningImagination

CONSTANTS
  RequestedGoals,     \* the active_goal_node_ids agents ask for
  DesiredScenarios    \* the desired_scenarios they ask for

ASSUME PlanningAssumption ==
  RequestedGoals \subseteq SUBSET Node /\ DesiredScenarios \subseteq Nat

vars == <<recallVars, imaginationVars>>

-----------------------------------------------------------------------------
(* generate_imagined_scenarios, with the packet of recall_context. *)
GenerateImaginedScenarios ==
  /\ recall = "done"
  /\ \E goals \in RequestedGoals, desired \in DesiredScenarios :
       Begin([nodes |-> packet.nodes, edges |-> packet.edges,
              lessons |-> packet.lessons, requested |-> goals,
              desired |-> desired])
  /\ UNCHANGED recallVars

Init == RecallInit /\ ImaginationInit

Next ==
  \/ RecallNext /\ UNCHANGED imaginationVars
  \/ GenerateImaginedScenarios
  \/ Imagining /\ UNCHANGED recallVars

Spec == Init /\ [][Next]_vars

-----------------------------------------------------------------------------
(* Properties *)

TypeOK == RecallTypeOK /\ ImaginationTypeOK

(* What is recalled answers the query, and nothing else gets into a plan:  *)
(* a scenario rests on and aims at nodes of the packet, which are hits or  *)
(* in reach of one, even if the agent asks for other goals.                *)
ScenariosAnswerQuery ==
  /\ recall = "done" => \A n \in packet.nodes : AnswersQuery(n)
  /\ \A k \in DOMAIN scenarios :
       ToSet(scenarios[k].basis) \union {scenarios[k].goal} \subseteq packet.nodes

(* No lesson that rests on what was selected gives way to one that does    *)
(* not, however confident or reinforced that one is: neither in the packet *)
(* nor in a scenario.                                                      *)
LinkedLessonsFirst ==
  /\ recall = "done" => LinkedFirst(packet.lessons, request.lessons, packet.nodes)
  /\ \A k \in DOMAIN scenarios :
       LinkedFirst(scenarios[k].lessons, context.lessons, ToSet(scenarios[k].basis))
=============================================================================
