------------------------- MODULE PlanningImagination -------------------------
(***************************************************************************)
(* ImaginationService::imagine_for_planning of memory-imagination: the     *)
(* connected clusters of the verified nodes of a packet, and the scenarios *)
(* that are built on them.                                                 *)
(*                                                                         *)
(* The texts of a scenario and its scores are left out: a scenario is what *)
(* it rests on.  Where the code sorts, any order of what compares equal is *)
(* possible, and so is any order in which the packet lists its nodes.      *)
(*                                                                         *)
(* An operator named X_Something is X with a fault seeded in it; no other  *)
(* definition uses it.                                                     *)
(***************************************************************************)
EXTENDS MemoryRecords, Ranking

CONSTANTS
  Imagined, Goal,     \* the nodes of these NodeTypes
  Reinforcements,     \* reinforcement_count of each lesson
  \* ImaginationPolicy
  DefaultScenarioCount, MaxScenarios, MaxBasisNodes, MaxLessons

ASSUME NodeTypeAssumption ==
  /\ Imagined \subseteq Node
  /\ Goal \subseteq Node
  /\ Imagined \intersect Goal = {}
ASSUME ReinforcementsAssumption == Reinforcements \in [Lesson -> Nat]
ASSUME ImaginationPolicyAssumption ==
  {DefaultScenarioCount, MaxScenarios, MaxBasisNodes, MaxLessons} \subseteq Nat

VARIABLES
  imagining,    \* where the call of imagine_for_planning is
  context,      \* its PlanningImaginationRequest
  stack, cluster, met,   \* connected_clusters' stack, cluster and visited
  clusters,     \* the clusters it has closed, each in the order it was found
  scenarios

imaginationVars ==
  <<imagining, context, stack, cluster, met, clusters, scenarios>>

-----------------------------------------------------------------------------
(* What may be imagined from *)

Verified(c) == c.nodes \ Imagined

Linked_Forward(c, n, m) ==
  /\ {n, m} \subseteq Verified(c)
  /\ \E e \in c.edges : e.from = n /\ e.to = m
(* The adjacency lists: both ends of an edge have to be verified. *)
Linked(c, n, m) ==
  /\ {n, m} \subseteq Verified(c)
  /\ \E e \in c.edges : <<e.from, e.to>> \in {<<n, m>>, <<m, n>>}

(* imagine_for_planning: the task is not empty, the context may be. *)
Begin(c) ==
  /\ imagining = "idle"
  /\ context' = c
  /\ imagining' = IF Verified(c) = {} THEN "EmptyContext" ELSE "clustering"
  /\ UNCHANGED <<stack, cluster, met, clusters, scenarios>>

-----------------------------------------------------------------------------
(* connected_clusters *)

(* The outer loop gets to a node that is not visited. *)
StartCluster ==
  /\ imagining = "clustering"
  /\ stack = <<>> /\ cluster = <<>>
  /\ \E n \in Verified(context) \ met :
       /\ stack' = <<n>>
       /\ met' = met \union {n}
  /\ UNCHANGED <<imagining, context, cluster, clusters, scenarios>>

(* The neighbors of n that are pushed. *)
Pushed(n) == {m \in Verified(context) : Linked(context, n, m)} \ met

(* One turn of the loop over the stack, which is popped at its end. *)
Visit ==
  /\ imagining = "clustering"
  /\ stack # <<>>
  /\ LET current == Last(stack) IN
       /\ cluster' = Append(cluster, current)
       /\ \E order \in SetToSeqs(Pushed(current)) :
            stack' = Front(stack) \o order
       /\ met' = met \union Pushed(current)
  /\ UNCHANGED <<imagining, context, clusters, scenarios>>

CloseCluster ==
  /\ imagining = "clustering"
  /\ stack = <<>> /\ cluster # <<>>
  /\ clusters' = clusters \union {cluster}
  /\ cluster' = <<>>
  /\ UNCHANGED <<imagining, context, stack, met, scenarios>>

-----------------------------------------------------------------------------
(* The scenarios *)

Worth(n) == 60 * Importance[n] + 40 * Confidence[n]

(* cluster_rank, an average; 2520 is divisible by every length up to 10. *)
ClusterRank(c) == SumFunctionOnSet([n \in ToSet(c) |-> Worth(n)], ToSet(c)) * (2520 \div Len(c))

(* active_goals: the goals, and the nodes that were requested; the most    *)
(* important node if there is none.                                        *)
ActiveGoals ==
  LET goals == (Goal \union context.requested) \intersect Verified(context) IN
  IF goals = {} THEN {<<n>> : n \in UNION Top(Verified(context), 1, Importance)}
  ELSE Sorted(goals, Importance)

Basis_Last(c) == SubSeq(c, Higher(1, Len(c) - Higher(MaxBasisNodes, 1) + 1), Len(c))
(* pick_cluster: how much of it is used. *)
Basis(c) == SubSeq(c, 1, Lower(Len(c), Higher(MaxBasisNodes, 1)))

LessonSupport(l, basis) ==
  60 * Cardinality(Supporting[l] \intersect ToSet(basis)) * 100
    + 30 * LessonConfidence[l] + 10 * Lower(10 * Reinforcements[l], 100)

SelectSupportingLessons(basis) ==
  Top(context.lessons, Higher(MaxLessons, 1),
      [l \in context.lessons |-> LessonSupport(l, basis)])

Desired ==
  IF context.desired = 0 THEN DefaultScenarioCount ELSE Lower(context.desired, MaxScenarios)

(* Element k of a list that starts again at its end. *)
Turn(k, options) == options[((k - 1) % Len(options)) + 1]

Imagine ==
  /\ imagining = "clustering"
  /\ Verified(context) \subseteq met /\ stack = <<>> /\ cluster = <<>>
  /\ \E order \in Sorted(clusters, [c \in clusters |-> ClusterRank(c)]),
        goals \in ActiveGoals :
       LET basis == [k \in 1..Desired |-> Basis(Turn(k, order))] IN
       \E lessons \in [1..Desired -> UNION {SelectSupportingLessons(b) : b \in Range(basis)}] :
         /\ \A k \in 1..Desired : lessons[k] \in SelectSupportingLessons(basis[k])
         /\ scenarios' = [k \in 1..Desired |->
                            [basis |-> basis[k], goal |-> Turn(k, goals),
                             lessons |-> lessons[k]]]
  /\ imagining' = "done"
  /\ UNCHANGED <<context, stack, cluster, met, clusters>>

-----------------------------------------------------------------------------
NoContext == [nodes |-> {}, edges |-> {}, lessons |-> {}, requested |-> {}, desired |-> 0]

ImaginationInit ==
  /\ imagining = "idle"
  /\ context = NoContext
  /\ stack = <<>>
  /\ cluster = <<>>
  /\ met = {}
  /\ clusters = {}
  /\ scenarios = <<>>

Imagining == StartCluster \/ Visit \/ CloseCluster \/ Imagine

Context == [nodes : SUBSET Node, edges : SUBSET Edge, lessons : SUBSET Lesson,
            requested : SUBSET Node, desired : Nat]

ImaginationNext == (\E c \in Context : Begin(c)) \/ Imagining

ImaginationSpec == ImaginationInit /\ [][ImaginationNext]_imaginationVars

-----------------------------------------------------------------------------
(* Properties *)

ImaginationTypeOK ==
  /\ imagining \in {"idle", "EmptyContext", "clustering", "done"}
  /\ context \in Context
  /\ stack \in Seq(met)
  /\ cluster \in Seq(met)
  /\ met \subseteq context.nodes
  /\ clusters \subseteq Seq(met)
  /\ \A k \in DOMAIN scenarios :
       /\ scenarios[k].basis \in Seq(met)
       /\ scenarios[k].goal \in context.nodes
       /\ scenarios[k].lessons \subseteq context.lessons

Joined(S, T) ==
  \E e \in context.edges : \/ e.from \in S /\ e.to \in T
                           \/ e.from \in T /\ e.to \in S

(* However S is cut in two, an edge joins the parts. *)
Connected(S) == \A T \in (SUBSET S) \ {{}, S} : Joined(T, S \ T)

(* The clusters are the connected components of the verified nodes: each   *)
(* of them is connected and lists no node twice, no edge leaves it, and    *)
(* every verified node is in one.                                          *)
ClustersAreComponents ==
  imagining = "done" =>
    /\ UNION {ToSet(c) : c \in clusters} = context.nodes \ Imagined
    /\ \A c \in clusters : Connected(ToSet(c)) /\ IsInjective(c)
    /\ \A c, d \in clusters : c # d => /\ ToSet(c) \intersect ToSet(d) = {}
                                       /\ ~Joined(ToSet(c), ToSet(d))

(* AGENT.md: imagination is generated from connected memory clusters, and  *)
(* imagined nodes are never treated as facts.  The basis of a scenario is  *)
(* connected in itself, without the nodes that the cap cut off, and no     *)
(* node of it is imagined; nor is the goal.                                *)
BasisConnected ==
  \A k \in DOMAIN scenarios :
    LET basis == ToSet(scenarios[k].basis) IN
    /\ basis # {}
    /\ Connected(basis)
    /\ (basis \union {scenarios[k].goal}) \intersect Imagined = {}
=============================================================================
