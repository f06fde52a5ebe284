--------------------------- MODULE MCPlanningLoop ---------------------------
(* Graphs of up to four of eight edges over five nodes, of which n4 is a    *)
(* goal and n5 imagined; n6 is known to an edge and to a lesson only.       *)
EXTENDS PlanningLoop

CONSTANTS n1, n2, n3, n4, n5, n6, l1, l2, l3, MaxEdges

MCNode   == {n1, n2, n3, n4, n5, n6}
MCLesson == {l1, l2, l3}

MCRecency    == [n \in MCNode |-> IF n = n3 THEN 20 ELSE 50]
MCImportance == [n \in MCNode |-> CASE n = n1 -> 80 [] n = n2 -> 60 [] n = n3 -> 10
                                    [] n = n4 -> 60 [] n = n5 -> 70 [] n = n6 -> 90]
MCConfidence == [n \in MCNode |-> IF n = n2 THEN 90 ELSE 40]

MCSupporting == [l \in MCLesson |-> CASE l = l1 -> {n1}
                                      [] l = l2 -> {}
                                      [] l = l3 -> {n4, n6}]
MCLessonConfidence == [l \in MCLesson |-> IF l = l2 THEN 100 ELSE 10]
MCReinforcements   == [l \in MCLesson |-> IF l = l2 THEN 20 ELSE 0]

L(n, m, w) == [from |-> n, to |-> m, weight |-> w]

Links == {L(n1, n2, 60), L(n3, n2, 80), L(n3, n1, 20), L(n3, n4, 40), L(n4, n5, 90),
          L(n5, n1, 50), L(n1, n6, 70), L(n2, n2, 90)}

(* Rows of n6 and of another model, which would displace those of n2 or n3.*)
R(model, similarity) == [model |-> model, similarity |-> similarity]
Rows == [n \in {n2, n4, n5, n6} |-> CASE n = n2 -> R("query's", 70)
                                      [] n = n4 -> R("other", 90)
                                      [] n = n5 -> R("query's", 40)
                                      [] n = n6 -> R("query's", 80)]

Hits == {[lexical |-> [n \in {n1} |-> 200], embeddings |-> NoCandidates],
         [lexical |-> [n \in {n1, n4} |-> IF n = n1 THEN 50 ELSE 200],
          embeddings |-> [n \in {n3} |-> R("query's", -20)]],
         [lexical |-> NoCandidates, embeddings |-> Rows],
         [lexical |-> [n \in {n5} |-> 120], embeddings |-> NoCandidates],
         [lexical |-> NoCandidates, embeddings |-> NoCandidates]}

MCRequest ==
  {[nodes |-> MCNode \ {n6}, edges |-> E, lessons |-> MCLesson,
    lexical |-> h.lexical, embeddings |-> h.embeddings, model |-> "query's"] :
     E \in UNION {kSubset(k, Links) : k \in 0..MaxEdges}, h \in Hits}

MCRequestedGoals == {{}, {n2, n5}}
=============================================================================
