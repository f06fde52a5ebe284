-------------------------- MODULE MCLessonEvidence --------------------------
(* Four statements: s2 is a variant of s1, n is s1 with a negation cue, s2  *)
(* and n are as far apart as the handler's overlap just does not reach; v   *)
(* has no term that is long enough to be compared.                          *)
EXTENDS LessonEvidence

CONSTANTS a1, a2, m1, m2, m3, m4, m5, m6, s1, s2, n, v

MCAgent     == {a1, a2}
MCSymmetry  == Permutations(MCAgent)
MCMemory    == {m1, m2, m3, m4, m5, m6}
MCStatement == {s1, s2, n, v}
MCNegated   == {n}

MCSays == [m \in MCMemory |-> CASE m \in {m1, m4, m5} -> s1
                                [] m = m2             -> s2
                                [] m = m3             -> n
                                [] m = m6             -> v]

MCInferredType == [m \in MCMemory |-> IF m = m4 THEN "System" ELSE "Task"]
MCImportance   == [m \in MCMemory |-> IF m = m5 THEN 44 ELSE 45]
MCConfidence   == [m \in MCMemory |-> IF m = m2 THEN 95 ELSE 60]

MCOverlap == [p \in MCStatement \X MCStatement |->
  CASE v \in {p[1], p[2]}     -> 0
    [] p[1] = p[2]          -> 100
    [] {p[1], p[2]} = {s1, s2} -> 50
    [] {p[1], p[2]} = {s1, n}  -> 60
    [] {p[1], p[2]} = {s2, n}  -> 45]

MCBatch == {<<m3>>, <<m4>>, <<m6>>, <<m1, m4>>, <<m5, m2>>}
=============================================================================
