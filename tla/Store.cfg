\* Three writes, two days of four instants.
SPECIFICATION Spec
CONSTANTS
  n1 = n1
  n2 = n2
  l1 = l1
  e1 = e1
  e2 = e2
  t1 = t1
  c1 = c1
  s1 = s1
  k1 = k1
  x = x
  Node = {n1, n2}
  Lesson = {l1}
  EdgeId = {e1, e2}
  Trait = {t1}
  Checkpoint = {c1}
  Scenario = {s1}
  Scope = {k1}
  Session = {x}
  NoSubject = NoSubject
  Mentioned <- MCMentioned
  Limit = {1}
  Delay = {0, 3}
  DayLength = 4
  MaxWrites = 3
  MaxDays = 1
SYMMETRY MCSymmetry
INVARIANTS
  LatestDayFirst
  TypeOK
  AuditRegular
  AuditEvidence
CHECK_DEADLOCK FALSE
